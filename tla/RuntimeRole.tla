---------------------------- MODULE RuntimeRole -----------------------------
(***************************************************************************)
(* veotrex-db-runtime-role (runtime_role.py): the restricted PostgreSQL    *)
(* role the API connects as.  The tool inspects the catalog, executes a    *)
(* plan in one transaction, verifies what it sees and commits; meanwhile   *)
(* migrations add tables and functions, and an operator changes things by  *)
(* hand.                                                                   *)
(***************************************************************************)
EXTENDS Naturals, FiniteSets

CONSTANTS Tables, Functions,
          Privileges,      \* TABLE_PRIVILEGES
          Classified,      \* TABLE_CLASSIFICATION: a function from a part of Tables to sets of privileges
          FunctionGrants,  \* RUNTIME_FUNCTION_GRANTS
          MaxDrift         \* bound: changes made by hand

ASSUME ClassifiedAssumption ==
    /\ DOMAIN Classified \subseteq Tables /\ FunctionGrants \subseteq Functions
    /\ \A t \in DOMAIN Classified : Classified[t] \subseteq Privileges
    /\ Tables \cap Functions = {} /\ MaxDrift \in Nat

VARIABLES
    catalog,     \* what is committed in PostgreSQL
    drifts,      \* bound: how often the operator has changed it
    tool,        \* the tool, one of it at a time
    exit,        \* history: what a tool that ended with 0 had looked at, if nothing has drifted since
    applied      \* history: the objects of the last plan, those there at its commit, no drift since

roleVars == <<catalog, drifts, tool, exit, applied>>

Wanted(t) == IF t \in DOMAIN Classified THEN Classified[t] ELSE {}
Objects == Tables \cup Functions
NoTool == [at |-> "idle", op |-> "none", password |-> FALSE, plan |-> {}, looked |-> {},
           problem |-> FALSE, clean |-> FALSE]
NoExit == [looked |-> {}, clean |-> FALSE]
NotApplied == [plan |-> {}, known |-> {}, clean |-> FALSE]
Inventory(c) == c.tables \cup c.functions

RoleInit ==
    /\ catalog = [exists |-> FALSE, credential |-> FALSE, restricted |-> FALSE, beyond |-> {},
                  create |-> FALSE, tables |-> {}, functions |-> {},
                  grants |-> [t \in Tables |-> {}], execute |-> {}, public |-> {},
                  roleDefault |-> FALSE, publicDefault |-> TRUE, ownPublic |-> TRUE,
                  artifact |-> FALSE]
    /\ drifts = 0 /\ tool = NoTool
    /\ exit = NoExit
    /\ applied = NotApplied

-----------------------------------------------------------------------------
\* inspect_schema finds the role and the objects; build_plan refuses a database that is not migrated.
Planned(inv, password) ==
    /\ {t \in Tables : Wanted(t) # {}} \cup FunctionGrants \subseteq inv
    /\ catalog.exists \/ password

\* Every table there is revoked, and what its classification says granted.
KnownOnly(c, t, inv) == IF t \in inv \cap DOMAIN Classified THEN Classified[t] ELSE c.grants[t]  \* faulty variant
Converged(c, t, inv) == IF t \in inv THEN Wanted(t) ELSE c.grants[t]

\* The statements of a plan made for the objects of inv.
Effects(c, inv, password) ==
    [c EXCEPT !.exists = TRUE, !.restricted = TRUE, !.credential = @ \/ password,
              !.create = FALSE,
              !.grants = [t \in Tables |-> Converged(c, t, inv)],
              !.execute = (@ \ inv) \cup (FunctionGrants \cap inv),
              !.roleDefault = FALSE, !.publicDefault = FALSE, !.ownPublic = FALSE]

\* What the tool's own connection sees: the committed catalog and its own statements.
View == IF tool.plan = {} THEN catalog ELSE Effects(catalog, tool.plan, tool.password)

MayRead(c, t) == c.grants[t]
MayExecute(c) == c.execute \cup c.public
RoleProblem(c) == \/ ~c.restricted \/ c.beyond # {} \/ c.create
                  \/ c.roleDefault \/ c.publicDefault \/ c.ownPublic
ObjectProblem(c, o) ==
    \/ o \in Tables /\ (o \notin DOMAIN Classified \/ MayRead(c, o) # Wanted(o))
    \/ o \in Functions /\ (o \in c.public \/ (o \in MayExecute(c)) # (o \in FunctionGrants))

-----------------------------------------------------------------------------
\* A migration creates a table or a function; what the defaults give to it can be revoked at once.
Migrate(o, careful) ==
    /\ o \notin Inventory(catalog)
    /\ catalog' = IF o \in Tables
                  THEN [catalog EXCEPT !.tables = @ \cup {o},
                                       !.grants[o] = IF catalog.roleDefault THEN Privileges ELSE {}]
                  ELSE [catalog EXCEPT !.functions = @ \cup {o},
                           !.public = IF catalog.publicDefault /\ ~careful THEN @ \cup {o} ELSE @]
    /\ UNCHANGED <<drifts, tool, exit, applied>>

\* The operator; rows the tool has changed and not committed are locked.
Drift ==
    /\ drifts < MaxDrift /\ drifts' = drifts + 1
    /\ \/ \E b \in SUBSET {"member", "owner"} :
            /\ tool.plan # {} => ("owner" \in b <=> "owner" \in catalog.beyond)
            /\ catalog' = [catalog EXCEPT !.beyond = b]
       \/ /\ tool.plan = {}
          /\ \/ catalog' = [catalog EXCEPT !.restricted = FALSE]
             \/ catalog' = [catalog EXCEPT !.create = TRUE]
             \/ \E t \in catalog.tables, ps \in {{}, Privileges} :
                   catalog' = [catalog EXCEPT !.grants[t] = ps]
             \/ \E f \in catalog.functions : catalog' = [catalog EXCEPT !.public = @ \cup {f}]
             \/ \E f \in catalog.functions : catalog' = [catalog EXCEPT !.public = @ \ {f}]
             \/ catalog' = [catalog EXCEPT !.roleDefault = TRUE]
    /\ catalog.exists
    /\ tool' = [tool EXCEPT !.clean = FALSE]
    /\ exit' = NoExit
    /\ applied' = NotApplied

-----------------------------------------------------------------------------
\* main: the command line and the connection, for a probe as the role or as somebody else.
StartTool(op, password) ==
    /\ tool = NoTool /\ (password => op = "apply")
    /\ tool' = [NoTool EXCEPT !.at = "connected", !.op = op, !.password = password]
    /\ UNCHANGED <<catalog, drifts, exit, applied>>

Ends(code) ==
    /\ tool' = NoTool
    /\ exit' = IF code = "0" THEN [looked |-> tool.looked, clean |-> tool.clean] ELSE NoExit

\* Refusals, a statement that fails and the death of the tool leave the catalog as it was.
FailTool == tool # NoTool /\ Ends("2") /\ UNCHANGED <<catalog, drifts, applied>>

\* apply: plan and execute; nobody else sees it yet.
ExecutePlan ==
    /\ tool.at = "connected" /\ tool.op = "apply"
    /\ Planned(Inventory(catalog), tool.password)
    /\ tool' = [tool EXCEPT !.at = "executed", !.plan = Inventory(catalog)]
    /\ UNCHANGED <<catalog, drifts, exit, applied>>

\* verify reads the attributes and the objects, and then object by object what the role may do.
LookAtRole ==
    /\ tool.at = "executed" \/ (tool.at = "connected" /\ tool.op = "verify" /\ catalog.exists)
    /\ tool' = [tool EXCEPT !.at = "looked", !.looked = Inventory(View), !.clean = TRUE,
                            !.problem = ~View.restricted]
    /\ UNCHANGED <<catalog, drifts, exit, applied>>

CheckObjects ==
    /\ tool.at = "looked"
    /\ tool' = [tool EXCEPT !.at = "checked",
                   !.problem = @ \/ RoleProblem(View) \/ \E o \in tool.looked : ObjectProblem(View, o)]
    /\ UNCHANGED <<catalog, drifts, exit, applied>>

\* The answer; the connection's transaction is committed on the way out, problems or not.
FinishTool ==
    /\ tool.at = "checked"
    /\ catalog' = View
    /\ Ends(IF tool.problem THEN "1" ELSE "0")
    /\ applied' = IF tool.plan = {} THEN applied
                  ELSE IF ~tool.clean THEN NotApplied
                  ELSE [plan |-> tool.plan, known |-> Inventory(catalog), clean |-> TRUE]
    /\ UNCHANGED drifts

-----------------------------------------------------------------------------
\* probe: the identity gate, which reads only, and the search for what an earlier run left.
Gate(asRole) == /\ asRole /\ catalog.restricted /\ catalog.beyond = {} /\ ~catalog.create

PassGate(asRole) ==
    /\ tool.at = "connected" /\ tool.op = "probe" /\ (asRole => catalog.exists)
    /\ IF Gate(asRole) THEN tool' = [tool EXCEPT !.at = "gated"] /\ exit' = exit ELSE Ends("1")
    /\ UNCHANGED <<catalog, drifts, applied>>

LookForArtifacts ==
    /\ tool.at = "gated"
    /\ IF catalog.artifact THEN Ends("1") ELSE tool' = [tool EXCEPT !.at = "probing"] /\ exit' = exit
    /\ UNCHANGED <<catalog, drifts, applied>>

\* The active checks: the role tries to create a table, in a transaction that is always rolled back.
TryToCreate ==
    /\ tool.at = "probing"
    /\ tool' = [tool EXCEPT !.at = "tried", !.problem = catalog.create \/ ~catalog.restricted]
    /\ UNCHANGED <<catalog, drifts, exit, applied>>

RolledBack == UNCHANGED catalog
EndOfProbe ==
    /\ tool.at = "tried" /\ RolledBack
    /\ tool' = [tool EXCEPT !.at = "checked"] /\ UNCHANGED <<drifts, exit, applied>>

RoleStep ==
    \/ \E o \in Objects, careful \in BOOLEAN : Migrate(o, careful)
    \/ Drift \/ FailTool \/ ExecutePlan \/ LookAtRole \/ CheckObjects \/ FinishTool
    \/ \E op \in {"apply", "verify", "probe"}, password \in BOOLEAN : StartTool(op, password)
    \/ \E asRole \in BOOLEAN : PassGate(asRole)
    \/ LookForArtifacts \/ TryToCreate \/ EndOfProbe

-----------------------------------------------------------------------------
RoleTypeOK ==
    /\ catalog.tables \subseteq Tables /\ catalog.functions \subseteq Functions
    /\ catalog.grants \in [Tables -> SUBSET Privileges]
    /\ catalog.execute \subseteq catalog.functions /\ catalog.public \subseteq catalog.functions
    /\ tool.plan \subseteq Objects /\ tool.looked \subseteq Inventory(catalog)
    /\ drifts \in 0..MaxDrift

\* "apply converges an existing database": once it is committed the tables of its plan are exactly as
\* classified.  "The model fails closed": what a migration creates later is out of the role's reach
\* until the next apply, whatever the defaults were before.
FailsClosed ==
    applied.clean =>
        /\ \A t \in Tables \cap applied.plan : catalog.grants[t] = Wanted(t)
        /\ \A o \in Inventory(catalog) \ applied.known :
              IF o \in Tables THEN catalog.grants[o] = {} ELSE o \notin MayExecute(catalog)

\* A run that ends with 0 is right about everything it looked at, whatever migrations add meanwhile,
\* until an operator changes something.
ZeroMeansExact ==
    exit.clean =>
        ~RoleProblem(catalog) /\ \A o \in exit.looked : ~ObjectProblem(catalog, o)

\* "Running it twice is a no-op", on the objects of the plan.
NoOpTwice == applied.clean => Effects(catalog, applied.plan, FALSE) = catalog

\* The role is never left without a credential, and a probe leaves nothing behind even when its
\* table could be created after the gate had been passed.
RoleUsable == (catalog.exists => catalog.credential) /\ ~catalog.artifact

RuntimeRoleInv == RoleTypeOK /\ FailsClosed /\ ZeroMeansExact /\ NoOpTwice /\ RoleUsable
=============================================================================
