--------------------------- MODULE IdentityAccess ---------------------------
(***************************************************************************)
(* Who a person is (identity.py, access.py, authorization.py,              *)
(* provisioning.py).  The keys that sign tokens are fetched from the       *)
(* identity provider and cached under a lock; a verified token leads to    *)
(* the tenant of its organization, its actor and its roles, which a        *)
(* privileged tool creates and changes meanwhile.                          *)
(***************************************************************************)
EXTENDS Naturals, FiniteSets

CONSTANTS Kids,           \* kid, signing keys of the provider
          Requesters,     \* HTTP requests, each with one token
          Tenants, Organizations, Subjects,
          Actors,         \* one for every run of bootstrap-owner
          Rows,           \* role_assignments, taken in their order
          Ttl, Cooldown,  \* oidc_jwks_cache_ttl_seconds, oidc_jwks_forced_refresh_cooldown_seconds
          Nil,
          MaxTick         \* bound of the clock

ASSUME CacheAssumption == Ttl \in Nat \ {0} /\ Cooldown \in Nat \ {0} /\ Rows \subseteq Nat \ {0}
ASSUME NilAssumption == Nil \notin Requesters \cup Actors /\ MaxTick \in Nat

VARIABLES
    provider,    \* external: [served, until], the keys served and when each was last
    tick,        \* monotonic()
    jwks,        \* CachedJWKSet: [keys, expires, forced, lock]
    asked,       \* what each request is doing
    tenant,      \* tenants.status
    binding,     \* tenant_identity_bindings
    identity,    \* actor_identities
    role,        \* role_assignments
    ledger,      \* audit_events: [action, target]
    boot,        \* what each run of bootstrap-owner is doing
    held         \* role assignments read by somebody about to change them

keyVars == <<provider, tick, jwks>>
personVars == <<tenant, binding, identity, role, ledger, boot, held>>
identityVars == <<keyVars, asked, personVars>>

NoRequest == [at |-> "idle", kid |-> Nil, org |-> Nil, subject |-> Nil, now |-> 0,
              tenant |-> Nil, actor |-> Nil, grants |-> {}]
NoRow == [actor |-> Nil, role |-> "none", active |-> FALSE]

IdentityInit ==
    /\ \E k \in Kids : provider = [served |-> {k}, until |-> [x \in Kids |-> 0]]
    /\ tick = 0 /\ jwks = [keys |-> {}, expires |-> 0, forced |-> 0, lock |-> Nil]
    /\ asked = [r \in Requesters |-> NoRequest]
    /\ tenant = [t \in Tenants |-> "none"] /\ binding = {} /\ identity = {}
    /\ role = [i \in Rows |-> NoRow] /\ ledger = {}
    /\ boot = [a \in Actors |-> [at |-> "new", tenant |-> Nil, org |-> Nil, subject |-> Nil]]
    /\ held = {}

AskedAt(r, step) == asked[r].at = step
GoTo(r, step) == asked' = [asked EXCEPT ![r].at = step]
Answered(r) == asked' = [asked EXCEPT ![r] = NoRequest]

-----------------------------------------------------------------------------
(* External: time passes, and the provider replaces its signing key.  Waiting and fetching take   *)
(* time; what follows an answer takes none.                                                       *)

TimePasses ==
    /\ tick < MaxTick /\ tick' = tick + 1
    /\ \A r \in Requesters : asked[r].at \notin {"lookup", "decided"}
    /\ UNCHANGED <<provider, jwks, asked, personVars>>

Rotate(k) ==
    /\ k \notin provider.served
    /\ provider' = [served |-> {k}, until |-> [x \in Kids |-> IF x \in provider.served THEN tick
                                                             ELSE provider.until[x]]]
    /\ UNCHANGED <<tick, jwks, asked, personVars>>

Ask(r, k, o, s) ==
    /\ AskedAt(r, "idle")
    /\ asked' = [asked EXCEPT ![r] = [NoRequest EXCEPT !.at = "waiting", !.kid = k, !.org = o,
                                                       !.subject = s]]
    /\ UNCHANGED <<keyVars, personVars>>

-----------------------------------------------------------------------------
(* CachedJWKSet.get *)

\* The lock is taken, the time is read and an empty or expired cache is refreshed.
Enter(r) ==
    /\ AskedAt(r, "waiting") /\ jwks.lock = Nil /\ jwks' = [jwks EXCEPT !.lock = r]
    /\ asked' = [asked EXCEPT ![r].now = tick, ![r].at =
                    IF jwks.keys = {} \/ tick >= jwks.expires THEN "refreshing" ELSE "lookup"]
    /\ UNCHANGED <<provider, tick, personVars>>

\* The provider answers: its keys replace the cached ones.
KeysReplaced == [jwks EXCEPT !.keys = provider.served, !.expires = tick + Ttl]
Fetched(r) ==
    /\ \/ AskedAt(r, "refreshing") /\ GoTo(r, "lookup")
       \/ AskedAt(r, "forcing") /\ GoTo(r, "decided")
    /\ jwks' = KeysReplaced
    /\ UNCHANGED <<provider, tick, personVars>>

\* The provider does not answer in time, or the client goes away: the cache stays as it is.
FetchFails(r) ==
    /\ asked[r].at \in {"refreshing", "forcing"}
    /\ jwks' = [jwks EXCEPT !.lock = Nil] /\ Answered(r)
    /\ UNCHANGED <<provider, tick, personVars>>

\* An unknown key asks for one more refresh, unless the last such one is too recent.
Cooling(r) == asked[r].now < jwks.forced + Cooldown
Decide(r) ==
    /\ asked[r].at \in {"lookup", "decided"}
    /\ IF asked[r].kid \in jwks.keys
       THEN GoTo(r, "verified") /\ jwks' = [jwks EXCEPT !.lock = Nil]
       ELSE IF AskedAt(r, "decided") \/ Cooling(r)
            THEN Answered(r) /\ jwks' = [jwks EXCEPT !.lock = Nil]
            ELSE GoTo(r, "forcing") /\ jwks' = [jwks EXCEPT !.forced = asked[r].now]
    /\ UNCHANGED <<provider, tick, personVars>>

-----------------------------------------------------------------------------
(* resolve_authenticated_principal; a statement sees what was committed before it *)

FindTenant(r) ==
    /\ AskedAt(r, "verified")
    /\ LET found == {t \in Tenants : tenant[t] = "ACTIVE" /\ [org |-> asked[r].org, tenant |-> t] \in binding} IN
       IF found = {} THEN Answered(r)
       ELSE \E t \in found : asked' = [asked EXCEPT ![r].tenant = t, ![r].at = "tenant"]
    /\ UNCHANGED <<keyVars, personVars>>

FindActor(r) ==
    /\ AskedAt(r, "tenant")
    /\ LET found == {a \in Actors : [tenant |-> asked[r].tenant, subject |-> asked[r].subject,
                                     actor |-> a] \in identity} IN
       IF found = {} THEN Answered(r)
       ELSE \E a \in found : asked' = [asked EXCEPT ![r].actor = a, ![r].at = "actor"]
    /\ UNCHANGED <<keyVars, personVars>>

FindRoles(r) ==
    /\ AskedAt(r, "actor")
    /\ LET found == {i \in Rows : role[i].active /\ role[i].actor = asked[r].actor} IN
       IF found = {} THEN Answered(r)
       ELSE asked' = [asked EXCEPT ![r].grants = found, ![r].at = "serving"]
    /\ UNCHANGED <<keyVars, personVars>>

Respond(r) == AskedAt(r, "serving") /\ Answered(r) /\ UNCHANGED <<keyVars, personVars>>

-----------------------------------------------------------------------------
(* veotrex-provision *)

Recorded(action, target) == [action |-> action, target |-> target]

\* ensure_tenant: created once, under the id the operator gave; a second run changes nothing.
EnsureTenant(t) ==
    /\ tenant[t] = "none"
    /\ tenant' = [tenant EXCEPT ![t] = "ACTIVE"]
    /\ ledger' = ledger \cup {Recorded("tenant.created", t)}
    /\ UNCHANGED <<keyVars, asked, binding, identity, role, boot, held>>

\* External: the tenant is suspended by hand.
Suspend(t) ==
    /\ tenant[t] = "ACTIVE" /\ tenant' = [tenant EXCEPT ![t] = "SUSPENDED"]
    /\ UNCHANGED <<keyVars, asked, binding, identity, role, ledger, boot, held>>

Bound(o) == \E t \in Tenants : [org |-> o, tenant |-> t] \in binding
SignsInAs(t, s) == \E a \in Actors : [tenant |-> t, subject |-> s, actor |-> a] \in identity

\* bootstrap_owner looks for a tenant in use and for bindings that exist ...
LookBeforeBinding(a, t, o, s) ==
    /\ boot[a].at = "new" /\ tenant[t] = "ACTIVE" /\ ~Bound(o) /\ ~SignsInAs(t, s)
    /\ boot' = [boot EXCEPT ![a] = [at |-> "looked", tenant |-> t, org |-> o, subject |-> s]]
    /\ UNCHANGED <<keyVars, asked, tenant, binding, identity, role, ledger, held>>

\* ... and inserts; what another run has inserted meanwhile meets a unique constraint.
Unique(a) == ~Bound(boot[a].org) /\ ~SignsInAs(boot[a].tenant, boot[a].subject)
FreeRows == {i \in Rows : role[i] = NoRow}
Lowest(S) == CHOOSE i \in S : \A k \in S : i <= k

BindOwner(a) ==
    LET b == boot[a] IN
    /\ b.at = "looked" /\ Unique(a) /\ FreeRows # {}
    /\ binding' = binding \cup {[org |-> b.org, tenant |-> b.tenant]}
    /\ identity' = identity \cup {[tenant |-> b.tenant, subject |-> b.subject, actor |-> a]}
    /\ role' = [role EXCEPT ![Lowest(FreeRows)] = [actor |-> a, role |-> "TENANT_OWNER", active |-> TRUE]]
    /\ ledger' = ledger \cup {Recorded("tenant_binding.created", b.org),
                              Recorded("actor_binding.created", a),
                              Recorded("role.created", Lowest(FreeRows))}
    /\ boot' = [boot EXCEPT ![a].at = "bound"]
    /\ UNCHANGED <<keyVars, asked, tenant, held>>

BindFails(a) ==
    /\ boot[a].at = "looked" /\ boot' = [boot EXCEPT ![a].at = "refused"]
    /\ UNCHANGED <<keyVars, asked, tenant, binding, identity, role, ledger, held>>

-----------------------------------------------------------------------------
(* Roles: a row is read, and archived or replaced later *)

HoldRow(i) ==
    /\ role[i].active /\ i \notin held /\ held' = held \cup {i}
    /\ UNCHANGED <<keyVars, asked, tenant, binding, identity, role, ledger, boot>>

\* change_role_assignment; an active row with that role already is a unique constraint.
ChangeRole(i, new) ==
    /\ i \in held /\ FreeRows # {} /\ held' = held \ {i}
    /\ \A k \in Rows \ {i} : role[k].active => role[k].actor # role[i].actor \/ role[k].role # new
    /\ role' = [role EXCEPT ![i].active = FALSE,
                            ![Lowest(FreeRows)] = [actor |-> role[i].actor, role |-> new, active |-> TRUE]]
    /\ ledger' = ledger \cup {Recorded("role.changed", Lowest(FreeRows))}
    /\ UNCHANGED <<keyVars, asked, tenant, binding, identity, boot>>

\* revoke_role_assignment writes its event whether the row was active or not.
RevokeRole(i) ==
    /\ i \in held /\ held' = held \ {i}
    /\ role' = [role EXCEPT ![i].active = FALSE]
    /\ ledger' = ledger \cup {Recorded("role.revoked", i)}
    /\ UNCHANGED <<keyVars, asked, tenant, binding, identity, boot>>

KeyStep ==
    \/ TimePasses \/ \E k \in Kids : Rotate(k)
    \/ \E r \in Requesters : Enter(r) \/ Fetched(r) \/ FetchFails(r) \/ Decide(r)
PersonStep ==
    \/ \E r \in Requesters : FindTenant(r) \/ FindActor(r) \/ FindRoles(r) \/ Respond(r)
    \/ \E t \in Tenants : EnsureTenant(t) \/ Suspend(t)
    \/ \E a \in Actors : BindOwner(a) \/ BindFails(a)
    \/ \E a \in Actors, t \in Tenants, o \in Organizations, s \in Subjects : LookBeforeBinding(a, t, o, s)
    \/ \E i \in Rows : HoldRow(i) \/ RevokeRole(i) \/ ChangeRole(i, "FACILITY_ADMIN")
                       \/ ChangeRole(i, "VIEWER")
IdentityStep ==
    \/ KeyStep \/ PersonStep
    \/ \E r \in Requesters, k \in Kids, o \in Organizations, s \in Subjects : Ask(r, k, o, s)

-----------------------------------------------------------------------------
IdentityTypeOK ==
    /\ jwks.keys \subseteq Kids /\ jwks.lock \in Requesters \cup {Nil}
    /\ \A r \in Requesters : asked[r].at \in {"refreshing", "lookup", "forcing", "decided"} <=> jwks.lock = r
    /\ held \subseteq Rows /\ tick \in 0..MaxTick

\* A key is trusted no longer than the life of the cache after the provider withdrew it, however
\* requests, refreshes, failures and rotations interleave.
Age(k) == IF k \in provider.served THEN 0 ELSE tick - provider.until[k]
KeysFresh ==
    \A k \in jwks.keys : tick < jwks.expires => Age(k) < Ttl

\* An organization belongs to one tenant, and it is bound together with an owner who can sign in and
\* a complete audit trail, or not at all.
BoundOnce ==
    /\ \A x, y \in binding : x.org = y.org => x = y
    /\ \A x, y \in identity : x.tenant = y.tenant /\ x.subject = y.subject => x = y
    /\ \A b \in binding : \E a \in Actors :
          /\ boot[a].at = "bound" /\ boot[a].org = b.org
          /\ [tenant |-> b.tenant, subject |-> boot[a].subject, actor |-> a] \in identity
          /\ {Recorded("tenant_binding.created", b.org), Recorded("actor_binding.created", a)} \subseteq ledger
          /\ \E i \in Rows : role[i].actor = a /\ Recorded("role.created", i) \in ledger

\* A request is served in the tenant of its organization, as the actor of its subject there, with
\* roles of that actor that somebody granted on record.
ServedAsOneself ==
    \A r \in Requesters : AskedAt(r, "serving") =>
        /\ [org |-> asked[r].org, tenant |-> asked[r].tenant] \in binding
        /\ [tenant |-> asked[r].tenant, subject |-> asked[r].subject, actor |-> asked[r].actor] \in identity
        /\ \A i \in asked[r].grants :
              /\ role[i].actor = asked[r].actor
              /\ {Recorded("role.created", i), Recorded("role.changed", i)} \cap ledger # {}
              /\ role[i].active \/ Recorded("role.revoked", i) \in ledger
                 \/ \E k \in Rows : k > i /\ role[k].actor = role[i].actor
                                    /\ Recorded("role.changed", k) \in ledger

IdentityInv == IdentityTypeOK /\ KeysFresh /\ BoundOnce /\ ServedAsOneself
=============================================================================
