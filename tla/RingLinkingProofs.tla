------------------------ MODULE RingLinkingProofs --------------------------
(***************************************************************************)
(* Proofs about the Ring account's links and its inventory.  The inductive *)
(* invariant Inv of RingLinking holds of every reachable state, for any    *)
(* number of links, workers and notices and any bounds, and the properties *)
(* follow from it; that of RingInventory is InventoryStands.               *)
(*                                                                         *)
(* One lemma per action shows that it keeps Inv, one step per conjunct.    *)
(* The two arguments that are not local to a worker: a link somebody       *)
(* receives or claims has one user (SoleUsers) because the states those    *)
(* users leave behind are not states others start from (PlacesKnow), and   *)
(* a row lock keeps vault and generation together while it is held.  Of    *)
(* the inventory: a task acts on what it read before, so the invariant     *)
(* says what each task still knows of the rows at each of its steps.       *)
(***************************************************************************)
EXTENDS RingLinking, RingInventory, SequenceTheorems, TLAPS

\* Program counters and the groups of variables are seen through everywhere.
USE DEF At, On, Idle, vars, pending, connections, webhooks, history,
        Receiving, Claiming, Activating, Locking, Removing

-----------------------------------------------------------------------------

\* A worker that is neither idle nor looking for a target has a link.
LEMMA Working ==
    ASSUME Inv, NEW w \in Workers, job[w].at \notin {"idle", "resolve"}
    PROVE  On(w) \in Links
BY DEF Inv, GoalsMatch

\* Nobody works on an unclaimed link, and a link with a connection is neither received nor
\* claimed any more.
LEMMA Untouched ==
    ASSUME Inv, NEW w \in Workers, NEW l \in Links, On(w) = l
    PROVE  /\ link[l] # "UNCLAIMED"
           /\ conn[l] # "none" => job[w].at \notin Receiving \cup Claiming
BY RingLinkingAssumption DEF Inv, GoalsMatch, PlacesKnow, RowsAgree

\* The initial states.
LEMMA InitInv == Init => Inv
<1> SUFFICES ASSUME Init PROVE Inv
  OBVIOUS
<1>1. TypeOK
  <2>1. job \in [Workers -> [at : Places, link : Links \cup {None}, goal : Goals]]
    BY DEF Init, Places, Goals
  <2>2. /\ vault \in [Links -> 0..MaxVersion] /\ generation \in [Links -> 1..MaxVersion]
        /\ attempts \in [Notices -> 0..MaxAttempts] /\ posts \in [Links -> Nat]
    BY RingLinkingAssumption DEF Init
  <2> QED BY <2>1, <2>2 DEF Init, TypeOK, PendingStates
<1>2. GoalsMatch /\ SoleUsers
  BY DEF Init, GoalsMatch, SoleUsers
<1>3. RowsAgree
  BY DEF Init, RowsAgree, Eligible, Live, Usable, Blocked
<1>4. PlacesKnow
  BY DEF Init, PlacesKnow
<1>5. SpentTokens
  BY DEF Init, SpentTokens
<1> QED BY <1>1, <1>2, <1>3, <1>4, <1>5 DEF Inv

-----------------------------------------------------------------------------
(* receive_authorization_code *)

LEMMA StoreCredentialStep ==
    ASSUME Inv, NEW w \in Workers, NEW l \in Links, StoreCredential(w, l)
    PROVE  Inv'
<1>1. TypeOK'
  BY RingLinkingAssumption DEF Inv, StoreCredential, Begin, TypeOK, Goals, Places
<1>2. GoalsMatch'
  BY DEF Inv, StoreCredential, Begin, GoalsMatch
<1>3. SoleUsers'
  BY DEF Inv, StoreCredential, Begin, SoleUsers
<1>4. RowsAgree'
  BY DEF Inv, StoreCredential, RowsAgree
<1>5. PlacesKnow'
  BY DEF Inv, StoreCredential, Begin, TypeOK, PlacesKnow
<1>6. SpentTokens'
  BY DEF Inv, StoreCredential, Begin, SpentTokens
<1> QED BY <1>1, <1>2, <1>3, <1>4, <1>5, <1>6 DEF Inv

LEMMA CreatePendingStep ==
    ASSUME Inv, NEW w \in Workers, CreatePending(w)
    PROVE  Inv'
<1>1. TypeOK'
  <2>1. job' \in [Workers -> [at : Places, link : Links \cup {None}, goal : Goals]]
    BY DEF Inv, TypeOK, CreatePending, Goto, Places
  <2> QED BY <2>1 DEF Inv, TypeOK, CreatePending, PendingStates
<1>2. GoalsMatch'
  BY DEF Inv, CreatePending, Goto, GoalsMatch
<1>3. SoleUsers'
  BY DEF Inv, CreatePending, Goto, SoleUsers
<1>4. RowsAgree'
  BY DEF Inv, CreatePending, RowsAgree, PlacesKnow
<1>5. PlacesKnow'
  BY DEF Inv, CreatePending, Goto, TypeOK, PlacesKnow, GoalsMatch, SoleUsers
<1>6. SpentTokens'
  BY DEF Inv, CreatePending, Goto, SpentTokens
<1> QED BY <1>1, <1>2, <1>3, <1>4, <1>5, <1>6 DEF Inv

LEMMA CreateFailsStep ==
    ASSUME Inv, NEW w \in Workers, CreateFails(w)
    PROVE  Inv'
<1>0. On(w) \in Links
  BY Working DEF CreateFails
<1>1. TypeOK'
  BY <1>0 DEF Inv, CreateFails, Goto, TypeOK, PendingStates, Places
<1>2. GoalsMatch'
  BY DEF Inv, CreateFails, Goto, GoalsMatch
<1>3. SoleUsers'
  BY DEF Inv, CreateFails, Goto, SoleUsers
<1>4. RowsAgree'
  BY DEF Inv, CreateFails, RowsAgree, PlacesKnow
<1>5. PlacesKnow'
  BY DEF Inv, CreateFails, Goto, TypeOK, PlacesKnow, SoleUsers
<1>6. SpentTokens'
  BY DEF Inv, CreateFails, Goto, SpentTokens
<1> QED BY <1>1, <1>2, <1>3, <1>4, <1>5, <1>6 DEF Inv

LEMMA DropCredentialStep ==
    ASSUME Inv, NEW w \in Workers, DropCredential(w)
    PROVE  Inv'
<1>0. On(w) \in Links
  BY Working DEF DropCredential
<1>1. TypeOK'
  BY <1>0, RingLinkingAssumption DEF Inv, DropCredential, Done, TypeOK, Goals, Places
<1>2. GoalsMatch'
  BY DEF Inv, DropCredential, Done, GoalsMatch
<1>3. SoleUsers'
  BY RingLinkingAssumption DEF Inv, DropCredential, Done, GoalsMatch, SoleUsers
<1>4. RowsAgree'
  BY DEF Inv, DropCredential, RowsAgree, PlacesKnow, Live, Usable, Eligible
<1>5. PlacesKnow'
  BY DEF Inv, DropCredential, Done, PlacesKnow, SoleUsers
<1>6. SpentTokens'
  BY DEF Inv, DropCredential, Done, SpentTokens
<1> QED BY <1>1, <1>2, <1>3, <1>4, <1>5, <1>6 DEF Inv

LEMMA RegisterAccountStep ==
    ASSUME Inv, NEW w \in Workers, RegisterAccount(w)
    PROVE  Inv'
<1>0. On(w) \in Links
  BY Working DEF RegisterAccount
<1>1. TypeOK'
  BY DEF Inv, RegisterAccount, Goto, Done, TypeOK, Goals, PendingStates, Live, Usable, Blocked,
       Places
<1>2. GoalsMatch'
  BY <1>0, RingLinkingAssumption DEF Inv, RegisterAccount, Goto, Done, TypeOK, GoalsMatch
<1>3. SoleUsers'
  BY RingLinkingAssumption DEF Inv, RegisterAccount, Goto, Done, TypeOK, GoalsMatch, SoleUsers
<1>4. RowsAgree'
  BY DEF Inv, RegisterAccount, TypeOK, RowsAgree, PlacesKnow
<1>5. PlacesKnow'
  BY DEF Inv, RegisterAccount, Goto, Done, TypeOK, PlacesKnow, GoalsMatch, SoleUsers
<1>6. SpentTokens'
  BY DEF Inv, RegisterAccount, Goto, Done, TypeOK, SpentTokens
<1> QED BY <1>1, <1>2, <1>3, <1>4, <1>5, <1>6 DEF Inv

LEMMA DropDuplicateStep ==
    ASSUME Inv, NEW w \in Workers, DropDuplicate(w)
    PROVE  Inv'
<1>0. On(w) \in Links
  BY Working DEF DropDuplicate
<1>1. TypeOK'
  BY <1>0, RingLinkingAssumption DEF Inv, DropDuplicate, Goto, TypeOK, Places
<1>2. GoalsMatch'
  BY DEF Inv, DropDuplicate, Goto, GoalsMatch
<1>3. SoleUsers'
  BY DEF Inv, DropDuplicate, Goto, SoleUsers
<1>4. RowsAgree'
  BY DEF Inv, DropDuplicate, RowsAgree, PlacesKnow, Live, Usable, Eligible
<1>5. PlacesKnow'
  BY DEF Inv, DropDuplicate, Goto, PlacesKnow, SoleUsers
<1>6. SpentTokens'
  BY DEF Inv, DropDuplicate, Goto, SpentTokens
<1> QED BY <1>1, <1>2, <1>3, <1>4, <1>5, <1>6 DEF Inv

LEMMA RefuseDuplicateStep ==
    ASSUME Inv, NEW w \in Workers, RefuseDuplicate(w)
    PROVE  Inv'
<1>1. TypeOK'
  BY DEF Inv, RefuseDuplicate, Done, Transition, TypeOK, Goals, PendingStates, Places
<1>2. GoalsMatch'
  BY DEF Inv, RefuseDuplicate, Done, GoalsMatch
<1>3. SoleUsers'
  BY RingLinkingAssumption DEF Inv, RefuseDuplicate, Done, GoalsMatch, SoleUsers
<1>4. RowsAgree'
  BY DEF Inv, RefuseDuplicate, Transition, RowsAgree, Eligible
<1>5. PlacesKnow'
  BY DEF Inv, RefuseDuplicate, Done, Transition, TypeOK, PlacesKnow, SoleUsers
<1>6. SpentTokens'
  BY DEF Inv, RefuseDuplicate, Done, SpentTokens
<1> QED BY <1>1, <1>2, <1>3, <1>4, <1>5, <1>6 DEF Inv

-----------------------------------------------------------------------------
(* claim and _activate *)

LEMMA StartClaimStep ==
    ASSUME Inv, NEW w \in Workers, NEW l \in Links, StartClaim(w, l)
    PROVE  Inv'
<1>1. TypeOK'
  BY DEF Inv, StartClaim, Begin, TypeOK, Goals, PendingStates, Places
<1>2. GoalsMatch'
  BY DEF Inv, StartClaim, Begin, GoalsMatch
<1>3. SoleUsers'
  <2>1. \A v \in Workers : On(v) # l
    BY Untouched DEF StartClaim, Claimable
  <2> QED BY <2>1 DEF Inv, StartClaim, Begin, SoleUsers
<1>4. RowsAgree'
  BY DEF Inv, StartClaim, Claimable, RowsAgree, Eligible
<1>5. PlacesKnow'
  BY DEF Inv, StartClaim, Begin, Claimable, TypeOK, RowsAgree, PlacesKnow
<1>6. SpentTokens'
  BY DEF Inv, StartClaim, Begin, SpentTokens
<1> QED BY <1>1, <1>2, <1>3, <1>4, <1>5, <1>6 DEF Inv

LEMMA SendConfirmationStep ==
    ASSUME Inv, NEW w \in Workers, SendConfirmation(w)
    PROVE  Inv'
<1>1. TypeOK'
  <2>1. job' \in [Workers -> [at : Places, link : Links \cup {None}, goal : Goals]]
    BY DEF Inv, TypeOK, SendConfirmation, Goto, Done, Goals, Places
  <2>2. link' \in [Links -> PendingStates]
    BY DEF Inv, TypeOK, SendConfirmation, Transition, PendingStates
  <2> QED BY <2>1, <2>2 DEF Inv, TypeOK, SendConfirmation
<1>2. GoalsMatch'
  BY SMTT(30) DEF Inv, SendConfirmation, Goto, Done, TypeOK, GoalsMatch
<1>3. SoleUsers'
  BY RingLinkingAssumption DEF Inv, SendConfirmation, Goto, Done, TypeOK, GoalsMatch, SoleUsers
<1>4. RowsAgree'
  BY DEF Inv, SendConfirmation, Transition, TypeOK, RowsAgree, PlacesKnow, Eligible
<1>5. PlacesKnow'
  BY DEF Inv, SendConfirmation, Goto, Done, Transition, TypeOK, PlacesKnow, GoalsMatch,
       SoleUsers
<1>6. SpentTokens'
  BY DEF Inv, SendConfirmation, Goto, Done, TypeOK, SpentTokens, SoleUsers
<1> QED BY <1>1, <1>2, <1>3, <1>4, <1>5, <1>6 DEF Inv

LEMMA ConfirmationAnswerStep ==
    ASSUME Inv, NEW w \in Workers, ConfirmationAnswer(w)
    PROVE  Inv'
<1>1. TypeOK'
  BY SMTT(30) DEF Inv, ConfirmationAnswer, Goto, Done, Transition, TypeOK, Goals, PendingStates,
       Places
<1>2. GoalsMatch'
  BY SMTT(30) DEF Inv, ConfirmationAnswer, Goto, Done, TypeOK, GoalsMatch
<1>3. SoleUsers'
  BY RingLinkingAssumption DEF Inv, ConfirmationAnswer, Goto, Done, TypeOK, GoalsMatch,
       SoleUsers
<1>4. RowsAgree'
  BY DEF Inv, ConfirmationAnswer, Transition, TypeOK, RowsAgree, Eligible
<1>5. PlacesKnow'
  BY DEF Inv, ConfirmationAnswer, Goto, Done, Transition, TypeOK, PlacesKnow, GoalsMatch,
       SoleUsers
<1>6. SpentTokens'
  BY DEF Inv, ConfirmationAnswer, Goto, Done, TypeOK, SpentTokens
<1> QED BY <1>1, <1>2, <1>3, <1>4, <1>5, <1>6 DEF Inv

LEMMA BindStep ==
    ASSUME Inv, NEW w \in Workers, Bind(w)
    PROVE  Inv'
<1>0. On(w) \in Links
  BY Working DEF Bind
<1>1. TypeOK'
  BY <1>0, RingLinkingAssumption DEF Inv, Bind, Goto, TypeOK, PendingStates, Live, Usable,
       Places
<1>2. GoalsMatch'
  BY DEF Inv, Bind, Goto, GoalsMatch
<1>3. SoleUsers'
  BY DEF Inv, Bind, Goto, SoleUsers
<1>4. RowsAgree'
  BY DEF Inv, Bind, TypeOK, RowsAgree, Blocked, Eligible
<1>5. PlacesKnow'
  BY DEF Inv, Bind, Goto, TypeOK, PlacesKnow, GoalsMatch, SoleUsers
<1>6. SpentTokens'
  BY DEF Inv, Bind, Goto, SpentTokens
<1> QED BY <1>1, <1>2, <1>3, <1>4, <1>5, <1>6 DEF Inv

LEMMA BindConflictStep ==
    ASSUME Inv, NEW w \in Workers, BindConflict(w)
    PROVE  Inv'
<1>1. TypeOK'
  BY DEF Inv, BindConflict, Done, Transition, TypeOK, Goals, PendingStates, Places
<1>2. GoalsMatch'
  BY DEF Inv, BindConflict, Done, GoalsMatch
<1>3. SoleUsers'
  BY RingLinkingAssumption DEF Inv, BindConflict, Done, GoalsMatch, SoleUsers
<1>4. RowsAgree'
  BY DEF Inv, BindConflict, Transition, RowsAgree, Eligible
<1>5. PlacesKnow'
  BY DEF Inv, BindConflict, Done, Transition, TypeOK, PlacesKnow, SoleUsers
<1>6. SpentTokens'
  BY DEF Inv, BindConflict, Done, SpentTokens
<1> QED BY <1>1, <1>2, <1>3, <1>4, <1>5, <1>6 DEF Inv

LEMMA SelectConfiguringStep ==
    ASSUME Inv, NEW w \in Workers, SelectConfiguring(w)
    PROVE  Inv'
<1>1. TypeOK'
  BY DEF Inv, SelectConfiguring, Goto, TypeOK, Places
<1>2. GoalsMatch'
  BY DEF Inv, SelectConfiguring, Goto, GoalsMatch
<1>3. SoleUsers'
  BY DEF Inv, SelectConfiguring, Goto, SoleUsers
<1>4. RowsAgree'
  BY DEF Inv, SelectConfiguring, RowsAgree
<1>5. PlacesKnow'
  BY DEF Inv, SelectConfiguring, Goto, PlacesKnow
<1>6. SpentTokens'
  BY DEF Inv, SelectConfiguring, Goto, SpentTokens
<1> QED BY <1>1, <1>2, <1>3, <1>4, <1>5, <1>6 DEF Inv

LEMMA ActivateStep ==
    ASSUME Inv, NEW w \in Workers, Activate(w)
    PROVE  Inv'
<1>1. TypeOK'
  BY DEF Inv, Activate, Done, TypeOK, Goals, Live, Usable, Places
<1>2. GoalsMatch'
  BY DEF Inv, Activate, Done, GoalsMatch
<1>3. SoleUsers'
  BY RingLinkingAssumption DEF Inv, Activate, Done, GoalsMatch, SoleUsers
<1>4. RowsAgree'
  BY DEF Inv, Activate, TypeOK, RowsAgree, PlacesKnow, Blocked
<1>5. PlacesKnow'
  BY DEF Inv, Activate, Done, PlacesKnow
<1>6. SpentTokens'
  BY DEF Inv, Activate, Done, SpentTokens
<1> QED BY <1>1, <1>2, <1>3, <1>4, <1>5, <1>6 DEF Inv

-----------------------------------------------------------------------------
(* get_valid_access_token *)

LEMMA LockConnectionStep ==
    ASSUME Inv, NEW w \in Workers, NEW l \in Links, NEW goal \in {"use", "resume"},
           LockConnection(w, l, goal)
    PROVE  Inv'
<1>1. TypeOK'
  BY DEF Inv, LockConnection, Begin, TypeOK, Goals, Places
<1>2. GoalsMatch'
  BY DEF Inv, LockConnection, Begin, GoalsMatch
<1>3. SoleUsers'
  <2>1. \A v \in Workers : On(v) = l => job[v].at \notin Receiving \cup Claiming \cup Locking
    BY Untouched DEF LockConnection, Unlocked, Usable
  <2>2. job' = [job EXCEPT ![w] = [at |-> "locked", link |-> l, goal |-> goal]]
    BY DEF LockConnection, Begin
  <2> QED BY <2>1, <2>2 DEF Inv, SoleUsers
<1>4. RowsAgree'
  BY DEF Inv, LockConnection, RowsAgree
<1>5. PlacesKnow'
  <2>1. job' = [job EXCEPT ![w] = [at |-> "locked", link |-> l, goal |-> goal]]
    BY DEF LockConnection, Begin
  <2>2. conn[l] # "none"
    BY DEF LockConnection, Usable
  <2> QED BY <2>1, <2>2 DEF Inv, LockConnection, PlacesKnow
<1>6. SpentTokens'
  BY DEF Inv, LockConnection, Begin, SpentTokens
<1> QED BY <1>1, <1>2, <1>3, <1>4, <1>5, <1>6 DEF Inv

LEMMA OpenCredentialStep ==
    ASSUME Inv, NEW w \in Workers, OpenCredential(w)
    PROVE  Inv'
<1>0. On(w) \in Links
  BY Working DEF OpenCredential
<1>1. TypeOK'
  <2>1. job' \in [Workers -> [at : Places, link : Links \cup {None}, goal : Goals]]
    BY DEF Inv, TypeOK, OpenCredential, Goto, Done, Block, Goals, Places
  <2> QED BY <2>1, <1>0 DEF Inv, TypeOK, OpenCredential, Block, Live
<1>2. GoalsMatch'
  <2>1. Goto(w, "opened") \/ Done(w)
    BY DEF OpenCredential, Block
  <2>2. CASE Goto(w, "opened")
    BY <2>2 DEF Inv, OpenCredential, Goto, GoalsMatch
  <2>3. CASE Done(w)
    BY <2>3 DEF Inv, Done, GoalsMatch
  <2> QED BY <2>1, <2>2, <2>3
<1>3. SoleUsers'
  BY RingLinkingAssumption DEF Inv, OpenCredential, Goto, Done, Block, TypeOK, GoalsMatch,
       SoleUsers
<1>4. RowsAgree'
  BY DEF Inv, OpenCredential, Block, TypeOK, RowsAgree, PlacesKnow
<1>5. PlacesKnow'
  BY SMTT(30) DEF Inv, OpenCredential, Goto, Done, Block, Current, TypeOK, PlacesKnow,
       GoalsMatch
<1>6. SpentTokens'
  BY DEF Inv, OpenCredential, Goto, Done, Block, TypeOK, SpentTokens
<1> QED BY <1>1, <1>2, <1>3, <1>4, <1>5, <1>6 DEF Inv

LEMMA HandOutStep ==
    ASSUME Inv, NEW w \in Workers, HandOut(w)
    PROVE  Inv'
<1>0. On(w) \in Links
  BY Working DEF HandOut
<1>1. TypeOK'
  <2>1. job' \in [Workers -> [at : Places, link : Links \cup {None}, goal : Goals]]
    BY <1>0 DEF Inv, TypeOK, HandOut, Goto, Done, Serve, Goals, Places
  <2> QED BY <2>1 DEF Inv, TypeOK, HandOut
<1>2. GoalsMatch'
  BY DEF Inv, HandOut, Goto, Done, Serve, TypeOK, GoalsMatch
<1>3. SoleUsers'
  BY RingLinkingAssumption DEF Inv, HandOut, Goto, Done, Serve, TypeOK, GoalsMatch, SoleUsers
<1>4. RowsAgree'
  BY DEF Inv, HandOut, RowsAgree
<1>5. PlacesKnow'
  BY DEF Inv, HandOut, Goto, Done, Serve, TypeOK, PlacesKnow, SoleUsers
<1>6. SpentTokens'
  BY DEF Inv, HandOut, Goto, Done, Serve, TypeOK, SpentTokens, SoleUsers
<1> QED BY <1>1, <1>2, <1>3, <1>4, <1>5, <1>6 DEF Inv

LEMMA RefreshStep ==
    ASSUME Inv, NEW w \in Workers, Refresh(w)
    PROVE  Inv'
<1>0. On(w) \in Links
  BY Working DEF Refresh
<1>1. TypeOK'
  BY <1>0 DEF Inv, Refresh, Goto, TypeOK, Places
<1>2. GoalsMatch'
  BY DEF Inv, Refresh, Goto, GoalsMatch
<1>3. SoleUsers'
  BY DEF Inv, Refresh, Goto, SoleUsers
<1>4. RowsAgree'
  BY DEF Inv, Refresh, RowsAgree
<1>5. PlacesKnow'
  BY DEF Inv, Refresh, Goto, PlacesKnow
<1>6. SpentTokens'
  BY DEF Inv, Refresh, Goto, TypeOK, SpentTokens
<1> QED BY <1>1, <1>2, <1>3, <1>4, <1>5, <1>6 DEF Inv

LEMMA RefreshAnswerStep ==
    ASSUME Inv, NEW w \in Workers, RefreshAnswer(w)
    PROVE  Inv'
<1>0. On(w) \in Links
  BY Working DEF RefreshAnswer
<1>1. TypeOK'
  <2>1. job' \in [Workers -> [at : Places, link : Links \cup {None}, goal : Goals]]
    BY DEF Inv, TypeOK, RefreshAnswer, Goto, Done, Block, Goals, Places
  <2> QED BY <2>1, <1>0 DEF Inv, TypeOK, RefreshAnswer, Block, Live
<1>2. GoalsMatch'
  <2>1. Goto(w, "rotating") \/ Done(w)
    BY DEF RefreshAnswer, Block
  <2>2. CASE Goto(w, "rotating")
    BY <2>2 DEF Inv, RefreshAnswer, Goto, GoalsMatch
  <2>3. CASE Done(w)
    BY <2>3 DEF Inv, Done, GoalsMatch
  <2> QED BY <2>1, <2>2, <2>3
<1>3. SoleUsers'
  BY RingLinkingAssumption DEF Inv, RefreshAnswer, Goto, Done, Block, TypeOK, GoalsMatch,
       SoleUsers
<1>4. RowsAgree'
  BY DEF Inv, RefreshAnswer, Block, TypeOK, RowsAgree, PlacesKnow
<1>5. PlacesKnow'
  BY SMTT(30) DEF Inv, RefreshAnswer, Goto, Done, Block, TypeOK, PlacesKnow, GoalsMatch
<1>6. SpentTokens'
  BY DEF Inv, RefreshAnswer, Goto, Done, Block, TypeOK, SpentTokens
<1> QED BY <1>1, <1>2, <1>3, <1>4, <1>5, <1>6 DEF Inv

LEMMA RotateStep ==
    ASSUME Inv, NEW w \in Workers, Rotate(w)
    PROVE  Inv'
<1>0. On(w) \in Links
  BY Working DEF Rotate
<1>1. TypeOK'
  <2>1. job' \in [Workers -> [at : Places, link : Links \cup {None}, goal : Goals]]
    BY DEF Inv, TypeOK, Rotate, Goto, Done, Block, Goals, Places
  <2>2. generation[On(w)] < MaxVersion
    BY DEF Inv, Rotate, PlacesKnow
  <2>3. vault' \in [Links -> 0..MaxVersion]
    BY <2>2, RingLinkingAssumption DEF Inv, TypeOK, Rotate, Current
  <2>4. conn' \in [Links -> Live \cup Blocked \cup {"none"}] /\ blocked' \subseteq Links
    BY <1>0 DEF Inv, TypeOK, Rotate, Block, Blocked
  <2> QED BY <2>1, <2>3, <2>4 DEF Inv, TypeOK, Rotate
<1>2. GoalsMatch'
  BY DEF Inv, Rotate, Goto, Done, Block, TypeOK, GoalsMatch
<1>3. SoleUsers'
  BY RingLinkingAssumption DEF Inv, Rotate, Goto, Done, Block, TypeOK, GoalsMatch, SoleUsers
<1>4. RowsAgree'
  BY DEF Inv, Rotate, Block, Current, TypeOK, RowsAgree, PlacesKnow, Eligible
<1>5. PlacesKnow'
  BY DEF Inv, Rotate, Goto, Done, Block, Current, TypeOK, PlacesKnow, GoalsMatch, SoleUsers
<1>6. SpentTokens'
  BY DEF Inv, Rotate, Goto, Done, Block, TypeOK, SpentTokens
<1> QED BY <1>1, <1>2, <1>3, <1>4, <1>5, <1>6 DEF Inv

LEMMA RecordGenerationStep ==
    ASSUME Inv, NEW w \in Workers, RecordGeneration(w)
    PROVE  Inv'
<1>0. On(w) \in Links
  BY Working DEF RecordGeneration
<1>1. TypeOK'
  <2>1. job' \in [Workers -> [at : Places, link : Links \cup {None}, goal : Goals]]
    BY SMTT(30) DEF Inv, TypeOK, RecordGeneration, Goto, Done, Serve, Goals, Places
  <2>2. generation[On(w)] < MaxVersion
    BY DEF Inv, RecordGeneration, PlacesKnow
  <2>3. generation' \in [Links -> 1..MaxVersion]
    BY <1>0, <2>2, RingLinkingAssumption DEF Inv, TypeOK, RecordGeneration
  <2> QED BY <2>1, <2>3 DEF Inv, TypeOK, RecordGeneration
<1>2. GoalsMatch'
  BY <1>0, RingLinkingAssumption DEF Inv, RecordGeneration, Goto, Done, Serve, TypeOK,
       GoalsMatch
<1>3. SoleUsers'
  BY RingLinkingAssumption, SMTT(30) DEF Inv, RecordGeneration, Goto, Done, Serve, TypeOK,
       GoalsMatch, SoleUsers
<1>4. RowsAgree'
  BY DEF Inv, RecordGeneration, RowsAgree, PlacesKnow
<1>5. PlacesKnow'
  BY DEF Inv, RecordGeneration, Goto, Done, Serve, TypeOK, PlacesKnow, SoleUsers
<1>6. SpentTokens'
  BY DEF Inv, RecordGeneration, Goto, Done, Serve, TypeOK, SpentTokens
<1> QED BY <1>1, <1>2, <1>3, <1>4, <1>5, <1>6 DEF Inv

-----------------------------------------------------------------------------
(* disconnect and the removal notices *)

LEMMA DisconnectStep ==
    ASSUME Inv, NEW w \in Workers, NEW l \in Links, Disconnect(w, l)
    PROVE  Inv'
<1>1. TypeOK'
  BY DEF Inv, Disconnect, Begin, MarkDisconnected, Kept, TypeOK, Goals, Live, Blocked, Places
<1>2. GoalsMatch'
  BY DEF Inv, Disconnect, Begin, TypeOK, GoalsMatch
<1>3. SoleUsers'
  <2>1. \A v \in Workers : On(v) = l => job[v].at \notin Receiving \cup Claiming \cup Locking
    BY Untouched DEF Disconnect, Unlocked
  <2>2. job' \in {job, [job EXCEPT ![w] = [at |-> "erase", link |-> l, goal |-> "disconnect"]]}
    BY DEF Disconnect, Begin
  <2> QED BY <2>1, <2>2 DEF Inv, TypeOK, SoleUsers
<1>4. RowsAgree'
  BY DEF Inv, Disconnect, MarkDisconnected, Kept, RowsAgree
<1>5. PlacesKnow'
  BY DEF Inv, Disconnect, Begin, MarkDisconnected, TypeOK, PlacesKnow, SoleUsers
<1>6. SpentTokens'
  BY DEF Inv, Disconnect, Begin, MarkDisconnected, TypeOK, SpentTokens
<1> QED BY <1>1, <1>2, <1>3, <1>4, <1>5, <1>6 DEF Inv

LEMMA EraseCredentialStep ==
    ASSUME Inv, NEW w \in Workers, EraseCredential(w)
    PROVE  Inv'
<1>0. On(w) \in Links
  BY Working DEF EraseCredential
<1>1. TypeOK'
  BY <1>0, RingLinkingAssumption, SMTT(30) DEF Inv, EraseCredential, Goto, TypeOK, Places
<1>2. GoalsMatch'
  BY DEF Inv, EraseCredential, Goto, GoalsMatch
<1>3. SoleUsers'
  BY DEF Inv, EraseCredential, Goto, SoleUsers
<1>4. RowsAgree'
  BY DEF Inv, EraseCredential, RowsAgree, PlacesKnow, Eligible
<1>5. PlacesKnow'
  BY DEF Inv, EraseCredential, Goto, TypeOK, RowsAgree, PlacesKnow
<1>6. SpentTokens'
  BY DEF Inv, EraseCredential, Goto, SpentTokens
<1> QED BY <1>1, <1>2, <1>3, <1>4, <1>5, <1>6 DEF Inv

LEMMA CheckDisconnectedStep ==
    ASSUME Inv, NEW w \in Workers, CheckDisconnected(w)
    PROVE  Inv'
<1>0. On(w) \in Links
  BY Working DEF CheckDisconnected
<1>1. TypeOK'
  BY <1>0 DEF Inv, CheckDisconnected, Goto, Done, TypeOK, Goals, Places
<1>2. GoalsMatch'
  BY DEF Inv, CheckDisconnected, Goto, Done, TypeOK, GoalsMatch
<1>3. SoleUsers'
  BY SMTT(20), <1>0, RingLinkingAssumption DEF Inv, CheckDisconnected, Goto, Done, TypeOK,
       GoalsMatch, SoleUsers, PlacesKnow, Places
<1>4. RowsAgree'
  BY DEF Inv, CheckDisconnected, RowsAgree, PlacesKnow
<1>5. PlacesKnow'
  BY SMTT(30) DEF Inv, CheckDisconnected, Goto, Done, TypeOK, PlacesKnow
<1>6. SpentTokens'
  BY DEF Inv, CheckDisconnected, Goto, Done, TypeOK, SpentTokens
<1> QED BY <1>1, <1>2, <1>3, <1>4, <1>5, <1>6 DEF Inv

LEMMA ClearReferenceStep ==
    ASSUME Inv, NEW w \in Workers, ClearReference(w)
    PROVE  Inv'
<1>0. On(w) \in Links
  BY Working DEF ClearReference
<1>1. TypeOK'
  <2>1. job' \in [Workers -> [at : Places, link : Links \cup {None}, goal : Goals]]
    BY DEF Inv, TypeOK, ClearReference, Goto, Done, Goals, Places
  <2> QED BY <2>1, <1>0 DEF Inv, TypeOK, ClearReference
<1>2. GoalsMatch'
  BY DEF Inv, ClearReference, Goto, Done, TypeOK, GoalsMatch
<1>3. SoleUsers'
  BY RingLinkingAssumption DEF Inv, ClearReference, Goto, Done, TypeOK, GoalsMatch, SoleUsers
<1>4. RowsAgree'
  BY DEF Inv, ClearReference, RowsAgree, PlacesKnow
<1>5. PlacesKnow'
  BY DEF Inv, ClearReference, Goto, Done, TypeOK, PlacesKnow
<1>6. SpentTokens'
  BY DEF Inv, ClearReference, Goto, Done, TypeOK, SpentTokens
<1> QED BY <1>1, <1>2, <1>3, <1>4, <1>5, <1>6 DEF Inv

LEMMA ClaimNoticeStep ==
    ASSUME Inv, NEW w \in Workers, NEW n \in Notices, ClaimNotice(w, n)
    PROVE  Inv'
<1>1. TypeOK'
  BY RingLinkingAssumption DEF Inv, ClaimNotice, Begin, Triable, TypeOK, Goals, Places
<1>2. GoalsMatch'
  BY DEF Inv, ClaimNotice, Begin, GoalsMatch
<1>3. SoleUsers'
  BY DEF Inv, ClaimNotice, Begin, SoleUsers
<1>4. RowsAgree'
  BY DEF Inv, ClaimNotice, RowsAgree
<1>5. PlacesKnow'
  BY DEF Inv, ClaimNotice, Begin, PlacesKnow
<1>6. SpentTokens'
  BY DEF Inv, ClaimNotice, Begin, SpentTokens
<1> QED BY <1>1, <1>2, <1>3, <1>4, <1>5, <1>6 DEF Inv

LEMMA ResolveNoticeStep ==
    ASSUME Inv, NEW w \in Workers, ResolveNotice(w)
    PROVE  Inv'
<1>1. TypeOK'
  <2>1. job' \in [Workers -> [at : Places, link : Links \cup {None}, goal : Goals]]
    BY DEF Inv, TypeOK, ResolveNotice, Done, Finish, Goals, Places, Targets, LiveLinks
  <2> QED BY <2>1 DEF Inv, TypeOK, ResolveNotice, Finish
<1>2. GoalsMatch'
  BY DEF Inv, ResolveNotice, Done, Finish, Targets, LiveLinks, TypeOK, GoalsMatch
<1>3. SoleUsers'
  BY DEF Inv, ResolveNotice, Done, Finish, LiveLinks, TypeOK, GoalsMatch, SoleUsers, PlacesKnow,
       Places
<1>4. RowsAgree'
  BY DEF Inv, ResolveNotice, RowsAgree
<1>5. PlacesKnow'
  BY RingLinkingAssumption DEF Inv, ResolveNotice, Done, Finish, Targets, LiveLinks, TypeOK,
       PlacesKnow, GoalsMatch
<1>6. SpentTokens'
  <2>1. \A v \in Workers : job[v].at \in {"refreshing", "rotating"} => job'[v] = job[v]
    BY DEF Inv, TypeOK, ResolveNotice, Finish, Done
  <2> QED BY <2>1 DEF Inv, ResolveNotice, SpentTokens
<1> QED BY <1>1, <1>2, <1>3, <1>4, <1>5, <1>6 DEF Inv

LEMMA ApplyNoticeStep ==
    ASSUME Inv, NEW w \in Workers, ApplyNotice(w)
    PROVE  Inv'
<1>0. On(w) \in Links
  BY Working DEF ApplyNotice
<1>1. TypeOK'
  BY <1>0 DEF Inv, ApplyNotice, Goto, MarkDisconnected, Kept, TypeOK, Blocked, Places
<1>2. GoalsMatch'
  BY DEF Inv, ApplyNotice, Goto, GoalsMatch
<1>3. SoleUsers'
  BY DEF Inv, ApplyNotice, Goto, SoleUsers
<1>4. RowsAgree'
  BY DEF Inv, ApplyNotice, MarkDisconnected, Kept, RowsAgree, PlacesKnow
<1>5. PlacesKnow'
  BY DEF Inv, ApplyNotice, Goto, MarkDisconnected, RowsAgree, PlacesKnow, GoalsMatch
<1>6. SpentTokens'
  BY DEF Inv, ApplyNotice, Goto, MarkDisconnected, SpentTokens
<1> QED BY <1>1, <1>2, <1>3, <1>4, <1>5, <1>6 DEF Inv

LEMMA FailNoticeStep ==
    ASSUME Inv, NEW w \in Workers, FailNotice(w)
    PROVE  Inv'
<1>1. TypeOK'
  BY DEF Inv, FailNotice, Done, Finish, TypeOK, Goals, Places
<1>2. GoalsMatch'
  BY DEF Inv, FailNotice, Done, Finish, GoalsMatch
<1>3. SoleUsers'
  BY RingLinkingAssumption DEF Inv, FailNotice, Done, Finish, GoalsMatch, SoleUsers
<1>4. RowsAgree'
  BY DEF Inv, FailNotice, RowsAgree
<1>5. PlacesKnow'
  BY DEF Inv, FailNotice, Done, Finish, PlacesKnow
<1>6. SpentTokens'
  BY RingLinkingAssumption DEF Inv, FailNotice, Done, Finish, SpentTokens, GoalsMatch
<1> QED BY <1>1, <1>2, <1>3, <1>4, <1>5, <1>6 DEF Inv

LEMMA FinishNoticeStep ==
    ASSUME Inv, NEW w \in Workers, FinishNotice(w)
    PROVE  Inv'
<1>0. On(w) \in Links
  BY Working DEF FinishNotice
<1>1. TypeOK'
  BY <1>0 DEF Inv, FinishNotice, Done, Finish, TypeOK, Goals, Places
<1>2. GoalsMatch'
  BY DEF Inv, FinishNotice, Done, Finish, GoalsMatch
<1>3. SoleUsers'
  BY RingLinkingAssumption DEF Inv, FinishNotice, Done, Finish, GoalsMatch, SoleUsers
<1>4. RowsAgree'
  BY DEF Inv, FinishNotice, RowsAgree, PlacesKnow
<1>5. PlacesKnow'
  BY DEF Inv, FinishNotice, Done, Finish, PlacesKnow
<1>6. SpentTokens'
  BY DEF Inv, FinishNotice, Done, Finish, SpentTokens
<1> QED BY <1>1, <1>2, <1>3, <1>4, <1>5, <1>6 DEF Inv

-----------------------------------------------------------------------------
(* Failure, expiry and new notices *)

LEMMA RaiseStep ==
    ASSUME Inv, NEW w \in Workers, Raise(w)
    PROVE  Inv'
<1>1. TypeOK'
  <2>1. job' \in [Workers -> [at : Places, link : Links \cup {None}, goal : Goals]]
    BY DEF Inv, TypeOK, Raise, Done, Goals, Places
  <2>2. lost' \subseteq Links
    BY Working DEF Inv, TypeOK, Raise
  <2> QED BY <2>1, <2>2 DEF Inv, TypeOK, Raise
<1>2. GoalsMatch'
  BY DEF Inv, Raise, Done, GoalsMatch
<1>3. SoleUsers'
  BY RingLinkingAssumption DEF Inv, Raise, Done, GoalsMatch, SoleUsers
<1>4. RowsAgree'
  BY DEF Inv, Raise, RowsAgree
<1>5. PlacesKnow'
  BY DEF Inv, Raise, Done, PlacesKnow
<1>6. SpentTokens'
  BY DEF Inv, Raise, Done, SpentTokens
<1> QED BY <1>1, <1>2, <1>3, <1>4, <1>5, <1>6 DEF Inv

LEMMA SweepStep ==
    ASSUME Inv, NEW l \in Links, Sweep(l)
    PROVE  Inv'
<1>1. TypeOK'
  BY RingLinkingAssumption DEF Inv, Sweep, TypeOK, PendingStates
<1>2. GoalsMatch'
  BY DEF Inv, Sweep, GoalsMatch
<1>3. SoleUsers'
  BY DEF Inv, Sweep, SoleUsers
<1>4. RowsAgree'
  BY DEF Inv, Sweep, Expirable, RowsAgree, Live, Usable, Eligible
<1>5. PlacesKnow'
  BY DEF Inv, Sweep, Expirable, PlacesKnow, GoalsMatch
<1>6. SpentTokens'
  BY DEF Inv, Sweep, SpentTokens
<1> QED BY <1>1, <1>2, <1>3, <1>4, <1>5, <1>6 DEF Inv

LEMMA ExpireStep ==
    ASSUME Inv, NEW l \in Links, Expire(l)
    PROVE  Inv'
<1>1. TypeOK'
  BY DEF Inv, Expire, TypeOK
<1>2. GoalsMatch'
  BY DEF Inv, Expire, GoalsMatch
<1>3. SoleUsers'
  BY DEF Inv, Expire, SoleUsers
<1>4. RowsAgree'
  BY DEF Inv, Expire, RowsAgree
<1>5. PlacesKnow'
  BY DEF Inv, Expire, PlacesKnow
<1>6. SpentTokens'
  BY DEF Inv, Expire, SpentTokens
<1> QED BY <1>1, <1>2, <1>3, <1>4, <1>5, <1>6 DEF Inv

LEMMA IngestNoticeStep ==
    ASSUME Inv, NEW n \in Notices, IngestNotice(n)
    PROVE  Inv'
<1>1. TypeOK'
  BY DEF Inv, IngestNotice, TypeOK
<1>2. GoalsMatch'
  BY DEF Inv, IngestNotice, GoalsMatch
<1>3. SoleUsers'
  BY DEF Inv, IngestNotice, SoleUsers
<1>4. RowsAgree'
  BY DEF Inv, IngestNotice, RowsAgree
<1>5. PlacesKnow'
  BY DEF Inv, IngestNotice, PlacesKnow
<1>6. SpentTokens'
  BY DEF Inv, IngestNotice, SpentTokens
<1> QED BY <1>1, <1>2, <1>3, <1>4, <1>5, <1>6 DEF Inv

-----------------------------------------------------------------------------
(* The invariant *)

\* Every step of the specification keeps the invariant.
LEMMA NextInv == Inv /\ [Next]_vars => Inv'
<1> SUFFICES ASSUME Inv, [Next]_vars PROVE Inv'
  OBVIOUS
<1>1. ASSUME NEW w \in Workers, Receive(w) PROVE Inv'
  BY <1>1, StoreCredentialStep, CreatePendingStep, CreateFailsStep, DropCredentialStep,
       RegisterAccountStep, DropDuplicateStep, RefuseDuplicateStep DEF Receive
<1>2. ASSUME NEW w \in Workers, Claim(w) PROVE Inv'
  BY <1>2, StartClaimStep, SendConfirmationStep, ConfirmationAnswerStep, BindStep,
       BindConflictStep, SelectConfiguringStep, ActivateStep DEF Claim
<1>3. ASSUME NEW w \in Workers, GetToken(w) PROVE Inv'
  BY <1>3, LockConnectionStep, OpenCredentialStep, HandOutStep, RefreshStep, RefreshAnswerStep,
       RotateStep, RecordGenerationStep DEF GetToken
<1>4. ASSUME NEW w \in Workers, Remove(w) PROVE Inv'
  BY <1>4, DisconnectStep, EraseCredentialStep, CheckDisconnectedStep, ClearReferenceStep,
       ClaimNoticeStep, ResolveNoticeStep, ApplyNoticeStep, FailNoticeStep, FinishNoticeStep DEF
       Remove
<1>5. CASE UNCHANGED vars
  <2>1. TypeOK' /\ GoalsMatch' /\ SoleUsers'
    BY <1>5 DEF Inv, TypeOK, GoalsMatch, SoleUsers
  <2>2. RowsAgree' /\ PlacesKnow' /\ SpentTokens'
    BY <1>5 DEF Inv, RowsAgree, PlacesKnow, SpentTokens
  <2> QED BY <2>1, <2>2 DEF Inv
<1> QED
  BY <1>1, <1>2, <1>3, <1>4, <1>5, RaiseStep, SweepStep, ExpireStep, IngestNoticeStep DEF Next

\* The inductive invariant holds of every reachable state.
THEOREM InvHolds == Spec => []Inv
BY InitInv, NextInv, PTL DEF Spec

\* Every variable has its type, the limit on webhook attempts included.
THEOREM TypeCorrect == Spec => []TypeOK
<1>1. Inv => TypeOK
  BY DEF Inv
<1> QED BY <1>1, InvHolds, PTL

\* claim sends at most one confirmation to Ring for a link.
THEOREM Confirmed == Spec => []ConfirmedOnce
<1>1. Inv => ConfirmedOnce
  BY DEF Inv, RowsAgree, ConfirmedOnce
<1> QED BY <1>1, InvHolds, PTL

\* A claimable link and a connection never blocked have the credential they expect.
THEOREM KeptUsable == Spec => []CredentialKept
<1>1. Inv => CredentialKept
  BY DEF Inv, RowsAgree, CredentialKept, Live, Usable
<1> QED BY <1>1, InvHolds, PTL

\* A stored credential is always named by a row that leads to its deletion.
THEOREM Tracked == Spec => []CredentialTracked
<1>1. Inv => CredentialTracked
  BY DEF Inv, RowsAgree, CredentialTracked
<1> QED BY <1>1, InvHolds, PTL

\* The row lock makes a credential's users take turns.
THEOREM Serialised == Spec => []UsesSerialised
<1>1. Inv => UsesSerialised
  BY DEF Inv, SoleUsers, PlacesKnow, UsesSerialised
<1> QED BY <1>1, InvHolds, PTL

\* A completed disconnect or removal has deleted the credential for good.
THEOREM Erased == Spec => []RemovalErases
<1>1. Inv => RemovalErases
  BY DEF Inv, TypeOK, RowsAgree, RemovalErases
<1> QED BY <1>1, InvHolds, PTL

\* A refresh token already sent to Ring is not used again, but for a lost refresher and a
\* blocked connection that was made ACTIVE.
THEOREM Spent == Spec => []SpentTokenUnused
<1>1. Inv => SpentTokenUnused
  BY DEF Inv, SoleUsers, SpentTokens, SpentTokenUnused
<1> QED BY <1>1, InvHolds, PTL


-----------------------------------------------------------------------------
(* The inventory: what its steps keep *)

NoticeKinds == {"device_added", "device_removed", "device_online", "device_offline",
                "app_integration_removed"}
RingNotice == [kind : NoticeKinds, device : Devices, at : Nat]
RingWebhook ==
    [kind : NoticeKinds, device : Devices, at : Nat, claims : Nat,
     state : {"RECEIVED", "PROCESSING", "PROCESSED", "FAILED_RETRYABLE", "FAILED_PERMANENT"}]
Sightings == UNION {[S -> [parts : SUBSET Keys, online : BOOLEAN]] : S \in SUBSET Devices}
InventoryJob ==
    [at : {"idle", "read", "write", "apply", "finish", "activate"}, notice : Nat, seen : Sightings \cup {<<>>}]
Unlinking(n) == n.kind = "app_integration_removed"
Unlinked == connection.health = "REMOTE_REMOVED"

RingTypes ==
    /\ ring \in [linked : BOOLEAN, parts : [Devices -> SUBSET Keys], online : [Devices -> BOOLEAN]]
    /\ changes \in Nat
    /\ wire \subseteq RingNotice /\ \A n \in wire : n.at <= Changed
    /\ queue \in Seq(RingWebhook) /\ \A i \in 1..Len(queue) : queue[i].at <= Changed

\* What a job has read, and that it applies a notice of the queue; one that has applied the removal
\* of the integration finds it recorded until it is done, and so does whoever looks later.
JobKnows(j) ==
    /\ task[j].notice <= Len(queue)
    /\ AtPlace(j, "write") => task[j].seen \in Sightings
    /\ task[j].at \in {"apply", "finish"} => ~ListingJob(j)
    /\ AtPlace(j, "finish") /\ Unlinking(Notice(j)) => Unlinked
TasksKnow ==
    /\ task \in [Jobs -> InventoryJob] /\ \A j \in Jobs : JobKnows(j)
    /\ \A i \in 1..Len(queue) : Unlinking(queue[i]) /\ queue[i].state = "PROCESSED" => Unlinked

\* A lens nobody has seen has no camera; what has gone from Ring is known here.
RowsKnow ==
    /\ connection \in [state : {"CONFIGURING", "ACTIVE", "DISCONNECTED"},
                       health : {"ACTIVE", "DEGRADED", "REMOTE_REMOVED"}]
    /\ basis \in [Devices -> Nat] /\ gone \subseteq Known
    /\ \A d \in Devices, k \in Keys : camera[d][k].state = "none" => camera[d][k] = NoCamera
    /\ Unlinked => \A d \in Devices : device[d].state # "ACTIVE"
    /\ \A d \in Devices, k \in Keys :
          /\ device[d].state = "REMOVED" => camera[d][k].state # "ACTIVE"
          /\ camera[d][k].state = "REMOVED" <=> camera[d][k].status = "DISABLED"
RowsStand == InventoryTypeOK /\ RowsKnow /\ TombstoneStands /\ StatusInOrder /\ ZonesKept

InventoryStands == RowsStand /\ RingTypes /\ TasksKnow

LEMMA InventoryImplied == InventoryStands => InventoryInv
BY DEF InventoryStands, RowsStand, RowsKnow, TasksKnow, InventoryInv, RemovalComplete, Unlinked, Unlinking

LEMMA TimeGrows ==
  ASSUME NEW m \in Nat, NEW n \in Nat, m <= n
  PROVE  2 * (m + 1) \in Nat /\ 2 * (n + 1) \in Nat /\ 2 * (m + 1) <= 2 * (n + 1)
OBVIOUS

\* The rows stay, while Ring changes or the history forgets a device that has come back.
LEMMA RowsStay ==
  ASSUME RowsStand, changes \in Nat, changes' \in Nat, changes' >= changes,
         UNCHANGED <<inventory, basis>>, gone' \subseteq gone, gone' \cap raced \subseteq raced'
  PROVE  RowsStand'
<1>1. UNCHANGED <<connection, device, camera, basis>>
  BY DEF inventory
<1>2. 0..Changed \subseteq 0..Changed'
  <2>1. Changed \in Nat /\ Changed' \in Nat /\ Changed <= Changed'
    BY TimeGrows DEF Changed
  <2> QED
    BY <2>1
<1>3. InventoryTypeOK'
  BY <1>1, <1>2 DEF RowsStand, InventoryTypeOK
<1>4. TombstoneStands'
  BY <1>1 DEF RowsStand, TombstoneStands
<1>5. StatusInOrder' /\ ZonesKept'
  BY <1>1 DEF RowsStand, StatusInOrder, ZonesKept
<1>6. RowsKnow'
  BY <1>1 DEF RowsStand, RowsKnow, Known, Unlinked
<1> QED
  BY <1>3, <1>4, <1>5, <1>6 DEF RowsStand

\* One job moves on; the notices it works on keep what they say.
LEMMA TasksMove ==
  ASSUME RingTypes, TasksKnow, NEW j \in Jobs, UNCHANGED ringSide,
         queue' \in Seq(RingWebhook), Len(queue') = Len(queue),
         \A i \in 1..Len(queue) :
            /\ queue'[i].kind = queue[i].kind /\ queue'[i].at = queue[i].at
            /\ Unlinking(queue[i]) /\ queue'[i].state = "PROCESSED" =>
                  queue[i].state = "PROCESSED" \/ Unlinked',
         Unlinked => Unlinked',
         task' \in [Jobs -> InventoryJob], \A b \in Jobs \ {j} : task'[b] = task[b],
         task'[j].notice <= Len(queue), task'[j].at = "write" => task'[j].seen \in Sightings,
         task'[j].at \in {"apply", "finish"} => task'[j].notice # 0,
         task'[j].at = "finish" /\ Unlinking(queue[task'[j].notice]) => Unlinked'
  PROVE  RingTypes' /\ TasksKnow'
<1>1. RingTypes'
  BY DEF RingTypes, ringSide, Changed
<1>2. \A i \in 1..Len(queue) : Unlinking(queue'[i]) => Unlinking(queue[i])
  BY DEF Unlinking
<1>3. JobKnows(j)'
  <2>1. task'[j].at = "finish" => task'[j].notice \in 1..Len(queue)
    BY DEF RingTypes, InventoryJob
  <2> QED
    BY <1>2, <2>1 DEF JobKnows, AtPlace, ListingJob, Notice
<1>4. ASSUME NEW b \in Jobs \ {j}
      PROVE  JobKnows(b)'
  <2>1. task'[b] = task[b] /\ JobKnows(b)
    BY <1>4 DEF TasksKnow
  <2>2. task[b].at = "finish" => task[b].notice \in 1..Len(queue)
    BY <2>1 DEF JobKnows, ListingJob, TasksKnow, InventoryJob, RingTypes
  <2> QED
    BY <1>2, <2>1, <2>2 DEF JobKnows, AtPlace, ListingJob, Notice
<1>5. \A i \in 1..Len(queue') : Unlinking(queue'[i]) /\ queue'[i].state = "PROCESSED" => Unlinked'
  BY <1>2 DEF TasksKnow
<1> QED
  BY <1>1, <1>3, <1>4, <1>5 DEF TasksKnow

LEMMA TasksAlone ==
  ASSUME RingTypes, TasksKnow, NEW j \in Jobs, UNCHANGED <<ringSide, queue>>, Unlinked => Unlinked',
         task' \in [Jobs -> InventoryJob], \A b \in Jobs \ {j} : task'[b] = task[b],
         task'[j].notice <= Len(queue), task'[j].at = "write" => task'[j].seen \in Sightings,
         task'[j].at \in {"apply", "finish"} => task'[j].notice # 0,
         task'[j].at = "finish" /\ Unlinking(queue[task'[j].notice]) => Unlinked'
  PROVE  RingTypes' /\ TasksKnow'
BY TasksMove DEF RingTypes

LEMMA JobMoves ==
  ASSUME TasksKnow, NEW j \in Jobs, NEW place \in {"read", "write", "apply", "finish", "activate"}, Move(j, place)
  PROVE  /\ task' \in [Jobs -> InventoryJob] /\ \A b \in Jobs \ {j} : task'[b] = task[b]
         /\ task'[j].at = place /\ task'[j].notice = task[j].notice /\ task'[j].seen = task[j].seen
BY DEF Move, TasksKnow, InventoryJob

LEMMA JobEnds ==
  ASSUME TasksKnow, NEW j \in Jobs, TaskEnds(j)
  PROVE  /\ task' \in [Jobs -> InventoryJob] /\ \A b \in Jobs \ {j} : task'[b] = task[b]
         /\ task'[j].at = "idle" /\ task'[j].notice = 0
BY DEF TaskEnds, TasksKnow, InventoryJob, Resting

LEMMA TaskStops ==
  ASSUME RingTypes, TasksKnow, NEW j \in Jobs, UNCHANGED <<ringSide, queue>>, Unlinked => Unlinked',
         TaskEnds(j)
  PROVE  RingTypes' /\ TasksKnow'
<1>1. Len(queue) \in Nat
  BY DEF RingTypes
<1> QED
  BY <1>1, JobEnds, TasksAlone

\* Ring.
LEMMA RingKept ==
  ASSUME InventoryStands, RingStep
  PROVE  InventoryStands'
<1>1. UNCHANGED <<queue, connection, device, camera, task, basis>>
  BY DEF RingStep, inventory
<1>2. changes \in Nat /\ changes' = changes + 1
  BY DEF RingStep, RingAdds, RingRefits, RingRemoves, RingSwitches, RingUnlinks, RingChanges,
         InventoryStands, RingTypes
<1>3. Changed \in Nat /\ Changed' \in Nat /\ Changed <= Changed'
  <2>1. changes' \in Nat /\ changes <= changes'
    BY <1>2
  <2> QED
    BY <1>2, <2>1, TimeGrows DEF Changed
<1>4. gone' \subseteq gone /\ gone' \cap raced \subseteq raced'
  BY DEF RingStep, RingAdds, RingRefits, RingRemoves, RingSwitches, RingUnlinks
<1>5. RowsStand'
  <2>1. changes' \in Nat /\ changes' >= changes /\ UNCHANGED <<inventory, basis>>
    BY <1>1, <1>2 DEF inventory
  <2> QED
    BY <1>2, <1>4, <2>1, RowsStay DEF InventoryStands
<1>6. ring' \in [linked : BOOLEAN, parts : [Devices -> SUBSET Keys], online : [Devices -> BOOLEAN]]
  <2>1. ring \in [linked : BOOLEAN, parts : [Devices -> SUBSET Keys], online : [Devices -> BOOLEAN]]
    BY DEF InventoryStands, RingTypes
  <2>2. ASSUME NEW d \in Devices, NEW parts \in SUBSET Keys, ring' = [ring EXCEPT !.parts[d] = parts]
        PROVE  ring' \in [linked : BOOLEAN, parts : [Devices -> SUBSET Keys], online : [Devices -> BOOLEAN]]
    BY <2>1, <2>2
  <2>3. ASSUME NEW d \in Devices, ring' = [ring EXCEPT !.online[d] = ~ring.online[d]]
        PROVE  ring' \in [linked : BOOLEAN, parts : [Devices -> SUBSET Keys], online : [Devices -> BOOLEAN]]
    BY <2>1, <2>3
  <2>4. ASSUME ring' = [ring EXCEPT !.linked = FALSE]
        PROVE  ring' \in [linked : BOOLEAN, parts : [Devices -> SUBSET Keys], online : [Devices -> BOOLEAN]]
    BY <2>1, <2>4
  <2>5. PICK d \in Devices :
           \/ \E parts \in SUBSET Keys \ {{}} : RingAdds(d, parts) \/ RingRefits(d, parts)
           \/ RingRemoves(d) \/ RingSwitches(d) \/ RingUnlinks(d)
    BY DEF RingStep
  <2>6. CASE \E parts \in SUBSET Keys \ {{}} : RingAdds(d, parts) \/ RingRefits(d, parts)
    BY <2>2, <2>6 DEF RingAdds, RingRefits
  <2>7. CASE RingRemoves(d)
    BY <2>2, <2>7 DEF RingRemoves
  <2>8. CASE RingSwitches(d)
    BY <2>3, <2>8 DEF RingSwitches
  <2>9. CASE RingUnlinks(d)
    BY <2>4, <2>9 DEF RingUnlinks
  <2> QED
    BY <2>5, <2>6, <2>7, <2>8, <2>9
<1>7. \A n \in wire' : n \in RingNotice /\ (n \in wire \/ n.at = Changed)
  <2>1. \A n \in wire : n \in RingNotice
    BY DEF InventoryStands, RingTypes
  <2>2. ASSUME NEW d \in Devices, NEW kind \in NoticeKinds, Tell(kind, d)
        PROVE  \A n \in wire' : n \in RingNotice /\ (n \in wire \/ n.at = Changed)
    <3>1. [kind |-> kind, device |-> d, at |-> Changed] \in RingNotice
      BY <1>3 DEF RingNotice
    <3> QED
      BY <2>1, <2>2, <3>1 DEF Tell
  <2> QED
    BY <2>1, <2>2 DEF RingStep, RingAdds, RingRefits, RingRemoves, RingSwitches, RingUnlinks, NoticeKinds
<1>8. \A n \in wire' : n.at <= Changed'
  BY <1>3, <1>7 DEF InventoryStands, RingTypes, RingNotice
<1>9. \A i \in 1..Len(queue) : queue[i].at <= Changed'
  <2>1. \A i \in 1..Len(queue) : queue[i] \in RingWebhook /\ queue[i].at <= Changed
    BY DEF InventoryStands, RingTypes
  <2> QED
    BY <1>3, <2>1 DEF RingWebhook
<1>10. RingTypes'
  BY <1>1, <1>2, <1>6, <1>7, <1>8, <1>9 DEF RingTypes, InventoryStands
<1>11. TasksKnow'
  BY <1>1 DEF InventoryStands, TasksKnow, JobKnows, Notice, ListingJob, AtPlace, Unlinked
<1> QED
  BY <1>5, <1>10, <1>11 DEF InventoryStands

LEMMA IngestKept ==
  ASSUME InventoryStands, Ingest
  PROVE  InventoryStands'
<1>1. PICK n \in wire :
         /\ wire' = wire \ {n}
         /\ queue' = Append(queue, [kind |-> n.kind, device |-> n.device, at |-> n.at,
                                    state |-> "RECEIVED", claims |-> 0])
  BY DEF Ingest
<1>2. PICK r \in RingWebhook : /\ r = [kind |-> n.kind, device |-> n.device, at |-> n.at,
                                       state |-> "RECEIVED", claims |-> 0]
                               /\ r.state = "RECEIVED" /\ r.at = n.at
  <2>1. n.kind \in NoticeKinds /\ n.device \in Devices /\ n.at \in Nat
    BY DEF InventoryStands, RingTypes, RingNotice
  <2>2. PICK r : r = [kind |-> n.kind, device |-> n.device, at |-> n.at,
                      state |-> "RECEIVED", claims |-> 0]
    OBVIOUS
  <2>3. r \in RingWebhook
    BY <2>1, <2>2 DEF RingWebhook
  <2>4. r.state = "RECEIVED" /\ r.at = n.at
    BY <2>2
  <2> QED
    BY <2>2, <2>3, <2>4
<1>3. UNCHANGED <<ring, changes, inventory, task, gone, raced, basis>>
  BY DEF Ingest, inventoryHistory
<1>4. /\ queue' \in Seq(RingWebhook) /\ Len(queue') = Len(queue) + 1 /\ Len(queue) \in Nat
      /\ \A i \in 1..Len(queue) : queue'[i] = queue[i]
      /\ queue'[Len(queue) + 1] = r
  <2>1. queue \in Seq(RingWebhook) /\ queue' = Append(queue, r)
    BY <1>1, <1>2 DEF InventoryStands, RingTypes
  <2> QED
    BY <2>1, AppendProperties
<1>5. RowsStand'
  <2>1. changes \in Nat /\ changes' \in Nat /\ changes' >= changes
    BY <1>3 DEF InventoryStands, RingTypes
  <2> QED
    BY <1>3, <2>1, RowsStay DEF InventoryStands
<1>6. RingTypes'
  <2>1. \A i \in 1..Len(queue') : queue'[i].at <= Changed
    <3>1. r.at <= Changed
      BY <1>2 DEF InventoryStands, RingTypes
    <3>2. ASSUME NEW i \in 1..Len(queue')
          PROVE  i \in 1..Len(queue) \/ i = Len(queue) + 1
      BY <1>4
    <3> QED
      BY <1>4, <3>1, <3>2 DEF InventoryStands, RingTypes
  <2>2. Changed' = Changed
    BY <1>3 DEF Changed
  <2> QED
    BY <1>1, <1>3, <1>4, <2>1, <2>2 DEF InventoryStands, RingTypes
<1>7. TasksKnow'
  <2>1. UNCHANGED <<task, connection>>
    BY <1>3 DEF inventory
  <2>2. ASSUME NEW j \in Jobs
        PROVE  JobKnows(j)'
    <3>1. JobKnows(j) /\ task[j] \in InventoryJob
      BY DEF InventoryStands, TasksKnow
    <3>2. task[j].notice <= Len(queue) /\ task[j].notice \in Nat
      BY <3>1 DEF JobKnows, InventoryJob
    <3>3. ~ListingJob(j) => task[j].notice \in 1..Len(queue)
      BY <1>4, <3>2 DEF ListingJob
    <3>4. task[j].notice <= Len(queue')
      BY <1>4, <3>2
    <3>5. AtPlace(j, "finish") => queue'[task[j].notice] = queue[task[j].notice]
      BY <1>4, <3>1, <3>3 DEF JobKnows, AtPlace
    <3> QED
      BY <2>1, <3>1, <3>4, <3>5 DEF JobKnows, AtPlace, ListingJob, Notice, Unlinked
  <2>3. ASSUME NEW i \in 1..Len(queue'), Unlinking(queue'[i]), queue'[i].state = "PROCESSED"
        PROVE  Unlinked'
    <3>1. i \in 1..Len(queue)
      <4>1. i # Len(queue) + 1
        BY <1>2, <1>4, <2>3
      <4> QED
        BY <1>4, <2>3, <4>1
    <3> QED
      BY <1>4, <2>1, <2>3, <3>1 DEF InventoryStands, TasksKnow, Unlinked
  <2> QED
    BY <2>1, <2>2, <2>3 DEF InventoryStands, TasksKnow
<1> QED
  BY <1>5, <1>6, <1>7 DEF InventoryStands

\* Requests that begin, read or end, and leave the rows.
LEMMA JobsKept ==
  ASSUME InventoryStands, NEW j \in Jobs, Sync(j) \/ Read(j) \/ Die(j)
  PROVE  InventoryStands'
<1>1. UNCHANGED <<ringSide, queue, inventory, inventoryHistory>>
  BY DEF Sync, Read, Die
<1>2. RowsStand'
  <2>1. changes \in Nat /\ changes' \in Nat /\ changes' >= changes
    BY <1>1 DEF InventoryStands, RingTypes, ringSide
  <2>2. UNCHANGED <<gone, raced, inventory, basis>>
    BY <1>1 DEF inventoryHistory
  <2> QED
    BY <2>1, <2>2, RowsStay DEF InventoryStands
<1>3. Unlinked => Unlinked'
  BY <1>1 DEF Unlinked, inventory
<1>4. CASE Sync(j)
  <2>1. task[j].notice <= Len(queue)
    BY DEF InventoryStands, TasksKnow, JobKnows
  <2> QED
    BY <1>1, <1>2, <1>3, <1>4, <2>1, JobMoves, TasksAlone DEF Sync, InventoryStands
<1>5. CASE Read(j)
  <2>1. PICK seen \in Sightings : task' = [task EXCEPT ![j].at = "write", ![j].seen = seen]
    <3>1. PICK S \in SUBSET Devices :
             task' = [task EXCEPT ![j].at = "write", ![j].seen = [d \in S |->
                         [parts |-> ring.parts[d], online |-> ring.online[d]]]]
      <4>1. ~ListingJob(j) => Notice(j).device \in Devices
        BY <1>5 DEF Read, Attached
      <4>2. Attached \in SUBSET Devices
        BY DEF Attached
      <4> QED
        BY <1>5, <4>1, <4>2 DEF Read
    <3>2. [d \in S |-> [parts |-> ring.parts[d], online |-> ring.online[d]]]
             \in [S -> [parts : SUBSET Keys, online : BOOLEAN]]
      BY DEF InventoryStands, RingTypes
    <3> QED
      BY <3>1, <3>2 DEF Sightings
  <2>2. /\ task' \in [Jobs -> InventoryJob] /\ \A b \in Jobs \ {j} : task'[b] = task[b]
        /\ task'[j].at = "write" /\ task'[j].notice = task[j].notice /\ task'[j].seen = seen
    BY <2>1 DEF InventoryStands, TasksKnow, InventoryJob
  <2>3. task[j].notice <= Len(queue)
    BY DEF InventoryStands, TasksKnow, JobKnows
  <2> QED
    BY <1>1, <1>2, <1>3, <2>2, <2>3, TasksAlone DEF InventoryStands
<1>6. CASE Die(j)
  BY <1>1, <1>2, <1>3, <1>6, TaskStops DEF Die, InventoryStands
<1> QED
  BY <1>4, <1>5, <1>6

\* The row of a notice changes, with the job that has it.
LEMMA QueueKept ==
  ASSUME InventoryStands, NEW j \in Jobs, UNCHANGED <<ringSide, inventory, inventoryHistory>>,
         NEW i \in 1..Len(queue), NEW r \in RingWebhook, queue' = [queue EXCEPT ![i] = r],
         r.kind = queue[i].kind, r.at = queue[i].at,
         r.state = "PROCESSED" /\ Unlinking(queue[i]) => Unlinked,
         task' \in [Jobs -> InventoryJob], \A b \in Jobs \ {j} : task'[b] = task[b],
         task'[j].notice \in {0, i}, task'[j].at \in {"idle", "read", "apply"},
         task'[j].at = "apply" => task'[j].notice # 0
  PROVE  InventoryStands'
<1>1. RowsStand'
  <2>1. changes \in Nat /\ changes' \in Nat /\ changes' >= changes
    BY DEF InventoryStands, RingTypes, ringSide
  <2>2. UNCHANGED <<gone, raced, inventory, basis>>
    BY DEF inventoryHistory
  <2> QED
    BY <2>1, <2>2, RowsStay DEF InventoryStands
<1>2. Unlinked' <=> Unlinked
  BY DEF Unlinked, inventory
<1>3. queue \in Seq(RingWebhook) /\ Len(queue) \in Nat
  BY DEF InventoryStands, RingTypes
<1>4. /\ queue' \in Seq(RingWebhook) /\ Len(queue') = Len(queue)
      /\ \A k \in 1..Len(queue) : queue'[k] = IF k = i THEN r ELSE queue[k]
  BY <1>3, ExceptSeq
<1>5. \A k \in 1..Len(queue) :
            /\ queue'[k].kind = queue[k].kind /\ queue'[k].at = queue[k].at
            /\ Unlinking(queue[k]) /\ queue'[k].state = "PROCESSED" =>
                  queue[k].state = "PROCESSED" \/ Unlinked'
  BY <1>2, <1>4
<1>6. task'[j].notice <= Len(queue)
  BY <1>3
<1> QED
  BY <1>1, <1>2, <1>4, <1>5, <1>6, TasksMove DEF InventoryStands

LEMMA ClaimKept ==
  ASSUME InventoryStands, NEW j \in Jobs, ClaimEvent(j)
  PROVE  InventoryStands'
<1>1. PICK i \in 1..Len(queue) :
         /\ queue' = [queue EXCEPT ![i].state = "PROCESSING", ![i].claims = queue[i].claims + 1]
         /\ task' = [task EXCEPT ![j].notice = i, ![j].at =
                        IF queue[i].kind = "device_added" THEN "read" ELSE "apply"]
  BY DEF ClaimEvent
<1>2. queue[i] \in RingWebhook /\ queue \in Seq(RingWebhook) /\ i \in Nat \ {0}
  BY DEF InventoryStands, RingTypes
<1>3. PICK r : r = [queue[i] EXCEPT !.state = "PROCESSING", !.claims = queue[i].claims + 1]
  OBVIOUS
<1>4. r \in RingWebhook /\ r.kind = queue[i].kind /\ r.at = queue[i].at /\ r.state = "PROCESSING"
  <2>1. PICK n \in Nat : n = queue[i].claims + 1
    BY <1>2 DEF RingWebhook
  <2>2. r = [queue[i] EXCEPT !.state = "PROCESSING", !.claims = n]
    BY <1>3, <2>1
  <2> QED
    BY <1>2, <2>2 DEF RingWebhook
<1>5. queue' = [queue EXCEPT ![i] = r]
  BY <1>1, <1>2, <1>3
<1>6. /\ task' \in [Jobs -> InventoryJob] /\ \A b \in Jobs \ {j} : task'[b] = task[b]
      /\ task'[j].notice = i /\ task'[j].at \in {"read", "apply"}
  BY <1>1, <1>2 DEF InventoryStands, TasksKnow, InventoryJob
<1>7. UNCHANGED <<ringSide, inventory, inventoryHistory>>
  BY DEF ClaimEvent
<1> QED
  BY <1>2, <1>4, <1>5, <1>6, <1>7, QueueKept

LEMMA FinishKept ==
  ASSUME InventoryStands, NEW j \in Jobs,
         NEW state \in {"PROCESSED", "FAILED_RETRYABLE", "FAILED_PERMANENT"}, FinishEvent(j, state),
         state = "PROCESSED" => AtPlace(j, "finish")
  PROVE  InventoryStands'
<1>1. PICK i \in 1..Len(queue) : i = task[j].notice
  BY DEF FinishEvent, ListingJob, InventoryStands, TasksKnow, JobKnows, InventoryJob, RingTypes
<1>2. queue' = [queue EXCEPT ![i].state = state]
  BY <1>1 DEF FinishEvent
<1>3. queue[i] \in RingWebhook /\ queue \in Seq(RingWebhook)
  BY DEF InventoryStands, RingTypes
<1>4. PICK r : r = [queue[i] EXCEPT !.state = state]
  OBVIOUS
<1>5. r \in RingWebhook /\ r.kind = queue[i].kind /\ r.at = queue[i].at /\ r.state = state
  BY <1>3, <1>4 DEF RingWebhook
<1>6. queue' = [queue EXCEPT ![i] = r]
  BY <1>2, <1>3, <1>4
<1>7. r.state = "PROCESSED" /\ Unlinking(queue[i]) => Unlinked
  BY <1>1, <1>5 DEF InventoryStands, TasksKnow, JobKnows, Notice
<1>8. /\ task' \in [Jobs -> InventoryJob] /\ \A b \in Jobs \ {j} : task'[b] = task[b]
      /\ task'[j].at = "idle" /\ task'[j].notice = 0
  BY JobEnds DEF FinishEvent, InventoryStands
<1>9. UNCHANGED <<ringSide, inventory, inventoryHistory>>
  BY DEF FinishEvent
<1> QED
  BY <1>5, <1>6, <1>7, <1>8, <1>9, QueueKept

LEMMA ConnectionKept ==
  ASSUME RowsStand, changes \in Nat, UNCHANGED <<ringSide, device, camera, inventoryHistory>>,
         connection' \in [state : {"CONFIGURING", "ACTIVE", "DISCONNECTED"}, health : {"ACTIVE", "DEGRADED", "REMOTE_REMOVED"}],
         Unlinked' => Unlinked
  PROVE  RowsStand'
<1>1. InventoryTypeOK'
  BY DEF RowsStand, InventoryTypeOK, Changed, ringSide
<1>2. TombstoneStands' /\ StatusInOrder' /\ ZonesKept'
  BY DEF RowsStand, TombstoneStands, StatusInOrder, ZonesKept, inventoryHistory
<1>3. RowsKnow'
  BY DEF RowsStand, RowsKnow, Known, inventoryHistory
<1> QED
  BY <1>1, <1>2, <1>3 DEF RowsStand

LEMMA DegradeKept ==
  ASSUME InventoryStands, NEW j \in Jobs, Degrade(j)
  PROVE  InventoryStands'
<1>1. /\ UNCHANGED <<ringSide, queue, device, camera, inventoryHistory>> /\ TaskEnds(j)
      /\ connection' = IF Unlinked THEN connection ELSE [connection EXCEPT !.health = "DEGRADED"]
  BY DEF Degrade, Unlinked
<1>2. connection \in [state : {"CONFIGURING", "ACTIVE", "DISCONNECTED"}, health : {"ACTIVE", "DEGRADED", "REMOTE_REMOVED"}]
  BY DEF InventoryStands, RowsStand, RowsKnow
<1>3. /\ connection' \in [state : {"CONFIGURING", "ACTIVE", "DISCONNECTED"}, health : {"ACTIVE", "DEGRADED", "REMOTE_REMOVED"}]
      /\ connection'.state = connection.state /\ (Unlinked' <=> Unlinked)
  BY <1>1, <1>2 DEF Unlinked
<1>4. RowsStand'
  BY <1>1, <1>3, ConnectionKept DEF InventoryStands, RingTypes
<1>5. RingTypes' /\ TasksKnow'
  BY <1>1, <1>3, TaskStops DEF InventoryStands
<1> QED
  BY <1>4, <1>5 DEF InventoryStands

\* An activation reads the connection, and later writes its state alone.
LEMMA ActivationKept ==
  ASSUME InventoryStands, NEW j \in Jobs, FindConfiguring(j) \/ WriteActive(j)
  PROVE  InventoryStands'
<1>1. UNCHANGED <<ringSide, queue, device, camera, inventoryHistory>>
  BY DEF FindConfiguring, WriteActive, inventory
<1>2. /\ connection' \in [state : {"CONFIGURING", "ACTIVE", "DISCONNECTED"},
                          health : {"ACTIVE", "DEGRADED", "REMOTE_REMOVED"}]
      /\ Unlinked' <=> Unlinked
  BY DEF FindConfiguring, WriteActive, inventory, InventoryStands, RowsStand, RowsKnow, Unlinked
<1>3. RowsStand'
  BY <1>1, <1>2, ConnectionKept DEF InventoryStands, RingTypes
<1>4. RingTypes' /\ TasksKnow'
  <2>1. CASE FindConfiguring(j)
    <3>1. Move(j, "activate")
      BY <2>1 DEF FindConfiguring
    <3>2. /\ task' \in [Jobs -> InventoryJob] /\ \A b \in Jobs \ {j} : task'[b] = task[b]
          /\ task'[j].at = "activate" /\ task'[j].notice = task[j].notice
      BY <3>1, JobMoves DEF InventoryStands
    <3>3. task[j].notice <= Len(queue)
      BY DEF InventoryStands, TasksKnow, JobKnows
    <3> QED
      BY <1>1, <1>2, <3>2, <3>3, TasksAlone DEF InventoryStands
  <2>2. CASE WriteActive(j)
    BY <1>1, <1>2, <2>2, TaskStops DEF WriteActive, InventoryStands
  <2> QED
    BY <2>1, <2>2
<1> QED
  BY <1>3, <1>4 DEF InventoryStands

LEMMA DisconnectKept ==
  ASSUME InventoryStands, DisconnectAccount
  PROVE  InventoryStands'
<1>1. /\ UNCHANGED <<ringSide, queue, device, camera, task, inventoryHistory>>
      /\ connection' = [connection EXCEPT !.state = "DISCONNECTED"]
  BY DEF DisconnectAccount
<1>2. connection \in [state : {"CONFIGURING", "ACTIVE", "DISCONNECTED"}, health : {"ACTIVE", "DEGRADED", "REMOTE_REMOVED"}]
  BY DEF InventoryStands, RowsStand, RowsKnow
<1>3. /\ connection' \in [state : {"CONFIGURING", "ACTIVE", "DISCONNECTED"}, health : {"ACTIVE", "DEGRADED", "REMOTE_REMOVED"}]
      /\ connection'.state = "DISCONNECTED" /\ (Unlinked' <=> Unlinked)
  BY <1>1, <1>2 DEF Unlinked
<1>4. RowsStand'
  BY <1>1, <1>3, ConnectionKept DEF InventoryStands, RingTypes
<1>5. RingTypes' /\ TasksKnow'
  BY <1>1, <1>3 DEF InventoryStands, RingTypes, TasksKnow, JobKnows, Notice, ListingJob, AtPlace,
                    Changed, ringSide
<1> QED
  BY <1>4, <1>5 DEF InventoryStands

\* One camera of a device, as a step may leave it.
CameraRow == [state : {"none", "ACTIVE", "REMOVED"},
              status : {"none", "DISCOVERED", "ACTIVE", "DISABLED"}, zoned : BOOLEAN]
CameraStands(c) ==
    /\ c \in CameraRow /\ (c.state = "none" => c = NoCamera)
    /\ c.state = "REMOVED" <=> c.status = "DISABLED"
    /\ c.state = "ACTIVE" => c.status = (IF c.zoned THEN "ACTIVE" ELSE "DISCOVERED")

LEMMA CamerasStand ==
  ASSUME RowsStand, NEW d \in Devices, NEW k \in Keys
  PROVE  CameraStands(camera[d][k])
<1>1. camera[d][k] \in CameraRow
  BY DEF RowsStand, InventoryTypeOK, CameraRow
<1> QED
  BY <1>1 DEF RowsStand, RowsKnow, ZonesKept, CameraStands

LEMMA DisabledStands ==
  ASSUME NEW c, CameraStands(c)
  PROVE  CameraStands(Disabled(c)) /\ Disabled(c).state # "ACTIVE"
<1>1. CASE c.state = "none"
  BY <1>1 DEF Disabled, CameraStands
<1>2. CASE c.state # "none"
  <2>1. Disabled(c) = [c EXCEPT !.state = "REMOVED", !.status = "DISABLED"]
    BY <1>2 DEF Disabled
  <2> QED
    BY <2>1 DEF CameraStands, CameraRow
<1> QED
  BY <1>1, <1>2

LEMMA MergedStands ==
  ASSUME NEW c, CameraStands(c), NEW k, NEW K
  PROVE  CameraStands(Merged(c, k \in K))
<1>1. CASE k \in K /\ c.state = "none"
  <2>1. Merged(c, k \in K) = [state |-> "ACTIVE", status |-> "DISCOVERED", zoned |-> FALSE]
    BY <1>1 DEF Merged
  <2>2. PICK r : r = [state |-> "ACTIVE", status |-> "DISCOVERED", zoned |-> FALSE]
    OBVIOUS
  <2>3. r \in CameraRow /\ r.state = "ACTIVE" /\ r.status = "DISCOVERED" /\ r.zoned = FALSE
    BY <2>2 DEF CameraRow
  <2> QED
    BY <2>1, <2>2, <2>3 DEF CameraStands
<1>2. CASE k \in K /\ c.state # "none"
  <2>1. Merged(c, k \in K) = [c EXCEPT !.state = "ACTIVE", !.status = Restored(c)]
    BY <1>2 DEF Merged
  <2>2. Restored(c) = IF c.zoned THEN "ACTIVE" ELSE "DISCOVERED"
    BY <1>2 DEF Restored, CameraStands, CameraRow
  <2>3. PICK s : s = Restored(c)
    OBVIOUS
  <2>4. s \in {"ACTIVE", "DISCOVERED"} /\ Merged(c, k \in K) = [c EXCEPT !.state = "ACTIVE", !.status = s]
    BY <2>1, <2>2, <2>3
  <2> QED
    BY <2>2, <2>3, <2>4 DEF CameraStands, CameraRow
<1>3. CASE k \notin K
  BY <1>3, DisabledStands DEF Merged
<1> QED
  BY <1>1, <1>2, <1>3

\* The rows stand when each camera and each device does.
LEMMA RowsRestand ==
  ASSUME RowsStand,
         connection' \in [state : {"CONFIGURING", "ACTIVE", "DISCONNECTED"}, health : {"ACTIVE", "DEGRADED", "REMOTE_REMOVED"}],
         device' \in [Devices -> [state : {"none", "ACTIVE", "REMOVED"}, online : BOOLEAN, observed : 0..Changed]],
         changes' = changes, camera' = [d \in Devices |-> [k \in Keys |-> camera'[d][k]]],
         \A d \in Devices, k \in Keys :
            CameraStands(camera'[d][k]) /\ (device'[d].state = "REMOVED" => camera'[d][k].state # "ACTIVE"),
         basis' \in [Devices -> Nat], \A d \in Devices : basis'[d] <= device'[d].observed,
         Unlinked' => \A d \in Devices : device'[d].state # "ACTIVE",
         \A d \in gone' : d \in Devices /\ device'[d].state # "none" /\ (device'[d].state = "ACTIVE" => d \in raced')
  PROVE  RowsStand'
<1>1. camera' \in [Devices -> [Keys -> CameraRow]]
  BY DEF CameraStands
<1>2. InventoryTypeOK'
  BY <1>1 DEF InventoryTypeOK, CameraRow, Changed
<1>3. TombstoneStands' /\ StatusInOrder'
  BY DEF TombstoneStands, StatusInOrder
<1>4. ZonesKept'
  BY DEF ZonesKept, CameraStands
<1>5. RowsKnow'
  BY DEF RowsKnow, Known, CameraStands
<1> QED
  BY <1>2, <1>3, <1>4, <1>5 DEF RowsStand

LEMMA ReconcileKept ==
  ASSUME RowsStand, changes \in Nat, changes' = changes, NEW seen \in Sightings, NEW restore \in BOOLEAN,
         Reconcile(seen, restore), ~Unlinked', gone' = gone,
         connection' \in [state : {"CONFIGURING", "ACTIVE", "DISCONNECTED"}, health : {"ACTIVE", "DEGRADED", "REMOTE_REMOVED"}],
         raced' = IF restore THEN raced \cup (gone \cap DOMAIN seen) ELSE raced
  PROVE  RowsStand'
<1>1. PICK S \in SUBSET Devices : seen \in [S -> [parts : SUBSET Keys, online : BOOLEAN]]
  BY DEF Sightings
<1>2. PICK W \in SUBSET S : W = Written(seen, restore)
  BY <1>1 DEF Written
<1>3. /\ device' = [d \in Devices |-> IF d \notin W THEN device[d]
                       ELSE [state |-> "ACTIVE", online |-> seen[d].online, observed |-> Clock]]
      /\ camera' = [d \in Devices |-> IF d \notin W THEN camera[d]
                       ELSE [k \in Keys |-> Merged(camera[d][k], k \in seen[d].parts)]]
      /\ basis' = [d \in Devices |-> IF d \in W THEN Clock ELSE basis[d]]
  BY <1>2 DEF Reconcile
<1>4. Clock \in Nat /\ Clock \in 0..Changed
  BY DEF Clock, Changed
<1>5. PICK now : now = Clock
  OBVIOUS
<1>6. ASSUME NEW d \in Devices
      PROVE  /\ d \in W => device'[d].state = "ACTIVE" /\ device'[d].observed = now /\ basis'[d] = now
             /\ d \notin W => device'[d] = device[d] /\ basis'[d] = basis[d] /\ camera'[d] = camera[d]
             /\ device'[d] \in [state : {"none", "ACTIVE", "REMOVED"}, online : BOOLEAN, observed : 0..Changed]
             /\ basis'[d] \in Nat
  <2>1. /\ device[d] \in [state : {"none", "ACTIVE", "REMOVED"}, online : BOOLEAN, observed : 0..Changed]
        /\ basis[d] \in Nat
    BY DEF RowsStand, InventoryTypeOK, RowsKnow
  <2>2. CASE d \in W
    <3>1. PICK on \in BOOLEAN : on = seen[d].online
      BY <1>1, <2>2
    <3>2. device'[d] = [state |-> "ACTIVE", online |-> on, observed |-> now] /\ basis'[d] = now
      BY <1>3, <1>5, <2>2, <3>1
    <3> QED
      BY <1>4, <1>5, <2>2, <3>2
  <2>3. CASE d \notin W
    BY <1>3, <2>1, <2>3
  <2> QED
    BY <2>2, <2>3
<1>7. /\ device' \in [Devices -> [state : {"none", "ACTIVE", "REMOVED"}, online : BOOLEAN, observed : 0..Changed]]
      /\ basis' \in [Devices -> Nat]
  BY <1>3, <1>6
<1>8. ASSUME NEW d \in Devices, NEW k \in Keys
      PROVE  CameraStands(camera'[d][k]) /\ (device'[d].state = "REMOVED" => camera'[d][k].state # "ACTIVE")
  <2>1. CASE d \in W
    <3>1. PICK K : K = seen[d].parts
      OBVIOUS
    <3>2. camera'[d][k] = Merged(camera[d][k], k \in K)
      BY <1>3, <2>1, <3>1
    <3>3. CameraStands(Merged(camera[d][k], k \in K))
      BY CamerasStand, MergedStands
    <3> QED
      BY <1>6, <2>1, <3>2, <3>3
  <2>2. CASE d \notin W
    BY <1>6, <2>2, CamerasStand DEF RowsStand, RowsKnow
  <2> QED
    BY <2>1, <2>2
<1>9. camera' = [d \in Devices |-> [k \in Keys |-> camera'[d][k]]]
  <2>1. ASSUME NEW d \in Devices
        PROVE  camera'[d] = [k \in Keys |-> camera'[d][k]]
    <3>1. camera[d] = [k \in Keys |-> camera[d][k]]
      BY DEF RowsStand, InventoryTypeOK
    <3> QED
      BY <1>3, <3>1
  <2> QED
    BY <1>3, <2>1
<1>10. \A d \in Devices : basis'[d] <= device'[d].observed
  BY <1>4, <1>5, <1>6 DEF RowsStand, StatusInOrder
<1>11. ASSUME NEW d \in gone
       PROVE  d \in Devices /\ device'[d].state # "none" /\ (device'[d].state = "ACTIVE" => d \in raced')
  <2>1. d \in Devices /\ device[d].state # "none" /\ (device[d].state = "ACTIVE" => d \in raced)
    BY DEF RowsStand, RowsKnow, Known, TombstoneStands
  <2>2. CASE d \in W
    <3>1. CASE restore
      BY <1>1, <1>6, <2>1, <2>2, <3>1
    <3>2. CASE ~restore
      <4>1. device[d].state # "REMOVED"
        BY <1>2, <2>2, <3>2 DEF Written
      <4>2. device[d].state \in {"none", "ACTIVE", "REMOVED"}
        BY <2>1 DEF RowsStand, InventoryTypeOK
      <4> QED
        BY <1>6, <2>1, <2>2, <3>2, <4>1, <4>2
    <3> QED
      BY <3>1, <3>2
  <2>3. CASE d \notin W
    BY <1>6, <2>1, <2>3
  <2> QED
    BY <2>2, <2>3
<1> QED
  BY <1>7, <1>8, <1>9, <1>10, <1>11, RowsRestand

LEMMA ListingKept ==
  ASSUME InventoryStands, NEW j \in Jobs, WriteListing(j)
  PROVE  InventoryStands'
<1>1. /\ AtPlace(j, "write") /\ TaskEnds(j) /\ UNCHANGED <<ringSide, queue, gone, raced>>
      /\ changes \in Nat /\ changes' = changes
  BY DEF WriteListing, InventoryStands, RingTypes, ringSide
<1>2. CASE Accepting
  <2>1. Reconcile(task[j].seen, FALSE) /\ connection' = [connection EXCEPT !.health = "ACTIVE"]
    BY <1>2 DEF WriteListing
  <2>2. PICK seen \in Sightings : seen = task[j].seen
    BY <1>1 DEF InventoryStands, TasksKnow, JobKnows
  <2>3. /\ connection' \in [state : {"CONFIGURING", "ACTIVE", "DISCONNECTED"}, health : {"ACTIVE", "DEGRADED", "REMOTE_REMOVED"}]
        /\ ~Unlinked' /\ ~Unlinked
    BY <1>2, <2>1 DEF InventoryStands, RowsStand, RowsKnow, Unlinked, Accepting
  <2>4. RowsStand'
    BY <1>1, <2>1, <2>2, <2>3, ReconcileKept DEF InventoryStands
  <2>5. RingTypes' /\ TasksKnow'
    BY <1>1, <2>3, TaskStops DEF InventoryStands
  <2> QED
    BY <2>4, <2>5 DEF InventoryStands
<1>3. CASE ~Accepting
  <2>1. UNCHANGED <<inventory, basis>>
    BY <1>3 DEF WriteListing
  <2>2. RowsStand'
    BY <1>1, <2>1, RowsStay DEF InventoryStands
  <2>3. RingTypes' /\ TasksKnow'
    BY <1>1, <2>1, TaskStops DEF InventoryStands, Unlinked, inventory
  <2> QED
    BY <2>2, <2>3 DEF InventoryStands
<1> QED
  BY <1>2, <1>3

LEMMA DetailKept ==
  ASSUME InventoryStands, NEW j \in Jobs, WriteDetail(j)
  PROVE  InventoryStands'
<1>1. /\ AtPlace(j, "write") /\ ~ListingJob(j) /\ Accepting /\ Move(j, "apply")
      /\ Reconcile(task[j].seen, TRUE) /\ raced' = raced \cup (gone \cap DOMAIN task[j].seen)
      /\ UNCHANGED <<ringSide, queue, connection, gone>>
      /\ changes \in Nat /\ changes' = changes
  BY DEF WriteDetail, InventoryStands, RingTypes, ringSide
<1>2. PICK seen \in Sightings : seen = task[j].seen
  BY <1>1 DEF InventoryStands, TasksKnow, JobKnows
<1>3. ~Unlinked' /\ ~Unlinked
  BY <1>1 DEF Unlinked, Accepting
<1>4. connection' \in [state : {"CONFIGURING", "ACTIVE", "DISCONNECTED"}, health : {"ACTIVE", "DEGRADED", "REMOTE_REMOVED"}]
  BY <1>1 DEF InventoryStands, RowsStand, RowsKnow
<1>5. RowsStand'
  BY <1>1, <1>2, <1>3, <1>4, ReconcileKept DEF InventoryStands
<1>6. /\ task' \in [Jobs -> InventoryJob] /\ \A b \in Jobs \ {j} : task'[b] = task[b]
      /\ task'[j].at = "apply" /\ task'[j].notice = task[j].notice
  BY <1>1, JobMoves DEF InventoryStands
<1>7. task[j].notice <= Len(queue) /\ task[j].notice # 0
  BY <1>1 DEF InventoryStands, TasksKnow, JobKnows, ListingJob
<1>8. RingTypes' /\ TasksKnow'
  BY <1>1, <1>3, <1>6, <1>7, TasksAlone DEF InventoryStands
<1> QED
  BY <1>5, <1>8 DEF InventoryStands

LEMMA RemovalRows ==
  ASSUME RowsStand, NEW S \in SUBSET Devices, RemoveDevices(S)
  PROVE  /\ device' \in [Devices -> [state : {"none", "ACTIVE", "REMOVED"}, online : BOOLEAN, observed : 0..Changed]]
         /\ camera' = [d \in Devices |-> [k \in Keys |-> camera'[d][k]]]
         /\ \A d \in S : device'[d].state = "REMOVED" /\ device'[d].observed = device[d].observed
         /\ \A d \in Devices \ S : device'[d] = device[d]
         /\ \A d \in Devices, k \in Keys :
               CameraStands(camera'[d][k]) /\ (device'[d].state = "REMOVED" => camera'[d][k].state # "ACTIVE")
<1>1. /\ device' = [d \in Devices |-> IF d \in S THEN [device[d] EXCEPT !.state = "REMOVED"] ELSE device[d]]
      /\ camera' = [d \in Devices |-> IF d \in S THEN [k \in Keys |-> Disabled(camera[d][k])] ELSE camera[d]]
  BY DEF RemoveDevices
<1>2. ASSUME NEW d \in Devices
      PROVE  /\ device'[d] \in [state : {"none", "ACTIVE", "REMOVED"}, online : BOOLEAN, observed : 0..Changed]
             /\ d \in S => device'[d].state = "REMOVED" /\ device'[d].observed = device[d].observed
             /\ d \notin S => device'[d] = device[d]
  <2>1. device[d] \in [state : {"none", "ACTIVE", "REMOVED"}, online : BOOLEAN, observed : 0..Changed]
    BY DEF RowsStand, InventoryTypeOK
  <2> QED
    BY <1>1, <2>1
<1>3. ASSUME NEW d \in Devices, NEW k \in Keys
      PROVE  CameraStands(camera'[d][k]) /\ (device'[d].state = "REMOVED" => camera'[d][k].state # "ACTIVE")
  <2>1. CameraStands(camera[d][k])
    BY CamerasStand
  <2>2. CASE d \in S
    <3>1. camera'[d][k] = Disabled(camera[d][k])
      BY <1>1, <2>2
    <3> QED
      BY <2>1, <3>1, DisabledStands
  <2>3. CASE d \notin S
    <3>1. camera'[d] = camera[d] /\ device'[d] = device[d]
      BY <1>1, <2>3
    <3> QED
      BY <2>1, <3>1 DEF RowsStand, RowsKnow
  <2> QED
    BY <2>2, <2>3
<1>4. camera' = [d \in Devices |-> [k \in Keys |-> camera'[d][k]]]
  <2>1. ASSUME NEW d \in Devices
        PROVE  camera'[d] = [k \in Keys |-> camera'[d][k]]
    <3>1. camera[d] = [k \in Keys |-> camera[d][k]]
      BY DEF RowsStand, InventoryTypeOK
    <3> QED
      BY <1>1, <3>1
  <2> QED
    BY <1>1, <2>1
<1> QED
  BY <1>1, <1>2, <1>3, <1>4

LEMMA StatusKept ==
  ASSUME RowsStand, changes \in Nat, changes' = changes, NEW n, ApplyStatus(n),
         n.device \in Devices, n.at \in Nat, n.at <= Changed
  PROVE  RowsStand'
<1>1. PICK d \in Devices, t \in Nat : d = n.device /\ t = n.at
  OBVIOUS
<1>2. UNCHANGED <<connection, camera, gone, raced>>
  BY DEF ApplyStatus
<1>3. CASE d \in Known /\ Timely(n)
  <2>1. PICK on \in BOOLEAN : on <=> n.kind = "device_online"
    OBVIOUS
  <2>2. /\ device' = [device EXCEPT ![d].online = n.kind = "device_online", ![d].observed = t]
        /\ basis' = [basis EXCEPT ![d] = IF basis[d] > t THEN Changed ELSE t]
    BY <1>1, <1>3 DEF ApplyStatus
  <2>3. /\ device[d] \in [state : {"none", "ACTIVE", "REMOVED"}, online : BOOLEAN, observed : 0..Changed]
        /\ basis[d] \in Nat /\ basis[d] <= device[d].observed /\ device[d].observed <= t
    BY <1>1, <1>3 DEF RowsStand, InventoryTypeOK, RowsKnow, StatusInOrder, Timely
  <2>4. basis[d] <= t /\ Changed \in Nat /\ t \in 0..Changed
    BY <1>1, <2>3 DEF Changed
  <2>5. basis' = [basis EXCEPT ![d] = t]
    <3>1. ~(basis[d] > t)
      BY <2>3, <2>4
    <3> QED
      BY <2>2, <3>1
  <2>6. /\ device' \in [Devices -> [state : {"none", "ACTIVE", "REMOVED"}, online : BOOLEAN, observed : 0..Changed]]
        /\ device'[d].state = device[d].state /\ device'[d].observed = t
        /\ \A e \in Devices \ {d} : device'[e] = device[e]
    <3>1. device \in [Devices -> [state : {"none", "ACTIVE", "REMOVED"}, online : BOOLEAN, observed : 0..Changed]]
      BY DEF RowsStand, InventoryTypeOK
    <3> QED
      BY <2>2, <2>4, <3>1
  <2>7. \A e \in Devices : device'[e].state = device[e].state
    BY <2>6
  <2>8. basis' \in [Devices -> Nat] /\ \A e \in Devices : basis'[e] <= device'[e].observed
    BY <1>1, <2>5, <2>6 DEF RowsStand, RowsKnow, StatusInOrder
  <2>9. ASSUME NEW e \in Devices, NEW k \in Keys
        PROVE  CameraStands(camera'[e][k]) /\ (device'[e].state = "REMOVED" => camera'[e][k].state # "ACTIVE")
    BY <1>2, <2>7, CamerasStand DEF RowsStand, RowsKnow
  <2>10. camera' = [e \in Devices |-> [k \in Keys |-> camera'[e][k]]]
    BY <1>2 DEF RowsStand, InventoryTypeOK
  <2>11. \A e \in gone' : e \in Devices /\ device'[e].state # "none" /\ (device'[e].state = "ACTIVE" => e \in raced')
    BY <1>2, <2>7 DEF RowsStand, RowsKnow, Known, TombstoneStands
  <2>12. Unlinked' => \A e \in Devices : device'[e].state # "ACTIVE"
    BY <1>2, <2>7 DEF RowsStand, RowsKnow, Unlinked
  <2>13. connection' \in [state : {"CONFIGURING", "ACTIVE", "DISCONNECTED"}, health : {"ACTIVE", "DEGRADED", "REMOTE_REMOVED"}]
    BY <1>2 DEF RowsStand, RowsKnow
  <2> QED
    BY <2>6, <2>8, <2>9, <2>10, <2>11, <2>12, <2>13, RowsRestand
<1>4. CASE ~(d \in Known /\ Timely(n))
  <2>1. UNCHANGED <<inventory, basis, gone, raced>>
    BY <1>1, <1>2, <1>4 DEF ApplyStatus, inventory
  <2> QED
    BY <2>1, RowsStay
<1> QED
  BY <1>3, <1>4

LEMMA RemovalKept ==
  ASSUME RowsStand, changes \in Nat, changes' = changes, NEW n, ApplyRemoval(n), n.device \in Devices
  PROVE  RowsStand'
<1>1. PICK d \in Devices : d = n.device
  OBVIOUS
<1>2. PICK S \in SUBSET Devices : S = {d} \cap Known
  BY DEF Known
<1>3. /\ RemoveDevices(S) /\ UNCHANGED <<connection, basis>>
      /\ gone' = gone \/ (gone' = gone \cup {d} /\ d \in Known)
      /\ raced' = IF d \in Known THEN raced \ {d} ELSE raced
  BY <1>1, <1>2 DEF ApplyRemoval
<1>4. /\ device' \in [Devices -> [state : {"none", "ACTIVE", "REMOVED"}, online : BOOLEAN, observed : 0..Changed]]
      /\ camera' = [e \in Devices |-> [k \in Keys |-> camera'[e][k]]]
      /\ \A e \in S : device'[e].state = "REMOVED" /\ device'[e].observed = device[e].observed
      /\ \A e \in Devices \ S : device'[e] = device[e]
  BY <1>3, RemovalRows
<1>5. \A e \in Devices, k \in Keys :
         CameraStands(camera'[e][k]) /\ (device'[e].state = "REMOVED" => camera'[e][k].state # "ACTIVE")
  BY <1>3, RemovalRows
<1>6. basis' \in [Devices -> Nat] /\ \A e \in Devices : basis'[e] <= device'[e].observed
  BY <1>3, <1>4 DEF RowsStand, RowsKnow, StatusInOrder
<1>7. ASSUME NEW e \in gone'
      PROVE  e \in Devices /\ device'[e].state # "none" /\ (device'[e].state = "ACTIVE" => e \in raced')
  <2>1. CASE e \in S
    BY <1>4, <2>1
  <2>2. CASE e \notin S
    <3>1. e \in gone
      BY <1>2, <1>3, <1>7, <2>2
    <3>2. e \in Devices /\ device[e].state # "none" /\ (device[e].state = "ACTIVE" => e \in raced)
      BY <3>1 DEF RowsStand, RowsKnow, Known, TombstoneStands
    <3>3. e \in raced => e \in raced'
      BY <1>2, <1>3, <2>2
    <3> QED
      BY <1>4, <2>2, <3>2, <3>3
  <2> QED
    BY <2>1, <2>2
<1>8. Unlinked' => \A e \in Devices : device'[e].state # "ACTIVE"
  BY <1>3, <1>4 DEF RowsStand, RowsKnow, Unlinked
<1>9. connection' \in [state : {"CONFIGURING", "ACTIVE", "DISCONNECTED"}, health : {"ACTIVE", "DEGRADED", "REMOTE_REMOVED"}]
  BY <1>3 DEF RowsStand, RowsKnow
<1> QED
  BY <1>4, <1>5, <1>6, <1>7, <1>8, <1>9, RowsRestand

LEMMA UnlinkingKept ==
  ASSUME RowsStand, changes \in Nat, changes' = changes, NEW n, ApplyUnlinking(n)
  PROVE  RowsStand' /\ Unlinked'
<1>1. PICK S \in SUBSET Devices : S = Known
  BY DEF Known
<1>2. /\ RemoveDevices(S) /\ UNCHANGED <<gone, raced, basis>>
      /\ connection' = [state |-> "DISCONNECTED", health |-> "REMOTE_REMOVED"]
  BY <1>1 DEF ApplyUnlinking, inventoryHistory
<1>3. /\ device' \in [Devices -> [state : {"none", "ACTIVE", "REMOVED"}, online : BOOLEAN, observed : 0..Changed]]
      /\ camera' = [e \in Devices |-> [k \in Keys |-> camera'[e][k]]]
      /\ \A e \in S : device'[e].state = "REMOVED" /\ device'[e].observed = device[e].observed
      /\ \A e \in Devices \ S : device'[e] = device[e]
  BY <1>2, RemovalRows
<1>4. \A e \in Devices, k \in Keys :
         CameraStands(camera'[e][k]) /\ (device'[e].state = "REMOVED" => camera'[e][k].state # "ACTIVE")
  BY <1>2, RemovalRows
<1>5. basis' \in [Devices -> Nat] /\ \A e \in Devices : basis'[e] <= device'[e].observed
  BY <1>2, <1>3 DEF RowsStand, RowsKnow, StatusInOrder
<1>6. \A e \in Devices : device'[e].state # "ACTIVE"
  <2>1. \A e \in Devices \ S : device[e].state = "none"
    BY <1>1 DEF Known
  <2> QED
    BY <1>3, <2>1
<1>7. \A e \in gone' : e \in Devices /\ device'[e].state # "none"
  BY <1>1, <1>2, <1>3 DEF RowsStand, RowsKnow, Known
<1>8. /\ connection' \in [state : {"CONFIGURING", "ACTIVE", "DISCONNECTED"}, health : {"ACTIVE", "DEGRADED", "REMOTE_REMOVED"}]
      /\ connection'.state = "DISCONNECTED" /\ Unlinked'
  BY <1>2 DEF Unlinked
<1> QED
  BY <1>3, <1>4, <1>5, <1>6, <1>7, <1>8, RowsRestand

LEMMA ApplyKept ==
  ASSUME InventoryStands, NEW j \in Jobs, Apply(j)
  PROVE  InventoryStands'
<1>1. /\ AtPlace(j, "apply") /\ Move(j, "finish") /\ UNCHANGED <<ringSide, queue>>
      /\ changes \in Nat /\ changes' = changes
  BY DEF Apply, InventoryStands, RingTypes, ringSide
<1>2. /\ ~ListingJob(j) /\ task[j].notice \in 1..Len(queue)
  <2>1. task[j] \in InventoryJob /\ JobKnows(j) /\ Len(queue) \in Nat
    BY DEF InventoryStands, TasksKnow, RingTypes
  <2>2. task[j].notice \in Nat /\ task[j].notice <= Len(queue) /\ ~ListingJob(j)
    BY <1>1, <2>1 DEF JobKnows, AtPlace, InventoryJob
  <2> QED
    BY <2>1, <2>2 DEF ListingJob
<1>3. PICK n \in RingWebhook : n = Notice(j) /\ n.at <= Changed
  BY <1>2 DEF InventoryStands, RingTypes, Notice
<1>4. n.device \in Devices /\ n.at \in Nat
  BY DEF RingWebhook
<1>5. ApplyStatus(n) \/ ApplyRemoval(n) \/ ApplyUnlinking(n)
      \/ (n.kind = "device_added" /\ UNCHANGED <<inventory, inventoryHistory>>)
  BY <1>3 DEF Apply
<1>6. RowsStand' /\ (Unlinking(n) => Unlinked') /\ (Unlinked => Unlinked')
  <2>1. CASE ApplyStatus(n)
    BY <1>1, <1>3, <1>4, <2>1, StatusKept DEF InventoryStands, ApplyStatus, Unlinking, Unlinked
  <2>2. CASE ApplyRemoval(n)
    BY <1>1, <1>4, <2>2, RemovalKept DEF InventoryStands, ApplyRemoval, Unlinking, Unlinked
  <2>3. CASE ApplyUnlinking(n)
    BY <1>1, <2>3, UnlinkingKept DEF InventoryStands
  <2>4. CASE n.kind = "device_added" /\ UNCHANGED <<inventory, inventoryHistory>>
    BY <1>1, <2>4, RowsStay DEF InventoryStands, inventory, inventoryHistory, Unlinking, Unlinked
  <2> QED
    BY <1>5, <2>1, <2>2, <2>3, <2>4
<1>7. /\ task' \in [Jobs -> InventoryJob] /\ \A b \in Jobs \ {j} : task'[b] = task[b]
      /\ task'[j].at = "finish" /\ task'[j].notice = task[j].notice
  BY <1>1, JobMoves DEF InventoryStands
<1>8. RingTypes' /\ TasksKnow'
  <2>1. task'[j].notice <= Len(queue) /\ task'[j].notice # 0
    BY <1>2, <1>7 DEF InventoryStands, TasksKnow, JobKnows, ListingJob
  <2>2. Unlinking(queue[task'[j].notice]) => Unlinked'
    BY <1>3, <1>6, <1>7 DEF Notice
  <2> QED
    BY <1>1, <1>6, <1>7, <2>1, <2>2, TasksAlone DEF InventoryStands
<1> QED
  BY <1>6, <1>8 DEF InventoryStands

LEMMA ZoneKept ==
  ASSUME InventoryStands, NEW d \in Devices, NEW k \in Keys, AssignZone(d, k)
  PROVE  InventoryStands'
<1>1. /\ camera[d][k].state # "none" /\ ~camera[d][k].zoned
      /\ UNCHANGED <<ringSide, queue, connection, device, task, gone, raced, basis>>
  BY DEF AssignZone, inventoryHistory
<1>2. PICK s : s = IF camera[d][k].status = "DISCOVERED" THEN "ACTIVE" ELSE camera[d][k].status
  OBVIOUS
<1>3. camera' = [camera EXCEPT ![d][k].zoned = TRUE, ![d][k].status = s]
  BY <1>2 DEF AssignZone
<1>4. PICK c : c = camera[d][k]
  OBVIOUS
<1>5. CameraStands(c) /\ c.state # "none" /\ c.zoned = FALSE
  <2>1. CameraStands(c) /\ c.state # "none" /\ ~c.zoned
    BY <1>1, <1>4, CamerasStand DEF InventoryStands
  <2> QED
    BY <2>1 DEF CameraStands, CameraRow
<1>6. PICK r : r = [c EXCEPT !.zoned = TRUE, !.status = s]
  OBVIOUS
<1>7. CameraStands(r) /\ r.state = c.state
  <2>1. r.state = c.state /\ r.status = s /\ r.zoned = TRUE
    BY <1>5, <1>6 DEF CameraStands, CameraRow
  <2>2. s \in {"none", "DISCOVERED", "ACTIVE", "DISABLED"} /\ r \in CameraRow
    BY <1>2, <1>4, <1>5, <1>6 DEF CameraStands, CameraRow
  <2> QED
    BY <1>2, <1>4, <1>5, <2>1, <2>2 DEF CameraStands
<1>8. camera \in [Devices -> [Keys -> CameraRow]]
  BY DEF InventoryStands, RowsStand, InventoryTypeOK, CameraRow
<1>9. /\ camera'[d][k] = r /\ \A m \in Keys \ {k} : camera'[d][m] = camera[d][m]
      /\ \A e \in Devices \ {d} : camera'[e] = camera[e]
  BY <1>3, <1>4, <1>6, <1>8
<1>10. camera' = [e \in Devices |-> [m \in Keys |-> camera'[e][m]]]
  BY <1>3, <1>8
<1>11. ASSUME NEW e \in Devices, NEW m \in Keys
       PROVE  CameraStands(camera'[e][m]) /\ (device'[e].state = "REMOVED" => camera'[e][m].state # "ACTIVE")
  <2>1. CameraStands(camera[e][m]) /\ (device[e].state = "REMOVED" => camera[e][m].state # "ACTIVE")
    BY CamerasStand DEF InventoryStands, RowsStand, RowsKnow
  <2>2. CASE e = d /\ m = k
    BY <1>1, <1>4, <1>7, <1>9, <2>1, <2>2
  <2>3. CASE ~(e = d /\ m = k)
    <3>1. camera'[e][m] = camera[e][m]
      BY <1>9, <2>3
    <3> QED
      BY <1>1, <2>1, <3>1
  <2> QED
    BY <2>2, <2>3
<1>12. RowsStand'
  <2>1. /\ device \in [Devices -> [state : {"none", "ACTIVE", "REMOVED"}, online : BOOLEAN, observed : 0..Changed]]
        /\ connection \in [state : {"CONFIGURING", "ACTIVE", "DISCONNECTED"}, health : {"ACTIVE", "DEGRADED", "REMOTE_REMOVED"}]
        /\ basis \in [Devices -> Nat] /\ \A e \in Devices : basis[e] <= device[e].observed
        /\ Unlinked => \A e \in Devices : device[e].state # "ACTIVE"
        /\ \A e \in gone : e \in Devices /\ device[e].state # "none" /\ (device[e].state = "ACTIVE" => e \in raced)
    BY DEF InventoryStands, RowsStand, RowsKnow, InventoryTypeOK, StatusInOrder, TombstoneStands, Known
  <2>2. changes' = changes /\ (Unlinked' => Unlinked)
    BY <1>1 DEF ringSide, Unlinked
  <2> QED
    BY <1>1, <1>10, <1>11, <2>1, <2>2, RowsRestand DEF InventoryStands
<1>13. RingTypes' /\ TasksKnow'
  BY <1>1 DEF InventoryStands, RingTypes, TasksKnow, JobKnows, Notice, ListingJob, AtPlace,
              Changed, ringSide, Unlinked
<1> QED
  BY <1>12, <1>13 DEF InventoryStands

LEMMA InventoryStart == InventoryInit => InventoryStands
<1> SUFFICES ASSUME InventoryInit
             PROVE  InventoryStands
  OBVIOUS
<1>1. Changed = 2
  BY DEF InventoryInit, Changed
<1>2. InventoryTypeOK
  BY <1>1 DEF InventoryInit, InventoryTypeOK, NoDevice, NoCamera
<1>3. RowsStand
  BY <1>2 DEF InventoryInit, RowsStand, RowsKnow, TombstoneStands, StatusInOrder, ZonesKept, Unlinked,
              NoDevice, NoCamera
<1>4. RingTypes
  BY DEF InventoryInit, RingTypes
<1>5. TasksKnow
  <2>1. task \in [Jobs -> InventoryJob]
    BY DEF InventoryInit, InventoryJob, Resting
  <2> QED
    BY <2>1 DEF InventoryInit, TasksKnow, JobKnows, AtPlace, Resting
<1> QED
  BY <1>3, <1>4, <1>5 DEF InventoryStands

LEMMA InventoryKept == InventoryStands /\ [InventoryNext]_inventoryVars => InventoryStands'
<1> SUFFICES ASSUME InventoryStands, [InventoryNext]_inventoryVars
             PROVE  InventoryStands'
  OBVIOUS
<1>1. ASSUME NEW j \in Jobs, JobStep(j)
      PROVE  InventoryStands'
  <2>1. CASE GiveUp(j)
    BY <2>1, FinishKept DEF GiveUp
  <2>2. CASE AtPlace(j, "finish") /\ FinishEvent(j, "PROCESSED")
    BY <2>2, FinishKept
  <2> QED
    BY <1>1, <2>1, <2>2, JobsKept, ClaimKept, DegradeKept, ActivationKept, ListingKept, DetailKept,
       ApplyKept DEF JobStep
<1>2. CASE UNCHANGED inventoryVars
  <2>1. UNCHANGED <<ringSide, queue, inventory, task, inventoryHistory, connection>>
    BY <1>2 DEF inventoryVars, inventory
  <2>2. RowsStand'
    BY <2>1, RowsStay DEF InventoryStands, RingTypes, ringSide, inventoryHistory
  <2>3. RingTypes' /\ TasksKnow'
    BY <2>1 DEF InventoryStands, RingTypes, TasksKnow, JobKnows, Notice, ListingJob, AtPlace,
                Changed, ringSide, Unlinked
  <2> QED
    BY <2>2, <2>3 DEF InventoryStands
<1> QED
  BY <1>1, <1>2, RingKept, IngestKept, DisconnectKept, ZoneKept DEF InventoryNext

\* The devices and cameras of a Ring connection, for any number of devices, lenses, jobs, notices and
\* changes at Ring: once the removal of the integration is applied no device or camera comes back, a
\* listing never restores what a signed removal took away, an online or offline notice never replaces a
\* status that was true later, and a camera keeps its zone (ring_inventory_service.py, ring_webhook.py).
THEOREM InventorySafe == InventorySpec => []InventoryInv
BY InventoryStart, InventoryKept, InventoryImplied, PTL DEF InventorySpec
=============================================================================
