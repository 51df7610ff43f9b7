---------------------------- MODULE RingLinking ----------------------------
(***************************************************************************)
(* One Ring account and every link to it: the credential that arrives      *)
(* before any tenant is known, its claim, the tenant's connection, token   *)
(* refresh, disconnect, remote removal and the expiry of abandoned links.  *)
(*                                                                         *)
(* A link l stands for the pending row, the vault record and the           *)
(* connection that carry one pending id (ring_service.py stores the        *)
(* credential under it and keeps it as credential_owner_id).  A worker is  *)
(* one request or job under way; its program counter moves at each         *)
(* transaction and at each call to Ring or to the vault, which is where    *)
(* another worker can come between or the process can die.                 *)
(***************************************************************************)
EXTENDS Naturals, FiniteSets

CONSTANTS Links,         \* pending ids
          Workers,       \* requests and jobs that can be under way at once
          Notices,       \* app_integration_removed deliveries (request_id)
          None,          \* no link
          MaxAttempts,   \* claims of one webhook (5 in claim_next_ring_webhook)
          MaxVersion     \* bound: the last credential version explored

ASSUME RingLinkingAssumption ==
    /\ None \notin Links
    /\ Notices \cap {"none", "receive", "claim", "resume", "use", "disconnect"} = {}
    /\ MaxAttempts \in Nat \ {0}
    /\ MaxVersion \in Nat \ {0}

VARIABLES
    link,         \* ring_pending_links.state, "none" before the row exists
    expired,      \* links whose access_expires_at has passed
    vault,        \* version of the link's encrypted credential, 0 = no record
    conn,         \* integration_state, "none" before the row exists
    ref,          \* connections whose secret_ref is set
    generation,   \* credential_generation of the connection
    newest,       \* connection created last
    inbox,        \* ring_webhook_inbox.state of a notice
    attempts,     \* claims of a notice
    job,          \* what each worker is doing
    posts,        \* history: confirmations sent to Ring for a link
    sent,         \* history: links whose stored refresh token was sent to Ring
    lost,         \* history: links whose refresher died between Ring and vault
    blocked,      \* history: links whose connection was ever blocked
    erased        \* history: links whose disconnect or removal was completed

pending == <<link, expired>>
connections == <<conn, ref, generation, newest>>
webhooks == <<inbox, attempts>>
history == <<posts, sent, lost, blocked, erased>>
vars == <<pending, vault, connections, webhooks, job, history>>

PendingStates == {"none", "RECEIVED", "UNCLAIMED", "CLAIMING", "RING_CONFIRMATION_UNCERTAIN",
                  "RING_CONFIRMED_UNBOUND", "CLAIMED", "FAILED", "ARCHIVED"}

\* The partial unique index uq_ring_pending_eligible_account.
Eligible == {"UNCLAIMED", "CLAIMING", "RING_CONFIRMATION_UNCERTAIN", "RING_CONFIRMED_UNBOUND"}

\* Connection states get_valid_access_token accepts and refuses, and those that count for the
\* unique index uq_ring_active_account.
Usable == {"CONFIGURING", "ACTIVE"}
Blocked == {"REAUTH_REQUIRED", "REFRESH_UNCERTAIN", "DISCONNECTED"}
Live == Usable \cup {"REAUTH_REQUIRED", "REFRESH_UNCERTAIN"}

LiveLinks == {l \in Links : conn[l] \in Live}

\* Program counters of a worker inside get_valid_access_token, where it holds the row lock of
\* its connection.
Locking == {"locked", "opened", "refreshing", "rotating", "rotated"}

\* Goals of a worker; one that applies a notice has the notice as its goal.
Goals == {"none", "receive", "claim", "resume", "use", "disconnect"} \cup Notices

Idle == [at |-> "idle", link |-> None, goal |-> "none"]
At(w, place) == job[w].at = place
On(w) == job[w].link

Begin(w, place, l, goal) ==
    /\ job[w] = Idle
    /\ job' = [job EXCEPT ![w] = [at |-> place, link |-> l, goal |-> goal]]
Goto(w, place) == job' = [job EXCEPT ![w].at = place]
Done(w) == job' = [job EXCEPT ![w] = Idle]

\* No transaction holds the row of the connection (SELECT ... FOR UPDATE).
NeverLocked(l) == l \in Links   \* faulty variant: the row is read without a lock
Unlocked(l) == \A w \in Workers : On(w) = l => job[w].at \notin Locking

\* transition_ring_pending_link: a compare-and-set of the state.
Transition(l, from, to) ==
    link' = IF link[l] = from THEN [link EXCEPT ![l] = to] ELSE link

\* The vault has the version the connection records.
Present(l) == vault[l] # 0   \* faulty variant: the version is not compared
CurrentOrGone(l) == vault[l] \in {0, generation[l]}   \* faulty variant: an upsert
Current(l) == vault[l] = generation[l]

\* A worker ends with a connection that must not be used again.
RollBack(w, state) ==   \* faulty variant: the error undoes the transaction
    UNCHANGED <<conn, blocked>> /\ Done(w)
Block(w, state) ==
    /\ conn' = [conn EXCEPT ![On(w)] = state]
    /\ blocked' = blocked \cup {On(w)}
    /\ Done(w)

Init ==
    /\ link = [l \in Links |-> "none"]
    /\ expired = {}
    /\ vault = [l \in Links |-> 0]
    /\ conn = [l \in Links |-> "none"]
    /\ ref = {}
    /\ generation = [l \in Links |-> 1]
    /\ newest = None
    /\ inbox = [n \in Notices |-> "none"]
    /\ attempts = [n \in Notices |-> 0]
    /\ job = [w \in Workers |-> Idle]
    /\ posts = [l \in Links |-> 0]
    /\ sent = {} /\ lost = {} /\ blocked = {} /\ erased = {}

-----------------------------------------------------------------------------
(* receive_authorization_code *)

\* The code is exchanged and both tokens are vaulted under a fresh pending id.
StoreCredential(w, l) ==
    /\ link[l] = "none" /\ vault[l] = 0
    /\ \A v \in Workers : On(v) # l
    /\ Begin(w, "create", l, "receive")
    /\ vault' = [vault EXCEPT ![l] = 1]
    /\ UNCHANGED <<pending, connections, webhooks, history>>

CreatePending(w) ==
    /\ At(w, "create")
    /\ link' = [link EXCEPT ![On(w)] = "RECEIVED"]
    /\ Goto(w, "register")
    /\ UNCHANGED <<expired, vault, connections, webhooks, history>>

\* The insert raises.  A commit whose answer is lost may have created the row all the same.
CreateFails(w) ==
    /\ At(w, "create")
    /\ \E state \in {"none", "RECEIVED"} : link' = [link EXCEPT ![On(w)] = state]
    /\ Goto(w, "drop")
    /\ UNCHANGED <<expired, vault, connections, webhooks, history>>

DropCredential(w) ==
    /\ At(w, "drop")
    /\ vault' = [vault EXCEPT ![On(w)] = 0]
    /\ Done(w)
    /\ UNCHANGED <<pending, connections, webhooks, history>>

\* get_account_id, then complete_ring_pending_account.  When Ring does not answer the row stays
\* RECEIVED, and a row swept meanwhile is a conflict (Raise).
RegisterAccount(w) ==
    /\ At(w, "register")
    /\ link[On(w)] = "RECEIVED"
    /\ \/ /\ \A l \in Links : link[l] \notin Eligible
          /\ link' = [link EXCEPT ![On(w)] = "UNCLAIMED"]
          /\ Done(w)
       \/ /\ \E l \in Links : link[l] \in Eligible
          /\ Goto(w, "collided")
          /\ UNCHANGED link
    /\ UNCHANGED <<expired, vault, connections, webhooks, history>>

\* The account is already pending: this credential goes, then the row fails.
DropDuplicate(w) ==
    /\ At(w, "collided")
    /\ vault' = [vault EXCEPT ![On(w)] = 0]
    /\ Goto(w, "refuse")
    /\ UNCHANGED <<pending, connections, webhooks, history>>

RefuseDuplicate(w) ==
    /\ At(w, "refuse")
    /\ Transition(On(w), "RECEIVED", "FAILED")
    /\ Done(w)
    /\ UNCHANGED <<expired, vault, connections, webhooks, history>>

-----------------------------------------------------------------------------
(* claim, resume_completion and _activate *)

ClaimableAgain(l) ==   \* faulty variant: an ambiguous confirmation is retried
    link[l] \in {"UNCLAIMED", "RING_CONFIRMATION_UNCERTAIN"} /\ l \notin expired
Claimable(l) == link[l] = "UNCLAIMED" /\ l \notin expired

\* start_ring_pending_claim re-checks all that the candidate query saw.
StartClaim(w, l) ==
    /\ Claimable(l)
    /\ Begin(w, "open", l, "claim")
    /\ link' = [link EXCEPT ![l] = "CLAIMING"]
    /\ UNCHANGED <<expired, vault, connections, webhooks, history>>

\* The vault opens the credential and the confirmation goes to Ring, or the vault refuses or
\* is out of reach.
SendConfirmation(w) ==
    /\ At(w, "open")
    /\ \/ /\ vault[On(w)] = 1
          /\ posts' = [posts EXCEPT ![On(w)] = @ + 1]
          /\ Goto(w, "confirming")
          /\ UNCHANGED link
       \/ Transition(On(w), "CLAIMING", "FAILED") /\ Done(w) /\ UNCHANGED posts
    /\ UNCHANGED <<expired, vault, connections, webhooks, sent, lost, blocked, erased>>

\* Ring awaits completion, or its answer is ambiguous, or it refuses.
ConfirmationAnswer(w) ==
    /\ At(w, "confirming")
    /\ \/ Goto(w, "bind") /\ UNCHANGED link
       \/ Transition(On(w), "CLAIMING", "RING_CONFIRMATION_UNCERTAIN") /\ Done(w)
       \/ Transition(On(w), "CLAIMING", "FAILED") /\ Done(w)
    /\ UNCHANGED <<expired, vault, connections, webhooks, history>>

\* One transaction creates the connection and takes the link; the unique index on live
\* connections refuses it when the account has one.
Bind(w) ==
    /\ At(w, "bind")
    /\ LiveLinks = {} /\ link[On(w)] = "CLAIMING"
    /\ conn' = [conn EXCEPT ![On(w)] = "CONFIGURING"]
    /\ ref' = ref \cup {On(w)}
    /\ generation' = [generation EXCEPT ![On(w)] = 1]
    /\ newest' = On(w)
    /\ link' = [link EXCEPT ![On(w)] = "CLAIMED"]
    /\ Goto(w, "activate")
    /\ UNCHANGED <<expired, vault, webhooks, history>>

BindConflict(w) ==
    /\ At(w, "bind")
    /\ LiveLinks # {} \/ link[On(w)] # "CLAIMING"
    /\ Transition(On(w), "CLAIMING", "RING_CONFIRMED_UNBOUND")
    /\ Done(w)
    /\ UNCHANGED <<expired, vault, connections, webhooks, history>>

\* Ring answers the completing PATCH (else the connection stays CONFIGURING: Raise) and
\* _activate reads the row without a lock ...
SelectConfiguring(w) ==
    /\ At(w, "activate")
    /\ conn[On(w)] = "CONFIGURING"
    /\ Goto(w, "activating")
    /\ UNCHANGED <<pending, vault, connections, webhooks, history>>

\* ... and its UPDATE goes by primary key: it waits for a lock and overwrites whatever state
\* was committed meanwhile, unless the unique index refuses (Raise).
Activate(w) ==
    /\ At(w, "activating")
    /\ Unlocked(On(w))
    /\ LiveLinks \subseteq {On(w)}
    /\ conn' = [conn EXCEPT ![On(w)] = "ACTIVE"]
    /\ Done(w)
    /\ UNCHANGED <<pending, vault, ref, generation, newest, webhooks, history>>

-----------------------------------------------------------------------------
(* get_valid_access_token *)

\* SELECT ... FOR UPDATE, then the gate on the state and on the reference.
LockConnection(w, l, goal) ==
    /\ Unlocked(l)
    /\ conn[l] \in Usable /\ l \in ref
    /\ Begin(w, "locked", l, goal)
    /\ UNCHANGED <<pending, vault, connections, webhooks, history>>

\* The vault has the expected version, or refuses or is out of reach, or has another version.
OpenCredential(w) ==
    /\ At(w, "locked")
    /\ \/ /\ Current(On(w))
          /\ Goto(w, "opened")
          /\ UNCHANGED <<conn, blocked>>
       \/ Block(w, "REAUTH_REQUIRED")
       \/ /\ vault[On(w)] \notin {0, generation[On(w)]}
          /\ Block(w, "REFRESH_UNCERTAIN")
    /\ UNCHANGED <<pending, vault, ref, generation, newest, webhooks, posts, sent, lost, erased>>

\* The caller has its token: a resumed completion goes on to the PATCH.
Serve(w) == IF job[w].goal = "resume" THEN Goto(w, "activate") ELSE Done(w)

\* The access token is still fresh and the caller did not force a refresh.
HandOut(w) ==
    /\ At(w, "opened")
    /\ Serve(w)
    /\ UNCHANGED <<pending, vault, connections, webhooks, history>>

\* The refresh token goes to Ring.
Refresh(w) ==
    /\ At(w, "opened")
    /\ generation[On(w)] < MaxVersion
    /\ sent' = sent \cup {On(w)}
    /\ Goto(w, "refreshing")
    /\ UNCHANGED <<pending, vault, connections, webhooks, posts, lost, blocked, erased>>

\* Ring rotates both tokens, or its answer is ambiguous, or it refuses.
RefreshAnswer(w) ==
    /\ At(w, "refreshing")
    /\ \/ Goto(w, "rotating") /\ UNCHANGED <<conn, blocked>>
       \/ Block(w, "REFRESH_UNCERTAIN")
       \/ Block(w, "REAUTH_REQUIRED")
    /\ UNCHANGED <<pending, vault, ref, generation, newest, webhooks, posts, sent, lost, erased>>

\* replace_if_version commits in a transaction of its own, or the vault refuses or is out of reach.
Rotate(w) ==
    /\ At(w, "rotating")
    /\ \/ /\ Current(On(w))
          /\ vault' = [vault EXCEPT ![On(w)] = @ + 1]
          /\ sent' = sent \ {On(w)}
          /\ Goto(w, "rotated")
          /\ UNCHANGED <<conn, blocked>>
       \/ Block(w, "REFRESH_UNCERTAIN") /\ UNCHANGED <<vault, sent>>
    /\ UNCHANGED <<pending, ref, generation, newest, webhooks, posts, lost, erased>>

\* The connection's transaction commits the new generation and frees the row.
RecordGeneration(w) ==
    /\ At(w, "rotated")
    /\ generation' = [generation EXCEPT ![On(w)] = @ + 1]
    /\ Serve(w)
    /\ UNCHANGED <<pending, vault, conn, ref, newest, webhooks, history>>

-----------------------------------------------------------------------------
(* disconnect, and the removal notices of the webhook inbox *)

\* The connection is marked first; only then, outside the transaction, the credential goes.
Forgotten(l) == ref \ {l}   \* faulty variant: the reference is cleared at once
Kept(l) == ref
MarkDisconnected(l) ==
    /\ conn' = [conn EXCEPT ![l] = "DISCONNECTED"]
    /\ ref' = Kept(l)
    /\ blocked' = blocked \cup {l}

Disconnect(w, l) ==
    /\ conn[l] # "none" /\ Unlocked(l)
    /\ MarkDisconnected(l)
    /\ \/ l \in ref /\ Begin(w, "erase", l, "disconnect") /\ UNCHANGED erased
       \/ l \notin ref /\ job[w] = Idle /\ erased' = erased \cup {l} /\ UNCHANGED job
    /\ UNCHANGED <<pending, vault, generation, newest, webhooks, posts, sent, lost>>

EraseCredential(w) ==
    /\ At(w, "erase")
    /\ vault' = [vault EXCEPT ![On(w)] = 0]
    /\ Goto(w, IF job[w].goal = "disconnect" THEN "check" ELSE "clear")
    /\ UNCHANGED <<pending, connections, webhooks, history>>

\* disconnect clears the reference of a connection that is still DISCONNECTED; the webhook
\* looks at REMOTE_REMOVED, which nothing takes back.
CheckDisconnected(w) ==
    /\ At(w, "check")
    /\ \/ conn[On(w)] = "DISCONNECTED" /\ Goto(w, "clear") /\ UNCHANGED erased
       \/ conn[On(w)] # "DISCONNECTED" /\ Done(w) /\ erased' = erased \cup {On(w)}
    /\ UNCHANGED <<pending, vault, connections, webhooks, posts, sent, lost, blocked>>

ClearReference(w) ==
    /\ At(w, "clear")
    /\ Unlocked(On(w))
    /\ ref' = ref \ {On(w)}
    /\ \/ job[w].goal = "disconnect" /\ Done(w) /\ erased' = erased \cup {On(w)}
       \/ job[w].goal \in Notices /\ Goto(w, "finish") /\ UNCHANGED erased
    /\ UNCHANGED <<pending, vault, conn, generation, newest, webhooks, posts, sent, lost, blocked>>

IngestNotice(n) ==
    /\ inbox[n] = "none"
    /\ inbox' = [inbox EXCEPT ![n] = "RECEIVED"]
    /\ UNCHANGED <<pending, vault, connections, attempts, job, history>>

AlwaysTriable(n) == n \in Notices   \* faulty variant: no limit
Triable(n) == attempts[n] < MaxAttempts

\* claim_next_ring_webhook, next_attempt_at reached.
ClaimNotice(w, n) ==
    /\ inbox[n] \in {"RECEIVED", "FAILED_RETRYABLE"}
    /\ Triable(n)
    /\ inbox' = [inbox EXCEPT ![n] = "PROCESSING"]
    /\ attempts' = [attempts EXCEPT ![n] = @ + 1]
    /\ Begin(w, "resolve", None, n)
    /\ UNCHANGED <<pending, vault, connections, history>>

\* finish_ring_webhook
Finish(w, state) ==
    /\ inbox' = [inbox EXCEPT ![job[w].goal] = state]
    /\ Done(w)

\* The account's live connection, or else the one created last.
Targets == IF LiveLinks # {} THEN LiveLinks ELSE {newest} \ {None}

ResolveNotice(w) ==
    /\ At(w, "resolve")
    /\ \/ /\ \E l \in Targets : job' = [job EXCEPT ![w].at = "apply", ![w].link = l]
          /\ UNCHANGED inbox
       \/ Targets = {} /\ Finish(w, "FAILED_PERMANENT")
    /\ UNCHANGED <<pending, vault, connections, attempts, history>>

ApplyNotice(w) ==
    /\ At(w, "apply")
    /\ Unlocked(On(w))
    /\ MarkDisconnected(On(w))
    /\ Goto(w, IF On(w) \in ref THEN "erase" ELSE "finish")
    /\ UNCHANGED <<pending, vault, generation, newest, webhooks, posts, sent, lost, erased>>

\* Any exception while a notice is resolved or applied.
FailNotice(w) ==
    /\ job[w].goal \in Notices /\ job[w].at # "finish"
    /\ Finish(w, IF Triable(job[w].goal) THEN "FAILED_RETRYABLE"
                 ELSE "FAILED_PERMANENT")
    /\ UNCHANGED <<pending, vault, connections, attempts, history>>

FinishNotice(w) ==
    /\ At(w, "finish")
    /\ Finish(w, "PROCESSED")
    /\ erased' = erased \cup {On(w)}
    /\ UNCHANGED <<pending, vault, connections, attempts, posts, sent, lost, blocked>>

-----------------------------------------------------------------------------
(* veotrex-ring-pending-expiry, time and failure *)

Expirable(l) ==
    /\ link[l] \in {"RECEIVED", "UNCLAIMED", "FAILED"}
    /\ l \in expired
    /\ conn[l] = "none"

\* One transaction deletes the credential, archives the row and removes what is left on rows
\* archived before.  A run over several rows is this step repeated.
Sweep(l) ==
    /\ Expirable(l)
    /\ link' = [link EXCEPT ![l] = "ARCHIVED"]
    /\ vault' = [k \in Links |-> IF link'[k] = "ARCHIVED" /\ conn[k] = "none" THEN 0
                                 ELSE vault[k]]
    /\ UNCHANGED <<expired, connections, webhooks, job, history>>

\* Expiry is noted where it is read: on rows the sweep and the claim look at.
Expire(l) ==
    /\ link[l] \in {"RECEIVED", "UNCLAIMED", "FAILED"} /\ l \notin expired
    /\ expired' = expired \cup {l}
    /\ UNCHANGED <<link, vault, connections, webhooks, job, history>>

\* The process dies, or the next step raises an error nothing handles: an open transaction is
\* rolled back, what was committed stays.  Nobody takes up a claim or a notice left like this.
Raise(w) ==
    /\ job[w] # Idle
    /\ lost' = IF job[w].at \in {"refreshing", "rotating"} THEN lost \cup {On(w)} ELSE lost
    /\ Done(w)
    /\ UNCHANGED <<pending, vault, connections, webhooks, posts, sent, blocked, erased>>

-----------------------------------------------------------------------------

Receive(w) ==
    \/ \E l \in Links : StoreCredential(w, l)
    \/ CreatePending(w) \/ CreateFails(w) \/ DropCredential(w)
    \/ RegisterAccount(w) \/ DropDuplicate(w) \/ RefuseDuplicate(w)

Claim(w) ==
    \/ \E l \in Links : StartClaim(w, l)
    \/ SendConfirmation(w) \/ ConfirmationAnswer(w) \/ Bind(w) \/ BindConflict(w)
    \/ SelectConfiguring(w) \/ Activate(w)

GetToken(w) ==
    \/ \E l \in Links, goal \in {"use", "resume"} : LockConnection(w, l, goal)
    \/ OpenCredential(w) \/ HandOut(w) \/ Refresh(w) \/ RefreshAnswer(w) \/ Rotate(w)
    \/ RecordGeneration(w)

Remove(w) ==
    \/ \E l \in Links : Disconnect(w, l)
    \/ EraseCredential(w) \/ CheckDisconnected(w) \/ ClearReference(w)
    \/ \E n \in Notices : ClaimNotice(w, n)
    \/ ResolveNotice(w) \/ ApplyNotice(w) \/ FailNotice(w) \/ FinishNotice(w)

Next ==
    \/ \E w \in Workers : Receive(w) \/ Claim(w) \/ GetToken(w) \/ Remove(w) \/ Raise(w)
    \/ \E l \in Links : Sweep(l) \/ Expire(l)
    \/ \E n \in Notices : IngestNotice(n)

Spec == Init /\ [][Next]_vars

-----------------------------------------------------------------------------
(* Properties *)

Places == {"idle", "create", "drop", "register", "collided", "refuse",
           "open", "confirming", "bind", "activate", "activating",
           "erase", "check", "clear", "resolve", "apply", "finish"} \cup Locking

\* Every variable has its type.  In particular the check constraint on ring_webhook_inbox
\* holds: a notice is not claimed more often than the code's limit.
TypeOK ==
    /\ link \in [Links -> PendingStates]
    /\ conn \in [Links -> Live \cup Blocked \cup {"none"}]
    /\ vault \in [Links -> 0..MaxVersion] /\ generation \in [Links -> 1..MaxVersion]
    /\ expired \subseteq Links /\ ref \subseteq Links /\ newest \in Links \cup {None}
    /\ inbox \in [Notices -> {"none", "RECEIVED", "PROCESSING", "PROCESSED",
                              "FAILED_RETRYABLE", "FAILED_PERMANENT"}]
    /\ attempts \in [Notices -> 0..MaxAttempts]
    /\ job \in [Workers -> [at : Places, link : Links \cup {None}, goal : Goals]]
    /\ posts \in [Links -> Nat]
    /\ sent \subseteq Links /\ lost \subseteq Links
    /\ blocked \subseteq Links /\ erased \subseteq Links

\* Ring is asked to confirm a link at most once, whatever dies, answers late or is claimed
\* again: an ambiguous confirmation is never repeated.
ConfirmedOnce == \A l \in Links : posts[l] <= 1

\* A link that may still be claimed or bound has its credential, and so has a connection that
\* was never blocked, in the version it expects or (a refresh cut off) the one after.
CredentialKept ==
    \A l \in Links :
        /\ link[l] \in Eligible => vault[l] = 1
        /\ conn[l] \in Live /\ l \notin blocked =>
              l \in ref /\ vault[l] \in {generation[l], generation[l] + 1}

\* No stored credential is forgotten: once the pending row exists, a credential in the vault is
\* named by a row that the sweep, an operator, a disconnect or a removal can still find.
CredentialTracked ==
    \A l \in Links : vault[l] # 0 /\ link[l] # "none" =>
        /\ link[l] # "ARCHIVED"
        /\ conn[l] # "none" => l \in ref

\* The row lock is held across the calls to Ring and the vault: while one request uses a
\* credential nobody else does, and nobody rotates it under its feet.
UsesSerialised ==
    \A v, w \in Workers :
        At(w, "opened") \/ At(w, "refreshing") \/ At(w, "rotating") =>
            /\ job[v].at \in Locking /\ On(v) = On(w) => v = w
            /\ vault[On(w)] \in {0, generation[On(w)]}

\* A disconnect that returned and a removal notice that counts as processed have really
\* deleted the credential, and it stays deleted.
RemovalErases == \A l \in erased : vault[l] = 0

\* A credential whose refresh token was already sent to Ring is opened again only in the two
\* ways the code leaves open: the refresher died before the vault had the new tokens, or the
\* blocked connection was made ACTIVE by a late _activate.
SpentTokenUnused ==
    \A w \in Workers : At(w, "opened") /\ On(w) \in sent => On(w) \in lost \cup blocked

\* ring-account-linking.md:106-108, 186: REFRESH_UNCERTAIN "blocks further credential use", and
\* the "state gate blocks use before deletion" of a disconnected connection's credential.
GateHolds == \A w \in Workers : At(w, "opened") => On(w) \notin blocked

\* Receive and claim are the only users of their link.
Receiving == {"create", "drop", "register", "collided", "refuse"}
Claiming == {"open", "confirming", "bind"}
Activating == {"activate", "activating"}
Removing == {"erase", "check", "clear", "finish"}

\* What a worker does says what it does it for, and to which link.
GoalsMatch ==
    \A w \in Workers :
        \/ job[w] = Idle
        \/ At(w, "resolve") /\ On(w) = None /\ job[w].goal \in Notices
        \/ /\ On(w) \in Links
           /\ \/ job[w].at \in Receiving /\ job[w].goal = "receive"
              \/ job[w].at \in Claiming /\ job[w].goal = "claim"
              \/ job[w].at \in Activating /\ job[w].goal \in {"claim", "resume"}
              \/ job[w].at \in Locking /\ job[w].goal \in {"use", "resume"}
              \/ job[w].at \in {"erase", "clear"} /\ job[w].goal \in {"disconnect"} \cup Notices
              \/ At(w, "check") /\ job[w].goal = "disconnect"
              \/ job[w].at \in {"apply", "finish"} /\ job[w].goal \in Notices

\* A link being received or claimed is in one worker's hands; a locked row has one holder.
SoleUsers ==
    \A v, w \in Workers : On(v) = On(w) =>
        /\ job[w].at \in Receiving \cup Claiming => v = w
        /\ job[v].at \in Locking /\ job[w].at \in Locking => v = w

\* What the rows, the vault and the past of one link say about each other.
RowsAgree ==
    /\ newest # None => conn[newest] # "none"
    /\ \A l \in Links :
          /\ conn[l] # "none" <=> link[l] = "CLAIMED"
          /\ link[l] \in Eligible => vault[l] = 1
          /\ link[l] = "ARCHIVED" => vault[l] = 0
          /\ conn[l] # "none" => vault[l] \in {0, generation[l], generation[l] + 1}
          /\ conn[l] # "none" /\ l \notin ref => vault[l] = 0
          /\ conn[l] \in Blocked => l \in blocked
          /\ conn[l] \in Live /\ l \notin blocked => l \in ref /\ vault[l] # 0
          /\ posts[l] \in {0, 1}
          /\ link[l] \in {"none", "RECEIVED", "UNCLAIMED"} => posts[l] = 0
          /\ l \in erased => vault[l] = 0 /\ conn[l] # "none"

\* What a worker may rely on at each place.
PlacesKnow ==
    \A w \in Workers :
        /\ At(w, "create") => link[On(w)] = "none" /\ vault[On(w)] = 1
        /\ At(w, "drop") => link[On(w)] \in {"none", "RECEIVED", "ARCHIVED"}
        /\ job[w].at \in {"register", "collided", "refuse"} =>
              link[On(w)] \in {"RECEIVED", "ARCHIVED"}
        /\ At(w, "register") /\ link[On(w)] = "RECEIVED" => vault[On(w)] = 1
        /\ job[w].at \in Claiming => link[On(w)] = "CLAIMING"
        /\ At(w, "open") => posts[On(w)] = 0
        /\ job[w].at \in Activating \cup Locking \cup {"apply"} \cup Removing =>
              conn[On(w)] # "none"
        /\ job[w].at \in Removing => On(w) \in blocked
        /\ job[w].at \in {"check", "clear", "finish"} => vault[On(w)] = 0
        /\ job[w].at \in {"opened", "refreshing", "rotating"} =>
              vault[On(w)] \in {0, generation[On(w)]}
        /\ job[w].at \in {"refreshing", "rotating", "rotated"} => generation[On(w)] < MaxVersion
        /\ At(w, "rotated") => vault[On(w)] \in {0, generation[On(w)] + 1}

\* A refresh token that was sent and not replaced is on its way, or lost, or blocked.
SpentTokens ==
    \A l \in sent :
        l \in lost \cup blocked
        \/ \E w \in Workers : On(w) = l /\ job[w].at \in {"refreshing", "rotating"}

\* The inductive invariant: the properties above follow from it.
Inv == TypeOK /\ GoalsMatch /\ SoleUsers /\ RowsAgree /\ PlacesKnow /\ SpentTokens

=============================================================================
