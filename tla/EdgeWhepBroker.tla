-------------------------- MODULE EdgeWhepBroker ---------------------------
(***************************************************************************)
(* The broker of live-video sessions (edge_whep.py): an edge node asks for *)
(* a session of a camera, the broker opens it at Ring and hands out a      *)
(* lease; the lease ends by DELETE, by age, or when the API stops.         *)
(*                                                                         *)
(* The API is one asyncio process, so everything between two awaits is one *)
(* step.  A session is named by the request that opens it, which gives at  *)
(* most one lease.  Ring, the token service and the audit table are the    *)
(* outside: every answer they can give is a disjunct.                      *)
(***************************************************************************)
EXTENDS Naturals, FiniteSets

CONSTANTS Opens,       \* POST requests, each for one camera of its node
          Nodes,       \* edge nodes
          NodeOf,      \* the node a request comes from
          MaxActive,   \* edge_whep_max_active_leases
          MaxPerNode   \* edge_whep_max_leases_per_node

ASSUME EdgeWhepBrokerAssumption ==
    /\ NodeOf \in [Opens -> Nodes]
    /\ IsFiniteSet(Opens)
    /\ MaxActive \in Nat /\ MaxPerNode \in 1..MaxActive

VARIABLES
    open,      \* how far a request has come
    lease,     \* registry: requests whose lease is registered
    pending,   \* registry: reservations not settled
    count,     \* registry: leases and reservations of a node
    old,       \* registry: leases whose time is up
    closing,   \* leases a DELETE request or shutdown has taken and is releasing
    popped,    \* leases the expiry task has taken and not yet come to
    sweeping,  \* the lease the expiry task is releasing, as a set
    api,       \* "up", "finishing" requests, "stopping", or "down"
    ring,      \* sessions of a request that exist at Ring
    url,       \* requests whose session's resource is known to the broker
    tried,     \* history: sessions whose release was attempted
    cut        \* history: leases the expiry task had taken when it was cancelled

registry == <<lease, old, pending, count>>
expiry == <<popped, sweeping>>
outside == <<ring, url>>
vars == <<open, registry, closing, expiry, api, outside, tried, cut>>

\* A request between reserve and commit or cancel, and between commit and its answer.
Reserved == {"reserved", "posting", "unauthorized", "reposting"}
UnderWay == Reserved \cup {"auditing", "undoing"}
Unsettled == {o \in Opens : open[o] \in Reserved}

Of(n, S) == {o \in S : NodeOf[o] = n}

Init ==
    /\ open = [o \in Opens |-> "new"]
    /\ lease = {} /\ pending = 0 /\ count = [n \in Nodes |-> 0]
    /\ old = {} /\ closing = {} /\ popped = {} /\ sweeping = {}
    /\ api = "up"
    /\ ring = [o \in Opens |-> 0] /\ url = {}
    /\ tried = {} /\ cut = {}

Goto(o, place) == open' = [open EXCEPT ![o] = place]

-----------------------------------------------------------------------------
(* WhepLeaseRegistry *)

LeasesOnly == Cardinality(lease)   \* faulty variant: reservations do not count
Occupied == Cardinality(lease) + pending

\* LeaseReservation and its end without a lease.
Reserve(o) ==
    /\ count' = [count EXCEPT ![NodeOf[o]] = @ + 1]
    /\ pending' = pending + 1
    /\ UNCHANGED <<lease, old>>
Cancel(o) ==
    /\ count' = [count EXCEPT ![NodeOf[o]] = @ - 1]
    /\ pending' = pending - 1
    /\ UNCHANGED <<lease, old>>

\* The slot of the reservation becomes the lease's.
Commit(o) ==
    /\ lease' = lease \cup {o}
    /\ pending' = pending - 1
    /\ UNCHANGED <<count, old>>

\* Leases leave the registry and give their slots back.
KeepSlots(S) ==   \* faulty variant: the slots stay taken
    lease' = lease \ S /\ old' = old \ S /\ UNCHANGED <<pending, count>>
Forget(S) ==
    /\ lease' = lease \ S /\ old' = old \ S
    /\ count' = [n \in Nodes |-> count[n] - Cardinality(Of(n, S))]
    /\ UNCHANGED pending

-----------------------------------------------------------------------------
(* open_session *)

\* A slot is taken before anything is awaited, or the request is refused.
OpenSession(o) ==
    /\ api = "up" /\ open[o] = "new"
    /\ IF Occupied < MaxActive /\ count[NodeOf[o]] < MaxPerNode
       THEN Reserve(o) /\ Goto(o, "reserved")
       ELSE Goto(o, "refused") /\ UNCHANGED registry
    /\ UNCHANGED <<closing, expiry, api, outside, tried, cut>>

\* The node may see the camera and a token is at hand, or not, and the same once more after a
\* forced refresh.
PostOffer(o) ==
    /\ \/ open[o] = "reserved" /\ Goto(o, "posting") /\ UNCHANGED registry
       \/ open[o] = "unauthorized" /\ Goto(o, "reposting") /\ UNCHANGED registry
       \/ open[o] \in {"reserved", "unauthorized"} /\ Cancel(o) /\ Goto(o, "refused")
    /\ UNCHANGED <<closing, expiry, api, outside, tried, cut>>

\* Ring answers with a session.  Without a Location its resource stays unknown.
Opened(o) ==
    /\ open[o] \in {"posting", "reposting"}
    /\ ring' = [ring EXCEPT ![o] = @ + 1]
    /\ url' \in {url, url \cup {o}}
    /\ Commit(o)
    /\ Goto(o, "auditing")
    /\ UNCHANGED <<closing, expiry, api, tried, cut>>

\* A definite 401: no session exists, and the first one earns a refresh and a retry.
RetriedWhenUncertain(o) ==   \* faulty variant: an ambiguous answer is retried
    open[o] = "posting" /\ ring' \in {ring, [ring EXCEPT ![o] = @ + 1]}
Retried(o) == open[o] = "posting" /\ UNCHANGED ring
Unauthorized(o) ==
    /\ Retried(o)
    /\ Goto(o, "unauthorized")
    /\ UNCHANGED <<registry, closing, expiry, api, url, tried, cut>>

\* Ring refuses, or its answer is ambiguous and a session may exist, or its answer is unusable
\* and the session is released at once where its resource can be trusted.
PostFails(o) ==
    /\ open[o] \in {"posting", "reposting"}
    /\ \/ ring' \in {ring, [ring EXCEPT ![o] = @ + 1]} /\ UNCHANGED <<url, tried>>
       \/ /\ ring' \in {ring, [ring EXCEPT ![o] = @ + 1]}
          /\ url' = url \cup {o} /\ tried' = tried \cup {o}
    /\ Cancel(o)
    /\ Goto(o, "refused")
    /\ UNCHANGED <<closing, expiry, api, cut>>

Audit(o) ==
    /\ open[o] = "auditing"
    /\ Goto(o, "granted")
    /\ UNCHANGED <<registry, closing, expiry, api, outside, tried, cut>>

\* Without an audit row the session is undone, even when the expiry task already has its lease.
LeaveOpen(o) ==   \* faulty variant: the refused request keeps its lease
    UNCHANGED <<registry, tried>> /\ Goto(o, "undoing")
LeaveAtRing(o) ==   \* faulty variant: the lease goes, the session stays
    Forget(lease \cap {o}) /\ UNCHANGED tried /\ Goto(o, "refused")
Undo(o) ==
    /\ Forget(lease \cap {o})
    /\ tried' = tried \cup {o}
    /\ Goto(o, "undoing")
AuditFails(o) ==
    /\ open[o] = "auditing"
    /\ Undo(o)
    /\ UNCHANGED <<closing, expiry, api, outside, cut>>

\* _release_provider_session ends: the session is gone or, whatever was tried, it is not.  A
\* session without a known resource is never deleted.
Released(o) == ring' \in {ring, IF o \in url THEN [ring EXCEPT ![o] = 0] ELSE ring}

Undone(o) ==
    /\ open[o] = "undoing"
    /\ Released(o)
    /\ Goto(o, "refused")
    /\ UNCHANGED <<registry, closing, expiry, api, url, tried, cut>>

-----------------------------------------------------------------------------
(* close_session, release_expired and shutdown *)

\* The owner's DELETE finds the lease; for anyone else, and later, there is none.  The lease id
\* is known to the node once the request is granted.
CloseSession(o) ==
    /\ api = "up" /\ open[o] = "granted" /\ o \in lease
    /\ Forget({o})
    /\ closing' = closing \cup {o}
    /\ tried' = tried \cup {o}
    /\ UNCHANGED <<open, expiry, api, outside, cut>>

Closed(o) ==
    /\ o \in closing
    /\ closing' = closing \ {o}
    /\ Released(o)
    /\ UNCHANGED <<open, registry, expiry, api, url, tried, cut>>

\* A lease reaches its TTL.
Ages(o) ==
    /\ o \in lease \ old
    /\ old' = old \cup {o}
    /\ UNCHANGED <<open, lease, pending, count, closing, expiry, api, outside, tried, cut>>

\* The expiry task runs until the requests under way have ended and it is cancelled.
Looping == api \in {"up", "finishing"}

\* The next lease of S; one without a known resource takes no time.
Sweep(S) ==
    IF S \cap url = {}
    THEN popped' = {} /\ sweeping' = {} /\ UNCHANGED tried
    ELSE \E o \in S \cap url :
            popped' = (S \cap url) \ {o} /\ sweeping' = {o} /\ tried' = tried \cup {o}

\* release_expired takes every lease that is due and releases one after the other.
Never == {}   \* faulty variant: the comparison with the clock is the wrong way round
Due == old
PopExpired ==
    /\ Looping /\ sweeping = {} /\ Due # {}
    /\ Forget(Due)
    /\ Sweep(Due)
    /\ UNCHANGED <<open, closing, api, outside, cut>>

Swept(o) ==
    /\ Looping /\ o \in sweeping
    /\ Released(o)
    /\ Sweep(popped)
    /\ UNCHANGED <<open, registry, closing, api, url, cut>>

\* The server takes no more requests and lets those under way end ...
Stop ==
    /\ api = "up"
    /\ api' = "finishing"
    /\ UNCHANGED <<open, registry, closing, expiry, outside, tried, cut>>

\* ... then the lifespan cancels the expiry task wherever it waits, and shutdown drains the
\* registry and starts to release every lease it held.
Shutdown ==
    /\ api = "finishing"
    /\ \A o \in Opens : open[o] \notin UnderWay
    /\ closing = {} /\ closing' = lease
    /\ popped' = {} /\ sweeping' = {}
    /\ cut' = cut \cup popped
    /\ IF sweeping = {} THEN UNCHANGED ring ELSE \E o \in sweeping : Released(o)
    /\ Forget(lease)
    /\ tried' = tried \cup lease
    /\ api' = "stopping"
    /\ UNCHANGED <<open, url>>

\* The releases have ended, or the time limit ends them.
ShutDown ==
    /\ api = "stopping"
    /\ closing' = {}
    /\ \E gone \in SUBSET (closing \cap url) :
          ring' = [o \in Opens |-> IF o \in gone THEN 0 ELSE ring[o]]
    /\ api' = "down"
    /\ UNCHANGED <<open, registry, expiry, url, tried, cut>>

-----------------------------------------------------------------------------

Request(o) ==
    \/ PostOffer(o) \/ Opened(o) \/ Unauthorized(o) \/ PostFails(o)
    \/ Audit(o) \/ AuditFails(o) \/ Undone(o) \/ Closed(o)

Expiry == PopExpired \/ \E o \in Opens : Swept(o)

Next ==
    \/ \E o \in Opens : OpenSession(o) \/ Request(o) \/ CloseSession(o) \/ Ages(o)
    \/ Expiry \/ Stop \/ Shutdown \/ ShutDown
    \/ api = "down" /\ UNCHANGED vars   \* the process is gone

Spec == Init /\ [][Next]_vars

\* Every call to Ring, to the database and to the token service has a timeout, time passes, and
\* the expiry task runs.  Nothing obliges nodes to ask or the API to stop.
Fairness ==
    /\ \A o \in Opens : WF_vars(Request(o)) /\ WF_vars(Ages(o))
    /\ WF_vars(Expiry) /\ WF_vars(Shutdown) /\ WF_vars(ShutDown)

-----------------------------------------------------------------------------
(* Properties *)

\* Every variable has its type; the counters stay within the configured limits.
TypeOK ==
    /\ open \in [Opens -> UnderWay \cup {"new", "granted", "refused"}]
    /\ pending \in 0..MaxActive /\ count \in [Nodes -> 0..MaxPerNode]
    /\ lease \subseteq Opens /\ old \subseteq lease /\ closing \subseteq Opens
    /\ popped \subseteq Opens /\ sweeping \subseteq Opens
    /\ api \in {"up", "finishing", "stopping", "down"}
    /\ ring \in [Opens -> Nat]
    /\ url \subseteq Opens
    /\ tried \subseteq Opens /\ cut \subseteq Opens

\* The counters count what they stand for, however requests, expiry, DELETE and shutdown
\* interleave: a leak would lock a node out, a double release would let it exceed its share.
CountsAgree ==
    /\ pending = Cardinality(Unsettled)
    /\ \A n \in Nodes : count[n] = Cardinality(Of(n, lease \cup Unsettled))

\* Registered leases and the sessions being opened never exceed the limits, although a lease is
\* committed several awaits after the limit was checked.
CapacityHeld ==
    /\ Cardinality(lease \cup Unsettled) <= MaxActive
    /\ \A n \in Nodes : Cardinality(Of(n, lease \cup Unsettled)) <= MaxPerNode

\* One request opens at most one session at Ring: an uncertain POST is never repeated.
OneSession == \A o \in Opens : ring[o] <= 1

\* A lease belongs to a request that is being audited or was granted: unaudited access to live
\* video is not left behind, and neither is a lease nobody knows the id of.
AccessAudited == \A o \in lease : open[o] \in {"auditing", "granted"}

\* A session that exists at Ring and whose resource the broker knows is leased, or waits for
\* the expiry task, or somebody has started to release it; but for the cancelled expiry task.
SessionsTracked ==
    \A o \in url : ring[o] # 0 => o \in lease \cup popped \cup tried \cup cut

\* A request Ring has not answered has no session.
Fresh == \A o \in Opens : open[o] \in Reserved \cup {"new"} => ring[o] = 0 /\ o \notin url

\* The expiry task waits only for the lease it is releasing, the others behind it.
Sweeping == sweeping = {} => popped = {}

\* What every step keeps: the properties above, and what they rest on.  The slots taken are
\* leases and reservations together, and an open that may still be answered starts with nothing.
Inv ==
    /\ TypeOK /\ CountsAgree /\ Occupied <= MaxActive
    /\ Fresh /\ Sweeping /\ OneSession /\ AccessAudited /\ SessionsTracked

\* Every lease ends, also when its node never comes back, and the release of its session is
\* attempted or was cut off by the cancelled expiry task.
LeaseEnds ==
    \A o \in Opens :
        o \in lease ~> o \notin lease /\ (o \in url => o \in tried \cup cut)

\* edge_whep.py:18-19, 651: leases are "released on DELETE, on expiry and at shutdown", and
\* shutdown attempts "to close every outstanding Ring session".
StopTriesAll == api = "down" => \A o \in url : ring[o] = 0 \/ o \in tried

=============================================================================
