------------------------ MODULE EdgeWhepBrokerProofs -------------------------
(* Theorems about EdgeWhepBroker for every value of its constants. *)
EXTENDS EdgeWhepBroker, FiniteSetTheorems, TLAPS

-----------------------------------------------------------------------------
(* Counting requests of a node *)

LEMMA Countable ==
    ASSUME NEW S \in SUBSET Opens
    PROVE  IsFiniteSet(S) /\ Cardinality(S) \in Nat
BY EdgeWhepBrokerAssumption, FS_Subset, FS_CardinalityType

\* One request more.
LEMMA OneMore ==
    ASSUME NEW S \in SUBSET Opens, NEW o \in Opens \ S, NEW n \in Nodes
    PROVE  Cardinality(Of(n, S \cup {o})) =
              IF NodeOf[o] = n THEN Cardinality(Of(n, S)) + 1 ELSE Cardinality(Of(n, S))
<1>1. Of(n, S \cup {o}) = IF NodeOf[o] = n THEN Of(n, S) \cup {o} ELSE Of(n, S)
  BY DEF Of
<1>2. IsFiniteSet(Of(n, S)) /\ o \notin Of(n, S)
  BY Countable DEF Of
<1> QED BY <1>1, <1>2, FS_AddElement

\* Some requests less.
LEMMA SomeLess ==
    ASSUME NEW S \in SUBSET Opens, NEW T \in SUBSET S, NEW n \in Nodes
    PROVE  /\ Cardinality(Of(n, S \ T)) = Cardinality(Of(n, S)) - Cardinality(Of(n, T))
           /\ Cardinality(Of(n, S \ T)) \in Nat
<1>1. Of(n, S \ T) = Of(n, S) \ Of(n, T) /\ Of(n, S) \cap Of(n, T) = Of(n, T)
  BY DEF Of
<1>2. IsFiniteSet(Of(n, S)) /\ Cardinality(Of(n, S \ T)) \in Nat
  BY Countable DEF Of
<1>3. Cardinality(Of(n, S) \ Of(n, T)) = Cardinality(Of(n, S)) - Cardinality(Of(n, S) \cap Of(n, T))
  BY <1>2, FS_Difference
<1> QED BY <1>1, <1>2, <1>3

-----------------------------------------------------------------------------
(* The registry: each of its operations keeps the books *)

Books == /\ pending \in 0..MaxActive /\ lease \subseteq Opens
         /\ count \in [Nodes -> 0..MaxPerNode]
         /\ CountsAgree /\ Occupied <= MaxActive

\* What the books rest on: a lease does not belong to a request that is still being opened.
Requests == /\ open \in [Opens -> UnderWay \cup {"new", "granted", "refused"}]
            /\ AccessAudited

\* A step that changes neither leases nor reservations.
LEMMA SameBooks ==
    ASSUME Books, Unsettled' = Unsettled, UNCHANGED <<lease, pending, count>>
    PROVE  Books'
BY DEF Books, CountsAgree, Occupied

LEMMA ReserveBooks ==
    ASSUME Books, Requests, NEW o \in Opens, open[o] = "new", Occupied < MaxActive,
           count[NodeOf[o]] < MaxPerNode, Reserve(o), Goto(o, "reserved")
    PROVE  Books'
<1>1. Unsettled \subseteq Opens /\ Unsettled' = Unsettled \cup {o}
  BY DEF Unsettled, Requests, Goto, Reserved
<1>2. o \notin lease \cup Unsettled
  BY DEF Unsettled, Requests, AccessAudited, Reserved
<1>3. NodeOf[o] \in Nodes /\ MaxPerNode \in Nat /\ MaxActive \in Nat
  BY EdgeWhepBrokerAssumption
<1>4. pending' = Cardinality(Unsettled')
  <2>1. IsFiniteSet(Unsettled)
    BY <1>1, Countable
  <2> QED BY <1>1, <1>2, <2>1, FS_AddElement DEF Books, CountsAgree, Reserve
<1>5. ASSUME NEW n \in Nodes PROVE count'[n] = Cardinality(Of(n, lease' \cup Unsettled'))
  <2>1. lease' \cup Unsettled' = (lease \cup Unsettled) \cup {o}
    BY <1>1 DEF Reserve
  <2>2. lease \cup Unsettled \in SUBSET Opens
    BY <1>1 DEF Books
  <2>3. count'[n] = IF NodeOf[o] = n THEN count[n] + 1 ELSE count[n]
    BY DEF Reserve, Books
  <2>4. count[n] = Cardinality(Of(n, lease \cup Unsettled))
    BY DEF Books, CountsAgree
  <2> QED BY <1>2, <2>1, <2>2, <2>3, <2>4, OneMore
<1>6. Cardinality(lease) \in Nat
  BY Countable DEF Books
<1>7. count' \in [Nodes -> 0..MaxPerNode]
  BY <1>3 DEF Books, Reserve
<1>8. Occupied' <= MaxActive /\ pending' \in 0..MaxActive
  BY <1>3, <1>6 DEF Occupied, Reserve, Books
<1> QED BY <1>4, <1>5, <1>7, <1>8 DEF Books, CountsAgree, Reserve

LEMMA CancelBooks ==
    ASSUME Books, Requests, NEW o \in Opens, open[o] \in Reserved, Cancel(o), Goto(o, "refused")
    PROVE  Books'
<1>1. /\ Unsettled \subseteq Opens /\ Unsettled' = Unsettled \ {o}
      /\ o \in Unsettled /\ o \notin lease
  BY DEF Unsettled, Requests, Goto, Reserved, AccessAudited
<1>2. NodeOf[o] \in Nodes /\ MaxPerNode \in Nat /\ MaxActive \in Nat
  BY EdgeWhepBrokerAssumption
<1>3. pending' = Cardinality(Unsettled') /\ pending' \in Nat
  <2>1. IsFiniteSet(Unsettled) /\ Cardinality(Unsettled') \in Nat
    BY <1>1, Countable
  <2> QED BY <1>1, <2>1, FS_RemoveElement DEF Books, CountsAgree, Cancel
<1>4. ASSUME NEW n \in Nodes
      PROVE  count'[n] = Cardinality(Of(n, lease' \cup Unsettled')) /\ count'[n] \in 0..MaxPerNode
  <2>1. lease \cup Unsettled = (lease' \cup Unsettled') \cup {o}
    BY <1>1 DEF Cancel
  <2>2. /\ lease' \cup Unsettled' \in SUBSET Opens
        /\ o \in Opens \ (lease' \cup Unsettled')
    BY <1>1 DEF Books, Cancel
  <2>3. count'[n] = IF NodeOf[o] = n THEN count[n] - 1 ELSE count[n]
    BY DEF Cancel, Books
  <2>4. count[n] = Cardinality(Of(n, lease \cup Unsettled)) /\ count[n] \in 0..MaxPerNode
    BY DEF Books, CountsAgree
  <2>5. Cardinality(Of(n, lease' \cup Unsettled')) \in Nat
    BY <2>2, Countable DEF Of
  <2>6. count[n] = IF NodeOf[o] = n THEN Cardinality(Of(n, lease' \cup Unsettled')) + 1
                   ELSE Cardinality(Of(n, lease' \cup Unsettled'))
    <3>1. Cardinality(Of(n, (lease' \cup Unsettled') \cup {o})) =
             IF NodeOf[o] = n THEN Cardinality(Of(n, lease' \cup Unsettled')) + 1
             ELSE Cardinality(Of(n, lease' \cup Unsettled'))
      BY <2>2, OneMore
    <3> QED BY <2>1, <2>4, <3>1
  <2>7. count'[n] = Cardinality(Of(n, lease' \cup Unsettled'))
    BY <2>3, <2>5, <2>6
  <2>8. count'[n] <= count[n]
    BY <2>3, <2>4
  <2> QED BY <1>2, <2>4, <2>5, <2>7, <2>8
<1>5. Occupied' <= MaxActive /\ pending' \in 0..MaxActive
  <2>1. Cardinality(lease) \in Nat
    BY Countable DEF Books
  <2> QED BY <1>2, <1>3, <2>1 DEF Books, Occupied, Cancel
<1> QED BY <1>3, <1>4, <1>5 DEF Books, CountsAgree, Cancel

\* The slot moves from the reservation to the lease.
LEMMA CommitBooks ==
    ASSUME Books, Requests, NEW o \in Opens, open[o] \in Reserved, Commit(o),
           Goto(o, "auditing")
    PROVE  Books'
<1>1. /\ Unsettled \subseteq Opens /\ Unsettled' = Unsettled \ {o}
      /\ o \in Unsettled /\ o \notin lease
  BY DEF Unsettled, Requests, Goto, Reserved, AccessAudited
<1>2. pending' = Cardinality(Unsettled') /\ pending' \in Nat
  <2>1. IsFiniteSet(Unsettled) /\ Cardinality(Unsettled') \in Nat
    BY <1>1, Countable
  <2> QED BY <1>1, <2>1, FS_RemoveElement DEF Books, CountsAgree, Commit
<1>3. lease' \cup Unsettled' = lease \cup Unsettled
  BY <1>1 DEF Commit
<1>4. Occupied' <= MaxActive /\ pending' \in 0..MaxActive
  <2>1. IsFiniteSet(lease) /\ Cardinality(lease) \in Nat
    BY Countable DEF Books
  <2>2. Cardinality(lease') = Cardinality(lease) + 1
    BY <1>1, <2>1, FS_AddElement DEF Commit
  <2> QED BY EdgeWhepBrokerAssumption, <1>2, <2>1, <2>2 DEF Books, Occupied, Commit
<1> QED BY <1>2, <1>3, <1>4 DEF Books, CountsAgree, Commit

\* DELETE, expiry, shutdown and an undone request.
LEMMA ForgetBooks ==
    ASSUME Books, Requests, NEW S \in SUBSET lease, Forget(S), Unsettled' = Unsettled
    PROVE  Books'
<1>1. Unsettled \subseteq Opens /\ S \cap Unsettled = {}
  BY DEF Unsettled, Requests, AccessAudited, Reserved
<1>2. ASSUME NEW n \in Nodes
      PROVE  count'[n] = Cardinality(Of(n, lease' \cup Unsettled')) /\ count'[n] \in 0..MaxPerNode
  <2>1. lease' \cup Unsettled' = (lease \cup Unsettled) \ S
    BY <1>1 DEF Forget
  <2>2. lease \cup Unsettled \in SUBSET Opens /\ S \in SUBSET (lease \cup Unsettled)
    BY <1>1 DEF Books
  <2>3. count'[n] = count[n] - Cardinality(Of(n, S))
    BY DEF Forget
  <2>4. count[n] = Cardinality(Of(n, lease \cup Unsettled)) /\ count[n] \in 0..MaxPerNode
    BY DEF Books, CountsAgree
  <2>5. Cardinality(Of(n, S)) \in Nat
    BY <2>2, Countable DEF Of
  <2>6. /\ Cardinality(Of(n, (lease \cup Unsettled) \ S)) =
              Cardinality(Of(n, lease \cup Unsettled)) - Cardinality(Of(n, S))
        /\ Cardinality(Of(n, (lease \cup Unsettled) \ S)) \in Nat
    BY <2>2, SomeLess
  <2>7. count'[n] \in Nat /\ count'[n] <= count[n]
    BY <2>3, <2>4, <2>5, <2>6
  <2>8. count'[n] \in 0..MaxPerNode
    BY EdgeWhepBrokerAssumption, <2>4, <2>7
  <2> QED BY <2>1, <2>3, <2>4, <2>6, <2>8
<1>3. Occupied' <= MaxActive
  <2>1. /\ Cardinality(lease) \in Nat /\ Cardinality(lease') \in Nat
        /\ Cardinality(lease') <= Cardinality(lease)
    BY Countable, FS_Subset DEF Books, Forget
  <2> QED BY EdgeWhepBrokerAssumption, <2>1 DEF Books, Occupied, Forget
<1> QED BY <1>2, <1>3 DEF Books, CountsAgree, Forget

-----------------------------------------------------------------------------
(* Every step keeps the invariant *)

LEMMA InvBooks == ASSUME Inv PROVE Books /\ Requests
BY DEF Inv, TypeOK, Books, Requests

LEMMA OpenSessionStep ==
    ASSUME Inv, NEW o \in Opens, OpenSession(o)
    PROVE  Inv'
<1>2. Books'
  <2>1. CASE /\ Occupied < MaxActive /\ count[NodeOf[o]] < MaxPerNode
             /\ Reserve(o) /\ Goto(o, "reserved")
    BY InvBooks, ReserveBooks, <2>1 DEF OpenSession
  <2>2. CASE UNCHANGED registry /\ Goto(o, "refused")
    <3>1. Unsettled' = Unsettled
      BY <2>2 DEF OpenSession, Goto, Unsettled, Reserved, Inv
    <3> QED BY InvBooks, SameBooks, <2>2, <3>1 DEF registry
  <2> QED BY <2>1, <2>2 DEF OpenSession
<1>3. TypeOK'
  BY <1>2 DEF Books, Inv, OpenSession, Reserve, Goto, registry, expiry, outside, UnderWay,
       Reserved, TypeOK
<1>4. Fresh'
  BY DEF Inv, OpenSession, Goto, outside, TypeOK, Fresh
<1>5. OneSession'
  BY DEF Inv, OpenSession, outside, OneSession
<1>6. AccessAudited'
  BY DEF Inv, OpenSession, Reserve, Goto, registry, TypeOK, AccessAudited
<1>7. SessionsTracked'
  BY DEF Inv, OpenSession, Reserve, registry, expiry, outside, SessionsTracked
<1>8. Sweeping'
  BY DEF Inv, OpenSession, expiry, Sweeping
<1> QED BY <1>2, <1>3, <1>4, <1>5, <1>6, <1>7, <1>8 DEF Inv, Books

LEMMA PostOfferStep ==
    ASSUME Inv, NEW o \in Opens, PostOffer(o)
    PROVE  Inv'
<1>2. Books'
  <2>1. CASE Cancel(o) /\ Goto(o, "refused") /\ open[o] \in Reserved
    BY InvBooks, CancelBooks, <2>1
  <2>2. CASE UNCHANGED registry
    <3>1. Unsettled' = Unsettled
      BY <2>2 DEF PostOffer, Goto, Unsettled, Reserved, Inv, TypeOK, Cancel, registry
    <3> QED BY InvBooks, SameBooks, <2>2, <3>1 DEF registry
  <2> QED BY <2>1, <2>2 DEF PostOffer, Reserved
<1>3. TypeOK'
  BY <1>2 DEF Books, Inv, PostOffer, Cancel, Goto, registry, expiry, outside, UnderWay,
       Reserved, TypeOK
<1>4. Fresh'
  BY DEF Inv, PostOffer, Goto, outside, UnderWay, TypeOK, Fresh
<1>5. OneSession'
  BY DEF Inv, PostOffer, outside, OneSession
<1>6. AccessAudited'
  BY DEF Inv, PostOffer, Cancel, Goto, registry, TypeOK, AccessAudited
<1>7. SessionsTracked'
  BY DEF Inv, PostOffer, Cancel, registry, expiry, outside, SessionsTracked
<1>8. Sweeping'
  BY DEF Inv, PostOffer, expiry, Sweeping
<1> QED BY <1>2, <1>3, <1>4, <1>5, <1>6, <1>7, <1>8 DEF Inv, Books

LEMMA OpenedStep ==
    ASSUME Inv, NEW o \in Opens, Opened(o)
    PROVE  Inv'
<1>2. Books'
  BY InvBooks, CommitBooks DEF Opened, Reserved
<1>3. TypeOK'
  BY <1>2 DEF Books, Inv, Opened, Commit, Goto, expiry, UnderWay, TypeOK
<1>4. Fresh'
  BY DEF Inv, Opened, Goto, Reserved, TypeOK, Fresh
<1>5. OneSession'
  BY DEF Inv, Opened, Reserved, Fresh, OneSession
<1>6. AccessAudited'
  BY DEF Inv, Opened, Commit, Goto, TypeOK, AccessAudited
<1>7. SessionsTracked'
  BY DEF Inv, Opened, Commit, expiry, SessionsTracked
<1>8. Sweeping'
  BY DEF Inv, Opened, expiry, Sweeping
<1> QED BY <1>2, <1>3, <1>4, <1>5, <1>6, <1>7, <1>8 DEF Inv, Books

LEMMA UnauthorizedStep ==
    ASSUME Inv, NEW o \in Opens, Unauthorized(o)
    PROVE  Inv'
<1>1. Unsettled' = Unsettled
  BY DEF Unauthorized, Retried, Goto, Unsettled, Reserved, Inv
<1>2. Books'
  BY InvBooks, SameBooks, <1>1 DEF Unauthorized, registry
<1>3. TypeOK'
  BY DEF Inv, Unauthorized, Retried, Goto, registry, expiry, UnderWay, Reserved, TypeOK
<1>4. Fresh'
  BY DEF Inv, Unauthorized, Retried, Goto, Reserved, Fresh
<1>5. OneSession'
  BY DEF Inv, Unauthorized, Retried, OneSession
<1>6. AccessAudited'
  BY DEF Inv, Unauthorized, Retried, Goto, registry, AccessAudited
<1>7. SessionsTracked'
  BY DEF Inv, Unauthorized, Retried, registry, expiry, SessionsTracked
<1>8. Sweeping'
  BY DEF Inv, Unauthorized, expiry, Sweeping
<1> QED BY <1>2, <1>3, <1>4, <1>5, <1>6, <1>7, <1>8 DEF Inv, Books

LEMMA PostFailsStep ==
    ASSUME Inv, NEW o \in Opens, PostFails(o)
    PROVE  Inv'
<1>2. Books'
  BY InvBooks, CancelBooks DEF PostFails, Reserved
<1>3. TypeOK'
  BY <1>2 DEF Books, Inv, PostFails, Cancel, Goto, expiry, TypeOK
<1>4. Fresh'
  BY DEF Inv, PostFails, Goto, Reserved, TypeOK, Fresh
<1>5. OneSession'
  BY DEF Inv, PostFails, UnderWay, TypeOK, Fresh, OneSession
<1>6. AccessAudited'
  BY DEF Inv, PostFails, Cancel, Goto, AccessAudited
<1>7. SessionsTracked'
  BY DEF Inv, PostFails, Cancel, expiry, UnderWay, TypeOK, Fresh, SessionsTracked
<1>8. Sweeping'
  BY DEF Inv, PostFails, expiry, Sweeping
<1> QED BY <1>2, <1>3, <1>4, <1>5, <1>6, <1>7, <1>8 DEF Inv, Books

LEMMA AuditStep ==
    ASSUME Inv, NEW o \in Opens, Audit(o)
    PROVE  Inv'
<1>1. Unsettled' = Unsettled
  BY DEF Audit, Goto, Unsettled, Reserved, Inv
<1>2. Books'
  BY InvBooks, SameBooks, <1>1 DEF Audit, registry
<1>3. TypeOK'
  BY DEF Inv, Audit, Goto, registry, expiry, outside, TypeOK
<1>4. Fresh'
  BY DEF Inv, Audit, Goto, outside, Reserved, Fresh
<1>5. OneSession'
  BY DEF Inv, Audit, outside, OneSession
<1>6. AccessAudited'
  BY DEF Inv, Audit, Goto, registry, AccessAudited
<1>7. SessionsTracked'
  BY DEF Inv, Audit, registry, expiry, outside, SessionsTracked
<1>8. Sweeping'
  BY DEF Inv, Audit, expiry, Sweeping
<1> QED BY <1>2, <1>3, <1>4, <1>5, <1>6, <1>7, <1>8 DEF Inv, Books

LEMMA AuditFailsStep ==
    ASSUME Inv, NEW o \in Opens, AuditFails(o)
    PROVE  Inv'
<1>1. Unsettled' = Unsettled
  BY DEF AuditFails, Undo, Goto, Unsettled, Reserved, Inv
<1>2. Books'
  BY InvBooks, ForgetBooks, <1>1 DEF AuditFails, Undo
<1>3. TypeOK'
  BY <1>2 DEF Books, Inv, AuditFails, Undo, Forget, Goto, expiry, outside, UnderWay, TypeOK
<1>4. Fresh'
  BY DEF Inv, AuditFails, Undo, Goto, outside, Reserved, Fresh
<1>5. OneSession'
  BY DEF Inv, AuditFails, outside, OneSession
<1>6. AccessAudited'
  BY DEF Inv, AuditFails, Undo, Forget, Goto, AccessAudited
<1>7. SessionsTracked'
  BY DEF Inv, AuditFails, Undo, Forget, expiry, outside, SessionsTracked
<1>8. Sweeping'
  BY DEF Inv, AuditFails, expiry, Sweeping
<1> QED BY <1>2, <1>3, <1>4, <1>5, <1>6, <1>7, <1>8 DEF Inv, Books

LEMMA UndoneStep ==
    ASSUME Inv, NEW o \in Opens, Undone(o)
    PROVE  Inv'
<1>1. Unsettled' = Unsettled
  BY DEF Undone, Goto, Unsettled, Reserved, Inv
<1>2. Books'
  BY InvBooks, SameBooks, <1>1 DEF Undone, registry
<1>3. TypeOK'
  BY DEF Inv, Undone, Released, Goto, registry, expiry, TypeOK
<1>4. Fresh'
  BY DEF Inv, Undone, Released, Goto, Reserved, TypeOK, Fresh
<1>5. OneSession'
  BY DEF Inv, Undone, Released, TypeOK, OneSession
<1>6. AccessAudited'
  BY DEF Inv, Undone, Goto, registry, AccessAudited
<1>7. SessionsTracked'
  BY DEF Inv, Undone, Released, registry, expiry, TypeOK, SessionsTracked
<1>8. Sweeping'
  BY DEF Inv, Undone, expiry, Sweeping
<1> QED BY <1>2, <1>3, <1>4, <1>5, <1>6, <1>7, <1>8 DEF Inv, Books

LEMMA CloseSessionStep ==
    ASSUME Inv, NEW o \in Opens, CloseSession(o)
    PROVE  Inv'
<1>1. Unsettled' = Unsettled
  BY DEF CloseSession, Unsettled, Inv
<1>2. Books'
  BY InvBooks, ForgetBooks, <1>1 DEF CloseSession, Inv
<1>3. TypeOK'
  BY <1>2 DEF Books, Inv, CloseSession, Forget, expiry, outside, TypeOK
<1>4. Fresh'
  BY DEF Inv, CloseSession, outside, Fresh
<1>5. OneSession'
  BY DEF Inv, CloseSession, outside, OneSession
<1>6. AccessAudited'
  BY DEF Inv, CloseSession, Forget, AccessAudited
<1>7. SessionsTracked'
  BY DEF Inv, CloseSession, Forget, expiry, outside, SessionsTracked
<1>8. Sweeping'
  BY DEF Inv, CloseSession, expiry, Sweeping
<1> QED BY <1>2, <1>3, <1>4, <1>5, <1>6, <1>7, <1>8 DEF Inv, Books

LEMMA ClosedStep ==
    ASSUME Inv, NEW o \in Opens, Closed(o)
    PROVE  Inv'
<1>1. Unsettled' = Unsettled
  BY DEF Closed, Unsettled, Inv
<1>2. Books'
  BY InvBooks, SameBooks, <1>1 DEF Closed, registry
<1>3. TypeOK'
  BY DEF Inv, Closed, Released, registry, expiry, TypeOK
<1>4. Fresh'
  BY DEF Inv, Closed, Released, TypeOK, Fresh
<1>5. OneSession'
  BY DEF Inv, Closed, Released, TypeOK, OneSession
<1>6. AccessAudited'
  BY DEF Inv, Closed, registry, AccessAudited
<1>7. SessionsTracked'
  BY DEF Inv, Closed, Released, registry, expiry, TypeOK, SessionsTracked
<1>8. Sweeping'
  BY DEF Inv, Closed, expiry, Sweeping
<1> QED BY <1>2, <1>3, <1>4, <1>5, <1>6, <1>7, <1>8 DEF Inv, Books

LEMMA AgesStep ==
    ASSUME Inv, NEW o \in Opens, Ages(o)
    PROVE  Inv'
<1>1. Unsettled' = Unsettled
  BY DEF Ages, Unsettled, Inv
<1>2. Books'
  BY InvBooks, SameBooks, <1>1 DEF Ages
<1>3. TypeOK'
  BY DEF Inv, Ages, expiry, outside, TypeOK
<1>4. Fresh'
  BY DEF Inv, Ages, outside, Fresh
<1>5. OneSession'
  BY DEF Inv, Ages, outside, OneSession
<1>6. AccessAudited'
  BY DEF Inv, Ages, AccessAudited
<1>7. SessionsTracked'
  BY DEF Inv, Ages, expiry, outside, SessionsTracked
<1>8. Sweeping'
  BY DEF Inv, Ages, expiry, Sweeping
<1> QED BY <1>2, <1>3, <1>4, <1>5, <1>6, <1>7, <1>8 DEF Inv, Books

LEMMA PopExpiredStep ==
    ASSUME Inv, PopExpired
    PROVE  Inv'
<1>1. Unsettled' = Unsettled
  BY DEF PopExpired, Unsettled, Inv
<1>2. Books'
  BY InvBooks, ForgetBooks, <1>1 DEF PopExpired, Due, Inv, TypeOK
<1>3. TypeOK'
  <2>1. popped' \subseteq Opens /\ sweeping' \subseteq Opens /\ tried' \subseteq Opens
    BY DEF Inv, PopExpired, Sweep, TypeOK
  <2> QED BY <1>2, <2>1 DEF Books, Inv, PopExpired, Forget, outside, TypeOK
<1>4. Fresh'
  BY DEF Inv, PopExpired, outside, Fresh
<1>5. OneSession'
  BY DEF Inv, PopExpired, outside, OneSession
<1>6. AccessAudited'
  BY DEF Inv, PopExpired, Forget, AccessAudited
<1>7. SessionsTracked'
  <2>1. UNCHANGED <<ring, url, cut>> /\ lease' = lease \ old /\ popped = {}
    BY DEF Inv, PopExpired, Forget, Due, outside, Sweeping
  <2>2. old \cap url \subseteq popped' \cup tried' /\ tried \subseteq tried'
    BY DEF PopExpired, Due, Sweep
  <2> QED BY <2>1, <2>2 DEF Inv, SessionsTracked
<1>8. Sweeping'
  BY DEF Inv, PopExpired, Sweep, Sweeping
<1> QED BY <1>2, <1>3, <1>4, <1>5, <1>6, <1>7, <1>8 DEF Inv, Books

LEMMA SweptStep ==
    ASSUME Inv, NEW o \in Opens, Swept(o)
    PROVE  Inv'
<1>1. Unsettled' = Unsettled
  BY DEF Swept, Unsettled, Inv
<1>2. Books'
  BY InvBooks, SameBooks, <1>1 DEF Swept, registry
<1>3. TypeOK'
  BY DEF Inv, Swept, Released, Sweep, registry, TypeOK
<1>4. Fresh'
  BY DEF Inv, Swept, Released, TypeOK, Fresh
<1>5. OneSession'
  BY DEF Inv, Swept, Released, TypeOK, OneSession
<1>6. AccessAudited'
  BY DEF Inv, Swept, registry, AccessAudited
<1>7. SessionsTracked'
  BY DEF Inv, Swept, Released, Sweep, registry, TypeOK, SessionsTracked
<1>8. Sweeping'
  BY DEF Inv, Swept, Sweep, Sweeping
<1> QED BY <1>2, <1>3, <1>4, <1>5, <1>6, <1>7, <1>8 DEF Inv, Books

LEMMA StopStep ==
    ASSUME Inv, Stop
    PROVE  Inv'
<1>1. Unsettled' = Unsettled
  BY DEF Stop, Unsettled, Inv
<1>2. Books'
  BY InvBooks, SameBooks, <1>1 DEF Stop, registry
<1>3. TypeOK'
  BY DEF Inv, Stop, registry, expiry, outside, TypeOK
<1>4. Fresh'
  BY DEF Inv, Stop, outside, Fresh
<1>5. OneSession'
  BY DEF Inv, Stop, outside, OneSession
<1>6. AccessAudited'
  BY DEF Inv, Stop, registry, AccessAudited
<1>7. SessionsTracked'
  BY DEF Inv, Stop, registry, expiry, outside, SessionsTracked
<1>8. Sweeping'
  BY DEF Inv, Stop, expiry, Sweeping
<1> QED BY <1>2, <1>3, <1>4, <1>5, <1>6, <1>7, <1>8 DEF Inv, Books

LEMMA ShutdownStep ==
    ASSUME Inv, Shutdown
    PROVE  Inv'
<1>1. Unsettled' = Unsettled
  BY DEF Shutdown, Unsettled, Inv
<1>2. Books'
  BY InvBooks, ForgetBooks, <1>1 DEF Shutdown, Inv
<1>3. TypeOK'
  BY <1>2 DEF Books, Inv, Shutdown, Forget, Released, TypeOK
<1>4. Fresh'
  BY DEF Inv, Shutdown, Released, TypeOK, Fresh
<1>5. OneSession'
  BY DEF Inv, Shutdown, Released, TypeOK, OneSession
<1>6. AccessAudited'
  BY DEF Inv, Shutdown, Forget, AccessAudited
<1>7. SessionsTracked'
  BY DEF Inv, Shutdown, Released, TypeOK, SessionsTracked
<1>8. Sweeping'
  BY DEF Inv, Shutdown, Sweeping
<1> QED BY <1>2, <1>3, <1>4, <1>5, <1>6, <1>7, <1>8 DEF Inv, Books

LEMMA ShutDownStep ==
    ASSUME Inv, ShutDown
    PROVE  Inv'
<1>1. Unsettled' = Unsettled
  BY DEF ShutDown, Unsettled, Inv
<1>2. Books'
  BY InvBooks, SameBooks, <1>1 DEF ShutDown, registry
<1>3. TypeOK'
  BY DEF Inv, ShutDown, registry, expiry, TypeOK
<1>4. Fresh'
  BY DEF Inv, ShutDown, Fresh
<1>5. OneSession'
  BY DEF Inv, ShutDown, OneSession
<1>6. AccessAudited'
  BY DEF Inv, ShutDown, registry, AccessAudited
<1>7. SessionsTracked'
  BY DEF Inv, ShutDown, registry, expiry, TypeOK, SessionsTracked
<1>8. Sweeping'
  BY DEF Inv, ShutDown, expiry, Sweeping
<1> QED BY <1>2, <1>3, <1>4, <1>5, <1>6, <1>7, <1>8 DEF Inv, Books

LEMMA StutterStep == ASSUME Inv, UNCHANGED vars PROVE Inv'
BY DEF Inv, vars, registry, expiry, outside, TypeOK, CountsAgree, Occupied, Unsettled, Fresh,
     Sweeping, OneSession, AccessAudited, SessionsTracked

LEMMA InitInv == Init => Inv
<1> SUFFICES ASSUME Init PROVE Inv
  OBVIOUS
<1>1. Unsettled = {} /\ lease = {}
  BY DEF Init, Unsettled, Reserved
<1>2. CountsAgree
  <2>1. \A n \in Nodes : Of(n, lease \cup Unsettled) = {}
    BY <1>1 DEF Of
  <2> QED BY <1>1, <2>1, FS_EmptySet DEF Init, CountsAgree
<1>3. TypeOK /\ Occupied <= MaxActive
  BY FS_EmptySet, EdgeWhepBrokerAssumption DEF Init, TypeOK, Occupied
<1>4. Fresh /\ Sweeping /\ OneSession /\ AccessAudited /\ SessionsTracked
  BY DEF Init, Fresh, Sweeping, OneSession, AccessAudited, SessionsTracked
<1> QED BY <1>2, <1>3, <1>4 DEF Inv

LEMMA NextInv == Inv /\ [Next]_vars => Inv'
<1> SUFFICES ASSUME Inv, [Next]_vars PROVE Inv'
  OBVIOUS
<1>1. CASE \E o \in Opens : OpenSession(o) \/ Request(o) \/ CloseSession(o) \/ Ages(o)
  BY <1>1, OpenSessionStep, PostOfferStep, OpenedStep, UnauthorizedStep, PostFailsStep,
       AuditStep, AuditFailsStep, UndoneStep, ClosedStep, CloseSessionStep, AgesStep DEF Request
<1>2. CASE Expiry
  BY <1>2, PopExpiredStep, SweptStep DEF Expiry
<1>3. CASE Stop \/ Shutdown \/ ShutDown
  BY <1>3, StopStep, ShutdownStep, ShutDownStep
<1>4. CASE UNCHANGED vars
  BY <1>4, StutterStep
<1> QED BY <1>1, <1>2, <1>3, <1>4 DEF Next

-----------------------------------------------------------------------------
(* Theorems *)

\* The invariant holds in every state the broker reaches.
THEOREM Invariance == Spec => []Inv
<1> QED BY InitInv, NextInv, PTL DEF Spec

\* Every variable keeps its type, and no counter leaves its range.
THEOREM Typed == Spec => []TypeOK
<1>1. Inv => TypeOK
  BY DEF Inv
<1> QED BY <1>1, Invariance, PTL

\* The counters of the registry count leases and reservations, whatever interleaves.
THEOREM Counted == Spec => []CountsAgree
<1>1. Inv => CountsAgree
  BY DEF Inv
<1> QED BY <1>1, Invariance, PTL

\* Leases and sessions being opened stay within the two limits, for any number of requests.
THEOREM Bounded == Spec => []CapacityHeld
<1>1. Inv => CapacityHeld
  <2> SUFFICES ASSUME Inv PROVE CapacityHeld
    OBVIOUS
  <2>1. Cardinality(lease \cup Unsettled) <= MaxActive
    <3>1. lease \in SUBSET Opens /\ Unsettled \in SUBSET Opens /\ lease \cap Unsettled = {}
      BY DEF Inv, TypeOK, AccessAudited, Unsettled, Reserved
    <3>2. Cardinality(lease \cup Unsettled) = Cardinality(lease) + Cardinality(Unsettled)
      <4>1. /\ IsFiniteSet(lease) /\ IsFiniteSet(Unsettled)
            /\ Cardinality(lease) \in Nat /\ Cardinality(Unsettled) \in Nat
        BY <3>1, Countable
      <4>2. Cardinality(lease \cap Unsettled) = 0
        BY <3>1, FS_EmptySet
      <4>3. Cardinality(lease \cup Unsettled) =
               Cardinality(lease) + Cardinality(Unsettled) - Cardinality(lease \cap Unsettled)
        BY <4>1, FS_Union
      <4> QED BY <4>1, <4>2, <4>3
    <3> QED BY <3>2 DEF Inv, CountsAgree, Occupied
  <2>2. ASSUME NEW n \in Nodes PROVE Cardinality(Of(n, lease \cup Unsettled)) <= MaxPerNode
    <3>1. count[n] = Cardinality(Of(n, lease \cup Unsettled)) /\ count[n] \in 0..MaxPerNode
      BY DEF Inv, CountsAgree, TypeOK
    <3> QED BY <3>1
  <2> QED BY <2>1, <2>2 DEF CapacityHeld
<1> QED BY <1>1, Invariance, PTL

\* No request leaves two sessions at Ring.
THEOREM Single == Spec => []OneSession
<1>1. Inv => OneSession
  BY DEF Inv
<1> QED BY <1>1, Invariance, PTL

\* No lease outlives the refusal of its request.
THEOREM Audited == Spec => []AccessAudited
<1>1. Inv => AccessAudited
  BY DEF Inv
<1> QED BY <1>1, Invariance, PTL

\* No session whose resource is known is forgotten, but by the cancelled expiry task.
THEOREM Remembered == Spec => []SessionsTracked
<1>1. Inv => SessionsTracked
  BY DEF Inv
<1> QED BY <1>1, Invariance, PTL

=============================================================================
