-------------------------- MODULE RoomEventsProofs --------------------------
(* Theorems about RoomEvents for every value of its constants. *)
EXTENDS RoomEvents, FiniteSetTheorems, SequenceTheorems, TLAPS

-----------------------------------------------------------------------------
(* Finite sets of events *)

\* Sets of events are finite, and a part of one is no larger than the whole: what the
\* capacity checks of enqueue() and the LIMIT of due() rest on.
LEMMA EventSets ==
    ASSUME NEW T \in SUBSET Events, NEW S \in SUBSET T
    PROVE  /\ IsFiniteSet(T) /\ IsFiniteSet(S)
           /\ Cardinality(T) \in Nat /\ Cardinality(S) \in Nat
           /\ Cardinality(S) <= Cardinality(T)
<1>1. IsFiniteSet(Events)
  BY FS_Interval, RoomEventsAssumption DEF Events
<1>2. IsFiniteSet(T)
  BY <1>1, FS_Subset
<1>3. IsFiniteSet(S) /\ Cardinality(S) <= Cardinality(T)
  BY <1>2, FS_Subset
<1> QED BY <1>2, <1>3, FS_CardinalityType

\* What ORDER BY seq LIMIT n answers is an initial part of the table.
LEMMA OldestIsInitial ==
    ASSUME NEW S \in SUBSET Events, NEW n \in Nat
    PROVE  /\ Oldest(S, n) \subseteq S
           /\ \A e \in Oldest(S, n), f \in S : f < e => f \in Oldest(S, n)
<1> SUFFICES ASSUME NEW e \in Oldest(S, n), NEW f \in S, f < e
             PROVE  Cardinality({g \in S : g < f}) < n
  BY DEF Oldest
<1> DEFINE Below(x) == {g \in S : g < x}
<1>1. Cardinality(Below(e)) < n
  BY DEF Oldest
<1>2. Below(f) \subseteq Below(e) /\ Below(e) \subseteq Events
  <2>1. e \in Int /\ f \in Int /\ \A g \in S : g \in Int /\ g \in Events
    BY RoomEventsAssumption DEF Oldest, Events
  <2>2. \A g \in S : g < f => g < e
    BY <2>1
  <2> QED BY <2>1, <2>2
<1>3. /\ Cardinality(Below(f)) \in Nat /\ Cardinality(Below(e)) \in Nat
      /\ Cardinality(Below(f)) <= Cardinality(Below(e))
  <2> HIDE DEF Below
  <2> QED BY <1>2, EventSets
<1> QED BY <1>1, <1>3

\* Cutting the first x rows off a table.
LEMMA CutFirst ==
    ASSUME NEW S, NEW s \in Seq(S), NEW x \in 0..Len(s)
    PROVE  /\ SubSeq(s, x + 1, Len(s)) \in Seq(S)
           /\ Len(SubSeq(s, x + 1, Len(s))) = Len(s) - x
           /\ \A i \in 1..(Len(s) - x) : SubSeq(s, x + 1, Len(s))[i] = s[x + i]
<1>1. Len(s) \in Nat /\ x + 1 \in Int /\ Len(s) \in Int
  OBVIOUS
<1>2. \A i \in (x + 1)..Len(s) : s[i] \in S
  <2> TAKE i \in (x + 1)..Len(s)
  <2>1. i \in 1..Len(s)
    BY <1>1
  <2> QED BY <2>1, ElementOfSeq
<1> DEFINE m == x + 1   n == Len(s)
<1>3. /\ SubSeq(s, m, n) \in Seq(S)
      /\ Len(SubSeq(s, m, n)) = IF m <= n THEN n - m + 1 ELSE 0
      /\ \A i \in 1..n - m + 1 : SubSeq(s, m, n)[i] = s[m + i - 1]
  <2>1. m \in Int /\ n \in Int /\ \A i \in m..n : s[i] \in S
    BY <1>1, <1>2
  <2> HIDE DEF m, n
  <2> QED BY <2>1, SubSeqProperties
<1>4. n - m + 1 = n - x /\ (IF m <= n THEN n - m + 1 ELSE 0) = n - x
  BY <1>1
<1>5. \A i \in 1..(n - x) : m + i - 1 = x + i
  BY <1>1
<1> QED BY <1>3, <1>4, <1>5

\* A dead-letter transaction keeps the table within its capacity and forgets no event that
\* it does not count as evicted.
LEMMA DeadLetterTransaction ==
    ASSUME dead \in Seq(Events), Len(dead) <= DeadCapacity, evicted \subseteq Events,
           NEW e \in Events, MoveToDeadLetter(e)
    PROVE  /\ dead' \in Seq(Events) /\ Len(dead') <= DeadCapacity
           /\ evicted' \subseteq Events
           /\ Dead' \cup evicted' = Dead \cup evicted \cup ({e} \cap outbox)
<1> DEFINE moved  == IF e \in outbox \ Dead THEN Append(dead, e) ELSE dead
           x == Len(moved) - DeadCapacity
           In(s) == {s[i] : i \in 1..Len(s)}
<1>1. /\ moved \in Seq(Events) /\ Len(moved) \in Nat /\ Len(dead) \in Nat
      /\ x \in Int /\ x <= Len(moved)
      /\ \A i \in 1..Len(moved) : moved[i] \in Events
  BY RoomEventsAssumption
<1>2. In(moved) = Dead \cup ({e} \cap outbox)
  <2>1. CASE e \in outbox \ Dead
    <3>1. Len(moved) = Len(dead) + 1 /\ moved[Len(dead) + 1] = e
      BY <2>1
    <3>2. \A i \in 1..Len(dead) : moved[i] = dead[i]
      BY <2>1
    <3>3. In(moved) = In(dead) \cup {e}
      <4> HIDE DEF moved
      <4> QED BY <1>1, <3>1, <3>2
    <3> QED BY <3>3, <2>1 DEF Dead
  <2>2. CASE ~(e \in outbox \ Dead)
    BY <2>2 DEF Dead
  <2> QED BY <2>1, <2>2
<1>3. /\ dead' = IF x > 0 THEN SubSeq(moved, x + 1, Len(moved)) ELSE moved
      /\ evicted' = evicted \cup {moved[i] : i \in 1..x}
  BY DEF MoveToDeadLetter, Excess
<1>4. Dead' = In(dead')
  BY DEF Dead
<1> HIDE DEF moved
<1>5. CASE x > 0
  <2>1. /\ dead' \in Seq(Events)
        /\ Len(dead') = Len(moved) - x
        /\ \A i \in 1..(Len(moved) - x) : dead'[i] = moved[x + i]
    <3>1. x \in 0..Len(moved)
      BY <1>1, <1>5
    <3>2. dead' = SubSeq(moved, x + 1, Len(moved))
      BY <1>3, <1>5
    <3> HIDE DEF x
    <3> QED BY <1>1, <3>1, <3>2, CutFirst
  <2>2. Len(dead') <= DeadCapacity
    BY <1>1, <2>1, RoomEventsAssumption
  <2>3. evicted' \subseteq Events
    BY <1>1, <1>3
  <2>4. In(moved) = In(dead') \cup {moved[i] : i \in 1..x}
    <3> HIDE DEF x
    <3>1. ASSUME NEW j \in 1..Len(moved)
          PROVE  j \in 1..x \/ \E i \in 1..(Len(moved) - x) : j = x + i
      <4>1. CASE j <= x
        BY <1>1, <4>1
      <4>2. CASE j > x
        <5>1. j - x \in 1..(Len(moved) - x) /\ j = x + (j - x)
          BY <1>1, <1>5, <4>2
        <5> QED BY <5>1
      <4> QED BY <1>1, <4>1, <4>2
    <3>2. ASSUME NEW v \in In(moved) PROVE v \in In(dead') \cup {moved[i] : i \in 1..x}
      BY <2>1, <3>1, <3>2
    <3>3. ASSUME NEW v \in In(dead') PROVE v \in In(moved)
      <4>1. PICK i \in 1..(Len(moved) - x) : v = moved[x + i]
        BY <2>1, <3>3
      <4>2. x + i \in 1..Len(moved)
        BY <1>1, <1>5, <4>1
      <4> QED BY <4>1, <4>2
    <3>4. ASSUME NEW i \in 1..x PROVE moved[i] \in In(moved)
      <4>1. i \in 1..Len(moved)
        BY <1>1, <1>5
      <4> QED BY <4>1
    <3> QED BY <3>2, <3>3, <3>4
  <2> QED BY <1>2, <1>3, <1>4, <2>1, <2>2, <2>3, <2>4
<1>6. CASE ~(x > 0)
  <2>1. 1..x = {} /\ dead' = moved
    BY <1>1, <1>3, <1>6
  <2>2. evicted' = evicted /\ Len(dead') <= DeadCapacity
    BY <1>1, <1>3, <1>6, <2>1, RoomEventsAssumption
  <2> QED BY <1>1, <1>2, <1>4, <2>1, <2>2
<1> QED BY <1>5, <1>6

-----------------------------------------------------------------------------
(* Types *)

Shapes == TypeOK /\ Traffic

\* The outbox's rows are events, so every set of them has a size.
LEMMA TableSizes ==
    ASSUME TablesOK
    PROVE  /\ promised \subseteq Events /\ outbox \subseteq Events
           /\ Cardinality(outbox) \in Nat /\ IsFiniteSet(outbox)
<1>1. promised \subseteq Events
  <2>1. generated \in Nat /\ generated <= MaxEvents /\ promised \subseteq 1..generated
    BY RoomEventsAssumption DEF TablesOK
  <2>2. 1..generated \subseteq 1..MaxEvents
    BY <2>1, RoomEventsAssumption
  <2> QED BY <2>1, <2>2 DEF Events
<1>2. outbox \subseteq Events
  BY <1>1 DEF TablesOK
<1> QED BY <1>1, <1>2, EventSets

\* Taking rows away keeps the outbox in shape.
LEMMA FewerRows ==
    ASSUME TablesOK, NEW S, DropRows(S)
    PROVE  /\ outbox' \subseteq promised /\ Cardinality(outbox') <= Capacity
           /\ waiting' \subseteq outbox' /\ solo' \subseteq outbox'
<1>1. outbox' \subseteq outbox
  BY DEF DropRows
<1>2. Cardinality(outbox') <= Capacity
  <2>1. outbox \in SUBSET Events
    BY TableSizes
  <2>2. /\ Cardinality(outbox) \in Nat /\ Cardinality(outbox') \in Nat
        /\ Cardinality(outbox') <= Cardinality(outbox)
    BY <1>1, <2>1, EventSets
  <2>3. Cardinality(outbox) <= Capacity /\ Capacity \in Nat
    BY RoomEventsAssumption DEF TablesOK
  <2> QED BY <2>2, <2>3
<1> QED BY <1>1, <1>2 DEF TablesOK, DropRows

\* Every step of the program keeps the tables and messages in shape.
LEMMA ShapesStep == Shapes /\ [Next]_vars => Shapes'
<1> SUFFICES ASSUME TypeOK, Traffic, [Next]_vars
             PROVE  /\ TablesOK' /\ ThreadsOK' /\ MessagesOK' /\ WorldOK' /\ Traffic'
  BY DEF Shapes, TypeOK
<1> USE RoomEventsAssumption
<1>0. /\ TablesOK /\ ThreadsOK /\ MessagesOK /\ WorldOK
      /\ promised \subseteq Events /\ outbox \subseteq Events
      /\ Cardinality(outbox) \in Nat /\ IsFiniteSet(outbox)
  BY TableSizes DEF TypeOK
<1>1. CASE Enqueue
  <2>1. TablesOK'
    <3>1. generated' \in 0..MaxEvents /\ promised' \subseteq 1..generated'
      <4>1. generated' = generated + 1 /\ promised' \subseteq promised \cup {generated + 1}
        BY <1>1 DEF Enqueue
      <4>2. generated \in Nat /\ generated + 1 \in 1..MaxEvents
        BY <1>1, <1>0 DEF TablesOK, Enqueue
      <4>3. 1..generated \cup {generated + 1} \subseteq 1..(generated + 1)
        BY <4>2
      <4> QED BY <1>0, <4>1, <4>2, <4>3 DEF TablesOK
    <3>2. outbox' \subseteq promised'
      BY <1>1, <1>0 DEF TablesOK, Enqueue
    <3>3. Cardinality(outbox') <= Capacity
      <4>1. CASE outbox' = outbox
        BY <4>1, <1>0 DEF TablesOK
      <4>2. CASE outbox' = outbox \cup {generated + 1} /\ Cardinality(outbox) < Capacity
        BY <4>2, <1>0, FS_AddElement
      <4> QED BY <4>1, <4>2, <1>1 DEF Enqueue
    <3> QED BY <3>1, <3>2, <3>3, <1>1, <1>0 DEF TablesOK, Enqueue
  <2>2. ThreadsOK'
    BY <1>1, <1>0 DEF ThreadsOK, TablesOK, Enqueue, Fault, edgeTables, uploader, network, server, world
  <2>3. MessagesOK'
    BY <1>1, <1>0 DEF MessagesOK, ThreadsOK, TablesOK, Enqueue, Fault, edgeTables, uploader, network, server, world
  <2>4. WorldOK'
    BY <1>1, <1>0 DEF WorldOK, Barred, Enqueue, Fault
  <2>5. Traffic'
    BY <1>1, <1>0 DEF Traffic, Dead, ThreadsOK, TablesOK, Enqueue, Fault, edgeTables, uploader, network, server, world
  <2> QED BY <2>1, <2>2, <2>3, <2>4, <2>5
<1>2. CASE Poll
  BY <1>2 DEF TypeOK, TablesOK, ThreadsOK, MessagesOK, WorldOK, Traffic, edgeTables, uploader, network, server, world, Dead, Poll
<1>3. CASE NothingDue
  BY <1>3 DEF TypeOK, TablesOK, ThreadsOK, MessagesOK, WorldOK, Traffic, edgeTables, uploader, network, server, world, Dead, NothingDue
<1>4. CASE Post
  <2>1. batch' \subseteq outbox /\ posts' \in Nat /\ pc' = "posting"
    BY <1>4, RoomEventsAssumption DEF Post, Oldest, Tickets
  <2>2. UNCHANGED <<generated, promised, outbox, waiting, solo, dead, evicted, session,
                    answer, reply, txs, rows, placed, outside, everBarred, changes,
                    faults, restarts>>
    BY <1>4 DEF Post, edgeTables, server, world
  <2>3. wire' = wire \cup {[no |-> posts', events |-> batch']}
    BY <1>4 DEF Post
  <2>4. answer = NoAnswer
    BY <1>4 DEF Post, Traffic
  <2>5. TablesOK' /\ WorldOK'
    BY <1>0, <2>2 DEF TablesOK, WorldOK
  <2>6. ThreadsOK'
    BY <1>0, <2>1, <2>2, <2>4 DEF ThreadsOK, TablesOK, NoAnswer
  <2>7. MessagesOK'
    BY <1>0, <2>1, <2>2, <2>3 DEF MessagesOK, Request
  <2>8. Traffic'
    <3>1. batch' \subseteq promised
      BY <1>0, <2>1 DEF TablesOK
    <3>2. \A r \in wire' : r.events \subseteq promised
      BY <1>0, <2>3, <3>1 DEF Traffic
    <3> QED BY <1>4, <2>1, <2>2, <2>4, <3>2 DEF Traffic, Dead, Post
  <2> QED BY <2>5, <2>6, <2>7, <2>8
<1>5. CASE ReadUnavailable
  BY <1>5 DEF TypeOK, TablesOK, ThreadsOK, MessagesOK, WorldOK, Traffic, edgeTables, uploader, network, server, world, Dead, ReadUnavailable, AllMissing, NoAnswer, NoReply
<1>6. CASE ReadInvalid
  <2>1. TablesOK'
    BY <1>6, <1>0 DEF TablesOK, ThreadsOK, ReadInvalid, Many, NoAnswer, NoReply, edgeTables, uploader, network, server, world
  <2>2. ThreadsOK'
    BY <1>6, <1>0 DEF ThreadsOK, TablesOK, ReadInvalid, Many, NoAnswer, NoReply, edgeTables, uploader, network, server, world
  <2>3. MessagesOK'
    BY <1>6, <1>0 DEF MessagesOK, ThreadsOK, TablesOK, ReadInvalid, Many, NoAnswer, NoReply, edgeTables, uploader, network, server, world
  <2>4. WorldOK'
    BY <1>6, <1>0 DEF WorldOK, TablesOK, ReadInvalid, Many, NoAnswer, NoReply, edgeTables, uploader, network, server, world
  <2>5. Traffic'
    BY <1>6, <1>0 DEF Traffic, Dead, ThreadsOK, TablesOK, ReadInvalid, Many, NoAnswer, NoReply, edgeTables, uploader, network, server, world
  <2> QED BY <2>1, <2>2, <2>3, <2>4, <2>5
<1>7. CASE ReadResults
  BY <1>7 DEF TypeOK, TablesOK, ThreadsOK, MessagesOK, WorldOK, Traffic, edgeTables, uploader, network, server, world, Dead, ReadResults, Sorted, NoReply
<1>8. CASE Split
  <2>1. TablesOK'
    BY <1>8, <1>0 DEF TablesOK, Traffic, Split, Flagged
  <2>2. ThreadsOK'
    BY <1>8, <1>0 DEF ThreadsOK, Traffic, Split, NoAnswer
  <2>3. MessagesOK'
    BY <1>8, <1>0 DEF MessagesOK, ThreadsOK, TablesOK, Split, Flagged, NoAnswer, edgeTables, uploader, network, server, world
  <2>4. WorldOK'
    BY <1>8, <1>0 DEF WorldOK, TablesOK, Split, Flagged, NoAnswer, edgeTables, uploader, network, server, world
  <2>5. Traffic'
    BY <1>8, <1>0 DEF Traffic, Dead, ThreadsOK, TablesOK, Split, Flagged, NoAnswer, edgeTables, uploader, network, server, world
  <2> QED BY <2>1, <2>2, <2>3, <2>4, <2>5
<1>9. CASE DeadLetter
  <2>1. PICK e \in answer.refused :
            /\ answer' = [answer EXCEPT !.refused = @ \ {e}]
            /\ IF Open THEN MoveToDeadLetter(e) ELSE UNCHANGED edgeTables
    BY <1>9 DEF DeadLetter
  <2>2. /\ pc = "settling"
        /\ UNCHANGED <<generated, promised, session, pc, batch, posts, wire, reply, txs,
                       rows, placed, outside, everBarred, changes, faults, restarts>>
    BY <1>9 DEF DeadLetter, network, server, world
  <2>3. e \in Events /\ e \in promised
    BY <1>0 DEF ThreadsOK
  <2>4. TablesOK' /\ Dead' \cup evicted' \subseteq promised
    <3>1. CASE Open
      <4>1. /\ dead' \in Seq(Events) /\ Len(dead') <= DeadCapacity
            /\ evicted' \subseteq Events
            /\ Dead' \cup evicted' = Dead \cup evicted \cup ({e} \cap outbox)
        BY <1>0, <2>1, <2>3, <3>1, DeadLetterTransaction DEF TablesOK
      <4>2. DropRows({e})
        BY <2>1, <3>1 DEF MoveToDeadLetter
      <4>3. /\ outbox' \subseteq promised /\ Cardinality(outbox') <= Capacity
            /\ waiting' \subseteq outbox' /\ solo' \subseteq outbox'
        BY <1>0, <4>2, FewerRows
      <4>4. Dead \cup evicted \subseteq promised
        BY DEF Traffic
      <4> QED BY <1>0, <2>2, <2>3, <4>1, <4>3, <4>4 DEF TablesOK
    <3>2. CASE ~Open
      BY <1>0, <2>1, <2>2, <3>2 DEF TablesOK, Traffic, edgeTables, Dead
    <3> QED BY <3>1, <3>2
  <2>5. ThreadsOK'
    BY <1>0, <2>1, <2>2 DEF ThreadsOK
  <2>6. MessagesOK' /\ WorldOK'
    BY <1>0, <2>2 DEF MessagesOK, WorldOK
  <2>7. Traffic'
    BY <1>0, <2>2, <2>4 DEF Traffic, ThreadsOK
  <2> QED BY <2>4, <2>5, <2>6, <2>7
<1>10. CASE Remove
  <2>1. TablesOK'
    <3>1. CASE Open
      <4>1. DropRows(answer.acked) /\ UNCHANGED <<generated, promised, dead, evicted>>
        BY <1>10, <3>1 DEF Remove
      <4> QED BY <1>0, <4>1, FewerRows DEF TablesOK
    <3>2. CASE ~Open
      BY <1>10, <1>0, <3>2 DEF TablesOK, Remove
    <3> QED BY <3>1, <3>2
  <2>2. ThreadsOK'
    BY <1>10, <1>0 DEF ThreadsOK, TablesOK, Remove, DropRows, edgeTables, uploader, network, server, world
  <2>3. MessagesOK'
    BY <1>10, <1>0 DEF MessagesOK, ThreadsOK, TablesOK, Remove, DropRows, edgeTables, uploader, network, server, world
  <2>4. WorldOK'
    BY <1>10, <1>0 DEF WorldOK, TablesOK, Remove, DropRows, edgeTables, uploader, network, server, world
  <2>5. Traffic'
    BY <1>10, <1>0 DEF Traffic, Dead, ThreadsOK, TablesOK, Remove, DropRows, edgeTables, uploader, network, server, world
  <2> QED BY <2>1, <2>2, <2>3, <2>4, <2>5
<1>11. CASE Defer
  BY <1>11 DEF TypeOK, TablesOK, ThreadsOK, MessagesOK, WorldOK, Traffic, edgeTables, uploader, network, server, world, Dead, Defer, NoAnswer
<1>12. CASE Elapse
  BY <1>12 DEF TypeOK, TablesOK, ThreadsOK, MessagesOK, WorldOK, Traffic, edgeTables, uploader, network, server, world, Dead, Elapse
<1>13. CASE Stop
  BY <1>13 DEF TypeOK, TablesOK, ThreadsOK, MessagesOK, WorldOK, Traffic, edgeTables, uploader, network, server, world, Dead, Stop
<1>14. CASE Close
  BY <1>14 DEF TypeOK, TablesOK, ThreadsOK, MessagesOK, WorldOK, Traffic, edgeTables, uploader, network, server, world, Dead, Close
<1>15. CASE Exit
  BY <1>15 DEF TypeOK, TablesOK, ThreadsOK, MessagesOK, WorldOK, Traffic, edgeTables, uploader, network, server, world, Dead, Exit, NoAnswer, NoReply
<1>16. CASE Restart
  BY <1>16 DEF TypeOK, TablesOK, ThreadsOK, MessagesOK, WorldOK, Traffic, edgeTables, uploader, network, server, world, Dead, Restart
<1>17. CASE RefuseRequest
  BY <1>17 DEF TypeOK, TablesOK, ThreadsOK, MessagesOK, WorldOK, Traffic, edgeTables, uploader, network, server, world, Dead, RefuseRequest, Answer, Invalid
<1>18. CASE BeginIngest
  BY <1>18 DEF TypeOK, TablesOK, ThreadsOK, MessagesOK, WorldOK, Traffic, edgeTables, uploader, network, server, world, Dead, BeginIngest, Tx, Request
<1>19. CASE CommitIngest
  <2>1. TablesOK'
    BY <1>19, <1>0 DEF TablesOK, ThreadsOK, CommitIngest, Answer, InsertRow, Tx, edgeTables, uploader, network, server, world
  <2>2. ThreadsOK'
    BY <1>19, <1>0 DEF ThreadsOK, TablesOK, CommitIngest, Answer, InsertRow, Tx, edgeTables, uploader, network, server, world
  <2>3. MessagesOK'
    BY <1>19, <1>0 DEF MessagesOK, ThreadsOK, TablesOK, CommitIngest, Answer, InsertRow, Tx, edgeTables, uploader, network, server, world
  <2>4. WorldOK'
    BY <1>19, <1>0 DEF WorldOK, TablesOK, CommitIngest, Answer, InsertRow, Tx, edgeTables, uploader, network, server, world
  <2>5. Traffic'
    BY <1>19, <1>0 DEF Traffic, Dead, ThreadsOK, TablesOK, CommitIngest, Answer, InsertRow, Tx, edgeTables, uploader, network, server, world
  <2> QED BY <2>1, <2>2, <2>3, <2>4, <2>5
<1>20. CASE PostFails
  <2>1. TablesOK'
    BY <1>20, <1>0 DEF TablesOK, ThreadsOK, PostFails, AllMissing, NoAnswer, NoReply, Fault, edgeTables, uploader, network, server, world
  <2>2. ThreadsOK'
    BY <1>20, <1>0 DEF ThreadsOK, TablesOK, PostFails, AllMissing, NoAnswer, NoReply, Fault, edgeTables, uploader, network, server, world
  <2>3. MessagesOK'
    BY <1>20, <1>0 DEF MessagesOK, ThreadsOK, TablesOK, PostFails, AllMissing, NoAnswer, NoReply, Fault, edgeTables, uploader, network, server, world
  <2>4. WorldOK'
    BY <1>20, <1>0 DEF WorldOK, TablesOK, PostFails, AllMissing, NoAnswer, NoReply, Fault, edgeTables, uploader, network, server, world
  <2>5. Traffic'
    BY <1>20, <1>0 DEF Traffic, Dead, ThreadsOK, TablesOK, PostFails, AllMissing, NoAnswer, NoReply, Fault, edgeTables, uploader, network, server, world
  <2> QED BY <2>1, <2>2, <2>3, <2>4, <2>5
<1>21. CASE StorageFault
  <2>1. TablesOK'
    <3>1. UNCHANGED <<generated, promised, dead, evicted>>
      BY <1>21 DEF StorageFault
    <3>2. CASE \E S \in SUBSET answer.acked : DropRows(S)
      BY <1>0, <3>1, <3>2, FewerRows DEF TablesOK
    <3>3. CASE UNCHANGED <<outbox, waiting, solo>>
      BY <1>0, <3>1, <3>3 DEF TablesOK
    <3>4. CASE /\ pc = "splitting" /\ UNCHANGED outbox
               /\ \E n \in 0..Cardinality(batch) :
                    /\ solo' = solo \cup Oldest(batch, n)
                    /\ waiting' = waiting \ Oldest(batch, n)
      BY <1>0, <3>1, <3>4 DEF TablesOK, Traffic, Oldest
    <3>5. CASE /\ UNCHANGED <<outbox, solo>>
               /\ \E n \in 0..Cardinality(answer.missing) :
                    waiting' = waiting \cup (Oldest(answer.missing, n) \cap outbox)
      BY <1>0, <3>1, <3>5 DEF TablesOK
    <3> QED BY <1>21, <3>2, <3>3, <3>4, <3>5 DEF StorageFault
  <2>2. ThreadsOK'
    BY <1>21, <1>0 DEF ThreadsOK, TablesOK, StorageFault, Fault, DropRows, NoAnswer, edgeTables, uploader, network, server, world
  <2>3. MessagesOK'
    BY <1>21, <1>0 DEF MessagesOK, ThreadsOK, TablesOK, StorageFault, Fault, DropRows, NoAnswer, edgeTables, uploader, network, server, world
  <2>4. WorldOK'
    BY <1>21, <1>0 DEF WorldOK, TablesOK, StorageFault, Fault, DropRows, NoAnswer, edgeTables, uploader, network, server, world
  <2>5. Traffic'
    BY <1>21, <1>0 DEF Traffic, Dead, ThreadsOK, TablesOK, StorageFault, Fault, DropRows, NoAnswer, edgeTables, uploader, network, server, world
  <2> QED BY <2>1, <2>2, <2>3, <2>4, <2>5
<1>22. CASE DeclineRequest
  BY <1>22 DEF TypeOK, TablesOK, ThreadsOK, MessagesOK, WorldOK, Traffic, edgeTables, uploader, network, server, world, Dead, DeclineRequest, Fault, Answer, Decline
<1>23. CASE AbortIngest
  BY <1>23 DEF TypeOK, TablesOK, ThreadsOK, MessagesOK, WorldOK, Traffic, edgeTables, uploader, network, server, world, Dead, AbortIngest, Fault, Answer, Decline
<1>24. CASE TruncateReply
  <2>1. TablesOK'
    BY <1>24, <1>0 DEF TablesOK, ThreadsOK, TruncateReply, Fault, edgeTables, uploader, network, server, world
  <2>2. ThreadsOK'
    BY <1>24, <1>0 DEF ThreadsOK, TablesOK, TruncateReply, Fault, edgeTables, uploader, network, server, world
  <2>3. MessagesOK'
    <3>1. PICK S \in SUBSET batch \ {{}} :
              reply' = [reply EXCEPT !.acked = @ \ S, !.refused = @ \ S]
      BY <1>24 DEF TruncateReply
    <3>2. UNCHANGED <<posts, wire, txs, rows>>
      BY <1>24 DEF TruncateReply, server
    <3>3. reply' \in [kind : {"none", "unavailable", "invalid", "results"},
                      acked : SUBSET Events, refused : SUBSET Events]
      BY <1>0, <3>1 DEF MessagesOK
    <3> QED BY <1>0, <3>2, <3>3 DEF MessagesOK
  <2>4. WorldOK'
    BY <1>24, <1>0 DEF WorldOK, TablesOK, TruncateReply, Fault, edgeTables, uploader, network, server, world
  <2>5. Traffic'
    <3>1. pc = "posting"
      BY <1>24, <1>0 DEF Traffic, TruncateReply, NoReply
    <3>2. pc' = "posting" /\ UNCHANGED <<wire, posts, txs, promised, dead, evicted, answer, session, batch, outbox>>
      BY <1>24, <3>1 DEF TruncateReply, edgeTables, uploader, server
    <3>3. Dead' = Dead
      BY <3>2 DEF Dead
    <3> QED BY <1>0, <3>1, <3>2, <3>3 DEF Traffic
  <2> QED BY <2>1, <2>2, <2>3, <2>4, <2>5
<1>25. CASE Reassign
  <2>1. TablesOK'
    BY <1>25, <1>0 DEF TablesOK, ThreadsOK, Reassign, Barred, edgeTables, uploader, network, server, world
  <2>2. ThreadsOK'
    BY <1>25, <1>0 DEF ThreadsOK, TablesOK, Reassign, Barred, edgeTables, uploader, network, server, world
  <2>3. MessagesOK'
    BY <1>25, <1>0 DEF MessagesOK, ThreadsOK, TablesOK, Reassign, Barred, edgeTables, uploader, network, server, world
  <2>4. WorldOK'
    <3>1. 1..generated \subseteq Events
      BY <1>0 DEF TablesOK, Events
    <3> QED BY <1>25, <1>0, <3>1 DEF WorldOK, Reassign
  <2>5. Traffic'
    BY <1>25, <1>0 DEF Traffic, Dead, ThreadsOK, TablesOK, Reassign, Barred, edgeTables, uploader, network, server, world
  <2> QED BY <2>1, <2>2, <2>3, <2>4, <2>5
<1>26. CASE WindowMoves
  <2>1. TablesOK'
    BY <1>26, <1>0 DEF TablesOK, ThreadsOK, WindowMoves, edgeTables, uploader, network, server, world
  <2>2. ThreadsOK'
    BY <1>26, <1>0 DEF ThreadsOK, TablesOK, WindowMoves, edgeTables, uploader, network, server, world
  <2>3. MessagesOK'
    BY <1>26, <1>0 DEF MessagesOK, ThreadsOK, TablesOK, WindowMoves, edgeTables, uploader, network, server, world
  <2>4. WorldOK'
    <3>1. 1..generated \subseteq Events
      BY <1>0 DEF TablesOK, Events
    <3> QED BY <1>26, <1>0, <3>1 DEF WorldOK, WindowMoves
  <2>5. Traffic'
    BY <1>26, <1>0 DEF Traffic, Dead, ThreadsOK, TablesOK, WindowMoves, edgeTables, uploader, network, server, world
  <2> QED BY <2>1, <2>2, <2>3, <2>4, <2>5
<1>27. CASE UNCHANGED vars
  BY <1>27 DEF TypeOK, TablesOK, ThreadsOK, MessagesOK, WorldOK, Traffic, edgeTables, uploader, network, server, world, Dead, vars
<1> QED BY <1>1, <1>2, <1>3, <1>4, <1>5, <1>6, <1>7, <1>8, <1>9, <1>10, <1>11, <1>12, <1>13, <1>14, <1>15, <1>16, <1>17, <1>18, <1>19, <1>20, <1>21, <1>22, <1>23, <1>24, <1>25, <1>26, <1>27 DEF Next, Deliver, Ingest, Trouble

\* An agent that starts with empty tables has them in shape.
LEMMA ShapesInit == Init => Shapes
<1> SUFFICES ASSUME Init PROVE Shapes
  OBVIOUS
<1>1. Cardinality(outbox) <= Capacity
  BY FS_EmptySet, RoomEventsAssumption DEF Init
<1>2. dead \in Seq(Events) /\ Len(dead) <= DeadCapacity /\ Dead = {}
  BY RoomEventsAssumption DEF Init, Dead
<1>3. TablesOK /\ ThreadsOK
  BY <1>1, <1>2, RoomEventsAssumption DEF Init, TablesOK, ThreadsOK, NoAnswer
<1>4. MessagesOK /\ WorldOK /\ Traffic
  BY <1>2 DEF Init, MessagesOK, WorldOK, Traffic, NoReply
<1> QED BY <1>3, <1>4 DEF Shapes, TypeOK

\* Tables, threads and messages keep their shapes, the outbox and the dead-letter table
\* their capacities, in every run.
THEOREM TypeCorrect == Spec => []TypeOK
<1>1. Spec => []Shapes
  BY ShapesInit, ShapesStep, PTL DEF Spec
<1>2. Shapes => TypeOK
  BY DEF Shapes
<1> QED BY <1>1, <1>2, PTL

-----------------------------------------------------------------------------
(* Nothing is lost *)

Kept == AnswersHold /\ NothingLost /\ OneHome

\* What a step may do to the two tables: rows leave the outbox for good only into the
\* dead-letter table, or with a row on the server.
LEMMA KeptStep == Shapes /\ Kept /\ [Next]_vars => Kept'
<1> SUFFICES ASSUME Shapes, Kept, [Next]_vars
             PROVE  AnswersHold' /\ NothingLost' /\ OneHome'
  BY DEF Kept
<1>0. /\ TablesOK /\ ThreadsOK /\ MessagesOK /\ Traffic
      /\ AnswersHold /\ NothingLost /\ OneHome
      /\ promised \subseteq Events /\ outbox \subseteq Events
  BY TableSizes DEF Kept, Shapes, TypeOK
<1>1. CASE Enqueue
  <2>1. /\ \/ UNCHANGED <<outbox, promised>>
           \/ /\ outbox' = outbox \cup {generated + 1}
              /\ promised' = promised \cup {generated + 1}
        /\ UNCHANGED <<dead, evicted, reply, answer, rows>>
    BY <1>1 DEF Enqueue, uploader, network, server
  <2>2. generated + 1 \notin promised
    BY <1>0 DEF TablesOK
  <2>3. Dead \cup evicted \subseteq promised /\ Dead' = Dead /\ Stored' = Stored
    BY <1>0, <2>1 DEF Traffic, Dead, Stored
  <2> QED BY <1>0, <2>1, <2>2, <2>3 DEF AnswersHold, NothingLost, OneHome
<1>2. CASE Poll
  BY <1>0, <1>2 DEF AnswersHold, NothingLost, OneHome, Stored, Dead, Traffic, edgeTables, uploader, network, server, world, Poll
<1>3. CASE NothingDue
  BY <1>0, <1>3 DEF AnswersHold, NothingLost, OneHome, Stored, Dead, Traffic, edgeTables, uploader, network, server, world, NothingDue
<1>4. CASE Post
  BY <1>0, <1>4 DEF AnswersHold, NothingLost, OneHome, Stored, Dead, Traffic, edgeTables, uploader, network, server, world, Post
<1>5. CASE ReadUnavailable
  BY <1>0, <1>5 DEF AnswersHold, NothingLost, OneHome, Stored, Dead, Traffic, edgeTables, uploader, network, server, world, ReadUnavailable, AllMissing, NoAnswer, NoReply
<1>6. CASE ReadInvalid
  BY <1>0, <1>6 DEF AnswersHold, NothingLost, OneHome, Stored, Dead, Traffic, edgeTables, uploader, network, server, world, ReadInvalid, NoAnswer, NoReply
<1>7. CASE ReadResults
  BY <1>0, <1>7 DEF AnswersHold, NothingLost, OneHome, Stored, Dead, Traffic, edgeTables, uploader, network, server, world, ReadResults, Sorted, NoReply, MessagesOK
<1>8. CASE Split
  BY <1>0, <1>8 DEF AnswersHold, NothingLost, OneHome, Stored, Dead, Traffic, edgeTables, uploader, network, server, world, Split
<1>9. CASE DeadLetter
  <2>1. PICK e \in answer.refused :
            /\ answer' = [answer EXCEPT !.refused = @ \ {e}]
            /\ IF Open THEN MoveToDeadLetter(e) ELSE UNCHANGED edgeTables
    BY <1>9 DEF DeadLetter
  <2>2. UNCHANGED <<promised, reply, rows>> /\ answer'.acked = answer.acked
    BY <1>0, <1>9, <2>1 DEF DeadLetter, network, server, ThreadsOK
  <2>3. Stored' = Stored /\ AnswersHold'
    BY <1>0, <2>2 DEF AnswersHold, Stored
  <2>4. e \in Events
    BY <1>0 DEF ThreadsOK
  <2>5. CASE Open
    <3>1. Dead' \cup evicted' = Dead \cup evicted \cup ({e} \cap outbox)
      BY <1>0, <2>1, <2>4, <2>5, DeadLetterTransaction DEF TablesOK
    <3>2. outbox' = outbox \ {e}
      BY <2>1, <2>5 DEF MoveToDeadLetter, DropRows
    <3> QED BY <1>0, <2>2, <2>3, <3>1, <3>2 DEF NothingLost, OneHome
  <2>6. CASE ~Open
    BY <1>0, <2>1, <2>2, <2>3, <2>6 DEF NothingLost, OneHome, edgeTables, Dead
  <2> QED BY <2>5, <2>6
<1>10. CASE Remove
  BY <1>0, <1>10 DEF AnswersHold, NothingLost, OneHome, Stored, Dead, Traffic, edgeTables, uploader, network, server, world, Remove, DropRows
<1>11. CASE Defer
  BY <1>0, <1>11 DEF AnswersHold, NothingLost, OneHome, Stored, Dead, Traffic, edgeTables, uploader, network, server, world, Defer, NoAnswer
<1>12. CASE Elapse
  BY <1>0, <1>12 DEF AnswersHold, NothingLost, OneHome, Stored, Dead, Traffic, edgeTables, uploader, network, server, world, Elapse
<1>13. CASE Stop
  BY <1>0, <1>13 DEF AnswersHold, NothingLost, OneHome, Stored, Dead, Traffic, edgeTables, uploader, network, server, world, Stop
<1>14. CASE Close
  BY <1>0, <1>14 DEF AnswersHold, NothingLost, OneHome, Stored, Dead, Traffic, edgeTables, uploader, network, server, world, Close
<1>15. CASE Exit
  BY <1>0, <1>15 DEF AnswersHold, NothingLost, OneHome, Stored, Dead, Traffic, edgeTables, uploader, network, server, world, Exit, NoAnswer, NoReply
<1>16. CASE Restart
  BY <1>0, <1>16 DEF AnswersHold, NothingLost, OneHome, Stored, Dead, Traffic, edgeTables, uploader, network, server, world, Restart
<1>17. CASE RefuseRequest
  BY <1>0, <1>17 DEF AnswersHold, NothingLost, OneHome, Stored, Dead, Traffic, edgeTables, uploader, network, server, world, RefuseRequest, Answer, Invalid
<1>18. CASE BeginIngest
  BY <1>0, <1>18 DEF AnswersHold, NothingLost, OneHome, Stored, Dead, Traffic, edgeTables, uploader, network, server, world, BeginIngest
<1>19. CASE CommitIngest
  BY <1>0, <1>19 DEF AnswersHold, NothingLost, OneHome, Stored, Dead, Traffic, edgeTables, uploader, network, server, world, CommitIngest, Answer, InsertRow, Tx, MessagesOK
<1>20. CASE PostFails
  BY <1>0, <1>20 DEF AnswersHold, NothingLost, OneHome, Stored, Dead, Traffic, edgeTables, uploader, network, server, world, PostFails, AllMissing, NoAnswer, NoReply
<1>21. CASE StorageFault
  BY <1>0, <1>21 DEF AnswersHold, NothingLost, OneHome, Stored, Dead, Traffic, edgeTables, uploader, network, server, world, StorageFault, DropRows, NoAnswer
<1>22. CASE DeclineRequest
  BY <1>0, <1>22 DEF AnswersHold, NothingLost, OneHome, Stored, Dead, Traffic, edgeTables, uploader, network, server, world, DeclineRequest, Answer, Decline
<1>23. CASE AbortIngest
  BY <1>0, <1>23 DEF AnswersHold, NothingLost, OneHome, Stored, Dead, Traffic, edgeTables, uploader, network, server, world, AbortIngest, Answer, Decline
<1>24. CASE TruncateReply
  BY <1>0, <1>24 DEF AnswersHold, NothingLost, OneHome, Stored, Dead, Traffic, edgeTables, uploader, network, server, world, TruncateReply, MessagesOK
<1>25. CASE Reassign
  BY <1>0, <1>25 DEF AnswersHold, NothingLost, OneHome, Stored, Dead, Traffic, edgeTables, uploader, network, server, world, Reassign
<1>26. CASE WindowMoves
  BY <1>0, <1>26 DEF AnswersHold, NothingLost, OneHome, Stored, Dead, Traffic, edgeTables, uploader, network, server, world, WindowMoves
<1>27. CASE UNCHANGED vars
  BY <1>0, <1>27 DEF AnswersHold, NothingLost, OneHome, Stored, Dead, Traffic, edgeTables, uploader, network, server, world, vars
<1> QED BY <1>1, <1>2, <1>3, <1>4, <1>5, <1>6, <1>7, <1>8, <1>9, <1>10, <1>11, <1>12, <1>13, <1>14, <1>15, <1>16, <1>17, <1>18, <1>19, <1>20, <1>21, <1>22, <1>23, <1>24, <1>25, <1>26, <1>27 DEF Next, Deliver, Ingest, Trouble

\* Nothing is promised and nothing answered at the start.
LEMMA KeptInit == Init => Kept
BY DEF Init, Kept, AnswersHold, NothingLost, OneHome, NoReply, NoAnswer, Dead

\* The outbox keeps its promise for every number of events, every capacity and every
\* sequence of faults, crashes and reassignments: no persisted event is lost, and none is
\* at once queued and dead-lettered.
THEOREM Lossless == Spec => [](NothingLost /\ OneHome)
<1>1. Init => Shapes /\ Kept
  BY ShapesInit, KeptInit
<1>2. Shapes /\ Kept /\ [Next]_vars => Shapes' /\ Kept'
  BY ShapesStep, KeptStep
<1>3. Kept => NothingLost /\ OneHome
  BY DEF Kept
<1> QED BY <1>1, <1>2, <1>3, PTL DEF Spec

-----------------------------------------------------------------------------
(* One row per event *)

\* A retry, or a request the client has given up on, never makes a second row.
THEOREM RowsUnique == Spec => []OneRowPerEvent
<1> DEFINE Rows == rows \in [Events -> {0, 1}]
<1>1. Init => Rows
  BY DEF Init
<1>2. Rows /\ [Next]_vars => Rows'
  <2> SUFFICES ASSUME Rows, [Next]_vars PROVE Rows'
    OBVIOUS
  <2>1. CASE CommitIngest
    BY <2>1 DEF CommitIngest, InsertRow
  <2>2. CASE UNCHANGED rows
    BY <2>2
  <2>3. Next => CommitIngest \/ UNCHANGED rows
    BY DEF Next, Deliver, Ingest, Trouble, server, Enqueue, Poll, NothingDue, Post,
           ReadUnavailable, ReadInvalid, ReadResults, Split, DeadLetter, Remove, Defer,
           Elapse, Stop, Close, Exit, Restart, RefuseRequest, BeginIngest, PostFails,
           StorageFault, DeclineRequest, AbortIngest, TruncateReply, Reassign, WindowMoves
  <2> QED BY <2>1, <2>2, <2>3 DEF vars, server
<1>3. Rows => OneRowPerEvent
  BY DEF OneRowPerEvent
<1> QED BY <1>1, <1>2, <1>3, PTL DEF Spec

-----------------------------------------------------------------------------
(* A refused batch is taken apart for good *)

Alone == InOrder /\ RefusedTravelsAlone

\* Every step leaves the flagged rows and the request in hand initial parts of the outbox:
\* rows leave it anywhere, but new ones join at its end and flags start at its head.
LEMMA AloneStep == Shapes /\ Alone /\ [Next]_vars => Alone'
<1> SUFFICES ASSUME Shapes, Alone, [Next]_vars
             PROVE  InOrder' /\ RefusedTravelsAlone'
  BY DEF Alone
<1>0. /\ TablesOK /\ ThreadsOK /\ MessagesOK /\ Traffic
      /\ InOrder /\ RefusedTravelsAlone
      /\ promised \subseteq Events /\ outbox \subseteq Events
  BY TableSizes DEF Alone, Shapes, TypeOK
<1>1. CASE Enqueue
  <2>1. /\ outbox' = outbox \/ outbox' = outbox \cup {generated + 1}
        /\ UNCHANGED <<solo, pc, batch>>
    BY <1>1 DEF Enqueue, uploader
  <2>2. \A e \in outbox : ~(generated + 1 < e)
    BY <1>0 DEF TablesOK
  <2>3. Initial(solo, outbox')
    BY <1>0, <2>1, <2>2 DEF InOrder, Initial
  <2>4. pc \in {"posting", "splitting"} => Initial(batch, outbox')
    BY <1>0, <2>1, <2>2 DEF InOrder, Initial
  <2> QED BY <1>0, <2>1, <2>3, <2>4 DEF InOrder, RefusedTravelsAlone
<1>2. CASE Poll
  BY <1>0, <1>2 DEF InOrder, Initial, RefusedTravelsAlone, edgeTables, uploader, Poll
<1>3. CASE NothingDue
  BY <1>0, <1>3 DEF InOrder, Initial, RefusedTravelsAlone, edgeTables, uploader, NothingDue
<1>4. CASE Post
  <2>1. PICK head \in outbox \ waiting :
            /\ IsHead(head, outbox)
            /\ batch' = IF head \in solo THEN {head} ELSE Oldest(outbox, BatchSize)
    BY <1>4 DEF Post
  <2>2. UNCHANGED <<outbox, solo>>
    BY <1>4 DEF Post, edgeTables
  <2>3. \A e \in outbox : e \in Int /\ head <= e
    BY <1>0, <2>1, RoomEventsAssumption DEF IsHead, Events
  <2>4. CASE head \in solo
    <3>1. batch' = {head}
      BY <2>1, <2>4
    <3>2. Initial(batch', outbox)
      BY <2>1, <2>3, <3>1 DEF Initial
    <3> QED BY <1>0, <2>2, <2>4, <3>1, <3>2 DEF InOrder, RefusedTravelsAlone
  <2>5. CASE head \notin solo
    <3>1. solo = {}
      <4> SUFFICES ASSUME NEW e \in solo PROVE FALSE
        OBVIOUS
      <4>1. e \in outbox /\ head < e
        BY <1>0, <2>3, <2>5 DEF InOrder, Initial
      <4> QED BY <1>0, <2>1, <2>5, <4>1 DEF InOrder, Initial
    <3>2. batch' = Oldest(outbox, BatchSize) /\ BatchSize \in Nat
      BY <2>1, <2>5, RoomEventsAssumption
    <3>3. Initial(batch', outbox)
      BY <1>0, <3>2, OldestIsInitial DEF Initial
    <3> QED BY <1>0, <2>2, <3>1, <3>3 DEF InOrder, RefusedTravelsAlone
  <2> QED BY <2>4, <2>5
<1>5. CASE ReadUnavailable
  BY <1>0, <1>5 DEF InOrder, Initial, RefusedTravelsAlone, edgeTables, uploader, ReadUnavailable
<1>6. CASE ReadInvalid
  BY <1>0, <1>6 DEF InOrder, Initial, RefusedTravelsAlone, edgeTables, uploader, ReadInvalid
<1>7. CASE ReadResults
  BY <1>0, <1>7 DEF InOrder, Initial, RefusedTravelsAlone, edgeTables, uploader, ReadResults
<1>8. CASE Split
  BY <1>0, <1>8 DEF InOrder, Initial, RefusedTravelsAlone, edgeTables, uploader, Split, Flagged
<1>9. CASE DeadLetter
  BY <1>0, <1>9 DEF InOrder, Initial, RefusedTravelsAlone, edgeTables, uploader, DeadLetter, MoveToDeadLetter, DropRows, ThreadsOK
<1>10. CASE Remove
  BY <1>0, <1>10 DEF InOrder, Initial, RefusedTravelsAlone, edgeTables, uploader, Remove, DropRows
<1>11. CASE Defer
  BY <1>0, <1>11 DEF InOrder, Initial, RefusedTravelsAlone, edgeTables, uploader, Defer
<1>12. CASE Elapse
  BY <1>0, <1>12 DEF InOrder, Initial, RefusedTravelsAlone, edgeTables, uploader, Elapse
<1>13. CASE Stop
  BY <1>0, <1>13 DEF InOrder, Initial, RefusedTravelsAlone, edgeTables, uploader, Stop
<1>14. CASE Close
  BY <1>0, <1>14 DEF InOrder, Initial, RefusedTravelsAlone, edgeTables, uploader, Close
<1>15. CASE Exit
  BY <1>0, <1>15 DEF InOrder, Initial, RefusedTravelsAlone, edgeTables, uploader, Exit
<1>16. CASE Restart
  BY <1>0, <1>16 DEF InOrder, Initial, RefusedTravelsAlone, edgeTables, uploader, Restart
<1>17. CASE RefuseRequest
  BY <1>0, <1>17 DEF InOrder, Initial, RefusedTravelsAlone, edgeTables, uploader, RefuseRequest
<1>18. CASE BeginIngest
  BY <1>0, <1>18 DEF InOrder, Initial, RefusedTravelsAlone, edgeTables, uploader, BeginIngest
<1>19. CASE CommitIngest
  BY <1>0, <1>19 DEF InOrder, Initial, RefusedTravelsAlone, edgeTables, uploader, CommitIngest
<1>20. CASE PostFails
  BY <1>0, <1>20 DEF InOrder, Initial, RefusedTravelsAlone, edgeTables, uploader, PostFails
<1>21. CASE StorageFault
  <2>1. pc' = "idle"
    BY <1>21 DEF StorageFault
  <2>2. CASE UNCHANGED <<outbox, solo>>
    BY <1>0, <2>1, <2>2 DEF InOrder, RefusedTravelsAlone
  <2>3. CASE \E S \in SUBSET answer.acked : DropRows(S)
    BY <1>0, <2>1, <2>3 DEF InOrder, Initial, RefusedTravelsAlone, DropRows
  <2>4. ASSUME pc = "splitting", UNCHANGED outbox,
               NEW n \in 0..Cardinality(batch), solo' = solo \cup Oldest(batch, n)
        PROVE  InOrder' /\ RefusedTravelsAlone'
    <3>1. batch \in SUBSET Events /\ Cardinality(batch) \in Nat
      BY <1>0, EventSets DEF ThreadsOK
    <3>2. /\ Oldest(batch, n) \subseteq batch
          /\ \A e \in Oldest(batch, n), f \in batch : f < e => f \in Oldest(batch, n)
      BY <3>1, OldestIsInitial
    <3>3. Initial(batch, outbox) /\ Initial(solo, outbox)
      BY <1>0, <2>4 DEF InOrder
    <3>4. Initial(solo', outbox')
      BY <2>4, <3>2, <3>3 DEF Initial
    <3> QED BY <2>1, <3>4 DEF InOrder, RefusedTravelsAlone
  <2> QED BY <1>21, <2>2, <2>3, <2>4 DEF StorageFault
<1>22. CASE DeclineRequest
  BY <1>0, <1>22 DEF InOrder, Initial, RefusedTravelsAlone, edgeTables, uploader, DeclineRequest
<1>23. CASE AbortIngest
  BY <1>0, <1>23 DEF InOrder, Initial, RefusedTravelsAlone, edgeTables, uploader, AbortIngest
<1>24. CASE TruncateReply
  BY <1>0, <1>24 DEF InOrder, Initial, RefusedTravelsAlone, edgeTables, uploader, TruncateReply
<1>25. CASE Reassign
  BY <1>0, <1>25 DEF InOrder, Initial, RefusedTravelsAlone, edgeTables, uploader, Reassign
<1>26. CASE WindowMoves
  BY <1>0, <1>26 DEF InOrder, Initial, RefusedTravelsAlone, edgeTables, uploader, WindowMoves
<1>27. CASE UNCHANGED vars
  BY <1>0, <1>27 DEF InOrder, Initial, RefusedTravelsAlone, edgeTables, uploader, vars
<1> QED BY <1>1, <1>2, <1>3, <1>4, <1>5, <1>6, <1>7, <1>8, <1>9, <1>10, <1>11, <1>12, <1>13, <1>14, <1>15, <1>16, <1>17, <1>18, <1>19, <1>20, <1>21, <1>22, <1>23, <1>24, <1>25, <1>26, <1>27 DEF Next, Deliver, Ingest, Trouble

\* No row is flagged at the start.
LEMMA AloneInit == Init => Alone
BY DEF Init, Alone, InOrder, Initial, RefusedTravelsAlone

\* Although due() looks at the flag of the first row only, an event of a refused batch never
\* travels with others again: the flagged rows stay an initial part of the outbox, whatever
\* fails or crashes on the way.
THEOREM TravelsAlone == Spec => []RefusedTravelsAlone
<1>1. Init => Shapes /\ Alone
  BY ShapesInit, AloneInit
<1>2. Shapes /\ Alone /\ [Next]_vars => Shapes' /\ Alone'
  BY ShapesStep, AloneStep
<1>3. Alone => RefusedTravelsAlone
  BY DEF Alone
<1> QED BY <1>1, <1>2, <1>3, PTL DEF Spec

-----------------------------------------------------------------------------
(* Dead letters have a cause *)

Blame == Causes /\ DeadLettersDeserved

\* Every step that refuses an event does so for a cause of its own, kept until the event
\* is dead-lettered: the server sorts event by event, and a 422 counts for a lone event only.
LEMMA BlameStep == Shapes /\ Blame /\ [Next]_vars => Blame'
<1> SUFFICES ASSUME Shapes, Blame, [Next]_vars
             PROVE  Causes' /\ DeadLettersDeserved'
  BY DEF Blame
<1>0. /\ TablesOK /\ ThreadsOK /\ MessagesOK /\ Traffic
      /\ Causes /\ DeadLettersDeserved
      /\ promised \subseteq Events /\ outbox \subseteq Events
  BY TableSizes DEF Blame, Shapes, TypeOK
<1>1. CASE Enqueue
  BY <1>0, <1>1 DEF Causes, DeadLettersDeserved, Barred, Dead, edgeTables, uploader, network, server, world, Enqueue, TablesOK
<1>2. CASE Poll
  BY <1>0, <1>2 DEF Causes, DeadLettersDeserved, Barred, Dead, edgeTables, uploader, network, server, world, Poll
<1>3. CASE NothingDue
  BY <1>0, <1>3 DEF Causes, DeadLettersDeserved, Barred, Dead, edgeTables, uploader, network, server, world, NothingDue
<1>4. CASE Post
  <2>1. /\ wire' = wire \cup {[no |-> posts', events |-> batch']}
        /\ posts' \notin UnderWay /\ pc' = "posting"
        /\ UNCHANGED <<generated, dead, evicted, answer, reply, txs, placed, outside,
                       everBarred>>
    BY <1>4 DEF Post, edgeTables, server, world
  <2>2. reply = NoReply
    BY <1>0, <1>4 DEF Post, Traffic
  <2>3. \A r \in wire' : r.no = posts' => r.events = batch'
    BY <2>1 DEF UnderWay
  <2>4. Barred' = Barred /\ Dead' = Dead
    BY <2>1 DEF Barred, Dead
  <2>5. Causes'
    BY <1>0, <2>1, <2>2, <2>3, <2>4 DEF Causes, NoReply
  <2> QED BY <1>0, <2>1, <2>4, <2>5 DEF DeadLettersDeserved
<1>5. CASE ReadUnavailable
  BY <1>0, <1>5 DEF Causes, DeadLettersDeserved, Barred, Dead, edgeTables, uploader, network, server, world, ReadUnavailable, AllMissing, NoAnswer, NoReply
<1>6. CASE ReadInvalid
  <2>1. /\ pc = "posting" /\ reply.kind = "invalid" /\ pc' # "posting" /\ reply' = NoReply
        /\ answer' = NoAnswer \/ (~Many /\ answer' = [NoAnswer EXCEPT !.refused = batch])
        /\ UNCHANGED <<generated, dead, evicted, batch, txs, placed, outside, everBarred>>
    BY <1>6 DEF ReadInvalid, edgeTables, server, world
  <2>2. ~Many => batch \subseteq Malformed
    <3> SUFFICES ASSUME ~Many PROVE batch \subseteq Malformed
      OBVIOUS
    <3>1. PICK m \in batch : m \in Malformed
      BY <1>0, <2>1 DEF Causes
    <3>2. /\ batch \in SUBSET Events /\ {m} \in SUBSET batch /\ IsFiniteSet(batch)
          /\ Cardinality({m}) = 1
      BY <1>0, <3>1, EventSets, FS_Singleton DEF ThreadsOK
    <3>3. Cardinality({m}) <= Cardinality(batch) /\ Cardinality(batch) \in Nat
      BY <3>2, EventSets
    <3>4. Cardinality(batch) = 1
      BY <3>2, <3>3 DEF Many
    <3>5. batch = {m}
      BY <3>2, <3>4, FS_Subset
    <3> QED BY <3>1, <3>5
  <2>3. answer'.refused \subseteq Malformed
    BY <2>1, <2>2 DEF NoAnswer
  <2>4. Barred' = Barred /\ Dead' = Dead
    BY <2>1 DEF Barred, Dead
  <2> QED BY <1>0, <2>1, <2>3, <2>4 DEF Causes, DeadLettersDeserved, NoReply
<1>7. CASE ReadResults
  BY <1>0, <1>7 DEF Causes, DeadLettersDeserved, Barred, Dead, edgeTables, uploader, network, server, world, ReadResults, Sorted, NoReply
<1>8. CASE Split
  BY <1>0, <1>8 DEF Causes, DeadLettersDeserved, Barred, Dead, edgeTables, uploader, network, server, world, Split
<1>9. CASE DeadLetter
  <2>1. PICK e \in answer.refused :
            /\ answer' = [answer EXCEPT !.refused = @ \ {e}]
            /\ IF Open THEN MoveToDeadLetter(e) ELSE UNCHANGED edgeTables
    BY <1>9 DEF DeadLetter
  <2>2. /\ pc = "settling"
        /\ UNCHANGED <<generated, pc, batch, posts, wire, reply, txs, placed, outside,
                       everBarred>>
    BY <1>9 DEF DeadLetter, network, server, world
  <2>3. e \in Events /\ e \in Malformed \cup everBarred
    BY <1>0 DEF ThreadsOK, Causes
  <2>4. answer'.refused \subseteq answer.refused
    BY <1>0, <2>1 DEF ThreadsOK
  <2>5. Causes'
    BY <1>0, <2>2, <2>4 DEF Causes, Barred
  <2>6. CASE Open
    <3>1. Dead' \cup evicted' = Dead \cup evicted \cup ({e} \cap outbox)
      BY <1>0, <2>1, <2>3, <2>6, DeadLetterTransaction DEF TablesOK
    <3> QED BY <1>0, <2>2, <2>3, <2>5, <3>1 DEF DeadLettersDeserved
  <2>7. CASE ~Open
    BY <1>0, <2>1, <2>2, <2>5, <2>7 DEF DeadLettersDeserved, edgeTables, Dead
  <2> QED BY <2>6, <2>7
<1>10. CASE Remove
  BY <1>0, <1>10 DEF Causes, DeadLettersDeserved, Barred, Dead, edgeTables, uploader, network, server, world, Remove, NoAnswer
<1>11. CASE Defer
  BY <1>0, <1>11 DEF Causes, DeadLettersDeserved, Barred, Dead, edgeTables, uploader, network, server, world, Defer, NoAnswer
<1>12. CASE Elapse
  BY <1>0, <1>12 DEF Causes, DeadLettersDeserved, Barred, Dead, edgeTables, uploader, network, server, world, Elapse
<1>13. CASE Stop
  BY <1>0, <1>13 DEF Causes, DeadLettersDeserved, Barred, Dead, edgeTables, uploader, network, server, world, Stop
<1>14. CASE Close
  BY <1>0, <1>14 DEF Causes, DeadLettersDeserved, Barred, Dead, edgeTables, uploader, network, server, world, Close
<1>15. CASE Exit
  BY <1>0, <1>15 DEF Causes, DeadLettersDeserved, Barred, Dead, edgeTables, uploader, network, server, world, Exit, NoAnswer, NoReply
<1>16. CASE Restart
  BY <1>0, <1>16 DEF Causes, DeadLettersDeserved, Barred, Dead, edgeTables, uploader, network, server, world, Restart
<1>17. CASE RefuseRequest
  BY <1>0, <1>17 DEF Causes, DeadLettersDeserved, Barred, Dead, edgeTables, uploader, network, server, world, RefuseRequest, Answer, Invalid
<1>18. CASE BeginIngest
  <2>1. PICK r \in wire :
            /\ wire' = wire \ {r}
            /\ txs' = txs \cup {[no |-> r.no, events |-> r.events,
                                 view |-> r.events \ Barred]}
    BY <1>18 DEF BeginIngest
  <2>2. UNCHANGED <<generated, dead, evicted, pc, batch, answer, posts, reply, placed,
                    outside, everBarred>>
    BY <1>18 DEF BeginIngest, edgeTables, uploader, world
  <2>3. Barred' = Barred /\ Dead' = Dead
    BY <2>2 DEF Barred, Dead
  <2>4. r.events \subseteq 1..generated
    BY <1>0 DEF Traffic, TablesOK
  <2>5. \A t \in txs' : t.events \ t.view \subseteq everBarred
    BY <1>0, <2>1, <2>4 DEF Causes
  <2> QED BY <1>0, <2>1, <2>2, <2>3, <2>5 DEF Causes, DeadLettersDeserved
<1>19. CASE CommitIngest
  BY <1>0, <1>19 DEF Causes, DeadLettersDeserved, Barred, Dead, edgeTables, uploader, network, server, world, CommitIngest, Answer
<1>20. CASE PostFails
  BY <1>0, <1>20 DEF Causes, DeadLettersDeserved, Barred, Dead, edgeTables, uploader, network, server, world, PostFails, AllMissing, NoAnswer, NoReply
<1>21. CASE StorageFault
  BY <1>0, <1>21 DEF Causes, DeadLettersDeserved, Barred, Dead, edgeTables, uploader, network, server, world, StorageFault, NoAnswer
<1>22. CASE DeclineRequest
  BY <1>0, <1>22 DEF Causes, DeadLettersDeserved, Barred, Dead, edgeTables, uploader, network, server, world, DeclineRequest, Answer, Decline
<1>23. CASE AbortIngest
  BY <1>0, <1>23 DEF Causes, DeadLettersDeserved, Barred, Dead, edgeTables, uploader, network, server, world, AbortIngest, Answer, Decline
<1>24. CASE TruncateReply
  BY <1>0, <1>24 DEF Causes, DeadLettersDeserved, Barred, Dead, edgeTables, uploader, network, server, world, TruncateReply, MessagesOK
<1>25. CASE Reassign
  BY <1>0, <1>25 DEF Causes, DeadLettersDeserved, Barred, Dead, edgeTables, uploader, network, server, world, Reassign, TablesOK
<1>26. CASE WindowMoves
  BY <1>0, <1>26 DEF Causes, DeadLettersDeserved, Barred, Dead, edgeTables, uploader, network, server, world, WindowMoves, TablesOK
<1>27. CASE UNCHANGED vars
  BY <1>0, <1>27 DEF Causes, DeadLettersDeserved, Barred, Dead, edgeTables, uploader, network, server, world, vars
<1> QED BY <1>1, <1>2, <1>3, <1>4, <1>5, <1>6, <1>7, <1>8, <1>9, <1>10, <1>11, <1>12, <1>13, <1>14, <1>15, <1>16, <1>17, <1>18, <1>19, <1>20, <1>21, <1>22, <1>23, <1>24, <1>25, <1>26, <1>27 DEF Next, Deliver, Ingest, Trouble

\* Nothing is refused at the start.
LEMMA BlameInit == Init => Blame
BY DEF Init, Blame, Causes, DeadLettersDeserved, Barred, NoReply, NoAnswer, Dead

\* One bad event never sinks its neighbours: what ends up dead-lettered was itself malformed
\* or itself inadmissible while it was queued.
THEOREM Deserved == Spec => []DeadLettersDeserved
<1>1. Init => Shapes /\ Blame
  BY ShapesInit, BlameInit
<1>2. Shapes /\ Blame /\ [Next]_vars => Shapes' /\ Blame'
  BY ShapesStep, BlameStep
<1>3. Blame => DeadLettersDeserved
  BY DEF Blame
<1> QED BY <1>1, <1>2, <1>3, PTL DEF Spec

-----------------------------------------------------------------------------
(* The outbox implements the delivery promise *)

\* Every step is a step of RoomEventDelivery or leaves its variables alone.
LEMMA DeliveryStep ==
    Shapes /\ Kept /\ Kept' /\ [Next]_vars => [Delivery!Next]_(Delivery!vars)
<1> SUFFICES ASSUME Shapes, Kept, Kept', [Next]_vars
             PROVE  Delivery!Next \/ UNCHANGED Delivery!vars
  OBVIOUS
<1> DEFINE acknowledged == promised \ (outbox \cup Dead \cup evicted)
           refused == Dead \cup evicted
<1>0. /\ TablesOK /\ ThreadsOK /\ MessagesOK /\ Traffic
      /\ AnswersHold /\ NothingLost /\ OneHome /\ NothingLost' /\ OneHome'
      /\ promised \subseteq Events /\ outbox \subseteq Events
  BY TableSizes DEF Kept, Shapes, TypeOK
<1>1. CASE UNCHANGED <<promised, outbox, dead, evicted, rows>>
  BY <1>1 DEF Delivery!vars, Dead, Stored
<1>2. CASE Enqueue
  <2>1. CASE UNCHANGED <<outbox, promised>>
    BY <1>1, <1>2, <2>1 DEF Enqueue, server
  <2>2. CASE /\ outbox' = outbox \cup {generated + 1}
             /\ promised' = promised \cup {generated + 1}
    <3>1. generated + 1 \in Events /\ generated + 1 \notin promised
      <4>1. generated \in Nat /\ MaxEvents \in Nat /\ promised \subseteq 1..generated
        BY <1>0, RoomEventsAssumption DEF TablesOK
      <4>2. generated < MaxEvents
        BY <1>2 DEF Enqueue
      <4>3. generated + 1 \in 1..MaxEvents /\ generated + 1 \notin 1..generated
        BY <4>1, <4>2
      <4> QED BY <4>1, <4>3 DEF Events
    <3>2. UNCHANGED <<dead, evicted, rows>>
      BY <1>2 DEF Enqueue, server
    <3>3. Dead \cup evicted \subseteq promised
      BY <1>0 DEF Traffic
    <3>4. Delivery!Promise(generated + 1)
      BY <1>0, <2>2, <3>1, <3>2, <3>3 DEF Delivery!Promise, Dead, Stored
    <3> QED BY <3>1, <3>4 DEF Delivery!Next
  <2> QED BY <1>2, <2>1, <2>2 DEF Enqueue
<1>3. CASE DeadLetter
  <2>1. PICK e \in answer.refused :
            IF Open THEN MoveToDeadLetter(e) ELSE UNCHANGED edgeTables
    BY <1>3 DEF DeadLetter
  <2>2. UNCHANGED <<promised, rows>> /\ Stored' = Stored /\ e \in Events
    BY <1>0, <1>3 DEF DeadLetter, server, Stored, ThreadsOK
  <2>3. CASE ~Open
    BY <1>1, <2>1, <2>2, <2>3 DEF edgeTables
  <2>4. CASE Open
    <3>1. /\ Dead' \cup evicted' = Dead \cup evicted \cup ({e} \cap outbox)
          /\ outbox' = outbox \ {e}
      BY <1>0, <2>1, <2>2, <2>4, DeadLetterTransaction DEF TablesOK, MoveToDeadLetter, DropRows
    <3>2. acknowledged' = acknowledged
      BY <1>0, <2>2, <3>1
    <3>3. CASE e \in outbox
      <4>1. Delivery!Refuse(e)
        BY <1>0, <2>2, <3>1, <3>2, <3>3 DEF Delivery!Refuse, TablesOK
      <4> QED BY <2>2, <4>1 DEF Delivery!Next
    <3>4. CASE e \notin outbox
      BY <2>2, <3>1, <3>2, <3>4 DEF Delivery!vars
    <3> QED BY <3>3, <3>4
  <2> QED BY <2>3, <2>4
<1>4. CASE Remove \/ StorageFault
  <2>1. /\ UNCHANGED <<promised, dead, evicted, rows>>
        /\ outbox' \subseteq outbox /\ outbox \ outbox' \subseteq answer.acked
    BY <1>4 DEF Remove, StorageFault, server, DropRows
  <2>2. Dead' = Dead /\ Stored' = Stored
    BY <2>1 DEF Dead, Stored
  <2>3. answer.acked \subseteq Stored
    BY <1>0 DEF AnswersHold
  <2>4. Delivery!Acknowledge(outbox \ outbox')
    BY <1>0, <2>1, <2>2, <2>3 DEF Delivery!Acknowledge, TablesOK, OneHome
  <2>5. outbox \ outbox' \in SUBSET Events
    BY <1>0
  <2> QED BY <2>4, <2>5 DEF Delivery!Next
<1>5. CASE CommitIngest
  <2>1. PICK t \in txs : rows' = [e \in Events |-> IF e \in t.view THEN InsertRow(e) ELSE rows[e]]
    BY <1>5 DEF CommitIngest
  <2>2. UNCHANGED <<promised, outbox, dead, evicted>> /\ Dead' = Dead
    BY <1>5 DEF CommitIngest, edgeTables, Dead
  <2>3. t.view \subseteq promised
    BY <1>0 DEF Traffic
  <2>4. Stored' = Stored \cup t.view
    <3>1. \A e \in Events : rows[e] \in Nat
      BY <1>0 DEF MessagesOK
    <3> QED BY <1>0, <2>1, <2>3, <3>1 DEF Stored, InsertRow
  <2>5. Delivery!Record(t.view)
    BY <2>2, <2>3, <2>4 DEF Delivery!Record
  <2>6. t.view \in SUBSET Events
    BY <1>0, <2>3
  <2> QED BY <2>5, <2>6 DEF Delivery!Next
<1>6. Next => \/ Enqueue \/ DeadLetter \/ Remove \/ StorageFault \/ CommitIngest
              \/ UNCHANGED <<promised, outbox, dead, evicted, rows>>
  BY DEF Next, Deliver, Ingest, Trouble, server, edgeTables, Poll, NothingDue, Post,
         ReadUnavailable, ReadInvalid, ReadResults, Split, Defer, Elapse, Stop, Close, Exit,
         Restart, RefuseRequest, BeginIngest, PostFails, DeclineRequest, AbortIngest,
         TruncateReply, Reassign, WindowMoves
<1> QED BY <1>1, <1>2, <1>3, <1>4, <1>5, <1>6 DEF vars, edgeTables, server

\* The outbox, its uploader and the ingest transaction together implement the abstract
\* delivery promise: rows appear for accepted events only, an event is let go of as delivered
\* only when it has a row, and refused only while it is still owed.
THEOREM Implements == Spec => DeliverySafe
<1>1. Init => Shapes /\ Kept
  BY ShapesInit, KeptInit
<1>2. Shapes /\ Kept /\ [Next]_vars => Shapes' /\ Kept'
  BY ShapesStep, KeptStep
<1>3. Init => Delivery!Init
  BY DEF Init, Delivery!Init, Dead, Stored
<1>4. Shapes /\ Kept /\ Kept' /\ [Next]_vars => [Delivery!Next]_(Delivery!vars)
  BY DeliveryStep
<1> QED BY <1>1, <1>2, <1>3, <1>4, PTL DEF Spec, DeliverySafe, Delivery!SafeSpec

-----------------------------------------------------------------------------
(* The whole inductive invariant *)

\* Every conjunct of the invariant holds in every run: the one TLC checks on the small
\* instance is the one the proofs above rest on.
THEOREM InvHolds == Spec => []Inv
<1>1. Init => Shapes /\ Kept /\ Alone /\ Blame
  BY ShapesInit, KeptInit, AloneInit, BlameInit
<1>2. Shapes /\ Kept /\ Alone /\ Blame /\ [Next]_vars
      => Shapes' /\ Kept' /\ Alone' /\ Blame'
  BY ShapesStep, KeptStep, AloneStep, BlameStep
<1>3. Shapes /\ Kept /\ Alone /\ Blame /\ OneRowPerEvent => Inv
  BY DEF Inv, Shapes, Kept, Alone, Blame
<1> QED BY <1>1, <1>2, <1>3, RowsUnique, PTL DEF Spec
=============================================================================
