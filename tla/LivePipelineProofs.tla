------------------------- MODULE LivePipelineProofs --------------------------
(***************************************************************************)
(* Proofs about the edge's live session, for any value of its constants:   *)
(* the scheduler accounts for every frame and overlooks none, no change of *)
(* the doorway lines is lost on its way to the pipeline, an answer of the  *)
(* GPU worker that came too late is never taken for another's, ledger and  *)
(* count follow the tracks, and a transition rests on what was seen since  *)
(* the last break of the feed.                                             *)
(***************************************************************************)
EXTENDS EdgeSession, SequenceTheorems, FiniteSetTheorems, TLAPS

-----------------------------------------------------------------------------
(* The scheduler *)

\* A thread that is about to be created does not run yet.
Unstarted == consumer = "starting" => capture = "none"

SchedulerInv == SchedulerTypeOK /\ FramesConserved /\ NoMissedArrival /\ Unstarted

Tallies == [captured : Nat, delivered : Nat, dropped : Nat, skipped : Nat, discarded : Nat]

LEMMA SchedulerConstants ==
    /\ Capacity \in Nat \ {0} /\ MaxFrames \in Nat /\ Paced \in BOOLEAN
    /\ NoFrame \notin LiveFrame
BY FrameSchedulerAssumption DEF NoFrame, LiveFrame

LEMMA StopperCalls ==
    {Calls[i] : i \in 1..Len(Calls)} =
        {"running", "halted", "closing", "stopped", "woken", "joined", "done"}
<1>1. Len(Calls) = 7
  BY DEF Calls
<1>2. 1..7 = {1, 2, 3, 4, 5, 6, 7}
  OBVIOUS
<1> QED BY <1>1, <1>2 DEF Calls

\* Counting frames leaves a tally.
LEMMA Counted ==
    ASSUME NEW t \in Tallies, NEW c \in Nat, NEW r \in Nat, NEW s \in Nat
    PROVE  [t EXCEPT !.captured = c, !.dropped = r, !.skipped = s] \in Tallies
BY DEF Tallies

LEMMA Balance ==
    ASSUME NEW r \in Nat, NEW s \in Nat, NEW n \in Nat, NEW u \in Nat, NEW v \in Nat, NEW m \in Nat,
           \/ u + v = r + s + 1 /\ m = n
           \/ u + v = r + s /\ m = n + 1
    PROVE  u + v + m = r + s + n + 1
OBVIOUS

LEMMA SchedulerStart == SchedulerInit => SchedulerInv
<1> SUFFICES ASSUME SchedulerInit PROVE SchedulerInv
  OBVIOUS
<1>1. SchedulerTypeOK
  <2>1. slot \in Seq(LiveFrame) /\ Len(slot) <= Capacity
    BY SchedulerConstants DEF SchedulerInit
  <2>2. tally \in Tallies /\ feed \in Feed
    BY DEF SchedulerInit, Tallies, Feed
  <2>3. stopper \in {Calls[i] : i \in 1..Len(Calls)}
    BY StopperCalls DEF SchedulerInit
  <2>4. /\ due = "now" /\ busy \in BOOLEAN /\ arrived \in BOOLEAN /\ stop \in BOOLEAN 
        /\ capture = "none" /\ consumer = "new"
        /\ grabbed = NoFrame /\ hand = NoFrame
    BY DEF SchedulerInit
  <2> QED BY <2>1, <2>2, <2>3, <2>4 DEF SchedulerTypeOK, Tallies
<1> QED BY <1>1 DEF SchedulerInit, SchedulerInv, FramesConserved, NoMissedArrival, Unstarted

-----------------------------------------------------------------------------
(* The scheduler: its capture thread *)

LEMMA GrabKeeps == ASSUME SchedulerInv, Grab PROVE SchedulerInv'
<1>1. UNCHANGED <<slot, tally, due, busy, arrived, stop, consumer, hand, stopper>>
  BY DEF Grab
<1>2. /\ feed' \in Feed /\ grabbed' \in LiveFrame \cup {NoFrame}
      /\ capture' \in {"finishing", "admitting"}
      /\ capture' = "admitting" <=> grabbed' # NoFrame
  <2>1. CASE stop
    BY <2>1 DEF Grab, SchedulerInv, SchedulerTypeOK
  <2>2. CASE ~stop
    <3>1. PICK broke \in BOOLEAN, s \in Sizes :
            /\ feed' = [breaks |-> IF broke THEN feed.breaks + 1 ELSE feed.breaks, size |-> s]
            /\ grabbed' = [at |-> tally.captured + 1, feed |-> feed', discontinuity |-> broke]
      BY <2>2 DEF Grab
    <3>2. feed.breaks \in Nat /\ tally.captured \in Nat /\ tally.captured < MaxFrames
      BY DEF Grab, SchedulerInv, SchedulerTypeOK, Feed
    <3>3. feed' \in Feed
      BY <3>1, <3>2 DEF Feed
    <3>4. grabbed' \in LiveFrame
      BY <3>1, <3>2, <3>3, SchedulerConstants DEF LiveFrame
    <3> QED BY <2>2, <3>3, <3>4, SchedulerConstants DEF Grab
  <2> QED BY <2>1, <2>2
<1>3. SchedulerTypeOK'
  BY <1>1, <1>2 DEF SchedulerInv, SchedulerTypeOK
<1> QED BY <1>1, <1>2, <1>3 DEF Grab, SchedulerInv, FramesConserved, NoMissedArrival, Unstarted

\* Admitting a frame keeps the slot within its capacity, and a superseded frame makes the room.
LEMMA AdmitSlot ==
    ASSUME SchedulerInv, Admit
    PROVE  /\ slot' \in Seq(LiveFrame) /\ slot' # <<>>
           /\ Len(slot') = IF Len(slot) = Capacity THEN Len(slot) ELSE Len(slot) + 1
<1> DEFINE rest == IF Len(slot) = Capacity THEN Tail(slot) ELSE slot
           kept == Append(rest, grabbed)
<1>1. slot \in Seq(LiveFrame) /\ grabbed \in LiveFrame /\ Len(slot) \in Nat
  BY DEF Admit, SchedulerInv, SchedulerTypeOK
<1>2. Len(slot) = Capacity => slot # <<>>
  BY SchedulerConstants
<1>3. rest \in Seq(LiveFrame) /\ Len(rest) = IF Len(slot) = Capacity THEN Len(slot) - 1 ELSE Len(slot)
  BY <1>1, <1>2, HeadTailProperties
<1>4. kept \in Seq(LiveFrame) /\ Len(kept) = Len(rest) + 1 /\ Len(rest) \in Nat
  BY <1>1, <1>3, AppendProperties
<1>5. slot' = kept \/ slot' = [kept EXCEPT ![1].discontinuity = TRUE]
  BY DEF Admit
<1> HIDE DEF kept
<1>6. kept[1] \in LiveFrame /\ 1 \in 1..Len(kept)
  BY <1>4, ElementOfSeq
<1>7. [kept[1] EXCEPT !.discontinuity = TRUE] \in LiveFrame
  BY <1>6 DEF LiveFrame
<1>8. ASSUME NEW f \in LiveFrame
      PROVE  [kept EXCEPT ![1] = f] \in Seq(LiveFrame) /\ Len([kept EXCEPT ![1] = f]) = Len(kept)
  BY <1>4, <1>6, ExceptSeq
<1>9. [kept EXCEPT ![1].discontinuity = TRUE] =
        [kept EXCEPT ![1] = [kept[1] EXCEPT !.discontinuity = TRUE]]
  OBVIOUS
<1>10. slot' \in Seq(LiveFrame) /\ Len(slot') = Len(kept)
  BY <1>4, <1>5, <1>7, <1>8, <1>9
<1> QED BY <1>1, <1>3, <1>4, <1>10

LEMMA AdmitKeeps == ASSUME SchedulerInv, Admit PROVE SchedulerInv'
<1> DEFINE full == Len(slot) = Capacity
           wanted == ~Paced \/ (busy /\ due # "later")
<1>1. /\ UNCHANGED <<busy, arrived, stop, consumer, hand, stopper, feed>>
      /\ capture' = "announcing" /\ grabbed' = NoFrame /\ due' \in {due, "now"}
  BY DEF Admit
<1>2. tally' = [tally EXCEPT !.captured = @ + 1,
                             !.dropped = IF full /\ wanted THEN @ + 1 ELSE @,
                             !.skipped = IF full /\ ~wanted THEN @ + 1 ELSE @]
  BY DEF Admit
<1>3. tally \in Tallies /\ Len(slot) \in Nat /\ Len(slot) <= Capacity
  BY DEF SchedulerInv, SchedulerTypeOK, Tallies
<1>4. tally' \in Tallies
  <2> DEFINE c == tally.captured + 1
             r == IF full /\ wanted THEN tally.dropped + 1 ELSE tally.dropped
             s == IF full /\ ~wanted THEN tally.skipped + 1 ELSE tally.skipped
  <2>1. c \in Nat /\ r \in Nat /\ s \in Nat
    BY <1>3 DEF Tallies
  <2>2. tally' = [tally EXCEPT !.captured = c, !.dropped = r, !.skipped = s]
    BY <1>2
  <2> HIDE DEF c, r, s
  <2> QED BY <1>3, <2>1, <2>2, Counted
<1>5. /\ tally'.captured = tally.captured + 1 /\ tally'.delivered = tally.delivered
      /\ tally'.discarded = tally.discarded
      /\ tally'.dropped + tally'.skipped =
           tally.dropped + tally.skipped + (IF full THEN 1 ELSE 0)
  BY <1>2, <1>3 DEF Tallies
<1>6. /\ slot' \in Seq(LiveFrame) /\ slot' # <<>>
      /\ Len(slot') = IF full THEN Len(slot) ELSE Len(slot) + 1
  BY AdmitSlot
<1>7. FramesConserved'
  <2>1. tally.captured = tally.delivered + tally.dropped + tally.skipped + tally.discarded + Len(slot)
    BY DEF SchedulerInv, FramesConserved
  <2>2. /\ tally.captured \in Nat /\ tally.delivered \in Nat /\ tally.dropped \in Nat
        /\ tally.skipped \in Nat /\ tally.discarded \in Nat
        /\ tally'.dropped \in Nat /\ tally'.skipped \in Nat
    BY <1>3, <1>4 DEF Tallies
  <2>3. Len(slot') \in Nat
    BY <1>3, <1>6
  <2>4. tally'.dropped + tally'.skipped + Len(slot') = tally.dropped + tally.skipped + Len(slot) + 1
    <3>1. CASE full
      <4>1. tally'.dropped + tally'.skipped = tally.dropped + tally.skipped + 1
        BY <1>5, <3>1
      <4>2. Len(slot') = Len(slot)
        BY <1>6, <3>1
      <4> HIDE DEF full
      <4> QED BY <1>3, <2>2, <2>3, <4>1, <4>2, Balance
    <3>2. CASE ~full
      <4>1. tally'.dropped + tally'.skipped = tally.dropped + tally.skipped
        BY <1>5, <2>2, <3>2
      <4>2. Len(slot') = Len(slot) + 1
        BY <1>6, <3>2
      <4> HIDE DEF full
      <4> QED BY <1>3, <2>2, <2>3, <4>1, <4>2, Balance
    <3> QED BY <3>1, <3>2
  <2>5. tally.captured + 1 =
          tally.delivered + tally'.dropped + tally'.skipped + tally.discarded + Len(slot')
    <3> DEFINE c == tally.captured  d == tally.delivered  r == tally.dropped
               s == tally.skipped   x == tally.discarded  n == Len(slot)
               r2 == tally'.dropped  s2 == tally'.skipped  n2 == Len(slot')
    <3>1. /\ c \in Nat /\ d \in Nat /\ r \in Nat /\ s \in Nat /\ x \in Nat /\ n \in Nat
          /\ r2 \in Nat /\ s2 \in Nat /\ n2 \in Nat
      BY <1>3, <2>2, <2>3
    <3>2. c = d + r + s + x + n /\ r2 + s2 + n2 = r + s + n + 1
      BY <2>1, <2>4
    <3> HIDE DEF c, d, r, s, x, n, r2, s2, n2
    <3>3. c + 1 = d + r2 + s2 + x + n2
      BY <3>1, <3>2
    <3> QED BY <3>3 DEF c, d, r, s, x, n, r2, s2, n2
  <2> QED BY <1>5, <2>5 DEF FramesConserved
<1>8. SchedulerTypeOK'
  BY <1>1, <1>3, <1>4, <1>6, SchedulerConstants DEF SchedulerInv, SchedulerTypeOK, Tallies
<1>9. capture = "admitting"
  BY DEF Admit
<1> QED BY <1>1, <1>7, <1>8, <1>9 DEF SchedulerInv, NoMissedArrival, Unstarted

LEMMA CaptureKeeps == ASSUME SchedulerInv, CaptureStep PROVE SchedulerInv'
<1>1. CASE SourceEnds \/ Announce \/ Finish
  <2>1. UNCHANGED <<slot, tally, due, busy, grabbed, consumer, hand, stopper, feed>>
    BY <1>1 DEF SourceEnds, Announce, Finish
  <2>2. /\ capture' \in {"reading", "finishing", "waking", "ended"} /\ capture \notin {"admitting", "none"}
        /\ arrived' \in BOOLEAN /\ stop' \in BOOLEAN
        /\ ((arrived' = arrived /\ capture # "announcing") \/ arrived')
    BY <1>1 DEF SourceEnds, Announce, Finish, SchedulerInv, SchedulerTypeOK
  <2>3. SchedulerTypeOK'
    BY <2>1, <2>2 DEF SchedulerInv, SchedulerTypeOK
  <2> QED BY <2>1, <2>2, <2>3 DEF SchedulerInv, FramesConserved, NoMissedArrival, Unstarted
<1> QED BY <1>1, GrabKeeps, AdmitKeeps DEF CaptureStep

-----------------------------------------------------------------------------
(* The scheduler: its consumer *)

LEMMA TakeKeeps == ASSUME SchedulerInv, Take PROVE SchedulerInv'
<1>1. slot \in Seq(LiveFrame) /\ slot # <<>> /\ Len(slot) \in Nat /\ tally \in Tallies
  BY DEF Take, SchedulerInv, SchedulerTypeOK, Tallies
<1>2. /\ Head(slot) \in LiveFrame /\ Tail(slot) \in Seq(LiveFrame)
      /\ Len(Tail(slot)) = Len(slot) - 1
  BY <1>1, HeadTailProperties
<1>3. tally' \in Tallies /\ tally' = [tally EXCEPT !.delivered = tally.delivered + 1]
  <2>1. tally.delivered + 1 \in Nat
    BY <1>1 DEF Tallies
  <2>2. tally' = [tally EXCEPT !.delivered = tally.delivered + 1]
    BY DEF Take
  <2> QED BY <1>1, <2>1, <2>2 DEF Tallies
<1>4. FramesConserved'
  <2>1. /\ tally'.delivered = tally.delivered + 1 /\ tally'.captured = tally.captured
        /\ tally'.dropped = tally.dropped /\ tally'.skipped = tally.skipped
        /\ tally'.discarded = tally.discarded /\ Len(slot') = Len(slot) - 1
        /\ tally.delivered \in Nat /\ tally.dropped \in Nat /\ tally.skipped \in Nat
        /\ tally.discarded \in Nat /\ tally.captured \in Nat
    BY <1>1, <1>2, <1>3 DEF Take, Tallies
  <2> QED BY <1>1, <2>1 DEF SchedulerInv, FramesConserved
<1>5. SchedulerTypeOK'
  <2>1. /\ slot' = Tail(slot) /\ hand' = Head(slot) /\ busy' = TRUE /\ consumer' = "using"
        /\ due' \in {"later", due}
        /\ UNCHANGED <<arrived, stop, capture, grabbed, stopper, feed>>
    BY DEF Take
  <2>2. Len(slot') <= Capacity
    BY <1>1, <1>2, <2>1, SchedulerConstants DEF SchedulerInv, SchedulerTypeOK
  <2>3. hand' \in LiveFrame \cup {NoFrame} /\ hand' # NoFrame
    BY <1>2, <2>1, SchedulerConstants
  <2> QED BY <1>2, <1>3, <2>1, <2>2, <2>3 DEF SchedulerInv, SchedulerTypeOK, Tallies
<1> QED BY <1>4, <1>5 DEF Take, SchedulerInv, NoMissedArrival, Unstarted

LEMMA ConsumerKeeps ==
    ASSUME SchedulerInv, ConsumerStep \/ Done \/ Abandon \/ PeriodPasses PROVE SchedulerInv'
<1>1. CASE StartCapture \/ StartThread
  <2>1. SchedulerTypeOK'
    BY <1>1 DEF StartCapture, StartThread, SchedulerInv, SchedulerTypeOK, Unstarted
  <2> QED BY <1>1, <2>1 DEF StartCapture, StartThread, SchedulerInv, FramesConserved, NoMissedArrival, Unstarted
<1>2. CASE Ask \/ Look \/ Wake
  <2>1. SchedulerTypeOK'
    BY <1>2 DEF Ask, Look, Wake, SchedulerInv, SchedulerTypeOK
  <2> QED BY <1>2, <2>1 DEF Ask, Look, Wake, SchedulerInv, FramesConserved, NoMissedArrival, Unstarted
<1>3. CASE Clear
  BY <1>3 DEF Clear, SchedulerInv, SchedulerTypeOK, FramesConserved, NoMissedArrival, Unstarted
<1>4. CASE Done \/ Abandon
  <2>1. SchedulerTypeOK'
    BY <1>4, SchedulerConstants DEF Done, Abandon, SchedulerInv, SchedulerTypeOK
  <2> QED BY <1>4, <2>1 DEF Done, Abandon, SchedulerInv, FramesConserved, NoMissedArrival, Unstarted
<1>5. CASE PeriodPasses
  BY <1>5 DEF PeriodPasses, SchedulerInv, SchedulerTypeOK, FramesConserved, NoMissedArrival, Unstarted
<1> QED BY <1>1, <1>2, <1>3, <1>4, <1>5, TakeKeeps DEF ConsumerStep

-----------------------------------------------------------------------------
(* The scheduler: stop *)

\* What is left in the slot when the session is over is counted as discarded.
LEMMA DrainKeeps ==
    ASSUME SchedulerInv, stopper = "joined", stopper' = "done", slot' = <<>>,
           tally' = [tally EXCEPT !.discarded = @ + Len(slot)],
           UNCHANGED <<arrived, stop, due, busy, capture, grabbed, consumer, hand, feed>>
    PROVE  SchedulerInv'
<1>1. tally \in Tallies /\ Len(slot) \in Nat
  BY DEF SchedulerInv, SchedulerTypeOK, Tallies
<1>2. tally' \in Tallies /\ tally' = [tally EXCEPT !.discarded = tally.discarded + Len(slot)]
  BY <1>1 DEF Tallies
<1>3. FramesConserved'
  BY <1>1, <1>2 DEF SchedulerInv, FramesConserved, Tallies
<1>4. SchedulerTypeOK'
  BY <1>1, <1>2, StopperCalls, SchedulerConstants DEF SchedulerInv, SchedulerTypeOK, Tallies, Calls
<1> QED BY <1>3, <1>4 DEF SchedulerInv, NoMissedArrival, Unstarted

LEMMA StopKeeps == ASSUME SchedulerInv, Halt \/ StopStep PROVE SchedulerInv'
<1>1. CASE Halt
  <2>1. SchedulerTypeOK'
    BY <1>1 DEF Halt, SchedulerInv, SchedulerTypeOK, Calls
  <2> QED BY <1>1, <2>1 DEF Halt, SchedulerInv, FramesConserved, NoMissedArrival, Unstarted
<1>2. CASE StopStep /\ stopper' # "done"
  <2>1. /\ stopper' \in {"closing", "stopped", "woken", "joined"}
        /\ stop' \in BOOLEAN /\ arrived' \in BOOLEAN /\ (arrived' = arrived \/ arrived')
        /\ UNCHANGED <<slot, tally, due, busy, capture, grabbed, consumer, hand, feed>>
    BY <1>2 DEF StopStep, SchedulerInv, SchedulerTypeOK
  <2>2. SchedulerTypeOK'
    BY <2>1 DEF SchedulerInv, SchedulerTypeOK, Calls
  <2> QED BY <2>1, <2>2 DEF SchedulerInv, FramesConserved, NoMissedArrival, Unstarted
<1>3. CASE StopStep /\ stopper' = "done"
  BY <1>3, DrainKeeps DEF StopStep
<1> QED BY <1>1, <1>2, <1>3

-----------------------------------------------------------------------------
(* The scheduler: theorems *)

\* live/scheduler.py:476-561: the types, the accounts and the wait hold in every reachable state.
THEOREM SchedulerKept == SchedulerSpec => []SchedulerInv
<1>1. SchedulerInv /\ [SchedulerNext]_schedulerVars => SchedulerInv'
  <2>1. ASSUME SchedulerInv, UNCHANGED schedulerVars PROVE SchedulerInv'
    BY <2>1 DEF schedulerVars, SchedulerInv, SchedulerTypeOK, FramesConserved, NoMissedArrival, Unstarted
  <2> QED BY <2>1, CaptureKeeps, ConsumerKeeps, StopKeeps DEF SchedulerNext
<1> QED BY <1>1, SchedulerStart, PTL DEF SchedulerSpec

\* live/scheduler.py:12-40: frames captured are delivered, dropped, skipped, discarded at the stop
\* or in the slot, and no more are in it than fit.
THEOREM Accounted == SchedulerSpec => [](FramesConserved /\ Len(slot) <= Capacity)
<1>1. SchedulerInv => FramesConserved /\ Len(slot) <= Capacity
  BY DEF SchedulerInv, SchedulerTypeOK
<1> QED BY <1>1, SchedulerKept, PTL

\* live/scheduler.py:512-524: while the consumer waits, a frame that has come in since it looked
\* has set the event or is about to.
THEOREM Noticed == SchedulerSpec => []NoMissedArrival
<1>1. SchedulerInv => NoMissedArrival
  BY DEF SchedulerInv
<1> QED BY <1>1, SchedulerKept, PTL

-----------------------------------------------------------------------------
(* The configuration: hand-over between the refresher and the pipeline *)

\* The pipeline has, or is about to take over, the lines of a config.
Handed(config) ==
    IF staged # {} THEN staged = {LinesOf(config)}
    ELSE lines = LinesOf(config).portals /\ revision = LinesOf(config).revision

\* Only between the swap of a new config and the callback is the pipeline behind it.
Behind == refresher \in {"storing", "telling"} /\ changed
Kept == changed \in BOOLEAN /\ (refresher # "off" /\ ~Behind => Handed(current))

LEMMA LinesRecord ==
    ASSUME NEW config
    PROVE  LinesOf(config) =
              [portals |-> LinesOf(config).portals, revision |-> LinesOf(config).revision]
BY DEF LinesOf

\* Equal revisions mean equal lines: the revision is computed over all of them.
LEMMA RevisionNamesLines ==
    ASSUME NEW a, NEW b, CameraRevision(a) = CameraRevision(b)
    PROVE  LinesOf(a) = LinesOf(b)
<1>1. ASSUME NEW c
      PROVE  /\ LinesOf(c).revision = {} => LinesOf(c).portals = {}
             /\ LinesOf(c).revision # {} =>
                  LinesOf(c).revision = {<<c.assignment, c.portals>>} /\ LinesOf(c).portals = c.portals
  BY DEF LinesOf, Revision
<1>2. LinesOf(a).revision = LinesOf(b).revision
  BY DEF CameraRevision
<1>3. LinesOf(a).portals = LinesOf(b).portals
  <2>1. CASE LinesOf(a).revision = {}
    BY <1>1, <1>2, <2>1
  <2>2. CASE LinesOf(a).revision # {}
    <3>1. {<<a.assignment, a.portals>>} = {<<b.assignment, b.portals>>}
      BY <1>1, <1>2, <2>2
    <3>2. <<a.assignment, a.portals>> = <<b.assignment, b.portals>>
      BY <3>1, Zenon
    <3>3. a.portals = b.portals
      BY <3>2
    <3> QED BY <1>1, <1>2, <2>2, <3>3
  <2> QED BY <2>1, <2>2
<1> QED BY <1>2, <1>3, LinesRecord

LEMMA OnlyOffer ==
    ASSUME NEW x, staged = {x}
    PROVE  Offer = x
BY DEF Offer

\* Applying what is staged hands over what was on the way, and nothing else.
LEMMA ApplyKeeps ==
    ASSUME NEW config, Handed(config), staged # {}, ApplyStaged
    PROVE  /\ staged' = {} /\ lines' = LinesOf(config).portals
           /\ revision' = LinesOf(config).revision
<1>1. Offer = LinesOf(config)
  BY OnlyOffer DEF Handed
<1> QED BY <1>1 DEF ApplyStaged, Replaces

LEMMA SessionKeeps == ASSUME Kept, StartSession \/ EndSession PROVE Kept'
<1>1. CASE StartSession
  <2>1. staged' = {LinesOf(current')} /\ refresher' = "idle" /\ changed' = FALSE
    BY <1>1, LinesRecord DEF StartSession, Stage
  <2> QED BY <2>1 DEF Kept, Handed, Behind
<1>2. CASE EndSession
  BY <1>2 DEF EndSession, Kept
<1> QED BY <1>1, <1>2

LEMMA RefreshKeeps == ASSUME Kept, RefreshStep PROVE Kept'
<1>1. CASE Request \/ Served \/ FetchFails
  <2>1. UNCHANGED <<lines, revision, staged, current, changed>> /\ ~Behind
    BY <1>1 DEF Request, Served, FetchFails, portalVars, Behind
  <2>2. refresher # "off" /\ refresher' \in {"asking", "answered", "idle"}
    BY <1>1 DEF Request, Served, FetchFails
  <2> QED BY <2>1, <2>2 DEF Kept, Handed
<1>2. CASE Swap
  <2>1. /\ UNCHANGED <<lines, revision, staged>> /\ current' = fetched
        /\ changed' = (CameraRevision(current) # CameraRevision(fetched))
        /\ refresher = "answered" /\ refresher' \in {"storing", "telling"}
    BY <1>2 DEF Swap, portalVars
  <2>2. Handed(current)
    BY <2>1 DEF Kept, Behind
  <2>3. ASSUME ~Behind' PROVE LinesOf(current') = LinesOf(current)
    BY <2>1, <2>3, RevisionNamesLines DEF Behind
  <2>4. changed' \in BOOLEAN
    BY <2>1
  <2> QED BY <2>1, <2>2, <2>3, <2>4 DEF Kept, Handed
<1>3. CASE Store
  BY <1>3 DEF Store, Kept, Handed, Behind, portalVars
<1>4. CASE Tell
  <2>1. refresher = "telling" /\ refresher' = "idle" /\ changed' = FALSE /\ current' = current
    BY <1>4 DEF Tell
  <2>2. CASE changed
    <3>1. staged' = {LinesOf(current)}
      BY <1>4, <2>2, LinesRecord DEF Tell, Stage
    <3> QED BY <2>1, <3>1 DEF Kept, Handed
  <2>3. CASE ~changed
    <3>1. UNCHANGED <<lines, revision, staged>>
      BY <1>4, <2>3 DEF Tell
    <3>2. Handed(current)
      BY <2>1, <2>3 DEF Kept, Behind
    <3> QED BY <2>1, <3>1, <3>2 DEF Kept, Handed
  <2> QED BY <2>2, <2>3
<1> QED BY <1>1, <1>2, <1>3, <1>4 DEF RefreshStep

LEMMA FrameKeeps == ASSUME Kept, QuietFrame PROVE Kept'
<1>1. UNCHANGED <<current, changed, refresher>> /\ staged # {} /\ ApplyStaged
  BY DEF QuietFrame, configVars
<1>2. ASSUME refresher # "off" /\ ~Behind PROVE Handed(current)'
  <2>1. Handed(current)
    BY <1>2 DEF Kept
  <2> QED BY <1>1, <2>1, ApplyKeeps DEF Handed
<1> QED BY <1>1, <1>2 DEF Kept, Behind

LEMMA KeptStill == ASSUME Kept, UNCHANGED <<configVars, portalVars>> PROVE Kept'
BY DEF configVars, portalVars, Kept, Handed, Behind

\* live/managed_config.py:362-415, 472-481: whenever the refresher rests, the pipeline has the
\* lines of the current config or will apply them next, whatever failed, crashed or was edited.
THEOREM HandedOver == ConfigSpec => []LinesCurrent
<1>1. ConfigInit => Kept
  BY DEF ConfigInit, Kept
<1>2. Kept /\ [ConfigNext]_<<configVars, adminVars, portalVars>> => Kept'
  <2> SUFFICES ASSUME Kept, [ConfigNext]_<<configVars, adminVars, portalVars>> PROVE Kept'
    OBVIOUS
  <2>1. CASE UNCHANGED <<configVars, portalVars>>
    BY <2>1, KeptStill
  <2> QED BY <2>1, SessionKeeps, RefreshKeeps, FrameKeeps DEF ConfigNext
<1>3. Kept => LinesCurrent
  BY DEF Kept, Behind, Handed, LinesCurrent
<1> QED BY <1>1, <1>2, <1>3, PTL DEF ConfigSpec

-----------------------------------------------------------------------------
(* The configuration: the administrators and the camera's lock *)

Asked == [op : {"create", "update", "archive"}, portal : 1..MaxRows, area : Areas,
          step : {"asked", "locked"}]

AdminTypes ==
    /\ rows \in [1..MaxRows -> Row \cup {NoRow}] /\ camera.area \in Areas
    /\ request \in [Admins -> Asked \cup {NoRequest}] /\ writing \in SUBSET Admins

Holds(a) == request[a] \in Asked /\ request[a].step = "locked"

\* One request at a time is between its lock and its write, and one that creates has room.
Serial ==
    /\ \A a, b \in writing : a = b
    /\ \A a \in Admins : Holds(a) => a \in writing
    /\ \A a \in Admins : Holds(a) /\ request[a].op = "create" => Cardinality(Active) < MaxPortals

AdminInv == AdminTypes /\ Serial /\ PortalLimit

LEMMA NotAsked == NoRequest \notin Asked /\ NoRow \notin Row /\ MaxRows \in Nat /\ MaxPortals \in Nat
BY CameraPortalAdminAssumption DEF NoRequest, Asked, NoRow, Row

LEMMA ActiveFinite == IsFiniteSet(Active) /\ Cardinality(Active) \in Nat
<1>1. IsFiniteSet(1..MaxRows)
  BY NotAsked, FS_Interval
<1>2. Active \in SUBSET (1..MaxRows)
  BY DEF Active
<1> QED BY <1>1, <1>2, FS_Subset, FS_CardinalityType

LEMMA AdminStart == AdminInit => AdminInv
<1> SUFFICES ASSUME AdminInit PROVE AdminInv
  OBVIOUS
<1>1. AdminTypes /\ Serial
  BY NotAsked DEF AdminInit, AdminTypes, Serial, Holds
<1>2. Active = {}
  BY DEF AdminInit, Active, NoRow
<1> QED BY <1>1, <1>2, NotAsked, FS_EmptySet DEF AdminInv, PortalLimit

LEMMA AskKeeps ==
    ASSUME AdminInv, NEW a \in Admins, NEW op \in {"create", "update", "archive"},
           NEW p \in 1..MaxRows, AskPortal(a, op, p)
    PROVE  AdminInv'
<1>1. AdminTypes'
  BY DEF AskPortal, AdminInv, AdminTypes, Asked
<1>2. Active' = Active
  BY DEF AskPortal, Active
<1>3. ~Holds(a)' /\ \A b \in Admins \ {a} : request'[b] = request[b]
  BY DEF AskPortal, AdminInv, AdminTypes, Holds
<1>4. Serial'
  BY <1>2, <1>3 DEF AskPortal, AdminInv, Serial, Holds
<1> QED BY <1>1, <1>2, <1>4 DEF AdminInv, PortalLimit

LEMMA LockKeeps == ASSUME AdminInv, NEW a \in Admins, Lock(a) PROVE AdminInv'
<1>1. request[a] \in Asked /\ writing = {} /\ Active' = Active
  BY DEF Lock, Free, AdminInv, AdminTypes, Active
<1>2. \A b \in Admins : ~Holds(b)
  BY <1>1 DEF AdminInv, Serial
<1>3. CASE request' = [request EXCEPT ![a] = NoRequest] /\ UNCHANGED writing
  BY <1>1, <1>2, <1>3, NotAsked DEF Lock, AdminInv, AdminTypes, Serial, Holds, PortalLimit
<1>4. CASE /\ request' = [request EXCEPT ![a].step = "locked"] /\ writing' = writing \cup {a}
           /\ ~(request[a].op = "create" /\ Cardinality(Active) >= MaxPortals)
  <2>1. request'[a].op = request[a].op /\ request'[a] \in Asked
    BY <1>1, <1>4 DEF AdminInv, AdminTypes, Asked
  <2>2. \A b \in Admins \ {a} : request'[b] = request[b] /\ ~Holds(b)'
    BY <1>2, <1>4 DEF AdminInv, AdminTypes, Holds
  <2>3. AdminTypes'
    BY <1>1, <1>4, <2>1 DEF Lock, AdminInv, AdminTypes
  <2>4. Serial'
    BY <1>1, <1>4, <2>1, <2>2, ActiveFinite, NotAsked DEF Serial, Holds
  <2> QED BY <1>1, <2>3, <2>4 DEF AdminInv, PortalLimit
<1> QED BY <1>3, <1>4 DEF Lock

LEMMA WriteKeeps == ASSUME AdminInv, NEW a \in Admins, Write(a) PROVE AdminInv'
<1>1. /\ Holds(a) /\ a \in writing /\ request' = [request EXCEPT ![a] = NoRequest]
      /\ writing' = writing \ {a} /\ camera' = camera
  BY DEF Write, AdminInv, AdminTypes, Serial, Holds
<1>2. \A b \in Admins : ~Holds(b)'
  BY <1>1, NotAsked DEF AdminInv, AdminTypes, Serial, Holds
<1>3. PICK p \in 1..MaxRows, enabled \in BOOLEAN :
        IF request[a].op = "create"
        THEN rows' = [rows EXCEPT ![p] = [area |-> request[a].area, enabled |-> enabled,
                                          revision |-> 1, status |-> "ACTIVE"]]
             /\ rows[p] = NoRow
        ELSE rows' = IF rows[p] # NoRow /\ rows[p].area = request[a].area
                     THEN [rows EXCEPT ![p] = Edited(@, request[a].op, enabled)] ELSE rows
  BY DEF Write
<1>4. rows \in [1..MaxRows -> Row \cup {NoRow}] /\ request[a] \in Asked
  BY <1>1 DEF AdminInv, AdminTypes, Holds
<1>5. CASE request[a].op = "create"
  <2>1. rows' \in [1..MaxRows -> Row \cup {NoRow}]
    BY <1>3, <1>4, <1>5 DEF Row, Asked
  <2>2. Active' = Active \cup {p}
    BY <1>3, <1>4, <1>5 DEF Active
  <2>3. p \notin Active
    BY <1>3, <1>5 DEF Active, NoRow
  <2>4. Cardinality(Active') = Cardinality(Active) + 1
    BY <2>2, <2>3, ActiveFinite, FS_AddElement
  <2>5. Cardinality(Active) < MaxPortals
    BY <1>1, <1>5 DEF AdminInv, Serial
  <2>6. PortalLimit'
    BY <2>4, <2>5, ActiveFinite, NotAsked DEF PortalLimit
  <2> QED BY <1>1, <1>2, <2>1, <2>6, NotAsked DEF AdminInv, AdminTypes, Serial
<1>6. CASE request[a].op # "create"
  <2>1. ASSUME rows[p] # NoRow
        PROVE  /\ Edited(rows[p], request[a].op, enabled) \in Row
               /\ Edited(rows[p], request[a].op, enabled).status = "ACTIVE" => rows[p].status = "ACTIVE"
    <3>1. rows[p] \in Row
      BY <1>4, <2>1
    <3>2. rows[p].revision + 1 \in Nat \ {0} /\ rows[p].area \in Areas
      BY <3>1 DEF Row
    <3> QED BY <3>1, <3>2 DEF Edited, Row
  <2>2. rows' \in [1..MaxRows -> Row \cup {NoRow}]
    <3>1. CASE rows' = rows
      BY <1>4, <3>1
    <3>2. CASE rows[p] # NoRow /\ rows' = [rows EXCEPT ![p] = Edited(@, request[a].op, enabled)]
      BY <1>4, <2>1, <3>2
    <3> QED BY <1>3, <1>6, <3>1, <3>2
  <2>3. Active' \in SUBSET Active
    BY <1>3, <1>4, <1>6, <2>1 DEF Active
  <2>4. Cardinality(Active') <= Cardinality(Active) /\ Cardinality(Active') \in Nat
    BY <2>3, ActiveFinite, FS_Subset, FS_CardinalityType
  <2>5. PortalLimit'
    BY <2>4, ActiveFinite, NotAsked DEF AdminInv, PortalLimit
  <2> QED BY <1>1, <1>2, <2>2, <2>5, NotAsked DEF AdminInv, AdminTypes, Serial
<1> QED BY <1>5, <1>6

LEMMA PlaceKeeps == ASSUME AdminInv, PlacementStep PROVE AdminInv'
BY DEF PlacementStep, Place, AdminInv, AdminTypes, Serial, Holds, PortalLimit, Active

\* camera_portal_service.py:155-161, 267-283: however many requests overlap, and however often the
\* camera is moved, no camera has more active lines than the limit.
THEOREM LinesLimited == ConfigSpec => []PortalLimit
<1>1. AdminInv /\ [ConfigNext]_<<configVars, adminVars, portalVars>> => AdminInv'
  <2> SUFFICES ASSUME AdminInv, [ConfigNext]_<<configVars, adminVars, portalVars>>
               PROVE  AdminInv'
    OBVIOUS
  <2>1. CASE AdminStep \/ PlacementStep
    BY <2>1, AskKeeps, LockKeeps, WriteKeeps, PlaceKeeps DEF AdminStep
  <2>2. CASE UNCHANGED <<rows, camera, writing, request>>
    BY <2>2 DEF AdminInv, AdminTypes, Serial, Holds, PortalLimit, Active
  <2>3. CASE StartSession \/ EndSession \/ RefreshStep \/ QuietFrame
    BY <2>2, <2>3 DEF StartSession, EndSession, RefreshStep, Request, ReadAssignment, Served,
       FetchFails, Swap, Store, Tell, QuietFrame, adminVars
  <2> QED BY <2>1, <2>2, <2>3 DEF ConfigNext, adminVars
<1>2. AdminInv => PortalLimit
  BY DEF AdminInv
<1> QED BY <1>1, <1>2, AdminStart, PTL DEF ConfigSpec

-----------------------------------------------------------------------------
(* The GPU worker *)

Operations == {"none", "HELLO", "INFER_TENSOR", "MODEL", "HEALTH", "SHUTDOWN"}
Steps == {"idle", "queued", "waiting", "accepted", "failed"}
CallRecord == [op : Operations, step : Steps, id : 0..MaxRequests, got : 0..MaxRequests]

\* What the calls and the socket may hold.
Shapes ==
    /\ GpuTypeOK /\ issued \in 0..MaxRequests /\ givenUp \in Nat
    /\ call \in [Threads -> CallRecord]
    /\ \A c \in Threads : call[c].step = "queued" => call[c].id # 0
    /\ requests \in Seq([id : 1..MaxRequests, op : Operations])

\* A result handed to a caller answers its own request.
Matched == \A c \in Threads : call[c].step = "accepted" => call[c].got = call[c].id

\* The lock has one holder at most; while nothing was given up, what is in the socket is its own.
OneHolder == rpc = {} \/ \E c \in Threads : rpc = {c}
Quiet == givenUp = 0 => Len(requests) + Len(answers) <= IF rpc = {} THEN 0 ELSE 1

GpuInv == Shapes /\ Matched /\ OneHolder /\ Quiet

-----------------------------------------------------------------------------
(* The GPU worker: one call *)

LEMMA GpuStart == GpuInit => GpuInv
<1> SUFFICES ASSUME GpuInit PROVE GpuInv
  OBVIOUS
<1>1. MaxRequests \in Nat /\ MaxAttempts \in Nat
  BY GpuSupervisorAssumption
<1> QED BY <1>1 DEF GpuInit, GpuInv, Shapes, GpuTypeOK, Matched, OneHolder, Quiet, CallRecord,
                    Operations, Steps, Idle

\* A thread that begins a call has an id of its own, and nothing else of the invariant changes.
LEMMA CallingStep ==
    ASSUME GpuInv, NEW c \in Threads, NEW op \in Operations, Calling(c, op)
    PROVE  /\ issued' \in 0..MaxRequests /\ call' \in [Threads -> CallRecord]
           /\ \A d \in Threads : call'[d].step = "queued" => call'[d].id # 0
           /\ Matched'
<1>1. MaxRequests \in Nat
  BY GpuSupervisorAssumption
<1>2. issued' = issued + 1 /\ issued' \in 1..MaxRequests
  BY <1>1 DEF Calling, GpuInv, Shapes
<1>3. call' = [call EXCEPT ![c] = [op |-> op, step |-> "queued", id |-> issued', got |-> 0]]
  BY DEF Calling
<1>4. [op |-> op, step |-> "queued", id |-> issued', got |-> 0] \in CallRecord
  BY <1>1, <1>2 DEF CallRecord, Steps
<1>5. call \in [Threads -> CallRecord]
  BY DEF GpuInv, Shapes
<1> HIDE DEF CallRecord
<1>6. call' \in [Threads -> CallRecord]
  BY <1>3, <1>4, <1>5
<1>7. \A d \in Threads : call'[d].step = "queued" => call'[d].id # 0
  BY <1>2, <1>3, <1>5 DEF GpuInv, Shapes
<1>8. Matched'
  BY <1>3, <1>5 DEF GpuInv, Matched
<1> QED BY <1>2, <1>6, <1>7, <1>8

\* A thread leaves its call.
LEMMA IdleStep ==
    ASSUME GpuInv, NEW c \in Threads, call' = [call EXCEPT ![c] = Idle]
    PROVE  /\ call' \in [Threads -> CallRecord]
           /\ \A d \in Threads : call'[d].step = "queued" => call'[d].id # 0
           /\ Matched'
<1>1. MaxRequests \in Nat /\ Idle \in CallRecord
  BY GpuSupervisorAssumption DEF Idle, CallRecord, Operations, Steps
<1> QED BY <1>1 DEF GpuInv, Shapes, Matched, Idle

\* A thread's call moves on without being queued or answered anew.
LEMMA MovesOn ==
    ASSUME GpuInv, NEW c \in Threads, NEW s \in {"waiting", "failed"},
           call' = [call EXCEPT ![c].step = s]
    PROVE  /\ call' \in [Threads -> CallRecord]
           /\ \A d \in Threads : call'[d].step = "queued" => call'[d].id # 0
           /\ Matched'
BY DEF GpuInv, Shapes, Matched, CallRecord, Steps

LEMMA SendStep == ASSUME GpuInv, NEW c \in Threads, Send(c) PROVE GpuInv'
<1>1. CASE process = "alive"
  <2>1. /\ requests' = Append(requests, [id |-> call[c].id, op |-> call[c].op])
        /\ rpc = {} /\ rpc' = {c} /\ call' = [call EXCEPT ![c].step = "waiting"]
    BY <1>1 DEF Send
  <2>2. [id |-> call[c].id, op |-> call[c].op] \in [id : 1..MaxRequests, op : Operations]
    BY GpuSupervisorAssumption DEF Send, GpuInv, Shapes, CallRecord
  <2>3. /\ requests' \in Seq([id : 1..MaxRequests, op : Operations])
        /\ Len(requests') = Len(requests) + 1
    BY <2>1, <2>2 DEF GpuInv, Shapes
  <2>4. Shapes' /\ Matched'
    <3>1. /\ call' \in [Threads -> CallRecord] /\ Matched'
          /\ \A d \in Threads : call'[d].step = "queued" => call'[d].id # 0
      BY <2>1, MovesOn
    <3> QED BY <2>1, <2>3, <3>1 DEF Send, GpuInv, Shapes, GpuTypeOK
  <2>5. OneHolder' /\ Quiet'
    BY <2>1, <2>3 DEF Send, GpuInv, Shapes, GpuTypeOK, OneHolder, Quiet
  <2> QED BY <2>4, <2>5 DEF GpuInv
<1>2. CASE process # "alive"
  <2>1. UNCHANGED <<requests, rpc>> /\ call' = [call EXCEPT ![c].step = "failed"]
    BY <1>2 DEF Send
  <2>2. /\ call' \in [Threads -> CallRecord] /\ Matched'
        /\ \A d \in Threads : call'[d].step = "queued" => call'[d].id # 0
    BY <2>1, MovesOn
  <2> QED BY <2>1, <2>2 DEF Send, GpuInv, Shapes, GpuTypeOK, OneHolder, Quiet
<1> QED BY <1>1, <1>2

LEMMA ReceiveStep == ASSUME GpuInv, NEW c \in Threads, Receive(c) PROVE GpuInv'
<1>1. PICK outcome \in {"failed"} \cup
               IF Accepts(call[c].id, Head(answers)) THEN {"accepted"} ELSE {} :
        call' = [call EXCEPT ![c].got = Head(answers), ![c].step = outcome]
  BY DEF Receive
<1>2. MaxRequests \in Nat /\ Head(answers) \in 1..MaxRequests /\ answers' = Tail(answers)
      /\ answers' \in Seq(1..MaxRequests) /\ Len(answers') = Len(answers) - 1
  BY GpuSupervisorAssumption DEF Receive, GpuInv, Shapes, GpuTypeOK
<1>3. outcome \in Steps /\ outcome # "queued" /\ outcome # "waiting"
      /\ (outcome = "accepted" => Head(answers) = call[c].id)
  BY <1>1 DEF Steps, Accepts
<1>4. Shapes'
  <2>1. call' \in [Threads -> CallRecord]
    <3>1. [call[c] EXCEPT !.got = Head(answers), !.step = outcome] \in CallRecord
      <4>1. call[c] \in CallRecord /\ Head(answers) \in 0..MaxRequests
        BY <1>2 DEF GpuInv, Shapes
      <4> QED BY <1>3, <4>1 DEF CallRecord
    <3>2. call' = [call EXCEPT ![c] = [call[c] EXCEPT !.got = Head(answers), !.step = outcome]]
      BY <1>1 DEF GpuInv, Shapes
    <3> QED BY <3>1, <3>2 DEF GpuInv, Shapes
  <2>2. \A d \in Threads : call'[d].step = "queued" => call'[d].id # 0
    BY <1>1, <1>3 DEF GpuInv, Shapes, CallRecord
  <2>3. GpuTypeOK'
    BY <1>2 DEF Receive, GpuInv, Shapes, GpuTypeOK
  <2> QED BY <2>1, <2>2, <2>3 DEF Receive, GpuInv, Shapes
<1>5. Matched'
  BY <1>1, <1>3 DEF GpuInv, Shapes, Matched, CallRecord
<1>6. OneHolder' /\ Quiet'
  BY <1>2 DEF Receive, GpuInv, Shapes, GpuTypeOK, OneHolder, Quiet
<1> QED BY <1>4, <1>5, <1>6 DEF GpuInv

LEMMA GiveUpStep == ASSUME GpuInv, NEW c \in Threads, GiveUp(c) PROVE GpuInv'
<1>1. /\ call' \in [Threads -> CallRecord] /\ Matched'
      /\ \A d \in Threads : call'[d].step = "queued" => call'[d].id # 0
  BY MovesOn DEF GiveUp
<1>2. givenUp' \in Nat /\ givenUp' # 0 /\ rpc' = {}
  BY DEF GiveUp, GpuInv, Shapes
<1> QED BY <1>1, <1>2 DEF GiveUp, GpuInv, Shapes, GpuTypeOK, OneHolder, Quiet

-----------------------------------------------------------------------------
(* The GPU worker: the callers, the worker *)

LEMMA CallerStepInv == ASSUME GpuInv, NEW c \in Callers, CallerStep(c) PROVE GpuInv'
<1>1. c \in Threads /\ {"INFER_TENSOR", "MODEL"} \subseteq Operations
  BY DEF Threads, Operations
<1>2. CASE Infer(c)
  <2>1. Calling(c, "INFER_TENSOR")
    BY <1>2 DEF Infer
  <2> QED BY <1>1, <1>2, <2>1, CallingStep
          DEF Infer, GpuInv, Shapes, GpuTypeOK, OneHolder, Quiet
<1>3. CASE AskModel(c)
  <2>1. Calling(c, "MODEL")
    BY <1>3 DEF AskModel
  <2> QED BY <1>1, <1>3, <2>1, CallingStep
          DEF AskModel, GpuInv, Shapes, GpuTypeOK, OneHolder, Quiet
<1>4. CASE NotReady(c)
  BY <1>4 DEF NotReady, GpuInv, Shapes, GpuTypeOK, Matched, OneHolder, Quiet
<1>5. CASE Return(c)
  <2>1. call' = [call EXCEPT ![c] = Idle]
    BY <1>5 DEF Return
  <2> QED BY <1>1, <1>5, <2>1, IdleStep DEF Return, GpuInv, Shapes, GpuTypeOK, OneHolder, Quiet
<1> QED BY <1>2, <1>3, <1>4, <1>5 DEF CallerStep

LEMMA WorkerStep == ASSUME GpuInv, Answer \/ WorkerDies PROVE GpuInv'
<1>1. CASE Answer
  <2>1. /\ Head(requests) \in [id : 1..MaxRequests, op : Operations]
        /\ Tail(requests) \in Seq([id : 1..MaxRequests, op : Operations])
        /\ Len(Tail(requests)) = Len(requests) - 1
    BY <1>1, HeadTailProperties DEF Answer, GpuInv, Shapes
  <2>2. /\ answers' = Append(answers, Head(requests).id) /\ answers' \in Seq(1..MaxRequests)
        /\ Len(answers') = Len(answers) + 1
    BY <1>1, <2>1 DEF Answer, GpuInv, Shapes, GpuTypeOK
  <2>3. Shapes'
    BY <1>1, <2>1, <2>2 DEF Answer, GpuInv, Shapes, GpuTypeOK
  <2>4. Quiet'
    BY <1>1, <2>1, <2>2 DEF Answer, GpuInv, Shapes, GpuTypeOK, Quiet
  <2> QED BY <1>1, <2>3, <2>4 DEF Answer, GpuInv, Matched, OneHolder
<1>2. CASE WorkerDies
  BY <1>2 DEF WorkerDies, GpuInv, Shapes, GpuTypeOK, Matched, OneHolder, Quiet
<1> QED BY <1>1, <1>2

-----------------------------------------------------------------------------
(* The GPU worker: the agent *)

\* A socket of a worker that is gone takes what it held with it.
LEMMA SocketGone ==
    ASSUME GpuInv, requests' = <<>>, answers' = <<>>, UNCHANGED <<givenUp, rpc>>
    PROVE  /\ Quiet' /\ answers' \in Seq(1..MaxRequests)
           /\ requests' \in Seq([id : 1..MaxRequests, op : Operations])
BY DEF Quiet

LEMMA LaunchStep == ASSUME GpuInv, Launch PROVE GpuInv'
<1>1. "agent" \in Threads /\ "HELLO" \in Operations /\ Calling("agent", "HELLO")
  BY DEF Threads, Operations, Launch
<1> QED BY <1>1, CallingStep DEF Launch, GpuInv, Shapes, GpuTypeOK, OneHolder, Quiet

LEMMA ConnectedStep == ASSUME GpuInv, Connected PROVE GpuInv'
<1>1. "agent" \in Threads /\ call' = [call EXCEPT !["agent"] = Idle]
  BY DEF Threads, Connected
<1>2. CASE UNCHANGED <<process, requests, answers>>
  BY <1>1, <1>2, IdleStep DEF Connected, GpuInv, Shapes, GpuTypeOK, OneHolder, Quiet
<1>3. CASE process' = "none" /\ requests' = <<>> /\ answers' = <<>>
  BY <1>1, <1>3, IdleStep, SocketGone DEF Connected, GpuInv, Shapes, GpuTypeOK, OneHolder
<1> QED BY <1>2, <1>3 DEF Connected

LEMMA CheckHealthStep == ASSUME GpuInv, CheckHealth PROVE GpuInv'
<1>1. "agent" \in Threads /\ "HEALTH" \in Operations
  BY DEF Threads, Operations
<1>2. CASE Calling("agent", "HEALTH") /\ UNCHANGED <<state, agent>>
  BY <1>1, <1>2, CallingStep DEF CheckHealth, GpuInv, Shapes, GpuTypeOK, OneHolder, Quiet
<1>3. CASE UNCHANGED <<call, issued>> /\ agent' = "recovering"
           /\ state' = IF state = "READY" THEN "DEGRADED" ELSE state
  BY <1>3 DEF CheckHealth, GpuInv, Shapes, GpuTypeOK, Matched, OneHolder, Quiet
<1> QED BY <1>2, <1>3 DEF CheckHealth

LEMMA CheckedStep == ASSUME GpuInv, Checked PROVE GpuInv'
<1>1. "agent" \in Threads /\ call' = [call EXCEPT !["agent"] = Idle]
  BY DEF Threads, Checked
<1> QED BY <1>1, IdleStep DEF Checked, GpuInv, Shapes, GpuTypeOK, OneHolder, Quiet

LEMMA RecoverStep == ASSUME GpuInv, Recover PROVE GpuInv'
BY GpuSupervisorAssumption DEF Recover, GpuInv, Shapes, GpuTypeOK, Matched, OneHolder, Quiet

LEMMA ShutdownStep == ASSUME GpuInv, Shutdown PROVE GpuInv'
<1>1. "agent" \in Threads /\ "SHUTDOWN" \in Operations /\ Calling("agent", "SHUTDOWN")
  BY DEF Threads, Operations, Shutdown
<1> QED BY <1>1, CallingStep DEF Shutdown, GpuInv, Shapes, GpuTypeOK, OneHolder, Quiet

LEMMA StoppedStep == ASSUME GpuInv, Stopped PROVE GpuInv'
<1>1. "agent" \in Threads /\ call' = [call EXCEPT !["agent"] = Idle]
  BY DEF Threads, Stopped
<1> QED BY <1>1, IdleStep, SocketGone DEF Stopped, GpuInv, Shapes, GpuTypeOK, OneHolder

LEMMA AgentStepInv == ASSUME GpuInv, AgentStep \/ WindowPasses \/ EndAgent PROVE GpuInv'
<1>1. CASE AgentStep
  BY <1>1, LaunchStep, ConnectedStep, CheckHealthStep, CheckedStep, RecoverStep, ShutdownStep,
     StoppedStep DEF AgentStep
<1>2. CASE WindowPasses
  BY <1>2, GpuSupervisorAssumption
     DEF WindowPasses, GpuInv, Shapes, GpuTypeOK, Matched, OneHolder, Quiet
<1>3. CASE EndAgent
  BY <1>3 DEF EndAgent, GpuInv, Shapes, GpuTypeOK, Matched, OneHolder, Quiet
<1> QED BY <1>1, <1>2, <1>3

LEMMA GpuStill == ASSUME GpuInv, UNCHANGED gpuVars PROVE GpuInv'
BY DEF gpuVars, GpuInv, Shapes, GpuTypeOK, Matched, OneHolder, Quiet

LEMMA GpuStepKeeps == ASSUME GpuInv, GpuNext PROVE GpuInv'
<1>1. CASE \E c \in Callers : CallerStep(c)
  BY <1>1, CallerStepInv
<1>2. CASE \E c \in Threads : RpcStep(c)
  BY <1>2, SendStep, ReceiveStep, GiveUpStep DEF RpcStep
<1>3. CASE Answer \/ WorkerDies \/ AgentStep \/ WindowPasses \/ EndAgent
  BY <1>3, WorkerStep, AgentStepInv
<1>4. QED
  BY <1>1, <1>2, <1>3 DEF GpuNext

-----------------------------------------------------------------------------
(* The GPU worker: theorems *)

\* The inductive invariant of the supervisor.
THEOREM GpuKept == GpuSpec => []GpuInv
<1>1. GpuInv /\ [GpuNext]_gpuVars => GpuInv'
  BY GpuStepKeeps, GpuStill
<1> QED BY <1>1, GpuStart, PTL DEF GpuSpec

\* gpu_worker/supervisor.py:229-261: the shapes of the supervisor's state, of the socket and of
\* the restart budget.
THEOREM GpuTyped == GpuSpec => []GpuTypeOK
<1>1. GpuInv => GpuTypeOK
  BY DEF GpuInv, Shapes
<1> QED BY <1>1, GpuKept, PTL

LEMMA GpuAnswers == GpuInv => AnswersMatch
<1> SUFFICES ASSUME GpuInv PROVE AnswersMatch
  OBVIOUS
<1>1. (rpc = {} => Cardinality(rpc) = 0) /\ (rpc # {} => Cardinality(rpc) = 1)
  BY FS_EmptySet, FS_Singleton DEF GpuInv, OneHolder
<1> QED BY <1>1 DEF GpuInv, Matched, Quiet, AnswersMatch

\* gpu_worker/supervisor.py:240-254: whatever is given up, restarted or lost, a result handed to a
\* caller answers its own request, and only given-up calls leave something in the socket.
THEOREM AnswersOwn == GpuSpec => []AnswersMatch
<1> QED BY GpuAnswers, GpuKept, PTL

-----------------------------------------------------------------------------
(* Reports: sets of tracks in the order of their ids *)

\* The members of a set of numbers not above one of them.
UpTo(S, x) == {y \in S : y <= x}

LEMMA RankGrows ==
  ASSUME NEW S \in SUBSET Nat, IsFiniteSet(S), NEW x \in S, NEW y \in S
  PROVE  /\ Cardinality(UpTo(S, x)) \in 1..Cardinality(S)
         /\ x < y => Cardinality(UpTo(S, x)) < Cardinality(UpTo(S, y))
<1>1. ASSUME NEW z \in S
      PROVE  IsFiniteSet(UpTo(S, z)) /\ Cardinality(UpTo(S, z)) \in 1..Cardinality(S)
  <2>1. UpTo(S, z) \in SUBSET S /\ UpTo(S, z) # {}
    BY DEF UpTo
  <2>2. IsFiniteSet(UpTo(S, z)) /\ Cardinality(UpTo(S, z)) <= Cardinality(S)
    BY <2>1, FS_Subset
  <2>3. Cardinality(UpTo(S, z)) \in Nat /\ Cardinality(S) \in Nat
    BY <2>2, FS_CardinalityType
  <2>4. Cardinality(UpTo(S, z)) # 0
    BY <2>1, <2>2, FS_EmptySet
  <2>5. QED
    BY <2>2, <2>3, <2>4
<1>2. ASSUME x < y PROVE Cardinality(UpTo(S, x)) < Cardinality(UpTo(S, y))
  <2>1. UpTo(S, x) \in SUBSET UpTo(S, y) /\ UpTo(S, x) # UpTo(S, y)
    <3>1. \A z \in S : z <= x => z <= y
      BY <1>2
    <3>2. y \in UpTo(S, y) /\ y \notin UpTo(S, x)
      BY <1>2 DEF UpTo
    <3>3. QED
      BY <3>1, <3>2 DEF UpTo
  <2>2. /\ Cardinality(UpTo(S, x)) <= Cardinality(UpTo(S, y))
        /\ Cardinality(UpTo(S, x)) # Cardinality(UpTo(S, y))
    BY <1>1, <2>1, FS_Subset
  <2>3. QED
    BY <1>1, <2>2
<1>3. QED
  BY <1>1, <1>2

LEMMA Rising ==
  ASSUME NEW S \in SUBSET Nat, IsFiniteSet(S), NEW order \in [1..Cardinality(S) -> S],
         \A i, j \in 1..Cardinality(S) : i < j => order[i] < order[j]
  PROVE  \A x \in S : \E i \in 1..Cardinality(S) : order[i] = x
<1>1. Cardinality(S) \in Nat
  BY FS_CardinalityType
<1>2. IsFiniteSet(1..Cardinality(S)) /\ Cardinality(1..Cardinality(S)) = Cardinality(S)
  BY <1>1, FS_Interval
<1>3. order \in Injection(1..Cardinality(S), S)
  <2>1. ASSUME NEW i \in 1..Cardinality(S), NEW j \in 1..Cardinality(S), order[i] = order[j] PROVE i = j
    <3>1. order[i] \in Nat /\ order[j] \in Nat
      OBVIOUS
    <3>2. i \in Nat /\ j \in Nat
      BY <1>1
    <3>3. ~(order[i] < order[j]) /\ ~(order[j] < order[i])
      BY <2>1, <3>1
    <3>4. ~(i < j) /\ ~(j < i)
      BY <3>3
    <3>5. QED
      BY <3>2, <3>4
  <2>2. QED
    BY <2>1 DEF Injection, IsInjective
<1>4. order \in Surjection(1..Cardinality(S), S)
  BY <1>2, <1>3, FS_Injection
<1>5. QED
  BY <1>4 DEF Surjection

LEMMA SortedSet ==
  ASSUME NEW S \in SUBSET Nat, IsFiniteSet(S)
  PROVE  /\ Cardinality(S) \in Nat /\ Sorted(S) \in [1..Cardinality(S) -> S]
         /\ \A x \in S : \E i \in 1..Cardinality(S) : Sorted(S)[i] = x
        /\ \A i, j \in 1..Cardinality(S) : i < j => Sorted(S)[i] # Sorted(S)[j]
<1>1. Cardinality(S) \in Nat
  BY FS_CardinalityType
<1> DEFINE n == Cardinality(S)
           rank == [x \in S |-> Cardinality(UpTo(S, x))]
           order == [i \in 1..n |-> CHOOSE x \in S : rank[x] = i]
<1>2. \A x, y \in S : rank[x] \in 1..n /\ (x < y => rank[x] < rank[y])
  BY RankGrows
<1>3. rank \in Surjection(S, 1..n)
  <2>1. IsFiniteSet(1..n) /\ Cardinality(1..n) = n
    BY <1>1, FS_Interval
  <2>2. rank \in [S -> 1..n]
    BY <1>2
  <2>3. ASSUME NEW x \in S, NEW y \in S, rank[x] = rank[y] PROVE x = y
    <3>1. x \in Nat /\ y \in Nat /\ rank[x] \in Nat /\ rank[y] \in Nat
      BY <1>1, <1>2
    <3>2. ~(rank[x] < rank[y]) /\ ~(rank[y] < rank[x])
      BY <2>3, <3>1
    <3>3. ~(x < y) /\ ~(y < x)
      BY <1>2, <3>2
    <3>4. QED
      BY <3>1, <3>3
  <2>4. rank \in Injection(S, 1..n)
    BY <2>2, <2>3 DEF Injection, IsInjective
  <2>5. QED
    BY <2>1, <2>4, FS_Injection
<1>4. \A i \in 1..n : order[i] \in S /\ rank[order[i]] = i
  <2>1. ASSUME NEW i \in 1..n PROVE order[i] \in S /\ rank[order[i]] = i
    <3>1. \E x \in S : rank[x] = i
      BY <1>3 DEF Surjection
    <3>2. order[i] = CHOOSE x \in S : rank[x] = i
      OBVIOUS
    <3>3. QED
      BY <3>1, <3>2
  <2>2. QED
    BY <2>1
<1> HIDE DEF rank
<1>5. order \in [1..n -> S]
  BY <1>4
<1>6. \A i, j \in 1..n : i < j => order[i] < order[j]
  <2>1. ASSUME NEW i \in 1..n, NEW j \in 1..n, i < j PROVE order[i] < order[j]
    <3>1. order[i] \in S /\ order[j] \in S
      BY <1>4
    <3>2. i \in Nat /\ j \in Nat
      BY <1>1
    <3>3. order[i] \in Nat /\ order[j] \in Nat
      BY <3>1
    <3>4. order[i] # order[j]
      BY <1>4, <2>1, <3>2
    <3>5. ~(order[j] < order[i])
      BY <1>2, <1>4, <2>1, <3>1, <3>2, <3>3
    <3>6. QED
      BY <3>3, <3>4, <3>5
  <2>2. QED
    BY <2>1
<1> HIDE DEF order
<1>7. /\ Sorted(S) \in [1..n -> S]
      /\ \A i, j \in 1..n : i < j => Sorted(S)[i] < Sorted(S)[j]
  BY <1>5, <1>6 DEF Sorted
<1>8. \A i, j \in 1..n : i < j => Sorted(S)[i] # Sorted(S)[j]
  <2>1. ASSUME NEW i \in 1..n, NEW j \in 1..n, i < j PROVE Sorted(S)[i] # Sorted(S)[j]
    <3>1. Sorted(S)[i] \in Nat /\ Sorted(S)[i] < Sorted(S)[j]
      BY <1>7, <2>1
    <3>2. QED
      BY <3>1
  <2>2. QED
    BY <2>1
<1>9. QED
  BY <1>1, <1>7, <1>8, Rising

\* A track that is tentative has not been seen often enough.
Maturing == {track \in Track : track.state = "TENTATIVE" => track.observations < Confirmation}
\* Ids are given in order: a track not yet begun is not there.
Begun ==
    /\ tracker.tracks \in [TrackIds -> Maturing \cup {Unborn}]
    /\ \A t \in TrackIds : t >= tracker.next => tracker.tracks[t] = Unborn

LEMMA TrackRecords ==
  /\ Unborn \notin Maturing /\ MaxTracks \in Nat /\ Confirmation \in Nat \ {0}
  /\ Fresh \in Maturing
  /\ \A track \in Maturing, fate \in {"high", "low", "missed"} : fate \in Fates(track) => After(track, fate) \in Maturing \cup {Unborn}
<1>1. MaxTracks \in Nat /\ Confirmation \in Nat \ {0}
  BY PersonTrackingAssumption
<1>2. Unborn \notin Maturing
  BY DEF Unborn, Maturing, Track
<1>3. Fresh \in Maturing
  BY <1>1 DEF Fresh, Maturing, Track
<1>4. ASSUME NEW track \in Maturing, NEW fate \in {"high", "low", "missed"}, fate \in Fates(track)
      PROVE  After(track, fate) \in Maturing \cup {Unborn}
  <2>1. /\ track.state \in {"TENTATIVE", "CONFIRMED", "LOST"} /\ track.observations \in 1..Confirmation
        /\ track.state = "TENTATIVE" => track.observations < Confirmation
    BY DEF Maturing, Track
  <2>2. CASE track.state = "TENTATIVE" /\ fate = "missed"
    BY <2>2 DEF After
  <2>3. CASE track.state = "TENTATIVE" /\ fate # "missed"
    <3>1. PICK n : n = track.observations + 1
      OBVIOUS
    <3>2. After(track, fate) = [state |-> IF n >= Confirmation THEN "CONFIRMED" ELSE "TENTATIVE", observations |-> n]
      BY <2>3, <3>1 DEF After
    <3>3. n \in 1..Confirmation /\ n \in Nat
      BY <1>1, <2>1, <2>3, <3>1
    <3>4. CASE n >= Confirmation
      BY <3>2, <3>3, <3>4 DEF Maturing, Track
    <3>5. CASE ~(n >= Confirmation)
      BY <1>1, <3>2, <3>3, <3>5 DEF Maturing, Track
    <3>6. QED
      BY <3>4, <3>5
  <2>4. CASE track.state # "TENTATIVE"
    <3>1. After(track, fate) = [track EXCEPT !.state = IF fate = "missed" THEN "LOST" ELSE "CONFIRMED"]
      BY <2>4 DEF After
    <3>2. QED
      BY <2>1, <3>1 DEF Maturing, Track
  <2>5. QED
    BY <2>2, <2>3, <2>4
<1>5. QED
  BY <1>1, <1>2, <1>3, <1>4

\* What a frame starts from is a stream, with the ids that were given.
LEMMA BaseStands ==
  ASSUME TrackerTypeOK, Begun, NEW size, NEW broke \in BOOLEAN
  PROVE  /\ Base(size, broke).tracks \in [TrackIds -> Maturing \cup {Unborn}]
         /\ Base(size, broke).next \in 1..(MaxTracks + 1)
         /\ \A t \in TrackIds : t >= Base(size, broke).next => Base(size, broke).tracks[t] = Unborn
         /\ tracker.picture = size \/ ~broke =>
               /\ Base(size, broke).next = tracker.next
               /\ \A t \in TrackIds : broke \/ tracker.tracks[t] = Unborn => Base(size, broke).tracks[t] = Unborn
<1>1. CASE broke
  <2>1. Base(size, broke).tracks = [t \in TrackIds |-> Unborn]
    BY <1>1 DEF Base, NoStream
  <2>2. Base(size, broke).next = IF tracker.picture = size THEN tracker.next ELSE 1
    BY <1>1 DEF Base, NoStream
  <2>3. MaxTracks \in Nat /\ tracker.next \in 1..(MaxTracks + 1)
    BY TrackRecords DEF TrackerTypeOK
  <2>4. Base(size, broke).next \in 1..(MaxTracks + 1)
    BY <2>2, <2>3
  <2>5. \A t \in TrackIds : Base(size, broke).tracks[t] = Unborn
    BY <2>1
  <2>6. QED
    BY <1>1, <2>1, <2>2, <2>4, <2>5
<1>2. CASE ~broke
  BY <1>2 DEF Base, TrackerTypeOK, Begun
<1>3. QED
  BY <1>1, <1>2

\* One frame: the types stay, what is reported removed is gone, what is reported seen has begun, and
\* without a new picture an id that was given and is gone, or goes with a break, is not seen again.
LEMMA UpdateStands ==
  ASSUME TrackerTypeOK, Begun, NEW size, NEW d \in BOOLEAN, NEW gap \in BOOLEAN, Update(size, d, gap)
  PROVE  /\ TrackerTypeOK' /\ Begun' /\ tracker'.picture = size
         /\ result'.discontinuity = Breaks(size, d, gap)
         /\ result'.confirmed \cap result'.removed = {}
         /\ \A t \in result'.confirmed : t < tracker'.next
         /\ \A t \in result'.removed : tracker'.tracks[t] = Unborn
         /\ tracker.picture = size \/ ~result'.discontinuity =>
               /\ tracker'.next >= tracker.next
               /\ \A t \in TrackIds : t < tracker.next /\ (tracker.tracks[t] = Unborn \/ result'.discontinuity) =>
                     tracker'.tracks[t] = Unborn /\ t \notin result'.confirmed
<1> DEFINE broke == Breaks(size, d, gap)
           base == Base(size, broke)
           old == base.tracks
           alive == {t \in TrackIds : old[t] # Unborn}
<1>2. broke \in BOOLEAN
  BY DEF Breaks
<1> DEFINE Frame(expired, failed, fate) ==
             /\ \A t \in DOMAIN fate : fate[t] \in Fates(old[t])
             /\ \E new \in SUBSET Beginning(base.next, Fated(old, fate)) :
                   Settle(size, broke, base.next + Cardinality(new), Joined(Fated(old, fate), new),
                          new \cup {t \in DOMAIN fate : fate[t] = "high"},
                          expired \cup Unreported(failed)
                             \cup {t \in DOMAIN fate : Joined(Fated(old, fate), new)[t] = Unborn})
<1>6. PICK expired \in SUBSET In(old, "LOST") : \E failed \in SUBSET (alive \ expired) :
        \E fate \in [alive \ (expired \cup failed) -> {"high", "low", "missed"}] : Frame(expired, failed, fate)
  BY DEF Update
<1>63. /\ old \in [TrackIds -> Maturing \cup {Unborn}] /\ base.next \in 1..(MaxTracks + 1)
       /\ \A t \in TrackIds : t >= base.next => old[t] = Unborn
       /\ tracker.picture = size \/ ~broke =>
             /\ base.next = tracker.next
             /\ \A t \in TrackIds : broke \/ tracker.tracks[t] = Unborn => old[t] = Unborn
  BY <1>2, BaseStands
<1>5. alive = {t \in TrackIds : old[t] # Unborn}
  OBVIOUS
<1>1. broke = Breaks(size, d, gap)
  OBVIOUS
<1> HIDE DEF base, old, alive, broke
<1>61. PICK failed \in SUBSET (alive \ expired) :
        \E fate \in [alive \ (expired \cup failed) -> {"high", "low", "missed"}] : Frame(expired, failed, fate)
  BY <1>6
<1>62. PICK fate \in [alive \ (expired \cup failed) -> {"high", "low", "missed"}] : Frame(expired, failed, fate)
  BY <1>61
<1>8. PICK matched : matched = Fated(old, fate)
  OBVIOUS
<1>9. \A t \in DOMAIN fate : fate[t] \in Fates(old[t])
  BY <1>62
<1>10. PICK new \in SUBSET Beginning(base.next, matched) :
              Settle(size, broke, base.next + Cardinality(new), Joined(matched, new),
                     new \cup {t \in DOMAIN fate : fate[t] = "high"},
                     expired \cup {} \cup {t \in DOMAIN fate : Joined(matched, new)[t] = Unborn})
  BY <1>62, <1>8 DEF Unreported
<1> HIDE DEF Frame
<1>11. PICK now : now = Joined(matched, new)
  OBVIOUS
<1>12. PICK twins \in SUBSET In(now, "CONFIRMED"), excess \in SUBSET In(now, "LOST") :
         /\ tracker' = [picture |-> size, next |-> base.next + Cardinality(new),
                        tracks |-> [t \in TrackIds |-> IF t \in twins \cup excess THEN Unborn ELSE now[t]]]
         /\ result' = [confirmed |-> In(now, "CONFIRMED") \ twins,
                       high |-> (new \cup {t \in DOMAIN fate : fate[t] = "high"}) \cap (In(now, "CONFIRMED") \ twins),
                       removed |-> (expired \cup {} \cup {t \in DOMAIN fate : now[t] = Unborn}) \cup twins \cup excess,
                       discontinuity |-> broke]
  BY <1>10, <1>11 DEF Settle
<1>13. /\ old \in [TrackIds -> Maturing \cup {Unborn}] /\ base.next \in 1..(MaxTracks + 1)
       /\ \A t \in TrackIds : t >= base.next => old[t] = Unborn
  BY <1>63
<1>14. DOMAIN fate \subseteq alive /\ DOMAIN fate \cap expired = {} /\ alive \subseteq TrackIds
  BY <1>5
<1>15. matched \in [TrackIds -> Maturing \cup {Unborn}]
  <2>1. ASSUME NEW t \in DOMAIN fate PROVE After(old[t], fate[t]) \in Maturing \cup {Unborn}
    <3>1. old[t] \in Maturing /\ fate[t] \in {"high", "low", "missed"} /\ fate[t] \in Fates(old[t])
      BY <1>5, <1>9, <1>13, <1>14
    <3>2. QED
      BY <3>1, TrackRecords
  <2>2. QED
    BY <1>8, <2>1 DEF Fated
<1>16. \A t \in TrackIds : t \notin DOMAIN fate => matched[t] = Unborn
  BY <1>8 DEF Fated
<1>17. now \in [TrackIds -> Maturing \cup {Unborn}]
  BY <1>11, <1>15, TrackRecords DEF Joined
<1>18. \/ new = {} /\ Cardinality(new) = 0
       \/ new = {base.next} /\ Cardinality(new) = 1 /\ base.next <= MaxTracks
  <2>1. new \in SUBSET {base.next} /\ (new # {} => base.next <= MaxTracks)
    BY DEF Beginning
  <2>2. new = {} \/ new = {base.next}
    BY <2>1
  <2>3. Cardinality({}) = 0 /\ Cardinality({base.next}) = 1
    BY FS_EmptySet, FS_Singleton
  <2>4. CASE new = {}
    BY <2>3, <2>4
  <2>5. CASE new = {base.next}
    <3>1. base.next <= MaxTracks
      BY <2>1, <2>5
    <3>2. QED
      BY <2>3, <2>5, <3>1
  <2>6. QED
    BY <2>2, <2>4, <2>5
<1>19. /\ tracker'.next = base.next + Cardinality(new) /\ tracker'.next \in 1..(MaxTracks + 1)
       /\ tracker'.next >= base.next
       /\ \A t \in TrackIds : t >= tracker'.next => t >= base.next /\ t \notin new
  <2>1. tracker'.next = base.next + Cardinality(new)
    BY <1>12
  <2>2. QED
    BY <1>13, <1>18, <2>1, TrackRecords DEF TrackIds
<1>20. \A t \in TrackIds : tracker'.tracks[t] = IF t \in twins \cup excess THEN Unborn ELSE now[t]
  BY <1>12
<1>21. \A t \in In(now, "CONFIRMED") \cup In(now, "LOST") : t \in TrackIds /\ now[t] # Unborn
  BY DEF In, Unborn
<1>22. \A t \in TrackIds : now[t] # Unborn => t \in new \/ t \in DOMAIN fate
  BY <1>11, <1>16 DEF Joined
<1>31. tracker'.tracks \in [TrackIds -> Maturing \cup {Unborn}]
  BY <1>12, <1>17
<1>23. TrackerTypeOK'
  <2>1. tracker'.tracks \in [TrackIds -> Track \cup {Unborn}]
    <3>1. Maturing \subseteq Track
      BY DEF Maturing
    <3>2. QED
      BY <1>31, <3>1
  <2>2. /\ In(now, "CONFIRMED") \ twins \in SUBSET TrackIds
        /\ (expired \cup {} \cup {t \in DOMAIN fate : now[t] = Unborn}) \cup twins \cup excess \in SUBSET TrackIds
    BY <1>14 DEF In
  <2>3. result' \in [confirmed : SUBSET TrackIds, high : SUBSET TrackIds, removed : SUBSET TrackIds,
                     discontinuity : BOOLEAN]
    BY <1>2, <1>12, <2>2
  <2>4. QED
    BY <1>19, <2>1, <2>3 DEF TrackerTypeOK
<1>24. \A t \in TrackIds : t >= tracker'.next => now[t] = Unborn
  <2>1. ASSUME NEW t \in TrackIds, t >= tracker'.next PROVE now[t] = Unborn
    <3>1. old[t] = Unborn /\ t \notin new
      BY <1>13, <1>19, <2>1
    <3>2. t \notin DOMAIN fate
      BY <1>5, <1>14, <3>1
    <3>3. QED
      BY <1>22, <3>1, <3>2
  <2>2. QED
    BY <2>1
<1>25. Begun' /\ tracker'.picture = size /\ result'.discontinuity = broke
  <2>1. \A t \in TrackIds : t >= tracker'.next => tracker'.tracks[t] = Unborn
    BY <1>20, <1>24
  <2>2. QED
    BY <1>12, <1>31, <2>1 DEF Begun
<1>26. \A t \in TrackIds : t \in result'.confirmed <=> t \in In(now, "CONFIRMED") /\ t \notin twins
  BY <1>12
<1>27. ASSUME NEW t \in result'.confirmed PROVE t \in TrackIds /\ now[t] # Unborn /\ t \notin result'.removed /\ t < tracker'.next
  <2>1. t \in In(now, "CONFIRMED") /\ t \notin twins
    BY <1>12
  <2>2. t \in TrackIds /\ now[t].state = "CONFIRMED"
    BY <2>1 DEF In
  <2>3. now[t] # Unborn
    BY <1>21, <2>1
  <2>4. t \notin excess
    BY <2>2 DEF In
  <2>5. t \notin expired
    <3>1. CASE t \in new
      <4>1. old[t] = Unborn
        BY <1>13, <1>18, <2>2, <3>1 DEF TrackIds
      <4>2. QED
        BY <4>1 DEF In, Unborn
    <3>2. CASE t \notin new
      BY <1>14, <1>22, <2>2, <2>3, <3>2
    <3>3. QED
      BY <3>1, <3>2
  <2>6. ~(t >= tracker'.next)
    BY <1>24, <2>2, <2>3
  <2>7. t \in Int /\ tracker'.next \in Int
    BY <1>19, <2>2, TrackRecords DEF TrackIds
  <2>8. result'.removed = (expired \cup {} \cup {u \in DOMAIN fate : now[u] = Unborn}) \cup twins \cup excess
    BY <1>12
  <2>9. QED
    BY <2>1, <2>2, <2>3, <2>4, <2>5, <2>6, <2>7, <2>8
<1>28. ASSUME NEW t \in result'.removed PROVE tracker'.tracks[t] = Unborn
  <2>1. result'.removed = (expired \cup {} \cup {u \in DOMAIN fate : now[u] = Unborn}) \cup twins \cup excess
    BY <1>12
  <2>2. CASE t \in twins \cup excess
    BY <1>20, <1>21, <2>2
  <2>3. CASE t \in DOMAIN fate /\ now[t] = Unborn
    BY <1>14, <1>20, <2>3
  <2>4. CASE t \in expired
    <3>1. t \in TrackIds /\ old[t] # Unborn
      BY <2>4 DEF In, Unborn
    <3>2. t \notin new
      BY <1>13, <1>18, <3>1 DEF TrackIds
    <3>3. t \notin DOMAIN fate
      BY <1>14, <2>4
    <3>4. now[t] = Unborn
      BY <1>22, <3>1, <3>2, <3>3
    <3>5. QED
      BY <1>20, <3>1, <3>4
  <2>5. QED
    BY <2>1, <2>2, <2>3, <2>4
<1>29. ASSUME tracker.picture = size \/ ~broke
       PROVE  /\ tracker'.next >= tracker.next
              /\ \A t \in TrackIds : t < tracker.next /\ (tracker.tracks[t] = Unborn \/ broke) =>
                    tracker'.tracks[t] = Unborn /\ t \notin result'.confirmed
  <2>1. base.next = tracker.next /\ \A t \in TrackIds : broke \/ tracker.tracks[t] = Unborn => old[t] = Unborn
    BY <1>29, <1>63
  <2>2. ASSUME NEW t \in TrackIds, t < tracker.next, tracker.tracks[t] = Unborn \/ broke
        PROVE  tracker'.tracks[t] = Unborn /\ t \notin result'.confirmed
    <3>1. old[t] = Unborn
      BY <2>1, <2>2
    <3>2. t \notin DOMAIN fate
      BY <1>5, <1>14, <3>1
    <3>3. t \notin new
      BY <1>13, <1>18, <2>1, <2>2 DEF TrackIds
    <3>4. now[t] = Unborn
      BY <1>22, <3>2, <3>3
    <3>5. QED
      BY <1>20, <1>27, <3>4
  <2>3. QED
    BY <1>19, <2>1, <2>2
<1>30. QED
  BY <1>1, <1>23, <1>25, <1>27, <1>28, <1>29

-----------------------------------------------------------------------------
(* Records: what a timeline says of a track *)

Records == Seq([kind : {"observation"}, track : TrackIds, starts : BOOLEAN]
               \cup [kind : {"summary"}, track : TrackIds])
Observes(record, t) == record.kind = "observation" /\ record.track = t

\* No record is about the track; none observes it; the last record about it observes it.
Silent(s, t) == \A i \in 1..Len(s) : s[i].track # t
Unseen(s, t) == \A i \in 1..Len(s) : ~Observes(s[i], t)
EndsSeen(s, t) == \E i \in 1..Len(s) : Observes(s[i], t) /\ \A j \in (i + 1)..Len(s) : s[j].track # t

LEMMA RecordsSplit ==
  ASSUME NEW s \in Records, s # <<>>, NEW t
  PROVE  /\ Tail(s) \in Records /\ Len(s) \in Nat /\ Head(s) = s[1]
         /\ Head(s) \in [kind : {"observation"}, track : TrackIds, starts : BOOLEAN]
                \cup [kind : {"summary"}, track : TrackIds]
         /\ Unseen(s, t) => Unseen(Tail(s), t) /\ ~Observes(Head(s), t)
         /\ Silent(s, t) <=> Head(s).track # t /\ Silent(Tail(s), t)
         /\ EndsSeen(s, t) <=> \/ EndsSeen(Tail(s), t)
                               \/ Observes(Head(s), t) /\ Silent(Tail(s), t)
<1>1. /\ Tail(s) \in Records /\ Len(s) \in Nat /\ Head(s) = s[1] /\ Len(Tail(s)) = Len(s) - 1 /\ Len(s) > 0
      /\ Head(s) \in [kind : {"observation"}, track : TrackIds, starts : BOOLEAN]
                \cup [kind : {"summary"}, track : TrackIds]
  BY HeadTailProperties DEF Records
<1>2. \A i \in 1..(Len(s) - 1) : Tail(s)[i] = s[i + 1]
  BY <1>1, HeadTailProperties DEF Records
<1>3. \A j \in 2..Len(s) : s[j] = Tail(s)[j - 1] /\ j - 1 \in 1..(Len(s) - 1)
  BY <1>1, <1>2
<1>4. \A i \in 1..(Len(s) - 1) : i + 1 \in 2..Len(s)
  BY <1>1
<1>5. \A i \in 1..Len(s) : i = 1 \/ i \in 2..Len(s)
  BY <1>1
<1>6. 1 \in 1..Len(s) /\ \A i \in 2..Len(s) : i \in 1..Len(s)
  BY <1>1
<1>7. Unseen(s, t) => Unseen(Tail(s), t) /\ ~Observes(Head(s), t)
  BY <1>1, <1>2, <1>4, <1>6 DEF Unseen
<1>8. Silent(s, t) <=> Head(s).track # t /\ Silent(Tail(s), t)
  BY <1>1, <1>2, <1>3, <1>4, <1>5, <1>6 DEF Silent
<1>9. ASSUME EndsSeen(s, t) PROVE EndsSeen(Tail(s), t) \/ (Observes(Head(s), t) /\ Silent(Tail(s), t))
  <2>1. PICK i \in 1..Len(s) : Observes(s[i], t) /\ \A j \in (i + 1)..Len(s) : s[j].track # t
    BY <1>9 DEF EndsSeen
  <2>2. CASE i = 1
    <3>1. \A j \in 1..(Len(s) - 1) : j + 1 \in (i + 1)..Len(s)
      BY <1>1, <2>2
    <3>2. Silent(Tail(s), t)
      BY <1>1, <1>2, <2>1, <3>1 DEF Silent
    <3>3. QED
      BY <1>1, <2>1, <2>2, <3>2
  <2>3. CASE i \in 2..Len(s)
    <3>1. i - 1 \in 1..(Len(s) - 1) /\ Observes(Tail(s)[i - 1], t)
      BY <1>3, <2>1, <2>3
    <3>2. \A j \in (i - 1 + 1)..(Len(s) - 1) : j + 1 \in (i + 1)..Len(s) /\ j \in 1..(Len(s) - 1)
      BY <1>1, <2>3
    <3>3. \A j \in (i - 1 + 1)..(Len(s) - 1) : Tail(s)[j].track # t
      BY <1>2, <2>1, <3>2
    <3>4. QED
      BY <1>1, <3>1, <3>3 DEF EndsSeen
  <2>4. QED
    BY <1>5, <2>2, <2>3
<1>10. ASSUME EndsSeen(Tail(s), t) PROVE EndsSeen(s, t)
  <2>1. PICK i \in 1..(Len(s) - 1) :
          Observes(Tail(s)[i], t) /\ \A j \in (i + 1)..(Len(s) - 1) : Tail(s)[j].track # t
    BY <1>1, <1>10 DEF EndsSeen
  <2>2. i + 1 \in 1..Len(s) /\ Observes(s[i + 1], t)
    BY <1>2, <1>4, <1>6, <2>1
  <2>3. ASSUME NEW j \in (i + 1 + 1)..Len(s) PROVE s[j].track # t
    <3>1. j \in 2..Len(s) /\ j - 1 \in (i + 1)..(Len(s) - 1)
      BY <1>1, <2>3
    <3>2. QED
      BY <1>3, <2>1, <3>1
  <2>4. QED
    BY <2>2, <2>3 DEF EndsSeen
<1>11. ASSUME Observes(Head(s), t), Silent(Tail(s), t) PROVE EndsSeen(s, t)
  <2>1. \A j \in (1 + 1)..Len(s) : s[j].track # t
    BY <1>1, <1>3, <1>11 DEF Silent
  <2>2. QED
    BY <1>1, <1>6, <1>11, <2>1 DEF EndsSeen
<1>12. QED
  BY <1>1, <1>7, <1>8, <1>9, <1>10, <1>11

LEMMA RecordsJoined ==
  ASSUME NEW a \in Records, NEW b \in Records, NEW t
  PROVE  /\ a \o b \in Records
         /\ Unseen(a \o b, t) <=> Unseen(a, t) /\ Unseen(b, t)
         /\ Silent(a \o b, t) <=> Silent(a, t) /\ Silent(b, t)
         /\ EndsSeen(b, t) => EndsSeen(a \o b, t)
         /\ EndsSeen(a \o b, t) => EndsSeen(b, t) \/ (EndsSeen(a, t) /\ Silent(b, t))
<1> DEFINE c == a \o b  m == Len(a)  n == Len(b)
<1>1. /\ c \in Records /\ Len(c) = m + n /\ m \in Nat /\ n \in Nat
      /\ \A i \in 1..(m + n) : c[i] = IF i <= m THEN a[i] ELSE b[i - m]
  BY ConcatProperties DEF Records
<1> HIDE DEF c
<1>2. \A i \in 1..m : i \in 1..(m + n) /\ c[i] = a[i]
  BY <1>1
<1>3. \A i \in 1..n : i + m \in 1..(m + n) /\ c[i + m] = b[i]
  BY <1>1
<1>4. \A i \in 1..(m + n) : i \in 1..m \/ (i - m \in 1..n /\ c[i] = b[i - m])
  BY <1>1
<1>5. Unseen(c, t) <=> Unseen(a, t) /\ Unseen(b, t)
  BY <1>1, <1>2, <1>3, <1>4 DEF Unseen
<1>6. Silent(c, t) <=> Silent(a, t) /\ Silent(b, t)
  BY <1>1, <1>2, <1>3, <1>4 DEF Silent
<1>7. ASSUME EndsSeen(b, t) PROVE EndsSeen(c, t)
  <2>1. PICK i \in 1..n : Observes(b[i], t) /\ \A j \in (i + 1)..n : b[j].track # t
    BY <1>7 DEF EndsSeen
  <2>2. i + m \in 1..(m + n) /\ Observes(c[i + m], t)
    BY <1>3, <2>1
  <2>3. ASSUME NEW j \in (i + m + 1)..(m + n) PROVE c[j].track # t
    <3>1. j \in 1..(m + n) /\ j \notin 1..m /\ j - m \in (i + 1)..n
      BY <1>1, <2>3
    <3>2. QED
      BY <1>4, <2>1, <3>1
  <2>4. QED
    BY <1>1, <2>2, <2>3 DEF EndsSeen
<1>8. ASSUME EndsSeen(c, t) PROVE EndsSeen(b, t) \/ (EndsSeen(a, t) /\ Silent(b, t))
  <2>1. PICK i \in 1..(m + n) : Observes(c[i], t) /\ \A j \in (i + 1)..(m + n) : c[j].track # t
    BY <1>1, <1>8 DEF EndsSeen
  <2>2. CASE i \in 1..m
    <3>1. Observes(a[i], t)
      BY <1>2, <2>1, <2>2
    <3>2. \A j \in (i + 1)..m : j \in 1..m /\ j \in (i + 1)..(m + n)
      BY <1>1, <2>2
    <3>3. \A j \in (i + 1)..m : a[j].track # t
      BY <1>2, <2>1, <3>2
    <3>4. \A j \in 1..n : j + m \in (i + 1)..(m + n)
      BY <1>1, <2>2
    <3>5. Silent(b, t)
      BY <1>3, <2>1, <3>4 DEF Silent
    <3>6. QED
      BY <2>2, <3>1, <3>3, <3>5 DEF EndsSeen
  <2>3. CASE i - m \in 1..n /\ c[i] = b[i - m]
    <3>1. \A j \in (i - m + 1)..n : j + m \in (i + 1)..(m + n) /\ j \in 1..n
      BY <1>1, <2>3
    <3>2. \A j \in (i - m + 1)..n : b[j].track # t
      BY <1>3, <2>1, <3>1
    <3>3. QED
      BY <2>1, <2>3, <3>2 DEF EndsSeen
  <2>4. QED
    BY <1>4, <2>1, <2>2, <2>3
<1>9. QED
  BY <1>1, <1>5, <1>6, <1>7, <1>8 DEF c

LEMMA EndsBefore ==
  ASSUME NEW a \in Records, NEW b \in Records, NEW t, EndsSeen(a, t), Silent(b, t)
  PROVE  EndsSeen(a \o b, t)
<1> DEFINE c == a \o b  m == Len(a)  n == Len(b)
<1>1. /\ c \in Records /\ Len(c) = m + n /\ m \in Nat /\ n \in Nat
      /\ \A i \in 1..(m + n) : c[i] = IF i <= m THEN a[i] ELSE b[i - m]
  BY ConcatProperties DEF Records
<1> HIDE DEF c
<1>2. PICK i \in 1..m : Observes(a[i], t) /\ \A j \in (i + 1)..m : a[j].track # t
  BY DEF EndsSeen
<1>3. i \in 1..(m + n) /\ Observes(c[i], t)
  BY <1>1, <1>2
<1>4. ASSUME NEW j \in (i + 1)..(m + n) PROVE c[j].track # t
  <2>1. CASE j <= m
    <3>1. j \in (i + 1)..m /\ j \in 1..(m + n)
      BY <1>1, <1>2, <1>4, <2>1
    <3>2. QED
      BY <1>1, <1>2, <2>1, <3>1
  <2>2. CASE ~(j <= m)
    <3>1. j - m \in 1..n /\ j \in 1..(m + n)
      BY <1>1, <1>2, <1>4, <2>2
    <3>2. QED
      BY <1>1, <2>2, <3>1 DEF Silent
  <2>3. QED
    BY <2>1, <2>2
<1>5. EndsSeen(c, t)
  BY <1>1, <1>3, <1>4 DEF EndsSeen
<1>6. QED
  BY <1>5 DEF c

LEMMA TracksFinite == ASSUME NEW S \in SUBSET TrackIds PROVE IsFiniteSet(S) /\ S \in SUBSET Nat
<1>1. MaxTracks \in Nat
  BY PersonTrackingAssumption
<1>2. IsFiniteSet(TrackIds) /\ TrackIds \in SUBSET Nat
  BY <1>1, FS_Interval DEF TrackIds
<1>3. QED
  BY <1>2, FS_Subset

LEMMA NumberedSeq ==
  ASSUME NEW S, NEW n \in Nat, NEW f \in [1..n -> S]
  PROVE  f \in Seq(S) /\ Len(f) = n
<1>1. f \in Seq(S)
  BY SeqDef
<1>2. Len(f) \in Nat /\ 1..Len(f) = 1..n
  BY <1>1, LenProperties
<1>3. QED
  BY <1>1, <1>2

\* A report of endings, and one of sightings, is about the tracks it is made of.
LEMMA SummariesSay ==
  ASSUME NEW S \in SUBSET TrackIds, NEW t
  PROVE  /\ Summaries(S) \in Records
         /\ \A i \in 1..Len(Summaries(S)) : Summaries(S)[i].kind = "summary" /\ Summaries(S)[i].track \in S
         /\ Unseen(Summaries(S), t) /\ ~EndsSeen(Summaries(S), t)
         /\ Silent(Summaries(S), t) <=> t \notin S
         /\ Summaries(S) = <<>> => S = {}
<1> DEFINE n == Cardinality(S)
<1>1. /\ n \in Nat /\ Sorted(S) \in [1..n -> S] /\ \A x \in S : \E i \in 1..n : Sorted(S)[i] = x
  BY TracksFinite, SortedSet
<1>2. Summaries(S) = [i \in 1..n |-> [kind |-> "summary", track |-> Sorted(S)[i]]]
  BY DEF Summaries, Summary
<1> HIDE DEF n
<1>3. \A i \in 1..n : Sorted(S)[i] \in S /\ S \subseteq TrackIds
  BY <1>1
<1>4. Summaries(S) \in [1..n -> [kind : {"summary"}, track : TrackIds]]
  BY <1>2, <1>3
<1>5. Summaries(S) \in Seq([kind : {"summary"}, track : TrackIds]) /\ Len(Summaries(S)) = n
  <2>1. \A T : Summaries(S) \in [1..n -> T] => Summaries(S) \in Seq(T) /\ Len(Summaries(S)) = n
    BY <1>1, NumberedSeq
  <2>2. QED
    BY <1>4, <2>1
<1>6. \A i \in 1..n : Summaries(S)[i].kind = "summary" /\ Summaries(S)[i].track = Sorted(S)[i]
  BY <1>2
<1>7. Summaries(S) \in Records
  BY <1>5, SeqMonotonic DEF Records
<1>8. Silent(Summaries(S), t) <=> t \notin S
  BY <1>1, <1>3, <1>5, <1>6 DEF Silent
<1>9. Unseen(Summaries(S), t) /\ ~EndsSeen(Summaries(S), t)
  BY <1>5, <1>6 DEF Unseen, EndsSeen, Observes
<1>10. Summaries(S) = <<>> => S = {}
  BY <1>1, <1>5
<1>11. QED
  BY <1>3, <1>5, <1>6, <1>7, <1>8, <1>9, <1>10

LEMMA ObservationsSay ==
  ASSUME NEW S \in SUBSET TrackIds, NEW known, NEW t
  PROVE  /\ Observations(S, known) \in Records
         /\ \A i \in 1..Len(Observations(S, known)) :
               Observations(S, known)[i].kind = "observation" /\ Observations(S, known)[i].track \in S
         /\ Unseen(Observations(S, known), t) <=> t \notin S
         /\ Silent(Observations(S, known), t) <=> t \notin S
         /\ EndsSeen(Observations(S, known), t) <=> t \in S
<1> DEFINE n == Cardinality(S)  o == Observations(S, known)
<1>1. /\ n \in Nat /\ Sorted(S) \in [1..n -> S] /\ \A x \in S : \E i \in 1..n : Sorted(S)[i] = x
      /\ \A i, j \in 1..n : i < j => Sorted(S)[i] # Sorted(S)[j]
  BY TracksFinite, SortedSet
<1>2. o = [i \in 1..n |-> [kind |-> "observation", track |-> Sorted(S)[i], starts |-> Sorted(S)[i] \notin known]]
  BY DEF Observations, Observation
<1> HIDE DEF n, o
<1>3. \A i \in 1..n : Sorted(S)[i] \in S /\ S \subseteq TrackIds
  BY <1>1
<1>4. o \in [1..n -> [kind : {"observation"}, track : TrackIds, starts : BOOLEAN]]
  BY <1>2, <1>3
<1>5. o \in Seq([kind : {"observation"}, track : TrackIds, starts : BOOLEAN]) /\ Len(o) = n
  <2>1. \A T : o \in [1..n -> T] => o \in Seq(T) /\ Len(o) = n
    BY <1>1, NumberedSeq
  <2>2. QED
    BY <1>4, <2>1
<1>6. \A i \in 1..n : o[i].kind = "observation" /\ o[i].track = Sorted(S)[i]
  BY <1>2
<1>7. o \in Records
  BY <1>5, SeqMonotonic DEF Records
<1>8. /\ Silent(o, t) <=> t \notin S
      /\ Unseen(o, t) <=> t \notin S
  BY <1>1, <1>3, <1>5, <1>6 DEF Silent, Unseen, Observes
<1>9. ASSUME t \in S PROVE EndsSeen(o, t)
  <2>1. PICK i \in 1..n : Sorted(S)[i] = t
    BY <1>1, <1>9
  <2>2. ASSUME NEW j \in (i + 1)..n PROVE o[j].track # t
    <3>1. j \in 1..n /\ i < j
      BY <1>1, <2>2
    <3>2. QED
      BY <1>1, <1>6, <2>1, <3>1
  <2>3. QED
    BY <1>5, <1>6, <2>1, <2>2 DEF EndsSeen, Observes
<1>10. EndsSeen(o, t) => t \in S
  BY <1>3, <1>5, <1>6 DEF EndsSeen, Observes
<1>11. QED
  BY <1>3, <1>5, <1>6, <1>7, <1>8, <1>9, <1>10 DEF o

-----------------------------------------------------------------------------
(* The states a line keeps of the tracks *)

\* A table has one state of a track at most.
CrossingState == [track : TrackIds, side : Sides \cup {"UNKNOWN"}, count : Nat, event : Nat \cup {None}]
Tabled(s) ==
    /\ s \in Seq(CrossingState)
    /\ \A i, j \in 1..Len(s) : s[i].track = s[j].track => i = j

\* A table has no more states than there are tracks it may be of.
LEMMA TableShort ==
  ASSUME NEW s, Tabled(s), NEW T \in SUBSET TrackIds, \A i \in 1..Len(s) : s[i].track \in T
  PROVE  Len(s) \in Nat /\ Len(s) <= Cardinality(T)
<1>1. Len(s) \in Nat /\ s \in Seq(CrossingState)
  BY DEF Tabled
<1>2. IsFiniteSet(T)
  <2>1. 1 \in Int /\ MaxTracks \in Int
    BY PersonTrackingAssumption
  <2>2. IsFiniteSet(TrackIds)
    BY <2>1, FS_Interval DEF TrackIds
  <2>3. QED
    BY <2>2, FS_Subset
<1> DEFINE f == [i \in 1..Len(s) |-> s[i].track]
<1>3. f \in Injection(1..Len(s), T)
  BY DEF Injection, IsInjective, Tabled
<1>4. Cardinality(1..Len(s)) <= Cardinality(T)
  BY <1>2, <1>3, FS_Injection
<1>5. Cardinality(1..Len(s)) = Len(s)
  <2>1. \A n \in Nat : Cardinality(1..n) = IF 1 > n THEN 0 ELSE n - 1 + 1
    BY FS_Interval
  <2>2. QED
    BY <1>1, <2>1
<1>6. QED
  BY <1>1, <1>4, <1>5

LEMMA Placed ==
  ASSUME NEW s, Tabled(s), NEW t
  PROVE  /\ \A i \in 1..Len(s) : s[i].track = t => Places(s, t) = {i} /\ StateOf(s, t) = s[i]
         /\ (\A i \in 1..Len(s) : s[i].track # t) => Places(s, t) = {} /\ StateOf(s, t) = NewState(t)
         /\ StateOf(s, t) \in [track : {t}, side : Sides \cup {"UNKNOWN"}, count : Nat, event : Nat \cup {None}]
<1>1. ASSUME NEW i \in 1..Len(s), s[i].track = t
      PROVE  /\ Places(s, t) = {i} /\ StateOf(s, t) = s[i]
             /\ s[i] \in [track : {t}, side : Sides \cup {"UNKNOWN"}, count : Nat, event : Nat \cup {None}]
  <2>1. Places(s, t) = {i}
    BY <1>1 DEF Places, Tabled
  <2>2. StateOf(s, t) = s[i]
    BY <2>1 DEF StateOf
  <2>3. s[i] \in CrossingState
    BY ElementOfSeq DEF Tabled
  <2>4. QED
    BY <1>1, <2>1, <2>2, <2>3 DEF CrossingState
<1>2. ASSUME \A i \in 1..Len(s) : s[i].track # t
      PROVE  Places(s, t) = {} /\ StateOf(s, t) = NewState(t)
  <2>1. Places(s, t) = {}
    BY <1>2 DEF Places
  <2>2. QED
    BY <2>1 DEF StateOf
<1>3. NewState(t) \in [track : {t}, side : Sides \cup {"UNKNOWN"}, count : Nat, event : Nat \cup {None}]
  BY DEF NewState
<1>4. QED
  BY <1>1, <1>2, <1>3

\* A track is taken out whole, and the others stay as they are.
LEMMA TakenOut ==
  ASSUME NEW s, Tabled(s), NEW t
  PROVE  /\ Tabled(Without(s, t))
         /\ \A i \in 1..Len(Without(s, t)) : Without(s, t)[i].track # t
         /\ \A u : u # t => StateOf(Without(s, t), u) = StateOf(s, u)
         /\ StateOf(Without(s, t), t) = NewState(t)
<1>1. Len(s) \in Nat /\ s \in Seq(CrossingState)
  BY DEF Tabled
<1>2. CASE \A i \in 1..Len(s) : s[i].track # t
  <2>1. Without(s, t) = s
    BY <1>2, Placed DEF Without
  <2>2. QED
    BY <1>2, <2>1, Placed
<1>3. CASE \E i \in 1..Len(s) : s[i].track = t
  <2>1. PICK i \in 1..Len(s) : s[i].track = t
    BY <1>3
  <2>2. PICK w : w = Without(s, t)
    OBVIOUS
  <2>3. Places(s, t) = {i}
    BY <2>1, Placed
  <2>4. w = SubSeq(s, 1, i - 1) \o SubSeq(s, i + 1, Len(s))
    BY <2>2, <2>3 DEF Without, RemoveAt
  <2>5. i \in Nat /\ i >= 1 /\ i <= Len(s)
    BY <1>1
  <2>6. \A j \in 1..(i - 1) : s[j] \in CrossingState
    BY <1>1, <2>5, ElementOfSeq
  <2>7. \A j \in (i + 1)..Len(s) : s[j] \in CrossingState
    BY <1>1, <2>5, ElementOfSeq
  <2>8. PICK a, b : a = SubSeq(s, 1, i - 1) /\ b = SubSeq(s, i + 1, Len(s))
    OBVIOUS
  <2>9. a \in Seq(CrossingState) /\ Len(a) = i - 1 /\ \A j \in 1..(i - 1) : a[j] = s[j]
    <3>1. /\ SubSeq(s, 1, i - 1) \in Seq(CrossingState)
          /\ Len(SubSeq(s, 1, i - 1)) = IF 1 <= i - 1 THEN i - 1 - 1 + 1 ELSE 0
          /\ \A j \in 1..(i - 1 - 1 + 1) : SubSeq(s, 1, i - 1)[j] = s[1 + j - 1]
      BY <2>5, <2>6, SubSeqProperties
    <3>2. i - 1 - 1 + 1 = i - 1 /\ \A j \in 1..(i - 1) : 1 + j - 1 = j
      BY <2>5
    <3>3. Len(a) = i - 1
      BY <2>5, <2>8, <3>1
    <3>4. QED
      BY <2>8, <3>1, <3>2, <3>3
  <2>10. b \in Seq(CrossingState) /\ Len(b) = Len(s) - i /\ \A j \in 1..(Len(s) - i) : b[j] = s[i + j]
    <3>1. i + 1 \in Int /\ Len(s) \in Int
      BY <1>1, <2>5
    <3>2. /\ SubSeq(s, i + 1, Len(s)) \in Seq(CrossingState)
          /\ Len(SubSeq(s, i + 1, Len(s))) = IF i + 1 <= Len(s) THEN Len(s) - (i + 1) + 1 ELSE 0
          /\ \A j \in 1..(Len(s) - (i + 1) + 1) : SubSeq(s, i + 1, Len(s))[j] = s[i + 1 + j - 1]
      BY <2>7, <3>1, SubSeqProperties
    <3>3. Len(s) - (i + 1) + 1 = Len(s) - i /\ \A j \in 1..(Len(s) - i) : i + 1 + j - 1 = i + j
      BY <1>1, <2>5
    <3>4. Len(b) = Len(s) - i
      BY <1>1, <2>5, <2>8, <3>2
    <3>5. QED
      BY <2>8, <3>2, <3>3, <3>4
  <2>11. /\ w \in Seq(CrossingState) /\ Len(w) = Len(s) - 1
         /\ \A j \in 1..(Len(s) - 1) : w[j] = IF j < i THEN s[j] ELSE s[j + 1]
    <3>1. /\ a \o b \in Seq(CrossingState) /\ Len(a \o b) = Len(a) + Len(b)
          /\ \A j \in 1..(Len(a) + Len(b)) : (a \o b)[j] = IF j <= Len(a) THEN a[j] ELSE b[j - Len(a)]
      BY <2>9, <2>10, ConcatProperties
    <3>2. w = a \o b /\ Len(a) + Len(b) = Len(s) - 1
      <4>1. w = a \o b
        BY <2>4, <2>8
      <4>2. Len(a) + Len(b) = Len(s) - 1
        BY <1>1, <2>5, <2>9, <2>10
      <4>3. QED
        BY <4>1, <4>2
    <3>3. ASSUME NEW j \in 1..(Len(s) - 1) PROVE w[j] = IF j < i THEN s[j] ELSE s[j + 1]
      <4>1. w[j] = IF j <= i - 1 THEN a[j] ELSE b[j - (i - 1)]
        BY <2>9, <3>1, <3>2
      <4>2. CASE j < i
        BY <1>1, <2>5, <2>9, <4>1, <4>2
      <4>3. CASE ~(j < i)
        <5>1. j - (i - 1) \in 1..(Len(s) - i) /\ i + (j - (i - 1)) = j + 1 /\ ~(j <= i - 1)
          BY <1>1, <2>5, <4>3
        <5>2. b[j - (i - 1)] = s[i + (j - (i - 1))]
          BY <2>10, <5>1
        <5>3. QED
          BY <4>1, <4>3, <5>1, <5>2
      <4>4. QED
        BY <4>2, <4>3
    <3>4. QED
      BY <3>1, <3>2, <3>3
  <2>12. \A j \in 1..(Len(s) - 1) : \E k \in 1..Len(s) : k # i /\ w[j] = s[k] /\ k = IF j < i THEN j ELSE j + 1
    <3>1. \A j \in 1..(Len(s) - 1) : LET k == IF j < i THEN j ELSE j + 1 IN k \in 1..Len(s) /\ k # i
      BY <1>1, <2>5
    <3>2. QED
      BY <2>11, <3>1
  <2>13. \A j \in 1..Len(w) : w[j].track # t
    BY <2>1, <2>11, <2>12 DEF Tabled
  <2>14. Tabled(w)
    <3>1. ASSUME NEW j \in 1..Len(w), NEW k \in 1..Len(w), w[j].track = w[k].track PROVE j = k
      <4>1. PICK m \in 1..Len(s) : w[j] = s[m] /\ m = IF j < i THEN j ELSE j + 1
        BY <2>11, <2>12
      <4>2. PICK n \in 1..Len(s) : w[k] = s[n] /\ n = IF k < i THEN k ELSE k + 1
        BY <2>11, <2>12
      <4>3. m = n
        BY <3>1, <4>1, <4>2 DEF Tabled
      <4>4. j \in Int /\ k \in Int
        BY <1>1, <2>11
      <4>5. QED
        BY <2>5, <4>1, <4>2, <4>3, <4>4
    <3>2. QED
      BY <2>11, <3>1 DEF Tabled
  <2>15. ASSUME NEW u, u # t PROVE StateOf(w, u) = StateOf(s, u)
    <3>1. CASE \A k \in 1..Len(s) : s[k].track # u
      <4>1. \A j \in 1..Len(w) : w[j].track # u
        BY <2>11, <2>12, <3>1
      <4>2. StateOf(w, u) = NewState(u)
        BY <2>14, <4>1, Placed
      <4>3. QED
        BY <3>1, <4>2, Placed
    <3>2. CASE \E k \in 1..Len(s) : s[k].track = u
      <4>1. PICK k \in 1..Len(s) : s[k].track = u
        BY <3>2
      <4>2. k # i
        BY <2>1, <2>15, <4>1
      <4>3. PICK j : j = IF k < i THEN k ELSE k - 1
        OBVIOUS
      <4>4. j \in 1..(Len(s) - 1) /\ (IF j < i THEN j ELSE j + 1) = k
        BY <1>1, <2>5, <4>2, <4>3
      <4>5. w[j] = s[k]
        BY <2>11, <4>4
      <4>6. StateOf(w, u) = w[j]
        BY <2>11, <2>14, <4>1, <4>4, <4>5, Placed
      <4>7. StateOf(s, u) = s[k]
        BY <4>1, Placed
      <4>8. QED
        BY <4>5, <4>6, <4>7
    <3>3. QED
      BY <3>1, <3>2
  <2>16. StateOf(w, t) = NewState(t)
    BY <2>13, <2>14, Placed
  <2>17. QED
    BY <2>2, <2>13, <2>14, <2>15, <2>16
<1>4. QED
  BY <1>2, <1>3

\* The track observed becomes the last one of the table; with room for it, nothing else changes.
LEMMA PutLast ==
  ASSUME NEW s, Tabled(s), NEW t \in TrackIds, NEW x \in CrossingState, x.track = t,
         Len(Without(s, t)) < MaxTracked
  PROVE  /\ Tabled(Newest(Append(Without(s, t), x)))
         /\ StateOf(Newest(Append(Without(s, t), x)), t) = x
         /\ \A u : u # t => StateOf(Newest(Append(Without(s, t), x)), u) = StateOf(s, u)
<1>1. PICK w : w = Without(s, t)
  OBVIOUS
<1>2. PICK a : a = Append(w, x)
  OBVIOUS
<1>3. /\ Tabled(w) /\ \A i \in 1..Len(w) : w[i].track # t
      /\ \A u : u # t => StateOf(w, u) = StateOf(s, u)
  BY <1>1, TakenOut
<1>4. w \in Seq(CrossingState) /\ Len(w) \in Nat
  BY <1>3 DEF Tabled
<1>5. /\ a \in Seq(CrossingState) /\ Len(a) = Len(w) + 1
      /\ \A i \in 1..Len(w) : a[i] = w[i]
      /\ a[Len(w) + 1] = x
  BY <1>2, <1>4, AppendProperties
<1>6. \A i \in 1..Len(a) : i \in 1..Len(w) \/ i = Len(w) + 1
  BY <1>4, <1>5
<1>7. Tabled(a)
  <2>1. ASSUME NEW i \in 1..Len(a), NEW j \in 1..Len(a), a[i].track = a[j].track PROVE i = j
    <3>1. CASE i \in 1..Len(w) /\ j \in 1..Len(w)
      BY <1>3, <1>5, <2>1, <3>1 DEF Tabled
    <3>2. CASE i \in 1..Len(w) /\ j = Len(w) + 1
      BY <1>3, <1>5, <2>1, <3>2
    <3>3. CASE i = Len(w) + 1 /\ j \in 1..Len(w)
      BY <1>3, <1>5, <2>1, <3>3
    <3>4. QED
      BY <1>6, <3>1, <3>2, <3>3
  <2>2. QED
    BY <1>5, <2>1 DEF Tabled
<1>8. Newest(a) = a
  <2>1. MaxTracked \in Nat
    BY PortalCrossingAssumption
  <2>2. ~(Len(a) > MaxTracked)
    BY <1>1, <1>4, <1>5, <2>1
  <2>3. QED
    BY <2>2 DEF Newest
<1>9. Len(w) + 1 \in 1..Len(a)
  BY <1>4, <1>5
<1>10. StateOf(a, t) = x
  BY <1>5, <1>7, <1>9, Placed
<1>11. ASSUME NEW u, u # t PROVE StateOf(a, u) = StateOf(w, u)
  <2>1. CASE \A i \in 1..Len(w) : w[i].track # u
    <3>1. \A i \in 1..Len(a) : a[i].track # u
      BY <1>5, <1>6, <1>11, <2>1
    <3>2. StateOf(a, u) = NewState(u)
      BY <1>7, <3>1, Placed
    <3>3. QED
      BY <1>3, <2>1, <3>2, Placed
  <2>2. CASE \E i \in 1..Len(w) : w[i].track = u
    <3>1. PICK i \in 1..Len(w) : w[i].track = u
      BY <2>2
    <3>2. i \in 1..Len(a) /\ a[i] = w[i]
      BY <1>4, <1>5
    <3>3. StateOf(a, u) = a[i] /\ StateOf(w, u) = w[i]
      BY <1>3, <1>7, <3>1, <3>2, Placed
    <3>4. QED
      BY <3>2, <3>3
  <2>3. QED
    BY <2>1, <2>2
<1>12. QED
  BY <1>1, <1>2, <1>3, <1>7, <1>8, <1>10, <1>11

LEMMA NothingTabled == /\ Tabled(<<>>)
                       /\ \A t : StateOf(<<>>, t) = NewState(t)
<1>1. Len(<<>>) = 0 /\ <<>> \in Seq(CrossingState)
  BY EmptySeq
<1>2. Tabled(<<>>)
  BY <1>1 DEF Tabled
<1>3. \A i \in 1..Len(<<>>) : FALSE
  BY <1>1
<1>4. QED
  BY <1>2, <1>3, Placed

-----------------------------------------------------------------------------
(* The timeline: tracks, records and where the consumer is with them *)

\* While the stream goes on, a track not yet begun is neither live nor seen in the records at hand; after
\* the last frame only ends are left.
Going == step \in {"none", "detected"}
Timeline ==
    /\ step \in {"none", "detected", "failed", "flushing"}
    /\ step = "detected" => consumer = "using"
    /\ step \in {"failed", "flushing"} => consumer = "ended"
    /\ live \in SUBSET TrackIds /\ records \in Records /\ unsynced \in BOOLEAN
    /\ step \in {"none", "failed"} => records = <<>>
    /\ step = "flushing" => live = {} /\ \A i \in 1..Len(records) : records[i].kind = "summary"
    /\ Going => \A t \in TrackIds : t >= tracker.next => t \notin live /\ Unseen(records, t)
Stream == TrackerTypeOK /\ Begun /\ Timeline

\* What a frame that has just been tracked makes of the tracks reported as started.
Dropped == IF result'.discontinuity THEN live ELSE {}
Present == (live \ Dropped) \cup result'.confirmed

LEMMA NoRecords == <<>> \in Records /\ \A t : Unseen(<<>>, t) /\ Silent(<<>>, t) /\ ~EndsSeen(<<>>, t)
<1>1. Len(<<>>) = 0 /\ <<>> \in Records
  BY EmptySeq DEF Records
<1>2. \A i \in 1..Len(<<>>) : FALSE
  BY <1>1
<1>3. QED
  BY <1>1, <1>2 DEF Unseen, Silent, EndsSeen

LEMMA StreamStart == TrackerInit => TrackerTypeOK /\ Begun
<1>1. ASSUME TrackerInit PROVE TrackerTypeOK /\ Begun
  <2>1. tracker = [picture |-> "none", next |-> 1, tracks |-> [t \in TrackIds |-> Unborn]] /\ result = NoResult
    BY <1>1 DEF TrackerInit, NoStream
  <2>2. 1 \in 1..(MaxTracks + 1)
    BY TrackRecords
  <2>3. QED
    BY <2>1, <2>2 DEF TrackerTypeOK, Begun, NoResult
<1>2. QED
  BY <1>1

\* What a frame says: the tracks a break ends, those it sees, and those that ended, in this order.
LEMMA DetectSays ==
  ASSUME SchedulerTypeOK, Stream, Detect
  PROVE  /\ TrackerTypeOK' /\ Begun' /\ records' \in Records /\ live' \in SUBSET TrackIds
         /\ tracker'.picture = hand.feed.size /\ result'.discontinuity \in BOOLEAN
         /\ \E gap \in BOOLEAN :
               /\ result'.discontinuity = Breaks(hand.feed.size, hand.discontinuity, gap)
               /\ trail' = IF gap \/ trail.feed # hand.feed THEN NoTrail(hand.feed) ELSE trail
         /\ result'.confirmed \in SUBSET TrackIds /\ result'.confirmed \cap result'.removed = {}
         /\ live' = Present \ result'.removed
         /\ records' = Summaries(Dropped) \o Observations(result'.confirmed, live \ Dropped)
                          \o Summaries(Present \cap result'.removed)
         /\ \A t \in TrackIds :
              /\ Unseen(records', t) <=> t \notin result'.confirmed
              /\ Silent(records', t) <=>
                    t \notin Dropped /\ t \notin result'.confirmed /\ ~(t \in Present /\ t \in result'.removed)
              /\ EndsSeen(records', t) <=> t \in result'.confirmed
         /\ \A t \in result'.confirmed : t < tracker'.next
         /\ \A t \in result'.removed : tracker'.tracks[t] = Unborn
         /\ tracker.picture = hand.feed.size \/ ~result'.discontinuity =>
               /\ tracker'.next >= tracker.next
               /\ \A t \in TrackIds : t < tracker.next /\ (tracker.tracks[t] = Unborn \/ result'.discontinuity) =>
                     tracker'.tracks[t] = Unborn /\ t \notin result'.confirmed
<1>1. hand \in LiveFrame /\ hand.discontinuity \in BOOLEAN
  BY DEF Detect, SchedulerTypeOK, LiveFrame
<1>2. PICK gap \in BOOLEAN :
        /\ Update(hand.feed.size, hand.discontinuity, gap)
        /\ trail' = IF gap \/ trail.feed # hand.feed THEN NoTrail(hand.feed) ELSE trail
  BY DEF Detect
<1>3. TrackerTypeOK /\ Begun
  BY DEF Stream
<1>4. /\ TrackerTypeOK' /\ Begun' /\ tracker'.picture = hand.feed.size
      /\ result'.discontinuity = Breaks(hand.feed.size, hand.discontinuity, gap)
      /\ result'.confirmed \cap result'.removed = {}
      /\ \A t \in result'.confirmed : t < tracker'.next
      /\ \A t \in result'.removed : tracker'.tracks[t] = Unborn
  BY <1>1, <1>2, <1>3, UpdateStands
<1>5. tracker.picture = hand.feed.size \/ ~result'.discontinuity =>
        /\ tracker'.next >= tracker.next
        /\ \A t \in TrackIds : t < tracker.next /\ (tracker.tracks[t] = Unborn \/ result'.discontinuity) =>
              tracker'.tracks[t] = Unborn /\ t \notin result'.confirmed
  BY <1>1, <1>2, <1>3, UpdateStands
<1>6. PICK cut, known, on :
        cut = Dropped /\ known = live \ cut /\ on = Present
  OBVIOUS
<1>7. /\ records' = Summaries(cut) \o Observations(result'.confirmed, known) \o Summaries(on \cap result'.removed)
      /\ live' = on \ result'.removed
  BY <1>6 DEF Detect, Dropped, Present
<1>8. result'.confirmed \in SUBSET TrackIds /\ result'.removed \in SUBSET TrackIds /\ live \in SUBSET TrackIds
      /\ result'.discontinuity \in BOOLEAN
  BY <1>4 DEF TrackerTypeOK, Stream, Timeline
<1>9. cut \in SUBSET TrackIds /\ on \in SUBSET TrackIds /\ on \cap result'.removed \in SUBSET TrackIds
  BY <1>6, <1>8 DEF Dropped, Present
<1>10. PICK a, b, c : a = Summaries(cut) /\ b = Observations(result'.confirmed, known)
                        /\ c = Summaries(on \cap result'.removed)
  OBVIOUS
<1>11. a \in Records /\ b \in Records /\ c \in Records
  BY <1>8, <1>9, <1>10, SummariesSay, ObservationsSay
<1>12. a \o b \in Records /\ records' \in Records /\ records' = (a \o b) \o c
  BY <1>7, <1>10, <1>11, RecordsJoined
<1>13. ASSUME NEW t \in TrackIds
       PROVE  /\ Unseen(records', t) <=> t \notin result'.confirmed
              /\ Silent(records', t) <=>
                    t \notin cut /\ t \notin result'.confirmed /\ ~(t \in on /\ t \in result'.removed)
              /\ EndsSeen(records', t) <=> t \in result'.confirmed
  <2>1. /\ Unseen(a, t) /\ ~EndsSeen(a, t) /\ (Silent(a, t) <=> t \notin cut)
        /\ Unseen(c, t) /\ ~EndsSeen(c, t) /\ (Silent(c, t) <=> t \notin on \cap result'.removed)
    BY <1>9, <1>10, SummariesSay
  <2>2. /\ Unseen(b, t) <=> t \notin result'.confirmed
        /\ Silent(b, t) <=> t \notin result'.confirmed
        /\ EndsSeen(b, t) <=> t \in result'.confirmed
    BY <1>8, <1>10, ObservationsSay
  <2>3. /\ Unseen(a \o b, t) <=> Unseen(a, t) /\ Unseen(b, t)
        /\ Silent(a \o b, t) <=> Silent(a, t) /\ Silent(b, t)
        /\ EndsSeen(b, t) => EndsSeen(a \o b, t)
        /\ EndsSeen(a \o b, t) => EndsSeen(b, t) \/ (EndsSeen(a, t) /\ Silent(b, t))
    BY <1>11, RecordsJoined
  <2>4. /\ Unseen(records', t) <=> Unseen(a \o b, t) /\ Unseen(c, t)
        /\ Silent(records', t) <=> Silent(a \o b, t) /\ Silent(c, t)
        /\ EndsSeen(records', t) => EndsSeen(c, t) \/ (EndsSeen(a \o b, t) /\ Silent(c, t))
    BY <1>11, <1>12, RecordsJoined
  <2>5. EndsSeen(a \o b, t) /\ Silent(c, t) => EndsSeen(records', t)
    BY <1>11, <1>12, EndsBefore
  <2>6. QED
    BY <1>4, <1>6, <2>1, <2>2, <2>3, <2>4, <2>5
<1>14. live' \in SUBSET TrackIds
  BY <1>7, <1>9
<1>15. QED
  BY <1>2, <1>4, <1>5, <1>6, <1>7, <1>8, <1>12, <1>13, <1>14

-----------------------------------------------------------------------------
(* The timeline's steps *)

\* A record is handled with the frame in hand, or after the last one.
LEMMA HandleSays ==
  ASSUME Timeline, Handle
  PROVE  /\ records # <<>> /\ records' = Tail(records) /\ step \in {"detected", "flushing"}
         /\ Head(records).track \in TrackIds
         /\ \/ Head(records).kind = "summary" /\ HandleSummary(Head(records).track)
            \/ /\ Head(records).kind = "observation" /\ step = "detected"
               /\ HandleObservation(Head(records).track, Head(records).starts)
         /\ ApplyStaged /\ unsynced' = (unsynced /\ ~Resynced)
         /\ UNCHANGED <<tracker, result, live, step, schedulerVars>>
<1>1. /\ records # <<>> /\ records' = Tail(records) /\ ApplyStaged /\ unsynced' = (unsynced /\ ~Resynced)
      /\ UNCHANGED <<tracker, result, live, step, schedulerVars>>
      /\ IF Head(records).kind = "summary" THEN HandleSummary(Head(records).track)
         ELSE HandleObservation(Head(records).track, Head(records).starts)
  BY DEF Handle
<1>2. /\ Head(records) = records[1] /\ Len(records) \in Nat /\ Len(records) > 0
      /\ Head(records) \in [kind : {"observation"}, track : TrackIds, starts : BOOLEAN]
                \cup [kind : {"summary"}, track : TrackIds]
  <2>1. records \in Records
    BY DEF Timeline
  <2>2. QED
    BY <1>1, <2>1, RecordsSplit, HeadTailProperties DEF Records
<1>3. Head(records).track \in TrackIds /\ Head(records).kind \in {"observation", "summary"}
  BY <1>2
<1>4. step \in {"detected", "flushing"}
  BY <1>1 DEF Timeline
<1>5. step = "flushing" => Head(records).kind = "summary"
  BY <1>2 DEF Timeline
<1>6. QED
  BY <1>1, <1>3, <1>4, <1>5

\* The threads of the scheduler leave the timeline alone, and a consumer that uses a frame or has ended.
LEMMA SchedulerSays ==
  ASSUME SchedulerStep
  PROVE  /\ UNCHANGED <<pipelineVars, portalVars>>
         /\ consumer = "using" => consumer' = "using"
         /\ consumer = "ended" => consumer' = "ended"
<1>1. UNCHANGED <<pipelineVars, portalVars>> /\ (CaptureStep \/ ConsumerStep \/ PeriodPasses \/ Halt \/ StopStep)
  BY DEF SchedulerStep
<1>2. CASE CaptureStep
  BY <1>1, <1>2 DEF CaptureStep, Grab, SourceEnds, Admit, Announce, Finish
<1>3. CASE ConsumerStep
  BY <1>1, <1>3 DEF ConsumerStep, StartCapture, StartThread, Ask, Take, Look, Clear, Wake
<1>4. CASE PeriodPasses \/ Halt \/ StopStep
  BY <1>1, <1>4 DEF PeriodPasses, Halt, StopStep
<1>5. QED
  BY <1>1, <1>2, <1>3, <1>4

LEMMA NewStream ==
  ASSUME TrackerTypeOK, tracker' = NoStream, result' = result PROVE TrackerTypeOK' /\ Begun'
<1>1. tracker' = [picture |-> "none", next |-> 1, tracks |-> [t \in TrackIds |-> Unborn]]
  BY DEF NoStream
<1>2. 1 \in 1..(MaxTracks + 1)
  BY TrackRecords
<1>3. QED
  BY <1>1, <1>2 DEF TrackerTypeOK, Begun

LEMMA TimelineHandle == ASSUME Stream, Handle PROVE Stream'
<1>1. /\ records # <<>> /\ records' = Tail(records) /\ step \in {"detected", "flushing"}
      /\ unsynced' = (unsynced /\ ~Resynced)
      /\ UNCHANGED <<tracker, result, live, step, schedulerVars>>
  BY HandleSays DEF Stream
<1>2. records \in Records /\ unsynced \in BOOLEAN
  BY DEF Stream, Timeline
<1>3. records' \in Records /\ \A t : Unseen(records, t) => Unseen(records', t)
  BY <1>1, <1>2, RecordsSplit
<1>4. \A i \in 1..Len(records') : step = "flushing" => records'[i].kind = "summary"
  <2>1. /\ \A i \in 1..Len(records') : records'[i] = records[i + 1]
        /\ Len(records') = Len(records) - 1 /\ Len(records) \in Nat
    BY <1>1, <1>2, HeadTailProperties DEF Records
  <2>2. \A i \in 1..Len(records') : i + 1 \in 1..Len(records)
    BY <2>1
  <2>3. QED
    BY <2>1, <2>2 DEF Stream, Timeline
<1>5. UNCHANGED <<consumer, step, live, tracker, result>>
  BY <1>1 DEF schedulerVars
<1>6. TrackerTypeOK' /\ Begun'
  BY <1>5 DEF Stream, TrackerTypeOK, Begun
<1>7. unsynced' \in BOOLEAN
  BY <1>1, <1>2
<1>8. Going' => \A t \in TrackIds : t >= tracker'.next => t \notin live' /\ Unseen(records', t)
  BY <1>3, <1>5 DEF Going, Stream, Timeline
<1>9. Timeline'
  BY <1>1, <1>3, <1>4, <1>5, <1>7, <1>8 DEF Stream, Timeline
<1>10. QED
  BY <1>6, <1>9 DEF Stream

LEMMA TimelineDetect == ASSUME SchedulerTypeOK, Stream, Detect PROVE Stream'
<1>1. /\ TrackerTypeOK' /\ Begun' /\ records' \in Records /\ live' \in SUBSET TrackIds
      /\ \A t \in result'.confirmed : t < tracker'.next
      /\ tracker.picture = hand.feed.size \/ ~result'.discontinuity => tracker'.next >= tracker.next
      /\ result'.discontinuity \in BOOLEAN
  BY DetectSays
<1>2. /\ live' = Present \ result'.removed /\ result'.confirmed \in SUBSET TrackIds
      /\ \A t \in TrackIds : Unseen(records', t) <=> t \notin result'.confirmed
  BY DetectSays
<1>3. /\ consumer = "using" /\ step = "none" /\ step' = "detected" /\ consumer' = consumer
      /\ unsynced' = (unsynced \/ result'.discontinuity)
  BY DEF Detect, schedulerVars
<1>4. tracker.next \in Int /\ tracker'.next \in Int /\ \A t \in TrackIds : t \in Int
  BY <1>1, TrackRecords DEF Stream, TrackerTypeOK, TrackIds
<1>5. ASSUME NEW t \in TrackIds, t >= tracker'.next PROVE t \notin live' /\ Unseen(records', t)
  <2>1. t \notin result'.confirmed
    BY <1>1, <1>4, <1>5
  <2>2. t \notin live \ Dropped
    <3>1. CASE result'.discontinuity
      BY <3>1 DEF Dropped
    <3>2. CASE ~result'.discontinuity
      <4>1. t >= tracker.next
        BY <1>1, <1>4, <1>5, <3>2
      <4>2. QED
        BY <1>3, <4>1 DEF Stream, Timeline, Going
    <3>3. QED
      BY <3>1, <3>2
  <2>3. QED
    BY <1>2, <2>1, <2>2 DEF Present
<1>6. unsynced' \in BOOLEAN
  BY <1>1, <1>3 DEF Stream, Timeline
<1>7. QED
  BY <1>1, <1>3, <1>5, <1>6 DEF Stream, Timeline

LEMMA TimelineFlush == ASSUME Stream, Flush PROVE Stream'
<1>1. /\ consumer = "ended" /\ step = "none" /\ records' = Summaries(live) /\ live' = {} /\ step' = "flushing"
      /\ tracker' = NoStream /\ UNCHANGED <<result, unsynced, consumer>>
  BY DEF Flush, schedulerVars
<1>2. live \in SUBSET TrackIds /\ unsynced \in BOOLEAN
  BY DEF Stream, Timeline
<1>3. records' \in Records /\ \A i \in 1..Len(records') : records'[i].kind = "summary"
  BY <1>1, <1>2, SummariesSay
<1>4. TrackerTypeOK' /\ Begun'
  BY <1>1, NewStream DEF Stream
<1>5. QED
  BY <1>1, <1>2, <1>3, <1>4 DEF Stream, Timeline, Going

LEMMA TimelineFail == ASSUME Stream, Fail PROVE Stream'
<1>1. /\ consumer' = "ended" /\ step' = "failed" /\ records' = <<>> /\ tracker' = NoStream /\ result' = NoResult
      /\ UNCHANGED <<live, unsynced>>
  BY DEF Fail, Abandon
<1>2. TrackerTypeOK' /\ Begun'
  <2>1. tracker' = [picture |-> "none", next |-> 1, tracks |-> [t \in TrackIds |-> Unborn]]
    BY <1>1 DEF NoStream
  <2>2. 1 \in 1..(MaxTracks + 1)
    BY TrackRecords
  <2>3. QED
    BY <1>1, <2>1, <2>2 DEF TrackerTypeOK, Begun, NoResult
<1>3. QED
  BY <1>1, <1>2, NoRecords DEF Stream, Timeline, Going

LEMMA TimelineOther ==
  ASSUME Stream, EndFrame \/ Decline \/ SchedulerStep PROVE Stream'
<1>1. CASE EndFrame
  <2>1. /\ step = "detected" /\ records = <<>> /\ consumer' = "asking" /\ step' = "none"
        /\ result' = NoResult /\ UNCHANGED <<tracker, live, records, unsynced>>
    BY <1>1 DEF EndFrame, Done
  <2>2. TrackerTypeOK' /\ Begun'
    BY <2>1 DEF Stream, TrackerTypeOK, Begun, NoResult
  <2>3. Timeline'
    BY <2>1 DEF Stream, Timeline, Going
  <2>4. QED
    BY <2>2, <2>3 DEF Stream
<1>2. CASE Decline
  <2>1. /\ step = "none" /\ consumer' = "ended" /\ UNCHANGED <<tracker, result, live, records, unsynced, step>>
    BY <1>2 DEF Decline, Abandon, pipelineVars, runtimeVars
  <2>2. QED
    BY <2>1 DEF Stream, Timeline, TrackerTypeOK, Begun, Going
<1>3. CASE SchedulerStep
  <2>1. /\ UNCHANGED <<tracker, result, live, records, unsynced, step>>
        /\ consumer = "using" => consumer' = "using"
        /\ consumer = "ended" => consumer' = "ended"
    BY <1>3, SchedulerSays DEF pipelineVars, runtimeVars
  <2>2. QED
    BY <2>1 DEF Stream, Timeline, TrackerTypeOK, Begun, Going
<1>4. QED
  BY <1>1, <1>2, <1>3

-----------------------------------------------------------------------------
(* The ledger follows the timeline *)

\* The ledger will hold the track once the records are handled.
Due(t) == (t \in DOMAIN ledger /\ Silent(records, t)) \/ EndsSeen(records, t)
\* A track is live exactly if the ledger will hold it, whatever part of the frame's records is handled.
LedgerInv ==
    /\ DOMAIN ledger \in SUBSET TrackIds /\ ledger = [t \in DOMAIN ledger |-> ledger[t]]
    /\ step # "failed" => \A t \in TrackIds : t \in live <=> Due(t)
    /\ step = "none" \/ (step = "flushing" /\ records = <<>>) => occupancy = Published(ledger)

LEMMA LedgerOfNobody == ASSUME NEW book, book = <<>> PROVE DOMAIN book = {} /\ Published(book) = 0
<1>1. DOMAIN book = {}
  OBVIOUS
<1>2. Validated(book) = {}
  BY <1>1 DEF Validated
<1>3. QED
  BY <1>1, <1>2, FS_EmptySet DEF Published

LEMMA LedgerImplies == ASSUME Timeline, LedgerInv PROVE LedgerFollows
<1>1. ASSUME step = "none" PROVE DOMAIN ledger = live /\ occupancy = Published(ledger)
  <2>1. records = <<>>
    BY <1>1 DEF Timeline
  <2>2. \A t \in TrackIds : t \in live <=> t \in DOMAIN ledger
    BY <1>1, <2>1, NoRecords DEF LedgerInv, Due
  <2>3. QED
    BY <1>1, <2>2 DEF LedgerInv, Timeline
<1>2. ASSUME step = "flushing", records = <<>> PROVE ledger = <<>> /\ occupancy = 0
  <2>1. \A t \in TrackIds : t \notin DOMAIN ledger
    BY <1>2, NoRecords DEF LedgerInv, Due, Timeline
  <2>2. DOMAIN ledger = {}
    BY <2>1 DEF LedgerInv
  <2>3. ledger = <<>>
    BY <2>2 DEF LedgerInv
  <2>4. QED
    BY <1>2, <2>3, LedgerOfNobody DEF LedgerInv
<1>3. QED
  BY <1>1, <1>2 DEF LedgerFollows

\* The ledger and the tables of the lines take the track of the record at hand without refusing it or
\* dropping another: beyond these limits the code promises less (occupancy.py, portal_crossing.py).
RoomFor(t) ==
    /\ t \in DOMAIN ledger \/ HasRoom
    /\ \A p \in DOMAIN States : Len(Without(States[p], t)) < MaxTracked
Roomy == records # <<>> /\ Head(records).kind = "observation" => RoomFor(Head(records).track)

\* An observation leaves its track in a ledger that has room for it.
LEMMA ObservingAdds ==
  ASSUME DOMAIN ledger \in SUBSET TrackIds, ledger = [t \in DOMAIN ledger |-> ledger[t]],
         NEW t \in TrackIds, t \in DOMAIN ledger \/ HasRoom, NEW high, NEW starts
  PROVE  /\ DOMAIN Observing(t, high, starts) = DOMAIN ledger \cup {t}
         /\ Observing(t, high, starts) = [u \in DOMAIN ledger \cup {t} |-> Observing(t, high, starts)[u]]
<1>1. PICK book : book = Started(t, IF starts THEN Prior ELSE 0)
  OBVIOUS
<1>2. DOMAIN book = DOMAIN ledger \cup {t} /\ book = [u \in DOMAIN ledger \cup {t} |-> book[u]]
  <2>1. CASE t \in DOMAIN ledger
    <3>1. book = ledger /\ DOMAIN ledger \cup {t} = DOMAIN ledger
      BY <1>1, <2>1 DEF Started
    <3>2. QED
      BY <3>1
  <2>2. CASE t \notin DOMAIN ledger
    <3>1. PICK e : book = With(t, e)
      BY <1>1, <2>2 DEF Started
    <3>2. QED
      BY <3>1 DEF With
  <2>3. QED
    BY <2>1, <2>2
<1>3. PICK e : Observing(t, high, starts) = [book EXCEPT ![t] = e]
  <2>1. t \in DOMAIN book
    BY <1>2
  <2>2. Observing(t, high, starts) =
          [book EXCEPT ![t] = [window |-> Recent(Append(book[t].window, high)),
                               validated |-> book[t].validated \/ Highs(Recent(Append(book[t].window, high))) >= MinHigh]]
    BY <1>1, <2>1 DEF Observing
  <2>3. QED
    BY <2>2
<1>4. DOMAIN Observing(t, high, starts) = DOMAIN book
  BY <1>3
<1>5. Observing(t, high, starts) = [u \in DOMAIN book |-> Observing(t, high, starts)[u]]
  BY <1>3, <1>4
<1>6. QED
  BY <1>2, <1>4, <1>5

LEMMA LedgerHandle ==
  ASSUME Timeline, LedgerInv, Handle, Roomy PROVE LedgerInv'
<1>1. /\ records # <<>> /\ records' = Tail(records) /\ step \in {"detected", "flushing"}
      /\ Head(records).track \in TrackIds /\ UNCHANGED <<live, step>>
      /\ \/ Head(records).kind = "summary" /\ HandleSummary(Head(records).track)
         \/ /\ Head(records).kind = "observation" /\ step = "detected"
            /\ HandleObservation(Head(records).track, Head(records).starts)
  BY HandleSays
<1>2. PICK h : h = Head(records).track
  OBVIOUS
<1>3. records \in Records
  BY DEF Timeline
<1>4. ASSUME NEW t
      PROVE  /\ Silent(records, t) <=> h # t /\ Silent(records', t)
             /\ EndsSeen(records, t) <=> \/ EndsSeen(records', t)
                                         \/ Observes(Head(records), t) /\ Silent(records', t)
  BY <1>1, <1>2, <1>3, RecordsSplit
<1>5. \A t \in TrackIds : t \in live <=> Due(t)
  BY <1>1 DEF LedgerInv
<1>6. CASE Head(records).kind = "summary" /\ HandleSummary(h)
  <2>1. ledger' = [u \in DOMAIN ledger \ {h} |-> ledger[u]] /\ occupancy' = Published(ledger')
    BY <1>6 DEF HandleSummary, Ending
  <2>2. DOMAIN ledger' = DOMAIN ledger \ {h}
    BY <2>1
  <2>3. ASSUME NEW t \in TrackIds PROVE t \in live' <=> Due(t)'
    <3>1. t \in live' <=> Due(t)
      BY <1>1, <1>5
    <3>2. ~Observes(Head(records), t)
      BY <1>6 DEF Observes
    <3>3. Due(t) <=> (t \in DOMAIN ledger /\ h # t /\ Silent(records', t)) \/ EndsSeen(records', t)
      BY <1>4, <3>2 DEF Due
    <3>4. QED
      BY <2>2, <3>1, <3>3 DEF Due
  <2>4. ledger' = [t \in DOMAIN ledger' |-> ledger'[t]] /\ DOMAIN ledger' \in SUBSET TrackIds
    <3>1. ledger' = [t \in DOMAIN ledger' |-> ledger'[t]]
      BY <2>1, <2>2
    <3>2. QED
      BY <2>2, <3>1 DEF LedgerInv
  <2>5. QED
    BY <2>1, <2>3, <2>4 DEF LedgerInv
<1>7. CASE Head(records).kind = "observation" /\ step = "detected" /\ HandleObservation(h, Head(records).starts)
  <2>1. ledger' = Observing(h, h \in result.high, Head(records).starts)
    BY <1>7 DEF HandleObservation
  <2>2. /\ DOMAIN ledger' = DOMAIN ledger \cup {h}
        /\ ledger' = [u \in DOMAIN ledger \cup {h} |-> ledger'[u]]
    <3>1. PICK high, starts : ledger' = Observing(h, high, starts)
      BY <2>1
    <3>2. h \in TrackIds /\ DOMAIN ledger \in SUBSET TrackIds /\ ledger = [t \in DOMAIN ledger |-> ledger[t]]
      BY <1>1, <1>2 DEF LedgerInv
    <3>3. /\ DOMAIN Observing(h, high, starts) = DOMAIN ledger \cup {h}
          /\ Observing(h, high, starts) = [u \in DOMAIN ledger \cup {h} |-> Observing(h, high, starts)[u]]
      BY <1>1, <1>2, <1>7, <3>2, ObservingAdds DEF Roomy, RoomFor
    <3>4. QED
      BY <3>1, <3>3
  <2>3. ASSUME NEW t \in TrackIds PROVE t \in live' <=> Due(t)'
    <3>1. t \in live' <=> Due(t)
      BY <1>1, <1>5
    <3>2. Observes(Head(records), t) <=> h = t
      BY <1>2, <1>7 DEF Observes
    <3>3. Due(t) <=> (t \in DOMAIN ledger /\ h # t /\ Silent(records', t)) \/ EndsSeen(records', t)
                      \/ (h = t /\ Silent(records', t))
      BY <1>4, <3>2 DEF Due
    <3>4. QED
      BY <2>2, <3>1, <3>3 DEF Due
  <2>4. ledger' = [t \in DOMAIN ledger' |-> ledger'[t]] /\ DOMAIN ledger' \in SUBSET TrackIds
    <3>1. DOMAIN ledger' \in SUBSET TrackIds
      BY <1>1, <1>2, <2>2 DEF LedgerInv
    <3>2. QED
      BY <2>2, <3>1
  <2>5. step' = "detected"
    BY <1>1, <1>7
  <2>6. QED
    BY <2>3, <2>4, <2>5 DEF LedgerInv
<1>8. QED
  BY <1>1, <1>2, <1>6, <1>7

LEMMA LedgerDetect == ASSUME SchedulerTypeOK, Stream, LedgerInv, Detect PROVE LedgerInv'
<1>1. /\ step = "none" /\ step' = "detected" /\ ledger' = ledger
  BY DEF Detect
<1>2. /\ result'.confirmed \in SUBSET TrackIds /\ result'.confirmed \cap result'.removed = {}
      /\ live' = Present \ result'.removed
      /\ \A t \in TrackIds :
           /\ Silent(records', t) <=>
                t \notin Dropped /\ t \notin result'.confirmed /\ ~(t \in Present /\ t \in result'.removed)
           /\ EndsSeen(records', t) <=> t \in result'.confirmed
  BY DetectSays
<1>3. \A t \in TrackIds : t \in live <=> t \in DOMAIN ledger
  <2>1. records = <<>>
    BY <1>1 DEF Stream, Timeline
  <2>2. QED
    BY <1>1, <2>1, NoRecords DEF LedgerInv, Due
<1>4. ASSUME NEW t \in TrackIds PROVE t \in live' <=> Due(t)'
  <2>1. Due(t)' <=> (t \in live /\ Silent(records', t)) \/ EndsSeen(records', t)
    BY <1>1, <1>3 DEF Due
  <2>2. t \in Present <=> (t \in live /\ t \notin Dropped) \/ t \in result'.confirmed
    BY DEF Present
  <2>3. QED
    BY <1>2, <2>1, <2>2
<1>5. QED
  BY <1>1, <1>4 DEF LedgerInv

LEMMA LedgerFlush == ASSUME Timeline, LedgerInv, Flush PROVE LedgerInv'
<1>1. /\ step = "none" /\ records' = Summaries(live) /\ live' = {} /\ step' = "flushing"
      /\ UNCHANGED <<ledger, occupancy>>
  BY DEF Flush
<1>2. live \in SUBSET TrackIds /\ records = <<>>
  BY <1>1 DEF Timeline
<1>3. \A t \in TrackIds : t \in live <=> t \in DOMAIN ledger
  BY <1>1, <1>2, NoRecords DEF LedgerInv, Due
<1>4. ASSUME NEW t \in TrackIds PROVE t \in live' <=> Due(t)'
  <2>1. ~EndsSeen(records', t) /\ (Silent(records', t) <=> t \notin live)
    BY <1>1, <1>2, SummariesSay
  <2>2. QED
    BY <1>1, <1>3, <2>1 DEF Due
<1>5. occupancy' = Published(ledger')
  BY <1>1 DEF LedgerInv
<1>6. QED
  BY <1>1, <1>4, <1>5 DEF LedgerInv

LEMMA LedgerOther ==
  ASSUME Timeline, LedgerInv, Fail \/ EndFrame \/ Decline \/ SchedulerStep PROVE LedgerInv'
<1>1. CASE Fail
  BY <1>1 DEF Fail, LedgerInv
<1>2. CASE EndFrame
  <2>1. /\ step = "detected" /\ occupancy' = Published(ledger) /\ step' = "none"
        /\ UNCHANGED <<ledger, live, records>>
    BY <1>2 DEF EndFrame
  <2>2. occupancy' = Published(ledger')
    BY <2>1
  <2>3. \A t \in TrackIds : t \in live' <=> Due(t)'
    BY <2>1 DEF LedgerInv, Due
  <2>4. QED
    BY <2>1, <2>2, <2>3 DEF LedgerInv
<1>3. CASE Decline \/ SchedulerStep
  <2>1. UNCHANGED <<ledger, live, records, step, occupancy>>
    BY <1>3, SchedulerSays DEF Decline, pipelineVars, runtimeVars
  <2>2. QED
    BY <2>1 DEF LedgerInv, Due, Published
<1>4. QED
  BY <1>1, <1>2, <1>3

-----------------------------------------------------------------------------
(* No interruption of the feed goes unmarked between two frames that are used *)

Marked(frame, breaks) == frame.discontinuity \/ frame.feed.breaks = breaks
\* The interruptions before the frame in hand, or the last one used; and before the last one in the slot.
BreaksUsed == IF hand # NoFrame THEN hand.feed.breaks ELSE trail.feed.breaks
BreaksLast == IF slot = <<>> THEN BreaksUsed ELSE slot[Len(slot)].feed.breaks
\* Along hand, slot and the frame just grabbed, each frame is marked or follows the one before it
\* without an interruption.
Chain ==
    /\ hand # NoFrame /\ step = "none" => Marked(hand, trail.feed.breaks)
    /\ \A i \in 1..Len(slot) : Marked(slot[i], IF i = 1 THEN BreaksUsed ELSE slot[i - 1].feed.breaks)
    /\ grabbed # NoFrame => Marked(grabbed, BreaksLast)
    /\ feed.breaks = IF grabbed # NoFrame THEN grabbed.feed.breaks ELSE BreaksLast
Chained == stopper = "running" /\ Going => Chain

LEMMA ChainAdmit == ASSUME SchedulerTypeOK, Chain, Admit, trail' = trail, step' = step PROVE Chain'
<1>1. /\ capture = "admitting" /\ grabbed # NoFrame /\ grabbed' = NoFrame /\ hand' = hand /\ feed' = feed
      /\ slot \in Seq(LiveFrame) /\ grabbed \in LiveFrame /\ Len(slot) \in Nat
  BY DEF Admit, SchedulerTypeOK
<1>2. PICK rest, kept : rest = (IF Len(slot) = Capacity THEN Tail(slot) ELSE slot) /\ kept = Append(rest, grabbed)
  OBVIOUS
<1>3. PICK bump : bump = (Len(slot) = Capacity /\ slot[1].discontinuity)
  OBVIOUS
<1>4. Capacity \in Nat \ {0}
  BY FrameSchedulerAssumption
<1>5. slot' = IF bump THEN [kept EXCEPT ![1].discontinuity = TRUE] ELSE kept
  <2>1. slot' = IF Len(slot) = Capacity /\ Head(slot).discontinuity
                THEN [kept EXCEPT ![1].discontinuity = TRUE] ELSE kept
    BY <1>2 DEF Admit, Carried
  <2>2. Head(slot) = slot[1]
    BY <1>1
  <2>3. QED
    BY <1>3, <2>1, <2>2
<1>6. PICK d : d = IF Len(slot) = Capacity THEN 1 ELSE 0
  OBVIOUS
<1>7. d \in {0, 1} /\ Len(slot) - d \in Nat
  BY <1>1, <1>4, <1>6
<1>8. rest \in Seq(LiveFrame) /\ Len(rest) = Len(slot) - d /\ \A i \in 1..(Len(slot) - d) : rest[i] = slot[i + d]
  <2>1. CASE Len(slot) = Capacity
    <3>1. slot # <<>>
      BY <1>4, <2>1
    <3>2. QED
      BY <1>1, <1>2, <1>6, <2>1, <3>1, HeadTailProperties
  <2>2. CASE Len(slot) # Capacity
    BY <1>1, <1>2, <1>6, <2>2
  <2>3. QED
    BY <2>1, <2>2
<1>9. PICK n : n = Len(slot) - d + 1
  OBVIOUS
<1>10. /\ n \in Nat \ {0} /\ kept \in Seq(LiveFrame) /\ Len(kept) = n
       /\ \A i \in 1..(n - 1) : kept[i] = slot[i + d]
       /\ kept[n] = grabbed
  BY <1>1, <1>2, <1>7, <1>8, <1>9, AppendProperties
<1>11. slot' \in Seq(LiveFrame) /\ Len(slot') = n
       /\ \A i \in 1..n : /\ slot'[i].feed = kept[i].feed
                          /\ kept[i].discontinuity => slot'[i].discontinuity
                          /\ i = 1 /\ bump => slot'[i].discontinuity
  <2>1. CASE bump
    <3>1. 1 \in 1..Len(kept) /\ kept[1] \in LiveFrame
      BY <1>10, ElementOfSeq
    <3>2. PICK f : f = [kept[1] EXCEPT !.discontinuity = TRUE]
      OBVIOUS
    <3>3. f \in LiveFrame /\ f.discontinuity /\ f.feed = kept[1].feed
      BY <3>1, <3>2 DEF LiveFrame
    <3>4. slot' = [kept EXCEPT ![1] = f]
      BY <1>5, <2>1, <3>2
    <3>5. /\ [kept EXCEPT ![1] = f] \in Seq(LiveFrame) /\ Len([kept EXCEPT ![1] = f]) = n
          /\ \A i \in 1..n : [kept EXCEPT ![1] = f][i] = IF i = 1 THEN f ELSE kept[i]
      BY <1>10, <3>1, <3>3, ExceptSeq
    <3>6. QED
      BY <2>1, <3>3, <3>4, <3>5
  <2>2. CASE ~bump
    BY <1>5, <1>10, <2>2
  <2>3. QED
    BY <2>1, <2>2
<1>12. hand' # NoFrame /\ step' = "none" => Marked(hand', trail'.feed.breaks)
  BY <1>1 DEF Chain
<1>13. BreaksUsed' = BreaksUsed
  BY <1>1 DEF BreaksUsed
<1>14. slot # <<>> <=> Len(slot) > 0
  BY <1>1
<1>15. BreaksLast' = grabbed.feed.breaks
  <2>1. slot' # <<>> /\ n \in 1..n
    BY <1>10, <1>11
  <2>2. QED
    BY <1>10, <1>11, <2>1 DEF BreaksLast
<1>16. ASSUME NEW i \in 1..n PROVE Marked(kept[i], IF i + d = 1 THEN BreaksUsed ELSE slot[i + d - 1].feed.breaks)
  <2>1. CASE i \in 1..(n - 1)
    <3>1. i + d \in 1..Len(slot)
      BY <1>1, <1>7, <1>9, <2>1
    <3>2. \A k \in 1..Len(slot) : Marked(slot[k], IF k = 1 THEN BreaksUsed ELSE slot[k - 1].feed.breaks)
      BY DEF Chain
    <3>3. kept[i] = slot[i + d] /\ i \in Nat
      BY <1>10, <2>1
    <3>4. QED
      BY <1>7, <3>1, <3>2, <3>3
  <2>2. CASE i = n
    <3>1. n + d - 1 = Len(slot)
      BY <1>1, <1>7, <1>9
    <3>2. CASE Len(slot) = 0
      <4>1. slot = <<>> /\ n + d = 1
        BY <1>1, <1>7, <1>9, <3>2
      <4>2. QED
        BY <1>1, <1>10, <2>2, <4>1 DEF Chain, BreaksLast
    <3>3. CASE Len(slot) # 0
      <4>1. slot # <<>> /\ n + d # 1
        BY <1>1, <1>7, <1>9, <1>14, <3>3
      <4>2. QED
        BY <1>1, <1>10, <2>2, <3>1, <4>1 DEF Chain, BreaksLast
    <3>4. QED
      BY <3>2, <3>3
  <2>3. QED
    BY <1>10, <2>1, <2>2
<1>17. ASSUME NEW i \in 1..n PROVE Marked(slot'[i], IF i = 1 THEN BreaksUsed ELSE slot'[i - 1].feed.breaks)
  <2>1. CASE i # 1
    <3>1. i - 1 \in 1..(n - 1) /\ i - 1 \in 1..n /\ i + d # 1 /\ i - 1 + d = i + d - 1
      BY <1>7, <1>10, <2>1
    <3>2. slot'[i - 1].feed = slot[i + d - 1].feed
      BY <1>10, <1>11, <3>1
    <3>3. QED
      BY <1>11, <1>16, <2>1, <3>1, <3>2 DEF Marked
  <2>2. CASE i = 1 /\ d = 0
    BY <1>11, <1>16, <2>2 DEF Marked
  <2>3. CASE i = 1 /\ d = 1
    <3>1. Marked(kept[1], slot[1].feed.breaks)
      <4>1. i + d # 1 /\ i + d - 1 = 1
        BY <2>3
      <4>2. QED
        BY <1>16, <2>3, <4>1
    <3>2. 1 \in 1..Len(slot) /\ Len(slot) = Capacity
      BY <1>1, <1>4, <1>6, <2>3
    <3>3. Marked(slot[1], BreaksUsed)
      BY <3>2 DEF Chain
    <3>4. CASE slot[1].discontinuity
      BY <1>3, <1>11, <2>3, <3>2, <3>4 DEF Marked
    <3>5. CASE ~slot[1].discontinuity
      BY <1>11, <2>3, <3>1, <3>3, <3>5 DEF Marked
    <3>6. QED
      BY <3>4, <3>5
  <2>4. QED
    BY <1>7, <2>1, <2>2, <2>3
<1>18. feed'.breaks = IF grabbed' # NoFrame THEN grabbed'.feed.breaks ELSE BreaksLast'
  BY <1>1, <1>15 DEF Chain
<1>19. QED
  BY <1>1, <1>11, <1>12, <1>13, <1>17, <1>18 DEF Chain

LEMMA ChainTake == ASSUME SchedulerTypeOK, Chain, Take, step = "none", trail' = trail PROVE Chain'
<1>1. /\ slot # <<>> /\ slot' = Tail(slot) /\ hand' = Head(slot) /\ hand = NoFrame
      /\ UNCHANGED <<grabbed, feed>> /\ slot \in Seq(LiveFrame) /\ Len(slot) \in Nat
  BY DEF Take, SchedulerTypeOK
<1>2. /\ Len(slot') = Len(slot) - 1 /\ \A i \in 1..(Len(slot) - 1) : slot'[i] = slot[i + 1]
      /\ hand' = slot[1] /\ Len(slot) > 0 /\ hand' \in LiveFrame
  BY <1>1, HeadTailProperties
<1>3. hand' # NoFrame
  BY <1>2 DEF LiveFrame, NoFrame
<1>4. BreaksUsed' = slot[1].feed.breaks
  BY <1>2, <1>3 DEF BreaksUsed
<1>5. Marked(slot[1], trail.feed.breaks)
  <2>1. 1 \in 1..Len(slot)
    BY <1>1, <1>2
  <2>2. BreaksUsed = trail.feed.breaks
    BY <1>1 DEF BreaksUsed
  <2>3. QED
    BY <2>1, <2>2 DEF Chain
<1>6. ASSUME NEW i \in 1..Len(slot') PROVE Marked(slot'[i], IF i = 1 THEN BreaksUsed' ELSE slot'[i - 1].feed.breaks)
  <2>1. i + 1 \in 1..Len(slot) /\ i + 1 # 1 /\ i + 1 - 1 = i
    BY <1>1, <1>2
  <2>2. Marked(slot'[i], slot[i].feed.breaks)
    BY <1>2, <2>1 DEF Chain
  <2>3. CASE i = 1
    BY <1>4, <2>2, <2>3
  <2>4. CASE i # 1
    <3>1. i - 1 \in 1..(Len(slot) - 1) /\ i - 1 + 1 = i
      BY <1>1, <1>2, <2>4
    <3>2. QED
      BY <1>2, <2>2, <2>4, <3>1
  <2>5. QED
    BY <2>3, <2>4
<1>7. BreaksLast' = BreaksLast
  <2>1. BreaksLast = slot[Len(slot)].feed.breaks
    BY <1>1 DEF BreaksLast
  <2>2. CASE Len(slot) = 1
    <3>1. slot' = <<>>
      BY <1>1, <1>2, <2>2, HeadTailProperties, EmptySeq
    <3>2. QED
      BY <1>4, <2>1, <2>2, <3>1 DEF BreaksLast
  <2>3. CASE Len(slot) # 1
    <3>1. slot' # <<>> /\ Len(slot') \in 1..(Len(slot) - 1) /\ Len(slot') + 1 = Len(slot)
      <4>1. Len(slot') \in 1..(Len(slot) - 1) /\ Len(slot') + 1 = Len(slot) /\ Len(slot') # 0
        BY <1>1, <1>2, <2>3
      <4>2. Len(<<>>) = 0
        BY EmptySeq
      <4>3. QED
        BY <4>1, <4>2
    <3>2. slot'[Len(slot')] = slot[Len(slot)]
      BY <1>2, <3>1
    <3>3. QED
      BY <2>1, <3>1, <3>2 DEF BreaksLast
  <2>4. QED
    BY <2>2, <2>3
<1>8. QED
  BY <1>1, <1>2, <1>5, <1>6, <1>7 DEF Chain

LEMMA ChainGrab == ASSUME SchedulerTypeOK, Chain, Grab, trail' = trail, step' = step PROVE Chain'
<1>1. capture = "reading" /\ grabbed = NoFrame /\ UNCHANGED <<slot, hand>>
  BY DEF Grab, SchedulerTypeOK
<1>2. BreaksUsed' = BreaksUsed /\ BreaksLast' = BreaksLast
  BY <1>1 DEF BreaksUsed, BreaksLast
<1>3. CASE stop
  BY <1>1, <1>2, <1>3 DEF Grab, Chain
<1>4. CASE ~stop
  <2>1. PICK broke \in BOOLEAN, s \in Sizes :
          /\ feed' = [breaks |-> IF broke THEN feed.breaks + 1 ELSE feed.breaks, size |-> s]
          /\ grabbed' = [at |-> tally.captured + 1, feed |-> feed', discontinuity |-> broke]
    BY <1>4 DEF Grab
  <2>2. grabbed' # NoFrame /\ grabbed'.feed = feed' /\ grabbed'.discontinuity = broke
    <3>1. tally.captured \in Nat
      BY DEF SchedulerTypeOK
    <3>2. grabbed'.at # 0
      BY <2>1, <3>1
    <3>3. QED
      BY <2>1, <3>2 DEF NoFrame
  <2>3. feed.breaks = BreaksLast
    BY <1>1 DEF Chain
  <2>4. Marked(grabbed', BreaksLast)
    BY <2>1, <2>2, <2>3 DEF Marked
  <2>5. QED
    BY <1>1, <1>2, <2>2, <2>4 DEF Chain
<1>5. QED
  BY <1>3, <1>4

-----------------------------------------------------------------------------
(* What a line holds of a track is backed by what has been seen of it *)

SightRecord == [side : Sides \cup {"UNKNOWN"}, run : 0..ConfirmObservations, both : BOOLEAN,
                event : Nat \cup {None}]
\* A side a track is established on is where it was last seen; a pending transition has been seen as
\* often as it was counted, from the other side.
Agree(met, entry) ==
    /\ met.side # "UNKNOWN" /\ met.count = 0 => entry.side = met.side
    /\ met.count > 0 =>
         /\ met.side # "UNKNOWN" /\ entry.side = Opposite(met.side) /\ entry.both
         /\ entry.run >= met.count \/ entry.run = ConfirmObservations

LEMMA TrailedStands ==
  ASSUME NEW e \in SightRecord, NEW side \in Sides \cup {"DEADBAND"}
  PROVE  /\ Trailed(e, side) \in SightRecord /\ Trailed(e, side).event = e.event
         /\ side = "DEADBAND" => Trailed(e, side) = e
         /\ side # "DEADBAND" => Trailed(e, side).side = side
         /\ side # "DEADBAND" /\ side = e.side =>
               /\ Trailed(e, side).both = e.both
               /\ Trailed(e, side).run = IF e.run < ConfirmObservations THEN e.run + 1 ELSE e.run
         /\ side # "DEADBAND" /\ side # e.side =>
               Trailed(e, side).run = 1 /\ Trailed(e, side).both = (e.side # "UNKNOWN")
<1>1. ConfirmObservations \in Nat \ {0}
  BY PortalCrossingAssumption
<1>2. e.run \in 0..ConfirmObservations
  BY DEF SightRecord
<1>3. CASE side = "DEADBAND"
  <2>1. side # e.side
    BY <1>3 DEF SightRecord, Sides
  <2>2. QED
    BY <1>3, <2>1 DEF Trailed
<1>4. CASE side # "DEADBAND" /\ side = e.side
  <2>1. Trailed(e, side) = [e EXCEPT !.run = IF e.run < ConfirmObservations THEN e.run + 1 ELSE e.run]
    BY <1>4 DEF Trailed
  <2>2. (IF e.run < ConfirmObservations THEN e.run + 1 ELSE e.run) \in 0..ConfirmObservations
    BY <1>1, <1>2
  <2>3. QED
    BY <1>4, <2>1, <2>2 DEF SightRecord
<1>5. CASE side # "DEADBAND" /\ side # e.side
  <2>1. Trailed(e, side) = [e EXCEPT !.side = side, !.run = 1, !.both = e.side # "UNKNOWN"]
    BY <1>5 DEF Trailed
  <2>2. 1 \in 0..ConfirmObservations /\ side \in Sides
    BY <1>1, <1>5
  <2>3. QED
    BY <1>5, <2>1, <2>2 DEF SightRecord
<1>6. QED
  BY <1>3, <1>4, <1>5

\* What an observation makes of a state, against what it makes of the history.
Stands(o, s, f, at) ==
    /\ o.state \in CrossingState /\ o.state.track = s.track /\ Agree(o.state, f)
    /\ o.reports => /\ f.both /\ f.run >= ConfirmObservations
                    /\ s.event # None => at - s.event >= Cooldown
                    /\ o.state.event = at
    /\ ~o.reports => o.state.event = s.event

\* An observation changes both alike, and a transition is reported only when it has been seen.
LEMMA AdvanceStands ==
  ASSUME NEW s \in CrossingState, NEW e \in SightRecord, Agree(s, e), NEW side \in Sides \cup {"DEADBAND"},
         NEW at \in Nat, NEW onSegment \in BOOLEAN, NEW eligible \in BOOLEAN
  PROVE  Stands(Advance(s, side, at, onSegment, eligible), s, Trailed(e, side), at)
<1>1. ConfirmObservations \in Nat \ {0} /\ Cooldown \in Nat
  BY PortalCrossingAssumption
<1>2. PICK o : o = Advance(s, side, at, onSegment, eligible)
  OBVIOUS
<1>3. PICK f : f = Trailed(e, side)
  OBVIOUS
<1>4. /\ f \in SightRecord
      /\ side = "DEADBAND" => f = e
      /\ side # "DEADBAND" => f.side = side
      /\ side # "DEADBAND" /\ side = e.side =>
            f.both = e.both /\ f.run = IF e.run < ConfirmObservations THEN e.run + 1 ELSE e.run
      /\ side # "DEADBAND" /\ side # e.side => f.run = 1 /\ f.both = (e.side # "UNKNOWN")
  BY <1>3, TrailedStands
<1>5. /\ s.side \in Sides \cup {"UNKNOWN"} /\ s.count \in Nat /\ s.event \in Nat \cup {None}
      /\ e.side \in Sides \cup {"UNKNOWN"} /\ e.run \in 0..ConfirmObservations /\ e.both \in BOOLEAN
  BY DEF CrossingState, SightRecord
<1>6. CASE side = "DEADBAND"
  <2>1. o = [state |-> s, reports |-> FALSE]
    BY <1>2, <1>6 DEF Advance
  <2>2. f = e
    BY <1>4, <1>6
  <2>3. QED
    BY <1>2, <1>3, <2>1, <2>2 DEF Stands
<1>7. CASE side # "DEADBAND" /\ s.side \in {"UNKNOWN", side}
  <2>1. o = [state |-> [s EXCEPT !.side = side, !.count = 0], reports |-> FALSE]
    BY <1>2, <1>7 DEF Advance, Sides, Opposite
  <2>2. /\ o.state \in CrossingState /\ o.state.track = s.track /\ o.state.side = side /\ o.state.count = 0
        /\ o.state.event = s.event /\ ~o.reports
    BY <1>7, <2>1 DEF CrossingState
  <2>3. Agree(o.state, f)
    BY <1>4, <1>7, <2>2 DEF Agree
  <2>4. QED
    BY <1>2, <1>3, <2>2, <2>3 DEF Stands
<1>8. CASE side # "DEADBAND" /\ s.side \notin {"UNKNOWN", side}
  <2>1. side = Opposite(s.side) /\ s.side = Opposite(side) /\ s.side \in Sides /\ s.side # side
    BY <1>5, <1>8 DEF Sides, Opposite
  <2>2. /\ s.count = 0 => e.side = s.side
        /\ s.count > 0 => e.side = side /\ e.both /\ (e.run >= s.count \/ e.run = ConfirmObservations)
    BY <1>8, <2>1 DEF Agree
  <2>3. f.both /\ f.side = side /\ (f.run >= s.count + 1 \/ f.run = ConfirmObservations)
    <3>1. CASE s.count = 0
      <4>1. e.side = s.side /\ side # e.side /\ e.side # "UNKNOWN"
        BY <1>8, <2>1, <2>2, <3>1
      <4>2. f.run = 1 /\ f.both /\ f.side = side
        BY <1>4, <1>8, <4>1
      <4>3. QED
        BY <3>1, <4>2
    <3>2. CASE s.count > 0
      <4>1. f.both /\ f.side = side /\ f.run = IF e.run < ConfirmObservations THEN e.run + 1 ELSE e.run
        BY <1>4, <1>8, <2>2, <3>2
      <4>2. e.run >= s.count \/ e.run = ConfirmObservations
        BY <2>2, <3>2
      <4>3. QED
        BY <1>1, <1>5, <4>1, <4>2
    <3>3. QED
      BY <1>5, <3>1, <3>2
  <2>4. CASE s.count + 1 < ConfirmObservations \/ Cooling(s, at)
    <3>1. o = [state |-> [s EXCEPT !.count = s.count + 1], reports |-> FALSE]
      BY <1>2, <1>8, <2>1, <2>4 DEF Advance
    <3>2. /\ o.state \in CrossingState /\ o.state.track = s.track /\ o.state.side = s.side /\ o.state.count = s.count + 1
          /\ o.state.event = s.event /\ ~o.reports
      BY <1>5, <3>1 DEF CrossingState
    <3>3. Agree(o.state, f)
      <4>1. o.state.side # "UNKNOWN" /\ f.side = Opposite(o.state.side)
        BY <1>8, <2>1, <2>3, <3>2 DEF Sides, Opposite
      <4>2. o.state.count > 0 /\ f.both /\ (f.run >= o.state.count \/ f.run = ConfirmObservations)
        BY <1>5, <2>3, <3>2
      <4>3. QED
        BY <1>5, <3>2, <4>1, <4>2 DEF Agree
    <3>4. QED
      BY <1>2, <1>3, <3>2, <3>3 DEF Stands
  <2>5. CASE ~(s.count + 1 < ConfirmObservations \/ Cooling(s, at))
    <3>1. o = IF onSegment /\ eligible
              THEN [state |-> [[s EXCEPT !.side = side, !.count = 0] EXCEPT !.event = at], reports |-> TRUE]
              ELSE [state |-> [s EXCEPT !.side = side, !.count = 0], reports |-> FALSE]
      BY <1>2, <1>8, <2>1, <2>5 DEF Advance
    <3>2. /\ o.state \in CrossingState /\ o.state.track = s.track /\ o.state.side = side /\ o.state.count = 0
          /\ IF onSegment /\ eligible THEN o.reports /\ o.state.event = at
             ELSE ~o.reports /\ o.state.event = s.event
      BY <1>8, <3>1 DEF CrossingState
    <3>3. Agree(o.state, f)
      BY <1>8, <2>3, <3>2 DEF Agree
    <3>4. f.run >= ConfirmObservations
      BY <1>1, <1>4, <1>5, <2>3, <2>5 DEF SightRecord
    <3>5. s.event # None => at - s.event >= Cooldown
      BY <1>1, <1>5, <2>5 DEF Cooling
    <3>6. QED
      BY <1>2, <1>3, <2>3, <3>2, <3>3, <3>4, <3>5 DEF Stands
  <2>6. QED
    BY <2>4, <2>5
<1>9. QED
  BY <1>6, <1>7, <1>8

\* The history is of the feed, and the geometry, the frame in hand comes from.
Pictures ==
    /\ trail = [feed |-> trail.feed, seen |-> trail.seen] /\ trail.feed \in Feed
    /\ Going => tracker.picture \in {"none", trail.feed.size}
    /\ step = "detected" => trail.feed = hand.feed /\ tracker.picture # "none"
    /\ Going /\ tracker.picture = "none" =>
          live = {} /\ DOMAIN trail.seen = {} /\ \A p \in DOMAIN crossing : crossing[p] = <<>>
\* Tables and history are of the enabled lines, and of tracks that have begun.
TablesOf == DOMAIN crossing = Enabled(lines) /\ \A p \in DOMAIN crossing : Tabled(crossing[p])
Trails ==
    /\ DOMAIN trail.seen \subseteq Enabled(lines) \X TrackIds
    /\ \A k \in DOMAIN trail.seen : trail.seen[k] \in SightRecord
    /\ Going => \A k \in DOMAIN trail.seen : k[2] < tracker.next
\* A track that will not be seen again.
Gone(t) == tracker.tracks[t] = Unborn /\ t < tracker.next /\ Unseen(records, t)
\* Unless a break is still to be carried over, no line holds more of a track than the history shows.
Backed ==
    Going /\ ~unsynced =>
        \A p \in DOMAIN crossing, t \in TrackIds : Agree(StateOf(crossing[p], t), Seen(trail.seen, p, t))
\* A line that has reported a transition of a track remembers when, as long as the track may return.
Remembered ==
    Going => \A k \in DOMAIN trail.seen : trail.seen[k].event # None =>
        Gone(k[2]) \/ (~unsynced /\ StateOf(crossing[k[1]], k[2]).event = trail.seen[k].event)
\* A track whose end is reported will not be seen again, or has not been since the break that ended it.
LastWords ==
    Going => \A i \in 1..Len(records) : records[i].kind = "summary" =>
        \/ Gone(records[i].track)
        \/ /\ \A k \in DOMAIN trail.seen : k[2] # records[i].track
           /\ \A j \in 1..i : ~Observes(records[j], records[i].track)
EvidenceInv ==
    Pictures /\ TablesOf /\ Trails /\ Backed /\ Remembered /\ LastWords /\ EvidenceSinceBreak

\* The history as the record at hand meets it: a line that is replaced has none.
SeenNow == IF Replaces THEN <<>> ELSE trail.seen

LEMMA NothingSeen == /\ DOMAIN <<>> = {}
                     /\ \A p, t : Seen(<<>>, p, t) = NoSighting
                     /\ NoSighting \in SightRecord
                     /\ \A t, e : Agree(NewState(t), e)
<1>1. DOMAIN <<>> = {}
  OBVIOUS
<1>2. \A p, t : Seen(<<>>, p, t) = NoSighting
  BY <1>1 DEF Seen
<1>3. NoSighting \in SightRecord
  BY PortalCrossingAssumption DEF NoSighting, SightRecord
<1>4. \A t, e : Agree(NewState(t), e)
  BY DEF Agree, NewState
<1>5. QED
  BY <1>1, <1>2, <1>3, <1>4

LEMMA SeenTyped ==
  ASSUME NEW seen, \A k \in DOMAIN seen : seen[k] \in SightRecord, NEW p, NEW t
  PROVE  Seen(seen, p, t) \in SightRecord
BY NothingSeen DEF Seen

\* What a record meets: the tables of the lines in use, with nothing in them that is not backed.
LEMMA StatesMet ==
  ASSUME TablesOf, Trails, ApplyStaged, unsynced \in BOOLEAN, unsynced' = (unsynced /\ ~Resynced)
  PROVE  /\ DOMAIN States = Enabled(lines') /\ \A p \in DOMAIN States : Tabled(States[p])
         /\ DOMAIN Swapped = DOMAIN States
         /\ Replaces \/ Resynced => \A p \in DOMAIN States : States[p] = <<>>
         /\ ~Replaces /\ ~Resynced => States = crossing
         /\ DOMAIN SeenNow \subseteq Enabled(lines') \X TrackIds
         /\ \A k \in DOMAIN SeenNow : SeenNow[k] \in SightRecord /\ k \in DOMAIN trail.seen
         /\ unsynced' => DOMAIN States = {} /\ DOMAIN SeenNow = {}
<1>1. CASE Replaces
  <2>1. lines' = Offer.portals /\ Swapped = [p \in Enabled(Offer.portals) |-> <<>>] /\ SeenNow = <<>>
    BY <1>1 DEF ApplyStaged, Swapped, NoTracks, SeenNow
  <2>2. DOMAIN States = DOMAIN Swapped /\ \A p \in DOMAIN States : States[p] = <<>>
    BY <2>1 DEF States, Reset
  <2>3. unsynced' => DOMAIN Swapped = {}
    BY DEF Resynced
  <2>4. QED
    BY <1>1, <2>1, <2>2, <2>3, NothingTabled, NothingSeen
<1>2. CASE ~Replaces
  <2>1. lines' = lines /\ Swapped = crossing /\ SeenNow = trail.seen
    BY <1>2 DEF ApplyStaged, Swapped, SeenNow
  <2>2. DOMAIN States = DOMAIN Swapped /\ (Resynced => \A p \in DOMAIN States : States[p] = <<>>)
        /\ (~Resynced => States = crossing)
    BY <2>1 DEF States, Reset
  <2>3. \A p \in DOMAIN States : Tabled(States[p])
    <3>1. CASE Resynced
      BY <2>2, <3>1, NothingTabled
    <3>2. CASE ~Resynced
      BY <2>2, <3>2 DEF TablesOf
    <3>3. QED
      BY <3>1, <3>2
  <2>4. unsynced' => DOMAIN Swapped = {}
    BY DEF Resynced
  <2>5. DOMAIN Swapped = Enabled(lines) /\ DOMAIN SeenNow \subseteq Enabled(lines) \X TrackIds
        /\ \A k \in DOMAIN SeenNow : SeenNow[k] \in SightRecord
    BY <2>1 DEF TablesOf, Trails
  <2>6. unsynced' => DOMAIN SeenNow = {}
    BY <2>4, <2>5
  <2>7. QED
    BY <1>2, <2>1, <2>2, <2>3, <2>4, <2>5, <2>6
<1>3. QED
  BY <1>1, <1>2

LEMMA StatesBacked ==
  ASSUME EvidenceInv, Going, ApplyStaged, unsynced \in BOOLEAN, unsynced' = (unsynced /\ ~Resynced)
  PROVE  /\ \A p \in DOMAIN States, t \in TrackIds : Agree(StateOf(States[p], t), Seen(SeenNow, p, t))
         /\ \A k \in DOMAIN SeenNow : SeenNow[k].event # None =>
              Gone(k[2]) \/ (~unsynced' /\ StateOf(States[k[1]], k[2]).event = SeenNow[k].event)
<1>1. /\ DOMAIN Swapped = DOMAIN States
      /\ Replaces \/ Resynced => \A p \in DOMAIN States : States[p] = <<>>
      /\ ~Replaces /\ ~Resynced => States = crossing
      /\ unsynced' => DOMAIN States = {}
  BY StatesMet DEF EvidenceInv
<1>2. ASSUME NEW p \in DOMAIN States, NEW t \in TrackIds
      PROVE  Agree(StateOf(States[p], t), Seen(SeenNow, p, t))
  <2>1. CASE Replaces \/ Resynced
    <3>1. StateOf(States[p], t) = NewState(t)
      BY <1>1, <2>1, NothingTabled
    <3>2. QED
      BY <3>1, NothingSeen
  <2>2. CASE ~Replaces /\ ~Resynced
    <3>1. ~unsynced
      BY <1>1, <2>2
    <3>2. States = crossing /\ SeenNow = trail.seen
      BY <1>1, <2>2 DEF SeenNow
    <3>3. QED
      BY <3>1, <3>2 DEF EvidenceInv, Backed
  <2>3. QED
    BY <2>1, <2>2
<1>3. ASSUME NEW k \in DOMAIN SeenNow, SeenNow[k].event # None
      PROVE  Gone(k[2]) \/ (~unsynced' /\ StateOf(States[k[1]], k[2]).event = SeenNow[k].event)
  <2>1. ~Replaces /\ SeenNow = trail.seen
    BY <1>3, NothingSeen DEF SeenNow
  <2>2. Gone(k[2]) \/ (~unsynced /\ StateOf(crossing[k[1]], k[2]).event = trail.seen[k].event)
    BY <1>3, <2>1 DEF EvidenceInv, Remembered
  <2>3. ~unsynced => ~Resynced /\ ~unsynced'
    BY DEF Resynced
  <2>4. QED
    BY <1>1, <2>1, <2>2, <2>3
<1>4. QED
  BY <1>2, <1>3

\* A record less leaves a track that is gone gone, and says no more of the others' ends.
LEMMA GoneStays ==
  ASSUME records \in Records, records # <<>>, records' = Tail(records), tracker' = tracker, NEW t, Gone(t)
  PROVE  Gone(t)'
<1>1. Unseen(records', t)
  BY RecordsSplit DEF Gone
<1>2. QED
  BY <1>1 DEF Gone

LEMMA LastWordsShorter ==
  ASSUME LastWords, Going, step' = step, records \in Records, records # <<>>, records' = Tail(records),
         tracker' = tracker, NEW h, Head(records).track = h,
         \A k \in DOMAIN trail'.seen : k \in DOMAIN trail.seen \/ (k[2] = h /\ Observes(Head(records), h))
  PROVE  LastWords'
<1>1. /\ \A i \in 1..Len(records') : records'[i] = records[i + 1] /\ i + 1 \in 1..Len(records)
      /\ Head(records) = records[1] /\ 1 \in 1..Len(records) /\ Len(records) \in Nat
  <2>1. Len(records') = Len(records) - 1 /\ Len(records) \in Nat /\ Len(records) > 0
    BY HeadTailProperties DEF Records
  <2>2. \A i \in 1..Len(records') : records'[i] = records[i + 1]
    BY HeadTailProperties DEF Records
  <2>3. Head(records) = records[1] /\ 1 \in 1..Len(records) /\ \A i \in 1..Len(records') : i + 1 \in 1..Len(records)
    BY <2>1
  <2>4. QED
    BY <2>1, <2>2, <2>3
<1>2. ASSUME NEW i \in 1..Len(records'), records'[i].kind = "summary"
      PROVE  (\/ Gone(records[i].track)
              \/ /\ \A k \in DOMAIN trail.seen : k[2] # records[i].track
                 /\ \A j \in 1..i : ~Observes(records[j], records[i].track))'
  <2>1. PICK t : t = records'[i].track
    OBVIOUS
  <2>2. \/ Gone(t)
        \/ /\ \A k \in DOMAIN trail.seen : k[2] # t
           /\ \A j \in 1..(i + 1) : ~Observes(records[j], t)
    BY <1>1, <1>2, <2>1 DEF LastWords
  <2>3. CASE Gone(t)
    <3>1. Gone(t)'
      BY <2>3, GoneStays
    <3>2. QED
      BY <2>1, <3>1 DEF Gone
  <2>4. CASE (\A k \in DOMAIN trail.seen : k[2] # t) /\ \A j \in 1..(i + 1) : ~Observes(records[j], t)
    <3>1. \A j \in 1..i : j + 1 \in 1..(i + 1) /\ j \in 1..Len(records')
      BY <1>1, HeadTailProperties DEF Records
    <3>2. \A j \in 1..i : ~Observes(records'[j], t)
      BY <1>1, <2>4, <3>1
    <3>3. ~Observes(Head(records), t)
      <4>1. 1 \in 1..(i + 1)
        BY <1>1
      <4>2. QED
        BY <1>1, <2>4, <4>1
    <3>4. \A k \in DOMAIN trail'.seen : k[2] # t
      BY <2>4, <3>3
    <3>5. QED
      BY <2>1, <3>2, <3>4
  <2>5. QED
    BY <2>2, <2>3, <2>4
<1>3. QED
  BY <1>2 DEF LastWords

\* A track's end forgets it at every line.
LEMMA EvidenceSummary ==
  ASSUME Stream, EvidenceInv, Handle, Head(records).kind = "summary" PROVE EvidenceInv'
<1>1. PICK t : t = Head(records).track
  OBVIOUS
<1>2. /\ records # <<>> /\ records' = Tail(records) /\ t \in TrackIds /\ HandleSummary(t)
      /\ ApplyStaged /\ unsynced' = (unsynced /\ ~Resynced) /\ step \in {"detected", "flushing"}
      /\ UNCHANGED <<tracker, live, step>> /\ hand' = hand
  BY <1>1, HandleSays DEF Stream, schedulerVars
<1>3. records \in Records /\ unsynced \in BOOLEAN
  BY DEF Stream, Timeline
<1>4. TablesOf /\ Trails /\ Pictures
  BY DEF EvidenceInv
<1>5. /\ DOMAIN States = Enabled(lines') /\ \A p \in DOMAIN States : Tabled(States[p])
      /\ DOMAIN SeenNow \subseteq Enabled(lines') \X TrackIds
      /\ \A k \in DOMAIN SeenNow : SeenNow[k] \in SightRecord /\ k \in DOMAIN trail.seen
      /\ unsynced' => DOMAIN States = {} /\ DOMAIN SeenNow = {}
  BY <1>2, <1>3, <1>4, StatesMet
<1>6. /\ crossing' = [p \in DOMAIN States |-> Without(States[p], t)]
      /\ trail' = [feed |-> trail.feed, seen |-> SeenNow] /\ report' = None
  <2>1. trail = [feed |-> trail.feed, seen |-> trail.seen]
    BY <1>4 DEF Pictures
  <2>2. trail' = IF Replaces THEN [trail EXCEPT !.seen = <<>>] ELSE trail
    BY <1>2 DEF HandleSummary
  <2>3. trail' = [feed |-> trail.feed, seen |-> SeenNow]
    BY <2>1, <2>2 DEF SeenNow
  <2>4. QED
    BY <1>2, <2>3 DEF HandleSummary, Forget
<1>7. DOMAIN crossing' = DOMAIN States /\ trail'.seen = SeenNow /\ trail'.feed = trail.feed
  BY <1>6
<1>8. \A p \in DOMAIN States : /\ Tabled(crossing'[p])
                                /\ StateOf(crossing'[p], t) = NewState(t)
                                /\ \A u : u # t => StateOf(crossing'[p], u) = StateOf(States[p], u)
  BY <1>5, <1>6, TakenOut
<1>9. TablesOf'
  BY <1>5, <1>7, <1>8 DEF TablesOf
<1>10. Trails'
  BY <1>2, <1>4, <1>5, <1>7 DEF Trails, Going
<1>11. Pictures'
  <2>1. trail' = [feed |-> trail'.feed, seen |-> trail'.seen]
    BY <1>6
  <2>2. Going' => step = "detected" /\ tracker.picture # "none"
    BY <1>2, <1>4 DEF Going, Pictures
  <2>3. QED
    BY <1>2, <1>4, <1>7, <2>1, <2>2 DEF Pictures, Going
<1>12. ASSUME Going'
       PROVE  /\ \A p \in DOMAIN States, u \in TrackIds : Agree(StateOf(States[p], u), Seen(SeenNow, p, u))
              /\ \A k \in DOMAIN SeenNow : SeenNow[k].event # None =>
                    Gone(k[2]) \/ (~unsynced' /\ StateOf(States[k[1]], k[2]).event = SeenNow[k].event)
  <2>1. Going
    BY <1>2, <1>12 DEF Going
  <2>2. QED
    BY <1>2, <1>3, <2>1, StatesBacked
<1>13. Backed'
  <2>1. ASSUME Going', NEW p \in DOMAIN States, NEW u \in TrackIds
        PROVE  Agree(StateOf(crossing'[p], u), Seen(SeenNow, p, u))
    <3>1. CASE u = t
      BY <1>8, <3>1, NothingSeen
    <3>2. CASE u # t
      BY <1>8, <1>12, <2>1, <3>2
    <3>3. QED
      BY <3>1, <3>2
  <2>2. QED
    BY <1>7, <2>1 DEF Backed
<1>14. Remembered'
  <2>1. ASSUME Going', NEW k \in DOMAIN SeenNow, SeenNow[k].event # None
        PROVE  Gone(k[2])' \/ (~unsynced' /\ StateOf(crossing'[k[1]], k[2]).event = SeenNow[k].event)
    <3>1. k[1] \in DOMAIN States /\ k[2] \in TrackIds /\ k \in DOMAIN trail.seen
      BY <1>5
    <3>2. CASE Gone(k[2])
      BY <1>2, <1>3, <3>2, GoneStays
    <3>3. CASE ~Gone(k[2])
      <4>1. k[2] # t
        <5>1. 1 \in 1..Len(records) /\ records[1].kind = "summary" /\ records[1].track = t
          BY <1>1, <1>2, <1>3, HeadTailProperties DEF Records
        <5>2. Going
          BY <1>2, <2>1 DEF Going
        <5>3. Gone(t) \/ \A q \in DOMAIN trail.seen : q[2] # t
          BY <5>1, <5>2 DEF EvidenceInv, LastWords
        <5>4. QED
          BY <3>1, <3>3, <5>3
      <4>2. QED
        BY <1>8, <1>12, <2>1, <3>1, <3>3, <4>1
    <3>4. QED
      BY <3>2, <3>3
  <2>2. QED
    BY <1>7, <2>1 DEF Remembered
<1>15. LastWords'
  <2>1. CASE Going
    BY <1>1, <1>2, <1>3, <1>5, <1>7, <2>1, LastWordsShorter DEF EvidenceInv
  <2>2. CASE ~Going
    BY <1>2, <2>2 DEF LastWords, Going
  <2>3. QED
    BY <2>1, <2>2
<1>16. EvidenceSinceBreak'
  BY <1>6 DEF EvidenceSinceBreak
<1>17. QED
  BY <1>9, <1>10, <1>11, <1>13, <1>14, <1>15, <1>16 DEF EvidenceInv

\* What an observation of t does to each line, and to the history of what has been seen at it.
Looked(t) ==
    \E reports \in SUBSET DOMAIN States, entry \in [DOMAIN States -> SightRecord] :
      /\ DOMAIN crossing' = DOMAIN States
      /\ \A p \in DOMAIN States :
           /\ Tabled(crossing'[p])
           /\ \A u : u # t => StateOf(crossing'[p], u) = StateOf(States[p], u)
           /\ Agree(StateOf(crossing'[p], t), entry[p])
           /\ entry[p].event = Seen(SeenNow, p, t).event
           /\ p \notin reports => StateOf(crossing'[p], t).event = StateOf(States[p], t).event
           /\ p \in reports =>
                /\ entry[p].both /\ entry[p].run >= ConfirmObservations
                /\ StateOf(crossing'[p], t).event = hand.at
                /\ StateOf(States[p], t).event # None => hand.at - StateOf(States[p], t).event >= Cooldown
      /\ trail' = [feed |-> trail.feed,
                   seen |-> [k \in DOMAIN SeenNow \cup {<<p, t>> : p \in DOMAIN States} |->
                               IF k[2] = t
                               THEN IF k[1] \in reports THEN [entry[k[1]] EXCEPT !.event = hand.at]
                                    ELSE entry[k[1]]
                               ELSE SeenNow[k]]]
      /\ report' = None \/ report' = [basis |-> {entry[p] : p \in reports}, at |-> hand.at]

LEMMA ObservationSays ==
  ASSUME SchedulerTypeOK, Stream, EvidenceInv, Handle, Head(records).kind = "observation",
         NEW t, t = Head(records).track, Roomy
  PROVE  Looked(t)
<1>1. /\ records # <<>> /\ t \in TrackIds /\ step = "detected" /\ ApplyStaged
      /\ unsynced' = (unsynced /\ ~Resynced) /\ HandleObservation(t, Head(records).starts)
  BY HandleSays DEF Stream
<1>2. records \in Records /\ unsynced \in BOOLEAN /\ Going
  BY <1>1 DEF Stream, Timeline, Going
<1>3. hand.at \in Nat
  <2>1. hand \in LiveFrame
    BY <1>1 DEF Stream, Timeline, SchedulerTypeOK
  <2>2. MaxFrames \in Nat
    BY FrameSchedulerAssumption
  <2>3. QED
    BY <2>1, <2>2 DEF LiveFrame
<1>4. PICK starts : starts = Head(records).starts
  OBVIOUS
<1> DEFINE eligible == t \in Validated(Observing(t, t \in result.high, starts))
           reported(sight) == Reports(States, t, sight, hand.at, eligible)
           looked(sight, p) == Trailed(Seen(SeenNow, p, t), sight[p].side)
<1>5. PICK sight \in Sights(States) :
        /\ crossing' = Observed(States, t, sight, hand.at, eligible)
        /\ trail' = [trail EXCEPT !.seen =
                        [k \in DOMAIN SeenNow \cup {<<p, t>> : p \in DOMAIN States} |->
                            IF k[2] = t
                            THEN IF k[1] \in reported(sight)
                                 THEN [looked(sight, k[1]) EXCEPT !.event = hand.at]
                                 ELSE looked(sight, k[1])
                            ELSE SeenNow[k]]]
        /\ report' = IF reported(sight) = {} THEN None
                     ELSE [basis |-> {looked(sight, p) : p \in reported(sight)}, at |-> hand.at]
  <2>1. HandleObservation(t, starts)
    BY <1>1, <1>4
  <2>2. QED
    BY <2>1, Zenon DEF HandleObservation, SeenNow
<1>6. TablesOf /\ Trails /\ Pictures
  BY DEF EvidenceInv
<1>7. /\ \A p \in DOMAIN States : Tabled(States[p])
      /\ \A k \in DOMAIN SeenNow : SeenNow[k] \in SightRecord
      /\ DOMAIN States = Enabled(lines') /\ DOMAIN SeenNow \subseteq Enabled(lines') \X TrackIds
  BY <1>1, <1>2, <1>6, StatesMet
<1>8. \A p \in DOMAIN States : Agree(StateOf(States[p], t), Seen(SeenNow, p, t))
  BY <1>1, <1>2, StatesBacked
<1>9. PICK entry, reports : /\ entry = [p \in DOMAIN States |-> looked(sight, p)]
                            /\ reports = reported(sight)
  OBVIOUS
<1>10. eligible \in BOOLEAN
  OBVIOUS
<1>11. PICK at : at = hand.at
  OBVIOUS
<1> HIDE DEF eligible
<1>12. ASSUME NEW p \in DOMAIN States
       PROVE  /\ entry[p] \in SightRecord /\ entry[p].event = Seen(SeenNow, p, t).event
              /\ Tabled(crossing'[p])
              /\ \A u : u # t => StateOf(crossing'[p], u) = StateOf(States[p], u)
              /\ Agree(StateOf(crossing'[p], t), entry[p])
              /\ p \notin reports => StateOf(crossing'[p], t).event = StateOf(States[p], t).event
              /\ p \in reports =>
                   /\ entry[p].both /\ entry[p].run >= ConfirmObservations
                   /\ StateOf(crossing'[p], t).event = at
                   /\ StateOf(States[p], t).event # None => at - StateOf(States[p], t).event >= Cooldown
  <2>1. PICK s, e, side, onSegment : /\ s = StateOf(States[p], t) /\ e = Seen(SeenNow, p, t)
                                     /\ side = sight[p].side /\ onSegment = sight[p].onSegment
    OBVIOUS
  <2>2. s \in CrossingState /\ s.track = t
    <3>1. s \in [track : {t}, side : Sides \cup {"UNKNOWN"}, count : Nat, event : Nat \cup {None}]
      BY <1>7, <2>1, Placed
    <3>2. QED
      BY <1>1, <3>1 DEF CrossingState
  <2>3. e \in SightRecord /\ Agree(s, e)
    BY <1>7, <1>8, <2>1, SeenTyped
  <2>4. side \in Sides \cup {"DEADBAND"} /\ onSegment \in BOOLEAN /\ at \in Nat
    BY <1>3, <1>5, <1>11, <2>1 DEF Sights
  <2>5. PICK o : o = Advance(s, side, at, onSegment, eligible)
    OBVIOUS
  <2>6. /\ o.state \in CrossingState /\ o.state.track = t /\ Agree(o.state, Trailed(e, side))
        /\ o.reports => /\ Trailed(e, side).both /\ Trailed(e, side).run >= ConfirmObservations
                        /\ s.event # None => at - s.event >= Cooldown
                        /\ o.state.event = at
        /\ ~o.reports => o.state.event = s.event
    <3>1. Stands(Advance(s, side, at, onSegment, eligible), s, Trailed(e, side), at)
      BY <1>10, <2>2, <2>3, <2>4, AdvanceStands
    <3>2. QED
      BY <2>2, <2>5, <3>1 DEF Stands
  <2>7. entry[p] = Trailed(e, side) /\ Trailed(e, side) \in SightRecord /\ Trailed(e, side).event = e.event
    <3>1. entry[p] = Trailed(e, side)
      BY <1>9, <2>1
    <3>2. QED
      BY <2>3, <2>4, <3>1, TrailedStands
  <2>8. Outcome(States, p, t, sight, at, eligible) = o
    BY <2>1, <2>5 DEF Outcome
  <2>9. p \in reports <=> o.reports
    BY <1>9, <1>11, <2>8 DEF Reports
  <2>10. crossing'[p] = Newest(Append(Without(States[p], t), o.state))
    BY <1>5, <1>11, <2>8 DEF Observed
  <2>11. Tabled(States[p])
    BY <1>7
  <2>12. Len(Without(States[p], t)) < MaxTracked
    BY <1>1 DEF Roomy, RoomFor
  <2>13. /\ Tabled(crossing'[p]) /\ StateOf(crossing'[p], t) = o.state
         /\ \A u : u # t => StateOf(crossing'[p], u) = StateOf(States[p], u)
    BY <1>1, <2>6, <2>10, <2>11, <2>12, PutLast
  <2>14. QED
    BY <2>1, <2>6, <2>7, <2>9, <2>13
<1>13. entry \in [DOMAIN States -> SightRecord]
  BY <1>9, <1>12
<1>14. reports \in SUBSET DOMAIN States
  BY <1>9 DEF Reports
<1>15. DOMAIN crossing' = DOMAIN States
  BY <1>5 DEF Observed
<1> HIDE DEF reported
<1>16. trail' = [feed |-> trail.feed,
                 seen |-> [k \in DOMAIN SeenNow \cup {<<p, t>> : p \in DOMAIN States} |->
                             IF k[2] = t
                             THEN IF k[1] \in reports THEN [entry[k[1]] EXCEPT !.event = hand.at] ELSE entry[k[1]]
                             ELSE SeenNow[k]]]
  <2>1. \A k \in DOMAIN SeenNow \cup {<<p, t>> : p \in DOMAIN States} : k[1] \in DOMAIN States
    <3>1. \A k \in DOMAIN SeenNow : k[1] \in DOMAIN States
      BY <1>7
    <3>2. QED
      BY <3>1
  <2>2. \A k \in DOMAIN SeenNow \cup {<<p, t>> : p \in DOMAIN States} : looked(sight, k[1]) = entry[k[1]]
    BY <1>9, <2>1
  <2> HIDE DEF looked
  <2>3. PICK now : now = [k \in DOMAIN SeenNow \cup {<<p, t>> : p \in DOMAIN States} |->
                             IF k[2] = t
                             THEN IF k[1] \in reported(sight)
                                  THEN [looked(sight, k[1]) EXCEPT !.event = hand.at]
                                  ELSE looked(sight, k[1])
                             ELSE SeenNow[k]]
    OBVIOUS
  <2>4. now = [k \in DOMAIN SeenNow \cup {<<p, t>> : p \in DOMAIN States} |->
                             IF k[2] = t
                             THEN IF k[1] \in reports THEN [entry[k[1]] EXCEPT !.event = hand.at] ELSE entry[k[1]]
                             ELSE SeenNow[k]]
    BY <1>9, <2>2, <2>3
  <2>5. trail' = [trail EXCEPT !.seen = now]
    BY <1>5, <2>3
  <2>6. trail' = [feed |-> trail.feed, seen |-> now]
    <3>1. trail = [feed |-> trail.feed, seen |-> trail.seen]
      BY <1>6 DEF Pictures
    <3>2. QED
      BY <2>5, <3>1
  <2>7. QED
    BY <2>4, <2>6
<1>17. report' = None \/ report' = [basis |-> {entry[p] : p \in reports}, at |-> hand.at]
  <2>1. \A p \in reports : entry[p] = looked(sight, p)
    BY <1>9, <1>14
  <2> HIDE DEF looked
  <2>2. {looked(sight, p) : p \in reports} = {entry[p] : p \in reports}
    BY <2>1
  <2>3. report' = None \/ report' = [basis |-> {looked(sight, p) : p \in reported(sight)}, at |-> hand.at]
    BY <1>5
  <2>4. QED
    BY <1>9, <2>2, <2>3
<1>18. QED
  BY <1>11, <1>12, <1>13, <1>14, <1>15, <1>16, <1>17 DEF Looked

LEMMA EvidenceObservation ==
  ASSUME SchedulerTypeOK, Stream, EvidenceInv, Handle, Head(records).kind = "observation", Roomy
  PROVE  EvidenceInv'
<1>1. PICK t : t = Head(records).track
  OBVIOUS
<1>2. /\ records # <<>> /\ records' = Tail(records) /\ t \in TrackIds /\ step = "detected"
      /\ ApplyStaged /\ unsynced' = (unsynced /\ ~Resynced)
      /\ UNCHANGED <<tracker, step, hand>>
  BY <1>1, HandleSays DEF Stream, schedulerVars
<1>3. /\ records \in Records /\ unsynced \in BOOLEAN /\ Going /\ Going'
      /\ \A u \in TrackIds : u >= tracker.next => Unseen(records, u)
      /\ tracker.next \in Int
  BY <1>2, TrackRecords DEF Stream, Timeline, Going, TrackerTypeOK
<1>4. TablesOf /\ Trails /\ Pictures /\ LastWords
  BY DEF EvidenceInv
<1>5. ~Unseen(records, t) /\ Observes(Head(records), t) /\ ~Gone(t)
  <2>1. Observes(Head(records), t)
    BY <1>1 DEF Observes
  <2>2. ~Unseen(records, t)
    BY <1>2, <1>3, <2>1, RecordsSplit
  <2>3. QED
    BY <2>1, <2>2 DEF Gone
<1>6. PICK reports \in SUBSET DOMAIN States, entry \in [DOMAIN States -> SightRecord] :
           /\ DOMAIN crossing' = DOMAIN States
           /\ \A p \in DOMAIN States :
                /\ Tabled(crossing'[p])
                /\ \A u : u # t => StateOf(crossing'[p], u) = StateOf(States[p], u)
                /\ Agree(StateOf(crossing'[p], t), entry[p])
                /\ entry[p].event = Seen(SeenNow, p, t).event
                /\ p \notin reports => StateOf(crossing'[p], t).event = StateOf(States[p], t).event
                /\ p \in reports =>
                     /\ entry[p].both /\ entry[p].run >= ConfirmObservations
                     /\ StateOf(crossing'[p], t).event = hand.at
                     /\ StateOf(States[p], t).event # None => hand.at - StateOf(States[p], t).event >= Cooldown
           /\ trail' = [feed |-> trail.feed,
                        seen |-> [k \in DOMAIN SeenNow \cup {<<p, t>> : p \in DOMAIN States} |->
                                    IF k[2] = t
                                    THEN IF k[1] \in reports THEN [entry[k[1]] EXCEPT !.event = hand.at]
                                         ELSE entry[k[1]]
                                    ELSE SeenNow[k]]]
           /\ report' = None \/ report' = [basis |-> {entry[p] : p \in reports}, at |-> hand.at]
  <2>1. Looked(t)
    BY <1>1, ObservationSays
  <2>2. QED
    BY <2>1 DEF Looked
<1>7. PICK at, D : at = hand.at /\ D = DOMAIN SeenNow \cup {<<p, t>> : p \in DOMAIN States}
  OBVIOUS
<1>8. at \in Nat
  <2>1. hand \in LiveFrame
    BY <1>2 DEF Stream, Timeline, SchedulerTypeOK
  <2>2. MaxFrames \in Nat
    BY FrameSchedulerAssumption
  <2>3. QED
    BY <1>7, <2>1, <2>2 DEF LiveFrame
<1>9. /\ DOMAIN States = Enabled(lines') /\ DOMAIN SeenNow \subseteq Enabled(lines') \X TrackIds
      /\ \A k \in DOMAIN SeenNow : SeenNow[k] \in SightRecord /\ k \in DOMAIN trail.seen
      /\ unsynced' => DOMAIN States = {} /\ DOMAIN SeenNow = {}
  BY <1>2, <1>3, <1>4, StatesMet
<1>10. /\ \A p \in DOMAIN States, u \in TrackIds : Agree(StateOf(States[p], u), Seen(SeenNow, p, u))
       /\ \A k \in DOMAIN SeenNow : SeenNow[k].event # None =>
              Gone(k[2]) \/ (~unsynced' /\ StateOf(States[k[1]], k[2]).event = SeenNow[k].event)
  BY <1>2, <1>3, StatesBacked
<1>11. /\ trail' = [feed |-> trail.feed, seen |-> trail'.seen] /\ DOMAIN trail'.seen = D
       /\ \A k \in D : trail'.seen[k] = IF k[2] = t
                                    THEN IF k[1] \in reports THEN [entry[k[1]] EXCEPT !.event = at]
                                         ELSE entry[k[1]]
                                    ELSE SeenNow[k]
  <2>1. PICK now : now = [k \in DOMAIN SeenNow \cup {<<p, t>> : p \in DOMAIN States} |->
                                    IF k[2] = t
                                    THEN IF k[1] \in reports THEN [entry[k[1]] EXCEPT !.event = hand.at]
                                         ELSE entry[k[1]]
                                    ELSE SeenNow[k]]
    OBVIOUS
  <2>2. trail' = [feed |-> trail.feed, seen |-> now]
    BY <1>6, <2>1
  <2>3. trail'.seen = now
    BY <2>2
  <2>4. DOMAIN now = D /\ \A k \in D : now[k] = IF k[2] = t
                                    THEN IF k[1] \in reports THEN [entry[k[1]] EXCEPT !.event = at]
                                         ELSE entry[k[1]]
                                    ELSE SeenNow[k]
    BY <1>7, <2>1
  <2>5. QED
    BY <2>2, <2>3, <2>4
<1>12. trail'.feed = trail.feed
  BY <1>11
<1>13. /\ D \subseteq Enabled(lines') \X TrackIds
       /\ \A p \in DOMAIN States : <<p, t>> \in D /\ <<p, t>>[1] = p /\ <<p, t>>[2] = t
       /\ \A k \in D : k[2] = t \/ k \in DOMAIN SeenNow
       /\ \A k \in D : k[1] \in DOMAIN States /\ k[2] \in TrackIds /\ k = <<k[1], k[2]>>
  <2>1. D \subseteq Enabled(lines') \X TrackIds
    BY <1>2, <1>7, <1>9
  <2>2. \A p \in DOMAIN States : <<p, t>> \in D /\ <<p, t>>[1] = p /\ <<p, t>>[2] = t
    BY <1>7
  <2>3. \A k \in D : k[2] = t \/ k \in DOMAIN SeenNow
    BY <1>7
  <2>4. QED
    BY <1>9, <2>1, <2>2, <2>3
<1>14. TablesOf'
  BY <1>6, <1>9 DEF TablesOf
<1>15. \A k \in D : trail'.seen[k] \in SightRecord
  <2>1. ASSUME NEW p \in DOMAIN States
        PROVE  entry[p] \in SightRecord /\ [entry[p] EXCEPT !.event = at] \in SightRecord
    BY <1>6, <1>8, <2>1 DEF SightRecord
  <2>2. ASSUME NEW k \in D PROVE trail'.seen[k] \in SightRecord
    <3>1. CASE k[2] = t
      <4>1. PICK p : p = k[1]
        OBVIOUS
      <4>2. p \in DOMAIN States
        BY <1>13, <4>1
      <4>3. trail'.seen[k] = IF p \in reports THEN [entry[p] EXCEPT !.event = at] ELSE entry[p]
        BY <1>11, <3>1, <4>1
      <4>4. QED
        BY <2>1, <4>2, <4>3
    <3>2. CASE k[2] # t
      BY <1>9, <1>11, <1>13, <3>2
    <3>3. QED
      BY <3>1, <3>2
  <2>3. QED
    BY <2>2
<1>16. Trails'
  <2>1. ASSUME NEW k \in D PROVE k[2] < tracker.next
    <3>1. CASE k[2] = t
      BY <1>2, <1>3, <1>5, <3>1, TracksFinite DEF TrackIds
    <3>2. CASE k \in DOMAIN SeenNow
      BY <1>3, <1>4, <1>9, <3>2 DEF Trails
    <3>3. QED
      BY <1>13, <3>1, <3>2
  <2>2. QED
    BY <1>2, <1>11, <1>13, <1>15, <2>1 DEF Trails
<1>17. Pictures'
  BY <1>2, <1>3, <1>4, <1>11, <1>12 DEF Pictures
<1>18. Backed'
  <2>1. ASSUME NEW p \in DOMAIN States, NEW u \in TrackIds
        PROVE  Agree(StateOf(crossing'[p], u), Seen(trail'.seen, p, u))
    <3>1. CASE u = t
      <4>1. Seen(trail'.seen, p, t) = IF p \in reports THEN [entry[p] EXCEPT !.event = at] ELSE entry[p]
        BY <1>11, <1>13 DEF Seen
      <4>2. entry[p] \in SightRecord /\ Agree(StateOf(crossing'[p], t), entry[p])
        BY <1>6
      <4>3. CASE p \in reports
        <5>1. PICK e : e = [entry[p] EXCEPT !.event = at]
          OBVIOUS
        <5>2. e.side = entry[p].side /\ e.run = entry[p].run /\ e.both = entry[p].both
          BY <4>2, <5>1 DEF SightRecord
        <5>3. Agree(StateOf(crossing'[p], t), e)
          BY <4>2, <5>2 DEF Agree
        <5>4. QED
          BY <3>1, <4>1, <4>3, <5>1, <5>3
      <4>4. QED
        BY <3>1, <4>1, <4>2, <4>3
    <3>2. CASE u # t
      <4>1. <<p, u>> \in D <=> <<p, u>> \in DOMAIN SeenNow
        BY <1>7, <3>2
      <4>2. Seen(trail'.seen, p, u) = Seen(SeenNow, p, u)
        BY <1>11, <3>2, <4>1 DEF Seen
      <4>3. QED
        BY <1>6, <1>10, <3>2, <4>2
    <3>3. QED
      BY <3>1, <3>2
  <2>2. QED
    BY <1>6, <2>1 DEF Backed
\* The track just seen has not gone, so what was remembered of it is still in its state.
<1>19. ASSUME NEW p \in DOMAIN States, entry[p].event # None
       PROVE  ~unsynced' /\ StateOf(States[p], t).event = entry[p].event
  <2>1. entry[p].event = Seen(SeenNow, p, t).event
    BY <1>6
  <2>2. NoSighting.event = None
    BY DEF NoSighting
  <2>3. <<p, t>> \in DOMAIN SeenNow /\ Seen(SeenNow, p, t) = SeenNow[<<p, t>>]
    BY <1>19, <2>1, <2>2 DEF Seen
  <2>4. Gone(t) \/ (~unsynced' /\ StateOf(States[p], t).event = SeenNow[<<p, t>>].event)
    BY <1>10, <1>13, <1>19, <2>1, <2>3
  <2>5. QED
    BY <1>5, <2>1, <2>3, <2>4
<1>20. Remembered'
  <2>1. ASSUME NEW k \in D, trail'.seen[k].event # None
        PROVE  Gone(k[2])' \/ (~unsynced' /\ StateOf(crossing'[k[1]], k[2]).event = trail'.seen[k].event)
    <3>1. CASE k[2] = t
      <4>1. k[1] \in DOMAIN States /\ ~unsynced'
        BY <1>9, <1>13
      <4>2. CASE k[1] \in reports
        <5>1. entry[k[1]] \in SightRecord
          BY <1>6, <4>1
        <5>2. [entry[k[1]] EXCEPT !.event = at].event = at
          BY <5>1 DEF SightRecord
        <5>3. QED
          BY <1>6, <1>7, <1>11, <3>1, <4>1, <4>2, <5>2
      <4>3. CASE k[1] \notin reports
        BY <1>6, <1>11, <1>19, <2>1, <3>1, <4>1, <4>3
      <4>4. QED
        BY <4>2, <4>3
    <3>2. CASE k[2] # t
      <4>1. k \in DOMAIN SeenNow /\ trail'.seen[k] = SeenNow[k] /\ k[1] \in DOMAIN States
        BY <1>11, <1>13, <3>2
      <4>2. CASE Gone(k[2])
        BY <1>2, <1>3, <4>2, GoneStays
      <4>3. CASE ~unsynced' /\ StateOf(States[k[1]], k[2]).event = SeenNow[k].event
        BY <1>6, <3>2, <4>1, <4>3
      <4>4. QED
        BY <1>10, <2>1, <4>1, <4>2, <4>3
    <3>3. QED
      BY <3>1, <3>2
  <2>2. QED
    BY <1>11, <2>1 DEF Remembered
<1>21. LastWords'
  <2>1. \A k \in DOMAIN trail'.seen : k \in DOMAIN trail.seen \/ (k[2] = t /\ Observes(Head(records), t))
    BY <1>5, <1>9, <1>11, <1>13
  <2>2. step' = step /\ tracker' = tracker /\ Head(records).track = t
    BY <1>1, <1>2
  <2>3. QED
    BY <1>2, <1>3, <1>4, <2>1, <2>2, LastWordsShorter
<1>22. EvidenceSinceBreak'
  <2>1. ASSUME NEW p \in reports
        PROVE  entry[p].both /\ entry[p].run >= ConfirmObservations /\ (entry[p].event # None => at - entry[p].event >= Cooldown)
    <3>1. p \in DOMAIN States
      OBVIOUS
    <3>2. QED
      BY <1>6, <1>7, <1>19, <2>1, <3>1
  <2>2. CASE report' = None
    BY <2>2 DEF EvidenceSinceBreak
  <2>3. CASE report' = [basis |-> {entry[p] : p \in reports}, at |-> at]
    <3>1. report'.basis = {entry[p] : p \in reports} /\ report'.at = at
      BY <2>3
    <3>2. QED
      BY <2>1, <3>1 DEF EvidenceSinceBreak
  <2>4. QED
    BY <1>6, <1>7, <2>2, <2>3
<1>23. QED
  BY <1>14, <1>16, <1>17, <1>18, <1>20, <1>21, <1>22 DEF EvidenceInv

\* The ends a frame reports: those of tracks that left, and before any sighting those a break cut off.
EndsIn(s, A, C) ==
    \A i \in 1..Len(s) : s[i].kind = "summary" =>
        s[i].track \in C \/ (s[i].track \in A /\ \A j \in 1..i : s[j].kind = "summary")

LEMMA EndsReported ==
  ASSUME NEW A \in SUBSET TrackIds, NEW B \in SUBSET TrackIds, NEW C \in SUBSET TrackIds, NEW known
  PROVE  EndsIn(Summaries(A) \o Observations(B, known) \o Summaries(C), A, C)
<1> SUFFICES ASSUME NEW s, s = Summaries(A) \o Observations(B, known) \o Summaries(C),
                    NEW i \in 1..Len(s), s[i].kind = "summary"
             PROVE  s[i].track \in C \/ (s[i].track \in A /\ \A j \in 1..i : s[j].kind = "summary")
  BY DEF EndsIn
<1>1. PICK a, b, c : a = Summaries(A) /\ b = Observations(B, known) /\ c = Summaries(C)
  OBVIOUS
<1>2. /\ a \in Records /\ b \in Records /\ c \in Records
      /\ \A k \in 1..Len(a) : a[k].kind = "summary" /\ a[k].track \in A
      /\ \A k \in 1..Len(b) : b[k].kind = "observation"
      /\ \A k \in 1..Len(c) : c[k].track \in C
  <2>1. a \in Records /\ \A k \in 1..Len(a) : a[k].kind = "summary" /\ a[k].track \in A
    BY <1>1, SummariesSay
  <2>2. b \in Records /\ \A k \in 1..Len(b) : b[k].kind = "observation"
    <3>1. b \in Records
      BY <1>1, ObservationsSay
    <3>2. \A k \in 1..Len(b) : b[k].kind = "observation"
      <4>1. PICK t : t = 1
        OBVIOUS
      <4>2. /\ Unseen(b, t) <=> t \notin B
            /\ \A k \in 1..Len(b) : b[k].kind = "observation" /\ b[k].track \in B
        BY <1>1, ObservationsSay
      <4>3. QED
        BY <4>2
    <3>3. QED
      BY <1>1, <3>1, <3>2
  <2>3. c \in Records /\ \A k \in 1..Len(c) : c[k].track \in C
    BY <1>1, SummariesSay
  <2>4. QED
    BY <2>1, <2>2, <2>3
<1>3. PICK m, n, l : m = Len(a) /\ n = Len(b) /\ l = Len(c)
  OBVIOUS
<1>4. /\ m \in Nat /\ n \in Nat /\ l \in Nat /\ a \o b \in Records /\ Len(a \o b) = m + n
      /\ \A k \in 1..(m + n) : (a \o b)[k] = IF k <= m THEN a[k] ELSE b[k - m]
  BY <1>2, <1>3, ConcatProperties DEF Records
<1>5. /\ Len(s) = m + n + l
      /\ \A k \in 1..(m + n + l) : s[k] = IF k <= m + n THEN (a \o b)[k] ELSE c[k - (m + n)]
  <2>1. s = (a \o b) \o c
    BY <1>1
  <2>2. /\ Len((a \o b) \o c) = Len(a \o b) + l
        /\ \A k \in 1..(Len(a \o b) + l) : ((a \o b) \o c)[k] = IF k <= Len(a \o b) THEN (a \o b)[k] ELSE c[k - Len(a \o b)]
    BY <1>2, <1>3, <1>4, ConcatProperties DEF Records
  <2>3. QED
    BY <1>4, <2>1, <2>2
<1>6. i \in Nat /\ i >= 1 /\ i <= m + n + l
  BY <1>4, <1>5
<1>7. CASE i <= m
  <2>1. \A j \in 1..i : j \in 1..m /\ j \in 1..(m + n) /\ j \in 1..(m + n + l) /\ j <= m /\ j <= m + n
    BY <1>4, <1>6, <1>7
  <2>2. \A j \in 1..i : s[j] = a[j]
    BY <1>4, <1>5, <2>1
  <2>3. i \in 1..i
    BY <1>6
  <2>4. QED
    BY <1>2, <1>3, <2>1, <2>2, <2>3
<1>8. CASE i > m /\ i <= m + n
  <2>1. i - m \in 1..n /\ i \in 1..(m + n) /\ i \in 1..(m + n + l) /\ ~(i <= m)
    BY <1>4, <1>6, <1>8
  <2>2. s[i] = b[i - m]
    BY <1>4, <1>5, <1>8, <2>1
  <2>3. QED
    BY <1>2, <1>3, <2>1, <2>2
<1>9. CASE i > m + n
  <2>1. i - (m + n) \in 1..l /\ i \in 1..(m + n + l) /\ ~(i <= m + n)
    BY <1>4, <1>6, <1>9
  <2>2. s[i] = c[i - (m + n)]
    BY <1>5, <2>1
  <2>3. QED
    BY <1>2, <1>3, <2>1, <2>2
<1>10. QED
  BY <1>4, <1>6, <1>7, <1>8, <1>9

\* A frame joins to what was seen before it only what no interruption keeps it from.
LEMMA EvidenceDetect ==
  ASSUME SchedulerTypeOK, Stream, EvidenceInv, Chained, Detect PROVE EvidenceInv'
<1>1. /\ step = "none" /\ consumer = "using" /\ stopper = "running" /\ step' = "detected"
      /\ unsynced' = (unsynced \/ result'.discontinuity)
      /\ UNCHANGED <<report, crossing, lines, hand>>
  BY DEF Detect, portalVars, schedulerVars
<1>2. /\ hand \in LiveFrame /\ hand # NoFrame /\ hand.feed \in Feed /\ hand.feed.size \in Sizes
      /\ hand.discontinuity \in BOOLEAN /\ Going /\ Going'
  BY <1>1 DEF SchedulerTypeOK, LiveFrame, Feed, Going, NoFrame
<1>3. hand.feed.size # "none"
  BY <1>2, LivePipelineAssumption
<1>4. Pictures /\ TablesOf /\ Trails /\ Backed /\ Remembered
  BY DEF EvidenceInv
<1>5. PICK size, broke : size = hand.feed.size /\ broke = result'.discontinuity
  OBVIOUS
<1>6. PICK gap \in BOOLEAN :
        /\ broke = Breaks(size, hand.discontinuity, gap)
        /\ trail' = IF gap \/ trail.feed # hand.feed THEN NoTrail(hand.feed) ELSE trail
  BY <1>5, DetectSays
<1>7. /\ tracker'.picture = size /\ broke \in BOOLEAN /\ TrackerTypeOK'
      /\ live' = Present \ result'.removed /\ result'.confirmed \cap result'.removed = {}
      /\ result'.confirmed \in SUBSET TrackIds
      /\ records' = Summaries(Dropped) \o Observations(result'.confirmed, live \ Dropped)
                          \o Summaries(Present \cap result'.removed)
  BY <1>5, DetectSays
<1>8. /\ \A t \in TrackIds : Unseen(records', t) <=> t \notin result'.confirmed
      /\ \A t \in result'.removed : tracker'.tracks[t] = Unborn
      /\ tracker.picture = size \/ ~broke =>
               /\ tracker'.next >= tracker.next
               /\ \A t \in TrackIds : t < tracker.next /\ (tracker.tracks[t] = Unborn \/ broke) =>
                     tracker'.tracks[t] = Unborn /\ t \notin result'.confirmed
  BY <1>5, DetectSays
<1>9. /\ tracker.next \in Int /\ tracker'.next \in Int /\ live \in SUBSET TrackIds
      /\ \A t \in TrackIds : t \in Int /\ (t \in live => t < tracker.next)
  <2>1. tracker.next \in Int /\ tracker'.next \in Int
    BY <1>7, TrackRecords DEF Stream, TrackerTypeOK
  <2>2. \A t \in TrackIds : t \in Int
    BY TrackRecords DEF TrackIds
  <2>3. live \in SUBSET TrackIds /\ \A t \in TrackIds : t >= tracker.next => t \notin live
    BY <1>2 DEF Stream, Timeline
  <2>4. QED
    BY <2>1, <2>2, <2>3
<1>10. tracker.picture \in {"none", trail.feed.size} /\ trail.feed \in Feed
       /\ trail = [feed |-> trail.feed, seen |-> trail.seen]
  BY <1>2, <1>4 DEF Pictures
<1>11. /\ trail' = [feed |-> trail'.feed, seen |-> trail'.seen] /\ trail'.feed = hand.feed
       /\ \/ trail'.seen = <<>> /\ (gap \/ trail.feed # hand.feed)
          \/ trail'.seen = trail.seen /\ ~gap /\ trail.feed = hand.feed
  <2>1. CASE gap \/ trail.feed # hand.feed
    BY <1>6, <2>1 DEF NoTrail
  <2>2. CASE ~gap /\ trail.feed = hand.feed
    BY <1>6, <1>10, <2>2
  <2>3. QED
    BY <2>1, <2>2
\* An interrupted feed breaks a stream that has begun.
<1>12. (gap \/ trail.feed # hand.feed) /\ tracker.picture # "none" => broke
  <2>1. ASSUME tracker.picture # "none", trail.feed # hand.feed, hand.feed.size = tracker.picture
        PROVE  hand.discontinuity
    <3>1. Marked(hand, trail.feed.breaks)
      BY <1>1, <1>2 DEF Chained, Chain
    <3>2. trail.feed.size = hand.feed.size
      BY <1>10, <2>1
    <3>3. hand.feed.breaks # trail.feed.breaks
      BY <1>2, <1>10, <2>1, <3>2 DEF Feed
    <3>4. QED
      BY <3>1, <3>3 DEF Marked
  <2>2. QED
    BY <1>5, <1>6, <2>1 DEF Breaks
\* What is kept of the trail was seen in the stream as it is.
<1>13. ASSUME trail'.seen # <<>> \/ DOMAIN trail'.seen # {}
       PROVE  trail'.seen = trail.seen /\ (DOMAIN trail'.seen # {} => tracker.picture = size)
  <2>1. trail'.seen = trail.seen /\ trail.feed = hand.feed
    BY <1>11, <1>13, NothingSeen
  <2>2. tracker.picture = "none" => DOMAIN trail.seen = {}
    BY <1>2, <1>4 DEF Pictures
  <2>3. QED
    BY <1>5, <1>10, <2>1, <2>2
<1>14. ASSUME tracker.picture = size, NEW t \in TrackIds, t < tracker.next,
              tracker.tracks[t] = Unborn \/ broke
       PROVE  Gone(t)'
  <2>1. tracker'.tracks[t] = Unborn /\ t < tracker'.next /\ Unseen(records', t)
    BY <1>8, <1>9, <1>14
  <2>2. QED
    BY <2>1 DEF Gone
<1>15. Pictures'
  BY <1>1, <1>2, <1>3, <1>5, <1>7, <1>11 DEF Pictures
<1>16. TablesOf'
  BY <1>1, <1>4 DEF TablesOf
<1>17. Trails'
  <2>1. CASE DOMAIN trail'.seen = {}
    BY <2>1 DEF Trails
  <2>2. CASE DOMAIN trail'.seen # {}
    <3>1. trail'.seen = trail.seen /\ tracker'.next >= tracker.next
      BY <1>8, <1>13, <2>2
    <3>2. \A k \in DOMAIN trail.seen : k[2] \in TrackIds /\ k[2] < tracker.next
      BY <1>2, <1>4 DEF Trails
    <3>3. \A k \in DOMAIN trail.seen : k[2] < tracker'.next
      BY <1>9, <3>1, <3>2
    <3>4. QED
      BY <1>1, <1>4, <3>1, <3>3 DEF Trails
  <2>3. QED
    BY <2>1, <2>2
<1>18. Backed'
  <2>1. ASSUME ~unsynced', NEW p \in DOMAIN crossing, NEW t \in TrackIds
        PROVE  Agree(StateOf(crossing[p], t), Seen(trail'.seen, p, t))
    <3>1. ~unsynced /\ ~broke
      BY <1>1, <1>5, <2>1
    <3>2. CASE trail'.seen = trail.seen
      BY <1>2, <1>4, <3>1, <3>2 DEF Backed
    <3>3. CASE gap \/ trail.feed # hand.feed
      <4>1. tracker.picture = "none"
        BY <1>12, <3>1, <3>3
      <4>2. crossing[p] = <<>>
        BY <1>2, <1>4, <4>1 DEF Pictures
      <4>3. QED
        BY <4>2, NothingTabled, NothingSeen
    <3>4. QED
      BY <1>11, <3>2, <3>3
  <2>2. QED
    BY <1>1, <2>1 DEF Backed
<1>19. Remembered'
  <2>1. ASSUME NEW k \in DOMAIN trail'.seen, trail'.seen[k].event # None
        PROVE  Gone(k[2])' \/ (~unsynced' /\ StateOf(crossing[k[1]], k[2]).event = trail'.seen[k].event)
    <3>1. trail'.seen = trail.seen /\ tracker.picture = size
      BY <1>13, <2>1
    <3>2. k[2] \in TrackIds /\ k[2] < tracker.next
      BY <1>2, <1>4, <3>1 DEF Trails
    <3>3. Gone(k[2]) \/ (~unsynced /\ StateOf(crossing[k[1]], k[2]).event = trail.seen[k].event)
      BY <1>2, <1>4, <2>1, <3>1 DEF Remembered
    <3>4. Gone(k[2]) => tracker.tracks[k[2]] = Unborn
      BY DEF Gone
    <3>5. CASE Gone(k[2]) \/ broke
      BY <1>14, <3>1, <3>2, <3>4, <3>5
    <3>6. CASE ~Gone(k[2]) /\ ~broke
      BY <1>1, <1>5, <3>1, <3>3, <3>6
    <3>7. QED
      BY <3>5, <3>6
  <2>2. QED
    BY <1>1, <2>1 DEF Remembered
<1>20. LastWords'
  <2>1. ASSUME NEW i \in 1..Len(records'), records'[i].kind = "summary", NEW t, t = records'[i].track
        PROVE  \/ Gone(t)'
               \/ (\A k \in DOMAIN trail'.seen : k[2] # t) /\ \A j \in 1..i : ~Observes(records'[j], t)
    <3>1. PICK A, C, B, known : /\ A = Dropped /\ C = Present \cap result'.removed
                                /\ B = result'.confirmed /\ known = live \ Dropped
      OBVIOUS
    <3>2. A \in SUBSET TrackIds /\ B \in SUBSET TrackIds /\ C \in SUBSET TrackIds
      BY <1>7, <1>9, <3>1 DEF Dropped, Present
    <3>3. t \in C \/ (t \in A /\ \A j \in 1..i : records'[j].kind = "summary")
      <4>1. PICK s : s = records'
        OBVIOUS
      <4>2. s = Summaries(A) \o Observations(B, known) \o Summaries(C)
        BY <1>7, <3>1, <4>1
      <4>3. i \in 1..Len(s) /\ s[i].kind = "summary"
        BY <2>1, <4>1
      <4>4. EndsIn(s, A, C)
        BY <3>2, <4>2, EndsReported
      <4>5. QED
        BY <2>1, <4>1, <4>3, <4>4 DEF EndsIn
    <3>4. CASE t \in C
      <4>1. t \in live /\ ~broke /\ t \notin result'.confirmed
        BY <1>5, <1>7, <3>1, <3>4 DEF Present, Dropped
      <4>2. t \in TrackIds /\ t < tracker'.next
        BY <1>8, <1>9, <3>2, <3>4, <4>1
      <4>3. tracker'.tracks[t] = Unborn /\ Unseen(records', t)
        BY <1>8, <3>1, <3>4, <4>1, <4>2
      <4>4. QED
        BY <4>2, <4>3 DEF Gone
    <3>5. CASE t \in A /\ \A j \in 1..i : records'[j].kind = "summary"
      <4>1. broke /\ t \in live /\ t \in TrackIds /\ t < tracker.next
        BY <1>5, <1>9, <3>1, <3>5 DEF Dropped
      <4>2. CASE tracker.picture = size
        BY <1>14, <4>1, <4>2
      <4>3. CASE tracker.picture # size
        <5>1. DOMAIN trail'.seen = {}
          BY <1>13, <4>3
        <5>2. \A j \in 1..i : ~Observes(records'[j], t)
          BY <3>5 DEF Observes
        <5>3. QED
          BY <5>1, <5>2
      <4>4. QED
        BY <4>2, <4>3
    <3>6. QED
      BY <3>3, <3>4, <3>5
  <2>2. QED
    BY <2>1 DEF LastWords
<1>21. EvidenceSinceBreak'
  BY <1>1 DEF EvidenceInv, EvidenceSinceBreak
<1>22. QED
  BY <1>15, <1>16, <1>17, <1>18, <1>19, <1>20, <1>21 DEF EvidenceInv

\* The end of a frame puts the staged lines in place; what is not replaced stays as it was.
LEMMA EvidenceEndFrame == ASSUME Stream, EvidenceInv, EndFrame PROVE EvidenceInv'
<1>1. /\ step = "detected" /\ records = <<>> /\ step' = "none" /\ ApplyStaged /\ crossing' = Swapped
      /\ trail' = IF Replaces THEN [trail EXCEPT !.seen = <<>>] ELSE trail
      /\ report' = None /\ UNCHANGED <<tracker, live, records, unsynced>>
  BY DEF EndFrame
<1>2. Pictures /\ TablesOf /\ Trails /\ Backed /\ Remembered /\ Going
  BY <1>1 DEF EvidenceInv, Going
<1>3. trail = [feed |-> trail.feed, seen |-> trail.seen]
  BY <1>2 DEF Pictures
<1>4. LastWords'
  BY <1>1, NoRecords, EmptySeq DEF LastWords
<1>5. EvidenceSinceBreak'
  BY <1>1 DEF EvidenceSinceBreak
<1>6. CASE Replaces
  <2>1. /\ lines' = Offer.portals /\ trail' = [feed |-> trail.feed, seen |-> <<>>]
        /\ crossing' = [p \in Enabled(lines') |-> <<>>]
    BY <1>1, <1>3, <1>6 DEF ApplyStaged, Swapped, NoTracks
  <2>2. trail'.seen = <<>> /\ trail'.feed = trail.feed /\ DOMAIN crossing' = Enabled(lines')
        /\ \A p \in DOMAIN crossing' : crossing'[p] = <<>>
    BY <2>1
  <2>3. Pictures'
    BY <1>1, <1>2, <2>1, <2>2, NothingSeen DEF Pictures, Going
  <2>4. TablesOf'
    BY <2>2, NothingTabled DEF TablesOf
  <2>5. Trails'
    BY <2>2, NothingSeen DEF Trails
  <2>6. Backed'
    BY <2>2, NothingTabled, NothingSeen DEF Backed
  <2>7. Remembered'
    BY <2>2, NothingSeen DEF Remembered
  <2>8. QED
    BY <1>4, <1>5, <2>3, <2>4, <2>5, <2>6, <2>7 DEF EvidenceInv
<1>7. CASE ~Replaces
  <2>1. UNCHANGED <<lines, trail, crossing>>
    BY <1>1, <1>7 DEF ApplyStaged, Swapped
  <2>2. Pictures'
    BY <1>1, <1>2, <2>1 DEF Pictures, Going
  <2>3. TablesOf'
    BY <1>2, <2>1 DEF TablesOf
  <2>4. Trails'
    BY <1>1, <1>2, <2>1 DEF Trails
  <2>5. Backed'
    BY <1>1, <1>2, <2>1 DEF Backed
  <2>6. Remembered'
    BY <1>1, <1>2, <2>1 DEF Remembered, Gone
  <2>7. QED
    BY <1>4, <1>5, <2>2, <2>3, <2>4, <2>5, <2>6 DEF EvidenceInv
<1>8. QED
  BY <1>6, <1>7

\* A stream that is over has nothing more to be joined to.
LEMMA EvidenceOver ==
  ASSUME EvidenceInv, step' \in {"flushing", "failed"}, UNCHANGED <<trail, lines, crossing>>, report' \in {None, report}
  PROVE  EvidenceInv'
<1>1. Pictures'
  BY DEF EvidenceInv, Pictures, Going
<1>2. TablesOf' /\ Trails' /\ Backed' /\ Remembered' /\ LastWords'
  BY DEF EvidenceInv, TablesOf, Trails, Backed, Remembered, LastWords, Going
<1>3. EvidenceSinceBreak'
  BY DEF EvidenceInv, EvidenceSinceBreak
<1>4. QED
  BY <1>1, <1>2, <1>3 DEF EvidenceInv

\* The frame in hand is nobody else's to change.
LEMMA HandKept == ASSUME SchedulerTypeOK, SchedulerStep, consumer = "using" PROVE hand' = hand
<1>1. CaptureStep \/ ConsumerStep \/ PeriodPasses \/ Halt \/ StopStep
  BY DEF SchedulerStep
<1>2. CASE CaptureStep
  BY <1>2 DEF CaptureStep, Grab, SourceEnds, Admit, Announce, Finish
<1>3. CASE ConsumerStep
  BY <1>3 DEF ConsumerStep, StartCapture, StartThread, Ask, Take, Look, Clear, Wake
<1>4. CASE PeriodPasses \/ Halt \/ StopStep
  BY <1>4 DEF PeriodPasses, Halt, StopStep
<1>5. QED
  BY <1>1, <1>2, <1>3, <1>4

LEMMA EvidenceStill ==
  ASSUME EvidenceInv, UNCHANGED <<pipelineVars, portalVars>>, step = "detected" => hand' = hand
  PROVE  EvidenceInv'
<1>1. UNCHANGED <<tracker, live, records, step, unsynced, trail, report, lines, crossing>>
  BY DEF pipelineVars, runtimeVars, trailVars, portalVars
<1>2. Pictures'
  BY <1>1 DEF EvidenceInv, Pictures, Going
<1>3. TablesOf' /\ Trails'
  BY <1>1 DEF EvidenceInv, TablesOf, Trails, Going
<1>4. Backed' /\ Remembered'
  BY <1>1 DEF EvidenceInv, Backed, Remembered, Going, Gone
<1>5. LastWords'
  BY <1>1 DEF EvidenceInv, LastWords, Going, Gone
<1>6. EvidenceSinceBreak'
  BY <1>1 DEF EvidenceInv, EvidenceSinceBreak
<1>7. QED
  BY <1>2, <1>3, <1>4, <1>5, <1>6 DEF EvidenceInv

LEMMA EvidenceOther ==
  ASSUME SchedulerTypeOK, Stream, EvidenceInv, Flush \/ Fail \/ Decline \/ SchedulerStep PROVE EvidenceInv'
<1>1. CASE Flush \/ Fail
  <2>1. step' \in {"flushing", "failed"} /\ UNCHANGED <<trail, lines, crossing>> /\ report' \in {None, report}
    BY <1>1 DEF Flush, Fail, trailVars, portalVars
  <2>2. QED
    BY <2>1, EvidenceOver
<1>2. CASE Decline
  <2>1. UNCHANGED <<pipelineVars, portalVars>> /\ step = "none"
    BY <1>2 DEF Decline
  <2>2. QED
    BY <2>1, EvidenceStill
<1>3. CASE SchedulerStep
  <2>1. UNCHANGED <<pipelineVars, portalVars>>
    BY <1>3 DEF SchedulerStep
  <2>2. step = "detected" => consumer = "using"
    BY DEF Stream, Timeline
  <2>3. step = "detected" => hand' = hand
    BY <1>3, <2>2, HandKept
  <2>4. QED
    BY <2>1, <2>3, EvidenceStill
<1>4. QED
  BY <1>1, <1>2, <1>3

-----------------------------------------------------------------------------
(* The chain of frames, step by step *)

LEMMA ChainKept ==
  ASSUME Chain, UNCHANGED <<slot, hand, grabbed, feed, step, trail>> PROVE Chain'
<1>1. BreaksUsed' = BreaksUsed /\ BreaksLast' = BreaksLast
  BY DEF BreaksUsed, BreaksLast
<1>2. QED
  BY <1>1 DEF Chain

LEMMA ChainedScheduler ==
  ASSUME SchedulerTypeOK, Stream, Chained, SchedulerStep PROVE Chained'
<1>1. UNCHANGED <<step, trail>> /\ (CaptureStep \/ ConsumerStep \/ PeriodPasses \/ Halt \/ StopStep)
  BY DEF SchedulerStep, pipelineVars, runtimeVars, trailVars
<1>2. SUFFICES ASSUME stopper' = "running", Going' PROVE Chain'
  BY DEF Chained
<1>3. Going
  BY <1>1, <1>2 DEF Going
<1>4. CASE stopper # "running"
  BY <1>1, <1>2, <1>4 DEF CaptureStep, Grab, SourceEnds, Admit, Announce, Finish, ConsumerStep, StartCapture,
     StartThread, Ask, Take, Look, Clear, Wake, PeriodPasses, Halt, StopStep
<1>5. CASE stopper = "running"
  <2>1. Chain
    BY <1>3, <1>5 DEF Chained
  <2>2. CASE Grab
    BY <1>1, <2>1, <2>2, ChainGrab
  <2>3. CASE Admit
    BY <1>1, <2>1, <2>3, ChainAdmit
  <2>4. CASE Take
    <3>1. consumer # "using"
      BY <2>4 DEF Take
    <3>2. step = "none"
      BY <1>3, <3>1 DEF Stream, Timeline, Going
    <3>3. QED
      BY <1>1, <2>1, <2>4, <3>2, ChainTake
  <2>5. CASE SourceEnds \/ Announce \/ Finish \/ StartCapture \/ StartThread \/ Ask \/ Look \/ Clear \/ Wake \/ PeriodPasses
    <3>1. UNCHANGED <<slot, hand, grabbed, feed>>
      BY <2>5 DEF SourceEnds, Announce, Finish, StartCapture, StartThread, Ask, Look, Clear, Wake, PeriodPasses
    <3>2. QED
      BY <1>1, <2>1, <3>1, ChainKept
  <2>6. CASE Halt \/ StopStep
    BY <1>2, <1>5, <2>6 DEF Halt, StopStep
  <2>7. QED
    BY <1>1, <2>2, <2>3, <2>4, <2>5, <2>6 DEF CaptureStep, ConsumerStep
<1>6. QED
  BY <1>4, <1>5

\* The frame in hand becomes the last one used.
LEMMA ChainedPipeline ==
  ASSUME SchedulerTypeOK, Stream, EvidenceInv, Chained, PipelineStep PROVE Chained'
<1>1. SUFFICES ASSUME stopper' = "running", Going' PROVE Chain'
  BY DEF Chained
<1>2. CASE Detect
  <2>1. /\ step = "none" /\ step' = "detected" /\ stopper = "running" /\ consumer = "using"
        /\ UNCHANGED <<slot, hand, grabbed, feed>>
    BY <1>2 DEF Detect, schedulerVars
  <2>2. hand # NoFrame /\ Chain
    BY <2>1 DEF Chained, Going, SchedulerTypeOK
  <2>3. BreaksUsed' = BreaksUsed /\ BreaksLast' = BreaksLast
    BY <2>1, <2>2 DEF BreaksUsed, BreaksLast
  <2>4. QED
    BY <2>1, <2>2, <2>3 DEF Chain
<1>3. CASE Handle
  <2>1. UNCHANGED <<step, slot, hand, grabbed, feed, stopper>>
    BY <1>3 DEF Handle, schedulerVars
  <2>2. Chain
    BY <1>1, <2>1 DEF Chained, Going
  <2>3. hand # NoFrame \/ trail'.feed = trail.feed
    <3>1. step \in {"none", "detected"}
      BY <1>1, <2>1 DEF Going
    <3>2. step = "detected"
      BY <1>3, <3>1, HandleSays DEF Stream
    <3>3. consumer = "using"
      BY <3>2 DEF Stream, Timeline
    <3>4. QED
      BY <3>3 DEF SchedulerTypeOK
  <2>4. BreaksUsed' = BreaksUsed /\ BreaksLast' = BreaksLast
    BY <2>1, <2>3 DEF BreaksUsed, BreaksLast
  <2>5. step # "none"
    BY <1>3, HandleSays DEF Stream
  <2>6. QED
    BY <2>1, <2>2, <2>4, <2>5 DEF Chain
<1>4. CASE EndFrame
  <2>1. /\ step = "detected" /\ step' = "none" /\ hand' = NoFrame /\ stopper' = stopper
        /\ UNCHANGED <<slot, grabbed, feed>> /\ trail' = IF Replaces THEN [trail EXCEPT !.seen = <<>>] ELSE trail
    BY <1>4 DEF EndFrame, Done
  <2>2. hand # NoFrame /\ trail.feed = hand.feed /\ trail = [feed |-> trail.feed, seen |-> trail.seen] /\ Chain
    BY <1>1, <2>1 DEF Stream, Timeline, SchedulerTypeOK, EvidenceInv, Pictures, Chained, Going
  <2>3. trail'.feed = hand.feed
    BY <2>1, <2>2
  <2>4. BreaksUsed' = BreaksUsed
    BY <2>1, <2>2, <2>3 DEF BreaksUsed
  <2>5. BreaksLast' = BreaksLast
    BY <2>1, <2>4 DEF BreaksLast
  <2>6. QED
    BY <2>1, <2>2, <2>4, <2>5 DEF Chain
<1>5. CASE Fail \/ Flush
  BY <1>1, <1>5 DEF Fail, Flush, Going
<1>6. CASE Decline
  BY <1>1, <1>6 DEF Decline, Abandon
<1>7. QED
  BY <1>2, <1>3, <1>4, <1>5, <1>6 DEF PipelineStep

-----------------------------------------------------------------------------
(* The live pipeline as a whole *)

LiveInv == SchedulerInv /\ Stream /\ LedgerInv /\ EvidenceInv /\ Chained
NoLines == lines = {} /\ crossing = NoTracks({})

LEMMA LiveStart == SchedulerInit /\ PipelineInit /\ NoLines => LiveInv
<1> SUFFICES ASSUME SchedulerInit, PipelineInit, NoLines PROVE LiveInv
  OBVIOUS
<1>1. /\ SchedulerInv /\ SchedulerTypeOK
  BY SchedulerStart DEF SchedulerInv
<1>2. /\ TrackerInit /\ ledger = <<>> /\ live = {} /\ records = <<>> /\ step = "none" /\ unsynced = FALSE
      /\ occupancy = 0 /\ trail = [feed |-> feed, seen |-> <<>>] /\ report = None
  BY DEF PipelineInit, LedgerInit, NoTrail
<1>3. Stream
  <2>1. TrackerTypeOK /\ Begun
    BY <1>2, StreamStart
  <2>2. Timeline
    BY <1>2, NoRecords DEF Timeline, Going
  <2>3. QED
    BY <2>1, <2>2 DEF Stream
<1>4. LedgerInv
  <2>1. DOMAIN ledger = {} /\ Published(ledger) = 0 /\ ledger = [t \in DOMAIN ledger |-> ledger[t]]
    BY <1>2, LedgerOfNobody
  <2>2. QED
    BY <1>2, <2>1, NoRecords DEF LedgerInv, Due
<1>5. EvidenceInv
  <2>1. trail.feed = feed /\ trail.seen = <<>> /\ trail = [feed |-> trail.feed, seen |-> trail.seen] /\ feed \in Feed
    BY <1>1, <1>2 DEF SchedulerTypeOK
  <2>2. DOMAIN crossing = {} /\ Enabled(lines) = {}
    BY DEF NoLines, NoTracks, Enabled
  <2>3. tracker.picture = "none"
    BY <1>2 DEF TrackerInit, NoStream
  <2>4. Pictures
    BY <1>2, <2>1, <2>2, <2>3, NothingSeen DEF Pictures, Going
  <2>5. TablesOf /\ Trails /\ Backed /\ Remembered
    BY <2>1, <2>2, NothingSeen DEF TablesOf, Trails, Backed, Remembered
  <2>6. LastWords
    BY <1>2, EmptySeq DEF LastWords
  <2>7. EvidenceSinceBreak
    BY <1>2 DEF EvidenceSinceBreak
  <2>8. QED
    BY <2>4, <2>5, <2>6, <2>7 DEF EvidenceInv
<1>6. Chained
  <2>1. slot = <<>> /\ hand = NoFrame /\ grabbed = NoFrame /\ Len(slot) = 0
    BY EmptySeq DEF SchedulerInit
  <2>2. BreaksUsed = feed.breaks /\ BreaksLast = feed.breaks
    BY <1>2, <2>1 DEF BreaksUsed, BreaksLast
  <2>3. QED
    BY <2>1, <2>2 DEF Chained, Chain
<1>7. QED
  BY <1>1, <1>3, <1>4, <1>5, <1>6 DEF LiveInv

LEMMA LiveKept ==
  ASSUME LiveInv, SchedulerStep \/ PipelineStep, Roomy PROVE LiveInv'
<1>1. SchedulerInv /\ SchedulerTypeOK /\ Stream /\ Timeline /\ LedgerInv /\ EvidenceInv /\ Chained
  BY DEF LiveInv, SchedulerInv, Stream
<1>2. CASE SchedulerStep
  <2>1. SchedulerInv'
    BY <1>1, <1>2, CaptureKeeps, ConsumerKeeps, StopKeeps DEF SchedulerStep
  <2>2. Stream' /\ LedgerInv'
    BY <1>1, <1>2, TimelineOther, LedgerOther
  <2>3. EvidenceInv'
    BY <1>1, <1>2, EvidenceOther
  <2>4. Chained'
    BY <1>1, <1>2, ChainedScheduler
  <2>5. QED
    BY <2>1, <2>2, <2>3, <2>4 DEF LiveInv
<1>3. CASE PipelineStep
  <2>1. SchedulerInv'
    <3>1. UNCHANGED schedulerVars \/ Done \/ Abandon
      BY <1>3 DEF PipelineStep, Detect, Fail, Handle, EndFrame, Decline, Flush
    <3>2. CASE UNCHANGED schedulerVars
      BY <1>1, <3>2 DEF schedulerVars, SchedulerInv, SchedulerTypeOK, FramesConserved, NoMissedArrival, Unstarted
    <3>3. QED
      BY <1>1, <3>1, <3>2, ConsumerKeeps
  <2>2. Stream'
    BY <1>1, <1>3, TimelineHandle, TimelineDetect, TimelineFlush, TimelineFail, TimelineOther DEF PipelineStep
  <2>3. LedgerInv'
    BY <1>1, <1>3, LedgerHandle, LedgerDetect, LedgerFlush, LedgerOther DEF PipelineStep
  <2>4. EvidenceInv'
    <3>1. CASE Detect
      BY <1>1, <3>1, EvidenceDetect
    <3>2. CASE Handle
      <4>1. Head(records).kind \in {"observation", "summary"}
        BY <1>1, <3>2, HandleSays
      <4>2. QED
        BY <1>1, <3>2, <4>1, EvidenceSummary, EvidenceObservation
    <3>3. CASE EndFrame
      BY <1>1, <3>3, EvidenceEndFrame
    <3>4. CASE Flush \/ Fail \/ Decline
      BY <1>1, <3>4, EvidenceOther
    <3>5. QED
      BY <1>3, <3>1, <3>2, <3>3, <3>4 DEF PipelineStep
  <2>5. Chained'
    BY <1>1, <1>3, ChainedPipeline
  <2>6. QED
    BY <2>1, <2>2, <2>3, <2>4, <2>5 DEF LiveInv
<1>4. QED
  BY <1>2, <1>3

LEMMA LiveStill == ASSUME LiveInv, UNCHANGED <<liveVars, lines, crossing>> PROVE LiveInv'
<1>1. UNCHANGED schedulerVars /\ UNCHANGED pipelineVars /\ UNCHANGED <<lines, crossing>>
  BY DEF liveVars
<1>2. UNCHANGED <<tracker, result, ledger, live, records, step, unsynced, occupancy, trail, report>>
  BY <1>1 DEF pipelineVars, runtimeVars, trailVars
<1>3. UNCHANGED <<slot, tally, due, busy, arrived, stop, capture, grabbed, consumer, hand, stopper, feed>>
  BY <1>1 DEF schedulerVars
<1>4. SchedulerInv'
  BY <1>3 DEF LiveInv, SchedulerInv, SchedulerTypeOK, FramesConserved, NoMissedArrival, Unstarted
<1>5. Stream'
  BY <1>2, <1>3 DEF LiveInv, Stream, TrackerTypeOK, Begun, Timeline, Going
<1>6. LedgerInv'
  BY <1>2 DEF LiveInv, LedgerInv, Due
<1>7. EvidenceInv'
  <2>1. Pictures'
    BY <1>1, <1>2, <1>3 DEF LiveInv, EvidenceInv, Pictures, Going
  <2>2. TablesOf' /\ Trails'
    BY <1>1, <1>2, <1>3 DEF LiveInv, EvidenceInv, TablesOf, Trails, Going
  <2>3. Backed' /\ Remembered'
    BY <1>1, <1>2, <1>3 DEF LiveInv, EvidenceInv, Backed, Remembered, Going, Gone
  <2>4. LastWords' /\ EvidenceSinceBreak'
    BY <1>1, <1>2, <1>3 DEF LiveInv, EvidenceInv, LastWords, EvidenceSinceBreak, Going, Gone
  <2>5. QED
    BY <2>1, <2>2, <2>3, <2>4 DEF EvidenceInv
<1>8. Chained'
  <2>1. Chain => Chain'
    BY <1>2, <1>3, ChainKept
  <2>2. QED
    BY <1>2, <1>3, <2>1 DEF LiveInv, Chained, Going
<1>9. QED
  BY <1>4, <1>5, <1>6, <1>7, <1>8 DEF LiveInv

-----------------------------------------------------------------------------
(* The session: what the threads beside the pipeline keep *)

\* The pipeline takes over what is staged, or leaves it where it is.
LEMMA LiveKeepsLines ==
  ASSUME Kept, SchedulerStep \/ PipelineStep, UNCHANGED configVars PROVE Kept'
<1>1. UNCHANGED portalVars \/ ApplyStaged
  BY DEF SchedulerStep, PipelineStep, Detect, Fail, Handle, EndFrame, Decline, Flush
<1>2. CASE UNCHANGED portalVars
  BY <1>2, KeptStill
<1>3. CASE ApplyStaged /\ staged = {}
  <2>1. UNCHANGED <<lines, revision, staged>>
    BY <1>3 DEF ApplyStaged, Replaces
  <2>2. QED
    BY <2>1 DEF configVars, Kept, Handed, Behind
<1>4. CASE ApplyStaged /\ staged # {}
  <2>1. UNCHANGED <<current, changed, refresher>>
    BY DEF configVars
  <2>2. ASSUME refresher # "off" /\ ~Behind PROVE Handed(current)'
    <3>1. Handed(current)
      BY <2>2 DEF Kept
    <3>2. QED
      BY <1>4, <2>1, <3>1, ApplyKeeps DEF Handed
  <2>3. QED
    BY <2>1, <2>2 DEF Kept, Behind
<1>5. QED
  BY <1>1, <1>2, <1>3, <1>4

LEMMA AdminStill == ASSUME AdminInv, UNCHANGED <<rows, camera, writing, request>> PROVE AdminInv'
BY DEF AdminInv, AdminTypes, Serial, Holds, PortalLimit, Active

\* The refresher, the administrators and the supervisor of the GPU worker.
BesideInv == Kept /\ AdminInv /\ GpuInv

LEMMA BesideStart == SessionInit => BesideInv
<1>1. SessionInit => Kept
  BY DEF SessionInit, ConfigInit, Kept
<1>2. SessionInit => AdminInv /\ GpuInv
  BY AdminStart, GpuStart DEF SessionInit
<1>3. QED
  BY <1>1, <1>2 DEF BesideInv

LEMMA BesideStep == ASSUME BesideInv, [SessionNext]_sessionVars PROVE BesideInv'
<1>1. Kept /\ AdminInv /\ GpuInv
  BY DEF BesideInv
<1>2. CASE LiveStep
  <2>1. (SchedulerStep \/ PipelineStep) /\ UNCHANGED configVars /\ UNCHANGED adminVars /\ UNCHANGED gpuVars
    BY <1>2 DEF LiveStep
  <2>2. QED
    BY <1>1, <2>1, LiveKeepsLines, AdminStill, GpuStill DEF adminVars, BesideInv
<1>3. CASE (AdminStep \/ PlacementStep) /\ UNCHANGED <<configVars, portalVars, liveVars, gpuVars>>
  <2>1. AdminInv'
    BY <1>1, <1>3, AskKeeps, LockKeeps, WriteKeeps, PlaceKeeps DEF AdminStep
  <2>2. QED
    BY <1>1, <1>3, <2>1, KeptStill, GpuStill DEF BesideInv
<1>4. CASE (StartSession \/ RefreshStep \/ EndSession) /\ UNCHANGED gpuVars
  <2>1. Kept'
    BY <1>1, <1>4, SessionKeeps, RefreshKeeps
  <2>2. UNCHANGED <<rows, camera, writing, request>>
    BY <1>4 DEF StartSession, EndSession, RefreshStep, Request, ReadAssignment, Served, FetchFails, Swap,
       Store, Tell, adminVars
  <2>3. QED
    BY <1>1, <1>4, <2>1, <2>2, AdminStill, GpuStill DEF BesideInv
<1>5. CASE GpuNext /\ UNCHANGED <<liveVars, portalVars, configVars, adminVars>>
  BY <1>1, <1>5, KeptStill, AdminStill, GpuStepKeeps DEF adminVars, BesideInv
<1>6. CASE UNCHANGED sessionVars
  <2>1. UNCHANGED portalVars /\ UNCHANGED configVars /\ UNCHANGED adminVars /\ UNCHANGED gpuVars
    BY <1>6 DEF sessionVars
  <2>2. QED
    BY <1>1, <2>1, KeptStill, AdminStill, GpuStill DEF adminVars, BesideInv
<1>7. QED
  BY <1>2, <1>3, <1>4, <1>5, <1>6 DEF SessionNext, ConfigStep, EndOfSession

-----------------------------------------------------------------------------
(* The session: what the pipeline keeps *)

\* Between two sessions no line is in place.
Resting == refresher = "off" => NoLines
PipelineInv == LiveInv /\ Resting

LEMMA PipelineStart == SessionInit => PipelineInv
<1> SUFFICES ASSUME SessionInit PROVE PipelineInv
  OBVIOUS
<1>1. NoLines
  BY DEF SessionInit, PortalInit, NoLines
<1>2. LiveInv
  BY <1>1, LiveStart DEF SessionInit
<1>3. QED
  BY <1>1, <1>2 DEF PipelineInv, Resting

LEMMA PipelineKept ==
  ASSUME PipelineInv, [SessionNext]_sessionVars, Roomy PROVE PipelineInv'
<1>1. LiveInv /\ Resting
  BY DEF PipelineInv
<1>2. CASE LiveStep
  <2>1. refresher # "off" /\ (SchedulerStep \/ PipelineStep) /\ refresher' = refresher
    BY <1>2 DEF LiveStep, configVars
  <2>2. LiveInv'
    BY <1>1, <2>1, LiveKept
  <2>3. QED
    BY <2>1, <2>2 DEF PipelineInv, Resting
<1>3. CASE UNCHANGED <<liveVars, lines, crossing>> /\ (refresher' = "off" => refresher = "off")
  <2>1. LiveInv'
    BY <1>1, <1>3, LiveStill
  <2>2. QED
    BY <1>1, <1>3, <2>1 DEF PipelineInv, Resting, NoLines
<1>4. CASE ConfigStep
  <2>1. CASE StartSession
    <3>1. UNCHANGED <<liveVars, lines, crossing>> /\ refresher' = "idle"
      BY <1>1, <1>4, <2>1 DEF ConfigStep, StartSession, Resting, NoLines
    <3>2. QED
      BY <1>3, <3>1
  <2>2. CASE RefreshStep
    <3>1. UNCHANGED <<liveVars, lines, crossing>> /\ refresher' # "off"
      BY <1>4, <2>2 DEF ConfigStep, RefreshStep, Request, Served, FetchFails, Swap, Store, Tell, portalVars
    <3>2. QED
      BY <1>3, <3>1
  <2>3. CASE UNCHANGED <<configVars, portalVars>>
    <3>1. UNCHANGED <<liveVars, lines, crossing>> /\ refresher' = refresher
      BY <1>4, <2>3 DEF ConfigStep, configVars, portalVars
    <3>2. QED
      BY <1>3, <3>1
  <2>4. QED
    BY <1>4, <2>1, <2>2, <2>3 DEF ConfigStep
<1>5. CASE EndOfSession
  <2>1. NoLines'
    BY <1>5 DEF EndOfSession, EndSession, NoLines
  <2>2. (SchedulerInit /\ PipelineInit /\ NoLines)' => LiveInv'
    BY LiveStart, PTL
  <2>3. QED
    BY <1>5, <2>1, <2>2 DEF EndOfSession, PipelineInv, Resting
<1>6. CASE UNCHANGED <<liveVars, portalVars, configVars>>
  <2>1. UNCHANGED <<liveVars, lines, crossing>> /\ refresher' = refresher
    BY <1>6 DEF portalVars, configVars
  <2>2. QED
    BY <1>3, <2>1
<1>7. QED
  BY <1>2, <1>4, <1>5, <1>6 DEF SessionNext, sessionVars

-----------------------------------------------------------------------------
(* The session: theorems *)

\* live/managed_session.py: the inductive invariant of the threads beside the pipeline.
THEOREM BesideHeld == SessionSpec => []BesideInv
<1>1. BesideInv /\ [SessionNext]_sessionVars => BesideInv'
  BY BesideStep
<1>2. QED
  BY <1>1, BesideStart, PTL DEF SessionSpec

\* With no more tracks than the ledger and a line hold, there is room for every record.
LEMMA RoomKept ==
  ASSUME PipelineInv, MaxTracks <= MaxEvidence, MaxTracks <= MaxTracked PROVE Roomy
<1> SUFFICES ASSUME NEW t \in TrackIds PROVE RoomFor(t)
  <2>1. records \in Records
    BY DEF PipelineInv, LiveInv, Stream, Timeline
  <2>2. records # <<>> => Head(records).track \in TrackIds
    BY <2>1, RecordsSplit
  <2>3. QED
    BY <2>2 DEF Roomy
<1>1. MaxTracks \in Nat /\ MaxEvidence \in Nat /\ MaxTracked \in Nat
  BY PersonTrackingAssumption, OccupancyLedgerAssumption, PortalCrossingAssumption
<1>2. /\ IsFiniteSet(TrackIds \ {t}) /\ Cardinality(TrackIds \ {t}) \in Nat
      /\ Cardinality(TrackIds \ {t}) < MaxTracks
  <2>1. 1 \in Int /\ MaxTracks \in Int
    BY <1>1
  <2>2. IsFiniteSet(1..MaxTracks) /\ Cardinality(1..MaxTracks) = IF 1 > MaxTracks THEN 0 ELSE MaxTracks - 1 + 1
    BY <2>1, FS_Interval
  <2>3. IsFiniteSet(TrackIds) /\ Cardinality(TrackIds) = MaxTracks
    BY <1>1, <2>2 DEF TrackIds
  <2>4. IsFiniteSet(TrackIds \ {t}) /\ Cardinality(TrackIds \ {t}) = Cardinality(TrackIds) - 1
    BY <2>3, FS_RemoveElement
  <2>5. Cardinality(TrackIds \ {t}) \in Nat
    BY <2>4, FS_CardinalityType
  <2>6. QED
    BY <1>1, <2>3, <2>4, <2>5
<1>3. t \in DOMAIN ledger \/ HasRoom
  <2>1. CASE t \in DOMAIN ledger
    BY <2>1
  <2>2. CASE t \notin DOMAIN ledger
    <3>1. DOMAIN ledger \in SUBSET (TrackIds \ {t})
      BY <2>2 DEF PipelineInv, LiveInv, LedgerInv
    <3>2. IsFiniteSet(DOMAIN ledger) /\ Cardinality(DOMAIN ledger) <= Cardinality(TrackIds \ {t})
      BY <1>2, <3>1, FS_Subset
    <3>3. Cardinality(DOMAIN ledger) \in Nat
      BY <3>2, FS_CardinalityType
    <3>4. QED
      BY <1>1, <1>2, <3>2, <3>3 DEF HasRoom
  <2>3. QED
    BY <2>1, <2>2
<1>4. ASSUME NEW p \in DOMAIN States PROVE Len(Without(States[p], t)) < MaxTracked
  <2>1. TablesOf
    BY DEF PipelineInv, LiveInv, EvidenceInv
  <2>2. Tabled(States[p])
    BY <2>1, NothingTabled DEF TablesOf, States, Reset, Swapped, NoTracks
  <2>3. PICK s : s = Without(States[p], t)
    OBVIOUS
  <2>4. Tabled(s) /\ \A i \in 1..Len(s) : s[i].track # t
    BY <2>2, <2>3, TakenOut
  <2>5. \A i \in 1..Len(s) : s[i].track \in TrackIds \ {t}
    <3>1. \A i \in 1..Len(s) : s[i] \in CrossingState
      BY <2>4, ElementOfSeq DEF Tabled
    <3>2. QED
      BY <2>4, <3>1 DEF CrossingState
  <2>6. TrackIds \ {t} \in SUBSET TrackIds
    OBVIOUS
  <2>7. Len(s) \in Nat /\ Len(s) <= Cardinality(TrackIds \ {t})
    BY <2>4, <2>5, <2>6, TableShort
  <2>8. QED
    BY <1>1, <1>2, <2>3, <2>7
<1>5. QED
  BY <1>3, <1>4 DEF RoomFor

\* live/occupancy.py:69, live/portal_crossing.py:65: in a stream with no more tracks than the ledger
\* and a line may hold, every record finds room.
THEOREM RoomForAll ==
  ASSUME MaxTracks <= MaxEvidence, MaxTracks <= MaxTracked PROVE SessionSpec => []Roomy
<1>1. PipelineInv => Roomy
  BY RoomKept
<1>2. PipelineInv /\ [SessionNext]_sessionVars => PipelineInv'
  BY <1>1, PipelineKept
<1>3. QED
  BY <1>1, <1>2, PipelineStart, PTL DEF SessionSpec

\* live/runtime.py:287-308, recorded/pipeline.py:263-345: scheduler, timeline, ledger, doorway
\* lines and what has been seen of each track agree in every state of a session.
THEOREM PipelineHeld == SessionSpec /\ []Roomy => []PipelineInv
<1>1. PipelineInv /\ Roomy /\ [SessionNext]_sessionVars => PipelineInv'
  BY PipelineKept
<1>2. QED
  BY <1>1, PipelineStart, PTL DEF SessionSpec

\* live/scheduler.py:12-40, live/runtime.py:306-308, camera_portal_service.py:155-161: frames are
\* accounted for, ledger and published count follow the tracks, and the portal limit is kept.
THEOREM SessionSafe == SessionSpec /\ []Roomy => []SessionInv
<1>1. ASSUME BesideInv, PipelineInv PROVE SessionInv
  <2>1. SchedulerTypeOK /\ FramesConserved /\ NoMissedArrival /\ TrackerTypeOK
    BY <1>1 DEF PipelineInv, LiveInv, SchedulerInv, Stream
  <2>2. GpuTypeOK /\ PortalLimit
    BY <1>1 DEF BesideInv, GpuInv, Shapes, AdminInv
  <2>3. LedgerFollows
    BY <1>1, LedgerImplies DEF PipelineInv, LiveInv, Stream
  <2>4. QED
    BY <2>1, <2>2, <2>3 DEF SessionInv
<1>2. QED
  BY <1>1, BesideHeld, PipelineHeld, PTL

\* live/portal_crossing.py:1-40, live/runtime.py:287-295: a transition that is reported rests on
\* sightings since the last break of the feed and since the line was put in place: one side, then
\* the other confirmed, a cooldown after the last one.
THEOREM CrossingsEvident == SessionSpec /\ []Roomy => []EvidenceSinceBreak
<1>1. PipelineInv => EvidenceSinceBreak
  BY DEF PipelineInv, LiveInv, EvidenceInv
<1>2. QED
  BY <1>1, PipelineHeld, PTL

\* live/managed_config.py:362-415, gpu_worker/supervisor.py:240-254: with the pipeline that applies
\* them at its side, no change of the lines is lost, and no answer is taken for another's.
THEOREM BesideSafe == SessionSpec => [](LinesCurrent /\ AnswersMatch)
<1>1. BesideInv => LinesCurrent
  BY DEF BesideInv, Kept, Behind, Handed, LinesCurrent
<1>2. BesideInv => AnswersMatch
  BY GpuAnswers DEF BesideInv
<1>3. QED
  BY <1>1, <1>2, BesideHeld, PTL
=============================================================================
