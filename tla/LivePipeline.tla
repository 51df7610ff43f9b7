---------------------------- MODULE LivePipeline ----------------------------
(***************************************************************************)
(* LiveDemoRuntime over RecordedTrackingPipeline (live/runtime.py and      *)
(* recorded/pipeline.py): the consumer of the scheduler puts each frame    *)
(* through detector and tracker, and each record of the pipeline through   *)
(* the ledger and the doorway lines.  Lines staged by the configuration    *)
(* thread are applied between records.                                     *)
(***************************************************************************)
EXTENDS FrameScheduler, PersonTracking, PortalCrossing, OccupancyLedger

\* A geometry is told from the absence of one.
ASSUME LivePipelineAssumption == "none" \notin Sizes

VARIABLES
    live,      \* RecordedTrackingPipeline._live: tracks reported as started and not ended
    records,   \* what the pipeline has yet to yield for the frame in hand
    step,      \* "none", "detected", "failed", or "flushing" after the last frame
    unsynced,  \* a discontinuity the runtime has not dropped the crossing states for
    occupancy, \* LiveState.occupancy, as published
    trail,     \* history: what has been seen of each track at each line since the last break
    report     \* history: what the transition just reported rests on

runtimeVars == <<live, records, step, unsynced, occupancy>>
trailVars == <<trail, report>>
pipelineVars == <<tracker, result, ledger, runtimeVars, trailVars>>

NoTrail(now) == [feed |-> now, seen |-> <<>>]

PipelineInit ==
    /\ TrackerInit /\ LedgerInit
    /\ live = {} /\ records = <<>> /\ step = "none" /\ unsynced = FALSE /\ occupancy = 0
    /\ trail = NoTrail(feed) /\ report = None

Observation(t, starts) == [kind |-> "observation", track |-> t, starts |-> starts]
Summary(t) == [kind |-> "summary", track |-> t]
\* Tracks are reported in the order of their ids.
Sorted(S) ==
    CHOOSE order \in [1..Cardinality(S) -> S] :
        \A i, j \in 1..Cardinality(S) : i < j => order[i] < order[j]
Summaries(S) == [i \in 1..Cardinality(S) |-> Summary(Sorted(S)[i])]
Observations(S, known) ==
    [i \in 1..Cardinality(S) |-> Observation(Sorted(S)[i], Sorted(S)[i] \notin known)]

Published(book) == Cardinality(Validated(book))

-----------------------------------------------------------------------------
(* _process_frame *)

\* A break ends every track before this frame's are reported; a removed track ends after them.
Detect ==
    /\ consumer = "using" /\ step = "none" /\ stopper = "running" /\ ~Interrupted
    /\ \E gap \in BOOLEAN :
          /\ Update(hand.feed.size, hand.discontinuity, gap)
          /\ trail' = IF gap \/ trail.feed # hand.feed THEN NoTrail(hand.feed) ELSE trail
    /\ LET cut == IF result'.discontinuity THEN live ELSE {}
           known == live \ cut
           on == known \cup result'.confirmed IN
       /\ records' = Summaries(cut) \o Observations(result'.confirmed, known)
                        \o Summaries(on \cap result'.removed)
       /\ live' = on \ result'.removed
    /\ unsynced' = (unsynced \/ result'.discontinuity)
    /\ step' = "detected"
    /\ UNCHANGED <<ledger, occupancy, report, portalVars, schedulerVars>>

\* The detector, the tracker or the preview raises: the session's consumer is over.
Fail ==
    /\ Abandon /\ step \in {"none", "detected"}
    /\ step' = "failed" /\ records' = <<>>
    /\ tracker' = NoStream /\ result' = NoResult /\ report' = None
    /\ UNCHANGED <<live, ledger, unsynced, occupancy, trail, portalVars>>

-----------------------------------------------------------------------------
(* _consume: one record *)

\* The trail of one more sighting: how long the track has been on the side it was last seen on,
\* and whether it was seen on the other one before.
Trailed(entry, side) ==
    CASE side = "DEADBAND" -> entry
      [] side = entry.side -> [entry EXCEPT !.run = IF @ < ConfirmObservations THEN @ + 1 ELSE @]
      [] OTHER -> [entry EXCEPT !.side = side, !.run = 1, !.both = entry.side # "UNKNOWN"]
NoSighting == [side |-> "UNKNOWN", run |-> 0, both |-> FALSE, event |-> None]
Seen(seen, p, t) == IF <<p, t>> \in DOMAIN seen THEN seen[<<p, t>>] ELSE NoSighting

\* Staged lines are applied first, and after a break the states of the lines go before the record
\* meets them.  With no enabled line the break is remembered.
Resynced == DOMAIN Swapped # {} /\ unsynced
States == IF Resynced THEN Reset(Swapped) ELSE Swapped

HandleObservation(t, starts) ==
    LET book == Observing(t, t \in result.high, starts)
        eligible == t \in Validated(book)
        seen == IF Replaces THEN <<>> ELSE trail.seen IN
    \E sight \in Sights(States) :
        LET reports == Reports(States, t, sight, hand.at, eligible)
            entry(p) == Trailed(Seen(seen, p, t), sight[p].side)
            after(p) == IF p \in reports THEN [entry(p) EXCEPT !.event = hand.at] ELSE entry(p) IN
        /\ ledger' = book
        /\ crossing' = Observed(States, t, sight, hand.at, eligible)
        /\ trail' = [trail EXCEPT !.seen =
                        [k \in DOMAIN seen \cup {<<p, t>> : p \in DOMAIN States} |->
                            IF k[2] = t THEN after(k[1]) ELSE seen[k]]]
        /\ report' = IF reports = {} THEN None
                     ELSE [basis |-> {entry(p) : p \in reports}, at |-> hand.at]
        /\ UNCHANGED occupancy

\* A track that ends is forgotten; the ledger's new count is published.
HandleSummary(t) ==
    /\ ledger' = Ending(t) /\ crossing' = Forget(States, t)
    /\ occupancy' = Published(ledger')
    /\ trail' = IF Replaces THEN [trail EXCEPT !.seen = <<>>] ELSE trail
    /\ report' = None

Handle ==
    /\ records # <<>> /\ records' = Tail(records) /\ ~Interrupted
    /\ ApplyStaged /\ unsynced' = (unsynced /\ ~Resynced)
    /\ IF Head(records).kind = "summary" THEN HandleSummary(Head(records).track)
       ELSE HandleObservation(Head(records).track, Head(records).starts)
    /\ UNCHANGED <<tracker, result, live, step, schedulerVars>>

-----------------------------------------------------------------------------
(* the frame hook, and the end of the stream *)

\* The hook runs after a frame's records, whether it had any; then the next frame is asked for.
EndFrame ==
    /\ step = "detected" /\ records = <<>> /\ Done
    /\ ApplyStaged /\ crossing' = Swapped
    /\ occupancy' = Published(ledger) /\ step' = "none"
    /\ trail' = IF Replaces THEN [trail EXCEPT !.seen = <<>>] ELSE trail
    /\ result' = NoResult /\ report' = None
    /\ UNCHANGED <<tracker, ledger, live, records, unsynced>>

\* A frame that arrives once stop() has been called is not used.
Decline ==
    /\ Abandon /\ step = "none" /\ stopper # "running"
    /\ UNCHANGED <<pipelineVars, portalVars>>

\* When the frames end, the tracks still live are closed and the tracker is reset.
Flush ==
    /\ consumer = "ended" /\ step = "none" /\ ~Interrupted
    /\ records' = Summaries(live) /\ live' = {} /\ step' = "flushing" /\ tracker' = NoStream
    /\ UNCHANGED <<result, ledger, unsynced, occupancy, trailVars, portalVars, schedulerVars>>

PipelineStep == Detect \/ Fail \/ Handle \/ EndFrame \/ Decline \/ Flush

\* The steps of the other threads, and of the consumer between frames.
SchedulerStep ==
    /\ CaptureStep \/ ConsumerStep \/ PeriodPasses \/ Halt \/ StopStep
    /\ UNCHANGED <<pipelineVars, portalVars>>

-----------------------------------------------------------------------------
(* Properties *)

\* runtime.py:306-308: once the records of a frame are handled, the ledger holds exactly the tracks
\* the timeline has started and not ended, and the count published is theirs; after the last frame
\* nobody is left in it.
LedgerFollows ==
    /\ step = "none" => DOMAIN ledger = live /\ occupancy = Published(ledger)
    /\ step = "flushing" /\ records = <<>> => ledger = <<>> /\ occupancy = 0

\* portal_crossing.py:1-40, runtime.py:287-295: nothing before a break is joined to anything after
\* it.  A transition rests on sightings since the feed was last interrupted and since the line was
\* put in place: the track on one side, then confirmed on the other, a cooldown after its last one.
EvidenceSinceBreak ==
    report # None => \A e \in report.basis :
        /\ e.both /\ e.run >= ConfirmObservations
        /\ e.event # None => report.at - e.event >= Cooldown
=============================================================================
