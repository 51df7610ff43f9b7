--------------------------- MODULE FrameScheduler ---------------------------
(***************************************************************************)
(* BackpressureScheduler (live/scheduler.py): a capture thread puts the    *)
(* newest frames of a source into a bounded slot, the consumer takes them  *)
(* when inference is due, and whoever ends the session stops both.  The    *)
(* two threads meet in the slot, which a lock guards, and in two events,   *)
(* `stop' and `arrived', which nothing guards.                             *)
(***************************************************************************)
EXTENDS Integers, Sequences

CONSTANTS
    Capacity,   \* frames the slot holds
    Paced,      \* whether an AdaptiveInferencePacer decides when inference is due
    Headless,   \* whether stop() runs in a signal handler on the consumer's own thread
    Sizes,      \* frame geometries
    MaxFrames   \* bound: frames a session captures

ASSUME FrameSchedulerAssumption ==
    /\ Capacity \in Nat \ {0} /\ MaxFrames \in Nat
    /\ Paced \in BOOLEAN /\ Headless \in BOOLEAN

VARIABLES
    slot,      \* _buffer
    tally,     \* SchedulerMetrics: what became of the frames captured
    due,       \* the pacer: "now" before a first frame and after expedite(), "passed", "later"
    busy,      \* _busy
    arrived,   \* _arrived
    stop,      \* _stop
    capture,   \* where the capture thread is
    grabbed,   \* the frame the capture thread holds
    consumer,  \* where the consumer is in frames()
    hand,      \* the frame the consumer works on
    stopper,   \* how far a call of stop() has come
    feed       \* the camera: interruptions so far, and the geometry of its picture

schedulerVars == <<slot, tally, due, busy, arrived, stop, capture, grabbed, consumer, hand,
                   stopper, feed>>

Feed == [breaks : Nat, size : Sizes]
\* LiveFrame: `at' stands for its timestamps, `feed' for what the camera was when it took it.
LiveFrame == [at : 1..MaxFrames, feed : Feed, discontinuity : BOOLEAN]
NoFrame == [at |-> 0]

Calls == <<"running", "halted", "closing", "stopped", "woken", "joined", "done">>
Reached(step) == \E i, j \in 1..Len(Calls) : Calls[i] = step /\ Calls[j] = stopper /\ i <= j

\* The consumer keeps the lock from looking into the slot to clearing the event.
Locked == consumer = "clearing"
\* In a headless session the handler interrupts the consumer until stop() returns.
Interrupted == Headless /\ stopper \notin {"running", "done"}

SchedulerInit ==
    /\ slot = <<>> /\ due = "now" /\ busy = FALSE /\ arrived = FALSE /\ stop = FALSE
    /\ tally = [captured |-> 0, delivered |-> 0, dropped |-> 0, skipped |-> 0, discarded |-> 0]
    /\ capture = "none" /\ grabbed = NoFrame
    /\ consumer = "new" /\ hand = NoFrame /\ stopper = "running"
    /\ \E s \in Sizes : feed = [breaks |-> 0, size |-> s]

-----------------------------------------------------------------------------
(* start *)

\* The thread is created only if there is none and nobody closes; stop() may come in between.
StartCapture ==
    /\ consumer = "new" /\ ~Interrupted
    /\ consumer' = IF capture # "none" \/ Reached("closing") THEN "asking" ELSE "starting"
    /\ UNCHANGED <<slot, tally, due, busy, arrived, stop, capture, grabbed, hand, stopper, feed>>
StartThread ==
    /\ consumer = "starting" /\ ~Interrupted
    /\ stop' = FALSE /\ capture' = "reading" /\ consumer' = "asking"
    /\ UNCHANGED <<slot, tally, due, busy, arrived, grabbed, hand, stopper, feed>>

-----------------------------------------------------------------------------
(* _capture_loop *)

\* The source yields its next frame, marked if the feed was interrupted before it.  After a stop
\* the loop ends instead.
Grab ==
    /\ capture = "reading" /\ tally.captured < MaxFrames
    /\ IF stop
       THEN capture' = "finishing" /\ UNCHANGED <<grabbed, feed>>
       ELSE /\ capture' = "admitting"
            /\ \E broke \in BOOLEAN, s \in Sizes :
                  /\ feed' = [breaks |-> IF broke THEN feed.breaks + 1 ELSE feed.breaks, size |-> s]
                  /\ grabbed' = [at |-> tally.captured + 1, feed |-> feed', discontinuity |-> broke]
    /\ UNCHANGED <<slot, tally, due, busy, arrived, stop, consumer, hand, stopper>>

\* The source ends, fails, or notices that it was closed.
SourceEnds ==
    /\ capture = "reading" /\ capture' = "finishing"
    /\ UNCHANGED <<slot, tally, due, busy, arrived, stop, grabbed, consumer, hand, stopper, feed>>

Lost(f) == FALSE   \* faulty variant: a superseded frame takes its mark with it
Carried(f) == f.discontinuity

\* A full slot loses its oldest frame; whether the detector wanted it decides how that counts.
\* A mark on the lost frame passes to the oldest one left.
Admit ==
    LET full == Len(slot) = Capacity
        wanted == ~Paced \/ (busy /\ due # "later")
        kept == Append(IF full THEN Tail(slot) ELSE slot, grabbed) IN
    /\ capture = "admitting" /\ ~Locked
    /\ slot' = IF full /\ Carried(Head(slot))
               THEN [kept EXCEPT ![1].discontinuity = TRUE] ELSE kept
    /\ tally' = [tally EXCEPT !.captured = @ + 1,
                              !.dropped = IF full /\ wanted THEN @ + 1 ELSE @,
                              !.skipped = IF full /\ ~wanted THEN @ + 1 ELSE @]
    /\ due' = IF Paced /\ grabbed.discontinuity THEN "now" ELSE due
    /\ capture' = "announcing" /\ grabbed' = NoFrame
    /\ UNCHANGED <<busy, arrived, stop, consumer, hand, stopper, feed>>

Announce ==
    /\ capture = "announcing" /\ arrived' = TRUE /\ capture' = "reading"
    /\ UNCHANGED <<slot, tally, due, busy, stop, grabbed, consumer, hand, stopper, feed>>

\* The finally block: the consumer is told, then woken.
Finish ==
    /\ \/ capture = "finishing" /\ stop' = TRUE /\ capture' = "waking" /\ UNCHANGED arrived
       \/ capture = "waking" /\ arrived' = TRUE /\ capture' = "ended" /\ UNCHANGED stop
    /\ UNCHANGED <<slot, tally, due, busy, grabbed, consumer, hand, stopper, feed>>

CaptureStep == Grab \/ SourceEnds \/ Admit \/ Announce \/ Finish

-----------------------------------------------------------------------------
(* frames *)

\* Nothing is taken once stop() has begun, or enough frames have been.
Ask ==
    /\ consumer = "asking" /\ ~Interrupted
    /\ \/ consumer' = IF Reached("closing") THEN "ended" ELSE "looking"
       \/ consumer' = "ended"
    /\ UNCHANGED <<slot, tally, due, busy, arrived, stop, capture, grabbed, hand, stopper, feed>>

Take ==
    /\ consumer = "looking" /\ ~Interrupted
    /\ slot # <<>> /\ due # "later"
    /\ slot' = Tail(slot) /\ hand' = Head(slot) /\ busy' = TRUE
    /\ tally' = [tally EXCEPT !.delivered = @ + 1]
    /\ due' = IF Paced THEN "later" ELSE due
    /\ consumer' = "using"
    /\ UNCHANGED <<arrived, stop, capture, grabbed, stopper, feed>>

\* Nothing to take: the consumer returns if capture has ended, or clears the event and waits.
Look ==
    /\ consumer = "looking" /\ ~Interrupted
    /\ slot = <<>> \/ due = "later"
    /\ consumer' = IF slot = <<>> /\ stop THEN "ended" ELSE "clearing"
    /\ UNCHANGED <<slot, tally, due, busy, arrived, stop, capture, grabbed, hand, stopper, feed>>
Clear ==
    /\ consumer = "clearing" /\ ~Interrupted
    /\ arrived' = FALSE /\ consumer' = IF slot = <<>> THEN "waiting" ELSE "pausing"
    /\ UNCHANGED <<slot, tally, due, busy, stop, capture, grabbed, hand, stopper, feed>>
\* faulty variant: the consumer waits until it is told
WakeWhenTold ==
    /\ consumer = "pausing" \/ (consumer = "waiting" /\ arrived)
    /\ ~Interrupted /\ consumer' = "asking"
    /\ UNCHANGED <<slot, tally, due, busy, arrived, stop, capture, grabbed, hand, stopper, feed>>
\* Every wait has a timeout.
Wake ==
    /\ consumer \in {"waiting", "pausing"} /\ ~Interrupted
    /\ consumer' = "asking"
    /\ UNCHANGED <<slot, tally, due, busy, arrived, stop, capture, grabbed, hand, stopper, feed>>

\* The consumer asks for the next frame; what it cost may lengthen the pacer's period.
Done ==
    /\ consumer = "using" /\ ~Interrupted
    /\ consumer' = "asking" /\ busy' = FALSE /\ hand' = NoFrame
    /\ \/ UNCHANGED due
       \/ due = "passed" /\ due' = "later"
    /\ UNCHANGED <<slot, tally, arrived, stop, capture, grabbed, stopper, feed>>
\* The generator is closed with the frame in hand.
Abandon ==
    /\ consumer = "using" /\ ~Interrupted
    /\ consumer' = "ended" /\ busy' = FALSE /\ hand' = NoFrame
    /\ UNCHANGED <<slot, tally, due, arrived, stop, capture, grabbed, stopper, feed>>

PeriodPasses ==
    /\ due = "later" /\ due' = "passed"
    /\ UNCHANGED <<slot, tally, busy, arrived, stop, capture, grabbed, consumer, hand, stopper,
                   feed>>

ConsumerStep == StartCapture \/ StartThread \/ Ask \/ Take \/ Look \/ Clear \/ Wake

-----------------------------------------------------------------------------
(* stop, called by LiveDemoRuntime.stop once it has set its own flag *)

Halt ==
    /\ stopper = "running" /\ stopper' = "halted"
    /\ UNCHANGED <<slot, tally, due, busy, arrived, stop, capture, grabbed, consumer, hand, feed>>
StopStep ==
    /\ \/ stopper = "halted" /\ stopper' = "closing" /\ UNCHANGED <<slot, tally, arrived, stop>>
       \/ /\ stopper = "closing" /\ stopper' = "stopped" /\ stop' = TRUE
          /\ UNCHANGED <<slot, tally, arrived>>
       \/ /\ stopper = "stopped" /\ stopper' = "woken" /\ arrived' = TRUE
          /\ UNCHANGED <<slot, tally, stop>>
       \* The source is closed and the thread joined; a wedged driver outlives the timeout.
       \/ stopper = "woken" /\ stopper' = "joined" /\ UNCHANGED <<slot, tally, arrived, stop>>
       \/ /\ stopper = "joined" /\ ~Locked /\ stopper' = "done"
          /\ tally' = [tally EXCEPT !.discarded = @ + Len(slot)] /\ slot' = <<>>
          /\ UNCHANGED <<arrived, stop>>
    /\ UNCHANGED <<due, busy, capture, grabbed, consumer, hand, feed>>

SchedulerNext ==
    CaptureStep \/ ConsumerStep \/ Done \/ Abandon \/ PeriodPasses \/ Halt \/ StopStep
SchedulerSpec == SchedulerInit /\ [][SchedulerNext]_schedulerVars

-----------------------------------------------------------------------------
(* Properties *)

SchedulerTypeOK ==
    /\ slot \in Seq(LiveFrame) /\ Len(slot) <= Capacity
    /\ tally \in [captured : Nat, delivered : Nat, dropped : Nat, skipped : Nat, discarded : Nat]
    /\ due \in {"now", "passed", "later"} /\ busy \in BOOLEAN
    /\ arrived \in BOOLEAN /\ stop \in BOOLEAN
    /\ capture \in {"none", "reading", "admitting", "announcing", "finishing", "waking", "ended"}
    /\ grabbed \in LiveFrame \cup {NoFrame} /\ (capture = "admitting" <=> grabbed # NoFrame)
    /\ consumer \in {"new", "starting", "asking", "looking", "clearing", "waiting", "pausing",
                     "using", "ended"}
    /\ hand \in LiveFrame \cup {NoFrame} /\ (consumer = "using" <=> hand # NoFrame)
    /\ stopper \in {Calls[i] : i \in 1..Len(Calls)}
    /\ feed \in Feed

\* scheduler.py:12-40: every frame captured is delivered, dropped, skipped, discarded at the stop,
\* or still in the slot, wherever the threads are.
FramesConserved ==
    tally.captured = tally.delivered + tally.dropped + tally.skipped + tally.discarded + Len(slot)

\* scheduler.py:512-524: a consumer that waits for a frame has not overlooked one: if the slot has
\* been filled since it looked, the event is set or about to be.
NoMissedArrival ==
    consumer = "waiting" /\ slot # <<>> => arrived \/ capture = "announcing"

\* runtime.py:497-502, scheduler.py:542-543: stop() can always go on to its end, so a session can
\* be stopped: no call of it waits for a lock its own thread holds.
StopReturns == ~(Headless /\ stopper = "joined" /\ Locked)
=============================================================================
