----------------------------- MODULE RingSource -----------------------------
(***************************************************************************)
(* A Ring camera as the live session's source of frames (live/ring.py,     *)
(* ring_gst.py, ring_broker.py, camera_transport/webrtc_worker.py,         *)
(* broker_whep.py, whep_client.py).  The capture thread leases a session   *)
(* from the broker, starts a worker process, has its offer answered, and   *)
(* reads frames, session after session within a budget.  close() may come  *)
(* from another thread at any point and undoes the same things.  In the    *)
(* worker, a streaming thread hands out frames while the main loop works   *)
(* off what the parent sends.  Pictures, SDP and credentials are left out. *)
(***************************************************************************)
EXTENDS Naturals, Sequences, FiniteSets

CONSTANTS
    MaxAcquired,   \* bound: sessions acquired; the worker and the lease of one have its number
    MaxRetries,    \* ReconnectPolicy.max_attempts
    MaxPictures    \* bound: frames a worker hands out

ASSUME RingSourceAssumption == MaxAcquired \in Nat /\ MaxRetries \in Nat /\ MaxPictures \in Nat

MaxInFlight == 2   \* MAX_FRAMES_IN_FLIGHT
Generations == 1..MaxAcquired

VARIABLES
    source,      \* RingWhepSource and where its capture thread is
    reader,      \* GstFrameReader: the process and the socket it holds, and if its slot is closed
    ticket,      \* the provider's session: "none", "open", "negotiated", "released"; "overtaken" when
                 \* it was released while its offer was being answered
    lease,       \* the broker's lease: "none", "held" by the exchange, "deleted"; "lost" when its
                 \* address never came, "left" when its DELETE failed
    worker,      \* the worker processes, and the two directions of their sockets
    releasing,   \* what _release does on the capture thread and on the closer's
    told,        \* "no", "closing" or "closed": scheduler.stop() and its source.close()
    shown        \* the frame yielded last: its session, its mark, and the session before

ringVars == <<source, reader, ticket, lease, worker, releasing, told, shown>>

Places == {"new", "loop", "acquiring", "spawning", "attaching", "hello", "offer", "negotiating", "posting",
           "answering", "reading", "yielded", "releasing", "checking", "deciding", "waiting", "ended"}
NoReader == [process |-> 0, socket |-> 0, closed |-> FALSE]
NoWorker == [step |-> "none", up |-> <<>>, down |-> <<>>, flight |-> 0, sending |-> FALSE, fresh |-> TRUE, sent |-> 0]
Dead == [NoWorker EXCEPT !.step = "gone"]
NotReleasing == [step |-> "out", process |-> 0, material |-> 0]

RingInit ==
    /\ source = [at |-> "new", why |-> "none", next |-> "ended", stopping |-> FALSE, pending |-> FALSE,
                 used |-> 0, health |-> "STARTING", material |-> 0]
    /\ reader = NoReader
    /\ ticket = [g \in Generations |-> "none"] /\ lease = [g \in Generations |-> "none"]
    /\ worker = [g \in Generations |-> NoWorker]
    /\ releasing = [t \in {"capture", "closer"} |-> NotReleasing]
    /\ told = "no" /\ shown = [from |-> 0, marked |-> FALSE, before |-> 0]

Go(place) == source' = [source EXCEPT !.at = place]
\* A failure, a clean end or a stop: everything is released, and then the capture thread goes on.
Leave(why, next) == [source EXCEPT !.at = "releasing", !.why = why, !.next = next]
Letting(t) == releasing' = [releasing EXCEPT ![t].step = "socket"]
Failed == {"transient", "terminal"}   \* is_terminal(category)

-----------------------------------------------------------------------------
(* frames(), up to the first frame of a session *)

\* A close() that came before is forgotten.
Begin ==
    /\ source.at = "new" /\ source' = [source EXCEPT !.at = "loop", !.stopping = FALSE]
    /\ UNCHANGED <<reader, ticket, lease, worker, releasing, told, shown>>
Turn ==
    /\ source.at = "loop"
    /\ IF source.stopping THEN source' = Leave("stop", "ended") /\ Letting("capture")
       ELSE Go("acquiring") /\ releasing' = releasing
    /\ UNCHANGED <<reader, ticket, lease, worker, told, shown>>

GapForgotten == source   \* faulty variant: the frames are numbered on
Gap == [source EXCEPT !.pending = TRUE]   \* the next frame is discontinuous
Acquire ==
    /\ source.at = "acquiring"
    /\ \E g \in Generations :
          /\ ticket[g] = "none" /\ \A h \in 1..(g - 1) : ticket[h] # "none"
          /\ ticket' = [ticket EXCEPT ![g] = "open"]
          /\ source' = [source EXCEPT !.at = "spawning", !.why = "none", !.material = g, !.health = "STARTING"]
    /\ UNCHANGED <<reader, lease, worker, releasing, told, shown>>
\* No runtime, or no usable credential file, which is read anew for every session.
AcquireFails ==
    /\ source.at = "acquiring"
    /\ \E why \in Failed : source' = [Gap EXCEPT !.at = "deciding", !.why = why]
    /\ UNCHANGED <<reader, ticket, lease, worker, releasing, told, shown>>

\* reader.start(): whatever fails in it, the reader is closed and the session released.
StartFails(why) ==
    /\ source.at \in {"spawning", "hello", "offer", "negotiating", "answering"}
    /\ source' = Leave(why, "deciding") /\ Letting("capture")
    /\ UNCHANGED <<reader, ticket, lease, worker, told, shown>>
CannotStart == source.at = "spawning" /\ \E why \in Failed : StartFails(why)
\* The session of this start; material may already have been taken by close().
Newest == CHOOSE g \in Generations : ticket[g] # "none" /\ \A h \in Generations : h > g => ticket[h] = "none"
Spawn ==
    /\ source.at = "spawning" /\ Go("attaching")
    /\ reader' = [reader EXCEPT !.process = Newest, !.closed = FALSE]
    /\ worker' = [worker EXCEPT ![Newest].step = "starting"]
    /\ UNCHANGED <<ticket, lease, releasing, told, shown>>
Attach ==
    /\ source.at = "attaching" /\ Go("hello") /\ reader' = [reader EXCEPT !.socket = Newest]
    /\ UNCHANGED <<ticket, lease, worker, releasing, told, shown>>

Inbox == IF reader.socket = 0 THEN <<>> ELSE worker[reader.socket].up
Received == worker' = [worker EXCEPT ![reader.socket].up = Tail(@)]
Sent(message) == IF worker[reader.socket].step = "gone" THEN UNCHANGED worker
                 ELSE worker' = [worker EXCEPT ![reader.socket].down = Append(@, message)]

\* _await: the message waited for, another one that ends the start, or none.
Hello ==
    /\ source.at = "hello" /\ Inbox # <<>> /\ Head(Inbox) = "HELLO" /\ Go("offer")
    /\ worker' = [worker EXCEPT ![reader.socket].up = Tail(@), ![reader.socket].down = Append(@, "START")]
    /\ UNCHANGED <<reader, ticket, lease, releasing, told, shown>>
Offer ==
    /\ source.at = "offer" /\ Inbox # <<>> /\ Head(Inbox) = "OFFER" /\ Go("negotiating") /\ Received
    /\ UNCHANGED <<reader, ticket, lease, releasing, told, shown>>
Awaiting ==
    /\ source.at \in {"hello", "offer"}
    /\ IF Inbox = <<>> THEN StartFails("transient")   \* timeout, closed, or WORKER_EXITED
       ELSE \/ Head(Inbox) \in {"UNUSABLE", "REFUSED"} /\ StartFails("terminal")
            \/ Head(Inbox) \in {"BROKEN", "STOPPED"} /\ StartFails("transient")

\* _negotiate: once for a session, and not for one that was released.
Negotiate ==
    /\ source.at = "negotiating" /\ ticket[Newest] = "open"
    /\ ticket' = [ticket EXCEPT ![Newest] = "negotiated"] /\ Go("posting")
    /\ UNCHANGED <<reader, lease, worker, releasing, told, shown>>
NoLongerOurs == source.at = "negotiating" /\ ticket[Newest] # "open" /\ StartFails("terminal")

\* The POST: refused; answered, and the lease kept under its generation; or a lease is made whose
\* answer or address cannot be used.
Unaddressed == {"none", "lost"}   \* what an exchange that fails left at the broker
Answered201 ==
    /\ source.at = "posting" /\ Go("answering") /\ lease' = [lease EXCEPT ![Newest] = "held"]
    /\ UNCHANGED <<reader, ticket, worker, releasing, told, shown>>
ExchangeFails ==
    /\ source.at = "posting"
    /\ \E why \in Failed, made \in Unaddressed :
          /\ source' = Leave(why, "deciding") /\ lease' = [lease EXCEPT ![Newest] = made]
    /\ Letting("capture")
    /\ UNCHANGED <<reader, ticket, worker, told, shown>>
SendAnswer ==
    /\ source.at = "answering"
    /\ IF reader.socket = 0 THEN StartFails("transient")
       ELSE /\ Sent("ANSWER")
            /\ IF source.stopping
               THEN source' = [Leave("stop", "ended") EXCEPT !.health = "RUNNING"] /\ Letting("capture")
               ELSE source' = [source EXCEPT !.at = "reading", !.health = "RUNNING"] /\ releasing' = releasing
            /\ UNCHANGED <<reader, ticket, lease, told, shown>>

-----------------------------------------------------------------------------
(* frames(): reading, retrying, ending *)

\* read() fails, or the stream has ended or gone quiet.
ReadEnds(why) ==
    /\ source' = Leave(why, "checking") /\ Letting("capture")
    /\ UNCHANGED <<reader, ticket, lease, worker, told, shown>>
Disconnected == reader.socket = 0 \/ reader.closed
Interrupted ==
    /\ source.at = "reading"
    /\ \/ (Disconnected \/ Inbox = <<>>) /\ ReadEnds("transient")
       \/ /\ ~Disconnected /\ Inbox # <<>>
          /\ \/ Head(Inbox) = "EOS" /\ ReadEnds("eos")
             \/ Head(Inbox) \in {"BROKEN", "STOPPED"} /\ ReadEnds("transient")
             \/ Head(Inbox) = "REFUSED" /\ ReadEnds("terminal")

\* A frame is copied and acknowledged in any case; one that cannot be mapped, or whose geometry is
\* not accepted, is dropped.
Acknowledged == worker' = [worker EXCEPT ![reader.socket].up = Tail(@),
                    ![reader.socket].down = IF worker[reader.socket].step = "gone" THEN @ ELSE Append(@, "ACK")]
ReadFrame ==
    /\ source.at = "reading" /\ ~Disconnected /\ Inbox # <<>> /\ Head(Inbox) \in {"FIRST", "FRAME"}
    /\ Acknowledged
    /\ \/ /\ source' = [source EXCEPT !.at = "yielded", !.pending = FALSE]
          /\ shown' = [from |-> reader.socket, before |-> shown.from,
                       marked |-> source.pending \/ Head(Inbox) = "FIRST"]
       \/ UNCHANGED <<source, shown>>
    /\ UNCHANGED <<reader, ticket, lease, releasing, told>>

\* The scheduler asks for the next frame, or drops the generator when it is stopping.
Resume ==
    /\ source.at = "yielded"
    /\ IF source.stopping \/ told # "no"
       THEN source' = Leave("stop", "ended") /\ Letting("capture")
       ELSE \* _stable: a minute of streaming returns the budget
            /\ \E used \in {source.used, 0} : source' = [source EXCEPT !.at = "reading", !.used = used]
            /\ releasing' = releasing
    /\ UNCHANGED <<reader, ticket, lease, worker, told, shown>>

Released ==
    /\ source.at = "releasing" /\ releasing["capture"].step = "out" /\ Go(source.next)
    /\ UNCHANGED <<reader, ticket, lease, worker, releasing, told, shown>>
Check ==
    /\ source.at = "checking"
    /\ IF source.why = "eos" \/ source.stopping THEN Go("ended") ELSE Go("deciding")
    /\ UNCHANGED <<reader, ticket, lease, worker, releasing, told, shown>>
GiveUp == [source EXCEPT !.at = "ended", !.health = "FAILED"]   \* _fail
\* _may_retry: a delay within the budget, which a stop cuts short.
Decide ==
    /\ source.at = "deciding"
    /\ source' = IF source.why = "terminal" \/ source.used = MaxRetries THEN GiveUp
                 ELSE [source EXCEPT !.at = "waiting", !.used = @ + 1]
    /\ UNCHANGED <<reader, ticket, lease, worker, releasing, told, shown>>
Retry ==
    /\ source.at = "waiting"
    /\ source' = IF source.stopping THEN GiveUp ELSE [Gap EXCEPT !.at = "loop", !.health = "RECONNECTING"]
    /\ UNCHANGED <<reader, ticket, lease, worker, releasing, told, shown>>
\* finally: the health says how it ended.
End ==
    /\ source.at = "ended" /\ source.health \notin {"FAILED", "STOPPED"}
    /\ source' = [source EXCEPT !.health = "STOPPED"]
    /\ UNCHANGED <<reader, ticket, lease, worker, releasing, told, shown>>

-----------------------------------------------------------------------------
(* _release, on either thread, and close() *)

Step(t, step) == releasing' = [releasing EXCEPT ![t].step = step]
TakeSocket(t) ==
    /\ releasing[t].step = "socket" /\ Step(t, "process") /\ reader' = [reader EXCEPT !.socket = 0]
    /\ IF reader.socket = 0 THEN UNCHANGED worker ELSE Sent("STOP")
    /\ UNCHANGED <<source, ticket, lease, told, shown>>
TakeProcess(t) ==
    /\ releasing[t].step = "process"
    /\ releasing' = [releasing EXCEPT ![t] = [@ EXCEPT !.step = "wait", !.process = reader.process]]
    /\ reader' = [reader EXCEPT !.process = 0]
    /\ UNCHANGED <<source, ticket, lease, worker, told, shown>>
\* The worker ends by itself, or is terminated or killed when its time is over.
AwaitWorker(t) ==
    /\ releasing[t].step = "wait" /\ Step(t, "material") /\ reader' = [reader EXCEPT !.closed = TRUE]
    /\ IF releasing[t].process = 0 THEN UNCHANGED worker
       ELSE worker' = [worker EXCEPT ![releasing[t].process] = Dead]
    /\ UNCHANGED <<source, ticket, lease, told, shown>>
TakeMaterial(t) ==
    /\ releasing[t].step = "material" /\ source' = [source EXCEPT !.material = 0]
    /\ releasing' = [releasing EXCEPT ![t] = IF source.material = 0 THEN NotReleasing
                        ELSE [step |-> "ticket", process |-> 0, material |-> source.material]]
    /\ UNCHANGED <<reader, ticket, lease, worker, told, shown>>
\* The provider forgets the session; only a negotiated one can have a lease.
ReleaseTicket(t) ==
    LET g == releasing[t].material IN
    /\ releasing[t].step = "ticket"
    /\ ticket' = [ticket EXCEPT ![g] = IF source.at = "posting" THEN "overtaken" ELSE "released"]
    /\ IF ticket[g] = "negotiated" THEN Step(t, "delete") ELSE releasing' = [releasing EXCEPT ![t] = NotReleasing]
    /\ UNCHANGED <<source, reader, lease, worker, told, shown>>
DeleteLease(t) ==
    LET g == releasing[t].material IN
    /\ releasing[t].step = "delete" /\ releasing' = [releasing EXCEPT ![t] = NotReleasing]
    /\ IF lease[g] = "held" THEN \E left \in {"deleted", "left"} : lease' = [lease EXCEPT ![g] = left]
       ELSE UNCHANGED lease
    /\ UNCHANGED <<source, reader, ticket, worker, told, shown>>
ReleaseStep(t) ==
    \/ TakeSocket(t) \/ TakeProcess(t) \/ AwaitWorker(t) \/ TakeMaterial(t) \/ ReleaseTicket(t) \/ DeleteLease(t)

CloseSource ==
    /\ told = "no" /\ told' = "closing" /\ source' = [source EXCEPT !.stopping = TRUE] /\ Letting("closer")
    /\ UNCHANGED <<reader, ticket, lease, worker, shown>>
Closed ==
    /\ told = "closing" /\ releasing["closer"].step = "out" /\ told' = "closed"
    /\ source' = [source EXCEPT !.health = IF @ = "FAILED" THEN @ ELSE "STOPPED"]
    /\ UNCHANGED <<reader, ticket, lease, worker, releasing, shown>>

-----------------------------------------------------------------------------
(* The worker: its main loop and its streaming thread *)

Running(g) == worker[g].step \notin {"none", "gone"}
Says(g, step, messages) == worker' = [worker EXCEPT ![g].step = step, ![g].up = @ \o messages]
Parent == <<source, reader, ticket, lease, releasing, told, shown>>

Greet(g) ==
    /\ worker[g].step = "starting"
    /\ Says(g, "hello", <<"HELLO">>) \/ Says(g, "gone", <<"UNUSABLE", "REFUSED">>)
Ending(g, last) ==
    worker' = [worker EXCEPT ![g].step = "gone", ![g].sending = FALSE, ![g].down = <<>>, ![g].up = @ \o last]
\* START, or anything else in its place.
TakeStart(g) ==
    /\ worker[g].step = "hello" /\ worker[g].down # <<>>
    /\ IF Head(worker[g].down) = "START"
       THEN \/ worker' = [worker EXCEPT ![g].step = "gathering", ![g].down = Tail(@)]
            \/ \E last \in {"REFUSED", "BROKEN"} : Ending(g, <<last>>)   \* no receiver could be built
       ELSE Ending(g, <<"BROKEN">>)
SendOffer(g) == worker[g].step = "gathering" /\ Says(g, "offered", <<"OFFER">>)
\* run(): one command after the other.
Command(g) ==
    /\ worker[g].step \in {"gathering", "offered", "live"} /\ worker[g].down # <<>>
    /\ CASE Head(worker[g].down) = "ANSWER" ->
              \/ worker' = [worker EXCEPT ![g].step = "live", ![g].down = Tail(@)]
              \/ Ending(g, <<"BROKEN", "STOPPED">>)
         [] Head(worker[g].down) = "ACK" ->
              worker' = [worker EXCEPT ![g].down = Tail(@), ![g].flight = IF @ = 0 THEN 0 ELSE @ - 1]
         [] Head(worker[g].down) = "STOP" -> Ending(g, <<"STOPPED">>)
\* A pipeline that does not start, a timeout, an error, the end of the stream: the pipeline is taken
\* down first, so no frame follows; or the process just dies.
WorkerEnds(g) ==
    /\ Running(g)
    /\ \/ Ending(g, <<>>)
       \/ worker[g].step = "gathering" /\ Ending(g, <<"REFUSED", "STOPPED">>)
       \/ worker[g].step \in {"gathering", "offered", "live"} /\ Ending(g, <<"BROKEN", "STOPPED">>)
       \/ worker[g].step = "live" /\ Ending(g, <<"EOS", "STOPPED">>)
\* The video cannot be routed: its codec is not supported, or no decoder is there or can be linked.
PadRefused(g) ==
    /\ worker[g].step = "live" /\ worker[g].fresh
    /\ \E last \in {"REFUSED", "BROKEN"} : Ending(g, <<last, "STOPPED">>)

\* _on_frame_sample: with two frames unacknowledged the picture is dropped; else it is sent, and
\* counted afterwards.
MaySend(g) == worker[g].flight < MaxInFlight
SendFrame(g) ==
    /\ worker[g].step = "live" /\ ~worker[g].sending /\ MaySend(g) /\ worker[g].sent < MaxPictures
    /\ worker' = [worker EXCEPT ![g].up = Append(@, IF worker[g].fresh THEN "FIRST" ELSE "FRAME"),
                                ![g].fresh = FALSE, ![g].sending = TRUE, ![g].sent = @ + 1]
CountFrame(g) ==
    /\ worker[g].sending /\ worker' = [worker EXCEPT ![g].sending = FALSE, ![g].flight = @ + 1]

WorkerStep ==
    /\ \E g \in Generations :
          Greet(g) \/ TakeStart(g) \/ SendOffer(g) \/ Command(g) \/ WorkerEnds(g) \/ PadRefused(g) \/ SendFrame(g) \/ CountFrame(g)
    /\ UNCHANGED Parent

SourceStep ==
    \/ Begin \/ Turn \/ Acquire \/ AcquireFails \/ CannotStart \/ Spawn \/ Attach \/ Hello \/ Offer \/ Awaiting
    \/ Negotiate \/ NoLongerOurs \/ Answered201 \/ ExchangeFails \/ SendAnswer
    \/ Interrupted \/ ReadFrame \/ Resume \/ Released \/ Check \/ Decide \/ Retry \/ End
    \/ ReleaseStep("capture")
CloserStep == Closed \/ ReleaseStep("closer")
RingSourceNext == SourceStep \/ CloseSource \/ CloserStep \/ WorkerStep
RingSourceSpec ==
    RingInit /\ [][RingSourceNext]_ringVars /\ WF_ringVars(SourceStep) /\ WF_ringVars(CloserStep)
-----------------------------------------------------------------------------
(* Properties *)

SourceStates ==
    [at : Places, why : Failed \cup {"none", "eos", "stop"}, next : {"ended", "checking", "deciding"},
     stopping : BOOLEAN, pending : BOOLEAN, used : 0..MaxRetries,
     health : {"STARTING", "RUNNING", "RECONNECTING", "STOPPED", "FAILED"}, material : Generations \cup {0}]
ReaderStates == [process : Generations \cup {0}, socket : Generations \cup {0}, closed : BOOLEAN]
RingTypeOK ==
    /\ source \in SourceStates /\ reader \in ReaderStates
    /\ ticket \in [Generations -> {"none", "open", "negotiated", "released", "overtaken"}]
    /\ lease \in [Generations -> {"none", "held", "deleted", "lost", "left"}]
    /\ told \in {"no", "closing", "closed"}

\* ring.py:184-200: a session is given up before the next is asked for, so there is one ticket and one
\* worker at a time that nobody is giving up.
GivenUp(g) == \E t \in DOMAIN releasing : g \in {releasing[t].process, releasing[t].material}
OneRingSession ==
    /\ Cardinality({g \in Generations : ticket[g] \in {"open", "negotiated"} /\ ~GivenUp(g)}) <= 1
    /\ Cardinality({g \in Generations : Running(g) /\ ~GivenUp(g)}) <= 1
\* ring_broker.py:107-112, broker_whep.py:395-405: a lease whose address is known belongs to a session
\* of the provider, or is being deleted, unless the session was released while its offer was answered.
LeasesAccounted ==
    \A g \in Generations : lease[g] = "held" =>
        \/ ticket[g] \in {"negotiated", "overtaken"}
        \/ \E t \in DOMAIN releasing : releasing[t].step = "delete" /\ releasing[t].material = g
\* ring.py:13-15: once iteration has ended and no close() is under way nothing is left, but for leases
\* nobody could address and the one that was overtaken.
NothingLeftBehind ==
    source.at = "ended" /\ told # "closing" =>
        /\ reader.process = 0 /\ reader.socket = 0 /\ source.material = 0
        /\ \A g \in Generations : ~Running(g) /\ ticket[g] \notin {"open", "negotiated"}
        /\ \A g \in Generations : lease[g] = "held" => ticket[g] = "overtaken"
\* ring.py:327-330: the first frame after another session's is discontinuous, whatever was dropped.
GapMarked == shown.before \notin {0, shown.from} => shown.marked
\* webrtc_worker.py:13-20: frames the parent has not acknowledged are counted, and two at most.
Number(messages, kinds) == Cardinality({i \in 1..Len(messages) : messages[i] \in kinds})
Unacknowledged(w) == Number(w.up, {"FIRST", "FRAME"}) + Number(w.down, {"ACK"})
FewInFlight ==
    \A g \in Generations : Running(g) =>
        /\ Unacknowledged(worker[g]) <= worker[g].flight + (IF worker[g].sending THEN 1 ELSE 0)
        /\ Unacknowledged(worker[g]) <= MaxInFlight
\* ring.py:18-25, 223-230: iteration that nobody stopped ends STOPPED after the end of the stream, and
\* FAILED otherwise: at once on a terminal failure, else with the budget used up.
EndsForAReason ==
    source.at = "ended" /\ told = "no" =>
        IF source.why = "eos" THEN source.health # "FAILED"
        ELSE source.health = "FAILED" /\ (source.why = "terminal" \/ source.used = MaxRetries)
RingSourceInv ==
    /\ RingTypeOK /\ OneRingSession /\ LeasesAccounted /\ NothingLeftBehind /\ GapMarked
    /\ FewInFlight /\ EndsForAReason
\* ring.py:207-213, ring_gst.py:304-311: no close() is under way, and the iteration one found begun is
\* over.  That this comes true wherever the two threads are says that close() ends and is not held up.
RingAtRest == told # "closing" /\ (source.stopping => source.at \in {"new", "ended"})
=============================================================================
