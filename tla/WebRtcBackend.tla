---------------------------- MODULE WebRtcBackend ---------------------------
(***************************************************************************)
(* One isolated WebRTC session of the camera transport                     *)
(* (camera_transport/webrtc_media.py, webrtc_backend.py, webrtc_worker.py  *)
(* with metadata egress).  The runner calls start() on one thread and      *)
(* stop() on another; a reader thread turns what the worker process says   *)
(* into events for the controller.  start() and stop() share a lock.       *)
(* Events that only carry measurements are one kind, MEDIA.                *)
(***************************************************************************)
EXTENDS Naturals, Sequences

CONSTANTS
    MaxSaid,     \* bound: MEDIA messages and envelopes that cannot be read, together
    MaxErrors    \* protocol errors the reader bears (16)

ASSUME WebRtcBackendAssumption == MaxSaid \in Nat /\ MaxErrors \in Nat

VARIABLES
    starting,   \* where the thread in start() is; "thrown" when no handler of it caught the exception
    ending,     \* where the thread in stop() is; "late" found no delegate to stop
    backend,    \* WebRtcMediaBackend: its socket ("none", "open", "shut"), the stop flag, protocol errors
    listener,   \* the reader thread: "none", "reading", "judging" after the last message, "saying", "ended"
    child,      \* the worker process, what it said that nobody read, what it was sent and has not read
    heard       \* events emitted: if a failure or an end of stream was, and if BackendExited was

backendVars == <<starting, ending, backend, listener, child, heard>>

StartHolds == {"hello", "offer", "exchanging", "answering", "reaping"}
StopHolds == {"asked", "reaping"}
LockFree == starting \notin StartHolds /\ ending \notin StopHolds

BackendInit ==
    /\ starting = "new" /\ ending = "no" /\ listener = "none"
    /\ backend = [socket |-> "none", stopping |-> FALSE, errors |-> 0]
    /\ child = [step |-> "none", up |-> <<>>, down |-> {}, said |-> 0]
    /\ heard = [ended |-> FALSE, exited |-> FALSE]

Alive == child.step \notin {"none", "dead"}
Delegate == starting \notin {"new", "probing", "refused"}
Posted(message) == [child EXCEPT !.down = IF Alive THEN @ \cup {message} ELSE @]

-----------------------------------------------------------------------------
(* start(): WhepMediaBackend, then its delegate, with the lock held *)

Probe ==
    /\ starting = "new" /\ starting' = "probing"
    /\ UNCHANGED <<ending, backend, listener, child, heard>>
Probed ==
    /\ starting = "probing" /\ starting' \in {"refused", "built"}   \* WEBRTC_RUNTIME_UNAVAILABLE, or a delegate
    /\ UNCHANGED <<ending, backend, listener, child, heard>>
SpawnBackend ==
    /\ starting = "built" /\ LockFree
    /\ \/ /\ backend.stopping /\ starting' = "skipped" /\ UNCHANGED <<backend, child>>
       \/ /\ ~backend.stopping /\ starting' = "failed" /\ UNCHANGED <<backend, child>>   \* no such program
       \/ /\ ~backend.stopping /\ starting' = "hello"
          /\ backend' = [backend EXCEPT !.socket = "open"] /\ child' = [child EXCEPT !.step = "starting"]
    /\ UNCHANGED <<ending, listener, heard>>

\* The socket is shut down before the worker is waited for.
Shut == backend' = [backend EXCEPT !.socket = "shut"]
Terminating == starting' = "reaping" /\ Shut
Pending == child.up # <<>> /\ backend.socket # "none"
Said == Head(child.up)
Taken == child' = [child EXCEPT !.up = Tail(@)]
AwaitHello ==
    /\ starting = "hello"
    /\ \/ /\ Pending /\ Said = "HELLO" /\ Alive /\ starting' = "offer" /\ UNCHANGED backend
          /\ child' = [Posted("START") EXCEPT !.up = Tail(@)]
       \/ Pending /\ (Said # "HELLO" \/ ~Alive) /\ Terminating /\ Taken   \* also an element is LACKING
       \/ ~Pending /\ Terminating /\ UNCHANGED child           \* the time is up, or the worker gone
    /\ UNCHANGED <<ending, listener, heard>>
AwaitOffer ==
    /\ starting = "offer"
    /\ \/ Pending /\ Said = "OFFER" /\ starting' = "exchanging" /\ Taken /\ UNCHANGED backend
       \/ Pending /\ Said \in {"FAILED", "EOS", "STOPPED", "bad"} /\ Terminating /\ Taken
       \/ Pending /\ Said = "MEDIA" /\ Taken /\ UNCHANGED <<starting, backend>>
       \/ ~Pending /\ Terminating /\ UNCHANGED child
    /\ UNCHANGED <<ending, listener, heard>>
\* The exchange refuses, or its answer is none; the credential never reaches the worker.
Exchange ==
    /\ starting = "exchanging"
    /\ \/ starting' = "answering" /\ UNCHANGED backend
       \/ Terminating
    /\ UNCHANGED <<ending, listener, child, heard>>
\* An answer too long once it is encoded raises where only an OSError is caught.
Answer ==
    /\ starting = "answering"
    /\ \/ /\ Alive /\ starting' = "started" /\ listener' = "reading"
          /\ child' = Posted("ANSWER") /\ UNCHANGED backend
       \/ ~Alive /\ Terminating /\ UNCHANGED <<child, listener>>
       \/ starting' = "thrown" /\ UNCHANGED <<backend, child, listener>>
    /\ UNCHANGED <<ending, heard>>

\* _terminate_locked: the worker has ended by itself, or is killed; then the socket is closed.
Reaped ==
    /\ child' = [child EXCEPT !.step = IF @ = "none" THEN @ ELSE "dead", !.down = {}]
    /\ backend' = [backend EXCEPT !.socket = "none"]
ReapFailed ==
    /\ starting = "reaping" /\ starting' = "failed" /\ Reaped
    /\ UNCHANGED <<ending, listener, heard>>

-----------------------------------------------------------------------------
(* stop() *)

Stop ==
    /\ ending = "no" /\ starting # "new"
    /\ ending' = IF Delegate THEN "locking" ELSE "late"
    /\ UNCHANGED <<starting, backend, listener, child, heard>>
LockedStop ==
    /\ ending = "locking" /\ LockFree
    /\ LET flagged == [backend EXCEPT !.stopping = TRUE] IN
       IF backend.socket = "open" /\ Alive
       THEN ending' = "asked" /\ backend' = flagged /\ child' = Posted("STOP")
       ELSE ending' = "reaping" /\ UNCHANGED child
            /\ backend' = [flagged EXCEPT !.socket = IF @ = "open" THEN "shut" ELSE @]
    /\ UNCHANGED <<starting, listener, heard>>
\* The worker ended within the time, or is killed.
StopWaits ==
    /\ ending = "asked" /\ ending' = "reaping" /\ Shut /\ child' = [child EXCEPT !.step = "dead"]
    /\ UNCHANGED <<starting, listener, heard>>
ReapStopped ==
    /\ ending = "reaping" /\ ending' = "joining" /\ Reaped
    /\ UNCHANGED <<starting, listener, heard>>
\* The reader is waited for, but not for ever.
Join ==
    /\ ending = "joining" /\ ending' = "done"
    /\ UNCHANGED <<starting, backend, listener, child, heard>>

-----------------------------------------------------------------------------
(* _read_loop *)

\* What was said before the socket ended is read first.
Listen ==
    /\ listener = "reading"
    /\ \/ /\ Pending /\ Said # "bad" /\ Taken /\ UNCHANGED <<backend, listener>>
          /\ heard' = [heard EXCEPT !.ended = @ \/ Said \in {"FAILED", "EOS"}]
       \/ /\ Pending /\ Said = "bad" /\ Taken /\ backend' = [backend EXCEPT !.errors = @ + 1]
          /\ IF backend.errors = MaxErrors
             THEN listener' = "judging" /\ heard' = [heard EXCEPT !.ended = TRUE]
             ELSE UNCHANGED <<listener, heard>>
       \/ /\ ~Pending /\ (~Alive \/ backend.socket # "open") /\ listener' = "judging"
          /\ UNCHANGED <<backend, child, heard>>
    /\ UNCHANGED <<starting, ending>>
\* The stop flag is read without the lock, and BackendExited comes after.
Judge ==
    /\ listener = "judging" /\ listener' = IF backend.stopping THEN "ended" ELSE "saying"
    /\ UNCHANGED <<starting, ending, backend, child, heard>>
SayExited ==
    /\ listener = "saying" /\ listener' = "ended" /\ heard' = [heard EXCEPT !.exited = TRUE]
    /\ UNCHANGED <<starting, ending, backend, child>>

-----------------------------------------------------------------------------
(* The worker process *)

SaysThen(step, messages) ==
    child' = [child EXCEPT !.step = step, !.up = IF backend.socket = "open" THEN @ \o messages ELSE @]
Farewells == {<<"FAILED", "STOPPED">>, <<"EOS", "STOPPED">>, <<"STOPPED">>}
ChildOnly == UNCHANGED <<starting, ending, backend, listener, heard>>
\* A worker without the runtime says so and ends; one that lacks the hardware decoder alone goes on.
Greets ==
    /\ child.step = "starting" /\ ChildOnly
    /\ \/ SaysThen("ready", <<"HELLO">>) \/ SaysThen("ready", <<"LACKING">>)
       \/ SaysThen("dead", <<"LACKING", "FAILED">>) \/ SaysThen("dead", <<"HELLO", "FAILED">>)
Begins ==
    /\ child.step = "ready" /\ ChildOnly
    /\ IF "START" \in child.down THEN SaysThen("offering", <<>>) \/ SaysThen("dead", <<"FAILED">>)
       ELSE SaysThen("dead", <<"FAILED">>) \/ SaysThen("dead", <<>>)   \* no START in time
Offers == child.step = "offering" /\ SaysThen("live", <<"OFFER">>) /\ ChildOnly
\* Measurements, heartbeats while candidates are gathered, and envelopes nobody should send.
Measures ==
    /\ child.step \in {"offering", "live"} /\ child.said < MaxSaid /\ ChildOnly
    /\ \E message \in {"MEDIA", "bad"} :
          child' = [child EXCEPT !.up = IF backend.socket = "open" THEN Append(@, message) ELSE @, !.said = @ + 1]
\* A failure, the end of the stream, a STOP, or a parent that is gone.
Ends == child.step \in {"offering", "live"} /\ (\E farewell \in Farewells : SaysThen("dead", farewell)) /\ ChildOnly
Crashes == Alive /\ SaysThen("dead", <<>>) /\ ChildOnly

StarterStep ==
    Probe \/ Probed \/ SpawnBackend \/ AwaitHello \/ AwaitOffer \/ Exchange \/ Answer \/ ReapFailed
StopperStep == LockedStop \/ StopWaits \/ ReapStopped \/ Join
ListenerStep == Listen \/ Judge \/ SayExited
ChildStep == Greets \/ Begins \/ Offers \/ Measures \/ Ends \/ Crashes
WebRtcBackendNext == StarterStep \/ Stop \/ StopperStep \/ ListenerStep \/ ChildStep
WebRtcBackendSpec ==
    /\ BackendInit /\ [][WebRtcBackendNext]_backendVars
    /\ WF_backendVars(StarterStep) /\ WF_backendVars(StopperStep) /\ WF_backendVars(ListenerStep)
-----------------------------------------------------------------------------
(* Properties *)

BackendTypeOK ==
    /\ starting \in StartHolds \cup {"new", "probing", "refused", "built", "skipped", "started", "failed", "thrown"}
    /\ ending \in StopHolds \cup {"no", "late", "locking", "joining", "done"}
    /\ listener \in {"none", "reading", "judging", "saying", "ended"}
    /\ backend \in [socket : {"none", "open", "shut"}, stopping : BOOLEAN, errors : 0..MaxErrors + 1]
    /\ child.step \in {"none", "starting", "ready", "offering", "live", "dead"}
    /\ child.down \subseteq {"START", "ANSWER", "STOP"}
    /\ heard \in [ended : BOOLEAN, exited : BOOLEAN]
\* backend.py:86: in whatever order the two threads took the lock, a stop that came back leaves no
\* worker process and no socket, nor does a start that failed in one of its handlers.  Where nobody
\* holds the lock a worker is one of a session that started, or whose answer was too long to be sent
\* (webrtc_backend.py:251-256), and then stop() finds the socket open.
NoWorkerRemains ==
    /\ starting \in {"skipped", "failed"} \/ ending \in {"joining", "done"} => ~Alive /\ backend.socket = "none"
    /\ Alive /\ LockFree =>
          starting \in {"started", "thrown"} /\ ending \in {"no", "late", "locking"} /\ backend.socket = "open"
\* webrtc_backend.py:286-312: a session the controller did not stop never goes quiet: its reader
\* ends with BackendExited, after everything the worker had said was passed on.
EndReported ==
    /\ listener = "ended" /\ ~backend.stopping => heard.exited
    /\ heard.exited /\ backend.errors <= MaxErrors => child.up = <<>> /\ ~Alive
WebRtcBackendInv == BackendTypeOK /\ NoWorkerRemains /\ EndReported
\* webrtc_backend.py:411-428: no stop() is under way, though start() may hold the lock in the middle of
\* a negotiation, and the reader of a session that was stopped is over.
BackendAtRest ==
    /\ ending \in {"no", "late", "done"}
    /\ ending = "done" => listener \in {"none", "ended"}
=============================================================================
