---------------------------- MODULE MCEdgeDevice ----------------------------
(***************************************************************************)
(* The edge device for TLC: the two sources of frames, the backend of an   *)
(* isolated WebRTC session, the picture on its way to the dashboard, and   *)
(* the releases the agent runs from.  They share no thread and no state,   *)
(* so a run explores one focus at a time: "sessions" is the Ring source    *)
(* with two sessions, one after the other, a frame of each and a close()   *)
(* at any point; "flow" is two sessions that nobody closes, with more      *)
(* frames; "usb" is the local camera; "backend", "preview" and "release"   *)
(* are the other three.                                                    *)
(***************************************************************************)
EXTENDS EdgeDevice, Functions
CONSTANTS
    Focuses,   \* bound: the parts explored
    FewPictures   \* bound: frames of each session in focus "sessions"; in "flow" MaxPictures together
VARIABLE focus
mcVars == <<deviceVars, focus>>

MCInit == focus \in Focuses /\ DeviceInit
RingOnly == UNCHANGED <<usbVars, backendVars, previewVars, releaseVars, focus>>
UsbOnly == UNCHANGED <<ringVars, backendVars, previewVars, releaseVars, focus>>
BackendOnly == UNCHANGED <<ringVars, usbVars, previewVars, releaseVars, focus>>
PreviewOnly == UNCHANGED <<ringVars, usbVars, backendVars, releaseVars, focus>>
ReleaseOnly == UNCHANGED <<ringVars, usbVars, backendVars, previewVars, focus>>

Sessions == \A g \in Generations : worker'[g].sent <= FewPictures
Flow == told' = "no" /\ FoldFunction(LAMBDA w, n : w.sent + n, 0, worker') <= MaxPictures
MCNext ==
    \/ focus = "sessions" /\ RingSourceNext /\ Sessions /\ RingOnly
    \/ focus = "flow" /\ RingSourceNext /\ Flow /\ RingOnly
    \/ focus = "usb" /\ LocalCameraNext /\ UsbOnly
    \/ focus = "backend" /\ WebRtcBackendNext /\ BackendOnly
    \/ focus = "preview" /\ LivePreviewNext /\ PreviewOnly
    \/ focus = "release" /\ EdgeReleaseNext /\ ReleaseOnly

\* The threads that capture, close, start, stop and listen run; the page has its timers and answers;
\* the workers, the broker, the device and whoever calls close() or stop() owe nothing.
Working ==
    \/ focus = "sessions" /\ SourceStep /\ RingOnly
    \/ focus = "usb" /\ UsbStep /\ UsbOnly
    \/ focus = "backend" /\ StarterStep /\ BackendOnly
    \/ focus = "preview" /\ PageStep /\ PreviewOnly
Closing ==
    \/ focus = "sessions" /\ CloserStep /\ RingOnly
    \/ focus = "usb" /\ UsbCloserStep /\ UsbOnly
    \/ focus = "backend" /\ StopperStep /\ BackendOnly
    \/ focus = "preview" /\ TimePasses /\ PreviewOnly
Listening == focus = "backend" /\ ListenerStep /\ BackendOnly
MCSpec == MCInit /\ [][MCNext]_mcVars /\ WF_mcVars(Working) /\ WF_mcVars(Closing) /\ WF_mcVars(Listening)

\* ring.py:207-213, camera.py:393-398, webrtc_backend.py:411-428, preview.py:22-24: a close() or stop()
\* once begun comes to its end with the threads it stops, and no page keeps the last picture.
MediaEnds == []<>(RingAtRest /\ UsbAtRest /\ BackendAtRest /\ NothingShown)
=============================================================================
