----------------------------- MODULE EdgeDevice -----------------------------
(***************************************************************************)
(* The edge device: the two sources of frames, the backend of an isolated  *)
(* WebRTC session, the picture on its way to the dashboard, and the        *)
(* releases the agent runs from.  They share no thread and no state; the   *)
(* threads of one take their steps between those of the others.            *)
(***************************************************************************)
EXTENDS RingSource, LocalCamera, WebRtcBackend, LivePreview, EdgeRelease

deviceVars == <<ringVars, usbVars, backendVars, previewVars, releaseVars>>

DeviceInit == RingInit /\ UsbInit /\ BackendInit /\ PreviewInit /\ ReleaseInit
DeviceNext ==
    \/ RingSourceNext /\ UNCHANGED <<usbVars, backendVars, previewVars, releaseVars>>
    \/ LocalCameraNext /\ UNCHANGED <<ringVars, backendVars, previewVars, releaseVars>>
    \/ WebRtcBackendNext /\ UNCHANGED <<ringVars, usbVars, previewVars, releaseVars>>
    \/ LivePreviewNext /\ UNCHANGED <<ringVars, usbVars, backendVars, releaseVars>>
    \/ EdgeReleaseNext /\ UNCHANGED <<ringVars, usbVars, backendVars, previewVars>>
DeviceSpec == DeviceInit /\ [][DeviceNext]_deviceVars

-----------------------------------------------------------------------------
(* Properties *)

\* ring.py:13-25, camera.py:289-398, webrtc_backend.py:176-428, preview.py:9-24: what the sources, the
\* backend and the preview keep to while they run and when they end, and veotrex-edge-ctl.sh:6-20: that
\* no order of builds, activations, kills and reboots leaves the device without a release it can run.
DeviceInv == RingSourceInv /\ LocalCameraInv /\ WebRtcBackendInv /\ LivePreviewInv /\ EdgeReleaseInv
=============================================================================
