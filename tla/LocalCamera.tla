----------------------------- MODULE LocalCamera ----------------------------
(***************************************************************************)
(* A camera of the machine itself as the live session's source of frames   *)
(* (live/camera.py, LocalCameraSource).  The capture thread opens the      *)
(* device, reads it, and opens it again within a budget when reads keep    *)
(* failing; close() comes from the thread that stops the scheduler, and    *)
(* again when it is stopped again.  Every opening of the device has a      *)
(* number.  Pictures, modes and delays are left out: a picture is          *)
(* accepted, not a picture, or of a size that is refused.                  *)
(***************************************************************************)
EXTENDS Naturals, FiniteSets

CONSTANTS
    MaxOpened,       \* bound: how often the device is opened
    MaxReadFailures, \* MAX_CONSECUTIVE_READ_FAILURES
    MaxReopens       \* ReconnectPolicy.max_attempts

ASSUME LocalCameraAssumption == MaxOpened \in Nat /\ MaxReadFailures \in Nat /\ MaxReopens \in Nat

VARIABLES
    usb,       \* LocalCameraSource and where its capture thread is; "using" is the capture it reads from
    opened,    \* the openings so far that the driver still has, and how many there were
    closer,    \* close(): "no", "releasing", "saying", "done"
    picture,   \* the frame yielded last: its opening, its mark, and the opening before
    released   \* history: where the capture thread was when close() last released the device, and
               \* how many openings there had been

usbVars == <<usb, opened, closer, picture, released>>
UsbPlaces == {"new", "opening", "loop", "reading", "yielded", "failing", "freeing", "reopening", "leaving", "ended"}

UsbInit ==
    /\ usb = [at |-> "new", held |-> 0, using |-> 0, failures |-> 0, pending |-> FALSE, used |-> 0,
              stopping |-> FALSE, health |-> "STARTING"]
    /\ opened = [count |-> 0, devices |-> {}]
    /\ closer = "no" /\ picture = [from |-> 0, marked |-> FALSE, before |-> 0]
    /\ released = [at |-> "new", count |-> 0]

At(place) == [usb EXCEPT !.at = place]
\* The scheduler asks for the first frame; a close() that came before is forgotten.
UsbBegin ==
    /\ usb.at = "new" /\ usb' = [At("opening") EXCEPT !.stopping = FALSE]
    /\ UNCHANGED <<opened, closer, picture>>

\* _open: the device refuses, or its next opening is held.
Opens(then) ==
    LET n == opened.count + 1 IN
    /\ n <= MaxOpened /\ opened' = [count |-> n, devices |-> opened.devices \cup {n}]
    /\ usb' = [then EXCEPT !.held = n, !.health = "RUNNING"]
UsbOpen ==
    /\ usb.at = "opening"
    /\ \/ Opens(At("loop"))
       \/ usb' = [At("ended") EXCEPT !.health = "FAILED"] /\ UNCHANGED opened
    /\ UNCHANGED <<closer, picture>>
\* Faulty variant: a stop is noticed only when there is nothing to read from.
TurnWhileHeld ==
    /\ usb.at = "loop"
    /\ usb' = IF usb.held = 0 THEN At("leaving") ELSE [At("reading") EXCEPT !.using = usb.held]
    /\ UNCHANGED <<opened, closer, picture>>
UsbTurn ==
    /\ usb.at = "loop"
    /\ usb' = IF usb.stopping \/ usb.held = 0 THEN At("leaving") ELSE [At("reading") EXCEPT !.using = usb.held]
    /\ UNCHANGED <<opened, closer, picture>>

\* A read of a device that was released fails like any other.
ReadFails ==
    /\ usb.at = "reading"
    /\ usb' = IF usb.failures < MaxReadFailures THEN [At("loop") EXCEPT !.failures = @ + 1] ELSE At("failing")
    /\ UNCHANGED <<opened, closer, picture>>
ReadSucceeds ==
    /\ usb.at = "reading" /\ usb.using \in opened.devices
    /\ \/ usb' = [At("loop") EXCEPT !.failures = 0] /\ UNCHANGED picture              \* not a picture
       \/ usb' = [At("leaving") EXCEPT !.failures = 0, !.health = "FAILED"] /\ UNCHANGED picture
       \/ /\ usb' = [At("yielded") EXCEPT !.failures = 0, !.pending = FALSE]
          /\ \E late \in BOOLEAN :   \* more than a second after the frame before
                picture' = [from |-> usb.using, marked |-> usb.pending \/ late, before |-> picture.from]
    /\ UNCHANGED <<opened, closer>>
\* The scheduler takes the next frame, or lets go of the iterator when it is stopping.
UsbResume ==
    /\ usb.at = "yielded" /\ usb' = At(IF closer = "no" THEN "loop" ELSE "ended")
    /\ UNCHANGED <<opened, closer, picture>>

-----------------------------------------------------------------------------
(* _reconnect and close() *)

Exhausted == usb.used = MaxReopens   \* next_delay has none
Reconnect ==
    /\ usb.at = "failing"
    /\ usb' = IF Exhausted THEN [At("leaving") EXCEPT !.health = "FAILED"]
              ELSE [At("freeing") EXCEPT !.used = @ + 1, !.health = "RECONNECTING"]
    /\ UNCHANGED <<opened, closer, picture>>
\* _release
Freed == opened' = [opened EXCEPT !.devices = @ \ {usb.held}]
Free ==
    /\ usb.at = "freeing" /\ Freed /\ usb' = [At("reopening") EXCEPT !.held = 0]
    /\ UNCHANGED <<closer, picture>>
Reopened == [At("loop") EXCEPT !.failures = 0, !.pending = TRUE]
\* When the device refuses, a second delay is taken and not waited for.
Reopen ==
    /\ usb.at = "reopening"
    /\ \/ Opens(Reopened)
       \/ /\ usb' = IF Exhausted THEN At("leaving") ELSE [Reopened EXCEPT !.used = @ + 1]
          /\ UNCHANGED opened
    /\ UNCHANGED <<closer, picture>>
UsbLeave ==
    /\ usb.at = "leaving" /\ usb' = [At("ended") EXCEPT !.health = IF @ = "RUNNING" THEN "STOPPED" ELSE @]
    /\ UNCHANGED <<opened, closer, picture>>

UsbClose ==
    /\ closer \in {"no", "done"} /\ closer' = "releasing" /\ usb' = [usb EXCEPT !.stopping = TRUE]
    /\ UNCHANGED <<opened, picture, released>>
CloseReleases ==
    /\ closer = "releasing" /\ closer' = "saying" /\ Freed /\ usb' = [usb EXCEPT !.held = 0]
    /\ released' = [at |-> usb.at, count |-> opened.count] /\ UNCHANGED picture
CloseSays ==
    /\ closer = "saying" /\ closer' = "done"
    /\ usb' = [usb EXCEPT !.health = IF @ = "FAILED" THEN @ ELSE "STOPPED"]
    /\ UNCHANGED <<opened, picture, released>>

UsbStep ==
    /\ \/ UsbBegin \/ UsbOpen \/ UsbTurn \/ ReadFails \/ ReadSucceeds \/ UsbResume
       \/ Reconnect \/ Free \/ Reopen \/ UsbLeave
    /\ UNCHANGED released
UsbCloserStep == CloseReleases \/ CloseSays
LocalCameraNext == UsbStep \/ UsbClose \/ UsbCloserStep
LocalCameraSpec ==
    UsbInit /\ [][LocalCameraNext]_usbVars /\ WF_usbVars(UsbStep) /\ WF_usbVars(UsbCloserStep)
-----------------------------------------------------------------------------
(* Properties *)

UsbStates ==
    [at : UsbPlaces, held : 0..MaxOpened, using : 0..MaxOpened, failures : 0..MaxReadFailures,
     pending : BOOLEAN, used : 0..MaxReopens, stopping : BOOLEAN,
     health : {"STARTING", "RUNNING", "RECONNECTING", "STOPPED", "FAILED"}]
UsbTypeOK ==
    /\ usb \in UsbStates
    /\ opened.count \in 0..MaxOpened /\ opened.devices \subseteq 1..opened.count
    /\ closer \in {"no", "releasing", "saying", "done"}
    /\ released \in [at : UsbPlaces, count : 0..MaxOpened]
\* camera.py:282-286: the device is never open twice, and an open one is the one held, so that the
\* next close() finds it, whichever of the two threads released or opened it last.
OneDevice == opened.devices \subseteq {usb.held} \ {0}
\* camera.py:289-359: iteration that nobody stopped ends FAILED, or RECONNECTING with the device
\* released after an opening that failed; iteration that saw a close() return is not left RUNNING.
EndsSaid ==
    /\ usb.at = "ended" /\ closer = "no" =>
          usb.health = "FAILED" \/ (usb.health = "RECONNECTING" /\ opened.devices = {})
    /\ usb.at = "ended" /\ closer = "done" /\ usb.stopping => usb.health \in {"FAILED", "STOPPED", "RECONNECTING"}
\* camera.py:318-321, 336-341: the first frame of another opening is discontinuous.
ReopeningMarked == picture.before \notin {0, picture.from} => picture.marked
\* camera.py:393-398: no device that was open when close() released is open after it.  One opened
\* later stays open, even when iteration is over, until the next close(); that happens only if close()
\* found nothing to release because the thread had yet to open the device, or was about to give it up
\* for another opening, which it makes once without looking at the stop flag.
MayOpen == {"new", "opening", "reading", "failing", "freeing", "reopening"}
DeviceReleased ==
    /\ \A n \in opened.devices : n > released.count
    /\ released.at \notin MayOpen => opened.devices = {}
    /\ closer \in {"saying", "done"} /\ usb.stopping => opened.count <= released.count + 1
LocalCameraInv == UsbTypeOK /\ OneDevice /\ EndsSaid /\ ReopeningMarked /\ DeviceReleased
\* camera.py:393-398: no close() is under way, and the iteration one found begun is over.
UsbAtRest == closer \in {"no", "done"} /\ (usb.stopping => usb.at \in {"new", "ended"})
=============================================================================
