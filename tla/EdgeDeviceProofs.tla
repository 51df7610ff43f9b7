-------------------------- MODULE EdgeDeviceProofs --------------------------
(***************************************************************************)
(* Theorems about EdgeDevice for any bounds and releases.  For each of the *)
(* five modules the proof states an inductive invariant, shows that the    *)
(* initial states have it and that every action keeps it, and concludes    *)
(* the module's own invariant; DeviceSafe puts the five together.  For     *)
(* RingSource the invariant says what each of the two threads has in hand  *)
(* at each of its steps (Holding), what a worker has been told (Workers)   *)
(* and which frames are still to be marked (Marking).                      *)
(***************************************************************************)
EXTENDS EdgeDevice, SequenceTheorems, FiniteSetTheorems, TLAPS

-----------------------------------------------------------------------------
(* The local camera *)

\* What the capture thread relies on: the device it reads is the one held, unless close() took it, and
\* a frame of an earlier opening was the last only while the mark is pending.
UsbRemembers ==
    /\ picture \in [from : 0..MaxOpened, marked : BOOLEAN, before : 0..MaxOpened]
    /\ usb.at \in {"new", "opening", "reopening"} => usb.held = 0
    /\ usb.at \in {"new", "opening"} \/ usb.health # "STARTING"
    /\ usb.at \in {"new", "opening"} => picture.from = 0
    /\ usb.at = "loop" /\ usb.held # 0 => picture.from \in {0, usb.held} \/ usb.pending
    /\ usb.at \in {"reading", "yielded"} => usb.using # 0 /\ usb.held \in {0, usb.using}
    /\ usb.at = "reading" => picture.from \in {0, usb.using} \/ usb.pending
    /\ usb.at = "yielded" => picture.from = usb.using
\* Until close() begins, the device is there to read from or its loss has been said.
LetGo == usb.health = "RECONNECTING" /\ usb.held = 0
Unstopped ==
    closer = "no" =>
        /\ ~usb.stopping
        /\ usb.at = "loop" => usb.held # 0 \/ LetGo
        /\ usb.at \in {"reading", "yielded"} => usb.held # 0
        /\ usb.at \in {"freeing", "reopening"} => usb.health = "RECONNECTING"
        /\ usb.at \in {"leaving", "ended"} => usb.health = "FAILED" \/ LetGo
\* After close(), a device opened late is on its way out.
Outrun == closer = "done" /\ usb.stopping /\ usb.health = "RUNNING" => usb.at \in {"loop", "leaving"}
UsbTyped ==
    /\ usb \in UsbStates
    /\ opened.count \in 0..MaxOpened /\ opened.devices \subseteq 1..opened.count
    /\ closer \in {"no", "releasing", "saying", "done"}
UsbBase == UsbTyped /\ OneDevice /\ EndsSaid /\ ReopeningMarked /\ UsbRemembers /\ Unstopped /\ Outrun
\* After close() released, a thread that was not about to open the device finds none and is on its way
\* out; one that was opens it at most once before it notices the stop.
LateOpening ==
    /\ released.count <= opened.count
    /\ released.at \notin MayOpen => closer # "no" /\ usb.held = 0 /\ usb.at \in {"loop", "yielded", "leaving", "ended"}
    /\ closer \in {"saying", "done"} /\ usb.stopping /\ usb.at \notin {"loop", "leaving", "ended"} =>
          opened.count = released.count
UsbIInv ==
    UsbBase /\ released \in [at : UsbPlaces, count : 0..MaxOpened] /\ DeviceReleased /\ LateOpening

LEMMA UsbZeros == 0 \in 0..MaxOpened /\ 0 \in 0..MaxReadFailures /\ 0 \in 0..MaxReopens
  BY LocalCameraAssumption

LEMMA UsbStart == UsbInit => UsbIInv
  BY LocalCameraAssumption
  DEF UsbInit, UsbIInv, DeviceReleased, LateOpening, MayOpen, UsbBase, UsbTyped, UsbStates, OneDevice, EndsSaid, ReopeningMarked, UsbRemembers,
      Unstopped, Outrun, LetGo, UsbPlaces

\* An opening, the first or a later one, finds nothing held.
LEMMA OpensStep ==
    ASSUME UsbBase, NEW then, Opens(then), UNCHANGED <<closer, picture>>,
           \/ usb.at = "opening" /\ then = At("loop")
           \/ usb.at = "reopening" /\ then = Reopened
    PROVE  UsbBase'
<1>1. /\ opened.count + 1 \in 1..MaxOpened /\ usb.held = 0 /\ opened.devices = {}
  BY LocalCameraAssumption DEF Opens, UsbBase, UsbTyped, UsbStates, OneDevice, UsbRemembers
<1>2. PICK n \in 1..MaxOpened : n = opened.count + 1
  BY <1>1
<1>3. opened' = [count |-> n, devices |-> {n}]
  BY <1>1, <1>2 DEF Opens
<1>4. UsbTyped
  BY DEF UsbBase
<1>5. CASE usb.at = "opening"
  <2>1. usb' = [usb EXCEPT !.at = "loop", !.held = n, !.health = "RUNNING"]
    BY <1>5, <1>2 DEF Opens, At, Reopened, UsbBase, UsbTyped, UsbStates
  <2>2. usb' \in UsbStates
    <3>1. n \in 0..MaxOpened /\ "loop" \in UsbPlaces
      BY <1>2 DEF UsbPlaces
    <3>2. QED
      BY <2>1, <1>4, <3>1, UsbZeros DEF UsbTyped, UsbStates
  <2>3. UsbTyped' /\ OneDevice' /\ EndsSaid' /\ ReopeningMarked'
    BY <1>2, <1>3, <1>4, <1>5, <2>1, <2>2, LocalCameraAssumption DEF UsbTyped, UsbStates, OneDevice, EndsSaid, ReopeningMarked,
       UsbBase
  <2>4. UsbRemembers' /\ Unstopped' /\ Outrun'
    BY <1>2, <1>3, <1>4, <1>5, <2>1 DEF UsbTyped, UsbStates, UsbBase, UsbRemembers, Unstopped, Outrun, LetGo
  <2>5. QED
    BY <2>3, <2>4 DEF UsbBase
<1>6. CASE usb.at = "reopening"
  <2>1. usb' = [usb EXCEPT !.at = "loop", !.held = n, !.health = "RUNNING", !.failures = 0, !.pending = TRUE]
    BY <1>6, <1>2 DEF Opens, At, Reopened, UsbBase, UsbTyped, UsbStates
  <2>2. usb' \in UsbStates
    <3>1. n \in 0..MaxOpened /\ "loop" \in UsbPlaces
      BY <1>2 DEF UsbPlaces
    <3>2. QED
      BY <2>1, <1>4, <3>1, UsbZeros DEF UsbTyped, UsbStates
  <2>3. UsbTyped' /\ OneDevice' /\ EndsSaid' /\ ReopeningMarked'
    BY <1>2, <1>3, <1>4, <1>6, <2>1, <2>2, LocalCameraAssumption DEF UsbTyped, UsbStates, OneDevice, EndsSaid, ReopeningMarked,
       UsbBase
  <2>4. UsbRemembers' /\ Unstopped' /\ Outrun'
    BY <1>2, <1>3, <1>4, <1>6, <2>1 DEF UsbTyped, UsbStates, UsbBase, UsbRemembers, Unstopped, Outrun, LetGo
  <2>5. QED
    BY <2>3, <2>4 DEF UsbBase
<1>7. QED
  BY <1>5, <1>6

LEMMA UsbBaseKept == UsbBase /\ [LocalCameraNext]_usbVars => UsbBase'
<1> SUFFICES ASSUME UsbBase, [LocalCameraNext]_usbVars PROVE UsbBase'
  OBVIOUS
<1> USE LocalCameraAssumption DEF At, UsbPlaces, LetGo
<1>1. 0 \in 0..MaxOpened /\ 0 \in 0..MaxReadFailures
  BY UsbZeros
<1>2. UsbTyped /\ OneDevice /\ EndsSaid /\ ReopeningMarked /\ UsbRemembers /\ Unstopped /\ Outrun
  BY DEF UsbBase
<1>3. CASE UsbBegin
  <2>1. UsbTyped'
    BY <1>3, <1>2 DEF UsbBegin, UsbTyped, UsbStates, OneDevice, UsbRemembers
  <2>2. OneDevice' /\ EndsSaid' /\ ReopeningMarked'
    BY <1>3, <1>2 DEF UsbBegin, UsbTyped, UsbStates, OneDevice, EndsSaid, ReopeningMarked, UsbRemembers, Unstopped, Outrun
  <2>3. UsbRemembers' /\ Unstopped' /\ Outrun'
    BY <1>3, <1>2 DEF UsbBegin, UsbTyped, UsbStates, UsbRemembers, Unstopped, Outrun
  <2>4. QED
    BY <2>1, <2>2, <2>3 DEF UsbBase
<1>4. CASE UsbResume
  <2>1. UsbTyped'
    BY <1>4, <1>2 DEF UsbResume, UsbTyped, UsbStates, OneDevice, UsbRemembers
  <2>2. OneDevice' /\ EndsSaid' /\ ReopeningMarked'
    BY <1>4, <1>2 DEF UsbResume, UsbTyped, UsbStates, OneDevice, EndsSaid, ReopeningMarked, UsbRemembers, Unstopped, Outrun
  <2>3. UsbRemembers' /\ Unstopped' /\ Outrun'
    BY <1>4, <1>2 DEF UsbResume, UsbTyped, UsbStates, UsbRemembers, Unstopped, Outrun
  <2>4. QED
    BY <2>1, <2>2, <2>3 DEF UsbBase
<1>5. CASE UsbOpen
  <2>1. CASE UNCHANGED opened
    <3>1. usb' = [usb EXCEPT !.at = "ended", !.health = "FAILED"]
      BY <1>5, <2>1, <1>2 DEF UsbOpen, Opens, UsbTyped, UsbStates
    <3>2. usb' \in UsbStates
      BY <3>1, <1>2, <1>1 DEF UsbTyped, UsbStates
    <3>3. UsbTyped'
      BY <1>5, <2>1, <1>2, <3>2 DEF UsbOpen, Opens, UsbTyped
    <3>4. OneDevice' /\ EndsSaid' /\ ReopeningMarked'
      BY <1>5, <2>1, <1>2, <3>1 DEF UsbOpen, Opens, UsbTyped, UsbStates, OneDevice, EndsSaid, ReopeningMarked, UsbRemembers,
         Unstopped, Outrun
    <3>5. UsbRemembers' /\ Unstopped' /\ Outrun'
      BY <1>5, <2>1, <1>2, <3>1 DEF UsbOpen, Opens, UsbTyped, UsbStates, UsbRemembers, Unstopped, Outrun
    <3>6. QED
      BY <3>3, <3>4, <3>5 DEF UsbBase
  <2>2. QED
    BY <1>5, <2>1, OpensStep DEF UsbOpen
<1>6. CASE UsbTurn
  <2>1. UsbTyped'
    BY <1>6, <1>2 DEF UsbTurn, UsbTyped, UsbStates, OneDevice, UsbRemembers
  <2>2. OneDevice' /\ EndsSaid' /\ ReopeningMarked'
    BY <1>6, <1>2 DEF UsbTurn, UsbTyped, UsbStates, OneDevice, EndsSaid, ReopeningMarked, UsbRemembers, Unstopped, Outrun
  <2>3. UsbRemembers' /\ Unstopped' /\ Outrun'
    BY <1>6, <1>2 DEF UsbTurn, UsbTyped, UsbStates, UsbRemembers, Unstopped, Outrun
  <2>4. QED
    BY <2>1, <2>2, <2>3 DEF UsbBase
<1>7. CASE ReadFails
  <2>1. CASE usb.failures < MaxReadFailures
    <3>1. usb' = [usb EXCEPT !.at = "loop", !.failures = usb.failures + 1]
      BY <1>7, <2>1, <1>2 DEF ReadFails, UsbTyped, UsbStates
    <3>2. usb.failures + 1 \in 0..MaxReadFailures
      BY <2>1, <1>2, <1>1 DEF UsbTyped, UsbStates
    <3>3. usb' \in UsbStates
      BY <3>1, <3>2, <1>2, <1>1 DEF UsbTyped, UsbStates
    <3>4. UsbTyped'
      BY <1>7, <2>1, <1>2, <3>3 DEF ReadFails, UsbTyped
    <3>5. OneDevice' /\ EndsSaid' /\ ReopeningMarked'
      BY <1>7, <2>1, <1>2, <3>1 DEF ReadFails, UsbTyped, UsbStates, OneDevice, EndsSaid, ReopeningMarked, UsbRemembers,
         Unstopped, Outrun
    <3>6. UsbRemembers' /\ Unstopped' /\ Outrun'
      BY <1>7, <2>1, <1>2, <3>1 DEF ReadFails, UsbTyped, UsbStates, UsbRemembers, Unstopped, Outrun
    <3>7. QED
      BY <3>4, <3>5, <3>6 DEF UsbBase
  <2>2. CASE ~(usb.failures < MaxReadFailures)
    <3>1. usb' = [usb EXCEPT !.at = "failing"]
      BY <1>7, <2>2, <1>2 DEF ReadFails, UsbTyped, UsbStates
    <3>2. usb' \in UsbStates
      BY <3>1, <1>2, <1>1 DEF UsbTyped, UsbStates
    <3>3. UsbTyped'
      BY <1>7, <2>2, <1>2, <3>2 DEF ReadFails, UsbTyped
    <3>4. OneDevice' /\ EndsSaid' /\ ReopeningMarked'
      BY <1>7, <2>2, <1>2, <3>1 DEF ReadFails, UsbTyped, UsbStates, OneDevice, EndsSaid, ReopeningMarked, UsbRemembers,
         Unstopped, Outrun
    <3>5. UsbRemembers' /\ Unstopped' /\ Outrun'
      BY <1>7, <2>2, <1>2, <3>1 DEF ReadFails, UsbTyped, UsbStates, UsbRemembers, Unstopped, Outrun
    <3>6. QED
      BY <3>3, <3>4, <3>5 DEF UsbBase
  <2>3. QED
    BY <2>1, <2>2
<1>8. CASE ReadSucceeds
  <2>1. UNCHANGED <<opened, closer>> /\ usb.at = "reading" /\ usb.using \in opened.devices
    BY <1>8 DEF ReadSucceeds
  <2>2. ASSUME usb' = [usb EXCEPT !.at = "loop", !.failures = 0], UNCHANGED picture
        PROVE  UsbBase'
    <3>1. usb' \in UsbStates
      BY <1>2, <1>1, <2>2 DEF UsbTyped, UsbStates
    <3>2. QED
      BY <1>2, <2>1, <2>2, <3>1 DEF UsbBase, UsbTyped, UsbStates, OneDevice, EndsSaid, ReopeningMarked,
         UsbRemembers, Unstopped, Outrun
  <2>3. ASSUME usb' = [usb EXCEPT !.at = "leaving", !.failures = 0, !.health = "FAILED"], UNCHANGED picture
        PROVE  UsbBase'
    <3>1. usb' \in UsbStates
      BY <1>2, <1>1, <2>3 DEF UsbTyped, UsbStates
    <3>2. QED
      BY <1>2, <2>1, <2>3, <3>1 DEF UsbBase, UsbTyped, UsbStates, OneDevice, EndsSaid, ReopeningMarked,
         UsbRemembers, Unstopped, Outrun
  <2>4. ASSUME usb' = [usb EXCEPT !.at = "yielded", !.failures = 0, !.pending = FALSE], NEW late \in BOOLEAN,
               picture' = [from |-> usb.using, marked |-> usb.pending \/ late, before |-> picture.from]
        PROVE  UsbBase'
    <3>1. usb' \in UsbStates
      BY <1>2, <1>1, <2>4 DEF UsbTyped, UsbStates
    <3>2. UsbRemembers' /\ Unstopped' /\ Outrun'
      BY <1>2, <2>1, <2>4 DEF UsbTyped, UsbStates, UsbRemembers, Unstopped, Outrun
    <3>3. UsbTyped' /\ OneDevice' /\ EndsSaid' /\ ReopeningMarked'
      BY <1>2, <2>1, <2>4, <3>1 DEF UsbTyped, UsbStates, OneDevice, EndsSaid, ReopeningMarked, UsbRemembers
    <3>4. QED
      BY <3>2, <3>3 DEF UsbBase
  <2>5. QED
    BY <1>8, <1>2, <2>2, <2>3, <2>4 DEF ReadSucceeds, UsbTyped, UsbStates
<1>9. CASE Reconnect
  <2>1. CASE Exhausted
    <3>1. usb' = [usb EXCEPT !.at = "leaving", !.health = "FAILED"]
      BY <1>9, <2>1, <1>2 DEF Reconnect, Exhausted, UsbTyped, UsbStates
    <3>2. usb' \in UsbStates
      BY <3>1, <1>2, <1>1 DEF UsbTyped, UsbStates
    <3>3. UsbTyped'
      BY <1>9, <2>1, <1>2, <3>2 DEF Reconnect, Exhausted, UsbTyped
    <3>4. OneDevice' /\ EndsSaid' /\ ReopeningMarked'
      BY <1>9, <2>1, <1>2, <3>1 DEF Reconnect, Exhausted, UsbTyped, UsbStates, OneDevice, EndsSaid, ReopeningMarked, UsbRemembers,
         Unstopped, Outrun
    <3>5. UsbRemembers' /\ Unstopped' /\ Outrun'
      BY <1>9, <2>1, <1>2, <3>1 DEF Reconnect, Exhausted, UsbTyped, UsbStates, UsbRemembers, Unstopped, Outrun
    <3>6. QED
      BY <3>3, <3>4, <3>5 DEF UsbBase
  <2>2. CASE ~Exhausted
    <3>1. usb' = [usb EXCEPT !.at = "freeing", !.used = usb.used + 1, !.health = "RECONNECTING"]
      BY <1>9, <2>2, <1>2 DEF Reconnect, Exhausted, UsbTyped, UsbStates
    <3>2. usb.used + 1 \in 0..MaxReopens
      BY <2>2, <1>2 DEF Exhausted, UsbTyped, UsbStates
    <3>3. usb' \in UsbStates
      BY <3>1, <3>2, <1>2, <1>1 DEF UsbTyped, UsbStates
    <3>4. UsbTyped'
      BY <1>9, <2>2, <1>2, <3>3 DEF Reconnect, Exhausted, UsbTyped
    <3>5. OneDevice' /\ EndsSaid' /\ ReopeningMarked'
      BY <1>9, <2>2, <1>2, <3>1 DEF Reconnect, Exhausted, UsbTyped, UsbStates, OneDevice, EndsSaid, ReopeningMarked, UsbRemembers,
         Unstopped, Outrun
    <3>6. UsbRemembers' /\ Unstopped' /\ Outrun'
      BY <1>9, <2>2, <1>2, <3>1 DEF Reconnect, Exhausted, UsbTyped, UsbStates, UsbRemembers, Unstopped, Outrun
    <3>7. QED
      BY <3>4, <3>5, <3>6 DEF UsbBase
  <2>3. QED
    BY <2>1, <2>2
<1>10. CASE Free
  <2>1. usb' = [usb EXCEPT !.at = "reopening", !.held = 0]
    BY <1>10, <1>2 DEF Free, Freed, UsbTyped, UsbStates
  <2>2. usb' \in UsbStates
    BY <2>1, <1>2, <1>1 DEF UsbTyped, UsbStates
  <2>3. UsbTyped'
    BY <1>10, <1>2, <2>2 DEF Free, Freed, UsbTyped
  <2>4. OneDevice' /\ EndsSaid' /\ ReopeningMarked'
    BY <1>10, <1>2, <2>1 DEF Free, Freed, UsbTyped, UsbStates, OneDevice, EndsSaid, ReopeningMarked, UsbRemembers,
       Unstopped, Outrun
  <2>5. UsbRemembers' /\ Unstopped' /\ Outrun'
    BY <1>10, <1>2, <2>1 DEF Free, Freed, UsbTyped, UsbStates, UsbRemembers, Unstopped, Outrun
  <2>6. QED
    BY <2>3, <2>4, <2>5 DEF UsbBase
<1>11. CASE Reopen
  <2>1. CASE UNCHANGED opened /\ Exhausted
    <3>1. usb' = [usb EXCEPT !.at = "leaving"]
      BY <1>11, <2>1, <1>2 DEF Reopen, Reopened, Opens, Exhausted, UsbTyped, UsbStates
    <3>2. usb' \in UsbStates
      BY <3>1, <1>2, <1>1 DEF UsbTyped, UsbStates
    <3>3. UsbTyped'
      BY <1>11, <2>1, <1>2, <3>2 DEF Reopen, Reopened, Opens, Exhausted, UsbTyped
    <3>4. OneDevice' /\ EndsSaid' /\ ReopeningMarked'
      BY <1>11, <2>1, <1>2, <3>1 DEF Reopen, Reopened, Opens, Exhausted, UsbTyped, UsbStates, OneDevice, EndsSaid, ReopeningMarked, UsbRemembers,
         Unstopped, Outrun
    <3>5. UsbRemembers' /\ Unstopped' /\ Outrun'
      BY <1>11, <2>1, <1>2, <3>1 DEF Reopen, Reopened, Opens, Exhausted, UsbTyped, UsbStates, UsbRemembers, Unstopped, Outrun
    <3>6. QED
      BY <3>3, <3>4, <3>5 DEF UsbBase
  <2>2. CASE UNCHANGED opened /\ ~Exhausted
    <3>1. usb' = [usb EXCEPT !.at = "loop", !.failures = 0, !.pending = TRUE, !.used = usb.used + 1]
      BY <1>11, <2>2, <1>2 DEF Reopen, Reopened, Opens, Exhausted, UsbTyped, UsbStates
    <3>2. usb.used + 1 \in 0..MaxReopens
      BY <2>2, <1>2 DEF Exhausted, UsbTyped, UsbStates
    <3>3. usb' \in UsbStates
      BY <3>1, <3>2, <1>2, <1>1 DEF UsbTyped, UsbStates
    <3>4. UsbTyped'
      BY <1>11, <2>2, <1>2, <3>3 DEF Reopen, Reopened, Opens, Exhausted, UsbTyped
    <3>5. OneDevice' /\ EndsSaid' /\ ReopeningMarked'
      BY <1>11, <2>2, <1>2, <3>1 DEF Reopen, Reopened, Opens, Exhausted, UsbTyped, UsbStates, OneDevice, EndsSaid, ReopeningMarked, UsbRemembers,
         Unstopped, Outrun
    <3>6. UsbRemembers' /\ Unstopped' /\ Outrun'
      BY <1>11, <2>2, <1>2, <3>1 DEF Reopen, Reopened, Opens, Exhausted, UsbTyped, UsbStates, UsbRemembers, Unstopped, Outrun
    <3>7. QED
      BY <3>4, <3>5, <3>6 DEF UsbBase
  <2>3. QED
    BY <1>11, <2>1, <2>2, OpensStep DEF Reopen
<1>12. CASE UsbLeave
  <2>1. UsbTyped'
    BY <1>12, <1>2 DEF UsbLeave, UsbTyped, UsbStates, OneDevice, UsbRemembers
  <2>2. OneDevice' /\ EndsSaid' /\ ReopeningMarked'
    BY <1>12, <1>2 DEF UsbLeave, UsbTyped, UsbStates, OneDevice, EndsSaid, ReopeningMarked, UsbRemembers, Unstopped, Outrun
  <2>3. UsbRemembers' /\ Unstopped' /\ Outrun'
    BY <1>12, <1>2 DEF UsbLeave, UsbTyped, UsbStates, UsbRemembers, Unstopped, Outrun
  <2>4. QED
    BY <2>1, <2>2, <2>3 DEF UsbBase
<1>13. CASE UsbClose
  <2>1. UsbTyped'
    BY <1>13, <1>2 DEF UsbClose, UsbTyped, UsbStates, OneDevice, UsbRemembers
  <2>2. OneDevice' /\ EndsSaid' /\ ReopeningMarked'
    BY <1>13, <1>2 DEF UsbClose, UsbTyped, UsbStates, OneDevice, EndsSaid, ReopeningMarked, UsbRemembers, Unstopped, Outrun
  <2>3. UsbRemembers' /\ Unstopped' /\ Outrun'
    BY <1>13, <1>2 DEF UsbClose, UsbTyped, UsbStates, UsbRemembers, Unstopped, Outrun
  <2>4. QED
    BY <2>1, <2>2, <2>3 DEF UsbBase
<1>14. CASE CloseSays
  <2>1. UsbTyped'
    BY <1>14, <1>2 DEF CloseSays, UsbTyped, UsbStates, OneDevice, UsbRemembers
  <2>2. OneDevice' /\ EndsSaid' /\ ReopeningMarked'
    BY <1>14, <1>2 DEF CloseSays, UsbTyped, UsbStates, OneDevice, EndsSaid, ReopeningMarked, UsbRemembers, Unstopped, Outrun
  <2>3. UsbRemembers' /\ Unstopped' /\ Outrun'
    BY <1>14, <1>2 DEF CloseSays, UsbTyped, UsbStates, UsbRemembers, Unstopped, Outrun
  <2>4. QED
    BY <2>1, <2>2, <2>3 DEF UsbBase
<1>15. CASE CloseReleases
  <2>1. UsbTyped'
    BY <1>15, <1>2 DEF CloseReleases, Freed, UsbTyped, UsbStates, OneDevice, UsbRemembers
  <2>2. OneDevice' /\ EndsSaid' /\ ReopeningMarked'
    BY <1>15, <1>2 DEF CloseReleases, Freed, UsbTyped, UsbStates, OneDevice, EndsSaid, ReopeningMarked, UsbRemembers, Unstopped, Outrun
  <2>3. UsbRemembers' /\ Unstopped' /\ Outrun'
    BY <1>15, <1>2 DEF CloseReleases, Freed, UsbTyped, UsbStates, UsbRemembers, Unstopped, Outrun
  <2>4. QED
    BY <2>1, <2>2, <2>3 DEF UsbBase
<1>16. CASE UNCHANGED usbVars
  BY <1>16, <1>2 DEF usbVars, UsbBase, UsbTyped, UsbStates, OneDevice, EndsSaid, ReopeningMarked,
     UsbRemembers, Unstopped, Outrun
<1>17. QED
  BY <1>3, <1>4, <1>5, <1>6, <1>7, <1>8, <1>9, <1>10, <1>11, <1>12, <1>13, <1>14, <1>15, <1>16
  DEF LocalCameraNext, UsbStep, UsbCloserStep

\* What close() left, before and after a step of the capture thread or of close().
LEMMA ReleaseKept == UsbIInv /\ [LocalCameraNext]_usbVars =>
                         released' \in [at : UsbPlaces, count : 0..MaxOpened] /\ DeviceReleased' /\ LateOpening'
<1> SUFFICES ASSUME UsbIInv, [LocalCameraNext]_usbVars
             PROVE  released' \in [at : UsbPlaces, count : 0..MaxOpened] /\ DeviceReleased' /\ LateOpening'
  OBVIOUS
<1>1. /\ usb \in UsbStates /\ released \in [at : UsbPlaces, count : 0..MaxOpened]
      /\ opened.count \in 0..MaxOpened /\ opened.count \in Nat /\ released.count \in Nat
      /\ opened.devices \subseteq {usb.held} \ {0} /\ opened.devices \subseteq 1..opened.count
      /\ usb.at \in {"new", "opening", "reopening"} => usb.held = 0
  BY LocalCameraAssumption DEF UsbIInv, UsbBase, UsbTyped, OneDevice, UsbRemembers
<1>2. DeviceReleased /\ LateOpening
  BY DEF UsbIInv
<1> USE DEF At, MayOpen, DeviceReleased, LateOpening
<1>3. CASE UsbStep /\ UNCHANGED opened
  <2>1. released' = released
    BY <1>3 DEF UsbStep
  <2>2. UNCHANGED closer
    BY <1>3 DEF UsbStep, UsbBegin, UsbOpen, UsbTurn, ReadFails, ReadSucceeds, UsbResume, Reconnect, Free, Reopen, UsbLeave
  <2>3. CASE UsbBegin
    BY <1>1, <1>2, <1>3, <2>1, <2>2, <2>3 DEF UsbBegin, UsbStates
  <2>4. CASE UsbOpen
    BY <1>1, <1>2, <1>3, <2>1, <2>2, <2>4 DEF UsbOpen, Opens, UsbStates
  <2>5. CASE UsbTurn
    BY <1>1, <1>2, <1>3, <2>1, <2>2, <2>5 DEF UsbTurn, UsbStates
  <2>6. CASE ReadFails
    BY <1>1, <1>2, <1>3, <2>1, <2>2, <2>6 DEF ReadFails, UsbStates
  <2>7. CASE ReadSucceeds
    BY <1>1, <1>2, <1>3, <2>1, <2>2, <2>7 DEF ReadSucceeds, UsbStates
  <2>8. CASE UsbResume
    BY <1>1, <1>2, <1>3, <2>1, <2>2, <2>8 DEF UsbResume, UsbStates
  <2>9. CASE Reconnect
    BY <1>1, <1>2, <1>3, <2>1, <2>2, <2>9 DEF Reconnect, UsbStates
  <2>10. CASE Free
    BY <1>1, <1>2, <1>3, <2>1, <2>2, <2>10 DEF Free, UsbStates
  <2>11. CASE Reopen
    BY <1>1, <1>2, <1>3, <2>1, <2>2, <2>11 DEF Reopen, Opens, Reopened, UsbStates
  <2>12. CASE UsbLeave
    BY <1>1, <1>2, <1>3, <2>1, <2>2, <2>12 DEF UsbLeave, UsbStates
  <2> QED
    BY <1>3, <2>3, <2>4, <2>5, <2>6, <2>7, <2>8, <2>9, <2>10, <2>11, <2>12 DEF UsbStep
<1>4. CASE UsbOpen /\ UNCHANGED released
  <2>1. UNCHANGED closer
    BY <1>4 DEF UsbOpen
  <2>2. CASE Opens(At("loop"))
    BY <1>1, <1>2, <1>4, <2>1, <2>2 DEF UsbOpen, Opens, UsbStates
  <2>3. CASE UNCHANGED opened
    BY <1>3, <1>4, <2>3 DEF UsbStep
  <2> QED
    BY <1>4, <2>2, <2>3 DEF UsbOpen
<1>5. CASE Reopen /\ UNCHANGED released
  <2>1. UNCHANGED closer
    BY <1>5 DEF Reopen
  <2>2. CASE Opens(Reopened)
    BY <1>1, <1>2, <1>5, <2>1, <2>2 DEF Reopen, Opens, Reopened, UsbStates
  <2>3. CASE UNCHANGED opened
    BY <1>3, <1>5, <2>3 DEF UsbStep
  <2> QED
    BY <1>5, <2>2, <2>3 DEF Reopen
<1>6. CASE Free /\ UNCHANGED released
  <2>1. opened' = [opened EXCEPT !.devices = opened.devices \ {usb.held}] /\ closer' = closer
    BY <1>6 DEF Free, Freed
  <2> QED
    BY <1>1, <1>2, <1>6, <2>1 DEF Free, UsbStates
<1>7. CASE UsbClose
  BY <1>1, <1>2, <1>7 DEF UsbClose, UsbStates
<1>8. CASE CloseReleases
  <2>1. /\ usb'.at = usb.at /\ usb'.held = 0 /\ usb'.stopping = usb.stopping /\ closer' = "saying"
        /\ released' = [at |-> usb.at, count |-> opened.count] /\ usb.at \in UsbPlaces
    BY <1>1, <1>8 DEF CloseReleases, UsbStates
  <2>2. opened' = [opened EXCEPT !.devices = opened.devices \ {usb.held}]
    BY <1>8 DEF CloseReleases, Freed
  <2>3. opened'.count = opened.count /\ opened'.devices = {}
    BY <1>1, <2>2
  <2> QED
    BY <1>1, <2>1, <2>3 DEF UsbPlaces
<1>9. CASE CloseSays
  BY <1>1, <1>2, <1>9 DEF CloseSays, UsbStates
<1>10. CASE UNCHANGED usbVars
  BY <1>1, <1>2, <1>10 DEF usbVars
<1>11. CASE UsbStep
  <2>1. UNCHANGED released /\ (UsbOpen \/ Reopen \/ Free \/ UNCHANGED opened)
    BY <1>11 DEF UsbStep, UsbBegin, UsbTurn, ReadFails, ReadSucceeds, UsbResume, Reconnect, UsbLeave
  <2> QED
    BY <1>3, <1>4, <1>5, <1>6, <1>11, <2>1
<1> QED
  BY <1>7, <1>8, <1>9, <1>10, <1>11 DEF LocalCameraNext, UsbCloserStep

LEMMA UsbStepKeeps == UsbIInv /\ [LocalCameraNext]_usbVars => UsbIInv'
  BY UsbBaseKept, ReleaseKept DEF UsbIInv

\* camera.py:282-398: for any budget and any number of openings and closings, the device is never open
\* twice, iteration says how it ended, and close() leaves no device that was open when it released: one
\* that is open after it was opened later, once, by a thread that had not begun to read, or was about to
\* open the device again.
THEOREM LocalCameraSafe == LocalCameraSpec => []LocalCameraInv
<1>1. UsbInit => UsbIInv
  BY UsbStart
<1>2. UsbIInv /\ [LocalCameraNext]_usbVars => UsbIInv'
  BY UsbStepKeeps
<1>3. UsbIInv => LocalCameraInv
  BY DEF UsbIInv, UsbBase, UsbTyped, UsbTypeOK, LocalCameraInv
<1>4. QED
  BY <1>1, <1>2, <1>3, PTL DEF LocalCameraSpec

-----------------------------------------------------------------------------
(* The preview *)

\* A request is for the feed that is not shown, a timer belongs to a page that is open, and frames are
\* numbered in the order they were drawn.
Asked == answer.step # "none" => page.open /\ page.loader # page.on
Timed == page.timer => page.open /\ ~page.stopped
Numbered ==
    /\ page.last <= renderer.frame /\ slot.frame <= renderer.frame /\ answer.frame <= renderer.frame
    /\ answer.step = "picture" /\ slot.frame # 0 => answer.frame <= slot.frame
PreviewIInv == LivePreviewInv /\ Asked /\ Timed /\ Numbered

LEMMA PreviewStart == PreviewInit => PreviewIInv
  BY LivePreviewAssumption
  DEF PreviewInit, PreviewIInv, LivePreviewInv, PreviewTypeOK, RendererStates, PageStates, OneFeed, OneRequest, Forward, Asked, Timed, Numbered,
      Empty, NoAnswer, Feeds, FailuresBeforePlaceholder

LEMMA PreviewStepKeeps == PreviewIInv /\ [LivePreviewNext]_previewVars => PreviewIInv'
<1> SUFFICES ASSUME PreviewIInv, [LivePreviewNext]_previewVars PROVE PreviewIInv'
  OBVIOUS
<1> USE LivePreviewAssumption DEF Feeds, FailuresBeforePlaceholder, NoAnswer, Empty
<1>1. PreviewTypeOK /\ OneFeed /\ OneRequest /\ Forward /\ Asked /\ Timed /\ Numbered
  BY DEF PreviewIInv, LivePreviewInv
<1>2. CASE Render
  <2>1. renderer.frame + 1 \in 0..MaxDrawn
    BY <1>1, <1>2 DEF Render, PreviewTypeOK, RendererStates
  <2>2. \/ renderer' = [renderer EXCEPT !.frame = renderer.frame + 1, !.at = "encoding"]
        \/ renderer' = [renderer EXCEPT !.frame = renderer.frame + 1]
    BY <1>1, <1>2 DEF Render, PreviewTypeOK, RendererStates
  <2>3. renderer' \in RendererStates /\ renderer'.frame = renderer.frame + 1
    BY <1>1, <2>1, <2>2 DEF PreviewTypeOK, RendererStates
  <2>4. QED
    BY <1>1, <1>2, <2>3 DEF Render, PreviewTypeOK, RendererStates, PageStates, PreviewIInv, LivePreviewInv,
       OneFeed, OneRequest, Forward, Asked, Timed, Numbered
<1>3. CASE Encoded
  <2>1. \/ renderer' = [renderer EXCEPT !.at = "between", !.since = 0]
        \/ renderer' = [renderer EXCEPT !.at = "between"]
    BY <1>1, <1>3 DEF Encoded, PreviewTypeOK, RendererStates
  <2>2. renderer' \in RendererStates /\ renderer'.frame = renderer.frame
    <3>1. 0 \in 0..Due
      OBVIOUS
    <3>2. QED
      BY <1>1, <2>1, <3>1 DEF PreviewTypeOK, RendererStates
  <2>3. \/ slot' = [frame |-> renderer.frame, age |-> 0]
        \/ slot' = slot
    BY <1>3 DEF Encoded, Publish
  <2>4. UNCHANGED <<server, page, answer>>
    BY <1>3 DEF Encoded
  <2>5. QED
    BY <1>1, <2>2, <2>3, <2>4 DEF PreviewTypeOK, RendererStates, PageStates, PreviewIInv, LivePreviewInv,
       OneFeed, OneRequest, Forward, Asked, Timed, Numbered
<1>4. CASE Clear
  BY <1>1, <1>4 DEF Clear, PreviewTypeOK, RendererStates, PageStates, PreviewIInv, LivePreviewInv,
     OneFeed, OneRequest, Forward, Asked, Timed, Numbered
<1>5. CASE TimePasses
  <2>1. renderer' \in RendererStates /\ renderer'.frame = renderer.frame
    BY <1>1, <1>5 DEF TimePasses, PreviewTypeOK, RendererStates
  <2>2. slot' \in [frame : 0..MaxDrawn, age : 0..MaxAge + 1] /\ slot'.frame = slot.frame
    BY <1>1, <1>5 DEF TimePasses, PreviewTypeOK
  <2>3. QED
    BY <1>1, <1>5, <2>1, <2>2 DEF TimePasses, PreviewTypeOK, RendererStates, PageStates, PreviewIInv, LivePreviewInv,
       OneFeed, OneRequest, Forward, Asked, Timed, Numbered
<1>6. CASE StartServer \/ StopServer \/ UNCHANGED previewVars
  BY <1>1, <1>6 DEF StartServer, StopServer, previewVars, PreviewTypeOK, RendererStates, PageStates, PreviewIInv, LivePreviewInv,
     OneFeed, OneRequest, Forward, Asked, Timed, Numbered
<1>7. CASE Open \/ TimerFires
  <2>1. Other \in Feeds /\ Other # page.on
    BY DEF Other
  <2>2. \/ /\ Open
           /\ page' = [page EXCEPT !.timer = FALSE, !.loader = Other, !.open = TRUE, !.fetching = TRUE]
        \/ TimerFires /\ page' = [page EXCEPT !.timer = FALSE, !.loader = Other]
    BY <1>1, <1>7 DEF Open, TimerFires, Pulling, PreviewTypeOK, PageStates
  <2>3. /\ page' \in PageStates /\ page'.loader # page'.on /\ ~page'.timer /\ page'.open
        /\ page'.on = page.on /\ page'.shown = page.shown /\ page'.last = page.last /\ page'.stopped = page.stopped
    BY <1>1, <2>1, <2>2 DEF PreviewTypeOK, PageStates, Open, TimerFires, Timed
  <2>4. answer' = [step |-> "sent", frame |-> 0] /\ UNCHANGED <<renderer, slot, server>>
    BY <1>7 DEF Open, TimerFires
  <2>5. QED
    BY <1>1, <2>3, <2>4 DEF PreviewTypeOK, RendererStates, PageStates, PreviewIInv, LivePreviewInv,
       OneFeed, OneRequest, Forward, Asked, Timed, Numbered
<1>8. CASE Serve
  BY <1>1, <1>8 DEF Serve, Latest, PreviewTypeOK, RendererStates, PageStates, PreviewIInv, LivePreviewInv,
     OneFeed, OneRequest, Forward, Asked, Timed, Numbered
<1>9. CASE Settle
  <2>1. UNCHANGED <<renderer, slot, server>> /\ answer' = NoAnswer /\ answer.step \in {"picture", "missing"}
    BY <1>9 DEF Settle
  <2>2. ASSUME NEW p \in PageStates, page' = Scheduled(p), p.open, p.shown = {p.on} \ {"none"}, p.stopped = page.stopped,
               p.timer = page.timer, p.last <= renderer.frame, slot.frame # 0 => p.last <= slot.frame
        PROVE  PreviewIInv'
    <3>1. /\ page' \in PageStates /\ page'.open /\ page'.shown = p.shown /\ page'.on = p.on /\ page'.stopped = p.stopped
          /\ page'.last = p.last /\ page'.timer = ~p.stopped
      BY <1>1, <2>1, <2>2 DEF Scheduled, PageStates, OneRequest, Timed
    <3>2. QED
      BY <1>1, <2>1, <2>2, <3>1 DEF PreviewTypeOK, RendererStates, PageStates, PreviewIInv, LivePreviewInv,
         OneFeed, OneRequest, Forward, Asked, Timed, Numbered
  <2>3. CASE answer.step = "picture"
    <3>1. PICK p : p = [page EXCEPT !.failures = 0, !.shown = (page.shown \ {page.on}) \cup {page.loader},
                                    !.on = page.loader, !.last = answer.frame]
      OBVIOUS
    <3>2. page' = Scheduled(p)
      BY <1>9, <2>3, <3>1 DEF Settle
    <3>3. /\ p \in PageStates /\ p.on = page.loader /\ p.stopped = page.stopped /\ p.timer = page.timer
          /\ p.last = answer.frame /\ p.shown = (page.shown \ {page.on}) \cup {page.loader} /\ p.open = page.open
      <4>1. /\ (page.shown \ {page.on}) \cup {page.loader} \in SUBSET Feeds /\ 0 \in 0..FailuresBeforePlaceholder
            /\ page.loader \in Feeds \cup {"none"} /\ answer.frame \in 0..MaxDrawn
        BY <1>1 DEF PreviewTypeOK, PageStates
      <4>2. QED
        BY <1>1, <3>1, <4>1 DEF PreviewTypeOK, PageStates
    <3>4. p.shown = {p.on} \ {"none"}
      BY <1>1, <3>3 DEF OneFeed, PreviewTypeOK, PageStates
    <3>5. QED
      BY <1>1, <2>1, <2>2, <2>3, <3>2, <3>3, <3>4 DEF Asked, Numbered
  <2>4. CASE answer.step = "missing"
    <3>1. PICK k \in 0..FailuresBeforePlaceholder :
              k = IF page.failures < FailuresBeforePlaceholder THEN page.failures + 1 ELSE page.failures
      BY <1>1 DEF PreviewTypeOK, PageStates
    <3>2. PICK f : f = [page EXCEPT !.failures = k, !.shown = page.shown \ {page.loader}]
      OBVIOUS
    <3>3. /\ f \in PageStates /\ f.on = page.on /\ f.stopped = page.stopped /\ f.timer = page.timer
          /\ f.last = page.last /\ f.shown = page.shown \ {page.loader} /\ f.open = page.open
      BY <1>1, <3>1, <3>2 DEF PreviewTypeOK, PageStates
    <3>4. f.shown = {f.on} \ {"none"}
      BY <1>1, <2>4, <3>3 DEF OneFeed, Asked
    <3>5. page' = Scheduled(f) \/ page' = Scheduled(Placeholder(f))
      BY <1>9, <2>4, <3>1, <3>2 DEF Settle
    <3>6. PICK h : h = Placeholder(f)
      OBVIOUS
    <3>7. /\ h \in PageStates /\ h.on = "none" /\ h.stopped = f.stopped /\ h.timer = f.timer
          /\ h.last = f.last /\ h.shown = {} /\ h.open = f.open
      BY <3>3, <3>6 DEF Placeholder, PageStates
    <3>8. page.open /\ page.last <= renderer.frame /\ (slot.frame # 0 => page.last <= slot.frame)
      BY <1>1, <2>4 DEF Asked, Numbered, Forward
    <3>9. CASE page' = Scheduled(f)
      BY <2>2, <3>3, <3>4, <3>8, <3>9
    <3>10. CASE page' = Scheduled(h)
      BY <2>2, <3>3, <3>7, <3>8, <3>10
    <3>11. QED
      BY <3>5, <3>6, <3>9, <3>10
  <2>5. QED
    BY <2>1, <2>3, <2>4
<1>10. CASE PullState
  <2>1. \/ page' = [page EXCEPT !.fetching = FALSE]
        \/ page' = [page EXCEPT !.on = "none", !.shown = {}, !.fetching = FALSE]
    BY <1>1, <1>10 DEF PullState, Placeholder, PreviewTypeOK, PageStates
  <2>2. /\ page' \in PageStates /\ page'.open = page.open /\ page'.stopped = page.stopped /\ page'.timer = page.timer
        /\ page'.last = page.last /\ page'.loader = page.loader /\ page'.on \in {page.on, "none"}
        /\ page'.shown = {page'.on} \ {"none"}
    <3>1. CASE page' = [page EXCEPT !.fetching = FALSE]
      BY <1>1, <3>1 DEF PreviewTypeOK, PageStates, OneFeed
    <3>2. CASE page' = [page EXCEPT !.on = "none", !.shown = {}, !.fetching = FALSE]
      <4>1. {} \in SUBSET Feeds
        OBVIOUS
      <4>2. page' \in PageStates
        BY <1>1, <3>2, <4>1 DEF PreviewTypeOK, PageStates
      <4>3. QED
        BY <1>1, <3>2, <4>2 DEF PreviewTypeOK, PageStates
    <3>3. QED
      BY <2>1, <3>1, <3>2
  <2>3. QED
    BY <1>1, <1>10, <2>2 DEF PullState, PreviewTypeOK, RendererStates, PageStates, PreviewIInv, LivePreviewInv,
       OneFeed, OneRequest, Forward, Asked, Timed, Numbered
<1>11. CASE StateTimer \/ Teardown
  <2>1. \/ /\ StateTimer /\ page' = [page EXCEPT !.fetching = TRUE]
        \/ /\ Teardown /\ page' = [page EXCEPT !.stopped = TRUE, !.timer = FALSE]
    BY <1>11 DEF StateTimer, Teardown
  <2>2. /\ page' \in PageStates /\ page'.open = page.open /\ page'.last = page.last /\ page'.loader = page.loader
        /\ page'.on = page.on /\ page'.shown = page.shown
        /\ \/ page'.stopped = page.stopped /\ page'.timer = page.timer
           \/ page'.stopped /\ ~page'.timer
    BY <1>1, <2>1 DEF PreviewTypeOK, PageStates
  <2>3. QED
    BY <1>1, <1>11, <2>2 DEF StateTimer, Teardown, PreviewTypeOK, RendererStates, PageStates, PreviewIInv, LivePreviewInv,
       OneFeed, OneRequest, Forward, Asked, Timed, Numbered
<1>12. QED
  BY <1>2, <1>3, <1>4, <1>5, <1>6, <1>7, <1>8, <1>9, <1>10, <1>11 DEF LivePreviewNext, PageStep

\* server.py:106-108, 227-229 and preview.py:9-24: for any number of frames and any pace, the page shows one
\* picture or the placeholder, has one request or one timer, and its pictures never go back in time.
THEOREM LivePreviewSafe == LivePreviewSpec => []LivePreviewInv
<1>1. PreviewInit => PreviewIInv
  BY PreviewStart
<1>2. PreviewIInv /\ [LivePreviewNext]_previewVars => PreviewIInv'
  BY PreviewStepKeeps
<1>3. PreviewIInv => LivePreviewInv
  BY DEF PreviewIInv
<1>4. QED
  BY <1>1, <1>2, <1>3, PTL DEF LivePreviewSpec

-----------------------------------------------------------------------------
(* The WebRTC backend *)

Messages == {"HELLO", "LACKING", "OFFER", "MEDIA", "bad", "FAILED", "EOS", "STOPPED"}
ChildStates ==
    [step : {"none", "starting", "ready", "offering", "live", "dead"}, up : Seq(Messages),
     down : SUBSET {"START", "ANSWER", "STOP"}, said : Nat]
BackendStates == [socket : {"none", "open", "shut"}, stopping : BOOLEAN, errors : 0..MaxErrors + 1]
Untouched ==
    starting \in {"new", "probing", "refused", "built"} =>
        backend.socket = "none" /\ child.step = "none" /\ listener = "none"
\* start() and stop() share the lock, and once stop() has had it no worker is started.
Locked ==
    /\ starting \in StartHolds => ~backend.stopping
    /\ backend.stopping <=> ending \notin {"no", "late", "locking"}
    /\ ending = "asked" => starting \in {"started", "thrown"}
\* The reader runs from the end of a start that succeeded, and reads while it bears the errors.
ReaderStands ==
    /\ listener # "none" <=> starting = "started"
    /\ starting = "started" => child.step # "none"
    /\ starting \in {"started", "thrown"} /\ ~backend.stopping => backend.socket = "open"
    /\ starting \in StartHolds \ {"reaping"} => backend.socket = "open"
    /\ listener = "reading" => backend.errors <= MaxErrors
    /\ listener = "none" => backend.errors = 0
    /\ heard.exited => listener = "ended"
\* What the reader found at the end, unless stop() has come or the errors were too many.
EndFound ==
    (listener = "saying" \/ heard.exited \/ (listener = "judging" /\ ~backend.stopping)) /\ backend.errors <= MaxErrors =>
        child.up = <<>> /\ child.step = "dead"
BackendIInv == WebRtcBackendInv /\ child \in ChildStates /\ Untouched /\ Locked /\ ReaderStands /\ EndFound

LEMMA BackendStart == BackendInit => BackendIInv
<1>1. ASSUME BackendInit PROVE child \in ChildStates
  BY <1>1, EmptySeq DEF BackendInit, ChildStates
<1>2. QED
  BY <1>1, WebRtcBackendAssumption
  DEF BackendInit, BackendIInv, WebRtcBackendInv, BackendTypeOK, NoWorkerRemains, EndReported, Untouched,
      Locked, ReaderStands, EndFound, Alive, LockFree, StartHolds, StopHolds

\* What the worker is sent and what is read of it leave its step alone.
LEMMA PostedKeeps ==
    ASSUME child \in ChildStates, NEW m \in {"START", "ANSWER", "STOP"}
    PROVE  Posted(m) \in ChildStates /\ Posted(m).step = child.step /\ Posted(m).up = child.up
BY DEF Posted, ChildStates
LEMMA TakenKeeps ==
    ASSUME NEW c \in ChildStates, c.up # <<>>
    PROVE  [c EXCEPT !.up = Tail(@)] \in ChildStates /\ [c EXCEPT !.up = Tail(@)].step = c.step
<1>1. Tail(c.up) \in Seq(Messages)
  BY HeadTailProperties DEF ChildStates
<1>2. QED
  BY <1>1 DEF ChildStates

\* The worker acts while it is alive, and never comes back.
LEMMA WorkerActs ==
    ASSUME child \in ChildStates, ChildStep
    PROVE  Alive /\ child' \in ChildStates /\ child'.step # "none" /\ ChildOnly
<1>1. ASSUME NEW step \in {"ready", "offering", "live", "dead"}, NEW messages \in Seq(Messages), SaysThen(step, messages)
      PROVE  child' \in ChildStates /\ child'.step # "none"
  <2>1. child.up \o messages \in Seq(Messages)
    BY <1>1, ConcatProperties DEF ChildStates
  <2>2. QED
    BY <1>1, <2>1 DEF SaysThen, ChildStates
<1>2. /\ <<>> \in Seq(Messages) /\ <<"HELLO">> \in Seq(Messages) /\ <<"LACKING">> \in Seq(Messages)
      /\ <<"OFFER">> \in Seq(Messages) /\ <<"FAILED">> \in Seq(Messages)
      /\ <<"LACKING", "FAILED">> \in Seq(Messages) /\ <<"HELLO", "FAILED">> \in Seq(Messages)
      /\ \A farewell \in Farewells : farewell \in Seq(Messages)
  BY DEF Messages, Farewells
<1>3. CASE Greets
  BY <1>1, <1>2, <1>3 DEF Greets, Alive
<1>4. CASE Begins
  BY <1>1, <1>2, <1>4 DEF Begins, Alive
<1>5. CASE Offers
  BY <1>1, <1>2, <1>5 DEF Offers, Alive
<1>6. CASE Measures
  <2>1. PICK message \in {"MEDIA", "bad"} :
            child' = [child EXCEPT !.up = IF backend.socket = "open" THEN Append(@, message) ELSE @, !.said = @ + 1]
    BY <1>6 DEF Measures
  <2>2. Append(child.up, message) \in Seq(Messages)
    BY AppendProperties DEF ChildStates, Messages
  <2>3. child' \in ChildStates /\ child'.step = child.step
    <3>1. child' = [child EXCEPT !.up = IF backend.socket = "open" THEN Append(child.up, message) ELSE child.up,
                                 !.said = child.said + 1]
      BY <2>1 DEF ChildStates
    <3>2. /\ (IF backend.socket = "open" THEN Append(child.up, message) ELSE child.up) \in Seq(Messages)
          /\ child.said + 1 \in Nat
      BY <2>2 DEF ChildStates
    <3>3. QED
      BY <3>1, <3>2 DEF ChildStates
  <2>4. QED
    BY <1>6, <2>3 DEF Measures, Alive
<1>7. CASE Ends
  BY <1>1, <1>2, <1>7 DEF Ends, Alive
<1>8. CASE Crashes
  BY <1>1, <1>2, <1>8 DEF Crashes
<1>9. QED
  BY <1>3, <1>4, <1>5, <1>6, <1>7, <1>8 DEF ChildStep

LEMMA BackendStepKeeps == BackendIInv /\ [WebRtcBackendNext]_backendVars => BackendIInv'
<1> SUFFICES ASSUME BackendIInv, [WebRtcBackendNext]_backendVars PROVE BackendIInv'
  OBVIOUS
<1> USE WebRtcBackendAssumption
<1>1. child \in ChildStates /\ backend \in BackendStates
  BY DEF BackendIInv, WebRtcBackendInv, BackendTypeOK, BackendStates
<1>2. CASE Probe \/ Probed
  BY <1>2
  DEF Probe, Probed, BackendIInv, WebRtcBackendInv, BackendTypeOK, NoWorkerRemains, EndReported,
      Untouched, Locked, ReaderStands, EndFound, Alive, LockFree, StartHolds, StopHolds
<1>3. CASE SpawnBackend
  <2>1. ASSUME child' = [child EXCEPT !.step = "starting"] PROVE child' \in ChildStates /\ child'.step = "starting"
    BY <1>1, <2>1 DEF ChildStates
  <2>2. ASSUME backend' = [backend EXCEPT !.socket = "open"]
        PROVE  backend' \in BackendStates /\ backend'.socket = "open" /\ backend'.stopping = backend.stopping /\ backend'.errors = backend.errors
    BY <1>1, <2>2 DEF BackendStates
  <2>3. QED
    <3>1. BackendTypeOK /\ NoWorkerRemains /\ EndReported /\ Untouched /\ Locked /\ ReaderStands /\ EndFound
      BY DEF BackendIInv, WebRtcBackendInv
    <3>2. BackendTypeOK' /\ child' \in ChildStates
      BY <1>3, <1>1, <2>1, <2>2, <3>1 DEF SpawnBackend, LockFree, BackendTypeOK, BackendStates, ChildStates, StartHolds, StopHolds
    <3>3. Untouched' /\ Locked'
      BY <1>3, <1>1, <2>1, <2>2, <3>1 DEF SpawnBackend, LockFree, BackendStates, Untouched, Locked, BackendTypeOK, StartHolds, StopHolds
    <3>4. ReaderStands'
      BY <1>3, <1>1, <2>1, <2>2, <3>1 DEF SpawnBackend, LockFree, BackendStates, ReaderStands, BackendTypeOK, Untouched, Locked, StartHolds, StopHolds
    <3>5. NoWorkerRemains'
      BY <1>3, <1>1, <2>1, <2>2, <3>1 DEF SpawnBackend, BackendStates, NoWorkerRemains, LockFree, Alive, ReaderStands, BackendTypeOK, Untouched, Locked, StartHolds, StopHolds
    <3>6. EndReported' /\ EndFound'
      BY <1>3, <1>1, <2>1, <2>2, <3>1 DEF SpawnBackend, LockFree, BackendStates, EndReported, EndFound, Alive, ReaderStands, Untouched, Locked, BackendTypeOK, StartHolds, StopHolds
    <3>7. QED
      BY <3>2, <3>3, <3>4, <3>5, <3>6 DEF BackendIInv, WebRtcBackendInv
<1>4. CASE AwaitHello
  <2>1. ASSUME Shut
        PROVE  backend' \in BackendStates /\ backend'.socket = "shut" /\ backend'.stopping = backend.stopping /\ backend'.errors = backend.errors
    BY <1>1, <2>1 DEF Shut, BackendStates
  <2>2. child' \in ChildStates /\ child'.step = child.step
    <3>1. child.up # <<>> => [Posted("START") EXCEPT !.up = Tail(@)] \in ChildStates
                             /\ [Posted("START") EXCEPT !.up = Tail(@)].step = child.step
      BY <1>1, PostedKeeps, TakenKeeps
    <3>2. [Posted("START") EXCEPT !.up = Tail(@)] = [Posted("START") EXCEPT !.up = Tail(child.up)]
      BY <1>1, PostedKeeps
    <3>3. child.up # <<>> => [child EXCEPT !.up = Tail(@)] \in ChildStates /\ [child EXCEPT !.up = Tail(@)].step = child.step
      BY <1>1, TakenKeeps
    <3>4. QED
      BY <1>4, <1>1, <3>1, <3>2, <3>3 DEF AwaitHello, Pending, Taken
  <2>3. \/ starting' = "offer" /\ UNCHANGED backend
        \/ starting' = "reaping" /\ Shut
    BY <1>4 DEF AwaitHello, Terminating
  <2>4. starting = "hello" /\ UNCHANGED <<ending, listener, heard>>
    BY <1>4 DEF AwaitHello
  <2>5. QED
    <3>1. BackendTypeOK /\ NoWorkerRemains /\ EndReported /\ Untouched /\ Locked /\ ReaderStands /\ EndFound
      BY DEF BackendIInv, WebRtcBackendInv
    <3>2. BackendTypeOK' /\ child' \in ChildStates
      BY <1>1, <2>1, <2>2, <2>3, <2>4, <3>1 DEF BackendTypeOK, BackendStates, ChildStates, StartHolds, StopHolds
    <3>3. Untouched' /\ Locked'
      BY <1>1, <2>1, <2>2, <2>3, <2>4, <3>1 DEF BackendStates, Untouched, Locked, BackendTypeOK, StartHolds, StopHolds
    <3>4. ReaderStands'
      BY <1>1, <2>1, <2>2, <2>3, <2>4, <3>1 DEF BackendStates, ReaderStands, BackendTypeOK, Untouched, Locked, StartHolds, StopHolds
    <3>5. NoWorkerRemains'
      BY <1>1, <2>1, <2>2, <2>3, <2>4, <3>1 DEF BackendStates, NoWorkerRemains, LockFree, Alive, ReaderStands, BackendTypeOK, Untouched, Locked, StartHolds, StopHolds
    <3>6. EndReported' /\ EndFound'
      BY <1>1, <2>1, <2>2, <2>3, <2>4, <3>1 DEF BackendStates, EndReported, EndFound, Alive, ReaderStands, Untouched, Locked, BackendTypeOK, StartHolds, StopHolds
    <3>7. QED
      BY <3>2, <3>3, <3>4, <3>5, <3>6 DEF BackendIInv, WebRtcBackendInv
<1>5. CASE AwaitOffer
  <2>1. ASSUME Shut
        PROVE  backend' \in BackendStates /\ backend'.socket = "shut" /\ backend'.stopping = backend.stopping /\ backend'.errors = backend.errors
    BY <1>1, <2>1 DEF Shut, BackendStates
  <2>2. child' \in ChildStates /\ child'.step = child.step
    <3>1. child.up # <<>> => [child EXCEPT !.up = Tail(@)] \in ChildStates /\ [child EXCEPT !.up = Tail(@)].step = child.step
      BY <1>1, TakenKeeps
    <3>2. QED
      BY <1>5, <1>1, <3>1 DEF AwaitOffer, Pending, Taken
  <2>3. \/ starting' \in {"offer", "exchanging"} /\ UNCHANGED backend
        \/ starting' = "reaping" /\ Shut
    BY <1>5 DEF AwaitOffer, Terminating
  <2>4. starting = "offer" /\ UNCHANGED <<ending, listener, heard>>
    BY <1>5 DEF AwaitOffer
  <2>5. QED
    <3>1. BackendTypeOK /\ NoWorkerRemains /\ EndReported /\ Untouched /\ Locked /\ ReaderStands /\ EndFound
      BY DEF BackendIInv, WebRtcBackendInv
    <3>2. BackendTypeOK' /\ child' \in ChildStates
      BY <1>1, <2>1, <2>2, <2>3, <2>4, <3>1 DEF BackendTypeOK, BackendStates, ChildStates, StartHolds, StopHolds
    <3>3. Untouched' /\ Locked'
      BY <1>1, <2>1, <2>2, <2>3, <2>4, <3>1 DEF BackendStates, Untouched, Locked, BackendTypeOK, StartHolds, StopHolds
    <3>4. ReaderStands'
      BY <1>1, <2>1, <2>2, <2>3, <2>4, <3>1 DEF BackendStates, ReaderStands, BackendTypeOK, Untouched, Locked, StartHolds, StopHolds
    <3>5. NoWorkerRemains'
      BY <1>1, <2>1, <2>2, <2>3, <2>4, <3>1 DEF BackendStates, NoWorkerRemains, LockFree, Alive, ReaderStands, BackendTypeOK, Untouched, Locked, StartHolds, StopHolds
    <3>6. EndReported' /\ EndFound'
      BY <1>1, <2>1, <2>2, <2>3, <2>4, <3>1 DEF BackendStates, EndReported, EndFound, Alive, ReaderStands, Untouched, Locked, BackendTypeOK, StartHolds, StopHolds
    <3>7. QED
      BY <3>2, <3>3, <3>4, <3>5, <3>6 DEF BackendIInv, WebRtcBackendInv
<1>6. CASE Exchange
  <2>1. ASSUME Shut
        PROVE  backend' \in BackendStates /\ backend'.socket = "shut" /\ backend'.stopping = backend.stopping /\ backend'.errors = backend.errors
    BY <1>1, <2>1 DEF Shut, BackendStates
  <2>2. QED
    <3>1. BackendTypeOK /\ NoWorkerRemains /\ EndReported /\ Untouched /\ Locked /\ ReaderStands /\ EndFound
      BY DEF BackendIInv, WebRtcBackendInv
    <3>2. BackendTypeOK' /\ child' \in ChildStates
      BY <1>6, <1>1, <2>1, <3>1 DEF Exchange, Terminating, BackendTypeOK, BackendStates, ChildStates, StartHolds, StopHolds
    <3>3. Untouched' /\ Locked'
      BY <1>6, <1>1, <2>1, <3>1 DEF Exchange, Terminating, BackendStates, Untouched, Locked, BackendTypeOK, StartHolds, StopHolds
    <3>4. ReaderStands'
      BY <1>6, <1>1, <2>1, <3>1 DEF Exchange, Terminating, BackendStates, ReaderStands, BackendTypeOK, Untouched, Locked, StartHolds, StopHolds
    <3>5. NoWorkerRemains'
      BY <1>6, <1>1, <2>1, <3>1 DEF Exchange, Terminating, BackendStates, NoWorkerRemains, LockFree, Alive, ReaderStands, BackendTypeOK, Untouched, Locked, StartHolds, StopHolds
    <3>6. EndReported' /\ EndFound'
      BY <1>6, <1>1, <2>1, <3>1 DEF Exchange, Terminating, BackendStates, EndReported, EndFound, Alive, ReaderStands, Untouched, Locked, BackendTypeOK, StartHolds, StopHolds
    <3>7. QED
      BY <3>2, <3>3, <3>4, <3>5, <3>6 DEF BackendIInv, WebRtcBackendInv
<1>7. CASE Answer
  <2>1. ASSUME Shut
        PROVE  backend' \in BackendStates /\ backend'.socket = "shut" /\ backend'.stopping = backend.stopping /\ backend'.errors = backend.errors
    BY <1>1, <2>1 DEF Shut, BackendStates
  <2>2. Posted("ANSWER") \in ChildStates /\ Posted("ANSWER").step = child.step
    BY <1>1, PostedKeeps
  <2>3. QED
    <3>1. BackendTypeOK /\ NoWorkerRemains /\ EndReported /\ Untouched /\ Locked /\ ReaderStands /\ EndFound
      BY DEF BackendIInv, WebRtcBackendInv
    <3>2. BackendTypeOK' /\ child' \in ChildStates
      BY <1>7, <1>1, <2>1, <2>2, <3>1 DEF Answer, Terminating, BackendTypeOK, BackendStates, ChildStates, StartHolds, StopHolds
    <3>3. Untouched' /\ Locked'
      BY <1>7, <1>1, <2>1, <2>2, <3>1 DEF Answer, Terminating, BackendStates, Untouched, Locked, BackendTypeOK, StartHolds, StopHolds
    <3>4. ReaderStands'
      BY <1>7, <1>1, <2>1, <2>2, <3>1 DEF Answer, Terminating, Alive, BackendStates, ReaderStands, BackendTypeOK, Untouched, Locked, StartHolds, StopHolds
    <3>5. NoWorkerRemains'
      BY <1>7, <1>1, <2>1, <2>2, <3>1 DEF Answer, Terminating, BackendStates, NoWorkerRemains, LockFree, Alive, ReaderStands, BackendTypeOK, Untouched, Locked, StartHolds, StopHolds
    <3>6. EndReported' /\ EndFound'
      BY <1>7, <1>1, <2>1, <2>2, <3>1 DEF Answer, Terminating, BackendStates, EndReported, EndFound, Alive, ReaderStands, Untouched, Locked, BackendTypeOK, StartHolds, StopHolds
    <3>7. QED
      BY <3>2, <3>3, <3>4, <3>5, <3>6 DEF BackendIInv, WebRtcBackendInv
<1>8. CASE ReapFailed
  <2>1. /\ child' \in ChildStates /\ child'.step \in {"none", "dead"} /\ child'.up = child.up
        /\ (child.step # "none" => child'.step = "dead") /\ (child.step = "none" => child'.step = "none")
    BY <1>8, <1>1 DEF ReapFailed, Reaped, ChildStates
  <2>2. backend' \in BackendStates /\ backend'.socket = "none" /\ backend'.stopping = backend.stopping /\ backend'.errors = backend.errors
    BY <1>8, <1>1 DEF ReapFailed, Reaped, BackendStates
  <2>3. QED
    <3>1. BackendTypeOK /\ NoWorkerRemains /\ EndReported /\ Untouched /\ Locked /\ ReaderStands /\ EndFound
      BY DEF BackendIInv, WebRtcBackendInv
    <3>2. BackendTypeOK' /\ child' \in ChildStates
      BY <1>8, <1>1, <2>1, <2>2, <3>1 DEF ReapFailed, BackendTypeOK, BackendStates, ChildStates, StartHolds, StopHolds
    <3>3. Untouched' /\ Locked'
      BY <1>8, <1>1, <2>1, <2>2, <3>1 DEF ReapFailed, BackendStates, Untouched, Locked, BackendTypeOK, StartHolds, StopHolds
    <3>4. ReaderStands'
      BY <1>8, <1>1, <2>1, <2>2, <3>1 DEF ReapFailed, BackendStates, ReaderStands, BackendTypeOK, Untouched, Locked, StartHolds, StopHolds
    <3>5. NoWorkerRemains'
      BY <1>8, <1>1, <2>1, <2>2, <3>1 DEF ReapFailed, BackendStates, NoWorkerRemains, LockFree, Alive, ReaderStands, BackendTypeOK, Untouched, Locked, StartHolds, StopHolds
    <3>6. EndReported' /\ EndFound'
      BY <1>8, <1>1, <2>1, <2>2, <3>1 DEF ReapFailed, BackendStates, EndReported, EndFound, Alive, ReaderStands, Untouched, Locked, BackendTypeOK, StartHolds, StopHolds
    <3>7. QED
      BY <3>2, <3>3, <3>4, <3>5, <3>6 DEF BackendIInv, WebRtcBackendInv
<1>9. CASE ReapStopped
  <2>1. /\ child' \in ChildStates /\ child'.step \in {"none", "dead"} /\ child'.up = child.up
        /\ (child.step # "none" => child'.step = "dead") /\ (child.step = "none" => child'.step = "none")
    BY <1>9, <1>1 DEF ReapStopped, Reaped, ChildStates
  <2>2. backend' \in BackendStates /\ backend'.socket = "none" /\ backend'.stopping = backend.stopping /\ backend'.errors = backend.errors
    BY <1>9, <1>1 DEF ReapStopped, Reaped, BackendStates
  <2>3. QED
    <3>1. BackendTypeOK /\ NoWorkerRemains /\ EndReported /\ Untouched /\ Locked /\ ReaderStands /\ EndFound
      BY DEF BackendIInv, WebRtcBackendInv
    <3>2. BackendTypeOK' /\ child' \in ChildStates
      BY <1>9, <1>1, <2>1, <2>2, <3>1 DEF ReapStopped, BackendTypeOK, BackendStates, ChildStates, StartHolds, StopHolds
    <3>3. Untouched' /\ Locked'
      BY <1>9, <1>1, <2>1, <2>2, <3>1 DEF ReapStopped, BackendStates, Untouched, Locked, BackendTypeOK, StartHolds, StopHolds
    <3>4. ReaderStands'
      BY <1>9, <1>1, <2>1, <2>2, <3>1 DEF ReapStopped, BackendStates, ReaderStands, BackendTypeOK, Untouched, Locked, StartHolds, StopHolds
    <3>5. NoWorkerRemains'
      BY <1>9, <1>1, <2>1, <2>2, <3>1 DEF ReapStopped, BackendStates, NoWorkerRemains, LockFree, Alive, ReaderStands, BackendTypeOK, Untouched, Locked, StartHolds, StopHolds
    <3>6. EndReported' /\ EndFound'
      BY <1>9, <1>1, <2>1, <2>2, <3>1 DEF ReapStopped, BackendStates, EndReported, EndFound, Alive, ReaderStands, Untouched, Locked, BackendTypeOK, StartHolds, StopHolds
    <3>7. QED
      BY <3>2, <3>3, <3>4, <3>5, <3>6 DEF BackendIInv, WebRtcBackendInv
<1>10. CASE Stop
  BY <1>10
  DEF Stop, Delegate, BackendIInv, WebRtcBackendInv, BackendTypeOK, NoWorkerRemains, EndReported,
      Untouched, Locked, ReaderStands, EndFound, Alive, LockFree, StartHolds, StopHolds
<1>11. CASE LockedStop
  <2>1. Posted("STOP") \in ChildStates /\ Posted("STOP").step = child.step /\ Posted("STOP").up = child.up
    BY <1>1, PostedKeeps
  <2>2. /\ child' \in ChildStates /\ child'.step = child.step /\ child'.up = child.up
        /\ ending = "locking" /\ ending' \in {"asked", "reaping"} /\ LockFree /\ UNCHANGED <<starting, listener, heard>>
        /\ ending' = "asked" => backend.socket = "open" /\ Alive
    BY <1>11, <1>1, <2>1 DEF LockedStop
  <2>3. /\ backend' \in BackendStates /\ backend'.stopping /\ backend'.errors = backend.errors
        /\ (backend.socket = "none" => backend'.socket = "none")
    <3>1. CASE backend' = [backend EXCEPT !.stopping = TRUE]
      BY <1>1, <3>1 DEF BackendStates
    <3>2. CASE backend' = [[backend EXCEPT !.stopping = TRUE] EXCEPT !.socket = IF @ = "open" THEN "shut" ELSE @]
      BY <1>1, <3>2 DEF BackendStates
    <3>3. QED
      BY <1>11, <3>1, <3>2 DEF LockedStop
  <2>4. QED
    <3>1. BackendTypeOK /\ NoWorkerRemains /\ EndReported /\ Untouched /\ Locked /\ ReaderStands /\ EndFound
      BY DEF BackendIInv, WebRtcBackendInv
    <3>2. BackendTypeOK' /\ child' \in ChildStates
      BY <1>1, <2>2, <2>3, <3>1 DEF LockFree, BackendTypeOK, BackendStates, ChildStates, StartHolds, StopHolds
    <3>3. Untouched' /\ Locked'
      BY <1>1, <2>2, <2>3, <3>1 DEF BackendStates, LockFree, Alive, Untouched, Locked, NoWorkerRemains, BackendTypeOK, StartHolds, StopHolds
    <3>4. ReaderStands'
      BY <1>1, <2>2, <2>3, <3>1 DEF BackendStates, LockFree, ReaderStands, BackendTypeOK, Untouched, Locked, StartHolds, StopHolds
    <3>5. NoWorkerRemains'
      BY <1>1, <2>2, <2>3, <3>1 DEF BackendStates, NoWorkerRemains, LockFree, Alive, ReaderStands, BackendTypeOK, Untouched, Locked, StartHolds, StopHolds
    <3>6. EndReported' /\ EndFound'
      BY <1>1, <2>2, <2>3, <3>1 DEF BackendStates, LockFree, EndReported, EndFound, Alive, ReaderStands, Untouched, Locked, BackendTypeOK, StartHolds, StopHolds
    <3>7. QED
      BY <3>2, <3>3, <3>4, <3>5, <3>6 DEF BackendIInv, WebRtcBackendInv
<1>12. CASE StopWaits
  <2>1. ASSUME Shut
        PROVE  backend' \in BackendStates /\ backend'.socket = "shut" /\ backend'.stopping = backend.stopping /\ backend'.errors = backend.errors
    BY <1>1, <2>1 DEF Shut, BackendStates
  <2>2. child' \in ChildStates /\ child'.step = "dead" /\ child'.up = child.up
    BY <1>12, <1>1 DEF StopWaits, ChildStates
  <2>3. QED
    <3>1. BackendTypeOK /\ NoWorkerRemains /\ EndReported /\ Untouched /\ Locked /\ ReaderStands /\ EndFound
      BY DEF BackendIInv, WebRtcBackendInv
    <3>2. BackendTypeOK' /\ child' \in ChildStates
      BY <1>12, <1>1, <2>1, <2>2, <3>1 DEF StopWaits, BackendTypeOK, BackendStates, ChildStates, StartHolds, StopHolds
    <3>3. Untouched' /\ Locked'
      BY <1>12, <1>1, <2>1, <2>2, <3>1 DEF StopWaits, BackendStates, Untouched, Locked, BackendTypeOK, StartHolds, StopHolds
    <3>4. ReaderStands'
      BY <1>12, <1>1, <2>1, <2>2, <3>1 DEF StopWaits, BackendStates, ReaderStands, BackendTypeOK, Untouched, Locked, StartHolds, StopHolds
    <3>5. NoWorkerRemains'
      BY <1>12, <1>1, <2>1, <2>2, <3>1 DEF StopWaits, BackendStates, NoWorkerRemains, LockFree, Alive, ReaderStands, BackendTypeOK, Untouched, Locked, StartHolds, StopHolds
    <3>6. EndReported' /\ EndFound'
      BY <1>12, <1>1, <2>1, <2>2, <3>1 DEF StopWaits, BackendStates, EndReported, EndFound, Alive, ReaderStands, Untouched, Locked, BackendTypeOK, StartHolds, StopHolds
    <3>7. QED
      BY <3>2, <3>3, <3>4, <3>5, <3>6 DEF BackendIInv, WebRtcBackendInv
<1>13. CASE Join
  BY <1>13
  DEF Join, BackendIInv, WebRtcBackendInv, BackendTypeOK, NoWorkerRemains, EndReported,
      Untouched, Locked, ReaderStands, EndFound, Alive, LockFree, StartHolds, StopHolds
<1>14. CASE Listen
  <2>1. child.up # <<>> => [child EXCEPT !.up = Tail(@)] \in ChildStates /\ [child EXCEPT !.up = Tail(@)].step = child.step
    BY <1>1, TakenKeeps
  <2>2. CASE Pending /\ Said # "bad" /\ Taken /\ UNCHANGED <<backend, listener>>
    <3>1. child' \in ChildStates /\ child'.step = child.step
      BY <2>1, <2>2 DEF Pending, Taken
    <3>2. heard' \in [ended : BOOLEAN, exited : BOOLEAN] /\ heard'.exited = heard.exited
      BY <1>14, <2>2 DEF Listen, BackendIInv, WebRtcBackendInv, BackendTypeOK
    <3>3. QED
      <4>1. BackendTypeOK /\ NoWorkerRemains /\ EndReported /\ Untouched /\ Locked /\ ReaderStands /\ EndFound
        BY DEF BackendIInv, WebRtcBackendInv
      <4>2. BackendTypeOK' /\ child' \in ChildStates
        BY <1>14, <2>2, <3>1, <3>2, <4>1 DEF Listen, BackendTypeOK, BackendStates, ChildStates, StartHolds, StopHolds
      <4>3. Untouched' /\ Locked'
        BY <1>14, <2>2, <3>1, <3>2, <4>1 DEF Listen, Untouched, Locked, BackendTypeOK, StartHolds, StopHolds
      <4>4. ReaderStands'
        BY <1>14, <2>2, <3>1, <3>2, <4>1 DEF Listen, ReaderStands, BackendTypeOK, Untouched, Locked, StartHolds, StopHolds
      <4>5. NoWorkerRemains'
        BY <1>14, <2>2, <3>1, <3>2, <4>1 DEF Listen, NoWorkerRemains, LockFree, Alive, ReaderStands, BackendTypeOK, Untouched, Locked, StartHolds, StopHolds
      <4>6. EndReported' /\ EndFound'
        BY <1>14, <2>2, <3>1, <3>2, <4>1 DEF Listen, EndReported, EndFound, Alive, ReaderStands, Untouched, Locked, BackendTypeOK, StartHolds, StopHolds
      <4>7. QED
        BY <4>2, <4>3, <4>4, <4>5, <4>6 DEF BackendIInv, WebRtcBackendInv
  <2>3. CASE Pending /\ Said = "bad" /\ Taken
    <3>1. child' \in ChildStates /\ child'.step = child.step
      BY <2>1, <2>3 DEF Pending, Taken
    <3>2. backend.errors + 1 \in 0..MaxErrors + 1
      BY <1>14, <1>1 DEF Listen, BackendIInv, ReaderStands, BackendStates
    <3>3. backend' = [backend EXCEPT !.errors = backend.errors + 1]
      BY <1>14, <2>3, <1>1 DEF Listen, BackendStates
    <3>4. backend' \in BackendStates /\ backend'.socket = backend.socket /\ backend'.stopping = backend.stopping
          /\ backend'.errors = backend.errors + 1
      BY <1>1, <3>2, <3>3 DEF BackendStates
    <3>5. heard' \in [ended : BOOLEAN, exited : BOOLEAN] /\ heard'.exited = heard.exited
      BY <1>14, <2>3 DEF Listen, BackendIInv, WebRtcBackendInv, BackendTypeOK
    <3>6. \/ backend.errors = MaxErrors /\ listener' = "judging"
          \/ backend.errors # MaxErrors /\ listener' = listener
      BY <1>14, <2>3 DEF Listen
    <3>7. listener = "reading" /\ UNCHANGED <<starting, ending>>
      BY <1>14 DEF Listen
    <3>8. QED
      <4>1. BackendTypeOK /\ NoWorkerRemains /\ EndReported /\ Untouched /\ Locked /\ ReaderStands /\ EndFound
        BY DEF BackendIInv, WebRtcBackendInv
      <4>2. BackendTypeOK' /\ child' \in ChildStates
        BY <1>1, <3>1, <3>4, <3>5, <3>6, <3>7, <4>1 DEF BackendTypeOK, BackendStates, ChildStates, StartHolds, StopHolds
      <4>3. Untouched' /\ Locked'
        BY <1>1, <3>1, <3>4, <3>5, <3>6, <3>7, <4>1 DEF BackendStates, Untouched, Locked, BackendTypeOK, StartHolds, StopHolds
      <4>4. ReaderStands'
        BY <1>1, <3>1, <3>4, <3>5, <3>6, <3>7, <4>1 DEF BackendStates, ReaderStands, BackendTypeOK, Untouched, Locked, StartHolds, StopHolds
      <4>5. NoWorkerRemains'
        BY <1>1, <3>1, <3>4, <3>5, <3>6, <3>7, <4>1 DEF BackendStates, NoWorkerRemains, LockFree, Alive, ReaderStands, BackendTypeOK, Untouched, Locked, StartHolds, StopHolds
      <4>6. EndReported' /\ EndFound'
        BY <1>1, <3>1, <3>4, <3>5, <3>6, <3>7, <4>1 DEF BackendStates, EndReported, EndFound, Alive, ReaderStands, Untouched, Locked, BackendTypeOK, StartHolds, StopHolds
      <4>7. QED
        BY <4>2, <4>3, <4>4, <4>5, <4>6 DEF BackendIInv, WebRtcBackendInv
  <2>4. CASE ~Pending /\ (~Alive \/ backend.socket # "open") /\ listener' = "judging" /\ UNCHANGED <<backend, child, heard>>
    BY <1>14, <2>4
    DEF Listen, Pending, BackendIInv, WebRtcBackendInv, BackendTypeOK, NoWorkerRemains, EndReported,
        Untouched, Locked, ReaderStands, EndFound, Alive, LockFree, StartHolds, StopHolds
  <2>5. QED
    BY <1>14, <2>2, <2>3, <2>4 DEF Listen
<1>15. CASE Judge
  BY <1>15
  DEF Judge, BackendIInv, WebRtcBackendInv, BackendTypeOK, NoWorkerRemains, EndReported,
      Untouched, Locked, ReaderStands, EndFound, Alive, LockFree, StartHolds, StopHolds
<1>16. CASE SayExited
  <2>1. heard' \in [ended : BOOLEAN, exited : BOOLEAN] /\ heard'.exited
    BY <1>16 DEF SayExited, BackendIInv, WebRtcBackendInv, BackendTypeOK
  <2>2. QED
    <3>1. BackendTypeOK /\ NoWorkerRemains /\ EndReported /\ Untouched /\ Locked /\ ReaderStands /\ EndFound
      BY DEF BackendIInv, WebRtcBackendInv
    <3>2. BackendTypeOK' /\ child' \in ChildStates
      BY <1>16, <1>1, <2>1, <3>1 DEF SayExited, BackendTypeOK, BackendStates, ChildStates, StartHolds, StopHolds
    <3>3. Untouched' /\ Locked'
      BY <1>16, <2>1, <3>1 DEF SayExited, Untouched, Locked, BackendTypeOK, StartHolds, StopHolds
    <3>4. ReaderStands'
      BY <1>16, <2>1, <3>1 DEF SayExited, ReaderStands, BackendTypeOK, Untouched, Locked, StartHolds, StopHolds
    <3>5. NoWorkerRemains'
      BY <1>16, <2>1, <3>1 DEF SayExited, NoWorkerRemains, LockFree, Alive, ReaderStands, BackendTypeOK, Untouched, Locked, StartHolds, StopHolds
    <3>6. EndReported' /\ EndFound'
      BY <1>16, <2>1, <3>1 DEF SayExited, EndReported, EndFound, Alive, ReaderStands, Untouched, Locked, BackendTypeOK, StartHolds, StopHolds
    <3>7. QED
      BY <3>2, <3>3, <3>4, <3>5, <3>6 DEF BackendIInv, WebRtcBackendInv
<1>17. CASE ChildStep
  <2>1. Alive /\ child' \in ChildStates /\ child'.step # "none" /\ UNCHANGED <<starting, ending, backend, listener, heard>>
    BY <1>17, <1>1, WorkerActs DEF ChildOnly
  <2>2. /\ child'.step \in {"none", "starting", "ready", "offering", "live", "dead"}
        /\ child'.down \subseteq {"START", "ANSWER", "STOP"}
    BY <2>1 DEF ChildStates
  <2>3. QED
    <3>1. BackendTypeOK /\ NoWorkerRemains /\ EndReported /\ Untouched /\ Locked /\ ReaderStands /\ EndFound
      BY DEF BackendIInv, WebRtcBackendInv
    <3>2. BackendTypeOK' /\ child' \in ChildStates
      BY <1>1, <2>1, <2>2, <3>1 DEF BackendTypeOK, BackendStates, ChildStates, StartHolds, StopHolds
    <3>3. Untouched' /\ Locked'
      BY <1>1, <2>1, <2>2, <3>1 DEF BackendStates, Alive, Untouched, Locked, BackendTypeOK, StartHolds, StopHolds
    <3>4. ReaderStands'
      BY <1>1, <2>1, <2>2, <3>1 DEF BackendStates, ReaderStands, BackendTypeOK, Untouched, Locked, StartHolds, StopHolds
    <3>5. NoWorkerRemains'
      BY <1>1, <2>1, <2>2, <3>1 DEF BackendStates, NoWorkerRemains, LockFree, Alive, ReaderStands, BackendTypeOK, Untouched, Locked, StartHolds, StopHolds
    <3>6. EndReported' /\ EndFound'
      BY <1>1, <2>1, <2>2, <3>1 DEF BackendStates, EndReported, EndFound, Alive, ReaderStands, Untouched, Locked, BackendTypeOK, StartHolds, StopHolds
    <3>7. QED
      BY <3>2, <3>3, <3>4, <3>5, <3>6 DEF BackendIInv, WebRtcBackendInv
<1>18. CASE UNCHANGED backendVars
  BY <1>18
  DEF backendVars, BackendIInv, WebRtcBackendInv, BackendTypeOK, NoWorkerRemains, EndReported,
      Untouched, Locked, ReaderStands, EndFound, Alive, LockFree, StartHolds, StopHolds
<1>19. QED
  BY <1>2, <1>3, <1>4, <1>5, <1>6, <1>7, <1>8, <1>9, <1>10, <1>11, <1>12, <1>13, <1>14, <1>15, <1>16, <1>17, <1>18
  DEF WebRtcBackendNext, StarterStep, StopperStep, ListenerStep

\* webrtc_backend.py:176-428: for any number of messages and errors borne, in whatever order start() and stop()
\* take the lock, no worker process remains after a stop that came back, nor after a start that one of its
\* handlers ended; a start whose answer was too long leaves its worker to the stop() that follows.  A session
\* nobody stopped never just goes quiet.
THEOREM WebRtcBackendSafe == WebRtcBackendSpec => []WebRtcBackendInv
<1>1. BackendInit => BackendIInv
  BY BackendStart
<1>2. BackendIInv /\ [WebRtcBackendNext]_backendVars => BackendIInv'
  BY BackendStepKeeps
<1>3. BackendIInv => WebRtcBackendInv
  BY DEF BackendIInv
<1>4. QED
  BY <1>1, <1>2, <1>3, PTL DEF WebRtcBackendSpec

-----------------------------------------------------------------------------
(* Messages counted *)

Positions(s, kinds) == {i \in 1..Len(s) : s[i] \in kinds}
LEMMA PositionsFinite ==
    ASSUME NEW S, NEW s \in Seq(S), NEW kinds
    PROVE  IsFiniteSet(Positions(s, kinds)) /\ Number(s, kinds) \in Nat
<1>1. IsFiniteSet(1..Len(s))
  BY FS_Interval, LenProperties
<1>2. IsFiniteSet(Positions(s, kinds))
  BY <1>1, FS_Subset DEF Positions
<1>3. QED
  BY <1>2, FS_CardinalityType DEF Number, Positions

LEMMA NumberEmpty == ASSUME NEW kinds PROVE Number(<<>>, kinds) = 0
<1>1. {i \in 1..Len(<<>>) : <<>>[i] \in kinds} = {}
  OBVIOUS
<1>2. QED
  BY <1>1, FS_EmptySet DEF Number

LEMMA NumberAppend ==
    ASSUME NEW S, NEW s \in Seq(S), NEW e \in S, NEW kinds
    PROVE  Number(Append(s, e), kinds) = Number(s, kinds) + (IF e \in kinds THEN 1 ELSE 0)
<1> DEFINE t == Append(s, e)
           P == Positions(s, kinds)
<1>1. t \in Seq(S) /\ Len(t) = Len(s) + 1 /\ (\A i \in 1..Len(s) : t[i] = s[i]) /\ t[Len(s) + 1] = e /\ Len(s) \in Nat
  BY AppendProperties, LenProperties
<1>2. IsFiniteSet(P)
  BY PositionsFinite
<1>3. Len(s) + 1 \notin P
  BY <1>1 DEF Positions
<1>4. Number(t, kinds) = Cardinality(Positions(t, kinds)) /\ Number(s, kinds) = Cardinality(P)
  BY DEF Number, Positions
<1>5. CASE e \in kinds
  <2>1. Positions(t, kinds) = P \cup {Len(s) + 1}
    BY <1>1, <1>5 DEF Positions
  <2>2. QED
    BY <1>2, <1>3, <1>4, <1>5, <2>1, FS_AddElement
<1>6. CASE e \notin kinds
  <2>1. Positions(t, kinds) = P
    BY <1>1, <1>6 DEF Positions
  <2>2. QED
    BY <1>4, <1>6, <2>1, PositionsFinite
<1>7. QED
  BY <1>5, <1>6

LEMMA NumberTail ==
    ASSUME NEW S, NEW s \in Seq(S), s # <<>>, NEW kinds
    PROVE  Number(s, kinds) = Number(Tail(s), kinds) + (IF Head(s) \in kinds THEN 1 ELSE 0)
<1> DEFINE t == Tail(s)
           P == Positions(t, kinds)
           Q == Positions(s, kinds) \ {1}
<1>1. t \in Seq(S) /\ Len(t) = Len(s) - 1 /\ (\A i \in 1..Len(t) : t[i] = s[i + 1]) /\ Len(t) \in Nat /\ Len(s) \in Nat \ {0}
  BY HeadTailProperties, LenProperties, EmptySeq
<1>2. Head(s) = s[1]
  OBVIOUS
<1>3. IsFiniteSet(P) /\ IsFiniteSet(Positions(s, kinds)) /\ IsFiniteSet(Q)
  BY <1>1, PositionsFinite, FS_Subset
<1>4. Cardinality(P) = Cardinality(Q)
  <2> DEFINE f == [i \in P |-> i + 1]
  <2>1. f \in [P -> Q]
    BY <1>1 DEF Positions
  <2>2. \A a, b \in P : f[a] = f[b] => a = b
    BY DEF Positions
  <2>3. \A q \in Q : \E i \in P : f[i] = q
    <3>1. SUFFICES ASSUME NEW q \in Q PROVE \E i \in P : f[i] = q
      OBVIOUS
    <3>2. q \in 2..Len(s) /\ s[q] \in kinds
      BY <1>1 DEF Positions
    <3>3. q - 1 \in 1..Len(t) /\ t[q - 1] = s[q]
      BY <1>1, <3>2
    <3>4. q - 1 \in P
      BY <3>2, <3>3 DEF Positions
    <3>5. f[q - 1] = q
      BY <3>2, <3>4
    <3>6. QED
      BY <3>4, <3>5
  <2>4. f \in Bijection(P, Q)
    BY <2>1, <2>2, <2>3 DEF Bijection, Injection, Surjection, IsInjective
  <2>5. QED
    BY <1>3, <2>4, FS_Bijection DEF ExistsBijection
<1>5. Number(t, kinds) = Cardinality(P) /\ Number(s, kinds) = Cardinality(Positions(s, kinds)) /\ Number(t, kinds) \in Nat
  BY <1>1, PositionsFinite DEF Number, Positions
<1>6. CASE Head(s) \in kinds
  <2>1. 1 \in Positions(s, kinds)
    BY <1>1, <1>2, <1>6 DEF Positions
  <2>2. Cardinality(Q) = Cardinality(Positions(s, kinds)) - 1
    BY <1>3, <2>1, FS_RemoveElement
  <2>3. QED
    BY <1>3, <1>4, <1>5, <1>6, <2>2, FS_CardinalityType
<1>7. CASE Head(s) \notin kinds
  <2>1. Q = Positions(s, kinds)
    BY <1>2, <1>7 DEF Positions
  <2>2. Cardinality(Q) = Number(s, kinds)
    BY <1>5, <2>1
  <2>3. Number(s, kinds) = Number(t, kinds)
    BY <1>4, <1>5, <2>2
  <2> HIDE DEF t, P, Q
  <2>4. QED
    BY <1>5, <1>7, <2>3 DEF t
<1>8. QED
  BY <1>6, <1>7

-----------------------------------------------------------------------------
(* A worker and what is on its way to and from it *)

WorkerSteps == {"none", "starting", "hello", "gathering", "offered", "live", "gone"}
Upward == {"HELLO", "UNUSABLE", "REFUSED", "BROKEN", "STOPPED", "OFFER", "EOS", "FIRST", "FRAME"}
Downward == {"START", "ANSWER", "ACK", "STOP"}
WorkerStates ==
    [step : WorkerSteps, up : Seq(Upward), down : Seq(Downward), flight : Nat,
     sending : BOOLEAN, fresh : BOOLEAN, sent : Nat]
\* Frames are counted while the worker runs; a START is the first message it takes, and comes once.
Counted(w) ==
    Unacknowledged(w) <= w.flight + (IF w.sending THEN 1 ELSE 0) /\ Unacknowledged(w) <= MaxInFlight
Starts(w) == \A i \in 1..Len(w.down) : w.down[i] = "START" => i = 1 /\ w.step \in {"hello", "gone"}
SoundWorker(w) ==
    /\ w \in WorkerStates /\ Starts(w)
    /\ w.step = "none" => w = NoWorker
    /\ w.step = "starting" => w.up = <<>>
    /\ w.sending => w.step = "live"
    /\ w.step \notin {"none", "gone"} => Counted(w)

LEMMA NumbersTyped ==
    ASSUME NEW w \in WorkerStates
    PROVE  /\ Number(w.up, {"FIRST", "FRAME"}) \in Nat /\ Number(w.down, {"ACK"}) \in Nat
           /\ Unacknowledged(w) = Number(w.up, {"FIRST", "FRAME"}) + Number(w.down, {"ACK"})
<1>1. w.up \in Seq(Upward) /\ w.down \in Seq(Downward)
  BY DEF WorkerStates
<1>2. QED
  BY <1>1, PositionsFinite DEF Unacknowledged

LEMMA NothingSound == SoundWorker(NoWorker) /\ SoundWorker(Dead) /\ SoundWorker([NoWorker EXCEPT !.step = "starting"])
<1>1. /\ NoWorker \in WorkerStates /\ Dead \in WorkerStates /\ [NoWorker EXCEPT !.step = "starting"] \in WorkerStates
      /\ NoWorker.step = "none" /\ Dead.step = "gone" /\ [NoWorker EXCEPT !.step = "starting"].step = "starting"
      /\ NoWorker.down = <<>> /\ Dead.down = <<>> /\ [NoWorker EXCEPT !.step = "starting"].down = <<>>
      /\ ~NoWorker.sending /\ ~Dead.sending /\ ~[NoWorker EXCEPT !.step = "starting"].sending
      /\ [NoWorker EXCEPT !.step = "starting"].up = <<>> /\ [NoWorker EXCEPT !.step = "starting"].flight = 0
  BY EmptySeq DEF NoWorker, Dead, WorkerStates, WorkerSteps
<1>2. Counted([NoWorker EXCEPT !.step = "starting"])
  BY <1>1, NumberEmpty DEF Counted, Unacknowledged, MaxInFlight
<1>3. QED
  BY <1>1, <1>2 DEF SoundWorker, Starts

\* The parent reads a message, and acknowledges a frame.
LEMMA ReadSound ==
    ASSUME NEW w, SoundWorker(w), w.up # <<>>,
           NEW v, v = [w EXCEPT !.up = Tail(w.up)]
    PROVE  SoundWorker(v) /\ v.step = w.step /\ v.down = w.down
<1>1. w \in WorkerStates /\ Tail(w.up) \in Seq(Upward) /\ w.up \in Seq(Upward)
  BY HeadTailProperties DEF SoundWorker, WorkerStates
<1>2. /\ v \in WorkerStates /\ v.step = w.step /\ v.down = w.down /\ v.flight = w.flight /\ v.sending = w.sending
      /\ v.up = Tail(w.up)
  BY <1>1 DEF WorkerStates
<1>3. w.step \notin {"none", "starting"}
  BY DEF SoundWorker, NoWorker
<1>4. Number(w.up, {"FIRST", "FRAME"}) = Number(v.up, {"FIRST", "FRAME"}) + (IF Head(w.up) \in {"FIRST", "FRAME"} THEN 1 ELSE 0)
  BY <1>1, <1>2, NumberTail
<1>5. w.step # "gone" => Counted(v)
  <2>1. ASSUME w.step # "gone" PROVE Counted(w)
    BY <2>1, <1>3 DEF SoundWorker
  <2>2. Unacknowledged(v) \in Nat /\ Unacknowledged(w) \in Nat /\ Unacknowledged(v) <= Unacknowledged(w)
    <3>1. /\ Number(w.up, {"FIRST", "FRAME"}) \in Nat /\ Number(w.down, {"ACK"}) \in Nat
          /\ Unacknowledged(w) = Number(w.up, {"FIRST", "FRAME"}) + Number(w.down, {"ACK"})
      BY <1>1, NumbersTyped
    <3>2. /\ Number(v.up, {"FIRST", "FRAME"}) \in Nat /\ Number(v.down, {"ACK"}) \in Nat
          /\ Unacknowledged(v) = Number(v.up, {"FIRST", "FRAME"}) + Number(v.down, {"ACK"})
      BY <1>2, NumbersTyped
    <3>3. QED
      BY <1>1, <1>2, <1>4, <3>1, <3>2
  <2>3. w.flight \in Nat /\ v.flight = w.flight /\ v.sending = w.sending
    BY <1>1, <1>2 DEF WorkerStates
  <2>4. QED
    BY <2>1, <2>2, <2>3 DEF Counted, MaxInFlight
<1>6. QED
  BY <1>2, <1>3, <1>5 DEF SoundWorker, Starts

LEMMA AcknowledgedSound ==
    ASSUME NEW w, SoundWorker(w), w.up # <<>>, Head(w.up) \in {"FIRST", "FRAME"},
           NEW v, v = [w EXCEPT !.up = Tail(w.up), !.down = IF w.step = "gone" THEN w.down ELSE Append(w.down, "ACK")]
    PROVE  SoundWorker(v) /\ v.step = w.step
<1>1. w \in WorkerStates /\ Tail(w.up) \in Seq(Upward) /\ w.up \in Seq(Upward) /\ w.down \in Seq(Downward)
      /\ Append(w.down, "ACK") \in Seq(Downward)
  BY HeadTailProperties, AppendProperties DEF SoundWorker, WorkerStates, Downward
<1>2. /\ v \in WorkerStates /\ v.step = w.step /\ v.flight = w.flight /\ v.sending = w.sending /\ v.up = Tail(w.up)
      /\ v.down = IF w.step = "gone" THEN w.down ELSE Append(w.down, "ACK")
  BY <1>1 DEF WorkerStates
<1>3. w.step \notin {"none", "starting"}
  BY DEF SoundWorker, NoWorker
<1>4. Number(w.up, {"FIRST", "FRAME"}) = Number(v.up, {"FIRST", "FRAME"}) + 1
  BY <1>1, <1>2, NumberTail
<1>5. w.step # "gone" => Number(v.down, {"ACK"}) = Number(w.down, {"ACK"}) + 1
  BY <1>1, <1>2, NumberAppend DEF Downward
<1>6. w.step # "gone" => Counted(v)
  <2>1. ASSUME w.step # "gone" PROVE Counted(w)
    BY <2>1, <1>3 DEF SoundWorker
  <2>2. w.step # "gone" => Unacknowledged(v) = Unacknowledged(w)
    <3>1. /\ Number(w.up, {"FIRST", "FRAME"}) \in Nat /\ Number(w.down, {"ACK"}) \in Nat
          /\ Unacknowledged(w) = Number(w.up, {"FIRST", "FRAME"}) + Number(w.down, {"ACK"})
      BY <1>1, NumbersTyped
    <3>2. /\ Number(v.up, {"FIRST", "FRAME"}) \in Nat /\ Number(v.down, {"ACK"}) \in Nat
          /\ Unacknowledged(v) = Number(v.up, {"FIRST", "FRAME"}) + Number(v.down, {"ACK"})
      BY <1>2, NumbersTyped
    <3>3. QED
      BY <1>1, <1>2, <1>4, <1>5, <3>1, <3>2
  <2>3. QED
    BY <1>2, <2>1, <2>2 DEF Counted
<1>7. Starts(v)
  BY <1>1, <1>2, AppendProperties, LenProperties DEF SoundWorker, Starts
<1>8. QED
  BY <1>2, <1>3, <1>6, <1>7 DEF SoundWorker

\* The parent sends a message that is not an acknowledgement, START only as the first.
LEMMA SentSound ==
    ASSUME NEW w, SoundWorker(w), w.step # "none", NEW m \in {"START", "ANSWER", "STOP"},
           m = "START" => w.down = <<>> /\ w.step \in {"hello", "gone"},
           NEW v, v = [w EXCEPT !.down = Append(w.down, m)]
    PROVE  SoundWorker(v) /\ v.step = w.step /\ v.up = w.up /\ v.down = Append(w.down, m)
<1>1. w \in WorkerStates /\ w.down \in Seq(Downward) /\ m \in Downward /\ Append(w.down, m) \in Seq(Downward)
  BY AppendProperties DEF SoundWorker, WorkerStates, Downward
<1>2. /\ v \in WorkerStates /\ v.step = w.step /\ v.flight = w.flight /\ v.sending = w.sending /\ v.up = w.up
      /\ v.down = Append(w.down, m)
  BY <1>1 DEF WorkerStates
<1>3. Number(v.down, {"ACK"}) = Number(w.down, {"ACK"})
  BY <1>1, <1>2, NumberAppend, NumbersTyped
<1>4. w.step # "gone" => Counted(v)
  BY <1>1, <1>2, <1>3, NumbersTyped DEF SoundWorker, Counted
<1>5. Starts(v)
  BY <1>1, <1>2, AppendProperties, LenProperties DEF SoundWorker, Starts
<1>6. QED
  BY <1>2, <1>4, <1>5 DEF SoundWorker

\* What the worker does to its own record: it ends, says something that is no frame, takes a message.
LEMMA EndedSound ==
    ASSUME NEW w, SoundWorker(w), NEW last \in Seq(Upward),
           NEW v, v = [w EXCEPT !.step = "gone", !.sending = FALSE, !.down = <<>>, !.up = w.up \o last]
    PROVE  SoundWorker(v) /\ v.step = "gone" /\ v.down = <<>>
<1>1. w \in WorkerStates /\ w.up \o last \in Seq(Upward) /\ <<>> \in Seq(Downward) /\ "gone" \in WorkerSteps
  BY ConcatProperties, EmptySeq DEF SoundWorker, WorkerStates, WorkerSteps
<1>2. v \in WorkerStates /\ v.step = "gone" /\ v.down = <<>> /\ ~v.sending
  BY <1>1 DEF WorkerStates
<1>3. QED
  BY <1>2 DEF SoundWorker, Starts

LEMMA SaidSound ==
    ASSUME NEW w, SoundWorker(w), w.step \in {"starting", "gathering"}, NEW m \in {"HELLO", "OFFER"},
           NEW s \in {"hello", "offered"},
           NEW v, v = [w EXCEPT !.step = s, !.up = Append(w.up, m)]
    PROVE  SoundWorker(v) /\ v.step = s /\ v.down = w.down
<1>1. w \in WorkerStates /\ w.up \in Seq(Upward) /\ m \in Upward /\ Append(w.up, m) \in Seq(Upward) /\ s \in WorkerSteps
  BY AppendProperties DEF SoundWorker, WorkerStates, WorkerSteps, Upward
<1>2. /\ v \in WorkerStates /\ v.step = s /\ v.down = w.down /\ v.flight = w.flight /\ v.sending = w.sending
      /\ v.up = Append(w.up, m)
  BY <1>1 DEF WorkerStates
<1>3. Number(v.up, {"FIRST", "FRAME"}) = Number(w.up, {"FIRST", "FRAME"})
  <2>1. Number(w.up, {"FIRST", "FRAME"}) \in Nat /\ m \notin {"FIRST", "FRAME"}
    BY <1>1, NumbersTyped
  <2>2. QED
    BY <1>1, <1>2, <2>1, NumberAppend
<1>4. Unacknowledged(v) = Unacknowledged(w)
  BY <1>2, <1>3 DEF Unacknowledged
<1>5. Counted(v)
  BY <1>2, <1>4 DEF SoundWorker, Counted
<1>6. QED
  BY <1>2, <1>5 DEF SoundWorker, Starts

LEMMA TakenSound ==
    ASSUME NEW w, SoundWorker(w), w.down # <<>>, Head(w.down) # "ACK",
           w.step \in {"hello", "gathering", "offered", "live"}, NEW s \in {"gathering", "live"},
           w.step = "live" => s = "live",
           NEW v, v = [w EXCEPT !.step = s, !.down = Tail(w.down)]
    PROVE  SoundWorker(v) /\ v.step = s
<1>1. w \in WorkerStates /\ w.down \in Seq(Downward) /\ Tail(w.down) \in Seq(Downward) /\ s \in WorkerSteps
  BY HeadTailProperties DEF SoundWorker, WorkerStates, WorkerSteps
<1>2. /\ v \in WorkerStates /\ v.step = s /\ v.up = w.up /\ v.flight = w.flight /\ v.sending = w.sending
      /\ v.down = Tail(w.down)
  BY <1>1 DEF WorkerStates
<1>3. Number(w.down, {"ACK"}) = Number(v.down, {"ACK"})
  <2>1. Number(v.down, {"ACK"}) \in Nat
    BY <1>2, NumbersTyped
  <2>2. QED
    BY <1>1, <1>2, <2>1, NumberTail
<1>4. Unacknowledged(v) = Unacknowledged(w)
  BY <1>2, <1>3 DEF Unacknowledged
<1>5. Counted(v)
  BY <1>2, <1>4 DEF SoundWorker, Counted
<1>6. Starts(v)
  <2>1. Len(Tail(w.down)) = Len(w.down) - 1 /\ (\A i \in 1..Len(Tail(w.down)) : Tail(w.down)[i] = w.down[i + 1])
    BY <1>1, HeadTailProperties
  <2>2. Len(w.down) \in Nat
    BY <1>1, LenProperties
  <2>3. \A i \in 1..Len(Tail(w.down)) : w.down[i + 1] # "START"
    BY <2>1, <2>2 DEF SoundWorker, Starts
  <2>4. QED
    BY <1>2, <2>1, <2>3 DEF Starts
<1>7. QED
  BY <1>2, <1>5, <1>6 DEF SoundWorker

LEMMA AckSound ==
    ASSUME NEW w, SoundWorker(w), w.down # <<>>, Head(w.down) = "ACK", w.step \in {"gathering", "offered", "live"},
           NEW v, v = [w EXCEPT !.down = Tail(w.down), !.flight = IF w.flight = 0 THEN 0 ELSE w.flight - 1]
    PROVE  SoundWorker(v) /\ v.step = w.step
<1>1. w \in WorkerStates /\ w.down \in Seq(Downward) /\ Tail(w.down) \in Seq(Downward) /\ w.flight \in Nat
      /\ (IF w.flight = 0 THEN 0 ELSE w.flight - 1) \in Nat
  BY HeadTailProperties DEF SoundWorker, WorkerStates
<1>2. /\ v \in WorkerStates /\ v.step = w.step /\ v.up = w.up /\ v.sending = w.sending
      /\ v.flight = (IF w.flight = 0 THEN 0 ELSE w.flight - 1) /\ v.down = Tail(w.down)
  BY <1>1 DEF WorkerStates
<1>3. Number(w.down, {"ACK"}) = Number(v.down, {"ACK"}) + 1
  BY <1>1, <1>2, NumberTail
<1>4. Unacknowledged(w) = Unacknowledged(v) + 1 /\ Unacknowledged(v) \in Nat
  <2>1. /\ Number(w.up, {"FIRST", "FRAME"}) \in Nat
        /\ Unacknowledged(w) = Number(w.up, {"FIRST", "FRAME"}) + Number(w.down, {"ACK"})
    BY <1>1, NumbersTyped
  <2>2. /\ Number(v.down, {"ACK"}) \in Nat
        /\ Unacknowledged(v) = Number(v.up, {"FIRST", "FRAME"}) + Number(v.down, {"ACK"})
    BY <1>2, NumbersTyped
  <2>3. QED
    BY <1>2, <1>3, <2>1, <2>2
<1>5. Counted(v)
  BY <1>1, <1>2, <1>4 DEF SoundWorker, Counted, MaxInFlight
<1>6. Starts(v)
  <2>1. Len(Tail(w.down)) = Len(w.down) - 1 /\ (\A i \in 1..Len(Tail(w.down)) : Tail(w.down)[i] = w.down[i + 1])
    BY <1>1, HeadTailProperties
  <2>2. Len(w.down) \in Nat
    BY <1>1, LenProperties
  <2>3. \A i \in 1..Len(Tail(w.down)) : w.down[i + 1] # "START"
    BY <2>1, <2>2 DEF SoundWorker, Starts
  <2>4. QED
    BY <1>2, <2>1, <2>3 DEF Starts
<1>7. QED
  BY <1>2, <1>5, <1>6 DEF SoundWorker

LEMMA FrameSound ==
    ASSUME NEW w, SoundWorker(w), w.step = "live", ~w.sending, w.flight < MaxInFlight, NEW m \in {"FIRST", "FRAME"},
           NEW v, v = [w EXCEPT !.up = Append(w.up, m), !.fresh = FALSE, !.sending = TRUE, !.sent = w.sent + 1]
    PROVE  SoundWorker(v) /\ v.step = "live"
<1>1. w \in WorkerStates /\ w.up \in Seq(Upward) /\ m \in Upward /\ Append(w.up, m) \in Seq(Upward) /\ w.sent + 1 \in Nat
      /\ w.flight \in Nat
  BY AppendProperties DEF SoundWorker, WorkerStates, Upward
<1>2. /\ v \in WorkerStates /\ v.step = w.step /\ v.down = w.down /\ v.flight = w.flight /\ v.sending
      /\ v.up = Append(w.up, m)
  BY <1>1 DEF WorkerStates
<1>3. Number(v.up, {"FIRST", "FRAME"}) = Number(w.up, {"FIRST", "FRAME"}) + 1
  BY <1>1, <1>2, NumberAppend
<1>4. Unacknowledged(v) = Unacknowledged(w) + 1 /\ Unacknowledged(w) \in Nat
  <2>1. /\ Number(w.up, {"FIRST", "FRAME"}) \in Nat /\ Number(w.down, {"ACK"}) \in Nat
        /\ Unacknowledged(w) = Number(w.up, {"FIRST", "FRAME"}) + Number(w.down, {"ACK"})
    BY <1>1, NumbersTyped
  <2>2. Unacknowledged(v) = Number(v.up, {"FIRST", "FRAME"}) + Number(v.down, {"ACK"})
    BY <1>2, NumbersTyped
  <2>3. QED
    BY <1>2, <1>3, <2>1, <2>2
<1>5. Counted(v)
  BY <1>1, <1>2, <1>4 DEF SoundWorker, Counted, MaxInFlight
<1>6. QED
  BY <1>2, <1>5 DEF SoundWorker, Starts

LEMMA CountSound ==
    ASSUME NEW w, SoundWorker(w), w.sending,
           NEW v, v = [w EXCEPT !.sending = FALSE, !.flight = w.flight + 1]
    PROVE  SoundWorker(v) /\ v.step = "live"
<1>1. w \in WorkerStates /\ w.flight \in Nat /\ w.flight + 1 \in Nat /\ w.step = "live"
  BY DEF SoundWorker, WorkerStates
<1>2. /\ v \in WorkerStates /\ v.step = w.step /\ v.up = w.up /\ v.down = w.down /\ v.flight = w.flight + 1 /\ ~v.sending
  BY <1>1 DEF WorkerStates
<1>3. Unacknowledged(v) = Unacknowledged(w)
  BY <1>2 DEF Unacknowledged
<1>4. Counted(v)
  BY <1>1, <1>2, <1>3 DEF SoundWorker, Counted
<1>5. QED
  BY <1>1, <1>2, <1>4 DEF SoundWorker, Starts

\* One step of the worker of session g.  Until START is there it answers with its greeting or ends.
Waiting(w) == w.step \in {"starting", "hello"}
Turned(w, v) ==
    /\ SoundWorker(v) /\ v.step \notin {"none", "starting"}
    /\ Waiting(w) /\ w.down = <<>> => v.step \in {"hello", "gone"} /\ v.down = <<>>
    /\ Waiting(w) /\ w.down = <<"STOP">> => v.step \in {"hello", "gone"} /\ v.down \in {<<>>, <<"STOP">>}
WorkerTurns(g) ==
    \/ Greet(g) \/ TakeStart(g) \/ SendOffer(g) \/ Command(g) \/ WorkerEnds(g) \/ PadRefused(g)
    \/ SendFrame(g) \/ CountFrame(g)
LEMMA WorkerTurned ==
    ASSUME NEW g \in Generations, SoundWorker(worker[g]), WorkerTurns(g)
    PROVE  Running(g) /\ \E v : worker' = [worker EXCEPT ![g] = v] /\ Turned(worker[g], v)
<1>1. PICK w : w = worker[g]
  OBVIOUS
<1>2. SoundWorker(w) /\ w \in WorkerStates
  BY <1>1 DEF SoundWorker
<1> DEFINE Goal == \E v : worker' = [worker EXCEPT ![g] = v] /\ Turned(w, v)
<1>3. \A v : worker' = [worker EXCEPT ![g] = v] /\ Turned(w, v) => Goal
  OBVIOUS
<1>4. Running(g)
  BY <1>1, <1>2 DEF WorkerTurns, Greet, TakeStart, SendOffer, Command, WorkerEnds, PadRefused, SendFrame, CountFrame,
     Running, SoundWorker
<1>5. SUFFICES Goal
  BY <1>1, <1>4
<1> HIDE DEF Goal
\* A worker that ends is at its end whatever it had been sent.
<1>6. ASSUME NEW last \in Seq(Upward), Ending(g, last) PROVE Goal
  <2>1. PICK v : v = [w EXCEPT !.step = "gone", !.sending = FALSE, !.down = <<>>, !.up = w.up \o last]
    OBVIOUS
  <2>2. worker' = [worker EXCEPT ![g] = v]
    BY <1>1, <1>6, <2>1 DEF Ending
  <2>3. SoundWorker(v) /\ v.step = "gone" /\ v.down = <<>>
    BY <1>2, <2>1, EndedSound
  <2>4. QED
    BY <1>3, <2>2, <2>3 DEF Turned
<1>7. /\ <<>> \in Seq(Upward) /\ <<"REFUSED">> \in Seq(Upward) /\ <<"BROKEN">> \in Seq(Upward) /\ <<"STOPPED">> \in Seq(Upward)
      /\ <<"REFUSED", "STOPPED">> \in Seq(Upward) /\ <<"BROKEN", "STOPPED">> \in Seq(Upward) /\ <<"EOS", "STOPPED">> \in Seq(Upward)
  BY DEF Upward
<1>8. CASE Greet(g)
  <2>1. w.step = "starting"
    BY <1>1, <1>8 DEF Greet
  <2>2. CASE Says(g, "hello", <<"HELLO">>)
    <3>1. PICK v : v = [w EXCEPT !.step = "hello", !.up = Append(w.up, "HELLO")]
      OBVIOUS
    <3>2. w.up \o <<"HELLO">> = Append(w.up, "HELLO")
      BY <1>2 DEF WorkerStates
    <3>3. worker' = [worker EXCEPT ![g] = v]
      BY <1>1, <2>2, <3>1, <3>2 DEF Says
    <3>4. SoundWorker(v) /\ v.step = "hello" /\ v.down = w.down
      <4>1. SoundWorker(v) /\ v.step = "hello"
        BY <1>2, <2>1, <3>1, SaidSound
      <4>2. v.down = w.down
        BY <1>2, <3>1 DEF WorkerStates
      <4>3. QED
        BY <4>1, <4>2
    <3>5. Turned(w, v)
      BY <2>1, <3>4 DEF Turned, Waiting
    <3>6. QED
      BY <1>3, <3>3, <3>5
  <2>3. CASE Says(g, "gone", <<"UNUSABLE", "REFUSED">>)
    <3>1. PICK v : v = [w EXCEPT !.step = "gone", !.up = w.up \o <<"UNUSABLE", "REFUSED">>]
      OBVIOUS
    <3>2. worker' = [worker EXCEPT ![g] = v]
      BY <1>1, <2>3, <3>1 DEF Says
    <3>3. w.up \o <<"UNUSABLE", "REFUSED">> \in Seq(Upward) /\ "gone" \in WorkerSteps
      BY <1>2, ConcatProperties DEF Upward, WorkerStates, WorkerSteps
    <3>4. v \in WorkerStates /\ v.step = "gone" /\ v.down = w.down /\ v.sending = w.sending
      BY <1>2, <3>1, <3>3 DEF WorkerStates
    <3>5. SoundWorker(v)
      BY <1>2, <2>1, <3>4 DEF SoundWorker, Starts
    <3>6. Turned(w, v)
      BY <2>1, <3>4, <3>5 DEF Turned, Waiting
    <3>7. QED
      BY <1>3, <3>2, <3>6
  <2>4. QED
    BY <1>8, <2>2, <2>3 DEF Greet
<1>9. CASE TakeStart(g)
  <2>1. w.step = "hello" /\ w.down # <<>> /\ Running(g)
    BY <1>1, <1>9 DEF TakeStart, Running
  <2>2. CASE Head(w.down) = "START" /\ worker' = [worker EXCEPT ![g].step = "gathering", ![g].down = Tail(@)]
    <3>1. PICK v : v = [w EXCEPT !.step = "gathering", !.down = Tail(w.down)]
      OBVIOUS
    <3>2. worker' = [worker EXCEPT ![g] = v]
      BY <1>1, <2>2, <3>1
    <3>3. SoundWorker(v) /\ v.step = "gathering"
      BY <1>2, <2>1, <2>2, <3>1, TakenSound
    <3>4. w.down # <<"STOP">>
      BY <2>2
    <3>5. Turned(w, v)
      BY <2>1, <3>3, <3>4 DEF Turned
    <3>6. QED
      BY <1>3, <3>2, <3>5
  <2>3. CASE \E last \in {"REFUSED", "BROKEN"} : Ending(g, <<last>>)
    BY <1>6, <1>7, <2>3
  <2>4. QED
    BY <1>1, <1>9, <2>2, <2>3 DEF TakeStart
<1>10. CASE SendOffer(g)
  <2>1. w.step = "gathering" /\ Running(g) /\ Says(g, "offered", <<"OFFER">>)
    BY <1>1, <1>10 DEF SendOffer, Running
  <2>2. PICK v : v = [w EXCEPT !.step = "offered", !.up = Append(w.up, "OFFER")]
    OBVIOUS
  <2>3. w.up \o <<"OFFER">> = Append(w.up, "OFFER")
    BY <1>2 DEF WorkerStates
  <2>4. worker' = [worker EXCEPT ![g] = v]
    BY <1>1, <2>1, <2>2, <2>3 DEF Says
  <2>5. SoundWorker(v) /\ v.step = "offered"
    BY <1>2, <1>7, <2>1, <2>2, SaidSound
  <2>6. Turned(w, v)
    BY <2>1, <2>5 DEF Turned, Waiting
  <2>7. QED
    BY <1>3, <2>4, <2>6
<1>11. CASE Command(g)
  <2>1. w.step \in {"gathering", "offered", "live"} /\ w.down # <<>> /\ Running(g) /\ ~Waiting(w)
    BY <1>1, <1>11 DEF Command, Running, Waiting
  <2>2. Head(w.down) \in Downward /\ Head(w.down) # "START"
    <3>1. w.down \in Seq(Downward) /\ Head(w.down) = w.down[1] /\ 1 \in 1..Len(w.down)
      BY <1>2, <2>1, EmptySeq, LenProperties DEF WorkerStates
    <3>2. QED
      BY <1>2, <2>1, <3>1, HeadTailProperties DEF SoundWorker, Starts
  <2>3. CASE Head(w.down) = "ANSWER"
    <3>1. CASE worker' = [worker EXCEPT ![g].step = "live", ![g].down = Tail(@)]
      <4>1. PICK v : v = [w EXCEPT !.step = "live", !.down = Tail(w.down)]
        OBVIOUS
      <4>2. worker' = [worker EXCEPT ![g] = v]
        BY <1>1, <3>1, <4>1
      <4>3. SoundWorker(v) /\ v.step = "live"
        BY <1>2, <2>1, <2>3, <4>1, TakenSound
      <4>4. Turned(w, v)
        BY <2>1, <4>3 DEF Turned
      <4>5. QED
        BY <1>3, <4>2, <4>4
    <3>2. CASE Ending(g, <<"BROKEN", "STOPPED">>)
      BY <1>6, <1>7, <3>2
    <3>3. QED
      BY <1>1, <1>11, <2>3, <3>1, <3>2 DEF Command
  <2>4. CASE Head(w.down) = "ACK"
    <3>1. PICK v : v = [w EXCEPT !.down = Tail(w.down), !.flight = IF w.flight = 0 THEN 0 ELSE w.flight - 1]
      OBVIOUS
    <3>2. worker' = [worker EXCEPT ![g] = v]
      BY <1>1, <1>11, <2>4, <3>1 DEF Command
    <3>3. SoundWorker(v) /\ v.step = w.step
      BY <1>2, <2>1, <2>4, <3>1, AckSound
    <3>4. Turned(w, v)
      BY <2>1, <3>3 DEF Turned, Waiting
    <3>5. QED
      BY <1>3, <3>2, <3>4
  <2>5. CASE Head(w.down) = "STOP"
    <3>1. Ending(g, <<"STOPPED">>)
      BY <1>1, <1>11, <2>5 DEF Command
    <3>2. QED
      BY <1>6, <1>7, <3>1
  <2>6. QED
    BY <2>2, <2>3, <2>4, <2>5 DEF Downward
<1>12. CASE WorkerEnds(g) \/ PadRefused(g)
  <2>1. Running(g)
    BY <1>12 DEF WorkerEnds, PadRefused, Running
  <2>2. \/ Ending(g, <<>>) \/ Ending(g, <<"REFUSED", "STOPPED">>) \/ Ending(g, <<"BROKEN", "STOPPED">>)
        \/ Ending(g, <<"EOS", "STOPPED">>)
    BY <1>12 DEF WorkerEnds, PadRefused
  <2>3. QED
    BY <1>6, <1>7, <2>2
<1>13. CASE SendFrame(g)
  <2>1. w.step = "live" /\ ~w.sending /\ w.flight < MaxInFlight /\ Running(g)
    BY <1>1, <1>13 DEF SendFrame, MaySend, Running
  <2>2. PICK m \in {"FIRST", "FRAME"} : m = IF w.fresh THEN "FIRST" ELSE "FRAME"
    OBVIOUS
  <2>3. PICK v : v = [w EXCEPT !.up = Append(w.up, m), !.fresh = FALSE, !.sending = TRUE, !.sent = w.sent + 1]
    OBVIOUS
  <2>4. worker' = [worker EXCEPT ![g] = v]
    BY <1>1, <1>13, <2>2, <2>3 DEF SendFrame
  <2>5. SoundWorker(v) /\ v.step = "live"
    BY <1>2, <2>1, <2>3, FrameSound
  <2>6. Turned(w, v)
    BY <2>1, <2>5 DEF Turned, Waiting
  <2>7. QED
    BY <1>3, <2>4, <2>6
<1>14. CASE CountFrame(g)
  <2>1. w.sending /\ w.step = "live" /\ Running(g)
    BY <1>1, <1>2, <1>14 DEF CountFrame, Running, SoundWorker
  <2>2. PICK v : v = [w EXCEPT !.sending = FALSE, !.flight = w.flight + 1]
    OBVIOUS
  <2>3. worker' = [worker EXCEPT ![g] = v]
    BY <1>1, <1>14, <2>2 DEF CountFrame
  <2>4. SoundWorker(v) /\ v.step = "live"
    BY <1>2, <2>1, <2>2, CountSound
  <2>5. Turned(w, v)
    BY <2>1, <2>4 DEF Turned, Waiting
  <2>6. QED
    BY <1>3, <2>3, <2>5
<1>15. QED
  BY <1>1, <1>8, <1>9, <1>10, <1>11, <1>12, <1>13, <1>14 DEF WorkerTurns

-----------------------------------------------------------------------------
(* RingSource: what the two threads hold *)

Threads == {"capture", "closer"}
ReleaseStates ==
    [step : {"out", "socket", "process", "wait", "material", "ticket", "delete"},
     process : Generations \cup {0}, material : Generations \cup {0}]
ShownStates == [from : Generations \cup {0}, marked : BOOLEAN, before : Generations \cup {0}]
RingTypes ==
    /\ RingTypeOK /\ worker \in [Generations -> WorkerStates]
    /\ releasing \in [Threads -> ReleaseStates] /\ shown \in ShownStates

\* Between sessions the capture thread holds nothing, and less and less while it releases.
Between == {"new", "loop", "acquiring", "deciding", "waiting", "checking", "ended"}
Held ==
    /\ source.at \in Between => source.material = 0
    /\ source.at \in Between \cup {"spawning"} => reader.process = 0
    /\ source.at \in Between \cup {"spawning", "attaching"} => reader.socket = 0
    /\ source.at = "releasing" /\ releasing["capture"].step # "socket" => reader.socket = 0
    /\ source.at = "releasing" /\ releasing["capture"].step \notin {"socket", "process"} => reader.process = 0
    /\ source.at = "releasing" /\ releasing["capture"].step \in {"ticket", "delete", "out"} => source.material = 0
\* A thread releases only where it was told to, and has in hand what its step is about.
InHand ==
    /\ source.at # "releasing" => releasing["capture"].step = "out"
    /\ told # "closing" => releasing["closer"].step = "out"
    /\ \A t \in Threads :
          /\ releasing[t].step \notin {"wait", "material"} => releasing[t].process = 0
          /\ releasing[t].step \notin {"ticket", "delete"} <=> releasing[t].material = 0
\* Sessions are numbered on, and each one in force is in exactly one hand.
Topmost(g) == ticket[g] # "none" /\ \A h \in Generations : h > g => ticket[h] = "none"
InSession == source.at \notin Between \cup {"releasing"}
Ticketed ==
    /\ \A g, h \in Generations : h < g /\ ticket[g] # "none" => ticket[h] # "none"
    /\ InSession => \E g \in Generations : Topmost(g)
    /\ source.material # 0 => ticket[source.material] \in {"open", "negotiated"}
    /\ \A t \in Threads :
          /\ releasing[t].step = "ticket" => ticket[releasing[t].material] \in {"open", "negotiated"}
          /\ releasing[t].step = "delete" => ticket[releasing[t].material] \in {"released", "overtaken"}
          /\ releasing[t].material # 0 => releasing[t].material # source.material
    /\ releasing["capture"].material # 0 => releasing["capture"].material # releasing["closer"].material
    /\ \A g \in Generations : ticket[g] \in {"open", "negotiated"} =>
          g = source.material \/ \E t \in Threads : releasing[t].step = "ticket" /\ releasing[t].material = g
    /\ source.at = "posting" => ticket[Newest] \in {"negotiated", "overtaken"}
\* A worker that runs is the reader's or is waited for; the newest one is spoken to in turn.
Workers ==
    /\ \A g \in Generations : SoundWorker(worker[g]) /\ (ticket[g] = "none" => worker[g].step = "none")
    /\ \A g \in Generations : Running(g) =>
          g = reader.process \/ \E t \in Threads : releasing[t].step = "wait" /\ releasing[t].process = g
    /\ reader.process # 0 => worker[reader.process].step # "none"
    /\ \A t \in Threads : releasing[t].step = "wait" /\ releasing[t].process # 0 => worker[releasing[t].process].step # "none"
    /\ source.at = "spawning" => worker[Newest].step = "none"
    /\ reader.socket # 0 => reader.socket = Newest /\ worker[reader.socket].step # "none"
    /\ source.at = "attaching" => worker[Newest].step # "none"
    /\ source.at \in {"attaching", "hello"} =>
          /\ worker[Newest].step \in {"starting", "hello", "gone"}
          /\ \/ worker[Newest].down = <<>>
             \/ source.at = "hello" /\ reader.socket = 0 /\ worker[Newest].down = <<"STOP">>
\* Until a frame of this session was yielded, the next one is to be marked or is the first of all.
Marking ==
    /\ source.at \in (Places \ {"reading", "yielded", "releasing", "checking", "deciding", "waiting", "ended"}) =>
          source.pending \/ shown.from = 0
    /\ source.at = "reading" => source.pending \/ shown.from \in {0, Newest}
    /\ source.at = "yielded" => shown.from = Newest
\* Why the thread is where it is.
Reasons ==
    /\ told = "no" => ~source.stopping /\ (source.at = "releasing" => source.next # "ended")
    /\ source.health = "FAILED" => source.at = "ended"
    /\ source.at = "releasing" /\ source.next = "deciding" => source.why \in Failed
    /\ source.at = "releasing" /\ source.next = "checking" => source.why \in Failed \cup {"eos"}
    /\ source.at = "checking" => source.why \in Failed \cup {"eos"}
    /\ source.at = "deciding" => source.why \in Failed
Holding == Held /\ InHand /\ Ticketed /\ LeasesAccounted
RingIInv == RingTypes /\ Holding /\ Workers /\ Marking /\ GapMarked /\ Reasons /\ EndsForAReason

LEMMA NewestIs == ASSUME NEW g \in Generations, Topmost(g) PROVE Newest = g
<1>1. ASSUME NEW h \in Generations, Topmost(h) PROVE h = g
  <2>1. g \in Nat /\ h \in Nat
    BY RingSourceAssumption DEF Generations
  <2>2. QED
    BY <1>1, <2>1 DEF Topmost
<1>2. Newest = CHOOSE h \in Generations : Topmost(h)
  BY DEF Newest, Topmost
<1>3. QED
  BY <1>1, <1>2

LEMMA NewestKnown == ASSUME Ticketed, InSession PROVE Newest \in Generations /\ Topmost(Newest)
BY NewestIs DEF Ticketed

LEMMA NewestStays ==
    ASSUME \A g \in Generations : ticket'[g] = "none" <=> ticket[g] = "none"
    PROVE  Newest' = Newest
<1>1. \A g \in Generations : Topmost(g) <=> Topmost(g)'
  BY DEF Topmost
<1>2. Newest = CHOOSE h \in Generations : Topmost(h)
  BY DEF Newest, Topmost
<1>3. Newest' = CHOOSE h \in Generations : Topmost(h)'
  BY DEF Newest, Topmost
<1>4. QED
  BY <1>1, <1>2, <1>3

-----------------------------------------------------------------------------
(* RingSource: steps of one kind keep the parts they do not touch *)

WaitsStay == \A t \in Threads : "wait" \in {releasing[t].step, releasing'[t].step} => releasing'[t] = releasing[t]

LEMMA WaitsSame == ASSUME UNCHANGED releasing PROVE WaitsStay
BY DEF WaitsStay

\* The capture thread moves on between sessions, or within one.
LEMMA HoldingMoves ==
    ASSUME RingTypes, Holding, UNCHANGED <<reader, ticket, lease, releasing, told>>,
           source' \in SourceStates, source'.material = source.material,
           \/ source.at \in Between /\ source'.at \in Between
           \/ /\ InSession /\ source.at \notin {"spawning", "attaching"}
              /\ InSession' /\ source'.at \notin {"spawning", "attaching", "posting"}
    PROVE  Holding'
<1>1. Held'
  BY DEF Holding, Held, InSession, Between
<1>2. InHand'
  BY DEF Holding, InHand, InSession, Between
<1>3. Ticketed'
  <2>1. (\E g \in Generations : Topmost(g)) => (\E g \in Generations : Topmost(g)')
    BY DEF Topmost
  <2>2. InSession' => InSession
    BY DEF InSession
  <2>3. source'.at # "posting"
    BY DEF InSession, Between
  <2>4. QED
    BY <2>1, <2>2, <2>3 DEF Holding, Ticketed
<1>4. LeasesAccounted'
  BY DEF Holding, LeasesAccounted
<1>5. QED
  BY <1>1, <1>2, <1>3, <1>4 DEF Holding

\* It starts to release.
LEMMA HoldingLeaves ==
    ASSUME RingTypes, Holding, UNCHANGED <<reader, ticket, told>>, source.at # "releasing",
           \A g \in Generations : lease'[g] = "held" => lease[g] = "held",
           source' \in SourceStates, source'.material = source.material, source'.at = "releasing", Letting("capture")
    PROVE  /\ Holding' /\ releasing' \in [Threads -> ReleaseStates]
           /\ WaitsStay
<1>1. releasing["capture"].step = "out" /\ releasing["capture"].process = 0 /\ releasing["capture"].material = 0
  BY DEF Holding, InHand, Threads
<1>2. releasing' = [releasing EXCEPT !["capture"] = [releasing["capture"] EXCEPT !.step = "socket"]]
  BY DEF Letting
<1>3. releasing' \in [Threads -> ReleaseStates]
  BY <1>2 DEF RingTypes, ReleaseStates, Threads
<1>4. /\ releasing'["capture"].step = "socket" /\ releasing'["capture"].process = 0
      /\ releasing'["capture"].material = 0 /\ releasing'["closer"] = releasing["closer"]
  BY <1>1, <1>2 DEF RingTypes, ReleaseStates, Threads
<1>5. Held'
  BY <1>4 DEF Held, Between
<1>6. InHand'
  BY <1>4 DEF Holding, InHand, Threads
<1>7. Ticketed'
  BY <1>1, <1>4 DEF Holding, Ticketed, InSession, Threads
<1>8. LeasesAccounted'
  <2>1. DOMAIN releasing = Threads /\ DOMAIN releasing' = Threads
    BY <1>3 DEF RingTypes
  <2>2. \A t \in Threads : releasing[t].step = "delete" => releasing'[t] = releasing[t]
    BY <1>1, <1>4 DEF Threads
  <2>3. QED
    BY <2>1, <2>2 DEF Holding, LeasesAccounted
<1>9. QED
  BY <1>1, <1>3, <1>4, <1>5, <1>6, <1>7, <1>8 DEF Holding, Threads, WaitsStay

\* No worker is touched.
LEMMA WorkersStay ==
    ASSUME Workers, UNCHANGED worker, reader'.process = reader.process, reader'.socket = reader.socket,
           \A g \in Generations : ticket'[g] = "none" <=> ticket[g] = "none",
           WaitsStay,
           source'.at \in {"spawning", "attaching", "hello"} => source'.at = source.at
    PROVE  Workers'
<1>1. Newest' = Newest
  BY NewestStays
<1>2. \A g \in Generations : SoundWorker(worker'[g]) /\ (ticket'[g] = "none" => worker'[g].step = "none")
  BY DEF Workers
<1>3. QED
  BY <1>1, <1>2 DEF Workers, Running, WaitsStay

\* One worker takes a step, is told something or is ended.
LEMMA WorkersTurn ==
    ASSUME Workers, worker \in [Generations -> WorkerStates], NEW g \in Generations, NEW v,
           worker' = [worker EXCEPT ![g] = v], SoundWorker(v), v.step # "none", worker[g].step # "none",
           v.step # "gone" => worker[g].step # "gone",
           reader'.process = reader.process, reader'.socket \in {reader.socket, 0}, UNCHANGED ticket,
           WaitsStay,
           source'.at \in {"spawning", "attaching", "hello"} => source'.at = source.at,
           g = Newest /\ source'.at \in {"attaching", "hello"} =>
              /\ v.step \in {"starting", "hello", "gone"}
              /\ v.down = <<>> \/ (source'.at = "hello" /\ reader'.socket = 0 /\ v.down = <<"STOP">>)
    PROVE  Workers' /\ worker' \in [Generations -> WorkerStates]
<1>1. Newest' = Newest
  BY NewestStays
<1>2. v \in WorkerStates
  BY DEF SoundWorker
<1>3. worker' \in [Generations -> WorkerStates]
  BY <1>2
<1>4. \A h \in Generations : worker'[h] = IF h = g THEN v ELSE worker[h]
  BY <1>2
<1>5. \A h \in Generations : SoundWorker(worker'[h]) /\ (ticket'[h] = "none" => worker'[h].step = "none")
  BY <1>4 DEF Workers
<1>6. \A h \in Generations : Running(h)' => Running(h)
  BY <1>4 DEF Running
<1>7. \A h \in Generations : Running(h)' =>
        h = reader'.process \/ \E t \in Threads : releasing'[t].step = "wait" /\ releasing'[t].process = h
  BY <1>6 DEF Workers, WaitsStay
<1>8. /\ reader'.process # 0 => worker'[reader'.process].step # "none"
      /\ \A t \in Threads : releasing'[t].step = "wait" /\ releasing'[t].process # 0 =>
            worker'[releasing'[t].process].step # "none"
  BY <1>4 DEF Workers, WaitsStay
<1>9. QED
  BY <1>1, <1>3, <1>4, <1>5, <1>7, <1>8 DEF Workers

\* A step of the capture thread between two sessions, or after the last.
BetweenSteps == Begin \/ AcquireFails \/ Released \/ Check \/ Decide \/ Retry \/ End
LEMMA BetweenKeeps == ASSUME RingIInv, BetweenSteps \/ (Turn /\ ~source.stopping) PROVE RingIInv'
<1>1. /\ RingTypes /\ Holding /\ Workers /\ Marking /\ GapMarked /\ Reasons /\ EndsForAReason
      /\ source \in SourceStates /\ MaxRetries \in Nat
  BY RingSourceAssumption DEF RingIInv, RingTypes, RingTypeOK
<1>2. UNCHANGED <<reader, ticket, lease, worker, releasing, told, shown>>
  BY DEF BetweenSteps, Begin, Turn, Go, AcquireFails, Released, Check, Decide, Retry, End
<1> DEFINE After == /\ source' \in SourceStates /\ source'.material = source.material /\ source'.at \in Between
                    /\ (source.at \in Between \/ (source.at = "releasing" /\ releasing["capture"].step = "out"))
                    /\ Marking' /\ GapMarked' /\ Reasons' /\ EndsForAReason'
<1>3. GapMarked'
  BY <1>1, <1>2 DEF GapMarked
<1>4. SUFFICES After
  <2>1. ASSUME After PROVE Holding'
    <3>1. CASE source.at \in Between
      BY <1>1, <1>2, <2>1, <3>1, HoldingMoves
    <3>2. CASE source.at = "releasing" /\ releasing["capture"].step = "out"
      <4>1. Held' /\ InHand'
        BY <1>1, <1>2, <2>1, <3>2 DEF Holding, Held, InHand, Between
      <4>2. Ticketed' /\ LeasesAccounted'
        BY <1>1, <1>2, <2>1 DEF Holding, Ticketed, LeasesAccounted, InSession, Between
      <4>3. QED
        BY <4>1, <4>2 DEF Holding
    <3>3. QED
      BY <2>1, <3>1, <3>2
  <2>2. ASSUME After PROVE Workers'
    <3>1. source'.at \notin {"spawning", "attaching", "hello"}
      BY <2>2 DEF Between
    <3>2. QED
      BY <1>1, <1>2, <3>1, WorkersStay, WaitsSame
  <2>3. ASSUME After PROVE RingTypes'
    BY <1>1, <1>2, <2>3 DEF RingTypes, RingTypeOK
  <2>4. QED
    BY <1>3, <2>1, <2>2, <2>3 DEF RingIInv
<1>5. "loop" \in Places /\ "acquiring" \in Places /\ "deciding" \in Places /\ "waiting" \in Places /\ "ended" \in Places
  BY DEF Places
<1>6. ASSUME Begin PROVE After
  <2>1. source.at = "new" /\ source' = [source EXCEPT !.at = "loop", !.stopping = FALSE]
    BY <1>6 DEF Begin
  <2>2. /\ source' \in SourceStates /\ source'.at = "loop" /\ ~source'.stopping /\ source'.material = source.material
        /\ source'.pending = source.pending /\ source'.health = source.health
    BY <1>1, <1>5, <2>1 DEF SourceStates
  <2>3. QED
    BY <1>1, <1>2, <1>3, <2>1, <2>2 DEF Marking, Reasons, EndsForAReason, Between, Places
<1>7. ASSUME Turn, ~source.stopping PROVE After
  <2>1. source.at = "loop" /\ source' = [source EXCEPT !.at = "acquiring"]
    BY <1>7 DEF Turn, Go
  <2>2. /\ source' \in SourceStates /\ source'.at = "acquiring" /\ source'.stopping = source.stopping
        /\ source'.material = source.material /\ source'.pending = source.pending /\ source'.health = source.health
    BY <1>1, <1>5, <2>1 DEF SourceStates
  <2>3. QED
    BY <1>1, <1>2, <1>3, <2>1, <2>2 DEF Marking, Reasons, EndsForAReason, Between, Places
<1>8. ASSUME AcquireFails PROVE After
  <2>1. PICK why \in Failed : source.at = "acquiring"
              /\ source' = [source EXCEPT !.pending = TRUE, !.at = "deciding", !.why = why]
    BY <1>8 DEF AcquireFails, Gap
  <2>2. /\ source' \in SourceStates /\ source'.at = "deciding" /\ source'.stopping = source.stopping
        /\ source'.material = source.material /\ source'.health = source.health /\ source'.why = why
    BY <1>1, <1>5, <2>1 DEF SourceStates
  <2>3. QED
    BY <1>1, <1>2, <1>3, <2>1, <2>2 DEF Marking, Reasons, EndsForAReason, Between, Places
<1>9. ASSUME Released PROVE After
  <2>1. source.at = "releasing" /\ releasing["capture"].step = "out" /\ source' = [source EXCEPT !.at = source.next]
    BY <1>9 DEF Released, Go
  <2>2. source.next \in {"ended", "checking", "deciding"} /\ source.next \in Places
    BY <1>1 DEF SourceStates, Places
  <2>3. /\ source' \in SourceStates /\ source'.at = source.next /\ source'.stopping = source.stopping
        /\ source'.material = source.material /\ source'.health = source.health /\ source'.why = source.why
    BY <1>1, <2>1, <2>2 DEF SourceStates
  <2>4. Marking' /\ source'.at \in Between
    BY <2>2, <2>3 DEF Marking, Between
  <2>5. Reasons' /\ EndsForAReason'
    BY <1>1, <1>2, <2>1, <2>2, <2>3 DEF Reasons, EndsForAReason
  <2>6. QED
    BY <1>3, <2>1, <2>3, <2>4, <2>5
<1>10. ASSUME Check PROVE After
  <2>1. /\ source.at = "checking"
        /\ source' = [source EXCEPT !.at = IF source.why = "eos" \/ source.stopping THEN "ended" ELSE "deciding"]
    BY <1>10 DEF Check, Go
  <2>2. /\ source' \in SourceStates /\ source'.stopping = source.stopping
        /\ source'.at = (IF source.why = "eos" \/ source.stopping THEN "ended" ELSE "deciding")
        /\ source'.material = source.material /\ source'.health = source.health /\ source'.why = source.why
    BY <1>1, <1>5, <2>1 DEF SourceStates
  <2>3. QED
    BY <1>1, <1>2, <1>3, <2>1, <2>2 DEF Marking, Reasons, EndsForAReason, Between
<1>11. ASSUME Decide PROVE After
  <2>1. CASE source.why = "terminal" \/ source.used = MaxRetries
    <3>1. source.at = "deciding" /\ source' = [source EXCEPT !.at = "ended", !.health = "FAILED"]
      BY <1>11, <2>1 DEF Decide, GiveUp
    <3>2. /\ source' \in SourceStates /\ source'.at = "ended" /\ source'.stopping = source.stopping
          /\ source'.material = source.material /\ source'.health = "FAILED" /\ source'.why = source.why
          /\ source'.used = source.used
      BY <1>1, <1>5, <3>1 DEF SourceStates
    <3>3. QED
      BY <1>1, <1>2, <1>3, <2>1, <3>1, <3>2 DEF Marking, Reasons, EndsForAReason, Between, Failed
  <2>2. CASE source.why # "terminal" /\ source.used # MaxRetries
    <3>1. source.at = "deciding" /\ source' = [source EXCEPT !.at = "waiting", !.used = source.used + 1]
      BY <1>11, <2>2 DEF Decide
    <3>2. source.used + 1 \in 0..MaxRetries
      BY <1>1, <2>2 DEF SourceStates
    <3>3. /\ source' \in SourceStates /\ source'.at = "waiting" /\ source'.stopping = source.stopping
          /\ source'.material = source.material /\ source'.health = source.health
      BY <1>1, <1>5, <3>1, <3>2 DEF SourceStates
    <3>4. QED
      BY <1>1, <1>2, <1>3, <3>1, <3>3 DEF Marking, Reasons, EndsForAReason, Between
  <2>3. QED
    BY <2>1, <2>2
<1>12. ASSUME Retry PROVE After
  <2>1. CASE source.stopping
    <3>1. source.at = "waiting" /\ source' = [source EXCEPT !.at = "ended", !.health = "FAILED"]
      BY <1>12, <2>1 DEF Retry, GiveUp
    <3>2. /\ source' \in SourceStates /\ source'.at = "ended" /\ source'.stopping
          /\ source'.material = source.material /\ source'.health = "FAILED"
      BY <1>1, <1>5, <2>1, <3>1 DEF SourceStates
    <3>3. QED
      BY <1>1, <1>2, <1>3, <2>1, <3>1, <3>2 DEF Marking, Reasons, EndsForAReason, Between
  <2>2. CASE ~source.stopping
    <3>1. source.at = "waiting" /\ source' = [source EXCEPT !.pending = TRUE, !.at = "loop", !.health = "RECONNECTING"]
      BY <1>12, <2>2 DEF Retry, Gap
    <3>2. /\ source' \in SourceStates /\ source'.at = "loop" /\ source'.stopping = source.stopping /\ source'.pending
          /\ source'.material = source.material /\ source'.health = "RECONNECTING"
      BY <1>1, <1>5, <3>1 DEF SourceStates
    <3>3. QED
      BY <1>1, <1>2, <1>3, <3>1, <3>2 DEF Marking, Reasons, EndsForAReason, Between
  <2>3. QED
    BY <2>1, <2>2
<1>13. ASSUME End PROVE After
  <2>1. source.at = "ended" /\ source.health # "FAILED" /\ source' = [source EXCEPT !.health = "STOPPED"]
    BY <1>13 DEF End
  <2>2. /\ source' \in SourceStates /\ source'.at = "ended" /\ source'.stopping = source.stopping
        /\ source'.material = source.material /\ source'.health = "STOPPED" /\ source'.why = source.why
        /\ source'.used = source.used
    BY <1>1, <2>1 DEF SourceStates
  <2>3. QED
    BY <1>1, <1>2, <1>3, <2>1, <2>2 DEF Marking, Reasons, EndsForAReason, Between
<1>14. QED
  BY <1>6, <1>7, <1>8, <1>9, <1>10, <1>11, <1>12, <1>13 DEF BetweenSteps

\* A step with which it starts to release.
LEMMA Leaves ==
    ASSUME RingIInv, source.at \notin {"releasing", "ended"}, Letting("capture"), UNCHANGED <<reader, ticket, told, shown>>,
           NEW why \in Failed \cup {"eos", "stop"}, NEW next \in {"ended", "checking", "deciding"},
           NEW health \in {source.health, "RUNNING"},
           source' = [source EXCEPT !.at = "releasing", !.why = why, !.next = next, !.health = health],
           next = "ended" => told # "no", next = "deciding" => why \in Failed, next = "checking" => why # "stop",
           lease' \in [Generations -> {"none", "held", "deleted", "lost", "left"}],
           \A g \in Generations : lease'[g] = "held" => lease[g] = "held",
           UNCHANGED worker \/ (Workers' /\ worker' \in [Generations -> WorkerStates])
    PROVE  RingIInv'
<1>1. /\ RingTypes /\ Holding /\ Workers /\ Marking /\ GapMarked /\ Reasons /\ source \in SourceStates
      /\ "releasing" \in Places
  BY DEF RingIInv, RingTypes, RingTypeOK, Places
<1>2. health \in {"STARTING", "RUNNING", "RECONNECTING", "STOPPED", "FAILED"}
  BY <1>1 DEF SourceStates
<1>3. /\ source' \in SourceStates /\ source'.at = "releasing" /\ source'.why = why /\ source'.next = next
      /\ source'.health = health /\ source'.material = source.material /\ source'.stopping = source.stopping
  BY <1>1, <1>2 DEF SourceStates
<1>4. /\ Holding' /\ releasing' \in [Threads -> ReleaseStates]
      /\ WaitsStay
  BY <1>1, <1>3, HoldingLeaves
<1>5. Workers' /\ worker' \in [Generations -> WorkerStates]
  <2>1. CASE UNCHANGED worker
    BY <1>1, <1>3, <1>4, <2>1, WorkersStay DEF RingTypes
  <2>2. QED
    BY <2>1
<1>6. RingTypes'
  BY <1>1, <1>3, <1>4, <1>5 DEF RingTypes, RingTypeOK
<1>7. Marking' /\ GapMarked'
  BY <1>1, <1>3 DEF Marking, GapMarked
<1>8. Reasons' /\ EndsForAReason'
  BY <1>1, <1>3 DEF Reasons, EndsForAReason
<1>9. QED
  BY <1>4, <1>5, <1>6, <1>7, <1>8 DEF RingIInv

LEMMA StartFailsKeeps == ASSUME RingIInv, NEW why \in Failed, StartFails(why) PROVE RingIInv'
<1>1. source \in SourceStates /\ lease \in [Generations -> {"none", "held", "deleted", "lost", "left"}]
  BY DEF RingIInv, RingTypes, RingTypeOK
<1>2. PICK health \in {source.health, "RUNNING"} : health = source.health
  OBVIOUS
<1>3. source' = [source EXCEPT !.at = "releasing", !.why = why, !.next = "deciding", !.health = health]
  BY <1>1, <1>2 DEF StartFails, Leave, SourceStates
<1>4. /\ source.at \notin {"releasing", "ended"} /\ Letting("capture")
      /\ UNCHANGED <<reader, ticket, lease, worker, told, shown>>
  BY DEF StartFails
<1>5. why \in Failed \cup {"eos", "stop"} /\ "deciding" \in {"ended", "checking", "deciding"} /\ RingIInv
  OBVIOUS
<1>6. QED
  BY <1>1, <1>3, <1>4, <1>5, Leaves

LEMMA StopKeeps ==
    ASSUME RingIInv, source.at \in {"loop", "yielded"}, source' = Leave("stop", "ended"), Letting("capture"),
           source.stopping \/ told # "no", UNCHANGED <<reader, ticket, lease, worker, told, shown>>
    PROVE  RingIInv'
<1>1. source \in SourceStates /\ lease \in [Generations -> {"none", "held", "deleted", "lost", "left"}] /\ told # "no"
  BY DEF RingIInv, RingTypes, RingTypeOK, Reasons
<1>2. PICK health \in {source.health, "RUNNING"} : health = source.health
  OBVIOUS
<1>3. source' = [source EXCEPT !.at = "releasing", !.why = "stop", !.next = "ended", !.health = health]
  BY <1>1, <1>2 DEF Leave, SourceStates
<1>4. "stop" \in Failed \cup {"eos", "stop"} /\ "ended" \in {"ended", "checking", "deciding"}
  OBVIOUS
<1>5. QED
  BY <1>1, <1>3, <1>4, Leaves

LEMMA ReadEndsKeeps ==
    ASSUME RingIInv, source.at = "reading", NEW why \in Failed \cup {"eos"}, ReadEnds(why)
    PROVE  RingIInv'
<1>1. source \in SourceStates /\ lease \in [Generations -> {"none", "held", "deleted", "lost", "left"}]
  BY DEF RingIInv, RingTypes, RingTypeOK
<1>2. PICK health \in {source.health, "RUNNING"} : health = source.health
  OBVIOUS
<1>3. source' = [source EXCEPT !.at = "releasing", !.why = why, !.next = "checking", !.health = health]
  BY <1>1, <1>2 DEF ReadEnds, Leave, SourceStates
<1>4. Letting("capture") /\ UNCHANGED <<reader, ticket, lease, worker, told, shown>>
  BY DEF ReadEnds
<1>5. why # "stop" /\ why \in Failed \cup {"eos", "stop"} /\ "checking" \in {"ended", "checking", "deciding"}
  BY DEF Failed
<1>6. QED
  BY <1>1, <1>3, <1>4, <1>5, Leaves

LEMMA LeavingKeeps ==
    ASSUME RingIInv,
           \/ CannotStart \/ Awaiting \/ NoLongerOurs \/ ExchangeFails \/ Interrupted
           \/ (Turn /\ source.stopping) \/ (Resume /\ (source.stopping \/ told # "no"))
    PROVE  RingIInv'
<1>1. "transient" \in Failed /\ "terminal" \in Failed
  BY DEF Failed
<1>2. CASE CannotStart \/ Awaiting \/ NoLongerOurs
  <2>1. \E why \in Failed : StartFails(why)
    BY <1>1, <1>2 DEF CannotStart, Awaiting, NoLongerOurs
  <2>2. QED
    BY <2>1, StartFailsKeeps
<1>3. CASE ExchangeFails
  <2>1. PICK why \in Failed, made \in Unaddressed :
            source' = Leave(why, "deciding") /\ lease' = [lease EXCEPT ![Newest] = made]
    BY <1>3 DEF ExchangeFails
  <2>2. /\ source.at = "posting" /\ Letting("capture") /\ UNCHANGED <<reader, ticket, worker, told, shown>>
    BY <1>3 DEF ExchangeFails
  <2>3. source \in SourceStates /\ lease \in [Generations -> {"none", "held", "deleted", "lost", "left"}]
    BY DEF RingIInv, RingTypes, RingTypeOK
  <2>4. /\ lease' \in [Generations -> {"none", "held", "deleted", "lost", "left"}]
        /\ \A g \in Generations : lease'[g] = "held" => lease[g] = "held"
    BY <2>1, <2>3 DEF Unaddressed
  <2>5. PICK health \in {source.health, "RUNNING"} : health = source.health
    OBVIOUS
  <2>6. source' = [source EXCEPT !.at = "releasing", !.why = why, !.next = "deciding", !.health = health]
    BY <2>1, <2>3, <2>5 DEF Leave, SourceStates
  <2>7. why \in Failed \cup {"eos", "stop"} /\ "deciding" \in {"ended", "checking", "deciding"} /\ RingIInv
    OBVIOUS
  <2>8. QED
    BY <2>2, <2>4, <2>6, <2>7, Leaves
<1>4. CASE Interrupted
  <2>1. source.at = "reading" /\ \E why \in Failed \cup {"eos"} : ReadEnds(why)
    BY <1>1, <1>4 DEF Interrupted
  <2>2. QED
    BY <2>1, ReadEndsKeeps
<1>5. CASE (Turn /\ source.stopping) \/ (Resume /\ (source.stopping \/ told # "no"))
  <2>1. /\ source.at \in {"loop", "yielded"} /\ source' = Leave("stop", "ended") /\ Letting("capture")
        /\ (source.stopping \/ told # "no") /\ UNCHANGED <<reader, ticket, lease, worker, told, shown>>
    BY <1>5 DEF Turn, Resume
  <2>2. QED
    BY <2>1, StopKeeps
<1>6. QED
  BY <1>2, <1>3, <1>4, <1>5

-----------------------------------------------------------------------------
(* RingSource: the steps up to a frame *)

LEMMA NewestNext == ASSUME NEW g \in Generations, Topmost(g)' PROVE Newest' = g
<1>1. ASSUME NEW h \in Generations, Topmost(h)' PROVE h = g
  <2>1. g \in Nat /\ h \in Nat
    BY RingSourceAssumption DEF Generations
  <2>2. QED
    BY <1>1, <2>1 DEF Topmost
<1>2. Newest' = CHOOSE h \in Generations : Topmost(h)'
  BY DEF Newest, Topmost
<1>3. QED
  BY <1>1, <1>2

LEMMA AcquireKeeps == ASSUME RingIInv, Acquire PROVE RingIInv'
<1>1. /\ RingTypes /\ Holding /\ Workers /\ Marking /\ GapMarked /\ Reasons /\ source \in SourceStates
      /\ Held /\ InHand /\ Ticketed /\ LeasesAccounted /\ "spawning" \in Places
      /\ ticket \in [Generations -> {"none", "open", "negotiated", "released", "overtaken"}]
  BY DEF RingIInv, RingTypes, RingTypeOK, Holding, Places
<1>2. UNCHANGED <<reader, lease, worker, releasing, told, shown>> /\ source.at = "acquiring"
  BY DEF Acquire
<1>3. PICK g \in Generations :
          /\ ticket[g] = "none" /\ \A h \in 1..(g - 1) : ticket[h] # "none"
          /\ ticket' = [ticket EXCEPT ![g] = "open"]
          /\ source' = [source EXCEPT !.at = "spawning", !.why = "none", !.material = g, !.health = "STARTING"]
  BY DEF Acquire
<1>4. /\ source' \in SourceStates /\ source'.at = "spawning" /\ source'.material = g /\ source'.pending = source.pending
      /\ source'.health = "STARTING" /\ source'.stopping = source.stopping
  BY <1>1, <1>3 DEF SourceStates
<1>5. /\ ticket' \in [Generations -> {"none", "open", "negotiated", "released", "overtaken"}]
      /\ \A h \in Generations : ticket'[h] = IF h = g THEN "open" ELSE ticket[h]
  BY <1>1, <1>3
<1>6. Generations \subseteq Nat \ {0}
  BY RingSourceAssumption DEF Generations
<1>7. \A h \in Generations : h < g => ticket[h] # "none"
  BY <1>3, <1>6
<1>8. Topmost(g)'
  BY <1>1, <1>3, <1>5, <1>6 DEF Ticketed, Topmost
<1>9. Newest' = g
  BY <1>8, NewestNext
<1>10. RingTypes'
  BY <1>1, <1>2, <1>4, <1>5 DEF RingTypes, RingTypeOK
<1>11. Held' /\ InHand'
  BY <1>1, <1>2, <1>4 DEF Held, InHand, Between
<1>12. /\ releasing \in [Threads -> ReleaseStates] /\ source.material = 0
       /\ \A t \in Threads : releasing[t].material # 0 => releasing[t].material \in Generations /\ releasing[t].material # g
  <2>1. releasing \in [Threads -> ReleaseStates] /\ source.material = 0
    BY <1>1, <1>2 DEF RingTypes, Held, Between
  <2>2. ASSUME NEW t \in Threads, releasing[t].material # 0 PROVE releasing[t].material \in Generations /\ releasing[t].material # g
    BY <1>1, <1>3, <2>1, <2>2 DEF InHand, Ticketed, ReleaseStates
  <2>3. QED
    BY <2>1, <2>2
<1>13. Ticketed'
  <2>1. \A h, k \in Generations : k < h /\ ticket'[h] # "none" => ticket'[k] # "none"
    BY <1>1, <1>5, <1>7, <1>8 DEF Ticketed
  <2>2. source'.material # 0 => ticket'[source'.material] \in {"open", "negotiated"}
    BY <1>4, <1>5
  <2>3. \A t \in Threads :
          /\ releasing'[t].step = "ticket" => ticket'[releasing'[t].material] \in {"open", "negotiated"}
          /\ releasing'[t].step = "delete" => ticket'[releasing'[t].material] \in {"released", "overtaken"}
          /\ releasing'[t].material # 0 => releasing'[t].material # source'.material
    <3>1. ASSUME NEW t \in Threads, releasing[t].material # 0
          PROVE  releasing[t].material # g /\ ticket'[releasing[t].material] = ticket[releasing[t].material]
      BY <1>5, <1>12, <3>1
    <3>2. ASSUME NEW t \in Threads, releasing[t].step \in {"ticket", "delete"} PROVE releasing[t].material # 0
      BY <1>1, <3>2 DEF InHand
    <3>3. QED
      BY <1>1, <1>2, <1>4, <3>1, <3>2 DEF Ticketed
  <2>4. \A h \in Generations : ticket'[h] \in {"open", "negotiated"} =>
          h = source'.material \/ \E t \in Threads : releasing'[t].step = "ticket" /\ releasing'[t].material = h
    BY <1>1, <1>2, <1>4, <1>5, <1>6, <1>12 DEF Ticketed
  <2>5. QED
    BY <1>1, <1>2, <1>4, <1>8, <2>1, <2>2, <2>3, <2>4 DEF Ticketed
<1>14. LeasesAccounted'
  BY <1>1, <1>2, <1>3, <1>5 DEF LeasesAccounted
<1>15. Workers'
  <2>1. reader.socket = 0 /\ worker[g].step = "none"
    BY <1>1, <1>2, <1>3 DEF Held, Between, Workers
  <2>2. \A h \in Generations : SoundWorker(worker'[h]) /\ (ticket'[h] = "none" => worker'[h].step = "none")
    BY <1>1, <1>2, <1>5 DEF Workers
  <2>3. QED
    BY <1>1, <1>2, <1>4, <1>9, <2>1, <2>2 DEF Workers, Running
<1>16. Marking' /\ GapMarked'
  BY <1>1, <1>2, <1>4, <1>9 DEF Marking, GapMarked, Places
<1>17. Reasons' /\ EndsForAReason'
  BY <1>1, <1>2, <1>4 DEF Reasons, EndsForAReason
<1>18. QED
  BY <1>10, <1>11, <1>13, <1>14, <1>15, <1>16, <1>17 DEF RingIInv, Holding

\* A step of a start or of the reading that stays within the session and only moves the thread on.
LEMMA SessionSource ==
    ASSUME RingIInv, InSession, InSession', source' \in SourceStates, source'.material = source.material,
           source'.stopping = source.stopping, source'.health \in {source.health, "RUNNING"}, told' = told
    PROVE  Reasons' /\ EndsForAReason'
BY DEF RingIInv, Reasons, EndsForAReason, InSession, Between

LEMMA SpawnKeeps == ASSUME RingIInv, Spawn PROVE RingIInv'
<1>1. /\ RingTypes /\ Holding /\ Workers /\ Marking /\ GapMarked /\ Reasons /\ source \in SourceStates
      /\ Held /\ InHand /\ Ticketed /\ LeasesAccounted /\ "attaching" \in Places /\ reader \in ReaderStates
      /\ worker \in [Generations -> WorkerStates]
  BY DEF RingIInv, RingTypes, RingTypeOK, Holding, Places
<1>2. UNCHANGED <<ticket, lease, releasing, told, shown>> /\ source.at = "spawning"
      /\ source' = [source EXCEPT !.at = "attaching"]
  BY DEF Spawn, Go
<1>3. InSession /\ InSession'
  BY <1>1, <1>2 DEF InSession, Between, SourceStates
<1>4. PICK g \in Generations : g = Newest /\ Topmost(g)
  BY <1>1, <1>3, NewestKnown
<1>5. /\ source' \in SourceStates /\ source'.at = "attaching" /\ source'.material = source.material
      /\ source'.pending = source.pending /\ source'.health = source.health /\ source'.stopping = source.stopping
  BY <1>1, <1>2 DEF SourceStates
<1>6. Newest' = g
  BY <1>2, <1>4, NewestStays
<1>7. reader' = [reader EXCEPT !.process = g, !.closed = FALSE]
  BY <1>4 DEF Spawn
<1>8. reader' \in ReaderStates /\ reader'.process = g /\ reader'.socket = reader.socket
  BY <1>1, <1>7 DEF ReaderStates
<1>9. reader.process = 0 /\ reader.socket = 0
  BY <1>1, <1>2 DEF Held
<1>10. worker[g] = NoWorker
  BY <1>1, <1>2, <1>4 DEF Workers, SoundWorker
<1>11. PICK v : v = [NoWorker EXCEPT !.step = "starting"]
  OBVIOUS
<1>12. SoundWorker(v) /\ v.step = "starting" /\ v.down = <<>> /\ v \in WorkerStates
  BY <1>11, NothingSound DEF SoundWorker, NoWorker
<1>13. worker' = [worker EXCEPT ![g] = v]
  BY <1>4, <1>10, <1>11 DEF Spawn
<1>14. worker' \in [Generations -> WorkerStates] /\ \A h \in Generations : worker'[h] = IF h = g THEN v ELSE worker[h]
  BY <1>1, <1>12, <1>13
<1>15. Workers'
  <2>1. \A h \in Generations : SoundWorker(worker'[h]) /\ (ticket'[h] = "none" => worker'[h].step = "none")
    BY <1>1, <1>2, <1>4, <1>12, <1>14 DEF Workers, Topmost
  <2>2. \A h \in Generations : Running(h)' => h = g \/ Running(h)
    BY <1>14 DEF Running
  <2>3. \A h \in Generations : h # 0
    BY RingSourceAssumption DEF Generations
  <2>4. \A h \in Generations : Running(h)' =>
          h = reader'.process \/ \E t \in Threads : releasing'[t].step = "wait" /\ releasing'[t].process = h
    BY <1>1, <1>2, <1>8, <1>9, <2>2, <2>3 DEF Workers
  <2>5. ASSUME NEW t \in Threads, releasing[t].step = "wait", releasing[t].process # 0
        PROVE  worker'[releasing[t].process].step # "none"
    <3>1. releasing[t].process \in Generations /\ worker[releasing[t].process].step # "none"
      BY <1>1, <2>5 DEF RingTypes, ReleaseStates, Workers
    <3>2. QED
      BY <1>12, <1>14, <3>1
  <2>6. QED
    BY <1>2, <1>4, <1>5, <1>6, <1>8, <1>9, <1>12, <1>14, <2>1, <2>4, <2>5 DEF Workers
<1>16. Holding'
  <2>1. Held' /\ InHand'
    BY <1>1, <1>2, <1>5, <1>8, <1>9 DEF Held, InHand, Between
  <2>2. Ticketed' /\ LeasesAccounted'
    BY <1>1, <1>2, <1>3, <1>5 DEF Ticketed, LeasesAccounted, Topmost
  <2>3. QED
    BY <2>1, <2>2 DEF Holding
<1>17. RingTypes'
  BY <1>1, <1>2, <1>5, <1>8, <1>14 DEF RingTypes, RingTypeOK
<1>18. Marking' /\ GapMarked'
  BY <1>1, <1>2, <1>5 DEF Marking, GapMarked, Places
<1>19. Reasons' /\ EndsForAReason'
  BY <1>2, <1>3, <1>5, SessionSource
<1>20. QED
  BY <1>1, <1>15, <1>16, <1>17, <1>18, <1>19 DEF RingIInv

LEMMA AttachKeeps == ASSUME RingIInv, Attach PROVE RingIInv'
<1>1. /\ RingTypes /\ Holding /\ Workers /\ Marking /\ GapMarked /\ Reasons /\ source \in SourceStates
      /\ Held /\ InHand /\ Ticketed /\ LeasesAccounted /\ "hello" \in Places /\ reader \in ReaderStates
  BY DEF RingIInv, RingTypes, RingTypeOK, Holding, Places
<1>2. UNCHANGED <<ticket, lease, worker, releasing, told, shown>> /\ source.at = "attaching"
      /\ source' = [source EXCEPT !.at = "hello"]
  BY DEF Attach, Go
<1>3. InSession /\ InSession'
  BY <1>1, <1>2 DEF InSession, Between, SourceStates
<1>4. PICK g \in Generations : g = Newest
  BY <1>1, <1>3, NewestKnown
<1>5. /\ source' \in SourceStates /\ source'.at = "hello" /\ source'.material = source.material
      /\ source'.pending = source.pending /\ source'.health = source.health /\ source'.stopping = source.stopping
  BY <1>1, <1>2 DEF SourceStates
<1>6. Newest' = g
  BY <1>2, <1>4, NewestStays
<1>7. reader' = [reader EXCEPT !.socket = g]
  BY <1>4 DEF Attach
<1>8. reader' \in ReaderStates /\ reader'.process = reader.process /\ reader'.socket = g
  BY <1>1, <1>7 DEF ReaderStates
<1>9. Workers'
  <2>1. \A h \in Generations : SoundWorker(worker'[h]) /\ (ticket'[h] = "none" => worker'[h].step = "none")
    BY <1>1, <1>2 DEF Workers
  <2>2. QED
    BY <1>1, <1>2, <1>4, <1>5, <1>6, <1>8, <2>1 DEF Workers, Running
<1>10. Holding'
  <2>1. Held' /\ InHand'
    BY <1>1, <1>2, <1>5, <1>8 DEF Held, InHand, Between
  <2>2. Ticketed' /\ LeasesAccounted'
    BY <1>1, <1>2, <1>3, <1>5 DEF Ticketed, LeasesAccounted, Topmost
  <2>3. QED
    BY <2>1, <2>2 DEF Holding
<1>11. RingTypes'
  BY <1>1, <1>2, <1>5, <1>8 DEF RingTypes, RingTypeOK
<1>12. Marking' /\ GapMarked'
  BY <1>1, <1>2, <1>5 DEF Marking, GapMarked, Places
<1>13. Reasons' /\ EndsForAReason'
  BY <1>2, <1>3, <1>5, SessionSource
<1>14. QED
  BY <1>1, <1>9, <1>10, <1>11, <1>12, <1>13 DEF RingIInv

\* The steps of a session after its worker is attached, but for the two of the negotiation.
LEMMA SessionKeeps ==
    ASSUME RingIInv, UNCHANGED <<reader, ticket, lease, releasing, told>>,
           InSession /\ source.at \notin {"spawning", "attaching"},
           InSession' /\ source'.at \notin {"spawning", "attaching", "hello", "posting"},
           source' \in SourceStates, source'.material = source.material,
           source'.stopping = source.stopping, source'.health \in {source.health, "RUNNING"},
           UNCHANGED worker \/ (Workers' /\ worker' \in [Generations -> WorkerStates]),
           shown' \in ShownStates, Marking', GapMarked'
    PROVE  RingIInv'
<1>1. RingTypes /\ Holding /\ Workers
  BY DEF RingIInv
<1>2. Holding'
  BY <1>1, HoldingMoves
<1>3. Workers' /\ worker' \in [Generations -> WorkerStates]
  <2>1. CASE UNCHANGED worker
    BY <1>1, <2>1, WorkersStay, WaitsSame DEF RingTypes
  <2>2. QED
    BY <2>1
<1>4. RingTypes'
  BY <1>1, <1>3 DEF RingTypes, RingTypeOK
<1>5. Reasons' /\ EndsForAReason'
  BY SessionSource
<1>6. QED
  BY <1>2, <1>3, <1>4, <1>5 DEF RingIInv

\* The worker whose socket the reader holds is the newest one, and is spoken to.
LEMMA SocketKnown ==
    ASSUME RingIInv, reader.socket # 0
    PROVE  /\ reader.socket \in Generations /\ reader.socket = Newest /\ SoundWorker(worker[reader.socket])
           /\ worker[reader.socket].step # "none" /\ worker \in [Generations -> WorkerStates]
BY DEF RingIInv, RingTypes, RingTypeOK, ReaderStates, Workers

LEMMA SentKeeps ==
    ASSUME RingIInv, reader.socket # 0, NEW m \in {"ANSWER", "STOP"}, Sent(m), UNCHANGED ticket,
           reader'.process = reader.process, reader'.socket \in {reader.socket, 0},
           WaitsStay,
           source'.at \in {"spawning", "attaching", "hello"} =>
              source'.at = source.at /\ (m = "STOP" /\ reader'.socket = 0)
    PROVE  Workers' /\ worker' \in [Generations -> WorkerStates]
<1>1. PICK g \in Generations : g = reader.socket
  BY SocketKnown
<1>2. /\ g = Newest /\ SoundWorker(worker[g]) /\ worker[g].step # "none" /\ worker \in [Generations -> WorkerStates]
      /\ Workers /\ RingTypes
  BY <1>1, SocketKnown DEF RingIInv
<1>3. CASE worker[g].step = "gone"
  <2>1. UNCHANGED worker
    BY <1>1, <1>3 DEF Sent
  <2>2. Newest' = Newest
    BY NewestStays
  <2>3. \A h \in Generations : SoundWorker(worker'[h]) /\ (ticket'[h] = "none" => worker'[h].step = "none")
    BY <1>2, <2>1 DEF Workers
  <2>4. QED
    BY <1>1, <1>2, <2>1, <2>2, <2>3 DEF Workers, Running, WaitsStay
<1>4. CASE worker[g].step # "gone"
  <2>1. PICK w : w = worker[g]
    OBVIOUS
  <2>2. PICK v : v = [w EXCEPT !.down = Append(w.down, m)]
    OBVIOUS
  <2>3. worker' = [worker EXCEPT ![g] = v]
    BY <1>1, <1>4, <2>1, <2>2 DEF Sent
  <2>4. SoundWorker(w) /\ w.step # "none" /\ m \in {"START", "ANSWER", "STOP"} /\ m # "START"
    BY <1>2, <2>1
  <2>5. SoundWorker(v) /\ v.step = w.step /\ v.down = Append(w.down, m)
    BY <2>2, <2>4, SentSound
  <2>6. source'.at \in {"attaching", "hello"} =>
          /\ v.step \in {"starting", "hello", "gone"}
          /\ v.down = <<>> \/ (source'.at = "hello" /\ reader'.socket = 0 /\ v.down = <<"STOP">>)
    <3>1. SUFFICES ASSUME source'.at \in {"attaching", "hello"}
                   PROVE  v.step \in {"starting", "hello", "gone"} /\ source'.at = "hello" /\ v.down = <<"STOP">>
      OBVIOUS
    <3>2. source.at = source'.at /\ m = "STOP" /\ reader'.socket = 0
      BY <3>1
    <3>3. source.at = "hello" /\ w.step \in {"starting", "hello", "gone"} /\ w.down = <<>>
      BY <1>1, <1>2, <2>1, <3>1, <3>2 DEF RingIInv, Holding, Held, Workers
    <3>4. QED
      BY <2>5, <3>2, <3>3
  <2>7. QED
    BY <1>2, <1>4, <2>1, <2>3, <2>4, <2>5, <2>6, WorkersTurn
<1>5. QED
  BY <1>3, <1>4

LEMMA HelloKeeps == ASSUME RingIInv, Hello PROVE RingIInv'
<1>1. /\ RingTypes /\ Holding /\ Workers /\ Marking /\ GapMarked /\ source \in SourceStates /\ "offer" \in Places
  BY DEF RingIInv, RingTypes, RingTypeOK, Places
<1>2. /\ UNCHANGED <<reader, ticket, lease, releasing, told, shown>> /\ source.at = "hello" /\ reader.socket # 0
      /\ source' = [source EXCEPT !.at = "offer"] /\ worker[reader.socket].up # <<>>
  BY DEF Hello, Go, Inbox
<1>3. /\ source' \in SourceStates /\ source'.at = "offer" /\ source'.material = source.material
      /\ source'.pending = source.pending /\ source'.health = source.health /\ source'.stopping = source.stopping
  BY <1>1, <1>2 DEF SourceStates
<1>4. InSession /\ InSession'
  BY <1>2, <1>3 DEF InSession, Between
<1>5. PICK g \in Generations : g = reader.socket
  BY <1>2, SocketKnown
<1>6. PICK w : w = worker[g]
  OBVIOUS
<1>7. /\ g = Newest /\ SoundWorker(w) /\ w.step \in {"starting", "hello", "gone"} /\ w.down = <<>> /\ w.up # <<>>
  BY <1>1, <1>2, <1>5, <1>6, SocketKnown DEF Workers
<1>8. w.step \in {"hello", "gone"}
  BY <1>7 DEF SoundWorker
<1>9. PICK u : u = [w EXCEPT !.up = Tail(w.up)]
  OBVIOUS
<1>10. SoundWorker(u) /\ u.step = w.step /\ u.down = w.down
  BY <1>7, <1>9, ReadSound
<1>11. PICK v : v = [u EXCEPT !.down = Append(u.down, "START")]
  OBVIOUS
<1>12. SoundWorker(v) /\ v.step = w.step
  <2>1. u.step # "none" /\ u.down = <<>> /\ u.step \in {"hello", "gone"} /\ "START" \in {"START", "ANSWER", "STOP"}
    BY <1>7, <1>8, <1>10
  <2>2. QED
    BY <1>10, <1>11, <2>1, SentSound
<1>13. worker' = [worker EXCEPT ![g] = v]
  BY <1>5, <1>6, <1>9, <1>10, <1>11 DEF Hello
<1>14. Workers' /\ worker' \in [Generations -> WorkerStates]
  BY <1>1, <1>2, <1>3, <1>6, <1>8, <1>12, <1>13, WorkersTurn, WaitsSame DEF RingTypes
<1>15. Marking' /\ GapMarked' /\ shown' \in ShownStates
  BY <1>1, <1>2, <1>3 DEF Marking, GapMarked, Places, RingTypes
<1>16. QED
  BY <1>2, <1>3, <1>4, <1>14, <1>15, SessionKeeps

LEMMA OfferKeeps == ASSUME RingIInv, Offer PROVE RingIInv'
<1>1. /\ RingTypes /\ Holding /\ Workers /\ Marking /\ GapMarked /\ source \in SourceStates /\ "negotiating" \in Places
  BY DEF RingIInv, RingTypes, RingTypeOK, Places
<1>2. /\ UNCHANGED <<reader, ticket, lease, releasing, told, shown>> /\ source.at = "offer" /\ reader.socket # 0
      /\ source' = [source EXCEPT !.at = "negotiating"] /\ worker[reader.socket].up # <<>>
  BY DEF Offer, Go, Inbox
<1>3. /\ source' \in SourceStates /\ source'.at = "negotiating" /\ source'.material = source.material
      /\ source'.pending = source.pending /\ source'.health = source.health /\ source'.stopping = source.stopping
  BY <1>1, <1>2 DEF SourceStates
<1>4. InSession /\ InSession'
  BY <1>2, <1>3 DEF InSession, Between
<1>5. PICK g \in Generations : g = reader.socket
  BY <1>2, SocketKnown
<1>6. PICK w : w = worker[g]
  OBVIOUS
<1>7. SoundWorker(w) /\ w.step # "none" /\ w.up # <<>>
  BY <1>2, <1>5, <1>6, SocketKnown
<1>8. PICK v : v = [w EXCEPT !.up = Tail(w.up)]
  OBVIOUS
<1>9. SoundWorker(v) /\ v.step = w.step
  BY <1>7, <1>8, ReadSound
<1>10. worker' = [worker EXCEPT ![g] = v]
  BY <1>5, <1>6, <1>8 DEF Offer, Received
<1>11. Workers' /\ worker' \in [Generations -> WorkerStates]
  BY <1>1, <1>2, <1>3, <1>6, <1>7, <1>9, <1>10, WorkersTurn, WaitsSame DEF RingTypes
<1>12. Marking' /\ GapMarked' /\ shown' \in ShownStates
  BY <1>1, <1>2, <1>3 DEF Marking, GapMarked, Places, RingTypes
<1>13. QED
  BY <1>2, <1>3, <1>4, <1>11, <1>12, SessionKeeps

LEMMA ResumeKeeps == ASSUME RingIInv, Resume, ~source.stopping, told = "no" PROVE RingIInv'
<1>1. /\ RingTypes /\ Holding /\ Workers /\ Marking /\ GapMarked /\ source \in SourceStates /\ "reading" \in Places
      /\ MaxRetries \in Nat
  BY RingSourceAssumption DEF RingIInv, RingTypes, RingTypeOK, Places
<1>2. PICK used \in {source.used, 0} : source' = [source EXCEPT !.at = "reading", !.used = used]
  BY DEF Resume
<1>3. UNCHANGED <<reader, ticket, lease, releasing, worker, told, shown>> /\ source.at = "yielded" /\ used \in 0..MaxRetries
  BY <1>1 DEF Resume, SourceStates
<1>4. /\ source' \in SourceStates /\ source'.at = "reading" /\ source'.material = source.material
      /\ source'.pending = source.pending /\ source'.health = source.health /\ source'.stopping = source.stopping
  BY <1>1, <1>2, <1>3 DEF SourceStates
<1>5. InSession /\ InSession'
  BY <1>3, <1>4 DEF InSession, Between
<1>6. Newest' = Newest
  BY <1>3, NewestStays
<1>7. Marking' /\ GapMarked' /\ shown' \in ShownStates
  BY <1>1, <1>3, <1>4, <1>6 DEF Marking, GapMarked, Places, RingTypes
<1>8. QED
  BY <1>3, <1>4, <1>5, <1>7, SessionKeeps

LEMMA ReadFrameKeeps == ASSUME RingIInv, ReadFrame PROVE RingIInv'
<1>1. /\ RingTypes /\ Holding /\ Workers /\ Marking /\ GapMarked /\ source \in SourceStates /\ "yielded" \in Places
      /\ shown \in ShownStates
  BY DEF RingIInv, RingTypes, RingTypeOK, Places
<1>2. /\ UNCHANGED <<reader, ticket, lease, releasing, told>> /\ source.at = "reading" /\ reader.socket # 0
      /\ worker[reader.socket].up # <<>> /\ Head(worker[reader.socket].up) \in {"FIRST", "FRAME"}
  BY DEF ReadFrame, Disconnected, Inbox
<1>3. PICK g \in Generations : g = reader.socket
  BY <1>2, SocketKnown
<1>4. PICK w : w = worker[g]
  OBVIOUS
<1>5. /\ g = Newest /\ SoundWorker(w) /\ w.step # "none" /\ w.up # <<>> /\ Head(w.up) \in {"FIRST", "FRAME"}
  BY <1>2, <1>3, <1>4, SocketKnown
<1>6. PICK v : v = [w EXCEPT !.up = Tail(w.up), !.down = IF w.step = "gone" THEN w.down ELSE Append(w.down, "ACK")]
  OBVIOUS
<1>7. SoundWorker(v) /\ v.step = w.step
  BY <1>5, <1>6, AcknowledgedSound
<1>8. worker' = [worker EXCEPT ![g] = v]
  BY <1>3, <1>4, <1>6 DEF ReadFrame, Acknowledged
<1>9. InSession
  BY <1>2 DEF InSession, Between
<1>10. Newest' = g
  BY <1>2, <1>5, NewestStays
<1>11. ASSUME source'.at \in {"reading", "yielded"} PROVE Workers' /\ worker' \in [Generations -> WorkerStates]
  BY <1>1, <1>2, <1>4, <1>5, <1>7, <1>8, <1>11, WorkersTurn, WaitsSame DEF RingTypes
<1>12. CASE UNCHANGED <<source, shown>>
  <2>1. Workers' /\ worker' \in [Generations -> WorkerStates]
    BY <1>2, <1>11, <1>12
  <2>2. Marking' /\ GapMarked' /\ shown' \in ShownStates
    BY <1>1, <1>2, <1>5, <1>10, <1>12 DEF Marking, GapMarked
  <2>3. InSession'
    BY <1>9, <1>12 DEF InSession
  <2>4. QED
    BY <1>1, <1>2, <1>9, <1>12, <2>1, <2>2, <2>3, SessionKeeps
<1>13. CASE /\ source' = [source EXCEPT !.at = "yielded", !.pending = FALSE]
            /\ shown' = [from |-> reader.socket, before |-> shown.from,
                         marked |-> source.pending \/ Head(Inbox) = "FIRST"]
  <2>1. /\ source' \in SourceStates /\ source'.at = "yielded" /\ source'.material = source.material
        /\ source'.health = source.health /\ source'.stopping = source.stopping
    BY <1>1, <1>13 DEF SourceStates
  <2>2. Workers' /\ worker' \in [Generations -> WorkerStates]
    BY <1>11, <2>1
  <2>3. PICK first \in BOOLEAN : first = (source.pending \/ Head(Inbox) = "FIRST")
    OBVIOUS
  <2>4. shown' = [from |-> g, before |-> shown.from, marked |-> first]
    BY <1>3, <1>13, <2>3
  <2>5. shown' \in ShownStates /\ shown'.from = g /\ shown'.before = shown.from /\ shown'.marked = first
    BY <1>1, <2>4 DEF ShownStates
  <2>6. source.pending \/ shown.from \in {0, g}
    BY <1>1, <1>2, <1>5 DEF Marking
  <2>7. Marking' /\ GapMarked'
    BY <1>10, <2>1, <2>3, <2>5, <2>6 DEF Marking, GapMarked
  <2>8. InSession'
    BY <2>1 DEF InSession, Between
  <2>9. QED
    BY <1>2, <1>9, <2>1, <2>2, <2>5, <2>7, <2>8, SessionKeeps
<1>14. QED
  BY <1>12, <1>13 DEF ReadFrame

LEMMA SendAnswerKeeps == ASSUME RingIInv, SendAnswer PROVE RingIInv'
<1>1. /\ RingTypes /\ Holding /\ Workers /\ Marking /\ GapMarked /\ source \in SourceStates /\ "reading" \in Places
      /\ lease \in [Generations -> {"none", "held", "deleted", "lost", "left"}] /\ source.at = "answering"
  BY DEF RingIInv, RingTypes, RingTypeOK, Places, SendAnswer
<1>2. CASE reader.socket = 0
  <2>1. "transient" \in Failed /\ StartFails("transient")
    BY <1>2 DEF SendAnswer, Failed
  <2>2. QED
    BY <2>1, StartFailsKeeps
<1>3. CASE reader.socket # 0
  <2>1. Sent("ANSWER") /\ UNCHANGED <<reader, ticket, lease, told, shown>>
    BY <1>3 DEF SendAnswer
  <2>2. CASE source.stopping
    <3>1. source' = [source EXCEPT !.at = "releasing", !.why = "stop", !.next = "ended", !.health = "RUNNING"]
      BY <1>3, <2>2 DEF SendAnswer, Leave
    <3>2. Letting("capture") /\ source'.at = "releasing" /\ told # "no"
      BY <1>1, <1>3, <2>2, <3>1 DEF SendAnswer, RingIInv, Reasons, SourceStates
    <3>3. source' \in SourceStates /\ source'.material = source.material
      BY <1>1, <3>1 DEF SourceStates, Places
    <3>4. WaitsStay
      BY <1>1, <2>1, <3>2, <3>3, HoldingLeaves
    <3>5. Workers' /\ worker' \in [Generations -> WorkerStates]
      <4>1. "ANSWER" \in {"ANSWER", "STOP"} /\ source'.at \notin {"spawning", "attaching", "hello"}
        BY <3>2
      <4>2. reader'.process = reader.process /\ reader'.socket \in {reader.socket, 0} /\ UNCHANGED ticket
        BY <2>1
      <4>3. QED
        BY <1>3, <2>1, <3>4, <4>1, <4>2, SentKeeps
    <3>6. "stop" \in Failed \cup {"eos", "stop"} /\ "ended" \in {"ended", "checking", "deciding"}
          /\ "RUNNING" \in {source.health, "RUNNING"}
      OBVIOUS
    <3>7. QED
      BY <1>1, <2>1, <3>1, <3>2, <3>5, <3>6, Leaves
  <2>3. CASE ~source.stopping
    <3>1. source' = [source EXCEPT !.at = "reading", !.health = "RUNNING"] /\ UNCHANGED releasing
      BY <1>3, <2>3 DEF SendAnswer
    <3>2. /\ source' \in SourceStates /\ source'.at = "reading" /\ source'.material = source.material
          /\ source'.health = "RUNNING" /\ source'.stopping = source.stopping /\ source'.pending = source.pending
      BY <1>1, <3>1 DEF SourceStates
    <3>3. Workers' /\ worker' \in [Generations -> WorkerStates]
      <4>1. "ANSWER" \in {"ANSWER", "STOP"} /\ source'.at \notin {"spawning", "attaching", "hello"}
        BY <3>2
      <4>2. /\ reader'.process = reader.process /\ reader'.socket \in {reader.socket, 0} /\ UNCHANGED ticket
            /\ WaitsStay
        BY <2>1, <3>1, WaitsSame
      <4>3. QED
        BY <1>3, <2>1, <4>1, <4>2, SentKeeps
    <3>4. Marking' /\ GapMarked' /\ shown' \in ShownStates
      BY <1>1, <2>1, <3>2 DEF Marking, GapMarked, RingTypes, Places
    <3>5. InSession /\ InSession'
      BY <1>1, <3>2 DEF InSession, Between
    <3>6. QED
      BY <1>1, <2>1, <3>1, <3>2, <3>3, <3>4, <3>5, SessionKeeps
  <2>4. QED
    BY <2>2, <2>3
<1>4. QED
  BY <1>2, <1>3

\* The two steps of the negotiation.
LEMMA NegotiationKeeps == ASSUME RingIInv, Negotiate \/ Answered201 PROVE RingIInv'
<1>1. /\ RingTypes /\ Holding /\ Workers /\ Marking /\ GapMarked /\ source \in SourceStates
      /\ Held /\ InHand /\ Ticketed /\ LeasesAccounted /\ "posting" \in Places /\ "answering" \in Places
      /\ ticket \in [Generations -> {"none", "open", "negotiated", "released", "overtaken"}]
      /\ lease \in [Generations -> {"none", "held", "deleted", "lost", "left"}]
  BY DEF RingIInv, RingTypes, RingTypeOK, Holding, Places
<1>2. UNCHANGED <<reader, worker, releasing, told, shown>> /\ source.at \in {"negotiating", "posting"}
  BY DEF Negotiate, Answered201
<1>3. PICK place \in {"posting", "answering"} : source' = [source EXCEPT !.at = place]
  BY DEF Negotiate, Answered201, Go
<1>4. /\ source' \in SourceStates /\ source'.at = place /\ source'.material = source.material
      /\ source'.health = source.health /\ source'.stopping = source.stopping /\ source'.pending = source.pending
  BY <1>1, <1>3 DEF SourceStates
<1>5. InSession /\ InSession'
  BY <1>2, <1>4 DEF InSession, Between
<1>6. PICK g \in Generations : g = Newest /\ Topmost(g)
  BY <1>1, <1>5, NewestKnown
<1>7. Reasons' /\ EndsForAReason'
  BY <1>2, <1>4, <1>5, SessionSource
<1>8. Marking' /\ GapMarked' /\ Held' /\ InHand'
  BY <1>1, <1>2, <1>4 DEF Marking, GapMarked, Held, InHand, Places, Between
<1>9. CASE Negotiate
  <2>1. ticket[g] = "open" /\ ticket' = [ticket EXCEPT ![g] = "negotiated"] /\ UNCHANGED lease
    BY <1>6, <1>9 DEF Negotiate
  <2>2. /\ ticket' \in [Generations -> {"none", "open", "negotiated", "released", "overtaken"}]
        /\ \A h \in Generations : ticket'[h] = IF h = g THEN "negotiated" ELSE ticket[h]
    BY <1>1, <2>1
  <2>3. \A h \in Generations : ticket'[h] = "none" <=> ticket[h] = "none"
    BY <2>1, <2>2
  <2>4. \A h \in Generations : ticket[h] \in {"open", "negotiated"} <=> ticket'[h] \in {"open", "negotiated"}
    BY <2>1, <2>2
  <2>5. Newest' = g
    BY <1>6, <2>3, NewestStays
  <2>6. RingTypes' /\ Workers'
    BY <1>1, <1>2, <1>4, <2>1, <2>2, <2>3, WorkersStay, WaitsSame DEF RingTypes, RingTypeOK
  <2>7. Topmost(g)'
    BY <1>6, <2>3 DEF Topmost
  <2>8. releasing \in [Threads -> ReleaseStates] /\ source.material \in Generations \cup {0}
    BY <1>1 DEF RingTypes, SourceStates
  <2>9. \A t \in Threads :
          /\ releasing'[t].step = "ticket" => ticket'[releasing'[t].material] \in {"open", "negotiated"}
          /\ releasing'[t].step = "delete" => ticket'[releasing'[t].material] \in {"released", "overtaken"}
    <3>1. ASSUME NEW t \in Threads, releasing[t].step \in {"ticket", "delete"} PROVE releasing[t].material \in Generations
      BY <1>1, <2>8, <3>1 DEF InHand, ReleaseStates
    <3>2. \A t \in Threads : releasing[t].step = "delete" => ticket'[releasing[t].material] \in {"released", "overtaken"}
      BY <1>1, <2>1, <2>2, <3>1 DEF Ticketed
    <3>3. \A t \in Threads : releasing[t].step = "ticket" => ticket'[releasing[t].material] \in {"open", "negotiated"}
      BY <1>1, <2>4, <3>1 DEF Ticketed
    <3>4. QED
      BY <1>2, <3>2, <3>3
  <2>10. Ticketed'
    <3>1. source'.material # 0 => ticket'[source'.material] \in {"open", "negotiated"}
      BY <1>1, <1>4, <2>4, <2>8 DEF Ticketed
    <3>2. source'.at = "posting" => ticket'[Newest'] \in {"negotiated", "overtaken"}
      BY <2>2, <2>5
    <3>3. QED
      BY <1>1, <1>2, <1>4, <2>3, <2>4, <2>7, <2>9, <3>1, <3>2 DEF Ticketed
  <2>11. LeasesAccounted'
    BY <1>1, <1>2, <2>1, <2>2 DEF LeasesAccounted
  <2>12. QED
    BY <1>7, <1>8, <2>6, <2>10, <2>11 DEF RingIInv, Holding
<1>10. CASE Answered201
  <2>1. ticket[g] \in {"negotiated", "overtaken"} /\ lease' = [lease EXCEPT ![g] = "held"] /\ UNCHANGED ticket
        /\ source'.at = "answering"
    BY <1>1, <1>4, <1>6, <1>10 DEF Answered201, Ticketed, Go, SourceStates
  <2>2. /\ lease' \in [Generations -> {"none", "held", "deleted", "lost", "left"}]
        /\ \A h \in Generations : lease'[h] = IF h = g THEN "held" ELSE lease[h]
    BY <1>1, <2>1
  <2>3. RingTypes' /\ Workers'
    BY <1>1, <1>2, <1>4, <2>1, <2>2, WorkersStay, WaitsSame DEF RingTypes, RingTypeOK
  <2>4. Ticketed'
    BY <1>1, <1>2, <1>4, <1>5, <2>1 DEF Ticketed, Topmost
  <2>5. LeasesAccounted'
    BY <1>1, <1>2, <2>1, <2>2 DEF LeasesAccounted
  <2>6. QED
    BY <1>7, <1>8, <2>3, <2>4, <2>5 DEF RingIInv, Holding
<1>11. QED
  BY <1>9, <1>10

-----------------------------------------------------------------------------
(* RingSource: the release, on either thread *)

LEMMA ReleaseSet ==
    ASSUME RingTypes, NEW t \in Threads, NEW r \in ReleaseStates, releasing' = [releasing EXCEPT ![t] = r]
    PROVE  /\ releasing' \in [Threads -> ReleaseStates] /\ releasing'[t] = r
           /\ \A u \in Threads \ {t} : releasing'[u] = releasing[u]
BY DEF RingTypes

\* While a thread releases, it is where it may: the capture thread outside a session, the closer in close().
LEMMA ReleaseOngoing ==
    ASSUME InHand, NEW t \in Threads, releasing[t].step # "out"
    PROVE  (t = "capture" /\ source.at = "releasing") \/ (t = "closer" /\ told = "closing")
BY DEF InHand, Threads

\* What the release does not touch.
LEMMA ReleaseSource ==
    ASSUME RingIInv, source' \in SourceStates, source'.at = source.at, source'.why = source.why, source'.next = source.next,
           source'.stopping = source.stopping, source'.pending = source.pending, source'.used = source.used,
           source'.health = source.health, told' = told, shown' = shown, Newest' = Newest
    PROVE  Marking' /\ GapMarked' /\ Reasons' /\ EndsForAReason' /\ shown' \in ShownStates
<1>1. Marking /\ GapMarked /\ Reasons /\ EndsForAReason /\ shown \in ShownStates
  BY DEF RingIInv, RingTypes
<1>2. Marking' /\ GapMarked'
  BY <1>1 DEF Marking, GapMarked
<1>3. Reasons' /\ EndsForAReason'
  BY <1>1 DEF Reasons, EndsForAReason
<1>4. QED
  BY <1>1, <1>2, <1>3

\* Before the ticket's turn.
LEMMA TicketsStay ==
    ASSUME InHand, Ticketed, LeasesAccounted, UNCHANGED <<source, ticket, lease>>, releasing \in [Threads -> ReleaseStates],
           releasing' \in [Threads -> ReleaseStates], NEW t \in Threads, releasing[t].step \notin {"ticket", "delete"},
           releasing'[t].step \notin {"ticket", "delete"}, releasing'[t].material = 0,
           \A u \in Threads \ {t} : releasing'[u] = releasing[u]
    PROVE  Ticketed' /\ LeasesAccounted'
<1>1. releasing[t].material = 0
  BY DEF InHand
<1>2. \A u \in Threads :
        /\ releasing'[u].material = releasing[u].material
        /\ releasing'[u].step = "ticket" <=> releasing[u].step = "ticket"
        /\ releasing'[u].step = "delete" <=> releasing[u].step = "delete"
  BY <1>1
<1>3. (InSession => \E g \in Generations : Topmost(g)) /\ InSession' = InSession
  BY DEF Ticketed, InSession
<1>4. \A g \in Generations : Topmost(g)' <=> Topmost(g)
  BY DEF Topmost
<1>5. Newest' = Newest
  BY NewestStays
<1>6. \A g \in Generations : ticket'[g] \in {"open", "negotiated"} =>
        g = source'.material \/ \E u \in Threads : releasing'[u].step = "ticket" /\ releasing'[u].material = g
  BY <1>2 DEF Ticketed
<1>7. \A u \in Threads :
        /\ releasing'[u].step = "ticket" => ticket'[releasing'[u].material] \in {"open", "negotiated"}
        /\ releasing'[u].step = "delete" => ticket'[releasing'[u].material] \in {"released", "overtaken"}
        /\ releasing'[u].material # 0 => releasing'[u].material # source'.material
  BY <1>2 DEF Ticketed
<1>8. releasing'["capture"].material # 0 => releasing'["capture"].material # releasing'["closer"].material
  BY <1>2 DEF Ticketed, Threads
<1>9. Ticketed'
  BY <1>3, <1>4, <1>5, <1>6, <1>7, <1>8 DEF Ticketed
<1>10. LeasesAccounted'
  <2>1. DOMAIN releasing = Threads /\ DOMAIN releasing' = Threads
    OBVIOUS
  <2>2. QED
    BY <1>2, <2>1 DEF LeasesAccounted
<1>11. QED
  BY <1>9, <1>10

LEMMA TakeSocketKeeps == ASSUME RingIInv, NEW t \in Threads, TakeSocket(t) PROVE RingIInv'
<1>1. /\ RingTypes /\ Holding /\ Workers /\ Held /\ InHand /\ Ticketed /\ LeasesAccounted
      /\ source \in SourceStates /\ reader \in ReaderStates /\ releasing[t] \in ReleaseStates
  BY DEF RingIInv, RingTypes, RingTypeOK, Holding
<1>2. /\ releasing[t].step = "socket" /\ UNCHANGED <<source, ticket, lease, told, shown>>
      /\ reader' = [reader EXCEPT !.socket = 0]
  BY DEF TakeSocket
<1>3. PICK r : r = [releasing[t] EXCEPT !.step = "process"]
  OBVIOUS
<1>4. r \in ReleaseStates /\ r.step = "process" /\ r.process = 0 /\ r.material = 0
  BY <1>1, <1>2, <1>3 DEF ReleaseStates, InHand
<1>5. releasing' = [releasing EXCEPT ![t] = r]
  BY <1>3 DEF TakeSocket, Step
<1>6. /\ releasing' \in [Threads -> ReleaseStates] /\ releasing'[t] = r
      /\ \A u \in Threads \ {t} : releasing'[u] = releasing[u]
  BY <1>1, <1>4, <1>5, ReleaseSet
<1>7. reader' \in ReaderStates /\ reader'.socket = 0 /\ reader'.process = reader.process
  BY <1>1, <1>2 DEF ReaderStates
<1>8. WaitsStay
  BY <1>2, <1>4, <1>6 DEF WaitsStay
<1>9. Workers' /\ worker' \in [Generations -> WorkerStates]
  <2>1. CASE reader.socket = 0
    <3>1. UNCHANGED worker
      BY <2>1 DEF TakeSocket
    <3>2. QED
      BY <1>1, <1>2, <1>7, <1>8, <2>1, <3>1, WorkersStay DEF RingTypes
  <2>2. CASE reader.socket # 0
    <3>1. Sent("STOP") /\ "STOP" \in {"ANSWER", "STOP"}
      BY <2>2 DEF TakeSocket
    <3>2. QED
      BY <1>2, <1>7, <1>8, <2>2, <3>1, SentKeeps
  <2>3. QED
    BY <2>1, <2>2
<1>10. Held'
  BY <1>1, <1>2, <1>4, <1>6, <1>7 DEF Held, Threads
<1>11. InHand'
  BY <1>1, <1>2, <1>4, <1>6 DEF InHand, Threads
<1>12. releasing \in [Threads -> ReleaseStates] /\ releasing[t].step \notin {"ticket", "delete"}
  BY <1>1, <1>2 DEF RingTypes
<1>13. Ticketed' /\ LeasesAccounted'
  BY <1>1, <1>2, <1>4, <1>6, <1>12, TicketsStay
<1>14. Marking' /\ GapMarked' /\ Reasons' /\ EndsForAReason' /\ shown' \in ShownStates
  BY <1>1, <1>2, NewestStays, ReleaseSource
<1>15. RingTypes'
  BY <1>1, <1>2, <1>6, <1>7, <1>9, <1>14 DEF RingTypes, RingTypeOK
<1>16. QED
  BY <1>9, <1>10, <1>11, <1>13, <1>14, <1>15 DEF RingIInv, Holding

LEMMA TakeProcessKeeps == ASSUME RingIInv, NEW t \in Threads, TakeProcess(t) PROVE RingIInv'
<1>1. /\ RingTypes /\ Holding /\ Workers /\ Held /\ InHand /\ Ticketed /\ LeasesAccounted
      /\ source \in SourceStates /\ reader \in ReaderStates /\ releasing[t] \in ReleaseStates
  BY DEF RingIInv, RingTypes, RingTypeOK, Holding
<1>2. /\ releasing[t].step = "process" /\ UNCHANGED <<source, ticket, lease, worker, told, shown>>
      /\ reader' = [reader EXCEPT !.process = 0]
  BY DEF TakeProcess
<1>3. PICK r : r = [releasing[t] EXCEPT !.step = "wait", !.process = reader.process]
  OBVIOUS
<1>4. r \in ReleaseStates /\ r.step = "wait" /\ r.process = reader.process /\ r.material = 0
  BY <1>1, <1>2, <1>3 DEF ReleaseStates, ReaderStates, InHand
<1>5. releasing' = [releasing EXCEPT ![t] = r]
  BY <1>3 DEF TakeProcess
<1>6. /\ releasing' \in [Threads -> ReleaseStates] /\ releasing'[t] = r
      /\ \A u \in Threads \ {t} : releasing'[u] = releasing[u]
  BY <1>1, <1>4, <1>5, ReleaseSet
<1>7. reader' \in ReaderStates /\ reader'.process = 0 /\ reader'.socket = reader.socket
  BY <1>1, <1>2 DEF ReaderStates
<1>8. Newest' = Newest
  BY <1>2, NewestStays
<1>9. Workers'
  <2>1. \A h \in Generations : SoundWorker(worker'[h]) /\ (ticket'[h] = "none" => worker'[h].step = "none")
    BY <1>1, <1>2 DEF Workers
  <2>2. ASSUME NEW h \in Generations, Running(h)
        PROVE  \E u \in Threads : releasing'[u].step = "wait" /\ releasing'[u].process = h
    <3>1. CASE h = reader.process
      BY <1>4, <1>6, <3>1
    <3>2. CASE \E u \in Threads : releasing[u].step = "wait" /\ releasing[u].process = h
      BY <1>2, <1>6, <3>2
    <3>3. QED
      BY <1>1, <2>2, <3>1, <3>2 DEF Workers
  <2>3. \A u \in Threads : releasing'[u].step = "wait" /\ releasing'[u].process # 0 =>
            worker'[releasing'[u].process].step # "none"
    BY <1>1, <1>2, <1>4, <1>6 DEF Workers
  <2>4. QED
    BY <1>1, <1>2, <1>7, <1>8, <2>1, <2>2, <2>3 DEF Workers, Running
<1>10. Held'
  BY <1>1, <1>2, <1>4, <1>6, <1>7 DEF Held, Threads
<1>11. InHand'
  BY <1>1, <1>2, <1>4, <1>6 DEF InHand, Threads
<1>12. releasing \in [Threads -> ReleaseStates] /\ releasing[t].step \notin {"ticket", "delete"}
  BY <1>1, <1>2 DEF RingTypes
<1>13. Ticketed' /\ LeasesAccounted'
  BY <1>1, <1>2, <1>4, <1>6, <1>12, TicketsStay
<1>14. Marking' /\ GapMarked' /\ Reasons' /\ EndsForAReason' /\ shown' \in ShownStates
  BY <1>1, <1>2, <1>8, ReleaseSource
<1>15. RingTypes'
  BY <1>1, <1>2, <1>6, <1>7, <1>14 DEF RingTypes, RingTypeOK
<1>16. QED
  BY <1>9, <1>10, <1>11, <1>13, <1>14, <1>15 DEF RingIInv, Holding

LEMMA AwaitWorkerKeeps == ASSUME RingIInv, NEW t \in Threads, AwaitWorker(t) PROVE RingIInv'
<1>1. /\ RingTypes /\ Holding /\ Workers /\ Held /\ InHand /\ Ticketed /\ LeasesAccounted
      /\ source \in SourceStates /\ reader \in ReaderStates /\ releasing[t] \in ReleaseStates
      /\ worker \in [Generations -> WorkerStates]
  BY DEF RingIInv, RingTypes, RingTypeOK, Holding
<1>2. /\ releasing[t].step = "wait" /\ UNCHANGED <<source, ticket, lease, told, shown>>
      /\ reader' = [reader EXCEPT !.closed = TRUE]
  BY DEF AwaitWorker
<1>3. PICK r : r = [releasing[t] EXCEPT !.step = "material"]
  OBVIOUS
<1>4. r \in ReleaseStates /\ r.step = "material" /\ r.material = 0
  BY <1>1, <1>2, <1>3 DEF ReleaseStates, InHand
<1>5. releasing' = [releasing EXCEPT ![t] = r]
  BY <1>3 DEF AwaitWorker, Step
<1>6. /\ releasing' \in [Threads -> ReleaseStates] /\ releasing'[t] = r
      /\ \A u \in Threads \ {t} : releasing'[u] = releasing[u]
  BY <1>1, <1>4, <1>5, ReleaseSet
<1>7. reader' \in ReaderStates /\ reader'.process = reader.process /\ reader'.socket = reader.socket
  BY <1>1, <1>2 DEF ReaderStates
<1>8. Newest' = Newest
  BY <1>2, NewestStays
<1>9. PICK p \in Generations \cup {0} : p = releasing[t].process
  BY <1>1 DEF ReleaseStates
<1>10. \A g \in Generations : g # 0
  BY RingSourceAssumption DEF Generations
<1>11. /\ worker' \in [Generations -> WorkerStates]
       /\ \A h \in Generations : worker'[h] = IF h = p THEN Dead ELSE worker[h]
  <2>1. Dead \in WorkerStates
    BY NothingSound DEF SoundWorker
  <2>2. CASE p = 0
    BY <1>1, <1>9, <1>10, <2>2 DEF AwaitWorker
  <2>3. CASE p # 0
    <3>1. worker' = [worker EXCEPT ![p] = Dead]
      BY <1>9, <2>3 DEF AwaitWorker
    <3>2. QED
      BY <1>1, <2>1, <2>3, <3>1
  <2>4. QED
    BY <2>2, <2>3
<1>12. Dead.step = "gone" /\ Dead.down = <<>> /\ SoundWorker(Dead)
  BY NothingSound DEF Dead, NoWorker
<1>13. p # 0 => worker[p].step # "none"
  BY <1>1, <1>2, <1>9 DEF Workers
<1>14. Workers'
  <2>1. \A h \in Generations : SoundWorker(worker'[h]) /\ (ticket'[h] = "none" => worker'[h].step = "none")
    BY <1>1, <1>2, <1>10, <1>11, <1>12, <1>13 DEF Workers
  <2>2. ASSUME NEW h \in Generations, Running(h)'
        PROVE  h = reader'.process \/ \E u \in Threads : releasing'[u].step = "wait" /\ releasing'[u].process = h
    <3>1. h # p /\ Running(h)
      BY <1>11, <1>12, <2>2 DEF Running
    <3>2. h = reader.process \/ \E u \in Threads \ {t} : releasing[u].step = "wait" /\ releasing[u].process = h
      BY <1>1, <1>9, <3>1 DEF Workers
    <3>3. QED
      BY <1>6, <1>7, <3>2
  <2>3. \A h \in Generations : worker[h].step # "none" => worker'[h].step # "none"
    BY <1>11, <1>12
  <2>4. reader'.process # 0 => worker'[reader'.process].step # "none"
    BY <1>1, <1>7, <2>3 DEF Workers, ReaderStates
  <2>5. ASSUME NEW u \in Threads, releasing'[u].step = "wait", releasing'[u].process # 0
        PROVE  worker'[releasing'[u].process].step # "none"
    <3>1. u # t /\ releasing'[u] = releasing[u]
      BY <1>4, <1>6, <2>5
    <3>2. releasing[u].process \in Generations /\ worker[releasing[u].process].step # "none"
      BY <1>1, <2>5, <3>1 DEF Workers, RingTypes, ReleaseStates
    <3>3. QED
      BY <2>3, <3>1, <3>2
  <2>6. reader'.socket # 0 => reader'.socket = Newest' /\ worker'[reader'.socket].step # "none"
    BY <1>1, <1>7, <1>8, <2>3 DEF Workers, ReaderStates
  <2>7. ASSUME source.at \in {"spawning", "attaching", "hello"}
        PROVE  /\ source.at = "spawning" => worker'[Newest].step = "none"
               /\ source.at = "attaching" => worker'[Newest].step # "none"
               /\ source.at \in {"attaching", "hello"} =>
                    /\ worker'[Newest].step \in {"starting", "hello", "gone"}
                    /\ \/ worker'[Newest].down = <<>>
                       \/ source.at = "hello" /\ reader'.socket = 0 /\ worker'[Newest].down = <<"STOP">>
    <3>1. Newest \in Generations
      BY <1>1, <2>7, NewestKnown DEF InSession, Between
    <3>2. CASE Newest = p
      BY <1>1, <1>10, <1>11, <1>12, <1>13, <3>1, <3>2 DEF Workers
    <3>3. CASE Newest # p
      BY <1>1, <1>7, <1>11, <3>1, <3>3 DEF Workers
    <3>4. QED
      BY <3>2, <3>3
  <2>8. QED
    BY <1>2, <1>8, <2>1, <2>2, <2>4, <2>5, <2>6, <2>7 DEF Workers
<1>15. Held'
  BY <1>1, <1>2, <1>4, <1>6, <1>7 DEF Held, Threads
<1>16. InHand'
  BY <1>1, <1>2, <1>4, <1>6 DEF InHand, Threads
<1>17. releasing \in [Threads -> ReleaseStates] /\ releasing[t].step \notin {"ticket", "delete"}
  BY <1>1, <1>2 DEF RingTypes
<1>18. Ticketed' /\ LeasesAccounted'
  BY <1>1, <1>2, <1>4, <1>6, <1>17, TicketsStay
<1>19. Marking' /\ GapMarked' /\ Reasons' /\ EndsForAReason' /\ shown' \in ShownStates
  BY <1>1, <1>2, <1>8, ReleaseSource
<1>20. RingTypes'
  BY <1>1, <1>2, <1>6, <1>7, <1>11, <1>19 DEF RingTypes, RingTypeOK
<1>21. QED
  BY <1>14, <1>15, <1>16, <1>18, <1>19, <1>20 DEF RingIInv, Holding

LEMMA TakeMaterialKeeps == ASSUME RingIInv, NEW t \in Threads, TakeMaterial(t) PROVE RingIInv'
<1>1. /\ RingTypes /\ Holding /\ Workers /\ Held /\ InHand /\ Ticketed /\ LeasesAccounted
      /\ source \in SourceStates /\ releasing \in [Threads -> ReleaseStates]
  BY DEF RingIInv, RingTypes, RingTypeOK, Holding
<1>2. /\ releasing[t].step = "material" /\ UNCHANGED <<reader, ticket, lease, worker, told, shown>>
      /\ source' = [source EXCEPT !.material = 0]
  BY DEF TakeMaterial
<1>3. /\ source' \in SourceStates /\ source'.material = 0 /\ source'.at = source.at /\ source'.why = source.why
      /\ source'.next = source.next /\ source'.stopping = source.stopping /\ source'.pending = source.pending
      /\ source'.used = source.used /\ source'.health = source.health
  BY <1>1, <1>2 DEF SourceStates
<1>4. PICK m \in Generations \cup {0} : m = source.material
  BY <1>1 DEF SourceStates
<1>5. PICK r : r = IF m = 0 THEN NotReleasing ELSE [step |-> "ticket", process |-> 0, material |-> m]
  OBVIOUS
<1>6. /\ r \in ReleaseStates /\ r.process = 0 /\ r.material = m /\ (r.step = "ticket" <=> m # 0) /\ (r.step = "out" <=> m = 0)
      /\ r.step \in {"ticket", "out"}
  <2>1. CASE m = 0
    BY <1>5, <2>1 DEF ReleaseStates, NotReleasing
  <2>2. CASE m # 0
    BY <1>5, <2>2 DEF ReleaseStates
  <2>3. QED
    BY <2>1, <2>2
<1>7. releasing' = [releasing EXCEPT ![t] = r]
  BY <1>4, <1>5 DEF TakeMaterial
<1>8. /\ releasing' \in [Threads -> ReleaseStates] /\ releasing'[t] = r
      /\ \A u \in Threads \ {t} : releasing'[u] = releasing[u]
  BY <1>1, <1>6, <1>7, ReleaseSet
<1>9. WaitsStay
  BY <1>2, <1>6, <1>8 DEF WaitsStay
<1>10. Workers'
  BY <1>1, <1>2, <1>3, <1>9, WorkersStay
<1>11. Newest' = Newest
  BY <1>2, NewestStays
<1>12. Held'
  BY <1>1, <1>2, <1>3, <1>6, <1>8 DEF Held, Threads
<1>13. InHand'
  <2>1. (t = "capture" /\ source.at = "releasing") \/ (t = "closer" /\ told = "closing")
    BY <1>1, <1>2, ReleaseOngoing
  <2>2. \A u \in Threads :
          /\ releasing'[u].step \notin {"wait", "material"} => releasing'[u].process = 0
          /\ releasing'[u].step \notin {"ticket", "delete"} <=> releasing'[u].material = 0
    BY <1>1, <1>6, <1>8 DEF InHand
  <2>3. QED
    BY <1>1, <1>2, <1>3, <1>8, <2>1, <2>2 DEF InHand, Threads
<1>14. Ticketed'
  <2>1. releasing[t].material = 0 /\ releasing[t].step \notin {"ticket", "delete"}
    BY <1>1, <1>2 DEF InHand
  <2>2. \A u \in Threads :
          /\ releasing'[u].step = "ticket" => ticket'[releasing'[u].material] \in {"open", "negotiated"}
          /\ releasing'[u].step = "delete" => ticket'[releasing'[u].material] \in {"released", "overtaken"}
          /\ releasing'[u].material # 0 => releasing'[u].material # source'.material
    BY <1>1, <1>2, <1>3, <1>4, <1>6, <1>8 DEF Ticketed
  <2>3. releasing'["capture"].material # 0 => releasing'["capture"].material # releasing'["closer"].material
    BY <1>1, <1>4, <1>6, <1>8 DEF Ticketed, Threads
  <2>4. ASSUME NEW g \in Generations, ticket[g] \in {"open", "negotiated"}
        PROVE  \E u \in Threads : releasing'[u].step = "ticket" /\ releasing'[u].material = g
    <3>1. CASE g = m
      <4>1. m # 0
        BY <3>1, RingSourceAssumption DEF Generations
      <4>2. QED
        BY <1>6, <1>8, <3>1, <4>1
    <3>2. CASE g # m
      <4>1. PICK u \in Threads : releasing[u].step = "ticket" /\ releasing[u].material = g
        BY <1>1, <1>4, <2>4, <3>2 DEF Ticketed
      <4>2. QED
        BY <1>8, <2>1, <4>1
    <3>3. QED
      BY <3>1, <3>2
  <2>5. InSession' = InSession /\ \A g \in Generations : Topmost(g)' <=> Topmost(g)
    BY <1>2, <1>3 DEF InSession, Topmost
  <2>6. QED
    BY <1>1, <1>2, <1>3, <1>11, <2>2, <2>3, <2>4, <2>5 DEF Ticketed
<1>15. LeasesAccounted'
  <2>1. DOMAIN releasing = Threads /\ DOMAIN releasing' = Threads
    BY <1>1, <1>8
  <2>2. QED
    BY <1>1, <1>2, <1>8, <2>1 DEF LeasesAccounted
<1>16. Marking' /\ GapMarked' /\ Reasons' /\ EndsForAReason' /\ shown' \in ShownStates
  BY <1>2, <1>3, <1>11, ReleaseSource
<1>17. RingTypes'
  BY <1>1, <1>2, <1>3, <1>8, <1>16 DEF RingTypes, RingTypeOK
<1>18. QED
  BY <1>10, <1>12, <1>13, <1>14, <1>15, <1>16, <1>17 DEF RingIInv, Holding

LEMMA ReleaseTicketKeeps == ASSUME RingIInv, NEW t \in Threads, ReleaseTicket(t) PROVE RingIInv'
<1>1. /\ RingTypes /\ Holding /\ Workers /\ Held /\ InHand /\ Ticketed /\ LeasesAccounted
      /\ source \in SourceStates /\ releasing \in [Threads -> ReleaseStates]
      /\ ticket \in [Generations -> {"none", "open", "negotiated", "released", "overtaken"}]
  BY DEF RingIInv, RingTypes, RingTypeOK, Holding
<1>2. releasing[t].step = "ticket" /\ UNCHANGED <<source, reader, lease, worker, told, shown>>
  BY DEF ReleaseTicket
<1>3. PICK g \in Generations : g = releasing[t].material
  BY <1>1, <1>2 DEF InHand, ReleaseStates
<1>4. PICK how \in {"released", "overtaken"} : how = IF source.at = "posting" THEN "overtaken" ELSE "released"
  OBVIOUS
<1>5. ticket' = [ticket EXCEPT ![g] = how]
  BY <1>3, <1>4 DEF ReleaseTicket
<1>6. /\ ticket' \in [Generations -> {"none", "open", "negotiated", "released", "overtaken"}]
      /\ \A h \in Generations : ticket'[h] = IF h = g THEN how ELSE ticket[h]
  BY <1>1, <1>4, <1>5
<1>7. ticket[g] \in {"open", "negotiated"}
  BY <1>1, <1>2, <1>3 DEF Ticketed
<1>8. \A h \in Generations : ticket'[h] = "none" <=> ticket[h] = "none"
  BY <1>4, <1>6, <1>7
<1>9. PICK r : r = IF ticket[g] = "negotiated" THEN [releasing[t] EXCEPT !.step = "delete"] ELSE NotReleasing
  OBVIOUS
<1>10. /\ r \in ReleaseStates /\ r.process = 0
       /\ \/ r.step = "delete" /\ r.material = g /\ ticket[g] = "negotiated"
          \/ r.step = "out" /\ r.material = 0 /\ ticket[g] = "open"
  <2>1. CASE ticket[g] = "negotiated"
    BY <1>1, <1>2, <1>3, <1>9, <2>1 DEF ReleaseStates, InHand
  <2>2. CASE ticket[g] # "negotiated"
    BY <1>7, <1>9, <2>2 DEF ReleaseStates, NotReleasing
  <2>3. QED
    BY <2>1, <2>2
<1>11. releasing' = [releasing EXCEPT ![t] = r]
  BY <1>3, <1>9 DEF ReleaseTicket, Step
<1>12. /\ releasing' \in [Threads -> ReleaseStates] /\ releasing'[t] = r
       /\ \A u \in Threads \ {t} : releasing'[u] = releasing[u]
  BY <1>1, <1>10, <1>11, ReleaseSet
<1>13. WaitsStay
  BY <1>2, <1>10, <1>12 DEF WaitsStay
<1>14. Workers'
  BY <1>1, <1>2, <1>8, <1>13, WorkersStay
<1>15. Newest' = Newest
  BY <1>8, NewestStays
<1>16. \A h \in Generations : h # 0
  BY RingSourceAssumption DEF Generations
<1>17. \A u \in Threads \ {t} : releasing[u].material # g
  BY <1>1, <1>3, <1>16 DEF Ticketed, Threads
<1>18. Held'
  BY <1>1, <1>2, <1>10, <1>12 DEF Held, Threads
<1>19. InHand'
  <2>1. (t = "capture" /\ source.at = "releasing") \/ (t = "closer" /\ told = "closing")
    BY <1>1, <1>2, ReleaseOngoing
  <2>2. \A u \in Threads :
          /\ releasing'[u].step \notin {"wait", "material"} => releasing'[u].process = 0
          /\ releasing'[u].step \notin {"ticket", "delete"} <=> releasing'[u].material = 0
    BY <1>1, <1>10, <1>12, <1>16 DEF InHand
  <2>3. QED
    BY <1>1, <1>2, <1>12, <2>1, <2>2 DEF InHand, Threads
<1>20. Ticketed'
  <2>1. \A u \in Threads \ {t} : releasing[u].material \in Generations => ticket'[releasing[u].material] = ticket[releasing[u].material]
    BY <1>6, <1>17
  <2>2. ASSUME NEW u \in Threads
        PROVE  /\ releasing'[u].step = "ticket" => ticket'[releasing'[u].material] \in {"open", "negotiated"}
               /\ releasing'[u].step = "delete" => ticket'[releasing'[u].material] \in {"released", "overtaken"}
               /\ releasing'[u].material # 0 => releasing'[u].material # source'.material
    <3>1. CASE u = t
      BY <1>1, <1>2, <1>3, <1>4, <1>6, <1>10, <1>12, <1>16, <3>1 DEF Ticketed
    <3>2. CASE u # t
      <4>1. releasing[u].step \in {"ticket", "delete"} => releasing[u].material \in Generations
        BY <1>1 DEF InHand, ReleaseStates
      <4>2. QED
        BY <1>1, <1>2, <1>12, <2>1, <3>2, <4>1 DEF Ticketed
    <3>3. QED
      BY <3>1, <3>2
  <2>3. releasing'["capture"].material # 0 => releasing'["capture"].material # releasing'["closer"].material
    BY <1>1, <1>10, <1>12, <1>16, <1>17 DEF Ticketed, Threads
  <2>4. ASSUME NEW h \in Generations, ticket'[h] \in {"open", "negotiated"}
        PROVE  h = source.material \/ \E u \in Threads : releasing'[u].step = "ticket" /\ releasing'[u].material = h
    <3>1. h # g /\ ticket[h] \in {"open", "negotiated"}
      BY <1>4, <1>6, <2>4
    <3>2. h = source.material \/ \E u \in Threads \ {t} : releasing[u].step = "ticket" /\ releasing[u].material = h
      BY <1>1, <1>3, <3>1 DEF Ticketed
    <3>3. QED
      BY <1>12, <3>2
  <2>5. source.material # 0 => ticket'[source.material] \in {"open", "negotiated"}
    <3>1. source.material # g
      BY <1>1, <1>3, <1>16 DEF Ticketed
    <3>2. source.material # 0 => source.material \in Generations
      BY <1>1 DEF SourceStates
    <3>3. QED
      BY <1>1, <1>6, <3>1, <3>2 DEF Ticketed
  <2>6. source.at = "posting" => ticket'[Newest] \in {"negotiated", "overtaken"}
    <3>1. source.at = "posting" => Newest \in Generations
      BY <1>1, NewestKnown DEF InSession, Between
    <3>2. QED
      BY <1>1, <1>4, <1>6, <3>1 DEF Ticketed
  <2>7. InSession' = InSession /\ \A h \in Generations : Topmost(h)' <=> Topmost(h)
    BY <1>2, <1>8 DEF InSession, Topmost
  <2>8. QED
    BY <1>1, <1>2, <1>8, <1>15, <2>2, <2>3, <2>4, <2>5, <2>6, <2>7 DEF Ticketed
<1>21. LeasesAccounted'
  <2>1. DOMAIN releasing = Threads /\ DOMAIN releasing' = Threads
    BY <1>1, <1>12
  <2>2. ASSUME NEW h \in Generations, lease[h] = "held"
        PROVE  \/ ticket'[h] \in {"negotiated", "overtaken"}
               \/ \E u \in Threads : releasing'[u].step = "delete" /\ releasing'[u].material = h
    <3>1. CASE h = g
      <4>1. ticket[g] = "negotiated"
        BY <1>1, <1>7, <2>1, <2>2, <3>1 DEF LeasesAccounted, Ticketed
      <4>2. QED
        BY <1>10, <1>12, <3>1, <4>1
    <3>2. CASE h # g
      BY <1>1, <1>2, <1>6, <1>12, <2>1, <2>2, <3>2 DEF LeasesAccounted
    <3>3. QED
      BY <3>1, <3>2
  <2>3. QED
    BY <1>2, <2>1, <2>2 DEF LeasesAccounted
<1>22. Marking' /\ GapMarked' /\ Reasons' /\ EndsForAReason' /\ shown' \in ShownStates
  BY <1>1, <1>2, <1>15, ReleaseSource
<1>23. RingTypes'
  BY <1>1, <1>2, <1>6, <1>12, <1>22 DEF RingTypes, RingTypeOK
<1>24. QED
  BY <1>14, <1>18, <1>19, <1>20, <1>21, <1>22, <1>23 DEF RingIInv, Holding

LEMMA DeleteLeaseKeeps == ASSUME RingIInv, NEW t \in Threads, DeleteLease(t) PROVE RingIInv'
<1>1. /\ RingTypes /\ Holding /\ Workers /\ Held /\ InHand /\ Ticketed /\ LeasesAccounted
      /\ source \in SourceStates /\ releasing \in [Threads -> ReleaseStates]
      /\ lease \in [Generations -> {"none", "held", "deleted", "lost", "left"}]
  BY DEF RingIInv, RingTypes, RingTypeOK, Holding
<1>2. releasing[t].step = "delete" /\ UNCHANGED <<source, reader, ticket, worker, told, shown>>
  BY DEF DeleteLease
<1>3. PICK g \in Generations : g = releasing[t].material
  BY <1>1, <1>2 DEF InHand, ReleaseStates
<1>4. PICK r \in ReleaseStates : r = NotReleasing
  BY DEF ReleaseStates, NotReleasing
<1>5. r.step = "out" /\ r.process = 0 /\ r.material = 0 /\ releasing' = [releasing EXCEPT ![t] = r]
  BY <1>4 DEF NotReleasing, DeleteLease
<1>6. /\ releasing' \in [Threads -> ReleaseStates] /\ releasing'[t] = r
      /\ \A u \in Threads \ {t} : releasing'[u] = releasing[u]
  BY <1>1, <1>5, ReleaseSet
<1>7. /\ lease' \in [Generations -> {"none", "held", "deleted", "lost", "left"}]
      /\ lease'[g] # "held" /\ \A h \in Generations \ {g} : lease'[h] = lease[h]
  <2>1. CASE lease[g] = "held"
    <3>1. PICK left \in {"deleted", "left"} : lease' = [lease EXCEPT ![g] = left]
      BY <1>3, <2>1 DEF DeleteLease
    <3>2. QED
      BY <1>1, <3>1
  <2>2. CASE lease[g] # "held"
    BY <1>1, <1>3, <2>2 DEF DeleteLease
  <2>3. QED
    BY <2>1, <2>2
<1>8. WaitsStay
  BY <1>2, <1>5, <1>6 DEF WaitsStay
<1>9. Workers'
  BY <1>1, <1>2, <1>8, WorkersStay
<1>10. Newest' = Newest
  BY <1>2, NewestStays
<1>11. Held'
  BY <1>1, <1>2, <1>5, <1>6 DEF Held, Threads
<1>12. InHand'
  BY <1>1, <1>2, <1>5, <1>6 DEF InHand, Threads
<1>13. ticket[g] \in {"released", "overtaken"}
  BY <1>1, <1>2, <1>3 DEF Ticketed
<1>14. Ticketed'
  <2>1. \A u \in Threads :
          /\ releasing'[u].step = "ticket" => ticket'[releasing'[u].material] \in {"open", "negotiated"}
          /\ releasing'[u].step = "delete" => ticket'[releasing'[u].material] \in {"released", "overtaken"}
          /\ releasing'[u].material # 0 => releasing'[u].material # source'.material
    BY <1>1, <1>2, <1>5, <1>6 DEF Ticketed
  <2>2. releasing'["capture"].material # 0 => releasing'["capture"].material # releasing'["closer"].material
    BY <1>1, <1>5, <1>6 DEF Ticketed, Threads
  <2>3. ASSUME NEW h \in Generations, ticket[h] \in {"open", "negotiated"}
        PROVE  h = source.material \/ \E u \in Threads : releasing'[u].step = "ticket" /\ releasing'[u].material = h
    <3>1. h = source.material \/ \E u \in Threads \ {t} : releasing[u].step = "ticket" /\ releasing[u].material = h
      BY <1>1, <1>2, <2>3 DEF Ticketed
    <3>2. QED
      BY <1>6, <3>1
  <2>4. InSession' = InSession /\ \A h \in Generations : Topmost(h)' <=> Topmost(h)
    BY <1>2 DEF InSession, Topmost
  <2>5. QED
    BY <1>1, <1>2, <1>10, <2>1, <2>2, <2>3, <2>4 DEF Ticketed
<1>15. LeasesAccounted'
  <2>1. DOMAIN releasing = Threads /\ DOMAIN releasing' = Threads
    BY <1>1, <1>6
  <2>2. ASSUME NEW h \in Generations, lease'[h] = "held"
        PROVE  \/ ticket[h] \in {"negotiated", "overtaken"}
               \/ \E u \in Threads : releasing'[u].step = "delete" /\ releasing'[u].material = h
    <3>1. h # g /\ lease[h] = "held"
      BY <1>7, <2>2
    <3>2. QED
      BY <1>1, <1>3, <1>6, <2>1, <3>1 DEF LeasesAccounted
  <2>3. QED
    BY <1>2, <2>1, <2>2 DEF LeasesAccounted
<1>16. Marking' /\ GapMarked' /\ Reasons' /\ EndsForAReason' /\ shown' \in ShownStates
  BY <1>1, <1>2, <1>10, ReleaseSource
<1>17. RingTypes'
  BY <1>1, <1>2, <1>6, <1>7, <1>16 DEF RingTypes, RingTypeOK
<1>18. QED
  BY <1>9, <1>11, <1>12, <1>14, <1>15, <1>16, <1>17 DEF RingIInv, Holding

LEMMA CloseSourceKeeps == ASSUME RingIInv, CloseSource PROVE RingIInv'
<1>1. /\ RingTypes /\ Holding /\ Workers /\ Held /\ InHand /\ Ticketed /\ LeasesAccounted /\ Marking /\ GapMarked /\ Reasons
      /\ source \in SourceStates /\ releasing \in [Threads -> ReleaseStates] /\ "closer" \in Threads
  BY DEF RingIInv, RingTypes, RingTypeOK, Holding, Threads
<1>2. /\ told = "no" /\ told' = "closing" /\ source' = [source EXCEPT !.stopping = TRUE]
      /\ UNCHANGED <<reader, ticket, lease, worker, shown>>
  BY DEF CloseSource
<1>3. /\ source' \in SourceStates /\ source'.material = source.material /\ source'.at = source.at /\ source'.why = source.why
      /\ source'.next = source.next /\ source'.pending = source.pending /\ source'.health = source.health
  BY <1>1, <1>2 DEF SourceStates
<1>4. releasing["closer"].step = "out" /\ releasing["closer"].process = 0 /\ releasing["closer"].material = 0
  BY <1>1, <1>2 DEF InHand
<1>5. PICK r : r = [releasing["closer"] EXCEPT !.step = "socket"]
  OBVIOUS
<1>6. r \in ReleaseStates /\ r.step = "socket" /\ r.process = 0 /\ r.material = 0
  BY <1>1, <1>4, <1>5 DEF ReleaseStates
<1>7. releasing' = [releasing EXCEPT !["closer"] = r]
  BY <1>5 DEF CloseSource, Letting
<1>8. /\ releasing' \in [Threads -> ReleaseStates] /\ releasing'["closer"] = r
      /\ \A u \in Threads \ {"closer"} : releasing'[u] = releasing[u]
  BY <1>1, <1>6, <1>7, ReleaseSet
<1>9. releasing'["capture"] = releasing["capture"]
  BY <1>8 DEF Threads
<1>10. WaitsStay
  BY <1>4, <1>6, <1>8 DEF WaitsStay
<1>11. Workers'
  BY <1>1, <1>2, <1>3, <1>10, WorkersStay
<1>12. Newest' = Newest
  BY <1>2, NewestStays
<1>13. Held'
  BY <1>1, <1>2, <1>3, <1>9 DEF Held
<1>14. InHand'
  BY <1>1, <1>2, <1>3, <1>6, <1>8, <1>9 DEF InHand
<1>15. \A u \in Threads :
          /\ releasing'[u].material = releasing[u].material
          /\ releasing'[u].step = "ticket" <=> releasing[u].step = "ticket"
          /\ releasing'[u].step = "delete" <=> releasing[u].step = "delete"
  BY <1>4, <1>6, <1>8
<1>16. Ticketed'
  <2>1. \A u \in Threads :
          /\ releasing'[u].step = "ticket" => ticket'[releasing'[u].material] \in {"open", "negotiated"}
          /\ releasing'[u].step = "delete" => ticket'[releasing'[u].material] \in {"released", "overtaken"}
          /\ releasing'[u].material # 0 => releasing'[u].material # source'.material
    BY <1>1, <1>2, <1>3, <1>15 DEF Ticketed
  <2>2. releasing'["capture"].material # 0 => releasing'["capture"].material # releasing'["closer"].material
    BY <1>1, <1>15 DEF Ticketed, Threads
  <2>3. \A h \in Generations : ticket'[h] \in {"open", "negotiated"} =>
          h = source'.material \/ \E u \in Threads : releasing'[u].step = "ticket" /\ releasing'[u].material = h
    BY <1>1, <1>2, <1>3, <1>15 DEF Ticketed
  <2>4. InSession' = InSession /\ \A h \in Generations : Topmost(h)' <=> Topmost(h)
    BY <1>2, <1>3 DEF InSession, Topmost
  <2>5. QED
    BY <1>1, <1>2, <1>3, <1>12, <2>1, <2>2, <2>3, <2>4 DEF Ticketed
<1>17. LeasesAccounted'
  <2>1. DOMAIN releasing = Threads /\ DOMAIN releasing' = Threads
    BY <1>1, <1>8
  <2>2. QED
    BY <1>1, <1>2, <1>15, <2>1 DEF LeasesAccounted
<1>18. Marking' /\ GapMarked' /\ Reasons' /\ EndsForAReason'
  <2>1. Marking' /\ GapMarked'
    BY <1>1, <1>2, <1>3, <1>12 DEF Marking, GapMarked
  <2>2. Reasons' /\ EndsForAReason'
    BY <1>1, <1>2, <1>3 DEF Reasons, EndsForAReason
  <2>3. QED
    BY <2>1, <2>2
<1>19. RingTypes'
  BY <1>1, <1>2, <1>3, <1>8 DEF RingTypes, RingTypeOK
<1>20. QED
  BY <1>11, <1>13, <1>14, <1>16, <1>17, <1>18, <1>19 DEF RingIInv, Holding

LEMMA ClosedKeeps == ASSUME RingIInv, Closed PROVE RingIInv'
<1>1. /\ RingTypes /\ Holding /\ Workers /\ Held /\ InHand /\ Ticketed /\ LeasesAccounted /\ Marking /\ GapMarked /\ Reasons
      /\ source \in SourceStates
  BY DEF RingIInv, RingTypes, RingTypeOK, Holding
<1>2. /\ told' = "closed" /\ releasing["closer"].step = "out" /\ UNCHANGED <<reader, ticket, lease, worker, releasing, shown>>
  BY DEF Closed
<1>3. PICK health : health = IF source.health = "FAILED" THEN "FAILED" ELSE "STOPPED"
  OBVIOUS
<1>4. source' = [source EXCEPT !.health = health] /\ health \in {"FAILED", "STOPPED"}
  BY <1>3 DEF Closed
<1>5. /\ source' \in SourceStates /\ source'.material = source.material /\ source'.at = source.at /\ source'.why = source.why
      /\ source'.next = source.next /\ source'.pending = source.pending /\ source'.health = health
  BY <1>1, <1>4 DEF SourceStates
<1>6. Workers'
  BY <1>1, <1>2, <1>5, WorkersStay, WaitsSame
<1>7. Newest' = Newest
  BY <1>2, NewestStays
<1>8. Held' /\ InHand'
  BY <1>1, <1>2, <1>5 DEF Held, InHand
<1>9. Ticketed' /\ LeasesAccounted'
  BY <1>1, <1>2, <1>5, <1>7 DEF Ticketed, LeasesAccounted, InSession, Topmost
<1>10. Marking' /\ GapMarked'
  BY <1>1, <1>2, <1>5, <1>7 DEF Marking, GapMarked
<1>11. Reasons' /\ EndsForAReason'
  BY <1>1, <1>2, <1>3, <1>5 DEF Reasons, EndsForAReason
<1>12. RingTypes'
  BY <1>1, <1>2, <1>5 DEF RingTypes, RingTypeOK
<1>13. QED
  BY <1>6, <1>8, <1>9, <1>10, <1>11, <1>12 DEF RingIInv, Holding

LEMMA WorkerStepKeeps == ASSUME RingIInv, WorkerStep PROVE RingIInv'
<1>1. /\ RingTypes /\ Holding /\ Workers /\ Held /\ InHand /\ Ticketed /\ LeasesAccounted /\ Marking /\ GapMarked /\ Reasons
      /\ EndsForAReason /\ worker \in [Generations -> WorkerStates]
  BY DEF RingIInv, RingTypes, Holding
<1>2. UNCHANGED <<source, reader, ticket, lease, releasing, told, shown>>
  BY DEF WorkerStep, Parent
<1>3. PICK g \in Generations : WorkerTurns(g)
  BY DEF WorkerStep, WorkerTurns
<1>4. PICK w : w = worker[g]
  OBVIOUS
<1>5. SoundWorker(worker[g])
  BY <1>1 DEF Workers
<1>6. Running(g) /\ \E v : worker' = [worker EXCEPT ![g] = v] /\ Turned(worker[g], v)
  BY <1>3, <1>5, WorkerTurned
<1>7. PICK v : worker' = [worker EXCEPT ![g] = v] /\ Turned(w, v)
  BY <1>4, <1>6
<1>8. SoundWorker(v) /\ v.step \notin {"none", "starting"} /\ w.step \notin {"none", "gone"}
  BY <1>4, <1>6, <1>7 DEF Turned, Running
<1>9. g = Newest /\ source'.at \in {"attaching", "hello"} =>
        /\ v.step \in {"starting", "hello", "gone"}
        /\ v.down = <<>> \/ (source'.at = "hello" /\ reader'.socket = 0 /\ v.down = <<"STOP">>)
  <2>1. SUFFICES ASSUME g = Newest, source.at \in {"attaching", "hello"}
                 PROVE  /\ v.step \in {"hello", "gone"}
                        /\ v.down = <<>> \/ (source.at = "hello" /\ reader.socket = 0 /\ v.down = <<"STOP">>)
    BY <1>2
  <2>2. /\ w.step \in {"starting", "hello", "gone"}
        /\ w.down = <<>> \/ (source.at = "hello" /\ reader.socket = 0 /\ w.down = <<"STOP">>)
    BY <1>1, <1>4, <2>1 DEF Workers
  <2>3. Waiting(w)
    BY <1>8, <2>2 DEF Waiting
  <2>4. QED
    BY <1>7, <2>2, <2>3 DEF Turned
<1>10. Workers' /\ worker' \in [Generations -> WorkerStates]
  BY <1>1, <1>2, <1>4, <1>7, <1>8, <1>9, WorkersTurn, WaitsSame
<1>11. Newest' = Newest
  BY <1>2, NewestStays
<1>12. Held' /\ InHand' /\ GapMarked' /\ Reasons' /\ EndsForAReason'
  BY <1>1, <1>2 DEF Held, InHand, GapMarked, Reasons, EndsForAReason
<1>13. Ticketed' /\ LeasesAccounted' /\ Marking'
  BY <1>1, <1>2, <1>11 DEF Ticketed, LeasesAccounted, Marking, InSession, Topmost
<1>14. RingTypes'
  BY <1>1, <1>2, <1>10 DEF RingTypes, RingTypeOK
<1>15. QED
  BY <1>10, <1>12, <1>13, <1>14 DEF RingIInv, Holding

-----------------------------------------------------------------------------
(* RingSource: every step, and what the invariant is for *)

LEMMA RingStart == RingInit => RingIInv
<1> SUFFICES ASSUME RingInit PROVE RingIInv
  OBVIOUS
<1>1. /\ source.at = "new" /\ source.why = "none" /\ source.next = "ended" /\ ~source.stopping /\ ~source.pending
      /\ source.health = "STARTING" /\ source.material = 0 /\ source \in SourceStates
  <2>1. 0 \in 0..MaxRetries /\ "new" \in Places
    BY RingSourceAssumption DEF Places
  <2>2. QED
    BY <2>1 DEF RingInit, SourceStates
<1>2. reader \in ReaderStates /\ reader.process = 0 /\ reader.socket = 0
  BY DEF RingInit, NoReader, ReaderStates
<1>3. /\ NoWorker \in WorkerStates /\ NoWorker.step = "none" /\ SoundWorker(NoWorker)
      /\ worker = [g \in Generations |-> NoWorker]
  BY NothingSound DEF RingInit, NoWorker, SoundWorker
<1>4. \A g \in Generations : worker[g].step = "none" /\ SoundWorker(worker[g]) /\ ticket[g] = "none" /\ lease[g] = "none"
  BY <1>3 DEF RingInit
<1>5. NotReleasing \in ReleaseStates /\ NotReleasing.step = "out" /\ NotReleasing.process = 0 /\ NotReleasing.material = 0
  BY DEF NotReleasing, ReleaseStates
<1>6. /\ releasing \in [Threads -> ReleaseStates] /\ told = "no"
      /\ \A t \in Threads : releasing[t].step = "out" /\ releasing[t].process = 0 /\ releasing[t].material = 0
  BY <1>5 DEF RingInit, Threads
<1>7. shown \in ShownStates /\ shown.from = 0 /\ shown.before = 0
  BY DEF RingInit, ShownStates
<1>8. RingTypes
  BY <1>1, <1>2, <1>3, <1>6, <1>7 DEF RingTypes, RingTypeOK, RingInit
<1>9. Held /\ InHand /\ LeasesAccounted
  BY <1>1, <1>2, <1>4, <1>6 DEF Held, InHand, LeasesAccounted, Threads
<1>10. Ticketed /\ Workers
  BY <1>1, <1>2, <1>4, <1>6 DEF Ticketed, Workers, InSession, Between, Running, Threads
<1>11. Marking /\ GapMarked /\ Reasons /\ EndsForAReason
  BY <1>1, <1>6, <1>7 DEF Marking, GapMarked, Reasons, EndsForAReason
<1>12. QED
  BY <1>8, <1>9, <1>10, <1>11 DEF RingIInv, Holding

LEMMA RingStepKeeps == ASSUME RingIInv, [RingSourceNext]_ringVars PROVE RingIInv'
<1>1. CASE SourceStep
  <2>1. CASE BetweenSteps \/ (Turn /\ ~source.stopping)
    BY <2>1, BetweenKeeps
  <2>2. CASE CannotStart \/ Awaiting \/ NoLongerOurs \/ ExchangeFails \/ Interrupted \/ (Turn /\ source.stopping)
             \/ (Resume /\ (source.stopping \/ told # "no"))
    BY <2>2, LeavingKeeps
  <2>3. CASE Acquire
    BY <2>3, AcquireKeeps
  <2>4. CASE Spawn \/ Attach
    BY <2>4, SpawnKeeps, AttachKeeps
  <2>5. CASE Hello \/ Offer
    BY <2>5, HelloKeeps, OfferKeeps
  <2>6. CASE Negotiate \/ Answered201 \/ SendAnswer
    BY <2>6, NegotiationKeeps, SendAnswerKeeps
  <2>7. CASE ReadFrame \/ (Resume /\ ~source.stopping /\ told = "no")
    BY <2>7, ReadFrameKeeps, ResumeKeeps
  <2>8. CASE ReleaseStep("capture")
    BY <2>8, TakeSocketKeeps, TakeProcessKeeps, AwaitWorkerKeeps, TakeMaterialKeeps, ReleaseTicketKeeps, DeleteLeaseKeeps
       DEF ReleaseStep, Threads
  <2>9. QED
    BY <1>1, <2>1, <2>2, <2>3, <2>4, <2>5, <2>6, <2>7, <2>8 DEF SourceStep, BetweenSteps
<1>2. CASE CloseSource
  BY <1>2, CloseSourceKeeps
<1>3. CASE CloserStep
  BY <1>3, ClosedKeeps, TakeSocketKeeps, TakeProcessKeeps, AwaitWorkerKeeps, TakeMaterialKeeps, ReleaseTicketKeeps,
     DeleteLeaseKeeps DEF CloserStep, ReleaseStep, Threads
<1>4. CASE WorkerStep
  BY <1>4, WorkerStepKeeps
<1>5. CASE UNCHANGED ringVars
  <2>1. UNCHANGED <<source, reader, ticket, lease, worker, releasing, told, shown>>
    BY <1>5 DEF ringVars
  <2>2. Newest' = Newest
    BY <2>1, NewestStays
  <2>3. RingTypes' /\ GapMarked' /\ Reasons' /\ EndsForAReason'
    BY <2>1 DEF RingIInv, RingTypes, RingTypeOK, GapMarked, Reasons, EndsForAReason
  <2>4. Held' /\ InHand' /\ LeasesAccounted' /\ Ticketed'
    BY <2>1, <2>2 DEF RingIInv, Holding, Held, InHand, LeasesAccounted, Ticketed, InSession, Topmost
  <2>5. Workers' /\ Marking'
    BY <2>1, <2>2 DEF RingIInv, Workers, Marking, Running
  <2>6. QED
    BY <2>3, <2>4, <2>5 DEF RingIInv, Holding
<1>6. QED
  BY <1>1, <1>2, <1>3, <1>4, <1>5 DEF RingSourceNext

LEMMA AtMostOne == ASSUME NEW S, NEW x, S \subseteq {x} PROVE Cardinality(S) <= 1
<1>1. IsFiniteSet({}) /\ Cardinality({}) = 0
  BY FS_EmptySet
<1>2. IsFiniteSet({x}) /\ Cardinality({x}) = 1
  <2>1. x \notin {} /\ {} \cup {x} = {x}
    OBVIOUS
  <2>2. IsFiniteSet({} \cup {x}) /\ Cardinality({} \cup {x}) = Cardinality({}) + 1
    BY <1>1, <2>1, FS_AddElement
  <2>3. QED
    BY <1>1, <2>1, <2>2
<1>3. Cardinality(S) <= Cardinality({x})
  BY <1>2, FS_Subset
<1>4. QED
  BY <1>2, <1>3

LEMMA RingFollows == ASSUME RingIInv PROVE RingSourceInv
<1>1. /\ RingTypes /\ Holding /\ Workers /\ Held /\ InHand /\ Ticketed /\ LeasesAccounted /\ GapMarked /\ EndsForAReason
      /\ RingTypeOK /\ DOMAIN releasing = Threads
  BY DEF RingIInv, RingTypes, Holding
<1>2. OneRingSession
  <2>1. {g \in Generations : ticket[g] \in {"open", "negotiated"} /\ ~GivenUp(g)} \subseteq {source.material}
    BY <1>1 DEF Ticketed, GivenUp
  <2>2. {g \in Generations : Running(g) /\ ~GivenUp(g)} \subseteq {reader.process}
    BY <1>1 DEF Workers, GivenUp
  <2>3. QED
    BY <2>1, <2>2, AtMostOne DEF OneRingSession
<1>3. NothingLeftBehind
  <2>1. SUFFICES ASSUME source.at = "ended", told # "closing"
                 PROVE  /\ reader.process = 0 /\ reader.socket = 0 /\ source.material = 0
                        /\ \A g \in Generations : ~Running(g) /\ ticket[g] \notin {"open", "negotiated"}
                        /\ \A g \in Generations : lease[g] = "held" => ticket[g] = "overtaken"
    BY DEF NothingLeftBehind
  <2>2. reader.process = 0 /\ reader.socket = 0 /\ source.material = 0
    BY <1>1, <2>1 DEF Held, Between
  <2>3. \A t \in Threads : releasing[t].step = "out"
    BY <1>1, <2>1 DEF InHand, Threads
  <2>4. \A g \in Generations : g # 0
    BY RingSourceAssumption DEF Generations
  <2>5. \A g \in Generations : ~Running(g) /\ ticket[g] \notin {"open", "negotiated"}
    BY <1>1, <2>2, <2>3, <2>4 DEF Workers, Ticketed
  <2>6. \A g \in Generations : lease[g] = "held" => ticket[g] = "overtaken"
    BY <1>1, <2>3, <2>5 DEF LeasesAccounted
  <2>7. QED
    BY <2>2, <2>5, <2>6
<1>4. FewInFlight
  BY <1>1 DEF Workers, FewInFlight, SoundWorker, Running, Counted
<1>5. QED
  BY <1>1, <1>2, <1>3, <1>4 DEF RingSourceInv

\* ring.py, ring_gst.py, webrtc_worker.py: whatever the capture thread, close(), the worker and the
\* broker do and however they interleave, the seven parts of RingSourceInv hold.
THEOREM RingSourceSafe == RingSourceSpec => []RingSourceInv
<1>1. RingInit => RingIInv
  BY RingStart
<1>2. RingIInv /\ [RingSourceNext]_ringVars => RingIInv'
  BY RingStepKeeps
<1>3. RingIInv => RingSourceInv
  BY RingFollows
<1>4. QED
  BY <1>1, <1>2, <1>3, PTL DEF RingSourceSpec

-----------------------------------------------------------------------------
(* EdgeRelease: the inductive invariant *)

ActivateSteps == {"switch", "verify", "restore", "record", "reload", "enable", "restart", "health"}
InstallSteps == {"copy", "verify", "reload", "disable"}
\* A step belongs to the command that has it.
Owned ==
    /\ root.cmd = "none" <=> root = Idle
    /\ root.cmd = "install" => root.step \in InstallSteps
    /\ root.cmd = "activate" => root.step \in ActivateSteps
\* Until it has recorded, an activation may still put back what was current.
Undecided == root.step \in {"switch", "verify", "restore", "record"}
\* What an activation works on, and where the link leads meanwhile.
Underway ==
    root.cmd = "activate" =>
        /\ Executable(root.release) /\ (root.was = 0 \/ Executable(root.was))
        /\ links.current = IF root.step = "switch" THEN root.was ELSE root.release
        /\ Undecided /\ unit.enabled => root.was # 0
ReleasesOK == ReleaseTypeOK /\ AlwaysBootable /\ Owned /\ Underway

\* The history of the links, while no activation was killed half way.
Apart(a, b) == a # 0 => a # b
Standing ==
    root.cmd # "activate" =>
        links.current \in past.verified \cup {0} /\ Apart(links.previous, links.current)
Unrecorded ==
    root.cmd = "activate" /\ Undecided =>
        /\ root.was \in past.verified \cup {0} /\ Apart(links.previous, root.was)
        /\ root.was = 0 => links.previous = 0
        /\ root.step = "record" => root.release \in past.verified
Decided ==
    root.cmd = "activate" /\ ~Undecided =>
        root.release \in past.verified /\ Apart(links.previous, links.current)
Proven ==
    ~past.killed =>
        /\ links.previous \in past.verified \cup {0} /\ (links.current = 0 => links.previous = 0)
        /\ Standing /\ Unrecorded /\ Decided
ReleaseIInv == ReleasesOK /\ Proven

-----------------------------------------------------------------------------
(* EdgeRelease: lemmas *)

\* What is complete stays so: a build only begins anew a directory that is not.
LEMMA CompleteStays ==
    ASSUME ReleaseTypeOK, EdgeReleaseNext, NEW r \in Releases, Executable(r)
    PROVE  Executable(r)'
<1>1. built' = built => Executable(r)'
  BY DEF Executable
<1>2. CASE \E s \in Releases : StartBuild(s)
  BY <1>2 DEF StartBuild, Executable, ReleaseTypeOK
<1>3. CASE NameBuild
  BY <1>3 DEF NameBuild, Executable, ReleaseTypeOK
<1>4. CASE FinishBuild
  BY <1>4 DEF FinishBuild, Executable, ReleaseTypeOK
<1> QED
  BY <1>1, <1>2, <1>3, <1>4 DEF EdgeReleaseNext, KillBuild, StartInstall, CopyUnit, VerifyInstall, Reload,
     ReloadInstall, Disable, Rollback, StartActivate, Switch, Verify, Restore, Record, ReloadActivate,
     Enable, Restart, Health, KillCommand, Reboot, RestartOnFailure

\* What systemd starts is complete.
LEMMA StartedComplete ==
    ASSUME ReleaseTypeOK
    PROVE  Started \in Releases \cup {0} /\ (Started # 0 => Executable(Started))
BY DEF Started, ReleaseTypeOK

\* A command goes to its next step.
LEMMA ToStep ==
    ASSUME root \in RootStates, NEW step \in RootSteps, To(step)
    PROVE  /\ root' \in RootStates /\ root'.step = step /\ root'.cmd = root.cmd
           /\ root'.release = root.release /\ root'.was = root.was
BY DEF To, RootStates

\* Between two commands.
LEMMA IdleRoot == Idle \in RootStates /\ Idle.cmd = "none"
BY DEF Idle, RootStates, RootSteps

LEMMA TypeStep ==
    ASSUME ReleaseIInv, EdgeReleaseNext
    PROVE  ReleaseTypeOK'
<1> USE DEF ReleaseIInv, ReleasesOK, ReleaseTypeOK
<1>1. CASE \E r \in Releases : StartBuild(r)
  BY <1>1 DEF StartBuild
<1>2. CASE NameBuild \/ FinishBuild \/ KillBuild
  BY <1>2 DEF NameBuild, FinishBuild, KillBuild
<1>3. CASE StartInstall
  <2>1. root' = [cmd |-> "install", step |-> "copy", release |-> 0, restart |-> FALSE, was |-> 0]
    BY <1>3 DEF StartInstall, Idle
  <2>2. root' \in RootStates
    BY <2>1 DEF RootStates, RootSteps
  <2>3. unit' \in UnitStates
    BY <1>3 DEF StartInstall, UnitStates
  <2> QED BY <1>3, <2>2, <2>3 DEF StartInstall
<1>4. CASE CopyUnit
  <2>1. root' \in RootStates
    BY <1>4, ToStep DEF CopyUnit, RootSteps
  <2>2. unit' \in UnitStates
    BY <1>4 DEF CopyUnit, UnitStates, Texts
  <2> QED BY <1>4, <2>1, <2>2 DEF CopyUnit
<1>5. CASE ReloadInstall \/ ReloadActivate
  <2>1. root' \in RootStates
    BY <1>5, ToStep, IdleRoot DEF ReloadInstall, ReloadActivate, Reload, RootSteps
  <2>2. unit' \in UnitStates
    BY <1>5 DEF UnitStates, ReloadInstall, ReloadActivate, Reload
  <2> QED BY <1>5, <2>1, <2>2 DEF ReloadInstall, ReloadActivate, Reload
<1>6. ASSUME NEW r \in Releases \cup {0}, NEW restart \in BOOLEAN, StartActivate(r, restart)
      PROVE  ReleaseTypeOK'
  <2>1. root' \in RootStates
    BY <1>6 DEF StartActivate, RootStates, RootSteps
  <2> QED BY <1>6, <2>1 DEF StartActivate
<1>7. CASE Switch \/ Verify
  <2>1. root' \in RootStates
    BY <1>7, ToStep DEF Switch, Verify, RootSteps
  <2>2. past' \in [verified : SUBSET Releases, killed : BOOLEAN]
    <3>1. CASE Switch
      BY <3>1 DEF Switch
    <3>2. CASE Verify
      <4>1. CASE Accepted(root.release)
        <5>1. root.release \in Releases
          BY <4>1 DEF Accepted, Executable, RootStates
        <5> QED BY <3>2, <4>1, <5>1 DEF Verify
      <4> QED BY <3>2, <4>1 DEF Verify
    <3> QED BY <1>7, <3>1, <3>2
  <2>3. links' \in [current : Releases \cup {0}, previous : Releases \cup {0}]
    BY <1>7 DEF Switch, Verify, Current, RootStates
  <2> QED BY <1>7, <2>1, <2>2, <2>3 DEF Switch, Verify
<1>8. CASE Restore \/ Record
  <2>1. root' \in RootStates
    BY <1>8, ToStep, IdleRoot DEF Restore, Record, Finishes, RootSteps
  <2>2. links' \in [current : Releases \cup {0}, previous : Releases \cup {0}]
    BY <1>8 DEF Restore, Record, Current, RootStates
  <2> QED BY <1>8, <2>1, <2>2 DEF Restore, Record
<1>9. CASE VerifyInstall \/ Disable \/ Enable \/ Health
  <2>1. root' \in RootStates
    BY <1>9, ToStep, IdleRoot DEF VerifyInstall, Disable, Enable, Health, Finishes, RootSteps
  <2>2. unit' \in UnitStates
    BY <1>9 DEF UnitStates, VerifyInstall, Disable, Enable, Health
  <2> QED BY <1>9, <2>1, <2>2 DEF VerifyInstall, Disable, Enable, Health
<1>10. CASE Restart \/ RestartOnFailure
  <2>1. root' \in RootStates
    BY <1>10, ToStep DEF Restart, RestartOnFailure, RootSteps
  <2> QED BY <1>10, <2>1, StartedComplete DEF Restart, RestartOnFailure
<1>11. CASE KillCommand \/ Reboot
  <2>1. past' \in [verified : SUBSET Releases, killed : BOOLEAN]
    <3>1. (past.killed \/ HalfWay) \in BOOLEAN
      BY DEF HalfWay
    <3>2. past' = [past EXCEPT !.killed = past.killed \/ HalfWay]
      BY <1>11 DEF KillCommand, Reboot, KillNoted
    <3> QED BY <3>1, <3>2
  <2>2. unit' \in UnitStates
    BY <1>11 DEF UnitStates, KillCommand, Reboot
  <2> QED BY <1>11, <2>1, <2>2, StartedComplete, IdleRoot DEF KillCommand, Reboot
<1>12. CASE Rollback
  BY <1>6, <1>12 DEF Rollback
<1> QED
  BY <1>1, <1>2, <1>3, <1>4, <1>5, <1>6, <1>7, <1>8, <1>9, <1>10, <1>11, <1>12 DEF EdgeReleaseNext

\* What a step leaves alone, for the steps that concern neither a link, the agent nor boot.
LEMMA BuildersStep ==
    ASSUME ReleaseIInv, EdgeReleaseNext,
           UNCHANGED <<links, agent, root, past>>, unit'.enabled = unit.enabled
    PROVE  ReleaseIInv'
<1>1. ReleaseTypeOK /\ ReleaseTypeOK' /\ AlwaysBootable /\ Owned /\ Underway /\ Proven
  BY TypeStep DEF ReleaseIInv, ReleasesOK
<1>2. \A r \in Releases : Executable(r) => Executable(r)'
  BY <1>1, CompleteStays
<1>3. /\ links.current \in Releases \cup {0} /\ links.previous \in Releases \cup {0}
      /\ agent \in Releases \cup {0}
      /\ root.release \in Releases \cup {0} /\ root.was \in Releases \cup {0}
  BY <1>1 DEF ReleaseTypeOK, RootStates
<1>4. ~Executable(0)
  BY DEF Executable
<1>5. AlwaysBootable'
  <2>1. \A r \in {links.current, links.previous, agent} \ {0} : Executable(r)'
    BY <1>1, <1>2, <1>3 DEF AlwaysBootable
  <2>2. unit.enabled => Executable(links.current)'
    BY <1>1, <1>2, <1>3, <1>4 DEF AlwaysBootable
  <2> QED BY <2>1, <2>2 DEF AlwaysBootable, Executable
<1>6. Owned'
  BY <1>1 DEF Owned
<1>7. Underway'
  <2>1. root.cmd = "activate" =>
            Executable(root.release)' /\ (root.was = 0 \/ Executable(root.was)')
    BY <1>1, <1>2, <1>3, <1>4 DEF Underway
  <2> QED BY <1>1, <2>1 DEF Underway, Undecided, Executable
<1>8. Proven'
  BY <1>1 DEF Proven, Standing, Unrecorded, Decided, Undecided, Apart
<1> QED BY <1>1, <1>5, <1>6, <1>7, <1>8 DEF ReleaseIInv, ReleasesOK

\* The steps of a command, a kill, a reboot and a restart leave the directories alone.
LEMMA CommandsStep ==
    ASSUME ReleaseIInv, EdgeReleaseNext, built' = built
    PROVE  ReleaseIInv'
<1>1. ReleaseTypeOK /\ ReleaseTypeOK' /\ AlwaysBootable /\ Owned /\ Underway /\ Proven
  BY TypeStep DEF ReleaseIInv, ReleasesOK
<1>2. \A r : Executable(r)' <=> Executable(r)
  BY DEF Executable
<1>3. /\ links.current \in Releases \cup {0} /\ links.previous \in Releases \cup {0}
      /\ links = [current |-> links.current, previous |-> links.previous]
      /\ past.killed \in BOOLEAN /\ root \in RootStates /\ unit \in UnitStates
  BY <1>1 DEF ReleaseTypeOK
<1>4. ~Executable(0)
  BY DEF Executable
<1> DEFINE Whole(l, a, e) ==
        /\ \A r \in {l.current, l.previous, a} \ {0} : Executable(r)
        /\ e => Executable(l.current)
<1>5. AlwaysBootable' <=> Whole(links', agent', unit'.enabled)
  BY <1>2 DEF AlwaysBootable
<1>6. Whole(links, agent, unit.enabled)
  BY <1>1 DEF AlwaysBootable
<1>a. agent \in Releases \cup {0} /\ (agent # 0 => Executable(agent))
  BY <1>1, <1>6 DEF ReleaseTypeOK
<1>e. unit.enabled => Executable(links.current)
  BY <1>6
<1> HIDE DEF Whole
\* A command ends, by itself or killed.
<1>7. ASSUME links' = links, root' = Idle,
             past'.verified = past.verified, past'.killed <=> past.killed \/ HalfWay,
             agent' \in Releases \cup {0}, agent' # 0 => Executable(agent'),
             unit'.enabled => Executable(links.current)
      PROVE  ReleaseIInv'
  <2>1. AlwaysBootable'
    BY <1>5, <1>6, <1>7 DEF Whole
  <2>2. Owned' /\ Underway' /\ Unrecorded' /\ Decided'
    BY <1>7, IdleRoot DEF Owned, Underway, Unrecorded, Decided
  <2>3. ~past'.killed => Standing'
    BY <1>1, <1>7 DEF Proven, Standing, Unrecorded, Decided, HalfWay, Undecided, Underway, Apart, Owned,
       ActivateSteps
  <2> QED BY <1>1, <1>7, <2>1, <2>2, <2>3 DEF ReleaseIInv, ReleasesOK, Proven
<1>8. ASSUME UNCHANGED <<links, past>>, root.cmd # "activate", root'.cmd = "install",
             root'.step \in InstallSteps, agent' = agent, unit'.enabled => unit.enabled
      PROVE  ReleaseIInv'
  <2>1. Whole(links, agent, unit'.enabled)
    BY <1>6, <1>8 DEF Whole
  <2>2. AlwaysBootable'
    BY <1>5, <1>8, <2>1
  <2>3. Owned' /\ Underway' /\ Unrecorded' /\ Decided'
    BY <1>8 DEF Owned, Underway, Unrecorded, Decided, Idle
  <2>4. ~past.killed => Standing'
    BY <1>1, <1>8 DEF Proven, Standing
  <2> QED BY <1>1, <1>8, <2>2, <2>3, <2>4 DEF ReleaseIInv, ReleasesOK, Proven
<1>9. CASE StartInstall \/ CopyUnit
  <2>1. root.cmd # "activate" /\ root'.cmd = "install" /\ root'.step \in InstallSteps
    BY <1>3, <1>9, ToStep, IdleRoot DEF StartInstall, CopyUnit, Idle, InstallSteps, RootSteps
  <2>2. unit'.enabled = unit.enabled
    BY <1>3, <1>9 DEF StartInstall, CopyUnit, UnitStates
  <2> QED BY <1>8, <1>9, <2>1, <2>2 DEF StartInstall, CopyUnit
<1>10. CASE VerifyInstall \/ ReloadInstall
  <2>1. unit'.enabled = unit.enabled
    BY <1>3, <1>10 DEF VerifyInstall, ReloadInstall, Reload, UnitStates
  <2>2. ~HalfWay /\ root.cmd = "install"
    BY <1>10 DEF VerifyInstall, ReloadInstall, Finishes, HalfWay
  <2>3. root' = Idle \/ (root'.cmd = "install" /\ root'.step \in InstallSteps)
    BY <1>3, <1>10, ToStep DEF VerifyInstall, ReloadInstall, Reload, Finishes, InstallSteps, RootSteps
  <2>4. UNCHANGED <<links, past, agent>>
    BY <1>10 DEF VerifyInstall, ReloadInstall, Reload
  <2>5. CASE root' = Idle
    BY <1>a, <1>e, <1>7, <2>1, <2>2, <2>4, <2>5
  <2> QED BY <1>8, <2>1, <2>2, <2>3, <2>4, <2>5
<1>11. CASE Disable
  <2>1. unit'.enabled = (unit.enabled /\ links.current # 0)
    BY <1>3, <1>11 DEF Disable, UnitStates
  <2>2. unit'.enabled = unit.enabled
    BY <1>3, <1>4, <1>6, <2>1 DEF Whole, UnitStates
  <2>3. root' = Idle /\ ~HalfWay
    BY <1>11 DEF Disable, Finishes, HalfWay
  <2> QED BY <1>a, <1>e, <1>7, <1>11, <2>2, <2>3 DEF Disable
<1>12. ASSUME NEW r \in Releases \cup {0}, NEW restart \in BOOLEAN, StartActivate(r, restart)
       PROVE  ReleaseIInv'
  <2>1. /\ root'.cmd = "activate" /\ root'.step = "switch"
        /\ root'.release = r /\ root'.was = links.current
    BY <1>12 DEF StartActivate
  <2>2. AlwaysBootable'
    BY <1>5, <1>6, <1>12 DEF StartActivate
  <2>3. Owned'
    BY <2>1 DEF Owned, ActivateSteps, Idle
  <2>4. Underway'
    BY <1>2, <1>3, <1>4, <1>6, <1>12, <2>1 DEF Underway, StartActivate, Activatable, Whole
  <2>5. Standing' /\ Decided'
    BY <2>1 DEF Standing, Decided, Undecided
  <2>6. ~past.killed => Unrecorded'
    BY <1>1, <1>12, <2>1, IdleRoot DEF Proven, Standing, Unrecorded, StartActivate
  <2> QED BY <1>1, <1>12, <2>2, <2>3, <2>4, <2>5, <2>6 DEF ReleaseIInv, ReleasesOK, Proven, StartActivate
<1>13. CASE Rollback
  BY <1>3, <1>12, <1>13 DEF Rollback
<1>14. CASE Switch
  <2>1. root.cmd = "activate" /\ root.step = "switch"
    BY <1>1, <1>3, <1>14 DEF Switch, Owned, InstallSteps, Idle, RootStates
  <2>2. /\ root'.cmd = "activate" /\ root'.step = "verify"
        /\ root'.release = root.release /\ root'.was = root.was
    BY <1>3, <1>14, <2>1, ToStep DEF Switch, RootSteps
  <2>3. links'.current = root.release /\ links'.previous = links.previous
    BY <1>3, <1>14 DEF Switch, Current
  <2>4. AlwaysBootable'
    BY <1>1, <1>4, <1>5, <1>6, <1>14, <2>1, <2>3 DEF Whole, Underway, Switch
  <2>5. Owned'
    BY <2>2 DEF Owned, ActivateSteps, Idle
  <2>6. Underway'
    BY <1>1, <1>2, <1>14, <2>1, <2>2, <2>3 DEF Underway, Undecided, Switch
  <2>7. Standing' /\ Decided'
    BY <2>2 DEF Standing, Decided, Undecided
  <2>8. ~past.killed => Unrecorded'
    BY <1>1, <1>14, <2>1, <2>2, <2>3 DEF Proven, Unrecorded, Undecided, Switch
  <2>9. root.release # 0
    BY <1>1, <1>4, <2>1 DEF Underway
  <2> QED BY <1>1, <1>14, <2>3, <2>4, <2>5, <2>6, <2>7, <2>8, <2>9
          DEF ReleaseIInv, ReleasesOK, Proven, Switch
<1>15. CASE Verify
  <2>1. /\ root'.cmd = "activate" /\ root'.step \in {"record", "restore"}
        /\ root'.release = root.release /\ root'.was = root.was
        /\ root'.step = "record" => past'.verified = past.verified \cup {root.release}
        /\ root'.step = "restore" => past'.verified = past.verified
    <3>1. past \in [verified : SUBSET Releases, killed : BOOLEAN]
      BY <1>1 DEF ReleaseTypeOK
    <3>2. CASE Accepted(root.release)
      BY <1>3, <1>15, <3>1, <3>2, ToStep DEF Verify, RootSteps
    <3>3. CASE ~Accepted(root.release)
      BY <1>3, <1>15, <3>3, ToStep DEF Verify, RootSteps
    <3> QED BY <3>2, <3>3
  <2>2. past'.killed = past.killed
    <3>1. past \in [verified : SUBSET Releases, killed : BOOLEAN]
      BY <1>1 DEF ReleaseTypeOK
    <3> QED BY <1>15, <3>1 DEF Verify
  <2>3. AlwaysBootable'
    BY <1>5, <1>6, <1>15 DEF Verify
  <2>4. Owned'
    BY <2>1 DEF Owned, ActivateSteps, Idle
  <2>5. Underway'
    BY <1>1, <1>2, <1>15, <2>1 DEF Underway, Undecided, Verify
  <2>6. Standing' /\ Decided'
    BY <2>1 DEF Standing, Decided, Undecided
  <2>7. ~past.killed => Unrecorded'
    BY <1>1, <1>15, <2>1 DEF Proven, Unrecorded, Undecided, Verify
  <2>8. past.verified \subseteq past'.verified
    BY <2>1
  <2> QED BY <1>1, <1>15, <2>2, <2>3, <2>4, <2>5, <2>6, <2>7, <2>8
          DEF ReleaseIInv, ReleasesOK, Proven, Verify
<1>16. CASE Restore
  <2>1. /\ root.cmd = "activate" /\ root.step = "restore" /\ root' = Idle
        /\ links'.current = root.was /\ links'.previous = links.previous
    BY <1>3, <1>16 DEF Restore, Finishes, Current
  <2>2. AlwaysBootable'
    BY <1>1, <1>4, <1>5, <1>6, <1>16, <2>1 DEF Whole, Underway, Undecided, Restore
  <2>3. Owned' /\ Underway' /\ Unrecorded' /\ Decided'
    BY <2>1, IdleRoot DEF Owned, Underway, Unrecorded, Decided
  <2>4. ~past.killed => Standing' /\ (links'.current = 0 => links'.previous = 0)
    BY <1>1, <1>16, <2>1 DEF Proven, Standing, Unrecorded, Undecided, Restore, Apart
  <2> QED BY <1>1, <1>16, <2>1, <2>2, <2>3, <2>4 DEF ReleaseIInv, ReleasesOK, Proven, Restore
<1>17. CASE Record
  <2>1. root.cmd = "activate" /\ root.step = "record"
    BY <1>1, <1>3, <1>17 DEF Record, Owned, InstallSteps, Idle, RootStates
  <2>2. /\ root'.cmd = "activate" /\ root'.step = "reload"
        /\ root'.release = root.release /\ root'.was = root.was
    BY <1>3, <1>17, <2>1, ToStep DEF Record, RootSteps
  <2>3. /\ links'.current = links.current /\ links.current = root.release
        /\ root.was \notin {0, root.release} => links'.previous = root.was
        /\ root.was \in {0, root.release} => links'.previous = links.previous
    BY <1>1, <1>3, <1>17, <2>1 DEF Record, Underway
  <2>4. AlwaysBootable'
    BY <1>1, <1>4, <1>5, <1>6, <1>17, <2>1, <2>3 DEF Whole, Underway, Record
  <2>5. Owned'
    BY <2>2 DEF Owned, ActivateSteps, Idle
  <2>6. Underway'
    BY <1>1, <1>2, <1>17, <2>1, <2>2, <2>3 DEF Underway, Undecided, Record
  <2>7. Standing' /\ Unrecorded'
    BY <2>2 DEF Standing, Unrecorded, Undecided
  <2>8. ~past.killed => Decided' /\ links'.previous \in past.verified \cup {0}
    BY <1>1, <1>17, <2>1, <2>2, <2>3 DEF Proven, Unrecorded, Decided, Undecided, Record, Apart
  <2>9. root.release # 0
    BY <1>1, <1>4, <2>1 DEF Underway
  <2> QED BY <1>1, <1>17, <2>3, <2>4, <2>5, <2>6, <2>7, <2>8, <2>9
          DEF ReleaseIInv, ReleasesOK, Proven, Record
\* Past the record an activation has decided, and what it does now moves no link.
<1>18. ASSUME UNCHANGED <<links, past>>, root.cmd = "activate", ~Undecided, root'.cmd = "activate",
              root'.step \in {"enable", "restart", "health"},
              root'.release = root.release, root'.was = root.was,
              agent' \in Releases \cup {0}, agent' # 0 => Executable(agent')
       PROVE  ReleaseIInv'
  <2>1. links.current = root.release /\ Executable(links.current)
    BY <1>1, <1>18 DEF Underway, Undecided
  <2>2. AlwaysBootable'
    BY <1>5, <1>6, <1>18, <2>1 DEF Whole
  <2>3. Owned'
    BY <1>18 DEF Owned, ActivateSteps, Idle
  <2>4. Underway'
    BY <1>1, <1>2, <1>18, <2>1 DEF Underway, Undecided
  <2>5. Standing' /\ Unrecorded'
    BY <1>18 DEF Standing, Unrecorded, Undecided
  <2>6. ~past.killed => Decided'
    BY <1>1, <1>18 DEF Proven, Decided, Undecided
  <2> QED BY <1>1, <1>18, <2>2, <2>3, <2>4, <2>5, <2>6 DEF ReleaseIInv, ReleasesOK, Proven
<1>19. CASE ReloadActivate
  <2>1. root.cmd = "activate" /\ root.step = "reload" /\ ~HalfWay /\ UNCHANGED <<links, past, agent>>
    BY <1>19 DEF ReloadActivate, Reload, HalfWay
  <2>2. unit'.enabled = unit.enabled
    BY <1>3, <1>19 DEF ReloadActivate, Reload, UnitStates
  <2>3. CASE root' = Idle
    BY <1>a, <1>e, <1>7, <2>1, <2>2, <2>3
  <2>4. CASE To("enable")
    <3>1. /\ root'.cmd = "activate" /\ root'.step = "enable"
          /\ root'.release = root.release /\ root'.was = root.was
      BY <1>3, <2>1, <2>4, ToStep DEF RootSteps
    <3> QED BY <1>1, <1>6, <1>18, <2>1, <3>1 DEF Undecided, Whole, ReleaseTypeOK
  <2> QED BY <1>19, <2>3, <2>4 DEF ReloadActivate, Reload
<1>20. CASE Enable
  <2>1. root.cmd = "activate" /\ root.step = "enable" /\ ~HalfWay
    BY <1>1, <1>3, <1>20 DEF Enable, Owned, InstallSteps, Idle, RootStates, HalfWay
  <2>2. Executable(links.current)
    BY <1>1, <2>1 DEF Underway
  <2>3. CASE root.restart
    <3>1. /\ root'.cmd = "activate" /\ root'.step = "restart"
          /\ root'.release = root.release /\ root'.was = root.was
      BY <1>3, <1>20, <2>1, <2>3, ToStep DEF Enable, RootSteps
    <3> QED BY <1>a, <1>18, <1>20, <2>1, <3>1 DEF Enable, Undecided
  <2>4. CASE ~root.restart
    BY <1>a, <1>7, <1>20, <2>1, <2>2, <2>4 DEF Enable, Finishes
  <2> QED BY <2>3, <2>4
<1>21. CASE Restart
  <2>1. root.cmd = "activate" /\ root.step = "restart"
    BY <1>1, <1>3, <1>21 DEF Restart, Owned, InstallSteps, Idle, RootStates
  <2>2. /\ root'.cmd = "activate" /\ root'.step = "health"
        /\ root'.release = root.release /\ root'.was = root.was
    BY <1>3, <1>21, <2>1, ToStep DEF Restart, RootSteps
  <2> QED BY <1>1, <1>18, <1>21, <2>1, <2>2, StartedComplete DEF Restart, Undecided
<1>22. CASE Health
  <2>1. root' = Idle /\ ~HalfWay
    BY <1>22 DEF Health, Finishes, HalfWay
  <2> QED BY <1>a, <1>e, <1>7, <1>22, <2>1 DEF Health
<1>23. CASE KillCommand \/ Reboot
  <2>1. past'.verified = past.verified /\ (past'.killed <=> past.killed \/ HalfWay)
    <3>1. past \in [verified : SUBSET Releases, killed : BOOLEAN]
      BY <1>1 DEF ReleaseTypeOK
    <3>2. past' = [past EXCEPT !.killed = past.killed \/ HalfWay]
      BY <1>23 DEF KillCommand, Reboot, KillNoted
    <3> QED BY <3>1, <3>2
  <2>2. unit'.enabled = unit.enabled
    BY <1>3, <1>23 DEF KillCommand, Reboot, UnitStates
  <2>3. agent' \in Releases \cup {0} /\ (agent' # 0 => Executable(agent'))
    BY <1>a, <1>1, <1>23, StartedComplete DEF KillCommand, Reboot
  <2> QED BY <1>e, <1>7, <1>23, <2>1, <2>2, <2>3 DEF KillCommand, Reboot
<1>24. CASE RestartOnFailure
  <2>1. AlwaysBootable'
    BY <1>1, <1>5, <1>6, <1>24, StartedComplete DEF Whole, RestartOnFailure
  <2>2. Owned' /\ Underway' /\ Proven'
    BY <1>1, <1>2, <1>24 DEF Owned, Underway, Undecided, Proven, Standing, Unrecorded, Decided, RestartOnFailure
  <2> QED BY <1>1, <2>1, <2>2 DEF ReleaseIInv, ReleasesOK
<1>25. CASE \E r \in Releases : StartBuild(r)
  BY <1>25, BuildersStep DEF StartBuild
<1>26. CASE NameBuild \/ FinishBuild \/ KillBuild
  BY <1>26, BuildersStep DEF NameBuild, FinishBuild, KillBuild
<1> QED
  BY <1>9, <1>10, <1>11, <1>12, <1>13, <1>14, <1>15, <1>16, <1>17, <1>19, <1>20, <1>21, <1>22, <1>23,
     <1>24, <1>25, <1>26 DEF EdgeReleaseNext

-----------------------------------------------------------------------------
(* EdgeRelease: every step *)

\* The invariant holds at the start, and every step keeps it.
LEMMA LinksStepKeeps ==
    ASSUME ReleaseIInv, [EdgeReleaseNext]_releaseVars
    PROVE  ReleaseIInv'
<1>1. CASE UNCHANGED releaseVars
  BY <1>1 DEF releaseVars, ReleaseIInv, ReleasesOK, ReleaseTypeOK, AlwaysBootable, Owned, Underway, Undecided,
     Executable, Proven, Standing, Unrecorded, Decided, Apart
<1>2. CASE EdgeReleaseNext
  <2>1. CASE built' = built
    BY <1>2, <2>1, CommandsStep
  <2>2. CASE built' # built
    <3>1. (\E r \in Releases : StartBuild(r)) \/ NameBuild \/ FinishBuild
      BY <1>2, <2>2 DEF EdgeReleaseNext, KillBuild, StartInstall, CopyUnit, VerifyInstall, Reload,
         ReloadInstall, Disable, Rollback, StartActivate, Switch, Verify, Restore, Record, ReloadActivate,
         Enable, Restart, Health, KillCommand, Reboot, RestartOnFailure
    <3> QED BY <1>2, <3>1, BuildersStep DEF StartBuild, NameBuild, FinishBuild
  <2> QED BY <2>1, <2>2
<1> QED BY <1>1, <1>2

LEMMA LinksStart ==
    ASSUME ReleaseInit
    PROVE  ReleaseIInv
BY EdgeReleaseAssumption, IdleRoot DEF ReleaseInit, ReleaseIInv, ReleasesOK, ReleaseTypeOK, UnitStates, Texts,
   AlwaysBootable, Owned, Underway, Proven, Standing, Unrecorded, Decided, Apart

\* veotrex-edge-ctl.sh:6-20: for any releases, whatever is built, activated, rolled back, killed or
\* rebooted and in whatever order, the links, the running agent and boot lead to complete releases, and
\* unless an activation was killed half way, to releases that passed the strict verify.
THEOREM EdgeReleaseSafe == EdgeReleaseSpec => []EdgeReleaseInv
<1>1. ReleaseIInv => EdgeReleaseInv
  BY DEF ReleaseIInv, ReleasesOK, Proven, Standing, EdgeReleaseInv, VerifiedOrRestored, Apart
<1> QED BY <1>1, LinksStart, LinksStepKeeps, PTL DEF EdgeReleaseSpec

-----------------------------------------------------------------------------
(* The device *)

\* ring.py, camera.py, webrtc_backend.py, preview.py, veotrex-edge-ctl.sh: for any bounds, whatever the
\* five do and in whatever order, each keeps its own invariant: a device or a worker that remains after a
\* stop is one that its invariant names, nothing ends without its reason, the page tells the truth and the
\* device can boot.
THEOREM DeviceSafe == DeviceSpec => []DeviceInv
<1> DEFINE IInv == RingIInv /\ UsbIInv /\ BackendIInv /\ PreviewIInv /\ ReleaseIInv
<1>1. DeviceInit => IInv
  BY RingStart, UsbStart, BackendStart, PreviewStart, LinksStart DEF DeviceInit
<1>2. IInv /\ [DeviceNext]_deviceVars => IInv'
  <2>1. SUFFICES ASSUME IInv, [DeviceNext]_deviceVars PROVE IInv'
    OBVIOUS
  <2>2. /\ [RingSourceNext]_ringVars /\ [LocalCameraNext]_usbVars /\ [WebRtcBackendNext]_backendVars
        /\ [LivePreviewNext]_previewVars /\ [EdgeReleaseNext]_releaseVars
    BY <2>1 DEF DeviceNext, deviceVars
  <2>3. RingIInv' /\ UsbIInv' /\ BackendIInv' /\ PreviewIInv' /\ ReleaseIInv'
    BY <2>1, <2>2, RingStepKeeps, UsbStepKeeps, BackendStepKeeps, PreviewStepKeeps, LinksStepKeeps
  <2>4. QED
    BY <2>3
<1>3. IInv => DeviceInv
  <2>1. ReleaseIInv => EdgeReleaseInv
    BY DEF ReleaseIInv, ReleasesOK, Proven, Standing, EdgeReleaseInv, VerifiedOrRestored, Apart
  <2>2. QED
    BY <2>1, RingFollows
    DEF DeviceInv, UsbIInv, UsbBase, UsbTyped, UsbTypeOK, LocalCameraInv, BackendIInv, PreviewIInv
<1>4. QED
  BY <1>1, <1>2, <1>3, PTL DEF DeviceSpec
=============================================================================
