------------------------------ MODULE CareDay -------------------------------
(***************************************************************************)
(* One database under the services of the control plane that keep a day's  *)
(* record: attendance, release, staff and ratio.  Their transactions meet  *)
(* in the classrooms, the clock, the children's events and the counts.     *)
(***************************************************************************)
EXTENDS GuardianRelease, RatioStatus

vars == <<attendanceVars, guardianVars, staffVars, ratioVars>>

Init == AttendanceInit /\ GuardianInit /\ StaffInit /\ RatioInit

\* What the routes of child_roster_api.py can ask of the service; its lists change nothing.
ChildStep ==
    \/ \E r \in Requests : AttendanceStep(r)
    \/ \E c \in Children : CreateChild(c) \/ \E s \in Status : SetChildStatus(c, s, ChildHeld(c))

\* The clock, and the routes that switch a classroom on and off.
DayStep == Tick \/ \E m \in Rooms : SetClassroomActive(m)

\* create_app registers the routes of these four services side by side.
Next ==
    \/ (ChildStep \/ DayStep) /\ UNCHANGED <<guardianVars, staffVars, ratioVars>>
    \/ GuardianStep /\ UNCHANGED <<staffVars, ratioVars>>
    \/ StaffStep /\ UNCHANGED <<attendanceVars, guardianVars, ratioVars>>
    \/ RatioStep /\ UNCHANGED <<attendanceVars, guardianVars, staffVars>>

Spec == Init /\ [][Next]_vars

TypeOK == AttendanceTypeOK /\ GuardianTypeOK /\ StaffTypeOK

\* What the locks and keys of the database promise their services, whatever requests overlap.
Inv ==
    /\ TypeOK
    /\ DecisionStands /\ HandedOverOnce /\ OneActiveLink
    /\ OneRoomPerTeacher /\ OneDesignation

=============================================================================
