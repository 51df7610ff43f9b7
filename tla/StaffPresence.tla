--------------------------- MODULE StaffPresence ----------------------------
(***************************************************************************)
(* Staff on a classroom's roster: who works where now, and who counts      *)
(* toward the ratio of a facility.  The same transaction shape as          *)
(* ChildAttendance, whose rooms, clock and event rows it uses, with two    *)
(* differences: staff may work in several facilities, and checking in      *)
(* needs a designation in force at the facility, read under the lock.      *)
(***************************************************************************)
EXTENDS ChildAttendance

CONSTANTS Staff, Designations, Facilities, Shifts,
          StaffTerms,        \* counts_toward_ratio and period of a designation
          MaxStaffEvents     \* bound: events of one person

ASSUME StaffPresenceAssumption ==
    /\ None \notin Shifts
    /\ StaffTerms \subseteq [counts : BOOLEAN, from : Nat, until : Nat]
    /\ MaxStaffEvents \in Nat

VARIABLES
    staff,        \* staff_profiles.status, "none" before the row exists
    staffEvents,  \* staff_presence_events of a person; the index is the sequence
    staffLock,    \* holder of pg_advisory_xact_lock("staff_presence:...")
    shift,        \* the transaction each staff request runs
    designation   \* staff_ratio_eligibility

staffVars == <<staff, staffEvents, staffLock, shift, designation>>

StaffStatus == {"ACTIVE", "INACTIVE", "DELETED"}
StaffProfile == [Staff -> StaffStatus \cup {"none"}]
StaffPresenceEvent == ChildAttendanceEvent
NoDesignation == [status |-> "none"]
StaffRatioEligibility == [status : {"ACTIVE", "INACTIVE"}, staff : Staff, facility : Facilities,
                          terms : StaffTerms]
StaffRequest ==
    [op : {"check_in", "refresh", "check_out"}, step : {"read"}, staff : Staff, room : Rooms,
     status : StaffStatus, active : BOOLEAN]
    \cup [op : {"check_in", "refresh", "check_out"}, step : {"decided"}, staff : Staff,
          last : 0..MaxStaffEvents, plan : Seq(StaffPresenceEvent)]
    \cup [op : {"create_eligibility"}, step : {"read"}, staff : Staff, facility : Facilities]

ActiveAssignments(p, f) ==
    {d \in Designations : /\ designation[d].status = "ACTIVE"
                          /\ designation[d].staff = p /\ designation[d].facility = f}
Applies(t, now) == t.from <= now /\ (t.until = 0 \/ now < t.until)
Assigned(p, f, now) == \E d \in ActiveAssignments(p, f) : Applies(designation[d].terms, now)

\* resolve_staff_count: those designated as counting, present here, by their latest event.
CountedStaff(m, now) ==
    {p \in Staff : /\ staff[p] = "ACTIVE" /\ Present(staffEvents[p], now, m)
                   /\ \E d \in ActiveAssignments(p, FacilityOf[m]) :
                         Applies(designation[d].terms, now) /\ designation[d].terms.counts}

----------------------------------------------------------------------------
\* A move needs both rooms in one facility; a stay elsewhere must be over, or have lapsed.
PlanStaffCheckIn(es, m, now, lease, q, assigned) ==
    IF ~q.active \/ q.status # "ACTIVE" \/ ~assigned \/ Present(es, now, m) THEN {}
    ELSE IF IsOpen(es) /\ Latest(es).room # m /\ FacilityOf[Latest(es).room] = FacilityOf[m]
         THEN {<<CheckedOut(es, now), CheckedIn(m, now, lease)>>}
    ELSE IF Fresh(es, now) THEN {} ELSE {<<CheckedIn(m, now, lease)>>}

PlanStaffRefresh(es, m, now, lease, q, assigned) ==
    IF q.active /\ InClassroom(es, m) /\ Fresh(es, now) /\ q.status = "ACTIVE" /\ assigned
    THEN {<<Refreshed(es, now, lease)>>} ELSE {}

StaffPlans(q, lease) ==
    LET es == staffEvents[q.staff]
        assigned == Assigned(q.staff, FacilityOf[q.room], clock) IN
    CASE q.op = "check_in"  -> PlanStaffCheckIn(es, q.room, clock, lease, q, assigned)
      [] q.op = "refresh"   -> PlanStaffRefresh(es, q.room, clock, lease, q, assigned)
      [] q.op = "check_out" -> PlanCheckOut(es, q.room, clock)

\* A removed profile can still be checked out.
BeginShift(r, op, p, m) ==
    /\ shift[r] = Idle
    /\ staff[p] \in IF op = "check_out" THEN StaffStatus ELSE StaffStatus \ {"DELETED"}
    /\ shift' = [shift EXCEPT ![r] = [op |-> op, step |-> "read", staff |-> p, room |-> m,
                                      status |-> staff[p], active |-> room[m]]]
    /\ UNCHANGED <<staff, staffEvents, staffLock, designation>>

DecideShift(r, lease) ==
    /\ shift[r].op # "create_eligibility" /\ shift[r].step = "read"
    /\ LET q == shift[r] IN
       /\ staffLock[q.staff] = None
       /\ \E plan \in StaffPlans(q, lease) :
             /\ Len(staffEvents[q.staff]) + Len(plan) <= MaxStaffEvents
             /\ shift' = [shift EXCEPT ![r] =
                    [op |-> q.op, step |-> "decided", staff |-> q.staff,
                     last |-> Len(staffEvents[q.staff]), plan |-> plan]]
       /\ staffLock' = [staffLock EXCEPT ![q.staff] = r]
    /\ UNCHANGED <<staff, staffEvents, designation>>

\* The unique key (staff, sequence) refuses a plan whose numbers are taken.
CommitShift(r) ==
    /\ shift[r].step = "decided"
    /\ LET q == shift[r] IN
       /\ staffEvents' = IF q.last = Len(staffEvents[q.staff])
                         THEN [staffEvents EXCEPT ![q.staff] = @ \o q.plan] ELSE staffEvents
       /\ staffLock' = [staffLock EXCEPT ![q.staff] = None]
    /\ shift' = [shift EXCEPT ![r] = Idle]
    /\ UNCHANGED <<staff, designation>>

RollbackShift(r) ==
    /\ shift[r] # Idle
    /\ staffLock' = [p \in Staff |-> IF staffLock[p] = r THEN None ELSE staffLock[p]]
    /\ shift' = [shift EXCEPT ![r] = Idle]
    /\ UNCHANGED <<staff, staffEvents, designation>>

----------------------------------------------------------------------------
\* The profile is read before the lock, the person's designations after it.
BeginCreateEligibility(r, p, f) ==
    /\ shift[r] = Idle /\ staff[p] = "ACTIVE"
    /\ shift' = [shift EXCEPT ![r] = [op |-> "create_eligibility", step |-> "read",
                                      staff |-> p, facility |-> f]]
    /\ UNCHANGED <<staff, staffEvents, staffLock, designation>>

CommitCreateEligibility(r, d, t) ==
    /\ shift[r].op = "create_eligibility" /\ designation[d] = NoDesignation
    /\ ActiveAssignments(shift[r].staff, shift[r].facility) = {}
    /\ designation' = [designation EXCEPT ![d] =
           [status |-> "ACTIVE", staff |-> shift[r].staff, facility |-> shift[r].facility,
            terms |-> t]]
    /\ shift' = [shift EXCEPT ![r] = Idle]
    /\ UNCHANGED <<staff, staffEvents, staffLock>>

\* The start of a designation never changes; everything is read after the lock.
UpdateEligibility(d, t) ==
    /\ designation[d].status = "ACTIVE" /\ staff[designation[d].staff] = "ACTIVE"
    /\ t.from = designation[d].terms.from
    /\ designation' = [designation EXCEPT ![d].terms = t]
    /\ UNCHANGED <<staff, staffEvents, staffLock, shift>>

DeactivateEligibility(d) ==
    /\ designation[d].status = "ACTIVE"
    /\ designation' = [designation EXCEPT ![d].status = "INACTIVE"]
    /\ UNCHANGED <<staff, staffEvents, staffLock, shift>>

\* staff_service.py: profiles come, are suspended, come back and are removed for good.
SetStaffStatus(p, s) ==
    /\ IF staff[p] = "none" THEN s = "ACTIVE" ELSE staff[p] \notin {s, "DELETED"}
    /\ staff' = [staff EXCEPT ![p] = s]
    /\ UNCHANGED <<staffEvents, staffLock, shift, designation>>

StaffInit ==
    /\ staff = [p \in Staff |-> "none"]
    /\ staffEvents = [p \in Staff |-> <<>>]
    /\ staffLock = [p \in Staff |-> None]
    /\ shift = [r \in Shifts |-> Idle]
    /\ designation = [d \in Designations |-> NoDesignation]

\* The routes of staff_roster_api.py: presence, then designations.
ShiftStep(r) ==
    \/ \E op \in AttendanceOps, p \in Staff, m \in Rooms : BeginShift(r, op, p, m)
    \/ \E lease \in Leases : DecideShift(r, lease)
    \/ CommitShift(r)
    \/ RollbackShift(r)
    \/ \E p \in Staff, f \in Facilities : BeginCreateEligibility(r, p, f)
    \/ \E d \in Designations, t \in StaffTerms : CommitCreateEligibility(r, d, t)

StaffStep ==
    \/ \E r \in Shifts : ShiftStep(r)
    \/ \E d \in Designations : DeactivateEligibility(d) \/ \E t \in StaffTerms : UpdateEligibility(d, t)
    \/ \E p \in Staff, s \in StaffStatus : SetStaffStatus(p, s)

----------------------------------------------------------------------------
StaffTypeOK ==
    /\ staff \in StaffProfile
    /\ staffEvents \in [Staff -> Seq(StaffPresenceEvent)]
    /\ staffLock \in [Staff -> Shifts \cup {None}]
    /\ shift \in [Shifts -> {Idle} \cup StaffRequest]
    /\ designation \in [Designations -> StaffRatioEligibility \cup {NoDesignation}]

\* staff_presence.py plan_check_in: a stay is never opened while another one lasts, in whatever
\* facility, however many operators check the same person in: a teacher is never two teachers.
OneRoomPerTeacher ==
    \A p \in Staff :
        LET es == staffEvents[p] IN
        \A i \in 1..Len(es) - 1 :
            /\ es[i].at <= es[i + 1].at
            /\ CASE es[i + 1].type = "CHECKED_IN" ->
                    Opens(es[i]) => /\ es[i].until <= es[i + 1].at
                                    /\ \/ es[i].room = es[i + 1].room
                                       \/ FacilityOf[es[i].room] # FacilityOf[es[i + 1].room]
                 [] es[i + 1].type = "REFRESHED" ->
                    Opens(es[i]) /\ es[i].room = es[i + 1].room /\ es[i + 1].at < es[i].until
                 [] OTHER -> Opens(es[i]) /\ es[i].room = es[i + 1].room

\* uq_staff_ratio_eligibility_active: nobody counts at a facility under two designations at once.
OneDesignation ==
    \A p \in Staff, f \in Facilities : \A d, e \in ActiveAssignments(p, f) : d = e

=============================================================================
