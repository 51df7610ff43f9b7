-------------------------- MODULE ChildAttendance ---------------------------
(***************************************************************************)
(* The attendance record of children: their profiles, the classrooms,      *)
(* the append-only events, and the requests that plan a transition under   *)
(* the child's lock and append it.  Facilities themselves do not change.   *)
(*                                                                         *)
(* A request is one transaction.  It reads the classroom and the profile   *)
(* before it has the lock ("read"), takes the lock, reads the clock and    *)
(* the latest event and plans ("decided"), then inserts and commits.       *)
(* Others come between any two of these steps.                             *)
(***************************************************************************)
EXTENDS Naturals, Sequences

CONSTANTS Children, Rooms, Requests,
          FacilityOf,    \* facility of a room, a child or a contact
          Leases,        \* lease_seconds an operator may ask for
          None,          \* no request, no room
          MaxTime,       \* bound: the last instant explored
          MaxEvents      \* bound: events of one child

ASSUME ChildAttendanceAssumption ==
    /\ None \notin Requests \cup Rooms
    /\ Leases \subseteq Nat \ {0}
    /\ MaxTime \in Nat /\ MaxEvents \in Nat

VARIABLES
    clock,     \* datetime.now(UTC)
    room,      \* areas.status = 'ACTIVE'
    child,     \* child_profiles.status, "none" before the row exists
    events,    \* child_attendance_events of a child; the index is the sequence
    lock,      \* holder of pg_advisory_xact_lock("child_attendance:...")
    request    \* the transaction each request runs

attendanceVars == <<clock, room, child, events, lock, request>>

Time == 0..MaxTime
Status == {"ACTIVE", "INACTIVE", "ARCHIVED"}

\* A row of child_attendance_events; until = 0 is the NULL of a check-out.
ChildAttendanceEvent == [type : {"CHECKED_IN", "REFRESHED", "CHECKED_OUT"}, room : Rooms,
                         at : Nat, until : Nat, since : Nat]

Opens(e) == e.type # "CHECKED_OUT"
Latest(es) == es[Len(es)]
IsOpen(es) == es # <<>> /\ Opens(Latest(es))
InClassroom(es, m) == IsOpen(es) /\ Latest(es).room = m
Fresh(es, now) == IsOpen(es) /\ now < Latest(es).until
Present(es, now, m) == Fresh(es, now) /\ Latest(es).room = m

\* ChildProfile as the services write it: created ACTIVE, then ACTIVE <-> INACTIVE, ARCHIVED last.
ChildProfile == [Children -> Status \cup {"none"}]
StatusTransition(from, to) == from # to /\ from # "ARCHIVED"

----------------------------------------------------------------------------
(* A plan is the sequence of events to append; a refusal is the empty set. *)

CheckedIn(m, now, lease) ==
    [type |-> "CHECKED_IN", room |-> m, at |-> now, until |-> now + lease, since |-> now]
CheckedOut(es, now) ==
    [type |-> "CHECKED_OUT", room |-> Latest(es).room, at |-> now, until |-> 0,
     since |-> Latest(es).since]
Refreshed(es, now, lease) ==
    [type |-> "REFRESHED", room |-> Latest(es).room, at |-> now, until |-> now + lease,
     since |-> Latest(es).since]

PlanCheckIn(es, m, now, lease, status, active) ==
    IF ~active \/ status # "ACTIVE" \/ Present(es, now, m) THEN {}
    ELSE IF IsOpen(es) /\ Latest(es).room # m
         THEN {<<CheckedOut(es, now), CheckedIn(m, now, lease)>>}
         ELSE {<<CheckedIn(m, now, lease)>>}

PlanRefreshLapsed(es, m, now, lease, status, active) ==   \* faulty variant: a lapsed stay is revived
    IF active /\ InClassroom(es, m) /\ status = "ACTIVE" THEN {<<Refreshed(es, now, lease)>>} ELSE {}
PlanRefresh(es, m, now, lease, status, active) ==
    IF active /\ InClassroom(es, m) /\ Fresh(es, now) /\ status = "ACTIVE"
    THEN {<<Refreshed(es, now, lease)>>} ELSE {}

\* A child present elsewhere is refused; a child who is not here at all is left UNCHANGED.
PlanCheckOut(es, m, now) ==
    IF InClassroom(es, m) THEN {<<CheckedOut(es, now)>>}
    ELSE IF Fresh(es, now) THEN {} ELSE {<<>>}

----------------------------------------------------------------------------
(* What a request carries: the rows it read before the lock, then its plan. *)

Idle == [op |-> "idle", step |-> "done"]
Serves(r, op, step) == request[r].op = op /\ request[r].step = step
Decided(r) == request[r].step = "decided"

AttendanceOps == {"check_in", "refresh", "check_out"}
AttendanceRequest ==
    [op : AttendanceOps, step : {"read"}, child : Children, room : Rooms,
     status : Status, active : BOOLEAN]
    \cup
    [op : AttendanceOps, step : {"decided"}, child : Children,
     last : 0..MaxEvents, plan : Seq(ChildAttendanceEvent)]

\* Child and classroom are read without a lock; what they say is used after it (hazard).
BeginAttendance(r, op, c, m) ==
    /\ request[r] = Idle /\ child[c] # "none" /\ FacilityOf[c] = FacilityOf[m]
    /\ request' = [request EXCEPT ![r] =
           [op |-> op, step |-> "read", child |-> c, room |-> m,
            status |-> child[c], active |-> room[m]]]
    /\ UNCHANGED <<clock, room, child, events, lock>>

Plans(q, lease) ==
    LET es == events[q.child] IN
    CASE q.op = "check_in"  -> PlanCheckIn(es, q.room, clock, lease, q.status, q.active)
      [] q.op = "refresh"   -> PlanRefresh(es, q.room, clock, lease, q.status, q.active)
      [] q.op = "check_out" -> PlanCheckOut(es, q.room, clock)

AtOnce(c) == TRUE   \* faulty variant: the lock is not taken before the record is read
Available(c) == lock[c] = None

\* The lock is taken, clock and latest event are read, the pure plan_* decides.
DecideAttendance(r, lease) ==
    /\ request[r].op \in AttendanceOps /\ request[r].step = "read"
    /\ LET q == request[r] IN
       /\ Available(q.child)
       /\ \E plan \in Plans(q, lease) :
             /\ Len(events[q.child]) + Len(plan) <= MaxEvents
             /\ request' = [request EXCEPT ![r] =
                    [op |-> q.op, step |-> "decided", child |-> q.child,
                     last |-> Len(events[q.child]), plan |-> plan]]
             /\ lock' = [lock EXCEPT ![q.child] = r]
    /\ UNCHANGED <<clock, room, child, events>>

\* The unique key (child, sequence): an insert into taken numbers fails and nothing is written.
Appended(q) ==
    IF q.last = Len(events[q.child])
    THEN [events EXCEPT ![q.child] = @ \o q.plan] ELSE events

CommitAttendance(r) ==
    /\ request[r].op \in AttendanceOps /\ Decided(r)
    /\ events' = Appended(request[r])
    /\ lock' = [lock EXCEPT ![request[r].child] = None]
    /\ request' = [request EXCEPT ![r] = Idle]
    /\ UNCHANGED <<clock, room, child>>

\* The transaction ends without a write: refused by any check, cancelled, or its process died.
Rollback(r) ==
    /\ request[r] # Idle
    /\ lock' = [c \in Children |-> IF lock[c] = r THEN None ELSE lock[c]]
    /\ request' = [request EXCEPT ![r] = Idle]
    /\ UNCHANGED <<clock, room, child, events>>

----------------------------------------------------------------------------
CreateChild(c) ==
    /\ child[c] = "none"
    /\ child' = [child EXCEPT ![c] = "ACTIVE"]
    /\ UNCHANGED <<clock, room, events, lock, request>>

\* FOR UPDATE waits for the FOR SHARE of a release; busy(c) says that one holds the row.
SetChildStatus(c, s, busy) ==
    /\ child[c] # "none" /\ StatusTransition(child[c], s) /\ ~busy
    /\ child' = [child EXCEPT ![c] = s]
    /\ UNCHANGED <<clock, room, events, lock, request>>

SetClassroomActive(m) ==
    /\ room' = [room EXCEPT ![m] = ~@]
    /\ UNCHANGED <<clock, child, events, lock, request>>

Tick ==
    /\ clock < MaxTime /\ clock' = clock + 1
    /\ UNCHANGED <<room, child, events, lock, request>>

AttendanceInit ==
    /\ clock = 0
    /\ room = [m \in Rooms |-> TRUE]
    /\ child = [c \in Children |-> "none"]
    /\ events = [c \in Children |-> <<>>]
    /\ lock = [c \in Children |-> None]
    /\ request = [r \in Requests |-> Idle]

AttendanceTypeOK ==
    /\ clock \in Time
    /\ room \in [Rooms -> BOOLEAN]
    /\ child \in ChildProfile
    /\ events \in [Children -> Seq(ChildAttendanceEvent)]
    /\ lock \in [Children -> Requests \cup {None}]

AttendanceStep(r) ==
    \/ \E op \in AttendanceOps, c \in Children, m \in Rooms : BeginAttendance(r, op, c, m)
    \/ \E lease \in Leases : DecideAttendance(r, lease)
    \/ CommitAttendance(r)
    \/ Rollback(r)

----------------------------------------------------------------------------
(* The authoritative count of a classroom at an instant, and who is in it. *)

CountedChildren(m, now) ==
    {c \in Children : child[c] = "ACTIVE" /\ Present(events[c], now, m)}

\* One event after another of the same child: a stay is entered, extended while it lasts and left;
\* a room is entered only from outside every room, or again after the lease there ran out.
Follows(e, f) ==
    /\ e.at <= f.at
    /\ CASE f.type = "CHECKED_IN"  -> f.since = f.at
                                      /\ (Opens(e) => e.room = f.room /\ e.until <= f.at)
         [] f.type = "REFRESHED"   -> Opens(e) /\ e.room = f.room /\ f.since = e.since
                                      /\ f.at < e.until
         [] f.type = "CHECKED_OUT" -> Opens(e) /\ e.room = f.room /\ f.since = e.since

\* child_attendance.py plan_*: whatever two operators do at once, a child's record is a chain of
\* stays in one room at a time: nobody is in two rooms, leaves twice, or has a lapsed stay revived.
OneRoomAtATime ==
    \A c \in Children :
        LET es == events[c] IN
        /\ es # <<>> => es[1].type = "CHECKED_IN"
        /\ \A i \in 1..Len(es) - 1 : Follows(es[i], es[i + 1])

\* child_roster_store.py:48, "the lock turns a would-be conflict into a wait": what a request has
\* decided under the lock still fits the record when it commits, so the unique key never refuses.
DecisionStands ==
    \A r \in Requests : Decided(r) /\ request[r].op \in AttendanceOps
        => request[r].last = Len(events[request[r].child])

=============================================================================
