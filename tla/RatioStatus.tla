---------------------------- MODULE RatioStatus -----------------------------
(***************************************************************************)
(* The ratio of a classroom: its policies, the manual reports, the mode    *)
(* that says which source supplies each number, and the evaluation that    *)
(* reads them all in one READ COMMITTED transaction, statement by          *)
(* statement, against an instant taken before the first of them.           *)
(***************************************************************************)
EXTENDS StaffPresence, FiniteSets

CONSTANTS Policies, Editors,
          PolicyTerms,   \* numbers and period of a policy (group 0 is no maximum)
          Counts,        \* numbers an operator may report
          MaxReports     \* bound: manual reports submitted

ASSUME RatioStatusAssumption ==
    /\ None \notin Editors /\ None \notin Nat
    /\ IsFiniteSet(Children) /\ IsFiniteSet(Staff)   \* rows of tables: what is counted is a number
    /\ PolicyTerms \subseteq [from : Nat, until : Nat, max : Nat \ {0}, min : Nat, group : Nat]
    /\ Counts \subseteq Nat
    /\ MaxReports \in Nat

VARIABLES
    mode,         \* areas.presence_source_mode
    policy,       \* classroom_ratio_policies
    policyLock,   \* holder of the classroom's policy lock
    editor,       \* the transaction of each administrator
    reports,      \* committed classroom_presence_snapshots
    stamps,       \* submissions so far: they order observed_at
    view,         \* the ratio_status under way, or its result
    seen          \* history: stamp of the newest report an evaluation of the room went by

ratioVars == <<mode, policy, policyLock, editor, reports, stamps, view, seen>>

RosterStaffModes == {"ROSTER_STAFF_PLUS_MANUAL_CHILDREN", "ATTENDANCE_CHILDREN_PLUS_ROSTER_STAFF"}
AttendanceChildModes == {"ATTENDANCE_CHILDREN_PLUS_ROSTER_STAFF"}
PresenceSourceMode == {"MANUAL_AGGREGATE"} \cup RosterStaffModes

NoPolicy == [status |-> "none"]
ClassroomRatioPolicy == [status : {"ACTIVE", "INACTIVE"}, room : Rooms, terms : PolicyTerms]
Absent == None
\* children and staff are absent where the mode takes them from elsewhere.
ClassroomPresenceSnapshot ==
    [room : Rooms, stamp : Nat, at : Nat, until : Nat, revoked : BOOLEAN,
     children : Counts \cup {Absent}, staff : Counts \cup {Absent}]

----------------------------------------------------------------------------
(* Policies: Begin reads the classroom, Decide has the lock and reads the policies. *)

PolicyApplies(t, now) == t.from <= now /\ (t.until = 0 \/ now < t.until)
PeriodsOverlap(s, t) == (s.until = 0 \/ t.from < s.until) /\ (t.until = 0 \/ s.from < t.until)

\* find_overlap of a policy of the room with every other active one.
FindOverlap(m, i, t) ==
    {j \in Policies \ {i} : /\ policy[j].status = "ACTIVE" /\ policy[j].room = m
                            /\ PeriodsOverlap(t, policy[j].terms)}

BeginPolicy(e, op, m, i, t) ==
    /\ editor[e] = Idle /\ (op # "deactivate_policy" => room[m])
    /\ editor' = [editor EXCEPT ![e] =
           [op |-> op, step |-> "read", room |-> m, policy |-> i, terms |-> t]]
    /\ UNCHANGED <<mode, policy, policyLock, reports, stamps, view, seen>>

Allowed(q) ==
    CASE q.op = "create_policy" ->
             policy[q.policy] = NoPolicy /\ FindOverlap(q.room, q.policy, q.terms) = {}
      [] q.op = "update_policy" ->
             /\ policy[q.policy].status = "ACTIVE" /\ policy[q.policy].room = q.room
             /\ FindOverlap(q.room, q.policy, q.terms) = {}
      [] q.op = "deactivate_policy" ->
             policy[q.policy].status = "ACTIVE" /\ policy[q.policy].room = q.room

Unlocked(m) == TRUE   \* faulty variant: the overlap is looked for before the lock is held
Free(m) == policyLock[m] = None

DecidePolicy(e) ==
    /\ editor[e].op # "submit" /\ editor[e].step = "read"
    /\ Free(editor[e].room) /\ Allowed(editor[e])
    /\ policyLock' = [policyLock EXCEPT ![editor[e].room] = e]
    /\ editor' = [editor EXCEPT ![e].step = "decided"]
    /\ UNCHANGED <<mode, policy, reports, stamps, view, seen>>

CommitPolicy(e) ==
    /\ editor[e].op # "submit" /\ editor[e].step = "decided"
    /\ LET q == editor[e] IN
       /\ policy' = [policy EXCEPT ![q.policy] =
              IF q.op = "deactivate_policy" THEN [@ EXCEPT !.status = "INACTIVE"]
              ELSE [status |-> "ACTIVE", room |-> q.room, terms |-> q.terms]]
       /\ policyLock' = [policyLock EXCEPT ![q.room] = None]
    /\ editor' = [editor EXCEPT ![e] = Idle]
    /\ UNCHANGED <<mode, reports, stamps, view, seen>>

RollbackEdit(e) ==
    /\ editor[e] # Idle
    /\ policyLock' = [m \in Rooms |-> IF policyLock[m] = e THEN None ELSE policyLock[m]]
    /\ editor' = [editor EXCEPT ![e] = Idle]
    /\ UNCHANGED <<mode, policy, reports, stamps, view, seen>>

----------------------------------------------------------------------------
(* Manual reports: the mode at submission decides which numbers a report may carry. *)

BeginSubmit(e, m, children, adults) ==
    /\ editor[e] = Idle /\ room[m] /\ stamps < MaxReports
    /\ (children = Absent) = (mode[m] \in AttendanceChildModes)
    /\ (adults = Absent) = (mode[m] \in RosterStaffModes)
    /\ stamps' = stamps + 1
    /\ \E lease \in Leases :
          editor' = [editor EXCEPT ![e] =
              [op |-> "submit", step |-> "read",
               row |-> [room |-> m, stamp |-> stamps', at |-> clock, until |-> clock + lease,
                        revoked |-> FALSE, children |-> children, staff |-> adults]]]
    /\ UNCHANGED <<mode, policy, policyLock, reports, view, seen>>

CommitSubmit(e) ==
    /\ editor[e].op = "submit"
    /\ reports' = reports \cup {editor[e].row}
    /\ editor' = [editor EXCEPT ![e] = Idle]
    /\ UNCHANGED <<mode, policy, policyLock, stamps, view, seen>>

RevokeManualPresence(x) ==
    /\ ~x.revoked
    /\ reports' = (reports \ {x}) \cup {[x EXCEPT !.revoked = TRUE]}
    /\ UNCHANGED <<mode, policy, policyLock, editor, stamps, view, seen>>

SetPresenceSourceMode(m, v) ==
    /\ mode[m] # v
    /\ mode' = [mode EXCEPT ![m] = v]
    /\ UNCHANGED <<policy, policyLock, editor, reports, stamps, view, seen>>

NewestStanding(m) ==   \* faulty variant: a revoked report lets the one before it decide again
    {x \in reports : x.room = m /\ ~x.revoked
                     /\ \A y \in reports : y.room = m /\ ~y.revoked => y.stamp <= x.stamp}
\* resolve_manual_presence: the latest report decides, revoked or not; none is the empty set.
NewestReport(m) ==
    {x \in reports : x.room = m /\ \A y \in reports : y.room = m => y.stamp <= x.stamp}

----------------------------------------------------------------------------
(* ratio_status *)

Nothing == [step |-> "none"]

BeginStatus(m) ==
    /\ view.step \in {"none", "done"}
    /\ view' = [step |-> "begun", room |-> m, now |-> clock]
    /\ UNCHANGED <<mode, policy, policyLock, editor, reports, stamps, seen>>

\* Classroom, policies and report; a revoked report gives no numbers.
ReadClassroom ==
    /\ view.step = "begun"
    /\ LET m == view.room
           newest == NewestReport(m) IN
       /\ view' = [step |-> "read", room |-> m, now |-> view.now, mode |-> mode[m],
                   active |-> room[m],
                   policies |-> {policy[i].terms : i \in
                                    {j \in Policies : /\ policy[j].status = "ACTIVE"
                                                      /\ policy[j].room = m
                                                      /\ PolicyApplies(policy[j].terms, view.now)}},
                   manual |-> {x \in newest : ~x.revoked}]
       /\ seen' = [seen EXCEPT ![m] = CHOOSE n \in {@} \cup {x.stamp : x \in newest} :
                                         \A x \in newest : @ <= n /\ x.stamp <= n]
    /\ UNCHANGED <<mode, policy, policyLock, editor, reports, stamps>>

ReadRoster ==
    /\ view.step = "read"
    /\ view' = [step |-> "staffed", room |-> view.room, now |-> view.now, mode |-> view.mode,
                active |-> view.active, policies |-> view.policies, manual |-> view.manual,
                roster |-> CountedStaff(view.room, view.now)]
    /\ UNCHANGED <<mode, policy, policyLock, editor, reports, stamps, seen>>

\* A slot is the numbers a source gives: none when missing; a stale number is no number.
ManualSlot(v, field) ==
    {x[field] : x \in {y \in v.manual : y[field] # Absent /\ v.now < y.until}}
ChildSlot(v, present) ==
    IF v.mode \in AttendanceChildModes THEN {Cardinality(present)} ELSE ManualSlot(v, "children")
StaffSlot(v) ==
    IF v.mode \in RosterStaffModes THEN {Cardinality(v.roster)} ELSE ManualSlot(v, "staff")

CeilDiv(n, d) == (n + d - 1) \div d
RequiredStaff(n, t) ==
    IF n = 0 THEN 0 ELSE IF CeilDiv(n, t.max) > t.min THEN CeilDiv(n, t.max) ELSE t.min

EvaluateRatio(v, children, adults) ==
    IF ~v.active \/ v.policies = {} THEN "NOT_CONFIGURED"
    ELSE IF children = {} \/ adults = {} THEN "INSUFFICIENT_DATA"
    ELSE LET n == CHOOSE x \in children : TRUE
             k == CHOOSE x \in adults : TRUE
             t == CHOOSE x \in v.policies : TRUE IN
         IF n = 0 THEN "NO_CHILDREN_PRESENT"
         ELSE IF RequiredStaff(n, t) > k THEN "OVER_CONFIGURED_RATIO"
         ELSE IF t.group # 0 /\ n > t.group THEN "OVER_CONFIGURED_GROUP_SIZE"
         ELSE "WITHIN_CONFIGURED_POLICY"

ReadAttendance ==
    /\ view.step = "staffed"
    /\ LET present == CountedChildren(view.room, view.now) IN
       view' = [step |-> "done", room |-> view.room, now |-> view.now, mode |-> view.mode,
                active |-> view.active, policies |-> view.policies, manual |-> view.manual,
                roster |-> view.roster, attendance |-> present,
                verdict |-> EvaluateRatio(view, ChildSlot(view, present), StaffSlot(view))]
    /\ UNCHANGED <<mode, policy, policyLock, editor, reports, stamps, seen>>

RatioInit ==
    /\ mode = [m \in Rooms |-> "MANUAL_AGGREGATE"]
    /\ policy = [i \in Policies |-> NoPolicy]
    /\ policyLock = [m \in Rooms |-> None]
    /\ editor = [e \in Editors |-> Idle]
    /\ reports = {} /\ stamps = 0
    /\ view = Nothing
    /\ seen = [m \in Rooms |-> 0]

\* The routes of classroom_api.py: policies, reports and their source, the status.
PolicyStep(e) ==
    \/ \E op \in {"create_policy", "update_policy", "deactivate_policy"}, m \in Rooms,
          i \in Policies, t \in PolicyTerms : BeginPolicy(e, op, m, i, t)
    \/ DecidePolicy(e)
    \/ CommitPolicy(e)

ReportStep ==
    \/ \E e \in Editors, m \in Rooms, n, k \in Counts \cup {Absent} : BeginSubmit(e, m, n, k)
    \/ \E e \in Editors : CommitSubmit(e)
    \/ \E x \in reports : RevokeManualPresence(x)
    \/ \E m \in Rooms, v \in PresenceSourceMode : SetPresenceSourceMode(m, v)

StatusStep ==
    \/ \E m \in Rooms : BeginStatus(m)
    \/ ReadClassroom \/ ReadRoster \/ ReadAttendance

RatioStep ==
    \/ \E e \in Editors : PolicyStep(e) \/ RollbackEdit(e)
    \/ ReportStep
    \/ StatusStep

----------------------------------------------------------------------------
\* classroom_service.py:519: writes under the classroom's lock never leave two active policies in
\* force at one instant (no constraint of the database forbids it), so no evaluation is ambiguous.
PoliciesDisjoint ==
    /\ \A i, j \in Policies :
          i # j /\ policy[i].status = "ACTIVE" /\ policy[j].status = "ACTIVE"
                /\ policy[i].room = policy[j].room
          => ~PeriodsOverlap(policy[i].terms, policy[j].terms)
    /\ view.step \in {"read", "staffed", "done"} => Cardinality(view.policies) <= 1

\* evaluate_ratio with compose_presence: a verdict follows from numbers that were all there, fresh
\* and of the source the mode names, none added to another; within means enough adults by product.
\* resolve_manual_presence, "nothing older is ever reconsidered": a report that gives numbers is no
\* older than any the room was judged by before, whatever was revoked or lapsed since.
VerdictSound ==
    view.step = "done" =>
        /\ \A x \in view.manual : x.stamp = seen[view.room]
        /\ LET manual == {x \in view.manual : view.now < x.until}
               children == IF view.mode = "ATTENDANCE_CHILDREN_PLUS_ROSTER_STAFF"
                           THEN {Cardinality(view.attendance)} ELSE {x.children : x \in manual}
               adults == IF view.mode = "MANUAL_AGGREGATE"
                         THEN {x.staff : x \in manual} ELSE {Cardinality(view.roster)} IN
           CASE view.verdict = "WITHIN_CONFIGURED_POLICY" ->
                    \E n \in children \ {Absent, 0}, k \in adults \ {Absent}, t \in view.policies :
                        n <= k * t.max /\ t.min <= k /\ (t.group = 0 \/ n <= t.group)
             [] view.verdict = "OVER_CONFIGURED_RATIO" ->
                    \E n \in children \ {Absent, 0}, k \in adults \ {Absent}, t \in view.policies :
                        n > k * t.max \/ k < t.min
             [] view.verdict = "OVER_CONFIGURED_GROUP_SIZE" ->
                    \E n \in children \ {Absent}, t \in view.policies : 0 < t.group /\ t.group < n
             [] view.verdict = "NO_CHILDREN_PRESENT" -> 0 \in children /\ adults \ {Absent} # {}
             [] OTHER -> \/ ~view.active \/ view.policies = {}
                         \/ children \subseteq {Absent} \/ adults \subseteq {Absent}

=============================================================================
