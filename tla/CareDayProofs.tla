---------------------------- MODULE CareDayProofs ----------------------------
(***************************************************************************)
(* Proofs about CareDay: the children's record and their release, the      *)
(* staff's record, policies and verdicts of the ratio.  Each part has its  *)
(* inductive invariant; all three rest on the same idea.  A transaction    *)
(* that has decided under its lock finds, when it commits, what it decided *)
(* on: whoever could change it would need the lock, or the row it holds.   *)
(***************************************************************************)
EXTENDS CareDay, SequenceTheorems, FiniteSetTheorems, TLAPS

-----------------------------------------------------------------------------
(* The children's record: what is true between any two steps. *)

Requested == {Idle} \cup AttendanceRequest \cup ReleaseRequest \cup LinkRequest

\* A record is a chain of stays, none of its events lies in the future.
Chained(es) ==
    /\ es # <<>> => es[1].type = "CHECKED_IN"
    /\ \A i \in 1..Len(es) - 1 : Follows(es[i], es[i + 1])
Past(es) == \A i \in 1..Len(es) : es[i].at <= clock
Records ==
    \A c \in Children : Chained(events[c]) /\ Past(events[c]) /\ Len(events[c]) <= MaxEvents

\* What a request has decided stays right until it commits, because it holds the child's lock.
Standing(q, r) ==
    /\ lock[q.child] = r
    /\ q.last = Len(events[q.child]) /\ q.last + Len(q.plan) <= MaxEvents
    /\ Chained(events[q.child] \o q.plan) /\ Past(q.plan)
Serialised == \A r \in Requests : Decided(r) => Standing(request[r], r)

\* What a decided release rests on stays true until it commits, because it holds the rows.
Entitled(q) ==
    /\ child[q.child] = "ACTIVE" /\ contact[q.contact] = "ACTIVE"
    /\ link[q.link].status = "ACTIVE" /\ link[q.link].revision = q.revision
    /\ link[q.link].child = q.child /\ link[q.link].contact = q.contact
    /\ Len(q.plan) = 1 /\ q.plan[1].type = "CHECKED_OUT"
    /\ Authorises(link[q.link].terms, q.plan[1].at)
    /\ Opens(Latest(events[q.child])) /\ q.plan[1].at < Latest(events[q.child]).until
HeldRows == \A r \in Requests : Releasing(r) => Entitled(request[r])

\* The child of a link, or of one about to be created, has a profile.
Known ==
    /\ \A l \in Links : link[l] # NoLink => child[link[l].child] # "none"
    /\ \A r \in Requests : request[r].op = "create_link" => child[request[r].child] # "none"

\* What AuditExplains says of the audit of one link.
Explained(rows, row) ==
    LET n == Len(rows) IN
    /\ row = IF n = 0 THEN NoLink ELSE rows[n].after
    /\ \A i \in 1..n :
          /\ rows[i].after.revision = i
          /\ rows[i].before = IF i = 1 THEN NoLink ELSE rows[i - 1].after
          /\ i < n => rows[i].after.status = "ACTIVE"

ChildrenInv ==
    /\ AttendanceTypeOK /\ GuardianTypeOK
    /\ Records /\ Serialised /\ HeldRows /\ Known
    /\ OneActiveLink /\ AuditExplains /\ ReleasedByRight /\ HandedOverOnce

\* The same of the staff's record.
StaffFollows(e, f) ==
    /\ e.at <= f.at
    /\ CASE f.type = "CHECKED_IN" ->
            Opens(e) => /\ e.until <= f.at
                        /\ e.room = f.room \/ FacilityOf[e.room] # FacilityOf[f.room]
         [] f.type = "REFRESHED" -> Opens(e) /\ e.room = f.room /\ f.at < e.until
         [] OTHER -> Opens(e) /\ e.room = f.room
StaffChained(es) == \A i \in 1..Len(es) - 1 : StaffFollows(es[i], es[i + 1])
StaffRecords ==
    \A p \in Staff : /\ StaffChained(staffEvents[p]) /\ Past(staffEvents[p])
                     /\ Len(staffEvents[p]) <= MaxStaffEvents
StaffStanding(q, r) ==
    /\ staffLock[q.staff] = r
    /\ q.last = Len(staffEvents[q.staff]) /\ q.last + Len(q.plan) <= MaxStaffEvents
    /\ StaffChained(staffEvents[q.staff] \o q.plan) /\ Past(q.plan)
StaffSerialised ==
    \A r \in Shifts : shift[r].step = "decided" => StaffStanding(shift[r], r)
StaffInv == StaffTypeOK /\ StaffRecords /\ StaffSerialised /\ OneDesignation

\* The ratio: types, the locks of the policies, and what an evaluation has read so far.
PolicyEdit ==
    [op : {"create_policy", "update_policy", "deactivate_policy"}, step : {"read", "decided"},
     room : Rooms, policy : Policies, terms : PolicyTerms]
Submission == [op : {"submit"}, step : {"read"}, row : ClassroomPresenceSnapshot]
RatioStatusView ==
    {Nothing} \cup [step : {"begun"}, room : Rooms, now : Nat]
    \cup [step : {"read"}, room : Rooms, now : Nat, mode : PresenceSourceMode, active : BOOLEAN,
          policies : SUBSET PolicyTerms, manual : SUBSET ClassroomPresenceSnapshot]
    \cup [step : {"staffed"}, room : Rooms, now : Nat, mode : PresenceSourceMode, active : BOOLEAN,
          policies : SUBSET PolicyTerms, manual : SUBSET ClassroomPresenceSnapshot,
          roster : SUBSET Staff]
    \cup [step : {"done"}, room : Rooms, now : Nat, mode : PresenceSourceMode, active : BOOLEAN,
          policies : SUBSET PolicyTerms, manual : SUBSET ClassroomPresenceSnapshot,
          roster : SUBSET Staff, attendance : SUBSET Children,
          verdict : {"NOT_CONFIGURED", "INSUFFICIENT_DATA", "NO_CHILDREN_PRESENT",
                     "OVER_CONFIGURED_RATIO", "OVER_CONFIGURED_GROUP_SIZE",
                     "WITHIN_CONFIGURED_POLICY"}]
RatioTypeOK ==
    /\ mode \in [Rooms -> PresenceSourceMode]
    /\ policy \in [Policies -> ClassroomRatioPolicy \cup {NoPolicy}]
    /\ policyLock \in [Rooms -> Editors \cup {None}]
    /\ editor \in [Editors -> {Idle} \cup PolicyEdit \cup Submission]
    /\ reports \subseteq ClassroomPresenceSnapshot /\ stamps \in Nat
    /\ view \in RatioStatusView
    /\ seen \in [Rooms -> Nat]

Editing(e) == editor[e].op # "submit" /\ editor[e].step = "decided"
EditStanding(q, e) ==
    /\ policyLock[q.room] = e
    /\ IF q.op = "deactivate_policy" THEN policy[q.policy] # NoPolicy
       ELSE FindOverlap(q.room, q.policy, q.terms) = {}
EditsSerialised == \A e \in Editors : Editing(e) => EditStanding(editor[e], e)
Disjoint ==
    \A i, j \in Policies :
        i # j /\ policy[i].status = "ACTIVE" /\ policy[j].status = "ACTIVE"
              /\ policy[i].room = policy[j].room
        => ~PeriodsOverlap(policy[i].terms, policy[j].terms)

Judging == view.step \in {"read", "staffed", "done"}
\* The newest report a room was judged by is kept, whatever is revoked.
SeenStands == \A m \in Rooms : seen[m] = 0 \/ \E x \in reports : x.room = m /\ x.stamp = seen[m]
ViewStands ==
    Judging => /\ \A s, t \in view.policies : s = t
               /\ \A x \in view.manual : x.stamp = seen[view.room]
RatioInv ==
    RatioTypeOK /\ EditsSerialised /\ Disjoint /\ SeenStands /\ ViewStands /\ VerdictSound

-----------------------------------------------------------------------------
(* Sequences *)

LEMMA Joined ==
  ASSUME NEW S, NEW s \in Seq(S), NEW t \in Seq(S)
  PROVE  /\ s \o t \in Seq(S) /\ Len(s \o t) = Len(s) + Len(t)
         /\ Len(s) \in Nat /\ Len(t) \in Nat
         /\ \A i \in 1..Len(s) : (s \o t)[i] = s[i]
         /\ \A i \in 1..Len(t) : (s \o t)[Len(s) + i] = t[i]
         /\ \A i \in 1..Len(s \o t) : i <= Len(s) \/ (i - Len(s)) \in 1..Len(t)
OBVIOUS

LEMMA Single ==
  ASSUME NEW S, NEW a \in S
  PROVE  /\ <<a>> \in Seq(S) /\ Len(<<a>>) = 1 /\ <<a>>[1] = a /\ <<a>> # <<>>
OBVIOUS

LEMMA Pair ==
  ASSUME NEW S, NEW a \in S, NEW b \in S
  PROVE  /\ <<a, b>> \in Seq(S) /\ Len(<<a, b>>) = 2 /\ <<a, b>> # <<>>
         /\ <<a, b>>[1] = a /\ <<a, b>>[2] = b
OBVIOUS

LEMMA Elements ==
  ASSUME NEW S, NEW s \in Seq(S)
  PROVE  /\ Len(s) \in Nat /\ (s = <<>> <=> Len(s) = 0)
         /\ \A i \in 1..Len(s) : s[i] \in S
         /\ s # <<>> => Latest(s) \in S
BY DEF Latest

\* A record that gets one more event.
LEMMA OneMore ==
  ASSUME NEW S, NEW s \in Seq(S), s # <<>>, NEW t \in Seq(S), Len(t) = 1
  PROVE  /\ t[1] \in S /\ Len(s \o t) = Len(s) + 1
         /\ (s \o t)[Len(s) + 1] = t[1] /\ (s \o t)[Len(s)] = Latest(s)
<1>1. 1 \in 1..Len(t) /\ Len(s) \in 1..Len(s)
  BY Elements
<1>2. (s \o t)[Len(s) + 1] = t[1] /\ Len(s \o t) = Len(s) + 1
  BY <1>1, Joined
<1>3. (s \o t)[Len(s)] = Latest(s)
  BY <1>1, Joined DEF Latest
<1> QED BY <1>1, <1>2, <1>3, Elements

\* A record continued by events each of which follows the one before is a chain.
LEMMA ChainGrows ==
  ASSUME NEW es \in Seq(ChildAttendanceEvent), NEW plan \in Seq(ChildAttendanceEvent),
         Chained(es),
         plan # <<>> => IF es = <<>> THEN plan[1].type = "CHECKED_IN" ELSE Follows(Latest(es), plan[1]),
         \A i \in 1..Len(plan) - 1 : Follows(plan[i], plan[i + 1])
  PROVE  Chained(es \o plan)
<1> DEFINE all == es \o plan
<1>1. /\ Len(all) = Len(es) + Len(plan) /\ Len(es) \in Nat /\ Len(plan) \in Nat
      /\ \A i \in 1..Len(es) : all[i] = es[i]
      /\ \A i \in 1..Len(plan) : all[Len(es) + i] = plan[i]
  BY Joined
<1>2. all # <<>> => all[1].type = "CHECKED_IN"
  <2>1. CASE es = <<>>
    BY <1>1, <2>1
  <2>2. CASE es # <<>>
    BY <1>1, <2>2, Elements DEF Chained
  <2> QED BY <2>1, <2>2
<1>3. ASSUME NEW i \in 1..Len(all) - 1 PROVE Follows(all[i], all[i + 1])
  <2>1. CASE i < Len(es)
    BY <1>1, <2>1 DEF Chained
  <2>2. CASE i = Len(es)
    <3>1. all[i] = Latest(es) /\ all[i + 1] = plan[1] /\ es # <<>> /\ plan # <<>>
      BY <1>1, <2>2 DEF Latest
    <3> QED BY <3>1
  <2>3. CASE i > Len(es)
    <3> DEFINE j == i - Len(es)
    <3>1. j \in 1..Len(plan) - 1 /\ all[i] = plan[j] /\ all[i + 1] = plan[j + 1]
      <4>1. j \in 1..Len(plan) - 1 /\ i = Len(es) + j /\ i + 1 = Len(es) + (j + 1)
        BY <1>1, <2>3
      <4> QED BY <1>1, <4>1
    <3> QED BY <3>1
  <2> QED BY <1>1, <2>1, <2>2, <2>3
<1> QED BY <1>2, <1>3 DEF Chained

LEMMA PastGrows ==
  ASSUME NEW es \in Seq(ChildAttendanceEvent), NEW plan \in Seq(ChildAttendanceEvent),
         Past(es), Past(plan)
  PROVE  Past(es \o plan)
<1> SUFFICES ASSUME NEW i \in 1..Len(es \o plan) PROVE (es \o plan)[i].at <= clock
  BY DEF Past
<1>1. CASE i <= Len(es)
  BY <1>1, Joined DEF Past
<1>2. CASE ~(i <= Len(es))
  <2> DEFINE j == i - Len(es)
  <2>1. Len(es) \in Nat /\ j \in 1..Len(plan)
    BY <1>2, Joined
  <2>2. i = Len(es) + j /\ (es \o plan)[Len(es) + j] = plan[j]
    BY <2>1, Joined
  <2> QED BY <2>1, <2>2 DEF Past
<1> QED BY <1>1, <1>2

-----------------------------------------------------------------------------
(* The children's record *)

LEMMA NoneAsks ==
  /\ None \notin Requests /\ None \notin Rooms /\ MaxEvents \in Nat /\ MaxTime \in Nat
  /\ Leases \subseteq Nat \ {0}
  /\ Idle \in Requested /\ ~(Idle.step = "decided") /\ Idle.op # "create_link"
BY ChildAttendanceAssumption DEF Requested, Idle

\* The fields of a request that has decided.
LEMMA DecidedRequest ==
  ASSUME ChildrenInv, NEW r \in Requests, Decided(r)
  PROVE  /\ request[r].child \in Children /\ request[r].plan \in Seq(ChildAttendanceEvent)
         /\ request[r].last \in 0..MaxEvents
         /\ request[r].op \in AttendanceOps \cup {"release"}
         /\ request[r].op = "release" =>
              /\ request[r].link \in Links /\ request[r].contact \in Contacts
              /\ request[r].revision \in Nat /\ request[r].last >= 1
<1>1. request[r] \in Requested
  BY DEF ChildrenInv, GuardianTypeOK, Requested
<1>2. request[r] \in AttendanceRequest \cup ReleaseRequest
  BY <1>1 DEF Requested, Decided, Idle, LinkRequest
<1> QED BY <1>2 DEF AttendanceRequest, ReleaseRequest, Decided, AttendanceOps

LEMMA LinksKept ==
  ASSUME ChildrenInv, UNCHANGED <<link, audit>>
  PROVE  OneActiveLink' /\ AuditExplains'
<1>1. link' = link /\ audit' = audit
  OBVIOUS
<1>2. OneActiveLink'
  BY <1>1 DEF ChildrenInv, OneActiveLink, ActiveLinks, PairLinks
<1>3. AuditExplains'
  BY <1>1 DEF ChildrenInv, AuditExplains
<1> QED BY <1>2, <1>3

LEMMA ReleasesKept ==
  ASSUME ChildrenInv, UNCHANGED <<events, audit, release>>
  PROVE  ReleasedByRight' /\ HandedOverOnce'
<1>1. events' = events /\ audit' = audit /\ release' = release
  OBVIOUS
<1>2. ReleasedByRight'
  BY <1>1 DEF ChildrenInv, ReleasedByRight
<1>3. HandedOverOnce'
  BY Zenon, <1>1 DEF ChildrenInv, HandedOverOnce
<1> QED BY <1>2, <1>3

LEMMA ChildrenStutter ==
  ASSUME ChildrenInv, UNCHANGED <<attendanceVars, guardianVars>>
  PROVE  ChildrenInv'
<1>1. UNCHANGED <<clock, room, child, events, lock, request, contact, link, audit, release>>
  BY DEF attendanceVars, guardianVars
<1>2. AttendanceTypeOK' /\ GuardianTypeOK'
  BY <1>1 DEF ChildrenInv, AttendanceTypeOK, GuardianTypeOK
<1>3. Records' /\ Serialised'
  BY <1>1 DEF ChildrenInv, Records, Past, Serialised, Decided, Standing
<1>4. HeldRows' /\ Known'
  BY <1>1 DEF ChildrenInv, HeldRows, Decided, Releasing, Entitled, Known
<1> QED BY <1>1, <1>2, <1>3, <1>4, LinksKept, ReleasesKept DEF ChildrenInv

\* A request begins, or is abandoned before it decides.
LEMMA Asked ==
  ASSUME ChildrenInv, NEW r \in Requests, NEW q \in Requested, q.step # "decided",
         q.op = "create_link" => child[q.child] # "none",
         request' = [request EXCEPT ![r] = q],
         UNCHANGED <<clock, room, child, events, lock, guardianVars>>
  PROVE  ChildrenInv'
<1>1. /\ request' \in [Requests -> Requested]
      /\ \A x \in Requests : Decided(x)' => Decided(x) /\ request'[x] = request[x]
  BY DEF ChildrenInv, GuardianTypeOK, Requested, Decided
<1>2. AttendanceTypeOK' /\ GuardianTypeOK' /\ Records'
  BY <1>1 DEF ChildrenInv, AttendanceTypeOK, GuardianTypeOK, Records, Past, Requested, guardianVars
<1>3. Serialised'
  BY <1>1 DEF ChildrenInv, Serialised, Standing, Past
<1>4. HeldRows'
  BY <1>1 DEF ChildrenInv, HeldRows, Releasing, Entitled, guardianVars
<1>5. OneActiveLink' /\ AuditExplains' /\ ReleasedByRight' /\ HandedOverOnce'
  BY LinksKept, ReleasesKept DEF guardianVars
<1>6. Known'
  BY <1>1 DEF ChildrenInv, Known, GuardianTypeOK, guardianVars
<1> QED BY <1>2, <1>3, <1>4, <1>5, <1>6 DEF ChildrenInv

\* A request decides: it takes the lock of a child nobody else has it of.
LEMMA Decides ==
  ASSUME ChildrenInv, NEW r \in Requests, NEW q \in Requested,
         q.step = "decided", q.child \in Children, lock[q.child] = None,
         q.plan \in Seq(ChildAttendanceEvent), q.last = Len(events[q.child]),
         q.last + Len(q.plan) <= MaxEvents, Chained(events[q.child] \o q.plan), Past(q.plan),
         q.op = "release" => Entitled(q),
         request' = [request EXCEPT ![r] = q], lock' = [lock EXCEPT ![q.child] = r],
         UNCHANGED <<clock, room, child, events, guardianVars>>
  PROVE  ChildrenInv'
<1>1. /\ request' \in [Requests -> Requested] /\ request'[r] = q
      /\ \A x \in Requests \ {r} : request'[x] = request[x]
      /\ lock' \in [Children -> Requests \cup {None}] /\ lock'[q.child] = r
      /\ \A c \in Children \ {q.child} : lock'[c] = lock[c]
  BY DEF ChildrenInv, AttendanceTypeOK, GuardianTypeOK, Requested
<1>2. AttendanceTypeOK' /\ GuardianTypeOK' /\ Records'
  BY <1>1 DEF ChildrenInv, AttendanceTypeOK, GuardianTypeOK, Records, Past, Requested, guardianVars
<1>3. Serialised'
  <2> SUFFICES ASSUME NEW x \in Requests, Decided(x)' PROVE Standing(request[x], x)'
    BY DEF Serialised
  <2>1. CASE x = r
    BY <1>1, <2>1 DEF Standing, Past
  <2>2. CASE x # r
    <3>1. Decided(x) /\ request'[x] = request[x]
      BY <1>1, <2>2 DEF Decided
    <3>2. Standing(request[x], x) /\ request[x].child \in Children
      BY <3>1, DecidedRequest DEF ChildrenInv, Serialised
    <3>3. request[x].child # q.child
      BY <3>2, NoneAsks DEF Standing
    <3> QED BY <1>1, <3>1, <3>2, <3>3 DEF Standing, Past
  <2> QED BY <2>1, <2>2
<1>4. HeldRows'
  BY <1>1 DEF ChildrenInv, HeldRows, Releasing, Decided, Entitled, guardianVars
<1>5. OneActiveLink' /\ AuditExplains' /\ ReleasedByRight' /\ HandedOverOnce'
  BY LinksKept, ReleasesKept DEF guardianVars
<1>6. Known'
  <2>1. q.op # "create_link"
    BY DEF Requested, Idle, AttendanceRequest, ReleaseRequest, LinkRequest, AttendanceOps
  <2> QED BY <1>1, <2>1 DEF ChildrenInv, Known, guardianVars
<1> QED BY <1>2, <1>3, <1>4, <1>5, <1>6 DEF ChildrenInv

\* What every commit under the lock does to the record, and what it leaves to the other requests.
LEMMA Commits ==
  ASSUME ChildrenInv, NEW r \in Requests, Decided(r),
         events' = Appended(request[r]), lock' = [lock EXCEPT ![request[r].child] = None],
         request' = [request EXCEPT ![r] = Idle],
         UNCHANGED <<clock, room, child, contact, link, audit>>
  PROVE  /\ events' = [events EXCEPT ![request[r].child] = @ \o request[r].plan]
         /\ AttendanceTypeOK' /\ request' \in [Requests -> Requested]
         /\ Records' /\ Serialised' /\ HeldRows' /\ Known' /\ OneActiveLink' /\ AuditExplains'
<1> DEFINE q == request[r]
<1>0. q.child \in Children /\ q.plan \in Seq(ChildAttendanceEvent) /\ Standing(q, r)
  BY DecidedRequest DEF ChildrenInv, Serialised
<1>1. events' = [events EXCEPT ![q.child] = @ \o q.plan]
  BY <1>0 DEF Appended, Standing
<1>2. /\ events \in [Children -> Seq(ChildAttendanceEvent)]
      /\ events[q.child] \o q.plan \in Seq(ChildAttendanceEvent)
      /\ Len(events[q.child] \o q.plan) = q.last + Len(q.plan)
  BY <1>0, Joined DEF ChildrenInv, AttendanceTypeOK, Standing
<1>3. /\ events' \in [Children -> Seq(ChildAttendanceEvent)]
      /\ events'[q.child] = events[q.child] \o q.plan
      /\ \A c \in Children \ {q.child} : events'[c] = events[c]
  BY <1>0, <1>1, <1>2
<1>4. /\ request' \in [Requests -> Requested] /\ ~Decided(r)'
      /\ \A x \in Requests \ {r} : request'[x] = request[x]
      /\ lock' \in [Children -> Requests \cup {None}]
      /\ \A c \in Children \ {q.child} : lock'[c] = lock[c]
  BY <1>0, NoneAsks DEF ChildrenInv, AttendanceTypeOK, GuardianTypeOK, Requested, Decided
<1>5. AttendanceTypeOK'
  BY <1>3, <1>4 DEF ChildrenInv, AttendanceTypeOK
<1>6. Records'
  <2>1. Past(events[q.child] \o q.plan)
    <3>1. Past(events[q.child]) /\ Past(q.plan) /\ events[q.child] \in Seq(ChildAttendanceEvent)
      BY <1>0, <1>2 DEF ChildrenInv, Records, Standing
    <3> QED BY <1>0, <3>1, PastGrows
  <2> SUFFICES ASSUME NEW c \in Children
               PROVE  Chained(events'[c]) /\ Past(events[c])' /\ Len(events'[c]) <= MaxEvents
    BY DEF Records, Chained
  <2>2. CASE c = q.child
    BY <1>0, <1>2, <1>3, <2>1, <2>2 DEF Standing, Past
  <2>3. CASE c # q.child
    BY <1>3, <2>3 DEF ChildrenInv, Records, Past
  <2> QED BY <2>2, <2>3
<1>7. ASSUME NEW x \in Requests, Decided(x)'
      PROVE  /\ Decided(x) /\ request'[x] = request[x] /\ Standing(request[x], x)
             /\ request[x].child \in Children /\ request[x].child # q.child
  <2>1. x # r /\ Decided(x) /\ request'[x] = request[x]
    BY <1>4, <1>7 DEF Decided
  <2>2. Standing(request[x], x) /\ request[x].child \in Children
    BY <2>1, DecidedRequest DEF ChildrenInv, Serialised
  <2> QED BY <1>0, <2>1, <2>2 DEF Standing
<1>8. Serialised'
  BY <1>3, <1>4, <1>7 DEF Serialised, Standing, Past
<1>9. HeldRows'
  <2> SUFFICES ASSUME NEW x \in Requests, Releasing(x)' PROVE Entitled(request[x])'
    BY DEF HeldRows
  <2>1. Decided(x)'
    BY DEF Releasing
  <2>2. Releasing(x) /\ request'[x] = request[x] /\ events'[request[x].child] = events[request[x].child]
    BY <1>3, <1>7, <2>1 DEF Releasing
  <2>3. Entitled(request[x])
    BY <2>2 DEF ChildrenInv, HeldRows
  <2> QED BY <2>2, <2>3 DEF Entitled
<1>10. OneActiveLink' /\ AuditExplains'
  BY LinksKept
<1>11. Known'
  BY <1>4, NoneAsks DEF ChildrenInv, Known, GuardianTypeOK
<1> QED BY <1>1, <1>4, <1>5, <1>6, <1>8, <1>9, <1>10, <1>11

\* The three kinds of events, written now, are events; each follows the latest one where its plan
\* says that it may be appended.
LEMMA NewEvents ==
  ASSUME NEW es \in Seq(ChildAttendanceEvent), Past(es), clock \in Nat,
         NEW m \in Rooms, NEW lease \in Leases
  PROVE  /\ CheckedIn(m, clock, lease) \in ChildAttendanceEvent
         /\ es # <<>> => /\ CheckedOut(es, clock) \in ChildAttendanceEvent
                         /\ Refreshed(es, clock, lease) \in ChildAttendanceEvent
                         /\ Latest(es) \in ChildAttendanceEvent /\ Latest(es).at <= clock
<1>1. CheckedIn(m, clock, lease) \in ChildAttendanceEvent
  BY NoneAsks DEF CheckedIn, ChildAttendanceEvent
<1>2. ASSUME es # <<>>
      PROVE  /\ CheckedOut(es, clock) \in ChildAttendanceEvent
             /\ Refreshed(es, clock, lease) \in ChildAttendanceEvent
             /\ Latest(es) \in ChildAttendanceEvent /\ Latest(es).at <= clock
  <2>1. Latest(es) \in ChildAttendanceEvent /\ Len(es) \in 1..Len(es)
    BY <1>2, Elements
  <2>2. Latest(es).at <= clock
    BY <2>1 DEF Past, Latest
  <2>3. /\ Latest(es).room \in Rooms /\ Latest(es).since \in Nat
        /\ clock + lease \in Nat
    BY <2>1, NoneAsks DEF ChildAttendanceEvent
  <2> QED BY <2>1, <2>2, <2>3 DEF CheckedOut, Refreshed, ChildAttendanceEvent
<1> QED BY <1>1, <1>2

LEMMA OnePlanned ==
  ASSUME NEW es \in Seq(ChildAttendanceEvent), Chained(es), clock \in Nat,
         NEW e \in ChildAttendanceEvent, e.at = clock,
         IF es = <<>> THEN e.type = "CHECKED_IN" ELSE Follows(Latest(es), e)
  PROVE  /\ <<e>> \in Seq(ChildAttendanceEvent) /\ Past(<<e>>) /\ Chained(es \o <<e>>)
<1>1. <<e>> \in Seq(ChildAttendanceEvent) /\ Len(<<e>>) = 1 /\ <<e>>[1] = e
  BY Single
<1>2. Chained(es \o <<e>>)
  <2> DEFINE plan == <<e>>
  <2>1. plan \in Seq(ChildAttendanceEvent) /\ Len(plan) = 1 /\ plan[1] = e
    BY <1>1
  <2> HIDE DEF plan
  <2>2. IF es = <<>> THEN plan[1].type = "CHECKED_IN" ELSE Follows(Latest(es), plan[1])
    BY <2>1
  <2>3. \A i \in 1..Len(plan) - 1 : Follows(plan[i], plan[i + 1])
    BY <2>1
  <2>4. Chained(es \o plan)
    BY <2>1, <2>2, <2>3, ChainGrows
  <2> QED BY <2>4 DEF plan
<1> QED BY <1>1, <1>2 DEF Past

LEMMA TwoPlanned ==
  ASSUME NEW es \in Seq(ChildAttendanceEvent), Chained(es), clock \in Nat, es # <<>>,
         NEW e \in ChildAttendanceEvent, e.at = clock, Follows(Latest(es), e),
         NEW f \in ChildAttendanceEvent, f.at = clock, Follows(e, f)
  PROVE  /\ <<e, f>> \in Seq(ChildAttendanceEvent) /\ Past(<<e, f>>) /\ Chained(es \o <<e, f>>)
<1>1. /\ <<e, f>> \in Seq(ChildAttendanceEvent) /\ Len(<<e, f>>) = 2
      /\ <<e, f>>[1] = e /\ <<e, f>>[2] = f
  BY Pair
<1>2. \A i \in 1..Len(<<e, f>>) - 1 : i = 1
  BY <1>1
<1>3. Chained(es \o <<e, f>>)
  <2> DEFINE plan == <<e, f>>
  <2>1. /\ plan \in Seq(ChildAttendanceEvent) /\ plan[1] = e /\ plan[2] = f
        /\ \A i \in 1..Len(plan) - 1 : i = 1
    BY <1>1, <1>2
  <2> HIDE DEF plan
  <2>2. IF es = <<>> THEN plan[1].type = "CHECKED_IN" ELSE Follows(Latest(es), plan[1])
    BY <2>1
  <2>3. \A i \in 1..Len(plan) - 1 : Follows(plan[i], plan[i + 1])
    BY <2>1
  <2>4. Chained(es \o plan)
    BY <2>1, <2>2, <2>3, ChainGrows
  <2> QED BY <2>4 DEF plan
<1>4. \A i \in 1..Len(<<e, f>>) : i = 1 \/ i = 2
  BY <1>1
<1> QED BY <1>1, <1>3, <1>4 DEF Past

LEMMA CheckInFits ==
  ASSUME NEW es \in Seq(ChildAttendanceEvent), Chained(es), Past(es), clock \in Nat,
         NEW m \in Rooms, NEW lease \in Leases, NEW status, NEW active,
         NEW plan \in PlanCheckIn(es, m, clock, lease, status, active)
  PROVE  plan \in Seq(ChildAttendanceEvent) /\ Past(plan) /\ Chained(es \o plan)
<1> DEFINE in == CheckedIn(m, clock, lease)
           out == CheckedOut(es, clock)
<1>1. /\ ~Present(es, clock, m)
      /\ IF IsOpen(es) /\ Latest(es).room # m THEN plan = <<out, in>> ELSE plan = <<in>>
  BY DEF PlanCheckIn
<1>2. in \in ChildAttendanceEvent /\ in.at = clock /\ in.type = "CHECKED_IN"
      /\ in.since = clock /\ in.room = m
  BY NewEvents DEF CheckedIn
<1>3. CASE IsOpen(es) /\ Latest(es).room # m
  <2>1. es # <<>> /\ Opens(Latest(es)) /\ Latest(es).at <= clock
    BY <1>3, NewEvents DEF IsOpen
  <2>2. out \in ChildAttendanceEvent /\ out.at = clock /\ out.type = "CHECKED_OUT"
        /\ out.room = Latest(es).room /\ out.since = Latest(es).since
    BY <2>1, NewEvents DEF CheckedOut
  <2>3. Follows(Latest(es), out)
    BY <2>1, <2>2 DEF Follows
  <2>4. Follows(out, in)
    BY <1>2, <2>2 DEF Follows, Opens
  <2>5. plan = <<out, in>>
    BY <1>1, <1>3
  <2> HIDE DEF in, out
  <2> QED BY <1>2, <2>1, <2>2, <2>3, <2>4, <2>5, TwoPlanned
<1>4. CASE ~(IsOpen(es) /\ Latest(es).room # m)
  <2>1. plan = <<in>>
    BY <1>1, <1>4
  <2>2. es # <<>> => Follows(Latest(es), in)
    <3> SUFFICES ASSUME es # <<>> PROVE Follows(Latest(es), in)
      OBVIOUS
    <3>1. Latest(es) \in ChildAttendanceEvent /\ Latest(es).at <= clock
      BY NewEvents
    <3>2. Opens(Latest(es)) => Latest(es).room = m /\ Latest(es).until <= clock
      BY <1>1, <1>4, <3>1 DEF IsOpen, Present, Fresh, ChildAttendanceEvent
    <3> QED BY <1>2, <3>1, <3>2 DEF Follows
  <2> HIDE DEF in, out
  <2> QED BY <1>2, <2>1, <2>2, OnePlanned
<1> QED BY <1>3, <1>4

LEMMA RefreshFits ==
  ASSUME NEW es \in Seq(ChildAttendanceEvent), Chained(es), Past(es), clock \in Nat,
         NEW m \in Rooms, NEW lease \in Leases, NEW status, NEW active,
         NEW plan \in PlanRefresh(es, m, clock, lease, status, active)
  PROVE  plan \in Seq(ChildAttendanceEvent) /\ Past(plan) /\ Chained(es \o plan)
<1> DEFINE e == Refreshed(es, clock, lease)
<1>1. Fresh(es, clock) /\ plan = <<e>>
  BY DEF PlanRefresh
<1>2. es # <<>> /\ Opens(Latest(es)) /\ clock < Latest(es).until /\ Latest(es).at <= clock
  BY <1>1, NewEvents DEF Fresh, IsOpen
<1>3. e \in ChildAttendanceEvent /\ e.at = clock /\ Follows(Latest(es), e)
  BY <1>2, NewEvents DEF Refreshed, Follows
<1> HIDE DEF e
<1> QED BY <1>1, <1>2, <1>3, OnePlanned

LEMMA CheckOutFits ==
  ASSUME NEW es \in Seq(ChildAttendanceEvent), Chained(es), Past(es), clock \in Nat,
         NEW m \in Rooms, NEW plan \in PlanCheckOut(es, m, clock)
  PROVE  /\ plan \in Seq(ChildAttendanceEvent) /\ Past(plan) /\ Chained(es \o plan)
         /\ Present(es, clock, m) => /\ Len(plan) = 1 /\ plan[1].type = "CHECKED_OUT"
                                     /\ plan[1].at = clock
<1> DEFINE e == CheckedOut(es, clock)
<1>1. CASE InClassroom(es, m)
  <2>1. plan = <<e>>
    BY <1>1 DEF PlanCheckOut
  <2>2. es # <<>> /\ Opens(Latest(es))
    BY <1>1 DEF InClassroom, IsOpen
  <2>3. e \in ChildAttendanceEvent /\ e.at = clock /\ e.type = "CHECKED_OUT"
        /\ Follows(Latest(es), e)
    <3>2. Latest(es) \in ChildAttendanceEvent /\ Len(es) \in 1..Len(es)
      BY <2>2, Elements
    <3>3. Latest(es).at <= clock
      BY <3>2 DEF Past, Latest
    <3> QED BY <2>2, <3>2, <3>3 DEF CheckedOut, Follows, ChildAttendanceEvent
  <2> HIDE DEF e
  <2> QED BY <2>1, <2>2, <2>3, OnePlanned, Single
<1>2. CASE ~InClassroom(es, m)
  <2>1. plan = <<>> /\ ~Present(es, clock, m)
    BY <1>2 DEF PlanCheckOut, Present, Fresh, InClassroom
  <2>2. es \o plan = es /\ Len(plan) = 0 /\ plan \in Seq(ChildAttendanceEvent)
    BY <2>1
  <2> QED BY <2>1, <2>2 DEF Past
<1> QED BY <1>1, <1>2

LEMMA BeginAttendanceKeeps ==
  ASSUME ChildrenInv, NEW r \in Requests, NEW op \in AttendanceOps, NEW c \in Children,
         NEW m \in Rooms, BeginAttendance(r, op, c, m), UNCHANGED guardianVars
  PROVE  ChildrenInv'
<1> DEFINE q == [op |-> op, step |-> "read", child |-> c, room |-> m,
                 status |-> child[c], active |-> room[m]]
<1>1. child[c] \in Status /\ room[m] \in BOOLEAN
  BY DEF BeginAttendance, ChildrenInv, AttendanceTypeOK, ChildProfile
<1>2. q \in Requested /\ q.step # "decided"
  BY <1>1 DEF Requested, AttendanceRequest
<1> QED BY <1>2, Asked DEF BeginAttendance

LEMMA DecideAttendanceKeeps ==
  ASSUME ChildrenInv, NEW r \in Requests, NEW lease \in Leases,
         DecideAttendance(r, lease), UNCHANGED guardianVars
  PROVE  ChildrenInv'
<1> DEFINE old == request[r]
           c == old.child
           es == events[c]
<1>1. PICK plan \in Plans(old, lease) :
          /\ Len(es) + Len(plan) <= MaxEvents
          /\ request' = [request EXCEPT ![r] = [op |-> old.op, step |-> "decided", child |-> c,
                                                last |-> Len(es), plan |-> plan]]
          /\ lock' = [lock EXCEPT ![c] = r]
  BY DEF DecideAttendance
<1>2. /\ old.op \in AttendanceOps /\ c \in Children /\ old.room \in Rooms
      /\ lock[c] = None
  <2>1. old \in Requested /\ old.op \in AttendanceOps /\ old.step = "read" /\ lock[c] = None
    BY DEF DecideAttendance, Available, ChildrenInv, GuardianTypeOK, Requested
  <2> QED BY <2>1 DEF Requested, AttendanceRequest, ReleaseRequest, LinkRequest, AttendanceOps, Idle
<1>3. /\ es \in Seq(ChildAttendanceEvent) /\ Chained(es) /\ Past(es) /\ clock \in Nat
      /\ Len(es) \in 0..MaxEvents
  BY <1>2, NoneAsks DEF ChildrenInv, AttendanceTypeOK, Records, Time
<1>4. plan \in Seq(ChildAttendanceEvent) /\ Past(plan) /\ Chained(es \o plan)
  <2> HIDE DEF old
  <2>1. CASE old.op = "check_in"
    <3>1. plan \in PlanCheckIn(es, old.room, clock, lease, old.status, old.active)
      BY <2>1 DEF Plans
    <3> HIDE DEF es
    <3> QED BY <1>2, <1>3, <3>1, CheckInFits
  <2>2. CASE old.op = "refresh"
    <3>1. plan \in PlanRefresh(es, old.room, clock, lease, old.status, old.active)
      BY <2>2 DEF Plans
    <3> HIDE DEF es
    <3> QED BY <1>2, <1>3, <3>1, RefreshFits
  <2>3. CASE old.op = "check_out"
    <3>1. plan \in PlanCheckOut(es, old.room, clock)
      BY <2>3 DEF Plans
    <3> HIDE DEF es
    <3> QED BY <1>2, <1>3, <3>1, CheckOutFits
  <2> QED BY <1>2, <2>1, <2>2, <2>3 DEF AttendanceOps
<1> DEFINE q == [op |-> old.op, step |-> "decided", child |-> c, last |-> Len(es), plan |-> plan]
<1>5. q \in Requested
  BY <1>2, <1>3, <1>4 DEF Requested, AttendanceRequest
<1>6. /\ q.step = "decided" /\ q.child = c /\ q.plan = plan /\ q.last = Len(es)
      /\ q.op # "release"
  BY <1>2 DEF AttendanceOps
<1>7. UNCHANGED <<clock, room, child, events, guardianVars>>
  BY DEF DecideAttendance
<1> HIDE DEF q
<1> QED BY <1>1, <1>2, <1>3, <1>4, <1>5, <1>6, <1>7, Decides DEF q

\* Appending to a record changes none of its events.
LEMMA EventsKept ==
  ASSUME ChildrenInv, NEW c \in Children, NEW plan \in Seq(ChildAttendanceEvent),
         events' = [events EXCEPT ![c] = @ \o plan],
         NEW d \in Children, NEW n \in 2..Len(events[d])
  PROVE  /\ n \in 2..Len(events'[d])
         /\ events'[d][n] = events[d][n] /\ events'[d][n - 1] = events[d][n - 1]
<1>1. events \in [Children -> Seq(ChildAttendanceEvent)]
  BY DEF ChildrenInv, AttendanceTypeOK
<1>2. ASSUME NEW i \in 1..Len(events[d])
      PROVE  /\ i \in 1..Len(events'[d]) /\ events'[d][i] = events[d][i]
             /\ Len(events'[d]) \in Nat
  <2>2. CASE d = c
    <3>1. events'[d] = events[c] \o plan /\ events[c] \in Seq(ChildAttendanceEvent)
      BY <1>1, <2>2
    <3> QED BY <2>2, <3>1, Joined
  <2>3. CASE d # c
    BY <1>1, <2>3, Elements
  <2> QED BY <2>2, <2>3
<1>3. n \in 1..Len(events[d]) /\ n - 1 \in 1..Len(events[d])
  BY <1>1, Elements
<1>4. /\ n \in 1..Len(events'[d]) /\ Len(events'[d]) \in Nat /\ n >= 2
      /\ events'[d][n] = events[d][n]
  BY <1>2, <1>3
<1>5. events'[d][n - 1] = events[d][n - 1]
  BY <1>2, <1>3
<1>6. n \in 2..Len(events'[d])
  <2> DEFINE k == Len(events'[d])
  <2>1. n \in 1..k /\ k \in Nat /\ n >= 2
    BY <1>4
  <2> HIDE DEF k
  <2>2. n \in 2..k
    BY <2>1
  <2> QED BY <2>2 DEF k
<1> QED BY <1>4, <1>5, <1>6

\* What releases say of a record stays true when events are appended to it.
LEMMA RecordGrows ==
  ASSUME ChildrenInv, NEW c \in Children, NEW plan \in Seq(ChildAttendanceEvent),
         events' = [events EXCEPT ![c] = @ \o plan], UNCHANGED <<audit, release>>
  PROVE  ReleasedByRight' /\ HandedOverOnce'
<1>1. HandedOverOnce'
  BY DEF ChildrenInv, HandedOverOnce
<1>2. ASSUME NEW x \in release
      PROVE  /\ x.event \in 2..Len(events'[x.child])
             /\ events'[x.child][x.event] = events[x.child][x.event]
             /\ events'[x.child][x.event - 1] = events[x.child][x.event - 1]
  <2>1. x \in ChildReleaseEvent /\ x.event \in 2..Len(events[x.child])
    BY DEF ChildrenInv, ReleasedByRight, GuardianTypeOK
  <2>2. x.child \in Children
    BY <2>1 DEF ChildReleaseEvent
  <2> QED BY <2>1, <2>2, EventsKept
<1>3. ReleasedByRight'
  BY <1>2 DEF ChildrenInv, ReleasedByRight
<1> QED BY <1>1, <1>3

LEMMA CommitAttendanceKeeps ==
  ASSUME ChildrenInv, NEW r \in Requests, CommitAttendance(r), UNCHANGED guardianVars
  PROVE  ChildrenInv'
<1> DEFINE q == request[r]
<1>1. Decided(r) /\ q.op \in AttendanceOps
  BY DEF CommitAttendance
<1>2. UNCHANGED <<clock, room, child, contact, link, audit, release>>
  BY DEF CommitAttendance, guardianVars
<1>3. /\ events' = [events EXCEPT ![q.child] = @ \o q.plan]
      /\ AttendanceTypeOK' /\ request' \in [Requests -> Requested]
      /\ Records' /\ Serialised' /\ HeldRows' /\ Known' /\ OneActiveLink' /\ AuditExplains'
  BY <1>1, <1>2, Commits DEF CommitAttendance
<1>4. q.child \in Children /\ q.plan \in Seq(ChildAttendanceEvent)
  BY <1>1, DecidedRequest
<1>5. ReleasedByRight' /\ HandedOverOnce'
  BY <1>2, <1>3, <1>4, RecordGrows
<1> QED BY <1>2, <1>3, <1>5 DEF ChildrenInv, GuardianTypeOK, Requested

LEMMA RollbackKeeps ==
  ASSUME ChildrenInv, NEW r \in Requests, Rollback(r), UNCHANGED guardianVars
  PROVE  ChildrenInv'
<1>1. /\ request' \in [Requests -> Requested] /\ ~Decided(r)'
      /\ \A x \in Requests \ {r} : request'[x] = request[x]
  BY NoneAsks DEF Rollback, ChildrenInv, GuardianTypeOK, Requested, Decided
<1>2. /\ lock' \in [Children -> Requests \cup {None}]
      /\ \A c \in Children : lock[c] # r => lock'[c] = lock[c]
  BY DEF Rollback, ChildrenInv, AttendanceTypeOK
<1>3. AttendanceTypeOK' /\ GuardianTypeOK' /\ Records'
  BY <1>1, <1>2 DEF Rollback, ChildrenInv, AttendanceTypeOK, GuardianTypeOK, Records, Past, Requested,
                    guardianVars
<1>4. ASSUME NEW x \in Requests, Decided(x)'
      PROVE  /\ Decided(x) /\ request'[x] = request[x] /\ Standing(request[x], x)
             /\ request[x].child \in Children /\ lock'[request[x].child] = x
  <2>1. x # r /\ Decided(x) /\ request'[x] = request[x]
    BY <1>1, <1>4 DEF Decided
  <2>2. Standing(request[x], x) /\ request[x].child \in Children
    BY <2>1, DecidedRequest DEF ChildrenInv, Serialised
  <2> QED BY <1>2, <2>1, <2>2 DEF Standing
<1>5. Serialised'
  BY <1>4 DEF Serialised, Standing, Past, Rollback
<1>6. HeldRows'
  <2> SUFFICES ASSUME NEW x \in Requests, Releasing(x)' PROVE Entitled(request[x])'
    BY DEF HeldRows
  <2>1. Decided(x)'
    BY DEF Releasing
  <2>2. Releasing(x) /\ request'[x] = request[x]
    BY <1>4, <2>1 DEF Releasing
  <2> QED BY <2>2 DEF ChildrenInv, HeldRows, Entitled, Rollback, guardianVars
<1>7. OneActiveLink' /\ AuditExplains' /\ ReleasedByRight' /\ HandedOverOnce'
  BY LinksKept, ReleasesKept DEF Rollback, guardianVars
<1>8. Known'
  BY NoneAsks DEF Rollback, ChildrenInv, Known, GuardianTypeOK, guardianVars
<1> QED BY <1>3, <1>5, <1>6, <1>7, <1>8 DEF ChildrenInv

LEMMA TickKeeps == ASSUME ChildrenInv, Tick, UNCHANGED guardianVars PROVE ChildrenInv'
<1>1. /\ clock \in Nat /\ clock' = clock + 1 /\ clock' \in Time
      /\ UNCHANGED <<room, child, events, lock, request, contact, link, audit, release>>
  BY NoneAsks DEF Tick, ChildrenInv, AttendanceTypeOK, Time, guardianVars
<1>2. AttendanceTypeOK' /\ GuardianTypeOK'
  BY <1>1 DEF ChildrenInv, AttendanceTypeOK, GuardianTypeOK
<1>3. ASSUME NEW es \in Seq(ChildAttendanceEvent), Past(es) PROVE Past(es)'
  <2> SUFFICES ASSUME NEW i \in 1..Len(es) PROVE es[i].at <= clock'
    BY DEF Past
  <2>1. es[i] \in ChildAttendanceEvent
    BY Elements
  <2>2. es[i].at \in Nat /\ es[i].at <= clock
    BY <1>3, <2>1 DEF Past, ChildAttendanceEvent
  <2> QED BY <1>1, <2>2
<1>4. Records'
  <2> SUFFICES ASSUME NEW c \in Children
               PROVE  Chained(events[c]) /\ Past(events[c])' /\ Len(events[c]) <= MaxEvents
    BY <1>1 DEF Records, Past
  <2>1. events[c] \in Seq(ChildAttendanceEvent) /\ Past(events[c])
    BY DEF ChildrenInv, AttendanceTypeOK, Records
  <2>2. Past(events[c])'
    BY <1>1, <1>3, <2>1 DEF Past
  <2> QED BY <2>2 DEF ChildrenInv, Records
<1>5. Serialised'
  <2> SUFFICES ASSUME NEW r \in Requests, Decided(r)' PROVE Standing(request[r], r)'
    BY DEF Serialised
  <2>1. Decided(r) /\ Standing(request[r], r) /\ request[r].plan \in Seq(ChildAttendanceEvent)
    BY <1>1, DecidedRequest DEF Decided, ChildrenInv, Serialised
  <2>2. Past(request[r].plan)'
    BY <1>1, <1>3, <2>1 DEF Standing, Past
  <2> QED BY <1>1, <2>1, <2>2 DEF Standing
<1>6. HeldRows' /\ Known'
  BY <1>1 DEF ChildrenInv, HeldRows, Releasing, Decided, Entitled, Known
<1> QED BY <1>1, <1>2, <1>4, <1>5, <1>6, LinksKept, ReleasesKept DEF ChildrenInv

\* A profile, a classroom or a contact changes, and no decided release holds the row.
LEMMA RowChanges ==
  ASSUME ChildrenInv, room' \in [Rooms -> BOOLEAN], child' \in ChildProfile,
         contact' \in GuardianContact,
         \A c \in Children : child[c] # "none" => child'[c] # "none",
         \A r \in Requests : Releasing(r) => /\ child'[request[r].child] = child[request[r].child]
                                             /\ contact'[request[r].contact] = contact[request[r].contact],
         UNCHANGED <<clock, events, lock, request, link, audit, release>>
  PROVE  ChildrenInv'
<1>1. AttendanceTypeOK' /\ GuardianTypeOK'
  BY DEF ChildrenInv, AttendanceTypeOK, GuardianTypeOK
<1>2. Records' /\ Serialised'
  BY DEF ChildrenInv, Records, Past, Serialised, Decided, Standing
<1>3. HeldRows'
  BY DEF ChildrenInv, HeldRows, Releasing, Decided, Entitled
<1>4. Known'
  <2>1. ASSUME NEW l \in Links, link[l] # NoLink PROVE link[l].child \in Children
    BY <2>1 DEF ChildrenInv, GuardianTypeOK, ChildGuardianLink
  <2>2. ASSUME NEW r \in Requests, request[r].op = "create_link" PROVE request[r].child \in Children
    BY <2>2 DEF ChildrenInv, GuardianTypeOK, AttendanceRequest, ReleaseRequest, LinkRequest, Idle
  <2> QED BY <2>1, <2>2 DEF ChildrenInv, Known
<1> QED BY <1>1, <1>2, <1>3, <1>4, LinksKept, ReleasesKept DEF ChildrenInv

LEMMA ChildRowsKeep ==
  ASSUME ChildrenInv, UNCHANGED guardianVars,
         \/ \E m \in Rooms : SetClassroomActive(m)
         \/ \E c \in Children : CreateChild(c) \/ \E s \in Status : SetChildStatus(c, s, ChildHeld(c))
  PROVE  ChildrenInv'
<1>0. /\ child \in ChildProfile /\ room \in [Rooms -> BOOLEAN] /\ contact \in GuardianContact
      /\ UNCHANGED <<contact, link, audit, release>>
  BY DEF ChildrenInv, AttendanceTypeOK, GuardianTypeOK, guardianVars
<1>1. ASSUME NEW m \in Rooms, SetClassroomActive(m) PROVE ChildrenInv'
  <2>1. room' \in [Rooms -> BOOLEAN] /\ UNCHANGED <<clock, child, events, lock, request>>
    BY <1>0, <1>1 DEF SetClassroomActive
  <2> QED BY <1>0, <2>1, RowChanges
<1>2. ASSUME NEW c \in Children, NEW s \in Status,
             CreateChild(c) \/ SetChildStatus(c, s, ChildHeld(c))
      PROVE  ChildrenInv'
  <2>1. child' \in ChildProfile /\ \A d \in Children : child[d] # "none" => child'[d] # "none"
    BY <1>0, <1>2 DEF CreateChild, SetChildStatus, ChildProfile, Status
  <2>2. UNCHANGED <<clock, room, events, lock, request>>
    BY <1>2 DEF CreateChild, SetChildStatus
  <2>3. ASSUME NEW r \in Requests, Releasing(r)
        PROVE  child'[request[r].child] = child[request[r].child]
    <3>1. child[request[r].child] = "ACTIVE"
      BY <2>3 DEF ChildrenInv, HeldRows, Entitled
    <3>2. request[r].child # c
      BY <1>2, <2>3, <3>1 DEF CreateChild, SetChildStatus, ChildHeld
    <3>3. \E v : child' = [child EXCEPT ![c] = v]
      BY <1>2 DEF CreateChild, SetChildStatus
    <3> QED BY <1>0, <3>2, <3>3, <2>3, DecidedRequest DEF Releasing, ChildProfile
  <2> QED BY <1>0, <2>1, <2>2, <2>3, RowChanges
<1>3. ASSUME NEW c \in Children, CreateChild(c) PROVE ChildrenInv'
  <2>1. "ACTIVE" \in Status
    BY DEF Status
  <2> QED BY <1>2, <1>3, <2>1
<1> QED BY <1>1, <1>2, <1>3

LEMMA ContactsKeep ==
  ASSUME ChildrenInv, NEW g \in Contacts,
         CreateGuardian(g) \/ \E s \in Status : SetGuardianStatus(g, s)
  PROVE  ChildrenInv'
<1>0. /\ child \in ChildProfile /\ room \in [Rooms -> BOOLEAN] /\ contact \in GuardianContact
  BY DEF ChildrenInv, AttendanceTypeOK, GuardianTypeOK
<1>1. contact' \in GuardianContact
  BY <1>0 DEF CreateGuardian, SetGuardianStatus, GuardianContact, Status
<1>2. UNCHANGED <<clock, room, child, events, lock, request, link, audit, release>>
  BY DEF CreateGuardian, SetGuardianStatus, attendanceVars
<1>3. ASSUME NEW r \in Requests, Releasing(r)
      PROVE  contact'[request[r].contact] = contact[request[r].contact]
  <2>1. contact[request[r].contact] = "ACTIVE"
    BY <1>3 DEF ChildrenInv, HeldRows, Entitled
  <2>2. request[r].contact # g
    BY <1>3, <2>1 DEF CreateGuardian, SetGuardianStatus, ContactHeld
  <2>3. \E v : contact' = [contact EXCEPT ![g] = v]
    BY DEF CreateGuardian, SetGuardianStatus
  <2> QED BY <1>0, <2>2, <2>3, <1>3, DecidedRequest DEF Releasing, GuardianContact
<1> QED BY <1>0, <1>1, <1>2, <1>3, RowChanges

-----------------------------------------------------------------------------
(* A release *)

LEMMA BeginReleaseKeeps ==
  ASSUME ChildrenInv, NEW r \in Requests, NEW c \in Children, NEW m \in Rooms, NEW g \in Contacts,
         BeginRelease(r, c, m, g)
  PROVE  ChildrenInv'
<1> DEFINE q == [op |-> "release", step |-> "read", child |-> c, room |-> m, contact |-> g]
<1>1. q \in Requested /\ q.step # "decided"
  BY DEF Requested, ReleaseRequest
<1> QED BY <1>1, Asked DEF BeginRelease, Begin

LEMMA DecideReleaseKeeps ==
  ASSUME ChildrenInv, NEW r \in Requests, DecideRelease(r)
  PROVE  ChildrenInv'
<1> DEFINE old == request[r]
           c == old.child
           es == events[c]
<1>1. PICK l \in DecidePickup(c, old.contact, clock), plan \in PlanCheckOut(es, old.room, clock) :
          request' = [request EXCEPT ![r] =
              [op |-> "release", step |-> "decided", child |-> c, room |-> old.room,
               contact |-> old.contact, link |-> l, revision |-> link[l].revision,
               last |-> Len(es), plan |-> plan]]
  BY DEF DecideRelease
<1>2. /\ lock' = [lock EXCEPT ![c] = r] /\ lock[c] = None
      /\ Present(es, clock, old.room) /\ Len(es) < MaxEvents
      /\ UNCHANGED <<clock, room, child, events, guardianVars>>
  BY DEF DecideRelease, Available
<1>3. c \in Children /\ old.room \in Rooms /\ old.contact \in Contacts
  <2>1. old \in Requested /\ old.op = "release" /\ old.step = "read"
    BY DEF DecideRelease, Serves, ChildrenInv, GuardianTypeOK, Requested
  <2> QED BY <2>1 DEF Requested, AttendanceRequest, ReleaseRequest, LinkRequest, AttendanceOps, Idle
<1>4. /\ es \in Seq(ChildAttendanceEvent) /\ Chained(es) /\ Past(es) /\ clock \in Nat
  BY <1>3, NoneAsks DEF ChildrenInv, AttendanceTypeOK, Records, Time
<1>5. /\ plan \in Seq(ChildAttendanceEvent) /\ Past(plan) /\ Chained(es \o plan)
      /\ Len(plan) = 1 /\ plan[1].type = "CHECKED_OUT" /\ plan[1].at = clock
  <2> HIDE DEF es
  <2> QED BY <1>2, <1>3, <1>4, CheckOutFits
<1>6. es # <<>> /\ Opens(Latest(es)) /\ clock < Latest(es).until /\ Len(es) \in 1..MaxEvents
  BY <1>2, <1>4, NoneAsks, Elements DEF Present, Fresh, IsOpen
<1>7. /\ l \in Links /\ link[l] # NoLink /\ link[l].status = "ACTIVE"
      /\ link[l].child = c /\ link[l].contact = old.contact
      /\ child[c] = "ACTIVE" /\ contact[old.contact] = "ACTIVE"
      /\ Authorises(link[l].terms, clock)
  BY DEF DecidePickup, ActiveLinks, PairLinks
<1>8. link[l].revision \in Nat
  BY <1>7 DEF ChildrenInv, GuardianTypeOK, ChildGuardianLink
<1> DEFINE q == [op |-> "release", step |-> "decided", child |-> c, room |-> old.room,
                 contact |-> old.contact, link |-> l, revision |-> link[l].revision,
                 last |-> Len(es), plan |-> plan]
<1>9. q \in Requested
  BY <1>3, <1>5, <1>6, <1>7, <1>8 DEF Requested, ReleaseRequest
<1>10. q.step = "decided" /\ q.child = c /\ q.plan = plan /\ q.last = Len(es)
  OBVIOUS
<1>11. Entitled(q)
  BY <1>5, <1>6, <1>7 DEF Entitled
<1>12. Len(es) + Len(plan) <= MaxEvents
  BY <1>2, <1>5, <1>6, NoneAsks
<1> HIDE DEF q
<1> QED BY <1>1, <1>2, <1>3, <1>5, <1>9, <1>10, <1>11, <1>12, Decides DEF q

\* A link's row is the last one its audit tells of, and its revision counts the audit's rows.
LEMMA LastAudited ==
  ASSUME ChildrenInv, NEW l \in Links
  PROVE  /\ audit[l] \in Seq(Audit) /\ Len(audit[l]) \in Nat
         /\ \A i \in 1..Len(audit[l]) : audit[l][i] \in Audit /\ audit[l][i].after.revision = i
         /\ link[l] = NoLink <=> Len(audit[l]) = 0
         /\ link[l] # NoLink =>
              /\ link[l] \in ChildGuardianLink
              /\ Len(audit[l]) \in 1..Len(audit[l])
              /\ link[l] = audit[l][Len(audit[l])].after /\ link[l].revision = Len(audit[l])
<1>1. audit[l] \in Seq(Audit) /\ Len(audit[l]) \in Nat
      /\ \A i \in 1..Len(audit[l]) : audit[l][i] \in Audit
  BY DEF ChildrenInv, GuardianTypeOK
<1>2. /\ link[l] = IF Len(audit[l]) = 0 THEN NoLink ELSE audit[l][Len(audit[l])].after
      /\ \A i \in 1..Len(audit[l]) : audit[l][i].after.revision = i
  BY DEF ChildrenInv, AuditExplains
<1>3. \A a \in Audit : a.after \in ChildGuardianLink /\ a.after # NoLink
  BY DEF Audit, ChildGuardianLink, NoLink
<1>4. CASE Len(audit[l]) = 0
  BY <1>1, <1>2, <1>4
<1>5. CASE Len(audit[l]) # 0
  <2>1. Len(audit[l]) \in 1..Len(audit[l])
    BY <1>1, <1>5
  <2> QED BY <1>1, <1>2, <1>3, <1>5, <2>1
<1> QED BY <1>4, <1>5

LEMMA CommitReleaseKeeps ==
  ASSUME ChildrenInv, NEW r \in Requests, CommitRelease(r)
  PROVE  ChildrenInv'
<1> DEFINE q == request[r]
           c == q.child
           es == events[c]
           x == [child |-> c, room |-> q.plan[1].room, contact |-> q.contact,
                 link |-> q.link, revision |-> q.revision, event |-> q.last + 1,
                 at |-> q.plan[1].at]
<1>1. /\ Decided(r) /\ q.op = "release" /\ Releasing(r)
      /\ events' = Appended(q) /\ lock' = [lock EXCEPT ![c] = None]
      /\ request' = [request EXCEPT ![r] = Idle]
      /\ UNCHANGED <<clock, room, child, contact, link, audit>>
  BY DEF CommitRelease, Releasing, Finish
<1>2. /\ events' = [events EXCEPT ![c] = @ \o q.plan]
      /\ AttendanceTypeOK' /\ request' \in [Requests -> Requested]
      /\ Records' /\ Serialised' /\ HeldRows' /\ Known' /\ OneActiveLink' /\ AuditExplains'
  BY <1>1, Commits
<1>3. /\ c \in Children /\ q.plan \in Seq(ChildAttendanceEvent) /\ q.last \in 0..MaxEvents
      /\ q.link \in Links /\ q.contact \in Contacts /\ q.revision \in Nat /\ q.last >= 1
  BY <1>1, DecidedRequest
<1>4. Entitled(q) /\ Standing(q, r)
  BY <1>1 DEF ChildrenInv, HeldRows, Serialised
<1>5. es \in Seq(ChildAttendanceEvent) /\ Len(es) \in Nat /\ Len(es) = q.last /\ q.last \in Nat
  BY <1>3, <1>4 DEF ChildrenInv, AttendanceTypeOK, Standing
<1>6. /\ q.plan[1] \in ChildAttendanceEvent /\ Len(q.plan) = 1
      /\ events'[c] = es \o q.plan /\ Len(events'[c]) = q.last + 1
      /\ events'[c][q.last + 1] = q.plan[1] /\ events'[c][q.last] = Latest(es)
  <2>1. events'[c] = es \o q.plan
    BY <1>2, <1>3 DEF ChildrenInv, AttendanceTypeOK
  <2>2. Len(q.plan) = 1
    BY <1>4 DEF Entitled
  <2>3. es # <<>>
    BY <1>3, <1>5, Elements
  <2>4. /\ q.plan[1] \in ChildAttendanceEvent /\ Len(es \o q.plan) = Len(es) + 1
        /\ (es \o q.plan)[Len(es) + 1] = q.plan[1] /\ (es \o q.plan)[Len(es)] = Latest(es)
    <3> HIDE DEF es
    <3> QED BY <1>3, <1>5, <2>2, <2>3, OneMore
  <2>5. Len(es) = q.last
    BY <1>5
  <2> HIDE DEF es
  <2> QED BY <2>1, <2>2, <2>4, <2>5
<1>7. release' = release \cup {x}
  <2>1. Len(events'[c]) # Len(events[c])
    BY <1>5, <1>6
  <2>2. events' # events
    BY <2>1
  <2> QED BY <2>2 DEF CommitRelease
<1>8. x \in ChildReleaseEvent
  <2>1. q.plan[1].room \in Rooms /\ q.plan[1].at \in Nat
    BY <1>6 DEF ChildAttendanceEvent
  <2>2. q.last + 1 \in Nat
    BY <1>5
  <2> QED BY <1>3, <2>1, <2>2 DEF ChildReleaseEvent
<1>9. GuardianTypeOK'
  BY <1>1, <1>2, <1>7, <1>8 DEF ChildrenInv, GuardianTypeOK, Requested
<1>10. ReleasedByRight'
  <2>1. ASSUME NEW y \in release
        PROVE  /\ y.child \in Children
               /\ y.event \in 2..Len(events[y.child])
    BY DEF ChildrenInv, GuardianTypeOK, ReleasedByRight, ChildReleaseEvent
  <2>2. /\ x.event \in 2..Len(events'[c])
        /\ events'[c][x.event] = q.plan[1] /\ events'[c][x.event - 1] = Latest(es)
    <3>1. x.event = q.last + 1 /\ x.event - 1 = q.last
      BY <1>5
    <3>2. q.last \in Nat /\ q.last >= 1 /\ Len(events'[c]) = q.last + 1
      BY <1>3, <1>5, <1>6
    <3>3. x.event \in 2..Len(events'[c])
      BY <3>1, <3>2
    <3> HIDE DEF x, es
    <3> QED BY <1>6, <3>1, <3>3
  <2>3. /\ link[q.link] # NoLink /\ link[q.link].status = "ACTIVE"
        /\ link[q.link].revision = q.revision
        /\ link[q.link].child = c /\ link[q.link].contact = q.contact
        /\ Authorises(link[q.link].terms, q.plan[1].at)
        /\ q.plan[1].type = "CHECKED_OUT"
        /\ Opens(Latest(es)) /\ q.plan[1].at < Latest(es).until
    BY <1>4 DEF Entitled, NoLink
  <2>4. q.revision \in 1..Len(audit[q.link]) /\ audit[q.link][q.revision].after = link[q.link]
    BY <1>3, <2>3, LastAudited
  <2>5. \A y \in {x} :
          /\ y.event \in 2..Len(events'[y.child])
          /\ LET leave == events'[y.child][y.event]
                 stay == events'[y.child][y.event - 1] IN
             /\ leave.type = "CHECKED_OUT" /\ leave.room = y.room /\ leave.at = y.at
             /\ Opens(stay) /\ y.at < stay.until
          /\ y.revision \in 1..Len(audit[y.link])
          /\ LET row == audit[y.link][y.revision].after IN
             /\ row.child = y.child /\ row.contact = y.contact /\ row.status = "ACTIVE"
             /\ row.terms.pickup /\ row.terms.from <= y.at
             /\ row.terms.until # 0 => y.at < row.terms.until
    <3>1. /\ x.child = c /\ x.link = q.link /\ x.revision = q.revision /\ x.contact = q.contact
          /\ x.room = q.plan[1].room /\ x.at = q.plan[1].at
      OBVIOUS
    <3> HIDE DEF x
    <3> SUFFICES ASSUME NEW y, y = x
                 PROVE  /\ y.event \in 2..Len(events'[y.child])
                        /\ LET leave == events'[y.child][y.event]
                               stay == events'[y.child][y.event - 1] IN
                           /\ leave.type = "CHECKED_OUT" /\ leave.room = y.room /\ leave.at = y.at
                           /\ Opens(stay) /\ y.at < stay.until
                        /\ y.revision \in 1..Len(audit[y.link])
                        /\ LET row == audit[y.link][y.revision].after IN
                           /\ row.child = y.child /\ row.contact = y.contact /\ row.status = "ACTIVE"
                           /\ row.terms.pickup /\ row.terms.from <= y.at
                           /\ row.terms.until # 0 => y.at < row.terms.until
      OBVIOUS
    <3> QED BY <2>2, <2>3, <2>4, <3>1 DEF Authorises
  <2>6. \A y \in release :
          /\ y.event \in 2..Len(events'[y.child])
          /\ LET leave == events'[y.child][y.event]
                 stay == events'[y.child][y.event - 1] IN
             /\ leave.type = "CHECKED_OUT" /\ leave.room = y.room /\ leave.at = y.at
             /\ Opens(stay) /\ y.at < stay.until
          /\ y.revision \in 1..Len(audit[y.link])
          /\ LET row == audit[y.link][y.revision].after IN
             /\ row.child = y.child /\ row.contact = y.contact /\ row.status = "ACTIVE"
             /\ row.terms.pickup /\ row.terms.from <= y.at
             /\ row.terms.until # 0 => y.at < row.terms.until
    <3>1. ASSUME NEW y \in release
          PROVE  /\ y.event \in 2..Len(events'[y.child])
                 /\ events'[y.child][y.event] = events[y.child][y.event]
                 /\ events'[y.child][y.event - 1] = events[y.child][y.event - 1]
      BY <1>2, <1>3, <2>1, EventsKept
    <3> QED BY <3>1 DEF ChildrenInv, ReleasedByRight
  <2> HIDE DEF x
  <2> QED BY <1>1, <1>7, <2>5, <2>6 DEF ReleasedByRight
<1>11. HandedOverOnce'
  <2>1. ASSUME NEW y \in release, y.child = x.child PROVE y.event # x.event
    <3>1. y.event \in 2..Len(events[y.child])
      BY DEF ChildrenInv, ReleasedByRight
    <3> QED BY <1>5, <2>1, <3>1
  <2> QED BY <1>7, <2>1 DEF ChildrenInv, HandedOverOnce
<1> QED BY <1>2, <1>9, <1>10, <1>11 DEF ChildrenInv

-----------------------------------------------------------------------------
(* Links *)

LEMMA BeginLinksKeep ==
  ASSUME ChildrenInv, NEW r \in Requests,
         \/ \E c \in Children, g \in Contacts : BeginCreateLink(r, c, g)
         \/ \E l \in Links : BeginUpdateLink(r, l) \/ BeginDeactivateLink(r, l)
  PROVE  ChildrenInv'
<1>1. ASSUME NEW c \in Children, NEW g \in Contacts, BeginCreateLink(r, c, g) PROVE ChildrenInv'
  <2> DEFINE q == [op |-> "create_link", step |-> "read", child |-> c, contact |-> g]
  <2>1. q \in Requested /\ q.step # "decided" /\ child[c] # "none"
    BY <1>1 DEF Requested, LinkRequest, BeginCreateLink, Status
  <2> QED BY <1>1, <2>1, Asked DEF BeginCreateLink, Begin
<1>2. ASSUME NEW l \in Links, BeginUpdateLink(r, l) PROVE ChildrenInv'
  <2> DEFINE q == [op |-> "update_link", step |-> "read", link |-> l,
                   status |-> child[link[l].child]]
  <2>1. link[l] \in ChildGuardianLink
    BY <1>2 DEF BeginUpdateLink, ChildrenInv, GuardianTypeOK
  <2>2. link[l].child \in Children /\ child[link[l].child] # "none"
    BY <1>2, <2>1 DEF BeginUpdateLink, ChildGuardianLink, ChildrenInv, Known
  <2>3. child[link[l].child] \in Status
    BY <2>2 DEF ChildrenInv, AttendanceTypeOK, ChildProfile
  <2>4. q \in Requested /\ q.step # "decided"
    BY <2>3 DEF Requested, LinkRequest
  <2> QED BY <1>2, <2>4, Asked DEF BeginUpdateLink, Begin
<1>3. ASSUME NEW l \in Links, BeginDeactivateLink(r, l) PROVE ChildrenInv'
  <2> DEFINE q == [op |-> "deactivate_link", step |-> "read", link |-> l]
  <2>1. q \in Requested /\ q.step # "decided"
    BY DEF Requested, LinkRequest
  <2> QED BY <1>3, <2>1, Asked DEF BeginDeactivateLink, Begin
<1> QED BY <1>1, <1>2, <1>3

\* A row of a link is written and its audit with it: the link is new and its pair has no active one,
\* or it is active, stays the link of its pair, and no decided release holds it.
LEMMA Writes ==
  ASSUME ChildrenInv, NEW r \in Requests, NEW l \in Links, NEW row \in ChildGuardianLink,
         \/ /\ link[l] = NoLink /\ row.revision = 1
            /\ ActiveLinks(row.child, row.contact) = {} /\ child[row.child] # "none"
         \/ /\ link[l].status = "ACTIVE" /\ row.revision = link[l].revision + 1
            /\ row.child = link[l].child /\ row.contact = link[l].contact /\ ~LinkHeld(l),
         Write(l, row), ~Decided(r), request' = [request EXCEPT ![r] = Idle],
         UNCHANGED <<clock, room, child, events, lock, contact, release>>
  PROVE  ChildrenInv'
<1> DEFINE a == [before |-> link[l], after |-> row]
<1>1. /\ link \in [Links -> ChildGuardianLink \cup {NoLink}]
      /\ link'[l] = row /\ \A k \in Links \ {l} : link'[k] = link[k]
      /\ link' \in [Links -> ChildGuardianLink \cup {NoLink}]
  BY DEF Write, ChildrenInv, GuardianTypeOK
<1>2. /\ audit[l] \in Seq(Audit) /\ audit'[l] = Append(audit[l], a) /\ a \in Audit
      /\ \A k \in Links \ {l} : audit'[k] = audit[k]
      /\ audit' \in [Links -> Seq(Audit)]
  <2>1. audit \in [Links -> Seq(Audit)] /\ audit' = [audit EXCEPT ![l] = Append(@, a)]
    BY DEF Write, ChildrenInv, GuardianTypeOK
  <2>2. a \in Audit
    BY <1>1 DEF Audit
  <2> HIDE DEF a
  <2> QED BY <2>1, <2>2
<1>3. /\ request' \in [Requests -> Requested] /\ ~Decided(r)'
      /\ \A x \in Requests : Decided(x)' => Decided(x) /\ request'[x] = request[x]
      /\ \A x \in Requests : request'[x].op = "create_link" => request'[x] = request[x]
  BY NoneAsks DEF ChildrenInv, GuardianTypeOK, Requested, Decided
<1>4. AttendanceTypeOK' /\ GuardianTypeOK' /\ Records'
  BY <1>1, <1>2, <1>3 DEF ChildrenInv, AttendanceTypeOK, GuardianTypeOK, Records, Past, Requested
<1>5. Serialised'
  BY <1>3 DEF ChildrenInv, Serialised, Standing, Past
<1>6. HeldRows'
  <2> SUFFICES ASSUME NEW x \in Requests, Releasing(x)' PROVE Entitled(request[x])'
    BY DEF HeldRows
  <2>1. Releasing(x) /\ request'[x] = request[x] /\ Entitled(request[x])
    BY <1>3 DEF Releasing, Decided, ChildrenInv, HeldRows
  <2>2. request[x].link \in Links /\ request[x].link # l
    <3>1. request[x].link \in Links
      BY <2>1, DecidedRequest DEF Releasing
    <3> QED BY <2>1, <3>1 DEF LinkHeld, Entitled, NoLink
  <2>3. link'[request[x].link] = link[request[x].link]
    BY <1>1, <2>2
  <2> QED BY <2>1, <2>3 DEF Entitled
<1>7. Known'
  <2>1. link[l] # NoLink => child[row.child] # "none"
    BY DEF ChildrenInv, Known, NoLink
  <2>2. child[row.child] # "none"
    BY <2>1 DEF NoLink
  <2> QED BY <1>1, <1>3, <2>2 DEF ChildrenInv, Known
<1>8. OneActiveLink'
  <2> SUFFICES ASSUME NEW c \in Children, NEW g \in Contacts,
                      NEW j \in ActiveLinks(c, g)', NEW k \in ActiveLinks(c, g)'
               PROVE  j = k
    BY DEF OneActiveLink
  <2>1. \A i \in Links \ {l} : i \in ActiveLinks(c, g)' => i \in ActiveLinks(c, g)
    BY <1>1 DEF ActiveLinks, PairLinks
  <2>2. j \in Links /\ k \in Links
    BY DEF ActiveLinks, PairLinks
  <2>3. CASE j # l /\ k # l
    BY <2>1, <2>2, <2>3 DEF ChildrenInv, OneActiveLink
  <2>4. CASE j = l \/ k = l
    <3>1. row.child = c /\ row.contact = g
      BY <1>1, <2>4 DEF ActiveLinks, PairLinks
    <3>2. CASE link[l] = NoLink
      BY <2>1, <2>2, <3>1, <3>2 DEF NoLink
    <3>3. CASE link[l] # NoLink
      <4>1. l \in ActiveLinks(c, g)
        BY <3>1, <3>3 DEF ActiveLinks, PairLinks
      <4> QED BY <2>1, <2>2, <4>1 DEF ChildrenInv, OneActiveLink
    <3> QED BY <3>2, <3>3
  <2> QED BY <2>3, <2>4
<1>9. AuditExplains'
  <2> DEFINE rows == audit[l]
             n == Len(rows)
  <2>1. /\ n \in Nat /\ audit'[l] = Append(rows, a) /\ Len(audit'[l]) = n + 1
        /\ audit'[l][n + 1] = a
        /\ \A i \in 1..n : audit'[l][i] = rows[i]
    BY <1>2
  <2>2. /\ link[l] = IF n = 0 THEN NoLink ELSE rows[n].after
        /\ \A i \in 1..n : /\ rows[i].after.revision = i
                           /\ rows[i].before = IF i = 1 THEN NoLink ELSE rows[i - 1].after
                           /\ i < n => rows[i].after.status = "ACTIVE"
    BY DEF ChildrenInv, AuditExplains
  <2>3. row.revision = n + 1 /\ (n > 0 => rows[n].after.status = "ACTIVE")
    BY <2>1, <2>2, LastAudited DEF NoLink
  <2> HIDE DEF rows, n
  <2>4. /\ a.after = row /\ a.before = link[l]
    OBVIOUS
  <2> HIDE DEF a
  <2>5. ASSUME NEW i \in 1..n + 1
        PROVE  /\ audit'[l][i].after.revision = i
               /\ audit'[l][i].before = IF i = 1 THEN NoLink ELSE audit'[l][i - 1].after
               /\ i < n + 1 => audit'[l][i].after.status = "ACTIVE"
    <3>1. CASE i = n + 1
      BY <2>1, <2>2, <2>3, <2>4, <3>1
    <3>2. CASE i \in 1..n
      <4>1. i > 1 => i - 1 \in 1..n
        BY <3>2, <2>1
      <4> QED BY <2>1, <2>2, <2>3, <3>2, <4>1
    <3> QED BY <2>1, <3>1, <3>2
  <2>6. link'[l] = audit'[l][n + 1].after /\ n + 1 # 0
    BY <1>1, <2>1, <2>4
  <2> SUFFICES ASSUME NEW k \in Links PROVE Explained(audit'[k], link'[k])
    BY DEF AuditExplains, Explained
  <2>7. CASE k = l
    BY <2>1, <2>5, <2>6, <2>7 DEF Explained
  <2>8. CASE k # l
    <3>1. audit'[k] = audit[k] /\ link'[k] = link[k]
      BY <1>1, <1>2, <2>8
    <3>2. Explained(audit[k], link[k])
      BY DEF ChildrenInv, AuditExplains, Explained
    <3> QED BY <3>1, <3>2
  <2> QED BY <2>7, <2>8
<1>10. ReleasedByRight' /\ HandedOverOnce'
  <2>1. HandedOverOnce'
    BY DEF ChildrenInv, HandedOverOnce
  <2>2. ASSUME NEW x \in release
        PROVE  /\ x.revision \in 1..Len(audit'[x.link])
               /\ audit'[x.link][x.revision] = audit[x.link][x.revision]
    <3>1. x.link \in Links /\ x.revision \in 1..Len(audit[x.link])
      BY DEF ChildrenInv, ReleasedByRight, GuardianTypeOK, ChildReleaseEvent
    <3>2. CASE x.link = l
      BY <1>2, <3>1, <3>2
    <3>3. CASE x.link # l
      BY <1>2, <3>1, <3>3
    <3> QED BY <3>2, <3>3
  <2>3. events' = events /\ release' = release
    OBVIOUS
  <2>4. ReleasedByRight'
    <3> SUFFICES ASSUME NEW x \in release
                 PROVE  /\ x.event \in 2..Len(events[x.child])
                        /\ LET leave == events[x.child][x.event]
                               stay == events[x.child][x.event - 1] IN
                           /\ leave.type = "CHECKED_OUT" /\ leave.room = x.room /\ leave.at = x.at
                           /\ Opens(stay) /\ x.at < stay.until
                        /\ x.revision \in 1..Len(audit'[x.link])
                        /\ LET old == audit'[x.link][x.revision].after IN
                           /\ old.child = x.child /\ old.contact = x.contact /\ old.status = "ACTIVE"
                           /\ old.terms.pickup /\ old.terms.from <= x.at
                           /\ old.terms.until # 0 => x.at < old.terms.until
      BY <2>3 DEF ReleasedByRight
    <3> QED BY <2>2 DEF ChildrenInv, ReleasedByRight
  <2> QED BY <2>1, <2>4
<1> QED BY <1>4, <1>5, <1>6, <1>7, <1>8, <1>9, <1>10 DEF ChildrenInv

LEMMA CreateLinkKeeps ==
  ASSUME ChildrenInv, NEW r \in Requests, NEW l \in Links, NEW t \in Terms,
         CommitCreateLink(r, l, t)
  PROVE  ChildrenInv'
<1> DEFINE q == request[r]
           row == [status |-> "ACTIVE", child |-> q.child, contact |-> q.contact,
                   terms |-> t, revision |-> 1]
<1>1. q.child \in Children /\ q.contact \in Contacts /\ ~Decided(r)
  <2>1. q \in Requested /\ q.op = "create_link" /\ q.step = "read"
    BY DEF CommitCreateLink, Serves, ChildrenInv, GuardianTypeOK, Requested
  <2> QED BY <2>1 DEF Requested, AttendanceRequest, ReleaseRequest, LinkRequest, AttendanceOps,
                      Idle, Decided
<1>2. row \in ChildGuardianLink
  BY <1>1 DEF ChildGuardianLink
<1>3. /\ link[l] = NoLink /\ Write(l, row)
      /\ ActiveLinks(q.child, q.contact) = {} /\ child[q.child] # "none"
  BY DEF CommitCreateLink, Serves, ChildrenInv, Known
<1>4. /\ row.revision = 1 /\ row.child = q.child /\ row.contact = q.contact
  OBVIOUS
<1>5. /\ request' = [request EXCEPT ![r] = Idle]
      /\ UNCHANGED <<clock, room, child, events, lock, contact, release>>
  BY DEF CommitCreateLink, Finish
<1> HIDE DEF row
<1> QED BY <1>1, <1>2, <1>3, <1>4, <1>5, Writes

LEMMA NextRevision ==
  ASSUME NEW row \in ChildGuardianLink, NEW status \in {"ACTIVE", "INACTIVE"}, NEW terms \in Terms
  PROVE  /\ LET new == [row EXCEPT !.status = status, !.revision = @ + 1] IN
            /\ new \in ChildGuardianLink /\ new.revision = row.revision + 1
            /\ new.child = row.child /\ new.contact = row.contact
         /\ LET new == [row EXCEPT !.terms = terms, !.revision = @ + 1] IN
            /\ new \in ChildGuardianLink /\ new.revision = row.revision + 1
            /\ new.child = row.child /\ new.contact = row.contact
<1> DEFINE closed == [row EXCEPT !.status = status]
           revised == [row EXCEPT !.terms = terms]
<1>1. /\ closed \in ChildGuardianLink /\ closed.revision = row.revision
      /\ closed.child = row.child /\ closed.contact = row.contact
  BY DEF ChildGuardianLink
<1>2. /\ revised \in ChildGuardianLink /\ revised.revision = row.revision
      /\ revised.child = row.child /\ revised.contact = row.contact
  BY DEF ChildGuardianLink
<1>3. \A x \in ChildGuardianLink :
         /\ [x EXCEPT !.revision = @ + 1] \in ChildGuardianLink
         /\ [x EXCEPT !.revision = @ + 1].revision = x.revision + 1
         /\ [x EXCEPT !.revision = @ + 1].child = x.child
         /\ [x EXCEPT !.revision = @ + 1].contact = x.contact
  BY DEF ChildGuardianLink
<1>4. /\ [row EXCEPT !.status = status, !.revision = @ + 1] = [closed EXCEPT !.revision = @ + 1]
      /\ [row EXCEPT !.terms = terms, !.revision = @ + 1] = [revised EXCEPT !.revision = @ + 1]
  BY DEF ChildGuardianLink
<1> HIDE DEF closed, revised
<1> QED BY <1>1, <1>2, <1>3, <1>4

\* The commits that change a link: it is active, and it stays its pair's.
LEMMA ChangeLinkKeeps ==
  ASSUME ChildrenInv, NEW r \in Requests,
         (\E t \in Terms : CommitUpdateLink(r, t)) \/ CommitDeactivateLink(r)
  PROVE  ChildrenInv'
<1> DEFINE l == request[r].link
<1>1. l \in Links /\ ~Decided(r)
  <2>1. request[r] \in Requested /\ request[r].op \in {"update_link", "deactivate_link"}
        /\ request[r].step = "read"
    BY DEF CommitUpdateLink, CommitDeactivateLink, Serves, ChildrenInv, GuardianTypeOK, Requested
  <2> QED BY <2>1 DEF Requested, AttendanceRequest, ReleaseRequest, LinkRequest, AttendanceOps,
                      Idle, Decided
<1>2. /\ request' = [request EXCEPT ![r] = Idle] /\ ~LinkHeld(l) /\ link[l].status = "ACTIVE"
      /\ UNCHANGED <<clock, room, child, events, lock, contact, release>>
  BY DEF CommitUpdateLink, CommitDeactivateLink, Finish
<1>3. link[l] \in ChildGuardianLink
  BY <1>1, <1>2 DEF ChildrenInv, GuardianTypeOK, NoLink
<1>4. \E row \in ChildGuardianLink :
         /\ Write(l, row) /\ row.revision = link[l].revision + 1
         /\ row.child = link[l].child /\ row.contact = link[l].contact
  <2>1. CASE CommitDeactivateLink(r)
    <3> DEFINE row == [link[l] EXCEPT !.status = "INACTIVE", !.revision = @ + 1]
    <3>1. row \in ChildGuardianLink /\ row.revision = link[l].revision + 1
          /\ row.child = link[l].child /\ row.contact = link[l].contact
      <4>1. link[l].terms \in Terms
        BY <1>3 DEF ChildGuardianLink
      <4> QED BY <1>3, <4>1, NextRevision
    <3>2. Write(l, row)
      BY <2>1 DEF CommitDeactivateLink
    <3> QED BY <3>1, <3>2
  <2>2. ASSUME NEW t \in Terms, CommitUpdateLink(r, t)
        PROVE  \E row \in ChildGuardianLink :
                  /\ Write(l, row) /\ row.revision = link[l].revision + 1
                  /\ row.child = link[l].child /\ row.contact = link[l].contact
    <3> DEFINE row == [link[l] EXCEPT !.terms = t, !.revision = @ + 1]
    <3>1. row \in ChildGuardianLink /\ row.revision = link[l].revision + 1
          /\ row.child = link[l].child /\ row.contact = link[l].contact
      <4>1. link[l].status \in {"ACTIVE", "INACTIVE"}
        BY <1>3 DEF ChildGuardianLink
      <4> QED BY <1>3, <4>1, NextRevision
    <3>2. Write(l, row)
      BY <2>2 DEF CommitUpdateLink
    <3> QED BY <3>1, <3>2
  <2> QED BY <2>1, <2>2
<1> QED BY <1>1, <1>2, <1>4, Writes

-----------------------------------------------------------------------------
LEMMA ChildrenStart == AttendanceInit /\ GuardianInit => ChildrenInv
<1> SUFFICES ASSUME AttendanceInit, GuardianInit PROVE ChildrenInv
  OBVIOUS
<1>1. AttendanceTypeOK
  BY NoneAsks DEF AttendanceInit, AttendanceTypeOK, Time, ChildProfile
<1>2. GuardianTypeOK
  BY DEF AttendanceInit, GuardianInit, GuardianTypeOK, GuardianContact
<1>3. Records
  <2>1. \A c \in Children : events[c] = <<>>
    BY DEF AttendanceInit
  <2>2. Chained(<<>>)
    BY DEF Chained
  <2>3. Past(<<>>) /\ Len(<<>>) <= MaxEvents
    BY NoneAsks DEF Past
  <2> QED BY Zenon, <2>1, <2>2, <2>3 DEF Records
<1>4. Serialised /\ HeldRows
  BY DEF AttendanceInit, Serialised, HeldRows, Releasing, Decided, Idle
<1>5. Known
  BY DEF AttendanceInit, GuardianInit, Known, Idle
<1>6. OneActiveLink
  BY DEF GuardianInit, OneActiveLink, ActiveLinks, PairLinks
<1>7. AuditExplains
  <2>1. \A l \in Links : link[l] = NoLink /\ audit[l] = <<>>
    BY DEF GuardianInit
  <2> QED BY <2>1 DEF AuditExplains
<1>8. ReleasedByRight /\ HandedOverOnce
  BY DEF GuardianInit, ReleasedByRight, HandedOverOnce
<1> QED BY <1>1, <1>2, <1>3, <1>4, <1>5, <1>6, <1>7, <1>8 DEF ChildrenInv

LEMMA GuardianStepKeeps == ASSUME ChildrenInv, GuardianStep PROVE ChildrenInv'
<1>1. ASSUME NEW g \in Contacts, CreateGuardian(g) \/ \E s \in Status : SetGuardianStatus(g, s)
      PROVE  ChildrenInv'
  BY <1>1, ContactsKeep
<1>2. ASSUME NEW r \in Requests, ReleaseStep(r) PROVE ChildrenInv'
  BY <1>2, BeginReleaseKeeps, DecideReleaseKeeps, CommitReleaseKeeps DEF ReleaseStep
<1>3. ASSUME NEW r \in Requests, LinkStep(r) PROVE ChildrenInv'
  BY <1>3, BeginLinksKeep, CreateLinkKeeps, ChangeLinkKeeps DEF LinkStep
<1> QED BY <1>1, <1>2, <1>3 DEF GuardianStep

LEMMA ChildStepKeeps ==
  ASSUME ChildrenInv, ChildStep \/ DayStep, UNCHANGED guardianVars
  PROVE  ChildrenInv'
<1>1. ASSUME NEW r \in Requests, AttendanceStep(r) PROVE ChildrenInv'
  BY <1>1, BeginAttendanceKeeps, DecideAttendanceKeeps, CommitAttendanceKeeps, RollbackKeeps
     DEF AttendanceStep
<1> QED BY <1>1, ChildRowsKeep, TickKeeps DEF ChildStep, DayStep

LEMMA ChildrenNext == ASSUME ChildrenInv, [Next]_vars PROVE ChildrenInv'
<1>1. CASE (ChildStep \/ DayStep) /\ UNCHANGED guardianVars
  BY <1>1, ChildStepKeeps
<1>2. CASE GuardianStep
  BY <1>2, GuardianStepKeeps
<1>3. CASE UNCHANGED <<attendanceVars, guardianVars>>
  BY <1>3, ChildrenStutter
<1>4. \/ (ChildStep \/ DayStep) /\ UNCHANGED guardianVars
      \/ GuardianStep
      \/ UNCHANGED <<attendanceVars, guardianVars>>
  BY DEF Next, vars
<1> QED BY <1>1, <1>2, <1>3, <1>4

\* Whatever operators do at once, the children's record, the rows of the contacts and the releases
\* are as ChildrenInv says: the invariant the theorems below are read from.
THEOREM ChildrenKept == Spec => []ChildrenInv
<1>1. Init => ChildrenInv
  BY ChildrenStart DEF Init
<1>2. ChildrenInv /\ [Next]_vars => ChildrenInv'
  BY ChildrenNext
<1> QED BY <1>1, <1>2, PTL DEF Spec

\* child_attendance.py plan_*: however requests overlap, a child's record is a chain of stays in one
\* room at a time.
THEOREM ChildInOneRoom == Spec => []OneRoomAtATime
<1>1. ChildrenInv => OneRoomAtATime
  BY DEF ChildrenInv, Records, Chained, OneRoomAtATime
<1> QED BY <1>1, ChildrenKept, PTL

\* child_roster_store.py:48: what a request decided under the lock fits the record at its commit.
THEOREM DecisionsFit == Spec => []DecisionStands
<1>1. ChildrenInv => DecisionStands
  BY DEF ChildrenInv, Serialised, Standing, DecisionStands
<1> QED BY <1>1, ChildrenKept, PTL

\* guardian_service.py update_link, deactivate_link: the audit of a link is an unbroken chain that
\* ends in its row.
THEOREM LinksAudited == Spec => []AuditExplains
<1>1. ChildrenInv => AuditExplains
  BY DEF ChildrenInv
<1> QED BY <1>1, ChildrenKept, PTL

\* guardian_service.py:952: every release cites a check-out and a link revision that allowed it.
THEOREM ReleasesRightful == Spec => [](ReleasedByRight /\ HandedOverOnce)
<1>1. ChildrenInv => ReleasedByRight /\ HandedOverOnce
  BY DEF ChildrenInv
<1> QED BY <1>1, ChildrenKept, PTL

\* A new row of child_release_events comes from CommitRelease, of a request that was decided.
LEMMA NewRelease ==
  ASSUME [Next]_vars, release' # release
  PROVE  \E r \in Requests : CommitRelease(r)
<1>1. \E r \in Requests : ReleaseStep(r) \/ LinkStep(r)
  BY DEF Next, vars, guardianVars, GuardianStep, CreateGuardian, SetGuardianStatus
<1>2. PICK r \in Requests : ReleaseStep(r) \/ LinkStep(r)
  BY <1>1
<1>3. ReleaseStep(r)
  BY <1>2 DEF LinkStep, BeginCreateLink, CommitCreateLink, BeginUpdateLink, CommitUpdateLink,
              BeginDeactivateLink, CommitDeactivateLink, guardianVars
<1>4. CommitRelease(r)
  BY <1>3 DEF ReleaseStep, BeginRelease, DecideRelease, guardianVars
<1> QED BY <1>4

\* guardian_service.py:990: child, contact and link are still active, and the link still at the
\* revision the release cites, at the step that commits it.
THEOREM ReleasesUpToDate == Spec => ReleaseUpToDate
<1>1. ASSUME ChildrenInv, [Next]_vars
      PROVE  [\A x \in release' \ release :
                 /\ child[x.child] = "ACTIVE" /\ contact[x.contact] = "ACTIVE"
                 /\ link[x.link].status = "ACTIVE" /\ link[x.link].revision = x.revision]_<<attendanceVars, guardianVars>>
  <2> SUFFICES ASSUME NEW x \in release' \ release
               PROVE  /\ child[x.child] = "ACTIVE" /\ contact[x.contact] = "ACTIVE"
                      /\ link[x.link].status = "ACTIVE" /\ link[x.link].revision = x.revision
    OBVIOUS
  <2>1. PICK r \in Requests : CommitRelease(r)
    BY <1>1, NewRelease
  <2>2. Entitled(request[r])
    BY <1>1, <2>1 DEF CommitRelease, ChildrenInv, HeldRows
  <2>3. /\ x.child = request[r].child /\ x.contact = request[r].contact
        /\ x.link = request[r].link /\ x.revision = request[r].revision
    BY <2>1 DEF CommitRelease
  <2> QED BY <2>2, <2>3 DEF Entitled
<1> QED BY <1>1, ChildrenKept, PTL DEF Spec, ReleaseUpToDate

-----------------------------------------------------------------------------
(* The staff's record *)

StaffRequested == {Idle} \cup StaffRequest

LEMMA StaffConstants ==
  /\ None \notin Shifts /\ MaxStaffEvents \in Nat
  /\ Idle \in StaffRequested /\ Idle.step = "done" /\ Idle.op = "idle"
BY StaffPresenceAssumption DEF StaffRequested, Idle

LEMMA StaffChainGrows ==
  ASSUME NEW es \in Seq(ChildAttendanceEvent), NEW plan \in Seq(ChildAttendanceEvent),
         StaffChained(es),
         es # <<>> /\ plan # <<>> => StaffFollows(Latest(es), plan[1]),
         \A i \in 1..Len(plan) - 1 : StaffFollows(plan[i], plan[i + 1])
  PROVE  StaffChained(es \o plan)
<1> DEFINE all == es \o plan
<1>1. /\ Len(all) = Len(es) + Len(plan) /\ Len(es) \in Nat /\ Len(plan) \in Nat
      /\ \A i \in 1..Len(es) : all[i] = es[i]
      /\ \A i \in 1..Len(plan) : all[Len(es) + i] = plan[i]
  BY Joined
<1>2. ASSUME NEW i \in 1..Len(all) - 1 PROVE StaffFollows(all[i], all[i + 1])
  <2>1. CASE i < Len(es)
    BY <1>1, <2>1 DEF StaffChained
  <2>2. CASE i = Len(es)
    <3>1. all[i] = Latest(es) /\ all[i + 1] = plan[1] /\ es # <<>> /\ plan # <<>>
      BY <1>1, <2>2 DEF Latest
    <3> QED BY <3>1
  <2>3. CASE i > Len(es)
    <3> DEFINE j == i - Len(es)
    <3>1. j \in 1..Len(plan) - 1 /\ all[i] = plan[j] /\ all[i + 1] = plan[j + 1]
      <4>1. j \in 1..Len(plan) - 1 /\ i = Len(es) + j /\ i + 1 = Len(es) + (j + 1)
        BY <1>1, <2>3
      <4> QED BY <1>1, <4>1
    <3> QED BY <3>1
  <2> QED BY <1>1, <2>1, <2>2, <2>3
<1> QED BY <1>2 DEF StaffChained

LEMMA StaffOnePlanned ==
  ASSUME NEW es \in Seq(ChildAttendanceEvent), StaffChained(es), clock \in Nat,
         NEW e \in ChildAttendanceEvent, e.at = clock,
         es # <<>> => StaffFollows(Latest(es), e)
  PROVE  /\ <<e>> \in Seq(ChildAttendanceEvent) /\ Past(<<e>>) /\ StaffChained(es \o <<e>>)
<1> DEFINE plan == <<e>>
<1>1. plan \in Seq(ChildAttendanceEvent) /\ Len(plan) = 1 /\ plan[1] = e
  BY Single
<1> HIDE DEF plan
<1>2. es # <<>> /\ plan # <<>> => StaffFollows(Latest(es), plan[1])
  BY <1>1
<1>3. \A i \in 1..Len(plan) - 1 : StaffFollows(plan[i], plan[i + 1])
  BY <1>1
<1>4. StaffChained(es \o plan) /\ Past(plan)
  BY <1>1, <1>2, <1>3, StaffChainGrows DEF Past
<1> QED BY <1>1, <1>4 DEF plan

LEMMA StaffTwoPlanned ==
  ASSUME NEW es \in Seq(ChildAttendanceEvent), StaffChained(es), clock \in Nat, es # <<>>,
         NEW e \in ChildAttendanceEvent, e.at = clock, StaffFollows(Latest(es), e),
         NEW f \in ChildAttendanceEvent, f.at = clock, StaffFollows(e, f)
  PROVE  /\ <<e, f>> \in Seq(ChildAttendanceEvent) /\ Past(<<e, f>>)
         /\ StaffChained(es \o <<e, f>>)
<1> DEFINE plan == <<e, f>>
<1>1. /\ plan \in Seq(ChildAttendanceEvent) /\ Len(plan) = 2 /\ plan[1] = e /\ plan[2] = f
  BY Pair
<1> HIDE DEF plan
<1>2. (\A i \in 1..Len(plan) - 1 : i = 1) /\ (\A i \in 1..Len(plan) : i = 1 \/ i = 2)
  BY <1>1
<1>3. es # <<>> /\ plan # <<>> => StaffFollows(Latest(es), plan[1])
  BY <1>1
<1>4. \A i \in 1..Len(plan) - 1 : StaffFollows(plan[i], plan[i + 1])
  BY <1>1, <1>2
<1>5. StaffChained(es \o plan)
  BY <1>1, <1>3, <1>4, StaffChainGrows
<1>6. Past(plan)
  BY <1>1, <1>2 DEF Past
<1> QED BY <1>1, <1>5, <1>6 DEF plan

LEMMA StaffCheckInFits ==
  ASSUME NEW es \in Seq(ChildAttendanceEvent), StaffChained(es), Past(es), clock \in Nat,
         NEW m \in Rooms, NEW lease \in Leases, NEW q, NEW assigned,
         NEW plan \in PlanStaffCheckIn(es, m, clock, lease, q, assigned)
  PROVE  plan \in Seq(ChildAttendanceEvent) /\ Past(plan) /\ StaffChained(es \o plan)
<1> DEFINE in == CheckedIn(m, clock, lease)
           out == CheckedOut(es, clock)
           moves == IsOpen(es) /\ Latest(es).room # m /\ FacilityOf[Latest(es).room] = FacilityOf[m]
<1>1. IF moves THEN plan = <<out, in>> ELSE plan = <<in>> /\ ~Fresh(es, clock)
  BY DEF PlanStaffCheckIn
<1>2. in \in ChildAttendanceEvent /\ in.at = clock /\ in.type = "CHECKED_IN" /\ in.room = m
  BY NewEvents DEF CheckedIn
<1>3. CASE moves
  <2>1. es # <<>> /\ Opens(Latest(es)) /\ Latest(es).at <= clock
    BY <1>3, NewEvents DEF IsOpen
  <2>2. out \in ChildAttendanceEvent /\ out.at = clock /\ out.type = "CHECKED_OUT"
        /\ out.room = Latest(es).room
    BY <2>1, NewEvents DEF CheckedOut
  <2>3. StaffFollows(Latest(es), out)
    BY <2>1, <2>2 DEF StaffFollows
  <2>4. StaffFollows(out, in)
    BY <1>2, <2>2 DEF StaffFollows, Opens
  <2>5. plan = <<out, in>>
    BY <1>1, <1>3
  <2> HIDE DEF in, out
  <2> QED BY <1>2, <2>1, <2>2, <2>3, <2>4, <2>5, StaffTwoPlanned
<1>4. CASE ~moves
  <2>1. plan = <<in>> /\ ~Fresh(es, clock)
    BY <1>1, <1>4
  <2>2. es # <<>> => StaffFollows(Latest(es), in)
    <3> SUFFICES ASSUME es # <<>> PROVE StaffFollows(Latest(es), in)
      OBVIOUS
    <3>1. Latest(es) \in ChildAttendanceEvent /\ Latest(es).at <= clock
      BY NewEvents
    <3>2. Opens(Latest(es)) => /\ Latest(es).until <= clock
                               /\ Latest(es).room = m \/ FacilityOf[Latest(es).room] # FacilityOf[m]
      BY <1>4, <2>1, <3>1 DEF IsOpen, Fresh, ChildAttendanceEvent
    <3> QED BY <1>2, <3>1, <3>2 DEF StaffFollows
  <2> HIDE DEF in, out
  <2> QED BY <1>2, <2>1, <2>2, StaffOnePlanned
<1> QED BY <1>3, <1>4

LEMMA StaffRefreshFits ==
  ASSUME NEW es \in Seq(ChildAttendanceEvent), StaffChained(es), Past(es), clock \in Nat,
         NEW m \in Rooms, NEW lease \in Leases, NEW q, NEW assigned,
         NEW plan \in PlanStaffRefresh(es, m, clock, lease, q, assigned)
  PROVE  plan \in Seq(ChildAttendanceEvent) /\ Past(plan) /\ StaffChained(es \o plan)
<1> DEFINE e == Refreshed(es, clock, lease)
<1>1. Fresh(es, clock) /\ plan = <<e>>
  BY DEF PlanStaffRefresh
<1>2. es # <<>> /\ Opens(Latest(es)) /\ clock < Latest(es).until /\ Latest(es).at <= clock
  BY <1>1, NewEvents DEF Fresh, IsOpen
<1>3. e \in ChildAttendanceEvent /\ e.at = clock /\ StaffFollows(Latest(es), e)
  BY <1>2, NewEvents DEF Refreshed, StaffFollows
<1> HIDE DEF e
<1> QED BY <1>1, <1>3, StaffOnePlanned

LEMMA StaffCheckOutFits ==
  ASSUME NEW es \in Seq(ChildAttendanceEvent), StaffChained(es), Past(es), clock \in Nat,
         NEW m \in Rooms, NEW plan \in PlanCheckOut(es, m, clock)
  PROVE  plan \in Seq(ChildAttendanceEvent) /\ Past(plan) /\ StaffChained(es \o plan)
<1> DEFINE e == CheckedOut(es, clock)
<1>1. CASE InClassroom(es, m)
  <2>1. plan = <<e>>
    BY <1>1 DEF PlanCheckOut
  <2>2. es # <<>> /\ Opens(Latest(es))
    BY <1>1 DEF InClassroom, IsOpen
  <2>3. Latest(es) \in ChildAttendanceEvent /\ Len(es) \in 1..Len(es)
    BY <2>2, Elements
  <2>4. Latest(es).at <= clock
    BY <2>3 DEF Past, Latest
  <2>5. e \in ChildAttendanceEvent /\ e.at = clock /\ StaffFollows(Latest(es), e)
    BY <2>2, <2>3, <2>4 DEF CheckedOut, StaffFollows, ChildAttendanceEvent
  <2> HIDE DEF e
  <2> QED BY <2>1, <2>5, StaffOnePlanned
<1>2. CASE ~InClassroom(es, m)
  <2>1. plan = <<>>
    BY <1>2 DEF PlanCheckOut
  <2>2. es \o plan = es /\ Len(plan) = 0 /\ plan \in Seq(ChildAttendanceEvent)
    BY <2>1
  <2> QED BY <2>1, <2>2 DEF Past
<1> QED BY <1>1, <1>2

LEMMA DecidedShift ==
  ASSUME StaffInv, NEW r \in Shifts, shift[r].step = "decided"
  PROVE  /\ shift[r].staff \in Staff /\ shift[r].plan \in Seq(ChildAttendanceEvent)
         /\ shift[r].last \in 0..MaxStaffEvents
<1>1. shift[r] \in StaffRequested
  BY DEF StaffInv, StaffTypeOK, StaffRequested
<1> QED BY <1>1 DEF StaffRequested, StaffRequest, Idle, StaffPresenceEvent

LEMMA DesignationsKept == ASSUME StaffInv, UNCHANGED designation PROVE OneDesignation'
BY DEF StaffInv, OneDesignation, ActiveAssignments

LEMMA StaffStutter == ASSUME StaffInv, UNCHANGED <<clock, staffVars>> PROVE StaffInv'
<1>1. UNCHANGED <<clock, staff, staffEvents, staffLock, shift, designation>>
  BY DEF staffVars
<1>2. StaffTypeOK' /\ StaffRecords' /\ StaffSerialised'
  BY <1>1 DEF StaffInv, StaffTypeOK, StaffRecords, Past, StaffSerialised, StaffStanding
<1> QED BY <1>1, <1>2, DesignationsKept DEF StaffInv

\* A staff request begins, ends or writes a designation, without having decided.
LEMMA StaffAsked ==
  ASSUME StaffInv, NEW r \in Shifts, NEW q \in StaffRequested, q.step # "decided",
         shift' = [shift EXCEPT ![r] = q], UNCHANGED <<clock, staff, staffEvents, staffLock>>,
         designation' \in [Designations -> StaffRatioEligibility \cup {NoDesignation}],
         OneDesignation'
  PROVE  StaffInv'
<1>1. /\ shift' \in [Shifts -> StaffRequested]
      /\ \A x \in Shifts : shift'[x].step = "decided" => shift'[x] = shift[x]
  BY DEF StaffInv, StaffTypeOK, StaffRequested
<1>2. StaffTypeOK' /\ StaffRecords'
  BY <1>1 DEF StaffInv, StaffTypeOK, StaffRecords, Past, StaffRequested
<1>3. StaffSerialised'
  BY <1>1 DEF StaffInv, StaffSerialised, StaffStanding, Past
<1> QED BY <1>2, <1>3 DEF StaffInv

LEMMA BeginShiftKeeps ==
  ASSUME StaffInv, UNCHANGED clock, room \in [Rooms -> BOOLEAN], NEW r \in Shifts,
         \/ \E op \in AttendanceOps, p \in Staff, m \in Rooms : BeginShift(r, op, p, m)
         \/ \E p \in Staff, f \in Facilities : BeginCreateEligibility(r, p, f)
  PROVE  StaffInv'
<1>0. designation \in [Designations -> StaffRatioEligibility \cup {NoDesignation}]
  BY DEF StaffInv, StaffTypeOK
<1>1. ASSUME NEW op \in AttendanceOps, NEW p \in Staff, NEW m \in Rooms, BeginShift(r, op, p, m)
      PROVE  StaffInv'
  <2> DEFINE q == [op |-> op, step |-> "read", staff |-> p, room |-> m,
                   status |-> staff[p], active |-> room[m]]
  <2>1. staff[p] \in StaffStatus /\ room[m] \in BOOLEAN
    BY <1>1 DEF BeginShift
  <2>2. q \in StaffRequested /\ q.step # "decided"
    BY <2>1 DEF StaffRequested, StaffRequest, AttendanceOps
  <2> QED BY <1>0, <1>1, <2>2, StaffAsked, DesignationsKept DEF BeginShift
<1>2. ASSUME NEW p \in Staff, NEW f \in Facilities, BeginCreateEligibility(r, p, f)
      PROVE  StaffInv'
  <2> DEFINE q == [op |-> "create_eligibility", step |-> "read", staff |-> p, facility |-> f]
  <2>1. q \in StaffRequested /\ q.step # "decided"
    BY DEF StaffRequested, StaffRequest
  <2> QED BY <1>0, <1>2, <2>1, StaffAsked, DesignationsKept DEF BeginCreateEligibility
<1> QED BY <1>1, <1>2

LEMMA DecideShiftKeeps ==
  ASSUME StaffInv, clock \in Nat, UNCHANGED clock, NEW r \in Shifts, NEW lease \in Leases,
         DecideShift(r, lease)
  PROVE  StaffInv'
<1> DEFINE old == shift[r]
           p == old.staff
           es == staffEvents[p]
           assigned == Assigned(p, FacilityOf[old.room], clock)
<1>1. PICK plan \in StaffPlans(old, lease) :
          /\ Len(es) + Len(plan) <= MaxStaffEvents
          /\ shift' = [shift EXCEPT ![r] = [op |-> old.op, step |-> "decided", staff |-> p,
                                            last |-> Len(es), plan |-> plan]]
  BY DEF DecideShift
<1>2. /\ staffLock' = [staffLock EXCEPT ![p] = r] /\ staffLock[p] = None
      /\ UNCHANGED <<staff, staffEvents, designation>>
  BY DEF DecideShift
<1>3. old.op \in AttendanceOps /\ p \in Staff /\ old.room \in Rooms
  <2>1. old \in StaffRequested /\ old.op # "create_eligibility" /\ old.step = "read"
    BY DEF DecideShift, StaffInv, StaffTypeOK, StaffRequested
  <2> QED BY <2>1 DEF StaffRequested, StaffRequest, AttendanceOps, Idle
<1>4. /\ es \in Seq(ChildAttendanceEvent) /\ StaffChained(es) /\ Past(es)
      /\ Len(es) \in 0..MaxStaffEvents
  BY <1>3, StaffConstants DEF StaffInv, StaffTypeOK, StaffRecords, StaffPresenceEvent
<1>5. plan \in Seq(ChildAttendanceEvent) /\ Past(plan) /\ StaffChained(es \o plan)
  <2> HIDE DEF old, assigned
  <2>1. CASE old.op = "check_in"
    <3>1. plan \in PlanStaffCheckIn(es, old.room, clock, lease, old, assigned)
      BY <2>1 DEF StaffPlans, assigned
    <3> HIDE DEF es
    <3> QED BY <1>3, <1>4, <3>1, StaffCheckInFits
  <2>2. CASE old.op = "refresh"
    <3>1. plan \in PlanStaffRefresh(es, old.room, clock, lease, old, assigned)
      BY <2>2 DEF StaffPlans, assigned
    <3> HIDE DEF es
    <3> QED BY <1>3, <1>4, <3>1, StaffRefreshFits
  <2>3. CASE old.op = "check_out"
    <3>1. plan \in PlanCheckOut(es, old.room, clock)
      BY <2>3 DEF StaffPlans
    <3> HIDE DEF es
    <3> QED BY <1>3, <1>4, <3>1, StaffCheckOutFits
  <2> QED BY <1>3, <2>1, <2>2, <2>3 DEF AttendanceOps
<1> DEFINE q == [op |-> old.op, step |-> "decided", staff |-> p, last |-> Len(es), plan |-> plan]
<1>6. /\ q \in StaffRequested /\ q.staff = p /\ q.plan = plan /\ q.last = Len(es)
  BY <1>3, <1>4, <1>5 DEF StaffRequested, StaffRequest, AttendanceOps, StaffPresenceEvent
<1>7. /\ shift' \in [Shifts -> StaffRequested] /\ shift'[r] = q
      /\ \A x \in Shifts \ {r} : shift'[x] = shift[x]
      /\ staffLock' \in [Staff -> Shifts \cup {None}] /\ staffLock'[p] = r
      /\ \A s \in Staff \ {p} : staffLock'[s] = staffLock[s]
  <2> HIDE DEF q
  <2> QED BY <1>1, <1>2, <1>3, <1>6 DEF StaffInv, StaffTypeOK, StaffRequested, q
<1>8. StaffTypeOK' /\ StaffRecords'
  BY <1>2, <1>7 DEF StaffInv, StaffTypeOK, StaffRecords, Past, StaffRequested
<1>9. StaffSerialised'
  <2> SUFFICES ASSUME NEW x \in Shifts, shift'[x].step = "decided"
               PROVE  StaffStanding(shift[x], x)'
    BY DEF StaffSerialised
  <2>1. CASE x = r
    <3> HIDE DEF q
    <3> QED BY <1>1, <1>2, <1>5, <1>6, <1>7, <2>1 DEF StaffStanding, Past
  <2>2. CASE x # r
    <3>1. /\ shift'[x] = shift[x] /\ StaffStanding(shift[x], x) /\ shift[x].staff \in Staff
      BY <1>7, <2>2, DecidedShift DEF StaffInv, StaffSerialised
    <3>2. shift[x].staff # p
      BY <1>2, <3>1, StaffConstants DEF StaffStanding
    <3> QED BY <1>2, <1>7, <3>1, <3>2 DEF StaffStanding, Past
  <2> QED BY <2>1, <2>2
<1> QED BY <1>2, <1>8, <1>9, DesignationsKept DEF StaffInv

LEMMA CommitShiftKeeps ==
  ASSUME StaffInv, UNCHANGED clock, NEW r \in Shifts, CommitShift(r)
  PROVE  StaffInv'
<1> DEFINE q == shift[r]
           p == q.staff
           es == staffEvents[p]
<1>1. /\ p \in Staff /\ q.plan \in Seq(ChildAttendanceEvent) /\ StaffStanding(q, r)
      /\ UNCHANGED <<staff, designation>>
  BY DecidedShift DEF CommitShift, StaffInv, StaffSerialised
<1>2. /\ staffEvents \in [Staff -> Seq(ChildAttendanceEvent)] /\ Past(es)
      /\ es \in Seq(ChildAttendanceEvent) /\ es \o q.plan \in Seq(ChildAttendanceEvent)
      /\ Len(es \o q.plan) = q.last + Len(q.plan)
  BY <1>1, Joined DEF StaffInv, StaffTypeOK, StaffRecords, StaffStanding, StaffPresenceEvent
<1>3. /\ staffEvents' \in [Staff -> Seq(ChildAttendanceEvent)]
      /\ staffEvents'[p] = es \o q.plan
      /\ \A s \in Staff \ {p} : staffEvents'[s] = staffEvents[s]
  BY <1>1, <1>2 DEF CommitShift, StaffStanding
<1>4. /\ shift' \in [Shifts -> StaffRequested] /\ shift'[r] = Idle
      /\ \A x \in Shifts \ {r} : shift'[x] = shift[x]
      /\ staffLock' \in [Staff -> Shifts \cup {None}]
      /\ \A s \in Staff \ {p} : staffLock'[s] = staffLock[s]
  BY <1>1, StaffConstants DEF CommitShift, StaffInv, StaffTypeOK, StaffRequested
<1>5. StaffTypeOK'
  BY <1>1, <1>3, <1>4 DEF StaffInv, StaffTypeOK, StaffRequested, StaffPresenceEvent
<1>6. StaffRecords'
  <2>1. Past(es \o q.plan)
    <3> HIDE DEF es
    <3> QED BY <1>1, <1>2, PastGrows DEF StaffStanding
  <2> SUFFICES ASSUME NEW s \in Staff
               PROVE  /\ StaffChained(staffEvents'[s]) /\ Past(staffEvents[s])'
                      /\ Len(staffEvents'[s]) <= MaxStaffEvents
    BY DEF StaffRecords, StaffChained
  <2>2. CASE s = p
    BY <1>1, <1>2, <1>3, <2>1, <2>2 DEF StaffStanding, Past
  <2>3. CASE s # p
    BY <1>3, <2>3 DEF StaffInv, StaffRecords, Past
  <2> QED BY <2>2, <2>3
<1>7. StaffSerialised'
  <2> SUFFICES ASSUME NEW x \in Shifts, shift'[x].step = "decided"
               PROVE  StaffStanding(shift[x], x)'
    BY DEF StaffSerialised
  <2>1. /\ shift'[x] = shift[x] /\ StaffStanding(shift[x], x) /\ shift[x].staff \in Staff /\ x # r
    BY <1>4, StaffConstants, DecidedShift DEF StaffInv, StaffSerialised
  <2>2. shift[x].staff # p
    BY <1>1, <2>1 DEF StaffStanding
  <2> QED BY <1>3, <1>4, <2>1, <2>2 DEF StaffStanding, Past
<1> QED BY <1>1, <1>5, <1>6, <1>7, DesignationsKept DEF StaffInv

LEMMA RollbackShiftKeeps ==
  ASSUME StaffInv, UNCHANGED clock, NEW r \in Shifts, RollbackShift(r)
  PROVE  StaffInv'
<1>1. /\ shift' \in [Shifts -> StaffRequested] /\ shift'[r] = Idle
      /\ \A x \in Shifts \ {r} : shift'[x] = shift[x]
      /\ staffLock' \in [Staff -> Shifts \cup {None}]
      /\ \A s \in Staff : staffLock[s] # r => staffLock'[s] = staffLock[s]
      /\ UNCHANGED <<staff, staffEvents, designation>>
  BY StaffConstants DEF RollbackShift, StaffInv, StaffTypeOK, StaffRequested
<1>2. StaffTypeOK' /\ StaffRecords'
  BY <1>1 DEF StaffInv, StaffTypeOK, StaffRecords, Past, StaffRequested
<1>3. StaffSerialised'
  <2> SUFFICES ASSUME NEW x \in Shifts, shift'[x].step = "decided"
               PROVE  StaffStanding(shift[x], x)'
    BY DEF StaffSerialised
  <2>1. /\ shift'[x] = shift[x] /\ StaffStanding(shift[x], x) /\ shift[x].staff \in Staff /\ x # r
    BY <1>1, StaffConstants, DecidedShift DEF StaffInv, StaffSerialised
  <2> QED BY <1>1, <2>1 DEF StaffStanding, Past
<1> QED BY <1>1, <1>2, <1>3, DesignationsKept DEF StaffInv

LEMMA CreateEligibilityKeeps ==
  ASSUME StaffInv, UNCHANGED clock, NEW r \in Shifts, NEW d \in Designations, NEW t \in StaffTerms,
         CommitCreateEligibility(r, d, t)
  PROVE  StaffInv'
<1> DEFINE q == shift[r]
           row == [status |-> "ACTIVE", staff |-> q.staff, facility |-> q.facility, terms |-> t]
<1>1. q.staff \in Staff /\ q.facility \in Facilities
  <2>1. q \in StaffRequested /\ q.op = "create_eligibility"
    BY DEF CommitCreateEligibility, StaffInv, StaffTypeOK, StaffRequested
  <2> QED BY <2>1 DEF StaffRequested, StaffRequest, Idle
<1>2. /\ designation \in [Designations -> StaffRatioEligibility \cup {NoDesignation}]
      /\ designation' = [designation EXCEPT ![d] = row] /\ row \in StaffRatioEligibility
  BY <1>1 DEF CommitCreateEligibility, StaffInv, StaffTypeOK, StaffRatioEligibility
<1>3. OneDesignation'
  <2> SUFFICES ASSUME NEW p \in Staff, NEW f \in Facilities,
                      NEW j \in ActiveAssignments(p, f)', NEW k \in ActiveAssignments(p, f)'
               PROVE  j = k
    BY DEF OneDesignation
  <2>1. \A i \in Designations \ {d} : i \in ActiveAssignments(p, f)' => i \in ActiveAssignments(p, f)
    BY <1>2 DEF ActiveAssignments
  <2>2. j \in Designations /\ k \in Designations
    BY DEF ActiveAssignments
  <2>3. CASE j # d /\ k # d
    BY <2>1, <2>2, <2>3 DEF StaffInv, OneDesignation
  <2>4. CASE j = d \/ k = d
    <3>1. p = q.staff /\ f = q.facility
      BY <1>2, <2>2, <2>4 DEF ActiveAssignments
    <3>2. ActiveAssignments(p, f) = {}
      BY <3>1 DEF CommitCreateEligibility
    <3> QED BY <2>1, <2>2, <3>2
  <2> QED BY <2>3, <2>4
<1>4. designation' \in [Designations -> StaffRatioEligibility \cup {NoDesignation}]
  <2> HIDE DEF row
  <2> QED BY <1>2
<1> QED BY <1>3, <1>4, StaffConstants, StaffAsked DEF CommitCreateEligibility

\* A designation in force gets other terms or ends; a profile is suspended, restored or removed.
LEMMA StaffRowsKeep ==
  ASSUME StaffInv, UNCHANGED clock,
         \/ \E d \in Designations : DeactivateEligibility(d) \/ \E t \in StaffTerms : UpdateEligibility(d, t)
         \/ \E p \in Staff, s \in StaffStatus : SetStaffStatus(p, s)
  PROVE  StaffInv'
<1>0. /\ designation \in [Designations -> StaffRatioEligibility \cup {NoDesignation}]
      /\ staff \in StaffProfile
  BY DEF StaffInv, StaffTypeOK
<1>1. ASSUME staff' \in StaffProfile, UNCHANGED <<staffEvents, staffLock, shift>>,
             designation' \in [Designations -> StaffRatioEligibility \cup {NoDesignation}],
             OneDesignation'
      PROVE  StaffInv'
  BY <1>1 DEF StaffInv, StaffTypeOK, StaffRecords, Past, StaffSerialised, StaffStanding
<1>2. ASSUME NEW d \in Designations,
             DeactivateEligibility(d) \/ \E t \in StaffTerms : UpdateEligibility(d, t)
      PROVE  StaffInv'
  <2>1. designation[d] \in StaffRatioEligibility
    BY <1>0, <1>2 DEF DeactivateEligibility, UpdateEligibility, NoDesignation
  <2>2. PICK row \in StaffRatioEligibility :
             /\ designation' = [designation EXCEPT ![d] = row]
             /\ row.staff = designation[d].staff /\ row.facility = designation[d].facility
    <3>1. CASE DeactivateEligibility(d)
      <4> DEFINE row == [designation[d] EXCEPT !.status = "INACTIVE"]
      <4>1. /\ row \in StaffRatioEligibility
            /\ row.staff = designation[d].staff /\ row.facility = designation[d].facility
        BY <2>1 DEF StaffRatioEligibility
      <4>2. designation' = [designation EXCEPT ![d] = row]
        BY <1>0, <3>1 DEF DeactivateEligibility
      <4> QED BY <4>1, <4>2
    <3>2. ASSUME NEW t \in StaffTerms, UpdateEligibility(d, t)
          PROVE  \E row \in StaffRatioEligibility :
                    /\ designation' = [designation EXCEPT ![d] = row]
                    /\ row.staff = designation[d].staff /\ row.facility = designation[d].facility
      <4> DEFINE row == [designation[d] EXCEPT !.terms = t]
      <4>1. /\ row \in StaffRatioEligibility
            /\ row.staff = designation[d].staff /\ row.facility = designation[d].facility
        BY <2>1 DEF StaffRatioEligibility
      <4>2. designation' = [designation EXCEPT ![d] = row]
        BY <1>0, <3>2 DEF UpdateEligibility
      <4> QED BY <4>1, <4>2
    <3> QED BY <1>2, <3>1, <3>2
  <2>3. designation[d].status = "ACTIVE" /\ UNCHANGED <<staff, staffEvents, staffLock, shift>>
    BY <1>2 DEF DeactivateEligibility, UpdateEligibility
  <2>4. \A p \in Staff, f \in Facilities : ActiveAssignments(p, f)' \subseteq ActiveAssignments(p, f)
    BY <1>0, <2>2, <2>3 DEF ActiveAssignments
  <2>5. OneDesignation'
    BY <2>4 DEF StaffInv, OneDesignation
  <2>6. designation' \in [Designations -> StaffRatioEligibility \cup {NoDesignation}]
    BY <1>0, <2>2
  <2> QED BY <1>0, <1>1, <2>3, <2>5, <2>6
<1>3. ASSUME NEW p \in Staff, NEW s \in StaffStatus, SetStaffStatus(p, s) PROVE StaffInv'
  <2>1. staff' \in StaffProfile /\ UNCHANGED <<staffEvents, staffLock, shift, designation>>
    BY <1>0, <1>3 DEF SetStaffStatus, StaffProfile
  <2> QED BY <1>0, <1>1, <2>1, DesignationsKept
<1> QED BY <1>2, <1>3

\* Time passes: no event of a person or of a plan comes to lie in the future.
LEMMA StaffTick ==
  ASSUME StaffInv, clock \in Nat, clock' = clock + 1, UNCHANGED staffVars
  PROVE  StaffInv'
<1>1. UNCHANGED <<staff, staffEvents, staffLock, shift, designation>>
  BY DEF staffVars
<1>2. ASSUME NEW es \in Seq(ChildAttendanceEvent), Past(es) PROVE Past(es)'
  <2> SUFFICES ASSUME NEW i \in 1..Len(es) PROVE es[i].at <= clock'
    BY DEF Past
  <2>1. es[i] \in ChildAttendanceEvent
    BY Elements
  <2>2. es[i].at \in Nat /\ es[i].at <= clock
    BY <1>2, <2>1 DEF Past, ChildAttendanceEvent
  <2> QED BY <2>2
<1>3. StaffRecords'
  <2> SUFFICES ASSUME NEW p \in Staff
               PROVE  /\ StaffChained(staffEvents[p]) /\ Past(staffEvents[p])'
                      /\ Len(staffEvents[p]) <= MaxStaffEvents
    BY <1>1 DEF StaffRecords, Past
  <2>1. staffEvents[p] \in Seq(ChildAttendanceEvent) /\ Past(staffEvents[p])
    BY DEF StaffInv, StaffTypeOK, StaffRecords, StaffPresenceEvent
  <2>2. Past(staffEvents[p])'
    BY <1>1, <1>2, <2>1 DEF Past
  <2> QED BY <2>2 DEF StaffInv, StaffRecords
<1>4. StaffSerialised'
  <2> SUFFICES ASSUME NEW r \in Shifts, shift[r].step = "decided" PROVE StaffStanding(shift[r], r)'
    BY <1>1 DEF StaffSerialised
  <2>1. StaffStanding(shift[r], r) /\ shift[r].plan \in Seq(ChildAttendanceEvent)
    BY DecidedShift DEF StaffInv, StaffSerialised
  <2>2. Past(shift[r].plan)'
    BY <1>1, <1>2, <2>1 DEF StaffStanding, Past
  <2> QED BY <1>1, <2>1, <2>2 DEF StaffStanding
<1>5. StaffTypeOK'
  BY <1>1 DEF StaffInv, StaffTypeOK
<1> QED BY <1>1, <1>3, <1>4, <1>5, DesignationsKept DEF StaffInv

LEMMA StaffStart == StaffInit => StaffInv
<1> SUFFICES ASSUME StaffInit PROVE StaffInv
  OBVIOUS
<1>1. StaffTypeOK /\ StaffSerialised
  BY DEF StaffInit, StaffTypeOK, StaffSerialised, StaffProfile, Idle
<1>2. StaffRecords
  <2>1. \A p \in Staff : staffEvents[p] = <<>>
    BY DEF StaffInit
  <2>2. StaffChained(<<>>) /\ Past(<<>>) /\ Len(<<>>) <= MaxStaffEvents
    BY StaffConstants DEF StaffChained, Past
  <2> QED BY Zenon, <2>1, <2>2 DEF StaffRecords
<1>3. OneDesignation
  BY DEF StaffInit, OneDesignation, ActiveAssignments, NoDesignation
<1> QED BY <1>1, <1>2, <1>3 DEF StaffInv

LEMMA StaffNext == ASSUME ChildrenInv, StaffInv, [Next]_vars PROVE StaffInv'
<1>0. clock \in Nat /\ room \in [Rooms -> BOOLEAN]
  BY NoneAsks DEF ChildrenInv, AttendanceTypeOK, Time
<1>1. CASE StaffStep /\ UNCHANGED clock
  <2>1. ASSUME NEW r \in Shifts, ShiftStep(r) PROVE StaffInv'
    BY <1>0, <1>1, <2>1, BeginShiftKeeps, DecideShiftKeeps, CommitShiftKeeps, RollbackShiftKeeps,
       CreateEligibilityKeeps DEF ShiftStep
  <2> QED BY <1>1, <2>1, StaffRowsKeep DEF StaffStep
<1>2. CASE UNCHANGED staffVars /\ UNCHANGED clock
  BY <1>2, StaffStutter
<1>3. CASE UNCHANGED staffVars /\ clock' = clock + 1
  BY <1>0, <1>3, StaffTick
<1>4. CASE StaffStep /\ UNCHANGED attendanceVars
  BY <1>1, <1>4 DEF attendanceVars
<1>5. CASE (ChildStep \/ DayStep) /\ UNCHANGED staffVars
  <2>1. UNCHANGED clock \/ clock' = clock + 1
    BY <1>5 DEF ChildStep, DayStep, AttendanceStep, BeginAttendance, DecideAttendance,
                CommitAttendance, Rollback, CreateChild, SetChildStatus, Tick, SetClassroomActive
  <2> QED BY <1>2, <1>3, <1>5, <2>1
<1>6. CASE GuardianStep /\ UNCHANGED staffVars
  <2>1. UNCHANGED clock
    BY <1>6 DEF GuardianStep, ReleaseStep, LinkStep, CreateGuardian, SetGuardianStatus, BeginRelease,
                DecideRelease, CommitRelease, BeginCreateLink, CommitCreateLink, BeginUpdateLink,
                CommitUpdateLink, BeginDeactivateLink, CommitDeactivateLink, attendanceVars
  <2> QED BY <1>2, <1>6, <2>1
<1>7. CASE UNCHANGED <<attendanceVars, staffVars>>
  BY <1>2, <1>7 DEF attendanceVars
<1> QED BY <1>4, <1>5, <1>6, <1>7 DEF Next, vars

\* The same of the staff's record and of the designations.
THEOREM StaffKept == Spec => []StaffInv
<1>1. Init => StaffInv
  BY StaffStart DEF Init
<1>2. ChildrenInv /\ StaffInv /\ [Next]_vars => StaffInv'
  BY StaffNext
<1> QED BY <1>1, <1>2, ChildrenKept, PTL DEF Spec

\* staff_presence.py plan_check_in: no stay of a teacher is opened while another one lasts.
THEOREM TeacherInOneRoom == Spec => []OneRoomPerTeacher
<1>1. StaffInv => OneRoomPerTeacher
  BY DEF StaffInv, StaffRecords, StaffChained, StaffFollows, OneRoomPerTeacher
<1> QED BY <1>1, StaffKept, PTL

\* CareDay as a whole: types, decisions that stand, one release per check-out, one active link of a
\* pair, one room per teacher and one designation per facility, whatever requests overlap.
THEOREM DayKept == Spec => []Inv
<1>1. ChildrenInv /\ StaffInv /\ OneRoomPerTeacher /\ DecisionStands => Inv
  BY DEF ChildrenInv, StaffInv, Inv, TypeOK
<1> QED BY <1>1, ChildrenKept, StaffKept, TeacherInOneRoom, DecisionsFit, PTL

-----------------------------------------------------------------------------
(* The ratio *)

LEMMA RatioConstants ==
  /\ None \notin Editors /\ None \notin Nat /\ Counts \subseteq Nat /\ Leases \subseteq Nat
  /\ IsFiniteSet(Children) /\ IsFiniteSet(Staff)
  /\ PolicyTerms \subseteq [from : Nat, until : Nat, max : Nat \ {0}, min : Nat, group : Nat]
BY RatioStatusAssumption, ChildAttendanceAssumption

LEMMA Product ==
  ASSUME NEW d \in Nat \ {0}, NEW a \in Int, NEW b \in Int
  PROVE  (a <= b => a * d <= b * d) /\ (a < b => a * d + d <= b * d)
<1>1. a <= b => a * d <= b * d
  OBVIOUS
<1>2. ASSUME a < b PROVE a * d + d <= b * d
  <2>1. (a + 1) * d <= b * d
    BY <1>2
  <2>2. (a + 1) * d = a * d + d
    OBVIOUS
  <2> QED BY <2>1, <2>2
<1> QED BY <1>1, <1>2

LEMMA Quotient ==
  ASSUME NEW m \in Nat, NEW d \in Nat \ {0}
  PROVE  (m \div d) \in Nat /\ (m \div d) * d <= m /\ m < (m \div d) * d + d
OBVIOUS

\* The number of adults a policy's ratio asks for is the least whose share covers the children.
LEMMA Rounded ==
  ASSUME NEW n \in Nat, NEW d \in Nat \ {0}, NEW k \in Nat
  PROVE  CeilDiv(n, d) \in Nat /\ (CeilDiv(n, d) <= k <=> n <= k * d)
<1> DEFINE c == CeilDiv(n, d)
<1>1. c \in Nat /\ c * d <= n + d - 1 /\ n + d - 1 < c * d + d
  <2>1. n + d - 1 \in Nat
    OBVIOUS
  <2> QED BY <2>1, Quotient DEF CeilDiv
<1>2. c * d \in Nat /\ k * d \in Nat
  BY <1>1
<1> HIDE DEF c
<1>3. ASSUME c <= k PROVE n <= k * d
  <2>1. c * d <= k * d
    BY <1>1, <1>3, Product
  <2> QED BY <1>1, <1>2, <2>1
<1>4. ASSUME ~(c <= k) PROVE ~(n <= k * d)
  <2>1. k * d + d <= c * d
    BY <1>1, <1>4, Product
  <2> QED BY <1>1, <1>2, <2>1
<1>5. c \in Nat /\ (c <= k <=> n <= k * d)
  BY <1>1, <1>3, <1>4
<1> QED BY <1>5 DEF c

LEMMA Required ==
  ASSUME NEW n \in Nat \ {0}, NEW t \in PolicyTerms, NEW k \in Nat
  PROVE  RequiredStaff(n, t) > k <=> n > k * t.max \/ k < t.min
<1>1. t.max \in Nat \ {0} /\ t.min \in Nat
  BY RatioConstants
<1>2. CeilDiv(n, t.max) \in Nat /\ (CeilDiv(n, t.max) <= k <=> n <= k * t.max)
  BY <1>1, Rounded
<1>3. k * t.max \in Nat
  BY <1>1
<1> HIDE DEF CeilDiv
<1> QED BY <1>1, <1>2, <1>3 DEF RequiredStaff

\* evaluate_ratio: the verdict on the numbers of two slots.
LEMMA Judged ==
  ASSUME NEW v, v.policies \subseteq PolicyTerms,
         NEW children \in SUBSET Nat, NEW adults \in SUBSET Nat,
         NEW d, d = EvaluateRatio(v, children, adults)
  PROVE  /\ d \in {"NOT_CONFIGURED", "INSUFFICIENT_DATA", "NO_CHILDREN_PRESENT",
                   "OVER_CONFIGURED_RATIO", "OVER_CONFIGURED_GROUP_SIZE",
                   "WITHIN_CONFIGURED_POLICY"}
         /\ d = "WITHIN_CONFIGURED_POLICY" =>
              \E n \in children \ {0}, k \in adults, t \in v.policies :
                  n <= k * t.max /\ t.min <= k /\ (t.group = 0 \/ n <= t.group)
         /\ d = "OVER_CONFIGURED_RATIO" =>
              \E n \in children \ {0}, k \in adults, t \in v.policies : n > k * t.max \/ k < t.min
         /\ d = "OVER_CONFIGURED_GROUP_SIZE" =>
              \E n \in children, t \in v.policies : 0 < t.group /\ t.group < n
         /\ d = "NO_CHILDREN_PRESENT" => 0 \in children /\ adults # {}
         /\ d \in {"NOT_CONFIGURED", "INSUFFICIENT_DATA"} =>
              ~v.active \/ v.policies = {} \/ children = {} \/ adults = {}
<1>1. CASE ~v.active \/ v.policies = {}
  BY <1>1 DEF EvaluateRatio
<1>2. CASE ~(~v.active \/ v.policies = {}) /\ (children = {} \/ adults = {})
  BY <1>2 DEF EvaluateRatio
<1>3. CASE v.active /\ v.policies # {} /\ children # {} /\ adults # {}
  <2> DEFINE n == CHOOSE x \in children : TRUE
             k == CHOOSE x \in adults : TRUE
             t == CHOOSE x \in v.policies : TRUE
  <2>1. n \in children /\ k \in adults /\ t \in v.policies
    BY <1>3
  <2>2. n \in Nat /\ k \in Nat /\ t \in PolicyTerms /\ t.max \in Nat \ {0} /\ t.min \in Nat
        /\ t.group \in Nat
    BY <2>1, RatioConstants
  <2>3. d = IF n = 0 THEN "NO_CHILDREN_PRESENT"
            ELSE IF RequiredStaff(n, t) > k THEN "OVER_CONFIGURED_RATIO"
            ELSE IF t.group # 0 /\ n > t.group THEN "OVER_CONFIGURED_GROUP_SIZE"
            ELSE "WITHIN_CONFIGURED_POLICY"
    BY <1>3 DEF EvaluateRatio
  <2> HIDE DEF n, k, t
  <2>4. CASE n = 0
    BY <2>1, <2>3, <2>4
  <2>5. CASE n # 0
    <3>1. RequiredStaff(n, t) > k <=> n > k * t.max \/ k < t.min
      BY <2>2, <2>5, Required
    <3>2. k * t.max \in Nat
      BY <2>2
    <3>3. CASE RequiredStaff(n, t) > k
      BY <2>1, <2>3, <2>5, <3>1, <3>3
    <3>4. CASE ~(RequiredStaff(n, t) > k)
      <4>1. n <= k * t.max /\ t.min <= k
        BY <2>2, <3>1, <3>2, <3>4
      <4>2. CASE t.group # 0 /\ n > t.group
        BY <2>1, <2>2, <2>3, <2>5, <3>4, <4>2
      <4>3. CASE ~(t.group # 0 /\ n > t.group)
        BY <2>1, <2>2, <2>3, <2>5, <3>4, <4>1, <4>3
      <4> QED BY <4>2, <4>3
    <3> QED BY <3>3, <3>4
  <2> QED BY <2>4, <2>5
<1> QED BY <1>1, <1>2, <1>3

LEMMA PolicyKept ==
  ASSUME RatioInv, UNCHANGED <<policy, policyLock>>,
         \A e \in Editors : Editing(e)' => Editing(e) /\ editor'[e] = editor[e]
  PROVE  EditsSerialised' /\ Disjoint'
<1>1. policy' = policy /\ policyLock' = policyLock
  OBVIOUS
<1>2. EditsSerialised'
  BY <1>1 DEF RatioInv, EditsSerialised, EditStanding, FindOverlap
<1>3. Disjoint'
  BY <1>1 DEF RatioInv, Disjoint
<1> QED BY <1>2, <1>3

LEMMA ViewKept ==
  ASSUME RatioInv, UNCHANGED <<view, seen>>
  PROVE  ViewStands' /\ VerdictSound'
<1>1. view' = view /\ seen' = seen
  OBVIOUS
<1> QED BY Zenon, <1>1 DEF RatioInv, ViewStands, Judging, VerdictSound

LEMMA RatioStutter == ASSUME RatioInv, UNCHANGED ratioVars PROVE RatioInv'
<1>1. UNCHANGED <<mode, policy, policyLock, editor, reports, stamps, view, seen>>
  BY DEF ratioVars
<1>2. RatioTypeOK' /\ SeenStands'
  BY <1>1 DEF RatioInv, RatioTypeOK, SeenStands
<1>3. \A e \in Editors : Editing(e)' => Editing(e) /\ editor'[e] = editor[e]
  BY <1>1 DEF Editing
<1> QED BY <1>1, <1>2, <1>3, PolicyKept, ViewKept DEF RatioInv

\* A transaction begins, or ends without a policy having changed.
LEMMA Drafted ==
  ASSUME RatioInv, NEW e \in Editors, NEW q \in {Idle} \cup PolicyEdit \cup Submission,
         q.op # "submit" => q.step # "decided",
         editor' = [editor EXCEPT ![e] = q],
         UNCHANGED <<mode, policy, policyLock, view, seen>>,
         stamps' \in Nat, reports' \subseteq ClassroomPresenceSnapshot, reports \subseteq reports'
  PROVE  RatioInv'
<1>1. /\ editor' \in [Editors -> {Idle} \cup PolicyEdit \cup Submission]
      /\ \A x \in Editors : Editing(x)' => Editing(x) /\ editor'[x] = editor[x]
  BY DEF RatioInv, RatioTypeOK, Editing
<1>2. RatioTypeOK' /\ SeenStands'
  BY <1>1 DEF RatioInv, RatioTypeOK, SeenStands
<1> QED BY <1>1, <1>2, PolicyKept, ViewKept DEF RatioInv

LEMMA BeginsKeep ==
  ASSUME RatioInv, clock \in Nat, NEW e \in Editors,
         \/ \E op \in {"create_policy", "update_policy", "deactivate_policy"}, m \in Rooms,
               i \in Policies, t \in PolicyTerms : BeginPolicy(e, op, m, i, t)
         \/ \E m \in Rooms, n, k \in Counts \cup {Absent} : BeginSubmit(e, m, n, k)
         \/ CommitSubmit(e)
  PROVE  RatioInv'
<1>1. ASSUME NEW op \in {"create_policy", "update_policy", "deactivate_policy"}, NEW m \in Rooms,
             NEW i \in Policies, NEW t \in PolicyTerms, BeginPolicy(e, op, m, i, t)
      PROVE  RatioInv'
  <2> DEFINE q == [op |-> op, step |-> "read", room |-> m, policy |-> i, terms |-> t]
  <2>1. q \in PolicyEdit /\ q.step = "read"
    BY DEF PolicyEdit
  <2>2. /\ editor' = [editor EXCEPT ![e] = q]
        /\ UNCHANGED <<mode, policy, policyLock, reports, stamps, view, seen>>
    BY <1>1 DEF BeginPolicy
  <2>3. stamps' \in Nat /\ reports' \subseteq ClassroomPresenceSnapshot /\ reports \subseteq reports'
    BY <2>2 DEF RatioInv, RatioTypeOK
  <2> HIDE DEF q
  <2> QED BY <2>1, <2>2, <2>3, Drafted
<1>2. ASSUME NEW m \in Rooms, NEW n \in Counts \cup {Absent}, NEW k \in Counts \cup {Absent},
             BeginSubmit(e, m, n, k)
      PROVE  RatioInv'
  <2>1. PICK lease \in Leases : editor' = [editor EXCEPT ![e] =
              [op |-> "submit", step |-> "read",
               row |-> [room |-> m, stamp |-> stamps', at |-> clock, until |-> clock + lease,
                        revoked |-> FALSE, children |-> n, staff |-> k]]]
    BY <1>2 DEF BeginSubmit
  <2> DEFINE row == [room |-> m, stamp |-> stamps', at |-> clock, until |-> clock + lease,
                     revoked |-> FALSE, children |-> n, staff |-> k]
             q == [op |-> "submit", step |-> "read", row |-> row]
  <2>2. /\ stamps' = stamps + 1 /\ UNCHANGED <<mode, policy, policyLock, reports, view, seen>>
    BY <1>2 DEF BeginSubmit
  <2>3. stamps' \in Nat /\ reports' \subseteq ClassroomPresenceSnapshot /\ reports \subseteq reports'
    BY <2>2 DEF RatioInv, RatioTypeOK
  <2>4. clock + lease \in Nat
    BY RatioConstants
  <2>5. row \in ClassroomPresenceSnapshot
    BY <2>3, <2>4 DEF ClassroomPresenceSnapshot
  <2>6. q \in Submission /\ q.op = "submit" /\ editor' = [editor EXCEPT ![e] = q]
    BY <2>1, <2>5 DEF Submission
  <2> HIDE DEF q
  <2> QED BY <2>2, <2>3, <2>6, Drafted
<1>3. CASE CommitSubmit(e)
  <2>1. /\ editor[e].op = "submit" /\ reports' = reports \cup {editor[e].row}
        /\ editor' = [editor EXCEPT ![e] = Idle] /\ stamps' = stamps
        /\ UNCHANGED <<mode, policy, policyLock, view, seen>>
    BY <1>3 DEF CommitSubmit
  <2>2. editor[e] \in {Idle} \cup PolicyEdit \cup Submission
    BY DEF RatioInv, RatioTypeOK
  <2>3. editor[e] \in Submission
    BY <2>1, <2>2 DEF PolicyEdit, Idle
  <2>4. editor[e].row \in ClassroomPresenceSnapshot
    BY <2>3 DEF Submission
  <2>5. stamps' \in Nat /\ reports' \subseteq ClassroomPresenceSnapshot /\ reports \subseteq reports'
    BY <2>1, <2>4 DEF RatioInv, RatioTypeOK
  <2>6. Idle.op # "submit" => Idle.step # "decided"
    BY DEF Idle
  <2> QED BY <2>1, <2>5, <2>6, Drafted
<1> QED BY <1>1, <1>2, <1>3

LEMMA DecidedEdit ==
  ASSUME RatioInv, NEW e \in Editors, editor[e].op # "submit", editor[e].step \in {"read", "decided"}
  PROVE  editor[e] \in PolicyEdit
<1>1. editor[e] \in {Idle} \cup PolicyEdit \cup Submission
  BY DEF RatioInv, RatioTypeOK
<1> QED BY <1>1 DEF Idle, Submission

\* A policy write decides: it takes the lock of its room, which nobody has.
LEMMA DecidePolicyKeeps ==
  ASSUME RatioInv, NEW e \in Editors, DecidePolicy(e)
  PROVE  RatioInv'
<1> DEFINE q == editor[e]
           p == [q EXCEPT !.step = "decided"]
<1>1. /\ q.op # "submit" /\ q.step = "read" /\ Free(q.room) /\ Allowed(q)
      /\ policyLock' = [policyLock EXCEPT ![q.room] = e]
      /\ editor' = [editor EXCEPT ![e].step = "decided"]
      /\ UNCHANGED <<mode, policy, reports, stamps, view, seen>>
  BY DEF DecidePolicy
<1>2. q \in PolicyEdit
  BY <1>1, DecidedEdit
<1>3. /\ p \in PolicyEdit /\ p.op = q.op /\ p.room = q.room /\ p.policy = q.policy
      /\ p.terms = q.terms /\ q.room \in Rooms /\ q.policy \in Policies
  BY <1>2 DEF PolicyEdit
<1>4. editor' = [editor EXCEPT ![e] = p]
  BY <1>1 DEF RatioInv, RatioTypeOK
<1>5. /\ editor' \in [Editors -> {Idle} \cup PolicyEdit \cup Submission]
      /\ editor'[e] = p /\ \A x \in Editors \ {e} : editor'[x] = editor[x]
      /\ policyLock' \in [Rooms -> Editors \cup {None}] /\ policyLock'[q.room] = e
      /\ \A m \in Rooms \ {q.room} : policyLock'[m] = policyLock[m]
  BY <1>1, <1>3, <1>4 DEF RatioInv, RatioTypeOK
<1>6. RatioTypeOK' /\ SeenStands' /\ Disjoint'
  BY <1>1, <1>5 DEF RatioInv, RatioTypeOK, SeenStands, Disjoint
<1>7. EditsSerialised'
  <2> SUFFICES ASSUME NEW x \in Editors, Editing(x)' PROVE EditStanding(editor[x], x)'
    BY DEF EditsSerialised
  <2>1. CASE x = e
    <3>1. CASE q.op = "deactivate_policy"
      <4>1. policy[q.policy].status = "ACTIVE"
        BY <1>1, <3>1 DEF Allowed
      <4>2. policy[q.policy] # NoPolicy
        BY <4>1 DEF NoPolicy
      <4> QED BY <1>1, <1>3, <1>5, <2>1, <3>1, <4>2 DEF EditStanding
    <3>2. CASE q.op # "deactivate_policy"
      <4>1. q.op \in {"create_policy", "update_policy"}
        BY <1>2, <3>2 DEF PolicyEdit
      <4>2. FindOverlap(q.room, q.policy, q.terms) = {}
        BY <1>1, <4>1 DEF Allowed
      <4>3. \A j \in Policies \ {p.policy} :
               ~(policy'[j].status = "ACTIVE" /\ policy'[j].room = p.room
                 /\ PeriodsOverlap(p.terms, policy'[j].terms))
        BY <1>1, <1>3, <4>2 DEF FindOverlap
      <4>4. policyLock'[p.room] = e /\ editor'[x] = p /\ p.op # "deactivate_policy"
        BY <1>3, <1>5, <2>1, <3>2
      <4> HIDE DEF p
      <4> QED BY <2>1, <4>3, <4>4 DEF EditStanding, FindOverlap
    <3> QED BY <3>1, <3>2
  <2>2. CASE x # e
    <3>1. Editing(x) /\ editor'[x] = editor[x]
      BY <1>5, <2>2 DEF Editing
    <3>2. EditStanding(editor[x], x)
      BY <3>1 DEF RatioInv, EditsSerialised
    <3>3. editor[x] \in PolicyEdit
      BY <3>1, DecidedEdit DEF Editing
    <3>4. editor[x].room \in Rooms /\ policyLock[editor[x].room] = x
      BY <3>2, <3>3 DEF PolicyEdit, EditStanding
    <3>5. editor[x].room # q.room
      BY <1>1, <3>4, RatioConstants DEF Free
    <3> QED BY <1>1, <1>5, <3>1, <3>2, <3>4, <3>5 DEF EditStanding, FindOverlap
  <2> QED BY <2>1, <2>2
<1>8. ViewStands' /\ VerdictSound'
  BY <1>1, ViewKept
<1> QED BY <1>6, <1>7, <1>8 DEF RatioInv

\* A policy write commits: in its room nobody else can have decided.
LEMMA CommitPolicyKeeps ==
  ASSUME RatioInv, NEW e \in Editors, CommitPolicy(e)
  PROVE  RatioInv'
<1> DEFINE q == editor[e]
           row == IF q.op = "deactivate_policy" THEN [policy[q.policy] EXCEPT !.status = "INACTIVE"]
                  ELSE [status |-> "ACTIVE", room |-> q.room, terms |-> q.terms]
<1>1. /\ q.op # "submit" /\ q.step = "decided"
      /\ policyLock' = [policyLock EXCEPT ![q.room] = None]
      /\ editor' = [editor EXCEPT ![e] = Idle]
      /\ UNCHANGED <<mode, reports, stamps, view, seen>>
  BY DEF CommitPolicy
<1>2. policy' = [policy EXCEPT ![q.policy] = row]
  BY DEF CommitPolicy, RatioInv, RatioTypeOK
<1>3. q \in PolicyEdit
  BY <1>1, DecidedEdit
<1>4. /\ q.room \in Rooms /\ q.policy \in Policies /\ q.terms \in PolicyTerms
  BY <1>3 DEF PolicyEdit
<1>5. EditStanding(q, e)
  BY <1>1 DEF RatioInv, EditsSerialised, Editing
<1>6. policyLock[q.room] = e
  BY <1>5 DEF EditStanding
<1>7. /\ row \in ClassroomRatioPolicy
      /\ row.status = "ACTIVE" => row.room = q.room /\ row.terms = q.terms
                                  /\ FindOverlap(q.room, q.policy, q.terms) = {}
  <2>1. CASE q.op = "deactivate_policy"
    <3>1. policy[q.policy] \in ClassroomRatioPolicy
      BY <1>4, <1>5, <2>1 DEF EditStanding, RatioInv, RatioTypeOK
    <3> QED BY <2>1, <3>1 DEF ClassroomRatioPolicy
  <2>2. CASE q.op # "deactivate_policy"
    BY <1>4, <1>5, <2>2 DEF EditStanding, ClassroomRatioPolicy
  <2> QED BY <2>1, <2>2
<1> HIDE DEF row
<1>8. /\ policy' \in [Policies -> ClassroomRatioPolicy \cup {NoPolicy}] /\ policy'[q.policy] = row
      /\ \A i \in Policies \ {q.policy} : policy'[i] = policy[i]
      /\ policyLock' \in [Rooms -> Editors \cup {None}]
      /\ \A m \in Rooms \ {q.room} : policyLock'[m] = policyLock[m]
      /\ editor' \in [Editors -> {Idle} \cup PolicyEdit \cup Submission] /\ editor'[e] = Idle
      /\ \A x \in Editors \ {e} : editor'[x] = editor[x]
  BY <1>1, <1>2, <1>4, <1>7 DEF RatioInv, RatioTypeOK
<1>9. RatioTypeOK' /\ SeenStands'
  BY <1>1, <1>8 DEF RatioInv, RatioTypeOK, SeenStands
<1>10. EditsSerialised'
  <2> SUFFICES ASSUME NEW x \in Editors, Editing(x)' PROVE EditStanding(editor[x], x)'
    BY DEF EditsSerialised
  <2>1. x # e /\ Editing(x) /\ editor'[x] = editor[x]
    BY <1>8 DEF Editing, Idle
  <2>2. EditStanding(editor[x], x) /\ editor[x] \in PolicyEdit
    BY <2>1, DecidedEdit DEF RatioInv, EditsSerialised, Editing
  <2> DEFINE p == editor[x]
  <2>3. p.room \in Rooms /\ p.policy \in Policies /\ p.room # q.room /\ policyLock'[p.room] = x
    BY <1>6, <1>8, <2>1, <2>2 DEF EditStanding, PolicyEdit
  <2>4. FindOverlap(p.room, p.policy, p.terms)' \subseteq FindOverlap(p.room, p.policy, p.terms)
    <3> SUFFICES ASSUME NEW j \in Policies \ {p.policy}, policy'[j].status = "ACTIVE",
                        policy'[j].room = p.room, PeriodsOverlap(p.terms, policy'[j].terms)
                 PROVE  j \in FindOverlap(p.room, p.policy, p.terms)
      BY <2>1 DEF FindOverlap
    <3>1. j # q.policy
      BY <1>7, <1>8, <2>3
    <3> QED BY <1>8, <3>1 DEF FindOverlap
  <2>5. policy[p.policy] # NoPolicy => policy'[p.policy] # NoPolicy
    <3>1. row # NoPolicy
      BY <1>7 DEF ClassroomRatioPolicy, NoPolicy
    <3> QED BY <1>8, <2>3, <3>1
  <2> QED BY <2>1, <2>2, <2>3, <2>4, <2>5 DEF EditStanding
<1>11. Disjoint'
  <2>1. \A s, t : PeriodsOverlap(s, t) <=> PeriodsOverlap(t, s)
    BY DEF PeriodsOverlap
  <2>2. ASSUME NEW j \in Policies \ {q.policy}, row.status = "ACTIVE",
               policy[j].status = "ACTIVE", policy[j].room = row.room
        PROVE  ~PeriodsOverlap(row.terms, policy[j].terms)
    BY <1>7, <2>2 DEF FindOverlap
  <2> SUFFICES ASSUME NEW i \in Policies, NEW j \in Policies, i # j,
                      policy'[i].status = "ACTIVE", policy'[j].status = "ACTIVE",
                      policy'[i].room = policy'[j].room
               PROVE  ~PeriodsOverlap(policy'[i].terms, policy'[j].terms)
    BY DEF Disjoint
  <2>3. CASE i = q.policy
    BY <1>8, <2>2, <2>3
  <2>4. CASE j = q.policy
    BY <1>8, <2>1, <2>2, <2>4
  <2>5. CASE i # q.policy /\ j # q.policy
    BY <1>8, <2>5 DEF RatioInv, Disjoint
  <2> QED BY <2>3, <2>4, <2>5
<1>12. ViewStands' /\ VerdictSound'
  BY <1>1, ViewKept
<1> QED BY <1>9, <1>10, <1>11, <1>12 DEF RatioInv

LEMMA RollbackEditKeeps ==
  ASSUME RatioInv, NEW e \in Editors, RollbackEdit(e)
  PROVE  RatioInv'
<1>1. /\ policyLock' = [m \in Rooms |-> IF policyLock[m] = e THEN None ELSE policyLock[m]]
      /\ editor' = [editor EXCEPT ![e] = Idle]
      /\ UNCHANGED <<mode, policy, reports, stamps, view, seen>>
  BY DEF RollbackEdit
<1>2. /\ editor' \in [Editors -> {Idle} \cup PolicyEdit \cup Submission] /\ editor'[e] = Idle
      /\ \A x \in Editors \ {e} : editor'[x] = editor[x]
      /\ policyLock' \in [Rooms -> Editors \cup {None}]
      /\ \A m \in Rooms : policyLock[m] # e => policyLock'[m] = policyLock[m]
  BY <1>1 DEF RatioInv, RatioTypeOK
<1>3. RatioTypeOK' /\ SeenStands' /\ Disjoint'
  BY <1>1, <1>2 DEF RatioInv, RatioTypeOK, SeenStands, Disjoint
<1>4. EditsSerialised'
  <2> SUFFICES ASSUME NEW x \in Editors, Editing(x)' PROVE EditStanding(editor[x], x)'
    BY DEF EditsSerialised
  <2>1. x # e /\ Editing(x) /\ editor'[x] = editor[x]
    BY <1>2 DEF Editing, Idle
  <2>2. EditStanding(editor[x], x) /\ editor[x] \in PolicyEdit
    BY <2>1, DecidedEdit DEF RatioInv, EditsSerialised, Editing
  <2>3. editor[x].room \in Rooms /\ policyLock[editor[x].room] = x
    BY <2>2 DEF PolicyEdit, EditStanding
  <2> QED BY <1>1, <1>2, <2>1, <2>2, <2>3 DEF EditStanding, FindOverlap
<1>5. ViewStands' /\ VerdictSound'
  BY <1>1, ViewKept
<1> QED BY <1>3, <1>4, <1>5 DEF RatioInv

\* A report revoked keeps its stamp; the mode of a room is nothing the invariant speaks of.
LEMMA ReportRowsKeep ==
  ASSUME RatioInv,
         \/ \E x \in reports : RevokeManualPresence(x)
         \/ \E m \in Rooms, v \in PresenceSourceMode : SetPresenceSourceMode(m, v)
  PROVE  RatioInv'
<1>1. ASSUME NEW x \in reports, RevokeManualPresence(x) PROVE RatioInv'
  <2>1. /\ reports' = (reports \ {x}) \cup {[x EXCEPT !.revoked = TRUE]}
        /\ UNCHANGED <<mode, policy, policyLock, editor, stamps, view, seen>>
    BY <1>1 DEF RevokeManualPresence
  <2>2. x \in ClassroomPresenceSnapshot
    BY DEF RatioInv, RatioTypeOK
  <2> DEFINE y == [x EXCEPT !.revoked = TRUE]
  <2>3. y \in ClassroomPresenceSnapshot /\ y.room = x.room /\ y.stamp = x.stamp
    BY <2>2 DEF ClassroomPresenceSnapshot
  <2>4. RatioTypeOK'
    BY <2>1, <2>3 DEF RatioInv, RatioTypeOK
  <2>5. SeenStands'
    <3> SUFFICES ASSUME NEW m \in Rooms, seen[m] # 0
                 PROVE  \E z \in reports' : z.room = m /\ z.stamp = seen[m]
      BY <2>1 DEF SeenStands
    <3>1. PICK z \in reports : z.room = m /\ z.stamp = seen[m]
      BY DEF RatioInv, SeenStands
    <3> QED BY <2>1, <2>3, <3>1
  <2>6. \A e \in Editors : Editing(e)' => Editing(e) /\ editor'[e] = editor[e]
    BY <2>1 DEF Editing
  <2> QED BY <2>1, <2>4, <2>5, <2>6, PolicyKept, ViewKept DEF RatioInv
<1>2. ASSUME NEW m \in Rooms, NEW v \in PresenceSourceMode, SetPresenceSourceMode(m, v)
      PROVE  RatioInv'
  <2>1. /\ mode' = [mode EXCEPT ![m] = v]
        /\ UNCHANGED <<policy, policyLock, editor, reports, stamps, view, seen>>
    BY <1>2 DEF SetPresenceSourceMode
  <2>2. RatioTypeOK' /\ SeenStands'
    BY <2>1 DEF RatioInv, RatioTypeOK, SeenStands
  <2>3. \A e \in Editors : Editing(e)' => Editing(e) /\ editor'[e] = editor[e]
    BY <2>1 DEF Editing
  <2> QED BY <2>1, <2>2, <2>3, PolicyKept, ViewKept DEF RatioInv
<1> QED BY <1>1, <1>2

\* A step of the evaluation: policies and reports are only read.
LEMMA Looked ==
  ASSUME RatioInv, view' \in RatioStatusView, seen' \in [Rooms -> Nat],
         UNCHANGED <<mode, policy, policyLock, editor, reports, stamps>>,
         SeenStands', ViewStands', VerdictSound'
  PROVE  RatioInv'
<1>1. RatioTypeOK'
  BY DEF RatioInv, RatioTypeOK
<1>2. \A e \in Editors : Editing(e)' => Editing(e) /\ editor'[e] = editor[e]
  BY DEF Editing
<1> QED BY <1>1, <1>2, PolicyKept DEF RatioInv

LEMMA BeginStatusKeeps ==
  ASSUME RatioInv, clock \in Nat, NEW m \in Rooms, BeginStatus(m)
  PROVE  RatioInv'
<1>1. /\ view' = [step |-> "begun", room |-> m, now |-> clock]
      /\ UNCHANGED <<mode, policy, policyLock, editor, reports, stamps, seen>>
  BY DEF BeginStatus
<1>2. view' \in RatioStatusView /\ view'.step = "begun"
  BY <1>1 DEF RatioStatusView
<1>3. seen' \in [Rooms -> Nat] /\ SeenStands'
  BY <1>1 DEF RatioInv, RatioTypeOK, SeenStands
<1>4. ViewStands' /\ VerdictSound'
  BY <1>2 DEF ViewStands, Judging, VerdictSound
<1> QED BY <1>1, <1>2, <1>3, <1>4, Looked

\* The newest reports of a room share a stamp no smaller than any it was judged by.
LEMMA NewestStamp ==
  ASSUME RatioInv, NEW m \in Rooms
  PROVE  LET newest == NewestReport(m)
             n == CHOOSE n \in {seen[m]} \cup {x.stamp : x \in newest} :
                      \A x \in newest : seen[m] <= n /\ x.stamp <= n IN
         /\ n \in Nat /\ \A x \in newest : x.stamp = n
         /\ n = seen[m] \/ \E x \in reports : x.room = m /\ x.stamp = n
<1> DEFINE newest == NewestReport(m)
           ok(n) == \A x \in newest : seen[m] <= n /\ x.stamp <= n
           n == CHOOSE n \in {seen[m]} \cup {x.stamp : x \in newest} : ok(n)
<1>1. /\ seen[m] \in Nat /\ newest \subseteq reports
      /\ \A x \in reports : x.stamp \in Nat
      /\ \A x \in newest : x.room = m /\ \A y \in reports : y.room = m => y.stamp <= x.stamp
  BY DEF RatioInv, RatioTypeOK, ClassroomPresenceSnapshot, NewestReport
<1>2. CASE newest = {}
  <2>1. n \in {seen[m]}
    BY <1>2
  <2> QED BY <1>1, <1>2, <2>1
<1>3. CASE newest # {}
  <2>1. PICK x \in newest : TRUE
    BY <1>3
  <2>2. seen[m] <= x.stamp
    BY <1>1, <2>1 DEF RatioInv, SeenStands
  <2>3. \A y \in newest : y.stamp = x.stamp
    BY <1>1, <2>1
  <2>4. ok(x.stamp)
    BY <1>1, <2>1, <2>2, <2>3
  <2>5. n \in {seen[m]} \cup {y.stamp : y \in newest} /\ ok(n)
    BY <2>1, <2>4
  <2>6. n = x.stamp
    <3>1. seen[m] <= n /\ x.stamp <= n
      BY <2>1, <2>5
    <3>2. n = seen[m] \/ n = x.stamp
      BY <2>3, <2>5
    <3> QED BY <1>1, <2>1, <2>2, <3>1, <3>2
  <2> QED BY <1>1, <2>1, <2>3, <2>6
<1> QED BY <1>2, <1>3

LEMMA ReadClassroomKeeps ==
  ASSUME RatioInv, room \in [Rooms -> BOOLEAN], ReadClassroom
  PROVE  RatioInv'
<1> DEFINE m == view.room
           newest == NewestReport(m)
           n == CHOOSE n \in {seen[m]} \cup {x.stamp : x \in newest} :
                      \A x \in newest : seen[m] <= n /\ x.stamp <= n
           ids == {j \in Policies : /\ policy[j].status = "ACTIVE" /\ policy[j].room = m
                                    /\ PolicyApplies(policy[j].terms, view.now)}
           terms == {policy[i].terms : i \in ids}
           manual == {x \in newest : ~x.revoked}
<1>1. /\ view.step = "begun"
      /\ view' = [step |-> "read", room |-> m, now |-> view.now, mode |-> mode[m],
                  active |-> room[m], policies |-> terms, manual |-> manual]
      /\ UNCHANGED <<mode, policy, policyLock, editor, reports, stamps>>
  BY DEF ReadClassroom
<1>2. m \in Rooms /\ view.now \in Nat
  BY <1>1 DEF RatioInv, RatioTypeOK, RatioStatusView, Nothing
<1>3. seen' = [seen EXCEPT ![m] = n]
  BY <1>2 DEF ReadClassroom, RatioInv, RatioTypeOK
<1>4. /\ n \in Nat /\ \A x \in newest : x.stamp = n
      /\ n = seen[m] \/ \E x \in reports : x.room = m /\ x.stamp = n
  BY <1>2, NewestStamp
<1>5. terms \subseteq PolicyTerms /\ \A i, j \in ids : i = j
  <2>1. \A i \in ids : policy[i].terms \in PolicyTerms
    BY DEF RatioInv, RatioTypeOK, ClassroomRatioPolicy, NoPolicy
  <2>2. ASSUME NEW i \in ids, NEW j \in ids PROVE i = j
    <3>1. PolicyApplies(policy[i].terms, view.now) /\ PolicyApplies(policy[j].terms, view.now)
      OBVIOUS
    <3>2. \A t \in PolicyTerms : t.from \in Nat /\ t.until \in Nat
      BY RatioConstants
    <3>3. PeriodsOverlap(policy[i].terms, policy[j].terms)
      BY <1>2, <2>1, <3>1, <3>2 DEF PolicyApplies, PeriodsOverlap
    <3> QED BY <3>3 DEF RatioInv, Disjoint
  <2> QED BY <2>1, <2>2
<1>6. manual \subseteq ClassroomPresenceSnapshot /\ \A x \in manual : x.stamp = n
  BY <1>4 DEF NewestReport, RatioInv, RatioTypeOK
<1>7. mode[m] \in PresenceSourceMode /\ room[m] \in BOOLEAN
  BY <1>2 DEF RatioInv, RatioTypeOK
<1>8. seen' \in [Rooms -> Nat] /\ seen'[m] = n /\ \A k \in Rooms \ {m} : seen'[k] = seen[k]
  BY <1>2, <1>3, <1>4 DEF RatioInv, RatioTypeOK
<1>9. SeenStands'
  <2> SUFFICES ASSUME NEW k \in Rooms
               PROVE  seen'[k] = 0 \/ \E x \in reports : x.room = k /\ x.stamp = seen'[k]
    BY <1>1 DEF SeenStands
  <2>1. seen[k] = 0 \/ \E x \in reports : x.room = k /\ x.stamp = seen[k]
    BY DEF RatioInv, SeenStands
  <2> HIDE DEF n, newest, m
  <2> QED BY <1>4, <1>8, <2>1
<1>10. \A s, t \in terms : s = t
  BY <1>5
<1> HIDE DEF m, newest, n, ids, terms, manual
<1>11. view' \in RatioStatusView
  BY <1>1, <1>2, <1>5, <1>6, <1>7 DEF RatioStatusView
<1>12. ViewStands' /\ VerdictSound'
  BY <1>1, <1>6, <1>8, <1>10 DEF ViewStands, VerdictSound
<1> QED BY <1>1, <1>8, <1>9, <1>11, <1>12, Looked

LEMMA ReadRosterKeeps ==
  ASSUME RatioInv, ReadRoster
  PROVE  RatioInv'
<1> DEFINE counted == CountedStaff(view.room, view.now)
<1>1. /\ view.step = "read"
      /\ view' = [step |-> "staffed", room |-> view.room, now |-> view.now, mode |-> view.mode,
                  active |-> view.active, policies |-> view.policies, manual |-> view.manual,
                  roster |-> counted]
      /\ UNCHANGED <<mode, policy, policyLock, editor, reports, stamps, seen>>
  BY DEF ReadRoster
<1>2. counted \subseteq Staff
  BY DEF CountedStaff
<1>3. /\ view.room \in Rooms /\ view.now \in Nat /\ view.mode \in PresenceSourceMode
      /\ view.active \in BOOLEAN /\ view.policies \subseteq PolicyTerms
      /\ view.manual \subseteq ClassroomPresenceSnapshot
  BY <1>1 DEF RatioInv, RatioTypeOK, RatioStatusView, Nothing
<1> HIDE DEF counted
<1>4. view' \in RatioStatusView /\ view'.step = "staffed"
  BY <1>1, <1>2, <1>3 DEF RatioStatusView
<1>5. seen' \in [Rooms -> Nat] /\ SeenStands'
  BY <1>1 DEF RatioInv, RatioTypeOK, SeenStands
<1>6. ViewStands'
  BY <1>1 DEF RatioInv, ViewStands, Judging
<1>7. VerdictSound'
  BY <1>4 DEF VerdictSound
<1> QED BY <1>1, <1>4, <1>5, <1>6, <1>7, Looked

\* The numbers of a slot: those of fresh reports where the mode takes them from reports.
LEMMA Slots ==
  ASSUME NEW v, v.mode \in PresenceSourceMode, v.manual \subseteq ClassroomPresenceSnapshot,
         v.roster \in SUBSET Staff, NEW present \in SUBSET Children
  PROVE  LET manual == {x \in v.manual : v.now < x.until} IN
         /\ ChildSlot(v, present) \in SUBSET Nat /\ StaffSlot(v) \in SUBSET Nat
         /\ ChildSlot(v, present) =
              (IF v.mode = "ATTENDANCE_CHILDREN_PLUS_ROSTER_STAFF" THEN {Cardinality(present)}
               ELSE {x.children : x \in manual}) \ {Absent}
         /\ StaffSlot(v) =
              (IF v.mode = "MANUAL_AGGREGATE" THEN {x.staff : x \in manual}
               ELSE {Cardinality(v.roster)}) \ {Absent}
<1> DEFINE manual == {x \in v.manual : v.now < x.until}
<1>1. Cardinality(present) \in Nat /\ Cardinality(v.roster) \in Nat
  <2>1. IsFiniteSet(present) /\ IsFiniteSet(v.roster)
    BY RatioConstants, FS_Subset
  <2> QED BY <2>1, FS_CardinalityType
<1>2. ManualSlot(v, "children") = {x.children : x \in manual} \ {Absent}
  BY DEF ManualSlot
<1>3. ManualSlot(v, "staff") = {x.staff : x \in manual} \ {Absent}
  BY DEF ManualSlot
<1>4. \A x \in manual : x.children \in Nat \cup {Absent} /\ x.staff \in Nat \cup {Absent}
  BY RatioConstants DEF ClassroomPresenceSnapshot
<1>5. Absent \notin Nat
  BY RatioConstants DEF Absent
<1> HIDE DEF manual
<1>6. /\ ChildSlot(v, present) \in SUBSET Nat
      /\ ChildSlot(v, present) =
              (IF v.mode = "ATTENDANCE_CHILDREN_PLUS_ROSTER_STAFF" THEN {Cardinality(present)}
               ELSE {x.children : x \in manual}) \ {Absent}
  <2>1. CASE v.mode = "ATTENDANCE_CHILDREN_PLUS_ROSTER_STAFF"
    BY <1>1, <1>5, <2>1 DEF ChildSlot, AttendanceChildModes
  <2>2. CASE v.mode # "ATTENDANCE_CHILDREN_PLUS_ROSTER_STAFF"
    BY <1>2, <1>4, <1>5, <2>2 DEF ChildSlot, AttendanceChildModes
  <2> QED BY <2>1, <2>2
<1>7. /\ StaffSlot(v) \in SUBSET Nat
      /\ StaffSlot(v) =
              (IF v.mode = "MANUAL_AGGREGATE" THEN {x.staff : x \in manual}
               ELSE {Cardinality(v.roster)}) \ {Absent}
  <2>1. CASE v.mode = "MANUAL_AGGREGATE"
    BY <1>3, <1>4, <1>5, <2>1 DEF StaffSlot, RosterStaffModes
  <2>2. CASE v.mode # "MANUAL_AGGREGATE"
    BY <1>1, <1>5, <2>2 DEF StaffSlot, RosterStaffModes, PresenceSourceMode
  <2> QED BY <2>1, <2>2
<1> QED BY <1>6, <1>7 DEF manual

LEMMA ReadAttendanceKeeps ==
  ASSUME RatioInv, ReadAttendance
  PROVE  RatioInv'
<1> DEFINE present == CountedChildren(view.room, view.now)
           children == ChildSlot(view, present)
           adults == StaffSlot(view)
           d == EvaluateRatio(view, children, adults)
<1>1. /\ view.step = "staffed"
      /\ view' = [step |-> "done", room |-> view.room, now |-> view.now, mode |-> view.mode,
                  active |-> view.active, policies |-> view.policies, manual |-> view.manual,
                  roster |-> view.roster, attendance |-> present, verdict |-> d]
      /\ UNCHANGED <<mode, policy, policyLock, editor, reports, stamps, seen>>
  BY DEF ReadAttendance
<1>2. present \in SUBSET Children
  BY DEF CountedChildren
<1>3. /\ view.room \in Rooms /\ view.now \in Nat /\ view.mode \in PresenceSourceMode
      /\ view.active \in BOOLEAN /\ view.policies \subseteq PolicyTerms
      /\ view.manual \subseteq ClassroomPresenceSnapshot /\ view.roster \in SUBSET Staff
  BY <1>1 DEF RatioInv, RatioTypeOK, RatioStatusView, Nothing
<1> DEFINE manual == {x \in view.manual : view.now < x.until}
           childNumbers == IF view.mode = "ATTENDANCE_CHILDREN_PLUS_ROSTER_STAFF"
                           THEN {Cardinality(present)} ELSE {x.children : x \in manual}
           staffNumbers == IF view.mode = "MANUAL_AGGREGATE" THEN {x.staff : x \in manual}
                           ELSE {Cardinality(view.roster)}
<1>4. /\ children \in SUBSET Nat /\ adults \in SUBSET Nat
      /\ children = childNumbers \ {Absent} /\ adults = staffNumbers \ {Absent}
  <2> HIDE DEF present
  <2> QED BY <1>2, <1>3, Slots
<1> HIDE DEF children, adults, d, present, manual, childNumbers, staffNumbers
<1>5. /\ d \in {"NOT_CONFIGURED", "INSUFFICIENT_DATA", "NO_CHILDREN_PRESENT",
                "OVER_CONFIGURED_RATIO", "OVER_CONFIGURED_GROUP_SIZE",
                "WITHIN_CONFIGURED_POLICY"}
      /\ d = "WITHIN_CONFIGURED_POLICY" =>
           \E n \in children \ {0}, k \in adults, t \in view.policies :
               n <= k * t.max /\ t.min <= k /\ (t.group = 0 \/ n <= t.group)
      /\ d = "OVER_CONFIGURED_RATIO" =>
           \E n \in children \ {0}, k \in adults, t \in view.policies : n > k * t.max \/ k < t.min
      /\ d = "OVER_CONFIGURED_GROUP_SIZE" =>
           \E n \in children, t \in view.policies : 0 < t.group /\ t.group < n
      /\ d = "NO_CHILDREN_PRESENT" => 0 \in children /\ adults # {}
      /\ d \in {"NOT_CONFIGURED", "INSUFFICIENT_DATA"} =>
           ~view.active \/ view.policies = {} \/ children = {} \/ adults = {}
  <2>1. d = EvaluateRatio(view, children, adults)
    BY DEF d
  <2> QED BY <1>3, <1>4, <2>1, Judged
<1>6. view' \in RatioStatusView
  BY <1>1, <1>2, <1>3, <1>5 DEF RatioStatusView
<1>7. seen' \in [Rooms -> Nat] /\ SeenStands' /\ ViewStands'
  BY <1>1 DEF RatioInv, RatioTypeOK, SeenStands, ViewStands, Judging
<1>8. VerdictSound'
  <2>1. \A x \in view.manual : x.stamp = seen[view.room]
    BY <1>1 DEF RatioInv, ViewStands, Judging
  <2>2. CASE d = "WITHIN_CONFIGURED_POLICY"
    <3>1. \E n \in childNumbers \ {Absent, 0}, k \in staffNumbers \ {Absent}, t \in view.policies :
             n <= k * t.max /\ t.min <= k /\ (t.group = 0 \/ n <= t.group)
      BY <1>4, <1>5, <2>2
    <3> QED BY <1>1, <2>1, <2>2, <3>1 DEF VerdictSound, childNumbers, staffNumbers, manual
  <2>3. CASE d = "OVER_CONFIGURED_RATIO"
    <3>1. \E n \in childNumbers \ {Absent, 0}, k \in staffNumbers \ {Absent}, t \in view.policies :
             n > k * t.max \/ k < t.min
      BY <1>4, <1>5, <2>3
    <3> QED BY <1>1, <2>1, <2>3, <3>1 DEF VerdictSound, childNumbers, staffNumbers, manual
  <2>4. CASE d = "OVER_CONFIGURED_GROUP_SIZE"
    <3>1. \E n \in childNumbers \ {Absent}, t \in view.policies : 0 < t.group /\ t.group < n
      BY <1>4, <1>5, <2>4
    <3> QED BY <1>1, <2>1, <2>4, <3>1 DEF VerdictSound, childNumbers, staffNumbers, manual
  <2>5. CASE d = "NO_CHILDREN_PRESENT"
    <3>1. 0 \in childNumbers /\ staffNumbers \ {Absent} # {}
      BY <1>4, <1>5, <2>5
    <3> QED BY <1>1, <2>1, <2>5, <3>1 DEF VerdictSound, childNumbers, staffNumbers, manual
  <2>6. CASE d \in {"NOT_CONFIGURED", "INSUFFICIENT_DATA"}
    <3>1. \/ ~view.active \/ view.policies = {}
          \/ childNumbers \subseteq {Absent} \/ staffNumbers \subseteq {Absent}
      BY <1>4, <1>5, <2>6
    <3> QED BY <1>1, <2>1, <2>6, <3>1 DEF VerdictSound, childNumbers, staffNumbers, manual
  <2> QED BY <1>5, <2>2, <2>3, <2>4, <2>5, <2>6
<1> QED BY <1>1, <1>6, <1>7, <1>8, Looked

LEMMA RatioStart == RatioInit => RatioInv
<1> SUFFICES ASSUME RatioInit PROVE RatioInv
  OBVIOUS
<1>1. RatioTypeOK
  BY DEF RatioInit, RatioTypeOK, PresenceSourceMode, RatioStatusView
<1>2. EditsSerialised
  BY DEF RatioInit, EditsSerialised, Editing, Idle
<1>3. Disjoint
  BY DEF RatioInit, Disjoint, NoPolicy
<1>4. SeenStands /\ ViewStands /\ VerdictSound
  BY DEF RatioInit, SeenStands, ViewStands, Judging, VerdictSound, Nothing
<1> QED BY <1>1, <1>2, <1>3, <1>4 DEF RatioInv

LEMMA RatioNext == ASSUME ChildrenInv, RatioInv, [Next]_vars PROVE RatioInv'
<1>1. clock \in Nat /\ room \in [Rooms -> BOOLEAN]
  BY NoneAsks DEF ChildrenInv, AttendanceTypeOK, Time
<1>2. CASE RatioStep
  <2>1. ASSUME NEW e \in Editors, PolicyStep(e) \/ RollbackEdit(e) PROVE RatioInv'
    BY <1>1, <2>1, BeginsKeep, DecidePolicyKeeps, CommitPolicyKeeps, RollbackEditKeeps DEF PolicyStep
  <2>2. CASE ReportStep
    BY <1>1, <2>2, BeginsKeep, ReportRowsKeep DEF ReportStep
  <2>3. CASE StatusStep
    BY <1>1, <2>3, BeginStatusKeeps, ReadClassroomKeeps, ReadRosterKeeps, ReadAttendanceKeeps
       DEF StatusStep
  <2> QED BY <1>2, <2>1, <2>2, <2>3 DEF RatioStep
<1>3. CASE UNCHANGED ratioVars
  BY <1>3, RatioStutter
<1> QED BY <1>2, <1>3 DEF Next, vars

LEMMA RatioKept == Spec => []RatioInv
<1>1. Init => RatioInv
  BY RatioStart DEF Init
<1>2. ChildrenInv /\ RatioInv /\ [Next]_vars => RatioInv'
  BY RatioNext
<1> QED BY <1>1, <1>2, ChildrenKept, PTL DEF Spec

\* classroom_service.py:519: two active policies of a room never apply at one instant, so that an
\* evaluation finds at most one, though no constraint of the database forbids two.
THEOREM PoliciesNeverMeet == Spec => []PoliciesDisjoint
<1>1. ASSUME RatioInv PROVE PoliciesDisjoint
  <2>1. view.step \in {"read", "staffed", "done"} => Cardinality(view.policies) <= 1
    <3>1. CASE view.policies = {}
      BY <3>1, FS_EmptySet
    <3>2. CASE view.policies # {} /\ Judging
      <4>1. PICK t \in view.policies : TRUE
        BY <3>2
      <4>2. view.policies = {t}
        BY <1>1, <3>2, <4>1 DEF RatioInv, ViewStands
      <4>3. Cardinality({t}) = 1
        BY FS_Singleton
      <4>4. Cardinality(view.policies) <= 1
        BY <4>2, <4>3
      <4> QED BY <4>4
    <3> QED BY <3>1, <3>2 DEF Judging
  <2>2. Disjoint
    BY <1>1 DEF RatioInv
  <2> QED BY <2>1, <2>2 DEF PoliciesDisjoint, Disjoint
<1> QED BY <1>1, RatioKept, PTL

\* evaluate_ratio and resolve_manual_presence: a verdict follows from numbers that were all there,
\* fresh and of the source the mode names; nothing older than what was seen is reconsidered.
THEOREM VerdictsSound == Spec => []VerdictSound
<1>1. RatioInv => VerdictSound
  BY DEF RatioInv
<1> QED BY <1>1, RatioKept, PTL

=============================================================================
