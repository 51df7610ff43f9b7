-------------------------- MODULE GuardianRelease ---------------------------
(***************************************************************************)
(* Who may take a child home: contacts, their links to children with a     *)
(* pickup flag and a period, and the release that checks a child out on    *)
(* the strength of one link.  Composed with ChildAttendance, whose lock,   *)
(* events and requests it shares.                                          *)
(*                                                                         *)
(* A release re-reads child, contact and links FOR SHARE after the lock    *)
(* and holds them to its commit; changes of these rows are made FOR UPDATE *)
(* and wait.  Who may call is checked before any of this.                  *)
(***************************************************************************)
EXTENDS ChildAttendance

CONSTANTS Contacts, Links,
          Terms,         \* pickup flag and period an operator may give a link
          MaxActiveLinks,\* MAX_ACTIVE_LINKS_PER_CHILD
          MaxRevision    \* bound: revisions of one link

\* validate_period: half-open, and until (0 is NULL) later than from.
ASSUME GuardianReleaseAssumption ==
    /\ Terms \subseteq [pickup : BOOLEAN, from : Nat, until : Nat]
    /\ \A t \in Terms : t.until = 0 \/ t.until > t.from
    /\ MaxActiveLinks \in Nat /\ MaxRevision \in Nat

VARIABLES
    contact,   \* guardian_contacts.status, "none" before the row exists
    link,      \* child_guardian_links
    audit,     \* history: audit rows of a link, [before, after], oldest first
    release    \* child_release_events

guardianVars == <<contact, link, audit, release>>

GuardianContact == [Contacts -> Status \cup {"none"}]
NoLink == [status |-> "none"]
ChildGuardianLink == [status : {"ACTIVE", "INACTIVE"}, child : Children, contact : Contacts,
                      terms : Terms, revision : Nat]
ChildReleaseEvent == [child : Children, room : Rooms, contact : Contacts, link : Links,
                      revision : Nat, event : Nat, at : Nat]
Audit == [before : ChildGuardianLink \cup {NoLink}, after : ChildGuardianLink]

PairLinks(c, g) == {l \in Links : link[l] # NoLink /\ link[l].child = c /\ link[l].contact = g}
ActiveLinks(c, g) == {l \in PairLinks(c, g) : link[l].status = "ACTIVE"}
ActiveOfChild(c) == UNION {ActiveLinks(c, g) : g \in Contacts}

\* link_decision: the flag, then the half-open period.
AuthorisesToTheEnd(t, now) ==   \* faulty variant: the end of the period belongs to it
    t.pickup /\ t.from <= now /\ (t.until = 0 \/ now <= t.until)
Authorises(t, now) == t.pickup /\ t.from <= now /\ (t.until = 0 \/ now < t.until)

\* decide_pickup: the one ACTIVE link of the pair that authorises pickup now; empty is a refusal.
DecidePickup(c, g, now) ==
    {l \in ActiveLinks(c, g) : /\ FacilityOf[c] = FacilityOf[g]
                               /\ child[c] = "ACTIVE" /\ contact[g] = "ACTIVE"
                               /\ ActiveLinks(c, g) = {l}
                               /\ Authorises(link[l].terms, now)}

\* release_options: what the operator's screen offers; release_child decides anew.
ReleaseOptions(m, now) ==
    {x \in CountedChildren(m, now) \X Contacts : DecidePickup(x[1], x[2], now) # {}}

----------------------------------------------------------------------------
(* The rows a decided release holds FOR SHARE. *)

Releasing(r) == request[r].op = "release" /\ Decided(r)
ChildHeld(c) == \E r \in Requests : Releasing(r) /\ request[r].child = c
ContactHeld(g) == \E r \in Requests : Releasing(r) /\ request[r].contact = g
NeverHeld(l) == FALSE   \* faulty variant: the links are read without FOR SHARE
LinkHeld(l) == \E r \in Requests : /\ Releasing(r)
                                   /\ request[r].child = link[l].child
                                   /\ request[r].contact = link[l].contact

ReleaseRequest ==
    [op : {"release"}, step : {"read"}, child : Children, room : Rooms, contact : Contacts]
    \cup
    [op : {"release"}, step : {"decided"}, child : Children, room : Rooms, contact : Contacts,
     link : Links, revision : Nat, last : 1..MaxEvents, plan : Seq(ChildAttendanceEvent)]
LinkRequest ==
    [op : {"create_link"}, step : {"read"}, child : Children, contact : Contacts]
    \cup [op : {"update_link"}, step : {"read"}, link : Links, status : Status]
    \cup [op : {"deactivate_link"}, step : {"read"}, link : Links]

Begin(r, q) == request[r] = Idle /\ request' = [request EXCEPT ![r] = q]
Finish(r) == request' = [request EXCEPT ![r] = Idle]

BeginRelease(r, c, m, g) ==
    /\ child[c] # "none" /\ contact[g] # "none" /\ FacilityOf[c] = FacilityOf[m]
    /\ Begin(r, [op |-> "release", step |-> "read", child |-> c, room |-> m, contact |-> g])
    /\ UNCHANGED <<clock, room, child, events, lock, guardianVars>>

\* Neither the classroom's nor the facility's status stops a release.
DecideRelease(r) ==
    /\ Serves(r, "release", "read")
    /\ LET q == request[r]
           es == events[q.child] IN
       /\ Available(q.child)
       /\ Present(es, clock, q.room) /\ Len(es) < MaxEvents
       /\ \E l \in DecidePickup(q.child, q.contact, clock), plan \in PlanCheckOut(es, q.room, clock) :
             request' = [request EXCEPT ![r] =
                 [op |-> "release", step |-> "decided", child |-> q.child, room |-> q.room,
                  contact |-> q.contact, link |-> l, revision |-> link[l].revision,
                  last |-> Len(es), plan |-> plan]]
       /\ lock' = [lock EXCEPT ![q.child] = r]
    /\ UNCHANGED <<clock, room, child, events, guardianVars>>

\* Check-out and release row in one transaction; a taken sequence writes neither.
CommitRelease(r) ==
    /\ Releasing(r)
    /\ LET q == request[r] IN
       /\ events' = Appended(q)
       /\ lock' = [lock EXCEPT ![q.child] = None]
       /\ release' = IF events' = events THEN release
                     ELSE release \cup
                          {[child |-> q.child, room |-> q.plan[1].room, contact |-> q.contact,
                            link |-> q.link, revision |-> q.revision, event |-> q.last + 1,
                            at |-> q.plan[1].at]}
    /\ Finish(r)
    /\ UNCHANGED <<clock, room, child, contact, link, audit>>

----------------------------------------------------------------------------
CreateGuardian(g) ==
    /\ contact[g] = "none"
    /\ contact' = [contact EXCEPT ![g] = "ACTIVE"]
    /\ UNCHANGED <<attendanceVars, link, audit, release>>

SetGuardianStatus(g, s) ==
    /\ contact[g] # "none" /\ StatusTransition(contact[g], s) /\ ~ContactHeld(g)
    /\ contact' = [contact EXCEPT ![g] = s]
    /\ UNCHANGED <<attendanceVars, link, audit, release>>

\* child.archived and guardian.archived are looked at before the lock only.
BeginCreateLink(r, c, g) ==
    /\ FacilityOf[c] = FacilityOf[g]
    /\ child[c] \in Status \ {"ARCHIVED"} /\ contact[g] \in Status \ {"ARCHIVED"}
    /\ Begin(r, [op |-> "create_link", step |-> "read", child |-> c, contact |-> g])
    /\ UNCHANGED <<clock, room, child, events, lock, guardianVars>>

Write(l, row) ==
    /\ link' = [link EXCEPT ![l] = row]
    /\ audit' = [audit EXCEPT ![l] = Append(@, [before |-> link[l], after |-> row])]

\* Under the pair's lock, with the partial unique index behind it; at most MaxActiveLinks a child.
CommitCreateLink(r, l, t) ==
    /\ Serves(r, "create_link", "read")
    /\ link[l] = NoLink
    /\ LET q == request[r] IN
       /\ ActiveLinks(q.child, q.contact) = {}
       /\ \E n \in 0..MaxActiveLinks - 1 : \E f \in [ActiveOfChild(q.child) -> 1..n] :
             \A x, y \in ActiveOfChild(q.child) : f[x] = f[y] => x = y
       /\ Write(l, [status |-> "ACTIVE", child |-> q.child, contact |-> q.contact,
                    terms |-> t, revision |-> 1])
    /\ Finish(r)
    /\ UNCHANGED <<clock, room, child, events, lock, contact, release>>

BeginUpdateLink(r, l) ==
    /\ link[l] # NoLink
    /\ Begin(r, [op |-> "update_link", step |-> "read", link |-> l,
                 status |-> child[link[l].child]])
    /\ UNCHANGED <<clock, room, child, events, lock, guardianVars>>

UpdateEvenInactive(r, t) ==   \* faulty variant: the row is not looked at again after the lock
    /\ Serves(r, "update_link", "read")
    /\ LET l == request[r].link IN
       /\ ~LinkHeld(l) /\ link[l].revision < MaxRevision
       /\ Write(l, [link[l] EXCEPT !.status = "ACTIVE", !.terms = t, !.revision = @ + 1])
    /\ Finish(r)
    /\ UNCHANGED <<clock, room, child, events, lock, contact, release>>

\* The row is read again after lock and FOR UPDATE; the child's status is the one read before.
CommitUpdateLink(r, t) ==
    /\ Serves(r, "update_link", "read")
    /\ LET q == request[r]
           row == link[q.link] IN
       /\ ~LinkHeld(q.link)
       /\ row.status = "ACTIVE" /\ q.status # "ARCHIVED" /\ contact[row.contact] # "ARCHIVED"
       /\ row.revision < MaxRevision
       /\ Write(q.link, [row EXCEPT !.terms = t, !.revision = @ + 1])
    /\ Finish(r)
    /\ UNCHANGED <<clock, room, child, events, lock, contact, release>>

BeginDeactivateLink(r, l) ==
    /\ link[l] # NoLink
    /\ Begin(r, [op |-> "deactivate_link", step |-> "read", link |-> l])
    /\ UNCHANGED <<clock, room, child, events, lock, guardianVars>>

CommitDeactivateLink(r) ==
    /\ Serves(r, "deactivate_link", "read")
    /\ LET l == request[r].link IN
       /\ ~LinkHeld(l)
       /\ link[l].status = "ACTIVE"
       /\ Write(l, [link[l] EXCEPT !.status = "INACTIVE", !.revision = @ + 1])
    /\ Finish(r)
    /\ UNCHANGED <<clock, room, child, events, lock, contact, release>>

----------------------------------------------------------------------------
GuardianInit ==
    /\ contact = [g \in Contacts |-> "none"]
    /\ link = [l \in Links |-> NoLink]
    /\ audit = [l \in Links |-> <<>>]
    /\ release = {}

\* The routes of guardian_api.py: handing a child over, links, contacts.
ReleaseStep(r) ==
    \/ \E c \in Children, m \in Rooms, g \in Contacts : BeginRelease(r, c, m, g)
    \/ DecideRelease(r)
    \/ CommitRelease(r)

LinkStep(r) ==
    \/ \E c \in Children, g \in Contacts : BeginCreateLink(r, c, g)
    \/ \E l \in Links, t \in Terms : CommitCreateLink(r, l, t)
    \/ \E l \in Links : BeginUpdateLink(r, l) \/ BeginDeactivateLink(r, l)
    \/ \E t \in Terms : CommitUpdateLink(r, t)
    \/ CommitDeactivateLink(r)

GuardianStep ==
    \/ \E g \in Contacts : CreateGuardian(g) \/ \E s \in Status : SetGuardianStatus(g, s)
    \/ \E r \in Requests : ReleaseStep(r) \/ LinkStep(r)

----------------------------------------------------------------------------
GuardianTypeOK ==
    /\ request \in [Requests -> {Idle} \cup AttendanceRequest \cup ReleaseRequest \cup LinkRequest]
    /\ contact \in GuardianContact
    /\ link \in [Links -> ChildGuardianLink \cup {NoLink}]
    /\ audit \in [Links -> Seq(Audit)]
    /\ release \subseteq ChildReleaseEvent

\* guardian_service.py update_link, deactivate_link: whatever requests overlap, the audit rows of a
\* link are an unbroken chain from its creation to the row as it stands, one revision after another,
\* and nothing follows a deactivation.
AuditExplains ==
    \A l \in Links :
        LET rows == audit[l]
            n == Len(rows) IN
        /\ link[l] = IF n = 0 THEN NoLink ELSE rows[n].after
        /\ \A i \in 1..n :
              /\ rows[i].after.revision = i
              /\ rows[i].before = IF i = 1 THEN NoLink ELSE rows[i - 1].after
              /\ i < n => rows[i].after.status = "ACTIVE"

\* guardian_service.py:952 release_child: every release names a check-out of that child, made out of
\* a stay that had not lapsed, and a revision of a link of that child and that adult which, as the
\* audit has it, allowed pickup at the moment of the check-out.
ReleasedByRight ==
    \A x \in release :
        /\ x.event \in 2..Len(events[x.child])
        /\ LET leave == events[x.child][x.event]
               stay == events[x.child][x.event - 1] IN
           /\ leave.type = "CHECKED_OUT" /\ leave.room = x.room /\ leave.at = x.at
           /\ Opens(stay) /\ x.at < stay.until
        /\ x.revision \in 1..Len(audit[x.link])
        /\ LET row == audit[x.link][x.revision].after IN
           /\ row.child = x.child /\ row.contact = x.contact /\ row.status = "ACTIVE"
           /\ row.terms.pickup /\ row.terms.from <= x.at
           /\ row.terms.until # 0 => x.at < row.terms.until

\* child_release_events.attendance_event_id is unique: no check-out is handed to two adults.
HandedOverOnce ==
    \A x, y \in release : x.child = y.child /\ x.event = y.event => x = y

\* uq_child_guardian_links_active: at most one ACTIVE link of a child and a contact, however many
\* creators are under way.
OneActiveLink ==
    \A c \in Children, g \in Contacts : \A k, l \in ActiveLinks(c, g) : k = l

\* guardian_service.py:990, "re-read after the lock, and held FOR SHARE": at the moment a release
\* is committed child, contact and link are still active, and the link still at the revision the
\* release cites, whatever was changed since the operator looked.
ReleaseUpToDate ==
    [][\A x \in release' \ release :
          /\ child[x.child] = "ACTIVE" /\ contact[x.contact] = "ACTIVE"
          /\ link[x.link].status = "ACTIVE" /\ link[x.link].revision = x.revision]_<<attendanceVars, guardianVars>>

=============================================================================
