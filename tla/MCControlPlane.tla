--------------------------- MODULE MCControlPlane ---------------------------
(***************************************************************************)
(* The control plane beside Ring and the edge: a small day of care, the    *)
(* enrolment of teachers, and who may come in (people, edge nodes, the     *)
(* database role).  Everything at once is out of reach, so the run         *)
(* explores parts, one after the other (focus): in each, one or two        *)
(* components act and two of their requests interleave freely.  Only the   *)
(* parts of the day share state.                                           *)
(***************************************************************************)
EXTENDS CareDay, StaffEnrollment, Access, TLC

CONSTANTS c1, r1, r2, r3, q1, q2, g1, l1, l2, p1, d1, d2, home, other, po1, po2, m1, m2,
          k1, k2, a1, a2, t1, t2, f1, f2

MCChildren == {c1}
MCRooms == {r1, r2, r3}
MCRequests == {q1, q2}
MCContacts == {g1}
MCLinks == {l1, l2}
MCStaff == {p1}
MCDesignations == {d1, d2}
MCFacilities == {home, other}
MCFacilityOf == r1 :> home @@ r2 :> home @@ r3 :> other @@ c1 :> home @@ g1 :> home
MCPolicies == {po1, po2}
MCLeases == {1}
MCTerms == {[pickup |-> TRUE, from |-> 0, until |-> 1], [pickup |-> FALSE, from |-> 0, until |-> 0]}
MCStaffTerms == {[counts |-> TRUE, from |-> 0, until |-> 0], [counts |-> FALSE, from |-> 0, until |-> 1]}
MCPolicyTerms == {[from |-> 0, until |-> 1, max |-> 2, min |-> 1, group |-> 0],
                  [from |-> 0, until |-> 0, max |-> 2, min |-> 1, group |-> 2]}
MCCounts == {3}

MCClassified == t1 :> {"SELECT"}

VARIABLE focus

\* Limits of the parts: which rooms open, close and are used, and how often rows change.
OnlyR1(es) == \A i \in 1..Len(es) : es[i].room = r1
Focus ==
    /\ room[r2] /\ room[r3]
    /\ focus \in {"door", "office", "work", "reports"} => room[r1]
    /\ focus = "attendance" => /\ (child[c1] # "INACTIVE" \/ room[r1])
                              /\ (Len(events[c1]) > 2 => \E r \in Requests : request[r] = Idle)
    /\ focus = "door" => /\ \A l \in Links : Len(audit[l]) < 2
                        /\ contact[g1] = "ACTIVE" /\ child[c1] # "INACTIVE" /\ OnlyR1(events[c1])
    /\ focus = "office" => Len(audit[l1]) + Len(audit[l2]) <= 3 /\ child[c1] # "INACTIVE"
    /\ focus = "work" => /\ staff[p1] # "INACTIVE"
                        /\ (Len(staffEvents[p1]) > 2 => \E r \in Shifts : shift[r] = Idle)
                        /\ \/ designation[d2] = NoDesignation
                           \/ designation[d1].status = "INACTIVE"
                           \/ designation[d2].facility = other
                        /\ (designation[d2] # NoDesignation =>
                              designation[d2].terms.counts /\ Len(staffEvents[p1]) < 3)
    /\ focus = "policies" => (\A e \in Editors : editor[e] = Idle \/ editor[e].room = r1)
    /\ focus = "reports" => /\ \A e \in Editors : (editor[e].op = "submit" => editor[e].row.room = r1)
                           /\ policy[po1].terms.until = 0 /\ designation[d1].terms.counts
                           /\ mode[r2] = mode[r3] /\ mode[r2] = "MANUAL_AGGREGATE"
                           /\ (view.step = "none" \/ view.room = r1)
                           /\ child[c1] # "INACTIVE"
                           /\ (view.step = "none" \/ \E e \in Editors : editor[e] = Idle)
    /\ Cardinality(left) + Cardinality(unsure) <= 1
    /\ \A c \in Calls : call[c].step = "analyzed" => call[c].of = 1
    /\ focus = "photos" => /\ \A p \in Teachers : profile[p].status # "INACTIVE"
                           /\ (profile[2] = NoProfile \/ \A i \in Images : image[i] = NoImage /\ i \notin media)
    /\ focus = "package" => /\ profile[2] = NoProfile
                            /\ Cardinality({c \in Calls : call[c] # NoCall}) <= 1
                            /\ left = {} /\ unsure = {}
    /\ focus = "people" => Cardinality({r \in Requesters : asked[r] # NoRequest}) <= 1

\* The first part starts in an empty database; the others after the child has been checked in to r1
\* and has a contact, a designated teacher has been checked in too, and a policy has been set.
Morning == CheckedIn(r1, 0, 1)
MCInit ==
    /\ focus \in {"attendance", "door", "office", "work", "policies", "reports", "photos", "package",
                 "keys", "people", "nodes", "role"}
    /\ EnrollmentInit /\ backend = m1
    /\ AccessInit /\ provider.served = {k1}
    /\ IF focus \notin {"door", "office", "work", "policies", "reports"} THEN Init
       ELSE /\ clock = 0 /\ room = [m \in Rooms |-> TRUE]
            /\ child = [c \in Children |-> "ACTIVE"]
            /\ events = [c \in Children |-> <<Morning>>]
            /\ lock = [c \in Children |-> None]
            /\ request = [r \in Requests |-> Idle]
            /\ contact = [g \in Contacts |-> IF focus = "office" THEN "none" ELSE "ACTIVE"]
            /\ link = [l \in Links |-> NoLink] /\ audit = [l \in Links |-> <<>>]
            /\ release = {}
            /\ staff = [p \in Staff |-> "ACTIVE"]
            /\ staffEvents = [p \in Staff |-> <<Morning>>]
            /\ staffLock = [p \in Staff |-> None]
            /\ shift = [r \in Shifts |-> Idle]
            /\ \E t \in {x \in StaffTerms : focus = "work" \/ x.counts} :
                  designation = [d \in Designations |->
                      IF d = d1 THEN [status |-> "ACTIVE", staff |-> p1, facility |-> home,
                                      terms |-> t]
                      ELSE NoDesignation]
            /\ mode = [m \in Rooms |-> "MANUAL_AGGREGATE"]
            /\ \E t \in {x \in PolicyTerms : focus = "policies" \/ x.until = 0} : policy = [i \in Policies |->
                   IF i = po1 THEN [status |-> "ACTIVE", room |-> r1, terms |-> t] ELSE NoPolicy]
            /\ policyLock = [m \in Rooms |-> None] /\ editor = [e \in Editors |-> Idle]
            /\ reports = {} /\ stamps = 0 /\ view = Nothing /\ seen = [m \in Rooms |-> 0]
    /\ Focus

DayOnly == DayStep /\ UNCHANGED <<guardianVars, staffVars, ratioVars>>

MCNext ==
    /\ \/ /\ focus \in {"attendance", "door"} /\ (ChildStep \/ DayStep)
          /\ UNCHANGED <<guardianVars, staffVars, ratioVars>>
       \/ /\ focus \in {"door", "office"} /\ GuardianStep
          /\ UNCHANGED <<staffVars, ratioVars>>
       \/ /\ focus = "office" /\ \E c \in Children, s \in Status : SetChildStatus(c, s, ChildHeld(c))
          /\ UNCHANGED <<guardianVars, staffVars, ratioVars>>
       \/ focus \in {"work", "office", "policies", "reports"} /\ DayOnly
       \/ /\ focus = "work" /\ StaffStep
          /\ UNCHANGED <<attendanceVars, guardianVars, ratioVars>>
       \/ /\ focus = "policies" /\ \E e \in Editors : PolicyStep(e) \/ RollbackEdit(e)
          /\ UNCHANGED <<attendanceVars, guardianVars, staffVars>>
       \/ /\ focus = "reports" /\ (ReportStep \/ StatusStep)
          /\ UNCHANGED <<attendanceVars, guardianVars, staffVars>>
       \/ /\ focus = "reports" /\ \E c \in Children, s \in Status : SetChildStatus(c, s, FALSE)
          /\ UNCHANGED <<guardianVars, staffVars, ratioVars>>
    /\ UNCHANGED <<enrollmentVars, accessVars, focus>>

\* Enrolment: in "photos" two requests, in "package" one and the export of a package; the model
\* changes once, and the identifiers of photos are taken in their order.
Enrolling ==
    /\ focus \in {"photos", "package"} /\ EnrollmentStep /\ backend' \in {backend, m2}
    /\ focus = "photos" => export' = export
    /\ \A i \in media' \ media : \A k \in 1..(i - 1) : k \in media \/ image[k] # NoImage
    /\ UNCHANGED <<vars, accessVars, focus>>

\* Access: "keys" is about tokens and the cache of keys, "people" about who has them; the tools for
\* edge nodes and for the database role share nothing with either.
Ask1 == \E r \in Requesters, k \in Kids, o \in Organizations, s \in Subjects : Ask(r, k, o, s)
Letting ==
    /\ \/ focus = "keys" /\ (KeyStep \/ Ask1) /\ UNCHANGED <<credentialVars, roleVars>>
       \/ focus = "people" /\ IdentityStep /\ tick' = tick /\ provider' = provider
          /\ UNCHANGED <<credentialVars, roleVars>>
       \/ focus = "nodes" /\ CredentialStep /\ UNCHANGED <<identityVars, roleVars>>
       \/ focus = "role" /\ RoleStep /\ UNCHANGED <<identityVars, credentialVars>>
    /\ UNCHANGED <<vars, enrollmentVars, focus>>

MCSpec ==
    MCInit /\ [][(MCNext \/ Enrolling \/ Letting) /\ Focus']_<<vars, enrollmentVars, accessVars, focus>>

Symmetry == Permutations(MCRequests) \cup Permutations(MCLinks)
=============================================================================
