-------------------------- MODULE StaffEnrollment ---------------------------
(***************************************************************************)
(* The photos and face templates of adult staff (staff_service.py,         *)
(* staff_media.py), the package exported for the edge (staff_package.py)   *)
(* and the candidates of recognition (staff_recognition.py).  Rows change  *)
(* in transactions that lock the profile; the bytes of a photo are files   *)
(* beside the database, written before a commit and deleted after one.     *)
(***************************************************************************)
EXTENDS Naturals, FiniteSets

CONSTANTS Teachers,      \* staff_profiles.id
          Images,        \* staff_enrollment_images.id, each with the media key of its bytes
          Contents,      \* content_sha256
          Models,        \* identities of face backends: id, version and template version
          Calls,         \* requests that can be under way at once
          MinAccepted, MaxAccepted, MaxStaff

ASSUME StaffEnrollmentAssumption ==
    /\ MinAccepted \in Nat \ {0} /\ MaxAccepted \in Nat /\ MaxStaff \in Nat \ {0}
    /\ IsFiniteSet(Teachers) /\ IsFiniteSet(Images) /\ IsFiniteSet(Calls)   \* rows, and requests

VARIABLES
    profile,     \* status and enrollment_state
    image,       \* staff_enrollment_images
    template,    \* staff_face_templates, one for each image
    media,       \* images whose bytes are in the store
    backend,     \* the model the process runs
    call,        \* what each request is doing
    export,      \* the package builder, a process of its own
    unsure,      \* history: images whose commit was made although its answer was lost
    left         \* history: images a request that died had in its hands

enrollmentRows == <<profile, image, template>>
enrollmentVars == <<enrollmentRows, media, backend, call, export, unsure, left>>

NoProfile == [status |-> "none", state |-> "EMPTY"]
NoImage == [status |-> "none"]
NoTemplate == [status |-> "none"]
NoCall == [step |-> "idle"]
NoExport == [step |-> "idle", todo |-> {}, entries |-> {}, revoked |-> {}]

EnrollmentInit ==
    /\ profile = [p \in Teachers |-> NoProfile]
    /\ image = [i \in Images |-> NoImage] /\ template = [i \in Images |-> NoTemplate]
    /\ media = {} /\ backend \in Models
    /\ call = [c \in Calls |-> NoCall] /\ export = NoExport
    /\ unsure = {} /\ left = {}

-----------------------------------------------------------------------------
AcceptedOf(img, p) == {i \in Images : img[i].status = "ACCEPTED" /\ img[i].of = p}
Accepted(p) == AcceptedOf(image, p)
Known(p) == profile[p].status \in {"ACTIVE", "INACTIVE"}

\* No transaction of another request holds the profile (SELECT ... FOR UPDATE).
ProfileRead(p) == p \in Teachers   \* faulty variant: the profile is read without a lock
ProfileFree(p) == \A c \in Calls : call[c].step = "stored" => call[c].of # p

\* _recompute_state, from the rows as the transaction leaves them.
TemplatedByAny(tpl) ==   \* faulty variant: a template of any model will do
    {i \in Images : tpl[i].status = "ACTIVE"}
Templated(tpl) == {i \in Images : tpl[i].status = "ACTIVE" /\ tpl[i].model = backend}
State(img, tpl, p) ==
    LET accepted == AcceptedOf(img, p) IN
    IF accepted = {} THEN "EMPTY"
    ELSE IF ~(accepted \subseteq Templated(tpl)) THEN "FAILED"
    ELSE IF Cardinality(accepted) >= MinAccepted THEN "READY" ELSE "COLLECTING"

Steps(c, step) == call' = [call EXCEPT ![c].step = step]
Returns(c) == call' = [call EXCEPT ![c] = NoCall]

-----------------------------------------------------------------------------
(* add_image *)

\* The photo is validated and its template extracted before any row is looked at.
Analyze(c, p, x) ==
    /\ call[c] = NoCall
    /\ call' = [call EXCEPT ![c] = [step |-> "analyzed", of |-> p, content |-> x]]
    /\ UNCHANGED <<enrollmentRows, media, backend, export, unsure, left>>

Admissible(p, x) ==
    /\ profile[p].status = "ACTIVE"
    /\ Cardinality(Accepted(p)) < MaxAccepted
    /\ \A i \in Accepted(p) : image[i].content # x

\* Under the profile's lock the limits are checked and the bytes written.
StoreImage(c, i) ==
    /\ call[c].step = "analyzed" /\ ProfileFree(call[c].of) /\ Admissible(call[c].of, call[c].content)
    /\ image[i] = NoImage /\ i \notin media /\ \A b \in Calls : call[b].step = "stored" => call[b].image # i
    /\ media' = media \cup {i}
    /\ call' = [call EXCEPT ![c] = [step |-> "stored", of |-> call[c].of,
                                    content |-> call[c].content, image |-> i]]
    /\ UNCHANGED <<enrollmentRows, backend, export, unsure, left>>

RefuseImage(c) ==
    /\ call[c].step = "analyzed" /\ ProfileFree(call[c].of) /\ ~Admissible(call[c].of, call[c].content)
    /\ Returns(c)
    /\ UNCHANGED <<enrollmentRows, media, backend, export, unsure, left>>

InsertImage(i, p, x) ==
    LET img == [image EXCEPT ![i] = [status |-> "ACCEPTED", of |-> p, content |-> x]]
        tpl == [template EXCEPT ![i] = [status |-> "ACTIVE", model |-> backend]] IN
    /\ image' = img /\ template' = tpl
    /\ profile' = [profile EXCEPT ![p].state = State(img, tpl, p)]

\* The commit is answered, or made with its answer lost, or it fails: what raises deletes the bytes.
CommitImage(c) ==
    /\ call[c].step = "stored"
    /\ \/ InsertImage(call[c].image, call[c].of, call[c].content) /\ Returns(c) /\ UNCHANGED unsure
       \/ /\ InsertImage(call[c].image, call[c].of, call[c].content)
          /\ unsure' = unsure \cup {call[c].image}
          /\ call' = [call EXCEPT ![c] = [step |-> "erase", keys |-> {call[c].image}]]
       \/ /\ call' = [call EXCEPT ![c] = [step |-> "erase", keys |-> {call[c].image}]]
          /\ UNCHANGED <<enrollmentRows, unsure>>
    /\ UNCHANGED <<media, backend, export, left>>

-----------------------------------------------------------------------------
(* remove_image, delete_profile and the other changes of a profile *)

Withdrawn(S) ==
    /\ image' = [i \in Images |-> IF i \in S THEN [image[i] EXCEPT !.status = "DELETED"]
                                  ELSE image[i]]
    /\ template' = [i \in Images |-> IF i \in S THEN [template[i] EXCEPT !.status = "REVOKED"]
                                     ELSE template[i]]

\* The row first; its bytes once the transaction has been committed.
RemoveImage(c, i) ==
    /\ call[c] = NoCall /\ image[i].status = "ACCEPTED"
    /\ Known(image[i].of) /\ ProfileFree(image[i].of)
    /\ Withdrawn({i})
    /\ profile' = [profile EXCEPT ![image[i].of].state = State(image', template', image[i].of)]
    /\ call' = [call EXCEPT ![c] = [step |-> "erase", keys |-> {i}]]
    /\ UNCHANGED <<media, backend, export, unsure, left>>

DeleteProfile(c, p) ==
    /\ call[c] = NoCall /\ Known(p) /\ ProfileFree(p)
    /\ Withdrawn(Accepted(p))
    /\ profile' = [profile EXCEPT ![p] = [status |-> "DELETED", state |-> "EMPTY"]]
    /\ call' = [call EXCEPT ![c] = [step |-> "erase", keys |-> Accepted(p)]]
    /\ UNCHANGED <<media, backend, export, unsure, left>>

Erase(c) ==
    /\ call[c].step = "erase"
    /\ \/ call[c].keys = {} /\ Returns(c) /\ UNCHANGED media
       \/ \E i \in call[c].keys : /\ media' = media \ {i}
                                  /\ call' = [call EXCEPT ![c].keys = call[c].keys \ {i}]
    /\ UNCHANGED <<enrollmentRows, backend, export, unsure, left>>

SetActive(p, active) ==
    /\ Known(p) /\ ProfileFree(p)
    /\ profile' = [profile EXCEPT ![p] = [status |-> IF active THEN "ACTIVE" ELSE "INACTIVE",
                                          state |-> State(image, template, p)]]
    /\ UNCHANGED <<image, template, media, backend, call, export, unsure, left>>

\* create_profile counts the tenant's profiles, then inserts; nothing is locked.
Enrolled == {p \in Teachers : Known(p)}
CountProfiles(c) ==
    /\ call[c] = NoCall /\ Cardinality(Enrolled) < MaxStaff
    /\ call' = [call EXCEPT ![c] = [step |-> "counted"]]
    /\ UNCHANGED <<enrollmentRows, media, backend, export, unsure, left>>
InsertProfile(c, p) ==
    /\ call[c].step = "counted" /\ profile[p] = NoProfile
    /\ profile' = [profile EXCEPT ![p] = [status |-> "ACTIVE", state |-> "EMPTY"]]
    /\ Returns(c)
    /\ UNCHANGED <<image, template, media, backend, export, unsure, left>>

\* A request dies where it is; or the whole process, to come back with the configured model.
InHand(c) == IF call[c].step = "stored" THEN {call[c].image}
             ELSE IF call[c].step = "erase" THEN call[c].keys ELSE {}
DieCall(c) ==
    /\ call[c] # NoCall /\ Returns(c) /\ left' = left \cup InHand(c)
    /\ UNCHANGED <<enrollmentRows, media, backend, export, unsure>>
Restart(m) ==
    /\ backend' = m /\ call' = [c \in Calls |-> NoCall]
    /\ left' = left \cup UNION {InHand(c) : c \in Calls}
    /\ UNCHANGED <<enrollmentRows, media, export, unsure>>

-----------------------------------------------------------------------------
(* build_recognition_package: one query for the profiles, then one for each of them *)

Recognisable == {p \in Teachers : profile[p] = [status |-> "ACTIVE", state |-> "READY"]}

StartExport(m) ==
    /\ export.step = "idle" /\ Cardinality(Recognisable) <= MaxStaff
    /\ export' = [step |-> "reading", model |-> m, todo |-> Recognisable, entries |-> {},
                  revoked |-> {i \in Images : template[i].status = "REVOKED"}]
    /\ UNCHANGED <<enrollmentRows, media, backend, call, unsure, left>>
ExportTemplates(p) ==
    /\ p \in export.todo
    /\ LET found == {i \in Images : /\ template[i].status = "ACTIVE" /\ image[i].of = p
                                    /\ template[i].model = export.model} IN
       export' = [export EXCEPT !.todo = export.todo \ {p}, !.entries = export.entries \cup found]
    /\ UNCHANGED <<enrollmentRows, media, backend, call, unsure, left>>
\* The file is written whole, or removed again.
WritePackage ==
    /\ export.step = "reading" /\ export.todo = {} /\ export' = NoExport
    /\ UNCHANGED <<enrollmentRows, media, backend, call, unsure, left>>

\* StaffRecognitionService._candidates: one query.
Candidates ==
    {p \in Recognisable : \E i \in Images :
        template[i].status = "ACTIVE" /\ template[i].model = backend /\ image[i].of = p}

AddImage(c) ==
    \/ \E p \in Teachers, x \in Contents : Known(p) /\ Analyze(c, p, x)
    \/ \E i \in Images : StoreImage(c, i)
    \/ RefuseImage(c) \/ CommitImage(c)

ExportStep ==
    \/ \E m \in Models : StartExport(m)
    \/ \E p \in Teachers : ExportTemplates(p)
    \/ WritePackage

\* The routes of staff_api.py, the process and the export.
EnrollmentStep ==
    \/ \E c \in Calls : \/ AddImage(c) \/ Erase(c) \/ CountProfiles(c) \/ DieCall(c)
                        \/ \E i \in Images : RemoveImage(c, i)
                        \/ \E p \in Teachers : DeleteProfile(c, p) \/ InsertProfile(c, p)
    \/ \E p \in Teachers, active \in BOOLEAN : SetActive(p, active)
    \/ \E m \in Models : Restart(m)
    \/ ExportStep

EnrollmentSpec == EnrollmentInit /\ [][EnrollmentStep]_enrollmentVars

-----------------------------------------------------------------------------
(* Properties *)

EnrollmentTypeOK ==
    /\ profile \in [Teachers -> [status : {"none", "ACTIVE", "INACTIVE", "DELETED"},
                                 state : {"EMPTY", "COLLECTING", "READY", "FAILED"}]]
    /\ media \subseteq Images /\ backend \in Models
    /\ \A i \in Images : image[i].status \in {"none", "ACCEPTED", "DELETED"}

\* staff_service.py:7-11.  Whatever model the process has come to run, READY stands for enough
\* photos that all have a template of one model, and whoever recognition compares with has one of
\* the running model for each photo.
ReadySound ==
    /\ \A p \in Teachers : profile[p].state = "READY" =>
          /\ Cardinality(Accepted(p)) >= MinAccepted
          /\ \E m \in Models : \A i \in Accepted(p) : template[i] = [status |-> "ACTIVE", model |-> m]
    /\ \A p \in Candidates : \A i \in Accepted(p) : template[i].model = backend

\* staff_service.py:15-17.  A deleted person has no photo and no template left; a template is in
\* use exactly as long as its photo.
ErasedWithProfile ==
    \A i \in Images :
        /\ image[i].status = "ACCEPTED" <=> template[i].status = "ACTIVE"
        /\ image[i].status = "ACCEPTED" => Known(image[i].of)

\* The limit of photos, and no photo twice, for any number of uploads at once.
PhotosLimited ==
    \A p \in Teachers :
        /\ Cardinality(Accepted(p)) <= MaxAccepted
        /\ \A i, k \in Accepted(p) : image[i].content = image[k].content => i = k

\* staff_service.py:388-389.  An accepted photo has its bytes, unless the answer to its commit was
\* lost; bytes no row names are in the hands of a request, or were left behind by one that died.
BytesKept ==
    \A i \in Images :
        /\ image[i].status = "ACCEPTED" => i \in media \cup unsure
        /\ i \in media => image[i].status = "ACCEPTED" \/ i \in left \cup UNION {InHand(c) : c \in Calls}

\* staff_package.py:9-12.  No template revoked before the export began is in the package.
PackageSound == export.entries \cap export.revoked = {}

\* MAX_STAFF_PER_TENANT is exceeded at most by the creations that overlap.
RosterLimited == Cardinality(Enrolled) < MaxStaff + Cardinality(Calls)

EnrollmentInv ==
    /\ EnrollmentTypeOK /\ ReadySound /\ ErasedWithProfile /\ PhotosLimited /\ BytesKept
    /\ PackageSound /\ RosterLimited
=============================================================================
