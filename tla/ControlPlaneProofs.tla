------------------------- MODULE ControlPlaneProofs --------------------------
(***************************************************************************)
(* Proofs about Access and StaffEnrollment, for any number of credentials, *)
(* requests, objects of the database, people and photos: who comes in is   *)
(* who was let in, and what is kept of a person goes with the person.      *)
(***************************************************************************)
EXTENDS Access, StaffEnrollment, WellFoundedInduction, NaturalsInduction, FiniteSetTheorems, TLAPS

-----------------------------------------------------------------------------
(* The invariants: edge credentials *)

IssueRun ==
    [at : {"new", "checked", "refused", "created", "written", "issued", "failed", "unsure", "killed"},
     path : Paths \cup {Nobody}, of : Nodes \cup {Nobody}]
CredentialTypes ==
    /\ node \in [Nodes -> {"ONLINE", "DISABLED"}]
    /\ credential \in [Credentials -> [status : {"none", "ACTIVE", "REVOKED"}, of : Nodes \cup {Nobody}]]
    /\ file \in [Paths -> Credentials \cup {Nobody}]
    /\ issue \in [Credentials -> IssueRun]
    /\ \A c \in Credentials : ~AtStep(c, "new") => issue[c].path \in Paths /\ issue[c].of \in Nodes
    /\ trail \in [Credentials -> [issued : Nat, revoked : Nat]]
    /\ guest \in [Credentials -> Nodes \cup {Nobody}]

\* A file belongs to the run that names its path, a stored credential to the node of its run.
FilesOwned == \A p \in Paths : file[p] # Nobody => issue[file[p]].path = p
IssuedFor == \A c \in Credentials : credential[c].status # "none" => credential[c].of = issue[c].of

CredentialsInv == CredentialTypes /\ FilesOwned /\ IssuedFor /\ CredentialInv

-----------------------------------------------------------------------------
(* The invariants: the role of the database *)

Catalog ==
    [exists : BOOLEAN, credential : BOOLEAN, restricted : BOOLEAN,
     beyond : SUBSET {"member", "owner"}, create : BOOLEAN,
     tables : SUBSET Tables, functions : SUBSET Functions, grants : [Tables -> SUBSET Privileges],
     execute : SUBSET Functions, public : SUBSET Functions,
     roleDefault : BOOLEAN, publicDefault : BOOLEAN, ownPublic : BOOLEAN, artifact : BOOLEAN]
RuntimeRoleTool ==
    [at : {"idle", "connected", "executed", "looked", "checked", "gated", "probing", "tried"},
     op : {"none", "apply", "verify", "probe"}, password : BOOLEAN,
     plan : SUBSET Objects, looked : SUBSET Objects, problem : BOOLEAN, clean : BOOLEAN]
RoleTypes ==
    /\ catalog \in Catalog /\ tool \in RuntimeRoleTool
    /\ exit \in [looked : SUBSET Objects, clean : BOOLEAN]
    /\ applied \in [plan : SUBSET Objects, known : SUBSET Objects, clean : BOOLEAN]

\* Objects are not dropped: what was looked at is still there.
Remembered == tool.plan \cup exit.looked \cup applied.plan \subseteq Inventory(catalog)

\* What a tool that has found nothing wrong sees stays so until it ends.
Exact(c, S) == ~RoleProblem(c) /\ \A o \in S : ~ObjectProblem(c, o)
Examined ==
    /\ tool.plan # {} => catalog.exists \/ tool.password
    /\ tool.clean => tool.at \in {"looked", "checked"}
    /\ tool.clean /\ tool.at = "checked" /\ ~tool.problem => Exact(View, tool.looked)

RolesInv == RoleTypes /\ Remembered /\ Examined /\ RuntimeRoleInv

-----------------------------------------------------------------------------
(* The invariants: people *)

Principal ==
    [at : {"idle", "waiting", "refreshing", "lookup", "forcing", "decided", "verified", "tenant",
           "actor", "serving"},
     kid : Kids \cup {Nil}, org : Organizations \cup {Nil}, subject : Subjects \cup {Nil}, now : Nat,
     tenant : Tenants \cup {Nil}, actor : Actors \cup {Nil}, grants : SUBSET Rows]
RoleAssignment ==
    [actor : Actors, role : {"TENANT_OWNER", "FACILITY_ADMIN", "VIEWER"}, active : BOOLEAN]
Owner ==
    [at : {"new", "looked", "bound", "refused"}, tenant : Tenants \cup {Nil},
     org : Organizations \cup {Nil}, subject : Subjects \cup {Nil}]
IdentityTypes ==
    /\ provider \in [served : SUBSET Kids, until : [Kids -> Nat]]
    /\ tick \in Nat /\ jwks \in [keys : SUBSET Kids, expires : Nat, forced : Nat,
                                 lock : Requesters \cup {Nil}]
    /\ asked \in [Requesters -> Principal]
    /\ role \in [Rows -> RoleAssignment \cup {NoRow}] /\ held \subseteq Rows
    /\ binding \subseteq [org : Organizations, tenant : Tenants]
    /\ identity \subseteq [tenant : Tenants, subject : Subjects, actor : Actors]
    /\ boot \in [Actors -> Owner]
    /\ \A a \in Actors : boot[a].at # "new" =>
          boot[a].tenant \in Tenants /\ boot[a].org \in Organizations /\ boot[a].subject \in Subjects

\* The cached keys were served one life of the cache ago at most, or are still.
CacheYoung ==
    /\ jwks.expires <= tick + Ttl
    /\ \A k \in jwks.keys : k \in provider.served \/ jwks.expires <= provider.until[k] + Ttl

\* Roles are given in the order of their rows, each on record; who holds one holds a row in use.
RowsInOrder ==
    /\ \A i, k \in Rows : role[i] # NoRow /\ k < i => role[k] # NoRow
    /\ \A i \in held : role[i] # NoRow
    /\ \A i \in Rows : role[i] # NoRow =>
          {Recorded("role.created", i), Recorded("role.changed", i)} \cap ledger # {}

\* What a request has found so far is still true of it.
Found ==
    \A r \in Requesters :
        /\ asked[r].at \in {"tenant", "actor", "serving"} =>
              [org |-> asked[r].org, tenant |-> asked[r].tenant] \in binding
        /\ asked[r].at \in {"actor", "serving"} =>
              /\ asked[r].actor \in Actors
              /\ [tenant |-> asked[r].tenant, subject |-> asked[r].subject,
                  actor |-> asked[r].actor] \in identity

PeopleInv == IdentityTypes /\ CacheYoung /\ RowsInOrder /\ Found /\ IdentityInv

-----------------------------------------------------------------------------
(* The invariants: photos and templates *)

StaffEnrollmentImage == [status : {"ACCEPTED", "DELETED"}, of : Teachers, content : Contents]
StaffFaceTemplate == [status : {"ACTIVE", "REVOKED"}, model : Models]
PendingCall ==
    {NoCall} \cup [step : {"analyzed"}, of : Teachers, content : Contents]
    \cup [step : {"stored"}, of : Teachers, content : Contents, image : Images]
    \cup [step : {"erase"}, keys : SUBSET Images] \cup [step : {"counted"}]
\* The rows: a profile that is READY has enough photos, all with a template of one model.
ReadyBy(p, m) ==
    /\ Cardinality(Accepted(p)) >= MinAccepted
    /\ \A i \in Accepted(p) : template[i] = [status |-> "ACTIVE", model |-> m]
RowsInv ==
    /\ profile \in [Teachers -> [status : {"none", "ACTIVE", "INACTIVE", "DELETED"},
                                 state : {"EMPTY", "COLLECTING", "READY", "FAILED"}]]
    /\ image \in [Images -> StaffEnrollmentImage \cup {NoImage}]
    /\ template \in [Images -> StaffFaceTemplate \cup {NoTemplate}]
    /\ \A i \in Images : image[i] = NoImage => template[i] = NoTemplate
    /\ backend \in Models
    /\ \A p \in Teachers : profile[p].state = "READY" => \E m \in Models : ReadyBy(p, m)
    /\ ErasedWithProfile /\ PhotosLimited

\* An upload that has stored its bytes holds the profile: what it was admitted by stays so.
Storing(c) == call[c].step = "stored"
UploadsHold ==
    /\ \A c \in Calls : Storing(c) =>
          /\ Admissible(call[c].of, call[c].content)
          /\ image[call[c].image] = NoImage /\ call[c].image \in media
    /\ \A b, c \in Calls : Storing(b) /\ Storing(c) /\ call[b].of = call[c].of => b = c

\* Bytes about to be erased belong to no photo in use, unless its commit was not answered, and
\* those no row names are in the hands of one request.
Erasures ==
    \A c \in Calls : \A i \in InHand(c) :
        IF image[i] = NoImage THEN i \in media /\ \A b \in Calls \ {c} : i \notin InHand(b)
        ELSE image[i].status = "ACCEPTED" => i \in unsure

\* Creations counted and not yet inserted exceed the limit by no more than overlap.
Counting == {c \in Calls : call[c].step = "counted"}
CountsBounded == Cardinality(Enrolled) + Cardinality(Counting) < MaxStaff + Cardinality(Calls)

CallsInv ==
    /\ call \in [Calls -> PendingCall]
    /\ media \subseteq Images /\ unsure \subseteq Images /\ left \subseteq Images
    /\ UploadsHold /\ Erasures /\ BytesKept /\ CountsBounded

\* What had been revoked when the export began stays so, and out of the package.
RecognitionPackage ==
    [step : {"reading"}, model : Models, todo : SUBSET Teachers, entries : SUBSET Images,
     revoked : SUBSET Images]
ExportInv ==
    /\ export \in RecognitionPackage \cup {NoExport}
    /\ \A i \in export.revoked : template[i].status = "REVOKED"
    /\ PackageSound

PhotosInv == RowsInv /\ CallsInv /\ ExportInv

-----------------------------------------------------------------------------
(* Edge credentials *)

LEMMA CredentialsStart == CredentialInit => CredentialsInv
BY NobodyAssumption
   DEF CredentialInit, NoCredential, CredentialsInv, CredentialTypes, IssueRun, AtStep, FilesOwned,
       IssuedFor, CredentialInv, FilesUsable, CredentialsAudited, RecognisedAsIssued

LEMMA CredentialsStutter == CredentialsInv /\ UNCHANGED credentialVars => CredentialsInv'
BY DEF credentialVars, CredentialsInv, CredentialTypes, AtStep, FilesOwned, IssuedFor, CredentialInv,
       FilesUsable, CredentialsAudited, RecognisedAsIssued

LEMMA RunStep ==
  ASSUME CredentialsInv, NEW c \in Credentials,
         NEW s \in {"refused", "created", "written", "issued", "failed", "unsure", "killed"}, Step(c, s)
  PROVE  /\ issue' \in [Credentials -> IssueRun] /\ issue'[c].at = s
         /\ \A d \in Credentials : issue'[d].path = issue[d].path /\ issue'[d].of = issue[d].of
         /\ \A d \in Credentials \ {c} : issue'[d] = issue[d]
<1>1. issue \in [Credentials -> IssueRun] /\ issue' = [issue EXCEPT ![c].at = s]
  BY DEF CredentialsInv, CredentialTypes, Step
<1>2. issue'[c] = [issue[c] EXCEPT !.at = s] /\ \A d \in Credentials \ {c} : issue'[d] = issue[d]
  BY <1>1
<1>3. issue[c] \in IssueRun
  BY <1>1
<1>4. issue'[c] \in IssueRun /\ issue'[c].at = s
      /\ issue'[c].path = issue[c].path /\ issue'[c].of = issue[c].of
  BY <1>2, <1>3 DEF IssueRun
<1>5. issue' \in [Credentials -> IssueRun]
  BY <1>1, <1>2, <1>4
<1> QED
  BY <1>2, <1>4, <1>5

\* A run only moves on: what it has written so far is not touched.
LEMMA RunMoves ==
  ASSUME CredentialsInv, NEW c \in Credentials,
         NEW s \in {"refused", "written", "killed"}, Step(c, s),
         UNCHANGED <<node, credential, file, trail, guest>>,
         \/ s = "refused" /\ AtStep(c, "checked")
         \/ s = "written" /\ AtStep(c, "created")
         \/ s = "killed" /\ issue[c].at \in {"checked", "created", "written"}
  PROVE  CredentialsInv'
<1>1. issue' \in [Credentials -> IssueRun]
  BY RunStep
<1>2. /\ \A d \in Credentials : issue'[d].path = issue[d].path /\ issue'[d].of = issue[d].of
      /\ \A d \in Credentials \ {c} : issue'[d] = issue[d]
  BY RunStep
<1>3. issue'[c].at = s /\ issue[c].at # "new" /\ credential[c].status = "none"
  <2>1. issue'[c].at = s
    BY RunStep
  <2>2. issue[c].at \in {"checked", "created", "written"}
    BY DEF AtStep
  <2> QED
    BY <2>1, <2>2 DEF CredentialsInv, CredentialInv, CredentialsAudited
<1>4. CredentialTypes' /\ FilesOwned' /\ IssuedFor'
  BY <1>1, <1>2, <1>3, NobodyAssumption
     DEF CredentialsInv, CredentialTypes, AtStep, FilesOwned, IssuedFor
<1>5. FilesUsable'
  <2>1. \A p \in Paths : file[p] = c => s # "refused"
    BY <1>3, NobodyAssumption DEF CredentialsInv, CredentialInv, FilesUsable, AtStep
  <2>2. ASSUME NEW p \in Paths, file[p] # Nobody
        PROVE  issue'[file[p]].at \in {"created", "written", "killed"} \/ credential[file[p]].status # "none"
    <3>1. file[p] \in Credentials
      BY <2>2 DEF CredentialsInv, CredentialTypes
    <3>2. CASE file[p] = c
      BY <3>2, <1>3, <2>1, <2>2
    <3>3. CASE file[p] # c
      BY <3>1, <3>3, <1>2, <2>2 DEF CredentialsInv, CredentialInv, FilesUsable
    <3> QED
      BY <3>2, <3>3
  <2>3. ASSUME NEW d \in Credentials, issue'[d].at \in {"created", "written", "issued"}
        PROVE  file[issue'[d].path] = d
    <3>1. issue[d].at \in {"created", "written", "issued"}
      BY <2>3, <1>2, <1>3 DEF AtStep
    <3> QED
      BY <3>1, <1>2 DEF CredentialsInv, CredentialInv, FilesUsable
  <2> QED
    BY <2>2, <2>3 DEF FilesUsable
<1>6. CredentialsAudited' /\ RecognisedAsIssued'
  BY <1>2, <1>3 DEF CredentialsInv, CredentialInv, CredentialsAudited, RecognisedAsIssued, CredentialTypes
<1> QED
  BY <1>4, <1>5, <1>6 DEF CredentialsInv, CredentialInv

LEMMA GuestActive ==
  ASSUME CredentialsInv, NEW c \in Credentials, guest[c] # Nobody
  PROVE  credential[c].status = "ACTIVE" /\ credential[c].of = issue[c].of /\ guest[c] = issue[c].of
         /\ node[guest[c]] # "DISABLED"
<1>1. credential[c] = [status |-> "ACTIVE", of |-> issue[c].of]
  BY DEF CredentialsInv, CredentialInv, RecognisedAsIssued
<1> QED
  BY <1>1 DEF CredentialsInv, CredentialInv, RecognisedAsIssued

LEMMA CredentialValidate ==
  ASSUME CredentialsInv, NEW c \in Credentials, NEW p \in Paths, NEW n \in Nodes, Validate(c, p, n)
  PROVE  CredentialsInv'
<1>0. UNCHANGED <<node, credential, file, trail, guest>>
  BY DEF Validate
<1>1. issue' \in [Credentials -> IssueRun]
  BY DEF CredentialsInv, CredentialTypes, IssueRun, Validate
<1>2. /\ issue'[c].path = p /\ issue'[c].of = n /\ issue'[c].at \in {"checked", "refused"}
      /\ \A d \in Credentials \ {c} : issue'[d] = issue[d]
  BY DEF CredentialsInv, CredentialTypes, IssueRun, Validate
<1>3. credential[c].status = "none" /\ \A q \in Paths : file[q] # c
  <2>1. issue[c].at = "new"
    BY DEF Validate, AtStep
  <2>2. credential[c].status = "none"
    BY <2>1 DEF CredentialsInv, CredentialInv, CredentialsAudited
  <2> QED
    BY <2>1, <2>2, NobodyAssumption DEF CredentialsInv, CredentialInv, FilesUsable
<1>4. guest[c] = Nobody
  BY <1>3, GuestActive
<1>5. CredentialTypes' /\ FilesOwned' /\ IssuedFor'
  BY <1>0, <1>1, <1>2, <1>3, NobodyAssumption
     DEF CredentialsInv, CredentialTypes, AtStep, FilesOwned, IssuedFor
<1>6. FilesUsable'
  BY <1>0, <1>2, <1>3 DEF CredentialsInv, CredentialTypes, CredentialInv, FilesUsable
<1>7. CredentialsAudited' /\ RecognisedAsIssued'
  BY <1>0, <1>2, <1>3, <1>4
     DEF CredentialsInv, CredentialTypes, CredentialInv, CredentialsAudited, RecognisedAsIssued
<1> QED
  BY <1>5, <1>6, <1>7 DEF CredentialsInv, CredentialInv

LEMMA CredentialCreate ==
  ASSUME CredentialsInv, NEW c \in Credentials, CreateFile(c)
  PROVE  CredentialsInv'
<1>1. CASE file[issue[c].path] # Nobody
  BY <1>1, RunMoves DEF CreateFile
<1>2. CASE file[issue[c].path] = Nobody
  <2>1. PICK p \in Paths : p = issue[c].path /\ file[p] = Nobody
    BY <1>2 DEF CreateFile, AtStep, CredentialsInv, CredentialTypes
  <2>2. /\ file' = [file EXCEPT ![p] = c] /\ issue' = [issue EXCEPT ![c].at = "created"]
        /\ UNCHANGED <<node, credential, trail, guest>>
    BY <1>2, <2>1 DEF CreateFile, Step
  <2>3. issue' \in [Credentials -> IssueRun]
    BY <2>2, RunStep DEF Step
  <2>4. /\ \A d \in Credentials : issue'[d].path = issue[d].path /\ issue'[d].of = issue[d].of
        /\ \A d \in Credentials \ {c} : issue'[d] = issue[d]
        /\ issue'[c].at = "created" /\ issue[c].at = "checked"
    BY <2>2, RunStep DEF CreateFile, AtStep, Step
  <2>5. file'[p] = c /\ \A q \in Paths \ {p} : file'[q] = file[q]
    BY <2>2 DEF CredentialsInv, CredentialTypes
  <2>6. credential[c].status = "none"
    BY <2>4 DEF CredentialsInv, CredentialInv, CredentialsAudited, CredentialTypes
  <2>7. CredentialTypes'
    BY <2>2, <2>3, <2>4 DEF CredentialsInv, CredentialTypes, AtStep
  <2>8. FilesOwned' /\ IssuedFor'
    BY <2>1, <2>2, <2>4, <2>5, NobodyAssumption
       DEF CredentialsInv, CredentialTypes, FilesOwned, IssuedFor
  <2>9. FilesUsable'
    BY <2>1, <2>2, <2>4, <2>5, NobodyAssumption
       DEF CredentialsInv, CredentialTypes, CredentialInv, FilesUsable
  <2>10. CredentialsAudited' /\ RecognisedAsIssued'
    BY <2>2, <2>4, <2>6
       DEF CredentialsInv, CredentialTypes, CredentialInv, CredentialsAudited, RecognisedAsIssued
  <2> QED
    BY <2>7, <2>8, <2>9, <2>10 DEF CredentialsInv, CredentialInv
<1> QED
  BY <1>1, <1>2

\* The file of a run is at its path, and nobody else's is.
LEMMA OwnFile ==
  ASSUME CredentialsInv, NEW c \in Credentials, issue[c].at \in {"created", "written"}
  PROVE  /\ issue[c].path \in Paths /\ file[issue[c].path] = c
         /\ \A p \in Paths : file[p] = c => p = issue[c].path
         /\ credential[c].status = "none" /\ guest[c] = Nobody
         /\ trail[c].issued = 0 /\ trail[c].revoked = 0
         /\ issue[c].of \in Nodes
BY NobodyAssumption
   DEF CredentialsInv, CredentialTypes, AtStep, FilesOwned, CredentialInv, FilesUsable,
       CredentialsAudited, RecognisedAsIssued

LEMMA CredentialFail ==
  ASSUME CredentialsInv, NEW c \in Credentials, Fail(c)
  PROVE  CredentialsInv'
<1>1. PICK p \in Paths : p = issue[c].path /\ file[p] = c /\ \A q \in Paths : file[q] = c => q = p
  BY OwnFile DEF Fail
<1>2. /\ file' = [file EXCEPT ![p] = Nobody] /\ issue' = [issue EXCEPT ![c].at = "failed"]
      /\ UNCHANGED <<node, credential, trail, guest>>
  BY <1>1 DEF Fail, Unlink, Step
<1>3. issue' \in [Credentials -> IssueRun]
  BY RunStep DEF Fail
<1>4. /\ \A d \in Credentials : issue'[d].path = issue[d].path /\ issue'[d].of = issue[d].of
      /\ \A d \in Credentials \ {c} : issue'[d] = issue[d]
      /\ issue'[c].at = "failed" /\ issue[c].at # "new"
  BY RunStep DEF Fail
<1>5. file'[p] = Nobody /\ \A q \in Paths \ {p} : file'[q] = file[q] /\ file[q] # c
  BY <1>1, <1>2 DEF CredentialsInv, CredentialTypes
<1>6. credential[c].status = "none" /\ guest[c] = Nobody
  BY OwnFile DEF Fail
<1>7. CredentialTypes'
  BY <1>2, <1>3, <1>4 DEF CredentialsInv, CredentialTypes, AtStep
<1>8. FilesOwned' /\ IssuedFor'
  BY <1>1, <1>2, <1>4, <1>5, NobodyAssumption DEF CredentialsInv, CredentialTypes, FilesOwned, IssuedFor
<1>9. FilesUsable'
  <2>1. \A q \in Paths : file'[q] # Nobody => file'[q] = file[q] /\ file[q] # c
    BY <1>5
  <2>2. \A d \in Credentials \ {c} : issue[d].at \in {"created", "written", "issued"} => issue[d].path # p
    BY <1>1 DEF CredentialsInv, CredentialInv, FilesUsable
  <2> QED
    BY <1>2, <1>4, <1>5, <2>1, <2>2
       DEF CredentialsInv, CredentialTypes, CredentialInv, FilesUsable, IssueRun, AtStep
<1>10. CredentialsAudited' /\ RecognisedAsIssued'
  BY <1>2, <1>4, <1>6
     DEF CredentialsInv, CredentialTypes, CredentialInv, CredentialsAudited, RecognisedAsIssued
<1> QED
  BY <1>7, <1>8, <1>9, <1>10 DEF CredentialsInv, CredentialInv

\* The digest is stored: the file stays, or goes with the answer.
LEMMA Inserted ==
  ASSUME CredentialsInv, NEW c \in Credentials, Insert(c),
         \/ Step(c, "issued") /\ UNCHANGED file
         \/ Step(c, "unsure") /\ Unlink(c)
  PROVE  CredentialsInv'
<1>1. PICK p \in Paths : p = issue[c].path /\ file[p] = c /\ \A q \in Paths : file[q] = c => q = p
  BY OwnFile DEF Insert, AtStep
<1>2. PICK s \in {"issued", "unsure"} :
         Step(c, s) /\ file' = IF s = "issued" THEN file ELSE [file EXCEPT ![p] = Nobody]
  BY <1>1 DEF Unlink
<1>3. /\ issue' \in [Credentials -> IssueRun]
      /\ issue'[c].at = s /\ issue[c].at = "written"
      /\ \A d \in Credentials : issue'[d].path = issue[d].path /\ issue'[d].of = issue[d].of
      /\ \A d \in Credentials \ {c} : issue'[d] = issue[d]
  BY <1>2, RunStep DEF Insert, AtStep
<1>4. /\ credential[c].status = "none" /\ guest[c] = Nobody
      /\ trail[c].issued = 0 /\ trail[c].revoked = 0 /\ issue[c].of \in Nodes
  BY <1>3, OwnFile
<1>5. /\ credential' \in [Credentials -> [status : {"none", "ACTIVE", "REVOKED"}, of : Nodes \cup {Nobody}]]
      /\ credential'[c].status = "ACTIVE" /\ credential'[c].of = issue[c].of
      /\ \A d \in Credentials \ {c} : credential'[d] = credential[d]
  BY <1>4 DEF Insert, CredentialsInv, CredentialTypes
<1>6. /\ trail' \in [Credentials -> [issued : Nat, revoked : Nat]]
      /\ trail'[c].issued = 1 /\ trail'[c].revoked = 0
      /\ \A d \in Credentials \ {c} : trail'[d] = trail[d]
  <2>1. trail \in [Credentials -> [issued : Nat, revoked : Nat]]
    BY DEF CredentialsInv, CredentialTypes
  <2>2. trail' = [trail EXCEPT ![c].issued = 1]
    BY <1>4, <2>1 DEF Insert
  <2> QED
    BY <1>4, <2>1, <2>2
<1>7. node' = node /\ guest' = guest
  BY DEF Insert
<1>8. /\ file' \in [Paths -> Credentials \cup {Nobody}]
      /\ \A q \in Paths : file'[q] = file[q] \/ (s = "unsure" /\ q = p /\ file'[q] = Nobody)
  <2>1. file \in [Paths -> Credentials \cup {Nobody}]
    BY DEF CredentialsInv, CredentialTypes
  <2>2. CASE s = "issued"
    BY <1>2, <2>1, <2>2
  <2>3. CASE s = "unsure"
    <3>1. file' = [file EXCEPT ![p] = Nobody]
      BY <1>2, <2>3
    <3> QED
      BY <2>1, <2>3, <3>1
  <2> QED
    BY <2>2, <2>3
<1>9. CredentialTypes'
  BY <1>3, <1>5, <1>6, <1>7, <1>8 DEF CredentialsInv, CredentialTypes, AtStep
<1>10. FilesOwned' /\ IssuedFor'
  <2>1. ASSUME NEW q \in Paths, file'[q] # Nobody
        PROVE  issue'[file'[q]].path = q
    <3>1. file'[q] = file[q] /\ file[q] \in Credentials
      BY <1>8, <2>1 DEF CredentialsInv, CredentialTypes
    <3> QED
      BY <3>1, <2>1, <1>3 DEF CredentialsInv, FilesOwned
  <2>2. ASSUME NEW d \in Credentials, credential'[d].status # "none"
        PROVE  credential'[d].of = issue'[d].of
    BY <2>2, <1>3, <1>5 DEF CredentialsInv, IssuedFor
  <2> QED
    BY <2>1, <2>2 DEF FilesOwned, IssuedFor
<1>11. FilesUsable'
  <2>1. ASSUME NEW q \in Paths, file'[q] # Nobody
        PROVE  issue'[file'[q]].at \in {"created", "written", "killed"}
               \/ credential'[file'[q]].status # "none"
    <3>1. file'[q] = file[q] /\ file[q] \in Credentials
      BY <1>8, <2>1 DEF CredentialsInv, CredentialTypes
    <3>2. CASE file[q] = c
      BY <3>1, <3>2, <1>5
    <3>3. CASE file[q] # c
      BY <3>1, <3>3, <1>3, <1>5, <2>1 DEF CredentialsInv, CredentialInv, FilesUsable
    <3> QED
      BY <3>2, <3>3
  <2>2. ASSUME NEW d \in Credentials, issue'[d].at \in {"created", "written", "issued"}
        PROVE  file'[issue'[d].path] = d
    <3>1. CASE d = c
      BY <3>1, <1>1, <1>2, <1>3, <2>2
    <3>2. CASE d # c
      <4>1. issue'[d] = issue[d] /\ file[issue[d].path] = d
        BY <3>2, <1>3, <2>2 DEF CredentialsInv, CredentialInv, FilesUsable
      <4>2. issue[d].path \in Paths /\ issue[d].path # p
        BY <3>2, <4>1, <1>1, <2>2 DEF CredentialsInv, CredentialTypes, AtStep
      <4> QED
        BY <4>1, <4>2, <1>8
    <3> QED
      BY <3>1, <3>2
  <2> QED
    BY <2>1, <2>2 DEF FilesUsable
<1>12. CredentialsAudited'
  BY <1>3, <1>5, <1>6 DEF CredentialsInv, CredentialInv, CredentialsAudited
<1>13. RecognisedAsIssued'
  BY <1>3, <1>4, <1>5, <1>7 DEF CredentialsInv, CredentialInv, RecognisedAsIssued
<1> QED
  BY <1>9, <1>10, <1>11, <1>12, <1>13 DEF CredentialsInv, CredentialInv

LEMMA CredentialRevoke ==
  ASSUME CredentialsInv, NEW c \in Credentials, Revoke(c)
  PROVE  CredentialsInv'
<1>0. UNCHANGED <<node, file, issue>>
  BY DEF Revoke
<1>1. CASE ~Revocable(c)
  BY <1>0, <1>1, CredentialsStutter DEF Revoke, credentialVars
<1>2. CASE Revocable(c)
  <2>1. /\ credential' = [credential EXCEPT ![c].status = "REVOKED"]
        /\ trail' = [trail EXCEPT ![c].revoked = @ + 1]
        /\ guest' = [guest EXCEPT ![c] = Nobody]
    BY <1>2 DEF Revoke
  <2>2. /\ credential' \in [Credentials -> [status : {"none", "ACTIVE", "REVOKED"}, of : Nodes \cup {Nobody}]]
        /\ credential'[c].status = "REVOKED" /\ credential'[c].of = credential[c].of
        /\ \A d \in Credentials \ {c} : credential'[d] = credential[d]
    BY <2>1 DEF CredentialsInv, CredentialTypes
  <2>3. trail[c].issued = 1 /\ trail[c].revoked = 0 /\ issue[c].at \in {"issued", "unsure"}
    BY <1>2 DEF Revocable, CredentialsInv, CredentialInv, CredentialsAudited
  <2>4. /\ trail' \in [Credentials -> [issued : Nat, revoked : Nat]]
        /\ trail'[c].issued = 1 /\ trail'[c].revoked = 1
        /\ \A d \in Credentials \ {c} : trail'[d] = trail[d]
    <3>1. trail \in [Credentials -> [issued : Nat, revoked : Nat]]
      BY DEF CredentialsInv, CredentialTypes
    <3>2. trail' = [trail EXCEPT ![c].revoked = 1]
      BY <2>1, <2>3, <3>1
    <3> QED
      BY <2>3, <3>1, <3>2
  <2>5. /\ guest' \in [Credentials -> Nodes \cup {Nobody}] /\ guest'[c] = Nobody
        /\ \A d \in Credentials \ {c} : guest'[d] = guest[d]
    BY <2>1 DEF CredentialsInv, CredentialTypes
  <2>6. CredentialTypes' /\ FilesOwned' /\ IssuedFor'
    BY <1>0, <1>2, <2>2, <2>4, <2>5
       DEF Revocable, CredentialsInv, CredentialTypes, AtStep, FilesOwned, IssuedFor
  <2>7. FilesUsable'
    <3>1. \A d \in Credentials : credential'[d].status = "none" <=> credential[d].status = "none"
      BY <1>2, <2>2 DEF Revocable
    <3>2. \A p \in Paths : file[p] # Nobody => file[p] \in Credentials
      BY DEF CredentialsInv, CredentialTypes
    <3> QED
      BY <1>0, <3>1, <3>2 DEF CredentialsInv, CredentialInv, FilesUsable
  <2>8. CredentialsAudited' /\ RecognisedAsIssued'
    <3>1. CredentialsAudited'
      BY <1>0, <2>2, <2>3, <2>4 DEF CredentialsInv, CredentialInv, CredentialsAudited
    <3>2. RecognisedAsIssued'
      BY <1>0, <2>2, <2>5 DEF CredentialsInv, CredentialInv, RecognisedAsIssued
    <3> QED
      BY <3>1, <3>2
  <2> QED
    BY <2>6, <2>7, <2>8 DEF CredentialsInv, CredentialInv
<1> QED
  BY <1>1, <1>2

\* What is not about guests is kept by the steps that admit them or close a node.
LEMMA GuestsOnly ==
  ASSUME CredentialsInv, UNCHANGED <<credential, file, issue, trail>>,
         node' \in [Nodes -> {"ONLINE", "DISABLED"}], guest' \in [Credentials -> Nodes \cup {Nobody}],
         RecognisedAsIssued'
  PROVE  CredentialsInv'
BY DEF CredentialsInv, CredentialTypes, AtStep, FilesOwned, IssuedFor, CredentialInv, FilesUsable,
       CredentialsAudited

LEMMA CredentialAuthenticate ==
  ASSUME CredentialsInv, NEW c \in Credentials, Authenticate(c)
  PROVE  CredentialsInv'
<1>1. guest' = [guest EXCEPT ![c] = IF Accepts(c) THEN credential[c].of ELSE Nobody]
      /\ UNCHANGED <<node, credential, file, issue, trail>>
  BY DEF Authenticate
<1>2. Accepts(c) => /\ credential[c] = [status |-> "ACTIVE", of |-> issue[c].of]
                    /\ credential[c].of = issue[c].of /\ node[credential[c].of] # "DISABLED"
  BY DEF Accepts, CredentialsInv, CredentialTypes, IssuedFor
<1>3. guest' \in [Credentials -> Nodes \cup {Nobody}]
      /\ \A d \in Credentials \ {c} : guest'[d] = guest[d]
      /\ guest'[c] = IF Accepts(c) THEN credential[c].of ELSE Nobody
  BY <1>1 DEF CredentialsInv, CredentialTypes
<1>4. RecognisedAsIssued'
  BY <1>1, <1>2, <1>3 DEF CredentialsInv, CredentialInv, RecognisedAsIssued
<1> QED
  BY <1>1, <1>3, <1>4, GuestsOnly DEF CredentialsInv, CredentialTypes

LEMMA CredentialSetNode ==
  ASSUME CredentialsInv, NEW n \in Nodes, NEW s \in {"ONLINE", "DISABLED"}, SetNode(n, s)
  PROVE  CredentialsInv'
<1>1. /\ node' = [node EXCEPT ![n] = s]
      /\ guest' = [c \in Credentials |-> IF credential[c].of = n THEN Nobody ELSE guest[c]]
      /\ UNCHANGED <<credential, file, issue, trail>>
  BY DEF SetNode
<1>2. node' \in [Nodes -> {"ONLINE", "DISABLED"}] /\ guest' \in [Credentials -> Nodes \cup {Nobody}]
  BY <1>1 DEF CredentialsInv, CredentialTypes
<1>3. ASSUME NEW c \in Credentials, guest'[c] # Nobody
      PROVE  guest'[c] = guest[c] /\ guest[c] \in Nodes \ {n}
  BY <1>1, <1>3, GuestActive DEF CredentialsInv, CredentialTypes
<1>4. RecognisedAsIssued'
  BY <1>1, <1>3 DEF CredentialsInv, CredentialTypes, CredentialInv, RecognisedAsIssued
<1> QED
  BY <1>1, <1>2, <1>4, GuestsOnly

LEMMA CredentialsKept == CredentialsInv /\ CredentialStep => CredentialsInv'
<1> SUFFICES ASSUME CredentialsInv, CredentialStep PROVE CredentialsInv'
  OBVIOUS
<1>1. ASSUME NEW c \in Credentials, NEW p \in Paths, NEW n \in Nodes, Validate(c, p, n)
      PROVE  CredentialsInv'
  BY <1>1, CredentialValidate
<1>2. ASSUME NEW c \in Credentials, WriteSecret(c) \/ Kill(c)
      PROVE  CredentialsInv'
  <2>1. CASE WriteSecret(c)
    BY <2>1, RunMoves DEF WriteSecret
  <2>2. CASE Kill(c)
    BY <2>2, RunMoves DEF Kill
  <2> QED
    BY <1>2, <2>1, <2>2
<1>3. ASSUME NEW c \in Credentials, CreateFile(c) \/ Fail(c) \/ Revoke(c) \/ Authenticate(c)
      PROVE  CredentialsInv'
  BY <1>3, CredentialCreate, CredentialFail, CredentialRevoke, CredentialAuthenticate
<1>4. ASSUME NEW c \in Credentials, Store(c) \/ LoseAnswer(c)
      PROVE  CredentialsInv'
  BY <1>4, Inserted DEF Store, LoseAnswer
<1>5. ASSUME NEW n \in Nodes, NEW s \in {"ONLINE", "DISABLED"}, SetNode(n, s)
      PROVE  CredentialsInv'
  BY <1>5, CredentialSetNode
<1> QED
  BY <1>1, <1>2, <1>3, <1>4, <1>5 DEF CredentialStep

-----------------------------------------------------------------------------
(* The role of the database *)

LEMMA EffectsFields ==
  ASSUME NEW c \in Catalog, NEW inv \in SUBSET Objects, NEW pw
  PROVE  /\ Effects(c, inv, pw) \in Catalog
         /\ Effects(c, inv, pw).exists = TRUE
         /\ Effects(c, inv, pw).restricted = TRUE
         /\ Effects(c, inv, pw).create = FALSE
         /\ Effects(c, inv, pw).roleDefault = FALSE
         /\ Effects(c, inv, pw).publicDefault = FALSE
         /\ Effects(c, inv, pw).ownPublic = FALSE
<1>1. [t \in Tables |-> Converged(c, t, inv)] \in [Tables -> SUBSET Privileges]
  BY ClassifiedAssumption DEF Converged, Wanted, Catalog
<1>2. (c.execute \ inv) \cup (FunctionGrants \cap inv) \in SUBSET Functions
  BY ClassifiedAssumption DEF Catalog
<1> HIDE DEF Converged
<1> QED
  BY <1>1, <1>2 DEF Effects, Catalog

LEMMA EffectsKeeps ==
  ASSUME NEW c \in Catalog, NEW inv \in SUBSET Objects, NEW pw
  PROVE  /\ Effects(c, inv, pw).beyond = c.beyond
         /\ Effects(c, inv, pw).tables = c.tables
         /\ Effects(c, inv, pw).functions = c.functions
         /\ Effects(c, inv, pw).public = c.public
         /\ Effects(c, inv, pw).artifact = c.artifact
BY DEF Effects, Catalog

LEMMA EffectsCredential ==
  ASSUME NEW c \in Catalog, NEW inv \in SUBSET Objects, NEW pw
  PROVE  /\ (pw = FALSE) => Effects(c, inv, pw).credential = c.credential
         /\ (pw = TRUE) => Effects(c, inv, pw).credential = TRUE
         /\ (c.credential = TRUE) => Effects(c, inv, pw).credential = TRUE
BY DEF Effects, Catalog

LEMMA EffectsObjects ==
  ASSUME NEW c \in Catalog, NEW inv \in SUBSET Objects, NEW pw
  PROVE  /\ \A t \in Tables : Effects(c, inv, pw).grants[t] = Converged(c, t, inv)
         /\ \A f \in inv : f \in Effects(c, inv, pw).execute <=> f \in FunctionGrants
         /\ \A f : f \notin inv => (f \in Effects(c, inv, pw).execute <=> f \in c.execute)
BY DEF Effects, Catalog

\* A catalog is the record of its fields.
LEMMA SameCatalog ==
  ASSUME NEW c \in Catalog, NEW d \in Catalog,
         c.exists = d.exists, c.credential = d.credential, c.restricted = d.restricted,
         c.beyond = d.beyond, c.create = d.create, c.tables = d.tables, c.functions = d.functions,
         c.grants = d.grants, c.execute = d.execute, c.public = d.public,
         c.roleDefault = d.roleDefault, c.publicDefault = d.publicDefault,
         c.ownPublic = d.ownPublic, c.artifact = d.artifact
  PROVE  c = d
BY DEF Catalog

\* The plan for the objects of S has nothing left to do.
Settled(c, S) ==
    /\ c.exists /\ c.restricted /\ ~c.create
    /\ ~c.roleDefault /\ ~c.publicDefault /\ ~c.ownPublic
    /\ \A t \in Tables \cap S : c.grants[t] = Wanted(t)
    /\ \A f \in Functions \cap S : f \in c.execute <=> f \in FunctionGrants

LEMMA NothingLeft ==
  ASSUME NEW c \in Catalog, NEW S \in SUBSET Objects
  PROVE  Effects(c, S, FALSE) = c <=> Settled(c, S)
<1> DEFINE d == Effects(c, S, FALSE)
<1>1. /\ d \in Catalog /\ d.exists = TRUE /\ d.restricted = TRUE /\ d.credential = c.credential
      /\ d.create = FALSE /\ d.beyond = c.beyond /\ d.tables = c.tables /\ d.functions = c.functions
      /\ \A t \in Tables : d.grants[t] = Converged(c, t, S)
      /\ \A f \in S : f \in d.execute <=> f \in FunctionGrants
      /\ \A f : f \notin S => (f \in d.execute <=> f \in c.execute)
      /\ d.public = c.public /\ d.roleDefault = FALSE /\ d.publicDefault = FALSE
      /\ d.ownPublic = FALSE /\ d.artifact = c.artifact
  <2> DEFINE no == FALSE
  <2>1. no \in BOOLEAN /\ no = FALSE /\ d = Effects(c, S, no)
    OBVIOUS
  <2> HIDE DEF no, d
  <2>2. d.credential = c.credential
    BY <2>1, EffectsCredential
  <2>3. /\ \A t \in Tables : d.grants[t] = Converged(c, t, S)
        /\ \A f \in S : f \in d.execute <=> f \in FunctionGrants
        /\ \A f : f \notin S => (f \in d.execute <=> f \in c.execute)
    BY <2>1, EffectsObjects
  <2>4. /\ d \in Catalog /\ d.exists = TRUE /\ d.restricted = TRUE
        /\ d.create = FALSE /\ d.beyond = c.beyond /\ d.tables = c.tables /\ d.functions = c.functions
        /\ d.public = c.public /\ d.roleDefault = FALSE /\ d.publicDefault = FALSE
        /\ d.ownPublic = FALSE /\ d.artifact = c.artifact
    <3>1. /\ d \in Catalog /\ d.exists = TRUE /\ d.restricted = TRUE /\ d.create = FALSE
      BY <2>1, EffectsFields
    <3>2. d.roleDefault = FALSE /\ d.publicDefault = FALSE /\ d.ownPublic = FALSE
      BY <2>1, EffectsFields
    <3>3. d.beyond = c.beyond /\ d.tables = c.tables /\ d.functions = c.functions
          /\ d.public = c.public /\ d.artifact = c.artifact
      BY <2>1, EffectsKeeps
    <3> QED
      BY <3>1, <3>2, <3>3
  <2> QED
    BY <2>2, <2>3, <2>4
<1> HIDE DEF d
<1>2. c.grants \in [Tables -> SUBSET Privileges] /\ c.execute \in SUBSET Functions
  BY DEF Catalog
<1>3. ASSUME d = c PROVE Settled(c, S)
  <2>1. \A t \in Tables \cap S : c.grants[t] = Wanted(t)
    BY <1>1, <1>3 DEF Converged
  <2>2. \A f \in Functions \cap S : f \in c.execute <=> f \in FunctionGrants
    BY <1>1, <1>3
  <2> QED
    BY <1>1, <1>3, <2>1, <2>2 DEF Settled
<1>4. ASSUME Settled(c, S) PROVE d = c
  <2>1. d.grants = c.grants
    <3>1. d.grants \in [Tables -> SUBSET Privileges]
      BY <1>1 DEF Catalog
    <3>2. \A t \in Tables : d.grants[t] = c.grants[t]
      BY <1>1, <1>4 DEF Converged, Settled
    <3> QED
      BY <1>2, <3>1, <3>2
  <2>2. d.execute = c.execute
    <3>1. d.execute \in SUBSET Functions
      BY <1>1 DEF Catalog
    <3>2. \A f \in Functions : f \in d.execute <=> f \in c.execute
      BY <1>1, <1>4 DEF Settled
    <3> QED
      BY <1>2, <3>1, <3>2
  <2>3. c.exists = TRUE /\ c.restricted = TRUE /\ c.create = FALSE
        /\ c.roleDefault = FALSE /\ c.publicDefault = FALSE /\ c.ownPublic = FALSE
    BY <1>4 DEF Settled, Catalog
  <2> QED
    BY <1>1, <2>1, <2>2, <2>3, SameCatalog
<1> QED
  BY <1>3, <1>4 DEF d

\* What is seen of the objects of S, and of the role itself, is the same.
SeenAlike(c, d, S) ==
    /\ d.restricted = c.restricted /\ d.beyond = c.beyond /\ d.create = c.create
    /\ d.roleDefault = c.roleDefault /\ d.publicDefault = c.publicDefault
    /\ d.ownPublic = c.ownPublic
    /\ \A o \in S : /\ o \in Tables => d.grants[o] = c.grants[o]
                    /\ o \in d.public <=> o \in c.public
                    /\ o \in d.execute <=> o \in c.execute
LEMMA ExactAlike ==
  ASSUME NEW c, NEW d, NEW S, SeenAlike(c, d, S), Exact(c, S)
  PROVE  Exact(d, S)
BY DEF SeenAlike, Exact, RoleProblem, ObjectProblem, MayRead, MayExecute

\* View, of any catalog and tool.
ViewOf(c, t) == IF t.plan = {} THEN c ELSE Effects(c, t.plan, t.password)
LEMMA ViewTyped ==
  ASSUME NEW c \in Catalog, NEW t \in RuntimeRoleTool
  PROVE  ViewOf(c, t) \in Catalog /\ Inventory(ViewOf(c, t)) = Inventory(c)
<1>1. CASE t.plan = {}
  BY <1>1 DEF ViewOf
<1>2. CASE t.plan # {}
  <2> DEFINE plan == t.plan pw == t.password
  <2>1. plan \in SUBSET Objects /\ pw \in BOOLEAN /\ ViewOf(c, t) = Effects(c, plan, pw)
    BY <1>2 DEF ViewOf, RuntimeRoleTool
  <2> HIDE DEF plan, pw
  <2>2. Effects(c, plan, pw) \in Catalog /\ Effects(c, plan, pw).tables = c.tables
        /\ Effects(c, plan, pw).functions = c.functions
    BY <2>1, EffectsFields, EffectsKeeps
  <2> QED
    BY <2>1, <2>2 DEF Inventory
<1> QED
  BY <1>1, <1>2

LEMMA ViewAlike ==
  ASSUME NEW c \in Catalog, NEW d \in Catalog, NEW t \in RuntimeRoleTool, NEW S, SeenAlike(c, d, S)
  PROVE  SeenAlike(ViewOf(c, t), ViewOf(d, t), S)
<1>1. CASE t.plan = {}
  BY <1>1 DEF ViewOf
<1>2. CASE t.plan # {}
  <2> DEFINE plan == t.plan pw == t.password e == Effects(c, plan, pw) f == Effects(d, plan, pw)
  <2>1. plan \in SUBSET Objects /\ ViewOf(c, t) = e /\ ViewOf(d, t) = f
    BY <1>2 DEF ViewOf, RuntimeRoleTool
  <2> HIDE DEF plan, pw
  <2>2. /\ e.restricted = TRUE /\ e.create = FALSE /\ e.roleDefault = FALSE
        /\ e.publicDefault = FALSE /\ e.ownPublic = FALSE
        /\ f.restricted = TRUE /\ f.create = FALSE /\ f.roleDefault = FALSE
        /\ f.publicDefault = FALSE /\ f.ownPublic = FALSE
    BY <2>1, EffectsFields
  <2>3. e.beyond = c.beyond /\ f.beyond = d.beyond /\ e.public = c.public /\ f.public = d.public
    BY <2>1, EffectsKeeps
  <2>4. /\ \A o \in Tables : e.grants[o] = Converged(c, o, plan) /\ f.grants[o] = Converged(d, o, plan)
        /\ \A o \in plan : o \in e.execute <=> o \in f.execute
        /\ \A o : o \notin plan => (o \in e.execute <=> o \in c.execute)
        /\ \A o : o \notin plan => (o \in f.execute <=> o \in d.execute)
    BY <2>1, EffectsObjects
  <2> HIDE DEF e, f
  <2> QED
    <3>1. ASSUME NEW o \in S, o \in Tables
          PROVE  f.grants[o] = e.grants[o]
      BY <3>1, <2>4 DEF SeenAlike, Converged
    <3>2. ASSUME NEW o \in S
          PROVE  (o \in f.public <=> o \in e.public) /\ (o \in f.execute <=> o \in e.execute)
      BY <2>3, <2>4 DEF SeenAlike
    <3>3. f.beyond = e.beyond
      BY <2>3 DEF SeenAlike
    <3>4. SeenAlike(e, f, S)
      BY <2>2, <3>1, <3>2, <3>3 DEF SeenAlike
    <3> QED
      BY <2>1, <3>4
<1> QED
  BY <1>1, <1>2

LEMMA RolesStart == RoleInit => RolesInv
<1> SUFFICES ASSUME RoleInit PROVE RolesInv
  OBVIOUS
<1>1. catalog \in Catalog
  BY DEF RoleInit, Catalog
<1>2. tool \in RuntimeRoleTool
  BY DEF RoleInit, NoTool, RuntimeRoleTool
<1> QED
  BY <1>1, <1>2, ClassifiedAssumption
     DEF RoleInit, NoTool, NoExit, NotApplied, RolesInv, RoleTypes, Remembered, Examined,
         RuntimeRoleInv, RoleTypeOK, FailsClosed, ZeroMeansExact, NoOpTwice, RoleUsable, Inventory

LEMMA RolesStutter == RolesInv /\ UNCHANGED roleVars => RolesInv'
BY DEF roleVars, RolesInv, RoleTypes, Remembered, Examined, Exact, View, RuntimeRoleInv, RoleTypeOK,
       FailsClosed, ZeroMeansExact, NoOpTwice, RoleUsable

\* A step of the tool that leaves the catalog and what is remembered alone.
LEMMA ToolMoves ==
  ASSUME RolesInv, UNCHANGED <<catalog, drifts, exit, applied>>,
         tool' \in RuntimeRoleTool, tool'.plan \cup tool'.looked \subseteq Inventory(catalog),
         tool'.plan # {} => catalog.exists \/ tool'.password,
         tool'.clean => tool'.at \in {"looked", "checked"},
         tool'.clean /\ tool'.at = "checked" /\ ~tool'.problem => Exact(View', tool'.looked)
  PROVE  RolesInv'
<1>1. RoleTypes'
  BY DEF RolesInv, RoleTypes
<1>2. Remembered'
  BY DEF RolesInv, Remembered, Inventory
<1>3. Examined'
  BY DEF Examined
<1>4. RoleTypeOK'
  BY DEF RolesInv, RoleTypes, Remembered, RuntimeRoleInv, RoleTypeOK, Inventory, Objects
<1>5. (FailsClosed /\ ZeroMeansExact /\ NoOpTwice /\ RoleUsable)'
  BY DEF RolesInv, RuntimeRoleInv, FailsClosed, ZeroMeansExact, NoOpTwice, RoleUsable
<1> QED
  BY <1>1, <1>2, <1>3, <1>4, <1>5 DEF RolesInv, RuntimeRoleInv

\* The tool ends with nothing found in order, or has to say nothing of it.
LEMMA ToolEnds ==
  ASSUME RolesInv, UNCHANGED <<catalog, drifts, applied>>, Ends("1") \/ Ends("2")
  PROVE  RolesInv'
<1>1. tool' = NoTool /\ exit' = NoExit
  BY DEF Ends
<1>2. RoleTypes' /\ Remembered'
  BY <1>1 DEF NoTool, NoExit, RolesInv, RoleTypes, RuntimeRoleTool, Remembered, Inventory
<1>3. Examined' /\ ZeroMeansExact'
  BY <1>1 DEF NoTool, NoExit, Examined, ZeroMeansExact
<1>4. (RoleTypeOK /\ FailsClosed /\ NoOpTwice /\ RoleUsable)'
  BY <1>1 DEF NoTool, RolesInv, RuntimeRoleInv, RoleTypeOK, FailsClosed, NoOpTwice, RoleUsable, Inventory
<1> QED
  BY <1>2, <1>3, <1>4 DEF RolesInv, RuntimeRoleInv

LEMMA RoleMigrate ==
  ASSUME RolesInv, NEW o \in Objects, NEW careful \in BOOLEAN, Migrate(o, careful)
  PROVE  RolesInv'
<1>1. o \notin Inventory(catalog) /\ UNCHANGED <<drifts, tool, exit, applied>>
      /\ catalog \in Catalog
  BY DEF Migrate, RolesInv, RoleTypes
<1>2. /\ catalog' \in Catalog
      /\ catalog'.exists = catalog.exists /\ catalog'.credential = catalog.credential
      /\ catalog'.restricted = catalog.restricted /\ catalog'.beyond = catalog.beyond
      /\ catalog'.create = catalog.create /\ catalog'.execute = catalog.execute
      /\ catalog'.roleDefault = catalog.roleDefault
      /\ catalog'.publicDefault = catalog.publicDefault
      /\ catalog'.ownPublic = catalog.ownPublic /\ catalog'.artifact = catalog.artifact
  BY <1>1 DEF Migrate, Catalog, Objects
<1>3. /\ Inventory(catalog') = Inventory(catalog) \cup {o}
      /\ catalog'.public \subseteq catalog.public \cup {o}
      /\ catalog.public \subseteq catalog'.public
      /\ \A t \in Tables \ {o} : catalog'.grants[t] = catalog.grants[t]
      /\ o \in Tables => catalog'.public = catalog.public /\ catalog'.functions = catalog.functions
      /\ catalog'.public \ catalog.public \subseteq catalog'.functions
      /\ catalog.functions \subseteq catalog'.functions
      /\ catalog.roleDefault = FALSE /\ o \in Tables => catalog'.grants[o] = {}
      /\ catalog.publicDefault = FALSE => catalog'.public = catalog.public
  BY <1>1 DEF Migrate, Catalog, Objects, Inventory
<1>4. RoleTypes'
  BY <1>1, <1>2 DEF RolesInv, RoleTypes
<1>5. Remembered'
  BY <1>1, <1>3 DEF RolesInv, Remembered
<1>6. \A S \in SUBSET Inventory(catalog) : SeenAlike(catalog, catalog', S)
  BY <1>1, <1>2, <1>3 DEF SeenAlike
<1>7. tool.looked \subseteq Inventory(catalog) /\ exit.looked \subseteq Inventory(catalog)
      /\ tool \in RuntimeRoleTool
  BY DEF RolesInv, Remembered, RuntimeRoleInv, RoleTypeOK, RoleTypes
<1>8. Examined'
  <2>1. View = ViewOf(catalog, tool) /\ View' = ViewOf(catalog', tool)
    BY <1>1 DEF View, ViewOf
  <2>2. SeenAlike(View, View', tool.looked)
    BY <1>1, <1>2, <1>6, <1>7, <2>1, ViewAlike
  <2>3. tool.clean /\ tool.at = "checked" /\ ~tool.problem => Exact(View', tool.looked)
    BY <2>2, ExactAlike DEF RolesInv, Examined
  <2> QED
    BY <1>1, <1>2, <2>3 DEF RolesInv, Examined
<1>9. ZeroMeansExact'
  <2>1. exit.clean => Exact(catalog', exit.looked)
    BY <1>6, <1>7, ExactAlike DEF RolesInv, RuntimeRoleInv, ZeroMeansExact, Exact
  <2> QED
    BY <1>1, <2>1 DEF ZeroMeansExact, Exact
<1>10. RoleTypeOK'
  <2>1. Inventory(catalog') \subseteq Objects
    BY <1>2 DEF Inventory, Objects, Catalog
  <2> QED
    BY <1>1, <1>2, <1>3, <2>1
       DEF RolesInv, RuntimeRoleInv, RoleTypeOK, Catalog
<1>11. applied.clean => Settled(catalog, applied.plan) /\ applied.plan \in SUBSET Objects
  <2>1. applied.plan \in SUBSET Objects
    BY DEF RolesInv, RoleTypes
  <2> QED
    BY <1>1, <2>1, NothingLeft DEF RolesInv, RuntimeRoleInv, NoOpTwice
<1>12. FailsClosed'
  <2> SUFFICES ASSUME applied.clean
               PROVE  /\ \A t \in Tables \cap applied.plan : catalog'.grants[t] = Wanted(t)
                      /\ \A x \in Inventory(catalog') \ applied.known :
                            IF x \in Tables THEN catalog'.grants[x] = {} ELSE x \notin MayExecute(catalog')
    BY <1>1 DEF FailsClosed
  <2>1. catalog.roleDefault = FALSE /\ catalog.publicDefault = FALSE
    BY <1>1, <1>11 DEF Settled, Catalog
  <2>2. \A t \in Tables \cap applied.plan : t # o
    BY <1>1 DEF RolesInv, Remembered
  <2>3. \A t \in Tables \cap applied.plan : catalog'.grants[t] = Wanted(t)
    BY <1>3, <2>2 DEF RolesInv, RuntimeRoleInv, FailsClosed
  <2>4. IF o \in Tables THEN catalog'.grants[o] = {} ELSE o \notin MayExecute(catalog')
    BY <1>1, <1>2, <1>3, <2>1 DEF RolesInv, RuntimeRoleInv, RoleTypeOK, MayExecute, Inventory
  <2>5. ASSUME NEW x \in Inventory(catalog) \ applied.known
        PROVE  IF x \in Tables THEN catalog'.grants[x] = {} ELSE x \notin MayExecute(catalog')
    BY <1>1, <1>2, <1>3 DEF RolesInv, RuntimeRoleInv, FailsClosed, MayExecute
  <2> QED
    BY <1>3, <2>3, <2>4, <2>5
<1>13. NoOpTwice'
  <2>1. applied.clean => Settled(catalog', applied.plan)
    BY <1>1, <1>2, <1>3, <1>11 DEF Settled, RolesInv, Remembered
  <2> QED
    BY <1>1, <1>2, <1>11, <2>1, NothingLeft DEF NoOpTwice
<1>14. RoleUsable'
  BY <1>2 DEF RolesInv, RuntimeRoleInv, RoleUsable
<1> QED
  BY <1>4, <1>5, <1>8, <1>9, <1>10, <1>12, <1>13, <1>14 DEF RolesInv, RuntimeRoleInv


LEMMA RoleDrift ==
  ASSUME RolesInv, Drift
  PROVE  RolesInv'
<1>1. /\ tool' = [tool EXCEPT !.clean = FALSE] /\ exit' = NoExit /\ applied' = NotApplied
      /\ drifts < MaxDrift /\ drifts' = drifts + 1 /\ catalog.exists
  BY DEF Drift
<1>2. /\ catalog' \in Catalog
      /\ catalog'.exists = catalog.exists /\ catalog'.credential = catalog.credential
      /\ catalog'.execute = catalog.execute /\ catalog'.artifact = catalog.artifact
      /\ catalog'.tables = catalog.tables /\ catalog'.functions = catalog.functions
      /\ catalog'.public \subseteq catalog.functions
  <2>1. catalog \in Catalog /\ catalog.public \subseteq catalog.functions
    BY DEF RolesInv, RoleTypes, RuntimeRoleInv, RoleTypeOK
  <2>2. CASE \E b \in SUBSET {"member", "owner"} : catalog' = [catalog EXCEPT !.beyond = b]
    BY <2>1, <2>2 DEF Catalog
  <2>3. CASE catalog' = [catalog EXCEPT !.restricted = FALSE]
    BY <2>1, <2>3 DEF Catalog
  <2>4. CASE catalog' = [catalog EXCEPT !.create = TRUE]
    BY <2>1, <2>4 DEF Catalog
  <2>5. CASE catalog' = [catalog EXCEPT !.roleDefault = TRUE]
    BY <2>1, <2>5 DEF Catalog
  <2>6. CASE \E t \in catalog.tables, ps \in {{}, Privileges} : catalog' = [catalog EXCEPT !.grants[t] = ps]
    <3>1. PICK t \in catalog.tables, ps \in {{}, Privileges} : catalog' = [catalog EXCEPT !.grants[t] = ps]
      BY <2>6
    <3>2. PICK granted : granted = [catalog.grants EXCEPT ![t] = ps]
      OBVIOUS
    <3>3. granted \in [Tables -> SUBSET Privileges]
      BY <2>1, <3>2 DEF Catalog
    <3>4. catalog' = [catalog EXCEPT !.grants = granted]
      BY <3>1, <3>2
    <3> QED
      BY <2>1, <3>3, <3>4 DEF Catalog
  <2>7. CASE \E f \in catalog.functions : \/ catalog' = [catalog EXCEPT !.public = @ \cup {f}]
                                          \/ catalog' = [catalog EXCEPT !.public = @ \ {f}]
    <3>1. PICK public \in SUBSET catalog.functions : catalog' = [catalog EXCEPT !.public = public]
      BY <2>1, <2>7
    <3>2. public \in SUBSET Functions
      BY <2>1 DEF Catalog
    <3> QED
      BY <2>1, <3>1, <3>2 DEF Catalog
  <2> QED
    BY <2>2, <2>3, <2>4, <2>5, <2>6, <2>7 DEF Drift
<1>3. /\ tool' \in RuntimeRoleTool /\ tool'.clean = FALSE /\ tool'.plan = tool.plan
      /\ tool'.looked = tool.looked /\ tool'.password = tool.password
  BY <1>1 DEF RolesInv, RoleTypes, RuntimeRoleTool
<1>4. exit' = NoExit /\ applied' = NotApplied /\ exit'.clean = FALSE /\ applied'.clean = FALSE
      /\ exit'.looked = {} /\ applied'.plan = {} /\ applied'.known = {}
  BY <1>1 DEF NoExit, NotApplied
<1>5. RoleTypes' /\ Remembered'
  BY <1>1, <1>2, <1>3, <1>4 DEF RolesInv, RoleTypes, Remembered, Inventory, NoExit, NotApplied
<1>6. Examined' /\ ZeroMeansExact' /\ FailsClosed' /\ NoOpTwice'
  BY <1>1, <1>2, <1>3, <1>4 DEF RolesInv, Examined, ZeroMeansExact, FailsClosed, NoOpTwice
<1>7. RoleTypeOK'
  <2>1. drifts' \in 0..MaxDrift
    BY <1>1, ClassifiedAssumption DEF RolesInv, RuntimeRoleInv, RoleTypeOK
  <2> QED
    BY <1>2, <1>3, <2>1 DEF RolesInv, RuntimeRoleInv, RoleTypeOK, Catalog, Inventory
<1>8. RoleUsable'
  BY <1>2 DEF RolesInv, RuntimeRoleInv, RoleUsable
<1> QED
  BY <1>5, <1>6, <1>7, <1>8 DEF RolesInv, RuntimeRoleInv

LEMMA RoleExamine ==
  ASSUME RolesInv, ExecutePlan \/ LookAtRole \/ CheckObjects
  PROVE  RolesInv'
<1>1. /\ tool \in RuntimeRoleTool /\ catalog \in Catalog /\ Inventory(catalog) \subseteq Objects
      /\ tool.plan \subseteq Inventory(catalog) /\ tool.looked \subseteq Inventory(catalog)
      /\ tool.plan # {} => catalog.exists \/ tool.password
  BY DEF RolesInv, RoleTypes, Remembered, RuntimeRoleInv, RoleTypeOK, Inventory, Objects, Examined
<1>2. CASE ExecutePlan
  <2>1. /\ tool' = [tool EXCEPT !.at = "executed", !.plan = Inventory(catalog)]
        /\ catalog.exists \/ tool.password
    BY <1>2 DEF ExecutePlan, Planned
  <2>2. tool.clean = FALSE
    BY <1>2 DEF ExecutePlan, RolesInv, Examined, RoleTypes, RuntimeRoleTool
  <2>3. /\ tool' \in RuntimeRoleTool /\ tool'.plan = Inventory(catalog) /\ tool'.looked = tool.looked
        /\ tool'.password = tool.password /\ tool'.clean = FALSE
    BY <1>1, <2>1, <2>2 DEF RuntimeRoleTool
  <2> QED
    BY <1>1, <1>2, <2>1, <2>3, ToolMoves DEF ExecutePlan
<1>3. CASE LookAtRole
  <2>1. tool' = [tool EXCEPT !.at = "looked", !.looked = Inventory(View), !.clean = TRUE,
                             !.problem = ~View.restricted]
        /\ UNCHANGED <<catalog, drifts, exit, applied>>
    BY <1>3 DEF LookAtRole
  <2>2. Inventory(View) = Inventory(catalog)
    <3>1. View = ViewOf(catalog, tool)
      BY DEF View, ViewOf
    <3> QED
      BY <1>1, <3>1, ViewTyped
  <2>3. tool' = [tool EXCEPT !.at = "looked", !.looked = Inventory(catalog), !.clean = TRUE,
                             !.problem = ~View.restricted]
    BY <2>1, <2>2
  <2>4. (~View.restricted) \in BOOLEAN
    OBVIOUS
  <2>5. /\ tool' \in RuntimeRoleTool /\ tool'.plan = tool.plan /\ tool'.looked = Inventory(catalog)
        /\ tool'.password = tool.password /\ tool'.at = "looked"
    BY <1>1, <2>3 DEF RuntimeRoleTool
  <2> QED
    BY <1>1, <2>1, <2>5, ToolMoves
<1>4. CASE CheckObjects
  <2> DEFINE found == tool.problem \/ RoleProblem(View) \/ \E o \in tool.looked : ObjectProblem(View, o)
  <2>1. tool.at = "looked" /\ tool' = [tool EXCEPT !.at = "checked", !.problem = found]
        /\ UNCHANGED <<catalog, drifts, exit, applied>>
    BY <1>4 DEF CheckObjects
  <2>2. found \in BOOLEAN
    OBVIOUS
  <2>3. ~found => Exact(View, tool.looked)
    BY DEF Exact
  <2> HIDE DEF found
  <2>4. /\ tool' \in RuntimeRoleTool /\ tool'.plan = tool.plan /\ tool'.looked = tool.looked
        /\ tool'.password = tool.password /\ tool'.at = "checked" /\ tool'.problem = found
    BY <1>1, <2>1, <2>2 DEF RuntimeRoleTool
  <2>5. View' = View
    BY <2>1, <2>4 DEF View
  <2> QED
    BY <1>1, <2>1, <2>3, <2>4, <2>5, ToolMoves
<1> QED
  BY <1>2, <1>3, <1>4

\* What is committed is what the tool has seen, and its plan has nothing left to do.
LEMMA RoleFinish ==
  ASSUME RolesInv, FinishTool
  PROVE  RolesInv'
<1>1. /\ tool \in RuntimeRoleTool /\ catalog \in Catalog /\ tool.plan \in SUBSET Objects
      /\ catalog' = ViewOf(catalog, tool) /\ tool' = NoTool /\ drifts' = drifts
      /\ exit' = IF tool.problem THEN NoExit ELSE [looked |-> tool.looked, clean |-> tool.clean]
      /\ applied' = IF tool.plan = {} THEN applied
                    ELSE IF ~tool.clean THEN NotApplied
                    ELSE [plan |-> tool.plan, known |-> Inventory(catalog), clean |-> TRUE]
  BY DEF FinishTool, Ends, View, ViewOf, RolesInv, RoleTypes, RuntimeRoleTool
<1>2. catalog' \in Catalog /\ Inventory(catalog') = Inventory(catalog)
  BY <1>1, ViewTyped
<1>3. tool' \in RuntimeRoleTool /\ tool'.plan = {} /\ tool'.looked = {} /\ tool'.clean = FALSE
  BY <1>1 DEF NoTool, RuntimeRoleTool
<1>4. tool.plan \subseteq Inventory(catalog) /\ tool.looked \subseteq Inventory(catalog)
      /\ Inventory(catalog) \subseteq Objects
  BY <1>1 DEF RolesInv, Remembered, RuntimeRoleInv, RoleTypeOK, Inventory, Objects, Catalog
<1>5. /\ exit' \in [looked : SUBSET Objects, clean : BOOLEAN]
      /\ exit'.looked \subseteq Inventory(catalog)
      /\ exit'.clean => exit'.looked = tool.looked /\ tool.clean /\ ~tool.problem
  <2>1. CASE tool.problem
    BY <1>1, <2>1 DEF NoExit
  <2>2. CASE ~tool.problem
    BY <1>1, <1>4, <2>2 DEF RuntimeRoleTool
  <2> QED
    BY <2>1, <2>2
<1>6. /\ applied' \in [plan : SUBSET Objects, known : SUBSET Objects, clean : BOOLEAN]
      /\ applied'.plan \subseteq Inventory(catalog)
  <2>1. CASE tool.plan = {}
    BY <1>1, <2>1 DEF RolesInv, RoleTypes, Remembered
  <2>2. CASE tool.plan # {} /\ ~tool.clean
    BY <1>1, <2>2 DEF NotApplied
  <2>3. CASE tool.plan # {} /\ tool.clean
    <3>1. applied' = [plan |-> tool.plan, known |-> Inventory(catalog), clean |-> TRUE]
      BY <1>1, <2>3
    <3>2. tool.plan \in SUBSET Objects /\ Inventory(catalog) \in SUBSET Objects
          /\ tool.plan \subseteq Inventory(catalog)
      BY <1>1, <1>4
    <3> QED
      BY <3>1, <3>2
  <2> QED
    BY <2>1, <2>2, <2>3
<1>7. RoleTypes' /\ Remembered' /\ Examined'
  BY <1>2, <1>3, <1>5, <1>6 DEF RolesInv, RoleTypes, Remembered, Examined
<1>8. ZeroMeansExact'
  <2>1. exit'.clean => Exact(View, tool.looked)
    BY <1>5 DEF RolesInv, Examined, FinishTool
  <2>2. View = catalog'
    BY DEF FinishTool
  <2> QED
    BY <1>5, <2>1, <2>2 DEF ZeroMeansExact, Exact
<1>9. CASE tool.plan = {}
  <2>1. catalog' = catalog /\ applied' = applied
    BY <1>1, <1>9 DEF ViewOf
  <2> QED
    BY <1>1, <1>3, <1>7, <1>8, <2>1
       DEF RolesInv, RuntimeRoleInv, RoleTypeOK, FailsClosed, NoOpTwice, RoleUsable
<1>10. CASE tool.plan # {}
  <2> DEFINE plan == tool.plan pw == tool.password d == Effects(catalog, plan, pw)
  <2>1. plan \in SUBSET Objects /\ catalog' = d /\ pw \in BOOLEAN
    BY <1>1, <1>10 DEF ViewOf, RuntimeRoleTool
  <2> HIDE DEF plan, pw
  <2>2. d.exists = TRUE /\ d.restricted = TRUE /\ d.create = FALSE /\ d.roleDefault = FALSE
        /\ d.publicDefault = FALSE /\ d.ownPublic = FALSE
    BY <1>1, <2>1, EffectsFields
  <2>3. d.tables = catalog.tables /\ d.functions = catalog.functions /\ d.public = catalog.public
        /\ d.artifact = catalog.artifact
    BY <1>1, <2>1, EffectsKeeps
  <2>4. /\ \A t \in Tables : d.grants[t] = Converged(catalog, t, plan)
        /\ \A f \in plan : f \in d.execute <=> f \in FunctionGrants
        /\ \A f : f \notin plan => (f \in d.execute <=> f \in catalog.execute)
    BY <1>1, <2>1, EffectsObjects
  <2>5. d.credential = TRUE
    <3>1. catalog.exists \/ pw
      BY <1>10 DEF RolesInv, Examined, pw
    <3>2. catalog.exists => catalog.credential = TRUE
      BY <1>1 DEF RolesInv, RuntimeRoleInv, RoleUsable, Catalog
    <3>3. pw => pw = TRUE
      BY <2>1
    <3> QED
      BY <1>1, <2>1, <3>1, <3>2, <3>3, EffectsCredential
  <2> HIDE DEF d
  <2>6. Settled(d, plan)
    BY <2>2, <2>4 DEF Settled, Converged
  <2>7. RoleTypeOK'
    <3>1. catalog'.execute \subseteq catalog'.functions
      <4> SUFFICES ASSUME NEW f \in d.execute PROVE f \in catalog.functions
        BY <2>1, <2>3
      <4>1. CASE f \in plan
        <5>1. f \in FunctionGrants /\ f \in Inventory(catalog)
          BY <1>4, <2>4, <4>1 DEF plan
        <5> QED
          BY <1>1, <5>1, ClassifiedAssumption DEF Inventory, Catalog
      <4>2. CASE f \notin plan
        BY <2>4, <4>2 DEF RolesInv, RuntimeRoleInv, RoleTypeOK
      <4> QED
        BY <4>1, <4>2
    <3>2. catalog'.public \subseteq catalog'.functions /\ drifts' \in 0..MaxDrift
      BY <1>1, <2>1, <2>3 DEF RolesInv, RuntimeRoleInv, RoleTypeOK
    <3> QED
      BY <1>2, <1>3, <3>1, <3>2 DEF RoleTypeOK, Catalog
  <2>8. applied'.clean => applied'.plan = plan /\ applied'.known = Inventory(catalog)
    BY <1>1, <1>10 DEF NotApplied, plan
  <2>9. FailsClosed'
    BY <1>2, <2>1, <2>6, <2>8 DEF FailsClosed, Settled
  <2>10. NoOpTwice'
    <3>1. Effects(d, plan, FALSE) = d
      BY <1>2, <2>1, <2>6, NothingLeft
    <3> QED
      BY <2>1, <2>8, <3>1 DEF NoOpTwice
  <2>11. RoleUsable'
    BY <2>1, <2>3, <2>5 DEF RolesInv, RuntimeRoleInv, RoleUsable
  <2> QED
    BY <1>7, <1>8, <2>7, <2>9, <2>10, <2>11 DEF RolesInv, RuntimeRoleInv
<1> QED
  BY <1>9, <1>10

LEMMA RoleStart ==
  ASSUME RolesInv, NEW op \in {"apply", "verify", "probe"}, NEW password \in BOOLEAN,
         StartTool(op, password)
  PROVE  RolesInv'
<1>1. tool' = [NoTool EXCEPT !.at = "connected", !.op = op, !.password = password]
      /\ UNCHANGED <<catalog, drifts, exit, applied>>
  BY DEF StartTool
<1>2. tool' \in RuntimeRoleTool /\ tool'.plan = {} /\ tool'.looked = {} /\ tool'.clean = FALSE
  BY <1>1 DEF NoTool, RuntimeRoleTool
<1> QED
  BY <1>1, <1>2, ToolMoves

\* A probe has seen nothing that would have to stay so.
LEMMA RoleProbe ==
  ASSUME RolesInv,
         \/ \E asRole \in BOOLEAN : PassGate(asRole)
         \/ LookForArtifacts \/ TryToCreate \/ EndOfProbe
  PROVE  RolesInv'
<1>1. CASE Ends("1") /\ UNCHANGED <<catalog, drifts, applied>>
  BY <1>1, ToolEnds
<1>2. CASE /\ \E at \in {"gated", "probing", "tried", "checked"}, p \in BOOLEAN :
                 tool' = [tool EXCEPT !.at = at, !.problem = p]
           /\ tool.at \in {"connected", "gated", "probing", "tried"}
           /\ UNCHANGED <<catalog, drifts, exit, applied>>
  <2>1. tool \in RuntimeRoleTool /\ tool.clean = FALSE
    BY <1>2 DEF RolesInv, RoleTypes, RuntimeRoleTool, Examined
  <2>2. tool' \in RuntimeRoleTool /\ tool'.plan = tool.plan /\ tool'.looked = tool.looked
        /\ tool'.password = tool.password /\ tool'.clean = FALSE
    BY <1>2, <2>1 DEF RuntimeRoleTool
  <2> QED
    BY <1>2, <2>2, ToolMoves DEF RolesInv, Remembered, Examined, RuntimeRoleInv, RoleTypeOK
<1>3. tool \in RuntimeRoleTool /\ catalog \in Catalog
  BY DEF RolesInv, RoleTypes
<1>4. ASSUME NEW at, tool' = [tool EXCEPT !.at = at]
      PROVE  tool.problem \in BOOLEAN /\ tool' = [tool EXCEPT !.at = at, !.problem = tool.problem]
  BY <1>3, <1>4 DEF RuntimeRoleTool
<1>5. CASE \E asRole \in BOOLEAN : PassGate(asRole)
  BY <1>1, <1>2, <1>4, <1>5 DEF PassGate
<1>6. CASE LookForArtifacts
  BY <1>1, <1>2, <1>4, <1>6 DEF LookForArtifacts
<1>7. CASE TryToCreate
  BY <1>2, <1>7 DEF TryToCreate
<1>8. CASE EndOfProbe
  BY <1>2, <1>4, <1>8 DEF EndOfProbe, RolledBack
<1> QED
  BY <1>5, <1>6, <1>7, <1>8

LEMMA RolesKept == RolesInv /\ RoleStep => RolesInv'
<1> SUFFICES ASSUME RolesInv, RoleStep PROVE RolesInv'
  OBVIOUS
<1>1. ASSUME FailTool PROVE RolesInv'
  BY <1>1, ToolEnds DEF FailTool
<1> QED
  BY <1>1, RoleMigrate, RoleDrift, RoleExamine, RoleFinish, RoleStart, RoleProbe DEF RoleStep

-----------------------------------------------------------------------------
(* People *)

\* A set of naturals that is not empty has a least element.
LEMMA LowestRow ==
  ASSUME NEW S \in SUBSET Nat, S # {}
  PROVE  Lowest(S) \in S /\ \A k \in S : Lowest(S) <= k
<1> DEFINE R == OpToRel(<, Nat)
<1>1. IsWellFoundedOn(R, Nat)
  BY NatLessThanWellFounded
<1>2. \A x, y \in Nat : y < x => <<y, x>> \in R
  BY DEF OpToRel
<1> HIDE DEF R
<1>3. PICK x \in S : \A y \in S : ~ (<<y, x>> \in R)
  BY <1>1, WFMin
<1>4. \A y \in S : y \in Nat /\ x \in Nat /\ ~(y < x)
  BY <1>2, <1>3, Zenon
<1>5. \A y \in S : x <= y
  BY <1>4
<1> QED
  BY <1>3, <1>5 DEF Lowest

LEMMA LowestFree ==
  ASSUME FreeRows # {}
  PROVE  Lowest(FreeRows) \in Rows /\ role[Lowest(FreeRows)] = NoRow
         /\ \A k \in Rows : role[k] = NoRow => Lowest(FreeRows) <= k
<1>1. FreeRows \in SUBSET Nat
  BY CacheAssumption DEF FreeRows
<1>2. Lowest(FreeRows) \in FreeRows /\ \A k \in FreeRows : Lowest(FreeRows) <= k
  BY <1>1, LowestRow
<1> HIDE DEF Lowest
<1> QED
  BY <1>2 DEF FreeRows

\* Who holds a role is somebody, and the row is one in use.
LEMMA RowInUse ==
  ASSUME IdentityTypes, NEW i \in Rows
  PROVE  (role[i].actor \in Actors <=> role[i] # NoRow) /\ (role[i].active => role[i] # NoRow)
BY NilAssumption DEF IdentityTypes, RoleAssignment, NoRow

\* A cached key was served one life of the cache ago at most.
LEMMA YoungMeansFresh ==
  IdentityTypes /\ CacheYoung => KeysFresh
<1> SUFFICES ASSUME IdentityTypes, CacheYoung, NEW k \in jwks.keys, tick < jwks.expires
             PROVE  Age(k) < Ttl
  BY DEF KeysFresh
<1>1. k \in Kids /\ provider.until[k] \in Nat /\ tick \in Nat /\ jwks.expires \in Nat
  BY DEF IdentityTypes
<1>2. CASE k \in provider.served
  BY <1>2, CacheAssumption DEF Age
<1>3. CASE k \notin provider.served
  BY <1>1, <1>3, CacheAssumption DEF Age, CacheYoung
<1> QED
  BY <1>2, <1>3

\* The request r goes on, or starts again, and has not yet been led to a tenant.
LEMMA RequestEarly ==
  ASSUME PeopleInv, NEW r \in Requesters, UNCHANGED personVars,
         asked'[r].at \notin {"tenant", "actor", "serving"},
         \A q \in Requesters \ {r} : asked'[q] = asked[q]
  PROVE  RowsInOrder' /\ Found' /\ BoundOnce' /\ ServedAsOneself'
<1>1. RowsInOrder' /\ BoundOnce'
  BY DEF PeopleInv, IdentityInv, RowsInOrder, BoundOnce, personVars, Bound
<1>2. Found'
  BY DEF PeopleInv, Found, personVars
<1>3. ServedAsOneself'
  BY DEF PeopleInv, IdentityInv, ServedAsOneself, AskedAt, personVars
<1> QED
  BY <1>1, <1>2, <1>3

LEMMA PeopleStutter == PeopleInv /\ UNCHANGED identityVars => PeopleInv'
<1> SUFFICES ASSUME PeopleInv, UNCHANGED identityVars PROVE PeopleInv'
  OBVIOUS
<1> USE DEF identityVars, keyVars, personVars
<1>1. IdentityTypes' /\ CacheYoung' /\ RowsInOrder' /\ Found'
  BY DEF PeopleInv, IdentityTypes, CacheYoung, RowsInOrder, Found
<1>2. IdentityInv'
  BY DEF PeopleInv, IdentityInv, IdentityTypeOK, KeysFresh, Age, BoundOnce, ServedAsOneself, AskedAt
<1> QED
  BY <1>1, <1>2 DEF PeopleInv

LEMMA PeopleStart == IdentityInit => PeopleInv
<1> SUFFICES ASSUME IdentityInit PROVE PeopleInv
  OBVIOUS
<1>1. IdentityTypes
  BY DEF IdentityInit, IdentityTypes, NoRequest, Principal, Owner
<1>2. CacheYoung /\ RowsInOrder /\ Found
  BY CacheAssumption DEF IdentityInit, CacheYoung, RowsInOrder, Found, NoRequest
<1>3. IdentityInv
  BY NilAssumption
     DEF IdentityInit, IdentityInv, IdentityTypeOK, KeysFresh, BoundOnce, ServedAsOneself, AskedAt,
         NoRequest
<1> QED
  BY <1>1, <1>2, <1>3 DEF PeopleInv

-----------------------------------------------------------------------------
(* The keys *)

LEMMA KeysOfTime ==
  ASSUME PeopleInv, TimePasses
  PROVE  PeopleInv'
<1>1. UNCHANGED <<provider, jwks, asked, personVars>> /\ tick' = tick + 1 /\ tick < MaxTick
  BY DEF TimePasses
<1>2. IdentityTypes' /\ CacheYoung'
  BY <1>1, CacheAssumption DEF PeopleInv, IdentityTypes, CacheYoung, personVars
<1>3. KeysFresh'
  BY <1>2, YoungMeansFresh, PTL
<1>4. IdentityTypeOK'
  BY <1>1, NilAssumption DEF PeopleInv, IdentityInv, IdentityTypeOK, personVars, AskedAt
<1>5. RowsInOrder' /\ Found' /\ BoundOnce' /\ ServedAsOneself'
  BY <1>1 DEF PeopleInv, IdentityInv, RowsInOrder, Found, BoundOnce, ServedAsOneself, AskedAt, personVars
<1> QED
  BY <1>2, <1>3, <1>4, <1>5 DEF PeopleInv, IdentityInv

LEMMA KeysRotate ==
  ASSUME PeopleInv, NEW k \in Kids, Rotate(k)
  PROVE  PeopleInv'
<1>1. UNCHANGED <<tick, jwks, asked, personVars>>
      /\ provider' = [served |-> {k}, until |-> [x \in Kids |-> IF x \in provider.served THEN tick
                                                              ELSE provider.until[x]]]
  BY DEF Rotate
<1>2. IdentityTypes'
  BY <1>1 DEF PeopleInv, IdentityTypes, personVars
<1>3. CacheYoung'
  <2>1. jwks.expires <= tick + Ttl /\ \A x \in jwks.keys : x \in Kids
    BY DEF PeopleInv, CacheYoung, IdentityTypes
  <2>2. ASSUME NEW x \in jwks.keys
        PROVE  jwks.expires <= provider'.until[x] + Ttl
    BY <1>1, <2>1 DEF PeopleInv, CacheYoung
  <2> QED
    BY <1>1, <2>1, <2>2 DEF CacheYoung
<1>4. KeysFresh'
  BY <1>2, <1>3, YoungMeansFresh, PTL
<1>5. IdentityTypeOK' /\ RowsInOrder' /\ Found' /\ BoundOnce' /\ ServedAsOneself'
  BY <1>1
     DEF PeopleInv, IdentityInv, IdentityTypeOK, RowsInOrder, Found, BoundOnce, ServedAsOneself, AskedAt,
         personVars
<1> QED
  BY <1>2, <1>3, <1>4, <1>5 DEF PeopleInv, IdentityInv

\* A request on its way to a verified token holds the lock while it looks, and only then.
Inside == {"refreshing", "lookup", "forcing", "decided"}
LEMMA KeysAsked ==
  ASSUME PeopleInv, NEW r \in Requesters, UNCHANGED <<provider, tick, personVars>>,
         asked' \in [Requesters -> Principal],
         \A q \in Requesters \ {r} : asked'[q] = asked[q],
         asked'[r].at \notin {"tenant", "actor", "serving"},
         jwks' \in [keys : SUBSET Kids, expires : Nat, forced : Nat, lock : Requesters \cup {Nil}],
         CacheYoung',
         asked'[r].at \in Inside <=> jwks'.lock = r,
         \A q \in Requesters \ {r} : jwks'.lock = q <=> jwks.lock = q
  PROVE  PeopleInv'
<1>1. IdentityTypes'
  BY DEF PeopleInv, IdentityTypes, personVars
<1>2. KeysFresh'
  BY <1>1, YoungMeansFresh, PTL
<1>3. IdentityTypeOK'
  BY DEF PeopleInv, IdentityInv, IdentityTypeOK, Inside, personVars, AskedAt
<1>4. RowsInOrder' /\ Found' /\ BoundOnce' /\ ServedAsOneself'
  BY RequestEarly
<1> QED
  BY <1>1, <1>2, <1>3, <1>4 DEF PeopleInv, IdentityInv

LEMMA KeysFacts ==
  ASSUME PeopleInv, NEW r \in Requesters
  PROVE  /\ asked \in [Requesters -> Principal] /\ asked[r] \in Principal
         /\ jwks \in [keys : SUBSET Kids, expires : Nat, forced : Nat, lock : Requesters \cup {Nil}]
         /\ tick \in Nat /\ provider.served \subseteq Kids
         /\ asked[r].at \in Inside <=> jwks.lock = r
BY DEF PeopleInv, IdentityTypes, IdentityInv, IdentityTypeOK, Inside

LEMMA RequestSet ==
  ASSUME PeopleInv, NEW r \in Requesters, NEW p \in Principal, asked' = [asked EXCEPT ![r] = p]
  PROVE  asked' \in [Requesters -> Principal] /\ asked'[r] = p
         /\ \A q \in Requesters \ {r} : asked'[q] = asked[q]
BY DEF PeopleInv, IdentityTypes

LEMMA RequestGoes ==
  ASSUME PeopleInv, NEW r \in Requesters,
         NEW s \in {"lookup", "forcing", "decided", "verified"}, GoTo(r, s)
  PROVE  asked' \in [Requesters -> Principal] /\ asked'[r].at = s
         /\ \A q \in Requesters \ {r} : asked'[q] = asked[q]
<1> DEFINE p == [asked[r] EXCEPT !.at = s]
<1>1. asked \in [Requesters -> Principal] /\ asked[r] \in Principal
  BY KeysFacts
<1>2. p \in Principal /\ p.at = s /\ asked' = [asked EXCEPT ![r] = p]
  BY <1>1 DEF GoTo, Principal
<1> HIDE DEF p
<1> QED
  BY <1>2, RequestSet

LEMMA RequestAnswered ==
  ASSUME PeopleInv, NEW r \in Requesters, Answered(r)
  PROVE  asked' \in [Requesters -> Principal] /\ asked'[r].at = "idle"
         /\ \A q \in Requesters \ {r} : asked'[q] = asked[q]
<1>1. NoRequest \in Principal /\ NoRequest.at = "idle"
  BY DEF NoRequest, Principal
<1> QED
  BY <1>1, RequestSet DEF Answered

LEMMA KeysAsk ==
  ASSUME PeopleInv, NEW r \in Requesters, NEW k \in Kids, NEW o \in Organizations, NEW s \in Subjects,
         Ask(r, k, o, s)
  PROVE  PeopleInv'
<1> DEFINE p == [NoRequest EXCEPT !.at = "waiting", !.kid = k, !.org = o, !.subject = s]
<1>1. asked' = [asked EXCEPT ![r] = p] /\ UNCHANGED <<keyVars, personVars>> /\ asked[r].at = "idle"
  BY DEF Ask, AskedAt
<1>2. p \in Principal /\ p.at = "waiting"
  BY DEF NoRequest, Principal
<1> HIDE DEF p
<1>3. asked' \in [Requesters -> Principal] /\ asked'[r] = p
      /\ \A q \in Requesters \ {r} : asked'[q] = asked[q]
  BY <1>1, <1>2, RequestSet
<1>4. CacheYoung'
  BY <1>1 DEF PeopleInv, CacheYoung, keyVars
<1>5. UNCHANGED <<provider, tick, jwks, personVars>> /\ jwks.lock # r
      /\ jwks \in [keys : SUBSET Kids, expires : Nat, forced : Nat, lock : Requesters \cup {Nil}]
  BY <1>1, KeysFacts DEF keyVars, Inside
<1> QED
  BY <1>2, <1>3, <1>4, <1>5, KeysAsked DEF Inside

LEMMA KeysEnter ==
  ASSUME PeopleInv, NEW r \in Requesters, Enter(r)
  PROVE  PeopleInv'
<1> DEFINE at == IF jwks.keys = {} \/ tick >= jwks.expires THEN "refreshing" ELSE "lookup"
           p == [asked[r] EXCEPT !.now = tick, !.at = at]
<1>1. /\ asked' = [asked EXCEPT ![r] = p] /\ jwks' = [jwks EXCEPT !.lock = r] /\ jwks.lock = Nil
      /\ UNCHANGED <<provider, tick, personVars>>
  BY KeysFacts DEF Enter
<1>2. p \in Principal /\ p.at \in {"refreshing", "lookup"}
  <2>1. asked[r] \in Principal /\ tick \in Nat
    BY KeysFacts
  <2> QED
    BY <2>1 DEF Principal
<1> HIDE DEF p
<1>3. asked' \in [Requesters -> Principal] /\ asked'[r] = p
      /\ \A q \in Requesters \ {r} : asked'[q] = asked[q]
  BY <1>1, <1>2, RequestSet
<1>4. /\ jwks' \in [keys : SUBSET Kids, expires : Nat, forced : Nat, lock : Requesters \cup {Nil}]
      /\ jwks'.lock = r /\ jwks'.keys = jwks.keys /\ jwks'.expires = jwks.expires
  BY <1>1, KeysFacts
<1>5. CacheYoung'
  BY <1>1, <1>4 DEF PeopleInv, CacheYoung
<1> QED
  BY <1>1, <1>2, <1>3, <1>4, <1>5, KeysAsked, NilAssumption DEF Inside

LEMMA KeysFetched ==
  ASSUME PeopleInv, NEW r \in Requesters, Fetched(r)
  PROVE  PeopleInv'
<1>1. PICK s \in {"lookup", "decided"} : GoTo(r, s)
  BY DEF Fetched
<1>2. asked[r].at \in Inside /\ jwks' = KeysReplaced /\ UNCHANGED <<provider, tick, personVars>>
  BY DEF Fetched, AskedAt, Inside
<1>3. asked' \in [Requesters -> Principal] /\ asked'[r].at = s
      /\ \A q \in Requesters \ {r} : asked'[q] = asked[q]
  BY <1>1, RequestGoes
<1>4. /\ jwks' \in [keys : SUBSET Kids, expires : Nat, forced : Nat, lock : Requesters \cup {Nil}]
      /\ jwks'.lock = jwks.lock /\ jwks'.keys = provider.served /\ jwks'.expires = tick + Ttl
  <2>1. tick + Ttl \in Nat /\ provider.served \in SUBSET Kids
    BY KeysFacts, CacheAssumption
  <2>2. jwks \in [keys : SUBSET Kids, expires : Nat, forced : Nat, lock : Requesters \cup {Nil}]
    BY KeysFacts
  <2> QED
    BY <1>2, <2>1, <2>2 DEF KeysReplaced
<1>5. CacheYoung'
  BY <1>2, <1>4, KeysFacts, CacheAssumption DEF CacheYoung
<1> QED
  BY <1>2, <1>3, <1>4, <1>5, KeysFacts, KeysAsked DEF Inside

\* The lock is given back, the cache stays as it is; the request ends or goes on.
LEMMA KeysRelease ==
  ASSUME PeopleInv, NEW r \in Requesters, asked[r].at \in Inside,
         jwks' = [jwks EXCEPT !.lock = Nil], Answered(r) \/ GoTo(r, "verified"),
         UNCHANGED <<provider, tick, personVars>>
  PROVE  PeopleInv'
<1>1. asked' \in [Requesters -> Principal] /\ asked'[r].at \in {"idle", "verified"}
      /\ \A q \in Requesters \ {r} : asked'[q] = asked[q]
  BY RequestAnswered, RequestGoes
<1>2. /\ jwks' \in [keys : SUBSET Kids, expires : Nat, forced : Nat, lock : Requesters \cup {Nil}]
      /\ jwks'.lock = Nil /\ jwks'.keys = jwks.keys /\ jwks'.expires = jwks.expires /\ jwks.lock = r
  BY KeysFacts
<1>3. CacheYoung'
  BY <1>2 DEF PeopleInv, CacheYoung
<1> QED
  BY <1>1, <1>2, <1>3, KeysAsked, NilAssumption DEF Inside

LEMMA KeysDecide ==
  ASSUME PeopleInv, NEW r \in Requesters, Decide(r)
  PROVE  PeopleInv'
<1>1. asked[r].at \in Inside /\ UNCHANGED <<provider, tick, personVars>>
  BY DEF Decide, Inside
<1>2. CASE jwks' = [jwks EXCEPT !.lock = Nil] /\ (Answered(r) \/ GoTo(r, "verified"))
  BY <1>1, <1>2, KeysRelease
<1>3. CASE GoTo(r, "forcing") /\ jwks' = [jwks EXCEPT !.forced = asked[r].now]
  <2>1. asked' \in [Requesters -> Principal] /\ asked'[r].at = "forcing"
        /\ \A q \in Requesters \ {r} : asked'[q] = asked[q]
    BY <1>3, RequestGoes
  <2>2. /\ jwks' \in [keys : SUBSET Kids, expires : Nat, forced : Nat, lock : Requesters \cup {Nil}]
        /\ jwks'.lock = jwks.lock /\ jwks'.keys = jwks.keys /\ jwks'.expires = jwks.expires
    BY <1>3, KeysFacts DEF Principal
  <2>3. CacheYoung'
    BY <1>1, <2>2 DEF PeopleInv, CacheYoung
  <2> QED
    BY <1>1, <2>1, <2>2, <2>3, KeysFacts, KeysAsked DEF Inside
<1> QED
  BY <1>2, <1>3 DEF Decide

LEMMA KeysFail ==
  ASSUME PeopleInv, NEW r \in Requesters, FetchFails(r)
  PROVE  PeopleInv'
BY KeysRelease DEF FetchFails, Inside

-----------------------------------------------------------------------------
(* The people *)

\* A request is led one step on; nothing else happens.
LEMMA RequestLed ==
  ASSUME PeopleInv, NEW r \in Requesters, UNCHANGED <<keyVars, personVars>>,
         NEW p \in Principal, asked' = [asked EXCEPT ![r] = p],
         asked[r].at \notin Inside, p.at \in {"idle", "tenant", "actor", "serving"},
         p.at \in {"tenant", "actor", "serving"} => [org |-> p.org, tenant |-> p.tenant] \in binding,
         p.at \in {"actor", "serving"} =>
             p.actor \in Actors /\ [tenant |-> p.tenant, subject |-> p.subject, actor |-> p.actor] \in identity,
         p.at = "serving" => \A i \in p.grants : role[i].active /\ role[i].actor = p.actor
  PROVE  PeopleInv'
<1>1. asked' \in [Requesters -> Principal] /\ asked'[r] = p
      /\ \A q \in Requesters \ {r} : asked'[q] = asked[q]
  BY RequestSet
<1>2. IdentityTypes' /\ CacheYoung' /\ KeysFresh' /\ RowsInOrder' /\ BoundOnce'
  <2>1. IdentityTypes' /\ CacheYoung'
    BY <1>1 DEF PeopleInv, IdentityTypes, CacheYoung, keyVars, personVars
  <2>2. KeysFresh'
    BY <2>1, YoungMeansFresh, PTL
  <2>3. RowsInOrder' /\ BoundOnce'
    BY DEF PeopleInv, IdentityInv, RowsInOrder, BoundOnce, personVars
  <2> QED
    BY <2>1, <2>2, <2>3
<1>3. IdentityTypeOK'
  BY <1>1 DEF PeopleInv, IdentityInv, IdentityTypeOK, Inside, keyVars, personVars, AskedAt
<1>4. Found'
  BY <1>1 DEF PeopleInv, Found, personVars
<1>5. ServedAsOneself'
  <2>1. ASSUME p.at = "serving", NEW i \in p.grants
        PROVE  i \in Rows /\ role[i] # NoRow
               /\ {Recorded("role.created", i), Recorded("role.changed", i)} \cap ledger # {}
    <3>1. i \in Rows
      BY <2>1 DEF Principal
    <3>2. role[i] # NoRow
      BY <2>1, <3>1, RowInUse DEF PeopleInv
    <3> QED
      BY <3>1, <3>2 DEF PeopleInv, RowsInOrder
  <2>2. ASSUME NEW q \in Requesters, asked'[q].at = "serving", NEW i \in asked'[q].grants
        PROVE  /\ role[i].actor = asked'[q].actor
               /\ {Recorded("role.created", i), Recorded("role.changed", i)} \cap ledger # {}
               /\ role[i].active \/ Recorded("role.revoked", i) \in ledger
                  \/ \E k \in Rows : k > i /\ role[k].actor = role[i].actor
                                     /\ Recorded("role.changed", k) \in ledger
    <3>1. CASE q = r
      BY <1>1, <2>1, <2>2, <3>1
    <3>2. CASE q # r
      BY <1>1, <2>2, <3>2 DEF PeopleInv, IdentityInv, ServedAsOneself, AskedAt
    <3> QED
      BY <3>1, <3>2
  <2>3. UNCHANGED <<role, ledger, binding, identity>>
    BY DEF personVars
  <2>4. \A q \in Requesters : asked'[q].at = "serving" =>
           /\ [org |-> asked'[q].org, tenant |-> asked'[q].tenant] \in binding
           /\ [tenant |-> asked'[q].tenant, subject |-> asked'[q].subject, actor |-> asked'[q].actor]
                 \in identity
    BY <1>4, <2>3 DEF Found
  <2> QED
    BY <2>2, <2>3, <2>4 DEF ServedAsOneself, AskedAt
<1> QED
  BY <1>2, <1>3, <1>4, <1>5 DEF PeopleInv, IdentityInv

LEMMA RequestEnds ==
  ASSUME PeopleInv, NEW r \in Requesters, UNCHANGED <<keyVars, personVars>>, Answered(r),
         asked[r].at \notin Inside
  PROVE  PeopleInv'
<1>1. NoRequest \in Principal /\ NoRequest.at = "idle"
  BY DEF NoRequest, Principal
<1> QED
  BY <1>1, RequestLed DEF Answered

LEMMA PersonTenant ==
  ASSUME PeopleInv, NEW r \in Requesters, FindTenant(r)
  PROVE  PeopleInv'
<1>1. asked[r].at = "verified" /\ asked[r] \in Principal /\ UNCHANGED <<keyVars, personVars>>
  BY KeysFacts DEF FindTenant, AskedAt
<1>2. CASE Answered(r)
  BY <1>1, <1>2, RequestEnds DEF Inside
<1>3. CASE \E t \in Tenants : /\ [org |-> asked[r].org, tenant |-> t] \in binding
                              /\ asked' = [asked EXCEPT ![r].tenant = t, ![r].at = "tenant"]
  <2>1. PICK t \in Tenants : /\ [org |-> asked[r].org, tenant |-> t] \in binding
                             /\ asked' = [asked EXCEPT ![r].tenant = t, ![r].at = "tenant"]
    BY <1>3
  <2> DEFINE p == [asked[r] EXCEPT !.tenant = t, !.at = "tenant"]
  <2>2. p \in Principal /\ p.at = "tenant" /\ p.org = asked[r].org /\ p.tenant = t
    BY <1>1 DEF Principal
  <2>3. asked' = [asked EXCEPT ![r] = p]
    BY <2>1, KeysFacts
  <2> HIDE DEF p
  <2> QED
    BY <1>1, <2>1, <2>2, <2>3, RequestLed DEF Inside
<1> QED
  BY <1>2, <1>3 DEF FindTenant

LEMMA PersonActor ==
  ASSUME PeopleInv, NEW r \in Requesters, FindActor(r)
  PROVE  PeopleInv'
<1>1. asked[r].at = "tenant" /\ asked[r] \in Principal /\ UNCHANGED <<keyVars, personVars>>
  BY KeysFacts DEF FindActor, AskedAt
<1>2. CASE Answered(r)
  BY <1>1, <1>2, RequestEnds DEF Inside
<1>3. CASE \E a \in Actors : /\ [tenant |-> asked[r].tenant, subject |-> asked[r].subject, actor |-> a]
                                   \in identity
                             /\ asked' = [asked EXCEPT ![r].actor = a, ![r].at = "actor"]
  <2>1. PICK a \in Actors : /\ [tenant |-> asked[r].tenant, subject |-> asked[r].subject, actor |-> a]
                                   \in identity
                            /\ asked' = [asked EXCEPT ![r].actor = a, ![r].at = "actor"]
    BY <1>3
  <2> DEFINE p == [asked[r] EXCEPT !.actor = a, !.at = "actor"]
  <2>2. p \in Principal /\ p.at = "actor" /\ p.org = asked[r].org /\ p.tenant = asked[r].tenant
        /\ p.subject = asked[r].subject /\ p.actor = a
    BY <1>1 DEF Principal
  <2>3. asked' = [asked EXCEPT ![r] = p]
    BY <2>1, KeysFacts
  <2>4. [org |-> asked[r].org, tenant |-> asked[r].tenant] \in binding
    BY <1>1 DEF PeopleInv, Found
  <2> HIDE DEF p
  <2> QED
    BY <1>1, <2>1, <2>2, <2>3, <2>4, RequestLed DEF Inside
<1> QED
  BY <1>2, <1>3 DEF FindActor

LEMMA PersonRoles ==
  ASSUME PeopleInv, NEW r \in Requesters, FindRoles(r)
  PROVE  PeopleInv'
<1> DEFINE found == {i \in Rows : role[i].active /\ role[i].actor = asked[r].actor}
           p == [asked[r] EXCEPT !.grants = found, !.at = "serving"]
<1>1. asked[r].at = "actor" /\ asked[r] \in Principal /\ UNCHANGED <<keyVars, personVars>>
  BY KeysFacts DEF FindRoles, AskedAt
<1>2. CASE Answered(r)
  BY <1>1, <1>2, RequestEnds DEF Inside
<1>3. CASE asked' = [asked EXCEPT ![r].grants = found, ![r].at = "serving"]
  <2>1. found \in SUBSET Rows /\ \A i \in found : role[i].active /\ role[i].actor = asked[r].actor
    OBVIOUS
  <2>2. asked' = [asked EXCEPT ![r] = p]
    BY <1>3, KeysFacts
  <2> HIDE DEF found
  <2>3. p \in Principal /\ p.at = "serving" /\ p.org = asked[r].org /\ p.tenant = asked[r].tenant
        /\ p.subject = asked[r].subject /\ p.actor = asked[r].actor /\ p.grants = found
    BY <1>1, <2>1 DEF Principal
  <2>4. /\ [org |-> asked[r].org, tenant |-> asked[r].tenant] \in binding
        /\ asked[r].actor \in Actors
        /\ [tenant |-> asked[r].tenant, subject |-> asked[r].subject, actor |-> asked[r].actor] \in identity
    BY <1>1 DEF PeopleInv, Found
  <2> HIDE DEF p
  <2> QED
    BY <1>1, <2>1, <2>2, <2>3, <2>4, RequestLed DEF Inside
<1> QED
  BY <1>2, <1>3 DEF FindRoles

\* What happens to a role assignment is on record: it keeps its actor, and one that is no longer
\* active was revoked, or replaced by a later one of the same actor.
RowsGrow ==
    \A i \in Rows : role[i] # NoRow =>
        /\ role'[i].actor = role[i].actor
        /\ role[i].active => \/ role'[i].active
                             \/ Recorded("role.revoked", i) \in ledger'
                             \/ \E k \in Rows : k > i /\ role'[k].actor = role[i].actor
                                                /\ Recorded("role.changed", k) \in ledger'
PersonTypes ==
    /\ role \in [Rows -> RoleAssignment \cup {NoRow}] /\ held \subseteq Rows
    /\ binding \subseteq [org : Organizations, tenant : Tenants]
    /\ identity \subseteq [tenant : Tenants, subject : Subjects, actor : Actors]
    /\ boot \in [Actors -> Owner]
    /\ \A a \in Actors : boot[a].at # "new" =>
          boot[a].tenant \in Tenants /\ boot[a].org \in Organizations /\ boot[a].subject \in Subjects

LEMMA Provisioned ==
  ASSUME PeopleInv, UNCHANGED <<keyVars, asked>>,
         binding \subseteq binding', identity \subseteq identity', ledger \subseteq ledger', RowsGrow,
         PersonTypes', RowsInOrder', BoundOnce'
  PROVE  PeopleInv'
<1>1. IdentityTypes' /\ CacheYoung' /\ IdentityTypeOK'
  BY DEF PeopleInv, IdentityTypes, CacheYoung, IdentityInv, IdentityTypeOK, PersonTypes, keyVars, AskedAt
<1>2. KeysFresh'
  BY <1>1, YoungMeansFresh, PTL
<1>3. Found'
  BY DEF PeopleInv, Found
<1>4. ServedAsOneself'
  <2>1. ASSUME NEW r \in Requesters, asked[r].at = "serving", NEW i \in asked[r].grants
        PROVE  /\ role'[i].actor = asked[r].actor
               /\ {Recorded("role.created", i), Recorded("role.changed", i)} \cap ledger' # {}
               /\ role'[i].active \/ Recorded("role.revoked", i) \in ledger'
                  \/ \E k \in Rows : k > i /\ role'[k].actor = role'[i].actor
                                     /\ Recorded("role.changed", k) \in ledger'
    <3>1. /\ role[i].actor = asked[r].actor
          /\ {Recorded("role.created", i), Recorded("role.changed", i)} \cap ledger # {}
          /\ role[i].active \/ Recorded("role.revoked", i) \in ledger
             \/ \E k \in Rows : k > i /\ role[k].actor = role[i].actor
                                /\ Recorded("role.changed", k) \in ledger
      BY <2>1 DEF PeopleInv, IdentityInv, ServedAsOneself, AskedAt
    <3>2. i \in Rows /\ asked[r].actor \in Actors
      BY <2>1 DEF PeopleInv, IdentityTypes, Principal, Found
    <3>3. \A k \in Rows : role[k].actor = asked[r].actor => role'[k].actor = role[k].actor
      BY <3>2, RowInUse DEF PeopleInv, RowsGrow
    <3>4. role'[i].actor = role[i].actor
      BY <3>1, <3>2, <3>3
    <3>5. CASE role[i].active
      BY <3>1, <3>2, <3>4, <3>5, RowInUse DEF PeopleInv, RowsGrow
    <3>6. CASE Recorded("role.revoked", i) \in ledger
      BY <3>1, <3>4, <3>6
    <3>7. CASE \E k \in Rows : k > i /\ role[k].actor = role[i].actor
                               /\ Recorded("role.changed", k) \in ledger
      BY <3>1, <3>3, <3>4, <3>7
    <3> QED
      BY <3>1, <3>5, <3>6, <3>7
  <2> QED
    BY <1>3, <2>1 DEF ServedAsOneself, AskedAt, Found
<1> QED
  BY <1>1, <1>2, <1>3, <1>4 DEF PeopleInv, IdentityInv

\* Who is bound stays bound, as long as the record only grows.
LEMMA BoundStay ==
  ASSUME PeopleInv, binding' = binding, identity' = identity, ledger \subseteq ledger', RowsGrow,
         \A a \in Actors : boot[a].at = "bound" => boot'[a] = boot[a]
  PROVE  BoundOnce'
<1>1. ASSUME NEW b \in binding
      PROVE  \E a \in Actors :
                /\ boot'[a].at = "bound" /\ boot'[a].org = b.org
                /\ [tenant |-> b.tenant, subject |-> boot'[a].subject, actor |-> a] \in identity
                /\ {Recorded("tenant_binding.created", b.org), Recorded("actor_binding.created", a)}
                      \subseteq ledger'
                /\ \E i \in Rows : role'[i].actor = a /\ Recorded("role.created", i) \in ledger'
  <2>1. PICK a \in Actors :
                /\ boot[a].at = "bound" /\ boot[a].org = b.org
                /\ [tenant |-> b.tenant, subject |-> boot[a].subject, actor |-> a] \in identity
                /\ {Recorded("tenant_binding.created", b.org), Recorded("actor_binding.created", a)}
                      \subseteq ledger
                /\ \E i \in Rows : role[i].actor = a /\ Recorded("role.created", i) \in ledger
    BY DEF PeopleInv, IdentityInv, BoundOnce
  <2>2. PICK i \in Rows : role[i].actor = a /\ Recorded("role.created", i) \in ledger
    BY <2>1
  <2>3. role'[i].actor = a
    BY <2>2, RowInUse DEF PeopleInv, RowsGrow
  <2> QED
    BY <2>1, <2>2, <2>3
<1> QED
  BY <1>1 DEF PeopleInv, IdentityInv, BoundOnce

\* Steps that leave the role assignments as they are.
LEMMA RolesStay ==
  ASSUME PeopleInv, UNCHANGED <<keyVars, asked, binding, identity, role>>, ledger \subseteq ledger',
         held' \subseteq Rows, \A i \in held' : role[i] # NoRow,
         boot' \in [Actors -> Owner],
         \A a \in Actors : boot'[a].at # "new" =>
            boot'[a].tenant \in Tenants /\ boot'[a].org \in Organizations /\ boot'[a].subject \in Subjects,
         \A a \in Actors : boot[a].at = "bound" => boot'[a] = boot[a]
  PROVE  PeopleInv'
<1>1. RowsGrow
  BY DEF RowsGrow
<1>2. PersonTypes'
  BY DEF PeopleInv, IdentityTypes, PersonTypes
<1>3. RowsInOrder'
  BY DEF PeopleInv, RowsInOrder
<1>4. BoundOnce'
  BY <1>1, BoundStay
<1> QED
  BY <1>1, <1>2, <1>3, <1>4, Provisioned

LEMMA PersonRecords ==
  ASSUME PeopleInv,
         \/ \E t \in Tenants : EnsureTenant(t) \/ Suspend(t)
         \/ \E i \in Rows : HoldRow(i)
  PROVE  PeopleInv'
<1>1. UNCHANGED <<keyVars, asked, binding, identity, role, boot>> /\ ledger \subseteq ledger'
  BY DEF EnsureTenant, Suspend, HoldRow
<1>2. held' \subseteq Rows /\ \A i \in held' : role[i] # NoRow
  BY RowInUse DEF PeopleInv, IdentityTypes, RowsInOrder, EnsureTenant, Suspend, HoldRow
<1> QED
  BY <1>1, <1>2, RolesStay DEF PeopleInv, IdentityTypes

LEMMA PersonLooks ==
  ASSUME PeopleInv, NEW a \in Actors, NEW t \in Tenants, NEW o \in Organizations, NEW s \in Subjects,
         LookBeforeBinding(a, t, o, s)
  PROVE  PeopleInv'
<1> DEFINE b == [at |-> "looked", tenant |-> t, org |-> o, subject |-> s]
<1>1. UNCHANGED <<keyVars, asked, binding, identity, role, ledger, held>>
      /\ boot[a].at = "new" /\ boot' = [boot EXCEPT ![a] = b]
  BY DEF LookBeforeBinding
<1>2. b \in Owner /\ b.tenant = t /\ b.org = o /\ b.subject = s
  BY DEF Owner
<1> HIDE DEF b
<1>3. boot \in [Actors -> Owner] /\ boot' \in [Actors -> Owner] /\ boot'[a] = b
      /\ \A x \in Actors \ {a} : boot'[x] = boot[x]
  BY <1>1, <1>2 DEF PeopleInv, IdentityTypes
<1> QED
  BY <1>1, <1>2, <1>3, RolesStay DEF PeopleInv, IdentityTypes, RowsInOrder

LEMMA PersonFails ==
  ASSUME PeopleInv, NEW a \in Actors, BindFails(a)
  PROVE  PeopleInv'
<1> DEFINE b == [boot[a] EXCEPT !.at = "refused"]
<1>1. UNCHANGED <<keyVars, asked, binding, identity, role, ledger, held>>
      /\ boot[a].at = "looked" /\ boot' = [boot EXCEPT ![a] = b] /\ boot \in [Actors -> Owner]
  BY DEF BindFails, PeopleInv, IdentityTypes
<1>2. b \in Owner /\ b.tenant = boot[a].tenant /\ b.org = boot[a].org /\ b.subject = boot[a].subject
  BY <1>1 DEF Owner
<1> HIDE DEF b
<1>3. boot' \in [Actors -> Owner] /\ boot'[a] = b /\ \A x \in Actors \ {a} : boot'[x] = boot[x]
  BY <1>1, <1>2
<1> QED
  BY <1>1, <1>2, <1>3, RolesStay DEF PeopleInv, IdentityTypes, RowsInOrder

\* The lowest free row is taken, with its event.
LEMMA RowTaken ==
  ASSUME PeopleInv, FreeRows # {}, held' \subseteq held, ledger \subseteq ledger',
         NEW n, n = Lowest(FreeRows), role'[n] # NoRow,
         \A k \in Rows \ {n} : role'[k] # NoRow <=> role[k] # NoRow,
         {Recorded("role.created", n), Recorded("role.changed", n)} \cap ledger' # {}
  PROVE  RowsInOrder'
<1>1. n \in Rows /\ \A k \in Rows : role[k] = NoRow => n <= k
  BY LowestFree
<1>2. \A k \in Rows : k \in Nat
  BY CacheAssumption
<1>3. ASSUME NEW i \in Rows, NEW k \in Rows, role'[i] # NoRow, k < i
      PROVE  role'[k] # NoRow
  <2>1. CASE k = n
    BY <2>1
  <2>2. CASE k # n /\ i = n
    <3>1. role[k] # NoRow
      BY <1>1, <1>2, <1>3, <2>2
    <3> QED
      BY <2>2, <3>1
  <2>3. CASE k # n /\ i # n
    BY <1>3, <2>3 DEF PeopleInv, RowsInOrder
  <2> QED
    BY <2>1, <2>2, <2>3
<1>4. \A i \in held' : role'[i] # NoRow
  BY DEF PeopleInv, IdentityTypes, RowsInOrder
<1>5. ASSUME NEW i \in Rows, role'[i] # NoRow
      PROVE  {Recorded("role.created", i), Recorded("role.changed", i)} \cap ledger' # {}
  BY <1>5 DEF PeopleInv, RowsInOrder
<1> QED
  BY <1>3, <1>4, <1>5 DEF RowsInOrder

LEMMA PersonRevoke ==
  ASSUME PeopleInv, NEW i \in Rows, RevokeRole(i)
  PROVE  PeopleInv'
<1>1. /\ i \in held /\ held' = held \ {i} /\ role' = [role EXCEPT ![i].active = FALSE]
      /\ ledger' = ledger \cup {Recorded("role.revoked", i)}
      /\ UNCHANGED <<keyVars, asked, tenant, binding, identity, boot>>
  BY DEF RevokeRole
<1>2. role \in [Rows -> RoleAssignment \cup {NoRow}] /\ role[i] # NoRow /\ role[i] \in RoleAssignment
  BY <1>1 DEF PeopleInv, IdentityTypes, RowsInOrder
<1>3. role'[i] = [role[i] EXCEPT !.active = FALSE] /\ \A k \in Rows \ {i} : role'[k] = role[k]
  BY <1>1, <1>2
<1>4. role'[i] \in RoleAssignment /\ role'[i].actor = role[i].actor
  BY <1>2, <1>3 DEF RoleAssignment
<1>5. role'[i] # NoRow
  BY <1>4, NilAssumption DEF RoleAssignment, NoRow
<1>6. RowsGrow
  BY <1>1, <1>3, <1>4 DEF RowsGrow
<1>7. PersonTypes'
  BY <1>1, <1>2, <1>3, <1>4 DEF PeopleInv, IdentityTypes, PersonTypes
<1>8. RowsInOrder'
  BY <1>1, <1>3, <1>5 DEF PeopleInv, RowsInOrder, IdentityTypes
<1>9. BoundOnce'
  BY <1>1, <1>6, BoundStay
<1> QED
  BY <1>1, <1>6, <1>7, <1>8, <1>9, Provisioned

LEMMA PersonChange ==
  ASSUME PeopleInv, NEW i \in Rows, NEW new \in {"FACILITY_ADMIN", "VIEWER"}, ChangeRole(i, new)
  PROVE  PeopleInv'
<1>0. PICK n \in Rows : n = Lowest(FreeRows) /\ role[n] = NoRow
  BY LowestFree DEF ChangeRole
<1> DEFINE row == [actor |-> role[i].actor, role |-> new, active |-> TRUE]
<1>1. /\ i \in held /\ held' = held \ {i} /\ FreeRows # {}
      /\ role' = [role EXCEPT ![i].active = FALSE, ![n] = row]
      /\ ledger' = ledger \cup {Recorded("role.changed", n)}
      /\ UNCHANGED <<keyVars, asked, tenant, binding, identity, boot>>
  BY <1>0 DEF ChangeRole
<1>2. role \in [Rows -> RoleAssignment \cup {NoRow}] /\ role[i] # NoRow /\ role[i] \in RoleAssignment
      /\ role[i].actor \in Actors
  BY <1>1, RowInUse DEF PeopleInv, IdentityTypes, RowsInOrder
<1>3. n \in Rows /\ role[n] = NoRow
  BY <1>0
<1>4. row \in RoleAssignment /\ row.actor = role[i].actor
  BY <1>2 DEF RoleAssignment
<1>5. n # i /\ n > i
  <2>1. n # i /\ ~(n < i)
    BY <1>2, <1>3 DEF PeopleInv, RowsInOrder
  <2>2. n \in Nat /\ i \in Nat
    BY CacheAssumption
  <2> QED
    BY <2>1, <2>2
<1> HIDE DEF row
<1>6. /\ role'[n] = row /\ role'[i] = [role[i] EXCEPT !.active = FALSE]
      /\ \A k \in Rows \ {i, n} : role'[k] = role[k]
      /\ DOMAIN role' = Rows
  BY <1>1, <1>2, <1>3, <1>5
<1>7. role'[i] \in RoleAssignment /\ role'[i].actor = role[i].actor
  BY <1>2, <1>6 DEF RoleAssignment
<1>8. role'[i] # NoRow /\ role'[n] # NoRow
  BY <1>4, <1>6, <1>7, NilAssumption DEF RoleAssignment, NoRow
<1>9. Recorded("role.changed", n) \in ledger' /\ ledger \subseteq ledger'
  BY <1>1
<1>10. RowsGrow
  BY <1>3, <1>4, <1>5, <1>6, <1>7, <1>9 DEF RowsGrow
<1>11. PersonTypes'
  <2>1. role' \in [Rows -> RoleAssignment \cup {NoRow}]
    BY <1>1, <1>2, <1>4, <1>6, <1>7
  <2> QED
    BY <1>1, <2>1 DEF PeopleInv, IdentityTypes, PersonTypes
<1>12. RowsInOrder'
  <2>1. held' \subseteq held
    BY <1>1
  <2>2. \A k \in Rows \ {n} : role'[k] # NoRow <=> role[k] # NoRow
    BY <1>2, <1>6, <1>8
  <2>3. {Recorded("role.created", n), Recorded("role.changed", n)} \cap ledger' # {}
    BY <1>9
  <2> QED
    BY <1>0, <1>1, <1>8, <1>9, <2>1, <2>2, <2>3, RowTaken
<1>13. BoundOnce'
  BY <1>1, <1>9, <1>10, BoundStay
<1> QED
  BY <1>1, <1>9, <1>10, <1>11, <1>12, <1>13, Provisioned

LEMMA PersonBinds ==
  ASSUME PeopleInv, NEW a \in Actors, BindOwner(a)
  PROVE  PeopleInv'
<1>0. PICK n \in Rows : n = Lowest(FreeRows) /\ role[n] = NoRow
  BY LowestFree DEF BindOwner
<1>1. PICK b \in Owner : b = boot[a] /\ b.at = "looked" /\ b.tenant \in Tenants
                         /\ b.org \in Organizations /\ b.subject \in Subjects
  BY DEF BindOwner, PeopleInv, IdentityTypes
<1> DEFINE row == [actor |-> a, role |-> "TENANT_OWNER", active |-> TRUE]
           bound == [org |-> b.org, tenant |-> b.tenant]
           person == [tenant |-> b.tenant, subject |-> b.subject, actor |-> a]
<1>2. /\ FreeRows # {} /\ ~Bound(b.org) /\ ~SignsInAs(b.tenant, b.subject)
      /\ binding' = binding \cup {bound} /\ identity' = identity \cup {person}
      /\ role' = [role EXCEPT ![n] = row]
      /\ ledger' = ledger \cup {Recorded("tenant_binding.created", b.org),
                                Recorded("actor_binding.created", a), Recorded("role.created", n)}
      /\ boot' = [boot EXCEPT ![a].at = "bound"]
      /\ UNCHANGED <<keyVars, asked, tenant, held>>
  BY <1>0, <1>1 DEF BindOwner, Unique
<1>3. role \in [Rows -> RoleAssignment \cup {NoRow}] /\ boot \in [Actors -> Owner]
      /\ binding \subseteq [org : Organizations, tenant : Tenants]
      /\ identity \subseteq [tenant : Tenants, subject : Subjects, actor : Actors]
  BY DEF PeopleInv, IdentityTypes
<1>4. /\ row \in RoleAssignment /\ row.actor = a /\ row # NoRow
      /\ bound \in [org : Organizations, tenant : Tenants] /\ bound.org = b.org
      /\ person \in [tenant : Tenants, subject : Subjects, actor : Actors]
      /\ person.tenant = b.tenant /\ person.subject = b.subject /\ person.actor = a
  BY <1>1, NilAssumption DEF RoleAssignment, NoRow
<1>5. ASSUME NEW y \in binding
      PROVE  y.org # b.org
  <2>1. y.tenant \in Tenants /\ y = [org |-> y.org, tenant |-> y.tenant]
    BY <1>3
  <2> QED
    BY <1>2, <2>1 DEF Bound
<1>6. ASSUME NEW y \in identity
      PROVE  ~(y.tenant = b.tenant /\ y.subject = b.subject)
  <2>1. y.actor \in Actors /\ y = [tenant |-> y.tenant, subject |-> y.subject, actor |-> y.actor]
    BY <1>3
  <2> QED
    BY <1>2, <2>1 DEF SignsInAs
<1> HIDE DEF row, bound, person
<1>7. role'[n] = row /\ \A k \in Rows \ {n} : role'[k] = role[k]
  BY <1>2, <1>3
<1>8. /\ boot' \in [Actors -> Owner] /\ \A x \in Actors \ {a} : boot'[x] = boot[x]
      /\ boot'[a].at = "bound" /\ boot'[a].tenant = b.tenant /\ boot'[a].org = b.org
      /\ boot'[a].subject = b.subject
  <2>1. boot'[a] = [b EXCEPT !.at = "bound"] /\ \A x \in Actors \ {a} : boot'[x] = boot[x]
    BY <1>1, <1>2, <1>3
  <2>2. [b EXCEPT !.at = "bound"] \in Owner
    BY DEF Owner
  <2> QED
    BY <1>2, <1>3, <2>1, <2>2 DEF Owner
<1>9. /\ Recorded("role.created", n) \in ledger' /\ Recorded("tenant_binding.created", b.org) \in ledger'
      /\ Recorded("actor_binding.created", a) \in ledger' /\ ledger \subseteq ledger'
  BY <1>2
<1>10. RowsGrow
  BY <1>0, <1>7 DEF RowsGrow
<1>11. PersonTypes'
  <2>1. role' \in [Rows -> RoleAssignment \cup {NoRow}]
    BY <1>2, <1>3, <1>4
  <2>2. binding' \subseteq [org : Organizations, tenant : Tenants]
        /\ identity' \subseteq [tenant : Tenants, subject : Subjects, actor : Actors]
    BY <1>2, <1>3, <1>4
  <2> QED
    BY <1>1, <1>2, <1>8, <2>1, <2>2 DEF PeopleInv, IdentityTypes, PersonTypes
<1>12. RowsInOrder'
  <2>1. \A k \in Rows \ {n} : role'[k] # NoRow <=> role[k] # NoRow
    BY <1>7
  <2>2. {Recorded("role.created", n), Recorded("role.changed", n)} \cap ledger' # {}
    BY <1>9
  <2>3. held' \subseteq held /\ role'[n] # NoRow
    BY <1>2, <1>4, <1>7
  <2> QED
    BY <1>0, <1>2, <1>9, <2>1, <2>2, <2>3, RowTaken
<1>13. BoundOnce'
  <2>1. ASSUME NEW x \in binding', NEW y \in binding', x.org = y.org
        PROVE  x = y
    <3>1. (x \in binding \/ x = bound) /\ (y \in binding \/ y = bound)
      BY <1>2
    <3> QED
      BY <1>4, <1>5, <2>1, <3>1 DEF PeopleInv, IdentityInv, BoundOnce
  <2>2. ASSUME NEW x \in identity', NEW y \in identity', x.tenant = y.tenant, x.subject = y.subject
        PROVE  x = y
    <3>1. (x \in identity \/ x = person) /\ (y \in identity \/ y = person)
      BY <1>2
    <3> QED
      BY <1>4, <1>6, <2>2, <3>1 DEF PeopleInv, IdentityInv, BoundOnce
  <2>3. ASSUME NEW d \in binding'
        PROVE  \E o \in Actors :
                  /\ boot'[o].at = "bound" /\ boot'[o].org = d.org
                  /\ [tenant |-> d.tenant, subject |-> boot'[o].subject, actor |-> o] \in identity'
                  /\ {Recorded("tenant_binding.created", d.org), Recorded("actor_binding.created", o)}
                        \subseteq ledger'
                  /\ \E i \in Rows : role'[i].actor = o /\ Recorded("role.created", i) \in ledger'
    <3>1. CASE d = bound
      <4>1. d.org = b.org /\ d.tenant = b.tenant
        BY <3>1 DEF bound
      <4>2. [tenant |-> d.tenant, subject |-> boot'[a].subject, actor |-> a] \in identity'
        BY <1>2, <1>8, <4>1 DEF person
      <4>3. role'[n].actor = a
        BY <1>4, <1>7
      <4> QED
        BY <1>8, <1>9, <4>1, <4>2, <4>3
    <3>2. CASE d \in binding
      <4>1. PICK o \in Actors :
                  /\ boot[o].at = "bound" /\ boot[o].org = d.org
                  /\ [tenant |-> d.tenant, subject |-> boot[o].subject, actor |-> o] \in identity
                  /\ {Recorded("tenant_binding.created", d.org), Recorded("actor_binding.created", o)}
                        \subseteq ledger
                  /\ \E i \in Rows : role[i].actor = o /\ Recorded("role.created", i) \in ledger
        BY <3>2 DEF PeopleInv, IdentityInv, BoundOnce
      <4>2. PICK i \in Rows : role[i].actor = o /\ Recorded("role.created", i) \in ledger
        BY <4>1
      <4>3. role'[i].actor = o
        BY <1>10, <4>2, RowInUse DEF PeopleInv, RowsGrow
      <4>4. boot'[o] = boot[o]
        BY <1>1, <1>8, <4>1
      <4> QED
        BY <1>2, <1>9, <4>1, <4>2, <4>3, <4>4
    <3> QED
      BY <1>2, <3>1, <3>2
  <2> QED
    BY <2>1, <2>2, <2>3 DEF BoundOnce
<1>14. binding \subseteq binding' /\ identity \subseteq identity'
  BY <1>2
<1> QED
  BY <1>2, <1>9, <1>10, <1>11, <1>12, <1>13, <1>14, Provisioned

LEMMA PeopleKept == PeopleInv /\ IdentityStep => PeopleInv'
<1> SUFFICES ASSUME PeopleInv, IdentityStep PROVE PeopleInv'
  OBVIOUS
<1>1. CASE KeyStep
  BY <1>1, KeysOfTime, KeysRotate, KeysEnter, KeysFetched, KeysFail, KeysDecide DEF KeyStep
<1>2. CASE PersonStep
  <2>1. ASSUME NEW r \in Requesters, Respond(r)
        PROVE  PeopleInv'
    BY <2>1, RequestEnds DEF Respond, AskedAt, Inside
  <2>2. ASSUME NEW r \in Requesters, FindTenant(r) \/ FindActor(r) \/ FindRoles(r)
        PROVE  PeopleInv'
    BY <2>2, PersonTenant, PersonActor, PersonRoles
  <2>3. ASSUME NEW a \in Actors, BindOwner(a) \/ BindFails(a)
        PROVE  PeopleInv'
    BY <2>3, PersonBinds, PersonFails
  <2>4. ASSUME NEW i \in Rows, RevokeRole(i) \/ ChangeRole(i, "FACILITY_ADMIN") \/ ChangeRole(i, "VIEWER")
        PROVE  PeopleInv'
    BY <2>4, PersonRevoke, PersonChange
  <2> QED
    BY <1>2, <2>1, <2>2, <2>3, <2>4, PersonRecords, PersonLooks DEF PersonStep
<1>3. CASE \E r \in Requesters, k \in Kids, o \in Organizations, s \in Subjects : Ask(r, k, o, s)
  BY <1>3, KeysAsk
<1> QED
  BY <1>1, <1>2, <1>3 DEF IdentityStep

-----------------------------------------------------------------------------
(* The theorems: who comes in *)

LEMMA AccessKept == CredentialsInv /\ RolesInv /\ PeopleInv /\ [AccessNext]_accessVars
                       => (CredentialsInv /\ RolesInv /\ PeopleInv)'
<1> SUFFICES ASSUME CredentialsInv, RolesInv, PeopleInv, [AccessNext]_accessVars
             PROVE  (CredentialsInv /\ RolesInv /\ PeopleInv)'
  OBVIOUS
<1>1. CASE IdentityStep /\ UNCHANGED <<credentialVars, roleVars>>
  BY <1>1, PeopleKept, CredentialsStutter, RolesStutter
<1>2. CASE CredentialStep /\ UNCHANGED <<identityVars, roleVars>>
  BY <1>2, CredentialsKept, PeopleStutter, RolesStutter
<1>3. CASE RoleStep /\ UNCHANGED <<identityVars, credentialVars>>
  BY <1>3, RolesKept, PeopleStutter, CredentialsStutter
<1>4. CASE UNCHANGED accessVars
  BY <1>4, PeopleStutter, CredentialsStutter, RolesStutter DEF accessVars
<1> QED
  BY <1>1, <1>2, <1>3, <1>4 DEF AccessNext

\* Whatever requests, refreshes of the keys, provisioning, edge nodes and migrations do at once: no
\* key is trusted beyond the life of the cache, an organization has one tenant and an owner, a
\* request is served as its own actor, a credential file is worth what it says, and the database
\* role is exactly as classified after an apply and closed to what comes later.
THEOREM AccessSafe == AccessSpec => []AccessInv
<1>1. AccessInit => CredentialsInv /\ RolesInv /\ PeopleInv
  BY CredentialsStart, RolesStart, PeopleStart DEF AccessInit
<1>2. CredentialsInv /\ RolesInv /\ PeopleInv => AccessInv
  BY DEF CredentialsInv, RolesInv, PeopleInv, AccessInv
<1> QED
  BY <1>1, <1>2, AccessKept, PTL DEF AccessSpec

-----------------------------------------------------------------------------
(* Photos: the rows *)

ImageRows == [Images -> StaffEnrollmentImage \cup {NoImage}]
TemplateRows == [Images -> StaffFaceTemplate \cup {NoTemplate}]

LEMMA AcceptedFinite ==
  ASSUME NEW img, NEW p
  PROVE  /\ IsFiniteSet(AcceptedOf(img, p)) /\ Cardinality(AcceptedOf(img, p)) \in Nat
         /\ AcceptedOf(img, p) \subseteq Images
<1>1. AcceptedOf(img, p) \in SUBSET Images
  BY DEF AcceptedOf
<1> QED
  BY <1>1, StaffEnrollmentAssumption, FS_Subset, FS_CardinalityType

\* READY is said of a profile only if each of its photos has a template of the running model.
LEMMA StateReady ==
  ASSUME NEW img \in ImageRows, NEW tpl \in TemplateRows, NEW p \in Teachers
  PROVE  /\ State(img, tpl, p) \in {"EMPTY", "COLLECTING", "READY", "FAILED"}
         /\ State(img, tpl, p) = "READY" =>
               /\ Cardinality(AcceptedOf(img, p)) >= MinAccepted
               /\ \A i \in AcceptedOf(img, p) : tpl[i] = [status |-> "ACTIVE", model |-> backend]
<1> DEFINE S == AcceptedOf(img, p)
<1>1. State(img, tpl, p) = IF S = {} THEN "EMPTY"
                           ELSE IF ~(S \subseteq Templated(tpl)) THEN "FAILED"
                           ELSE IF Cardinality(S) >= MinAccepted THEN "READY" ELSE "COLLECTING"
  BY DEF State
<1>2. S \subseteq Images
  BY AcceptedFinite
<1> HIDE DEF S
<1>3. ASSUME S \subseteq Templated(tpl), NEW i \in S
      PROVE  tpl[i] = [status |-> "ACTIVE", model |-> backend]
  <2>1. i \in Images /\ tpl[i].status = "ACTIVE" /\ tpl[i].model = backend
    BY <1>2, <1>3 DEF Templated
  <2>2. tpl[i] \in StaffFaceTemplate
    BY <2>1 DEF TemplateRows, NoTemplate
  <2> QED
    BY <2>1, <2>2 DEF StaffFaceTemplate
<1>4. State(img, tpl, p) = "READY" => S \subseteq Templated(tpl) /\ Cardinality(S) >= MinAccepted
  BY <1>1
<1>5. State(img, tpl, p) \in {"EMPTY", "COLLECTING", "READY", "FAILED"}
  BY <1>1
<1> QED
  BY <1>3, <1>4, <1>5 DEF S

\* Steps that touch the rows of one profile, p.
LEMMA RowsOfOne ==
  ASSUME RowsInv, backend' \in Models, NEW p \in Teachers,
         profile' \in [Teachers -> [status : {"none", "ACTIVE", "INACTIVE", "DELETED"},
                                    state : {"EMPTY", "COLLECTING", "READY", "FAILED"}]],
         image' \in ImageRows, template' \in TemplateRows,
         \A i \in Images : image'[i] = NoImage => template'[i] = NoTemplate,
         \A q \in Teachers \ {p} : /\ profile'[q] = profile[q]
                                   /\ AcceptedOf(image', q) = Accepted(q)
                                   /\ \A i \in Accepted(q) : image'[i] = image[i] /\ template'[i] = template[i],
         profile'[p].state = "READY" =>
             \E m \in Models :
                /\ Cardinality(AcceptedOf(image', p)) >= MinAccepted
                /\ \A i \in AcceptedOf(image', p) : template'[i] = [status |-> "ACTIVE", model |-> m],
         Cardinality(AcceptedOf(image', p)) <= MaxAccepted,
         \A i, k \in AcceptedOf(image', p) : image'[i].content = image'[k].content => i = k,
         ErasedWithProfile'
  PROVE  RowsInv'
<1>1. ASSUME NEW q \in Teachers, profile'[q].state = "READY"
      PROVE  \E m \in Models : ReadyBy(q, m)'
  <2>1. CASE q = p
    BY <1>1, <2>1 DEF ReadyBy, Accepted
  <2>2. CASE q # p
    <3>1. PICK m \in Models : ReadyBy(q, m)
      BY <1>1, <2>2 DEF RowsInv
    <3> QED
      BY <2>2, <3>1 DEF ReadyBy, Accepted
  <2> QED
    BY <2>1, <2>2
<1>2. PhotosLimited'
  <2>1. ASSUME NEW q \in Teachers \ {p}
        PROVE  /\ Cardinality(AcceptedOf(image', q)) <= MaxAccepted
               /\ \A i, k \in AcceptedOf(image', q) : image'[i].content = image'[k].content => i = k
    BY <2>1 DEF RowsInv, PhotosLimited
  <2> QED
    BY <2>1 DEF PhotosLimited, Accepted
<1> QED
  BY <1>1, <1>2 DEF RowsInv, ImageRows, TemplateRows

LEMMA RowsSame ==
  ASSUME RowsInv, UNCHANGED enrollmentRows, backend' \in Models
  PROVE  RowsInv'
<1>1. /\ \A p, m : ReadyBy(p, m)' = ReadyBy(p, m)
      /\ ErasedWithProfile' = ErasedWithProfile /\ PhotosLimited' = PhotosLimited
  BY DEF enrollmentRows, ReadyBy, ErasedWithProfile, PhotosLimited, Accepted, AcceptedOf, Known
<1> QED
  BY <1>1 DEF RowsInv, enrollmentRows

\* A photo is inserted: the profile was ACTIVE, below its limit and without that content.
LEMMA RowsInserted ==
  ASSUME RowsInv, backend' = backend, NEW i \in Images, NEW p \in Teachers, NEW x \in Contents,
         InsertImage(i, p, x), image[i] = NoImage, Admissible(p, x)
  PROVE  RowsInv'
<1>1. /\ image' = [image EXCEPT ![i] = [status |-> "ACCEPTED", of |-> p, content |-> x]]
      /\ template' = [template EXCEPT ![i] = [status |-> "ACTIVE", model |-> backend]]
      /\ profile' = [profile EXCEPT ![p].state = State(image', template', p)]
  BY DEF InsertImage
<1>2. image \in ImageRows /\ template \in TemplateRows
  BY DEF RowsInv, ImageRows, TemplateRows
<1>3. /\ image' \in ImageRows /\ image'[i] \in StaffEnrollmentImage /\ image'[i].status = "ACCEPTED"
      /\ image'[i].of = p /\ image'[i].content = x
      /\ \A k \in Images \ {i} : image'[k] = image[k]
  BY <1>1, <1>2 DEF ImageRows, StaffEnrollmentImage
<1>4. /\ template' \in TemplateRows /\ template'[i].status = "ACTIVE"
      /\ \A k \in Images \ {i} : template'[k] = template[k]
  BY <1>1, <1>2 DEF TemplateRows, StaffFaceTemplate, RowsInv
<1>5. image[i].status = "none" /\ image'[i] # NoImage
  BY <1>3 DEF NoImage, StaffEnrollmentImage
<1>6. AcceptedOf(image', p) = Accepted(p) \cup {i} /\ i \notin Accepted(p)
  BY <1>3, <1>5 DEF Accepted, AcceptedOf
<1>7. \A q \in Teachers \ {p} : AcceptedOf(image', q) = Accepted(q) /\ i \notin Accepted(q)
  BY <1>3, <1>5 DEF Accepted, AcceptedOf
<1>8. /\ State(image', template', p) \in {"EMPTY", "COLLECTING", "READY", "FAILED"}
      /\ State(image', template', p) = "READY" =>
            /\ Cardinality(AcceptedOf(image', p)) >= MinAccepted
            /\ \A k \in AcceptedOf(image', p) : template'[k] = [status |-> "ACTIVE", model |-> backend]
  BY <1>3, <1>4, StateReady
<1> DEFINE state == State(image', template', p)
<1>9. profile' = [profile EXCEPT ![p].state = state] /\ state \in {"EMPTY", "COLLECTING", "READY", "FAILED"}
  BY <1>1, <1>8
<1> HIDE DEF state
<1>10. /\ profile' \in [Teachers -> [status : {"none", "ACTIVE", "INACTIVE", "DELETED"},
                                    state : {"EMPTY", "COLLECTING", "READY", "FAILED"}]]
       /\ profile'[p].state = state /\ profile'[p].status = profile[p].status
       /\ \A q \in Teachers \ {p} : profile'[q] = profile[q]
  BY <1>9 DEF RowsInv
<1>11. Cardinality(AcceptedOf(image', p)) <= MaxAccepted
  <2>1. Cardinality(Accepted(p) \cup {i}) = Cardinality(Accepted(p)) + 1
    BY <1>6, AcceptedFinite, FS_AddElement DEF Accepted
  <2>2. Cardinality(Accepted(p)) \in Nat /\ Cardinality(Accepted(p)) < MaxAccepted
    BY AcceptedFinite DEF Accepted, Admissible
  <2> QED
    BY <1>6, <2>1, <2>2, StaffEnrollmentAssumption
<1>12. \A j, k \in AcceptedOf(image', p) : image'[j].content = image'[k].content => j = k
  <2>1. \A k \in Accepted(p) : k \in Images \ {i} /\ image'[k] = image[k] /\ image[k].content # x
    BY <1>3, <1>6, AcceptedFinite DEF Accepted, Admissible
  <2>2. \A j, k \in Accepted(p) : image[j].content = image[k].content => j = k
    BY DEF RowsInv, PhotosLimited
  <2> QED
    BY <1>3, <1>6, <2>1, <2>2
<1>13. ErasedWithProfile'
  <2>1. \A q \in Teachers : profile'[q].status = profile[q].status
    BY <1>10
  <2>2. profile[p].status = "ACTIVE"
    BY DEF Admissible
  <2>3. ASSUME NEW k \in Images
        PROVE  /\ image'[k].status = "ACCEPTED" <=> template'[k].status = "ACTIVE"
               /\ image'[k].status = "ACCEPTED" => profile'[image'[k].of].status \in {"ACTIVE", "INACTIVE"}
    <3>1. CASE k = i
      BY <1>3, <1>4, <2>1, <2>2, <3>1
    <3>2. CASE k # i
      <4>1. image'[k] = image[k] /\ template'[k] = template[k]
        BY <1>3, <1>4, <3>2
      <4>2. image[k].status = "ACCEPTED" => image[k].of \in Teachers
        BY DEF RowsInv, StaffEnrollmentImage, NoImage
      <4> QED
        BY <2>1, <4>1, <4>2 DEF RowsInv, ErasedWithProfile, Known
    <3> QED
      BY <3>1, <3>2
  <2> QED
    BY <2>3 DEF ErasedWithProfile, Known
<1>14. \A q \in Teachers \ {p} : \A k \in Accepted(q) : image'[k] = image[k] /\ template'[k] = template[k]
  BY <1>3, <1>4, <1>7, AcceptedFinite DEF Accepted
<1>15. \A k \in Images : image'[k] = NoImage => template'[k] = NoTemplate
  BY <1>3, <1>4, <1>5 DEF RowsInv
<1>16. profile'[p].state = "READY" =>
          \E m \in Models :
             /\ Cardinality(AcceptedOf(image', p)) >= MinAccepted
             /\ \A k \in AcceptedOf(image', p) : template'[k] = [status |-> "ACTIVE", model |-> m]
  BY <1>8, <1>10 DEF RowsInv, state
<1>17. backend' \in Models
  BY DEF RowsInv
<1> QED
  BY <1>3, <1>4, <1>7, <1>10, <1>11, <1>12, <1>13, <1>14, <1>15, <1>16, <1>17, RowsOfOne

\* What a withdrawal leaves: the rows of S deleted and revoked, every other row as it was.
LEMMA WithdrawnRows ==
  ASSUME RowsInv, NEW S \in SUBSET Images, Withdrawn(S), \A i \in S : image[i].status = "ACCEPTED"
  PROVE  /\ image' \in ImageRows /\ template' \in TemplateRows
         /\ \A i \in S : /\ image'[i] # NoImage /\ image'[i].status = "DELETED"
                         /\ template'[i].status = "REVOKED"
         /\ \A i \in Images \ S : image'[i] = image[i] /\ template'[i] = template[i]
<1>1. ASSUME NEW i \in S
      PROVE  /\ image[i] \in StaffEnrollmentImage /\ template[i] \in StaffFaceTemplate
  BY <1>1 DEF RowsInv, ErasedWithProfile, NoImage, NoTemplate
<1>2. ASSUME NEW i \in Images
      PROVE  /\ i \in S => image'[i] = [image[i] EXCEPT !.status = "DELETED"]
             /\ i \in S => template'[i] = [template[i] EXCEPT !.status = "REVOKED"]
             /\ i \notin S => image'[i] = image[i] /\ template'[i] = template[i]
  BY <1>2 DEF Withdrawn
<1>3. ASSUME NEW i \in S
      PROVE  /\ image'[i] \in StaffEnrollmentImage /\ image'[i].status = "DELETED"
             /\ template'[i] \in StaffFaceTemplate /\ template'[i].status = "REVOKED"
  <2>1. /\ image'[i] = [image[i] EXCEPT !.status = "DELETED"]
        /\ template'[i] = [template[i] EXCEPT !.status = "REVOKED"]
    BY <1>2, <1>3
  <2>2. image[i] \in StaffEnrollmentImage /\ template[i] \in StaffFaceTemplate
    BY <1>1, <1>3
  <2>3. image'[i] \in StaffEnrollmentImage /\ image'[i].status = "DELETED"
    BY <2>1, <2>2 DEF StaffEnrollmentImage
  <2>4. template'[i] \in StaffFaceTemplate /\ template'[i].status = "REVOKED"
    BY <2>1, <2>2 DEF StaffFaceTemplate
  <2> QED
    BY <2>3, <2>4
<1>4. ASSUME NEW i \in Images
      PROVE  /\ image'[i] \in StaffEnrollmentImage \cup {NoImage}
             /\ template'[i] \in StaffFaceTemplate \cup {NoTemplate}
  BY <1>2, <1>3, <1>4 DEF RowsInv
<1>5. image' = [i \in Images |-> image'[i]] /\ template' = [i \in Images |-> template'[i]]
  BY DEF Withdrawn
<1>6. image' \in ImageRows /\ template' \in TemplateRows
  BY <1>4, <1>5 DEF ImageRows, TemplateRows
<1>7. \A i \in S : image'[i] # NoImage
  BY <1>3 DEF StaffEnrollmentImage, NoImage
<1> QED
  BY <1>2, <1>3, <1>6, <1>7

\* Photos of p are withdrawn and its row is set: its state is recomputed or EMPTY.
LEMMA RowsWithdrawn ==
  ASSUME RowsInv, backend' = backend, NEW p \in Teachers, NEW S \in SUBSET Accepted(p), Withdrawn(S),
         NEW status \in {"ACTIVE", "INACTIVE", "DELETED"}, NEW state,
         state = "EMPTY" \/ state = State(image', template', p),
         profile' = [profile EXCEPT ![p] = [status |-> status, state |-> state]],
         status = "DELETED" => S = Accepted(p)
  PROVE  RowsInv'
<1>1. S \in SUBSET Images /\ \A i \in S : image[i].status = "ACCEPTED" /\ image[i].of = p
  BY DEF Accepted, AcceptedOf
<1>2. /\ image' \in ImageRows /\ template' \in TemplateRows
      /\ \A i \in S : /\ image'[i] # NoImage /\ image'[i].status = "DELETED"
                      /\ template'[i].status = "REVOKED"
      /\ \A i \in Images \ S : image'[i] = image[i] /\ template'[i] = template[i]
  BY <1>1, WithdrawnRows
<1>3. \A q \in Teachers : AcceptedOf(image', q) = Accepted(q) \ S
  BY <1>1, <1>2 DEF Accepted, AcceptedOf
<1>4. ASSUME NEW q \in Teachers \ {p}
      PROVE  /\ AcceptedOf(image', q) = Accepted(q)
             /\ \A i \in Accepted(q) : image'[i] = image[i] /\ template'[i] = template[i]
  <2>1. \A i \in Accepted(q) : i \in Images \ S
    BY <1>1, <1>4 DEF Accepted, AcceptedOf
  <2> QED
    BY <1>2, <1>3, <1>4, <2>1
<1>5. /\ state \in {"EMPTY", "COLLECTING", "READY", "FAILED"}
      /\ state = "READY" =>
            /\ Cardinality(AcceptedOf(image', p)) >= MinAccepted
            /\ \A i \in AcceptedOf(image', p) : template'[i] = [status |-> "ACTIVE", model |-> backend]
  BY <1>2, StateReady
<1>6. /\ profile' \in [Teachers -> [status : {"none", "ACTIVE", "INACTIVE", "DELETED"},
                                    state : {"EMPTY", "COLLECTING", "READY", "FAILED"}]]
      /\ profile'[p].state = state /\ profile'[p].status = status
      /\ \A q \in Teachers \ {p} : profile'[q] = profile[q]
  BY <1>5 DEF RowsInv
<1>7. Cardinality(AcceptedOf(image', p)) <= MaxAccepted
  <2>1. AcceptedOf(image', p) \subseteq Accepted(p) /\ Cardinality(Accepted(p)) <= MaxAccepted
    BY <1>3 DEF RowsInv, PhotosLimited
  <2>2. IsFiniteSet(Accepted(p)) /\ Cardinality(Accepted(p)) \in Nat
    BY AcceptedFinite DEF Accepted
  <2>3. Cardinality(AcceptedOf(image', p)) <= Cardinality(Accepted(p))
    BY <2>1, <2>2, FS_Subset
  <2>4. Cardinality(AcceptedOf(image', p)) \in Nat
    BY AcceptedFinite
  <2> QED
    BY <2>1, <2>2, <2>3, <2>4, StaffEnrollmentAssumption
<1>8. \A j, k \in AcceptedOf(image', p) : image'[j].content = image'[k].content => j = k
  <2>1. \A k \in AcceptedOf(image', p) : k \in Accepted(p) /\ image'[k] = image[k]
    BY <1>2, <1>3, AcceptedFinite
  <2>2. \A j, k \in Accepted(p) : image[j].content = image[k].content => j = k
    BY DEF RowsInv, PhotosLimited
  <2> QED
    BY <2>1, <2>2
<1>9. ASSUME NEW k \in Images
      PROVE  /\ image'[k].status = "ACCEPTED" <=> template'[k].status = "ACTIVE"
             /\ image'[k].status = "ACCEPTED" => profile'[image'[k].of].status \in {"ACTIVE", "INACTIVE"}
  <2>1. CASE k \in S
    BY <1>2, <2>1
  <2>2. CASE k \notin S
    <3>1. image'[k] = image[k] /\ template'[k] = template[k]
      BY <1>2, <1>9, <2>2
    <3>2. image[k].status = "ACCEPTED" => image[k].of \in Teachers
      BY <1>9 DEF RowsInv, StaffEnrollmentImage, NoImage
    <3>3. /\ image[k].status = "ACCEPTED" <=> template[k].status = "ACTIVE"
          /\ image[k].status = "ACCEPTED" => profile[image[k].of].status \in {"ACTIVE", "INACTIVE"}
      BY <1>9 DEF RowsInv, ErasedWithProfile, Known
    <3>4. image[k].status = "ACCEPTED" /\ image[k].of = p => status # "DELETED"
      BY <1>9, <2>2 DEF Accepted, AcceptedOf
    <3> QED
      BY <1>6, <3>1, <3>2, <3>3, <3>4
  <2> QED
    BY <2>1, <2>2
<1>10. ErasedWithProfile'
  BY <1>9 DEF ErasedWithProfile, Known
<1>11. \A i \in Images : image'[i] = NoImage => template'[i] = NoTemplate
  BY <1>2 DEF RowsInv
<1>12. profile'[p].state = "READY" =>
          \E m \in Models :
             /\ Cardinality(AcceptedOf(image', p)) >= MinAccepted
             /\ \A i \in AcceptedOf(image', p) : template'[i] = [status |-> "ACTIVE", model |-> m]
  BY <1>5, <1>6 DEF RowsInv
<1>13. backend' \in Models
  BY DEF RowsInv
<1>14. \A q \in Teachers \ {p} : /\ profile'[q] = profile[q]
                                 /\ AcceptedOf(image', q) = Accepted(q)
                                 /\ \A i \in Accepted(q) : image'[i] = image[i] /\ template'[i] = template[i]
  BY <1>4, <1>6
<1> QED
  BY <1>2, <1>6, <1>7, <1>8, <1>10, <1>11, <1>12, <1>13, <1>14, RowsOfOne

\* Nothing is withdrawn where no photo and no template changes.
LEMMA NothingWithdrawn ==
  ASSUME RowsInv, UNCHANGED <<image, template>>
  PROVE  Withdrawn({})
<1>1. image = [i \in Images |-> image[i]] /\ template = [i \in Images |-> template[i]]
  BY DEF RowsInv
<1> QED
  BY <1>1 DEF Withdrawn

-----------------------------------------------------------------------------
(* Photos: the requests *)

LEMMA CallFields ==
  ASSUME NEW r \in PendingCall
  PROVE  /\ r.step = "analyzed" => r.of \in Teachers /\ r.content \in Contents
         /\ r.step = "stored" => r.of \in Teachers /\ r.content \in Contents /\ r.image \in Images
         /\ r.step = "erase" => r.keys \in SUBSET Images
BY DEF PendingCall, NoCall

LEMMA CallKinds ==
  /\ NoCall \in PendingCall /\ NoCall.step = "idle"
  /\ \A p \in Teachers, x \in Contents :
        [step |-> "analyzed", of |-> p, content |-> x] \in PendingCall
  /\ \A p \in Teachers, x \in Contents, i \in Images :
        [step |-> "stored", of |-> p, content |-> x, image |-> i] \in PendingCall
  /\ \A K \in SUBSET Images : [step |-> "erase", keys |-> K] \in PendingCall
  /\ [step |-> "counted"] \in PendingCall
BY DEF PendingCall, NoCall

LEMMA HandTyped ==
  ASSUME call \in [Calls -> PendingCall], NEW c \in Calls
  PROVE  InHand(c) \subseteq Images
BY CallFields DEF InHand

LEMMA CountsShrink ==
  ASSUME CountsBounded, Enrolled' \subseteq Enrolled, Counting' \subseteq Counting
  PROVE  CountsBounded'
<1>1. Enrolled \in SUBSET Teachers /\ Counting \in SUBSET Calls
  BY DEF Enrolled, Counting
<1>2. IsFiniteSet(Enrolled) /\ IsFiniteSet(Counting) /\ IsFiniteSet(Enrolled') /\ IsFiniteSet(Counting')
  BY <1>1, StaffEnrollmentAssumption, FS_Subset
<1>3. /\ Cardinality(Enrolled') <= Cardinality(Enrolled) /\ Cardinality(Counting') <= Cardinality(Counting)
  BY <1>2, FS_Subset
<1>4. /\ Cardinality(Enrolled) \in Nat /\ Cardinality(Counting) \in Nat
      /\ Cardinality(Enrolled') \in Nat /\ Cardinality(Counting') \in Nat /\ Cardinality(Calls) \in Nat
  BY <1>2, StaffEnrollmentAssumption, FS_CardinalityType
<1> QED
  BY <1>3, <1>4, StaffEnrollmentAssumption DEF CountsBounded

\* What an upload was admitted by stays while the rows of its profile do.
LEMMA AdmissibleKept ==
  ASSUME NEW q, NEW x, Admissible(q, x), profile'[q] = profile[q],
         AcceptedOf(image', q) = Accepted(q), \A i \in Accepted(q) : image'[i] = image[i]
  PROVE  Admissible(q, x)'
BY DEF Admissible, Accepted

\* Requests begin, return, die or turn to erasing; photos, templates and bytes stay.
LEMMA CallsMove ==
  ASSUME CallsInv, UNCHANGED <<image, template, media, unsure>>,
         call' \in [Calls -> PendingCall], left' \subseteq Images, left \subseteq left',
         \A q \in Teachers : profile'[q] = profile[q] \/ \A c \in Calls : Storing(c) => call[c].of # q,
         \A c \in Calls : \/ call'[c] = call[c]
                          \/ /\ call'[c].step # "stored" /\ InHand(c)' \subseteq InHand(c)
                             /\ InHand(c) \subseteq left' \cup InHand(c)',
         CountsBounded'
  PROVE  CallsInv'
<1>1. \A c \in Calls : Storing(c)' => Storing(c) /\ call'[c] = call[c]
  BY DEF Storing
<1>2. \A c \in Calls : Storing(c) => call[c].of \in Teachers
  BY CallFields DEF CallsInv, Storing
<1>3. UploadsHold'
  <2>1. ASSUME NEW c \in Calls, Storing(c)'
        PROVE  /\ Admissible(call[c].of, call[c].content)'
               /\ image'[call'[c].image] = NoImage /\ call'[c].image \in media'
    <3>1. Storing(c) /\ call'[c] = call[c]
      BY <1>1, <2>1
    <3>2. PICK q \in Teachers : q = call[c].of
      BY <1>2, <3>1
    <3>3. profile'[q] = profile[q]
      BY <3>1, <3>2
    <3>4. PICK x : x = call[c].content
      OBVIOUS
    <3>5. Admissible(q, x)
      BY <3>1, <3>2, <3>4 DEF CallsInv, UploadsHold
    <3>6. Admissible(q, x)'
      BY <3>3, <3>5 DEF Admissible, Accepted, AcceptedOf
    <3>7. image[call[c].image] = NoImage /\ call[c].image \in media
      BY <3>1 DEF CallsInv, UploadsHold
    <3> QED
      BY <3>1, <3>2, <3>4, <3>6, <3>7
  <2>2. \A b, c \in Calls : Storing(b)' /\ Storing(c)' /\ call'[b].of = call'[c].of => b = c
    BY <1>1 DEF CallsInv, UploadsHold
  <2> QED
    BY <2>1, <2>2 DEF UploadsHold
<1>4. \A c \in Calls : InHand(c)' \subseteq InHand(c) /\ InHand(c) \subseteq left' \cup InHand(c)'
  BY DEF InHand
<1>5. Erasures'
  BY <1>4 DEF CallsInv, Erasures
<1>6. BytesKept'
  <2>1. ASSUME NEW i \in Images, i \in media
        PROVE  image[i].status = "ACCEPTED" \/ i \in left' \cup UNION {InHand(c)' : c \in Calls}
    BY <1>4, <2>1 DEF CallsInv, BytesKept
  <2> QED
    BY <2>1 DEF CallsInv, BytesKept
<1> QED
  BY <1>3, <1>5, <1>6 DEF CallsInv

LEMMA CallsSame == CallsInv /\ UNCHANGED <<enrollmentRows, media, call, unsure, left>> => CallsInv'
<1> SUFFICES ASSUME CallsInv, UNCHANGED <<enrollmentRows, media, call, unsure, left>> PROVE CallsInv'
  OBVIOUS
<1>1. CountsBounded'
  BY DEF CallsInv, CountsBounded, Counting, Enrolled, Known, enrollmentRows
<1> QED
  BY <1>1, CallsMove DEF CallsInv, enrollmentRows

LEMMA CallsStore ==
  ASSUME RowsInv, CallsInv, NEW c \in Calls, NEW i \in Images, StoreImage(c, i)
  PROVE  CallsInv'
<1>1. /\ call[c].step = "analyzed" /\ ProfileFree(call[c].of) /\ Admissible(call[c].of, call[c].content)
      /\ image[i] = NoImage /\ i \notin media
      /\ media' = media \cup {i} /\ UNCHANGED <<profile, image, template, backend, unsure, left>>
      /\ call' = [call EXCEPT ![c] = [step |-> "stored", of |-> call[c].of,
                                      content |-> call[c].content, image |-> i]]
  BY DEF StoreImage, enrollmentRows
<1>2. call[c].of \in Teachers /\ call[c].content \in Contents
  BY <1>1, CallFields DEF CallsInv
<1>3. call' \in [Calls -> PendingCall]
  BY <1>1, <1>2, CallKinds DEF CallsInv
<1>4. /\ call'[c].step = "stored" /\ call'[c].of = call[c].of /\ call'[c].content = call[c].content
      /\ call'[c].image = i /\ \A b \in Calls \ {c} : call'[b] = call[b]
  BY <1>1 DEF CallsInv
<1>5. InHand(c) = {} /\ InHand(c)' = {i} /\ \A b \in Calls \ {c} : InHand(b)' = InHand(b)
  BY <1>1, <1>4 DEF InHand
<1>6. \A b \in Calls : i \notin InHand(b)
  BY <1>1 DEF CallsInv, Erasures
<1>7. Admissible(call[c].of, call[c].content)'
  BY <1>1, <1>4 DEF Admissible, Accepted, AcceptedOf
<1>8. ASSUME NEW b \in Calls \ {c}, Storing(b)'
      PROVE  /\ Storing(b) /\ Admissible(call[b].of, call[b].content)' /\ call'[b].of # call'[c].of
             /\ image'[call'[b].image] = NoImage /\ call'[b].image \in media'
  <2>1. Storing(b) /\ call'[b] = call[b] /\ call[b].of # call[c].of
    BY <1>1, <1>4, <1>8 DEF Storing, ProfileFree
  <2>2. Admissible(call[b].of, call[b].content) /\ image[call[b].image] = NoImage /\ call[b].image \in media
    BY <2>1 DEF CallsInv, UploadsHold
  <2>3. Admissible(call[b].of, call[b].content)'
    BY <1>1, <2>1, <2>2 DEF Admissible, Accepted, AcceptedOf
  <2> QED
    BY <1>1, <1>4, <2>1, <2>2, <2>3
<1>9. UploadsHold'
  <2>1. ASSUME NEW b \in Calls, Storing(b)'
        PROVE  /\ Admissible(call[b].of, call[b].content)'
               /\ image'[call'[b].image] = NoImage /\ call'[b].image \in media'
    BY <1>1, <1>4, <1>7, <1>8, <2>1
  <2>2. ASSUME NEW a \in Calls, NEW b \in Calls, Storing(a)', Storing(b)', call'[a].of = call'[b].of
        PROVE  a = b
    <3>1. CASE a = c \/ b = c
      BY <1>8, <2>2, <3>1
    <3>2. CASE a # c /\ b # c
      <4>1. Storing(a) /\ Storing(b) /\ call[a].of = call[b].of
        BY <1>4, <1>8, <2>2, <3>2
      <4> QED
        BY <4>1 DEF CallsInv, UploadsHold
    <3> QED
      BY <3>1, <3>2
  <2> QED
    BY <2>1, <2>2 DEF UploadsHold
<1>10. Erasures'
  <2>1. ASSUME NEW b \in Calls, NEW k \in InHand(b)'
        PROVE  IF image[k] = NoImage THEN k \in media \cup {i} /\ \A a \in Calls \ {b} : k \notin InHand(a)'
               ELSE image[k].status = "ACCEPTED" => k \in unsure
    <3>1. CASE b = c
      BY <1>1, <1>5, <1>6, <2>1, <3>1
    <3>2. CASE b # c
      <4>1. k \in InHand(b) /\ k # i
        BY <1>5, <1>6, <2>1, <3>2
      <4>2. IF image[k] = NoImage THEN k \in media /\ \A a \in Calls \ {b} : k \notin InHand(a)
            ELSE image[k].status = "ACCEPTED" => k \in unsure
        BY <4>1 DEF CallsInv, Erasures
      <4> QED
        BY <1>5, <4>1, <4>2
    <3> QED
      BY <3>1, <3>2
  <2> QED
    BY <1>1, <2>1 DEF Erasures
<1>11. BytesKept'
  <2>1. ASSUME NEW k \in Images, k \in media \cup {i}
        PROVE  image[k].status = "ACCEPTED" \/ k \in left \cup UNION {InHand(b)' : b \in Calls}
    <3>1. CASE k = i
      BY <1>5, <3>1
    <3>2. CASE k # i
      <4>1. image[k].status = "ACCEPTED" \/ k \in left \/ \E b \in Calls : k \in InHand(b)
        BY <2>1, <3>2 DEF CallsInv, BytesKept
      <4> QED
        BY <1>5, <4>1
    <3> QED
      BY <3>1, <3>2
  <2> QED
    BY <1>1, <2>1 DEF CallsInv, BytesKept
<1>12. CountsBounded'
  <2>1. Enrolled' = Enrolled /\ Counting' = Counting
    BY <1>1, <1>4 DEF Enrolled, Known, Counting
  <2> QED
    BY <2>1 DEF CallsInv, CountsBounded
<1> QED
  BY <1>1, <1>3, <1>9, <1>10, <1>11, <1>12 DEF CallsInv

\* The commit of an upload, answered or not.
LEMMA CallsCommit ==
  ASSUME RowsInv, CallsInv, NEW c \in Calls, Storing(c),
         InsertImage(call[c].image, call[c].of, call[c].content), UNCHANGED <<media, backend, left>>,
         \/ Returns(c) /\ UNCHANGED unsure
         \/ /\ unsure' = unsure \cup {call[c].image}
            /\ call' = [call EXCEPT ![c] = [step |-> "erase", keys |-> {call[c].image}]]
  PROVE  CallsInv'
<1>1. PICK i \in Images, p \in Teachers, x \in Contents :
        i = call[c].image /\ p = call[c].of /\ x = call[c].content
  BY CallFields DEF CallsInv, Storing
<1>2. image[i] = NoImage /\ i \in media /\ \A b \in Calls : Storing(b) /\ call[b].of = p => b = c
  BY <1>1 DEF CallsInv, UploadsHold
<1>3. \A b \in Calls \ {c} : i \notin InHand(b)
  <2>1. i \in InHand(c)
    BY <1>1 DEF InHand, Storing
  <2> QED
    BY <1>2, <2>1 DEF CallsInv, Erasures
<1>4. /\ image' = [image EXCEPT ![i] = [status |-> "ACCEPTED", of |-> p, content |-> x]]
      /\ profile' = [profile EXCEPT ![p].state = State(image', template', p)]
  BY <1>1 DEF InsertImage
<1>5. /\ image'[i].status = "ACCEPTED" /\ image'[i].of = p /\ image'[i] # NoImage
      /\ \A k \in Images \ {i} : image'[k] = image[k]
  BY <1>4 DEF RowsInv, NoImage
<1>6. /\ \A q \in Teachers : profile'[q].status = profile[q].status
      /\ \A q \in Teachers \ {p} : profile'[q] = profile[q]
  BY <1>4 DEF RowsInv
<1>7. /\ call' \in [Calls -> PendingCall] /\ call'[c].step \in {"idle", "erase"}
      /\ \A b \in Calls \ {c} : call'[b] = call[b]
  <2>1. CASE Returns(c)
    BY <2>1, CallKinds DEF Returns, CallsInv
  <2>2. CASE call' = [call EXCEPT ![c] = [step |-> "erase", keys |-> {i}]]
    <3>1. [step |-> "erase", keys |-> {i}] \in PendingCall
      BY CallKinds
    <3> QED
      BY <2>2, <3>1 DEF CallsInv
  <2> QED
    BY <1>1, <2>1, <2>2
<1>8. InHand(c)' \subseteq {i} /\ \A b \in Calls \ {c} : InHand(b)' = InHand(b)
  <2>1. CASE Returns(c)
    BY <1>7, <2>1 DEF Returns, CallsInv, InHand, NoCall
  <2>2. CASE call' = [call EXCEPT ![c] = [step |-> "erase", keys |-> {i}]]
    BY <1>7, <2>2 DEF CallsInv, InHand
  <2> QED
    BY <1>1, <2>1, <2>2
<1>9. unsure \subseteq unsure' /\ unsure' \subseteq Images /\ (InHand(c)' # {} => i \in unsure')
  <2>1. CASE Returns(c) /\ UNCHANGED unsure
    BY <2>1 DEF Returns, CallsInv, InHand, NoCall
  <2>2. CASE unsure' = unsure \cup {i}
    BY <2>2 DEF CallsInv
  <2> QED
    BY <1>1, <2>1, <2>2
<1>10. UploadsHold'
  <2>1. ASSUME NEW b \in Calls, Storing(b)'
        PROVE  /\ Storing(b) /\ call'[b] = call[b]
               /\ Admissible(call[b].of, call[b].content)'
               /\ image'[call'[b].image] = NoImage /\ call'[b].image \in media'
    <3>1. b # c /\ Storing(b) /\ call'[b] = call[b]
      BY <1>7, <2>1 DEF Storing
    <3>2. PICK q \in Teachers : q = call[b].of
      BY <3>1, CallFields DEF CallsInv, Storing
    <3>3. q # p
      BY <1>2, <3>1, <3>2
    <3>4. AcceptedOf(image', q) = Accepted(q) /\ i \notin Accepted(q)
      BY <1>2, <1>5, <3>3 DEF Accepted, AcceptedOf, NoImage
    <3>5. \A k \in Accepted(q) : image'[k] = image[k]
      BY <1>5, <3>4 DEF Accepted, AcceptedOf
    <3>6. PICK y : y = call[b].content
      OBVIOUS
    <3>7. Admissible(q, y) /\ image[call[b].image] = NoImage /\ call[b].image \in media
      BY <3>1, <3>2, <3>6 DEF CallsInv, UploadsHold
    <3>8. Admissible(q, y)'
      BY <1>6, <3>3, <3>4, <3>5, <3>7, AdmissibleKept
    <3>9. call[b].image \in Images \ {i}
      <4>1. call[b].image \in Images /\ call[b].image \in InHand(b)
        BY <3>1, CallFields DEF CallsInv, Storing, InHand
      <4> QED
        BY <1>3, <3>1, <4>1
    <3> QED
      BY <1>5, <3>1, <3>2, <3>6, <3>7, <3>8, <3>9
  <2> QED
    BY <2>1 DEF CallsInv, UploadsHold
<1>11. Erasures'
  <2>1. ASSUME NEW b \in Calls, NEW k \in InHand(b)'
        PROVE  IF image'[k] = NoImage THEN k \in media /\ \A a \in Calls \ {b} : k \notin InHand(a)'
               ELSE image'[k].status = "ACCEPTED" => k \in unsure'
    <3>1. CASE b = c
      BY <1>5, <1>8, <1>9, <2>1, <3>1
    <3>2. CASE b # c
      <4>1. k \in InHand(b) /\ k # i /\ k \in Images
        BY <1>3, <1>8, <2>1, <3>2, HandTyped DEF CallsInv
      <4>2. IF image[k] = NoImage THEN k \in media /\ \A a \in Calls \ {b} : k \notin InHand(a)
            ELSE image[k].status = "ACCEPTED" => k \in unsure
        BY <4>1 DEF CallsInv, Erasures
      <4> QED
        BY <1>5, <1>8, <1>9, <4>1, <4>2
    <3> QED
      BY <3>1, <3>2
  <2> QED
    BY <2>1 DEF Erasures
<1>12. BytesKept'
  <2>1. ASSUME NEW k \in Images
        PROVE  /\ image'[k].status = "ACCEPTED" => k \in media \cup unsure'
               /\ k \in media => image'[k].status = "ACCEPTED" \/ k \in left \cup UNION {InHand(b)' : b \in Calls}
    <3>1. CASE k = i
      BY <1>2, <1>5, <3>1
    <3>2. CASE k # i
      <4>1. /\ image[k].status = "ACCEPTED" => k \in media \cup unsure
            /\ k \in media => image[k].status = "ACCEPTED" \/ k \in left \/ \E b \in Calls : k \in InHand(b)
        BY <2>1 DEF CallsInv, BytesKept
      <4>2. k \notin InHand(c)
        BY <1>1, <3>2 DEF InHand, Storing
      <4> QED
        BY <1>5, <1>8, <1>9, <3>2, <4>1, <4>2
    <3> QED
      BY <3>1, <3>2
  <2> QED
    BY <2>1 DEF BytesKept
<1>13. CountsBounded'
  <2>1. Enrolled' = Enrolled /\ Counting' = Counting
    BY <1>6, <1>7 DEF Enrolled, Known, Counting, Storing
  <2> QED
    BY <2>1 DEF CallsInv, CountsBounded
<1> QED
  BY <1>7, <1>9, <1>10, <1>11, <1>12, <1>13 DEF CallsInv

\* Photos of p are withdrawn, and the request goes on to erase their bytes.
LEMMA CallsWithdraw ==
  ASSUME RowsInv, CallsInv, NEW c \in Calls, NEW p \in Teachers, NEW S \in SUBSET Accepted(p),
         call[c] = NoCall, ProfileFree(p), Withdrawn(S),
         call' = [call EXCEPT ![c] = [step |-> "erase", keys |-> S]],
         UNCHANGED <<media, unsure, left>>,
         \A q \in Teachers \ {p} : profile'[q] = profile[q],
         Known(p)
  PROVE  CallsInv'
<1>1. S \in SUBSET Images /\ \A i \in S : image[i].status = "ACCEPTED" /\ image[i].of = p
  BY DEF Accepted, AcceptedOf
<1>2. /\ \A i \in S : image'[i] # NoImage /\ image'[i].status = "DELETED"
      /\ \A i \in Images \ S : image'[i] = image[i]
  BY <1>1, WithdrawnRows
<1>3. /\ call' \in [Calls -> PendingCall] /\ call'[c].step = "erase" /\ call'[c].keys = S
      /\ call[c].step = "idle" /\ \A b \in Calls \ {c} : call'[b] = call[b]
  BY <1>1, CallKinds DEF CallsInv, NoCall
<1>4. InHand(c) = {} /\ InHand(c)' = S /\ \A b \in Calls \ {c} : InHand(b)' = InHand(b)
  BY <1>3 DEF InHand
<1>5. \A q \in Teachers \ {p} : /\ AcceptedOf(image', q) = Accepted(q)
                                /\ \A i \in Accepted(q) : image'[i] = image[i]
  <2> SUFFICES ASSUME NEW q \in Teachers \ {p}
               PROVE  /\ AcceptedOf(image', q) = Accepted(q)
                      /\ \A i \in Accepted(q) : image'[i] = image[i]
    OBVIOUS
  <2>1. \A i \in Accepted(q) : i \in Images \ S
    BY <1>1 DEF Accepted, AcceptedOf
  <2> QED
    BY <1>2, <2>1 DEF Accepted, AcceptedOf
<1>6. UploadsHold'
  <2>1. ASSUME NEW b \in Calls, Storing(b)'
        PROVE  /\ Storing(b) /\ call'[b] = call[b]
               /\ Admissible(call[b].of, call[b].content)'
               /\ image'[call'[b].image] = NoImage /\ call'[b].image \in media'
    <3>1. b # c /\ Storing(b) /\ call'[b] = call[b]
      BY <1>3, <2>1 DEF Storing
    <3>2. PICK q \in Teachers : q = call[b].of
      BY <3>1, CallFields DEF CallsInv, Storing
    <3>3. q # p
      BY <3>1, <3>2 DEF ProfileFree, Storing
    <3>4. PICK y : y = call[b].content
      OBVIOUS
    <3>5. Admissible(q, y) /\ image[call[b].image] = NoImage /\ call[b].image \in media
      BY <3>1, <3>2, <3>4 DEF CallsInv, UploadsHold
    <3>6. Admissible(q, y)'
      BY <1>5, <3>3, <3>5, AdmissibleKept
    <3>7. call[b].image \in Images \ S
      BY <1>1, <3>1, <3>5, CallFields DEF CallsInv, Storing, NoImage
    <3> QED
      BY <1>2, <3>1, <3>2, <3>4, <3>5, <3>6, <3>7
  <2> QED
    BY <2>1 DEF CallsInv, UploadsHold
<1>7. Erasures'
  <2>1. ASSUME NEW b \in Calls, NEW k \in InHand(b)'
        PROVE  IF image'[k] = NoImage THEN k \in media /\ \A a \in Calls \ {b} : k \notin InHand(a)'
               ELSE image'[k].status = "ACCEPTED" => k \in unsure
    <3>1. k \in Images
      BY <1>1, <1>4, <2>1, HandTyped DEF CallsInv
    <3>2. CASE k \in S
      BY <1>2, <3>2
    <3>3. CASE k \notin S
      <4>1. b # c /\ k \in InHand(b)
        BY <1>4, <2>1, <3>3
      <4>2. IF image[k] = NoImage THEN k \in media /\ \A a \in Calls \ {b} : k \notin InHand(a)
            ELSE image[k].status = "ACCEPTED" => k \in unsure
        BY <4>1 DEF CallsInv, Erasures
      <4> QED
        BY <1>2, <1>4, <3>1, <3>3, <4>2
    <3> QED
      BY <3>2, <3>3
  <2> QED
    BY <2>1 DEF Erasures
<1>8. BytesKept'
  <2>1. ASSUME NEW k \in Images
        PROVE  /\ image'[k].status = "ACCEPTED" => k \in media \cup unsure
               /\ k \in media => image'[k].status = "ACCEPTED" \/ k \in left \cup UNION {InHand(b)' : b \in Calls}
    <3>1. CASE k \in S
      BY <1>2, <1>4, <3>1
    <3>2. CASE k \notin S
      <4>1. /\ image[k].status = "ACCEPTED" => k \in media \cup unsure
            /\ k \in media => image[k].status = "ACCEPTED" \/ k \in left \/ \E b \in Calls : k \in InHand(b)
        BY <2>1 DEF CallsInv, BytesKept
      <4> QED
        BY <1>2, <1>4, <2>1, <3>2, <4>1
    <3> QED
      BY <3>1, <3>2
  <2> QED
    BY <2>1 DEF BytesKept
<1>9. CountsBounded'
  <2>1. Enrolled' \subseteq Enrolled /\ Counting' \subseteq Counting
    BY <1>3 DEF Enrolled, Known, Counting
  <2> QED
    BY <2>1, CountsShrink DEF CallsInv
<1> QED
  BY <1>3, <1>6, <1>7, <1>8, <1>9 DEF CallsInv

\* One key of an erasing request goes from the store.
LEMMA CallsErase ==
  ASSUME RowsInv, CallsInv, NEW c \in Calls, NEW i \in call[c].keys, call[c].step = "erase",
         UNCHANGED <<enrollmentRows, unsure, left>>, media' = media \ {i},
         call' = [call EXCEPT ![c].keys = call[c].keys \ {i}]
  PROVE  CallsInv'
<1>1. PICK K \in SUBSET Images : K = call[c].keys /\ call[c] = [step |-> "erase", keys |-> K]
  BY DEF CallsInv, PendingCall, NoCall
<1>2. call'[c] = [step |-> "erase", keys |-> K \ {i}] /\ \A b \in Calls \ {c} : call'[b] = call[b]
  BY <1>1 DEF CallsInv
<1>3. call' \in [Calls -> PendingCall]
  <2>1. [step |-> "erase", keys |-> K \ {i}] \in PendingCall
    BY CallKinds
  <2>2. call' = [call EXCEPT ![c] = call'[c]]
    BY <1>1, <1>2 DEF CallsInv
  <2> QED
    BY <1>2, <2>1, <2>2 DEF CallsInv
<1>4. /\ InHand(c) = K /\ InHand(c)' = K \ {i} /\ i \in K
      /\ \A b \in Calls \ {c} : InHand(b)' = InHand(b)
  BY <1>1, <1>2 DEF InHand
<1>5. IF image[i] = NoImage THEN \A a \in Calls \ {c} : i \notin InHand(a)
      ELSE image[i].status = "ACCEPTED" => i \in unsure
  BY <1>4 DEF CallsInv, Erasures
<1>6. UNCHANGED <<profile, image, template>>
  BY DEF enrollmentRows
<1>7. UploadsHold'
  <2>1. ASSUME NEW b \in Calls, Storing(b)'
        PROVE  /\ Storing(b) /\ call'[b] = call[b]
               /\ Admissible(call[b].of, call[b].content)'
               /\ image'[call'[b].image] = NoImage /\ call'[b].image \in media'
    <3>1. b # c /\ Storing(b) /\ call'[b] = call[b]
      BY <1>2, <2>1 DEF Storing
    <3>2. Admissible(call[b].of, call[b].content) /\ image[call[b].image] = NoImage /\ call[b].image \in media
      BY <3>1 DEF CallsInv, UploadsHold
    <3>3. Admissible(call[b].of, call[b].content)'
      BY <1>6, <3>1, <3>2 DEF Admissible, Accepted, AcceptedOf
    <3>4. call[b].image # i
      <4>1. call[b].image \in InHand(b)
        BY <3>1 DEF InHand, Storing
      <4> QED
        BY <1>5, <3>1, <3>2, <4>1
    <3> QED
      BY <1>6, <3>1, <3>2, <3>3, <3>4
  <2> QED
    BY <2>1 DEF CallsInv, UploadsHold
<1>8. Erasures'
  <2>1. ASSUME NEW b \in Calls, NEW k \in InHand(b)'
        PROVE  IF image[k] = NoImage THEN k \in media \ {i} /\ \A a \in Calls \ {b} : k \notin InHand(a)'
               ELSE image[k].status = "ACCEPTED" => k \in unsure
    <3>1. k \in InHand(b) /\ \A a \in Calls : InHand(a)' \subseteq InHand(a)
      BY <1>4, <2>1
    <3>2. IF image[k] = NoImage THEN k \in media /\ \A a \in Calls \ {b} : k \notin InHand(a)
          ELSE image[k].status = "ACCEPTED" => k \in unsure
      BY <3>1 DEF CallsInv, Erasures
    <3>3. image[k] = NoImage => k # i
      BY <1>4, <1>5, <2>1
    <3> QED
      BY <3>1, <3>2, <3>3
  <2> QED
    BY <1>6, <2>1 DEF Erasures
<1>9. BytesKept'
  <2>1. ASSUME NEW k \in Images
        PROVE  /\ image[k].status = "ACCEPTED" => k \in (media \ {i}) \cup unsure
               /\ k \in media \ {i} => image[k].status = "ACCEPTED" \/ k \in left \cup UNION {InHand(b)' : b \in Calls}
    <3>1. /\ image[k].status = "ACCEPTED" => k \in media \cup unsure
          /\ k \in media => image[k].status = "ACCEPTED" \/ k \in left \/ \E b \in Calls : k \in InHand(b)
      BY <2>1 DEF CallsInv, BytesKept
    <3>2. image[i].status = "ACCEPTED" => i \in unsure
      BY <1>5 DEF NoImage
    <3> QED
      BY <1>4, <3>1, <3>2
  <2> QED
    BY <1>6, <2>1 DEF BytesKept
<1>10. CountsBounded'
  <2>0. call'[c].step = "erase"
    BY <1>2
  <2>1. \A b \in Calls : call'[b].step = call[b].step
    BY <1>2, <2>0
  <2>2. Enrolled' = Enrolled
    BY <1>6 DEF Enrolled, Known
  <2>3. Counting' = Counting
    BY <2>1 DEF Counting
  <2> QED
    BY <2>2, <2>3 DEF CallsInv, CountsBounded
<1> QED
  BY <1>3, <1>6, <1>7, <1>8, <1>9, <1>10 DEF CallsInv

-----------------------------------------------------------------------------
(* Photos: the package, and every step *)

LEMMA ExportKept ==
  ASSUME ExportInv, UNCHANGED export,
         \A i \in Images : template[i].status = "REVOKED" => template'[i].status = "REVOKED"
  PROVE  ExportInv'
<1>1. export.revoked \subseteq Images
  BY DEF ExportInv, RecognitionPackage, NoExport
<1> QED
  BY <1>1 DEF ExportInv, PackageSound

LEMMA ExportSame == ExportInv /\ UNCHANGED <<export, template>> => ExportInv'
BY ExportKept

LEMMA ExportsKept ==
  ASSUME RowsInv, ExportInv, ExportStep
  PROVE  ExportInv' /\ UNCHANGED <<enrollmentRows, media, backend, call, unsure, left>>
<1>1. ASSUME NEW m \in Models, StartExport(m)
      PROVE  ExportInv'
  <2>1. PICK R \in SUBSET Images : R = {i \in Images : template[i].status = "REVOKED"}
    OBVIOUS
  <2>2. PICK T \in SUBSET Teachers : T = Recognisable
    BY DEF Recognisable
  <2>3. export' = [step |-> "reading", model |-> m, todo |-> T, entries |-> {}, revoked |-> R]
    BY <1>1, <2>1, <2>2 DEF StartExport
  <2>4. UNCHANGED template
    BY <1>1 DEF StartExport, enrollmentRows
  <2> QED
    BY <2>1, <2>3, <2>4 DEF ExportInv, RecognitionPackage, PackageSound
<1>2. ASSUME NEW p \in Teachers, ExportTemplates(p)
      PROVE  ExportInv'
  <2>1. PICK F \in SUBSET Images :
           F = {i \in Images : /\ template[i].status = "ACTIVE" /\ image[i].of = p
                               /\ template[i].model = export.model}
    OBVIOUS
  <2>2. export' = [export EXCEPT !.todo = export.todo \ {p}, !.entries = export.entries \cup F]
    BY <1>2, <2>1 DEF ExportTemplates
  <2>3. export \in RecognitionPackage
    BY <1>2 DEF ExportTemplates, ExportInv, NoExport
  <2>4. /\ export' \in RecognitionPackage /\ export'.entries = export.entries \cup F
        /\ export'.revoked = export.revoked
    BY <2>2, <2>3 DEF RecognitionPackage
  <2>5. F \cap export.revoked = {}
    BY <2>1 DEF ExportInv
  <2>6. UNCHANGED template
    BY <1>2 DEF ExportTemplates, enrollmentRows
  <2> QED
    BY <2>4, <2>5, <2>6 DEF ExportInv, PackageSound
<1>3. ASSUME WritePackage
      PROVE  ExportInv'
  BY <1>3 DEF WritePackage, ExportInv, PackageSound, NoExport
<1>4. UNCHANGED <<enrollmentRows, media, backend, call, unsure, left>>
  BY DEF ExportStep, StartExport, ExportTemplates, WritePackage
<1> QED
  BY <1>1, <1>2, <1>3, <1>4 DEF ExportStep

\* Requests only: the rows of no profile, photo or template change.
LEMMA PhotosCall ==
  ASSUME PhotosInv, UNCHANGED <<enrollmentRows, media, unsure, export>>, backend' \in Models,
         call' \in [Calls -> PendingCall], left' \subseteq Images, left \subseteq left',
         \A c \in Calls : \/ call'[c] = call[c]
                          \/ /\ call'[c].step # "stored" /\ InHand(c)' \subseteq InHand(c)
                             /\ InHand(c) \subseteq left' \cup InHand(c)',
         CountsBounded'
  PROVE  PhotosInv'
<1>1. RowsInv'
  BY RowsSame DEF PhotosInv
<1>2. CallsInv'
  BY CallsMove DEF PhotosInv, enrollmentRows
<1>3. ExportInv'
  BY ExportSame DEF PhotosInv, enrollmentRows
<1> QED
  BY <1>1, <1>2, <1>3 DEF PhotosInv

\* One request, c, moves on; if it has not just counted, no more are counting.
LEMMA PhotosOneCall ==
  ASSUME PhotosInv, UNCHANGED <<enrollmentRows, media, unsure, export, backend>>, NEW c \in Calls,
         NEW r \in PendingCall, call' = [call EXCEPT ![c] = r], r.step \notin {"stored", "counted"},
         left' \subseteq Images, left \subseteq left',
         r.step = "erase" => r.keys = InHand(c),
         r.step # "erase" => InHand(c) \subseteq left'
  PROVE  PhotosInv'
<1>1. call' \in [Calls -> PendingCall] /\ call'[c] = r /\ \A b \in Calls \ {c} : call'[b] = call[b]
  BY DEF PhotosInv, CallsInv
<1>2. IF r.step = "erase" THEN InHand(c)' = InHand(c) ELSE InHand(c)' = {} /\ InHand(c) \subseteq left'
  BY <1>1 DEF InHand
<1>3. CountsBounded'
  <2>1. Enrolled' \subseteq Enrolled /\ Counting' \subseteq Counting
    BY <1>1 DEF Enrolled, Known, Counting, enrollmentRows
  <2> QED
    BY <2>1, CountsShrink DEF PhotosInv, CallsInv
<1>4. backend' \in Models
  BY DEF PhotosInv, RowsInv
<1> QED
  BY <1>1, <1>2, <1>3, <1>4, PhotosCall

LEMMA PhotosAnalyze ==
  ASSUME PhotosInv, NEW c \in Calls, NEW p \in Teachers, NEW x \in Contents, Analyze(c, p, x)
  PROVE  PhotosInv'
<1>1. PICK r \in PendingCall : r = [step |-> "analyzed", of |-> p, content |-> x]
  BY CallKinds
<1>2. InHand(c) = {}
  BY DEF Analyze, InHand, NoCall
<1> QED
  BY <1>1, <1>2, PhotosOneCall DEF Analyze, PhotosInv, CallsInv

\* A request that has nothing in hand, or leaves it behind, returns.
LEMMA PhotosReturn ==
  ASSUME PhotosInv, UNCHANGED <<enrollmentRows, media, unsure, export, backend>>, NEW c \in Calls,
         Returns(c), left' = left \cup InHand(c)
  PROVE  PhotosInv'
<1>1. PICK r \in PendingCall : r = NoCall /\ r.step = "idle"
  BY CallKinds
<1>2. InHand(c) \subseteq Images
  BY HandTyped DEF PhotosInv, CallsInv
<1> QED
  BY <1>1, <1>2, PhotosOneCall DEF Returns, PhotosInv, CallsInv

LEMMA PhotosCommit ==
  ASSUME PhotosInv, NEW c \in Calls, CommitImage(c)
  PROVE  PhotosInv'
<1>1. Storing(c) /\ UNCHANGED <<media, backend, export, left>>
  BY DEF CommitImage, Storing
<1>2. PICK i \in Images, p \in Teachers, x \in Contents :
        i = call[c].image /\ p = call[c].of /\ x = call[c].content
  BY <1>1, CallFields DEF PhotosInv, CallsInv, Storing
<1>3. CASE /\ InsertImage(call[c].image, call[c].of, call[c].content)
           /\ \/ Returns(c) /\ UNCHANGED unsure
              \/ /\ unsure' = unsure \cup {call[c].image}
                 /\ call' = [call EXCEPT ![c] = [step |-> "erase", keys |-> {call[c].image}]]
  <2>1. CallsInv'
    BY <1>1, <1>3, CallsCommit DEF PhotosInv
  <2>2. image[i] = NoImage /\ Admissible(p, x)
    BY <1>1, <1>2 DEF PhotosInv, CallsInv, UploadsHold
  <2>3. RowsInv'
    BY <1>1, <1>2, <1>3, <2>2, RowsInserted DEF PhotosInv
  <2>4. template[i].status = "none" /\ \A k \in Images \ {i} : template'[k] = template[k]
    BY <1>2, <1>3, <2>2 DEF PhotosInv, RowsInv, NoTemplate, InsertImage
  <2>5. ExportInv'
    BY <1>1, <2>4, ExportKept DEF PhotosInv
  <2> QED
    BY <2>1, <2>3, <2>5 DEF PhotosInv
<1>4. CASE /\ call' = [call EXCEPT ![c] = [step |-> "erase", keys |-> {call[c].image}]]
           /\ UNCHANGED <<enrollmentRows, unsure>>
  <2>1. PICK r \in PendingCall : r = [step |-> "erase", keys |-> {i}]
    BY CallKinds
  <2>2. InHand(c) = {i}
    BY <1>1, <1>2 DEF InHand, Storing
  <2>3. r.step = "erase" /\ r.keys = {i}
    BY <2>1
  <2> QED
    BY <1>1, <1>2, <1>4, <2>1, <2>2, <2>3, PhotosOneCall DEF PhotosInv, CallsInv
<1> QED
  BY <1>3, <1>4 DEF CommitImage

LEMMA PhotosRemove ==
  ASSUME PhotosInv, NEW c \in Calls, NEW i \in Images, RemoveImage(c, i)
  PROVE  PhotosInv'
<1>1. PICK p \in Teachers : p = image[i].of
  BY DEF RemoveImage, PhotosInv, RowsInv, StaffEnrollmentImage, NoImage
<1>2. i \in Accepted(p) /\ Known(p) /\ Withdrawn({i}) /\ UNCHANGED <<media, backend, export, unsure, left>>
  BY <1>1 DEF RemoveImage, Accepted, AcceptedOf
<1>3. PICK s \in {"ACTIVE", "INACTIVE"} : s = profile[p].status
  BY <1>2 DEF Known
<1>4. PICK st : st = State(image', template', p)
  OBVIOUS
<1>5. profile' = [profile EXCEPT ![p].state = st]
  BY <1>1, <1>4 DEF RemoveImage
<1>6. profile' = [profile EXCEPT ![p] = [status |-> s, state |-> st]]
  <2>1. [profile[p] EXCEPT !.state = st] = [status |-> s, state |-> st]
    BY <1>3 DEF PhotosInv, RowsInv
  <2> QED
    BY <1>5, <2>1
<1>7. RowsInv'
  BY <1>2, <1>3, <1>4, <1>6, RowsWithdrawn DEF PhotosInv
<1>8. CallsInv'
  <2>1. \A q \in Teachers \ {p} : profile'[q] = profile[q]
    BY <1>6 DEF PhotosInv, RowsInv
  <2>2. ProfileFree(p) /\ call[c] = NoCall /\ call' = [call EXCEPT ![c] = [step |-> "erase", keys |-> {i}]]
    BY <1>1 DEF RemoveImage
  <2> QED
    BY <1>2, <2>1, <2>2, CallsWithdraw DEF PhotosInv
<1>9. ExportInv'
  <2>1. \A k \in Images : template[k].status = "REVOKED" => template'[k].status = "REVOKED"
    BY <1>2 DEF Withdrawn, PhotosInv, RowsInv, ErasedWithProfile, Accepted, AcceptedOf
  <2> QED
    BY <1>2, <2>1, ExportKept DEF PhotosInv
<1> QED
  BY <1>7, <1>8, <1>9 DEF PhotosInv

LEMMA PhotosDelete ==
  ASSUME PhotosInv, NEW c \in Calls, NEW p \in Teachers, DeleteProfile(c, p)
  PROVE  PhotosInv'
<1>1. /\ call[c] = NoCall /\ Known(p) /\ ProfileFree(p) /\ Withdrawn(Accepted(p))
      /\ profile' = [profile EXCEPT ![p] = [status |-> "DELETED", state |-> "EMPTY"]]
      /\ call' = [call EXCEPT ![c] = [step |-> "erase", keys |-> Accepted(p)]]
      /\ UNCHANGED <<media, backend, export, unsure, left>>
  BY DEF DeleteProfile
<1>2. RowsInv'
  BY <1>1, RowsWithdrawn DEF PhotosInv
<1>3. CallsInv'
  <2>1. \A q \in Teachers \ {p} : profile'[q] = profile[q]
    BY <1>1 DEF PhotosInv, RowsInv
  <2> QED
    BY <1>1, <2>1, CallsWithdraw DEF PhotosInv
<1>4. ExportInv'
  <2>1. \A k \in Images : template[k].status = "REVOKED" => template'[k].status = "REVOKED"
    BY <1>1 DEF Withdrawn, PhotosInv, RowsInv, ErasedWithProfile, Accepted, AcceptedOf
  <2> QED
    BY <1>1, <2>1, ExportKept DEF PhotosInv
<1> QED
  BY <1>2, <1>3, <1>4 DEF PhotosInv

LEMMA PhotosStore ==
  ASSUME PhotosInv, NEW c \in Calls, NEW i \in Images, StoreImage(c, i)
  PROVE  PhotosInv'
<1>1. UNCHANGED <<enrollmentRows, backend, export>>
  BY DEF StoreImage
<1>2. RowsInv'
  BY <1>1, RowsSame DEF PhotosInv, RowsInv
<1>3. CallsInv'
  BY CallsStore DEF PhotosInv
<1>4. ExportInv'
  BY <1>1, ExportSame DEF PhotosInv, enrollmentRows
<1> QED
  BY <1>2, <1>3, <1>4 DEF PhotosInv

LEMMA PhotosErase ==
  ASSUME PhotosInv, NEW c \in Calls, Erase(c)
  PROVE  PhotosInv'
<1>1. call[c].step = "erase" /\ UNCHANGED <<enrollmentRows, backend, export, unsure, left>>
  BY DEF Erase
<1>2. CASE call[c].keys = {} /\ Returns(c) /\ UNCHANGED media
  <2>1. InHand(c) = {}
    BY <1>1, <1>2 DEF InHand
  <2>2. left' = left \cup InHand(c)
    BY <1>1, <2>1
  <2> QED
    BY <1>1, <1>2, <2>2, PhotosReturn
<1>3. CASE \E i \in call[c].keys : /\ media' = media \ {i}
                                   /\ call' = [call EXCEPT ![c].keys = call[c].keys \ {i}]
  <2>1. RowsInv'
    BY <1>1, RowsSame DEF PhotosInv, RowsInv
  <2>2. CallsInv'
    BY <1>1, <1>3, CallsErase DEF PhotosInv
  <2>3. ExportInv'
    BY <1>1, ExportSame DEF PhotosInv, enrollmentRows
  <2> QED
    BY <2>1, <2>2, <2>3 DEF PhotosInv
<1> QED
  BY <1>2, <1>3 DEF Erase

\* The row of p is set while no upload holds p: its photos stay.
LEMMA PhotosProfile ==
  ASSUME PhotosInv, NEW p \in Teachers, NEW status \in {"ACTIVE", "INACTIVE"}, NEW state,
         state = "EMPTY" \/ state = State(image', template', p),
         profile' = [profile EXCEPT ![p] = [status |-> status, state |-> state]],
         UNCHANGED <<image, template, media, backend, export, unsure, left>>,
         call' \in [Calls -> PendingCall], \A c \in Calls : Storing(c) => call[c].of # p,
         \A c \in Calls : call'[c] = call[c] \/ (call'[c].step # "stored" /\ InHand(c)' = InHand(c)),
         CountsBounded'
  PROVE  PhotosInv'
<1>1. RowsInv'
  <2>1. Withdrawn({})
    BY NothingWithdrawn DEF PhotosInv
  <2> QED
    BY <2>1, RowsWithdrawn DEF PhotosInv
<1>2. CallsInv'
  <2>1. \A q \in Teachers : profile'[q] = profile[q] \/ \A c \in Calls : Storing(c) => call[c].of # q
    BY DEF PhotosInv, RowsInv
  <2> QED
    BY <2>1, CallsMove DEF PhotosInv, CallsInv
<1>3. ExportInv'
  BY ExportSame DEF PhotosInv
<1> QED
  BY <1>1, <1>2, <1>3 DEF PhotosInv

LEMMA PhotosActive ==
  ASSUME PhotosInv, NEW p \in Teachers, NEW active \in BOOLEAN, SetActive(p, active)
  PROVE  PhotosInv'
<1>1. /\ Known(p) /\ ProfileFree(p)
      /\ UNCHANGED <<image, template, media, backend, call, export, unsure, left>>
  BY DEF SetActive
<1>2. PICK status \in {"ACTIVE", "INACTIVE"} : status = IF active THEN "ACTIVE" ELSE "INACTIVE"
  OBVIOUS
<1>3. PICK state : state = State(image, template, p)
  OBVIOUS
<1>4. state = State(image', template', p)
  BY <1>1, <1>3 DEF State, AcceptedOf, Templated
<1>5. profile' = [profile EXCEPT ![p] = [status |-> status, state |-> state]]
  BY <1>2, <1>3 DEF SetActive
<1>6. CountsBounded'
  <2>1. Enrolled' \subseteq Enrolled /\ Counting' \subseteq Counting
    BY <1>1, <1>5 DEF Enrolled, Known, Counting, PhotosInv, RowsInv
  <2> QED
    BY <2>1, CountsShrink DEF PhotosInv, CallsInv
<1>7. call' \in [Calls -> PendingCall] /\ \A c \in Calls : Storing(c) => call[c].of # p
  BY <1>1 DEF PhotosInv, CallsInv, ProfileFree, Storing
<1>8. /\ UNCHANGED <<image, template, media, backend, export, unsure, left>>
      /\ \A c \in Calls : call'[c] = call[c] \/ (call'[c].step # "stored" /\ InHand(c)' = InHand(c))
  BY <1>1
<1> QED
  BY <1>4, <1>5, <1>6, <1>7, <1>8, PhotosProfile

LEMMA PhotosCount ==
  ASSUME PhotosInv, NEW c \in Calls, CountProfiles(c)
  PROVE  PhotosInv'
<1>1. /\ call[c] = NoCall /\ Cardinality(Enrolled) < MaxStaff
      /\ UNCHANGED <<enrollmentRows, media, backend, export, unsure, left>>
  BY DEF CountProfiles
<1>2. PICK r \in PendingCall : r = [step |-> "counted"]
  BY CallKinds
<1>3. call' = [call EXCEPT ![c] = r] /\ r.step = "counted"
  BY <1>2 DEF CountProfiles
<1>4. call' \in [Calls -> PendingCall] /\ call'[c].step = "counted" /\ \A b \in Calls \ {c} : call'[b] = call[b]
  BY <1>3 DEF PhotosInv, CallsInv
<1>5. InHand(c) = {} /\ InHand(c)' = {}
  BY <1>1, <1>4 DEF InHand, NoCall
<1>6. CountsBounded'
  <2>1. Enrolled' = Enrolled /\ Counting' \subseteq Calls
    BY <1>1 DEF Enrolled, Known, Counting, enrollmentRows
  <2>2. Cardinality(Counting') <= Cardinality(Calls) /\ IsFiniteSet(Counting')
    BY <2>1, StaffEnrollmentAssumption, FS_Subset
  <2>3. Enrolled \in SUBSET Teachers
    BY DEF Enrolled
  <2>4. Cardinality(Counting') \in Nat /\ Cardinality(Calls) \in Nat /\ Cardinality(Enrolled) \in Nat
    BY <2>2, <2>3, StaffEnrollmentAssumption, FS_CardinalityType, FS_Subset
  <2> QED
    BY <1>1, <2>1, <2>2, <2>4, StaffEnrollmentAssumption DEF CountsBounded
<1>7. backend' \in Models /\ left' \subseteq Images
  BY <1>1 DEF PhotosInv, RowsInv, CallsInv
<1> QED
  BY <1>1, <1>4, <1>5, <1>6, <1>7, PhotosCall

LEMMA PhotosInsert ==
  ASSUME PhotosInv, NEW c \in Calls, NEW p \in Teachers, InsertProfile(c, p)
  PROVE  PhotosInv'
<1>1. /\ call[c].step = "counted" /\ profile[p] = NoProfile /\ Returns(c)
      /\ profile' = [profile EXCEPT ![p] = [status |-> "ACTIVE", state |-> "EMPTY"]]
      /\ UNCHANGED <<image, template, media, backend, export, unsure, left>>
  BY DEF InsertProfile
<1>2. /\ call' \in [Calls -> PendingCall] /\ call'[c].step = "idle"
      /\ \A b \in Calls \ {c} : call'[b] = call[b]
  BY <1>1, CallKinds DEF Returns, PhotosInv, CallsInv
<1>3. InHand(c) = {} /\ InHand(c)' = {}
  BY <1>1, <1>2 DEF InHand
<1>4. \A b \in Calls : Storing(b) => call[b].of # p
  BY <1>1 DEF PhotosInv, CallsInv, UploadsHold, Admissible, NoProfile
<1>5. CountsBounded'
  <2>1. p \notin Enrolled /\ Enrolled' = Enrolled \cup {p}
    BY <1>1 DEF Enrolled, Known, NoProfile, PhotosInv, RowsInv
  <2>2. c \in Counting /\ Counting' = Counting \ {c}
    BY <1>1, <1>2 DEF Counting
  <2>3. IsFiniteSet(Enrolled) /\ IsFiniteSet(Counting)
    <3>1. Enrolled \in SUBSET Teachers /\ Counting \in SUBSET Calls
      BY DEF Enrolled, Counting
    <3> QED
      BY <3>1, StaffEnrollmentAssumption, FS_Subset
  <2>4. Cardinality(Enrolled') = Cardinality(Enrolled) + 1
    BY <2>1, <2>3, FS_AddElement
  <2>5. Cardinality(Counting') = Cardinality(Counting) - 1
    BY <2>2, <2>3, FS_RemoveElement
  <2>6. Cardinality(Counting) \in Nat /\ Cardinality(Calls) \in Nat /\ Cardinality(Enrolled) \in Nat
    BY <2>3, StaffEnrollmentAssumption, FS_CardinalityType
  <2> QED
    BY <2>4, <2>5, <2>6, StaffEnrollmentAssumption DEF PhotosInv, CallsInv, CountsBounded
<1>6. \A b \in Calls : call'[b] = call[b] \/ (call'[b].step # "stored" /\ InHand(b)' = InHand(b))
  BY <1>2, <1>3
<1> QED
  BY <1>1, <1>2, <1>4, <1>5, <1>6, PhotosProfile

LEMMA PhotosRestart ==
  ASSUME PhotosInv, NEW m \in Models, Restart(m)
  PROVE  PhotosInv'
<1>1. /\ backend' = m /\ call' = [c \in Calls |-> NoCall] /\ left' = left \cup UNION {InHand(c) : c \in Calls}
      /\ UNCHANGED <<enrollmentRows, media, export, unsure>>
  BY DEF Restart
<1>2. call' \in [Calls -> PendingCall] /\ \A c \in Calls : call'[c].step = "idle"
  BY <1>1, CallKinds
<1>3. \A c \in Calls : InHand(c)' = {} /\ InHand(c) \subseteq left' /\ InHand(c) \subseteq Images
  BY <1>1, <1>2, HandTyped DEF InHand, PhotosInv, CallsInv
<1>4. left' \subseteq Images /\ left \subseteq left'
  BY <1>1, <1>3 DEF PhotosInv, CallsInv
<1>5. CountsBounded'
  <2>1. Enrolled' \subseteq Enrolled /\ Counting' \subseteq Counting
    BY <1>1, <1>2 DEF Enrolled, Known, Counting, enrollmentRows
  <2> QED
    BY <2>1, CountsShrink DEF PhotosInv, CallsInv
<1> QED
  BY <1>1, <1>2, <1>3, <1>4, <1>5, PhotosCall

LEMMA PhotosKept == PhotosInv /\ EnrollmentStep => PhotosInv'
<1> SUFFICES ASSUME PhotosInv, EnrollmentStep
             PROVE  PhotosInv'
  OBVIOUS
<1>1. ASSUME NEW c \in Calls, AddImage(c)
      PROVE  PhotosInv'
  <2>1. ASSUME RefuseImage(c)
        PROVE  PhotosInv'
    <3>1. InHand(c) = {}
      BY <2>1 DEF RefuseImage, InHand
    <3> QED
      BY <2>1, <3>1, PhotosReturn DEF RefuseImage
  <2> QED
    BY <1>1, <2>1, PhotosAnalyze, PhotosStore, PhotosCommit DEF AddImage
<1>2. ASSUME NEW c \in Calls, DieCall(c)
      PROVE  PhotosInv'
  BY <1>2, PhotosReturn DEF DieCall
<1>3. ASSUME ExportStep
      PROVE  PhotosInv'
  <2>1. ExportInv' /\ UNCHANGED <<enrollmentRows, media, backend, call, unsure, left>>
    BY <1>3, ExportsKept DEF PhotosInv
  <2> QED
    BY <2>1, RowsSame, CallsSame DEF PhotosInv, RowsInv
<1> QED
  BY <1>1, <1>2, <1>3, PhotosErase, PhotosCount, PhotosRemove, PhotosDelete, PhotosInsert, PhotosActive,
     PhotosRestart DEF EnrollmentStep

LEMMA PhotosStart == EnrollmentInit => PhotosInv
<1> SUFFICES ASSUME EnrollmentInit
             PROVE  PhotosInv
  OBVIOUS
<1>1. /\ \A i \in Images : image[i] = NoImage /\ template[i] = NoTemplate
      /\ \A p \in Teachers : profile[p] = NoProfile
      /\ \A c \in Calls : call[c] = NoCall
      /\ media = {} /\ unsure = {} /\ left = {} /\ export = NoExport /\ backend \in Models
  BY DEF EnrollmentInit
<1>2. \A p : AcceptedOf(image, p) = {}
  BY <1>1 DEF AcceptedOf, NoImage
<1>3. Enrolled = {} /\ Counting = {} /\ \A c \in Calls : InHand(c) = {}
  BY <1>1 DEF Enrolled, Known, NoProfile, Counting, InHand, NoCall
<1>4. RowsInv
  <2>1. profile \in [Teachers -> [status : {"none", "ACTIVE", "INACTIVE", "DELETED"},
                                  state : {"EMPTY", "COLLECTING", "READY", "FAILED"}]]
    BY DEF EnrollmentInit, NoProfile
  <2>2. /\ image \in [Images -> StaffEnrollmentImage \cup {NoImage}]
        /\ template \in [Images -> StaffFaceTemplate \cup {NoTemplate}]
    BY DEF EnrollmentInit
  <2>3. ErasedWithProfile
    BY <1>1 DEF ErasedWithProfile, NoImage, NoTemplate
  <2>4. PhotosLimited
    BY <1>2, FS_EmptySet, StaffEnrollmentAssumption DEF PhotosLimited, Accepted
  <2> QED
    BY <1>1, <2>1, <2>2, <2>3, <2>4 DEF RowsInv, NoProfile
<1>5. CallsInv
  <2>1. call \in [Calls -> PendingCall]
    BY CallKinds DEF EnrollmentInit
  <2>2. UploadsHold
    BY <1>1 DEF UploadsHold, Storing, NoCall
  <2>3. BytesKept
    BY <1>1 DEF BytesKept, NoImage
  <2>4. CountsBounded
    BY <1>3, FS_EmptySet, FS_CardinalityType, StaffEnrollmentAssumption DEF CountsBounded
  <2> QED
    BY <1>1, <1>3, <2>1, <2>2, <2>3, <2>4 DEF CallsInv, Erasures
<1>6. ExportInv
  BY <1>1 DEF ExportInv, NoExport, PackageSound
<1> QED
  BY <1>4, <1>5, <1>6 DEF PhotosInv

LEMMA PhotosStutter == PhotosInv /\ UNCHANGED enrollmentVars => PhotosInv'
<1> SUFFICES ASSUME PhotosInv, UNCHANGED enrollmentVars
             PROVE  PhotosInv'
  OBVIOUS
<1>1. UNCHANGED <<enrollmentRows, media, backend, call, export, unsure, left>>
  BY DEF enrollmentVars
<1>2. UNCHANGED template /\ backend' \in Models
  BY <1>1 DEF enrollmentRows, PhotosInv, RowsInv
<1> QED
  BY <1>1, <1>2, RowsSame, CallsSame, ExportSame DEF PhotosInv

LEMMA PhotosImply == PhotosInv => EnrollmentInv
<1> SUFFICES ASSUME PhotosInv
             PROVE  EnrollmentInv
  OBVIOUS
<1>1. EnrollmentTypeOK
  BY DEF EnrollmentTypeOK, PhotosInv, RowsInv, CallsInv, StaffEnrollmentImage, NoImage
<1>2. ReadySound
  <2>1. ASSUME NEW p \in Candidates, NEW i \in Accepted(p)
        PROVE  template[i].model = backend
    <3>1. p \in Teachers /\ profile[p].state = "READY"
      BY <2>1 DEF Candidates, Recognisable
    <3>2. PICK m \in Models : ReadyBy(p, m)
      BY <3>1 DEF PhotosInv, RowsInv
    <3>3. PICK k \in Images : template[k].status = "ACTIVE" /\ template[k].model = backend /\ image[k].of = p
      BY <2>1 DEF Candidates
    <3>4. k \in Accepted(p)
      BY <3>3 DEF PhotosInv, RowsInv, ErasedWithProfile, Accepted, AcceptedOf
    <3> QED
      BY <2>1, <3>2, <3>3, <3>4 DEF ReadyBy
  <2> QED
    BY <2>1 DEF ReadySound, ReadyBy, PhotosInv, RowsInv
<1>3. RosterLimited
  <2>1. Enrolled \in SUBSET Teachers /\ Counting \in SUBSET Calls
    BY DEF Enrolled, Counting
  <2>2. Cardinality(Enrolled) \in Nat /\ Cardinality(Counting) \in Nat /\ Cardinality(Calls) \in Nat
    BY <2>1, StaffEnrollmentAssumption, FS_CardinalityType, FS_Subset
  <2> QED
    BY <2>2, StaffEnrollmentAssumption DEF RosterLimited, PhotosInv, CallsInv, CountsBounded
<1> QED
  BY <1>1, <1>2, <1>3 DEF EnrollmentInv, PhotosInv, RowsInv, CallsInv, ExportInv

\* The enrolment of staff: READY stands for enough photos with templates of one model, a deleted
\* person leaves neither photo nor template, uploads at once exceed no limit of photos, the bytes of
\* a photo are neither lost nor left unaccounted for, no revoked template is exported, and the roster
\* exceeds its limit by less than the requests that can overlap (staff_service.py, staff_package.py).
THEOREM EnrollmentSafe == EnrollmentSpec => []EnrollmentInv
<1>1. PhotosInv /\ [EnrollmentStep]_enrollmentVars => PhotosInv'
  BY PhotosKept, PhotosStutter
<1> QED
  BY <1>1, PhotosStart, PhotosImply, PTL DEF EnrollmentSpec
=============================================================================
