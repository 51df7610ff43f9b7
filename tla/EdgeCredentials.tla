-------------------------- MODULE EdgeCredentials ---------------------------
(***************************************************************************)
(* Machine credentials of edge nodes (edge_credentials.py, edge_auth.py,   *)
(* migration 0008).  veotrex-edge-credential writes a new secret into a    *)
(* new file and its digest into the database, two stores without a common  *)
(* transaction; a node shows the secret with every request.                *)
(***************************************************************************)
EXTENDS Naturals, FiniteSets

CONSTANTS Nodes,        \* EdgeNode
          Credentials,  \* EdgeNodeCredential: one for every run of "issue"
          Paths,        \* --output
          Nobody        \* the content of a path that does not exist

ASSUME NobodyAssumption == Nobody \notin Nodes \cup Credentials

VARIABLES
    node,        \* edge_nodes.status
    credential,  \* edge_node_credentials: status and edge_node_id
    file,        \* what is at each path: the credential whose secret it holds, or is to hold
    issue,       \* what each run of "issue" is doing
    trail,       \* audit_events of the credentials, and how often each was written
    guest        \* history: who an accepted secret was accepted as, and when it was revoked

credentialVars == <<node, credential, file, issue, trail, guest>>

NoCredential == [status |-> "none", of |-> Nobody]
CredentialInit ==
    /\ node = [n \in Nodes |-> "ONLINE"]
    /\ credential = [c \in Credentials |-> NoCredential]
    /\ file = [p \in Paths |-> Nobody]
    /\ issue = [c \in Credentials |-> [at |-> "new", path |-> Nobody, of |-> Nobody]]
    /\ trail = [c \in Credentials |-> [issued |-> 0, revoked |-> 0]]
    /\ guest = [c \in Credentials |-> Nobody]

AtStep(c, step) == issue[c].at = step
Step(c, step) == issue' = [issue EXCEPT ![c].at = step]

-----------------------------------------------------------------------------
\* validate_output_path: nothing may exist there, and the first look at the node.
Validate(c, p, n) ==
    /\ AtStep(c, "new")
    /\ issue' = [issue EXCEPT ![c] = [at |-> IF file[p] = Nobody /\ node[n] # "DISABLED"
                                            THEN "checked" ELSE "refused", path |-> p, of |-> n]]
    /\ UNCHANGED <<node, credential, file, trail, guest>>

\* create_credential_file: O_CREAT | O_EXCL.  Who finds a file there leaves it alone.
CreateFile(c) ==
    /\ AtStep(c, "checked")
    /\ LET p == issue[c].path IN
       IF file[p] = Nobody THEN file' = [file EXCEPT ![p] = c] /\ Step(c, "created")
       ELSE Step(c, "refused") /\ UNCHANGED file
    /\ UNCHANGED <<node, credential, trail, guest>>

\* The secret is written and flushed to disk.
WriteSecret(c) ==
    /\ AtStep(c, "created") /\ Step(c, "written")
    /\ UNCHANGED <<node, credential, file, trail, guest>>

\* The second look at the node, the digest and its audit event, in one transaction.
Insert(c) ==
    /\ AtStep(c, "written") /\ node[issue[c].of] # "DISABLED"
    /\ credential' = [credential EXCEPT ![c] = [status |-> "ACTIVE", of |-> issue[c].of]]
    /\ trail' = [trail EXCEPT ![c].issued = @ + 1]
    /\ UNCHANGED <<node, guest>>
Store(c) == Insert(c) /\ Step(c, "issued") /\ UNCHANGED file

Unlink(c) == file' = [file EXCEPT ![issue[c].path] = Nobody]

\* Anything that fails once the file is there takes it away; so does a commit that was made and
\* whose answer was lost.
Fail(c) ==
    /\ issue[c].at \in {"created", "written"} /\ Unlink(c) /\ Step(c, "failed")
    /\ UNCHANGED <<node, credential, trail, guest>>
LoseAnswer(c) == Insert(c) /\ Unlink(c) /\ Step(c, "unsure")

\* The process is killed.
Kill(c) ==
    /\ issue[c].at \in {"checked", "created", "written"} /\ Step(c, "killed")
    /\ UNCHANGED <<node, credential, file, trail, guest>>

-----------------------------------------------------------------------------
\* revoke_credential: one UPDATE of an ACTIVE row, and its audit event.
Revocable(c) == credential[c].status = "ACTIVE"
Revoke(c) ==
    /\ credential[c].status # "none"
    /\ IF Revocable(c)
       THEN /\ credential' = [credential EXCEPT ![c].status = "REVOKED"]
            /\ trail' = [trail EXCEPT ![c].revoked = @ + 1]
            /\ guest' = [guest EXCEPT ![c] = Nobody]
       ELSE UNCHANGED <<credential, trail, guest>>
    /\ UNCHANGED <<node, file, issue>>

\* authenticate_edge_node_credential, for a node that was given the file.
Accepts(c) == credential[c].status = "ACTIVE" /\ node[credential[c].of] # "DISABLED"
Authenticate(c) ==
    /\ \E p \in Paths : file[p] = c /\ issue[c].at \notin {"new", "checked", "created"}
    /\ guest' = [guest EXCEPT ![c] = IF Accepts(c) THEN credential[c].of ELSE Nobody]
    /\ UNCHANGED <<node, credential, file, issue, trail>>

\* External: the administrator's status of a node.
SetNode(n, s) ==
    /\ node[n] # s /\ node' = [node EXCEPT ![n] = s]
    /\ guest' = [c \in Credentials |-> IF credential[c].of = n THEN Nobody ELSE guest[c]]
    /\ UNCHANGED <<credential, file, issue, trail>>

CredentialStep ==
    \/ \E c \in Credentials :
          \/ \E p \in Paths, n \in Nodes : Validate(c, p, n)
          \/ CreateFile(c) \/ WriteSecret(c) \/ Store(c) \/ Fail(c) \/ LoseAnswer(c) \/ Kill(c)
          \/ Revoke(c) \/ Authenticate(c)
    \/ \E n \in Nodes, s \in {"ONLINE", "DISABLED"} : SetNode(n, s)

-----------------------------------------------------------------------------
\* "A credential file whose digest was never stored must not survive" a tool that ends by itself,
\* and no tool takes another's file away: one that reports a credential has left its file.
FilesUsable ==
    /\ \A p \in Paths : file[p] # Nobody =>
          \/ issue[file[p]].at \in {"created", "written", "killed"}
          \/ credential[file[p]].status # "none"
    /\ \A c \in Credentials : issue[c].at \in {"created", "written", "issued"} => file[issue[c].path] = c

\* Every credential and every revocation has exactly one audit event, however often it is asked for,
\* and a digest without a file is one whose commit was not answered.
CredentialsAudited ==
    \A c \in Credentials :
        /\ trail[c].issued = (IF credential[c].status = "none" THEN 0 ELSE 1)
        /\ trail[c].revoked = (IF credential[c].status = "REVOKED" THEN 1 ELSE 0)
        /\ credential[c].status # "none" => issue[c].at \in {"issued", "unsure"}

\* A node is recognised as the one its credential was issued for, while neither is withdrawn.
RecognisedAsIssued ==
    \A c \in Credentials : guest[c] # Nobody =>
        credential[c] = [status |-> "ACTIVE", of |-> issue[c].of] /\ guest[c] = issue[c].of
        /\ node[guest[c]] # "DISABLED"

CredentialInv == FilesUsable /\ CredentialsAudited /\ RecognisedAsIssued
=============================================================================
