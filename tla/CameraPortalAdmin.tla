-------------------------- MODULE CameraPortalAdmin --------------------------
(***************************************************************************)
(* The doorway lines of one camera in the control plane: administrators    *)
(* draw, edit and archive them (camera_portal_service.py), and the edge    *)
(* node the camera is assigned to reads them (edge_runtime.py).  A write   *)
(* holds the camera's advisory lock; the read takes two queries.           *)
(***************************************************************************)
EXTENDS Integers, FiniteSets

CONSTANTS
    Admins,        \* requests under way at once
    Areas,         \* classrooms
    MaxPortals,    \* MAX_PORTALS
    MaxRows,       \* bound: portals ever drawn
    MaxRevision,   \* bound: edits of one portal
    MaxMoves       \* bound: times the camera is moved or assigned anew

ASSUME CameraPortalAdminAssumption ==
    /\ MaxPortals \in Nat \ {0} /\ MaxRows \in Nat /\ MaxRevision \in Nat \ {0} /\ MaxMoves \in Nat

VARIABLES
    rows,      \* camera_portals
    camera,    \* the camera's classroom and assignment to the node; 0 is no assignment
    moves,     \* bound: moves so far
    writing,   \* who holds the camera's advisory lock
    request,   \* the transaction each administrator is in
    reading    \* the transaction of runtime_config: the assignment it has read

adminVars == <<rows, camera, moves, writing, request, reading>>

NoRow == [status |-> "none"]
Row == [area : Areas, enabled : BOOLEAN, revision : Nat \ {0}, status : {"ACTIVE", "ARCHIVED"}]
NoRequest == [op |-> "none"]
Placement == [area : Areas, assignment : 0..(MaxMoves + 1)]
NotReading == [area |-> "none", assignment |-> 0]

Active == {p \in 1..MaxRows : rows[p].status = "ACTIVE"}

AdminInit ==
    /\ rows = [p \in 1..MaxRows |-> NoRow]
    /\ \E a \in Areas : camera = [area |-> a, assignment |-> 1]
    /\ moves = 0 /\ writing = {} /\ request = [a \in Admins |-> NoRequest] /\ reading = NotReading

-----------------------------------------------------------------------------
(* create_portal, update_portal, archive_portal *)

\* The camera is found in the classroom asked for before its lock is taken.
AskPortal(a, op, p) ==
    /\ request[a] = NoRequest
    /\ request' = [request EXCEPT ![a] = [op |-> op, portal |-> p, area |-> camera.area,
                                          step |-> "asked"]]
    /\ UNCHANGED <<rows, camera, moves, writing, reading>>

Unlocked == TRUE   \* faulty variant: nobody waits for the lock
Free == writing = {}

\* Under the lock the camera's active portals are counted, whichever classroom they were drawn for.
Lock(a) ==
    /\ request[a] # NoRequest /\ request[a].step = "asked" /\ Free
    /\ IF request[a].op = "create" /\ Cardinality(Active) >= MaxPortals
       THEN request' = [request EXCEPT ![a] = NoRequest] /\ UNCHANGED writing
       ELSE request' = [request EXCEPT ![a].step = "locked"] /\ writing' = writing \cup {a}
    /\ UNCHANGED <<rows, camera, moves, reading>>

\* What the request makes of the row: an archived portal is not edited, and archived only once.
Edited(row, op, enabled) ==
    IF row.status # "ACTIVE" THEN row
    ELSE [area |-> row.area, enabled |-> op = "update" /\ enabled, revision |-> row.revision + 1,
          status |-> IF op = "archive" THEN "ARCHIVED" ELSE "ACTIVE"]

Write(a) ==
    LET r == request[a] IN
    /\ r # NoRequest /\ r.step = "locked"
    /\ \E p \in 1..MaxRows, enabled \in BOOLEAN :
          IF r.op = "create"
          THEN /\ rows[p] = NoRow /\ \A q \in 1..(p - 1) : rows[q] # NoRow
               /\ rows' = [rows EXCEPT ![p] = [area |-> r.area, enabled |-> enabled, revision |-> 1,
                                               status |-> "ACTIVE"]]
          ELSE /\ p = r.portal
               /\ rows' = IF rows[p] # NoRow /\ rows[p].area = r.area
                          THEN [rows EXCEPT ![p] = Edited(@, r.op, enabled)] ELSE rows
    /\ writing' = writing \ {a} /\ request' = [request EXCEPT ![a] = NoRequest]
    /\ UNCHANGED <<camera, moves, reading>>

\* External: the camera is moved, taken from the node or given to it again.
Place(placement) ==
    /\ placement # camera /\ moves < MaxMoves /\ moves' = moves + 1
    /\ camera' = placement
    /\ UNCHANGED <<rows, writing, request, reading>>

\* The bounds on rows and edits, those under way included.
Drawing == {a \in Admins : request[a] # NoRequest /\ request[a].op = "create"}
Within(op, p) ==
    IF op = "create" THEN Cardinality({q \in 1..MaxRows : rows[q] = NoRow}) > Cardinality(Drawing)
    ELSE rows[p] # NoRow /\ rows[p].revision < MaxRevision

\* The routes of camera_portal_api.py; a list is the read before an edit.
AdminStep ==
    \/ \E a \in Admins, op \in {"create", "update", "archive"}, p \in 1..MaxRows :
          (op = "create" => p = 1) /\ Within(op, p) /\ AskPortal(a, op, p)
    \/ \E a \in Admins : Lock(a) \/ Write(a)
PlacementStep ==
    \E area \in Areas, n \in {0, camera.assignment, moves + 2} : Place([area |-> area, assignment |-> n])

-----------------------------------------------------------------------------
(* runtime_config, portal_document, camera_document *)

\* A portal drawn for another classroom than the camera's is not sent.  The row's revision names
\* the geometry it was saved with.
Portals(area) ==
    {[id |-> p, enabled |-> rows[p].enabled, revision |-> rows[p].revision] :
        p \in {q \in Active : rows[q].area = area}}
NoCamera == [assignment |-> 0, portals |-> {}]
Document(placement) ==
    IF placement.assignment = 0 THEN NoCamera
    ELSE [assignment |-> placement.assignment, portals |-> Portals(placement.area)]

\* configuration_revision and snapshot_version: equal for equal documents, and for no others.
Nominal(document) == <<document.assignment, {p.id : p \in document.portals}>>   \* faulty variant
Revision(document) == <<document.assignment, document.portals>>

ReadAssignment == reading' = camera /\ UNCHANGED <<rows, camera, moves, writing, request>>

\* camera_portal_service.py:155-161, 267-279: two requests that overlap do not both pass the count.
PortalLimit == Cardinality(Active) <= MaxPortals
=============================================================================
