# VeoTrex DayCare: formal specifications

TLA+ models of the parts of VeoTrex whose correctness depends on order, failure and time, the TLC
configurations that check them, and machine-checked proofs of the properties that matter most.
Every definition follows the code, not the documents; `PROJECT.json` names the source lines each
definition stands for.

## The system

VeoTrex counts people in daycare classrooms with cameras and keeps the authoritative record of who
is where. It has three programs:

- the **control plane** (`apps/api`, FastAPI over PostgreSQL with row-level security): accounts,
  rosters, attendance, ratios, the link to a Ring account, a broker for camera media sessions, and
  the ingest of anonymous room-transition events;
- the **edge agent** (`services/edge-agent`, Python threads and worker processes on a Jetson):
  one camera transport per camera, frame scheduling, inference on a GPU worker, tracking, portal
  crossing, and the durable queue that takes crossings to the control plane;
- the **web application** (`apps/web`, Next.js), which keeps no state of its own.

### Inventory

| Component | State it keeps | Operations | What is hard | What makes it correct |
|---|---|---|---|---|
| Room-event outbox and uploader (edge) | SQLite tables `outbox`, `dead_letter`; one uploader thread | enqueue, due, remove, defer, dead_letter, close | crashes between the calls, lost and late answers, one bad event in a batch, closing under a running upload | nothing accepted is lost; one row per event; a bad event harms no other |
| Room-event ingest (server) | `room_transition_events` rows, assignments, portals | one transaction per batch | overlapping attempts of one batch; admissibility that changes while events wait | idempotence by primary key; refusals have a cause |
| Camera transport controller and runner (edge) | one current session, one candidate, failure window, timeline instance, worker processes | start, stop, reset, acquisition results, worker events, tick | late results of dead sessions, expiry against renewal, start and stop on different threads | state and sessions agree; no orphan worker; bounded failures and renewals; no stale media |
| Ring linking, vault, webhooks, pending expiry (server) | pending links, connection rows, credentials with versions, webhook inbox | receive, claim, confirm, activate, refresh, disconnect, sweep, remote removal | a crash between vault and database, races of disconnect and activate, ambiguous answers of the provider | one confirmation per link; no credential lost while usable or forgotten when not; users of a credential take turns; removal erases |
| WHEP broker (server) | leases and reservations per node and camera | open, release, expire, drain | limits checked before an await; expiry, DELETE and shutdown racing an open | limits never exceeded; no session opened twice or forgotten |
| Managed configuration (edge) and camera portal administration (server) | portals and assignments; current version, cache file, lines staged and applied | draw, edit, archive; fetch, persist, hand over, apply | two queries of one document, failing cache or callback, four steps of one thread against another | the limit of lines; pipeline, memory and control plane agree in the end |
| Live pipeline, tracker, portal crossing, occupancy (edge) | tracks, per-track sides and cooldowns, ledger | frame, break, observe, end, apply | gaps, breaks superseded in the slot, changed portals, limits | the ledger follows the tracks; a transition rests on evidence since the last break |
| Frame scheduler (edge) | latest-frame slot, counters, two events | produce, take, skip, stop | producer replaces what the consumer takes; stop from a signal handler | frames conserved; no arrival overlooked; stop ends |
| GPU inference worker and agent shell (edge) | worker process, request in flight, recovery budget | call, health, recover, stop | the answer to a timed-out request | answers match requests; bounded recovery |
| Ring source and local camera (edge) | session, lease, worker process; device | frames, reopen, close | close() from another thread at any point, lost answers | one session, worker, device at a time; what a close() may leave behind; an end that says why |
| WebRTC backend and media workers (edge) | worker process, socket, reader thread | start, stop, read | stop before or during start | no worker remains after a stop or a handled failure; a session never just goes quiet |
| Live preview and server (edge) | one picture slot, the page | render, serve, poll | two loops of the page, a hanging camera | one feed, never an older picture, none frozen |
| Edge release and service (edge) | releases, links, unit, agent | build, install, activate, roll back | kills and reboots between two steps | always something complete to boot |
| Ring inventory (server) | devices, cameras, notices | listing, detail, notices | reads without a lock, notices in any order | a removal stands; status in order |
| Child attendance and guardian release (server) | attendance events, contacts, links, audit | check in, refresh, check out, release | authorisation that changes during a release | one room at a time; no release without a right |
| Staff presence and classroom ratio (server) | presence events, designations, policies, reports | check in and out, report, evaluate | reads statement by statement, overlapping edits | policies never overlap; a verdict follows from fresh numbers |
| Staff enrolment (server) | profiles, photos, templates, bytes | upload, delete, recompute, export | two stores without a common transaction | photos and templates agree; nothing revoked is exported |
| Identity and access, edge credentials, runtime role (server) | key cache, bindings, roles; digests and files; catalog | verify, bootstrap, change; issue, rotate, revoke; apply, verify, probe | refreshes against rotations, kills between two stores, drift | nobody served as another; usable files usable; exact privileges |
| User interfaces, numerical code, deployment | I/O or numerical state | | outside what a model checker reaches | |

Components interact in four ways: calls over HTTPS (edge to control plane, control plane to Ring),
rows in PostgreSQL shared by services of the control plane, queues between threads of the edge
agent, and sockets to worker processes. `PROJECT.json` lists every component with its sources and
status, and the hazards with their lines.

## Modules

| Module | Models | Composed in | Proofs |
|---|---|---|---|
| `RoomEventDelivery` | the promise of the room-event path | refined by `RoomEvents` | |
| `RoomEvents` | outbox, uploader, ingest | `MCRoomEvents` | `RoomEventsProofs` |
| `CameraTransport` | controller, runner, workers | | `CameraTransportProofs` |
| `RingLinking` | links and credential of a Ring account | `MCRingLinking` | `RingLinkingProofs` |
| `RingInventory` | its devices and cameras | `MCRingLinking` | `RingLinkingProofs` |
| `EdgeWhepBroker` | leases of camera sessions | `MCEdgeWhepBroker` | `EdgeWhepBrokerProofs` |
| `ChildAttendance`, `GuardianRelease`, `StaffPresence`, `RatioStatus` | the day's record | `CareDay`, `MCControlPlane` | `CareDayProofs` |
| `StaffEnrollment` | photos, templates, export | `MCControlPlane` | `ControlPlaneProofs` |
| `IdentityAccess`, `EdgeCredentials`, `RuntimeRole` | who may come in | `Access`, `MCControlPlane` | `ControlPlaneProofs` |
| `FrameScheduler`, `PersonTracking`, `PortalCrossing`, `OccupancyLedger` | the live session's parts | `LivePipeline`, `EdgeSession` | `LivePipelineProofs` |
| `CameraPortalAdmin` | doorway lines in the control plane | `ManagedConfig` | `LivePipelineProofs` |
| `ManagedConfig` | their copy at the edge | `EdgeSession`, `MCLivePipeline` | `LivePipelineProofs` |
| `GpuSupervisor` | GPU worker, supervisor, agent | `EdgeSession`, `MCLivePipeline` | `LivePipelineProofs` |
| `EdgeSession` | a managed session: pipeline, refresher, GPU worker side by side | `MCLivePipeline` | `LivePipelineProofs` |
| `RingSource`, `LocalCamera`, `WebRtcBackend`, `LivePreview` | media of the edge | `EdgeDevice`, `MCEdgeDevice` | `EdgeDeviceProofs` |
| `EdgeRelease` | releases on the device | `EdgeDevice`, `MCEdgeDevice` | `EdgeDeviceProofs` |

A module composes another by `EXTENDS` where they share state (`GuardianRelease` shares the child's
lock and events, `LivePipeline` the consumer's thread, `ManagedConfig` the lines). Parts that share no
state or thread are put side by side in an MC module; its variable `focus`, fixed by the initial state,
says which part moves, so that one run explores each part completely instead of their product.

Two conventions of the map. `Init` operators of the control plane name the migrations that create the
tables, empty; operators that collect steps (`ChildStep`, `StaffStep`, ...) name the routers that offer
exactly those operations.

What could still be added: abstract specifications of one Ring credential's life and of the release of
a child, each shown to be implemented by the detailed module.

## Room events

`RoomEvents.tla` joins the outbox (`live/room_event_outbox.py`), the session that opens and closes
it (`live/managed_session.py`), the JSON client (`edge_control_plane.py`) and the ingest transaction
(`edge_runtime.py`, `edge_api.py`). `RoomEventDelivery.tla` is the abstract promise: an accepted
event is recorded or refused, and let go as delivered only when recorded.

State. `outbox`, `waiting`, `solo` and `dead` are the SQLite tables and columns and survive a crash;
`pc`, `batch` and `answer` are the uploader thread and do not. `wire`, `txs` and `reply` are requests
on their way, open server transactions and the answer on its way back. `rows`, `placed` and `outside`
are the server's tables and clock. An event is named by its outbox order: each `event_id` is a fresh
uuid4 that is enqueued once, so the duplicate branch of `enqueue` is unreachable and left out.

Actions. `Enqueue` is one call of `enqueue`. `Poll`, `NothingDue`, `Post`, `Read...`, `Split`,
`DeadLetter`, `Remove` and `Defer` are one pass of `_run` and `deliver_once`, split where the code
calls the outbox, because a crash, a storage error or `close` can come between any two calls.
`deliver_once` dead-letters first, then removes, then defers, and so does the model. `executemany`
runs in autocommit, so a storage error in the middle keeps part of it (`StorageFault`). `PostFails`
gives a request up while it may still reach the server; `BeginIngest` and `CommitIngest` are the two
ends of the server's transaction, so two attempts at one batch can overlap. `Reassign` and
`WindowMoves` change what the server's checks depend on.

| Run | Shows | Bounds |
|---|---|---|
| `room_events` | safety, the refinement of `RoomEventDelivery`, and `EventuallySettled` | 3 events (one malformed), outbox of 2, batches of 2, dead-letter table of 1, 2 faults and changes together, 1 restart; 194,563 states |
| `room_events_retry` | the code refuses retries of stored events (see Findings) | 1 fault, 1 change, no restart |

The bounds exceed every limit of the code: three events overflow the outbox and fill more than one
batch, two dead letters overflow the table, two faults lose an answer and its retry. Requests under
way carry a number out of `Tickets`; an attempt is given up only by a fault or a restart, so there is
always a free one.

Fairness: the uploader's loop never ends while the session runs (`Deliver`), the clock
reaches every `next_attempt_at` (`Elapse`), the server handles what reaches it (`Ingest`), a session
being stopped is closed, a closed process ends and a process that went down is started again (it is a
systemd service). Faults are bounded: nothing is delivered over a network that always fails.

Proofs (`RoomEventsProofs.tla`), for every number of events, capacity, batch size, portal layout and
every bound on faults, from `RoomEventsAssumption` only. `Inv` is inductive. `NothingLost` alone is
not: that a removed event is stored needs `AnswersHold` (answers in flight are backed by committed
rows), that a dead-lettered event leaves the outbox needs `Traffic`, and that an event of a refused
batch travels alone needs `InOrder`: the flagged rows are always an initial part of the outbox,
because a batch is. `DeadLettersDeserved` needs `Causes`: what is refused in flight has its cause in
the event. The proof has one lemma per group of conjuncts, one step per action. `Implements` maps
each step to a step of `RoomEventDelivery` or to a stutter.

Only model-checked: `EventuallySettled` (liveness). Abstracted: backoff lengths, counters, portal
geometry and the wording of errors. Ingest does not look at a portal's status, and neither does the
model, except that `placed` may lose a portal.

## Camera transport

`CameraTransport.tla` models one camera: the controller (`camera_transport/controller.py`, `state.py`,
`reconnect.py`, `health.py`, `timing.py`), the runner (`runner.py`) and the worker backends
(`worker_backend.py`).

State. `current` and `candidate` are the two slots of the controller; a slot records what the code
reads of it: whether it has a descriptor, has decoded media, how long ago (`gap`, `undecoded`,
`quiet`), whether its deadline has passed and how old its descriptor is. `attempts`, `circuitOpen` and
`reconnect` are the reconnect budget; `renewalAttempts` and `retryWait` the renewal policy's; `instance`
is the media timeline's. `acquiring`, `handles`, `starting`, `stopping`, `refused`, `procs` and
`emitters` are the runner's pending work, the threads of its pool and the worker processes. `tried`,
`spent` and `stamped` are history variables for properties.

Actions. One per input of the controller: `Start`, `Stop`, `Reset`, `Acquired`, `AcquireFails`, `Media`,
`BackendEnds`, and nine `Tick...` actions, one for each way through `tick()`. An input names a
generation, and any generation ever acquired or started can still send one. `StartWorker`,
`StopWorker` and `WorkerDies` are the threads and processes. Time is the set of deadlines passed: each
threshold is configuration and the loop may be late, so `Deadline`, `GapGrows`, `GoesQuiet`,
`LifePasses` and `TimersPass` let deadlines pass in every order the code's arithmetic allows.

| Run | Shows | Bounds |
|---|---|---|
| `camera_transport` | safety, `Decided`, `WorkersReleased` | 2 generations, 1 failure in the window, 1 renewal per session; 28,595 states |
| `camera_transport_restart` | a new session without its renewals (see Findings) | 3 generations |

Two generations are a session and its replacement, or the session after it; with one allowed failure
and one renewal both budgets are exhausted within them, and the proofs hold for any number. The exhaustion of the numbers
(`_max_generations`) is part of the model (`TickOutOfNumbers`): the exception ends the runner, which
stops everything.

Fairness (`FairSpec`): the runner ticks, threads of its pool run, deadlines pass. Nothing is assumed of providers,
workers or media.

Proofs (`CameraTransportProofs.tla`), for every number of sessions, failure budget and renewal
limit, from `CameraTransportAssumption` only: every safety property of `camera_transport`,
the two action properties included. None of them is inductive alone, and `Inv` adds what is missing.
`SlotsOK` orders the session numbers, so a late answer can be told from one to a session that is
held. `Reporters` says who may still report: a session whose acquisition is under way has no
descriptor, one with a worker has, and nobody speaks for a number not yet given out; without it a
second descriptor could restart a running session. `Timeline` adds that the instance is behind a
session still being acquired, so `begin_instance` always moves forward, and that the last accepted
buffer is not ahead of the instance. `Paid` adds to `HopelessSessionsBounded` that media clears the
account and that a transport about to reconnect has already paid for the next session. Four lemmas
(`SessionsStep`, `WorkersStep`, `TimelineStep`, `BudgetsStep`) prove that a step keeps these groups,
each from itself and the groups before it; below them, one step per action and one lemma per helper
of the model (`FailCurrent...`, `FailSlot...`). `Decided` and `WorkersReleased` are liveness and only
model-checked.

Not modelled: `require_decode=False` (no caller passes it), the health report and metrics, and
`start()` after the millionth generation, which raises before anything changes. The comment at
`reconnect.py:14-15` counts sessions per window as at most `max_attempts`; expiries, renewals and the
first session come on top, and `HopelessSessionsBounded` states the bound that does hold.

## Ring linking

`RingLinking.tla` models one Ring account and every link to it: `ring_service.py`, the vault
(`encrypted_vault.py` and the functions of migration 0006), the removal notices of `ring_webhook.py`
with the inbox functions of migration 0004, and the sweep of `ring_pending_expiry.py`. One account is
enough: the rows of different accounts share no index, lock or credential.

State. A link is a pending id; `link` is its pending row's state, `vault` the version of its credential
(0: none), `conn`, `ref` and `generation` are its connection's `integration_state`, `secret_ref` and
`credential_generation`, `newest` stands for `created_at`. `inbox` and `attempts` are the webhook inbox.
`job` says what each worker (a request or a background job) is doing: it moves at each
transaction and each call to Ring or to the vault, because another worker or a crash can come in
between. The database runs at READ COMMITTED. `posts`, `sent`, `lost`, `blocked` and `erased` are
history for the properties.

Actions. `StoreCredential` to `RefuseDuplicate` are `receive_authorization_code`; `StartClaim` to
`Activate` are `claim`, whose last part `resume_completion` shares; `LockConnection` to
`RecordGeneration` are `get_valid_access_token`, which holds its row lock (`Unlocked`) across the calls
to Ring and to the vault, while the vault commits on its own. `Disconnect` to `ClearReference` are
`disconnect` and, from `EraseCredential`, the end of a removal notice; `IngestNotice` to `FinishNotice`
are `ingest` and `process_one`. `Activate` is where `_activate` flushes: SQLAlchemy updates the row by
primary key, so it waits for the lock but not for the state it read. `Raise` is a crash or an
unhandled error; a commit whose answer is lost is the action followed by `Raise` (`CreateFails`, where
the code catches it, is its own action).

| Run | Shows | Bounds |
|---|---|---|
| `ring_linking` | safety of links (focus `linking`) and of the inventory (below) | 2 links, 2 workers, 1 notice, 2 attempts per notice, credential versions 1 and 2; 454,476 states of 626,804 |
| `ring_linking_gate` | the state gate undone (see Findings) | the same links |

Two links meet in both unique indexes, two workers are a refresh and a disconnect, an
activation and a removal, two disconnects of one connection; each of them can die and be followed by a
third. Version 2 is a rotation; at it `Refresh` is not explored further. Two attempts exhaust the
limit (5 in the code). Nothing is explored after a notice that nobody will try again, because the same may
happen while it waits for its retry, nor after both connections have ended. Links and workers are symmetric. The run stops when link ids are used up and every
connection is gone, so deadlock is not checked. No fairness is assumed and no liveness claimed: who runs
the jobs is decided outside the repository, and some states are meant to wait for an operator.

Proofs (`RingLinkingProofs.tla`), for any number of links, workers and notices, any limit and any
version: all safety properties of `ring_linking`, from `RingLinkingAssumption` only. `Inv` adds who may
hold what. `GoalsMatch` ties a worker's place to its task and its link. `SoleUsers`: a link
being received or claimed has one worker, because the states those workers leave behind are not states
others start from (`PlacesKnow`), and a locked row has one holder. `RowsAgree` relates pending row,
connection, reference and vault; `vault` is the generation, the one after (a rotation cut off), or
gone. `SpentTokens`: a sent and not replaced refresh token is on its way, or its refresher died, or the
connection was blocked. One lemma per action, one step per conjunct.

What the properties leave open, because the code does. A credential is stored before its row exists,
so a crash in between orphans it (`CredentialTracked` speaks of links with a row). A refresher that dies
between Ring's answer and the vault leaves the old token in place and the next refresh sends it again:
`SpentTokenUnused` names that exception (`lost`). A notice left in PROCESSING by a crash is never
claimed again, and a link left in CLAIMING stays so until an operator looks.

Not modelled: tenants and the vault's authorisation function (every caller here is entitled), the nonce
that selects a candidate, and `dry_run`.

## Ring inventory

`RingInventory.tla` models the devices and cameras of one connection: `ring_inventory_service.py` and
the device events of `ring_webhook.py`. `connection`, `device` and `camera` are rows, `queue` the webhook
inbox, `wire` notices on their way, `ring` what Ring has, `task` what each job is doing. A listing, or the
detail of one device, is read without a lock (`read`) and written later under the connection's lock
(`write`); in between Ring changes and notices are applied. `FindConfiguring` and `WriteActive` are
`RingLinkService._activate`, which reads a connection being configured and later sets it ACTIVE, with no lock
and whatever was committed in between (`activate`); `DisconnectAccount` is a disconnect, or a credential
found lost. `gone`, `raced` and `basis` are history.

`InventoryInv` says: after a removal of the integration no device or camera comes back
(`RemovalComplete`), a listing never undoes a signed removal of a device (`TombstoneStands`), an online or
offline notice never replaces a status that was true later (`StatusInOrder`), a camera keeps its zone
through removal and return (`ZonesKept`). Nothing is said of `integration_state` after a removal: an
activation under way makes it ACTIVE again (the race of `ring_linking_gate`), and what keeps the devices away
then is `operational_health`, which stays REMOTE_REMOVED and is looked at before every write (`Accepting`).
The run `ring_linking` explores it in three foci: `removal` (16,532 states), `return` (80,776) and `status`
(75,020, from a connection still being configured), with one device of two lenses, two jobs, three changes
at Ring, two claims of a notice.

Proofs (`RingLinkingProofs.tla`, `InventorySafe`), for any number of jobs, lenses, notices and changes.
The inductive `InventoryStands` is `RowsStand` (device, cameras and zones agree; a lens nobody has seen has
no camera; after the removal of the integration nothing is active), `RingTypes` (no notice is from the
future) and `TasksKnow`: a job that has applied the removal finds it on record until it is done, and so
does whoever looks later. Without the last, a removal could be followed by a write that undoes it.

What it leaves open, because the code does. A `device_added` detail read before a removal can be written
after it by a second processor (`raced`). An older `device_removed` that is late or retried removes again a
device that a later `device_added` restored, and a listing does not heal it
(docs/architecture/ring-device-inventory.md:44 and after). A listing stamps the status with the
present though it was read earlier: written after a notice it replaces the newer status by the older one, and
a notice of what happened since the reading is ignored. The two degraded health values
are one; a listing is read in one step; waiting for a lock takes no time.

## WHEP broker

`EdgeWhepBroker.tla` models `edge_whep.py` with its registry, the session calls of `ring_client.py`
and the part of `main.py` that runs and cancels the expiry task. The API is one asyncio process (the
module says so, and its image starts one worker), so a step is what happens between two awaits and the
registry's lock needs no state.

State. A session is named by the request that opens it (`open` is how far that request has come).
`lease`, `old`, `pending` and `count` are the registry: `_leases`, those of them past
`expires_monotonic`, `_pending` and `_per_node`. `closing`, `popped` and `sweeping` are leases in the
local variables of a DELETE request or of shutdown, of `release_expired` after its loop position, and
at it. `ring` counts the sessions a request has left at Ring, `url` says for which of them the broker
has the resource. `tried` and `cut` are history.

Actions. `OpenSession` to `Undone` are `open_session`; a request moves at each await. Authorization,
the token service, Ring and the audit table answer in every way the code tells apart: `Unauthorized`
is the definite 401, `PostFails` everything else that is not a usable answer, with or without a
session behind it. `CloseSession` and `Closed` are a DELETE, `PopExpired` and `Swept` the expiry task,
which goes to the next lease without an await in between (`Sweep`), `Stop`, `Shutdown` and `ShutDown`
the lifespan: the server lets requests under way end before it runs. `Released` is the end of a
best-effort release, its one retry included, which succeeds or not.

| Run | Shows | Bounds |
|---|---|---|
| `edge_whep` | safety, and every lease ends | 2 requests of one node, 1 each of two others, of which three are made; 2 leases in all, 1 per node; 168,328 states |
| `edge_whep_stop` | leases lost at shutdown (see Findings) | 2 requests of one node that may hold 2 leases |

With two leases in all and one per node, either limit refuses a request the other would admit. Any
three requests are two of one node and one of another, or one of each node (`ThreeMade`), which is where
one limit or the other binds. No symmetry is used, because the run has a liveness property.
Fairness: every request under way goes on, because each of its calls has a timeout; time passes; the
expiry task runs; a shutdown that has begun ends. Nothing makes a node ask or the API stop. A stopped
API stays so, by an explicit disjunct.

Proofs (`EdgeWhepBrokerProofs.tla`), for any finite set of requests, any nodes and any two limits: all
safety properties of `edge_whep`, from `EdgeWhepBrokerAssumption`. `Inv` adds that a request Ring has
not answered has no session (`Fresh`), without which `OneSession` is not inductive, and that the sweep
holds leases only while it waits for one (`Sweeping`). The counters are the work: one lemma for each
registry operation (`ReserveBooks` to `ForgetBooks`) shows that it keeps `Books`, from
`FiniteSetTheorems`, because a request between reserve and commit has no lease (`AccessAudited`); then
one lemma per action.

What the properties leave open, because the code does. A session whose POST was ambiguous, or came
without a usable Location, is never deleted: `SessionsTracked` speaks of sessions with a known
resource. A failed release is not repeated.

Not modelled: the memory of released leases, which only decides between 204 and 404 for a repeated
DELETE; a crash of the process, which forgets all leases by design.

## Day of care

`ChildAttendance`, `GuardianRelease`, `StaffPresence` and `RatioStatus` model the services of the same
names (`child_attendance.py`, `child_roster_*.py`, `guardian_*.py`, `staff_presence.py`,
`staff_roster_*.py`, `classroom_*.py`); `CareDay` puts them on one database, one clock and one set of
classrooms.

State and actions. `request` says how far each transaction has come: it has read rows without a lock
(`...Read`), has taken its lock, read the clock and planned (`...Decide`), and commits or rolls back.
Everything other transactions may do in between is a step of theirs. Advisory locks are variables (`lock`,
`staffLock`, `policyLock`); for row locks a guard asks which requests under way hold the row. A row read FOR
SHARE keeps writers out and readers in. `audit` and `seen` are history.

| Property | Says |
|---|---|
| `Inv`: `DecisionStands`, `HandedOverOnce`, `OneActiveLink`, `OneRoomPerTeacher`, `OneDesignation` | what a request decided under its lock still fits when it commits; no check-out is given to two adults; no two active links, stays or designations |
| `OneRoomAtATime` | a child's record is a chain of stays, one room at a time |
| `AuditExplains` | a link's audit rows lead without a gap to the link as it stands |
| `ReleasedByRight`, `ReleaseUpToDate` | a release rests on a right as of the check-out, and on rows still current at its commit (action property) |
| `PoliciesDisjoint` | no two active ratio policies are in force at one instant, though no constraint forbids it |
| `VerdictSound` | a verdict uses fresh numbers of the source the mode names, and never an older report after a newer |

Proofs (`CareDayProofs.tla`), for any sets of requests, rooms, contacts, links, teachers and policies and
any lengths of lease and term, from the modules' assumptions only: every property of the table
(`ChildInOneRoom`, `LinksAudited`, `ReleasesRightful`, `ReleasesUpToDate`, `TeacherInOneRoom`,
`PoliciesNeverMeet`, `VerdictsSound`, and `DayKept` for `Inv`). The inductive invariants `ChildrenInv`,
`StaffInv` and `RatioInv` have one idea in common: what a transaction read before its lock may be old,
but what it decided under its lock is still so when it commits, because whoever could change it needs the
same lock. `Standing` says it of a request for a child (it holds the lock, and
the record with its plan is a chain of stays), `Entitled` of a release (child, contact, link and stay are
as the plan needs them, because they were read FOR SHARE), `StaffStanding` and `EditStanding` of the
others. `VerdictsSound` needs `ViewStands`: how the numbers an evaluation has gathered relate to the
rows at the moment each of them was read.

Abstractions. The clock only goes forward (the two minutes of future skew a client may state are left
out); classroom and profile are read in one step before the lock; a facility is always ACTIVE and no
classroom moves; names, references and notes are data; counts of visitors and the numeric limits on lists
are left out. A ratio evaluation reads one table per step, as READ COMMITTED lets it.

## Staff enrolment

`StaffEnrollment` models `staff_service.py`, `staff_media.py`, `staff_package.py` and
`staff_recognition.py`: profiles, photos and templates as rows, the bytes of photos as files that no
transaction covers, the model the process runs, and an export that reads staff, then templates.
`EnrollmentInv` says that READY stands for enough photos templated by one model (`ReadySound`), that a
deleted person has nothing left (`ErasedWithProfile`), that the photo limit and uniqueness hold for
overlapping uploads (`PhotosLimited`), that photos have bytes and bytes an owner (`BytesKept`), that
nothing revoked before an export is in it (`PackageSound`), and by how much overlapping creations
can exceed the limit of staff (`RosterLimited`).

`EnrollmentSafe` (`ControlPlaneProofs.tla`) proves it for any number of teachers, photos, models and requests
and any limits. The inductive `PhotosInv` is `RowsInv` (what the tables and files hold), `CallsInv` (what an
upload, a deletion or a recomputation still knows at each step: a photo whose bytes are written and whose
row is not belongs to one upload alone; what a lock's holder counted is still so) and `ExportInv`
(what an export has gathered was there when it began). `RosterLimited` counts the creations under way.

What it leaves open, because the code does. A commit that succeeds while its answer is lost deletes the
bytes of the accepted photo. The limit of staff is exceeded by overlapping creations, after which an export
is refused. READY stays after a change of model until the next recomputation. A request that dies leaves
its bytes behind.

## Access

`IdentityAccess` models `identity.py`, `access.py`, `authorization.py`, `provisioning.py`: a key is never
trusted longer than the cache lives (`KeysFresh`), an organization is bound once and completely
(`BoundOnce`), a request is served as its own subject in its own tenant (`ServedAsOneself`).
`EdgeCredentials` models `edge_credentials.py` and `edge_auth.py`: the tool leaves no file without a
stored digest (`FilesUsable`), the audit is complete (`CredentialsAudited`), a node is recognised only while
its credential stands (`RecognisedAsIssued`). `RuntimeRole` models `runtime_role.py`: `FailsClosed`,
`ZeroMeansExact`, `NoOpTwice`, `RoleUsable`, against migrations and an operator. `AccessInv` is all of these.

Proofs (`ControlPlaneProofs.tla`, `AccessSafe`), for any number of keys, actors, tenants, credentials, tables,
functions and requests: `AccessSpec => []AccessInv`, where `Access.tla` puts the three side by side. The
assumptions are those of the modules, among them that the stand-ins for "nobody" (`NobodyAssumption`,
`NilAssumption`) are none of the values and that tables are not functions (`ClassifiedAssumption`).
Of keys the invariant adds `CacheYoung`: a cached key was served one life of the cache ago at most. Of
people, `RowsInOrder` and `Found`: what a request has found so far is still true of it, because nothing that
was bound is unbound. Of credentials, `FilesOwned` and `IssuedFor`: whose run a file belongs to. Of the
runtime role, `Remembered` and `Examined`: what a tool that found nothing wrong has looked at is still
exact at its end; `Settled` and `SeenAlike` compare the catalog it sees with the one others see.

What they leave open, because the code does. A node's key cache that has just been started counts its
cooldown from zero, so the first forced refresh may be refused; a failed one uses up the cooldown. Two
overlapping changes of a role leave two active rows. A kill leaves a credential file without a digest; a
commit whose answer is lost leaves an active digest without a file. A table created while the runtime
role's transaction is open, under a default that transaction is about to remove, keeps its grant until the
next apply. Memberships, ownership and grants to PUBLIC are reported and not repaired.

Abstractions: the identity provider's keys are read when the fetch ends; `last_used_at` and digests are
left out; one runtime-role tool runs at a time, its inspection is one step, and the operator waits for the
rows its transaction has written.

### The run `control_plane`

| Foci | Part | States |
|---|---|---|
| `attendance`, `door`, `office`, `work`, `policies`, `reports`, `photos`, `package` | the day of care and staff enrolment | 332,605 |
| `keys` / `people` | `IdentityAccess` | 20,254 / 35,203 |
| `nodes` | `EdgeCredentials` | 529 |
| `role` | `RuntimeRole` | 45,592 |

Bounds: one child, three rooms in two facilities, two requests at once, one contact with two links, one
teacher with two designations, two policies, times 0 and 1 with leases and terms on either side of the
boundary, three events; for enrolment two teachers, three photos, two models, and limits of two, two and
one; for access two tenants' worth of keys, actors and rows, two tools. Two overlapping requests on one
child, one link or one room are every race these services have, because each takes its lock before it
decides; three events are an entry, an extension and an exit. `Focus` keeps the rows a focus does not use as
they are. Symmetry of requests and links is sound: the run has no liveness property,
as nothing makes a person ask.

## Live pipeline

| Module | Code | State |
|---|---|---|
| `FrameScheduler` | `live/scheduler.py` | slot, event, tallies, the places of three threads |
| `PersonTracking` | `tracking/tracker.py` | tracks with their states and age |
| `PortalCrossing` | `live/portal_crossing.py` | sides, pending transitions and cooldowns per track |
| `OccupancyLedger` | `live/occupancy.py` | active tracks and the published count |
| `LivePipeline` | `live/runtime.py` | composes the four; `trail` is the history of sightings |
| `CameraPortalAdmin` | `camera_portal_service.py` | rows of lines, requests with their lock |
| `ManagedConfig` | `live/managed_config.py`, `managed_session.py` | what was fetched, cached, handed over, applied |
| `GpuSupervisor` | `gpu_worker/`, `agent.py` | worker, socket contents, callers, recovery |
| `EdgeSession` | `managed_session.py`, `live/cli.py` | all of these; a session ends and another begins |

The run `live_pipeline` (488,186 states, foci `frames`, `people`, `lines`, `portals`, `config`, `gpu`)
checks `SessionInv` (types; `FramesConserved`: every frame is delivered, dropped, skipped, discarded or in the
slot; `NoMissedArrival`; `LedgerFollows`: ledger and count are the tracks begun and not ended;
`PortalLimit`), `EvidenceSinceBreak` (a transition rests on sightings since the last interruption and since
the line was placed), `AnswersMatch` (a result is the worker's answer to that very call), `LinesCurrent` (no
change of lines is lost between the fetching and the applying thread) and the liveness property `Settles`
(a stop ends; the edge comes to use the lines the control plane has). The bounds are one slot, five frames,
two tracks, one line per camera, two sessions of the edge, five calls: enough for a break that is
superseded in the slot, a track lost and found, a line changed between two frames, and a call
that times out before two more.

Fairness. The consumer, the pipeline, a stop once begun, the refresher, frames while a session is on, and
a write once begun go on, because each is a running thread or a transaction with a timeout. The control
plane answers infinitely many of infinitely many requests, and accepts its document (strong fairness).
Nothing is asked of the camera, the administrators or the crashes.

Abstractions. Which detection belongs to which track, and on which side of a line a person is, is a free
choice; at most one track begins per frame; frames come in order of their clock. One thread manages the
GPU; LOAD, UNLOAD and MODEL_STATUS are one operation. In the run neither ledger nor crossing table reaches
its limit (512 tracks, 256 per line), beyond which the code ignores a track or forgets the oldest one.

Proofs (`LivePipelineProofs`). `Accounted` and `Noticed`, for any capacity and number of frames, are
inductive with `Unstarted`: the capture thread does not run before the consumer has started it.
`HandedOver` (`LinesCurrent`) needs `Kept` and `Behind`, which say where a change is while it is on its
way. `LinesLimited` (`PortalLimit`) needs `Serial`: one request at a time holds a camera's lock, and what
it counted is still so. `AnswersOwn` (`AnswersMatch`) needs `Matched` (what is in the socket and of whom),
`OneHolder` (one caller holds the lock) and `Quiet` (while no call was given up, the socket holds at most
what belongs to the holder).

These are about one part each. The others are about `EdgeSession`, where frames, tracks, ledger, lines,
refresher, administrators and GPU worker all move, in any order, through any number of sessions.
`BesideSafe` keeps `LinesCurrent` and `AnswersMatch` with the real pipeline in place of the step that
stands for it in `ManagedConfig`. `SessionSafe` is `SessionInv`, `CrossingsEvident` is
`EvidenceSinceBreak`; both follow from `PipelineInv`, which `PipelineHeld` proves. Its parts are:

| Part | Says | Needed because |
|---|---|---|
| `Timeline`, `Begun` | records are of tracks that have begun; a track not begun is not live; after the last frame only ends are left | ids are given once, so no state of an earlier track is taken for a later one's |
| `LedgerInv` | a track is live exactly if it will be in the ledger when the records in hand are handled (`Due`) | `LedgerFollows` speaks of the moment between frames and breaks in the middle of one |
| `Chained` | along the frame used last, the one in hand, the slot and the one just grabbed, each follows its predecessor without an interruption or is marked | a frame may be dropped with its mark at any place of the chain |
| `Backed` | a line holds no more of a track than the history shows: the side it was last seen on, and a pending transition at most as often as it was seen | a transition is reported from what the line holds |
| `Remembered` | a line that has reported a transition remembers when, until the track cannot return | the cooldown is measured from it |
| `LastWords` | a track whose end is reported is gone, or was not seen since the break that ended it | the end drops the line's state while the history keeps its own |

`Backed` and `Remembered` are not asked for while `unsynced` is set: between a break and the record that
carries it to the lines (`runtime.py:287-295`) they do not hold, and `States` is why that does no harm.

`PipelineHeld`, `SessionSafe` and `CrossingsEvident` have one hypothesis besides the assumptions on the
constants, `[]Roomy`: whenever an observation is handled, the ledger has the track or room for it, and so
have the lines. The promises need it. A full ledger refuses a track the timeline has begun
(`occupancy.py:328-337`), and a full line forgets its oldest track and with it the cooldown
(`portal_crossing.py:335-337`). The tracker's own limits (128 active, 128 lost) do not imply it, because a
track whose filter fails stays in the ledger unreported until the next break. `RoomForAll` shows that
it holds of every session whose streams have no more tracks than fit, as in the run.

## Edge device

| Module | Code | Properties |
|---|---|---|
| `RingSource` | `live/ring.py`, `ring_broker.py`, `ring_gst.py` and the worker's protocol | `OneRingSession`, `LeasesAccounted`, `NothingLeftBehind`, `GapMarked`, `FewInFlight`, `EndsForAReason` |
| `LocalCamera` | `live/camera.py` | `OneDevice`, `EndsSaid`, `ReopeningMarked`, `DeviceReleased` |
| `WebRtcBackend` | `camera_transport/webrtc_backend.py`, `webrtc_media.py`, `webrtc_worker.py` | `NoWorkerRemains`, `EndReported` |
| `LivePreview` | `live/preview.py`, `live/server.py` with its page | `OneFeed`, `OneRequest`, `Forward` |
| `EdgeRelease` | `infra/jetson/veotrex-edge-ctl.sh`, `veotrex-edge.service` | `AlwaysBootable`, `VerifiedOrRestored` |

They share neither thread nor state, so the run `edge_device` (328,917 states) takes them side by side; its
invariant `DeviceInv` is all of the above with the types. `MediaEnds` is liveness: again and again no close
or stop is half done, the threads it ends are over, and no page shows an old picture. Fairness is weak, on the
threads of the device, the page and the clock; the workers, the broker, the camera and whoever
closes owe nothing.

Bounds: two Ring sessions one after the other (one in use while another is given up), a retry of each, one
frame of each with a close() at any point or four without; three openings of a device; two
releases, of which one is current and one previous. `FewInFlight` compares with the worker's real limit.

Proofs (`EdgeDeviceProofs.tla`), for any number of sessions, frames, openings, releases and requests of the page,
from the modules' assumptions only: `DeviceSafe` (`DeviceSpec => []DeviceInv`, in `EdgeDevice.tla`) from one
inductive invariant per module.

- `RingIInv` is the largest, because close() and the capture thread release the same session. `Holding` says
  what each thread has in hand at each of its steps, and that a session in force is in exactly one hand:
  `OneRingSession`, `LeasesAccounted` and `NothingLeftBehind` are consequences. `Workers` says that
  a running worker is the reader's or is waited for, and counts what is on its way in each direction
  (`SoundWorker`), from which `FewInFlight` follows. `Marking` and `Reasons` carry `GapMarked` and
  `EndsForAReason` through a release that another thread may finish.
- `UsbIInv` adds that the device being read is the one held unless close() took it, that a picture of an
  earlier opening was the last only while the mark is pending, and what is true until close() begins. For
  `DeviceReleased`, `LateOpening` says that after close() released, a thread that was not about to open the
  device finds none and goes, and one that was opens it at most once before it sees the stop.
- `BackendIInv` adds that start() and stop() share a lock, after which no worker is started (`Locked`), that
  the socket of a session that started, or whose answer was too long, stays open until stop() (`ReaderStands`), and
  that a reader which reports an end has emptied the socket of a dead worker (`EndFound`).
- `PreviewIInv` adds that frames are numbered as they are drawn, that a request is for the feed
  not shown (`Asked`), and that no timer outlives its page (`Timed`).
- `ReleaseIInv` adds who owns the links during an activation (`Owned`, `Underway`) and what is known of the
  current release while it is being judged (`Standing`, `Unrecorded`, `Decided`): without them
  the step that restores the previous release could lead anywhere.

What they leave open, because the code does. A close() before `frames()` begins is forgotten. A local camera
opened after close() released stays open until the next close(): `DeviceReleased` says when that can happen
and that it happens once, not that it cannot, and `MediaEnds`, which is about threads, does not see it. A
start of the WebRTC backend that nothing caught leaves its worker to stop(). A stop of the
Ring source during its start or a retry delay is shown as FAILED. A lease whose answer was overtaken by
close() stays until the broker expires it. A terminated worker's last words are read by nobody. An activation
killed half way leaves a current release nobody verified, and repeating it takes that one for the previous
one. A unit that was refused stays on disk with its boot setting. A build killed between naming and
finishing counts as built.

Left out: the budget's window and the limit of four sessions; the marking of gaps by time, for which
`ring.py:61` defines a constant the code does not use; pixels and encodings.

## Findings

- `room_events_retry`: `room_event_outbox.py:8-9` says the server turns any retry into DUPLICATE. The
  ingest checks assignment, portal and time window before the primary key, so a retry of a stored event
  after a reassignment is REJECTED and dead-lettered. No event is lost (`NothingLost`), but a stored
  event is reported as refused.
- `camera_transport_restart`: `stop()` leaves the renewal bookkeeping of the session it ends. A session
  started later on the same controller begins with that allowance used up and is not renewed before it
  expires.
- `ring_linking_gate`: `_activate` reads the connection without a lock and sets it ACTIVE whatever was
  committed since. A connection disconnected, removed by Ring or set to REFRESH_UNCERTAIN in between is
  usable again; until the deletion has happened, its credential is opened. `RemovalErases` and
  `UsesSerialised` hold all the same.
- `edge_whep_stop`: `release_expired` takes all due leases out of the registry and releases them one by
  one; the lifespan cancels it before `shutdown()` drains the registry, so those it had not come to
  are never released, although `shutdown` is to close every outstanding session.
- `live_stop_headless`: `scheduler.py:542-543` and `runtime.py:497-502` let `stop()` be called from anywhere,
  and without a dashboard a signal handler calls it on the consumer's thread. If the consumer holds the
  condition's lock at that moment, the handler waits for its own thread and the session never stops.

Disagreements met while modelling, for which there is no run of their own:

- `tracker.py:272-281` drops a track whose filter fails without naming it in `removed`, so ledger and
  count keep it until the next break (`runtime.py:306-308`). The model does the same (`Unreported`).
- `camera.py:292-294` says that an exhausted budget shows FAILED; when the device refuses to be opened
  again (`camera.py:387-388`) the source ends RECONNECTING. `EndsSaid` states what the code does.
- `close()` is to "release the device" (`camera.py:394`), and the scheduler relies on it
  (`scheduler.py:352`, `543`). It releases what it finds. If the capture thread is about to open the device, for the first time
  (`camera.py:302`) or again (`camera.py:384`), or in a read that uses up its failures, the device is
  opened after close() has released, the thread sees the flag and ends, and nobody releases it until
  close() is called once more, as `cli.py:669` does after a stop from a signal handler and
  nothing does after `with BackpressureScheduler(...)`. `DeviceReleased` states what the code does keep.
- The same sentence calls close() "safe before `frames`", but `frames()` resets the flag and opens the device.
- `webrtc_backend.py:251-256` catches only an `OSError` when the answer is sent. An answer within its own
  limit that is longer than 65,536 bytes once encoded raises `TransportError` (`webrtc_backend.py:170-174`): start()
  fails with the worker alive and the socket open, unlike every other failure of it. The runner answers with
  a stop(), which finds the socket open and ends the worker, unless it had come too early (the next item).
- `backend.py:86` says that `stop` must release every OS resource; a stop before the delegate exists
  (`webrtc_media.py:125-127`) is forgotten, and the worker is started.
- `webrtc_worker.py:70-72` lets a host without the hardware decoder run the software route; the parent
  refuses a worker that lacks any listed plugin (`webrtc_backend.py:212`).
- `agent.py:79`: a first start that fails leaves no monitor, so the worker is never recovered.

Hazards that a property covers but the list has no room for: `webrtc_backend.py:251`, `managed_session.py:220`, `controller.py:394`
and `544`, `edge_whep.py:486`, `ring_service.py:137` and `449`, `ring_webhook.py:212`, `edge_runtime.py:220`,
`camera_portal_service.py:272`, `ring_pending_expiry.py:341`. Without a property: a failed write of the
configuration cache is not repeated until the version changes (`managed_config.py:391`); the agent's
monitor may be cancelled while its recovery thread runs (`agent.py:97`); lines drawn for a camera's previous
classroom count against the limit but cannot be archived from the new one (`camera_portal_service.py:272`).

## What the prover cannot reach

Liveness under fairness and `ENABLED` are checked by TLC only. No module a theorem depends on declares a
RECURSIVE operator, and nothing is proved by induction over data.
Every other property of the passing runs is stated by a theorem; only the liveness properties
(`EventuallySettled`, `Decided`, `WorkersReleased`, `LeaseEnds`, `Settles`, `MediaEnds`) are model-checked
alone. `EdgeSession` itself is not a run: `MCLivePipeline` explores its parts completely, one at a time,
and the theorems are about all of them at once.

## Not modelled

- The Ring HTTP client and its readiness checks, apart from the calls the models above make of it: they
  build requests and parse answers.
- Request schemas, serialisation and the web application: no state of their own.
- Settings, deployment manifests and the data model, apart from the tables' initial state and keys.
- The numerical code: Kalman filter, association, geometry, calibration, TensorRT engines. Its results are
  free choices in the models.
- GStreamer pipelines and the frame worker's decoding, apart from what they say to their parents.
- The tools for recorded video and the qualification programs, which run alone, offline, one step after
  another.
