----------------------------- MODULE RoomEvents -----------------------------
(***************************************************************************)
(* Anonymous room-transition events on their way from one edge node to the *)
(* control plane: the durable SQLite outbox and its uploader thread        *)
(* (live/room_event_outbox.py), the managed session that opens and closes  *)
(* them (live/managed_session.py), the JSON client                         *)
(* (edge_control_plane.py) and the ingest transaction on the server        *)
(* (apps/api edge_runtime.py, edge_api.py).                                *)
(*                                                                         *)
(* An event is named by the order it was generated in, which is also the   *)
(* order of the outbox's AUTOINCREMENT key: every event_id is a fresh      *)
(* uuid4 and is enqueued once, so outbox row order is order on 1..N.       *)
(***************************************************************************)
EXTENDS Integers, FiniteSets, Sequences

CONSTANTS
    MaxEvents,      \* how many events are generated (bound)
    Capacity,       \* most rows in the outbox
    BatchSize,      \* most events in one request (BATCH_SIZE)
    DeadCapacity,   \* most rows in the dead-letter table (DEAD_LETTER_CAPACITY)
    Malformed,      \* events the server's request schema refuses with a 422
    Portals,        \* doorway lines of the control plane
    PortalOf,       \* the portal each event was emitted for
    MaxFaults,      \* bound on failed requests, garbled answers and storage faults
    MaxChanges,     \* bound on changes of assignment, placement and server time
    MaxRestarts     \* bound on starts of the edge process after the first

Events == 1..MaxEvents

\* Names for the requests under way: one per attempt the edge can abandon, and one more.
Tickets == 1..(MaxFaults + MaxRestarts + 1)

ASSUME RoomEventsAssumption ==
    /\ MaxEvents \in Nat /\ Capacity \in Nat \ {0} /\ BatchSize \in Nat \ {0}
    /\ DeadCapacity \in Nat \ {0}
    /\ Malformed \subseteq Events
    /\ PortalOf \in [Events -> Portals]
    /\ MaxFaults \in Nat /\ MaxChanges \in Nat /\ MaxRestarts \in Nat

VARIABLES
    generated,   \* transitions emitted so far: the events are 1..generated
    promised,    \* history: events enqueue() answered True for
    outbox,      \* durable: rows of table outbox
    waiting,     \* durable: rows whose next_attempt_at is still ahead
    solo,        \* durable: rows flagged solo
    dead,        \* durable: rows of table dead_letter, oldest first
    evicted,     \* history: events dropped from the dead-letter table
    session,     \* the edge session: running, stopping, closed or down
    pc,          \* the uploader thread
    batch,       \* the events of the request in hand
    answer,      \* what is still to be done about them
    posts,       \* ticket of the latest POST
    wire,        \* POSTs sent and not yet taken up by the server
    txs,         \* ingest transactions open on the server
    reply,       \* the answer on its way to the latest POST
    rows,        \* server: number of room_transition_events rows per event id
    placed,      \* portals whose camera this node serves, in the camera's classroom
    outside,     \* events outside the occurred_at window of the server's clock
    everBarred,  \* history: events the server would have refused at some time
    faults, changes, restarts

edgeTables == <<outbox, waiting, solo, dead, evicted>>
uploader   == <<pc, batch, answer>>
network    == <<posts, wire, reply>>
server     == <<txs, rows>>
world      == <<placed, outside, everBarred, changes>>
vars == <<generated, promised, edgeTables, session, uploader, network, server,
          world, faults, restarts>>

-----------------------------------------------------------------------------
(* Helpers *)

\* ORDER BY seq LIMIT n
Oldest(S, n) == {e \in S : Cardinality({f \in S : f < e}) < n}

IsHead(e, S) == e \in S /\ \A f \in S : e <= f

NoAnswer == [acked |-> {}, refused |-> {}, missing |-> {}]
NoReply  == [kind |-> "none", acked |-> {}, refused |-> {}]
Decline  == [kind |-> "unavailable", acked |-> {}, refused |-> {}]
Invalid  == [kind |-> "invalid", acked |-> {}, refused |-> {}]

UnderWay == {r.no : r \in wire} \cup {t.no : t \in txs}

Open == session \in {"running", "stopping"}

Stored == {e \in Events : rows[e] > 0}
Dead   == {dead[i] : i \in 1..Len(dead)}

\* Events the ingest checks refuse: camera not assigned to the node or not placed,
\* portal of another camera or classroom, occurred_at too old or too far ahead.
Barred == {e \in Events : PortalOf[e] \notin placed \/ e \in outside}

Fault == faults < MaxFaults /\ faults' = faults + 1

-----------------------------------------------------------------------------
(* The pipeline thread *)

\* Persist the next transition, or refuse it: outbox closed, full, or a storage error.
Enqueue ==
    /\ session # "down"
    /\ generated < MaxEvents
    /\ generated' = generated + 1
    /\ everBarred' = everBarred \cup (Barred \cap {generated + 1})
    /\ \/ /\ Open /\ Cardinality(outbox) < Capacity
          /\ outbox' = outbox \cup {generated + 1}
          /\ promised' = promised \cup {generated + 1}
          /\ UNCHANGED faults
       \/ /\ ~Open \/ Cardinality(outbox) >= Capacity
          /\ UNCHANGED <<outbox, promised, faults>>
       \/ /\ Open /\ Fault
          /\ UNCHANGED <<outbox, promised>>
    /\ UNCHANGED <<waiting, solo, dead, evicted, session, uploader, network, server,
                   placed, outside, changes, restarts>>

-----------------------------------------------------------------------------
(* The uploader thread: RoomEventUploader._run and deliver_once *)

\* Top of the loop: the stop event is looked at here and nowhere else.
Poll ==
    /\ pc = "idle"
    /\ pc' = IF session = "running" THEN "polling" ELSE "off"
    /\ UNCHANGED <<generated, promised, edgeTables, session, batch, answer, network,
                   server, world, faults, restarts>>

\* due() answers nothing: outbox closed or empty, or its head still waits.
NothingDue ==
    /\ pc = "polling"
    /\ ~Open \/ outbox = {} \/ \E head \in waiting : IsHead(head, outbox)
    /\ pc' = "idle"
    /\ UNCHANGED <<generated, promised, edgeTables, session, batch, answer, network,
                   server, world, faults, restarts>>

\* due() looks at the head's two columns only: a solo head goes alone, any other head
\* takes the rows behind it along.
Post ==
    /\ pc = "polling" /\ Open
    /\ \E head \in outbox \ waiting :
        /\ IsHead(head, outbox)
        /\ batch' = IF head \in solo THEN {head} ELSE Oldest(outbox, BatchSize)
    /\ pc' = "posting"
    /\ posts' \in Tickets \ UnderWay /\ \A n \in Tickets \ UnderWay : posts' <= n
    /\ wire' = wire \cup {[no |-> posts', events |-> batch']}
    /\ UNCHANGED <<generated, promised, edgeTables, session, answer, reply, server,
                   world, faults, restarts>>

\* What the uploader makes of an attempt without results: all of the batch waits.
AllAcked   == [NoAnswer EXCEPT !.acked = batch]   \* faulty variant: any answer will do
AllMissing == [NoAnswer EXCEPT !.missing = batch]

\* No usable answer: credential, connection, TLS or timeout failure.  The request may be
\* lost, or reach the server after the client has given it up.
PostFails ==
    /\ pc = "posting"
    /\ Fault
    /\ pc' = "settling"
    /\ answer' = AllMissing
    /\ reply' = NoReply
    /\ \/ wire' = wire
       \/ wire' = {r \in wire : r.no # posts}
    /\ UNCHANGED <<generated, promised, edgeTables, session, batch, posts, server,
                   world, restarts>>

\* An error status, or a document that is not a list of results: back off.
ReadUnavailable ==
    /\ pc = "posting" /\ reply.kind = "unavailable"
    /\ pc' = "settling"
    /\ answer' = AllMissing
    /\ reply' = NoReply
    /\ UNCHANGED <<generated, promised, edgeTables, session, batch, posts, wire, server,
                   world, faults, restarts>>

\* len(ids) > 1
NeverMany == FALSE   \* faulty variant: the batch is refused as one
Many      == Cardinality(batch) > 1

\* 400/413/422: a batch is taken apart, a lone event is refused for good.
ReadInvalid ==
    /\ pc = "posting" /\ reply.kind = "invalid"
    /\ IF Many
       THEN pc' = "splitting" /\ answer' = NoAnswer
       ELSE pc' = "settling" /\ answer' = [NoAnswer EXCEPT !.refused = batch]
    /\ reply' = NoReply
    /\ UNCHANGED <<generated, promised, edgeTables, session, batch, posts, wire, server,
                   world, faults, restarts>>

\* The answer per event, in the three lists the loop over the ids fills.
SortedHastily(a) ==   \* faulty variant: no news is good news
    [acked |-> batch \ a.refused, refused |-> a.refused \cap batch, missing |-> {}]
Sorted(a) ==
    [acked   |-> a.acked \cap batch,
     refused |-> a.refused \cap batch,
     missing |-> batch \ (a.acked \cup a.refused)]

\* Per-event results; an event without one is deferred.
ReadResults ==
    /\ pc = "posting" /\ reply.kind = "results"
    /\ pc' = "settling"
    /\ answer' = Sorted(reply)
    /\ reply' = NoReply
    /\ UNCHANGED <<generated, promised, edgeTables, session, batch, posts, wire, server,
                   world, faults, restarts>>

KeepRows(S) == UNCHANGED <<outbox, waiting, solo>>   \* faulty variant of DropRows
DropRows(S) ==
    /\ outbox' = outbox \ S
    /\ waiting' = waiting \ S
    /\ solo' = solo \ S

\* Rows of the dead-letter table beyond its capacity.
ExcessButOne(n) == n - DeadCapacity - 1   \* faulty variant
Excess(n)       == n - DeadCapacity

\* dead_letter() on one event: one transaction that moves the row, if it is there, and
\* keeps the newest DeadCapacity rows.
MoveToDeadLetter(e) ==
    LET moved  == IF e \in outbox \ Dead THEN Append(dead, e) ELSE dead
        excess == Excess(Len(moved))
    IN  /\ dead' = IF excess > 0 THEN SubSeq(moved, excess + 1, Len(moved)) ELSE moved
        /\ evicted' = evicted \cup {moved[i] : i \in 1..excess}
        /\ DropRows({e})

\* The rows a refused batch flags.
FlagRest == {e \in batch : ~IsHead(e, batch)}   \* faulty variant: the head goes next anyway
FlagNone == {}                                  \* faulty variant
Flagged  == batch

\* defer(ids, now, solo=True) after a refused batch: due at once, each on its own.
Split ==
    /\ pc = "splitting"
    /\ IF Open THEN solo' = solo \cup Flagged /\ waiting' = waiting \ batch
               ELSE UNCHANGED <<solo, waiting>>
    /\ pc' = "idle" /\ batch' = {}
    /\ UNCHANGED <<generated, promised, outbox, dead, evicted, session, answer, network,
                   server, world, faults, restarts>>

\* Refused events are dead-lettered inside the loop over the results, one by one in order.
DeadLetter ==
    /\ pc = "settling"
    /\ \E e \in answer.refused :
        /\ IsHead(e, answer.refused)
        /\ answer' = [answer EXCEPT !.refused = @ \ {e}]
        /\ IF Open THEN MoveToDeadLetter(e) ELSE UNCHANGED edgeTables
    /\ UNCHANGED <<generated, promised, session, pc, batch, network, server, world,
                   faults, restarts>>

\* Only then are the accepted and duplicate ones deleted.
Remove ==
    /\ pc = "settling" /\ answer.refused = {} /\ answer.acked # {}
    /\ answer' = [answer EXCEPT !.acked = {}]
    /\ IF Open THEN DropRows(answer.acked) ELSE UNCHANGED <<outbox, waiting, solo>>
    /\ UNCHANGED <<generated, promised, dead, evicted, session, pc, batch, network,
                   server, world, faults, restarts>>

\* And last, what got no answer waits: the backoff, or the 300 s of a configuration error.
Defer ==
    /\ pc = "settling" /\ answer.refused = {} /\ answer.acked = {}
    /\ waiting' = IF Open THEN waiting \cup (answer.missing \cap outbox) ELSE waiting
    /\ answer' = NoAnswer
    /\ pc' = "idle" /\ batch' = {}
    /\ UNCHANGED <<generated, promised, outbox, solo, dead, evicted, session, network,
                   server, world, faults, restarts>>

\* sqlite3.Error in one of the four calls above, caught by _run.  dead_letter() rolls back;
\* the executemany() of the others runs in autocommit, so the statements already executed,
\* in the order of the ids, stay.  A crash in the middle leaves the same tables.
StorageFault ==
    /\ pc \in {"splitting", "settling"}
    /\ Open
    /\ Fault
    /\ \/ /\ pc = "splitting"
          /\ \E n \in 0..Cardinality(batch) :
              /\ solo' = solo \cup Oldest(batch, n)
              /\ waiting' = waiting \ Oldest(batch, n)
          /\ UNCHANGED outbox
       \/ /\ pc = "settling" /\ answer.refused # {}
          /\ UNCHANGED <<outbox, waiting, solo>>
       \/ /\ pc = "settling" /\ answer.refused = {} /\ answer.acked # {}
          /\ \E S \in SUBSET answer.acked : DropRows(S)
       \/ /\ pc = "settling" /\ answer.refused = {} /\ answer.acked = {}
          /\ \E n \in 0..Cardinality(answer.missing) :
              waiting' = waiting \cup (Oldest(answer.missing, n) \cap outbox)
          /\ UNCHANGED <<outbox, solo>>
    /\ pc' = "idle" /\ batch' = {} /\ answer' = NoAnswer
    /\ UNCHANGED <<generated, promised, dead, evicted, session, network, server, world,
                   restarts>>

\* The wall clock reaches a row's next_attempt_at.
Elapse ==
    /\ \E e \in waiting : waiting' = waiting \ {e}
    /\ UNCHANGED <<generated, promised, outbox, solo, dead, evicted, session, uploader,
                   network, server, world, faults, restarts>>

-----------------------------------------------------------------------------
(* The edge session and its process *)

\* ManagedEdgeSession.close: RoomEventUploader.stop sets the event ...
Stop ==
    /\ session = "running" /\ restarts < MaxRestarts
    /\ session' = "stopping"
    /\ UNCHANGED <<generated, promised, edgeTables, uploader, network, server, world,
                   faults, restarts>>

\* ... and joins for at most 5 s, less than a request may take (10 s), so the outbox is
\* closed whether the thread has ended or not.
Close ==
    /\ session = "stopping"
    /\ session' = "closed"
    /\ UNCHANGED <<generated, promised, edgeTables, uploader, network, server, world,
                   faults, restarts>>

\* The process ends, in order or by a crash or power loss.
Exit ==
    /\ session = "closed" \/ (session # "down" /\ restarts < MaxRestarts)
    /\ session' = "down"
    /\ pc' = "off" /\ batch' = {} /\ answer' = NoAnswer
    /\ reply' = NoReply
    /\ UNCHANGED <<generated, promised, edgeTables, posts, wire, server, world, faults,
                   restarts>>

\* A new process opens the same file and starts a new uploader.
Restart ==
    /\ session = "down" /\ restarts < MaxRestarts
    /\ restarts' = restarts + 1
    /\ session' = "running"
    /\ pc' = "idle"
    /\ UNCHANGED <<generated, promised, edgeTables, batch, answer, network, server, world,
                   faults>>

-----------------------------------------------------------------------------
(* The control plane *)

\* An answer reaches the edge if its request is still the one being waited for.
Answer(no, a) ==
    reply' = IF pc = "posting" /\ no = posts THEN a ELSE reply

\* 422: the request schema refuses the whole batch before anything is looked up.
RefuseRequest ==
    /\ \E r \in wire :
        /\ r.events \cap Malformed # {}
        /\ wire' = wire \ {r}
        /\ Answer(r.no, Invalid)
    /\ UNCHANGED <<generated, promised, edgeTables, session, uploader, posts, server,
                   world, faults, restarts>>

\* 401, 403, 404, 405, 408, 429 or 5xx before the transaction.
DeclineRequest ==
    /\ Fault
    /\ \E r \in wire :
        /\ wire' = wire \ {r}
        /\ Answer(r.no, Decline)
    /\ UNCHANGED <<generated, promised, edgeTables, session, uploader, posts, server,
                   world, restarts>>

\* ingest opens its transaction and reads the clock, the assignments and the portals.
BeginIngest ==
    /\ \E r \in wire :
        /\ r.events \cap Malformed = {}
        /\ wire' = wire \ {r}
        /\ txs' = txs \cup {[no |-> r.no, events |-> r.events, view |-> r.events \ Barred]}
    /\ UNCHANGED <<generated, promised, edgeTables, session, uploader, posts, reply, rows,
                   world, faults, restarts>>

InsertAgain(e) == rows[e] + 1   \* faulty variant: no conflict clause

\* INSERT ... ON CONFLICT (id) DO NOTHING for one event that passed the checks.
InsertRow(e) == IF rows[e] = 0 THEN 1 ELSE rows[e]

\* _one for every event, then the commit.  A conflicting insert of another transaction
\* waits for it, so the inserts of one batch are seen together.
CommitIngest ==
    /\ \E t \in txs :
        /\ txs' = txs \ {t}
        /\ rows' = [e \in Events |-> IF e \in t.view THEN InsertRow(e) ELSE rows[e]]
        /\ Answer(t.no, [kind |-> "results", acked |-> t.view,
                         refused |-> t.events \ t.view])
    /\ UNCHANGED <<generated, promised, edgeTables, session, uploader, posts, wire, world,
                   faults, restarts>>

\* SQLAlchemyError: nothing is kept, 503.
AbortIngest ==
    /\ Fault
    /\ \E t \in txs :
        /\ txs' = txs \ {t}
        /\ Answer(t.no, Decline)
    /\ UNCHANGED <<generated, promised, edgeTables, session, uploader, posts, wire, rows,
                   world, restarts>>

\* Results that leave events out; the uploader handles them, this server never sends them.
TruncateReply ==
    /\ reply.kind = "results"
    /\ Fault
    /\ \E S \in SUBSET batch \ {{}} :
        reply' = [reply EXCEPT !.acked = @ \ S, !.refused = @ \ S]
    /\ UNCHANGED <<generated, promised, edgeTables, session, uploader, posts, wire, server,
                   world, restarts>>

-----------------------------------------------------------------------------
(* What the server's decision depends on and the edge does not control *)

\* The camera is assigned, unassigned or moved, or a portal is redrawn.
Reassign ==
    /\ changes < MaxChanges /\ changes' = changes + 1
    /\ placed' \in SUBSET Portals \ {placed}
    /\ everBarred' = everBarred \cup {e \in 1..generated : PortalOf[e] \notin placed'}
    /\ UNCHANGED <<generated, promised, edgeTables, session, uploader, network, server,
                   outside, faults, restarts>>

\* An event leaves, or enters, the window from 7 days ago to 120 s ahead.
WindowMoves ==
    /\ changes < MaxChanges /\ changes' = changes + 1
    /\ \E e \in 1..generated :
        /\ outside' = IF e \in outside THEN outside \ {e} ELSE outside \cup {e}
        /\ everBarred' = everBarred \cup {e}
    /\ UNCHANGED <<generated, promised, edgeTables, session, uploader, network, server,
                   placed, faults, restarts>>

-----------------------------------------------------------------------------
Init ==
    /\ generated = 0 /\ promised = {}
    /\ outbox = {} /\ waiting = {} /\ solo = {} /\ dead = <<>> /\ evicted = {}
    /\ session = "running"
    /\ pc = "idle" /\ batch = {} /\ answer = NoAnswer
    /\ posts = 0 /\ wire = {} /\ reply = NoReply
    /\ txs = {} /\ rows = [e \in Events |-> 0]
    /\ placed = Portals /\ outside = {} /\ everBarred = {}
    /\ faults = 0 /\ changes = 0 /\ restarts = 0

Deliver == Poll \/ NothingDue \/ Post \/ ReadUnavailable \/ ReadInvalid \/ ReadResults
           \/ Split \/ DeadLetter \/ Remove \/ Defer
Ingest  == RefuseRequest \/ BeginIngest \/ CommitIngest
Trouble == PostFails \/ StorageFault \/ DeclineRequest \/ AbortIngest \/ TruncateReply

Next == Enqueue \/ Deliver \/ Elapse \/ Stop \/ Close \/ Exit \/ Restart \/ Ingest
        \/ Trouble \/ Reassign \/ WindowMoves

Spec == Init /\ [][Next]_vars

\* The uploader's loop never ends while the session runs, the server answers what reaches
\* it, the clock advances, and a process that went down is started again.
Fairness ==
    /\ WF_vars(Deliver) /\ WF_vars(Elapse) /\ WF_vars(Ingest)
    /\ WF_vars(Close) /\ WF_vars(session = "closed" /\ Exit) /\ WF_vars(Restart)

FairSpec == Spec /\ Fairness

-----------------------------------------------------------------------------
(* Properties *)

Request == [no : Nat, events : SUBSET Events]
Tx      == [no : Nat, events : SUBSET Events, view : SUBSET Events]

TablesOK ==
    /\ generated \in 0..MaxEvents
    /\ promised \subseteq 1..generated
    /\ outbox \subseteq promised /\ Cardinality(outbox) <= Capacity
    /\ waiting \subseteq outbox /\ solo \subseteq outbox
    /\ dead \in Seq(Events) /\ Len(dead) <= DeadCapacity
    /\ evicted \subseteq Events

ThreadsOK ==
    /\ session \in {"running", "stopping", "closed", "down"}
    /\ pc \in {"off", "idle", "polling", "posting", "splitting", "settling"}
    /\ batch \subseteq promised
    /\ answer \in [acked : SUBSET batch, refused : SUBSET batch, missing : SUBSET batch]

MessagesOK ==
    /\ posts \in Nat
    /\ wire \subseteq Request /\ txs \subseteq Tx
    /\ reply \in [kind : {"none", "unavailable", "invalid", "results"},
                  acked : SUBSET Events, refused : SUBSET Events]
    /\ rows \in [Events -> Nat]

WorldOK ==
    /\ placed \subseteq Portals /\ outside \subseteq Events /\ everBarred \subseteq Events
    /\ faults \in Nat /\ changes \in Nat /\ restarts \in Nat

\* Shapes and bounds of the tables: the outbox and the dead-letter table never outgrow
\* their capacities, and flags exist for rows only.
TypeOK == TablesOK /\ ThreadsOK /\ MessagesOK /\ WorldOK

\* A persisted event is in the outbox until the control plane has a row for it or has
\* refused it: no crash, late answer, storage fault or closed outbox loses one.
NothingLost == promised \subseteq outbox \cup Stored \cup Dead \cup evicted

\* An event is never queued for delivery and dead-lettered at once.
OneHome == outbox \cap (Dead \cup evicted) = {}

\* One logical event, one row: retries and requests the client gave up on included.
OneRowPerEvent == \A e \in Events : rows[e] <= 1

\* An event of a batch that was refused as malformed never travels with others again, though
\* due() looks only at the flag of the first row.
RefusedTravelsAlone ==
    pc = "posting" => batch \cap solo = {} \/ \E e \in solo : batch = {e}

\* One bad event does not sink the others: what is dead-lettered was itself malformed, or
\* was itself inadmissible at some time while it was queued.
DeadLettersDeserved == Dead \cup evicted \subseteq Malformed \cup everBarred

\* What room_event_outbox.py:8-9 says of the server: any retry of an event it has a row for
\* is answered DUPLICATE, hence such an event is never dead-lettered.
StoredNeverRefused == Stored \cap (Dead \cup evicted) = {}

\* Every persisted event leaves the outbox, stored if nothing was ever wrong with it:
\* no bad or refused event at the head holds up the ones behind it for ever.
EventuallySettled ==
    \A e \in Events :
        e \in promised ~> /\ e \notin outbox
                          /\ e \in Stored \cup Malformed \cup everBarred

\* The abstract promise, and what the tables mean for it.
Delivery == INSTANCE RoomEventDelivery WITH
    recorded     <- Stored,
    acknowledged <- promised \ (outbox \cup Dead \cup evicted),
    refused      <- Dead \cup evicted

DeliverySafe    == Delivery!SafeSpec

-----------------------------------------------------------------------------
(* The inductive invariant behind them *)

Initial(P, S) == P \subseteq S /\ \A e \in P, f \in S : f < e => f \in P

\* Nothing but a persisted event is ever sent or settled, and a request's events stay in
\* the outbox until its answer is worked off.
Traffic ==
    /\ \A r \in wire : r.events \subseteq promised
    /\ \A t \in txs : t.events \subseteq promised /\ t.view \subseteq t.events
    /\ Dead \cup evicted \subseteq promised
    /\ pc # "settling" => answer = NoAnswer
    /\ pc # "posting" => reply = NoReply
    /\ session = "down" => pc = "off"
    /\ pc \in {"posting", "splitting"} => batch \subseteq outbox

\* An answer in flight or in hand is backed by rows the server has committed.
AnswersHold == reply.acked \cup answer.acked \subseteq Stored

\* The request in hand is an initial part of the outbox, and so are the flagged rows.
InOrder ==
    /\ Initial(solo, outbox)
    /\ pc \in {"posting", "splitting"} => Initial(batch, outbox)

\* Every refusal in flight or in hand has a cause in the event itself.
Causes ==
    /\ Barred \cap 1..generated \subseteq everBarred
    /\ \A t \in txs : t.events \ t.view \subseteq everBarred
    /\ pc = "posting" => \A r \in wire : r.no = posts => r.events = batch
    /\ reply.refused \subseteq everBarred
    /\ pc = "posting" /\ reply.kind = "invalid" => batch \cap Malformed # {}
    /\ answer.refused \subseteq Malformed \cup everBarred

Inv ==
    /\ TypeOK /\ Traffic
    /\ AnswersHold /\ NothingLost /\ OneHome /\ OneRowPerEvent
    /\ InOrder /\ RefusedTravelsAlone
    /\ Causes /\ DeadLettersDeserved
=============================================================================
