--------------------------- MODULE CameraTransport ---------------------------
(***************************************************************************)
(* The live transport of one camera on the edge: the sans-I/O controller   *)
(* (camera_transport/controller.py, state.py, reconnect.py), the runner    *)
(* that carries out its actions (runner.py) and the worker process of each *)
(* media session (worker_backend.py).                                      *)
(*                                                                         *)
(* Sessions are numbered by generation.  At most two exist: the current    *)
(* one and a candidate that is to replace it before its provider lifetime  *)
(* ends.  Acquisitions, worker starts and stops and worker events are all  *)
(* asynchronous, so any of them may speak of a generation long gone.       *)
(*                                                                         *)
(* Time is the set of deadlines that have passed.  Every threshold is      *)
(* configuration, and the loop may be late by any amount, so deadlines     *)
(* pass in any order that the code's own arithmetic does not exclude.      *)
(***************************************************************************)
EXTENDS Integers, FiniteSets

CONSTANTS
    MaxGenerations,  \* session numbers there are (_max_generations)
    MaxAttempts,     \* failures in the window before the circuit opens (max_attempts)
    MaxRenewals      \* renewals tried for one session (max_attempts_per_session)

Generations == 1..MaxGenerations

ASSUME CameraTransportAssumption ==
    /\ MaxGenerations \in Nat \ {0}
    /\ MaxAttempts \in Nat \ {0} /\ MaxRenewals \in Nat \ {0}

VARIABLES
    state,            \* TransportState
    current,          \* the session that carries the stream, or NoSlot
    candidate,        \* its replacement under way, or NoSlot
    generation,       \* last session number given out
    attempts,         \* failures still in the sliding window
    circuitOpen,
    reconnect,        \* reconnect_at: none, waiting, due
    renewalAttempts,
    retryWait,        \* whether renewal_retry_at is still ahead
    since,            \* streaming_since: no, counting, stable
    instance,         \* the timeline's stream instance
    stamped,          \* history: session the last buffer accepted by the timeline came from
    acquiring,        \* generations whose acquisition is under way or queued
    handles,          \* generations the runner holds a backend handle for
    starting,         \* handles whose start() waits for its thread
    stopping,         \* handles whose stop() waits for its thread
    refused,          \* backends told to stop (_stopping)
    procs,            \* generations with a worker process
    emitters,         \* generations whose backend may have an event queued
    tried,            \* history: renewals begun for the current session
    spent             \* history: sessions begun without media within the window

runner  == <<handles, starting, stopping>>
workers == <<refused, procs, emitters>>
budget  == <<attempts, circuitOpen, reconnect, spent>>
renewal == <<renewalAttempts, retryWait, tried>>
stream  == <<instance, stamped>>
vars == <<state, current, candidate, generation, budget, renewal, since, stream,
          acquiring, runner, workers>>

-----------------------------------------------------------------------------
(* Sessions *)

Gaps  == {"fresh", "degraded", "stalled"}                 \* GapClass
Lives == {"endless", "young", "renewable", "expired"}     \* expiry of the descriptor

Slots == [gen : 0..MaxGenerations,
          session : BOOLEAN,     \* descriptor received, backend started
          decoded : BOOLEAN,     \* decoded media seen: progress (require_decode)
          gap : Gaps,            \* time since the last of it
          undecoded : BOOLEAN,   \* decoder_progress_timeout passed since then
          quiet : BOOLEAN,       \* no compressed media for degraded_after
          overdue : BOOLEAN,     \* acquisition or first-media deadline passed
          life : Lives]

NewSlot(g) == [gen |-> g, session |-> FALSE, decoded |-> FALSE, gap |-> "stalled",
               undecoded |-> TRUE, quiet |-> TRUE, overdue |-> FALSE, life |-> "young"]
NoSlot == NewSlot(0)

Anyone(g) == g <= generation   \* faulty variant: events are not matched to a session
Held(g)   == g \in {current.gen, candidate.gen}
Live      == {current, candidate} \ {NoSlot}
Active    == {"STREAMING", "DEGRADED", "RENEWING"}

Backends(S) == {s.gen : s \in {t \in S : t.session}}

Until(gap) ==
    IF gap = "fresh" THEN {"fresh"} ELSE IF gap = "stalled" THEN Gaps ELSE Gaps \ {"stalled"}

\* A batch may carry compressed and decoded samples; one that waited long in the queue
\* brings the last progress forward by less, or not at all.
Batches == [compressed : BOOLEAN, decoded : BOOLEAN]
Seen(s, b, gap, undecoded, quiet) ==
    [s EXCEPT !.decoded = @ \/ b.decoded, !.gap = gap, !.undecoded = undecoded, !.quiet = quiet]
Shortened(seen, gap) == IF seen THEN Until(gap) ELSE {gap}
Lifted(seen, passed) == IF seen THEN {FALSE, passed} ELSE {passed}
Received(s, b) ==
    {Seen(s, b, gap, undecoded, quiet) :
        gap       \in Shortened(b.decoded, s.gap),
        undecoded \in Lifted(b.decoded, s.undecoded),
        quiet     \in Lifted(b.compressed, s.quiet)}

-----------------------------------------------------------------------------
(* What handlers are made of *)

\* _transition: entering a state, and what it does to streaming_since.
Enter(s) ==
    /\ state' = s
    /\ since' = IF s \in {state, "RENEWING"} THEN since
                ELSE IF s # "STREAMING" THEN "no"
                ELSE IF since = "no" THEN "counting" ELSE since

\* The handles the runner hands to a stopping thread.
NoneToStop(S) == {}   \* faulty variant: the handle is dropped, not stopped
ToStop(S)     == S \cap handles

\* StartBackend and StopBackend, as the runner executes them.
RunBackends(start, stop) ==
    /\ handles' = (handles \ stop) \cup start
    /\ starting' = starting \cup start
    /\ stopping' = stopping \cup ToStop(stop)

\* begin_instance
NotBegun(g) == instance   \* faulty variant: the timeline keeps the old instance
Begun(g)    == g

\* accept_decoded refuses a buffer if its session is not the timeline's instance.
Stamp(g, s, b) == stamped' = IF b.decoded /\ s.gen = instance' THEN g ELSE stamped

\* The sessions a failure of the current one ends.
Both        == {current, candidate}

\* What a failure of the current session leaves of the candidate.
LeftBehind == candidate   \* faulty variant: it is retired, and still looked up
Abandoned  == NoSlot

\* The budget of ReconnectBudget.next_delay.
BarelySpent == attempts > MaxAttempts   \* faulty variant
Exhausted   == attempts >= MaxAttempts

\* A session that delivered media and reached its provider lifetime costs nothing.
ExpiryIsFree(category)   == category = "expired"   \* faulty variant
ExpectedExpiry(category) == category = "expired" /\ current.decoded

\* _fail_current
FailCurrent(category) ==
    /\ current' = NoSlot /\ candidate' = Abandoned
    /\ RunBackends({}, Backends(Both))
    /\ renewalAttempts' = 0 /\ retryWait' = FALSE /\ tried' = 0
    /\ UNCHANGED spent
    /\ \/ /\ category = "terminal"
          /\ Enter("FAILED")
          /\ UNCHANGED <<attempts, circuitOpen, reconnect>>
       \/ /\ category # "terminal" /\ ExpectedExpiry(category)
          /\ Enter("RECONNECTING") /\ reconnect' = "due"
          /\ UNCHANGED <<attempts, circuitOpen>>
       \/ /\ category # "terminal" /\ ~ExpectedExpiry(category) /\ Exhausted
          /\ Enter("FAILED") /\ circuitOpen' = TRUE
          /\ UNCHANGED <<attempts, reconnect>>
       \/ /\ category # "terminal" /\ ~ExpectedExpiry(category) /\ ~Exhausted
          /\ Enter("RECONNECTING") /\ reconnect' = "waiting"
          /\ attempts' = attempts + 1
          /\ UNCHANGED circuitOpen

\* The state a failed renewal falls back to.
StillRenewing == state   \* faulty variant
Fallback      == IF current.gap = "fresh" THEN "STREAMING" ELSE "DEGRADED"

\* _renewal_failed
RenewalFails(category) ==
    /\ candidate' = NoSlot
    /\ RunBackends({}, Backends({candidate}))
    /\ retryWait' = TRUE
    /\ renewalAttempts' = IF category = "terminal" THEN MaxRenewals ELSE renewalAttempts
    /\ Enter(Fallback)
    /\ UNCHANGED <<current, budget, tried>>

\* _fail_slot
FailSlot(g, category) ==
    IF g = candidate.gen THEN RenewalFails(category) ELSE FailCurrent(category)

NothingHappens == UNCHANGED <<state, current, candidate, budget, renewal, since, runner>>

-----------------------------------------------------------------------------
(* Lifecycle *)

Start ==
    /\ state = "STOPPED" /\ generation < MaxGenerations
    /\ Enter("CONNECTING")
    /\ generation' = generation + 1
    /\ current' = NewSlot(generation')
    /\ acquiring' = acquiring \cup {generation'}
    /\ circuitOpen' = FALSE /\ spent' = 1
    /\ UNCHANGED <<candidate, attempts, reconnect, renewal, stream, runner, workers>>

\* stop(): the renewal bookkeeping is left as it is.
StopController ==
    /\ Enter("STOPPED")
    /\ current' = NoSlot /\ candidate' = NoSlot
    /\ RunBackends({}, Backends(Both))
    /\ reconnect' = "none" /\ tried' = 0 /\ spent' = 0
    /\ UNCHANGED <<generation, retryWait, stream, acquiring, workers>>

Stop ==
    /\ state # "STOPPED" /\ StopController
    /\ UNCHANGED <<renewalAttempts, attempts, circuitOpen>>

\* reset()
Reset ==
    /\ state # "STOPPED" /\ StopController
    /\ attempts' = 0 /\ circuitOpen' = FALSE
    /\ UNCHANGED renewalAttempts

-----------------------------------------------------------------------------
(* Acquisition *)

\* A descriptor arrives: the backend starts, and the timeline turns to a current session.
Descriptor(s, life) == [s EXCEPT !.session = TRUE, !.overdue = FALSE, !.life = life]

Accept(g, life) ==
    /\ IF g = current.gen
       THEN current' = Descriptor(current, life) /\ instance' = Begun(g) /\ UNCHANGED candidate
       ELSE candidate' = Descriptor(candidate, life) /\ UNCHANGED <<current, instance>>
    /\ RunBackends({g}, {})
    /\ UNCHANGED <<state, budget, renewal, since, stamped>>

\* on_session_acquired; an abandoned acquisition's lease is dropped.
Acquired ==
    /\ \E g \in acquiring :
        /\ acquiring' = acquiring \ {g}
        /\ \/ ~Held(g) /\ NothingHappens /\ UNCHANGED stream
           \/ Held(g) /\ \E life \in {"endless", "young"} : Accept(g, life)
           \/ Held(g) /\ FailSlot(g, "expired") /\ UNCHANGED stream
    /\ UNCHANGED <<generation, workers>>

\* on_session_failed: the provider's refusal or timeout, or a descriptor for someone else.
AcquireFails ==
    /\ \E g \in acquiring, category \in {"terminal", "retryable"} :
        /\ acquiring' = acquiring \ {g}
        /\ IF Held(g) THEN FailSlot(g, category) ELSE NothingHappens
    /\ UNCHANGED <<generation, stream, workers>>

-----------------------------------------------------------------------------
(* Worker events *)

\* _handoff: the replacement's first progress switches the stream and stops the old worker.
Handoff(s) ==
    /\ current' = s /\ candidate' = NoSlot
    /\ RunBackends({}, Backends({current}))
    /\ renewalAttempts' = 0 /\ retryWait' = FALSE /\ tried' = 0
    /\ instance' = Begun(s.gen)
    /\ Enter("STREAMING")
    /\ spent' = 0

\* _on_media for the candidate.
CandidateMedia(g, b) ==
    \E s \in Received(candidate, b) :
        /\ IF s.decoded
           THEN Handoff(s) /\ Stamp(g, s, b)
           ELSE /\ candidate' = s
                /\ UNCHANGED <<state, current, since, spent, renewal, stream, runner>>
        /\ UNCHANGED <<attempts, circuitOpen, reconnect>>

\* _on_media for the current session: media alone makes a stream.
CurrentMedia(g, b) ==
    \E s \in Received(current, b) :
        LET first == s.decoded /\ ~current.decoded
        IN  /\ current' = s
            /\ UNCHANGED instance
            /\ Stamp(g, s, b)
            /\ spent' = IF first THEN 0 ELSE spent
            /\ IF \/ first /\ state = "CONNECTING"
                  \/ ~first /\ state = "DEGRADED" /\ b.decoded
               THEN Enter("STREAMING")
               ELSE UNCHANGED <<state, since>>
            /\ UNCHANGED <<candidate, attempts, circuitOpen, reconnect, renewal, runner>>

\* MediaBatch; a batch of any other generation is counted as stale and dropped.
Media ==
    /\ \E g \in emitters, b \in Batches :
        IF ~Held(g) THEN NothingHappens /\ UNCHANGED stream
        ELSE IF g = candidate.gen THEN CandidateMedia(g, b) ELSE CurrentMedia(g, b)
    /\ UNCHANGED <<generation, acquiring, workers>>

\* BackendFailed, BackendExited and EndOfStream; the end of a stream is an expiry if it comes
\* within the grace period before the session's end, and a failure otherwise.
BackendEnds ==
    /\ \E g \in emitters, category \in {"terminal", "retryable", "expired"} :
        LET s == IF g = candidate.gen THEN candidate ELSE current
        IN  IF Held(g)
            THEN (category = "expired" => s.life # "endless") /\ FailSlot(g, category)
            ELSE NothingHappens
    /\ UNCHANGED <<generation, stream, acquiring, workers>>

-----------------------------------------------------------------------------
(* tick(), one action per way through it *)

TickReconnects ==
    /\ state = "RECONNECTING" /\ reconnect = "due" /\ generation < MaxGenerations
    /\ reconnect' = "none"
    /\ Enter("CONNECTING")
    /\ generation' = generation + 1
    /\ current' = NewSlot(generation')
    /\ acquiring' = acquiring \cup {generation'}
    /\ spent' = spent + 1
    /\ UNCHANGED <<candidate, attempts, circuitOpen, renewal, stream, runner, workers>>

Running == state \in Active \cup {"CONNECTING"}

\* The provider has had acquire_timeout_seconds.
NeverLate   == FALSE   \* faulty variant
AcquireLate == ~current.session /\ current.overdue

TickAcquireTimeout ==
    /\ Running /\ AcquireLate
    /\ FailCurrent("retryable")
    /\ UNCHANGED <<generation, stream, acquiring, workers>>

\* _on_current_expired: an acquired replacement is promoted although it has no media yet.
Promote ==
    /\ \E overdue \in {FALSE, candidate.overdue} :
        current' = [candidate EXCEPT !.overdue = overdue]
    /\ candidate' = NoSlot
    /\ RunBackends({}, Backends({current}))
    /\ renewalAttempts' = 0 /\ tried' = 0
    /\ instance' = Begun(candidate.gen)
    /\ Enter("CONNECTING")
    /\ spent' = 1
    /\ UNCHANGED <<retryWait, attempts, circuitOpen, reconnect, stamped>>

TickExpired ==
    /\ Running /\ current.session /\ current.life = "expired"
    /\ IF candidate.session THEN Promote ELSE FailCurrent("expired") /\ UNCHANGED stream
    /\ UNCHANGED <<generation, acquiring, workers>>

Unexpired == current.session /\ current.life # "expired"

TickFirstMediaTimeout ==
    /\ state = "CONNECTING" /\ Unexpired /\ current.overdue /\ ~current.decoded
    /\ FailCurrent("retryable")
    /\ UNCHANGED <<generation, stream, acquiring, workers>>

\* DECODER_FAILED: compressed media keeps coming but nothing is decoded.
DecoderFailed == ~current.quiet /\ current.undecoded

TickStalled ==
    /\ state \in Active /\ Unexpired
    /\ DecoderFailed \/ current.gap = "stalled"
    /\ FailCurrent("retryable")
    /\ UNCHANGED <<generation, stream, acquiring, workers>>

\* The rest of a tick on a stream that is not given up: degrade it, forgive old failures after
\* stable streaming, and see to the renewal.
Degraded == state = "STREAMING" /\ current.gap = "degraded"
Forgiven == IF since = "stable" /\ ~Degraded THEN 0 ELSE attempts

Steady == state \in Active /\ Unexpired /\ ~DecoderFailed /\ current.gap # "stalled"

RenewalDue ==
    /\ candidate = NoSlot /\ current.life = "renewable"
    /\ renewalAttempts < MaxRenewals /\ ~retryWait
    /\ state \in {"STREAMING", "DEGRADED"}

\* Whether a renewal counts.
Uncounted == renewalAttempts   \* faulty variant
Counted   == renewalAttempts + 1

TickRenews ==
    /\ Steady /\ RenewalDue /\ generation < MaxGenerations
    /\ renewalAttempts' = Counted /\ tried' = tried + 1
    /\ generation' = generation + 1
    /\ candidate' = NewSlot(generation')
    /\ acquiring' = acquiring \cup {generation'}
    /\ state' = "RENEWING"
    /\ since' = IF Degraded THEN "no" ELSE since
    /\ attempts' = Forgiven
    /\ UNCHANGED <<current, circuitOpen, reconnect, spent, retryWait, stream, runner, workers>>

\* A candidate whose acquisition or first media is late.
CandidateLate == candidate.overdue /\ ~candidate.decoded

TickRenewalTimeout ==
    /\ Steady /\ candidate # NoSlot /\ CandidateLate
    /\ candidate' = NoSlot
    /\ RunBackends({}, Backends({candidate}))
    /\ retryWait' = TRUE
    /\ Enter(Fallback)
    /\ attempts' = Forgiven
    /\ UNCHANGED <<current, circuitOpen, reconnect, spent, renewalAttempts, tried, generation,
                   stream, acquiring, workers>>

TickSteady ==
    /\ Steady /\ ~RenewalDue /\ ~(candidate # NoSlot /\ CandidateLate)
    /\ IF Degraded THEN Enter("DEGRADED") ELSE UNCHANGED <<state, since>>
    /\ attempts' = Forgiven
    /\ UNCHANGED <<current, candidate, generation, circuitOpen, reconnect, spent, renewal, stream,
                   acquiring, runner, workers>>

\* _new_slot has no number left: the exception ends the runner's loop, which stops everything.
TickOutOfNumbers ==
    /\ generation = MaxGenerations
    /\ \/ state = "RECONNECTING" /\ reconnect = "due"
          /\ UNCHANGED <<attempts, renewalAttempts>>
       \/ Steady /\ RenewalDue
          /\ attempts' = Forgiven /\ renewalAttempts' = Counted
    /\ StopController
    /\ UNCHANGED circuitOpen

Tick == TickReconnects \/ TickAcquireTimeout \/ TickExpired \/ TickFirstMediaTimeout
        \/ TickStalled \/ TickRenews \/ TickRenewalTimeout \/ TickSteady
        \/ TickOutOfNumbers

-----------------------------------------------------------------------------
(* The threads of the backends *)

\* WorkerMediaBackend.start: nothing happens if stop() came first; otherwise a process is
\* up and talking, or has failed, which is reported like any of its events.
StartWorker ==
    /\ \E g \in starting :
        /\ starting' = starting \ {g}
        /\ IF g \in refused
           THEN UNCHANGED <<procs, emitters>>
           ELSE procs' \in {procs, procs \cup {g}} /\ emitters' = emitters \cup {g}
    /\ UNCHANGED <<state, current, candidate, generation, budget, renewal, since, stream,
                   acquiring, handles, stopping, refused>>

\* WorkerMediaBackend.stop: STOP, wait, kill, reap.
StopWorker ==
    /\ \E g \in stopping :
        /\ stopping' = stopping \ {g}
        /\ refused' = refused \cup {g}
        /\ procs' = procs \ {g}
    /\ UNCHANGED <<state, current, candidate, generation, budget, renewal, since, stream,
                   acquiring, handles, starting, emitters>>

\* A worker dies by itself; its socket closes, and that is queued as an event.
WorkerDies ==
    /\ \E g \in procs : procs' = procs \ {g}
    /\ UNCHANGED <<state, current, candidate, generation, budget, renewal, since, stream,
                   acquiring, runner, refused, emitters>>

-----------------------------------------------------------------------------
(* Deadlines *)

Elapse(which) ==
    /\ \/ which = "current" /\ UNCHANGED candidate
       \/ which = "candidate" /\ UNCHANGED current
    /\ UNCHANGED <<state, generation, budget, renewal, since, stream, acquiring, runner, workers>>

\* An acquisition or a first media is late.
Deadline ==
    \/ /\ current # NoSlot /\ ~current.decoded
       /\ current' = [current EXCEPT !.overdue = TRUE]
       /\ Elapse("current")
    \/ /\ candidate # NoSlot
       /\ candidate' = [candidate EXCEPT !.overdue = TRUE]
       /\ Elapse("candidate")

\* Nothing decoded for longer.
GapGrows ==
    /\ current.decoded
    /\ \/ current.gap = "fresh" /\ current' = [current EXCEPT !.gap = "degraded"]
       \/ current.gap = "degraded" /\ current' = [current EXCEPT !.gap = "stalled"]
       \/ current' = [current EXCEPT !.undecoded = TRUE]
    /\ Elapse("current")

\* No compressed media for degraded_after.
GoesQuiet ==
    /\ current.decoded
    /\ current' = [current EXCEPT !.quiet = TRUE]
    /\ Elapse("current")

Older(life) == IF life = "young" THEN {"renewable", "expired"}
               ELSE IF life = "renewable" THEN {"expired"} ELSE {}

\* renew_after and the end of a session's life.
LifePasses ==
    \/ /\ current.session
       /\ \E life \in Older(current.life) : current' = [current EXCEPT !.life = life]
       /\ Elapse("current")
    \/ /\ candidate.session
       /\ \E life \in Older(candidate.life) : candidate' = [candidate EXCEPT !.life = life]
       /\ Elapse("candidate")

Wait ==
    \/ /\ reconnect = "waiting" /\ reconnect' = "due"
       /\ UNCHANGED <<attempts, spent, retryWait, since>>
    \/ /\ retryWait /\ retryWait' = FALSE
       /\ UNCHANGED <<attempts, spent, reconnect, since>>
    \/ /\ since = "counting" /\ since' = "stable"
       /\ UNCHANGED <<attempts, spent, reconnect, retryWait>>

\* The oldest failure slides out of the window.
WindowSlides ==
    /\ attempts > 0 /\ attempts' = attempts - 1
    /\ spent' = IF spent > 0 THEN spent - 1 ELSE 0
    /\ UNCHANGED <<reconnect, retryWait, since>>

TimersPass ==
    /\ Wait \/ WindowSlides
    /\ UNCHANGED <<state, current, candidate, generation, circuitOpen, renewalAttempts, tried,
                   stream, acquiring, runner, workers>>

-----------------------------------------------------------------------------
Init ==
    /\ state = "STOPPED" /\ current = NoSlot /\ candidate = NoSlot /\ generation = 0
    /\ attempts = 0 /\ circuitOpen = FALSE /\ reconnect = "none"
    /\ renewalAttempts = 0 /\ retryWait = FALSE /\ since = "no"
    /\ instance = 0 /\ stamped = 0
    /\ acquiring = {} /\ handles = {} /\ starting = {} /\ stopping = {}
    /\ refused = {} /\ procs = {} /\ emitters = {}
    /\ tried = 0 /\ spent = 0

Events  == Acquired \/ AcquireFails \/ Media \/ BackendEnds
Threads == StartWorker \/ StopWorker \/ WorkerDies
Time    == Deadline \/ GapGrows \/ GoesQuiet \/ LifePasses \/ TimersPass

Next == Start \/ Stop \/ Reset \/ Events \/ Tick \/ Threads \/ Time

Spec == Init /\ [][Next]_vars

\* The runner ticks, deadlines pass, and the threads of the pool run.
Fairness ==
    /\ WF_vars(Tick) /\ WF_vars(StartWorker) /\ WF_vars(StopWorker)
    /\ WF_vars(Deadline) /\ WF_vars(GapGrows) /\ WF_vars(LifePasses) /\ WF_vars(TimersPass)

FairSpec == Spec /\ Fairness

-----------------------------------------------------------------------------
(* Properties *)

TransportStates ==
    {"STOPPED", "CONNECTING", "STREAMING", "DEGRADED", "RENEWING", "RECONNECTING", "FAILED"}

ControlOK ==
    /\ state \in TransportStates
    /\ current \in Slots /\ candidate \in Slots
    /\ generation \in 0..MaxGenerations
    /\ reconnect \in {"none", "waiting", "due"}
    /\ since \in {"no", "counting", "stable"}
    /\ instance \in 0..MaxGenerations /\ stamped \in 0..MaxGenerations

BudgetsOK ==
    /\ attempts \in 0..MaxAttempts /\ circuitOpen \in BOOLEAN
    /\ renewalAttempts \in 0..MaxRenewals /\ retryWait \in BOOLEAN
    /\ tried \in Nat /\ spent \in Nat

ThreadsOK ==
    /\ acquiring \subseteq Generations /\ handles \subseteq Generations
    /\ starting \subseteq Generations /\ stopping \subseteq Generations
    /\ refused \subseteq Generations /\ procs \subseteq Generations
    /\ emitters \subseteq Generations

\* Shapes and bounds; the failure budget and the renewals never exceed their limits.
TypeOK == ControlOK /\ BudgetsOK /\ ThreadsOK

\* The state and the two sessions say the same: a replacement exists while renewing and only
\* then, and a stream is active only with a session that has decoded something (the assertion
\* in tick()).
StateMatchesSessions ==
    /\ current # NoSlot <=> state \in Active \cup {"CONNECTING"}
    /\ candidate # NoSlot <=> state = "RENEWING"
    /\ state \in Active <=> current.decoded
    /\ ~candidate.decoded
    /\ reconnect # "none" <=> state = "RECONNECTING"

\* ALLOWED_TRANSITIONS: any other step raises and takes the transport down.
Allowed(s) ==
    CASE s = "STOPPED"      -> {"CONNECTING"}
      [] s = "CONNECTING"   -> {"STREAMING", "RECONNECTING", "FAILED", "STOPPED"}
      [] s = "STREAMING"    -> {"DEGRADED", "RENEWING", "RECONNECTING", "FAILED", "STOPPED"}
      [] s = "DEGRADED"     -> {"STREAMING", "RENEWING", "RECONNECTING", "FAILED", "STOPPED"}
      [] s = "RENEWING"     -> {"STREAMING", "DEGRADED", "CONNECTING", "RECONNECTING", "FAILED",
                                "STOPPED"}
      [] s = "RECONNECTING" -> {"CONNECTING", "FAILED", "STOPPED"}
      [] s = "FAILED"       -> {"STOPPED"}

\* No order of late answers, worker events and deadlines makes the controller attempt a
\* transition its own table forbids.
LegalTransitions == [][state' = state \/ state' \in Allowed(state)]_vars

\* Every worker process belongs to a session the controller knows, or its stop is under way:
\* no interleaving of acquisition, start, stop and failure leaves one behind.
NoOrphanWorkers ==
    /\ handles = Backends(Live)
    /\ starting \subseteq handles \cup stopping \cup refused
    /\ procs \subseteq handles \cup stopping

\* The timeline follows the current session, so none of its buffers are dropped as stale and
\* none of another session's are accepted; instances only ever increase (begin_instance raises
\* otherwise).
TimelineFollows ==
    /\ current.session => instance = current.gen
    /\ instance <= generation

\* A buffer of an older session is never accepted after one of a newer session.
StaleMediaRejected == [][instance' >= instance /\ stamped' >= stamped]_vars

\* A camera that never delivers media costs at most one session more than the failures the
\* circuit breaker allows in its window, expiries and promoted replacements included.
HopelessSessionsBounded == spent <= attempts + 1

\* No session is renewed more often than allowed.
RenewalsBounded == tried <= renewalAttempts

\* ADR 0013: a session that reaches renew_after has a replacement acquired, up to the limit of
\* attempts for that session.
RenewalsOfOwnSession == state \in Active /\ tried = 0 => renewalAttempts = 0

\* The transport never stays where something is still to be decided.
Decided ==
    \A s \in {"CONNECTING", "DEGRADED", "RENEWING", "RECONNECTING"} : state = s ~> state # s

\* Worker processes of sessions that are over end.
WorkersReleased == \A g \in Generations : g \in procs \ handles ~> g \notin procs

-----------------------------------------------------------------------------
(* The inductive invariant behind them *)

\* Sessions are numbered in the order they were begun.
SlotsOK ==
    /\ current.gen = 0 => current = NoSlot
    /\ candidate.gen = 0 => candidate = NoSlot
    /\ current.gen <= generation /\ candidate.gen <= generation
    /\ candidate # NoSlot => current.gen < candidate.gen

\* Who may still report, and that a session is acquired once and has a backend from then on.
Reporters ==
    /\ acquiring \cup starting \cup stopping \cup emitters \subseteq 1..generation
    /\ \A s \in {current, candidate} : s.gen \in acquiring => ~s.session
    /\ \A s \in {current, candidate} : s.gen \in starting \cup emitters => s.session
    /\ current.decoded => current.session

\* The timeline never runs ahead of the session it follows, nor its buffers of it.
Timeline ==
    /\ TimelineFollows
    /\ current # NoSlot /\ ~current.session => instance < current.gen
    /\ stamped <= instance

\* Sessions without media are paid for by failures, but for the one that is under way.
Paid ==
    /\ HopelessSessionsBounded
    /\ current.decoded => spent = 0
    /\ state = "RECONNECTING" => spent <= attempts

Inv ==
    /\ TypeOK /\ SlotsOK /\ StateMatchesSessions
    /\ Reporters /\ NoOrphanWorkers /\ Timeline
    /\ Paid /\ RenewalsBounded
=============================================================================
