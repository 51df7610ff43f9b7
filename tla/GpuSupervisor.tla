--------------------------- MODULE GpuSupervisor ----------------------------
(***************************************************************************)
(* GpuWorkerSupervisor (gpu_worker/supervisor.py), the worker process at   *)
(* the other end of its socket (gpu_worker/worker.py), and the EdgeAgent   *)
(* that watches over both (agent.py).  Threads share the socket: one call  *)
(* at a time sends a request and reads whatever answer comes next.  An     *)
(* answer that comes too late is not taken out of the socket.              *)
(***************************************************************************)
EXTENDS Integers, Sequences, FiniteSets

CONSTANTS
    Callers,       \* threads that ask for inferences and for the model's status
    MaxAttempts,   \* RestartPolicy.max_attempts
    MaxRequests    \* bound: request ids drawn

ASSUME GpuSupervisorAssumption ==
    MaxAttempts \in Nat \ {0} /\ MaxRequests \in Nat /\ "agent" \notin Callers

VARIABLES
    state,      \* _state
    process,    \* _process: "none", "alive" or "exited"
    requests,   \* the socket: requests the worker has not read
    answers,    \* the socket: answers nobody has read
    call,       \* the call each thread is in
    lane,       \* who holds _inference_lane
    rpc,        \* who holds _rpc_lock
    attempts,   \* _restart_times within the window
    agent,      \* EdgeAgent: what its task is doing with the worker
    issued,     \* request ids drawn
    givenUp     \* history: calls to this worker whose answer was not waited for

gpuVars == <<state, process, requests, answers, call, lane, rpc, attempts, agent, issued, givenUp>>

Threads == Callers \cup {"agent"}
Idle == [op |-> "none", step |-> "idle", id |-> 0, got |-> 0]

GpuInit ==
    /\ state = "STOPPED" /\ process = "none" /\ requests = <<>> /\ answers = <<>>
    /\ call = [c \in Threads |-> Idle] /\ lane = {} /\ rpc = {}
    /\ attempts = 0 /\ agent = "starting" /\ issued = 0 /\ givenUp = 0

-----------------------------------------------------------------------------
(* _call *)

\* A thread that means to call: its request id is drawn before it has the lock.
Calling(c, op) ==
    /\ issued < MaxRequests /\ issued' = issued + 1
    /\ call' = [call EXCEPT ![c] = [op |-> op, step |-> "queued", id |-> issued', got |-> 0]]

Send(c) ==
    /\ call[c].step = "queued" /\ rpc = {}
    /\ IF process = "alive"
       THEN /\ requests' = Append(requests, [id |-> call[c].id, op |-> call[c].op])
            /\ rpc' = {c} /\ call' = [call EXCEPT ![c].step = "waiting"]
       ELSE call' = [call EXCEPT ![c].step = "failed"] /\ UNCHANGED <<requests, rpc>>
    /\ UNCHANGED <<state, process, answers, lane, attempts, agent, issued, givenUp>>

AnyAnswer(id, answer) == TRUE   \* faulty variant: the next answer is taken for this request's
Accepts(id, answer) == answer = id

\* The answer must carry the request's id, and may be an error all the same.
Receive(c) ==
    /\ call[c].step = "waiting" /\ answers # <<>>
    /\ answers' = Tail(answers) /\ rpc' = {}
    /\ \E outcome \in {"failed"} \cup IF Accepts(call[c].id, Head(answers)) THEN {"accepted"} ELSE {} :
          call' = [call EXCEPT ![c].got = Head(answers), ![c].step = outcome]
    /\ UNCHANGED <<state, process, requests, lane, attempts, agent, issued, givenUp>>

\* No answer in time, or the worker has gone.
GiveUp(c) ==
    /\ call[c].step = "waiting" /\ rpc' = {} /\ givenUp' = givenUp + 1
    /\ call' = [call EXCEPT ![c].step = "failed"]
    /\ UNCHANGED <<state, process, requests, answers, lane, attempts, agent, issued>>

-----------------------------------------------------------------------------
(* infer_tensor; load_model, model_status and unload_model *)

Ready == state = "READY" /\ process # "exited"   \* reading `state' notices that the worker exited

\* A second inference is refused, not queued.
Infer(c) ==
    /\ call[c] = Idle /\ Ready /\ lane = {}
    /\ Calling(c, "INFER_TENSOR") /\ lane' = {c}
    /\ UNCHANGED <<state, process, requests, answers, rpc, attempts, agent, givenUp>>
AskModel(c) ==
    /\ call[c] = Idle /\ Ready /\ Calling(c, "MODEL")
    /\ UNCHANGED <<state, process, requests, answers, lane, rpc, attempts, agent, givenUp>>
NotReady(c) ==
    /\ call[c] = Idle /\ state = "READY" /\ process = "exited" /\ state' = "DEGRADED"
    /\ UNCHANGED <<process, requests, answers, call, lane, rpc, attempts, agent, issued, givenUp>>
Return(c) ==
    /\ c \in Callers /\ call[c].step \in {"accepted", "failed"}
    /\ call' = [call EXCEPT ![c] = Idle] /\ lane' = lane \ {c}
    /\ UNCHANGED <<state, process, requests, answers, rpc, attempts, agent, issued, givenUp>>

-----------------------------------------------------------------------------
(* the worker's serve loop, and its death *)

Answer ==
    /\ process = "alive" /\ requests # <<>>
    /\ requests' = Tail(requests) /\ answers' = Append(answers, Head(requests).id)
    /\ process' = IF Head(requests).op = "SHUTDOWN" THEN "exited" ELSE "alive"
    /\ UNCHANGED <<state, call, lane, rpc, attempts, agent, issued, givenUp>>
WorkerDies ==
    /\ process = "alive" /\ process' = "exited" /\ requests' = <<>>
    /\ UNCHANGED <<state, answers, call, lane, rpc, attempts, agent, issued, givenUp>>

-----------------------------------------------------------------------------
(* start, health, recover and stop, as EdgeAgent calls them *)

\* A new worker has a socket of its own.
Launch ==
    /\ agent = "starting" /\ call["agent"] = Idle /\ process = "none"
    /\ process' = "alive" /\ requests' = <<>> /\ answers' = <<>> /\ givenUp' = 0
    /\ state' = "STARTING" /\ Calling("agent", "HELLO")
    /\ UNCHANGED <<lane, rpc, attempts, agent>>

\* The handshake: the worker's versions and device must be the expected ones too.  An agent whose
\* first start fails, before any restart, never watches the worker.
Connected ==
    /\ call["agent"].op = "HELLO" /\ call["agent"].step \in {"accepted", "failed"}
    /\ call' = [call EXCEPT !["agent"] = Idle]
    /\ \/ /\ call["agent"].step = "accepted" /\ state' = "READY" /\ agent' = "watching"
          /\ UNCHANGED <<process, requests, answers>>
       \/ /\ state' = "FAILED" /\ agent' = IF attempts = 0 THEN "idle" ELSE "watching"
          /\ process' = "none" /\ requests' = <<>> /\ answers' = <<>>
    /\ UNCHANGED <<lane, rpc, attempts, issued, givenUp>>

\* One heartbeat: a supervisor that is not ready fails the check without a call.
CheckHealth ==
    /\ agent = "watching" /\ call["agent"] = Idle
    /\ IF Ready THEN Calling("agent", "HEALTH") /\ UNCHANGED <<state, agent>>
       ELSE /\ agent' = "recovering" /\ UNCHANGED <<call, issued>>
            /\ state' = IF state = "READY" THEN "DEGRADED" ELSE state
    /\ UNCHANGED <<process, requests, answers, lane, rpc, attempts, givenUp>>
Checked ==
    /\ call["agent"].op = "HEALTH" /\ call["agent"].step \in {"accepted", "failed"}
    /\ call' = [call EXCEPT !["agent"] = Idle]
    /\ \/ call["agent"].step = "accepted" /\ UNCHANGED <<state, agent>>
       \/ state' = "DEGRADED" /\ agent' = "recovering"
    /\ UNCHANGED <<process, requests, answers, lane, rpc, attempts, issued, givenUp>>

\* recover: too many restarts within the window open the circuit.
Recover ==
    /\ agent = "recovering" /\ call["agent"] = Idle
    /\ IF attempts < MaxAttempts
       THEN attempts' = attempts + 1 /\ agent' = "stopping" /\ UNCHANGED state
       ELSE state' = "FAILED" /\ agent' = "watching" /\ UNCHANGED attempts
    /\ UNCHANGED <<process, requests, answers, call, lane, rpc, issued, givenUp>>
WindowPasses ==
    /\ attempts > 0 /\ agent = "watching" /\ attempts' = attempts - 1
    /\ UNCHANGED <<state, process, requests, answers, call, lane, rpc, agent, issued, givenUp>>

\* stop: a worker that does not answer SHUTDOWN is terminated; the socket goes with it.
Shutdown ==
    /\ agent \in {"stopping", "ending"} /\ call["agent"] = Idle
    /\ process = "alive" /\ Calling("agent", "SHUTDOWN")
    /\ UNCHANGED <<state, process, requests, answers, lane, rpc, attempts, agent, givenUp>>
Stopped ==
    /\ agent \in {"stopping", "ending"}
    /\ \/ call["agent"].op = "SHUTDOWN" /\ call["agent"].step \in {"accepted", "failed"}
       \/ call["agent"] = Idle /\ process # "alive"
    /\ state' = "STOPPED" /\ process' = "none" /\ requests' = <<>> /\ answers' = <<>>
    /\ call' = [call EXCEPT !["agent"] = Idle]
    /\ agent' = IF agent = "stopping" THEN "starting" ELSE "ended"
    /\ UNCHANGED <<lane, rpc, attempts, issued, givenUp>>

\* request_shutdown, between two heartbeats.
EndAgent ==
    /\ agent \in {"watching", "idle"} /\ call["agent"] = Idle /\ agent' = "ending"
    /\ UNCHANGED <<state, process, requests, answers, call, lane, rpc, attempts, issued, givenUp>>

CallerStep(c) == Infer(c) \/ AskModel(c) \/ NotReady(c) \/ Return(c)
RpcStep(c) == Send(c) \/ Receive(c) \/ GiveUp(c)
AgentStep ==
    Launch \/ Connected \/ CheckHealth \/ Checked \/ Recover \/ Shutdown \/ Stopped
GpuNext ==
    \/ \E c \in Callers : CallerStep(c)
    \/ \E c \in Threads : RpcStep(c)
    \/ Answer \/ WorkerDies \/ AgentStep \/ WindowPasses \/ EndAgent
GpuSpec == GpuInit /\ [][GpuNext]_gpuVars

-----------------------------------------------------------------------------
(* Properties *)

GpuTypeOK ==
    /\ state \in {"STOPPED", "STARTING", "READY", "DEGRADED", "FAILED"}
    /\ process \in {"none", "alive", "exited"} /\ rpc \in SUBSET Threads /\ lane \in SUBSET Callers
    /\ answers \in Seq(1..MaxRequests) /\ attempts \in 0..MaxAttempts
    /\ agent \in {"starting", "watching", "recovering", "stopping", "idle", "ending", "ended"}

\* supervisor.py:248-284, 404-431: a result handed to a caller is the worker's answer to that very
\* request, whatever was given up before; and only calls given up since the worker was started
\* can have left anything in its socket that another call would find.
AnswersMatch ==
    /\ \A c \in Threads : call[c].step = "accepted" => call[c].got = call[c].id
    /\ givenUp = 0 => Len(requests) + Len(answers) <= Cardinality(rpc)
=============================================================================
