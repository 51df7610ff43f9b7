------------------------ MODULE CameraTransportProofs ------------------------
(* Theorems about CameraTransport for every value of its constants. *)
EXTENDS CameraTransport, TLAPS

-----------------------------------------------------------------------------
(* Sessions: what the state, the two slots and the budgets say of each other *)

Sessions == TypeOK /\ SlotsOK /\ StateMatchesSessions

\* The part of a step that a failing session leaves to its caller.
Leaves == UNCHANGED <<generation, stream, workers>> /\ acquiring' \subseteq acquiring

\* A slot that was never filled holds nothing.
LEMMA Nothing == /\ NoSlot \in Slots /\ NoSlot.gen = 0
                 /\ ~NoSlot.session /\ ~NoSlot.decoded
BY CameraTransportAssumption DEF NoSlot, NewSlot, Slots, Gaps, Lives

\* A step that hands out starts and stops of backends keeps the runner's sets in range.
LEMMA RunBackendsThreads ==
    ASSUME ThreadsOK, NEW start \in SUBSET Generations, NEW stop, RunBackends(start, stop),
           acquiring' \subseteq acquiring, UNCHANGED workers
    PROVE  ThreadsOK'
BY DEF ThreadsOK, RunBackends, ToStop, workers

\* _fail_current ends both sessions and settles the state in each of its four ways.
LEMMA FailCurrentSessions ==
    ASSUME Sessions, NEW category, FailCurrent(category), Leaves,
           state \in Active \cup {"CONNECTING"}
    PROVE  Sessions'
<1>1. /\ current' = NoSlot /\ candidate' = NoSlot
      /\ state' \in {"FAILED", "RECONNECTING"}
      /\ reconnect' # "none" <=> state' = "RECONNECTING"
  BY DEF FailCurrent, Abandoned, Enter, Sessions, StateMatchesSessions, Active
<1>2. ControlOK'
  <2>1. reconnect' \in {"none", "waiting", "due"} /\ since' \in {"no", "counting", "stable"}
    BY DEF Sessions, TypeOK, ControlOK, FailCurrent, Enter
  <2> QED BY Nothing, <1>1, <2>1 DEF Sessions, TypeOK, ControlOK, Leaves, stream, TransportStates
<1>3. BudgetsOK'
  <2>1. attempts' \in 0..MaxAttempts
    <3>1. attempts \in 0..MaxAttempts /\ MaxAttempts \in Nat
      BY CameraTransportAssumption DEF Sessions, TypeOK, BudgetsOK
    <3>2. attempts' = attempts \/ (attempts' = attempts + 1 /\ ~(attempts >= MaxAttempts))
      BY DEF FailCurrent, Exhausted
    <3> QED BY <3>1, <3>2
  <2>2. circuitOpen' \in BOOLEAN
    <3>1. circuitOpen' \in {circuitOpen, TRUE}
      BY Zenon DEF FailCurrent
    <3> QED BY <3>1 DEF Sessions, TypeOK, BudgetsOK
  <2>3. renewalAttempts' = 0 /\ tried' = 0 /\ UNCHANGED spent
    BY DEF FailCurrent, Leaves
  <2>4. retryWait' \in BOOLEAN
    BY DEF FailCurrent
  <2> QED BY CameraTransportAssumption, <2>1, <2>2, <2>3, <2>4 DEF Sessions, TypeOK, BudgetsOK
<1>4. ThreadsOK'
  BY RunBackendsThreads DEF FailCurrent, Leaves, Sessions, TypeOK
<1>5. SlotsOK'
  BY Nothing, <1>1 DEF Sessions, SlotsOK, TypeOK, ControlOK, Leaves
<1>6. StateMatchesSessions'
  BY Nothing, <1>1 DEF StateMatchesSessions, Active
<1> QED BY <1>2, <1>3, <1>4, <1>5, <1>6 DEF Sessions, TypeOK

\* _renewal_failed goes back to the current session alone.
LEMMA RenewalFailsSessions ==
    ASSUME Sessions, NEW category, RenewalFails(category), Leaves, candidate # NoSlot
    PROVE  Sessions'
<1>1. /\ candidate' = NoSlot
      /\ state' \in {"STREAMING", "DEGRADED"}
      /\ UNCHANGED <<current, attempts, circuitOpen, reconnect, spent, tried>>
  BY DEF RenewalFails, Enter, Fallback, budget
<1>2. ControlOK'
  <2>1. since' \in {"no", "counting", "stable"}
    BY DEF Sessions, TypeOK, ControlOK, RenewalFails, Enter
  <2> QED BY Nothing, <1>1, <2>1 DEF Sessions, TypeOK, ControlOK, Leaves, stream, TransportStates
<1>3. BudgetsOK'
  <2>1. renewalAttempts' \in {renewalAttempts, MaxRenewals} /\ retryWait' = TRUE
    BY DEF RenewalFails
  <2> QED BY CameraTransportAssumption, <1>1, <2>1 DEF Sessions, TypeOK, BudgetsOK, Leaves
<1>4. ThreadsOK'
  BY RunBackendsThreads DEF RenewalFails, Leaves, Sessions, TypeOK
<1>5. SlotsOK'
  BY Nothing, <1>1 DEF Sessions, SlotsOK, TypeOK, ControlOK, Leaves
<1>6. StateMatchesSessions'
  BY Nothing, <1>1 DEF StateMatchesSessions, Active, Sessions
<1> QED BY <1>2, <1>3, <1>4, <1>5, <1>6 DEF Sessions, TypeOK

\* Whichever of the two sessions fails, the result is one of the two above.
LEMMA FailSlotSessions ==
    ASSUME Sessions, NEW g \in Generations, NEW category, Held(g), FailSlot(g, category), Leaves
    PROVE  Sessions'
<1>1. g # 0 /\ g \in {current.gen, candidate.gen}
  BY CameraTransportAssumption DEF Generations, Held
<1>2. CASE g = candidate.gen
  <2>1. candidate # NoSlot
    BY <1>1, <1>2, Nothing
  <2> QED BY <1>2, <2>1, RenewalFailsSessions DEF FailSlot
<1>3. CASE g # candidate.gen
  <2>1. current # NoSlot
    BY <1>1, <1>3, Nothing
  <2>2. state \in Active \cup {"CONNECTING"}
    BY <2>1 DEF Sessions, StateMatchesSessions
  <2> QED BY <1>3, <2>2, FailCurrentSessions DEF FailSlot
<1> QED BY <1>2, <1>3

\* stop() and reset() leave nothing but the numbering and what still runs.
LEMMA StopControllerSessions ==
    ASSUME Sessions, StopController, attempts' \in 0..MaxAttempts, circuitOpen' \in BOOLEAN,
           renewalAttempts' \in 0..MaxRenewals
    PROVE  Sessions'
<1>1. /\ current' = NoSlot /\ candidate' = NoSlot /\ state' = "STOPPED"
      /\ reconnect' = "none" /\ tried' = 0 /\ spent' = 0
      /\ UNCHANGED <<generation, retryWait, instance, stamped, acquiring>>
  BY DEF StopController, Enter, stream
<1>2. ControlOK'
  <2>1. since' \in {"no", "counting", "stable"}
    BY DEF Sessions, TypeOK, ControlOK, StopController, Enter
  <2> QED BY Nothing, <1>1, <2>1 DEF Sessions, TypeOK, ControlOK, TransportStates
<1>3. BudgetsOK'
  BY <1>1 DEF Sessions, TypeOK, BudgetsOK
<1>4. ThreadsOK'
  BY RunBackendsThreads DEF StopController, Sessions, TypeOK
<1>5. SlotsOK'
  BY Nothing, <1>1 DEF Sessions, SlotsOK, TypeOK, ControlOK
<1>6. StateMatchesSessions'
  BY Nothing, <1>1 DEF StateMatchesSessions, Active
<1> QED BY <1>2, <1>3, <1>4, <1>5, <1>6 DEF Sessions, TypeOK

\* LifePasses: the slot whose session grows older is not the empty one, and only its life changes.
LEMMA OlderSlot ==
  ASSUME NEW s \in Slots, s.session, NEW life \in Older(s.life)
  PROVE  /\ [s EXCEPT !.life = life] \in Slots
         /\ [s EXCEPT !.life = life].gen = s.gen
         /\ [s EXCEPT !.life = life].decoded = s.decoded
         /\ s # NoSlot
<1>1. life \in Lives
  BY DEF Older, Lives
<1>2. s # NoSlot
  BY DEF NoSlot, NewSlot
<1> QED BY <1>1, <1>2 DEF Slots

\* A session that only grows older, or takes in media that changes nothing else.
LEMMA AgeingSessions ==
    ASSUME Sessions, current' \in Slots, candidate' \in Slots,
           current'.gen = current.gen, candidate'.gen = candidate.gen,
           current'.decoded = current.decoded, candidate'.decoded = candidate.decoded,
           current = NoSlot => current' = NoSlot, candidate = NoSlot => candidate' = NoSlot,
           UNCHANGED <<state, generation, reconnect, since>>, instance' \in 0..MaxGenerations,
           stamped' \in 0..MaxGenerations, BudgetsOK', ThreadsOK'
    PROVE  Sessions'
<1>1. ControlOK'
  BY DEF Sessions, TypeOK, ControlOK
<1>2. /\ current' = NoSlot <=> current = NoSlot
      /\ candidate' = NoSlot <=> candidate = NoSlot
  BY Nothing DEF Sessions, SlotsOK
<1>3. SlotsOK'
  BY <1>2, Nothing DEF Sessions, SlotsOK
<1>4. StateMatchesSessions'
  BY <1>2 DEF Sessions, StateMatchesSessions, Active
<1> QED BY <1>1, <1>3, <1>4 DEF Sessions, TypeOK

\* A slot begins with its number and nothing else.
LEMMA FreshSlot ==
    ASSUME NEW g \in Generations
    PROVE  /\ NewSlot(g) \in Slots /\ NewSlot(g).gen = g /\ NewSlot(g) # NoSlot
           /\ ~NewSlot(g).session /\ ~NewSlot(g).decoded
BY CameraTransportAssumption DEF NewSlot, NoSlot, Slots, Gaps, Lives, Generations

\* start() and a reconnect begin a session where there is none.
LEMMA ConnectingSessions ==
    ASSUME Sessions, state \in {"STOPPED", "RECONNECTING"}, generation < MaxGenerations,
           Enter("CONNECTING"), generation' = generation + 1, current' = NewSlot(generation'),
           acquiring' = acquiring \cup {generation'}, reconnect' = "none",
           BudgetsOK', UNCHANGED <<candidate, stream, runner, workers>>
    PROVE  Sessions'
<1>1. ControlOK /\ ThreadsOK /\ SlotsOK /\ StateMatchesSessions
  BY DEF Sessions, TypeOK
<1>2. generation' \in Generations
  BY <1>1, CameraTransportAssumption DEF ControlOK, Generations
<1>3. /\ current' \in Slots /\ current'.gen = generation' /\ current' # NoSlot
      /\ ~current'.decoded
  BY <1>2, FreshSlot
<1>4. candidate = NoSlot /\ candidate' = NoSlot /\ state' = "CONNECTING"
      /\ since' \in {since, "no"}
  BY <1>1 DEF StateMatchesSessions, Enter
<1>5. ControlOK'
  BY <1>1, <1>2, <1>3, <1>4, CameraTransportAssumption DEF ControlOK, TransportStates, Generations, stream
<1>6. ThreadsOK'
  BY <1>1, <1>2 DEF ThreadsOK, runner, workers
<1>7. SlotsOK'
  BY <1>2, <1>3, <1>4, Nothing DEF SlotsOK, Generations
<1>8. StateMatchesSessions'
  BY <1>3, <1>4, Nothing DEF StateMatchesSessions, Active
<1> QED BY <1>5, <1>6, <1>7, <1>8 DEF Sessions, TypeOK

\* Media changes nothing of a slot but what it has seen.
LEMMA ReceivedSlot ==
    ASSUME NEW s \in Slots, NEW b \in Batches, NEW r \in Received(s, b)
    PROVE  /\ r \in Slots /\ r.gen = s.gen /\ r.session = s.session
           /\ r.decoded = (s.decoded \/ b.decoded)
<1>1. PICK gap \in Shortened(b.decoded, s.gap), undecoded \in Lifted(b.decoded, s.undecoded),
           quiet \in Lifted(b.compressed, s.quiet) :
        r = Seen(s, b, gap, undecoded, quiet)
  BY DEF Received
<1>3. gap \in Gaps /\ undecoded \in BOOLEAN /\ quiet \in BOOLEAN
  BY DEF Shortened, Lifted, Until, Gaps, Slots, Batches
<1>2. b.decoded \in BOOLEAN /\ s.decoded \in BOOLEAN
  BY DEF Batches, Slots
<1> QED BY ZenonT(30), <1>1, <1>2, <1>3 DEF Slots, Seen

\* A step that concerns only threads.
LEMMA SessionsKept ==
    ASSUME Sessions, ThreadsOK',
           UNCHANGED <<state, current, candidate, generation, budget, renewal, since, stream>>
    PROVE  Sessions'
<1>1. ControlOK'
  BY DEF Sessions, TypeOK, ControlOK, budget, stream
<1>2. BudgetsOK'
  BY DEF Sessions, TypeOK, BudgetsOK, budget, renewal
<1> QED BY <1>1, <1>2, AgeingSessions DEF Sessions, TypeOK, ControlOK, budget, stream

-----------------------------------------------------------------------------
\* Every step keeps the state, the slots and the budgets in agreement.
LEMMA SessionsStep == Sessions /\ Reporters /\ [Next]_vars => Sessions'
<1> SUFFICES ASSUME Sessions, Reporters, [Next]_vars PROVE Sessions'
  OBVIOUS
<1> USE CameraTransportAssumption, Nothing
<1>0. ControlOK /\ BudgetsOK /\ ThreadsOK /\ SlotsOK /\ StateMatchesSessions
  BY DEF Sessions, TypeOK
<1>1. CASE Start
  <2>1. UNCHANGED <<attempts, renewalAttempts, retryWait, tried>> /\ circuitOpen' \in BOOLEAN
        /\ spent' = 1
    BY <1>1 DEF Start, renewal
  <2>2. BudgetsOK'
    BY <1>0, <2>1 DEF BudgetsOK
  <2>3. reconnect' = "none"
    BY <1>0, <1>1 DEF Start, StateMatchesSessions
  <2> QED BY <1>1, <2>2, <2>3, ConnectingSessions DEF Start
<1>2. CASE Stop
  <2>1. /\ attempts' \in 0..MaxAttempts /\ circuitOpen' \in BOOLEAN
        /\ renewalAttempts' \in 0..MaxRenewals
    BY <1>0, <1>2 DEF Stop, BudgetsOK
  <2> QED BY <1>2, <2>1, StopControllerSessions DEF Stop
<1>3. CASE Reset
  <2>1. attempts' \in 0..MaxAttempts /\ renewalAttempts' \in 0..MaxRenewals
    BY <1>0, <1>3 DEF Reset, BudgetsOK
  <2>2. circuitOpen' \in BOOLEAN
    BY <1>3 DEF Reset
  <2> QED BY <1>3, <2>1, <2>2, StopControllerSessions DEF Reset
<1>4. CASE Acquired
  <2> PICK g \in acquiring :
        /\ acquiring' = acquiring \ {g}
        /\ \/ ~Held(g) /\ NothingHappens /\ UNCHANGED stream
           \/ Held(g) /\ \E life \in {"endless", "young"} : Accept(g, life)
           \/ Held(g) /\ FailSlot(g, "expired") /\ UNCHANGED stream
    BY <1>4 DEF Acquired
  <2>1. g \in Generations /\ UNCHANGED <<generation, workers>>
    BY <1>0, <1>4 DEF ThreadsOK, Acquired
  <2>2. CASE ~Held(g) /\ NothingHappens /\ UNCHANGED stream
    BY <1>0, <2>1, <2>2, SessionsKept DEF NothingHappens, ThreadsOK, runner, workers
  <2>3. CASE Held(g) /\ FailSlot(g, "expired") /\ UNCHANGED stream
    BY <2>1, <2>3, FailSlotSessions DEF Leaves
  <2>4. ASSUME NEW life \in {"endless", "young"}, Held(g), Accept(g, life)
        PROVE  Sessions'
    <3>1. /\ Descriptor(current, life) \in Slots /\ Descriptor(candidate, life) \in Slots
          /\ Descriptor(current, life).gen = current.gen
          /\ Descriptor(candidate, life).gen = candidate.gen
          /\ Descriptor(current, life).decoded = current.decoded
          /\ Descriptor(candidate, life).decoded = candidate.decoded
      BY <1>0 DEF ControlOK, Slots, Lives, Descriptor
    <3>2. g # 0 /\ g \in {current.gen, candidate.gen}
      BY <2>1, <2>4 DEF Generations, Held
    <3>3. \/ /\ current' = Descriptor(current, life) /\ candidate' = candidate
             /\ instance' = g /\ current # NoSlot
          \/ /\ candidate' = Descriptor(candidate, life) /\ current' = current
             /\ instance' = instance /\ candidate # NoSlot
      BY <2>4, <3>2 DEF Accept, Begun
    <3>4. BudgetsOK'
      BY <1>0, <2>1, <2>4 DEF BudgetsOK, Accept, budget, renewal
    <3>5. ThreadsOK'
      BY <2>1, <2>4, <1>0, RunBackendsThreads DEF Accept
    <3>6. /\ UNCHANGED <<state, generation, reconnect, since, stamped>>
          /\ instance' \in 0..MaxGenerations
      BY <1>0, <2>1, <2>4, <3>3 DEF Accept, budget, ControlOK, Generations
    <3> QED BY <1>0, <3>1, <3>3, <3>4, <3>5, <3>6, AgeingSessions DEF ControlOK
  <2> QED BY <2>2, <2>3, <2>4
<1>5. CASE AcquireFails
  <2> PICK g \in acquiring, category \in {"terminal", "retryable"} :
        /\ acquiring' = acquiring \ {g}
        /\ IF Held(g) THEN FailSlot(g, category) ELSE NothingHappens
    BY <1>5 DEF AcquireFails
  <2>1. g \in Generations /\ UNCHANGED <<generation, stream, workers>>
    BY <1>0, <1>5 DEF ThreadsOK, AcquireFails
  <2>2. CASE Held(g)
    BY <2>1, <2>2, FailSlotSessions DEF Leaves
  <2>3. CASE ~Held(g)
    BY <1>0, <2>1, <2>3, SessionsKept DEF NothingHappens, ThreadsOK, runner, workers
  <2> QED BY <2>2, <2>3
<1>6. CASE Media
  <2> PICK g \in emitters, b \in Batches :
        IF ~Held(g) THEN NothingHappens /\ UNCHANGED stream
        ELSE IF g = candidate.gen THEN CandidateMedia(g, b) ELSE CurrentMedia(g, b)
    BY <1>6 DEF Media
  <2>1. g \in Generations /\ g # 0 /\ UNCHANGED <<generation, acquiring, workers>>
    BY <1>0, <1>6 DEF ThreadsOK, Media, Generations
  <2>2. CASE ~Held(g)
    BY <1>0, <2>1, <2>2, SessionsKept DEF NothingHappens, ThreadsOK, runner, workers
  <2>3. CASE g = candidate.gen /\ CandidateMedia(g, b)
    <3> PICK s \in Received(candidate, b) :
          /\ IF s.decoded
             THEN Handoff(s) /\ Stamp(g, s, b)
             ELSE /\ candidate' = s
                  /\ UNCHANGED <<state, current, since, spent, renewal, stream, runner>>
          /\ UNCHANGED <<attempts, circuitOpen, reconnect>>
      BY <2>3 DEF CandidateMedia
    <3>1. /\ s \in Slots /\ s.gen = candidate.gen /\ ~candidate.decoded
          /\ candidate # NoSlot /\ state = "RENEWING"
      BY <1>0, <2>1, <2>3, ReceivedSlot DEF ControlOK, StateMatchesSessions
    <3>2. CASE s.decoded
      <4>1. /\ current' = s /\ candidate' = NoSlot /\ state' = "STREAMING"
            /\ tried' = 0 /\ spent' = 0 /\ renewalAttempts' = 0
            /\ UNCHANGED <<generation, attempts, circuitOpen, reconnect>>
        BY <2>1, <3>2 DEF Handoff, Enter
      <4>2. ControlOK'
        <5>1. since' \in {"no", "counting", "stable"}
          BY <1>0, <3>2 DEF ControlOK, Handoff, Enter
        <5>2. instance' = s.gen /\ stamped' \in {stamped, g}
          BY <3>2 DEF Handoff, Begun, Stamp
        <5> QED BY <1>0, <2>1, <3>1, <4>1, <5>1, <5>2 DEF ControlOK, TransportStates, Generations, Slots
      <4>3. BudgetsOK'
        <5>1. retryWait' \in BOOLEAN
          BY <3>2 DEF Handoff
        <5> QED BY <1>0, <4>1, <5>1 DEF BudgetsOK
      <4>4. ThreadsOK'
        BY <1>0, <2>1, <3>2, RunBackendsThreads DEF Handoff
      <4>5. SlotsOK'
        BY <1>0, <2>1, <2>3, <3>1, <4>1 DEF SlotsOK, ControlOK, Slots
      <4>6. StateMatchesSessions'
        BY <1>0, <2>1, <2>3, <3>1, <3>2, <4>1 DEF StateMatchesSessions, Active
      <4> QED BY <4>2, <4>3, <4>4, <4>5, <4>6 DEF Sessions, TypeOK
    <3>3. CASE ~s.decoded
      <4>1. /\ candidate' = s /\ s.decoded = candidate.decoded
            /\ UNCHANGED <<state, current, generation, reconnect, since, instance, stamped>>
            /\ BudgetsOK' /\ ThreadsOK'
        <5>1. s.decoded = candidate.decoded
          BY <1>0, <3>1, <3>3 DEF ControlOK, Slots
        <5>2. /\ candidate' = s
              /\ UNCHANGED <<state, current, since, spent, renewal, stream, runner>>
          BY <3>3
        <5>3. BudgetsOK' /\ ThreadsOK'
          BY <1>0, <2>1, <5>2 DEF BudgetsOK, ThreadsOK, renewal, runner, workers
        <5> QED BY <2>1, <5>1, <5>2, <5>3 DEF stream
      <4> QED BY <1>0, <3>1, <4>1, AgeingSessions DEF ControlOK
    <3> QED BY <3>2, <3>3
  <2>4. CASE Held(g) /\ g # candidate.gen /\ CurrentMedia(g, b)
    <3> PICK s \in Received(current, b) :
          LET first == s.decoded /\ ~current.decoded
          IN  /\ current' = s
              /\ UNCHANGED instance
              /\ Stamp(g, s, b)
              /\ spent' = IF first THEN 0 ELSE spent
              /\ IF \/ first /\ state = "CONNECTING"
                    \/ ~first /\ state = "DEGRADED" /\ b.decoded
                 THEN Enter("STREAMING")
                 ELSE UNCHANGED <<state, since>>
              /\ UNCHANGED <<candidate, attempts, circuitOpen, reconnect, renewal, runner>>
      BY <2>4 DEF CurrentMedia
    <3>1. /\ s \in Slots /\ s.gen = current.gen /\ s.decoded = (current.decoded \/ b.decoded)
          /\ current # NoSlot /\ s # NoSlot
      BY <1>0, <2>1, <2>4, ReceivedSlot DEF ControlOK, Held
    <3>2. ControlOK'
      <4>1. since' \in {"no", "counting", "stable"} /\ state' \in {state, "STREAMING"}
        BY <1>0 DEF ControlOK, Enter
      <4>2. stamped' \in {stamped, g}
        BY DEF Stamp
      <4> QED BY <1>0, <2>1, <3>1, <4>1, <4>2 DEF ControlOK, TransportStates, Generations
    <3>3. BudgetsOK'
      BY <1>0, <2>1 DEF BudgetsOK, renewal
    <3>4. ThreadsOK'
      BY <1>0, <2>1 DEF ThreadsOK, runner, workers
    <3>5. SlotsOK'
      BY <1>0, <2>1, <3>1 DEF SlotsOK
    <3>6. StateMatchesSessions'
      <4>1. state \in Active \cup {"CONNECTING"} /\ (state \in Active <=> current.decoded)
        BY <1>0, <3>1 DEF StateMatchesSessions
      <4>2. CASE s.decoded /\ ~current.decoded
        BY <1>0, <2>1, <3>1, <4>1, <4>2 DEF StateMatchesSessions, Active, Enter
      <4>3. CASE ~(s.decoded /\ ~current.decoded)
        BY <1>0, <2>1, <3>1, <4>1, <4>3 DEF StateMatchesSessions, Active, Enter
      <4> QED BY <4>2, <4>3
    <3> QED BY <3>2, <3>3, <3>4, <3>5, <3>6 DEF Sessions, TypeOK
  <2> QED BY <2>2, <2>3, <2>4
<1>7. CASE BackendEnds
  <2> PICK g \in emitters, category \in {"terminal", "retryable", "expired"} :
        LET s == IF g = candidate.gen THEN candidate ELSE current
        IN  IF Held(g)
            THEN (category = "expired" => s.life # "endless") /\ FailSlot(g, category)
            ELSE NothingHappens
    BY <1>7 DEF BackendEnds
  <2>1. g \in Generations /\ UNCHANGED <<generation, stream, acquiring, workers>>
    BY <1>0, <1>7 DEF ThreadsOK, BackendEnds
  <2>2. CASE Held(g)
    BY <2>1, <2>2, FailSlotSessions DEF Leaves
  <2>3. CASE ~Held(g)
    BY <1>0, <2>1, <2>3, SessionsKept DEF NothingHappens, ThreadsOK, runner, workers
  <2> QED BY <2>2, <2>3
<1>8. CASE TickReconnects
  <2>1. /\ UNCHANGED <<attempts, circuitOpen, renewalAttempts, retryWait, tried>>
        /\ spent' = spent + 1
    BY <1>8 DEF TickReconnects, renewal
  <2>2. BudgetsOK'
    BY <1>0, <2>1 DEF BudgetsOK
  <2> QED BY <1>8, <2>2, ConnectingSessions DEF TickReconnects
<1>9. CASE TickAcquireTimeout
  <2>1. state \in Active \cup {"CONNECTING"} /\ FailCurrent("retryable") /\ Leaves
    BY <1>9 DEF TickAcquireTimeout, Running, Leaves
  <2> QED BY <2>1, FailCurrentSessions
<1>10. CASE TickExpired
  <2>1. CASE candidate.session
    <3>1. /\ candidate # NoSlot /\ state = "RENEWING" /\ ~candidate.decoded /\ Promote
      BY <1>0, <1>10, <2>1 DEF TickExpired, StateMatchesSessions
    <3>2. /\ current' \in Slots /\ current'.gen = candidate.gen /\ current'.decoded = candidate.decoded
          /\ candidate' = NoSlot /\ state' = "CONNECTING" /\ current' # NoSlot
      <4>1. candidate.gen # 0 /\ candidate.overdue \in BOOLEAN
        BY <1>0, <3>1 DEF SlotsOK, ControlOK, Slots
      <4>2. PICK overdue \in BOOLEAN : current' = [candidate EXCEPT !.overdue = overdue]
        BY <3>1, <4>1 DEF Promote
      <4> QED BY <1>0, <3>1, <4>1, <4>2 DEF ControlOK, Slots, Promote, Enter
    <3>3. /\ UNCHANGED <<generation, retryWait, attempts, circuitOpen, reconnect, stamped>>
          /\ renewalAttempts' = 0 /\ tried' = 0 /\ spent' = 1 /\ instance' = candidate.gen
      BY <1>10, <3>1 DEF TickExpired, Promote, Begun
    <3>4. since' \in {"no", "counting", "stable"}
      BY <1>0, <3>1 DEF Promote, Enter, ControlOK
    <3>5. ControlOK'
      BY <1>0, <3>2, <3>3, <3>4 DEF ControlOK, TransportStates, Slots
    <3>6. BudgetsOK'
      BY <1>0, <3>3 DEF BudgetsOK
    <3>7. ThreadsOK'
      BY <1>0, <1>10, <3>1, RunBackendsThreads DEF TickExpired, Promote
    <3>8. SlotsOK'
      BY <1>0, <3>1, <3>2, <3>3 DEF SlotsOK, ControlOK, Slots
    <3>9. StateMatchesSessions'
      BY <1>0, <3>1, <3>2, <3>3 DEF StateMatchesSessions, Active
    <3> QED BY <3>5, <3>6, <3>7, <3>8, <3>9 DEF Sessions, TypeOK
  <2>2. CASE ~candidate.session
    <3>1. state \in Active \cup {"CONNECTING"} /\ FailCurrent("expired") /\ Leaves
      BY <1>10, <2>2 DEF TickExpired, Running, Leaves
    <3> QED BY <3>1, FailCurrentSessions
  <2> QED BY <2>1, <2>2
<1>11. CASE TickFirstMediaTimeout
  <2>1. state \in Active \cup {"CONNECTING"} /\ FailCurrent("retryable") /\ Leaves
    BY <1>11 DEF TickFirstMediaTimeout, Leaves
  <2> QED BY <2>1, FailCurrentSessions
<1>12. CASE TickStalled
  <2>1. state \in Active \cup {"CONNECTING"} /\ FailCurrent("retryable") /\ Leaves
    BY <1>12 DEF TickStalled, Leaves
  <2> QED BY <2>1, FailCurrentSessions
<1>13. CASE TickRenews
  <2>1. /\ Steady /\ RenewalDue /\ generation < MaxGenerations
        /\ renewalAttempts' = renewalAttempts + 1 /\ tried' = tried + 1
        /\ generation' = generation + 1 /\ candidate' = NewSlot(generation + 1)
        /\ state' = "RENEWING" /\ since' \in {"no", since}
        /\ attempts' \in {0, attempts}
        /\ acquiring' = acquiring \cup {generation + 1}
        /\ UNCHANGED <<current, circuitOpen, reconnect, spent, retryWait>>
        /\ UNCHANGED <<stream, runner, workers>>
    BY <1>13 DEF TickRenews, Counted, Forgiven
  <2>2. generation + 1 \in Generations
    BY <1>0, <2>1 DEF ControlOK, Generations
  <2>3. /\ candidate' \in Slots /\ candidate'.gen = generation + 1 /\ candidate' # NoSlot
        /\ ~candidate'.decoded
    BY <2>1, <2>2, FreshSlot
  <2>4. current # NoSlot /\ current.decoded /\ state \in Active
    BY <1>0, <2>1 DEF Steady, StateMatchesSessions
  <2>5. ControlOK'
    BY <1>0, <2>1, <2>2, <2>3 DEF ControlOK, TransportStates, Generations, stream
  <2>6. BudgetsOK'
    BY <1>0, <2>1 DEF BudgetsOK, RenewalDue
  <2>7. ThreadsOK'
    BY <1>0, <2>1, <2>2 DEF ThreadsOK, runner, workers
  <2>8. SlotsOK'
    BY <1>0, <2>1, <2>2, <2>3 DEF SlotsOK, ControlOK, Slots
  <2>9. StateMatchesSessions'
    BY <1>0, <2>1, <2>3, <2>4 DEF StateMatchesSessions, Active
  <2> QED BY <2>5, <2>6, <2>7, <2>8, <2>9 DEF Sessions, TypeOK
<1>14. CASE TickRenewalTimeout
  <2>1. /\ candidate # NoSlot /\ state \in Active
        /\ candidate' = NoSlot /\ attempts' \in {0, attempts}
        /\ state' \in {"STREAMING", "DEGRADED"}
        /\ UNCHANGED <<current, circuitOpen, reconnect, spent, renewalAttempts, tried, generation,
                       instance, stamped, acquiring>>
    BY <1>14 DEF TickRenewalTimeout, Forgiven, Steady, Enter, Fallback, stream
  <2>2. since' \in {"no", "counting", "stable"}
    BY <1>0, <1>14 DEF TickRenewalTimeout, Enter, ControlOK
  <2>3. retryWait' \in BOOLEAN
    BY <1>14 DEF TickRenewalTimeout
  <2>4. ControlOK'
    BY <1>0, <2>1, <2>2 DEF ControlOK, TransportStates
  <2>5. BudgetsOK'
    BY <1>0, <2>1, <2>3 DEF BudgetsOK
  <2>6. ThreadsOK'
    BY <1>0, <1>14, <2>1, RunBackendsThreads DEF TickRenewalTimeout
  <2>7. SlotsOK'
    BY <1>0, <2>1 DEF SlotsOK, ControlOK
  <2>8. StateMatchesSessions'
    BY <1>0, <2>1 DEF StateMatchesSessions, Active
  <2> QED BY <2>4, <2>5, <2>6, <2>7, <2>8 DEF Sessions, TypeOK
<1>15. CASE TickSteady
  <2>1. /\ state \in Active
        /\ attempts' \in {0, attempts}
        /\ state' \in {"DEGRADED", state} /\ (state = "RENEWING" <=> state' = "RENEWING")
        /\ UNCHANGED <<current, candidate, circuitOpen, reconnect, spent, renewalAttempts, retryWait,
                       tried, generation, instance, stamped>>
        /\ UNCHANGED <<acquiring, runner, workers>>
    BY <1>15 DEF TickSteady, Forgiven, Steady, Enter, Degraded, stream, renewal
  <2>2. since' \in {"no", "counting", "stable"}
    BY <1>0, <1>15 DEF TickSteady, Enter, ControlOK
  <2>3. ControlOK'
    BY <1>0, <2>1, <2>2 DEF ControlOK, TransportStates
  <2>4. BudgetsOK'
    BY <1>0, <2>1 DEF BudgetsOK
  <2>5. ThreadsOK'
    BY <1>0, <2>1 DEF ThreadsOK, runner, workers
  <2>6. SlotsOK'
    BY <1>0, <2>1 DEF SlotsOK
  <2>7. StateMatchesSessions'
    BY <1>0, <2>1 DEF StateMatchesSessions, Active
  <2> QED BY <2>3, <2>4, <2>5, <2>6, <2>7 DEF Sessions, TypeOK
<1>16. CASE TickOutOfNumbers
  <2>1. attempts' \in {0, attempts} /\ UNCHANGED circuitOpen
    BY <1>16 DEF TickOutOfNumbers, Forgiven
  <2>2. \/ UNCHANGED renewalAttempts
        \/ renewalAttempts < MaxRenewals /\ renewalAttempts' = renewalAttempts + 1
    BY <1>16 DEF TickOutOfNumbers, Counted, RenewalDue
  <2>3. attempts' \in 0..MaxAttempts /\ renewalAttempts' \in 0..MaxRenewals
    BY <1>0, <2>1, <2>2 DEF BudgetsOK
  <2>4. circuitOpen' \in BOOLEAN
    BY <1>0, <2>1 DEF BudgetsOK
  <2> QED BY <1>16, <2>3, <2>4, StopControllerSessions DEF TickOutOfNumbers
<1>17. CASE StartWorker
  <2>1. ThreadsOK'
    BY <1>0, <1>17 DEF StartWorker, ThreadsOK
  <2> QED BY <1>17, <2>1, SessionsKept DEF StartWorker
<1>18. CASE StopWorker
  <2>1. ThreadsOK'
    BY <1>0, <1>18 DEF StopWorker, ThreadsOK
  <2> QED BY <1>18, <2>1, SessionsKept DEF StopWorker
<1>19. CASE WorkerDies
  <2>1. ThreadsOK'
    BY <1>0, <1>19 DEF WorkerDies, ThreadsOK, runner
  <2> QED BY <1>19, <2>1, SessionsKept DEF WorkerDies
<1>20. CASE Deadline
  <2>1. BudgetsOK' /\ ThreadsOK' /\ UNCHANGED <<state, generation, reconnect, since, instance, stamped>>
    BY <1>0, <1>20 DEF Deadline, Elapse, BudgetsOK, ThreadsOK, budget, renewal, stream, runner, workers
  <2>2. /\ current' \in Slots /\ current'.gen = current.gen
        /\ current'.decoded = current.decoded /\ (current = NoSlot => current' = NoSlot)
        /\ candidate' \in Slots /\ candidate'.gen = candidate.gen
        /\ candidate'.decoded = candidate.decoded /\ (candidate = NoSlot => candidate' = NoSlot)
    BY ZenonT(30), <1>0, <1>20 DEF Deadline, Elapse, ControlOK, Slots, Gaps, Lives, Older
  <2> QED BY <1>0, <2>1, <2>2, AgeingSessions DEF ControlOK
<1>21. CASE GapGrows
  <2>1. BudgetsOK' /\ ThreadsOK' /\ UNCHANGED <<state, generation, reconnect, since, instance, stamped>>
    BY <1>0, <1>21 DEF GapGrows, Elapse, BudgetsOK, ThreadsOK, budget, renewal, stream, runner, workers
  <2>2. /\ current' \in Slots /\ current'.gen = current.gen
        /\ current'.decoded = current.decoded /\ (current = NoSlot => current' = NoSlot)
        /\ candidate' \in Slots /\ candidate'.gen = candidate.gen
        /\ candidate'.decoded = candidate.decoded /\ (candidate = NoSlot => candidate' = NoSlot)
    BY ZenonT(30), <1>0, <1>21 DEF GapGrows, Elapse, ControlOK, Slots, Gaps, Lives, Older
  <2> QED BY <1>0, <2>1, <2>2, AgeingSessions DEF ControlOK
<1>22. CASE GoesQuiet
  <2>1. BudgetsOK' /\ ThreadsOK' /\ UNCHANGED <<state, generation, reconnect, since, instance, stamped>>
    BY <1>0, <1>22 DEF GoesQuiet, Elapse, BudgetsOK, ThreadsOK, budget, renewal, stream, runner, workers
  <2>2. /\ current' \in Slots /\ current'.gen = current.gen
        /\ current'.decoded = current.decoded /\ (current = NoSlot => current' = NoSlot)
        /\ candidate' \in Slots /\ candidate'.gen = candidate.gen
        /\ candidate'.decoded = candidate.decoded /\ (candidate = NoSlot => candidate' = NoSlot)
    BY ZenonT(30), <1>0, <1>22 DEF GoesQuiet, Elapse, ControlOK, Slots, Gaps, Lives, Older
  <2> QED BY <1>0, <2>1, <2>2, AgeingSessions DEF ControlOK
<1>23. CASE LifePasses
  <2>1. BudgetsOK' /\ ThreadsOK' /\ UNCHANGED <<state, generation, reconnect, since, instance, stamped>>
    BY <1>0, <1>23 DEF LifePasses, Elapse, BudgetsOK, ThreadsOK, budget, renewal, stream, runner, workers
  <2>2. /\ current' \in Slots /\ current'.gen = current.gen
        /\ current'.decoded = current.decoded /\ (current = NoSlot => current' = NoSlot)
        /\ candidate' \in Slots /\ candidate'.gen = candidate.gen
        /\ candidate'.decoded = candidate.decoded /\ (candidate = NoSlot => candidate' = NoSlot)
    <3>1. current \in Slots /\ candidate \in Slots
      BY <1>0 DEF ControlOK
    <3>2. CASE /\ current.session /\ UNCHANGED candidate
              /\ \E life \in Older(current.life) : current' = [current EXCEPT !.life = life]
      BY <3>1, <3>2, OlderSlot
    <3>3. CASE /\ candidate.session /\ UNCHANGED current
              /\ \E life \in Older(candidate.life) : candidate' = [candidate EXCEPT !.life = life]
      BY <3>1, <3>3, OlderSlot
    <3> QED BY <1>23, <3>2, <3>3 DEF LifePasses, Elapse
  <2> QED BY <1>0, <2>1, <2>2, AgeingSessions DEF ControlOK
<1>24. CASE TimersPass
  <2>1. /\ UNCHANGED <<state, current, candidate, generation, circuitOpen, renewalAttempts, tried,
                       instance, stamped>>
        /\ UNCHANGED <<acquiring, runner, workers>>
    BY <1>24 DEF TimersPass, stream
  <2>2. /\ since' \in {"no", "counting", "stable"} /\ reconnect' \in {"none", "waiting", "due"}
        /\ reconnect' # "none" <=> reconnect # "none"
    BY <1>0, <1>24 DEF TimersPass, Wait, WindowSlides, ControlOK
  <2>3. attempts' \in 0..MaxAttempts /\ spent' \in Nat
    BY <1>0, <1>24 DEF TimersPass, Wait, WindowSlides, BudgetsOK
  <2>4. retryWait' \in BOOLEAN
    <3>1. retryWait' \in {retryWait, FALSE}
      BY Zenon, <1>24 DEF TimersPass, Wait, WindowSlides
    <3> QED BY <1>0, <3>1 DEF BudgetsOK
  <2>5. ControlOK'
    BY <1>0, <2>1, <2>2 DEF ControlOK
  <2>6. BudgetsOK'
    BY <1>0, <2>1, <2>3, <2>4 DEF BudgetsOK
  <2>7. ThreadsOK'
    BY <1>0, <2>1 DEF ThreadsOK, runner, workers
  <2>8. SlotsOK'
    BY <1>0, <2>1 DEF SlotsOK
  <2>9. StateMatchesSessions'
    BY <1>0, <2>1, <2>2 DEF StateMatchesSessions, Active
  <2> QED BY <2>5, <2>6, <2>7, <2>8, <2>9 DEF Sessions, TypeOK
<1>25. CASE UNCHANGED vars
  BY <1>0, <1>25, SessionsKept DEF vars, budget, renewal, stream, runner, workers, ThreadsOK
<1> QED
  BY <1>1, <1>2, <1>3, <1>4, <1>5, <1>6, <1>7, <1>8, <1>9, <1>10, <1>11, <1>12, <1>13, <1>14,
     <1>15, <1>16, <1>17, <1>18, <1>19, <1>20, <1>21, <1>22, <1>23, <1>24, <1>25
  DEF Next, Events, Tick, Threads, Time

-----------------------------------------------------------------------------
(* Workers: who may still report, and what is still running *)

Workers == Reporters /\ NoOrphanWorkers

\* The backends of a set of slots, one by one.
LEMMA BackendsOf ==
    ASSUME NEW S, NEW g
    PROVE  g \in Backends(S) <=> \E s \in S : s.session /\ g = s.gen
BY DEF Backends

\* The runner's handles are those of the two slots: NoSlot has none.
LEMMA HandlesOf ==
    NoOrphanWorkers =>
      \A g : g \in handles <=> \/ current.session /\ g = current.gen
                               \/ candidate.session /\ g = candidate.gen
BY BackendsOf, Nothing DEF NoOrphanWorkers, Live

LEMMA HandlesFrom ==
    ASSUME \A g : g \in handles' <=> \/ current'.session /\ g = current'.gen
                                     \/ candidate'.session /\ g = candidate'.gen
    PROVE  handles' = Backends(Live')
<1>1. \A g : g \in Backends(Live') <=> \E s \in Live' : s.session /\ g = s.gen
  BY BackendsOf
<1>2. \A g : g \in handles' <=> g \in Backends(Live')
  BY <1>1, Nothing DEF Live
<1> QED BY <1>2

\* Sessions end: their backends are handed to a stopping thread, and whichever session is left
\* is one of those there were.
LEMMA EndingWorkers ==
    ASSUME Workers, Sessions, NEW X, RunBackends({}, X), UNCHANGED <<generation, workers>>,
           acquiring' \subseteq acquiring,
           \A g : g \in handles \ X <=> \/ current'.session /\ g = current'.gen
                                        \/ candidate'.session /\ g = candidate'.gen,
           \A t \in {current', candidate'} :
              \/ t.gen = 0 /\ ~t.session
              \/ \E s \in {current, candidate} : t.gen = s.gen /\ (t.session <=> s.session),
           current'.decoded => current'.session
    PROVE  Workers'
<1>1. /\ handles' = handles \ X /\ starting' = starting
      /\ stopping' = stopping \cup (X \cap handles)
      /\ UNCHANGED <<refused, procs, emitters>>
  BY DEF RunBackends, ToStop, workers
<1>2. \A g \in handles : g \in 1..generation
  <2>1. \A g \in handles : \/ current.session /\ g = current.gen
                           \/ candidate.session /\ g = candidate.gen
    BY HandlesOf DEF Workers
  <2>2. \A g \in handles : g \in Generations
    BY DEF Sessions, TypeOK, ThreadsOK
  <2> QED BY <2>1, <2>2 DEF Sessions, SlotsOK, Generations, TypeOK, ControlOK
<1>3. Reporters'
  <2>1. acquiring' \cup starting' \cup stopping' \cup emitters' \subseteq 1..generation'
    BY <1>1, <1>2 DEF Workers, Reporters
  <2>2. 0 \notin acquiring \cup starting \cup emitters
    BY DEF Workers, Reporters
  <2>3. \A t \in {current', candidate'} : t.gen \in acquiring' => ~t.session
    BY DEF Workers, Reporters
  <2>4. \A t \in {current', candidate'} : t.gen \in starting' \cup emitters' => t.session
    BY <1>1, <2>2 DEF Workers, Reporters
  <2> QED BY <2>1, <2>3, <2>4 DEF Reporters
<1>4. NoOrphanWorkers'
  <2>1. handles' = Backends(Live')
    BY <1>1, HandlesFrom
  <2> QED BY <1>1, <2>1 DEF Workers, NoOrphanWorkers
<1> QED BY <1>3, <1>4 DEF Workers

\* Nothing happens to a session or its backend.
LEMMA KeepingWorkers ==
    ASSUME Workers, UNCHANGED <<generation, runner, workers>>, acquiring' \subseteq acquiring,
           current'.gen = current.gen, current'.session <=> current.session,
           candidate'.gen = candidate.gen, candidate'.session <=> candidate.session,
           current'.decoded => current'.session
    PROVE  Workers'
<1>1. Reporters'
  BY DEF Workers, Reporters, runner, workers
<1>2. handles' = Backends(Live')
  BY HandlesOf, HandlesFrom DEF Workers, runner
<1> QED BY <1>1, <1>2 DEF Workers, NoOrphanWorkers, runner, workers

\* A session begins: its number is new, so nothing reports for it yet.
LEMMA BeginningWorkers ==
    ASSUME Workers, Sessions, generation < MaxGenerations, generation' = generation + 1,
           acquiring' = acquiring \cup {generation'}, UNCHANGED <<runner, workers>>,
           \/ current = NoSlot /\ current' = NewSlot(generation') /\ UNCHANGED candidate
           \/ candidate = NoSlot /\ candidate' = NewSlot(generation') /\ UNCHANGED current
    PROVE  Workers'
<1>1. generation' \in Generations /\ generation \in Nat
  BY CameraTransportAssumption DEF Sessions, TypeOK, ControlOK, Generations
<1>2. LET s == NewSlot(generation')
      IN  s.gen = generation' /\ ~s.session /\ ~s.decoded
  BY <1>1, FreshSlot
<1>3. Reporters'
  <2>1. acquiring' \cup starting' \cup stopping' \cup emitters' \subseteq 1..generation'
    BY <1>1 DEF Workers, Reporters, runner, workers
  <2>2. generation' \notin starting' \cup emitters'
    BY <1>1 DEF Workers, Reporters, runner, workers
  <2>3. current.gen # generation' /\ candidate.gen # generation'
    BY <1>1 DEF Sessions, SlotsOK, TypeOK, ControlOK, Slots
  <2> QED BY <1>2, <2>1, <2>2, <2>3 DEF Workers, Reporters, runner, workers
<1>4. handles' = Backends(Live')
  BY <1>2, Nothing, HandlesOf, HandlesFrom DEF Workers, runner
<1> QED BY <1>3, <1>4 DEF Workers, NoOrphanWorkers, runner, workers

\* Both sessions end: _fail_current, stop() and reset().
LEMMA EndBoth ==
    ASSUME Workers, Sessions, current' = NoSlot, candidate' = NoSlot,
           RunBackends({}, Backends(Both)), UNCHANGED <<generation, workers>>,
           acquiring' \subseteq acquiring
    PROVE  Workers'
<1>1. \A g : g \in handles => g \in Backends(Both)
  BY HandlesOf, BackendsOf DEF Workers, Both
<1> QED BY <1>1, Nothing, EndingWorkers

\* The candidate ends alone: _renewal_failed and a renewal that is late.
LEMMA EndCandidate ==
    ASSUME Workers, Sessions, candidate # NoSlot, UNCHANGED current, candidate' = NoSlot,
           RunBackends({}, Backends({candidate})), UNCHANGED <<generation, workers>>,
           acquiring' \subseteq acquiring
    PROVE  Workers'
<1>1. \A g : g \in Backends({candidate}) <=> candidate.session /\ g = candidate.gen
  BY BackendsOf
<1>2. current.gen # candidate.gen
  BY DEF Sessions, SlotsOK, TypeOK, ControlOK, Slots
<1>3. \A g : g \in handles \ Backends({candidate}) <=> current.session /\ g = current.gen
  BY <1>1, <1>2, HandlesOf DEF Workers
<1>4. candidate'.gen = 0 /\ ~candidate'.session
  BY Nothing
<1>5. /\ current'.gen = current.gen
      /\ current'.session <=> current.session
      /\ current'.decoded => current'.session
  BY DEF Workers, Reporters
<1>6. \A g : g \in handles \ Backends({candidate}) <=>
              \/ current'.session /\ g = current'.gen
              \/ candidate'.session /\ g = candidate'.gen
  BY <1>3, <1>4, <1>5
<1> QED BY <1>4, <1>5, <1>6, EndingWorkers

\* The current session ends and the candidate takes its place: _handoff and promotion.
LEMMA EndCurrent ==
    ASSUME Workers, Sessions, candidate # NoSlot, candidate' = NoSlot,
           current'.gen = candidate.gen, candidate.session, current'.session,
           RunBackends({}, Backends({current})), UNCHANGED <<generation, workers>>,
           acquiring' \subseteq acquiring
    PROVE  Workers'
<1>1. \A g : g \in Backends({current}) <=> current.session /\ g = current.gen
  BY BackendsOf
<1>2. current.gen # candidate.gen
  BY DEF Sessions, SlotsOK, TypeOK, ControlOK, Slots
<1>3. \A g : g \in handles \ Backends({current}) <=> g = candidate.gen
  BY <1>1, <1>2, HandlesOf DEF Workers
<1> QED BY <1>3, Nothing, EndingWorkers

LEMMA FailSlotWorkers ==
    ASSUME Workers, Sessions, NEW g \in Generations, NEW category, Held(g),
           FailSlot(g, category), Leaves
    PROVE  Workers'
<1>1. g # 0
  BY CameraTransportAssumption DEF Generations
<1>2. CASE g = candidate.gen
  BY <1>1, <1>2, Nothing, EndCandidate DEF FailSlot, RenewalFails, Leaves
<1>3. CASE g # candidate.gen
  BY <1>3, EndBoth DEF FailSlot, FailCurrent, Abandoned, Leaves
<1> QED BY <1>2, <1>3

\* Every step keeps the worker processes accounted for.
LEMMA WorkersStep == Sessions /\ Workers /\ [Next]_vars => Workers'
<1> SUFFICES ASSUME Sessions, Workers, [Next]_vars PROVE Workers'
  OBVIOUS
<1>0. /\ ControlOK /\ ThreadsOK /\ SlotsOK /\ StateMatchesSessions
      /\ Reporters /\ NoOrphanWorkers
  BY DEF Sessions, TypeOK, Workers
<1>1. CASE Start
  <2>1. current = NoSlot
    BY <1>0, <1>1 DEF Start, StateMatchesSessions, Active
  <2> QED BY <1>1, <2>1, BeginningWorkers DEF Start
<1>2. CASE Stop \/ Reset \/ TickOutOfNumbers
  BY <1>2, EndBoth DEF Stop, Reset, TickOutOfNumbers, StopController
<1>3. CASE Acquired
  <2> PICK g \in acquiring :
        /\ acquiring' = acquiring \ {g}
        /\ \/ ~Held(g) /\ NothingHappens /\ UNCHANGED stream
           \/ Held(g) /\ \E life \in {"endless", "young"} : Accept(g, life)
           \/ Held(g) /\ FailSlot(g, "expired") /\ UNCHANGED stream
    BY <1>3 DEF Acquired
  <2>1. g \in Generations /\ g \in 1..generation /\ g # 0 /\ UNCHANGED <<generation, workers>>
    BY <1>0, <1>3, CameraTransportAssumption DEF ThreadsOK, Acquired, Reporters, Generations
  <2>2. CASE ~Held(g) /\ NothingHappens
    BY <1>0, <2>1, <2>2, KeepingWorkers DEF NothingHappens, Reporters
  <2>3. CASE Held(g) /\ FailSlot(g, "expired") /\ UNCHANGED stream
    BY <2>1, <2>3, FailSlotWorkers DEF Leaves
  <2>4. ASSUME NEW life \in {"endless", "young"}, Held(g), Accept(g, life)
        PROVE  Workers'
    <3>1. \A s \in {current, candidate} :
            /\ Descriptor(s, life).gen = s.gen /\ Descriptor(s, life).session
            /\ Descriptor(s, life).decoded = s.decoded
      BY <1>0 DEF ControlOK, Slots, Descriptor
    <3>2. \/ /\ current' = Descriptor(current, life) /\ candidate' = candidate
             /\ current.gen = g
          \/ /\ candidate' = Descriptor(candidate, life) /\ current' = current
             /\ candidate.gen = g
      BY <2>4 DEF Accept, Held
    <3>3. /\ handles' = handles \cup {g} /\ starting' = starting \cup {g}
          /\ stopping' = stopping /\ UNCHANGED <<refused, procs, emitters>>
      BY <2>1, <2>4 DEF Accept, RunBackends, ToStop, workers
    <3>4. Reporters'
      <4>1. acquiring' \cup starting' \cup stopping' \cup emitters' \subseteq 1..generation'
        BY <1>0, <2>1, <3>3 DEF Reporters
      <4>2. current.gen # candidate.gen
        BY <1>0, <2>1, <3>2, Nothing DEF SlotsOK, ControlOK, Slots
      <4> QED BY <1>0, <3>1, <3>2, <3>3, <4>1, <4>2 DEF Reporters
    <3>5. handles' = Backends(Live')
      BY <1>0, <3>1, <3>2, <3>3, HandlesOf, HandlesFrom
    <3> QED BY <1>0, <3>3, <3>4, <3>5 DEF Workers, NoOrphanWorkers
  <2> QED BY <2>2, <2>3, <2>4
<1>4. CASE AcquireFails
  <2> PICK g \in acquiring, category \in {"terminal", "retryable"} :
        /\ acquiring' = acquiring \ {g}
        /\ IF Held(g) THEN FailSlot(g, category) ELSE NothingHappens
    BY <1>4 DEF AcquireFails
  <2>1. g \in Generations /\ UNCHANGED <<generation, stream, workers>>
    BY <1>0, <1>4 DEF ThreadsOK, AcquireFails
  <2>2. CASE Held(g)
    BY <2>1, <2>2, FailSlotWorkers DEF Leaves
  <2>3. CASE ~Held(g)
    BY <1>0, <2>1, <2>3, KeepingWorkers DEF NothingHappens, Reporters
  <2> QED BY <2>2, <2>3
<1>5. CASE Media
  <2> PICK g \in emitters, b \in Batches :
        IF ~Held(g) THEN NothingHappens /\ UNCHANGED stream
        ELSE IF g = candidate.gen THEN CandidateMedia(g, b) ELSE CurrentMedia(g, b)
    BY <1>5 DEF Media
  <2>1. g # 0 /\ UNCHANGED <<generation, acquiring, workers>>
    BY <1>0, <1>5, CameraTransportAssumption DEF ThreadsOK, Media, Generations
  <2>2. CASE ~Held(g)
    BY <1>0, <2>1, <2>2, KeepingWorkers DEF NothingHappens, Reporters
  <2>3. CASE g = candidate.gen /\ CandidateMedia(g, b)
    <3> PICK s \in Received(candidate, b) :
          IF s.decoded
          THEN Handoff(s) /\ Stamp(g, s, b)
          ELSE /\ candidate' = s
               /\ UNCHANGED <<state, current, since, spent, renewal, stream, runner>>
      BY <2>3 DEF CandidateMedia
    <3>1. s.gen = candidate.gen /\ s.session = candidate.session /\ candidate.session
      BY <1>0, <2>3, ReceivedSlot DEF ControlOK, Reporters
    <3>2. candidate # NoSlot
      BY <2>1, <2>3, Nothing
    <3> QED BY <1>0, <2>1, <3>1, <3>2, EndCurrent, KeepingWorkers DEF Handoff, Reporters
  <2>4. CASE Held(g) /\ g # candidate.gen /\ CurrentMedia(g, b)
    <3> PICK s \in Received(current, b) :
          current' = s /\ UNCHANGED <<candidate, runner>>
      BY <2>4 DEF CurrentMedia
    <3>1. s.gen = current.gen /\ s.session = current.session /\ current.session
      BY <1>0, <2>4, ReceivedSlot DEF ControlOK, Reporters, Held
    <3> QED BY <2>1, <3>1, KeepingWorkers
  <2> QED BY <2>2, <2>3, <2>4
<1>6. CASE BackendEnds
  <2> PICK g \in emitters, category \in {"terminal", "retryable", "expired"} :
        IF Held(g) THEN FailSlot(g, category) ELSE NothingHappens
    BY <1>6 DEF BackendEnds
  <2>1. g \in Generations /\ UNCHANGED <<generation, stream, acquiring, workers>>
    BY <1>0, <1>6 DEF ThreadsOK, BackendEnds
  <2>2. CASE Held(g)
    BY <2>1, <2>2, FailSlotWorkers DEF Leaves
  <2>3. CASE ~Held(g)
    BY <1>0, <2>1, <2>3, KeepingWorkers DEF NothingHappens, Reporters
  <2> QED BY <2>2, <2>3
<1>7. CASE TickReconnects
  <2>1. current = NoSlot
    BY <1>0, <1>7 DEF TickReconnects, StateMatchesSessions, Active
  <2> QED BY <1>7, <2>1, BeginningWorkers DEF TickReconnects
<1>8. CASE TickAcquireTimeout
  BY <1>8, EndBoth DEF TickAcquireTimeout, FailCurrent, Abandoned
<1>9. CASE TickExpired
  <2>1. CASE candidate.session
    <3>1. candidate # NoSlot /\ Promote /\ UNCHANGED <<generation, acquiring, workers>>
      BY <1>9, <2>1, Nothing DEF TickExpired
    <3>2. current'.gen = candidate.gen /\ current'.session /\ candidate' = NoSlot
      BY <1>0, <2>1, <3>1 DEF Promote, ControlOK, Slots
    <3> QED BY <2>1, <3>1, <3>2, EndCurrent DEF Promote
  <2>2. CASE ~candidate.session
    BY <1>9, <2>2, EndBoth DEF TickExpired, FailCurrent, Abandoned
  <2> QED BY <2>1, <2>2
<1>10. CASE TickFirstMediaTimeout
  BY <1>10, EndBoth DEF TickFirstMediaTimeout, FailCurrent, Abandoned
<1>11. CASE TickStalled
  BY <1>11, EndBoth DEF TickStalled, FailCurrent, Abandoned
<1>12. CASE TickRenews
  BY <1>12, BeginningWorkers DEF TickRenews, RenewalDue
<1>13. CASE TickRenewalTimeout
  BY <1>13, EndCandidate DEF TickRenewalTimeout
<1>14. CASE TickSteady
  BY <1>0, <1>14, KeepingWorkers DEF TickSteady, Reporters
<1>15. CASE StartWorker
  <2> PICK g \in starting :
        /\ starting' = starting \ {g}
        /\ IF g \in refused
           THEN UNCHANGED <<procs, emitters>>
           ELSE procs' \in {procs, procs \cup {g}} /\ emitters' = emitters \cup {g}
    BY <1>15 DEF StartWorker
  <2>1. UNCHANGED <<current, candidate, generation, acquiring, handles, stopping, refused>>
    BY <1>15 DEF StartWorker
  <2>2. Reporters'
    BY <1>0, <2>1 DEF Reporters
  <2>3. NoOrphanWorkers'
    BY <1>0, <2>1 DEF NoOrphanWorkers, Live, Backends
  <2> QED BY <2>2, <2>3 DEF Workers
<1>16. CASE StopWorker
  <2> PICK g \in stopping :
        stopping' = stopping \ {g} /\ refused' = refused \cup {g} /\ procs' = procs \ {g}
    BY <1>16 DEF StopWorker
  <2>1. UNCHANGED <<current, candidate, generation, acquiring, handles, starting, emitters>>
    BY <1>16 DEF StopWorker
  <2> QED BY <1>0, <2>1 DEF Workers, Reporters, NoOrphanWorkers, Live, Backends
<1>17. CASE WorkerDies
  <2>1. /\ procs' \subseteq procs
        /\ UNCHANGED <<current, candidate, generation, acquiring, runner, refused, emitters>>
    BY <1>17 DEF WorkerDies
  <2> QED BY <1>0, <2>1 DEF Workers, Reporters, NoOrphanWorkers, Live, Backends, runner
<1>18. CASE Deadline \/ GapGrows \/ GoesQuiet \/ LifePasses
  <2>1. UNCHANGED <<generation, runner, workers, acquiring>>
    BY <1>18 DEF Deadline, GapGrows, GoesQuiet, LifePasses, Elapse
  <2>2. /\ current'.gen = current.gen /\ current'.session = current.session
        /\ current'.decoded = current.decoded
        /\ candidate'.gen = candidate.gen /\ candidate'.session = candidate.session
    BY <1>0, <1>18 DEF Deadline, GapGrows, GoesQuiet, LifePasses, Elapse, ControlOK, Slots
  <2> QED BY <1>0, <2>1, <2>2, KeepingWorkers DEF Reporters
<1>19. CASE TimersPass
  BY <1>0, <1>19, KeepingWorkers DEF TimersPass, Reporters
<1>20. CASE UNCHANGED vars
  BY <1>0, <1>20, KeepingWorkers DEF vars, Reporters
<1> QED
  BY <1>1, <1>2, <1>3, <1>4, <1>5, <1>6, <1>7, <1>8, <1>9, <1>10, <1>11, <1>12, <1>13, <1>14,
     <1>15, <1>16, <1>17, <1>18, <1>19, <1>20
  DEF Next, Events, Tick, Threads, Time

-----------------------------------------------------------------------------
(* The media timeline *)

Forward == instance' >= instance /\ stamped' >= stamped

\* A step that does not touch the timeline, and starts no backend on the current slot.
LEMMA StreamKept ==
    ASSUME Sessions, Timeline, UNCHANGED stream, generation' \in {generation, generation + 1},
           \/ current'.gen = 0 /\ ~current'.session /\ current' = NoSlot
           \/ current'.gen = generation + 1 /\ ~current'.session
           \/ current'.gen = current.gen /\ (current'.session <=> current.session) /\ current # NoSlot
    PROVE  Timeline' /\ Forward
<1>1. instance \in Nat /\ stamped \in Nat /\ generation \in Nat
  BY CameraTransportAssumption DEF Sessions, TypeOK, ControlOK
<1> QED BY <1>1, Nothing DEF Timeline, TimelineFollows, Forward, stream

\* The timeline turns to a session that is newer than the one it followed.
LEMMA StreamTurns ==
    ASSUME Sessions, Timeline, UNCHANGED generation, instance' = current'.gen, current'.session,
           stamped' \in {stamped, instance'}, current'.gen \in 1..generation,
           instance <= current'.gen
    PROVE  Timeline' /\ Forward
<1>1. instance \in Nat /\ stamped \in Nat /\ generation \in Nat
  BY CameraTransportAssumption DEF Sessions, TypeOK, ControlOK
<1> QED BY <1>1 DEF Timeline, TimelineFollows, Forward

\* Every step keeps the timeline on the current session, and moves it forward only.
LEMMA TimelineStep == Sessions /\ Workers /\ Timeline /\ [Next]_vars => Timeline' /\ Forward
<1> SUFFICES ASSUME Sessions, Workers, Timeline, [Next]_vars PROVE Timeline' /\ Forward
  OBVIOUS
<1>0. /\ ControlOK /\ ThreadsOK /\ SlotsOK /\ StateMatchesSessions /\ Reporters
      /\ instance \in Nat /\ stamped \in Nat /\ generation \in Nat
      /\ current.gen \in Nat /\ candidate.gen \in Nat
      /\ instance <= current.gen \/ current = NoSlot
  BY CameraTransportAssumption DEF Sessions, TypeOK, Workers, ControlOK, Slots, Timeline, TimelineFollows
<1>1. CASE Start \/ TickReconnects
  <2>1. /\ UNCHANGED stream /\ generation' = generation + 1 /\ current' = NewSlot(generation + 1)
        /\ generation < MaxGenerations
    BY <1>1 DEF Start, TickReconnects
  <2>2. generation + 1 \in Generations
    BY <1>0, <2>1, CameraTransportAssumption DEF Generations
  <2>3. current'.gen = generation + 1 /\ ~current'.session
    BY <2>1, <2>2, FreshSlot
  <2> QED BY <2>1, <2>3, StreamKept
<1>2. CASE Stop \/ Reset \/ TickOutOfNumbers
  BY <1>2, Nothing, StreamKept DEF Stop, Reset, TickOutOfNumbers, StopController
<1>3. ASSUME NEW g \in Generations, NEW category, Held(g), FailSlot(g, category),
             UNCHANGED <<generation, stream>>
      PROVE  Timeline' /\ Forward
  <2>1. CASE g = candidate.gen
    <3>1. UNCHANGED current /\ current # NoSlot
      BY <1>0, <1>3, <2>1, Nothing, CameraTransportAssumption
      DEF FailSlot, RenewalFails, StateMatchesSessions, Generations, Active
    <3> QED BY <1>3, <3>1, StreamKept
  <2>2. CASE g # candidate.gen
    BY <1>3, <2>2, Nothing, StreamKept DEF FailSlot, FailCurrent
  <2> QED BY <2>1, <2>2
<1>4. ASSUME UNCHANGED <<current, generation, stream>>
      PROVE  Timeline' /\ Forward
  BY <1>4, Nothing, StreamKept
<1>5. CASE Acquired
  <2> PICK g \in acquiring :
        \/ ~Held(g) /\ NothingHappens /\ UNCHANGED stream
        \/ Held(g) /\ \E life \in {"endless", "young"} : Accept(g, life)
        \/ Held(g) /\ FailSlot(g, "expired") /\ UNCHANGED stream
    BY <1>5 DEF Acquired
  <2>1. g \in Generations /\ g \in 1..generation /\ g # 0 /\ UNCHANGED generation
    BY <1>0, <1>5, CameraTransportAssumption DEF ThreadsOK, Acquired, Reporters, Generations
  <2>2. CASE ~Held(g) /\ NothingHappens /\ UNCHANGED stream
    BY <1>4, <2>1, <2>2 DEF NothingHappens
  <2>3. CASE Held(g) /\ FailSlot(g, "expired") /\ UNCHANGED stream
    BY <1>3, <2>1, <2>3
  <2>4. ASSUME NEW life \in {"endless", "young"}, Held(g), Accept(g, life)
        PROVE  Timeline' /\ Forward
    <3>1. /\ Descriptor(current, life).gen = current.gen /\ Descriptor(current, life).session
          /\ stamped' = stamped
      BY <1>0, <2>4 DEF ControlOK, Slots, Descriptor, Accept
    <3>2. CASE g = current.gen
      BY <1>0, <2>1, <2>4, <3>1, <3>2, Nothing, StreamTurns DEF Accept, Begun
    <3>3. CASE g # current.gen
      BY <1>4, <2>1, <2>4, <3>3 DEF Accept, stream
    <3> QED BY <3>2, <3>3
  <2> QED BY <2>2, <2>3, <2>4
<1>6. CASE AcquireFails
  <2> PICK g \in acquiring, category \in {"terminal", "retryable"} :
        IF Held(g) THEN FailSlot(g, category) ELSE NothingHappens
    BY <1>6 DEF AcquireFails
  <2>1. g \in Generations /\ UNCHANGED <<generation, stream>>
    BY <1>0, <1>6 DEF ThreadsOK, AcquireFails
  <2> QED BY <1>3, <1>4, <2>1 DEF NothingHappens
<1>7. CASE Media
  <2> PICK g \in emitters, b \in Batches :
        IF ~Held(g) THEN NothingHappens /\ UNCHANGED stream
        ELSE IF g = candidate.gen THEN CandidateMedia(g, b) ELSE CurrentMedia(g, b)
    BY <1>7 DEF Media
  <2>1. g # 0 /\ g \in 1..generation /\ UNCHANGED generation
    BY <1>0, <1>7, CameraTransportAssumption DEF Reporters, Media
  <2>2. CASE ~Held(g)
    BY <1>4, <2>1, <2>2 DEF NothingHappens
  <2>3. CASE g = candidate.gen /\ CandidateMedia(g, b)
    <3> PICK s \in Received(candidate, b) :
          IF s.decoded
          THEN Handoff(s) /\ Stamp(g, s, b)
          ELSE UNCHANGED <<current, stream>>
      BY <2>3 DEF CandidateMedia
    <3>1. s.gen = candidate.gen /\ s.session = candidate.session /\ candidate.session
      BY <1>0, <2>3, ReceivedSlot DEF ControlOK, Reporters
    <3>2. candidate # NoSlot /\ current.gen < candidate.gen /\ current # NoSlot
      BY <1>0, <2>1, <2>3, Nothing DEF SlotsOK, StateMatchesSessions, Active
    <3>3. CASE s.decoded
      <4>1. /\ current' = s /\ instance' = s.gen /\ stamped' \in {stamped, g}
        BY <3>3 DEF Handoff, Begun, Stamp
      <4>2. current'.gen \in 1..generation /\ instance <= current'.gen
        BY <1>0, <2>1, <2>3, <3>1, <3>2, <4>1
      <4>3. current'.session /\ instance' = current'.gen /\ stamped' \in {stamped, instance'}
        BY <2>3, <3>1, <4>1
      <4> QED BY <2>1, <4>2, <4>3, StreamTurns
    <3>4. CASE ~s.decoded
      BY <1>4, <2>1, <3>4
    <3> QED BY <3>3, <3>4
  <2>4. CASE Held(g) /\ g # candidate.gen /\ CurrentMedia(g, b)
    <3> PICK s \in Received(current, b) :
          current' = s /\ UNCHANGED instance /\ Stamp(g, s, b)
      BY <2>4 DEF CurrentMedia
    <3>1. s.gen = current.gen /\ s.session = current.session /\ current.session /\ g = current.gen
      BY <1>0, <2>4, ReceivedSlot DEF ControlOK, Reporters, Held
    <3>2. instance = current.gen /\ stamped' \in {stamped, g}
      BY <3>1 DEF Stamp, Timeline, TimelineFollows
    <3> QED BY <1>0, <2>1, <3>1, <3>2, StreamTurns
  <2> QED BY <2>2, <2>3, <2>4
<1>8. CASE BackendEnds
  <2> PICK g \in emitters, category \in {"terminal", "retryable", "expired"} :
        IF Held(g) THEN FailSlot(g, category) ELSE NothingHappens
    BY <1>8 DEF BackendEnds
  <2>1. g \in Generations /\ UNCHANGED <<generation, stream>>
    BY <1>0, <1>8 DEF ThreadsOK, BackendEnds
  <2> QED BY <1>3, <1>4, <2>1 DEF NothingHappens
<1>9. CASE TickAcquireTimeout \/ TickFirstMediaTimeout \/ TickStalled
  BY <1>9, Nothing, StreamKept
  DEF TickAcquireTimeout, TickFirstMediaTimeout, TickStalled, FailCurrent
<1>10. CASE TickExpired
  <2>1. CASE candidate.session
    <3>1. candidate # NoSlot /\ current # NoSlot /\ current.gen < candidate.gen
      BY <1>0, <2>1, Nothing DEF StateMatchesSessions, Active, SlotsOK
    <3>2. /\ current'.gen = candidate.gen /\ current'.session /\ instance' = candidate.gen
          /\ stamped' = stamped
      BY <1>0, <1>10, <2>1 DEF TickExpired, Promote, Begun, ControlOK, Slots
    <3>3. UNCHANGED generation /\ candidate.gen \in 1..generation
      BY <1>0, <1>10, <3>1 DEF TickExpired, SlotsOK
    <3> QED BY <1>0, <3>1, <3>2, <3>3, StreamTurns
  <2>2. CASE ~candidate.session
    BY <1>10, <2>2, Nothing, StreamKept DEF TickExpired, FailCurrent
  <2> QED BY <2>1, <2>2
<1>11. CASE TickRenews
  <2>1. current # NoSlot
    BY <1>0, <1>11 DEF TickRenews, Steady, StateMatchesSessions
  <2> QED BY <1>11, <2>1, StreamKept DEF TickRenews
<1>12. CASE TickRenewalTimeout \/ TickSteady
  BY <1>4, <1>12 DEF TickRenewalTimeout, TickSteady
<1>13. CASE Threads
  BY <1>4, <1>13 DEF Threads, StartWorker, StopWorker, WorkerDies
<1>14. CASE Deadline \/ GapGrows \/ GoesQuiet \/ LifePasses
  <2>1. UNCHANGED <<generation, stream>>
    BY <1>14 DEF Deadline, GapGrows, GoesQuiet, LifePasses, Elapse
  <2>2. current' = current \/ (/\ current # NoSlot /\ current'.gen = current.gen
                               /\ current'.session = current.session)
    BY <1>0, <1>14, Nothing
    DEF Deadline, GapGrows, GoesQuiet, LifePasses, Elapse, ControlOK, Slots
  <2> QED BY <1>4, <2>1, <2>2, StreamKept
<1>15. CASE TimersPass
  BY <1>4, <1>15 DEF TimersPass
<1>16. CASE UNCHANGED vars
  BY <1>4, <1>16 DEF vars, stream
<1> QED
  BY <1>1, <1>2, <1>5, <1>6, <1>7, <1>8, <1>9, <1>10, <1>11, <1>12, <1>13, <1>14, <1>15, <1>16
  DEF Next, Events, Tick, Time

-----------------------------------------------------------------------------
(* What failures and renewals pay for *)

Budgets == Paid /\ RenewalsBounded

\* A step that costs nothing and brings no media.
LEMMA BudgetsKept ==
    ASSUME Budgets, UNCHANGED <<attempts, spent, tried, renewalAttempts>>,
           current'.decoded => current.decoded,
           state' = "RECONNECTING" => state = "RECONNECTING"
    PROVE  Budgets'
BY DEF Budgets, Paid, HopelessSessionsBounded, RenewalsBounded

LEMMA Countable == ASSUME NEW n \in Nat PROVE 0 <= n /\ 0 <= n + 1
OBVIOUS

\* A step after which nothing is owed: the stream has media, or the transport has stopped.
LEMMA BudgetsCleared ==
    ASSUME BudgetsOK', spent' = 0, tried' = 0
    PROVE  Budgets'
<1>1. attempts' \in Nat /\ renewalAttempts' \in Nat
  BY CameraTransportAssumption DEF BudgetsOK
<1>2. 0 <= attempts' + 1 /\ 0 <= attempts' /\ 0 <= renewalAttempts'
  BY <1>1, Countable
<1>3. HopelessSessionsBounded' /\ RenewalsBounded'
  BY <1>2 DEF HopelessSessionsBounded, RenewalsBounded
<1>4. (current.decoded => spent = 0)' /\ (state = "RECONNECTING" => spent <= attempts)'
  BY <1>2
<1> QED BY <1>3, <1>4 DEF Budgets, Paid

\* Every way a current session ends is paid for by a failure, by the media it had, or by the
\* end of the transport.
LEMMA FailCurrentBudgets ==
    ASSUME Sessions, Budgets, NEW category, FailCurrent(category)
    PROVE  Budgets'
<1>1. /\ attempts \in Nat /\ spent \in Nat
      /\ current' = NoSlot /\ renewalAttempts' = 0 /\ tried' = 0 /\ spent' = spent
  BY CameraTransportAssumption DEF Sessions, TypeOK, BudgetsOK, FailCurrent
<1>2. \/ attempts' = attempts + 1
      \/ attempts' = attempts /\ state' = "FAILED"
      \/ attempts' = attempts /\ current.decoded
  BY DEF FailCurrent, Enter, ExpectedExpiry
<1> QED BY <1>1, <1>2, Nothing DEF Budgets, Paid, HopelessSessionsBounded, RenewalsBounded

LEMMA FailSlotBudgets ==
    ASSUME Sessions, Budgets, NEW g, NEW category, FailSlot(g, category)
    PROVE  Budgets'
<1>1. CASE g = candidate.gen
  <2>1. /\ UNCHANGED <<attempts, spent, tried, current>>
        /\ state' \in {"STREAMING", "DEGRADED"}
        /\ renewalAttempts' \in {renewalAttempts, MaxRenewals}
    BY <1>1 DEF FailSlot, RenewalFails, Enter, Fallback, budget
  <2>2. renewalAttempts \in Nat /\ renewalAttempts <= MaxRenewals /\ tried \in Nat
    BY CameraTransportAssumption DEF Sessions, TypeOK, BudgetsOK
  <2> QED BY <2>1, <2>2, CameraTransportAssumption
          DEF Budgets, Paid, HopelessSessionsBounded, RenewalsBounded
<1>2. CASE g # candidate.gen
  BY <1>2, FailCurrentBudgets DEF FailSlot
<1> QED BY <1>1, <1>2

\* Every step keeps the accounts.
LEMMA BudgetsStep == Sessions /\ Reporters /\ Budgets /\ [Next]_vars => Budgets'
<1> SUFFICES ASSUME Sessions, Reporters, Budgets, [Next]_vars PROVE Budgets'
  OBVIOUS
<1>0. /\ ControlOK /\ BudgetsOK /\ ThreadsOK /\ SlotsOK /\ StateMatchesSessions
      /\ attempts \in Nat /\ spent \in Nat /\ tried \in Nat /\ renewalAttempts \in Nat
      /\ generation \in Nat
  BY CameraTransportAssumption DEF Sessions, TypeOK, BudgetsOK, ControlOK
<1>1. BudgetsOK'
  BY SessionsStep DEF Sessions, TypeOK
<1>2. CASE Start
  <2>1. generation + 1 \in Generations
    BY <1>0, <1>2, CameraTransportAssumption DEF Start, Generations
  <2>2. ~current'.decoded
    BY <1>2, <2>1, FreshSlot DEF Start
  <2>3. /\ spent' = 1 /\ state' = "CONNECTING"
        /\ UNCHANGED <<attempts, tried, renewalAttempts>>
    BY <1>2 DEF Start, Enter, renewal
  <2> QED BY <1>0, <2>2, <2>3 DEF Budgets, Paid, HopelessSessionsBounded, RenewalsBounded
<1>3. CASE Stop \/ Reset \/ TickOutOfNumbers
  BY <1>1, <1>3, BudgetsCleared DEF Stop, Reset, TickOutOfNumbers, StopController
<1>4. ASSUME NothingHappens PROVE Budgets'
  BY <1>4, BudgetsKept DEF NothingHappens, budget, renewal
<1>5. CASE Acquired
  <2> PICK g \in acquiring :
        \/ ~Held(g) /\ NothingHappens /\ UNCHANGED stream
        \/ Held(g) /\ \E life \in {"endless", "young"} : Accept(g, life)
        \/ Held(g) /\ FailSlot(g, "expired") /\ UNCHANGED stream
    BY <1>5 DEF Acquired
  <2>1. ASSUME NEW life \in {"endless", "young"}, Accept(g, life) PROVE Budgets'
    <3>1. Descriptor(current, life).decoded = current.decoded
      BY <1>0 DEF ControlOK, Slots, Descriptor
    <3> QED BY <2>1, <3>1, BudgetsKept DEF Accept, budget, renewal
  <2> QED BY <1>4, <2>1, FailSlotBudgets
<1>6. CASE AcquireFails
  BY <1>4, <1>6, FailSlotBudgets DEF AcquireFails
<1>7. CASE Media
  <2> PICK g \in emitters, b \in Batches :
        IF ~Held(g) THEN NothingHappens /\ UNCHANGED stream
        ELSE IF g = candidate.gen THEN CandidateMedia(g, b) ELSE CurrentMedia(g, b)
    BY <1>7 DEF Media
  <2>1. CASE ~Held(g)
    BY <1>4, <2>1
  <2>2. CASE CandidateMedia(g, b)
    <3> PICK s \in Received(candidate, b) :
          /\ IF s.decoded
             THEN Handoff(s) /\ Stamp(g, s, b)
             ELSE UNCHANGED <<state, current, spent, renewal>>
          /\ UNCHANGED attempts
      BY <2>2 DEF CandidateMedia
    <3>1. CASE s.decoded
      BY <1>1, <3>1, BudgetsCleared DEF Handoff
    <3>2. CASE ~s.decoded
      BY <3>2, BudgetsKept DEF renewal
    <3> QED BY <3>1, <3>2
  <2>3. CASE CurrentMedia(g, b)
    <3> PICK s \in Received(current, b) :
          LET first == s.decoded /\ ~current.decoded
          IN  /\ current' = s
              /\ spent' = IF first THEN 0 ELSE spent
              /\ IF \/ first /\ state = "CONNECTING"
                    \/ ~first /\ state = "DEGRADED" /\ b.decoded
                 THEN Enter("STREAMING")
                 ELSE UNCHANGED <<state, since>>
              /\ UNCHANGED <<attempts, renewal>>
      BY <2>3 DEF CurrentMedia
    <3>1. state' \in {state, "STREAMING"} /\ UNCHANGED <<attempts, tried, renewalAttempts>>
      BY DEF Enter, renewal
    <3>2. CASE s.decoded /\ ~current.decoded
      BY <1>0, <3>1, <3>2 DEF Budgets, Paid, HopelessSessionsBounded, RenewalsBounded
    <3>3. CASE ~(s.decoded /\ ~current.decoded)
      BY <3>1, <3>3, BudgetsKept
    <3> QED BY <3>2, <3>3
  <2> QED BY <2>1, <2>2, <2>3
<1>8. CASE BackendEnds
  <2> PICK g \in emitters, category \in {"terminal", "retryable", "expired"} :
        IF Held(g) THEN FailSlot(g, category) ELSE NothingHappens
    BY <1>8 DEF BackendEnds
  <2> QED BY <1>4, FailSlotBudgets
<1>9. CASE TickReconnects
  <2>1. generation + 1 \in Generations
    BY <1>0, <1>9, CameraTransportAssumption DEF TickReconnects, Generations
  <2>2. ~current'.decoded
    BY <1>9, <2>1, FreshSlot DEF TickReconnects
  <2>3. /\ spent' = spent + 1 /\ state = "RECONNECTING" /\ state' = "CONNECTING"
        /\ UNCHANGED <<attempts, tried, renewalAttempts>>
    BY <1>9 DEF TickReconnects, Enter, renewal
  <2> QED BY <1>0, <2>2, <2>3 DEF Budgets, Paid, HopelessSessionsBounded, RenewalsBounded
<1>10. CASE TickAcquireTimeout \/ TickFirstMediaTimeout \/ TickStalled
  BY <1>10, FailCurrentBudgets DEF TickAcquireTimeout, TickFirstMediaTimeout, TickStalled
<1>11. CASE TickExpired
  <2>1. CASE candidate.session
    <3>1. ~current'.decoded
      BY <1>0, <1>11, <2>1 DEF TickExpired, Promote, ControlOK, Slots, StateMatchesSessions
    <3>2. /\ spent' = 1 /\ tried' = 0 /\ renewalAttempts' = 0 /\ UNCHANGED attempts
          /\ state' = "CONNECTING"
      BY <1>11, <2>1 DEF TickExpired, Promote, Enter
    <3> QED BY <1>0, <3>1, <3>2 DEF Budgets, Paid, HopelessSessionsBounded, RenewalsBounded
  <2>2. CASE ~candidate.session
    BY <1>11, <2>2, FailCurrentBudgets DEF TickExpired
  <2> QED BY <2>1, <2>2
<1>12. CASE TickRenews \/ TickRenewalTimeout \/ TickSteady
  <2>1. state \in Active /\ spent' = spent /\ current' = current /\ attempts' \in {0, attempts}
        /\ state' # "RECONNECTING"
    BY <1>12
    DEF TickRenews, TickRenewalTimeout, TickSteady, Steady, Forgiven, Enter, Fallback, Active
  <2>2. spent = 0
    BY <1>0, <2>1 DEF StateMatchesSessions, Budgets, Paid
  <2>3. \/ UNCHANGED <<tried, renewalAttempts>>
        \/ tried' = tried + 1 /\ renewalAttempts' = renewalAttempts + 1
    BY <1>12 DEF TickRenews, TickRenewalTimeout, TickSteady, Counted, renewal
  <2>4. attempts' \in Nat /\ spent' = 0
    BY <1>0, <2>1, <2>2
  <2>5. Paid'
    BY <2>1, <2>4, Countable DEF Paid, HopelessSessionsBounded
  <2>6. RenewalsBounded'
    BY <1>0, <2>3 DEF Budgets, RenewalsBounded
  <2> QED BY <2>5, <2>6 DEF Budgets
<1>13. CASE Threads
  BY <1>13, BudgetsKept DEF Threads, StartWorker, StopWorker, WorkerDies, budget, renewal
<1>14. CASE Deadline \/ GapGrows \/ GoesQuiet \/ LifePasses
  <2>1. UNCHANGED <<attempts, spent, tried, renewalAttempts, state>>
    BY <1>14 DEF Deadline, GapGrows, GoesQuiet, LifePasses, Elapse, budget, renewal
  <2>2. current'.decoded = current.decoded
    BY <1>0, <1>14 DEF Deadline, GapGrows, GoesQuiet, LifePasses, Elapse, ControlOK, Slots
  <2> QED BY <2>1, <2>2, BudgetsKept
<1>15. CASE TimersPass
  <2>1. \/ UNCHANGED <<attempts, spent>>
        \/ /\ attempts > 0 /\ attempts' = attempts - 1
           /\ spent' = IF spent > 0 THEN spent - 1 ELSE 0
    BY <1>15 DEF TimersPass, Wait, WindowSlides
  <2>2. UNCHANGED <<state, current, tried, renewalAttempts>>
    BY <1>15 DEF TimersPass
  <2> QED BY <1>0, <2>1, <2>2 DEF Budgets, Paid, HopelessSessionsBounded, RenewalsBounded
<1>16. CASE UNCHANGED vars
  BY <1>16, BudgetsKept DEF vars, budget, renewal
<1> QED
  BY <1>2, <1>3, <1>5, <1>6, <1>7, <1>8, <1>9, <1>10, <1>11, <1>12, <1>13, <1>14, <1>15, <1>16
  DEF Next, Events, Tick, Time

-----------------------------------------------------------------------------
(* Legal transitions *)

\* Whatever enters no other state than these from a session that is held is in the table.
LEMMA FailCurrentLegal ==
    ASSUME NEW category, FailCurrent(category), state \in Active \cup {"CONNECTING"}
    PROVE  state' \in Allowed(state)
BY DEF FailCurrent, Enter, Active, Allowed

LEMMA FailSlotLegal ==
    ASSUME Sessions, NEW g, Held(g), g # 0, NEW category, FailSlot(g, category)
    PROVE  state' = state \/ state' \in Allowed(state)
<1>1. CASE g = candidate.gen
  <2>1. state = "RENEWING"
    BY <1>1, Nothing DEF Sessions, StateMatchesSessions
  <2>2. state' \in {"STREAMING", "DEGRADED"}
    BY <1>1 DEF FailSlot, RenewalFails, Enter, Fallback
  <2> QED BY <2>1, <2>2 DEF Allowed
<1>2. CASE g # candidate.gen
  <2>1. state \in Active \cup {"CONNECTING"}
    BY <1>2, Nothing DEF Held, Sessions, StateMatchesSessions
  <2> QED BY <1>2, <2>1, FailCurrentLegal DEF FailSlot
<1> QED BY <1>1, <1>2

\* No step raises IllegalTransition.
LEMMA LegalStep ==
    Sessions /\ Reporters /\ [Next]_vars => state' = state \/ state' \in Allowed(state)
<1> SUFFICES ASSUME Sessions, Reporters, [Next]_vars
             PROVE  state' = state \/ state' \in Allowed(state)
  OBVIOUS
<1>0. /\ state \in TransportStates /\ StateMatchesSessions
      /\ \A g \in acquiring \cup emitters : g # 0
  BY DEF Sessions, TypeOK, ControlOK, ThreadsOK, Generations
<1>1. CASE Start
  BY <1>1 DEF Start, Enter, Allowed
<1>2. CASE Stop \/ Reset
  <2>1. state # "STOPPED" /\ state' = "STOPPED"
    BY <1>2 DEF Stop, Reset, StopController, Enter
  <2> QED BY <1>0, <2>1 DEF Allowed, TransportStates
<1>3. CASE TickOutOfNumbers
  <2>1. state' = "STOPPED" /\ state \in Active \cup {"RECONNECTING"}
    BY <1>3 DEF TickOutOfNumbers, StopController, Enter, Steady
  <2> QED BY <2>1 DEF Allowed, Active
<1>4. ASSUME NothingHappens PROVE state' = state
  BY <1>4 DEF NothingHappens
<1>5. CASE Acquired
  <2> PICK g \in acquiring :
        \/ ~Held(g) /\ NothingHappens /\ UNCHANGED stream
        \/ Held(g) /\ \E life \in {"endless", "young"} : Accept(g, life)
        \/ Held(g) /\ FailSlot(g, "expired") /\ UNCHANGED stream
    BY <1>5 DEF Acquired
  <2>1. ASSUME NEW life \in {"endless", "young"}, Accept(g, life) PROVE state' = state
    BY <2>1 DEF Accept
  <2> QED BY <1>0, <1>4, <2>1, FailSlotLegal
<1>6. CASE AcquireFails
  <2> PICK g \in acquiring, category \in {"terminal", "retryable"} :
        IF Held(g) THEN FailSlot(g, category) ELSE NothingHappens
    BY <1>6 DEF AcquireFails
  <2> QED BY <1>0, <1>4, FailSlotLegal
<1>7. CASE Media
  <2> PICK g \in emitters, b \in Batches :
        IF ~Held(g) THEN NothingHappens /\ UNCHANGED stream
        ELSE IF g = candidate.gen THEN CandidateMedia(g, b) ELSE CurrentMedia(g, b)
    BY <1>7 DEF Media
  <2>1. CASE g = candidate.gen /\ CandidateMedia(g, b)
    <3>1. state = "RENEWING"
      BY <1>0, <2>1, Nothing DEF StateMatchesSessions
    <3>2. state' \in {state, "STREAMING"}
      BY <2>1 DEF CandidateMedia, Handoff, Enter
    <3> QED BY <3>1, <3>2 DEF Allowed
  <2>2. CASE CurrentMedia(g, b)
    <3> PICK s \in Received(current, b) :
          LET first == s.decoded /\ ~current.decoded
          IN  IF \/ first /\ state = "CONNECTING"
                 \/ ~first /\ state = "DEGRADED" /\ b.decoded
              THEN Enter("STREAMING")
              ELSE UNCHANGED <<state, since>>
      BY <2>2 DEF CurrentMedia
    <3>1. ASSUME Enter("STREAMING") PROVE state' = "STREAMING"
      BY <3>1 DEF Enter
    <3>2. \/ state' = state
          \/ state \in {"CONNECTING", "DEGRADED"} /\ state' = "STREAMING"
      BY <3>1
    <3> QED BY <3>2 DEF Allowed
  <2> QED BY <1>4, <2>1, <2>2
<1>8. CASE BackendEnds
  <2> PICK g \in emitters, category \in {"terminal", "retryable", "expired"} :
        IF Held(g) THEN FailSlot(g, category) ELSE NothingHappens
    BY <1>8 DEF BackendEnds
  <2> QED BY <1>0, <1>4, FailSlotLegal
<1>9. CASE TickReconnects
  BY <1>9 DEF TickReconnects, Enter, Allowed
<1>10. CASE TickAcquireTimeout \/ TickFirstMediaTimeout \/ TickStalled
  <2>1. state \in Active \cup {"CONNECTING"} /\ FailCurrent("retryable")
    BY <1>10 DEF TickAcquireTimeout, TickFirstMediaTimeout, TickStalled, Running
  <2> QED BY <2>1, FailCurrentLegal
<1>11. CASE TickExpired
  <2>1. CASE candidate.session
    <3>1. state = "RENEWING" /\ state' = "CONNECTING"
      BY <1>0, <1>11, <2>1, Nothing DEF TickExpired, Promote, Enter, StateMatchesSessions
    <3> QED BY <3>1 DEF Allowed
  <2>2. CASE ~candidate.session
    BY <1>11, <2>2, FailCurrentLegal DEF TickExpired, Running
  <2> QED BY <2>1, <2>2
<1>12. CASE TickRenews
  <2>1. state \in {"STREAMING", "DEGRADED"} /\ state' = "RENEWING"
    BY <1>12 DEF TickRenews, RenewalDue
  <2> QED BY <2>1 DEF Allowed
<1>13. CASE TickRenewalTimeout
  <2>1. state = "RENEWING" /\ state' \in {"STREAMING", "DEGRADED"}
    BY <1>0, <1>13 DEF TickRenewalTimeout, Enter, Fallback, StateMatchesSessions
  <2> QED BY <2>1 DEF Allowed
<1>14. CASE TickSteady
  <2>1. \/ state' = state
        \/ state = "STREAMING" /\ state' = "DEGRADED"
    <3>1. ASSUME Enter("DEGRADED") PROVE state' = "DEGRADED"
      BY <3>1 DEF Enter
    <3>2. IF Degraded THEN Enter("DEGRADED") ELSE UNCHANGED <<state, since>>
      BY <1>14 DEF TickSteady
    <3> QED BY <3>1, <3>2 DEF Degraded
  <2> QED BY <2>1 DEF Allowed
<1>15. CASE Threads \/ Time \/ UNCHANGED vars
  BY <1>15 DEF Threads, StartWorker, StopWorker, WorkerDies, Time, Deadline, GapGrows, GoesQuiet,
               LifePasses, Elapse, TimersPass, vars
<1> QED
  BY <1>1, <1>2, <1>3, <1>5, <1>6, <1>7, <1>8, <1>9, <1>10, <1>11, <1>12, <1>13, <1>14, <1>15
  DEF Next, Events, Tick

-----------------------------------------------------------------------------
(* Theorems *)

LEMMA InvInit == Init => Inv
<1> SUFFICES ASSUME Init PROVE Inv
  OBVIOUS
<1>1. NoSlot \in Slots /\ NoSlot.gen = 0 /\ ~NoSlot.session /\ ~NoSlot.decoded
  BY Nothing
<1>2. 0 \in 0..MaxGenerations /\ 0 \in 0..MaxAttempts /\ 0 \in 0..MaxRenewals
  BY CameraTransportAssumption
<1>3. TypeOK
  BY <1>1, <1>2 DEF Init, TypeOK, ControlOK, BudgetsOK, ThreadsOK, TransportStates
<1>4. SlotsOK /\ StateMatchesSessions
  BY <1>1 DEF Init, SlotsOK, StateMatchesSessions, Active
<1>5. Reporters
  BY <1>1 DEF Init, Reporters
<1>6. NoOrphanWorkers
  BY DEF Init, NoOrphanWorkers, Live, Backends
<1>7. Timeline
  BY <1>1 DEF Init, Timeline, TimelineFollows
<1>8. Paid /\ RenewalsBounded
  BY <1>1 DEF Init, Paid, HopelessSessionsBounded, RenewalsBounded
<1> QED BY <1>3, <1>4, <1>5, <1>6, <1>7, <1>8 DEF Inv

\* The parts lean on each other only downwards: sessions and who may report of them first,
\* then the runner's handles and workers, then the timeline, and the accounts.
LEMMA InvStep == Inv /\ [Next]_vars => Inv'
BY SessionsStep, WorkersStep, TimelineStep, BudgetsStep DEF Inv, Sessions, Workers, Budgets

\* The invariant TLC checks on a small instance holds for every number of sessions, every
\* failure budget and every renewal limit.
THEOREM InvHolds == Spec => []Inv
BY InvInit, InvStep, PTL DEF Spec

\* Every state is well formed: the controller's failure and renewal counters stay within
\* max_attempts and max_attempts_per_session.
THEOREM TypeCorrect == Spec => []TypeOK
<1>1. Inv => TypeOK BY DEF Inv
<1> QED BY <1>1, InvHolds, PTL

\* The transport state and the two session slots always say the same, so the assertion in
\* tick() that an active state has a current session cannot fail.
THEOREM SessionsAgree == Spec => []StateMatchesSessions
<1>1. Inv => StateMatchesSessions BY DEF Inv
<1> QED BY <1>1, InvHolds, PTL

\* Whatever the order of acquisitions, thread starts, stops and failures, the runner holds a
\* handle exactly for the sessions the controller knows, and every other worker process is
\* about to be stopped.
THEOREM NoWorkerLeft == Spec => []NoOrphanWorkers
<1>1. Inv => NoOrphanWorkers BY DEF Inv
<1> QED BY <1>1, InvHolds, PTL

\* The media timeline's instance is the current session's as soon as that has a descriptor,
\* through handoffs and promotions.
THEOREM TimelineOnCurrent == Spec => []TimelineFollows
<1>1. Inv => TimelineFollows BY DEF Inv, Timeline
<1> QED BY <1>1, InvHolds, PTL

\* The circuit breaker bounds what a camera without media can cost, although expiries and
\* promoted replacements begin sessions without a failure being recorded.
THEOREM HopelessBounded == Spec => []HopelessSessionsBounded
<1>1. Inv => HopelessSessionsBounded BY DEF Inv, Paid
<1> QED BY <1>1, InvHolds, PTL

\* No session is renewed more often than its counter says, which max_attempts_per_session
\* bounds.
THEOREM RenewalsHeld == Spec => []RenewalsBounded
<1>1. Inv => RenewalsBounded BY DEF Inv
<1> QED BY <1>1, InvHolds, PTL

\* Instances of the timeline never go back, so begin_instance never raises, and a buffer of
\* an older session is never accepted after one of a newer session.
THEOREM NoStaleMedia == Spec => StaleMediaRejected
<1>1. Inv /\ [Next]_vars => [instance' >= instance /\ stamped' >= stamped]_vars
  BY TimelineStep DEF Inv, Sessions, Workers, Forward
<1> QED BY <1>1, InvHolds, PTL DEF Spec, StaleMediaRejected

\* No order of late answers, worker events and deadlines makes the controller attempt a
\* transition outside ALLOWED_TRANSITIONS, which would raise and take the transport down.
THEOREM OnlyLegalTransitions == Spec => LegalTransitions
<1>1. Inv /\ [Next]_vars => [state' = state \/ state' \in Allowed(state)]_vars
  BY LegalStep DEF Inv, Sessions
<1> QED BY <1>1, InvHolds, PTL DEF Spec, LegalTransitions
=============================================================================
