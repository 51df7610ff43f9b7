-------------------------- MODULE OccupancyLedger ---------------------------
(***************************************************************************)
(* OccupancyLedger (live/occupancy.py): the evidence for every confirmed   *)
(* track not yet ended, and the head count it supports.                    *)
(***************************************************************************)
EXTENDS Integers, Sequences, FiniteSets

CONSTANTS
    MinHigh,      \* min_high_observations
    Window,       \* evidence_window
    Prior,        \* prior_high_observations: what confirming a track took
    MaxEvidence   \* MAX_TRACKED_EVIDENCE

ASSUME OccupancyLedgerAssumption ==
    MinHigh \in 1..Window /\ Window \in Nat /\ Prior \in Nat /\ MaxEvidence \in Nat

VARIABLE ledger   \* _live: TrackEvidence of each track started and not ended

LedgerInit == ledger = <<>>

Recent(window) == IF Len(window) > Window THEN SubSeq(window, Len(window) - Window + 1, Len(window))
                  ELSE window
Evidence(highs) == [window |-> Recent(highs), validated |-> FALSE]
With(t, evidence) == [u \in DOMAIN ledger \cup {t} |-> IF u = t THEN evidence ELSE ledger[u]]

\* start: the observations before confirmation were high; none is known of a track first seen here.
HasRoom == Cardinality(DOMAIN ledger) < MaxEvidence
Started(t, prior) ==
    IF t \in DOMAIN ledger \/ ~HasRoom THEN ledger
    ELSE With(t, Evidence([i \in 1..prior |-> TRUE]))

Ever(window) == Len(window)   \* faulty variant: any observation counts
Highs(window) == Cardinality({i \in 1..Len(window) : window[i]})

\* observe, after start if the track has just started: the ledger with one more observation.
Observing(t, high, starts) ==
    LET book == Started(t, IF starts THEN Prior ELSE 0) IN
    IF t \notin DOMAIN book THEN ledger
    ELSE LET window == Recent(Append(book[t].window, high)) IN
         [book EXCEPT ![t] = [window |-> window,
                              validated |-> @.validated \/ Highs(window) >= MinHigh]]

Ending(t) == [u \in DOMAIN ledger \ {t} |-> ledger[u]]

\* status and validated_count.
Validated(book) == {t \in DOMAIN book : book[t].validated}
=============================================================================
