--------------------------- MODULE PortalCrossing ---------------------------
(***************************************************************************)
(* PortalMonitor (live/portal_crossing.py): every enabled doorway line     *)
(* keeps, for every track, the side of the line it is established on, and  *)
(* reports a transition once it has confirmed the other side.              *)
(***************************************************************************)
EXTENDS Integers, Sequences, SequencesExt

CONSTANTS
    ConfirmObservations,  \* CrossingPolicy.confirm_observations
    Cooldown,             \* CrossingPolicy.cooldown_seconds
    MaxTracked,           \* CrossingPolicy.max_tracked_per_portal
    None

ASSUME PortalCrossingAssumption ==
    ConfirmObservations \in Nat \ {0} /\ Cooldown \in Nat /\ MaxTracked \in Nat \ {0}

VARIABLES
    lines,     \* PortalMonitor.portals: a set of portals, each with its field enabled
    revision,  \* PortalMonitor.revision, if there is one: a set of at most one
    crossing,  \* _runtimes: of each enabled line, the states of its tracks, the least recent first
    staged     \* _staged: the replacement offered, if any

portalVars == <<lines, revision, crossing, staged>>

Sides == {"INSIDE", "OUTSIDE"}
Opposite(side) == IF side = "INSIDE" THEN "OUTSIDE" ELSE "INSIDE"
Enabled(portals) == {p \in portals : p.enabled}
NoTracks(portals) == [p \in Enabled(portals) |-> <<>>]

\* PortalTrackState.  With two sides the candidate is the other one; `event' is last_event_ms.
NewState(t) == [track |-> t, side |-> "UNKNOWN", count |-> 0, event |-> None]

PortalInit == lines = {} /\ revision = {} /\ crossing = NoTracks({}) /\ staged = {}

-----------------------------------------------------------------------------
(* advance: the state after an observation, and whether it reports a transition.  That          *)
(* observations come in order is the tracker's doing, which refuses a frame older than the last. *)

Hasty(state, at) == FALSE   \* faulty variant: two transitions may follow each other at once
Cooling(state, at) == state.event # None /\ at - state.event < Cooldown

\* `onSegment': the path between the sides meets the doorway, not the line beyond it.
Advance(state, side, at, onSegment, eligible) ==
    LET counted == [state EXCEPT !.count = @ + 1]
        rebased == [state EXCEPT !.side = side, !.count = 0]
        reported == [rebased EXCEPT !.event = at] IN
    CASE side = "DEADBAND" -> [state |-> state, reports |-> FALSE]
      [] side # "DEADBAND" /\ state.side \in {"UNKNOWN", side} -> [state |-> rebased, reports |-> FALSE]
      [] side # "DEADBAND" /\ state.side = Opposite(side)
         /\ (counted.count < ConfirmObservations \/ Cooling(state, at)) ->
            [state |-> counted, reports |-> FALSE]
      [] OTHER -> IF onSegment /\ eligible THEN [state |-> reported, reports |-> TRUE]
                  ELSE [state |-> rebased, reports |-> FALSE]

\* A line has one state of a track at most.
Places(states, t) == {i \in 1..Len(states) : states[i].track = t}
StateOf(states, t) ==
    IF Places(states, t) = {} THEN NewState(t) ELSE states[CHOOSE i \in Places(states, t) : TRUE]
Without(states, t) ==
    IF Places(states, t) = {} THEN states
    ELSE RemoveAt(states, CHOOSE i \in Places(states, t) : TRUE)

\* observe: the track becomes the most recent one; the least recent ones make room.
Newest(states) ==
    IF Len(states) > MaxTracked THEN SubSeq(states, Len(states) - MaxTracked + 1, Len(states)) ELSE states

\* An observation of track t against every enabled line: which side of each it is on, and whether
\* its path would meet the doorway.
Sights(states) == [DOMAIN states -> [side : Sides \cup {"DEADBAND"}, onSegment : BOOLEAN]]
Outcome(states, p, t, sight, at, eligible) ==
    Advance(StateOf(states[p], t), sight[p].side, at, sight[p].onSegment, eligible)
Observed(states, t, sight, at, eligible) ==
    [p \in DOMAIN states |->
        Newest(Append(Without(states[p], t), Outcome(states, p, t, sight, at, eligible).state))]
Reports(states, t, sight, at, eligible) ==
    {p \in DOMAIN states : Outcome(states, p, t, sight, at, eligible).reports}

Forget(states, t) == [p \in DOMAIN states |-> Without(states[p], t)]
Reset(states) == [p \in DOMAIN states |-> <<>>]

-----------------------------------------------------------------------------
(* stage, apply_staged *)

Stage(portals, rev) == staged' = {[portals |-> portals, revision |-> rev]}
Offer == CHOOSE offer \in staged : TRUE

\* Whether a staged set is a new one.
Replaces == staged # {} /\ ~(Offer.revision # {} /\ Offer.revision = revision /\ Offer.portals = lines)

\* The set is swapped whole and every state goes.
Swapped == IF Replaces THEN NoTracks(Offer.portals) ELSE crossing
ApplyStaged ==
    /\ staged' = {}
    /\ lines' = IF Replaces THEN Offer.portals ELSE lines
    /\ revision' = IF Replaces THEN Offer.revision ELSE revision
=============================================================================
