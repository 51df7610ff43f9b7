--------------------------- MODULE PersonTracking ---------------------------
(***************************************************************************)
(* PersonTracker (tracking/tracker.py) as one stream of frames sees it.    *)
(* Which detection belongs to which track, and which boxes overlap, is     *)
(* geometry: any association the rules allow may be the one found.  What   *)
(* is kept is the life of a track: tentative, confirmed, lost, gone.       *)
(***************************************************************************)
EXTENDS Integers, FiniteSets

CONSTANTS
    Confirmation,  \* confirmation_observations
    MaxActive,     \* max_active_tracks
    MaxLost,       \* max_lost_tracks
    MaxTracks      \* bound: tracks created in a stream

ASSUME PersonTrackingAssumption ==
    /\ Confirmation \in Nat \ {0} /\ MaxActive \in Nat \ {0} /\ MaxLost \in Nat \ {0}
    /\ MaxTracks \in Nat

TrackIds == 1..MaxTracks
Unborn == [state |-> "none", observations |-> 0]
Track == [state : {"TENTATIVE", "CONFIRMED", "LOST"}, observations : 1..Confirmation]

Fresh == [state |-> IF Confirmation = 1 THEN "CONFIRMED" ELSE "TENTATIVE", observations |-> 1]

VARIABLES
    tracker,   \* _Stream: next_track_id and tracks; `picture' is its geometry
    result     \* TrackingFrameResult of the frame in hand

\* reset drops the stream; the next frame starts one.
NoStream == [picture |-> "none", next |-> 1, tracks |-> [t \in TrackIds |-> Unborn]]
NoResult == [confirmed |-> {}, high |-> {}, removed |-> {}, discontinuity |-> FALSE]
TrackerInit == tracker = NoStream /\ result = NoResult

In(tracks, state) == {t \in TrackIds : tracks[t].state = state}
Followed(tracks) == In(tracks, "CONFIRMED") \cup In(tracks, "LOST")

-----------------------------------------------------------------------------
(* update *)

\* Motion across a break is not motion.  A stream's first frame has nothing to be cut off from.
Breaks(size, discontinuity, gap) ==
    tracker.picture # "none" /\ (tracker.picture # size \/ discontinuity \/ gap)

\* What a frame starts from: everything goes at a break, and the ids start over with the stream.
Base(size, broke) ==
    IF broke THEN [NoStream EXCEPT !.next = IF tracker.picture = size THEN tracker.next ELSE 1]
    ELSE tracker

\* What may become of a track that is neither expired nor numerically broken.
Fates(track) ==
    CASE track.state = "CONFIRMED" -> {"high", "low", "missed"}
      [] track.state \in {"LOST", "TENTATIVE"} -> {"high", "missed"}

After(track, fate) ==
    IF track.state = "TENTATIVE"
    THEN IF fate = "missed" THEN Unborn
         ELSE LET n == track.observations + 1 IN
              [state |-> IF n >= Confirmation THEN "CONFIRMED" ELSE "TENTATIVE",
               observations |-> n]
    ELSE [track EXCEPT !.state = IF fate = "missed" THEN "LOST" ELSE "CONFIRMED"]

Reported(failed) == failed   \* a variant of the code that reports what it drops
Unreported(failed) == {}

\* The tracks once each has met its fate, the id that may begin, and the tracks with it.
Fated(old, fate) == [t \in TrackIds |-> IF t \in DOMAIN fate THEN After(old[t], fate[t]) ELSE Unborn]
Beginning(next, tracks) ==
    IF next <= MaxTracks /\ Cardinality(In(tracks, "CONFIRMED") \cup In(tracks, "TENTATIVE")) < MaxActive
    THEN {next} ELSE {}
Joined(tracks, new) == [t \in TrackIds |-> IF t \in new THEN Fresh ELSE tracks[t]]

\* Of confirmed tracks that overlap one stays, of the lost ones as many as the limit allows; what is
\* left is the stream's, and what became of the others is reported.
Settle(size, broke, next, now, high, ended) ==
    LET lost == In(now, "LOST")
        surplus == Cardinality(lost) - MaxLost IN
    \E twins \in SUBSET In(now, "CONFIRMED"), excess \in SUBSET lost :
        /\ twins = {} \/ twins # In(now, "CONFIRMED")
        /\ Cardinality(excess) = IF surplus > 0 THEN surplus ELSE 0
        /\ tracker' = [picture |-> size, next |-> next,
                       tracks |-> [t \in TrackIds |-> IF t \in twins \cup excess THEN Unborn ELSE now[t]]]
        /\ result' = [confirmed |-> In(now, "CONFIRMED") \ twins,
                      high |-> high \cap (In(now, "CONFIRMED") \ twins),
                      removed |-> ended \cup twins \cup excess, discontinuity |-> broke]

\* One frame.  A track whose filter fails is dropped without a report.
Update(size, discontinuity, gap) ==
    LET broke == Breaks(size, discontinuity, gap)
        base == Base(size, broke)
        alive == {t \in TrackIds : base.tracks[t] # Unborn} IN
    \E expired \in SUBSET In(base.tracks, "LOST") : \E failed \in SUBSET (alive \ expired) :
    \E fate \in [alive \ (expired \cup failed) -> {"high", "low", "missed"}] :
        /\ \A t \in DOMAIN fate : fate[t] \in Fates(base.tracks[t])
        /\ \E new \in SUBSET Beginning(base.next, Fated(base.tracks, fate)) :
              LET now == Joined(Fated(base.tracks, fate), new) IN
              Settle(size, broke, base.next + Cardinality(new), now,
                     new \cup {t \in DOMAIN fate : fate[t] = "high"},
                     expired \cup Unreported(failed) \cup {t \in DOMAIN fate : now[t] = Unborn})

TrackerTypeOK ==
    /\ tracker.tracks \in [TrackIds -> Track \cup {Unborn}] /\ tracker.next \in 1..(MaxTracks + 1)
    /\ result \in [confirmed : SUBSET TrackIds, high : SUBSET TrackIds, removed : SUBSET TrackIds,
                   discontinuity : BOOLEAN]
=============================================================================
