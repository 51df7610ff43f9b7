-------------------------- MODULE RoomEventDelivery --------------------------
(***************************************************************************)
(* What the room-event path promises to the rest of the product, with no   *)
(* word on how: an event the edge has accepted is kept until the control   *)
(* plane has a row for it or has refused it, and every accepted event      *)
(* reaches one of the two ends.  RoomEvents implements this.               *)
(***************************************************************************)
CONSTANT Events   \* the events the cameras of one node can generate

VARIABLES
    promised,      \* events whose submission was answered "persisted"
    recorded,      \* events the control plane holds a row for
    acknowledged,  \* events the edge has let go of as delivered
    refused        \* events the edge has set aside as permanently refused

vars == <<promised, recorded, acknowledged, refused>>

Init ==
    /\ promised = {}
    /\ recorded = {}
    /\ acknowledged = {}
    /\ refused = {}

Promise(e) ==
    /\ e \notin promised
    /\ promised' = promised \cup {e}
    /\ UNCHANGED <<recorded, acknowledged, refused>>

\* Rows appear for accepted events only, and never disappear.
Record(S) ==
    /\ S \subseteq promised
    /\ recorded' = recorded \cup S
    /\ UNCHANGED <<promised, acknowledged, refused>>

\* Letting go of an event as delivered takes a row.
Acknowledge(S) ==
    /\ S \subseteq (promised \cap recorded) \ refused
    /\ acknowledged' = acknowledged \cup S
    /\ UNCHANGED <<promised, recorded, refused>>

Refuse(e) ==
    /\ e \in promised \ acknowledged
    /\ refused' = refused \cup {e}
    /\ UNCHANGED <<promised, recorded, acknowledged>>

Next ==
    \/ \E e \in Events : Promise(e) \/ Refuse(e)
    \/ \E S \in SUBSET Events : Record(S) \/ Acknowledge(S)

SafeSpec == Init /\ [][Next]_vars

\* Every accepted event is delivered or refused in the end.
Settled == \A e \in Events : e \in promised ~> e \in acknowledged \cup refused

Spec == SafeSpec /\ Settled
=============================================================================
