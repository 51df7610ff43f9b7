---------------------------- MODULE MCRoomEvents ----------------------------
(* RoomEvents on three events, the second malformed, crossing two doorways. *)
EXTENDS RoomEvents

CONSTANTS front, back

MCMalformed == {2}
MCPortals == {front, back}
MCPortalOf == [e \in Events |-> IF e = 1 THEN front ELSE back]

\* Of storage and network faults and changes of assignment at most MaxTrouble in one behaviour.
CONSTANT MaxTrouble
MCSpec == Init /\ [][Next /\ faults' + changes' <= MaxTrouble]_vars /\ Fairness
=============================================================================
