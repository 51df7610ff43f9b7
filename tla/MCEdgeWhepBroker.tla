------------------------- MODULE MCEdgeWhepBroker --------------------------
(* Instances of EdgeWhepBroker: two requests of one node and one each of two others; or two    *)
(* requests of one node that may hold two leases.                                              *)
EXTENDS EdgeWhepBroker, TLC

CONSTANTS o1, o2, o3, o4, a, b, c

MCOpens == {o1, o2, o3, o4}
MCNodes == {a, b, c}
MCNodeOf == o1 :> a @@ o2 :> a @@ o3 :> b @@ o4 :> c

MCTwoOpens == {o1, o2}
MCTwoNodeOf == o1 :> a @@ o2 :> a

\* Three of the four requests are made: two of one node and one of another, where the limit of
\* a node binds, or one of each node, where the limit of the process does. Any other three are
\* one of these with the names exchanged.
Made == {o \in Opens : open[o] # "new"}
ThreeMade == Made \subseteq {o1, o2, o3} \/ Made \subseteq {o1, o3, o4}
MCSpec == Init /\ [][Next /\ ThreeMade']_vars /\ Fairness

=============================================================================
