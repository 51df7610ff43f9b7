--------------------------- MODULE MCRingLinking ---------------------------
(***************************************************************************)
(* One Ring account for TLC: its links and credential, and the devices of  *)
(* its connection.  What the two share is the connection's row, whose      *)
(* other side each sees as one step (DisconnectAccount, ApplyUnlinking);   *)
(* the run explores one of them at a time, picked by the initial state.    *)
(***************************************************************************)
EXTENDS RingLinking, RingInventory, TLC

CONSTANTS k1, Focuses   \* bound: the parts explored

VARIABLE focus

mcVars == <<vars, inventoryVars, focus>>

\* The inventory begins empty, with a device of one lens at Ring: "removal" just after it was added
\* there, the others some time before.  In "status" the connection is still being configured.
Added == {[kind |-> "device_added", device |-> d, at |-> 2] : d \in Devices}
InventoryStart ==
    /\ connection = [state |-> IF focus = "status" THEN "CONFIGURING" ELSE "ACTIVE", health |-> "ACTIVE"]
    /\ ring = [linked |-> TRUE, parts |-> [d \in Devices |-> {k1}],
               online |-> [d \in Devices |-> FALSE]]
    /\ changes = 1 /\ queue = <<>>
    /\ wire = IF focus = "removal" THEN Added ELSE {}
    /\ device = [d \in Devices |-> NoDevice]
    /\ camera = [d \in Devices |-> [k \in Keys |-> NoCamera]]
    /\ task = [j \in Jobs |-> Resting]
    /\ gone = {} /\ raced = {} /\ basis = [d \in Devices |-> 0]

MCInit == focus \in Focuses /\ Init /\ InventoryStart

\* The inventory in three stories.  "removal": the device is removed or refitted once; "return": it
\* is removed and added again; "status": it goes on and off line, and the owner removes the
\* integration.
Kinds == IF focus # "status" THEN {"device_added", "device_removed"}
         ELSE {"device_added", "device_online", "device_offline", "app_integration_removed"}
Story ==
    /\ \A n \in wire' : n.kind \in Kinds
    /\ focus = "removal" => changes' <= 2
    /\ focus = "status" => ring'.parts = ring.parts \/ Attached = {}
\* A job that ends early is a listing, or leaves its notice for the next attempt; dying in the
\* middle of a notice is dying at its end.
Ending ==
    \A j \in Jobs : task'[j] = Resting /\ task[j] # Resting =>
        ListingJob(j) \/ AtPlace(j, "finish") \/ queue' # queue

MCNext ==
    /\ \/ focus = "linking" /\ Next /\ UNCHANGED inventoryVars
       \/ focus # "linking" /\ InventoryNext /\ Story /\ Ending /\ UNCHANGED vars
    /\ UNCHANGED focus

MCSpec == MCInit /\ [][MCNext]_mcVars

\* Bounds: nothing follows a notice nobody will try again, as all that could is explored while it
\* waits for its retry, nor the end of both connections; one link has its token sent, its refresher die or its credential rotated.
\* Two notices in the queue, retried once the new ones are claimed, one listing being read or
\* written, and two lenses that are never there together, of which one gets a zone.
Few ==
    /\ \A n \in Notices : /\ inbox[n] # "FAILED_PERMANENT"
                          /\ inbox[n] = "PROCESSING" => \E w \in Workers : job[w].goal = n
    /\ erased # Links
    /\ Cardinality(lost) <= 1 /\ Cardinality(sent) <= 1 /\ (\E l \in Links : generation[l] = 1)
    /\ Len(queue) <= 2
    /\ \A i, k \in 1..Len(queue) : queue[i].claims > 1 => queue[k].state # "RECEIVED"
    /\ \A d \in Devices : ring.parts[d] # Keys /\ \E k \in Keys : ~camera[d][k].zoned
    /\ Cardinality({j \in Jobs : task[j].at \in {"read", "write"} /\ ListingJob(j)}) <= 1

\* Links, requests, jobs and notices are interchangeable.
Symmetry == Permutations(Links) \cup Permutations(Workers)
=============================================================================
