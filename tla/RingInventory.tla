--------------------------- MODULE RingInventory ----------------------------
(***************************************************************************)
(* The devices and cameras of one Ring connection                          *)
(* (ring_inventory_service.py and the device events of ring_webhook.py).   *)
(* A listing, or the detail of one device, is read from Ring without any   *)
(* lock and written later under the lock of the connection; meanwhile Ring *)
(* changes, and its notices arrive late, in any order or never.            *)
(***************************************************************************)
EXTENDS Naturals, Sequences, FiniteSets

CONSTANTS Devices,     \* provider_device_id
          Keys,        \* component_key of a device's lenses
          Jobs,        \* requests and jobs that can be under way at once
          MaxClaims,   \* claims of one notice (5 in claim_next_ring_webhook)
          MaxChanges   \* bound: changes at Ring

VARIABLES
    ring,         \* external: [linked, parts, online], the lenses Ring has of each device
    changes,      \* external: how often Ring has changed; its clock
    wire,         \* external: signed notices on their way
    queue,        \* ring_webhook_inbox, in the order of received_at
    connection,   \* integration_state, in which "DISCONNECTED" is every state that serves nobody, and
                  \* operational_health, in which both degraded states are "DEGRADED"
    device,       \* camera_provider_devices
    camera,       \* camera_provider_components, each with its row of cameras
    task,         \* what each job is doing
    gone,         \* history: devices away from Ring whose last removal has been applied
    raced,        \* history: devices written back from a detail read before they were removed
    basis         \* history: the newest time a device's status has stood for

ringSide == <<ring, changes, wire>>
inventory == <<connection, device, camera>>
inventoryHistory == <<gone, raced, basis>>
inventoryVars == <<ringSide, queue, inventory, task, inventoryHistory>>

NoDevice == [state |-> "none", online |-> FALSE, observed |-> 0]
NoCamera == [state |-> "none", status |-> "none", zoned |-> FALSE]
Resting == [at |-> "idle", notice |-> 0, seen |-> <<>>]

\* Readings of the server's clock fall between the changes at Ring; waiting for a lock takes no time.
Changed == 2 * (changes + 1)
Clock == 2 * changes + 1

Attached == {d \in Devices : ring.parts[d] # {}}
AtPlace(j, place) == task[j].at = place
Move(j, place) == task' = [task EXCEPT ![j].at = place]
TaskEnds(j) == task' = [task EXCEPT ![j] = Resting]
Notice(j) == queue[task[j].notice]
ListingJob(j) == task[j].notice = 0

InventoryInit ==
    /\ ring = [linked |-> TRUE, parts |-> [d \in Devices |-> {}],
               online |-> [d \in Devices |-> FALSE]]
    /\ changes = 0 /\ wire = {} /\ queue = <<>>
    /\ connection = [state |-> "CONFIGURING", health |-> "ACTIVE"]
    /\ device = [d \in Devices |-> NoDevice]
    /\ camera = [d \in Devices |-> [k \in Keys |-> NoCamera]]
    /\ task = [j \in Jobs |-> Resting]
    /\ gone = {} /\ raced = {} /\ basis = [d \in Devices |-> 0]

-----------------------------------------------------------------------------
(* Ring (external) *)

Tell(kind, d) == wire' = wire \cup {[kind |-> kind, device |-> d, at |-> Changed]}
RingChanges == ring.linked /\ changes < MaxChanges /\ changes' = changes + 1

RingAdds(d, parts) ==
    /\ RingChanges /\ d \notin Attached
    /\ ring' = [ring EXCEPT !.parts[d] = parts] /\ Tell("device_added", d)
    /\ gone' = gone \ {d} /\ raced' = raced \ {d}
RingRemoves(d) ==
    /\ RingChanges /\ d \in Attached
    /\ ring' = [ring EXCEPT !.parts[d] = {}] /\ Tell("device_removed", d)
    /\ UNCHANGED <<gone, raced>>
RingRefits(d, parts) ==
    /\ RingChanges /\ d \in Attached /\ ring.parts[d] # parts
    /\ ring' = [ring EXCEPT !.parts[d] = parts]
    /\ UNCHANGED <<wire, gone, raced>>
RingSwitches(d) ==
    /\ RingChanges /\ d \in Attached
    /\ ring' = [ring EXCEPT !.online[d] = ~ring.online[d]]
    /\ Tell(IF ring.online[d] THEN "device_offline" ELSE "device_online", d)
    /\ UNCHANGED <<gone, raced>>
RingUnlinks(d) ==
    /\ RingChanges /\ ring' = [ring EXCEPT !.linked = FALSE] /\ Tell("app_integration_removed", d)
    /\ UNCHANGED <<gone, raced>>

RingStep ==
    /\ \E d \in Devices :
          \/ \E parts \in SUBSET Keys \ {{}} : RingAdds(d, parts) \/ RingRefits(d, parts)
          \/ RingRemoves(d) \/ RingSwitches(d) \/ RingUnlinks(d)
    /\ UNCHANGED <<queue, inventory, task, basis>>

-----------------------------------------------------------------------------
(* Jobs: a listing somebody asks for, or a notice that is processed *)

\* ingest: one row per request_id; a second delivery changes nothing.
Ingest ==
    /\ \E n \in wire :
          /\ wire' = wire \ {n}
          /\ queue' = Append(queue, [kind |-> n.kind, device |-> n.device, at |-> n.at,
                                     state |-> "RECEIVED", claims |-> 0])
    /\ UNCHANGED <<ring, changes, inventory, task, inventoryHistory>>

Sync(j) ==
    /\ AtPlace(j, "idle") /\ Move(j, "read")
    /\ UNCHANGED <<ringSide, queue, inventory, inventoryHistory>>

\* The oldest that is ready; one that failed may be waiting for its next attempt.
Ready(i) ==
    /\ queue[i].state \in {"RECEIVED", "FAILED_RETRYABLE"} /\ queue[i].claims < MaxClaims
    /\ \A k \in 1..(i - 1) : queue[k].state # "RECEIVED"

ClaimEvent(j) ==
    /\ AtPlace(j, "idle")
    /\ \E i \in 1..Len(queue) :
          /\ Ready(i)
          /\ queue' = [queue EXCEPT ![i].state = "PROCESSING", ![i].claims = queue[i].claims + 1]
          /\ task' = [task EXCEPT ![j].notice = i, ![j].at =
                         IF queue[i].kind = "device_added" THEN "read" ELSE "apply"]
    /\ UNCHANGED <<ringSide, inventory, inventoryHistory>>

\* get_valid_access_token serves connections being configured too.  discover_devices gives every device Ring has,
\* get_device the one that was added; a 401 is answered by one refresh and the same request again.
Read(j) ==
    /\ AtPlace(j, "read") /\ connection.state # "DISCONNECTED" /\ ring.linked
    /\ ~ListingJob(j) => Notice(j).device \in Attached
    /\ LET listed == IF ListingJob(j) THEN Attached ELSE {Notice(j).device} IN
       task' = [task EXCEPT ![j].at = "write", ![j].seen = [d \in listed |->
                    [parts |-> ring.parts[d], online |-> ring.online[d]]]]
    /\ UNCHANGED <<ringSide, queue, inventory, inventoryHistory>>

\* The credential is refused, or Ring fails: _record_failure, in a transaction of its own.
Degrade(j) ==
    /\ AtPlace(j, "read") /\ ListingJob(j) /\ TaskEnds(j)
    /\ connection' = IF connection.health = "REMOTE_REMOVED" THEN connection
                     ELSE [connection EXCEPT !.health = "DEGRADED"]
    /\ UNCHANGED <<ringSide, queue, device, camera, inventoryHistory>>

-----------------------------------------------------------------------------
(* _reconcile_device *)

\* Both callers look at the connection again once they hold its lock.
Accepting == connection.state = "ACTIVE" /\ connection.health # "REMOTE_REMOVED"

\* A removed device is left alone by a listing.
WritesAll(seen, restore) == DOMAIN seen   \* faulty variant: whatever Ring lists is restored
Written(seen, restore) == {d \in DOMAIN seen : restore \/ device[d].state # "REMOVED"}

\* A lens that Ring lists is there, and its camera is in use again, in its zone if it has one; a
\* lens it lists no longer is removed and its camera disabled.
Restored(c) == IF c.status # "DISABLED" THEN c.status ELSE IF c.zoned THEN "ACTIVE" ELSE "DISCOVERED"
Disabled(c) ==
    IF c.state = "none" THEN c ELSE [c EXCEPT !.state = "REMOVED", !.status = "DISABLED"]
Merged(c, listed) ==
    CASE listed /\ c.state = "none" -> [state |-> "ACTIVE", status |-> "DISCOVERED", zoned |-> FALSE]
      [] listed /\ c.state # "none" -> [c EXCEPT !.state = "ACTIVE", !.status = Restored(c)]
      [] OTHER -> Disabled(c)

Reconcile(seen, restore) ==
    LET written == Written(seen, restore) IN
    /\ device' = [d \in Devices |-> IF d \notin written THEN device[d]
                     ELSE [state |-> "ACTIVE", online |-> seen[d].online, observed |-> Clock]]
    /\ camera' = [d \in Devices |-> IF d \notin written THEN camera[d]
                     ELSE [k \in Keys |-> Merged(camera[d][k], k \in seen[d].parts)]]
    /\ basis' = [d \in Devices |-> IF d \in written THEN Clock ELSE basis[d]]

WriteListing(j) ==
    /\ AtPlace(j, "write") /\ ListingJob(j) /\ TaskEnds(j)
    /\ IF Accepting THEN /\ Reconcile(task[j].seen, FALSE)
                         /\ connection' = [connection EXCEPT !.health = "ACTIVE"]
       ELSE UNCHANGED <<inventory, basis>>
    /\ UNCHANGED <<ringSide, queue, gone, raced>>

WriteDetail(j) ==
    /\ AtPlace(j, "write") /\ ~ListingJob(j) /\ Accepting /\ Move(j, "apply")
    /\ Reconcile(task[j].seen, TRUE)
    /\ raced' = raced \cup (gone \cap DOMAIN task[j].seen)
    /\ UNCHANGED <<ringSide, queue, connection, gone>>

-----------------------------------------------------------------------------
(* _apply, and the end of a notice *)

Timely(n) == n.at >= device[n.device].observed

\* _remove_device on a set of devices.
RemoveDevices(S) ==
    /\ device' = [d \in Devices |-> IF d \in S THEN [device[d] EXCEPT !.state = "REMOVED"]
                                    ELSE device[d]]
    /\ camera' = [d \in Devices |-> IF d \in S THEN [k \in Keys |-> Disabled(camera[d][k])]
                                    ELSE camera[d]]

Known == {d \in Devices : device[d].state # "none"}

ApplyStatus(n) ==
    /\ n.kind \in {"device_online", "device_offline"}
    /\ IF n.device \in Known /\ Timely(n)
       THEN /\ device' = [device EXCEPT ![n.device].online = n.kind = "device_online",
                                        ![n.device].observed = n.at]
            /\ basis' = [basis EXCEPT ![n.device] = IF basis[n.device] > n.at THEN Changed ELSE n.at]
       ELSE UNCHANGED <<device, basis>>
    /\ UNCHANGED <<connection, camera, gone, raced>>

ApplyRemoval(n) ==
    /\ n.kind = "device_removed" /\ RemoveDevices({n.device} \cap Known)
    /\ LET final == n.device \notin Attached /\ n.device \in Known
                    /\ \A m \in wire \cup {queue[i] : i \in 1..Len(queue)} :
                          m.kind = "device_removed" /\ m.device = n.device => m.at <= n.at IN
       /\ gone' = IF final THEN gone \cup {n.device} ELSE gone
       /\ raced' = IF n.device \in Known THEN raced \ {n.device} ELSE raced
    /\ UNCHANGED <<connection, basis>>

ApplyUnlinking(n) ==
    /\ n.kind = "app_integration_removed" /\ RemoveDevices(Known)
    /\ connection' = [state |-> "DISCONNECTED", health |-> "REMOTE_REMOVED"]
    /\ UNCHANGED inventoryHistory

Apply(j) ==
    /\ AtPlace(j, "apply") /\ Move(j, "finish")
    /\ \/ ApplyStatus(Notice(j)) \/ ApplyRemoval(Notice(j)) \/ ApplyUnlinking(Notice(j))
       \/ Notice(j).kind = "device_added" /\ UNCHANGED <<inventory, inventoryHistory>>
    /\ UNCHANGED <<ringSide, queue>>

FinishEvent(j, state) ==
    /\ ~ListingJob(j) /\ TaskEnds(j)
    /\ queue' = [queue EXCEPT ![task[j].notice].state = state]
    /\ UNCHANGED <<ringSide, inventory, inventoryHistory>>

\* An exception: the notice is tried again, up to the limit.  After _apply only the deletion of a
\* credential can raise one.
GiveUp(j) ==
    /\ task[j].at \in {"read", "write", "apply", "finish"} /\ ~ListingJob(j)
    /\ AtPlace(j, "finish") => Notice(j).kind = "app_integration_removed"
    /\ FinishEvent(j, IF Notice(j).claims < MaxClaims THEN "FAILED_RETRYABLE" ELSE "FAILED_PERMANENT")

\* The process dies: a notice stays PROCESSING and is not claimed again.
Die(j) ==
    /\ ~AtPlace(j, "idle") /\ TaskEnds(j)
    /\ UNCHANGED <<ringSide, queue, inventory, inventoryHistory>>

-----------------------------------------------------------------------------
(* Other writers of the same rows *)

\* RingLinkService.disconnect, or a credential that get_valid_access_token finds lost.
DisconnectAccount ==
    /\ connection.state # "DISCONNECTED" /\ connection' = [connection EXCEPT !.state = "DISCONNECTED"]
    /\ UNCHANGED <<ringSide, queue, device, camera, task, inventoryHistory>>

\* _activate takes no lock: it reads that the connection is being configured, and then writes its state
\* over whatever was committed in between.
FindConfiguring(j) ==
    /\ AtPlace(j, "idle") /\ connection.state = "CONFIGURING" /\ Move(j, "activate")
    /\ UNCHANGED <<ringSide, queue, inventory, inventoryHistory>>
WriteActive(j) ==
    /\ AtPlace(j, "activate") /\ TaskEnds(j) /\ connection' = [connection EXCEPT !.state = "ACTIVE"]
    /\ UNCHANGED <<ringSide, queue, device, camera, inventoryHistory>>

\* External: an operator gives a camera its zone.
AssignZone(d, k) ==
    /\ camera[d][k].state # "none" /\ ~camera[d][k].zoned
    /\ camera' = [camera EXCEPT ![d][k].zoned = TRUE,
                     ![d][k].status = IF camera[d][k].status = "DISCOVERED" THEN "ACTIVE"
                                      ELSE camera[d][k].status]
    /\ UNCHANGED <<ringSide, queue, connection, device, task, inventoryHistory>>

JobStep(j) ==
    \/ Sync(j) \/ ClaimEvent(j) \/ Read(j) \/ Degrade(j) \/ FindConfiguring(j) \/ WriteActive(j)
    \/ WriteListing(j) \/ WriteDetail(j) \/ Apply(j) \/ GiveUp(j) \/ Die(j)
    \/ AtPlace(j, "finish") /\ FinishEvent(j, "PROCESSED")

InventoryNext ==
    \/ RingStep \/ Ingest \/ DisconnectAccount
    \/ \E j \in Jobs : JobStep(j)
    \/ \E d \in Devices, k \in Keys : AssignZone(d, k)

InventorySpec == InventoryInit /\ [][InventoryNext]_inventoryVars

-----------------------------------------------------------------------------
(* Properties *)

InventoryTypeOK ==
    /\ connection.state \in {"CONFIGURING", "ACTIVE", "DISCONNECTED"}
    /\ connection.health \in {"ACTIVE", "DEGRADED", "REMOTE_REMOVED"}
    /\ device \in [Devices -> [state : {"none", "ACTIVE", "REMOVED"}, online : BOOLEAN,
                               observed : 0..Changed]]
    /\ camera \in [Devices -> [Keys -> [state : {"none", "ACTIVE", "REMOVED"},
                       status : {"none", "DISCOVERED", "ACTIVE", "DISABLED"}, zoned : BOOLEAN]]]

\* ring-webhooks.md, Recovery: once a removal of the integration is applied no device or camera
\* comes back, whatever was being read or recorded meanwhile, and though an activation that was under
\* way may set the connection ACTIVE again.  A removed device has no lens in use, and a lens is removed
\* exactly when its camera is disabled.
RemovalComplete ==
    /\ \A i \in 1..Len(queue) : queue[i].kind = "app_integration_removed" /\ queue[i].state = "PROCESSED"
          => connection.health = "REMOTE_REMOVED"
    /\ connection.health = "REMOTE_REMOVED" => \A d \in Devices : device[d].state # "ACTIVE"
    /\ \A d \in Devices, k \in Keys :
          /\ device[d].state = "REMOVED" => camera[d][k].state # "ACTIVE"
          /\ camera[d][k].state = "REMOVED" <=> camera[d][k].status = "DISABLED"

\* ring-device-inventory.md, Identity: a full listing never overrides a signed removal.  A device
\* away from Ring whose removal was applied stays removed, but for a device_added that had read it
\* before Ring removed it.
TombstoneStands == \A d \in gone : device[d].state = "ACTIVE" => d \in raced

\* ring-device-inventory.md, Normalized state: an online or offline notice never replaces a status
\* that was true later than the notice.
StatusInOrder == \A d \in Devices : basis[d] <= device[d].observed

\* A camera keeps its zone through removal and return: it is in use exactly where it has one.
ZonesKept ==
    \A d \in Devices, k \in Keys : camera[d][k].state = "ACTIVE" =>
        camera[d][k].status = (IF camera[d][k].zoned THEN "ACTIVE" ELSE "DISCOVERED")

InventoryInv ==
    InventoryTypeOK /\ RemovalComplete /\ TombstoneStands /\ StatusInOrder /\ ZonesKept
=============================================================================
