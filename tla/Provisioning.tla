----------------------------- MODULE Provisioning -----------------------------
(***************************************************************************)
(* services/provisioningService.ts: how a device gets its place and its    *)
(* tunnel address on a node, and loses them, under concurrent requests.    *)
(*                                                                         *)
(* Two reads come before the transaction (the device row, the load of the  *)
(* nodes), and what they returned is used inside it.  Inside it an         *)
(* advisory lock serialises the requests for one node; the upsert is one   *)
(* action with its COMMIT.  Malformed keys and names are refused before    *)
(* anything is read and are left out.  Devices is the abstract view.       *)
(***************************************************************************)
EXTENDS Devices

CONSTANTS
    Regions,
    RegionOf,   \* RegionOf[n]: the region of node n
    MaxDevices, \* MAX_DEVICES_PER_USER
    Calls       \* the requests that may be served at once

ASSUME ProvisioningAssumption ==
    /\ RegionOf \in [Nodes -> Regions]
    /\ MaxDevices \in Nat
    /\ None \notin Regions \union Calls

VARIABLES
    lock,       \* lock[n]: who holds the advisory lock of node n
    call        \* call[c]: the local state of request c

provVars == <<device, lock, call>>

CallSteps == {"idle", "read", "select", "lock", "cap", "load", "address", "upsert"}

CallState ==
    [step : CallSteps, user : Users \union {None}, key : PublicKeys \union {None},
     region : Regions \union {None}, existing : DeviceRow, node : Nodes \union {None},
     address : Addresses \union {NoAddress}]

ProvisioningTypeOK ==
    /\ device \in [PublicKeys -> DeviceRow]
    /\ lock \in [Nodes -> Calls \union {None}]
    /\ call \in [Calls -> CallState]

-----------------------------------------------------------------------------
(* Helpers.                                                                *)

Idle == [step |-> "idle", user |-> None, key |-> None, region |-> None,
         existing |-> NoDevice, node |-> None, address |-> NoAddress]

ActiveOf(u) == {k \in PublicKeys : device[k].status = "ACTIVE" /\ device[k].user = u}

\* selectHealthyNode: the nodes of the region with room, by the committed count.
WithRoom(region) ==
    {n \in Nodes : RegionOf[n] = region /\ Cardinality(ActiveOn(n)) < Capacity[n]}

\* nextFreeAddress.
FreeAddresses(n) == Addresses \ Taken(n)

Go(c, step) == call' = [call EXCEPT ![c].step = step]

Unlocked(c) == [n \in Nodes |-> IF lock[n] = c THEN None ELSE lock[n]]

\* Request c ends, and with its transaction the advisory lock.
End(c) ==
    /\ call' = [call EXCEPT ![c] = Idle]
    /\ lock' = Unlocked(c)

\* An exception: the transaction, if there is one, is rolled back.
Reject(c) == End(c) /\ UNCHANGED device

-----------------------------------------------------------------------------
(* provisionDevice.                                                        *)

ProvisioningInit ==
    /\ DevicesInit
    /\ lock = [n \in Nodes |-> None]
    /\ call = [c \in Calls |-> Idle]

\* POST /devices and POST /vpn/provision: any key, any region.
Provision(c, u, k, region) ==
    /\ call[c].step = "idle"
    /\ call' = [call EXCEPT ![c] = [Idle EXCEPT !.step = "read", !.user = u, !.key = k,
                                                !.region = region]]
    /\ UNCHANGED <<device, lock>>

\* POST /vpn/change-region: the same, for a device that was ACTIVE when looked up.
ChangeRegion(c, k, region) ==
    /\ device[k].status = "ACTIVE"
    /\ Provision(c, device[k].user, k, region)

ReadExisting(c) ==
    LET k == call[c].key
    IN  /\ call[c].step = "read"
        /\ device[k].status # "NONE" => device[k].user = call[c].user
        /\ call' = [call EXCEPT ![c].step = "select", ![c].existing = device[k]]
        /\ UNCHANGED <<device, lock>>

KeyInUse(c) ==
    LET k == call[c].key
    IN  /\ call[c].step = "read"
        /\ device[k].status # "NONE"
        /\ device[k].user # call[c].user
        /\ Reject(c)

\* A least loaded one of the nodes with room.
SelectNode(c) ==
    /\ call[c].step = "select"
    /\ \E n \in WithRoom(call[c].region) :
         /\ \A m \in WithRoom(call[c].region) :
              Cardinality(ActiveOn(n)) <= Cardinality(ActiveOn(m))
         /\ call' = [call EXCEPT ![c].step = "lock", ![c].node = n]
    /\ UNCHANGED <<device, lock>>

NoCapacity(c) ==
    /\ call[c].step = "select"
    /\ WithRoom(call[c].region) = {}
    /\ Reject(c)

\* pg_advisory_xact_lock: waits for the holder's transaction to end.
LockNode(c) ==
    /\ call[c].step = "lock"
    /\ lock[call[c].node] = None
    /\ lock' = [lock EXCEPT ![call[c].node] = c]
    /\ Go(c, "cap")
    /\ UNCHANGED device

IsNewDevice(c) == call[c].existing.status = "NONE"

\* A key that has a row already is not counted against the cap.
CapAllows(c) ==
    /\ call[c].step = "cap"
    /\ IsNewDevice(c) => Cardinality(ActiveOf(call[c].user)) < MaxDevices
    /\ Go(c, "load")
    /\ UNCHANGED <<device, lock>>

CapRefuses(c) ==
    /\ call[c].step = "cap"
    /\ IsNewDevice(c)
    /\ Cardinality(ActiveOf(call[c].user)) >= MaxDevices
    /\ Reject(c)

IsNewToThisNode(c) ==
    \/ call[c].existing.node # call[c].node
    \/ call[c].existing.status # "ACTIVE"

\* Mutant: the load is not counted again under the lock.
LoadUnchecked(c) ==
    /\ call[c].step = "load"
    /\ Go(c, "address")
    /\ UNCHANGED <<device, lock>>

LoadAllows(c) ==
    /\ call[c].step = "load"
    /\ IsNewToThisNode(c) => Cardinality(ActiveOn(call[c].node)) < Capacity[call[c].node]
    /\ Go(c, "address")
    /\ UNCHANGED <<device, lock>>

LoadRefuses(c) ==
    /\ call[c].step = "load"
    /\ IsNewToThisNode(c)
    /\ Cardinality(ActiveOn(call[c].node)) >= Capacity[call[c].node]
    /\ Reject(c)

\* The address the row had on this node when it was read, or else the lowest free.
Allocate(c) ==
    LET n == call[c].node
        old == call[c].existing
    IN  /\ call[c].step = "address"
        /\ \/ /\ old.node = n
              /\ old.address # NoAddress
              /\ call' = [call EXCEPT ![c].step = "upsert", ![c].address = old.address]
           \/ /\ old.node # n \/ old.address = NoAddress
              /\ FreeAddresses(n) # {}
              /\ call' = [call EXCEPT ![c].step = "upsert", ![c].address = Min(FreeAddresses(n))]
        /\ UNCHANGED <<device, lock>>

SubnetFull(c) ==
    /\ call[c].step = "address"
    /\ call[c].existing.node # call[c].node \/ call[c].existing.address = NoAddress
    /\ FreeAddresses(call[c].node) = {}
    /\ Reject(c)

AddressHeld(c) == Held(call[c].key, call[c].node, call[c].address)

\* Mutant: the update of the upsert sets the user as well.
UpsertedTakingOver(c, old) ==
    [status |-> "ACTIVE", user |-> call[c].user, node |-> call[c].node, address |-> call[c].address]

\* The row after the upsert: a row that is there by now keeps its user.
Upserted(c, old) ==
    [status |-> "ACTIVE", user |-> IF old.status = "NONE" THEN call[c].user ELSE old.user,
     node |-> call[c].node, address |-> call[c].address]

\* tx.device.upsert by public key, and COMMIT.
Upsert(c) ==
    /\ call[c].step = "upsert"
    /\ ~AddressHeld(c)
    /\ device' = [device EXCEPT ![call[c].key] = Upserted(c, @)]
    /\ End(c)

AddressConflict(c) ==
    /\ call[c].step = "upsert"
    /\ AddressHeld(c)
    /\ Reject(c)

\* The server stops, the connection drops or the transaction times out.
Abort(c) ==
    /\ call[c].step # "idle"
    /\ Reject(c)

-----------------------------------------------------------------------------
(* revokeDevice.  The row is looked up by its id and its user first; neither *)
(* ever changes, so the update alone counts.                                 *)

\* Mutant: the address is given back but the device stays ACTIVE.
RevokeAddress(k) ==
    /\ device[k].status # "NONE"
    /\ device' = [device EXCEPT ![k].address = NoAddress]
    /\ UNCHANGED <<lock, call>>

Revoke(k) == Withdraw(k) /\ UNCHANGED <<lock, call>>

-----------------------------------------------------------------------------

Statement(c) ==
    \/ ReadExisting(c) \/ KeyInUse(c)
    \/ SelectNode(c) \/ NoCapacity(c)
    \/ LockNode(c)
    \/ CapAllows(c) \/ CapRefuses(c)
    \/ LoadAllows(c) \/ LoadRefuses(c)
    \/ Allocate(c) \/ SubnetFull(c)
    \/ Upsert(c) \/ AddressConflict(c)

ProvisioningNext ==
    \/ \E c \in Calls, k \in PublicKeys, region \in Regions :
         ChangeRegion(c, k, region) \/ \E u \in Users : Provision(c, u, k, region)
    \/ \E c \in Calls : Statement(c) \/ Abort(c)
    \/ \E k \in PublicKeys : Revoke(k)

ProvisioningSpec == ProvisioningInit /\ [][ProvisioningNext]_provVars

-----------------------------------------------------------------------------
(* What must hold.                                                         *)

\* No node serves more devices than its capacity.  The recheck under the lock does
\* not see to it alone: it is skipped for a row that was ACTIVE on the node when
\* read and may have been revoked, and its place taken, since.
NodeWithinCapacity == \A n \in Nodes : Cardinality(ActiveOn(n)) <= Capacity[n]

\* The one authorization query and its single-row form, which leaves out the clause
\* on the address, give the same answer whoever is entitled.
QueriesAgree ==
    \A entitled \in SUBSET Users : \A k \in PublicKeys :
        DeviceAuthorised(k, entitled) <=> \E n \in Nodes : k \in AllowedPeers(n, entitled)

\* To everybody else a request is one step that puts a device on a node, at an address
\* that is free and within the capacity, or is nothing.  A row that is there by then
\* stays its user's; that its device may have been placed by the request of another
\* account, which looked the key up before, is what this property does not exclude.
PlacementsKept == DevicesSpec

=============================================================================
