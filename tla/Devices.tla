------------------------------ MODULE Devices ------------------------------
(***************************************************************************)
(* The Device rows as the rest of the system may think of them: a device   *)
(* is put on a node, with an address nobody else has there and while there *)
(* is room, or is withdrawn, each in one step.  Provisioning shows that    *)
(* services/provisioningService.ts does no more than that.  Here too are   *)
(* the two queries of services/authorizationService.ts over the rows.      *)
(***************************************************************************)
EXTENDS Integers, FiniteSetsExt

CONSTANTS
    Users,
    PublicKeys, \* the keys of the devices: a Device row per key
    Nodes,      \* the HEALTHY nodes with a real public key, in active regions
    Capacity,   \* Capacity[n]: VPNNode.capacity
    LastHost,   \* the hosts 1 .. LastHost of a subnet may be allocated (10 to 254)
    None        \* no user, no node

ASSUME DevicesAssumption ==
    /\ Capacity \in [Nodes -> Nat]
    /\ LastHost \in Nat
    /\ None \notin Users \union Nodes

VARIABLE device \* device[k]: the committed Device row of key k

NoAddress == 0

Addresses == 1 .. LastHost

DeviceRow == [status : {"NONE", "ACTIVE", "REVOKED"}, user : Users \union {None},
              node : Nodes \union {None}, address : Addresses \union {NoAddress}]

NoDevice == [status |-> "NONE", user |-> None, node |-> None, address |-> NoAddress]

ActiveOn(n) == {k \in PublicKeys : device[k].status = "ACTIVE" /\ device[k].node = n}

\* The addresses of node n that some row holds.
Taken(n) == {device[k].address : k \in {j \in PublicKeys : device[j].node = n}} \ {NoAddress}

\* The unique index on (nodeId, internalIp): address a of node n is another's than k's.
Held(k, n, a) == \E l \in PublicKeys \ {k} : device[l].node = n /\ device[l].address = a

-----------------------------------------------------------------------------

DevicesInit == device = [k \in PublicKeys |-> NoDevice]

\* A row, once there, keeps its user.  u is whose the device is afterwards, not whose the
\* request was.
Place(k, u, n, a) ==
    /\ ~Held(k, n, a)
    /\ Cardinality(ActiveOn(n) \union {k}) <= Capacity[n]
    /\ device[k].status # "NONE" => u = device[k].user
    /\ device' = [device EXCEPT ![k] = [status |-> "ACTIVE", user |-> u, node |-> n, address |-> a]]

Withdraw(k) ==
    /\ device[k].status # "NONE"
    /\ device' = [device EXCEPT ![k].status = "REVOKED", ![k].address = NoAddress]

DevicesNext ==
    \E k \in PublicKeys :
        \/ \E u \in Users, n \in Nodes, a \in Addresses : Place(k, u, n, a)
        \/ Withdraw(k)

DevicesSpec == DevicesInit /\ [][DevicesNext]_device

-----------------------------------------------------------------------------
(* The queries, for the users `entitled`: ACTIVE, with minutes left.         *)

AllowedPeers(n, entitled) ==
    {k \in ActiveOn(n) : device[k].address # NoAddress /\ device[k].user \in entitled}

DeviceAuthorised(k, entitled) == device[k].status = "ACTIVE" /\ device[k].user \in entitled
=============================================================================
