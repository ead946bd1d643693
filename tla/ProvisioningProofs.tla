-------------------------- MODULE ProvisioningProofs --------------------------
(***************************************************************************)
(* Proofs about Provisioning, for any users, keys, nodes, regions and      *)
(* number of concurrent requests, and any capacity and size of a subnet.   *)
(*                                                                         *)
(* The argument: a request that counted fewer ACTIVE devices than the      *)
(* capacity under the node's lock finds one of the addresses 1 .. capacity *)
(* free, and takes the lowest; so no address is ever above the capacity,   *)
(* and since no two devices of a node share one, no more devices than the  *)
(* capacity are there, whatever the stale reads let through.               *)
(***************************************************************************)
EXTENDS Provisioning, FiniteSetTheorems, WellFoundedInduction, TLAPS

\* A row that was read at some time: ACTIVE with an address within the capacity of its
\* node, or without an address.
RowOK(r) ==
    /\ r.status # "NONE" => r.user \in Users /\ r.node \in Nodes
    /\ r.address # NoAddress => r.status = "ACTIVE"
    /\ r.status = "ACTIVE" => r.address # NoAddress /\ r.address <= Capacity[r.node]

\* No two devices have one address of one node.
AddressesUnique ==
    \A k, l \in PublicKeys :
        /\ k # l
        /\ device[k].status = "ACTIVE" /\ device[l].status = "ACTIVE"
        /\ device[k].node = device[l].node
        => device[k].address # device[l].address

Rows == (\A k \in PublicKeys : RowOK(device[k])) /\ AddressesUnique

Locking == {"cap", "load", "address", "upsert"}

\* What a request knows at its step, and goes on to rely on.
CallOK(c) ==
    /\ RowOK(call[c].existing)
    /\ call[c].step # "idle" => call[c].user \in Users /\ call[c].key \in PublicKeys
    /\ call[c].step \in Locking \union {"lock"} => call[c].node \in Nodes
    /\ call[c].step \in Locking => lock[call[c].node] = c
    /\ call[c].step = "address" /\ IsNewToThisNode(c) =>
          Cardinality(ActiveOn(call[c].node)) < Capacity[call[c].node]
    /\ call[c].step = "upsert" =>
          call[c].address # NoAddress /\ call[c].address <= Capacity[call[c].node]

ProvisioningIInv ==
    /\ ProvisioningTypeOK
    /\ Rows
    /\ \A c \in Calls : CallOK(c)

-----------------------------------------------------------------------------
(* Lemmas about addresses.                                                 *)

\* The lowest of a set of addresses is one of them, and there is none lower.
LEMMA MinFacts ==
    ASSUME NEW S \in SUBSET Addresses, S # {}
    PROVE  Min(S) \in S /\ \A a \in S : Min(S) <= a
  <1>1. S \subseteq Nat
    BY DevicesAssumption DEF Addresses
  <1>2. PICK m \in S : \A a \in S : ~(<<a, m>> \in OpToRel(<, Nat))
    BY <1>1, NatLessThanWellFounded, WFMin
  <1>3. \A a \in S : m <= a
    <2> SUFFICES ASSUME NEW a \in S, a < m
                 PROVE  FALSE
      BY <1>1
    <2>1. <<a, m>> \in Nat \X Nat /\ <<a, m>>[1] < <<a, m>>[2]
      BY <1>1
    <2>2. <<a, m>> \in OpToRel(<, Nat)
      BY ONLY <2>1 DEF OpToRel
    <2> QED BY <1>2, <2>2
  <1> QED BY <1>3 DEF Min

\* The ACTIVE devices of a node are as many as their addresses, so no more than its
\* capacity.
LEMMA ActiveFits ==
    ASSUME ProvisioningTypeOK, Rows, NEW n \in Nodes
    PROVE  IsFiniteSet(ActiveOn(n)) /\ Cardinality(ActiveOn(n)) \in Nat
           /\ Cardinality(ActiveOn(n)) <= Capacity[n]
  <1> DEFINE f == [k \in ActiveOn(n) |-> device[k].address]
  <1>1. Capacity[n] \in Nat
    BY DevicesAssumption
  <1>2. \A k \in ActiveOn(n) : /\ k \in PublicKeys /\ device[k] \in DeviceRow
                               /\ device[k].status = "ACTIVE" /\ device[k].node = n
    BY DEF ActiveOn, ProvisioningTypeOK
  <1>3. f \in [ActiveOn(n) -> 1 .. Capacity[n]]
    <2> SUFFICES ASSUME NEW k \in ActiveOn(n)
                 PROVE  device[k].address \in 1 .. Capacity[n]
      OBVIOUS
    <2>1. device[k].address \in Addresses /\ device[k].address <= Capacity[n]
      BY <1>2 DEF Rows, RowOK, DeviceRow
    <2> QED BY <2>1, <1>1, DevicesAssumption DEF Addresses
  <1>4. \A k, l \in ActiveOn(n) : f[k] = f[l] => k = l
    BY <1>2 DEF Rows, AddressesUnique
  <1>5. f \in Injection(ActiveOn(n), 1 .. Capacity[n])
    BY <1>3, <1>4 DEF Injection, IsInjective
  <1>6. IsFiniteSet(1 .. Capacity[n]) /\ Cardinality(1 .. Capacity[n]) = Capacity[n]
    BY <1>1, FS_Interval
  <1> HIDE DEF f
  <1> QED BY <1>5, <1>6, FS_Injection, FS_CardinalityType

\* A node with fewer ACTIVE devices than its capacity has its lowest free address
\* within the capacity.
LEMMA FreeWithin ==
    ASSUME ProvisioningTypeOK, Rows, NEW n \in Nodes,
           Cardinality(ActiveOn(n)) < Capacity[n], FreeAddresses(n) # {}
    PROVE  /\ Min(FreeAddresses(n)) \in Addresses
           /\ Min(FreeAddresses(n)) <= Capacity[n]
  <1> DEFINE a == Min(FreeAddresses(n))
             f == [k \in ActiveOn(n) |-> device[k].address]
  <1>1. a \in FreeAddresses(n) /\ \A b \in FreeAddresses(n) : a <= b
    BY MinFacts DEF FreeAddresses
  <1>2. a \in Addresses /\ a \in Nat /\ Capacity[n] \in Nat /\ LastHost \in Nat
    BY <1>1, DevicesAssumption DEF FreeAddresses, Addresses
  <1> HIDE DEF a
  <1>3. Taken(n) = {device[k].address : k \in ActiveOn(n)}
    <2>1. \A k \in PublicKeys : device[k].node = n /\ device[k].address # NoAddress => k \in ActiveOn(n)
      BY DEF Rows, RowOK, ActiveOn
    <2>2. \A k \in ActiveOn(n) : k \in PublicKeys /\ device[k].node = n /\ device[k].address # NoAddress
      BY DEF Rows, RowOK, ActiveOn
    <2> QED BY <2>1, <2>2 DEF Taken
  <1>4. f \in Surjection(ActiveOn(n), Taken(n))
    BY <1>3 DEF Surjection
  <1>5. IsFiniteSet(Taken(n)) /\ Cardinality(Taken(n)) <= Cardinality(ActiveOn(n))
    <2> HIDE DEF f
    <2> QED BY <1>4, ActiveFits, FS_Surjection
  <1>6. ASSUME a > Capacity[n] PROVE FALSE
    <2>1. 1 .. Capacity[n] \subseteq Taken(n)
      BY <1>1, <1>2, <1>6 DEF FreeAddresses, Addresses
    <2>2. Cardinality(1 .. Capacity[n]) <= Cardinality(Taken(n))
      BY <1>5, <2>1, FS_Subset
    <2>3. Cardinality(1 .. Capacity[n]) = Capacity[n]
      BY <1>2, FS_Interval
    <2>4. Cardinality(Taken(n)) \in Nat /\ Cardinality(ActiveOn(n)) \in Nat
      BY <1>5, ActiveFits, FS_CardinalityType
    <2> QED BY <1>2, <1>5, <2>2, <2>3, <2>4
  <1> QED BY <1>2, <1>6 DEF a

-----------------------------------------------------------------------------
(* Lemmas about requests.                                                  *)

\* The row of a device that was never provisioned, and the request of an idle slot.
LEMMA IdleFacts ==
    /\ NoDevice \in DeviceRow /\ RowOK(NoDevice)
    /\ Idle \in CallState /\ Idle.step = "idle" /\ Idle.existing = NoDevice
  <1>1. NoDevice \in DeviceRow /\ RowOK(NoDevice)
    BY DEF NoDevice, DeviceRow, RowOK, NoAddress
  <1> QED BY <1>1 DEF Idle, CallState, CallSteps

\* What is known of a request from its type.
LEMMA CallTyped ==
    ASSUME ProvisioningTypeOK, NEW c \in Calls
    PROVE  /\ call[c] \in CallState
           /\ call[c].step \in CallSteps
           /\ call[c].user \in Users \union {None} /\ call[c].key \in PublicKeys \union {None}
           /\ call[c].region \in Regions \union {None} /\ call[c].existing \in DeviceRow
           /\ call[c].node \in Nodes \union {None} /\ call[c].address \in Addresses \union {NoAddress}
  BY DEF ProvisioningTypeOK, CallState

\* A request that stands still is not disturbed by the others: its lock stays its own,
\* and nobody is added to the node it has locked.
LEMMA OtherKept ==
    ASSUME ProvisioningIInv, NEW d \in Calls, call'[d] = call[d],
           \A n \in Nodes : lock[n] = d => lock'[n] = d /\ ActiveOn(n)' \subseteq ActiveOn(n)
    PROVE  CallOK(d)'
  <1>1. CallOK(d)
    BY DEF ProvisioningIInv
  <1>2. call[d].step \in Locking => call[d].node \in Nodes /\ lock[call[d].node] = d
    BY <1>1 DEF CallOK
  <1>3. IsNewToThisNode(d)' <=> IsNewToThisNode(d)
    BY DEF IsNewToThisNode
  <1>4. ASSUME call[d].step = "address", IsNewToThisNode(d)
        PROVE  Cardinality(ActiveOn(call[d].node)') < Capacity[call[d].node]
    <2> DEFINE n == call[d].node
    <2>1. n \in Nodes /\ lock[n] = d
      BY <1>2, <1>4 DEF Locking
    <2>2. ActiveOn(n)' \subseteq ActiveOn(n)
      BY <2>1
    <2>3. IsFiniteSet(ActiveOn(n)) /\ Cardinality(ActiveOn(n)) \in Nat
      BY <2>1, ActiveFits DEF ProvisioningIInv
    <2>4. Cardinality(ActiveOn(n)') <= Cardinality(ActiveOn(n)) /\ Cardinality(ActiveOn(n)') \in Nat
      BY <2>2, <2>3, FS_Subset, FS_CardinalityType
    <2>5. Cardinality(ActiveOn(n)) < Capacity[n]
      BY <1>1, <1>4 DEF CallOK
    <2>6. Capacity[n] \in Nat
      BY <2>1, DevicesAssumption
    <2> QED BY <2>3, <2>4, <2>5, <2>6
  <1> QED BY <1>1, <1>2, <1>3, <1>4 DEF CallOK

\* A request goes on, and neither a row nor a lock changes.
LEMMA LocalStep ==
    ASSUME ProvisioningIInv, UNCHANGED <<device, lock>>,
           NEW c \in Calls, NEW new \in CallState,
           call' = [call EXCEPT ![c] = new], CallOK(c)'
    PROVE  ProvisioningIInv'
  <1>1. call' \in [Calls -> CallState] /\ \A d \in Calls \ {c} : call'[d] = call[d]
    BY DEF ProvisioningIInv, ProvisioningTypeOK
  <1>2. ProvisioningTypeOK' /\ Rows'
    BY <1>1 DEF ProvisioningIInv, ProvisioningTypeOK, Rows, AddressesUnique, RowOK
  <1>3. \A n \in Nodes : ActiveOn(n)' = ActiveOn(n)
    BY DEF ActiveOn
  <1>4. \A d \in Calls \ {c} : CallOK(d)'
    BY <1>1, <1>3, OtherKept
  <1> QED BY <1>2, <1>4 DEF ProvisioningIInv

-----------------------------------------------------------------------------
(* One lemma per kind of step.                                             *)

\* A request begins, for any key and region.
LEMMA ProvisionInv ==
    ASSUME ProvisioningIInv, NEW c \in Calls, NEW u \in Users, NEW k \in PublicKeys,
           NEW region \in Regions, Provision(c, u, k, region)
    PROVE  ProvisioningIInv'
  <1> DEFINE new == [Idle EXCEPT !.step = "read", !.user = u, !.key = k, !.region = region]
  <1>1. /\ new \in CallState
        /\ new.step = "read" /\ new.user = u /\ new.key = k /\ new.existing = NoDevice
    BY IdleFacts DEF CallState, CallSteps, Idle
  <1>2. call' = [call EXCEPT ![c] = new] /\ UNCHANGED <<device, lock>>
    BY DEF Provision
  <1> HIDE DEF new
  <1>3. call'[c] = new
    BY <1>2 DEF ProvisioningIInv, ProvisioningTypeOK
  <1>4. CallOK(c)'
    BY <1>1, <1>3, IdleFacts DEF CallOK, RowOK, Locking
  <1> QED BY <1>1, <1>2, <1>4, LocalStep

\* change-region begins the same way, for the user of the row it found.
LEMMA ChangeRegionInv ==
    ASSUME ProvisioningIInv, NEW c \in Calls, NEW k \in PublicKeys, NEW region \in Regions,
           ChangeRegion(c, k, region)
    PROVE  ProvisioningIInv'
  <1>1. device[k].user \in Users
    BY DEF ChangeRegion, ProvisioningIInv, Rows, RowOK
  <1> QED BY <1>1, ProvisionInv DEF ChangeRegion

\* The row that is read is one that is well formed, now and later.
LEMMA ReadExistingInv ==
    ASSUME ProvisioningIInv, NEW c \in Calls, ReadExisting(c)
    PROVE  ProvisioningIInv'
  <1> DEFINE k == call[c].key
             new == [call[c] EXCEPT !.step = "select", !.existing = device[k]]
  <1>1. call[c] \in CallState /\ CallOK(c) /\ call[c].step = "read"
    BY CallTyped DEF ProvisioningIInv, ReadExisting
  <1>2. k \in PublicKeys /\ device[k] \in DeviceRow /\ RowOK(device[k])
    BY <1>1 DEF CallOK, ProvisioningIInv, ProvisioningTypeOK, Rows
  <1>3. /\ new \in CallState
        /\ new.step = "select" /\ new.user = call[c].user /\ new.key = call[c].key
        /\ new.existing = device[k]
    BY <1>1, <1>2 DEF CallState, CallSteps
  <1>4. call' = [call EXCEPT ![c] = new] /\ UNCHANGED <<device, lock>>
    BY DEF ReadExisting, ProvisioningIInv, ProvisioningTypeOK
  <1> HIDE DEF k, new
  <1>5. call'[c] = new
    BY <1>4 DEF ProvisioningIInv, ProvisioningTypeOK
  <1>6. CallOK(c)'
    BY <1>1, <1>2, <1>3, <1>5 DEF CallOK, RowOK, Locking
  <1> QED BY <1>3, <1>4, <1>6, LocalStep

\* The node that is selected is one.
LEMMA SelectNodeInv ==
    ASSUME ProvisioningIInv, NEW c \in Calls, SelectNode(c)
    PROVE  ProvisioningIInv'
  <1> PICK n \in Nodes : call' = [call EXCEPT ![c].step = "lock", ![c].node = n]
    BY DEF SelectNode, WithRoom
  <1> DEFINE new == [call[c] EXCEPT !.step = "lock", !.node = n]
  <1>1. call[c] \in CallState /\ CallOK(c) /\ call[c].step = "select"
    BY CallTyped DEF ProvisioningIInv, SelectNode
  <1>2. /\ new \in CallState
        /\ new.step = "lock" /\ new.node = n /\ new.user = call[c].user /\ new.key = call[c].key
        /\ new.existing = call[c].existing
    BY <1>1 DEF CallState, CallSteps
  <1>3. call' = [call EXCEPT ![c] = new] /\ UNCHANGED <<device, lock>>
    BY DEF SelectNode, ProvisioningIInv, ProvisioningTypeOK
  <1> HIDE DEF new
  <1>4. call'[c] = new
    BY <1>3 DEF ProvisioningIInv, ProvisioningTypeOK
  <1>5. CallOK(c)'
    BY <1>1, <1>2, <1>4 DEF CallOK, RowOK, Locking
  <1> QED BY <1>2, <1>3, <1>5, LocalStep

\* The checks under the lock: what the second one counts holds until the row is written.
LEMMA ChecksInv ==
    ASSUME ProvisioningIInv, NEW c \in Calls, CapAllows(c) \/ LoadAllows(c)
    PROVE  ProvisioningIInv'
  <1> PICK step \in {"load", "address"} :
        /\ Go(c, step)
        /\ step = "load" => call[c].step = "cap"
        /\ step = "address" =>
              /\ call[c].step = "load"
              /\ IsNewToThisNode(c) => Cardinality(ActiveOn(call[c].node)) < Capacity[call[c].node]
    BY DEF CapAllows, LoadAllows
  <1> DEFINE new == [call[c] EXCEPT !.step = step]
  <1>1. call[c] \in CallState /\ CallOK(c) /\ call[c].step \in Locking
    BY CallTyped DEF ProvisioningIInv, Locking
  <1>2. /\ new \in CallState
        /\ new.step = step /\ new.user = call[c].user /\ new.key = call[c].key
        /\ new.node = call[c].node /\ new.existing = call[c].existing
    BY <1>1 DEF CallState, CallSteps
  <1>3. call' = [call EXCEPT ![c] = new] /\ UNCHANGED <<device, lock>>
    BY DEF Go, CapAllows, LoadAllows
  <1> HIDE DEF new
  <1>4. call'[c] = new
    BY <1>3 DEF ProvisioningIInv, ProvisioningTypeOK
  <1>5. IsNewToThisNode(c)' <=> IsNewToThisNode(c)
    BY <1>2, <1>4 DEF IsNewToThisNode
  <1>6. ActiveOn(call[c].node)' = ActiveOn(call[c].node)
    BY <1>2, <1>3, <1>4 DEF ActiveOn
  <1>7. step = "address" /\ IsNewToThisNode(c)' =>
            Cardinality(ActiveOn(call[c].node))' < Capacity[call[c].node]
    BY <1>5, <1>6
  <1>8. CallOK(c)'
    BY <1>1, <1>2, <1>3, <1>4, <1>7 DEF CallOK, RowOK, Locking
  <1> QED BY <1>2, <1>3, <1>8, LocalStep

\* The address a request takes is within the capacity: the row that was read had it
\* there, or a place was counted free under the lock.
LEMMA AllocateInv ==
    ASSUME ProvisioningIInv, NEW c \in Calls, Allocate(c)
    PROVE  ProvisioningIInv'
  <1> DEFINE n == call[c].node
             old == call[c].existing
  <1>1. /\ call[c] \in CallState /\ CallOK(c) /\ call[c].step = "address"
        /\ n \in Nodes /\ lock[n] = c /\ old \in DeviceRow /\ RowOK(old)
    BY CallTyped DEF ProvisioningIInv, Allocate, CallOK, Locking
  <1>2. PICK a \in Addresses :
          /\ call' = [call EXCEPT ![c].step = "upsert", ![c].address = a]
          /\ a # NoAddress /\ a <= Capacity[n]
    <2>1. CASE old.node = n /\ old.address # NoAddress
      <3>1. old.address \in Addresses /\ old.address <= Capacity[n]
        BY <1>1, <2>1 DEF RowOK, DeviceRow
      <3>2. call' = [call EXCEPT ![c].step = "upsert", ![c].address = old.address]
        BY <2>1 DEF Allocate
      <3> QED BY <2>1, <3>1, <3>2
    <2>2. CASE old.node # n \/ old.address = NoAddress
      <3>1. IsNewToThisNode(c)
        BY <1>1, <2>2 DEF IsNewToThisNode, RowOK
      <3>2. Cardinality(ActiveOn(n)) < Capacity[n]
        BY <1>1, <3>1 DEF CallOK
      <3>3. /\ FreeAddresses(n) # {}
            /\ call' = [call EXCEPT ![c].step = "upsert", ![c].address = Min(FreeAddresses(n))]
        BY <2>2 DEF Allocate
      <3>4. Min(FreeAddresses(n)) \in Addresses /\ Min(FreeAddresses(n)) <= Capacity[n]
        BY <1>1, <3>2, <3>3, FreeWithin DEF ProvisioningIInv
      <3>5. \A a \in Addresses : a # NoAddress
        BY DevicesAssumption DEF Addresses, NoAddress
      <3> QED BY <3>3, <3>4, <3>5
    <2> QED BY <2>1, <2>2
  <1> HIDE DEF n, old
  <1> DEFINE new == [call[c] EXCEPT !.step = "upsert", !.address = a]
  <1>3. /\ new \in CallState
        /\ new.step = "upsert" /\ new.address = a /\ new.node = n
        /\ new.user = call[c].user /\ new.key = call[c].key /\ new.existing = old
    BY <1>1 DEF CallState, CallSteps, n, old
  <1>4. call' = [call EXCEPT ![c] = new] /\ UNCHANGED <<device, lock>>
    BY <1>2 DEF Allocate, ProvisioningIInv, ProvisioningTypeOK
  <1> HIDE DEF new
  <1>5. call'[c] = new
    BY <1>4 DEF ProvisioningIInv, ProvisioningTypeOK
  <1>6. CallOK(c)'
    BY <1>1, <1>2, <1>3, <1>4, <1>5 DEF CallOK, RowOK, Locking
  <1> QED BY <1>3, <1>4, <1>6, LocalStep

\* The lock was free, so nobody else has it.
LEMMA LockNodeInv ==
    ASSUME ProvisioningIInv, NEW c \in Calls, LockNode(c)
    PROVE  ProvisioningIInv'
  <1> DEFINE n == call[c].node
             new == [call[c] EXCEPT !.step = "cap"]
  <1>1. call[c] \in CallState /\ CallOK(c) /\ call[c].step = "lock" /\ n \in Nodes
    BY CallTyped DEF ProvisioningIInv, LockNode, CallOK
  <1>2. /\ new \in CallState
        /\ new.step = "cap" /\ new.node = n
        /\ new.user = call[c].user /\ new.key = call[c].key /\ new.existing = call[c].existing
    BY <1>1 DEF CallState, CallSteps
  <1>3. /\ call' = [call EXCEPT ![c] = new] /\ UNCHANGED device
        /\ lock[n] = None /\ lock' = [lock EXCEPT ![n] = c]
    BY DEF LockNode, Go
  <1> HIDE DEF n, new
  <1>4. /\ call' \in [Calls -> CallState] /\ call'[c] = new
        /\ \A d \in Calls \ {c} : call'[d] = call[d]
    BY <1>2, <1>3 DEF ProvisioningIInv, ProvisioningTypeOK
  <1>5. /\ lock' \in [Nodes -> Calls \union {None}] /\ lock'[n] = c
        /\ \A d \in Calls, m \in Nodes : lock[m] = d => lock'[m] = d
    BY <1>1, <1>3, ProvisioningAssumption DEF ProvisioningIInv, ProvisioningTypeOK
  <1>6. ProvisioningTypeOK' /\ Rows'
    BY <1>3, <1>4, <1>5 DEF ProvisioningIInv, ProvisioningTypeOK, Rows, AddressesUnique, RowOK
  <1>7. \A m \in Nodes : ActiveOn(m)' = ActiveOn(m)
    BY <1>3 DEF ActiveOn
  <1>8. \A d \in Calls \ {c} : CallOK(d)'
    BY <1>4, <1>5, <1>7, OtherKept
  <1>9. CallOK(c)'
    BY <1>1, <1>2, <1>4, <1>5 DEF CallOK, RowOK, Locking
  <1> QED BY <1>6, <1>8, <1>9 DEF ProvisioningIInv

\* A request ends and gives up its lock.  What it may have done to the rows leaves them
\* well formed and adds nobody to a node that another request has locked.
LEMMA EndStep ==
    ASSUME ProvisioningIInv, NEW c \in Calls, End(c),
           device' \in [PublicKeys -> DeviceRow], Rows',
           \A d \in Calls \ {c}, n \in Nodes : lock[n] = d => ActiveOn(n)' \subseteq ActiveOn(n)
    PROVE  ProvisioningIInv'
  <1>1. call' = [call EXCEPT ![c] = Idle] /\ lock' = Unlocked(c)
    BY DEF End
  <1>2. /\ call' \in [Calls -> CallState] /\ call'[c] = Idle
        /\ \A d \in Calls \ {c} : call'[d] = call[d]
    BY <1>1, IdleFacts DEF ProvisioningIInv, ProvisioningTypeOK
  <1>3. /\ lock' \in [Nodes -> Calls \union {None}]
        /\ \A d \in Calls \ {c}, n \in Nodes : lock[n] = d => lock'[n] = d
    BY <1>1 DEF ProvisioningIInv, ProvisioningTypeOK, Unlocked
  <1>4. \A d \in Calls \ {c} : CallOK(d)'
    BY <1>2, <1>3, OtherKept
  <1>5. CallOK(c)'
    BY <1>2, IdleFacts DEF CallOK, RowOK, Locking
  <1> QED BY <1>2, <1>3, <1>4, <1>5 DEF ProvisioningIInv, ProvisioningTypeOK

\* A request that is refused, or given up, leaves the rows as they are.
LEMMA RejectInv ==
    ASSUME ProvisioningIInv, NEW c \in Calls, Reject(c)
    PROVE  ProvisioningIInv'
  <1>1. End(c) /\ UNCHANGED device
    BY DEF Reject
  <1>2. device' \in [PublicKeys -> DeviceRow] /\ Rows'
    BY <1>1 DEF ProvisioningIInv, ProvisioningTypeOK, Rows, AddressesUnique, RowOK
  <1>3. \A n \in Nodes : ActiveOn(n)' = ActiveOn(n)
    BY <1>1 DEF ActiveOn
  <1> QED BY <1>1, <1>2, <1>3, EndStep

\* The row an upsert writes, and what that does to the nodes.
LEMMA UpsertFacts ==
    ASSUME ProvisioningIInv, NEW c \in Calls, Upsert(c)
    PROVE  \E k \in PublicKeys, u \in Users, n \in Nodes, a \in Addresses :
             /\ k = call[c].key /\ n = call[c].node
             /\ device' = [device EXCEPT ![k] = [status |-> "ACTIVE", user |-> u,
                                                 node |-> n, address |-> a]]
             /\ device[k].status # "NONE" => u = device[k].user
             /\ ~Held(k, n, a)
             /\ a # NoAddress /\ a <= Capacity[n]
             /\ lock[n] = c
             /\ device[k] \in DeviceRow
  <1> DEFINE k == call[c].key
             n == call[c].node
             a == call[c].address
             u == IF device[k].status = "NONE" THEN call[c].user ELSE device[k].user
  <1>1. CallOK(c) /\ call[c] \in CallState /\ call[c].step = "upsert"
    BY CallTyped DEF ProvisioningIInv, Upsert
  <1>2. /\ k \in PublicKeys /\ n \in Nodes /\ call[c].user \in Users
        /\ a \in Addresses /\ a # NoAddress /\ a <= Capacity[n] /\ lock[n] = c
    BY <1>1 DEF CallOK, CallState, Locking
  <1>3. device[k] \in DeviceRow /\ RowOK(device[k])
    BY <1>2 DEF ProvisioningIInv, ProvisioningTypeOK, Rows
  <1>4. u \in Users
    BY <1>2, <1>3 DEF RowOK
  <1>5. ~Held(k, n, a)
    BY DEF Upsert, AddressHeld
  <1>6. device' = [device EXCEPT ![k] = [status |-> "ACTIVE", user |-> u,
                                         node |-> n, address |-> a]]
    BY <1>2 DEF Upsert, Upserted, ProvisioningIInv, ProvisioningTypeOK
  <1> QED BY <1>2, <1>3, <1>4, <1>5, <1>6

\* An address that was free on the node, within its capacity, is given to one device;
\* on every other node there is at most one device less.
LEMMA UpsertInv ==
    ASSUME ProvisioningIInv, NEW c \in Calls, Upsert(c)
    PROVE  ProvisioningIInv'
  <1> PICK k \in PublicKeys, u \in Users, n \in Nodes, a \in Addresses :
             /\ device' = [device EXCEPT ![k] = [status |-> "ACTIVE", user |-> u,
                                                 node |-> n, address |-> a]]
             /\ ~Held(k, n, a)
             /\ a # NoAddress /\ a <= Capacity[n]
             /\ lock[n] = c
    BY UpsertFacts
  <1> DEFINE row == [status |-> "ACTIVE", user |-> u, node |-> n, address |-> a]
  <1>1. row \in DeviceRow /\ RowOK(row)
    BY DEF DeviceRow, RowOK
  <1>2. device' \in [PublicKeys -> DeviceRow] /\ device'[k] = row
        /\ \A l \in PublicKeys \ {k} : device'[l] = device[l]
    BY <1>1 DEF ProvisioningIInv, ProvisioningTypeOK
  <1>3. \A l \in PublicKeys : RowOK(device'[l])
    BY <1>1, <1>2 DEF ProvisioningIInv, Rows
  <1>4. AddressesUnique'
    BY <1>2 DEF ProvisioningIInv, Rows, AddressesUnique, Held
  <1>5. Rows'
    BY <1>3, <1>4 DEF Rows, RowOK
  <1>6. \A m \in Nodes \ {n} : ActiveOn(m)' \subseteq ActiveOn(m)
    BY <1>2 DEF ActiveOn
  <1>7. End(c)
    BY DEF Upsert
  <1> QED BY <1>2, <1>5, <1>6, <1>7, EndStep

\* A revocation gives the address back and takes the device off its node.
LEMMA RevokeInv ==
    ASSUME ProvisioningIInv, NEW k \in PublicKeys, Revoke(k)
    PROVE  ProvisioningIInv'
  <1> DEFINE row == [device[k] EXCEPT !.status = "REVOKED", !.address = NoAddress]
  <1>1. device[k] \in DeviceRow /\ RowOK(device[k]) /\ device[k].status # "NONE"
    BY DEF ProvisioningIInv, ProvisioningTypeOK, Rows, Revoke, Withdraw
  <1>2. row \in DeviceRow /\ RowOK(row) /\ row.status = "REVOKED" /\ row.address = NoAddress
    BY <1>1 DEF DeviceRow, RowOK
  <1>3. device' = [device EXCEPT ![k] = row] /\ UNCHANGED <<lock, call>>
    BY DEF Revoke, Withdraw, ProvisioningIInv, ProvisioningTypeOK
  <1> HIDE DEF row
  <1>4. device' \in [PublicKeys -> DeviceRow] /\ device'[k] = row
        /\ \A l \in PublicKeys \ {k} : device'[l] = device[l]
    BY <1>2, <1>3 DEF ProvisioningIInv, ProvisioningTypeOK
  <1>5. \A l \in PublicKeys : RowOK(device'[l])
    BY <1>2, <1>4 DEF ProvisioningIInv, Rows
  <1>6. AddressesUnique'
    BY <1>2, <1>4 DEF ProvisioningIInv, Rows, AddressesUnique
  <1>7. ProvisioningTypeOK' /\ Rows'
    BY <1>3, <1>4, <1>5, <1>6 DEF Rows, RowOK, ProvisioningIInv, ProvisioningTypeOK
  <1>8. \A m \in Nodes : ActiveOn(m)' \subseteq ActiveOn(m)
    BY <1>2, <1>4 DEF ActiveOn
  <1>9. \A d \in Calls : CallOK(d)'
    BY <1>3, <1>8, OtherKept
  <1> QED BY <1>7, <1>9 DEF ProvisioningIInv

-----------------------------------------------------------------------------
(* The invariant, and what it gives.                                       *)

\* Nothing is provisioned yet, and nobody asks.
LEMMA ProvisioningInitInv == ProvisioningInit => ProvisioningIInv
  <1> SUFFICES ASSUME ProvisioningInit PROVE ProvisioningIInv
    OBVIOUS
  <1> USE DEF ProvisioningInit
  <1>1. ProvisioningTypeOK
    BY IdleFacts DEF DevicesInit, ProvisioningTypeOK
  <1>2. Rows
    <2>1. \A k \in PublicKeys : RowOK(device[k])
      BY IdleFacts DEF DevicesInit
    <2>2. AddressesUnique
      BY DEF DevicesInit, NoDevice, AddressesUnique
    <2> QED BY <2>1, <2>2 DEF Rows
  <1>3. \A c \in Calls : CallOK(c)
    BY IdleFacts DEF CallOK, Locking
  <1> QED BY <1>1, <1>2, <1>3 DEF ProvisioningIInv

\* Every step keeps the invariant.
LEMMA ProvisioningStepInv ==
    ASSUME ProvisioningIInv, ProvisioningNext
    PROVE  ProvisioningIInv'
  <1>1. ASSUME NEW c \in Calls, NEW k \in PublicKeys, NEW region \in Regions,
               ChangeRegion(c, k, region)
        PROVE  ProvisioningIInv'
    BY <1>1, ChangeRegionInv
  <1>2. ASSUME NEW c \in Calls, NEW k \in PublicKeys, NEW region \in Regions, NEW u \in Users,
               Provision(c, u, k, region)
        PROVE  ProvisioningIInv'
    BY <1>2, ProvisionInv
  <1>3. ASSUME NEW c \in Calls, Statement(c)
        PROVE  ProvisioningIInv'
    <2>1. CASE Reject(c)
      BY <2>1, RejectInv
    <2>2. CASE ReadExisting(c)
      BY <2>2, ReadExistingInv
    <2>3. CASE SelectNode(c)
      BY <2>3, SelectNodeInv
    <2>4. CASE LockNode(c)
      BY <2>4, LockNodeInv
    <2>5. CASE CapAllows(c) \/ LoadAllows(c)
      BY <2>5, ChecksInv
    <2>6. CASE Allocate(c)
      BY <2>6, AllocateInv
    <2>7. CASE Upsert(c)
      BY <2>7, UpsertInv
    <2> QED BY <1>3, <2>1, <2>2, <2>3, <2>4, <2>5, <2>6, <2>7
            DEF Statement, KeyInUse, NoCapacity, CapRefuses, LoadRefuses, SubnetFull, AddressConflict
  <1>4. ASSUME NEW c \in Calls, Abort(c)
        PROVE  ProvisioningIInv'
    BY <1>4, RejectInv DEF Abort
  <1>5. ASSUME NEW k \in PublicKeys, Revoke(k)
        PROVE  ProvisioningIInv'
    BY <1>5, RevokeInv
  <1> QED BY <1>1, <1>2, <1>3, <1>4, <1>5 DEF ProvisioningNext

\* Nothing but the rows, the locks and the requests is spoken of.
LEMMA ProvisioningStutter ==
    ASSUME ProvisioningIInv, UNCHANGED provVars
    PROVE  ProvisioningIInv'
  <1> USE DEF provVars
  <1>1. ProvisioningTypeOK' /\ Rows'
    BY DEF ProvisioningIInv, ProvisioningTypeOK, Rows, AddressesUnique, RowOK
  <1>2. \A n \in Nodes : ActiveOn(n)' = ActiveOn(n)
    BY DEF ActiveOn
  <1>3. \A c \in Calls : CallOK(c)'
    BY <1>2, OtherKept
  <1> QED BY <1>1, <1>3 DEF ProvisioningIInv

\* The invariant holds throughout.
THEOREM ProvisioningInvariant == ProvisioningSpec => []ProvisioningIInv
  <1>1. ProvisioningIInv /\ [ProvisioningNext]_provVars => ProvisioningIInv'
    BY ProvisioningStepInv, ProvisioningStutter
  <1> QED BY ProvisioningInitInv, <1>1, PTL DEF ProvisioningSpec

\* The invariant keeps every node within its capacity.
LEMMA Fits == ProvisioningIInv => NodeWithinCapacity
  BY ActiveFits DEF ProvisioningIInv, NodeWithinCapacity

\* And so it does after a step.
LEMMA FitsNext == ProvisioningIInv' => NodeWithinCapacity'
  BY Fits, PTL

\* No node ever serves more devices than its capacity, however many requests are
\* served at once and wherever they are when a row is revoked or the server stops.
THEOREM ProvisioningCapacity == ProvisioningSpec => []NodeWithinCapacity
  BY Fits, ProvisioningInvariant, PTL

\* The query of the list of peers and the query about one device agree on every device.
THEOREM ProvisioningQueries == ProvisioningSpec => []QueriesAgree
  <1>1. ASSUME ProvisioningIInv PROVE QueriesAgree
    <2> SUFFICES ASSUME NEW entitled \in SUBSET Users, NEW k \in PublicKeys
                 PROVE  DeviceAuthorised(k, entitled)
                        <=> \E n \in Nodes : k \in AllowedPeers(n, entitled)
      BY DEF QueriesAgree
    <2>1. RowOK(device[k])
      BY <1>1 DEF ProvisioningIInv, Rows
    <2> QED BY <2>1 DEF RowOK, DeviceAuthorised, AllowedPeers, ActiveOn
  <1> QED BY <1>1, ProvisioningInvariant, PTL

\* Every step of the service is a placement, a withdrawal or nothing to its devices.
LEMMA ProvisioningRefines ==
    ASSUME ProvisioningIInv, ProvisioningIInv', ProvisioningNext
    PROVE  DevicesNext \/ UNCHANGED device
  <1>1. ASSUME NEW c \in Calls, Upsert(c)
        PROVE  DevicesNext
    <2> PICK k \in PublicKeys, u \in Users, n \in Nodes, a \in Addresses :
             /\ device' = [device EXCEPT ![k] = [status |-> "ACTIVE", user |-> u,
                                                 node |-> n, address |-> a]]
             /\ device[k].status # "NONE" => u = device[k].user
             /\ ~Held(k, n, a)
      BY <1>1, UpsertFacts
    <2>1. ActiveOn(n)' = ActiveOn(n) \union {k}
      BY DEF ActiveOn, ProvisioningIInv, ProvisioningTypeOK
    <2>2. Cardinality(ActiveOn(n)') <= Capacity[n]
      BY FitsNext DEF NodeWithinCapacity
    <2>3. Place(k, u, n, a)
      BY <2>1, <2>2 DEF Place
    <2> QED BY <2>3 DEF DevicesNext
  <1>2. ASSUME NEW k \in PublicKeys, Revoke(k)
        PROVE  DevicesNext
    BY <1>2 DEF Revoke, DevicesNext
  <1>3. ASSUME NEW c \in Calls, Statement(c) \/ Abort(c), ~Upsert(c)
        PROVE  UNCHANGED device
    BY <1>3 DEF Statement, ReadExisting, KeyInUse, SelectNode, NoCapacity, LockNode, CapAllows,
                CapRefuses, LoadAllows, LoadRefuses, Allocate, SubnetFull, AddressConflict, Abort,
                Reject
  <1> QED BY <1>1, <1>2, <1>3 DEF ProvisioningNext, ChangeRegion, Provision

\* Seen through the committed rows the service is the abstract one.
THEOREM ProvisioningImplementsDevices == ProvisioningSpec => PlacementsKept
  <1>1. ProvisioningInit => DevicesInit
    BY DEF ProvisioningInit
  <1>2. ProvisioningIInv /\ ProvisioningIInv' /\ [ProvisioningNext]_provVars => [DevicesNext]_device
    BY ProvisioningRefines DEF provVars
  <1> QED BY <1>1, <1>2, ProvisioningInvariant, PTL
          DEF ProvisioningSpec, PlacementsKept, DevicesSpec

=============================================================================
