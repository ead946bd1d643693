--------------------------- MODULE MCProvisioning ---------------------------
(* Provisioning for TLC: two nodes, in a region each.                        *)
EXTENDS Provisioning, TLC

CONSTANTS n1, n2, east, west, Room

MCRegionOf == [n \in Nodes |-> IF n = n1 THEN east ELSE west]

\* With LastHost between the two, n1 has fewer places than addresses and n2 more.
MCCapacity == [n \in Nodes |-> IF n = n1 THEN Room ELSE Room + 2]

\* The requests, the users and the keys are interchangeable.
ProvisioningSymmetry ==
    Permutations(Calls) \union Permutations(Users) \union Permutations(PublicKeys)
=============================================================================
