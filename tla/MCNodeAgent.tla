---------------------------- MODULE MCNodeAgent ----------------------------
(* NodeAgent for TLC: one node, which is all that an agent knows of.         *)
EXTENDS NodeAgent

CONSTANT Room

MCCapacity == [n \in Nodes |-> Room]
=============================================================================
