---------------------------- MODULE MCMultiVpcNode ----------------------------
(* The node on small instances. *)
EXTENDS MultiVpcNode, TLC

Symmetry == Permutations(Pods) \cup Permutations(EniIds) \cup Permutations(V4)
==============================================================================
