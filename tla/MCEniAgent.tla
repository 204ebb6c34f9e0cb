----------------------------- MODULE MCEniAgent ------------------------------
(* The agent on small instances, driven by arbitrary requests and pods.    *)
EXTENDS EniAgent, TLC

Symmetry == Permutations(Pods) \cup Permutations(EniIds)
==============================================================================
