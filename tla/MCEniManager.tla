---------------------------- MODULE MCEniManager -----------------------------
(* The ENI manager on small instances, driven by arbitrary calls.          *)
EXTENDS EniManager, TLC

(* Pods, interface identifiers and interface names are only compared, so   *)
(* permuting them is sound for safety.                                     *)
Symmetry ==
  Permutations(Pods) \cup Permutations(EniIds)
==============================================================================
