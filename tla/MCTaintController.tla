-------------------------- MODULE MCTaintController --------------------------
(* The taint controller on small clusters. *)
EXTENDS TaintController
==============================================================================
