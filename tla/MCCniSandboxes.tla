---------------------------- MODULE MCCniSandboxes ----------------------------
(* The CNI processes of a node with few sandboxes. *)
EXTENDS CniSandboxes
==============================================================================
