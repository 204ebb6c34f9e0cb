------------------------------- MODULE PodLinks -------------------------------
(***************************************************************************)
(* What a node promises to its pods: the interface that a pod is linked to *)
(* is the one in its slot, and a slot is not emptied while its pod is      *)
(* linked.  Reports, releases, queues, sandboxes and crashes are not said  *)
(* here.  MultiVpcNode is shown to implement this module, with the pods    *)
(* linked that run in a sandbox begun when no release of them was left.    *)
(***************************************************************************)
CONSTANTS Pods, EniIds, None

VARIABLES
  held,    \* held[p]: the interfaces attached for pod p, as in EniSlots
  link     \* link[p]: the interface pod p is linked to, or None

Slots == INSTANCE EniSlots

Init == Slots!Init /\ link = [p \in Pods |-> None]

Fill(p, e) == Slots!Fill(p, e) /\ UNCHANGED link

Empty(p) == link[p] = None /\ Slots!Empty(p) /\ UNCHANGED link

Link(p) ==
  /\ link[p] = None
  /\ \E e \in held[p] : link' = [link EXCEPT ![p] = e]
  /\ UNCHANGED held

Unlink(p) ==
  /\ link[p] # None
  /\ link' = [link EXCEPT ![p] = None]
  /\ UNCHANGED held

Next ==
  \E p \in Pods : Empty(p) \/ Link(p) \/ Unlink(p) \/ \E e \in EniIds : Fill(p, e)

Spec == Init /\ [][Next]_<<held, link>>
==============================================================================
