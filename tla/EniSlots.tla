------------------------------ MODULE EniSlots -------------------------------
(***************************************************************************)
(* What the ENI manager promises about attachments, whatever EC2 answers   *)
(* and whenever the agent dies: every pod has one slot, a slot is filled   *)
(* with an interface no other pod holds, and it is emptied before it is    *)
(* filled again.  How the code finds, creates and waits for interfaces is  *)
(* not said here; EniManager is shown to implement this module.            *)
(***************************************************************************)
CONSTANTS Pods, EniIds

VARIABLE held    \* held[p]: the interfaces attached for pod p

Init == held = [p \in Pods |-> {}]

Fill(p, e) ==
  /\ held[p] = {}
  /\ \A q \in Pods : e \notin held[q]
  /\ held' = [held EXCEPT ![p] = {e}]

Empty(p) ==
  /\ held[p] # {}
  /\ held' = [held EXCEPT ![p] = {}]

Next == \E p \in Pods : Empty(p) \/ \E e \in EniIds : Fill(p, e)

Spec == Init /\ [][Next]_held
==============================================================================
