------------------------- MODULE TaintControllerProofs -------------------------
(***************************************************************************)
(* Proofs about the taint controller, for any number of replicas and       *)
(* nodes, any number of attempts and any bound on the disturbances.        *)
(***************************************************************************)
EXTENDS TaintController, TLAPS

LEMMA OutdatedTyped ==
  ASSUME copy \in [Replicas -> Copy \cup {Absent}], NEW n \in Nodes
  PROVE  /\ Outdated(n) \in [Replicas -> Copy \cup {Absent}]
         /\ \A q \in Replicas : Outdated(n)[q] = Absent <=> copy[q] = Absent
<1>1. ASSUME NEW q \in Replicas, copy[q] # Absent
      PROVE  /\ [copy[q] EXCEPT !.fresh = FALSE] \in Copy
             /\ [copy[q] EXCEPT !.fresh = FALSE] # Absent
  <2>1. copy[q] \in Copy
    BY <1>1
  <2>2. [copy[q] EXCEPT !.fresh = FALSE] \in Copy
    BY <2>1 DEF Copy
  <2>3. QED
    BY <2>2, TaintAssumption
<1>2. QED
  BY <1>1 DEF Outdated

(* The initial state satisfies the invariant.                              *)
LEMMA TaintInitInv == Init => TaintInv
  BY TaintAssumption DEF Init, TaintInv, TaintTypeOK, CopyOK, MapOK, SteadyOK

(* Finishing the sync of a node keeps the types, whatever was written.     *)
LEMMA NextNodeTyped ==
  ASSUME TaintTypeOK, NEW r \in Replicas, NEW n \in Nodes,
         at[r] \in {"node", "update", "retry"},
         NEW written \in {copy, Outdated(n)}, NextNode(r, n, written)
  PROVE  /\ at' \in [Replicas -> {"pods", "nodes", "node", "update", "retry"}]
         /\ todo' \in [Replicas -> SUBSET Nodes]
         /\ tries' \in [Replicas -> 0 .. Attempts - 1]
         /\ copy' \in [Replicas -> Copy \cup {Absent}]
         /\ \A q \in Replicas : at'[q] \in {"update", "retry"} <=> copy'[q] # Absent
<1>1. /\ written \in [Replicas -> Copy \cup {Absent}]
      /\ \A q \in Replicas : written[q] = Absent <=> copy[q] = Absent
  BY OutdatedTyped DEF TaintTypeOK
<1>2. 0 \in 0 .. Attempts - 1
  BY TaintAssumption
<1>3. QED
  BY <1>1, <1>2 DEF NextNode, TaintTypeOK

(* Every step keeps the types.                                             *)
LEMMA TaintTypeStep ==
  ASSUME TaintTypeOK, [Next]_vars
  PROVE  TaintTypeOK'
<1> USE DEF TaintTypeOK, Undisturbed
<1>1. Disturb => calm' \in 0 .. Disturbances /\ steady' \subseteq Replicas
  BY TaintAssumption DEF Disturb
<1>2. ASSUME NEW r \in Replicas, ListPods(r) \/ ListNodes(r) \/ EndRound(r)
      PROVE  TaintTypeOK'
  BY <1>1, <1>2 DEF ListPods, ListNodes, EndRound, Goto, cluster
<1>3. ASSUME NEW r \in Replicas, NEW n \in Nodes, GetNode(r, n)
      PROVE  TaintTypeOK'
  <2>1. CASE /\ Present(n)
             /\ copy' = [copy EXCEPT ![r] =
                           [node |-> n, taints |-> Wanted(r, n), fresh |-> TRUE]]
             /\ at' = [at EXCEPT ![r] = "update"]
             /\ UNCHANGED <<todo, tries, steady, calm>>
    <3>1. [node |-> n, taints |-> Wanted(r, n), fresh |-> TRUE] \in Copy
      BY <2>1 DEF Present, Wanted, RemoveTaint, EnsureTaint, Copy, Taints
    <3>2. QED
      BY <1>3, <2>1, <3>1, TaintAssumption DEF GetNode, cluster
  <2>2. CASE NextNode(r, n, copy) /\ (Disturb \/ Undisturbed)
    BY <1>1, <1>3, <2>2, NextNodeTyped DEF GetNode, cluster
  <2>3. QED
    BY <1>3, <2>1, <2>2 DEF GetNode
<1>4. ASSUME NEW r \in Replicas, NEW n \in Nodes, UpdateNode(r, n)
      PROVE  TaintTypeOK'
  <2> USE DEF UpdateNode
  <2>1. CASE /\ copy[r].fresh /\ Valid(copy[r].taints)
             /\ taints' = [taints EXCEPT ![n] = copy[r].taints]
             /\ NextNode(r, n, Outdated(n))
             /\ Undisturbed
    <3>1. copy[r].taints \in {t \in SUBSET Taints : Valid(t)}
      BY <1>4, <2>1 DEF Copy
    <3>2. QED
      BY <1>4, <2>1, <3>1, NextNodeTyped
  <2>2. CASE /\ tries[r] + 1 < Attempts
             /\ tries' = [tries EXCEPT ![r] = @ + 1]
             /\ at' = [at EXCEPT ![r] = "retry"]
             /\ UNCHANGED <<taints, todo, copy, steady, calm>>
    BY <1>4, <2>2, TaintAssumption
  <2>3. CASE NextNode(r, n, copy) /\ UNCHANGED taints /\ (Disturb \/ Undisturbed)
    BY <1>1, <1>4, <2>3, NextNodeTyped
  <2>4. QED
    BY <1>4, <2>1, <2>2, <2>3
<1>5. ASSUME NEW r \in Replicas, Restart(r)
      PROVE  TaintTypeOK'
  BY <1>1, <1>5, TaintAssumption DEF Restart, cluster
<1>6. ASSUME NEW n \in Nodes, NEW t \in (SUBSET Taints) \cup {Absent},
             t = Absent \/ Valid(t), WriteNode(n, t)
      PROVE  TaintTypeOK'
  BY <1>1, <1>6, OutdatedTyped DEF WriteNode
<1>7. ASSUME NEW n \in Nodes, AgentChanges(n)
      PROVE  TaintTypeOK'
  BY <1>1, <1>7 DEF AgentChanges, local
<1>8. CASE UNCHANGED vars
  BY <1>8 DEF vars
<1>9. ASSUME Environment PROVE TaintTypeOK'
  BY <1>6, <1>7, <1>9 DEF Environment, NodeAdded, NodeWritten, NodeRemoved
<1>10. QED
  BY <1>2, <1>3, <1>4, <1>5, <1>8, <1>9 DEF Next, Reconcile, Sync

(* Writing a node leaves the copies of the other nodes as good as they     *)
(* were, and makes those of this one outdated.                             *)
LEMMA OutdatedCopyOK ==
  ASSUME TaintTypeOK, NEW n \in Nodes, NEW t, NEW q \in Replicas, CopyOK(q),
         taints' = [taints EXCEPT ![n] = t], map'[q] = map[q],
         copy'[q] = Outdated(n)[q]
  PROVE  CopyOK(q)'
<1>1. CASE copy[q] = Absent
  BY <1>1 DEF Outdated, CopyOK
<1>2. CASE copy[q] # Absent /\ copy[q].node = n
  <2>1. /\ copy[q] \in Copy
        /\ copy'[q] = [copy[q] EXCEPT !.fresh = FALSE]
    BY <1>2 DEF Outdated, TaintTypeOK
  <2>2. /\ copy'[q].fresh = FALSE
        /\ copy'[q].taints = copy[q].taints
        /\ copy'[q].node = copy[q].node
    BY <2>1 DEF Copy
  <2>3. QED
    BY <1>2, <2>2 DEF CopyOK
<1>3. CASE copy[q] # Absent /\ copy[q].node # n
  <2>1. copy'[q] = copy[q] /\ copy[q].node \in Nodes
    BY <1>3 DEF Outdated, TaintTypeOK, Copy
  <2>2. taints'[copy[q].node] = taints[copy[q].node]
    BY <1>3, <2>1 DEF TaintTypeOK
  <2>3. QED
    BY <1>3, <2>1, <2>2 DEF CopyOK, Present
<1>4. QED
  BY <1>1, <1>2, <1>3

(* A step that changes neither nodes nor map keeps a copy that it keeps.   *)
LEMMA SameCopyOK ==
  ASSUME NEW q \in Replicas, CopyOK(q), UNCHANGED taints,
         copy'[q] = Absent \/ (copy'[q] = copy[q] /\ map'[q] = map[q])
  PROVE  CopyOK(q)'
  BY DEF CopyOK, Present

LEMMA CopyStep ==
  ASSUME TaintInv, [Next]_vars, NEW q \in Replicas
  PROVE  CopyOK(q)'
<1> USE DEF TaintInv
<1>1. ASSUME NEW r \in Replicas, ListPods(r) \/ ListNodes(r) \/ EndRound(r)
      PROVE  CopyOK(q)'
  <2>1. r = q => copy[q] = Absent
    BY <1>1 DEF ListPods, ListNodes, EndRound, Goto, TaintTypeOK
  <2>2. r # q => map'[q] = map[q]
    BY <1>1 DEF ListPods, ListNodes, EndRound, TaintTypeOK
  <2>3. QED
    BY <1>1, <2>1, <2>2, SameCopyOK DEF ListPods, ListNodes, EndRound, cluster
<1>2. ASSUME NEW r \in Replicas, NEW n \in Nodes, GetNode(r, n)
      PROVE  CopyOK(q)'
  <2>1. CASE /\ Present(n)
             /\ copy' = [copy EXCEPT ![r] =
                           [node |-> n, taints |-> Wanted(r, n), fresh |-> TRUE]]
    <3>1. CASE q = r
      <4>1. copy'[q] = [node |-> n, taints |-> Wanted(r, n), fresh |-> TRUE]
        BY <2>1, <3>1 DEF TaintTypeOK
      <4>2. /\ Wanted(r, n) \ {Ours} = taints[n] \ {Ours}
            /\ Ours \in Wanted(r, n) <=> n \notin map[r]
        BY DEF Wanted, RemoveTaint, EnsureTaint
      <4>3. QED
        BY <1>2, <2>1, <3>1, <4>1, <4>2 DEF GetNode, CopyOK, Present, cluster
    <3>2. CASE q # r
      BY <1>2, <2>1, <3>2, SameCopyOK DEF GetNode, cluster, TaintTypeOK
    <3>3. QED
      BY <3>1, <3>2
  <2>2. CASE NextNode(r, n, copy)
    BY <1>2, <2>2, SameCopyOK DEF GetNode, NextNode, cluster, TaintTypeOK
  <2>3. QED
    BY <1>2, <2>1, <2>2 DEF GetNode
<1>3. ASSUME NEW r \in Replicas, NEW n \in Nodes, UpdateNode(r, n)
      PROVE  CopyOK(q)'
  <2>1. CASE /\ taints' = [taints EXCEPT ![n] = copy[r].taints]
             /\ NextNode(r, n, Outdated(n))
    <3>1. CASE q = r
      BY <2>1, <3>1, OutdatedTyped DEF NextNode, CopyOK, TaintTypeOK
    <3>2. CASE q # r
      <4>1. copy'[q] = Outdated(n)[q] /\ map'[q] = map[q]
        BY <1>3, <2>1, <3>2, OutdatedTyped DEF UpdateNode, NextNode, TaintTypeOK
      <4>2. QED
        BY <2>1, <4>1, OutdatedCopyOK
    <3>3. QED
      BY <3>1, <3>2
  <2>2. CASE UNCHANGED <<taints, copy>>
    BY <1>3, <2>2, SameCopyOK DEF UpdateNode
  <2>3. CASE NextNode(r, n, copy) /\ UNCHANGED taints
    BY <1>3, <2>3, SameCopyOK DEF UpdateNode, NextNode, TaintTypeOK
  <2>4. QED
    BY <1>3, <2>1, <2>2, <2>3 DEF UpdateNode
<1>4. ASSUME NEW r \in Replicas, Restart(r)
      PROVE  CopyOK(q)'
  BY <1>4, SameCopyOK DEF Restart, cluster, TaintTypeOK
<1>5. ASSUME NEW n \in Nodes, NEW t, WriteNode(n, t)
      PROVE  CopyOK(q)'
  BY <1>5, OutdatedCopyOK DEF WriteNode
<1>6. ASSUME NEW n \in Nodes, AgentChanges(n)
      PROVE  CopyOK(q)'
  BY <1>6, SameCopyOK DEF AgentChanges, local
<1>7. CASE UNCHANGED vars
  BY <1>7, SameCopyOK DEF vars
<1>8. ASSUME Environment PROVE CopyOK(q)'
  BY <1>5, <1>6, <1>8 DEF Environment, NodeAdded, NodeWritten, NodeRemoved
<1>9. QED
  BY <1>1, <1>2, <1>3, <1>4, <1>7, <1>8 DEF Next, Reconcile, Sync

LEMMA MapStep ==
  ASSUME TaintInv, [Next]_vars, NEW q \in Replicas
  PROVE  MapOK(q)'
<1> USE DEF TaintInv
<1>1. ASSUME NEW r \in Replicas, ListPods(r) \/ ListNodes(r) \/ EndRound(r)
      PROVE  MapOK(q)'
  <2>1. CASE r = q
    BY <1>1, <2>1 DEF ListPods, ListNodes, EndRound, Goto, MapOK, TaintTypeOK, cluster
  <2>2. CASE r # q
    BY <1>1, <2>2 DEF ListPods, ListNodes, EndRound, Goto, MapOK, TaintTypeOK, cluster
  <2>3. QED
    BY <2>1, <2>2
<1>2. ASSUME NEW r \in Replicas, NEW n \in Nodes, GetNode(r, n) \/ UpdateNode(r, n)
      PROVE  MapOK(q)'
  <2>1. at'[q] # "pods" => at[q] # "pods"
    BY <1>2 DEF GetNode, UpdateNode, NextNode, TaintTypeOK
  <2>2. UNCHANGED <<map, moved, ready>>
    BY <1>2 DEF GetNode, UpdateNode, cluster
  <2>3. QED
    BY <2>1, <2>2 DEF MapOK
<1>3. ASSUME NEW r \in Replicas, Restart(r)
      PROVE  MapOK(q)'
  BY <1>3 DEF Restart, MapOK, TaintTypeOK, cluster
<1>4. ASSUME NEW n \in Nodes, NEW t, WriteNode(n, t)
      PROVE  MapOK(q)'
  BY <1>4 DEF WriteNode, MapOK
<1>5. ASSUME NEW n \in Nodes, AgentChanges(n)
      PROVE  MapOK(q)'
  BY <1>5 DEF AgentChanges, MapOK, local
<1>6. CASE UNCHANGED vars
  BY <1>6 DEF vars, MapOK
<1>7. ASSUME Environment PROVE MapOK(q)'
  BY <1>4, <1>5, <1>7 DEF Environment, NodeAdded, NodeWritten, NodeRemoved
<1>8. QED
  BY <1>1, <1>2, <1>3, <1>6, <1>7 DEF Next, Reconcile, Sync

(* What a replica with a right list writes is right.                       *)
LEMMA RightWrite ==
  ASSUME TaintInv, NEW q \in Replicas, NEW n \in Nodes, UpdateNode(q, n), moved[q] = {},
         taints' = [taints EXCEPT ![n] = copy[q].taints]
  PROVE  Right(n)'
<1> USE DEF TaintInv
<1>1. /\ at[q] = "update" /\ copy[q] # Absent /\ copy[q].node = n
      /\ UNCHANGED ready
  BY DEF UpdateNode, TaintTypeOK
<1>2. taints'[n] = copy[q].taints
  BY DEF TaintTypeOK
<1>3. Ours \in copy[q].taints <=> n \notin ready
  BY <1>1 DEF CopyOK, MapOK
<1>4. QED
  BY <1>1, <1>2, <1>3 DEF Right

(* What a replica with a right list reads and leaves, or cannot write      *)
(* because of a taint with the same key and effect, is right.              *)
LEMMA RightRead ==
  ASSUME TaintInv, NEW q \in Replicas, NEW n \in Nodes, moved[q] = {}, at[q] # "pods",
         \/ Wanted(q, n) = taints[n]
         \/ copy[q] # Absent /\ copy[q].node = n /\ copy[q].fresh /\ ~Valid(copy[q].taints)
  PROVE  Right(n)
<1> USE DEF TaintInv
<1>1. n \in map[q] <=> n \in ready
  BY DEF MapOK
<1>2. CASE Wanted(q, n) = taints[n]
  BY <1>1, <1>2 DEF Wanted, RemoveTaint, EnsureTaint, Right
<1>3. CASE copy[q] # Absent /\ copy[q].node = n /\ copy[q].fresh /\ ~Valid(copy[q].taints)
  <2>1. n \notin ready /\ Clash \in copy[q].taints \ {Ours}
    BY <1>1, <1>3, TaintAssumption DEF CopyOK, Valid
  <2>2. Clash \in taints[n]
    BY <1>3, <2>1 DEF CopyOK
  <2>3. QED
    BY <2>1, <2>2 DEF Right
<1>4. QED
  BY <1>2, <1>3

LEMMA SteadyStep ==
  ASSUME TaintInv, [Next]_vars, NEW r \in Replicas
  PROVE  SteadyOK(r)'
<1> USE DEF TaintInv
<1> SUFFICES ASSUME r \in steady'
             PROVE  SteadyOK(r)'
  BY DEF SteadyOK
<1>0. ~Disturb
  BY DEF Disturb
<1>1. ASSUME NEW q \in Replicas, ListPods(q)
      PROVE  SteadyOK(r)'
  <2>1. CASE q = r
    BY <1>0, <1>1, <2>1 DEF ListPods, Goto, SteadyOK, TaintTypeOK
  <2>2. CASE q # r
    <3>1. r \in steady /\ UNCHANGED <<taints, ready, todo, copy>> /\ at'[r] = at[r]
      BY <1>0, <1>1, <2>2 DEF ListPods, Goto, TaintTypeOK, cluster
    <3>2. \A p \in Replicas : moved[p] = {} => moved'[p] = {}
      BY <1>0, <1>1 DEF ListPods, TaintTypeOK
    <3>3. QED
      BY <3>1, <3>2 DEF SteadyOK, Right, Present
  <2>3. QED
    BY <2>1, <2>2
<1>2. ASSUME NEW q \in Replicas, ListNodes(q)
      PROVE  SteadyOK(r)'
  <2>1. /\ Goto(q, "nodes", "node")
        /\ todo' = [todo EXCEPT ![q] =
                      {n \in Nodes : /\ Present(n)
                                     /\ ~WatchOnlyTainted \/ HasTaint(taints[n])}]
        /\ UNCHANGED <<taints, ready, map, copy, moved, steady>>
    BY <1>0, <1>2 DEF ListNodes, cluster
  <2>2. CASE q = r
    <3>1. /\ at[r] = "nodes" /\ at'[r] = "node" /\ copy[r] = Absent
          /\ \A n \in Nodes : Present(n) /\ n \notin todo'[r] => WatchOnlyTainted /\ Ours \notin taints[n]
      BY <2>1, <2>2 DEF Goto, HasTaint, TaintTypeOK
    <3>2. QED
      BY <2>1, <3>1 DEF SteadyOK, Right, Present
  <2>3. CASE q # r
    <3>1. at'[r] = at[r] /\ todo'[r] = todo[r]
      BY <2>1, <2>3 DEF Goto, TaintTypeOK
    <3>2. QED
      BY <2>1, <3>1 DEF SteadyOK, Right, Present
  <2>4. QED
    BY <2>2, <2>3
<1>3. ASSUME NEW q \in Replicas, EndRound(q)
      PROVE  SteadyOK(r)'
  <2>1. q # r /\ r \in steady /\ UNCHANGED <<taints, ready, todo, copy>> /\ at'[r] = at[r]
    BY <1>3 DEF EndRound, Goto, TaintTypeOK, cluster
  <2>2. \A p \in Replicas : moved[p] = {} => moved'[p] = {}
    BY <1>3 DEF EndRound, TaintTypeOK
  <2>3. QED
    BY <2>1, <2>2 DEF SteadyOK, Right, Present
<1>4. ASSUME NEW q \in Replicas, NEW n \in Nodes, GetNode(q, n)
      PROVE  SteadyOK(r)'
  <2>1. UNCHANGED <<taints, ready, moved, steady>>
    BY <1>0, <1>4 DEF GetNode, Undisturbed, cluster
  <2>2. CASE q # r
    <3>1. at'[r] = at[r] /\ todo'[r] = todo[r] /\ copy'[r] = copy[r]
      BY <1>4, <2>2 DEF GetNode, NextNode, TaintTypeOK
    <3>2. QED
      BY <2>1, <3>1 DEF SteadyOK, Right, Present
  <2>3. CASE /\ q = r /\ UNCHANGED todo
             /\ copy' = [copy EXCEPT ![q] =
                           [node |-> n, taints |-> Wanted(q, n), fresh |-> TRUE]]
    <3>1. copy'[r].fresh /\ at[r] \notin {"pods", "nodes"} /\ at'[r] # "pods"
      BY <1>4, <2>3 DEF GetNode, NextNode, TaintTypeOK
    <3>2. QED
      BY <2>1, <2>3, <3>1 DEF SteadyOK, Right, Present
  <2>4. CASE q = r /\ (Present(n) => Wanted(r, n) = taints[n]) /\ NextNode(r, n, copy)
    <3>1. /\ at[r] \notin {"pods", "nodes"} /\ at'[r] = "node" /\ copy'[r] = Absent
          /\ todo'[r] = todo[r] \ {n}
      BY <1>4, <2>4 DEF GetNode, NextNode, TaintTypeOK
    <3>2. Present(n) => Right(n)
      BY <2>1, <2>4, <3>1, RightRead DEF SteadyOK
    <3>3. QED
      BY <2>1, <3>1, <3>2 DEF SteadyOK, Right, Present
  <2>5. QED
    BY <1>0, <1>4, <2>2, <2>3, <2>4 DEF GetNode
<1>5. ASSUME NEW q \in Replicas, NEW n \in Nodes, UpdateNode(q, n)
      PROVE  SteadyOK(r)'
  <2>1. /\ UNCHANGED <<ready, moved, steady>> /\ at[q] = "update"
        /\ copy[q] # Absent /\ copy[q].node = n
    BY <1>0, <1>5 DEF UpdateNode, Undisturbed, TaintTypeOK
  <2>2. moved[q] = {} /\ at[r] # "pods"
    BY <2>1 DEF SteadyOK
  <2>3. q # r => at'[r] = at[r] /\ todo'[r] = todo[r]
    BY <1>5 DEF UpdateNode, NextNode, TaintTypeOK
  <2>4. CASE /\ taints' = [taints EXCEPT ![n] = copy[q].taints]
             /\ NextNode(q, n, Outdated(n))
    <3>1. /\ q = r => at'[r] = "node" /\ todo'[r] = todo[r] \ {n} /\ copy'[r] = Absent
          /\ q # r => copy'[r] = Outdated(n)[r]
      BY <2>4, OutdatedTyped DEF NextNode, TaintTypeOK
    <3>2. Right(n)'
      BY <1>5, <2>2, <2>4, RightWrite
    <3>3. ASSUME NEW m \in Nodes, m # n
          PROVE  /\ Present(m)' <=> Present(m)
                 /\ Right(m)' <=> Right(m)
      BY <2>1, <2>4, <3>3 DEF Present, Right, TaintTypeOK
    <3>4. q # r /\ copy'[r] # Absent /\ copy'[r].node # n => copy'[r] = copy[r]
      BY <3>1 DEF Outdated, TaintTypeOK, Copy
    <3>5. ASSUME NEW m \in Nodes, Present(m)', m # n,
                 \/ at'[r] # "nodes" /\ m \notin todo'[r]
                 \/ copy'[r] # Absent /\ copy'[r].node = m /\ ~copy'[r].fresh
          PROVE  Right(m)'
      BY <2>1, <2>3, <3>1, <3>3, <3>4, <3>5 DEF SteadyOK
    <3>6. at'[r] # "pods" /\ \A p \in Replicas : moved'[p] = {}
      BY <2>1, <2>2, <2>3, <3>1 DEF SteadyOK
    <3>7. QED
      BY <3>2, <3>5, <3>6 DEF SteadyOK
  <2>5. CASE /\ at' = [at EXCEPT ![q] = "retry"]
             /\ UNCHANGED <<taints, todo, copy>>
    BY <2>1, <2>5 DEF SteadyOK, Right, Present, TaintTypeOK
  <2>6. CASE /\ ~copy[q].fresh \/ ~Present(n) \/ ~Valid(copy[q].taints)
             /\ NextNode(q, n, copy) /\ UNCHANGED taints
    <3>1. /\ q = r => at'[r] = "node" /\ todo'[r] = todo[r] \ {n} /\ copy'[r] = Absent
          /\ q # r => copy'[r] = copy[r]
      BY <2>6 DEF NextNode, TaintTypeOK
    <3>2. q = r /\ Present(n) => Right(n)
      BY <2>1, <2>2, <2>6, RightRead DEF SteadyOK
    <3>3. QED
      BY <2>1, <2>3, <2>6, <3>1, <3>2 DEF SteadyOK, Right, Present
  <2>7. QED
    BY <1>0, <1>5, <2>4, <2>5, <2>6 DEF UpdateNode
<1>6. (\A q \in Replicas : ~Restart(q)) /\ ~Environment
  BY <1>0 DEF Restart, Environment, NodeAdded, NodeWritten, NodeRemoved, WriteNode, AgentChanges
<1>7. CASE UNCHANGED vars
  BY <1>7 DEF vars, SteadyOK, Right, Present
<1>8. QED
  BY <1>1, <1>2, <1>3, <1>4, <1>5, <1>6, <1>7 DEF Next, Reconcile, Sync

(* The types, and what each replica holds, are an inductive invariant.     *)
THEOREM TaintInvariant == Spec => []TaintInv
<1>1. TaintInv /\ [Next]_vars => TaintInv'
  BY TaintTypeStep, CopyStep, MapStep, SteadyStep DEF TaintInv
<1>2. QED
  BY TaintInitInv, <1>1, PTL DEF Spec

(* The taint controller's state keeps its type: whatever the replicas and  *)
(* others do, a replica holds a copy exactly between reading and writing.  *)
THEOREM TaintTypeCorrect == Spec => []TaintTypeOK
  BY TaintInvariant, PTL DEF TaintInv

(* One undisturbed round of one replica brings every node in line, for any *)
(* number of replicas in its way and whatever the number of attempts.      *)
THEOREM UndisturbedRoundSettles == Spec => []RoundSettles
<1>1. TaintInv => RoundSettles
  BY DEF TaintInv, TaintTypeOK, SteadyOK, RoundSettles
<1>2. QED
  BY <1>1, TaintInvariant, PTL

(* Only UpdateNode writes a node in a step of a replica, and it writes a   *)
(* fresh copy.                                                             *)
LEMMA WritesFreshCopy ==
  ASSUME TaintInv, [Next]_vars, NEW r \in Replicas, at'[r] # at[r], NEW n \in Writes(r)
  PROVE  /\ copy[r] # Absent /\ copy[r].fresh /\ copy[r].node = n
         /\ taints'[n] = copy[r].taints
         /\ at[r] = "update"
         /\ UNCHANGED <<ready, map, moved>>
<1> USE DEF TaintInv
<1>1. n \in Nodes /\ at[r] = "update" /\ taints'[n] # taints[n]
  BY DEF Writes
<1>2. ASSUME NEW q \in Replicas, NEW m \in Nodes, UpdateNode(q, m)
      PROVE  q = r /\ m = n /\ copy[r].fresh /\ taints'[n] = copy[r].taints
  <2>1. q = r
    BY <1>2 DEF UpdateNode, NextNode, TaintTypeOK
  <2>2. /\ copy[q].fresh
        /\ taints' = [taints EXCEPT ![m] = copy[q].taints]
    BY <1>1, <1>2 DEF UpdateNode
  <2>3. QED
    BY <1>1, <2>1, <2>2 DEF TaintTypeOK
<1>3. \E q \in Replicas, m \in Nodes : UpdateNode(q, m)
  <2>1. UNCHANGED taints \/ UNCHANGED at \/ \E q \in Replicas, m \in Nodes : UpdateNode(q, m)
    BY DEF Next, Reconcile, Sync, Environment, ListPods, ListNodes, EndRound, GetNode, Restart,
           NodeAdded, NodeWritten, NodeRemoved, WriteNode, AgentChanges, cluster, vars
  <2>2. QED
    BY <1>1, <2>1
<1>4. PICK q \in Replicas, m \in Nodes : UpdateNode(q, m)
  BY <1>3
<1>5. q = r /\ m = n /\ copy[r].fresh /\ taints'[n] = copy[r].taints
  BY <1>2, <1>4
<1>6. copy[r] # Absent
  BY <1>1 DEF TaintTypeOK
<1>7. QED
  BY <1>1, <1>4, <1>5, <1>6 DEF UpdateNode

(* However many replicas run side by side, with a stale list and retries,  *)
(* none undoes what somebody else did to a node.                           *)
THEOREM OthersAreKept == Spec => OthersKept
<1> DEFINE Kept == \A r \in Replicas : at'[r] # at[r] => \A n \in Writes(r) :
             Present(n) /\ taints'[n] \ {Ours} = taints[n] \ {Ours}
<1>1. TaintInv /\ [Next]_vars => [Kept]_vars
  BY WritesFreshCopy DEF TaintInv, CopyOK
<1>2. QED
  BY TaintInvariant, <1>1, PTL DEF Spec, OthersKept

(* A replica's write agrees with the agent of the node, unless that agent  *)
(* changed since the replica listed the pods.                              *)
THEOREM WritesFollowAgents == Spec => WritesAreJustified
<1> DEFINE Justified == \A r \in Replicas : at'[r] # at[r] => \A n \in Writes(r) :
             n \in moved[r] \/ (n \in ready <=> Ours \notin taints'[n])
<1>1. TaintInv /\ [Next]_vars => [Justified]_vars
  <2> SUFFICES ASSUME TaintInv, [Next]_vars, NEW r \in Replicas, at'[r] # at[r],
                      NEW n \in Writes(r), n \notin moved[r]
               PROVE  n \in ready <=> Ours \notin taints'[n]
    OBVIOUS
  <2>1. n \in Nodes /\ copy[r] # Absent /\ copy[r].node = n /\ taints'[n] = copy[r].taints
    BY WritesFreshCopy DEF Writes
  <2>2. Ours \in taints'[n] <=> n \notin map[r]
    BY <2>1 DEF TaintInv, CopyOK
  <2>3. n \in map[r] <=> n \in ready
    BY <2>1, WritesFreshCopy DEF TaintInv, MapOK
  <2>4. QED
    BY <2>2, <2>3
<1>2. QED
  BY TaintInvariant, <1>1, PTL DEF Spec, WritesAreJustified
==============================================================================
