--------------------------- MODULE TaintController ---------------------------
(***************************************************************************)
(* cmd/multivpc-taint-controller and pkg/taintcontroller: each replica of  *)
(* the deployment runs rounds.  A round lists the agent pods, then the     *)
(* nodes, and then brings the taint of one node after the other in line    *)
(* with what the first list said.  No replica knows of another; what they  *)
(* share is the API server, which refuses an update of an outdated copy.   *)
(*                                                                         *)
(* A node is its taints: Ours is the taint of the configuration, Clash one *)
(* with the same key and effect but another value, Other any other.        *)
(***************************************************************************)
EXTENDS Naturals

CONSTANTS
  Replicas,          (* controller processes                                 *)
  Nodes,             (* names of nodes that match TARGET_NODE_SELECTOR       *)
  Ours, Clash, Other,
  WatchOnlyTainted,
  Attempts,          (* steps of retry.DefaultRetry                          *)
  Disturbances,      (* bound: things that happen around the controllers     *)
  Absent             (* what a name without node has for taints              *)

Taints == {Ours, Clash, Other}

(* A copy is fresh until somebody writes its node.                         *)
Copy == [node : Nodes, taints : SUBSET Taints, fresh : BOOLEAN]

ASSUME TaintAssumption ==
  /\ Attempts \in Nat \ {0}
  /\ Disturbances \in Nat
  /\ WatchOnlyTainted \in BOOLEAN
  /\ Ours # Clash /\ Ours # Other /\ Clash # Other
  /\ \A t \in SUBSET Taints : Absent # t
  /\ Absent \notin Copy

VARIABLES
  taints,   (* the nodes of the API server                                   *)
  ready,    (* nodes on which some agent pod is Running and Ready            *)
  at,       (* per replica: its next call                                    *)
  map,      (* per replica: readyMap, the nodes it maps to true              *)
  todo,     (* per replica: nodes of this round that are still to be synced  *)
  copy,     (* per replica: the node object it is about to write             *)
  tries,    (* per replica: attempts of the RetryOnConflict in progress      *)
  moved,    (* history, per replica: nodes whose agent changed since ListPods*)
  steady,   (* history: replicas in a round that began with every list right *)
            (* and has not been disturbed                                    *)
  calm      (* what is left of Disturbances                                  *)

cluster == <<taints, ready>>
local == <<at, map, todo, copy, tries>>
vars == <<taints, ready, at, map, todo, copy, tries, moved, steady, calm>>
------------------------------------------------------------------------------
Present(n) == taints[n] # Absent

(* The API server takes one taint per key and effect.                      *)
Valid(t) == ~ {Ours, Clash} \subseteq t

Outdated(n) ==
  [r \in Replicas |->
     IF copy[r] # Absent /\ copy[r].node = n
     THEN [copy[r] EXCEPT !.fresh = FALSE] ELSE copy[r]]

Init ==
  /\ taints \in [Nodes -> {t \in SUBSET Taints : Valid(t)}]
  /\ ready \in SUBSET Nodes
  /\ at = [r \in Replicas |-> "pods"]
  /\ map = [r \in Replicas |-> {}]
  /\ todo = [r \in Replicas |-> {}]
  /\ copy = [r \in Replicas |-> Absent]
  /\ tries = [r \in Replicas |-> 0]
  /\ moved = [r \in Replicas |-> {}]
  /\ steady = {}
  /\ calm = Disturbances

Goto(r, here, next) == at[r] = here /\ at' = [at EXCEPT ![r] = next]

Disturb == calm > 0 /\ calm' = calm - 1 /\ steady' = {}

Undisturbed == UNCHANGED <<calm, steady>>
------------------------------------------------------------------------------
(* HasTaint, EnsureTaint and RemoveTaint compare key, value and effect.    *)
HasTaint(t) == Ours \in t
EnsureTaint(t) == t \cup {Ours}
RemoveTaint(t) == t \ {Ours}

BugListPods(r) ==
  /\ Goto(r, "pods", "nodes")
  /\ \/ map' = [map EXCEPT ![r] = ready] /\ Undisturbed
     \/ Disturb /\ map' = [map EXCEPT ![r] = {}]
  /\ moved' = [moved EXCEPT ![r] = {}]
  /\ UNCHANGED <<cluster, todo, copy, tries>>

(* buildAgentReadyMap.  When a list fails, the round is over.              *)
ListPods(r) ==
  \/ /\ Goto(r, "pods", "nodes")
     /\ map' = [map EXCEPT ![r] = ready]
     /\ moved' = [moved EXCEPT ![r] = {}]
     /\ steady' = IF \A q \in Replicas \ {r} : moved[q] = {}
                  THEN steady \cup {r} ELSE steady \ {r}
     /\ UNCHANGED <<cluster, todo, copy, tries, calm>>
  \/ /\ Goto(r, "pods", "pods") /\ Disturb
     /\ UNCHANGED <<cluster, map, todo, copy, tries, moved>>

BugListTainted(r) ==
  /\ Goto(r, "nodes", "node")
  /\ todo' = [todo EXCEPT ![r] = {n \in Nodes : Present(n) /\ HasTaint(taints[n])}]
  /\ UNCHANGED <<cluster, map, copy, tries, moved, steady, calm>>

BugListUntainted(r) ==
  /\ Goto(r, "nodes", "node")
  /\ todo' = [todo EXCEPT ![r] = {n \in Nodes : Present(n) /\ ~HasTaint(taints[n])}]
  /\ UNCHANGED <<cluster, map, copy, tries, moved, steady, calm>>

(* The nodes a round manages are chosen from the list.                     *)
ListNodes(r) ==
  \/ /\ Goto(r, "nodes", "node")
     /\ todo' = [todo EXCEPT ![r] =
                   {n \in Nodes : /\ Present(n)
                                  /\ ~WatchOnlyTainted \/ HasTaint(taints[n])}]
     /\ UNCHANGED <<cluster, map, copy, tries, moved, steady, calm>>
  \/ /\ Goto(r, "nodes", "pods") /\ Disturb
     /\ UNCHANGED <<cluster, map, todo, copy, tries, moved>>

EndRound(r) ==
  /\ Goto(r, "node", "pods")
  /\ todo[r] = {}
  /\ map' = [map EXCEPT ![r] = {}]
  /\ moved' = [moved EXCEPT ![r] = {}]
  /\ steady' = steady \ {r}
  /\ UNCHANGED <<cluster, todo, copy, tries, calm>>

Wanted(r, n) ==
  IF n \in map[r] THEN RemoveTaint(taints[n]) ELSE EnsureTaint(taints[n])

(* The sync of node n is over, done or given up; written are the copies    *)
(* that the replicas then have.                                            *)
NextNode(r, n, written) ==
  /\ at' = [at EXCEPT ![r] = "node"]
  /\ todo' = [todo EXCEPT ![r] = @ \ {n}]
  /\ tries' = [tries EXCEPT ![r] = 0]
  /\ copy' = [written EXCEPT ![r] = Absent]

(* syncNodeTaint: an attempt reads the node, and if its taint has to       *)
(* change, writes the changed copy back.                                   *)
GetNode(r, n) ==
  /\ \/ at[r] = "node" /\ n \in todo[r]
     \/ at[r] = "retry" /\ n = copy[r].node
  /\ \/ /\ Present(n)
        /\ Wanted(r, n) # taints[n]
        /\ copy' = [copy EXCEPT ![r] =
                      [node |-> n, taints |-> Wanted(r, n), fresh |-> TRUE]]
        /\ at' = [at EXCEPT ![r] = "update"]
        /\ UNCHANGED <<todo, tries, steady, calm>>
     \/ /\ Present(n) => Wanted(r, n) = taints[n]
        /\ NextNode(r, n, copy)
        /\ Undisturbed
     \/ NextNode(r, n, copy) /\ Disturb
  /\ UNCHANGED <<cluster, map, moved>>

BugUpdateStale(r, n) ==
  /\ at[r] = "update" /\ n = copy[r].node
  /\ IF Present(n) /\ Valid(copy[r].taints)
     THEN taints' = [taints EXCEPT ![n] = copy[r].taints] /\ NextNode(r, n, Outdated(n))
     ELSE NextNode(r, n, copy) /\ UNCHANGED taints
  /\ UNCHANGED <<ready, map, moved, steady, calm>>

BugRetryForever(r, n) ==
  /\ at[r] = "update" /\ n = copy[r].node
  /\ IF copy[r].fresh /\ Valid(copy[r].taints)
     THEN taints' = [taints EXCEPT ![n] = copy[r].taints] /\ NextNode(r, n, Outdated(n))
     ELSE /\ tries' = [tries EXCEPT ![r] = @ + 1]
          /\ at' = [at EXCEPT ![r] = "retry"]
          /\ UNCHANGED <<taints, todo, copy>>
  /\ UNCHANGED <<ready, map, moved, steady, calm>>

(* A conflict is retried, until the attempts are used up.  Any other error *)
(* (the node is gone, the taints are not valid, the call fails) ends the   *)
(* sync.                                                                   *)
UpdateNode(r, n) ==
  /\ at[r] = "update" /\ n = copy[r].node
  /\ \/ /\ copy[r].fresh /\ Valid(copy[r].taints)
        /\ taints' = [taints EXCEPT ![n] = copy[r].taints]
        /\ NextNode(r, n, Outdated(n))
        /\ Undisturbed
     \/ /\ ~copy[r].fresh /\ Present(n)
        /\ tries[r] + 1 < Attempts
        /\ tries' = [tries EXCEPT ![r] = @ + 1]
        /\ at' = [at EXCEPT ![r] = "retry"]
        /\ UNCHANGED <<taints, todo, copy, steady, calm>>
     \/ /\ \/ ~copy[r].fresh /\ tries[r] + 1 = Attempts
           \/ ~Present(n)
           \/ ~Valid(copy[r].taints)
        /\ NextNode(r, n, copy)
        /\ UNCHANGED <<taints, steady, calm>>
     \/ NextNode(r, n, copy) /\ Disturb /\ UNCHANGED taints
  /\ UNCHANGED <<ready, map, moved>>

(* A replica is replaced; its round is lost. *)
Restart(r) ==
  /\ Disturb
  /\ at' = [at EXCEPT ![r] = "pods"]
  /\ map' = [map EXCEPT ![r] = {}]
  /\ todo' = [todo EXCEPT ![r] = {}]
  /\ copy' = [copy EXCEPT ![r] = Absent]
  /\ tries' = [tries EXCEPT ![r] = 0]
  /\ moved' = [moved EXCEPT ![r] = {}]
  /\ UNCHANGED cluster
------------------------------------------------------------------------------
(* The cluster: nodes come and go, somebody writes a node (the kubelet its *)
(* status, an administrator its taints), agents become ready or unready.   *)
WriteNode(n, t) ==
  /\ Disturb
  /\ taints' = [taints EXCEPT ![n] = t]
  /\ copy' = Outdated(n)
  /\ UNCHANGED <<ready, at, map, todo, tries, moved>>

NodeAdded(n, t) == ~Present(n) /\ Valid(t) /\ WriteNode(n, t)

NodeWritten(n, t) == Present(n) /\ Valid(t) /\ WriteNode(n, t)

NodeRemoved(n) == Present(n) /\ WriteNode(n, Absent)

AgentChanges(n) ==
  /\ Disturb
  /\ ready' = IF n \in ready THEN ready \ {n} ELSE ready \cup {n}
  /\ moved' = [r \in Replicas |->
                 IF at[r] = "pods" THEN {} ELSE moved[r] \cup {n}]
  /\ UNCHANGED <<taints, local>>

Sync(r) == \E n \in Nodes : GetNode(r, n) \/ UpdateNode(r, n)

Reconcile(r) == ListPods(r) \/ ListNodes(r) \/ Sync(r) \/ EndRound(r)

Environment ==
  \E n \in Nodes :
    \/ \E t \in SUBSET Taints : NodeAdded(n, t) \/ NodeWritten(n, t)
    \/ NodeRemoved(n)
    \/ AgentChanges(n)

Next == (\E r \in Replicas : Reconcile(r) \/ Restart(r)) \/ Environment

Spec == Init /\ [][Next]_vars

(* Every replica has a ticker and starts a new round after the last one    *)
(* (main, the select), whatever its error.                                 *)
FairSpec == Spec /\ \A r \in Replicas : WF_vars(Reconcile(r))
------------------------------------------------------------------------------
TaintTypeOK ==
  /\ taints \in [Nodes -> {t \in SUBSET Taints : Valid(t)} \cup {Absent}]
  /\ ready \subseteq Nodes
  /\ at \in [Replicas -> {"pods", "nodes", "node", "update", "retry"}]
  /\ map \in [Replicas -> SUBSET Nodes]
  /\ todo \in [Replicas -> SUBSET Nodes]
  /\ copy \in [Replicas -> Copy \cup {Absent}]
  /\ tries \in [Replicas -> 0 .. Attempts - 1]
  /\ moved \in [Replicas -> SUBSET Nodes]
  /\ steady \subseteq Replicas
  /\ calm \in 0 .. Disturbances
  /\ \A r \in Replicas : at[r] \in {"update", "retry"} <=> copy[r] # Absent

(* What a replica holds: a copy is fresh only while it differs from its    *)
(* node in nothing but the taint; it asks for the taint that the map asks  *)
(* for; and the map is right about the nodes whose agents did not change.  *)
CopyOK(r) ==
  copy[r] # Absent =>
    /\ copy[r].fresh =>
         /\ Present(copy[r].node)
         /\ copy[r].taints \ {Ours} = taints[copy[r].node] \ {Ours}
    /\ Ours \in copy[r].taints <=> copy[r].node \notin map[r]

MapOK(r) ==
  at[r] # "pods" => \A n \in Nodes \ moved[r] : n \in map[r] <=> n \in ready

(* A node as a replica with a right list leaves it; the API server does    *)
(* not take the taint next to one with the same key and effect.            *)
Right(n) ==
  /\ n \in ready => Ours \notin taints[n]
  /\ n \notin ready /\ ~WatchOnlyTainted => {Ours, Clash} \cap taints[n] # {}

(* In an undisturbed round the lists of all replicas are right, and the nodes that *)
(* the replica is through with, or was overtaken at, are right.            *)
SteadyOK(r) ==
  r \in steady =>
    /\ at[r] # "pods"
    /\ \A q \in Replicas : moved[q] = {}
    /\ \A n \in Nodes :
         /\ Present(n)
         /\ \/ at[r] # "nodes" /\ n \notin todo[r]
            \/ copy[r] # Absent /\ copy[r].node = n /\ ~copy[r].fresh
         => Right(n)

TaintInv ==
  TaintTypeOK /\ \A r \in Replicas : CopyOK(r) /\ MapOK(r) /\ SteadyOK(r)

(* Nodes a replica writes in this step. *)
Writes(r) == {n \in Nodes : at[r] = "update" /\ taints'[n] # taints[n]}

(* A replica never undoes what somebody else did to a node since the       *)
(* replica read it: it changes its own taint and nothing else, and never   *)
(* brings back a node that is gone (main.go:179, the retry on conflict).   *)
OthersKept ==
  [][\A r \in Replicas : at'[r] # at[r] => \A n \in Writes(r) :
        Present(n) /\ taints'[n] \ {Ours} = taints[n] \ {Ours}]_vars

(* A replica only writes what the node's agent calls for at that moment,   *)
(* unless the agent changed after the replica listed the pods.  Failing    *)
(* lists and calls and other replicas are no excuse.                       *)
WritesAreJustified ==
  [][\A r \in Replicas : at'[r] # at[r] => \A n \in Writes(r) :
        n \in moved[r] \/ (n \in ready <=> Ours \notin taints'[n])]_vars

(* One undisturbed round is enough, whatever went wrong before and however *)
(* often other replicas get in its way: at its end every node is right,    *)
(* also those whose sync was given up after conflicts (main.go:179).       *)
RoundSettles ==
  \A r \in steady : at[r] = "node" /\ todo[r] = {} =>
    \A n \in Nodes : Present(n) => Right(n)

(* README, taint controller: "nodes with a ready agent have it cleared".   *)
(* Once the disturbances are over, and whatever they were, it stays off.   *)
ReadyNodesCleared ==
  \A n \in Nodes : <>[](Present(n) /\ n \in ready => Ours \notin taints[n])

(* README, taint controller: "Nodes without a ready agent keep the taint". *)
(* The API server does not take it next to one with the same key and       *)
(* effect.                                                                 *)
UnreadyNodesTainted ==
  \A n \in Nodes :
    <>[](Present(n) /\ n \notin ready => {Ours, Clash} \cap taints[n] # {})

(* values.yaml, watchOnlyTainted: "If true, only reconcile nodes already   *)
(* carrying the taint": no replica taints a node that is not tainted.      *)
OnlyTaintedTouched ==
  [][WatchOnlyTainted =>
       \A r \in Replicas : at'[r] # at[r] => \A n \in Writes(r) :
         Ours \in taints[n]]_vars
==============================================================================
