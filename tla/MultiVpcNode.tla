---------------------------- MODULE MultiVpcNode -----------------------------
(***************************************************************************)
(* A node: the agent, EC2, the CNI processes, and the pods they serve.     *)
(* The agent's handlers are called by cmdAdd and cmdDel only, the informer *)
(* follows the pods of the API server with a delay, and the kubelet makes  *)
(* and ends sandboxes.                                                     *)
(***************************************************************************)
EXTENDS CniDelegate

VARIABLES
  api,    (* the pods as the API server has them                              *)
  late,   (* history: pods with a report left after their deletion was seen   *)
  clean   (* history: pods whose sandbox was begun with no release of them left *)

nodeVars == <<enis, foreign, pc, job, eni, seen, dev,
              queue, state, pending, phase, failed, intent,
              at, box, master, lease, cache, api, late, clean>>

NodeInit ==
  /\ Init
  /\ DelegateInit
  /\ api = [p \in Pods |-> "absent"]
  /\ late = {}
  /\ clean = {}
------------------------------------------------------------------------------
(* Pods are scheduled to the node, end or are deleted, and are removed     *)
(* from the API when the kubelet has torn their sandbox down (or by force).*)
Schedule(p) == api[p] = "absent" /\ api' = [api EXCEPT ![p] = "running"]

Terminate(p) == api[p] = "running" /\ api' = [api EXCEPT ![p] = "terminating"]

Remove(p) ==
  /\ api[p] = "terminating"
  /\ at[p] = "idle" \/ "force" \in Faults
  /\ api' = [api EXCEPT ![p] = "gone"]

PodLife(p) ==
  /\ Schedule(p) \/ Terminate(p) \/ Remove(p)
  /\ UNCHANGED <<vars, cniVars, late, clean>>

(* The agent has nothing but reports of the pod, queued and at work.       *)
OnlyReports(p) ==
  /\ Busy(p) => job.kind = "ensure"
  /\ \A n \in 1 .. Len(queue) : queue[n].pod = p => queue[n].kind = "ensure"

(* EC2 is detaching no ENI of the pod.                                     *)
NoDetachment(p) == \A e \in EniIds : enis[e].tag = p => enis[e].status # "detaching"

(* No release of the pod is queued or at work, and none has left an ENI    *)
(* that EC2 is still detaching.                                            *)
NoRelease(p) == OnlyReports(p) /\ NoDetachment(p)

(* The kubelet makes sandboxes for running pods only.  A sandbox ends with *)
(* its pod, or alone: then the next one is made.                           *)
StartSandbox(p) ==
  /\ api[p] = "running"
  /\ StartAdd(p)
  /\ clean' = IF NoRelease(p) THEN clean \cup {p} ELSE clean \ {p}
  /\ UNCHANGED <<api, late>>

StopSandbox(p) == StartDel(p) /\ clean' = clean \ {p} /\ UNCHANGED <<api, late>>

(* A report of the pod is queued or at work. *)
Reported(p) ==
  \/ pc # "idle" /\ job.kind = "ensure" /\ job.pod = p
  \/ \E n \in 1 .. Len(queue) : queue[n].kind = "ensure" /\ queue[n].pod = p

TooLate == late' = late \cup {p \in Pods : phase'[p] = "gone" /\ Reported(p)'}

(* The informer may lag behind the API server, but not run ahead of it.    *)
KnownPhases(p) ==
  CASE api[p] = "absent"      -> {"unseen"}
    [] api[p] = "running"     -> {"unseen", "running"}
    [] api[p] = "terminating" -> {"unseen", "running", "terminating"}
    [] api[p] = "gone"        -> {"unseen", "running", "terminating", "gone"}

InformerEvent(p) ==
  /\ OnPodAdd(p) \/ OnPodUpdate(p) \/ OnPodDelete(p)
  /\ phase'[p] \in KnownPhases(p)
  /\ TooLate
  /\ UNCHANGED <<cniVars, api, clean>>

AgentCrash ==
  /\ Crash
  /\ \A p \in Pods : phase'[p] = "gone" <=> api[p] = "gone"
  /\ UNCHANGED <<cniVars, api, late, clean>>

AgentStep == (Worker \/ Callback) /\ UNCHANGED <<cniVars, api, late, clean>>

PluginStep == (\E p \in Pods : Plugin(p)) /\ TooLate /\ UNCHANGED <<api, clean>>

NodeNext ==
  \/ \E p \in Pods : \/ PodLife(p) \/ StartSandbox(p) \/ StopSandbox(p)
                     \/ InformerEvent(p)
  \/ PluginStep
  \/ AgentStep
  \/ AgentCrash
  \/ Environment /\ UNCHANGED <<cniVars, api, late, clean>>

NodeSpec == NodeInit /\ [][NodeNext]_nodeVars
------------------------------------------------------------------------------
NodeTypeOK ==
  /\ TypeOK
  /\ DelegateTypeOK
  /\ api \in [Pods -> {"absent", "running", "terminating", "gone"}]
  /\ late \subseteq Pods
  /\ clean \subseteq Pods

Up(p) == at[p] = "up" /\ api[p] = "running"

(* No job, hook or event of the pod is left anywhere.                      *)
Quiet(p) ==
  /\ Settled(<<p, Net>>)
  /\ \A j \in pending : j.pod # p
  /\ api[p] = phase[p]

(* While a pod runs in a sandbox that was begun when no release of the pod *)
(* was left, the ENI under its interface stays attached.                   *)
CleanBoxKeepsItsEni ==
  \A p \in Pods : Up(p) /\ p \in clean => enis[master[p]].status = "in-use"

Linked == [p \in Pods |-> IF Up(p) /\ p \in clean THEN master[p] ELSE None]

Links == INSTANCE PodLinks WITH held <- Held, link <- Linked

(* Such a pod is promised more, through all steps of the agent, EC2, other *)
(* pods and the kubelet: its interface is on the one ENI that is attached  *)
(* for it, no other pod's, and it stays so until the pod or sandbox ends.  *)
LinksPods == Links!Spec

(* A pod keeps the ENI of its first sandbox while it runs there.           *)
FirstBoxKeepsItsEni ==
  \A p \in Pods : Up(p) /\ box[p] = 1 => enis[master[p]].status = "in-use"

(* Once the agent is through with a pod that is up, the address that the   *)
(* IPAM chose for it is assigned to its ENI, unless a job failed.          *)
UpHasItsAddress ==
  \A p \in Pods :
    Up(p) /\ Quiet(p) /\ p \notin failed =>
      \E e \in EniIds :
        /\ enis[e].tag = p /\ enis[e].status = "in-use"
        /\ lease[Box(p)] \in Addresses(e)

(* When cmdDel's release was rejected by a full queue, never made, or       *)
(* undone by a report behind it, the watcher makes up for it: a deleted    *)
(* pod for which nothing is left to do has no ENI, unless a report was     *)
(* still on its way when the deletion was seen, or a job failed.           *)
WatcherReleasesRest ==
  \A p \in Pods \ (failed \cup late) :
    api[p] = "gone" /\ at[p] = "idle" /\ Quiet(p) =>
      \A e \in EniIds : enis[e].tag = p => ~Live(e)

(* README, agent: "For CmdDel, it [...] detaches and deletes the ENI; a    *)
(* Pod watcher also enqueues releases when Pods terminate".  When nothing  *)
(* is left to do for a deleted pod, it has no ENI.                         *)
GoneLeavesNothing ==
  \A p \in Pods :
    api[p] = "gone" /\ at[p] = "idle" /\ Quiet(p) /\ p \notin failed =>
      \A e \in EniIds : enis[e].tag = p => ~Live(e)

(* README, CNI delegate: it polls "until an ENI is attached": the ENI      *)
(* under the interface of a running pod stays attached, in every sandbox.  *)
UpKeepsItsEni == \A p \in Pods : Up(p) => enis[master[p]].status = "in-use"

(* README, CNI delegate: on CmdDel it "executes post delegates in reverse  *)
(* order then ipvlan DEL": a pod without sandbox holds no address.         *)
LeaseReturned ==
  \A p \in Pods : at[p] = "idle" => \A n \in 1 .. MaxBoxes : lease[<<p, n>>] = None
==============================================================================
