-------------------------- MODULE MultiVpcNodeProofs ---------------------------
(***************************************************************************)
(* Proofs about the node, for any numbers of pods, sandboxes, ENIs and     *)
(* addresses, any queue size and any combination of faults.                *)
(***************************************************************************)
EXTENDS MultiVpcNode, EniAgreementProofs

(* A process that is somewhere in its code has a sandbox, an address from  *)
(* the plugins on, and an ENI.                                             *)
DelegateInv ==
  /\ DelegateTypeOK
  /\ \A p \in Pods : /\ at[p] # "idle" => box[p] # 0
                     /\ at[p] \in {"report2", "cache", "up"} => lease[Box(p)] # None
                     /\ at[p] \in {"report2", "cache"} => master[p] # None

ApiTypeOK ==
  /\ api \in [Pods -> {"absent", "running", "terminating", "gone"}]
  /\ late \subseteq Pods /\ clean \subseteq Pods

(* The informer does not run ahead of the API server, so that it releases  *)
(* nothing of a pod that runs.                                             *)
WatchInv ==
  /\ \A p \in Pods :
       /\ phase[p] \in KnownPhases(p)
       /\ api[p] = "absent" => at[p] = "idle" /\ box[p] = 0
       /\ api[p] \in {"absent", "running"} => \A j \in pending : j.pod # p
  /\ \A j \in pending : j.kind = "release"

NodeInv == AgentInv /\ DelegateInv /\ ApiTypeOK /\ WatchInv
------------------------------------------------------------------------------
(* A step of a process is a request to the agent or nothing to it.         *)
LEMMA PluginIsClient ==
  ASSUME DelegateInv, NEW p \in Pods, Plugin(p)
  PROVE  \/ UNCHANGED vars
         \/ \E a \in SUBSET Addr : ReportInterface(p, Net, Profile, a)
         \/ ReleaseInterface(p, Net, Profile)
<1>1. CASE FirstReport(p)
  <2>1. {} \in SUBSET Addr
    OBVIOUS
  <2>2. QED
    BY <1>1, <2>1 DEF FirstReport, Report, agentQuiet
<1>2. CASE SecondReport(p)
  <2>1. at[p] = "report2"
    BY <1>2 DEF SecondReport, Report, Goto, Fail
  <2>2. Box(p) \in Boxes
    BY <2>1 DEF DelegateInv, DelegateTypeOK, Box, Boxes
  <2>3. {lease[Box(p)]} \in SUBSET Addr
    BY <2>1, <2>2 DEF DelegateInv, DelegateTypeOK, Addr
  <2>4. QED
    BY <1>2, <2>3 DEF SecondReport, Report, agentQuiet
<1>3. CASE Release(p)
  BY <1>3 DEF Release, agentQuiet
<1>4. QED
  BY <1>1, <1>2, <1>3
     DEF Plugin, CmdAdd, CmdDel, PollStatus, WaitForHost, RunPlugins, WriteCache, ReadCache,
         LookupStatus, LookupHost, Unplug, RemoveCache, agentQuiet

(* The agent of a node is an agent: what the pods and processes around it  *)
(* do are steps that EniAgent allows.                                      *)
LEMMA NodeStepIsAgentStep ==
  ASSUME DelegateInv, [NodeNext]_nodeVars
  PROVE  [Next]_vars
<1>1. ASSUME NEW p \in Pods, Plugin(p) PROVE [Next]_vars
  <2>1. Net \in Ifaces /\ Profile \in Profiles
    BY DelegateAssumption
  <2>2. QED
    BY <1>1, <2>1, PluginIsClient DEF Next, Handlers
<1>2. QED
  BY <1>1
     DEF NodeNext, PodLife, StartSandbox, StartAdd, StopSandbox, StartDel, agentQuiet,
         InformerEvent, PluginStep, AgentStep, AgentCrash, Next, Hooks, nodeVars, vars

(* What the process of a pod can do to its own variables.                  *)
LEMMA OwnSteps ==
  ASSUME AgentInv, DelegateInv, NEW p \in Pods, Plugin(p) \/ StartAdd(p) \/ StartDel(p)
  PROVE  /\ DelegateInv'
         /\ \A q \in Pods \ {p} : at'[q] = at[q] /\ box'[q] = box[q] /\ master'[q] = master[q]
         /\ \A b \in Boxes : b[1] # p => lease'[b] = lease[b]
<1> USE DelegateAssumption DEF DelegateInv, DelegateTypeOK, AddSteps, DelSteps, Box
<1>0. at[p] # "idle" => Box(p) \in Boxes
  BY DEF Boxes
<1>1. CASE StartAdd(p)
  BY <1>1 DEF StartAdd, Goto
<1>2. CASE StartDel(p)
  BY <1>2 DEF StartDel, Goto
<1>3. CASE FirstReport(p)
  BY <1>3 DEF FirstReport, Report, Goto, Fail
<1>4. Status(p) \subseteq Entry
  BY DEF Status, AgentInv, TypeOK, Keys
<1>5. \A s \in Status(p) : s.eni \in EniIds /\ s.eni # None
  BY <1>4, Ec2Assumption DEF Entry
<1>6. CASE PollStatus(p)
  BY <1>5, <1>6 DEF PollStatus, Goto, Fail
<1>7. CASE WaitForHost(p)
  BY <1>7 DEF WaitForHost, Goto, Fail
<1>8. CASE RunPlugins(p)
  <2>1. \A a \in V4 : a # None
    BY Ec2Assumption DEF Addr
  <2>2. at[p] = "plugins" /\ Box(p) \in Boxes /\ UNCHANGED <<box, master, cache>>
        /\ at' \in {[at EXCEPT ![p] = "report2"], [at EXCEPT ![p] = "read"]}
    BY <1>0, <1>8 DEF RunPlugins, Goto
  <2>3. CASE \E a \in V4 : lease' = [lease EXCEPT ![Box(p)] = a]
    <3>1. PICK a \in V4 : lease' = [lease EXCEPT ![Box(p)] = a]
      BY <2>3
    <3>2. lease' \in [Boxes -> V4 \cup {None}] /\ lease'[Box(p)] = a
      BY <2>2, <3>1
    <3>3. \A q \in Pods \ {p} : Box(q)' = Box(q) /\ lease'[Box(q)] = lease[Box(q)]
      BY <2>2, <3>1
    <3>4. QED
      BY <2>1, <2>2, <3>1, <3>2, <3>3
  <2>4. CASE lease' = lease /\ at' = [at EXCEPT ![p] = "read"]
    BY <2>2, <2>4
  <2>5. QED
    BY <1>8, <2>3, <2>4 DEF RunPlugins, Goto
<1>9. CASE SecondReport(p)
  BY <1>9 DEF SecondReport, Report, Goto, Fail
<1>10. CASE WriteCache(p)
  <2>1. at[p] = "cache" /\ UNCHANGED <<box, master, lease>>
        /\ at' \in {[at EXCEPT ![p] = "up"], [at EXCEPT ![p] = "read"]}
    BY <1>10 DEF WriteCache, Goto, Fail
  <2>2. cache' \subseteq Boxes
    BY <1>0, <1>10, <2>1 DEF WriteCache, Fail
  <2>3. QED
    BY <2>1, <2>2
<1>11. CASE ReadCache(p)
  BY <1>11 DEF ReadCache, Goto
<1>12. CASE LookupStatus(p)
  BY <1>5, <1>12 DEF LookupStatus, Goto
<1>13. CASE LookupHost(p)
  BY <1>13 DEF LookupHost, Goto
<1>14. CASE Unplug(p)
  <2>1. at[p] = "unplug" /\ Box(p) \in Boxes /\ UNCHANGED <<box, master, cache>>
        /\ at' = [at EXCEPT ![p] = "release"]
    BY <1>0, <1>14 DEF Unplug, Goto
  <2>2. lease' \in {lease, [lease EXCEPT ![Box(p)] = None]}
    BY <1>14 DEF Unplug
  <2>3. lease' \in [Boxes -> V4 \cup {None}]
    BY <2>1, <2>2
  <2>4. \A b \in Boxes : b[1] # p => lease'[b] = lease[b]
    BY <2>1, <2>2
  <2>5. \A q \in Pods \ {p} : at[q] # "idle" => lease'[Box(q)] = lease[Box(q)]
    BY <2>4 DEF Boxes
  <2>6. QED
    BY <2>1, <2>3, <2>4, <2>5
<1>15. CASE Release(p)
  BY <1>15 DEF Release, Goto
<1>16. CASE RemoveCache(p)
  BY <1>16 DEF RemoveCache, Goto
<1>17. QED
  BY <1>1, <1>2, <1>3, <1>6, <1>7, <1>8, <1>9, <1>10, <1>11, <1>12, <1>13, <1>14, <1>15, <1>16
     DEF Plugin, CmdAdd, CmdDel

(* A process that takes a step was somewhere in its code.                  *)
LEMMA ProcessAwake ==
  ASSUME NEW p \in Pods, Plugin(p)
  PROVE  at[p] # "idle" /\ box' = box
  BY DEF Plugin, CmdAdd, CmdDel, FirstReport, SecondReport, Report, PollStatus, WaitForHost,
     RunPlugins, WriteCache, ReadCache, LookupStatus, LookupHost, Unplug, Release, RemoveCache,
     Goto, Fail

(* Every step keeps what the processes have at hand.                       *)
LEMMA DelegateStep ==
  ASSUME AgentInv, DelegateInv, [NodeNext]_nodeVars
  PROVE  DelegateInv'
<1>1. CASE UNCHANGED cniVars
  BY <1>1 DEF DelegateInv, DelegateTypeOK, cniVars, Box
<1>2. QED
  BY <1>1, OwnSteps
     DEF NodeNext, PodLife, StartSandbox, StopSandbox, InformerEvent, PluginStep, AgentStep,
         AgentCrash, nodeVars, cniVars

(* Steps of the processes change nothing that the informer knows or does.  *)
LEMMA ProcessesLeaveInformer ==
  ASSUME AgentInv, DelegateInv, NEW q \in Pods, Plugin(q) \/ StartAdd(q) \/ StartDel(q)
  PROVE  UNCHANGED <<phase, pending, state, failed, pc, job, eni, enis>>
  BY PluginIsClient
     DEF StartAdd, StartDel, agentQuiet, vars, ReportInterface, ReleaseInterface, managerVars

(* The hooks of the informer release, and only interfaces of their pod.    *)
LEMMA SnapshotIsReleases ==
  ASSUME NEW q
  PROVE  \A j \in SnapshotForPod(q) : j.pod = q /\ j.kind = "release"
<1>1. ASSUME NEW j \in SnapshotForPod(q) PROVE j.pod = q /\ j.kind = "release"
  <2>1. PICK i \in Ifaces : j = ReleaseJob(q, i, state[<<q, i>>].profile)
    BY DEF SnapshotForPod
  <2>2. QED
    BY <2>1 DEF ReleaseJob
<1>2. QED
  BY <1>1

(* Every step keeps the informer behind the API server.                    *)
LEMMA WatchStep ==
  ASSUME NodeInv, [NodeNext]_nodeVars
  PROVE  WatchInv' /\ ApiTypeOK'
<1> USE DEF NodeInv, WatchInv, ApiTypeOK, KnownPhases
<1>1. ASSUME NEW q \in Pods, PodLife(q) PROVE WatchInv' /\ ApiTypeOK'
  BY <1>1 DEF PodLife, Schedule, Terminate, Remove, vars, cniVars
<1>2. ASSUME NEW q \in Pods, Plugin(q) \/ StartAdd(q) \/ StartDel(q), UNCHANGED api,
             api[q] # "absent", late' \subseteq Pods, clean' \subseteq Pods
      PROVE  WatchInv' /\ ApiTypeOK'
  <2>1. \A p \in Pods : p # q => at'[p] = at[p] /\ box'[p] = box[p]
    BY <1>2, OwnSteps
  <2>2. UNCHANGED <<phase, pending>>
    BY <1>2, ProcessesLeaveInformer
  <2>3. QED
    BY <1>2, <2>1, <2>2
<1>3. ASSUME NEW q \in Pods, StartSandbox(q) PROVE WatchInv' /\ ApiTypeOK'
  BY <1>2, <1>3 DEF StartSandbox
<1>4. ASSUME NEW q \in Pods, StopSandbox(q) PROVE WatchInv' /\ ApiTypeOK'
  BY <1>2, <1>4 DEF StopSandbox, StartDel, Goto
<1>5. ASSUME NEW q \in Pods, Plugin(q), TooLate, UNCHANGED <<api, clean>>
      PROVE  WatchInv' /\ ApiTypeOK'
  <2>1. at[q] # "idle"
    BY <1>5, ProcessAwake
  <2>2. QED
    BY <1>2, <1>5, <2>1 DEF TooLate
<1>6. ASSUME NEW q \in Pods, InformerEvent(q) PROVE WatchInv' /\ ApiTypeOK'
  <2>1. late' \subseteq Pods /\ UNCHANGED <<at, box, api, clean>> /\ phase'[q] \in KnownPhases(q)
    BY <1>6 DEF InformerEvent, TooLate, cniVars
  <2>2. PICK to \in {"running", "terminating", "gone"}, releases \in {{}, SnapshotForPod(q)} :
          Hook(q, to, releases) /\ (to = "running" => releases = {})
    BY <1>6 DEF InformerEvent, OnPodAdd, OnPodUpdate, OnPodDelete
  <2>3. phase' = [phase EXCEPT ![q] = to] /\ pending' = releases
    BY <2>2 DEF Hook
  <2>4. \A j \in SnapshotForPod(q) : j.pod = q /\ j.kind = "release"
    BY SnapshotIsReleases
  <2>5. phase'[q] = to
    BY <2>3 DEF AgentInv, TypeOK
  <2>6. \A p \in Pods : phase'[p] \in KnownPhases(p)
    BY <2>1, <2>3, <2>5
  <2>7. \A p \in Pods : api[p] \in {"absent", "running"} => \A j \in pending' : j.pod # p
    BY <2>1, <2>2, <2>3, <2>4, <2>5
  <2>8. QED
    BY <2>1, <2>2, <2>3, <2>4, <2>6, <2>7
<1>7. CASE AgentStep
  <2>1. UNCHANGED <<api, late, clean, at, box, phase>> /\ pending' \subseteq pending
    BY <1>7 DEF AgentStep, Worker, Dequeue, WorkerCall, agentVars, FinishJob, Callback,
         QueueRelease, cniVars
  <2>2. QED
    BY <2>1
<1>8. CASE AgentCrash
  <2>1. UNCHANGED <<api, late, clean, at, box>> /\ pending' = {}
    BY <1>8 DEF AgentCrash, Crash, cniVars
  <2>2. \A p \in Pods : phase'[p] \in {"unseen", "gone"} /\ (phase'[p] = "gone" <=> api[p] = "gone")
    BY <1>8 DEF AgentCrash, Crash
  <2>3. QED
    BY <2>1, <2>2
<1>9. CASE UNCHANGED <<api, late, clean, at, box, phase, pending>>
  BY <1>9
<1>10. QED
  BY <1>1, <1>3, <1>4, <1>5, <1>6, <1>7, <1>8, <1>9
     DEF NodeNext, PluginStep, Environment, agentVars, cniVars, nodeVars

(* The initial state of the node satisfies its invariant.                  *)
LEMMA NodeInitInv == NodeInit => NodeInv
<1> SUFFICES ASSUME NodeInit PROVE NodeInv
  OBVIOUS
<1>1. AgentInv
  BY AgentInitInv DEF NodeInit
<1>2. DelegateInv
  BY DelegateAssumption DEF NodeInit, DelegateInit, DelegateInv, DelegateTypeOK
<1>3. ApiTypeOK /\ WatchInv
  BY DEF NodeInit, Init, DelegateInit, ApiTypeOK, WatchInv, KnownPhases
<1>4. QED
  BY <1>1, <1>2, <1>3 DEF NodeInv

(* The inductive invariant of the node: that of its agent, what its        *)
(* processes have at hand, and what its informer may know and release.     *)
THEOREM NodeInvariant == NodeSpec => []NodeInv
<1>1. NodeInv /\ [NodeNext]_nodeVars => NodeInv'
  BY NodeStepIsAgentStep, AgentInvStep, DelegateStep, WatchStep DEF NodeInv
<1>2. QED
  BY NodeInitInv, <1>1, PTL DEF NodeSpec

(* The agent of a node is an agent as EniAgent specifies it: the processes *)
(* and the pods around it ask of it nothing that its own specification     *)
(* does not allow, so that what is proved of the agent holds on a node.    *)
THEOREM NodeRunsAgent == NodeSpec => Spec
<1>1. NodeInit => Init
  BY DEF NodeInit
<1>2. NodeInv /\ [NodeNext]_nodeVars => [Next]_vars
  BY NodeStepIsAgentStep DEF NodeInv
<1>3. QED
  BY <1>1, <1>2, NodeInvariant, PTL DEF NodeSpec, Spec

(* Every variable of the node has its type.  In particular no process      *)
(* looks for the link of an ENI it does not know.                          *)
THEOREM NodeTypeCorrect == NodeSpec => []NodeTypeOK
<1>1. NodeInv => NodeTypeOK
  BY DEF NodeInv, AgentInv, DelegateInv, ApiTypeOK, NodeTypeOK
<1>2. QED
  BY <1>1, NodeInvariant, PTL
------------------------------------------------------------------------------
(* The last job that the agent accepted for a pod that is up is the report *)
(* of its address: nothing but its own process reports or releases for it  *)
(* while it runs.                                                          *)
AddressInv ==
  \A p \in Pods \ failed :
    at[p] \in {"cache", "up"} /\ api[p] = "running"
      => intent[<<p, Net>>] = EnsureJob(p, Net, Profile, {lease[Box(p)]})

(* The interface of the CNI processes is one the agent knows.              *)
LEMMA NetKey ==
  ASSUME NEW p \in Pods
  PROVE  <<p, Net>> \in Keys
  BY DelegateAssumption DEF Keys

(* How a process gets to the last steps of cmdAdd.                         *)
LEMMA LastSteps ==
  ASSUME DelegateInv, NEW p \in Pods, Plugin(p), at'[p] \in {"cache", "up"}
  PROVE  /\ UNCHANGED <<box, lease>>
         /\ \/ ReportInterface(p, Net, Profile, {lease[Box(p)]})
            \/ at[p] = "cache" /\ UNCHANGED vars
<1> USE DEF DelegateInv, DelegateTypeOK, Goto, Fail
<1>1. CASE SecondReport(p)
  BY <1>1 DEF SecondReport, Report
<1>2. CASE WriteCache(p)
  BY <1>2 DEF WriteCache, agentQuiet
<1>3. ASSUME at'[p] \in {"poll", "host", "plugins", "report2", "read", "lookup", "idle", "delhost",
                         "unplug", "remove", "release"}
      PROVE  FALSE
  BY <1>3
<1>4. ~FirstReport(p) /\ ~PollStatus(p) /\ ~WaitForHost(p) /\ ~RunPlugins(p)
  BY <1>3 DEF FirstReport, Report, PollStatus, WaitForHost, RunPlugins
<1>5. ~ReadCache(p) /\ ~LookupStatus(p) /\ ~LookupHost(p) /\ ~Unplug(p) /\ ~Release(p)
      /\ ~RemoveCache(p)
  BY <1>3 DEF ReadCache, LookupStatus, LookupHost, Unplug, Release, RemoveCache
<1>6. QED
  BY <1>1, <1>2, <1>4, <1>5 DEF Plugin, CmdAdd, CmdDel

(* A process only queues jobs of its own pod.                              *)
LEMMA OwnIntent ==
  ASSUME AgentInv, DelegateInv, NEW p \in Pods, Plugin(p), NEW q \in Pods, q # p
  PROVE  intent'[<<q, Net>>] = intent[<<q, Net>>]
<1>1. ASSUME NEW j, Enqueue(j), j.pod = p PROVE intent'[<<q, Net>>] = intent[<<q, Net>>]
  BY <1>1, NetKey DEF Enqueue, KeyOf, AgentInv, TypeOK
<1>2. ASSUME NEW a PROVE EnsureJob(p, Net, Profile, a).pod = p
  BY DEF EnsureJob
<1>3. ReleaseJob(p, Net, Profile).pod = p
  BY DEF ReleaseJob
<1>4. QED
  BY <1>1, <1>2, <1>3, PluginIsClient DEF ReportInterface, ReleaseInterface, vars

(* A pod with a job that was done has an interface in EC2, so a crash      *)
(* counts it among the forgotten.                                          *)
LEMMA ServedIsForgotten ==
  ASSUME NodeInv, LastJobWins, StateAgreesWithEc2, NEW p \in Pods \ failed,
         intent[<<p, Net>>] \in Job, intent[<<p, Net>>].kind = "ensure"
  PROVE  p \in Forgotten
<1> SUFFICES ASSUME p \notin Forgotten PROVE FALSE
  OBVIOUS
<1>1. /\ pc # "idle" => job.pod # p
      /\ \A n \in 1 .. Len(queue) : queue[n].pod # p
      /\ \A e \in EniIds : ~(Live(e) /\ enis[e].tag = p)
  BY DEF Forgotten
<1>2. Settled(<<p, Net>>) /\ ~Busy(p)
  BY <1>1 DEF Settled, KeyOf, Busy
<1>3. state[<<p, Net>>] # None
  BY <1>2, NetKey, AgentAssumption DEF LastJobWins
<1>4. state[<<p, Net>>] \in Published(p)
  BY <1>3, DelegateAssumption DEF Published
<1>5. {e \in EniIds : Live(e) /\ enis[e].tag = p} = {s.eni : s \in Published(p)}
  BY <1>2 DEF StateAgreesWithEc2
<1>6. QED
  BY <1>1, <1>4, <1>5

(* Every step keeps the report of the address the last job of its pod.     *)
LEMMA AddressStep ==
  ASSUME NodeInv, AddressInv, LastJobWins, StateAgreesWithEc2, [NodeNext]_nodeVars
  PROVE  AddressInv'
<1> USE DEF NodeInv
<1> SUFFICES ASSUME NEW p \in Pods, p \notin failed', at'[p] \in {"cache", "up"},
                    api'[p] = "running"
             PROVE  intent'[<<p, Net>>] = EnsureJob(p, Net, Profile, {lease'[Box(p)']})
  BY DEF AddressInv
<1> DEFINE Goal == intent'[<<p, Net>>] = EnsureJob(p, Net, Profile, {lease'[Box(p)']})
<1>0. at[p] # "idle" => Box(p) \in Boxes
  BY DEF DelegateInv, DelegateTypeOK, Box, Boxes
<1>1. ASSUME p \notin failed, at[p] = at'[p], api[p] = "running", box'[p] = box[p],
             lease'[Box(p)] = lease[Box(p)], intent'[<<p, Net>>] = intent[<<p, Net>>]
      PROVE  Goal
  BY <1>1 DEF AddressInv, Box
<1>2. ASSUME UNCHANGED <<cniVars, api, intent>>, p \notin failed PROVE Goal
  BY <1>1, <1>2 DEF cniVars
<1>3. ASSUME NEW q \in Pods, PodLife(q) PROVE Goal
  <2>1. UNCHANGED <<at, box, lease, intent, failed>>
    BY <1>3 DEF PodLife, vars, cniVars
  <2>2. api[p] = "running"
    BY <1>3, <2>1 DEF PodLife, Schedule, Terminate, Remove, WatchInv, ApiTypeOK
  <2>3. QED
    BY <1>1, <2>1, <2>2
<1>4. ASSUME NEW q \in Pods, StartSandbox(q) \/ StopSandbox(q) PROVE Goal
  <2>1. UNCHANGED <<lease, intent, failed, api>>
    BY <1>4 DEF StartSandbox, StopSandbox, StartAdd, StartDel, agentQuiet, vars
  <2>2. p # q
    BY <1>4 DEF StartSandbox, StopSandbox, StartAdd, StartDel, Goto, DelegateInv, DelegateTypeOK
  <2>3. at'[p] = at[p] /\ box'[p] = box[p]
    BY <1>4, <2>2, OwnSteps DEF StartSandbox, StopSandbox
  <2>4. QED
    BY <1>1, <2>1, <2>3
<1>5. ASSUME NEW q \in Pods, Plugin(q), UNCHANGED api PROVE Goal
  <2>1. failed' = failed
    BY <1>5, ProcessesLeaveInformer
  <2>2. CASE q # p
    <3>1. at'[p] = at[p] /\ box'[p] = box[p]
      BY <1>5, <2>2, OwnSteps
    <3>2. \A b \in Boxes : b[1] # q => lease'[b] = lease[b]
      BY <1>5, OwnSteps
    <3>3. Box(p)[1] = p /\ Box(p) \in Boxes
      BY <1>0, <3>1 DEF Box
    <3>4. QED
      BY <1>1, <1>5, <2>1, <2>2, <3>1, <3>2, <3>3, OwnIntent
  <2>3. CASE q = p
    <3>1. /\ UNCHANGED <<box, lease>>
          /\ \/ ReportInterface(p, Net, Profile, {lease[Box(p)]})
             \/ at[p] = "cache" /\ UNCHANGED vars
      BY <1>5, <2>3, LastSteps
    <3>2. CASE ReportInterface(p, Net, Profile, {lease[Box(p)]})
      <4>1. KeyOf(EnsureJob(p, Net, Profile, {lease[Box(p)]})) = <<p, Net>>
        BY DEF KeyOf, EnsureJob
      <4>2. intent'[<<p, Net>>] = EnsureJob(p, Net, Profile, {lease[Box(p)]})
        BY <3>2, <4>1, NetKey DEF ReportInterface, Enqueue, AgentInv, TypeOK
      <4>3. QED
        BY <3>1, <4>2 DEF Box
    <3>3. CASE at[p] = "cache" /\ UNCHANGED vars
      BY <1>5, <2>1, <3>1, <3>3 DEF AddressInv, vars, Box
    <3>4. QED
      BY <3>1, <3>2, <3>3
  <2>4. QED
    BY <2>2, <2>3
<1>6. ASSUME NEW q \in Pods, InformerEvent(q) PROVE Goal
  BY <1>2, <1>6 DEF InformerEvent, OnPodAdd, OnPodUpdate, OnPodDelete, Hook
<1>7. CASE AgentStep
  <2>1. UNCHANGED <<cniVars, api>>
    BY <1>7 DEF AgentStep
  <2>2. CASE Worker
    BY <1>2, <2>1, <2>2 DEF Worker, Dequeue, WorkerCall, FinishJob, agentVars
  <2>3. ASSUME NEW j \in pending, QueueRelease(j) PROVE Goal
    <3>1. j.pod # p
      BY <2>1 DEF WatchInv
    <3>2. intent'[<<p, Net>>] = intent[<<p, Net>>] /\ p \notin failed
      BY <2>3, <3>1, NetKey DEF QueueRelease, Enqueue, KeyOf, AgentInv, TypeOK
    <3>3. QED
      BY <1>1, <2>1, <3>2 DEF cniVars
  <2>4. QED
    BY <1>7, <2>2, <2>3 DEF AgentStep, Callback
<1>8. CASE AgentCrash
  <2>1. UNCHANGED <<cniVars, api>> /\ p \notin failed /\ p \notin Forgotten
    BY <1>8 DEF AgentCrash, Crash
  <2>2. intent[<<p, Net>>] = EnsureJob(p, Net, Profile, {lease[Box(p)]})
    BY <2>1 DEF AddressInv, cniVars
  <2>3. {lease[Box(p)]} \in SUBSET Addr
    BY <1>0, <2>1 DEF DelegateInv, DelegateTypeOK, cniVars, Addr
  <2>4. EnsureJob(p, Net, Profile, {lease[Box(p)]}) \in Job
    BY <2>3, JobsTyped, DelegateAssumption
  <2>5. intent[<<p, Net>>].kind = "ensure"
    BY <2>2 DEF EnsureJob
  <2>6. QED
    BY <2>1, <2>2, <2>4, <2>5, ServedIsForgotten
<1>9. CASE Environment /\ UNCHANGED <<cniVars, api, late>>
  BY <1>2, <1>9 DEF Environment, agentVars
<1>10. CASE UNCHANGED nodeVars
  BY <1>2, <1>10 DEF nodeVars, cniVars
<1>11. QED
  BY <1>3, <1>4, <1>5, <1>6, <1>7, <1>8, <1>9, <1>10 DEF NodeNext, PluginStep

(* Once nothing is left to do for a pod that is up, the address its IPAM   *)
(* chose is on its ENI, through any interleaving of processes, hooks and   *)
(* worker and through crashes, unless a job failed.  Pods have one         *)
(* interface.                                                              *)
THEOREM AddressArrives ==
  ASSUME OneInterface
  PROVE  NodeSpec => []UpHasItsAddress
<1>1. NodeSpec => []LastJobWins
  BY NodeRunsAgent, LastJobCounts, PTL
<1>2. NodeSpec => []StateAgreesWithEc2
  BY NodeRunsAgent, MapAgreesWithEc2, PTL
<1>3. NodeInit => AddressInv
  BY DEF NodeInit, DelegateInit, AddressInv
<1>4. NodeInv /\ AddressInv /\ LastJobWins /\ StateAgreesWithEc2 /\ [NodeNext]_nodeVars
        => AddressInv'
  BY AddressStep
<1>5. NodeInv /\ AddressInv /\ LastJobWins /\ StateAgreesWithEc2 => UpHasItsAddress
  <2> SUFFICES ASSUME NodeInv, AddressInv, LastJobWins, StateAgreesWithEc2,
                      NEW p \in Pods, Up(p), Quiet(p), p \notin failed
               PROVE  \E e \in EniIds : /\ enis[e].tag = p /\ enis[e].status = "in-use"
                                        /\ lease[Box(p)] \in Addresses(e)
    BY DEF UpHasItsAddress
  <2> DEFINE k == <<p, Net>>
  <2>1. Box(p) \in Boxes /\ lease[Box(p)] # None
    BY DEF Up, NodeInv, DelegateInv, DelegateTypeOK, Box, Boxes
  <2>2. intent[k] = EnsureJob(p, Net, Profile, {lease[Box(p)]})
    BY DEF Up, AddressInv
  <2>3. intent[k] \in Job /\ intent[k].kind = "ensure" /\ intent[k].ips = {lease[Box(p)]}
    <3>1. {lease[Box(p)]} \in SUBSET Addr
      BY <2>1 DEF NodeInv, DelegateInv, DelegateTypeOK, Addr
    <3>2. EnsureJob(p, Net, Profile, {lease[Box(p)]}) \in Job
      BY <3>1, JobsTyped, DelegateAssumption
    <3>3. QED
      BY <2>2, <3>2 DEF EnsureJob
  <2>4. Settled(k)
    BY DEF Quiet
  <2>5. state[k] # None /\ state[k].ips = {lease[Box(p)]}
    BY <2>3, <2>4, NetKey, AgentAssumption DEF LastJobWins
  <2>6. ~Busy(p)
    <3>1. pc # "idle" => job.iface = Net
      BY DelegateAssumption DEF OneInterface, NodeInv, AgentInv, TypeOK, ManagerTypeOK, Job
    <3>2. QED
      BY <2>4, <3>1 DEF Settled, KeyOf, Busy
  <2>7. state[k] \in Published(p)
    BY <2>5, DelegateAssumption DEF Published
  <2>8. /\ state[k].eni \in {e \in EniIds : Live(e) /\ enis[e].tag = p}
        /\ enis[state[k].eni].status = "in-use"
        /\ state[k].ips \subseteq Addresses(state[k].eni)
    BY <2>6, <2>7 DEF StateAgreesWithEc2
  <2>9. QED
    BY <2>5, <2>8
<1>6. QED
  BY <1>1, <1>2, <1>3, <1>4, <1>5, NodeInvariant, PTL DEF NodeSpec
------------------------------------------------------------------------------
(* A release of the interface is still to be queued, queued or at work.    *)
Waits(k) ==
  \/ \E j \in pending : KeyOf(j) = k
  \/ \E n \in 1 .. Len(queue) : KeyOf(queue[n]) = k
  \/ pc # "idle" /\ KeyOf(job) = k

(* Once the watcher has seen the deletion of a pod of which no report was  *)
(* left, no report comes, and what is published waits for its release.     *)
Watched(p) == ~Reported(p) /\ \A i \in Ifaces : state[<<p, i>>] # None => Waits(<<p, i>>)

GoneInv == \A p \in Pods \ (failed \cup late) : phase[p] = "gone" => Watched(p)

(* The worker serves a release that waits, or the job fails.               *)
LEMMA GoneWorkerStep ==
  ASSUME NodeInv, Worker, NEW p \in Pods, Watched(p), p \notin failed'
  PROVE  Watched(p)'
<1> USE DEF NodeInv, AgentInv, TypeOK, ManagerTypeOK, Watched, Waits, Reported
<1>1. CASE Dequeue
  <2>1. /\ job' = queue[1] /\ pc = "idle" /\ pc' # "idle" /\ 1 \in 1 .. Len(queue)
        /\ UNCHANGED <<state, pending>>
    BY <1>1 DEF Dequeue, Begin
  <2>2. \A n \in 1 .. Len(queue') : n + 1 \in 1 .. Len(queue) /\ queue'[n] = queue[n + 1]
    BY <1>1 DEF Dequeue
  <2>3. \A n \in 1 .. Len(queue) : n = 1 \/ (n - 1 \in 1 .. Len(queue') /\ queue'[n - 1] = queue[n])
    BY <1>1 DEF Dequeue
  <2>4. ~Reported(p)'
    BY <2>1, <2>2
  <2>5. ASSUME NEW i \in Ifaces, state'[<<p, i>>] # None PROVE Waits(<<p, i>>)'
    <3>1. Waits(<<p, i>>)
      BY <2>1, <2>5
    <3>2. QED
      BY <2>1, <2>3, <3>1 DEF KeyOf
  <2>6. QED
    BY <2>4, <2>5
<1>2. CASE WorkerCall
  <2>1. pc # "idle" /\ pc' # "idle" /\ UNCHANGED <<job, queue, state, pending>>
    BY <1>2 DEF WorkerCall, agentVars, CallStep, FindExistingInterface, EnsureStep,
         NextAvailableDeviceIndex, CreateNetworkInterface, AttachNetworkInterface,
         ModifyNetworkInterface, AssignIPAddresses, ReleaseStep, UnassignIPAddresses,
         DetachInterface, WaitForDetachment, DeleteInterface, Invoke
  <2>2. QED
    BY <2>1 DEF KeyOf
<1>3. CASE FinishJob
  <2>1. /\ pc \in {"ok", "err"} /\ pc' = "idle" /\ job \in Job /\ state' = Outcome
        /\ UNCHANGED <<queue, pending>>
        /\ pc = "err" => job.pod # p
    BY <1>3 DEF FinishJob, Return, Reset
  <2>2. ~Reported(p)'
    BY <2>1
  <2>3. ASSUME NEW i \in Ifaces, state'[<<p, i>>] # None PROVE Waits(<<p, i>>)'
    <3>1. KeyOf(job) # <<p, i>>
      <4>1. SUFFICES ASSUME KeyOf(job) = <<p, i>> PROVE FALSE
        OBVIOUS
      <4>2. pc = "ok" /\ job.kind = "release"
        BY <2>1, <4>1 DEF KeyOf, Job
      <4>3. state'[<<p, i>>] = None
        BY <2>1, <4>1, <4>2 DEF Outcome, Keys
      <4>4. QED
        BY <2>3, <4>3
    <3>2. state[<<p, i>>] # None
      BY <2>1, <2>3, <3>1 DEF Outcome, Keys
    <3>3. QED
      BY <2>1, <3>1, <3>2 DEF KeyOf
  <2>4. QED
    BY <2>2, <2>3
<1>4. QED
  BY <1>1, <1>2, <1>3 DEF Worker

(* Every step keeps the releases of deleted pods waiting until served.     *)
LEMMA GoneStep ==
  ASSUME "relist" \notin Faults, NodeInv, GoneInv, [NodeNext]_nodeVars
  PROVE  GoneInv'
<1> USE DEF NodeInv, AgentInv, TypeOK
<1> SUFFICES ASSUME NEW p \in Pods, p \notin failed', p \notin late', phase'[p] = "gone"
             PROVE  Watched(p)'
  BY DEF GoneInv
<1>1. ASSUME p \notin failed, p \notin late, phase[p] = "gone" PROVE Watched(p)
  BY <1>1 DEF GoneInv
<1>2. ASSUME UNCHANGED <<pc, job, queue, pending, state, phase, failed, late>> PROVE Watched(p)'
  BY <1>1, <1>2 DEF Watched, Waits, Reported, KeyOf
<1>3. TooLate => ~Reported(p)'
  BY DEF TooLate
<1>4. ASSUME NEW q \in Pods, Plugin(q), TooLate PROVE Watched(p)'
  <2>1. UNCHANGED <<pc, job, pending, state, phase, failed>>
    BY <1>4, ProcessesLeaveInformer
  <2>2. queue' = queue \/ \E j : queue' = Append(queue, j)
    BY <1>4, PluginIsClient DEF ReportInterface, ReleaseInterface, Enqueue, vars
  <2>3. \A n \in 1 .. Len(queue) : n \in 1 .. Len(queue') /\ queue'[n] = queue[n]
    BY <2>2
  <2>4. late \subseteq late'
    BY <1>4 DEF TooLate
  <2>5. QED
    BY <1>1, <1>3, <1>4, <2>1, <2>3, <2>4 DEF Watched, Waits, KeyOf
<1>5. ASSUME NEW q \in Pods, InformerEvent(q) PROVE Watched(p)'
  <2>1. /\ UNCHANGED <<pc, job, queue, state, failed>> /\ pending = {}
        /\ late \subseteq late' /\ ~Reported(p)'
    BY <1>3, <1>5 DEF InformerEvent, OnPodAdd, OnPodUpdate, OnPodDelete, Hook, managerVars, TooLate
  <2>2. CASE phase[p] = "gone"
    BY <1>1, <2>1, <2>2 DEF Watched, Waits, KeyOf
  <2>3. CASE phase[p] # "gone"
    <3>1. PICK to \in {"running", "terminating", "gone"} :
            /\ phase' = [phase EXCEPT ![q] = to]
            /\ to = "gone" => pending' = SnapshotForPod(q)
      BY <1>5 DEF InformerEvent, OnPodAdd, OnPodUpdate, OnPodDelete, Hook
    <3>2. q = p /\ to = "gone"
      BY <2>3, <3>1
    <3>3. ASSUME NEW i \in Ifaces, state[<<p, i>>] # None
          PROVE  \E j \in pending' : KeyOf(j) = <<p, i>>
      <4>1. ReleaseJob(p, i, state[<<p, i>>].profile) \in pending'
        BY <3>1, <3>2, <3>3 DEF SnapshotForPod
      <4>2. KeyOf(ReleaseJob(p, i, state[<<p, i>>].profile)) = <<p, i>>
        BY DEF KeyOf, ReleaseJob
      <4>3. QED
        BY <4>1, <4>2
    <3>4. QED
      BY <2>1, <3>3 DEF Watched, Waits, KeyOf
  <2>4. QED
    BY <2>2, <2>3
<1>6. CASE Worker /\ UNCHANGED late
  <2>1. phase' = phase /\ p \notin failed
    BY <1>6 DEF Worker, Dequeue, WorkerCall, FinishJob, agentVars
  <2>2. QED
    BY <1>1, <1>6, <2>1, GoneWorkerStep
<1>7. ASSUME NEW j \in pending, QueueRelease(j), UNCHANGED late PROVE Watched(p)'
  <2>1. /\ UNCHANGED <<pc, job, state, phase>> /\ p \notin failed
        /\ pending' = pending \ {j} /\ j \in Job /\ j.kind = "release"
    BY <1>7 DEF QueueRelease, managerVars, WatchInv
  <2>2. Watched(p)
    BY <1>1, <1>7, <2>1
  <2>3. CASE queue' = Append(queue, j)
    <3>1. /\ \A n \in 1 .. Len(queue) : n \in 1 .. Len(queue') /\ queue'[n] = queue[n]
          /\ Len(queue) + 1 \in 1 .. Len(queue') /\ queue'[Len(queue) + 1] = j
          /\ \A n \in 1 .. Len(queue') : n \in 1 .. Len(queue) \/ queue'[n] = j
      BY <2>3
    <3>2. ~Reported(p)'
      BY <2>1, <2>2, <3>1 DEF Watched, Reported
    <3>3. ASSUME NEW i \in Ifaces, Waits(<<p, i>>) PROVE Waits(<<p, i>>)'
      <4>1. CASE KeyOf(j) = <<p, i>>
        BY <3>1, <4>1 DEF Waits, KeyOf
      <4>2. CASE KeyOf(j) # <<p, i>>
        BY <2>1, <3>1, <3>3, <4>2 DEF Waits, KeyOf
      <4>3. QED
        BY <4>1, <4>2
    <3>4. QED
      BY <2>1, <2>2, <3>2, <3>3 DEF Watched
  <2>4. CASE queue' = queue /\ j.pod # p
    BY <2>1, <2>2, <2>4 DEF Watched, Waits, KeyOf, Reported
  <2>5. QED
    BY <1>7, <2>3, <2>4 DEF QueueRelease, Enqueue
<1>8. CASE AgentCrash
  <2>1. state' = Nothing /\ queue' = <<>> /\ pc' = "idle"
    BY <1>8 DEF AgentCrash, Crash, ManagerCrash, Reset
  <2>2. QED
    BY <2>1 DEF Watched, Reported, Nothing, Keys
<1>9. QED
  BY <1>2, <1>4, <1>5, <1>6, <1>7, <1>8
     DEF NodeNext, PodLife, StartSandbox, StartAdd, StopSandbox, StartDel, agentQuiet, vars,
         PluginStep, AgentStep, Callback, Environment, callVars, agentVars, nodeVars

(* When nothing is left to do for a deleted pod, EC2 has nothing for it,   *)
(* whatever became of the release of cmdDel: the watcher makes up for it,  *)
(* unless a report was on its way when the deletion was seen, or a job     *)
(* failed.  Pods have one interface and the informer misses no deletion.   *)
THEOREM WatcherMakesUp ==
  ASSUME OneInterface, "relist" \notin Faults
  PROVE  NodeSpec => []WatcherReleasesRest
<1>1. NodeSpec => []StateAgreesWithEc2
  BY NodeRunsAgent, MapAgreesWithEc2, PTL
<1>2. NodeInit => GoneInv
  BY DEF NodeInit, Init, GoneInv
<1>3. NodeInv /\ GoneInv /\ [NodeNext]_nodeVars => GoneInv'
  BY GoneStep
<1>4. NodeInv /\ GoneInv /\ StateAgreesWithEc2 => WatcherReleasesRest
  <2> SUFFICES ASSUME NodeInv, GoneInv, StateAgreesWithEc2,
                      NEW p \in Pods, p \notin failed, p \notin late, api[p] = "gone", Quiet(p),
                      NEW e \in EniIds, enis[e].tag = p, Live(e)
               PROVE  FALSE
    BY DEF WatcherReleasesRest
  <2> USE DEF NodeInv, AgentInv, TypeOK, ManagerTypeOK
  <2>1. /\ phase[p] = "gone" /\ Settled(<<p, Net>>)
        /\ \A j \in pending : j.pod # p
    BY DEF Quiet
  <2>2. \A i \in Ifaces : i = Net
    BY DelegateAssumption DEF OneInterface
  <2>3. ~Waits(<<p, Net>>)
    BY <2>1 DEF Waits, Settled, KeyOf
  <2>4. ~Busy(p)
    <3>1. pc # "idle" => job.iface = Net
      BY <2>2 DEF Job
    <3>2. QED
      BY <2>1, <3>1 DEF Settled, KeyOf, Busy
  <2>5. \A i \in Ifaces : state[<<p, i>>] = None
    BY <2>1, <2>2, <2>3 DEF GoneInv, Watched
  <2>6. Published(p) = {}
    BY <2>5 DEF Published
  <2>7. QED
    BY <2>4, <2>6 DEF StateAgreesWithEc2
<1>5. QED
  BY <1>1, <1>2, <1>3, <1>4, NodeInvariant, PTL DEF NodeSpec
==============================================================================
