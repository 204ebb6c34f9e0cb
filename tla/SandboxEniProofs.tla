--------------------------- MODULE SandboxEniProofs ----------------------------
(***************************************************************************)
(* Proofs that a running pod keeps its ENI when no release of it was left  *)
(* at the begin of its sandbox (CleanBoxKeepsItsEni), as there never is    *)
(* for the first one (FirstBoxKeepsItsEni), and that the node implements   *)
(* PodLinks (LinksPods).                                                   *)
(***************************************************************************)
EXTENDS MultiVpcNodeProofs

(* The ENIs of pod p that are in use, and all of them.                     *)
InUse(p, e) == e \in EniIds /\ enis[e].tag = p /\ enis[e].status = "in-use"

Own(p, e) == e \in EniIds /\ enis[e].tag = p /\ enis[e].status # "none"

(* What is published is an ENI of the pod it is published for.             *)
MapTagged == \A p \in Pods, i \in Ifaces : state[<<p, i>>] # None => Own(p, state[<<p, i>>].eni)

(* A pod that runs, or has still to, and has had no sandbox yet, or has    *)
(* one that was begun with no release left.                                *)
Protected(p) ==
  /\ api[p] \in {"absent", "running"}
  /\ \/ at[p] = "idle" /\ box[p] = 0
     \/ at[p] \in AddSteps \cup {"up"} /\ p \in clean

(* The ENI that a process got from the map is one of its pod; from the     *)
(* moment its link was seen it is in use.                                  *)
MasterInUse(p) ==
  /\ at[p] = "host" => Own(p, master[p])
  /\ at[p] \in {"plugins", "report2", "cache", "up"} => InUse(p, master[p])

(* What is true of a pod in a sandbox begun with no release of it left.    *)
Undisturbed(p) == NoRelease(p) /\ MasterInUse(p)

CleanInv ==
  /\ MapTagged
  /\ \A p \in Pods : /\ Protected(p) => Undisturbed(p)
                     /\ box[p] = 1 /\ at[p] \in AddSteps \cup {"up"} => p \in clean
------------------------------------------------------------------------------
(* A step of a process towards "up" is one of cmdAdd: it finds an ENI in   *)
(* the map, sees its link, or goes on with it.                             *)
LEMMA TowardsUp ==
  ASSUME DelegateInv, NEW p \in Pods, Plugin(p), at'[p] \in AddSteps \cup {"up"}
  PROVE  /\ at[p] \in AddSteps /\ box' = box
         /\ UNCHANGED vars \/ \E a \in SUBSET Addr : ReportInterface(p, Net, Profile, a)
         /\ at'[p] = "host" =>
              /\ state[<<p, Net>>] # None
              /\ master' = [master EXCEPT ![p] = state[<<p, Net>>].eni]
         /\ at'[p] = "plugins" => at[p] = "host" /\ LinkThere(p) /\ master' = master
         /\ at'[p] \in {"report2", "cache", "up"} =>
              at[p] \in {"plugins", "report2", "cache"} /\ master' = master
<1> USE DEF DelegateInv, DelegateTypeOK, Goto, Fail, AddSteps
<1>1. CASE FirstReport(p)
  BY <1>1, PluginIsClient DEF FirstReport, Report, agentQuiet
<1>2. CASE PollStatus(p)
  BY <1>2 DEF PollStatus, Status, agentQuiet
<1>3. CASE WaitForHost(p)
  BY <1>3 DEF WaitForHost, agentQuiet
<1>4. CASE RunPlugins(p)
  BY <1>4 DEF RunPlugins, agentQuiet
<1>5. CASE SecondReport(p)
  <2>1. at[p] = "report2"
    BY <1>5 DEF SecondReport, Report
  <2>2. Box(p) \in Boxes
    BY <2>1 DEF Box, Boxes
  <2>3. {lease[Box(p)]} \in SUBSET Addr
    BY <2>1, <2>2 DEF Addr
  <2>4. QED
    BY <1>5, <2>1, <2>3 DEF SecondReport, Report, agentQuiet
<1>6. CASE WriteCache(p)
  BY <1>6 DEF WriteCache, agentQuiet
<1>7. ~ReadCache(p) /\ ~LookupStatus(p) /\ ~LookupHost(p) /\ ~Unplug(p) /\ ~Release(p)
      /\ ~RemoveCache(p)
  BY DEF ReadCache, LookupStatus, LookupHost, Unplug, Release, RemoveCache
<1>8. QED
  BY <1>1, <1>2, <1>3, <1>4, <1>5, <1>6, <1>7 DEF Plugin, CmdAdd, CmdDel

(* A pod becomes protected only by a sandbox that begins with no release   *)
(* left.                                                                   *)
LEMMA ProtectedBefore ==
  ASSUME NodeInv, [NodeNext]_nodeVars, NEW p \in Pods, Protected(p)'
  PROVE  Protected(p) \/ (StartSandbox(p) /\ NoRelease(p))
<1> USE DEF NodeInv, DelegateInv, DelegateTypeOK, ApiTypeOK, WatchInv, Protected, AddSteps
<1>1. ASSUME NEW q \in Pods, PodLife(q) PROVE Protected(p)
  BY <1>1 DEF PodLife, Schedule, Terminate, Remove, cniVars
<1>2. ASSUME NEW q \in Pods, StartSandbox(q)
      PROVE  Protected(p) \/ (StartSandbox(p) /\ NoRelease(p))
  <2>1. CASE q # p
    <3>1. at'[p] = at[p] /\ box'[p] = box[p] /\ (p \in clean' <=> p \in clean)
      BY <1>2, <2>1, OwnSteps DEF StartSandbox
    <3>2. QED
      BY <1>2, <3>1 DEF StartSandbox
  <2>2. CASE q = p
    <3>1. at'[p] = "report"
      BY <1>2, <2>2 DEF StartSandbox, StartAdd, Goto
    <3>2. QED
      BY <1>2, <2>2, <3>1 DEF StartSandbox
  <2>3. QED
    BY <2>1, <2>2
<1>3. ASSUME NEW q \in Pods, StopSandbox(q) PROVE Protected(p)
  BY <1>3 DEF StopSandbox, StartDel, Goto
<1>4. ASSUME NEW q \in Pods, Plugin(q), UNCHANGED <<api, clean>> PROVE Protected(p)
  <2>1. CASE q # p
    BY <1>4, <2>1, OwnSteps
  <2>2. CASE q = p
    <3>1. at[p] # "idle" /\ box' = box
      BY <1>4, <2>2, ProcessAwake
    <3>2. at'[p] \in AddSteps \cup {"up"}
      BY <3>1
    <3>3. QED
      BY <1>4, <2>2, <3>1, <3>2, TowardsUp
  <2>3. QED
    BY <2>1, <2>2
<1>5. CASE UNCHANGED <<api, at, box, clean>>
  BY <1>5
<1>6. QED
  BY <1>1, <1>2, <1>3, <1>4, <1>5
     DEF NodeNext, PluginStep, InformerEvent, AgentStep, AgentCrash, cniVars, nodeVars

(* Without a detachment under way, what the call in progress leaves alone  *)
(* stays in use.                                                           *)
LEMMA UntouchedStays ==
  ASSUME AgentInv, NEW p \in Pods, NoDetachment(p), Untouched(p)
  PROVE  /\ NoDetachment(p)'
         /\ \A e : InUse(p, e) => InUse(p, e)'
<1> USE DEF AgentInv, TypeOK, ManagerTypeOK, Ec2TypeOK
<1>1. ASSUME NEW e \in EniIds, (Live(e) /\ enis[e].tag = p) \/ (Live(e) /\ enis[e].tag = p)'
      PROVE  enis'[e] = enis[e]
  <2>1. CASE DetachCompletes(e)
    <3>1. enis[e].status = "detaching" /\ enis'[e].tag = enis[e].tag
      BY <2>1 DEF DetachCompletes, Eni
    <3>2. QED
      BY <1>1, <3>1 DEF NoDetachment
  <2>2. QED
    BY <1>1, <2>1 DEF Untouched
<1>2. QED
  BY <1>1 DEF NoDetachment, InUse, Live

(* Neither does a report disturb what is in use.                           *)
LEMMA ReportStays ==
  ASSUME AgentInv, HandInv, NEW p \in Pods, Busy(p), NoRelease(p), CallStep
  PROVE  /\ NoDetachment(p)'
         /\ \A e : InUse(p, e) => InUse(p, e)'
<1> USE DEF AgentInv, TypeOK, ManagerTypeOK, Ec2TypeOK, Steps, EniSteps, NoRelease, Busy
<1>0. Ensuring /\ job.pod = p /\ job \in Job /\ pc # "idle"
  BY DEF OnlyReports, Ensuring
<1>1. ~ReleaseStep
  BY <1>0 DEF ReleaseStep, UnassignIPAddresses, DetachInterface, WaitForDetachment,
     DeleteInterface, ManagerInv, CallInv, Ensuring, Releasing
<1>2. CASE enis' = enis
  BY <1>2 DEF NoDetachment, InUse
<1>3. CASE CreateNetworkInterface
  <2>1. ASSUME NEW d \in EniIds, NEW a, enis[d].status = "none", enis' = Created(d, a)
        PROVE  NoDetachment(p)' /\ \A e : InUse(p, e) => InUse(p, e)'
    BY <2>1 DEF Created, NoDetachment, InUse
  <2>2. QED
    BY <1>2, <1>3, <2>1 DEF CreateNetworkInterface
<1>4. CASE AttachNetworkInterface
  <2>1. eni \in EniIds /\ enis[eni].tag = p
    BY <1>0, <1>4 DEF AttachNetworkInterface, HandInv
  <2>2. CASE enis' = [enis EXCEPT ![eni].status = "in-use", ![eni].dev = dev]
    <3>1. \A e \in EniIds : /\ enis'[e].tag = enis[e].tag
                            /\ enis'[e].status = IF e = eni THEN "in-use" ELSE enis[e].status
      BY <2>1, <2>2 DEF Eni
    <3>2. QED
      BY <3>1 DEF NoDetachment, InUse
  <2>3. QED
    BY <1>2, <1>4, <2>2 DEF AttachNetworkInterface, Invoke
<1>5. CASE \A e \in EniIds : enis'[e].tag = enis[e].tag /\ enis'[e].status = enis[e].status
  BY <1>5 DEF NoDetachment, InUse
<1>6. CASE ModifyNetworkInterface
  BY <1>5, <1>6 DEF ModifyNetworkInterface, Invoke, Eni
<1>7. ASSUME NEW family, NEW here \in EniSteps, NEW next, AssignIPAddresses(family, here, next)
      PROVE  NoDetachment(p)' /\ \A e : InUse(p, e) => InUse(p, e)'
  <2>1. \/ enis' = enis
        \/ \E w : enis' = [enis EXCEPT ![eni].ips = @ \cup w]
    BY <1>7 DEF AssignIPAddresses, Invoke
  <2>2. QED
    BY <1>5, <2>1 DEF Eni
<1>8. QED
  BY <1>1, <1>2, <1>3, <1>4, <1>6, <1>7
     DEF CallStep, EnsureStep, FindExistingInterface, NextAvailableDeviceIndex, ec2Vars
------------------------------------------------------------------------------
(* Jobs queued by others, or by its own reports, change nothing for a pod. *)
LEMMA EnqueueStays ==
  ASSUME AgentInv, NEW p \in Pods, OnlyReports(p), UNCHANGED <<pc, job>>, NEW j, Enqueue(j),
         j.pod # p \/ j.kind = "ensure"
  PROVE  OnlyReports(p)'
<1>1. \A n \in 1 .. Len(queue') : (n \in 1 .. Len(queue) /\ queue'[n] = queue[n]) \/ queue'[n] = j
  BY DEF Enqueue, AgentInv, TypeOK
<1>2. QED
  BY <1>1 DEF OnlyReports, Busy

(* A step of the worker on a pod without release.                          *)
LEMMA WorkerStays ==
  ASSUME AgentInv, HandInv, NEW p \in Pods, NoRelease(p), Worker
  PROVE  NoRelease(p)' /\ \A e : InUse(p, e) => InUse(p, e)'
<1> USE DEF AgentInv, TypeOK, ManagerTypeOK, NoRelease
<1>1. CASE Dequeue
  <2>1. job' = queue[1] /\ 1 \in 1 .. Len(queue) /\ enis' = enis
    BY <1>1 DEF Dequeue, Begin, ec2Vars
  <2>2. \A n \in 1 .. Len(queue') : n + 1 \in 1 .. Len(queue) /\ queue'[n] = queue[n + 1]
    BY <1>1 DEF Dequeue
  <2>3. QED
    BY <2>1, <2>2 DEF OnlyReports, Busy, NoDetachment, InUse
<1>2. CASE WorkerCall
  <2>1. pc # "idle" /\ UNCHANGED <<job, queue>>
    BY <1>2 DEF WorkerCall, agentVars, CallStep, FindExistingInterface, EnsureStep,
         NextAvailableDeviceIndex, CreateNetworkInterface, AttachNetworkInterface,
         ModifyNetworkInterface, AssignIPAddresses, ReleaseStep, UnassignIPAddresses,
         DetachInterface, WaitForDetachment, DeleteInterface, Invoke
  <2>2. OnlyReports(p)'
    BY <2>1 DEF OnlyReports, Busy
  <2>3. CASE Busy(p)
    BY <1>2, <2>2, <2>3, ReportStays DEF WorkerCall
  <2>4. CASE ~Busy(p)
    <3>1. Untouched(p)
      BY <1>2, <2>4, OthersUntouched DEF WorkerCall, ManagerNext
    <3>2. QED
      BY <2>2, <3>1, UntouchedStays
  <2>5. QED
    BY <2>3, <2>4
<1>3. CASE FinishJob
  <2>1. pc' = "idle" /\ UNCHANGED <<queue, enis>>
    BY <1>3 DEF FinishJob, Return, Reset, ec2Vars
  <2>2. QED
    BY <2>1 DEF OnlyReports, NoDetachment, InUse, Busy
<1>4. QED
  BY <1>1, <1>2, <1>3 DEF Worker
(* An ENI keeps its tag, whatever becomes of it.                           *)
LEMMA OwnStays ==
  ASSUME ManagerInv, HandInv, [ManagerNext]_managerVars, NEW p, NEW e, Own(p, e)
  PROVE  Own(p, e)'
<1> USE DEF ManagerInv, ManagerTypeOK, Ec2TypeOK, Own, EniSteps
<1>1. CASE enis' = enis
  BY <1>1
<1>2. CASE CreateNetworkInterface
  <2>1. ASSUME NEW d \in EniIds, NEW a, enis[d].status = "none", enis' = Created(d, a)
        PROVE  Own(p, e)'
    BY <2>1 DEF Created
  <2>2. QED
    BY <1>1, <1>2, <2>1 DEF CreateNetworkInterface
<1>3. CASE enis'[e].tag = enis[e].tag /\ enis'[e].status # "none"
  BY <1>3
<1>4. CASE AttachNetworkInterface \/ ModifyNetworkInterface \/ DetachInterface \/ DeleteInterface
  BY <1>3, <1>4 DEF AttachNetworkInterface, ModifyNetworkInterface, DetachInterface,
     DeleteInterface, Invoke, Eni
<1>5. ASSUME NEW family, NEW here \in EniSteps, NEW next,
             AssignIPAddresses(family, here, next) \/ UnassignIPAddresses(family, here, next)
      PROVE  Own(p, e)'
  <2>1. \/ enis' = enis
        \/ \E w : enis' = [enis EXCEPT ![eni].ips = w]
    BY <1>5 DEF AssignIPAddresses, UnassignIPAddresses, Invoke
  <2>2. QED
    BY <1>1, <1>3, <2>1 DEF Eni
<1>6. ASSUME NEW d \in EniIds, DetachCompletes(d) PROVE Own(p, e)'
  BY <1>3, <1>6 DEF DetachCompletes, Eni
<1>7. QED
  BY <1>1, <1>2, <1>4, <1>5, <1>6
     DEF ManagerNext, managerVars, Begin, CallStep, FindExistingInterface, EnsureStep,
         NextAvailableDeviceIndex, ReleaseStep, WaitForDetachment, Return, ManagerCrash,
         Reset, Ec2Step, ForeignAttach, ForeignDetach, ec2Vars

(* What is published stays tagged, and what a successful ensure publishes  *)
(* is tagged.                                                              *)
LEMMA MapTaggedStep ==
  ASSUME AgentInv, HandInv, MapTagged, [Next]_vars
  PROVE  MapTagged'
<1> USE DEF AgentInv, TypeOK, ManagerTypeOK
<1>1. [ManagerNext]_managerVars
  BY AgentStepDrivesManager
<1>2. \A p, e : Own(p, e) => Own(p, e)'
  BY <1>1, OwnStays
<1>3. ASSUME NEW p \in Pods, NEW i \in Ifaces, state'[<<p, i>>] # None
      PROVE  \E e : e = state'[<<p, i>>].eni /\ Own(p, e)'
  <2>1. CASE state'[<<p, i>>] = state[<<p, i>>]
    BY <1>2, <1>3, <2>1 DEF MapTagged
  <2>2. CASE FinishJob
    <3>1. pc \in {"ok", "err"} /\ state' = Outcome /\ job \in Job /\ enis' = enis
      BY <2>2 DEF FinishJob, Return, Reset, ec2Vars
    <3>2. CASE pc = "ok" /\ KeyOf(job) = <<p, i>>
      <4>1. Ensuring /\ state'[<<p, i>>] = [eni |-> eni, ips |-> job.ips, profile |-> job.profile]
        BY <1>3, <3>1, <3>2 DEF Outcome, Keys, Ensuring
      <4>2. Own(p, eni)
        BY <3>2, <4>1 DEF ManagerInv, CallInv, Live, Own, KeyOf
      <4>3. QED
        BY <1>2, <4>1, <4>2
    <3>3. CASE ~(pc = "ok" /\ KeyOf(job) = <<p, i>>)
      <4>1. state'[<<p, i>>] = state[<<p, i>>]
        BY <3>1, <3>3 DEF Outcome, Keys
      <4>2. QED
        BY <2>1, <4>1
    <3>4. QED
      BY <3>2, <3>3
  <2>3. CASE state' = Nothing
    BY <1>3, <2>3 DEF Nothing, Keys
  <2>4. CASE state' = state
    BY <2>1, <2>4
  <2>5. QED
    BY <2>2, <2>3, <2>4
       DEF Next, vars, Handlers, Hooks, ReportInterface, ReleaseInterface, Enqueue, OnPodAdd,
           OnPodUpdate, OnPodDelete, Hook, Callback, QueueRelease, Worker, Dequeue, WorkerCall,
           agentVars, Crash, Environment
<1>4. ASSUME NEW p \in Pods, NEW i \in Ifaces, state'[<<p, i>>] # None
      PROVE  LET e == state'[<<p, i>>].eni
             IN  e \in EniIds /\ enis'[e].tag = p /\ enis'[e].status # "none"
  <2>1. PICK e : e = state'[<<p, i>>].eni /\ Own(p, e)'
    BY <1>3, <1>4
  <2>2. QED
    BY <2>1 DEF Own
<1>5. QED
  BY <1>4 DEF MapTagged, Own
------------------------------------------------------------------------------
(* A step of a process leaves a protected pod undisturbed: only the pod's  *)
(* own could release, and none of cmdAdd does.                             *)
LEMMA PluginStays ==
  ASSUME NodeInv, MapTagged, NEW p \in Pods, Protected(p), Undisturbed(p), Protected(p)',
         NEW q \in Pods, Plugin(q)
  PROVE  Undisturbed(p)'
<1> USE DEF NodeInv, Undisturbed, NoRelease
<1>1. UNCHANGED <<pc, job, eni, state, enis>>
  BY ProcessesLeaveInformer
<1>2. CASE q # p
  <2>1. OnlyReports(p)'
    <3>1. CASE UNCHANGED vars
      BY <3>1 DEF OnlyReports, Busy, vars
    <3>2. ASSUME NEW a, ReportInterface(q, Net, Profile, a) PROVE OnlyReports(p)'
      <4>1. EnsureJob(q, Net, Profile, a).kind = "ensure"
        BY DEF EnsureJob
      <4>2. QED
        BY <1>1, <3>2, <4>1, EnqueueStays DEF ReportInterface
    <3>3. CASE ReleaseInterface(q, Net, Profile)
      <4>1. ReleaseJob(q, Net, Profile).pod = q
        BY DEF ReleaseJob
      <4>2. QED
        BY <1>1, <1>2, <3>3, <4>1, EnqueueStays DEF ReleaseInterface
    <3>4. QED
      BY <3>1, <3>2, <3>3, PluginIsClient
  <2>2. MasterInUse(p)'
    BY <1>1, <1>2, OwnSteps DEF MasterInUse, InUse, Own
  <2>3. QED
    BY <1>1, <2>1, <2>2 DEF NoDetachment
<1>3. CASE q = p
  <2>1. at[p] # "idle" /\ box' = box
    BY <1>3, ProcessAwake
  <2>2. at'[p] \in AddSteps \cup {"up"}
    BY <2>1 DEF Protected, DelegateInv
  <2>3. OnlyReports(p)'
    <3>1. CASE UNCHANGED vars
      BY <3>1 DEF OnlyReports, Busy, vars
    <3>2. ASSUME NEW a, ReportInterface(p, Net, Profile, a) PROVE OnlyReports(p)'
      <4>1. EnsureJob(p, Net, Profile, a).kind = "ensure"
        BY DEF EnsureJob
      <4>2. QED
        BY <1>1, <3>2, <4>1, EnqueueStays DEF ReportInterface
    <3>3. QED
      BY <1>3, <2>2, <3>1, <3>2, TowardsUp
  <2>4. at'[p] = "host" => Own(p, master'[p])
    <3>1. SUFFICES ASSUME at'[p] = "host" PROVE Own(p, master'[p])
      OBVIOUS
    <3>2. state[<<p, Net>>] # None /\ master' = [master EXCEPT ![p] = state[<<p, Net>>].eni]
      BY <1>3, <2>2, <3>1, TowardsUp
    <3>3. Own(p, state[<<p, Net>>].eni)
      BY <3>2, DelegateAssumption DEF MapTagged
    <3>4. master'[p] = state[<<p, Net>>].eni
      BY <3>2 DEF DelegateInv, DelegateTypeOK
    <3>5. QED
      BY <3>3, <3>4
  <2>5. at'[p] = "plugins" => InUse(p, master'[p])
    <3>1. SUFFICES ASSUME at'[p] = "plugins" PROVE InUse(p, master'[p])
      OBVIOUS
    <3>2. at[p] = "host" /\ LinkThere(p) /\ master' = master
      BY <1>3, <2>2, <3>1, TowardsUp
    <3>3. Own(p, master[p]) /\ Attached(master[p])
      BY <3>2 DEF MasterInUse, LinkThere
    <3>4. QED
      BY <3>2, <3>3 DEF Own, Attached, NoDetachment, InUse
  <2>6. at'[p] \in {"report2", "cache", "up"} => InUse(p, master'[p])
    BY <1>3, <2>2, TowardsUp DEF MasterInUse
  <2>7. QED
    BY <1>1, <2>3, <2>4, <2>5, <2>6 DEF NoDetachment, MasterInUse, InUse, Own
<1>4. QED
  BY <1>2, <1>3

(* Every step of the node leaves a protected pod undisturbed.              *)
LEMMA UndisturbedStep ==
  ASSUME NodeInv, HandInv, MapTagged, [NodeNext]_nodeVars,
         NEW p \in Pods, Protected(p), Undisturbed(p), Protected(p)'
  PROVE  Undisturbed(p)'
<1> USE DEF NodeInv, Undisturbed, NoRelease
<1>1. ASSUME UNCHANGED <<pc, job, queue, enis>>,
             MasterInUse(p)' \/ (at'[p] = at[p] /\ master'[p] = master[p])
      PROVE  Undisturbed(p)'
  BY <1>1 DEF OnlyReports, NoDetachment, MasterInUse, InUse, Own, Busy
<1>2. ASSUME NEW q \in Pods, StartSandbox(q) \/ StopSandbox(q) PROVE Undisturbed(p)'
  <2>1. UNCHANGED <<pc, job, queue, enis>>
    BY <1>2 DEF StartSandbox, StopSandbox, StartAdd, StartDel, agentQuiet, vars
  <2>2. CASE q # p
    BY <1>1, <1>2, <2>1, <2>2, OwnSteps DEF StartSandbox, StopSandbox
  <2>3. CASE q = p
    <3>1. at'[p] \in {"report", "read"}
      BY <1>2, <2>3 DEF StartSandbox, StopSandbox, StartAdd, StartDel, Goto, DelegateInv,
         DelegateTypeOK
    <3>2. QED
      BY <1>1, <2>1, <3>1 DEF MasterInUse
  <2>4. QED
    BY <2>2, <2>3
<1>3. ASSUME \A e : InUse(p, e) => InUse(p, e)', [Next]_vars, UNCHANGED cniVars
      PROVE  MasterInUse(p)'
  <2>1. [ManagerNext]_managerVars
    BY <1>3, AgentStepDrivesManager DEF AgentInv
  <2>2. \A e : Own(p, e) => Own(p, e)'
    BY <2>1, OwnStays DEF AgentInv
  <2>3. QED
    BY <1>3, <2>2 DEF MasterInUse, cniVars
<1>4. [Next]_vars
  BY NodeStepIsAgentStep
<1>5. CASE Worker /\ UNCHANGED cniVars
  BY <1>3, <1>4, <1>5, WorkerStays
<1>6. ASSUME NEW j \in pending, QueueRelease(j), UNCHANGED cniVars PROVE Undisturbed(p)'
  <2>1. j.pod # p
    BY DEF WatchInv, Protected
  <2>2. UNCHANGED <<pc, job, enis>>
    BY <1>6 DEF QueueRelease, managerVars
  <2>3. OnlyReports(p)'
    <3>1. CASE Enqueue(j)
      BY <2>1, <2>2, <3>1, EnqueueStays
    <3>2. CASE queue' = queue
      BY <2>2, <3>2 DEF OnlyReports, Busy
    <3>3. QED
      BY <1>6, <3>1, <3>2 DEF QueueRelease
  <2>4. QED
    BY <1>3, <1>4, <1>6, <2>2, <2>3 DEF NoDetachment, InUse
<1>7. CASE AgentCrash
  <2>1. queue' = <<>> /\ pc' = "idle" /\ enis' = enis /\ UNCHANGED cniVars
    BY <1>7 DEF AgentCrash, Crash, ManagerCrash, Reset, ec2Vars
  <2>2. QED
    BY <1>3, <1>4, <2>1 DEF OnlyReports, NoDetachment, InUse, Busy
<1>8. CASE Environment /\ UNCHANGED cniVars
  <2>1. Untouched(p)
    BY <1>8, EnvironmentUntouched DEF Untouched
  <2>2. UNCHANGED <<pc, job, queue>>
    BY <1>8, EnvironmentUntouched
  <2>3. NoDetachment(p)' /\ \A e : InUse(p, e) => InUse(p, e)'
    BY <2>1, UntouchedStays
  <2>4. QED
    BY <1>3, <1>4, <1>8, <2>2, <2>3 DEF OnlyReports, Busy
<1>9. CASE UNCHANGED <<pc, job, queue, enis, cniVars>>
  BY <1>1, <1>9 DEF cniVars
<1>10. QED
  BY <1>2, <1>5, <1>6, <1>7, <1>8, <1>9, PluginStays
     DEF NodeNext, PodLife, vars, InformerEvent, OnPodAdd, OnPodUpdate, OnPodDelete, Hook,
         managerVars, PluginStep, AgentStep, Callback, nodeVars, cniVars

(* The first sandbox of a pod is begun with no release left.               *)
LEMMA FirstIsClean ==
  ASSUME NodeInv, CleanInv, [NodeNext]_nodeVars, NEW p \in Pods,
         box'[p] = 1, at'[p] \in AddSteps \cup {"up"}
  PROVE  p \in clean'
<1> USE DEF NodeInv, DelegateInv, DelegateTypeOK, CleanInv, AddSteps
<1>1. ASSUME NEW q \in Pods, StartSandbox(q) PROVE p \in clean'
  <2>1. CASE q # p
    BY <1>1, <2>1, OwnSteps DEF StartSandbox
  <2>2. CASE q = p
    <3>1. box[p] = 0 /\ at[p] = "idle" /\ api[p] = "running"
      BY <1>1, <2>2 DEF StartSandbox, StartAdd, Goto
    <3>2. NoRelease(p)
      BY <3>1 DEF Protected, Undisturbed
    <3>3. QED
      BY <1>1, <2>2, <3>2 DEF StartSandbox
  <2>3. QED
    BY <2>1, <2>2
<1>2. ASSUME NEW q \in Pods, StopSandbox(q) PROVE p \in clean'
  <2>1. CASE q # p
    BY <1>2, <2>1, OwnSteps DEF StopSandbox
  <2>2. CASE q = p
    BY <1>2, <2>2 DEF StopSandbox, StartDel, Goto
  <2>3. QED
    BY <2>1, <2>2
<1>3. ASSUME NEW q \in Pods, Plugin(q), clean' = clean PROVE p \in clean'
  <2>1. CASE q # p
    BY <1>3, <2>1, OwnSteps
  <2>2. CASE q = p
    BY <1>3, <2>2, TowardsUp
  <2>3. QED
    BY <2>1, <2>2
<1>4. CASE UNCHANGED <<at, box, clean>>
  BY <1>4
<1>5. QED
  BY <1>1, <1>2, <1>3, <1>4
     DEF NodeNext, PodLife, PluginStep, InformerEvent, AgentStep, AgentCrash, cniVars, nodeVars

(* Every step keeps the invariant of protected pods.                       *)
LEMMA CleanStep ==
  ASSUME NodeInv, HandInv, CleanInv, [NodeNext]_nodeVars
  PROVE  HandInv' /\ CleanInv'
<1>1. [Next]_vars
  BY NodeStepIsAgentStep DEF NodeInv
<1>2. HandInv' /\ MapTagged'
  BY <1>1, AgentStepDrivesManager, HandStep, MapTaggedStep DEF NodeInv, AgentInv, CleanInv
<1>3. ASSUME NEW p \in Pods, Protected(p)' PROVE Undisturbed(p)'
  <2>1. CASE Protected(p)
    BY <1>3, <2>1, UndisturbedStep DEF CleanInv
  <2>2. CASE StartSandbox(p) /\ NoRelease(p)
    <3>1. UNCHANGED vars /\ at'[p] = "report"
      BY <2>2 DEF StartSandbox, StartAdd, Goto, agentQuiet, NodeInv, DelegateInv, DelegateTypeOK
    <3>2. QED
      BY <2>2, <3>1
         DEF Undisturbed, NoRelease, OnlyReports, NoDetachment, MasterInUse, Busy, vars
  <2>3. QED
    BY <1>3, <2>1, <2>2, ProtectedBefore
<1>4. QED
  BY <1>2, <1>3, FirstIsClean DEF CleanInv

(* At the start nothing is queued, attached or published.                  *)
LEMMA CleanInit == NodeInit => HandInv /\ CleanInv
BY DEF NodeInit, Init, ManagerInit, Ec2Init, DelegateInit, NoInterface, Nothing, Keys, HandInv,
   EniSteps, CleanInv, MapTagged, Undisturbed, NoRelease, OnlyReports, NoDetachment,
   MasterInUse, Busy, AddSteps

(* The inductive invariant of protected pods holds.                        *)
LEMMA CleanInvariant == NodeSpec => [](NodeInv /\ HandInv /\ CleanInv)
BY CleanInit, CleanStep, NodeInvariant, PTL DEF NodeSpec

(* What a pod that is up in such a sandbox has under its interface is in   *)
(* use.                                                                    *)
LEMMA UpIsInUse ==
  ASSUME CleanInv, NEW p \in Pods, Up(p), p \in clean
  PROVE  InUse(p, master[p])
BY DEF CleanInv, Up, Protected, Undisturbed, MasterInUse

(* A pod in a sandbox that was begun when no release of the pod was left   *)
(* keeps its ENI while it runs: through failing calls, crashes of the      *)
(* agent, deadlines, and whatever the other pods do.                       *)
THEOREM CleanSandboxIsSafe == NodeSpec => []CleanBoxKeepsItsEni
<1>1. CleanInv => CleanBoxKeepsItsEni
  BY UpIsInUse DEF CleanBoxKeepsItsEni, InUse
<1>2. QED
  BY <1>1, CleanInvariant, PTL

(* The first sandbox of a pod is such a sandbox.                           *)
THEOREM FirstSandboxIsSafe == NodeSpec => []FirstBoxKeepsItsEni
<1>1. CleanInv => FirstBoxKeepsItsEni
  BY UpIsInUse DEF CleanInv, FirstBoxKeepsItsEni, InUse, Up
<1>2. QED
  BY <1>1, CleanInvariant, PTL
------------------------------------------------------------------------------
(* Links change for one pod at a time: it comes up, or stops running.      *)
LEMMA LinkStep ==
  ASSUME NodeInv, [NodeNext]_nodeVars
  PROVE  \/ Linked' = Linked
         \/ /\ enis' = enis
            /\ \E p \in Pods :
                 /\ \A q \in Pods : q # p => Linked'[q] = Linked[q]
                 /\ Linked[p] = None \/ Linked'[p] = None
<1> USE DEF NodeInv, DelegateInv, DelegateTypeOK, Linked, Up
<1>1. ASSUME NEW p \in Pods, PodLife(p)
      PROVE  /\ enis' = enis
             /\ \A q \in Pods : q # p => Linked'[q] = Linked[q]
             /\ Linked[p] = None \/ Linked'[p] = None
  BY <1>1 DEF PodLife, Schedule, Terminate, Remove, vars, cniVars, ApiTypeOK
<1>2. ASSUME NEW p \in Pods, StartSandbox(p) \/ StopSandbox(p)
      PROVE  /\ enis' = enis
             /\ \A q \in Pods : q # p => Linked'[q] = Linked[q]
             /\ Linked[p] = None \/ Linked'[p] = None
  <2>1. enis' = enis /\ api' = api /\ at'[p] # "up"
    BY <1>2 DEF StartSandbox, StopSandbox, StartAdd, StartDel, Goto, agentQuiet, vars
  <2>2. \A q \in Pods : q # p => at'[q] = at[q] /\ master'[q] = master[q]
    BY <1>2, OwnSteps DEF StartSandbox, StopSandbox
  <2>3. ASSUME NEW q \in Pods, q # p PROVE Linked'[q] = Linked[q]
    <3>1. q \in clean' <=> q \in clean
      BY <1>2, <2>3 DEF StartSandbox, StopSandbox
    <3>2. QED
      BY <2>1, <2>2, <2>3, <3>1
  <2>4. Linked'[p] = None
    BY <2>1
  <2>5. QED
    BY <2>1, <2>3, <2>4
<1>3. ASSUME NEW p \in Pods, Plugin(p), UNCHANGED <<api, clean>>
      PROVE  /\ enis' = enis
             /\ \A q \in Pods : q # p => Linked'[q] = Linked[q]
             /\ Linked[p] = None \/ Linked'[p] = None
  <2>1. enis' = enis
    BY <1>3, ProcessesLeaveInformer
  <2>2. \A q \in Pods : q # p => at'[q] = at[q] /\ master'[q] = master[q]
    BY <1>3, OwnSteps
  <2>3. at[p] # "up" \/ at'[p] # "up"
    BY <1>3, TowardsUp DEF AddSteps
  <2>4. QED
    BY <1>3, <2>1, <2>2, <2>3
<1>4. CASE UNCHANGED <<at, api, clean, master>>
  BY <1>4
<1>5. QED
  BY <1>1, <1>2, <1>3, <1>4
     DEF NodeNext, PluginStep, InformerEvent, AgentStep, AgentCrash, cniVars, nodeVars

LinksAreHeld == \A p \in Pods : Linked[p] # None => Linked[p] \in Held[p]

(* A linked pod is linked to what is in its slot.                          *)
LEMMA CleanIsHeld == CleanInv => LinksAreHeld
<1> SUFFICES ASSUME CleanInv, NEW p \in Pods, Linked[p] # None PROVE Linked[p] \in Held[p]
  BY DEF LinksAreHeld
<1>1. Up(p) /\ p \in clean /\ Linked[p] = master[p]
  BY DEF Linked
<1>2. QED
  BY <1>1, UpIsInUse DEF InUse, Held, Existing, Attached

(* What the slots say in EniManager is what PodLinks knows of them.        *)
LEMMA SlotsAreSlots ==
  /\ Slots!Init <=> Links!Slots!Init
  /\ \A p \in Pods : Slots!Empty(p) <=> Links!Slots!Empty(p)
  /\ \A p \in Pods, e \in EniIds : Slots!Fill(p, e) <=> Links!Slots!Fill(p, e)
BY DEF Slots!Init, Slots!Empty, Slots!Fill, Links!Slots!Init, Links!Slots!Empty, Links!Slots!Fill

(* The node implements PodLinks: no step empties the slot of a linked pod, *)
(* and a pod is only ever linked to what is in its slot.                   *)
THEOREM NodeLinksPods == NodeSpec => LinksPods
<1>1. NodeInit => Links!Init
  <2> SUFFICES ASSUME NodeInit PROVE Links!Init
    OBVIOUS
  <2>1. Slots!Init
    BY DEF NodeInit, Init, ManagerInit, Ec2Init, Slots!Init, Held, Existing, Attached, NoInterface
  <2>2. Linked = [p \in Pods |-> None]
    BY DEF NodeInit, DelegateInit, Linked, Up
  <2>3. QED
    BY <2>1, <2>2, SlotsAreSlots DEF Links!Init
<1>2. ASSUME NodeInv, LinksAreHeld', [NodeNext]_nodeVars
      PROVE  [Links!Next]_<<Held, Linked>>
  <2>1. ASSUME Linked' = Linked PROVE [Links!Next]_<<Held, Linked>>
    <3>1. [Slots!Next]_Held
      BY <1>2, NodeStepIsAgentStep, AgentStepDrivesManager, SlotsStep DEF NodeInv, AgentInv
    <3>2. ASSUME NEW p \in Pods, Slots!Empty(p) PROVE Linked[p] = None
      <4>1. Held'[p] = {}
        BY <3>2 DEF Slots!Empty, Held
      <4>2. QED
        BY <1>2, <2>1, <4>1 DEF LinksAreHeld
    <3>3. QED
      BY <2>1, <3>1, <3>2, SlotsAreSlots DEF Slots!Next, Links!Next, Links!Empty, Links!Fill
  <2>2. ASSUME enis' = enis, NEW p \in Pods, \A q \in Pods : q # p => Linked'[q] = Linked[q],
               Linked[p] = None \/ Linked'[p] = None
        PROVE  [Links!Next]_<<Held, Linked>>
    <3>1. Held' = Held
      BY <2>2 DEF Held, Existing, Attached
    <3>2. Linked' = [Linked EXCEPT ![p] = Linked'[p]]
      <4>1. Linked = [q \in Pods |-> Linked[q]] /\ Linked' = [q \in Pods |-> Linked'[q]]
        BY DEF Linked
      <4>2. QED
        BY <2>2, <4>1
    <3>3. Linked'[p] # None => Linked'[p] \in Held[p]
      BY <1>2, <3>1 DEF LinksAreHeld
    <3>4. CASE Linked'[p] # None
      <4>1. Links!Link(p)
        BY <2>2, <3>1, <3>2, <3>3, <3>4 DEF Links!Link
      <4>2. QED
        BY <4>1 DEF Links!Next
    <3>5. CASE Linked[p] # None
      <4>1. Links!Unlink(p)
        BY <2>2, <3>1, <3>2, <3>5 DEF Links!Unlink
      <4>2. QED
        BY <4>1 DEF Links!Next
    <3>6. CASE Linked'[p] = Linked[p]
      <4>1. Linked' = Linked
        BY <3>2, <3>6 DEF Linked
      <4>2. QED
        BY <3>1, <4>1
    <3>7. QED
      BY <3>4, <3>5, <3>6
  <2>3. QED
    BY <1>2, <2>1, <2>2, LinkStep
<1>3. QED
  BY <1>1, <1>2, CleanIsHeld, CleanInvariant, PTL DEF NodeSpec, LinksPods, Links!Spec
==============================================================================
