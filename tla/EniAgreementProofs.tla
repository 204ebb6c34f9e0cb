-------------------------- MODULE EniAgreementProofs ---------------------------
(***************************************************************************)
(* Proof that the map of the agent and EC2 agree (StateAgreesWithEc2), for *)
(* pods with one interface and otherwise for any constants.                *)
(***************************************************************************)
EXTENDS EniAgentProofs

(* The assumption on pods under which map and EC2 can agree: two           *)
(* interfaces of a pod are published on one ENI.                           *)
OneInterface == \A i, j \in Ifaces : i = j

(* What EC2 has for a pod. *)
Owned(p) == {e \in EniIds : Live(e) /\ enis[e].tag = p}

(* What StateAgreesWithEc2 says of one pod. *)
Agree(p) ==
  /\ Owned(p) = {s.eni : s \in Published(p)}
  /\ \A s \in Published(p) :
       /\ enis[s.eni].status = "in-use"
       /\ enis[s.eni].dot
       /\ s.ips \subseteq Addresses(s.eni)

Delivered == pc = "ok" /\ Ensuring

(* How far the call in progress has come for its pod, as long as nothing   *)
(* went wrong: map and EC2 agree until something was found or not; then    *)
(* the pod has no interface but the one at hand.                           *)
Progress(p) ==
  /\ pc = "find" => Agree(p)
  /\ pc \in {"index", "create"} \/ (pc = "ok" /\ Releasing) => Owned(p) = {}
  /\ pc \in EniSteps \/ Delivered => Owned(p) = {eni}
  /\ pc \in {"modify", "assign4", "assign6"} \/ Delivered => enis[eni].status = "in-use"
  /\ pc \in {"assign4", "assign6"} \/ Delivered => enis[eni].dot

(* The interface at hand is that of the job's pod, in a release too.       *)
HandInv == pc \in EniSteps => enis[eni].tag = job.pod

AgreeInv ==
  /\ HandInv
  /\ \A p \in Pods \ failed : IF Busy(p) THEN Progress(p) ELSE Agree(p)
------------------------------------------------------------------------------
(* A step of the manager keeps the interface at hand that of its pod: it   *)
(* was found or created under the pod's tag, and no step changes a tag.    *)
LEMMA HandStep ==
  ASSUME ManagerInv, HandInv, [ManagerNext]_managerVars
  PROVE  HandInv'
<1> USE DEF ManagerInv, ManagerTypeOK, Ec2TypeOK, Steps, EniSteps, HandInv
<1>1. ASSUME NEW j \in Job, Begin(j) PROVE HandInv'
  BY <1>1 DEF Begin
<1>2. CASE FindExistingInterface
  BY <1>2 DEF FindExistingInterface, Existing, ec2Vars
<1>3. CASE NextAvailableDeviceIndex
  BY <1>3 DEF NextAvailableDeviceIndex
<1>4. CASE CreateNetworkInterface
  <2>1. ASSUME NEW e \in EniIds, NEW a, enis' = Created(e, a), eni' = e, UNCHANGED job
        PROVE  HandInv'
    BY <2>1 DEF Created
  <2>2. CASE pc' = "err"
    BY <2>2
  <2>3. QED
    BY <1>4, <2>1, <2>2 DEF CreateNetworkInterface
<1>5. CASE AttachNetworkInterface
  BY <1>5 DEF AttachNetworkInterface, Invoke, Eni
<1>6. CASE ModifyNetworkInterface
  BY <1>6 DEF ModifyNetworkInterface, Invoke, Eni
<1>7. ASSUME NEW family, NEW here \in EniSteps, NEW next, AssignIPAddresses(family, here, next)
      PROVE  HandInv'
  BY <1>7 DEF AssignIPAddresses, Invoke, Eni
<1>8. ASSUME NEW family, NEW here \in EniSteps, NEW next, UnassignIPAddresses(family, here, next)
      PROVE  HandInv'
  BY <1>8 DEF UnassignIPAddresses, Invoke, Eni
<1>9. CASE DetachInterface
  BY <1>9 DEF DetachInterface, Invoke, Eni
<1>10. CASE WaitForDetachment
  BY <1>10 DEF WaitForDetachment, ec2Vars
<1>11. CASE DeleteInterface
  BY <1>11 DEF DeleteInterface, Invoke, Eni
<1>12. CASE Reset
  BY <1>12 DEF Reset
<1>13. CASE Ec2Step /\ UNCHANGED callVars
  <2>1. ASSUME NEW e \in EniIds, DetachCompletes(e)
        PROVE  \A x \in EniIds : enis'[x].tag = enis[x].tag
    BY <2>1 DEF DetachCompletes, Eni
  <2>2. QED
    BY <1>13, <2>1 DEF Ec2Step, ForeignAttach, ForeignDetach, callVars
<1>14. CASE UNCHANGED managerVars
  BY <1>14 DEF managerVars
<1>15. QED
  BY <1>1, <1>2, <1>3, <1>4, <1>5, <1>6, <1>7, <1>8, <1>9, <1>10, <1>11, <1>12, <1>13, <1>14
     DEF ManagerNext, CallStep, EnsureStep, ReleaseStep, Return, ManagerCrash

(* Nothing is done to what EC2 has for a pod but a completed detachment.   *)
Untouched(p) ==
  \A e \in EniIds :
    (Live(e) /\ enis[e].tag = p) \/ (Live(e) /\ enis[e].tag = p)'
      => enis'[e] = enis[e] \/ DetachCompletes(e)

(* A call leaves alone what EC2 has for other pods, and EC2 itself only    *)
(* completes detachments.                                                  *)
LEMMA OthersUntouched ==
  ASSUME ManagerInv, HandInv, [ManagerNext]_managerVars, NEW p \in Pods, ~Busy(p)
  PROVE  Untouched(p)
<1> SUFFICES ASSUME NEW e \in EniIds,
                    (Live(e) /\ enis[e].tag = p) \/ (Live(e) /\ enis[e].tag = p)'
             PROVE  enis'[e] = enis[e] \/ DetachCompletes(e)
  BY DEF Untouched
<1> USE DEF ManagerInv, ManagerTypeOK, Ec2TypeOK, EniSteps, HandInv
<1>1. ASSUME enis[eni].tag = job.pod, eni \in EniIds, job.pod # p,
             \A x \in EniIds : x # eni => enis'[x] = enis[x],
             enis'[eni].tag = enis[eni].tag
      PROVE  enis'[e] = enis[e]
  BY <1>1
<1>2. CASE enis' = enis
  BY <1>2
<1>3. CASE CreateNetworkInterface
  <2>1. ASSUME NEW d \in EniIds, NEW a, enis[d].status = "none", enis' = Created(d, a)
        PROVE  enis'[e] = enis[e]
    <3>1. job.pod # p
      BY <1>3 DEF CreateNetworkInterface, Busy
    <3>2. QED
      BY <2>1, <3>1 DEF Created, Live
  <2>2. QED
    BY <1>2, <1>3, <2>1 DEF CreateNetworkInterface
<1>4. CASE AttachNetworkInterface
  BY <1>1, <1>2, <1>4 DEF AttachNetworkInterface, Invoke, Eni, Busy
<1>5. CASE ModifyNetworkInterface
  BY <1>1, <1>2, <1>5 DEF ModifyNetworkInterface, Invoke, Eni, Busy
<1>6. ASSUME NEW family, NEW here \in EniSteps, NEW next, AssignIPAddresses(family, here, next)
      PROVE  enis'[e] = enis[e]
  BY <1>1, <1>2, <1>6 DEF AssignIPAddresses, Invoke, Eni, Busy
<1>7. ASSUME NEW family, NEW here \in EniSteps, NEW next, UnassignIPAddresses(family, here, next)
      PROVE  enis'[e] = enis[e]
  BY <1>1, <1>2, <1>7 DEF UnassignIPAddresses, Invoke, Eni, Busy
<1>8. CASE DetachInterface
  BY <1>1, <1>2, <1>8 DEF DetachInterface, Invoke, Eni, Busy
<1>9. CASE DeleteInterface
  BY <1>1, <1>2, <1>9 DEF DeleteInterface, Invoke, Eni, Busy
<1>10. ASSUME NEW d \in EniIds, DetachCompletes(d)
       PROVE  enis'[e] = enis[e] \/ DetachCompletes(e)
  BY <1>10 DEF DetachCompletes
<1>11. QED
  BY <1>2, <1>3, <1>4, <1>5, <1>6, <1>7, <1>8, <1>9, <1>10
     DEF ManagerNext, managerVars, Begin, CallStep, FindExistingInterface, EnsureStep,
         NextAvailableDeviceIndex, ReleaseStep, WaitForDetachment, Return, ManagerCrash, Reset,
         Ec2Step, ForeignAttach, ForeignDetach, ec2Vars

(* Where map and EC2 agree, no detachment is under way: what is published  *)
(* is in use.                                                              *)
LEMMA AgreeKept ==
  ASSUME AgentInv, NEW p \in Pods, Agree(p), Untouched(p),
         \A i \in Ifaces : state'[<<p, i>>] = state[<<p, i>>]
  PROVE  Agree(p)'
<1> USE DEF Agree, Owned
<1>1. Published(p)' = Published(p)
  BY DEF Published
<1>2. ASSUME NEW e \in Owned(p) PROVE enis[e].status = "in-use" /\ enis'[e] = enis[e]
  <2>1. enis[e].status = "in-use"
    <3>1. PICK s \in Published(p) : e = s.eni
      OBVIOUS
    <3>2. QED
      BY <3>1
  <2>2. QED
    BY <2>1 DEF Untouched, DetachCompletes
<1>3. ASSUME NEW e \in Owned(p)' PROVE e \in Owned(p)
  <2>1. enis'[e] = enis[e] \/ DetachCompletes(e)
    BY <1>3 DEF Untouched
  <2>2. CASE DetachCompletes(e)
    BY <1>3, <2>2 DEF DetachCompletes, Live, AgentInv, TypeOK, ManagerTypeOK, Ec2TypeOK, Eni
  <2>3. CASE enis'[e] = enis[e]
    BY <1>3, <2>3 DEF Live
  <2>4. QED
    BY <2>1, <2>2, <2>3
<1>4. Owned(p)' = Owned(p)
  BY <1>2, <1>3 DEF Live
<1>5. QED
  BY <1>1, <1>2, <1>4 DEF Addresses
------------------------------------------------------------------------------
(* The steps of an ensure, for the pod of the call: the interface it       *)
(* creates is the only one, and each later step adds what its name says.   *)
LEMMA EnsureProgress ==
  ASSUME AgentInv, HandInv, EnsureStep, Progress(job.pod)
  PROVE  Progress(job.pod)'
<1> USE DEF AgentInv, TypeOK, ManagerTypeOK, Ec2TypeOK, Steps, EniSteps, Delivered, Ensuring,
            Releasing, Owned, HandInv
<1>0. job' = job /\ Ensuring
  BY DEF EnsureStep, NextAvailableDeviceIndex, CreateNetworkInterface, AttachNetworkInterface,
         ModifyNetworkInterface, AssignIPAddresses, ManagerInv, CallInv
<1>1. CASE pc' = "err"
  BY <1>1 DEF Progress
<1>2. CASE NextAvailableDeviceIndex
  BY <1>0, <1>1, <1>2 DEF NextAvailableDeviceIndex, ec2Vars, Progress, Live
<1>3. CASE CreateNetworkInterface
  <2>1. ASSUME NEW e \in EniIds, NEW a \in V4 \cup {None}, enis' = Created(e, a), eni' = e,
               pc' = "attach"
        PROVE  Progress(job.pod)'
    <3>1. Owned(job.pod) = {}
      BY <1>3 DEF CreateNetworkInterface, Progress
    <3>2. Live(e)' /\ enis'[e].tag = job.pod
      BY <2>1 DEF Created, Live
    <3>3. \A x \in EniIds \ {e} : enis'[x] = enis[x]
      BY <2>1 DEF Created
    <3>4. Owned(job.pod)' = {e}
      BY <1>0, <3>1, <3>2, <3>3 DEF Live
    <3>5. QED
      BY <2>1, <3>4 DEF Progress
  <2>2. QED
    BY <1>1, <1>3, <2>1 DEF CreateNetworkInterface
<1>4. ASSUME pc \in EniSteps, pc' \in {"modify", "assign4", "assign6", "ok"}, eni' = eni,
             \A x \in EniIds : /\ enis'[x].tag = enis[x].tag
                               /\ Live(x)' <=> Live(x)
      PROVE  Owned(job.pod)' = {eni'}
  BY <1>0, <1>4 DEF Progress
<1>5. CASE AttachNetworkInterface
  <2>1. CASE enis[eni].status = "available" /\ pc' = "modify"
             /\ enis' = [enis EXCEPT ![eni].status = "in-use", ![eni].dev = dev]
    <3>1. eni \in EniIds /\ eni' = eni /\ pc = "attach"
      BY <1>5 DEF AttachNetworkInterface
    <3>2. \A x \in EniIds : enis'[x].tag = enis[x].tag /\ (Live(x)' <=> Live(x))
      BY <2>1, <3>1 DEF Live, Eni
    <3>3. enis'[eni'].status = "in-use"
      BY <2>1, <3>1 DEF Eni
    <3>4. Owned(job.pod)' = {eni'}
      BY <1>4, <2>1, <3>1, <3>2
    <3>5. QED
      BY <1>0, <2>1, <3>3, <3>4 DEF Progress
  <2>2. QED
    BY <1>1, <1>5, <2>1 DEF AttachNetworkInterface, Invoke
<1>6. CASE ModifyNetworkInterface
  <2>1. CASE pc' = "assign4" /\ enis' = [enis EXCEPT ![eni].dot = TRUE]
    <3>1. eni \in EniIds /\ eni' = eni /\ pc = "modify"
      BY <1>6 DEF ModifyNetworkInterface
    <3>2. \A x \in EniIds : enis'[x].tag = enis[x].tag /\ (Live(x)' <=> Live(x))
      BY <2>1, <3>1 DEF Live, Eni
    <3>3. enis'[eni'].status = "in-use" /\ enis'[eni'].dot
      BY <2>1, <3>1 DEF Eni, Progress
    <3>4. Owned(job.pod)' = {eni'}
      BY <1>4, <2>1, <3>1, <3>2
    <3>5. QED
      BY <1>0, <2>1, <3>3, <3>4 DEF Progress
  <2>2. QED
    BY <1>1, <1>6, <2>1 DEF ModifyNetworkInterface, Invoke
<1>7. ASSUME NEW family, NEW here \in {"assign4", "assign6"}, NEW next \in {"assign6", "ok"},
             AssignIPAddresses(family, here, next)
      PROVE  Progress(job.pod)'
  <2>1. CASE pc' = next /\ \/ enis' = enis
                           \/ \E w : enis' = [enis EXCEPT ![eni].ips = @ \cup w]
    <3>1. eni \in EniIds /\ eni' = eni /\ pc = here
      BY <1>7 DEF AssignIPAddresses
    <3>2. \A x \in EniIds : /\ enis'[x].tag = enis[x].tag
                            /\ enis'[x].status = enis[x].status
                            /\ enis'[x].dot = enis[x].dot
      BY <2>1, <3>1 DEF Eni
    <3>3. enis'[eni'].status = "in-use" /\ enis'[eni'].dot
      BY <3>1, <3>2 DEF Progress
    <3>4. Owned(job.pod)' = {eni'}
      BY <1>4, <2>1, <3>1, <3>2 DEF Live
    <3>5. QED
      BY <1>0, <2>1, <3>3, <3>4 DEF Progress
  <2>2. QED
    BY <1>1, <1>7, <2>1 DEF AssignIPAddresses, Invoke
<1>8. QED
  BY <1>2, <1>3, <1>5, <1>6, <1>7 DEF EnsureStep

(* The steps of a release, for the pod of the call: the interface is the   *)
(* only one until it is deleted.                                           *)
LEMMA ReleaseProgress ==
  ASSUME AgentInv, HandInv, ReleaseStep, Progress(job.pod)
  PROVE  Progress(job.pod)'
<1> USE DEF AgentInv, TypeOK, ManagerTypeOK, Ec2TypeOK, Steps, EniSteps, Delivered, Ensuring,
            Releasing, Owned, HandInv
<1>0. job' = job /\ Releasing /\ job \in Job /\ eni' = eni /\ eni \in EniIds
  BY DEF ReleaseStep, UnassignIPAddresses, DetachInterface, WaitForDetachment, DeleteInterface,
         ManagerInv, CallInv
<1>1. Owned(job.pod) = {eni}
  BY DEF ReleaseStep, UnassignIPAddresses, DetachInterface, WaitForDetachment, DeleteInterface,
         Progress
<1>2. CASE pc' = "err"
  BY <1>2 DEF Progress
<1>3. ASSUME pc' \in {"unassign6", "detach", "wait", "delete"},
             \A x \in EniIds : enis'[x].tag = enis[x].tag /\ (Live(x)' <=> Live(x))
      PROVE  Progress(job.pod)'
  <2>1. Owned(job.pod)' = {eni'}
    BY <1>0, <1>1, <1>3
  <2>2. QED
    BY <1>3, <2>1 DEF Progress
<1>4. ASSUME NEW family, NEW here \in EniSteps, NEW next \in {"unassign6", "detach"},
             UnassignIPAddresses(family, here, next)
      PROVE  Progress(job.pod)'
  <2>1. CASE pc' = next /\ \/ enis' = enis
                           \/ \E w : enis' = [enis EXCEPT ![eni].ips = @ \ w]
    <3>1. \A x \in EniIds : enis'[x].tag = enis[x].tag /\ enis'[x].status = enis[x].status
      BY <1>0, <2>1 DEF Eni
    <3>2. QED
      BY <1>3, <2>1, <3>1 DEF Live
  <2>2. QED
    BY <1>2, <1>4, <2>1 DEF UnassignIPAddresses, Invoke
<1>5. CASE DetachInterface
  <2>1. CASE pc' = "wait"
    <3>1. \A x \in EniIds : enis'[x].tag = enis[x].tag /\ (Live(x)' <=> Live(x))
      BY <1>0, <1>1, <1>5 DEF DetachInterface, Invoke, Eni, Live
    <3>2. QED
      BY <1>3, <2>1, <3>1
  <2>2. QED
    BY <1>2, <1>5, <2>1 DEF DetachInterface, Invoke
<1>6. CASE WaitForDetachment
  <2>1. \A x \in EniIds : enis'[x].tag = enis[x].tag /\ (Live(x)' <=> Live(x))
    BY <1>6 DEF WaitForDetachment, ec2Vars, Live
  <2>2. QED
    BY <1>2, <1>3, <1>6, <2>1 DEF WaitForDetachment
<1>7. CASE DeleteInterface
  <2>1. CASE pc' = "ok" /\ enis' = [enis EXCEPT ![eni].status = "deleted"]
    <3>1. \A x \in EniIds \ {eni} : enis'[x] = enis[x]
      BY <2>1
    <3>2. ~Live(eni)'
      BY <1>0, <2>1 DEF Live, Eni
    <3>3. Owned(job.pod)' = {}
      BY <1>0, <1>1, <3>1, <3>2 DEF Live
    <3>4. QED
      BY <1>0, <2>1, <3>3 DEF Progress
  <2>2. QED
    BY <1>2, <1>7, <2>1 DEF DeleteInterface, Invoke
<1>8. QED
  BY <1>4, <1>5, <1>6, <1>7 DEF ReleaseStep

(* The lookup finds what is published, and nothing when nothing is: what   *)
(* the pod has is in use, so the filter on the attachment does not miss it. *)
LEMMA FindProgress ==
  ASSUME OneInterface, AgentInv, FindExistingInterface, Progress(job.pod)
  PROVE  Progress(job.pod)'
<1> USE DEF AgentInv, TypeOK, ManagerTypeOK, Ec2TypeOK, Steps, EniSteps, Delivered, Ensuring,
            Releasing, Owned
<1>0. job' = job /\ pc = "find" /\ job \in Job /\ enis' = enis /\ Agree(job.pod)
  BY DEF FindExistingInterface, ec2Vars, Progress
<1>1. Owned(job.pod)' = Owned(job.pod)
  BY <1>0 DEF Live
<1>2. CASE pc' = "err"
  BY <1>2 DEF Progress
<1>3. ASSUME NEW e \in Existing(job.pod), eni' = e,
             pc' = IF Ensuring THEN "assign4" ELSE "unassign4"
      PROVE  Progress(job.pod)'
  <2>1. e \in Owned(job.pod)
    BY DEF Existing, Attached, Live
  <2>2. PICK s \in Published(job.pod) : e = s.eni
    BY <1>0, <2>1 DEF Agree
  <2>3. Owned(job.pod) = {e}
    <3>1. \A t \in Published(job.pod) : t = s
      BY DEF Published, OneInterface
    <3>2. QED
      BY <1>0, <2>2, <3>1 DEF Agree
  <2>4. enis[e].status = "in-use" /\ enis[e].dot
    BY <1>0, <2>2 DEF Agree
  <2>5. QED
    BY <1>0, <1>1, <1>3, <2>3, <2>4 DEF Progress
<1>4. CASE Existing(job.pod) = {} /\ pc' = IF Ensuring THEN "index" ELSE "ok"
  <2>1. Owned(job.pod) = {}
    <3>1. ASSUME NEW e \in Owned(job.pod) PROVE FALSE
      <4>1. PICK s \in Published(job.pod) : e = s.eni
        BY <1>0 DEF Agree
      <4>2. enis[e].status = "in-use"
        BY <1>0, <4>1 DEF Agree
      <4>3. QED
        BY <1>4, <4>2 DEF Existing, Attached
    <3>2. QED
      BY <3>1
  <2>2. QED
    BY <1>0, <1>1, <1>4, <2>1 DEF Progress, Job
<1>5. QED
  BY <1>2, <1>3, <1>4 DEF FindExistingInterface

(* A call of the manager brings its pod one step further. *)
LEMMA CallProgress ==
  ASSUME OneInterface, AgentInv, HandInv, CallStep, Progress(job.pod)
  PROVE  Progress(job.pod)'
  BY FindProgress, EnsureProgress, ReleaseProgress DEF CallStep

(* What EC2 does on its own. *)
LEMMA EnvironmentUntouched ==
  ASSUME AgentInv, Environment
  PROVE  /\ UNCHANGED <<pc, job, eni, queue, state>>
         /\ \A e \in EniIds : enis'[e] = enis[e] \/ DetachCompletes(e)
<1>1. UNCHANGED <<pc, job, eni, queue, state>>
  BY DEF Environment, callVars, agentVars
<1>2. ASSUME NEW d \in EniIds, DetachCompletes(d)
      PROVE  \A e \in EniIds : enis'[e] = enis[e] \/ DetachCompletes(e)
  BY <1>2 DEF DetachCompletes, AgentInv, TypeOK, ManagerTypeOK, Ec2TypeOK
<1>3. CASE enis' = enis
  BY <1>1, <1>3
<1>4. QED
  BY <1>1, <1>2, <1>3 DEF Environment, Ec2Step, ForeignAttach, ForeignDetach

(* EC2 only ever completes detachments, and of a pod with a job in         *)
(* progress only that of the interface at hand, which the wait is for.     *)
LEMMA EnvironmentProgress ==
  ASSUME AgentInv, Environment, NEW p \in Pods, Progress(p)
  PROVE  Progress(p)'
<1> USE DEF AgentInv, TypeOK, ManagerTypeOK, Ec2TypeOK, Delivered, Ensuring, Releasing
<1>1. UNCHANGED <<pc, job, eni, state>>
  BY EnvironmentUntouched
<1>2. \A e \in EniIds : enis'[e] = enis[e] \/ DetachCompletes(e)
  BY EnvironmentUntouched
<1>3. pc = "find" => Agree(p)'
  BY <1>1, <1>2, AgreeKept DEF Progress, Untouched
<1>4. ASSUME NEW e \in EniIds
      PROVE  /\ enis'[e].tag = enis[e].tag
             /\ enis'[e].dot = enis[e].dot
             /\ Live(e)' <=> Live(e)
             /\ enis[e].status = "in-use" => enis'[e].status = "in-use"
  <2>1. CASE enis'[e] = enis[e]
    BY <2>1 DEF Live
  <2>2. CASE DetachCompletes(e)
    BY <2>2 DEF DetachCompletes, Live, Eni
  <2>3. QED
    BY <1>2, <2>1, <2>2
<1>5. Owned(p)' = Owned(p)
  BY <1>4 DEF Owned
<1>6. pc \in {"modify", "assign4", "assign6"} \/ Delivered => eni \in EniIds
  BY DEF EniSteps, ManagerInv, CallInv
<1>7. QED
  BY <1>1, <1>3, <1>4, <1>5, <1>6 DEF Progress

(* A job that ends well leaves map and EC2 in agreement on its pod.        *)
LEMMA FinishAgrees ==
  ASSUME OneInterface, AgentInv, FinishJob, pc = "ok", NEW p \in Pods, job.pod = p, Progress(p)
  PROVE  Agree(p)'
<1> USE DEF AgentInv, TypeOK, ManagerTypeOK, Ec2TypeOK, Delivered, Ensuring, Releasing
<1>0. /\ job \in Job /\ enis' = enis
      /\ state' = Outcome
  BY DEF FinishJob, Return, Reset, ec2Vars
<1>1. KeyOf(job) \in Keys /\ KeyOf(job) = <<p, job.iface>> /\ job.iface \in Ifaces
  BY <1>0 DEF KeyOf, Keys, Job
<1>2. Published(p)' = {Outcome[KeyOf(job)]} \ {None}
  <2>1. \A i \in Ifaces : i = job.iface
    BY <1>1 DEF OneInterface
  <2>2. Published(p)' = {state'[<<p, i>>] : i \in Ifaces} \ {None}
    BY DEF Published
  <2>3. QED
    BY <1>0, <1>1, <2>1, <2>2
<1>3. Owned(p)' = Owned(p)
  BY <1>0 DEF Owned, Live, FinishJob, Return, Reset
<1>4. CASE job.kind = "release"
  <2>1. Owned(p) = {}
    BY <1>4 DEF Progress
  <2>2. Outcome[KeyOf(job)] = None
    BY <1>0, <1>1, <1>4 DEF Outcome
  <2>3. QED
    BY <1>2, <1>3, <2>1, <2>2 DEF Agree
<1>5. CASE job.kind = "ensure"
  <2> DEFINE entry == [eni |-> eni, ips |-> job.ips, profile |-> job.profile]
  <2>1. /\ Owned(p) = {eni}
        /\ enis[eni].status = "in-use"
        /\ enis[eni].dot
    BY <1>5 DEF Progress
  <2>2. eni \in EniIds /\ job.ips \subseteq Addresses(eni)
    BY <1>5 DEF ManagerInv, CallInv
  <2>3. entry \in Entry
    BY <1>0, <2>2 DEF Entry, Job
  <2>4. Outcome[KeyOf(job)] = entry /\ entry # None
    BY <1>0, <1>1, <1>5, <2>3, AgentAssumption DEF Outcome
  <2>5. Published(p)' = {entry}
    BY <1>2, <2>4
  <2>6. /\ enis'[entry.eni].status = "in-use"
        /\ enis'[entry.eni].dot
        /\ entry.ips \subseteq enis'[entry.eni].ips \cup {enis'[entry.eni].primary}
    BY <1>0, <2>1, <2>2 DEF Addresses
  <2>7. Owned(p)' = {s.eni : s \in Published(p)'}
    BY <1>3, <2>1, <2>5
  <2>8. QED
    BY <2>5, <2>6, <2>7 DEF Agree, Addresses
<1>6. QED
  BY <1>0, <1>4, <1>5 DEF Job
------------------------------------------------------------------------------
(* The process dies: a pod it knew nothing bad of, and EC2 has nothing for,*)
(* is one nobody knows anything of.                                        *)
LEMMA CrashAgrees ==
  ASSUME Crash, NEW p \in Pods, p \notin failed'
  PROVE  Agree(p)' /\ ~Busy(p)'
<1>1. p \notin Forgotten /\ state' = Nothing /\ enis' = enis /\ pc' = "idle"
  BY DEF Crash, ManagerCrash, Reset, ec2Vars
<1>2. Owned(p)' = {}
  BY <1>1 DEF Forgotten, Owned, Live
<1>3. Published(p)' = {}
  BY <1>1 DEF Published, Nothing, Keys
<1>4. QED
  BY <1>1, <1>2, <1>3 DEF Agree, Busy

(* Every step keeps the agreement of the pods nobody works on and the      *)
(* progress of the one that the worker is at.                              *)
LEMMA AgreeStep ==
  ASSUME OneInterface, AgentInv, AgreeInv, [Next]_vars
  PROVE  AgreeInv'
<1>0. HandInv /\ [ManagerNext]_managerVars
  BY AgentStepDrivesManager DEF AgentInv, AgreeInv
<1>1. HandInv'
  BY <1>0, HandStep DEF AgentInv
<1> SUFFICES ASSUME NEW p \in Pods, p \notin failed'
             PROVE  IF Busy(p)' THEN Progress(p)' ELSE Agree(p)'
  BY <1>1 DEF AgreeInv
<1>2. CASE Crash
  BY <1>2, CrashAgrees
<1>3. CASE ~Crash
  <2>0. p \notin failed
    BY <1>3 DEF Next, vars, Handlers, ReportInterface, ReleaseInterface, Hooks, OnPodAdd,
         OnPodUpdate, OnPodDelete, Hook, Callback, QueueRelease, Worker, Dequeue, WorkerCall,
         FinishJob, Environment, agentVars
  <2>1. IF Busy(p) THEN Progress(p) ELSE Agree(p)
    BY <2>0 DEF AgreeInv
  <2>2. ~Busy(p) => Untouched(p)
    BY <1>0, OthersUntouched DEF AgentInv
  <2>3. CASE Dequeue
    <3>1. ~Busy(p) /\ state' = state /\ (Busy(p)' => pc' \in {"find", "err"})
      BY <2>3 DEF Dequeue, Begin, Busy
    <3>2. Agree(p)'
      BY <2>1, <2>2, <3>1, AgreeKept
    <3>3. QED
      BY <3>1, <3>2 DEF Progress, EniSteps, Delivered
  <2>4. CASE WorkerCall
    <3>1. job' = job /\ pc # "idle" /\ pc' # "idle" /\ state' = state
      BY <2>4 DEF WorkerCall, agentVars, CallStep, FindExistingInterface, EnsureStep,
         NextAvailableDeviceIndex, CreateNetworkInterface, AttachNetworkInterface,
         ModifyNetworkInterface, AssignIPAddresses, ReleaseStep, UnassignIPAddresses,
         DetachInterface, WaitForDetachment, DeleteInterface, Invoke
    <3>2. CASE Busy(p)
      BY <1>0, <2>1, <2>4, <3>1, <3>2, CallProgress DEF Busy, WorkerCall
    <3>3. CASE ~Busy(p)
      BY <2>1, <2>2, <3>1, <3>3, AgreeKept DEF Busy
    <3>4. QED
      BY <3>2, <3>3
  <2>5. CASE FinishJob
    <3>1. pc # "idle" /\ pc' = "idle" /\ job \in Job /\ state' = Outcome
      BY <2>5 DEF FinishJob, Return, Reset, AgentInv, TypeOK, ManagerTypeOK
    <3>2. CASE Busy(p)
      <4>1. pc = "ok" /\ p = job.pod
        BY <2>5, <3>2 DEF FinishJob, Return, Busy
      <4>2. QED
        BY <2>1, <2>5, <3>1, <3>2, <4>1, FinishAgrees DEF Busy
    <3>3. CASE ~Busy(p)
      <4>1. \A i \in Ifaces : state'[<<p, i>>] = state[<<p, i>>]
        BY <3>1, <3>3 DEF Outcome, KeyOf, Busy, AgentInv, TypeOK, Keys
      <4>2. QED
        BY <2>1, <2>2, <3>1, <3>3, <4>1, AgreeKept DEF Busy
    <3>4. QED
      BY <3>2, <3>3
  <2>6. CASE Environment
    <3>1. UNCHANGED <<pc, job, eni, state>>
      BY <2>6 DEF Environment, callVars, agentVars
    <3>2. QED
      BY <2>1, <2>2, <2>6, <3>1, AgreeKept, EnvironmentProgress DEF Busy
  <2>7. CASE UNCHANGED <<enis, pc, job, eni, state>>
    <3>1. Owned(p)' = Owned(p) /\ Agree(p)' = Agree(p)
      BY <2>7 DEF Owned, Agree, Published, Live, Addresses
    <3>2. QED
      BY <2>1, <2>7, <3>1 DEF Busy, Progress, Delivered, Ensuring, Releasing
  <2>8. QED
    BY <1>3, <2>3, <2>4, <2>5, <2>6, <2>7
       DEF Next, vars, Handlers, ReportInterface, ReleaseInterface, Hooks, OnPodAdd,
           OnPodUpdate, OnPodDelete, Hook, Callback, QueueRelease, Worker, managerVars
<1>4. QED
  BY <1>2, <1>3

(* Unless a job of a pod failed, and whenever the worker is not at work on *)
(* the pod, what the agent publishes for it is what EC2 has: through any   *)
(* interleaving, any fault and any crash.  Pods have one interface.        *)
THEOREM MapAgreesWithEc2 ==
  ASSUME OneInterface
  PROVE  Spec => []StateAgreesWithEc2
<1>1. Init => AgreeInv
  <2> SUFFICES ASSUME Init PROVE AgreeInv
    OBVIOUS
  <2>1. pc = "idle" /\ enis = [e \in EniIds |-> NoInterface] /\ state = Nothing
    BY DEF Init, ManagerInit, Ec2Init
  <2>2. ASSUME NEW p \in Pods PROVE Owned(p) = {} /\ Published(p) = {}
    BY <2>1 DEF Owned, Live, NoInterface, Published, Nothing, Keys
  <2>3. QED
    BY <2>1, <2>2 DEF AgreeInv, HandInv, EniSteps, Busy, Agree
<1>2. AgentInv /\ AgreeInv /\ [Next]_vars => AgreeInv'
  BY AgreeStep
<1>3. AgreeInv => StateAgreesWithEc2
  BY DEF AgreeInv, Agree, Owned, StateAgreesWithEc2
<1>4. QED
  BY <1>1, <1>2, <1>3, AgentInvariant, PTL DEF Spec
==============================================================================
