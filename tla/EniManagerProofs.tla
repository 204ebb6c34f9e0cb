--------------------------- MODULE EniManagerProofs ----------------------------
(***************************************************************************)
(* Proofs about the ENI manager, for any number of pods, interfaces,       *)
(* profiles and addresses, and for any combination of faults.              *)
(***************************************************************************)
EXTENDS EniManager, TLAPS

(* The initial state is typed.                                             *)
LEMMA ManagerInitTyped == ManagerInit => ManagerTypeOK
<1>1. NoInterface \in Eni
  BY DEF NoInterface, Eni
<1>2. QED
  BY <1>1 DEF ManagerInit, Ec2Init, ManagerTypeOK, Ec2TypeOK, Steps, EniSteps

(* Every step of the manager and of EC2 keeps the types.                   *)
LEMMA ManagerTypeStep ==
  ASSUME ManagerTypeOK, [ManagerNext]_managerVars
  PROVE  ManagerTypeOK'
<1> USE ManagerAssumption, Ec2Assumption DEF ManagerTypeOK, Ec2TypeOK, Steps, EniSteps
<1>1. ASSUME NEW j \in Job, Begin(j) PROVE ManagerTypeOK'
  BY <1>1 DEF Begin, ec2Vars
<1>2. CASE FindExistingInterface
  <2>1. ASSUME NEW e \in EniIds PROVE Addresses(e) \subseteq Addr \cup {None}
    BY DEF Addresses, Eni, Addr
  <2>2. Existing(job.pod) \subseteq EniIds
    BY DEF Existing
  <2>3. QED
    BY <1>2, <2>1, <2>2 DEF FindExistingInterface, ec2Vars
<1>3. CASE NextAvailableDeviceIndex
  <2>1. dev' \in Nat
    <3>1. ASSUME NEW limit \in IndexLimits, NEW i \in FreeIndexes(limit) PROVE i \in Nat
      BY DEF FreeIndexes, IndexLimits
    <3>2. QED
      BY <1>3, <3>1 DEF NextAvailableDeviceIndex
  <2>2. QED
    BY <1>3, <2>1 DEF NextAvailableDeviceIndex, ec2Vars
<1>4. CASE CreateNetworkInterface
  <2>1. ASSUME NEW e \in EniIds, NEW a \in V4 \cup {None}
        PROVE  Created(e, a) \in [EniIds -> Eni]
    <3>1. job \in Job
      BY <1>4 DEF CreateNetworkInterface
    <3>2. [status |-> "available", tag |-> job.pod, profile |-> job.profile,
           primary |-> a, ips |-> {}, dev |-> 0, dot |-> FALSE] \in Eni
      BY <3>1 DEF Eni, Job
    <3>3. QED
      BY <3>2 DEF Created
  <2>2. QED
    BY <1>4, <2>1 DEF CreateNetworkInterface, Addr
<1>5. CASE AttachNetworkInterface
  BY <1>5 DEF AttachNetworkInterface, Invoke, Eni
<1>6. CASE ModifyNetworkInterface
  <2>1. enis[eni] \in Eni
    BY <1>6 DEF ModifyNetworkInterface
  <2>2. [enis[eni] EXCEPT !.dot = TRUE] \in Eni
    BY <2>1 DEF Eni
  <2>3. [enis EXCEPT ![eni].dot = TRUE] \in [EniIds -> Eni]
    BY <2>2
  <2>4. QED
    BY <1>6, <2>3 DEF ModifyNetworkInterface, Invoke
<1>7. ASSUME NEW family \in {V4, V6}, NEW here \in EniSteps, NEW next \in EniSteps \cup {"ok"},
             AssignIPAddresses(family, here, next)
      PROVE  ManagerTypeOK'
  <2>1. [enis EXCEPT ![eni].ips = @ \cup ((job.ips \cap family) \ seen)] \in [EniIds -> Eni]
    BY <1>7 DEF AssignIPAddresses, Eni, Job
  <2>2. QED
    BY <1>7, <2>1 DEF AssignIPAddresses, Invoke
<1>8. ASSUME NEW family \in {V4, V6}, NEW here \in EniSteps, NEW next \in EniSteps,
             UnassignIPAddresses(family, here, next)
      PROVE  ManagerTypeOK'
  <2>1. [enis EXCEPT ![eni].ips = @ \ ((seen \cap family) \ {enis[eni].primary})]
          \in [EniIds -> Eni]
    BY <1>8 DEF UnassignIPAddresses, Eni
  <2>2. QED
    BY <1>8, <2>1 DEF UnassignIPAddresses, Invoke
<1>9. CASE DetachInterface
  BY <1>9 DEF DetachInterface, Invoke, Eni
<1>10. CASE WaitForDetachment
  BY <1>10 DEF WaitForDetachment, ec2Vars
<1>11. CASE DeleteInterface
  BY <1>11 DEF DeleteInterface, Invoke, Eni
<1>12. CASE Reset
  BY <1>12 DEF Reset, ec2Vars
<1>13. CASE Ec2Step /\ UNCHANGED callVars
  <2>1. ASSUME NEW e \in EniIds, DetachCompletes(e), UNCHANGED callVars PROVE ManagerTypeOK'
    <3>1. [enis[e] EXCEPT !.status = "available", !.dev = 0] \in Eni
      BY DEF Eni
    <3>2. enis' \in [EniIds -> Eni]
      BY <2>1, <3>1 DEF DetachCompletes
    <3>3. QED
      BY <2>1, <3>2 DEF DetachCompletes, callVars
  <2>2. ASSUME NEW i \in 1 .. MaxInterfaces - 1, ForeignAttach(i), UNCHANGED callVars
        PROVE  ManagerTypeOK'
    BY <2>2 DEF ForeignAttach, callVars
  <2>3. ASSUME NEW i \in 1 .. MaxInterfaces - 1, ForeignDetach(i), UNCHANGED callVars
        PROVE  ManagerTypeOK'
    BY <2>3 DEF ForeignDetach, callVars
  <2>4. QED
    BY <1>13, <2>1, <2>2, <2>3 DEF Ec2Step
<1>14. CASE UNCHANGED managerVars
  BY <1>14 DEF managerVars
<1>15. QED
  BY <1>1, <1>2, <1>3, <1>4, <1>5, <1>6, <1>7, <1>8, <1>9, <1>10, <1>11, <1>12, <1>13, <1>14
     DEF ManagerNext, CallStep, EnsureStep, ReleaseStep, Return, ManagerCrash

(* Every variable keeps its type: in particular the code dereferences an   *)
(* interface only where it has one.                                        *)
THEOREM ManagerTypeCorrect == ManagerSpec => []ManagerTypeOK
<1>1. ManagerInit => ManagerTypeOK
  BY ManagerInitTyped
<1>2. ManagerTypeOK /\ [ManagerNext]_managerVars => ManagerTypeOK'
  BY ManagerTypeStep
<1>3. QED
  BY <1>1, <1>2, PTL DEF ManagerSpec
------------------------------------------------------------------------------
(* Only AttachNetworkInterface attaches: in every other step an interface  *)
(* that is attached afterwards was attached before, for the same pod.      *)
LEMMA OnlyAttachAttaches ==
  ASSUME ManagerTypeOK, [ManagerNext]_managerVars, ~AttachNetworkInterface,
         NEW e \in EniIds, Attached(e)'
  PROVE  Attached(e) /\ enis'[e].tag = enis[e].tag
<1> USE DEF ManagerTypeOK, Ec2TypeOK, Attached, EniSteps
<1>1. CASE enis' = enis
  BY <1>1
<1>2. CASE CreateNetworkInterface
  <2>1. ASSUME NEW d \in EniIds, NEW a, enis[d].status = "none", enis' = Created(d, a)
        PROVE  Attached(e) /\ enis'[e].tag = enis[e].tag
    BY <2>1 DEF Created
  <2>2. QED
    BY <1>1, <1>2, <2>1 DEF CreateNetworkInterface
<1>3. CASE ModifyNetworkInterface
  BY <1>3 DEF ModifyNetworkInterface, Invoke, Eni
<1>4. ASSUME NEW family, NEW here \in EniSteps, NEW next, AssignIPAddresses(family, here, next)
      PROVE  Attached(e) /\ enis'[e].tag = enis[e].tag
  BY <1>4 DEF AssignIPAddresses, Invoke, Eni
<1>5. ASSUME NEW family, NEW here \in EniSteps, NEW next, UnassignIPAddresses(family, here, next)
      PROVE  Attached(e) /\ enis'[e].tag = enis[e].tag
  BY <1>5 DEF UnassignIPAddresses, Invoke, Eni
<1>6. CASE DetachInterface
  BY <1>6 DEF DetachInterface, Invoke, Eni
<1>7. CASE DeleteInterface
  BY <1>7 DEF DeleteInterface, Invoke, Eni
<1>8. ASSUME NEW d \in EniIds, DetachCompletes(d)
      PROVE  Attached(e) /\ enis'[e].tag = enis[e].tag
  BY <1>8 DEF DetachCompletes, Eni
<1>9. QED
  BY <1>1, <1>2, <1>3, <1>4, <1>5, <1>6, <1>7, <1>8
     DEF ManagerNext, managerVars, Begin, CallStep, FindExistingInterface, EnsureStep,
         NextAvailableDeviceIndex, ReleaseStep, WaitForDetachment, Return, ManagerCrash, Reset,
         Ec2Step, ForeignAttach, ForeignDetach, ec2Vars

(* The attach call fills an empty slot: the pod had no attached interface. *)
LEMMA AtMostOneStep ==
  ASSUME ManagerInv, [ManagerNext]_managerVars
  PROVE  AtMostOneAttached'
<1> USE DEF ManagerInv, ManagerTypeOK, Ec2TypeOK, EniSteps
<1> SUFFICES ASSUME NEW d \in EniIds, NEW e \in EniIds,
                    Attached(d)', Attached(e)', enis'[d].tag = enis'[e].tag
             PROVE  d = e
  BY DEF AtMostOneAttached
<1>1. CASE AttachNetworkInterface
  <2>1. enis[eni].tag = job.pod /\ Existing(job.pod) = {}
    BY <1>1 DEF AttachNetworkInterface, CallInv
  <2>2. \A x \in EniIds : Attached(x) => enis[x].tag # job.pod
    BY <2>1 DEF Existing
  <2>3. \A x \in EniIds : enis'[x].tag = enis[x].tag
    BY <1>1 DEF AttachNetworkInterface, Invoke, Eni
  <2>4. \A x \in EniIds : Attached(x)' => Attached(x) \/ x = eni
    BY <1>1 DEF AttachNetworkInterface, Invoke, Eni, Attached
  <2>5. QED
    BY <2>1, <2>2, <2>3, <2>4 DEF AtMostOneAttached
<1>2. CASE ~AttachNetworkInterface
  BY <1>2, OnlyAttachAttaches DEF AtMostOneAttached
<1>3. QED
  BY <1>1, <1>2

(* An interface is deleted only when the wait has seen it detached, and    *)
(* nothing attaches it in between.                                         *)
LEMMA DeleteAfterDetachStep ==
  ASSUME ManagerInv, [ManagerNext]_managerVars
  PROVE  DeleteAfterDetach'
<1> SUFFICES ASSUME pc' = "delete" PROVE ~Attached(eni)'
  BY DEF DeleteAfterDetach
<1> USE DEF ManagerInv, ManagerTypeOK, Ec2TypeOK, EniSteps
<1>1. CASE WaitForDetachment
  BY <1>1 DEF WaitForDetachment, Attached, ec2Vars
<1>2. CASE ~WaitForDetachment
  <2>1. pc = "delete" /\ eni' = eni
    BY <1>2 DEF ManagerNext, managerVars, callVars, Begin, CallStep, FindExistingInterface,
         EnsureStep, NextAvailableDeviceIndex, CreateNetworkInterface, AttachNetworkInterface,
         ModifyNetworkInterface, AssignIPAddresses, ReleaseStep, UnassignIPAddresses,
         DetachInterface, DeleteInterface, Invoke, Return, ManagerCrash, Reset
  <2>2. ~Attached(eni) /\ ~AttachNetworkInterface
    BY <2>1 DEF DeleteAfterDetach, AttachNetworkInterface
  <2>3. QED
    BY <2>1, <2>2, OnlyAttachAttaches
<1>3. QED
  BY <1>1, <1>2

(* What the steps of a call have established stays established: nobody but *)
(* the call itself touches the interface at hand, except EC2 completing a  *)
(* detachment.                                                             *)
LEMMA CallInvStep ==
  ASSUME ManagerInv, [ManagerNext]_managerVars
  PROVE  CallInv'
<1> USE Ec2Assumption
    DEF ManagerInv, ManagerTypeOK, Ec2TypeOK, Steps, EniSteps, CallInv, Ensuring, Releasing
<1>1. ASSUME NEW j \in Job, Begin(j) PROVE CallInv'
  BY <1>1 DEF Begin, ec2Vars
<1>2. CASE FindExistingInterface
  <2>1. job \in Job /\ job' = job /\ enis' = enis /\ pc = "find"
    BY <1>2 DEF FindExistingInterface, ec2Vars
  <2>2. ASSUME NEW e \in Existing(job.pod), eni' = e, seen' = Addresses(e),
               pc' = IF Ensuring THEN "assign4" ELSE "unassign4"
        PROVE  CallInv'
    BY <2>1, <2>2 DEF Existing, Attached, Live, Addresses, Job
  <2>3. CASE Existing(job.pod) = {} /\ pc' = IF Ensuring THEN "index" ELSE "ok"
    BY <2>1, <2>3 DEF Existing, Attached, Job
  <2>4. CASE pc' = "err"
    BY <2>4
  <2>5. QED
    BY <1>2, <2>2, <2>3, <2>4 DEF FindExistingInterface
<1>3. CASE NextAvailableDeviceIndex
  BY <1>3 DEF NextAvailableDeviceIndex, ec2Vars, Existing, Attached
<1>4. CASE CreateNetworkInterface
  <2>1. ASSUME NEW e \in EniIds, NEW a \in V4 \cup {None}, enis' = Created(e, a),
               enis[e].status = "none", eni' = e, seen' = {a}, pc' = "attach"
        PROVE  CallInv'
    <3>1. pc = "create" /\ job' = job
      BY <1>4 DEF CreateNetworkInterface
    <3>2. Existing(job.pod)' = {}
      BY <2>1, <3>1 DEF Existing, Attached, Created
    <3>3. Live(e)' /\ enis'[e].tag = job.pod /\ seen' \subseteq Addresses(e)'
      BY <2>1 DEF Live, Addresses, Created
    <3>4. QED
      BY <2>1, <3>1, <3>2, <3>3
  <2>2. CASE pc' = "err"
    BY <2>2
  <2>3. QED
    BY <1>4, <2>1, <2>2 DEF CreateNetworkInterface
<1>5. CASE AttachNetworkInterface
  <2>1. pc = "attach" /\ job' = job /\ eni' = eni /\ seen' = seen /\ pc' \in {"modify", "err"}
    BY <1>5 DEF AttachNetworkInterface, Invoke
  <2>2. pc' = "modify" => enis' = [enis EXCEPT ![eni].status = "in-use", ![eni].dev = dev]
    BY <1>5 DEF AttachNetworkInterface, Invoke
  <2>3. QED
    BY <2>1, <2>2 DEF Live, Addresses, Eni
<1>6. CASE ModifyNetworkInterface
  <2>1. pc = "modify" /\ job' = job /\ eni' = eni /\ seen' = seen /\ pc' \in {"assign4", "err"}
    BY <1>6 DEF ModifyNetworkInterface, Invoke
  <2>2. pc' = "assign4" => enis' = [enis EXCEPT ![eni].dot = TRUE]
    BY <1>6 DEF ModifyNetworkInterface, Invoke
  <2>3. QED
    BY <2>1, <2>2 DEF Live, Addresses, Eni
<1>7. CASE AssignIPAddresses(V4, "assign4", "assign6")
  <2>1. pc = "assign4" /\ job' = job /\ eni' = eni /\ seen' = seen /\ pc' \in {"assign6", "err"}
    BY <1>7 DEF AssignIPAddresses, Invoke
  <2>2. pc' = "assign6" =>
          \/ enis' = enis /\ job.ips \cap V4 \subseteq seen
          \/ enis' = [enis EXCEPT ![eni].ips = @ \cup ((job.ips \cap V4) \ seen)]
    BY <1>7 DEF AssignIPAddresses, Invoke
  <2>3. QED
    BY <2>1, <2>2 DEF Live, Addresses, Eni
<1>8. CASE AssignIPAddresses(V6, "assign6", "ok")
  <2>1. pc = "assign6" /\ job' = job /\ eni' = eni /\ seen' = seen /\ pc' \in {"ok", "err"}
    BY <1>8 DEF AssignIPAddresses, Invoke
  <2>2. pc' = "ok" =>
          \/ enis' = enis /\ job.ips \cap V6 \subseteq seen
          \/ enis' = [enis EXCEPT ![eni].ips = @ \cup ((job.ips \cap V6) \ seen)]
    BY <1>8 DEF AssignIPAddresses, Invoke
  <2>3. job.ips \subseteq V4 \cup V6
    BY <2>1 DEF Job, Addr
  <2>4. QED
    BY <2>1, <2>2, <2>3 DEF Live, Addresses, Eni
<1>9. CASE ReleaseStep
  <2>1. /\ pc \in {"unassign4", "unassign6", "detach", "wait", "delete"}
        /\ pc' \in {"unassign6", "detach", "wait", "delete", "ok", "err"}
        /\ job' = job
    BY <1>9 DEF ReleaseStep, UnassignIPAddresses, DetachInterface, WaitForDetachment,
         DeleteInterface, Invoke
  <2>2. QED
    BY <2>1 DEF Job
<1>10. CASE Reset
  BY <1>10 DEF Reset
<1>11. CASE Ec2Step /\ UNCHANGED callVars
  <2>1. ASSUME NEW e \in EniIds, DetachCompletes(e), UNCHANGED callVars PROVE CallInv'
    <3>1. enis' = [enis EXCEPT ![e].status = "available", ![e].dev = 0]
      BY <2>1 DEF DetachCompletes
    <3>2. \A x \in EniIds : /\ Attached(x)' => Attached(x)
                            /\ Live(x) => Live(x)'
                            /\ enis'[x].tag = enis[x].tag
                            /\ Addresses(x)' = Addresses(x)
      BY <2>1, <3>1 DEF DetachCompletes, Attached, Live, Addresses, Eni
    <3>3. \A p : Existing(p)' \subseteq Existing(p)
      BY <3>2 DEF Existing
    <3>4. QED
      BY <2>1, <3>2, <3>3 DEF callVars
  <2>2. CASE enis' = enis /\ UNCHANGED callVars
    BY <2>2 DEF callVars, Existing, Attached, Live, Addresses
  <2>3. QED
    BY <1>11, <2>1, <2>2 DEF Ec2Step, ForeignAttach, ForeignDetach
<1>12. CASE UNCHANGED managerVars
  BY <1>12 DEF managerVars, Existing, Attached, Live, Addresses
<1>13. QED
  BY <1>1, <1>2, <1>3, <1>4, <1>5, <1>6, <1>7, <1>8, <1>9, <1>10, <1>11, <1>12
     DEF ManagerNext, CallStep, EnsureStep, Return, ManagerCrash
------------------------------------------------------------------------------
(* The inductive invariant of the manager.                                 *)
THEOREM ManagerInvariant == ManagerSpec => []ManagerInv
<1>1. ManagerInit => ManagerInv
  BY ManagerInitTyped
     DEF ManagerInit, Ec2Init, ManagerInv, AtMostOneAttached, DeleteAfterDetach, CallInv,
         Attached, NoInterface
<1>2. ManagerInv /\ [ManagerNext]_managerVars => ManagerInv'
  BY ManagerTypeStep, AtMostOneStep, DeleteAfterDetachStep, CallInvStep DEF ManagerInv
<1>3. QED
  BY <1>1, <1>2, PTL DEF ManagerSpec

(* However AWS calls fail or the agent dies, a pod never has two attached  *)
(* interfaces.                                                             *)
THEOREM OneAttachmentPerPod == ManagerSpec => []AtMostOneAttached
<1>1. ManagerInv => AtMostOneAttached
  BY DEF ManagerInv
<1>2. QED
  BY <1>1, ManagerInvariant, PTL

(* DeleteNetworkInterface is never called for an attached interface.       *)
THEOREM NoDeleteWhileAttached == ManagerSpec => []DeleteAfterDetach
<1>1. ManagerInv => DeleteAfterDetach
  BY DEF ManagerInv
<1>2. QED
  BY <1>1, ManagerInvariant, PTL

(* A successful EnsureInterface returns the pod's own interface, with all  *)
(* the addresses that were asked for.                                      *)
THEOREM EnsureKeepsItsWord == ManagerSpec => []EnsureDelivers
<1>1. ManagerInv => EnsureDelivers
  BY DEF ManagerInv, CallInv, EnsureDelivers
<1>2. QED
  BY <1>1, ManagerInvariant, PTL
------------------------------------------------------------------------------
(* The attach call fills the slot of its pod.                              *)
LEMMA AttachFills ==
  ASSUME ManagerInv, AttachNetworkInterface
  PROVE  Slots!Fill(job.pod, eni) \/ Held' = Held
<1> USE DEF ManagerInv, ManagerTypeOK, Ec2TypeOK, EniSteps, Existing
<1>1. pc = "attach" /\ job.pod \in Pods /\ eni \in EniIds
  BY DEF AttachNetworkInterface, Job
<1>2. enis[eni].tag = job.pod /\ Existing(job.pod) = {}
  BY <1>1 DEF CallInv
<1>3. CASE enis' = enis
  BY <1>3 DEF Held, Attached
<1>4. CASE enis[eni].status = "available"
           /\ enis' = [enis EXCEPT ![eni].status = "in-use", ![eni].dev = dev]
  <2>1. \A e \in EniIds : /\ enis'[e].tag = enis[e].tag
                          /\ Attached(e)' <=> Attached(e) \/ e = eni
    BY <1>1, <1>4 DEF Attached, Eni
  <2>2. Held' = [Held EXCEPT ![job.pod] = {eni}]
    <3>1. Existing(job.pod)' = {eni}
      BY <1>1, <1>2, <2>1 DEF AttachNetworkInterface
    <3>2. ASSUME NEW p \in Pods, p # job.pod PROVE Existing(p)' = Existing(p)
      BY <1>1, <1>2, <2>1, <3>2
    <3>3. QED
      BY <1>1, <3>1, <3>2 DEF Held, AttachNetworkInterface
  <2>3. Held[job.pod] = {} /\ \A q \in Pods : eni \notin Held[q]
    BY <1>1, <1>2, <1>4 DEF Held, Attached
  <2>4. QED
    BY <2>2, <2>3 DEF Slots!Fill
<1>5. QED
  BY <1>3, <1>4 DEF AttachNetworkInterface, Invoke

(* A detachment that completes empties the slot of the interface's pod.    *)
LEMMA DetachmentEmpties ==
  ASSUME ManagerInv, NEW e \in EniIds, DetachCompletes(e)
  PROVE  (\E p \in Pods : Slots!Empty(p)) \/ Held' = Held
<1> USE DEF ManagerInv, ManagerTypeOK, Ec2TypeOK, Existing
<1>1. enis[e].status = "detaching" /\ enis[e].tag \in Pods \cup {None}
  BY DEF DetachCompletes, Eni
<1>2. \A x \in EniIds : /\ enis'[x].tag = enis[x].tag
                        /\ Attached(x)' <=> Attached(x) /\ x # e
  BY DEF DetachCompletes, Attached, Eni
<1>3. ASSUME NEW p \in Pods, enis[e].tag = p PROVE Slots!Empty(p)
  <2>1. Existing(p) = {e} /\ Existing(p)' = {}
    BY <1>1, <1>2, <1>3 DEF AtMostOneAttached, Attached
  <2>2. ASSUME NEW q \in Pods, q # p PROVE Existing(q)' = Existing(q)
    BY <1>2, <1>3, <2>2
  <2>3. Held' = [Held EXCEPT ![p] = {}]
    BY <2>1, <2>2 DEF Held
  <2>4. QED
    BY <2>1, <2>3 DEF Held, Slots!Empty
<1>4. CASE enis[e].tag = None
  <2>1. ASSUME NEW p \in Pods PROVE Existing(p)' = Existing(p)
    BY <1>2, <1>4, Ec2Assumption
  <2>2. QED
    BY <2>1 DEF Held
<1>5. QED
  BY <1>1, <1>3, <1>4

(* A step of the manager fills a slot, empties one or leaves all as they   *)
(* are: the attach call fills that of its pod, a completed detachment      *)
(* empties it.                                                             *)
LEMMA SlotsStep ==
  ASSUME ManagerInv, [ManagerNext]_managerVars
  PROVE  [Slots!Next]_Held
<1> USE DEF ManagerInv, ManagerTypeOK, Ec2TypeOK, EniSteps
<1>1. CASE AttachNetworkInterface
  <2>1. job.pod \in Pods /\ eni \in EniIds
    BY <1>1 DEF AttachNetworkInterface, Job
  <2>2. QED
    BY <1>1, <2>1, AttachFills DEF Slots!Next
<1>2. ASSUME NEW e \in EniIds, DetachCompletes(e) PROVE [Slots!Next]_Held
  BY <1>2, DetachmentEmpties DEF Slots!Next
<1>3. CASE \A e \in EniIds : Attached(e)' = Attached(e) /\ (Attached(e) => enis'[e].tag = enis[e].tag)
  BY <1>3 DEF Held, Existing
<1>4. QED
  <2>1. CASE enis' = enis
    BY <1>3, <2>1 DEF Attached
  <2>2. CASE CreateNetworkInterface
    <3>1. ASSUME NEW d \in EniIds, NEW a, enis[d].status = "none", enis' = Created(d, a)
          PROVE  [Slots!Next]_Held
      BY <1>3, <3>1 DEF Created, Attached
    <3>2. QED
      BY <2>1, <2>2, <3>1 DEF CreateNetworkInterface
  <2>3. CASE ModifyNetworkInterface
    BY <1>3, <2>3 DEF ModifyNetworkInterface, Invoke, Attached, Eni
  <2>4. ASSUME NEW family, NEW here \in EniSteps, NEW next,
               AssignIPAddresses(family, here, next)
        PROVE  [Slots!Next]_Held
    BY <1>3, <2>4 DEF AssignIPAddresses, Invoke, Attached, Eni
  <2>5. ASSUME NEW family, NEW here \in EniSteps, NEW next,
               UnassignIPAddresses(family, here, next)
        PROVE  [Slots!Next]_Held
    BY <1>3, <2>5 DEF UnassignIPAddresses, Invoke, Attached, Eni
  <2>6. CASE DetachInterface
    BY <1>3, <2>6 DEF DetachInterface, Invoke, Attached, Eni
  <2>7. CASE DeleteInterface
    BY <1>3, <2>7 DEF DeleteInterface, Invoke, Attached, Eni
  <2>8. QED
    BY <1>1, <1>2, <2>1, <2>2, <2>3, <2>4, <2>5, <2>6, <2>7
       DEF ManagerNext, managerVars, Begin, CallStep, FindExistingInterface, EnsureStep,
           NextAvailableDeviceIndex, ReleaseStep, WaitForDetachment, Return, ManagerCrash,
           Reset, Ec2Step, ForeignAttach, ForeignDetach, ec2Vars

(* The manager implements the slots: every step fills or empties the slot  *)
(* of one pod, or changes no attachment.                                   *)
THEOREM ManagerImplementsSlots == ManagerSpec => SlotsSpec
<1>1. ManagerInit => Slots!Init
  BY DEF ManagerInit, Ec2Init, Slots!Init, Held, Existing, Attached, NoInterface
<1>2. ManagerInv /\ [ManagerNext]_managerVars => [Slots!Next]_Held
  BY SlotsStep
<1>3. QED
  BY <1>1, <1>2, ManagerInvariant, PTL DEF ManagerSpec, SlotsSpec, Slots!Spec
==============================================================================
