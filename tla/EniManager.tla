----------------------------- MODULE EniManager ------------------------------
(***************************************************************************)
(* pkg/aws/eni_manager.go: EnsureInterface and ReleaseInterface, one AWS   *)
(* call per step, against the EC2 of module Ec2.  Between two steps EC2    *)
(* finishes detachments, the VPC CNI attaches interfaces, and the agent    *)
(* process may die.                                                        *)
(*                                                                         *)
(* The manager has no state of its own that outlives a call.  The          *)
(* variables below are the local variables of the call in progress; there  *)
(* is at most one, because the agent's only worker goroutine makes them.   *)
(***************************************************************************)
EXTENDS Ec2

CONSTANTS
  Ifaces,            (* interface names inside a pod (net1, net2, ...)        *)
  Misconfigured,     (* profiles without subnetId or without securityGroupIds *)
  DefaultMax         (* limit assumed when the instance type is not described *)

ASSUME ManagerAssumption ==
  /\ DefaultMax \in Nat \ {0}
  /\ Misconfigured \subseteq Profiles

VARIABLES
  pc,     (* the next thing the call does; "idle": no call in progress        *)
  job,    (* the request: SyncRequest or ReleaseRequest                       *)
  eni,    (* the interface found or created                                   *)
  seen,   (* its addresses as DescribeNetworkInterfaces or Create showed them *)
  dev     (* the device index chosen for a new interface                      *)

callVars == <<pc, job, eni, seen, dev>>
managerVars == <<enis, foreign, pc, job, eni, seen, dev>>
------------------------------------------------------------------------------
EnsureJob(p, i, f, a) ==
  [kind |-> "ensure", pod |-> p, iface |-> i, profile |-> f, ips |-> a]

ReleaseJob(p, i, f) ==
  [kind |-> "release", pod |-> p, iface |-> i, profile |-> f, ips |-> {}]

Job == [kind    : {"ensure", "release"},
        pod     : Pods,
        iface   : Ifaces,
        profile : Profiles,
        ips     : SUBSET Addr]

(* Steps that act on the interface in eni. *)
EniSteps == {"attach", "modify", "assign4", "assign6",
             "unassign4", "unassign6", "detach", "wait", "delete"}

Steps == {"idle", "find", "index", "create", "ok", "err"} \cup EniSteps

Ensuring == pc # "idle" /\ job.kind = "ensure"
Releasing == pc # "idle" /\ job.kind = "release"

ManagerInit ==
  /\ Ec2Init
  /\ pc = "idle"
  /\ job = None
  /\ eni = None
  /\ seen = {}
  /\ dev = 0

(* A mutating AWS call made after the SDK's own retries.  can says whether *)
(* EC2 accepts it, new is what it does to the interfaces.                  *)
Invoke(can, new, next) ==
  \/ can /\ enis' = new /\ pc' = next
  \/ can /\ "lost" \in Faults /\ enis' = new /\ pc' = "err"
  \/ (~can \/ "error" \in Faults) /\ enis' = enis /\ pc' = "err"
------------------------------------------------------------------------------
(* The agent calls EnsureInterface or ReleaseInterface.  Only              *)
(* EnsureInterface looks at the profile.                                   *)
Begin(j) ==
  /\ pc = "idle"
  /\ job' = j
  /\ pc' = IF j.kind = "ensure" /\ j.profile \in Misconfigured
           THEN "err" ELSE "find"
  /\ UNCHANGED <<ec2Vars, eni, seen, dev>>

BugExisting(p) == {e \in EniIds : enis[e].tag = p /\ enis[e].status = "in-use"}

(* findExistingInterface: interfaces with the pod's tag that are attached  *)
(* to this instance.  The tag is built from the pod UID alone.             *)
Existing(p) == {e \in EniIds : enis[e].tag = p /\ Attached(e)}

BugFindNil ==
  /\ pc = "find"
  /\ \/ \E e \in Existing(job.pod) :
          /\ eni' = e
          /\ seen' = Addresses(e)
          /\ pc' = IF Ensuring THEN "assign4" ELSE "unassign4"
     \/ /\ Existing(job.pod) = {}
        /\ pc' = IF Ensuring THEN "index" ELSE "unassign4"
        /\ UNCHANGED <<eni, seen>>
  /\ UNCHANGED <<ec2Vars, job, dev>>

BugFindSwallowsError ==
  /\ pc = "find"
  /\ \/ \E e \in Existing(job.pod) :
          /\ eni' = e
          /\ seen' = Addresses(e)
          /\ pc' = IF Ensuring THEN "assign4" ELSE "unassign4"
     \/ /\ Existing(job.pod) = {} \/ "error" \in Faults
        /\ pc' = IF Ensuring THEN "index" ELSE "ok"
        /\ UNCHANGED <<eni, seen>>
  /\ UNCHANGED <<ec2Vars, job, dev>>

FindExistingInterface ==
  /\ pc = "find"
  /\ \/ \E e \in Existing(job.pod) :
          /\ eni' = e
          /\ seen' = Addresses(e)
          /\ pc' = IF Ensuring THEN "assign4" ELSE "unassign4"
     \/ /\ Existing(job.pod) = {}
        /\ pc' = IF Ensuring THEN "index" ELSE "ok"
        /\ UNCHANGED <<eni, seen>>
     \/ /\ "error" \in Faults
        /\ pc' = "err"
        /\ UNCHANGED <<eni, seen>>
  /\ UNCHANGED <<ec2Vars, job, dev>>
------------------------------------------------------------------------------
(* The limit the code works with: that of the instance type, or the        *)
(* default when DescribeInstanceTypes fails; never below 2.                *)
IndexLimits ==
  LET known == {MaxInterfaces} \cup IF "error" \in Faults THEN {DefaultMax} ELSE {}
  IN  {IF n < 2 THEN 2 ELSE n : n \in known}

FreeIndexes(limit) == (1 .. limit - 1) \ UsedIndexes

NextAvailableDeviceIndex ==
  /\ pc = "index"
  /\ \/ \E limit \in IndexLimits : \E i \in FreeIndexes(limit) :
          /\ \A k \in FreeIndexes(limit) : i <= k
          /\ dev' = i
          /\ pc' = "create"
     \/ /\ \E limit \in IndexLimits : FreeIndexes(limit) = {}
        /\ pc' = "err"
        /\ UNCHANGED dev
     \/ /\ "error" \in Faults
        /\ pc' = "err"
        /\ UNCHANGED dev
  /\ UNCHANGED <<ec2Vars, job, eni, seen>>

(* EC2 gives the new interface a primary address of the subnet: one of the *)
(* range that the IPAM hands out, or one outside of it.                    *)
Created(e, a) ==
  [enis EXCEPT ![e] = [status |-> "available", tag |-> job.pod,
                       profile |-> job.profile, primary |-> a, ips |-> {},
                       dev |-> 0, dot |-> FALSE]]

CreateNetworkInterface ==
  /\ pc = "create"
  /\ \/ \E e \in EniIds, a \in V4 \cup {None} :
          /\ enis[e].status = "none"
          /\ a = None \/ ~Taken(job.profile, e, a)
          /\ enis' = Created(e, a)
          /\ \/ eni' = e /\ seen' = {a} /\ pc' = "attach"
             \/ "lost" \in Faults /\ pc' = "err" /\ UNCHANGED <<eni, seen>>
     \/ /\ "error" \in Faults \/ \A e \in EniIds : enis[e].status # "none"
        /\ pc' = "err"
        /\ UNCHANGED <<enis, eni, seen>>
  /\ UNCHANGED <<foreign, job, dev>>

(* The index was free when it was chosen; EC2 looks again.                 *)
AttachNetworkInterface ==
  /\ pc = "attach"
  /\ Invoke(/\ enis[eni].status = "available"
            /\ dev \notin UsedIndexes
            /\ dev < MaxInterfaces,
            [enis EXCEPT ![eni].status = "in-use", ![eni].dev = dev], "modify")
  /\ UNCHANGED <<foreign, job, eni, seen, dev>>

BugModifyIgnored ==
  /\ pc = "modify"
  /\ \/ Invoke(Attached(eni), [enis EXCEPT ![eni].dot = TRUE], "assign4")
     \/ "error" \in Faults /\ enis' = enis /\ pc' = "assign4"
  /\ UNCHANGED <<foreign, job, eni, seen, dev>>

(* Enable DeleteOnTermination. *)
ModifyNetworkInterface ==
  /\ pc = "modify"
  /\ Invoke(Attached(eni), [enis EXCEPT ![eni].dot = TRUE], "assign4")
  /\ UNCHANGED <<foreign, job, eni, seen, dev>>
------------------------------------------------------------------------------
(* EC2 refuses an address of another subnet, and one that another          *)
(* interface has.                                                          *)
Assignable(addresses) ==
  /\ enis[eni].profile = job.profile
  /\ \A a \in addresses : ~Taken(job.profile, eni, a)

BugAssign(family, here, next) ==
  LET want == (job.ips \cap V4) \ seen
  IN  /\ pc = here
      /\ \/ want = {} /\ enis' = enis /\ pc' = next
         \/ /\ want # {}
            /\ Invoke(Assignable(want), [enis EXCEPT ![eni].ips = @ \cup want], next)
      /\ UNCHANGED <<foreign, job, eni, seen, dev>>

(* assignIPAddresses, one family: what was asked for and not seen on the   *)
(* interface.                                                              *)
AssignIPAddresses(family, here, next) ==
  LET want == (job.ips \cap family) \ seen
  IN  /\ pc = here
      /\ \/ want = {} /\ enis' = enis /\ pc' = next
         \/ /\ want # {}
            /\ Invoke(Assignable(want), [enis EXCEPT ![eni].ips = @ \cup want], next)
      /\ UNCHANGED <<foreign, job, eni, seen, dev>>

(* unassignIPAddresses, one family: all that was seen but the primary.     *)
UnassignIPAddresses(family, here, next) ==
  LET gone == (seen \cap family) \ {enis[eni].primary}
  IN  /\ pc = here
      /\ \/ gone = {} /\ enis' = enis /\ pc' = next
         \/ /\ gone # {}
            /\ Invoke(Live(eni), [enis EXCEPT ![eni].ips = @ \ gone], next)
      /\ UNCHANGED <<foreign, job, eni, seen, dev>>

DetachInterface ==
  /\ pc = "detach"
  /\ Invoke(Attached(eni), [enis EXCEPT ![eni].status = "detaching"], "wait")
  /\ UNCHANGED <<foreign, job, eni, seen, dev>>

BugWaitForDetachment ==
  /\ pc = "wait"
  /\ pc' = "delete"
  /\ UNCHANGED <<ec2Vars, job, eni, seen, dev>>

BugWaitForever ==
  /\ pc = "wait"
  /\ ~Attached(eni) /\ pc' = "delete"
  /\ UNCHANGED <<ec2Vars, job, eni, seen, dev>>

BugTimeoutIsSuccess ==
  /\ pc = "wait"
  /\ \/ ~Attached(eni) /\ pc' = "delete"
     \/ "slow" \in Faults /\ pc' = "ok"
  /\ UNCHANGED <<ec2Vars, job, eni, seen, dev>>

(* The poll ends when the interface is not attached any more, or at the    *)
(* deadline; a poll that shows it attached, or fails, changes nothing.     *)
WaitForDetachment ==
  /\ pc = "wait"
  /\ \/ ~Attached(eni) /\ pc' = "delete"
     \/ "slow" \in Faults /\ pc' = "err"
  /\ UNCHANGED <<ec2Vars, job, eni, seen, dev>>

DeleteInterface ==
  /\ pc = "delete"
  /\ Invoke(enis[eni].status = "available",
            [enis EXCEPT ![eni].status = "deleted"], "ok")
  /\ UNCHANGED <<foreign, job, eni, seen, dev>>
------------------------------------------------------------------------------
EnsureStep ==
  \/ NextAvailableDeviceIndex
  \/ CreateNetworkInterface
  \/ AttachNetworkInterface
  \/ ModifyNetworkInterface
  \/ AssignIPAddresses(V4, "assign4", "assign6")
  \/ AssignIPAddresses(V6, "assign6", "ok")

ReleaseStep ==
  \/ UnassignIPAddresses(V4, "unassign4", "unassign6")
  \/ UnassignIPAddresses(V6, "unassign6", "detach")
  \/ DetachInterface
  \/ WaitForDetachment
  \/ DeleteInterface

CallStep == FindExistingInterface \/ EnsureStep \/ ReleaseStep

(* The call is over, by its return or with its process. *)
Reset ==
  /\ pc' = "idle"
  /\ job' = None
  /\ eni' = None
  /\ seen' = {}
  /\ dev' = 0
  /\ UNCHANGED ec2Vars

Return == pc \in {"ok", "err"} /\ Reset

ManagerCrash == "crash" \in Faults /\ Reset

ManagerNext ==
  \/ \E j \in Job : Begin(j)
  \/ CallStep
  \/ Return
  \/ ManagerCrash
  \/ Ec2Step /\ UNCHANGED callVars

ManagerSpec == ManagerInit /\ [][ManagerNext]_managerVars
------------------------------------------------------------------------------
(* Every variable has its type; an interface is at hand wherever the code  *)
(* dereferences one (find returns early without one).                      *)
ManagerTypeOK ==
  /\ Ec2TypeOK
  /\ pc \in Steps
  /\ job \in Job \cup {None}
  /\ eni \in EniIds \cup {None}
  /\ seen \subseteq Addr \cup {None}
  /\ dev \in Nat
  /\ pc # "idle" => job \in Job
  /\ pc \in EniSteps => eni \in EniIds

(* However calls fail, time out or die half way, a pod never has two       *)
(* attached interfaces: the describe by tag at the start of every call is  *)
(* all there is against attaching a second one.                            *)
AtMostOneAttached ==
  \A d, e \in EniIds :
    Attached(d) /\ Attached(e) /\ enis[d].tag = enis[e].tag => d = e

(* DeleteNetworkInterface is only called for an interface EC2 has finished *)
(* detaching (README, CmdDel flow: a delete before detach is an AWS error).*)
DeleteAfterDetach == pc = "delete" => ~Attached(eni)

(* When EnsureInterface returns without error, the interface it returns is *)
(* the pod's own and has every address of the request, on whichever call   *)
(* they were assigned.                                                     *)
EnsureDelivers ==
  pc = "ok" /\ Ensuring =>
    /\ eni \in EniIds
    /\ Live(eni)
    /\ enis[eni].tag = job.pod
    /\ job.ips \subseteq Addresses(eni)

(* What the steps of a call have established, on which the properties      *)
(* above rest: the kind of the request from the first step that depends on *)
(* it; that the pod has no attached interface until the attach call; that  *)
(* the interface at hand is the pod's and has the addresses seen on it;    *)
(* and the addresses assigned so far.                                      *)
CallInv ==
  /\ pc \in {"index", "create", "attach", "modify", "assign4", "assign6"} => Ensuring
  /\ pc \in {"unassign4", "unassign6", "detach", "wait", "delete"} => Releasing
  /\ pc \in {"index", "create", "attach"} => Existing(job.pod) = {}
  /\ pc \in {"attach", "modify", "assign4", "assign6"} \/ (pc = "ok" /\ Ensuring) =>
       /\ eni \in EniIds
       /\ Live(eni)
       /\ enis[eni].tag = job.pod
       /\ seen \subseteq Addresses(eni)
  /\ pc = "assign6" => job.ips \cap V4 \subseteq Addresses(eni)
  /\ pc = "ok" /\ Ensuring => job.ips \subseteq Addresses(eni)

ManagerInv == ManagerTypeOK /\ AtMostOneAttached /\ DeleteAfterDetach /\ CallInv

(* The attachments behave as the slots of EniSlots.                        *)
Held == [p \in Pods |-> Existing(p)]
Slots == INSTANCE EniSlots WITH held <- Held
SlotsSpec == Slots!Spec

(* Every call returns, though a detachment may never complete: the one     *)
(* worker is not lost to it (eni_manager.go:412, the deadline).            *)
CallsReturn == (pc # "idle") ~> (pc = "idle")

(* README, agent: for CmdDel it "unassigns addresses then detaches and     *)
(* deletes the ENI": a successful ReleaseInterface leaves no interface     *)
(* with the pod's tag.                                                     *)
ReleaseDeletes ==
  pc = "ok" /\ Releasing =>
    \A e \in EniIds : enis[e].tag = job.pod => ~Live(e)
==============================================================================
