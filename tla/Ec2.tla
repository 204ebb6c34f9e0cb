--------------------------------- MODULE Ec2 ---------------------------------
(***************************************************************************)
(* EC2 as the ENI manager of pkg/aws sees it.  The service itself is not   *)
(* part of the repository: what it keeps and how it answers is modelled    *)
(* from the twelve calls of the ec2API interface and from what their       *)
(* callers do with the answers.                                            *)
(*                                                                         *)
(* A network interface is a record.  The profile stands for the subnet and *)
(* the security groups it was created with, and its identifier also for    *)
(* its MAC address (EC2 gives each ENI one MAC address for life).          *)
(***************************************************************************)
EXTENDS Naturals

CONSTANTS
  Pods,           (* pod UIDs; the MultusSyncAttachment tag is one of them   *)
  Profiles,       (* keys of networkProfiles                                 *)
  EniIds,         (* every identifier EC2 may hand out (the account's quota) *)
  V4, V6,         (* addresses that IPAM plugins hand out to pods            *)
  MaxInterfaces,  (* interfaces the instance type really supports            *)
  Faults,         (* which things may go wrong: a subset of FaultKinds       *)
  None

(***************************************************************************)
(* error   a call fails and has no effect                                  *)
(* lost    a call takes effect but the caller only sees an error           *)
(* slow    a detachment outlasts the 30 s the manager waits for it         *)
(* foreign the VPC CNI attaches and detaches ENIs of its own               *)
(* crash   the agent process dies and is started again                     *)
(* relist  the watch of the pod informer breaks and a deletion is only     *)
(*         seen as a tombstone by the next relist                          *)
(* timeout the CNI plugin gives up waiting while the agent is still at it  *)
(* plugin  a chained CNI plugin fails, or the cache file is not written    *)
(* force   a pod is deleted from the API before its sandbox is torn down   *)
(***************************************************************************)
FaultKinds == {"error", "lost", "slow", "foreign", "crash", "relist",
               "timeout", "plugin", "force"}

Addr == V4 \cup V6

ASSUME Ec2Assumption ==
  /\ None \notin Pods \cup Profiles \cup EniIds \cup Addr
  /\ V4 \cap V6 = {}
  /\ MaxInterfaces \in Nat
  /\ Faults \subseteq FaultKinds

VARIABLES
  enis,     (* the network interfaces *)
  foreign   (* device indexes taken by interfaces of the VPC CNI *)

ec2Vars == <<enis, foreign>>
------------------------------------------------------------------------------
Eni == [status  : {"none", "available", "in-use", "detaching", "deleted"},
        tag     : Pods \cup {None},
        profile : Profiles \cup {None},
        primary : V4 \cup {None},     \* None: outside the range of the IPAM
        ips     : SUBSET Addr,        \* secondary addresses
        dev     : Nat,
        dot     : BOOLEAN]            \* DeleteOnTermination

NoInterface == [status |-> "none", tag |-> None, profile |-> None,
                primary |-> None, ips |-> {}, dev |-> 0, dot |-> FALSE]

Live(e) == enis[e].status \in {"available", "in-use", "detaching"}

(* The filter attachment.instance-id still matches while EC2 detaches. *)
Attached(e) == enis[e].status \in {"in-use", "detaching"}

Addresses(e) == enis[e].ips \cup {enis[e].primary}

(* Another interface of the subnet of profile f already has address a. *)
Taken(f, e, a) ==
  \E x \in EniIds \ {e} : Live(x) /\ enis[x].profile = f /\ a \in Addresses(x)

UsedIndexes == foreign \cup {enis[e].dev : e \in {x \in EniIds : Attached(x)}}
------------------------------------------------------------------------------
Ec2Init ==
  /\ enis = [e \in EniIds |-> NoInterface]
  /\ foreign = {}

(* Detachment is asynchronous: it ends some time after the call.  Until    *)
(* then the interface keeps its attachment.                                *)
DetachCompletes(e) ==
  /\ enis[e].status = "detaching"
  /\ enis' = [enis EXCEPT ![e].status = "available", ![e].dev = 0]
  /\ UNCHANGED foreign

(* The VPC CNI plugin attaches and detaches interfaces on the same         *)
(* instance, on its own account.                                           *)
ForeignAttach(i) ==
  /\ "foreign" \in Faults
  /\ i \notin UsedIndexes
  /\ foreign' = foreign \cup {i}
  /\ UNCHANGED enis

ForeignDetach(i) ==
  /\ i \in foreign
  /\ foreign' = foreign \ {i}
  /\ UNCHANGED enis

Ec2Step ==
  \/ \E e \in EniIds : DetachCompletes(e)
  \/ \E i \in 1 .. MaxInterfaces - 1 : ForeignAttach(i) \/ ForeignDetach(i)

Ec2TypeOK ==
  /\ enis \in [EniIds -> Eni]
  /\ foreign \subseteq 1 .. MaxInterfaces - 1
==============================================================================
