----------------------------- MODULE CniDelegate -----------------------------
(***************************************************************************)
(* cmd/multus-multivpc-cni: the processes that Multus starts for ADD and   *)
(* DEL, as clients of the agent of module EniAgent.  The runtime makes one *)
(* call at a time for a pod and tears a sandbox down before the next one   *)
(* is made, so one place in the code per pod is enough.                    *)
(*                                                                         *)
(* A pod has one additional interface here, Net with profile Profile; two  *)
(* of them share an ENI (OneEniPerInterface in EniAgent).  The MAC address *)
(* by which the plugin knows an ENI stands for its identifier.             *)
(***************************************************************************)
EXTENDS EniAgent

CONSTANTS
  Net, Profile,
  MaxBoxes       (* bound: sandboxes the runtime makes for a pod *)

ASSUME DelegateAssumption ==
  /\ Net \in Ifaces
  /\ Profile \in Profiles
  /\ MaxBoxes \in Nat

VARIABLES
  at,       (* per pod: the next thing its CNI process does, or "idle" or "up" *)
  box,      (* per pod: its last sandbox, 0 if none                            *)
  master,   (* per pod: the ENI its process found, under its interface if "up" *)
  lease,    (* per sandbox: the address its IPAM plugin holds for it           *)
  cache     (* sandboxes with a file in the cache directory                    *)

cniVars == <<at, box, master, lease, cache>>

AddSteps == {"report", "poll", "host", "plugins", "report2", "cache"}
DelSteps == {"read", "lookup", "delhost", "unplug", "release", "remove"}

Boxes == Pods \X (1 .. MaxBoxes)

Box(p) == <<p, box[p]>>

DelegateInit ==
  /\ at = [p \in Pods |-> "idle"]
  /\ box = [p \in Pods |-> 0]
  /\ master = [p \in Pods |-> None]
  /\ lease = [b \in Boxes |-> None]
  /\ cache = {}

Goto(p, here, next) == at[p] = here /\ at' = [at EXCEPT ![p] = next]

(* cmdAdd returns an error; the runtime answers with a DEL.                *)
Fail(p, here) == Goto(p, here, "read") /\ UNCHANGED <<box, master, lease, cache>>

(* The agent's answer for the pod's interface: an entry with its profile.  *)
Status(p) ==
  {s \in {state[<<p, Net>>]} : s # None /\ s.profile = Profile}

(* A link with the ENI's MAC address exists while it is attached, and may  *)
(* be gone as soon as its detachment has begun.                            *)
LinkThere(p) == Attached(master[p])
LinkGone(p) == enis[master[p]].status # "in-use"

(* The agent is not up, or has no room, or the deadline has passed.        *)
Rejected == QueueFull \/ Faults \cap {"crash", "timeout"} # {}

agentQuiet == UNCHANGED vars
------------------------------------------------------------------------------
(* cmdAdd.  The runtime calls it for a new sandbox.                        *)
StartAdd(p) ==
  /\ Goto(p, "idle", "report")
  /\ box[p] < MaxBoxes
  /\ box' = [box EXCEPT ![p] = @ + 1]
  /\ agentQuiet /\ UNCHANGED <<master, lease, cache>>

BugReportUnchecked(p, here, addresses, next) ==
  /\ Goto(p, here, next)
  /\ \/ ReportInterface(p, Net, Profile, addresses)
     \/ Rejected /\ agentQuiet
  /\ UNCHANGED <<box, master, lease, cache>>

(* callReport: an error and a rejection both end the ADD; the error of an  *)
(* expired deadline may hide that the report was accepted.                 *)
Report(p, here, addresses, next) ==
  \/ /\ Goto(p, here, next)
     /\ ReportInterface(p, Net, Profile, addresses)
     /\ UNCHANGED <<box, master, lease, cache>>
  \/ /\ Fail(p, here)
     /\ \/ Rejected /\ agentQuiet
        \/ "timeout" \in Faults /\ ReportInterface(p, Net, Profile, addresses)

FirstReport(p) == Report(p, "report", {}, "poll")

BugPollIgnoresError(p) ==
  /\ Goto(p, "poll", "host")
  /\ \/ \E s \in Status(p) : master' = [master EXCEPT ![p] = s.eni]
     \/ "timeout" \in Faults /\ UNCHANGED master
  /\ agentQuiet /\ UNCHANGED <<box, lease, cache>>

(* waitForAttachedState: whatever entry the map has is taken, also one     *)
(* that was published before the report.  Without one the deadline ends    *)
(* the wait, at the latest when no job of the interface is left.           *)
PollStatus(p) ==
  \/ /\ Goto(p, "poll", "host")
     /\ \E s \in Status(p) : master' = [master EXCEPT ![p] = s.eni]
     /\ agentQuiet /\ UNCHANGED <<box, lease, cache>>
  \/ /\ Fail(p, "poll") /\ agentQuiet
     /\ "timeout" \in Faults \/ (Settled(<<p, Net>>) /\ Status(p) = {})

WaitForHost(p) ==
  \/ /\ Goto(p, "host", "plugins")
     /\ LinkThere(p)
     /\ agentQuiet /\ UNCHANGED <<box, master, lease, cache>>
  \/ /\ Fail(p, "host") /\ agentQuiet
     /\ LinkGone(p) \/ "timeout" \in Faults

Leased == {lease[b] : b \in Boxes} \ {None}

(* runDelegateChain and collectInterfaceDetails: ipvlan on the master with *)
(* an address from its IPAM.  When a later plugin fails, nobody gives the  *)
(* address back.                                                           *)
RunPlugins(p) ==
  /\ at[p] = "plugins"
  /\ agentQuiet /\ UNCHANGED <<box, master, cache>>
  /\ \/ /\ LinkThere(p)
        /\ \E a \in V4 \ Leased : lease' = [lease EXCEPT ![Box(p)] = a]
        /\ \/ Goto(p, "plugins", "report2")
           \/ "plugin" \in Faults /\ Goto(p, "plugins", "read")
     \/ /\ LinkGone(p) \/ V4 \subseteq Leased \/ "plugin" \in Faults
        /\ Goto(p, "plugins", "read")
        /\ UNCHANGED lease

SecondReport(p) == Report(p, "report2", {lease[Box(p)]}, "cache")

WriteCache(p) ==
  \/ /\ Goto(p, "cache", "up")
     /\ cache' = cache \cup {Box(p)}
     /\ agentQuiet /\ UNCHANGED <<box, master, lease>>
  \/ "plugin" \in Faults /\ Fail(p, "cache") /\ agentQuiet
------------------------------------------------------------------------------
(* cmdDel.  The runtime calls it when a sandbox that is up ends.           *)
StartDel(p) ==
  /\ Goto(p, "up", "read")
  /\ agentQuiet /\ UNCHANGED <<box, master, lease, cache>>

(* No entry, no work.                                                      *)
ReadCache(p) ==
  /\ Goto(p, "read", IF Box(p) \in cache THEN "lookup" ELSE "idle")
  /\ agentQuiet /\ UNCHANGED <<box, master, lease, cache>>

(* The best-effort lookup of the master: up to 5 s for the state ...       *)
LookupStatus(p) ==
  /\ agentQuiet /\ UNCHANGED <<box, lease, cache>>
  /\ \/ /\ Goto(p, "lookup", "delhost")
        /\ \E s \in Status(p) : master' = [master EXCEPT ![p] = s.eni]
     \/ /\ Status(p) = {} \/ "crash" \in Faults
        /\ Goto(p, "lookup", "unplug")
        /\ UNCHANGED master

(* ... then for the link, with the deadline of the whole call.  When that  *)
(* is what ends the wait, the plugins and the release that follow are not  *)
(* made any more: their context has expired.                               *)
LookupHost(p) ==
  /\ \/ Goto(p, "delhost", "unplug") /\ LinkThere(p)
     \/ Goto(p, "delhost", "remove") /\ LinkGone(p)
  /\ agentQuiet /\ UNCHANGED <<box, master, lease, cache>>

(* runDelegateDelChain: a failure is logged.                               *)
Unplug(p) ==
  /\ Goto(p, "unplug", "release")
  /\ \/ lease' = [lease EXCEPT ![Box(p)] = None]
     \/ "plugin" \in Faults /\ UNCHANGED lease
  /\ agentQuiet /\ UNCHANGED <<box, master, cache>>

(* callRelease: a failure or a rejection is logged.                        *)
Release(p) ==
  /\ Goto(p, "release", "remove")
  /\ \/ ReleaseInterface(p, Net, Profile)
     \/ Rejected /\ agentQuiet
  /\ UNCHANGED <<box, master, lease, cache>>

RemoveCache(p) ==
  /\ Goto(p, "remove", "idle")
  /\ cache' = cache \ {Box(p)}
  /\ agentQuiet /\ UNCHANGED <<box, master, lease>>
------------------------------------------------------------------------------
CmdAdd(p) ==
  FirstReport(p) \/ PollStatus(p) \/ WaitForHost(p) \/ RunPlugins(p)
  \/ SecondReport(p) \/ WriteCache(p)

CmdDel(p) ==
  ReadCache(p) \/ LookupStatus(p) \/ LookupHost(p) \/ Unplug(p) \/ Release(p)
  \/ RemoveCache(p)

Plugin(p) == CmdAdd(p) \/ CmdDel(p)

DelegateTypeOK ==
  /\ at \in [Pods -> {"idle", "up"} \cup AddSteps \cup DelSteps]
  /\ box \in [Pods -> 0 .. MaxBoxes]
  /\ master \in [Pods -> EniIds \cup {None}]
  /\ lease \in [Boxes -> V4 \cup {None}]
  /\ cache \subseteq Boxes
  /\ \A p \in Pods : at[p] \in {"host", "plugins", "up", "delhost"} => master[p] # None
==============================================================================
