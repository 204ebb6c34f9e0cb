# Multus Multi-VPC CNI: a formal model

This directory specifies, model-checks and proves properties of the core of
`multus-multivpc-cni`: the ENI manager and the node agent that give Kubernetes
pods additional elastic network interfaces (ENIs) in other VPCs, the CNI plugin
that asks for them, and the controller that taints nodes without agent.

## 1. The system

| Part | Code | State it keeps | Operations |
|---|---|---|---|
| ENI manager | `pkg/aws/eni_manager.go` | none between calls; everything is found again in EC2 by the tag `MultusSyncAttachment=multivpc-<pod UID>` | `EnsureInterface` (find, else create + attach + modify; assign addresses), `ReleaseInterface` (find, unassign, detach, wait, delete) |
| ENI agent | `cmd/multivpc-eni-agent/main.go` | a bounded channel of jobs, a map *pod UID:interface → published state*; both in memory only | gRPC `ReportInterface`, `ReleaseInterface`, `GetStatus`; one worker goroutine; pod hooks |
| Pod watcher | `pkg/kube/pod_watcher.go` | the informer's store | turns informer events into the hooks `OnPodAdd`, `OnPodUpdate`, `OnPodDelete` |
| CNI delegate | `cmd/multus-multivpc-cni/main.go` | one cache file per pod, interface and container | `cmdAdd`, `cmdDel` (one process per call) |
| Taint controller | `cmd/multivpc-taint-controller/main.go`, `pkg/taintcontroller` | none; the node objects of the API server | a polling reconcile loop |
| Network profiles | `pkg/config/config.go` | a table read at start | `Load`, `ResolveProfile` |
| Netns inspection | `pkg/netns` | none | `InspectInterface` |
| Protocol | `proto/syncpb` | none | generated gRPC code |
| Deployment | `charts/`, `Dockerfile`, `.github/` | none | none |

How they interact. Multus starts the CNI delegate for every `ADD` and `DEL`.
The delegate talks to the agent over a Unix socket: a report asks for an ENI,
`GetStatus` is polled until the agent has published one, the `ipvlan` plugin is
run on the host interface with its MAC address, a second report asks for the
addresses the IPAM plugin chose, and a cache file is left for `DEL`. `DEL` reads
the cache file, runs the plugins' `DEL`, asks for a release, and removes the
file. The handlers of the agent only put jobs on a channel; answers say whether
there was room. The worker takes jobs one at a time and makes the AWS calls.
The pod watcher reads the published map when a pod terminates or is deleted
and queues releases of its own. The taint controller only watches whether agent
pods are ready.

What is hard:

* *Partial failure.* An ensure is up to eight AWS calls, a release up to seven.
  Any of them may fail, or take effect without an answer, or never be made
  because the process died. There is no journal: the next call only knows what
  EC2 shows under the pod's tag, and only for ENIs attached to this instance.
* *Interleaving.* Handlers, worker, informer callback, EC2's asynchronous
  detachments, the VPC CNI plugin on the same instance, several CNI processes.
* *Ordering.* Reports and releases of one interface, from two sources, share a
  queue with those of all others.
* *Bounds.* The queue drops what does not fit; device indexes run out.
* *Restart.* Queue and map are lost.

What makes each part correct:

* ENI manager: never two attached ENIs for a pod; no delete before the
  detachment; success means the pod's own ENI with all addresses; every call
  returns.
* Agent: the published map agrees with EC2; the last request counts; a release
  that the watcher asks for is served; the queue is bounded.
* CNI delegate: a pod that is up runs on an ENI that stays; a pod that is gone
  leaves nothing behind; the `DEL`s of a sandbox find the entries of its `ADD`s,
  undo every plugin and release every interface; no plugin loses the one it was
  built on.
* Taint controller: the taint converges to the readiness of the agent and
  nobody else's change of a node is lost.

The hazards, line by line, are in `PROJECT.json`.

## 2. Plan

| # | Module | Role | State |
|---|---|---|---|
| 1 | `Ec2` | EC2 as its callers use it (external) | done |
| 2 | `EniManager` | the manager, one AWS call per step; EXTENDS `Ec2` | done |
| 3 | `EniSlots` | what the manager promises about attachments | done |
| 4 | `EniAgent` | queue, worker, map, handlers, hooks, crash; EXTENDS `EniManager` | done |
| 5 | `CniDelegate` | `cmdAdd` and `cmdDel` as clients of the agent; EXTENDS `EniAgent` | done |
| 6 | `MultiVpcNode` | the node: agent, EC2, CNI processes and the life of pods and sandboxes; EXTENDS `CniDelegate` | done |
| 7 | `TaintController` | the reconcile loops of several replicas on shared node objects | done |
| 8 | `DelegateChain` | the chained plugins: order of `ADD` and `DEL`, `prevResult`, what is reported | done |
| 9 | `CniSandboxes` | the CNI processes of a node on plugins and cache directory: concurrent calls, several interfaces, kills and failures; EXTENDS `DelegateChain` | done |
| 10 | `JobOrder` | what the agent promises to those who send it requests; refined by `EniAgent` | done |
| 11 | `EniManagerProofs`, `EniAgentProofs`, `EniAgreementProofs`, `MultiVpcNodeProofs`, `SandboxEniProofs`, `TaintControllerProofs`, `CniSandboxesProofs`, `CniTeardownProofs` | theorems | done, see section 6 |
| 12 | `JobOrder` | proof that the agent implements it | done, see section 6 |
| 13 | `PodLinks` | what the node promises to a pod; refined by `MultiVpcNode`, with its proof | done |

## 3. Modules

**`Ec2`** (external). An ENI is a record: status, tag, profile (subnet and
security groups), primary address, secondary addresses, device index and
`DeleteOnTermination`. `DetachCompletes` is EC2's asynchronous detachment.
`ForeignAttach` and `ForeignDetach` are the VPC CNI plugin on the same instance.
The constant `Faults` says what may go wrong: `error` (a call fails), `lost` (it
takes effect and still fails for the caller), `slow` (a detachment outlasts the
30 s wait), `foreign`, `crash`, `relist` (an informer misses a deletion), `timeout` (a CNI
process meets its deadline), `plugin` (a chained plugin or the cache file
fails), `force` (a pod is deleted before its sandbox is torn down).

**`EniManager`**. `pc` is the place in the code, `job` the argument, `eni`,
`seen` and `dev` the local variables. One action per AWS call, in the order of
the code, with its early returns:

| Action | Code |
|---|---|
| `Begin` | checks of the profile at the top of `EnsureInterface` |
| `FindExistingInterface` | `findExistingInterface` (tag and `attachment.instance-id`) |
| `NextAvailableDeviceIndex` | `nextAvailableDeviceIndex` |
| `CreateNetworkInterface`, `AttachNetworkInterface`, `ModifyNetworkInterface` | `createAndAttachInterface` |
| `AssignIPAddresses(V4, ..)`, `AssignIPAddresses(V6, ..)` | `assignIPAddresses` |
| `UnassignIPAddresses(V4, ..)`, `UnassignIPAddresses(V6, ..)` | `unassignIPAddresses` |
| `DetachInterface`, `WaitForDetachment`, `DeleteInterface` | `ReleaseInterface` |
| `Return`, `ManagerCrash` | the end of the call |

The SDK's six attempts are one step: only their final outcome is visible.
Describe calls change nothing, so one poll that ends the wait stands for all.

**`EniSlots`**. The abstract specification: each pod has a slot that is filled
with an ENI nobody else holds and emptied before it is filled again.
`EniManager!SlotsSpec` is that specification under the mapping
`held[p] = the attached ENIs tagged with p`.

**`EniAgent`**. `queue` is the channel, `state` the map, `pending` the rest of
the loop of `enqueueReleasesForPod` (a snapshot taken under the lock, used after
it), `phase` what the informer's store last knew of each pod. `failed` and
`intent` are history variables: which pods had a job that failed or was dropped,
and the last accepted job of each interface. Handlers are one step, because they
touch shared state once. The worker is `Dequeue`, the manager's steps, then
`FinishJob`, which publishes. `Crash` loses everything but EC2; the informer of
the next process sees the remaining pods as added.

**`JobOrder`**. The abstract specification of the agent for its callers: per
interface, a sequence of accepted requests and what is shown. Requests of one
interface are served in order, one at a time, at most once, and what is shown is
what the last successful one asked for; between interfaces there is no order.
`EniAgent!ServesInOrder` is that specification under the mapping
`waiting[k] = the job at work and the queued ones for k`, `shown[k] = the profile
and addresses that the map publishes for k`. Of all jobs, the one at work first,
`PlacesOf(k)` are the places of those for k, and `Nth` names them by their rank. A
job that fails leaves the sequence and changes nothing that is shown; a crash empties
everything.

**`CniDelegate`**. The runtime makes one CNI call at a time for a pod, so `at[p]`
is the place in `cmdAdd` or `cmdDel` of pod `p`'s process. `box` counts the
sandboxes of a pod, `master` is the ENI whose MAC address the process got from
`GetStatus`, `lease` the IPAM reservation of a sandbox and `cache` the sandboxes
with a cache file.

| Action | Code |
|---|---|
| `FirstReport`, `SecondReport` | `callReport` before the wait and after the plugins |
| `PollStatus` | `waitForAttachedState`, with `Status` for `GetStatus` |
| `WaitForHost` | `waitForHostInterface` |
| `RunPlugins` | `runDelegateChain`, `collectInterfaceDetails` |
| `WriteCache` | `writeCacheEntry` |
| `ReadCache` | `readCacheEntry` and the early return of `cmdDel` |
| `LookupStatus`, `LookupHost` | the best-effort lookup of the master |
| `Unplug`, `Release`, `RemoveCache` | the rest of `cmdDel` |

Every error of `cmdAdd` leads to `read`: the runtime answers a failed `ADD` with
a `DEL`. `LookupHost` has the one outcome that is easily overlooked: its wait
uses the context of the whole call, so that when the link does not come, what
follows runs on an expired context and only the cache file is removed.

**`MultiVpcNode`**. Here the handlers of `EniAgent` are only called by `cmdAdd`
and `cmdDel`. `api` is the life of a pod at the API server; the informer's `phase`
follows it with any delay. A sandbox is made for a running pod only, and may end
and be replaced while the pod runs. `late` and `clean` are history: the pods of which
a report was on its way when the watcher saw their deletion, and those whose sandbox
was begun when no release of the pod was queued, at work or still detaching
(`NoRelease`).

**`PodLinks`**. The abstract specification of the node for its pods. It adds to the
slots of `EniSlots` the interface that a pod is linked to: a pod is linked to what is
in its slot, and the slot of a linked pod is not emptied. `MultiVpcNode!LinksPods` is
that specification under the mapping `held[p]` as in `EniManager` and `link[p] = the
ENI under the interface of p, if p runs in a sandbox begun without release left`.

**`DelegateChain`**. The plugins of an interface are numbered, `ipvlan` is 0.
`plugged` is what is set up in the network namespace, and outlives the process;
`pos` (how far the call in progress has come), `result` and `told` (what
`collectInterfaceDetails` returns) do not. Of addresses only the families matter:
those of the interface, those that the IPAM plugin lists in its result, and a
link-local one that the kernel adds.

| Operator | Code |
|---|---|
| `PlugNext`, `PrevResult` | one `delegateAdd` of `runDelegateChain` with its `prevResult`; `convertResult` |
| `UnplugNext` | one `delegateDel` of `runDelegateDelChain` |
| `Collect`, `Inspections`, `GlobalOnly` | `collectInterfaceDetails`, `netns.InspectInterface`, `filterIPv6Global` |

**`CniSandboxes`**. The same `cmdAdd` and `cmdDel` as in `CniDelegate`, seen from
the other side: there the agent is detailed and chain and directory are one step
each, here the calls of the agent are one step each, and any of them may fail.
`at[b]` is the place in the code of the process of sandbox `b`, `call[b]` its
interface, `todo[b]` the interfaces whose `DEL` has not returned. `file` says for
each name whether it is missing, created or written. A `DEL` lists the names
(`StartDel`) and reads them one after the other (`ReadFile`), and takes the first
entry of its sandbox, whatever interface it was called for; the plugins are then
called for the interface of the call, the release is made for that of the entry.
Sandboxes are named by the first twelve characters of their container ID, which
is all that the code compares.

| Action | Code |
|---|---|
| `StartAdd`, `Plug`, `Report` | `cmdAdd` from `runDelegateChain` to the second report |
| `CreateFile`, `FillFile` | `writeCacheEntry`: `os.WriteFile` is not atomic |
| `AddFails` | any error return of `cmdAdd`, or its death; nothing is undone |
| `StartDel`, `ReadFile`, `NoEntry` | `readCacheEntry` and the early returns of `cmdDel` |
| `Unplug`, `UnplugFails` | `runDelegateDelChain`; its error is logged |
| `DeadlinePasses` | the context of the `DEL` ends: neither plugins nor agent are called any more |
| `Release`, `ReleaseFails` | `callRelease`, accepted or not made; its error is logged |
| `RemoveFile`, `Return` | the rest of `cmdDel` |
| `Kill` | the death of a `DEL` at any of its steps |
| `Up`, `Stop` | the runtime |

`mishap` is history and says what went wrong in the calls of a sandbox: `add` (an
`ADD` failed), `plugin` (the `DEL` of a plugin failed or was not called), `repeat` (a `DEL` died after
it had removed its entry, so that the runtime repeats a call that was done),
`crossed` (another sandbox's `DEL` removed a file that a scan had still to read).
`released` and `missed` are history too: the interfaces whose release the agent
accepted, and those whose release was due but could not be made, because the deadline
had passed, the agent was down or its queue full. `cmdDel` removes the entry all the
same, so that nothing repeats the release. `DoneIsReleased` and `DoneIsUnplugged`
except what they must, by these names: a release that failed excuses its own
interface only, and is no excuse for a plugin that is left.

**`TaintController`**. Per replica: `at` (the next API call), `map` (the readiness
map of the round), `todo` (nodes still to be synced), `copy` (the object between
`Get` and `Update`) and `tries`. Instead of resource versions a copy has a flag
that any other write of the node clears; an update with an outdated copy is a
conflict. A node's taints are a set of three: the configured one, one with the
same key and effect but another value (next to which the API server refuses the
configured one), and any other. `moved` and `steady` are history: the nodes whose agent
changed since a replica's list, and the replicas in a round that was not disturbed and
began when every other replica in a round had a right list.

`MCEniManager`, `MCEniAgent` and `MCMultiVpcNode` add the symmetry sets for TLC;
`MCTaintController` and `MCCniSandboxes` add nothing, because their runs check
liveness.

## 4. What is checked

| Run | Instance | What it shows |
|---|---|---|
| `manager_safety` | 2 pods, 2 ENIs, profiles f1 (good) and f2 (refused), one IPv4 and one IPv6 address, 3 interfaces on the instance but 4 by the default limit, all faults | `ManagerTypeOK`, `AtMostOneAttached`, `DeleteAfterDetach`, `EnsureDelivers`, and the refinement of `EniSlots` |
| `manager_release_deletes` | calls may fail | *violated*: a successful release may leave an ENI behind |
| `agent_safety` | 1 pod, queue of 2, 2 ENIs, 1 address; failing calls, crashes, missed deletions | the map agrees with EC2, the last accepted job wins, the manager is used as specified |
| `agent_liveness` | 1 pod with 2 interfaces, queue of 2, 1 ENI, slow detachments | what the watcher found is released, unless a job failed or was dropped; every AWS call of the worker returns; the agent implements `JobOrder` |
| `agent_shared_eni` | 1 pod with 2 interfaces, no fault | *violated*: two interfaces are published on one ENI |
| `node_safety` | 1 pod, 2 sandboxes, queue of 2, 2 ENIs, 1 address; crashes, slow detachments, deadlines, failing plugins, forced deletions | a pod's first sandbox keeps its ENI, and so does a later one that was begun with no release left; a pod that is up gets its address; the watcher releases what a `DEL` could not; the node implements `PodLinks` |
| `node_stale_master` | 2 sandboxes, queue of 3, 2 addresses, no fault | *violated*: a pod's second sandbox comes up on an ENI that is about to be deleted |
| `node_gone_leaves` | 1 sandbox, no fault | *violated*: a pod deleted while it comes up leaves an ENI behind |
| `node_lease` | 1 sandbox, no fault | *violated*: a `DEL` that races the watcher's release keeps the pod's address reserved |
| `sandbox_calls` | 2 sandboxes with 2 interfaces, `ipvlan` and one post delegate, one failure or kill at any step | plugins stay stacked; reports are complete; running sandboxes keep entries and plugins; the `DEL`s of a sandbox release and unplug all its interfaces, except for releases that fail and after the mishaps named; every `DEL` gets through, unless a torn entry is in the way |
| `taint_rounds` | 2 replicas, 1 node, 2 attempts, 4 disturbances | nobody's change of a node is lost, every write follows the agent, one undisturbed round of a replica leaves every node right, the taint converges |
| `taint_watch_only` | 1 replica, `watchOnlyTainted` | *violated*: a removed taint is brought back |

Why the bounds are enough. The manager treats pods independently except for
addresses and device indexes, for which two pods and two ENIs compete; a second
ENI per pod is what a wrong lookup would create. `MaxInterfaces = 3` leaves two
indexes, which two pods and the VPC CNI fight for, and `DefaultMax = 4` offers
one that the instance does not have. A queue of two holds a release and a report
of one interface in either order, and is full while the hook of a pod with two
interfaces still has releases to queue.

A node has one pod in these runs: pods only meet in the queue, on addresses and
on device indexes, which the other runs cover, and a second one multiplies the
states by some thousands. Two sandboxes are what it takes to meet the remains of
an earlier one, with and without a release of it left; a queue of two and the worker
hold the two reports of an `ADD` behind a release. One address is the hard case: the
second sandbox gets the one whose release from the ENI may still be on its way. `node_safety`
was also run with AWS calls that take effect but fail, and with two addresses
and a queue of three but no slow detachment; both take too long to repeat every time.
The runs of `MultiVpcNode` switch deadlock detection off: when the pod
is gone there is nothing left to do.

`sandbox_calls` has two sandboxes with two interfaces: the smallest directory in
which a scan passes over a file, takes the wrong one of its own, or meets one
that is half written or gone. Two plugins are the shortest chain in which the
order matters; one failure can hit any step of any call, and what it leaves is met
by all the calls that follow. The safety properties were also run with two
failures, and with one sandbox, three interfaces, four plugins and three failures;
the proofs have no bound at all. The exceptions in `DoneIsReleased` and
`DoneIsUnplugged` are disagreements with the README ("no-op if missing", line
124): a `DEL` may be a no-op though its entry is there, because a file of another
sandbox vanished under its scan, and a repeated `DEL` is not a no-op but uses up
the entry of another interface.

In `WatcherReleasesRest` the exceptions are a report that is still on its way when
the deletion is seen (`late`; the run `node_gone_leaves` shows what it does) and
jobs that failed or were dropped (`failed`): what is left, such as a release that
`cmdDel` could not make or that met a full queue, is made up for.

`taint_rounds` has one node: a replica syncs one node at a time, so other nodes
only delay it, and delay is what interleaving gives anyway. Four disturbances
(a write by somebody else, a node added or removed, an agent that changes, a call
that fails, a replica that restarts) allow two conflicts in a row, which use up
both attempts, with an agent that changes and a failing list in between. Without
that bound nothing would ever converge, in the model or in a cluster.

The violated properties are the repository's own words (README lines 16, 120,
124 and 132, and the comment on `watchOnlyTainted` in `values.yaml`);
`PROJECT.json` quotes them under "findings". Three of them have one cause in
common: a report, a release of the watcher and a release of `cmdDel` carry no
sandbox, so the agent cannot tell which of them overtook which.

## 5. Assumptions

* *Fairness.* `FairSpec` of the agent: the worker is scheduled and every AWS call
  returns, since the SDK gives up after six attempts and the wait for a
  detachment has a deadline; the informer's callback never blocks, since
  `enqueueJob` has a default case. Nothing is assumed of callers, pods, EC2's
  detachments or the VPC CNI. With `slow` absent from `Faults` the wait ends only
  with the detachment, so the liveness run includes it. `FairSpec` of the taint
  controller: each replica goes on, since its loop waits for nothing but a ticker
  and answers of the API server, and an error only ends the round. `FairSpec` of the
  sandboxes: CNI processes run to their end, since every wait in them has a
  deadline, and the runtime goes on with its calls and repeats a `DEL` that failed.
  Nothing is assumed of failures and kills, nor that a sandbox ever ends.
* *EC2.* Describe calls show the effect of all earlier calls, and no call takes
  effect after the process that made it has been replaced by a new one. Profiles
  are different subnets. An address is unique in its subnet.
* *Pods.* UIDs are never reused. Events of one informer are handled one after
  the other.
* *CNI.* The runtime makes one call at a time for a pod, answers a failed `ADD`
  with a `DEL`, and does not make a sandbox before the last one's `DEL` returned.
  A host link exists while its ENI is attached and may be gone once the
  detachment has begun. A wait for a link that is gone lasts until its deadline,
  with whatever order of the other processes' steps. The calls of a sandbox are an
  `ADD` per interface, then a `DEL` per interface, one after the other.
* *Plugins.* A post delegate passes on the result that it is handed. A plugin that
  fails has set up nothing, and the `DEL` of one that is not set up succeeds.
* *API server.* It refuses an update with an outdated resource version, and two
  taints with the same key and effect.
* *One call at a time.* `Manager` is used by one goroutine; this is proved of
  the agent (`AgentDrivesManager`).

## 6. What is proved

All proofs are for any sets of pods, ENIs, profiles and addresses, any limits
and any combination of faults, from the named assumptions on the constants
(`Ec2Assumption`, `ManagerAssumption`, `AgentAssumption`, `TaintAssumption`,
`ChainAssumption`, `SandboxAssumption`).

`EniManagerProofs`. The inductive invariant is `ManagerInv`: types,
`AtMostOneAttached`, `DeleteAfterDetach` and `CallInv`. `AtMostOneAttached` is not
inductive alone: the attach call must know that the lookup at the start of the
call found nothing and that nothing was attached since, which is the third part
of `CallInv`. The lemma `OnlyAttachAttaches` carries most of the argument: in
every step but the attach call, what is attached was attached before, for the
same pod. From the invariant follow `OneAttachmentPerPod`,
`NoDeleteWhileAttached`, `EnsureKeepsItsWord` and `ManagerImplementsSlots` (the
attach call fills the slot of its pod, a completed detachment empties it, no
other step changes an attachment).

`EniAgentProofs`. `AgentInv` joins the agent's types with `ManagerInv`: the map
only gets an entry with an ENI because a successful ensure has one at hand.
`AgentDrivesManager` shows that the agent implements `ManagerSpec`, so that all
of the above holds in it. `LastJobCounts` proves `LastJobWins` with `IntentInv`:
the last accepted job of an interface is the last of its jobs on the queue, or
the one in progress when none is queued, or else the map shows what it asked for.
`AgentServesInOrder` proves that the agent implements `JobOrder`, for every length of
the queue. The argument is about ranks: a job that is accepted goes behind all
others, which leaves the ranks of its own interface's jobs and of all others alone
(`NthOfAppended`); a job that ends was the first of all, hence the first of its
interface, and the ranks of that interface move up by one and no others
(`NthOfTail`). Taking a job off the queue only moves it from the front of the queue
into the worker's hands and is a stutter, as are all steps of the manager.

`EniAgreementProofs` proves `StateAgreesWithEc2` (`MapAgreesWithEc2`) under the
assumption that pods have one interface; with two, `agent_shared_eni` shows what
happens. `AgreeInv` says of each pod without a failed job that map and EC2 agree or,
while the worker is at work on it, how far the call has come (`Progress`): nothing
of the pod is left in EC2, or only the interface at hand, in use and deleted with
the instance once the steps for that are done. The frame (`OthersUntouched`) is
that a call touches only interfaces of its own pod, for which `HandInv` keeps the
tag of the one at hand. EC2's detachments are harmless because they only complete
where one was asked for: what is published is in use. In the lookup the agreement
is used in the other direction: the filter on the attachment misses nothing,
because all that the pod has is attached.

`MultiVpcNodeProofs`. A step of the node is a step of the agent or none
(`NodeRunsAgent`; a second report always has an address to report), so that
everything above holds on a node. `NodeInv` adds what the processes have at hand and
`WatchInv`: the informer does not run ahead of the API server and so releases
nothing of a pod that runs. From it, `AddressArrives` proves `UpHasItsAddress`: the
last accepted job of a pod that is up is its second report (`AddressInv`), by
`LastJobWins` the map shows it, and by `StateAgreesWithEc2` so does EC2. A crash
cannot forget that job without counting the pod as failed, because a job that was
served has left an ENI (`ServedIsForgotten`). `WatcherMakesUp` proves
`WatcherReleasesRest`: what is published for a deleted pod waits for its release
(`GoneInv`), until the map and with it EC2 has nothing. It assumes that no deletion
is only seen by a relist, because `DeleteFunc` does not handle the tombstone that
such a deletion comes as. Both assume pods with one interface.

`SandboxEniProofs` proves, for any number of interfaces, that a release left over is
all that can take its ENI from a running pod. `CleanInv` says of a pod in a sandbox
begun without one (`Protected`): none has come since (`NoRelease`), the ENI that its
process took from the map is the pod's own (`MapTagged`: only a successful ensure
publishes), and from the moment the process sees the link the ENI is in use. An entry
that an earlier, failed release left in the map may name an ENI that is gone; it does no
harm, because its link is never seen. `ProtectedBefore` shows that a pod only becomes
protected by a sandbox that begins so, `UndisturbedStep` that no step disturbs it.
`CleanSandboxIsSafe` follows, and `FirstSandboxIsSafe`, because the first sandbox of a
pod always begins so (`FirstIsClean`). `NodeLinksPods` proves the refinement of
`PodLinks`: a step changes links or slots but not both (`LinkStep`), slots change as
the manager promises (`SlotsStep`), and the slot of a linked pod cannot be emptied,
because its ENI would still be there after the step (`CleanIsHeld`). The run
`node_stale_master` shows that the condition is needed.

`TaintControllerProofs`, for any number of replicas, nodes, attempts and
disturbances. The inductive invariant `TaintInv` says what a replica holds: its
copy differs from the node in nothing but the taint as long as it is fresh
(`CopyOK`), and its map is right about every node whose agent did not change since
the list (`MapOK`). `WritesFreshCopy` shows that a replica's step only ever
writes a node from such a copy; `OthersAreKept` and `WritesFollowAgents` follow.
`UndisturbedRoundSettles` is the safety core of convergence: `SteadyOK`, the third
part of the invariant, says that in an undisturbed round all lists are right, and so
is every node that the replica is through with and every node whose copy it holds was
overtaken. A conflict can then only come from a replica that has just put the node
right, so a sync that is given up after its last attempt loses nothing. That rounds
end, and that disturbances do, is left to the liveness run.

`CniSandboxesProofs`, for any number of sandboxes, interfaces (finite) and post
delegates and any failures. The inductive invariant `SandboxInv` joins the types
and `NothingHangs` with `ChainInv` (where the chain of the call in progress is: the
plugins below `pos` are set up on the way up, none at or above it on the way
down) and `FileInv` (a sandbox that is being made or is up: an interface without
file has no plugins, one with a full file has all, only the call in progress has
a partial one). `OthersUntouched` is the frame: a process touches nothing of
another sandbox; with it each step is only looked at for its own sandbox.

`CniTeardownProofs` proves `DoneIsReleased` and `DoneIsUnplugged`. Neither is inductive:
since a `DEL` takes any entry of its sandbox, nothing says which interface is
released when. What is invariant is a count: a sandbox never has more entries than
`DEL`s to come (`CountInv`), and exactly as many as long as nothing went wrong, so
that no scan ends without entry; with no `DEL` left no entry is left. `ReleaseInv`
(an entry goes only after a release that was made, or could not be) and `UnpluggedInv` (a `DEL` that returns has
undone the chain of its own interface) give the rest. `crossed` is needed for the
count: `Crossing` shows that a file in a scan only vanishes with that mark.

Only model-checked: the liveness properties (`CallsReturn`, `WatchedReleaseServed`,
`DelsGetThrough`, `ReadyNodesCleared`, `UnreadyNodesTainted`), which need fairness
and `ENABLED` and so are beyond the prover.

## 7. Not modelled

YAML and JSON parsing, the choice of the profile from configuration, annotations
and arguments (`resolveNetworkProfile`: a fixed order of four sources, no state),
gRPC transport, metrics and logging, the informer's list and watch, the kernel's
network devices, the Helm chart and CI. Of the CNI delegate: the characters of the
names of cache files, the names and masters that `configureDelegate` gives to the
delegates, and `cmdCheck`. A pod with several secondary interfaces meets the agent in
`agent_liveness` and `agent_shared_eni`, and plugins and directory in
`sandbox_calls`; in `MultiVpcNode` it has one.
