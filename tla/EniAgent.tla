------------------------------ MODULE EniAgent -------------------------------
(***************************************************************************)
(* cmd/multivpc-eni-agent: the gRPC handlers and the pod informer's hooks  *)
(* put jobs on a bounded queue, one worker goroutine takes them off and    *)
(* calls the ENI manager, and publishes the outcome in a map that          *)
(* GetStatus and the informer's hooks read.                                *)
(*                                                                         *)
(* Four kinds of goroutines interleave: gRPC handlers (one atomic step     *)
(* each: a handler touches shared state once), the worker (the steps of    *)
(* EniManager, then one step that publishes), the informer's callback      *)
(* (a snapshot of the map, then one step per job it queues), and EC2.      *)
(* The process may die at any moment; queue and map are only in memory.    *)
(***************************************************************************)
EXTENDS EniManager, Sequences, FiniteSets

CONSTANT QueueSize    (* --queue-size *)

Entry == [eni : EniIds, ips : SUBSET Addr, profile : Profiles]

ASSUME AgentAssumption ==
  /\ QueueSize \in Nat \ {0}
  /\ None \notin Entry \cup Job    \* an absent entry is not an entry

VARIABLES
  queue,     (* the channel of jobs                                          *)
  state,     (* agentServer.state                                            *)
  pending,   (* releases the informer's callback has still to queue          *)
  phase,     (* what the informer's store last knew of each pod              *)
  failed,    (* history: pods some job or hook of which went wrong           *)
  intent     (* history: the last job accepted for each interface            *)

agentVars == <<queue, state, pending, phase, failed, intent>>
vars == <<enis, foreign, pc, job, eni, seen, dev,
          queue, state, pending, phase, failed, intent>>
------------------------------------------------------------------------------
Keys == Pods \X Ifaces        (* stateKey: pod UID and interface name *)

KeyOf(j) == <<j.pod, j.iface>>

Nothing == [k \in Keys |-> None]

Init ==
  /\ ManagerInit
  /\ queue = <<>>
  /\ state = Nothing
  /\ pending = {}
  /\ phase = [p \in Pods |-> "unseen"]
  /\ failed = {}
  /\ intent = Nothing

BugEnqueueUnbounded(j) ==
  /\ queue' = Append(queue, j)
  /\ intent' = [intent EXCEPT ![KeyOf(j)] = j]

BugEnqueueFirst(j) ==
  /\ Len(queue) < QueueSize
  /\ queue' = <<j>> \o queue
  /\ intent' = [intent EXCEPT ![KeyOf(j)] = j]

(* enqueueJob: a select with a default, which never blocks.                *)
Enqueue(j) ==
  /\ Len(queue) < QueueSize
  /\ queue' = Append(queue, j)
  /\ intent' = [intent EXCEPT ![KeyOf(j)] = j]

QueueFull == Len(queue) = QueueSize
------------------------------------------------------------------------------
(* gRPC handlers.  A request for another node or for an unknown profile is *)
(* answered with an error, one that meets a full queue with accepted =     *)
(* false; neither leaves a trace in the agent.                             *)
ReportInterface(p, i, f, a) ==
  /\ Enqueue(EnsureJob(p, i, f, a))
  /\ UNCHANGED <<managerVars, state, pending, phase, failed>>

ReleaseInterface(p, i, f) ==
  /\ Enqueue(ReleaseJob(p, i, f))
  /\ UNCHANGED <<managerVars, state, pending, phase, failed>>
------------------------------------------------------------------------------
(* enqueueReleasesForPod takes a copy of the pod's published interfaces,   *)
(* then queues a release for each, in any order.  Meanwhile the worker and *)
(* the handlers go on; the callback handles no other event.                *)
SnapshotForPod(p) ==
  {ReleaseJob(p, i, state[<<p, i>>].profile) :
     i \in {x \in Ifaces : state[<<p, x>>] # None}}

Hook(p, to, releases) ==
  /\ pending = {}
  /\ pending' = releases
  /\ phase' = [phase EXCEPT ![p] = to]
  /\ UNCHANGED <<managerVars, queue, state, failed, intent>>

BugOnPodAdd(p) ==
  /\ phase[p] = "unseen"
  /\ \E to \in {"running", "terminating"} : Hook(p, to, SnapshotForPod(p))

OnPodAdd(p) ==
  /\ phase[p] = "unseen"
  /\ \/ Hook(p, "running", {})
     \/ Hook(p, "terminating", SnapshotForPod(p))

BugOnPodUpdate(p) ==
  /\ phase[p] = "running"
  /\ \E to \in {"running", "terminating"} : Hook(p, to, SnapshotForPod(p))

OnPodUpdate(p) ==
  /\ phase[p] = "running"
  /\ Hook(p, "terminating", SnapshotForPod(p))

BugOnPodDelete(p) ==
  /\ phase[p] \in {"running", "terminating"}
  /\ Hook(p, "gone", {})

(* A deletion found by a relist comes as a DeletedFinalStateUnknown, which *)
(* DeleteFunc does not handle.                                             *)
OnPodDelete(p) ==
  /\ phase[p] \in {"running", "terminating"}
  /\ \/ Hook(p, "gone", SnapshotForPod(p))
     \/ "relist" \in Faults /\ Hook(p, "gone", {})

BugHookReturnsEarly(j) ==
  /\ j \in pending
  /\ pending' = {}
  /\ \/ Enqueue(j) /\ UNCHANGED failed
     \/ /\ QueueFull
        /\ failed' = failed \cup {j.pod}
        /\ UNCHANGED <<queue, intent>>
  /\ UNCHANGED <<managerVars, state, phase>>

QueueRelease(j) ==
  /\ j \in pending
  /\ pending' = pending \ {j}
  /\ \/ Enqueue(j) /\ UNCHANGED failed
     \/ /\ QueueFull
        /\ failed' = failed \cup {j.pod}
        /\ UNCHANGED <<queue, intent>>
  /\ UNCHANGED <<managerVars, state, phase>>
------------------------------------------------------------------------------
BugDequeueBusy ==
  /\ queue # <<>>
  /\ queue' = Tail(queue)
  /\ job' = Head(queue)
  /\ pc' = "find"
  /\ UNCHANGED <<ec2Vars, eni, seen, dev, state, pending, phase, failed, intent>>

BugDequeueNewest ==
  /\ queue # <<>>
  /\ Begin(queue[Len(queue)])
  /\ queue' = SubSeq(queue, 1, Len(queue) - 1)
  /\ UNCHANGED <<state, pending, phase, failed, intent>>

(* The worker takes the next job and calls the manager. *)
Dequeue ==
  /\ queue # <<>>
  /\ Begin(Head(queue))
  /\ queue' = Tail(queue)
  /\ UNCHANGED <<state, pending, phase, failed, intent>>

(* updateState and deleteState: only a job without error changes the map.  *)
Outcome ==
  IF pc = "err" THEN state
  ELSE [state EXCEPT ![KeyOf(job)] =
          IF job.kind = "ensure"
          THEN [eni |-> eni, ips |-> job.ips, profile |-> job.profile]
          ELSE None]

(* handleJob after the manager's return.  A failed job is logged, counted  *)
(* and forgotten; nobody retries it.                                       *)
FinishJob ==
  /\ Return
  /\ state' = Outcome
  /\ failed' = IF pc = "err" THEN failed \cup {job.pod} ELSE failed
  /\ UNCHANGED <<queue, pending, phase, intent>>

WorkerCall == CallStep /\ UNCHANGED agentVars

(* Pods with a job that is lost, or an interface that is no longer known   *)
(* to anyone but EC2, when the process dies now.                           *)
Forgotten ==
  {p \in Pods : \/ pc # "idle" /\ job.pod = p
                \/ \E n \in 1 .. Len(queue) : queue[n].pod = p
                \/ \E e \in EniIds : Live(e) /\ enis[e].tag = p}

(* The process dies, with the queue, the map and the call in progress, and *)
(* starts again.  The new informer lists the pods that are still there:    *)
(* all but those that go away meanwhile.                                   *)
Crash ==
  /\ ManagerCrash
  /\ queue' = <<>>
  /\ state' = Nothing
  /\ pending' = {}
  /\ \E away \in SUBSET Pods :
       phase' = [p \in Pods |->
                   IF phase[p] = "gone" \/ p \in away THEN "gone" ELSE "unseen"]
  /\ failed' = failed \cup Forgotten
  /\ intent' = Nothing
------------------------------------------------------------------------------
Handlers ==
  \E p \in Pods, i \in Ifaces, f \in Profiles :
    \/ ReleaseInterface(p, i, f)
    \/ \E a \in SUBSET Addr : ReportInterface(p, i, f, a)

Hooks == \E p \in Pods : OnPodAdd(p) \/ OnPodUpdate(p) \/ OnPodDelete(p)

Callback == \E j \in pending : QueueRelease(j)

Worker == Dequeue \/ WorkerCall \/ FinishJob

Environment == Ec2Step /\ UNCHANGED <<callVars, agentVars>>

Next == Handlers \/ Hooks \/ Callback \/ Worker \/ Crash \/ Environment

Spec == Init /\ [][Next]_vars

(* The worker and the informer's callback are goroutines that never block: *)
(* the queue does not, and every AWS call returns, because the SDK gives   *)
(* up after six attempts and the wait for a detachment after 30 s.         *)
(* Callers, pods and EC2 owe the agent nothing.                            *)
FairSpec == Spec /\ WF_vars(Worker) /\ WF_vars(Callback)
------------------------------------------------------------------------------
TypeOK ==
  /\ ManagerTypeOK
  /\ queue \in Seq(Job)
  /\ Len(queue) <= QueueSize
  /\ state \in [Keys -> Entry \cup {None}]
  /\ pending \subseteq Job
  /\ phase \in [Pods -> {"unseen", "running", "terminating", "gone"}]
  /\ failed \subseteq Pods
  /\ intent \in [Keys -> Job \cup {None}]

Busy(p) == pc # "idle" /\ job.pod = p

Published(p) == {state[<<p, i>>] : i \in Ifaces} \ {None}

(* For pods with one interface: unless some job of the pod failed, the map *)
(* and EC2 agree whenever the worker is not at work on the pod.  EC2 has   *)
(* no interface for the pod but the published one, and that one is         *)
(* attached, is deleted with the instance and has the published addresses. *)
StateAgreesWithEc2 ==
  \A p \in Pods \ failed : ~Busy(p) =>
    /\ {e \in EniIds : Live(e) /\ enis[e].tag = p} = {s.eni : s \in Published(p)}
    /\ \A s \in Published(p) :
         /\ enis[s.eni].status = "in-use"
         /\ enis[s.eni].dot
         /\ s.ips \subseteq Addresses(s.eni)

Settled(k) ==
  /\ \A n \in 1 .. Len(queue) : KeyOf(queue[n]) # k
  /\ pc # "idle" => KeyOf(job) # k

(* The last job the agent accepted for an interface is the one that        *)
(* counts, in whatever order handlers and hooks interleave: once no job of *)
(* the interface is left, the map shows what that one asked for, unless a  *)
(* job of the pod failed.                                                  *)
LastJobWins ==
  \A k \in Keys :
    k[1] \notin failed /\ intent[k] # None /\ Settled(k) =>
      IF intent[k].kind = "release" THEN state[k] = None
      ELSE /\ state[k] # None
           /\ state[k].ips = intent[k].ips
           /\ state[k].profile = intent[k].profile

(* The agent drives the manager as EniManager says: one call at a time.    *)
DrivesManager == ManagerSpec

Wish(j) == IF j.kind = "ensure" THEN [ips |-> j.ips, profile |-> j.profile] ELSE None

(* What the worker has still to do, the job at hand first. *)
Jobs == (IF pc = "idle" THEN <<>> ELSE <<job>>) \o queue

PlacesOf(k) == {n \in 1 .. Len(Jobs) : KeyOf(Jobs[n]) = k}

UpTo(S, m) == {i \in S : i <= m}

Nth(S, n) == CHOOSE m \in S : Cardinality(UpTo(S, m)) = n

WaitingFor(k) ==
  [n \in 1 .. Cardinality(PlacesOf(k)) |-> Wish(Jobs[Nth(PlacesOf(k), n)])]

WaitList == [k \in Keys |-> WaitingFor(k)]

Shown == [k \in Keys |-> IF state[k] = None THEN None
                         ELSE [ips |-> state[k].ips, profile |-> state[k].profile]]

Order == INSTANCE JobOrder WITH
  Wishes <- [ips : SUBSET Addr, profile : Profiles] \cup {None},
  waiting <- WaitList,
  shown <- Shown

(* Though all interfaces and both sources of requests share one queue and  *)
(* one worker, each interface is served as JobOrder says: in the order of  *)
(* acceptance, at most once, and nothing is published that the request at  *)
(* the head did not ask for.                                               *)
ServesInOrder == Order!Spec

(* README, agent: "a Pod watcher also enqueues releases when Pods          *)
(* terminate".  An interface that the watcher finds published when its pod *)
(* ends is released, unless a job of the pod failed or met a full queue.   *)
WatchedReleaseServed ==
  \A k \in Keys :
    (\E j \in pending : KeyOf(j) = k) ~> (state[k] = None \/ k[1] \in failed)

(* README: pods join several networks "by attaching additional ENIs as     *)
(* required (not limited to a single secondary ENI)": two interfaces never *)
(* share one.                                                              *)
OneEniPerInterface ==
  \A k, l \in Keys :
    state[k] # None /\ state[l] # None /\ state[k].eni = state[l].eni => k = l
==============================================================================
