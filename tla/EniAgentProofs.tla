---------------------------- MODULE EniAgentProofs -----------------------------
(***************************************************************************)
(* Proofs about the node agent, for any number of pods and interfaces, any *)
(* queue size and any combination of faults.                               *)
(***************************************************************************)
EXTENDS EniAgent, EniManagerProofs, FiniteSetTheorems

AgentInv == TypeOK /\ ManagerInv

LEMMA JobsTyped ==
  ASSUME NEW p \in Pods, NEW i \in Ifaces, NEW f \in Profiles, NEW a \in SUBSET Addr
  PROVE  EnsureJob(p, i, f, a) \in Job /\ ReleaseJob(p, i, f) \in Job
  BY DEF EnsureJob, ReleaseJob, Job

(* Queueing a job keeps the queue within its size.                         *)
LEMMA EnqueueTyped ==
  ASSUME TypeOK, NEW j \in Job, Enqueue(j)
  PROVE  /\ queue' \in Seq(Job) /\ Len(queue') <= QueueSize
         /\ intent' \in [Keys -> Job \cup {None}]
<1>1. KeyOf(j) \in Keys
  BY DEF KeyOf, Keys, Job
<1>2. QED
  BY <1>1, AgentAssumption DEF TypeOK, Enqueue

(* The initial state of the agent satisfies its invariant.                 *)
LEMMA AgentInitInv == Init => AgentInv
<1> SUFFICES ASSUME Init PROVE AgentInv
  OBVIOUS
<1>1. ManagerTypeOK /\ ManagerInv
  BY ManagerInitTyped
     DEF Init, ManagerInit, Ec2Init, ManagerInv, AtMostOneAttached, DeleteAfterDetach, CallInv,
         Attached, NoInterface
<1>2. QED
  BY <1>1, AgentAssumption DEF Init, AgentInv, TypeOK, Nothing

(* Whatever the agent does, the manager takes one of its own steps or none. *)
LEMMA AgentStepDrivesManager ==
  ASSUME TypeOK, [Next]_vars
  PROVE  [ManagerNext]_managerVars
<1>1. ASSUME Dequeue PROVE ManagerNext
  <2>1. Head(queue) \in Job
    BY <1>1 DEF Dequeue, TypeOK
  <2>2. QED
    BY <1>1, <2>1 DEF Dequeue, ManagerNext
<1>2. ASSUME FinishJob \/ WorkerCall \/ Crash \/ Environment PROVE ManagerNext
  BY <1>2 DEF FinishJob, WorkerCall, Crash, Environment, ManagerNext
<1>3. CASE UNCHANGED managerVars
  BY <1>3
<1>4. QED
  BY <1>1, <1>2, <1>3
     DEF Next, vars, managerVars, Handlers, ReportInterface, ReleaseInterface, Hooks, OnPodAdd,
         OnPodUpdate, OnPodDelete, Hook, Callback, QueueRelease, Worker

(* Every step of the agent keeps the types of its queue and its map.       *)
LEMMA AgentTypeStep ==
  ASSUME AgentInv, ManagerTypeOK', [Next]_vars
  PROVE  TypeOK'
<1> USE DEF AgentInv
<1>1. ASSUME NEW p \in Pods, NEW i \in Ifaces, NEW f \in Profiles, NEW a \in SUBSET Addr,
             ReportInterface(p, i, f, a) \/ ReleaseInterface(p, i, f)
      PROVE  TypeOK'
  BY <1>1, JobsTyped, EnqueueTyped DEF ReportInterface, ReleaseInterface, TypeOK
<1>2. ASSUME NEW p \in Pods, NEW to \in {"running", "terminating", "gone"},
             NEW releases \in {{}, SnapshotForPod(p)}, Hook(p, to, releases)
      PROVE  TypeOK'
  <2>1. SnapshotForPod(p) \subseteq Job
    <3>1. ASSUME NEW i \in Ifaces, state[<<p, i>>] # None
          PROVE  ReleaseJob(p, i, state[<<p, i>>].profile) \in Job
      BY <3>1, JobsTyped DEF TypeOK, Keys, Entry
    <3>2. QED
      BY <3>1 DEF SnapshotForPod
  <2>2. QED
    BY <1>2, <2>1 DEF Hook, TypeOK
<1>3. ASSUME NEW j \in pending, QueueRelease(j) PROVE TypeOK'
  <2>1. j \in Job
    BY DEF TypeOK
  <2>2. failed' \subseteq Pods
    BY <1>3, <2>1 DEF QueueRelease, TypeOK, Job
  <2>3. /\ queue' \in Seq(Job) /\ Len(queue') <= QueueSize
        /\ intent' \in [Keys -> Job \cup {None}]
    BY <1>3, <2>1, EnqueueTyped DEF QueueRelease, TypeOK
  <2>4. QED
    BY <1>3, <2>2, <2>3 DEF QueueRelease, TypeOK
<1>4. CASE Dequeue
  BY <1>4, AgentAssumption DEF Dequeue, TypeOK
<1>5. CASE FinishJob
  <2>1. job \in Job /\ pc \in {"ok", "err"}
    BY <1>5 DEF FinishJob, Return, TypeOK, ManagerTypeOK
  <2>2. failed' \subseteq Pods
    BY <1>5, <2>1 DEF FinishJob, TypeOK, Job
  <2>3. pc = "ok" /\ job.kind = "ensure" => eni \in EniIds
    BY DEF ManagerInv, CallInv, Ensuring
  <2>4. Outcome \in [Keys -> Entry \cup {None}]
    BY <2>1, <2>3 DEF Outcome, TypeOK, Entry, Job, KeyOf, Keys
  <2>5. QED
    BY <1>5, <2>2, <2>4 DEF FinishJob, TypeOK
<1>6. CASE Crash
  <2>1. Forgotten \subseteq Pods
    BY DEF Forgotten
  <2>2. QED
    BY <1>6, <2>1, AgentAssumption DEF Crash, TypeOK, Nothing
<1>7. CASE UNCHANGED agentVars
  BY <1>7 DEF agentVars, TypeOK
<1>8. QED
  BY <1>1, <1>2, <1>3, <1>4, <1>5, <1>6, <1>7
     DEF Next, vars, Handlers, Hooks, OnPodAdd, OnPodUpdate, OnPodDelete, Callback, Worker,
         WorkerCall, Environment, agentVars

LEMMA AgentInvStep ==
  ASSUME AgentInv, [Next]_vars
  PROVE  AgentInv'
<1>1. [ManagerNext]_managerVars
  BY AgentStepDrivesManager DEF AgentInv
<1>2. ManagerInv'
  BY <1>1, ManagerTypeStep, AtMostOneStep, DeleteAfterDetachStep, CallInvStep
     DEF AgentInv, ManagerInv
<1>3. QED
  BY <1>2, AgentTypeStep DEF AgentInv, ManagerInv

(* The inductive invariant of the agent: its own types, and the invariant  *)
(* of the manager it drives.                                               *)
THEOREM AgentInvariant == Spec => []AgentInv
<1>1. AgentInv /\ [Next]_vars => AgentInv'
  BY AgentInvStep
<1>2. QED
  BY AgentInitInv, <1>1, PTL DEF Spec

(* The queue never grows past its size, and everything on it, in the map   *)
(* or still to be released is well formed.                                 *)
THEOREM AgentTypeCorrect == Spec => []TypeOK
<1>1. AgentInv => TypeOK
  BY DEF AgentInv
<1>2. QED
  BY <1>1, AgentInvariant, PTL

(* The agent uses the manager as its specification says, one call at a     *)
(* time, so that what is proved of the manager holds in the agent.         *)
THEOREM AgentDrivesManager == Spec => DrivesManager
<1>1. Init => ManagerInit
  BY DEF Init
<1>2. AgentInv /\ [Next]_vars => [ManagerNext]_managerVars
  BY AgentStepDrivesManager DEF AgentInv
<1>3. QED
  BY <1>1, <1>2, AgentInvariant, PTL DEF Spec, DrivesManager, ManagerSpec
------------------------------------------------------------------------------
(* The last accepted job of an interface is the last one on the queue, or, *)
(* when none is left there, the one in progress.                           *)
Waiting(k) == {n \in 1 .. Len(queue) : KeyOf(queue[n]) = k}

LastQueued(k) ==
  \A n \in Waiting(k) : (\A m \in Waiting(k) : m <= n) => queue[n] = intent[k]

LastRunning(k) ==
  Waiting(k) = {} /\ pc # "idle" /\ KeyOf(job) = k => job = intent[k]

Fulfilled(k) ==
  IF intent[k].kind = "release" THEN state[k] = None
  ELSE /\ state[k] # None
       /\ state[k].ips = intent[k].ips
       /\ state[k].profile = intent[k].profile

IntentInv ==
  \A k \in Keys : intent[k] # None =>
    /\ LastQueued(k)
    /\ LastRunning(k)
    /\ Settled(k) /\ k[1] \notin failed => Fulfilled(k)

LEMMA SettledIsEmpty ==
  ASSUME NEW k PROVE Settled(k) <=> Waiting(k) = {} /\ (pc # "idle" => KeyOf(job) # k)
  BY DEF Settled, Waiting

(* A job that is queued becomes the last one of its interface and of no    *)
(* other.                                                                  *)
LEMMA EnqueueKeepsIntent ==
  ASSUME AgentInv, IntentInv, NEW j \in Job, Enqueue(j), failed \subseteq failed',
         UNCHANGED <<pc, job, state>>
  PROVE  IntentInv'
<1> USE DEF AgentInv, TypeOK
<1> SUFFICES ASSUME NEW k \in Keys, intent'[k] # None
             PROVE  /\ LastQueued(k)'
                    /\ LastRunning(k)'
                    /\ Settled(k)' /\ k[1] \notin failed' => Fulfilled(k)'
  BY DEF IntentInv
<1>1. /\ queue' = Append(queue, j)
      /\ Len(queue') = Len(queue) + 1
      /\ queue'[Len(queue) + 1] = j
      /\ \A n \in 1 .. Len(queue) : queue'[n] = queue[n]
      /\ KeyOf(j) \in Keys
  BY DEF Enqueue, KeyOf, Job, Keys
<1>2. CASE k = KeyOf(j)
  <2>1. intent'[k] = j
    BY <1>1, <1>2 DEF Enqueue
  <2>2. Len(queue) + 1 \in Waiting(k)'
    BY <1>1, <1>2 DEF Waiting, KeyOf
  <2>3. \A n \in Waiting(k)' : n <= Len(queue) + 1
    BY <1>1 DEF Waiting
  <2>4. LastQueued(k)'
    <3>1. ASSUME NEW n \in Waiting(k)', \A m \in Waiting(k)' : m <= n
          PROVE  queue'[n] = intent'[k]
      <4>1. n = Len(queue) + 1
        BY <2>2, <2>3, <3>1 DEF Waiting
      <4>2. QED
        BY <1>1, <2>1, <4>1
    <3>2. QED
      BY <3>1 DEF LastQueued
  <2>5. QED
    BY <2>2, <2>4 DEF LastRunning, Settled, Waiting
<1>3. CASE k # KeyOf(j)
  <2>1. intent'[k] = intent[k]
    BY <1>3 DEF Enqueue
  <2>2. Waiting(k)' = Waiting(k)
    BY <1>1, <1>3 DEF Waiting, KeyOf
  <2>3. Settled(k)' => Settled(k)
    BY <2>2, SettledIsEmpty DEF Settled, Waiting
  <2>4. QED
    BY <1>1, <2>1, <2>2, <2>3 DEF IntentInv, LastQueued, LastRunning, Fulfilled, Waiting
<1>4. QED
  BY <1>2, <1>3

(* The job that is taken off the queue is the first one, so an interface   *)
(* none of whose jobs is left behind it is served with its last.           *)
LEMMA DequeueKeepsIntent ==
  ASSUME AgentInv, IntentInv, Dequeue
  PROVE  IntentInv'
<1> USE DEF AgentInv, TypeOK
<1> SUFFICES ASSUME NEW k \in Keys, intent[k] # None
             PROVE  /\ LastQueued(k)'
                    /\ LastRunning(k)'
                    /\ Settled(k)' /\ k[1] \notin failed => Fulfilled(k)'
  BY DEF IntentInv, Dequeue
<1>1. /\ queue # <<>> /\ queue' = Tail(queue) /\ job' = queue[1]
      /\ pc = "idle" /\ pc' # "idle"
      /\ intent' = intent /\ state' = state
  BY DEF Dequeue, Begin
<1>2. /\ Len(queue') = Len(queue) - 1
      /\ \A n \in 1 .. Len(queue') : n + 1 \in 1 .. Len(queue) /\ queue'[n] = queue[n + 1]
      /\ 1 \in 1 .. Len(queue)
  BY <1>1
<1>3. \A n \in Waiting(k)' : n + 1 \in Waiting(k)
  BY <1>2 DEF Waiting, KeyOf
<1>4. \A n \in Waiting(k) : n = 1 \/ n - 1 \in Waiting(k)'
  BY <1>2 DEF Waiting, KeyOf
<1>5. LastQueued(k)'
  <2>1. ASSUME NEW n \in Waiting(k)', \A m \in Waiting(k)' : m <= n
        PROVE  queue'[n] = intent[k]
    <3>1. n \in 1 .. Len(queue') /\ n + 1 \in Waiting(k)
      BY <1>3 DEF Waiting
    <3>2. ASSUME NEW m \in Waiting(k) PROVE m <= n + 1
      BY <1>4, <2>1, <3>1 DEF Waiting
    <3>3. QED
      BY <1>2, <3>1, <3>2 DEF IntentInv, LastQueued
  <2>2. QED
    BY <1>1, <2>1 DEF LastQueued
<1>6. LastRunning(k)'
  <2>1. ASSUME Waiting(k)' = {}, KeyOf(queue[1]) = k PROVE queue[1] = intent[k]
    <3>1. 1 \in Waiting(k) /\ \A m \in Waiting(k) : m <= 1
      BY <1>2, <1>4, <2>1 DEF Waiting
    <3>2. QED
      BY <3>1 DEF IntentInv, LastQueued
  <2>2. QED
    BY <1>1, <2>1 DEF LastRunning, KeyOf
<1>7. ASSUME Settled(k)', k[1] \notin failed PROVE Fulfilled(k)'
  <2>1. Waiting(k)' = {} /\ KeyOf(queue[1]) # k
    BY <1>1, <1>7 DEF Settled, Waiting, KeyOf
  <2>2. Waiting(k) = {}
    BY <1>4, <2>1 DEF Waiting
  <2>3. Settled(k)
    BY <1>1, <2>2, SettledIsEmpty
  <2>4. QED
    BY <1>1, <1>7, <2>3 DEF IntentInv, Fulfilled
<1>8. QED
  BY <1>5, <1>6, <1>7 DEF Dequeue

(* A job that ends without error and is the last of its interface leaves   *)
(* the map as it asked.                                                    *)
LEMMA FinishKeepsIntent ==
  ASSUME AgentInv, IntentInv, FinishJob
  PROVE  IntentInv'
<1> USE DEF AgentInv, TypeOK
<1>1. /\ pc \in {"ok", "err"} /\ pc' = "idle" /\ job \in Job
      /\ queue' = queue /\ intent' = intent /\ state' = Outcome
      /\ failed \subseteq failed' /\ (pc = "err" => job.pod \in failed')
  BY DEF FinishJob, Return, Reset, ManagerTypeOK
<1>2. KeyOf(job) \in Keys /\ KeyOf(job)[1] = job.pod
  BY <1>1 DEF KeyOf, Keys, Job
<1> SUFFICES ASSUME NEW k \in Keys, intent[k] # None
             PROVE  /\ LastQueued(k)'
                    /\ LastRunning(k)'
                    /\ Settled(k)' /\ k[1] \notin failed' => Fulfilled(k)'
  BY <1>1 DEF IntentInv
<1>3. Waiting(k)' = Waiting(k)
  BY <1>1 DEF Waiting, KeyOf
<1>4. LastQueued(k)' /\ LastRunning(k)'
  BY <1>1, <1>3 DEF IntentInv, LastQueued, LastRunning
<1>5. ASSUME Settled(k)', k[1] \notin failed' PROVE Fulfilled(k)'
  <2>1. Waiting(k) = {}
    BY <1>3, <1>5 DEF Settled, Waiting
  <2>2. CASE KeyOf(job) = k
    <3>1. intent[k] = job /\ pc = "ok"
      BY <1>1, <1>2, <1>5, <2>1, <2>2 DEF IntentInv, LastRunning
    <3>2. state' = [state EXCEPT ![k] =
                      IF job.kind = "ensure"
                      THEN [eni |-> eni, ips |-> job.ips, profile |-> job.profile]
                      ELSE None]
      BY <1>1, <2>2, <3>1 DEF Outcome
    <3>3. \/ job.kind = "release"
          \/ /\ job.kind = "ensure"
             /\ [eni |-> eni, ips |-> job.ips, profile |-> job.profile] # None
      <4>1. job.kind = "ensure" => eni \in EniIds
        BY <1>1, <3>1 DEF ManagerInv, CallInv, Ensuring
      <4>2. job.kind = "ensure"
              => [eni |-> eni, ips |-> job.ips, profile |-> job.profile] \in Entry
        BY <1>1, <4>1 DEF Entry, Job
      <4>3. QED
        BY <1>1, <4>2, AgentAssumption DEF Job
    <3>4. QED
      BY <1>1, <3>1, <3>2, <3>3 DEF Fulfilled
  <2>3. CASE KeyOf(job) # k
    <3>1. Settled(k)
      BY <2>1, <2>3, SettledIsEmpty
    <3>2. state'[k] = state[k]
      BY <1>1, <1>2, <2>3 DEF Outcome
    <3>3. QED
      BY <1>1, <1>5, <3>1, <3>2 DEF IntentInv, Fulfilled
  <2>4. QED
    BY <2>2, <2>3
<1>6. QED
  BY <1>4, <1>5

(* However handlers, hooks and the worker interleave, and through crashes, *)
(* the last accepted job of an interface decides what the map shows, unless *)
(* a job of its pod failed.                                                *)
THEOREM LastJobCounts == Spec => []LastJobWins
<1>1. Init => IntentInv
  BY DEF Init, Nothing, IntentInv
<1>2. AgentInv /\ IntentInv /\ [Next]_vars => IntentInv'
  <2> SUFFICES ASSUME AgentInv, IntentInv, [Next]_vars PROVE IntentInv'
    OBVIOUS
  <2>1. ASSUME NEW p \in Pods, NEW i \in Ifaces, NEW f \in Profiles, NEW a \in SUBSET Addr,
               ReportInterface(p, i, f, a) \/ ReleaseInterface(p, i, f)
        PROVE  IntentInv'
    <3>1. PICK j \in Job : Enqueue(j)
      BY <2>1, JobsTyped DEF ReportInterface, ReleaseInterface
    <3>2. QED
      BY <2>1, <3>1, EnqueueKeepsIntent DEF ReportInterface, ReleaseInterface, managerVars
  <2>2. ASSUME NEW j \in pending, QueueRelease(j) PROVE IntentInv'
    <3>1. j \in Job
      BY DEF AgentInv, TypeOK
    <3>2. CASE Enqueue(j)
      BY <2>2, <3>1, <3>2, EnqueueKeepsIntent DEF QueueRelease, managerVars
    <3>3. CASE UNCHANGED <<queue, intent>>
      BY <2>2, <3>3 DEF QueueRelease, managerVars, IntentInv, LastQueued, LastRunning, Settled,
         Fulfilled, Waiting
    <3>4. QED
      BY <2>2, <3>2, <3>3 DEF QueueRelease
  <2>3. CASE WorkerCall
    <3>1. pc # "idle" /\ pc' # "idle" /\ job' = job
      BY <2>3 DEF WorkerCall, CallStep, FindExistingInterface, EnsureStep,
         NextAvailableDeviceIndex, CreateNetworkInterface, AttachNetworkInterface,
         ModifyNetworkInterface, AssignIPAddresses, ReleaseStep, UnassignIPAddresses,
         DetachInterface, WaitForDetachment, DeleteInterface, Invoke
    <3>2. QED
      BY <2>3, <3>1 DEF WorkerCall, agentVars, IntentInv, LastQueued, LastRunning, Settled,
         Fulfilled, Waiting
  <2>4. CASE Crash
    BY <2>4 DEF Crash, Nothing, IntentInv
  <2>5. CASE UNCHANGED <<pc, job, queue, intent, state, failed>>
    BY <2>5 DEF IntentInv, LastQueued, LastRunning, Settled, Fulfilled, Waiting
  <2>6. QED
    BY <2>1, <2>2, <2>3, <2>4, <2>5, DequeueKeepsIntent, FinishKeepsIntent
       DEF Next, vars, Handlers, Hooks, OnPodAdd, OnPodUpdate, OnPodDelete, Hook, Callback,
           Worker, Environment, managerVars, callVars, agentVars
<1>3. IntentInv => LastJobWins
  BY DEF IntentInv, LastJobWins, Fulfilled
<1>4. QED
  BY <1>1, <1>2, <1>3, AgentInvariant, PTL DEF Spec
------------------------------------------------------------------------------
(***************************************************************************)
(* What follows shows that each interface is served as JobOrder says.  The *)
(* jobs of an interface are found by their ranks among all that wait, so   *)
(* first some facts about ranks.                                           *)
(***************************************************************************)
(* The places of a queue at which something holds.                         *)
LEMMA PlacesFinite ==
  ASSUME NEW N \in Nat, NEW S \in SUBSET (1 .. N)
  PROVE  IsFiniteSet(S) /\ S \in SUBSET Nat /\ Cardinality(S) \in Nat
<1>1. IsFiniteSet(1 .. N)
  BY FS_Interval
<1>2. IsFiniteSet(S)
  BY <1>1, FS_Subset
<1>3. \A i \in 1 .. N : i \in Nat
  OBVIOUS
<1>4. QED
  BY <1>2, <1>3, FS_CardinalityType

(* The rank of a place among others is a number.                           *)
LEMMA UpToFinite ==
  ASSUME NEW S \in SUBSET Nat, IsFiniteSet(S), NEW m
  PROVE  /\ IsFiniteSet(UpTo(S, m))
         /\ Cardinality(UpTo(S, m)) \in Nat
         /\ Cardinality(UpTo(S, m)) <= Cardinality(S)
         /\ Cardinality(S) \in Nat
         /\ m \in S => Cardinality(UpTo(S, m)) >= 1
<1>1. UpTo(S, m) \subseteq S
  BY DEF UpTo
<1>2. IsFiniteSet(UpTo(S, m)) /\ Cardinality(UpTo(S, m)) <= Cardinality(S)
  BY <1>1, FS_Subset
<1>3. Cardinality(UpTo(S, m)) \in Nat /\ Cardinality(S) \in Nat
  BY <1>2, FS_CardinalityType
<1>4. m \in S => UpTo(S, m) # {}
  BY DEF UpTo
<1>5. m \in S => Cardinality(UpTo(S, m)) # 0
  BY <1>2, <1>4, FS_EmptySet
<1>6. QED
  BY <1>2, <1>3, <1>5

(* A later place has a higher rank.                                        *)
LEMMA RankGrows ==
  ASSUME NEW S \in SUBSET Nat, IsFiniteSet(S), NEW l \in S, NEW m \in S, l < m
  PROVE  Cardinality(UpTo(S, l)) < Cardinality(UpTo(S, m))
<1>1. UpTo(S, l) \in SUBSET UpTo(S, m)
  <2>1. \A i \in S : i \in Nat
    OBVIOUS
  <2>2. \A i \in UpTo(S, l) : i \in UpTo(S, m)
    BY <2>1 DEF UpTo
  <2>3. QED
    BY <2>2
<1>2. UpTo(S, l) # UpTo(S, m)
  <2>1. m \in UpTo(S, m) /\ m \notin UpTo(S, l)
    BY DEF UpTo
  <2>2. QED
    BY <2>1
<1>3. IsFiniteSet(UpTo(S, m))
  BY UpToFinite
<1>4. /\ Cardinality(UpTo(S, l)) <= Cardinality(UpTo(S, m))
      /\ Cardinality(UpTo(S, l)) # Cardinality(UpTo(S, m))
  BY <1>1, <1>2, <1>3, FS_Subset
<1>5. Cardinality(UpTo(S, l)) \in Nat /\ Cardinality(UpTo(S, m)) \in Nat
  BY UpToFinite
<1>6. QED
  BY <1>4, <1>5

(* A place is found by its rank.                                           *)
LEMMA NthOfRank ==
  ASSUME NEW S \in SUBSET Nat, IsFiniteSet(S), NEW m \in S
  PROVE  Nth(S, Cardinality(UpTo(S, m))) = m
<1>1. ASSUME NEW l \in S, l # m PROVE Cardinality(UpTo(S, l)) # Cardinality(UpTo(S, m))
  <2>1. l < m \/ m < l
    BY <1>1
  <2>2. Cardinality(UpTo(S, l)) \in Nat /\ Cardinality(UpTo(S, m)) \in Nat
    BY UpToFinite
  <2>3. QED
    BY <2>1, <2>2, RankGrows
<1>2. QED
  BY <1>1 DEF Nth

(* Every rank is that of some place.                                       *)
LEMMA NthExists ==
  ASSUME NEW S \in SUBSET Nat, IsFiniteSet(S), NEW n \in 1 .. Cardinality(S)
  PROVE  Nth(S, n) \in S /\ Cardinality(UpTo(S, Nth(S, n))) = n
<1> DEFINE rank == [m \in S |-> Cardinality(UpTo(S, m))]
           places == 1 .. Cardinality(S)
<1>1. Cardinality(S) \in Nat
  BY FS_CardinalityType
<1>2. IsFiniteSet(places) /\ Cardinality(places) = Cardinality(S)
  BY <1>1, FS_Interval
<1>3. rank \in Injection(S, places)
  <2>1. rank \in [S -> places]
    BY UpToFinite, <1>1
  <2>2. ASSUME NEW l \in S, NEW m \in S, rank[l] = rank[m] PROVE l = m
    BY <2>2, NthOfRank
  <2>3. QED
    BY <2>1, <2>2 DEF Injection, IsInjective
<1>4. rank \in Surjection(S, places)
  BY <1>2, <1>3, FS_Injection
<1>5. PICK m \in S : rank[m] = n
  BY <1>4 DEF Surjection
<1>6. QED
  BY <1>5, NthOfRank

(* A place at the end leaves the ranks of the others alone.                *)
LEMMA NthOfAppended ==
  ASSUME NEW N \in Nat, NEW S \in SUBSET (1 .. N), NEW T, T = S \cup {N + 1}
  PROVE  /\ Cardinality(S) \in Nat
         /\ Cardinality(T) = Cardinality(S) + 1
         /\ \A n \in 1 .. Cardinality(S) : Nth(S, n) \in S /\ Nth(T, n) = Nth(S, n)
         /\ Nth(T, Cardinality(T)) = N + 1
<1>1. /\ \A i \in S : i \in Nat /\ i <= N
      /\ \A i : i \in T <=> i \in S \/ i = N + 1
  OBVIOUS
<1>2. IsFiniteSet(S) /\ S \in SUBSET Nat /\ T \in SUBSET Nat
  <2>1. N + 1 \in Nat
    OBVIOUS
  <2>2. QED
    BY <1>1, <2>1, PlacesFinite
<1>3. Cardinality(S) \in Nat
  BY PlacesFinite
<1>4. IsFiniteSet(T) /\ Cardinality(T) = Cardinality(S) + 1
  BY <1>2, FS_AddElement
<1>5. ASSUME NEW n \in 1 .. Cardinality(S) PROVE Nth(S, n) \in S /\ Nth(T, n) = Nth(S, n)
  <2>1. Nth(S, n) \in S /\ Cardinality(UpTo(S, Nth(S, n))) = n
    BY <1>2, NthExists
  <2> DEFINE m == Nth(S, n)
  <2> HIDE DEF m
  <2>2. m \in S /\ m \in T /\ Cardinality(UpTo(S, m)) = n
    BY <1>1, <2>1 DEF m
  <2>3. \A i : i \in UpTo(T, m) <=> i \in UpTo(S, m)
    BY <1>1, <2>2 DEF UpTo
  <2>4. UpTo(T, m) = UpTo(S, m)
    BY <2>3
  <2>5. Nth(T, n) = m
    BY <1>2, <1>4, <2>2, <2>4, NthOfRank
  <2>6. QED
    BY <2>2, <2>5 DEF m
<1>6. Nth(T, Cardinality(T)) = N + 1
  <2>1. \A i : i \in UpTo(T, N + 1) <=> i \in T
    <3>1. \A i \in T : i <= N + 1
      BY <1>1
    <3>2. QED
      BY <3>1 DEF UpTo
  <2>2. UpTo(T, N + 1) = T
    BY <2>1
  <2>3. QED
    BY <1>1, <1>2, <1>4, <2>2, NthOfRank
<1>7. QED
  BY <1>3, <1>4, <1>5, <1>6

(* The places one further than A.                                         *)
Shifted(A) == {i + 1 : i \in A}

(* As many places remain when all move one further.                        *)
LEMMA ShiftKeepsSize ==
  ASSUME NEW A \in SUBSET Nat, IsFiniteSet(A)
  PROVE  IsFiniteSet(Shifted(A)) /\ Cardinality(Shifted(A)) = Cardinality(A)
<1> DEFINE f == [i \in A |-> i + 1]
<1>1. \A i \in A : i \in Nat /\ i + 1 \in Shifted(A)
  BY DEF Shifted
<1>2. f \in Injection(A, Shifted(A))
  BY <1>1 DEF Injection, IsInjective
<1>3. f \in Surjection(A, Shifted(A))
  BY <1>1 DEF Surjection, Shifted
<1>4. QED
  BY <1>2, <1>3, FS_Bijection DEF Bijection, ExistsBijection

(* T are the places S after the first place of the queue, which may be one *)
(* of S, went.                                                             *)
MovedUp(N, S, T) ==
  /\ S \in SUBSET (1 .. N) /\ T \in SUBSET (1 .. N)
  /\ \A i \in 1 .. N : i \in T <=> i + 1 \in S

(* 1 if the place that goes is one of S.                                   *)
Ahead(S) == IF 1 \in S THEN 1 ELSE 0

(* When the first place of the queue goes, all others move one down; the   *)
(* ranks only change if it was one of them.                                *)
LEMMA NthOfTail ==
  ASSUME NEW N \in Nat, NEW S, NEW T, MovedUp(N, S, T)
  PROVE  /\ Cardinality(T) \in Nat
         /\ Cardinality(S) = Cardinality(T) + Ahead(S)
         /\ \A n \in 1 .. Cardinality(T) :
              Nth(T, n) \in T /\ Nth(S, n + Ahead(S)) = Nth(T, n) + 1
         /\ Ahead(S) = 1 => Nth(S, 1) = 1
<1> DEFINE c == Ahead(S)
<1>1. /\ S \in SUBSET (1 .. N) /\ T \in SUBSET (1 .. N)
      /\ \A i \in 1 .. N : i \in T <=> i + 1 \in S
      /\ c \in {0, 1} /\ (c = 1 <=> 1 \in S)
  BY DEF MovedUp, Ahead
<1> HIDE DEF c
<1>2. /\ IsFiniteSet(S) /\ S \in SUBSET Nat
      /\ IsFiniteSet(T) /\ T \in SUBSET Nat
  BY <1>1, PlacesFinite
<1>3. Cardinality(T) \in Nat
  BY <1>1, PlacesFinite
<1>4. ASSUME NEW A \in SUBSET T, NEW B \in SUBSET S, \A i \in B : i = 1 \/ i - 1 \in A,
             \A i \in A : i + 1 \in B, 1 \in S => 1 \in B
      PROVE  Cardinality(B) = Cardinality(A) + c
  <2>1. \A i \in Shifted(A) : i \in B
    BY <1>4 DEF Shifted
  <2>2. \A i \in B : i # 1 => i \in Shifted(A)
    <3>1. \A i \in B : i \in Int /\ (i - 1) + 1 = i
      BY <1>1
    <3>2. QED
      BY <1>4, <3>1 DEF Shifted
  <2>3. IsFiniteSet(A) /\ A \in SUBSET Nat /\ Cardinality(A) \in Nat
    BY <1>2, FS_Subset, FS_CardinalityType
  <2>4. IsFiniteSet(Shifted(A)) /\ Cardinality(Shifted(A)) = Cardinality(A)
    BY <2>3, ShiftKeepsSize
  <2>5. 1 \notin Shifted(A)
    <3>1. \A i \in A : i \in 1 .. N
      BY <1>1
    <3>2. \A i \in A : i + 1 # 1
      BY <3>1
    <3>3. QED
      BY <3>2 DEF Shifted
  <2>6. CASE c = 1
    <3>1. B = Shifted(A) \cup {1}
      BY <1>1, <1>4, <2>1, <2>2, <2>6
    <3>2. QED
      BY <2>4, <2>5, <2>6, <3>1, FS_AddElement
  <2>7. CASE c = 0
    <3>1. \A i \in B : i # 1
      BY <1>1, <2>7
    <3>2. B = Shifted(A)
      BY <2>1, <2>2, <3>1
    <3>3. QED
      BY <2>3, <2>4, <2>7, <3>2
  <2>8. QED
    BY <1>1, <2>6, <2>7
<1>5. Cardinality(S) = Cardinality(T) + c
  <2>1. (\A i \in S : i = 1 \/ i - 1 \in T) /\ (\A i \in T : i + 1 \in S)
    <3>1. \A i \in S : i = 1 \/ (i - 1 \in 1 .. N /\ (i - 1) + 1 = i)
      BY <1>1
    <3>2. QED
      BY <1>1, <3>1
  <2>2. QED
    BY <1>4, <2>1
<1>6. ASSUME NEW n \in 1 .. Cardinality(T)
      PROVE  Nth(T, n) \in T /\ Nth(S, n + c) = Nth(T, n) + 1
  <2> DEFINE m == Nth(T, n)
  <2>1. m \in T /\ Cardinality(UpTo(T, m)) = n
    BY <1>2, NthExists
  <2>2. m \in 1 .. N /\ m + 1 \in S
    BY <1>1, <2>1
  <2> HIDE DEF m
  <2>3. /\ UpTo(T, m) \in SUBSET T /\ UpTo(S, m + 1) \in SUBSET S
        /\ \A i \in UpTo(S, m + 1) : i = 1 \/ i - 1 \in UpTo(T, m)
        /\ \A i \in UpTo(T, m) : i + 1 \in UpTo(S, m + 1)
        /\ 1 \in S => 1 \in UpTo(S, m + 1)
    <3>1. \A i \in S : i = 1 \/ (i - 1 \in T /\ (i <= m + 1 => i - 1 <= m))
      <4>1. \A i \in S : i = 1 \/ (i - 1 \in 1 .. N /\ (i - 1) + 1 = i)
        BY <1>1
      <4>2. QED
        BY <1>1, <2>2, <4>1
    <3>2. \A i \in T : i + 1 \in S /\ (i <= m => i + 1 <= m + 1)
      BY <1>1, <2>2
    <3>3. 1 <= m + 1
      BY <2>2
    <3>4. QED
      BY <3>1, <3>2, <3>3 DEF UpTo
  <2>4. Cardinality(UpTo(S, m + 1)) = n + c
    BY <1>4, <2>1, <2>3
  <2>5. Nth(S, n + c) = m + 1
    BY <1>2, <2>2, <2>4, NthOfRank
  <2>6. QED
    BY <2>1, <2>5 DEF m
<1>7. c = 1 => Nth(S, 1) = 1
  <2>1. \A i \in S : i <= 1 <=> i = 1
    BY <1>1
  <2>2. 1 \in S => \A i : i \in UpTo(S, 1) <=> i = 1
    BY <2>1 DEF UpTo
  <2>3. 1 \in S => UpTo(S, 1) = {1}
    BY <2>2
  <2>4. QED
    BY <1>1, <1>2, <2>2, <2>3, NthOfRank, FS_Singleton
<1>8. QED
  BY <1>3, <1>5, <1>6, <1>7 DEF c
------------------------------------------------------------------------------
(* All that can be asked for, as JobOrder is given it in EniAgent.         *)
Wishes == [ips : SUBSET Addr, profile : Profiles] \cup {None}

(* A job at the end of the queue waits as the last one of its interface.   *)
LEMMA WaitsAppended ==
  ASSUME Jobs \in Seq(Job), NEW j \in Job, Jobs' = Append(Jobs, j), NEW k
  PROVE  WaitingFor(k)' = IF k = KeyOf(j) THEN Append(WaitingFor(k), Wish(j)) ELSE WaitingFor(k)
<1> DEFINE N == Len(Jobs)
           S == PlacesOf(k)
           T == PlacesOf(k)'
<1>1. /\ N \in Nat
      /\ Len(Jobs') = N + 1 /\ Jobs'[N + 1] = j
      /\ \A n \in 1 .. N : Jobs'[n] = Jobs[n]
  OBVIOUS
<1>2. S \in SUBSET (1 .. N)
  BY DEF PlacesOf
<1>3. CASE k = KeyOf(j)
  <2>1. T = S \cup {N + 1}
    BY <1>1, <1>3 DEF PlacesOf, KeyOf
  <2>2. /\ Cardinality(S) \in Nat
        /\ Cardinality(T) = Cardinality(S) + 1
        /\ \A n \in 1 .. Cardinality(S) : Nth(S, n) \in S /\ Nth(T, n) = Nth(S, n)
        /\ Nth(T, Cardinality(T)) = N + 1
    BY <1>1, <1>2, <2>1, NthOfAppended
  <2> HIDE DEF S, T
  <2>3. WaitingFor(k)' = [n \in 1 .. Cardinality(S) + 1 |->
                            IF n = Cardinality(S) + 1 THEN Wish(j) ELSE Wish(Jobs[Nth(S, n)])]
    <3>1. WaitingFor(k)' = [n \in 1 .. Cardinality(T) |-> Wish(Jobs'[Nth(T, n)])]
      BY DEF WaitingFor, Wish, T
    <3>2. ASSUME NEW n \in 1 .. Cardinality(T)
          PROVE  Jobs'[Nth(T, n)] = IF n = Cardinality(S) + 1 THEN j ELSE Jobs[Nth(S, n)]
      <4>1. CASE n = Cardinality(T)
        BY <1>1, <2>2, <4>1
      <4>2. CASE n # Cardinality(T)
        <5>1. n \in 1 .. Cardinality(S)
          BY <2>2, <4>2
        <5>2. Nth(S, n) \in 1 .. N /\ Nth(T, n) = Nth(S, n)
          BY <1>2, <2>2, <5>1
        <5>3. QED
          BY <1>1, <2>2, <4>2, <5>2
      <4>3. QED
        BY <4>1, <4>2
    <3>3. QED
      BY <2>2, <3>1, <3>2
  <2>4. WaitingFor(k) = [n \in 1 .. Cardinality(S) |-> Wish(Jobs[Nth(S, n)])]
    BY DEF WaitingFor, S
  <2>5. QED
    BY <1>3, <2>2, <2>3, <2>4
<1>4. CASE k # KeyOf(j)
  <2>1. T = S
    BY <1>1, <1>4 DEF PlacesOf, KeyOf
  <2>2. IsFiniteSet(S) /\ S \in SUBSET Nat
    BY <1>1, <1>2, PlacesFinite
  <2>3. \A n \in 1 .. Cardinality(S) : Nth(S, n) \in S
    BY <2>2, NthExists
  <2>4. QED
    BY <1>1, <1>2, <1>4, <2>1, <2>3 DEF WaitingFor, Wish
<1>5. QED
  BY <1>3, <1>4

(* When the first job goes, its interface has one less to wait for, the    *)
(* first, and all others have the same.                                    *)
LEMMA WaitsShortened ==
  ASSUME Jobs \in Seq(Job), Jobs # <<>>, Jobs' = Tail(Jobs), NEW k
  PROVE  IF k = KeyOf(Head(Jobs))
         THEN /\ WaitingFor(k) # <<>>
              /\ Head(WaitingFor(k)) = Wish(Head(Jobs))
              /\ WaitingFor(k)' = Tail(WaitingFor(k))
         ELSE WaitingFor(k)' = WaitingFor(k)
<1> DEFINE N == Len(Jobs)
           S == PlacesOf(k)
           T == PlacesOf(k)'
           c == Ahead(S)
<1>1. /\ N \in Nat /\ N >= 1
      /\ Head(Jobs) = Jobs[1]
      /\ Len(Jobs') = N - 1
      /\ \A n \in 1 .. N - 1 : Jobs'[n] = Jobs[n + 1]
  OBVIOUS
<1>2. S \in SUBSET (1 .. N) /\ T \in SUBSET (1 .. N)
  BY <1>1 DEF PlacesOf
<1>3. \A i \in 1 .. N : i \in T <=> i + 1 \in S
  BY <1>1 DEF PlacesOf, KeyOf
<1>4. 1 \in S <=> k = KeyOf(Head(Jobs))
  BY <1>1 DEF PlacesOf
<1>5. c \in {0, 1} /\ (c = 1 <=> 1 \in S)
  BY DEF Ahead
<1>6. WaitingFor(k)' = [n \in 1 .. Cardinality(T) |-> Wish(Jobs'[Nth(T, n)])]
  BY DEF WaitingFor, Wish
<1>7. WaitingFor(k) = [n \in 1 .. Cardinality(S) |-> Wish(Jobs[Nth(S, n)])]
  BY DEF WaitingFor
<1> HIDE DEF N, S, T, c
<1>8. /\ Cardinality(T) \in Nat
      /\ Cardinality(S) = Cardinality(T) + c
      /\ \A n \in 1 .. Cardinality(T) : Nth(T, n) \in T /\ Nth(S, n + c) = Nth(T, n) + 1
      /\ c = 1 => Nth(S, 1) = 1
  <2>1. N \in Nat
    BY <1>1
  <2>2. MovedUp(N, S, T)
    BY <1>2, <1>3 DEF MovedUp
  <2>3. QED
    BY <2>1, <2>2, NthOfTail DEF c
<1>9. ASSUME NEW n \in 1 .. Cardinality(T) PROVE Jobs'[Nth(T, n)] = Jobs[Nth(S, n + c)]
  <2>1. Nth(T, n) \in 1 .. N - 1
    BY <1>1, <1>2, <1>8 DEF T, PlacesOf, N
  <2>2. QED
    BY <1>1, <1>8, <2>1
<1>10. CASE k = KeyOf(Head(Jobs))
  <2>1. c = 1
    BY <1>4, <1>5, <1>10
  <2>2. WaitingFor(k) # <<>> /\ Head(WaitingFor(k)) = Wish(Head(Jobs))
    BY <1>1, <1>7, <1>8, <2>1
  <2>3. \A n \in 1 .. Cardinality(T) : WaitingFor(k)'[n] = WaitingFor(k)[n + 1]
    <3>1. ASSUME NEW n \in 1 .. Cardinality(T)
          PROVE  Wish(Jobs'[Nth(T, n)]) = Wish(Jobs[Nth(S, n + 1)]) /\ n + 1 \in 1 .. Cardinality(S)
      <4>1. n \in Nat /\ n + c = n + 1 /\ n + 1 \in 1 .. Cardinality(S)
        BY <1>8, <2>1
      <4>2. Jobs'[Nth(T, n)] = Jobs[Nth(S, n + 1)]
        BY <1>9, <4>1
      <4>3. QED
        BY <4>1, <4>2
    <3>2. QED
      BY <1>6, <1>7, <3>1
  <2>4. WaitingFor(k)' = Tail(WaitingFor(k))
    <3> DEFINE f == WaitingFor(k)
               g == WaitingFor(k)'
               R == {f[n] : n \in 1 .. Cardinality(T) + 1}
    <3>1. /\ f = [n \in 1 .. Cardinality(T) + 1 |-> f[n]]
          /\ g = [n \in 1 .. Cardinality(T) |-> g[n]]
          /\ Cardinality(T) \in Nat
      BY <1>6, <1>7, <1>8, <2>1
    <3> HIDE DEF f, g
    <3>2. \A n \in 1 .. Cardinality(T) : g[n] = f[n + 1]
      BY <2>3 DEF f, g
    <3>3. f \in Seq(R) /\ Len(f) = Cardinality(T) + 1
      <4>1. f \in [1 .. Cardinality(T) + 1 -> R] /\ Cardinality(T) + 1 \in Nat
        BY <3>1
      <4> HIDE DEF R
      <4>2. QED
        BY <4>1
    <3>4. /\ Tail(f) = [n \in 1 .. Cardinality(T) |-> Tail(f)[n]]
          /\ \A n \in 1 .. Cardinality(T) : Tail(f)[n] = f[n + 1]
      BY <3>1, <3>3
    <3>5. [n \in 1 .. Cardinality(T) |-> g[n]] = [n \in 1 .. Cardinality(T) |-> Tail(f)[n]]
      BY <3>2, <3>4
    <3>6. g = Tail(f)
      BY <3>1, <3>4, <3>5
    <3>7. QED
      BY <3>6 DEF f, g
  <2>5. QED
    BY <1>10, <2>2, <2>4
<1>11. CASE k # KeyOf(Head(Jobs))
  <2>1. c = 0
    BY <1>4, <1>5, <1>11
  <2>2. Cardinality(S) = Cardinality(T)
    BY <1>8, <2>1
  <2>3. \A n \in 1 .. Cardinality(T) : Jobs'[Nth(T, n)] = Jobs[Nth(S, n)]
    <3>1. \A n \in 1 .. Cardinality(T) : n + c = n
      BY <1>8, <2>1
    <3>2. QED
      BY <1>9, <3>1
  <2>4. \A n \in 1 .. Cardinality(T) : Wish(Jobs'[Nth(T, n)]) = Wish(Jobs[Nth(S, n)])
    BY <2>3
  <2>5. WaitingFor(k)' = WaitingFor(k)
    BY <1>6, <1>7, <2>2, <2>4
  <2>6. QED
    BY <1>11, <2>5
<1>12. QED
  BY <1>10, <1>11

(* What is left to do: the job at hand, if any, and then the queue.        *)
LEMMA JobsAreJobs ==
  ASSUME AgentInv
  PROVE  /\ Jobs \in Seq(Job)
         /\ pc = "idle" => Jobs = queue
         /\ pc # "idle" => Jobs # <<>> /\ Head(Jobs) = job /\ Tail(Jobs) = queue
<1> USE DEF AgentInv, TypeOK, ManagerTypeOK
<1>1. CASE pc = "idle"
  BY <1>1 DEF Jobs
<1>2. CASE pc # "idle"
  <2>1. Jobs = <<job>> \o queue /\ job \in Job /\ queue \in Seq(Job)
    BY <1>2 DEF Jobs
  <2>2. QED
    BY <1>2, <2>1
<1>3. QED
  BY <1>1, <1>2

(* A request that is accepted waits for its interface behind the others.   *)
LEMMA EnqueueAccepts ==
  ASSUME AgentInv, NEW j \in Job, Enqueue(j), UNCHANGED <<pc, job, state>>
  PROVE  Order!Next
<1>1. Jobs \in Seq(Job) /\ Jobs' = Append(Jobs, j)
  <2>1. queue \in Seq(Job) /\ queue' = Append(queue, j)
    BY DEF AgentInv, TypeOK, Enqueue
  <2>2. CASE pc = "idle"
    BY <2>1, <2>2 DEF Jobs
  <2>3. CASE pc # "idle"
    <3>1. job \in Job /\ Jobs = <<job>> \o queue /\ Jobs' = <<job>> \o Append(queue, j)
      BY <2>1, <2>3 DEF Jobs, AgentInv, TypeOK, ManagerTypeOK
    <3>2. QED
      BY <2>1, <3>1
  <2>4. QED
    BY <2>2, <2>3
<1>2. KeyOf(j) \in Keys /\ Wish(j) \in Wishes
  BY DEF KeyOf, Keys, Job, Wish, Wishes
<1>3. ASSUME NEW k \in Keys
      PROVE  WaitingFor(k)' = IF k = KeyOf(j) THEN Append(WaitingFor(k), Wish(j)) ELSE WaitingFor(k)
  BY <1>1, WaitsAppended
<1>4. WaitList' = [WaitList EXCEPT ![KeyOf(j)] = Append(@, Wish(j))]
  BY <1>2, <1>3 DEF WaitList
<1>5. Shown' = Shown
  BY DEF Shown
<1>6. Order!Accept(KeyOf(j), Wish(j))
  BY <1>4, <1>5 DEF Order!Accept
<1>7. QED
  BY <1>2, <1>6 DEF Order!Next, Wishes

(* The job that ends is the one its interface waits for first.             *)
LEMMA FinishServes ==
  ASSUME AgentInv, FinishJob
  PROVE  Order!Next
<1> USE DEF AgentInv, TypeOK, ManagerTypeOK
<1>1. /\ pc \in {"ok", "err"} /\ pc' = "idle" /\ job \in Job
      /\ queue' = queue /\ state' = Outcome
  BY DEF FinishJob, Return, Reset
<1>2. Jobs \in Seq(Job) /\ Jobs # <<>> /\ Head(Jobs) = job /\ Jobs' = Tail(Jobs)
  <2>1. Jobs' = queue
    BY <1>1 DEF Jobs
  <2>2. QED
    BY <1>1, <2>1, JobsAreJobs
<1>3. PICK k \in Keys : k = KeyOf(job)
  BY <1>1 DEF KeyOf, Keys, Job
<1>4. /\ WaitingFor(k) # <<>>
      /\ Head(WaitingFor(k)) = Wish(job)
      /\ WaitingFor(k)' = Tail(WaitingFor(k))
  BY <1>2, <1>3, WaitsShortened
<1>5. ASSUME NEW l \in Keys, l # k PROVE WaitingFor(l)' = WaitingFor(l)
  BY <1>2, <1>3, <1>5, WaitsShortened
<1>6. Order!Take(k)
  <2>1. WaitList' = [WaitList EXCEPT ![k] = Tail(@)]
    BY <1>3, <1>4, <1>5 DEF WaitList
  <2>2. QED
    BY <1>3, <1>4, <2>1 DEF WaitList, Order!Take
<1>7. CASE pc = "err"
  <2>1. Shown' = Shown
    BY <1>1, <1>7 DEF Outcome, Shown
  <2>2. QED
    BY <1>3, <1>6, <2>1 DEF Order!Fail, Order!Next
<1>8. CASE pc = "ok"
  <2> DEFINE entry == [eni |-> eni, ips |-> job.ips, profile |-> job.profile]
  <2>1. job.kind = "ensure" => entry \in Entry /\ entry # None
    <3>1. job.kind = "ensure" => eni \in EniIds
      BY <1>8 DEF ManagerInv, CallInv, Ensuring
    <3>2. job.kind = "ensure" => entry \in Entry
      BY <1>1, <3>1 DEF Entry, Job
    <3>3. QED
      BY <3>2, AgentAssumption
  <2>2. state' = [state EXCEPT ![k] = IF job.kind = "ensure" THEN entry ELSE None]
    BY <1>1, <1>3, <1>8 DEF Outcome
  <2> HIDE DEF entry
  <2>3. Shown' = [Shown EXCEPT ![k] = Wish(job)]
    <3>1. job.kind = "ensure" => entry.ips = job.ips /\ entry.profile = job.profile
      BY DEF entry
    <3>2. QED
      BY <1>3, <2>1, <2>2, <3>1 DEF Shown, Wish
  <2>4. Order!Serve(k)
    BY <1>3, <1>4, <1>6, <2>3 DEF Order!Serve, WaitList
  <2>5. QED
    BY <1>3, <2>4 DEF Order!Next
<1>9. QED
  BY <1>1, <1>7, <1>8

(* Steps that leave the jobs and the map alone are stutters of JobOrder:   *)
(* taking a job off the queue and the manager's steps are such.            *)
LEMMA WaitsKept ==
  ASSUME Jobs' = Jobs, state' = state
  PROVE  UNCHANGED <<WaitList, Shown>>
<1>1. \A k : PlacesOf(k)' = PlacesOf(k)
  BY DEF PlacesOf, KeyOf
<1>2. \A k : WaitingFor(k)' = WaitingFor(k)
  BY <1>1 DEF WaitingFor, Wish
<1>3. QED
  BY <1>2 DEF WaitList, Shown

(* JobOrder!Idle, in a form that can be primed as a whole.                 *)
AllServed == WaitList = [k \in Keys |-> <<>>] /\ Shown = Nothing

(* An agent that has just started has nothing to serve and shows nothing.  *)
LEMMA NothingWaits == Jobs = <<>> /\ state = Nothing => AllServed
<1> SUFFICES ASSUME Jobs = <<>>, state = Nothing PROVE AllServed
  OBVIOUS
<1>1. ASSUME NEW k \in Keys PROVE WaitingFor(k) = <<>>
  <2>1. PlacesOf(k) = {}
    BY DEF PlacesOf
  <2>2. Cardinality(PlacesOf(k)) = 0
    BY <2>1, FS_EmptySet
  <2>3. QED
    BY <2>2 DEF WaitingFor
<1>2. QED
  BY <1>1 DEF AllServed, WaitList, Shown, Nothing

(* Though all interfaces share the queue and the worker, each of them is   *)
(* served as JobOrder says, whatever the interleaving of handlers, hooks   *)
(* and worker, and through crashes.                                        *)
THEOREM AgentServesInOrder == Spec => ServesInOrder
<1>1. Init => Order!Idle
  <2> SUFFICES ASSUME Init PROVE Order!Idle
    OBVIOUS
  <2>1. Jobs = <<>> /\ state = Nothing
    BY DEF Init, ManagerInit, Jobs
  <2>2. QED
    BY <2>1, NothingWaits DEF AllServed, Nothing, Order!Idle
<1>2. AgentInv /\ [Next]_vars => [Order!Next]_<<WaitList, Shown>>
  <2> SUFFICES ASSUME AgentInv, [Next]_vars PROVE [Order!Next]_<<WaitList, Shown>>
    OBVIOUS
  <2>1. ASSUME NEW p \in Pods, NEW i \in Ifaces, NEW f \in Profiles, NEW a \in SUBSET Addr,
               ReportInterface(p, i, f, a) \/ ReleaseInterface(p, i, f)
        PROVE  Order!Next
    <3>1. PICK j \in Job : Enqueue(j)
      BY <2>1, JobsTyped DEF ReportInterface, ReleaseInterface
    <3>2. QED
      BY <2>1, <3>1, EnqueueAccepts DEF ReportInterface, ReleaseInterface, managerVars
  <2>2. ASSUME NEW j \in pending, QueueRelease(j)
        PROVE  Order!Next \/ UNCHANGED <<pc, job, queue, state>>
    <3>1. j \in Job
      BY DEF AgentInv, TypeOK
    <3>2. QED
      BY <2>2, <3>1, EnqueueAccepts DEF QueueRelease, managerVars
  <2>3. CASE Dequeue
    <3>1. /\ pc = "idle" /\ pc' # "idle" /\ queue # <<>> /\ queue \in Seq(Job)
          /\ job' = Head(queue) /\ queue' = Tail(queue) /\ state' = state
      BY <2>3 DEF Dequeue, Begin, AgentInv, TypeOK
    <3>2. Jobs = queue /\ Jobs' = <<Head(queue)>> \o Tail(queue)
      BY <3>1 DEF Jobs
    <3>3. Jobs' = Jobs
      BY <3>1, <3>2
    <3>4. QED
      BY <3>1, <3>3, WaitsKept
  <2>4. CASE WorkerCall
    <3>1. pc # "idle" /\ pc' # "idle" /\ UNCHANGED <<job, queue, state>>
      BY <2>4 DEF WorkerCall, agentVars, CallStep, FindExistingInterface, EnsureStep,
         NextAvailableDeviceIndex, CreateNetworkInterface, AttachNetworkInterface,
         ModifyNetworkInterface, AssignIPAddresses, ReleaseStep, UnassignIPAddresses,
         DetachInterface, WaitForDetachment, DeleteInterface, Invoke
    <3>2. Jobs' = Jobs
      BY <3>1 DEF Jobs
    <3>3. QED
      BY <3>1, <3>2, WaitsKept
  <2>5. CASE Crash
    <3>1. pc' = "idle" /\ queue' = <<>> /\ state' = Nothing
      BY <2>5 DEF Crash, ManagerCrash, Reset
    <3>2. (Jobs = <<>> /\ state = Nothing)'
      BY <3>1 DEF Jobs, Nothing
    <3>3. AllServed'
      BY <3>2, NothingWaits, PTL
    <3>4. QED
      BY <3>3 DEF AllServed, Nothing, Order!Next, Order!Restart, Order!Idle
  <2>6. CASE UNCHANGED <<pc, job, queue, state>>
    BY <2>6, WaitsKept DEF Jobs
  <2>7. QED
    BY <2>1, <2>2, <2>3, <2>4, <2>5, <2>6, FinishServes
       DEF Next, vars, Handlers, Hooks, OnPodAdd, OnPodUpdate, OnPodDelete, Hook, Callback,
           Worker, Environment, managerVars, callVars, agentVars
<1>3. QED
  BY <1>1, <1>2, AgentInvariant, PTL DEF Spec, ServesInOrder, Order!Spec
==============================================================================
