----------------------------- MODULE CniSandboxes -----------------------------
(***************************************************************************)
(* The processes of cmd/multus-multivpc-cni on a node, as far as plugins   *)
(* and cache directory are concerned: an ADD runs the chain and leaves a   *)
(* file for its sandbox and interface; a DEL looks for a file of its       *)
(* sandbox by reading the whole directory, while other processes write and *)
(* remove theirs, undoes the chain, and removes the file.                  *)
(*                                                                         *)
(* The runtime makes the calls of one sandbox one after the other, an ADD  *)
(* per interface, then a DEL per interface, and repeats a DEL that failed. *)
(* It answers a failed ADD by tearing the sandbox down.  Processes of      *)
(* different sandboxes run side by side.  The agent's part of a call is in *)
(* CniDelegate; an ADD that fails there fails here before its first plugin.*)
(***************************************************************************)
EXTENDS DelegateChain

CONSTANTS
  None,
  MaxFaults   (* bound: calls that fail or are killed                         *)

ASSUME SandboxAssumption ==
  /\ IsFiniteSet(Ifaces)
  /\ None \notin Nics \cup Ifaces
  /\ MaxFaults \in Nat

VARIABLES
  at,        (* per sandbox: the next thing its process does                  *)
  call,      (* per sandbox: the interface of the call in progress            *)
  todo,      (* per sandbox: interfaces whose DEL has not returned yet        *)
  file,      (* per name: none, partial (created, not yet written) or full    *)
  left,      (* per sandbox: what the scan in progress has still to read      *)
  found,     (* per sandbox: the file that the scan found                     *)
  released,  (* history: interfaces whose release the agent accepted          *)
  missed,    (* history: interfaces whose release was due and not made        *)
  mishap,    (* history, per sandbox: what went wrong in its calls            *)
  faults     (* history: how often something went wrong                       *)

callVars == <<at, call, todo>>
dirVars == <<file, left, found>>
history == <<released, missed, mishap, faults>>
vars == <<plugged, pos, result, told, at, call, todo, file, left, found,
          released, missed, mishap, faults>>
------------------------------------------------------------------------------
AddSteps == {"plug", "report", "create", "write"}
DelSteps == {"scan", "unplug", "release", "remove", "return"}

NicsOf(b) == {b} \X Ifaces

Nic(b) == <<b, call[b]>>

Init ==
  /\ ChainInit
  /\ at = [b \in Boxes |-> "idle"]
  /\ call = [b \in Boxes |-> None]
  /\ todo = [b \in Boxes |-> Ifaces]
  /\ file = [f \in Nics |-> "none"]
  /\ left = [b \in Boxes |-> {}]
  /\ found = [b \in Boxes |-> None]
  /\ released = {}
  /\ missed = {}
  /\ mishap = [b \in Boxes |-> {}]
  /\ faults = 0

Goto(b, here, next) == at[b] = here /\ at' = [at EXCEPT ![b] = next]

(* Something goes wrong in a call of sandbox b, and keeps it from making   *)
(* the release of the interfaces in unmade.                                *)
Mishap(b, kinds, unmade) ==
  /\ faults < MaxFaults
  /\ faults' = faults + 1
  /\ mishap' = [mishap EXCEPT ![b] = @ \cup kinds]
  /\ missed' = missed \cup unmade
  /\ UNCHANGED released
------------------------------------------------------------------------------
(* cmdAdd, from the moment the host interface is there.                    *)
StartAdd(b, i) ==
  /\ Goto(b, "idle", "plug")
  /\ file[<<b, i>>] = "none"
  /\ call' = [call EXCEPT ![b] = i]
  /\ UNCHANGED <<chainVars, todo, dirVars, history>>

Plug(b) ==
  /\ Goto(b, "plug", IF pos[b] = Posts THEN "report" ELSE "plug")
  /\ PlugNext(Nic(b))
  /\ UNCHANGED <<call, todo, dirVars, history>>

Report(b) ==
  /\ Goto(b, "report", "create")
  /\ Collect(b)
  /\ UNCHANGED <<call, todo, dirVars, history>>

(* writeCacheEntry: os.WriteFile creates the file, then fills it.          *)
CreateFile(b) ==
  /\ Goto(b, "create", "write")
  /\ file' = [file EXCEPT ![Nic(b)] = "partial"]
  /\ UNCHANGED <<chainVars, call, todo, left, found, history>>

FillFile(b) ==
  /\ Goto(b, "write", "idle")
  /\ file' = [file EXCEPT ![Nic(b)] = "full"]
  /\ call' = [call EXCEPT ![b] = None]
  /\ Forget(b)
  /\ UNCHANGED <<todo, left, found, history>>

(* cmdAdd fails or is killed at any step: a plugin fails, the agent does   *)
(* not take the report, the disk is full.  Nothing is undone.              *)
AddFails(b) ==
  /\ at[b] \in AddSteps
  /\ Mishap(b, {"add"}, {})
  /\ at' = [at EXCEPT ![b] = "down"]
  /\ call' = [call EXCEPT ![b] = None]
  /\ Forget(b)
  /\ UNCHANGED <<todo, dirVars>>

(* All interfaces of the sandbox are there. *)
Up(b) ==
  /\ Goto(b, "idle", "up")
  /\ \A f \in NicsOf(b) : file[f] # "none"
  /\ UNCHANGED <<chainVars, call, todo, dirVars, history>>

Stop(b) ==
  /\ Goto(b, "up", "down")
  /\ UNCHANGED <<chainVars, call, todo, dirVars, history>>
------------------------------------------------------------------------------
(* cmdDel and readCacheEntry: os.ReadDir, then os.ReadFile one by one.     *)
(* The names are sorted, but the order says nothing about sandboxes.       *)
StartDel(b, i) ==
  /\ Goto(b, "down", "scan")
  /\ i \in todo[b]
  /\ call' = [call EXCEPT ![b] = i]
  /\ left' = [left EXCEPT ![b] = {f \in Nics : file[f] # "none"}]
  /\ UNCHANGED <<chainVars, todo, file, found, history>>

(* A DEL returns without error, done or for want of an entry.              *)
Returned(b) ==
  /\ todo' = [todo EXCEPT ![b] = @ \ {call[b]}]
  /\ at' = [at EXCEPT ![b] = IF todo[b] = {call[b]} THEN "done" ELSE "down"]
  /\ call' = [call EXCEPT ![b] = None]
  /\ left' = [left EXCEPT ![b] = {}]

(* The entry is found: runDelegateDelChain starts from the last plugin.    *)
Found(b, f) ==
  /\ Goto(b, "scan", "unplug")
  /\ found' = [found EXCEPT ![b] = f]
  /\ left' = [left EXCEPT ![b] = {}]
  /\ pos' = [pos EXCEPT ![b] = Posts + 1]
  /\ UNCHANGED <<call, todo, plugged, result, told>>

BugReadFile(b, f) ==
  /\ at[b] = "scan" /\ f \in left[b]
  /\ \/ file[f] = "full" /\ Found(b, f)
     \/ file[f] # "full" /\ Returned(b) /\ UNCHANGED <<found, chainVars>>
  /\ UNCHANGED <<file, history>>

BugFirstFile(b, f) ==
  /\ at[b] = "scan" /\ f \in left[b]
  /\ \/ file[f] = "full" /\ f[1] = b /\ Found(b, f)
     \/ ~(file[f] = "full" /\ f[1] = b) /\ Returned(b) /\ UNCHANGED <<found, chainVars>>
  /\ UNCHANGED <<file, history>>

(* A file that is gone by now is an ErrNotExist, which cmdDel takes for a  *)
(* missing entry; one that is not valid JSON is an error, and the DEL is   *)
(* repeated; one of another sandbox is passed over.  Whichever file of the *)
(* sandbox comes first is taken, for whichever interface the DEL was made. *)
ReadFile(b, f) ==
  /\ at[b] = "scan" /\ f \in left[b]
  /\ \/ /\ file[f] = "none"
        /\ Returned(b)
        /\ UNCHANGED <<found, chainVars>>
     \/ /\ file[f] = "partial"
        /\ Goto(b, "scan", "down")
        /\ call' = [call EXCEPT ![b] = None]
        /\ left' = [left EXCEPT ![b] = {}]
        /\ UNCHANGED <<todo, found, chainVars>>
     \/ file[f] = "full" /\ f[1] = b /\ Found(b, f)
     \/ /\ file[f] = "full" /\ f[1] # b
        /\ left' = [left EXCEPT ![b] = @ \ {f}]
        /\ UNCHANGED <<callVars, found, chainVars>>
  /\ UNCHANGED <<file, history>>

BugNoEntry(b) ==
  /\ left[b] = {}
  /\ Goto(b, "scan", "release")
  /\ UNCHANGED <<chainVars, call, todo, dirVars, history>>

BugNoEntryFails(b) ==
  /\ left[b] = {}
  /\ Goto(b, "scan", "down")
  /\ call' = [call EXCEPT ![b] = None]
  /\ UNCHANGED <<chainVars, todo, dirVars, history>>

NoEntry(b) ==
  /\ at[b] = "scan" /\ left[b] = {}
  /\ Returned(b)
  /\ UNCHANGED <<chainVars, file, found, history>>

BugUnplug(b) ==
  /\ Goto(b, "unplug", IF pos[b] = 2 THEN "release" ELSE "unplug")
  /\ UnplugNext(Nic(b))
  /\ UNCHANGED <<call, todo, dirVars, history>>

(* The plugins are called for the interface of the DEL, not of the entry.  *)
Unplug(b) ==
  /\ Goto(b, "unplug", IF pos[b] = 1 THEN "release" ELSE "unplug")
  /\ UnplugNext(Nic(b))
  /\ UNCHANGED <<call, todo, dirVars, history>>

(* A plugin fails: those below it are not called.  The error is logged.    *)
UnplugFails(b) ==
  /\ Goto(b, "unplug", "release")
  /\ Mishap(b, {"plugin"}, {})
  /\ Forget(b)
  /\ UNCHANGED <<call, todo, dirVars>>

(* The deadline of the DEL passes while it waits for the host interface or *)
(* for a plugin: neither a plugin nor the agent is called any more, and    *)
(* both errors are only logged.                                            *)
DeadlinePasses(b) ==
  /\ Goto(b, "unplug", "remove")
  /\ Mishap(b, {"plugin"}, {found[b]})
  /\ Forget(b)
  /\ UNCHANGED <<call, todo, dirVars>>

(* callRelease, for the interface of the entry: the agent accepts it.      *)
Release(b) ==
  /\ Goto(b, "release", "remove")
  /\ released' = released \cup {found[b]}
  /\ UNCHANGED <<chainVars, call, todo, dirVars, missed, mishap, faults>>

(* The agent is down, or was when it was dialled, or its queue is full.    *)
(* The error is logged, and cmdDel goes on as after a release.             *)
ReleaseFails(b) ==
  /\ Goto(b, "release", "remove")
  /\ Mishap(b, {}, {found[b]})
  /\ UNCHANGED <<chainVars, call, todo, dirVars>>

(* os.Remove(path), under the eyes of other scans; then the process ends.  *)
RemoveFile(b) ==
  /\ Goto(b, "remove", "return")
  /\ file' = [file EXCEPT ![found[b]] = "none"]
  /\ found' = [found EXCEPT ![b] = None]
  /\ mishap' = [c \in Boxes |-> IF found[b] \in left[c] THEN mishap[c] \cup {"crossed"}
                                ELSE mishap[c]]
  /\ UNCHANGED <<chainVars, call, todo, left, released, missed, faults>>

Return(b) ==
  /\ at[b] = "return"
  /\ Returned(b)
  /\ UNCHANGED <<chainVars, file, found, history>>

(* A DEL process is killed; the runtime repeats the call.                  *)
Kill(b) ==
  /\ at[b] \in DelSteps
  /\ Mishap(b, IF at[b] = "return" THEN {"repeat"} ELSE {}, {})
  /\ at' = [at EXCEPT ![b] = "down"]
  /\ call' = [call EXCEPT ![b] = None]
  /\ left' = [left EXCEPT ![b] = {}]
  /\ found' = [found EXCEPT ![b] = None]
  /\ Forget(b)
  /\ UNCHANGED <<todo, file>>
------------------------------------------------------------------------------
CmdAdd(b) == Plug(b) \/ Report(b) \/ CreateFile(b) \/ FillFile(b)

CmdDel(b) ==
  (\E f \in Nics : ReadFile(b, f)) \/ NoEntry(b) \/ Unplug(b) \/ Release(b)
  \/ RemoveFile(b) \/ Return(b)

Runtime(b) == Up(b) \/ \E i \in Ifaces : StartAdd(b, i) \/ StartDel(b, i)

Process(b) == CmdAdd(b) \/ CmdDel(b) \/ Runtime(b)

Failure(b) ==
  AddFails(b) \/ UnplugFails(b) \/ DeadlinePasses(b) \/ ReleaseFails(b) \/ Kill(b)

Finished == (\A b \in Boxes : at[b] = "done") /\ UNCHANGED vars

Next == (\E b \in Boxes : Process(b) \/ Stop(b) \/ Failure(b)) \/ Finished

Spec == Init /\ [][Next]_vars

(* CNI processes run, and the runtime repeats a DEL until it succeeds.     *)
FairSpec == Spec /\ \A b \in Boxes : WF_vars(Process(b))
------------------------------------------------------------------------------
SandboxTypeOK ==
  /\ ChainTypeOK
  /\ at \in [Boxes -> {"idle", "up", "down", "done"} \cup AddSteps \cup DelSteps]
  /\ call \in [Boxes -> Ifaces \cup {None}]
  /\ todo \in [Boxes -> SUBSET Ifaces]
  /\ file \in [Nics -> {"none", "partial", "full"}]
  /\ left \in [Boxes -> SUBSET Nics]
  /\ found \in [Boxes -> Nics \cup {None}]
  /\ released \subseteq Nics /\ missed \subseteq Nics
  /\ mishap \in [Boxes -> SUBSET {"add", "plugin", "repeat", "crossed"}]
  /\ faults \in 0 .. MaxFaults
  /\ \A b \in Boxes : call[b] # None <=> at[b] \in AddSteps \cup DelSteps
  /\ \A b \in Boxes : found[b] # None <=> at[b] \in {"unplug", "release", "remove"}

(* Plugins are stacked: whatever fails, is killed or repeated, the ones    *)
(* that are set up are the lowest of the chain; none ever loses the one it *)
(* was built on.                                                           *)
NothingHangs ==
  \A f \in Nics : \E n \in 0 .. Posts + 1 : plugged[f] = 0 .. n - 1

(* What an ADD reports to the agent before it leaves its cache file names  *)
(* every address that the IPAM plugin listed, however many plugins follow  *)
(* and although the namespace may not be readable, and no link-local one.  *)
ToldWhatIpamGave ==
  \A b \in Boxes : at[b] = "create" =>
    Listed \subseteq told[b] /\ told[b] \subseteq Families

(* However DELs of other sandboxes scan, release and remove, a sandbox     *)
(* that is up keeps its entries and all its plugins, and its interfaces    *)
(* are not released.                                                       *)
UpIsLeftAlone ==
  \A b \in Boxes : at[b] = "up" =>
    \A f \in NicsOf(b) : file[f] = "full" /\ f \notin released /\ plugged[f] = Chain

(* Each DEL takes some entry of its sandbox, not that of its interface.    *)
(* Together they take all of them: when the DELs of a sandbox are over, no *)
(* file is left and every interface that had one was released, except      *)
(* those whose own release could not be made, although processes were      *)
(* killed and calls repeated, unless another DEL removed a file that a     *)
(* scan of this one had listed (main.go:680).                              *)
DoneIsReleased ==
  \A b \in Boxes : at[b] = "done" /\ "crossed" \notin mishap[b] =>
    \A f \in NicsOf(b) :
      /\ file[f] = "none"
      /\ "add" \notin mishap[b] => f \in released \cup missed

(* The plugins of every interface are undone when the DELs are over,       *)
(* wherever one was killed, unless it had removed its entry by then (the   *)
(* repeated DEL uses up the entry of another interface), an ADD or a       *)
(* plugin's DEL failed or met its deadline, or a scan was crossed.  A      *)
(* release that fails is no excuse.                                        *)
DoneIsUnplugged ==
  \A b \in Boxes : at[b] = "done" /\ mishap[b] = {} =>
    \A f \in NicsOf(b) : plugged[f] = {}

(* A file that its ADD will never complete. *)
Torn(f) == file[f] = "partial" /\ at[f[1]] # "write"

(* Half written files of others make a DEL fail; repeated, it gets         *)
(* through, unless an ADD died while it wrote: such a file is read, and    *)
(* refused, by every scan that comes to it, and nobody removes it.         *)
DelsGetThrough ==
  \A b \in Boxes : (at[b] = "down") ~> (at[b] = "done" \/ \E f \in Nics : Torn(f))
==============================================================================
