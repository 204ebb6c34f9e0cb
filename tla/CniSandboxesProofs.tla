--------------------------- MODULE CniSandboxesProofs ---------------------------
(***************************************************************************)
(* Proofs about the CNI processes of a node, for any number of sandboxes,  *)
(* interfaces, post delegates and failures.                                *)
(***************************************************************************)
EXTENDS CniSandboxes, FiniteSetTheorems, TLAPS

(* Where the chain of a call has come to, and what it has at hand.         *)
ChainInv(b) ==
  /\ at[b] = "plug" => /\ pos[b] \in Chain
                       /\ plugged[Nic(b)] = 0 .. pos[b] - 1
                       /\ pos[b] # 0 => result[b] = Listed
  /\ at[b] = "report" => result[b] = Listed
  /\ at[b] = "create" => Listed \subseteq told[b]
  /\ at[b] \in {"report", "create", "write"} => plugged[Nic(b)] = Chain
  /\ at[b] = "unplug" => pos[b] \in 1 .. Posts + 1 /\ plugged[Nic(b)] \subseteq 0 .. pos[b] - 1
  /\ at[b] \notin AddSteps \cup {"unplug"} => pos[b] = 0

(* What the directory shows of a sandbox that is being made or is up.      *)
FileInv(b) ==
  /\ at[b] \in {"idle", "up"} \cup AddSteps =>
       /\ todo[b] = Ifaces
       /\ \A f \in NicsOf(b) :
            /\ f \notin released
            /\ file[f] = "full" => plugged[f] = Chain
            /\ file[f] = "none" => plugged[f] = {} \/ f = Nic(b)
            /\ file[f] = "partial" => at[b] = "write" /\ f = Nic(b)
  /\ at[b] \in {"plug", "report", "create"} => file[Nic(b)] = "none"
  /\ at[b] = "write" => file[Nic(b)] = "partial"
  /\ at[b] = "up" => \A f \in NicsOf(b) : file[f] = "full"
  /\ found[b] # None => found[b] \in NicsOf(b) /\ file[found[b]] = "full"

CallInv == \A b \in Boxes : ChainInv(b) /\ FileInv(b)

SandboxInv == SandboxTypeOK /\ NothingHangs /\ CallInv

Step(b) == Process(b) \/ Stop(b) \/ Failure(b)

(* The initial state satisfies the invariant.                              *)
LEMMA SandboxInitInv == Init => SandboxInv
<1> SUFFICES ASSUME Init PROVE SandboxInv
  OBVIOUS
<1> USE ChainAssumption, SandboxAssumption
<1>1. SandboxTypeOK
  BY DEF Init, ChainInit, SandboxTypeOK, ChainTypeOK, AddSteps, DelSteps, Chain
<1>2. NothingHangs
  <2>1. 0 .. 0 - 1 = {}
    OBVIOUS
  <2>2. QED
    BY <2>1 DEF Init, ChainInit, NothingHangs
<1>3. CallInv
  <2> SUFFICES ASSUME NEW b \in Boxes PROVE ChainInv(b) /\ FileInv(b)
    BY DEF CallInv
  <2>1. at[b] = "idle" /\ pos[b] = 0 /\ found[b] = None /\ todo[b] = Ifaces
    BY DEF Init, ChainInit
  <2>2. \A f \in NicsOf(b) : file[f] = "none" /\ plugged[f] = {} /\ f \notin released
    BY DEF Init, ChainInit, NicsOf, Nics
  <2>3. QED
    BY <2>1, <2>2 DEF ChainInv, FileInv, AddSteps
<1>4. QED
  BY <1>1, <1>2, <1>3 DEF SandboxInv

(* The interface of a call in progress is one of its sandbox.              *)
LEMMA CallTyped ==
  ASSUME SandboxInv, NEW b \in Boxes, at[b] \in AddSteps \cup DelSteps
  PROVE  call[b] \in Ifaces /\ Nic(b) \in Nics /\ Nic(b) \in NicsOf(b) /\ Nic(b)[1] = b
  BY SandboxAssumption DEF SandboxInv, SandboxTypeOK, Nic, Nics, NicsOf

(* So is the one whose entry a DEL found.                                  *)
LEMMA FoundTyped ==
  ASSUME SandboxInv, NEW b \in Boxes, at[b] \in {"unplug", "release", "remove"}
  PROVE  found[b] \in Nics /\ found[b] \in NicsOf(b) /\ found[b][1] = b
  BY SandboxAssumption DEF SandboxInv, SandboxTypeOK, CallInv, FileInv, NicsOf, Nics

(* Where a chain is when one of its plugins is called.                     *)
LEMMA AtPlugin ==
  ASSUME SandboxInv, NEW b \in Boxes
  PROVE  /\ at[b] = "plug" => /\ pos[b] \in Chain
                              /\ plugged[Nic(b)] = 0 .. pos[b] - 1
         /\ at[b] = "unplug" => /\ pos[b] \in 1 .. Posts + 1
                                /\ plugged[Nic(b)] \subseteq 0 .. pos[b] - 1
         /\ Posts \in Nat
  BY ChainAssumption DEF SandboxInv, CallInv, ChainInv

(* Every step of a process leaves the variables in their types.            *)
LEMMA SandboxTypeNext ==
  ASSUME SandboxInv, NEW b \in Boxes, Step(b)
  PROVE  SandboxTypeOK'
<1> USE ChainAssumption, SandboxAssumption, CallTyped, FoundTyped
    DEF SandboxTypeOK, ChainTypeOK, AddSteps, DelSteps, Goto, callVars, dirVars, history,
        chainVars
<1> SandboxTypeOK
  BY DEF SandboxInv
<1>1. ASSUME NEW i \in Ifaces, StartAdd(b, i) PROVE SandboxTypeOK'
  BY <1>1 DEF StartAdd
<1>2. ASSUME Plug(b) PROVE SandboxTypeOK'
  <2>1. at[b] = "plug" /\ Nic(b) \in Nics /\ Nic(b)[1] = b /\ pos[b] \in 0 .. Posts
    BY <1>2, AtPlugin DEF Plug, Chain
  <2>2. pos[b] + 1 \in 0 .. Posts + 1 /\ 0 .. Posts = Chain
    BY <2>1 DEF Chain
  <2>3. ChainTypeOK'
    BY <1>2, <2>1, <2>2 DEF Plug, PlugNext, PrevResult
  <2>4. QED
    BY <1>2, <2>1, <2>3 DEF Plug, PlugNext
<1>3. ASSUME Report(b) PROVE SandboxTypeOK'
  BY <1>3 DEF Report, Collect, GlobalOnly, Inspections
<1>4. ASSUME CreateFile(b) PROVE SandboxTypeOK'
  BY <1>4 DEF CreateFile
<1>5. ASSUME FillFile(b) PROVE SandboxTypeOK'
  BY <1>5 DEF FillFile, Forget
<1>6. ASSUME AddFails(b) PROVE SandboxTypeOK'
  BY <1>6 DEF AddFails, Mishap, Forget
<1>7. ASSUME Up(b) PROVE SandboxTypeOK'
  BY <1>7 DEF Up
<1>8. ASSUME Stop(b) PROVE SandboxTypeOK'
  BY <1>8 DEF Stop
<1>9. ASSUME NEW i \in Ifaces, StartDel(b, i) PROVE SandboxTypeOK'
  BY <1>9 DEF StartDel
<1>10. ASSUME NEW f \in Nics, ReadFile(b, f) PROVE SandboxTypeOK'
  <2>1. CASE file[f] = "full" /\ Found(b, f)
    BY <1>10, <2>1 DEF ReadFile, Found
  <2>2. CASE Returned(b) /\ UNCHANGED <<found, chainVars>>
    BY <1>10, <2>2 DEF ReadFile, Returned
  <2>3. QED
    BY <1>10, <2>1, <2>2 DEF ReadFile
<1>11. ASSUME NoEntry(b) PROVE SandboxTypeOK'
  BY <1>11 DEF NoEntry, Returned
<1>12. ASSUME Unplug(b) PROVE SandboxTypeOK'
  <2>1. at[b] = "unplug" /\ Nic(b)[1] = b /\ pos[b] \in 1 .. Posts + 1 /\ Posts \in Nat
    BY <1>12, AtPlugin DEF Unplug
  <2>2. pos[b] - 1 \in 0 .. Posts + 1
    BY <2>1
  <2>3. ChainTypeOK'
    BY <1>12, <2>1, <2>2 DEF Unplug, UnplugNext
  <2>4. QED
    BY <1>12, <2>1, <2>3 DEF Unplug, UnplugNext
<1>13. ASSUME UnplugFails(b) \/ DeadlinePasses(b) PROVE SandboxTypeOK'
  BY <1>13 DEF UnplugFails, DeadlinePasses, Mishap, Forget
<1>14. ASSUME Release(b) \/ ReleaseFails(b) PROVE SandboxTypeOK'
  BY <1>14 DEF Release, ReleaseFails, Mishap
<1>15. ASSUME RemoveFile(b) PROVE SandboxTypeOK'
  BY <1>15 DEF RemoveFile
<1>16. ASSUME Return(b) PROVE SandboxTypeOK'
  BY <1>16 DEF Return, Returned
<1>17. ASSUME Kill(b) PROVE SandboxTypeOK'
  BY <1>17 DEF Kill, Mishap, Forget
<1>18. QED
  BY <1>1, <1>2, <1>3, <1>4, <1>5, <1>6, <1>7, <1>8, <1>9, <1>10, <1>11,
     <1>12, <1>13, <1>14, <1>15, <1>16, <1>17
     DEF Step, Process, CmdAdd, CmdDel, Runtime, Failure

(* What a step of another sandbox leaves alone.                            *)
Untouched(b) ==
  /\ at'[b] = at[b] /\ call'[b] = call[b] /\ todo'[b] = todo[b]
  /\ left'[b] = left[b] /\ found'[b] = found[b]
  /\ pos'[b] = pos[b] /\ result'[b] = result[b] /\ told'[b] = told[b]
  /\ \A f \in NicsOf(b) :
       /\ file'[f] = file[f] /\ plugged'[f] = plugged[f]
       /\ f \in released' <=> f \in released
       /\ f \in missed' <=> f \in missed

(* A process touches nothing of another sandbox.                           *)
LEMMA OthersUntouched ==
  ASSUME SandboxInv, NEW a \in Boxes, NEW b \in Boxes, a # b, Step(a)
  PROVE  Untouched(b)
<1> USE CallTyped, FoundTyped
    DEF Untouched, AddSteps, DelSteps, Goto, callVars, dirVars, history, chainVars
<1> SandboxTypeOK
  BY DEF SandboxInv
<1> \A f \in NicsOf(b) : f \in Nics /\ f[1] = b
  BY DEF NicsOf, Nics
<1> USE DEF SandboxTypeOK, ChainTypeOK
<1>1. ASSUME NEW i \in Ifaces, StartAdd(a, i) PROVE Untouched(b)
  BY <1>1 DEF StartAdd
<1>2. ASSUME Plug(a) PROVE Untouched(b)
  BY <1>2 DEF Plug, PlugNext
<1>3. ASSUME Report(a) PROVE Untouched(b)
  BY <1>3 DEF Report, Collect
<1>4. ASSUME CreateFile(a) PROVE Untouched(b)
  BY <1>4 DEF CreateFile
<1>5. ASSUME FillFile(a) PROVE Untouched(b)
  BY <1>5 DEF FillFile, Forget
<1>6. ASSUME AddFails(a) PROVE Untouched(b)
  BY <1>6 DEF AddFails, Mishap, Forget
<1>7. ASSUME Up(a) PROVE Untouched(b)
  BY <1>7 DEF Up
<1>8. ASSUME Stop(a) PROVE Untouched(b)
  BY <1>8 DEF Stop
<1>9. ASSUME NEW i \in Ifaces, StartDel(a, i) PROVE Untouched(b)
  BY <1>9 DEF StartDel
<1>10. ASSUME NEW f \in Nics, ReadFile(a, f) PROVE Untouched(b)
  BY <1>10 DEF ReadFile, Found, Returned
<1>11. ASSUME NoEntry(a) PROVE Untouched(b)
  BY <1>11 DEF NoEntry, Returned
<1>12. ASSUME Unplug(a) PROVE Untouched(b)
  BY <1>12 DEF Unplug, UnplugNext
<1>13. ASSUME UnplugFails(a) \/ DeadlinePasses(a) PROVE Untouched(b)
  BY <1>13 DEF UnplugFails, DeadlinePasses, Mishap, Forget
<1>14. ASSUME Release(a) \/ ReleaseFails(a) PROVE Untouched(b)
  BY <1>14 DEF Release, ReleaseFails, Mishap
<1>15. ASSUME RemoveFile(a) PROVE Untouched(b)
  BY <1>15 DEF RemoveFile
<1>16. ASSUME Return(a) PROVE Untouched(b)
  BY <1>16 DEF Return, Returned
<1>17. ASSUME Kill(a) PROVE Untouched(b)
  BY <1>17 DEF Kill, Mishap, Forget
<1>18. QED
  BY <1>1, <1>2, <1>3, <1>4, <1>5, <1>6, <1>7, <1>8, <1>9, <1>10, <1>11,
     <1>12, <1>13, <1>14, <1>15, <1>16, <1>17
     DEF Step, Process, CmdAdd, CmdDel, Runtime, Failure

(* What holds of a sandbox that is left alone goes on holding.             *)
LEMMA UntouchedInv ==
  ASSUME SandboxInv, NEW b \in Boxes, Untouched(b)
  PROVE  ChainInv(b)' /\ FileInv(b)'
<1>1. Nic(b)' = Nic(b) /\ NicsOf(b)' = NicsOf(b)
  BY DEF Untouched, Nic, NicsOf
<1>2. at[b] \in AddSteps \cup DelSteps => Nic(b) \in NicsOf(b)
  BY CallTyped
<1>3. ChainInv(b) /\ FileInv(b)
  BY DEF SandboxInv, CallInv
<1>4. ChainInv(b)'
  BY <1>1, <1>2, <1>3 DEF ChainInv, Untouched, AddSteps, DelSteps
<1>5. FileInv(b)'
  BY <1>1, <1>2, <1>3 DEF FileInv, Untouched, AddSteps, DelSteps
<1>6. QED
  BY <1>4, <1>5

(* A step of a sandbox keeps what holds of its chain.                      *)
LEMMA OwnChain ==
  ASSUME SandboxInv, NEW b \in Boxes, Step(b)
  PROVE  ChainInv(b)'
<1> USE CallTyped, FoundTyped, ChainAssumption, SandboxAssumption
    DEF AddSteps, DelSteps, Goto, callVars, dirVars, history, chainVars
<1> SandboxTypeOK /\ ChainInv(b) /\ FileInv(b)
  BY DEF SandboxInv, CallInv
<1> NicsOf(b) \subseteq Nics /\ \A f \in Nics : f \in NicsOf(b) <=> f[1] = b
  BY DEF NicsOf, Nics
<1> USE DEF SandboxTypeOK, ChainTypeOK
<1>1. ASSUME NEW i \in Ifaces, StartAdd(b, i) PROVE ChainInv(b)'
  <2>1. at[b] = "idle" /\ at'[b] = "plug" /\ Nic(b)' = <<b, i>> /\ pos'[b] = 0 /\ plugged' = plugged
    BY <1>1 DEF StartAdd, ChainInv, Nic
  <2>2. <<b, i>> \in NicsOf(b) /\ <<b, i>> # Nic(b) /\ file[<<b, i>>] = "none"
    BY <1>1 DEF StartAdd, Nic, NicsOf, Nics
  <2>3. plugged[<<b, i>>] = {}
    BY <2>1, <2>2 DEF FileInv
  <2>4. 0 \in Chain /\ 0 .. 0 - 1 = {}
    BY DEF Chain
  <2>5. QED
    BY <2>1, <2>3, <2>4 DEF ChainInv
<1>2. ASSUME Plug(b) PROVE ChainInv(b)'
  <2>1. at[b] = "plug" /\ Nic(b) \in Nics /\ Nic(b)[1] = b /\ Nic(b)' = Nic(b)
    BY <1>2 DEF Plug, Nic
  <2>2. pos[b] \in 0 .. Posts /\ plugged[Nic(b)] = 0 .. pos[b] - 1
    BY <2>1 DEF ChainInv, Chain
  <2>3. pos'[b] = pos[b] + 1 /\ result'[b] = Listed
    BY <1>2, <2>1, <2>2 DEF Plug, PlugNext, PrevResult, ChainInv
  <2>4. plugged'[Nic(b)] = 0 .. pos[b]
    <3>1. plugged'[Nic(b)] = plugged[Nic(b)] \cup {pos[b]}
      BY <1>2, <2>1 DEF Plug, PlugNext
    <3>2. QED
      BY <2>2, <3>1
  <2>5. CASE pos[b] = Posts
    <3>1. at'[b] = "report"
      BY <1>2, <2>5 DEF Plug
    <3>2. QED
      BY <2>1, <2>3, <2>4, <2>5, <3>1 DEF ChainInv, Chain
  <2>6. CASE pos[b] # Posts
    <3>1. at'[b] = "plug"
      BY <1>2, <2>6 DEF Plug
    <3>2. pos[b] + 1 \in Chain /\ 0 .. pos[b] = 0 .. (pos[b] + 1) - 1
      BY <2>2, <2>6 DEF Chain
    <3>3. QED
      BY <2>1, <2>3, <2>4, <3>1, <3>2 DEF ChainInv
  <2>7. QED
    BY <2>5, <2>6
<1>3. ASSUME Report(b) PROVE ChainInv(b)'
  BY <1>3 DEF Report, Collect, Inspections, GlobalOnly, ChainInv, Nic
<1>4. ASSUME CreateFile(b) PROVE ChainInv(b)'
  BY <1>4 DEF CreateFile, ChainInv, Nic
<1>5. ASSUME FillFile(b) PROVE ChainInv(b)'
  BY <1>5 DEF FillFile, Forget, ChainInv, Nic
<1>6. ASSUME AddFails(b) PROVE ChainInv(b)'
  BY <1>6 DEF AddFails, Mishap, Forget, ChainInv, Nic
<1>7. ASSUME Up(b) PROVE ChainInv(b)'
  BY <1>7 DEF Up, ChainInv, Nic
<1>8. ASSUME Stop(b) PROVE ChainInv(b)'
  BY <1>8 DEF Stop, ChainInv, Nic
<1>9. ASSUME NEW i \in Ifaces, StartDel(b, i) PROVE ChainInv(b)'
  BY <1>9 DEF StartDel, ChainInv, Nic
<1>10. ASSUME NEW f \in Nics, ReadFile(b, f) PROVE ChainInv(b)'
  <2>1. at[b] = "scan" /\ pos[b] = 0
    BY <1>10 DEF ReadFile, ChainInv
  <2>2. CASE Found(b, f)
    <3>1. at'[b] = "unplug" /\ pos'[b] = Posts + 1 /\ Nic(b)' = Nic(b) /\ plugged' = plugged
      BY <2>2 DEF Found, Nic
    <3>2. plugged[Nic(b)] \subseteq 0 .. (Posts + 1) - 1 /\ Posts + 1 \in 1 .. Posts + 1
      BY <2>1 DEF Chain
    <3>3. QED
      BY <3>1, <3>2 DEF ChainInv
  <2>3. CASE ~Found(b, f)
    BY <1>10, <2>1, <2>3 DEF ReadFile, Returned, ChainInv
  <2>4. QED
    BY <2>2, <2>3
<1>11. ASSUME NoEntry(b) PROVE ChainInv(b)'
  BY <1>11 DEF NoEntry, Returned, ChainInv, Nic
<1>12. ASSUME Unplug(b) PROVE ChainInv(b)'
  <2>1. at[b] = "unplug" /\ Nic(b) \in Nics /\ Nic(b)[1] = b /\ Nic(b)' = Nic(b)
    BY <1>12 DEF Unplug, Nic
  <2>2. pos[b] \in 1 .. Posts + 1 /\ plugged[Nic(b)] \subseteq 0 .. pos[b] - 1
    BY <2>1 DEF ChainInv
  <2>3. pos'[b] = pos[b] - 1 /\ plugged'[Nic(b)] = plugged[Nic(b)] \ {pos[b] - 1}
    BY <1>12, <2>1 DEF Unplug, UnplugNext
  <2>4. plugged'[Nic(b)] \subseteq 0 .. (pos[b] - 1) - 1
    BY <2>2, <2>3
  <2>5. CASE pos[b] = 1
    BY <1>12, <2>3, <2>5 DEF Unplug, ChainInv
  <2>6. CASE pos[b] # 1
    <3>1. at'[b] = "unplug"
      BY <1>12, <2>6 DEF Unplug
    <3>2. pos[b] - 1 \in 1 .. Posts + 1
      BY <2>2, <2>6
    <3>3. QED
      BY <2>1, <2>3, <2>4, <3>1, <3>2 DEF ChainInv
  <2>7. QED
    BY <2>5, <2>6
<1>13. ASSUME UnplugFails(b) \/ DeadlinePasses(b) PROVE ChainInv(b)'
  BY <1>13 DEF UnplugFails, DeadlinePasses, Mishap, Forget, ChainInv, Nic
<1>14. ASSUME Release(b) \/ ReleaseFails(b) PROVE ChainInv(b)'
  BY <1>14 DEF Release, ReleaseFails, Mishap, ChainInv, Nic
<1>15. ASSUME RemoveFile(b) PROVE ChainInv(b)'
  BY <1>15 DEF RemoveFile, ChainInv, Nic
<1>16. ASSUME Return(b) PROVE ChainInv(b)'
  BY <1>16 DEF Return, Returned, ChainInv, Nic
<1>17. ASSUME Kill(b) PROVE ChainInv(b)'
  BY <1>17 DEF Kill, Mishap, Forget, ChainInv, Nic
<1>18. QED
  BY <1>1, <1>2, <1>3, <1>4, <1>5, <1>6, <1>7, <1>8, <1>9, <1>10, <1>11,
     <1>12, <1>13, <1>14, <1>15, <1>16, <1>17
     DEF Step, Process, CmdAdd, CmdDel, Runtime, Failure

(* A step of a sandbox keeps what the directory shows of it.               *)
LEMMA OwnFile ==
  ASSUME SandboxInv, NEW b \in Boxes, Step(b)
  PROVE  FileInv(b)'
<1> USE CallTyped, FoundTyped, ChainAssumption, SandboxAssumption
    DEF AddSteps, DelSteps, Goto, callVars, dirVars, history, chainVars
<1> SandboxTypeOK /\ ChainInv(b) /\ FileInv(b)
  BY DEF SandboxInv, CallInv
<1> NicsOf(b) \subseteq Nics /\ \A f \in Nics : f \in NicsOf(b) <=> f[1] = b
  BY DEF NicsOf, Nics
<1> USE DEF SandboxTypeOK, ChainTypeOK
<1>1. ASSUME NEW i \in Ifaces, StartAdd(b, i) PROVE FileInv(b)'
  BY <1>1 DEF StartAdd, FileInv, Nic, NicsOf
<1>2. ASSUME Plug(b) PROVE FileInv(b)'
  <2>1. at[b] = "plug" /\ at'[b] \in {"plug", "report"} /\ found[b] = None
    BY <1>2 DEF Plug
  <2>2. /\ \A f \in Nics : f # Nic(b) => plugged'[f] = plugged[f]
        /\ UNCHANGED <<call, todo, file, found, released>>
    BY <1>2 DEF Plug, PlugNext
  <2>3. Nic(b)' = Nic(b) /\ file'[Nic(b)] = "none"
    BY <2>1, <2>2 DEF FileInv, Nic
  <2>4. \A f \in NicsOf(b) :
          /\ f \notin released' /\ file'[f] # "partial"
          /\ file'[f] = "full" => plugged'[f] = Chain
          /\ file'[f] = "none" => plugged'[f] = {} \/ f = Nic(b)
    BY <2>1, <2>2, <2>3 DEF FileInv
  <2>5. QED
    BY <2>1, <2>2, <2>3, <2>4 DEF FileInv, NicsOf
<1>3. ASSUME Report(b) PROVE FileInv(b)'
  BY <1>3 DEF Report, Collect, FileInv, Nic, NicsOf
<1>4. ASSUME CreateFile(b) PROVE FileInv(b)'
  BY <1>4 DEF CreateFile, FileInv, Nic, NicsOf
<1>5. ASSUME FillFile(b) PROVE FileInv(b)'
  <2>1. at[b] = "write" /\ at'[b] = "idle" /\ Nic(b) \in Nics /\ plugged' = plugged
    BY <1>5 DEF FillFile, Forget
  <2>2. file' = [file EXCEPT ![Nic(b)] = "full"] /\ plugged[Nic(b)] = Chain
    BY <1>5, <2>1 DEF FillFile, ChainInv
  <2>3. \A f \in NicsOf(b) :
          /\ file'[f] = "full" => plugged'[f] = Chain
          /\ file'[f] = "none" => plugged'[f] = {}
          /\ file'[f] # "partial"
    BY <2>1, <2>2 DEF FileInv
  <2>4. /\ todo'[b] = Ifaces /\ found'[b] = None
        /\ \A f \in NicsOf(b) : f \notin released'
    BY <1>5, <2>1 DEF FillFile, FileInv
  <2>5. QED
    BY <2>1, <2>3, <2>4 DEF FileInv, NicsOf
<1>6. ASSUME AddFails(b) PROVE FileInv(b)'
  BY <1>6 DEF AddFails, Mishap, Forget, FileInv, Nic, NicsOf
<1>7. ASSUME Up(b) PROVE FileInv(b)'
  <2>1. at[b] = "idle" /\ at'[b] = "up" /\ UNCHANGED <<todo, released, file, plugged, call, found>>
    BY <1>7 DEF Up
  <2>2. \A f \in NicsOf(b) : file[f] = "full" /\ plugged[f] = Chain
    BY <1>7, <2>1 DEF Up, FileInv
  <2>3. QED
    BY <2>1, <2>2 DEF FileInv, NicsOf
<1>8. ASSUME Stop(b) PROVE FileInv(b)'
  BY <1>8 DEF Stop, FileInv, Nic, NicsOf
<1>9. ASSUME NEW i \in Ifaces, StartDel(b, i) PROVE FileInv(b)'
  BY <1>9 DEF StartDel, FileInv, Nic, NicsOf
<1>10. ASSUME NEW f \in Nics, ReadFile(b, f) PROVE FileInv(b)'
  BY <1>10 DEF ReadFile, Found, Returned, FileInv, Nic
<1>11. ASSUME NoEntry(b) PROVE FileInv(b)'
  BY <1>11 DEF NoEntry, Returned, FileInv, Nic, NicsOf
<1>12. ASSUME Unplug(b) PROVE FileInv(b)'
  BY <1>12 DEF Unplug, UnplugNext, FileInv, Nic, NicsOf
<1>13. ASSUME UnplugFails(b) \/ DeadlinePasses(b) PROVE FileInv(b)'
  BY <1>13 DEF UnplugFails, DeadlinePasses, Mishap, Forget, FileInv, Nic, NicsOf
<1>14. ASSUME Release(b) \/ ReleaseFails(b) PROVE FileInv(b)'
  BY <1>14 DEF Release, ReleaseFails, Mishap, FileInv, Nic, NicsOf
<1>15. ASSUME RemoveFile(b) PROVE FileInv(b)'
  BY <1>15 DEF RemoveFile, FileInv, Nic, NicsOf
<1>16. ASSUME Return(b) PROVE FileInv(b)'
  BY <1>16 DEF Return, Returned, FileInv, Nic, NicsOf
<1>17. ASSUME Kill(b) PROVE FileInv(b)'
  BY <1>17 DEF Kill, Mishap, Forget, FileInv, Nic, NicsOf
<1>18. QED
  BY <1>1, <1>2, <1>3, <1>4, <1>5, <1>6, <1>7, <1>8, <1>9, <1>10, <1>11,
     <1>12, <1>13, <1>14, <1>15, <1>16, <1>17
     DEF Step, Process, CmdAdd, CmdDel, Runtime, Failure

(* No step pulls a plugin from under another.                              *)
LEMMA StackNext ==
  ASSUME SandboxInv, NEW b \in Boxes, Step(b)
  PROVE  NothingHangs'
<1> USE CallTyped, AtPlugin DEF Goto, callVars, dirVars, history, chainVars
<1> SandboxTypeOK /\ NothingHangs
  BY DEF SandboxInv
<1> USE DEF SandboxTypeOK, ChainTypeOK, NothingHangs
<1>1. ASSUME NEW i \in Ifaces, StartAdd(b, i) PROVE NothingHangs'
  BY <1>1 DEF StartAdd
<1>2. ASSUME Plug(b) PROVE NothingHangs'
  <2>1. at[b] = "plug" /\ Nic(b) \in Nics /\ Nic(b)[1] = b
    BY <1>2 DEF Plug, AddSteps
  <2>2. pos[b] \in 0 .. Posts /\ plugged[Nic(b)] = 0 .. pos[b] - 1
    BY <2>1, AtPlugin DEF Chain
  <2>3. plugged'[Nic(b)] = 0 .. (pos[b] + 1) - 1 /\ pos[b] + 1 \in 0 .. Posts + 1
    <3>1. plugged'[Nic(b)] = plugged[Nic(b)] \cup {pos[b]}
      BY <1>2, <2>1 DEF Plug, PlugNext
    <3>2. QED
      BY <2>2, <3>1, AtPlugin
  <2>4. \A f \in Nics : f # Nic(b) => plugged'[f] = plugged[f]
    BY <1>2 DEF Plug, PlugNext
  <2>5. ASSUME NEW f \in Nics PROVE \E n \in 0 .. Posts + 1 : plugged'[f] = 0 .. n - 1
    <3>1. CASE f = Nic(b)
      BY <2>3, <3>1
    <3>2. CASE f # Nic(b)
      BY <2>4, <3>2
    <3>3. QED
      BY <3>1, <3>2
  <2>6. QED
    BY <2>5
<1>3. ASSUME Report(b) PROVE NothingHangs'
  BY <1>3 DEF Report, Collect
<1>4. ASSUME CreateFile(b) PROVE NothingHangs'
  BY <1>4 DEF CreateFile
<1>5. ASSUME FillFile(b) PROVE NothingHangs'
  BY <1>5 DEF FillFile, Forget
<1>6. ASSUME AddFails(b) PROVE NothingHangs'
  BY <1>6 DEF AddFails, Mishap, Forget
<1>7. ASSUME Up(b) PROVE NothingHangs'
  BY <1>7 DEF Up
<1>8. ASSUME Stop(b) PROVE NothingHangs'
  BY <1>8 DEF Stop
<1>9. ASSUME NEW i \in Ifaces, StartDel(b, i) PROVE NothingHangs'
  BY <1>9 DEF StartDel
<1>10. ASSUME NEW f \in Nics, ReadFile(b, f) PROVE NothingHangs'
  BY <1>10 DEF ReadFile, Found, Returned
<1>11. ASSUME NoEntry(b) PROVE NothingHangs'
  BY <1>11 DEF NoEntry, Returned
<1>12. ASSUME Unplug(b) PROVE NothingHangs'
  <2>1. at[b] = "unplug" /\ Nic(b) \in Nics /\ Nic(b)[1] = b
    BY <1>12 DEF Unplug, DelSteps
  <2>2. pos[b] \in 1 .. Posts + 1 /\ plugged[Nic(b)] \subseteq 0 .. pos[b] - 1
    BY <2>1, AtPlugin
  <2>3. plugged'[Nic(b)] = plugged[Nic(b)] \ {pos[b] - 1}
    BY <1>12, <2>1 DEF Unplug, UnplugNext
  <2>4. PICK n \in 0 .. Posts + 1 : plugged[Nic(b)] = 0 .. n - 1
    BY <2>1
  <2>5. CASE n = pos[b]
    <3>1. plugged'[Nic(b)] = 0 .. (n - 1) - 1 /\ n - 1 \in 0 .. Posts + 1
      BY <2>2, <2>3, <2>4, <2>5, AtPlugin
    <3>2. QED
      BY <1>12, <3>1 DEF Unplug, UnplugNext
  <2>6. CASE n # pos[b]
    <3>1. pos[b] - 1 \notin 0 .. n - 1
      <4>1. n <= pos[b]
        <5>1. n = 0 \/ n - 1 \in 0 .. n - 1
          BY <2>4
        <5>2. QED
          BY <2>2, <2>4, <5>1, AtPlugin
      <4>2. QED
        BY <2>2, <2>4, <2>6, <4>1, AtPlugin
    <3>2. plugged'[Nic(b)] = 0 .. n - 1
      BY <2>3, <2>4, <3>1
    <3>3. QED
      BY <1>12, <2>4, <3>2 DEF Unplug, UnplugNext
  <2>7. QED
    BY <2>5, <2>6
<1>13. ASSUME UnplugFails(b) \/ DeadlinePasses(b) PROVE NothingHangs'
  BY <1>13 DEF UnplugFails, DeadlinePasses, Mishap, Forget
<1>14. ASSUME Release(b) \/ ReleaseFails(b) PROVE NothingHangs'
  BY <1>14 DEF Release, ReleaseFails, Mishap
<1>15. ASSUME RemoveFile(b) PROVE NothingHangs'
  BY <1>15 DEF RemoveFile
<1>16. ASSUME Return(b) PROVE NothingHangs'
  BY <1>16 DEF Return, Returned
<1>17. ASSUME Kill(b) PROVE NothingHangs'
  BY <1>17 DEF Kill, Mishap, Forget
<1>18. QED
  BY <1>1, <1>2, <1>3, <1>4, <1>5, <1>6, <1>7, <1>8, <1>9, <1>10, <1>11,
     <1>12, <1>13, <1>14, <1>15, <1>16, <1>17
     DEF Step, Process, CmdAdd, CmdDel, Runtime, Failure

(* Every step keeps the invariant.                                         *)
LEMMA SandboxStep == SandboxInv /\ [Next]_vars => SandboxInv'
<1> SUFFICES ASSUME SandboxInv, [Next]_vars PROVE SandboxInv'
  OBVIOUS
<1>1. CASE UNCHANGED vars
  <2>1. SandboxTypeOK' /\ NothingHangs'
    BY <1>1 DEF vars, SandboxInv, SandboxTypeOK, ChainTypeOK, NothingHangs
  <2>2. ASSUME NEW b \in Boxes PROVE ChainInv(b)' /\ FileInv(b)'
    BY <1>1, UntouchedInv DEF vars, Untouched
  <2>3. QED
    BY <2>1, <2>2 DEF SandboxInv, CallInv
<1>2. CASE \E a \in Boxes : Step(a)
  <2> PICK a \in Boxes : Step(a)
    BY <1>2
  <2>1. SandboxTypeOK' /\ NothingHangs'
    BY SandboxTypeNext, StackNext
  <2>2. ASSUME NEW b \in Boxes PROVE ChainInv(b)' /\ FileInv(b)'
    <3>1. CASE a = b
      BY <3>1, OwnChain, OwnFile
    <3>2. CASE a # b
      BY <3>2, OthersUntouched, UntouchedInv
    <3>3. QED
      BY <3>1, <3>2
  <2>3. QED
    BY <2>1, <2>2 DEF SandboxInv, CallInv
<1>3. QED
  BY <1>1, <1>2 DEF Next, Step, Finished

(* SandboxInv holds in every reachable state.                              *)
THEOREM SandboxSafe == Spec => []SandboxInv
<1>1. QED
  BY SandboxInitInv, SandboxStep, PTL DEF Spec

(* CniSandboxes!SandboxTypeOK: the variables keep their types, and a call  *)
(* is in progress exactly where one can be.                                *)
THEOREM SandboxesTyped == Spec => []SandboxTypeOK
<1>1. SandboxInv => SandboxTypeOK
  BY DEF SandboxInv
<1>2. QED
  BY <1>1, SandboxSafe, PTL

(* CniSandboxes!NothingHangs: a plugin never loses the one it was built    *)
(* on, whatever fails, is killed or is repeated.                           *)
THEOREM ChainsStaySound == Spec => []NothingHangs
<1>1. SandboxInv => NothingHangs
  BY DEF SandboxInv
<1>2. QED
  BY <1>1, SandboxSafe, PTL

(* CniSandboxes!UpIsLeftAlone: a running sandbox keeps its entries and its *)
(* plugins, whatever the DELs of other sandboxes do.                       *)
THEOREM RunningIsLeftAlone == Spec => []UpIsLeftAlone
<1>1. SandboxInv => UpIsLeftAlone
  BY DEF SandboxInv, CallInv, FileInv, UpIsLeftAlone
<1>2. QED
  BY <1>1, SandboxSafe, PTL

(* CniSandboxes!ToldWhatIpamGave: what an ADD reports has every address    *)
(* that the IPAM plugin listed and no link-local one.                      *)
THEOREM ReportsAreComplete == Spec => []ToldWhatIpamGave
<1>1. SandboxInv => ToldWhatIpamGave
  BY DEF SandboxInv, SandboxTypeOK, ChainTypeOK, CallInv, ChainInv, ToldWhatIpamGave
<1>2. QED
  BY <1>1, SandboxSafe, PTL

==============================================================================
