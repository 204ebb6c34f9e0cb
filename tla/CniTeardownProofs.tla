--------------------------- MODULE CniTeardownProofs ---------------------------
(***************************************************************************)
(* That the DELs of a sandbox, each of which takes any entry of it, leave  *)
(* no entry, no interface without its release made or tried, and no        *)
(* plugin: by counting them.                                               *)
(***************************************************************************)
EXTENDS CniSandboxesProofs

(* The entries of a sandbox that are there.                                *)
Left(b) == {f \in NicsOf(b) : file[f] # "none"}

(* How many DELs will still look for one.                                  *)
Owed(b) == Cardinality(todo[b]) - (IF at[b] = "return" THEN 1 ELSE 0)

TornDown(b) == at[b] \in {"down", "done"} \cup DelSteps

(* There are no more entries than DELs to come, and a scan sees them all.  *)
CountInv(b) ==
  TornDown(b) =>
    /\ at[b] \in DelSteps => call[b] \in todo[b]
    /\ at[b] = "done" => todo[b] = {}
    /\ "crossed" \notin mishap[b] =>
         /\ Cardinality(Left(b)) <= Owed(b)
         /\ at[b] = "scan" => Left(b) \subseteq left[b] /\ \A f \in left[b] : file[f] # "none"
    /\ mishap[b] = {} => Cardinality(Left(b)) = Owed(b)

(* An entry goes only after its interface was released, or could not be.   *)
ReleaseInv(b) ==
  TornDown(b) =>
    /\ at[b] = "remove" => found[b] \in released \cup missed
    /\ "add" \notin mishap[b] =>
         \A f \in NicsOf(b) : file[f] = "none" => f \in released \cup missed

(* A DEL that returns leaves no plugin of its interface.                   *)
UnpluggedInv(b) ==
  TornDown(b) /\ mishap[b] = {} =>
    /\ at[b] \in {"release", "remove", "return"} => plugged[Nic(b)] = {}
    /\ \A i \in Ifaces \ todo[b] : plugged[<<b, i>>] = {}

TeardownInv == \A b \in Boxes : CountInv(b) /\ ReleaseInv(b) /\ UnpluggedInv(b)

(* Finite sets: the interfaces of a sandbox and their entries.             *)
LEMMA Finite ==
  ASSUME SandboxInv, NEW b \in Boxes
  PROVE  /\ IsFiniteSet(NicsOf(b)) /\ Cardinality(NicsOf(b)) = Cardinality(Ifaces)
         /\ IsFiniteSet(Left(b)) /\ Cardinality(Left(b)) \in Nat
         /\ IsFiniteSet(todo[b]) /\ Cardinality(todo[b]) \in Nat
         /\ Cardinality(Ifaces) \in Nat
         /\ Cardinality(Left(b)) <= Cardinality(Ifaces)
<1>1. IsFiniteSet(Ifaces) /\ todo[b] \subseteq Ifaces
  BY SandboxAssumption DEF SandboxInv, SandboxTypeOK
<1>2. IsFiniteSet({b}) /\ Cardinality({b}) = 1
  BY FS_Singleton
<1>3. IsFiniteSet(NicsOf(b)) /\ Cardinality(NicsOf(b)) = Cardinality({b}) * Cardinality(Ifaces)
  BY <1>1, <1>2, FS_Product DEF NicsOf
<1>4. Cardinality(Ifaces) \in Nat
  BY <1>1, FS_CardinalityType
<1>5. Left(b) \subseteq NicsOf(b)
  BY DEF Left
<1>6. IsFiniteSet(Left(b)) /\ Cardinality(Left(b)) <= Cardinality(NicsOf(b))
  BY <1>3, <1>5, FS_Subset
<1>7. IsFiniteSet(todo[b])
  BY <1>1, FS_Subset
<1>8. QED
  BY <1>2, <1>3, <1>4, <1>6, <1>7, FS_CardinalityType

(* Counting entries and calls.                                             *)
LEMMA EntryGone ==
  ASSUME SandboxInv, NEW b \in Boxes, NEW f \in Left(b)
  PROVE  Cardinality(Left(b) \ {f}) = Cardinality(Left(b)) - 1
  BY Finite, FS_RemoveElement

LEMMA NoneLeft == \A S : S \subseteq {} => Cardinality(S) = 0
  BY FS_EmptySet

LEMMA CallReturned ==
  ASSUME SandboxInv, NEW b \in Boxes, NEW i \in todo[b]
  PROVE  Cardinality(todo[b] \ {i}) = Cardinality(todo[b]) - 1
  BY Finite, FS_RemoveElement

LEMMA FewerCalls ==
  ASSUME SandboxInv, NEW b \in Boxes, NEW S, S \subseteq todo[b]
  PROVE  IsFiniteSet(S) /\ Cardinality(S) \in Nat
  BY Finite, FS_Subset, FS_CardinalityType

(* Before the first call nothing is torn down.                             *)
LEMMA TeardownInit == Init => TeardownInv
  BY DEF Init, TeardownInv, CountInv, ReleaseInv, UnpluggedInv, TornDown, DelSteps

(* What went wrong is not forgotten; who removes an entry that the scan of *)
(* another sandbox has still to read has crossed it.                       *)
LEMMA Crossing ==
  ASSUME SandboxInv, NEW a \in Boxes, NEW b \in Boxes, Step(a)
  PROVE  /\ mishap[b] \subseteq mishap'[b]
         /\ \A f \in left[b] :
              file[f] # "none" => file'[f] # "none" \/ "crossed" \in mishap'[b]
<1> USE CallTyped, FoundTyped DEF AddSteps, DelSteps, Goto, callVars, dirVars, history
<1> SandboxTypeOK
  BY DEF SandboxInv
<1> USE DEF SandboxTypeOK
<1> DEFINE Kept == /\ mishap[b] \subseteq mishap'[b]
                  /\ \A f \in left[b] :
                        file[f] # "none" => file'[f] # "none" \/ "crossed" \in mishap'[b]
<1>1. ASSUME NEW i \in Ifaces, StartAdd(a, i) PROVE Kept
  BY <1>1 DEF StartAdd
<1>2. ASSUME Plug(a) PROVE Kept
  BY <1>2 DEF Plug
<1>3. ASSUME Report(a) PROVE Kept
  BY <1>3 DEF Report
<1>4. ASSUME CreateFile(a) PROVE Kept
  BY <1>4 DEF CreateFile
<1>5. ASSUME FillFile(a) PROVE Kept
  BY <1>5 DEF FillFile
<1>6. ASSUME AddFails(a) PROVE Kept
  BY <1>6 DEF AddFails, Mishap
<1>7. ASSUME Up(a) PROVE Kept
  BY <1>7 DEF Up
<1>8. ASSUME Stop(a) PROVE Kept
  BY <1>8 DEF Stop
<1>9. ASSUME NEW i \in Ifaces, StartDel(a, i) PROVE Kept
  BY <1>9 DEF StartDel
<1>10. ASSUME NEW f \in Nics, ReadFile(a, f) PROVE Kept
  BY <1>10 DEF ReadFile, Found, Returned
<1>11. ASSUME NoEntry(a) PROVE Kept
  BY <1>11 DEF NoEntry, Returned
<1>12. ASSUME Unplug(a) PROVE Kept
  BY <1>12 DEF Unplug
<1>13. ASSUME UnplugFails(a) \/ DeadlinePasses(a) PROVE Kept
  BY <1>13 DEF UnplugFails, DeadlinePasses, Mishap
<1>14. ASSUME Release(a) \/ ReleaseFails(a) PROVE Kept
  BY <1>14 DEF Release, ReleaseFails, Mishap
<1>15. ASSUME RemoveFile(a) PROVE Kept
  BY <1>15 DEF RemoveFile
<1>16. ASSUME Return(a) PROVE Kept
  BY <1>16 DEF Return, Returned
<1>17. ASSUME Kill(a) PROVE Kept
  BY <1>17 DEF Kill, Mishap
<1>18. QED
  BY <1>1, <1>2, <1>3, <1>4, <1>5, <1>6, <1>7, <1>8, <1>9, <1>10, <1>11,
     <1>12, <1>13, <1>14, <1>15, <1>16, <1>17
     DEF Step, Process, CmdAdd, CmdDel, Runtime, Failure

(* The steps of other sandboxes.                                           *)
LEMMA UntouchedTeardown ==
  ASSUME SandboxInv, TeardownInv, NEW a \in Boxes, NEW b \in Boxes, a # b, Step(a)
  PROVE  CountInv(b)' /\ ReleaseInv(b)' /\ UnpluggedInv(b)'
<1>1. Untouched(b)
  BY OthersUntouched
<1>2. NicsOf(b)' = NicsOf(b) /\ Nic(b)' = Nic(b)
  BY <1>1 DEF Untouched, NicsOf, Nic
<1>3. Left(b)' = Left(b) /\ Owed(b)' = Owed(b) /\ (TornDown(b)' <=> TornDown(b))
  BY <1>1, <1>2 DEF Untouched, Left, Owed, TornDown, DelSteps
<1>4. CountInv(b) /\ ReleaseInv(b) /\ UnpluggedInv(b)
  BY DEF TeardownInv
<1>5. at[b] \in DelSteps => Nic(b) \in NicsOf(b)
  BY CallTyped
<1>6. found[b] # None => found[b] \in NicsOf(b)
  BY DEF SandboxInv, CallInv, FileInv
<1>7. CountInv(b)'
  BY <1>1, <1>3, <1>4, Crossing DEF CountInv, Untouched, DelSteps
<1>8. ReleaseInv(b)'
  BY <1>1, <1>2, <1>3, <1>4, <1>6, FoundTyped, Crossing DEF ReleaseInv, Untouched
<1>9. UnpluggedInv(b)'
  BY <1>1, <1>2, <1>3, <1>4, <1>5, Crossing DEF UnpluggedInv, Untouched, DelSteps, NicsOf
<1>10. QED
  BY <1>7, <1>8, <1>9

(* A scan of a sandbox without mishaps finds an entry.                     *)
LEMMA ScanFinds ==
  ASSUME SandboxInv, NEW b \in Boxes, CountInv(b), at[b] = "scan", mishap[b] = {}
  PROVE  left[b] # {} /\ \A f \in left[b] : file[f] # "none"
<1>1. /\ call[b] \in todo[b] /\ Left(b) \subseteq left[b]
      /\ Cardinality(Left(b)) = Cardinality(todo[b])
  BY Finite DEF CountInv, TornDown, DelSteps, Owed
<1>2. todo[b] # {} /\ Cardinality(todo[b]) # 0
  BY <1>1, Finite, FS_EmptySet
<1>3. Left(b) # {}
  BY <1>1, <1>2, Finite, FS_EmptySet
<1>4. QED
  BY <1>1, <1>3 DEF CountInv, TornDown, DelSteps

(* A DEL removes the entry that it released, and no other.                 *)
LEMMA OwnRelease ==
  ASSUME SandboxInv, TeardownInv, NEW b \in Boxes, Step(b)
  PROVE  ReleaseInv(b)'
<1> USE CallTyped, FoundTyped, SandboxAssumption
    DEF AddSteps, DelSteps, Goto, callVars, dirVars, history, TornDown, ReleaseInv, SandboxTypeOK
<1> SandboxTypeOK /\ FileInv(b) /\ ReleaseInv(b) /\ NicsOf(b) \subseteq Nics
  BY DEF SandboxInv, CallInv, TeardownInv, NicsOf, Nics
<1>1. ASSUME NEW i \in Ifaces, StartAdd(b, i) PROVE ReleaseInv(b)'
  BY <1>1 DEF StartAdd, NicsOf
<1>2. ASSUME Plug(b) PROVE ReleaseInv(b)'
  BY <1>2 DEF Plug, NicsOf
<1>3. ASSUME Report(b) PROVE ReleaseInv(b)'
  BY <1>3 DEF Report, NicsOf
<1>4. ASSUME CreateFile(b) PROVE ReleaseInv(b)'
  BY <1>4 DEF CreateFile, NicsOf
<1>5. ASSUME FillFile(b) PROVE ReleaseInv(b)'
  BY <1>5 DEF FillFile, NicsOf
<1>6. ASSUME AddFails(b) PROVE ReleaseInv(b)'
  BY <1>6 DEF AddFails, Mishap, NicsOf
<1>7. ASSUME Up(b) PROVE ReleaseInv(b)'
  BY <1>7 DEF Up, NicsOf
<1>8. ASSUME Stop(b) PROVE ReleaseInv(b)'
  BY <1>8 DEF Stop, FileInv, NicsOf
<1>9. ASSUME NEW i \in Ifaces, StartDel(b, i) PROVE ReleaseInv(b)'
  BY <1>9 DEF StartDel, NicsOf
<1>10. ASSUME NEW f \in Nics, ReadFile(b, f) PROVE ReleaseInv(b)'
  BY <1>10 DEF ReadFile, Found, Returned, NicsOf
<1>11. ASSUME NoEntry(b) PROVE ReleaseInv(b)'
  BY <1>11 DEF NoEntry, Returned, NicsOf
<1>12. ASSUME Unplug(b) PROVE ReleaseInv(b)'
  BY <1>12 DEF Unplug, NicsOf
<1>13. ASSUME UnplugFails(b) \/ DeadlinePasses(b) PROVE ReleaseInv(b)'
  BY <1>13 DEF UnplugFails, DeadlinePasses, Mishap, NicsOf
<1>14. ASSUME Release(b) \/ ReleaseFails(b) PROVE ReleaseInv(b)'
  BY <1>14 DEF Release, ReleaseFails, Mishap, NicsOf
<1>15. ASSUME RemoveFile(b) PROVE ReleaseInv(b)'
  BY <1>15 DEF RemoveFile, NicsOf
<1>16. ASSUME Return(b) PROVE ReleaseInv(b)'
  BY <1>16 DEF Return, Returned, NicsOf
<1>17. ASSUME Kill(b) PROVE ReleaseInv(b)'
  BY <1>17 DEF Kill, Mishap, NicsOf
<1>18. QED
  BY <1>1, <1>2, <1>3, <1>4, <1>5, <1>6, <1>7, <1>8, <1>9, <1>10, <1>11,
     <1>12, <1>13, <1>14, <1>15, <1>16, <1>17
     DEF Step, Process, CmdAdd, CmdDel, Runtime, Failure

(* A DEL that goes on to release has undone the chain of its interface.    *)
LEMMA OwnUnplugged ==
  ASSUME SandboxInv, TeardownInv, NEW b \in Boxes, Step(b)
  PROVE  UnpluggedInv(b)'
<1> USE CallTyped, SandboxAssumption
    DEF AddSteps, DelSteps, Goto, callVars, dirVars, history, chainVars, TornDown, UnpluggedInv,
        SandboxTypeOK, ChainTypeOK
<1> SandboxTypeOK /\ FileInv(b) /\ CountInv(b) /\ UnpluggedInv(b)
  BY DEF SandboxInv, CallInv, TeardownInv
<1> \A i \in Ifaces : <<b, i>> \in Nics
  BY DEF Nics
<1>1. ASSUME NEW i \in Ifaces, StartAdd(b, i) PROVE UnpluggedInv(b)'
  BY <1>1 DEF StartAdd, Nic
<1>2. ASSUME Plug(b) PROVE UnpluggedInv(b)'
  BY <1>2 DEF Plug, Nic
<1>3. ASSUME Report(b) PROVE UnpluggedInv(b)'
  BY <1>3 DEF Report, Nic
<1>4. ASSUME CreateFile(b) PROVE UnpluggedInv(b)'
  BY <1>4 DEF CreateFile, Nic
<1>5. ASSUME FillFile(b) PROVE UnpluggedInv(b)'
  BY <1>5 DEF FillFile, Nic
<1>6. ASSUME AddFails(b) PROVE UnpluggedInv(b)'
  BY <1>6 DEF AddFails, Mishap, Forget, Nic
<1>7. ASSUME Up(b) PROVE UnpluggedInv(b)'
  BY <1>7 DEF Up, Nic
<1>8. ASSUME Stop(b) PROVE UnpluggedInv(b)'
  BY <1>8 DEF Stop, FileInv, Nic
<1>9. ASSUME NEW i \in Ifaces, StartDel(b, i) PROVE UnpluggedInv(b)'
  BY <1>9 DEF StartDel, Nic
<1>10. ASSUME NEW f \in Nics, ReadFile(b, f) PROVE UnpluggedInv(b)'
  <2>1. mishap[b] = {} => file[f] # "none"
    BY <1>10, ScanFinds DEF ReadFile
  <2>2. QED
    BY <1>10, <2>1 DEF ReadFile, Found, Returned
<1>11. ASSUME NoEntry(b) PROVE UnpluggedInv(b)'
  <2>1. mishap[b] # {}
    BY <1>11, ScanFinds DEF NoEntry
  <2>2. QED
    BY <1>11, <2>1 DEF NoEntry
<1>12. ASSUME Unplug(b) PROVE UnpluggedInv(b)'
  <2>1. at[b] = "unplug" /\ Nic(b) \in Nics /\ Nic(b)[1] = b /\ Nic(b)' = Nic(b)
    BY <1>12 DEF Unplug, Nic
  <2>2. pos[b] \in 1 .. Posts + 1 /\ plugged[Nic(b)] \subseteq 0 .. pos[b] - 1
    BY <2>1, AtPlugin
  <2>3. /\ plugged'[Nic(b)] = plugged[Nic(b)] \ {pos[b] - 1}
        /\ \A f \in Nics : plugged'[f] \subseteq plugged[f]
    BY <1>12, <2>1 DEF Unplug, UnplugNext
  <2>4. pos[b] = 1 => plugged'[Nic(b)] = {}
    BY <2>2, <2>3
  <2>5. UNCHANGED <<todo, mishap>> /\ at'[b] = IF pos[b] = 1 THEN "release" ELSE "unplug"
    BY <1>12 DEF Unplug
  <2>6. QED
    BY <2>1, <2>3, <2>4, <2>5
<1>13. ASSUME UnplugFails(b) \/ DeadlinePasses(b) PROVE UnpluggedInv(b)'
  <2>1. "plugin" \in mishap'[b]
    BY <1>13 DEF UnplugFails, DeadlinePasses, Mishap
  <2>2. QED
    BY <2>1
<1>14. ASSUME Release(b) \/ ReleaseFails(b) PROVE UnpluggedInv(b)'
  BY <1>14 DEF Release, ReleaseFails, Mishap, Nic
<1>15. ASSUME RemoveFile(b) PROVE UnpluggedInv(b)'
  BY <1>15 DEF RemoveFile, Nic
<1>16. ASSUME Return(b) PROVE UnpluggedInv(b)'
  BY <1>16 DEF Return, Returned, Nic
<1>17. ASSUME Kill(b) PROVE UnpluggedInv(b)'
  BY <1>17 DEF Kill, Mishap, Forget, Nic
<1>18. QED
  BY <1>1, <1>2, <1>3, <1>4, <1>5, <1>6, <1>7, <1>8, <1>9, <1>10, <1>11,
     <1>12, <1>13, <1>14, <1>15, <1>16, <1>17
     DEF Step, Process, CmdAdd, CmdDel, Runtime, Failure

(* A DEL removes one entry, and there is one DEL less to come.             *)
LEMMA OwnCount ==
  ASSUME SandboxInv, TeardownInv, NEW b \in Boxes, Step(b)
  PROVE  CountInv(b)'
<1> USE CallTyped, FoundTyped, SandboxAssumption
    DEF AddSteps, DelSteps, Goto, callVars, dirVars, history, TornDown, CountInv, SandboxTypeOK
<1> SandboxTypeOK /\ FileInv(b) /\ CountInv(b) /\ NicsOf(b) \subseteq Nics
  BY DEF SandboxInv, CallInv, TeardownInv, NicsOf, Nics
<1>1. ASSUME NEW i \in Ifaces, StartAdd(b, i) PROVE CountInv(b)'
  BY <1>1 DEF StartAdd, Left, Owed
<1>2. ASSUME Plug(b) PROVE CountInv(b)'
  BY <1>2 DEF Plug, Left, Owed
<1>3. ASSUME Report(b) PROVE CountInv(b)'
  BY <1>3 DEF Report, Left, Owed
<1>4. ASSUME CreateFile(b) PROVE CountInv(b)'
  BY <1>4 DEF CreateFile, Left, Owed
<1>5. ASSUME FillFile(b) PROVE CountInv(b)'
  BY <1>5 DEF FillFile, Left, Owed
<1>6. ASSUME AddFails(b) PROVE CountInv(b)'
  <2>1. todo'[b] = Ifaces /\ at'[b] = "down" /\ "add" \in mishap'[b]
    BY <1>6 DEF AddFails, Mishap, FileInv
  <2>2. Left(b)' = Left(b)
    BY <1>6 DEF AddFails, Left, NicsOf
  <2>3. QED
    BY <2>1, <2>2, Finite DEF Owed
<1>7. ASSUME Up(b) PROVE CountInv(b)'
  BY <1>7 DEF Up, Left, Owed
<1>8. ASSUME Stop(b) PROVE CountInv(b)'
  <2>1. todo'[b] = Ifaces /\ at'[b] = "down"
    BY <1>8 DEF Stop, FileInv
  <2>2. Left(b)' = NicsOf(b)
    BY <1>8 DEF Stop, Left, FileInv, NicsOf
  <2>3. QED
    BY <2>1, <2>2, Finite DEF Owed
<1>9. ASSUME NEW i \in Ifaces, StartDel(b, i) PROVE CountInv(b)'
  BY <1>9 DEF StartDel, Left, Owed
<1>10. ASSUME NEW f \in Nics, ReadFile(b, f) PROVE CountInv(b)'
  <2>1. at[b] = "scan" /\ f \in left[b] /\ mishap' = mishap
    BY <1>10 DEF ReadFile
  <2>2. Left(b)' = Left(b)
    BY <1>10 DEF ReadFile, Left, NicsOf
  <2>3. CASE file[f] = "none"
    BY <1>10, <2>1, <2>3 DEF ReadFile, Returned
  <2>4. CASE file[f] = "partial"
    BY <1>10, <2>1, <2>2, <2>4 DEF ReadFile, Owed
  <2>5. CASE file[f] = "full" /\ f[1] = b
    BY <1>10, <2>1, <2>2, <2>5 DEF ReadFile, Found, Owed
  <2>6. CASE file[f] = "full" /\ f[1] # b
    <3>1. f \notin Left(b)
      BY <2>6 DEF Left, NicsOf
    <3>2. UNCHANGED <<at, call, todo, file>> /\ left'[b] = left[b] \ {f}
      BY <1>10, <2>6 DEF ReadFile
    <3>3. QED
      BY <2>1, <2>2, <3>1, <3>2 DEF Owed
  <2>7. QED
    BY <2>3, <2>4, <2>5, <2>6
<1>11. ASSUME NoEntry(b) PROVE CountInv(b)'
  <2>1. mishap[b] # {} /\ mishap' = mishap /\ Left(b)' = Left(b)
    BY <1>11, ScanFinds DEF NoEntry, Left, NicsOf
  <2>2. "crossed" \notin mishap[b] => Cardinality(Left(b)) = 0
    BY <1>11, NoneLeft DEF NoEntry
  <2>3. IsFiniteSet(todo'[b]) /\ Cardinality(todo'[b]) \in Nat
    <3>1. todo'[b] \subseteq todo[b]
      BY <1>11 DEF NoEntry, Returned
    <3>2. QED
      BY <3>1, FewerCalls
  <2>4. /\ at'[b] = IF todo[b] = {call[b]} THEN "done" ELSE "down"
        /\ todo'[b] = todo[b] \ {call[b]}
    BY <1>11 DEF NoEntry, Returned
  <2>5. QED
    BY <2>1, <2>2, <2>3, <2>4 DEF Owed
<1>12. ASSUME Unplug(b) PROVE CountInv(b)'
  BY <1>12 DEF Unplug, Left, Owed
<1>13. ASSUME UnplugFails(b) \/ DeadlinePasses(b) \/ Release(b) \/ ReleaseFails(b)
       PROVE  CountInv(b)'
  <2>1. /\ at[b] \in {"unplug", "release"} /\ at'[b] \in {"release", "remove"}
        /\ UNCHANGED <<call, todo, file>> /\ mishap[b] \subseteq mishap'[b]
    BY <1>13 DEF UnplugFails, DeadlinePasses, Release, ReleaseFails, Mishap
  <2>2. Left(b)' = Left(b) /\ Owed(b)' = Owed(b)
    BY <2>1 DEF Left, NicsOf, Owed
  <2>3. QED
    BY <2>1, <2>2
<1>14. ASSUME RemoveFile(b) PROVE CountInv(b)'
  <2>1. Left(b)' = Left(b) \ {found[b]} /\ found[b] \in Left(b)
    BY <1>14 DEF RemoveFile, Left, FileInv, NicsOf
  <2>2. Cardinality(Left(b)') = Cardinality(Left(b)) - 1
    BY <2>1, EntryGone
  <2>3. UNCHANGED <<call, todo>> /\ at[b] = "remove" /\ at'[b] = "return"
    BY <1>14 DEF RemoveFile
  <2>4. mishap[b] \subseteq mishap'[b]
    BY <1>14 DEF RemoveFile
  <2>5. QED
    BY <2>2, <2>3, <2>4, Finite DEF Owed
<1>15. ASSUME Return(b) PROVE CountInv(b)'
  <2>1. Left(b)' = Left(b) /\ mishap' = mishap /\ at[b] = "return"
    BY <1>15 DEF Return, Left, NicsOf
  <2>2. /\ todo'[b] = todo[b] \ {call[b]} /\ call[b] \in todo[b]
        /\ at'[b] = IF todo[b] = {call[b]} THEN "done" ELSE "down"
    BY <1>15 DEF Return, Returned
  <2>3. Cardinality(todo'[b]) = Cardinality(todo[b]) - 1
    BY <2>2, CallReturned
  <2>4. QED
    BY <2>1, <2>2, <2>3, Finite DEF Owed
<1>16. ASSUME Kill(b) PROVE CountInv(b)'
  <2>1. Left(b)' = Left(b) /\ todo' = todo /\ at'[b] = "down"
    BY <1>16 DEF Kill, Left, NicsOf
  <2>2. mishap[b] \subseteq mishap'[b] /\ (at[b] = "return" => mishap'[b] # {})
    BY <1>16 DEF Kill, Mishap
  <2>3. at[b] \in DelSteps
    BY <1>16 DEF Kill
  <2>4. QED
    BY <2>1, <2>2, <2>3, Finite DEF Owed
<1>17. QED
  BY <1>1, <1>2, <1>3, <1>4, <1>5, <1>6, <1>7, <1>8, <1>9, <1>10, <1>11,
     <1>12, <1>13, <1>14, <1>15, <1>16
     DEF Step, Process, CmdAdd, CmdDel, Runtime, Failure

(* Every step keeps the three.                                             *)
LEMMA TeardownStep == SandboxInv /\ TeardownInv /\ [Next]_vars => TeardownInv'
<1> SUFFICES ASSUME SandboxInv, TeardownInv, [Next]_vars PROVE TeardownInv'
  OBVIOUS
<1>1. CASE UNCHANGED vars
  BY <1>1 DEF vars, TeardownInv, CountInv, ReleaseInv, UnpluggedInv, TornDown, Left, Owed, Nic,
              NicsOf, DelSteps
<1>2. CASE \E a \in Boxes : Step(a)
  <2> PICK a \in Boxes : Step(a)
    BY <1>2
  <2>1. ASSUME NEW b \in Boxes PROVE CountInv(b)' /\ ReleaseInv(b)' /\ UnpluggedInv(b)'
    <3>1. CASE a = b
      BY <3>1, OwnCount, OwnRelease, OwnUnplugged
    <3>2. CASE a # b
      BY <3>2, UntouchedTeardown
    <3>3. QED
      BY <3>1, <3>2
  <2>2. QED
    BY <2>1 DEF TeardownInv
<1>3. QED
  BY <1>1, <1>2 DEF Next, Step, Finished

(* TeardownInv holds in every reachable state.                             *)
THEOREM TeardownSafe == Spec => []TeardownInv
<1>1. QED
  BY SandboxSafe, TeardownInit, TeardownStep, PTL DEF Spec

(* CniSandboxes!DoneIsReleased: when the DELs of a sandbox are over no     *)
(* entry is left and every interface that had one was released, except     *)
(* those whose own release could not be made, unless a scan was crossed.   *)
THEOREM TeardownReleases == Spec => []DoneIsReleased
<1>1. SandboxInv /\ TeardownInv => DoneIsReleased
  <2> SUFFICES ASSUME SandboxInv, TeardownInv, NEW b \in Boxes, at[b] = "done",
                      "crossed" \notin mishap[b], NEW f \in NicsOf(b)
               PROVE  file[f] = "none" /\ ("add" \notin mishap[b] => f \in released \cup missed)
    BY DEF DoneIsReleased
  <2>1. Cardinality(Left(b)) <= Cardinality(todo[b]) - 0 /\ todo[b] = {}
    BY DEF TeardownInv, CountInv, TornDown, Owed
  <2>2. Left(b) = {}
    BY <2>1, Finite, FS_EmptySet
  <2>3. file[f] = "none"
    BY <2>2 DEF Left
  <2>4. QED
    BY <2>3 DEF TeardownInv, ReleaseInv, TornDown
<1>2. QED
  BY <1>1, SandboxSafe, TeardownSafe, PTL

(* CniSandboxes!DoneIsUnplugged: nor is any plugin, when nothing went      *)
(* wrong that a repeated call cannot make up for.                          *)
THEOREM TeardownUnplugs == Spec => []DoneIsUnplugged
<1>1. TeardownInv => DoneIsUnplugged
  <2> SUFFICES ASSUME TeardownInv, NEW b \in Boxes, at[b] = "done", mishap[b] = {},
                      NEW f \in NicsOf(b)
               PROVE  plugged[f] = {}
    BY DEF DoneIsUnplugged
  <2>1. todo[b] = {} /\ \A i \in Ifaces \ todo[b] : plugged[<<b, i>>] = {}
    BY DEF TeardownInv, CountInv, UnpluggedInv, TornDown
  <2>2. PICK i \in Ifaces : f = <<b, i>>
    BY DEF NicsOf
  <2>3. QED
    BY <2>1, <2>2
<1>2. QED
  BY <1>1, TeardownSafe, PTL

==============================================================================
