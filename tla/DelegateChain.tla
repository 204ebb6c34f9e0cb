---------------------------- MODULE DelegateChain ----------------------------
(***************************************************************************)
(* The plugins behind cmd/multus-multivpc-cni: ipvlan with its IPAM, then  *)
(* the post delegates, each of which builds on what the one before it set  *)
(* up and is handed its result.  ADD goes up the chain, DEL down, and both *)
(* stop at the first plugin that fails.                                    *)
(*                                                                         *)
(* This module says what one plugin call does; CniSandboxes makes the      *)
(* calls.  Of a result only the address families that it lists for the     *)
(* interface matter.  The plugins themselves are external: a post delegate *)
(* passes on the result that it is handed, as sbr and tuning do.           *)
(***************************************************************************)
EXTENDS Naturals, FiniteSets

CONSTANTS
  Boxes,      (* sandboxes, by the first 12 characters of their container ID  *)
  Ifaces,     (* their additional interfaces                                  *)
  Posts,      (* how many post delegates follow ipvlan                        *)
  Families,   (* families of which an interface has global addresses          *)
  Listed,     (* those that the IPAM plugin lists in its result               *)
  LinkLocal   (* the address that the kernel adds                             *)

ASSUME ChainAssumption ==
  /\ Posts \in Nat
  /\ Listed \subseteq Families
  /\ LinkLocal \notin Families

VARIABLES
  plugged,   (* per interface: the plugins that are set up, by position       *)
  pos,       (* per sandbox: how many plugins below the next step of its call *)
  result,    (* per sandbox: what the result at hand lists                    *)
  told       (* per sandbox: the addresses that collectInterfaceDetails found *)

chainVars == <<plugged, pos, result, told>>
------------------------------------------------------------------------------
Nics == Boxes \X Ifaces

Chain == 0 .. Posts      \* position 0 is ipvlan

ChainInit ==
  /\ plugged = [f \in Nics |-> {}]
  /\ pos = [b \in Boxes |-> 0]
  /\ result = [b \in Boxes |-> {}]
  /\ told = [b \in Boxes |-> {}]

BugPrevResult(b) == {}

(* convertResult: what a post delegate finds as prevResult. *)
PrevResult(b) == result[b]

(* One delegateAdd of runDelegateChain. *)
PlugNext(f) ==
  LET b == f[1] IN
  /\ plugged' = [plugged EXCEPT ![f] = @ \cup {pos[b]}]
  /\ result' = [result EXCEPT ![b] = IF pos[b] = 0 THEN Listed ELSE PrevResult(b)]
  /\ pos' = [pos EXCEPT ![b] = @ + 1]
  /\ UNCHANGED told

BugUnplugNext(f) ==
  /\ plugged' = [plugged EXCEPT ![f] = @ \ {Posts + 1 - pos[f[1]]}]
  /\ pos' = [pos EXCEPT ![f[1]] = @ - 1]
  /\ UNCHANGED <<result, told>>

(* One delegateDel of runDelegateDelChain: the reverse order.  The DEL of  *)
(* a plugin that is not set up succeeds.                                   *)
UnplugNext(f) ==
  /\ plugged' = [plugged EXCEPT ![f] = @ \ {pos[f[1]] - 1}]
  /\ pos' = [pos EXCEPT ![f[1]] = @ - 1]
  /\ UNCHANGED <<result, told>>

(* filterIPv6Global *)
GlobalOnly(addrs) == addrs \ {LinkLocal}

(* InspectInterface: the addresses in the network namespace, or an error   *)
(* that collectInterfaceDetails treats as an interface without any.        *)
Inspections == {{}, Families \cup {LinkLocal}}

(* collectInterfaceDetails: per family what the result lists, else what    *)
(* the namespace shows.                                                    *)
Collect(b) ==
  /\ \E inNetns \in Inspections :
       told' = [told EXCEPT ![b] = GlobalOnly(result[b] \cup inNetns)]
  /\ UNCHANGED <<plugged, pos, result>>

(* A process ends; what it had in memory is gone, what it plugged is not.  *)
Forget(b) ==
  /\ pos' = [pos EXCEPT ![b] = 0]
  /\ result' = [result EXCEPT ![b] = {}]
  /\ told' = [told EXCEPT ![b] = {}]
  /\ UNCHANGED plugged

ChainTypeOK ==
  /\ plugged \in [Nics -> SUBSET Chain]
  /\ pos \in [Boxes -> 0 .. Posts + 1]
  /\ result \in [Boxes -> SUBSET Families]
  /\ told \in [Boxes -> SUBSET Families]
==============================================================================
