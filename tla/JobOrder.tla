------------------------------- MODULE JobOrder -------------------------------
(***************************************************************************)
(* What the agent promises to those who send it requests: for each         *)
(* interface, accepted requests are served one at a time, in the order of  *)
(* their acceptance and at most once, and what is published is what the    *)
(* last successful one asked for.  Requests for different interfaces may   *)
(* be served in any order.  A request may fail, and a restart forgets all. *)
(* How requests share a queue and a worker is not said here; EniAgent is   *)
(* shown to implement this module.                                         *)
(***************************************************************************)
EXTENDS Sequences

CONSTANTS
  Keys,      (* interfaces of pods                        *)
  Wishes,    (* what can be asked for, None for a release *)
  None

VARIABLES
  waiting,   (* per interface: accepted requests that are not served yet *)
  shown      (* per interface: what is published                         *)

Idle == /\ waiting = [k \in Keys |-> <<>>]
        /\ shown = [k \in Keys |-> None]

Accept(k, w) ==
  /\ waiting' = [waiting EXCEPT ![k] = Append(@, w)]
  /\ UNCHANGED shown

Take(k) ==
  /\ waiting[k] # <<>>
  /\ waiting' = [waiting EXCEPT ![k] = Tail(@)]

Serve(k) == Take(k) /\ shown' = [shown EXCEPT ![k] = Head(waiting[k])]

Fail(k) == Take(k) /\ UNCHANGED shown

Restart == Idle'

Next ==
  \/ \E k \in Keys : Serve(k) \/ Fail(k) \/ \E w \in Wishes : Accept(k, w)
  \/ Restart

Spec == Idle /\ [][Next]_<<waiting, shown>>
==============================================================================
