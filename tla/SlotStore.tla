------------------------------ MODULE SlotStore -----------------------------
(***************************************************************************)
(* What the live state store promises its readers: complete states, one    *)
(* per slot, that are never replaced, each following a state of an earlier *)
(* slot, and a LATEST pointer that only moves on to newer slots.           *)
(***************************************************************************)
EXTENDS Integers

CONSTANTS
  Runs,       (* the states that may be published *)
  Genesis,    (* the state that is there from the start *)
  SlotOf(_)   (* the slot of a state *)

VARIABLES
  published,  (* the states a reader can load *)
  previous,   (* the state each of them follows *)
  newest      (* the state LATEST names *)

StoreInit ==
  /\ published = {Genesis}
  /\ previous = [state \in {Genesis} |-> Genesis]
  /\ newest = Genesis

Publish(state, before) ==
  /\ \A other \in published : SlotOf(other) # SlotOf(state)
  /\ SlotOf(before) < SlotOf(state)
  /\ published' = published \cup {state}
  /\ previous' = [s \in published \cup {state} |-> IF s = state THEN before ELSE previous[s]]
  /\ UNCHANGED newest

PointTo(state) ==
  /\ newest' = state
  /\ SlotOf(newest) <= SlotOf(state)
  /\ UNCHANGED << published, previous >>

StoreNext ==
  \/ \E state \in published : PointTo(state)
  \/ \E state \in Runs, before \in published : Publish(state, before)

StoreSpec == StoreInit /\ [][StoreNext]_<< published, previous, newest >>
=============================================================================
