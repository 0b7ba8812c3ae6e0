---------------------------- MODULE CadenceSlots ----------------------------
(***************************************************************************)
(* The calendar of production slots and the predecessor rules over it:     *)
(* canonical_slots, latest_predecessor and validate_first_refresh of       *)
(* src/phase2_production.py and CADENCE_PREDECESSOR of                     *)
(* scripts/resolve_production_runtime_context.py.                          *)
(*                                                                         *)
(* A slot is one cadence of one trading date.  Slots are numbered in the   *)
(* order of (trading_date, cadence), which is the order the code compares  *)
(* them in; consecutive dates are consecutive legal trading days, so       *)
(* _previous_legal_trading_day is the day before.                          *)
(***************************************************************************)
EXTENDS Integers, FiniteSetsExt

CONSTANT LastDay   (* the number of trading days after the baseline's *)

ASSUME LastDayIsNatural == LastDay \in Nat

(* The control-center rebaseline is the 19:30 slot of day 0. *)
Baseline == 3
Slots == Baseline .. (4 * LastDay + 3)

DayOf(slot) == slot \div 4
Morning(slot) == slot % 4 = 0     (* 07:30 *)
NineThirty(slot) == slot % 4 = 1  (* 09:30 *)
Noon(slot) == slot % 4 = 2        (* 12:00 *)
Evening(slot) == slot % 4 = 3     (* 19:30 *)

(* 09:30 and 12:00 publish PARTIAL_VALID states from public sources only.  *)
Partial(slot) == NineThirty(slot) \/ Noon(slot)

(* latest_predecessor: the newest slot directory below the slot, complete  *)
(* or not; a 07:30 looks at 19:30 slots only.                              *)
Candidates(directories, slot) ==
  {p \in directories : p < slot /\ (Morning(slot) => Evening(p))}

HasPredecessor(directories, slot) == Candidates(directories, slot) # {}

NewestBelow(directories, slot) == Max(Candidates(directories, slot))

(* Faulty variant: a 19:30 may close a day whose 12:00 report never came.  *)
PredecessorSlotLegalAnyPartial(p, slot) ==
  /\ Morning(slot) => DayOf(p) = DayOf(slot) - 1
  /\ Partial(slot) => p = slot - 1

(* What the predecessor's slot must be, given the cadence that follows it. *)
PredecessorSlotLegal(p, slot) ==
  /\ Morning(slot) => DayOf(p) = DayOf(slot) - 1
  /\ Partial(slot) => p = slot - 1
  /\ Evening(slot) /\ Partial(p) => p = slot - 1
=============================================================================
