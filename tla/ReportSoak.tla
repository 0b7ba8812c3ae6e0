----------------------------- MODULE ReportSoak -----------------------------
(***************************************************************************)
(* The two soaks over the production runs of RouteB: the report soak       *)
(* (src/report_production_soak.py), which credits scheduled reports, and   *)
(* the full-production soak of CER-081, which takes none that is report    *)
(* only.  Both are calculations over a list of runs that someone puts      *)
(* together; neither writes anything but its report.                       *)
(***************************************************************************)
EXTENDS RouteB

REQUIRED_TRADING_DAYS == 3
REQUIRED_SCHEDULED_RUNS == 12
REQUIRED_CROSS_DAY_TRANSITIONS == 2
-----------------------------------------------------------------------------
(* _load_slot: the canonical state of the slot, and a run that was         *)
(* scheduled, whatever the list says of it.                                *)
LoadSlot(s) == s \in states
ByCron(s) == LoadSlot(s) /\ s \notin manual

(* Faulty variant: the state is not compared with the run before it. *)
FollowsAny(p, s) == p \in states

(* _lineage: the state follows the one accepted before it.                 *)
FollowsRun(p, s) == PreviousSlot(s) = p

(* validate_partial_evening_state: an evening that closes a 12:00 report.  *)
EveningClosure(s) == Evening(s) => PreviousSlot(s) = s - 1

DaysOf(list) == {DayOf(s) : s \in list}

(* evaluate: days without a gap, from the evening before them on, and each *)
(* run after the one before.                                               *)
Evaluates(list) ==
  LET first == Min(list)
      boundary == 4 * DayOf(first) - 1
  IN  /\ DaysOf(list) = Min(DaysOf(list)) .. Max(DaysOf(list))
      /\ LoadSlot(boundary)
      /\ \A s \in list : /\ ByCron(s) /\ EveningClosure(s)
                         /\ FollowsRun(IF s = first THEN boundary ELSE Max(Below(list, s)), s)

(* _completion                                                             *)
WholeDays(list) == {d \in DaysOf(list) : (4 * d) .. (4 * d + 3) \subseteq list}
Transitions(list) ==
  {s \in list : /\ Below(list, s) # {} /\ Morning(s)
                /\ LET a == Max(Below(list, s)) IN Evening(a) /\ PreviousSlot(s) = a}

Completion(list) == /\ Cardinality(WholeDays(list)) >= REQUIRED_TRADING_DAYS
                    /\ Cardinality(list) >= REQUIRED_SCHEDULED_RUNS
                    /\ Cardinality(Transitions(list)) >= REQUIRED_CROSS_DAY_TRANSITIONS

ReportSoakPasses(list) == list # {} /\ Completion(list) /\ Evaluates(list)
-----------------------------------------------------------------------------
(* full_production_disqualifiers: a PARTIAL_VALID report, as 09:30 and     *)
(* 12:00 are.                                                              *)
Disqualified(s) == Partial(s)

(* Faulty variant: a report-only run passes for a production run. *)
NormalizedWithReports(list) == list \ manual

(* normalize_scheduled_runs, without the report-only ones.                 *)
Normalized(list) == {s \in list \ manual : ~Disqualified(s)}

(* build_cer081_artifacts: the rejected runs, while the dependency is      *)
(* blocked all of them, the whole days and the timing.                     *)
FullSoakPasses(list, blocked) ==
  LET credited == IF blocked THEN {} ELSE Normalized(list)
      rejected == (list \ manual) \ credited
  IN  /\ rejected = {}
      /\ Cardinality(WholeDays(credited)) >= REQUIRED_TRADING_DAYS
      /\ Cardinality(credited) >= REQUIRED_SCHEDULED_RUNS
      /\ \A s \in credited : ActualTiming(s)
-----------------------------------------------------------------------------
(* Lists worth trying: the published slots of some days, one left out or   *)
(* none; a shorter list lacks the runs.                                    *)
Lists == IF Cardinality(states) < REQUIRED_SCHEDULED_RUNS THEN {}
         ELSE {{s \in states : first <= s /\ s <= last} \ {gap} :
                 first \in {s \in states : Morning(s)}, last \in {s \in states : Evening(s)}, gap \in Slots}

(* A report soak that passes stands on three whole days of scheduled runs, *)
(* leaves no day out between its first and last, and no state that was     *)
(* published among its runs; and the full-production soak never passes on  *)
(* reports, be the external dependency blocked or not.  Lists are made at  *)
(* the end of a day, while the ledger rests, which they do not look at.    *)
SoakIsLineage ==
  requested = {} /\ running = None /\ Evening(clock) =>
    \A list \in Lists :
      /\ ReportSoakPasses(list) =>
           /\ Cardinality(WholeDays(list)) >= 3 /\ list \cap manual = {}
           /\ list = {s \in states : Min(list) <= s /\ s <= Max(list)}
           /\ \A d \in DayOf(Min(list)) .. DayOf(Max(list)) : \E s \in list : DayOf(s) = d
      /\ \A blocked \in BOOLEAN : ~FullSoakPasses(list, blocked)
=============================================================================
