------------------------------- MODULE RouteB -------------------------------
(***************************************************************************)
(* The acceptance of the production system on scheduled runs (Route B): a  *)
(* session that a verified activation day opens, a ledger that takes every *)
(* run of the days after it, and a final acceptance after three complete   *)
(* days.  Three workflows keep them on main, as one concurrency group:     *)
(*   activate  after a 12:00 run: build_runtime_package and                *)
(*             persist_activation_package,                                 *)
(*   collect   after every scheduled run: collect_scheduled_run,           *)
(*   finalize  after a push of the summary: build_finalization.            *)
(* A job changes main by one push at its end.  Runs publish their slots in *)
(* the order of time; that they may not is the business of Scheduler.      *)
(***************************************************************************)
EXTENDS CadenceSlots

CONSTANTS
  ReaderTakesQueries,  \* whether GitHubActionsReader.get takes a path with a
                       \* query, as two of its five calls have; it does not
  ActivationMayPush,   \* whether the activate job has credentials to push;
                       \* its checkout does not keep them
  MaxFaults,           \* bound: late, missed and manual runs, slow jobs,
                       \* foreign commits, outages
  MaxReruns,           \* bound: jobs run again
  None

MIN_TRADING_DAYS == 3
MIN_SCHEDULED_RUNS == 12

VARIABLES
  clock,      \* the last slot whose time has come
  states,     \* slots with a published state
  late,       \* those whose run started more than 900 seconds after its slot
  manual,     \* those published by an authorized bootstrap
  foreign,    \* those whose run had a foreign commit below its head
  strayed,    \* main has a commit since the binding that is no pointer update
  requested,  \* ledger jobs that are triggered
  running, pending,  \* the job of the group, and the one that waits
  dropped,    \* jobs that failed or were cancelled
  clone,      \* what the running job is about to push, or None
  store,      \* session, summary and final package on main
  faults, reruns

runs == <<clock, states, late, manual, foreign, strayed>>
group == <<requested, running, pending, dropped>>
bounds == <<faults, reruns>>
vars == <<runs, group, clone, store, bounds>>

RouteJobs == ({"collect"} \X Slots) \cup ({"activate"} \X {s \in Slots : Noon(s)}) \cup {<<"finalize", Baseline>>}
Finalization == <<"finalize", Baseline>>

Sessions == [start : 1 .. LastDay + 1, accepted : SUBSET Slots]
Stores == [session : Sessions \cup {None}, summary : {"absent", "progress", "ready"},
           final : {"absent", "noop", "accepted"}]

RouteBConstants == /\ ReaderTakesQueries \in BOOLEAN /\ ActivationMayPush \in BOOLEAN
                   /\ {LastDay, MaxFaults, MaxReruns} \subseteq Nat
                   /\ None \notin ({"collect", "activate", "finalize"} \X Slots) \cup Sessions \cup Stores

TypeOK == /\ clock \in Slots
          /\ states \subseteq Slots /\ late \cup manual \cup foreign \subseteq states
          /\ strayed \in BOOLEAN
          /\ requested \subseteq RouteJobs /\ dropped \subseteq RouteJobs
          /\ running \in RouteJobs \cup {None} /\ pending \in RouteJobs \cup {None}
          /\ clone \in Stores \cup {None} /\ store \in Stores
          /\ faults \in 0 .. MaxFaults /\ reruns \in 0 .. MaxReruns

Init == /\ clock = Baseline /\ states = {Baseline}
        /\ late = {} /\ manual = {Baseline} /\ foreign = {} /\ strayed = FALSE
        /\ requested = {} /\ running = None /\ pending = None /\ dropped = {}
        /\ clone = None
        /\ store = [session |-> None, summary |-> "absent", final |-> "absent"]
        /\ faults = 0 /\ reruns = 0

Fault == faults < MaxFaults /\ faults' = faults + 1 /\ UNCHANGED reruns

PreviousSlot(s) == NewestBelow(states, s)
-----------------------------------------------------------------------------
(* The next slot is published, and by a scheduled run: its workflow_run    *)
(* event triggers the ledger's workflows.  Hours lie between two slots, so *)
(* what one has triggered is done before the next, unless it is slow.      *)
Publish(how) ==
  LET s == clock + 1 IN
  /\ s \in Slots /\ requested = {}
  /\ HasPredecessor(states, s) /\ PredecessorSlotLegal(PreviousSlot(s), s)
  /\ clock' = s /\ states' = states \cup {s}
  /\ late' = IF how = "late" THEN late \cup {s} ELSE late
  /\ manual' = IF how = "manual" THEN manual \cup {s} ELSE manual
  /\ foreign' = IF strayed THEN foreign \cup {s} ELSE foreign
  /\ requested' = IF how = "manual" THEN requested
                  ELSE requested \cup {<<"collect", s>>} \cup IF Noon(s) THEN {<<"activate", s>>} ELSE {}
  /\ IF how = "punctual" /\ running = None THEN UNCHANGED bounds ELSE Fault
  /\ UNCHANGED <<strayed, running, pending, dropped, clone, store>>

Miss == /\ clock + 1 \in Slots /\ clock' = clock + 1
        /\ Fault
        /\ UNCHANGED <<states, late, manual, foreign, strayed, group, clone, store>>

Stray == /\ ~strayed /\ strayed' = TRUE
         /\ Fault
         /\ UNCHANGED <<clock, states, late, manual, foreign, group, clone, store>>
-----------------------------------------------------------------------------
(* The group runs one job and keeps one waiting.                           *)
Queue(j) ==
  /\ j \in requested /\ requested' = requested \ {j}
  /\ IF running = None THEN running' = j /\ UNCHANGED <<pending, dropped>>
     ELSE pending' = j /\ dropped' = (dropped \cup {pending}) \ {None} /\ UNCHANGED running
  /\ UNCHANGED <<runs, clone, store, bounds>>

Rerun(j) ==
  /\ reruns < MaxReruns /\ reruns' = reruns + 1
  /\ j \in dropped /\ dropped' = dropped \ {j} /\ requested' = requested \cup {j}
  /\ UNCHANGED <<runs, running, pending, clone, store, faults>>

End == running' = pending /\ pending' = None /\ clone' = None

Failed == End /\ dropped' = dropped \cup {running} /\ UNCHANGED <<requested, store>>
Succeeded == End /\ UNCHANGED <<requested, dropped, store>>
Commit(new) == clone' = new /\ UNCHANGED <<group, store>>

Outage == /\ running # None
          /\ Fault
          /\ Failed /\ UNCHANGED runs
-----------------------------------------------------------------------------
(* build_ancestry_evidence: the heads descend from the binding by pointer  *)
(* commits alone.                                                          *)
Ancestry(heads) == heads \cap foreign = {}

(* validate_overlay of a 09:30 or 12:00 run: a scheduled PARTIAL_VALID     *)
(* state that follows the cadence before it.                               *)
Overlay(s) == {s - 1, s} \subseteq states /\ PreviousSlot(s) = s - 1 /\ s \notin manual

(* The evidence of a 07:30 or 19:30 run and its transition.                *)
Standard(s) == s \in states \ manual /\ PredecessorSlotLegal(PreviousSlot(s), s)

(* Timing evidence that is exact and not beyond the blocking delay.        *)
ActualTiming(s) == s \notin late

(* verify_timing_provenance: the run, its job and its artifact once more   *)
(* from the Actions API.                                                   *)
TimingProvenance(s) == ReaderTakesQueries /\ s \notin late \cup manual

(* build_and_open: the day's two checkpoints and the ancestry of both.     *)
Activation(s) == {s - 2, s - 1, s} \subseteq states /\ Overlay(s - 1) /\ Overlay(s) /\ Ancestry({s - 1, s})

OpenSession(s) == [start |-> DayOf(s) + 1, accepted |-> {}]

CompleteDays(session) == {d \in 0 .. LastDay : (4 * d) .. (4 * d + 3) \subseteq session.accepted}
Closed(session) == Cardinality(CompleteDays(session)) >= MIN_TRADING_DAYS
                   /\ Cardinality(session.accepted) >= MIN_SCHEDULED_RUNS

(* Faulty variant: the first day of the session is left out.               *)
AdmissibleAfterStart(session, s) == ~Closed(session) /\ DayOf(s) > session.start

(* admit_scheduled_run, after the bindings the collector made.             *)
Admissible(session, s) == ~Closed(session) /\ DayOf(s) >= session.start
Admit(session, s) == [session EXCEPT !.accepted = @ \cup {s}]

Below(accepted, s) == {r \in accepted : r < s}

(* Faulty variant: the audit leaves out which cadences meet at midnight    *)
(* and that each state follows the one before it.                          *)
AuditByDay(session) == \A s \in session.accepted : DayOf(s) >= session.start

(* audit_session_lineage: in the order of time each run's state follows    *)
(* the one before it, and days meet 19:30 to 07:30.                        *)
Audit(session) ==
  \A s \in session.accepted : Below(session.accepted, s) # {} =>
    LET p == Max(Below(session.accepted, s)) IN
    /\ PreviousSlot(s) = p
    /\ DayOf(p) = DayOf(s) \/ (Evening(p) /\ Morning(s))

CrossDayLinks(session) ==
  Cardinality({s \in session.accepted : Below(session.accepted, s) # {}
                 /\ DayOf(Max(Below(session.accepted, s))) # DayOf(s)})

(* What the summary recomputes from the ledger.                            *)
Summary(session) ==
  IF Closed(session) /\ Audit(session)
     /\ CrossDayLinks(session) + 1 >= Cardinality(CompleteDays(session))
  THEN "ready" ELSE "progress"

(* Faulty variant: a second activation takes the session's place. *)
PersistActivationAnew(s) ==
  Commit([store EXCEPT !.session = OpenSession(s), !.summary = "progress"])

(* persist_activation_package: a session is opened once.                   *)
PersistActivation(s) ==
  IF store.session = None
  THEN Commit([store EXCEPT !.session = OpenSession(s), !.summary = "progress"])
  ELSE IF store.session.start = DayOf(s) + 1 THEN Succeeded ELSE Failed

Activate(s) ==
  /\ running = <<"activate", s>> /\ clone = None
  /\ IF Activation(s) THEN PersistActivation(s) ELSE Failed
  /\ UNCHANGED <<runs, bounds>>

(* admit_run_to_store: a run that is there already is a no-op; nothing is  *)
(* written unless the summary of the new ledger can be made.               *)
AdmitToStore(s) ==
  LET session == Admit(store.session, s) IN
  IF s \in store.session.accepted THEN Succeeded
  ELSE IF Admissible(store.session, s) /\ Audit(session)
  THEN Commit([store EXCEPT !.session = session, !.summary = Summary(session)])
  ELSE Failed

(* Faulty variant: the head of a run is not traced to the binding. *)
CollectableAnyHead(s) ==
  /\ IF Partial(s) THEN Overlay(s) ELSE Standard(s)
  /\ ActualTiming(s)
  /\ DayOf(s) >= store.session.start
  /\ TimingProvenance(s)

Collectable(s) ==
  /\ Ancestry({s})
  /\ IF Partial(s) THEN Overlay(s) ELSE Standard(s)
  /\ ActualTiming(s)
  /\ DayOf(s) >= store.session.start
  /\ TimingProvenance(s)

Collect(s) ==
  /\ running = <<"collect", s>> /\ clone = None
  /\ IF store.session = None THEN Succeeded
     ELSE IF Collectable(s) THEN AdmitToStore(s) ELSE Failed
  /\ UNCHANGED <<runs, bounds>>

(* The ledger against the canonical states it names.                       *)
ReplayCanonicalStates(session) ==
  /\ Cardinality(session.accepted) >= MIN_SCHEDULED_RUNS
  /\ session.accepted \subseteq states \ manual

FinalAcceptance ==
  /\ Summary(store.session) = store.summary
  /\ Cardinality(CompleteDays(store.session)) >= MIN_TRADING_DAYS
  /\ Cardinality(store.session.accepted) >= MIN_SCHEDULED_RUNS

Finalizable ==
  /\ FinalAcceptance
  /\ ReplayCanonicalStates(store.session)
  /\ Ancestry(store.session.accepted)
  /\ \A s \in store.session.accepted : TimingProvenance(s) /\ DayOf(s) >= store.session.start

(* Faulty variant: a ready summary is believed. *)
FinalizeBySummary ==
  /\ running = Finalization /\ clone = None
  /\ Commit([store EXCEPT !.final = IF store.session # None THEN "accepted" ELSE "noop"])
  /\ UNCHANGED <<runs, bounds>>

Finalize ==
  /\ running = Finalization /\ clone = None
  /\ IF store.session = None \/ store.summary # "ready"
     THEN Commit([store EXCEPT !.final = "noop"])
     ELSE IF Finalizable THEN Commit([store EXCEPT !.final = "accepted"]) ELSE Failed
  /\ UNCHANGED <<runs, bounds>>

(* git pull --rebase and git push.  A push of the summary triggers the     *)
(* finalization, unless it is made with the workflow's own token.          *)
Push ==
  /\ clone # None
  /\ IF running[1] = "activate" /\ ~ActivationMayPush THEN Failed
     ELSE /\ End /\ store' = clone
          /\ UNCHANGED dropped
          /\ \/ UNCHANGED requested
             \/ clone.session # store.session /\ requested' = requested \cup {Finalization}
  /\ UNCHANGED <<runs, bounds>>

Next == \/ \E how \in {"punctual", "late", "manual"} : Publish(how)
        \/ Miss \/ Stray \/ Outage \/ Finalize \/ Push
        \/ \E j \in RouteJobs : Queue(j) \/ Rerun(j)
        \/ \E s \in Slots : Activate(s) \/ Collect(s)

Spec == Init /\ [][Next]_vars
-----------------------------------------------------------------------------
(* Every credited run is a scheduled one, in time, on the activated code,  *)
(* of a day after the activation, and follows the credited one before it;  *)
(* a ledger that is closed to further runs is ready to be finalized; and   *)
(* production is accepted on three whole days of such runs, with a morning *)
(* and an evening credited on every day between them.                      *)
CreditIsLineage ==
  /\ store.session # None =>
       LET accepted == store.session.accepted IN
       /\ accepted \cap (late \cup manual \cup foreign) = {} /\ accepted \subseteq states
       /\ \A s \in accepted : DayOf(s) >= store.session.start
                              /\ (Below(accepted, s) # {} => PreviousSlot(s) \in accepted)
       /\ Closed(store.session) => store.summary = "ready"
  /\ store.final = "accepted" =>
       LET days == CompleteDays(store.session) IN
       /\ days \subseteq 2 .. LastDay /\ Cardinality(days) >= MIN_TRADING_DAYS
       /\ \A first, last \in days : \A d \in first .. last :
            {4 * d, 4 * d + 3} \subseteq store.session.accepted

(* What a run would need to be credited now.                               *)
Creditable(s) ==
  /\ store.session # None /\ ~Closed(store.session)
  /\ s \in states \ (late \cup manual \cup foreign \cup store.session.accepted)
  /\ DayOf(s) >= store.session.start
  /\ store.session.accepted = {} \/ (PreviousSlot(s) \in store.session.accepted
                                     /\ (DayOf(PreviousSlot(s)) = DayOf(s) \/ Morning(s)))

(* A collector that comes to its end without an outage has credited its    *)
(* run, if the run was authentic and next in line.                         *)
AuthenticRunCredited ==
  [][\A s \in Slots : running = <<"collect", s>> /\ clone = None /\ Creditable(s)
                      /\ running' # running => faults' > faults]_vars

(* A session is opened once, for good, and keeps what it has credited.     *)
LedgerGrows ==
  [][store.session # None =>
       /\ store'.session # None /\ store'.session.start = store.session.start
       /\ store.session.accepted \subseteq store'.session.accepted
       /\ store.final = "accepted" => store'.final = "accepted"]_store
=============================================================================
