------------------------- MODULE SourceAcquisition --------------------------
(***************************************************************************)
(* The official source acquisition of a trading date and cadence, one job  *)
(* of rate_production_source_acquisition.yml in four steps: check out      *)
(* main, materialize the history store, build the source bundle from the   *)
(* official endpoints, and push store and bundle as one commit.            *)
(*                                                                         *)
(* A stored row is known by its session; sessions are numbered, and a      *)
(* month has MonthLength of them.  What an endpoint serves is cut from the *)
(* sessions that have closed.  The features of a symbol are computed from  *)
(* the sessions its stock history and its market's benchmark share.        *)
(***************************************************************************)
EXTENDS Integers, FiniteSetsExt

CONSTANTS
  Symbols, Tpex,  \* the approved universe, and those of it that TPEx lists
  LastSession,    \* bound: sessions; today starts in the middle of them
  MonthLength,    \* sessions in a month
  MinSessions,    \* the least history a symbol needs: 180
  MaxSessions,    \* what the store retains: 220
  MinAligned,     \* sessions technical_record needs: 120
  MaxMonths,      \* months a job may fetch
  Runs,           \* workflow runs
  Requested,      \* the cadences they may be dispatched for
  MaxFaults,      \* bound: endpoints that fail, sources that lack a symbol
  None, Over

AcquisitionConstants ==
  /\ Tpex \subseteq Symbols /\ Tpex \notin {{}, Symbols}
  /\ {LastSession, MonthLength, MinSessions, MaxSessions, MinAligned, MaxMonths} \subseteq Nat \ {0}
  /\ MinAligned <= MinSessions /\ MinSessions <= MaxSessions

Sessions == 1 .. LastSession
FirstToday == LastSession \div 2
Markets == {"TWSE", "TPEX"}
Cadences == {"07:30", "09:30", "12:00", "19:30"}
Domains == {"institutional", "large_holder", "fundamental", "trading_metadata", "benchmark"}

Market(s) == IF s \in Tpex THEN "TPEX" ELSE "TWSE"

VARIABLES
  today,   \* the session of the day
  closed,  \* it has closed, and the exchanges have published it
  main,    \* store, TPEx material and bundle on main
  commits, \* pushes to main
  job,     \* the job of each run, None before it and Over after it
  faults

vars == <<today, closed, main, commits, job, faults>>

Trees == [stock : [Symbols -> SUBSET Sessions], benchmark : [Markets -> SUBSET Sessions],
          material : [Sessions -> {"absent", "PASS", "FAIL_CLOSED"}],
          bundle : [date : Sessions, cadence : Cadences, daily : [Markets -> Sessions \cup {None}],
                    history : [Symbols -> SUBSET Sessions]] \cup {None}]

TypeOK == /\ today \in Sessions /\ closed \in BOOLEAN
          /\ main \in Trees /\ commits \in 0 .. Cardinality(Runs)
          /\ job \in [Runs -> [at : {"materialize", "build", "push"}, base : Nat, date : Sessions,
                               cadence : Cadences, tree : Trees] \cup {None, Over}]
          /\ faults \in 0 .. MaxFaults

Init == /\ today = FirstToday /\ closed = FALSE
        /\ main = [stock |-> [s \in Symbols |-> {}], benchmark |-> [m \in Markets |-> {}],
                   material |-> [d \in Sessions |-> "absent"], bundle |-> None]
        /\ commits = 0 /\ job = [r \in Runs |-> None] /\ faults = 0

Published == {d \in Sessions : d < today \/ (d = today /\ closed)}
Latest == Max(Published)

Newest(sessions, n) == {d \in sessions : Cardinality({e \in sessions : e > d}) < n}

Close == /\ ~closed /\ closed' = TRUE
         /\ UNCHANGED <<today, main, commits, job, faults>>

NextDay == /\ closed /\ today < LastSession
           /\ today' = today + 1 /\ closed' = FALSE
           /\ UNCHANGED <<main, commits, job, faults>>

(* The operator names any trading date there has been.                     *)
Dispatch(r, date, cadence) ==
  /\ job[r] = None /\ date \in 1 .. today
  /\ job' = [job EXCEPT ![r] = [at |-> "materialize", base |-> commits, date |-> date,
                                cadence |-> cadence, tree |-> main]]
  /\ UNCHANGED <<today, closed, main, commits, faults>>

At(r, step) == job[r] \notin {None, Over} /\ job[r].at = step

Fail(r) == job' = [job EXCEPT ![r] = Over] /\ UNCHANGED <<today, closed, main, commits>>

Fault(r) == /\ job[r] \notin {None, Over}
            /\ faults < MaxFaults /\ faults' = faults + 1
            /\ Fail(r)
-----------------------------------------------------------------------------
Month(d) == d \div MonthLength

(* The rows of the last n months before a date, as the endpoints have them.*)
MonthRows(date, n) == {d \in Published : d < date /\ Month(date) - n < Month(d)}

(* Months are fetched backwards until there is history enough.             *)
PeriodsUsed(stored, date) ==
  {n \in 0 .. MaxMonths : /\ Cardinality(stored \cup MonthRows(date, n)) >= MinSessions
                          /\ \A k \in 0 .. n - 1 : Cardinality(stored \cup MonthRows(date, k)) < MinSessions}

(* Nothing is fetched when the sessions stored below the date are enough;  *)
(* stored sessions from the date on are dropped.                           *)
Prior(stored, date) == {d \in stored : d < date}

Replenished(stored, date) ==
  Newest(Prior(stored, date) \cup MonthRows(date, Max(PeriodsUsed(Prior(stored, date), date))), MaxSessions)

Suffices(stored, date) == PeriodsUsed(Prior(stored, date), date) # {}

(* build_material: the TPEx rows of exactly the date, for every symbol.    *)
BuildMaterial(date) == IF date \in Published THEN "PASS" ELSE "FAIL_CLOSED"

MaterializedTree(tree, date, material) ==
  [tree EXCEPT !.material[date] = material,
               !.stock = [s \in Symbols |-> Replenished(tree.stock[s], date)],
               !.benchmark = [m \in Markets |-> Replenished(tree.benchmark[m], date)]]

Sufficient(tree, date) == /\ \A s \in Symbols : Suffices(tree.stock[s], date)
                          /\ \A m \in Markets : Suffices(tree.benchmark[m], date)

(* Material is written whether it could be built or not, over what was     *)
(* there; a symbol or benchmark without its history fails the job.         *)
Materialize(r) ==
  /\ At(r, "materialize")
  /\ LET j == job[r] IN
     \/ /\ ~Sufficient(j.tree, j.date)
        /\ Fail(r) /\ UNCHANGED faults
     \/ /\ Sufficient(j.tree, j.date)
        /\ \E material \in {BuildMaterial(j.date), "FAIL_CLOSED"} :
             /\ IF material = BuildMaterial(j.date) THEN UNCHANGED faults
                ELSE faults < MaxFaults /\ faults' = faults + 1
             /\ job' = [job EXCEPT ![r].at = "build", ![r].tree = MaterializedTree(j.tree, j.date, material)]
        /\ UNCHANGED <<today, closed, main, commits>>
-----------------------------------------------------------------------------
(* The session the TPEx material of a date serves, if it is usable.        *)
HistoricalMarketDaily(tree, date) == IF tree.material[date] = "PASS" THEN date ELSE None

(* Faulty variant: an older date is served by the current rows.            *)
SelectMarketDailyCurrent(tree, date, current) ==
  IF date > current THEN None ELSE current

(* select_market_daily: current rows for the current date, material for an *)
(* older one, nothing for a later one.                                     *)
SelectMarketDaily(tree, date, current) ==
  IF date = current THEN current
  ELSE IF date < current THEN HistoricalMarketDaily(tree, date) ELSE None

(* At 19:30 material is asked for a past date, and where there is any.     *)
TpexDaily(tree, date, cadence, current) ==
  IF cadence = "19:30" /\ (date < today \/ tree.material[date] # "absent")
  THEN HistoricalMarketDaily(tree, date)
  ELSE SelectMarketDaily(tree, date, current)

(* TWSE serves its current rows; rows of another date are left out.        *)
TwseDaily(date, current) == IF date = current THEN current ELSE None

(* The stored sessions up to the date, with the live row of the date.      *)
PersistedStockHistory(tree, s, date) ==
  Newest({d \in tree.stock[s] : d <= date} \cup {date}, MaxSessions)

(* A live row joins the stock history alone: live benchmark rows carry the *)
(* index as their symbol, and are looked for as benchmark_symbol.          *)
PersistedBenchmarkHistory(tree, m, date) ==
  Newest({d \in tree.benchmark[m] : d <= date}, MaxSessions)

(* A live row conflicts with a stored row of its date: their sources are   *)
(* named differently.                                                      *)
LiveRowConflict(tree, s, date) == date \in tree.stock[s]

RollingTechnical(tree, date) ==
  \A s \in Symbols :
    /\ ~LiveRowConflict(tree, s, date)
    /\ Cardinality(PersistedStockHistory(tree, s, date)) >= MinSessions
    /\ Cardinality(PersistedBenchmarkHistory(tree, Market(s), date)) >= MinSessions
    /\ Cardinality(PersistedStockHistory(tree, s, date)
                   \cap PersistedBenchmarkHistory(tree, Market(s), date)) >= MinAligned

(* What the other official sources have: all of the universe, or all but   *)
(* one symbol of one domain, or nothing of one domain.                     *)
Whole == [d \in Domains |-> Symbols]
Fetched == {Whole} \cup {[Whole EXCEPT ![d] = @ \ {s}] : d \in Domains, s \in Symbols}
                   \cup {[Whole EXCEPT ![d] = {}] : d \in Domains}

(* The required domains, every one with a source that answered just now.   *)
Answered(got, daily) == {d \in Domains : got[d] # {}}
                        \cup {d \in {"market_daily"} : \E m \in Markets : daily[m] # None}
FreshnessMatrix(got, daily) == Domains \cup {"market_daily"} \subseteq Answered(got, daily)
RequiredSourceStatusPass(got, daily) == Domains \cup {"market_daily"} \subseteq Answered(got, daily)

(* 09:30 and 12:00 need the intraday feed, which is not authorized.        *)
CadenceBlocked(cadence) == cadence \in {"09:30", "12:00"}

(* bind_universe: some source has a row of every symbol.                   *)
BindUniverse(got, daily) ==
  \A s \in Symbols : daily[Market(s)] # None \/ \E d \in Domains : s \in got[d]

(* _merge_production_sources: every symbol of the universe is joined from  *)
(* every domain; the rolling features give it its market and benchmark.    *)
JoinComplete(tree, date, got, daily) ==
  /\ \A d \in Domains \ {"benchmark"} : got[d] = Symbols
  /\ \A s \in Symbols : daily[Market(s)] # None
  /\ RollingTechnical(tree, date)

Assembled(tree, date, got, daily) ==
  BindUniverse(got, daily) /\ JoinComplete(tree, date, got, daily) /\ FreshnessMatrix(got, daily)

Build(r) ==
  /\ At(r, "build")
  /\ LET j == job[r] IN
     \E current \in [Markets -> {Latest, Latest - 1} \cap Sessions], got \in Fetched :
       LET daily == [m \in Markets |->
                       IF m = "TPEX" THEN TpexDaily(j.tree, j.date, j.cadence, current[m])
                       ELSE TwseDaily(j.date, current[m])]
       IN /\ IF got = Whole THEN UNCHANGED faults ELSE faults < MaxFaults /\ faults' = faults + 1
          /\ IF /\ ~CadenceBlocked(j.cadence)
                /\ RequiredSourceStatusPass(got, daily)
                /\ Assembled(j.tree, j.date, got, daily)
             THEN /\ job' = [job EXCEPT ![r].at = "push", ![r].tree.bundle =
                       [date |-> j.date, cadence |-> j.cadence, daily |-> daily,
                        history |-> [s \in Symbols |-> PersistedStockHistory(j.tree, s, j.date)]]]
                  /\ UNCHANGED <<today, closed, main, commits>>
             ELSE Fail(r)

(* A push is refused when main has moved since the checkout.               *)
Push(r) ==
  /\ At(r, "push")
  /\ IF job[r].base = commits
     THEN /\ main' = job[r].tree /\ commits' = commits + 1
          /\ job' = [job EXCEPT ![r] = Over]
          /\ UNCHANGED <<today, closed>>
     ELSE Fail(r)
  /\ UNCHANGED faults

Next == \/ Close \/ NextDay
        \/ \E r \in Runs : Fault(r) \/ Materialize(r) \/ Build(r) \/ Push(r)
        \/ \E r \in Runs, date \in Sessions, cadence \in Requested : Dispatch(r, date, cadence)

Spec == Init /\ [][Next]_vars
-----------------------------------------------------------------------------
(* What is on main was materialized and built whole: every history has its *)
(* least length and none is longer than what is retained; the bundle is of *)
(* a cadence that needs no intraday feed, both markets' daily rows are of  *)
(* its date, no history looks beyond it, and the store holds no row a live *)
(* row of its date could conflict with.                                    *)
SourceSound ==
  main.bundle # None =>
    LET b == main.bundle IN
    /\ \A s \in Symbols : Cardinality(main.stock[s]) \in MinSessions .. MaxSessions
    /\ \A m \in Markets : Cardinality(main.benchmark[m]) \in MinSessions .. MaxSessions
    /\ ~CadenceBlocked(b.cadence)
    /\ b.daily = [m \in Markets |-> b.date]
    /\ \A s \in Symbols : Max(b.history[s]) = b.date /\ Max(main.stock[s]) < b.date
    /\ \A m \in Markets : Max(main.benchmark[m]) < b.date

(* "completed sessions strictly before the requested trading date ... no   *)
(* fixture, stale, local-cache, synthetic, or alternate-provider fallback":*)
(* the session before the trading date is in the history of its bundle.    *)
HistoryCurrent ==
  main.bundle # None => \A s \in Symbols : main.bundle.date - 1 \in main.bundle.history[s]
=============================================================================
