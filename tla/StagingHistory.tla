--------------------------- MODULE StagingHistory ---------------------------
(***************************************************************************)
(* The staging history campaign (rate_phase_a2_validation.yml): a run      *)
(* restores the newest cached generation, fetches a bounded chunk of       *)
(* months (bootstrap_live_history.py), saves a generation, and when the    *)
(* stocks are complete materializes them, bootstraps the two benchmarks    *)
(* and the TPEx stocks, and saves the store if its manifest passes.  Runs  *)
(* of one trading date wait for each other; runs of different dates do     *)
(* not.                                                                    *)
(*                                                                         *)
(* A row is its session; the sessions of a month are numbered in order.    *)
(***************************************************************************)
EXTENDS Naturals, FiniteSetsExt, SequencesExt

CONSTANTS
  TwseOrder,   (* the TWSE symbols in their order                        *)
  TpexOrder,   (* the TPEx symbols in theirs                             *)
  MonthDays,   (* sessions of a month                                    *)
  FirstDay, LastDay,   (* the sessions today may be                      *)
  RawTarget,   (* TARGET_RAW_SESSIONS: a symbol with as many is complete *)
  Target,      (* what the store needs of each series                    *)
  Retained,    (* MAX_SESSIONS: what the store keeps of each series      *)
  MaxPeriods,  (* max_new_periods of a chunk                             *)
  MaxWorkers,  (* bound: the runs dispatched                             *)
  MaxPins,     (* bound: the checkpoints accepted                        *)
  None

VARIABLES
  today,       (* the last session that closed                           *)
  caches,      (* the cached generations, oldest first                   *)
  pins,        (* the accepted checkpoints, newest last                  *)
  work         (* the runs                                               *)

stagingVars == << today, caches, pins, work >>

TwseSymbols == ToSet(TwseOrder)
TpexSymbols == ToSet(TpexOrder)
Series == TwseSymbols \cup TpexSymbols \cup {"TAIEX", "TPEX"}
MonthOf(d) == (d - 1) \div MonthDays + 1
Months == 1 .. MonthOf(LastDay)

(* The runs, numbered as they are dispatched.                              *)
Workers == 1 .. MaxWorkers

StagingConstants ==
  /\ TwseOrder \in Seq(TwseSymbols) /\ TpexOrder \in Seq(TpexSymbols)
  /\ TwseSymbols \cap TpexSymbols = {} /\ {"TAIEX", "TPEX"} \cap (TwseSymbols \cup TpexSymbols) = {}
  /\ {MonthDays, FirstDay, LastDay, RawTarget, Target, Retained, MaxPeriods, MaxWorkers} \subseteq Nat \ {0}
  /\ FirstDay <= LastDay /\ Target <= RawTarget /\ Target <= Retained

(* What the official source answers for a month.                           *)
Published(m) == {d \in 1 .. today : MonthOf(d) = m}

(* _records_for_symbol: the rows of all cached months.                     *)
Rows(cp, s) == UNION {cp[s][m] : m \in {n \in Months : cp[s][n] # None}}
Enough(cp, s, n) == Cardinality(Rows(cp, s)) >= n

(* The last n of a set of sessions.                                        *)
Newest(rows, n) == {d \in rows : Cardinality({e \in rows : e > d}) < n}
-----------------------------------------------------------------------------
NoMonths == [s \in Series |-> [m \in Months |-> None]]
NoStore == [s \in Series |-> {}]

NotDispatched == [at |-> "waits"]
Over == [at |-> "over"]

Init ==
  /\ today = FirstDay /\ caches = << >> /\ pins = << >>
  /\ work = [w \in Workers |-> NotDispatched]

Working(w) == work[w].at \notin {"waits", "over"}

(* The workflow restores the newest generation its prefix finds, the       *)
(* materialized ones included; _load_checkpoint starts without one.        *)
Dispatch(w, date) ==
  /\ work[w].at = "waits" /\ date <= today
  /\ \A v \in 1 .. (w - 1) : work[v].at # "waits"
  /\ \A v \in Workers : Working(v) => work[v].date # date
  /\ work' = [work EXCEPT ![w] =
       [at |-> "fetches", date |-> date, base |-> Len(caches),
        pin |-> Len(pins),
        cp |-> IF caches = << >> THEN NoMonths ELSE Last(caches).cp,
        store |-> IF caches = << >> THEN NoStore ELSE Last(caches).store,
        fresh |-> {}, complete |-> FALSE]]
  /\ UNCHANGED << today, caches, pins >>
-----------------------------------------------------------------------------
MonthsAbove(w, m) == (m + 1) .. MonthOf(work[w].date)

(* Faulty variant: what the checkpoint holds is fetched again. *)
WantedAgain(w, s) ==
  {m \in 1 .. MonthOf(work[w].date) :
     /\ << s, m >> \notin work[w].fresh
     /\ \A n \in MonthsAbove(w, m) : << s, n >> \in work[w].fresh}

(* The months a symbol still lacks, newest first, until a month that was   *)
(* there before is met with enough rows.                                   *)
Settled(w, s, m) ==
  LET older == {n \in Months : << s, n >> \in work[w].fresh /\ n < m}
      met == [work[w].cp EXCEPT ![s] = [n \in Months |-> IF n \in older THEN None ELSE @[n]]]
  IN  << s, m >> \notin work[w].fresh /\ Enough(met, s, RawTarget)

Wanted(w, s) ==
  {m \in 1 .. MonthOf(work[w].date) :
     /\ work[w].cp[s][m] = None
     /\ \A n \in MonthsAbove(w, m) : work[w].cp[s][n] # None /\ ~Settled(w, s, n)}

Complete(cp) == \A s \in TwseSymbols : Enough(cp, s, RawTarget)

(* The symbol whose turn it is.                                            *)
Turn(w, i) == Wanted(w, TwseOrder[i]) # {} /\ \A j \in 1 .. (i - 1) : Wanted(w, TwseOrder[j]) = {}

(* A month is fetched and the checkpoint saved.  The chunk is over when it *)
(* has its periods, and complete when the last symbol was the last short.  *)
FetchMonth(w, i) ==
  LET s == TwseOrder[i]
      m == Max(Wanted(w, s))
      cp == [work[w].cp EXCEPT ![s][m] = Published(m)]
      fresh == work[w].fresh \cup {<< s, m >>}
      full == Cardinality(fresh) >= MaxPeriods
      done == i = Len(TwseOrder) /\ Complete(cp)
  IN  /\ work[w].at = "fetches" /\ Turn(w, i)
      /\ work' = [work EXCEPT ![w] =
           [@ EXCEPT !.cp = cp, !.fresh = fresh, !.complete = ~full /\ done,
                     !.at = IF full \/ done THEN "fetched" ELSE "fetches"]]
      /\ UNCHANGED << today, caches, pins >>

(* Nothing is left to fetch.                                               *)
CloseChunk(w) ==
  /\ work[w].at = "fetches" /\ \A s \in TwseSymbols : Wanted(w, s) = {}
  /\ work' = [work EXCEPT ![w].at = "fetched", ![w].complete = Complete(work[w].cp)]
  /\ UNCHANGED << today, caches, pins >>

(* The deadline, a source that is away, or a fatal error ends the chunk    *)
(* where it is; what it fetched is in the checkpoint.                      *)
CutChunk(w) ==
  /\ work[w].at = "fetches"
  /\ work' = [work EXCEPT ![w].at = "fetched"]
  /\ UNCHANGED << today, caches, pins >>

Generation(w) == [cp |-> work[w].cp, store |-> work[w].store, from |-> work[w].base,
                  complete |-> work[w].complete]

(* The generation is saved whatever became of the chunk, and the gate lets *)
(* a complete one pass.                                                    *)
SaveChunk(w) ==
  /\ work[w].at = "fetched"
  /\ caches' = Append(caches, Generation(w))
  /\ work' = [work EXCEPT ![w] = IF @.complete THEN [@ EXCEPT !.at = "materializes"] ELSE Over]
  /\ UNCHANGED << today, pins >>
-----------------------------------------------------------------------------
(* A step that fails fails the job: the steps that still run then write    *)
(* evidence, and nothing of the store is saved.                            *)
GoOn(w, passes, next) == work' = [work EXCEPT ![w] = IF passes THEN next ELSE Over]

Stocks(cp) == [s \in TwseSymbols |-> cp[s]]

(* Faulty variant: any complete checkpoint is materialized. *)
AcceptedAny(w) == TRUE

(* The checkpoint is the one whose digest the code expects.                *)
Accepted(w) == work[w].pin # 0 /\ pins[work[w].pin] = Stocks(work[w].cp)

(* materialize: every symbol's file is replaced; the files of the other    *)
(* market, which a restored store may hold, fail the step.                 *)
MaterializeTwse(w) ==
  /\ work[w].at = "materializes"
  /\ GoOn(w, Accepted(w) /\ \A s \in TpexSymbols : work[w].store[s] = {},
          [work[w] EXCEPT !.at = "benchmark",
                          !.store = [s \in Series |-> IF s \in TwseSymbols
                                                      THEN Newest(Rows(work[w].cp, s), Retained)
                                                      ELSE @[s]]])
  /\ UNCHANGED << today, caches, pins >>

(* A series' months, newest first.                                         *)
RowsAbove(cp, s, m, date) == Rows(cp, s) \cup UNION {Published(k) : k \in (m + 1) .. MonthOf(date)}

(* Of a TPEx stock, until it has its target.                               *)
StockMonths(cp, s, date) ==
  [m \in Months |->
     IF cp[s][m] = None /\ m <= MonthOf(date) /\ Cardinality(RowsAbove(cp, s, m, date)) < RawTarget
     THEN Published(m) ELSE cp[s][m]]

(* Of a benchmark, the newest in any case, and until the store is full.    *)
BenchmarkMonths(cp, s, date) ==
  [m \in Months |->
     IF /\ cp[s][m] = None
        /\ \/ m = MonthOf(date)
           \/ m < MonthOf(date) /\ Cardinality(RowsAbove(cp, s, m, date)) < Retained
     THEN Published(m) ELSE cp[s][m]]

(* _upsert: the rows stored before stay, as far as the store keeps them.   *)
UpsertBenchmark(store, cp, s) == [store EXCEPT ![s] = Newest(@ \cup Rows(cp, s), Retained)]

AlignedWith(store, set, benchmark) ==
  \A s \in set : Cardinality(store[s] \cap store[benchmark]) >= Target

(* bootstrap_taiex_history.py and the alignment.                           *)
BenchmarkTwse(w) ==
  LET cp == [work[w].cp EXCEPT !["TAIEX"] = BenchmarkMonths(work[w].cp, "TAIEX", work[w].date)]
      store == UpsertBenchmark(work[w].store, cp, "TAIEX")
  IN  /\ work[w].at = "benchmark"
      /\ GoOn(w, Enough(cp, "TAIEX", Target) /\ AlignedWith(store, TwseSymbols, "TAIEX"),
              [work[w] EXCEPT !.at = "tpex", !.cp = cp, !.store = store])
      /\ UNCHANGED << today, caches, pins >>

(* materialize_tpex_history.py: the stocks before the first that is short. *)
StocksStored(cp, store) ==
  [s \in Series |->
     IF \E i \in 1 .. Len(TpexOrder) :
          TpexOrder[i] = s /\ \A k \in 1 .. i : Enough(cp, TpexOrder[k], RawTarget)
     THEN Newest(Rows(cp, s), Retained) ELSE store[s]]

(* bootstrap_tpex_index.py *)
Index(cp, store) ==
  IF Enough(cp, "TPEX", Target) THEN UpsertBenchmark(store, cp, "TPEX") ELSE store

(* The TPEx stocks are fetched in their order, the first of them before    *)
(* the source fails, and materialized; then the index, if it answers.  No  *)
(* failure of theirs fails the job.                                        *)
Tpex(w, first, indexAnswers) ==
  LET old == work[w].cp
      reached == ToSet(SubSeq(TpexOrder, 1, first)) \cup IF indexAnswers THEN {"TPEX"} ELSE {}
      cp == [s \in Series |-> CASE s \notin reached -> old[s]
                                [] s = "TPEX"      -> BenchmarkMonths(old, s, work[w].date)
                                [] OTHER           -> StockMonths(old, s, work[w].date)]
      store == StocksStored(cp, work[w].store)
  IN  /\ work[w].at = "tpex"
      /\ work' = [work EXCEPT ![w] =
           [@ EXCEPT !.at = "manifest", !.cp = cp,
                     !.store = IF indexAnswers THEN Index(cp, store) ELSE store]]
      /\ UNCHANGED << today, caches, pins >>

Whole(store, set, benchmark) ==
  /\ \A s \in set \cup {benchmark} : Cardinality(store[s]) >= Target
  /\ AlignedWith(store, set, benchmark)

(* Faulty variant: what failed among the steps of the TPEx holds nothing up. *)
ManifestPassesTwse(store) == Whole(store, TwseSymbols, "TAIEX")

(* build: both markets, or the TWSE alone when nothing of TPEx is there.   *)
ManifestPasses(store) ==
  /\ Whole(store, TwseSymbols, "TAIEX")
  /\ \/ Whole(store, TpexSymbols, "TPEX")
     \/ \A s \in TpexSymbols \cup {"TPEX"} : store[s] = {}

(* The manifest is built, and what it passes is saved.                     *)
SaveMaterialized(w) ==
  /\ work[w].at = "manifest"
  /\ work' = [work EXCEPT ![w] = Over]
  /\ caches' = IF ManifestPasses(work[w].store) THEN Append(caches, Generation(w)) ELSE caches
  /\ UNCHANGED << today, pins >>

(* A step fails, or the runner dies: its generations are left of the run.  *)
Die(w) ==
  /\ Working(w)
  /\ work' = [work EXCEPT ![w] = Over]
  /\ UNCHANGED << today, caches, pins >>
-----------------------------------------------------------------------------
(* A commit accepts a complete checkpoint: EXPECTED_CHECKPOINT_DIGEST.     *)
Pin(g) ==
  /\ Len(pins) < MaxPins /\ g.complete
  /\ pins' = Append(pins, Stocks(g.cp))
  /\ UNCHANGED << today, caches, work >>

(* A session closes.                                                       *)
Close ==
  /\ today < LastDay
  /\ today' = today + 1
  /\ UNCHANGED << caches, pins, work >>

Next ==
  \/ \E w \in Workers :
       \/ \E date \in FirstDay .. LastDay : Dispatch(w, date)
       \/ \E i \in 1 .. Len(TwseOrder) : FetchMonth(w, i)
       \/ CloseChunk(w) \/ CutChunk(w) \/ SaveChunk(w) \/ MaterializeTwse(w) \/ BenchmarkTwse(w)
       \/ \E first \in 0 .. Len(TpexOrder), indexAnswers \in BOOLEAN : Tpex(w, first, indexAnswers)
       \/ SaveMaterialized(w) \/ Die(w)
  \/ \E i \in 1 .. Len(caches) : Pin(caches[i])
  \/ Close

Spec == Init /\ [][Next]_stagingVars
-----------------------------------------------------------------------------
(* A generation keeps every month of the one it was restored from, as it   *)
(* was first fetched: no period is downloaded twice along a lineage.       *)
LineageKeeps ==
  \A i \in 1 .. Len(caches) : caches[i].from # 0 =>
    \A s \in Series, m \in Months :
      LET before == caches[caches[i].from].cp[s][m] IN before # None => caches[i].cp[s][m] = before

(* What the store holds of a TWSE symbol was all taken from one accepted   *)
(* checkpoint, whatever failed and whatever was restored.                  *)
StoreFromAccepted ==
  \A i \in 1 .. Len(caches) : \A s \in TwseSymbols :
    caches[i].store[s] # {} =>
      \E k \in 1 .. Len(pins) :
        caches[i].store[s] = Newest(UNION {pins[k][s][m] : m \in {n \in Months : pins[k][s][n] # None}}, Retained)

(* A store that any generation holds has all of the TWSE on the dates of   *)
(* its benchmark, and all of the TPEx or nothing, although no failure of   *)
(* the TPEx steps stops the job.                                           *)
StoreWhole ==
  \A i \in 1 .. Len(caches) :
    LET store == caches[i].store
        all(set, benchmark) == AlignedWith(store, set, benchmark)
        nothing(set) == \A s \in set : store[s] = {}
    IN  \/ nothing(Series)
        \/ /\ all(TwseSymbols, "TAIEX")
           /\ all(TpexSymbols, "TPEX") \/ nothing(TpexSymbols \cup {"TPEX"})

StagingSound == LineageKeeps /\ StoreFromAccepted /\ StoreWhole
=============================================================================
