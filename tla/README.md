# RATE Data Engine: specifications, model checking and proofs

This directory holds TLA+ specifications of the parts of the RATE Data Engine
that decide what is published and what is not: the atomic publication of source
bundles, the live store of decision states and its cadence rules, the decision
chains, the authorized bootstraps, the GitHub workflows that run all of them
against one branch, the acquisition of sources and of history under single-use
authorities, the governance of the intraday activation, the acceptance ledger
and the soaks. TLC checks each of them on small instances; TLAPS proves most of
what TLC checks for any number of writers, runs, days, jobs, operators, chunks
and executors. `PROJECT.json` lists the components, the runs, the lines every
definition stands for, the hazards and the theorems.

Paths are relative to the repository's root.

1. The system
2. The modules
3. The runs, their bounds and the fairness assumed
4. What the runs found
5. The proofs
6. What is not modelled, and what is left to do

## 1. The system

RATE ingests official Taiwan market data four times a trading day (07:30,
09:30, 12:00, 19:30, the *cadences*), computes a ranked decision state from it
and from the state before it, and publishes both into the repository's own
`artifacts/` tree through commits to the main branch. There is no server and no
database: the state of the system is files, written by short-lived GitHub
Actions jobs, each in a clone of its own, and refs and caches that GitHub keeps.

### Components

| component | state it keeps | operations | interacts with |
|---|---|---|---|
| atomic publication owner (`src/production_refresh_commit.py`, `scripts/publish_production_source_bundle_latest.py`) | content-addressed immutable objects, the `Latest` pointer, an OS writer lock, a derived compatibility view | `put_object`, `commit`, `read_committed`, `publish_latest` | called by the 07:30 and 19:30 jobs and by the acquisition job |
| live state store (`scripts/publish_production_state_latest.py`, `src/production_live_state.py`, `src/public_official_partial_valid.py`) | a directory per slot: archived sources, state, persist evidence, manifest; the state `LATEST` pointer | `publish_report`, `publish_state`, `load_live_state` | read by every later cadence to find its predecessor |
| cadence rules (`src/phase2_production.py`, `scripts/resolve_production_runtime_context.py`) | none; they read the store and the clock | `latest_predecessor`, `validate_first_refresh`, `validate_transition`, `resolve_context` | guards of every publication |
| scheduler workflows (`.github/workflows/rate_production_*_scheduler.yml`) | one concurrency group (a running and a pending job), a clone per job | trigger, checkout, resolve, build, publish, commit, rebase, push | main |
| rebaseline and recovery bootstraps (`scripts/bootstrap_production_*_state.py` and their workflows) | single-use authorizations, staged packages, consumption evidence | stage, promote, repair; write, record | the live state store; main |
| decision chains (`src/cer074_acceptance.py` to `src/cer080_multi_day_continuity.py`) | chain, idempotency index and full state files of each cadence | `initialize_chain`, `persist_*_once` | one cadence's evidence opens the next one's job |
| full day, unattended soak, report soak (CER-079, CER-081, `src/report_production_soak.py`) | evidence files | replay; accounting over published runs | reads the above |
| Route B acceptance (`src/route_b_*.py`, `src/production_acceptance_session.py`) | the session, its ledger, summary and final acceptance on main | activate, collect, admit, audit, finalize | reads scheduler runs through the Actions API |
| history acquisition in chunks (`src/history_chunk_planning.py`, `src/history_acquisition_execution.py`) | per chunk a consumption record and a run directory: intents, raw bytes, receipts, events, checkpoints, `STOP.json`, `RESULT.json`; `HALTED.json` and a lock per campaign | `execute_chunk`, `execute`, `replay`, `_campaign_guard` | the history batch; the acceptance by hand |
| controlled history batch (`src/history_batch_*.py`, `src/history_acceptance_sidecar.py`) | issuer and witness journals, an acceptance ledger, a lock, the memories of two processes | authorize, execute, accept, append, acknowledge, revoke | executes chunks; shares the ledger with the control centre |
| production source acquisition (`rate_production_source_acquisition.yml`, `scripts/materialize_production_history_store.py`, `src/sources/tpex_date_binding.py`) | the committed history store and bundles | materialize, bind dates, build, push | feeds the source bundles |
| full-market bootstrap (`src/full_market_*.py`, its workflow) | plans, checkpoints, receipts and snapshots on a branch of their own | plan, resume, acquire by shard, import, aggregate, push | history for the rotation |
| staging campaign (`rate_phase_a2_validation.yml`, `scripts/bootstrap_live_history.py` and others) | generations in the caches of GitHub | restore, fetch a chunk, save, materialize, manifest | none so far |
| fundamental first refresh (`src/fundamental_first_refresh_execution.py` and its consumers) | authorization, consumption record, acquisition stores, snapshots, the Fundamental `Latest` | claim, acquire, replay, resolve, publish, verify | the ranking consumer |
| intraday activation governance (`src/intraday_*.py`) | markers and branches on GitHub, receipts in a store, documents | review, authorize, fence, execute, qualify, verify | off the production path so far |
| providers, EPS, revenue (`src/provider_*.py`, `src/prospective_*.py`) | shadow stores, coverage, recovery progress | qualify, acquire, compute | candidates for the source bundles |
| adapters, parsers, features (`src/sources/`, `src/eps_duration_facts/`, `src/rate_logic.py`, ...) | none | pure | source bundles and decisions |

### What is hard here

Every guarantee rests on the order in which plain files are written and on what
a later reader, in another process, on another day, makes of what it finds.

- *Concurrency*: several publishers of one tree; a scheduler group and two
  bootstrap groups that race for one branch with rebases.
- *Failure*: runners die between any two writes; nothing is transactional but
  one `os.replace` and one `git push`.
- *Retry*: a call may be made again, by the same run or by another one, after
  any failure, and must be a no-op, a completion or a refusal, as the case may be.
- *Staleness*: priors, predecessors, authorizations and `LATEST` are read long
  before they are relied upon.
- *Order*: cadences come late, are skipped, are cancelled while they queue.
- *Single use*: the first full-market refresh, each authorization, each chunk
  and each batch may be used once, and the only record of their use is what
  they wrote.
- *Two processes, one ledger*: the batch runner and its issuer each check what
  the other wrote, over a pipe, while either may die and a person may act by
  hand on the same files.

`PROJECT.json` lists these, at their lines, under `hazards`.

### What makes each component correct

- publication owner: committed transactions stay readable; manifests form one
  unbroken chain; pins are honoured; outcomes are reported truthfully; a dead
  writer blocks nobody; some writer wins.
- live store: a slot with a manifest loads and never changes; the lineage is
  legal; nothing newer is skipped; `LATEST` never goes back; evidence travels
  with the state; the first refresh happens once.
- chains: states are appended once, after the state they follow; the index never
  overtakes the chain; a reported PASS is backed.
- bootstraps: packages are whole or absent; authorizations are single-use, even
  across a crash; a repair only moves `LATEST` on.
- scheduler: main never loses a state; what is pushed follows the newest state
  on main; every job ends; while nothing fails, every slot is published.
- Route B and the soaks: credit goes to one authentic lineage, the ledger keeps
  what it has credited, and an authentic run is not turned away.
- chunk acquisition: no request is sent twice, by anybody, ever; a chunk that
  replays is one whose every request was sent and answered; one chunk runs at a
  time; none starts after one has died.
- batch: the journals are issued into by one session; a claim has a reserved and
  witnessed release behind it; no chunk follows by itself; every credit is earned.
- sources and histories: what reaches a branch or a cache is bound to its date,
  whole, and fetched once; a branch that is append-only only grows.
- fundamentals: no request of a refresh is sent twice; what is published is
  complete and claimed; a failure stays one.
- activation: a provider is used behind its fence; a branch is whole or not
  there; a report of PASS or of cleanliness is true; what is executed was made
  for one commit of main.

## 2. The modules

| module | models | read with |
|---|---|---|
| `PublicationLog` | abstract: an append-only log of transactions | |
| `RefreshCommit` | `publish_latest` and `commit`, statement by statement | refines `PublicationLog` |
| `SourceAcquisition` | an acquisition of a day, from its dispatch to its push | |
| `CadenceSlots` | slot order and predecessor rules; no variables | extended by `LiveState`, `Bootstrap`, `Scheduler`, `RouteB` |
| `SlotStore` | abstract: immutable states, each after an earlier one, and a pointer that moves on | |
| `LiveState` | `publish_report`, `publish_state` and the readers, file by file | refines `SlotStore` |
| `FundamentalRefresh` | the first refresh of the fundamentals, operators and files | refines `PublicationLog` |
| `DecisionChain` | `persist_*_once` over chain, index and bodies | |
| `DayChain` | the acceptance jobs of one trading day and the replay of the full day | |
| `Bootstrap` | the two bootstraps, file by file, between scheduled publications | |
| `RouteB`, `ReportSoak` | the acceptance session over production runs; both soaks over the same runs | `ReportSoak` extends `RouteB` |
| `FullMarketHistory` | the bootstrap of the full market: plans, shards, branch, snapshots | |
| `Scheduler` | jobs, concurrency group, clones, rebase and push | composes the cadence rules with publications as single steps |
| `ActivationReview`, `ActivationExecution` | the documents of an activation, gate by gate | the second extends the first |
| `ChunkCampaign` | abstract: chunks that are claimed once, one at a time, pass or die, and a campaign that halts | |
| `HistoryExecution` | `execute_chunk` by rival operators, request by request and file by file | refines `ChunkCampaign` |
| `HistoryBatch` | runner, issuer process, journals, ledger and control centre | runs on `ChunkCampaign` |
| `StagingHistory` | the staging campaign over the caches of GitHub | |
| `ConsumptionMarker` | the single-use fences in front of the two providers | |
| `ActivationTransaction` | receipt store and Git transaction, with ambiguous answers | |
| `StoreQualification` | the qualification of the receipt store and its cleanup | |
| `MC*` | the instances for TLC | |
| `*_proofs` | the theorems, see section 5 | TLAPS |

Components that share no file are checked side by side in one instance, which
has a variable (`part`, or `cast`) that says which of them a behaviour follows; the others
stay at their start. Invariants of a part are stated for its behaviours; action properties need no such guard,
since what does not move breaks none.

| instance | parts |
|---|---|
| `MCPublication` | `RefreshCommit`; `SourceAcquisition` |
| `MCLiveState` | `LiveState`, with two casts of runs; `FundamentalRefresh` |
| `MCAcceptance` | `DecisionChain` (through `MCDecisionChain`); `Bootstrap`; `RouteB` with `ReportSoak`; `DayChain`; `FullMarketHistory` |
| `MCMain` | `Scheduler` (through `MCScheduler`); `ActivationReview` with `ActivationExecution` |
| `MCHistory` | `HistoryExecution`; `HistoryBatch`; `StagingHistory` |
| `MCActivation` | `ConsumptionMarker`; `ActivationTransaction`; `StoreQualification` |

Operators whose comment begins "Faulty variant" are what a plausible mistake
would have made of the definition that follows them. No specification uses
them; they are there to show that each property can fail.

### RefreshCommit

`pc[a]` is the place of attempt `a` in `publish_latest`: identity captured,
prior read, bundle validated, the four objects put in turn, then `commit` under
the lock (compare, put the refresh manifest, verify, replace, observe), then
the compatibility view. An object is absent, `torn` or `whole`. A refresh
manifest seals its own time stamps, so its digest is the attempt's name;
bundles and snapshots can be shared, and `ReuseObject` and `ObjectConflict` are
what sharing leads to. `WriterRaises`, `IoError` and `Crash` are the failures:
an exception in any statement, the writer raising before or after its replace,
and the end of the process; all of them give the OS lock back.

`publish_latest` refuses a prior it cannot cold-read, so a `Legacy` pointer
(written before there were manifests) is an initial value of its own.

### CadenceSlots and LiveState

Slots are numbered in the order the code compares them, four a day; the
rebaseline is the 19:30 of day 0. `LiveState` has one function from slots to
writers for each file, so a torn slot is one whose files differ or are missing,
and the manifest is what makes it live. `Call` may be taken again after any
failure. Runs of the scheduler group do not overlap (`Busy`), but they come in
any order, and so late. Portfolios and rankings are abstracted to whether a
state is `Ranked`, which is what `validate_first_refresh` looks for.

### DecisionChain

One chain with any number of jobs; a decision is named by the job that makes
it. `Persist` is the read-and-decide half of `persist_*_once`, followed by the
three writes; a job calls it twice to prove idempotency, and so does the code.
A decision names the hash of its predecessor and so cannot be older than it;
`Computed` gives each decision a time to say that.

### Bootstrap

`Rebaseline` inspects the slot, stages four files and promotes them with one
rename; `Recover` writes in place and records its consumption last.
`PublishScheduled` stands for a whole `publish_state`, which `LiveState` shows
in steps.

### Scheduler

`work[j]` is the clone of job `j`, `commits` the history of main. Because a job
leaves its clone only by one commit, a publication is one step here; that the
publication itself is safe step by step is `LiveState`'s and `Bootstrap`'s
business. `RebasesCleanly` and `Rebased` say what git does: added paths must
not clash, and `LATEST` must not have been changed on both sides. A group keeps
one running and one pending job; a newer trigger replaces the pending one.

Two switches state what the workflows could do: `SourceStepOptsIn` (the step
that publishes the source bundle passes `--phase2`) and `CommitStagesManifest`
(the commit adds the thin manifest). The workflows do neither. The safety runs
set both to `TRUE`: with `FALSE`, fewer jobs reach their push, and every
reachable state of main is also reached with `TRUE`. The run with both `FALSE`
is the finding below.

### HistoryExecution and ChunkCampaign

An operator is a process inside `execute_chunk`: it takes the campaign's lock,
asks the guard to replay every chunk somebody claimed, claims its own (the
consumption record), binds plan, seal and authorization, and goes through the
plan entry by entry: intent, dispatch, raw bytes and receipt, event, checkpoint;
then `RESULT.json`, and it replays itself. Any error inside an entry ends the
run with `STOP.json`; any other after the claim, and every stop, halts the
campaign, if `HALTED.json` can be written. A process may die between any two
steps, and what it was writing may be left in part (`torn`). `sent` counts what
the source was asked and `valid` what it answered well; no file records the
first, and so the properties compare the files with them.

Files are created exclusively, so `intents`, `events` and `checkpoints` are
counts, and `Replayable` compares them as `replay` does. A last entry whose
checkpoint fails leaves a `PASS` in `RESULT.json` beside `STOP.json`; replay and
guard both refuse that.

`ChunkCampaign` keeps of this only the status of each chunk and whether the
campaign is halted. That `HistoryExecution` implements it is a property of its
run, so `HistoryBatch` may use the three steps of `ChunkCampaign` for what its
runner and the control centre do.

### HistoryBatch

A session is a signed policy with its runner and its issuer process; the policies
name the same registered journals. A journal is its events and whether a part of
a file lies in it (`torn`). A head chains all that was appended, so it is
modelled by the events. `reply` is the packet in the pipe: what was issued and what was
witnessed. `Examine`, `Reserve`, `Sign` and `Witness` are the steps of
`Issuer.authorize`, `accept`, `acknowledge` and `revoke`, each with the head it
expects on disk. `Take*` is `verify_packet`, and `Call*` what the runner checks before it asks.

Anything in the runner may raise (`Fail`): it then writes `HALTED.json`
(`halting`), or dies without (`dying`); `Close` is the end of the pipe, on which
the issuer's monitor ends the issuer. Expiry of a policy, of a time limit or of a
signature is a call that fails. A ledger that is halted and a ledger with a torn
entry are refused alike, so `torn` stands for both. The runner's own journal is
left out: it is never written before the issuer's, and a start needs the
issuer's to be empty. Chunks before a window are acquired and accepted by hand,
with the same functions, and `HaltCampaign` is `execute_chunk` for a chunk that
has been claimed, which raises and halts the campaign.

### SourceAcquisition

A row of the history store is its session. A run is dispatched for a date and a
cadence, checks out main, materializes the store (`SelectMarketDaily`, the month
fetches and what is retained), binds TPEx to the date it was asked for, builds
the bundle from what the endpoints serve of the sessions that have closed, and pushes
store and bundle as one commit. The numbers of a row and the rolling features
are abstracted to whose sessions they are of.

### FundamentalRefresh

Operators take authorizations, each with its plan and the `Latest` it was sealed
against, and execute them in roots that may be the same. The model has the claim, one
request after the other with its intent, answer and checkpoint, the replay,
`Adapts` (which of the stored answers the assembler takes), the publication
under the lock, the resolution of a known failure, acquisitions by hand into the
same store, and the consumer that verifies a snapshot. `sent` and `good` count
what no file records.

### DayChain

`run_cer076` to `run_cer080` as command lines over one checkout: each job seeds
its chain, persists, and leaves evidence, and goes by the evidence of the one before. Jobs may be run
again, with and without `--reset-state-root`, at the same time, and be
killed between any two files. The full-day job replays three of them in
directories of its own.

### RouteB and ReportSoak

Production runs publish their slots in time, or late, or not, or by hand; a
verified activation day opens a session; the collector asks the Actions API for
one run after the other and admits it (`Admissible`) or not; `Audit` is the
session's own accounting, `Finalize` the acceptance. The three jobs are one
concurrency group, so a pending one may be cancelled, and each changes main by
one push. Two switches state what the workflows could do: `ReaderTakesQueries`
(the reader takes the paths its caller builds; it does not, a finding) and
`ActivationMayPush` (the checkout of the activation keeps its credentials; it
does not). The safety runs set both to `TRUE`, or nothing would ever be credited. `ReportSoak` adds
both soaks as calculations over a list of the same runs: `LoadSlot`, `FollowsRun`,
`Normalized`, and the counts of days, runs and transitions.

### FullMarketHistory

The branch is the sequence of its commits, and a commit the set of its files. A
run plans for a date or resumes a plan; its shards work side by side and bring
checkpoints and receipts, which may be half written; the last job imports them,
aggregates in `AggregateOrder`, and pushes. The owner files on main may change,
and somebody else may push to the branch.

### StagingHistory

Up to four runs restore the newest cache of a generation, fetch a chunk of
months, and save; with the stocks complete they materialize, bootstrap the
benchmarks and the other market, write the manifest and save the store. Steps
fail one by one; a checkpoint may be accepted (pinned) meanwhile.

### ConsumptionMarker, ActivationTransaction, StoreQualification

All three are about answers that get lost. In `ConsumptionMarker` a creation
that was sent may take effect later than its sender waits for it; `AfterRefusal`
and `ResolveByReadback` are what either executor makes of a refusal and of
silence. `ActivationTransaction` has five kinds of executors: those that
write a receipt first and go on to blobs, tree, commit and ref, and those that
only resolve, or only open the pull request. `StoreQualification` goes call by
call through the administration of a D1 database and a Worker, the probes, and the cleanup
that must run whatever failed.

### ActivationReview and ActivationExecution

`desk` has the newest document of each kind, `at` is the gate that is next; a
gate checks what it is handed against what its caller expects and issues a document that
holds what it names: where the code compares digests, the model compares the
documents. Main moves at any time, and gates may be gone through again, so that
documents of two generations lie on the desk at once.

## 3. The runs

| run | instance | shows |
|---|---|---|
| `MCPublication` | 3 attempts over 2 bundles; or 2 acquisitions over 7 sessions | readability, one chain, pins, truthful outcomes, some writer wins, refinement of `PublicationLog`; sources are bound to their date |
| `MCLiveState` | 5 runs over 2 days, as a full day or as rivals; or 2 operators, 2 authorizations, 2 roots, a FinMind and a MOPS request | truthful slots, legal lineage, one first refresh, nothing skipped, refinement of `SlotStore`; requests once, complete publications, refinement of `PublicationLog` |
| `MCAcceptance` | 5 chain jobs; 3 rebaselines and 2 recoveries; 4 days of production runs with a fault and a rerun; 5 starts of the day's jobs, 2 at a time, one broken off; 2 bootstraps of a market of three symbols in 2 shards | linkage, append-only, index behind chain; wholeness, single use, repairs; credit is lineage, ledger grows, no authentic run refused; evidence is backed; branch and snapshots |
| `MCMain` | 5 triggers over two days, a recovery, a rebaseline; or the documents over one push, gone through twice | lineage on main, nothing lost, pushes on the newest state, the halt of an unclosed day; one generation |
| `MCSchedulerDue` | four punctual days | every slot is published, every job ends |
| `MCHistory` | 2 operators, 3 chunks of 3 requests; 2 sessions with the windows {2, 3} and {3}; 4 staging runs over 2 + 2 symbols and two days | requests once, replay is true, refinement of `ChunkCampaign`; one issuer, witnessed claims, no automatic next chunk, credit earned; months once, whole stores |
| `MCActivation` | 3 executors, 2 authorizations, 2 lost answers; 3 runners of five kinds, 2 ids, 2 plans, 2 files; 2 qualifications, 3 faults | the fence holds; the branch is whole and reports are true; clean is clean |
| `MCSchedulerOptIn` | the four days with the steps as they are | violated: nothing is published |
| `MCDecisionChainHalf` | the five chain jobs | violated: a half state is left by a kill |
| `MCFugleFence` | 2 executors, one authorization, nothing lost | violated: both pass the fence |
| `MCRouteBReader` | the ledger with the reader as it is, no fault | violated: an authentic run is refused |
| `MCSourceHistory` | 2 acquisitions, no fault | violated: a bundle over an outdated history |

*Bounds.* Three attempts are the least with which one stages an object another
is writing while a third moves the pointer; two bundles let attempts share and
not share objects. Two trading days contain each kind of predecessor, a first
refresh, and a late rival for it; every rule looks back at most to the evening
before. Five chain jobs give rival bootstraps, rival followers, a follower of a
follower and one with a foreign predecessor. The bootstraps have three
authorizations for one slot and one each for two later ones. Four days in
`RouteB` are an activation day and the three that are accepted, and one fault or
one rerun anywhere in them is what makes credit doubtful; four days in
`MCSchedulerDue` let every cadence follow every other and the nominal date
resolution go round. Two operators can race for a chunk, for the lock, and
find one another's remains; three chunks give one that has passed, one that has
died and one that must not start; three requests have a first, a middle and a
last. The batch's two windows overlap, so that both sessions want the journals
and chunk 3; chunk 1 is by hand because a policy needs an accepted ledger to
start from. Seven sessions are two full months behind today's. Two market runs
make the second resume, or fail to resume, what the first left. Three executors
at a fence are two that race and one that comes late. Nothing else is bounded:
counters (`staged`, `persists`) are bounded by the code. `CHECK_DEADLOCK FALSE` is set where
attempts are finite and end, where the calendar does, or where a batch and
its campaign have halted, which is for good.

*Symmetry* is used for attempts, acquisitions, operators, chunks, authorizations, executors
ids and plans, which no definition orders or names, in runs without liveness.

*Fairness.* Only the scheduler's liveness (`MCSchedulerDue`, `MCSchedulerOptIn`)
needs it: weak fairness of the clock, of triggers that are due and of each
job's steps: GitHub runs what it started. Without failures (`RunsMayFail`
FALSE) a slot's run is also over before the slot after the next, which is how
long the jobs have.

## 4. What the runs found

The violated runs:

- `MCSchedulerOptIn`: the scheduled 07:30 and 19:30 jobs build a Phase2 bundle
  but publish it without `--phase2`; the publisher refuses
  (`PHASE2_EXPLICIT_OPT_IN_REQUIRED`) and the commit step never runs. Were the
  flag passed, the tracked thin manifest the publisher rewrites would be left
  unstaged and `git pull --rebase` would refuse.
- `MCDecisionChainHalf`: a kill between chain and index leaves a half state,
  and the restart raises `PREVIOUS_CURRENT_MISMATCH`; the gate named
  `partial_persist_failure_no_half_state` exercises no failed persist.
- `MCFugleFence`: the Fugle executor takes GitHub's refusal of an existing ref
  for an ambiguous answer, reads the winner's marker, which names no executor,
  and takes it for its own.
- `MCRouteBReader`: `GitHubActionsReader.get` refuses any path with a query, and
  two of the five paths its caller builds have one.
- `MCSourceHistory`: a store with enough rows is never brought up to date.

What follows was seen while modelling. No run depends on it; where a property
would contradict it, the property is stated so as to hold with it.

*Live state and scheduler.* After a fresh promotion the rebaseline writes
`LATEST` whatever it names (`scripts/bootstrap_production_rebaseline_state.py:641`), so one
for an older empty slot can move it back; the monotonic guard of
`tests/test_rate_rebaseline_bootstrap.py:567` is on the repair path only.
`docs/RATE_PR24_COMPATIBILITY_PHASE_A.md:10` says that MAIN_ONLY authority is not
inherited by scheduled runs, while `rate_production_0730_scheduler.yml:46` sets it
for `schedule` events. A bootstrap for an older slot that leaves `LATEST` as it is lets
a late scheduled run rebase cleanly over it, so that run is not on the newest
state; `PushedOnNewest` and `UnclosedDayHalts` are therefore about bootstraps of
the day at hand. The compatibility view of a source bundle is written after the
lock is given back (`scripts/publish_production_source_bundle_latest.py:372`) and may be older than `Latest`.

*Acceptance of a day.* A `--reset-state-root` that is killed can delete the chain
and leave the index. A next run killed between chain and index leaves the old
index, and a third one without reset then reports `IDEMPOTENT_NOOP` though its
state is not in the chain: `"repeat"` evidence and the PASS of the full day are backed by
the index only, and so says `EvidenceBacked`. A plain rerun yields evidence
without `state_entry`, which the next stage refuses. The full-day job shares the directory
of its failure gates with the stage jobs. `hard_pass` of CER-081 writes `state_continuity`
PASS and compares no lineage; report-only runs keep it from ever passing.

*Route B.* The activation's checkout does not keep credentials and then pushes.
Pushes with `GITHUB_TOKEN` start no workflow, so no collection starts a
finalization. The concurrency group cancels pending collections. One run that is late, missed or by hand
leaves a session that cannot be finished. The three whole days that are accepted need
not be consecutive, only every day between them has its morning and its evening.

*Source and histories.* An acquisition for an earlier date drops newer rows of
the store; benchmark rows are keyed `symbol` in one place and `benchmark_symbol`
in another; FAIL_CLOSED material overwrites PASS. In the staging campaign the
restore key `...-` also finds generations named `-materialized`, after which the
next materialization fails with `CROSS_MARKET_CONTAMINATION` for good; the manifest step is
`always()` and reports a checkpoint that was never materialized; a month cached
while it is in progress stays as it is; of two runs of different dates the later save hides
the months of the other; a budget that is reached exactly at completion reports
`MORE_WORK`. In the full-market bootstrap "Re-run failed jobs" cannot succeed (the plan's artifact is named
by `run_attempt`); one half-written checkpoint fails the whole import; a change
of an owner file makes earlier plans unresumable and earlier snapshots
unreadable; the symbols of one snapshot may come from different runs.

*Fundamentals.* The publisher does not wait for the lock, so a claim of another
operator at that moment stops a complete acquisition for good.
`FIRST_REFRESH_STOP.json` may be written although `Latest` has moved. Of two authorizations with one root, one is
consumed without a request. `failure_evidence` reads `intent["dispatch"]["monotonic_timestamp"]`, which plan-bound
intents nest deeper, so a failure of the first refresh cannot be resolved. A store that is
also acquired into by hand yields an accepted lineage that cannot be verified.

*Activation.* The rehearsal of the request shapes has no cleanup when it fails,
and so reports nothing; `QualificationClean` is about what is reported.
`docs/RATE_INTRADAY_FINAL_MAIN_ACTIVATION_APPLY_READINESS_V1.md:15` wants the
final delta to use the endpoint and the secret of the historical chain; the
readiness compares both with what its caller expects
(`src/intraday_final_main_apply_readiness.py:150`), and no document of the
historical chain names them.

## 5. The proofs

Every theorem is about a specification as TLC runs it, for all values of its
constants that meet the assumptions named below, and no proof rests on a bound of a configuration.
Where several parts share an instance, a behaviour of the whole is, in the variables
of each part, a behaviour of that part (each file proves this step once), and
what holds of the part is carried over. The parts that are instantiated with
names of their own are proved about in place, with the prefix of the instance
(`Documents!`, `Ledger!`, `Store!`), or, for any constants, in a module of their
own that the instance names (`Bootstrap_proofs`, `ActivationTransaction_proofs`).

| file | invariant | theorems |
|---|---|---|
| `RefreshCommit_proofs` | `CommitInv`, `WinInv`, `WalkInv`; `AcquisitionInv` | `TypeCorrect`, `CommittedReadable`, `CommittedLineage`, `CommittedPins`, `ReportedOutcome`, `WriterExclusion`, `OneWriterWins`, `ImplementsLog`, `PublicationFollows`; `SourcesSound` |
| `MCLiveState_proofs` | `LiveInv`, `RefreshInv`, `ChainInv` | `StoreIsTruthful`, `LineageIsSound`, `NothingIsSkipped`, `ImplementsStore`, `CastsFollowTheStore`; `RefreshInvariant`, `RefreshesSound`, `RefreshImplementsLog` |
| `MCAcceptance_proofs` | `IInv` (chain), `LedgerInv`, `DayInv`, `MarketInv` | `ChainStaysLinked`, `ChainStaysAhead`, `ChainOnlyGrows`; the four of `Bootstrap_proofs`; `CreditsAreLineage`, `LedgersGrow`, `AuthenticRunsCredited`, `EvidenceIsBacked`, `MarketsSound` |
| `Bootstrap_proofs` | `BootInv` | `BootstrapsSound`, `SlotsPublishedForGood`, `AuthorizationsAreSingleUse`, `RepairsMoveOn` |
| `MCMain_proofs` | `JobsInv`, `DeskInv` | `LineageStaysOnMain`, `StatesStayOnMain`, `JobsFollowTheScheduler`, `OneGenerationExecuted` |
| `HistoryExecution_proofs` | `IInv`, `EvidenceInv`, `GuardInv`; `BatchInv`; `StagingInv` | `SentOnce`, `OneExecutes`, `ReplayIsTrue`, `ImplementsCampaign`; `BatchesSound`; `StagingsSound` |
| `ActivationTransaction_proofs` | `GitInv` | `TransactionsSound` |
| `MCActivation_proofs` | `FenceInv`, `QualificationInv` | `ProviderFenced`, `TransactionsSound`, `QualificationsClean` |

*Assumptions.* They say that names differ that must (`IdentitiesDistinct`,
`StateNamesDistinct`, `NoneIsNobody`, `NoneIsNoState`, `BootstrapsAreNoSlots`),
that whoever has a slot has one there is (`RunsHaveSlots`, `TriggersAreSlots`,
`BootstrapsHaveSlots`, `CastsAreRuns`), and that numbers are numbers
(`LastDayIsNatural`, `RequestsPlanned`: a plan has a request, `MarkerConstants`).
The parts of an instance have theirs in `PartsConstants`. TLC evaluates all of
them. Five say more:

- `JobsHavePredecessors` and `PredecessorsAreOlder` (`DecisionChain`): a
  decision names the hash of its predecessor. It is needed: were two decisions each other's
  predecessors, a kill between the seeding of the chain and that of its index
  would let the first one in twice.
- `AcquisitionConstants`: the universe has symbols in both markets
  (`scripts/materialize_production_history_store.py:54`), a history needs a session
  at least, and the store retains what is needed.
- `OneWriterWins` assumes that there is an attempt.
- `AuthenticRunsCredited` assumes `ReaderTakesQueries`: with the reader as it is
  the property is false, which is the finding of `MCRouteBReader`.

### RefreshCommit

None of the safety properties is inductive. A replace keeps the chain because
the comparison made earlier under the lock still holds (`CasStable`), and keeps
the log readable because what was cold-read before it still is there
(`VerifiedReadable`); those hold because the lock has one holder (`LockIsLive`)
and because `whole` only grows, which in turn needs an object to be completed
only by the attempt that created it. `SeenPhases` ties the log to the program
counters, so that an attempt enters the log once. `WinInv` says that what is
staged is whole or has an owner who may still complete it, and gives each
refused attempt somebody to blame; if all are refused, the blame goes round and
none is left. `WalkInv` says that each manifest stands in the log once, right after its prior.
`Lineage`, which the refinement of `PublicationLog` reads the log through, is a recursive
function over the chain; the proof exhibits a function that satisfies its
equation and shows by the least counterexample that there is no other.

### LiveState

That a slot with a manifest is whole, legal and newest is decided in
`CheckState` and used in `WriteManifest`, four writes later. `LiveInv` says what stays
true in between: one run works at a time, the files of its slot are still its own,
and `Justified` repeats the check as it would come out now. A run that comes
late or a second time finds what an earlier one left, for which
`SlotsOwned` gives each file a writer of that slot. The refinement of
`SlotStore` maps a published manifest to `Publish`, the two writes of `LATEST` to its move, and
everything else to a stutter.

### The first refresh

That no request is sent twice rests on two things. An authorization is claimed
by a record that is created exclusively, so each claim has one operator and one
root; and an operator goes through its plan once. `RefreshInv` gives, for
each operator, the point it has reached: what it has not come to was never sent,
what it has passed was answered. While it is at an entry its store has one intent more
than events, and that intent is not one by hand, so nobody can resolve it
behind its back; after a crash it stays like that, and no replay accepts it.
What is published is what its operator claimed and scanned to the end, and
`ChainInv` says that the published authorizations form a chain whose members
nobody holds any more. The log of `PublicationLog` is that chain, a recursive function
over it; as in `RefreshCommit`, the proof exhibits a solution of the equation
and rules out another by least counterexample. That the consumer accepts every matrix
the assembler writes is the lemma that the loop over periods (`Lacking`), walked in the
other direction and turned round, gives the same list.

### Decision chains

That no state is in the chain twice is not inductive: a job may find itself in
the chain and not in the index, after a kill between the two. `OrderInv` says
that the chain is ordered by time, so a decision that fits behind the tail is
newer than everything in it. `WritingInv` carries what `Persist` saw to the
writes that rely on it, which `SerialInv` (one job at work) protects.

### Bootstraps

`BootInv` follows each bootstrap from what it found of its slot to its last
write (`RebaselineAt`, `RecoveryAt`), and has in it what a call that died leaves
and the next one meets: a package staged and not promoted, a slot promoted with
no `LATEST`, a recovered slot with no record. An authorization whose state is published
therefore inspects a slot that is its own, and repairs or stops.

### Scheduler

A job decides in a clone and pushes when main has moved. `CloneInv` says
that a clone is the commit it is based on and at most the one state its job published,
and `MainInv` that main has kept all there was in any commit. So a
predecessor that was on main at the checkout is there at the push, whatever was
rebased over what; a slot that has been taken meanwhile makes the rebase fail.

### The activation's documents

Each document holds a whole copy of what it was made from, and main's
generations do not change, so a comparison that was made once stays true.
`DeskInv` says of seven kinds of documents what the gates before them compared;
the last one adds up to one generation. No assumption tells
`None` from a document, so the invariant speaks of what is known.

### Route B and the soaks

`LedgerInv` says that the ledger on main and the clone about to be pushed are
both lineages of authentic runs, and that the second extends the first. That credit is a
lineage with nothing left out needs a lemma about slots (`Unbroken`): along runs that each
follow the one before, no published state is passed over. Three whole days need
not be consecutive; what is proved is that every day between them has its
morning and its evening in the credit. The number of credited runs and days is
counted with `FiniteSetTheorems`. Induction over days is by least number
(`LeastOf`, from well-foundedness), since induction theorems that take an operator
cannot be used.

### The jobs of a day

The evidence of a job outlives the chain it is about: a job that starts again
may delete the chain, be killed, and leave the evidence of its last run. `DayInv`
shows why that does not happen: a job takes its evidence back (`NOT_RUN`) before it
touches its directory, and no other job has a place there (`PlaceOfOne`). It
says of every place what is true between two files: what is seeded and not yet indexed is in
the chain, what a job does not have to build any more is indexed, and at the gates the
first call of `persist` has left either the entry in chain, index and body or, after a
kill, the index alone, which is what "`repeat`" says. The full day passes on indexes only.

### The full market

A snapshot is a function of the checkpoints below it, so it stays whole on a branch
that grows only if they stay what they were. `Named` makes a checkpoint's file
name say which plan and symbol it is of, and `Immutable` gives such a name one
content: the snapshot that is computed anew from a later commit (`Core`) is the
one that was written (`CoreStays`). Every material is of its run's version of the owner files,
and a run starts only on a plan that binds that version (`RunInv`), in however many runs the
plan is resumed. A half-written file is read before anything is stored
(`ImportedLoads`), which is why a checkpoint on the branch loads for good. A push adds to the
commit it was made on or is refused (`PublishOk`), so what was reported PASS stays where
it was named.

### Source acquisition

An acquisition is alone with its clone, so `AcquisitionInv` is about what a job has made
before others move main, and the exchanges the day. The store of a job that builds is for
its date (`StoreFor`): the months fetched are as many as are needed and no more, which
is one number (`ReplenishedFor`), and the newest `MaxSessions` of at least `MinSessions`
sessions are as many as that (`NewestAtLeast`, `NewestAtMost`: the newest are closed upwards,
so the last one left out and the first one kept can be counted from). The daily rows are of the date
or missing, by whichever of the three ways they were selected, and the join wants them
for every symbol (`DailyRows`). Only a tree whose bundle was built on its own store is
pushed (`TreeSound`).

### Chunk acquisition

`RequestedOnce` alone says nothing of why an operator that is about to send has
not done so before, or why nobody else has. `LockInv` gives whoever is not
idle the campaign's lock; `ClaimInv` says that a chunk nobody claimed was not
asked for, and that who is about to claim found his unclaimed; `AheadInv` that
the entries a run has not come to are unsent, so a dispatch
counts from zero to one and no further. `EvidenceInv` ties the files of a run to the
counts its holder keeps and to what went out, also those a dead run leaves; `GuardInv` carries
what the guard saw to the claim, which is what the refinement of `ChunkCampaign` needs for `Start`.

### The batch

The sandbox lock is not needed for what is proved: the journals are enough. They
only grow, and an issuer extends a head that consists of its own events
(`IssuerOk`), so whoever appends extends a journal of his own, and one session issues
(`JournalInv`). What an issuer remembers bounds the chunks it has reserved, so no
chunk is reserved twice and a release stands right behind its reservation. An
answer on its way to the runner is witnessed already; the runner reads it against the head
it knows (`Continues`), and that makes the release its own and the chunk's.
`RunnerOk` keeps that from the answer to the claim and from the acceptance to the credit;
`ClaimsInv` and `CreditInv` say it of the files, whatever is acquired or accepted by
hand meanwhile.

### The staging campaign

A symbol wants at most one month at a time: the newest that is missing
has no missing month above it (`OneWanted`). So a fetch fills an empty cell, as do all
later steps (`MonthsTyped`), and a run keeps of the generation it started
from whatever that had (`RunOk`). Its store is the restored one until it
materializes, which it does only from the checkpoint that was accepted; what comes
after changes the series of the other market and the benchmarks alone (`SameStocks`).
Between the materialization and the manifest a store may be in pieces; it is not
saved there, and `WholeOrNothing` is claimed of the phases before and of what the
manifest lets pass. Runs that wait for nobody do no harm, since a generation is
appended and never changed (`Growing`).

### Fence, transaction and qualification

Nothing is held by a lock here. What an executor learned stays true because it
is about refs, receipts and objects that are written once and never removed: an answer
"created" means that the ref is one's own (`CreatedIsOwn`), a Cloudflare executor in doubt has
lost an answer (`DoubtIsLoss`), one that started late found the marker
(`LateStops`). `At(e)` is the same for the transaction, kind by kind and place by place; the lemma
`Grown` carries it over the steps of the others. `QualificationInv` counts what a run has made and
what it has tried to remove at each place of the cleanup.

### Only model-checked

- `EverySlotPublished`, `JobsEnd`: liveness is out of the prover's reach, and so
  is whatever needs ENABLED.
- `PushedOnNewest`, `UnclosedDayHalts`: false for arbitrary bootstraps, see section 4.

## 6. What is not modelled, and what is left to do

Not modelled: the numbers (scores, features, accounts), the parsing of official
sources and the adapters for them, the contents of evidence files, CI workflows
that publish nothing, the prospective providers, EPS and revenue candidates, and
the scripts that verify or probe. They are calculations over documents, or I/O. The
verdicts of validators appear as free choices. Of the chunk acquisition the
partition of a plan into chunks, and of the intraday governance the
single-purpose rehearsals that repeat one of the protocols over a smaller
transport, are left out; session discovery repeats the single use of `HistoryExecution`
over one request. `PROJECT.json` gives the reason for each component.

Left to do: the resumable acquisition recovery of the prospective
providers, and their shadow-forward ledger.
