------------------------- MODULE FullMarketHistory --------------------------
(***************************************************************************)
(* The full-market history bootstrap (rate_full_market_history_bootstrap   *)
(* .yml, scripts/bootstrap_full_market_history.py,                         *)
(* src/full_market_history.py and its acquisition): a run plans or resumes *)
(* a plan, its shards acquire their symbols side by side on runners of     *)
(* their own, and one job publishes what they bring to an append-only      *)
(* branch.  A snapshot is accepted when every symbol of the plan is there. *)
(* The workflow's concurrency group keeps runs one after another.          *)
(*                                                                         *)
(* The branch is the sequence of its commits, a commit is the set of its   *)
(* files, and a file is << directory, name, content >>.  A name that is    *)
(* the hash of the content is the content here.                            *)
(***************************************************************************)
EXTENDS Naturals, FiniteSets, SequencesExt

CONSTANTS
  Shards,      (* the shards of a plan: disjoint sets of symbols   *)
  Dates,       (* the dates a bootstrap is asked for               *)
  MaxRuns,     (* bound: runs dispatched                           *)
  MaxMerges,   (* bound: changes of the owner files on main        *)
  MaxRivals,   (* bound: pushes of somebody else to the branch     *)
  None

VARIABLES
  owners,      (* the version of the owner files on main           *)
  branch,      (* rate-production-history                          *)
  run,         (* the run at work, or None                         *)
  shard,       (* its acquire jobs                                 *)
  publish,     (* its persist-and-validate job                     *)
  accepted,    (* the snapshots reported PASS, with their commits  *)
  count        (* runs, merges and pushes of others so far         *)

vars == << owners, branch, run, shard, publish, accepted, count >>

PlanSymbols == UNION Shards
ShardOf(s) == CHOOSE h \in Shards : s \in h

MarketConstants ==
  /\ IsFiniteSet(PlanSymbols) /\ \A g, h \in Shards : g # h => g \cap h = {}
  /\ {} \notin Shards /\ {MaxRuns, MaxMerges, MaxRivals} \subseteq Nat /\ None \notin Dates

(* open_store: the files of the newest commit, none without a branch.      *)
Tip == IF branch = << >> THEN {} ELSE Last(branch)

(* put_bytes: a file that exists is never given another content.           *)
Immutable(files) ==
  \A f, g \in files : f[1] = g[1] /\ f[2] = g[2] => f[3] = g[3]
-----------------------------------------------------------------------------
(* A plan is named by its content: who made it, its date and the owner     *)
(* files it binds.  What is acquired is bound to the plan and to the run.  *)
Material(r, s) == [plan |-> r.plan, symbol |-> s, by |-> r.id, owners |-> r.owners]

(* retain_response: the answers of the market's fundamentals a material    *)
(* was read from.                                                          *)
RawOf(m) == LET e == << m.plan, ShardOf(m.symbol), m.by >> IN << "raw", e, e >>

(* checkpoint_path *)
ProgressIn(files, p) == {f \in files : f[1] = "progress" /\ f[2][1] = p}

(* load_response: they are kept beside it. *)
AnswersKept(files, m) == RawOf(m) \in files

(* validate_symbol: the material is the symbol's, of this plan, and the    *)
(* answers it rests on are kept beside it.                                 *)
ValidSymbol(files, p, s, m) ==
  /\ m.plan = p /\ m.symbol = s
  /\ AnswersKept(files, m)

(* load_checkpoint: a checkpoint whose material is there and valid.        *)
LoadCheckpoint(files, p, s) ==
  \E f \in ProgressIn(files, p) :
    /\ f[2][2] = s
    /\ << "material", f[3], f[3] >> \in files
    /\ ValidSymbol(files, p, s, f[3])

(* persist_symbol: the material, then its checkpoint.                      *)
PersistSymbol(r, s) ==
  LET m == Material(r, s)
  IN  {<< "material", m, m >>, << "progress", << r.plan, s >>, m >>}

(* snapshot_core: what each symbol's checkpoint names.                     *)
Core(files, p) == [s \in PlanSymbols |-> CHOOSE m \in {f[3] : f \in ProgressIn(files, p)} : m.symbol = s]

(* Faulty variant: the snapshot names what it describes before that is written. *)
AggregateOrderSnapshotFirst == << "snapshot", "replay", "shards", "manifest" >>

(* aggregate writes these one after another.                               *)
AggregateOrder == << "replay", "shards", "manifest", "snapshot" >>

Aggregated(kind, files, p) ==
  LET core == Core(files, p)
  IN  CASE kind = "shards"   -> {<< "shard", [s \in h |-> core[s]], [s \in h |-> core[s]] >> : h \in Shards}
        [] kind = "snapshot" -> {<< "snapshot", p, core >>}
        [] OTHER             -> {<< kind, core, core >>}

(* The symbols a snapshot still misses.                                    *)
Missing(files, p) == {s \in PlanSymbols : ~LoadCheckpoint(files, p, s)}

(* reload_snapshot, by a reader whose owner files are v.                   *)
Reloads(files, p, v) ==
  /\ p.owners = v
  /\ Missing(files, p) = {}
  /\ \A kind \in ToSet(AggregateOrder) : Aggregated(kind, files, p) \subseteq files
-----------------------------------------------------------------------------
Idle == [at |-> "waits", pending |-> {}, out |-> {}]
NoJob == [at |-> "waits", base |-> 0, files |-> {}, passes |-> FALSE]

Init ==
  /\ owners = 0 /\ branch = << >> /\ run = None /\ accepted = {}
  /\ shard = [h \in Shards |-> Idle]
  /\ publish = NoJob
  /\ count = [runs |-> 0, merges |-> 0, rivals |-> 0]

(* Faulty variant: a plan is resumed whatever the owner files are by now. *)
ResumableAnyOwners(p, date) == << "plan", p, p >> \in Tip /\ p.asOf = date

(* validate_plan: a durable plan, of the date asked for and of the owner   *)
(* files of this checkout.                                                 *)
Resumable(p, date) ==
  /\ << "plan", p, p >> \in Tip
  /\ p.asOf = date /\ p.owners = owners

(* The plan job: build_plan, or the plan named by resume_plan_id.  Without *)
(* a plan the other jobs do not start.                                     *)
Start(plan) ==
  /\ run = None /\ count.runs < MaxRuns
  /\ run' = [id |-> count.runs + 1, plan |-> plan, owners |-> owners]
  /\ count' = [count EXCEPT !.runs = @ + 1]
  /\ UNCHANGED << owners, branch, shard, publish, accepted >>

PlanNew(date) == Start([by |-> count.runs + 1, asOf |-> date, owners |-> owners])

PlanAgain(date) ==
  \E p \in {f[3] : f \in {g \in Tip : g[1] = "plan"}} : Resumable(p, date) /\ Start(p)
-----------------------------------------------------------------------------
(* acquire_fundamentals: the answers of the market are kept, and without   *)
(* them no symbol of the shard is acquired.                                *)
AcquireFundamentals(h, pending, answered) ==
  LET e == << run.plan, h, run.id >>
  IN  [at |-> "works", pending |-> IF answered THEN pending ELSE {},
       out |-> IF pending = {} THEN {} ELSE {<< "raw", e, e >>}]

(* acquire_shard: what is durable is taken as it is; a durable checkpoint  *)
(* that does not load stops the job.                                       *)
OpenShard(h, answered) ==
  LET durable == {s \in h : \E f \in ProgressIn(Tip, run.plan) : f[2][2] = s}
  IN  /\ run # None /\ shard[h].at = "waits"
      /\ \A s \in durable : LoadCheckpoint(Tip, run.plan, s)
      /\ shard' = [shard EXCEPT ![h] = AcquireFundamentals(h, h \ durable, answered)]
      /\ UNCHANGED << owners, branch, run, publish, accepted, count >>

(* acquire_symbol and persist_symbol, on the runner.                       *)
Acquire(h, s) ==
  /\ run # None /\ shard[h].at = "works" /\ s \in shard[h].pending
  /\ shard' = [shard EXCEPT ![h].pending = @ \ {s}, ![h].out = @ \cup PersistSymbol(run, s)]
  /\ UNCHANGED << owners, branch, run, publish, accepted, count >>

(* A symbol the sources do not answer for, or too late for the budget: the *)
(* shard goes on and fails in the end.                                     *)
FailSymbol(h, s) ==
  /\ run # None /\ shard[h].at = "works" /\ s \in shard[h].pending
  /\ shard' = [shard EXCEPT ![h].pending = @ \ {s}]
  /\ UNCHANGED << owners, branch, run, publish, accepted, count >>

CloseShard(h) ==
  /\ run # None /\ shard[h].at = "works" /\ shard[h].pending = {}
  /\ shard' = [shard EXCEPT ![h].at = "uploaded"]
  /\ UNCHANGED << owners, branch, run, publish, accepted, count >>

(* What is there with the file being written half written.                 *)
HalfWritten(h) ==
  LET out == shard[h].out
      halves(s) == LET m == Material(run, s)
                   IN  {out \cup {<< "material", m, None >>},
                        out \cup {<< "material", m, m >>, << "progress", << run.plan, s >>, None >>}}
      first == IF Cardinality(out) = 1 THEN {{<< f[1], f[2], None >> : f \in out}} ELSE {}
  IN  first \cup UNION {halves(s) : s \in shard[h].pending}

(* A shard that is cancelled or runs out of its hour is uploaded as it     *)
(* stands; with its runner all is lost.                                    *)
KillShard(h, out) ==
  /\ run # None /\ shard[h].at \in {"waits", "works"}
  /\ shard' = [shard EXCEPT ![h] = [at |-> "uploaded", pending |-> {}, out |-> out]]
  /\ UNCHANGED << owners, branch, run, publish, accepted, count >>
-----------------------------------------------------------------------------
Incoming == UNION {shard[h].out : h \in Shards}

(* Faulty variant: what the shards bring is stored unread. *)
ImportableUnread == TRUE

(* import_responses reads every answer of every shard, and one file half   *)
(* written refuses them all.                                               *)
AnswersImported == \A f \in Incoming : f[1] = "raw" => f[3] # None

(* import_progress: every checkpoint of every shard is read and validated  *)
(* before anything is stored.                                              *)
Importable ==
  /\ AnswersImported
  /\ \A f \in Incoming : f[1] = "progress" => f[3] # None
  /\ \A f \in Incoming : f[1] = "progress" => LoadCheckpoint(Incoming, run.plan, f[2][2])

(* The answers, and the checkpoints with the materials they name.          *)
Imported ==
  {f \in Incoming : \/ f[1] \in {"raw", "progress"}
                   \/ \E g \in Incoming : g[1] = "progress" /\ g[3] = f[3]}

(* main, publish: the progress and the plan, then the aggregate, which an  *)
(* error ends after any of its files; what is there is kept.               *)
Stage(written) ==
  LET kept == Tip \cup Imported \cup {<< "plan", run.plan, run.plan >>}
      files == IF Missing(kept, run.plan) # {} THEN kept
               ELSE kept \cup UNION {Aggregated(AggregateOrder[i], kept, run.plan) : i \in 1 .. written}
  IN  /\ run # None /\ publish.at = "waits" /\ \A h \in Shards : shard[h].at = "uploaded"
      /\ Importable /\ Immutable(files)
      /\ Missing(kept, run.plan) # {} => written = 0
      /\ publish' = [at |-> "staged", base |-> Len(branch), files |-> files,
                     passes |-> /\ written = Len(AggregateOrder)
                                /\ Reloads(files, run.plan, run.owners)]
      /\ UNCHANGED << owners, branch, run, shard, accepted, count >>

(* Faulty variant: the push is forced over what others pushed meanwhile. *)
PushForced ==
  /\ run # None /\ publish.at = "staged"
  /\ branch' = Append(branch, publish.files)
  /\ publish' = [publish EXCEPT !.at = "pushed", !.base = Len(branch) + 1]
  /\ UNCHANGED << owners, run, shard, accepted, count >>

(* commit_store: nothing to add is no commit; a branch that moved refuses  *)
(* the push, and the runner's work is lost.                                *)
Push ==
  /\ run # None /\ publish.at = "staged" /\ Len(branch) = publish.base
  /\ IF publish.files = Tip
     THEN publish' = [publish EXCEPT !.at = "unchanged"] /\ UNCHANGED branch
     ELSE /\ branch' = Append(branch, publish.files)
          /\ publish' = [publish EXCEPT !.at = "pushed", !.base = @ + 1]
  /\ UNCHANGED << owners, run, shard, accepted, count >>

EndRun == run' = None /\ shard' = [h \in Shards |-> Idle] /\ publish' = NoJob

(* The remote names the commit that was pushed, and the result is printed. *)
Confirm ==
  /\ run # None /\ publish.at \in {"pushed", "unchanged"}
  /\ accepted' = IF publish.passes /\ (publish.at = "pushed" => Len(branch) = publish.base)
                 THEN accepted \cup {[plan |-> run.plan, commit |-> publish.base]} ELSE accepted
  /\ EndRun
  /\ UNCHANGED << owners, branch, count >>

(* The job raises or dies: nothing of the runner is left.                  *)
Die ==
  /\ run # None /\ \A h \in Shards : shard[h].at = "uploaded"
  /\ EndRun
  /\ UNCHANGED << owners, branch, accepted, count >>
-----------------------------------------------------------------------------
(* Somebody else pushes to the branch; a merge changes an owner file.      *)
Rival ==
  /\ count.rivals < MaxRivals
  /\ branch' = Append(branch, Tip \cup {<< "report", count.rivals, count.rivals >>})
  /\ count' = [count EXCEPT !.rivals = @ + 1]
  /\ UNCHANGED << owners, run, shard, publish, accepted >>

Merge ==
  /\ count.merges < MaxMerges
  /\ owners' = owners + 1
  /\ count' = [count EXCEPT !.merges = @ + 1]
  /\ UNCHANGED << branch, run, shard, publish, accepted >>

Next ==
  \/ \E d \in Dates : PlanNew(d) \/ PlanAgain(d)
  \/ \E h \in Shards : \/ \E answered \in BOOLEAN : OpenShard(h, answered)
                       \/ \E s \in h : Acquire(h, s) \/ FailSymbol(h, s)
                       \/ CloseShard(h)
                       \/ \E out \in {{}, shard[h].out} \cup HalfWritten(h) : KillShard(h, out)
  \/ \E written \in 0 .. Len(AggregateOrder) : Stage(written)
  \/ Push \/ Confirm \/ Die \/ Rival \/ Merge

Spec == Init /\ [][Next]_vars
-----------------------------------------------------------------------------
(* No commit loses or rewrites a file of an earlier one, whoever pushed    *)
(* between and whatever died.                                              *)
AppendOnly ==
  /\ \A i \in 2 .. Len(branch) : branch[i - 1] \subseteq branch[i]
  /\ \A i \in 1 .. Len(branch) : Immutable(branch[i])

(* A snapshot on the branch reloads from its commit, and all it holds was  *)
(* acquired with the owner files its plan binds, in however many runs.     *)
SnapshotsWhole ==
  \A i \in 1 .. Len(branch) : \A f \in branch[i] :
    f[1] = "snapshot" => /\ Reloads(branch[i], f[2], f[2].owners)
                         /\ \A s \in PlanSymbols : f[3][s].owners = f[2].owners

(* A checkpoint on the branch loads: being immutable, one that does not    *)
(* would stop its shard in every later run of the plan.                    *)
ProgressLoads ==
  \A i \in 1 .. Len(branch) : \A f \in branch[i] :
    f[1] = "progress" => LoadCheckpoint(branch[i], f[2][1], f[2][2])

(* What was reported PASS is the snapshot in the commit that was named.    *)
AcceptedStands ==
  \A a \in accepted : Reloads(branch[a.commit], a.plan, a.plan.owners)

(* The history branch of the full market, through all this.                *)
MarketSound == AppendOnly /\ ProgressLoads /\ SnapshotsWhole /\ AcceptedStands
=============================================================================
