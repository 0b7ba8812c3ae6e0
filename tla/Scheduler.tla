------------------------------ MODULE Scheduler -----------------------------
(***************************************************************************)
(* The jobs that publish production states to the main branch, from their  *)
(* trigger to their push: the four scheduler workflows                     *)
(* .github/workflows/rate_production_*_scheduler.yml, which are one        *)
(* concurrency group, and the rebaseline and recovery bootstrap workflows, *)
(* which are a group each and race them for the branch.                    *)
(*                                                                         *)
(* Every job works in a clone of its own and leaves through one commit, so *)
(* the publication that LiveState shows file by file is one step here: it  *)
(* is seen whole or not at all.  A scheduled job is named by the slot of   *)
(* its trigger.  The clock counts slots: it is the last slot whose time    *)
(* has come.                                                               *)
(***************************************************************************)
EXTENDS CadenceSlots, Sequences

CONSTANTS
  SourceStepOptsIn,      (* whether the step that publishes the source      *)
                         (* bundle passes --phase2; in the workflows it     *)
                         (* does not                                        *)
  CommitStagesManifest,  (* whether the commit step adds the thin manifest  *)
                         (* that step rewrites; in the workflows it does    *)
                         (* not                                             *)
  RunsMayFail,           (* whether runs may be late, data may be missing   *)
                         (* and runners may die                             *)
  Triggers,              (* the slots whose cron trigger comes at all       *)
  Rebaselines,           (* rebaseline bootstraps: states without a ranking *)
  Recoveries,            (* recovery bootstraps: the state a scheduled run  *)
                         (* of the slot computed, formally accepted         *)
  BootSlot,              (* the slot each of them is authorized for         *)
  None                   (* no state, no job                                *)

Runs == Triggers
Bootstraps == Rebaselines \cup Recoveries
Jobs == Runs \cup Bootstraps
FailingJobs == {j \in Jobs : RunsMayFail}
Genesis == Baseline    (* the pinned rebaseline the first refresh starts from *)

ASSUME SwitchesAreBoolean ==
  SourceStepOptsIn \in BOOLEAN /\ CommitStagesManifest \in BOOLEAN /\ RunsMayFail \in BOOLEAN
ASSUME BootstrapsAreNoSlots ==
  /\ Rebaselines \cap Recoveries = {} /\ Bootstraps \cap Slots = {}
  /\ None \notin Jobs \cup {Genesis}
ASSUME TriggersAreSlots == Triggers \subseteq Slots \ {Baseline}
ASSUME BootstrapsHaveSlots == BootSlot \in [Bootstraps -> Slots]

VARIABLES
  clock,    (* the last slot whose nominal time has come                     *)
  running,  (* the job of the scheduler group that runs                      *)
  pending,  (* the one that waits for it: a group keeps one                  *)
  pc,       (* where each job is                                             *)
  work,     (* each job's workspace: the tree, the commit it is based on,    *)
            (* the slot it publishes and the predecessor it decided on       *)
  commits   (* the trees of main, one a commit                               *)

group == << running, pending >>
vars == << clock, group, pc, work, commits >>

(* A tree: in each slot directory the job whose state it is and the state  *)
(* that names as its previous one; and the slot LATEST names.              *)
States == [by : Jobs \cup {Genesis}, previous : Jobs \cup {Genesis, None}]
Tree == [at : [Slots -> States \cup {None}], latest : Slots]

ASSUME NoneIsNoState == None \notin States

Directories(tree) == {s \in Slots : tree.at[s] # None}

Start ==
  [at |-> [s \in Slots |-> IF s = Baseline THEN [by |-> Genesis, previous |-> None] ELSE None],
   latest |-> Baseline]

Main == commits[Len(commits)]
HeadCommit == Len(commits)

Clean(j) == [tree |-> Start, base |-> 0, previous |-> None,
             slot |-> IF j \in Runs THEN j ELSE BootSlot[j]]

Steps == {"checkout", "resolve", "publish", "source", "commit", "push"}
Over == {"cancelled", "failed", "done"}
Phases == {"untriggered", "pending"} \cup Steps \cup Over

Goto(j, phase) == pc' = [pc EXCEPT ![j] = phase]

(* Faulty variant: the job that waits is never started. *)
LeaveWaiting(j, phase) ==
  /\ work' = [work EXCEPT ![j] = Clean(j)]
  /\ Goto(j, phase)
  /\ IF j = running THEN running' = None /\ UNCHANGED pending ELSE UNCHANGED group

(* The job is over: its workspace is gone, and what waited in its group    *)
(* starts.                                                                 *)
Leave(j, phase) ==
  /\ work' = [work EXCEPT ![j] = Clean(j)]
  /\ IF j = running
       THEN /\ running' = pending /\ pending' = None
            /\ pc' = [i \in Jobs |-> IF i = j THEN phase
                                     ELSE IF i = pending THEN "checkout" ELSE pc[i]]
       ELSE Goto(j, phase) /\ UNCHANGED group

-----------------------------------------------------------------------------
(* Faulty variant: the clock runs over the calendar. *)
TickForever == clock' = clock + 1 /\ UNCHANGED << group, pc, work, commits >>

(* While runs may not fail, a slot's run is triggered before the next slot *)
(* and over before the one after that.                                     *)
Tick ==
  /\ clock < 4 * LastDay + 3
  /\ ~RunsMayFail =>
       /\ \A r \in Runs : r <= clock => pc[r] # "untriggered"
       /\ \A r \in Runs : r < clock => pc[r] \in Over
  /\ clock' = clock + 1
  /\ UNCHANGED << group, pc, work, commits >>

(* A cron trigger comes; the concurrency group runs it, queues it, or      *)
(* queues it in the place of the job that was waiting.                     *)
Trigger(r) ==
  /\ r \in Runs /\ pc[r] = "untriggered" /\ r <= clock
  /\ IF running = None
       THEN /\ running' = r /\ Goto(r, "checkout")
            /\ UNCHANGED pending
       ELSE /\ pending' = r /\ UNCHANGED running
            /\ pc' = [i \in Jobs |-> IF i = r THEN "pending"
                                     ELSE IF i = pending THEN "cancelled" ELSE pc[i]]
  /\ UNCHANGED << clock, work, commits >>

(* A bootstrap is dispatched at a commit of main, github.sha.              *)
Dispatch(b) ==
  /\ b \in Bootstraps /\ pc[b] = "untriggered" /\ BootSlot[b] <= clock
  /\ Goto(b, "checkout")
  /\ work' = [work EXCEPT ![b].base = HeadCommit]
  /\ UNCHANGED << clock, group, commits >>

(* actions/checkout of the branch, as it is now.  A rebaseline whose       *)
(* checkout is not the commit it was dispatched at is stopped before its   *)
(* commit: REBASELINE_BOOTSTRAP_PARENT_MISMATCH.                           *)
Checkout(j) ==
  /\ pc[j] = "checkout"
  /\ IF j \in Rebaselines /\ work[j].base # HeadCommit
       THEN Leave(j, "failed")
       ELSE /\ work' = [work EXCEPT ![j].tree = Main, ![j].base = HeadCommit]
            /\ Goto(j, IF j \in Runs THEN "resolve" ELSE "publish")
            /\ UNCHANGED group
  /\ UNCHANGED << clock, commits >>

-----------------------------------------------------------------------------
(* Faulty variant: the slot of the time the job runs at. *)
NominalSlotOfNow(r) == clock

(* _scheduled_nominal_trading_date: the last time the cadence was due, so  *)
(* a job a day late takes the next day's slot.                             *)
NominalSlot(r) == r + 4 * ((clock - r) \div 4)

(* The predecessor of a slot: resolve_context and resolve_phase2_context.  *)
PredecessorOf(directories, slot) ==
  IF Partial(slot) THEN slot - 1 ELSE NewestBelow(directories, slot)

Ranked(state) == state.by \notin {Genesis} \cup Rebaselines

(* Faulty variant: any older slot may come before. *)
HasLegalPredecessorAnySlot(tree, slot) ==
  /\ HasPredecessor(Directories(tree), slot)
  /\ LET p == PredecessorOf(Directories(tree), slot)
     IN  p \in Directories(tree) /\ (Ranked(tree.at[p]) \/ Evening(slot))

(* latest_predecessor, validate_transition and validate_first_refresh.     *)
HasLegalPredecessor(tree, slot) ==
  LET directories == Directories(tree)
      p == PredecessorOf(directories, slot)
      refreshed == \E s \in directories : Ranked(tree.at[s])
  IN  /\ HasPredecessor(directories, slot)
      /\ p \in directories /\ PredecessorSlotLegal(p, slot)
      /\ \/ Ranked(tree.at[p])
         \/ Evening(slot) /\ tree.at[p].by = Genesis /\ ~refreshed

(* The decision is computed on the predecessor in the clone.               *)
Resolve(r) ==
  /\ pc[r] = "resolve"
  /\ LET slot == NominalSlot(r)
         tree == work[r].tree
     IN  IF HasLegalPredecessor(tree, slot)
           THEN /\ work' = [work EXCEPT
                     ![r].slot = slot,
                     ![r].previous = tree.at[PredecessorOf(Directories(tree), slot)].by]
                /\ Goto(r, "publish")
                /\ UNCHANGED group
           ELSE Leave(r, "failed")
  /\ UNCHANGED << clock, commits >>

(* The slot directory is written, and LATEST unless it names a newer slot; *)
(* a fresh rebaseline writes LATEST whatever it names.                     *)
Published(j) ==
  LET w == work[j]
  IN  [at |-> [w.tree.at EXCEPT ![w.slot] = [by |-> j, previous |-> w.previous]],
       latest |-> IF j \in Rebaselines \/ w.tree.latest <= w.slot THEN w.slot ELSE w.tree.latest]

(* publish_state, bootstrap_rebaseline_state or bootstrap_recovery_state:  *)
(* a slot that is taken is never written.                                  *)
PublishSlot(j) ==
  /\ pc[j] = "publish"
  /\ IF work[j].tree.at[work[j].slot] = None
       THEN /\ work' = [work EXCEPT ![j].tree = Published(j)]
            /\ Goto(j, IF j \in Runs /\ ~Partial(work[j].slot) THEN "source" ELSE "commit")
            /\ UNCHANGED group
       ELSE Leave(j, "failed")
  /\ UNCHANGED << clock, commits >>

(* publish_production_source_bundle_latest.py of the full-market bundle of *)
(* a 07:30 or a 19:30: PHASE2_EXPLICIT_OPT_IN_REQUIRED without --phase2.   *)
(* It is RefreshCommit's attempt; no other publishes in this clone.        *)
PublishSource(r) ==
  /\ pc[r] = "source"
  /\ IF SourceStepOptsIn
       THEN Goto(r, "commit") /\ UNCHANGED << group, work >>
       ELSE Leave(r, "failed")
  /\ UNCHANGED << clock, commits >>

-----------------------------------------------------------------------------
(* git add, git commit, git pull --rebase, git push.                       *)

LatestOfBase(j) == commits[work[j].base].latest

(* Faulty variant: of two changes of LATEST the rebased one is kept. *)
RebasesCleanlyOverLatest(j) == Main.at[work[j].slot] = None

(* The job's commit can be replayed on main: they added no file at the     *)
(* same path and did not both change LATEST.                               *)
RebasesCleanly(j) ==
  /\ Main.at[work[j].slot] = None
  /\ LatestOfBase(j) \in {work[j].tree.latest, Main.latest}

Rebased(j) ==
  LET w == work[j]
  IN  [at |-> [Main.at EXCEPT ![w.slot] = w.tree.at[w.slot]],
       latest |-> IF w.tree.latest # LatestOfBase(j) THEN w.tree.latest ELSE Main.latest]

(* The thin manifest the source step rewrote is tracked and not added, and *)
(* git does not rebase over unstaged changes.                              *)
Unstaged(j) == j \in Runs /\ ~Partial(work[j].slot) /\ ~CommitStagesManifest

(* A rebaseline is never rebased: it is only pushed on the commit it was   *)
(* validated at, else MAIN_ADVANCED_AFTER_REBASELINE_VALIDATION.           *)
MayFollowMain(j) ==
  IF j \in Rebaselines THEN work[j].base = HeadCommit ELSE ~Unstaged(j) /\ RebasesCleanly(j)

CommitAndRebase(j) ==
  /\ pc[j] = "commit"
  /\ IF MayFollowMain(j)
       THEN /\ work' = [work EXCEPT ![j].tree = Rebased(j), ![j].base = HeadCommit]
            /\ Goto(j, "push")
            /\ UNCHANGED group
       ELSE Leave(j, "failed")
  /\ UNCHANGED << clock, commits >>

(* Faulty variant: git push --force. *)
PushForced(j) ==
  /\ pc[j] = "push"
  /\ commits' = Append(commits, work[j].tree) /\ Leave(j, "done")
  /\ UNCHANGED clock

(* Main only moves to a commit made on its head. *)
Push(j) ==
  /\ pc[j] = "push"
  /\ IF work[j].base = HeadCommit
       THEN commits' = Append(commits, work[j].tree) /\ Leave(j, "done")
       ELSE UNCHANGED commits /\ Leave(j, "failed")
  /\ UNCHANGED clock

(* Official data is missing or stale, a step is refused, or the runner     *)
(* dies.                                                                   *)
Fail(j) ==
  /\ pc[j] \in Steps
  /\ Leave(j, "failed")
  /\ UNCHANGED << clock, commits >>

-----------------------------------------------------------------------------
Init ==
  /\ clock = Baseline
  /\ running = None /\ pending = None
  /\ pc = [j \in Jobs |-> "untriggered"]
  /\ work = [j \in Jobs |-> Clean(j)]
  /\ commits = << Start >>

Step(j) ==
  \/ Checkout(j) \/ Resolve(j) \/ PublishSlot(j) \/ PublishSource(j)
  \/ CommitAndRebase(j) \/ Push(j)

Next ==
  \/ Tick
  \/ \E r \in Runs : Trigger(r)
  \/ \E b \in Bootstraps : Dispatch(b)
  \/ \E j \in Jobs : Step(j)
  \/ \E j \in FailingJobs : Fail(j)

Spec == Init /\ [][Next]_vars

(* GitHub triggers what is due and runs what it started.                   *)
FairSpec ==
  /\ Spec
  /\ WF_vars(Tick)
  /\ \A r \in Runs : WF_vars(Trigger(r))
  /\ \A j \in Jobs : WF_vars(Step(j))

-----------------------------------------------------------------------------
TypeOK ==
  /\ clock \in Slots
  /\ running \in Runs \cup {None} /\ pending \in Runs \cup {None}
  /\ pc \in [Jobs -> Phases]
  /\ work \in [Jobs -> [tree : Tree, base : 0 .. Cardinality(Jobs) + 1,
                        slot : Slots, previous : Jobs \cup {Genesis, None}]]
  /\ commits \in Seq(Tree)

SlotOn(tree, state) == CHOOSE s \in Directories(tree) : tree.at[s].by = state

(* Every scheduled state on main names as its previous one a state that is *)
(* on main too, in a slot that may precede its own, whatever was rebased   *)
(* on what: no decision was computed on a state that was never published.  *)
LineageOnMain ==
  \A s \in Directories(Main) :
    LET state == Main.at[s]
    IN  state.by \in Runs =>
          /\ \E p \in Directories(Main) : Main.at[p].by = state.previous
          /\ LET p == SlotOn(Main, state.previous)
             IN  p < s /\ PredecessorSlotLegal(p, s)

(* LATEST on main names the newest published slot, whoever pushed last;    *)
(* only a rebaseline, as Bootstrap shows, puts it on an older one.         *)
LatestIsNewest ==
  \/ Main.latest = Max(Directories(Main))
  \/ \E s \in Directories(Main) : Main.at[s].by \in Rebaselines

(* No push takes a published state off main or puts another in its slot.   *)
MainKeepsStates ==
  [][\A s \in Directories(Main) : Main'.at[s] = Main.at[s]]_vars

(* The state a scheduled job pushes was decided on the newest predecessor  *)
(* main then has for its slot: what other jobs pushed since the checkout   *)
(* is never passed over.                                                   *)
PushedOnNewest ==
  [][\A s \in Slots :
       /\ Main.at[s] = None /\ Main'.at[s] # None /\ Main'.at[s].by \in Runs
       => LET p == PredecessorOf(Directories(Main), s)
          IN  p \in Directories(Main) /\ Main.at[p].by = Main'.at[s].previous]_vars

Deciding == {"publish", "source", "commit", "push"}

(* PHASE2_PARTIAL_PREDECESSOR_SLOT_INVALID and its like: a day that was    *)
(* left with an intraday report as the newest state, its next run's time   *)
(* gone and no run at it, is resumed by no scheduled run: only a bootstrap *)
(* publishes anything newer.                                               *)
UnclosedDayHalts ==
  [][LET newest == Max(Directories(Main))
     IN  /\ Partial(newest) /\ clock >= newest + 5
         /\ \A r \in Runs : pc[r] \in Deciding => work[r].slot # newest + 1
         => \A s \in Slots : s > newest /\ Main'.at[s] # None =>
              Main'.at[s].by \in Bootstraps]_vars

(* A run that was triggered ends, and a bootstrap that was dispatched.     *)
JobsEnd == \A j \in Jobs : pc[j] # "untriggered" ~> pc[j] \in Over

(* docs/RATE_PR24_COMPATIBILITY_PHASE_A.md: the scheduled cadences publish *)
(* in turn.  While every run comes in time, finds its data and has no      *)
(* bootstrap to race, every slot is published.                             *)
EverySlotPublished == \A s \in Runs : <>(Main.at[s] # None)
=============================================================================
