--------------------------- MODULE MCMain_proofs ----------------------------
(***************************************************************************)
(* Proofs about what moves main.  First what the jobs leave on it, for any *)
(* days, triggers and bootstraps, at any times of theirs; then what an     *)
(* intraday activation executes while others push.                         *)
(*                                                                         *)
(* A job decides in a clone and pushes later, when others have pushed.  So *)
(* the invariant follows each clone: it is the commit it is based on, and  *)
(* one state more once it has published, and main has kept all there was   *)
(* in that commit.                                                         *)
(***************************************************************************)
EXTENDS MCMain, WellFoundedInduction, TLAPS

Workspaces == [tree : Tree, base : Nat, slot : Slots, previous : Jobs \cup {Genesis, None}]

TypeInv ==
  /\ clock \in Slots
  /\ running \in Runs \cup {None} /\ pending \in Runs \cup {None}
  /\ pc \in [Jobs -> Phases]
  /\ work \in [Jobs -> Workspaces]
  /\ commits \in Seq(Tree) /\ commits # << >>

(* The job that waits waits, and none was triggered before its time.       *)
GroupInv ==
  /\ pending # None => pc[pending] = "pending"
  /\ \A r \in Runs : pc[r] # "untriggered" => r <= clock

(* The state is on main, in a slot that may precede the given one.         *)
Follows(state, slot) ==
  \E p \in Slots : /\ Main.at[p] # None /\ Main.at[p].by = state
                   /\ p < slot /\ PredecessorSlotLegal(p, slot)

Unpublished == {"resolve", "publish"}
Uncommitted == {"source", "commit", "push"}

(* A clone is the commit it is based on, then that and its job's state,    *)
(* and what the job decided on is on main.                                 *)
CloneInv(j) ==
  LET w == work[j]
      base == commits[w.base]
  IN  /\ pc[j] = "resolve" => j \in Runs
      /\ pc[j] \in Unpublished => w.base \in 1 .. Len(commits) /\ w.tree = base
      /\ pc[j] \in Uncommitted =>
           /\ w.base \in 1 .. Len(commits) /\ base.at[w.slot] = None
           /\ w.tree.at = [base.at EXCEPT ![w.slot] = [by |-> j, previous |-> w.previous]]
      /\ j \in Runs /\ pc[j] \in Deciding => Follows(w.previous, w.slot)

(* Main has all that was in any commit, and each state once, of a job that *)
(* is done.                                                                *)
MainInv ==
  /\ \A i \in 1 .. Len(commits), s \in Slots :
       commits[i].at[s] # None => Main.at[s] = commits[i].at[s]
  /\ \A s \in Slots : Main.at[s] # None =>
       /\ Main.at[s].by \in Jobs => pc[Main.at[s].by] = "done"
       /\ Main.at[s].by \in Runs => Follows(Main.at[s].previous, s)
  /\ \A s, t \in Slots : Main.at[s] # None /\ Main.at[t] # None
                         /\ Main.at[s].by = Main.at[t].by => s = t

JobsInv == TypeInv /\ GroupInv /\ (\A j \in Jobs : CloneInv(j)) /\ MainInv

-----------------------------------------------------------------------------
(* A bounded set of numbers has a greatest.                                *)
LEMMA GreatestNumber ==
  ASSUME NEW S, NEW n \in Nat, S \subseteq 0 .. n, S # {}
  PROVE  Max(S) \in S /\ \A x \in S : x <= Max(S)
<1> DEFINE T == {i \in Nat : n - i \in S}
<1>1. T \subseteq Nat /\ T # {}
  <2>1. PICK x \in S : x \in 0 .. n
    OBVIOUS
  <2>2. n - x \in Nat /\ n - (n - x) = x
    BY <2>1
  <2> QED BY <2>1, <2>2
<1>2. PICK i \in T : \A j \in T : ~ (<<j, i>> \in OpToRel(<, Nat))
  <2>1. IsWellFoundedOn(OpToRel(<, Nat), Nat)
    BY NatLessThanWellFounded
  <2> QED BY <1>1, <2>1, WFMin
<1>3. \A j \in T : ~ (j < i)
  BY <1>2 DEF OpToRel
<1>4. i \in Nat /\ n - i \in S /\ n - i \in Int
  <2>1. i \in Nat
    <3>1. i \in T
      OBVIOUS
    <3> QED BY <3>1
  <2>2. n - i \in S
    <3>1. i \in T
      OBVIOUS
    <3> QED BY <3>1
  <2>3. n - i \in Int
    BY <2>1
  <2> QED BY <2>1, <2>2, <2>3
<1>5. ASSUME NEW x \in S PROVE n - i >= x
  <2>1. x \in 0 .. n
    OBVIOUS
  <2>2. n - x \in T
    <3>1. n - x \in Nat /\ n - (n - x) = x
      BY <2>1
    <3> QED BY <3>1
  <2>3. ~ (n - x < i) /\ x \in Int /\ i \in Int
    BY <1>3, <1>4, <2>1, <2>2
  <2> HIDE DEF T
  <2> QED BY <2>3
<1>6. \E x \in S : \A y \in S : x >= y
  BY <1>4, <1>5
<1>7. Max(S) \in S /\ \A y \in S : Max(S) >= y
  BY <1>6 DEF Max
<1>8. ASSUME NEW x \in S PROVE x <= Max(S)
  BY <1>7
<1> QED BY <1>7, <1>8


LEMMA Names ==
  /\ Baseline \in Slots /\ Genesis \notin Jobs /\ None \notin Jobs /\ None # Genesis
  /\ Runs \subseteq Slots /\ Slots \subseteq Int /\ None \notin States
<1>1. Baseline \in Slots /\ Slots \subseteq Int
  BY LastDayIsNatural DEF Slots, Baseline
<1>2. None \notin States
  BY NoneIsNoState
<1> QED BY <1>1, <1>2, BootstrapsAreNoSlots, TriggersAreSlots DEF Runs, Jobs, Genesis

(* What a reader finds as the newest below a slot is there and below.      *)
LEMMA NewestFound ==
  ASSUME NEW directories \in SUBSET Slots, NEW slot \in Slots, HasPredecessor(directories, slot)
  PROVE  NewestBelow(directories, slot) \in directories /\ NewestBelow(directories, slot) < slot
<1> DEFINE n == 4 * LastDay + 3
<1>1. n \in Nat /\ Candidates(directories, slot) \subseteq 0 .. n
  <2>1. n \in Nat /\ n + 0 = 4 * LastDay + 3
    BY LastDayIsNatural
  <2>2. \A p \in Slots : p \in 0 .. n
    <3> HIDE DEF n
    <3> QED BY <2>1 DEF Slots, Baseline
  <2> QED BY <2>1, <2>2 DEF Candidates
<1>2. Max(Candidates(directories, slot)) \in Candidates(directories, slot)
  <2> HIDE DEF n
  <2> QED BY <1>1, GreatestNumber DEF HasPredecessor
<1> QED BY <1>2 DEF NewestBelow, Candidates

(* A legal predecessor is there, and below. *)
LEMMA PredecessorFound ==
  ASSUME NEW tree \in Tree, NEW slot \in Slots, HasLegalPredecessor(tree, slot)
  PROVE  LET p == PredecessorOf(Directories(tree), slot)
         IN  /\ p \in Slots /\ tree.at[p] \in States /\ tree.at[p] # None
             /\ p < slot /\ PredecessorSlotLegal(p, slot)
<1>1. PICK directories : directories = Directories(tree)
  OBVIOUS
<1>2. PICK p : p = PredecessorOf(directories, slot)
  OBVIOUS
<1>3. /\ HasPredecessor(directories, slot) /\ p \in directories /\ PredecessorSlotLegal(p, slot)
      /\ directories \in SUBSET Slots
  BY <1>1, <1>2 DEF HasLegalPredecessor, Directories
<1>4. p < slot
  BY <1>2, <1>3, NewestFound, Names DEF PredecessorOf
<1>5. p \in Slots /\ tree.at[p] # None /\ tree.at[p] \in States
  BY <1>1, <1>3 DEF Directories, Tree
<1> QED BY <1>1, <1>2, <1>3, <1>4, <1>5

LEMMA CleanTyped == ASSUME NEW j \in Jobs PROVE Start \in Tree /\ Clean(j) \in Workspaces
<1>1. Start \in Tree
  <2>1. [by |-> Genesis, previous |-> None] \in States
    BY DEF States
  <2> QED BY <2>1, Names DEF Start, Tree
<1> QED BY <1>1, Names, BootstrapsHaveSlots DEF Clean, Jobs, Workspaces

LEMMA InitHolds == ASSUME Init PROVE JobsInv
<1>1. /\ clock = Baseline /\ running = None /\ pending = None /\ commits = << Start >>
      /\ \A j \in Jobs : pc[j] = "untriggered"
  BY DEF Init
<1>2. Start \in Tree
  <2>1. [by |-> Genesis, previous |-> None] \in States
    BY DEF States
  <2> QED BY <2>1, Names DEF Start, Tree
<1>3. \A j \in Jobs : Clean(j) \in Workspaces
  BY CleanTyped
<1>4. TypeInv
  BY <1>1, <1>2, <1>3, Names DEF Init, TypeInv, Phases
<1>5. GroupInv
  BY <1>1, Names DEF GroupInv, Jobs
<1>6. \A j \in Jobs : CloneInv(j)
  BY <1>1 DEF CloneInv, Unpublished, Uncommitted, Deciding
<1>7. MainInv
  <2>1. Main = Start /\ Len(commits) = 1 /\ commits[1] = Start
    BY <1>1, <1>2 DEF Main
  <2>2. \A s \in Slots : Start.at[s] # None => s = Baseline /\ Start.at[s].by = Genesis
    BY DEF Start
  <2>3. \A i \in 1 .. Len(commits) : commits[i] = Main
    BY <2>1
  <2> QED BY <2>1, <2>2, <2>3, Names DEF MainInv, Jobs
<1> QED BY <1>4, <1>5, <1>6, <1>7 DEF JobsInv

-----------------------------------------------------------------------------
(* What a step of one job leaves to the others: one that waits may start   *)
(* or be cancelled, and that is all.                                       *)
Others(j) ==
  \A i \in Jobs \ {j} : /\ work'[i] = work[i]
                        /\ pc'[i] # pc[i] => pc[i] = "pending" /\ pc'[i] \in {"checkout", "cancelled"}

LEMMA Leaving ==
  ASSUME TypeInv, GroupInv, NEW j \in Jobs, NEW phase \in Over, pc[j] \in Steps, Leave(j, phase)
  PROVE  /\ pc' \in [Jobs -> Phases] /\ pc'[j] = phase /\ Others(j)
         /\ running' \in Runs \cup {None} /\ pending' \in Runs \cup {None}
         /\ pending' # None => pc'[pending'] = "pending"
         /\ work' = [work EXCEPT ![j] = Clean(j)]
<1>1. pending # None => pending \in Jobs /\ pending # j /\ pc[pending] = "pending"
  BY DEF TypeInv, GroupInv, Jobs, Steps
<1>2. work' = [work EXCEPT ![j] = Clean(j)]
  BY DEF Leave
<1>3. CASE j = running
  <2>1. /\ running' = pending /\ pending' = None
        /\ pc' = [i \in Jobs |-> IF i = j THEN phase
                                 ELSE IF i = pending THEN "checkout" ELSE pc[i]]
    BY <1>3 DEF Leave
  <2>2. "checkout" \in Phases /\ phase \in Phases
    BY DEF Phases, Steps
  <2>3. pc' \in [Jobs -> Phases]
    BY <2>1, <2>2 DEF TypeInv
  <2> QED BY <1>1, <1>2, <2>1, <2>3, Names DEF TypeInv, Others
<1>4. CASE j # running
  <2>1. pc' = [pc EXCEPT ![j] = phase] /\ UNCHANGED << running, pending >>
    BY <1>4 DEF Leave, Goto, group
  <2>2. phase \in Phases
    BY DEF Phases
  <2> QED BY <1>1, <1>2, <2>1, <2>2 DEF TypeInv, Others
<1> QED BY <1>3, <1>4

LEMMA Going ==
  ASSUME TypeInv, GroupInv, NEW j \in Jobs, NEW phase \in Phases, pc[j] # "pending", Goto(j, phase),
         UNCHANGED group, NEW w, work' = [work EXCEPT ![j] = w]
  PROVE  /\ pc' \in [Jobs -> Phases] /\ pc'[j] = phase /\ Others(j)
         /\ running' \in Runs \cup {None} /\ pending' \in Runs \cup {None}
         /\ pending' # None => pc'[pending'] = "pending"
<1>1. pending # None => pending \in Jobs /\ pending # j
  BY DEF TypeInv, GroupInv, Jobs
<1> QED BY <1>1 DEF TypeInv, GroupInv, Goto, group, Others

-----------------------------------------------------------------------------
(* Main only moves on: what was there stays. *)
Kept == /\ Len(commits) <= Len(commits') /\ \A k \in 1 .. Len(commits) : commits'[k] = commits[k]
        /\ \A s \in Slots : Main.at[s] # None => Main'.at[s] = Main.at[s]

LEMMA FollowsKept ==
  ASSUME Kept, NEW state, NEW slot, Follows(state, slot)
  PROVE  Follows(state, slot)'
BY DEF Kept, Follows

(* The clones of the others stay what they are. *)
LEMMA CloneKept ==
  ASSUME TypeInv, NEW j \in Jobs, NEW i \in Jobs \ {j}, CloneInv(i), Others(j), Kept
  PROVE  CloneInv(i)'
<1>1. /\ work'[i] = work[i]
      /\ pc'[i] # pc[i] => pc[i] = "pending" /\ pc'[i] \in {"checkout", "cancelled"}
  BY DEF Others
<1>2. PICK w \in Workspaces : w = work[i]
  BY DEF TypeInv
<1>3. Len(commits) \in Nat /\ Len(commits') >= Len(commits) /\ w.base \in Nat
  BY <1>2 DEF TypeInv, Kept, Workspaces
<1>4. CASE pc'[i] # pc[i]
  BY <1>1, <1>4 DEF CloneInv, Unpublished, Uncommitted, Deciding
<1>5. CASE pc'[i] = pc[i]
  <2>1. w.base \in 1 .. Len(commits) => w.base \in 1 .. Len(commits') /\ commits'[w.base] = commits[w.base]
    BY <1>3 DEF Kept
  <2>2. i \in Runs /\ pc[i] \in Deciding => Follows(w.previous, w.slot)'
    <3> SUFFICES ASSUME i \in Runs, pc[i] \in Deciding PROVE Follows(w.previous, w.slot)'
      OBVIOUS
    <3>1. PICK state, slot : state = w.previous /\ slot = w.slot
      OBVIOUS
    <3>2. Follows(state, slot)
      BY <1>2, <3>1 DEF CloneInv
    <3> QED BY <3>1, <3>2, FollowsKept
  <2> QED BY <1>1, <1>2, <1>5, <2>1, <2>2 DEF CloneInv
<1> QED BY <1>4, <1>5

LEMMA SameMain == ASSUME TypeInv, commits' = commits PROVE Kept
BY DEF Kept, Main, TypeInv

LEMMA MainKept ==
  ASSUME TypeInv, MainInv, NEW j \in Jobs, pc[j] # "done", Others(j), commits' = commits
  PROVE  MainInv'
<1>1. Main' = Main
  BY DEF Main
<1>2. \A i \in Jobs : pc[i] = "done" => pc'[i] = "done"
  BY DEF Others
<1>3. \A s \in Slots : Main.at[s] # None =>
        /\ Main.at[s].by \in Jobs => pc'[Main.at[s].by] = "done"
        /\ Main.at[s].by \in Runs => Follows(Main.at[s].previous, s)'
  <2> SUFFICES ASSUME NEW s \in Slots, Main.at[s] # None
               PROVE  /\ Main.at[s].by \in Jobs => pc'[Main.at[s].by] = "done"
                      /\ Main.at[s].by \in Runs => Follows(Main.at[s].previous, s)'
    OBVIOUS
  <2>1. PICK state : state = Main.at[s]
    OBVIOUS
  <2>2. (state.by \in Jobs => pc[state.by] = "done") /\ (state.by \in Runs => Follows(state.previous, s))
    BY <2>1 DEF MainInv
  <2>3. PICK previous : previous = state.previous
    OBVIOUS
  <2>4. Follows(previous, s) => Follows(previous, s)'
    BY SameMain, FollowsKept
  <2> QED BY <1>1, <1>2, <2>1, <2>2, <2>3, <2>4
<1> QED BY <1>1, <1>3 DEF MainInv

(* A step that pushes nothing, from the part that is the job's own.        *)
LEMMA StepInClone ==
  ASSUME JobsInv, NEW j \in Jobs, NEW w \in Workspaces, work' = [work EXCEPT ![j] = w],
         pc[j] \notin {"pending", "done"}, UNCHANGED << clock, commits >>,
         pc' \in [Jobs -> Phases], Others(j), pc[j] = "untriggered" /\ j \in Runs => j <= clock,
         running' \in Runs \cup {None}, pending' \in Runs \cup {None},
         pending' # None => pc'[pending'] = "pending", CloneInv(j)'
  PROVE  JobsInv'
<1> USE DEF JobsInv
<1>1. TypeInv'
  BY DEF TypeInv
<1>2. GroupInv'
  <2>1. Runs \subseteq Jobs
    BY DEF Jobs
  <2>2. \A r \in Runs : pc'[r] # "untriggered" => r <= clock
    BY <2>1 DEF GroupInv, Others
  <2> QED BY <2>2 DEF GroupInv
<1>3. \A i \in Jobs : CloneInv(i)'
  BY SameMain, CloneKept
<1>4. MainInv'
  BY MainKept
<1> QED BY <1>1, <1>2, <1>3, <1>4

LEMMA Failing ==
  ASSUME JobsInv, NEW j \in Jobs, pc[j] \in Steps, Leave(j, "failed"), UNCHANGED << clock, commits >>
  PROVE  JobsInv'
<1>1. "failed" \in Over
  BY DEF Over
<1>2. /\ pc' \in [Jobs -> Phases] /\ pc'[j] = "failed" /\ Others(j)
      /\ running' \in Runs \cup {None} /\ pending' \in Runs \cup {None}
      /\ pending' # None => pc'[pending'] = "pending"
      /\ work' = [work EXCEPT ![j] = Clean(j)]
  BY <1>1, Leaving DEF JobsInv
<1>3. Clean(j) \in Workspaces
  BY CleanTyped
<1>4. CloneInv(j)'
  BY <1>2 DEF CloneInv, Unpublished, Uncommitted, Deciding
<1>5. pc[j] \notin {"pending", "done", "untriggered"}
  BY DEF Steps
<1> QED BY <1>2, <1>3, <1>4, <1>5, StepInClone

LEMMA Proceeding ==
  ASSUME JobsInv, NEW j \in Jobs, pc[j] \in Steps, NEW phase \in Steps, Goto(j, phase),
         UNCHANGED << clock, commits, group >>,
         NEW w \in Workspaces, work' = [work EXCEPT ![j] = w], CloneInv(j)'
  PROVE  JobsInv'
<1>1. pc[j] \notin {"pending", "done", "untriggered"} /\ phase \in Phases
  BY DEF Steps, Phases
<1>2. /\ pc' \in [Jobs -> Phases] /\ Others(j)
      /\ running' \in Runs \cup {None} /\ pending' \in Runs \cup {None}
      /\ pending' # None => pc'[pending'] = "pending"
  BY <1>1, Going DEF JobsInv
<1> QED BY <1>1, <1>2, StepInClone

-----------------------------------------------------------------------------
(* The steps, one by one. *)
LEMMA TickKeeps == ASSUME JobsInv, Tick PROVE JobsInv'
<1> USE DEF JobsInv
<1>1. clock' = clock + 1 /\ clock + 1 \in Slots /\ UNCHANGED << running, pending, pc, work, commits >>
  <2>1. clock \in Int /\ clock >= 3 /\ clock < 4 * LastDay + 3
    BY LastDayIsNatural DEF Tick, TypeInv, Slots, Baseline
  <2> QED BY <2>1, LastDayIsNatural DEF Tick, group, Slots, Baseline
<1>2. TypeInv' /\ MainInv'
  BY <1>1 DEF TypeInv, MainInv, Main, Follows
<1>3. GroupInv'
  <2>1. \A r \in Runs : r <= clock => r <= clock + 1
    BY Names DEF TypeInv
  <2> QED BY <1>1, <2>1 DEF GroupInv
<1>4. \A j \in Jobs : CloneInv(j)'
  BY <1>1 DEF CloneInv, Follows, Main
<1> QED BY <1>2, <1>3, <1>4

LEMMA TriggerKeeps == ASSUME JobsInv, NEW r \in Runs, Trigger(r) PROVE JobsInv'
<1>1. PICK w \in Workspaces : w = work[r]
  BY DEF JobsInv, TypeInv, Jobs
<1>2. /\ pc[r] = "untriggered" /\ r <= clock /\ UNCHANGED << clock, work, commits >>
      /\ r \in Jobs /\ work' = [work EXCEPT ![r] = w]
  BY <1>1 DEF Trigger, Jobs, JobsInv, TypeInv
<1>3. pending # None => pending \in Jobs /\ pending # r /\ pc[pending] = "pending"
  BY <1>2 DEF JobsInv, TypeInv, GroupInv, Jobs
<1>4. /\ pc' \in [Jobs -> Phases] /\ Others(r) /\ pc'[r] \in {"checkout", "pending"}
      /\ running' \in Runs \cup {None} /\ pending' \in Runs \cup {None}
      /\ pending' # None => pc'[pending'] = "pending"
  <2>1. CASE running = None
    <3>1. running' = r /\ pending' = pending /\ pc' = [pc EXCEPT ![r] = "checkout"]
      BY <2>1 DEF Trigger, Goto
    <3>2. "checkout" \in Phases
      BY DEF Phases, Steps
    <3> QED BY <1>2, <1>3, <3>1, <3>2 DEF JobsInv, TypeInv, Others
  <2>2. CASE running # None
    <3>1. /\ running' = running /\ pending' = r
          /\ pc' = [i \in Jobs |-> IF i = r THEN "pending"
                                   ELSE IF i = pending THEN "cancelled" ELSE pc[i]]
      BY <2>2 DEF Trigger
    <3>2. {"pending", "cancelled"} \subseteq Phases
      BY DEF Phases, Over
    <3>3. pc' \in [Jobs -> Phases]
      BY <3>1, <3>2 DEF JobsInv, TypeInv
    <3> QED BY <1>2, <1>3, <3>1, <3>3, Names DEF JobsInv, TypeInv, Others
  <2> QED BY <2>1, <2>2
<1>5. CloneInv(r)'
  BY <1>4 DEF CloneInv, Unpublished, Uncommitted, Deciding
<1> QED BY <1>2, <1>4, <1>5, StepInClone

LEMMA DispatchKeeps == ASSUME JobsInv, NEW b \in Bootstraps, Dispatch(b) PROVE JobsInv'
<1>1. b \in Jobs /\ b \notin Runs /\ pc[b] = "untriggered"
  BY BootstrapsAreNoSlots, TriggersAreSlots DEF Dispatch, Jobs, Runs
<1>2. PICK w \in Workspaces : work' = [work EXCEPT ![b] = w]
  <2>1. Len(commits) \in Nat
    BY DEF JobsInv, TypeInv
  <2>2. [work[b] EXCEPT !.base = HeadCommit] \in Workspaces
    BY <1>1, <2>1 DEF JobsInv, TypeInv, Workspaces, HeadCommit
  <2>3. work' = [work EXCEPT ![b] = [work[b] EXCEPT !.base = HeadCommit]]
    BY DEF Dispatch
  <2> QED BY <2>2, <2>3
<1>3. Goto(b, "checkout") /\ UNCHANGED << clock, group, commits >> /\ "checkout" \in Phases
  BY DEF Dispatch, Phases, Steps
<1>4. /\ pc' \in [Jobs -> Phases] /\ pc'[b] = "checkout" /\ Others(b)
      /\ running' \in Runs \cup {None} /\ pending' \in Runs \cup {None}
      /\ pending' # None => pc'[pending'] = "pending"
  BY <1>1, <1>2, <1>3, Going DEF JobsInv
<1>5. CloneInv(b)'
  BY <1>4 DEF CloneInv, Unpublished, Uncommitted, Deciding
<1> QED BY <1>1, <1>2, <1>3, <1>4, <1>5, StepInClone

LEMMA MainIsHead == ASSUME TypeInv PROVE HeadCommit \in 1 .. Len(commits) /\ Len(commits) \in Nat
                                   /\ Main \in Tree /\ Main = commits[HeadCommit]
BY DEF TypeInv, HeadCommit, Main

LEMMA CheckoutKeeps == ASSUME JobsInv, NEW j \in Jobs, Checkout(j) PROVE JobsInv'
<1>1. pc[j] \in Steps /\ pc[j] = "checkout" /\ UNCHANGED << clock, commits >>
  BY DEF Checkout, Steps
<1>2. CASE Leave(j, "failed")
  BY <1>1, <1>2, Failing
<1>3. CASE ~Leave(j, "failed")
  <2>1. PICK w \in Workspaces : w = work[j]
    BY DEF JobsInv, TypeInv
  <2>2. PICK new \in Workspaces : new = [w EXCEPT !.tree = Main, !.base = HeadCommit]
    <3>1. PICK tree \in Tree, base \in Nat : tree = Main /\ base = HeadCommit
      BY MainIsHead DEF JobsInv
    <3>2. [w EXCEPT !.tree = tree, !.base = base] \in Workspaces
      BY DEF Workspaces
    <3> QED BY <3>1, <3>2
  <2>3. PICK phase \in Steps : phase \in Unpublished \cap {IF j \in Runs THEN "resolve" ELSE "publish"}
    BY DEF Steps, Unpublished
  <2>4. work' = [work EXCEPT ![j] = new] /\ Goto(j, phase) /\ UNCHANGED group
    BY <1>3, <2>1, <2>2, <2>3 DEF Checkout, JobsInv, TypeInv
  <2>5. work'[j] = new /\ pc'[j] = phase
    BY <2>4 DEF Goto, JobsInv, TypeInv
  <2>6. new.base = HeadCommit /\ new.tree = Main
    BY <2>1, <2>2 DEF Workspaces
  <2>7. CloneInv(j)'
    <3>1. HeadCommit \in 1 .. Len(commits) /\ Main = commits[HeadCommit]
      BY MainIsHead DEF JobsInv
    <3> QED BY <1>1, <2>3, <2>5, <2>6, <3>1 DEF CloneInv, Unpublished, Uncommitted, Deciding
  <2> QED BY <1>1, <2>4, <2>7, Proceeding
<1> QED BY <1>2, <1>3

(* The predecessor of the clone is on main, and stays there. *)
LEMMA ResolveKeeps == ASSUME JobsInv, NEW j \in Jobs, j \in Runs, Resolve(j) PROVE JobsInv'
<1>1. pc[j] \in Steps /\ pc[j] = "resolve" /\ UNCHANGED << clock, commits >>
  BY DEF Resolve, Steps
<1>2. CASE Leave(j, "failed")
  BY <1>1, <1>2, Failing
<1>3. CASE ~Leave(j, "failed")
  <2>1. PICK w \in Workspaces : w = work[j]
    BY DEF JobsInv, TypeInv
  <2>2. PICK slot : slot = NominalSlot(j)
    OBVIOUS
  <2>3. PICK p : p = PredecessorOf(Directories(w.tree), slot)
    OBVIOUS
  <2>4. /\ HasLegalPredecessor(w.tree, slot) /\ Goto(j, "publish") /\ UNCHANGED group
        /\ work' = [work EXCEPT ![j].slot = slot, ![j].previous = w.tree.at[p].by]
    BY <1>3, <2>1, <2>2, <2>3 DEF Resolve
  <2>5. slot \in Slots
    <3>1. j \in Slots /\ j <= clock /\ clock \in Slots
      BY <1>1, TriggersAreSlots DEF JobsInv, GroupInv, TypeInv, Runs
    <3>2. j \in Int /\ clock \in Int
      BY <3>1, Names
    <3>3. PICK q \in Int : q = (clock - j) \div 4 /\ 4 * q <= clock - j /\ q >= 0
      BY <3>1, <3>2
    <3>4. slot = j + 4 * q /\ j <= slot /\ slot <= clock /\ slot \in Int
      BY <2>2, <3>2, <3>3 DEF NominalSlot
    <3> QED BY <3>1, <3>2, <3>4, LastDayIsNatural DEF Slots, Baseline
  <2>6. /\ p \in Slots /\ w.tree.at[p] \in States /\ w.tree.at[p] # None
        /\ p < slot /\ PredecessorSlotLegal(p, slot)
    BY <2>3, <2>4, <2>5, PredecessorFound DEF Workspaces
  <2>7. PICK previous \in Jobs \cup {Genesis, None} : previous = w.tree.at[p].by
    BY <2>6 DEF States
  <2>8. PICK new \in Workspaces : new = [w EXCEPT !.slot = slot, !.previous = previous]
    BY <2>5, <2>7 DEF Workspaces
  <2>9. work' = [work EXCEPT ![j] = new]
    BY <2>1, <2>4, <2>7, <2>8 DEF JobsInv, TypeInv
  <2>10. Main.at[p] = w.tree.at[p] /\ w.base \in 1 .. Len(commits) /\ w.tree = commits[w.base]
    <3>1. w.base \in 1 .. Len(commits) /\ w.tree = commits[w.base]
      BY <1>1, <2>1 DEF JobsInv, CloneInv, Unpublished
    <3> QED BY <2>6, <3>1 DEF JobsInv, MainInv
  <2>11. Follows(previous, slot)
    BY <2>6, <2>7, <2>10 DEF Follows
  <2>12. /\ work'[j] = new /\ pc'[j] = "publish" /\ Main' = Main /\ commits' = commits
         /\ new.base = w.base /\ new.tree = w.tree /\ new.slot = slot /\ new.previous = previous
    BY <1>1, <2>4, <2>8, <2>9 DEF Goto, JobsInv, TypeInv, Workspaces, Main
  <2>13. CloneInv(j)'
    <3>1. Follows(new.previous, new.slot)'
      BY <2>11, <2>12 DEF Follows
    <3> QED BY <2>10, <2>12, <3>1 DEF CloneInv, Unpublished, Uncommitted
  <2>14. "publish" \in Steps
    BY DEF Steps
  <2> QED BY <1>1, <2>4, <2>9, <2>13, <2>14, Proceeding
<1> QED BY <1>2, <1>3

LEMMA PublishSlotKeeps == ASSUME JobsInv, NEW j \in Jobs, PublishSlot(j) PROVE JobsInv'
<1>1. pc[j] \in Steps /\ pc[j] = "publish" /\ UNCHANGED << clock, commits >>
  BY DEF PublishSlot, Steps
<1>2. CASE Leave(j, "failed")
  BY <1>1, <1>2, Failing
<1>3. CASE ~Leave(j, "failed")
  <2>1. PICK w \in Workspaces : w = work[j]
    BY DEF JobsInv, TypeInv
  <2>2. /\ w.base \in 1 .. Len(commits) /\ w.tree = commits[w.base]
        /\ j \in Runs => Follows(w.previous, w.slot)
    BY <1>1, <2>1 DEF JobsInv, CloneInv, Unpublished, Deciding
  <2>3. PICK phase \in Steps : phase \in Uncommitted
                               /\ phase = IF j \in Runs /\ ~Partial(w.slot) THEN "source" ELSE "commit"
    BY DEF Steps, Uncommitted
  <2>4. /\ w.tree.at[w.slot] = None /\ Goto(j, phase) /\ UNCHANGED group
        /\ work' = [work EXCEPT ![j].tree = Published(j)]
    BY <1>3, <2>1, <2>3 DEF PublishSlot
  <2>5. PICK tree \in Tree : /\ tree = Published(j)
                             /\ tree.at = [w.tree.at EXCEPT ![w.slot] = [by |-> j, previous |-> w.previous]]
    <3>1. [by |-> j, previous |-> w.previous] \in States
      BY DEF States, Workspaces
    <3>2. PICK latest \in Slots : latest = IF j \in Rebaselines \/ w.tree.latest <= w.slot THEN w.slot ELSE w.tree.latest
      BY DEF Workspaces, Tree
    <3>3. Published(j) = [at |-> [w.tree.at EXCEPT ![w.slot] = [by |-> j, previous |-> w.previous]],
                          latest |-> latest]
      BY <2>1, <3>2 DEF Published
    <3> QED BY <3>1, <3>3 DEF Tree, Workspaces
  <2>6. PICK new \in Workspaces : new = [w EXCEPT !.tree = tree]
    BY DEF Workspaces
  <2>7. work' = [work EXCEPT ![j] = new]
    BY <2>1, <2>4, <2>5, <2>6 DEF JobsInv, TypeInv
  <2>8. /\ work'[j] = new /\ pc'[j] = phase /\ Main' = Main /\ commits' = commits
        /\ new.base = w.base /\ new.tree = tree /\ new.slot = w.slot /\ new.previous = w.previous
    BY <1>1, <2>4, <2>6, <2>7 DEF Goto, JobsInv, TypeInv, Workspaces, Main
  <2>9. CloneInv(j)'
    <3>1. j \in Runs => Follows(new.previous, new.slot)'
      BY <2>2, <2>8 DEF Follows
    <3> QED BY <2>2, <2>3, <2>4, <2>5, <2>8, <3>1 DEF CloneInv, Unpublished, Uncommitted
  <2> QED BY <1>1, <2>4, <2>7, <2>9, Proceeding
<1> QED BY <1>2, <1>3

LEMMA PublishSourceKeeps == ASSUME JobsInv, NEW j \in Jobs, PublishSource(j) PROVE JobsInv'
<1>1. pc[j] \in Steps /\ pc[j] = "source" /\ UNCHANGED << clock, commits >>
  BY DEF PublishSource, Steps
<1>2. CASE Leave(j, "failed")
  BY <1>1, <1>2, Failing
<1>3. CASE ~Leave(j, "failed")
  <2>1. PICK w \in Workspaces : w = work[j]
    BY DEF JobsInv, TypeInv
  <2>2. Goto(j, "commit") /\ UNCHANGED << group, work >>
    BY <1>3 DEF PublishSource
  <2>3. work' = [work EXCEPT ![j] = w] /\ pc'[j] = "commit" /\ work'[j] = w /\ Main' = Main
    BY <1>1, <2>1, <2>2 DEF Goto, JobsInv, TypeInv, Main
  <2>4. CloneInv(j)'
    <3>1. CloneInv(j)
      BY DEF JobsInv
    <3>2. j \in Runs => Follows(w.previous, w.slot)'
      BY <1>1, <2>1, <2>3, <3>1 DEF Follows, CloneInv, Deciding
    <3> QED BY <1>1, <2>1, <2>3, <3>1, <3>2 DEF CloneInv, Unpublished, Uncommitted, Deciding
  <2>5. "commit" \in Steps
    BY DEF Steps
  <2> QED BY <1>1, <2>2, <2>3, <2>4, <2>5, Proceeding
<1> QED BY <1>2, <1>3

LEMMA CommitAndRebaseKeeps == ASSUME JobsInv, NEW j \in Jobs, CommitAndRebase(j) PROVE JobsInv'
<1>1. pc[j] \in Steps /\ pc[j] = "commit" /\ UNCHANGED << clock, commits >>
  BY DEF CommitAndRebase, Steps
<1>2. CASE Leave(j, "failed")
  BY <1>1, <1>2, Failing
<1>3. CASE ~Leave(j, "failed")
  <2>1. PICK w \in Workspaces : w = work[j]
    BY DEF JobsInv, TypeInv
  <2>2. /\ MayFollowMain(j) /\ Goto(j, "push") /\ UNCHANGED group
        /\ work' = [work EXCEPT ![j].tree = Rebased(j), ![j].base = HeadCommit]
    BY <1>3 DEF CommitAndRebase
  <2>3. /\ w.base \in 1 .. Len(commits) /\ commits[w.base].at[w.slot] = None
        /\ w.tree.at = [commits[w.base].at EXCEPT ![w.slot] = [by |-> j, previous |-> w.previous]]
        /\ j \in Runs => Follows(w.previous, w.slot)
    BY <1>1, <2>1 DEF JobsInv, CloneInv, Uncommitted, Deciding
  <2>4. PICK head \in Nat, tip \in Tree : /\ head = HeadCommit /\ tip = Main /\ tip = commits[head]
                                          /\ head \in 1 .. Len(commits)
    BY MainIsHead DEF JobsInv
  <2>5. tip.at[w.slot] = None
    <3>1. CASE j \in Rebaselines
      BY <2>1, <2>2, <2>3, <2>4, <3>1 DEF MayFollowMain
    <3>2. CASE j \notin Rebaselines
      BY <2>1, <2>2, <2>4, <3>2 DEF MayFollowMain, RebasesCleanly
    <3> QED BY <3>1, <3>2
  <2>6. w.tree.at[w.slot] = [by |-> j, previous |-> w.previous]
    <3>1. commits[w.base] \in Tree
      BY <2>3 DEF JobsInv, TypeInv
    <3> QED BY <2>3, <3>1 DEF Workspaces, Tree
  <2>7. PICK tree \in Tree : /\ tree = Rebased(j)
                             /\ tree.at = [tip.at EXCEPT ![w.slot] = [by |-> j, previous |-> w.previous]]
    <3>1. [by |-> j, previous |-> w.previous] \in States
      BY DEF States, Workspaces
    <3>2. PICK latest \in Slots : latest = IF w.tree.latest # LatestOfBase(j) THEN w.tree.latest ELSE tip.latest
      BY DEF Workspaces, Tree
    <3>3. Rebased(j) = [at |-> [tip.at EXCEPT ![w.slot] = [by |-> j, previous |-> w.previous]],
                        latest |-> latest]
      BY <2>1, <2>4, <2>6, <3>2 DEF Rebased
    <3> QED BY <3>1, <3>3 DEF Tree, Workspaces
  <2>8. PICK new \in Workspaces : new = [w EXCEPT !.tree = tree, !.base = head]
    BY DEF Workspaces
  <2>9. work' = [work EXCEPT ![j] = new]
    BY <2>1, <2>2, <2>4, <2>7, <2>8 DEF JobsInv, TypeInv
  <2>10. /\ work'[j] = new /\ pc'[j] = "push" /\ Main' = Main /\ commits' = commits
         /\ new.base = head /\ new.tree = tree /\ new.slot = w.slot /\ new.previous = w.previous
    BY <1>1, <2>2, <2>8, <2>9 DEF Goto, JobsInv, TypeInv, Workspaces, Main
  <2>11. CloneInv(j)'
    <3>1. j \in Runs => Follows(new.previous, new.slot)'
      BY <2>3, <2>10 DEF Follows
    <3> QED BY <2>4, <2>5, <2>7, <2>10, <3>1 DEF CloneInv, Unpublished, Uncommitted
  <2>12. "push" \in Steps
    BY DEF Steps
  <2> QED BY <1>1, <2>2, <2>9, <2>11, <2>12, Proceeding
<1> QED BY <1>2, <1>3

(* The step that publishes: main is what the clone's commit was, and the   *)
(* state of the job.                                                       *)
LEMMA Pushed ==
  ASSUME JobsInv, NEW j \in Jobs, Push(j), ~Leave(j, "failed")
  PROVE  LET w == work[j]
         IN  /\ w \in Workspaces /\ pc[j] = "push" /\ Leave(j, "done") /\ clock' = clock
             /\ w.tree \in Tree /\ commits' = Append(commits, w.tree) /\ Main' = w.tree
             /\ Main.at[w.slot] = None
             /\ w.tree.at[w.slot] = [by |-> j, previous |-> w.previous]
             /\ \A s \in Slots \ {w.slot} : w.tree.at[s] = Main.at[s]
             /\ j \in Runs => Follows(w.previous, w.slot)
<1>1. PICK w \in Workspaces : w = work[j]
  BY DEF JobsInv, TypeInv
<1>2. /\ pc[j] = "push" /\ w.base = HeadCommit /\ commits' = Append(commits, w.tree)
      /\ Leave(j, "done") /\ clock' = clock
  BY <1>1 DEF Push
<1>3. /\ w.base \in 1 .. Len(commits) /\ commits[w.base].at[w.slot] = None
      /\ w.tree.at = [commits[w.base].at EXCEPT ![w.slot] = [by |-> j, previous |-> w.previous]]
      /\ j \in Runs => Follows(w.previous, w.slot)
  BY <1>1, <1>2 DEF JobsInv, CloneInv, Uncommitted, Deciding
<1>4. Main = commits[w.base] /\ Main \in Tree
  BY <1>2, MainIsHead DEF JobsInv
<1>5. w.tree \in Tree
  BY DEF Workspaces
<1>6. Main' = w.tree
  BY <1>2, <1>5 DEF Main, JobsInv, TypeInv
<1> QED BY <1>1, <1>2, <1>3, <1>4, <1>5, <1>6 DEF Tree, Workspaces

(* A push that is refused leaves main alone. *)
LEMMA PushRefused ==
  ASSUME JobsInv, NEW j \in Jobs, Push(j), Leave(j, "failed")
  PROVE  pc[j] \in Steps /\ UNCHANGED << clock, commits >>
<1>1. pc[j] \in Steps /\ {"done", "failed"} \subseteq Over
  BY DEF Push, Steps, Over
<1>2. pc'[j] = "failed"
  BY <1>1, Leaving DEF JobsInv
<1>3. ~Leave(j, "done")
  BY <1>1, <1>2, Leaving DEF JobsInv
<1> QED BY <1>1, <1>3 DEF Push

LEMMA PushKeeps == ASSUME JobsInv, NEW j \in Jobs, Push(j) PROVE JobsInv'
<1>1. CASE Leave(j, "failed")
  <2>1. pc[j] \in Steps /\ UNCHANGED << clock, commits >>
    BY <1>1, PushRefused
  <2> QED BY <1>1, <2>1, Failing
<1>2. CASE ~Leave(j, "failed")
  <2> USE DEF JobsInv
  <2>1. PICK w \in Workspaces : w = work[j]
    BY DEF TypeInv
  <2>2. /\ pc[j] = "push" /\ Leave(j, "done") /\ clock' = clock
        /\ w.tree \in Tree /\ commits' = Append(commits, w.tree) /\ Main' = w.tree
        /\ Main.at[w.slot] = None
        /\ w.tree.at[w.slot] = [by |-> j, previous |-> w.previous]
        /\ \A s \in Slots \ {w.slot} : w.tree.at[s] = Main.at[s]
        /\ j \in Runs => Follows(w.previous, w.slot)
    BY <1>2, <2>1, Pushed
  <2>3. /\ pc' \in [Jobs -> Phases] /\ pc'[j] = "done" /\ Others(j)
        /\ running' \in Runs \cup {None} /\ pending' \in Runs \cup {None}
        /\ pending' # None => pc'[pending'] = "pending"
        /\ work' = [work EXCEPT ![j] = Clean(j)]
    <3>1. pc[j] \in Steps /\ "done" \in Over
      BY <2>2 DEF Steps, Over
    <3> QED BY <2>2, <3>1, Leaving
  <2>4. /\ Len(commits') = Len(commits) + 1 /\ Len(commits) \in Nat
        /\ \A k \in 1 .. Len(commits) : commits'[k] = commits[k]
        /\ commits'[Len(commits) + 1] = w.tree
    BY <2>2 DEF TypeInv
  <2>5. w.slot \in Slots /\ None # [by |-> j, previous |-> w.previous]
    <3>1. [by |-> j, previous |-> w.previous] \in States
      BY DEF States, Workspaces
    <3> QED BY <3>1, Names DEF Workspaces
  <2>6. Kept
    BY <2>2, <2>4 DEF Kept
  <2>7. TypeInv'
    <3>1. Clean(j) \in Workspaces
      BY CleanTyped
    <3>2. commits' \in Seq(Tree) /\ commits' # << >>
      BY <2>2, <2>4 DEF TypeInv
    <3>3. work' \in [Jobs -> Workspaces]
      BY <2>3, <3>1 DEF TypeInv
    <3> QED BY <2>2, <2>3, <3>2, <3>3 DEF TypeInv
  <2>8. GroupInv'
    <3>1. Runs \subseteq Jobs
      BY DEF Jobs
    <3>2. \A r \in Runs : pc'[r] # "untriggered" => r <= clock
      BY <2>2, <2>3, <3>1 DEF GroupInv, Others
    <3> QED BY <2>2, <2>3, <3>2 DEF GroupInv
  <2>9. ASSUME NEW i \in Jobs PROVE CloneInv(i)'
    <3>1. CASE i = j
      BY <2>3, <3>1 DEF CloneInv, Unpublished, Uncommitted, Deciding
    <3>2. CASE i # j
      BY <2>3, <2>6, <3>2, CloneKept
    <3> QED BY <3>1, <3>2
  <2>10. MainInv'
    <3>1. \A i \in 1 .. Len(commits'), s \in Slots :
            commits'[i].at[s] # None => Main'.at[s] = commits'[i].at[s]
      <4> SUFFICES ASSUME NEW i \in 1 .. Len(commits'), NEW s \in Slots, commits'[i].at[s] # None
                   PROVE  w.tree.at[s] = commits'[i].at[s]
        BY <2>2
      <4>1. CASE i = Len(commits) + 1
        BY <2>4, <4>1
      <4>2. CASE i # Len(commits) + 1
        <5>1. i \in 1 .. Len(commits) /\ commits'[i] = commits[i]
          BY <2>4, <4>2
        <5>2. Main.at[s] = commits[i].at[s] /\ Main.at[s] # None
          BY <5>1 DEF MainInv
        <5> QED BY <2>2, <5>1, <5>2
      <4> QED BY <4>1, <4>2
    <3>2. \A i \in Jobs : pc[i] = "done" => pc'[i] = "done"
      BY <2>3 DEF Others
    <3>3. (\A s \in Slots : Main.at[s] # None =>
             /\ Main.at[s].by \in Jobs => pc[Main.at[s].by] = "done"
             /\ Main.at[s].by \in Runs => Follows(Main.at[s].previous, s))'
      <4> SUFFICES ASSUME NEW s \in Slots, w.tree.at[s] # None
                   PROVE  /\ w.tree.at[s].by \in Jobs => pc'[w.tree.at[s].by] = "done"
                          /\ w.tree.at[s].by \in Runs => Follows(w.tree.at[s].previous, s)'
        BY <2>2 DEF Follows
      <4>1. PICK state, previous : state = w.tree.at[s] /\ previous = state.previous
        OBVIOUS
      <4>2. CASE s = w.slot
        <5>1. state.by = j /\ previous = w.previous
          BY <2>2, <4>1, <4>2
        <5>2. state.by \in Runs => Follows(previous, s)
          BY <2>2, <4>2, <5>1
        <5>3. state.by \in Runs => Follows(previous, s)'
          BY <2>6, <5>2, FollowsKept
        <5> QED BY <2>3, <4>1, <5>1, <5>3
      <4>3. CASE s # w.slot
        <5>1. state = Main.at[s] /\ state # None
          BY <2>2, <4>1, <4>3
        <5>2. (state.by \in Jobs => pc[state.by] = "done") /\ (state.by \in Runs => Follows(previous, s))
          BY <4>1, <5>1 DEF MainInv
        <5>3. state.by \in Runs => Follows(previous, s)'
          BY <2>6, <5>2, FollowsKept
        <5> QED BY <3>2, <4>1, <5>2, <5>3
      <4> QED BY <4>2, <4>3
    <3>4. ASSUME NEW s \in Slots, NEW t \in Slots, w.tree.at[s] # None, w.tree.at[t] # None,
                 w.tree.at[s].by = w.tree.at[t].by
          PROVE  s = t
      <4>1. \A u \in Slots \ {w.slot} : w.tree.at[u] # None => w.tree.at[u].by # j
        BY <2>2 DEF MainInv
      <4>2. w.tree.at[w.slot].by = j
        BY <2>2
      <4> QED BY <2>2, <3>4, <4>1, <4>2 DEF MainInv
    <3> QED BY <2>2, <3>1, <3>3, <3>4 DEF MainInv
  <2> QED BY <2>7, <2>8, <2>9, <2>10
<1> QED BY <1>1, <1>2

LEMMA FailKeeps == ASSUME JobsInv, NEW j \in Jobs, Fail(j) PROVE JobsInv'
BY Failing DEF Fail

LEMMA NextKeeps == ASSUME JobsInv, [Next]_vars PROVE JobsInv'
<1>1. CASE Tick \/ (\E r \in Runs : Trigger(r)) \/ (\E b \in Bootstraps : Dispatch(b))
  BY <1>1, TickKeeps, TriggerKeeps, DispatchKeeps
<1>2. ASSUME NEW j \in Jobs, Step(j) PROVE JobsInv'
  <2>1. Resolve(j) => j \in Runs
    BY DEF Resolve, JobsInv, CloneInv
  <2> QED BY <1>2, <2>1, CheckoutKeeps, ResolveKeeps, PublishSlotKeeps, PublishSourceKeeps,
             CommitAndRebaseKeeps, PushKeeps DEF Step
<1>3. CASE \E j \in FailingJobs : Fail(j)
  BY <1>3, FailKeeps DEF FailingJobs
<1>4. CASE UNCHANGED vars
  BY <1>4 DEF vars, group, JobsInv, TypeInv, GroupInv, CloneInv, MainInv, Follows, Main
<1> QED BY <1>1, <1>2, <1>3, <1>4 DEF Next

-----------------------------------------------------------------------------
(* What the clones are and what main is, whatever job runs beside which.   *)
THEOREM JobsInvariant == Spec => []JobsInv
<1>1. Init => JobsInv
  BY InitHolds
<1>2. JobsInv /\ [Next]_vars => JobsInv'
  BY NextKeeps
<1> QED BY <1>1, <1>2, PTL DEF Spec

(* Every scheduled state on main follows a state that is on main, in a     *)
(* slot that may precede its own: a rebase over what others pushed never   *)
(* leaves a decision without the state it was computed on.                 *)
THEOREM LineageStaysOnMain == Spec => []LineageOnMain
<1>1. ASSUME JobsInv PROVE LineageOnMain
  <2> SUFFICES ASSUME NEW s \in Directories(Main), Main.at[s].by \in Runs
               PROVE  /\ \E p \in Directories(Main) : Main.at[p].by = Main.at[s].previous
                      /\ LET p == SlotOn(Main, Main.at[s].previous)
                         IN  p < s /\ PredecessorSlotLegal(p, s)
    BY DEF LineageOnMain
  <2>1. PICK previous : previous = Main.at[s].previous
    OBVIOUS
  <2>2. PICK p \in Slots : /\ Main.at[p] # None /\ Main.at[p].by = previous
                           /\ p < s /\ PredecessorSlotLegal(p, s)
    BY <1>1, <2>1 DEF JobsInv, MainInv, Follows, Directories
  <2>3. p \in Directories(Main) /\ \A q \in Directories(Main) : Main.at[q].by = previous => q = p
    BY <1>1, <2>2 DEF JobsInv, MainInv, Directories
  <2>4. SlotOn(Main, previous) = p
    BY <2>2, <2>3 DEF SlotOn
  <2> QED BY <2>1, <2>2, <2>3, <2>4
<1> QED BY <1>1, JobsInvariant, PTL

(* No push takes a published state off main or puts another in its slot.   *)
THEOREM StatesStayOnMain == Spec => MainKeepsStates
<1> DEFINE Keeps == \A s \in Directories(Main) : Main'.at[s] = Main.at[s]
<1>1. ASSUME JobsInv, Next PROVE Keeps
  <2>1. ASSUME NEW j \in Jobs, Push(j), ~Leave(j, "failed") PROVE Keeps
    BY <1>1, <2>1, Pushed DEF Directories
  <2>2. CASE commits' = commits
    BY <2>2 DEF Main
  <2>3. commits' = commits \/ \E j \in Jobs : Push(j) /\ ~Leave(j, "failed")
    <3>1. CASE \E j \in Jobs : Push(j)
      BY <1>1, <3>1, PushRefused
    <3>2. CASE ~ \E j \in Jobs : Push(j)
      BY <1>1, <3>2 DEF Next, Tick, Trigger, Dispatch, Step, Checkout, Resolve, PublishSlot,
                        PublishSource, CommitAndRebase, Fail
    <3> QED BY <3>1, <3>2
  <2> QED BY <2>1, <2>2, <2>3
<1>2. JobsInv /\ [Next]_vars => [Keeps]_vars
  BY <1>1
<1> QED BY <1>2, JobsInvariant, PTL DEF Spec, MainKeepsStates

(* What MCMain runs of the jobs are behaviours of theirs. *)
THEOREM JobsFollowTheScheduler == EitherSpec => Spec
<1>1. EitherInit => Init
  BY DEF EitherInit
<1>2. [EitherNext]_<< part, vars, documents >> => [Next]_vars
  BY DEF EitherNext
<1> QED BY <1>1, <1>2, PTL DEF EitherSpec, Spec

-----------------------------------------------------------------------------
(* The other part: the documents of an intraday activation.  Each holds    *)
(* whole copies of those it was made from, so what was compared when it    *)
(* was issued is true of it for good.  That a gate reads the newest of     *)
(* another is not enough: documents are issued anew and kept in any mix,   *)
(* and it is the comparisons that keep the mix to one commit.              *)
Kinds == {Documents!Line[i] : i \in 1 .. Len(Documents!Line)}

(* A document of the kind is on the desk, or must be. *)
Known(kind) == desk[kind] # None \/ Documents!Place(kind) < gate

DeltaSound(d) == d.accepted = d.main

SyntheticSound(d) == d.manifest.over = Documents!FilesOf(d.main)

ReadySound(d) ==
  /\ d.plan.main = d.main /\ d.synthetic.main = d.main /\ d.plan.accepted = d.main
  /\ d.plan.license = d.bound.license
  /\ d.manifest.over = Documents!FilesOf(d.main)

AuthSound(d) == ReadySound(d.ready) /\ d.ready.main = d.main /\ d.manifest = d.ready.manifest

PlanSound(d) == AuthSound(d.auth) /\ d.auth.main = d.main /\ d.manifest = d.auth.manifest

StoreSound(d) == d.store = d.main

EvidenceSound(d) ==
  /\ PlanSound(d.plan) /\ d.plan.main = d.before /\ d.parent = d.before
  /\ d.ready.store = d.before

DeskInv ==
  /\ gate \in Nat /\ DOMAIN desk = Kinds
  /\ Known("delta") => DeltaSound(desk["delta"])
  /\ Known("synthetic") => SyntheticSound(desk["synthetic"])
  /\ Known("applyReady") => ReadySound(desk["applyReady"])
  /\ Known("applyAuth") => AuthSound(desk["applyAuth"])
  /\ Known("plan") => PlanSound(desk["plan"])
  /\ Known("storeReady") => StoreSound(desk["storeReady"])
  /\ Known("evidence") => EvidenceSound(desk["evidence"])

(* The gates in their order. *)
LEMMA LineIs ==
  /\ Len(Documents!Line) = 28
  /\ DOMAIN Documents!Line = 1 .. 28
  /\ \A i \in 1 .. 13 : Documents!Line[i] = Documents!ReviewLine[i]
  /\ \A i \in 14 .. 28 : Documents!Line[i] = Documents!ExecutionLine[i - 13]
<1>1. Len(Documents!Line) = 28
  BY DEF Documents!Line, Documents!ReviewLine, Documents!ExecutionLine
<1>2. DOMAIN Documents!Line = 1 .. 28
  BY DEF Documents!Line, Documents!ReviewLine, Documents!ExecutionLine
<1>3. \A i \in 1 .. 13 : Documents!Line[i] = Documents!ReviewLine[i]
  BY DEF Documents!Line, Documents!ReviewLine, Documents!ExecutionLine
<1>4. \A i \in 14 .. 28 : Documents!Line[i] = Documents!ExecutionLine[i - 13]
  BY DEF Documents!Line, Documents!ReviewLine, Documents!ExecutionLine
<1> QED BY <1>1, <1>2, <1>3, <1>4

LEMMA Places ==
  /\ Documents!Place("delta") = 8 /\ Documents!Place("synthetic") = 9
  /\ Documents!Place("applyReady") = 11 /\ Documents!Place("applyAuth") = 12
  /\ Documents!Place("plan") = 13
  /\ Documents!Place("storeReady") = 20 /\ Documents!Place("evidence") = 23
<1>1. \A i \in 1 .. 13 : /\ Documents!Line[i] = "delta" <=> i = 8
                         /\ Documents!Line[i] = "synthetic" <=> i = 9
                         /\ Documents!Line[i] = "applyReady" <=> i = 11
                         /\ Documents!Line[i] = "applyAuth" <=> i = 12
                         /\ Documents!Line[i] = "plan" <=> i = 13
                         /\ Documents!Line[i] \notin {"storeReady", "evidence"}
  BY LineIs DEF Documents!ReviewLine
<1>2. \A i \in 14 .. 28 : /\ Documents!Line[i] = "storeReady" <=> i = 20
                          /\ Documents!Line[i] = "evidence" <=> i = 23
                          /\ Documents!Line[i] \notin {"delta", "synthetic", "applyReady", "applyAuth", "plan"}
  BY LineIs DEF Documents!ExecutionLine
<1>3. \A i \in 1 .. 28 : i \in 1 .. 13 \/ i \in 14 .. 28
  OBVIOUS
<1>4. \A k \in {"delta", "synthetic", "applyReady", "applyAuth", "plan", "storeReady", "evidence"} :
         Documents!Place(k) \in 1 .. 28 /\ Documents!Line[Documents!Place(k)] = k
  BY <1>1, <1>2, <1>3, LineIs DEF Documents!Place
<1> QED BY <1>1, <1>2, <1>3, <1>4

Followed == {"delta", "synthetic", "applyReady", "applyAuth", "plan", "storeReady", "evidence"}

LEMMA Placed ==
  /\ \A kind \in Kinds : /\ Documents!Place(kind) \in 1 .. 28
                         /\ Documents!Line[Documents!Place(kind)] = kind
  /\ Followed \subseteq Kinds
<1>1. ASSUME NEW kind \in Kinds
      PROVE  Documents!Place(kind) \in 1 .. 28 /\ Documents!Line[Documents!Place(kind)] = kind
  <2>1. \E i \in 1 .. Len(Documents!Line) : Documents!Line[i] = kind
    BY DEF Kinds
  <2> QED BY <2>1, LineIs DEF Documents!Place
<1>2. Documents!Line[8] = "delta" /\ Documents!Line[9] = "synthetic" /\ Documents!Line[11] = "applyReady"
  BY DEF Documents!Line, Documents!ReviewLine, Documents!ExecutionLine
<1>3. Documents!Line[12] = "applyAuth" /\ Documents!Line[13] = "plan" /\ Documents!Line[20] = "storeReady"
  BY DEF Documents!Line, Documents!ReviewLine, Documents!ExecutionLine
<1>4. Documents!Line[23] = "evidence"
  BY DEF Documents!Line, Documents!ReviewLine, Documents!ExecutionLine
<1>5. {8, 9, 11, 12, 13, 20, 23} \subseteq 1 .. Len(Documents!Line)
  BY LineIs
<1> QED BY <1>1, <1>2, <1>3, <1>4, <1>5 DEF Kinds, Followed

(* A gate that issues makes its own document known, and no other. *)
LEMMA Issuing ==
  ASSUME DeskInv, NEW kind \in Kinds, gate = Documents!Place(kind), gate' = gate + 1,
         NEW document, desk' = [desk EXCEPT ![kind] = document]
  PROVE  /\ gate' \in Nat /\ DOMAIN desk' = Kinds /\ desk'[kind] = document
         /\ \A k \in Followed \ {kind} : desk'[k] = desk[k] /\ (Known(k)' => Known(k))
<1>1. \A k \in Followed \ {kind} : desk'[k] = desk[k]
  BY Placed DEF DeskInv
<1>2. ASSUME NEW k \in Followed \ {kind}, Known(k)' PROVE Known(k)
  <2>1. PICK p \in 1 .. 28, q \in 1 .. 28 : p = Documents!Place(k) /\ q = Documents!Place(kind) /\ p # q
    BY Placed
  <2>2. Documents!Place(k)' = p
    BY <2>1 DEF Documents!Place, Documents!Line, Documents!ReviewLine, Documents!ExecutionLine
  <2> QED BY <1>1, <1>2, <2>1, <2>2 DEF Known
<1> QED BY <1>1, <1>2 DEF DeskInv

LEMMA Filed ==
  ASSUME DeskInv, NEW kind \in Kinds, gate = Documents!Place(kind), gate' = gate + 1,
         NEW document, desk' = [desk EXCEPT ![kind] = document],
         kind = "delta" => DeltaSound(document),
         kind = "synthetic" => SyntheticSound(document),
         kind = "applyReady" => ReadySound(document),
         kind = "applyAuth" => AuthSound(document),
         kind = "plan" => PlanSound(document),
         kind = "storeReady" => StoreSound(document),
         kind = "evidence" => EvidenceSound(document)
  PROVE  DeskInv'
<1>1. /\ gate' \in Nat /\ DOMAIN desk' = Kinds /\ desk'[kind] = document
      /\ \A k \in Followed \ {kind} : desk'[k] = desk[k] /\ (Known(k)' => Known(k))
  BY Issuing
<1>2. /\ Known("delta")' => DeltaSound(desk'["delta"])
      /\ Known("synthetic")' => SyntheticSound(desk'["synthetic"])
      /\ Known("applyReady")' => ReadySound(desk'["applyReady"])
      /\ Known("applyAuth")' => AuthSound(desk'["applyAuth"])
      /\ Known("plan")' => PlanSound(desk'["plan"])
      /\ Known("storeReady")' => StoreSound(desk'["storeReady"])
      /\ Known("evidence")' => EvidenceSound(desk'["evidence"])
  BY <1>1 DEF DeskInv, Followed
<1>3. Kinds' = Kinds
  BY DEF Kinds, Documents!Line, Documents!ReviewLine, Documents!ExecutionLine
<1> QED BY <1>1, <1>2, <1>3 DEF DeskInv, DeltaSound, SyntheticSound, ReadySound, AuthSound, PlanSound,
                                StoreSound, EvidenceSound, Documents!FilesOf

Unfollowed ==
  {"authority", "liveReady", "liveAuth", "liveRun", "review", "accepted", "ready",
   "bound", "rehearsal", "gitAuth", "cfAuth", "marker", "cfEvidence", "cfAccepted",
   "httpRehearsal", "finalReady", "executionReview", "pullAccepted", "merge", "verified", "complete"}

LEMMA UnfollowedPlaced == Unfollowed \subseteq Kinds /\ Unfollowed \cap Followed = {}
<1>1. \A i \in 1 .. 28 : Documents!Line[i] \in Kinds
  BY LineIs DEF Kinds
<1>2. {"authority", "liveReady", "liveAuth", "liveRun", "review", "accepted", "ready"} \subseteq Kinds
  <2>1. /\ Documents!Line[1] = "authority" /\ Documents!Line[2] = "liveReady"
        /\ Documents!Line[3] = "liveAuth" /\ Documents!Line[4] = "liveRun"
        /\ Documents!Line[5] = "review" /\ Documents!Line[6] = "accepted"
        /\ Documents!Line[7] = "ready"
    BY DEF Documents!Line, Documents!ReviewLine, Documents!ExecutionLine
  <2>2. {1, 2, 3, 4, 5, 6, 7} \subseteq 1 .. 28
    OBVIOUS
  <2> QED BY <1>1, <2>1, <2>2
<1>3. {"bound", "rehearsal", "gitAuth", "cfAuth", "marker", "cfEvidence", "cfAccepted"} \subseteq Kinds
  <2>1. /\ Documents!Line[10] = "bound" /\ Documents!Line[14] = "rehearsal"
        /\ Documents!Line[15] = "gitAuth" /\ Documents!Line[16] = "cfAuth"
        /\ Documents!Line[17] = "marker" /\ Documents!Line[18] = "cfEvidence"
        /\ Documents!Line[19] = "cfAccepted"
    BY DEF Documents!Line, Documents!ReviewLine, Documents!ExecutionLine
  <2>2. {10, 14, 15, 16, 17, 18, 19} \subseteq 1 .. 28
    OBVIOUS
  <2> QED BY <1>1, <2>1, <2>2
<1>4. {"httpRehearsal", "finalReady", "executionReview", "pullAccepted", "merge", "verified", "complete"} \subseteq Kinds
  <2>1. /\ Documents!Line[21] = "httpRehearsal" /\ Documents!Line[22] = "finalReady"
        /\ Documents!Line[24] = "executionReview" /\ Documents!Line[25] = "pullAccepted"
        /\ Documents!Line[26] = "merge" /\ Documents!Line[27] = "verified"
        /\ Documents!Line[28] = "complete"
    BY DEF Documents!Line, Documents!ReviewLine, Documents!ExecutionLine
  <2>2. {21, 22, 24, 25, 26, 27, 28} \subseteq 1 .. 28
    OBVIOUS
  <2> QED BY <1>1, <2>1, <2>2
<1> QED BY <1>2, <1>3, <1>4 DEF Unfollowed, Followed

LEMMA FiledBeside ==
  ASSUME DeskInv, NEW kind \in Unfollowed, Documents!At(kind), gate' = gate + 1,
         \E document : desk' = [desk EXCEPT ![kind] = document]
  PROVE  DeskInv'
<1>1. kind \in Kinds /\ kind \notin Followed
  BY UnfollowedPlaced
<1> QED BY <1>1, Filed DEF Documents!At, Followed

LEMMA ReviewKeeps == ASSUME DeskInv, Documents!Review PROVE DeskInv'
<1>1. CASE Documents!At("authority") /\ Documents!Authority
  BY <1>1, FiledBeside DEF Unfollowed, Documents!Authority, Documents!Issue
<1>2. CASE Documents!At("liveReady") /\ Documents!LiveReady
  BY <1>2, FiledBeside DEF Unfollowed, Documents!LiveReady, Documents!Issue
<1>3. CASE Documents!At("liveAuth") /\ Documents!LiveAuth
  BY <1>3, FiledBeside DEF Unfollowed, Documents!LiveAuth, Documents!Issue
<1>4. CASE Documents!At("liveRun") /\ Documents!LiveRun
  BY <1>4, FiledBeside DEF Unfollowed, Documents!LiveRun, Documents!Issue
<1>5. CASE Documents!At("review") /\ Documents!LiveReview
  BY <1>5, FiledBeside DEF Unfollowed, Documents!LiveReview, Documents!Issue
<1>6. CASE Documents!At("accepted") /\ Documents!Accept
  BY <1>6, FiledBeside DEF Unfollowed, Documents!Accept, Documents!Issue
<1>7. CASE Documents!At("ready") /\ Documents!Ready
  BY <1>7, FiledBeside DEF Unfollowed, Documents!Ready, Documents!Issue
<1>8. CASE Documents!At("bound") /\ Documents!Bind
  BY <1>8, FiledBeside DEF Unfollowed, Documents!Bind, Documents!Issue
<1>9. CASE Documents!At("delta") /\ Documents!Delta
  <2>1. PICK document : /\ desk' = [desk EXCEPT !["delta"] = document] /\ gate' = gate + 1
                        /\ DeltaSound(document)
    BY <1>9 DEF Documents!Delta, Documents!Issue, DeltaSound
  <2> QED BY <1>9, <2>1, Placed, Filed DEF Documents!At, Followed
<1>10. CASE Documents!At("synthetic") /\ Documents!Synthetic
  <2>1. PICK document : /\ desk' = [desk EXCEPT !["synthetic"] = document] /\ gate' = gate + 1
                        /\ SyntheticSound(document)
    BY <1>10 DEF Documents!Synthetic, Documents!Issue, SyntheticSound, Documents!Scaffold, Documents!Candidate
  <2> QED BY <1>10, <2>1, Placed, Filed DEF Documents!At, Followed
<1>11. CASE Documents!At("applyReady") /\ Documents!ApplyReady
  <2>0. DeltaSound(desk["delta"]) /\ SyntheticSound(desk["synthetic"])
    BY <1>11, Places DEF Documents!At, Known, DeskInv
  <2>1. PICK delta, synthetic, bound : delta = desk["delta"] /\ synthetic = desk["synthetic"] /\ bound = desk["bound"]
    OBVIOUS
  <2>2. PICK m, license :
          /\ bound.license = license /\ delta.main = m /\ delta.license = license /\ synthetic.main = m
          /\ Documents!Issue("applyReady", [main |-> m, manifest |-> synthetic.manifest, license |-> license,
                                            bound |-> bound, plan |-> delta, synthetic |-> synthetic])
    BY <1>11, <2>1 DEF Documents!ApplyReady
  <2>3. PICK document :
          document = [main |-> m, manifest |-> synthetic.manifest, license |-> license,
                      bound |-> bound, plan |-> delta, synthetic |-> synthetic]
    OBVIOUS
  <2>4. ReadySound(document)
    BY <2>0, <2>1, <2>2, <2>3 DEF ReadySound, DeltaSound, SyntheticSound
  <2>5. desk' = [desk EXCEPT !["applyReady"] = document] /\ gate' = gate + 1
    BY <2>2, <2>3 DEF Documents!Issue
  <2> QED BY <1>11, <2>4, <2>5, Placed, Filed DEF Documents!At, Followed
<1>12. CASE Documents!At("applyAuth") /\ Documents!ApplyAuth
  <2>0. ReadySound(desk["applyReady"])
    BY <1>12, Places DEF Documents!At, Known, DeskInv
  <2>1. PICK document : /\ desk' = [desk EXCEPT !["applyAuth"] = document] /\ gate' = gate + 1
                        /\ AuthSound(document)
    BY <1>12, <2>0 DEF Documents!ApplyAuth, Documents!Issue, AuthSound
  <2> QED BY <1>12, <2>1, Placed, Filed DEF Documents!At, Followed
<1>13. CASE Documents!At("plan") /\ Documents!Plan
  <2>0. AuthSound(desk["applyAuth"])
    BY <1>13, Places DEF Documents!At, Known, DeskInv
  <2>1. PICK document : /\ desk' = [desk EXCEPT !["plan"] = document] /\ gate' = gate + 1
                        /\ PlanSound(document)
    BY <1>13, <2>0 DEF Documents!Plan, Documents!Issue, PlanSound
  <2> QED BY <1>13, <2>1, Placed, Filed DEF Documents!At, Followed
<1> QED BY <1>1, <1>2, <1>3, <1>4, <1>5, <1>6, <1>7, <1>8, <1>9, <1>10, <1>11, <1>12, <1>13 DEF Documents!Review

LEMMA ExecutionKeeps == ASSUME DeskInv, Documents!Execution PROVE DeskInv'
<1>1. CASE Documents!At("rehearsal") /\ Documents!Rehearse
  BY <1>1, FiledBeside DEF Unfollowed, Documents!Rehearse, Documents!Issue
<1>2. CASE Documents!At("gitAuth") /\ Documents!GitAuth
  BY <1>2, FiledBeside DEF Unfollowed, Documents!GitAuth, Documents!Issue
<1>3. CASE Documents!At("cfAuth") /\ Documents!CloudflareAuth
  BY <1>3, FiledBeside DEF Unfollowed, Documents!CloudflareAuth, Documents!Issue
<1>4. CASE Documents!At("marker") /\ Documents!Marker
  BY <1>4, FiledBeside DEF Unfollowed, Documents!Marker, Documents!Issue
<1>5. CASE Documents!At("cfEvidence") /\ Documents!CloudflareEvidence
  BY <1>5, FiledBeside DEF Unfollowed, Documents!CloudflareEvidence, Documents!Issue
<1>6. CASE Documents!At("cfAccepted") /\ Documents!CloudflareAccept
  BY <1>6, FiledBeside DEF Unfollowed, Documents!CloudflareAccept, Documents!Issue
<1>7. CASE Documents!At("httpRehearsal") /\ Documents!HttpRehearse
  BY <1>7, FiledBeside DEF Unfollowed, Documents!HttpRehearse, Documents!Issue
<1>8. CASE Documents!At("finalReady") /\ Documents!FinalReady
  BY <1>8, FiledBeside DEF Unfollowed, Documents!FinalReady, Documents!Issue
<1>9. CASE Documents!At("executionReview") /\ Documents!ReviewExecution
  BY <1>9, FiledBeside DEF Unfollowed, Documents!ReviewExecution, Documents!Issue
<1>10. CASE Documents!At("pullAccepted") /\ Documents!PullAccept
  BY <1>10, FiledBeside DEF Unfollowed, Documents!PullAccept, Documents!Issue
<1>11. CASE Documents!At("merge") /\ Documents!Merge
  BY <1>11, FiledBeside DEF Unfollowed, Documents!Merge, Documents!Issue
<1>12. CASE Documents!At("verified") /\ Documents!Verify
  BY <1>12, FiledBeside DEF Unfollowed, Documents!Verify, Documents!Issue
<1>13. CASE Documents!At("complete") /\ Documents!Complete
  BY <1>13, FiledBeside DEF Unfollowed, Documents!Complete, Documents!Issue
<1>14. CASE Documents!At("storeReady") /\ Documents!StoreReady
  <2>1. PICK document : /\ desk' = [desk EXCEPT !["storeReady"] = document] /\ gate' = gate + 1
                        /\ StoreSound(document)
    BY <1>14 DEF Documents!StoreReady, Documents!Issue, StoreSound
  <2> QED BY <1>14, <2>1, Placed, Filed DEF Documents!At, Followed
<1>15. CASE Documents!At("evidence") /\ Documents!Execute
  <2>0. PlanSound(desk["plan"]) /\ StoreSound(desk["storeReady"])
    BY <1>15, Places DEF Documents!At, Known, DeskInv
  <2>1. PICK plan, ready : plan = desk["plan"] /\ ready = desk["storeReady"]
    OBVIOUS
  <2>2. PICK document :
          document = [before |-> main, after |-> main, parent |-> plan.main, plan |-> plan, ready |-> ready]
    OBVIOUS
  <2>3. plan.main = main /\ ready.main = main /\ ready.store = main /\ PlanSound(plan)
    BY <1>15, <2>0, <2>1 DEF Documents!Execute, Documents!Agreed, StoreSound
  <2>4. document.plan = plan /\ document.before = main /\ document.parent = main /\ document.ready = ready
    BY <2>2, <2>3
  <2>5. EvidenceSound(document)
    BY <2>3, <2>4 DEF EvidenceSound
  <2>6. desk' = [desk EXCEPT !["evidence"] = document] /\ gate' = gate + 1
    BY <1>15, <2>1, <2>2 DEF Documents!Execute, Documents!Issue
  <2> QED BY <1>15, <2>5, <2>6, Placed, Filed DEF Documents!At, Followed
<1> QED BY <1>1, <1>2, <1>3, <1>4, <1>5, <1>6, <1>7, <1>8, <1>9, <1>10, <1>11, <1>12, <1>13,
          <1>14, <1>15 DEF Documents!Execution

(* What only moves the gate: an older document is kept, or the gates are   *)
(* gone through again.                                                     *)
LEMMA MovingKeeps ==
  ASSUME DeskInv, UNCHANGED desk, gate' \in Nat,
         \A k \in Followed : Documents!Place(k) < gate' => Known(k)
  PROVE  DeskInv'
<1>1. Kinds' = Kinds /\ \A k \in Followed : Documents!Place(k)' = Documents!Place(k)
  BY DEF Kinds, Documents!Place, Documents!Line, Documents!ReviewLine, Documents!ExecutionLine
<1>2. \A k \in Followed : Known(k)' => Known(k)
  BY <1>1 DEF Known
<1> QED BY <1>1, <1>2 DEF DeskInv, Followed, DeltaSound, SyntheticSound, ReadySound, AuthSound, PlanSound,
                          StoreSound, EvidenceSound, Documents!FilesOf

LEMMA DeskKeeps == ASSUME DeskInv, [Documents!Next]_(Documents!vars) PROVE DeskInv'
<1>1. CASE Documents!Keep
  <2>1. desk[Documents!Line[gate]] # None /\ gate' = gate + 1 /\ UNCHANGED desk /\ gate \in Nat
    BY <1>1 DEF Documents!Keep, DeskInv
  <2>2. ASSUME NEW k \in Followed, Documents!Place(k) < gate' PROVE Known(k)
    <3>1. PICK p \in 1 .. 28 : p = Documents!Place(k) /\ Documents!Line[p] = k
      BY Placed
    <3>2. p < gate \/ p = gate
      BY <2>1, <2>2, <3>1
    <3> QED BY <2>1, <3>1, <3>2 DEF Known
  <2> QED BY <2>1, <2>2, MovingKeeps
<1>2. CASE Documents!Redo
  <2>1. gate' = Documents!Place("accepted") /\ gate' < gate /\ UNCHANGED desk /\ gate \in Nat
    BY <1>2 DEF Documents!Redo, DeskInv
  <2>2. gate' \in Nat
    BY <2>1, Placed, UnfollowedPlaced DEF Unfollowed
  <2>3. ASSUME NEW k \in Followed, Documents!Place(k) < gate' PROVE Known(k)
    <3>1. PICK p \in 1 .. 28 : p = Documents!Place(k)
      BY Placed
    <3> QED BY <2>1, <2>2, <2>3, <3>1 DEF Known
  <2> QED BY <2>1, <2>2, <2>3, MovingKeeps
<1>3. CASE Documents!Push \/ UNCHANGED Documents!vars
  <2>1. UNCHANGED << desk, gate >>
    BY <1>3 DEF Documents!Push, Documents!vars
  <2> QED BY <2>1, MovingKeeps DEF Known, DeskInv
<1> QED BY <1>1, <1>2, <1>3, ReviewKeeps, ExecutionKeeps DEF Documents!Next

LEMMA DeskStarts == ASSUME Documents!Init PROVE DeskInv
<1>1. DOMAIN desk = Kinds /\ gate = 1
  BY DEF Documents!Init, Kinds
<1>2. ASSUME NEW k \in Followed PROVE ~Known(k)
  <2>1. Documents!Place(k) \in 1 .. 28 /\ k \in Kinds
    BY Placed
  <2>2. desk[k] = None
    BY <2>1 DEF Documents!Init, Kinds
  <2> QED BY <1>1, <2>1, <2>2 DEF Known
<1> QED BY <1>1, <1>2 DEF DeskInv, Followed

(* What each document on the desk has been compared with.                  *)
THEOREM DeskInvariant == EitherSpec => []DeskInv
<1>1. EitherInit => DeskInv
  BY DeskStarts DEF EitherInit
<1>2. DeskInv /\ [EitherNext]_<< part, vars, documents >> => DeskInv'
  <2>1. [EitherNext]_<< part, vars, documents >> => [Documents!Next]_(Documents!vars)
    BY DEF EitherNext, documents, Documents!vars
  <2> QED BY <2>1, DeskKeeps
<1> QED BY <1>1, <1>2, PTL DEF EitherSpec

(* What is executed was made for one commit all through, for any pushes,   *)
(* any documents kept from before, and any number of rounds.               *)
THEOREM OneGenerationExecuted == EitherSpec => []OneGeneration
<1>1. DeskInv => OneGeneration
  BY DEF DeskInv, Known, EvidenceSound, PlanSound, AuthSound, ReadySound, OneGeneration,
         Documents!OneGeneration, Documents!Executed
<1> QED BY <1>1, DeskInvariant, PTL
=============================================================================
