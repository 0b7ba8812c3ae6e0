-------------------- MODULE ActivationTransaction_proofs --------------------
(***************************************************************************)
(* Proofs about ActivationTransaction, for any executors, ids, plans,      *)
(* branches and files.                                                     *)
(*                                                                         *)
(* Nothing here is held by a lock.  What an executor learned stays true    *)
(* because everything it learned is about objects that only grow: receipts *)
(* are written once, blobs, trees and commits are never removed, a branch  *)
(* is never moved.  At(e) is what executor e may rely on at its place;     *)
(* the lemma Grown carries it over the steps of the others.                *)
(***************************************************************************)
EXTENDS ActivationTransaction, TLAPS

Makers == {"orchestrated", "http"}
Drafters == {"draft", "drafthttp"}

PhasesOf(kind) ==
  CASE kind = "orchestrated" -> {"preflight", "backend", "fence", "write", "validate", "check", "consume",
                                 "blobs", "tree", "commit", "ref", "closing", "passed", "stopped"}
    [] kind = "http" -> {"check", "getbranch", "blobs", "tree", "commit", "ref", "unsure", "closing",
                         "passed", "stopped"}
    [] kind = "adapter" -> {"absent", "create", "doubt", "passed", "stopped"}
    [] OTHER -> {"find", "open", "wonder", "passed", "stopped"}

(* An executor whose receipt is its own: it wrote it, and may have gone on. *)
Holds(e) == e \in past \/ pc[e] = "validate"

At(e) ==
  /\ pc[e] = "idle" => e \notin past
  /\ pc[e] # "idle" => job[e] \in Jobs /\ pc[e] \in PhasesOf(job[e].kind)
  /\ Holds(e) => job[e].kind = "orchestrated" /\ receipts[Id(e)] = Plan(e)
  /\ pc[e] \in {"tree", "commit", "ref"} => blobs[Plan(e)] = Files
  /\ pc[e] \in {"commit", "ref"} => Plan(e) \in trees
  /\ pc[e] = "ref" => Own(e) \in commits
  /\ pc[e] = "passed" =>
       /\ job[e].kind \in Makers => branch[Branch(e)] = Own(e)
       /\ job[e].kind = "adapter" => receipts[Id(e)] = Plan(e)
       /\ job[e].kind \in Drafters => <<Branch(e), Id(e)>> \in opened

OneHolder == \A e, f \in Executors : Holds(e) /\ Holds(f) /\ Id(e) = Id(f) => e = f

(* A pull request on a branch that was not opened by hand was recorded.    *)
PullsOpened == \A b \in Branches : pulls[b] \in Ids => <<b, pulls[b]>> \in opened

GitInv ==
  /\ TypeOK
  /\ \A e \in Executors : At(e)
  /\ OneHolder
  /\ BranchWhole
  /\ PullsOpened

-----------------------------------------------------------------------------
LEMMA GitInit == ASSUME TransactionConstants PROVE Init => GitInv
<1> SUFFICES ASSUME Init PROVE GitInv
  OBVIOUS
<1> USE DEF Init
<1>1. TypeOK
  BY DEF TypeOK, TransactionConstants, Phases
<1>2. \A e \in Executors : At(e)
  BY DEF At, Holds
<1>3. OneHolder /\ BranchWhole /\ PullsOpened
  BY DEF OneHolder, Holds, BranchWhole, PullsOpened, TransactionConstants
<1>4. QED
  BY <1>1, <1>2, <1>3 DEF GitInv

(* What the store and the repository never take back.                      *)
Growing ==
  /\ \A i \in Ids : receipts[i] # None => receipts'[i] = receipts[i]
  /\ \A p \in Plans : blobs[p] = Files => blobs'[p] = Files
  /\ trees \subseteq trees' /\ commits \subseteq commits' /\ opened \subseteq opened'
  /\ \A b \in Branches : branch[b] # None => branch'[b] = branch[b]

(* What an executor relies on stays true while others work.                *)
LEMMA Grown ==
  ASSUME TransactionConstants, GitInv, Growing, NEW e \in Executors,
         pc'[e] = pc[e], job'[e] = job[e], e \in past' <=> e \in past
  PROVE  At(e)'
<1> USE DEF GitInv
<1>1. At(e)
  OBVIOUS
<1>2. CASE pc[e] = "idle"
  BY <1>1, <1>2 DEF At, Holds
<1>3. CASE pc[e] # "idle"
  <2>1. job[e] \in Jobs /\ pc[e] \in PhasesOf(job[e].kind)
    BY <1>1, <1>3 DEF At
  <2>2. /\ Id(e) \in Ids /\ Plan(e) \in Plans /\ Branch(e) \in Branches
        /\ Id(e)' = Id(e) /\ Plan(e)' = Plan(e) /\ Branch(e)' = Branch(e) /\ Own(e)' = Own(e)
        /\ job[e].kind \in Makers => Own(e) \in Commits
    BY <2>1 DEF Jobs, Id, Plan, Branch, Branches, Own, Commits, Makers
  <2>3. Plan(e) # None /\ (job[e].kind \in Makers => Own(e) # None)
    BY <2>2 DEF TransactionConstants
  <2>4. (Holds(e)' <=> Holds(e)) /\ (job[e].kind)' = job[e].kind
    BY DEF Holds
  <2>5. QED
    BY <1>1, <1>3, <2>1, <2>2, <2>3, <2>4 DEF At, Growing
<1>4. QED
  BY <1>2, <1>3

-----------------------------------------------------------------------------
(* A step that only moves an executor: it needs no more than what its new  *)
(* place relies on.                                                        *)
LEMMA MoveStep ==
  ASSUME TransactionConstants, GitInv, NEW e \in Executors, pc[e] # "idle",
         NEW phase \in Phases \ {"idle", "validate"}, Goto(e, phase),
         UNCHANGED <<main, receipts, git, reviews, job>>,
         phase \in PhasesOf(job[e].kind),
         phase \in {"tree", "commit", "ref"} => FALSE,
         phase = "passed" =>
           /\ job[e].kind \in Makers => branch[Branch(e)] = Own(e)
           /\ job[e].kind = "adapter" => receipts[Id(e)] = Plan(e)
           /\ job[e].kind \in Drafters => <<Branch(e), Id(e)>> \in opened
  PROVE  GitInv'
<1> USE DEF GitInv
<1>1. /\ UNCHANGED <<main, receipts, tokens, blobs, trees, commits, branch, past, pulls, attempted, opened, job>>
      /\ Growing
  BY DEF git, reviews, Growing
<1>2. /\ pc' \in [Executors -> Phases] /\ pc'[e] = phase
      /\ \A f \in Executors \ {e} : pc'[f] = pc[f]
  BY DEF Goto, TypeOK
<1>3. TypeOK'
  BY <1>1, <1>2 DEF TypeOK
<1>4. \A f \in Executors \ {e} : At(f)'
  BY <1>1, <1>2, Grown
<1>5. At(e) /\ (Holds(e)' => Holds(e))
  BY <1>1, <1>2 DEF Holds
<1>6. At(e)'
  BY <1>1, <1>2, <1>5 DEF At, Id, Plan, Branch, Own
<1>7. OneHolder'
  BY <1>1, <1>2, <1>5 DEF OneHolder, Holds, Id
<1>8. BranchWhole' /\ PullsOpened'
  BY <1>1 DEF BranchWhole, PullsOpened
<1>9. QED
  BY <1>3, <1>4, <1>6, <1>7, <1>8

(* The steps of that kind.                                                 *)
LEMMA QuietStep ==
  ASSUME TransactionConstants, GitInv, NEW e \in Executors,
         \/ PreflightReceipt(e) \/ PreflightBackend(e) \/ FenceRead(e) \/ GitCheck(e)
         \/ HttpMain(e) \/ HttpBranch(e) \/ HttpResolve(e) \/ CloseTransaction(e)
         \/ AdapterRead(e) \/ AdapterReadback(e) \/ FindPull(e) \/ ResolvePull(e) \/ Stop(e)
  PROVE  GitInv'
<1>1. pc[e] # "idle" /\ UNCHANGED <<main, receipts, git, reviews, job>>
  BY DEF PreflightReceipt, PreflightBackend, FenceRead, GitCheck, HttpMain, HttpBranch, HttpResolve,
         CloseTransaction, AdapterRead, AdapterReadback, FindPull, ResolvePull, Stop, Run
<1>2. /\ job[e] \in Jobs /\ pc[e] \in PhasesOf(job[e].kind)
      /\ job[e].kind \in AllKinds /\ Id(e) \in Ids /\ Branch(e) \in Branches
  BY <1>1 DEF GitInv, At, Jobs, TransactionConstants, Id, Branch, Branches, Plan
<1>3. "stopped" \in PhasesOf(job[e].kind)
  BY <1>2 DEF PhasesOf, AllKinds
<1>4. CASE PreflightReceipt(e) \/ PreflightBackend(e) \/ FenceRead(e) \/ GitCheck(e)
  <2>1. PICK phase \in {"backend", "fence", "write", "consume", "stopped"} : Goto(e, phase)
    BY <1>4 DEF PreflightReceipt, PreflightBackend, FenceRead, GitCheck
  <2>2. job[e].kind = "orchestrated"
    BY <1>4 DEF PreflightReceipt, PreflightBackend, FenceRead, GitCheck, Run
  <2>3. phase \in PhasesOf(job[e].kind)
    BY <2>2 DEF PhasesOf
  <2>4. QED
    BY <1>1, <2>1, <2>3, MoveStep DEF Phases
<1>5. CASE HttpMain(e) \/ HttpBranch(e)
  <2>1. PICK phase \in {"getbranch", "blobs", "stopped"} : Goto(e, phase)
    BY <1>5 DEF HttpMain, HttpBranch
  <2>2. job[e].kind = "http"
    BY <1>5 DEF HttpMain, HttpBranch, Run
  <2>3. phase \in PhasesOf(job[e].kind)
    BY <2>2 DEF PhasesOf
  <2>4. QED
    BY <1>1, <2>1, <2>3, MoveStep DEF Phases
<1>6. CASE HttpResolve(e)
  <2>1. PICK phase \in {"closing", "stopped"} : Goto(e, phase)
    BY <1>6 DEF HttpResolve
  <2>2. phase \in PhasesOf(job[e].kind)
    BY <1>6, <2>1 DEF HttpResolve, Run, PhasesOf
  <2>3. QED
    BY <1>1, <2>1, <2>2, MoveStep DEF Phases
<1>7. CASE CloseTransaction(e)
  <2>1. job[e].kind \in Makers
    BY <1>2, <1>7 DEF CloseTransaction, PhasesOf, Makers
  <2>2. PICK phase \in {"passed", "stopped"} : Goto(e, phase) /\ (phase = "passed" => branch[Branch(e)] = Own(e))
    BY <1>7 DEF CloseTransaction
  <2>3. phase \in PhasesOf(job[e].kind) /\ job[e].kind \notin Drafters \cup {"adapter"}
    BY <2>1 DEF PhasesOf, Makers, Drafters
  <2>4. QED
    BY <1>1, <2>1, <2>2, <2>3, MoveStep DEF Phases
<1>8. CASE AdapterRead(e) \/ AdapterReadback(e)
  <2>1. job[e].kind = "adapter"
    BY <1>8 DEF AdapterRead, AdapterReadback, Run
  <2>2. PICK phase \in {"create", "passed", "stopped"} :
          Goto(e, phase) /\ (phase = "passed" => receipts[Id(e)] = Plan(e))
    BY <1>8 DEF AdapterRead, AdapterReadback
  <2>3. phase \in PhasesOf(job[e].kind) /\ job[e].kind \notin Drafters \cup Makers
    BY <2>1 DEF PhasesOf, Makers, Drafters
  <2>4. QED
    BY <1>1, <2>2, <2>3, MoveStep DEF Phases
<1>9. CASE FindPull(e) \/ ResolvePull(e)
  <2>1. job[e].kind \in Drafters
    BY <1>2, <1>9 DEF FindPull, ResolvePull, Run, PhasesOf, Drafters, AllKinds
  <2>2. PICK phase \in {"open", "passed", "stopped"} :
          Goto(e, phase) /\ (phase = "passed" => pulls[Branch(e)] = Id(e))
    BY <1>9 DEF FindPull, ResolvePull
  <2>3. phase \in PhasesOf(job[e].kind) /\ job[e].kind \notin Makers \cup {"adapter"}
    BY <2>1 DEF PhasesOf, Makers, Drafters
  <2>4. phase = "passed" => <<Branch(e), Id(e)>> \in opened
    BY <1>2, <2>2 DEF GitInv, PullsOpened
  <2>5. QED
    BY <1>1, <2>2, <2>3, <2>4, MoveStep DEF Phases
<1>10. CASE Stop(e)
  BY <1>1, <1>3, <1>10, MoveStep DEF Stop, Phases
<1>11. QED
  BY <1>4, <1>5, <1>6, <1>7, <1>8, <1>9, <1>10

LEMMA StartStep ==
  ASSUME TransactionConstants, GitInv, NEW e \in Executors, Start(e)
  PROVE  GitInv'
<1> USE DEF GitInv, Start
<1>1. PICK j \in Jobs : job' = [job EXCEPT ![e] = j] /\ Goto(e, FirstPhase(j.kind))
  OBVIOUS
<1>2. /\ UNCHANGED <<main, receipts, tokens, blobs, trees, commits, branch, past, pulls, attempted, opened>>
      /\ Growing
  BY DEF git, reviews, Growing
<1>3. j.kind \in AllKinds /\ FirstPhase(j.kind) \in {"preflight", "check", "absent", "find"}
  BY DEF Jobs, TransactionConstants, FirstPhase
<1>4. /\ pc' \in [Executors -> Phases] /\ pc'[e] = FirstPhase(j.kind) /\ job'[e] = j
      /\ job' \in [Executors -> Jobs \cup {None}]
      /\ \A f \in Executors \ {e} : pc'[f] = pc[f] /\ job'[f] = job[f]
  BY <1>1, <1>3 DEF Goto, TypeOK, Phases
<1>5. e \notin past /\ ~Holds(e)'
  BY <1>2, <1>3, <1>4 DEF At, Holds
<1>6. FirstPhase(j.kind) \in PhasesOf(j.kind)
  BY <1>3 DEF FirstPhase, PhasesOf, AllKinds
<1>7. At(e)'
  BY <1>3, <1>4, <1>5, <1>6 DEF At
<1>8. \A f \in Executors \ {e} : At(f)'
  BY <1>2, <1>4, Grown
<1>9. TypeOK'
  BY <1>2, <1>4 DEF TypeOK
<1>10. OneHolder'
  BY <1>2, <1>4, <1>5 DEF OneHolder, Holds, Id
<1>11. BranchWhole' /\ PullsOpened'
  BY <1>2 DEF BranchWhole, PullsOpened
<1>12. QED
  BY <1>7, <1>8, <1>9, <1>10, <1>11

(* The place of an executor that has a job, and whose job that is.         *)
LEMMA Placed ==
  ASSUME TransactionConstants, GitInv, NEW e \in Executors, pc[e] # "idle"
  PROVE  /\ At(e) /\ job[e] \in Jobs /\ pc[e] \in PhasesOf(job[e].kind) /\ job[e].kind \in AllKinds
         /\ Id(e) \in Ids /\ Plan(e) \in Plans /\ Branch(e) \in Branches
         /\ "stopped" \in PhasesOf(job[e].kind)
         /\ pc[e] \in {"blobs", "tree", "commit", "ref", "closing"} => job[e].kind \in Makers /\ Own(e) \in Commits
BY DEF GitInv, At, Jobs, TransactionConstants, Id, Branch, Branches, Plan, PhasesOf, AllKinds, Makers, Own, Commits

(* A receipt is written where there was none: nobody else holds its id.    *)
LEMMA FenceStep ==
  ASSUME TransactionConstants, GitInv, NEW e \in Executors, FenceWrite(e) \/ FenceValidate(e)
  PROVE  GitInv'
<1> USE DEF GitInv
<1>1. /\ pc[e] # "idle" /\ job[e].kind = "orchestrated"
      /\ UNCHANGED <<main, tokens, blobs, trees, commits, branch, pulls, attempted, opened, job>>
  BY DEF FenceWrite, FenceValidate, Run, git, reviews
<1>2. /\ At(e) /\ Id(e) \in Ids /\ Plan(e) \in Plans /\ Plan(e) # None
      /\ \A f \in Executors \ {e} : At(f)
      /\ \A f \in Executors : Id(f)' = Id(f) /\ Plan(f)' = Plan(f)
  BY <1>1, Placed DEF TransactionConstants, Id, Plan
<1>3. CASE FenceWrite(e) /\ receipts[Id(e)] = None
  <2> USE <1>3 DEF FenceWrite, reviews
  <2>1. /\ receipts' = [receipts EXCEPT ![Id(e)] = Plan(e)] /\ Goto(e, "validate")
        /\ past' = past
    OBVIOUS
  <2>2. /\ pc' \in [Executors -> Phases] /\ pc'[e] = "validate"
        /\ \A f \in Executors \ {e} : pc'[f] = pc[f]
        /\ receipts' \in [Ids -> Plans \cup {None}] /\ receipts'[Id(e)] = Plan(e)
    BY <1>2, <2>1 DEF Goto, TypeOK, Phases
  <2>3. Growing
    BY <1>1, <1>2, <2>1 DEF Growing, TypeOK
  <2>4. \A f \in Executors \ {e} : At(f)'
    BY <1>1, <2>1, <2>2, <2>3, Grown
  <2>5. At(e)'
    BY <1>1, <1>2, <2>1, <2>2 DEF At, Holds, PhasesOf, Run
  <2>6. ASSUME NEW f \in Executors \ {e}, Holds(f) PROVE Id(f) # Id(e)
    <3>1. receipts[Id(f)] = Plan(f)
      BY <1>2, <2>6 DEF At
    <3>2. Plan(f) # None
      <4>1. pc[f] # "idle"
        BY <1>2, <2>6 DEF At, Holds
      <4>2. QED
        BY <4>1, Placed DEF TransactionConstants
    <3>3. QED
      BY <3>1, <3>2
  <2>7. OneHolder'
    BY <1>2, <2>1, <2>2, <2>6 DEF OneHolder, Holds
  <2>8. TypeOK' /\ BranchWhole' /\ PullsOpened'
    BY <1>1, <2>1, <2>2 DEF TypeOK, BranchWhole, PullsOpened
  <2>9. QED
    BY <2>4, <2>5, <2>7, <2>8
<1>4. CASE FenceWrite(e) /\ receipts[Id(e)] # None
  BY <1>1, <1>4, Placed, MoveStep DEF FenceWrite, Phases
<1>5. CASE FenceValidate(e)
  <2>1. pc[e] = "validate" /\ receipts[Id(e)] = Plan(e)
    BY <1>2, <1>5 DEF FenceValidate, Run, At, Holds
  <2>2. /\ past' = past \cup {e} /\ Goto(e, "check") /\ receipts' = receipts
    BY <1>5, <2>1 DEF FenceValidate
  <2>3. /\ pc' \in [Executors -> Phases] /\ pc'[e] = "check"
        /\ \A f \in Executors \ {e} : pc'[f] = pc[f]
        /\ Growing
    BY <1>1, <2>2 DEF Goto, TypeOK, Phases, Growing
  <2>4. \A f \in Executors \ {e} : At(f)'
    BY <1>1, <2>2, <2>3, Grown
  <2>5. At(e)'
    BY <1>1, <1>2, <2>1, <2>2, <2>3 DEF At, Holds, PhasesOf
  <2>6. OneHolder'
    BY <1>2, <2>1, <2>2, <2>3 DEF OneHolder, Holds
  <2>7. TypeOK' /\ BranchWhole' /\ PullsOpened'
    BY <1>1, <2>2, <2>3 DEF TypeOK, BranchWhole, PullsOpened
  <2>8. QED
    BY <2>4, <2>5, <2>6, <2>7
<1>6. QED
  BY <1>3, <1>4, <1>5

(* The objects of a commit, in their order.                                *)
LEMMA ObjectStep ==
  ASSUME TransactionConstants, GitInv, NEW e \in Executors,
         Consume(e) \/ CreateBlob(e) \/ CreateTree(e) \/ CreateCommit(e)
  PROVE  GitInv'
<1> USE DEF GitInv
<1>1. /\ pc[e] \in {"consume", "blobs", "tree", "commit"} /\ pc[e] # "idle"
      /\ UNCHANGED <<main, receipts, branch, past, pulls, attempted, opened, job>>
  BY DEF Consume, CreateBlob, CreateTree, CreateCommit, Run, reviews
<1>2. /\ At(e) /\ job[e].kind \in Makers /\ Id(e) \in Ids /\ Plan(e) \in Plans
      /\ Own(e) \in Commits
      /\ {"blobs", "tree", "commit", "ref", "stopped"} \subseteq PhasesOf(job[e].kind)
  BY <1>1, Placed DEF PhasesOf, Makers, AllKinds, Own, Commits
<1>3. PICK phase \in {"blobs", "tree", "commit", "ref", "stopped"} :
        /\ Goto(e, phase)
        /\ phase = "tree" => blobs'[Plan(e)] = Files
        /\ phase = "commit" => pc[e] = "tree" /\ Plan(e) \in trees' /\ blobs' = blobs
        /\ phase = "ref" => pc[e] = "commit" /\ Own(e) \in commits' /\ blobs' = blobs /\ trees' = trees
  <2>1. CASE CreateBlob(e)
    <3>1. PICK f \in Files :
            /\ blobs' = [blobs EXCEPT ![Plan(e)] = @ \cup {f}]
            /\ Goto(e, IF blobs[Plan(e)] \cup {f} = Files THEN "tree" ELSE "blobs")
      BY <2>1 DEF CreateBlob
    <3>2. blobs'[Plan(e)] = blobs[Plan(e)] \cup {f}
      BY <1>2, <3>1 DEF TypeOK
    <3>3. QED
      BY <3>1, <3>2
  <2>2. CASE Consume(e) \/ CreateTree(e) \/ CreateCommit(e)
    BY <1>1, <2>2 DEF Consume, CreateTree, CreateCommit
  <2>3. QED
    BY <2>1, <2>2
<1>4. /\ tokens' \in SUBSET Plans /\ trees' \in SUBSET Plans /\ commits' \in SUBSET Commits
      /\ blobs' \in [Plans -> SUBSET Files]
      /\ Growing
  <2>1. CASE CreateBlob(e)
    <3>1. PICK f \in Files : blobs' = [blobs EXCEPT ![Plan(e)] = @ \cup {f}]
      BY <2>1 DEF CreateBlob
    <3>2. blobs[Plan(e)] \in SUBSET Files
      BY <1>2 DEF TypeOK
    <3>3. blobs[Plan(e)] = Files => blobs[Plan(e)] \cup {f} = Files
      OBVIOUS
    <3>4. /\ blobs' \in [Plans -> SUBSET Files]
          /\ \A p \in Plans : blobs[p] = Files => blobs'[p] = Files
      BY <1>2, <3>1, <3>2, <3>3 DEF TypeOK
    <3>5. UNCHANGED <<tokens, trees, commits>>
      BY <2>1 DEF CreateBlob
    <3>6. QED
      BY <1>1, <3>4, <3>5 DEF TypeOK, Growing
  <2>2. CASE Consume(e)
    BY <1>1, <1>2, <2>2 DEF Consume, TypeOK, Growing
  <2>3. CASE CreateTree(e) \/ CreateCommit(e)
    BY <1>1, <1>2, <2>3 DEF CreateTree, CreateCommit, TypeOK, Growing
  <2>4. QED
    BY <2>1, <2>2, <2>3
<1>5. /\ pc' \in [Executors -> Phases] /\ pc'[e] = phase
      /\ \A f \in Executors \ {e} : pc'[f] = pc[f]
  BY <1>3 DEF Goto, TypeOK, Phases
<1>6. TypeOK'
  BY <1>1, <1>4, <1>5 DEF TypeOK
<1>7. \A f \in Executors \ {e} : At(f)'
  BY <1>1, <1>4, <1>5, Grown
<1>8. At(e)'
  BY <1>1, <1>2, <1>3, <1>5 DEF At, Holds, Id, Plan, Own
<1>9. OneHolder'
  BY <1>1, <1>3, <1>5 DEF OneHolder, Holds, Id
<1>10. BranchWhole'
  BY <1>1, <1>4 DEF BranchWhole, Growing, TypeOK, Commits
<1>11. PullsOpened'
  BY <1>1 DEF PullsOpened
<1>12. QED
  BY <1>6, <1>7, <1>8, <1>9, <1>10, <1>11

(* The branch is made of a commit that is whole, where there was none.     *)
LEMMA RefStep ==
  ASSUME TransactionConstants, GitInv, NEW e \in Executors, CreateRef(e)
  PROVE  GitInv'
<1> USE DEF GitInv
<1>1. /\ pc[e] = "ref" /\ pc[e] # "idle"
      /\ UNCHANGED <<main, receipts, tokens, blobs, trees, commits, past, pulls, attempted, opened, job>>
  BY DEF CreateRef, reviews
<1>2. /\ At(e) /\ job[e].kind \in Makers /\ Branch(e) \in Branches /\ Own(e) \in Commits
      /\ Own(e) \in commits /\ Plan(e) \in trees /\ blobs[Plan(e)] = Files
      /\ Own(e).plan = Plan(e) /\ BranchOf[Plan(e)] = Branch(e)
      /\ {"closing", "stopped"} \subseteq PhasesOf(job[e].kind)
  BY <1>1, Placed DEF At, PhasesOf, Makers, Own, Branch
<1>3. PICK phase \in {"closing", "stopped", "unsure"} :
        /\ Goto(e, phase)
        /\ phase = "unsure" => job[e].kind = "http"
        /\ \/ branch' = branch
           \/ branch[Branch(e)] = None /\ branch' = [branch EXCEPT ![Branch(e)] = Own(e)]
  BY DEF CreateRef
<1>4. phase \in PhasesOf(job[e].kind)
  BY <1>2, <1>3 DEF PhasesOf
<1>5. /\ pc' \in [Executors -> Phases] /\ pc'[e] = phase
      /\ \A f \in Executors \ {e} : pc'[f] = pc[f]
  BY <1>3 DEF Goto, TypeOK, Phases
<1>6. branch' \in [Branches -> Commits \cup {None}] /\ Growing
  BY <1>1, <1>2, <1>3 DEF TypeOK, Growing
<1>7. TypeOK'
  BY <1>1, <1>5, <1>6 DEF TypeOK
<1>8. \A f \in Executors \ {e} : At(f)'
  BY <1>1, <1>5, <1>6, Grown
<1>9. At(e)'
  BY <1>1, <1>2, <1>3, <1>4, <1>5 DEF At, Holds, Id, Plan
<1>10. OneHolder'
  BY <1>1, <1>3, <1>5 DEF OneHolder, Holds, Id
<1>11. BranchWhole'
  BY <1>1, <1>2, <1>3 DEF BranchWhole, TypeOK
<1>12. PullsOpened'
  BY <1>1 DEF PullsOpened
<1>13. QED
  BY <1>7, <1>8, <1>9, <1>10, <1>11, <1>12

(* The adapter's receipt, too, is written where there was none.            *)
LEMMA AdapterStep ==
  ASSUME TransactionConstants, GitInv, NEW e \in Executors, AdapterCreate(e)
  PROVE  GitInv'
<1> USE DEF GitInv
<1>1. /\ pc[e] = "create" /\ pc[e] # "idle" /\ job[e].kind = "adapter"
      /\ UNCHANGED <<main, tokens, blobs, trees, commits, branch, past, pulls, attempted, opened, job>>
  BY DEF AdapterCreate, Run, git, reviews
<1>2. At(e) /\ Id(e) \in Ids /\ Plan(e) \in Plans
  BY <1>1, Placed
<1>3. PICK phase \in {"doubt", "stopped"} :
        /\ Goto(e, phase)
        /\ \/ receipts' = receipts
           \/ receipts[Id(e)] = None /\ receipts' = [receipts EXCEPT ![Id(e)] = Plan(e)]
  BY DEF AdapterCreate
<1>4. /\ pc' \in [Executors -> Phases] /\ pc'[e] = phase
      /\ \A f \in Executors \ {e} : pc'[f] = pc[f]
      /\ phase \in PhasesOf(job[e].kind)
  BY <1>1, <1>3 DEF Goto, TypeOK, Phases, PhasesOf
<1>5. receipts' \in [Ids -> Plans \cup {None}] /\ Growing
  BY <1>1, <1>2, <1>3 DEF TypeOK, Growing
<1>6. TypeOK'
  BY <1>1, <1>4, <1>5 DEF TypeOK
<1>7. \A f \in Executors \ {e} : At(f)'
  BY <1>1, <1>4, <1>5, Grown
<1>8. At(e)' /\ ~Holds(e)'
  BY <1>1, <1>2, <1>3, <1>4 DEF At, Holds
<1>9. OneHolder' /\ BranchWhole' /\ PullsOpened'
  BY <1>1, <1>4, <1>8 DEF OneHolder, Holds, Id, BranchWhole, PullsOpened
<1>10. QED
  BY <1>6, <1>7, <1>8, <1>9

(* A pull request is recorded as it is opened, also when the answer is     *)
(* lost.                                                                   *)
LEMMA PullStep ==
  ASSUME TransactionConstants, GitInv, NEW e \in Executors, CreatePull(e)
  PROVE  GitInv'
<1> USE DEF GitInv
<1>1. /\ pc[e] = "open" /\ pc[e] # "idle"
      /\ UNCHANGED <<main, receipts, tokens, blobs, trees, commits, branch, past, job>>
  BY DEF CreatePull, git
<1>2. /\ At(e) /\ job[e].kind \in Drafters /\ job[e].kind \notin Makers \cup {"adapter"}
      /\ Branch(e) \in Branches /\ Id(e) \in Ids
      /\ {"passed", "stopped", "wonder"} \subseteq PhasesOf(job[e].kind)
  BY <1>1, Placed DEF PhasesOf, Makers, Drafters, AllKinds
<1>3. PICK phase \in {"passed", "stopped", "wonder"} :
        /\ Goto(e, phase)
        /\ \/ phase # "passed" /\ UNCHANGED <<pulls, opened>>
           \/ OpenOn(Branch(e), Id(e))
  BY DEF CreatePull
<1>4. /\ pulls' \in [Branches -> Ids \cup {None, "byhand"}]
      /\ opened' \in SUBSET (Branches \X Ids) /\ attempted' \in SUBSET Ids
      /\ opened \subseteq opened'
      /\ phase = "passed" => <<Branch(e), Id(e)>> \in opened'
  BY <1>2, <1>3 DEF TypeOK, OpenOn, CreatePull
<1>5. /\ pc' \in [Executors -> Phases] /\ pc'[e] = phase
      /\ \A f \in Executors \ {e} : pc'[f] = pc[f]
      /\ Growing
  BY <1>1, <1>3, <1>4 DEF Goto, TypeOK, Phases, Growing
<1>6. TypeOK'
  BY <1>1, <1>4, <1>5 DEF TypeOK
<1>7. \A f \in Executors \ {e} : At(f)'
  BY <1>1, <1>5, Grown
<1>8. At(e)' /\ ~(pc'[e] = "validate")
  BY <1>1, <1>2, <1>3, <1>4, <1>5 DEF At, Holds, Id, Plan, Branch
<1>9. OneHolder' /\ BranchWhole'
  BY <1>1, <1>5, <1>8 DEF OneHolder, Holds, Id, BranchWhole
<1>10. PullsOpened'
  BY <1>2, <1>3 DEF PullsOpened, OpenOn, TypeOK
<1>11. QED
  BY <1>6, <1>7, <1>8, <1>9, <1>10

(* What others do on GitHub, and the memory a restart loses.               *)
LEMMA SurroundingStep ==
  ASSUME TransactionConstants, GitInv,
         \/ \E b \in Branches : OpenByHand(b) \/ Close(b)
         \/ Restart \/ AdvanceMain \/ UNCHANGED vars
  PROVE  GitInv'
<1> USE DEF GitInv
<1>1. /\ UNCHANGED <<receipts, blobs, trees, commits, branch, past, opened, pc, job>>
      /\ Growing
  BY DEF OpenByHand, Close, Restart, AdvanceMain, vars, git, reviews, Growing
<1>2. /\ pulls' \in [Branches -> Ids \cup {None, "byhand"}]
      /\ \A b \in Branches : pulls'[b] \in {pulls[b], None, "byhand"}
  BY DEF TypeOK, OpenByHand, Close, Restart, AdvanceMain, vars, reviews
<1>3. main' \in 0 .. MaxMain /\ tokens' \in SUBSET Plans /\ attempted' \in SUBSET Ids
  BY DEF TypeOK, OpenByHand, Close, Restart, AdvanceMain, vars, git, reviews, TransactionConstants
<1>4. TypeOK'
  BY <1>1, <1>2, <1>3 DEF TypeOK
<1>5. \A e \in Executors : At(e)'
  BY <1>1, Grown
<1>6. OneHolder' /\ BranchWhole'
  BY <1>1 DEF OneHolder, Holds, Id, BranchWhole
<1>7. PullsOpened'
  BY <1>1, <1>2 DEF PullsOpened, TransactionConstants
<1>8. QED
  BY <1>4, <1>5, <1>6, <1>7

LEMMA GitNext == ASSUME TransactionConstants PROVE GitInv /\ [Next]_vars => GitInv'
<1> SUFFICES ASSUME GitInv, [Next]_vars PROVE GitInv'
  OBVIOUS
<1>1. ASSUME NEW e \in Executors, Step(e) PROVE GitInv'
  BY <1>1, StartStep, QuietStep, FenceStep, ObjectStep, RefStep, AdapterStep, PullStep DEF Step
<1>2. QED
  BY <1>1, SurroundingStep DEF Next

-----------------------------------------------------------------------------
(* Every executor may rely on what it learned, whatever runs beside it and *)
(* whatever dies: the inductive invariant of a transaction.                *)
THEOREM TransactionInvariant == ASSUME TransactionConstants PROVE Spec => []GitInv
BY GitInit, GitNext, PTL DEF Spec

(* One execution id takes one executor to Git, and behind its receipt; no  *)
(* activation branch is without its commit, tree and files; and what       *)
(* reports PASS has happened.                                              *)
THEOREM TransactionsSound == ASSUME TransactionConstants PROVE Spec => []TransactionSound
<1>1. ASSUME GitInv PROVE TransactionSound
  <2>1. FencedOnce
    <3>1. \A e \in past : e \in Executors /\ Holds(e) /\ At(e)
      BY <1>1 DEF GitInv, TypeOK, Holds
    <3>2. QED
      BY <1>1, <3>1 DEF GitInv, OneHolder, At, FencedOnce
  <2>2. PassIsTrue
    <3> SUFFICES ASSUME NEW e \in Executors, pc[e] = "passed"
                 PROVE  CASE job[e].kind \in {"orchestrated", "http"} -> branch[Branch(e)] = Own(e)
                          [] job[e].kind = "adapter" -> receipts[Id(e)] = Plan(e)
                          [] OTHER -> <<Branch(e), Id(e)>> \in opened
      BY DEF PassIsTrue
    <3>1. /\ job[e].kind \in AllKinds
          /\ job[e].kind \in Makers => branch[Branch(e)] = Own(e)
          /\ job[e].kind = "adapter" => receipts[Id(e)] = Plan(e)
          /\ job[e].kind \in Drafters => <<Branch(e), Id(e)>> \in opened
      BY <1>1 DEF GitInv, At, Jobs, TransactionConstants
    <3>2. QED
      BY <3>1 DEF Makers, Drafters, AllKinds
  <2>3. QED
    BY <1>1, <2>1, <2>2 DEF GitInv, TransactionSound
<1>2. QED
  BY <1>1, TransactionInvariant, PTL
=============================================================================
