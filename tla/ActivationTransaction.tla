----------------------- MODULE ActivationTransaction -----------------------
(***************************************************************************)
(* One intraday activation as a Git transaction.  An orchestrated executor *)
(* persists a write-once receipt under its execution id and then creates   *)
(* the blobs, the tree, the commit and, last, the activation branch        *)
(* (rehearse_durable_receipt_then_git).  Beside it run the executor of the *)
(* HTTP Git-data API, which shares its Git steps and has no receipt of its *)
(* own; the adapter that persists a receipt through a store whose create   *)
(* may stay unanswered; and the two executors that open the draft pull     *)
(* request.  The receipt store and the repository survive a crash, what a  *)
(* process keeps in memory does not.                                       *)
(***************************************************************************)
EXTENDS Naturals, FiniteSets

CONSTANTS Executors,    \* processes; a crash ends one, a restart is another
          Kinds,        \* the executors there are: a subset of AllKinds
          Ids,          \* execution ids an operator may pass
          Plans,        \* qualified transaction plans
          BranchOf,     \* plan -> activation branch, named by its decision
          Files,        \* the files of a candidate
          MaxMain,      \* bound: commits others push to main
          None

AllKinds == {"orchestrated", "http", "adapter", "draft", "drafthttp"}

Branches == {BranchOf[p] : p \in Plans}

VARIABLES main,      \* commits on main since the plans were qualified
          receipts,  \* the write-once receipt of an execution id: its plan
          tokens,    \* plans consumed in the memory of the Git backend
          blobs,     \* blob contents in the repository, by plan
          trees,     \* trees in the repository, by plan
          commits,   \* commits in the repository
          branch,    \* activation branches
          pulls,     \* open pull request of a branch: the receipt it names
          attempted, \* receipts a pull request was tried for, in memory
          pc, job,   \* an executor's place, and its kind, id and plan
          past,      \* history: executors that got past their receipt
          opened     \* history: pull requests ever opened

vars == <<main, receipts, tokens, blobs, trees, commits, branch, pulls, attempted, pc, job, past, opened>>
git == <<tokens, blobs, trees, commits, branch>>
reviews == <<past, pulls, attempted, opened>>

Jobs == [kind : Kinds, id : Ids, plan : Plans]

(* The commit message differs between the two Git executors, and with it   *)
(* the commit; everything else of it follows from the plan.                *)
Commits == [plan : Plans, by : {"orchestrated", "http"}]

TransactionConstants == /\ Kinds \subseteq AllKinds
                        /\ MaxMain \in Nat
                        /\ None \notin Ids \cup Plans \cup Commits
                        /\ "byhand" \notin Ids

Phases == {"idle", "preflight", "backend", "fence", "write", "validate", "check", "consume",
           "getbranch", "blobs", "tree", "commit", "ref", "unsure", "closing",
           "absent", "create", "doubt", "find", "open", "wonder", "passed", "stopped"}

TypeOK == /\ main \in 0..MaxMain
          /\ receipts \in [Ids -> Plans \cup {None}]
          /\ tokens \subseteq Plans
          /\ blobs \in [Plans -> SUBSET Files]
          /\ trees \subseteq Plans
          /\ commits \subseteq Commits
          /\ branch \in [Branches -> Commits \cup {None}]
          /\ pulls \in [Branches -> Ids \cup {None, "byhand"}]
          /\ attempted \subseteq Ids
          /\ pc \in [Executors -> Phases]
          /\ job \in [Executors -> Jobs \cup {None}]
          /\ past \subseteq Executors
          /\ opened \subseteq Branches \X Ids

Init == /\ main = 0
        /\ receipts = [i \in Ids |-> None]
        /\ tokens = {} /\ trees = {} /\ commits = {}
        /\ blobs = [p \in Plans |-> {}]
        /\ branch = [b \in Branches |-> None]
        /\ pulls = [b \in Branches |-> None]
        /\ attempted = {} /\ opened = {} /\ past = {}
        /\ pc = [e \in Executors |-> "idle"]
        /\ job = [e \in Executors |-> None]

Plan(e) == job[e].plan
Id(e) == job[e].id
Branch(e) == BranchOf[Plan(e)]
Own(e) == [plan |-> Plan(e), by |-> job[e].kind]
Goto(e, phase) == pc' = [pc EXCEPT ![e] = phase]
Run(e, kind, phase) == pc[e] = phase /\ job[e].kind = kind

FirstPhase(kind) == CASE kind = "orchestrated" -> "preflight"
                      [] kind = "http"         -> "check"
                      [] kind = "adapter"      -> "absent"
                      [] OTHER                 -> "find"

(* A pull request is opened for the receipt and branch of a transaction    *)
(* that reported PASS.                                                     *)
Transacted(i, p) ==
  \E f \in Executors : pc[f] = "passed" /\ job[f] = [kind |-> "orchestrated", id |-> i, plan |-> p]

Start(e) ==
  /\ pc[e] = "idle"
  /\ \E j \in Jobs :
       /\ j.kind \in {"draft", "drafthttp"} => Transacted(j.id, j.plan)
       /\ job' = [job EXCEPT ![e] = j]
       /\ Goto(e, FirstPhase(j.kind))
  /\ UNCHANGED <<main, receipts, git, reviews>>
-----------------------------------------------------------------------------
(* The readiness, the authorization, the plan and the candidate agree for  *)
(* every job; the receipt is read before anything the backend says.        *)
PreflightReceipt(e) ==
  /\ Run(e, "orchestrated", "preflight")
  /\ Goto(e, IF receipts[Id(e)] = None THEN "backend" ELSE "stopped")
  /\ UNCHANGED <<main, receipts, git, reviews, job>>

BackendFree(e) == main = 0 /\ branch[Branch(e)] = None /\ Plan(e) \notin tokens

PreflightBackend(e) ==
  /\ Run(e, "orchestrated", "backend")
  /\ Goto(e, IF BackendFree(e) THEN "fence" ELSE "stopped")
  /\ UNCHANGED <<main, receipts, git, reviews, job>>

(* A replay is rejected before a second write attempt.                     *)
FenceRead(e) ==
  /\ Run(e, "orchestrated", "fence")
  /\ Goto(e, IF receipts[Id(e)] = None THEN "write" ELSE "stopped")
  /\ UNCHANGED <<main, receipts, git, reviews, job>>

(* A store that lets a second receipt replace the first.                   *)
FenceWriteOver(e) ==
  /\ Run(e, "orchestrated", "write")
  /\ receipts' = [receipts EXCEPT ![Id(e)] = Plan(e)]
  /\ Goto(e, "validate")
  /\ UNCHANGED <<main, git, reviews, job>>

FenceWrite(e) ==
  /\ Run(e, "orchestrated", "write")
  /\ IF receipts[Id(e)] = None
     THEN receipts' = [receipts EXCEPT ![Id(e)] = Plan(e)] /\ Goto(e, "validate")
     ELSE Goto(e, "stopped") /\ UNCHANGED receipts
  /\ UNCHANGED <<main, git, reviews, job>>

FenceValidate(e) ==
  /\ Run(e, "orchestrated", "validate")
  /\ IF receipts[Id(e)] = Plan(e)
     THEN Goto(e, "check") /\ past' = past \cup {e}
     ELSE Goto(e, "stopped") /\ UNCHANGED past
  /\ UNCHANGED <<main, receipts, git, pulls, attempted, opened, job>>

GitCheck(e) ==
  /\ Run(e, "orchestrated", "check")
  /\ Goto(e, IF BackendFree(e) THEN "consume" ELSE "stopped")
  /\ UNCHANGED <<main, receipts, git, reviews, job>>

Consume(e) ==
  /\ Run(e, "orchestrated", "consume")
  /\ IF Plan(e) \in tokens
     THEN Goto(e, "stopped") /\ UNCHANGED tokens
     ELSE tokens' = tokens \cup {Plan(e)} /\ Goto(e, "blobs")
  /\ UNCHANGED <<main, receipts, blobs, trees, commits, branch, reviews, job>>
-----------------------------------------------------------------------------
(* GET of main and of its commit, then of the branch.                      *)
HttpMain(e) ==
  /\ Run(e, "http", "check")
  /\ Goto(e, IF main = 0 THEN "getbranch" ELSE "stopped")
  /\ UNCHANGED <<main, receipts, git, reviews, job>>

HttpBranch(e) ==
  /\ Run(e, "http", "getbranch")
  /\ Goto(e, IF branch[Branch(e)] = None THEN "blobs" ELSE "stopped")
  /\ UNCHANGED <<main, receipts, git, reviews, job>>

(* One file short of the candidate.                                        *)
CreateBlobTooFew(e) ==
  /\ pc[e] = "blobs"
  /\ \E f \in Files \ blobs[Plan(e)] :
       /\ blobs' = [blobs EXCEPT ![Plan(e)] = @ \cup {f}]
       /\ Goto(e, IF Cardinality(blobs[Plan(e)]) + 2 >= Cardinality(Files) THEN "tree" ELSE "blobs")
  /\ UNCHANGED <<main, receipts, tokens, trees, commits, branch, reviews, job>>

(* Blobs are content addressed: to create one that is there changes        *)
(* nothing.  They are created in the order of the paths.                   *)
CreateBlob(e) ==
  /\ pc[e] = "blobs"
  /\ \E f \in Files :
       /\ blobs[Plan(e)] # Files => f \notin blobs[Plan(e)]
       /\ blobs' = [blobs EXCEPT ![Plan(e)] = @ \cup {f}]
       /\ Goto(e, IF blobs[Plan(e)] \cup {f} = Files THEN "tree" ELSE "blobs")
  /\ UNCHANGED <<main, receipts, tokens, trees, commits, branch, reviews, job>>

CreateTree(e) ==
  /\ pc[e] = "tree"
  /\ trees' = trees \cup {Plan(e)}
  /\ Goto(e, "commit")
  /\ UNCHANGED <<main, receipts, tokens, blobs, commits, branch, reviews, job>>

CreateCommit(e) ==
  /\ pc[e] = "commit"
  /\ commits' = commits \cup {Own(e)}
  /\ Goto(e, "ref")
  /\ UNCHANGED <<main, receipts, tokens, blobs, trees, branch, reviews, job>>

(* The branch comes last and only if it is not there.  The HTTP executor   *)
(* may lose the answer, with the branch created or not.                    *)
CreateRef(e) ==
  /\ pc[e] = "ref"
  /\ LET free == branch[Branch(e)] = None
         made == [branch EXCEPT ![Branch(e)] = Own(e)]
     IN \/ free /\ branch' = made /\ Goto(e, "closing")
        \/ ~free /\ Goto(e, "stopped") /\ UNCHANGED branch
        \/ /\ job[e].kind = "http"
           /\ branch' = branch \/ (free /\ branch' = made)
           /\ Goto(e, "unsure")
  /\ UNCHANGED <<main, receipts, tokens, blobs, trees, commits, reviews, job>>

HttpResolve(e) ==
  /\ Run(e, "http", "unsure")
  /\ Goto(e, IF branch[Branch(e)] = Own(e) THEN "closing" ELSE "stopped")
  /\ UNCHANGED <<main, receipts, git, reviews, job>>

(* The orchestrated executor requires main unmoved after the branch is     *)
(* made; the HTTP executor only notes it in its result.                    *)
CloseTransaction(e) ==
  /\ pc[e] = "closing"
  /\ Goto(e, IF /\ branch[Branch(e)] = Own(e)
                /\ job[e].kind = "orchestrated" => main = 0
             THEN "passed" ELSE "stopped")
  /\ UNCHANGED <<main, receipts, git, reviews, job>>
-----------------------------------------------------------------------------
AdapterRead(e) ==
  /\ Run(e, "adapter", "absent")
  /\ Goto(e, IF receipts[Id(e)] = None THEN "create" ELSE "stopped")
  /\ UNCHANGED <<main, receipts, git, reviews, job>>

(* The create may stay unanswered, with the receipt made, refused or lost. *)
AdapterCreate(e) ==
  /\ Run(e, "adapter", "create")
  /\ LET free == receipts[Id(e)] = None
         made == [receipts EXCEPT ![Id(e)] = Plan(e)]
     IN \/ free /\ receipts' = made /\ Goto(e, "doubt")
        \/ ~free /\ Goto(e, "stopped") /\ UNCHANGED receipts
        \/ Goto(e, "doubt") /\ UNCHANGED receipts
  /\ UNCHANGED <<main, git, reviews, job>>

(* Any receipt read back taken for the one sent.                           *)
AdapterReadbackAny(e) ==
  /\ Run(e, "adapter", "doubt")
  /\ Goto(e, IF receipts[Id(e)] # None THEN "passed" ELSE "stopped")
  /\ UNCHANGED <<main, receipts, git, reviews, job>>

(* Readback of a created receipt and of an unanswered create alike: the    *)
(* receipt found must be the receipt sent.                                 *)
AdapterReadback(e) ==
  /\ Run(e, "adapter", "doubt")
  /\ Goto(e, IF receipts[Id(e)] = Plan(e) THEN "passed" ELSE "stopped")
  /\ UNCHANGED <<main, receipts, git, reviews, job>>
-----------------------------------------------------------------------------
FindPull(e) ==
  /\ pc[e] = "find"
  /\ LET tried == job[e].kind = "draft" /\ Id(e) \in attempted
     IN Goto(e, IF pulls[Branch(e)] = None /\ ~tried THEN "open" ELSE "stopped")
  /\ UNCHANGED <<main, receipts, git, reviews, job>>

OpenOn(b, i) == /\ pulls' = [pulls EXCEPT ![b] = i]
                /\ opened' = opened \cup {<<b, i>>}

(* GitHub keeps one open pull request for a branch.  The in-memory         *)
(* executor marks the receipt before it tries and reports BLOCKED when the *)
(* create fails; the HTTP executor may lose the answer.                    *)
CreatePull(e) ==
  /\ pc[e] = "open"
  /\ LET free == pulls[Branch(e)] = None IN
     \/ free /\ OpenOn(Branch(e), Id(e)) /\ Goto(e, "passed")
     \/ ~free /\ Goto(e, "stopped") /\ UNCHANGED <<pulls, opened>>
     \/ /\ job[e].kind = "drafthttp"
        /\ UNCHANGED <<pulls, opened>> \/ (free /\ OpenOn(Branch(e), Id(e)))
        /\ Goto(e, "wonder")
  /\ attempted' = IF job[e].kind = "draft" THEN attempted \cup {Id(e)} ELSE attempted
  /\ UNCHANGED <<main, receipts, git, past, job>>

(* Any pull request found on the branch taken for this one.                *)
ResolvePullAny(e) ==
  /\ Run(e, "drafthttp", "wonder")
  /\ Goto(e, IF pulls[Branch(e)] # None THEN "passed" ELSE "stopped")
  /\ UNCHANGED <<main, receipts, git, reviews, job>>

(* The one pull request found must carry this receipt in its body.         *)
ResolvePull(e) ==
  /\ Run(e, "drafthttp", "wonder")
  /\ Goto(e, IF pulls[Branch(e)] = Id(e) THEN "passed" ELSE "stopped")
  /\ UNCHANGED <<main, receipts, git, reviews, job>>

(* Someone opens a pull request on the branch by hand; it names no receipt.*)
OpenByHand(b) ==
  /\ branch[b] # None /\ pulls[b] = None
  /\ pulls' = [pulls EXCEPT ![b] = "byhand"]
  /\ UNCHANGED <<main, receipts, git, past, attempted, opened, pc, job>>

Close(b) ==
  /\ pulls[b] # None
  /\ pulls' = [pulls EXCEPT ![b] = None]
  /\ UNCHANGED <<main, receipts, git, past, attempted, opened, pc, job>>
-----------------------------------------------------------------------------
(* Any call may fail and any process may die.                              *)
Stop(e) ==
  /\ pc[e] \notin {"idle", "passed", "stopped"}
  /\ Goto(e, "stopped")
  /\ UNCHANGED <<main, receipts, git, reviews, job>>

Restart ==
  /\ tokens # {} \/ attempted # {}
  /\ \A e \in Executors : pc[e] \in {"idle", "passed", "stopped"}
  /\ tokens' = {} /\ attempted' = {}
  /\ UNCHANGED <<main, receipts, blobs, trees, commits, branch, past, pulls, opened, pc, job>>

AdvanceMain ==
  /\ main < MaxMain
  /\ main' = main + 1
  /\ UNCHANGED <<receipts, git, reviews, pc, job>>

Step(e) == \/ Start(e) \/ PreflightReceipt(e) \/ PreflightBackend(e) \/ FenceRead(e)
           \/ FenceWrite(e) \/ FenceValidate(e) \/ GitCheck(e) \/ Consume(e)
           \/ HttpMain(e) \/ HttpBranch(e) \/ CreateBlob(e) \/ CreateTree(e)
           \/ CreateCommit(e) \/ CreateRef(e) \/ HttpResolve(e) \/ CloseTransaction(e)
           \/ AdapterRead(e) \/ AdapterCreate(e) \/ AdapterReadback(e)
           \/ FindPull(e) \/ CreatePull(e) \/ ResolvePull(e) \/ Stop(e)

Next == \/ \E e \in Executors : Step(e)
        \/ \E b \in Branches : OpenByHand(b) \/ Close(b)
        \/ Restart \/ AdvanceMain

Spec == Init /\ [][Next]_vars
-----------------------------------------------------------------------------
(* Before an orchestrated executor touches Git its receipt is durable, and *)
(* no second executor, concurrent or restarted, gets that far on the same  *)
(* execution id, even when the memory of the backend is gone.              *)
FencedOnce ==
  /\ \A e \in past : receipts[Id(e)] = Plan(e)
  /\ \A e, f \in past : Id(e) = Id(f) => e = f

(* An activation branch never names half a transaction: its commit, its    *)
(* tree and every blob are in the repository, for whoever made it and      *)
(* whatever died on the way.                                               *)
BranchWhole ==
  \A b \in Branches : branch[b] # None =>
    /\ branch[b] \in commits
    /\ branch[b].plan \in trees
    /\ blobs[branch[b].plan] = Files
    /\ BranchOf[branch[b].plan] = b

(* What reports PASS has happened: the branch names the executor's own     *)
(* commit, the receipt under its id is for its plan, and a pull request    *)
(* that names its receipt was opened, also after an unanswered create.     *)
PassIsTrue ==
  \A e \in Executors : pc[e] = "passed" =>
    CASE job[e].kind \in {"orchestrated", "http"} -> branch[Branch(e)] = Own(e)
      [] job[e].kind = "adapter" -> receipts[Id(e)] = Plan(e)
      [] OTHER -> <<Branch(e), Id(e)>> \in opened

(* One execution id takes one executor to Git, and behind its receipt; no  *)
(* activation branch is without its commit, tree and files; and what       *)
(* reports PASS has happened.                                              *)
TransactionSound == FencedOnce /\ BranchWhole /\ PassIsTrue
=============================================================================
