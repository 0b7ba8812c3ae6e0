------------------------ MODULE ActivationExecution -------------------------
(***************************************************************************)
(* From the transaction plan to the production acceptance: the Git         *)
(* rehearsal and its authorization, the qualification of the Cloudflare    *)
(* store that keeps the execution's receipt, the last readiness, the       *)
(* execution, the draft pull request, the merge and what is verified after *)
(* it.  Whether an execution dies half way is another module's question    *)
(* (ActivationTransaction); here it happens or it does not.                *)
(***************************************************************************)
EXTENDS ActivationReview

ExecutionLine == <<"rehearsal", "gitAuth", "cfAuth", "marker", "cfEvidence", "cfAccepted", "storeReady",
                   "httpRehearsal", "finalReady", "evidence", "executionReview", "pullAccepted", "merge",
                   "verified", "complete">>

Line == ReviewLine \o ExecutionLine

Place(kind) == CHOOSE i \in 1 .. Len(Line) : Line[i] = kind

At(kind) == at = Place(kind)

vars == <<main, desk, at, rounds>>

Init == /\ main = 0
        /\ desk = [kind \in {Line[i] : i \in 1 .. Len(Line)} |-> None]
        /\ at = 1
        /\ rounds = 0
-----------------------------------------------------------------------------
(* The rehearsal runs on a synthetic repository whose main the caller sets.*)
Rehearse ==
  \E m \in Seen :
    /\ desk["plan"].main = m
    /\ Issue("rehearsal", [plan |-> desk["plan"], main |-> m, manifest |-> desk["plan"].manifest])

GitAuth ==
  \E m \in Seen :
    LET plan == desk["plan"]  rehearsal == desk["rehearsal"] IN
    /\ plan.main = m
    /\ rehearsal.plan = plan /\ rehearsal.main = m /\ rehearsal.manifest = plan.manifest
    /\ Issue("gitAuth", [main |-> m, plan |-> plan, manifest |-> plan.manifest])

(* The qualification of the store is authorized for one commit.  What it   *)
(* rests on, the candidate, scaffold, reviews and plan, names none.        *)
CloudflareAuth == \E m \in Seen : Issue("cfAuth", [main |-> m])

(* The marker's authorization and the marker are for that commit.          *)
Marker ==
  \E m \in Seen :
    /\ desk["cfAuth"].main = m
    /\ Issue("marker", [target |-> m, auth |-> desk["cfAuth"]])

(* The evidence package is for the commit its marker targets.              *)
CloudflareEvidence ==
  \E m \in Seen :
    /\ desk["marker"].target = m
    /\ Issue("cfEvidence", [main |-> m, marker |-> desk["marker"]])

CloudflareAccept ==
  \E m \in Seen :
    /\ desk["cfEvidence"].main = m
    /\ Issue("cfAccepted", [main |-> m, evidence |-> desk["cfEvidence"]])

(* A readiness that takes a store accepted for any commit.                 *)
StoreReadyAnyStore ==
  \E m \in Seen :
    /\ desk["gitAuth"].main = m
    /\ Issue("storeReady", [main |-> m, store |-> desk["cfAccepted"].main])

StoreReady ==
  \E m \in Seen :
    /\ desk["cfAccepted"].main = m
    /\ desk["gitAuth"].main = m
    /\ Issue("storeReady", [main |-> m, store |-> desk["cfAccepted"].main])

(* The HTTP rehearsal, on a synthetic API whose main the caller sets.      *)
HttpRehearse ==
  \E m \in Seen :
    /\ desk["plan"].main = m
    /\ Issue("httpRehearsal", [main |-> m, plan |-> desk["plan"], manifest |-> desk["plan"].manifest])

FinalReady ==
  \E m \in Seen :
    LET auth == desk["gitAuth"]  http == desk["httpRehearsal"] IN
    /\ desk["storeReady"].main = m
    /\ auth.main = m
    /\ http.main = m /\ http.plan = auth.plan /\ http.manifest = auth.manifest
    /\ Issue("finalReady", [main |-> m, plan |-> auth.plan, manifest |-> auth.manifest])
-----------------------------------------------------------------------------
(* Store readiness, authorization and plan agree on commit and candidate,  *)
(* and the repository is still there; the branch grows from that commit.   *)
Agreed(ready, auth, plan) ==
  /\ auth.main = ready.main
  /\ auth.plan = plan /\ plan.main = ready.main
  /\ auth.manifest = plan.manifest

(* The execution, on a repository whose main has moved.                    *)
ExecuteOnAnyMain ==
  /\ Agreed(desk["storeReady"], desk["gitAuth"], desk["plan"])
  /\ Issue("evidence", [before |-> main, after |-> main, parent |-> desk["plan"].main,
                        plan |-> desk["plan"], ready |-> desk["storeReady"]])

Execute ==
  /\ Agreed(desk["storeReady"], desk["gitAuth"], desk["plan"])
  /\ main = desk["plan"].main
  /\ Issue("evidence", [before |-> main, after |-> main, parent |-> desk["plan"].main,
                        plan |-> desk["plan"], ready |-> desk["storeReady"]])

ReviewExecution ==
  \E m \in Seen :
    LET evidence == desk["evidence"] IN
    /\ evidence.before = m /\ evidence.after = m /\ evidence.parent = m
    /\ evidence.plan = desk["plan"]
    /\ Issue("executionReview", [before |-> m, commit |-> evidence])

(* Draft pull request, review, authorization, transport and executor: each *)
(* names the branch and the receipt of the execution; it is accepted while *)
(* main stands where it stood before the execution.                        *)
PullAccept ==
  \E seen \in Seen :
    /\ seen = desk["executionReview"].before
    /\ seen = main
    /\ Issue("pullAccepted", [review |-> desk["executionReview"], commit |-> desk["executionReview"].commit])

(* The control centre merges, onto whatever main is by then.               *)
Merge ==
  /\ main < MaxMain
  /\ main' = main + 1
  /\ desk' = [desk EXCEPT !["merge"] = [onto |-> main, commit |-> desk["pullAccepted"].commit]]
  /\ at' = at + 1
  /\ UNCHANGED rounds

(* Merged commit, registries and the two scheduled runs, the 12:00 run on  *)
(* the 09:30 run's state.                                                  *)
ScheduledRun(run, cadence) == run.cadence = cadence

Verify ==
  \E pre \in Seen, states \in [Cadences -> [cadence : Cadences, state : {1, 2}, previous : {0, 1}]] :
    /\ desk["merge"].onto = pre
    /\ \A c \in Cadences : ScheduledRun(states[c], c)
    /\ states["1200"].previous = states["0930"].state
    /\ Issue("verified", [merge |-> desk["merge"]])

(* CER-081 takes the verification with the four summaries of the soak.     *)
Complete == Issue("complete", [verified |-> desk["verified"]])
-----------------------------------------------------------------------------
Review == \/ At("authority") /\ Authority
          \/ At("liveReady") /\ LiveReady
          \/ At("liveAuth") /\ LiveAuth
          \/ At("liveRun") /\ LiveRun
          \/ At("review") /\ LiveReview
          \/ At("accepted") /\ Accept
          \/ At("ready") /\ Ready
          \/ At("delta") /\ Delta
          \/ At("synthetic") /\ Synthetic
          \/ At("bound") /\ Bind
          \/ At("applyReady") /\ ApplyReady
          \/ At("applyAuth") /\ ApplyAuth
          \/ At("plan") /\ Plan

Execution == \/ At("rehearsal") /\ Rehearse
             \/ At("gitAuth") /\ GitAuth
             \/ At("cfAuth") /\ CloudflareAuth
             \/ At("marker") /\ Marker
             \/ At("cfEvidence") /\ CloudflareEvidence
             \/ At("cfAccepted") /\ CloudflareAccept
             \/ At("storeReady") /\ StoreReady
             \/ At("httpRehearsal") /\ HttpRehearse
             \/ At("finalReady") /\ FinalReady
             \/ At("evidence") /\ Execute
             \/ At("executionReview") /\ ReviewExecution
             \/ At("pullAccepted") /\ PullAccept
             \/ At("merge") /\ Merge
             \/ At("verified") /\ Verify
             \/ At("complete") /\ Complete

(* An older document of a gate is taken instead of a new one.              *)
Keep ==
  /\ at < Place("evidence")
  /\ desk[Line[at]] # None
  /\ at' = at + 1
  /\ UNCHANGED <<main, desk, rounds>>

(* The gates are gone through again, until there is evidence of an         *)
(* execution; which of them issue anew is open.                            *)
Redo ==
  /\ rounds < MaxRounds
  /\ Place("accepted") < at /\ at <= Place("evidence")
  /\ at' = Place("accepted")
  /\ rounds' = rounds + 1
  /\ UNCHANGED <<main, desk>>

(* Others push to main.                                                    *)
Push == /\ main < MaxMain
        /\ main' = main + 1
        /\ UNCHANGED <<desk, at, rounds>>

Next == Review \/ Execution \/ Keep \/ Redo \/ Push

Spec == Init /\ [][Next]_vars
-----------------------------------------------------------------------------
Executed == desk["evidence"] # None

(* What is executed was made for one commit all through: provider          *)
(* acceptance, delta plan, synthetic review, transaction plan, accepted    *)
(* store and branch, and the candidate was rendered over its files, from   *)
(* the license the live evidence was bound with.                           *)
OneGeneration ==
  Executed =>
    LET evidence == desk["evidence"]
        m == evidence.before
        ready == evidence.plan.auth.ready
    IN /\ evidence.plan.main = m /\ evidence.parent = m
       /\ ready.main = m /\ ready.plan.main = m /\ ready.synthetic.main = m
       /\ ready.plan.accepted = m
       /\ evidence.ready.store = m
       /\ evidence.plan.manifest.over = FilesOf(m)
       /\ ready.plan.license = ready.bound.license
=============================================================================
