------------------------- MODULE ConsumptionMarker -------------------------
(***************************************************************************)
(* The single-use fence in front of a provider: an executor that holds a   *)
(* reviewed authorization creates one Git ref named after it, reads it     *)
(* back, and only then uses the provider's credential.  Two executors are  *)
(* modelled over one GitHub:                                               *)
(*   Fugle       persist_consumption_marker behind                         *)
(*               execute_authorized_fugle_single_live,                     *)
(*   Cloudflare  qualify_marker_adapter behind execute_marker, and the     *)
(*               orchestrator that takes its result.                       *)
(* A marker carries the authorization and its main commit and no identity  *)
(* of the executor; an authorization names one main commit, so the         *)
(* comparisons of a marker's target always agree and are left out.         *)
(***************************************************************************)
EXTENDS Naturals, FiniteSets

CONSTANTS Executors,      \* processes; a crash ends one, a restart is another
          Authorizations, \* reviewed single-use authorizations
          Fugle,          \* the executors that run the Fugle path
          MaxLost,        \* bound: answers of GitHub that get lost
          MaxRuns,        \* bound: orchestrator calls on one marker result
          None

ASSUME MarkerConstants == /\ Fugle \subseteq Executors
                          /\ MaxLost \in Nat
                          /\ MaxRuns \in Nat \ {0}
                          /\ None \notin Executors \cup Authorizations \cup {"created", "exists"}

VARIABLES pc,       \* where an executor is
          auth,     \* the authorization it was started with
          marker,   \* who created an authorization's ref on GitHub
          inflight, \* executors whose POST GitHub has yet to handle
          answer,   \* GitHub's answer to the POST of an executor
          runs,     \* how often an executor has used the provider
          late,     \* it was started after the marker existed
          lost      \* executors whose POST got no answer

vars == <<pc, auth, marker, inflight, answer, runs, late, lost>>

Phases == {"idle", "preflight", "post", "sent", "unsure", "readback", "fenced", "stopped"}

TypeOK == /\ pc \in [Executors -> Phases]
          /\ auth \in [Executors -> Authorizations \cup {None}]
          /\ marker \in [Authorizations -> Executors \cup {None}]
          /\ inflight \subseteq Executors
          /\ answer \in [Executors -> {None, "created", "exists"}]
          /\ runs \in [Executors -> 0..MaxRuns]
          /\ late \in [Executors -> BOOLEAN]
          /\ lost \subseteq Executors

Init == /\ pc = [e \in Executors |-> "idle"]
        /\ auth = [e \in Executors |-> None]
        /\ marker = [a \in Authorizations |-> None]
        /\ inflight = {}
        /\ answer = [e \in Executors |-> None]
        /\ runs = [e \in Executors |-> 0]
        /\ late = [e \in Executors |-> FALSE]
        /\ lost = {}

Goto(e, phase) == pc' = [pc EXCEPT ![e] = phase]

MarkerExists(e) == marker[auth[e]] # None

Start(e) ==
  /\ pc[e] = "idle"
  /\ \E a \in Authorizations :
       /\ auth' = [auth EXCEPT ![e] = a]
       /\ late' = [late EXCEPT ![e] = marker[a] # None]
  /\ Goto(e, "preflight")
  /\ UNCHANGED <<marker, inflight, answer, runs, lost>>

(* An executor starts on a review that says PASS, single_use and           *)
(* execution_consumed = FALSE: the review never changes, so every executor *)
(* that is given it passes these checks.                                   *)
BeginFugle(e) == e \in Fugle /\ Start(e)

(* Likewise marker_creation_consumed = FALSE; the ref of the Cloudflare    *)
(* marker is named after the authorization the qualification was for.      *)
BeginCloudflare(e) == e \notin Fugle /\ Start(e)

(* A preflight that trusts the review's execution_consumed = FALSE.        *)
PreflightTrusting(e) ==
  /\ pc[e] = "preflight"
  /\ Goto(e, "post")
  /\ UNCHANGED <<auth, marker, inflight, answer, runs, late, lost>>

(* GET of the exact ref: 200 is ALREADY_CONSUMED, 404 goes on.             *)
Preflight(e) ==
  /\ pc[e] = "preflight"
  /\ Goto(e, IF MarkerExists(e) THEN "stopped" ELSE "post")
  /\ UNCHANGED <<auth, marker, inflight, answer, runs, late, lost>>

CreateMarker(e) ==
  /\ pc[e] = "post"
  /\ inflight' = inflight \cup {e}
  /\ Goto(e, "sent")
  /\ UNCHANGED <<auth, marker, answer, runs, late, lost>>

(* GitHub creates a ref once and answers a second create with 422.  It     *)
(* may handle a request whose sender no longer waits.                      *)
Handle(e) ==
  /\ e \in inflight
  /\ inflight' = inflight \ {e}
  /\ IF MarkerExists(e)
     THEN /\ answer' = [answer EXCEPT ![e] = "exists"]
          /\ UNCHANGED marker
     ELSE /\ answer' = [answer EXCEPT ![e] = "created"]
          /\ marker' = [marker EXCEPT ![auth[e]] = e]
  /\ UNCHANGED <<pc, auth, runs, late, lost>>

(* An adapter that takes every refusal for an ambiguous create.           *)
AfterRefusalUnsure(e) == "unsure"

(* The Fugle adapter catches every error of its transport, and the         *)
(* transport raises that error for each status other than 201: a definite  *)
(* 422 is taken for an ambiguous create.  The Cloudflare adapter catches   *)
(* only an ambiguous create and refuses the 422.                           *)
AfterRefusal(e) == IF e \in Fugle THEN "unsure" ELSE "stopped"

Receive(e) ==
  /\ pc[e] = "sent"
  /\ \/ answer[e] = "created" /\ Goto(e, "readback")
     \/ answer[e] = "exists"  /\ Goto(e, AfterRefusal(e))
  /\ UNCHANGED <<auth, marker, inflight, answer, runs, late, lost>>

(* The answer is lost, or the sender's timeout ends before GitHub is done. *)
LoseAnswer(e) ==
  /\ pc[e] = "sent"
  /\ Cardinality(lost) < MaxLost
  /\ lost' = lost \cup {e}
  /\ Goto(e, "unsure")
  /\ UNCHANGED <<auth, marker, inflight, answer, runs, late>>

(* The request itself is lost on its way.                                  *)
Drop(e) ==
  /\ e \in inflight
  /\ e \in lost
  /\ inflight' = inflight \ {e}
  /\ UNCHANGED <<pc, auth, marker, answer, runs, late, lost>>

(* An ambiguous create taken for a success without the readback.           *)
ResolveHopeful(e) ==
  /\ pc[e] = "unsure"
  /\ Goto(e, "fenced")
  /\ UNCHANGED <<auth, marker, inflight, answer, runs, late, lost>>

(* The create is never retried: one GET decides, and a marker found there  *)
(* counts as this executor's own.                                          *)
ResolveByReadback(e) ==
  /\ pc[e] = "unsure"
  /\ Goto(e, IF MarkerExists(e) THEN "fenced" ELSE "stopped")
  /\ UNCHANGED <<auth, marker, inflight, answer, runs, late, lost>>

Readback(e) ==
  /\ pc[e] = "readback"
  /\ Goto(e, IF MarkerExists(e) THEN "fenced" ELSE "stopped")
  /\ UNCHANGED <<auth, marker, inflight, answer, runs, late, lost>>

UseProvider(e, most) ==
  /\ pc[e] = "fenced"
  /\ runs[e] < most
  /\ runs' = [runs EXCEPT ![e] = @ + 1]
  /\ UNCHANGED <<pc, auth, marker, inflight, answer, late, lost>>

(* The credential is read and the 30 requests go out in the same call.     *)
UseFugle(e) == e \in Fugle /\ UseProvider(e, 1)

(* 17 requests go out from an orchestrator that is handed the marker       *)
(* result and consumes nothing, so it may be called on it again.           *)
UseCloudflare(e) == e \notin Fugle /\ UseProvider(e, MaxRuns)

Crash(e) ==
  /\ pc[e] \notin {"idle", "stopped"}
  /\ Goto(e, "stopped")
  /\ UNCHANGED <<auth, marker, inflight, answer, runs, late, lost>>

Step(e) == \/ BeginFugle(e) \/ BeginCloudflare(e) \/ Preflight(e) \/ CreateMarker(e) \/ Handle(e) \/ Receive(e)
           \/ LoseAnswer(e) \/ Drop(e) \/ ResolveByReadback(e) \/ Readback(e)
           \/ UseFugle(e) \/ UseCloudflare(e) \/ Crash(e)

Next == \E e \in Executors : Step(e)

Spec == Init /\ [][Next]_vars
-----------------------------------------------------------------------------
(* The provider is used only behind a marker that is on GitHub, whatever   *)
(* request or answer was lost: an ambiguous create counts when the ref is  *)
(* read back, never before.                                                *)
SpendsBehindMarker == \A e \in Executors : runs[e] > 0 => MarkerExists(e)

(* Once the marker exists no executor started afterwards uses the provider *)
(* on that authorization, the restart of one that died included.           *)
ConsumedStaysConsumed == \A e \in Executors : late[e] => runs[e] = 0

(* A Cloudflare executor that goes on without having created the marker    *)
(* never got an answer to its create: a definite refusal stops it.         *)
OnlyUnansweredRide ==
  \A e \in Executors \ Fugle :
    runs[e] > 0 => marker[auth[e]] = e \/ e \in lost

(* What the fence before a provider must hold, all three.                  *)
MarkerFences == SpendsBehindMarker /\ ConsumedStaysConsumed /\ OnlyUnansweredRide

(* "A pre-existing marker means the single-use authorization is consumed": *)
(* no two executors use the provider on one authorization.                 *)
SingleUse ==
  \A e, f \in Executors :
    runs[e] > 0 /\ runs[f] > 0 /\ auth[e] = auth[f] => e = f
=============================================================================
