------------------------- MODULE MCActivation_proofs -------------------------
(***************************************************************************)
(* Proofs about the parts of MCActivation.                                 *)
(*                                                                         *)
(* The fence of ConsumptionMarker, for any executors, authorizations and   *)
(* bounds: that the provider is used behind a marker only rests on what an *)
(* executor learned on its way to the fence: an answer "created" means     *)
(* that the ref is its own, a Cloudflare executor in doubt has lost its    *)
(* answer, and one that was started late found the marker and can but      *)
(* stop.  FenceInv keeps these facts while other executors, their requests *)
(* still on the way included, go on.                                       *)
(*                                                                         *)
(* What ActivationTransaction_proofs proves carries over to the behaviours *)
(* that MCActivation runs.                                                 *)
(*                                                                         *)
(* The qualification of the receipt store, call by call.                   *)
(***************************************************************************)
EXTENDS MCActivation, Sequences, TLAPS

(* An executor that was started holds an authorization; one that was not   *)
(* has sent nothing and used nothing; a request is answered once.          *)
Started ==
  \A e \in Executors :
    /\ e \in inflight => answer[e] = None
    /\ pc[e] # "idle" => auth[e] \in Authorizations
    /\ pc[e] \in {"idle", "preflight", "post"} => answer[e] = None /\ e \notin inflight
    /\ pc[e] = "idle" => runs[e] = 0 /\ late[e] = FALSE

(* An answer "created" is about a ref that still is the executor's own.    *)
CreatedIsOwn ==
  \A e \in Executors :
    /\ answer[e] = "created" => marker[auth[e]] = e
    /\ pc[e] = "readback" => answer[e] = "created"

(* A Cloudflare executor is in doubt only when it lost its answer.         *)
DoubtIsLoss == \A e \in Executors \ Fugle : pc[e] = "unsure" => e \in lost

(* Past the fence, now or before it stopped.                               *)
Fenced(e) == pc[e] = "fenced" \/ runs[e] > 0

FencedBehindMarker ==
  \A e \in Executors : Fenced(e) =>
    /\ marker[auth[e]] # None
    /\ e \notin Fugle => marker[auth[e]] = e \/ e \in lost

(* One that was started late finds the marker and stops.                   *)
LateStops ==
  \A e \in Executors : late[e] =>
    /\ marker[auth[e]] # None
    /\ pc[e] \in {"preflight", "stopped"} /\ runs[e] = 0

FenceInv ==
  /\ TypeOK /\ Started /\ CreatedIsOwn /\ DoubtIsLoss /\ FencedBehindMarker /\ LateStops

-----------------------------------------------------------------------------
LEMMA FenceInit == Init => FenceInv
  BY MarkerConstants
     DEF Init, FenceInv, TypeOK, Phases, Started, CreatedIsOwn, DoubtIsLoss,
         FencedBehindMarker, Fenced, LateStops

(* A step that only moves one executor to another place, and its effects   *)
(* on the facts that mention places.                                       *)
LEMMA MoveStep ==
  ASSUME FenceInv, NEW e \in Executors, NEW phase \in Phases,
         Goto(e, phase), UNCHANGED << auth, marker, inflight, answer, runs, late, lost >>,
         pc[e] # "idle", phase \notin {"idle", "preflight"},
         phase = "post" => pc[e] = "preflight",
         phase = "readback" => answer[e] = "created",
         phase = "unsure" /\ e \notin Fugle => e \in lost,
         phase = "fenced" => /\ marker[auth[e]] # None
                             /\ e \notin Fugle => marker[auth[e]] = e \/ e \in lost,
         late[e] => phase = "stopped"
  PROVE  FenceInv'
<1> USE DEF FenceInv, Goto
<1>1. TypeOK'
  BY DEF TypeOK
<1>2. \A f \in Executors : pc'[f] = IF f = e THEN phase ELSE pc[f]
  BY DEF TypeOK
<1>3. Started'
  BY <1>2 DEF Started
<1>4. CreatedIsOwn' /\ DoubtIsLoss' /\ LateStops'
  BY <1>2 DEF CreatedIsOwn, DoubtIsLoss, LateStops
<1>5. FencedBehindMarker'
  BY <1>2 DEF FencedBehindMarker, Fenced
<1>6. QED
  BY <1>1, <1>3, <1>4, <1>5

LEMMA StartStep ==
  ASSUME FenceInv, NEW e \in Executors, Start(e)
  PROVE  FenceInv'
<1> USE DEF FenceInv, Start, Goto
<1>1. TypeOK'
  BY DEF TypeOK, Phases
<1>2. /\ pc[e] = "idle" /\ pc'[e] = "preflight"
      /\ auth'[e] \in Authorizations
      /\ late'[e] = (marker[auth'[e]] # None)
      /\ \A f \in Executors \ {e} : pc'[f] = pc[f] /\ auth'[f] = auth[f] /\ late'[f] = late[f]
      /\ UNCHANGED << marker, inflight, answer, runs, lost >>
  BY DEF TypeOK
<1>3. answer[e] = None /\ e \notin inflight /\ runs[e] = 0
  BY <1>2 DEF Started
<1>4. Started'
  BY <1>2, <1>3 DEF Started
<1>5. CreatedIsOwn'
  BY <1>2, <1>3, MarkerConstants DEF CreatedIsOwn
<1>6. DoubtIsLoss' /\ LateStops'
  BY <1>2, <1>3 DEF DoubtIsLoss, LateStops, TypeOK
<1>7. FencedBehindMarker'
  BY <1>2, <1>3 DEF FencedBehindMarker, Fenced
<1>8. QED
  BY <1>1, <1>4, <1>5, <1>6, <1>7

(* GitHub answers: no ref that exists changes hands.                       *)
LEMMA HandleStep ==
  ASSUME FenceInv, NEW e \in Executors, Handle(e)
  PROVE  FenceInv'
<1> USE DEF FenceInv, Handle, MarkerExists
<1>1. e \in inflight /\ pc[e] \notin {"idle", "preflight", "post"} /\ auth[e] \in Authorizations
  BY DEF Started, TypeOK, Phases
<1>2. /\ \A a \in Authorizations : marker[a] # None => marker'[a] = marker[a]
      /\ answer'[e] = "created" => marker'[auth[e]] = e
      /\ \A f \in Executors \ {e} : answer'[f] = answer[f]
      /\ UNCHANGED << pc, auth, runs, late, lost >>
  BY <1>1 DEF TypeOK
<1>3. TypeOK'
  BY <1>1 DEF TypeOK
<1>4. Started'
  BY <1>1, <1>2 DEF Started, TypeOK
<1>5. CreatedIsOwn'
  <2> SUFFICES ASSUME NEW f \in Executors
               PROVE  /\ answer'[f] = "created" => marker'[auth[f]] = f
                      /\ pc[f] = "readback" => answer'[f] = "created"
    BY <1>2 DEF CreatedIsOwn
  <2>1. CASE f = e
    <3>1. answer[e] = None
      BY <1>1 DEF Started
    <3>2. QED
      BY <1>1, <1>2, <2>1, <3>1, MarkerConstants DEF CreatedIsOwn
  <2>2. CASE f # e
    <3>1. answer[f] = "created" => marker[auth[f]] = f /\ auth[f] \in Authorizations
      BY MarkerConstants DEF CreatedIsOwn, Started, TypeOK
    <3>2. QED
      BY <1>2, <2>2, <3>1, MarkerConstants DEF CreatedIsOwn
  <2>3. QED
    BY <2>1, <2>2
<1>6. \A f \in Executors : (Fenced(f) \/ late[f]) => auth[f] \in Authorizations
  BY DEF Started, Fenced, TypeOK
<1>7. FencedBehindMarker' /\ LateStops' /\ DoubtIsLoss'
  BY <1>2, <1>6, MarkerConstants DEF FencedBehindMarker, Fenced, LateStops, DoubtIsLoss
<1>8. QED
  BY <1>3, <1>4, <1>5, <1>7

(* The steps that change neither a marker nor an authorization.            *)
LEMMA OtherStep ==
  ASSUME FenceInv, NEW e \in Executors,
         CreateMarker(e) \/ LoseAnswer(e) \/ Drop(e) \/ UseFugle(e) \/ UseCloudflare(e)
  PROVE  FenceInv'
<1> USE DEF FenceInv
<1>1. ASSUME CreateMarker(e) PROVE FenceInv'
  <2> USE <1>1 DEF CreateMarker, Goto
  <2>1. TypeOK'
    BY DEF TypeOK, Phases
  <2>2. Started' /\ CreatedIsOwn' /\ DoubtIsLoss'
    BY DEF Started, CreatedIsOwn, DoubtIsLoss, TypeOK
  <2>3. FencedBehindMarker' /\ LateStops'
    BY DEF FencedBehindMarker, Fenced, LateStops, TypeOK
  <2>4. QED
    BY <2>1, <2>2, <2>3
<1>2. ASSUME LoseAnswer(e) PROVE FenceInv'
  <2> USE <1>2 DEF LoseAnswer, Goto
  <2>1. TypeOK'
    BY DEF TypeOK, Phases
  <2>2. Started' /\ CreatedIsOwn' /\ DoubtIsLoss'
    BY DEF Started, CreatedIsOwn, DoubtIsLoss, TypeOK
  <2>3. FencedBehindMarker' /\ LateStops'
    BY DEF FencedBehindMarker, Fenced, LateStops, TypeOK
  <2>4. QED
    BY <2>1, <2>2, <2>3
<1>3. ASSUME Drop(e) PROVE FenceInv'
  <2> USE <1>3 DEF Drop
  <2>1. TypeOK'
    BY DEF TypeOK
  <2>2. Started' /\ CreatedIsOwn' /\ DoubtIsLoss' /\ FencedBehindMarker' /\ LateStops'
    BY DEF Started, CreatedIsOwn, DoubtIsLoss, FencedBehindMarker, Fenced, LateStops
  <2>3. QED
    BY <2>1, <2>2
<1>4. ASSUME UseFugle(e) \/ UseCloudflare(e) PROVE FenceInv'
  <2>1. PICK most \in 1 .. MaxRuns : UseProvider(e, most)
    BY <1>4, MarkerConstants DEF UseFugle, UseCloudflare
  <2> USE <2>1 DEF UseProvider
  <2>2. /\ pc[e] = "fenced" /\ runs[e] \in Nat /\ runs[e] + 1 \in 1 .. MaxRuns
        /\ \A f \in Executors : runs'[f] = IF f = e THEN runs[e] + 1 ELSE runs[f]
    BY MarkerConstants DEF TypeOK
  <2>3. TypeOK'
    BY <2>2, MarkerConstants DEF TypeOK
  <2>4. Started' /\ CreatedIsOwn' /\ DoubtIsLoss'
    BY <2>2 DEF Started, CreatedIsOwn, DoubtIsLoss
  <2>5. FencedBehindMarker' /\ LateStops'
    BY <2>2 DEF FencedBehindMarker, Fenced, LateStops
  <2>6. QED
    BY <2>3, <2>4, <2>5
<1>5. QED
  BY <1>1, <1>2, <1>3, <1>4

(* The fence's invariant is inductive.                                     *)
LEMMA FenceStep == FenceInv /\ [Next]_vars => FenceInv'
<1> SUFFICES ASSUME FenceInv, [Next]_vars
             PROVE  FenceInv'
  OBVIOUS
<1> USE DEF FenceInv
<1>1. CASE UNCHANGED vars
  BY <1>1 DEF vars, TypeOK, Started, CreatedIsOwn, DoubtIsLoss, FencedBehindMarker, Fenced, LateStops
<1>2. ASSUME NEW e \in Executors, Step(e)
      PROVE  FenceInv'
  <2>1. CASE BeginFugle(e) \/ BeginCloudflare(e)
    BY <2>1, StartStep DEF BeginFugle, BeginCloudflare
  <2>2. CASE Handle(e)
    BY <2>2, HandleStep
  <2>3. CASE CreateMarker(e) \/ LoseAnswer(e) \/ Drop(e) \/ UseFugle(e) \/ UseCloudflare(e)
    BY <2>3, OtherStep
  <2>4. CASE Preflight(e)
    <3>1. late[e] => MarkerExists(e)
      BY DEF LateStops, MarkerExists
    <3>2. PICK phase \in {"stopped", "post"} :
            Goto(e, phase) /\ (late[e] => phase = "stopped")
      BY <2>4, <3>1 DEF Preflight
    <3>3. QED
      BY <2>4, <3>2, MoveStep DEF Preflight, Phases
  <2>5. CASE Receive(e)
    <3>1. PICK phase \in {"readback", "unsure", "stopped"} :
            /\ Goto(e, phase)
            /\ phase = "readback" => answer[e] = "created"
            /\ phase = "unsure" => e \in Fugle
      BY <2>5 DEF Receive, AfterRefusal
    <3>2. pc[e] = "sent" /\ ~late[e]
      BY <2>5 DEF Receive, LateStops
    <3>3. QED
      BY <2>5, <3>1, <3>2, MoveStep DEF Receive, Phases
  <2>6. CASE ResolveByReadback(e) \/ Readback(e)
    <3>1. PICK phase \in {"fenced", "stopped"} :
            Goto(e, phase) /\ (phase = "fenced" => MarkerExists(e))
      BY <2>6 DEF ResolveByReadback, Readback
    <3>2. pc[e] \in {"unsure", "readback"} /\ ~late[e]
      BY <2>6 DEF ResolveByReadback, Readback, LateStops
    <3>3. e \notin Fugle => marker[auth[e]] = e \/ e \in lost
      BY <3>2 DEF DoubtIsLoss, CreatedIsOwn
    <3>4. QED
      BY <2>6, <3>1, <3>2, <3>3, MoveStep DEF ResolveByReadback, Readback, MarkerExists, Phases
  <2>7. CASE Crash(e)
    BY <2>7, MoveStep DEF Crash, Phases
  <2>8. QED
    BY <1>2, <2>1, <2>2, <2>3, <2>4, <2>5, <2>6, <2>7 DEF Step
<1>3. QED
  BY <1>1, <1>2 DEF Next

-----------------------------------------------------------------------------
(* Executors keep to their places, and every fact about the way to the     *)
(* fence stays true: the inductive invariant of the single-use fence.      *)
THEOREM FenceInvariant == Spec => []FenceInv
  BY FenceInit, FenceStep, PTL DEF Spec

(* A provider is used only behind a marker on GitHub, never by one that    *)
(* was started after the marker existed, and by a Cloudflare executor that *)
(* did not create it only when its own create was never answered: the      *)
(* fence of persist_consumption_marker and qualify_marker_adapter, for any *)
(* executors and authorizations.                                           *)
THEOREM ProviderFenced == Spec => []MarkerFences
<1>1. FenceInv => MarkerFences
  BY DEF FenceInv, FencedBehindMarker, Fenced, LateStops, TypeOK,
         MarkerFences, SpendsBehindMarker, ConsumedStaysConsumed, OnlyUnansweredRide, MarkerExists
<1>2. QED
  BY FenceInvariant, <1>1, PTL

-----------------------------------------------------------------------------
(* A behaviour of MCActivation is one of a transaction, in its variables.  *)
LEMMA TransactionBehaviour == EitherSpec => Transaction!Spec
<1>1. EitherInit => Transaction!Init
  BY DEF EitherInit
<1>2. [EitherNext]_<<part, vars, transaction, qualification>> => [Transaction!Next]_(Transaction!vars)
  BY DEF EitherNext, transaction, Transaction!vars
<1>3. QED
  BY <1>1, <1>2, PTL DEF EitherSpec, Transaction!Spec

(* One execution id takes one executor to Git, and behind its receipt; no  *)
(* activation branch is without its commit, tree and files; and what       *)
(* reports PASS has happened: for any runners, ids, plans and files.       *)
THEOREM TransactionsSound == EitherSpec => []TransactionSound
<1>1. Transaction!Spec => []Transaction!TransactionSound
  BY PartsConstants, Transaction!TransactionsSound
<1>2. Transaction!TransactionSound => TransactionSound
  BY DEF TransactionSound
<1>3. QED
  BY <1>1, <1>2, TransactionBehaviour, PTL

-----------------------------------------------------------------------------
(* The qualification of the store.  Until its cleanup a run's resources    *)
(* are there, and each is made by its own call, the first two of the run;  *)
(* what the cleanup has come past it has tried to remove.                  *)
QualificationTypes ==
  /\ way \in {"rehearsed", "shaped"} /\ consumed \in SUBSET Tokens /\ token \in Tokens \cup {None}
  /\ at \in 1 .. Store!Close /\ failed \in BOOLEAN /\ unclean \in BOOLEAN
  /\ account \in SUBSET Store!Things /\ made \in SUBSET Store!Resources
  /\ attempts \in [Store!Resources -> Nat]
  /\ result \in [Tokens -> Store!Results \cup {None}]

RunInv ==
  token # None =>
    /\ token \in consumed
    /\ at <= Store!RemoveWorker => made \subseteq account
    /\ at = Store!RemoveD1 => ("worker" \in made => attempts["worker"] > 0)
                              /\ ("d1" \in made => "d1" \in account)
    /\ at = Store!Close => \A r \in made : attempts[r] > 0
    /\ at > 1 /\ ~failed => "d1" \in made
    /\ at > 2 /\ ~failed => "worker" \in made

QualificationInv ==
  /\ QualificationTypes /\ RunInv
  /\ way = "shaped" => ~failed
  /\ \A t \in Tokens : result[t] # None => t \in consumed

LEMMA CallOrder ==
  /\ Len(Store!Calls) = 15 /\ Store!Calls[1] = "create" /\ Store!Calls[2] = "upload"
  /\ Store!RemoveWorker = 16 /\ Store!RemoveD1 = 17 /\ Store!Close = 18
<1>1. Len(Store!Calls) = 15 /\ Store!Calls[1] = "create" /\ Store!Calls[2] = "upload"
  BY DEF Store!Calls, Store!Admin, Store!Probes
<1> QED BY <1>1 DEF Store!RemoveWorker, Store!RemoveD1, Store!Close

LEMMA QualificationInit == Store!Init => QualificationInv
<1> SUFFICES ASSUME Store!Init PROVE QualificationInv
  OBVIOUS
<1>1. 1 \in 1 .. Store!Close
  BY CallOrder
<1>2. QualificationTypes
  BY <1>1 DEF Store!Init, QualificationTypes
<1> QED BY <1>2 DEF Store!Init, QualificationInv, RunInv

(* What a call makes is there, and the first two calls make the resources. *)
LEMMA EffectIsThere ==
  ASSUME QualificationInv, token # None, at <= 15, Store!Effect(Store!Calls[at])
  PROVE  /\ account' \in SUBSET Store!Things /\ made' \in SUBSET Store!Resources
         /\ made' \subseteq account' /\ made \subseteq made'
         /\ at = 1 => "d1" \in made'
         /\ at = 2 => "worker" \in made'
<1>1. PICK call : call = Store!Calls[at]
  OBVIOUS
<1>2. made \subseteq account
  BY CallOrder DEF QualificationInv, QualificationTypes, RunInv
<1>3. PICK new : account' = account \cup new /\ new \subseteq Store!Things
                 /\ (call = "create" => new = {"d1"}) /\ (call = "upload" => new = {"worker"})
  <2>1. CASE call = "create"
    BY <1>1, <2>1 DEF Store!Effect, Store!Things, Store!Resources
  <2>2. CASE call = "upload"
    BY <1>1, <2>2 DEF Store!Effect, Store!Things, Store!Resources
  <2>3. CASE call \notin {"create", "upload"}
    BY <1>1, <2>3 DEF Store!Effect, Store!Things
  <2> QED BY <2>1, <2>2, <2>3
<1>4. PICK own : made' = made \cup own /\ own \subseteq new /\ own \subseteq Store!Resources
                 /\ (call = "create" => own = {"d1"}) /\ (call = "upload" => own = {"worker"})
  <2>1. CASE call = "create"
    BY <1>1, <1>3, <2>1 DEF Store!Effect, Store!Resources
  <2>2. CASE call = "upload"
    BY <1>1, <1>3, <2>2 DEF Store!Effect, Store!Resources
  <2>3. CASE call \notin {"create", "upload"}
    <3>1. PICK nothing : nothing = {}
      OBVIOUS
    <3>2. made' = made \cup nothing /\ nothing \subseteq new /\ nothing \subseteq Store!Resources
      BY <1>1, <2>3, <3>1 DEF Store!Effect
    <3> QED BY <2>3, <3>2
  <2> QED BY <2>1, <2>2, <2>3
<1>5. (at = 1 => call = "create") /\ (at = 2 => call = "upload")
  BY <1>1, CallOrder
<1> QED BY <1>2, <1>3, <1>4, <1>5 DEF QualificationInv, QualificationTypes

(* A run that gives up either cleans up or raises. *)
LEMMA GivingUp ==
  ASSUME QualificationInv, token # None, at <= 15, Store!GiveUp,
         UNCHANGED <<way, consumed, attempts, unclean>>,
         account' \in SUBSET Store!Things, made' \in SUBSET Store!Resources,
         way = "rehearsed" => UNCHANGED <<account, made>>
  PROVE  QualificationInv'
<1>1. token \in Tokens /\ token \in consumed
  BY DEF QualificationInv, QualificationTypes, RunInv
<1>2. CASE way = "rehearsed"
  <2>1. failed' = TRUE /\ at' = 16 /\ UNCHANGED <<token, result, account, made>>
    BY <1>2, CallOrder DEF Store!GiveUp
  <2> QED BY <1>1, <1>2, <2>1, CallOrder DEF QualificationInv, QualificationTypes, RunInv
<1>3. CASE way = "shaped"
  <2>1. /\ result' = [result EXCEPT ![token] = "raised"] /\ token' = None
        /\ UNCHANGED <<failed, at>>
    BY <1>3 DEF Store!GiveUp, Store!Raise
  <2>2. result' \in [Tokens -> Store!Results \cup {None}]
    BY <1>1, <2>1 DEF QualificationInv, QualificationTypes, Store!Results
  <2>3. \A t \in Tokens : result'[t] # None => t \in consumed'
    BY <1>1, <2>1 DEF QualificationInv, QualificationTypes
  <2> QED BY <1>3, <2>1, <2>2, <2>3 DEF QualificationInv, QualificationTypes, RunInv
<1> QED BY <1>2, <1>3 DEF QualificationInv, QualificationTypes

(* A deletion goes on to the next step of the cleanup, or raises. *)
LEMMA Removing ==
  ASSUME QualificationInv, token # None, NEW r \in Store!Resources, NEW next \in {17, 18},
         Store!Remove(r, next)
  PROVE  /\ UNCHANGED <<way, consumed, failed, made>>
         /\ attempts' \in [Store!Resources -> Nat] /\ account' \in SUBSET Store!Things
         /\ \A q \in Store!Resources : attempts'[q] >= attempts[q]
         /\ r \in account => attempts'[r] > 0
         /\ \A q \in Store!Resources \ {r} : q \in account => q \in account'
         /\ unclean' \in BOOLEAN
         /\ \/ at' = next /\ UNCHANGED <<token, result>>
            \/ Store!Raise /\ UNCHANGED at
<1>1. attempts' \in [Store!Resources -> Nat] /\ \A q \in Store!Resources : attempts'[q] >= attempts[q]
  <2>1. attempts' = attempts \/ attempts' = [attempts EXCEPT ![r] = @ + 1]
    BY DEF Store!Remove
  <2> QED BY <2>1 DEF QualificationInv, QualificationTypes
<1>2. r \in account => attempts'[r] > 0
  BY DEF Store!Remove, QualificationInv, QualificationTypes
<1>3. account' \in {account, account \ Store!Gone(r)}
  BY DEF Store!Remove
<1>4. \A q \in Store!Resources \ {r} : q \notin Store!Gone(r)
  BY DEF Store!Gone, Store!Resources
<1>5. UNCHANGED <<way, consumed, failed, made>> /\ unclean' \in BOOLEAN
  BY DEF Store!Remove, QualificationInv, QualificationTypes
<1>6. \/ at' = next /\ UNCHANGED <<token, result>>
      \/ Store!Raise /\ UNCHANGED at
  BY DEF Store!Remove
<1> QED BY <1>1, <1>2, <1>3, <1>4, <1>5, <1>6 DEF QualificationInv, QualificationTypes

LEMMA RaisingKeeps ==
  ASSUME QualificationTypes, token # None, token \in consumed, consumed' = consumed,
         \A t \in Tokens : result[t] # None => t \in consumed,
         NEW verdict \in Store!Results, result' = [result EXCEPT ![token] = verdict], token' = None
  PROVE  /\ result' \in [Tokens -> Store!Results \cup {None}]
         /\ token' \in Tokens \cup {None}
         /\ \A t \in Tokens : result'[t] # None => t \in consumed'
BY DEF QualificationTypes

LEMMA RemovalKeeps ==
  ASSUME QualificationInv, token # None, NEW r \in Store!Resources, NEW next \in {17, 18},
         \/ r = "worker" /\ at = 16 /\ next = 17
         \/ r = "d1" /\ at = 17 /\ next = 18,
         Store!Remove(r, next)
  PROVE  QualificationInv'
<1>1. /\ UNCHANGED <<way, consumed, failed, made>>
      /\ attempts' \in [Store!Resources -> Nat] /\ account' \in SUBSET Store!Things
      /\ \A q \in Store!Resources : attempts'[q] >= attempts[q]
      /\ r \in account => attempts'[r] > 0
      /\ \A q \in Store!Resources \ {r} : q \in account => q \in account'
      /\ unclean' \in BOOLEAN
  BY Removing
<1>2. CASE Store!Raise /\ UNCHANGED at
  <2>1. token \in consumed /\ "raised" \in Store!Results
    BY DEF QualificationInv, RunInv, Store!Results
  <2>2. /\ result' \in [Tokens -> Store!Results \cup {None}]
        /\ token' = None
        /\ \A t \in Tokens : result'[t] # None => t \in consumed'
    BY <1>1, <1>2, <2>1, RaisingKeeps DEF Store!Raise, QualificationInv
  <2> QED BY <1>1, <1>2, <2>2 DEF QualificationInv, QualificationTypes, RunInv
<1>3. CASE at' = next /\ UNCHANGED <<token, result>>
  <2>1. QualificationTypes'
    BY <1>1, <1>3, CallOrder DEF QualificationInv, QualificationTypes
  <2>2. CASE r = "worker" /\ at = 16 /\ next = 17
    <3>1. made \subseteq account /\ (~failed => "d1" \in made /\ "worker" \in made)
      BY <2>2, CallOrder DEF QualificationInv, RunInv
    <3>2. "worker" \in made => attempts'["worker"] > 0
      BY <1>1, <2>2, <3>1
    <3>3. "d1" \in made => "d1" \in account'
      BY <1>1, <2>2, <3>1 DEF Store!Resources
    <3> QED BY <1>1, <1>3, <2>1, <2>2, <3>1, <3>2, <3>3, CallOrder DEF QualificationInv, RunInv
  <2>3. CASE r = "d1" /\ at = 17 /\ next = 18
    <3>1. /\ "worker" \in made => attempts["worker"] > 0
          /\ "d1" \in made => "d1" \in account
          /\ ~failed => "d1" \in made /\ "worker" \in made
      BY <2>3, CallOrder DEF QualificationInv, RunInv
    <3>2. "d1" \in made => attempts'["d1"] > 0
      BY <1>1, <2>3, <3>1
    <3>3. "worker" \in made => attempts'["worker"] > 0
      <4>1. "worker" \in Store!Resources /\ attempts["worker"] \in Nat /\ attempts'["worker"] \in Nat
        BY <1>1 DEF QualificationInv, QualificationTypes, Store!Resources
      <4> QED BY <1>1, <3>1, <4>1
    <3>4. \A q \in made' : attempts'[q] > 0
      BY <1>1, <3>2, <3>3 DEF QualificationInv, QualificationTypes, Store!Resources
    <3> QED BY <1>1, <1>3, <2>1, <2>3, <3>1, <3>4, CallOrder DEF QualificationInv, RunInv
  <2> QED BY <2>2, <2>3
<1>4. \/ at' = next /\ UNCHANGED <<token, result>>
      \/ Store!Raise /\ UNCHANGED at
  BY Removing
<1> QED BY <1>2, <1>3, <1>4

LEMMA QualificationStep == QualificationInv /\ [Store!Next]_Store!vars => QualificationInv'
<1> SUFFICES ASSUME QualificationInv, [Store!Next]_Store!vars PROVE QualificationInv'
  OBVIOUS
<1>1. CASE UNCHANGED Store!vars
  BY <1>1 DEF Store!vars, QualificationInv, QualificationTypes, RunInv
<1>2. ASSUME NEW t \in Tokens, Store!Begin(t) PROVE QualificationInv'
  <2>1. 1 \in 1 .. Store!Close
    BY CallOrder
  <2>2. QualificationTypes'
    BY <1>2, <2>1 DEF Store!Begin, QualificationInv, QualificationTypes
  <2> QED BY <1>2, <2>2, CallOrder DEF Store!Begin, QualificationInv, RunInv
<1>3. CASE Store!Call
  <2>1. token # None /\ at <= 15 /\ Store!Effect(Store!Calls[at]) /\ at' = at + 1
        /\ UNCHANGED <<way, consumed, token, failed, attempts, unclean, result>>
    BY <1>3, CallOrder DEF Store!Call
  <2>2. /\ account' \in SUBSET Store!Things /\ made' \in SUBSET Store!Resources
        /\ made' \subseteq account' /\ made \subseteq made'
        /\ at = 1 => "d1" \in made'
        /\ at = 2 => "worker" \in made'
    BY <2>1, EffectIsThere
  <2>3. at \in 1 .. 15 /\ at' \in 2 .. 16
    BY <2>1, CallOrder DEF QualificationInv, QualificationTypes
  <2>4. QualificationTypes'
    BY <2>1, <2>2, <2>3, CallOrder DEF QualificationInv, QualificationTypes
  <2>5. RunInv'
    BY <2>1, <2>2, <2>3, CallOrder DEF QualificationInv, RunInv
  <2> QED BY <2>1, <2>4, <2>5 DEF QualificationInv
<1>4. CASE Store!Refused
  <2>1. token # None /\ at <= 15 /\ Store!GiveUp /\ UNCHANGED <<way, consumed, account, made, attempts, unclean>>
    BY <1>4, CallOrder DEF Store!Refused
  <2> QED BY <2>1, GivingUp DEF QualificationInv, QualificationTypes
<1>5. CASE Store!Fault
  <2>1. /\ token # None /\ at <= 15 /\ Store!GiveUp /\ UNCHANGED <<way, consumed, attempts, unclean>>
        /\ \/ UNCHANGED <<account, made>>
           \/ way = "shaped" /\ Store!Effect(Store!Calls[at])
    BY <1>5, CallOrder DEF Store!Fault
  <2>2. account' \in SUBSET Store!Things /\ made' \in SUBSET Store!Resources
    BY <2>1, EffectIsThere DEF QualificationInv, QualificationTypes
  <2> QED BY <2>1, <2>2, GivingUp
<1>6. CASE Store!CleanWorker
  BY <1>6, CallOrder, RemovalKeeps DEF Store!CleanWorker, Store!Resources
<1>7. CASE Store!CleanD1
  BY <1>7, CallOrder, RemovalKeeps DEF Store!CleanD1, Store!Resources
<1>8. CASE Store!Report
  <2>1. PICK verdict \in Store!Results : result' = [result EXCEPT ![token] = verdict]
    BY <1>8 DEF Store!Report, Store!Verdict, Store!Results
  <2>2. token # None /\ token \in consumed /\ token' = None
        /\ UNCHANGED <<way, consumed, at, failed, account, made, attempts, unclean>>
    BY <1>8 DEF Store!Report, QualificationInv, RunInv
  <2>3. /\ result' \in [Tokens -> Store!Results \cup {None}]
        /\ \A t \in Tokens : result'[t] # None => t \in consumed'
    BY <2>1, <2>2, RaisingKeeps DEF QualificationInv
  <2> QED BY <2>2, <2>3 DEF QualificationInv, QualificationTypes, RunInv
<1> QED BY <1>1, <1>2, <1>3, <1>4, <1>5, <1>6, <1>7, <1>8 DEF Store!Next

LEMMA QualificationBehaviour == EitherSpec => Store!Spec
<1>1. EitherInit => Store!Init
  BY DEF EitherInit
<1>2. [EitherNext]_<<part, vars, transaction, qualification>> => [Store!Next]_Store!vars
  BY DEF EitherNext, qualification, Store!vars
<1>3. QED
  BY <1>1, <1>2, PTL DEF EitherSpec, Store!Spec

(* A run's resources are there until it cleans up, and what the cleanup    *)
(* has come past it has tried: the inductive invariant of a qualification. *)
THEOREM QualificationInvariant == Store!Spec => []QualificationInv
  BY QualificationInit, QualificationStep, PTL DEF Store!Spec

(* Whichever calls and deletions fail, and however many authorizations     *)
(* come to the same backend: a run about to report has tried to remove     *)
(* all it made, and what it reports clean has left nothing behind.         *)
THEOREM QualificationsClean == EitherSpec => []QualificationClean
<1>1. QualificationInv => QualificationClean
  <2> SUFFICES ASSUME QualificationInv PROVE Store!QualificationClean
    BY DEF QualificationClean
  <2>1. token # None /\ at = Store!Close => \A r \in made : attempts[r] > 0
    BY DEF QualificationInv, RunInv
  <2>2. Store!Verdict \in {"PASS", "BLOCKED_FAILURE"} => ~Store!Residual
    BY DEF Store!Verdict
  <2>3. token # None /\ at = Store!Close /\ Store!Verdict = "PASS" => made = Store!Resources /\ ~failed
    <3>1. Store!Verdict = "PASS" => ~failed
      BY DEF Store!Verdict, QualificationInv
    <3>2. token # None /\ at = Store!Close /\ ~failed => "d1" \in made /\ "worker" \in made
      BY CallOrder DEF QualificationInv, RunInv
    <3> QED BY <3>1, <3>2 DEF QualificationInv, QualificationTypes, Store!Resources
  <2> QED BY <2>1, <2>2, <2>3 DEF Store!QualificationClean, QualificationInv
<1> QED BY <1>1, QualificationInvariant, QualificationBehaviour, PTL
=============================================================================
