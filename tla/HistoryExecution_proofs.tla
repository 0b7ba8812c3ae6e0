----------------------- MODULE HistoryExecution_proofs ----------------------
(***************************************************************************)
(* For any number of operators, chunks and requests: no request of a chunk *)
(* is ever sent twice, whoever calls execute_chunk and whatever fails; the *)
(* evidence that replays says the truth; and the files, the lock and the   *)
(* guards implement ChunkCampaign.  For any number of sessions and windows *)
(* of chunks the batch is sound (BatchInv), and for every calendar, any    *)
(* lists of symbols and any number of runs the staging campaign is         *)
(* (StagingInv).                                                           *)
(*                                                                         *)
(* IInv says that the lock's holder acts alone and that the entries ahead  *)
(* of it were never sent.  EvidenceInv ties the files of a run to its      *)
(* holder's counts, and a result once it is written to what went out.      *)
(* GuardInv carries what the guard saw to the claim.                       *)
(***************************************************************************)
EXTENDS MCHistory, Sequences, FiniteSetTheorems, TLAPS

Locals == [chunk : Chunks \cup {None}, entry : Entries, intent : BOOLEAN,
           requests : Nat, done : Nat]

TypeInv ==
  /\ claimed \subseteq Chunks
  /\ lock \in Operators \cup {None}
  /\ pc \in [Operators -> Phases]
  /\ local \in [Operators -> Locals]
  /\ sent \in [Chunks -> [Entries -> Nat]]

(* Who does anything holds the campaign's lock, for a chunk of his. *)
LockInv ==
  \A p \in Operators : pc[p] # "idle" => lock = p /\ local[p].chunk \in Chunks

(* What nobody claimed was not asked for; a run is of a claimed chunk, and  *)
(* what its holder found unclaimed stays so until he claims it.             *)
ClaimInv ==
  /\ \A c \in Chunks \ claimed, n \in Entries : sent[c][n] = 0
  /\ \A p \in Operators :
       /\ pc[p] = "claim" => local[p].chunk \notin claimed
       /\ pc[p] \in Acquiring => local[p].chunk \in claimed

(* The entries a run has not come to were never sent. *)
AheadInv ==
  \A p \in Operators, n \in Entries :
    /\ pc[p] \in {"bind", "intent", "dispatch"} /\ n >= local[p].entry
         => sent[local[p].chunk][n] = 0
    /\ pc[p] \in {"receipt", "event", "checkpoint"} /\ n > local[p].entry
         => sent[local[p].chunk][n] = 0

IInv == TypeInv /\ LockInv /\ ClaimInv /\ AheadInv /\ RequestedOnce

-----------------------------------------------------------------------------
(* A step of p that sends nothing, claims nothing and keeps the lock, or   *)
(* gives it back, preserves the invariant if p itself stays within it.     *)
LEMMA QuietStep ==
  ASSUME IInv, NEW p \in Operators, pc[p] # "idle",
         NEW phase \in Phases, NEW now \in Locals,
         pc' = [pc EXCEPT ![p] = phase], local' = [local EXCEPT ![p] = now],
         UNCHANGED << claimed, sent >>,
         IF phase = "idle" THEN lock' = None ELSE lock' = lock /\ now.chunk = local[p].chunk,
         phase = "claim" => now.chunk \notin claimed,
         phase \in Acquiring => now.chunk \in claimed,
         \A n \in Entries :
           /\ phase \in {"bind", "intent", "dispatch"} /\ n >= now.entry => sent[now.chunk][n] = 0
           /\ phase \in {"receipt", "event", "checkpoint"} /\ n > now.entry => sent[now.chunk][n] = 0
  PROVE  IInv'
<1> USE DEF IInv
<1>0. \A q \in Operators : q # p => pc[q] = "idle"
  BY NoneIsNobody DEF LockInv, TypeInv
<1>1. \A q \in Operators : q # p => pc'[q] = "idle"
  BY <1>0 DEF TypeInv
<1>2. pc'[p] = phase /\ local'[p] = now
  BY DEF TypeInv
<1>3. TypeInv'
  BY DEF TypeInv
<1>4. LockInv'
  BY <1>1, <1>2 DEF LockInv
<1>5. ClaimInv'
  BY <1>1, <1>2 DEF ClaimInv, Acquiring
<1>6. AheadInv'
  BY <1>1, <1>2 DEF AheadInv
<1>7. RequestedOnce'
  BY DEF RequestedOnce
<1> QED BY <1>3, <1>4, <1>5, <1>6, <1>7

-----------------------------------------------------------------------------
LEMMA FreshTyped == ASSUME NEW c \in Chunks \cup {None} PROVE Fresh(c) \in Locals
BY RequestsPlanned DEF Fresh, Locals, Entries

LEMMA LocalTyped ==
  ASSUME TypeInv, NEW p \in Operators
  PROVE  /\ local[p] \in Locals
         /\ \A b \in BOOLEAN : [local[p] EXCEPT !.intent = b] \in Locals
         /\ [local[p] EXCEPT !.requests = @ + 1] \in Locals
         /\ [local[p] EXCEPT !.done = @ + 1] \in Locals
         /\ \A n \in Entries : [local[p] EXCEPT !.entry = n] \in Locals
BY DEF TypeInv, Locals

LEMMA InitHolds == Init => IInv
<1> SUFFICES ASSUME Init PROVE IInv
  OBVIOUS
<1>1. TypeInv
  BY FreshTyped DEF Init, TypeInv, Phases
<1>2. LockInv /\ AheadInv
  BY DEF Init, LockInv, AheadInv
<1>3. ClaimInv /\ RequestedOnce
  BY DEF Init, ClaimInv, RequestedOnce, Acquiring
<1> QED BY <1>1, <1>2, <1>3 DEF IInv

(* Begin is the one step that takes the lock. *)
LEMMA BeginStep ==
  ASSUME IInv, NEW p \in Operators, NEW c \in Chunks, Begin(p, c)
  PROVE  IInv'
<1> USE DEF IInv
<1>0. /\ \A q \in Operators : pc[q] = "idle"
      /\ pc' = [pc EXCEPT ![p] = "guard"] /\ local' = [local EXCEPT ![p] = Fresh(c)]
  BY NoneIsNobody DEF Begin, LockInv, TypeInv, Goto, Set
<1>1. TypeInv'
  BY <1>0, FreshTyped DEF Begin, TypeInv, Phases
<1>2. /\ \A q \in Operators : q # p => pc'[q] = "idle"
      /\ pc'[p] = "guard" /\ local'[p].chunk = c
  BY <1>0 DEF TypeInv, Fresh
<1>3. LockInv'
  BY <1>2 DEF Begin, LockInv
<1>4. ClaimInv' /\ AheadInv' /\ RequestedOnce'
  BY <1>2 DEF Begin, ClaimInv, AheadInv, RequestedOnce, Acquiring
<1> QED BY <1>1, <1>3, <1>4

(* Claim is the one step that claims. *)
LEMMA ClaimStep ==
  ASSUME IInv, NEW p \in Operators, Claim(p)
  PROVE  IInv'
<1> USE DEF IInv
<1>0. PICK phase \in {"bind", "raise"} : pc' = [pc EXCEPT ![p] = phase]
  BY DEF Claim, Goto
<1>1. pc[p] = "claim" /\ UNCHANGED << lock, local, sent >>
  BY DEF Claim
<1>8. pc'[p] = phase
  BY <1>0 DEF TypeInv
<1>9. \/ claimed' = claimed \cup {local[p].chunk}
      \/ claimed' = claimed /\ phase = "raise"
  <2>1. CASE claimed' = claimed \cup {local[p].chunk}
    BY <2>1
  <2>2. CASE UNCHANGED claimed /\ Goto(p, "raise")
    BY <1>8, <2>2 DEF Goto, TypeInv
  <2> QED BY <2>1, <2>2 DEF Claim
<1>2. local[p].chunk \in Chunks /\ \A q \in Operators : q # p => pc[q] = "idle"
  BY <1>1, NoneIsNobody DEF LockInv, TypeInv
<1>3. pc'[p] = phase /\ \A q \in Operators : q # p => pc'[q] = "idle"
  BY <1>0, <1>2 DEF TypeInv
<1>4. TypeInv'
  BY <1>0, <1>1, <1>2, <1>9 DEF TypeInv, Phases
<1>5. LockInv'
  BY <1>1, <1>2, <1>3 DEF LockInv
<1>6. ClaimInv' /\ RequestedOnce'
  BY <1>1, <1>2, <1>3, <1>9 DEF ClaimInv, RequestedOnce, Acquiring
<1>7. AheadInv'
  BY <1>1, <1>2, <1>3, <1>9 DEF AheadInv, ClaimInv
<1> QED BY <1>4, <1>5, <1>6, <1>7

(* Dispatch is the one step that sends, and what it sends is new. *)
LEMMA DispatchStep ==
  ASSUME IInv, NEW p \in Operators, Dispatch(p)
  PROVE  IInv'
<1> DEFINE c == local[p].chunk
           n == local[p].entry
<1> USE DEF IInv
<1>0. pc[p] = "dispatch" /\ c \in Chunks /\ n \in Entries /\ local[p] \in Locals
  BY LocalTyped DEF Dispatch, LockInv, TypeInv, Locals
<1>1. CASE UNCHANGED << local, sent >> /\ Goto(p, "stop")
  <2>1. lock' = lock /\ UNCHANGED claimed /\ local' = [local EXCEPT ![p] = local[p]]
    BY <1>1 DEF Dispatch, TypeInv
  <2>2. c \in claimed /\ "stop" \in Phases
    BY <1>0 DEF ClaimInv, Acquiring, Phases
  <2>3. pc' = [pc EXCEPT ![p] = "stop"] /\ UNCHANGED << claimed, sent >>
    BY <1>1, <2>1 DEF Goto
  <2> HIDE DEF IInv
  <2> QED BY <1>0, <2>1, <2>2, <2>3, QuietStep
<1>2. CASE /\ Set(p, [local[p] EXCEPT !.requests = @ + 1])
           /\ sent' = [sent EXCEPT ![c][n] = @ + 1]
           /\ \E next \in {"receipt", "stop"} : Goto(p, next)
  <2>1. PICK phase \in {"receipt", "stop"} : pc' = [pc EXCEPT ![p] = phase]
    BY <1>2 DEF Goto
  <2>2. /\ local'[p].chunk = c /\ local'[p].entry = n /\ pc'[p] = phase
        /\ local' \in [Operators -> Locals] /\ UNCHANGED << claimed, lock >>
    BY <1>0, <1>2, <2>1, LocalTyped DEF Set, Dispatch, TypeInv, Locals
  <2>3. \A q \in Operators : q # p => pc[q] = "idle" /\ pc'[q] = "idle"
    BY <1>0, <2>1, NoneIsNobody DEF LockInv, TypeInv
  <2>9. sent[c] \in [Entries -> Nat] /\ sent[c][n] = 0
    BY <1>0 DEF AheadInv, TypeInv, Entries
  <2>10. sent' = [sent EXCEPT ![c] = [sent[c] EXCEPT ![n] = 1]]
    BY <1>2, <2>9
  <2>4. /\ sent'[c][n] = 1
        /\ \A d \in Chunks, m \in Entries : << d, m >> # << c, n >> => sent'[d][m] = sent[d][m]
        /\ sent' \in [Chunks -> [Entries -> Nat]]
    BY <1>0, <2>9, <2>10 DEF TypeInv
  <2>5. c \in claimed
    BY <1>0 DEF ClaimInv, Acquiring
  <2>6. TypeInv' /\ LockInv'
    BY <1>0, <2>1, <2>2, <2>3, <2>4 DEF TypeInv, LockInv, Phases
  <2>7. ClaimInv' /\ RequestedOnce'
    BY <1>0, <2>1, <2>2, <2>3, <2>4, <2>5 DEF ClaimInv, RequestedOnce, Acquiring
  <2>8. AheadInv'
    <3>1. \A m \in Entries : m > n => sent'[c][m] = 0
      BY <1>0, <2>4 DEF AheadInv, Entries
    <3> QED BY <2>1, <2>2, <2>3, <3>1 DEF AheadInv
  <2> QED BY <2>6, <2>7, <2>8
<1> QED BY <1>1, <1>2 DEF Dispatch

-----------------------------------------------------------------------------
(* Every other step is quiet.  One that stays at its entry keeps what is   *)
(* known of it ...                                                         *)
LEMMA StayStep ==
  ASSUME IInv, NEW p \in Operators, pc[p] # "idle",
         NEW phase \in Phases \ {"idle", "claim"}, NEW now \in Locals,
         Goto(p, phase), Set(p, now), UNCHANGED << claimed, sent, lock >>,
         now.chunk = local[p].chunk, now.entry = local[p].entry,
         phase \in Acquiring => pc[p] \in Acquiring,
         phase \in {"bind", "intent", "dispatch"} => pc[p] \in {"bind", "intent"},
         phase \in {"receipt", "event", "checkpoint"} => pc[p] \in {"receipt", "event", "checkpoint"}
  PROVE  IInv'
<1>1. phase \in Acquiring => now.chunk \in claimed
  BY DEF IInv, ClaimInv
<1>2. \A n \in Entries :
        /\ phase \in {"bind", "intent", "dispatch"} /\ n >= now.entry => sent[now.chunk][n] = 0
        /\ phase \in {"receipt", "event", "checkpoint"} /\ n > now.entry => sent[now.chunk][n] = 0
  BY DEF IInv, AheadInv
<1> QED BY <1>1, <1>2, QuietStep DEF Goto, Set

(* ... one that turns to the next entry knows that it was not sent ...     *)
LEMMA TurnStep ==
  ASSUME IInv, NEW p \in Operators, pc[p] = "checkpoint", NEW now \in Locals,
         Goto(p, "intent"), Set(p, now), UNCHANGED << claimed, sent, lock >>,
         now.chunk = local[p].chunk, now.entry = local[p].entry + 1
  PROVE  IInv'
<1>1. now.chunk \in claimed
  BY DEF IInv, ClaimInv, Acquiring
<1>2. local[p].entry \in Entries
  BY LocalTyped DEF IInv, Locals
<1>3. \A n \in Entries : n >= now.entry => sent[now.chunk][n] = 0
  BY <1>2 DEF IInv, AheadInv, Entries
<1> QED BY <1>1, <1>3, QuietStep DEF Goto, Set, Phases

(* ... and one that leaves gives everything up. *)
LEMMA LeaveStep ==
  ASSUME IInv, NEW p \in Operators, pc[p] # "idle", Leave(p), UNCHANGED << claimed, sent >>
  PROVE  IInv'
<1>1. Fresh(None) \in Locals
  BY FreshTyped
<1> QED BY <1>1, QuietStep DEF Leave, Goto, Set, Phases, Acquiring

LEMMA SameLocal == ASSUME IInv, NEW p \in Operators, UNCHANGED local PROVE Set(p, local[p])
BY DEF IInv, TypeInv, Set

LEMMA PreflightStep == ASSUME IInv, NEW p \in Operators, Preflight(p) PROVE IInv'
<1>1. Set(p, local[p]) /\ local[p] \in Locals
  BY SameLocal, LocalTyped DEF Preflight, IInv
<1>2. CASE local[p].chunk \in claimed
  BY <1>1, <1>2, StayStep DEF Preflight, Phases, Acquiring
<1>3. CASE local[p].chunk \notin claimed
  BY <1>1, <1>3, QuietStep DEF Preflight, Goto, Set, Phases, Acquiring
<1> QED BY <1>2, <1>3

LEMMA CheckpointStep == ASSUME IInv, NEW p \in Operators, PutCheckpoint(p) PROVE IInv'
<1> DEFINE c == local[p].chunk
           n == local[p].entry
<1>0. pc[p] = "checkpoint" /\ local[p] \in Locals /\ n \in Entries /\ c \in claimed
  BY LocalTyped DEF PutCheckpoint, IInv, Locals, ClaimInv, Acquiring
<1>1. CASE UNCHANGED local /\ \E phase \in {"stop", "result"} : Goto(p, phase)
  BY <1>0, <1>1, SameLocal, StayStep DEF PutCheckpoint, Phases, Acquiring
<1>2. CASE Goto(p, "intent") /\ Set(p, [local[p] EXCEPT !.entry = n + 1]) /\ n # Requests
  <2> DEFINE now == [local[p] EXCEPT !.entry = n + 1]
  <2>1. n + 1 \in Entries /\ now \in Locals /\ now.chunk = c /\ now.entry = n + 1
    BY <1>0, <1>2, RequestsPlanned DEF Entries, Locals
  <2> QED BY <1>0, <1>2, <2>1, TurnStep DEF PutCheckpoint
<1> QED BY <1>1, <1>2 DEF PutCheckpoint

LEMMA ExecuteStep ==
  ASSUME IInv, NEW p \in Operators, Execute(p)
  PROVE  IInv'
<1>0. local[p] \in Locals /\ \A b \in BOOLEAN : [local[p] EXCEPT !.intent = b] \in Locals
  BY LocalTyped DEF IInv
<1>1. CASE Guard(p)
  BY <1>0, <1>1, LeaveStep, SameLocal, StayStep DEF Guard, Phases, Acquiring
<1>2. CASE Preflight(p)
  BY <1>2, PreflightStep
<1>3. CASE Claim(p)
  BY <1>3, ClaimStep
<1>4. CASE Bind(p)
  BY <1>0, <1>4, SameLocal, StayStep DEF Bind, Phases, Acquiring
<1>5. CASE PutIntent(p)
  <2>1. PICK phase \in {"stop", "dispatch"}, b \in BOOLEAN :
          Goto(p, phase) /\ Set(p, [local[p] EXCEPT !.intent = b])
    BY <1>5 DEF PutIntent
  <2>2. /\ [local[p] EXCEPT !.intent = b].chunk = local[p].chunk
        /\ [local[p] EXCEPT !.intent = b].entry = local[p].entry
    BY <1>0 DEF Locals
  <2> QED BY <1>0, <1>5, <2>1, <2>2, StayStep DEF PutIntent, Phases, Acquiring
<1>6. CASE Dispatch(p)
  BY <1>6, DispatchStep
<1>7. CASE PutReceipt(p)
  BY <1>0, <1>7, SameLocal, StayStep DEF PutReceipt, Phases, Acquiring
<1>8. CASE PutEvent(p)
  <2> DEFINE now == [local[p] EXCEPT !.done = @ + 1]
  <2>1. now \in Locals /\ now.chunk = local[p].chunk /\ now.entry = local[p].entry
    BY <1>0 DEF Locals
  <2>2. CASE UNCHANGED local /\ Goto(p, "stop")
    BY <1>0, <1>8, <2>2, SameLocal, StayStep DEF PutEvent, Phases, Acquiring
  <2>3. CASE Goto(p, "checkpoint") /\ Set(p, now)
    BY <1>8, <2>1, <2>3, StayStep DEF PutEvent, Phases, Acquiring
  <2> QED BY <1>8, <2>2, <2>3 DEF PutEvent
<1>9. CASE PutCheckpoint(p)
  BY <1>9, CheckpointStep
<1>10. CASE PutStop(p)
  BY <1>0, <1>10, SameLocal, StayStep DEF PutStop, Phases, Acquiring
<1>11. CASE PutResult(p)
  BY <1>0, <1>11, SameLocal, StayStep DEF PutResult, Phases, Acquiring
<1>12. CASE ReplayRun(p)
  BY <1>0, <1>12, LeaveStep, SameLocal, StayStep DEF ReplayRun, Phases, Acquiring
<1>13. CASE Raise(p)
  BY <1>13, LeaveStep DEF Raise
<1> QED BY <1>1, <1>2, <1>3, <1>4, <1>5, <1>6, <1>7, <1>8, <1>9, <1>10, <1>11, <1>12, <1>13 DEF Execute

LEMMA NextHolds == IInv /\ [Next]_vars => IInv'
<1> SUFFICES ASSUME IInv, [Next]_vars PROVE IInv'
  OBVIOUS
<1>1. CASE UNCHANGED vars
  BY <1>1 DEF vars, IInv, TypeInv, LockInv, ClaimInv, AheadInv, RequestedOnce
<1>2. CASE Next
  <2>1. PICK p \in Operators : Execute(p) \/ Crash(p) \/ \E c \in Chunks : Begin(p, c)
    BY <1>2 DEF Next
  <2>2. CASE Crash(p)
    BY <2>2, LeaveStep DEF Crash
  <2> QED BY <2>1, <2>2, ExecuteStep, BeginStep
<1> QED BY <1>1, <1>2

-----------------------------------------------------------------------------
(* The invariant of the acquisition: the campaign's lock, the claims and   *)
(* the entries not yet come to are what keeps a request from going twice.  *)
THEOREM ExecutionInvariant == Spec => []IInv
BY InitHolds, NextHolds, PTL DEF Spec

(* No request is sent twice, for any operators, chunks and requests.       *)
THEOREM SentOnce == Spec => []RequestedOnce
<1>1. IInv => RequestedOnce
  BY DEF IInv
<1> QED BY <1>1, ExecutionInvariant, PTL

(* At most one operator is ever between claim and result.                  *)
THEOREM OneExecutes ==
  Spec => [](\A p, q \in Operators : pc[p] # "idle" /\ pc[q] # "idle" => p = q)
<1>1. IInv => \A p, q \in Operators : pc[p] # "idle" /\ pc[q] # "idle" => p = q
  BY DEF IInv, LockInv
<1> QED BY <1>1, ExecutionInvariant, PTL

-----------------------------------------------------------------------------
(* What a run leaves, and what it is worth.  The evidence of a chunk       *)
(* follows its holder's counts as long as it is acquired.                  *)
Results == [status : {"PASS", "STOPPED"}, requests : Nat, done : Nat]
Stops == [ordinal : Nat, done : Nat, requests : Nat, intent : BOOLEAN]
Evidence == [bound : BOOLEAN, intents : Nat, events : Nat, checkpoints : Nat, torn : BOOLEAN,
             stop : Stops \cup {None}, result : Results \cup {None}]

EvidenceTyped ==
  /\ run \in [Chunks -> Evidence]
  /\ valid \in [Chunks -> SUBSET Entries]
  /\ halted \in BOOLEAN

(* The first k requests of c went out, and no other. *)
SentUpTo(c, k) == k \in 0 .. Requests /\ \A n \in Entries : sent[c][n] > 0 <=> n <= k

(* The answers to the first k requests were valid. *)
ValidUpTo(c, k) == k \in 0 .. Requests /\ \A n \in Entries : n <= k => n \in valid[c]

(* A run in phase, with l as its variables, knows this of its chunk c. *)
OnTrack(phase, c, l) ==
  /\ run[c].result = None /\ run[c].events = l.done
  /\ SentUpTo(c, l.requests) /\ ValidUpTo(c, l.done)
  /\ phase \in {"bind", "intent", "dispatch"} => l.requests = l.entry - 1
  /\ phase \in {"receipt", "event", "checkpoint"} => l.requests = l.entry
  /\ phase \in {"bind", "intent", "dispatch", "receipt", "event"} => l.done = l.entry - 1
  /\ phase = "checkpoint" => l.done = l.entry
  /\ phase = "event" => l.entry \in valid[c]

(* A result counts what was sent, and the events before it are of answers. *)
ResultTrue(c) ==
  run[c].result # None => SentUpTo(c, run[c].result.requests) /\ ValidUpTo(c, run[c].events)

EvidenceInv ==
  /\ EvidenceTyped
  /\ \A p \in Operators : pc[p] \in {"guard", "preflight", "claim"}
                            => local[p] = Fresh(local[p].chunk)
  /\ \A c \in Chunks \ claimed : run[c] = NoEvidence
  /\ \A p \in Operators : pc[p] \in Acquiring => OnTrack(pc[p], local[p].chunk, local[p])
  /\ \A c \in Chunks : ResultTrue(c)

(* What the guard saw holds until the claim. *)
GuardInv == \A p \in Operators : pc[p] \in {"preflight", "claim"} => CampaignClear

LEMMA Alone ==
  ASSUME IInv, NEW p \in Operators, pc[p] # "idle"
  PROVE  /\ local[p].chunk \in Chunks
         /\ \A q \in Operators : q # p => pc[q] = "idle"
BY NoneIsNobody DEF IInv, LockInv, TypeInv

(* A step of p changes the evidence of its own chunk, and of no other. *)
LEMMA TrackStep ==
  ASSUME IInv, EvidenceInv, NEW p \in Operators, pc[p] # "idle",
         NEW phase \in Phases, NEW now \in Locals, NEW c \in Chunks, c = local[p].chunk,
         pc' = [pc EXCEPT ![p] = phase], local' = [local EXCEPT ![p] = now],
         EvidenceTyped',
         \A d \in Chunks \ {c} : run'[d] = run[d] /\ sent'[d] = sent[d] /\ valid'[d] = valid[d],
         \A d \in Chunks \ {c} : d \notin claimed' => d \notin claimed,
         c \notin claimed' => run'[c] = NoEvidence,
         phase \in {"guard", "preflight", "claim"} => now = Fresh(now.chunk),
         phase \in Acquiring => now.chunk = c /\ OnTrack(phase, c, now)',
         ResultTrue(c)'
  PROVE  EvidenceInv'
<1>1. \A q \in Operators : q # p => pc'[q] = "idle"
  BY Alone DEF IInv, TypeInv
<1>2. pc'[p] = phase /\ local'[p] = now
  BY DEF IInv, TypeInv
<1>3. \A d \in Chunks \ claimed' : run'[d] = NoEvidence
  BY DEF EvidenceInv
<1>4. \A q \in Operators : pc'[q] \in {"guard", "preflight", "claim"}
                             => local'[q] = Fresh(local'[q].chunk)
  BY <1>1, <1>2
<1>5. ASSUME NEW q \in Operators, pc'[q] \in Acquiring
      PROVE  OnTrack(pc[q], local[q].chunk, local[q])'
  <2>1. q = p
    BY <1>1, <1>5 DEF Acquiring
  <2>2. phase \in Acquiring /\ now.chunk = c
    BY <1>2, <1>5, <2>1
  <2>3. OnTrack(pc[p], local[p].chunk, local[p])' <=> OnTrack(phase, c, now)'
    BY <1>2, <2>2 DEF OnTrack, SentUpTo, ValidUpTo
  <2> QED BY <2>1, <2>2, <2>3
<1>6. ASSUME NEW d \in Chunks PROVE ResultTrue(d)'
  <2>1. CASE d # c
    BY <2>1 DEF EvidenceInv, ResultTrue, SentUpTo, ValidUpTo
  <2> QED BY <2>1
<1> QED BY <1>3, <1>4, <1>5, <1>6 DEF EvidenceInv

(* A run's record stays one, whatever file comes to it. *)
LEMMA EvidenceUpdates ==
  ASSUME NEW e \in Evidence
  PROVE  /\ \A b \in BOOLEAN : [e EXCEPT !.torn = b] \in Evidence /\ [e EXCEPT !.bound = b] \in Evidence
         /\ [e EXCEPT !.intents = @ + 1] \in Evidence
         /\ [e EXCEPT !.events = @ + 1] \in Evidence
         /\ [e EXCEPT !.checkpoints = @ + 1] \in Evidence
         /\ \A x \in Stops : [e EXCEPT !.stop = x] \in Evidence
         /\ \A x \in Results : [e EXCEPT !.result = x] \in Evidence
BY DEF Evidence

LEMMA OneRun ==
  ASSUME EvidenceTyped, NEW c \in Chunks, NEW e \in Evidence, run' = [run EXCEPT ![c] = e]
  PROVE  /\ run' \in [Chunks -> Evidence]
         /\ \A d \in Chunks \ {c} : run'[d] = run[d]
         /\ run'[c] = e
BY DEF EvidenceTyped

(* What is left in part changes nothing else of a run. *)
LEMMA TearStep ==
  ASSUME EvidenceTyped, NEW c \in Chunks, Tear(c)
  PROVE  /\ run' \in [Chunks -> Evidence]
         /\ \A d \in Chunks \ {c} : run'[d] = run[d]
         /\ run'[c].result = run[c].result /\ run'[c].events = run[c].events
<1>1. run[c] \in Evidence
  BY DEF EvidenceTyped
<1>2. PICK t \in BOOLEAN : run' = [run EXCEPT ![c].torn = @ \/ t]
  BY DEF Tear
<1>3. PICK b \in BOOLEAN : b = (run[c].torn \/ t)
  OBVIOUS
<1>4. run' = [run EXCEPT ![c] = [run[c] EXCEPT !.torn = b]]
  BY <1>2, <1>3
<1>5. /\ [run[c] EXCEPT !.torn = b] \in Evidence
      /\ [run[c] EXCEPT !.torn = b].result = run[c].result
      /\ [run[c] EXCEPT !.torn = b].events = run[c].events
  BY <1>1, EvidenceUpdates DEF Evidence
<1> QED BY <1>4, <1>5, OneRun

(* Steps that leave the evidence alone and do not acquire. *)
LEMMA IdleStep ==
  ASSUME IInv, EvidenceInv, NEW p \in Operators, pc[p] # "idle",
         NEW phase \in Phases \ Acquiring, NEW now \in Locals,
         Goto(p, phase), Set(p, now), UNCHANGED << claimed, run, sent, valid >>, halted' \in BOOLEAN,
         phase \in {"guard", "preflight", "claim"} => now = Fresh(now.chunk)
  PROVE  EvidenceInv'
<1>1. PICK c \in Chunks : c = local[p].chunk
  BY Alone
<1>2. EvidenceTyped' /\ ResultTrue(c)' /\ (c \notin claimed' => run'[c] = NoEvidence)
  BY DEF EvidenceInv, EvidenceTyped, ResultTrue, SentUpTo, ValidUpTo
<1> QED BY <1>1, <1>2, TrackStep DEF Goto, Set

(* Steps on the way, from one phase of the acquisition. *)
LEMMA WayStep ==
  ASSUME IInv, EvidenceInv, NEW p \in Operators, pc[p] \in Acquiring,
         NEW phase \in Phases \ {"guard", "preflight", "claim"}, NEW now \in Locals,
         NEW c \in Chunks, c = local[p].chunk,
         Goto(p, phase), Set(p, now), UNCHANGED << claimed, halted >>,
         run' \in [Chunks -> Evidence],
         \A d \in Chunks \ {c} : run'[d] = run[d] /\ sent'[d] = sent[d],
         \/ valid' = valid
         \/ \E n \in Entries : valid' = [valid EXCEPT ![c] = @ \cup {n}],
         phase \in Acquiring => now.chunk = c /\ OnTrack(phase, c, now)',
         run'[c].result = None
  PROVE  EvidenceInv'
<1>1. c \in claimed /\ pc[p] # "idle"
  BY DEF IInv, ClaimInv, Acquiring
<1>2. EvidenceTyped' /\ \A d \in Chunks \ {c} : valid'[d] = valid[d]
  BY DEF EvidenceInv, EvidenceTyped
<1>3. ResultTrue(c)'
  BY DEF ResultTrue
<1> QED BY <1>1, <1>2, <1>3, TrackStep DEF Goto, Set

LEMMA OnTrackNow ==
  ASSUME IInv, EvidenceInv, NEW p \in Operators, pc[p] \in Acquiring
  PROVE  /\ local[p].chunk \in Chunks /\ local[p].chunk \in claimed
         /\ local[p] \in Locals /\ local[p].entry \in Entries
         /\ local[p].requests \in Nat /\ local[p].done \in Nat
         /\ OnTrack(pc[p], local[p].chunk, local[p])
         /\ pc[p] # "idle"
<1>1. pc[p] # "idle"
  BY DEF Acquiring
<1> QED BY <1>1, Alone DEF IInv, TypeInv, ClaimInv, EvidenceInv, Locals

(* The claim finds a chunk that nobody touched. *)
LEMMA ClaimTracked ==
  ASSUME IInv, EvidenceInv, NEW p \in Operators, Claim(p)
  PROVE  EvidenceInv'
<1>1. PICK c \in Chunks, now \in Locals : c = local[p].chunk /\ now = local[p]
  BY Alone, LocalTyped DEF Claim, IInv
<1>2. /\ pc[p] = "claim" /\ pc[p] # "idle" /\ c \notin claimed /\ run[c] = NoEvidence
      /\ now = Fresh(c)
      /\ \A n \in Entries : sent[c][n] = 0
  BY <1>1 DEF Claim, IInv, ClaimInv, EvidenceInv
<1>3. PICK phase \in {"bind", "raise"} : pc' = [pc EXCEPT ![p] = phase]
  BY DEF Claim, Goto
<1>4. EvidenceTyped' /\ ResultTrue(c)' /\ run'[c] = NoEvidence
  BY <1>2 DEF Claim, EvidenceInv, EvidenceTyped, ResultTrue, NoEvidence
<1>5. now.chunk = c /\ OnTrack("bind", c, now)'
  BY <1>2, RequestsPlanned
     DEF Claim, OnTrack, SentUpTo, ValidUpTo, NoEvidence, Fresh, Entries
<1>6. local' = [local EXCEPT ![p] = now]
  BY <1>1, SameLocal DEF Claim, Set
<1>7. \A d \in Chunks \ {c} : d \notin claimed' => d \notin claimed
  BY <1>1 DEF Claim
<1>8. phase \in Phases /\ (phase \in Acquiring => phase = "bind")
      /\ phase \notin {"guard", "preflight", "claim"}
  BY DEF Phases, Acquiring
<1>9. \A d \in Chunks \ {c} : run'[d] = run[d] /\ sent'[d] = sent[d] /\ valid'[d] = valid[d]
  BY DEF Claim
<1> QED BY <1>1, <1>2, <1>3, <1>4, <1>5, <1>6, <1>7, <1>8, <1>9, TrackStep

LEMMA BindTracked ==
  ASSUME IInv, EvidenceInv, NEW p \in Operators, Bind(p)
  PROVE  EvidenceInv'
<1>1. pc[p] \in Acquiring /\ pc[p] = "bind" /\ UNCHANGED << claimed, halted, sent, valid, local >>
  BY DEF Bind, Acquiring
<1>2. PICK c \in Chunks : c = local[p].chunk
  BY <1>1, OnTrackNow
<1>3. OnTrack("bind", c, local[p]) /\ local[p] \in Locals /\ local[p].entry \in Entries
  BY <1>1, <1>2, OnTrackNow
<1>4. Set(p, local[p])
  BY <1>1, SameLocal
<1>5. CASE Tear(c) /\ Goto(p, "raise")
  <2>1. run' \in [Chunks -> Evidence] /\ (\A d \in Chunks \ {c} : run'[d] = run[d]) /\ run'[c].result = None
    BY <1>3, <1>5, TearStep DEF EvidenceInv, OnTrack
  <2> QED BY <1>1, <1>2, <1>3, <1>4, <1>5, <2>1, WayStep DEF Acquiring, Phases
<1>6. CASE run' = [run EXCEPT ![c].bound = TRUE] /\ Goto(p, "intent")
  <2>1. /\ run' \in [Chunks -> Evidence] /\ (\A d \in Chunks \ {c} : run'[d] = run[d])
        /\ run'[c].result = None /\ run'[c].events = run[c].events
    <3>1. run[c] \in Evidence
      BY DEF EvidenceInv, EvidenceTyped
    <3>2. run' = [run EXCEPT ![c] = [run[c] EXCEPT !.bound = TRUE]]
      BY <1>6
    <3>3. /\ [run[c] EXCEPT !.bound = TRUE] \in Evidence
          /\ [run[c] EXCEPT !.bound = TRUE].result = run[c].result
          /\ [run[c] EXCEPT !.bound = TRUE].events = run[c].events
      BY <3>1, EvidenceUpdates DEF Evidence
    <3> QED BY <1>3, <3>2, <3>3, OneRun DEF EvidenceInv, OnTrack
  <2>2. OnTrack("intent", c, local[p])'
    BY <1>1, <1>3, <2>1 DEF OnTrack, SentUpTo, ValidUpTo
  <2> QED BY <1>1, <1>2, <1>3, <1>4, <1>6, <2>1, <2>2, WayStep DEF Phases
<1> QED BY <1>2, <1>5, <1>6 DEF Bind

(* Steps that stop the acquisition: nothing is sent or told any more. *)
LEMMA StopTracked ==
  ASSUME IInv, EvidenceInv, NEW p \in Operators, pc[p] \in Acquiring,
         NEW phase \in {"stop", "result", "raise", "idle"}, NEW now \in Locals,
         NEW c \in Chunks, c = local[p].chunk,
         Goto(p, phase), Set(p, now), UNCHANGED << claimed, halted, sent, valid >>,
         phase \in Acquiring => /\ now.chunk = c
                                /\ now.requests = local[p].requests /\ now.done = local[p].done,
         run' \in [Chunks -> Evidence],
         \A d \in Chunks \ {c} : run'[d] = run[d],
         run'[c].result = run[c].result, run'[c].events = run[c].events
  PROVE  EvidenceInv'
<1>1. OnTrack(pc[p], c, local[p])
  BY OnTrackNow
<1>2. run'[c].result = None
  BY <1>1 DEF OnTrack
<1>3. phase \in Acquiring => OnTrack(phase, c, now)'
  BY <1>1 DEF OnTrack, SentUpTo, ValidUpTo
<1>4. phase \in Phases \ {"guard", "preflight", "claim"}
  BY DEF Phases
<1> QED BY <1>2, <1>3, <1>4, WayStep

LEMMA IntentTracked ==
  ASSUME IInv, EvidenceInv, NEW p \in Operators, PutIntent(p)
  PROVE  EvidenceInv'
<1>1. pc[p] \in Acquiring /\ pc[p] = "intent" /\ UNCHANGED << claimed, halted, sent, valid >>
  BY DEF PutIntent, Acquiring
<1>2. PICK c \in Chunks : c = local[p].chunk
  BY <1>1, OnTrackNow
<1>3. OnTrack("intent", c, local[p]) /\ local[p] \in Locals
  BY <1>1, <1>2, OnTrackNow
<1>4. PICK phase \in {"stop", "dispatch"}, b \in BOOLEAN :
        /\ Goto(p, phase) /\ Set(p, [local[p] EXCEPT !.intent = b])
        /\ \/ phase = "stop" /\ (UNCHANGED run \/ Tear(c))
           \/ phase = "dispatch" /\ run' = [run EXCEPT ![c].intents = @ + 1]
  BY <1>2 DEF PutIntent
<1>5. PICK now \in Locals : now = [local[p] EXCEPT !.intent = b]
  BY <1>3, LocalTyped DEF IInv
<1>6. /\ now.chunk = c /\ now.entry = local[p].entry
      /\ now.requests = local[p].requests /\ now.done = local[p].done
      /\ Set(p, now)
  BY <1>2, <1>3, <1>4, <1>5 DEF Locals
<1>7. CASE phase = "stop" /\ (UNCHANGED run \/ Tear(c))
  <2>1. /\ run' \in [Chunks -> Evidence] /\ (\A d \in Chunks \ {c} : run'[d] = run[d])
        /\ run'[c].result = run[c].result /\ run'[c].events = run[c].events
    BY <1>7, TearStep DEF EvidenceInv, EvidenceTyped
  <2> QED BY <1>1, <1>2, <1>4, <1>6, <1>7, <2>1, StopTracked
<1>8. CASE phase = "dispatch" /\ run' = [run EXCEPT ![c].intents = @ + 1]
  <2>1. run[c] \in Evidence
    BY DEF EvidenceInv, EvidenceTyped
  <2>2. run' = [run EXCEPT ![c] = [run[c] EXCEPT !.intents = @ + 1]]
    BY <1>8
  <2>3. /\ [run[c] EXCEPT !.intents = @ + 1] \in Evidence
        /\ [run[c] EXCEPT !.intents = @ + 1].result = run[c].result
        /\ [run[c] EXCEPT !.intents = @ + 1].events = run[c].events
    BY <2>1, EvidenceUpdates DEF Evidence
  <2>4. /\ run' \in [Chunks -> Evidence] /\ (\A d \in Chunks \ {c} : run'[d] = run[d])
        /\ run'[c].result = None /\ run'[c].events = run[c].events
    BY <1>3, <2>2, <2>3, OneRun DEF EvidenceInv, OnTrack
  <2>5. OnTrack("dispatch", c, now)'
    BY <1>1, <1>3, <1>6, <2>4 DEF OnTrack, SentUpTo, ValidUpTo
  <2> QED BY <1>1, <1>2, <1>4, <1>6, <1>8, <2>4, <2>5, WayStep DEF Phases
<1> QED BY <1>4, <1>7, <1>8

LEMMA DispatchTracked ==
  ASSUME IInv, EvidenceInv, NEW p \in Operators, Dispatch(p)
  PROVE  EvidenceInv'
<1>1. pc[p] \in Acquiring /\ pc[p] = "dispatch" /\ UNCHANGED << claimed, run, halted, valid >>
  BY DEF Dispatch, Acquiring
<1>2. PICK c \in Chunks, n \in Entries : c = local[p].chunk /\ n = local[p].entry
  BY <1>1, OnTrackNow
<1>3. OnTrack("dispatch", c, local[p]) /\ local[p] \in Locals
  BY <1>1, <1>2, OnTrackNow
<1>4. run' \in [Chunks -> Evidence] /\ run'[c].result = None
  BY <1>1, <1>3 DEF EvidenceInv, EvidenceTyped, OnTrack
<1>5. CASE Goto(p, "stop") /\ UNCHANGED << local, sent >>
  <2>1. PICK now \in Locals : now = local[p]
    BY <1>3
  <2>2. Set(p, now)
    BY <1>5, <2>1, SameLocal
  <2> QED BY <1>1, <1>2, <1>4, <1>5, <2>1, <2>2, StopTracked
<1>6. CASE /\ Set(p, [local[p] EXCEPT !.requests = @ + 1])
           /\ sent' = [sent EXCEPT ![c][n] = @ + 1]
           /\ \E next \in {"receipt", "stop"} : Goto(p, next)
  <2>1. PICK phase \in {"receipt", "stop"} : Goto(p, phase)
    BY <1>6
  <2>2. PICK now \in Locals : now = [local[p] EXCEPT !.requests = @ + 1]
    BY LocalTyped DEF IInv
  <2>3. /\ Set(p, now) /\ now.chunk = c /\ now.entry = n
        /\ now.requests = local[p].requests + 1 /\ now.done = local[p].done
    BY <1>2, <1>3, <1>6, <2>2 DEF Locals
  <2>4. sent[c] \in [Entries -> Nat] /\ sent \in [Chunks -> [Entries -> Nat]]
    BY DEF IInv, TypeInv
  <2>5. sent' = [sent EXCEPT ![c] = [sent[c] EXCEPT ![n] = sent[c][n] + 1]]
    BY <1>6, <2>4
  <2>6. /\ \A d \in Chunks \ {c} : sent'[d] = sent[d]
        /\ \A m \in Entries : sent'[c][m] = IF m = n THEN sent[c][m] + 1 ELSE sent[c][m]
    BY <2>4, <2>5
  <2>7. local[p].requests = n - 1 /\ local[p].done = n - 1 /\ SentUpTo(c, n - 1)
    BY <1>2, <1>3 DEF OnTrack
  <2>8. SentUpTo(c, n)'
    <3>1. n \in 0 .. Requests
      BY DEF Entries
    <3>2. ASSUME NEW m \in Entries PROVE sent'[c][m] > 0 <=> m <= n
      <4>1. sent[c][m] > 0 <=> m <= n - 1
        BY <2>7 DEF SentUpTo
      <4>2. sent[c][m] \in Nat /\ m \in Nat /\ n \in Nat
        BY <2>4 DEF Entries
      <4> QED BY <2>6, <4>1, <4>2
    <3> QED BY <3>1, <3>2 DEF SentUpTo
  <2>9. OnTrack(phase, c, now)'
    <3>1. now.requests = n /\ now.done = n - 1
      BY <2>3, <2>7 DEF Entries
    <3>2. ValidUpTo(c, now.done)' /\ run'[c].events = now.done
      BY <1>1, <1>3, <2>3 DEF OnTrack, ValidUpTo
    <3> QED BY <1>4, <2>3, <2>8, <3>1, <3>2 DEF OnTrack
  <2> QED BY <1>1, <1>2, <1>4, <2>1, <2>3, <2>6, <2>9, WayStep DEF Phases
<1> QED BY <1>2, <1>5, <1>6 DEF Dispatch

LEMMA ReceiptTracked ==
  ASSUME IInv, EvidenceInv, NEW p \in Operators, PutReceipt(p)
  PROVE  EvidenceInv'
<1>1. pc[p] \in Acquiring /\ pc[p] = "receipt" /\ UNCHANGED << claimed, halted, sent, local >>
  BY DEF PutReceipt, Acquiring
<1>2. PICK c \in Chunks, now \in Locals : c = local[p].chunk /\ now = local[p]
  BY <1>1, OnTrackNow
<1>3. OnTrack("receipt", c, now) /\ now.entry \in Entries /\ now.requests \in Nat /\ now.done \in Nat
  BY <1>1, <1>2, OnTrackNow
<1>4. Set(p, now)
  BY <1>1, <1>2, SameLocal
<1>5. CASE Goto(p, "stop") /\ UNCHANGED valid /\ (Tear(c) \/ UNCHANGED run)
  <2>1. /\ run' \in [Chunks -> Evidence] /\ (\A d \in Chunks \ {c} : run'[d] = run[d])
        /\ run'[c].result = run[c].result /\ run'[c].events = run[c].events
    BY <1>5, TearStep DEF EvidenceInv, EvidenceTyped
  <2> QED BY <1>1, <1>2, <1>4, <1>5, <2>1, StopTracked
<1>6. CASE Goto(p, "event") /\ valid' = [valid EXCEPT ![c] = @ \cup {now.entry}] /\ UNCHANGED run
  <2>1. valid'[c] = valid[c] \cup {now.entry}
    BY <1>6 DEF EvidenceInv, EvidenceTyped
  <2>2. OnTrack("event", c, now)'
    BY <1>1, <1>3, <1>6, <2>1 DEF OnTrack, SentUpTo, ValidUpTo
  <2>3. run' \in [Chunks -> Evidence] /\ run'[c].result = None
    BY <1>3, <1>6 DEF EvidenceInv, EvidenceTyped, OnTrack
  <2> QED BY <1>1, <1>2, <1>3, <1>4, <1>6, <2>2, <2>3, WayStep DEF Phases
<1> QED BY <1>2, <1>5, <1>6 DEF PutReceipt

LEMMA EventTracked ==
  ASSUME IInv, EvidenceInv, NEW p \in Operators, PutEvent(p)
  PROVE  EvidenceInv'
<1>1. pc[p] \in Acquiring /\ pc[p] = "event" /\ UNCHANGED << claimed, halted, sent, valid >>
  BY DEF PutEvent, Acquiring
<1>2. PICK c \in Chunks : c = local[p].chunk
  BY <1>1, OnTrackNow
<1>3. OnTrack("event", c, local[p]) /\ local[p] \in Locals /\ local[p].entry \in Entries
  BY <1>1, <1>2, OnTrackNow
<1>4. CASE Goto(p, "stop") /\ Tear(c) /\ UNCHANGED local
  <2>1. PICK now \in Locals : now = local[p]
    BY <1>3
  <2>2. Set(p, now)
    BY <1>4, <2>1, SameLocal
  <2>3. /\ run' \in [Chunks -> Evidence] /\ (\A d \in Chunks \ {c} : run'[d] = run[d])
        /\ run'[c].result = run[c].result /\ run'[c].events = run[c].events
    BY <1>4, TearStep DEF EvidenceInv
  <2> QED BY <1>1, <1>2, <1>4, <2>1, <2>2, <2>3, StopTracked
<1>5. CASE /\ Goto(p, "checkpoint") /\ Set(p, [local[p] EXCEPT !.done = @ + 1])
           /\ run' = [run EXCEPT ![c].events = @ + 1]
  <2>1. PICK now \in Locals : now = [local[p] EXCEPT !.done = @ + 1]
    BY LocalTyped DEF IInv
  <2>2. /\ Set(p, now) /\ now.chunk = c /\ now.entry = local[p].entry
        /\ now.requests = local[p].requests /\ now.done = local[p].done + 1
    BY <1>2, <1>3, <1>5, <2>1 DEF Locals
  <2>3. run[c] \in Evidence
    BY DEF EvidenceInv, EvidenceTyped
  <2>4. run' = [run EXCEPT ![c] = [run[c] EXCEPT !.events = @ + 1]]
    BY <1>5
  <2>5. /\ [run[c] EXCEPT !.events = @ + 1] \in Evidence
        /\ [run[c] EXCEPT !.events = @ + 1].result = run[c].result
        /\ [run[c] EXCEPT !.events = @ + 1].events = run[c].events + 1
    BY <2>3, EvidenceUpdates DEF Evidence
  <2>6. /\ run' \in [Chunks -> Evidence] /\ (\A d \in Chunks \ {c} : run'[d] = run[d])
        /\ run'[c].result = None /\ run'[c].events = run[c].events + 1
    BY <1>3, <2>4, <2>5, OneRun DEF EvidenceInv, OnTrack
  <2>7. ValidUpTo(c, now.done)'
    <3>1. now.done = now.entry /\ now.entry \in valid[c] /\ ValidUpTo(c, now.entry - 1)
      BY <1>3, <2>2 DEF OnTrack, Entries
    <3>2. now.entry \in 1 .. Requests /\ Requests \in Nat
      BY <1>3, <2>2, RequestsPlanned DEF Entries
    <3>3. ASSUME NEW m \in Entries, m <= now.entry PROVE m \in valid[c]
      BY <3>1, <3>2, <3>3 DEF ValidUpTo, Entries
    <3> QED BY <1>1, <3>1, <3>2, <3>3 DEF ValidUpTo
  <2>8. OnTrack("checkpoint", c, now)'
    <3>1. now.done = now.entry /\ run[c].events = local[p].done /\ now.requests = now.entry
      BY <1>3, <2>2 DEF OnTrack, Entries
    <3>2. SentUpTo(c, now.requests)'
      BY <1>1, <1>3, <2>2 DEF OnTrack, SentUpTo
    <3> QED BY <2>2, <2>6, <2>7, <3>1, <3>2 DEF OnTrack
  <2> QED BY <1>1, <1>2, <1>5, <2>2, <2>6, <2>8, WayStep DEF Phases
<1> QED BY <1>2, <1>4, <1>5 DEF PutEvent

LEMMA CheckpointTracked ==
  ASSUME IInv, EvidenceInv, NEW p \in Operators, PutCheckpoint(p)
  PROVE  EvidenceInv'
<1>1. pc[p] \in Acquiring /\ pc[p] = "checkpoint" /\ UNCHANGED << claimed, halted, sent, valid >>
  BY DEF PutCheckpoint, Acquiring
<1>2. PICK c \in Chunks : c = local[p].chunk
  BY <1>1, OnTrackNow
<1>3. /\ OnTrack("checkpoint", c, local[p]) /\ local[p] \in Locals /\ local[p].entry \in Entries
      /\ local[p].requests \in Nat /\ local[p].done \in Nat
  BY <1>1, <1>2, OnTrackNow
<1>4. /\ run' \in [Chunks -> Evidence] /\ (\A d \in Chunks \ {c} : run'[d] = run[d])
      /\ run'[c].result = run[c].result /\ run'[c].events = run[c].events
  <2>1. run[c] \in Evidence
    BY DEF EvidenceInv, EvidenceTyped
  <2>2. CASE Tear(c)
    BY <2>2, TearStep DEF EvidenceInv
  <2>3. CASE run' = [run EXCEPT ![c].checkpoints = @ + 1]
    <3>1. run' = [run EXCEPT ![c] = [run[c] EXCEPT !.checkpoints = @ + 1]]
      BY <2>3
    <3>2. /\ [run[c] EXCEPT !.checkpoints = @ + 1] \in Evidence
          /\ [run[c] EXCEPT !.checkpoints = @ + 1].result = run[c].result
          /\ [run[c] EXCEPT !.checkpoints = @ + 1].events = run[c].events
      BY <2>1, EvidenceUpdates DEF Evidence
    <3> QED BY <3>1, <3>2, OneRun DEF EvidenceInv
  <2> QED BY <1>2, <2>2, <2>3 DEF PutCheckpoint
<1>5. CASE UNCHANGED local /\ \E phase \in {"stop", "result"} : Goto(p, phase)
  <2>1. PICK now \in Locals : now = local[p]
    BY <1>3
  <2>2. Set(p, now)
    BY <1>5, <2>1, SameLocal
  <2> QED BY <1>1, <1>2, <1>4, <1>5, <2>1, <2>2, StopTracked
<1>6. CASE /\ Goto(p, "intent") /\ local[p].entry # Requests
           /\ Set(p, [local[p] EXCEPT !.entry = local[p].entry + 1])
  <2>1. local[p].entry + 1 \in Entries
    BY <1>3, <1>6, RequestsPlanned DEF Entries
  <2>2. PICK now \in Locals : now = [local[p] EXCEPT !.entry = local[p].entry + 1]
    BY <2>1, LocalTyped DEF IInv
  <2>3. /\ Set(p, now) /\ now.chunk = c /\ now.entry = local[p].entry + 1
        /\ now.requests = local[p].requests /\ now.done = local[p].done
    BY <1>2, <1>3, <1>6, <2>2 DEF Locals
  <2>4. SentUpTo(c, now.requests)' /\ ValidUpTo(c, now.done)'
    BY <1>1, <1>3, <2>3 DEF OnTrack, SentUpTo, ValidUpTo
  <2>5. OnTrack("intent", c, now)'
    BY <1>3, <1>4, <2>3, <2>4 DEF OnTrack, Entries
  <2> QED BY <1>1, <1>2, <1>3, <1>4, <1>6, <2>3, <2>5, WayStep DEF Phases, OnTrack
<1> QED BY <1>2, <1>5, <1>6 DEF PutCheckpoint

LEMMA StopWritten ==
  ASSUME IInv, EvidenceInv, NEW p \in Operators, PutStop(p)
  PROVE  EvidenceInv'
<1>1. pc[p] \in Acquiring /\ UNCHANGED << claimed, halted, sent, valid, local >>
  BY DEF PutStop, Acquiring
<1>2. PICK c \in Chunks, now \in Locals : c = local[p].chunk /\ now = local[p]
  BY <1>1, OnTrackNow
<1>3. Set(p, now)
  BY <1>1, <1>2, SameLocal
<1>4. PICK phase \in {"result", "raise"} : Goto(p, phase)
  BY DEF PutStop
<1>5. /\ run' \in [Chunks -> Evidence] /\ (\A d \in Chunks \ {c} : run'[d] = run[d])
      /\ run'[c].result = run[c].result /\ run'[c].events = run[c].events
  <2>1. run[c] \in Evidence
    BY DEF EvidenceInv, EvidenceTyped
  <2>2. CASE Tear(c)
    BY <2>2, TearStep DEF EvidenceInv
  <2>3. ASSUME NEW x \in Stops, run' = [run EXCEPT ![c].stop = x]
        PROVE  /\ run' \in [Chunks -> Evidence] /\ (\A d \in Chunks \ {c} : run'[d] = run[d])
               /\ run'[c].result = run[c].result /\ run'[c].events = run[c].events
    <3>1. run' = [run EXCEPT ![c] = [run[c] EXCEPT !.stop = x]]
      BY <2>3
    <3>2. /\ [run[c] EXCEPT !.stop = x] \in Evidence
          /\ [run[c] EXCEPT !.stop = x].result = run[c].result
          /\ [run[c] EXCEPT !.stop = x].events = run[c].events
      BY <2>1, EvidenceUpdates DEF Evidence
    <3> QED BY <3>1, <3>2, OneRun DEF EvidenceInv
  <2>4. [ordinal |-> now.entry, done |-> now.done, requests |-> now.requests, intent |-> now.intent]
          \in Stops
    BY DEF Stops, Locals, Entries
  <2> QED BY <1>2, <2>2, <2>3, <2>4 DEF PutStop
<1> QED BY <1>1, <1>2, <1>3, <1>4, <1>5, StopTracked

LEMMA ResultTracked ==
  ASSUME IInv, EvidenceInv, NEW p \in Operators, PutResult(p)
  PROVE  EvidenceInv'
<1>1. pc[p] \in Acquiring /\ UNCHANGED << claimed, halted, sent, valid, local >>
  BY DEF PutResult, Acquiring
<1>2. PICK c \in Chunks, now \in Locals : c = local[p].chunk /\ now = local[p]
  BY <1>1, OnTrackNow
<1>3. Set(p, now)
  BY <1>1, <1>2, SameLocal
<1>4. CASE Tear(c) /\ Goto(p, "raise")
  <2>1. /\ run' \in [Chunks -> Evidence] /\ (\A d \in Chunks \ {c} : run'[d] = run[d])
        /\ run'[c].result = run[c].result /\ run'[c].events = run[c].events
    BY <1>4, TearStep DEF EvidenceInv
  <2> QED BY <1>1, <1>2, <1>3, <1>4, <2>1, StopTracked
<1>5. CASE run' = [run EXCEPT ![c].result = ResultOf(now.requests, now.done)] /\ Goto(p, "replay")
  <2>1. run[c] \in Evidence
    BY DEF EvidenceInv, EvidenceTyped
  <2>2. PICK x \in Results : x = ResultOf(now.requests, now.done)
    <3>1. now.requests \in Nat /\ now.done \in Nat
      BY DEF Locals
    <3>2. ResultOf(now.requests, now.done) \in Results
      BY <3>1 DEF Results, ResultOf
    <3> QED BY <3>2
  <2>3. run' = [run EXCEPT ![c] = [run[c] EXCEPT !.result = x]]
    BY <1>5, <2>2
  <2>4. /\ [run[c] EXCEPT !.result = x] \in Evidence
        /\ [run[c] EXCEPT !.result = x].result = x
        /\ [run[c] EXCEPT !.result = x].events = run[c].events
    BY <2>1, EvidenceUpdates DEF Evidence
  <2>5. /\ run' \in [Chunks -> Evidence] /\ (\A d \in Chunks \ {c} : run'[d] = run[d])
        /\ run'[c].result = x /\ run'[c].events = run[c].events
    BY <2>3, <2>4, OneRun DEF EvidenceInv
  <2>6. OnTrack(pc[p], c, now)
    BY <1>1, <1>2, OnTrackNow
  <2>7. x.requests = now.requests
    BY <2>2 DEF ResultOf
  <2>8. ResultTrue(c)'
    BY <1>1, <2>5, <2>6, <2>7 DEF ResultTrue, OnTrack, SentUpTo, ValidUpTo
  <2>9. EvidenceTyped' /\ c \in claimed /\ pc[p] # "idle"
    BY <1>1, <1>2, <2>5, OnTrackNow DEF EvidenceInv, EvidenceTyped
  <2> QED BY <1>1, <1>2, <1>3, <1>5, <2>5, <2>8, <2>9, TrackStep DEF Goto, Set, Phases, Acquiring
<1> QED BY <1>2, <1>4, <1>5 DEF PutResult

LEMMA CrashTracked ==
  ASSUME IInv, EvidenceInv, NEW p \in Operators, Crash(p)
  PROVE  EvidenceInv'
<1>1. pc[p] # "idle" /\ Leave(p) /\ UNCHANGED << claimed, halted, sent, valid >>
  BY DEF Crash
<1>2. PICK now \in Locals : now = Fresh(None)
  BY FreshTyped
<1>3. Goto(p, "idle") /\ Set(p, now)
  BY <1>1, <1>2 DEF Leave
<1>4. CASE pc[p] \in Acquiring
  <2>1. PICK c \in Chunks : c = local[p].chunk
    BY <1>4, OnTrackNow
  <2>2. Tear(c) \/ UNCHANGED run
    BY <2>1 DEF Crash
  <2>3. /\ run' \in [Chunks -> Evidence] /\ (\A d \in Chunks \ {c} : run'[d] = run[d])
        /\ run'[c].result = run[c].result /\ run'[c].events = run[c].events
    BY <2>2, TearStep DEF EvidenceInv, EvidenceTyped
  <2>4. "idle" \notin Acquiring
    BY DEF Acquiring
  <2> QED BY <1>1, <1>3, <1>4, <2>1, <2>3, <2>4, StopTracked
<1>5. CASE pc[p] \notin Acquiring
  <2>1. UNCHANGED run /\ halted' \in BOOLEAN
    BY <1>1, <1>5 DEF Crash, Acquiring, EvidenceInv, EvidenceTyped
  <2> QED BY <1>1, <1>3, <2>1, IdleStep DEF Phases, Acquiring
<1> QED BY <1>4, <1>5

LEMMA EvidenceStep == IInv /\ EvidenceInv /\ [Next]_vars => EvidenceInv'
<1> SUFFICES ASSUME IInv, EvidenceInv, [Next]_vars PROVE EvidenceInv'
  OBVIOUS
<1>1. CASE UNCHANGED vars
  BY <1>1 DEF vars, EvidenceInv, EvidenceTyped, OnTrack, ResultTrue, SentUpTo, ValidUpTo
<1>2. ASSUME NEW p \in Operators, NEW c \in Chunks, Begin(p, c) PROVE EvidenceInv'
  <2>1. /\ \A q \in Operators : pc[q] = "idle"
        /\ pc' = [pc EXCEPT ![p] = "guard"] /\ local' = [local EXCEPT ![p] = Fresh(c)]
        /\ UNCHANGED << claimed, run, halted, sent, valid >>
    BY <1>2, NoneIsNobody DEF Begin, IInv, LockInv, TypeInv, Goto, Set
  <2>2. /\ \A q \in Operators : pc'[q] \notin Acquiring
        /\ \A q \in Operators : pc'[q] \in {"guard", "preflight", "claim"}
                                  => local'[q] = Fresh(local'[q].chunk)
    BY <2>1 DEF IInv, TypeInv, Acquiring, Fresh
  <2> QED BY <2>1, <2>2 DEF EvidenceInv, EvidenceTyped, ResultTrue, SentUpTo, ValidUpTo
<1>3. ASSUME NEW p \in Operators, Guard(p) \/ Preflight(p) \/ ReplayRun(p) \/ Raise(p)
      PROVE  EvidenceInv'
  <2>1. /\ pc[p] # "idle" /\ UNCHANGED << claimed, run, sent, valid >>
        /\ halted' \in BOOLEAN
    BY <1>3 DEF Guard, Preflight, ReplayRun, Raise, EvidenceInv, EvidenceTyped
  <2>2. CASE Leave(p)
    BY <2>1, <2>2, FreshTyped, IdleStep DEF Leave, Phases, Acquiring
  <2>3. CASE UNCHANGED local /\ \E phase \in {"preflight", "claim", "raise"} : Goto(p, phase)
    <3>1. PICK phase \in {"preflight", "claim", "raise"} : Goto(p, phase)
      BY <2>3
    <3>2. PICK now \in Locals : now = local[p]
      BY LocalTyped DEF IInv
    <3>3. Set(p, now)
      BY <2>3, <3>2, SameLocal
    <3>4. phase # "raise" => pc[p] \in {"guard", "preflight"}
      BY <1>3, <3>1 DEF Guard, Preflight, ReplayRun, Raise, Goto, Leave, IInv, TypeInv
    <3>5. phase \in {"guard", "preflight", "claim"} => now = Fresh(now.chunk)
      BY <3>2, <3>4 DEF EvidenceInv
    <3> QED BY <2>1, <3>1, <3>3, <3>5, IdleStep DEF Phases, Acquiring
  <2> QED BY <1>3, <2>2, <2>3 DEF Guard, Preflight, ReplayRun, Raise
<1> QED BY <1>1, <1>2, <1>3, ClaimTracked, BindTracked, IntentTracked, DispatchTracked,
           ReceiptTracked, EventTracked, CheckpointTracked, StopWritten, ResultTracked,
           CrashTracked DEF Next, Execute

LEMMA InitTracked == Init => EvidenceInv
<1> SUFFICES ASSUME Init PROVE EvidenceInv
  OBVIOUS
<1>1. NoEvidence \in Evidence /\ NoEvidence.result = None
  BY DEF NoEvidence, Evidence
<1> QED BY <1>1 DEF Init, EvidenceInv, EvidenceTyped, Acquiring, ResultTrue

(* The evidence on disk follows the requests that went out. *)
THEOREM EvidenceInvariant == Spec => []EvidenceInv
BY InitTracked, EvidenceStep, ExecutionInvariant, PTL DEF Spec

(* Evidence that replays says the truth about the source. *)
THEOREM ReplayIsTrue == Spec => []ReplayedIsTrue
<1>1. IInv /\ EvidenceInv => ReplayedIsTrue
  <2> SUFFICES ASSUME IInv, EvidenceInv, NEW c \in Chunks, Replayable(c)
               PROVE  /\ run[c].result.requests = Cardinality({n \in Entries : sent[c][n] > 0})
                      /\ 1 .. run[c].events \subseteq valid[c]
    BY DEF ReplayedIsTrue
  <2>1. PICK k : k = run[c].result.requests
    OBVIOUS
  <2>2. SentUpTo(c, k) /\ ValidUpTo(c, run[c].events)
    BY <2>1 DEF EvidenceInv, ResultTrue, Replayable
  <2>3. k \in 0 .. Requests /\ {n \in Entries : sent[c][n] > 0} = 1 .. k
    BY <2>2, RequestsPlanned DEF SentUpTo, Entries
  <2>4. Cardinality(1 .. k) = k
    BY <2>3, FS_Interval, RequestsPlanned
  <2>5. 1 .. run[c].events \subseteq valid[c]
    BY <2>2, RequestsPlanned DEF ValidUpTo, Entries
  <2> QED BY <2>1, <2>3, <2>4, <2>5
<1> QED BY <1>1, ExecutionInvariant, EvidenceInvariant, PTL
-----------------------------------------------------------------------------
(* The campaign that the chunks make together.                             *)

LEMMA GuardStep == IInv /\ GuardInv /\ [Next]_vars => GuardInv'
<1> SUFFICES ASSUME IInv, GuardInv, [Next]_vars,
                    NEW q \in Operators, pc'[q] \in {"preflight", "claim"}
             PROVE  CampaignClear'
  BY DEF GuardInv
<1>1. CASE UNCHANGED vars
  BY <1>1 DEF vars, GuardInv, CampaignClear, CleanPass, Replayable
<1>2. ASSUME NEW p \in Operators, NEW c \in Chunks, Begin(p, c) PROVE FALSE
  <2>1. \A o \in Operators : pc[o] = "idle"
    BY <1>2, NoneIsNobody DEF Begin, IInv, LockInv
  <2> QED BY <1>2, <2>1 DEF Begin, Goto, IInv, TypeInv
<1>3. ASSUME NEW p \in Operators, Execute(p) \/ Crash(p) PROVE CampaignClear'
  <2>1. pc[p] # "idle" /\ \A o \in Operators : o # p => pc'[o] = pc[o]
    BY <1>3 DEF Execute, Guard, Preflight, Claim, Bind, PutIntent, Dispatch, PutReceipt, PutEvent,
         PutCheckpoint, PutStop, PutResult, ReplayRun, Raise, Crash, Goto, Leave, IInv, TypeInv
  <2>2. q = p
    BY <2>1, Alone
  <2>3. Guard(p) \/ Preflight(p)
    BY <1>3, <2>2 DEF Execute, Claim, Bind, PutIntent, Dispatch, PutReceipt, PutEvent,
         PutCheckpoint, PutStop, PutResult, ReplayRun, Raise, Crash, Goto, Leave, IInv, TypeInv
  <2>4. CampaignClear /\ UNCHANGED << claimed, run, halted >>
    <3>1. CASE Guard(p)
      BY <2>2, <3>1 DEF Guard, Goto, Leave, IInv, TypeInv
    <3>2. CASE Preflight(p)
      BY <3>2 DEF Preflight, GuardInv
    <3> QED BY <2>3, <3>1, <3>2
  <2> QED BY <2>4 DEF CampaignClear, CleanPass, Replayable
<1> QED BY <1>1, <1>2, <1>3 DEF Next

(* A chunk of which nothing changed has the status it had. *)
AtWork(c) == \E p \in Operators : pc[p] \in Acquiring /\ local[p].chunk = c

LEMMA StatusKept ==
  ASSUME NEW c, run'[c] = run[c], c \in claimed' <=> c \in claimed, AtWork(c)' <=> AtWork(c)
  PROVE  StatusOf(c)' = StatusOf(c)
<1>1. CleanPass(c)' <=> CleanPass(c)
  BY DEF CleanPass, Replayable
<1> QED BY <1>1 DEF StatusOf, AtWork

LEMMA StatusCases ==
  ASSUME NEW c
  PROVE  /\ StatusOf(c) \in {"open", "passed", "running", "dead"}
         /\ StatusOf(c) = "open" <=> c \notin claimed
         /\ CleanPass(c) /\ c \in claimed => StatusOf(c) = "passed"
         /\ ~CleanPass(c) /\ c \in claimed /\ AtWork(c) => StatusOf(c) = "running"
BY DEF StatusOf, AtWork

(* What a step of p does to the other chunks: nothing. *)
LEMMA OwnChunkOnly ==
  ASSUME IInv, EvidenceInv, NEW p \in Operators, Execute(p) \/ Crash(p),
         NEW c \in Chunks, c = local[p].chunk
  PROVE  /\ pc[p] # "idle"
         /\ \A d \in Chunks \ {c} : StatusOf(d)' = StatusOf(d)
         /\ AtWork(c) <=> pc[p] \in Acquiring
         /\ AtWork(c)' <=> pc'[p] \in Acquiring
<1>1. /\ pc[p] # "idle"
      /\ \A d \in Chunks \ {c} : run'[d] = run[d] /\ (d \in claimed' <=> d \in claimed)
      /\ \A q \in Operators : q # p => pc'[q] = pc[q] /\ local'[q] = local[q]
  <2>1. /\ pc[p] # "idle"
        /\ \A q \in Operators : q # p => pc'[q] = pc[q] /\ local'[q] = local[q]
    BY DEF Execute, Guard, Preflight, Claim, Bind, PutIntent, Dispatch, PutReceipt, PutEvent,
         PutCheckpoint, PutStop, PutResult, ReplayRun, Raise, Crash, Goto, Set, Leave,
         IInv, TypeInv
  <2>2. \/ run' = run
        \/ \E e : run' = [run EXCEPT ![c] = e]
    BY DEF Execute, Guard, Preflight, Claim, Bind, PutIntent, Dispatch, PutReceipt, PutEvent,
         PutCheckpoint, PutStop, PutResult, ReplayRun, Raise, Crash, Tear
  <2>3. claimed' = claimed \/ claimed' = claimed \cup {c}
    BY DEF Execute, Guard, Preflight, Claim, Bind, PutIntent, Dispatch, PutReceipt, PutEvent,
         PutCheckpoint, PutStop, PutResult, ReplayRun, Raise, Crash
  <2> QED BY <2>1, <2>2, <2>3 DEF EvidenceInv, EvidenceTyped
<1>2. pc'[p] \in Acquiring => local'[p].chunk = c
  BY LocalTyped DEF Execute, Guard, Preflight, Claim, Bind, PutIntent, Dispatch, PutReceipt, PutEvent,
         PutCheckpoint, PutStop, PutResult, ReplayRun, Raise, Crash, Goto, Set, Leave, Acquiring,
         IInv, TypeInv, Locals
<1>3. \A q \in Operators : q # p => pc[q] = "idle"
  BY <1>1, Alone
<1>4. \A d \in Chunks \ {c} : ~AtWork(d) /\ ~AtWork(d)'
  BY <1>1, <1>2, <1>3 DEF AtWork, Acquiring
<1>5. (AtWork(c) <=> pc[p] \in Acquiring) /\ (AtWork(c)' <=> pc'[p] \in Acquiring)
  BY <1>1, <1>2, <1>3 DEF AtWork, Acquiring
<1> QED BY <1>1, <1>4, <1>5, StatusKept

Statuses == [c \in Chunks |-> StatusOf(c)]

LEMMA BecomeStep ==
  ASSUME NEW c \in Chunks, NEW s, StatusOf(c)' = s,
         \A d \in Chunks \ {c} : StatusOf(d)' = StatusOf(d)
  PROVE  Statuses' = [Statuses EXCEPT ![c] = s]
BY DEF Statuses

LEMMA StayedSame ==
  ASSUME \A c \in Chunks : StatusOf(c)' = StatusOf(c)
  PROVE  Statuses' = Statuses
BY DEF Statuses

(* A step of a run in acquisition is none of the campaign's, or it ends    *)
(* the run, with a clean pass or without.                                  *)
LEMMA AcquiringRefines ==
  ASSUME IInv, EvidenceInv, EvidenceInv', NEW p \in Operators, Execute(p) \/ Crash(p),
         NEW c \in Chunks, c = local[p].chunk, pc[p] \in Acquiring
  PROVE  /\ halted' = halted
         /\ Statuses[c] = "running"
         /\ \E s \in {"running", "passed", "dead"} : Statuses' = [Statuses EXCEPT ![c] = s]
<1>1. UNCHANGED << claimed, halted >> /\ c \in claimed
  BY DEF Execute, Guard, Preflight, Claim, Bind, PutIntent, Dispatch, PutReceipt, PutEvent,
         PutCheckpoint, PutStop, PutResult, ReplayRun, Raise, Crash, Acquiring, IInv, ClaimInv
<1>2. ~CleanPass(c)
  BY OnTrackNow DEF CleanPass, Replayable, OnTrack
<1>3. StatusOf(c) = "running"
  BY <1>1, <1>2, OwnChunkOnly, StatusCases
<1>4. StatusOf(c)' \in {"running", "passed", "dead"}
  BY <1>1 DEF StatusOf
<1>5. Statuses' = [Statuses EXCEPT ![c] = StatusOf(c)']
  BY OwnChunkOnly, BecomeStep
<1> QED BY <1>1, <1>3, <1>4, <1>5 DEF Statuses

(* The claim starts the run, or loses it at once. *)
LEMMA ClaimRefines ==
  ASSUME IInv, EvidenceInv, GuardInv, NEW p \in Operators, Claim(p),
         NEW c \in Chunks, c = local[p].chunk
  PROVE  /\ halted' = halted
         /\ \/ Statuses' = Statuses
            \/ /\ ~halted /\ Statuses[c] = "open"
               /\ \A d \in Chunks : Statuses[d] \in {"open", "passed"}
               /\ \E s \in {"running", "dead"} : Statuses' = [Statuses EXCEPT ![c] = s]
<1>1. /\ pc[p] = "claim" /\ c \notin claimed /\ UNCHANGED << run, halted, local >>
      /\ run[c] = NoEvidence /\ CampaignClear /\ pc[p] \notin Acquiring
      /\ Execute(p)
  BY DEF Claim, IInv, ClaimInv, EvidenceInv, GuardInv, Acquiring, Execute
<1>2. ~AtWork(c) /\ \A d \in Chunks \ {c} : StatusOf(d)' = StatusOf(d)
  BY <1>1, OwnChunkOnly
<1>3. StatusOf(c) = "open" /\ \A d \in Chunks : StatusOf(d) \in {"open", "passed"}
  BY <1>1, StatusCases DEF CampaignClear
<1>4. CASE claimed' = claimed
  <2>1. pc'[p] = "raise"
    BY <1>1, <1>4 DEF Claim, Goto, IInv, TypeInv
  <2>2. ~AtWork(c)'
    BY <1>1, <2>1, OwnChunkOnly DEF Acquiring
  <2>3. StatusOf(c)' = StatusOf(c)
    BY <1>1, <1>2, <1>4, <2>2, StatusKept
  <2> QED BY <1>1, <1>2, <2>3, StayedSame
<1>5. CASE claimed' = claimed \cup {c}
  <2>1. ~CleanPass(c)'
    BY <1>1 DEF CleanPass, Replayable, NoEvidence
  <2>2. StatusOf(c)' \in {"running", "dead"}
    BY <1>5, <2>1 DEF StatusOf
  <2>3. Statuses' = [Statuses EXCEPT ![c] = StatusOf(c)']
    BY <1>2, BecomeStep
  <2> QED BY <1>1, <1>3, <2>2, <2>3 DEF Statuses, CampaignClear
<1> QED BY <1>4, <1>5 DEF Claim

(* What comes before the claim and after the result changes no status, and *)
(* halts the campaign only over a chunk that was claimed.                  *)
LEMMA OutsideRefines ==
  ASSUME IInv, EvidenceInv, NEW p \in Operators, Execute(p) \/ Crash(p), ~Claim(p),
         NEW c \in Chunks, c = local[p].chunk, pc[p] \notin Acquiring
  PROVE  /\ Statuses' = Statuses
         /\ halted' = halted \/ (halted' = TRUE /\ Statuses[c] # "open")
<1>1. UNCHANGED << claimed, run >> /\ pc'[p] \notin Acquiring
  BY DEF Execute, Guard, Preflight, Bind, PutIntent, Dispatch, PutReceipt, PutEvent,
         PutCheckpoint, PutStop, PutResult, ReplayRun, Raise, Crash, Acquiring, Goto, Leave,
         IInv, TypeInv
<1>2. StatusOf(c)' = StatusOf(c) /\ \A d \in Chunks \ {c} : StatusOf(d)' = StatusOf(d)
  BY <1>1, OwnChunkOnly, StatusKept
<1>3. Statuses' = Statuses
  BY <1>2, StayedSame
<1>4. halted' = halted \/ (halted' = TRUE /\ c \in claimed)
  BY DEF Execute, Guard, Preflight, Bind, PutIntent, Dispatch, PutReceipt, PutEvent,
         PutCheckpoint, PutStop, PutResult, ReplayRun, Raise, Crash, Acquiring,
         EvidenceInv, EvidenceTyped, Replayable
<1> QED BY <1>3, <1>4, StatusCases DEF Statuses

LEMMA CampaignStep ==
  ASSUME IInv, EvidenceInv, EvidenceInv', GuardInv, [Next]_vars
  PROVE  [Campaign!Next]_(Campaign!vars)
<1> USE DEF Campaign!Next, Campaign!vars, Campaign!Halt, Campaign!Start, Campaign!Pass,
            Campaign!Die, Campaign!Become, Campaign!Clear
<1>1. CASE UNCHANGED vars
  <2>1. \A c \in Chunks : StatusOf(c)' = StatusOf(c)
    BY <1>1, StatusKept DEF vars, AtWork
  <2> QED BY <1>1, <2>1 DEF vars
<1>2. ASSUME NEW p \in Operators, NEW b \in Chunks, Begin(p, b)
      PROVE  [Campaign!Next]_(Campaign!vars)
  <2>1. \A q \in Operators : pc[q] = "idle" /\ pc'[q] \in {"idle", "guard"}
    BY <1>2, NoneIsNobody DEF Begin, IInv, LockInv, TypeInv, Goto
  <2>2. \A c \in Chunks : ~AtWork(c) /\ ~AtWork(c)'
    BY <2>1 DEF AtWork, Acquiring
  <2>3. \A c \in Chunks : StatusOf(c)' = StatusOf(c)
    BY <1>2, <2>2, StatusKept DEF Begin
  <2> QED BY <1>2, <2>3 DEF Begin
<1>3. ASSUME NEW p \in Operators, Execute(p) \/ Crash(p)
      PROVE  [Campaign!Next]_(Campaign!vars)
  <2>0. pc[p] # "idle"
    BY <1>3 DEF Execute, Guard, Preflight, Claim, Bind, PutIntent, Dispatch, PutReceipt, PutEvent,
         PutCheckpoint, PutStop, PutResult, ReplayRun, Raise, Crash
  <2>1. PICK c \in Chunks : c = local[p].chunk
    BY <2>0, Alone
  <2>2. Statuses = [d \in Chunks |-> StatusOf(d)] /\ Statuses' = [d \in Chunks |-> StatusOf(d)']
    BY DEF Statuses
  <2>3. CASE pc[p] \in Acquiring
    <3>1. PICK s \in {"running", "passed", "dead"} : Statuses' = [Statuses EXCEPT ![c] = s]
      BY <1>3, <2>1, <2>3, AcquiringRefines
    <3>2. halted' = halted /\ Statuses[c] = "running"
      BY <1>3, <2>1, <2>3, AcquiringRefines
    <3>3. s = "running" => Statuses' = Statuses
      BY <2>2, <3>1, <3>2
    <3> HIDE DEF Statuses
    <3> QED BY <2>2, <3>1, <3>2, <3>3
  <2>4. CASE Claim(p)
    <3>1. halted' = halted
      BY <2>1, <2>4, ClaimRefines
    <3>2. CASE Statuses' = Statuses
      BY <2>2, <3>1, <3>2
    <3>3. CASE /\ ~halted /\ Statuses[c] = "open"
               /\ \A d \in Chunks : Statuses[d] \in {"open", "passed"}
               /\ \E s \in {"running", "dead"} : Statuses' = [Statuses EXCEPT ![c] = s]
      BY <2>2, <3>1, <3>3
    <3> QED BY <2>1, <2>4, <3>2, <3>3, ClaimRefines
  <2>5. CASE pc[p] \notin Acquiring /\ ~Claim(p)
    <3>1. /\ Statuses' = Statuses
          /\ halted' = halted \/ (halted' = TRUE /\ Statuses[c] # "open")
      BY <1>3, <2>1, <2>5, OutsideRefines
    <3> QED BY <2>2, <3>1
  <2> QED BY <2>3, <2>4, <2>5
<1> QED BY <1>1, <1>2, <1>3 DEF Next

(* The files, the lock and the guards keep the promise of the campaign. *)
THEOREM ImplementsCampaign == Spec => ImplementsChunkCampaign
<1>1. Init => Campaign!Init
  <2> SUFFICES ASSUME Init PROVE Campaign!Init
    OBVIOUS
  <2>1. \A c \in Chunks : StatusOf(c) = "open"
    BY StatusCases DEF Init
  <2> QED BY <2>1 DEF Init, Campaign!Init
<1>2. Init => GuardInv
  BY DEF Init, GuardInv
<1>3. Spec => []GuardInv
  BY <1>2, GuardStep, ExecutionInvariant, PTL DEF Spec
<1> QED BY <1>1, <1>3, CampaignStep, ExecutionInvariant, EvidenceInvariant, PTL
        DEF Spec, ImplementsChunkCampaign, Campaign!Spec

(* What TLC explores of the acquisition of chunks are behaviours of it.    *)
LEMMA ChunkBehaviour == EitherSpec => Spec
<1>1. EitherInit => Init
  BY DEF EitherInit
<1>2. [EitherNext]_<< part, vars, batch, staging >> => [Next]_vars
  BY DEF EitherNext, vars
<1> QED BY <1>1, <1>2, PTL DEF EitherSpec, Spec

-----------------------------------------------------------------------------
(* The batch of HistoryBatch.                                              *)
Operations == {"AUTHORIZATION", "ACCEPTANCE", "HEAD_ACK", "REVOCATION"}
Answering == {"examine", "reserve", "sign", "witness"}

BatchEvents == [by : Sessions, purpose : Operations \cup {"RESERVE"}, chunk : Nat]
Witnesses == [by : Sessions, sequence : Nat]
Packets == [issued : Seq(BatchEvents), witnessed : Seq(Witnesses)]

IssuerMemory ==
  [pc : Answering \cup {"none", "ready", "gone"}, op : Operations \cup {None},
   head : Seq(BatchEvents), whead : Seq(Witnesses), accepted : Nat, release : Nat,
   recorded : BOOLEAN, revoked : BOOLEAN, reply : Packets \cup {None}]

RunnerPhases ==
  {"new", "ready", "authorize", "authorizing", "claim", "running", "accept", "accepting", "append",
   "ack", "acking", "finished", "halting", "dying", "halted", "dead"}

RunnerMemory ==
  [pc : RunnerPhases, k : Nat, head : Seq(BatchEvents), whead : Seq(Witnesses), done : SUBSET Batch!Numbers]

MemoryTypes == issuer \in [Sessions -> IssuerMemory] /\ runner \in [Sessions -> RunnerMemory]

FileTypes ==
  /\ ij \in [events : Seq(BatchEvents), torn : BOOLEAN]
  /\ wj \in [events : Seq(Witnesses), torn : BOOLEAN]
  /\ ledger \in [events : Seq(Sessions \cup {ByHand}), torn : BOOLEAN]
  /\ status \in [Batch!Numbers -> {"open", "running", "passed", "dead"}]
  /\ by \in [Batch!Numbers -> Sessions \cup {ByHand, None}]

(* The issuer's journal has one author, who reserves each chunk before he  *)
(* releases it, and no chunk twice.                                        *)
JournalInv ==
  /\ Batch!OneIssuer
  /\ \A n \in 1 .. Len(ij.events) :
       ij.events[n].purpose = "AUTHORIZATION" =>
         n > 1 /\ ij.events[n - 1] = [ij.events[n] EXCEPT !.purpose = "RESERVE"]

(* What the ledger credits is passed and accepted by who appended it.      *)
CreditInv ==
  /\ Len(ledger.events) <= ChunkCount
  /\ \A k \in 1 .. Len(ledger.events) :
       /\ status[k] = "passed"
       /\ ledger.events[k] \in Sessions => Batch!Witnessed(ledger.events[k], "ACCEPTANCE", k)

(* A chunk that is claimed is not open any more, and a session claimed it  *)
(* with a release, after all before it.                                    *)
ClaimsInv ==
  \A k \in Batch!Numbers :
    /\ status[k] = "open" => by[k] = None
    /\ \A s \in Sessions : by[k] = s =>
         /\ Batch!Witnessed(s, "AUTHORIZATION", k) /\ Len(ledger.events) >= k - 1
         /\ \A j \in From[s] + 1 .. k - 1 : Batch!Witnessed(s, "HEAD_ACK", j)

(* How far an issuer's events may have come.                               *)
Released(i) == i.accepted + (IF i.release = 0 THEN 0 ELSE 1)

(* An issuer's head has its own events only; what it remembers bounds the  *)
(* chunks it has reserved; and an answer in the pipe is witnessed.         *)
IssuerOk(s, i, r) ==
  /\ \A n \in 1 .. Len(i.head) :
       i.head[n].by = s /\ (i.head[n].purpose = "RESERVE" => i.head[n].chunk <= Released(i))
  /\ i.release \in {0, i.accepted + 1} /\ (i.recorded => i.release # 0)
  /\ i.pc \in Answering => i.reply = None /\ i.op \in Operations
  /\ i.pc = "reserve" => i.op = "AUTHORIZATION" /\ i.release = 0 /\ r.k = i.accepted + 1
  /\ i.pc = "sign" /\ i.op = "AUTHORIZATION" =>
       /\ i.head # << >>
       /\ i.head[Len(i.head)] = [by |-> s, purpose |-> "RESERVE", chunk |-> i.release]
  /\ i.pc = "witness" => i.head # << >>
  /\ i.pc \in {"sign", "witness"} /\ i.op \in {"ACCEPTANCE", "HEAD_ACK"} => i.release # 0
  /\ r.pc \in {"new", "dead", "halted"} => i.pc \in {"none", "gone"}
  /\ i.reply # None =>
       LET issued == i.reply.issued  last == issued[Len(issued)]
       IN  issued # << >> /\ last.by = s /\ Batch!Witnessed(s, last.purpose, last.chunk)

(* What a runner has to show for where it is.                              *)
RunnerOk(s, r) ==
  /\ r.k \in From[s] + 1 .. To[s]
  /\ r.pc # "new" => Len(ledger.events) >= r.k - 1
  /\ \A j \in From[s] + 1 .. r.k - 1 : Batch!Witnessed(s, "HEAD_ACK", j)
  /\ r.pc = "claim" => Batch!Witnessed(s, "AUTHORIZATION", r.k)
  /\ r.pc = "append" => Batch!Witnessed(s, "ACCEPTANCE", r.k)
  /\ r.pc \in {"running", "accept", "accepting", "append", "ack", "acking"} => by[r.k] = s
  /\ r.pc \in {"ack", "acking"} => r.k <= Len(ledger.events) /\ ledger.events[r.k] = s
  /\ \A k \in r.done :
       /\ k \in 1 .. Len(ledger.events) /\ ledger.events[k] = s
       /\ by[k] = s /\ Batch!Witnessed(s, "HEAD_ACK", k)

BatchInv ==
  /\ FileTypes /\ MemoryTypes /\ JournalInv /\ CreditInv /\ ClaimsInv
  /\ \A s \in Sessions : IssuerOk(s, issuer[s], runner[s]) /\ RunnerOk(s, runner[s])

(* Whatever is appended, nothing is taken back.                            *)
Steady ==
  /\ Len(ij.events) <= Len(ij'.events) /\ \A n \in 1 .. Len(ij.events) : ij'.events[n] = ij.events[n]
  /\ Len(wj.events) <= Len(wj'.events) /\ \A n \in 1 .. Len(wj.events) : wj'.events[n] = wj.events[n]
  /\ Len(ledger.events) <= Len(ledger'.events)
  /\ \A n \in 1 .. Len(ledger.events) : ledger'.events[n] = ledger.events[n]
  /\ \A k \in Batch!Numbers, s \in Sessions : by[k] = s => by'[k] = s

LEMMA BatchNames ==
  /\ ChunkCount \in Nat /\ ByHand \notin Sessions /\ None \notin Sessions \cup {ByHand}
  /\ \A s \in Sessions : From[s] \in Nat \ {0} /\ To[s] \in From[s] + 1 .. ChunkCount
BY PartsConstants DEF PartsConstants, Batch!BatchConstants

LEMMA Lengths ==
  ASSUME FileTypes
  PROVE  Len(ij.events) \in Nat /\ Len(wj.events) \in Nat /\ Len(ledger.events) \in Nat
BY DEF FileTypes

LEMMA WitnessedKept ==
  ASSUME FileTypes, FileTypes', Steady, NEW s, NEW purpose, NEW k, Batch!Witnessed(s, purpose, k)
  PROVE  Batch!Witnessed(s, purpose, k)'
<1>1. PICK n \in 1 .. Len(ij.events) :
        /\ ij.events[n] = [by |-> s, purpose |-> purpose, chunk |-> k]
        /\ \E w \in 1 .. Len(wj.events) : wj.events[w] = [by |-> s, sequence |-> n]
  BY DEF Batch!Witnessed
<1>2. PICK w \in 1 .. Len(wj.events) : wj.events[w] = [by |-> s, sequence |-> n]
  BY <1>1
<1>3. n \in 1 .. Len(ij'.events) /\ ij'.events[n] = [by |-> s, purpose |-> purpose, chunk |-> k]
  BY <1>1, Lengths DEF Steady, FileTypes
<1>4. w \in 1 .. Len(wj'.events) /\ wj'.events[w] = [by |-> s, sequence |-> n]
  BY <1>2, Lengths DEF Steady, FileTypes
<1> QED BY <1>3, <1>4 DEF Batch!Witnessed

LEMMA IssuerStays ==
  ASSUME FileTypes, FileTypes', Steady, NEW s \in Sessions, NEW i \in IssuerMemory, NEW r \in RunnerMemory,
         IssuerOk(s, i, r)
  PROVE  IssuerOk(s, i, r)'
<1>1. i.reply # None =>
        LET issued == i.reply.issued  last == issued[Len(issued)]
        IN  issued # << >> /\ last.by = s /\ Batch!Witnessed(s, last.purpose, last.chunk)'
  BY WitnessedKept DEF IssuerOk
<1> QED BY <1>1 DEF IssuerOk, Released

LEMMA RunnerStays ==
  ASSUME FileTypes, FileTypes', Steady, NEW s \in Sessions, NEW r \in RunnerMemory, RunnerOk(s, r)
  PROVE  RunnerOk(s, r)'
<1>1. \A j \in From[s] + 1 .. r.k - 1 : Batch!Witnessed(s, "HEAD_ACK", j)'
  BY WitnessedKept DEF RunnerOk
<1>2. r.pc = "claim" => Batch!Witnessed(s, "AUTHORIZATION", r.k)'
  BY WitnessedKept DEF RunnerOk
<1>3. r.pc = "append" => Batch!Witnessed(s, "ACCEPTANCE", r.k)'
  BY WitnessedKept DEF RunnerOk
<1>4. r.k \in Batch!Numbers /\ Len(ledger.events) \in Nat /\ Len(ledger'.events) \in Nat
  BY BatchNames, Lengths DEF RunnerOk, Batch!Numbers, FileTypes
<1>5. r.pc \in {"running", "accept", "accepting", "append", "ack", "acking"} => by'[r.k] = s
  BY <1>4 DEF RunnerOk, Steady
<1>6. r.pc \in {"ack", "acking"} => r.k <= Len(ledger'.events) /\ ledger'.events[r.k] = s
  BY <1>4, BatchNames DEF RunnerOk, Steady, Batch!Numbers
<1>7. r.pc # "new" => Len(ledger'.events) >= r.k - 1
  BY <1>4 DEF RunnerOk, Steady, Batch!Numbers
<1>8. ASSUME NEW k \in r.done
      PROVE  /\ k \in 1 .. Len(ledger'.events) /\ ledger'.events[k] = s
             /\ by'[k] = s /\ Batch!Witnessed(s, "HEAD_ACK", k)'
  <2>1. /\ k \in 1 .. Len(ledger.events) /\ ledger.events[k] = s
        /\ by[k] = s /\ Batch!Witnessed(s, "HEAD_ACK", k) /\ k \in Batch!Numbers
    BY <1>8 DEF RunnerOk, RunnerMemory
  <2> QED BY <2>1, <1>4, WitnessedKept DEF Steady
<1> QED BY <1>1, <1>2, <1>3, <1>5, <1>6, <1>7, <1>8 DEF RunnerOk

(* One session moves, and the files as its step leaves them are in order.  *)
LEMMA SessionStep ==
  ASSUME BatchInv, FileTypes', Steady, JournalInv', CreditInv', ClaimsInv',
         NEW s \in Sessions, NEW i \in IssuerMemory, NEW r \in RunnerMemory,
         issuer' = [issuer EXCEPT ![s] = i], runner' = [runner EXCEPT ![s] = r],
         IssuerOk(s, i, r)', RunnerOk(s, r)'
  PROVE  BatchInv'
<1>1. FileTypes /\ issuer \in [Sessions -> IssuerMemory] /\ runner \in [Sessions -> RunnerMemory]
  BY DEF BatchInv, MemoryTypes
<1>2. issuer' \in [Sessions -> IssuerMemory] /\ runner' \in [Sessions -> RunnerMemory]
      /\ issuer'[s] = i /\ runner'[s] = r
  BY <1>1
<1>3. ASSUME NEW t \in Sessions
      PROVE  IssuerOk(t, issuer[t], runner[t])' /\ RunnerOk(t, runner[t])'
  <2>1. CASE t = s
    <3>1. PICK j, q : j = i /\ q = r /\ IssuerOk(s, j, q)' /\ RunnerOk(s, q)'
      OBVIOUS
    <3> QED BY <2>1, <1>2 DEF IssuerOk, RunnerOk, Released
  <2>2. CASE t # s
    <3>1. PICK j, q : j = issuer[t] /\ q = runner[t]
      OBVIOUS
    <3>2. j \in IssuerMemory /\ q \in RunnerMemory /\ IssuerOk(t, j, q) /\ RunnerOk(t, q)
      BY <1>1, <3>1 DEF BatchInv
    <3>3. IssuerOk(t, j, q)' /\ RunnerOk(t, q)'
      BY <1>1, <3>2, IssuerStays, RunnerStays
    <3>4. issuer'[t] = j /\ runner'[t] = q
      BY <1>1, <2>2, <3>1
    <3>5. RunnerOk(t, runner[t])'
      BY <3>3, <3>4 DEF RunnerOk
    <3>6. IssuerOk(t, issuer[t], runner[t])'
      BY <3>3, <3>4 DEF IssuerOk, Released
    <3> QED BY <3>5, <3>6
  <2> QED BY <2>1, <2>2
<1> QED BY <1>2, <1>3 DEF BatchInv, MemoryTypes

(* A session moves, and no file but for a part of one that breaks off.     *)
SameFiles ==
  /\ ij'.events = ij.events /\ wj'.events = wj.events /\ ledger'.events = ledger.events
  /\ UNCHANGED << status, by >>

LEMMA FilesKept ==
  ASSUME BatchInv, FileTypes', SameFiles
  PROVE  Steady /\ JournalInv' /\ CreditInv' /\ ClaimsInv'
<1>1. FileTypes /\ JournalInv /\ CreditInv /\ ClaimsInv
  BY DEF BatchInv
<1>2. Steady
  BY <1>1, Lengths DEF Steady, SameFiles
<1>3. JournalInv'
  BY <1>1 DEF SameFiles, JournalInv, Batch!OneIssuer
<1>4. CreditInv'
  <2>1. PICK credits : credits = ledger.events /\ ledger'.events = credits
    BY DEF SameFiles
  <2>2. Len(credits) <= ChunkCount /\ \A k \in 1 .. Len(credits) : status'[k] = "passed"
    BY <1>1, <2>1 DEF SameFiles, CreditInv
  <2>3. \A k \in 1 .. Len(credits) : credits[k] \in Sessions => Batch!Witnessed(credits[k], "ACCEPTANCE", k)'
    BY <1>1, <1>2, <2>1, WitnessedKept DEF CreditInv
  <2> QED BY <2>1, <2>2, <2>3 DEF CreditInv
<1>5. ClaimsInv'
  BY <1>1, <1>2, WitnessedKept DEF SameFiles, ClaimsInv
<1> QED BY <1>2, <1>3, <1>4, <1>5

LEMMA SilentStep ==
  ASSUME BatchInv, FileTypes', SameFiles,
         NEW s \in Sessions, NEW i \in IssuerMemory, NEW r \in RunnerMemory,
         issuer' = [issuer EXCEPT ![s] = i], runner' = [runner EXCEPT ![s] = r],
         IssuerOk(s, i, r), RunnerOk(s, r)
  PROVE  BatchInv'
<1>1. FileTypes /\ Steady /\ JournalInv' /\ CreditInv' /\ ClaimsInv'
  BY FilesKept DEF BatchInv
<1>2. IssuerOk(s, i, r)' /\ RunnerOk(s, r)'
  BY <1>1, IssuerStays, RunnerStays
<1> QED BY <1>1, <1>2, SessionStep

(* What a session remembers, before its step.                              *)
LEMMA Memories ==
  ASSUME BatchInv, NEW s \in Sessions
  PROVE  /\ issuer[s] \in IssuerMemory /\ runner[s] \in RunnerMemory
         /\ IssuerOk(s, issuer[s], runner[s]) /\ RunnerOk(s, runner[s])
         /\ issuer = [issuer EXCEPT ![s] = issuer[s]] /\ runner = [runner EXCEPT ![s] = runner[s]]
         /\ runner[s].k \in Batch!Numbers /\ runner[s].k \in Nat \ {0, 1}
<1>1. /\ issuer[s] \in IssuerMemory /\ runner[s] \in RunnerMemory
      /\ IssuerOk(s, issuer[s], runner[s]) /\ RunnerOk(s, runner[s])
  BY DEF BatchInv, MemoryTypes
<1>2. issuer = [issuer EXCEPT ![s] = issuer[s]] /\ runner = [runner EXCEPT ![s] = runner[s]]
  BY DEF BatchInv, MemoryTypes
<1>3. runner[s].k \in From[s] + 1 .. To[s]
  BY <1>1 DEF RunnerOk
<1> QED BY <1>1, <1>2, <1>3, BatchNames DEF Batch!Numbers

LEMMA InitializeKeeps ==
  ASSUME BatchInv, NEW s \in Sessions, Batch!Initialize(s)
  PROVE  BatchInv'
<1>1. PICK i, r : i = Batch!Process("ready", s, << >>, << >>) /\ r = Batch!Runner("ready", s, << >>, << >>)
  OBVIOUS
<1>2. i \in IssuerMemory /\ r \in RunnerMemory
  BY <1>1, BatchNames DEF Batch!Process, Batch!Runner, IssuerMemory, RunnerMemory, RunnerPhases
<1>3. Len(ledger.events) = From[s]
  BY DEF Batch!Initialize, Batch!LedgerReplays
<1>4. IssuerOk(s, i, r)
  BY <1>1 DEF IssuerOk, Batch!Process, Batch!Runner, Answering
<1>5. RunnerOk(s, r)
  BY <1>1, <1>3, BatchNames DEF RunnerOk, Batch!Runner
<1>6. FileTypes' /\ SameFiles /\ issuer' = [issuer EXCEPT ![s] = i] /\ runner' = [runner EXCEPT ![s] = r]
  BY <1>1 DEF Batch!Initialize, Batch!Memory, Batch!campaign, SameFiles, BatchInv, FileTypes
<1> QED BY <1>2, <1>4, <1>5, <1>6, SilentStep

LEMMA CallKeeps ==
  ASSUME BatchInv, NEW s \in Sessions, NEW op \in Operations, NEW from, NEW to \in RunnerPhases,
         Batch!Call(s, from, to, op),
         to \in {"ready", "finished"} => from = to,
         to \notin {"new", "claim", "running", "accept", "append", "ack", "dead", "halted"},
         to = "accepting" => from = "accept", to = "acking" => from = "ack", from # "new"
  PROVE  BatchInv'
<1>1. PICK i, r : i = [issuer[s] EXCEPT !.pc = "examine", !.op = op, !.reply = None]
                  /\ r = [runner[s] EXCEPT !.pc = to]
  OBVIOUS
<1>2. i \in IssuerMemory /\ r \in RunnerMemory
  BY <1>1, Memories DEF IssuerMemory, RunnerMemory, Answering
<1>3. IssuerOk(s, i, r)
  <2>1. PICK j : j = issuer[s] /\ j \in IssuerMemory /\ IssuerOk(s, j, runner[s])
    BY Memories
  <2>2. /\ i.head = j.head /\ i.accepted = j.accepted /\ i.release = j.release /\ i.recorded = j.recorded
        /\ i.pc = "examine" /\ i.op = op /\ i.reply = None /\ r.pc = to
    BY <1>1, <2>1, Memories DEF IssuerMemory, RunnerMemory
  <2> QED BY <2>1, <2>2 DEF IssuerOk, Answering, Released
<1>4. RunnerOk(s, r)
  BY <1>1, <1>2, Memories DEF RunnerOk, RunnerMemory, Batch!Call
<1>5. issuer' = [issuer EXCEPT ![s] = i] /\ runner' = [runner EXCEPT ![s] = r]
  BY <1>1, BatchNames DEF Batch!Call, Batch!GoRunner, BatchInv, MemoryTypes
<1>6. FileTypes' /\ SameFiles
  BY DEF Batch!Call, Batch!campaign, SameFiles, BatchInv, FileTypes
<1> QED BY <1>2, <1>3, <1>4, <1>5, <1>6, SilentStep

LEMMA CallsKeep ==
  ASSUME BatchInv, NEW s \in Sessions,
         Batch!Revoke(s) \/ Batch!CallAuthorize(s) \/ Batch!CallAccept(s) \/ Batch!CallAck(s)
  PROVE  BatchInv'
<1>1. CASE Batch!Revoke(s)
  <2>1. PICK at \in {"ready", "finished"} : Batch!Call(s, at, at, "REVOCATION")
    BY <1>1 DEF Batch!Revoke
  <2> QED BY <2>1, CallKeeps DEF Operations, RunnerPhases
<1>2. CASE Batch!CallAuthorize(s)
  BY <1>2, CallKeeps DEF Operations, RunnerPhases, Batch!CallAuthorize
<1>3. CASE Batch!CallAccept(s)
  BY <1>3, CallKeeps DEF Operations, RunnerPhases, Batch!CallAccept
<1>4. CASE Batch!CallAck(s)
  BY <1>4, CallKeeps DEF Operations, RunnerPhases, Batch!CallAck
<1> QED BY <1>1, <1>2, <1>3, <1>4

LEMMA RunStartKeeps ==
  ASSUME BatchInv, NEW s \in Sessions, Batch!RunStart(s)
  PROVE  BatchInv'
<1>1. PICK i, r : i = issuer[s] /\ r = [runner[s] EXCEPT !.pc = "authorize"]
  OBVIOUS
<1>2. i \in IssuerMemory /\ r \in RunnerMemory /\ runner[s].pc = "ready"
  BY <1>1, Memories DEF RunnerMemory, RunnerPhases, Batch!RunStart
<1>3. IssuerOk(s, i, r)
  BY <1>1, <1>2, Memories DEF IssuerOk, RunnerMemory, Released
<1>4. RunnerOk(s, r)
  BY <1>1, <1>2, Memories DEF RunnerOk, RunnerMemory
<1>5. issuer' = [issuer EXCEPT ![s] = i] /\ runner' = [runner EXCEPT ![s] = r]
  BY <1>1, Memories DEF Batch!RunStart, Batch!GoRunner
<1>6. FileTypes' /\ SameFiles
  BY DEF Batch!RunStart, Batch!campaign, SameFiles, BatchInv, FileTypes
<1> QED BY <1>2, <1>3, <1>4, <1>5, <1>6, SilentStep

(* What a runner takes from the pipe is witnessed, for its chunk.          *)
LEMMA AnswerWitnessed ==
  ASSUME BatchInv, NEW s \in Sessions, NEW purpose \in Operations,
         issuer[s].reply # None, Batch!Continues(s, purpose, issuer[s].reply)
  PROVE  issuer[s].reply \in Packets /\ Batch!Witnessed(s, purpose, runner[s].k)
<1>1. PICK packet, n, r : packet = issuer[s].reply /\ n = Len(packet.issued) /\ r = runner[s]
  OBVIOUS
<1>2. packet \in Packets /\ r \in RunnerMemory
  BY <1>1, Memories DEF IssuerMemory
<1>3. packet.issued[n].by = s /\ Batch!Witnessed(s, packet.issued[n].purpose, packet.issued[n].chunk)
  BY <1>1, Memories DEF IssuerOk
<1>4. packet.issued[n].purpose = purpose /\ packet.issued[n].chunk = r.k
  <2> DEFINE added == IF purpose = "AUTHORIZATION" THEN << "RESERVE", purpose >> ELSE << purpose >>
  <2>1. /\ n = Len(r.head) + Len(added) /\ packet.issued[n].chunk = r.k
        /\ \A m \in 1 .. Len(added) : packet.issued[Len(r.head) + m].purpose = added[m]
    BY <1>1 DEF Batch!Continues
  <2>2. Len(added) \in Nat \ {0} /\ added[Len(added)] = purpose
    OBVIOUS
  <2> HIDE DEF added
  <2>3. packet.issued[Len(r.head) + Len(added)].purpose = added[Len(added)]
    BY <2>1, <2>2
  <2> QED BY <2>1, <2>2, <2>3
<1> QED BY <1>1, <1>2, <1>3, <1>4

LEMMA TakeStep ==
  ASSUME BatchInv, NEW s \in Sessions, NEW r \in RunnerMemory, RunnerOk(s, r),
         r.pc \notin {"new", "dead", "halted"}, issuer[s].reply # None,
         runner' = [runner EXCEPT ![s] = r], issuer' = [issuer EXCEPT ![s].reply = None],
         UNCHANGED << status, by, ledger, ij, wj >>
  PROVE  BatchInv'
<1>1. PICK i : i = [issuer[s] EXCEPT !.reply = None]
  OBVIOUS
<1>2. i \in IssuerMemory
  BY <1>1, Memories DEF IssuerMemory
<1>4. IssuerOk(s, i, r)
  <2>1. PICK j : j = issuer[s] /\ j \in IssuerMemory /\ IssuerOk(s, j, runner[s])
    BY Memories
  <2>2. /\ i.head = j.head /\ i.accepted = j.accepted /\ i.release = j.release /\ i.recorded = j.recorded
        /\ i.pc = j.pc /\ i.op = j.op /\ i.reply = None /\ i.pc \notin Answering
    BY <1>1, <2>1 DEF IssuerMemory, IssuerOk
  <2> QED BY <2>1, <2>2 DEF IssuerOk, Answering, Released
<1>6. issuer' = [issuer EXCEPT ![s] = i]
  BY <1>1 DEF BatchInv, MemoryTypes
<1>7. FileTypes' /\ SameFiles
  BY DEF SameFiles, BatchInv, FileTypes
<1> QED BY <1>2, <1>4, <1>6, <1>7, SilentStep

LEMMA TakeReleaseKeeps ==
  ASSUME BatchInv, NEW s \in Sessions, Batch!TakeRelease(s)
  PROVE  BatchInv'
<1>1. PICK q, packet : q = runner[s] /\ q \in RunnerMemory /\ RunnerOk(s, q) /\ packet = issuer[s].reply
  BY Memories
<1>2. PICK r : /\ r = [pc |-> "claim", k |-> q.k, done |-> q.done,
                        head |-> packet.issued, whead |-> packet.witnessed]
               /\ packet # None /\ Batch!Continues(s, "AUTHORIZATION", packet) /\ q.pc = "authorizing"
               /\ runner' = [runner EXCEPT ![s] = r] /\ issuer' = [issuer EXCEPT ![s].reply = None]
               /\ UNCHANGED << status, by, ledger, ij, wj >>
  BY <1>1 DEF Batch!TakeRelease, Batch!Take, Batch!campaign
<1>3. packet \in Packets /\ Batch!Witnessed(s, "AUTHORIZATION", q.k)
  BY <1>1, <1>2, AnswerWitnessed DEF Operations
<1>4. r \in RunnerMemory
  BY <1>1, <1>2, <1>3 DEF RunnerMemory, RunnerPhases, Packets
<1>5. RunnerOk(s, r)
  BY <1>1, <1>2, <1>3 DEF RunnerOk
<1> QED BY <1>1, <1>2, <1>4, <1>5, TakeStep

LEMMA TakeAcceptanceKeeps ==
  ASSUME BatchInv, NEW s \in Sessions, Batch!TakeAcceptance(s)
  PROVE  BatchInv'
<1>1. PICK q, packet : q = runner[s] /\ q \in RunnerMemory /\ RunnerOk(s, q) /\ packet = issuer[s].reply
  BY Memories
<1>2. PICK r : /\ r = [pc |-> "append", k |-> q.k, done |-> q.done,
                        head |-> packet.issued, whead |-> packet.witnessed]
               /\ packet # None /\ Batch!Continues(s, "ACCEPTANCE", packet) /\ q.pc = "accepting"
               /\ runner' = [runner EXCEPT ![s] = r] /\ issuer' = [issuer EXCEPT ![s].reply = None]
               /\ UNCHANGED << status, by, ledger, ij, wj >>
  BY <1>1 DEF Batch!TakeAcceptance, Batch!Take, Batch!campaign
<1>3. packet \in Packets /\ Batch!Witnessed(s, "ACCEPTANCE", q.k)
  BY <1>1, <1>2, AnswerWitnessed DEF Operations
<1>4. r \in RunnerMemory
  BY <1>1, <1>2, <1>3 DEF RunnerMemory, RunnerPhases, Packets
<1>5. RunnerOk(s, r)
  BY <1>1, <1>2, <1>3 DEF RunnerOk
<1> QED BY <1>1, <1>2, <1>4, <1>5, TakeStep

LEMMA TakeAckKeeps ==
  ASSUME BatchInv, NEW s \in Sessions, Batch!TakeAck(s)
  PROVE  BatchInv'
<1>1. PICK q, packet : /\ q = runner[s] /\ q \in RunnerMemory /\ RunnerOk(s, q) /\ packet = issuer[s].reply
                       /\ q.k \in Batch!Numbers /\ q.k \in Nat
  BY Memories
<1>2. PICK r : /\ \/ q.k < To[s] /\ r.pc = "authorize" /\ r.k = q.k + 1
                  \/ r.pc = "finished" /\ r.k = q.k
               /\ r = [pc |-> r.pc, k |-> r.k, done |-> q.done \cup {q.k},
                       head |-> packet.issued, whead |-> packet.witnessed]
               /\ packet # None /\ Batch!Continues(s, "HEAD_ACK", packet) /\ q.pc = "acking"
               /\ runner' = [runner EXCEPT ![s] = r] /\ issuer' = [issuer EXCEPT ![s].reply = None]
               /\ UNCHANGED << status, by, ledger, ij, wj >>
  BY <1>1 DEF Batch!TakeAck, Batch!Take, Batch!campaign
<1>3. packet \in Packets /\ Batch!Witnessed(s, "HEAD_ACK", q.k)
  BY <1>1, <1>2, AnswerWitnessed DEF Operations
<1>4. q.k <= Len(ledger.events) /\ ledger.events[q.k] = s /\ by[q.k] = s /\ Len(ledger.events) \in Nat
  BY <1>1, <1>2, Lengths DEF RunnerOk, BatchInv
<1>5. r \in RunnerMemory /\ r.done = q.done \cup {q.k}
  BY <1>1, <1>2, <1>3 DEF RunnerMemory, RunnerPhases, Packets
<1>6. RunnerOk(s, r)
  <2>1. r.k \in From[s] + 1 .. To[s] /\ Len(ledger.events) >= r.k - 1
    <3>1. From[s] \in Nat /\ To[s] \in Nat /\ q.k \in From[s] + 1 .. To[s]
      BY <1>1, BatchNames DEF RunnerOk
    <3> QED BY <1>2, <1>4, <3>1
  <2>2. \A j \in From[s] + 1 .. r.k - 1 : Batch!Witnessed(s, "HEAD_ACK", j)
    BY <1>1, <1>2, <1>3, BatchNames DEF RunnerOk
  <2>3. ASSUME NEW j \in r.done
        PROVE  /\ j \in 1 .. Len(ledger.events) /\ ledger.events[j] = s
               /\ by[j] = s /\ Batch!Witnessed(s, "HEAD_ACK", j)
    BY <1>1, <1>3, <1>4, <1>5, <2>3 DEF RunnerOk, Batch!Numbers
  <2> QED BY <1>2, <2>1, <2>2, <2>3 DEF RunnerOk
<1>7. r.pc \notin {"new", "dead", "halted"} /\ issuer[s].reply # None
  BY <1>1, <1>2
<1> QED BY <1>2, <1>5, <1>6, <1>7, TakeStep

LEMMA FailKeeps ==
  ASSUME BatchInv, NEW s \in Sessions, Batch!Fail(s)
  PROVE  BatchInv'
<1>1. PICK i, q, end : i = issuer[s] /\ q = runner[s] /\ end \in {"halting", "dying"} /\ Batch!GoRunner(s, end)
  BY DEF Batch!Fail
<1>2. PICK r : r = [q EXCEPT !.pc = end]
  OBVIOUS
<1>3. /\ i \in IssuerMemory /\ q \in RunnerMemory /\ IssuerOk(s, i, q) /\ RunnerOk(s, q)
      /\ issuer = [issuer EXCEPT ![s] = i] /\ q.pc # "new"
  BY <1>1, Memories DEF Batch!Fail
<1>4. r \in RunnerMemory /\ r.k = q.k /\ r.done = q.done /\ r.pc = end
  BY <1>1, <1>2, <1>3 DEF RunnerMemory, RunnerPhases
<1>5. IssuerOk(s, i, r)
  BY <1>1, <1>3, <1>4 DEF IssuerOk
<1>6. RunnerOk(s, r)
  BY <1>1, <1>3, <1>4 DEF RunnerOk
<1>7. issuer' = [issuer EXCEPT ![s] = i] /\ runner' = [runner EXCEPT ![s] = r]
  BY <1>1, <1>2, <1>3 DEF Batch!Fail, Batch!GoRunner
<1>8. FileTypes' /\ SameFiles
  BY DEF Batch!Fail, Batch!campaign, Batch!Torn, SameFiles, BatchInv, FileTypes
<1> QED BY <1>3, <1>4, <1>5, <1>6, <1>7, <1>8, SilentStep

LEMMA GoneKeeps ==
  ASSUME BatchInv, NEW s \in Sessions, Batch!IssuerGone(s), UNCHANGED << status, by, ledger >>,
         NEW r \in RunnerMemory, runner' = [runner EXCEPT ![s] = r], RunnerOk(s, r)
  PROVE  BatchInv'
<1>1. PICK i, j : j = issuer[s] /\ i = [j EXCEPT !.pc = "gone"] /\ j \in IssuerMemory /\ IssuerOk(s, j, runner[s])
  BY Memories
<1>2. i \in IssuerMemory
  BY <1>1 DEF IssuerMemory
<1>3. IssuerOk(s, i, r)
  <2>1. /\ i.head = j.head /\ i.accepted = j.accepted /\ i.release = j.release /\ i.recorded = j.recorded
        /\ i.pc = "gone" /\ i.op = j.op /\ i.reply = j.reply
    BY <1>1 DEF IssuerMemory
  <2> QED BY <1>1, <2>1 DEF IssuerOk, Answering, Released
<1>4. issuer' = [issuer EXCEPT ![s] = i]
  BY <1>1 DEF Batch!IssuerGone, Batch!GoIssuer, BatchInv, MemoryTypes
<1>5. FileTypes' /\ SameFiles
  BY DEF Batch!IssuerGone, Batch!Torn, SameFiles, BatchInv, FileTypes
<1> QED BY <1>2, <1>3, <1>4, <1>5, SilentStep

LEMMA DiesKeeps ==
  ASSUME BatchInv, NEW s \in Sessions, Batch!IssuerDies(s)
  PROVE  BatchInv'
<1>1. PICK r : r = runner[s] /\ r \in RunnerMemory /\ RunnerOk(s, r) /\ runner = [runner EXCEPT ![s] = r]
  BY Memories
<1> QED BY <1>1, GoneKeeps DEF Batch!IssuerDies, Batch!campaign

LEMMA CloseKeeps ==
  ASSUME BatchInv, NEW s \in Sessions, Batch!Close(s)
  PROVE  BatchInv'
<1>1. PICK q : q = runner[s] /\ q \in RunnerMemory /\ RunnerOk(s, q) /\ q.pc \in {"halting", "dying"}
  BY Memories DEF Batch!Close
<1>2. PICK r : r = [q EXCEPT !.pc = IF q.pc = "halting" THEN "halted" ELSE "dead"]
  OBVIOUS
<1>3. r \in RunnerMemory /\ r.k = q.k /\ r.done = q.done /\ r.pc \in {"halted", "dead"}
  BY <1>1, <1>2 DEF RunnerMemory, RunnerPhases
<1>4. RunnerOk(s, r)
  BY <1>1, <1>3 DEF RunnerOk
<1>5. /\ runner' = [runner EXCEPT ![s] = r] /\ Batch!IssuerGone(s) /\ UNCHANGED << status, by, ledger >>
  BY <1>1, <1>2 DEF Batch!Close, Batch!GoRunner, Batch!campaign, BatchInv, MemoryTypes
<1> QED BY <1>3, <1>4, <1>5, GoneKeeps

LEMMA ExamineKeeps ==
  ASSUME BatchInv, NEW s \in Sessions, Batch!Examine(s)
  PROVE  BatchInv'
<1>1. PICK j, r : /\ j = issuer[s] /\ r = runner[s] /\ j \in IssuerMemory /\ r \in RunnerMemory
                  /\ IssuerOk(s, j, r) /\ RunnerOk(s, r) /\ runner = [runner EXCEPT ![s] = r]
                  /\ r.k \in Nat \ {0, 1}
  BY Memories
<1>2. PICK i : i = [j EXCEPT !.pc = IF j.op = "AUTHORIZATION" THEN "reserve" ELSE "sign"]
  OBVIOUS
<1>3. i \in IssuerMemory
  BY <1>1, <1>2 DEF IssuerMemory, Answering
<1>4. /\ i.head = j.head /\ i.accepted = j.accepted /\ i.release = j.release /\ i.recorded = j.recorded
      /\ i.op = j.op /\ i.reply = j.reply /\ i.op \in Operations /\ i.reply = None /\ j.pc = "examine"
      /\ i.pc = IF j.op = "AUTHORIZATION" THEN "reserve" ELSE "sign"
  BY <1>1, <1>2 DEF IssuerMemory, Batch!Examine, IssuerOk, Answering
<1>5. /\ i.op = "AUTHORIZATION" => r.k = i.accepted + 1 /\ i.release = 0
      /\ i.op = "ACCEPTANCE" => i.release = r.k
      /\ i.op = "HEAD_ACK" => i.recorded
  BY <1>1, <1>4 DEF Batch!Examine, Batch!Grants
<1>6. IssuerOk(s, i, r)
  BY <1>1, <1>4, <1>5 DEF IssuerOk, Answering, Released
<1>7. issuer' = [issuer EXCEPT ![s] = i] /\ runner' = [runner EXCEPT ![s] = r]
  BY <1>1, <1>2 DEF Batch!Examine, Batch!GoIssuer, BatchInv, MemoryTypes
<1>8. FileTypes' /\ SameFiles
  BY DEF Batch!Examine, Batch!campaign, SameFiles, BatchInv, FileTypes
<1> QED BY <1>1, <1>3, <1>6, <1>7, <1>8, SilentStep

(* Steps of the control centre, which no session notices.                  *)
LEMMA OutsideKeeps ==
  ASSUME BatchInv, FileTypes', Steady, JournalInv', CreditInv', ClaimsInv', UNCHANGED << issuer, runner >>
  PROVE  BatchInv'
<1>1. ASSUME NEW t \in Sessions
      PROVE  IssuerOk(t, issuer[t], runner[t])' /\ RunnerOk(t, runner[t])'
  <2>1. PICK j, q : j = issuer[t] /\ q = runner[t]
    OBVIOUS
  <2>2. j \in IssuerMemory /\ q \in RunnerMemory /\ IssuerOk(t, j, q) /\ RunnerOk(t, q) /\ FileTypes
    BY <2>1, Memories DEF BatchInv
  <2>3. IssuerOk(t, j, q)' /\ RunnerOk(t, q)'
    BY <2>2, IssuerStays, RunnerStays
  <2>4. issuer'[t] = j /\ runner'[t] = q
    BY <2>1
  <2>5. RunnerOk(t, runner[t])'
    BY <2>3, <2>4 DEF RunnerOk
  <2>6. IssuerOk(t, issuer[t], runner[t])'
    BY <2>3, <2>4 DEF IssuerOk, Released
  <2> QED BY <2>5, <2>6
<1> QED BY <1>1 DEF BatchInv, MemoryTypes

LEMMA HaltsKeep ==
  ASSUME BatchInv, Batch!HaltCampaign \/ Batch!ConflictByHand \/ UNCHANGED batch
  PROVE  BatchInv'
<1>1. FileTypes' /\ SameFiles /\ UNCHANGED << issuer, runner >>
  BY DEF Batch!HaltCampaign, Batch!Camp!Halt, Batch!ConflictByHand, Batch!campaign, Batch!Torn, batch,
         SameFiles, BatchInv, FileTypes
<1> QED BY <1>1, FilesKept, OutsideKeeps

-----------------------------------------------------------------------------
(* Steps that append to a journal.                                         *)
LEMMA AppendGrows ==
  ASSUME NEW S, NEW old \in Seq(S), NEW e \in S, NEW new, new = Append(old, e)
  PROVE  /\ new \in Seq(S) /\ Len(new) = Len(old) + 1 /\ Len(old) \in Nat
         /\ \A n \in 1 .. Len(old) : new[n] = old[n]
         /\ new[Len(old) + 1] = e /\ new # << >>
OBVIOUS

(* The issuer's journal grows: it is the issuer's head, and his own.       *)
LEMMA IssueKeeps ==
  ASSUME BatchInv, NEW s \in Sessions, NEW event \in BatchEvents, event.by = s,
         NEW i \in IssuerMemory, ij.events = issuer[s].head,
         ij' = [ij EXCEPT !.events = Append(@, event)], i.head = Append(issuer[s].head, event),
         issuer' = [issuer EXCEPT ![s] = i], UNCHANGED << status, by, ledger, wj, runner >>,
         IssuerOk(s, i, runner[s]),
         event.purpose = "RESERVE" => issuer[s].accepted < event.chunk /\ issuer[s].release = 0,
         event.purpose = "AUTHORIZATION" =>
           /\ issuer[s].head # << >>
           /\ issuer[s].head[Len(issuer[s].head)] = [event EXCEPT !.purpose = "RESERVE"]
  PROVE  BatchInv'
<1>1. PICK j, r : /\ j = issuer[s] /\ j \in IssuerMemory /\ r = runner[s] /\ r \in RunnerMemory
                  /\ IssuerOk(s, j, r) /\ RunnerOk(s, r) /\ runner = [runner EXCEPT ![s] = r]
  BY Memories
<1>2. PICK old, new : old = ij.events /\ new = Append(old, event)
  OBVIOUS
<1>3. FileTypes /\ old \in Seq(BatchEvents) /\ old = j.head
  BY <1>1, <1>2 DEF BatchInv, FileTypes
<1>4. /\ new \in Seq(BatchEvents) /\ Len(new) = Len(old) + 1 /\ Len(old) \in Nat
      /\ \A n \in 1 .. Len(old) : new[n] = old[n]
      /\ new[Len(old) + 1] = event
  BY <1>2, <1>3, AppendGrows
<1>5. ij' = [ij EXCEPT !.events = new] /\ ij'.events = new
  BY <1>2, <1>3 DEF FileTypes
<1>6. FileTypes'
  BY <1>3, <1>4, <1>5 DEF FileTypes
<1>7. Steady
  BY <1>2, <1>3, <1>4, <1>5, Lengths DEF Steady
<1>8. JournalInv'
  <2>1. \A n \in 1 .. Len(old) : old[n].by = s /\ (old[n].purpose = "RESERVE" => old[n].chunk <= Released(j))
    BY <1>1, <1>3 DEF IssuerOk
  <2>2. \A n \in 1 .. Len(new) : n = Len(new) \/ n \in 1 .. Len(old)
    BY <1>4
  <2>3. \A n \in 1 .. Len(new) : new[n].by = s
    BY <1>4, <2>1, <2>2
  <2>4. ASSUME event.purpose = "RESERVE", NEW n \in 1 .. Len(old) PROVE old[n] # event
    <3>1. Released(j) = j.accepted /\ j.accepted < event.chunk /\ j.accepted \in Nat /\ event.chunk \in Nat
      BY <1>1, <2>4 DEF Released, IssuerMemory, BatchEvents
    <3>2. old[n] = event => event.chunk <= j.accepted
      BY <2>1, <2>4, <3>1
    <3> QED BY <3>1, <3>2
  <2>5. ASSUME NEW m \in 1 .. Len(new), NEW n \in 1 .. Len(new), new[m].purpose = "RESERVE", new[n] = new[m]
        PROVE  m = n
    <3>1. CASE m \in 1 .. Len(old) /\ n \in 1 .. Len(old)
      <4>1. old[m].purpose = "RESERVE" /\ old[n] = old[m]
        BY <1>4, <2>5, <3>1
      <4> QED BY <1>2, <3>1, <4>1 DEF BatchInv, JournalInv, Batch!OneIssuer
    <3>2. CASE m = Len(new) /\ n \in 1 .. Len(old)
      BY <1>4, <2>4, <2>5, <3>2
    <3>3. CASE n = Len(new) /\ m \in 1 .. Len(old)
      BY <1>4, <2>4, <2>5, <3>3
    <3> QED BY <2>2, <3>1, <3>2, <3>3
  <2>6. ASSUME NEW n \in 1 .. Len(new), new[n].purpose = "AUTHORIZATION"
        PROVE  n > 1 /\ new[n - 1] = [new[n] EXCEPT !.purpose = "RESERVE"]
    <3>1. CASE n \in 1 .. Len(old)
      <4>1. new[n] = old[n] /\ n > 1 /\ old[n - 1] = [old[n] EXCEPT !.purpose = "RESERVE"]
        BY <1>2, <1>4, <2>6, <3>1 DEF BatchInv, JournalInv
      <4>2. n - 1 \in 1 .. Len(old)
        BY <1>4, <3>1, <4>1
      <4>3. new[n - 1] = old[n - 1]
        BY <1>4, <4>2
      <4> QED BY <4>1, <4>3
    <3>2. CASE n = Len(new)
      <4>1. new[n] = event /\ old # << >> /\ old[Len(old)] = [event EXCEPT !.purpose = "RESERVE"]
        BY <1>1, <1>3, <1>4, <2>6, <3>2
      <4>2. Len(old) > 0
        BY <1>3, <4>1
      <4> QED BY <1>4, <3>2, <4>1, <4>2
    <3> QED BY <2>2, <3>1, <3>2
  <2>7. \A m, n \in 1 .. Len(new) :
           /\ new[m].by = new[n].by
           /\ new[m].purpose = "RESERVE" /\ new[n] = new[m] => m = n
    BY <2>3, <2>5
  <2>8. \A n \in 1 .. Len(new) :
          new[n].purpose = "AUTHORIZATION" => n > 1 /\ new[n - 1] = [new[n] EXCEPT !.purpose = "RESERVE"]
    BY <2>6
  <2> QED BY <1>5, <2>7, <2>8 DEF JournalInv, Batch!OneIssuer
<1>9. CreditInv'
  <2>1. CreditInv /\ ledger' = ledger /\ status' = status
    BY DEF BatchInv
  <2> QED BY <1>3, <1>6, <1>7, <2>1, WitnessedKept DEF CreditInv
<1>10. ClaimsInv'
  <2>1. ClaimsInv /\ ledger' = ledger /\ status' = status /\ by' = by
    BY DEF BatchInv
  <2> QED BY <1>3, <1>6, <1>7, <2>1, WitnessedKept DEF ClaimsInv
<1>11. IssuerOk(s, i, r)' /\ RunnerOk(s, r)'
  BY <1>1, <1>3, <1>6, <1>7, IssuerStays, RunnerStays
<1> QED BY <1>1, <1>6, <1>7, <1>8, <1>9, <1>10, <1>11, SessionStep

LEMMA ReserveKeeps ==
  ASSUME BatchInv, NEW s \in Sessions, Batch!Reserve(s)
  PROVE  BatchInv'
<1>1. PICK j, r : /\ j = issuer[s] /\ j \in IssuerMemory /\ r = runner[s] /\ r \in RunnerMemory
                  /\ IssuerOk(s, j, r) /\ r.k \in Nat \ {0, 1}
  BY Memories
<1>2. PICK event : event = [by |-> s, purpose |-> "RESERVE", chunk |-> r.k]
  OBVIOUS
<1>3. PICK head : head = Append(j.head, event)
  OBVIOUS
<1>4. PICK i : i = [j EXCEPT !.pc = "sign", !.head = head, !.release = r.k]
  OBVIOUS
<1>5. event \in BatchEvents /\ event.by = s /\ event.purpose = "RESERVE" /\ event.chunk = r.k
  BY <1>1, <1>2 DEF BatchEvents
<1>6. /\ head \in Seq(BatchEvents) /\ Len(head) = Len(j.head) + 1 /\ Len(j.head) \in Nat
      /\ \A n \in 1 .. Len(j.head) : head[n] = j.head[n]
      /\ head[Len(j.head) + 1] = event /\ head # << >>
  BY <1>1, <1>3, <1>5, AppendGrows DEF IssuerMemory
<1>7. i \in IssuerMemory
  BY <1>1, <1>4, <1>6 DEF IssuerMemory, Answering
<1>8. /\ i.head = head /\ i.accepted = j.accepted /\ i.release = r.k /\ i.recorded = j.recorded /\ i.pc = "sign"
      /\ i.op = j.op /\ i.reply = j.reply /\ j.pc = "reserve" /\ j.accepted \in Nat
      /\ i.reply = None /\ i.op = "AUTHORIZATION" /\ j.release = 0 /\ r.k = j.accepted + 1
  BY <1>1, <1>4 DEF IssuerMemory, Batch!Reserve, IssuerOk, Answering
<1>9. IssuerOk(s, i, r)
  <2>1. ASSUME NEW n \in 1 .. Len(i.head)
        PROVE  i.head[n].by = s /\ (i.head[n].purpose = "RESERVE" => i.head[n].chunk <= Released(i))
    <3>1. CASE n = Len(head)
      BY <1>5, <1>6, <1>8, <3>1 DEF Released
    <3>2. CASE n \in 1 .. Len(j.head)
      <4>1. head[n] = j.head[n] /\ j.head[n] \in BatchEvents /\ Released(j) = j.accepted /\ Released(i) = j.accepted + 1
        BY <1>1, <1>6, <1>8, <3>2 DEF Released, IssuerMemory
      <4>2. j.head[n].by = s /\ (j.head[n].purpose = "RESERVE" => j.head[n].chunk <= j.accepted)
        BY <1>1, <3>2, <4>1 DEF IssuerOk
      <4> QED BY <1>8, <4>1, <4>2 DEF BatchEvents
    <3> QED BY <1>6, <1>8, <2>1, <3>1, <3>2
  <2>2. i.head # << >> /\ i.head[Len(i.head)] = [by |-> s, purpose |-> "RESERVE", chunk |-> i.release]
    BY <1>2, <1>6, <1>8
  <2>3. r.pc \notin {"new", "dead", "halted"}
    BY <1>1, <1>8 DEF IssuerOk
  <2> QED BY <1>8, <2>1, <2>2, <2>3 DEF IssuerOk, Operations
<1>10. /\ ij.events = issuer[s].head /\ ij' = [ij EXCEPT !.events = Append(@, event)]
       /\ UNCHANGED << status, by, ledger, wj, runner >>
  BY <1>1, <1>2 DEF Batch!Reserve, Batch!Issue, Batch!Intact, Batch!Extended, Batch!campaign
<1>11. issuer' = [issuer EXCEPT ![s] = i]
  <2>1. [j EXCEPT !.pc = "sign", !.head = Append(@, event), !.release = r.k] = i
    BY <1>1, <1>3, <1>4 DEF IssuerMemory
  <2>2. issuer' = [issuer EXCEPT ![s].pc = "sign", ![s].head = Append(@, event), ![s].release = r.k]
    BY <1>1, <1>2 DEF Batch!Reserve, Batch!Issue
  <2> QED BY <1>1, <2>1, <2>2 DEF BatchInv, MemoryTypes
<1>12. i.head = Append(issuer[s].head, event) /\ IssuerOk(s, i, runner[s])
       /\ issuer[s].accepted < event.chunk /\ issuer[s].release = 0
  BY <1>1, <1>3, <1>5, <1>8, <1>9
<1> QED BY <1>5, <1>7, <1>10, <1>11, <1>12, IssueKeeps

LEMMA SignKeeps ==
  ASSUME BatchInv, NEW s \in Sessions, Batch!Sign(s)
  PROVE  BatchInv'
<1>1. PICK j, r : /\ j = issuer[s] /\ j \in IssuerMemory /\ r = runner[s] /\ r \in RunnerMemory
                  /\ IssuerOk(s, j, r) /\ r.k \in Nat \ {0, 1}
  BY Memories
<1>2. PICK event : event = [by |-> s, purpose |-> j.op, chunk |-> j.release]
  OBVIOUS
<1>3. PICK head : head = Append(j.head, event)
  OBVIOUS
<1>4. PICK i : i = [j EXCEPT !.pc = "witness", !.head = head, !.release = j.release]
  OBVIOUS
<1>0. j.op \in Operations /\ j.pc = "sign" /\ j.reply = None
  BY <1>1 DEF Batch!Sign, IssuerOk, Answering
<1>5. event \in BatchEvents /\ event.by = s /\ event.purpose = j.op /\ event.purpose # "RESERVE"
  BY <1>0, <1>1, <1>2 DEF BatchEvents, IssuerMemory, Operations
<1>6. /\ head \in Seq(BatchEvents) /\ Len(head) = Len(j.head) + 1 /\ Len(j.head) \in Nat
      /\ \A n \in 1 .. Len(j.head) : head[n] = j.head[n]
      /\ head[Len(j.head) + 1] = event /\ head # << >>
  BY <1>1, <1>3, <1>5, AppendGrows DEF IssuerMemory
<1>7. i \in IssuerMemory
  BY <1>1, <1>4, <1>6 DEF IssuerMemory, Answering
<1>8. /\ i.head = head /\ i.accepted = j.accepted /\ i.release = j.release /\ i.recorded = j.recorded
      /\ i.pc = "witness" /\ i.op = j.op /\ i.reply = None
  BY <1>0, <1>1, <1>4 DEF IssuerMemory
<1>9. IssuerOk(s, i, r)
  <2>1. ASSUME NEW n \in 1 .. Len(i.head)
        PROVE  i.head[n].by = s /\ (i.head[n].purpose = "RESERVE" => i.head[n].chunk <= Released(i))
    <3>1. CASE n = Len(head)
      BY <1>5, <1>6, <1>8, <3>1
    <3>2. CASE n \in 1 .. Len(j.head)
      <4>1. head[n] = j.head[n] /\ Released(j) = Released(i)
        BY <1>6, <1>8, <3>2 DEF Released
      <4> QED BY <1>1, <1>8, <3>2, <4>1 DEF IssuerOk
    <3> QED BY <1>6, <1>8, <2>1, <3>1, <3>2
  <2>2. i.release \in {0, i.accepted + 1} /\ (i.recorded => i.release # 0)
    BY <1>1, <1>8 DEF IssuerOk
  <2>3. r.pc \notin {"new", "dead", "halted"} /\ (i.op \in {"ACCEPTANCE", "HEAD_ACK"} => i.release # 0)
    BY <1>0, <1>1, <1>8 DEF IssuerOk
  <2>4. i.head # << >> /\ i.op \in Operations
    BY <1>0, <1>6, <1>8
  <2> QED BY <1>8, <2>1, <2>2, <2>3, <2>4 DEF IssuerOk
<1>10. /\ ij.events = issuer[s].head /\ ij' = [ij EXCEPT !.events = Append(@, event)]
       /\ UNCHANGED << status, by, ledger, wj, runner >>
  BY <1>1, <1>2 DEF Batch!Sign, Batch!Guarded, Batch!Issue, Batch!Intact, Batch!Extended, Batch!campaign
<1>11. issuer' = [issuer EXCEPT ![s] = i]
  <2>1. [j EXCEPT !.pc = "witness", !.head = Append(@, event), !.release = j.release] = i
    BY <1>1, <1>3, <1>4 DEF IssuerMemory
  <2>2. issuer' = [issuer EXCEPT ![s].pc = "witness", ![s].head = Append(@, event), ![s].release = j.release]
    BY <1>1, <1>2 DEF Batch!Sign, Batch!Issue
  <2> QED BY <1>1, <2>1, <2>2 DEF BatchInv, MemoryTypes
<1>12. i.head = Append(issuer[s].head, event) /\ IssuerOk(s, i, runner[s])
  BY <1>1, <1>3, <1>8, <1>9
<1>13. event.purpose = "AUTHORIZATION" =>
           /\ issuer[s].head # << >>
           /\ issuer[s].head[Len(issuer[s].head)] = [event EXCEPT !.purpose = "RESERVE"]
  BY <1>0, <1>1, <1>2, <1>5 DEF IssuerOk
<1> QED BY <1>5, <1>7, <1>10, <1>11, <1>12, <1>13, IssueKeeps

LEMMA WitnessKeeps ==
  ASSUME BatchInv, NEW s \in Sessions, Batch!Witness(s)
  PROVE  BatchInv'
<1>1. PICK j, r : /\ j = issuer[s] /\ j \in IssuerMemory /\ r = runner[s] /\ r \in RunnerMemory
                  /\ IssuerOk(s, j, r) /\ RunnerOk(s, r) /\ runner = [runner EXCEPT ![s] = r]
  BY Memories
<1>2. PICK ack, new, whead, known :
        /\ ack = [by |-> s, sequence |-> Len(j.head)]
        /\ new = Append(wj.events, ack) /\ whead = Append(j.whead, ack) /\ known = Batch!Remember(j)
  OBVIOUS
<1>3. PICK i : i = [known EXCEPT !.pc = "ready", !.whead = whead,
                      !.reply = [issued |-> j.head, witnessed |-> whead]]
  OBVIOUS
<1>4. FileTypes /\ wj.events \in Seq(Witnesses) /\ j.head \in Seq(BatchEvents) /\ Len(j.head) \in Nat
      /\ j.whead \in Seq(Witnesses)
  BY <1>1 DEF BatchInv, FileTypes, IssuerMemory
<1>5. ack \in Witnesses
  BY <1>2, <1>4 DEF Witnesses
<1>6. /\ new \in Seq(Witnesses) /\ Len(new) = Len(wj.events) + 1 /\ Len(wj.events) \in Nat
      /\ \A n \in 1 .. Len(wj.events) : new[n] = wj.events[n]
      /\ new[Len(wj.events) + 1] = ack
  BY <1>2, <1>4, <1>5, AppendGrows
<1>7. whead \in Seq(Witnesses)
  BY <1>2, <1>4, <1>5
<1>8. /\ j.pc = "witness" /\ ij.events = j.head /\ wj' = [wj EXCEPT !.events = new]
      /\ UNCHANGED << status, by, ledger, ij, runner >>
  BY <1>1, <1>2 DEF Batch!Witness, Batch!Intact, Batch!Extended, Batch!campaign
<1>9. issuer' = [issuer EXCEPT ![s] = i]
  BY <1>1, <1>2, <1>3 DEF Batch!Witness
<1>10. wj'.events = new /\ FileTypes'
  BY <1>4, <1>6, <1>8 DEF FileTypes
<1>11. Steady
  BY <1>4, <1>6, <1>8, <1>10, Lengths DEF Steady
<1>12. j.op \in Operations /\ j.reply = None /\ j.head # << >>
  BY <1>1, <1>8 DEF IssuerOk, Answering
<1>13. /\ known \in IssuerMemory /\ known.head = j.head /\ Released(known) = Released(j)
       /\ known.release \in {0, known.accepted + 1} /\ (known.recorded => known.release # 0)
  <2>1. j.release \in {0, j.accepted + 1} /\ (j.op \in {"ACCEPTANCE", "HEAD_ACK"} => j.release # 0)
        /\ (j.recorded => j.release # 0) /\ j.accepted \in Nat
    BY <1>1, <1>8 DEF IssuerOk, IssuerMemory
  <2>2. CASE j.op = "AUTHORIZATION"
    <3>1. known = j
      BY <1>2, <2>2 DEF Batch!Remember
    <3> QED BY <1>1, <2>1, <3>1
  <2>3. CASE j.op = "ACCEPTANCE"
    <3>1. known = [j EXCEPT !.recorded = TRUE]
      BY <1>2, <2>3 DEF Batch!Remember
    <3> QED BY <1>1, <2>1, <2>3, <3>1 DEF IssuerMemory, Released
  <2>4. CASE j.op = "HEAD_ACK"
    <3>1. known = [j EXCEPT !.accepted = j.release, !.release = 0, !.recorded = FALSE]
      BY <1>2, <2>4 DEF Batch!Remember
    <3>2. j.release \in Nat /\ j.release = j.accepted + 1
      BY <2>1, <2>4
    <3>3. /\ known \in IssuerMemory /\ known.head = j.head /\ known.accepted = j.release
          /\ known.release = 0 /\ ~known.recorded
      BY <1>1, <3>1, <3>2 DEF IssuerMemory
    <3> QED BY <2>1, <3>2, <3>3 DEF Released
  <2>5. CASE j.op = "REVOCATION"
    <3>1. known = [j EXCEPT !.revoked = TRUE]
      BY <1>2, <2>5 DEF Batch!Remember
    <3> QED BY <1>1, <2>1, <2>5, <3>1 DEF IssuerMemory, Released
  <2> QED BY <1>12, <2>2, <2>3, <2>4, <2>5 DEF Operations
<1>14. /\ i \in IssuerMemory /\ i.head = j.head /\ Released(i) = Released(j) /\ i.pc = "ready"
       /\ i.release \in {0, i.accepted + 1} /\ (i.recorded => i.release # 0)
       /\ i.reply = [issued |-> j.head, witnessed |-> whead]
  BY <1>3, <1>4, <1>7, <1>13 DEF IssuerMemory, Packets, Released
<1>15. j.head[Len(j.head)].by = s
       /\ Batch!Witnessed(s, j.head[Len(j.head)].purpose, j.head[Len(j.head)].chunk)'
  <2>1. PICK n, last : n = Len(j.head) /\ last = j.head[n]
    OBVIOUS
  <2>2. n \in 1 .. Len(j.head) /\ last \in BatchEvents
    BY <1>4, <1>12, <2>1
  <2>3. last.by = s
    BY <1>1, <2>1, <2>2 DEF IssuerOk
  <2>4. last = [by |-> s, purpose |-> last.purpose, chunk |-> last.chunk]
    BY <2>2, <2>3 DEF BatchEvents
  <2>5. ij'.events[n] = last /\ n \in 1 .. Len(ij'.events)
    BY <1>8, <2>1, <2>2
  <2>6. Len(new) \in 1 .. Len(wj'.events) /\ wj'.events[Len(new)] = [by |-> s, sequence |-> n]
    BY <1>2, <1>6, <1>10, <2>1
  <2>7. Batch!Witnessed(s, last.purpose, last.chunk)'
    BY <2>4, <2>5, <2>6 DEF Batch!Witnessed
  <2> QED BY <2>1, <2>3, <2>7
<1>16. IssuerOk(s, i, r)'
  <2>1. r.pc \notin {"new", "dead", "halted"}
    BY <1>1, <1>8 DEF IssuerOk
  <2>2. \A n \in 1 .. Len(i.head) :
          i.head[n].by = s /\ (i.head[n].purpose = "RESERVE" => i.head[n].chunk <= Released(i))
    BY <1>1, <1>14 DEF IssuerOk
  <2>3. i.reply.issued = j.head
    BY <1>14
  <2> QED BY <1>12, <1>14, <1>15, <2>1, <2>2, <2>3 DEF IssuerOk, Answering, Released
<1>17. RunnerOk(s, r)'
  BY <1>1, <1>4, <1>10, <1>11, RunnerStays
<1>18. JournalInv' /\ CreditInv' /\ ClaimsInv'
  <2>1. JournalInv'
    BY <1>8 DEF BatchInv, JournalInv, Batch!OneIssuer
  <2>2. CreditInv /\ ClaimsInv /\ ledger' = ledger /\ status' = status /\ by' = by
    BY <1>8 DEF BatchInv
  <2>3. CreditInv'
    BY <1>4, <1>10, <1>11, <2>2, WitnessedKept DEF CreditInv
  <2>4. ClaimsInv'
    BY <1>4, <1>10, <1>11, <2>2, WitnessedKept DEF ClaimsInv
  <2> QED BY <2>1, <2>3, <2>4
<1>19. runner' = [runner EXCEPT ![s] = r]
  BY <1>1, <1>8
<1> QED BY <1>1, <1>9, <1>10, <1>11, <1>14, <1>16, <1>17, <1>18, <1>19, SessionStep

-----------------------------------------------------------------------------
(* Steps that append to the ledger.                                        *)
LEMMA CreditStep ==
  ASSUME BatchInv, NEW k \in Batch!Numbers, NEW who \in Sessions \cup {ByHand},
         ledger' = Batch!Extended(ledger, who), Batch!LedgerReplays(k - 1), Batch!Verified(k),
         who \in Sessions => Batch!Witnessed(who, "ACCEPTANCE", k),
         UNCHANGED << status, by, ij, wj >>
  PROVE  /\ FileTypes' /\ Steady /\ JournalInv' /\ CreditInv' /\ ClaimsInv'
         /\ Len(ledger.events) = k - 1 /\ Len(ledger'.events) = k /\ ledger'.events[k] = who
<1>1. PICK new : new = Append(ledger.events, who)
  OBVIOUS
<1>2. FileTypes /\ ledger.events \in Seq(Sessions \cup {ByHand}) /\ k \in Nat /\ k <= ChunkCount
  BY BatchNames DEF BatchInv, FileTypes, Batch!Numbers
<1>3. /\ new \in Seq(Sessions \cup {ByHand}) /\ Len(new) = Len(ledger.events) + 1 /\ Len(ledger.events) \in Nat
      /\ \A n \in 1 .. Len(ledger.events) : new[n] = ledger.events[n]
      /\ new[Len(ledger.events) + 1] = who
  BY <1>1, <1>2, AppendGrows
<1>4. ledger' = [ledger EXCEPT !.events = new] /\ ledger'.events = new
  BY <1>1, <1>2 DEF Batch!Extended, FileTypes
<1>5. FileTypes'
  BY <1>2, <1>3, <1>4 DEF FileTypes
<1>6. Steady
  BY <1>2, <1>3, <1>4, Lengths DEF Steady
<1>7. Len(ledger.events) = k - 1 /\ status[k] = "passed"
  BY DEF Batch!LedgerReplays, Batch!Verified
<1>8. Len(ledger'.events) = k /\ ledger'.events[k] = who
  BY <1>2, <1>3, <1>4, <1>7
<1>9. JournalInv'
  BY DEF BatchInv, JournalInv, Batch!OneIssuer
<1>10. CreditInv'
  <2> DEFINE Credited(m) ==
        status[m] = "passed"
          /\ (ledger.events[m] \in Sessions => Batch!Witnessed(ledger.events[m], "ACCEPTANCE", m))
  <2>1. ASSUME NEW m \in 1 .. Len(ledger'.events) PROVE Credited(m)'
    <3>1. CASE m = k
      <4>1. who \in Sessions => Batch!Witnessed(who, "ACCEPTANCE", k)'
        BY <1>2, <1>5, <1>6, WitnessedKept
      <4> QED BY <1>7, <1>8, <3>1, <4>1
    <3>2. CASE m \in 1 .. Len(ledger.events)
      <4>1. PICK w : w = ledger.events[m] /\ ledger'.events[m] = w
        BY <1>3, <1>4, <3>2
      <4>2. status[m] = "passed" /\ (w \in Sessions => Batch!Witnessed(w, "ACCEPTANCE", m))
        BY <3>2, <4>1 DEF BatchInv, CreditInv
      <4>3. w \in Sessions => Batch!Witnessed(w, "ACCEPTANCE", m)'
        BY <1>2, <1>5, <1>6, <4>2, WitnessedKept
      <4> QED BY <4>1, <4>2, <4>3
    <3> QED BY <1>2, <1>7, <1>8, <3>1, <3>2
  <2>2. Len(ledger'.events) <= ChunkCount
    BY <1>2, <1>8
  <2> QED BY <2>1, <2>2 DEF CreditInv
<1>11. ClaimsInv'
  <2>1. ClaimsInv /\ Len(ledger.events) \in Nat /\ Len(ledger'.events) \in Nat
        /\ Len(ledger.events) <= Len(ledger'.events)
    BY <1>2, <1>3, <1>7, <1>8 DEF BatchInv
  <2>2. ASSUME NEW m \in Batch!Numbers, NEW s \in Sessions, by[m] = s
        PROVE  /\ Batch!Witnessed(s, "AUTHORIZATION", m)' /\ Len(ledger'.events) >= m - 1
               /\ \A i \in From[s] + 1 .. m - 1 : Batch!Witnessed(s, "HEAD_ACK", i)'
    BY <1>2, <1>5, <1>6, <2>1, <2>2, WitnessedKept DEF ClaimsInv, Batch!Numbers
  <2> QED BY <2>1, <2>2 DEF ClaimsInv
<1> QED BY <1>5, <1>6, <1>7, <1>8, <1>9, <1>10, <1>11

LEMMA AppendKeeps ==
  ASSUME BatchInv, NEW s \in Sessions, Batch!AppendAcceptance(s)
  PROVE  BatchInv'
<1>1. PICK i, q : /\ i = issuer[s] /\ i \in IssuerMemory /\ q = runner[s] /\ q \in RunnerMemory
                  /\ IssuerOk(s, i, q) /\ RunnerOk(s, q) /\ issuer = [issuer EXCEPT ![s] = i]
                  /\ q.k \in Batch!Numbers /\ q.k \in Nat
  BY Memories
<1>2. PICK r : r = [q EXCEPT !.pc = "ack"]
  OBVIOUS
<1>3. /\ q.pc = "append" /\ Batch!LedgerReplays(q.k - 1) /\ Batch!Verified(q.k)
      /\ ledger' = Batch!Extended(ledger, s) /\ UNCHANGED << status, by, ij, wj, issuer >>
      /\ runner' = [runner EXCEPT ![s] = r]
  BY <1>1, <1>2 DEF Batch!AppendAcceptance, Batch!GoRunner, Batch!campaign, BatchInv, MemoryTypes
<1>4. Batch!Witnessed(s, "ACCEPTANCE", q.k) /\ by[q.k] = s
  BY <1>1, <1>3 DEF RunnerOk
<1>5. /\ FileTypes' /\ Steady /\ JournalInv' /\ CreditInv' /\ ClaimsInv'
      /\ Len(ledger'.events) = q.k /\ ledger'.events[q.k] = s
  BY <1>1, <1>3, <1>4, CreditStep
<1>6. r \in RunnerMemory /\ r.k = q.k /\ r.done = q.done /\ r.pc = "ack"
  BY <1>1, <1>2 DEF RunnerMemory, RunnerPhases
<1>7. IssuerOk(s, i, r)
  BY <1>1, <1>6 DEF IssuerOk
<1>8. FileTypes /\ IssuerOk(s, i, r)' /\ RunnerOk(s, q)'
  BY <1>1, <1>5, <1>6, <1>7, IssuerStays, RunnerStays DEF BatchInv
<1>9. RunnerOk(s, r)'
  BY <1>1, <1>3, <1>4, <1>5, <1>6, <1>8 DEF RunnerOk
<1>10. issuer' = [issuer EXCEPT ![s] = i]
  BY <1>1, <1>3
<1> QED BY <1>1, <1>3, <1>5, <1>6, <1>8, <1>9, <1>10, SessionStep

LEMMA AcceptByHandKeeps ==
  ASSUME BatchInv, Batch!AcceptByHand
  PROVE  BatchInv'
<1>1. PICK k : k = Len(ledger.events) + 1
  OBVIOUS
<1>2. /\ k \in Batch!Numbers /\ Batch!LedgerReplays(k - 1) /\ Batch!Verified(k)
      /\ ledger' \in {Batch!Extended(ledger, ByHand), Batch!Torn(ledger)}
      /\ UNCHANGED << status, by, ij, wj, issuer, runner >>
  BY <1>1 DEF Batch!AcceptByHand, Batch!campaign
<1>3. CASE ledger' = Batch!Extended(ledger, ByHand)
  <2>1. FileTypes' /\ Steady /\ JournalInv' /\ CreditInv' /\ ClaimsInv'
    BY <1>2, <1>3, BatchNames, CreditStep
  <2> QED BY <1>2, <2>1, OutsideKeeps
<1>4. CASE ledger' = Batch!Torn(ledger)
  <2>1. FileTypes' /\ SameFiles
    BY <1>2, <1>4 DEF Batch!Torn, SameFiles, BatchInv, FileTypes
  <2> QED BY <1>2, <2>1, FilesKept, OutsideKeeps
<1> QED BY <1>2, <1>3, <1>4

-----------------------------------------------------------------------------
(* Steps of the campaign: a chunk moves on, and perhaps is claimed.        *)
LEMMA CampaignMoves ==
  ASSUME BatchInv, NEW k \in Batch!Numbers, NEW u \in {"running", "passed", "dead"},
         status[k] # "passed", status' = [status EXCEPT ![k] = u],
         \/ by' = by
         \/ /\ status[k] = "open"
            /\ \E w \in Sessions \cup {ByHand} :
                 /\ by' = [by EXCEPT ![k] = w]
                 /\ w \in Sessions =>
                      /\ Batch!Witnessed(w, "AUTHORIZATION", k) /\ Len(ledger.events) >= k - 1
                      /\ \A j \in From[w] + 1 .. k - 1 : Batch!Witnessed(w, "HEAD_ACK", j),
         UNCHANGED << ledger, ij, wj >>
  PROVE  FileTypes' /\ Steady /\ JournalInv' /\ CreditInv' /\ ClaimsInv'
<1>1. FileTypes /\ JournalInv /\ CreditInv /\ ClaimsInv
  BY DEF BatchInv
<1>2. FileTypes'
  BY <1>1 DEF FileTypes
<1>3. Steady
  <2>1. ASSUME NEW m \in Batch!Numbers, NEW s \in Sessions, by[m] = s PROVE by'[m] = s
    <3>1. status[m] # "open"
      BY <1>1, <2>1, BatchNames DEF ClaimsInv
    <3> QED BY <1>1, <2>1, <3>1 DEF FileTypes
  <2> QED BY <1>1, <2>1, Lengths DEF Steady
<1>4. JournalInv'
  BY <1>1 DEF JournalInv, Batch!OneIssuer
<1>5. CreditInv'
  <2>1. \A m \in 1 .. Len(ledger.events) : m \in Batch!Numbers /\ m # k /\ status'[m] = "passed"
    BY <1>1, Lengths, BatchNames DEF CreditInv, FileTypes, Batch!Numbers
  <2>2. \A m \in 1 .. Len(ledger.events) :
          ledger.events[m] \in Sessions => Batch!Witnessed(ledger.events[m], "ACCEPTANCE", m)
    BY <1>1 DEF CreditInv
  <2>3. \A m \in 1 .. Len(ledger.events) :
          (ledger.events[m] \in Sessions => Batch!Witnessed(ledger.events[m], "ACCEPTANCE", m))'
    BY <2>2 DEF Batch!Witnessed
  <2> QED BY <1>1, <2>1, <2>3 DEF CreditInv
<1>6. ClaimsInv'
  <2>1. ASSUME NEW m \in Batch!Numbers
        PROVE  /\ status'[m] = "open" => by'[m] = None
               /\ \A s \in Sessions : by'[m] = s =>
                    /\ Batch!Witnessed(s, "AUTHORIZATION", m) /\ Len(ledger.events) >= m - 1
                    /\ \A j \in From[s] + 1 .. m - 1 : Batch!Witnessed(s, "HEAD_ACK", j)
    <3>1. CASE m = k
      BY <1>1, <2>1, <3>1 DEF ClaimsInv, FileTypes
    <3>2. CASE m # k
      BY <1>1, <2>1, <3>2 DEF ClaimsInv, FileTypes
    <3> QED BY <3>1, <3>2
  <2> QED BY <1>1, <1>2, <1>3, <2>1, WitnessedKept DEF ClaimsInv
<1> QED BY <1>2, <1>3, <1>4, <1>5, <1>6

LEMMA ClaimKeeps ==
  ASSUME BatchInv, NEW s \in Sessions, Batch!Claim(s)
  PROVE  BatchInv'
<1>1. PICK i, q : /\ i = issuer[s] /\ i \in IssuerMemory /\ q = runner[s] /\ q \in RunnerMemory
                  /\ IssuerOk(s, i, q) /\ RunnerOk(s, q) /\ issuer = [issuer EXCEPT ![s] = i]
                  /\ q.k \in Batch!Numbers /\ q.k \in Nat
  BY Memories
<1>2. PICK u \in {"running", "dead"}, to \in {"running", "halting"} :
        /\ q.pc = "claim" /\ status[q.k] = "open" /\ status' = [status EXCEPT ![q.k] = u]
        /\ by' = [by EXCEPT ![q.k] = s] /\ Batch!GoRunner(s, to)
        /\ UNCHANGED << ledger, ij, wj, issuer >>
  BY <1>1 DEF Batch!Claim, Batch!Camp!Start, Batch!Camp!Become
<1>3. PICK r : r = [q EXCEPT !.pc = to]
  OBVIOUS
<1>4. r \in RunnerMemory /\ r.k = q.k /\ r.done = q.done /\ r.pc = to
  BY <1>1, <1>2, <1>3 DEF RunnerMemory, RunnerPhases
<1>5. /\ Batch!Witnessed(s, "AUTHORIZATION", q.k) /\ Len(ledger.events) >= q.k - 1
      /\ \A j \in From[s] + 1 .. q.k - 1 : Batch!Witnessed(s, "HEAD_ACK", j)
  BY <1>1, <1>2 DEF RunnerOk
<1>6. FileTypes' /\ Steady /\ JournalInv' /\ CreditInv' /\ ClaimsInv'
  BY <1>1, <1>2, <1>5, CampaignMoves
<1>7. IssuerOk(s, i, r)
  BY <1>1, <1>2, <1>4 DEF IssuerOk
<1>8. FileTypes /\ IssuerOk(s, i, r)' /\ RunnerOk(s, q)'
  BY <1>1, <1>4, <1>6, <1>7, IssuerStays, RunnerStays DEF BatchInv
<1>9. by'[q.k] = s
  BY <1>1, <1>2, <1>8 DEF FileTypes
<1>10. RunnerOk(s, r)'
  BY <1>1, <1>2, <1>4, <1>8, <1>9 DEF RunnerOk
<1>11. issuer' = [issuer EXCEPT ![s] = i] /\ runner' = [runner EXCEPT ![s] = r]
  BY <1>1, <1>2, <1>3 DEF Batch!GoRunner, BatchInv, MemoryTypes
<1> QED BY <1>1, <1>4, <1>6, <1>8, <1>10, <1>11, SessionStep

LEMMA ChunkEnds ==
  ASSUME BatchInv, NEW s \in Sessions, Batch!ChunkPasses(s) \/ Batch!ChunkDies(s)
  PROVE  BatchInv'
<1>1. PICK i, q : /\ i = issuer[s] /\ i \in IssuerMemory /\ q = runner[s] /\ q \in RunnerMemory
                  /\ IssuerOk(s, i, q) /\ RunnerOk(s, q) /\ issuer = [issuer EXCEPT ![s] = i]
                  /\ q.k \in Batch!Numbers /\ q.k \in Nat
  BY Memories
<1>2. PICK u \in {"passed", "dead"}, to \in {"accept", "halting", "dying"} :
        /\ q.pc = "running" /\ status[q.k] = "running" /\ status' = [status EXCEPT ![q.k] = u]
        /\ Batch!GoRunner(s, to) /\ UNCHANGED << by, ledger, ij, wj, issuer >>
  BY <1>1 DEF Batch!ChunkPasses, Batch!ChunkDies, Batch!Camp!Pass, Batch!Camp!Die, Batch!Camp!Become
<1>3. PICK r : r = [q EXCEPT !.pc = to]
  OBVIOUS
<1>4. r \in RunnerMemory /\ r.k = q.k /\ r.done = q.done /\ r.pc = to
  BY <1>1, <1>2, <1>3 DEF RunnerMemory, RunnerPhases
<1>5. FileTypes' /\ Steady /\ JournalInv' /\ CreditInv' /\ ClaimsInv'
  BY <1>1, <1>2, CampaignMoves
<1>6. IssuerOk(s, i, r) /\ RunnerOk(s, r)
  BY <1>1, <1>2, <1>4 DEF IssuerOk, RunnerOk
<1>7. IssuerOk(s, i, r)' /\ RunnerOk(s, r)'
  BY <1>1, <1>4, <1>5, <1>6, IssuerStays, RunnerStays DEF BatchInv
<1>8. issuer' = [issuer EXCEPT ![s] = i] /\ runner' = [runner EXCEPT ![s] = r]
  BY <1>1, <1>2, <1>3 DEF Batch!GoRunner, BatchInv, MemoryTypes
<1> QED BY <1>1, <1>4, <1>5, <1>7, <1>8, SessionStep

LEMMA AcquireKeeps ==
  ASSUME BatchInv, NEW k \in Batch!Numbers, Batch!AcquireByHand(k)
  PROVE  BatchInv'
<1>1. UNCHANGED << ledger, ij, wj, issuer, runner >>
  BY DEF Batch!AcquireByHand
<1>2. PICK u \in {"running", "passed", "dead"} :
        /\ status[k] # "passed" /\ status' = [status EXCEPT ![k] = u]
        /\ by' = by \/ (status[k] = "open" /\ by' = [by EXCEPT ![k] = ByHand])
  BY DEF Batch!AcquireByHand, Batch!Camp!Start, Batch!Camp!Pass, Batch!Camp!Die, Batch!Camp!Become
<1>3. FileTypes' /\ Steady /\ JournalInv' /\ CreditInv' /\ ClaimsInv'
  BY <1>1, <1>2, BatchNames, CampaignMoves
<1> QED BY <1>1, <1>3, OutsideKeeps

-----------------------------------------------------------------------------
LEMMA BatchNext == BatchInv /\ [Batch!Next]_batch => BatchInv'
<1> SUFFICES ASSUME BatchInv, [Batch!Next]_batch PROVE BatchInv'
  OBVIOUS
<1>1. CASE Batch!HaltCampaign \/ Batch!ConflictByHand \/ UNCHANGED batch
  BY <1>1, HaltsKeep
<1>2. ASSUME NEW s \in Sessions, Batch!Run(s) PROVE BatchInv'
  BY <1>2, RunStartKeeps, CallsKeep, TakeReleaseKeeps, ClaimKeeps, ChunkEnds, TakeAcceptanceKeeps,
     AppendKeeps, TakeAckKeeps DEF Batch!Run
<1>3. ASSUME NEW s \in Sessions, Batch!Answer(s) PROVE BatchInv'
  BY <1>3, ExamineKeeps, ReserveKeeps, SignKeeps, WitnessKeeps DEF Batch!Answer
<1> QED BY <1>1, <1>2, <1>3, InitializeKeeps, CallsKeep, FailKeeps, CloseKeeps, DiesKeeps,
           AcceptByHandKeeps, AcquireKeeps DEF Batch!Next

LEMMA BatchInit == Batch!Init => BatchInv
<1> SUFFICES ASSUME Batch!Init PROVE BatchInv
  OBVIOUS
<1>1. /\ status = [k \in Batch!Numbers |-> "open"] /\ by = [k \in Batch!Numbers |-> None]
      /\ ledger = Batch!Empty /\ ij = Batch!Empty /\ wj = Batch!Empty
      /\ issuer = [s \in Sessions |-> Batch!Process("none", s, << >>, << >>)]
      /\ runner = [s \in Sessions |-> Batch!Runner("new", s, << >>, << >>)]
  BY DEF Batch!Init, Batch!Camp!Init
<1>2. FileTypes
  BY <1>1 DEF FileTypes, Batch!Empty
<1>3. ASSUME NEW s \in Sessions
      PROVE  /\ issuer[s] \in IssuerMemory /\ runner[s] \in RunnerMemory
             /\ IssuerOk(s, issuer[s], runner[s]) /\ RunnerOk(s, runner[s])
  <2>1. PICK i, r : i = Batch!Process("none", s, << >>, << >>) /\ r = Batch!Runner("new", s, << >>, << >>)
    OBVIOUS
  <2>2. issuer[s] = i /\ runner[s] = r
    BY <1>1, <2>1
  <2>3. i \in IssuerMemory /\ r \in RunnerMemory
    BY <2>1, BatchNames DEF Batch!Process, Batch!Runner, IssuerMemory, RunnerMemory, RunnerPhases
  <2>4. IssuerOk(s, i, r)
    BY <2>1 DEF IssuerOk, Batch!Process, Batch!Runner, Answering
  <2>5. RunnerOk(s, r)
    BY <2>1, BatchNames DEF RunnerOk, Batch!Runner
  <2> QED BY <2>2, <2>3, <2>4, <2>5
<1>4. MemoryTypes
  BY <1>1, <1>3 DEF MemoryTypes
<1>5. JournalInv /\ CreditInv
  BY <1>1, BatchNames DEF JournalInv, CreditInv, Batch!OneIssuer, Batch!Empty
<1>6. ClaimsInv
  BY <1>1, BatchNames DEF ClaimsInv
<1> QED BY <1>2, <1>3, <1>4, <1>5, <1>6 DEF BatchInv

(* The inductive invariant of the batch.                                   *)
THEOREM BatchInvariant == Batch!Spec => []BatchInv
<1> QED BY BatchInit, BatchNext, PTL DEF Batch!Spec, Batch!vars, batch

(* One session ever issues on the registered journals and reserves no      *)
(* chunk twice; a claim has a witnessed release that was reserved, and no  *)
(* chunk is taken before the last is acknowledged; credit is earned.       *)
THEOREM BatchesSound == EitherSpec => []BatchSound
<1>1. BatchInv => BatchSound
  <2> SUFFICES ASSUME BatchInv
               PROVE  Batch!OneIssuer /\ Batch!ClaimIsWitnessed /\ Batch!NoAutoNext /\ Batch!CreditIsEarned
    BY DEF BatchSound
  <2>1. FileTypes /\ JournalInv /\ CreditInv /\ ClaimsInv /\ \A s \in Sessions : RunnerOk(s, runner[s])
    BY DEF BatchInv
  <2>2. Batch!ClaimIsWitnessed
    <3> SUFFICES ASSUME NEW s \in Sessions, NEW k \in Batch!Numbers, by[k] = s, NEW n \in 1 .. Len(ij.events),
                        ij.events[n] = [by |-> s, purpose |-> "AUTHORIZATION", chunk |-> k]
                 PROVE  n > 1 /\ ij.events[n - 1] = [by |-> s, purpose |-> "RESERVE", chunk |-> k]
      BY <2>1 DEF Batch!ClaimIsWitnessed, ClaimsInv
    <3> QED BY <2>1 DEF JournalInv
  <2>3. Batch!NoAutoNext
    BY <2>1 DEF Batch!NoAutoNext, ClaimsInv
  <2>4. Batch!CreditIsEarned
    BY <2>1 DEF Batch!CreditIsEarned, CreditInv, RunnerOk
  <2> QED BY <2>1, <2>2, <2>3, <2>4 DEF JournalInv
<1>2. EitherInit => Batch!Init
  BY DEF EitherInit
<1>3. [EitherNext]_<< part, vars, batch, staging >> => [Batch!Next]_batch
  BY DEF EitherNext, batch
<1> QED BY <1>1, <1>2, <1>3, BatchInit, BatchNext, PTL DEF EitherSpec

-----------------------------------------------------------------------------
(* The staging campaign of StagingHistory.                                 *)
Cells == {None} \cup SUBSET Nat
Checkpoints == [Staging!Series -> [Staging!Months -> Cells]]
Stores == [Staging!Series -> SUBSET Nat]
Generations == [cp : Checkpoints, store : Stores, from : Nat, complete : BOOLEAN]

(* What is restored and not yet materialized.                              *)
Fetching == {"fetches", "fetched", "materializes"}
Runs == [at : Fetching \cup {"benchmark", "tpex", "manifest"}, date : Nat, base : Nat, pin : Nat,
         cp : Checkpoints, store : Stores, fresh : SUBSET (Staging!Series \X Nat), complete : BOOLEAN]

StagingTypes ==
  /\ today \in Nat /\ caches \in Seq(Generations)
  /\ pins \in Seq([Staging!TwseSymbols -> [Staging!Months -> Cells]])
  /\ work \in [Staging!Workers -> Runs \cup {Staging!NotDispatched, Staging!Over}]

(* A month that was fetched is as it was.                                  *)
Keeps(before, after) ==
  \A s \in Staging!Series, m \in Staging!Months : before[s][m] # None => after[s][m] = before[s][m]

(* StoreFromAccepted and StoreWhole, of one store.                         *)
FromAccepted(store) ==
  \A s \in Staging!TwseSymbols : store[s] # {} =>
    \E k \in 1 .. Len(pins) :
      store[s] = Staging!Newest(UNION {pins[k][s][m] : m \in {n \in Staging!Months : pins[k][s][n] # None}}, Retained)

WholeOrNothing(store) ==
  LET all(set, benchmark) == Staging!AlignedWith(store, set, benchmark)
      nothing(set) == \A s \in set : store[s] = {}
  IN  \/ nothing(Staging!Series)
      \/ /\ all(Staging!TwseSymbols, "TAIEX")
         /\ all(Staging!TpexSymbols, "TPEX") \/ nothing(Staging!TpexSymbols \cup {"TPEX"})

(* A run has of the generation it was restored from all that was fetched,  *)
(* and its store until it materializes; what it has of the TWSE was        *)
(* accepted at any time.                                                   *)
RunOk(r) ==
  /\ r.base <= Len(caches) /\ (r.base # 0 => Keeps(caches[r.base].cp, r.cp))
  /\ r.pin <= Len(pins) /\ FromAccepted(r.store)
  /\ r.at \in Fetching => WholeOrNothing(r.store)

GenerationOk(g) ==
  /\ g.from <= Len(caches) /\ (g.from # 0 => Keeps(caches[g.from].cp, g.cp))
  /\ FromAccepted(g.store) /\ WholeOrNothing(g.store)

StagingInv ==
  /\ StagingTypes /\ \A i \in 1 .. Len(caches) : GenerationOk(caches[i])
  /\ \A w \in Staging!Workers : work[w] \in Runs => RunOk(work[w])

LEMMA StagingNames ==
  /\ Staging!TwseSymbols \cap Staging!TpexSymbols = {}
  /\ {"TAIEX", "TPEX"} \cap (Staging!TwseSymbols \cup Staging!TpexSymbols) = {}
  /\ MonthDays \in Nat \ {0} /\ FirstDay \in Nat \ {0} /\ LastDay \in Nat \ {0}
  /\ {"TAIEX", "TPEX"} \subseteq Staging!Series
  /\ \A i \in 1 .. Len(TwseOrder) : TwseOrder[i] \in Staging!TwseSymbols
  /\ \A i \in 1 .. Len(TpexOrder) : TpexOrder[i] \in Staging!TpexSymbols
  /\ Staging!TwseSymbols \cup Staging!TpexSymbols \subseteq Staging!Series
BY PartsConstants DEF PartsConstants, Staging!StagingConstants, Staging!Series

LEMMA FetchingRun == Staging!NotDispatched \notin Runs /\ Staging!Over \notin Runs
BY DEF Staging!NotDispatched, Staging!Over, Runs, Fetching

LEMMA WorkingRuns ==
  ASSUME StagingInv, NEW w \in Staging!Workers, work[w].at \notin {"waits", "over"}
  PROVE  work[w] \in Runs /\ RunOk(work[w])
BY DEF StagingInv, StagingTypes, Staging!NotDispatched, Staging!Over

(* What is cached and what is accepted stays.                              *)
Growing ==
  /\ Len(caches) <= Len(caches') /\ \A i \in 1 .. Len(caches) : caches'[i] = caches[i]
  /\ Len(pins) <= Len(pins') /\ \A i \in 1 .. Len(pins) : pins'[i] = pins[i]

LEMMA StagingLengths ==
  ASSUME StagingTypes
  PROVE  Len(caches) \in Nat /\ Len(pins) \in Nat
BY DEF StagingTypes

LEMMA AcceptedStays ==
  ASSUME StagingTypes, StagingTypes', Growing, NEW store, FromAccepted(store)
  PROVE  FromAccepted(store)'
<1> SUFFICES ASSUME NEW s \in Staging!TwseSymbols, store[s] # {}
             PROVE  \E k \in 1 .. Len(pins') :
                      store[s] = Staging!Newest(UNION {pins'[k][s][m] :
                                    m \in {n \in Staging!Months : pins'[k][s][n] # None}}, Retained)
  BY DEF FromAccepted
<1>1. PICK k \in 1 .. Len(pins) :
        store[s] = Staging!Newest(UNION {pins[k][s][m] : m \in {n \in Staging!Months : pins[k][s][n] # None}}, Retained)
  BY DEF FromAccepted
<1>2. k \in 1 .. Len(pins') /\ pins'[k] = pins[k]
  BY StagingLengths DEF Growing, StagingTypes
<1> QED BY <1>1, <1>2

LEMMA RunStays ==
  ASSUME StagingTypes, StagingTypes', Growing, NEW r \in Runs, RunOk(r)
  PROVE  RunOk(r)'
<1>1. FromAccepted(r.store)'
  BY AcceptedStays DEF RunOk
<1>2. r.base \in Nat /\ r.pin \in Nat /\ Len(caches) \in Nat /\ Len(pins) \in Nat
      /\ Len(caches') \in Nat /\ Len(pins') \in Nat
  BY DEF StagingTypes, Runs
<1>3. r.base # 0 => caches'[r.base] = caches[r.base]
  BY <1>2 DEF RunOk, Growing
<1> QED BY <1>1, <1>2, <1>3 DEF RunOk, Growing

LEMMA GenerationStays ==
  ASSUME StagingTypes, StagingTypes', Growing, NEW g \in Generations, GenerationOk(g)
  PROVE  GenerationOk(g)'
<1>1. FromAccepted(g.store)'
  BY AcceptedStays DEF GenerationOk
<1>2. g.from \in Nat /\ Len(caches) \in Nat /\ Len(caches') \in Nat
  BY DEF StagingTypes, Generations
<1>3. g.from # 0 => caches'[g.from] = caches[g.from]
  BY <1>2 DEF GenerationOk, Growing
<1> QED BY <1>1, <1>2, <1>3 DEF GenerationOk, Growing

(* A run moves on, and nothing is saved.                                   *)
LEMMA WorkStep ==
  ASSUME StagingInv, NEW w \in Staging!Workers, NEW r \in Runs \cup {Staging!Over},
         work' = [work EXCEPT ![w] = r], r \in Runs => RunOk(r), UNCHANGED << today, caches, pins >>
  PROVE  StagingInv'
<1>1. StagingTypes /\ StagingTypes'
  BY DEF StagingInv, StagingTypes
<1>2. Growing
  BY <1>1, StagingLengths DEF Growing
<1>3. ASSUME NEW v \in Staging!Workers, work'[v] \in Runs PROVE RunOk(work[v])'
  <2>1. PICK q : q = work'[v]
    OBVIOUS
  <2>2. RunOk(q)
    BY <1>1, <1>3, <2>1 DEF StagingInv, StagingTypes
  <2> QED BY <1>1, <1>2, <1>3, <2>1, <2>2, RunStays DEF RunOk, FromAccepted
<1>4. ASSUME NEW i \in 1 .. Len(caches) PROVE GenerationOk(caches[i])'
  <2>1. PICK g : g = caches[i] /\ caches'[i] = g
    OBVIOUS
  <2>2. GenerationOk(g) /\ g \in Generations
    BY <1>1, <2>1 DEF StagingInv, StagingTypes
  <2>3. GenerationOk(g)'
    BY <1>1, <1>2, <2>2, GenerationStays
  <2> QED BY <2>1, <2>3 DEF GenerationOk, FromAccepted
<1> QED BY <1>1, <1>3, <1>4 DEF StagingInv

(* A run saves a generation.                                               *)
LEMMA SaveStep ==
  ASSUME StagingInv, NEW w \in Staging!Workers, NEW r \in Runs \cup {Staging!Over},
         work' = [work EXCEPT ![w] = r], r \in Runs => RunOk(r),
         NEW g \in Generations, GenerationOk(g), caches' = Append(caches, g), UNCHANGED << today, pins >>
  PROVE  StagingInv'
<1>1. StagingTypes /\ StagingTypes'
  BY DEF StagingInv, StagingTypes
<1>2. caches \in Seq(Generations) /\ Len(caches') = Len(caches) + 1 /\ Len(caches) \in Nat
      /\ \A i \in 1 .. Len(caches) : caches'[i] = caches[i]
      /\ caches'[Len(caches) + 1] = g
  BY <1>1 DEF StagingTypes
<1>3. Growing
  BY <1>1, <1>2, StagingLengths DEF Growing
<1>4. ASSUME NEW v \in Staging!Workers, work'[v] \in Runs PROVE RunOk(work[v])'
  <2>1. PICK q : q = work'[v]
    OBVIOUS
  <2>2. RunOk(q)
    BY <1>1, <1>4, <2>1 DEF StagingInv, StagingTypes
  <2>3. RunOk(q)'
    BY <1>1, <1>3, <1>4, <2>1, <2>2, RunStays
  <2> QED BY <2>1, <2>3 DEF RunOk, FromAccepted
<1>5. ASSUME NEW i \in 1 .. Len(caches') PROVE GenerationOk(caches[i])'
  <2>1. PICK h : h = caches'[i]
    OBVIOUS
  <2>2. GenerationOk(h) /\ h \in Generations
    BY <1>1, <1>2, <2>1 DEF StagingInv, StagingTypes
  <2>3. GenerationOk(h)'
    BY <1>1, <1>3, <2>2, GenerationStays
  <2> QED BY <2>1, <2>3 DEF GenerationOk, FromAccepted
<1> QED BY <1>1, <1>4, <1>5 DEF StagingInv

LEMMA RowsTyped ==
  ASSUME NEW cp \in Checkpoints, NEW s \in Staging!Series
  PROVE  Staging!Rows(cp, s) \in SUBSET Nat /\ \A n : Staging!Newest(Staging!Rows(cp, s), n) \in SUBSET Nat
<1>1. ASSUME NEW m \in Staging!Months, cp[s][m] # None PROVE cp[s][m] \in SUBSET Nat
  BY <1>1 DEF Checkpoints, Cells
<1>2. Staging!Rows(cp, s) \in SUBSET Nat
  BY <1>1 DEF Staging!Rows
<1> QED BY <1>2 DEF Staging!Newest

LEMMA PublishedTyped == ASSUME StagingTypes, NEW m PROVE Staging!Published(m) \in SUBSET Nat
BY DEF StagingTypes, Staging!Published

LEMMA RestoreKeeps ==
  ASSUME StagingInv, NEW w \in Staging!Workers, NEW date \in FirstDay .. LastDay, Staging!Dispatch(w, date)
  PROVE  StagingInv'
<1>1. PICK r : r = [at |-> "fetches", date |-> date, base |-> Len(caches), pin |-> Len(pins),
                    cp |-> IF caches = << >> THEN Staging!NoMonths ELSE Staging!Last(caches).cp,
                    store |-> IF caches = << >> THEN Staging!NoStore ELSE Staging!Last(caches).store,
                    fresh |-> {}, complete |-> FALSE]
  OBVIOUS
<1>2. work' = [work EXCEPT ![w] = r] /\ UNCHANGED << today, caches, pins >>
  BY <1>1 DEF Staging!Dispatch
<1>3. StagingTypes /\ Len(caches) \in Nat /\ Len(pins) \in Nat
  BY StagingLengths DEF StagingInv
<1>4. CASE caches = << >>
  <2>1. r.cp = Staging!NoMonths /\ r.store = Staging!NoStore /\ r.base = 0 /\ r.pin = Len(pins)
    BY <1>1, <1>4
  <2>2. r.cp \in Checkpoints /\ r.store \in Stores /\ \A s \in Staging!Series : r.store[s] = {}
    BY <2>1 DEF Staging!NoMonths, Staging!NoStore, Checkpoints, Stores, Cells
  <2>3. r \in Runs
    BY <1>1, <1>3, <2>2, StagingNames DEF Runs, Fetching
  <2>4. FromAccepted(r.store) /\ WholeOrNothing(r.store)
    BY <2>2, StagingNames DEF FromAccepted, WholeOrNothing
  <2>5. RunOk(r)
    BY <1>3, <2>1, <2>4 DEF RunOk
  <2> QED BY <1>2, <2>3, <2>5, WorkStep
<1>5. CASE caches # << >>
  <2>1. PICK g : g = caches[Len(caches)]
    OBVIOUS
  <2>2. Len(caches) \in 1 .. Len(caches) /\ g \in Generations /\ GenerationOk(g)
    BY <1>3, <1>5, <2>1 DEF StagingInv, StagingTypes
  <2>3. r.cp = g.cp /\ r.store = g.store /\ r.base = Len(caches) /\ r.pin = Len(pins)
    BY <1>1, <1>5, <2>1 DEF Staging!Last
  <2>4. r \in Runs
    BY <1>1, <1>3, <2>2, <2>3, StagingNames DEF Runs, Fetching, Generations
  <2>5. RunOk(r)
    BY <1>3, <2>1, <2>2, <2>3 DEF RunOk, GenerationOk, Keeps
  <2> QED BY <1>2, <2>4, <2>5, WorkStep
<1> QED BY <1>4, <1>5

(* A month is fetched when it is not there: there is one such month.       *)
LEMMA OneWanted ==
  ASSUME StagingInv, NEW w \in Staging!Workers, work[w] \in Runs, NEW s \in Staging!Series,
         Staging!Wanted(w, s) # {}
  PROVE  /\ Staging!Max(Staging!Wanted(w, s)) \in Nat
         /\ work[w].cp[s][Staging!Max(Staging!Wanted(w, s))] = None
<1>1. PICK r, last : r = work[w] /\ last = Staging!MonthOf(r.date) /\ r.date \in Nat
  BY DEF Runs
<1>2. last \in Int
  BY <1>1, StagingNames DEF Staging!MonthOf
<1>3. \A m \in Staging!Wanted(w, s) :
        /\ m \in 1 .. last /\ r.cp[s][m] = None
        /\ \A n \in m + 1 .. last : r.cp[s][n] # None
  BY <1>1 DEF Staging!Wanted, Staging!MonthsAbove
<1>4. \A m, n \in Staging!Wanted(w, s) : m = n
  BY <1>2, <1>3
<1>5. PICK m : m \in Staging!Wanted(w, s)
  OBVIOUS
<1>6. Staging!Wanted(w, s) = {m} /\ m \in Nat
  BY <1>2, <1>3, <1>4, <1>5
<1>7. Staging!Max({m}) = m
  BY <1>6 DEF Staging!Max
<1> QED BY <1>1, <1>3, <1>5, <1>6, <1>7

LEMMA FetchMonthKeeps ==
  ASSUME StagingInv, NEW w \in Staging!Workers, NEW i \in 1 .. Len(TwseOrder), Staging!FetchMonth(w, i)
  PROVE  StagingInv'
<1> DEFINE symbol == TwseOrder[i]
           month == Staging!Max(Staging!Wanted(w, symbol))
           fetched == [work[w].cp EXCEPT ![symbol][month] = Staging!Published(month)]
           now == work[w].fresh \cup {<< symbol, month >>}
           full == Staging!Cardinality(now) >= MaxPeriods
           done == i = Len(TwseOrder) /\ Staging!Complete(fetched)
           whole == ~full /\ done
           phase == IF full \/ done THEN "fetched" ELSE "fetches"
<1>1. /\ work[w].at = "fetches" /\ Staging!Wanted(w, symbol) # {} /\ UNCHANGED << today, caches, pins >>
      /\ work' = [work EXCEPT ![w] = [@ EXCEPT !.cp = fetched, !.fresh = now, !.complete = whole, !.at = phase]]
  <2>1. work' = [work EXCEPT ![w] = [@ EXCEPT !.cp = fetched, !.fresh = now, !.complete = whole, !.at = phase]]
    BY DEF Staging!FetchMonth
  <2>2. work[w].at = "fetches" /\ Staging!Wanted(w, symbol) # {} /\ UNCHANGED << today, caches, pins >>
    BY DEF Staging!FetchMonth, Staging!Turn
  <2> QED BY <2>1, <2>2
<1>2. whole \in BOOLEAN /\ phase \in Fetching
  BY DEF Fetching
<1> HIDE DEF whole, phase
<1>3. PICK q, s, m, cp, fresh :
        /\ q = work[w] /\ s = symbol /\ m = month
        /\ cp = fetched /\ fresh = now
  OBVIOUS
<1>4. cp = [q.cp EXCEPT ![s][m] = Staging!Published(m)] /\ fresh = q.fresh \cup {<< s, m >>}
  BY <1>3
<1> HIDE DEF fetched, now
<1>5. PICK r : r = [q EXCEPT !.cp = cp, !.fresh = fresh, !.complete = whole, !.at = phase]
  OBVIOUS
<1>12. /\ q.at = "fetches" /\ Staging!Wanted(w, s) # {} /\ work' = [work EXCEPT ![w] = r]
       /\ UNCHANGED << today, caches, pins >>
  BY <1>1, <1>3, <1>5
<1>6. q \in Runs /\ RunOk(q) /\ s \in Staging!Series /\ StagingTypes
  BY <1>3, <1>12, WorkingRuns, StagingNames DEF StagingInv
<1>7. m \in Nat /\ q.cp[s][m] = None
  BY <1>3, <1>6, <1>12, OneWanted
<1>8. cp \in Checkpoints /\ Keeps(q.cp, cp)
  <2>1. q.cp \in Checkpoints /\ Staging!Published(m) \in Cells
    BY <1>6, PublishedTyped DEF Runs, Cells
  <2>2. cp \in Checkpoints
    BY <1>4, <1>6, <2>1 DEF Checkpoints
  <2>3. \A t \in Staging!Series, n \in Staging!Months : t # s \/ n # m => cp[t][n] = q.cp[t][n]
    BY <1>4, <2>1 DEF Checkpoints
  <2> QED BY <1>7, <2>2, <2>3 DEF Keeps
<1>9. fresh \in SUBSET (Staging!Series \X Nat)
  BY <1>4, <1>6, <1>7 DEF Runs
<1>10. /\ r \in Runs /\ r.cp = cp /\ r.store = q.store /\ r.base = q.base /\ r.pin = q.pin
  BY <1>2, <1>5, <1>6, <1>8, <1>9 DEF Runs, Fetching
<1>11. RunOk(r)
  BY <1>6, <1>8, <1>10, <1>12 DEF RunOk, Keeps, Fetching
<1> QED BY <1>12, <1>10, <1>11, WorkStep

(* The steps that change no checkpoint and no store.                       *)
LEMMA PhaseKeeps ==
  ASSUME StagingInv, NEW w \in Staging!Workers,
         Staging!CloseChunk(w) \/ Staging!CutChunk(w) \/ Staging!Die(w)
  PROVE  StagingInv'
<1>1. CASE Staging!Die(w)
  BY <1>1, FetchingRun, WorkStep DEF Staging!Die
<1>2. CASE Staging!CloseChunk(w) \/ Staging!CutChunk(w)
  <2>1. PICK q : q = work[w] /\ q.at = "fetches"
    BY <1>2 DEF Staging!CloseChunk, Staging!CutChunk
  <2>2. q \in Runs /\ RunOk(q)
    BY <2>1, WorkingRuns
  <2>3. PICK whole \in BOOLEAN : work' = [work EXCEPT ![w] = [q EXCEPT !.at = "fetched", !.complete = whole]]
                                 /\ UNCHANGED << today, caches, pins >>
    <3>1. CASE Staging!CutChunk(w)
      <4>1. [q EXCEPT !.at = "fetched"] = [q EXCEPT !.at = "fetched", !.complete = q.complete]
        BY <2>2 DEF Runs
      <4> QED BY <2>1, <2>2, <3>1, <4>1 DEF Staging!CutChunk, StagingInv, StagingTypes, Runs
    <3>2. CASE Staging!CloseChunk(w)
      <4>1. Staging!Complete(q.cp) \in BOOLEAN
        BY DEF Staging!Complete
      <4> QED BY <2>1, <3>2, <4>1 DEF Staging!CloseChunk, StagingInv, StagingTypes
    <3> QED BY <1>2, <3>1, <3>2
  <2>4. PICK r : r = [q EXCEPT !.at = "fetched", !.complete = whole]
    OBVIOUS
  <2>5. r \in Runs /\ r.cp = q.cp /\ r.store = q.store /\ r.base = q.base /\ r.pin = q.pin
    BY <2>2, <2>4 DEF Runs, Fetching
  <2>6. RunOk(r)
    BY <2>1, <2>2, <2>5 DEF RunOk, Fetching
  <2> QED BY <2>3, <2>4, <2>5, <2>6, WorkStep
<1> QED BY <1>1, <1>2

(* A run's generation is as sound as the run.                              *)
LEMMA GenerationOfRun ==
  ASSUME StagingInv, NEW w \in Staging!Workers, work[w] \in Runs, WholeOrNothing(work[w].store)
  PROVE  Staging!Generation(w) \in Generations /\ GenerationOk(Staging!Generation(w))
<1>1. PICK q, g : q = work[w] /\ g = Staging!Generation(w)
  OBVIOUS
<1>2. q \in Runs /\ RunOk(q) /\ WholeOrNothing(q.store)
  BY <1>1 DEF StagingInv
<1>3. g = [cp |-> q.cp, store |-> q.store, from |-> q.base, complete |-> q.complete]
  BY <1>1 DEF Staging!Generation
<1>4. g \in Generations
  BY <1>2, <1>3 DEF Runs, Generations
<1>5. g.cp = q.cp /\ g.store = q.store /\ g.from = q.base
  BY <1>3
<1>6. GenerationOk(g)
  BY <1>2, <1>5 DEF GenerationOk, RunOk, Keeps
<1> QED BY <1>1, <1>4, <1>6

LEMMA SaveChunkKeeps ==
  ASSUME StagingInv, NEW w \in Staging!Workers, Staging!SaveChunk(w)
  PROVE  StagingInv'
<1>1. PICK q, g : q = work[w] /\ g = Staging!Generation(w)
  OBVIOUS
<1>2. q \in Runs /\ RunOk(q) /\ q.at = "fetched"
  BY <1>1, WorkingRuns DEF Staging!SaveChunk
<1>3. g \in Generations /\ GenerationOk(g)
  BY <1>1, <1>2, GenerationOfRun DEF RunOk, Fetching
<1>4. PICK r : r = IF q.complete THEN [q EXCEPT !.at = "materializes"] ELSE Staging!Over
  OBVIOUS
<1>5. work' = [work EXCEPT ![w] = r] /\ caches' = Append(caches, g) /\ UNCHANGED << today, pins >>
  BY <1>1, <1>4 DEF Staging!SaveChunk
<1>6. CASE q.complete
  <2>1. r \in Runs /\ r.cp = q.cp /\ r.store = q.store /\ r.base = q.base /\ r.pin = q.pin
    BY <1>2, <1>4, <1>6 DEF Runs, Fetching
  <2>2. RunOk(r)
    BY <1>2, <2>1 DEF RunOk, Fetching
  <2> QED BY <1>3, <1>5, <2>1, <2>2, SaveStep
<1>7. CASE ~q.complete
  <2>1. r = Staging!Over
    BY <1>4, <1>7
  <2> QED BY <1>3, <1>5, <2>1, FetchingRun, SaveStep
<1> QED BY <1>6, <1>7

LEMMA SaveMaterializedKeeps ==
  ASSUME StagingInv, NEW w \in Staging!Workers, Staging!SaveMaterialized(w)
  PROVE  StagingInv'
<1>1. PICK q, g : q = work[w] /\ g = Staging!Generation(w)
  OBVIOUS
<1>2. q \in Runs /\ work' = [work EXCEPT ![w] = Staging!Over] /\ UNCHANGED << today, pins >>
  BY <1>1, WorkingRuns DEF Staging!SaveMaterialized
<1>3. CASE Staging!ManifestPasses(q.store)
  <2>1. WholeOrNothing(q.store)
    BY <1>3 DEF Staging!ManifestPasses, Staging!Whole, WholeOrNothing
  <2>2. g \in Generations /\ GenerationOk(g)
    BY <1>1, <1>2, <2>1, GenerationOfRun
  <2>3. caches' = Append(caches, g)
    BY <1>1, <1>3 DEF Staging!SaveMaterialized
  <2> QED BY <1>2, <2>2, <2>3, FetchingRun, SaveStep
<1>4. CASE ~Staging!ManifestPasses(q.store)
  <2>1. caches' = caches
    BY <1>1, <1>4 DEF Staging!SaveMaterialized
  <2> QED BY <1>2, <2>1, FetchingRun, WorkStep
<1> QED BY <1>3, <1>4

(* A run that goes on to r, or is over.                                    *)
LEMMA GoOnStep ==
  ASSUME StagingInv, NEW w \in Staging!Workers, NEW passes \in BOOLEAN, NEW r,
         work' = [work EXCEPT ![w] = IF passes THEN r ELSE Staging!Over], UNCHANGED << today, caches, pins >>,
         passes => r \in Runs /\ RunOk(r)
  PROVE  StagingInv'
<1>1. CASE passes
  <2>1. r \in Runs /\ RunOk(r) /\ work' = [work EXCEPT ![w] = r]
    BY <1>1
  <2> QED BY <2>1, WorkStep
<1>2. CASE ~passes
  <2>1. work' = [work EXCEPT ![w] = Staging!Over]
    BY <1>2
  <2> QED BY <2>1, FetchingRun, WorkStep
<1> QED BY <1>1, <1>2

LEMMA MaterializeKeeps ==
  ASSUME StagingInv, NEW w \in Staging!Workers, Staging!MaterializeTwse(w)
  PROVE  StagingInv'
<1>1. PICK q : q = work[w] /\ q \in Runs /\ RunOk(q) /\ q.at = "materializes"
  BY WorkingRuns DEF Staging!MaterializeTwse
<1>2. PICK store : store = [s \in Staging!Series |-> IF s \in Staging!TwseSymbols
                                                  THEN Staging!Newest(Staging!Rows(q.cp, s), Retained)
                                                  ELSE q.store[s]]
  OBVIOUS
<1>3. PICK r : r = [q EXCEPT !.at = "benchmark", !.store = store]
  OBVIOUS
<1>4. PICK passes \in BOOLEAN :
        /\ passes => Staging!Accepted(w)
        /\ work' = [work EXCEPT ![w] = IF passes THEN r ELSE Staging!Over] /\ UNCHANGED << today, caches, pins >>
  <2> DEFINE ok == Staging!Accepted(w) /\ \A s \in Staging!TpexSymbols : work[w].store[s] = {}
  <2>1. ok \in BOOLEAN
    BY DEF Staging!Accepted
  <2>2. Staging!GoOn(w, ok, r) /\ UNCHANGED << today, caches, pins >>
    BY <1>1, <1>2, <1>3 DEF Staging!MaterializeTwse, Staging!GoOn
  <2>3. ok => Staging!Accepted(w)
    OBVIOUS
  <2> HIDE DEF ok
  <2> QED BY <2>1, <2>2, <2>3 DEF Staging!GoOn
<1>5. store \in Stores
  <2>1. q.cp \in Checkpoints /\ q.store \in [Staging!Series -> SUBSET Nat]
    BY <1>1 DEF Runs, Stores
  <2>2. ASSUME NEW s \in Staging!Series PROVE store[s] \in SUBSET Nat
    <3>1. q.store[s] \in SUBSET Nat
      BY <2>1
    <3>2. Staging!Newest(Staging!Rows(q.cp, s), Retained) \in SUBSET Nat
      BY <2>1, RowsTyped
    <3>3. store[s] = Staging!Newest(Staging!Rows(q.cp, s), Retained) \/ store[s] = q.store[s]
      BY <1>2
    <3> QED BY <3>1, <3>2, <3>3
  <2>3. PICK series : series = Staging!Series
    OBVIOUS
  <2>4. store = [s \in series |-> store[s]] /\ \A s \in series : store[s] \in SUBSET Nat
    BY <1>2, <2>2, <2>3
  <2>5. store \in [series -> SUBSET Nat]
    BY <2>4
  <2> QED BY <2>3, <2>5 DEF Stores
<1>6. /\ r \in Runs /\ r.cp = q.cp /\ r.store = store /\ r.base = q.base /\ r.pin = q.pin /\ r.at = "benchmark"
  BY <1>1, <1>3, <1>5 DEF Runs
<1>7. ASSUME Staging!Accepted(w) PROVE FromAccepted(store)
  <2>1. q.pin \in 1 .. Len(pins) /\ pins[q.pin] = Staging!Stocks(q.cp)
    BY <1>1, <1>7, StagingLengths DEF Staging!Accepted, RunOk, Runs, StagingInv
  <2>2. ASSUME NEW s \in Staging!TwseSymbols
        PROVE  store[s] = Staging!Newest(UNION {pins[q.pin][s][m] :
                                           m \in {n \in Staging!Months : pins[q.pin][s][n] # None}}, Retained)
    <3>1. pins[q.pin][s] = q.cp[s]
      BY <2>1 DEF Staging!Stocks
    <3>2. store[s] = Staging!Newest(Staging!Rows(q.cp, s), Retained)
      BY <1>2, StagingNames
    <3> QED BY <3>1, <3>2 DEF Staging!Rows
  <2> QED BY <2>1, <2>2 DEF FromAccepted
<1>8. passes => RunOk(r)
  BY <1>1, <1>4, <1>6, <1>7 DEF RunOk, Keeps, Fetching
<1> QED BY <1>4, <1>6, <1>8, GoOnStep

-----------------------------------------------------------------------------
(* The months of a series as the later steps leave them.                   *)
LEMMA MonthsTyped ==
  ASSUME StagingTypes, NEW cp \in Checkpoints, NEW s \in Staging!Series, NEW date
  PROVE  /\ Staging!BenchmarkMonths(cp, s, date) \in [Staging!Months -> Cells]
         /\ Staging!StockMonths(cp, s, date) \in [Staging!Months -> Cells]
         /\ \A m \in Staging!Months : cp[s][m] # None =>
              /\ Staging!BenchmarkMonths(cp, s, date)[m] = cp[s][m]
              /\ Staging!StockMonths(cp, s, date)[m] = cp[s][m]
<1>1. \A m \in Staging!Months : Staging!Published(m) \in Cells /\ cp[s][m] \in Cells
  BY PublishedTyped DEF Cells, Checkpoints
<1>2. Staging!BenchmarkMonths(cp, s, date) \in [Staging!Months -> Cells]
  BY <1>1 DEF Staging!BenchmarkMonths
<1>3. Staging!StockMonths(cp, s, date) \in [Staging!Months -> Cells]
  BY <1>1 DEF Staging!StockMonths
<1>4. \A m \in Staging!Months : cp[s][m] # None => Staging!BenchmarkMonths(cp, s, date)[m] = cp[s][m]
  BY DEF Staging!BenchmarkMonths
<1>5. \A m \in Staging!Months : cp[s][m] # None => Staging!StockMonths(cp, s, date)[m] = cp[s][m]
  BY DEF Staging!StockMonths
<1> QED BY <1>2, <1>3, <1>4, <1>5

LEMMA UpsertTyped ==
  ASSUME NEW store \in Stores, NEW cp \in Checkpoints, NEW s \in Staging!Series
  PROVE  /\ Staging!UpsertBenchmark(store, cp, s) \in Stores
         /\ \A t \in Staging!Series \ {s} : Staging!UpsertBenchmark(store, cp, s)[t] = store[t]
<1>1. PICK rows : rows = Staging!Newest(store[s] \cup Staging!Rows(cp, s), Retained)
  OBVIOUS
<1>2. rows \in SUBSET Nat
  BY <1>1, RowsTyped DEF Staging!Newest, Stores
<1>3. Staging!UpsertBenchmark(store, cp, s) = [store EXCEPT ![s] = rows]
  BY <1>1 DEF Staging!UpsertBenchmark
<1> QED BY <1>2, <1>3 DEF Stores

(* What a store has of the TWSE alone decides where it was taken from.     *)
LEMMA SameStocks ==
  ASSUME NEW old, NEW new, FromAccepted(old), \A s \in Staging!TwseSymbols : new[s] = old[s]
  PROVE  FromAccepted(new)
BY DEF FromAccepted

LEMMA BenchmarkKeeps ==
  ASSUME StagingInv, NEW w \in Staging!Workers, Staging!BenchmarkTwse(w)
  PROVE  StagingInv'
<1>1. PICK q : q = work[w] /\ q \in Runs /\ RunOk(q) /\ q.at = "benchmark"
  BY WorkingRuns DEF Staging!BenchmarkTwse
<1>2. PICK cp : cp = [q.cp EXCEPT !["TAIEX"] = Staging!BenchmarkMonths(q.cp, "TAIEX", q.date)]
  OBVIOUS
<1>3. PICK store : store = Staging!UpsertBenchmark(q.store, cp, "TAIEX")
  OBVIOUS
<1>4. PICK r : r = [q EXCEPT !.at = "tpex", !.cp = cp, !.store = store]
  OBVIOUS
<1>5. PICK passes \in BOOLEAN :
        work' = [work EXCEPT ![w] = IF passes THEN r ELSE Staging!Over] /\ UNCHANGED << today, caches, pins >>
  <2> DEFINE ok == Staging!Enough(cp, "TAIEX", Target) /\ Staging!AlignedWith(store, Staging!TwseSymbols, "TAIEX")
  <2>1. ok \in BOOLEAN
    BY DEF Staging!Enough
  <2>2. Staging!GoOn(w, ok, r) /\ UNCHANGED << today, caches, pins >>
    BY <1>1, <1>2, <1>3, <1>4 DEF Staging!BenchmarkTwse
  <2> HIDE DEF ok
  <2> QED BY <2>1, <2>2 DEF Staging!GoOn
<1>6. StagingTypes /\ q.cp \in Checkpoints /\ q.store \in Stores /\ "TAIEX" \in Staging!Series
  BY <1>1, StagingNames DEF StagingInv, Runs
<1>7. cp \in Checkpoints /\ Keeps(q.cp, cp)
  BY <1>2, <1>6, MonthsTyped DEF Checkpoints, Keeps
<1>8. store \in Stores /\ \A s \in Staging!TwseSymbols : store[s] = q.store[s]
  <2>1. \A s \in Staging!TwseSymbols : s \in Staging!Series \ {"TAIEX"}
    BY StagingNames
  <2>2. store \in Stores
    BY <1>3, <1>6, <1>7, UpsertTyped
  <2>3. \A s \in Staging!Series \ {"TAIEX"} : store[s] = q.store[s]
    BY <1>3, <1>6, <1>7, UpsertTyped
  <2> QED BY <2>1, <2>2, <2>3
<1>9. /\ r \in Runs /\ r.cp = cp /\ r.store = store /\ r.base = q.base /\ r.pin = q.pin /\ r.at = "tpex"
  BY <1>1, <1>4, <1>7, <1>8 DEF Runs
<1>10. FromAccepted(store)
  BY <1>1, <1>8, SameStocks DEF RunOk
<1>11. RunOk(r)
  BY <1>1, <1>7, <1>9, <1>10 DEF RunOk, Keeps, Fetching
<1> QED BY <1>5, <1>9, <1>11, GoOnStep


LEMMA StocksStoredTyped ==
  ASSUME NEW store \in Stores, NEW cp \in Checkpoints
  PROVE  /\ Staging!StocksStored(cp, store) \in Stores
         /\ \A s \in Staging!TwseSymbols : Staging!StocksStored(cp, store)[s] = store[s]
<1>1. PICK new : new = Staging!StocksStored(cp, store)
  OBVIOUS
<1>2. PICK series : series = Staging!Series
  OBVIOUS
<1>3. PICK stored : stored = {s \in series : \E i \in 1 .. Len(TpexOrder) :
                        TpexOrder[i] = s /\ \A k \in 1 .. i : Staging!Enough(cp, TpexOrder[k], RawTarget)}
  OBVIOUS
<1>4. new = [s \in series |-> IF s \in stored THEN Staging!Newest(Staging!Rows(cp, s), Retained) ELSE store[s]]
  BY <1>1, <1>2, <1>3 DEF Staging!StocksStored
<1>5. ASSUME NEW s \in series PROVE new[s] \in SUBSET Nat
  <2>1. Staging!Newest(Staging!Rows(cp, s), Retained) \in SUBSET Nat
    BY <1>2, RowsTyped
  <2>2. store[s] \in SUBSET Nat
    BY <1>2 DEF Stores
  <2>3. new[s] = Staging!Newest(Staging!Rows(cp, s), Retained) \/ new[s] = store[s]
    BY <1>4
  <2> QED BY <2>1, <2>2, <2>3
<1>6. new \in [series -> SUBSET Nat]
  <2>1. new = [s \in series |-> new[s]]
    BY <1>4
  <2> QED BY <1>5, <2>1
<1>7. ASSUME NEW s \in Staging!TwseSymbols PROVE new[s] = store[s]
  <2>1. s \notin stored
    BY <1>3, StagingNames
  <2>2. s \in series
    BY <1>2, StagingNames
  <2> QED BY <1>4, <2>1, <2>2
<1> QED BY <1>1, <1>2, <1>6, <1>7 DEF Stores

LEMMA TpexKeeps ==
  ASSUME StagingInv, NEW w \in Staging!Workers, NEW first \in 0 .. Len(TpexOrder), NEW indexAnswers \in BOOLEAN,
         Staging!Tpex(w, first, indexAnswers)
  PROVE  StagingInv'
<1>1. PICK q : q = work[w] /\ q \in Runs /\ RunOk(q) /\ q.at = "tpex"
  BY WorkingRuns DEF Staging!Tpex
<1>2. PICK reached : reached = Staging!ToSet(SubSeq(TpexOrder, 1, first)) \cup IF indexAnswers THEN {"TPEX"} ELSE {}
  OBVIOUS
<1>3. PICK cp : cp = [s \in Staging!Series |->
                        CASE s \notin reached -> q.cp[s]
                          [] s = "TPEX"       -> Staging!BenchmarkMonths(q.cp, s, q.date)
                          [] OTHER            -> Staging!StockMonths(q.cp, s, q.date)]
  OBVIOUS
<1>4. PICK stocks : stocks = Staging!StocksStored(cp, q.store)
  OBVIOUS
<1>5. PICK store : store = IF indexAnswers THEN Staging!Index(cp, stocks) ELSE stocks
  OBVIOUS
<1>6. PICK r : r = [q EXCEPT !.at = "manifest", !.cp = cp, !.store = store]
  OBVIOUS
<1>7. work' = [work EXCEPT ![w] = r] /\ UNCHANGED << today, caches, pins >>
  BY <1>1, <1>2, <1>3, <1>4, <1>5, <1>6 DEF Staging!Tpex
<1>8. StagingTypes /\ q.cp \in Checkpoints /\ q.store \in Stores /\ "TPEX" \in Staging!Series
  BY <1>1, StagingNames DEF StagingInv, Runs
<1>9. cp \in Checkpoints /\ Keeps(q.cp, cp)
  <2>1. ASSUME NEW s \in Staging!Series
        PROVE  /\ cp[s] \in [Staging!Months -> Cells]
               /\ \A m \in Staging!Months : q.cp[s][m] # None => cp[s][m] = q.cp[s][m]
    <3>1. \/ cp[s] = q.cp[s]
          \/ cp[s] = Staging!BenchmarkMonths(q.cp, s, q.date)
          \/ cp[s] = Staging!StockMonths(q.cp, s, q.date)
      BY <1>3
    <3>2. q.cp[s] \in [Staging!Months -> Cells]
      BY <1>8 DEF Checkpoints
    <3> QED BY <1>8, <3>1, <3>2, MonthsTyped
  <2>2. PICK series : series = Staging!Series
    OBVIOUS
  <2>3. cp = [s \in series |-> cp[s]]
    BY <1>3, <2>2
  <2>4. cp \in [series -> [Staging!Months -> Cells]]
    BY <2>1, <2>2, <2>3
  <2> QED BY <2>1, <2>2, <2>4 DEF Checkpoints, Keeps
<1>10. stocks \in Stores /\ \A s \in Staging!TwseSymbols : stocks[s] = q.store[s]
  BY <1>4, <1>8, <1>9, StocksStoredTyped
<1>11. store \in Stores /\ \A s \in Staging!TwseSymbols : store[s] = q.store[s]
  <2>1. CASE store = stocks
    BY <2>1, <1>10
  <2>2. CASE store = Staging!UpsertBenchmark(stocks, cp, "TPEX")
    <3>1. \A s \in Staging!TwseSymbols : s \in Staging!Series \ {"TPEX"}
      BY StagingNames
    <3>2. store \in Stores
      BY <2>2, <1>8, <1>9, <1>10, UpsertTyped
    <3>3. \A s \in Staging!Series \ {"TPEX"} : store[s] = stocks[s]
      BY <2>2, <1>8, <1>9, <1>10, UpsertTyped
    <3> QED BY <1>10, <3>1, <3>2, <3>3
  <2>3. store = stocks \/ store = Staging!UpsertBenchmark(stocks, cp, "TPEX")
    BY <1>5 DEF Staging!Index
  <2> QED BY <2>1, <2>2, <2>3
<1>12. /\ r \in Runs /\ r.cp = cp /\ r.store = store /\ r.base = q.base /\ r.pin = q.pin /\ r.at = "manifest"
  BY <1>1, <1>6, <1>9, <1>11 DEF Runs
<1>13. FromAccepted(store)
  BY <1>1, <1>11, SameStocks DEF RunOk
<1>14. RunOk(r)
  BY <1>1, <1>9, <1>12, <1>13 DEF RunOk, Keeps, Fetching
<1> QED BY <1>7, <1>12, <1>14, WorkStep

-----------------------------------------------------------------------------
(* The steps of no run.                                                    *)
LEMMA PinKeeps ==
  ASSUME StagingInv, NEW i \in 1 .. Len(caches), Staging!Pin(caches[i])
  PROVE  StagingInv'
<1>1. PICK g : g = caches[i] /\ g \in Generations
  BY DEF StagingInv, StagingTypes
<1>2. PICK stocks : stocks = Staging!Stocks(g.cp)
  OBVIOUS
<1>3. pins' = Append(pins, stocks) /\ UNCHANGED << today, caches, work >>
  BY <1>1, <1>2 DEF Staging!Pin
<1>4. stocks \in [Staging!TwseSymbols -> [Staging!Months -> Cells]]
  <2>1. \A s \in Staging!TwseSymbols : g.cp[s] \in [Staging!Months -> Cells]
    BY <1>1, StagingNames DEF Generations, Checkpoints
  <2> QED BY <1>2, <2>1 DEF Staging!Stocks
<1>5. StagingTypes /\ StagingTypes'
  BY <1>3, <1>4 DEF StagingInv, StagingTypes
<1>6. Growing
  BY <1>3, <1>4 DEF Growing, StagingInv, StagingTypes
<1>7. ASSUME NEW v \in Staging!Workers, work'[v] \in Runs PROVE RunOk(work[v])'
  <2>1. PICK q : q = work[v] /\ work'[v] = q
    BY <1>3
  <2>2. q \in Runs /\ RunOk(q)
    BY <1>7, <2>1 DEF StagingInv
  <2>3. RunOk(q)'
    BY <1>5, <1>6, <2>2, RunStays
  <2> QED BY <2>1, <2>3 DEF RunOk, FromAccepted
<1>8. ASSUME NEW k \in 1 .. Len(caches') PROVE GenerationOk(caches[k])'
  <2>1. PICK h : h = caches[k] /\ caches'[k] = h
    BY <1>3
  <2>2. GenerationOk(h) /\ h \in Generations
    BY <1>3, <2>1 DEF StagingInv, StagingTypes
  <2>3. GenerationOk(h)'
    BY <1>5, <1>6, <2>2, GenerationStays
  <2> QED BY <2>1, <2>3 DEF GenerationOk, FromAccepted
<1> QED BY <1>5, <1>7, <1>8 DEF StagingInv

LEMMA TodayAlone ==
  ASSUME StagingInv, StagingTypes', UNCHANGED << caches, pins, work >>
  PROVE  StagingInv'
<1>1. StagingTypes /\ Growing
  BY StagingLengths DEF StagingInv, Growing
<1>2. ASSUME NEW v \in Staging!Workers, work'[v] \in Runs PROVE RunOk(work[v])'
  <2>1. PICK q : q = work[v] /\ work'[v] = q
    OBVIOUS
  <2>2. q \in Runs /\ RunOk(q)
    BY <1>2, <2>1 DEF StagingInv
  <2>3. RunOk(q)'
    BY <1>1, <2>2, RunStays
  <2> QED BY <2>1, <2>3 DEF RunOk, FromAccepted
<1>3. ASSUME NEW k \in 1 .. Len(caches') PROVE GenerationOk(caches[k])'
  <2>1. PICK h : h = caches[k] /\ caches'[k] = h
    OBVIOUS
  <2>2. GenerationOk(h) /\ h \in Generations
    BY <1>1, <2>1 DEF StagingInv, StagingTypes
  <2>3. GenerationOk(h)'
    BY <1>1, <2>2, GenerationStays
  <2> QED BY <2>1, <2>3 DEF GenerationOk, FromAccepted
<1> QED BY <1>2, <1>3 DEF StagingInv

LEMMA SessionClosesKeeps ==
  ASSUME StagingInv, Staging!Close
  PROVE  StagingInv'
<1>1. today' = today + 1 /\ UNCHANGED << caches, pins, work >>
  BY DEF Staging!Close
<1>2. StagingTypes'
  BY <1>1 DEF StagingInv, StagingTypes
<1> QED BY <1>1, <1>2, TodayAlone

LEMMA StagingIdleKeeps ==
  ASSUME StagingInv, UNCHANGED Staging!stagingVars
  PROVE  StagingInv'
<1>1. UNCHANGED << today, caches, pins, work >>
  BY DEF Staging!stagingVars
<1>2. StagingTypes'
  BY <1>1 DEF StagingInv, StagingTypes
<1> QED BY <1>1, <1>2, TodayAlone

LEMMA StagingNext ==
  StagingInv /\ [Staging!Next]_(Staging!stagingVars) => StagingInv'
<1> SUFFICES ASSUME StagingInv, [Staging!Next]_(Staging!stagingVars) PROVE StagingInv'
  OBVIOUS
<1>1. CASE UNCHANGED Staging!stagingVars
  BY <1>1, StagingIdleKeeps
<1>2. CASE Staging!Close
  BY <1>2, SessionClosesKeeps
<1>3. CASE \E i \in 1 .. Len(caches) : Staging!Pin(caches[i])
  BY <1>3, PinKeeps
<1>4. ASSUME NEW w \in Staging!Workers, \E date \in FirstDay .. LastDay : Staging!Dispatch(w, date)
      PROVE  StagingInv'
  BY <1>4, RestoreKeeps
<1>5. ASSUME NEW w \in Staging!Workers, \E i \in 1 .. Len(TwseOrder) : Staging!FetchMonth(w, i)
      PROVE  StagingInv'
  BY <1>5, FetchMonthKeeps
<1>6. ASSUME NEW w \in Staging!Workers,
             Staging!CloseChunk(w) \/ Staging!CutChunk(w) \/ Staging!SaveChunk(w) \/ Staging!MaterializeTwse(w)
             \/ Staging!BenchmarkTwse(w) \/ Staging!SaveMaterialized(w) \/ Staging!Die(w)
      PROVE  StagingInv'
  BY <1>6, PhaseKeeps, SaveChunkKeeps, MaterializeKeeps, BenchmarkKeeps, SaveMaterializedKeeps
<1>7. ASSUME NEW w \in Staging!Workers,
             \E first \in 0 .. Len(TpexOrder), indexAnswers \in BOOLEAN : Staging!Tpex(w, first, indexAnswers)
      PROVE  StagingInv'
  BY <1>7, TpexKeeps
<1> QED BY <1>1, <1>2, <1>3, <1>4, <1>5, <1>6, <1>7 DEF Staging!Next

LEMMA StagingInit == Staging!Init => StagingInv
<1> SUFFICES ASSUME Staging!Init PROVE StagingInv
  OBVIOUS
<1>1. today = FirstDay /\ caches = << >> /\ pins = << >> /\ work = [w \in Staging!Workers |-> Staging!NotDispatched]
  BY DEF Staging!Init
<1>2. StagingTypes
  BY <1>1, StagingNames DEF StagingTypes
<1>3. \A w \in Staging!Workers : work[w] \notin Runs
  BY <1>1, FetchingRun
<1> QED BY <1>1, <1>2, <1>3 DEF StagingInv

(* The staging campaign's inductive invariant holds for every calendar,    *)
(* all lists of symbols and any number of runs.                            *)
THEOREM StagingInvariant == Staging!Spec => []StagingInv
<1>1. Staging!Init => StagingInv
  BY StagingInit
<1>2. StagingInv /\ [Staging!Next]_(Staging!stagingVars) => StagingInv'
  BY StagingNext
<1> QED BY <1>1, <1>2, PTL DEF Staging!Spec

LEMMA StagingInvSound == StagingInv => Staging!StagingSound
<1> SUFFICES ASSUME StagingInv PROVE Staging!StagingSound
  OBVIOUS
<1>1. \A i \in 1 .. Len(caches) : GenerationOk(caches[i])
  BY DEF StagingInv
<1>2. Staging!LineageKeeps
  BY <1>1 DEF Staging!LineageKeeps, GenerationOk, Keeps
<1>3. Staging!StoreFromAccepted
  BY <1>1 DEF Staging!StoreFromAccepted, GenerationOk, FromAccepted
<1>4. Staging!StoreWhole
  BY <1>1 DEF Staging!StoreWhole, GenerationOk, WholeOrNothing
<1> QED BY <1>2, <1>3, <1>4 DEF Staging!StagingSound

(* No month is fetched twice along a lineage, and the store of every       *)
(* generation is whole and was taken from one accepted checkpoint.         *)
THEOREM StagingsSound == EitherSpec => []StagingSound
<1>1. StagingInv => StagingSound
  BY StagingInvSound DEF StagingSound
<1>2. EitherInit => Staging!Init
  BY DEF EitherInit
<1>3. [EitherNext]_<< part, vars, batch, staging >> => [Staging!Next]_(Staging!stagingVars)
  BY DEF EitherNext, staging, Staging!stagingVars
<1> QED BY <1>1, <1>2, <1>3, StagingInit, StagingNext, PTL DEF EitherSpec
=============================================================================
