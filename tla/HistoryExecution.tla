-------------------------- MODULE HistoryExecution --------------------------
(***************************************************************************)
(* The acquisition of history in chunks: execute_chunk of                  *)
(* src/history_chunk_planning.py, and under it execute and replay of       *)
(* src/history_acquisition_execution.py.  An authorization is claimed once *)
(* and never resumed.  Each request leaves an intent before it is sent and *)
(* a receipt, an event and a checkpoint after it was answered; the first   *)
(* error of any kind stops the run; and the evidence is replayed from the  *)
(* files before anybody believes it.                                       *)
(*                                                                         *)
(* Several operators call execute_chunk, for the same chunk or for others, *)
(* in any order and again; every file may fail to be created or be left in *)
(* part; and a process may die between any two steps.  A file is created   *)
(* exclusively and never repaired, so only its presence is modelled, and   *)
(* `torn' when one of a run was left in part.                              *)
(***************************************************************************)
EXTENDS Naturals, FiniteSets

CONSTANTS
  Operators,  (* the processes that call execute_chunk   *)
  Chunks,     (* the chunks of the manifest              *)
  Requests,   (* how many requests each of them plans    *)
  None        (* no file, no process                     *)

ASSUME RequestsPlanned == Requests \in Nat \ {0}
ASSUME NoneIsNobody == None \notin Operators \cup Chunks

Entries == 1 .. Requests

VARIABLES
  claimed,  (* the chunks whose authorization has a consumption record     *)
  run,      (* the evidence of each chunk in its run-001 directory         *)
  halted,   (* HALTED.json lies in the campaign root                       *)
  lock,     (* the holder of the campaign's .scan.lock                     *)
  pc,       (* where each operator is                                      *)
  local,    (* its variables: its chunk, the entry it is at, its counts    *)
  sent,     (* how often each request went out (seen by the source alone)  *)
  valid     (* the entries whose answer passed validate_response           *)

vars == << claimed, run, halted, lock, pc, local, sent, valid >>

NoEvidence == [bound |-> FALSE, intents |-> 0, events |-> 0, checkpoints |-> 0,
               torn |-> FALSE, stop |-> None, result |-> None]

Fresh(c) == [chunk |-> c, entry |-> 1, intent |-> FALSE, requests |-> 0, done |-> 0]

Phases == {"idle", "guard", "preflight", "claim", "bind", "intent", "dispatch", "receipt",
           "event", "checkpoint", "stop", "result", "replay", "raise"}

(* The result of a run: completed_checkpoints counts the events in memory. *)
ResultOf(requests, done) ==
  [status |-> IF done = Requests THEN "PASS" ELSE "STOPPED", requests |-> requests, done |-> done]

-----------------------------------------------------------------------------
(* replay: whether the files of a run are one complete, consistent story.  *)
Replayable(c) ==
  LET r == run[c]
  IN  /\ c \in claimed /\ r.bound /\ ~r.torn /\ r.result # None
      /\ r.events <= r.intents
      /\ r.intents > r.events => r.stop # None /\ r.intents = r.events + 1
      /\ r.checkpoints = r.events
      /\ r.result = ResultOf(r.result.requests, r.events)
      /\ r.events <= r.result.requests /\ r.result.requests <= r.intents
      /\ IF r.stop = None
           THEN r.result.status = "PASS" /\ r.intents = r.result.requests
           ELSE /\ r.result.status = "STOPPED"
                /\ r.stop = [ordinal |-> r.events + 1, done |-> r.events,
                             requests |-> r.result.requests, intent |-> r.intents > r.events]

(* What _campaign_guard asks of every chunk somebody claimed. *)
CleanPass(c) == Replayable(c) /\ run[c].stop = None /\ run[c].result.status = "PASS"

(* Faulty variant: only a stop that was written down holds the next chunk. *)
CampaignClearUnlessStopped ==
  ~halted /\ \A c \in claimed : run[c].result # None => CleanPass(c)

(* _campaign_guard *)
CampaignClear == ~halted /\ \A c \in claimed : CleanPass(c)

-----------------------------------------------------------------------------
Goto(p, phase) == pc' = [pc EXCEPT ![p] = phase]
Set(p, now) == local' = [local EXCEPT ![p] = now]
Leave(p) == Goto(p, "idle") /\ lock' = None /\ Set(p, Fresh(None))

(* A file of chunk c cannot be created, and perhaps is left there in part. *)
Tear(c) == \E t \in {FALSE, TRUE} : run' = [run EXCEPT ![c].torn = @ \/ t]

Begin(p, c) ==
  /\ pc[p] = "idle" /\ lock = None
  /\ lock' = p /\ Goto(p, "guard") /\ Set(p, Fresh(c))
  /\ UNCHANGED << claimed, run, halted, sent, valid >>

(* The guard stands outside the try: what it refuses leaves no HALTED.     *)
Guard(p) ==
  /\ pc[p] = "guard"
  /\ IF CampaignClear THEN Goto(p, "preflight") /\ UNCHANGED << lock, local >> ELSE Leave(p)
  /\ UNCHANGED << claimed, run, halted, sent, valid >>

(* A chunk that passed before is refused here, inside the try. *)
Preflight(p) ==
  /\ pc[p] = "preflight"
  /\ Goto(p, IF local[p].chunk \in claimed THEN "raise" ELSE "claim")
  /\ UNCHANGED << claimed, run, halted, lock, local, sent, valid >>

Claim(p) ==
  /\ pc[p] = "claim"
  /\ \/ claimed' = claimed \cup {local[p].chunk} /\ \E next \in {"bind", "raise"} : Goto(p, next)
     \/ UNCHANGED claimed /\ Goto(p, "raise")
  /\ UNCHANGED << run, halted, lock, local, sent, valid >>

(* The run directory, and the plan, seal and authorization in it. *)
Bind(p) ==
  /\ pc[p] = "bind"
  /\ \/ run' = [run EXCEPT ![local[p].chunk].bound = TRUE] /\ Goto(p, "intent")
     \/ Tear(local[p].chunk) /\ Goto(p, "raise")
  /\ UNCHANGED << claimed, halted, lock, local, sent, valid >>

(* One entry: owners and pace are checked, then its intent is written. *)
PutIntent(p) ==
  LET c == local[p].chunk
  IN  /\ pc[p] = "intent"
      /\ \/ Goto(p, "stop") /\ Set(p, [local[p] EXCEPT !.intent = FALSE]) /\ UNCHANGED run
         \/ Goto(p, "stop") /\ Set(p, [local[p] EXCEPT !.intent = TRUE]) /\ Tear(c)
         \/ /\ Goto(p, "dispatch") /\ Set(p, [local[p] EXCEPT !.intent = TRUE])
            /\ run' = [run EXCEPT ![c].intents = @ + 1]
      /\ UNCHANGED << claimed, halted, lock, sent, valid >>

(* Faulty variant: a request is counted when its answer arrives. *)
DispatchCountingAnswers(p) ==
  LET c == local[p].chunk  n == local[p].entry
  IN  /\ pc[p] = "dispatch"
      /\ sent' = [sent EXCEPT ![c][n] = @ + 1]
      /\ \/ Set(p, [local[p] EXCEPT !.requests = @ + 1]) /\ Goto(p, "receipt")
         \/ UNCHANGED local /\ Goto(p, "stop")
      /\ UNCHANGED << claimed, run, halted, lock, valid >>

(* Faulty variant: a request without an answer is sent again. *)
DispatchRetrying(p) ==
  LET c == local[p].chunk  n == local[p].entry
  IN  /\ pc[p] = "dispatch"
      /\ sent' = [sent EXCEPT ![c][n] = @ + 1]
      /\ \/ Set(p, [local[p] EXCEPT !.requests = @ + 1]) /\ Goto(p, "receipt")
         \/ sent[c][n] = 0 /\ UNCHANGED << local, pc >>
      /\ UNCHANGED << claimed, run, halted, lock, valid >>

(* The clock may refuse the dispatch; once sent, the request counts, and   *)
(* an answer comes or its outcome stays unknown.                           *)
Dispatch(p) ==
  LET c == local[p].chunk  n == local[p].entry
  IN  /\ pc[p] = "dispatch"
      /\ \/ Goto(p, "stop") /\ UNCHANGED << local, sent >>
         \/ /\ Set(p, [local[p] EXCEPT !.requests = @ + 1])
            /\ sent' = [sent EXCEPT ![c][n] = @ + 1]
            /\ \E next \in {"receipt", "stop"} : Goto(p, next)
      /\ UNCHANGED << claimed, run, halted, lock, valid >>

(* The answer's bytes and its receipt are kept, and then it is validated.  *)
PutReceipt(p) ==
  LET c == local[p].chunk  n == local[p].entry
  IN  /\ pc[p] = "receipt"
      /\ \/ Goto(p, "stop") /\ Tear(c) /\ UNCHANGED valid
         \/ Goto(p, "stop") /\ UNCHANGED << run, valid >>
         \/ Goto(p, "event") /\ valid' = [valid EXCEPT ![c] = @ \cup {n}] /\ UNCHANGED run
      /\ UNCHANGED << claimed, halted, lock, local, sent >>

PutEvent(p) ==
  LET c == local[p].chunk
  IN  /\ pc[p] = "event"
      /\ \/ Goto(p, "stop") /\ Tear(c) /\ UNCHANGED local
         \/ /\ Goto(p, "checkpoint") /\ Set(p, [local[p] EXCEPT !.done = @ + 1])
            /\ run' = [run EXCEPT ![c].events = @ + 1]
      /\ UNCHANGED << claimed, halted, lock, sent, valid >>

PutCheckpoint(p) ==
  LET c == local[p].chunk  n == local[p].entry
  IN  /\ pc[p] = "checkpoint"
      /\ \/ Goto(p, "stop") /\ Tear(c) /\ UNCHANGED local
         \/ /\ run' = [run EXCEPT ![c].checkpoints = @ + 1]
            /\ IF n = Requests
                 THEN Goto(p, "result") /\ UNCHANGED local
                 ELSE Goto(p, "intent") /\ Set(p, [local[p] EXCEPT !.entry = n + 1])
      /\ UNCHANGED << claimed, halted, lock, sent, valid >>

(* STOP.json, and then its traceback: without both there is no RESULT.     *)
PutStop(p) ==
  LET c == local[p].chunk
      stop == [ordinal |-> local[p].entry, done |-> local[p].done,
               requests |-> local[p].requests, intent |-> local[p].intent]
  IN  /\ pc[p] = "stop"
      /\ \/ run' = [run EXCEPT ![c].stop = stop] /\ \E next \in {"result", "raise"} : Goto(p, next)
         \/ Tear(c) /\ Goto(p, "raise")
      /\ UNCHANGED << claimed, halted, lock, local, sent, valid >>

PutResult(p) ==
  LET c == local[p].chunk
  IN  /\ pc[p] = "result"
      /\ \/ /\ run' = [run EXCEPT ![c].result = ResultOf(local[p].requests, local[p].done)]
            /\ Goto(p, "replay")
         \/ Tear(c) /\ Goto(p, "raise")
      /\ UNCHANGED << claimed, halted, lock, local, sent, valid >>

(* The run replays itself.  A stop is returned, and halts the campaign; a  *)
(* pass is returned, and the next chunk needs its own authorization.       *)
ReplayRun(p) ==
  LET c == local[p].chunk
  IN  /\ pc[p] = "replay"
      /\ IF Replayable(c)
           THEN Leave(p) /\ halted' = (halted \/ run[c].result.status = "STOPPED")
           ELSE Goto(p, "raise") /\ UNCHANGED << lock, local, halted >>
      /\ UNCHANGED << claimed, run, sent, valid >>

(* The except of execute_chunk: an error after the claim halts the         *)
(* campaign, if HALTED.json can be written.                                *)
Raise(p) ==
  /\ pc[p] = "raise"
  /\ \E written \in {FALSE, TRUE} : halted' = (halted \/ (written /\ local[p].chunk \in claimed))
  /\ Leave(p)
  /\ UNCHANGED << claimed, run, sent, valid >>

(* The process dies; the system takes its lock back, and what it was       *)
(* writing may be there in part.                                           *)
Crash(p) ==
  /\ pc[p] # "idle"
  /\ Leave(p)
  /\ IF pc[p] \in {"bind", "intent", "receipt", "event", "checkpoint", "stop", "result"}
       THEN Tear(local[p].chunk) ELSE UNCHANGED run
  /\ UNCHANGED << claimed, halted, sent, valid >>

Init ==
  /\ claimed = {} /\ halted = FALSE /\ lock = None
  /\ run = [c \in Chunks |-> NoEvidence]
  /\ pc = [p \in Operators |-> "idle"]
  /\ local = [p \in Operators |-> Fresh(None)]
  /\ sent = [c \in Chunks |-> [n \in Entries |-> 0]]
  /\ valid = [c \in Chunks |-> {}]

Execute(p) ==
  \/ Guard(p) \/ Preflight(p) \/ Claim(p) \/ Bind(p) \/ PutIntent(p) \/ Dispatch(p)
  \/ PutReceipt(p) \/ PutEvent(p) \/ PutCheckpoint(p) \/ PutStop(p) \/ PutResult(p)
  \/ ReplayRun(p) \/ Raise(p)

Next == \E p \in Operators : Execute(p) \/ Crash(p) \/ \E c \in Chunks : Begin(p, c)

Spec == Init /\ [][Next]_vars

-----------------------------------------------------------------------------
(* No request is ever sent twice: not by another operator, not by one that *)
(* calls again after a stop, an error or a death, and not for an answer    *)
(* that did not come ("unknown_outcome": "STOP", "retry": 0).              *)
RequestedOnce == \A c \in Chunks, n \in Entries : sent[c][n] <= 1

(* Evidence that replays says the truth: exactly as many requests as it    *)
(* counts went out, and every event is of an answer that was valid.        *)
ReplayedIsTrue ==
  \A c \in Chunks : Replayable(c) =>
    /\ run[c].result.requests = Cardinality({n \in Entries : sent[c][n] > 0})
    /\ 1 .. run[c].events \subseteq valid[c]

(* The campaign, seen from outside: a chunk runs from its claim to its     *)
(* RESULT, and is dead when its process is gone without a clean pass.      *)
Acquiring == {"bind", "intent", "dispatch", "receipt", "event", "checkpoint", "stop", "result"}

StatusOf(c) ==
  CASE c \notin claimed -> "open"
    [] c \in claimed /\ CleanPass(c) -> "passed"
    [] c \in claimed /\ ~CleanPass(c) ->
         IF \E p \in Operators : pc[p] \in Acquiring /\ local[p].chunk = c THEN "running" ELSE "dead"

Campaign == INSTANCE ChunkCampaign WITH status <- [c \in Chunks |-> StatusOf(c)]

(* The files, locks and guards of execute_chunk keep the promise of the    *)
(* campaign: one chunk at a time, each once, none after one that died.     *)
ImplementsChunkCampaign == Campaign!Spec
=============================================================================
