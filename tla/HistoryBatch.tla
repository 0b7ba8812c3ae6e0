---------------------------- MODULE HistoryBatch ----------------------------
(***************************************************************************)
(* A window of chunks that a runner (Orchestrator of                       *)
(* src/history_batch_orchestration.py) takes one by one, each released,    *)
(* accepted and acknowledged by an issuer in a process of its own (Issuer  *)
(* of src/history_batch_authority.py, behind the pipe of                   *)
(* src/history_batch_launcher.py).  The issuer writes a journal that a     *)
(* witness journal follows; the campaign and the acceptance ledger         *)
(* (src/history_acceptance_sidecar.py) are shared with the control centre, *)
(* which acquires and accepts chunks by hand.                              *)
(*                                                                         *)
(* A session is a policy with its runner and its issuer process.  All of   *)
(* them name the same registered journals.  Any call may fail, either      *)
(* process may die, and what is being written then may be left in part.    *)
(* A head is the hash of all that a journal chains, so it is modelled by   *)
(* the events themselves; of the runner's own journal only HALTED.json     *)
(* matters, for it is never written before the issuer's.                   *)
(***************************************************************************)
EXTENDS Naturals, Sequences

CONSTANTS
  Sessions,     (* the policies that were signed                             *)
  ChunkCount,   (* how many chunks the manifest has                          *)
  From, To,     (* the window of each session: From[s] + 1 .. To[s]        *)
  ByHand,       (* the control centre                                        *)
  None

BatchConstants ==
  /\ ChunkCount \in Nat
  /\ \A s \in Sessions : From[s] \in Nat \ {0} /\ To[s] \in From[s] + 1 .. ChunkCount
  /\ ByHand \notin Sessions /\ None \notin Sessions \cup {ByHand}

Numbers == 1 .. ChunkCount

VARIABLES
  status, halted,  (* the campaign (ChunkCampaign)                           *)
  by,              (* who claimed each chunk                                 *)
  ledger,          (* the acceptance ledger: who accepted chunk 1, 2, ...    *)
  ij, wj,          (* the issuer's and the witness journal                   *)
  issuer,          (* of each session, the memory of its issuer process      *)
  runner,          (* of each session, the memory of its runner              *)
  lock             (* who holds the sandbox's orchestrator lock              *)

campaign == << status, halted, by >>
vars == << status, halted, by, ledger, ij, wj, issuer, runner, lock >>

Camp == INSTANCE ChunkCampaign WITH Chunks <- Numbers

-----------------------------------------------------------------------------
(* Journal.replay and sidecar.replay, with the head the caller expects, and *)
(* verify_chunk.                                                            *)
Intact(journal, head) == ~journal.torn /\ journal.events = head

(* Faulty variant: a claim is taken for an acquisition. *)
VerifiedByClaim(k) == ~halted /\ by[k] # None

Verified(k) == ~halted /\ status[k] = "passed"

LedgerReplays(n) ==
  /\ ~ledger.torn /\ Len(ledger.events) = n
  /\ \A k \in 1 .. n : Verified(k)

(* Journal.append and append_acceptance: the event, or a part of it. *)
Extended(journal, event) == [journal EXCEPT !.events = Append(@, event)]
Torn(journal) == [journal EXCEPT !.torn = TRUE]

GoRunner(s, pc) == runner' = [runner EXCEPT ![s].pc = pc]
GoIssuer(s, pc) == issuer' = [issuer EXCEPT ![s].pc = pc]

-----------------------------------------------------------------------------
(* Starting a session: Issuer.__init__ adopts no journal that has events,  *)
(* and the ledger must stand where the policy says.                        *)
Process(pc, s, head, whead) ==
  [pc |-> pc, op |-> None, head |-> head, whead |-> whead, accepted |-> From[s],
   release |-> 0, recorded |-> FALSE, revoked |-> FALSE, reply |-> None]
Runner(pc, s, head, whead) ==
  [pc |-> pc, k |-> From[s] + 1, head |-> head, whead |-> whead, done |-> {}]

Memory(s, head, whead) ==
  /\ issuer' = [issuer EXCEPT ![s] = Process("ready", s, head, whead)]
  /\ runner' = [runner EXCEPT ![s] = Runner("ready", s, head, whead)]

Startable(s) == runner[s].pc \in {"new", "dead"}

(* Faulty variant: a journal that replays is taken over. *)
InitializeAdopting(s) ==
  /\ Startable(s) /\ ~ij.torn /\ ~wj.torn /\ LedgerReplays(From[s])
  /\ Memory(s, ij.events, wj.events)
  /\ UNCHANGED << campaign, ledger, ij, wj, lock >>

(* Faulty variant: the policy's start is believed. *)
InitializeUnreplayed(s) ==
  /\ Startable(s) /\ Intact(ij, << >>) /\ Intact(wj, << >>)
  /\ Memory(s, << >>, << >>)
  /\ UNCHANGED << campaign, ledger, ij, wj, lock >>

Initialize(s) ==
  /\ Startable(s) /\ Intact(ij, << >>) /\ Intact(wj, << >>) /\ LedgerReplays(From[s])
  /\ Memory(s, << >>, << >>)
  /\ UNCHANGED << campaign, ledger, ij, wj, lock >>

-----------------------------------------------------------------------------
(* The runner's calls, and the issuer's replies. *)
Call(s, from, to, op) ==
  /\ runner[s].pc = from /\ issuer[s].pc = "ready"
  /\ GoRunner(s, to)
  /\ issuer' = [issuer EXCEPT ![s].pc = "examine", ![s].op = op, ![s].reply = None]
  /\ UNCHANGED << campaign, ledger, ij, wj, lock >>

Revoke(s) == \E at \in {"ready", "finished"} : Call(s, at, at, "REVOCATION")

RunStart(s) ==
  /\ runner[s].pc = "ready" /\ lock = None
  /\ lock' = s /\ GoRunner(s, "authorize")
  /\ UNCHANGED << campaign, ledger, ij, wj, issuer >>

CallAuthorize(s) == Call(s, "authorize", "authorizing", "AUTHORIZATION")
CallAccept(s) == Call(s, "accept", "accepting", "ACCEPTANCE") /\ Verified(runner[s].k)

(* The append was read back, and a fresh process replayed the ledger. *)
CallAck(s) == Call(s, "ack", "acking", "HEAD_ACK") /\ LedgerReplays(runner[s].k)

(* verify_packet: the packet continues what this runner verified before.   *)
Continues(s, purpose, packet) ==
  LET r == runner[s]
      added == IF purpose = "AUTHORIZATION" THEN << "RESERVE", purpose >> ELSE << purpose >>
  IN  /\ Len(packet.issued) = Len(r.head) + Len(added)
      /\ SubSeq(packet.issued, 1, Len(r.head)) = r.head
      /\ \A i \in 1 .. Len(added) :
           packet.issued[Len(r.head) + i].purpose = added[i]
      /\ packet.issued[Len(packet.issued)].chunk = r.k
      /\ packet.witnessed = Append(r.whead, [by |-> s, sequence |-> Len(packet.issued)])

Take(s, from, purpose, to, k, done) ==
  LET packet == issuer[s].reply
  IN  /\ runner[s].pc = from /\ packet # None /\ Continues(s, purpose, packet)
      /\ runner' = [runner EXCEPT ![s] =
           [pc |-> to, k |-> k, done |-> done, head |-> packet.issued, whead |-> packet.witnessed]]
      /\ issuer' = [issuer EXCEPT ![s].reply = None]

(* Faulty variant: the runner reads its release from the journal.          *)
TakeReleaseFromJournal(s) ==
  /\ runner[s].pc = "authorizing" /\ ij.events # << >>
  /\ ij.events[Len(ij.events)] = [by |-> s, purpose |-> "AUTHORIZATION", chunk |-> runner[s].k]
  /\ GoRunner(s, "claim")
  /\ UNCHANGED << campaign, ledger, ij, wj, issuer, lock >>

TakeRelease(s) ==
  /\ Take(s, "authorizing", "AUTHORIZATION", "claim", runner[s].k, runner[s].done)
  /\ UNCHANGED << campaign, ledger, ij, wj, lock >>

TakeAcceptance(s) ==
  /\ Take(s, "accepting", "ACCEPTANCE", "append", runner[s].k, runner[s].done)
  /\ UNCHANGED << campaign, ledger, ij, wj, lock >>

(* The chunk is done, and the next one may be asked for. *)
TakeAck(s) ==
  LET k == runner[s].k  done == runner[s].done \cup {k}
  IN  /\ \/ k < To[s] /\ Take(s, "acking", "HEAD_ACK", "authorize", k + 1, done) /\ UNCHANGED lock
         \/ k = To[s] /\ Take(s, "acking", "HEAD_ACK", "finished", k, done) /\ lock' = None
      /\ UNCHANGED << campaign, ledger, ij, wj >>

-----------------------------------------------------------------------------
(* What the runner does between its calls: execute_chunk, which claims the *)
(* chunk or refuses, and append_acceptance.                                *)
Claim(s) ==
  LET k == runner[s].k
  IN  /\ runner[s].pc = "claim" /\ Camp!Start(k)
      /\ by' = [by EXCEPT ![k] = s]
      /\ IF status'[k] = "running"
           THEN GoRunner(s, "running") /\ UNCHANGED lock
           ELSE GoRunner(s, "halting") /\ lock' = None
      /\ UNCHANGED << ledger, ij, wj, issuer >>

ChunkPasses(s) ==
  /\ runner[s].pc = "running" /\ Camp!Pass(runner[s].k) /\ GoRunner(s, "accept")
  /\ UNCHANGED << by, ledger, ij, wj, issuer, lock >>

ChunkDies(s) ==
  /\ runner[s].pc = "running" /\ Camp!Die(runner[s].k)
  /\ \E pc \in {"halting", "dying"} : GoRunner(s, pc)
  /\ lock' = None
  /\ UNCHANGED << by, ledger, ij, wj, issuer >>

AppendAcceptance(s) ==
  LET k == runner[s].k
  IN  /\ runner[s].pc = "append" /\ LedgerReplays(k - 1) /\ Verified(k)
      /\ ledger' = Extended(ledger, s) /\ GoRunner(s, "ack")
      /\ UNCHANGED << campaign, ij, wj, issuer, lock >>

(* Anything else that raises, a time limit, or the death of the process:   *)
(* HALTED.json is written, or nothing is.                                  *)
Fail(s) ==
  LET r == runner[s]
  IN  /\ r.pc \notin {"new", "running", "halting", "dying", "halted", "dead"}
      /\ \/ r.pc # "finished" /\ GoRunner(s, "halting")
         \/ GoRunner(s, "dying")
      /\ lock' = IF lock = s THEN None ELSE lock
      /\ \/ UNCHANGED ledger
         \/ /\ r.pc = "append" /\ LedgerReplays(r.k - 1) /\ Verified(r.k)
            /\ ledger' = Torn(ledger)
      /\ UNCHANGED << campaign, ij, wj, issuer >>

(* The issuer is gone: it raised, or it was killed, perhaps over a file.   *)
IssuerGone(s) ==
  /\ GoIssuer(s, "gone")
  /\ \/ UNCHANGED << ij, wj >>
     \/ /\ issuer[s].pc \in {"reserve", "sign"} /\ Intact(ij, issuer[s].head)
        /\ ij' = Torn(ij) /\ UNCHANGED wj
     \/ /\ issuer[s].pc = "witness" /\ Intact(wj, issuer[s].whead)
        /\ wj' = Torn(wj) /\ UNCHANGED ij

IssuerDies(s) ==
  /\ issuer[s].pc \notin {"none", "gone"} /\ IssuerGone(s)
  /\ UNCHANGED << campaign, ledger, runner, lock >>

(* client.close, or the monitor at the end of the pipe. *)
Close(s) ==
  /\ runner[s].pc \in {"halting", "dying"} /\ IssuerGone(s)
  /\ GoRunner(s, IF runner[s].pc = "halting" THEN "halted" ELSE "dead")
  /\ UNCHANGED << campaign, ledger, lock >>

-----------------------------------------------------------------------------
(* The issuer: guard, and what each request is refused for. *)
Guarded(s) ==
  ~issuer[s].revoked /\ Intact(ij, issuer[s].head) /\ Intact(wj, issuer[s].whead)

Grants(s, op) ==
  LET i == issuer[s]  k == runner[s].k
  IN  CASE op = "AUTHORIZATION" ->
             /\ k \in From[s] + 1 .. To[s] /\ k = i.accepted + 1 /\ i.release = 0
             /\ status[k] = "open"
        [] op = "ACCEPTANCE" -> i.release = k /\ ~i.recorded /\ Verified(k)
        [] op = "HEAD_ACK" ->
             /\ i.recorded /\ LedgerReplays(i.release)
             /\ \A j \in From[s] + 1 .. i.release : ledger.events[j] = s
        [] op = "REVOCATION" -> TRUE

Examine(s) ==
  LET op == issuer[s].op
  IN  /\ issuer[s].pc = "examine" /\ Guarded(s) /\ Grants(s, op)
      /\ GoIssuer(s, IF op = "AUTHORIZATION" THEN "reserve" ELSE "sign")
      /\ UNCHANGED << campaign, ledger, ij, wj, runner, lock >>

(* An event of the issuer; its head moves with it. *)
Issue(s, event, pc, release) ==
  /\ ij' = Extended(ij, event)
  /\ issuer' = [issuer EXCEPT ![s].pc = pc, ![s].head = Append(@, event), ![s].release = release]
  /\ UNCHANGED << campaign, ledger, wj, runner, lock >>

(* A reservation is durable before the release it is for is signed. *)
Reserve(s) ==
  /\ issuer[s].pc = "reserve" /\ Intact(ij, issuer[s].head)
  /\ Issue(s, [by |-> s, purpose |-> "RESERVE", chunk |-> runner[s].k], "sign", runner[s].k)

Sign(s) ==
  LET i == issuer[s]
  IN  /\ i.pc = "sign" /\ Guarded(s)
      /\ Issue(s, [by |-> s, purpose |-> i.op, chunk |-> i.release], "witness", i.release)

(* What the issuer remembers once its answer is witnessed. *)
Remember(i) ==
  CASE i.op = "ACCEPTANCE" -> [i EXCEPT !.recorded = TRUE]
    [] i.op = "HEAD_ACK" -> [i EXCEPT !.accepted = i.release, !.release = 0, !.recorded = FALSE]
    [] i.op = "REVOCATION" -> [i EXCEPT !.revoked = TRUE]
    [] i.op = "AUTHORIZATION" -> i

(* The acknowledgement is witnessed, and only then is the answer sent.     *)
Witness(s) ==
  LET i == issuer[s]
      acknowledgement == [by |-> s, sequence |-> Len(i.head)]
      whead == Append(i.whead, acknowledgement)
  IN  /\ i.pc = "witness" /\ Intact(wj, i.whead) /\ Intact(ij, i.head)
      /\ wj' = Extended(wj, acknowledgement)
      /\ issuer' = [issuer EXCEPT ![s] = [Remember(i) EXCEPT !.pc = "ready", !.whead = whead,
           !.reply = [issued |-> i.head, witnessed |-> whead]]]
      /\ UNCHANGED << campaign, ledger, ij, runner, lock >>

-----------------------------------------------------------------------------
(* The control centre acquires a chunk, halts the campaign by acquiring    *)
(* one again, and accepts a chunk, each with the functions of the runner.  *)
AcquireByHand(k) ==
  /\ \/ Camp!Start(k) /\ by' = [by EXCEPT ![k] = ByHand]
     \/ by[k] = ByHand /\ (Camp!Pass(k) \/ Camp!Die(k)) /\ UNCHANGED by
  /\ UNCHANGED << ledger, ij, wj, issuer, runner, lock >>

HaltCampaign == Camp!Halt /\ UNCHANGED << by, ledger, ij, wj, issuer, runner, lock >>

AcceptByHand ==
  LET k == Len(ledger.events) + 1
  IN  /\ k \in Numbers /\ LedgerReplays(k - 1) /\ Verified(k)
      /\ ledger' \in {Extended(ledger, ByHand), Torn(ledger)}
      /\ UNCHANGED << campaign, ij, wj, issuer, runner, lock >>

(* A second record for a chunk that is in the ledger halts the ledger,     *)
(* which replays no better for its HALTED.json than for a part of a file.  *)
ConflictByHand ==
  /\ ledger.events # << >> /\ LedgerReplays(Len(ledger.events))
  /\ ledger' = Torn(ledger)
  /\ UNCHANGED << campaign, ij, wj, issuer, runner, lock >>

Empty == [events |-> << >>, torn |-> FALSE]

Init ==
  /\ Camp!Init /\ by = [k \in Numbers |-> None]
  /\ ledger = Empty /\ ij = Empty /\ wj = Empty /\ lock = None
  /\ issuer = [s \in Sessions |-> Process("none", s, << >>, << >>)]
  /\ runner = [s \in Sessions |-> Runner("new", s, << >>, << >>)]

Run(s) ==
  \/ RunStart(s) \/ CallAuthorize(s) \/ TakeRelease(s) \/ Claim(s) \/ ChunkPasses(s) \/ ChunkDies(s)
  \/ CallAccept(s) \/ TakeAcceptance(s) \/ AppendAcceptance(s) \/ CallAck(s) \/ TakeAck(s)

Answer(s) == Examine(s) \/ Reserve(s) \/ Sign(s) \/ Witness(s)

Next ==
  \/ \E s \in Sessions :
       Initialize(s) \/ Revoke(s) \/ Run(s) \/ Fail(s) \/ Close(s) \/ Answer(s) \/ IssuerDies(s)
  \/ HaltCampaign \/ AcceptByHand \/ ConflictByHand \/ \E k \in Numbers : AcquireByHand(k)

Spec == Init /\ [][Next]_vars

-----------------------------------------------------------------------------
(* Event e of session s for chunk k stands in the issuer's journal, and    *)
(* the witness has acknowledged it.                                        *)
Witnessed(s, purpose, k) ==
  \E n \in 1 .. Len(ij.events) :
    /\ ij.events[n] = [by |-> s, purpose |-> purpose, chunk |-> k]
    /\ \E w \in 1 .. Len(wj.events) : wj.events[w] = [by |-> s, sequence |-> n]

(* However many sessions name the registered journals, start together, die *)
(* and are started again, one of them ever issues, and it reserves a chunk *)
(* once ("issuance is globally reserved"; no restart adopts a journal).    *)
OneIssuer ==
  \A m, n \in 1 .. Len(ij.events) :
    /\ ij.events[m].by = ij.events[n].by
    /\ ij.events[m].purpose = "RESERVE" /\ ij.events[n] = ij.events[m] => m = n

(* A runner claims a chunk only with a release that was reserved before it *)
(* was signed and whose signature is witnessed.                            *)
ClaimIsWitnessed ==
  \A s \in Sessions, k \in Numbers : by[k] = s =>
    /\ Witnessed(s, "AUTHORIZATION", k)
    /\ \A n \in 1 .. Len(ij.events) :
         ij.events[n] = [by |-> s, purpose |-> "AUTHORIZATION", chunk |-> k] =>
           n > 1 /\ ij.events[n - 1] = [by |-> s, purpose |-> "RESERVE", chunk |-> k]

(* No chunk follows by itself: when a runner claims one, every chunk       *)
(* before it is in the ledger, and those of its window are acknowledged.   *)
NoAutoNext ==
  \A s \in Sessions, k \in Numbers : by[k] = s =>
    /\ Len(ledger.events) >= k - 1
    /\ \A j \in From[s] + 1 .. k - 1 : Witnessed(s, "HEAD_ACK", j)

(* Credit is earned: what the ledger holds was acquired in full, what a    *)
(* session appended was accepted by its issuer, and what a runner reports  *)
(* completed was acknowledged and is in the ledger under its name.         *)
CreditIsEarned ==
  /\ \A k \in 1 .. Len(ledger.events) :
       /\ status[k] = "passed"
       /\ ledger.events[k] \in Sessions => Witnessed(ledger.events[k], "ACCEPTANCE", k)
  /\ \A s \in Sessions : \A k \in runner[s].done :
       /\ k \in 1 .. Len(ledger.events) /\ ledger.events[k] = s
       /\ by[k] = s /\ Witnessed(s, "HEAD_ACK", k)
=============================================================================
