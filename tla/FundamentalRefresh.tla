------------------------- MODULE FundamentalRefresh -------------------------
(***************************************************************************)
(* The first refresh of the fundamentals: the single-use authorization,    *)
(* the sequential execution of its request plan and the publication of     *)
(* the Fundamental Latest (src/fundamental_first_refresh_execution.py),    *)
(* over the acquisition store and its replay                               *)
(* (scripts/run_prospective_provider_activation.py), the offline           *)
(* resolution of a known failure (src/prospective_acquisition_recovery.py) *)
(* and the read-only consumer of what was published                        *)
(* (src/fundamental_ranking_consumer.py).                                  *)
(*                                                                         *)
(* Operators run authorizations in execution roots, alike or not, one      *)
(* after the other or at once; anyone may acquire into a store by hand     *)
(* (--operation acquire); a write may fail or be left in part; a process   *)
(* may die between any two steps.  A checkout that moved on is a check     *)
(* that refuses, so main_guard may refuse wherever it stands.              *)
(***************************************************************************)
EXTENDS Naturals, Sequences, SequencesExt

CONSTANTS
  Operators,       (* the processes that execute a first refresh       *)
  Authorizations,  (* the execution authorizations, each with its plan *)
  Roots,           (* the execution roots                              *)
  FinMind,         (* how many requests of a plan go to FinMind        *)
  Mops,            (* and how many after them to MOPS                  *)
  MaxByHand,       (* bound: acquisitions by hand                      *)
  None             (* no process, no root, no Latest                   *)

RefreshConstants ==
  FinMind \in Nat /\ Mops \in Nat \ {0} /\ MaxByHand \in Nat
    /\ None \notin Operators \cup Authorizations \cup Roots
    /\ "unissued" \notin Authorizations \cup {None}

Planned == FinMind + Mops
Requests == 1 .. Planned

VARIABLES
  expected,  (* the Latest each issued authorization was sealed against   *)
  record,    (* its consumption record: the root it names, or "part"      *)
  store,     (* the acquisition store in each root                        *)
  prior,     (* the prior Latest each published manifest names            *)
  latest,    (* the Fundamental Latest pointer                            *)
  lock,      (* the holder of the publication lock of the artifacts root  *)
  scan,      (* the holder of each store's .scan.lock                     *)
  pc, local, (* where each operator is, and its variables                 *)
  verdict,   (* what the consumer made of each published snapshot         *)
  sent,      (* how often each planned request went out                   *)
  good       (* the planned requests whose answer passed inspect_source   *)

vars == << expected, record, store, prior, latest, verdict, lock, scan, pc, local, sent, good >>

disk == << record, store >>
published == << prior, latest, verdict >>
wire == << sent, good >>

NewStore(a) == [by |-> a, intents |-> << >>, events |-> 0, torn |-> FALSE,
                stop |-> FALSE, known |-> FALSE, resolved |-> FALSE]

(* Nothing there yet. *)
NoStore == NewStore(None)

Fresh == [auth |-> None, root |-> None, head |-> 0]

Entry(p) == local[p].head + 1

(* What the gate binds into an intent: the plan and the entry of it.       *)
Binding(p) == [auth |-> local[p].auth, entry |-> Entry(p)]

Goto(p, phase) == pc' = [pc EXCEPT ![p] = phase]
Leave(p) == Goto(p, "idle") /\ local' = [local EXCEPT ![p] = Fresh]

-----------------------------------------------------------------------------
(* Faulty variant: an intent without its outcome is passed over. *)
ReplaysEvents(s, head) == s # NoStore /\ ~s.torn /\ s.events = head

(* replay: the chain of events is whole, ends where the caller trusts it   *)
(* to, leaves no intent without its outcome and has no STOP.json beside it. *)
Replays(s, head) ==
  s # NoStore /\ ~s.torn /\ s.events = head /\ Len(s.intents) = s.events /\ ~s.stop

(* verify_lineage of the consumer: one event and one intent bound to the   *)
(* plan for each of its entries, and no other.                             *)
Lineage(s, a) ==
  Replays(s, Planned) /\ \A n \in Requests : s.intents[n] = [auth |-> a, entry |-> n]

-----------------------------------------------------------------------------
(* The periods a row needs; the assembler walks them oldest first          *)
(* (eps_periods, revenue_periods of the execution contract), the consumer  *)
(* newest first (eps_order, revenue_order of its own).                     *)
Periods == << "older", "newer" >>
Statuses == {"VALID_NUMERIC", "UNDEFINED_ZERO_BASE", "absent"}

Rows == [eps : [ToSet(Periods) -> Statuses \ {"UNDEFINED_ZERO_BASE"}],
         revenue : [ToSet(Periods) -> Statuses]]

(* The periods of a walk without a valid number, as they are come to.      *)
Lacking(walk, numbers) ==
  LET upto[n \in 0 .. Len(walk)] ==
        IF n = 0 THEN << >>
        ELSE IF numbers[walk[n]] = "VALID_NUMERIC" THEN upto[n - 1] ELSE Append(upto[n - 1], walk[n])
  IN  upto[Len(walk)]

(* assemble_fundamental: a period without a valid number is missing, and a *)
(* row with nothing missing is ready.                                      *)
Matrix(row) ==
  LET missing == [d \in {"eps", "revenue"} |-> Lacking(Periods, row[d])]
  IN  [inputs |-> row, missing |-> missing, ready |-> \A d \in {"eps", "revenue"} : missing[d] = << >>]

(* Faulty variant: the reasons stay in the order they were found. *)
AdaptsNewestFirst(issuer) ==
  LET reasons == [d \in {"eps", "revenue"} |-> Lacking(Reverse(Periods), issuer.inputs[d])]
  IN  issuer.missing = reasons /\ issuer.ready = (\A d \in {"eps", "revenue"} : reasons[d] = << >>)

(* adapt: the consumer derives the readiness again and wants the same.     *)
Adapts(issuer) ==
  LET reasons == [d \in {"eps", "revenue"} |-> Reverse(Lacking(Reverse(Periods), issuer.inputs[d]))]
  IN  issuer.missing = reasons /\ issuer.ready = (\A d \in {"eps", "revenue"} : reasons[d] = << >>)

-----------------------------------------------------------------------------
(* The control centre seals an authorization against the Latest it sees.   *)
Issue(a) ==
  /\ expected[a] = "unissued"
  /\ expected' = [expected EXCEPT ![a] = latest]
  /\ UNCHANGED << disk, published, lock, scan, pc, local, wire >>

(* main_guard, _actual_latest_precheck and validate_execution_authorization *)
Start(p, a, r) ==
  /\ pc[p] = "idle" /\ expected[a] = latest
  /\ Goto(p, "enter") /\ local' = [local EXCEPT ![p] = [auth |-> a, root |-> r, head |-> 0]]
  /\ UNCHANGED << expected, disk, published, lock, scan, wire >>

(* _authorization_claim_lock: tried again for ten seconds, then given up.  *)
EnterClaim(p) ==
  /\ pc[p] = "enter"
  /\ \/ lock = None /\ lock' = p /\ Goto(p, "claim") /\ UNCHANGED local
     \/ lock # None /\ Leave(p) /\ UNCHANGED lock
  /\ UNCHANGED << expected, disk, published, scan, wire >>

Leaves(p, done) == lock' = None /\ IF done THEN Goto(p, "create") /\ UNCHANGED local ELSE Leave(p)

(* Faulty variant: the record of an earlier claim is written over. *)
ClaimOver(p) ==
  LET a == local[p].auth
  IN  /\ pc[p] = "claim"
      /\ IF expected[a] = latest /\ store[local[p].root] = NoStore
           THEN record' = [record EXCEPT ![a] = local[p].root] /\ \E done \in {TRUE, FALSE} : Leaves(p, done)
           ELSE Leaves(p, FALSE) /\ UNCHANGED record
      /\ UNCHANGED << expected, store, published, scan, wire >>

(* claim_authorization under the lock.  The exclusive creation of the      *)
(* record is the claim; it may be left in part, and is never repaired.     *)
Claim(p) ==
  LET a == local[p].auth
  IN  /\ pc[p] = "claim"
      /\ IF expected[a] = latest /\ record[a] = None /\ store[local[p].root] = NoStore
           THEN \/ record' = [record EXCEPT ![a] = local[p].root] /\ \E done \in {TRUE, FALSE} : Leaves(p, done)
                \/ record' \in {record, [record EXCEPT ![a] = "part"]} /\ Leaves(p, FALSE)
           ELSE Leaves(p, FALSE) /\ UNCHANGED record
      /\ UNCHANGED << expected, store, published, scan, wire >>

(* create, REQUEST_PLAN.json and the checkpoint directory: outside the     *)
(* try, so what fails here leaves no FIRST_REFRESH_STOP.json.              *)
CreateStore(p) ==
  LET r == local[p].root
  IN  /\ pc[p] = "create"
      /\ \/ /\ store[r] = NoStore /\ store' = [store EXCEPT ![r] = NewStore(local[p].auth)]
            /\ Goto(p, "entry") /\ UNCHANGED local
         \/ /\ store[r] = NoStore /\ store' = [store EXCEPT ![r] = [NewStore(local[p].auth) EXCEPT !.torn = TRUE]]
            /\ Leave(p)
         \/ Leave(p) /\ UNCHANGED store
      /\ UNCHANGED << expected, record, published, lock, scan, wire >>

(* One entry: main_guard, then acquire_once under the store's scan lock -- *)
(* replay first, then the intent.                                          *)
PutIntent(p) ==
  LET r == local[p].root
  IN  /\ pc[p] = "entry"
      /\ \/ /\ scan[r] = None /\ Replays(store[r], local[p].head)
            /\ store' = [store EXCEPT ![r].intents = Append(@, Binding(p))]
            /\ \/ scan' = [scan EXCEPT ![r] = p] /\ Goto(p, "dispatch") /\ UNCHANGED local
               \/ Leave(p) /\ UNCHANGED scan
         \/ Leave(p) /\ UNCHANGED << store, scan >>
      /\ UNCHANGED << expected, record, published, lock, wire >>

(* Faulty variant: an HTTP error's page is taken for the answer. *)
DispatchAnyAnswer(p) ==
  LET a == local[p].auth  n == Entry(p)
  IN  /\ pc[p] = "dispatch"
      /\ sent' = [sent EXCEPT ![a][n] = @ + 1]
      /\ good' \in {good, [good EXCEPT ![a] = @ \cup {n}]} /\ Goto(p, "event")
      /\ UNCHANGED << expected, disk, published, lock, scan, local >>

(* check_outbound may refuse; the request goes out once, and is answered   *)
(* well, or with something inspect_source refuses, or not at all.          *)
Dispatch(p) ==
  LET a == local[p].auth  n == Entry(p)
  IN  /\ pc[p] = "dispatch"
      /\ \/ Goto(p, "halt") /\ UNCHANGED wire
         \/ /\ sent' = [sent EXCEPT ![a][n] = @ + 1]
            /\ \/ good' = [good EXCEPT ![a] = @ \cup {n}] /\ Goto(p, "event")
               \/ UNCHANGED good /\ Goto(p, "halt")
      /\ UNCHANGED << expected, disk, published, lock, scan, local >>

(* The raw bytes, the receipt and last the event. *)
PutEvent(p) ==
  LET r == local[p].root
  IN  /\ pc[p] = "event"
      /\ \/ /\ store' = [store EXCEPT ![r].events = @ + 1]
            /\ scan' = [scan EXCEPT ![r] = None] /\ Goto(p, "checkpoint")
         \/ \E t \in BOOLEAN : store' = [store EXCEPT ![r].torn = t] /\ Goto(p, "halt") /\ UNCHANGED scan
      /\ UNCHANGED << expected, record, published, lock, local, wire >>

(* The except of acquire_once: STOP.json, if it can be written. *)
Halt(p) ==
  LET r == local[p].root
  IN  /\ pc[p] = "halt"
      /\ \E written \in BOOLEAN : store' = [store EXCEPT ![r].stop = written]
      /\ scan' = [scan EXCEPT ![r] = None] /\ Leave(p)
      /\ UNCHANGED << expected, record, published, lock, wire >>

(* The event and its intent are read back, and the checkpoint chained.     *)
PutCheckpoint(p) ==
  /\ pc[p] = "checkpoint"
  /\ \/ /\ local' = [local EXCEPT ![p].head = @ + 1]
        /\ Goto(p, IF Entry(p) = Planned THEN "replay" ELSE "entry")
     \/ Leave(p)
  /\ UNCHANGED << expected, disk, published, lock, scan, wire >>

FinalReplay(p) ==
  /\ pc[p] = "replay"
  /\ IF Replays(store[local[p].root], Planned) THEN Goto(p, "stage") /\ UNCHANGED local ELSE Leave(p)
  /\ UNCHANGED << expected, disk, published, lock, scan, wire >>
(* assemble_fundamental, and publish_fundamental_atomic up to its lock.    *)
Stage(p) ==
  LET a == local[p].auth
  IN  /\ pc[p] = "stage"
      /\ \/ /\ latest = expected[a] /\ prior' = [prior EXCEPT ![a] = latest]
            /\ Goto(p, "commit") /\ UNCHANGED local
         \/ Leave(p) /\ UNCHANGED prior
      /\ UNCHANGED << expected, disk, latest, verdict, lock, scan, wire >>

(* Faulty variant: the Latest compared before the lock is believed under it. *)
CommitUnchecked(p) ==
  /\ pc[p] = "commit"
  /\ lock = None /\ latest' = local[p].auth
  /\ Leave(p)
  /\ UNCHANGED << expected, disk, prior, verdict, lock, scan, wire >>

(* Under the lock, which is not waited for: the Latest is compared again,  *)
(* replaced in one step and observed.  Every way out ends the execution,   *)
(* and what raises leaves FIRST_REFRESH_STOP.json, which nobody reads --   *)
(* also when the pointer was replaced already.                             *)
Commit(p) ==
  /\ pc[p] = "commit"
  /\ \/ lock = None /\ latest = expected[local[p].auth] /\ latest' = local[p].auth
     \/ UNCHANGED latest
  /\ Leave(p)
  /\ UNCHANGED << expected, disk, prior, verdict, lock, scan, wire >>

(* The process dies; the system takes its locks back, and what it was      *)
(* writing may be there in part.                                           *)
Crash(p) ==
  LET r == local[p].root
  IN  /\ pc[p] # "idle" /\ Leave(p)
      /\ lock' = IF lock = p THEN None ELSE lock
      /\ scan' = [scan EXCEPT ![r] = IF @ = p THEN None ELSE @]
      /\ store' \in IF pc[p] = "event" THEN {store, [store EXCEPT ![r].torn = TRUE]} ELSE {store}
      /\ UNCHANGED << expected, record, published, wire >>

-----------------------------------------------------------------------------
ByHand(s) == Len(SelectSeq(s.intents, LAMBDA i : i.auth = None))

(* acquire_once from the command line, into the store of an execution: its *)
(* gate binds no plan.  It ends with an event, or without one: stopped by  *)
(* a failure that may be known -- an HTTP error of MOPS whose response is  *)
(* retained -- or dead.                                                    *)
AcquireByHand(r) ==
  LET s == store[r]
      asked == [s EXCEPT !.intents = Append(@, [auth |-> None, entry |-> 0])]
  IN  /\ scan[r] = None /\ s # NoStore /\ Replays(s, s.events) /\ ByHand(s) < MaxByHand
      /\ \/ store' = [store EXCEPT ![r] = [asked EXCEPT !.events = @ + 1]]
         \/ \E written, http \in BOOLEAN :
              store' = [store EXCEPT ![r] = [asked EXCEPT !.known = http, !.stop = written]]
      /\ UNCHANGED << expected, record, published, lock, scan, pc, local, wire >>

(* Faulty variant: any intent without an event passes for a known failure. *)
ResolveAny(r) ==
  LET s == store[r]
  IN  /\ s # NoStore /\ ~s.torn /\ ~s.resolved /\ Len(s.intents) = s.events + 1
      /\ store' = [store EXCEPT ![r].resolved = TRUE]
      /\ UNCHANGED << expected, record, published, lock, scan, pc, local, wire >>

(* create_resolution: after the whole prefix of successes, the one intent  *)
(* whose failure is known and whose STOP.json is written.  It reads the    *)
(* gate's evidence where acquire_once by hand has it, and where the gate   *)
(* of a plan does not.  The overlay lies beside the store, which is read   *)
(* only.                                                                   *)
Resolve(r) ==
  LET s == store[r]
  IN  /\ s # NoStore /\ ~s.torn /\ s.stop /\ ~s.resolved /\ Len(s.intents) = s.events + 1
      /\ s.known /\ Last(s.intents).auth = None
      /\ store' = [store EXCEPT ![r].resolved = TRUE]
      /\ UNCHANGED << expected, record, published, lock, scan, pc, local, wire >>

(* build of the consumer, over the Latest it was accepted for: whatever    *)
(* rows the answers came to, it adapts the matrix the assembler made.      *)
Consume(a) ==
  /\ latest = a /\ verdict[a] = "none" /\ Lineage(store[record[a]], a)
  /\ \E row \in Rows : verdict' = [verdict EXCEPT ![a] = IF Adapts(Matrix(row)) THEN "built" ELSE "refused"]
  /\ UNCHANGED << expected, disk, prior, latest, lock, scan, pc, local, wire >>

Init ==
  /\ expected = [a \in Authorizations |-> "unissued"]
  /\ record = [a \in Authorizations |-> None] /\ store = [r \in Roots |-> NoStore]
  /\ prior = [a \in Authorizations |-> None]
  /\ latest = None /\ verdict = [a \in Authorizations |-> "none"]
  /\ lock = None /\ scan = [r \in Roots |-> None]
  /\ pc = [p \in Operators |-> "idle"] /\ local = [p \in Operators |-> Fresh]
  /\ sent = [a \in Authorizations |-> [n \in Requests |-> 0]]
  /\ good = [a \in Authorizations |-> {}]

Execute(p) ==
  \/ EnterClaim(p) \/ Claim(p) \/ CreateStore(p) \/ PutIntent(p) \/ Dispatch(p) \/ PutEvent(p)
  \/ Halt(p) \/ PutCheckpoint(p) \/ FinalReplay(p) \/ Stage(p) \/ Commit(p) \/ Crash(p)

Next ==
  \/ \E a \in Authorizations : Issue(a) \/ Consume(a)
  \/ \E p \in Operators : Execute(p) \/ \E a \in Authorizations, r \in Roots : Start(p, a, r)
  \/ \E r \in Roots : AcquireByHand(r) \/ Resolve(r)

Spec == Init /\ [][Next]_vars

-----------------------------------------------------------------------------
(* The chain an auditor walks back from the pointer, by prior_latest_identity. *)
Walked[a \in Authorizations \cup {None}] ==
  IF a = None THEN << >> ELSE Append(Walked[prior[a]], a)

(* No planned request is ever sent twice, whoever runs the authorization,  *)
(* wherever and however often ("automatic_retry": 0, single_use).          *)
AskedOnce == \A a \in Authorizations, n \in Requests : sent[a][n] <= 1

(* What was published was claimed, is complete, and follows the Latest its *)
(* authorization was sealed against.                                       *)
PublishedWhole ==
  \A a \in Authorizations : latest = a =>
    record[a] \in Roots /\ good[a] = Requests /\ expected[a] = prior[a]

(* A failure that was resolved stays one: it is known, it never gets an    *)
(* event, and nothing is ever acquired after it.                           *)
FailureStays ==
  \A r \in Roots : store[r] # NoStore /\ store[r].resolved =>
    store[r].known /\ store[r].stop /\ Len(store[r].intents) = store[r].events + 1

(* The consumer never turns away the rows the assembler wrote, and what it *)
(* judged was asked for once and answered.                                 *)
ConsumerAgrees ==
  \A a \in Authorizations : verdict[a] # "refused" /\ (verdict[a] = "built" => good[a] = Requests)

RefreshSound == AskedOnce /\ PublishedWhole /\ FailureStays /\ ConsumerAgrees

Promise == INSTANCE PublicationLog WITH Transactions <- Authorizations, log <- Walked[latest]

(* The Fundamental Latest keeps the promise of the publication owner too:  *)
(* one linear log of snapshots, each in it once.                           *)
ImplementsPublicationLog == Promise!PublicationLogSpec
=============================================================================
