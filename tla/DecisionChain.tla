---------------------------- MODULE DecisionChain ---------------------------
(***************************************************************************)
(* The decision-state chain of one cadence: the chain, its idempotency     *)
(* index and the full state files of decision_state/<cadence>, written by  *)
(* persist_decision_state_once of src/cer074_acceptance.py (the first      *)
(* production bootstrap), and by initialize_chain and the persist_*_once   *)
(* functions of src/cer075_scheduler.py and its siblings cer076, cer077,   *)
(* cer078 and cer080, which repeat its protocol.                           *)
(*                                                                         *)
(* Each file is replaced atomically but the three are replaced one after   *)
(* the other.  A state id is a hash of the decision, so an index entry     *)
(* with another hash for the same id does not occur.                       *)
(***************************************************************************)
EXTENDS Sequences, Naturals, FiniteSets

CONSTANTS
  Jobs,       (* jobs that build and persist one decision each               *)
  Bootstraps, (* those of them that persist a first bootstrap decision       *)
  Previous,   (* the predecessor each recurring job was given                *)
  Seeded,     (* a predecessor that comes from another cadence or day        *)
  Nothing,    (* a bootstrap's predecessor                                   *)
  Computed    (* when each decision was computed                             *)

(* A decision is named by the job that builds it. *)
ASSUME JobsHavePredecessors ==
  /\ Bootstraps \subseteq Jobs
  /\ Seeded \notin Jobs /\ Nothing \notin Jobs \cup {Seeded}
  /\ Previous \in [Jobs \ Bootstraps -> Jobs \cup {Seeded}]

(* A decision names the hash of its predecessor, so it is the later one.   *)
ASSUME PredecessorsAreOlder ==
  /\ Computed \in [Jobs \cup {Seeded} -> Nat]
  /\ \A j \in Jobs \ Bootstraps : Computed[Previous[j]] < Computed[j]

VARIABLES
  chain,    (* RATE_PRODUCTION_DECISION_STATE_CHAIN.json, << >> when absent  *)
  index,    (* the state ids in ..._IDEMPOTENCY_INDEX.json                   *)
  bodies,   (* the state ids whose full state file exists                    *)
  read,     (* the index as the running job read it                          *)
  pc,       (* where each job is                                             *)
  persists  (* how many persist calls of this run of the job have returned   *)

vars == << chain, index, bodies, read, pc, persists >>

States == Jobs \cup {Seeded}
InChain == {chain[i] : i \in DOMAIN chain}
Parent(state) == IF state \in Bootstraps THEN Nothing ELSE Previous[state]

Steps == {"initialize", "seed_index", "persist", "write_chain", "write_index", "write_body"}
Phases == {"idle", "failed", "crashed", "passed"} \cup Steps

Goto(j, phase) == pc' = [pc EXCEPT ![j] = phase]

(* duplicate_job_behavior: SERIALIZE_BY_CONCURRENCY_GROUP. *)
Busy == \E j \in Jobs : pc[j] \in Steps

-----------------------------------------------------------------------------
(* A job starts, or is started again after it failed or died.  The first   *)
(* bootstrap is refused where a chain exists.                              *)
Start(j) ==
  /\ pc[j] \notin Steps /\ ~Busy
  /\ persists' = [persists EXCEPT ![j] = 0]
  /\ \/ j \in Bootstraps /\ Goto(j, IF chain = << >> THEN "persist" ELSE "failed")
     \/ j \notin Bootstraps /\ Goto(j, "initialize")
  /\ UNCHANGED << chain, index, bodies, read >>

(* Faulty variant: the chain is seeded again whenever a job starts.        *)
InitializeChainAlways(j) ==
  /\ pc[j] = "initialize"
  /\ chain' = << Previous[j] >> /\ Goto(j, "seed_index")
  /\ UNCHANGED << index, bodies, read, persists >>

(* initialize_chain: seeded from the predecessor unless there is a chain.  *)
InitializeChain(j) ==
  /\ pc[j] = "initialize"
  /\ \/ chain = << >> /\ chain' = << Previous[j] >> /\ Goto(j, "seed_index")
     \/ chain # << >> /\ Goto(j, "persist") /\ UNCHANGED chain
  /\ UNCHANGED << index, bodies, read, persists >>

SeedIndex(j) ==
  /\ pc[j] = "seed_index"
  /\ index' = {chain[1]}
  /\ Goto(j, "persist")
  /\ UNCHANGED << chain, bodies, read, persists >>

(* Faulty variant: the index alone decides, the chain's tail is not looked at. *)
AppendableByIndex(j) == TRUE

(* A bootstrap needs an empty chain, a recurring decision its tail.        *)
Appendable(j) ==
  IF j \in Bootstraps THEN chain = << >>
  ELSE chain # << >> /\ chain[Len(chain)] = Previous[j]

(* Faulty variant: the index is written and the chain is not.              *)
PersistIndexOnly(j) ==
  /\ pc[j] = "persist"
  /\ read' = index
  /\ \/ /\ j \in index
        /\ persists' = [persists EXCEPT ![j] = @ + 1]
        /\ Goto(j, IF persists[j] = 0 THEN "persist" ELSE "passed")
     \/ j \notin index /\ Appendable(j) /\ Goto(j, "write_index") /\ UNCHANGED persists
     \/ j \notin index /\ ~Appendable(j) /\ Goto(j, "failed") /\ UNCHANGED persists
  /\ UNCHANGED << chain, index, bodies >>

(* persist_*_once: IDEMPOTENT_NOOP when indexed, else PREVIOUS_CURRENT_    *)
(* MISMATCH or FIRST_PRODUCTION_BOOTSTRAP_ALREADY_CONSUMED unless it can   *)
(* be appended.  The job calls it a second time to prove idempotency.      *)
Persist(j) ==
  /\ pc[j] = "persist"
  /\ read' = index
  /\ \/ /\ j \in index
        /\ persists' = [persists EXCEPT ![j] = @ + 1]
        /\ Goto(j, IF persists[j] = 0 THEN "persist" ELSE "passed")
     \/ j \notin index /\ Appendable(j) /\ Goto(j, "write_chain") /\ UNCHANGED persists
     \/ j \notin index /\ ~Appendable(j) /\ Goto(j, "failed") /\ UNCHANGED persists
  /\ UNCHANGED << chain, index, bodies >>

WriteChain(j) ==
  /\ pc[j] = "write_chain"
  /\ chain' = Append(chain, j)
  /\ Goto(j, "write_index")
  /\ UNCHANGED << index, bodies, read, persists >>

WriteIndex(j) ==
  /\ pc[j] = "write_index"
  /\ index' = read \cup {j}
  /\ Goto(j, "write_body")
  /\ UNCHANGED << chain, bodies, read, persists >>

WriteBody(j) ==
  /\ pc[j] = "write_body"
  /\ bodies' = bodies \cup {j}
  /\ persists' = [persists EXCEPT ![j] = @ + 1]
  /\ Goto(j, IF persists[j] = 0 THEN "persist" ELSE "failed")
  /\ UNCHANGED << chain, index, read >>

(* The job dies, or one of its writes raises.                              *)
Crash(j) ==
  /\ pc[j] \in Steps
  /\ Goto(j, "crashed")
  /\ UNCHANGED << chain, index, bodies, read, persists >>

Init ==
  /\ chain = << >> /\ index = {} /\ bodies = {} /\ read = {}
  /\ pc = [j \in Jobs |-> "idle"]
  /\ persists = [j \in Jobs |-> 0]

Step(j) ==
  \/ InitializeChain(j) \/ SeedIndex(j) \/ Persist(j)
  \/ WriteChain(j) \/ WriteIndex(j) \/ WriteBody(j)

Next == \E j \in Jobs : Start(j) \/ Step(j) \/ Crash(j)

Spec == Init /\ [][Next]_vars

-----------------------------------------------------------------------------
TypeOK ==
  /\ chain \in Seq(States)
  /\ index \in SUBSET States /\ read \in SUBSET States
  /\ bodies \in SUBSET Jobs
  /\ pc \in [Jobs -> Phases]
  /\ persists \in [Jobs -> 0 .. 2]

(* However often jobs die between two files and are started again, a state *)
(* is appended once, and right after the state it was computed from.       *)
ChainLinked ==
  /\ \A i, k \in DOMAIN chain : chain[i] = chain[k] => i = k
  /\ \A i \in DOMAIN chain : i > 1 => chain[i - 1] = Parent(chain[i])

(* The files never overtake the chain: what is indexed is in the chain,    *)
(* and what has a full state file is indexed.                              *)
ChainLeads == index \subseteq InChain /\ bodies \subseteq index

(* The chain only grows at its end. *)
ChainAppendOnly == [][SubSeq(chain', 1, Len(chain)) = chain]_chain

(* partial_persist_failure_no_half_state (src/cer075_scheduler.py:300): a  *)
(* failed persist leaves no half state, that is no state that is in the    *)
(* chain without its index entry and its full state file.                  *)
NoHalfState ==
  \A j \in Jobs : pc[j] \in {"failed", "crashed"} /\ j \in InChain => j \in index /\ j \in bodies
=============================================================================
