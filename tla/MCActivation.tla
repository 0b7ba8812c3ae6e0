---------------------------- MODULE MCActivation ----------------------------
(* Three parts that share no state, a behaviour following one of them and   *)
(* leaving the others at their start.                                      *)
(*   fence: the single-use marker before a provider.                       *)
(*   transaction: the Git transaction of an activation.                    *)
(*   store: the qualification of its receipt store.                        *)
EXTENDS ConsumptionMarker, TLC

CONSTANTS Runners, Kinds, Ids, Plans, Files, MaxMain, Tokens, MaxFaults

VARIABLES part, main, receipts, tokens, blobs, trees, commits, branch, pulls, attempted, tpc, job, past, opened,
          way, consumed, token, at, failed, account, made, attempts, unclean, result, faults

(* Both plans are for one decision and so for one branch. *)
OneBranch == [p \in Plans |-> "b"]

Transaction == INSTANCE ActivationTransaction_proofs WITH Executors <- Runners, BranchOf <- OneBranch, pc <- tpc

Store == INSTANCE StoreQualification

ASSUME PartsConstants == Transaction!TransactionConstants

transaction == <<main, receipts, tokens, blobs, trees, commits, branch, pulls, attempted, tpc, job, past, opened>>
qualification == <<way, consumed, token, at, failed, account, made, attempts, unclean, result, faults>>

EitherInit == /\ part \in {"fence", "transaction", "store"}
              /\ Init /\ Transaction!Init /\ Store!Init
              /\ part # "store" => way = "shaped"

EitherNext == \/ part = "fence" /\ Next /\ UNCHANGED <<part, transaction, qualification>>
              \/ part = "transaction" /\ Transaction!Next /\ UNCHANGED <<part, vars, qualification>>
              \/ part = "store" /\ Store!Next /\ UNCHANGED <<part, vars, transaction>>

EitherSpec == EitherInit /\ [][EitherNext]_<<part, vars, transaction, qualification>>

Symmetric == Permutations(Runners) \cup Permutations(Ids) \cup Permutations(Plans)
-----------------------------------------------------------------------------
(* One execution id takes one executor to Git, and behind its receipt; no  *)
(* activation branch is without its commit, tree and files; and what       *)
(* reports PASS has happened.                                              *)
TransactionSound == part = "transaction" => Transaction!TransactionSound

(* What a qualification reports clean is clean.                            *)
QualificationClean == part = "store" => Store!QualificationClean
=============================================================================
