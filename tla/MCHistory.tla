----------------------------- MODULE MCHistory ------------------------------
(* The acquisition of single chunks and the batch over a window of chunks, *)
(* for TLC.  The batch sees of a chunk's acquisition what ChunkCampaign    *)
(* promises, so a behaviour follows one of them and leaves the other at    *)
(* its start.  A behaviour of its own has the staging campaign, which      *)
(* acquires the history of the two markets in the caches of GitHub.        *)
EXTENDS HistoryExecution, TLC

CONSTANTS Sessions, ChunkCount, From, To, ByHand
CONSTANTS TwseOrder, TpexOrder, MonthDays, FirstDay, LastDay, RawTarget, Target, Retained,
          MaxPeriods, MaxWorkers, MaxPins

VARIABLES part, status, stopped, by, ledger, ij, wj, issuer, runner, held
VARIABLES today, caches, pins, work

(* Two windows that overlap: chunks 2 and 3, and chunk 3 alone. *)
Before == [s \in Sessions |-> IF s = "first" THEN 1 ELSE 2]
Through == [s \in Sessions |-> 3]

Batch == INSTANCE HistoryBatch WITH halted <- stopped, lock <- held

(* Two stocks of each market; by the cfg the fifth session closed as the   *)
(* campaign starts, and the sixth closes on the way; a chunk has four      *)
(* months.                                                                 *)
TwseStocks == << "a", "b" >>
TpexStocks == << "x", "y" >>

Staging == INSTANCE StagingHistory

ASSUME PartsConstants == Batch!BatchConstants /\ Staging!StagingConstants

staging == << today, caches, pins, work >>
batch == << status, stopped, by, ledger, ij, wj, issuer, runner, held >>

EitherInit == part \in {"chunks", "batch", "staging"} /\ Init /\ Batch!Init /\ Staging!Init

EitherNext == \/ part = "chunks" /\ Next /\ UNCHANGED << part, batch, staging >>
              \/ part = "batch" /\ Batch!Next /\ UNCHANGED << part, vars, staging >>
              \/ part = "staging" /\ Staging!Next /\ UNCHANGED << part, vars, batch >>

EitherSpec == EitherInit /\ [][EitherNext]_<< part, vars, batch, staging >>

(* Operators are alike, and so are chunks: their order is not in the code. *)
Symmetry == Permutations(Operators) \cup Permutations(Chunks)
-----------------------------------------------------------------------------
(* At most one session ever issues on the registered journals, a session's *)
(* claim has a release that the witness journal holds, no chunk after the  *)
(* first is taken without the acknowledgement of the one before it, and    *)
(* the ledger credits acquired chunks only, in their order.                *)
BatchSound == part = "batch" => /\ Batch!OneIssuer /\ Batch!ClaimIsWitnessed
                                /\ Batch!NoAutoNext /\ Batch!CreditIsEarned

(* No month is fetched again along a lineage of caches, and the store of a *)
(* generation was taken from one accepted checkpoint and is whole.         *)
StagingSound == part = "staging" => Staging!StagingSound
=============================================================================
