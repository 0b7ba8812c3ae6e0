---------------------------- MODULE MCAcceptance ----------------------------
(* Five parts that share no state, a behaviour following one of them.      *)
(*   chain: the chain of the cadences' decisions (MCDecisionChain).        *)
(*   bootstraps: two rebaselines and a recovery that compete for a         *)
(*     morning, a recovery of the 09:30 after it and a rebaseline for the  *)
(*     noon after that.                                                    *)
(*   ledger: the Route B ledger that credits production runs, and the two  *)
(*     soaks over them.                                                    *)
(*   day: the acceptance jobs of one trading day, each going by the        *)
(*     evidence of the one before.                                         *)
(*   market: the history bootstrap of the full market.                     *)
EXTENDS MCDecisionChain

CONSTANTS base, rebase, later, recover, mend, Scheduled,
          LastDay, ReaderTakesQueries, ActivationMayPush, MaxFaults, MaxReruns, None,
          MaxStarts, MaxRunning,
          Shards, Dates, MaxRuns, MaxMerges, MaxRivals

VARIABLES part,
          directories, files, staged, recorded, latest, bootstrap,
          clock, states, late, manual, foreign, strayed, requested, running, pending, dropped, clone, store, faults, reruns,
          chains, listed, whole, evidence, job, starts, broken,
          owners, branch, run, shard, publish, accepted, count

MorningToNoon == base :> 4 @@ rebase :> 4 @@ recover :> 4 @@ mend :> 5 @@ later :> 6

Boot == INSTANCE Bootstrap_proofs WITH
          LastDay <- 1, Rebaselines <- {base, rebase, later}, Recoveries <- {recover, mend},
          Target <- MorningToNoon, pc <- bootstrap

Ledger == INSTANCE ReportSoak

Day == INSTANCE DayChain WITH MaxFaults <- 1, chain <- chains, index <- listed, bodies <- whole, faults <- broken

(* By the cfg a shard of two symbols and a shard of one; while two runs    *)
(* work the owner files change once, and somebody else pushes once.        *)
Market == INSTANCE FullMarketHistory

ASSUME PartsConstants ==
       /\ Boot!BootstrapConstants /\ Ledger!RouteBConstants /\ Day!DayConstants
       /\ Market!MarketConstants

bootstraps == << directories, files, staged, recorded, latest, bootstrap >>
routeB == << clock, states, late, manual, foreign, strayed, requested, running, pending, dropped, clone, store, faults, reruns >>
day == << chains, listed, whole, evidence, job, starts, broken >>
market == << owners, branch, run, shard, publish, accepted, count >>

EitherInit == /\ part \in {"chain", "bootstraps", "ledger", "day", "market"}
              /\ Init /\ Boot!Init /\ Ledger!Init /\ Day!Init /\ Market!Init
              /\ part # "day" => evidence["morning"] = "entry"

EitherNext == \/ part = "chain" /\ Next /\ UNCHANGED << part, bootstraps, routeB, day, market >>
              \/ part = "bootstraps" /\ Boot!Next /\ UNCHANGED << part, vars, routeB, day, market >>
              \/ part = "ledger" /\ Ledger!Next /\ UNCHANGED << part, vars, bootstraps, day, market >>
              \/ part = "day" /\ Day!Next /\ UNCHANGED << part, vars, bootstraps, routeB, market >>
              \/ part = "market" /\ Market!Next /\ UNCHANGED << part, vars, bootstraps, routeB, day >>

EitherSpec == EitherInit /\ [][EitherNext]_<< part, vars, bootstraps, routeB, day, market >>
-----------------------------------------------------------------------------
(* What the bootstraps leave: packages whole or absent, a LATEST that      *)
(* loads, and evidence of consumption for what is published.               *)
BootstrapSound == part = "bootstraps" => Boot!BootstrapSound

(* A slot that has its manifest is never written again.                    *)
PublishedForGood == Boot!PublishedForGood

(* An authorization whose state is published is not used again.            *)
SingleUse == Boot!SingleUse

(* A repair puts LATEST on the newest state there is.                      *)
RepairMovesOn == Boot!RepairMovesOn

(* What has credit is the lineage of main, run by run; and a soak over it  *)
(* passes by that lineage only.                                            *)
CreditIsLineage == part = "ledger" => Ledger!CreditIsLineage /\ Ledger!SoakIsLineage

(* A collector that ends without an outage has credited its authentic run. *)
AuthenticRunCredited == Ledger!AuthenticRunCredited

(* A session is opened once, for good, and keeps what it has credited.     *)
LedgerGrows == Ledger!LedgerGrows

(* What a job of the day leaves as evidence is backed by its chain.        *)
EvidenceBacked == part = "day" => Day!EvidenceBacked

(* The history branch of the full market only grows, its checkpoints load, *)
(* its snapshots are whole, and what was reported PASS stands.             *)
MarketSound == part = "market" => Market!MarketSound
=============================================================================
