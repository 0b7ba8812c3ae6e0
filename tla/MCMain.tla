------------------------------- MODULE MCMain -------------------------------
(* What moves main, for TLC: the jobs of a day, or the documents that an   *)
(* intraday activation is reviewed and executed with while others push.    *)
(* They share no file, so a behaviour follows one and leaves the other at  *)
(* its start.                                                              *)
EXTENDS MCScheduler

CONSTANTS MaxMain, Touching, Secrets, Endpoints, Licenses, MaxRounds

VARIABLES part, main, desk, gate, rounds

Documents == INSTANCE ActivationExecution WITH at <- gate

ASSUME Documents!ReviewConstants

documents == << main, desk, gate, rounds >>

EitherInit == part \in {"jobs", "documents"} /\ Init /\ Documents!Init

EitherNext == \/ part = "jobs" /\ Next /\ UNCHANGED << part, documents >>
              \/ part = "documents" /\ Documents!Next /\ UNCHANGED << part, vars >>

EitherSpec == EitherInit /\ [][EitherNext]_<< part, vars, documents >>
-----------------------------------------------------------------------------
(* What is executed was made for one commit on main all through.           *)
OneGeneration == part = "documents" => Documents!OneGeneration
=============================================================================
