---------------------------- MODULE MCPublication ---------------------------
(* Three concurrent attempts over two bundles: two attempts can share every *)
(* staged object while the third moves the pointer under them.  Or two      *)
(* acquisitions of such bundles, days apart, which share no state with them.*)
EXTENDS RefreshCommit, TLC

CONSTANTS Symbols, Tpex, LastSession, MonthLength, MinSessions, MaxSessions, MinAligned, MaxMonths, Runs,
          Requested, MaxFaults, None, Over

VARIABLES part, today, closed, main, commits, job, faults

Source == INSTANCE SourceAcquisition

ASSUME PartsConstants == Source!AcquisitionConstants

acquisition == << today, closed, main, commits, job, faults >>

EitherInit == /\ part \in {"publication", "acquisition"} /\ Init /\ Source!Init
              /\ part = "acquisition" => /\ pointer = Absent
                                         /\ bundle = [a \in Attempts |-> CHOOSE b \in Bundles : TRUE]

EitherNext == \/ part = "publication" /\ Next /\ UNCHANGED << part, acquisition >>
              \/ part = "acquisition" /\ Source!Next /\ UNCHANGED << part, vars >>

EitherSpec == EitherInit /\ [][EitherNext]_<< part, vars, acquisition >>

Symmetric == Permutations(Attempts) \cup Permutations(Runs)
-----------------------------------------------------------------------------
(* What an acquisition puts on main is bound to its date and whole.        *)
SourceSound == part = "acquisition" => Source!SourceSound
=============================================================================
