----------------------------- MODULE MCLiveState ----------------------------
(* Two days after the baseline: the first evening takes the full-market    *)
(* refresh, unless the second takes it before a late first one.  Or, in    *)
(* files of its own, the first refresh of the fundamentals.                *)
EXTENDS LiveState, TLC

CONSTANTS first, morning, rival, report, second, noon, evening

Calendar == first :> 7 @@ morning :> 8 @@ rival :> 8 @@ report :> 9 @@ second :> 9 @@ noon :> 10 @@ evening :> 11

CONSTANTS Operators, Authorizations, Roots, FinMind, Mops, MaxByHand

VARIABLE cast  \* the runs that take place; none, and it is the fundamentals' turn
VARIABLES expected, record, store, prior, pointer, verdict, lock, scan, phase, local, sent, good

Fundamental == INSTANCE FundamentalRefresh WITH latest <- pointer, pc <- phase

ASSUME FundamentalConstants == Fundamental!RefreshConstants

fundamental == <<expected, record, store, prior, pointer, verdict, lock, scan, phase, local, sent, good>>

(* Every slot of the second day; or two runs for its morning and two for   *)
(* its 09:30 report, with evidence of their own.                           *)
Casts == {{first, morning, report, noon, evening}, {first, morning, rival, report, second}}

ASSUME CastsAreRuns == UNION Casts \subseteq Runs

CastInit == cast \in Casts \cup {{}} /\ Init /\ Fundamental!Init

CastNext == \/ (\E r \in cast : Step(r)) /\ UNCHANGED <<cast, fundamental>>
            \/ cast = {} /\ Fundamental!Next /\ UNCHANGED <<cast, vars>>

CastSpec == CastInit /\ [][CastNext]_<<vars, cast, fundamental>>

Symmetric == Permutations(Operators) \cup Permutations(Authorizations)
-----------------------------------------------------------------------------
(* What the store holds and says of itself: a slot with its manifest loads *)
(* (ReadySlotsLoad), a run that reported PASS is published                 *)
(* (ReportedPublished), and the state that names a source has its evidence *)
(* beside it (EvidenceTravels).                                            *)
StoreTruthful == ReadySlotsLoad /\ ReportedPublished /\ EvidenceTravels

(* No request of a refresh is sent twice, what it publishes is complete    *)
(* and claimed, a failure stays one, and the consumer never turns away     *)
(* what the assembler wrote.                                               *)
RefreshSound == cast = {} => Fundamental!RefreshSound

(* The Fundamental Latest is a linear log of snapshots.                    *)
ImplementsPublicationLog == Fundamental!ImplementsPublicationLog
=============================================================================
