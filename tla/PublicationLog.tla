--------------------------- MODULE PublicationLog ---------------------------
(***************************************************************************)
(* What the atomic publication owner promises (docs/RATE_ATOMIC_           *)
(* PUBLICATION_OWNER_V1.md, src/production_refresh_commit.py): the         *)
(* authoritative Latest pointer moves along one linear log of complete     *)
(* publication transactions.  A transaction enters the log at most once,   *)
(* at its end, in one step; no transaction is ever removed, reordered or   *)
(* replaced.  Everything the writers do before that step (captures,        *)
(* staging, locking, failing, crashing) is invisible here.                 *)
(***************************************************************************)
EXTENDS Sequences, Functions

CONSTANT Transactions   (* the publication transactions that may be committed *)

VARIABLE log            (* the committed transactions, oldest first *)

PublicationLogInit == log = << >>

Publish(t) ==
  /\ t \notin Range(log)
  /\ log' = Append(log, t)

PublicationLogNext == \E t \in Transactions : Publish(t)

PublicationLogSpec == PublicationLogInit /\ [][PublicationLogNext]_log

=============================================================================
