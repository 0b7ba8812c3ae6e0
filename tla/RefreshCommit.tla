---------------------------- MODULE RefreshCommit ---------------------------
(***************************************************************************)
(* Atomic publication of a production source bundle:                       *)
(* publish_latest in scripts/publish_production_source_bundle_latest.py on *)
(* top of the immutable objects, the writer lock and the compare-and-swap  *)
(* pointer of src/production_refresh_commit.py.                            *)
(*                                                                         *)
(* An attempt is one call of publish_latest.  Every attempt seals its own  *)
(* timestamps into its Thin Work manifest and its refresh manifest, so a   *)
(* refresh manifest's digest is identified with the attempt that built it; *)
(* bundles and snapshots carry no such stamp and are shared by attempts    *)
(* that publish the same material.  A file under production_source_        *)
(* snapshots/objects is absent, torn (created, its bytes not all there) or *)
(* whole; it is never written again once created.                          *)
(***************************************************************************)
EXTENDS Sequences, Naturals, FiniteSets, Functions

CONSTANTS
  Attempts,   (* calls of publish_latest                                    *)
  Bundles,    (* the source bundles they are given                          *)
  Absent,     (* there is no Latest pointer (its identity is None)          *)
  Legacy      (* a PASS pointer written before there were refresh manifests *)

ASSUME IdentitiesDistinct ==
  /\ Absent # Legacy
  /\ {Absent, Legacy} \cap (Attempts \cup Bundles) = {}

VARIABLES
  pointer,    (* identity of the Latest pointer's bytes                     *)
  whole,      (* the complete immutable objects                             *)
  torn,       (* the objects created but not, or not yet, complete          *)
  lock,       (* the attempt that holds the OS writer lock, or Absent       *)
  compat,     (* the identity the compatibility view is derived from        *)
  pc,         (* where each attempt is                                      *)
  writing,    (* is the attempt between open("xb") and the end of its write *)
  bundle,     (* the bundle each attempt was given                          *)
  prior,      (* prior_identity: the pointer each attempt captured          *)
  expected,   (* expected_previous_latest: captured too, or a caller's pin  *)
  origin,     (* history: the pointer before the first attempt              *)
  log         (* history: the attempts the pointer has named, oldest first  *)

vars == << pointer, whole, torn, lock, compat, pc, writing, bundle, prior,
           expected, origin, log >>
given == << bundle, origin >>
local == << writing, given, prior, expected >>
disk == << whole, torn >>

Identities == Attempts \cup {Absent, Legacy}

-----------------------------------------------------------------------------
(* The immutable objects, by role and by what determines their bytes.      *)

(* The snapshot_id an identity's pointer file carries. *)
SnapshotOf(identity) == IF identity \in Attempts THEN bundle[identity] ELSE identity

Snapshots == Bundles \cup {Absent, Legacy}
Roles == {"source_bundle", "source_snapshot", "thin_work_manifest", "refresh_manifest"}

Objects ==
  ({"source_bundle"} \X Bundles)
    \cup ({"source_snapshot"} \X (Bundles \X Snapshots))
    \cup ({"thin_work_manifest", "refresh_manifest"} \X Attempts)

ObjectOf(a, role) ==
  << role, CASE role = "source_bundle"   -> bundle[a]
             [] role = "source_snapshot" -> << bundle[a], SnapshotOf(prior[a]) >>
             [] OTHER                    -> a >>

(* The object's staging step is followed by ... *)
After == [source_bundle      |-> "source_snapshot",
          source_snapshot    |-> "thin_gate",
          thin_work_manifest |-> "staged",
          refresh_manifest   |-> "verify"]

References(a) == {ObjectOf(a, role) : role \in Roles}

(* read_committed on the pointer file of identity i: the archived manifest *)
(* and every object it requires are there and match their digests.         *)
Readable(identity) == identity \in Attempts => References(identity) \subseteq whole

Seen == {log[i] : i \in DOMAIN log}

Ended == {"done", "blocked", "refused", "failed", "unconfirmed", "crashed"}
InLock == {"cas", "refresh_manifest", "verify", "replace", "observe"}
Preparing == {"captured", "prior_read", "validate", "source_bundle",
              "source_snapshot", "thin_gate", "thin_work_manifest", "staged"}
Phases == {"idle"} \cup Preparing \cup InLock \cup {"committed"} \cup Ended

Goto(a, phase) == pc' = [pc EXCEPT ![a] = phase]

(* Leaving commit()'s with-block, or dying in it, gives the OS lock back.  *)
Release(a) == lock' = IF lock = a THEN Absent ELSE lock

-----------------------------------------------------------------------------
(* publish_latest up to the staged transaction.                            *)

(* The prior identity is captured before anything is built; expected is    *)
(* that same identity unless the caller pinned an identity it saw earlier. *)
CaptureIdentity(a) ==
  /\ pc[a] = "idle"
  /\ prior' = [prior EXCEPT ![a] = pointer]
  /\ \E pin \in {pointer} \cup Seen \cup {Absent} :
       expected' = [expected EXCEPT ![a] = pin]
  /\ Goto(a, "captured")
  /\ UNCHANGED << pointer, disk, lock, compat, writing, given, log >>

(* The pointer is read a second time; it must still be what was captured.  *)
(* A prior with an artifact_kind must also be cold-readable.               *)
ReadPrior(a) ==
  /\ pc[a] = "captured"
  /\ \/ /\ prior[a] = Absent
        /\ Goto(a, "validate")
     \/ /\ prior[a] # Absent
        /\ pointer = prior[a]
        /\ Goto(a, IF prior[a] = Legacy THEN "validate" ELSE "prior_read")
     \/ /\ prior[a] # Absent
        /\ pointer # prior[a]
        /\ Goto(a, "refused")
  /\ UNCHANGED << pointer, disk, lock, compat, local, log >>

VerifyPrior(a) ==
  /\ pc[a] = "prior_read"
  /\ Goto(a, IF pointer = prior[a] /\ Readable(prior[a]) THEN "validate" ELSE "refused")
  /\ UNCHANGED << pointer, disk, lock, compat, local, log >>

(* The bundle's validation and the delivery plan pass, or the attempt is   *)
(* BLOCKED without having written anything.                                *)
ValidateBundle(a) ==
  /\ pc[a] = "validate"
  /\ \E next \in {"source_bundle", "blocked"} : Goto(a, next)
  /\ UNCHANGED << pointer, disk, lock, compat, local, log >>

(* validate_shadow_manifest passes, or the staged files stay as evidence.  *)
ThinGate(a) ==
  /\ pc[a] = "thin_gate"
  /\ \E next \in {"thin_work_manifest", "blocked"} : Goto(a, next)
  /\ UNCHANGED << pointer, disk, lock, compat, local, log >>

-----------------------------------------------------------------------------
(* put_object: exclusive create, write, fsync, read back.  An object that  *)
(* already exists must hold the very same bytes.                           *)

(* Faulty variant: open("wb") truncates an object that is already there. *)
CreateObjectTruncating(a) ==
  /\ pc[a] \in Roles /\ ~writing[a]
  /\ torn' = torn \cup {ObjectOf(a, pc[a])}
  /\ whole' = whole \ {ObjectOf(a, pc[a])}
  /\ writing' = [writing EXCEPT ![a] = TRUE]
  /\ UNCHANGED << pointer, lock, compat, pc, given, prior, expected, log >>

CreateObject(a) ==
  /\ pc[a] \in Roles /\ ~writing[a]
  /\ ObjectOf(a, pc[a]) \notin whole \cup torn
  /\ torn' = torn \cup {ObjectOf(a, pc[a])}
  /\ writing' = [writing EXCEPT ![a] = TRUE]
  /\ UNCHANGED << pointer, whole, lock, compat, pc, given, prior, expected, log >>

CompleteObject(a) ==
  /\ pc[a] \in Roles /\ writing[a]
  /\ torn' = torn \ {ObjectOf(a, pc[a])}
  /\ whole' = whole \cup {ObjectOf(a, pc[a])}
  /\ writing' = [writing EXCEPT ![a] = FALSE]
  /\ Goto(a, After[pc[a]])
  /\ UNCHANGED << pointer, lock, compat, given, prior, expected, log >>

ReuseObject(a) ==
  /\ pc[a] \in Roles /\ ~writing[a]
  /\ ObjectOf(a, pc[a]) \in whole
  /\ Goto(a, After[pc[a]])
  /\ UNCHANGED << pointer, disk, lock, compat, local, log >>

(* REFRESH_IMMUTABLE_OBJECT_CONFLICT: another attempt is still writing the *)
(* same object, or died while it did.                                      *)
ObjectConflict(a) ==
  /\ pc[a] \in Roles /\ ~writing[a]
  /\ ObjectOf(a, pc[a]) \in torn
  /\ Goto(a, "refused")
  /\ Release(a)
  /\ UNCHANGED << pointer, disk, compat, local, log >>

-----------------------------------------------------------------------------
(* commit: everything happens under the non-blocking OS writer lock.       *)

AcquireLock(a) ==
  /\ pc[a] = "staged"
  /\ \/ lock = Absent /\ lock' = a /\ Goto(a, "cas")
     \/ lock # Absent /\ Goto(a, "refused") /\ UNCHANGED lock
  /\ UNCHANGED << pointer, disk, compat, local, log >>

(* Faulty variants: the caller's pin is not compared; the pointer is not    *)
(* compared; an expected absence is taken for no expectation at all.        *)
CasIgnoresPin(a) == pointer = prior[a]
CasWithoutCurrent(a) == prior[a] = expected[a]
CasRefusesAbsence(a) ==
  /\ expected[a] # Absent
  /\ pointer = expected[a]
  /\ prior[a] = expected[a]

CasHolds(a) ==
  /\ pointer = expected[a]
  /\ prior[a] = expected[a]
  /\ SnapshotOf(prior[a]) = SnapshotOf(pointer)

CompareIdentity(a) ==
  /\ pc[a] = "cas"
  /\ \/ CasHolds(a) /\ Goto(a, "refresh_manifest") /\ UNCHANGED lock
     \/ ~CasHolds(a) /\ Goto(a, "refused") /\ Release(a)
  /\ UNCHANGED << pointer, disk, compat, local, log >>

VerifyManifest(a) ==
  /\ pc[a] = "verify"
  /\ \/ Readable(a) /\ Goto(a, "replace") /\ UNCHANGED lock
     \/ ~Readable(a) /\ Goto(a, "refused") /\ Release(a)
  /\ UNCHANGED << pointer, disk, compat, local, log >>

(* Faulty variant: the pointer is given the bundle, not the manifest. *)
ReplacePointerWithBundle(a) ==
  /\ pc[a] = "replace"
  /\ pointer' = bundle[a]
  /\ log' = Append(log, a)
  /\ Goto(a, "observe")
  /\ UNCHANGED << disk, lock, compat, local >>

(* atomic_write_json's os.replace: the one step that commits.              *)
ReplacePointer(a) ==
  /\ pc[a] = "replace"
  /\ pointer' = a
  /\ log' = Append(log, a)
  /\ Goto(a, "observe")
  /\ UNCHANGED << disk, lock, compat, local >>

(* Faulty variant: every exception of the writer is reported as a failure. *)
WriterRaisesAlwaysFails(a) ==
  /\ pc[a] = "replace"
  /\ Goto(a, "failed")
  /\ Release(a)
  /\ \/ UNCHANGED << pointer, log >>
     \/ pointer' = a /\ log' = Append(log, a)
  /\ UNCHANGED << disk, compat, local >>

(* The writer raises.  Before the replace the exception propagates; after  *)
(* it (a directory fsync that fails) the pointer already names the new     *)
(* manifest and the exception becomes a post-commit warning.               *)
WriterRaises(a) ==
  /\ pc[a] = "replace"
  /\ \/ /\ Goto(a, "failed")
        /\ Release(a)
        /\ UNCHANGED << pointer, log >>
     \/ /\ pointer' = a
        /\ log' = Append(log, a)
        /\ Goto(a, "observe")
        /\ UNCHANGED lock
  /\ UNCHANGED << disk, compat, local >>

(* The pointer is read back under the lock, then the lock is released.     *)
ObserveCommit(a) ==
  /\ pc[a] = "observe"
  /\ Goto(a, IF pointer = a THEN "committed" ELSE "refused")
  /\ Release(a)
  /\ UNCHANGED << pointer, disk, compat, local, log >>

(* The derived, non-authoritative view; a failed write is only a warning.  *)
WriteCompatibility(a) ==
  /\ pc[a] = "committed"
  /\ compat' \in {a, compat}
  /\ Goto(a, "done")
  /\ UNCHANGED << pointer, disk, lock, local, log >>

-----------------------------------------------------------------------------
(* An exception of the file system, or the end of the process.  Both leave *)
(* a file that was being written torn; the OS gives the lock back.         *)

IoError(a) ==
  /\ pc[a] \in (Preparing \cup InLock) \ {"replace"}
  /\ Goto(a, IF pc[a] = "observe" THEN "unconfirmed" ELSE "failed")
  /\ writing' = [writing EXCEPT ![a] = FALSE]
  /\ Release(a)
  /\ UNCHANGED << pointer, disk, compat, given, prior, expected, log >>

Crash(a) ==
  /\ pc[a] \notin Ended \cup {"idle"}
  /\ Goto(a, "crashed")
  /\ writing' = [writing EXCEPT ![a] = FALSE]
  /\ Release(a)
  /\ UNCHANGED << pointer, disk, compat, given, prior, expected, log >>

-----------------------------------------------------------------------------
Init ==
  /\ pointer \in {Absent, Legacy}
  /\ whole = {} /\ torn = {}
  /\ lock = Absent
  /\ compat = Absent
  /\ pc = [a \in Attempts |-> "idle"]
  /\ writing = [a \in Attempts |-> FALSE]
  /\ bundle \in [Attempts -> Bundles]
  /\ prior = [a \in Attempts |-> Absent]
  /\ expected = [a \in Attempts |-> Absent]
  /\ origin = pointer
  /\ log = << >>

(* The steps of an attempt that is neither hit by an error nor killed. *)
Prepare(a) ==
  \/ CaptureIdentity(a) \/ ReadPrior(a) \/ VerifyPrior(a)
  \/ ValidateBundle(a) \/ ThinGate(a)

PutObject(a) ==
  \/ CreateObject(a) \/ CompleteObject(a)
  \/ ReuseObject(a) \/ ObjectConflict(a)

Commit(a) ==
  \/ AcquireLock(a) \/ CompareIdentity(a) \/ VerifyManifest(a)
  \/ ReplacePointer(a) \/ ObserveCommit(a) \/ WriteCompatibility(a)

Step(a) == Prepare(a) \/ PutObject(a) \/ Commit(a)

Fault(a) == WriterRaises(a) \/ IoError(a) \/ Crash(a)

Next == \E a \in Attempts : Step(a) \/ Fault(a)

Spec == Init /\ [][Next]_vars

-----------------------------------------------------------------------------
TypeOK ==
  /\ pointer \in Identities
  /\ whole \in SUBSET Objects
  /\ torn \in SUBSET Objects
  /\ lock \in Attempts \cup {Absent}
  /\ compat \in Attempts \cup {Absent}
  /\ pc \in [Attempts -> Phases]
  /\ writing \in [Attempts -> BOOLEAN]
  /\ bundle \in [Attempts -> Bundles]
  /\ prior \in [Attempts -> Identities]
  /\ expected \in [Attempts -> Identities]
  /\ origin \in {Absent, Legacy}
  /\ log \in Seq(Attempts)

(* The identity the pointer had before it named log[i]. *)
Predecessor(i) == IF i = 1 THEN origin ELSE log[i - 1]

(* Every transaction the pointer ever named stays cold-readable: no later  *)
(* writer, failure or crash makes read_committed of the current pointer,   *)
(* or of an archived manifest, miss an object or find it damaged.          *)
LogStaysReadable == \A i \in DOMAIN log : Readable(log[i])

(* The manifests form one chain: the pointer names the newest transaction, *)
(* and prior_latest_identity and previous_snapshot_id of each one are the  *)
(* pointer it replaced, however long ago the attempt captured them.        *)
LineageUnbroken ==
  /\ pointer = IF log = << >> THEN origin ELSE log[Len(log)]
  /\ \A i \in DOMAIN log :
       /\ prior[log[i]] = Predecessor(i)
       /\ SnapshotOf(prior[log[i]]) = SnapshotOf(Predecessor(i))

(* --expected-previous-latest: a transaction replaces the very pointer its *)
(* caller pinned (NONE requires absence), never a newer or an older one.   *)
PinHonoured == \A i \in DOMAIN log : expected[log[i]] = Predecessor(i)

(* What the caller is told is what happened: an attempt that was blocked,  *)
(* refused or that raised did not move the pointer, one that reports PASS  *)
(* did; only an error while reading the pointer back leaves it open.       *)
OutcomeTruthful ==
  \A a \in Attempts :
    /\ pc[a] \in {"blocked", "refused", "failed"} => a \notin Seen
    /\ pc[a] \in {"committed", "done"} => a \in Seen

(* The writer lock is held exactly by the attempt inside commit(): two     *)
(* attempts are never inside, and a dead attempt never holds it.           *)
LockIsLive == \A a \in Attempts : pc[a] \in InLock <=> lock = a

(* Conflicting writers fail closed, but not all of them: when every attempt *)
(* has ended and none was blocked, pinned an old identity, met an error or  *)
(* was killed, one of them has published.                                   *)
SomeoneWins ==
  (\A a \in Attempts : pc[a] \in {"done", "refused"} /\ expected[a] = prior[a])
    => log # << >>

(* The chain an auditor finds by walking prior_latest_identity back from   *)
(* the pointer through the archived manifests.                             *)
Lineage[identity \in Identities] ==
  IF identity \in Attempts THEN Append(Lineage[prior[identity]], identity) ELSE << >>

Published == INSTANCE PublicationLog WITH Transactions <- Attempts, log <- Lineage[pointer]

(* The pointer files implement the promised log: the walked chain only ever *)
(* grows by one complete transaction at its end.                            *)
ImplementsPublicationLog == Published!PublicationLogSpec

=============================================================================
