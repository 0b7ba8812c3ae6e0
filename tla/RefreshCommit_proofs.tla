------------------------ MODULE RefreshCommit_proofs ------------------------
(***************************************************************************)
(* Proofs about RefreshCommit, for any sets of attempts and bundles, and   *)
(* about SourceAcquisition.                                                *)
(*                                                                         *)
(* None of the safety properties is inductive alone: that the log stays    *)
(* readable and linear at the moment of the replace rests on what the      *)
(* attempt established earlier under the lock (the comparison, then the    *)
(* cold read), and that those facts still hold rests on the lock being     *)
(* held by one attempt and on complete objects never changing.  CommitInv  *)
(* puts these facts together.                                              *)
(*                                                                         *)
(* Two more invariants stand on it.  WinInv says whom a refused attempt    *)
(* can blame while nothing is published; WalkInv says that the walk along  *)
(* prior_latest_identity, which a reader of the archive makes, ends.  From *)
(* WalkInv follows what the walk finds, and that the pointer files         *)
(* implement PublicationLog.                                               *)
(*                                                                         *)
(* The acquisitions of SourceAcquisition, which MCPublication explores     *)
(* beside the publications, have an invariant of their own,                *)
(* AcquisitionInv: what a job has made so far is for its date.             *)
(***************************************************************************)
EXTENDS MCPublication, FiniteSetTheorems, WellFoundedInduction, TLAPS

(* Since its comparison under the lock an attempt's CAS still holds. *)
CasStable ==
  \A a \in Attempts : pc[a] \in {"refresh_manifest", "verify", "replace"} => CasHolds(a)

(* What was cold-read before the replace is still there. *)
VerifiedReadable == \A a \in Attempts : pc[a] = "replace" => Readable(a)

(* An attempt is in the log exactly when it has passed its replace. *)
SeenPhases ==
  \A a \in Attempts :
    /\ a \in Seen => pc[a] \in {"observe", "committed", "done", "unconfirmed", "crashed"}
    /\ pc[a] \in {"observe", "committed", "done", "unconfirmed"} => a \in Seen
    /\ pc[a] = "observe" => pointer = a

(* A file is being written only inside put_object. *)
WritingPhases == \A a \in Attempts : writing[a] => pc[a] \in Roles

CommitInv ==
  /\ TypeOK
  /\ LockIsLive
  /\ LineageUnbroken
  /\ PinHonoured
  /\ LogStaysReadable
  /\ CasStable
  /\ VerifiedReadable
  /\ SeenPhases
  /\ WritingPhases

-----------------------------------------------------------------------------
(* Every staged object is one of the objects of the store. *)
LEMMA ObjectOfType ==
  ASSUME TypeOK, NEW a \in Attempts, NEW role \in Roles
  PROVE  ObjectOf(a, role) \in Objects
<1>1. SnapshotOf(prior[a]) \in Snapshots
  BY DEF TypeOK, SnapshotOf, Snapshots, Identities
<1>2. CASE role = "source_bundle"
  BY <1>2 DEF TypeOK, ObjectOf, Objects
<1>3. CASE role = "source_snapshot"
  BY <1>1, <1>3 DEF TypeOK, ObjectOf, Objects
<1>4. CASE role \in {"thin_work_manifest", "refresh_manifest"}
  BY <1>4 DEF ObjectOf, Objects
<1>5. QED
  BY <1>2, <1>3, <1>4 DEF Roles

(* A step that moves no pointer and loses no object keeps the whole log. *)
LEMMA QuietStep ==
  ASSUME LineageUnbroken, PinHonoured, LogStaysReadable,
         UNCHANGED << pointer, log, bundle, origin, prior, expected >>,
         whole \subseteq whole'
  PROVE  /\ LineageUnbroken' /\ PinHonoured' /\ LogStaysReadable'
         /\ Seen' = Seen
         /\ \A a \in Attempts : CasHolds(a)' = CasHolds(a)
         /\ \A a \in Attempts : Readable(a) => Readable(a)'
<1>1. \A identity : SnapshotOf(identity)' = SnapshotOf(identity)
  BY DEF SnapshotOf
<1>2. \A i : Predecessor(i)' = Predecessor(i)
  BY DEF Predecessor
<1>3. \A identity : References(identity)' = References(identity)
  BY DEF References, ObjectOf, SnapshotOf
<1>4. \A identity : Readable(identity) => Readable(identity)'
  BY <1>3 DEF Readable
<1>5. Seen' = Seen
  BY DEF Seen
<1>6. LineageUnbroken' /\ PinHonoured' /\ LogStaysReadable'
  BY <1>1, <1>2, <1>4 DEF LineageUnbroken, PinHonoured, LogStaysReadable
<1>7. \A a \in Attempts : CasHolds(a)' = CasHolds(a)
  BY <1>1 DEF CasHolds
<1>8. QED
  BY <1>4, <1>5, <1>6, <1>7

(* What an attempt's step does to the log when it replaces the pointer. *)
LEMMA ReplaceStep ==
  ASSUME CommitInv, NEW a \in Attempts, pc[a] = "replace",
         pointer' = a, log' = Append(log, a),
         UNCHANGED << whole, bundle, origin, prior, expected >>
  PROVE  /\ LineageUnbroken' /\ PinHonoured' /\ LogStaysReadable'
         /\ Seen' = Seen \cup {a}
         /\ log' \in Seq(Attempts)
<1> USE DEF CommitInv
<1>1. /\ log \in Seq(Attempts)
      /\ log' \in Seq(Attempts)
      /\ Len(log') = Len(log) + 1
      /\ DOMAIN log = 1 .. Len(log)
      /\ DOMAIN log' = 1 .. Len(log) + 1
      /\ \A i \in 1 .. Len(log) : log'[i] = log[i]
      /\ log'[Len(log) + 1] = a
      /\ Len(log) \in Nat
  BY DEF TypeOK
<1>2. /\ \A identity : SnapshotOf(identity)' = SnapshotOf(identity)
      /\ \A identity : Readable(identity)' = Readable(identity)
  BY DEF SnapshotOf, Readable, References, ObjectOf
<1>3. \A i \in 1 .. Len(log) : Predecessor(i)' = Predecessor(i)
  BY <1>1 DEF Predecessor
<1>n. PICK n \in Nat : n = Len(log) + 1
  BY <1>1
<1>4. Predecessor(n)' = pointer
  <2>1. CASE log = << >>
    BY <1>1, <1>n, <2>1 DEF Predecessor, LineageUnbroken
  <2>2. CASE log # << >>
    <3>1. Len(log) # 0
      BY <1>1, <2>2
    <3>2. pointer = log[Len(log)]
      BY <2>2 DEF LineageUnbroken
    <3>3. n # 1 /\ n - 1 = Len(log) /\ n - 1 \in 1 .. Len(log)
      BY <1>1, <1>n, <3>1
    <3>4. Predecessor(n)' = log'[n - 1]
      BY <3>3 DEF Predecessor
    <3>5. QED
      BY <1>1, <3>2, <3>3, <3>4
  <2>3. QED
    BY <2>1, <2>2
<1>5. pointer = expected[a] /\ prior[a] = expected[a]
  BY DEF CasStable, CasHolds
<1>6. LineageUnbroken'
  <2>1. pointer' = IF log' = << >> THEN origin' ELSE log'[Len(log')]
    BY <1>1
  <2>2. ASSUME NEW i \in DOMAIN log'
        PROVE  /\ prior[log'[i]] = Predecessor(i)'
               /\ SnapshotOf(prior[log'[i]]) = SnapshotOf(Predecessor(i)')
    <3>1. CASE i \in 1 .. Len(log)
      BY <1>1, <1>3, <3>1 DEF LineageUnbroken
    <3>2. CASE i = n
      BY <1>1, <1>n, <1>4, <1>5, <3>2
    <3>3. QED
      BY <1>1, <1>n, <2>2, <3>1, <3>2
  <2>3. QED
    BY <1>2, <2>1, <2>2 DEF LineageUnbroken
<1>7. PinHonoured'
  <2>1. ASSUME NEW i \in DOMAIN log'
        PROVE  expected[log'[i]] = Predecessor(i)'
    <3>1. CASE i \in 1 .. Len(log)
      BY <1>1, <1>3, <3>1 DEF PinHonoured
    <3>2. CASE i = n
      BY <1>1, <1>n, <1>4, <1>5, <3>2
    <3>3. QED
      BY <1>1, <1>n, <3>1, <3>2
  <2>2. QED
    BY <2>1 DEF PinHonoured
<1>8. LogStaysReadable'
  <2>1. ASSUME NEW i \in DOMAIN log'
        PROVE  Readable(log'[i])
    <3>1. CASE i \in 1 .. Len(log)
      BY <1>1, <3>1 DEF LogStaysReadable
    <3>2. CASE i = n
      BY <1>1, <1>n, <3>2 DEF VerifiedReadable
    <3>3. QED
      BY <1>1, <1>n, <3>1, <3>2
  <2>2. QED
    BY <1>2, <2>1 DEF LogStaysReadable
<1>9. Seen' = Seen \cup {a}
  <2>1. ASSUME NEW x \in Seen' PROVE x \in Seen \cup {a}
    <3>1. PICK i \in 1 .. Len(log) + 1 : x = log'[i]
      BY <1>1 DEF Seen
    <3>2. i \in 1 .. Len(log) \/ i = Len(log) + 1
      BY <1>1
    <3>3. QED
      BY <1>1, <3>1, <3>2 DEF Seen
  <2>2. Seen \subseteq Seen'
    <3>1. ASSUME NEW x \in Seen PROVE x \in Seen'
      <4>1. PICK i \in 1 .. Len(log) : x = log[i]
        BY <1>1 DEF Seen
      <4>2. i \in 1 .. Len(log) + 1 /\ x = log'[i]
        BY <1>1, <4>1
      <4>3. QED
        BY <1>1, <4>2 DEF Seen
    <3>2. QED
      BY <3>1
  <2>3. a \in Seen'
    <3>1. Len(log) + 1 \in 1 .. Len(log) + 1
      BY <1>1
    <3>2. QED
      BY <1>1, <3>1 DEF Seen
  <2>4. QED
    BY <2>1, <2>2, <2>3
<1>10. QED
  BY <1>1, <1>6, <1>7, <1>8, <1>9

-----------------------------------------------------------------------------
LEMMA InitCommitInv == Init => CommitInv
<1> SUFFICES ASSUME Init PROVE CommitInv
  OBVIOUS
<1>1. DOMAIN log = {} /\ Seen = {} /\ log \in Seq(Attempts)
  BY DEF Init, Seen
<1>2. TypeOK
  BY <1>1 DEF Init, TypeOK, Phases, Identities
<1>3. LineageUnbroken /\ PinHonoured /\ LogStaysReadable
  BY <1>1 DEF Init, LineageUnbroken, PinHonoured, LogStaysReadable
<1>4. LockIsLive /\ CasStable /\ VerifiedReadable /\ SeenPhases /\ WritingPhases
  BY <1>1, IdentitiesDistinct
     DEF Init, LockIsLive, CasStable, VerifiedReadable, SeenPhases, WritingPhases, InLock
<1>5. QED
  BY <1>2, <1>3, <1>4 DEF CommitInv

(* The parts of CommitInv that speak of program counters and the lock, *)
(* preserved by every step that leaves the pointer, the log and what   *)
(* the attempts captured alone.                                        *)
LEMMA PhaseStep ==
  ASSUME CommitInv, NEW a \in Attempts,
         \/ ReadPrior(a) \/ VerifyPrior(a) \/ ValidateBundle(a) \/ ThinGate(a)
         \/ CreateObject(a) \/ CompleteObject(a) \/ ReuseObject(a) \/ ObjectConflict(a)
         \/ AcquireLock(a) \/ CompareIdentity(a) \/ VerifyManifest(a)
         \/ ObserveCommit(a) \/ WriteCompatibility(a) \/ IoError(a) \/ Crash(a)
  PROVE  CommitInv'
<1> USE DEF CommitInv
<1>0. /\ UNCHANGED << pointer, log, bundle, origin, prior, expected >>
      /\ whole \subseteq whole'
  BY DEF ReadPrior, VerifyPrior, ValidateBundle, ThinGate, CreateObject, CompleteObject,
         ReuseObject, ObjectConflict, AcquireLock, CompareIdentity, VerifyManifest,
         ObserveCommit, WriteCompatibility, IoError, Crash, disk, local, given
<1>1. /\ LineageUnbroken' /\ PinHonoured' /\ LogStaysReadable'
      /\ Seen' = Seen
      /\ \A b \in Attempts : CasHolds(b)' = CasHolds(b)
      /\ \A b \in Attempts : Readable(b) => Readable(b)'
  BY <1>0, QuietStep
<1>2. \A role \in Roles : ObjectOf(a, role) \in Objects
  BY ObjectOfType
<1>3. TypeOK'
  <2>1. /\ whole' \in SUBSET Objects
        /\ torn' \in SUBSET Objects
        /\ writing' \in [Attempts -> BOOLEAN]
    BY <1>2 DEF TypeOK, ReadPrior, VerifyPrior, ValidateBundle, ThinGate, CreateObject,
         CompleteObject, ReuseObject, ObjectConflict, AcquireLock, CompareIdentity, VerifyManifest,
         ObserveCommit, WriteCompatibility, IoError, Crash, disk, local
  <2>2. /\ lock' \in Attempts \cup {Absent}
        /\ compat' \in Attempts \cup {Absent}
    BY DEF TypeOK, ReadPrior, VerifyPrior, ValidateBundle, ThinGate, CreateObject,
         CompleteObject, ReuseObject, ObjectConflict, AcquireLock, CompareIdentity, VerifyManifest,
         ObserveCommit, WriteCompatibility, IoError, Crash, Release
  <2>3. pc' \in [Attempts -> Phases]
    BY DEF TypeOK, ReadPrior, VerifyPrior, ValidateBundle, ThinGate, CreateObject,
         CompleteObject, ReuseObject, ObjectConflict, AcquireLock, CompareIdentity, VerifyManifest,
         ObserveCommit, WriteCompatibility, IoError, Crash, Goto, Roles, After,
         Phases, Preparing, InLock, Ended
  <2>4. QED
    BY <1>0, <2>1, <2>2, <2>3 DEF TypeOK
<1>4. LockIsLive' /\ WritingPhases'
  BY IdentitiesDistinct DEF TypeOK, LockIsLive, WritingPhases, ReadPrior, VerifyPrior, ValidateBundle, ThinGate, CreateObject, CompleteObject,
         ReuseObject, ObjectConflict, AcquireLock, CompareIdentity, VerifyManifest,
         ObserveCommit, WriteCompatibility, IoError, Crash,
         Goto, Release, disk, local, given, Roles, After, Preparing, InLock, Ended
<1>5. CasStable' /\ VerifiedReadable' /\ SeenPhases'
  BY <1>0, <1>1 DEF TypeOK, CasStable, VerifiedReadable, SeenPhases, LockIsLive, ReadPrior, VerifyPrior, ValidateBundle, ThinGate, CreateObject, CompleteObject,
         ReuseObject, ObjectConflict, AcquireLock, CompareIdentity, VerifyManifest,
         ObserveCommit, WriteCompatibility, IoError, Crash,
         Goto, Roles, After, Preparing, InLock, Ended
<1>6. QED
  BY <1>1, <1>3, <1>4, <1>5

(* An attempt that starts is in no log, so what it captures disturbs no    *)
(* committed transaction.                                                  *)
LEMMA CaptureStep ==
  ASSUME CommitInv, NEW a \in Attempts, CaptureIdentity(a)
  PROVE  CommitInv'
<1> USE DEF CommitInv
<1>1. a \notin Seen /\ pc[a] = "idle"
  BY DEF SeenPhases, CaptureIdentity
<1>2. /\ UNCHANGED << pointer, whole, torn, lock, compat, writing, bundle, origin, log >>
      /\ \A b \in Attempts \ {a} : prior'[b] = prior[b] /\ expected'[b] = expected[b] /\ pc'[b] = pc[b]
      /\ pc'[a] = "captured"
  BY DEF TypeOK, CaptureIdentity, Goto, disk, given
<1>3. \A i \in DOMAIN log : log[i] \in Attempts \ {a}
  BY <1>1 DEF TypeOK, Seen
<1>4. Seen \subseteq Attempts
  BY DEF TypeOK, Seen
<1>5. /\ \A identity : SnapshotOf(identity)' = SnapshotOf(identity)
      /\ \A i : Predecessor(i)' = Predecessor(i)
      /\ Seen' = Seen
  BY <1>2 DEF SnapshotOf, Predecessor, Seen
<1>6. \A b \in Attempts \ {a} : Readable(b)' = Readable(b) /\ CasHolds(b)' = CasHolds(b)
  BY <1>2, <1>5 DEF Readable, References, ObjectOf, CasHolds
<1>7. TypeOK'
  BY <1>4 DEF TypeOK, CaptureIdentity, Goto, disk, given, Identities, Phases, Preparing
<1>8. LineageUnbroken' /\ PinHonoured' /\ LogStaysReadable'
  BY <1>2, <1>3, <1>5, <1>6 DEF LineageUnbroken, PinHonoured, LogStaysReadable
<1>9. LockIsLive' /\ WritingPhases' /\ SeenPhases' /\ CasStable' /\ VerifiedReadable'
  BY <1>1, <1>2, <1>5, <1>6
     DEF LockIsLive, WritingPhases, SeenPhases, CasStable, VerifiedReadable, InLock, Roles
<1>10. QED
  BY <1>7, <1>8, <1>9

(* The replace, whether or not the writer raises after it: no other attempt *)
(* is under the lock, so nobody else's comparison is made stale.            *)
LEMMA CommitStep ==
  ASSUME CommitInv, NEW a \in Attempts, pc[a] = "replace",
         pointer' = a, log' = Append(log, a), Goto(a, "observe"),
         UNCHANGED << disk, lock, compat, local >>
  PROVE  CommitInv'
<1> USE DEF CommitInv
<1>1. UNCHANGED << whole, torn, lock, compat, writing, bundle, origin, prior, expected >>
  BY DEF disk, local, given
<1>2. /\ LineageUnbroken' /\ PinHonoured' /\ LogStaysReadable'
      /\ Seen' = Seen \cup {a}
      /\ log' \in Seq(Attempts)
  BY <1>1, ReplaceStep
<1>3. /\ pc'[a] = "observe"
      /\ \A b \in Attempts \ {a} : pc'[b] = pc[b]
  BY DEF TypeOK, Goto
<1>4. lock = a
  BY DEF LockIsLive, InLock
<1>5. \A b \in Attempts \ {a} : pc[b] \notin InLock
  BY <1>4 DEF LockIsLive
<1>6. TypeOK'
  BY <1>1, <1>2 DEF TypeOK, Goto, Identities, Phases, InLock
<1>7. LockIsLive' /\ WritingPhases'
  BY <1>1, <1>3, <1>4, <1>5 DEF LockIsLive, WritingPhases, InLock, Roles
<1>8. CasStable' /\ VerifiedReadable'
  BY <1>3, <1>5 DEF CasStable, VerifiedReadable, InLock
<1>9. SeenPhases'
  BY <1>2, <1>3, <1>5 DEF SeenPhases, InLock
<1>10. QED
  BY <1>2, <1>6, <1>7, <1>8, <1>9

(* The writer raises before its replace: nothing but the attempt's own     *)
(* program counter and the lock changes.                                   *)
LEMMA RaiseStep ==
  ASSUME CommitInv, NEW a \in Attempts, pc[a] = "replace",
         Goto(a, "failed"), Release(a),
         UNCHANGED << pointer, log, disk, compat, local >>
  PROVE  CommitInv'
<1> USE DEF CommitInv
<1>1. UNCHANGED << pointer, log, whole, torn, compat, writing, bundle, origin, prior, expected >>
  BY DEF disk, local, given
<1>2. /\ LineageUnbroken' /\ PinHonoured' /\ LogStaysReadable'
      /\ Seen' = Seen
      /\ \A b \in Attempts : CasHolds(b)' = CasHolds(b)
      /\ \A b \in Attempts : Readable(b) => Readable(b)'
  BY <1>1, QuietStep
<1>3. TypeOK'
  BY <1>1 DEF TypeOK, Goto, Release, Phases, Ended
<1>4. LockIsLive' /\ WritingPhases'
  BY <1>1, IdentitiesDistinct DEF TypeOK, LockIsLive, WritingPhases, Goto, Release, InLock, Roles
<1>5. CasStable' /\ VerifiedReadable' /\ SeenPhases'
  BY <1>1, <1>2 DEF TypeOK, CasStable, VerifiedReadable, SeenPhases, Goto
<1>6. QED
  BY <1>2, <1>3, <1>4, <1>5

LEMMA CommitInvStep == CommitInv /\ [Next]_vars => CommitInv'
<1> SUFFICES ASSUME CommitInv, [Next]_vars PROVE CommitInv'
  OBVIOUS
<1>1. CASE UNCHANGED vars
  <2>1. UNCHANGED << pointer, whole, torn, lock, compat, pc, writing, bundle, prior,
                     expected, origin, log >>
    BY <1>1 DEF vars
  <2>2. /\ LineageUnbroken' /\ PinHonoured' /\ LogStaysReadable'
        /\ Seen' = Seen
        /\ \A b \in Attempts : CasHolds(b)' = CasHolds(b)
        /\ \A b \in Attempts : Readable(b) => Readable(b)'
    BY <2>1, QuietStep DEF CommitInv
  <2>3. QED
    BY <2>1, <2>2 DEF CommitInv, TypeOK, LockIsLive, WritingPhases, CasStable,
                      VerifiedReadable, SeenPhases
<1>2. ASSUME NEW a \in Attempts, Step(a) \/ Fault(a) PROVE CommitInv'
  <2>1. CASE CaptureIdentity(a)
    BY <2>1, CaptureStep
  <2>2. CASE ReplacePointer(a)
    BY <2>2, CommitStep DEF ReplacePointer
  <2>3. CASE WriterRaises(a)
    <3>1. CASE Goto(a, "failed") /\ Release(a) /\ UNCHANGED << pointer, log >>
      BY <2>3, <3>1, RaiseStep DEF WriterRaises
    <3>2. CASE pointer' = a /\ log' = Append(log, a) /\ Goto(a, "observe") /\ UNCHANGED lock
      BY <2>3, <3>2, CommitStep DEF WriterRaises
    <3>3. QED
      BY <2>3, <3>1, <3>2 DEF WriterRaises
  <2>4. CASE \/ ReadPrior(a) \/ VerifyPrior(a) \/ ValidateBundle(a) \/ ThinGate(a)
             \/ CreateObject(a) \/ CompleteObject(a) \/ ReuseObject(a) \/ ObjectConflict(a)
             \/ AcquireLock(a) \/ CompareIdentity(a) \/ VerifyManifest(a)
             \/ ObserveCommit(a) \/ WriteCompatibility(a) \/ IoError(a) \/ Crash(a)
    BY <2>4, PhaseStep
  <2>5. QED
    BY <1>2, <2>1, <2>2, <2>3, <2>4 DEF Step, Prepare, PutObject, Commit, Fault
<1>3. QED
  BY <1>1, <1>2 DEF Next

-----------------------------------------------------------------------------
(* CommitInv holds in every reachable state, whatever the interleaving of  *)
(* attempts, errors and crashes of publish_latest.                         *)
THEOREM CommitInvariant == Spec => []CommitInv
<1>1. QED
  BY InitCommitInv, CommitInvStep, PTL DEF Spec

(* Type correctness of the publication state. *)
THEOREM TypeCorrect == Spec => []TypeOK
<1>1. CommitInv => TypeOK
  BY DEF CommitInv
<1>2. QED
  BY <1>1, CommitInvariant, PTL

(* read_committed never fails on a transaction the pointer ever named. *)
THEOREM CommittedReadable == Spec => []LogStaysReadable
<1>1. CommitInv => LogStaysReadable
  BY DEF CommitInv
<1>2. QED
  BY <1>1, CommitInvariant, PTL

(* prior_latest_identity links the committed manifests into one chain. *)
THEOREM CommittedLineage == Spec => []LineageUnbroken
<1>1. CommitInv => LineageUnbroken
  BY DEF CommitInv
<1>2. QED
  BY <1>1, CommitInvariant, PTL

(* A pinned publication replaces exactly the pointer it pinned. *)
THEOREM CommittedPins == Spec => []PinHonoured
<1>1. CommitInv => PinHonoured
  BY DEF CommitInv
<1>2. QED
  BY <1>1, CommitInvariant, PTL

(* A refusal or a raised error means the pointer was not moved; PASS means it was. *)
THEOREM ReportedOutcome == Spec => []OutcomeTruthful
<1>1. CommitInv => OutcomeTruthful
  BY DEF CommitInv, SeenPhases, OutcomeTruthful
<1>2. QED
  BY <1>1, CommitInvariant, PTL

(* One attempt at a time is inside commit(), and no dead one holds the lock. *)
THEOREM WriterExclusion == Spec => []LockIsLive
<1>1. CommitInv => LockIsLive
  BY DEF CommitInv
<1>2. QED
  BY <1>1, CommitInvariant, PTL

-----------------------------------------------------------------------------
(* What an attempt has staged so far is complete. *)
StagedWhole ==
  \A a \in Attempts :
    /\ pc[a] \in {"source_snapshot", "thin_gate", "thin_work_manifest", "staged",
                  "cas", "refresh_manifest", "verify"}
         => ObjectOf(a, "source_bundle") \in whole
    /\ pc[a] \in {"thin_gate", "thin_work_manifest", "staged",
                  "cas", "refresh_manifest", "verify"}
         => ObjectOf(a, "source_snapshot") \in whole
    /\ pc[a] \in {"staged", "cas", "refresh_manifest", "verify"}
         => ObjectOf(a, "thin_work_manifest") \in whole
    /\ pc[a] = "verify" => ObjectOf(a, "refresh_manifest") \in whole

(* A torn object has a writer at work on it, or somebody died. *)
TornOwned ==
  \A o \in torn : \E c \in Attempts :
    \/ pc[c] \in {"failed", "crashed"}
    \/ writing[c] /\ o = ObjectOf(c, pc[c])

(* Before the first replace everybody has captured the same pointer, one *)
(* that there is nothing to read from.                                   *)
Untouched ==
  log = << >> => \A a \in Attempts :
    /\ pc[a] # "idle" => prior[a] = origin
    /\ pc[a] # "prior_read"

(* Who may still publish, has ended otherwise than refused, or pinned an *)
(* identity that was not there.                                          *)
Contender(a) == pc[a] \notin {"done", "refused"} \/ expected[a] # prior[a]

RefusedForSomeone ==
  log = << >> /\ (\E a \in Attempts : pc[a] = "refused") => \E b \in Attempts : Contender(b)

WinInv == StagedWhole /\ TornOwned /\ Untouched /\ RefusedForSomeone

-----------------------------------------------------------------------------
(* Every step of the publication but the capture: no object is lost, and   *)
(* who has staged what stays as it was captured.                           *)
LEMMA StagingKept ==
  ASSUME TypeOK, NEW a \in Attempts, Step(a) \/ Fault(a), ~CaptureIdentity(a)
  PROVE  /\ whole \subseteq whole'
         /\ UNCHANGED << bundle, origin, prior, expected >>
         /\ \A b \in Attempts \ {a} : pc'[b] = pc[b] /\ writing'[b] = writing[b]
         /\ \A b, role : ObjectOf(b, role)' = ObjectOf(b, role)
<1>1. /\ whole \subseteq whole'
      /\ UNCHANGED << bundle, origin, prior, expected >>
      /\ \A b \in Attempts \ {a} : pc'[b] = pc[b] /\ writing'[b] = writing[b]
  BY DEF TypeOK, Step, Prepare, PutObject, Commit, Fault, ReadPrior, VerifyPrior,
         ValidateBundle, ThinGate, CreateObject, CompleteObject, ReuseObject, ObjectConflict,
         AcquireLock, CompareIdentity, VerifyManifest, ReplacePointer, WriterRaises,
         ObserveCommit, WriteCompatibility, IoError, Crash, Goto, disk, local, given
<1>2. QED
  BY <1>1 DEF ObjectOf, SnapshotOf

(* An attempt is at a step after a staged object only once it is staged. *)
LEMMA StagedStep ==
  ASSUME TypeOK, StagedWhole, NEW a \in Attempts, Step(a) \/ Fault(a)
  PROVE  StagedWhole'
<1>1. CASE CaptureIdentity(a)
  <2>1. /\ pc'[a] = "captured"
        /\ UNCHANGED << whole, bundle >>
        /\ \A b \in Attempts \ {a} : pc'[b] = pc[b] /\ prior'[b] = prior[b]
    BY <1>1 DEF TypeOK, CaptureIdentity, Goto, disk, given
  <2>2. \A b \in Attempts \ {a} : \A role : ObjectOf(b, role)' = ObjectOf(b, role)
    BY <2>1 DEF ObjectOf, SnapshotOf
  <2>3. QED
    BY <2>1, <2>2 DEF StagedWhole
<1>2. CASE ~CaptureIdentity(a)
  <2>1. /\ whole \subseteq whole'
        /\ \A b \in Attempts \ {a} : pc'[b] = pc[b]
        /\ \A b, role : ObjectOf(b, role)' = ObjectOf(b, role)
    BY <1>2, StagingKept
  <2>2. \/ pc'[a] \in Phases \ {"source_snapshot", "thin_gate", "thin_work_manifest", "staged",
                                "cas", "refresh_manifest", "verify"}
        \/ pc'[a] = pc[a]
        \/ pc[a] \in Roles /\ pc'[a] = After[pc[a]] /\ ObjectOf(a, pc[a]) \in whole'
        \/ pc[a] = "thin_gate" /\ pc'[a] = "thin_work_manifest"
        \/ pc[a] = "staged" /\ pc'[a] = "cas"
        \/ pc[a] = "cas" /\ pc'[a] = "refresh_manifest"
    BY <1>2 DEF TypeOK, Step, Prepare, PutObject, Commit, Fault, ReadPrior, VerifyPrior,
         ValidateBundle, ThinGate, CreateObject, CompleteObject, ReuseObject, ObjectConflict,
         AcquireLock, CompareIdentity, VerifyManifest, ReplacePointer, WriterRaises,
         ObserveCommit, WriteCompatibility, IoError, Crash, Goto, disk, local, given,
         Phases, Preparing, InLock, Ended
  <2>3. QED
    BY <2>1, <2>2 DEF StagedWhole, Roles, After, Phases, Preparing, InLock, Ended
<1>3. QED
  BY <1>1, <1>2

(* A file stays torn only while its writer writes it, or when it died. *)
LEMMA TornStep ==
  ASSUME TypeOK, WritingPhases, TornOwned, NEW a \in Attempts, Step(a) \/ Fault(a)
  PROVE  TornOwned'
<1> SUFFICES ASSUME NEW o \in torn'
             PROVE  \E c \in Attempts : \/ pc'[c] \in {"failed", "crashed"}
                                        \/ writing'[c] /\ o = ObjectOf(c, pc[c])'
  BY DEF TornOwned
<1>1. CASE CaptureIdentity(a)
  <2>1. /\ pc[a] = "idle" /\ UNCHANGED << torn, writing, bundle >>
        /\ \A b \in Attempts \ {a} : pc'[b] = pc[b] /\ prior'[b] = prior[b]
    BY <1>1 DEF TypeOK, CaptureIdentity, Goto, disk, given
  <2>2. PICK c \in Attempts : \/ pc[c] \in {"failed", "crashed"}
                              \/ writing[c] /\ o = ObjectOf(c, pc[c])
    BY <2>1 DEF TornOwned
  <2>3. c # a
    BY <2>1, <2>2 DEF WritingPhases, Roles
  <2>4. /\ pc'[c] = pc[c] /\ writing'[c] = writing[c]
        /\ \A role : ObjectOf(c, role)' = ObjectOf(c, role)
    BY <2>1, <2>3 DEF ObjectOf, SnapshotOf
  <2>5. ObjectOf(c, pc[c])' = ObjectOf(c, pc[c])
    BY <2>4
  <2>6. QED
    BY <2>2, <2>4, <2>5
<1>2. CASE CreateObject(a)
  <2>1. torn' = torn \cup {ObjectOf(a, pc[a])} /\ writing'[a] /\ pc' = pc
    BY <1>2 DEF TypeOK, CreateObject
  <2>2. \A b \in Attempts : ObjectOf(b, pc[b])' = ObjectOf(b, pc[b])
    BY <1>2, <2>1 DEF CreateObject, given, ObjectOf, SnapshotOf
  <2>3. \A b \in Attempts : writing[b] => writing'[b]
    BY <1>2 DEF TypeOK, CreateObject
  <2>4. CASE o \in torn
    BY <2>1, <2>2, <2>3, <2>4 DEF TornOwned
  <2>5. CASE o = ObjectOf(a, pc[a])
    BY <2>1, <2>2, <2>5
  <2>6. QED
    BY <2>1, <2>4, <2>5
<1>3. CASE ~CaptureIdentity(a) /\ ~CreateObject(a)
  <2>1. /\ \A b \in Attempts \ {a} : pc'[b] = pc[b] /\ writing'[b] = writing[b]
        /\ \A b \in Attempts \ {a} : ObjectOf(b, pc[b])' = ObjectOf(b, pc[b])
    <3>1. /\ \A b \in Attempts \ {a} : pc'[b] = pc[b] /\ writing'[b] = writing[b]
          /\ \A b, role : ObjectOf(b, role)' = ObjectOf(b, role)
      BY <1>3, StagingKept
    <3>2. QED
      BY <3>1
  <2>2. torn' \subseteq torn
    BY <1>3 DEF Step, Prepare, PutObject, Commit, Fault, ReadPrior, VerifyPrior,
         ValidateBundle, ThinGate, CompleteObject, ReuseObject, ObjectConflict,
         AcquireLock, CompareIdentity, VerifyManifest, ReplacePointer, WriterRaises,
         ObserveCommit, WriteCompatibility, IoError, Crash, disk, local
  <2>3. PICK c \in Attempts : \/ pc[c] \in {"failed", "crashed"}
                              \/ writing[c] /\ o = ObjectOf(c, pc[c])
    BY <2>2 DEF TornOwned
  <2>4. CASE c # a
    BY <2>1, <2>3, <2>4
  <2>5. CASE c = a
    <3>1. pc[a] \in Roles /\ writing[a]
      BY <1>3, <2>3, <2>5 DEF WritingPhases, Step, Prepare, PutObject, Commit, Fault, ReadPrior,
         VerifyPrior, ValidateBundle, ThinGate, CompleteObject, ReuseObject, ObjectConflict,
         AcquireLock, CompareIdentity, VerifyManifest, ReplacePointer, WriterRaises,
         ObserveCommit, WriteCompatibility, IoError, Crash, Roles, Preparing, InLock, Ended
    <3>2. CompleteObject(a) \/ IoError(a) \/ Crash(a)
      BY <1>3, <3>1 DEF Step, Prepare, PutObject, Commit, Fault, ReadPrior,
         VerifyPrior, ValidateBundle, ThinGate, ReuseObject, ObjectConflict,
         AcquireLock, CompareIdentity, VerifyManifest, ReplacePointer, WriterRaises,
         ObserveCommit, WriteCompatibility, Roles
    <3>3. CASE CompleteObject(a)
      BY <2>3, <2>5, <3>1, <3>3 DEF CompleteObject, Roles
    <3>4. CASE IoError(a) \/ Crash(a)
      <4>1. pc'[a] \in {"failed", "crashed"}
        BY <3>1, <3>4 DEF TypeOK, IoError, Crash, Goto, Roles
      <4>2. QED
        BY <4>1
    <3>5. QED
      BY <3>2, <3>3, <3>4
  <2>6. QED
    BY <2>4, <2>5
<1>4. QED
  BY <1>1, <1>2, <1>3

(* Until the first replace the pointer is the origin, which nobody reads. *)
LEMMA UntouchedStep ==
  ASSUME TypeOK, LineageUnbroken, Untouched, NEW a \in Attempts, Step(a) \/ Fault(a)
  PROVE  Untouched' /\ (log' = << >> => log = << >>)
<1>1. log' = << >> => log = << >>
  BY DEF TypeOK, Step, Prepare, PutObject, Commit, Fault, CaptureIdentity, ReadPrior, VerifyPrior,
         ValidateBundle, ThinGate, CreateObject, CompleteObject, ReuseObject, ObjectConflict,
         AcquireLock, CompareIdentity, VerifyManifest, ReplacePointer, WriterRaises,
         ObserveCommit, WriteCompatibility, IoError, Crash
<1>2. SUFFICES ASSUME log' = << >> PROVE Untouched'
  BY <1>1 DEF Untouched
<1>3. pointer = origin /\ log = << >>
  BY <1>1, <1>2 DEF LineageUnbroken
<1>4. CASE CaptureIdentity(a)
  BY <1>3, <1>4 DEF TypeOK, Untouched, CaptureIdentity, Goto, given
<1>5. CASE ~CaptureIdentity(a)
  <2>1. /\ UNCHANGED << origin, prior >>
        /\ \A b \in Attempts \ {a} : pc'[b] = pc[b]
    BY <1>5, StagingKept
  <2>2. pc[a] # "idle"
    BY <1>5 DEF Step, Prepare, PutObject, Commit, Fault, ReadPrior, VerifyPrior,
         ValidateBundle, ThinGate, CreateObject, CompleteObject, ReuseObject, ObjectConflict,
         AcquireLock, CompareIdentity, VerifyManifest, ReplacePointer, WriterRaises,
         ObserveCommit, WriteCompatibility, IoError, Crash, Roles, Preparing, InLock
  <2>3. pc'[a] # "prior_read"
    <3>1. prior[a] \in {Absent, Legacy} /\ pc[a] # "prior_read"
      BY <1>3, <2>2 DEF TypeOK, Untouched
    <3>2. QED
      BY <1>5, <3>1 DEF TypeOK, Step, Prepare, PutObject, Commit, Fault, ReadPrior, VerifyPrior,
         ValidateBundle, ThinGate, CreateObject, CompleteObject, ReuseObject, ObjectConflict,
         AcquireLock, CompareIdentity, VerifyManifest, ReplacePointer, WriterRaises,
         ObserveCommit, WriteCompatibility, IoError, Crash, Goto, Roles, After
  <2>4. QED
    BY <1>3, <2>1, <2>2, <2>3 DEF Untouched
<1>6. QED
  BY <1>4, <1>5

(* While nothing is published an attempt is refused only because somebody  *)
(* holds what it needs, died with it, or because of its own pin.           *)
LEMMA RefusedStep ==
  ASSUME CommitInv, WinInv, NEW a \in Attempts, Step(a) \/ Fault(a)
  PROVE  RefusedForSomeone'
<1> SUFFICES ASSUME log' = << >>, NEW d \in Attempts, pc'[d] = "refused"
             PROVE  \E b \in Attempts : Contender(b)'
  BY DEF RefusedForSomeone
<1>1. log = << >> /\ pointer = origin /\ Seen = {}
  BY UntouchedStep DEF WinInv, CommitInv, LineageUnbroken, Seen
<1>2. CASE CaptureIdentity(a)
  BY <1>2 DEF CommitInv, TypeOK, CaptureIdentity, Goto, Contender
<1>3. CASE ~CaptureIdentity(a)
  <2>1. /\ UNCHANGED << expected, prior >>
        /\ \A b \in Attempts \ {a} : pc'[b] = pc[b]
    BY <1>3, StagingKept DEF CommitInv
  <2>2. \A b \in Attempts \ {a} : Contender(b) => Contender(b)'
    BY <2>1 DEF Contender
  <2>3. pc'[a] # "done"
    <3>1. pc[a] # "committed"
      BY <1>1 DEF CommitInv, SeenPhases
    <3>2. QED
      BY <1>3, <3>1 DEF CommitInv, TypeOK, Step, Prepare, PutObject, Commit, Fault, ReadPrior,
         VerifyPrior, ValidateBundle, ThinGate, CreateObject, CompleteObject, ReuseObject,
         ObjectConflict, AcquireLock, CompareIdentity, VerifyManifest, ReplacePointer,
         WriterRaises, ObserveCommit, WriteCompatibility, IoError, Crash, Goto, Roles, After
  <2>4. CASE pc'[a] # "refused"
    BY <2>3, <2>4 DEF Contender
  <2>5. CASE pc'[a] = "refused"
    <3>1. prior[a] = origin /\ pc[a] # "prior_read" /\ pc[a] # "observe" /\ pc[a] # "refused"
          /\ pc[a] # "idle"
      <4>1. pc[a] # "idle" /\ pc[a] # "refused"
        BY <1>3 DEF Step, Prepare, PutObject, Commit, Fault, ReadPrior, VerifyPrior,
           ValidateBundle, ThinGate, CreateObject, CompleteObject, ReuseObject, ObjectConflict,
           AcquireLock, CompareIdentity, VerifyManifest, ReplacePointer, WriterRaises,
           ObserveCommit, WriteCompatibility, IoError, Crash, Roles, Preparing, InLock, Ended
      <4>2. pc[a] # "observe"
        BY <1>1 DEF CommitInv, SeenPhases
      <4>3. QED
        BY <1>1, <4>1, <4>2 DEF WinInv, Untouched
    <3>2. \/ ObjectConflict(a)
          \/ pc[a] = "staged" /\ lock # Absent
          \/ pc[a] = "cas" /\ ~CasHolds(a)
          \/ pc[a] = "verify" /\ ~Readable(a)
      BY <1>1, <1>3, <2>5, <3>1 DEF CommitInv, TypeOK, Step, Prepare, PutObject, Commit, Fault,
         ReadPrior, VerifyPrior, ValidateBundle, ThinGate, CreateObject, CompleteObject,
         ReuseObject, AcquireLock, CompareIdentity, VerifyManifest, ReplacePointer,
         WriterRaises, ObserveCommit, WriteCompatibility, IoError, Crash, Goto, Roles, After
    <3>3. CASE ObjectConflict(a)
      <4>1. PICK c \in Attempts : \/ pc[c] \in {"failed", "crashed"}
                                  \/ writing[c] /\ pc[c] \in Roles
        <5>1. ObjectOf(a, pc[a]) \in torn
          BY <3>3 DEF ObjectConflict
        <5>2. QED
          BY <5>1 DEF WinInv, TornOwned, CommitInv, WritingPhases
      <4>2. c # a
        BY <3>3, <4>1 DEF ObjectConflict, Roles
      <4>3. QED
        BY <2>2, <4>1, <4>2 DEF Contender, Roles
    <3>4. CASE pc[a] = "staged" /\ lock # Absent
      <4>1. lock \in Attempts /\ pc[lock] \in InLock
        BY <3>4 DEF CommitInv, TypeOK, LockIsLive
      <4>2. lock # a
        BY <3>4, <4>1 DEF InLock
      <4>3. QED
        BY <2>2, <4>1, <4>2 DEF Contender, InLock
    <3>5. CASE pc[a] = "cas" /\ ~CasHolds(a)
      <4>1. expected[a] # prior[a]
        BY <1>1, <3>1, <3>5 DEF CasHolds
      <4>2. QED
        BY <2>1, <4>1 DEF Contender
    <3>6. CASE pc[a] = "verify" /\ ~Readable(a)
      <4>1. References(a) \subseteq whole
        BY <3>6 DEF WinInv, StagedWhole, References, Roles
      <4>2. QED
        BY <3>6, <4>1 DEF Readable
    <3>7. QED
      BY <3>2, <3>3, <3>4, <3>5, <3>6
  <2>6. QED
    BY <2>4, <2>5
<1>4. QED
  BY <1>2, <1>3

LEMMA WinInvStep == CommitInv /\ WinInv /\ [Next]_vars => WinInv'
<1> SUFFICES ASSUME CommitInv, WinInv, [Next]_vars PROVE WinInv'
  OBVIOUS
<1>1. CASE UNCHANGED vars
  BY <1>1 DEF vars, WinInv, StagedWhole, TornOwned, Untouched, RefusedForSomeone, Contender,
              ObjectOf, SnapshotOf
<1>2. ASSUME NEW a \in Attempts, Step(a) \/ Fault(a) PROVE WinInv'
  <2>1. /\ TypeOK /\ LineageUnbroken /\ WritingPhases
        /\ StagedWhole /\ TornOwned /\ Untouched
    BY DEF CommitInv, WinInv
  <2>2. StagedWhole' /\ TornOwned' /\ Untouched' /\ RefusedForSomeone'
    BY <1>2, <2>1, StagedStep, TornStep, UntouchedStep, RefusedStep
  <2>3. QED
    BY <2>2 DEF WinInv
<1>3. QED
  BY <1>1, <1>2 DEF Next

(* As long as nothing is published, a refused attempt has somebody to blame. *)
THEOREM WinInvariant == Spec => []WinInv
<1>1. Init => WinInv
  BY DEF Init, WinInv, StagedWhole, TornOwned, Untouched, RefusedForSomeone
<1>2. QED
  BY <1>1, WinInvStep, CommitInvariant, PTL DEF Spec

(* Writers that conflict fail closed, but never all of them: if every      *)
(* attempt ended in PASS or in a refusal, and none had pinned an identity  *)
(* that was not there, one of them has moved the pointer.                  *)
THEOREM OneWriterWins ==
  ASSUME Attempts # {}
  PROVE  Spec => []SomeoneWins
<1>1. CommitInv /\ WinInv => SomeoneWins
  <2> SUFFICES ASSUME CommitInv, WinInv, log = << >>,
                      \A a \in Attempts : pc[a] \in {"done", "refused"} /\ expected[a] = prior[a]
               PROVE  FALSE
    BY DEF SomeoneWins
  <2>1. PICK a \in Attempts : TRUE
    OBVIOUS
  <2>2. pc[a] # "done"
    BY DEF CommitInv, SeenPhases, Seen
  <2>3. pc[a] = "refused"
    BY <2>2
  <2>4. PICK b \in Attempts : Contender(b)
    BY <2>3 DEF WinInv, RefusedForSomeone
  <2>5. QED
    BY <2>4 DEF Contender
<1>2. QED
  BY <1>1, CommitInvariant, WinInvariant, PTL

-----------------------------------------------------------------------------
(* Walking back from the pointer.  An attempt enters the log once, and the *)
(* identity an attempt captured was in the log or older than the log, so   *)
(* the walk along prior_latest_identity ends, in the origin.               *)
LoggedOnce == \A i, j \in DOMAIN log : log[i] = log[j] => i = j

PriorKnown == \A a \in Attempts : prior[a] \in Seen \cup {Absent, Legacy}

WalkInv == LoggedOnce /\ PriorKnown

LEMMA WalkInvStep == CommitInv /\ WalkInv /\ [Next]_vars => WalkInv'
<1> SUFFICES ASSUME CommitInv, WalkInv, [Next]_vars PROVE WalkInv'
  OBVIOUS
<1>1. TypeOK /\ SeenPhases /\ pointer \in Seen \cup {Absent, Legacy}
  <2>1. log # << >> => Len(log) \in DOMAIN log
    BY DEF CommitInv, TypeOK
  <2>2. QED
    BY <2>1 DEF CommitInv, TypeOK, LineageUnbroken, Seen
<1>2. CASE UNCHANGED vars
  BY <1>2 DEF vars, WalkInv, LoggedOnce, PriorKnown, Seen
<1>3. ASSUME NEW a \in Attempts, Step(a) \/ Fault(a) PROVE WalkInv'
  <2>1. CASE CaptureIdentity(a)
    <3>1. prior' = [prior EXCEPT ![a] = pointer] /\ log' = log
      BY <2>1 DEF CaptureIdentity
    <3>2. QED
      BY <1>1, <3>1 DEF TypeOK, WalkInv, LoggedOnce, PriorKnown, Seen
  <2>2. CASE ~CaptureIdentity(a)
    <3>1. prior' = prior
      BY <1>1, <1>3, <2>2, StagingKept
    <3>2. \/ log' = log
          \/ pc[a] = "replace" /\ log' = Append(log, a)
      BY <1>3 DEF Step, Prepare, PutObject, Commit, Fault, CaptureIdentity, ReadPrior,
         VerifyPrior, ValidateBundle, ThinGate, CreateObject, CompleteObject, ReuseObject,
         ObjectConflict, AcquireLock, CompareIdentity, VerifyManifest, ReplacePointer,
         WriterRaises, ObserveCommit, WriteCompatibility, IoError, Crash
    <3>3. CASE log' = log
      BY <3>1, <3>3 DEF WalkInv, LoggedOnce, PriorKnown, Seen
    <3>4. CASE pc[a] = "replace" /\ log' = Append(log, a)
      <4>1. a \notin Seen
        BY <1>1, <3>4 DEF SeenPhases
      <4>2. /\ DOMAIN log = 1 .. Len(log) /\ DOMAIN log' = 1 .. Len(log) + 1
            /\ \A i \in 1 .. Len(log) : log'[i] = log[i]
            /\ log'[Len(log) + 1] = a
            /\ Len(log) \in Nat
        BY <1>1, <3>4 DEF TypeOK
      <4>3. LoggedOnce'
        BY <4>1, <4>2 DEF WalkInv, LoggedOnce, Seen
      <4>4. Seen \subseteq Seen'
        BY <4>2 DEF Seen
      <4>5. QED
        BY <3>1, <4>3, <4>4 DEF WalkInv, PriorKnown
    <3>5. QED
      BY <3>2, <3>3, <3>4
  <2>3. QED
    BY <2>1, <2>2
<1>4. QED
  BY <1>2, <1>3 DEF Next

THEOREM WalkInvariant == Spec => []WalkInv
<1>1. Init => WalkInv
  BY DEF Init, WalkInv, LoggedOnce, PriorKnown, Seen
<1>2. QED
  BY <1>1, WalkInvStep, CommitInvariant, PTL DEF Spec

(* The library's theorem for the order of the naturals. *)
LEMMA LeastNumber ==
  ASSUME NEW S \in SUBSET Nat, S # {}
  PROVE  \E n \in S : \A m \in S : n <= m
<1>1. IsWellFoundedOn(OpToRel(<, Nat), Nat)
  BY NatLessThanWellFounded
<1>2. PICK n \in S : \A m \in S : ~ (<<m, n>> \in OpToRel(<, Nat))
  BY <1>1, WFMin
<1>3. \A m \in S : ~ (m < n)
  BY <1>2 DEF OpToRel
<1>4. QED
  BY <1>3

(* What the walk finds from the i-th transaction of the log. *)
Upto(i) == [j \in 1 .. i |-> log[j]]

LEMMA UptoGrows ==
  ASSUME log \in Seq(Attempts), NEW i \in DOMAIN log
  PROVE  /\ i = 1 => Upto(i) = Append(<< >>, log[i])
         /\ i # 1 => /\ i - 1 \in DOMAIN log
                     /\ Upto(i) = Append(Upto(i - 1), log[i])
         /\ Upto(Len(log)) = log
<1>1. DOMAIN log = 1 .. Len(log) /\ Len(log) \in Nat
  OBVIOUS
<1>2. i = 1 => Upto(i) = Append(<< >>, log[i])
  BY <1>1 DEF Upto
<1>3. ASSUME i # 1
      PROVE  /\ i - 1 \in DOMAIN log
             /\ Upto(i) = Append(Upto(i - 1), log[i])
  <2>1. i - 1 \in 1 .. Len(log) /\ i - 1 \in Nat
    BY <1>1, <1>3
  <2>2. Upto(i - 1) \in Seq(Attempts) /\ Len(Upto(i - 1)) = i - 1
    <3>1. \A j \in 1 .. i - 1 : log[j] \in Attempts
      BY <1>1
    <3>2. QED
      BY <2>1, <3>1 DEF Upto
  <2>3. QED
    BY <1>1, <2>1, <2>2 DEF Upto
<1>4. Upto(Len(log)) = log
  BY <1>1 DEF Upto
<1>5. QED
  BY <1>2, <1>3, <1>4

(* The manifests determine the walk: its recursion has a solution. *)
LEMMA WalkEnds ==
  ASSUME CommitInv, WalkInv
  PROVE  Lineage = [identity \in Identities |->
                      IF identity \in Attempts
                        THEN Append(Lineage[prior[identity]], identity) ELSE << >>]
<1> DEFINE Position(x) == CHOOSE i \in DOMAIN log : log[i] = x
           Found(x) == IF x \in Seen THEN Upto(Position(x)) ELSE << >>
           walk == [x \in Identities |->
                      IF x \in Seen THEN Upto(Position(x))
                      ELSE IF x \in Attempts THEN Append(Found(prior[x]), x) ELSE << >>]
<1>1. \A i \in DOMAIN log : log[i] \in Seen /\ Position(log[i]) = i
  BY DEF WalkInv, LoggedOnce, Seen
<1>2. Seen \subseteq Attempts /\ Seen \cap {Absent, Legacy} = {} /\ Attempts \subseteq Identities
  BY IdentitiesDistinct DEF CommitInv, TypeOK, Seen, Identities
<1>3. \A x \in Seen \cup {Absent, Legacy} : x \in Identities /\ walk[x] = Found(x)
  BY <1>2, IdentitiesDistinct DEF Identities
<1> HIDE DEF Position
<1>4. ASSUME NEW x \in Identities
      PROVE  walk[x] = IF x \in Attempts THEN Append(walk[prior[x]], x) ELSE << >>
  <2>1. CASE x \notin Attempts
    BY <1>2, <2>1
  <2>2. CASE x \in Attempts \ Seen
    <3>1. walk[prior[x]] = Found(prior[x])
      BY <1>3, <2>2 DEF WalkInv, PriorKnown
    <3>2. walk[x] = Append(Found(prior[x]), x)
      BY <2>2
    <3>3. QED
      BY <2>2, <3>1, <3>2
  <2>3. CASE x \in Seen
    <3>1. PICK i \in DOMAIN log : x = log[i]
      BY <2>3 DEF Seen
    <3>2. walk[x] = Upto(i)
      BY <1>1, <2>3, <3>1
    <3>3. walk[prior[x]] = Found(prior[x])
      BY <1>2, <1>3, <2>3 DEF WalkInv, PriorKnown
    <3>4. prior[x] = Predecessor(i)
      BY <3>1 DEF CommitInv, LineageUnbroken
    <3>5. CASE i = 1
      <4>1. prior[x] \notin Seen
        BY <1>2, <3>4, <3>5 DEF Predecessor, CommitInv, TypeOK
      <4>2. Upto(i) = Append(<< >>, x)
        BY <3>1, <3>5, UptoGrows DEF CommitInv, TypeOK
      <4>3. QED
        BY <1>2, <2>3, <3>2, <3>3, <4>1, <4>2
    <3>6. CASE i # 1
      <4>1. i - 1 \in DOMAIN log /\ Upto(i) = Append(Upto(i - 1), x)
        BY <3>1, <3>6, UptoGrows DEF CommitInv, TypeOK
      <4>2. prior[x] = log[i - 1]
        BY <3>4, <3>6 DEF Predecessor
      <4>3. Found(prior[x]) = Upto(i - 1)
        BY <1>1, <4>1, <4>2
      <4>4. QED
        BY <1>2, <2>3, <3>2, <3>3, <4>1, <4>3
    <3>7. QED
      BY <3>5, <3>6
  <2>4. QED
    BY <2>1, <2>2, <2>3
<1> HIDE DEF walk
<1>5. walk = [x \in Identities |-> IF x \in Attempts THEN Append(walk[prior[x]], x) ELSE << >>]
  <2>1. walk = [x \in Identities |-> walk[x]]
    BY DEF walk
  <2>2. QED
    BY <1>4, <2>1
<1>6. \E w : w = [x \in Identities |-> IF x \in Attempts THEN Append(w[prior[x]], x) ELSE << >>]
  BY <1>5
<1>7. QED
  BY <1>6 DEF Lineage

(* Walking back from the pointer finds the transactions it ever named. *)
LEMMA WalkFindsLog == CommitInv /\ WalkInv => Lineage[pointer] = log
<1> SUFFICES ASSUME CommitInv, WalkInv PROVE Lineage[pointer] = log
  OBVIOUS
<1>1. /\ log \in Seq(Attempts) /\ pointer \in Identities /\ Attempts \subseteq Identities
      /\ origin \in Identities \ Attempts
  BY IdentitiesDistinct DEF CommitInv, TypeOK, Identities
<1>2. \A x \in Identities :
        Lineage[x] = IF x \in Attempts THEN Append(Lineage[prior[x]], x) ELSE << >>
  BY WalkEnds
<1> DEFINE Wrong == {i \in DOMAIN log : Lineage[log[i]] # Upto(i)}
<1>3. Wrong = {}
  <2> SUFFICES ASSUME Wrong # {} PROVE FALSE
    OBVIOUS
  <2>1. Wrong \in SUBSET Nat
    BY <1>1
  <2>2. PICK i \in Wrong : \A j \in Wrong : i <= j
    BY <2>1, LeastNumber
  <2>3. /\ i \in DOMAIN log /\ i \in Nat
        /\ log[i] \in Attempts /\ prior[log[i]] = Predecessor(i)
    BY <1>1, <2>2 DEF CommitInv, LineageUnbroken
  <2>4. Lineage[log[i]] = Append(Lineage[Predecessor(i)], log[i])
    BY <1>1, <1>2, <2>3
  <2>5. CASE i = 1
    <3>1. Lineage[Predecessor(i)] = << >>
      BY <1>1, <1>2, <2>5 DEF Predecessor
    <3>2. Upto(i) = Append(<< >>, log[i])
      BY <1>1, <2>3, <2>5, UptoGrows
    <3>3. QED
      BY <2>2, <2>4, <3>1, <3>2
  <2>6. CASE i # 1
    <3>1. i - 1 \in DOMAIN log /\ Upto(i) = Append(Upto(i - 1), log[i])
      BY <1>1, <2>3, <2>6, UptoGrows
    <3>2. i - 1 \notin Wrong
      BY <2>1, <2>2, <2>3
    <3>3. Lineage[log[i - 1]] = Upto(i - 1)
      BY <3>1, <3>2
    <3>4. Predecessor(i) = log[i - 1]
      BY <2>6 DEF Predecessor
    <3>5. QED
      BY <2>2, <2>4, <3>1, <3>3, <3>4
  <2>7. QED
    BY <2>5, <2>6
<1>4. CASE log = << >>
  BY <1>1, <1>2, <1>4 DEF CommitInv, LineageUnbroken
<1>5. CASE log # << >>
  <2>1. Len(log) \in DOMAIN log
    BY <1>1, <1>5
  <2>2. Lineage[log[Len(log)]] = Upto(Len(log))
    BY <1>3, <2>1
  <2>3. pointer = log[Len(log)]
    BY <1>5 DEF CommitInv, LineageUnbroken
  <2>4. Upto(Len(log)) = log
    BY <1>1, <2>1, UptoGrows
  <2>5. QED
    BY <2>2, <2>3, <2>4
<1>6. QED
  BY <1>4, <1>5

(* The log grows by one transaction that was not in it. *)
LEMMA LoggedStep ==
  ASSUME CommitInv, [Next]_vars, log' # log
  PROVE  \E a \in Attempts : a \notin Seen /\ log' = Append(log, a)
<1>1. PICK a \in Attempts : Step(a) \/ Fault(a)
  BY DEF Next, vars
<1>2. pc[a] = "replace" /\ log' = Append(log, a)
  BY <1>1 DEF Step, Prepare, PutObject, Commit, Fault, CaptureIdentity, ReadPrior,
       VerifyPrior, ValidateBundle, ThinGate, CreateObject, CompleteObject, ReuseObject,
       ObjectConflict, AcquireLock, CompareIdentity, VerifyManifest, ReplacePointer,
       WriterRaises, ObserveCommit, WriteCompatibility, IoError, Crash
<1>3. a \notin Seen
  BY <1>2 DEF CommitInv, SeenPhases
<1>4. QED
  BY <1>2, <1>3

(* The pointer files implement the promised log. *)
THEOREM ImplementsLog == Spec => ImplementsPublicationLog
<1>1. Init /\ Lineage[pointer] = log => Published!PublicationLogInit
  BY DEF Init, Published!PublicationLogInit
<1>2. /\ CommitInv
      /\ Lineage[pointer] = log
      /\ (Lineage[pointer] = log)'
      /\ [Next]_vars
      => [Published!PublicationLogNext]_(Lineage[pointer])
  <2> SUFFICES ASSUME CommitInv, Lineage[pointer] = log, (Lineage[pointer] = log)',
                      [Next]_vars, log' # log
               PROVE  Published!PublicationLogNext
    OBVIOUS
  <2>1. PICK a \in Attempts : a \notin Seen /\ log' = Append(log, a)
    BY LoggedStep
  <2>2. a \notin Published!Range(Lineage[pointer])
    BY <2>1 DEF Seen, Published!Range
  <2>3. QED
    BY <2>1, <2>2 DEF Published!PublicationLogNext, Published!Publish
<1>3. QED
  BY <1>1, <1>2, CommitInvariant, WalkInvariant, WalkFindsLog, PTL
     DEF Spec, ImplementsPublicationLog, Published!PublicationLogSpec
-----------------------------------------------------------------------------
(* The acquisitions.  Sessions are numbers, and there are finitely many.   *)
LEMMA SameSize == \A S : Source!Cardinality(S) = Cardinality(S)
BY DEF Source!Cardinality, Cardinality

LEMMA SessionSets ==
  ASSUME NEW S \in SUBSET Source!Sessions
  PROVE  /\ S \in SUBSET Nat /\ IsFiniteSet(S)
         /\ Cardinality(S) \in Nat /\ Source!Cardinality(S) = Cardinality(S)
<1>1. LastSession \in Nat
  BY PartsConstants DEF Source!AcquisitionConstants
<1>2. IsFiniteSet(Source!Sessions) /\ Source!Sessions \in SUBSET Nat
  BY <1>1, FS_Interval DEF Source!Sessions
<1>3. IsFiniteSet(S)
  BY <1>2, FS_Subset
<1>4. QED
  BY <1>2, <1>3, FS_CardinalityType, SameSize

(* Any of them has a greatest.                                             *)
LEMMA GreatestSession ==
  ASSUME NEW S \in SUBSET Source!Sessions, S # {}
  PROVE  Source!Max(S) \in S /\ \A x \in S : x <= Source!Max(S)
<1> DEFINE Bound(n) == \A x \in S : x <= n
           T == {n \in Nat : Bound(n)}
<1>1. LastSession \in T
  BY PartsConstants DEF Source!AcquisitionConstants, Source!Sessions
<1>2. PICK n \in T : \A m \in T : n <= m
  BY <1>1, LeastNumber
<1>3. n \in S
  <2> SUFFICES ASSUME n \notin S PROVE FALSE
    OBVIOUS
  <2>1. S \in SUBSET Nat /\ n \in Nat /\ \A x \in S : x <= n
    BY SessionSets, <1>2
  <2>2. PICK y \in S : TRUE
    OBVIOUS
  <2>3. n - 1 \in Nat /\ \A x \in S : x <= n - 1
    BY <2>1, <2>2, y # n DEF Source!Sessions
  <2>4. n - 1 \in T
    BY <2>3
  <2> QED BY <1>2, <2>1, <2>4
<1>4. \E x \in S : \A y \in S : x >= y
  <2>1. S \in SUBSET Nat /\ n \in Nat /\ \A x \in S : x <= n
    BY SessionSets, <1>2
  <2> QED BY <1>3, <2>1
<1>5. Source!Max(S) \in S /\ \A y \in S : Source!Max(S) >= y
  BY <1>4 DEF Source!Max
<1>6. S \in SUBSET Nat
  BY SessionSets
<1>7. QED
  BY <1>5, <1>6

(* The newest n of a set of sessions are closed upwards,                   *)
LEMMA NewestUpwards ==
  ASSUME NEW S \in SUBSET Source!Sessions, NEW n \in Nat,
         NEW x \in Source!Newest(S, n), NEW y \in S, y > x
  PROVE  y \in Source!Newest(S, n)
<1>1. S \in SUBSET Nat /\ x \in S
  BY SessionSets DEF Source!Newest
<1>2. {e \in S : e > y} \subseteq {e \in S : e > x}
  <2>1. \A e \in S : e \in Nat
    BY <1>1
  <2>2. x \in Nat /\ y \in Nat
    BY <1>1, <2>1
  <2>3. \A e \in S : e > y => e > x
    BY <2>1, <2>2
  <2> QED BY <2>3
<1>3. Cardinality({e \in S : e > y}) <= Cardinality({e \in S : e > x})
  BY <1>2, SessionSets, FS_Subset
<1>4. Cardinality({e \in S : e > x}) < n
  BY SessionSets DEF Source!Newest
<1>5. Cardinality({e \in S : e > y}) < n
  BY <1>3, <1>4, SessionSets
<1>6. QED
  BY <1>5, SessionSets DEF Source!Newest

(* at most n,                                                              *)
LEMMA NewestAtMost ==
  ASSUME NEW S \in SUBSET Source!Sessions, NEW n \in Nat
  PROVE  Cardinality(Source!Newest(S, n)) <= n
<1> DEFINE T == Source!Newest(S, n)
<1>1. T \in SUBSET S /\ T \in SUBSET Source!Sessions
  BY DEF Source!Newest
<1>2. CASE T = {}
  BY <1>2, FS_EmptySet
<1>3. CASE T # {}
  <2>1. T \in SUBSET Nat
    BY <1>1, SessionSets
  <2>2. PICK x \in T : \A y \in T : x <= y
    BY <1>3, <2>1, LeastNumber
  <2>3. {e \in S : e > x} = T \ {x}
    <3>1. \A e \in S : e > x => e \in T
      BY <2>2, NewestUpwards
    <3>2. \A e \in T : e \in S /\ e \in Nat
      BY <1>1, <2>1
    <3> HIDE DEF T
    <3>3. \A e \in T \ {x} : e \in S /\ e > x
      BY <2>2, <3>2
    <3>4. ~ (x > x) /\ \A e \in S : e > x => e \in T \ {x}
      BY <2>2, <3>1, <3>2
    <3> QED BY <3>3, <3>4
  <2>4. Cardinality({e \in S : e > x}) < n
    BY SessionSets DEF Source!Newest
  <2>5. Cardinality(T \ {x}) = Cardinality(T) - 1 /\ Cardinality(T) \in Nat
    BY <1>1, SessionSets, FS_RemoveElement
  <2> QED BY <2>3, <2>4, <2>5
<1>4. QED
  BY <1>2, <1>3

(* and no less than there are, up to n.                                    *)
LEMMA NewestAtLeast ==
  ASSUME NEW S \in SUBSET Source!Sessions, NEW n \in Nat, NEW k \in Nat,
         k <= n, k <= Cardinality(S)
  PROVE  k <= Cardinality(Source!Newest(S, n))
<1> DEFINE T == Source!Newest(S, n)
           Left == S \ T
<1>1. T \in SUBSET S /\ T \in SUBSET Source!Sessions /\ Left \in SUBSET Source!Sessions
  BY DEF Source!Newest
<1>2. CASE Left = {}
  BY <1>1, <1>2
<1>3. CASE Left # {}
  <2>1. PICK z : z = Source!Max(Left)
    OBVIOUS
  <2>2. z \in Left /\ \A x \in Left : x <= z
    BY <1>1, <1>3, <2>1, GreatestSession
  <2>3. Left \in SUBSET Nat /\ S \in SUBSET Nat
    BY <1>1, SessionSets
  <2>4. {e \in S : e > z} \subseteq T
    <3> HIDE DEF T
    <3> QED BY <2>2, <2>3
  <2>5. ~ (Cardinality({e \in S : e > z}) < n)
    BY <2>2, SessionSets DEF Source!Newest
  <2>6. Cardinality({e \in S : e > z}) <= Cardinality(T)
    BY <1>1, <2>4, SessionSets, FS_Subset
  <2>7. Cardinality({e \in S : e > z}) \in Nat /\ Cardinality(T) \in Nat
    BY <1>1, SessionSets
  <2> QED BY <2>5, <2>6, <2>7
<1>4. QED
  BY <1>2, <1>3
-----------------------------------------------------------------------------
(* A history that a bundle of a date may be built on.                      *)
HistoryFor(S, date) ==
  /\ S \in SUBSET Source!Sessions /\ \A d \in S : d < date
  /\ Source!Cardinality(S) \in MinSessions .. MaxSessions

StoreFor(tree, date) == /\ \A s \in Symbols : HistoryFor(tree.stock[s], date)
                        /\ \A m \in Source!Markets : HistoryFor(tree.benchmark[m], date)

(* A tree whose bundle is bound to its date, on a store for that date.     *)
TreeSound(tree) ==
  tree.bundle # None =>
    LET b == tree.bundle IN
    /\ StoreFor(tree, b.date)
    /\ ~Source!CadenceBlocked(b.cadence)
    /\ b.daily = [m \in Source!Markets |-> b.date]
    /\ \A s \in Symbols : Source!Max(b.history[s]) = b.date

IsTree(tree) ==
  /\ tree = [stock |-> tree.stock, benchmark |-> tree.benchmark,
             material |-> tree.material, bundle |-> tree.bundle]
  /\ tree.stock \in [Symbols -> SUBSET Source!Sessions]
  /\ tree.benchmark \in [Source!Markets -> SUBSET Source!Sessions]

IsAcquisition(j) ==
  /\ j = [at |-> j.at, base |-> j.base, date |-> j.date, cadence |-> j.cadence, tree |-> j.tree]
  /\ j.date \in Source!Sessions /\ IsTree(j.tree)

(* What a job has of its own: after the store its histories, and after the *)
(* bundle all that the push puts on main.                                  *)
AcquisitionOk(j) ==
  j \notin {None, Over} =>
    /\ IsAcquisition(j)
    /\ j.at = "build" => StoreFor(j.tree, j.date)
    /\ j.at = "push" => TreeSound(j.tree)

AcquisitionInv ==
  /\ IsTree(main) /\ TreeSound(main)
  /\ job \in [Runs -> {job[r] : r \in Runs}]
  /\ \A r \in Runs : AcquisitionOk(job[r])

(* Months are fetched until there is enough, and no further: the number of *)
(* months is one, and the store that comes of it is for the date.          *)
LEMMA ReplenishedFor ==
  ASSUME NEW S \in SUBSET Source!Sessions, NEW date \in Source!Sessions, Source!Suffices(S, date)
  PROVE  HistoryFor(Source!Replenished(S, date), date)
<1> DEFINE P == Source!Prior(S, date)
           Grown(n) == P \cup Source!MonthRows(date, n)
<1>1. \A n : Grown(n) \in SUBSET Source!Sessions /\ \A d \in Grown(n) : d < date
  BY DEF Source!Prior, Source!MonthRows, Source!Published
<1>2. PICK n \in Source!PeriodsUsed(P, date) : TRUE
  BY DEF Source!Suffices
<1>3. ASSUME NEW m \in Source!PeriodsUsed(P, date) PROVE m = n
  <2>1. /\ m \in Int /\ n \in Int /\ 0 <= m /\ 0 <= n
        /\ Source!Cardinality(Grown(m)) >= MinSessions /\ Source!Cardinality(Grown(n)) >= MinSessions
        /\ \A k \in 0 .. m - 1 : Source!Cardinality(Grown(k)) < MinSessions
        /\ \A k \in 0 .. n - 1 : Source!Cardinality(Grown(k)) < MinSessions
    BY <1>2 DEF Source!PeriodsUsed
  <2>2. /\ Source!Cardinality(Grown(m)) \in Nat /\ Source!Cardinality(Grown(n)) \in Nat
        /\ MinSessions \in Nat
    BY <1>1, SessionSets, PartsConstants DEF Source!AcquisitionConstants
  <2> HIDE DEF Grown
  <2> QED BY <2>1, <2>2
<1>4. n \in Int /\ Source!Cardinality(Grown(n)) >= MinSessions
  BY <1>2 DEF Source!PeriodsUsed
<1>5. Source!PeriodsUsed(P, date) = {n}
  BY <1>2, <1>3
<1>6. Source!Max({n}) = n
  BY <1>4 DEF Source!Max
<1>7. PICK U : U = Grown(n)
  OBVIOUS
<1>8. Source!Replenished(S, date) = Source!Newest(U, MaxSessions)
  BY <1>5, <1>6, <1>7 DEF Source!Replenished
<1>9. U \in SUBSET Source!Sessions /\ \A d \in U : d < date
  BY <1>1, <1>7
<1>10. MinSessions \in Nat /\ MaxSessions \in Nat /\ MinSessions <= MaxSessions
  BY PartsConstants DEF Source!AcquisitionConstants
<1>11. MinSessions <= Cardinality(U) /\ Cardinality(U) \in Nat
  BY <1>4, <1>7, <1>9, <1>10, SessionSets
<1>12. Source!Newest(U, MaxSessions) \in SUBSET U
  BY DEF Source!Newest
<1> DEFINE W == Source!Newest(U, MaxSessions)
<1>13. W \in SUBSET Source!Sessions /\ \A d \in W : d < date
  BY <1>9, <1>12
<1>14. Cardinality(W) <= MaxSessions /\ MinSessions <= Cardinality(W)
  BY <1>9, <1>10, <1>11, NewestAtMost, NewestAtLeast
<1>15. Source!Cardinality(W) \in MinSessions .. MaxSessions
  <2>1. Cardinality(W) \in Nat /\ Source!Cardinality(W) = Cardinality(W)
    BY <1>13, SessionSets
  <2> HIDE DEF W
  <2> QED BY <1>10, <1>14, <2>1
<1> QED BY <1>8, <1>13, <1>15 DEF HistoryFor

(* A history for a date has rows, and the last is before the date.         *)
LEMMA LastBefore ==
  ASSUME NEW S, NEW date, HistoryFor(S, date)
  PROVE  Source!Max(S) < date
<1>1. S \in SUBSET Source!Sessions /\ \A d \in S : d < date
  BY DEF HistoryFor
<1>2. S # {}
  <2> SUFFICES ASSUME S = {} PROVE FALSE
    OBVIOUS
  <2>1. Source!Cardinality(S) = 0
    BY SameSize, FS_EmptySet
  <2>2. Source!Cardinality(S) \in MinSessions .. MaxSessions /\ MinSessions \in Nat \ {0} /\ MaxSessions \in Nat
    BY PartsConstants DEF HistoryFor, Source!AcquisitionConstants
  <2> QED BY <2>1, <2>2
<1> QED BY <1>1, <1>2, GreatestSession

(* The live row of the date is the last of a history.                      *)
LEMMA LiveRowIsLast ==
  ASSUME NEW tree, IsTree(tree), NEW s \in Symbols, NEW date \in Source!Sessions
  PROVE  Source!Max(Source!PersistedStockHistory(tree, s, date)) = date
<1>1. PICK U : U = {d \in tree.stock[s] : d <= date} \cup {date}
  OBVIOUS
<1>2. PICK W : W = Source!Newest(U, MaxSessions)
  OBVIOUS
<1>3. W = Source!PersistedStockHistory(tree, s, date)
  BY <1>1, <1>2 DEF Source!PersistedStockHistory
<1>4. tree.stock[s] \in SUBSET Source!Sessions
  BY DEF IsTree
<1>5. U \in SUBSET Source!Sessions /\ date \in U /\ W \in SUBSET U
  BY <1>1, <1>2, <1>4 DEF Source!Newest
<1>6. date \in Nat /\ \A d \in U : d \in Nat
  BY <1>5, SessionSets
<1>7. \A d \in U : d <= date
  BY <1>1, <1>6
<1>8. {e \in U : e > date} = {}
  BY <1>6, <1>7
<1>9. Source!Cardinality({e \in U : e > date}) = 0
  BY <1>8, SameSize, FS_EmptySet
<1>10. MaxSessions \in Nat \ {0}
  BY PartsConstants DEF Source!AcquisitionConstants
<1>11. date \in W
  BY <1>2, <1>5, <1>9, <1>10 DEF Source!Newest
<1>12. Source!Max(W) \in W /\ \A x \in W : x <= Source!Max(W)
  BY <1>5, <1>11, GreatestSession
<1>13. Source!Max(W) \in Nat /\ Source!Max(W) <= date /\ date <= Source!Max(W)
  BY <1>5, <1>6, <1>7, <1>11, <1>12
<1> QED BY <1>3, <1>6, <1>13

(* The daily rows of a build that is given the current rows of the markets.*)
DailyOf(tree, date, cadence, current) ==
  [m \in Source!Markets |->
     IF m = "TPEX" THEN Source!TpexDaily(tree, date, cadence, current[m])
     ELSE Source!TwseDaily(date, current[m])]

(* Rows of the date or none; and all of the universe must have theirs.     *)
LEMMA DailyRows ==
  ASSUME NEW tree, NEW date, NEW cadence, NEW current, NEW got, NEW daily,
         daily = DailyOf(tree, date, cadence, current) /\ Source!JoinComplete(tree, date, got, daily)
  PROVE  daily = [m \in Source!Markets |-> date]
<1>1. Source!TwseDaily(date, current["TWSE"]) \in {date, None}
  BY DEF Source!TwseDaily
<1>2. Source!TpexDaily(tree, date, cadence, current["TPEX"]) \in {date, None}
  BY DEF Source!TpexDaily, Source!HistoricalMarketDaily, Source!SelectMarketDaily
<1>3. /\ daily["TWSE"] \in {date, None} /\ daily["TPEX"] \in {date, None}
      /\ daily = [m \in Source!Markets |-> daily[m]]
  BY <1>1, <1>2 DEF Source!Markets, DailyOf
<1>4. \A s \in Symbols : daily[Source!Market(s)] # None
  BY DEF Source!JoinComplete
<1>5. PICK s \in Symbols, t \in Symbols : s \in Tpex /\ t \notin Tpex
  BY PartsConstants DEF Source!AcquisitionConstants
<1>6. Source!Market(s) = "TPEX" /\ Source!Market(t) = "TWSE"
  BY <1>5 DEF Source!Market
<1>7. daily["TWSE"] = date /\ daily["TPEX"] = date
  BY <1>3, <1>4, <1>6
<1>8. \A m \in Source!Markets : daily[m] = date
  BY <1>7 DEF Source!Markets
<1> QED BY <1>3, <1>8
-----------------------------------------------------------------------------
(* A job moves on; main stays, or becomes a sound tree.                    *)
LEMMA JobStep ==
  ASSUME AcquisitionInv, NEW r \in Runs, NEW j, AcquisitionOk(j),
         job' = [job EXCEPT ![r] = j], IsTree(main'), TreeSound(main')
  PROVE  AcquisitionInv'
<1>1. job \in [Runs -> {job[q] : q \in Runs}] /\ \A q \in Runs : AcquisitionOk(job[q])
  BY DEF AcquisitionInv
<1>2. /\ job' \in [Runs -> {job'[q] : q \in Runs}]
      /\ \A q \in Runs : job'[q] = IF q = r THEN j ELSE job[q]
  BY <1>1
<1>3. \A q \in Runs : AcquisitionOk(job'[q])
  BY <1>1, <1>2
<1>4. IsTree(main)' /\ TreeSound(main)'
  BY DEF IsTree, TreeSound, StoreFor, HistoryFor
<1>5. \A q \in Runs : AcquisitionOk(job[q])'
  BY <1>3 DEF AcquisitionOk, IsAcquisition, IsTree, TreeSound, StoreFor, HistoryFor
<1> QED BY <1>2, <1>4, <1>5 DEF AcquisitionInv

LEMMA QuietAcquisition == ASSUME AcquisitionInv, UNCHANGED << main, job >> PROVE AcquisitionInv'
<1>1. IsTree(main)' /\ TreeSound(main)'
  BY DEF AcquisitionInv, IsTree, TreeSound, StoreFor, HistoryFor
<1>2. \A r \in Runs : AcquisitionOk(job'[r])
  BY DEF AcquisitionInv
<1>3. \A r \in Runs : AcquisitionOk(job[r])'
  BY <1>2 DEF AcquisitionOk, IsAcquisition, IsTree, TreeSound, StoreFor, HistoryFor
<1> QED BY <1>1, <1>3 DEF AcquisitionInv

LEMMA OverKeeps ==
  ASSUME AcquisitionInv, NEW r \in Runs, job' = [job EXCEPT ![r] = Over], IsTree(main'), TreeSound(main')
  PROVE  AcquisitionInv'
<1>1. AcquisitionOk(Over)
  BY DEF AcquisitionOk
<1> QED BY <1>1, JobStep

LEMMA FailKeeps == ASSUME AcquisitionInv, NEW r \in Runs, Source!Fail(r) PROVE AcquisitionInv'
<1>1. job' = [job EXCEPT ![r] = Over] /\ main' = main
  BY DEF Source!Fail
<1> QED BY <1>1, OverKeeps DEF AcquisitionInv

LEMMA DispatchKeeps ==
  ASSUME AcquisitionInv, NEW r \in Runs, NEW date \in Source!Sessions, NEW cadence,
         Source!Dispatch(r, date, cadence)
  PROVE  AcquisitionInv'
<1>1. PICK j : j = [at |-> "materialize", base |-> commits, date |-> date, cadence |-> cadence, tree |-> main]
  OBVIOUS
<1>2. job' = [job EXCEPT ![r] = j] /\ main' = main
  BY <1>1 DEF Source!Dispatch
<1>3. IsTree(main) /\ TreeSound(main)
  BY DEF AcquisitionInv
<1>4. j.at = "materialize" /\ j.date = date /\ j.tree = main /\ IsAcquisition(j)
  BY <1>1, <1>3 DEF IsAcquisition
<1>5. AcquisitionOk(j)
  BY <1>4 DEF AcquisitionOk
<1> QED BY <1>2, <1>3, <1>5, JobStep

(* The store a job materializes is for its date.                           *)
LEMMA MaterializedOk ==
  ASSUME NEW tree, IsTree(tree), NEW date \in Source!Sessions, Source!Sufficient(tree, date), NEW material
  PROVE  /\ IsTree(Source!MaterializedTree(tree, date, material))
         /\ StoreFor(Source!MaterializedTree(tree, date, material), date)
<1>1. PICK stock, benchmark :
        /\ stock = [s \in Symbols |-> Source!Replenished(tree.stock[s], date)]
        /\ benchmark = [m \in Source!Markets |-> Source!Replenished(tree.benchmark[m], date)]
  OBVIOUS
<1>2. PICK served, b : served = [tree.material EXCEPT ![date] = material] /\ b = tree.bundle
  OBVIOUS
<1>3. PICK new : new = [stock |-> stock, benchmark |-> benchmark, material |-> served, bundle |-> b]
  OBVIOUS
<1>4. Source!MaterializedTree(tree, date, material) = new
  <2>1. PICK st, be, ma : tree = [stock |-> st, benchmark |-> be, material |-> ma, bundle |-> b]
    BY <1>2 DEF IsTree
  <2>2. tree.material = ma
    BY <2>1
  <2>3. PICK e : e = [tree EXCEPT !.material[date] = material, !.stock = stock, !.benchmark = benchmark]
    OBVIOUS
  <2>4. e = [x \in {"stock", "benchmark", "material", "bundle"} |-> e[x]]
    BY <2>1, <2>3
  <2>5. e["stock"] = stock /\ e["benchmark"] = benchmark /\ e["material"] = served /\ e["bundle"] = b
    BY <1>2, <2>1, <2>2, <2>3
  <2>6. e = new
    BY <1>3, <2>4, <2>5
  <2> QED BY <1>1, <2>3, <2>6 DEF Source!MaterializedTree
<1>5. ASSUME NEW s \in Symbols PROVE HistoryFor(stock[s], date)
  <2>1. tree.stock[s] \in SUBSET Source!Sessions /\ Source!Suffices(tree.stock[s], date)
    BY DEF IsTree, Source!Sufficient
  <2>2. HistoryFor(Source!Replenished(tree.stock[s], date), date)
    BY <2>1, ReplenishedFor
  <2> QED BY <1>1, <2>2
<1>6. ASSUME NEW m \in Source!Markets PROVE HistoryFor(benchmark[m], date)
  <2>1. tree.benchmark[m] \in SUBSET Source!Sessions /\ Source!Suffices(tree.benchmark[m], date)
    BY DEF IsTree, Source!Sufficient
  <2>2. HistoryFor(Source!Replenished(tree.benchmark[m], date), date)
    BY <2>1, ReplenishedFor
  <2> QED BY <1>1, <2>2
<1>7. /\ stock \in [Symbols -> SUBSET Source!Sessions]
      /\ benchmark \in [Source!Markets -> SUBSET Source!Sessions]
  <2>1. \A s \in Symbols : stock[s] \in SUBSET Source!Sessions
    BY <1>5 DEF HistoryFor
  <2>2. \A m \in Source!Markets : benchmark[m] \in SUBSET Source!Sessions
    BY <1>6 DEF HistoryFor
  <2> QED BY <1>1, <2>1, <2>2
<1>8. new.stock = stock /\ new.benchmark = benchmark /\ new.material = served /\ new.bundle = b
  BY <1>3
<1>9. IsTree(new)
  BY <1>3, <1>7, <1>8 DEF IsTree
<1>10. StoreFor(new, date)
  BY <1>5, <1>6, <1>8 DEF StoreFor
<1> QED BY <1>4, <1>9, <1>10

LEMMA MaterializeKeeps == ASSUME AcquisitionInv, NEW r \in Runs, Source!Materialize(r) PROVE AcquisitionInv'
<1>1. PICK j : j = job[r]
  OBVIOUS
<1>2. j \notin {None, Over} /\ j.at = "materialize"
  BY <1>1 DEF Source!Materialize, Source!At
<1>3. IsAcquisition(j)
  BY <1>1, <1>2 DEF AcquisitionInv, AcquisitionOk
<1>4. CASE Source!Fail(r)
  BY <1>4, FailKeeps
<1>5. CASE ~Source!Fail(r)
  <2>1. PICK material : /\ Source!Sufficient(j.tree, j.date) /\ main' = main
                        /\ job' = [job EXCEPT ![r].at = "build",
                                     ![r].tree = Source!MaterializedTree(j.tree, j.date, material)]
    BY <1>1, <1>5 DEF Source!Materialize
  <2>2. PICK tree, k : /\ tree = Source!MaterializedTree(j.tree, j.date, material)
                       /\ k = [j EXCEPT !.at = "build", !.tree = tree]
    OBVIOUS
  <2>3. job' = [job EXCEPT ![r] = k]
    BY <1>1, <2>1, <2>2 DEF AcquisitionInv
  <2>4. j.date \in Source!Sessions /\ IsTree(j.tree)
    BY <1>3 DEF IsAcquisition
  <2>5. IsTree(tree) /\ StoreFor(tree, j.date)
    BY <2>1, <2>2, <2>4, MaterializedOk
  <2>6. k = [at |-> "build", base |-> j.base, date |-> j.date, cadence |-> j.cadence, tree |-> tree]
    <3>1. PICK base, date, cadence, old :
            j = [at |-> "materialize", base |-> base, date |-> date, cadence |-> cadence, tree |-> old]
      BY <1>2, <1>3 DEF IsAcquisition
    <3>2. k = [at |-> "build", base |-> base, date |-> date, cadence |-> cadence, tree |-> tree]
      BY <2>2, <3>1
    <3> QED BY <3>1, <3>2
  <2>7. k.at = "build" /\ k.date = j.date /\ k.tree = tree /\ IsAcquisition(k)
    BY <2>4, <2>5, <2>6 DEF IsAcquisition
  <2>8. AcquisitionOk(k)
    BY <2>5, <2>7 DEF AcquisitionOk
  <2>9. IsTree(main') /\ TreeSound(main')
    BY <2>1 DEF AcquisitionInv
  <2> QED BY <2>3, <2>8, <2>9, JobStep
<1> QED BY <1>4, <1>5

(* The bundle a job assembles is of its date.                              *)
LEMMA BuildKeeps == ASSUME AcquisitionInv, NEW r \in Runs, Source!Build(r) PROVE AcquisitionInv'
<1>1. PICK j : j = job[r]
  OBVIOUS
<1>2. j \notin {None, Over} /\ j.at = "build"
  BY <1>1 DEF Source!Build, Source!At
<1>3. IsAcquisition(j) /\ StoreFor(j.tree, j.date)
  BY <1>1, <1>2 DEF AcquisitionInv, AcquisitionOk
<1>4. CASE Source!Fail(r)
  BY <1>4, FailKeeps
<1>5. CASE ~Source!Fail(r)
  <2>1. PICK current, got, daily :
          /\ daily = DailyOf(j.tree, j.date, j.cadence, current)
          /\ ~Source!CadenceBlocked(j.cadence)
          /\ Source!Assembled(j.tree, j.date, got, daily)
          /\ job' = [job EXCEPT ![r].at = "push", ![r].tree.bundle =
                       [date |-> j.date, cadence |-> j.cadence, daily |-> daily,
                        history |-> [s \in Symbols |-> Source!PersistedStockHistory(j.tree, s, j.date)]]]
          /\ main' = main
    BY <1>1, <1>5 DEF Source!Build, DailyOf
  <2>2. PICK history : history = [s \in Symbols |-> Source!PersistedStockHistory(j.tree, s, j.date)]
    OBVIOUS
  <2>3. PICK b : b = [date |-> j.date, cadence |-> j.cadence, daily |-> daily, history |-> history]
    OBVIOUS
  <2>4. PICK k : k = [j EXCEPT !.at = "push", !.tree.bundle = b]
    OBVIOUS
  <2>5. job' = [job EXCEPT ![r] = k]
    BY <1>1, <2>1, <2>2, <2>3, <2>4 DEF AcquisitionInv
  <2>6. PICK st, be, ma, bu, old : /\ j.tree = old
                                   /\ old = [stock |-> st, benchmark |-> be, material |-> ma, bundle |-> bu]
    BY <1>3 DEF IsAcquisition, IsTree
  <2>7. PICK new : new = [stock |-> st, benchmark |-> be, material |-> ma, bundle |-> b]
    OBVIOUS
  <2>8. new = [old EXCEPT !.bundle = b]
    BY <2>6, <2>7
  <2>9. PICK base, date, cadence :
          j = [at |-> "build", base |-> base, date |-> date, cadence |-> cadence, tree |-> old]
    BY <1>2, <1>3, <2>6 DEF IsAcquisition
  <2>10. k = [at |-> "push", base |-> base, date |-> date, cadence |-> cadence, tree |-> new]
    BY <2>4, <2>8, <2>9
  <2>11. j.date = date /\ j.cadence = cadence /\ date \in Source!Sessions /\ IsTree(old) /\ StoreFor(old, date)
    BY <1>3, <2>6, <2>9 DEF IsAcquisition
  <2>12. new.stock = old.stock /\ new.benchmark = old.benchmark /\ new.material = ma /\ new.bundle = b
    BY <2>6, <2>7
  <2>13. IsTree(new)
    BY <2>7, <2>11, <2>12 DEF IsTree
  <2>14. b.date = date /\ b.cadence = cadence /\ b.daily = daily /\ b.history = history
    BY <2>3, <2>11
  <2>15. daily = [m \in Source!Markets |-> date]
    <3>1. Source!JoinComplete(old, date, got, daily)
      BY <2>1, <2>6, <2>11 DEF Source!Assembled
    <3>2. daily = DailyOf(old, date, cadence, current)
      BY <2>1, <2>6, <2>11
    <3> QED BY <3>1, <3>2, DailyRows
  <2>16. \A s \in Symbols : Source!Max(b.history[s]) = date
    BY <2>2, <2>6, <2>11, <2>14, LiveRowIsLast
  <2>17. StoreFor(new, date)
    BY <2>11, <2>12 DEF StoreFor
  <2>18. ~Source!CadenceBlocked(cadence)
    BY <2>1, <2>11
  <2>19. TreeSound(new)
    BY <2>12, <2>14, <2>15, <2>16, <2>17, <2>18 DEF TreeSound
  <2>20. k.at = "push" /\ k.date = date /\ k.tree = new /\ IsAcquisition(k)
    BY <2>10, <2>11, <2>13 DEF IsAcquisition
  <2>21. AcquisitionOk(k)
    BY <2>19, <2>20 DEF AcquisitionOk
  <2>22. IsTree(main') /\ TreeSound(main')
    BY <2>1 DEF AcquisitionInv
  <2> QED BY <2>5, <2>21, <2>22, JobStep
<1> QED BY <1>4, <1>5

LEMMA PushKeeps == ASSUME AcquisitionInv, NEW r \in Runs, Source!Push(r) PROVE AcquisitionInv'
<1>1. CASE Source!Fail(r)
  BY <1>1, FailKeeps
<1>2. CASE ~Source!Fail(r)
  <2>1. /\ job[r] \notin {None, Over} /\ job[r].at = "push"
        /\ main' = job[r].tree /\ job' = [job EXCEPT ![r] = Over]
    BY <1>2 DEF Source!Push, Source!At
  <2>2. AcquisitionOk(job[r])
    BY DEF AcquisitionInv
  <2>3. IsTree(job[r].tree) /\ TreeSound(job[r].tree)
    BY <2>1, <2>2 DEF AcquisitionOk, IsAcquisition
  <2> QED BY <2>1, <2>3, OverKeeps
<1> QED BY <1>1, <1>2

LEMMA AcquisitionStep == AcquisitionInv /\ [Source!Next]_acquisition => AcquisitionInv'
<1> SUFFICES ASSUME AcquisitionInv, [Source!Next]_acquisition PROVE AcquisitionInv'
  OBVIOUS
<1>1. CASE Source!Close \/ Source!NextDay \/ UNCHANGED acquisition
  BY <1>1, QuietAcquisition DEF Source!Close, Source!NextDay, acquisition
<1>2. ASSUME NEW r \in Runs, Source!Fault(r) PROVE AcquisitionInv'
  BY <1>2, FailKeeps DEF Source!Fault
<1>3. ASSUME NEW r \in Runs, NEW date \in Source!Sessions, NEW cadence \in Requested,
             Source!Dispatch(r, date, cadence)
      PROVE  AcquisitionInv'
  BY <1>3, DispatchKeeps
<1> QED BY <1>1, <1>2, <1>3, MaterializeKeeps, BuildKeeps, PushKeeps DEF Source!Next

LEMMA AcquisitionInit == Source!Init => AcquisitionInv
<1> SUFFICES ASSUME Source!Init PROVE AcquisitionInv
  OBVIOUS
<1>1. /\ job = [r \in Runs |-> None]
      /\ main = [stock |-> [s \in Symbols |-> {}], benchmark |-> [m \in Source!Markets |-> {}],
                 material |-> [d \in Source!Sessions |-> "absent"], bundle |-> None]
  BY DEF Source!Init
<1>2. IsTree(main)
  BY <1>1 DEF IsTree
<1>3. TreeSound(main)
  BY <1>1 DEF TreeSound
<1>4. job \in [Runs -> {job[r] : r \in Runs}] /\ \A r \in Runs : AcquisitionOk(job[r])
  BY <1>1 DEF AcquisitionOk
<1> QED BY <1>2, <1>3, <1>4 DEF AcquisitionInv

(* The inductive invariant of the acquisitions: what a job has made so far *)
(* is for its date, whatever main and the exchanges do meanwhile.          *)
THEOREM AcquisitionInvariant == EitherSpec => []AcquisitionInv
<1>1. EitherInit => AcquisitionInv
  BY AcquisitionInit DEF EitherInit
<1>2. AcquisitionInv /\ [EitherNext]_<< part, vars, acquisition >> => AcquisitionInv'
  <2> SUFFICES ASSUME AcquisitionInv, [EitherNext]_<< part, vars, acquisition >> PROVE AcquisitionInv'
    OBVIOUS
  <2>1. [Source!Next]_acquisition
    BY DEF EitherNext
  <2> QED BY <2>1, AcquisitionStep
<1> QED BY <1>1, <1>2, PTL DEF EitherSpec

(* A bundle on main is of its date in both markets, on histories that are  *)
(* whole, not too long and of the sessions before it: for any universe,    *)
(* calendar, retention and number of jobs.                                 *)
THEOREM SourcesSound == EitherSpec => []SourceSound
<1>1. AcquisitionInv => SourceSound
  <2> SUFFICES ASSUME AcquisitionInv, main.bundle # None PROVE Source!SourceSound
    BY DEF SourceSound, Source!SourceSound
  <2>1. PICK b : b = main.bundle
    OBVIOUS
  <2>2. /\ StoreFor(main, b.date)
        /\ ~Source!CadenceBlocked(b.cadence)
        /\ b.daily = [m \in Source!Markets |-> b.date]
        /\ \A s \in Symbols : Source!Max(b.history[s]) = b.date
    BY <2>1 DEF AcquisitionInv, TreeSound
  <2>3. /\ \A s \in Symbols : /\ Source!Cardinality(main.stock[s]) \in MinSessions .. MaxSessions
                              /\ Source!Max(main.stock[s]) < b.date
        /\ \A m \in Source!Markets : /\ Source!Cardinality(main.benchmark[m]) \in MinSessions .. MaxSessions
                                     /\ Source!Max(main.benchmark[m]) < b.date
    BY <2>2, LastBefore DEF StoreFor, HistoryFor
  <2> QED BY <2>1, <2>2, <2>3 DEF Source!SourceSound
<1> QED BY <1>1, AcquisitionInvariant, PTL

(* What TLC explores of the publication are behaviours of RefreshCommit,   *)
(* so all that is proved of Spec holds of them.                            *)
THEOREM PublicationFollows == EitherSpec => Spec
<1>1. EitherInit => Init
  BY DEF EitherInit
<1>2. [EitherNext]_<< part, vars, acquisition >> => [Next]_vars
  BY DEF EitherNext
<1> QED BY <1>1, <1>2, PTL DEF EitherSpec, Spec
=============================================================================
