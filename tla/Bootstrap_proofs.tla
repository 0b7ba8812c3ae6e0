-------------------------- MODULE Bootstrap_proofs --------------------------
(***************************************************************************)
(* Proofs about Bootstrap, for any authorizations, targets and days.       *)
(*                                                                         *)
(* What a bootstrap writes was decided on earlier, when it looked at the   *)
(* slot: BootInv keeps what it found true while it works, which rests on   *)
(* one of them working at a time and no publication coming in between, and *)
(* what a call that died on the way leaves, which the next one meets.      *)
(***************************************************************************)
EXTENDS Bootstrap, FiniteSetTheorems, TLAPS

RebaselinePhases == {"off", "inspect", "stage", "promote", "point", "repair"}
RecoveryPhases == {"off", "inspect", "directory", "state", "persist", "manifest", "latest", "record"}

(* Each kind of authorization has its own steps, and one is at work.       *)
OneAtWork ==
  /\ \A a \in Rebaselines : pc[a] \in RebaselinePhases
  /\ \A a \in Recoveries : pc[a] \in RecoveryPhases
  /\ \A a, b \in Authorizations : pc[a] \in Working /\ pc[b] \in Working => a = b

(* Files are in directories; the consumption evidence is a rebaseline's.   *)
FilesKept ==
  \A s \in Slots :
    /\ s \notin directories => files[s] = EmptySlot
    /\ files[s]["consumption"] \in Rebaselines \cup {None}

(* Whoever wrote it, a manifest comes last.                                *)
ManifestLast == \A s \in Slots : files[s]["manifest"] # None => Loadable(s)

(* What a rebaseline found in its slot, and has put there since.           *)
RebaselineAt(a) ==
  /\ pc[a] = "stage" => staged[a] < Cardinality(Package)
  /\ pc[a] = "promote" => staged[a] = Cardinality(Package)
  /\ pc[a] \in {"stage", "promote"} => Target[a] \notin directories
  /\ pc[a] \in {"point", "repair"} => SlotIsPackageOf(Target[a], a)
  /\ pc[a] = "repair" => RepairEligible(a)

(* What a recovery has written by its place, and has not.                  *)
RecoveryAt(a) ==
  LET written == CASE pc[a] = "persist" -> {"state"}
                   [] pc[a] = "manifest" -> {"state", "persist"}
                   [] pc[a] \in {"latest", "record"} -> {"state", "persist", "manifest"}
                   [] OTHER -> {}
  IN  /\ pc[a] \in Working \ {"inspect"} =>
           \A f \in Package : files[Target[a]][f] = IF f \in written THEN a ELSE None
      /\ pc[a] \in Working \ {"inspect", "directory"} => Target[a] \in directories

BootInv ==
  /\ TypeOK /\ OneAtWork /\ FilesKept /\ ManifestLast
  /\ \A a \in Rebaselines : RebaselineAt(a)
  /\ \A a \in Recoveries : RecoveryAt(a)
  /\ BootstrapSound

-----------------------------------------------------------------------------
(* What the steps rely on of the slots, of the package and of the order.   *)
LEMMA SlotsAreNumbers == Slots \subseteq Int
BY LastDayIsNatural DEF Slots, Baseline

LEMMA PackageHasFour == Cardinality(Package) = 4
<1>1. IsFiniteSet({"state"}) /\ Cardinality({"state"}) = 1
  BY FS_Singleton
<1>2. IsFiniteSet({"state", "persist"}) /\ Cardinality({"state", "persist"}) = 2
  <2>1. {"state", "persist"} = {"state"} \cup {"persist"} /\ "persist" \notin {"state"}
    OBVIOUS
  <2>2. QED
    BY <1>1, <2>1, FS_AddElement
<1>3. IsFiniteSet({"state", "persist", "consumption"}) /\ Cardinality({"state", "persist", "consumption"}) = 3
  <2>1. /\ {"state", "persist", "consumption"} = {"state", "persist"} \cup {"consumption"}
        /\ "consumption" \notin {"state", "persist"}
    OBVIOUS
  <2>2. QED
    BY <1>2, <2>1, FS_AddElement
<1>4. /\ Package = {"state", "persist", "consumption"} \cup {"manifest"}
      /\ "manifest" \notin {"state", "persist", "consumption"}
  BY DEF Package
<1>5. QED
  BY <1>3, <1>4, FS_AddElement

LEMMA AllStaged == FirstStaged(4) = Package
BY DEF FirstStaged, Package

LEMMA RecoverySteps ==
  /\ RecoveryOrder[1] = "directory" /\ After("directory") = "state"
  /\ After("state") = "persist" /\ After("persist") = "manifest"
  /\ After("manifest") = "latest" /\ After("latest") = "record" /\ After("record") = "off"
<1>1. /\ DOMAIN RecoveryOrder = 1 .. 6 /\ Len(RecoveryOrder) = 6
      /\ RecoveryOrder[1] = "directory" /\ RecoveryOrder[2] = "state"
      /\ RecoveryOrder[3] = "persist" /\ RecoveryOrder[4] = "manifest"
      /\ RecoveryOrder[5] = "latest" /\ RecoveryOrder[6] = "record"
  BY DEF RecoveryOrder
<1>2. ASSUME NEW i \in 1 .. 6
      PROVE  (CHOOSE k \in DOMAIN RecoveryOrder : RecoveryOrder[k] = RecoveryOrder[i]) = i
  BY <1>1
<1>3. ASSUME NEW i \in 1 .. 6
      PROVE  After(RecoveryOrder[i]) = IF i = 6 THEN "off" ELSE RecoveryOrder[i + 1]
  BY <1>1, <1>2 DEF After
<1>4. QED
  BY <1>1, <1>3

-----------------------------------------------------------------------------
LEMMA BootInit == ASSUME BootstrapConstants PROVE Init => BootInv
<1> SUFFICES ASSUME Init PROVE BootInv
  OBVIOUS
<1> USE DEF Init
<1>1. Cardinality(Package) = 4 /\ Slots \subseteq Int
  BY PackageHasFour, SlotsAreNumbers
<1>2. \A s \in Slots, f \in Package : files[s][f] = None
  BY DEF EmptySlot
<1>3. TypeOK
  BY <1>1 DEF TypeOK, EmptySlot, Phases, Working
<1>4. OneAtWork
  BY DEF OneAtWork, RebaselinePhases, RecoveryPhases, Working, Authorizations
<1>5. FilesKept /\ ManifestLast
  BY <1>2 DEF FilesKept, ManifestLast, Package
<1>6. /\ \A a \in Rebaselines : RebaselineAt(a)
      /\ \A a \in Recoveries : RecoveryAt(a)
  BY DEF RebaselineAt, RecoveryAt, Working, Authorizations
<1>7. BootstrapSound
  BY <1>2 DEF BootstrapSound, PackageWhole, LatestLoads, RecordedIsPublished, BootstrapConstants, Writers, Authorizations
<1>8. QED
  BY <1>3, <1>4, <1>5, <1>6, <1>7 DEF BootInv

(* Who moves is alone: nothing is asked of the others.                     *)
LEMMA Alone ==
  ASSUME BootstrapConstants, BootInv, NEW a \in Authorizations, pc[a] \in Working \/ ~Busy,
         NEW phase, Goto(a, phase),
         a \in Rebaselines => phase \in RebaselinePhases,
         a \in Recoveries => phase \in RecoveryPhases
  PROVE  /\ pc' \in [Authorizations -> Phases] /\ pc'[a] = phase
         /\ OneAtWork'
         /\ \A b \in Authorizations \ {a} :
              /\ pc[b] = "off" /\ pc'[b] = "off"
              /\ RebaselineAt(b)' /\ RecoveryAt(b)'
<1> USE DEF BootInv
<1>1. \A b \in Authorizations \ {a} : pc[b] = "off"
  BY DEF OneAtWork, Busy, TypeOK, Phases
<1>2. /\ pc' \in [Authorizations -> Phases] /\ pc'[a] = phase
      /\ \A b \in Authorizations \ {a} : pc'[b] = "off"
  BY <1>1 DEF Goto, TypeOK, Phases, Working, RebaselinePhases, RecoveryPhases, Authorizations
<1>3. OneAtWork'
  BY <1>2 DEF OneAtWork, Authorizations, Working, RebaselinePhases, RecoveryPhases, BootstrapConstants
<1>4. ASSUME NEW b \in Authorizations \ {a} PROVE RebaselineAt(b)' /\ RecoveryAt(b)'
  BY <1>2 DEF RebaselineAt, RecoveryAt, Working
<1>5. QED
  BY <1>1, <1>2, <1>3, <1>4

(* A step that touches no file, directory, record or pointer.              *)
LEMMA QuietStep ==
  ASSUME BootstrapConstants, BootInv, NEW a \in Authorizations, pc[a] \in Working \/ ~Busy,
         NEW phase, Goto(a, phase),
         a \in Rebaselines => phase \in RebaselinePhases,
         a \in Recoveries => phase \in RecoveryPhases,
         UNCHANGED << directories, files, recorded, latest >>,
         staged' \in [Rebaselines -> 0 .. Cardinality(Package)],
         a \in Rebaselines => RebaselineAt(a)',
         a \in Recoveries => RecoveryAt(a)'
  PROVE  BootInv'
<1>1. TypeOK'
  BY Alone DEF BootInv, TypeOK
<1>2. /\ \A b \in Rebaselines : RebaselineAt(b)'
      /\ \A b \in Recoveries : RecoveryAt(b)'
  BY Alone DEF Authorizations
<1>3. FilesKept' /\ ManifestLast' /\ BootstrapSound'
  BY DEF BootInv, FilesKept, ManifestLast, Loadable, BootstrapSound, PackageWhole, SlotIsPackageOf,
         LatestLoads, RecordedIsPublished
<1>4. QED
  BY <1>1, <1>2, <1>3, Alone DEF BootInv

(* A slot without a manifest is written: what it holds now comes from one  *)
(* writer, or has no manifest yet; every other slot stays as it is.        *)
LEMMA SlotWritten ==
  ASSUME BootstrapConstants, BootInv, NEW s \in Slots, files[s]["manifest"] = None,
         NEW now \in [Package -> Writers \cup {None}], files' = [files EXCEPT ![s] = now],
         directories' = directories \cup {s},
         now["consumption"] \in Rebaselines \cup {None},
         \A a \in Rebaselines : (\E f \in Package : now[f] = a) => \A f \in Package : now[f] = a,
         now["manifest"] # None =>
           /\ now["state"] = now["manifest"] /\ now["persist"] = now["manifest"]
           /\ now["manifest"] \in Rebaselines => now["consumption"] = now["manifest"],
         recorded' = recorded
  PROVE  /\ files' \in [Slots -> [Package -> Writers \cup {None}]]
         /\ files'[s] = now /\ \A t \in Slots \ {s} : files'[t] = files[t]
         /\ directories' \in SUBSET Slots
         /\ FilesKept' /\ ManifestLast' /\ PackageWhole' /\ RecordedIsPublished'
         /\ latest' = latest => LatestLoads'
         /\ Loadable(s)' <=> now["manifest"] # None
<1> USE DEF BootInv
<1>1. /\ files \in [Slots -> [Package -> Writers \cup {None}]]
      /\ \A w \in Writers : w # None
  BY DEF TypeOK, BootstrapConstants
<1>2. /\ files' \in [Slots -> [Package -> Writers \cup {None}]]
      /\ files'[s] = now /\ \A t \in Slots \ {s} : files'[t] = files[t]
  BY <1>1
<1>3. /\ Loadable(s)' <=> now["manifest"] # None
      /\ \A t \in Slots \ {s} : Loadable(t)' <=> Loadable(t)
  BY <1>2 DEF Loadable
<1>4. FilesKept'
  BY <1>2 DEF FilesKept
<1>5. ManifestLast'
  BY <1>2, <1>3 DEF ManifestLast
<1>6. PackageWhole'
  BY <1>2 DEF BootstrapSound, PackageWhole, SlotIsPackageOf
<1>7. RecordedIsPublished'
  <2> SUFFICES ASSUME NEW a \in recorded
               PROVE  files'[Target[a]]["manifest"] = a /\ Loadable(Target[a])'
    BY DEF RecordedIsPublished
  <2>1. /\ files[Target[a]]["manifest"] = a /\ Loadable(Target[a])
        /\ Target[a] \in Slots /\ a # None
    BY <1>1 DEF BootstrapSound, RecordedIsPublished, TypeOK, BootstrapConstants, Authorizations, Writers
  <2>2. QED
    BY <1>2, <1>3, <2>1
<1>8. ASSUME latest' = latest PROVE LatestLoads'
  <2> SUFFICES ASSUME latest # None
               PROVE  Loadable(latest.slot)' /\ files'[latest.slot]["manifest"] = latest.state
    BY <1>8 DEF LatestLoads
  <2>1. /\ Loadable(latest.slot) /\ files[latest.slot]["manifest"] = latest.state
        /\ latest.slot \in Slots /\ latest.state # None
    BY <1>1 DEF BootstrapSound, LatestLoads, TypeOK
  <2>2. QED
    BY <1>2, <1>3, <1>8, <2>1 DEF Loadable
<1>9. directories' \in SUBSET Slots
  BY DEF TypeOK
<1>10. QED
  BY <1>2, <1>3, <1>4, <1>5, <1>6, <1>7, <1>8, <1>9

(* LATEST is moved to the slot's state, once it loads.                     *)
LEMMA LatestWritten ==
  ASSUME BootstrapConstants, BootInv, NEW a \in Authorizations,
         Loadable(Target[a]), files[Target[a]]["manifest"] = a,
         latest' = [slot |-> Target[a], state |-> a], UNCHANGED files
  PROVE  LatestLoads' /\ latest' \in [slot : Slots, state : Writers] \cup {None}
BY DEF LatestLoads, Loadable, BootstrapConstants, Writers, Authorizations

(* A package of a rebaseline loads.                                        *)
LEMMA PackageLoads ==
  ASSUME BootstrapConstants, NEW a \in Rebaselines, SlotIsPackageOf(Target[a], a)
  PROVE  Loadable(Target[a]) /\ files[Target[a]]["manifest"] = a
BY DEF Loadable, SlotIsPackageOf, Package, BootstrapConstants, Writers, Authorizations

-----------------------------------------------------------------------------
(* The steps that write nothing: a dispatch, an inspection of either kind, *)
(* a file more in the staging directory, the end of a call that dies.      *)
LEMMA InspectStep ==
  ASSUME BootstrapConstants, BootInv, NEW a \in Authorizations,
         Dispatch(a) \/ InspectSlot(a) \/ InspectRecovery(a) \/ StageFile(a) \/ Interrupt(a)
  PROVE  BootInv'
<1> USE DEF BootInv
<1>1. CASE Dispatch(a)
  BY <1>1, QuietStep DEF Dispatch, RebaselinePhases, RecoveryPhases, RebaselineAt, RecoveryAt,
                         Goto, TypeOK, Working
<1>2. CASE Interrupt(a)
  BY <1>2, QuietStep DEF Interrupt, RebaselinePhases, RecoveryPhases, RebaselineAt, RecoveryAt,
                         Goto, TypeOK, Working
<1>3. CASE InspectSlot(a)
  <2> USE <1>3 DEF InspectSlot
  <2>1. a \in Rebaselines /\ a \notin Recoveries /\ pc[a] \in Working
    BY DEF BootstrapConstants, Working
  <2>2. PICK phase \in {"off", "stage", "repair"} :
          /\ Goto(a, phase)
          /\ staged' \in [Rebaselines -> 0 .. Cardinality(Package)]
          /\ phase = "stage" => Target[a] \notin directories /\ staged'[a] = 0
          /\ phase = "repair" => SlotIsPackageOf(Target[a], a) /\ RepairEligible(a)
    BY <2>1, PackageHasFour DEF TypeOK
  <2>3. pc'[a] = phase
    BY <2>2 DEF Goto, TypeOK
  <2>4. RebaselineAt(a)'
    BY <2>2, <2>3, PackageHasFour DEF RebaselineAt, SlotIsPackageOf, RepairEligible, NewerExists, LatestUpTo
  <2>5. QED
    BY <2>1, <2>2, <2>4, QuietStep DEF RebaselinePhases
<1>4. CASE InspectRecovery(a)
  <2> USE <1>4 DEF InspectRecovery
  <2>1. a \in Recoveries /\ a \notin Rebaselines /\ pc[a] \in Working
    BY DEF BootstrapConstants, Working
  <2>2. PICK phase \in {"off", "directory"} :
          /\ Goto(a, phase)
          /\ phase = "directory" => RecoveryAllowed(a)
    BY RecoverySteps
  <2>3. pc'[a] = phase
    BY <2>2 DEF Goto, TypeOK
  <2>4. ASSUME RecoveryAllowed(a) PROVE \A f \in Package : files[Target[a]][f] = None
    <3>1. /\ Target[a] \in Slots
          /\ files[Target[a]]["state"] = None
          /\ files[Target[a]]["consumption"] \in Rebaselines \cup {None}
      BY <2>4 DEF RecoveryAllowed, BootstrapConstants, FilesKept, Package
    <3>2. files[Target[a]]["consumption"] = None
      BY <3>1 DEF BootstrapSound, PackageWhole, SlotIsPackageOf, Package, BootstrapConstants, Writers, Authorizations
    <3>3. QED
      BY <2>4, <3>2 DEF RecoveryAllowed, Package
  <2>5. RecoveryAt(a)'
    BY <2>2, <2>3, <2>4 DEF RecoveryAt, Working
  <2>6. QED
    BY <2>1, <2>2, <2>5, QuietStep DEF RecoveryPhases, TypeOK
<1>5. CASE StageFile(a)
  <2> USE <1>5 DEF StageFile
  <2>1. a \in Rebaselines /\ a \notin Recoveries /\ pc[a] = "stage" /\ pc[a] \in Working
    BY DEF OneAtWork, RecoveryPhases, Authorizations, BootstrapConstants, Working
  <2>2. staged[a] \in 0 .. 3 /\ Target[a] \notin directories
    BY <2>1, PackageHasFour DEF RebaselineAt, TypeOK
  <2>3. /\ staged' \in [Rebaselines -> 0 .. Cardinality(Package)]
        /\ staged'[a] = staged[a] + 1
    BY <2>1, <2>2, PackageHasFour DEF TypeOK
  <2>4. PICK phase \in {"stage", "promote"} :
          /\ Goto(a, phase)
          /\ phase = "promote" <=> staged'[a] = 4
    BY <2>1, <2>3, PackageHasFour
  <2>5. pc'[a] = phase
    BY <2>4 DEF Goto, TypeOK
  <2>6. RebaselineAt(a)'
    BY <2>2, <2>3, <2>4, <2>5, PackageHasFour DEF RebaselineAt
  <2>7. QED
    BY <2>1, <2>3, <2>4, <2>6, QuietStep DEF RebaselinePhases
<1>6. QED
  BY <1>1, <1>2, <1>3, <1>4, <1>5

(* The package appears at once, in a slot that was not there.              *)
LEMMA PromoteStep ==
  ASSUME BootstrapConstants, BootInv, NEW a \in Authorizations, Promote(a)
  PROVE  BootInv'
<1> USE DEF BootInv, Promote
<1>1. a \in Rebaselines /\ a \notin Recoveries /\ pc[a] \in Working /\ a # None
  BY DEF OneAtWork, RecoveryPhases, Authorizations, BootstrapConstants, Working, Writers
<1>2. Target[a] \in Slots /\ Target[a] \notin directories /\ staged[a] = 4
  BY <1>1, PackageHasFour DEF RebaselineAt, BootstrapConstants
<1>3. files[Target[a]]["manifest"] = None
  BY <1>2 DEF FilesKept, EmptySlot, Package
<1>4. files' = [files EXCEPT ![Target[a]] = [f \in Package |-> a]]
  BY <1>2, AllStaged
<1> DEFINE now == [f \in Package |-> a]
<1>5. /\ now \in [Package -> Writers \cup {None}]
      /\ \A f \in Package : now[f] = a
      /\ "state" \in Package /\ "persist" \in Package /\ "consumption" \in Package /\ "manifest" \in Package
  BY DEF Writers, Package
<1> HIDE DEF now
<1>6. /\ files' \in [Slots -> [Package -> Writers \cup {None}]]
      /\ files'[Target[a]] = now
      /\ directories' \in SUBSET Slots
      /\ FilesKept' /\ ManifestLast' /\ PackageWhole' /\ RecordedIsPublished' /\ LatestLoads'
  BY <1>1, <1>2, <1>3, <1>4, <1>5, SlotWritten DEF now
<1>7. Goto(a, "point") /\ "point" \in RebaselinePhases
  BY DEF RebaselinePhases
<1>8. /\ pc' \in [Authorizations -> Phases] /\ pc'[a] = "point" /\ OneAtWork'
      /\ \A b \in Authorizations \ {a} : RebaselineAt(b)' /\ RecoveryAt(b)'
  BY <1>1, <1>7, Alone
<1>9. RebaselineAt(a)'
  BY <1>5, <1>6, <1>8 DEF RebaselineAt, SlotIsPackageOf
<1>10. TypeOK'
  BY <1>1, <1>6, <1>8, PackageHasFour DEF TypeOK
<1>11. QED
  BY <1>1, <1>6, <1>8, <1>9, <1>10 DEF BootstrapSound, Authorizations

(* LATEST follows, after a promotion and as a repair.                      *)
LEMMA PointStep ==
  ASSUME BootstrapConstants, BootInv, NEW a \in Authorizations, PointLatest(a) \/ RepairLatest(a)
  PROVE  BootInv'
<1> USE DEF BootInv, PointLatest, RepairLatest
<1>1. a \in Rebaselines /\ a \notin Recoveries /\ pc[a] \in Working /\ pc[a] \in {"point", "repair"}
  BY DEF OneAtWork, RecoveryPhases, Authorizations, BootstrapConstants, Working
<1>2. LatestLoads' /\ latest' \in [slot : Slots, state : Writers] \cup {None}
  BY <1>1, PackageLoads, LatestWritten DEF RebaselineAt
<1>3. Goto(a, "off") /\ "off" \in RebaselinePhases
  BY DEF RebaselinePhases
<1>4. /\ pc' \in [Authorizations -> Phases] /\ pc'[a] = "off" /\ OneAtWork'
      /\ \A b \in Authorizations \ {a} : RebaselineAt(b)' /\ RecoveryAt(b)'
  BY <1>1, <1>3, Alone
<1>5. RebaselineAt(a)'
  BY <1>4 DEF RebaselineAt
<1>6. TypeOK'
  BY <1>2, <1>4 DEF TypeOK
<1>7. FilesKept' /\ ManifestLast' /\ PackageWhole' /\ RecordedIsPublished'
  BY DEF FilesKept, ManifestLast, Loadable, BootstrapSound, PackageWhole, SlotIsPackageOf, RecordedIsPublished
<1>8. QED
  BY <1>1, <1>2, <1>4, <1>5, <1>6, <1>7 DEF BootstrapSound, Authorizations

(* The files of a recovery, one by one into its slot.                      *)
LEMMA RecoverStep ==
  ASSUME BootstrapConstants, BootInv, NEW a \in Authorizations,
         MakeDirectory(a) \/ WriteFile(a) \/ UpdateLatest(a) \/ RecordConsumption(a)
  PROVE  BootInv'
<1> USE DEF BootInv
<1>0. /\ a \in Recoveries /\ a \notin Rebaselines /\ a # None /\ a \in Writers
      /\ pc[a] \in Working \ {"inspect"}
      /\ Target[a] \in Slots
  BY DEF MakeDirectory, WriteFile, UpdateLatest, RecordConsumption, OneAtWork, RebaselinePhases,
         Authorizations, BootstrapConstants, Writers, Working
<1> DEFINE others(phase) ==
      /\ pc' \in [Authorizations -> Phases] /\ pc'[a] = phase /\ OneAtWork'
      /\ \A b \in Authorizations \ {a} : RebaselineAt(b)' /\ RecoveryAt(b)'
<1>1. ASSUME NEW phase \in RecoveryPhases, Goto(a, phase) PROVE others(phase)
  BY <1>0, <1>1, Alone
<1> HIDE DEF others
<1>2. CASE MakeDirectory(a)
  <2> USE <1>2 DEF MakeDirectory
  <2>1. others("state")
    BY <1>1, RecoverySteps DEF RecoveryPhases
  <2>2. RecoveryAt(a)'
    BY <1>0, <2>1 DEF RecoveryAt, others
  <2>3. TypeOK'
    BY <1>0, <2>1 DEF TypeOK, others
  <2>4. FilesKept' /\ ManifestLast' /\ BootstrapSound'
    BY DEF FilesKept, ManifestLast, Loadable, BootstrapSound, PackageWhole, SlotIsPackageOf,
           LatestLoads, RecordedIsPublished
  <2>5. QED
    BY <1>0, <2>1, <2>2, <2>3, <2>4 DEF Authorizations, others
<1>3. CASE WriteFile(a)
  <2> DEFINE now == [files[Target[a]] EXCEPT ![pc[a]] = a]
  <2>1. /\ recorded' = recorded /\ latest' = latest /\ staged' = staged
        /\ files' = [files EXCEPT ![Target[a]] = now]
        /\ directories' = directories \cup {Target[a]}
        /\ now \in [Package -> Writers \cup {None}]
        /\ \A f \in Package : now[f] = IF f = pc[a] THEN a ELSE files[Target[a]][f]
        /\ "state" \in Package /\ "persist" \in Package /\ "consumption" \in Package /\ "manifest" \in Package
    BY <1>0, <1>3 DEF WriteFile, TypeOK, Package, RecoveryAt, Working
  <2> HIDE DEF now
  <2>2. /\ files[Target[a]]["manifest"] = None
        /\ now["consumption"] \in Rebaselines \cup {None}
        /\ \A b \in Rebaselines : ~ \E f \in Package : now[f] = b
        /\ now["manifest"] # None =>
             /\ now["state"] = now["manifest"] /\ now["persist"] = now["manifest"]
             /\ now["manifest"] \notin Rebaselines
    <3>1. \A b \in Rebaselines : b # a /\ b # None
      BY <1>0 DEF BootstrapConstants, Writers, Authorizations
    <3>2. QED
      BY <1>0, <1>3, <2>1, <3>1 DEF WriteFile, RecoveryAt
  <2>3. /\ files' \in [Slots -> [Package -> Writers \cup {None}]]
        /\ files'[Target[a]] = now
        /\ directories' \in SUBSET Slots
        /\ FilesKept' /\ ManifestLast' /\ PackageWhole' /\ RecordedIsPublished' /\ LatestLoads'
    <3>1. \A b \in Rebaselines : (\E f \in Package : now[f] = b) => \A f \in Package : now[f] = b
      BY <2>2
    <3>2. /\ now["manifest"] # None =>
               /\ now["state"] = now["manifest"] /\ now["persist"] = now["manifest"]
               /\ now["manifest"] \in Rebaselines => now["consumption"] = now["manifest"]
      BY <2>2
    <3>3. PICK slot \in Slots : slot = Target[a]
      BY <1>0
    <3>4. files[slot]["manifest"] = None /\ files' = [files EXCEPT ![slot] = now]
      BY <2>1, <2>2, <3>3
    <3>5. directories' = directories \cup {slot}
      BY <2>1, <3>3
    <3>6. /\ files' \in [Slots -> [Package -> Writers \cup {None}]]
          /\ files'[slot] = now
          /\ directories' \in SUBSET Slots
          /\ FilesKept' /\ ManifestLast' /\ PackageWhole' /\ RecordedIsPublished' /\ LatestLoads'
      BY <2>1, <2>2, <3>1, <3>2, <3>4, <3>5, SlotWritten
    <3>7. QED
      BY <3>3, <3>6
  <2>4. PICK phase \in {"persist", "manifest", "latest"} :
          /\ Goto(a, phase)
          /\ pc[a] \in {"state", "persist", "manifest"}
          /\ pc[a] = "state" => phase = "persist"
          /\ pc[a] = "persist" => phase = "manifest"
          /\ pc[a] = "manifest" => phase = "latest"
    BY <1>3, RecoverySteps DEF WriteFile
  <2>5. others(phase)
    BY <1>1, <2>4 DEF RecoveryPhases
  <2>6. RecoveryAt(a)'
    BY <1>0, <2>1, <2>3, <2>4, <2>5 DEF RecoveryAt, others, Package
  <2>7. TypeOK'
    BY <2>1, <2>3, <2>5 DEF TypeOK, others
  <2>8. QED
    BY <1>0, <2>3, <2>5, <2>6, <2>7 DEF BootstrapSound, Authorizations, others
<1>4. CASE UpdateLatest(a)
  <2> USE <1>4 DEF UpdateLatest
  <2>1. others("record")
    BY <1>1, RecoverySteps DEF RecoveryPhases
  <2>2. Loadable(Target[a]) /\ files[Target[a]]["manifest"] = a
    BY <1>0 DEF RecoveryAt, Loadable, Package
  <2>3. LatestLoads' /\ latest' \in [slot : Slots, state : Writers] \cup {None}
    BY <2>2, LatestWritten DEF TypeOK, BootstrapSound, LatestLoads, Loadable
  <2>4. RecoveryAt(a)'
    BY <1>0, <2>1 DEF RecoveryAt, others
  <2>5. TypeOK'
    BY <2>1, <2>3 DEF TypeOK, others
  <2>6. FilesKept' /\ ManifestLast' /\ PackageWhole' /\ RecordedIsPublished'
    BY DEF FilesKept, ManifestLast, Loadable, BootstrapSound, PackageWhole, SlotIsPackageOf, RecordedIsPublished
  <2>7. QED
    BY <1>0, <2>1, <2>3, <2>4, <2>5, <2>6 DEF BootstrapSound, Authorizations, others
<1>5. CASE RecordConsumption(a)
  <2> USE <1>5 DEF RecordConsumption
  <2>1. others("off")
    BY <1>1, RecoverySteps DEF RecoveryPhases
  <2>2. Loadable(Target[a]) /\ files[Target[a]]["manifest"] = a
    BY <1>0 DEF RecoveryAt, Loadable, Package
  <2>3. RecordedIsPublished'
    BY <2>2 DEF BootstrapSound, RecordedIsPublished, Loadable
  <2>4. RecoveryAt(a)'
    BY <2>1 DEF RecoveryAt, others, Working
  <2>5. TypeOK'
    BY <1>0, <2>1 DEF TypeOK, others
  <2>6. FilesKept' /\ ManifestLast' /\ PackageWhole' /\ LatestLoads'
    BY DEF FilesKept, ManifestLast, Loadable, BootstrapSound, PackageWhole, SlotIsPackageOf, LatestLoads
  <2>7. QED
    BY <1>0, <2>1, <2>3, <2>4, <2>5, <2>6 DEF BootstrapSound, Authorizations, others
<1>6. QED
  BY <1>2, <1>3, <1>4, <1>5

(* A scheduled state, into an empty slot and while no bootstrap is at work. *)
LEMMA ScheduledStep ==
  ASSUME BootstrapConstants, BootInv, NEW slot \in Slots, PublishScheduled(slot)
  PROVE  BootInv'
<1> USE DEF BootInv, PublishScheduled
<1> DEFINE now == [f \in Package |-> IF f = "consumption" THEN None ELSE Scheduled]
<1>1. /\ now \in [Package -> Writers \cup {None}]
      /\ now["consumption"] = None
      /\ now["state"] = Scheduled /\ now["persist"] = Scheduled /\ now["manifest"] = Scheduled
      /\ \A b \in Rebaselines : \A f \in Package : now[f] # b
      /\ Scheduled # None /\ Scheduled \notin Rebaselines
  BY DEF Writers, Authorizations, Package, BootstrapConstants
<1>2. files[slot]["manifest"] = None /\ files' = [files EXCEPT ![slot] = now]
  BY DEF EmptySlot, Package
<1> HIDE DEF now
<1>3. /\ files' \in [Slots -> [Package -> Writers \cup {None}]]
      /\ files'[slot] = now
      /\ directories' \in SUBSET Slots
      /\ FilesKept' /\ ManifestLast' /\ PackageWhole' /\ RecordedIsPublished'
      /\ latest' = latest => LatestLoads'
      /\ Loadable(slot)'
  BY <1>1, <1>2, SlotWritten
<1>4. LatestLoads' /\ latest' \in [slot : Slots, state : Writers] \cup {None}
  <2>1. CASE UNCHANGED latest
    BY <1>3, <2>1 DEF TypeOK
  <2>2. CASE latest' = [slot |-> slot, state |-> Scheduled]
    BY <1>1, <1>3, <2>2 DEF LatestLoads, Loadable, Writers
  <2>3. QED
    BY <2>1, <2>2
<1>5. \A a \in Authorizations : pc[a] = "off" /\ pc'[a] = "off"
  BY DEF Busy, TypeOK, Phases
<1>6. /\ OneAtWork'
      /\ \A a \in Rebaselines : RebaselineAt(a)'
      /\ \A a \in Recoveries : RecoveryAt(a)'
  BY <1>5 DEF OneAtWork, RebaselinePhases, RecoveryPhases, Working, Authorizations, RebaselineAt, RecoveryAt
<1>7. TypeOK'
  BY <1>3, <1>4 DEF TypeOK
<1>8. QED
  BY <1>3, <1>4, <1>6, <1>7 DEF BootstrapSound

LEMMA BootNext == ASSUME BootstrapConstants PROVE BootInv /\ [Next]_vars => BootInv'
<1> SUFFICES ASSUME BootInv, [Next]_vars PROVE BootInv'
  OBVIOUS
<1>1. ASSUME NEW a \in Authorizations, Dispatch(a) \/ Rebaseline(a) \/ Recover(a) \/ Interrupt(a)
      PROVE  BootInv'
  BY <1>1, InspectStep, PromoteStep, PointStep, RecoverStep DEF Rebaseline, Recover
<1>2. CASE UNCHANGED vars
  BY <1>2 DEF vars, BootInv, TypeOK, OneAtWork, FilesKept, ManifestLast, Loadable, RebaselineAt,
              SlotIsPackageOf, RepairEligible, NewerExists, LatestUpTo, RecoveryAt,
              BootstrapSound, PackageWhole, LatestLoads, RecordedIsPublished
<1>3. QED
  BY <1>1, <1>2, ScheduledStep DEF Next

-----------------------------------------------------------------------------
(* BootInv holds in every state the bootstraps and the scheduled           *)
(* publications can reach, whatever dies.                                  *)
THEOREM BootstrapInvariant == ASSUME BootstrapConstants PROVE Spec => []BootInv
BY BootInit, BootNext, PTL DEF Spec

(* Packages whole or absent, a LATEST that loads, and evidence of          *)
(* consumption for what is published.                                      *)
THEOREM BootstrapsSound == ASSUME BootstrapConstants PROVE Spec => []BootstrapSound
<1>1. BootInv => BootstrapSound
  BY DEF BootInv
<1>2. QED
  BY <1>1, BootstrapInvariant, PTL

(* No step writes into a slot that has its manifest.                       *)
LEMMA SlotKept ==
  ASSUME BootstrapConstants, BootInv, Next, NEW s \in Slots, files[s]["manifest"] # None
  PROVE  files'[s] = files[s]
<1> USE DEF BootInv
<1>1. ASSUME NEW a \in Authorizations, Promote(a) PROVE files'[s] = files[s]
  <2>1. a \in Rebaselines /\ Target[a] \notin directories
    BY <1>1 DEF Promote, OneAtWork, RecoveryPhases, Authorizations, RebaselineAt
  <2>2. s \in directories
    BY DEF FilesKept, EmptySlot, Package
  <2>3. QED
    BY <1>1, <2>1, <2>2 DEF Promote, TypeOK
<1>2. ASSUME NEW a \in Authorizations, WriteFile(a) PROVE files'[s] = files[s]
  <2>1. a \in Recoveries /\ files[Target[a]]["manifest"] = None
    BY <1>2 DEF WriteFile, OneAtWork, RebaselinePhases, Authorizations, RecoveryAt, Package, Working
  <2>2. QED
    BY <1>2, <2>1 DEF WriteFile, TypeOK
<1>3. ASSUME NEW slot \in Slots, PublishScheduled(slot) PROVE files'[s] = files[s]
  BY <1>3 DEF PublishScheduled, EmptySlot, Package, TypeOK
<1>4. QED
  BY <1>1, <1>2, <1>3 DEF Next, Rebaseline, Recover, Dispatch, InspectSlot, StageFile, PointLatest,
        RepairLatest, InspectRecovery, MakeDirectory, UpdateLatest, RecordConsumption, Interrupt

(* A slot that has its manifest is never written again.                    *)
THEOREM SlotsPublishedForGood == ASSUME BootstrapConstants PROVE Spec => PublishedForGood
<1>1. BootInv /\ [Next]_vars =>
        [\A s \in Slots : files[s]["manifest"] # None => files'[s] = files[s]]_vars
  BY SlotKept
<1>2. QED
  BY <1>1, BootstrapInvariant, PTL DEF Spec, PublishedForGood

(* A published authorization is not used again: its inspection finds the   *)
(* slot it wrote.                                                          *)
LEMMA InspectedOnce ==
  ASSUME BootstrapConstants, BootInv, Next, NEW a \in Authorizations,
         files[Target[a]]["manifest"] = a, pc[a] = "inspect"
  PROVE  pc'[a] \notin {"stage", "directory"}
<1> USE DEF BootInv
<1>1. /\ a # None /\ Target[a] \in Slots
      /\ files[Target[a]]["manifest"] # None
      /\ Target[a] \in directories
  BY DEF BootstrapConstants, Writers, FilesKept, EmptySlot, Package
<1>2. ASSUME NEW b \in Authorizations, Dispatch(b) \/ Rebaseline(b) \/ Recover(b) \/ Interrupt(b)
      PROVE  pc'[a] \notin {"stage", "directory"}
  <2>1. b = a
    BY <1>2 DEF Dispatch, Busy, Rebaseline, InspectSlot, StageFile, Promote, PointLatest, RepairLatest,
                Recover, InspectRecovery, MakeDirectory, WriteFile, UpdateLatest, RecordConsumption,
                Interrupt, OneAtWork, Working
  <2>2. CASE InspectSlot(a)
    BY <1>1, <2>2 DEF InspectSlot, Goto, TypeOK
  <2>3. CASE InspectRecovery(a)
    BY <1>1, <2>3 DEF InspectRecovery, RecoveryAllowed, Goto, TypeOK, Package
  <2>4. CASE Interrupt(a)
    BY <2>4 DEF Interrupt, Goto, TypeOK
  <2>5. QED
    BY <1>2, <2>1, <2>2, <2>3, <2>4 DEF Dispatch, Rebaseline, StageFile, Promote, PointLatest, RepairLatest,
         Recover, MakeDirectory, WriteFile, UpdateLatest, RecordConsumption, Working
<1>3. QED
  BY <1>2 DEF Next, PublishScheduled

(* An authorization whose state is published is never staged or written    *)
(* again, even when it died before that was recorded.                      *)
THEOREM AuthorizationsAreSingleUse == ASSUME BootstrapConstants PROVE Spec => SingleUse
<1>1. BootInv /\ [Next]_vars =>
        [\A a \in Authorizations :
           /\ files[Target[a]]["manifest"] = a
           /\ pc[a] = "inspect"
           => pc'[a] \notin {"stage", "directory"}]_vars
  BY InspectedOnce
<1>2. QED
  BY <1>1, BootstrapInvariant, PTL DEF Spec, SingleUse

(* What was found eligible for a repair is the newest state there is.      *)
LEMMA RepairedForward ==
  ASSUME BootstrapConstants, BootInv, Next, NEW a \in Rebaselines, pc[a] = "repair", latest' # latest
  PROVE  /\ \A s \in Slots : Loadable(s) => s <= latest'.slot
         /\ latest # None => latest.slot <= latest'.slot
<1> USE DEF BootInv
<1>1. /\ RepairEligible(a) /\ a \in Authorizations /\ pc[a] \in Working
      /\ Target[a] \in Slots /\ Slots \subseteq Int
  BY SlotsAreNumbers DEF RebaselineAt, Authorizations, Working, BootstrapConstants
<1>2. RepairLatest(a)
  <2>1. Busy
    BY <1>1 DEF Busy
  <2>2. PICK b \in Authorizations : PointLatest(b) \/ RepairLatest(b) \/ UpdateLatest(b)
    BY <2>1 DEF Next, Dispatch, Rebaseline, InspectSlot, StageFile, Promote, Recover, InspectRecovery,
                MakeDirectory, WriteFile, RecordConsumption, Interrupt, PublishScheduled
  <2>3. b = a
    BY <1>1, <2>2 DEF PointLatest, RepairLatest, UpdateLatest, OneAtWork, Working
  <2>4. QED
    BY <2>2, <2>3 DEF PointLatest, UpdateLatest
<1>3. latest'.slot = Target[a]
  BY <1>2 DEF RepairLatest
<1>4. ASSUME NEW s \in Slots, Loadable(s) PROVE s <= Target[a]
  <2>1. ~ (s > Target[a])
    BY <1>1, <1>4 DEF RepairEligible, NewerExists, Loadable
  <2>2. s \in Int /\ Target[a] \in Int
    BY <1>1
  <2>3. QED
    BY <2>1, <2>2
<1>5. ASSUME latest # None PROVE latest.slot <= Target[a]
  <2>1. latest.slot <= Target[a] - 1
    BY <1>1, <1>5 DEF RepairEligible, LatestUpTo
  <2>2. latest.slot \in Int /\ Target[a] \in Int
    BY <1>1, <1>5 DEF TypeOK
  <2>3. QED
    BY <2>1, <2>2
<1>6. QED
  BY <1>3, <1>4, <1>5

(* A repair puts LATEST on the newest state there is.                      *)
THEOREM RepairsMoveOn == ASSUME BootstrapConstants PROVE Spec => RepairMovesOn
<1>1. BootInv /\ [Next]_vars =>
        [\A a \in Rebaselines :
           pc[a] = "repair" /\ latest' # latest =>
             /\ \A s \in Slots : Loadable(s) => s <= latest'.slot
             /\ latest # None => latest.slot <= latest'.slot]_vars
  BY RepairedForward
<1>2. QED
  BY <1>1, BootstrapInvariant, PTL DEF Spec, RepairMovesOn
=============================================================================
