------------------------- MODULE MCLiveState_proofs -------------------------
(***************************************************************************)
(* Proofs about the live state store, for any runs, slots and days.        *)
(*                                                                         *)
(* What a reader relies on, that a slot with a manifest is whole and has a *)
(* lineage, is decided in CheckState and used in WriteManifest, four steps *)
(* later.  LiveInv says what stays true in between: one run works at a     *)
(* time, its slot is still its own, and its predecessor still the newest.  *)
(*                                                                         *)
(* Then the first refresh of the fundamentals, for any operators,          *)
(* authorizations, roots and plans.  RefreshInv follows an operator through *)
(* its plan; ChainInv says that what was published is a chain.             *)
(***************************************************************************)
EXTENDS MCLiveState, SequenceTheorems, WellFoundedInduction, TLAPS

(* One run works at a time. *)
OneWorks == \A r, q \in Runs : pc[r] \in Working /\ pc[q] \in Working => r = q

(* A slot's files are its own runs', the baseline's are nobody's, and a    *)
(* slot with a manifest has its directory.                                 *)
SlotsOwned ==
  /\ \A s \in Slots :
       /\ manifest[s] # None => s \in directories
       /\ manifest[s] \in Runs => Target[manifest[s]] = s /\ pc[manifest[s]] # "idle"
       /\ manifest[s] = Genesis <=> s = Baseline
  /\ stateFile[Baseline] = Genesis /\ persistFile[Baseline] = Genesis

(* What a run's decision names, and its slot allows, when it is published. *)
LegalBefore(slot, s) ==
  /\ slot < s
  /\ Morning(s) => Evening(slot) /\ DayOf(slot) = DayOf(s) - 1
  /\ Partial(s) \/ Partial(slot) => slot = s - 1 \/ Morning(s)

(* The check stays true while its run writes: the predecessor is legal and *)
(* newest, and the authority of the first refresh is not consumed.         *)
Justified(r) ==
  LET previous == parent[r]
      slot == SlotOf(previous)
  IN  /\ previous \in States /\ slot \in Slots /\ manifest[slot] = previous
      /\ LegalBefore(slot, Target[r])
      /\ \A d \in directories :
           d < Target[r] /\ (Morning(Target[r]) => Evening(d)) => d <= slot
      /\ previous = Genesis => Ready = {Baseline}

Filling == {"directory", "state", "persist", "manifest"}

Publishes(r) ==
  /\ pc[r] \in Filling => manifest[Target[r]] = None /\ SlotAdmits(r)
                          /\ SourcesArchived(r) /\ Justified(r)
  /\ pc[r] \in Filling \ {"directory"} => Target[r] \in directories
  /\ pc[r] \in {"persist", "manifest"} => stateFile[Target[r]] = r
  /\ pc[r] = "manifest" => persistFile[Target[r]] = r
  /\ pc[r] \in {"verify", "latest", "published"} => manifest[Target[r]] = r
  /\ pc[r] = "write_receipts" => receipts[Target[r]] = Torn

PublishingInv == \A r \in Runs : Publishes(r)

LatestInv == latest.slot = SlotOf(latest.state) /\ manifest[latest.slot] = latest.state

LiveInv ==
  /\ TypeOK /\ OneWorks /\ SlotsOwned /\ ReadySlotsLoad /\ PublishingInv
  /\ EvidenceTravels /\ LineageLegal /\ FirstRefreshOnce /\ LatestInv

-----------------------------------------------------------------------------
(* A bounded set of numbers has a greatest.                                *)
LEMMA GreatestNumber ==
  ASSUME NEW S, NEW n \in Nat, S \subseteq 0 .. n, S # {}
  PROVE  Max(S) \in S /\ \A x \in S : x <= Max(S)
<1> DEFINE T == {i \in Nat : n - i \in S}
<1>1. T \subseteq Nat /\ T # {}
  <2>1. PICK x \in S : x \in 0 .. n
    OBVIOUS
  <2>2. n - x \in Nat /\ n - (n - x) = x
    BY <2>1
  <2> QED BY <2>1, <2>2
<1>2. PICK i \in T : \A j \in T : ~ (<<j, i>> \in OpToRel(<, Nat))
  <2>1. IsWellFoundedOn(OpToRel(<, Nat), Nat)
    BY NatLessThanWellFounded
  <2> QED BY <1>1, <2>1, WFMin
<1>3. \A j \in T : ~ (j < i)
  BY <1>2 DEF OpToRel
<1>4. i \in Nat /\ n - i \in S /\ n - i \in Int
  <2>1. i \in Nat
    <3>1. i \in T
      OBVIOUS
    <3> QED BY <3>1
  <2>2. n - i \in S
    <3>1. i \in T
      OBVIOUS
    <3> QED BY <3>1
  <2>3. n - i \in Int
    BY <2>1
  <2> QED BY <2>1, <2>2, <2>3
<1>5. ASSUME NEW x \in S PROVE n - i >= x
  <2>1. x \in 0 .. n
    OBVIOUS
  <2>2. n - x \in T
    <3>1. n - x \in Nat /\ n - (n - x) = x
      BY <2>1
    <3> QED BY <3>1
  <2>3. ~ (n - x < i) /\ x \in Int /\ i \in Int
    BY <1>3, <1>4, <2>1, <2>2
  <2> HIDE DEF T
  <2> QED BY <2>3
<1>6. \E x \in S : \A y \in S : x >= y
  BY <1>4, <1>5
<1>7. Max(S) \in S /\ \A y \in S : Max(S) >= y
  BY <1>6 DEF Max
<1>8. ASSUME NEW x \in S PROVE x <= Max(S)
  BY <1>7
<1> QED BY <1>7, <1>8

(* What a reader finds as the newest below a slot. *)
LEMMA NewestFound ==
  ASSUME directories \subseteq Slots, NEW slot \in Slots, HasPredecessor(directories, slot)
  PROVE  /\ NewestBelow(directories, slot) \in directories
         /\ NewestBelow(directories, slot) < slot
         /\ Morning(slot) => Evening(NewestBelow(directories, slot))
         /\ \A d \in directories :
              d < slot /\ (Morning(slot) => Evening(d)) => d <= NewestBelow(directories, slot)
<1> DEFINE n == 4 * LastDay + 3
<1>1. n \in Nat /\ Candidates(directories, slot) \subseteq 0 .. n
  <2>1. n \in Nat /\ n + 0 = 4 * LastDay + 3
    BY LastDayIsNatural
  <2>2. \A p \in Slots : p \in 0 .. n
    <3> HIDE DEF n
    <3> QED BY <2>1 DEF Slots, Baseline
  <2> QED BY <2>1, <2>2 DEF Candidates
<1>2. /\ Max(Candidates(directories, slot)) \in Candidates(directories, slot)
      /\ \A x \in Candidates(directories, slot) : x <= Max(Candidates(directories, slot))
  <2> HIDE DEF n
  <2> QED BY <1>1, GreatestNumber DEF HasPredecessor
<1> QED BY <1>2 DEF NewestBelow, Candidates

(* The names of states are no names of files.                              *)
LEMMA Names ==
  /\ Genesis \notin Runs /\ None \notin Runs /\ Torn \notin Runs
  /\ None # Genesis /\ Torn # Genesis /\ None # Torn
  /\ Genesis \in States /\ Runs \subseteq States /\ None \notin States
BY StateNamesDistinct DEF States

LEMMA Targets == ASSUME NEW r \in Runs PROVE Target[r] \in Slots /\ Target[r] # Baseline /\ Target[r] \in Int
BY RunsHaveSlots, LastDayIsNatural DEF Slots, Baseline

(* A successor of a state in the tree is justified. *)
LEMMA CheckJustifies ==
  ASSUME TypeOK, SlotsOwned, NEW r \in Runs, Succeeds(parent[r], Target[r])
  PROVE  Justified(r)
<1>1. PICK s \in Slots : s = Target[r] /\ s # Baseline /\ s \in Int
  BY Targets
<1>2. PICK previous : previous = parent[r]
  OBVIOUS
<1>3. Baseline \in Slots /\ manifest[Baseline] = Genesis /\ Baseline \in directories /\ directories \subseteq Slots
  BY Names, LastDayIsNatural DEF SlotsOwned, Slots, Baseline, TypeOK
<1>4. Slots \subseteq Int
  BY DEF Slots, Baseline
<1>5. ASSUME NEW p \in Slots, manifest[p] = previous, previous # None
      PROVE  previous \in States /\ SlotOf(previous) = p
  BY <1>5, Names DEF SlotsOwned, SlotOf, TypeOK, States
<1>6. CASE Partial(s)
  <2>1. s - 1 \in Slots /\ s - 1 # Baseline /\ ~Morning(s)
    BY <1>1, <1>6, LastDayIsNatural DEF Partial, NineThirty, Noon, Morning, Slots, Baseline
  <2>2. manifest[s - 1] = previous /\ previous # None
    BY <1>1, <1>2, <1>6 DEF Succeeds, Loadable
  <2>3. previous \in States /\ SlotOf(previous) = s - 1
    BY <1>5, <2>1, <2>2
  <2>4. previous # Genesis
    BY <2>1, <2>2 DEF SlotsOwned
  <2>5. LegalBefore(s - 1, s)
    BY <1>1, <2>1 DEF LegalBefore
  <2>6. \A d \in directories : d < s => d <= s - 1
    BY <1>1, <1>3, <1>4
  <2> QED BY <1>1, <1>2, <2>1, <2>2, <2>3, <2>4, <2>5, <2>6 DEF Justified
<1>7. CASE ~Partial(s)
  <2>1. PICK p : p = NewestBelow(directories, s)
    OBVIOUS
  <2>2. /\ PredecessorSlotLegal(p, s) /\ Loadable(p) /\ manifest[p] = previous
        /\ Ranked(previous) \/ FirstRefreshAllowed(s)
        /\ HasPredecessor(directories, s)
    BY <1>1, <1>2, <1>7, <2>1 DEF Succeeds
  <2>3. /\ p \in directories /\ p < s /\ (Morning(s) => Evening(p))
        /\ \A d \in directories : d < s /\ (Morning(s) => Evening(d)) => d <= p
    BY <1>3, <2>1, <2>2, NewestFound
  <2>4. previous \in States /\ SlotOf(previous) = p /\ p \in Slots
    BY <1>3, <1>5, <2>2, <2>3 DEF Loadable
  <2>5. LegalBefore(p, s)
    <3>1. Morning(s) \/ Evening(s)
      BY <1>1, <1>7 DEF Morning, Evening, Partial, NineThirty, Noon
    <3> QED BY <1>7, <2>2, <2>3, <3>1 DEF LegalBefore, PredecessorSlotLegal
  <2>6. ASSUME previous = Genesis PROVE Ready = {Baseline}
    <3>1. \A d \in directories : manifest[d] = Genesis
      BY <2>2, <2>6, Names DEF Ranked, FirstRefreshAllowed, Loadable
    <3>2. \A d \in directories : d = Baseline
      BY <1>3, <3>1 DEF SlotsOwned
    <3> QED BY <1>3, <3>2, Names DEF Ready, SlotsOwned
  <2> QED BY <1>1, <1>2, <2>2, <2>3, <2>4, <2>5, <2>6 DEF Justified
<1> QED BY <1>6, <1>7

-----------------------------------------------------------------------------
LEMMA InitHolds == ASSUME Init PROVE LiveInv
<1> USE Names
<1>1. Baseline \in Slots
  BY LastDayIsNatural DEF Slots, Baseline
<1>2. TypeOK
  BY <1>1 DEF Init, TypeOK, States, Phases
<1>3. \A r \in Runs : pc[r] = "idle"
  BY DEF Init
<1>4. \A s \in Slots : manifest[s] # None => s = Baseline
  BY DEF Init
<1>5. SlotsOwned /\ ReadySlotsLoad
  BY <1>1, <1>4 DEF Init, SlotsOwned, ReadySlotsLoad, Ready, Loadable
<1>6. OneWorks /\ PublishingInv
  BY <1>3 DEF OneWorks, PublishingInv, Publishes, Filling, Working, Archiving, Publishing
<1>7. EvidenceTravels
  BY <1>4 DEF EvidenceTravels, Ready, Partial, NineThirty, Noon, Baseline
<1>8. LineageLegal /\ FirstRefreshOnce
  BY <1>4 DEF LineageLegal, FirstRefreshOnce, Ready
<1>9. LatestInv
  BY <1>1 DEF Init, LatestInv, SlotOf
<1> QED BY <1>2, <1>5, <1>6, <1>7, <1>8, <1>9 DEF LiveInv

(* A step takes its own run on, and no other run is at work meanwhile. *)
LEMMA StepAlone ==
  ASSUME TypeOK, OneWorks, NEW r \in Runs, Step(r)
  PROVE  /\ pc' = [pc EXCEPT ![r] = pc'[r]] /\ pc'[r] \in Phases \ {"idle"}
         /\ \A q \in Runs \ {r} : pc'[q] = pc[q] /\ pc[q] \notin Working
<1>1. pc \in [Runs -> Phases]
  BY DEF TypeOK
<1>2. \E p \in Phases \ {"idle"} : pc' = [pc EXCEPT ![r] = p]
  <2>1. CASE Prepare(r)
    BY <2>1 DEF Prepare, Goto, Phases
  <2>2. CASE Call(r)
    <3>1. pc' = [pc EXCEPT ![r] = "archive"] \/ pc' = [pc EXCEPT ![r] = "check"]
      BY <2>2 DEF Call, Goto
    <3> QED BY <3>1 DEF Phases, Working, Archiving, Publishing
  <2>3. CASE PublishReport(r)
    <3> USE DEF Goto, Phases, Working, Archiving, Publishing, Returned
    <3>1. CASE CheckResponse(r)
      BY <3>1 DEF CheckResponse
    <3>2. CASE CheckReceipts(r)
      <4>1. \/ pc' = [pc EXCEPT ![r] = "write_receipts"] \/ pc' = [pc EXCEPT ![r] = "summary"]
            \/ pc' = [pc EXCEPT ![r] = "blocked"]
        BY <3>2 DEF CheckReceipts
      <4> QED BY <4>1
    <3>3. CASE WriteSummary(r)
      <4>1. pc' = [pc EXCEPT ![r] = "check"] \/ pc' = [pc EXCEPT ![r] = "blocked"]
        BY <3>3 DEF WriteSummary
      <4> QED BY <4>1
    <3>4. CASE MakeArchive(r) \/ WriteResponse(r) \/ WriteReceipts(r)
      BY <3>4 DEF MakeArchive, WriteResponse, WriteReceipts
    <3> QED BY <2>3, <3>1, <3>2, <3>3, <3>4 DEF PublishReport
  <2>4. CASE PublishState(r)
    BY <2>4 DEF PublishState, CheckState, MakeDirectory, WriteState, WritePersist, WriteManifest,
                VerifySlot, UpdateLatest, Goto, Phases, Working, Archiving, Publishing, Returned
  <2>5. CASE Interrupt(r)
    BY <2>5 DEF Interrupt, Goto, Phases, Returned
  <2> QED BY <2>1, <2>2, <2>3, <2>4, <2>5 DEF Step, Work
<1>3. ~Busy \/ pc[r] \in Working
  BY DEF Step, Prepare, Call, Work, PublishReport, MakeArchive, CheckResponse, WriteResponse,
         CheckReceipts, WriteReceipts, WriteSummary, PublishState, CheckState, MakeDirectory,
         WriteState, WritePersist, WriteManifest, VerifySlot, UpdateLatest, Interrupt,
         Working, Archiving, Publishing
<1>4. \A q \in Runs \ {r} : pc[q] \notin Working
  BY <1>3 DEF Busy, OneWorks
<1> QED BY <1>1, <1>2, <1>4

LEMMA OneWorksKept ==
  ASSUME TypeOK, OneWorks, NEW r \in Runs, Step(r)
  PROVE  OneWorks'
BY StepAlone DEF OneWorks

LEMMA TypeKept ==
  ASSUME TypeOK, OneWorks, NEW r \in Runs, Step(r)
  PROVE  TypeOK'
<1> USE DEF TypeOK
<1>1. PICK s \in Slots : s = Target[r]
  BY Targets
<1>2. pc' \in [Runs -> Phases]
  BY StepAlone
<1>3. CASE Prepare(r)
  BY <1>2, <1>3 DEF Prepare, archive, slotFiles
<1>4. CASE Call(r) \/ Interrupt(r)
  BY <1>2, <1>4 DEF Call, Interrupt, archive, slotFiles
<1>5. CASE MakeArchive(r) \/ MakeDirectory(r)
  BY <1>1, <1>2, <1>5 DEF MakeArchive, MakeDirectory, archive, slotFiles
<1>6. CASE CheckResponse(r) \/ WriteResponse(r)
  BY <1>1, <1>2, <1>6 DEF CheckResponse, WriteResponse, slotFiles
<1>7. CASE CheckReceipts(r) \/ WriteReceipts(r)
  BY <1>1, <1>2, <1>7 DEF CheckReceipts, WriteReceipts, slotFiles
<1>8. CASE WriteSummary(r)
  BY <1>1, <1>2, <1>8 DEF WriteSummary, slotFiles
<1>9. CASE CheckState(r) \/ VerifySlot(r)
  BY <1>2, <1>9 DEF CheckState, VerifySlot, archive, slotFiles
<1>10. CASE WriteState(r)
  BY <1>1, <1>2, <1>10 DEF WriteState, archive, States
<1>11. CASE WritePersist(r)
  BY <1>1, <1>2, <1>11 DEF WritePersist, archive, States
<1>12. CASE WriteManifest(r)
  BY <1>1, <1>2, <1>12 DEF WriteManifest, archive, States
<1>13. CASE UpdateLatest(r)
  BY <1>1, <1>2, <1>13 DEF UpdateLatest, archive, slotFiles, States
<1> QED BY <1>3, <1>4, <1>5, <1>6, <1>7, <1>8, <1>9, <1>10, <1>11, <1>12, <1>13
        DEF Step, Work, PublishReport, PublishState

-----------------------------------------------------------------------------
(* The steps that publish nothing: the manifests, the bytes they bind, the *)
(* directories and the decisions already made stay.                        *)
Untouched ==
  /\ UNCHANGED manifest
  /\ \A s \in Ready : stateFile'[s] = stateFile[s] /\ persistFile'[s] = persistFile[s]
  /\ directories \subseteq directories'
  /\ \A q \in Runs : pc[q] # "idle" => parent'[q] = parent[q] /\ pc'[q] # "idle"

LEMMA StoreKept ==
  ASSUME TypeOK, SlotsOwned, ReadySlotsLoad, LineageLegal, FirstRefreshOnce, Untouched
  PROVE  SlotsOwned' /\ ReadySlotsLoad' /\ LineageLegal' /\ FirstRefreshOnce'
<1>1. manifest' = manifest /\ Ready' = Ready
  BY DEF Untouched, Ready
<1>2. \A s \in Ready \ {Baseline} : manifest[s] \in Runs /\ parent'[manifest[s]] = parent[manifest[s]]
  <2> TAKE s \in Ready \ {Baseline}
  <2>1. PICK state \in States : state = manifest[s]
    BY DEF TypeOK, Ready
  <2>2. state \in Runs /\ pc[state] # "idle"
    BY <2>1 DEF SlotsOwned, Ready, States
  <2> QED BY <2>1, <2>2 DEF Untouched
<1>3. Baseline \in Slots /\ Baseline \in Ready
  <2>1. Baseline \in Slots
    BY LastDayIsNatural DEF Slots, Baseline
  <2> QED BY <2>1, Names DEF SlotsOwned, Ready
<1>4. SlotsOwned'
  <2>1. \A s \in Slots : manifest[s] \in Runs => Target[manifest[s]] = s /\ pc'[manifest[s]] # "idle"
    <3> SUFFICES ASSUME NEW s \in Slots, manifest[s] \in Runs
                 PROVE  Target[manifest[s]] = s /\ pc'[manifest[s]] # "idle"
      OBVIOUS
    <3>1. PICK q \in Runs : q = manifest[s]
      OBVIOUS
    <3> QED BY <3>1 DEF SlotsOwned, Untouched
  <2> QED BY <1>1, <1>3, <2>1 DEF SlotsOwned, Untouched
<1>5. ReadySlotsLoad'
  BY <1>1 DEF ReadySlotsLoad, Loadable, Untouched
<1>6. LineageLegal'
  BY <1>1, <1>2 DEF LineageLegal, SlotOf
<1>7. FirstRefreshOnce'
  BY <1>1, <1>2 DEF FirstRefreshOnce
<1> QED BY <1>4, <1>5, <1>6, <1>7

(* A run that does not work has, at most, its published state. *)
LEMMA OthersKept ==
  ASSUME PublishingInv, NEW r \in Runs, NEW q \in Runs, pc'[q] = pc[q], pc[q] \notin Working,
         manifest[Target[q]] = q => manifest'[Target[q]] = q
  PROVE  Publishes(q)'
BY DEF PublishingInv, Publishes, Filling, Working, Archiving, Publishing

LEMMA StoreUntouched ==
  ASSUME LiveInv, NEW r \in Runs, Step(r), ~WriteManifest(r)
  PROVE  Untouched
<1> USE DEF LiveInv
<1>1. PICK s \in Slots : s = Target[r]
  BY Targets
<1>2. \A q \in Runs : pc[q] # "idle" => pc'[q] # "idle"
  BY StepAlone
<1>3. CASE Prepare(r)
  BY <1>2, <1>3 DEF Prepare, Untouched, slotFiles, TypeOK
<1>4. CASE MakeArchive(r) \/ MakeDirectory(r)
  BY <1>2, <1>4 DEF MakeArchive, MakeDirectory, Untouched, slotFiles
<1>5. CASE WriteState(r) \/ WritePersist(r)
  <2>1. manifest[s] = None
    BY <1>1, <1>5 DEF WriteState, WritePersist, PublishingInv, Publishes, Filling
  <2>2. s \notin Ready
    BY <2>1 DEF Ready
  <2>3. CASE WriteState(r)
    BY <1>1, <1>2, <2>2, <2>3 DEF WriteState, Untouched, TypeOK, Ready
  <2>4. CASE WritePersist(r)
    BY <1>1, <1>2, <2>2, <2>4 DEF WritePersist, Untouched, TypeOK, Ready
  <2> QED BY <1>5, <2>3, <2>4
<1>6. CASE Call(r) \/ Interrupt(r) \/ CheckResponse(r) \/ WriteResponse(r)
           \/ CheckReceipts(r) \/ WriteReceipts(r) \/ WriteSummary(r)
  <2>1. UNCHANGED << directories, slotFiles, parent >>
    BY <1>6 DEF Call, Interrupt, CheckResponse, WriteResponse, CheckReceipts, WriteReceipts, WriteSummary
  <2> QED BY <1>2, <2>1 DEF Untouched, slotFiles
<1>7. CASE CheckState(r) \/ VerifySlot(r) \/ UpdateLatest(r)
  <2>1. UNCHANGED << directories, slotFiles, parent >>
    BY <1>7 DEF CheckState, VerifySlot, UpdateLatest
  <2> QED BY <1>2, <2>1 DEF Untouched, slotFiles
<1> QED BY <1>3, <1>4, <1>5, <1>6, <1>7 DEF Step, Work, PublishReport, PublishState

(* Evidence beside a published state is whole, so no one writes it again. *)
LEMMA EvidenceKept ==
  ASSUME LiveInv, NEW r \in Runs, Step(r), ~WriteManifest(r)
  PROVE  EvidenceTravels'
<1> USE DEF LiveInv
<1>1. PICK s \in Slots : s = Target[r]
  BY Targets
<1>2. manifest' = manifest /\ Ready' = Ready
  BY StoreUntouched DEF Untouched, Ready
<1>3. \A t \in Ready : manifest[t] # None /\ manifest[t] # Torn /\ t \in Slots
  BY Names DEF Ready, TypeOK, States
<1>4. CASE CheckResponse(r) \/ WriteResponse(r)
  <2>1. receipts' = receipts
    BY <1>4 DEF CheckResponse, WriteResponse
  <2>2. \A t \in Slots : response[t] \in Runs => response'[t] \in Runs
    BY <1>1, <1>4, Names DEF CheckResponse, WriteResponse, TypeOK
  <2> QED BY <1>2, <1>3, <2>1, <2>2 DEF EvidenceTravels
<1>5. CASE CheckReceipts(r) \/ WriteReceipts(r)
  <2>1. response' = response
    BY <1>5 DEF CheckReceipts, WriteReceipts
  <2>2. receipts[s] \in {None, Torn} \/ receipts'[s] = receipts[s]
    BY <1>1, <1>5 DEF CheckReceipts, WriteReceipts, PublishingInv, Publishes
  <2>3. \A t \in Slots \ {s} : receipts'[t] = receipts[t]
    BY <1>1, <1>5 DEF CheckReceipts, WriteReceipts, TypeOK
  <2> QED BY <1>2, <1>3, <2>1, <2>2, <2>3 DEF EvidenceTravels
<1>6. CASE UNCHANGED << response, receipts >>
  BY <1>2, <1>6 DEF EvidenceTravels
<1>7. UNCHANGED << response, receipts >> \/ CheckResponse(r) \/ WriteResponse(r)
      \/ CheckReceipts(r) \/ WriteReceipts(r)
  BY DEF Step, Prepare, Call, Interrupt, Work, PublishReport, MakeArchive, WriteSummary, PublishState,
         CheckState, MakeDirectory, WriteState, WritePersist, VerifySlot, UpdateLatest, archive
<1> QED BY <1>4, <1>5, <1>6, <1>7

LEMMA LatestKept ==
  ASSUME LiveInv, NEW r \in Runs, Step(r), ~WriteManifest(r)
  PROVE  LatestInv'
<1> USE DEF LiveInv
<1>1. manifest' = manifest
  BY StoreUntouched DEF Untouched
<1>2. CASE UpdateLatest(r)
  <2>1. manifest[Target[r]] = r
    BY <1>2 DEF UpdateLatest, PublishingInv, Publishes
  <2>2. SlotOf(r) = Target[r]
    BY Names DEF SlotOf
  <2>3. latest' = latest \/ latest' = [slot |-> Target[r], state |-> r]
    BY <1>2 DEF UpdateLatest
  <2> QED BY <1>1, <2>1, <2>2, <2>3 DEF LatestInv, SlotOf
<1>3. CASE latest' = latest
  BY <1>1, <1>3 DEF LatestInv, SlotOf
<1>4. latest' = latest \/ UpdateLatest(r)
  BY DEF Step, Prepare, Call, Interrupt, Work, PublishReport, MakeArchive, CheckResponse, WriteResponse,
         CheckReceipts, WriteReceipts, WriteSummary, PublishState, CheckState, MakeDirectory,
         WriteState, WritePersist, VerifySlot
<1> QED BY <1>2, <1>3, <1>4

(* What the run itself has done and found, step by step. *)
LEMMA RunKept ==
  ASSUME LiveInv, NEW r \in Runs, Step(r), ~WriteManifest(r)
  PROVE  Publishes(r)'
<1> USE DEF LiveInv
<1>1. PICK s \in Slots : s = Target[r] /\ s \in Int
  BY Targets
<1>2. manifest' = manifest /\ Ready' = Ready
  BY StoreUntouched DEF Untouched, Ready
<1>3. ASSUME pc'[r] \notin Filling \cup {"verify", "latest", "published", "write_receipts"}
      PROVE  Publishes(r)'
  BY <1>3 DEF Publishes, Filling
<1>4. pc' = [pc EXCEPT ![r] = pc'[r]] /\ pc[r] \in Phases
  BY StepAlone DEF TypeOK
<1>5. CASE Prepare(r) \/ Call(r) \/ Interrupt(r)
  <2>1. pc'[r] \in {"prepared", "refused", "archive", "check", "blocked", "crashed"}
    BY <1>5 DEF Prepare, Call, Interrupt, Goto, TypeOK
  <2> QED BY <1>3, <2>1 DEF Filling
<1>6. CASE MakeArchive(r) \/ CheckResponse(r) \/ WriteResponse(r) \/ WriteReceipts(r) \/ WriteSummary(r)
  <2>1. pc'[r] \in {"response", "write_response", "receipts", "summary", "check", "blocked"}
    BY <1>6 DEF MakeArchive, CheckResponse, WriteResponse, WriteReceipts, WriteSummary, Goto, TypeOK
  <2> QED BY <1>3, <2>1 DEF Filling
<1>7. CASE CheckReceipts(r)
  <2>1. \/ pc'[r] \in {"summary", "blocked"}
        \/ pc'[r] = "write_receipts" /\ receipts'[s] = Torn
    BY <1>1, <1>7 DEF CheckReceipts, Goto, TypeOK
  <2> QED BY <1>1, <1>3, <2>1 DEF Filling, Publishes
<1>8. CASE CheckState(r)
  <2>1. UNCHANGED << directories, archive, slotFiles, parent >>
    BY <1>8 DEF CheckState
  <2>2. CASE pc'[r] = "directory"
    <3>1. manifest[s] = None /\ SlotAdmits(r) /\ SourcesArchived(r) /\ Succeeds(parent[r], Target[r])
      BY <1>1, <1>8, <2>2 DEF CheckState, Goto, TypeOK
    <3>2. Justified(r)
      BY <3>1, CheckJustifies
    <3>3. manifest'[s] = None /\ SlotAdmits(r)' /\ SourcesArchived(r)' /\ Justified(r)'
      BY <1>2, <2>1, <3>1, <3>2 DEF SlotAdmits, SourcesArchived, Justified, archive, slotFiles, SlotOf
    <3> QED BY <1>1, <2>2, <3>3 DEF Publishes, Filling
  <2>3. CASE pc'[r] = "verify"
    <3>1. manifest[s] # None /\ Loadable(s) /\ SlotAdmits(r)
      BY <1>1, <1>8, <2>3 DEF CheckState, Goto, TypeOK
    <3>2. manifest[s] = r
      BY <1>1, <3>1 DEF Loadable, SlotAdmits
    <3> QED BY <1>1, <1>2, <2>3, <3>2 DEF Publishes, Filling
  <2>4. pc'[r] \in {"directory", "verify", "blocked"}
    BY <1>8 DEF CheckState, Goto, TypeOK
  <2> QED BY <1>3, <2>2, <2>3, <2>4 DEF Filling
<1>9. ASSUME pc[r] \in Filling, pc'[r] \in Filling, UNCHANGED << archive, parent >>,
             directories' = directories \cup {s} \/ directories' = directories
      PROVE  manifest'[s] = None /\ SourcesArchived(r)' /\ Justified(r)'
  <2>1. manifest[s] = None /\ SourcesArchived(r) /\ Justified(r)
    BY <1>1, <1>9 DEF PublishingInv, Publishes
  <2>2. Justified(r)'
    <3>1. ~ (s < s)
      BY <1>1
    <3> QED BY <1>1, <1>2, <1>9, <2>1, <3>1 DEF Justified, SlotOf
  <2> QED BY <1>2, <1>9, <2>1, <2>2 DEF SourcesArchived, archive
<1>10. CASE MakeDirectory(r)
  <2>1. /\ pc[r] = "directory" /\ pc'[r] = "state" /\ directories' = directories \cup {s}
        /\ UNCHANGED << archive, slotFiles, parent >>
    BY <1>1, <1>10 DEF MakeDirectory, Goto, TypeOK
  <2>2. manifest'[s] = None /\ SourcesArchived(r)' /\ Justified(r)'
    BY <1>9, <2>1 DEF Filling
  <2>3. SlotAdmits(r)'
    BY <2>1 DEF PublishingInv, Publishes, Filling, SlotAdmits, slotFiles
  <2> QED BY <1>1, <2>1, <2>2, <2>3 DEF Publishes, Filling
<1>11. CASE WriteState(r)
  <2>1. /\ pc[r] = "state" /\ pc'[r] = "persist" /\ UNCHANGED << directories, archive, persistFile, parent >>
        /\ stateFile'[s] = r
    BY <1>1, <1>11 DEF WriteState, Goto, TypeOK
  <2>2. manifest'[s] = None /\ SourcesArchived(r)' /\ Justified(r)'
    BY <1>9, <2>1 DEF Filling
  <2>3. SlotAdmits(r)' /\ s \in directories'
    BY <1>1, <2>1 DEF PublishingInv, Publishes, Filling, SlotAdmits
  <2> QED BY <1>1, <2>1, <2>2, <2>3 DEF Publishes, Filling
<1>12. CASE WritePersist(r)
  <2>1. /\ pc[r] = "persist" /\ pc'[r] = "manifest" /\ UNCHANGED << directories, archive, stateFile, parent >>
        /\ persistFile'[s] = r
    BY <1>1, <1>12 DEF WritePersist, Goto, TypeOK
  <2>2. manifest'[s] = None /\ SourcesArchived(r)' /\ Justified(r)'
    BY <1>9, <2>1 DEF Filling
  <2>3. SlotAdmits(r)' /\ s \in directories' /\ stateFile'[s] = r
    BY <1>1, <2>1 DEF PublishingInv, Publishes, Filling, SlotAdmits
  <2> QED BY <1>1, <2>1, <2>2, <2>3 DEF Publishes, Filling
<1>13. CASE VerifySlot(r) \/ UpdateLatest(r)
  <2>1. pc[r] \in {"verify", "latest"} /\ pc'[r] \in {"latest", "published", "blocked"}
    BY <1>13 DEF VerifySlot, UpdateLatest, Goto, TypeOK
  <2>2. manifest[s] = r
    BY <1>1, <2>1 DEF PublishingInv, Publishes
  <2> QED BY <1>1, <1>2, <2>1, <2>2 DEF Publishes, Filling
<1> QED BY <1>5, <1>6, <1>7, <1>8, <1>10, <1>11, <1>12, <1>13
        DEF Step, Work, PublishReport, PublishState

-----------------------------------------------------------------------------
(* The step that publishes: what was checked before is still so.           *)
LEMMA ManifestFound ==
  ASSUME LiveInv, NEW r \in Runs, WriteManifest(r)
  PROVE  /\ Target[r] \in Slots \ {Baseline} /\ manifest[Target[r]] = None
         /\ Target[r] \in directories /\ SourcesArchived(r) /\ Justified(r)
         /\ stateFile[Target[r]] = r /\ persistFile[Target[r]] = r
         /\ pc'[r] = "verify" /\ \A q \in Runs \ {r} : pc'[q] = pc[q] /\ pc[q] \notin Working
         /\ manifest'[Target[r]] = r /\ \A t \in Slots \ {Target[r]} : manifest'[t] = manifest[t]
         /\ Ready' = Ready \cup {Target[r]}
         /\ UNCHANGED << directories, archive, stateFile, persistFile, latest, parent >>
<1> USE DEF LiveInv
<1>1. PICK s \in Slots : s = Target[r] /\ s # Baseline
  BY Targets
<1>2. /\ pc[r] = "manifest" /\ pc'[r] = "verify" /\ manifest' = [manifest EXCEPT ![s] = r]
      /\ UNCHANGED << directories, archive, stateFile, persistFile, latest, parent >>
  BY <1>1 DEF WriteManifest, Goto, TypeOK
<1>3. /\ manifest[s] = None /\ s \in directories /\ SourcesArchived(r) /\ Justified(r)
      /\ stateFile[s] = r /\ persistFile[s] = r
  BY <1>1, <1>2 DEF PublishingInv, Publishes, Filling
<1>4. manifest'[s] = r /\ \A t \in Slots \ {s} : manifest'[t] = manifest[t]
  BY <1>1, <1>2 DEF TypeOK
<1>5. Ready' = Ready \cup {s}
  BY <1>1, <1>4, Names DEF Ready
<1>6. Step(r)
  BY DEF Step, Work, PublishState
<1>7. \A q \in Runs \ {r} : pc'[q] = pc[q] /\ pc[q] \notin Working
  BY <1>6, StepAlone
<1> QED BY <1>1, <1>2, <1>3, <1>4, <1>5, <1>7

LEMMA ManifestKeeps ==
  ASSUME LiveInv, NEW r \in Runs, WriteManifest(r)
  PROVE  LiveInv'
<1> USE DEF LiveInv
<1>1. PICK s \in Slots : s = Target[r]
  BY Targets
<1>2. /\ s # Baseline /\ manifest[s] = None /\ s \in directories /\ SourcesArchived(r) /\ Justified(r)
      /\ stateFile[s] = r /\ persistFile[s] = r
      /\ pc'[r] = "verify" /\ \A q \in Runs \ {r} : pc'[q] = pc[q] /\ pc[q] \notin Working
      /\ manifest'[s] = r /\ \A t \in Slots \ {s} : manifest'[t] = manifest[t]
      /\ Ready' = Ready \cup {s}
      /\ UNCHANGED << directories, archive, stateFile, persistFile, latest, parent >>
  BY <1>1, ManifestFound
<1>3. TypeOK' /\ OneWorks'
  BY TypeKept, OneWorksKept DEF Step, Work, PublishState
<1>4. s \notin Ready /\ r # None /\ r # Genesis /\ Ready \subseteq Slots
  BY <1>2, Names DEF Ready
<1>5. SlotsOwned'
  <2>1. ASSUME NEW t \in Slots
        PROVE  /\ manifest'[t] # None => t \in directories'
               /\ manifest'[t] \in Runs => Target[manifest'[t]] = t /\ pc'[manifest'[t]] # "idle"
               /\ manifest'[t] = Genesis <=> t = Baseline
    <3>1. CASE t = s
      BY <1>1, <1>2, <1>4, <3>1
    <3>2. CASE t # s
      <4>1. PICK state : state = manifest[t] /\ state = manifest'[t]
        BY <1>2, <3>2
      <4>2. /\ state # None => t \in directories
            /\ state \in Runs => Target[state] = t /\ pc[state] # "idle"
            /\ state = Genesis <=> t = Baseline
        BY <4>1 DEF SlotsOwned
      <4>3. state \in Runs => pc'[state] # "idle"
        BY <1>2, <4>2
      <4> QED BY <1>2, <4>1, <4>2, <4>3
    <3> QED BY <3>1, <3>2
  <2> QED BY <1>2, <2>1 DEF SlotsOwned
<1>6. ReadySlotsLoad'
  <2>1. \A t \in Ready : Loadable(t)'
    BY <1>2, <1>4 DEF ReadySlotsLoad, Loadable
  <2>2. Loadable(s)'
    BY <1>2, <1>4 DEF Loadable
  <2> QED BY <1>2, <2>1, <2>2 DEF ReadySlotsLoad
<1>7. PublishingInv'
  <2>1. ASSUME NEW q \in Runs, q # r
        PROVE  Publishes(q)'
    <3>1. manifest[Target[q]] = q => manifest'[Target[q]] = q
      BY <1>2, <2>1, Names, Targets
    <3> QED BY <1>2, <2>1, <3>1, OthersKept
  <2>2. Publishes(r)'
    BY <1>1, <1>2 DEF Publishes, Filling
  <2> QED BY <2>1, <2>2 DEF PublishingInv
<1>8. EvidenceTravels'
  <2>1. Partial(s) => receipts[s] = r /\ response[s] \in Runs
    BY <1>1, <1>2 DEF SourcesArchived, TypeOK
  <2>2. UNCHANGED << response, receipts >>
    BY <1>2 DEF archive
  <2>3. \A t \in Ready : Partial(t) => receipts[t] = manifest'[t] /\ response[t] \in Runs
    BY <1>2, <1>4 DEF EvidenceTravels
  <2> QED BY <1>2, <2>1, <2>2, <2>3 DEF EvidenceTravels
<1>9. LineageLegal'
  <2>1. ASSUME NEW t \in Ready' \ {Baseline}
        PROVE  /\ parent[manifest'[t]] \in States
               /\ SlotOf(parent[manifest'[t]]) \in Slots
               /\ manifest[SlotOf(parent[manifest'[t]])] = parent[manifest'[t]]
               /\ LegalBefore(SlotOf(parent[manifest'[t]]), t)
    <3>1. CASE t = s
      BY <1>1, <1>2, <3>1 DEF Justified
    <3>2. CASE t # s
      <4>1. t \in Ready \ {Baseline} /\ manifest'[t] = manifest[t]
        BY <1>2, <1>4, <2>1, <3>2
      <4>2. PICK previous : previous = parent[manifest[t]]
        OBVIOUS
      <4>3. previous \in States /\ manifest[SlotOf(previous)] = previous /\ LegalBefore(SlotOf(previous), t)
        BY <4>1, <4>2 DEF LineageLegal, LegalBefore
      <4>4. SlotOf(previous) \in Slots
        BY <4>3, Targets, LastDayIsNatural DEF SlotOf, States, Slots, Baseline
      <4> QED BY <4>1, <4>2, <4>3, <4>4
    <3> QED BY <3>1, <3>2
  <2>2. \A t \in Ready' \ {Baseline} :
          /\ parent[manifest'[t]] \in States
          /\ manifest'[SlotOf(parent[manifest'[t]])] = parent[manifest'[t]]
          /\ LegalBefore(SlotOf(parent[manifest'[t]]), t)
    <3> TAKE t \in Ready' \ {Baseline}
    <3>1. PICK previous : previous = parent[manifest'[t]]
      OBVIOUS
    <3>2. /\ previous \in States /\ SlotOf(previous) \in Slots
          /\ manifest[SlotOf(previous)] = previous /\ LegalBefore(SlotOf(previous), t)
      BY <2>1, <3>1
    <3>3. manifest'[SlotOf(previous)] = previous
      BY <1>2, <3>2, Names
    <3> QED BY <3>1, <3>2, <3>3
  <2> QED BY <1>2, <2>2 DEF LineageLegal, LegalBefore, SlotOf
<1>10. FirstRefreshOnce'
  <2>1. \A t \in Ready : manifest'[t] = manifest[t]
    BY <1>2, <1>4
  <2>2. parent[r] = Genesis => Ready = {Baseline}
    BY <1>2 DEF Justified
  <2> QED BY <1>2, <2>1, <2>2 DEF FirstRefreshOnce
<1>11. LatestInv'
  <2>1. latest.slot \in Slots /\ manifest[latest.slot] # None
    BY Names DEF LatestInv, TypeOK
  <2>2. manifest'[latest.slot] = manifest[latest.slot]
    BY <1>2, <2>1
  <2> QED BY <1>2, <2>2 DEF LatestInv, SlotOf
<1> QED BY <1>3, <1>5, <1>6, <1>7, <1>8, <1>9, <1>10, <1>11

LEMMA StepKeeps ==
  ASSUME LiveInv, NEW r \in Runs, Step(r)
  PROVE  LiveInv'
<1>1. CASE WriteManifest(r)
  BY <1>1, ManifestKeeps
<1>2. CASE ~WriteManifest(r)
  <2> USE <1>2 DEF LiveInv
  <2>1. TypeOK' /\ OneWorks'
    BY TypeKept, OneWorksKept
  <2>2. SlotsOwned' /\ ReadySlotsLoad' /\ LineageLegal' /\ FirstRefreshOnce'
    BY StoreUntouched, StoreKept
  <2>3. EvidenceTravels' /\ LatestInv'
    BY EvidenceKept, LatestKept
  <2>4. PublishingInv'
    <3>1. manifest' = manifest
      BY StoreUntouched DEF Untouched
    <3>2. ASSUME NEW q \in Runs, q # r PROVE Publishes(q)'
      BY <3>1, <3>2, StepAlone, OthersKept
    <3> QED BY <3>2, RunKept DEF PublishingInv
  <2> QED BY <2>1, <2>2, <2>3, <2>4
<1> QED BY <1>1, <1>2

LEMMA NextKeeps == ASSUME LiveInv, [Next]_vars PROVE LiveInv'
<1>1. CASE Next
  BY <1>1, StepKeeps DEF Next
<1>2. CASE UNCHANGED vars
  BY <1>2 DEF vars, archive, slotFiles, LiveInv, TypeOK, OneWorks, SlotsOwned, ReadySlotsLoad, Ready,
      Loadable, PublishingInv, Publishes, SlotAdmits, SourcesArchived, Justified, SlotOf,
      EvidenceTravels, LineageLegal, FirstRefreshOnce, LatestInv
<1> QED BY <1>1, <1>2

-----------------------------------------------------------------------------
(* The invariant holds of every behaviour of the store.                    *)
THEOREM LiveInvariant == Spec => []LiveInv
<1>1. Init => LiveInv
  BY InitHolds
<1>2. LiveInv /\ [Next]_vars => LiveInv'
  BY NextKeeps
<1> QED BY <1>1, <1>2, PTL DEF Spec

(* A slot with its manifest loads, a run that reported PASS is published,  *)
(* and an intraday state has its evidence beside it: load_live_state finds *)
(* what publish_state verified, whatever was interrupted in between.       *)
THEOREM StoreIsTruthful == Spec => []StoreTruthful
<1>1. LiveInv => StoreTruthful
  <2> SUFFICES ASSUME LiveInv PROVE ReportedPublished
    BY DEF LiveInv, StoreTruthful
  <2> SUFFICES ASSUME NEW r \in Runs, pc[r] = "published"
               PROVE  Loadable(Target[r]) /\ manifest[Target[r]] = r
    BY DEF ReportedPublished
  <2>1. PICK s \in Slots : s = Target[r]
    BY Targets
  <2>2. manifest[s] = r
    BY <2>1 DEF LiveInv, PublishingInv, Publishes
  <2>3. s \in Ready
    BY <2>2, Names DEF Ready
  <2> QED BY <2>1, <2>2, <2>3 DEF LiveInv, ReadySlotsLoad
<1> QED BY <1>1, LiveInvariant, PTL

(* The published states are a legal chain back to the baseline, and one of *)
(* them at most consumed the authority of the first refresh.               *)
THEOREM LineageIsSound == Spec => []LineageSound
<1>1. LiveInv => LineageSound
  BY DEF LiveInv, LineageSound
<1> QED BY <1>1, LiveInvariant, PTL

(* No directory below the slot, published or half written, is skipped over *)
(* by the predecessor a published state names, though the predecessor was  *)
(* found four writes before the manifest.                                  *)
THEOREM NothingIsSkipped == Spec => FollowsNewest
<1> DEFINE Follows == \A s \in Slots : manifest[s] = None /\ manifest'[s] # None =>
                        \A d \in directories :
                          d < s /\ (Morning(s) => Evening(d)) => d <= SlotOf(parent[manifest'[s]])
<1>1. ASSUME LiveInv, Next PROVE Follows
  <2>1. PICK r \in Runs : Step(r)
    BY <1>1 DEF Next
  <2>2. CASE ~WriteManifest(r)
    <3>1. manifest' = manifest
      BY <1>1, <2>1, <2>2, StoreUntouched DEF Untouched
    <3> QED BY <3>1
  <2>3. CASE WriteManifest(r)
    <3>1. /\ Justified(r) /\ manifest'[Target[r]] = r
          /\ \A t \in Slots \ {Target[r]} : manifest'[t] = manifest[t]
      BY <1>1, <2>3, ManifestFound
    <3>2. SUFFICES ASSUME NEW s \in Slots, manifest[s] = None, manifest'[s] # None,
                          NEW d \in directories, d < s, Morning(s) => Evening(d)
                   PROVE  d <= SlotOf(parent[manifest'[s]])
      OBVIOUS
    <3>3. s = Target[r] /\ manifest'[s] = r
      BY <3>1, <3>2
    <3> QED BY <3>1, <3>2, <3>3 DEF Justified
  <2> QED BY <2>2, <2>3
<1>2. LiveInv /\ [Next]_vars => [Follows]_vars
  BY <1>1
<1> QED BY <1>2, LiveInvariant, PTL DEF Spec, FollowsNewest

-----------------------------------------------------------------------------
(* The slots are the promised store of immutable states.                   *)
Published == {manifest[s] : s \in Ready}
Before == [state \in Published |-> IF state = Genesis THEN Genesis ELSE parent[state]]

LEMMA PublishedBySlot ==
  ASSUME LiveInv, NEW state \in Published
  PROVE  state \in States /\ SlotOf(state) \in Ready /\ manifest[SlotOf(state)] = state
<1>1. PICK s \in Ready : state = manifest[s]
  BY DEF Published
<1>2. s \in Slots /\ state \in States
  BY <1>1 DEF LiveInv, TypeOK, Ready
<1>3. SlotOf(state) = s
  BY <1>1, <1>2 DEF LiveInv, SlotsOwned, SlotOf, States
<1> QED BY <1>1, <1>2, <1>3

LEMMA StoreStep ==
  ASSUME LiveInv, LiveInv', Next
  PROVE  Store!StoreNext \/ UNCHANGED << Published, Before, latest.state >>
<1>1. PICK r \in Runs : Step(r)
  BY DEF Next
<1>2. CASE WriteManifest(r)
  <2>1. PICK s \in Slots : s = Target[r]
    BY Targets
  <2>2. /\ manifest[s] = None /\ Justified(r) /\ manifest'[s] = r
        /\ \A t \in Slots \ {s} : manifest'[t] = manifest[t]
        /\ Ready' = Ready \cup {s} /\ s \notin Ready /\ UNCHANGED << latest, parent >>
    BY <1>2, <2>1, ManifestFound DEF Ready
  <2>3. PICK before : before = parent[r]
    OBVIOUS
  <2>4. /\ before \in States /\ SlotOf(before) \in Slots /\ manifest[SlotOf(before)] = before
        /\ SlotOf(before) < s
    BY <2>1, <2>2, <2>3 DEF Justified, LegalBefore
  <2>5. before \in Published
    BY <2>4, Names DEF Published, Ready
  <2>6. SlotOf(r) = s
    BY <2>1, Names DEF SlotOf
  <2>7. \A other \in Published : SlotOf(other) # SlotOf(r)
    BY <2>2, <2>6, PublishedBySlot
  <2>8. Published' = Published \cup {r}
    <3>1. \A t \in Ready : manifest'[t] = manifest[t] /\ t \in Slots
      BY <2>2 DEF Ready
    <3> QED BY <2>2, <3>1 DEF Published
  <2>9. Before' = [state \in Published \cup {r} |-> IF state = r THEN before ELSE Before[state]]
    <3>1. r # Genesis /\ r \notin Published
      BY <2>7, Names
    <3> QED BY <2>2, <2>3, <2>8, <3>1 DEF Before
  <2>10. Store!Publish(r, before)
    BY <2>2, <2>4, <2>6, <2>7, <2>8, <2>9 DEF Store!Publish, Published, Before
  <2> QED BY <2>5, <2>10 DEF Store!StoreNext, Published
<1>3. CASE ~WriteManifest(r)
  <2>1. Untouched
    BY <1>1, <1>3, StoreUntouched
  <2>2. Published' = Published
    BY <2>1 DEF Untouched, Published, Ready
  <2>3. \A state \in Published \ {Genesis} : parent'[state] = parent[state]
    <3> TAKE state \in Published \ {Genesis}
    <3>1. state \in Runs /\ manifest[SlotOf(state)] = state /\ SlotOf(state) \in Slots
      BY PublishedBySlot DEF States, Ready
    <3>2. PICK t \in Slots : t = SlotOf(state)
      BY <3>1
    <3>3. pc[state] # "idle"
      BY <3>1, <3>2 DEF LiveInv, SlotsOwned
    <3> QED BY <2>1, <3>1, <3>3 DEF Untouched
  <2>4. Before' = Before
    BY <2>2, <2>3 DEF Before
  <2>5. CASE latest' = latest
    BY <2>2, <2>4, <2>5
  <2>6. CASE latest' # latest
    <3>1. UpdateLatest(r)
      BY <1>1, <1>3, <2>6 DEF Step, Prepare, Call, Interrupt, Work, PublishReport, MakeArchive,
          CheckResponse, WriteResponse, CheckReceipts, WriteReceipts, WriteSummary, PublishState,
          CheckState, MakeDirectory, WriteState, WritePersist, VerifySlot
    <3>2. latest.slot <= Target[r] /\ latest' = [slot |-> Target[r], state |-> r] /\ pc[r] = "latest"
      BY <2>6, <3>1 DEF UpdateLatest
    <3>3. manifest[Target[r]] = r /\ Target[r] \in Slots
      BY <3>2, Targets DEF LiveInv, PublishingInv, Publishes
    <3>4. r \in Published /\ SlotOf(r) = Target[r]
      BY <3>3, Names DEF Published, Ready, SlotOf
    <3>5. SlotOf(latest.state) = latest.slot
      BY DEF LiveInv, LatestInv
    <3>6. Store!PointTo(r)
      BY <2>2, <2>4, <3>2, <3>4, <3>5 DEF Store!PointTo, Published, Before
    <3> QED BY <3>4, <3>6 DEF Store!StoreNext, Published
  <2> QED BY <2>5, <2>6
<1> QED BY <1>2, <1>3

(* The slot files implement the store SlotStore promises: a manifest       *)
(* publishes one state on a published one, LATEST moves on to a published  *)
(* one, and no other write is seen.                                        *)
THEOREM ImplementsStore == Spec => ImplementsSlotStore
<1>1. ASSUME Init PROVE Store!StoreInit
  <2>1. Ready = {Baseline} /\ manifest[Baseline] = Genesis
    BY <1>1, Names, LastDayIsNatural DEF Init, Ready, Slots, Baseline
  <2>2. Published = {Genesis}
    BY <2>1 DEF Published
  <2>3. Before = [state \in {Genesis} |-> Genesis]
    BY <2>2 DEF Before
  <2>4. latest.state = Genesis
    BY <1>1 DEF Init
  <2> QED BY <2>2, <2>3, <2>4 DEF Store!StoreInit, Published, Before
<1>2. ASSUME LiveInv, LiveInv', [Next]_vars
      PROVE  [Store!StoreNext]_<< Published, Before, latest.state >>
  <2>1. CASE Next
    BY <1>2, <2>1, StoreStep
  <2>2. CASE UNCHANGED vars
    BY <2>2 DEF vars, slotFiles, Published, Before, Ready
  <2> QED BY <1>2, <2>1, <2>2
<1>3. Spec => [][Store!StoreNext]_<< Published, Before, latest.state >>
  BY <1>2, LiveInvariant, PTL DEF Spec
<1> QED BY <1>1, <1>3, PTL DEF Spec, ImplementsSlotStore, Store!StoreSpec, Published, Before

(* A cast takes no step the store would not, so all of this holds of the   *)
(* behaviours the casts are checked in.                                    *)
THEOREM CastsFollowTheStore == CastSpec => Spec
<1> DEFINE Known == cast \in Casts \cup {{}}
<1>1. CastInit => Init
  BY DEF CastInit
<1>2. CastInit => Known
  BY DEF CastInit
<1>3. ASSUME Known, [CastNext]_<< vars, cast, fundamental >>
      PROVE  Known' /\ [Next]_vars
  <2>1. CASE cast = {} /\ UNCHANGED << cast, vars >>
    BY <1>3, <2>1
  <2>2. CASE (\E r \in cast : Step(r)) /\ UNCHANGED cast
    <3>1. PICK r \in cast : Step(r)
      BY <2>2
    <3>2. r \in Runs
      BY <1>3, <3>1, CastsAreRuns
    <3> QED BY <1>3, <2>2, <3>1, <3>2 DEF Next
  <2>3. CASE UNCHANGED << vars, cast, fundamental >>
    BY <1>3, <2>3
  <2> QED BY <1>3, <2>1, <2>2, <2>3 DEF CastNext
<1> HIDE DEF Known
<1> QED BY <1>1, <1>2, <1>3, PTL DEF CastSpec, Spec
-----------------------------------------------------------------------------
(* The first refresh of the fundamentals: where an operator is when it has *)
(* an authorization, has claimed it, and has a store's scan lock.          *)
Scanning == {"dispatch", "event", "halt"}
Claimed == Scanning \cup {"create", "entry", "checkpoint", "replay", "stage", "commit"}
RefreshPhases == Claimed \cup {"idle", "enter", "claim"}

Asked == Fundamental!Requests

RefreshStore ==
  [by : Authorizations \cup {None}, intents : Seq([auth : Authorizations \cup {None}, entry : Nat]), events : Nat,
   torn : BOOLEAN, stop : BOOLEAN, known : BOOLEAN, resolved : BOOLEAN]

RefreshLocal == [auth : Authorizations \cup {None}, root : Roots \cup {None}, head : Nat]

RefreshTypes ==
  /\ expected \in [Authorizations -> Authorizations \cup {None, "unissued"}]
  /\ DOMAIN record = Authorizations
  /\ store \in [Roots -> RefreshStore]
  /\ prior \in [Authorizations -> Authorizations \cup {None}] /\ pointer \in Authorizations \cup {None}
  /\ DOMAIN verdict = Authorizations /\ scan \in [Roots -> Operators \cup {None}]
  /\ phase \in [Operators -> RefreshPhases] /\ local \in [Operators -> RefreshLocal]
  /\ sent \in [Authorizations -> [Asked -> Nat]] /\ good \in [Authorizations -> SUBSET Asked]

(* The store an operator works on is where it left it, one intent ahead    *)
(* of its events, and the intent is not one by hand.                       *)
AtWork(p, s) ==
  /\ s # Fundamental!NoStore /\ ~s.resolved
  /\ Len(s.intents) = s.events + 1 /\ Fundamental!Last(s.intents).auth # None

(* An operator goes through the plan once: what it has not come to was     *)
(* never sent, and what it has passed was answered.                        *)
OperatorAt(p, a, r, h, at) ==
  /\ at # "idle" => a \in Authorizations /\ r \in Roots /\ expected[a] # "unissued"
  /\ at \in {"enter", "claim", "create"} => h = 0
  /\ at \in Claimed => record[a] = r
  /\ at \in Claimed \ {"replay", "stage", "commit"} => h < Fundamental!Planned /\ 1 .. h \subseteq good[a]
  /\ at \in {"create", "entry", "dispatch"} => \A n \in Asked : n > h => sent[a][n] = 0
  /\ at \in {"event", "checkpoint"} => h + 1 \in good[a] /\ \A n \in Asked : n > h + 1 => sent[a][n] = 0
  /\ at \in {"replay", "stage", "commit"} => good[a] = Asked
  /\ at = "commit" => prior[a] = expected[a]
  /\ at \in Scanning => scan[r] = p /\ AtWork(p, store[r])

OperatorInv(p) == OperatorAt(p, local[p].auth, local[p].root, local[p].head, phase[p])

(* An authorization is claimed once. *)
OneClaims ==
  \A p, q \in Operators :
    phase[p] \in Claimed /\ phase[q] \in Claimed /\ local[p].auth = local[q].auth => p = q

AuthorizationInv(a) ==
  /\ \A n \in Asked : sent[a][n] <= 1 /\ (record[a] = None => sent[a][n] = 0)
  /\ pointer = a => record[a] \in Roots /\ good[a] = Asked /\ expected[a] = prior[a] /\ expected[a] # "unissued"
  /\ verdict[a] # "refused" /\ (verdict[a] = "built" => good[a] = Asked)

StoreInv(r) ==
  store[r] # Fundamental!NoStore /\ store[r].resolved =>
    store[r].known /\ store[r].stop /\ Len(store[r].intents) = store[r].events + 1

RefreshInv ==
  /\ RefreshTypes /\ OneClaims
  /\ \A p \in Operators : OperatorInv(p)
  /\ \A a \in Authorizations : AuthorizationInv(a)
  /\ \A r \in Roots : StoreInv(r)

-----------------------------------------------------------------------------
LEMMA RefreshNames ==
  /\ Fundamental!Planned \in Nat \ {0} /\ Asked = 1 .. Fundamental!Planned
  /\ None \notin Operators /\ None \notin Authorizations /\ None \notin Roots
  /\ "unissued" \notin Authorizations /\ "unissued" # None
  BY FundamentalConstants DEF Fundamental!RefreshConstants, Fundamental!Planned, Asked, Fundamental!Requests

(* An operator is not disturbed by what leaves its authorization's files,  *)
(* its requests and, while it scans, its store alone.                      *)
LEMMA OperatorKeeps ==
  ASSUME NEW q \in Operators, OperatorInv(q),
         phase'[q] = phase[q], local'[q] = local[q],
         phase[q] # "idle" => expected'[local[q].auth] # "unissued",
         phase[q] = "commit" => expected'[local[q].auth] = expected[local[q].auth],
         phase[q] \in Claimed => /\ record'[local[q].auth] = record[local[q].auth]
                                 /\ prior'[local[q].auth] = prior[local[q].auth]
                                 /\ sent'[local[q].auth] = sent[local[q].auth]
                                 /\ good'[local[q].auth] = good[local[q].auth],
         phase[q] \in Scanning => /\ scan'[local[q].root] = scan[local[q].root]
                                  /\ store'[local[q].root] = store[local[q].root]
  PROVE  OperatorInv(q)'
<1>1. PICK a, r, h, at : a = local[q].auth /\ r = local[q].root /\ h = local[q].head /\ at = phase[q]
  OBVIOUS
<1>2. OperatorAt(q, a, r, h, at)
  BY <1>1 DEF OperatorInv
<1>3. Scanning \subseteq Claimed /\ "commit" \in Claimed /\ "idle" \notin Claimed
  BY DEF Scanning, Claimed
<1>5. at \in Scanning => AtWork(q, store'[r]) /\ scan'[r] = q
  BY <1>1, <1>2, <1>3 DEF OperatorAt
<1>6. /\ at # "idle" => a \in Authorizations /\ r \in Roots /\ expected'[a] # "unissued"
      /\ at = "commit" => prior'[a] = expected'[a]
      /\ at \in Claimed => record'[a] = record[a] /\ sent'[a] = sent[a] /\ good'[a] = good[a]
  BY <1>1, <1>2, <1>3 DEF OperatorAt
<1>7. at \in {"create", "entry", "dispatch", "event", "checkpoint", "replay", "stage", "commit"} => at \in Claimed
  BY DEF Claimed, Scanning
<1>4. OperatorAt(q, a, r, h, at)'
  BY <1>1, <1>2, <1>5, <1>6, <1>7 DEF OperatorAt, AtWork, Asked, Fundamental!Requests, Fundamental!Planned
<1> QED BY <1>1, <1>4 DEF OperatorInv

(* An operator that leaves is nobody's concern. *)
LEMMA LeftBehind ==
  ASSUME NEW p \in Operators, phase'[p] = "idle"
  PROVE  OperatorInv(p)'
  BY DEF OperatorInv, OperatorAt, Claimed, Scanning
(* A step of one operator is seen in its authorization and its root only,  *)
(* and there by nobody who has the authorization or scans the store.       *)
LEMMA OperatorStep ==
  ASSUME RefreshInv, RefreshTypes', NEW p \in Operators, NEW a \in Authorizations, NEW r \in Roots,
         \A q \in Operators \ {p} : phase'[q] = phase[q] /\ local'[q] = local[q],
         phase'[p] \in Claimed => /\ local[p].auth = a /\ local'[p].auth = a
                                  /\ phase[p] \in Claimed \/ record[a] = None,
         UNCHANGED << expected, verdict >>, pointer' \in {pointer, a},
         \A b \in Authorizations : 
           \/ record'[b] = record[b] /\ prior'[b] = prior[b] /\ sent'[b] = sent[b] /\ good'[b] = good[b]
           \/ b = a /\ (record[a] = None \/ (phase[p] \in Claimed /\ local[p].auth = a)),
         \A s \in Roots :
           \/ store'[s] = store[s] /\ scan'[s] = scan[s]
           \/ s = r /\ (scan[r] \in {p, None} \/ store[r] = Fundamental!NoStore),
         OperatorInv(p)', AuthorizationInv(a)', StoreInv(r)'
  PROVE  RefreshInv'
<1>1. ASSUME NEW q \in Operators PROVE OperatorInv(q)'
  <2>1. CASE q = p
    BY <2>1
  <2>2. CASE q # p
    <3>1. OperatorInv(q)
      BY DEF RefreshInv
    <3>2. phase'[q] = phase[q] /\ local'[q] = local[q]
      BY <2>2
    <3>3. phase[q] # "idle" => local[q].auth \in Authorizations /\ local[q].root \in Roots /\ expected[local[q].auth] # "unissued"
      BY <3>1 DEF OperatorInv, OperatorAt
    <3>4. ASSUME phase[q] \in Claimed
          PROVE  /\ record'[local[q].auth] = record[local[q].auth]
                 /\ prior'[local[q].auth] = prior[local[q].auth]
                 /\ sent'[local[q].auth] = sent[local[q].auth]
                 /\ good'[local[q].auth] = good[local[q].auth]
      <4>1. record[local[q].auth] # None
        BY <3>1, <3>3, <3>4, RefreshNames DEF OperatorInv, OperatorAt, Claimed, Scanning
      <4>2. ~(phase[p] \in Claimed /\ local[p].auth = local[q].auth)
        BY <2>2, <3>4 DEF RefreshInv, OneClaims
      <4>3. local[q].auth \in Authorizations
        BY <3>3, <3>4 DEF Claimed, Scanning
      <4> QED BY <4>1, <4>2, <4>3
    <3>5. ASSUME phase[q] \in Scanning
          PROVE  /\ scan'[local[q].root] = scan[local[q].root]
                 /\ store'[local[q].root] = store[local[q].root]
      <4>1. scan[local[q].root] = q /\ store[local[q].root] # Fundamental!NoStore
        BY <3>1, <3>5 DEF OperatorInv, OperatorAt, AtWork
      <4>2. local[q].root \in Roots
        BY <3>3, <3>5 DEF Scanning
      <4> QED BY <2>2, <4>1, <4>2, RefreshNames
    <3>6. phase[q] # "idle" => expected'[local[q].auth] # "unissued"
      BY <3>3
    <3> QED BY <3>1, <3>2, <3>4, <3>5, <3>6, OperatorKeeps
  <2> QED BY <2>1, <2>2
<1>2. OneClaims'
  <2> SUFFICES ASSUME NEW q \in Operators, NEW o \in Operators, q # o,
                      phase'[q] \in Claimed, phase'[o] \in Claimed, local'[q].auth = local'[o].auth
               PROVE  FALSE
    BY DEF OneClaims
  <2>1. \A x \in Operators : phase[x] \in Claimed => record[local[x].auth] # None
    BY RefreshNames DEF RefreshInv, OperatorInv, OperatorAt, Claimed, Scanning
  <2>2. CASE q # p /\ o # p
    BY <2>2 DEF RefreshInv, OneClaims
  <2>3. ASSUME NEW x \in Operators, x # p, phase'[x] \in Claimed, phase'[p] \in Claimed,
               local'[x].auth = local'[p].auth
        PROVE  FALSE
    <3>1. phase[x] \in Claimed /\ local[x].auth = a /\ local[p].auth = a
      BY <2>3
    <3>2. record[a] # None
      BY <2>1, <3>1
    <3> QED BY <2>3, <3>1, <3>2 DEF RefreshInv, OneClaims
  <2> QED BY <2>2, <2>3
<1>3. ASSUME NEW b \in Authorizations PROVE AuthorizationInv(b)'
  <2>1. CASE b = a
    BY <2>1
  <2>2. CASE b # a
    <3>1. AuthorizationInv(b)
      BY DEF RefreshInv
    <3>2. /\ record'[b] = record[b] /\ prior'[b] = prior[b] /\ sent'[b] = sent[b] /\ good'[b] = good[b]
          /\ expected'[b] = expected[b] /\ verdict'[b] = verdict[b] /\ (pointer' = b => pointer = b)
      BY <2>2
    <3> QED BY <3>1, <3>2 DEF AuthorizationInv, Asked, Fundamental!Requests, Fundamental!Planned
  <2> QED BY <2>1, <2>2
<1>4. ASSUME NEW s \in Roots PROVE StoreInv(s)'
  <2>1. CASE s = r
    BY <2>1
  <2>2. CASE s # r
    BY <2>2 DEF StoreInv, RefreshInv
  <2> QED BY <2>1, <2>2
<1> QED BY <1>1, <1>2, <1>3, <1>4 DEF RefreshInv

(* Where an operator is, with its authorization, its root and its entry.   *)
LEMMA OperatorNow ==
  ASSUME RefreshInv, NEW p \in Operators, phase[p] # "idle"
  PROVE  \E a \in Authorizations, r \in Roots, h \in Nat :
           /\ local[p] = [auth |-> a, root |-> r, head |-> h]
           /\ local[p].auth = a /\ local[p].root = r /\ local[p].head = h
           /\ OperatorAt(p, a, r, h, phase[p]) /\ AuthorizationInv(a) /\ StoreInv(r)
           /\ expected[a] # "unissued" /\ Fundamental!Entry(p) = h + 1
<1>1. local[p] \in RefreshLocal /\ OperatorInv(p)
  BY DEF RefreshInv, RefreshTypes
<1>2. PICK a, r, h : a = local[p].auth /\ r = local[p].root /\ h = local[p].head
  OBVIOUS
<1>3. OperatorAt(p, a, r, h, phase[p])
  BY <1>1, <1>2 DEF OperatorInv
<1>4. a \in Authorizations /\ r \in Roots /\ expected[a] # "unissued" /\ h \in Nat
  BY <1>1, <1>2, <1>3 DEF OperatorAt, RefreshLocal
<1>5. local[p] = [auth |-> a, root |-> r, head |-> h]
  BY <1>1, <1>2 DEF RefreshLocal
<1> QED BY <1>2, <1>3, <1>4, <1>5 DEF RefreshInv, Fundamental!Entry

(* Leaving changes nothing else.                                           *)
LEMMA RefreshLeaves ==
  ASSUME RefreshTypes, NEW p \in Operators, Fundamental!Leave(p)
  PROVE  /\ phase' \in [Operators -> RefreshPhases] /\ local' \in [Operators -> RefreshLocal]
         /\ phase'[p] = "idle" /\ \A q \in Operators \ {p} : phase'[q] = phase[q] /\ local'[q] = local[q]
         /\ OperatorInv(p)'
<1>1. Fundamental!Fresh \in RefreshLocal
  BY DEF Fundamental!Fresh, RefreshLocal
<1>2. /\ phase' = [phase EXCEPT ![p] = "idle"] /\ local' = [local EXCEPT ![p] = Fundamental!Fresh]
      /\ phase \in [Operators -> RefreshPhases] /\ local \in [Operators -> RefreshLocal]
  BY DEF Fundamental!Leave, Fundamental!Goto, RefreshTypes
<1> QED BY <1>1, <1>2, LeftBehind DEF RefreshPhases

LEMMA RefreshGoes ==
  ASSUME RefreshTypes, NEW p \in Operators, NEW at \in RefreshPhases, Fundamental!Goto(p, at)
  PROVE  /\ phase' \in [Operators -> RefreshPhases]
         /\ phase'[p] = at /\ \A q \in Operators \ {p} : phase'[q] = phase[q]
  BY DEF Fundamental!Goto, RefreshTypes
(* What a step without effect on the files does to the rest.               *)
Quiet == UNCHANGED << expected, record, store, prior, pointer, verdict, scan, sent, good >>

LEMMA QuietTypes ==
  ASSUME RefreshTypes, Quiet, phase' \in [Operators -> RefreshPhases], local' \in [Operators -> RefreshLocal]
  PROVE  RefreshTypes'
  BY DEF Quiet, RefreshTypes, Asked, Fundamental!Requests, Fundamental!Planned

LEMMA QuietStep ==
  ASSUME RefreshInv, Quiet, NEW p \in Operators,
         phase' \in [Operators -> RefreshPhases], local' \in [Operators -> RefreshLocal],
         \A q \in Operators \ {p} : phase'[q] = phase[q] /\ local'[q] = local[q],
         phase'[p] \in Claimed => phase[p] \in Claimed /\ local'[p].auth = local[p].auth,
         OperatorInv(p)', NEW a \in Authorizations, NEW r \in Roots,
         phase'[p] \in Claimed => local[p].auth = a
  PROVE  RefreshInv'
<1>1. RefreshTypes'
  BY QuietTypes DEF RefreshInv
<1>2. AuthorizationInv(a)' /\ StoreInv(r)'
  BY DEF RefreshInv, AuthorizationInv, StoreInv, Quiet, Asked, Fundamental!Requests, Fundamental!Planned
<1> QED BY <1>1, <1>2, OperatorStep DEF Quiet

LEMMA StartKeeps ==
  ASSUME RefreshInv, NEW p \in Operators, NEW a \in Authorizations, NEW r \in Roots, Fundamental!Start(p, a, r)
  PROVE  RefreshInv'
<1>1. phase[p] = "idle" /\ expected[a] = pointer /\ Fundamental!Goto(p, "enter") /\ Quiet
      /\ local' = [local EXCEPT ![p] = [auth |-> a, root |-> r, head |-> 0]]
  BY DEF Fundamental!Start, Quiet, Fundamental!disk, Fundamental!published, Fundamental!wire
<1>3. local \in [Operators -> RefreshLocal] /\ RefreshTypes /\ pointer \in Authorizations \cup {None}
  BY DEF RefreshInv, RefreshTypes
<1>4. local' \in [Operators -> RefreshLocal] /\ local'[p] = [auth |-> a, root |-> r, head |-> 0]
      /\ \A q \in Operators \ {p} : local'[q] = local[q]
  <2>1. PICK new : new = [auth |-> a, root |-> r, head |-> 0]
    OBVIOUS
  <2>2. new \in RefreshLocal
    BY <2>1 DEF RefreshLocal
  <2> QED BY <1>1, <1>3, <2>1, <2>2
<1>5. phase' \in [Operators -> RefreshPhases] /\ phase'[p] = "enter" /\ \A q \in Operators \ {p} : phase'[q] = phase[q]
  BY <1>1, <1>3, RefreshGoes DEF RefreshPhases
<1>6. expected'[a] # "unissued"
  BY <1>1, <1>3, RefreshNames DEF Quiet
<1>7. OperatorInv(p)'
  BY <1>4, <1>5, <1>6 DEF OperatorInv, OperatorAt, Claimed, Scanning
<1> QED BY <1>1, <1>4, <1>5, <1>7, QuietStep DEF Claimed, Scanning

LEMMA LeavesKeeps ==
  ASSUME RefreshInv, Quiet, NEW p \in Operators, phase[p] # "idle", Fundamental!Leave(p)
  PROVE  RefreshInv'
<1>1. PICK a \in Authorizations, r \in Roots : TRUE
  BY OperatorNow
<1> QED BY <1>1, RefreshLeaves, QuietStep DEF RefreshInv, Claimed, Scanning

LEMMA EnterClaimKeeps ==
  ASSUME RefreshInv, NEW p \in Operators, Fundamental!EnterClaim(p)
  PROVE  RefreshInv'
<1>1. phase[p] = "enter" /\ Quiet /\ (Fundamental!Leave(p) \/ (Fundamental!Goto(p, "claim") /\ local' = local))
  BY DEF Fundamental!EnterClaim, Quiet, Fundamental!disk, Fundamental!published, Fundamental!wire
<1>2. PICK a \in Authorizations, r \in Roots, h \in Nat :
        /\ local[p] = [auth |-> a, root |-> r, head |-> h] /\ local[p].auth = a /\ local[p].root = r /\ local[p].head = h
        /\ OperatorAt(p, a, r, h, phase[p]) /\ expected[a] # "unissued"
  BY <1>1, OperatorNow
<1>3. CASE Fundamental!Goto(p, "claim") /\ local' = local
  <2>1. phase' \in [Operators -> RefreshPhases] /\ phase'[p] = "claim" /\ \A q \in Operators \ {p} : phase'[q] = phase[q]
    BY <1>3, RefreshGoes DEF RefreshPhases, RefreshInv
  <2>2. h = 0
    BY <1>1, <1>2 DEF OperatorAt
  <2>3. OperatorInv(p)'
    BY <1>1, <1>2, <1>3, <2>1, <2>2 DEF OperatorInv, OperatorAt, Claimed, Scanning, Quiet
  <2> QED BY <1>1, <1>2, <1>3, <2>1, <2>3, QuietStep DEF Claimed, Scanning, RefreshInv, RefreshTypes
<1> QED BY <1>1, <1>3, LeavesKeeps

LEMMA ClaimKeeps ==
  ASSUME RefreshInv, NEW p \in Operators, Fundamental!Claim(p)
  PROVE  RefreshInv'
<1>1. PICK a \in Authorizations, r \in Roots, h \in Nat :
        /\ local[p] = [auth |-> a, root |-> r, head |-> h] /\ local[p].auth = a /\ local[p].root = r /\ local[p].head = h
        /\ OperatorAt(p, a, r, h, phase[p]) /\ AuthorizationInv(a) /\ StoreInv(r) /\ expected[a] # "unissued"
  BY OperatorNow DEF Fundamental!Claim
<1>2. /\ phase[p] = "claim" /\ UNCHANGED << expected, store, prior, pointer, verdict, scan, sent, good >>
      /\ (Fundamental!Goto(p, "create") /\ local' = local) \/ Fundamental!Leave(p)
      /\ \/ record' = record
         \/ record[a] = None /\ record' = [record EXCEPT ![a] = r]
         \/ record[a] = None /\ record' = [record EXCEPT ![a] = "part"] /\ Fundamental!Leave(p)
      /\ Fundamental!Goto(p, "create") => record[a] = None /\ record' = [record EXCEPT ![a] = r]
  <2>1. phase[p] = "claim" /\ UNCHANGED << expected, store, prior, pointer, verdict, scan, sent, good >>
    BY DEF Fundamental!Claim, Fundamental!published, Fundamental!wire
  <2>2. Fundamental!Leave(p) => ~Fundamental!Goto(p, "create")
    BY <2>1 DEF Fundamental!Leave, Fundamental!Goto, RefreshInv, RefreshTypes
  <2> QED BY <1>1, <2>1, <2>2 DEF Fundamental!Claim, Fundamental!Leaves
<1>3. /\ RefreshTypes /\ DOMAIN record' = Authorizations
      /\ \A b \in Authorizations : record'[b] = record[b] \/ (b = a /\ record[a] = None)
      /\ (\A n \in Asked : sent[a][n] <= 1 /\ (record[a] = None => sent[a][n] = 0))
  BY <1>1, <1>2 DEF RefreshInv, RefreshTypes, AuthorizationInv
<1>4. AuthorizationInv(a)' /\ StoreInv(r)'
  <2>1. pointer = a => record[a] \in Roots
    BY <1>1 DEF AuthorizationInv
  <2>2. pointer = a => record'[a] = record[a]
    BY <1>3, <2>1, RefreshNames
  <2>3. \A n \in Asked : sent'[a][n] <= 1 /\ (record'[a] = None => sent'[a][n] = 0)
    <3>1. record'[a] = None => record[a] = None
      BY <1>3
    <3> QED BY <1>2, <1>3, <3>1 
  <2> QED BY <1>1, <1>2, <2>2, <2>3 DEF AuthorizationInv, StoreInv, Asked, Fundamental!Requests, Fundamental!Planned
<1>5. ASSUME phase' \in [Operators -> RefreshPhases], local' \in [Operators -> RefreshLocal] PROVE RefreshTypes'
  BY <1>2, <1>3, <1>5 DEF RefreshTypes, Asked, Fundamental!Requests, Fundamental!Planned
<1>6. CASE Fundamental!Goto(p, "create") /\ local' = local
  <2>1. phase' \in [Operators -> RefreshPhases] /\ phase'[p] = "create" /\ \A q \in Operators \ {p} : phase'[q] = phase[q]
    BY <1>3, <1>6, RefreshGoes DEF RefreshPhases, Claimed
  <2>2. h = 0 /\ record[a] = None /\ record'[a] = r
    BY <1>1, <1>2, <1>3, <1>6 DEF OperatorAt, RefreshTypes
  <2>3. OperatorAt(p, a, r, h, "create")'
    <3>1. 1 .. h = {} /\ h < Fundamental!Planned
      BY <2>2, RefreshNames
    <3>2. \A n \in Asked : sent'[a][n] = 0
      BY <1>2, <1>3, <2>2
    <3> QED BY <1>1, <1>2, <2>2, <3>1, <3>2 DEF OperatorAt, Claimed, Scanning, Asked, Fundamental!Requests, Fundamental!Planned
  <2>4. OperatorInv(p)'
    BY <1>1, <1>6, <2>1, <2>3 DEF OperatorInv
  <2>5. RefreshTypes'
    BY <1>3, <1>5, <1>6, <2>1 DEF RefreshTypes
  <2> QED BY <1>1, <1>2, <1>3, <1>4, <1>6, <2>1, <2>2, <2>4, <2>5, OperatorStep
<1>7. CASE Fundamental!Leave(p)
  <2>1. /\ phase' \in [Operators -> RefreshPhases] /\ local' \in [Operators -> RefreshLocal]
        /\ phase'[p] = "idle" /\ \A q \in Operators \ {p} : phase'[q] = phase[q] /\ local'[q] = local[q]
        /\ OperatorInv(p)'
    BY <1>3, <1>7, RefreshLeaves
  <2>2. RefreshTypes' /\ "idle" \notin Claimed
    BY <1>5, <2>1 DEF Claimed, Scanning
  <2> QED BY <1>1, <1>2, <1>3, <1>4, <2>1, <2>2, OperatorStep
<1> QED BY <1>2, <1>6, <1>7
(* A step that has effect on one store alone, and on its scan lock.        *)
LEMMA RootStep ==
  ASSUME RefreshInv, NEW p \in Operators, NEW a \in Authorizations, NEW r \in Roots, NEW new \in RefreshStore,
         UNCHANGED << expected, record, prior, pointer, verdict, sent, good >>,
         store' \in {store, [store EXCEPT ![r] = new]}, scan' \in [Roots -> Operators \cup {None}], \A s \in Roots \ {r} : scan'[s] = scan[s],
         scan[r] \in {p, None} \/ (store[r] = Fundamental!NoStore /\ scan' = scan),
         new.resolved => new.known /\ new.stop /\ Len(new.intents) = new.events + 1,
         phase' \in [Operators -> RefreshPhases], local' \in [Operators -> RefreshLocal],
         \A q \in Operators \ {p} : phase'[q] = phase[q] /\ local'[q] = local[q],
         phase'[p] \in Claimed => phase[p] \in Claimed /\ local[p].auth = a /\ local'[p].auth = a,
         OperatorInv(p)'
  PROVE  RefreshInv'
<1>1. store \in [Roots -> RefreshStore] /\ RefreshTypes /\ AuthorizationInv(a) /\ StoreInv(r)
  BY DEF RefreshInv, RefreshTypes
<1>2. store' \in [Roots -> RefreshStore] /\ \A s \in Roots \ {r} : store'[s] = store[s]
      /\ store'[r] \in {store[r], new}
  BY <1>1
<1>3. RefreshTypes'
  BY <1>1, <1>2 DEF RefreshTypes, Asked, Fundamental!Requests, Fundamental!Planned
<1>4. StoreInv(r)'
  <2>1. CASE store'[r] = store[r]
    BY <1>1, <2>1 DEF StoreInv
  <2>2. CASE store'[r] = new
    BY <2>2 DEF StoreInv
  <2> QED BY <1>2, <2>1, <2>2
<1>5. AuthorizationInv(a)'
  BY <1>1 DEF AuthorizationInv, Asked, Fundamental!Requests, Fundamental!Planned
<1> QED BY <1>2, <1>3, <1>4, <1>5, OperatorStep

LEMMA CreateStoreKeeps ==
  ASSUME RefreshInv, NEW p \in Operators, Fundamental!CreateStore(p)
  PROVE  RefreshInv'
<1>1. PICK a \in Authorizations, r \in Roots, h \in Nat :
        /\ local[p] = [auth |-> a, root |-> r, head |-> h] /\ local[p].auth = a /\ local[p].root = r /\ local[p].head = h
        /\ OperatorAt(p, a, r, h, phase[p]) /\ expected[a] # "unissued"
  BY OperatorNow DEF Fundamental!CreateStore
<1> DEFINE made == Fundamental!NewStore(a)
           part == [made EXCEPT !.torn = TRUE]
<1>0. made \in RefreshStore /\ ~made.resolved
  BY DEF Fundamental!NewStore, RefreshStore
<1> HIDE DEF made
<1>2. part \in RefreshStore /\ ~part.resolved
  BY <1>0 DEF RefreshStore
<1> HIDE DEF part
<1>3. /\ phase[p] = "create" /\ UNCHANGED << expected, record, prior, pointer, verdict, scan, sent, good >>
      /\ \/ store[r] = Fundamental!NoStore /\ store' = [store EXCEPT ![r] = made] /\ Fundamental!Goto(p, "entry") /\ local' = local
         \/ store[r] = Fundamental!NoStore /\ store' = [store EXCEPT ![r] = part] /\ Fundamental!Leave(p)
         \/ store' = store /\ Fundamental!Leave(p)
  BY <1>1 DEF Fundamental!CreateStore, Fundamental!published, Fundamental!wire, made, part
<1>4. RefreshTypes /\ scan \in [Roots -> Operators \cup {None}]
  BY DEF RefreshInv, RefreshTypes
<1>5. CASE store[r] = Fundamental!NoStore /\ store' = [store EXCEPT ![r] = made] /\ Fundamental!Goto(p, "entry") /\ local' = local
  <2>1. phase' \in [Operators -> RefreshPhases] /\ phase'[p] = "entry" /\ \A q \in Operators \ {p} : phase'[q] = phase[q]
    BY <1>4, <1>5, RefreshGoes DEF RefreshPhases, Claimed
  <2>2. OperatorAt(p, a, r, h, "entry")'
    BY <1>1, <1>3 DEF OperatorAt, Claimed, Scanning, Asked, Fundamental!Requests, Fundamental!Planned
  <2>3. OperatorInv(p)' /\ local' \in [Operators -> RefreshLocal]
    BY <1>1, <1>4, <1>5, <2>1, <2>2 DEF OperatorInv, RefreshTypes
  <2> QED BY <1>0, <1>1, <1>2, <1>3, <1>4, <1>5, <2>1, <2>3, RootStep DEF Claimed
<1>6. CASE Fundamental!Leave(p) /\ store[r] = Fundamental!NoStore /\ store' = [store EXCEPT ![r] = part]
  BY <1>1, <1>2, <1>3, <1>4, <1>6, RefreshLeaves, RootStep DEF Claimed, Scanning
<1>7. CASE Fundamental!Leave(p) /\ store' = store
  BY <1>3, <1>7, LeavesKeeps DEF Quiet
<1> QED BY <1>3, <1>5, <1>6, <1>7

LEMMA PutIntentKeeps ==
  ASSUME RefreshInv, NEW p \in Operators, Fundamental!PutIntent(p)
  PROVE  RefreshInv'
<1>1. PICK a \in Authorizations, r \in Roots, h \in Nat :
        /\ local[p] = [auth |-> a, root |-> r, head |-> h] /\ local[p].auth = a /\ local[p].root = r /\ local[p].head = h
        /\ OperatorAt(p, a, r, h, phase[p]) /\ StoreInv(r) /\ Fundamental!Entry(p) = h + 1
  BY OperatorNow DEF Fundamental!PutIntent
<1> DEFINE intent == [auth |-> a, entry |-> h + 1]
           asked == [store[r] EXCEPT !.intents = Append(@, intent)]
<1>2. intent = Fundamental!Binding(p) /\ RefreshTypes /\ scan \in [Roots -> Operators \cup {None}]
  BY <1>1 DEF Fundamental!Binding, RefreshInv, RefreshTypes
<1>3. /\ phase[p] = "entry" /\ UNCHANGED << expected, record, prior, pointer, verdict, sent, good >>
      /\ \/ /\ scan[r] = None /\ Fundamental!Replays(store[r], h) /\ store' = [store EXCEPT ![r] = asked]
            /\ \/ scan' = [scan EXCEPT ![r] = p] /\ Fundamental!Goto(p, "dispatch") /\ local' = local
               \/ Fundamental!Leave(p) /\ scan' = scan
         \/ Fundamental!Leave(p) /\ store' = store /\ scan' = scan
  <2>1. [store EXCEPT ![r].intents = Append(@, intent)] = [store EXCEPT ![r] = asked]
    BY <1>2 DEF RefreshTypes
  <2> QED BY <1>1, <1>2, <2>1 DEF Fundamental!PutIntent, Fundamental!published, Fundamental!wire
<1>4. ASSUME Fundamental!Replays(store[r], h)
      PROVE  asked \in RefreshStore /\ AtWork(p, asked)
  <2>1. PICK old : old = store[r]
    OBVIOUS
  <2>2. old \in RefreshStore /\ old # Fundamental!NoStore /\ ~old.resolved /\ Len(old.intents) = old.events
    BY <1>1, <1>2, <1>4, <2>1 DEF Fundamental!Replays, StoreInv, RefreshTypes
  <2>3. PICK before, after : before = old.intents /\ after = Append(before, intent)
    OBVIOUS
  <2>4. before \in Seq([auth : Authorizations \cup {None}, entry : Nat]) /\ intent \in [auth : Authorizations \cup {None}, entry : Nat]
    BY <2>2, <2>3 DEF RefreshStore
  <2> HIDE DEF intent
  <2>5. after \in Seq([auth : Authorizations \cup {None}, entry : Nat]) /\ Len(after) = Len(before) + 1 /\ Fundamental!Last(after) = intent
    BY <2>3, <2>4 DEF Fundamental!Last
  <2>6. asked = [old EXCEPT !.intents = after]
    BY <2>1, <2>3
  <2>7. asked \in RefreshStore /\ ~asked.resolved /\ asked.intents = after /\ asked.events = old.events
    BY <2>2, <2>5, <2>6 DEF RefreshStore
  <2>8. intent.auth # None
    BY RefreshNames DEF intent
  <2>9. asked # Fundamental!NoStore
    BY <2>5, <2>7 DEF Fundamental!NoStore, Fundamental!NewStore
  <2> QED BY <2>2, <2>3, <2>5, <2>7, <2>8, <2>9 DEF AtWork
<1> HIDE DEF asked
<1>5. CASE /\ scan[r] = None /\ Fundamental!Replays(store[r], h) /\ store' = [store EXCEPT ![r] = asked]
           /\ scan' = [scan EXCEPT ![r] = p] /\ Fundamental!Goto(p, "dispatch") /\ local' = local
  <2>1. phase' \in [Operators -> RefreshPhases] /\ phase'[p] = "dispatch" /\ \A q \in Operators \ {p} : phase'[q] = phase[q]
    BY <1>2, <1>5, RefreshGoes DEF RefreshPhases, Claimed, Scanning
  <2>2. scan'[r] = p /\ store'[r] = asked /\ AtWork(p, asked) /\ asked \in RefreshStore
    BY <1>2, <1>4, <1>5 DEF RefreshTypes
  <2>3. AtWork(p, store'[r])
    BY <2>2
  <2>4. OperatorAt(p, a, r, h, "dispatch")'
    BY <1>1, <1>3, <2>2, <2>3 DEF OperatorAt, AtWork, Claimed, Scanning, Asked, Fundamental!Requests, Fundamental!Planned
  <2>5. OperatorInv(p)' /\ local' \in [Operators -> RefreshLocal]
    BY <1>1, <1>2, <1>5, <2>1, <2>4 DEF OperatorInv, RefreshTypes
  <2>6. ~asked.resolved
    BY <2>2 DEF AtWork
  <2> QED BY <1>1, <1>2, <1>3, <1>5, <2>1, <2>2, <2>5, <2>6, RootStep DEF Claimed
<1>6. CASE /\ scan[r] = None /\ Fundamental!Replays(store[r], h) /\ store' = [store EXCEPT ![r] = asked]
           /\ Fundamental!Leave(p) /\ scan' = scan
  <2>1. asked \in RefreshStore /\ ~asked.resolved
    BY <1>4, <1>6 DEF AtWork
  <2> QED BY <1>1, <1>2, <1>3, <1>6, <2>1, RefreshLeaves, RootStep DEF Claimed, Scanning
<1>7. CASE Fundamental!Leave(p) /\ store' = store /\ scan' = scan
  BY <1>3, <1>7, LeavesKeeps DEF Quiet
<1> QED BY <1>3, <1>5, <1>6, <1>7
LEMMA DispatchKeeps ==
  ASSUME RefreshInv, NEW p \in Operators, Fundamental!Dispatch(p)
  PROVE  RefreshInv'
<1>1. PICK a \in Authorizations, r \in Roots, h \in Nat :
        /\ local[p] = [auth |-> a, root |-> r, head |-> h] /\ local[p].auth = a /\ local[p].root = r /\ local[p].head = h
        /\ OperatorAt(p, a, r, h, phase[p]) /\ AuthorizationInv(a) /\ StoreInv(r) /\ Fundamental!Entry(p) = h + 1
  <2>1. phase[p] = "dispatch"
    BY DEF Fundamental!Dispatch
  <2> QED BY <2>1, OperatorNow
<1>2. /\ phase[p] = "dispatch" /\ UNCHANGED << expected, record, store, prior, pointer, verdict, scan, local >>
      /\ \/ Fundamental!Goto(p, "halt") /\ UNCHANGED << sent, good >>
         \/ /\ sent' = [sent EXCEPT ![a][h + 1] = @ + 1]
            /\ \/ good' = [good EXCEPT ![a] = @ \cup {h + 1}] /\ Fundamental!Goto(p, "event")
               \/ good' = good /\ Fundamental!Goto(p, "halt")
  BY <1>1 DEF Fundamental!Dispatch, Fundamental!disk, Fundamental!published, Fundamental!wire
<1>3. /\ RefreshTypes /\ sent \in [Authorizations -> [Asked -> Nat]] /\ good \in [Authorizations -> SUBSET Asked]
      /\ local \in [Operators -> RefreshLocal]
  BY DEF RefreshInv, RefreshTypes
<1>4. /\ h < Fundamental!Planned /\ record[a] = r /\ (\A n \in Asked : n > h => sent[a][n] = 0)
      /\ 1 .. h \subseteq good[a] /\ scan[r] = p /\ AtWork(p, store[r]) /\ expected[a] # "unissued"
  BY <1>1, <1>2 DEF OperatorAt, Claimed, Scanning
<1>5. PICK n : n = h + 1
  OBVIOUS
<1>6. n \in Asked /\ sent[a][n] = 0 /\ record[a] # None
  BY <1>4, <1>5, RefreshNames
<1>7. /\ sent' \in [Authorizations -> [Asked -> Nat]] /\ \A b \in Authorizations \ {a} : sent'[b] = sent[b]
      /\ \A m \in Asked : sent'[a][m] = sent[a][m] \/ (m = n /\ sent'[a][m] = 1)
  BY <1>2, <1>3, <1>5, <1>6
<1>8. /\ good' \in [Authorizations -> SUBSET Asked] /\ \A b \in Authorizations \ {a} : good'[b] = good[b]
      /\ good[a] \subseteq good'[a]
  BY <1>2, <1>3, <1>5, <1>6
<1>9. AuthorizationInv(a)' /\ StoreInv(r)'
  <2>1. good[a] = Asked => good'[a] = Asked
    BY <1>8
  <2>2. \A m \in Asked : sent'[a][m] <= 1 /\ record'[a] # None
    BY <1>1, <1>2, <1>6, <1>7 DEF AuthorizationInv
  <2> QED BY <1>1, <1>2, <2>1, <2>2 DEF AuthorizationInv, StoreInv, Asked, Fundamental!Requests, Fundamental!Planned
<1>10. ASSUME phase' \in [Operators -> RefreshPhases] PROVE RefreshTypes'
  BY <1>2, <1>3, <1>7, <1>8, <1>10 DEF RefreshTypes, Asked, Fundamental!Requests, Fundamental!Planned
<1>11. 1 .. h \subseteq good'[a] /\ \A m \in Asked : m > h + 1 => sent'[a][m] = 0
  <2>1. 1 .. h \subseteq good'[a]
    BY <1>4, <1>8
  <2>2. \A m \in Asked : m > h + 1 => m # n /\ m > h
    BY <1>5, RefreshNames
  <2> QED BY <1>4, <1>7, <2>1, <2>2
<1>12. ASSUME NEW at \in {"event", "halt"}, Fundamental!Goto(p, at), at = "event" => n \in good'[a]
       PROVE  RefreshInv'
  <2>1. phase' \in [Operators -> RefreshPhases] /\ phase'[p] = at /\ \A q \in Operators \ {p} : phase'[q] = phase[q]
    BY <1>3, <1>12, RefreshGoes DEF RefreshPhases, Claimed, Scanning
  <2>2. OperatorAt(p, a, r, h, at)'
    BY <1>1, <1>2, <1>4, <1>5, <1>11, <1>12 DEF OperatorAt, AtWork, Claimed, Scanning, Asked, Fundamental!Requests, Fundamental!Planned
  <2>3. OperatorInv(p)' /\ RefreshTypes'
    BY <1>1, <1>2, <1>10, <2>1, <2>2 DEF OperatorInv
  <2>4. \A b \in Authorizations :
           \/ record'[b] = record[b] /\ prior'[b] = prior[b] /\ sent'[b] = sent[b] /\ good'[b] = good[b]
           \/ b = a /\ phase[p] \in Claimed /\ local[p].auth = a
    BY <1>1, <1>2, <1>7, <1>8 DEF Claimed, Scanning
  <2>5. phase[p] \in Claimed
    BY <1>2 DEF Claimed, Scanning
  <2> QED BY <1>1, <1>2, <1>9, <2>1, <2>3, <2>4, <2>5, OperatorStep
<1>13. Fundamental!Goto(p, "event") => good' = [good EXCEPT ![a] = @ \cup {h + 1}] 
  <2>1. ~(Fundamental!Goto(p, "event") /\ Fundamental!Goto(p, "halt"))
    BY <1>3 DEF Fundamental!Goto, RefreshTypes
  <2> QED BY <1>2, <2>1
<1>14. Fundamental!Goto(p, "event") => n \in good'[a]
  BY <1>3, <1>5, <1>13
<1> QED BY <1>2, <1>12, <1>14

LEMMA PutEventKeeps ==
  ASSUME RefreshInv, NEW p \in Operators, Fundamental!PutEvent(p)
  PROVE  RefreshInv'
<1>1. PICK a \in Authorizations, r \in Roots, h \in Nat :
        /\ local[p] = [auth |-> a, root |-> r, head |-> h] /\ local[p].auth = a /\ local[p].root = r /\ local[p].head = h
        /\ OperatorAt(p, a, r, h, phase[p])
  BY OperatorNow DEF Fundamental!PutEvent
<1> DEFINE done == [store[r] EXCEPT !.events = @ + 1]
           part(t) == [store[r] EXCEPT !.torn = t]
<1>2. RefreshTypes /\ scan \in [Roots -> Operators \cup {None}] /\ store[r] \in RefreshStore /\ local \in [Operators -> RefreshLocal]
  BY DEF RefreshInv, RefreshTypes
<1>3. /\ phase[p] = "event" /\ UNCHANGED << expected, record, prior, pointer, verdict, local, sent, good >>
      /\ \/ /\ store' = [store EXCEPT ![r] = done] /\ scan' = [scan EXCEPT ![r] = None]
            /\ Fundamental!Goto(p, "checkpoint")
         \/ /\ \E t \in BOOLEAN : store' = [store EXCEPT ![r] = part(t)]
            /\ Fundamental!Goto(p, "halt") /\ scan' = scan
  <2>1. [store EXCEPT ![r].events = @ + 1] = [store EXCEPT ![r] = done]
        /\ \A t \in BOOLEAN : [store EXCEPT ![r].torn = t] = [store EXCEPT ![r] = part(t)]
    BY <1>2 DEF RefreshTypes
  <2> QED BY <1>1, <2>1 DEF Fundamental!PutEvent, Fundamental!published, Fundamental!wire
<1>4. scan[r] = p /\ AtWork(p, store[r]) /\ phase[p] \in Claimed
  BY <1>1, <1>3 DEF OperatorAt, Claimed, Scanning
<1>5. done \in RefreshStore /\ ~done.resolved
  <2>1. PICK old, n : old = store[r] /\ n = old.events + 1
    OBVIOUS
  <2>2. n \in Nat /\ done = [old EXCEPT !.events = n]
    BY <1>2, <2>1 DEF RefreshStore
  <2> QED BY <1>2, <1>4, <2>1, <2>2 DEF RefreshStore, AtWork
<1>6. \A t \in BOOLEAN : part(t) \in RefreshStore /\ ~part(t).resolved /\ AtWork(p, part(t))
  <2> TAKE t \in BOOLEAN
  <2>1. PICK old, new : old = store[r] /\ new = part(t)
    OBVIOUS
  <2>2. /\ new \in RefreshStore /\ new.resolved = old.resolved /\ new.intents = old.intents /\ new.events = old.events
    BY <1>2, <2>1 DEF RefreshStore
  <2>3. Len(old.intents) = old.events + 1 /\ old.events \in Nat
    BY <1>2, <1>4, <2>1 DEF AtWork, RefreshStore
  <2>4. new # Fundamental!NoStore
    BY <2>2, <2>3 DEF Fundamental!NoStore, Fundamental!NewStore
  <2> QED BY <1>4, <2>1, <2>2, <2>4 DEF AtWork
<1> HIDE DEF done, part
<1>7. CASE store' = [store EXCEPT ![r] = done] /\ scan' = [scan EXCEPT ![r] = None] /\ Fundamental!Goto(p, "checkpoint")
  <2>1. phase' \in [Operators -> RefreshPhases] /\ phase'[p] = "checkpoint" /\ \A q \in Operators \ {p} : phase'[q] = phase[q]
    BY <1>2, <1>7, RefreshGoes DEF RefreshPhases, Claimed, Scanning
  <2>2. OperatorAt(p, a, r, h, "checkpoint")'
    BY <1>1, <1>3 DEF OperatorAt, Claimed, Scanning, Asked, Fundamental!Requests, Fundamental!Planned
  <2>3. OperatorInv(p)'
    BY <1>1, <1>3, <2>1, <2>2 DEF OperatorInv
  <2>4. scan' \in [Roots -> Operators \cup {None}] /\ \A s \in Roots \ {r} : scan'[s] = scan[s]
    BY <1>2, <1>7
  <2> QED BY <1>1, <1>2, <1>3, <1>4, <1>5, <1>7, <2>1, <2>3, <2>4, RootStep
<1>8. ASSUME NEW t \in BOOLEAN, store' = [store EXCEPT ![r] = part(t)], Fundamental!Goto(p, "halt"), scan' = scan
      PROVE  RefreshInv'
  <2>1. phase' \in [Operators -> RefreshPhases] /\ phase'[p] = "halt" /\ \A q \in Operators \ {p} : phase'[q] = phase[q]
    BY <1>2, <1>8, RefreshGoes DEF RefreshPhases, Claimed, Scanning
  <2>2. PICK new : new = part(t)
    OBVIOUS
  <2>3. store'[r] = new /\ AtWork(p, new) /\ new \in RefreshStore /\ ~new.resolved
    BY <1>2, <1>6, <1>8, <2>2 DEF RefreshTypes
  <2>4. AtWork(p, store[r])'
    BY <2>3 DEF AtWork
  <2>5. OperatorAt(p, a, r, h, "halt")'
    BY <1>1, <1>3, <1>4, <1>8, <2>4 DEF OperatorAt, AtWork, Claimed, Scanning, Asked, Fundamental!Requests, Fundamental!Planned
  <2>6. OperatorInv(p)'
    BY <1>1, <1>3, <2>1, <2>5 DEF OperatorInv
  <2>7. store' \in {store, [store EXCEPT ![r] = new]}
    BY <1>8, <2>2
  <2>8. /\ new \in RefreshStore /\ ~new.resolved /\ UNCHANGED << expected, record, prior, pointer, verdict, sent, good >>
        /\ scan' \in [Roots -> Operators \cup {None}] /\ (\A s \in Roots \ {r} : scan'[s] = scan[s]) /\ scan[r] \in {p, None}
        /\ phase' \in [Operators -> RefreshPhases] /\ local' \in [Operators -> RefreshLocal]
        /\ \A q \in Operators \ {p} : phase'[q] = phase[q] /\ local'[q] = local[q]
        /\ phase[p] \in Claimed /\ local[p].auth = a /\ local'[p].auth = a
    BY <1>1, <1>2, <1>3, <1>4, <1>8, <2>1, <2>3
  <2> QED BY <2>6, <2>7, <2>8, RootStep
<1> QED BY <1>3, <1>7, <1>8

LEMMA HaltKeeps ==
  ASSUME RefreshInv, NEW p \in Operators, Fundamental!Halt(p)
  PROVE  RefreshInv'
<1>1. PICK a \in Authorizations, r \in Roots, h \in Nat :
        local[p].root = r /\ OperatorAt(p, a, r, h, phase[p])
  BY OperatorNow DEF Fundamental!Halt
<1>2. RefreshTypes /\ scan \in [Roots -> Operators \cup {None}] /\ store \in [Roots -> RefreshStore]
  BY DEF RefreshInv, RefreshTypes
<1>3. PICK written \in BOOLEAN :
        /\ phase[p] = "halt" /\ UNCHANGED << expected, record, prior, pointer, verdict, sent, good >>
        /\ store' = [store EXCEPT ![r].stop = written] /\ scan' = [scan EXCEPT ![r] = None] /\ Fundamental!Leave(p)
  BY <1>1 DEF Fundamental!Halt, Fundamental!published, Fundamental!wire
<1>4. PICK new : new = [store[r] EXCEPT !.stop = written]
  OBVIOUS
<1>5. scan[r] = p /\ AtWork(p, store[r])
  BY <1>1, <1>3 DEF OperatorAt, Scanning
<1>6. new \in RefreshStore /\ ~new.resolved /\ store' = [store EXCEPT ![r] = new]
  BY <1>2, <1>3, <1>4, <1>5 DEF RefreshStore, AtWork
<1>7. scan' \in [Roots -> Operators \cup {None}] /\ \A s \in Roots \ {r} : scan'[s] = scan[s]
  BY <1>2, <1>3
<1>8. /\ phase' \in [Operators -> RefreshPhases] /\ local' \in [Operators -> RefreshLocal]
      /\ phase'[p] = "idle" /\ \A q \in Operators \ {p} : phase'[q] = phase[q] /\ local'[q] = local[q]
      /\ OperatorInv(p)' /\ "idle" \notin Claimed
  BY <1>2, <1>3, RefreshLeaves DEF Claimed, Scanning
<1>9. /\ UNCHANGED << expected, record, prior, pointer, verdict, sent, good >> /\ scan[r] \in {p, None}
      /\ store' \in {store, [store EXCEPT ![r] = new]} /\ new \in RefreshStore
      /\ new.resolved => new.known /\ new.stop /\ Len(new.intents) = new.events + 1
  BY <1>3, <1>5, <1>6
<1>10. phase'[p] \in Claimed => phase[p] \in Claimed /\ local[p].auth = a /\ local'[p].auth = a
  BY <1>8
<1> QED BY <1>7, <1>8, <1>9, <1>10, RootStep
LEMMA PutCheckpointKeeps ==
  ASSUME RefreshInv, NEW p \in Operators, Fundamental!PutCheckpoint(p)
  PROVE  RefreshInv'
<1>1. PICK a \in Authorizations, r \in Roots, h \in Nat :
        /\ local[p] = [auth |-> a, root |-> r, head |-> h] /\ local[p].auth = a /\ local[p].root = r /\ local[p].head = h
        /\ OperatorAt(p, a, r, h, phase[p]) /\ Fundamental!Entry(p) = h + 1
  BY OperatorNow DEF Fundamental!PutCheckpoint
<1>2. PICK at : at = IF h + 1 = Fundamental!Planned THEN "replay" ELSE "entry"
  OBVIOUS
<1>3. /\ phase[p] = "checkpoint" /\ Quiet
      /\ \/ local' = [local EXCEPT ![p].head = @ + 1] /\ Fundamental!Goto(p, at)
         \/ Fundamental!Leave(p)
  BY <1>1, <1>2 DEF Fundamental!PutCheckpoint, Quiet, Fundamental!disk, Fundamental!published, Fundamental!wire
<1>4. RefreshTypes /\ local \in [Operators -> RefreshLocal] /\ good[a] \subseteq Asked
  BY DEF RefreshInv, RefreshTypes
<1>5. CASE local' = [local EXCEPT ![p].head = @ + 1] /\ Fundamental!Goto(p, at)
  <2>1. phase' \in [Operators -> RefreshPhases] /\ phase'[p] = at /\ \A q \in Operators \ {p} : phase'[q] = phase[q]
    BY <1>2, <1>4, <1>5, RefreshGoes DEF RefreshPhases, Claimed
  <2>2. local'[p] = [auth |-> a, root |-> r, head |-> h + 1] /\ \A q \in Operators \ {p} : local'[q] = local[q]
    BY <1>1, <1>4, <1>5
  <2>3. local' \in [Operators -> RefreshLocal] /\ local'[p].auth = a /\ local'[p].root = r /\ local'[p].head = h + 1
    BY <1>1, <1>4, <1>5, <2>2 DEF RefreshLocal
  <2>4. /\ record[a] = r /\ expected[a] # "unissued" /\ h < Fundamental!Planned /\ 1 .. h \subseteq good[a] /\ h + 1 \in good[a]
        /\ \A n \in Asked : n > h + 1 => sent[a][n] = 0
    BY <1>1, <1>3 DEF OperatorAt, Claimed, Scanning
  <2>9. PICK n : n = h + 1
    OBVIOUS
  <2>10. n \in Nat /\ \A m \in 1 .. n : m \in 1 .. h \/ m = n
    BY <2>9
  <2>5. 1 .. h + 1 \subseteq good[a] /\ (h + 1 = Fundamental!Planned => good[a] = Asked)
        /\ (h + 1 # Fundamental!Planned => h + 1 < Fundamental!Planned)
    <3>1. 1 .. n \subseteq good[a] /\ 1 .. h + 1 = 1 .. n
      BY <2>4, <2>9, <2>10
    <3>2. h + 1 = Fundamental!Planned => good[a] = Asked
      BY <1>4, <2>9, <3>1, RefreshNames
    <3>3. h + 1 # Fundamental!Planned => h + 1 < Fundamental!Planned
      BY <2>4, RefreshNames
    <3> QED BY <3>1, <3>2, <3>3
  <2>6. OperatorAt(p, a, r, h + 1, at)'
    BY <1>2, <1>3, <2>4, <2>5 DEF OperatorAt, Quiet, Claimed, Scanning, Asked, Fundamental!Requests, Fundamental!Planned
  <2>7. OperatorInv(p)'
    BY <2>1, <2>3, <2>6 DEF OperatorInv
  <2>8. phase[p] \in Claimed
    BY <1>3 DEF Claimed
  <2> QED BY <1>1, <1>3, <2>1, <2>2, <2>3, <2>7, <2>8, QuietStep
<1>6. CASE Fundamental!Leave(p)
  BY <1>3, <1>6, LeavesKeeps
<1> QED BY <1>3, <1>5, <1>6

LEMMA FinalReplayKeeps ==
  ASSUME RefreshInv, NEW p \in Operators, Fundamental!FinalReplay(p)
  PROVE  RefreshInv'
<1>1. PICK a \in Authorizations, r \in Roots, h \in Nat :
        /\ local[p] = [auth |-> a, root |-> r, head |-> h] /\ local[p].auth = a /\ local[p].root = r /\ local[p].head = h
        /\ OperatorAt(p, a, r, h, phase[p])
  BY OperatorNow DEF Fundamental!FinalReplay
<1>2. /\ phase[p] = "replay" /\ Quiet /\ ((Fundamental!Goto(p, "stage") /\ local' = local) \/ Fundamental!Leave(p))
  BY DEF Fundamental!FinalReplay, Quiet, Fundamental!disk, Fundamental!published, Fundamental!wire
<1>3. RefreshTypes /\ local \in [Operators -> RefreshLocal]
  BY DEF RefreshInv, RefreshTypes
<1>4. CASE Fundamental!Goto(p, "stage") /\ local' = local
  <2>1. phase' \in [Operators -> RefreshPhases] /\ phase'[p] = "stage" /\ \A q \in Operators \ {p} : phase'[q] = phase[q]
    BY <1>3, <1>4, RefreshGoes DEF RefreshPhases, Claimed
  <2>2. OperatorAt(p, a, r, h, "stage")'
    BY <1>1, <1>2 DEF OperatorAt, Quiet, Claimed, Scanning, Asked, Fundamental!Requests, Fundamental!Planned
  <2>3. OperatorInv(p)' /\ phase[p] \in Claimed
    BY <1>1, <1>2, <1>4, <2>1, <2>2 DEF OperatorInv, Claimed
  <2> QED BY <1>1, <1>2, <1>3, <1>4, <2>1, <2>3, QuietStep
<1> QED BY <1>2, <1>4, LeavesKeeps

LEMMA StageKeeps ==
  ASSUME RefreshInv, NEW p \in Operators, Fundamental!Stage(p)
  PROVE  RefreshInv'
<1>1. PICK a \in Authorizations, r \in Roots, h \in Nat :
        /\ local[p] = [auth |-> a, root |-> r, head |-> h] /\ local[p].auth = a /\ local[p].root = r /\ local[p].head = h
        /\ OperatorAt(p, a, r, h, phase[p]) /\ AuthorizationInv(a) /\ StoreInv(r)
  BY OperatorNow DEF Fundamental!Stage
<1>2. /\ phase[p] = "stage" /\ UNCHANGED << expected, record, store, pointer, verdict, scan, sent, good >>
      /\ \/ /\ pointer = expected[a] /\ prior' = [prior EXCEPT ![a] = pointer]
            /\ Fundamental!Goto(p, "commit") /\ local' = local
         \/ Fundamental!Leave(p) /\ prior' = prior
  BY <1>1 DEF Fundamental!Stage, Fundamental!disk, Fundamental!wire
<1>3. /\ RefreshTypes /\ local \in [Operators -> RefreshLocal] /\ prior \in [Authorizations -> Authorizations \cup {None}]
      /\ pointer \in Authorizations \cup {None}
  BY DEF RefreshInv, RefreshTypes
<1>4. CASE pointer = expected[a] /\ prior' = [prior EXCEPT ![a] = pointer] /\ Fundamental!Goto(p, "commit") /\ local' = local
  <2>1. phase' \in [Operators -> RefreshPhases] /\ phase'[p] = "commit" /\ \A q \in Operators \ {p} : phase'[q] = phase[q]
    BY <1>3, <1>4, RefreshGoes DEF RefreshPhases, Claimed
  <2>2. prior'[a] = expected[a] /\ prior' \in [Authorizations -> Authorizations \cup {None}]
        /\ \A b \in Authorizations \ {a} : prior'[b] = prior[b]
    BY <1>3, <1>4
  <2>3. RefreshTypes'
    BY <1>2, <1>3, <1>4, <2>1, <2>2 DEF RefreshTypes, Asked, Fundamental!Requests, Fundamental!Planned
  <2>4. OperatorAt(p, a, r, h, "commit")'
    BY <1>1, <1>2, <2>2 DEF OperatorAt, Claimed, Scanning, Asked, Fundamental!Requests, Fundamental!Planned
  <2>5. OperatorInv(p)' /\ phase[p] \in Claimed
    BY <1>1, <1>2, <1>4, <2>1, <2>4 DEF OperatorInv, Claimed
  <2>6. AuthorizationInv(a)' /\ StoreInv(r)'
    BY <1>1, <1>2, <2>2 DEF AuthorizationInv, StoreInv, Asked, Fundamental!Requests, Fundamental!Planned
  <2> QED BY <1>1, <1>2, <1>4, <2>1, <2>2, <2>3, <2>5, <2>6, OperatorStep
<1>5. CASE Fundamental!Leave(p) /\ prior' = prior
  BY <1>2, <1>5, LeavesKeeps DEF Quiet
<1> QED BY <1>2, <1>4, <1>5

LEMMA CommitKeeps ==
  ASSUME RefreshInv, NEW p \in Operators, Fundamental!Commit(p)
  PROVE  RefreshInv'
<1>1. PICK a \in Authorizations, r \in Roots, h \in Nat :
        /\ local[p].auth = a /\ OperatorAt(p, a, r, h, phase[p]) /\ AuthorizationInv(a) /\ StoreInv(r)
        /\ expected[a] # "unissued"
  BY OperatorNow DEF Fundamental!Commit
<1>2. /\ phase[p] = "commit" /\ UNCHANGED << expected, record, store, prior, verdict, scan, sent, good >>
      /\ pointer' \in {pointer, a} /\ Fundamental!Leave(p)
  BY <1>1 DEF Fundamental!Commit, Fundamental!disk, Fundamental!wire
<1>3. RefreshTypes
  BY DEF RefreshInv
<1>4. /\ phase' \in [Operators -> RefreshPhases] /\ local' \in [Operators -> RefreshLocal]
      /\ phase'[p] = "idle" /\ \A q \in Operators \ {p} : phase'[q] = phase[q] /\ local'[q] = local[q]
      /\ OperatorInv(p)'
  BY <1>2, <1>3, RefreshLeaves
<1>5. RefreshTypes'
  BY <1>2, <1>3, <1>4 DEF RefreshTypes, Asked, Fundamental!Requests, Fundamental!Planned
<1>6. record[a] \in Roots /\ good[a] = Asked /\ prior[a] = expected[a]
  BY <1>1, <1>2 DEF OperatorAt, Claimed
<1>7. AuthorizationInv(a)' /\ StoreInv(r)'
  BY <1>1, <1>2, <1>6 DEF AuthorizationInv, StoreInv, Asked, Fundamental!Requests, Fundamental!Planned
<1>8. "idle" \notin Claimed
  BY DEF Claimed, Scanning
<1> QED BY <1>2, <1>4, <1>5, <1>7, <1>8, OperatorStep

LEMMA CrashKeeps ==
  ASSUME RefreshInv, NEW p \in Operators, Fundamental!Crash(p)
  PROVE  RefreshInv'
<1>1. phase[p] # "idle"
  BY DEF Fundamental!Crash
<1>2. PICK a \in Authorizations, r \in Roots, h \in Nat :
        local[p].root = r /\ OperatorAt(p, a, r, h, phase[p])
  BY <1>1, OperatorNow
<1>3. RefreshTypes /\ scan \in [Roots -> Operators \cup {None}] /\ store \in [Roots -> RefreshStore]
  BY DEF RefreshInv, RefreshTypes
<1> DEFINE part == [store[r] EXCEPT !.torn = TRUE]
<1>4. /\ Fundamental!Leave(p) /\ UNCHANGED << expected, record, prior, pointer, verdict, sent, good >>
      /\ scan' = [scan EXCEPT ![r] = IF @ = p THEN None ELSE @]
      /\ store' = store \/ (phase[p] = "event" /\ store' = [store EXCEPT ![r] = part])
  <2>1. [store EXCEPT ![r].torn = TRUE] = [store EXCEPT ![r] = part]
    BY <1>3
  <2> QED BY <1>2, <2>1 DEF Fundamental!Crash, Fundamental!published, Fundamental!wire
<1>5. part \in RefreshStore /\ part.resolved = store[r].resolved
  BY <1>3 DEF RefreshStore
<1> HIDE DEF part
<1>6. CASE scan[r] = p /\ phase[p] \in Scanning
  <2>1. ~part.resolved
    BY <1>2, <1>5, <1>6 DEF OperatorAt, AtWork
  <2> QED BY <1>3, <1>4, <1>5, <1>6, <2>1, RefreshLeaves, RootStep DEF Claimed, Scanning
<1>7. CASE scan[r] # p
  <2>1. phase[p] # "event" /\ scan' = scan
    BY <1>2, <1>3, <1>4, <1>7 DEF OperatorAt, Scanning
  <2> QED BY <1>1, <1>4, <2>1, LeavesKeeps DEF Quiet
<1>8. CASE scan[r] = p /\ phase[p] \notin Scanning
  <2>1. store' = store
    BY <1>4, <1>8 DEF Scanning
  <2>2. PICK new : new = [store[r] EXCEPT !.resolved = FALSE]
    OBVIOUS
  <2>3. new \in RefreshStore /\ ~new.resolved
    BY <1>3, <2>2 DEF RefreshStore
  <2> QED BY <1>3, <1>4, <1>8, <2>1, <2>3, RefreshLeaves, RootStep DEF Claimed, Scanning
<1> QED BY <1>6, <1>7, <1>8
LEMMA IssueKeeps ==
  ASSUME RefreshInv, NEW a \in Authorizations, Fundamental!Issue(a)
  PROVE  RefreshInv'
<1>1. /\ expected[a] = "unissued" /\ expected' = [expected EXCEPT ![a] = pointer]
      /\ UNCHANGED << record, store, prior, pointer, verdict, scan, phase, local, sent, good >>
  BY DEF Fundamental!Issue, Fundamental!disk, Fundamental!published, Fundamental!wire
<1>2. RefreshTypes /\ expected \in [Authorizations -> Authorizations \cup {None, "unissued"}] /\ pointer \in Authorizations \cup {None}
  BY DEF RefreshInv, RefreshTypes
<1>3. expected' \in [Authorizations -> Authorizations \cup {None, "unissued"}]
      /\ \A b \in Authorizations : expected[b] # "unissued" => expected'[b] = expected[b]
  BY <1>1, <1>2
<1>4. RefreshTypes'
  BY <1>1, <1>2, <1>3 DEF RefreshTypes, Asked, Fundamental!Requests, Fundamental!Planned
<1>5. ASSUME NEW q \in Operators PROVE OperatorInv(q)'
  <2>1. OperatorInv(q)
    BY DEF RefreshInv
  <2>2. phase[q] # "idle" => local[q].auth \in Authorizations /\ expected[local[q].auth] # "unissued"
    BY <2>1 DEF OperatorInv, OperatorAt
  <2>3. phase[q] = "commit" => phase[q] # "idle"
    OBVIOUS
  <2> QED BY <1>1, <1>3, <2>1, <2>2, <2>3, OperatorKeeps
<1>6. OneClaims' /\ \A r \in Roots : StoreInv(r)'
  BY <1>1 DEF RefreshInv, OneClaims, StoreInv
<1>7. ASSUME NEW b \in Authorizations PROVE AuthorizationInv(b)'
  BY <1>1, <1>3 DEF RefreshInv, AuthorizationInv, Asked, Fundamental!Requests, Fundamental!Planned
<1> QED BY <1>4, <1>5, <1>6, <1>7 DEF RefreshInv

(* What the assembler found missing the consumer finds missing, in the     *)
(* other direction and turned round.                                       *)
LEMMA LackingIs ==
  ASSUME NEW x, NEW y, NEW numbers
  PROVE  Fundamental!Lacking(<< x, y >>, numbers) =
           IF numbers[x] = "VALID_NUMERIC"
             THEN IF numbers[y] = "VALID_NUMERIC" THEN << >> ELSE << y >>
             ELSE IF numbers[y] = "VALID_NUMERIC" THEN << x >> ELSE << x, y >>
<1> DEFINE walk == << x, y >>
           valid(t) == numbers[t] = "VALID_NUMERIC"
           one == IF valid(x) THEN << >> ELSE << x >>
           two == IF valid(y) THEN one ELSE Append(one, y)
           At(f, n) == IF n = 0 THEN << >>
                       ELSE IF valid(walk[n]) THEN f[n - 1] ELSE Append(f[n - 1], walk[n])
           Solves(f) == f = [n \in 0 .. Len(walk) |-> At(f, n)]
           both == [n \in 0 .. 2 |-> IF n = 0 THEN << >> ELSE IF n = 1 THEN one ELSE two]
<1>1. Len(walk) = 2 /\ walk[1] = x /\ walk[2] = y
  OBVIOUS
<1>2. Append(<< >>, x) = << x >> /\ Append(<< >>, y) = << y >> /\ Append(<< x >>, y) = << x, y >>
  <2>2. ASSUME NEW z PROVE Append(<< >>, z) = << z >>
    OBVIOUS
  <2>3. Append(<< x >>, y) = << x, y >>
    <3>1. PICK s, t, u : s = << x >> /\ t = Append(s, y) /\ u = << x, y >>
      OBVIOUS
    <3>2. s \in Seq({x, y}) /\ Len(s) = 1 /\ s[1] = x
      BY <3>1
    <3>3. u \in Seq({x, y}) /\ Len(u) = 2 /\ u[1] = x /\ u[2] = y
      BY <3>1
    <3>4. t \in Seq({x, y}) /\ Len(t) = 2 /\ t[1] = x /\ t[2] = y
      BY <3>1, <3>2
    <3>5. \A i \in 1 .. Len(t) : t[i] = u[i]
      <4>1. \A i \in 1 .. 2 : i = 1 \/ i = 2
        OBVIOUS
      <4> QED BY <3>3, <3>4, <4>1
    <3>6. t = u
      BY <3>3, <3>4, <3>5, SeqEqual
    <3> QED BY <3>1, <3>6
  <2> QED BY <2>2, <2>3
<1>3. two = IF valid(x) THEN IF valid(y) THEN << >> ELSE << y >>
            ELSE IF valid(y) THEN << x >> ELSE << x, y >>
  BY <1>2
<1>4. one = IF valid(x) THEN << >> ELSE Append(<< >>, x)
  BY <1>2
<1> HIDE DEF walk, valid, one
<1>5. ASSUME NEW f
      PROVE  At(f, 0) = << >> /\ (f[0] = << >> => At(f, 1) = one) /\ (f[1] = one => At(f, 2) = two)
  <2>1. At(f, 0) = << >>
    OBVIOUS
  <2>2. ASSUME f[0] = << >> PROVE At(f, 1) = one
    <3>1. 1 - 1 = 0 /\ 1 # 0
      OBVIOUS
    <3> QED BY <1>1, <1>4, <2>2, <3>1
  <2>3. ASSUME f[1] = one PROVE At(f, 2) = two
    <3>1. 2 - 1 = 1 /\ 2 # 0
      OBVIOUS
    <3> QED BY <1>1, <2>3, <3>1
  <2> QED BY <2>1, <2>2, <2>3
<1> HIDE DEF At, two
<1>6. Solves(both)
  <2>1. both[0] = << >> /\ both[1] = one /\ both[2] = two
    OBVIOUS
  <2>2. \A n \in 0 .. 2 : n = 0 \/ n = 1 \/ n = 2
    OBVIOUS
  <2>3. both = [n \in 0 .. 2 |-> both[n]]
    OBVIOUS
  <2> HIDE DEF both
  <2>4. \A n \in 0 .. 2 : both[n] = At(both, n)
    BY <1>5, <2>1, <2>2
  <2> QED BY <1>1, <2>3, <2>4
<1>7. ASSUME NEW f, Solves(f) PROVE f[2] = two
  <2>1. f[0] = At(f, 0) /\ f[1] = At(f, 1) /\ f[2] = At(f, 2)
    BY <1>1, <1>7
  <2> QED BY <1>5, <2>1
<1> HIDE DEF both
<1>8. PICK f : f = CHOOSE g : Solves(g)
  OBVIOUS
<1>9. Solves(f)
  <2> HIDE DEF Solves
  <2> QED BY <1>6, <1>8
<1>10. Fundamental!Lacking(walk, numbers) = f[2]
  BY <1>1, <1>8 DEF Fundamental!Lacking, At, valid
<1> QED BY <1>3, <1>7, <1>9, <1>10 DEF walk, valid

LEMMA RowsAdapt == ASSUME NEW row \in Fundamental!Rows PROVE Fundamental!Adapts(Fundamental!Matrix(row))
<1>1. Fundamental!Reverse(Fundamental!Periods) = << "newer", "older" >>
  BY DEF Fundamental!Reverse, Fundamental!Periods
<1>2. ASSUME NEW d \in {"eps", "revenue"}
      PROVE  Fundamental!Reverse(Fundamental!Lacking(Fundamental!Reverse(Fundamental!Periods), row[d]))
               = Fundamental!Lacking(Fundamental!Periods, row[d])
  <2>1. PICK found : found = Fundamental!Lacking(<< "newer", "older" >>, row[d])
    OBVIOUS
  <2>2. found \in {<< >>, << "older" >>, << "newer" >>, << "newer", "older" >>}
    BY <2>1, LackingIs
  <2>3. /\ Fundamental!Reverse(<< >>) = << >> /\ Fundamental!Reverse(<< "older" >>) = << "older" >>
        /\ Fundamental!Reverse(<< "newer" >>) = << "newer" >>
        /\ Fundamental!Reverse(<< "newer", "older" >>) = << "older", "newer" >>
    BY DEF Fundamental!Reverse
  <2> QED BY <1>1, <2>1, <2>3, LackingIs DEF Fundamental!Periods
<1> QED BY <1>2 DEF Fundamental!Adapts, Fundamental!Matrix

LEMMA ConsumeKeeps ==
  ASSUME RefreshInv, NEW a \in Authorizations, Fundamental!Consume(a)
  PROVE  RefreshInv'
<1>1. /\ pointer = a /\ verdict' = [verdict EXCEPT ![a] = "built"]
      /\ UNCHANGED << expected, record, store, prior, pointer, scan, phase, local, sent, good >>
  BY RowsAdapt DEF Fundamental!Consume, Fundamental!disk, Fundamental!wire
<1>2. RefreshTypes /\ DOMAIN verdict = Authorizations
  BY DEF RefreshInv, RefreshTypes
<1>3. RefreshTypes'
  BY <1>1, <1>2 DEF RefreshTypes, Asked, Fundamental!Requests, Fundamental!Planned
<1>4. ASSUME NEW q \in Operators PROVE OperatorInv(q)'
  <2>1. OperatorInv(q)
    BY DEF RefreshInv
  <2>2. phase[q] # "idle" => expected[local[q].auth] # "unissued"
    BY <2>1 DEF OperatorInv, OperatorAt
  <2> QED BY <1>1, <2>1, <2>2, OperatorKeeps
<1>5. OneClaims' /\ \A r \in Roots : StoreInv(r)'
  BY <1>1 DEF RefreshInv, OneClaims, StoreInv
<1>6. ASSUME NEW b \in Authorizations PROVE AuthorizationInv(b)'
  <2>1. AuthorizationInv(b) /\ AuthorizationInv(a)
    BY DEF RefreshInv
  <2>2. verdict'[b] = verdict[b] \/ (b = a /\ verdict'[b] = "built")
    BY <1>1, <1>2
  <2> QED BY <1>1, <2>1, <2>2 DEF AuthorizationInv, Asked, Fundamental!Requests, Fundamental!Planned
<1> QED BY <1>3, <1>4, <1>5, <1>6 DEF RefreshInv

(* Steps that touch one store, and nobody's at work there.                 *)
LEMMA AsideStep ==
  ASSUME RefreshInv, NEW r \in Roots, NEW new \in RefreshStore, store' = [store EXCEPT ![r] = new],
         UNCHANGED << expected, record, prior, pointer, verdict, scan, phase, local, sent, good >>,
         scan[r] = None \/ Fundamental!Last(store[r].intents).auth = None,
         new.resolved => new.known /\ new.stop /\ Len(new.intents) = new.events + 1
  PROVE  RefreshInv'
<1>1. RefreshTypes /\ store \in [Roots -> RefreshStore]
  BY DEF RefreshInv, RefreshTypes
<1>2. store' \in [Roots -> RefreshStore] /\ store'[r] = new /\ \A s \in Roots \ {r} : store'[s] = store[s]
  BY <1>1
<1>3. RefreshTypes'
  BY <1>1, <1>2 DEF RefreshTypes, Asked, Fundamental!Requests, Fundamental!Planned
<1>4. ASSUME NEW q \in Operators PROVE OperatorInv(q)'
  <2>1. OperatorInv(q)
    BY DEF RefreshInv
  <2>2. phase[q] # "idle" => expected[local[q].auth] # "unissued" /\ local[q].root \in Roots
    BY <2>1 DEF OperatorInv, OperatorAt
  <2>3. ASSUME phase[q] \in Scanning PROVE store'[local[q].root] = store[local[q].root]
    <3>1. scan[local[q].root] = q /\ Fundamental!Last(store[local[q].root].intents).auth # None
      BY <2>1, <2>3 DEF OperatorInv, OperatorAt, AtWork
    <3>2. local[q].root # r /\ local[q].root \in Roots
      BY <2>2, <2>3, <3>1, RefreshNames DEF Scanning
    <3> QED BY <1>2, <3>2
  <2> QED BY <2>1, <2>2, <2>3, OperatorKeeps
<1>5. OneClaims'
  BY DEF RefreshInv, OneClaims
<1>6. ASSUME NEW b \in Authorizations PROVE AuthorizationInv(b)'
  BY DEF RefreshInv, AuthorizationInv, Asked, Fundamental!Requests, Fundamental!Planned
<1>7. ASSUME NEW s \in Roots PROVE StoreInv(s)'
  <2>1. CASE s = r
    BY <1>2, <2>1 DEF StoreInv
  <2>2. CASE s # r
    BY <1>2, <2>2 DEF StoreInv, RefreshInv
  <2> QED BY <2>1, <2>2
<1> QED BY <1>3, <1>4, <1>5, <1>6, <1>7 DEF RefreshInv

LEMMA AcquireByHandKeeps ==
  ASSUME RefreshInv, NEW r \in Roots, Fundamental!AcquireByHand(r)
  PROVE  RefreshInv'
<1>1. PICK old : old = store[r]
  OBVIOUS
<1> DEFINE byHand == [auth |-> None, entry |-> 0]
           asked == [old EXCEPT !.intents = Append(@, byHand)]
           answered == [asked EXCEPT !.events = @ + 1]
           failed(http, written) == [asked EXCEPT !.known = http, !.stop = written]
<1>2. old \in RefreshStore /\ StoreInv(r)
  BY <1>1 DEF RefreshInv, RefreshTypes
<1>3. /\ scan[r] = None /\ old # Fundamental!NoStore /\ ~old.stop
      /\ UNCHANGED << expected, record, prior, pointer, verdict, scan, phase, local, sent, good >>
      /\ \/ store' = [store EXCEPT ![r] = answered]
         \/ \E written, http \in BOOLEAN : store' = [store EXCEPT ![r] = failed(http, written)]
  BY <1>1 DEF Fundamental!AcquireByHand, Fundamental!Replays, Fundamental!published, Fundamental!wire
<1>4. ~old.resolved
  BY <1>1, <1>2, <1>3 DEF StoreInv
<1>5. byHand \in [auth : Authorizations \cup {None}, entry : Nat]
  OBVIOUS
<1> HIDE DEF byHand
<1>6. asked \in RefreshStore /\ ~asked.resolved
  <2>1. PICK before, after : before = old.intents /\ after = Append(before, byHand)
    OBVIOUS
  <2>2. before \in Seq([auth : Authorizations \cup {None}, entry : Nat])
    BY <1>2, <2>1 DEF RefreshStore
  <2>3. after \in Seq([auth : Authorizations \cup {None}, entry : Nat])
    BY <1>5, <2>1, <2>2
  <2>4. asked = [old EXCEPT !.intents = after]
    BY <2>1
  <2> QED BY <1>2, <1>4, <2>3, <2>4 DEF RefreshStore
<1> HIDE DEF asked
<1>8. answered \in RefreshStore /\ ~answered.resolved
  <2>1. PICK old1, n : old1 = asked /\ n = old1.events + 1
    OBVIOUS
  <2>2. n \in Nat /\ answered = [old1 EXCEPT !.events = n]
    BY <1>6, <2>1 DEF RefreshStore
  <2> QED BY <1>6, <2>1, <2>2 DEF RefreshStore
<1>7. /\ \A written, http \in BOOLEAN : failed(http, written) \in RefreshStore /\ ~failed(http, written).resolved
  BY <1>6 DEF RefreshStore
<1> HIDE DEF answered, failed
<1> QED BY <1>3, <1>7, <1>8, AsideStep

LEMMA ResolveKeeps ==
  ASSUME RefreshInv, NEW r \in Roots, Fundamental!Resolve(r)
  PROVE  RefreshInv'
<1>1. PICK old, new : old = store[r] /\ new = [old EXCEPT !.resolved = TRUE]
  OBVIOUS
<1>2. old \in RefreshStore /\ store \in [Roots -> RefreshStore]
  BY <1>1 DEF RefreshInv, RefreshTypes
<1>3. [store EXCEPT ![r].resolved = TRUE] = [store EXCEPT ![r] = new]
  BY <1>1, <1>2
<1>4. /\ old.stop /\ old.known /\ Len(old.intents) = old.events + 1 /\ Fundamental!Last(old.intents).auth = None
      /\ UNCHANGED << expected, record, prior, pointer, verdict, scan, phase, local, sent, good >>
      /\ store' = [store EXCEPT ![r] = new]
  BY <1>1, <1>3 DEF Fundamental!Resolve, Fundamental!published, Fundamental!wire
<1>5. new \in RefreshStore /\ new.known = old.known /\ new.stop = old.stop /\ new.intents = old.intents /\ new.events = old.events
  BY <1>1, <1>2 DEF RefreshStore
<1> QED BY <1>1, <1>4, <1>5, AsideStep

LEMMA RefreshNext == RefreshInv /\ [Fundamental!Next]_fundamental => RefreshInv'
<1> SUFFICES ASSUME RefreshInv, [Fundamental!Next]_fundamental PROVE RefreshInv'
  OBVIOUS
<1>1. CASE UNCHANGED fundamental
  <2>1. RefreshTypes' /\ OneClaims' /\ \A r \in Roots : StoreInv(r)'
    BY <1>1 DEF RefreshInv, RefreshTypes, OneClaims, StoreInv, fundamental, Asked, Fundamental!Requests, Fundamental!Planned
  <2>2. ASSUME NEW q \in Operators PROVE OperatorInv(q)'
    <3>1. OperatorInv(q)
      BY DEF RefreshInv
    <3>2. phase[q] # "idle" => expected[local[q].auth] # "unissued"
      BY <3>1 DEF OperatorInv, OperatorAt
    <3> QED BY <1>1, <3>1, <3>2, OperatorKeeps DEF fundamental
  <2>3. ASSUME NEW b \in Authorizations PROVE AuthorizationInv(b)'
    BY <1>1 DEF RefreshInv, AuthorizationInv, fundamental, Asked, Fundamental!Requests, Fundamental!Planned
  <2> QED BY <2>1, <2>2, <2>3 DEF RefreshInv
<1>2. ASSUME NEW p \in Operators, Fundamental!Execute(p) PROVE RefreshInv'
  BY <1>2, EnterClaimKeeps, ClaimKeeps, CreateStoreKeeps, PutIntentKeeps, DispatchKeeps, PutEventKeeps, HaltKeeps,
     PutCheckpointKeeps, FinalReplayKeeps, StageKeeps, CommitKeeps, CrashKeeps DEF Fundamental!Execute
<1> QED BY <1>1, <1>2, IssueKeeps, ConsumeKeeps, StartKeeps, AcquireByHandKeeps, ResolveKeeps DEF Fundamental!Next

LEMMA RefreshInit == Fundamental!Init => RefreshInv
<1> SUFFICES ASSUME Fundamental!Init PROVE RefreshInv
  OBVIOUS
<1>1. /\ expected = [a \in Authorizations |-> "unissued"] /\ record = [a \in Authorizations |-> None]
      /\ store = [r \in Roots |-> Fundamental!NoStore] /\ prior = [a \in Authorizations |-> None] /\ pointer = None
      /\ verdict = [a \in Authorizations |-> "none"] /\ scan = [r \in Roots |-> None]
      /\ phase = [p \in Operators |-> "idle"] /\ local = [p \in Operators |-> Fundamental!Fresh]
      /\ sent = [a \in Authorizations |-> [n \in Asked |-> 0]] /\ good = [a \in Authorizations |-> {}]
  BY DEF Fundamental!Init, Asked
<1>2. Fundamental!NoStore \in RefreshStore /\ ~Fundamental!NoStore.resolved /\ Fundamental!Fresh \in RefreshLocal
  BY DEF Fundamental!NoStore, Fundamental!NewStore, RefreshStore, Fundamental!Fresh, RefreshLocal
<1>3. RefreshTypes
  BY <1>1, <1>2 DEF RefreshTypes, RefreshPhases
<1>4. OneClaims /\ \A p \in Operators : OperatorInv(p)
  BY <1>1 DEF OneClaims, OperatorInv, OperatorAt, Claimed, Scanning
<1>5. \A r \in Roots : StoreInv(r)
  BY <1>1, <1>2 DEF StoreInv
<1>6. \A a \in Authorizations : AuthorizationInv(a)
  <2> TAKE a \in Authorizations
  <2>1. sent[a] = [n \in Asked |-> 0] /\ verdict[a] = "none" /\ pointer # a
    BY <1>1, RefreshNames
  <2> QED BY <2>1 DEF AuthorizationInv
<1> QED BY <1>3, <1>4, <1>5, <1>6 DEF RefreshInv

(* The inductive invariant of the first refresh.                           *)
THEOREM RefreshInvariant == Fundamental!Spec => []RefreshInv
<1>1. Fundamental!vars = fundamental
  BY DEF Fundamental!vars, fundamental
<1> QED BY RefreshInit, RefreshNext, PTL DEF Fundamental!Spec, Fundamental!vars, fundamental

LEMMA RefreshBehaviour == CastSpec => Fundamental!Spec
<1>1. CastInit => Fundamental!Init
  BY DEF CastInit
<1>2. [CastNext]_<< vars, cast, fundamental >> => [Fundamental!Next]_(Fundamental!vars)
  BY DEF CastNext, fundamental, Fundamental!vars
<1> QED BY <1>1, <1>2, PTL DEF CastSpec, Fundamental!Spec

(* No request of a plan goes out twice, what is published was claimed, is  *)
(* complete and follows what its authorization was sealed against, a       *)
(* failure that was resolved stays one, and the consumer takes every       *)
(* matrix the assembler writes.                                            *)
THEOREM RefreshesSound == CastSpec => []RefreshSound
<1>1. RefreshInv => RefreshSound
  <2> SUFFICES ASSUME RefreshInv PROVE Fundamental!RefreshSound
    BY DEF RefreshSound
  <2>1. \A a \in Authorizations : AuthorizationInv(a)
    BY DEF RefreshInv
  <2>2. Fundamental!AskedOnce /\ Fundamental!PublishedWhole /\ Fundamental!ConsumerAgrees
    BY <2>1 DEF AuthorizationInv, Asked, Fundamental!AskedOnce, Fundamental!PublishedWhole, Fundamental!ConsumerAgrees
  <2>3. Fundamental!FailureStays
    BY DEF RefreshInv, StoreInv, Fundamental!FailureStays
  <2> QED BY <2>2, <2>3 DEF Fundamental!RefreshSound
<1> QED BY <1>1, RefreshInvariant, RefreshBehaviour, PTL

-----------------------------------------------------------------------------
(* The Fundamental Latest and what it named before: c is the chain of the  *)
(* authorizations that were published, each once, and none of them is      *)
(* anybody's any more.                                                     *)
ChainOf(c) ==
  /\ pointer = IF c = << >> THEN None ELSE c[Len(c)]
  /\ \A i, j \in DOMAIN c : c[i] = c[j] => i = j
  /\ \A i \in DOMAIN c : prior[c[i]] = (IF i = 1 THEN None ELSE c[i - 1]) /\ record[c[i]] # None
  /\ \A a \in Authorizations : prior[a] = None \/ \E i \in DOMAIN c : prior[a] = c[i]
  /\ \A p \in Operators : phase[p] \in Claimed => \A i \in DOMAIN c : c[i] # local[p].auth

ChainInv == \E c \in Seq(Authorizations) : ChainOf(c)

(* What the walk from the pointer finds. *)
WalksChain == \A c \in Seq(Authorizations) : ChainOf(c) => Fundamental!Walked[pointer] = c

LEMMA LeastOfChain ==
  ASSUME NEW S \in SUBSET Nat, S # {}
  PROVE  \E n \in S : \A m \in S : n <= m
<1>1. IsWellFoundedOn(OpToRel(<, Nat), Nat)
  BY NatLessThanWellFounded
<1>2. PICK n \in S : \A m \in S : ~ (<<m, n>> \in OpToRel(<, Nat))
  BY <1>1, WFMin
<1>3. \A m \in S : ~ (m < n)
  BY <1>2 DEF OpToRel
<1> QED BY <1>3

(* The first n of a sequence.                                              *)
FirstOf(c, n) == [j \in 1 .. n |-> c[j]]

LEMMA FirstGrows ==
  ASSUME NEW c \in Seq(Authorizations), NEW i \in DOMAIN c
  PROVE  /\ i = 1 => FirstOf(c, i) = Append(<< >>, c[i])
         /\ i # 1 => i - 1 \in DOMAIN c /\ FirstOf(c, i) = Append(FirstOf(c, i - 1), c[i])
         /\ FirstOf(c, Len(c)) = c
<1>1. DOMAIN c = 1 .. Len(c) /\ Len(c) \in Nat
  OBVIOUS
<1>2. i = 1 => FirstOf(c, i) = Append(<< >>, c[i])
  BY <1>1 DEF FirstOf
<1>3. ASSUME i # 1
      PROVE  i - 1 \in DOMAIN c /\ FirstOf(c, i) = Append(FirstOf(c, i - 1), c[i])
  <2>1. i - 1 \in 1 .. Len(c) /\ i - 1 \in Nat
    BY <1>1, <1>3
  <2>2. FirstOf(c, i - 1) \in Seq(Authorizations) /\ Len(FirstOf(c, i - 1)) = i - 1
    <3>1. \A j \in 1 .. i - 1 : c[j] \in Authorizations
      BY <1>1
    <3> QED BY <2>1, <3>1 DEF FirstOf
  <2> QED BY <1>1, <2>1, <2>2 DEF FirstOf
<1>4. FirstOf(c, Len(c)) = c
  BY <1>1 DEF FirstOf
<1> QED BY <1>2, <1>3, <1>4

(* The walk ends, from whatever authorization it starts.                   *)
LEMMA WalkedIs ==
  ASSUME RefreshInv, NEW c \in Seq(Authorizations), ChainOf(c)
  PROVE  \A x \in Authorizations \cup {None} : 
           Fundamental!Walked[x] = IF x = None THEN << >> ELSE Append(Fundamental!Walked[prior[x]], x)
<1> DEFINE In(x) == \E i \in DOMAIN c : c[i] = x
           Position(x) == CHOOSE i \in DOMAIN c : c[i] = x
           Found(x) == IF In(x) THEN FirstOf(c, Position(x)) ELSE << >>
           All == Authorizations \cup {None}
           walk == [x \in All |-> IF x = None \/ In(x) THEN Found(x) ELSE Append(Found(prior[x]), x)]
<1>1. \A i \in DOMAIN c : c[i] \in Authorizations /\ In(c[i]) /\ Position(c[i]) = i /\ c[i] # None
  BY RefreshNames DEF ChainOf
<1>2. ~In(None)
  BY <1>1
<1> HIDE DEF Position
<1>3. \A x \in All : (x = None \/ In(x)) => walk[x] = Found(x)
  OBVIOUS
<1>4. \A x \in Authorizations : (prior[x] = None \/ In(prior[x])) /\ prior[x] \in All
  BY DEF ChainOf, RefreshInv, RefreshTypes
<1>5. ASSUME NEW x \in All
      PROVE  walk[x] = IF x = None THEN << >> ELSE Append(walk[prior[x]], x)
  <2>1. CASE x = None
    BY <1>2, <1>3, <2>1
  <2>2. CASE x # None /\ ~In(x)
    <3>1. walk[prior[x]] = Found(prior[x])
      BY <1>3, <1>4, <2>2
    <3>2. walk[x] = Append(Found(prior[x]), x)
      BY <2>2
    <3> QED BY <2>2, <3>1, <3>2
  <2>3. CASE x # None /\ In(x)
    <3>1. PICK i \in DOMAIN c : x = c[i]
      BY <2>3
    <3>2. walk[x] = FirstOf(c, i)
      BY <1>1, <2>3, <3>1
    <3>3. walk[prior[x]] = Found(prior[x])
      BY <1>3, <1>4, <2>3
    <3>4. prior[x] = IF i = 1 THEN None ELSE c[i - 1]
      BY <3>1 DEF ChainOf
    <3>5. CASE i = 1
      BY <1>2, <2>3, <3>1, <3>2, <3>3, <3>4, <3>5, FirstGrows
    <3>6. CASE i # 1
      <4>1. i - 1 \in DOMAIN c /\ FirstOf(c, i) = Append(FirstOf(c, i - 1), x)
        BY <3>1, <3>6, FirstGrows
      <4>2. Found(prior[x]) = FirstOf(c, i - 1)
        BY <1>1, <3>4, <3>6, <4>1
      <4> QED BY <2>3, <3>2, <3>3, <4>1, <4>2
    <3> QED BY <3>5, <3>6
  <2> QED BY <2>1, <2>2, <2>3
<1>6. walk = [x \in All |-> walk[x]]
  OBVIOUS
<1> HIDE DEF walk
<1>7. walk = [x \in All |-> IF x = None THEN << >> ELSE Append(walk[prior[x]], x)]
  BY <1>5, <1>6
<1>8. Fundamental!Walked = [x \in All |-> IF x = None THEN << >> ELSE Append(Fundamental!Walked[prior[x]], x)]
  BY <1>7 DEF Fundamental!Walked
<1> QED BY <1>8

LEMMA WalksTheChain == RefreshInv => WalksChain
<1> SUFFICES ASSUME RefreshInv, NEW c \in Seq(Authorizations), ChainOf(c)
             PROVE  Fundamental!Walked[pointer] = c
  BY DEF WalksChain
<1>1. \A x \in Authorizations \cup {None} :
        Fundamental!Walked[x] = IF x = None THEN << >> ELSE Append(Fundamental!Walked[prior[x]], x)
  BY WalkedIs
<1> DEFINE Wrong == {i \in DOMAIN c : Fundamental!Walked[c[i]] # FirstOf(c, i)}
<1>2. Wrong = {}
  <2> SUFFICES ASSUME Wrong # {} PROVE FALSE
    OBVIOUS
  <2>1. Wrong \in SUBSET Nat
    OBVIOUS
  <2>2. PICK i \in Wrong : \A j \in Wrong : i <= j
    BY <2>1, LeastOfChain
  <2>3. i \in DOMAIN c /\ i \in Nat /\ c[i] \in Authorizations /\ c[i] # None
    BY <2>2, RefreshNames
  <2>4. prior[c[i]] = IF i = 1 THEN None ELSE c[i - 1]
    BY <2>3 DEF ChainOf
  <2>5. Fundamental!Walked[c[i]] = Append(Fundamental!Walked[prior[c[i]]], c[i])
    BY <1>1, <2>3
  <2>6. CASE i = 1
    <3>1. Fundamental!Walked[prior[c[i]]] = << >>
      BY <1>1, <2>4, <2>6
    <3>2. FirstOf(c, i) = Append(<< >>, c[i])
      BY <2>3, <2>6, FirstGrows
    <3>3. Fundamental!Walked[c[i]] = FirstOf(c, i)
      BY <2>5, <3>1, <3>2
    <3> QED BY <2>2, <3>3
  <2>7. CASE i # 1
    <3>1. i - 1 \in DOMAIN c /\ FirstOf(c, i) = Append(FirstOf(c, i - 1), c[i])
      BY <2>3, <2>7, FirstGrows
    <3>2. i - 1 \notin Wrong
      BY <2>1, <2>2, <2>3
    <3>3. Fundamental!Walked[c[i - 1]] = FirstOf(c, i - 1)
      BY <3>1, <3>2
    <3> QED BY <2>2, <2>4, <2>5, <2>7, <3>1, <3>3
  <2> QED BY <2>6, <2>7
<1>3. CASE c = << >>
  BY <1>1, <1>3 DEF ChainOf
<1>4. CASE c # << >>
  <2>1. Len(c) \in DOMAIN c
    BY <1>4
  <2>2. Fundamental!Walked[c[Len(c)]] = c
    BY <1>2, <2>1, FirstGrows
  <2> QED BY <1>4, <2>2 DEF ChainOf
<1> QED BY <1>3, <1>4

(* Before the Latest is replaced the chain is what it was.                 *)
LEMMA ChainKeeps ==
  ASSUME NEW c \in Seq(Authorizations), ChainOf(c), pointer' = pointer,
         \A a \in Authorizations : 
           \/ prior'[a] = prior[a] 
           \/ prior'[a] = pointer /\ \A i \in DOMAIN c : c[i] # a,
         \A a \in Authorizations : record[a] # None => record'[a] # None,
         \A p \in Operators : phase'[p] \in Claimed =>
           \/ phase[p] \in Claimed /\ local'[p].auth = local[p].auth
           \/ local'[p].auth \in Authorizations /\ record[local'[p].auth] = None
  PROVE  ChainOf(c)'
<1>1. \A i \in DOMAIN c : c[i] \in Authorizations /\ prior'[c[i]] = prior[c[i]] /\ record'[c[i]] # None
  BY DEF ChainOf
<1>2. pointer = None \/ \E i \in DOMAIN c : pointer = c[i]
  <2>1. c # << >> => Len(c) \in DOMAIN c
    OBVIOUS
  <2> QED BY <2>1 DEF ChainOf
<1>3. ASSUME NEW a \in Authorizations PROVE prior'[a] = None \/ \E i \in DOMAIN c : prior'[a] = c[i]
  BY <1>2 DEF ChainOf
<1>4. ASSUME NEW p \in Operators, phase'[p] \in Claimed, NEW i \in DOMAIN c PROVE c[i] # local'[p].auth
  BY <1>4 DEF ChainOf
<1> QED BY <1>1, <1>3, <1>4 DEF ChainOf

LEMMA ChainGrows ==
  ASSUME RefreshInv, NEW c \in Seq(Authorizations), ChainOf(c), NEW p \in Operators, Fundamental!Commit(p), pointer' # pointer
  PROVE  \E a \in Authorizations : (\A i \in DOMAIN c : c[i] # a) /\ ChainOf(Append(c, a))'
<1>0. phase[p] = "commit"
  BY DEF Fundamental!Commit
<1>1. PICK a \in Authorizations, r \in Roots, h \in Nat :
        local[p].auth = a /\ OperatorAt(p, a, r, h, phase[p])
  BY <1>0, OperatorNow
<1>2. /\ pointer = expected[a] /\ pointer' = a /\ prior[a] = expected[a] /\ record[a] = r /\ phase[p] \in Claimed
      /\ UNCHANGED << record, prior >> /\ Fundamental!Leave(p)
  BY <1>0, <1>1 DEF Fundamental!Commit, Fundamental!disk, OperatorAt, Claimed
<1>3. \A i \in DOMAIN c : c[i] # a
  BY <1>1, <1>2 DEF ChainOf
<1>4. phase'[p] = "idle" /\ \A q \in Operators \ {p} : phase'[q] = phase[q] /\ local'[q] = local[q]
  BY <1>2, RefreshLeaves DEF RefreshInv
<1>5. PICK d : d = Append(c, a)
  OBVIOUS
<1>6. /\ d \in Seq(Authorizations) /\ Len(d) = Len(c) + 1 /\ d[Len(d)] = a /\ DOMAIN d = DOMAIN c \cup {Len(d)}
      /\ Len(c) \in Nat /\ DOMAIN c = 1 .. Len(c) /\ d # << >>
      /\ \A i \in DOMAIN c : d[i] = c[i] /\ i # Len(d)
  BY <1>5
<1>7. (\A i, j \in DOMAIN d : d[i] = d[j] => i = j) /\ pointer' = d[Len(d)]
  BY <1>2, <1>3, <1>6 DEF ChainOf
<1>8. ASSUME NEW i \in DOMAIN d
      PROVE  prior'[d[i]] = (IF i = 1 THEN None ELSE d[i - 1]) /\ record'[d[i]] # None
  <2>1. CASE i \in DOMAIN c
    <3>1. i # 1 => i - 1 \in DOMAIN c
      BY <1>6, <2>1
    <3> QED BY <1>2, <1>6, <2>1, <3>1 DEF ChainOf
  <2>2. CASE i = Len(d)
    <3>1. Len(d) - 1 = Len(c) /\ (Len(c) # 0 => Len(c) \in DOMAIN c) /\ (Len(c) = 0 <=> c = << >>)
      BY <1>6
    <3>2. prior[a] = IF i = 1 THEN None ELSE d[i - 1]
      BY <1>2, <1>6, <2>2, <3>1 DEF ChainOf
    <3> QED BY <1>2, <1>6, <2>2, <3>2, RefreshNames
  <2> QED BY <1>6, <2>1, <2>2
<1>9. \A b \in Authorizations : prior'[b] = None \/ \E i \in DOMAIN d : prior'[b] = d[i]
  BY <1>2, <1>6 DEF ChainOf
<1>10. ASSUME NEW q \in Operators, phase'[q] \in Claimed, NEW i \in DOMAIN d PROVE d[i] # local'[q].auth
  <2>1. q # p /\ phase[q] \in Claimed /\ local'[q] = local[q]
    BY <1>4, <1>10 DEF Claimed, Scanning
  <2>2. local[q].auth # a
    BY <1>1, <1>2, <2>1 DEF RefreshInv, OneClaims
  <2> QED BY <1>6, <2>1, <2>2 DEF ChainOf
<1>11. ChainOf(d)'
  BY <1>6, <1>7, <1>8, <1>9, <1>10 DEF ChainOf
<1> QED BY <1>3, <1>5, <1>11
(* A step of one operator that does not claim keeps every claim.           *)
LEMMA StaysClaimed ==
  ASSUME NEW p \in Operators, RefreshTypes, phase[p] \in Claimed,
         \/ Fundamental!Leave(p)
         \/ \E at \in RefreshPhases : Fundamental!Goto(p, at) /\ local' \in {local, [local EXCEPT ![p].head = @ + 1]}
  PROVE  \A q \in Operators : phase'[q] \in Claimed => phase[q] \in Claimed /\ local'[q].auth = local[q].auth
<1>1. local \in [Operators -> RefreshLocal] /\ phase \in [Operators -> RefreshPhases]
  BY DEF RefreshTypes
<1>2. CASE Fundamental!Leave(p)
  BY <1>1, <1>2, RefreshLeaves DEF Claimed, Scanning
<1>3. ASSUME NEW at \in RefreshPhases, Fundamental!Goto(p, at), local' \in {local, [local EXCEPT ![p].head = @ + 1]}
      PROVE  \A q \in Operators : phase'[q] \in Claimed => phase[q] \in Claimed /\ local'[q].auth = local[q].auth
  <2>1. \A q \in Operators \ {p} : phase'[q] = phase[q]
    BY <1>3, RefreshGoes
  <2>2. \A q \in Operators : local'[q].auth = local[q].auth
    BY <1>1, <1>3 DEF RefreshLocal
  <2> QED BY <2>1, <2>2
<1> QED BY <1>2, <1>3

LEMMA ChainExecutes ==
  ASSUME RefreshInv, NEW c \in Seq(Authorizations), ChainOf(c), NEW p \in Operators, Fundamental!Execute(p)
  PROVE  \/ ChainOf(c)' /\ pointer' = pointer
         \/ \E a \in Authorizations : (\A i \in DOMAIN c : c[i] # a) /\ ChainOf(Append(c, a))'
<1>1. RefreshTypes /\ local \in [Operators -> RefreshLocal] /\ phase \in [Operators -> RefreshPhases]
      /\ prior \in [Authorizations -> Authorizations \cup {None}] /\ DOMAIN record = Authorizations
  BY DEF RefreshInv, RefreshTypes
<1>2. ASSUME UNCHANGED << pointer, prior, record >>,
             \A q \in Operators : phase'[q] \in Claimed => phase[q] \in Claimed /\ local'[q].auth = local[q].auth
      PROVE  ChainOf(c)' /\ pointer' = pointer
  BY <1>2, ChainKeeps
<1>3. CASE Fundamental!EnterClaim(p)
  <2>1. UNCHANGED << pointer, prior, record >> /\ (Fundamental!Leave(p) \/ (Fundamental!Goto(p, "claim") /\ local' = local))
    BY <1>3 DEF Fundamental!EnterClaim, Fundamental!disk, Fundamental!published
  <2>2. \A q \in Operators : phase'[q] \in Claimed => phase[q] \in Claimed /\ local'[q].auth = local[q].auth
    BY <1>1, <2>1, RefreshLeaves, RefreshGoes DEF Claimed, Scanning, RefreshPhases
  <2> QED BY <1>2, <2>1, <2>2
<1>4. CASE Fundamental!Claim(p)
  <2>1. PICK a \in Authorizations, r \in Roots : local[p].auth = a /\ local[p].root = r
    BY <1>4, OperatorNow DEF Fundamental!Claim
  <2>2. /\ UNCHANGED << pointer, prior >>
        /\ \/ Fundamental!Leave(p)
           \/ Fundamental!Goto(p, "create") /\ local' = local /\ record[a] = None
        /\ \/ record' = record
           \/ record[a] = None /\ \E v : record' = [record EXCEPT ![a] = v]
    BY <1>4, <2>1 DEF Fundamental!Claim, Fundamental!Leaves, Fundamental!published
  <2>3. \A b \in Authorizations : record[b] # None => record'[b] # None
    BY <1>1, <2>2
  <2>4. CASE Fundamental!Leave(p)
    <3>1. \A q \in Operators : phase'[q] \in Claimed => phase[q] \in Claimed /\ local'[q].auth = local[q].auth
      BY <1>1, <2>4, RefreshLeaves DEF Claimed, Scanning
    <3> QED BY <2>2, <2>3, <3>1, ChainKeeps
  <2>5. CASE Fundamental!Goto(p, "create") /\ local' = local /\ record[a] = None
    <3>1. \A q \in Operators \ {p} : phase'[q] = phase[q]
      BY <1>1, <2>5, RefreshGoes DEF RefreshPhases, Claimed
    <3>2. \A q \in Operators : phase'[q] \in Claimed =>
            \/ phase[q] \in Claimed /\ local'[q].auth = local[q].auth
            \/ local'[q].auth \in Authorizations /\ record[local'[q].auth] = None
      BY <2>1, <2>5, <3>1
    <3> QED BY <2>2, <2>3, <3>2, ChainKeeps
  <2> QED BY <2>2, <2>4, <2>5
<1>5. CASE Fundamental!Stage(p)
  <2>1. phase[p] = "stage" /\ phase[p] \in Claimed
    BY <1>5 DEF Fundamental!Stage, Claimed
  <2>2. PICK a \in Authorizations : local[p].auth = a
    BY <2>1, OperatorNow
  <2>3. /\ UNCHANGED << pointer, record >>
        /\ \/ prior' = [prior EXCEPT ![a] = pointer] /\ Fundamental!Goto(p, "commit") /\ local' = local
           \/ Fundamental!Leave(p) /\ prior' = prior
    BY <1>5, <2>2 DEF Fundamental!Stage, Fundamental!disk
  <2>4. \A i \in DOMAIN c : c[i] # a
    BY <2>1, <2>2 DEF ChainOf
  <2>5. \A b \in Authorizations : prior'[b] = prior[b] \/ (prior'[b] = pointer /\ \A i \in DOMAIN c : c[i] # b)
    BY <1>1, <2>3, <2>4
  <2>6. \A q \in Operators : phase'[q] \in Claimed => phase[q] \in Claimed /\ local'[q].auth = local[q].auth
    BY <1>1, <2>1, <2>3, StaysClaimed DEF RefreshPhases, Claimed
  <2> QED BY <2>3, <2>5, <2>6, ChainKeeps
<1>6. CASE Fundamental!Commit(p)
  <2>1. CASE pointer' = pointer
    <3>1. UNCHANGED << prior, record >> /\ Fundamental!Leave(p) /\ phase[p] \in Claimed
      BY <1>6 DEF Fundamental!Commit, Fundamental!disk, Claimed
    <3> QED BY <1>1, <1>2, <2>1, <3>1, StaysClaimed
  <2>2. CASE pointer' # pointer
    BY <1>6, <2>2, ChainGrows
  <2> QED BY <2>1, <2>2
<1>7. CASE Fundamental!Crash(p)
  <2>1. UNCHANGED << pointer, prior, record >> /\ Fundamental!Leave(p)
    BY <1>7 DEF Fundamental!Crash, Fundamental!published
  <2>2. \A q \in Operators : phase'[q] \in Claimed => phase[q] \in Claimed /\ local'[q].auth = local[q].auth
    BY <1>1, <2>1, RefreshLeaves DEF Claimed, Scanning
  <2> QED BY <1>2, <2>1, <2>2
<1>8. CASE Fundamental!CreateStore(p) \/ Fundamental!PutIntent(p) \/ Fundamental!Dispatch(p) \/ Fundamental!PutEvent(p)
           \/ Fundamental!Halt(p) \/ Fundamental!PutCheckpoint(p) \/ Fundamental!FinalReplay(p)
  <2>1. /\ UNCHANGED << pointer, prior, record >> 
        /\ phase[p] \in {"create", "entry", "dispatch", "event", "halt", "checkpoint", "replay"}
        /\ \/ Fundamental!Leave(p)
           \/ \E at \in {"entry", "dispatch", "event", "halt", "checkpoint", "replay", "stage"} :
                Fundamental!Goto(p, at) /\ local' \in {local, [local EXCEPT ![p].head = @ + 1]}
    BY <1>8 DEF Fundamental!CreateStore, Fundamental!PutIntent, Fundamental!Dispatch, Fundamental!PutEvent, Fundamental!Halt,
        Fundamental!PutCheckpoint, Fundamental!FinalReplay, Fundamental!disk, Fundamental!published
  <2> QED BY <1>1, <1>2, <2>1, StaysClaimed DEF Claimed, Scanning, RefreshPhases
<1> QED BY <1>3, <1>4, <1>5, <1>6, <1>7, <1>8 DEF Fundamental!Execute

LEMMA ChainNext ==
  ASSUME RefreshInv, NEW c \in Seq(Authorizations), ChainOf(c), [Fundamental!Next]_fundamental
  PROVE  \/ ChainOf(c)' /\ pointer' = pointer
         \/ \E a \in Authorizations : (\A i \in DOMAIN c : c[i] # a) /\ ChainOf(Append(c, a))'
<1>1. RefreshTypes /\ local \in [Operators -> RefreshLocal] /\ phase \in [Operators -> RefreshPhases]
  BY DEF RefreshInv, RefreshTypes
<1>2. ASSUME UNCHANGED << pointer, prior, record, phase, local >> PROVE ChainOf(c)' /\ pointer' = pointer
  BY <1>2, ChainKeeps
<1>3. ASSUME NEW a \in Authorizations, Fundamental!Issue(a) \/ Fundamental!Consume(a) PROVE ChainOf(c)' /\ pointer' = pointer
  BY <1>2, <1>3 DEF Fundamental!Issue, Fundamental!Consume, Fundamental!disk, Fundamental!published
<1>4. ASSUME NEW r \in Roots, Fundamental!AcquireByHand(r) \/ Fundamental!Resolve(r) PROVE ChainOf(c)' /\ pointer' = pointer
  BY <1>2, <1>4 DEF Fundamental!AcquireByHand, Fundamental!Resolve, Fundamental!published
<1>5. ASSUME NEW p \in Operators, NEW a \in Authorizations, NEW r \in Roots, Fundamental!Start(p, a, r)
      PROVE  ChainOf(c)' /\ pointer' = pointer
  <2>1. /\ UNCHANGED << pointer, prior, record >> /\ Fundamental!Goto(p, "enter")
        /\ local' = [local EXCEPT ![p] = [auth |-> a, root |-> r, head |-> 0]]
    BY <1>5 DEF Fundamental!Start, Fundamental!disk, Fundamental!published
  <2>2. \A q \in Operators : phase'[q] \in Claimed => phase[q] \in Claimed /\ local'[q].auth = local[q].auth
    BY <1>1, <2>1, RefreshGoes DEF Claimed, Scanning, RefreshPhases
  <2> QED BY <2>1, <2>2, ChainKeeps
<1>6. CASE UNCHANGED fundamental
  BY <1>2, <1>6 DEF fundamental
<1> QED BY <1>3, <1>4, <1>5, <1>6, ChainExecutes DEF Fundamental!Next

LEMMA ChainInit == ASSUME Fundamental!Init PROVE << >> \in Seq(Authorizations) /\ ChainOf(<< >>)
<1>1. pointer = None /\ prior = [a \in Authorizations |-> None] /\ phase = [p \in Operators |-> "idle"]
  BY DEF Fundamental!Init
<1>2. \A a \in Authorizations : prior[a] = None
  BY <1>1
<1> QED BY <1>1, <1>2 DEF ChainOf, Claimed, Scanning

(* There always is such a chain, and the walk from the pointer finds it.   *)
LEMMA ChainInvariant == Fundamental!Spec => [](RefreshInv /\ ChainInv /\ WalksChain)
<1>1. Fundamental!Init => ChainInv
  BY ChainInit DEF ChainInv
<1>2. RefreshInv /\ ChainInv /\ [Fundamental!Next]_fundamental => ChainInv'
  <2> SUFFICES ASSUME RefreshInv, NEW c \in Seq(Authorizations), ChainOf(c), [Fundamental!Next]_fundamental PROVE ChainInv'
    BY DEF ChainInv
  <2>1. \A a \in Authorizations : Append(c, a) \in Seq(Authorizations)
    OBVIOUS
  <2> QED BY <2>1, ChainNext DEF ChainInv
<1>3. Fundamental!Spec => []ChainInv
  BY <1>1, <1>2, RefreshInvariant, PTL DEF Fundamental!Spec, Fundamental!vars, fundamental
<1> QED BY <1>3, RefreshInvariant, WalksTheChain, PTL

(* The Fundamental Latest implements the publication log: what the walk    *)
(* back from it finds grows by one new authorization at a time.            *)
THEOREM RefreshImplementsLog == CastSpec => ImplementsPublicationLog
<1> DEFINE Log == Fundamental!Walked[pointer]
<1>1. ASSUME Fundamental!Init, RefreshInv, WalksChain PROVE Log = << >>
  BY <1>1, ChainInit DEF WalksChain
<1>2. ASSUME RefreshInv, ChainInv, WalksChain, WalksChain', [Fundamental!Next]_fundamental
      PROVE  [Fundamental!Promise!PublicationLogNext]_Log
  <2>1. PICK c \in Seq(Authorizations) : ChainOf(c)
    BY <1>2 DEF ChainInv
  <2>2. Log = c
    BY <1>2, <2>1 DEF WalksChain
  <2>3. \A d \in Seq(Authorizations) : ChainOf(d)' => Log' = d
    BY <1>2 DEF WalksChain
  <2>4. CASE ChainOf(c)'
    BY <2>2, <2>3, <2>4
  <2>5. ASSUME NEW a \in Authorizations, \A i \in DOMAIN c : c[i] # a, ChainOf(Append(c, a))'
        PROVE  Fundamental!Promise!PublicationLogNext
    <3>1. Append(c, a) \in Seq(Authorizations)
      OBVIOUS
    <3>2. Log' = Append(Log, a)
      BY <2>2, <2>3, <2>5, <3>1
    <3>3. a \notin {Log[i] : i \in DOMAIN Log}
      BY <2>2, <2>5
    <3> QED BY <3>2, <3>3 DEF Fundamental!Promise!PublicationLogNext, Fundamental!Promise!Publish, Fundamental!Promise!Range
  <2> QED BY <1>2, <2>1, <2>4, <2>5, ChainNext
<1>3. Fundamental!Spec => Fundamental!Promise!PublicationLogSpec
  BY <1>1, <1>2, ChainInvariant, PTL
     DEF Fundamental!Spec, Fundamental!vars, fundamental, Fundamental!Promise!PublicationLogSpec, Fundamental!Promise!PublicationLogInit
<1> QED BY <1>3, RefreshBehaviour, PTL DEF ImplementsPublicationLog, Fundamental!ImplementsPublicationLog
=============================================================================
