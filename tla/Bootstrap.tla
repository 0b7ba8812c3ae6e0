------------------------------ MODULE Bootstrap ------------------------------
(***************************************************************************)
(* The two authorized bootstraps of the live state store, run against one  *)
(* artifacts tree: bootstrap_rebaseline_state of                           *)
(* scripts/bootstrap_production_rebaseline_state.py, which stages a whole  *)
(* package and promotes it by renaming its directory, and                  *)
(* bootstrap_recovery_state of scripts/bootstrap_production_recovery_      *)
(* state.py, which writes its files into the slot one by one.  Scheduled   *)
(* publications, which LiveState shows in steps, come between their calls. *)
(*                                                                         *)
(* An authorization fixes its slot and its state, so both are identified   *)
(* with it.  The files of a slot are named by who wrote them.              *)
(***************************************************************************)
EXTENDS CadenceSlots, Sequences

CONSTANTS
  Rebaselines,  (* control-center rebaseline authorizations  *)
  Recoveries,   (* control-center recovery authorizations    *)
  Target,       (* the slot each of them is for              *)
  Scheduled,    (* the writer of the scheduled states        *)
  None          (* no file                                   *)

Authorizations == Rebaselines \cup Recoveries
Writers == Authorizations \cup {Scheduled}

BootstrapConstants ==
  /\ Rebaselines \cap Recoveries = {}
  /\ Scheduled \notin Authorizations /\ None \notin Writers
  /\ Target \in [Authorizations -> Slots]

VARIABLES
  directories,  (* the slot directories that exist                             *)
  files,        (* the writer of each file of each slot                        *)
  staged,       (* how many files of its package each rebaseline has staged    *)
  recorded,     (* the recoveries whose consumption evidence is written        *)
  latest,       (* RATE_PRODUCTION_STATE_LATEST.json, or None                  *)
  pc            (* where each bootstrap is; "off" before it, and when it       *)
                (* passed, was BLOCKED or died                                 *)

vars == << directories, files, staged, recorded, latest, pc >>

Package == {"state", "persist", "consumption", "manifest"}
EmptySlot == [f \in Package |-> None]

(* Faulty variants: evidence of consumption before what it is evidence of; *)
(* the pointer before the manifest.                                        *)
RecoveryOrderRecordFirst == << "directory", "record", "state", "persist", "manifest", "latest" >>
RecoveryOrderLatestFirst == << "directory", "state", "persist", "latest", "manifest", "record" >>

(* The order in which a recovery writes: its record comes last.            *)
RecoveryOrder == << "directory", "state", "persist", "manifest", "latest", "record" >>

After(step) ==
  LET i == CHOOSE k \in DOMAIN RecoveryOrder : RecoveryOrder[k] = step
  IN  IF i = Len(RecoveryOrder) THEN "off" ELSE RecoveryOrder[i + 1]

Working == {"inspect", "stage", "promote", "point", "repair",
            "directory", "state", "persist", "manifest", "latest", "record"}
Phases == {"off"} \cup Working

Goto(a, phase) == pc' = [pc EXCEPT ![a] = phase]
Busy == \E a \in Authorizations : pc[a] \in Working

(* LATEST names no slot after this one. *)
LatestUpTo(slot) == latest # None => latest.slot <= slot

(* load_live_state: the manifest is there and binds what is beside it.     *)
Loadable(slot) ==
  LET owner == files[slot]["manifest"]
  IN  /\ owner # None
      /\ files[slot]["state"] = owner /\ files[slot]["persist"] = owner
      /\ owner \in Rebaselines => files[slot]["consumption"] = owner

-----------------------------------------------------------------------------
(* A bootstrap is dispatched, for the first time or again, with a valid    *)
(* authorization, an approved commit and bound material: without any of    *)
(* these it is BLOCKED here and nothing happens.                           *)
Dispatch(a) ==
  /\ pc[a] \notin Working /\ ~Busy
  /\ Goto(a, "inspect")
  /\ UNCHANGED << directories, files, staged, recorded, latest >>

(* _validate_live_slot *)
SlotIsPackageOf(slot, a) == \A f \in Package : files[slot][f] = a

(* _newer_canonical_live_state_exists *)
NewerExists(slot) == \E s \in Slots : s > slot /\ files[s]["manifest"] # None

(* Faulty variant: LATEST alone says whether a newer state exists. *)
RepairEligibleByLatest(a) == LatestUpTo(Target[a] - 1)

(* _latest_repair_status *)
RepairEligible(a) ==
  /\ ~NewerExists(Target[a])
  /\ LatestUpTo(Target[a] - 1)

(* Faulty variant: a package without its pointer is published over again.  *)
InspectSlotPublishingAgain(a) ==
  /\ a \in Rebaselines /\ pc[a] = "inspect"
  /\ IF Target[a] \notin directories \/ RepairEligible(a)
       THEN Goto(a, "stage") /\ staged' = [staged EXCEPT ![a] = 0]
       ELSE Goto(a, "off") /\ UNCHANGED staged
  /\ UNCHANGED << directories, files, recorded, latest >>

(* What is in the slot decides: nothing, and the package is staged anew;   *)
(* the authorization's own package, and LATEST is repaired if no newer     *)
(* state is known; anything else, and the call is BLOCKED, dropping what   *)
(* was staged when the slot is no complete rebaseline package.             *)
InspectSlot(a) ==
  /\ a \in Rebaselines /\ pc[a] = "inspect"
  /\ CASE Target[a] \notin directories -> Goto(a, "stage") /\ staged' = [staged EXCEPT ![a] = 0]
       [] \E f \in Package : files[Target[a]][f] = None ->
            Goto(a, "off") /\ staged' = [staged EXCEPT ![a] = 0]
       [] OTHER ->
            /\ Goto(a, IF SlotIsPackageOf(Target[a], a) /\ RepairEligible(a)
                         THEN "repair" ELSE "off")
            /\ UNCHANGED staged
  /\ UNCHANGED << directories, files, recorded, latest >>

(* Faulty variant: the package is promoted before it is complete. *)
StageFileTooFew(a) ==
  /\ pc[a] = "stage"
  /\ staged' = [staged EXCEPT ![a] = @ + 1]
  /\ Goto(a, IF staged[a] + 1 = Cardinality(Package) - 1 THEN "promote" ELSE "stage")
  /\ UNCHANGED << directories, files, recorded, latest >>

(* _stage_package: state, persist evidence, consumption evidence, and the  *)
(* manifest last, in a directory of its own.                               *)
StageFile(a) ==
  /\ pc[a] = "stage"
  /\ staged' = [staged EXCEPT ![a] = @ + 1]
  /\ Goto(a, IF staged[a] + 1 = Cardinality(Package) THEN "promote" ELSE "stage")
  /\ UNCHANGED << directories, files, recorded, latest >>

(* The files that the first n writes of a package leave. *)
FirstStaged(n) ==
  {<< "state", "persist", "consumption", "manifest" >>[i] : i \in 1 .. n}

(* os.replace(staging_dir, live_dir): the package appears at once. *)
Promote(a) ==
  /\ pc[a] = "promote"
  /\ files' = [files EXCEPT ![Target[a]] =
                 [f \in Package |-> IF f \in FirstStaged(staged[a]) THEN a ELSE None]]
  /\ directories' = directories \cup {Target[a]}
  /\ staged' = [staged EXCEPT ![a] = 0]
  /\ Goto(a, "point")
  /\ UNCHANGED << recorded, latest >>

(* _write_latest_atomic, after a promotion: whatever LATEST named before.  *)
PointLatest(a) ==
  /\ pc[a] = "point"
  /\ latest' = [slot |-> Target[a], state |-> a]
  /\ Goto(a, "off")
  /\ UNCHANGED << directories, files, staged, recorded >>

(* _write_latest_atomic, as idempotent_latest_repair.                      *)
RepairLatest(a) ==
  /\ pc[a] = "repair"
  /\ latest' = [slot |-> Target[a], state |-> a]
  /\ Goto(a, "off")
  /\ UNCHANGED << directories, files, staged, recorded >>

-----------------------------------------------------------------------------
(* Faulty variant: only its own publication stops a recovery. *)
RecoveryAllowedOverOthers(a) ==
  a \notin recorded /\ files[Target[a]]["manifest"] # a

(* The authorization is unconsumed and the slot has none of the three files. *)
RecoveryAllowed(a) ==
  /\ a \notin recorded
  /\ \A f \in Package \ {"consumption"} : files[Target[a]][f] = None

InspectRecovery(a) ==
  /\ a \in Recoveries /\ pc[a] = "inspect"
  /\ Goto(a, IF RecoveryAllowed(a) THEN RecoveryOrder[1] ELSE "off")
  /\ UNCHANGED << directories, files, staged, recorded, latest >>

MakeDirectory(a) ==
  /\ pc[a] = "directory"
  /\ directories' = directories \cup {Target[a]}
  /\ Goto(a, After("directory"))
  /\ UNCHANGED << files, staged, recorded, latest >>

WriteFile(a) ==
  /\ pc[a] \in {"state", "persist", "manifest"}
  /\ files' = [files EXCEPT ![Target[a]][pc[a]] = a]
  /\ Goto(a, After(pc[a]))
  /\ UNCHANGED << directories, staged, recorded, latest >>

(* Only when LATEST does not name a newer slot. *)
UpdateLatest(a) ==
  /\ pc[a] = "latest"
  /\ latest' = IF LatestUpTo(Target[a])
                 THEN [slot |-> Target[a], state |-> a] ELSE latest
  /\ Goto(a, After("latest"))
  /\ UNCHANGED << directories, files, staged, recorded >>

RecordConsumption(a) ==
  /\ pc[a] = "record"
  /\ recorded' = recorded \cup {a}
  /\ Goto(a, After("record"))
  /\ UNCHANGED << directories, files, staged, latest >>

-----------------------------------------------------------------------------
(* A write raises, or the process dies. *)
Interrupt(a) ==
  /\ pc[a] \in Working
  /\ Goto(a, "off")
  /\ UNCHANGED << directories, files, staged, recorded, latest >>

(* The predecessor a scheduled publication needs, as in LiveState. *)
HasLegalPredecessor(slot) ==
  /\ HasPredecessor(directories, slot)
  /\ LET p == IF Partial(slot) THEN slot - 1 ELSE NewestBelow(directories, slot)
     IN  PredecessorSlotLegal(p, slot) /\ p \in Slots /\ Loadable(p)

(* publish_state of a whole scheduled slot, perhaps dying before LATEST.   *)
PublishScheduled(slot) ==
  /\ ~Busy
  /\ files[slot] = EmptySlot /\ HasLegalPredecessor(slot)
  /\ directories' = directories \cup {slot}
  /\ files' = [files EXCEPT ![slot] =
                 [f \in Package |-> IF f = "consumption" THEN None ELSE Scheduled]]
  /\ \/ UNCHANGED latest
     \/ /\ LatestUpTo(slot)
        /\ latest' = [slot |-> slot, state |-> Scheduled]
  /\ UNCHANGED << staged, recorded, pc >>

Init ==
  /\ directories = {}
  /\ files = [s \in Slots |-> EmptySlot]
  /\ staged = [a \in Rebaselines |-> 0]
  /\ recorded = {}
  /\ latest = None
  /\ pc = [a \in Authorizations |-> "off"]

Rebaseline(a) ==
  \/ InspectSlot(a) \/ StageFile(a) \/ Promote(a) \/ PointLatest(a) \/ RepairLatest(a)

Recover(a) ==
  \/ InspectRecovery(a) \/ MakeDirectory(a) \/ WriteFile(a)
  \/ UpdateLatest(a) \/ RecordConsumption(a)

Next ==
  \/ \E a \in Authorizations : Dispatch(a) \/ Rebaseline(a) \/ Recover(a) \/ Interrupt(a)
  \/ \E slot \in Slots : PublishScheduled(slot)

Spec == Init /\ [][Next]_vars

-----------------------------------------------------------------------------
TypeOK ==
  /\ directories \in SUBSET Slots
  /\ files \in [Slots -> [Package -> Writers \cup {None}]]
  /\ staged \in [Rebaselines -> 0 .. Cardinality(Package)]
  /\ recorded \in SUBSET Recoveries
  /\ latest \in [slot : Slots, state : Writers] \cup {None}
  /\ pc \in [Authorizations -> Phases]

(* Wherever a rebaseline dies, its package is in the slot whole or not at  *)
(* all, with the evidence that its authorization is consumed: no other     *)
(* writer's file is ever beside a rebaseline's.                            *)
PackageWhole ==
  \A s \in Slots, a \in Rebaselines :
    (\E f \in Package : files[s][f] = a) => SlotIsPackageOf(s, a)

(* The pointer names a state that loads. *)
LatestLoads ==
  latest # None => Loadable(latest.slot) /\ files[latest.slot]["manifest"] = latest.state

(* A consumed recovery authorization has its state published: the record   *)
(* never stands for a recovery that did not happen.                        *)
RecordedIsPublished ==
  \A a \in recorded : files[Target[a]]["manifest"] = a /\ Loadable(Target[a])

(* What the bootstraps leave: packages whole or absent, a LATEST that      *)
(* loads, and evidence of consumption for what is published.               *)
BootstrapSound == PackageWhole /\ LatestLoads /\ RecordedIsPublished

(* A slot that has its manifest is never written again, neither by another *)
(* authorization nor by a retry of its own.                                *)
PublishedForGood ==
  [][\A s \in Slots : files[s]["manifest"] # None => files'[s] = files[s]]_vars

(* Single use: an authorization whose state is published is never staged   *)
(* or written again, even when it died before that was recorded.           *)
SingleUse ==
  [][\A a \in Authorizations :
       /\ files[Target[a]]["manifest"] = a
       /\ pc[a] = "inspect"
       => pc'[a] \notin {"stage", "directory"}]_vars

(* test_latest_repair_allowed_only_for_missing_older_or_pending_without_   *)
(* newer_canonical_state: a repair puts LATEST on the newest state there   *)
(* is, also when LATEST had been left behind.                              *)
RepairMovesOn ==
  [][\A a \in Rebaselines :
       pc[a] = "repair" /\ latest' # latest =>
         /\ \A s \in Slots : Loadable(s) => s <= latest'.slot
         /\ latest # None => latest.slot <= latest'.slot]_vars
=============================================================================
