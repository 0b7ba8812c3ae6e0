------------------------------ MODULE LiveState -----------------------------
(***************************************************************************)
(* Publication of a production decision state into its slot directory      *)
(* artifacts/production_state/live/<date>/<cadence>:                       *)
(* publish_report of src/public_official_partial_valid.py (the archived    *)
(* official bytes of a 09:30 or 12:00 report) followed by publish_state of *)
(* scripts/publish_production_state_latest.py, against the readers         *)
(* load_live_state of src/production_live_state.py and latest_predecessor  *)
(* and validate_first_refresh of src/phase2_production.py.                 *)
(*                                                                         *)
(* A run prepares one decision: run id, commit and source receipts are     *)
(* part of what it hashes, so a state id is identified with the run that   *)
(* prepared it.  The files of a slot are named by the run whose bytes they *)
(* hold.  A run may call the publishers again after a failure, and runs    *)
(* may come late, for slots older than what is already published.          *)
(*                                                                         *)
(* Portfolios, ledger and rankings are copied unchanged by every cadence   *)
(* modelled here, so only the ranking's presence is kept: the baseline is  *)
(* rankless and each of its successors is ranked.                          *)
(***************************************************************************)
EXTENDS CadenceSlots

CONSTANTS
  Runs,      (* workflow runs, each for one slot                         *)
  Target,    (* the slot each run is for                                 *)
  Genesis,   (* the state of the rebaseline bootstrap                    *)
  None,      (* no file, no state                                        *)
  Torn       (* the content of a file whose write was cut short          *)

ASSUME RunsHaveSlots == Target \in [Runs -> Slots \ {Baseline}]
ASSUME StateNamesDistinct ==
  /\ None # Torn /\ Genesis \notin {None, Torn}
  /\ {Genesis, None, Torn} \cap Runs = {}

VARIABLES
  directories,  (* the slot directories that exist                       *)
  response,     (* public_sources/*.response: the run that wrote them    *)
  receipts,     (* public_sources/*.receipt.json                         *)
  summary,      (* the report consumption evidence                       *)
  stateFile,    (* RATE_PRODUCTION_DECISION_STATE.json                   *)
  persistFile,  (* RATE_PRODUCTION_PERSIST_RESULT_EVIDENCE.json          *)
  manifest,     (* RATE_PRODUCTION_STATE_MANIFEST.json, written last     *)
  latest,       (* RATE_PRODUCTION_STATE_LATEST.json: slot and state     *)
  parent,       (* the predecessor state each run's decision names       *)
  pc            (* where each run is                                     *)

archive == << response, receipts, summary >>
slotFiles == << stateFile, persistFile, manifest >>
vars == << directories, archive, slotFiles, latest, parent, pc >>

States == Runs \cup {Genesis}

Archiving == {"archive", "response", "write_response", "receipts",
              "write_receipts", "summary"}
Publishing == {"check", "directory", "state", "persist", "manifest", "verify", "latest"}
Working == Archiving \cup Publishing
Returned == {"blocked", "crashed", "published"}
Phases == {"idle", "refused", "prepared"} \cup Working \cup Returned

Goto(r, phase) == pc' = [pc EXCEPT ![r] = phase]

(* The four schedulers are one concurrency group: one run works at a time. *)
Busy == \E r \in Runs : pc[r] \in Working

-----------------------------------------------------------------------------
(* The readers.                                                            *)

(* load_live_state: the manifest is there and binds both files' hashes.    *)
Loadable(slot) ==
  /\ manifest[slot] # None
  /\ stateFile[slot] = manifest[slot] /\ persistFile[slot] = manifest[slot]

(* The first full-market refresh leaves its receipt in every later state.  *)
Ranked(state) == state # Genesis

(* Faulty variant: no slot is searched for the receipt.                    *)
FirstRefreshUnsearched(slot) == Evening(slot)

(* validate_first_refresh: every slot, later ones included, is readable    *)
(* and none carries the consumed authority.                                *)
FirstRefreshAllowed(slot) ==
  /\ Evening(slot)
  /\ \A s \in directories : Loadable(s) /\ ~Ranked(manifest[s])

(* Faulty variant: the predecessor is the one the LATEST pointer names. *)
SucceedsLatest(state, slot) ==
  /\ latest.slot < slot /\ latest.state = state
  /\ PredecessorSlotLegal(latest.slot, slot)
  /\ Ranked(state) \/ FirstRefreshAllowed(slot)

(* The state is the legal predecessor for the slot in the tree as it is:   *)
(* load_live_state of the same day's CADENCE_PREDECESSOR for 09:30 and     *)
(* 12:00, else latest_predecessor and validate_transition.                 *)
Succeeds(state, slot) ==
  IF Partial(slot)
    THEN Loadable(slot - 1) /\ manifest[slot - 1] = state
    ELSE /\ HasPredecessor(directories, slot)
         /\ LET p == NewestBelow(directories, slot)
            IN  PredecessorSlotLegal(p, slot) /\ Loadable(p) /\ manifest[p] = state
         /\ Ranked(state) \/ FirstRefreshAllowed(slot)

-----------------------------------------------------------------------------
(* A run prepares its decision on the newest predecessor: main of scripts/ *)
(* run_phase2_production.py, or run of public_official_partial_valid.      *)
(* Missing or stale market data refuses it too.                            *)
Prepare(r) ==
  /\ pc[r] = "idle" /\ ~Busy
  /\ \/ \E state \in States :
          /\ Succeeds(state, Target[r])
          /\ parent' = [parent EXCEPT ![r] = state]
          /\ Goto(r, "prepared")
     \/ Goto(r, "refused") /\ UNCHANGED parent
  /\ UNCHANGED << directories, archive, slotFiles, latest >>

(* The publishers are called, for the first time or again, with the same   *)
(* prepared material.                                                      *)
Call(r) ==
  /\ pc[r] \in {"prepared"} \cup Returned /\ ~Busy
  /\ Goto(r, IF Partial(Target[r]) THEN "archive" ELSE "check")
  /\ UNCHANGED << directories, archive, slotFiles, latest, parent >>

-----------------------------------------------------------------------------
(* publish_report: the response and the receipt of each source are written *)
(* in place unless the same bytes are there already, then the evidence.    *)

MakeArchive(r) ==
  /\ pc[r] = "archive"
  /\ directories' = directories \cup {Target[r]}
  /\ Goto(r, "response")
  /\ UNCHANGED << archive, slotFiles, latest, parent >>

(* A response carries no stamp: another run's may hold the same bytes.     *)
CheckResponse(r) ==
  /\ pc[r] = "response"
  /\ CASE response[Target[r]] = None -> /\ response' = [response EXCEPT ![Target[r]] = Torn]
                                        /\ Goto(r, "write_response")
       [] response[Target[r]] = r    -> Goto(r, "receipts") /\ UNCHANGED response
       [] response[Target[r]] = Torn -> Goto(r, "blocked") /\ UNCHANGED response
       [] OTHER -> /\ \E next \in {"receipts", "blocked"} : Goto(r, next)
                   /\ UNCHANGED response
  /\ UNCHANGED << directories, receipts, summary, slotFiles, latest, parent >>

WriteResponse(r) ==
  /\ pc[r] = "write_response"
  /\ response' = [response EXCEPT ![Target[r]] = r]
  /\ Goto(r, "receipts")
  /\ UNCHANGED << directories, receipts, summary, slotFiles, latest, parent >>

(* Faulty variant: the files are written whether or not they are there. *)
CheckReceiptsOverwriting(r) ==
  /\ pc[r] = "receipts"
  /\ receipts' = [receipts EXCEPT ![Target[r]] = Torn]
  /\ Goto(r, "write_receipts")
  /\ UNCHANGED << directories, response, summary, slotFiles, latest, parent >>

(* A receipt holds its time of observation: it is the run's own, or        *)
(* PUBLIC_REPORT_IMMUTABLE_CONFLICT.                                       *)
CheckReceipts(r) ==
  /\ pc[r] = "receipts"
  /\ \/ /\ receipts[Target[r]] = None
        /\ receipts' = [receipts EXCEPT ![Target[r]] = Torn]
        /\ Goto(r, "write_receipts")
     \/ /\ receipts[Target[r]] # None
        /\ Goto(r, IF receipts[Target[r]] = r THEN "summary" ELSE "blocked")
        /\ UNCHANGED receipts
  /\ UNCHANGED << directories, response, summary, slotFiles, latest, parent >>

WriteReceipts(r) ==
  /\ pc[r] = "write_receipts"
  /\ receipts' = [receipts EXCEPT ![Target[r]] = r]
  /\ Goto(r, "summary")
  /\ UNCHANGED << directories, response, summary, slotFiles, latest, parent >>

WriteSummary(r) ==
  /\ pc[r] = "summary"
  /\ summary' = [summary EXCEPT ![Target[r]] = IF @ = None THEN r ELSE @]
  /\ Goto(r, IF summary[Target[r]] \in {None, r} THEN "check" ELSE "blocked")
  /\ UNCHANGED << directories, response, receipts, slotFiles, latest, parent >>

-----------------------------------------------------------------------------
(* publish_state.                                                          *)

(* The archived bytes a PARTIAL_VALID decision was made from travel with   *)
(* the slot.                                                               *)
SourcesArchived(r) ==
  Partial(Target[r]) => response[Target[r]] \notin {None, Torn} /\ receipts[Target[r]] = r

(* Faulty variant: files of another run in the slot are overwritten. *)
SlotAdmitsAnyone(r) == TRUE

(* An existing slot is immutable, a partial publication included.          *)
SlotAdmits(r) ==
  /\ stateFile[Target[r]] \in {None, r}
  /\ persistFile[Target[r]] \in {None, r}

(* Everything is validated again before a file is written; stale evidence  *)
(* is refused by the clock.  A slot with a manifest is only re-verified.   *)
CheckState(r) ==
  /\ pc[r] = "check"
  /\ \/ /\ Succeeds(parent[r], Target[r]) /\ SourcesArchived(r) /\ SlotAdmits(r)
        /\ \/ manifest[Target[r]] = None /\ Goto(r, "directory")
           \/ manifest[Target[r]] # None /\ Loadable(Target[r]) /\ Goto(r, "verify")
     \/ Goto(r, "blocked")
  /\ UNCHANGED << directories, archive, slotFiles, latest, parent >>

MakeDirectory(r) ==
  /\ pc[r] = "directory"
  /\ directories' = directories \cup {Target[r]}
  /\ Goto(r, "state")
  /\ UNCHANGED << archive, slotFiles, latest, parent >>

WriteState(r) ==
  /\ pc[r] = "state"
  /\ stateFile' = [stateFile EXCEPT ![Target[r]] = r]
  /\ Goto(r, "persist")
  /\ UNCHANGED << directories, archive, persistFile, manifest, latest, parent >>

(* Faulty variant: the manifest is written before the file it binds. *)
WritePersistAfterManifest(r) ==
  /\ pc[r] = "persist"
  /\ manifest' = [manifest EXCEPT ![Target[r]] = r]
  /\ \/ persistFile' = [persistFile EXCEPT ![Target[r]] = r] /\ Goto(r, "manifest")
     \/ UNCHANGED persistFile /\ Goto(r, "crashed")
  /\ UNCHANGED << directories, archive, stateFile, latest, parent >>

WritePersist(r) ==
  /\ pc[r] = "persist"
  /\ persistFile' = [persistFile EXCEPT ![Target[r]] = r]
  /\ Goto(r, "manifest")
  /\ UNCHANGED << directories, archive, stateFile, manifest, latest, parent >>

(* Written last: interrupted publication cannot resolve as a live state.   *)
WriteManifest(r) ==
  /\ pc[r] = "manifest"
  /\ manifest' = [manifest EXCEPT ![Target[r]] = r]
  /\ Goto(r, "verify")
  /\ UNCHANGED << directories, archive, stateFile, persistFile, latest, parent >>

VerifySlot(r) ==
  /\ pc[r] = "verify"
  /\ Goto(r, IF Loadable(Target[r]) THEN "latest" ELSE "blocked")
  /\ UNCHANGED << directories, archive, slotFiles, latest, parent >>

(* Faulty variant: the pointer always moves. *)
UpdateLatestAlways(r) ==
  /\ pc[r] = "latest"
  /\ latest' = [slot |-> Target[r], state |-> r]
  /\ Goto(r, "published")
  /\ UNCHANGED << directories, archive, slotFiles, parent >>

(* The pointer never goes back to an older slot.                           *)
UpdateLatest(r) ==
  /\ pc[r] = "latest"
  /\ latest' = IF latest.slot <= Target[r] THEN [slot |-> Target[r], state |-> r] ELSE latest
  /\ Goto(r, "published")
  /\ UNCHANGED << directories, archive, slotFiles, parent >>

-----------------------------------------------------------------------------
(* A write raises and the call returns BLOCKED, or the runner dies.        *)
Interrupt(r) ==
  /\ pc[r] \in Working
  /\ \E outcome \in {"blocked", "crashed"} : Goto(r, outcome)
  /\ UNCHANGED << directories, archive, slotFiles, latest, parent >>

-----------------------------------------------------------------------------
Init ==
  /\ directories = {Baseline}
  /\ response = [s \in Slots |-> None]
  /\ receipts = [s \in Slots |-> None]
  /\ summary = [s \in Slots |-> None]
  /\ stateFile = [s \in Slots |-> IF s = Baseline THEN Genesis ELSE None]
  /\ persistFile = stateFile
  /\ manifest = stateFile
  /\ latest = [slot |-> Baseline, state |-> Genesis]
  /\ parent = [r \in Runs |-> None]
  /\ pc = [r \in Runs |-> "idle"]

PublishReport(r) ==
  \/ MakeArchive(r) \/ CheckResponse(r) \/ WriteResponse(r)
  \/ CheckReceipts(r) \/ WriteReceipts(r) \/ WriteSummary(r)

PublishState(r) ==
  \/ CheckState(r) \/ MakeDirectory(r) \/ WriteState(r) \/ WritePersist(r)
  \/ WriteManifest(r) \/ VerifySlot(r) \/ UpdateLatest(r)

Work(r) == PublishReport(r) \/ PublishState(r)

Step(r) == Prepare(r) \/ Call(r) \/ Work(r) \/ Interrupt(r)

Next == \E r \in Runs : Step(r)

Spec == Init /\ [][Next]_vars

-----------------------------------------------------------------------------
TypeOK ==
  /\ directories \in SUBSET Slots
  /\ response \in [Slots -> Runs \cup {None, Torn}]
  /\ receipts \in [Slots -> Runs \cup {None, Torn}]
  /\ summary \in [Slots -> Runs \cup {None}]
  /\ stateFile \in [Slots -> States \cup {None}]
  /\ persistFile \in [Slots -> States \cup {None}]
  /\ manifest \in [Slots -> States \cup {None}]
  /\ latest \in [slot : Slots, state : States]
  /\ parent \in [Runs -> States \cup {None}]
  /\ pc \in [Runs -> Phases]

Ready == {s \in Slots : manifest[s] # None}

(* A slot with a manifest loads, whatever was interrupted while it was     *)
(* written and whoever tried to write it before or since.                  *)
ReadySlotsLoad == \A s \in Ready : Loadable(s)

SlotOf(state) == IF state = Genesis THEN Baseline ELSE Target[state]

(* The chain of states: each published state follows a published state of  *)
(* an earlier slot, a morning the evening before, an intraday report the   *)
(* report before it, and an evening never leaves a 09:30 report unclosed.  *)
LineageLegal ==
  \A s \in Ready \ {Baseline} :
    LET previous == parent[manifest[s]]
        slot == SlotOf(previous)
    IN  /\ previous \in States /\ manifest[slot] = previous
        /\ slot < s
        /\ Morning(s) => Evening(slot) /\ DayOf(slot) = DayOf(s) - 1
        /\ Partial(s) \/ Partial(slot) => slot = s - 1 \/ Morning(s)

(* A state is published on the newest directory below its slot (a morning  *)
(* on the newest evening), so nothing published, and nothing half written, *)
(* is skipped over at that moment.                                         *)
FollowsNewest ==
  [][\A s \in Slots : manifest[s] = None /\ manifest'[s] # None =>
       \A d \in directories :
         d < s /\ (Morning(s) => Evening(d)) => d <= SlotOf(parent[manifest'[s]])]_vars

(* The single-use authority of the first full-market refresh is consumed   *)
(* by one published state at most, however late its competitors come.      *)
FirstRefreshOnce ==
  \A s, t \in Ready \ {Baseline} :
    parent[manifest[s]] = Genesis /\ parent[manifest[t]] = Genesis => s = t

(* Both of them: where the published states come from.                     *)
LineageSound == LineageLegal /\ FirstRefreshOnce

(* PASS is only reported of a slot that holds the run's own decision. *)
ReportedPublished ==
  \A r \in Runs : pc[r] = "published" => Loadable(Target[r]) /\ manifest[Target[r]] = r

(* An intraday state is only ready with the very bytes it was made from.   *)
EvidenceTravels ==
  \A s \in Ready : Partial(s) => receipts[s] = manifest[s] /\ response[s] \in Runs

Store == INSTANCE SlotStore WITH
  published <- {manifest[s] : s \in Ready},
  previous <- [state \in {manifest[s] : s \in Ready} |->
                IF state = Genesis THEN Genesis ELSE parent[state]],
  newest <- latest.state

(* The slot files implement the promised store of immutable states. *)
ImplementsSlotStore == Store!StoreSpec
=============================================================================
