------------------------------ MODULE DayChain ------------------------------
(***************************************************************************)
(* The acceptance chain of one trading day: the 09:30, 12:00 and 19:30     *)
(* jobs (CER-076 to CER-078), the replay of the full day (CER-079) and the *)
(* 07:30 of the next day (CER-080), as command lines over one checkout.    *)
(* Each job keeps a decision chain of its own below its state root and     *)
(* leaves evidence of what it persisted; the next job goes by that         *)
(* evidence and never looks into the chain it speaks of.                   *)
(*                                                                         *)
(* States are named by the job that makes them: their ids are constants of *)
(* the code, so every run of a job makes the same state or none.           *)
(***************************************************************************)
EXTENDS Integers, SequencesExt

CONSTANTS MaxStarts,  \* bound: starts of jobs, of all together
          MaxRunning, \* bound: jobs at work at one time
          MaxFaults   \* bound: kills and exceptions

DayConstants == {MaxStarts, MaxRunning, MaxFaults} \subseteq Nat

Stages == {"opening", "midday", "evening", "nextday"}
DayJobs == Stages \cup {"fullday"}

(* Where chains lie: the root of a stage, and the three replay directories *)
(* in the root of the full-day job.                                        *)
Root(j) == IF j = "fullday" THEN {<<"fullday", s>> : s \in {"opening", "midday", "evening"}} ELSE {<<j, j>>}
Places == UNION {Root(j) : j \in DayJobs}

VARIABLES
  chain,     \* place -> the state ids in the chain file, << >> when absent
  index,     \* place -> the ids in the index file
  bodies,    \* places with the full state file
  evidence,  \* job -> "absent", "NOT_RUN", "FAIL", "repeat" or "entry": the
             \* last two are PASS, without and with the persisted entry
  job,       \* job -> what its process is at
  starts, faults

vars == <<chain, index, bodies, evidence, job, starts, faults>>

At(pc) == [pc |-> pc, seen |-> {}, left |-> << >>, first |-> "none"]

Init == /\ chain = [p \in Places |-> << >>] /\ index = [p \in Places |-> {}] /\ bodies = {}
        /\ \E morning \in {"repeat", "entry"} :
             evidence = [j \in DayJobs \cup {"morning"} |-> IF j = "morning" THEN morning ELSE "absent"]
        /\ job = [j \in DayJobs |-> At("idle")]
        /\ starts = 0 /\ faults = 0

Fault == faults < MaxFaults /\ faults' = faults + 1
Idle(j) == job[j].pc = "idle" /\ Cardinality({i \in DayJobs : job[i].pc # "idle"}) < MaxRunning
Step(j, pc) == job' = [job EXCEPT ![j].pc = pc]
-----------------------------------------------------------------------------
(* The evidence a build accepts of the job before it: PASS, with the entry *)
(* of the state that it knows by name.                                     *)
PreviousMorning(seen) == "morning" \in seen
PreviousOpening(seen) == "opening" \in seen
PreviousMidday(seen) == "midday" \in seen
PreviousEvening(seen) == "evening" \in seen

(* validate_persisted_chain: the evidence of the whole day.                *)
PersistedChain(seen) == {"morning", "opening", "midday", "evening"} \subseteq seen

(* The states of the day are computed once more from their sources, over   *)
(* the evidence of the jobs before.                                        *)
ReconstructOpening(seen) == PreviousMorning(seen)
ReconstructMidday(seen) == ReconstructOpening(seen) /\ PreviousOpening(seen)

(* The decisions: each names the state it was computed from.               *)
OpeningDecision == [id |-> "opening", previous |-> "morning"]
MiddayDecision == [id |-> "midday", previous |-> "opening"]
EveningDecision == [id |-> "evening", previous |-> "midday"]
NextDayDecision == [id |-> "nextday", previous |-> "evening"]
-----------------------------------------------------------------------------
(* write_fail_closed with a reason.                                        *)
FailClosed(j) == evidence' = [evidence EXCEPT ![j] = "FAIL"] /\ job' = [job EXCEPT ![j] = At("idle")]

(* Faulty variant: the evidence of the run before stands until the new one *)
(* is written.                                                             *)
StartQuietly(j, reset) ==
  /\ Idle(j) /\ starts < MaxStarts
  /\ starts' = starts + 1
  /\ job' = [job EXCEPT ![j] = At(IF reset THEN "reset" ELSE "load")]
  /\ UNCHANGED <<chain, index, bodies, evidence, faults>>

(* main: the evidence says NOT_RUN before anything else happens.           *)
Start(j, reset) ==
  /\ Idle(j) /\ starts < MaxStarts
  /\ starts' = starts + 1
  /\ evidence' = [evidence EXCEPT ![j] = "NOT_RUN"]
  /\ job' = [job EXCEPT ![j] = At(IF reset THEN "reset" ELSE "load")]
  /\ UNCHANGED <<chain, index, bodies, faults>>

(* --reset-state-root: rmtree, one file after the other.                   *)
Reset(j) ==
  /\ job[j].pc = "reset"
  /\ \/ \E p \in Root(j) :
          /\ \/ chain[p] # << >> /\ chain' = [chain EXCEPT ![p] = << >>] /\ UNCHANGED <<index, bodies>>
             \/ index[p] # {} /\ index' = [index EXCEPT ![p] = {}] /\ UNCHANGED <<chain, bodies>>
             \/ p \in bodies /\ bodies' = bodies \ {p} /\ UNCHANGED <<chain, index>>
          /\ UNCHANGED job
     \/ /\ \A p \in Root(j) : chain[p] = << >> /\ index[p] = {} /\ p \notin bodies
        /\ Step(j, "load") /\ UNCHANGED <<chain, index, bodies>>
  /\ UNCHANGED <<evidence, starts, faults>>

(* The evidence files are read, once.                                      *)
Load(j, builds) ==
  /\ job[j].pc = "load"
  /\ job' = [job EXCEPT ![j] = [pc |-> "build", left |-> builds, first |-> "none",
                                seen |-> {s \in DOMAIN evidence : evidence[s] = "entry"}]]
  /\ UNCHANGED <<chain, index, bodies, evidence, starts, faults>>

Building(j, d, pc) == job[j].pc = pc /\ Head(job[j].left)[2] = d.id

Admit(j, d, accepted) ==
  /\ Building(j, d, "build")
  /\ IF accepted THEN Step(j, "open") /\ UNCHANGED evidence ELSE FailClosed(j)
  /\ UNCHANGED <<chain, index, bodies, starts, faults>>

(* initialize_chain: the state before, in a chain and in an index, unless  *)
(* a chain is there.                                                       *)
InitializeChain(j, d) ==
  LET p == Head(job[j].left) IN
  /\ \/ /\ Building(j, d, "open") /\ chain[p] = << >>
        /\ chain' = [chain EXCEPT ![p] = <<d.previous>>] /\ Step(j, "openindex") /\ UNCHANGED index
     \/ /\ Building(j, d, "open") /\ chain[p] # << >>
        /\ Step(j, "persist") /\ UNCHANGED <<chain, index>>
     \/ /\ Building(j, d, "openindex")
        /\ index' = [index EXCEPT ![p] = {d.previous}] /\ Step(j, "persist") /\ UNCHANGED chain
  /\ UNCHANGED <<bodies, evidence, starts, faults>>

(* Faulty variant: the chain's last state is not compared. *)
AppendableAnywhere(p, d) == chain[p] # << >>

Appendable(p, d) == chain[p] # << >> /\ Last(chain[p]) = d.previous

(* persist_..._state_once: a state that is in the index is a no-op with no *)
(* entry; else the chain, the index and the full state file are written.   *)
PersistOnce(j, d) ==
  LET p == Head(job[j].left) IN
  /\ \/ /\ Building(j, d, "persist") /\ d.id \in index[p]
        /\ job' = [job EXCEPT ![j].pc = "gates", ![j].first = "repeat"]
        /\ UNCHANGED <<chain, index, bodies, evidence>>
     \/ /\ Building(j, d, "persist") /\ d.id \notin index[p]
        /\ IF Appendable(p, d)
           THEN chain' = [chain EXCEPT ![p] = Append(@, d.id)] /\ Step(j, "index") /\ UNCHANGED evidence
           ELSE FailClosed(j) /\ UNCHANGED chain
        /\ UNCHANGED <<index, bodies>>
     \/ /\ Building(j, d, "index")
        /\ index' = [index EXCEPT ![p] = @ \cup {d.id}] /\ Step(j, "body")
        /\ UNCHANGED <<chain, bodies, evidence>>
     \/ /\ Building(j, d, "body")
        /\ bodies' = bodies \cup {p} /\ job' = [job EXCEPT ![j].pc = "gates", ![j].first = "entry"]
        /\ UNCHANGED <<chain, index, evidence>>
  /\ UNCHANGED <<starts, faults>>

(* The gates persist the state twice more, in a scratch directory of the   *)
(* checkout that every build of that stage shares.                         *)
ScratchAlone(j, d) == \A i \in DayJobs \ {j} : job[i].pc # "idle" /\ job[i].left # << >> => ~Building(i, d, "gates")

Gates(j, d, last) ==
  /\ Building(j, d, "gates")
  /\ \/ /\ last
        /\ job' = [job EXCEPT ![j].pc = IF Len(job[j].left) = 1 THEN "write" ELSE "build", ![j].left = Tail(@)]
        /\ UNCHANGED evidence
     \/ (~last \/ ~ScratchAlone(j, d)) /\ FailClosed(j)
  /\ UNCHANGED <<chain, index, bodies, starts, faults>>

WriteEvidence(j, what) ==
  /\ job[j].pc = "write"
  /\ evidence' = [evidence EXCEPT ![j] = what] /\ job' = [job EXCEPT ![j] = At("idle")]
  /\ UNCHANGED <<chain, index, bodies, starts, faults>>
-----------------------------------------------------------------------------
Keep(j, d) == InitializeChain(j, d) \/ PersistOnce(j, d)

KeepOpening(j) == Keep(j, OpeningDecision)
KeepMidday(j) == Keep(j, MiddayDecision)
KeepEvening(j) == Keep(j, EveningDecision)
KeepNextDay(j) == Keep(j, NextDayDecision)

OpeningGates(j) == Gates(j, OpeningDecision, TRUE)
MiddayGates(j) == Gates(j, MiddayDecision, TRUE)
EveningGates(j) == Gates(j, EveningDecision, TRUE)

(* The last gate of the next day takes no state that was there before.     *)
NextDayGates(j) == Gates(j, NextDayDecision, job[j].first = "entry")

BuildOpening(j) ==
  \/ Admit(j, OpeningDecision, PreviousMorning(job[j].seen)) \/ KeepOpening(j) \/ OpeningGates(j)

BuildMidday(j) ==
  \/ Admit(j, MiddayDecision, PreviousOpening(job[j].seen) /\ ReconstructOpening(job[j].seen))
  \/ KeepMidday(j) \/ MiddayGates(j)

BuildEvening(j) ==
  \/ Admit(j, EveningDecision, PreviousMidday(job[j].seen) /\ ReconstructMidday(job[j].seen))
  \/ KeepEvening(j) \/ EveningGates(j)

BuildNextDay(j) ==
  \/ Admit(j, NextDayDecision, PreviousEvening(job[j].seen)) \/ KeepNextDay(j) \/ NextDayGates(j)

(* build_cer079_artifacts checks the day's evidence and builds the three   *)
(* stages once more, each in a directory of its own.                       *)
Replays == <<<<"fullday", "opening">>, <<"fullday", "midday">>, <<"fullday", "evening">>>>

BuildFullDay(j) ==
  \/ PersistedChain(job[j].seen) /\ (BuildOpening(j) \/ BuildMidday(j) \/ BuildEvening(j))
  \/ /\ job[j].pc = "build" /\ ~PersistedChain(job[j].seen)
     /\ FailClosed(j) /\ UNCHANGED <<chain, index, bodies, starts, faults>>

(* A command line from its start to its evidence.                          *)
Run(j, builds, what) == (\E reset \in BOOLEAN : Start(j, reset)) \/ Reset(j) \/ Load(j, builds) \/ WriteEvidence(j, what)

OpeningRun == Run("opening", << <<"opening", "opening">> >>, job["opening"].first) \/ BuildOpening("opening")
MiddayRun == Run("midday", << <<"midday", "midday">> >>, job["midday"].first) \/ BuildMidday("midday")
EveningRun == Run("evening", << <<"evening", "evening">> >>, job["evening"].first) \/ BuildEvening("evening")
NextDayRun == Run("nextday", << <<"nextday", "nextday">> >>, job["nextday"].first) \/ BuildNextDay("nextday")
FullDayRun == Run("fullday", Replays, "PASS") \/ BuildFullDay("fullday")

(* An exception of any call, and the end of a process.                     *)
Raise(j) == /\ job[j].pc # "idle" /\ Fault
            /\ FailClosed(j) /\ UNCHANGED <<chain, index, bodies, starts>>

Kill(j) == /\ job[j].pc # "idle" /\ Fault
           /\ job' = [job EXCEPT ![j] = At("idle")]
           /\ UNCHANGED <<chain, index, bodies, evidence, starts>>

Next == \/ OpeningRun \/ MiddayRun \/ EveningRun \/ FullDayRun \/ NextDayRun
        \/ \E j \in DayJobs : Raise(j) \/ Kill(j)

Spec == Init /\ [][Next]_vars

(* validate_cer080_predecessor: what the unattended soak starts from.      *)
SoakPredecessor == evidence["nextday"] = "entry"
-----------------------------------------------------------------------------
(* Evidence with an entry is backed by the chain it speaks of, whole: the  *)
(* state follows its predecessor, is in the index and has its file, also   *)
(* after a kill between two of the files or in the middle of a reset.      *)
(* PASS without an entry is backed by the index alone; a next day that     *)
(* passes is one that the soak can start from.                             *)
EvidenceBacked ==
  /\ \A d \in {OpeningDecision, MiddayDecision, EveningDecision, NextDayDecision} :
       LET p == <<d.id, d.id>> IN
       /\ evidence[d.id] = "entry" => chain[p] = <<d.previous, d.id>> /\ p \in bodies
       /\ evidence[d.id] \in {"repeat", "entry"} => d.id \in index[p]
  /\ evidence["fullday"] = "PASS" => \A p \in Root("fullday") : p[2] \in index[p]
  /\ evidence["nextday"] \in {"repeat", "entry"} => SoakPredecessor
=============================================================================
