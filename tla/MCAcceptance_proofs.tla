------------------------- MODULE MCAcceptance_proofs -------------------------
(***************************************************************************)
(* Proofs about the acceptance chains.  First the chain of the cadences'   *)
(* decisions: for any jobs and predecessors it is linked, is appended to   *)
(* only at its end, and leads the files that are written after it.  Then   *)
(* what Bootstrap_proofs proves of the bootstraps, carried over to the     *)
(* behaviours that MCAcceptance runs: a behaviour of EitherSpec is, in the *)
(* variables of each part, a behaviour of that part.  Then the Route B     *)
(* ledger and the soaks over its runs, for any number of days: along a     *)
(* chain of runs that each follow the one before no published state is     *)
(* passed over, and from there to credit, finalization and soaks it is     *)
(* arithmetic over slots.  Then the jobs of a day, whose places are one    *)
(* job's each: between two files a job knows what the first one holds.     *)
(* Last the history branch of the full market, for any shards and dates.   *)
(***************************************************************************)
EXTENDS MCAcceptance, FiniteSetTheorems, SequenceTheorems, WellFoundedInduction, TLAPS

TypeInv ==
  /\ chain \in Seq(States)
  /\ index \in SUBSET States /\ read \in SUBSET States
  /\ bodies \in SUBSET Jobs
  /\ pc \in [Jobs -> Phases]

(* Every persist call has returned at most twice, and a job that is still  *)
(* at work has one to go.                                                  *)
PersistsInv ==
  /\ persists \in [Jobs -> 0 .. 2]
  /\ \A j \in Jobs : pc[j] \in Steps => persists[j] <= 1

(* One job of the concurrency group is at work. *)
SerialInv == \A j, k \in Jobs : pc[j] \in Steps /\ pc[k] \in Steps => j = k

(* Behind the first state come recurring ones, each right after the state  *)
(* it was computed from, and each computed later than all before it.       *)
OrderInv ==
  /\ \A i \in DOMAIN chain : i > 1 =>
       chain[i] \in Jobs \ Bootstraps /\ chain[i - 1] = Previous[chain[i]]
  /\ \A i, k \in DOMAIN chain : i < k => Computed[chain[i]] < Computed[chain[k]]

(* What a job knows between its reading and its writing still holds. *)
WritingInv ==
  \A j \in Jobs :
    /\ pc[j] = "initialize" => j \notin Bootstraps
    /\ pc[j] = "seed_index" => chain # << >> /\ index = {} /\ bodies = {}
    /\ pc[j] = "write_chain" => read = index /\ Appendable(j)
    /\ pc[j] = "write_index" => read = index /\ j \in InChain
    /\ pc[j] = "write_body" => j \in index

IInv == TypeInv /\ PersistsInv /\ SerialInv /\ OrderInv /\ WritingInv /\ ChainLeads

-----------------------------------------------------------------------------
LEMMA InitHolds == Init => IInv
<1> SUFFICES ASSUME Init PROVE IInv
  OBVIOUS
<1>1. TypeInv /\ PersistsInv
  BY DEF Init, TypeInv, PersistsInv, Phases, Steps
<1>2. SerialInv /\ WritingInv
  BY DEF Init, SerialInv, WritingInv, Steps
<1>3. OrderInv /\ ChainLeads
  BY DEF Init, OrderInv, ChainLeads
<1> QED BY <1>1, <1>2, <1>3 DEF IInv

(* A step of j to another phase disturbs no other job, if j was at work or *)
(* nobody was.                                                             *)
LEMMA MoveStep ==
  ASSUME IInv, NEW j \in Jobs, NEW phase \in Phases, Goto(j, phase),
         pc[j] \in Steps \/ ~Busy
  PROVE  /\ pc' \in [Jobs -> Phases] /\ pc'[j] = phase
         /\ \A k \in Jobs \ {j} : pc'[k] = pc[k] /\ pc'[k] \notin Steps
         /\ SerialInv'
<1>1. pc \in [Jobs -> Phases] /\ pc' = [pc EXCEPT ![j] = phase]
  BY DEF IInv, TypeInv, Goto
<1>2. \A k \in Jobs \ {j} : pc'[k] = pc[k] /\ pc[k] \notin Steps
  BY <1>1 DEF IInv, SerialInv, Busy
<1> QED BY <1>1, <1>2 DEF SerialInv

(* Steps that leave the chain, the index and the bodies alone. *)
LEMMA QuietStep ==
  ASSUME IInv, NEW j \in Jobs, NEW phase \in Phases, Goto(j, phase),
         pc[j] \in Steps \/ ~Busy,
         UNCHANGED << chain, index, bodies >>, read' \in SUBSET States,
         PersistsInv',
         phase = "initialize" => j \notin Bootstraps,
         phase \notin {"seed_index", "write_body"},
         phase = "write_chain" => read' = index /\ Appendable(j),
         phase = "write_index" => read' = index /\ j \in InChain
  PROVE  IInv'
<1>1. /\ pc' \in [Jobs -> Phases] /\ pc'[j] = phase /\ SerialInv'
      /\ \A k \in Jobs \ {j} : pc'[k] = pc[k] /\ pc'[k] \notin Steps
  BY MoveStep
<1>2. TypeInv'
  BY <1>1 DEF IInv, TypeInv
<1>3. OrderInv' /\ ChainLeads'
  BY DEF IInv, OrderInv, ChainLeads, InChain
<1>4. \A k \in Jobs \ {j} : pc'[k] \notin {"initialize", "seed_index", "write_chain", "write_index", "write_body"}
  BY <1>1 DEF Steps
<1>5. WritingInv'
  BY <1>1, <1>4 DEF WritingInv, Appendable, InChain
<1> QED BY <1>1, <1>2, <1>3, <1>5 DEF IInv

-----------------------------------------------------------------------------
LEMMA StartStep == ASSUME IInv, NEW j \in Jobs, Start(j) PROVE IInv'
<1>1. PICK phase \in {"initialize", "persist", "failed"} :
        Goto(j, phase) /\ (phase = "initialize" => j \notin Bootstraps)
  BY DEF Start
<1>2. PersistsInv'
  BY <1>1 DEF Start, Goto, IInv, PersistsInv, TypeInv
<1>3. phase \in Phases /\ read' \in SUBSET States
  BY DEF Phases, Steps, Start, IInv, TypeInv
<1> QED BY <1>1, <1>2, <1>3, QuietStep DEF Start

LEMMA CrashStep == ASSUME IInv, NEW j \in Jobs, Crash(j) PROVE IInv'
<1>1. PersistsInv'
  BY DEF Crash, Goto, IInv, PersistsInv, TypeInv, Steps
<1>2. "crashed" \in Phases /\ read' \in SUBSET States
  BY DEF Phases, Crash, IInv, TypeInv
<1> QED BY <1>1, <1>2, QuietStep DEF Crash

LEMMA PersistStep == ASSUME IInv, NEW j \in Jobs, Persist(j) PROVE IInv'
<1>1. pc[j] = "persist" /\ pc[j] \in Steps /\ persists[j] \in {0, 1}
  BY DEF Persist, Steps, IInv, PersistsInv
<1>2. PICK phase \in {"persist", "passed", "write_chain", "failed"} :
        Goto(j, phase) /\ (phase = "write_chain" => Appendable(j))
  BY DEF Persist
<1>3. PersistsInv'
  <2>1. CASE UNCHANGED persists
    BY <1>1, <1>2, <2>1 DEF Goto, IInv, PersistsInv, TypeInv, Steps
  <2>2. CASE /\ persists' = [persists EXCEPT ![j] = @ + 1]
             /\ Goto(j, IF persists[j] = 0 THEN "persist" ELSE "passed")
    BY <1>1, <2>2 DEF Goto, IInv, PersistsInv, TypeInv, Steps
  <2> QED BY <2>1, <2>2 DEF Persist
<1>4. phase \in Phases /\ read' = index /\ read' \in SUBSET States
  BY DEF Phases, Steps, Persist, IInv, TypeInv
<1> QED BY <1>1, <1>2, <1>3, <1>4, QuietStep DEF Persist

-----------------------------------------------------------------------------
(* The chain is seeded while there is none, and so nothing is indexed. *)
LEMMA InitializeStep == ASSUME IInv, NEW j \in Jobs, InitializeChain(j) PROVE IInv'
<1>0. /\ pc[j] \in Steps /\ j \in Jobs \ Bootstraps
      /\ UNCHANGED << index, bodies, read, persists >>
  BY DEF InitializeChain, Steps, IInv, WritingInv
<1>1. CASE chain # << >> /\ Goto(j, "persist") /\ UNCHANGED chain
  <2>1. PersistsInv'
    BY <1>0, <1>1 DEF Goto, IInv, PersistsInv, TypeInv
  <2>2. "persist" \in Phases /\ read' \in SUBSET States
    BY <1>0 DEF Phases, Steps, IInv, TypeInv
  <2> QED BY <1>0, <1>1, <2>1, <2>2, QuietStep
<1>2. CASE chain = << >> /\ chain' = << Previous[j] >> /\ Goto(j, "seed_index")
  <2>0. "seed_index" \in Phases
    BY DEF Phases, Steps
  <2>1. /\ pc' \in [Jobs -> Phases] /\ pc'[j] = "seed_index" /\ SerialInv'
        /\ \A k \in Jobs \ {j} : pc'[k] = pc[k] /\ pc'[k] \notin Steps
    BY <1>0, <1>2, <2>0, MoveStep
  <2>2. Previous[j] \in States
    BY <1>0, JobsHavePredecessors DEF States
  <2>3. TypeInv' /\ chain' # << >>
    BY <1>0, <1>2, <2>1, <2>2 DEF IInv, TypeInv
  <2>4. PersistsInv'
    BY <1>0, <2>1 DEF IInv, PersistsInv
  <2>5. OrderInv'
    BY <1>2 DEF OrderInv
  <2>6. index = {} /\ bodies = {}
    BY <1>2 DEF IInv, ChainLeads, InChain
  <2>7. \A k \in Jobs \ {j} : pc'[k] \notin {"initialize", "seed_index", "write_chain", "write_index", "write_body"}
    BY <2>1 DEF Steps
  <2>8. WritingInv'
    BY <1>0, <2>1, <2>3, <2>6, <2>7 DEF WritingInv
  <2>9. ChainLeads'
    BY <1>0, <2>6 DEF ChainLeads
  <2> QED BY <2>1, <2>3, <2>4, <2>5, <2>8, <2>9 DEF IInv
<1> QED BY <1>1, <1>2 DEF InitializeChain

LEMMA SeedIndexStep == ASSUME IInv, NEW j \in Jobs, SeedIndex(j) PROVE IInv'
<1>0. /\ pc[j] = "seed_index" /\ index' = {chain[1]} /\ Goto(j, "persist")
      /\ UNCHANGED << chain, bodies, read, persists >>
  BY DEF SeedIndex
<1>1. /\ pc' \in [Jobs -> Phases] /\ pc'[j] = "persist" /\ SerialInv'
      /\ \A k \in Jobs \ {j} : pc'[k] = pc[k] /\ pc'[k] \notin Steps
  <2> "persist" \in Phases /\ pc[j] \in Steps
    BY <1>0 DEF Phases, Steps
  <2> QED BY <1>0, MoveStep
<1>2. /\ chain \in Seq(States) /\ chain # << >> /\ bodies = {}
  BY <1>0 DEF IInv, TypeInv, WritingInv
<1>3. 1 \in DOMAIN chain /\ chain[1] \in States
  BY <1>2
<1>4. TypeInv' /\ ChainLeads'
  BY <1>0, <1>1, <1>2, <1>3 DEF IInv, TypeInv, ChainLeads, InChain
<1>5. PersistsInv' /\ OrderInv'
  BY <1>0, <1>1 DEF IInv, PersistsInv, OrderInv, Steps
<1>6. WritingInv'
  BY <1>1 DEF WritingInv, Steps
<1> QED BY <1>1, <1>4, <1>5, <1>6 DEF IInv

LEMMA UpTo ==
  ASSUME NEW n \in Nat, n >= 1
  PROVE  n \in 1 .. n /\ \A i \in 1 .. n : i = n \/ i < n
OBVIOUS

(* What can be appended was computed after everything in the chain. *)
LEMMA WriteChainStep == ASSUME IInv, NEW j \in Jobs, WriteChain(j) PROVE IInv'
<1>0. /\ pc[j] = "write_chain" /\ chain' = Append(chain, j) /\ Goto(j, "write_index")
      /\ UNCHANGED << index, bodies, read, persists >>
      /\ chain \in Seq(States) /\ j \in States
  BY DEF WriteChain, IInv, TypeInv, States
<1>1. /\ pc' \in [Jobs -> Phases] /\ pc'[j] = "write_index" /\ SerialInv'
      /\ \A k \in Jobs \ {j} : pc'[k] = pc[k] /\ pc'[k] \notin Steps
  <2> "write_index" \in Phases /\ pc[j] \in Steps
    BY <1>0 DEF Phases, Steps
  <2> QED BY <1>0, MoveStep
<1>2. /\ chain' \in Seq(States) /\ Len(chain') = Len(chain) + 1 /\ Len(chain) \in Nat
      /\ DOMAIN chain = 1 .. Len(chain) /\ DOMAIN chain' = 1 .. Len(chain) + 1
      /\ \A i \in DOMAIN chain : chain'[i] = chain[i] /\ chain[i] \in States
      /\ chain'[Len(chain) + 1] = j
  BY <1>0
<1>3. read = index /\ Appendable(j)
  BY <1>0 DEF IInv, WritingInv
<1>4. OrderInv'
  <2>1. CASE chain = << >>
    <3>1. DOMAIN chain' = 1 .. 1
      BY <1>2, <2>1
    <3> QED BY <3>1 DEF OrderInv
  <2>2. CASE chain # << >>
    <3>1. Len(chain) >= 1 /\ j \in Jobs \ Bootstraps /\ chain[Len(chain)] = Previous[j]
      BY <1>0, <1>2, <1>3, <2>2 DEF Appendable
    <3>2. Computed[chain[Len(chain)]] < Computed[j]
      BY <3>1, PredecessorsAreOlder
    <3>3. \A s \in States : Computed[s] \in Nat
      BY PredecessorsAreOlder DEF States
    <3>4. \A i \in DOMAIN chain : Computed[chain[i]] < Computed[j]
      <4> SUFFICES ASSUME NEW i \in 1 .. Len(chain) PROVE Computed[chain[i]] < Computed[j]
        BY <1>2
      <4>1. i = Len(chain) \/ Computed[chain[i]] < Computed[chain[Len(chain)]]
        <5>1. DOMAIN chain = 1 .. Len(chain) /\ Len(chain) \in Nat /\ Len(chain) >= 1
          BY <1>2, <3>1
        <5>2. Len(chain) \in 1 .. Len(chain) /\ (i = Len(chain) \/ i < Len(chain))
          BY <5>1, UpTo
        <5>3. \A m, k \in DOMAIN chain : m < k => Computed[chain[m]] < Computed[chain[k]]
          BY DEF IInv, OrderInv
        <5> QED BY <5>1, <5>2, <5>3
      <4>2. Computed[chain[i]] \in Nat /\ Computed[chain[Len(chain)]] \in Nat /\ Computed[j] \in Nat
        BY <1>0, <1>2, <3>1, <3>3
      <4> QED BY <3>2, <4>1, <4>2
    <3>5. \A i \in DOMAIN chain' : i > 1 =>
            chain'[i] \in Jobs \ Bootstraps /\ chain'[i - 1] = Previous[chain'[i]]
      <4> SUFFICES ASSUME NEW i \in 1 .. Len(chain) + 1, i > 1
                   PROVE  chain'[i] \in Jobs \ Bootstraps /\ chain'[i - 1] = Previous[chain'[i]]
        BY <1>2
      <4>1. CASE i = Len(chain) + 1
        BY <1>2, <3>1, <4>1
      <4>2. CASE i # Len(chain) + 1
        <5>1. i \in DOMAIN chain /\ i - 1 \in DOMAIN chain
          BY <1>2, <4>2
        <5> QED BY <1>2, <5>1 DEF IInv, OrderInv
      <4> QED BY <4>1, <4>2
    <3>6. \A i, k \in DOMAIN chain' : i < k => Computed[chain'[i]] < Computed[chain'[k]]
      <4> SUFFICES ASSUME NEW i \in 1 .. Len(chain) + 1, NEW k \in 1 .. Len(chain) + 1, i < k
                   PROVE  Computed[chain'[i]] < Computed[chain'[k]]
        BY <1>2
      <4>1. i \in DOMAIN chain
        BY <1>2
      <4>2. CASE k = Len(chain) + 1
        BY <1>2, <3>4, <4>1, <4>2
      <4>3. CASE k # Len(chain) + 1
        <5>1. k \in DOMAIN chain
          BY <1>2, <4>3
        <5> QED BY <1>2, <4>1, <5>1 DEF IInv, OrderInv
      <4> QED BY <4>2, <4>3
    <3> QED BY <3>5, <3>6 DEF OrderInv
  <2> QED BY <2>1, <2>2
<1>5. InChain \subseteq InChain' /\ j \in InChain'
  <2>1. \A i \in DOMAIN chain : i \in DOMAIN chain' /\ chain'[i] = chain[i]
    BY <1>2
  <2>2. Len(chain) + 1 \in DOMAIN chain'
    BY <1>2
  <2> QED BY <1>2, <2>1, <2>2 DEF InChain
<1>6. TypeInv' /\ ChainLeads'
  BY <1>0, <1>1, <1>2, <1>5 DEF IInv, TypeInv, ChainLeads
<1>7. PersistsInv'
  BY <1>0, <1>1 DEF IInv, PersistsInv, Steps
<1>8. WritingInv'
  BY <1>0, <1>1, <1>3, <1>5 DEF WritingInv, Steps
<1> QED BY <1>1, <1>4, <1>6, <1>7, <1>8 DEF IInv

LEMMA WriteIndexStep == ASSUME IInv, NEW j \in Jobs, WriteIndex(j) PROVE IInv'
<1>0. /\ pc[j] = "write_index" /\ index' = read \cup {j} /\ Goto(j, "write_body")
      /\ UNCHANGED << chain, bodies, read, persists >>
      /\ read = index /\ j \in InChain /\ j \in States
  BY DEF WriteIndex, IInv, WritingInv, States
<1>1. /\ pc' \in [Jobs -> Phases] /\ pc'[j] = "write_body" /\ SerialInv'
      /\ \A k \in Jobs \ {j} : pc'[k] = pc[k] /\ pc'[k] \notin Steps
  <2> "write_body" \in Phases /\ pc[j] \in Steps
    BY <1>0 DEF Phases, Steps
  <2> QED BY <1>0, MoveStep
<1>2. TypeInv' /\ ChainLeads'
  BY <1>0, <1>1 DEF IInv, TypeInv, ChainLeads, InChain
<1>3. PersistsInv' /\ OrderInv'
  BY <1>0, <1>1 DEF IInv, PersistsInv, OrderInv, Steps
<1>4. WritingInv'
  BY <1>0, <1>1 DEF WritingInv, Steps
<1> QED BY <1>1, <1>2, <1>3, <1>4 DEF IInv

LEMMA WriteBodyStep == ASSUME IInv, NEW j \in Jobs, WriteBody(j) PROVE IInv'
<1>0. /\ pc[j] = "write_body" /\ bodies' = bodies \cup {j}
      /\ persists' = [persists EXCEPT ![j] = @ + 1]
      /\ UNCHANGED << chain, index, read >> /\ j \in index
  BY DEF WriteBody, IInv, WritingInv
<1> DEFINE phase == IF persists[j] = 0 THEN "persist" ELSE "failed"
<1>1. /\ pc' \in [Jobs -> Phases] /\ pc'[j] = phase /\ SerialInv'
      /\ \A k \in Jobs \ {j} : pc'[k] = pc[k] /\ pc'[k] \notin Steps
  <2>1. phase \in Phases /\ pc[j] \in Steps /\ Goto(j, phase)
    BY <1>0 DEF Phases, Steps, WriteBody
  <2> HIDE DEF phase
  <2> QED BY <2>1, MoveStep
<1>2. TypeInv' /\ ChainLeads'
  BY <1>0, <1>1 DEF IInv, TypeInv, ChainLeads, InChain
<1>3. PersistsInv'
  BY <1>0, <1>1 DEF IInv, PersistsInv, Steps
<1>4. OrderInv'
  BY <1>0 DEF IInv, OrderInv
<1>5. WritingInv'
  BY <1>0, <1>1 DEF WritingInv, Steps
<1> QED BY <1>1, <1>2, <1>3, <1>4, <1>5 DEF IInv

-----------------------------------------------------------------------------
LEMMA NextHolds == IInv /\ [Next]_vars => IInv'
<1> SUFFICES ASSUME IInv, [Next]_vars PROVE IInv'
  OBVIOUS
<1>1. CASE UNCHANGED vars
  BY <1>1 DEF vars, IInv, TypeInv, PersistsInv, SerialInv, OrderInv, WritingInv, ChainLeads,
              InChain, Appendable
<1>2. ASSUME NEW j \in Jobs, Start(j) \/ Step(j) \/ Crash(j) PROVE IInv'
  BY <1>2, StartStep, CrashStep, PersistStep, InitializeStep, SeedIndexStep, WriteChainStep,
     WriteIndexStep, WriteBodyStep DEF Step
<1> QED BY <1>1, <1>2 DEF Next

LEMMA ChainGrows == IInv /\ [Next]_vars => [SubSeq(chain', 1, Len(chain)) = chain]_chain
<1> SUFFICES ASSUME IInv, Next, chain' # chain PROVE SubSeq(chain', 1, Len(chain)) = chain
  BY DEF vars
<1>1. chain \in Seq(States)
  BY DEF IInv, TypeInv
<1>2. PICK j \in Jobs : InitializeChain(j) \/ WriteChain(j)
  BY DEF Next, Step, Start, Crash, SeedIndex, Persist, WriteIndex, WriteBody
<1>3. CASE InitializeChain(j)
  <2>1. chain = << >> /\ chain' = << Previous[j] >>
    BY <1>3 DEF InitializeChain
  <2> QED BY <2>1
<1>4. CASE WriteChain(j)
  <2>1. chain' = Append(chain, j) /\ j \in States
    BY <1>4 DEF WriteChain, States
  <2> QED BY <1>1, <2>1
<1> QED BY <1>2, <1>3, <1>4

(* The inductive invariant of the chain: its order, and what a job that is *)
(* between two files relies on.                                            *)
THEOREM ChainInvariant == Spec => []IInv
<1> QED BY InitHolds, NextHolds, PTL DEF Spec

(* A state enters the chain once, right after the state it was computed    *)
(* from, whatever dies and is started again (persist_*_once).              *)
THEOREM ChainStaysLinked == Spec => []ChainLinked
<1>1. IInv => ChainLinked
  <2> SUFFICES ASSUME IInv PROVE ChainLinked
    OBVIOUS
  <2>1. /\ chain \in Seq(States) /\ OrderInv
        /\ \A i \in DOMAIN chain : i \in Nat /\ chain[i] \in States
    BY DEF IInv, TypeInv
  <2>2. \A s \in States : Computed[s] \in Nat
    BY PredecessorsAreOlder DEF States
  <2>3. \A i, k \in DOMAIN chain : chain[i] = chain[k] => i = k
    <3> SUFFICES ASSUME NEW i \in DOMAIN chain, NEW k \in DOMAIN chain, chain[i] = chain[k], i < k
                 PROVE  FALSE
      BY <2>1
    <3>1. Computed[chain[i]] < Computed[chain[k]]
      BY <2>1 DEF OrderInv
    <3> QED BY <2>1, <2>2, <3>1
  <2>4. \A i \in DOMAIN chain : i > 1 => chain[i - 1] = Parent(chain[i])
    BY <2>1 DEF OrderInv, Parent
  <2> QED BY <2>3, <2>4 DEF ChainLinked
<1> QED BY <1>1, ChainInvariant, PTL

(* The index and the full state files never overtake the chain. *)
THEOREM ChainStaysAhead == Spec => []ChainLeads
<1>1. IInv => ChainLeads
  BY DEF IInv
<1> QED BY <1>1, ChainInvariant, PTL

(* No job ever rewrites what is in the chain. *)
THEOREM ChainOnlyGrows == Spec => ChainAppendOnly
<1> QED BY ChainInvariant, ChainGrows, PTL DEF Spec, ChainAppendOnly

-----------------------------------------------------------------------------
LEMMA BootBehaviour == EitherSpec => Boot!Spec
<1>1. EitherInit => Boot!Init
  BY DEF EitherInit
<1>2. [EitherNext]_<< part, vars, bootstraps, routeB, day, market >> => [Boot!Next]_(Boot!vars)
  BY DEF EitherNext, bootstraps, Boot!vars
<1>3. QED
  BY <1>1, <1>2, PTL DEF EitherSpec, Boot!Spec

LEMMA BootConstants == Boot!BootstrapConstants
BY PartsConstants

(* Packages whole or absent, a LATEST that loads, and evidence of          *)
(* consumption for what is published.                                      *)
THEOREM BootstrapsSound == EitherSpec => []BootstrapSound
<1>1. Boot!Spec => []Boot!BootstrapSound
  BY BootConstants, Boot!BootstrapsSound
<1>2. Boot!BootstrapSound => BootstrapSound
  BY DEF BootstrapSound
<1>3. QED
  BY <1>1, <1>2, BootBehaviour, PTL

(* A slot that has its manifest is never written again.                    *)
THEOREM SlotsPublishedForGood == EitherSpec => PublishedForGood
<1>1. Boot!Spec => Boot!PublishedForGood
  BY BootConstants, Boot!SlotsPublishedForGood
<1>2. QED
  BY <1>1, BootBehaviour DEF PublishedForGood

(* An authorization whose state is published is not used again.            *)
THEOREM AuthorizationsAreSingleUse == EitherSpec => SingleUse
<1>1. Boot!Spec => Boot!SingleUse
  BY BootConstants, Boot!AuthorizationsAreSingleUse
<1>2. QED
  BY <1>1, BootBehaviour DEF SingleUse

(* A repair puts LATEST on the newest state there is.                      *)
THEOREM RepairsMoveOn == EitherSpec => RepairMovesOn
<1>1. Boot!Spec => Boot!RepairMovesOn
  BY BootConstants, Boot!RepairsMoveOn
<1>2. QED
  BY <1>1, BootBehaviour DEF RepairMovesOn

LEMMA LedgerConstants == Ledger!RouteBConstants
BY PartsConstants

-----------------------------------------------------------------------------
(* The Route B ledger.  Runs are published in the order of time, each on a *)
(* legal predecessor.                                                      *)
PublishedInv ==
  /\ Ledger!Baseline \in states \cap manual
  /\ \A s \in states : s <= clock
  /\ \A s \in states \ {Ledger!Baseline} :
       Ledger!HasPredecessor(states, s) /\ Ledger!PredecessorSlotLegal(Ledger!PreviousSlot(s), s)

(* What a ledger's session is credited with. *)
CreditInv(session) ==
  /\ session.accepted \subseteq states \ (late \cup manual \cup foreign)
  /\ session.start >= 2 /\ \A s \in session.accepted : Ledger!DayOf(s) >= session.start
  /\ Ledger!Audit(session)

(* A summary is ready when the ledger is closed, and only then; and only a *)
(* ready one is accepted.                                                  *)
BookInv(book) ==
  /\ book.session # None =>
       CreditInv(book.session) /\ (Ledger!Closed(book.session) => book.summary = "ready")
  /\ book.summary = "ready" => book.session # None /\ Ledger!Closed(book.session)
  /\ book.final = "accepted" => book.summary = "ready"

(* What a job is about to push is main's ledger and possibly more: the     *)
(* group keeps every other job from main in between.                       *)
Extends(new, old) ==
  /\ old.session # None =>
       /\ new.session # None /\ new.session.start = old.session.start
       /\ old.session.accepted \subseteq new.session.accepted
  /\ old.final = "accepted" => new.final = "accepted"

LedgerInv ==
  /\ Ledger!TypeOK /\ PublishedInv /\ BookInv(store)
  /\ clone # None => running # None /\ BookInv(clone) /\ Extends(clone, store)

-----------------------------------------------------------------------------
(* A set of naturals that is not empty has a least member, and a greatest  *)
(* if it is bounded.                                                       *)
LEMMA LeastOf ==
  ASSUME NEW S \in SUBSET Nat, S # {}
  PROVE  \E x \in S : \A y \in S : x <= y
<1>1. PICK x \in S : \A y \in S : ~ (<<y, x>> \in OpToRel(<, Nat))
  <2>1. IsWellFoundedOn(OpToRel(<, Nat), Nat)
    BY NatLessThanWellFounded
  <2> QED BY <2>1, WFMin
<1>2. \A y \in S : ~ (y < x)
  BY <1>1 DEF OpToRel
<1> QED BY <1>2

LEMMA GreatestOf ==
  ASSUME NEW n \in Nat, NEW S \in SUBSET (0 .. n), S # {}
  PROVE  Ledger!Max(S) \in S /\ \A x \in S : x <= Ledger!Max(S)
<1> DEFINE T == {i \in Nat : n - i \in S}
<1>1. PICK x \in S : x \in 0 .. n
  OBVIOUS
<1>2. n - x \in Nat /\ n - (n - x) = x
  BY <1>1
<1>3. T \in SUBSET Nat /\ T # {}
  BY <1>1, <1>2
<1>4. PICK i \in T : \A j \in T : i <= j
  <2> HIDE DEF T
  <2> QED BY <1>3, LeastOf
<1>5. i \in Nat /\ n - i \in S
  BY <1>3, <1>4
<1>6. ASSUME NEW y \in S PROVE n - i >= y
  <2>1. y \in 0 .. n
    OBVIOUS
  <2>2. n - y \in Nat /\ n - (n - y) = y
    BY <2>1
  <2>3. n - y \in T
    BY <2>2
  <2>4. i <= n - y
    BY <1>4, <2>3
  <2> HIDE DEF T
  <2> QED BY <1>5, <2>1, <2>4
<1>7. \E z \in S : \A y \in S : z >= y
  BY <1>5, <1>6
<1>8. Ledger!Max(S) \in S /\ \A y \in S : Ledger!Max(S) >= y
  BY <1>7 DEF Ledger!Max
<1>9. ASSUME NEW y \in S PROVE y <= Ledger!Max(S)
  BY <1>8
<1> QED BY <1>8, <1>9

LEMMA LastSlot == LastDay \in Nat /\ 4 * LastDay + 3 \in Nat
BY LedgerConstants DEF Ledger!RouteBConstants

LEMMA SlotsAreNumbers ==
  /\ Ledger!Slots \subseteq Nat /\ Ledger!Slots \subseteq 0 .. (4 * LastDay + 3) /\ Ledger!Baseline \in Ledger!Slots
  /\ \A s \in Ledger!Slots : s >= Ledger!Baseline /\ s \in Int
BY LastSlot DEF Ledger!Slots, Ledger!Baseline

(* The state a slot follows. *)
LEMMA PreviousFound ==
  ASSUME NEW S \in SUBSET Ledger!Slots, NEW s \in Ledger!Slots, Ledger!HasPredecessor(S, s)
  PROVE  LET p == Ledger!NewestBelow(S, s)
         IN  /\ p \in S /\ p < s /\ (Ledger!Morning(s) => Ledger!Evening(p))
             /\ \A q \in Ledger!Candidates(S, s) : q <= p
<1>1. Ledger!Candidates(S, s) \in SUBSET (0 .. (4 * LastDay + 3)) /\ Ledger!Candidates(S, s) # {}
  BY SlotsAreNumbers DEF Ledger!Candidates, Ledger!HasPredecessor
<1>2. /\ Ledger!Max(Ledger!Candidates(S, s)) \in Ledger!Candidates(S, s)
      /\ \A q \in Ledger!Candidates(S, s) : q <= Ledger!Max(Ledger!Candidates(S, s))
  BY <1>1, LastSlot, GreatestOf
<1> QED BY <1>2 DEF Ledger!NewestBelow, Ledger!Candidates

(* The member of a set before a slot. *)
LEMMA BelowFound ==
  ASSUME NEW S \in SUBSET Ledger!Slots, NEW s \in Ledger!Slots, Ledger!Below(S, s) # {}
  PROVE  LET p == Ledger!Max(Ledger!Below(S, s))
         IN  p \in S /\ p < s /\ \A q \in S : q < s => q <= p
<1>1. Ledger!Below(S, s) \in SUBSET (0 .. (4 * LastDay + 3))
  BY SlotsAreNumbers DEF Ledger!Below
<1>2. /\ Ledger!Max(Ledger!Below(S, s)) \in Ledger!Below(S, s)
      /\ \A q \in Ledger!Below(S, s) : q <= Ledger!Max(Ledger!Below(S, s))
  BY <1>1, LastSlot, GreatestOf
<1> QED BY <1>2 DEF Ledger!Below

(* The days and times of slots. *)
LEMMA SlotCases ==
  ASSUME NEW s \in Ledger!Slots
  PROVE  /\ Ledger!DayOf(s) \in 0 .. LastDay
         /\ \/ Ledger!Morning(s) /\ s = 4 * Ledger!DayOf(s)
            \/ Ledger!NineThirty(s) /\ s = 4 * Ledger!DayOf(s) + 1
            \/ Ledger!Noon(s) /\ s = 4 * Ledger!DayOf(s) + 2
            \/ Ledger!Evening(s) /\ s = 4 * Ledger!DayOf(s) + 3
BY LastSlot DEF Ledger!Slots, Ledger!Baseline, Ledger!DayOf, Ledger!Morning, Ledger!NineThirty,
     Ledger!Noon, Ledger!Evening

(* Along a chain of runs each on the one before, no published state is     *)
(* passed over.                                                            *)
LEMMA Unbroken ==
  ASSUME Ledger!TypeOK, PublishedInv, NEW S \in SUBSET states,
         \A s \in S : Ledger!Below(S, s) # {} => Ledger!PreviousSlot(s) = Ledger!Max(Ledger!Below(S, s)),
         NEW x \in states, NEW low \in S, NEW high \in S, low < x, x < high
  PROVE  x \in S
<1> SUFFICES ASSUME x \notin S PROVE FALSE
  OBVIOUS
<1>1. states \in SUBSET Ledger!Slots /\ S \in SUBSET Ledger!Slots /\ S \in SUBSET Nat
  BY SlotsAreNumbers DEF Ledger!TypeOK
<1> DEFINE T == {r \in S : x < r}
<1>2. PICK r \in T : \A y \in T : r <= y
  <2>1. T \in SUBSET Nat /\ T # {}
    BY <1>1
  <2> HIDE DEF T
  <2> QED BY <2>1, LeastOf
<1>3. r \in S /\ x < r /\ low < r
  BY <1>1, <1>2
<1>4. Ledger!Below(S, r) # {} /\ low \in Ledger!Below(S, r)
  BY <1>3 DEF Ledger!Below
<1>5. PICK p : p = Ledger!Max(Ledger!Below(S, r))
  OBVIOUS
<1>6. p \in S /\ p < r /\ \A q \in S : q < r => q <= p
  BY <1>1, <1>3, <1>4, <1>5, BelowFound
<1>7. p < x
  <2>1. p \in Int /\ x \in Int /\ p # x
    BY <1>1, <1>6
  <2>2. ~ (x < p)
    BY <1>1, <1>2, <1>6
  <2> QED BY <2>1, <2>2
<1>8. Ledger!PreviousSlot(r) = p /\ r # Ledger!Baseline /\ r \in states
  BY <1>1, <1>3, <1>4, <1>5, SlotsAreNumbers
<1>9. Ledger!HasPredecessor(states, r) /\ Ledger!PredecessorSlotLegal(p, r)
  BY <1>8 DEF PublishedInv
<1>10. (Ledger!Morning(r) => Ledger!Evening(p)) /\ \A q \in Ledger!Candidates(states, r) : q <= p
  BY <1>1, <1>3, <1>8, <1>9, PreviousFound DEF Ledger!PreviousSlot
<1>11. CASE Ledger!Morning(r)
  <2>1. Ledger!Evening(p) /\ Ledger!DayOf(p) = Ledger!DayOf(r) - 1
    BY <1>9, <1>10, <1>11 DEF Ledger!PredecessorSlotLegal
  <2>2. p + 1 = r /\ p \in Int /\ r \in Int /\ x \in Int
    BY <1>1, <1>3, <1>6, <1>11, <2>1 DEF Ledger!Morning, Ledger!Evening, Ledger!DayOf
  <2> QED BY <1>3, <1>7, <2>2
<1>12. CASE ~Ledger!Morning(r)
  <2>1. x \in Ledger!Candidates(states, r)
    BY <1>3, <1>12 DEF Ledger!Candidates
  <2> QED BY <1>1, <1>6, <1>7, <1>10, <2>1
<1> QED BY <1>11, <1>12

-----------------------------------------------------------------------------
(* New runs are published behind all others, and nothing else changes of   *)
(* what is published.                                                      *)
Grown ==
  \E new \in SUBSET {s \in Ledger!Slots : s > clock} :
    /\ states' = states \cup new
    /\ late' \cup manual' \cup foreign' \subseteq late \cup manual \cup foreign \cup new

LEMMA PreviousKept ==
  ASSUME Ledger!TypeOK, PublishedInv, Grown, NEW r \in Ledger!Slots, r <= clock
  PROVE  /\ Ledger!PreviousSlot(r)' = Ledger!PreviousSlot(r)
         /\ Ledger!Candidates(states', r) = Ledger!Candidates(states, r)
<1>1. clock \in Int /\ r \in Int
  BY SlotsAreNumbers DEF Ledger!TypeOK
<1>2. PICK new \in SUBSET {s \in Ledger!Slots : s > clock} : states' = states \cup new
  BY DEF Grown
<1>3. \A p \in new : p \in Int /\ ~ (p < r)
  BY <1>1, <1>2, SlotsAreNumbers
<1>4. Ledger!Candidates(states', r) = Ledger!Candidates(states, r)
  BY <1>2, <1>3 DEF Ledger!Candidates
<1> QED BY <1>4 DEF Ledger!PreviousSlot, Ledger!NewestBelow

LEMMA CreditKept ==
  ASSUME Ledger!TypeOK, PublishedInv, Grown, NEW session, CreditInv(session)
  PROVE  CreditInv(session)'
<1>1. PICK credit : credit = session.accepted
  OBVIOUS
<1>2. credit \subseteq states \ (late \cup manual \cup foreign) /\ Ledger!Audit(session)
  BY <1>1 DEF CreditInv
<1>3. \A s \in credit : s \in Ledger!Slots /\ s <= clock
  BY <1>2 DEF Ledger!TypeOK, PublishedInv
<1>4. credit \subseteq states' \ (late' \cup manual' \cup foreign')
  <2>1. PICK new \in SUBSET {s \in Ledger!Slots : s > clock} :
          /\ states' = states \cup new
          /\ late' \cup manual' \cup foreign' \subseteq late \cup manual \cup foreign \cup new
    BY DEF Grown
  <2>2. \A s \in credit : s \notin new
    <3>1. clock \in Int /\ (\A s \in credit : s \in Int) /\ \A q \in new : q > clock
      BY <1>3, <2>1, SlotsAreNumbers DEF Ledger!TypeOK
    <3> QED BY <1>3, <3>1
  <2> QED BY <1>2, <2>1, <2>2
<1>5. \A s \in credit : Ledger!PreviousSlot(s)' = Ledger!PreviousSlot(s)
  BY <1>3, PreviousKept
<1>6. Ledger!Audit(session)'
  BY <1>1, <1>2, <1>5 DEF Ledger!Audit
<1> QED BY <1>1, <1>4, <1>6 DEF CreditInv

LEMMA BookKept ==
  ASSUME Ledger!TypeOK, PublishedInv, Grown, NEW book, BookInv(book)
  PROVE  BookInv(book)'
<1>1. PICK session : session = book.session
  OBVIOUS
<1>2. session # None => CreditInv(session)'
  BY <1>1, CreditKept DEF BookInv
<1> QED BY <1>1, <1>2 DEF BookInv, CreditInv, Ledger!Audit

(* A step that leaves main, and what a job is about to push or drops it.   *)
LEMMA Resting ==
  ASSUME LedgerInv, Grown, Ledger!TypeOK', PublishedInv', store' = store, clone' \in {clone, None},
         clone' # None => running' # None
  PROVE  LedgerInv'
<1>1. PICK book, copy : book = store /\ copy = clone
  OBVIOUS
<1>2. BookInv(book)' /\ (copy # None => BookInv(copy)')
  BY <1>1, BookKept DEF LedgerInv
<1>3. BookInv(store)'
  BY <1>1, <1>2 DEF BookInv, CreditInv, Ledger!Audit
<1>4. clone' # None => BookInv(clone)' /\ Extends(clone', store')
  BY <1>1, <1>2 DEF LedgerInv, BookInv, CreditInv, Ledger!Audit
<1> QED BY <1>3, <1>4 DEF LedgerInv, Extends

LEMMA RestingRuns ==
  ASSUME LedgerInv, UNCHANGED << Ledger!runs, store >>, Ledger!TypeOK', clone' \in {clone, None},
         clone' # None => running' # None
  PROVE  LedgerInv'
<1>1. Grown
  <2>1. states' = states \cup {} /\ {} \in SUBSET {s \in Ledger!Slots : s > clock}
    BY DEF Ledger!runs
  <2> QED BY <2>1 DEF Grown, Ledger!runs
<1>2. PublishedInv'
  BY DEF LedgerInv, PublishedInv, Ledger!runs, Ledger!PreviousSlot
<1> QED BY <1>1, <1>2, Resting

LEMMA BookRigid ==
  ASSUME Ledger!TypeOK, PublishedInv, UNCHANGED Ledger!runs, NEW book, BookInv(book) PROVE BookInv(book)'
<1>1. Grown
  <2>1. states' = states \cup {} /\ {} \in SUBSET {s \in Ledger!Slots : s > clock}
    BY DEF Ledger!runs
  <2> QED BY <2>1 DEF Grown, Ledger!runs
<1> QED BY <1>1, BookKept

(* A job is over, without a push. *)
LEMMA Ending ==
  ASSUME LedgerInv, running # None, Ledger!Failed \/ Ledger!Succeeded, UNCHANGED Ledger!runs,
         faults' \in 0 .. MaxFaults, reruns' = reruns
  PROVE  LedgerInv'
<1>1. /\ running' = pending /\ pending' = None /\ clone' = None /\ store' = store
      /\ requested' = requested /\ dropped' \in {dropped, dropped \cup {running}}
  BY DEF Ledger!Failed, Ledger!Succeeded, Ledger!End
<1>2. Ledger!TypeOK'
  BY <1>1 DEF LedgerInv, Ledger!TypeOK, Ledger!runs
<1> QED BY <1>1, <1>2, RestingRuns

(* A job commits what it is about to push. *)
LEMMA Committing ==
  ASSUME LedgerInv, running # None, NEW new \in Ledger!Stores, Ledger!Commit(new),
         UNCHANGED << Ledger!runs, Ledger!bounds >>,
         BookInv(new), Extends(new, store)
  PROVE  LedgerInv'
<1>1. clone' = new /\ store' = store /\ running' = running /\ UNCHANGED << requested, pending, dropped >>
  BY DEF Ledger!Commit, Ledger!group
<1>2. Ledger!TypeOK'
  BY <1>1 DEF LedgerInv, Ledger!TypeOK, Ledger!runs, Ledger!bounds
<1>3. PublishedInv'
  BY DEF LedgerInv, PublishedInv, Ledger!runs, Ledger!PreviousSlot
<1>4. PICK book : book = store
  OBVIOUS
<1>5. BookInv(book)' /\ BookInv(new)'
  BY <1>4, BookRigid DEF LedgerInv
<1>6. BookInv(store)' /\ BookInv(clone)'
  BY <1>1, <1>4, <1>5 DEF BookInv, CreditInv, Ledger!Audit
<1> QED BY <1>1, <1>2, <1>3, <1>6 DEF LedgerInv, Extends

-----------------------------------------------------------------------------
LEMMA LedgerStarts == Ledger!Init => LedgerInv
<1> SUFFICES ASSUME Ledger!Init PROVE LedgerInv
  OBVIOUS
<1>1. Ledger!Baseline \in Ledger!Slots
  BY SlotsAreNumbers
<1>2. Ledger!TypeOK
  <2>1. store \in Ledger!Stores
    BY DEF Ledger!Init, Ledger!Stores
  <2>2. 0 \in 0 .. MaxFaults /\ 0 \in 0 .. MaxReruns
    BY LedgerConstants DEF Ledger!RouteBConstants
  <2>3. clock \in Ledger!Slots /\ states \subseteq Ledger!Slots /\ late \cup manual \cup foreign \subseteq states
    BY <1>1 DEF Ledger!Init
  <2> QED BY <2>1, <2>2, <2>3 DEF Ledger!Init, Ledger!TypeOK
<1>3. PublishedInv
  BY <1>1, SlotsAreNumbers DEF Ledger!Init, PublishedInv
<1> QED BY <1>2, <1>3 DEF Ledger!Init, LedgerInv, BookInv

LEMMA PublishKeeps ==
  ASSUME LedgerInv, NEW how \in {"punctual", "late", "manual"}, Ledger!Publish(how) PROVE LedgerInv'
<1>1. PICK s : s = clock + 1
  OBVIOUS
<1>2. /\ s \in Ledger!Slots /\ clock' = s /\ states' = states \cup {s}
      /\ Ledger!HasPredecessor(states, s) /\ Ledger!PredecessorSlotLegal(Ledger!PreviousSlot(s), s)
      /\ late' \in {late, late \cup {s}} /\ manual' \in {manual, manual \cup {s}}
      /\ foreign' \in {foreign, foreign \cup {s}}
      /\ requested' \in {requested, requested \cup {<<"collect", s>>},
                        requested \cup {<<"collect", s>>, <<"activate", s>>}}
      /\ <<"activate", s>> \in requested' => <<"activate", s>> \in requested \/ Ledger!Noon(s)
      /\ UNCHANGED <<strayed, running, pending, dropped, clone, store, reruns>>
  BY <1>1 DEF Ledger!Publish, Ledger!Fault, Ledger!bounds
<1>3. faults' \in 0 .. MaxFaults
  BY LedgerConstants DEF Ledger!Publish, Ledger!Fault, Ledger!bounds, LedgerInv, Ledger!TypeOK,
       Ledger!RouteBConstants
<1>4. clock \in Nat /\ s > clock /\ s \in Nat
  BY <1>1, SlotsAreNumbers DEF LedgerInv, Ledger!TypeOK
<1>5. Grown
  <2>1. {s} \in SUBSET {q \in Ledger!Slots : q > clock}
    BY <1>2, <1>4
  <2> QED BY <1>2, <2>1 DEF Grown
<1>6. Ledger!TypeOK'
  <2>1. requested' \subseteq Ledger!RouteJobs
    <3>1. <<"collect", s>> \in Ledger!RouteJobs /\ (Ledger!Noon(s) => <<"activate", s>> \in Ledger!RouteJobs)
      BY <1>2 DEF Ledger!RouteJobs
    <3> QED BY <1>2, <3>1 DEF LedgerInv, Ledger!TypeOK
  <2> QED BY <1>2, <1>3, <2>1 DEF LedgerInv, Ledger!TypeOK
<1>7. PublishedInv'
  <2>1. \A r \in states : r \in Ledger!Slots /\ r <= clock /\ r \in Nat
    BY SlotsAreNumbers DEF LedgerInv, Ledger!TypeOK, PublishedInv
  <2>2. \A r \in states' : r <= clock'
    BY <1>2, <1>4, <2>1
  <2>3. ASSUME NEW r \in states' \ {Ledger!Baseline}
        PROVE  (Ledger!HasPredecessor(states, r) /\ Ledger!PredecessorSlotLegal(Ledger!PreviousSlot(r), r))'
    <3>1. CASE r \in states
      <4>1. /\ Ledger!PreviousSlot(r)' = Ledger!PreviousSlot(r)
            /\ Ledger!Candidates(states', r) = Ledger!Candidates(states, r)
        BY <1>5, <2>1, <3>1, PreviousKept DEF LedgerInv
      <4>2. Ledger!HasPredecessor(states, r) /\ Ledger!PredecessorSlotLegal(Ledger!PreviousSlot(r), r)
        BY <2>3, <3>1 DEF LedgerInv, PublishedInv
      <4> QED BY <4>1, <4>2 DEF Ledger!HasPredecessor
    <3>2. CASE r = s
      <4>1. Ledger!Candidates(states', s) = Ledger!Candidates(states, s)
        BY <1>2, <1>4 DEF Ledger!Candidates
      <4> QED BY <1>2, <3>2, <4>1 DEF Ledger!HasPredecessor, Ledger!PreviousSlot, Ledger!NewestBelow
    <3> QED BY <1>2, <3>1, <3>2
  <2> QED BY <1>2, <2>2, <2>3 DEF PublishedInv, LedgerInv
<1> QED BY <1>2, <1>5, <1>6, <1>7, Resting DEF LedgerInv

(* The other steps that are not a job's: a slot is missed, somebody else   *)
(* commits, a job is queued or run again, or dies.                         *)
LEMMA MissKeeps == ASSUME LedgerInv, Ledger!Miss PROVE LedgerInv'
<1>1. /\ clock' = clock + 1 /\ clock + 1 \in Ledger!Slots /\ faults' \in 0 .. MaxFaults
      /\ UNCHANGED <<states, late, manual, foreign, strayed, Ledger!group, clone, store, reruns>>
  BY LedgerConstants DEF Ledger!Miss, Ledger!Fault, LedgerInv, Ledger!TypeOK, Ledger!RouteBConstants
<1>2. Grown
  <2>1. states' = states \cup {} /\ {} \in SUBSET {s \in Ledger!Slots : s > clock}
    BY <1>1
  <2> QED BY <1>1, <2>1 DEF Grown
<1>3. Ledger!TypeOK'
  BY <1>1 DEF LedgerInv, Ledger!TypeOK, Ledger!group
<1>4. PublishedInv'
  <2>1. \A s \in states : s <= clock + 1
    <3>1. \A s \in states : s <= clock /\ s \in Int /\ clock \in Int
      BY SlotsAreNumbers DEF LedgerInv, Ledger!TypeOK, PublishedInv
    <3> QED BY <3>1
  <2> QED BY <1>1, <2>1 DEF LedgerInv, PublishedInv, Ledger!PreviousSlot
<1> QED BY <1>1, <1>2, <1>3, <1>4, Resting DEF LedgerInv, Ledger!group

LEMMA StrayKeeps == ASSUME LedgerInv, Ledger!Stray PROVE LedgerInv'
<1>1. /\ strayed' = TRUE /\ faults' \in 0 .. MaxFaults
      /\ UNCHANGED <<clock, states, late, manual, foreign, Ledger!group, clone, store, reruns>>
  BY LedgerConstants DEF Ledger!Stray, Ledger!Fault, LedgerInv, Ledger!TypeOK,
       Ledger!RouteBConstants
<1>2. Grown
  <2>1. states' = states \cup {} /\ {} \in SUBSET {s \in Ledger!Slots : s > clock}
    BY <1>1
  <2> QED BY <1>1, <2>1 DEF Grown
<1>3. Ledger!TypeOK'
  BY <1>1 DEF LedgerInv, Ledger!TypeOK, Ledger!group
<1>4. PublishedInv'
  BY <1>1 DEF LedgerInv, PublishedInv, Ledger!PreviousSlot
<1> QED BY <1>1, <1>2, <1>3, <1>4, Resting DEF LedgerInv, Ledger!group

LEMMA QueueKeeps == ASSUME LedgerInv, NEW j \in Ledger!RouteJobs, Ledger!Queue(j) PROVE LedgerInv'
<1>1. /\ j \in requested /\ requested' = requested \ {j} /\ UNCHANGED <<Ledger!runs, clone, store, Ledger!bounds>>
  BY DEF Ledger!Queue
<1>2. /\ running' \in Ledger!RouteJobs \cup {None} /\ pending' \in Ledger!RouteJobs \cup {None}
      /\ dropped' \subseteq Ledger!RouteJobs /\ (running # None => running' = running)
  BY DEF Ledger!Queue, LedgerInv, Ledger!TypeOK
<1>3. Ledger!TypeOK'
  BY <1>1, <1>2 DEF LedgerInv, Ledger!TypeOK, Ledger!runs, Ledger!bounds
<1> QED BY <1>1, <1>2, <1>3, RestingRuns DEF LedgerInv

LEMMA RerunKeeps == ASSUME LedgerInv, NEW j \in Ledger!RouteJobs, Ledger!Rerun(j) PROVE LedgerInv'
<1>1. /\ dropped' = dropped \ {j} /\ requested' = requested \cup {j}
      /\ UNCHANGED <<Ledger!runs, running, pending, clone, store, faults>>
  BY DEF Ledger!Rerun
<1>2. reruns' \in 0 .. MaxReruns
  BY LedgerConstants DEF Ledger!Rerun, LedgerInv, Ledger!TypeOK, Ledger!RouteBConstants
<1>3. Ledger!TypeOK'
  BY <1>1, <1>2 DEF LedgerInv, Ledger!TypeOK, Ledger!runs
<1> QED BY <1>1, <1>3, RestingRuns DEF LedgerInv

LEMMA OutageKeeps == ASSUME LedgerInv, Ledger!Outage PROVE LedgerInv'
<1>1. faults' \in 0 .. MaxFaults /\ reruns' = reruns
  BY LedgerConstants DEF Ledger!Outage, Ledger!Fault, LedgerInv, Ledger!TypeOK,
       Ledger!RouteBConstants
<1> QED BY <1>1, Ending DEF Ledger!Outage

-----------------------------------------------------------------------------
(* The size of a set is the same in an instance. *)
LEMMA SameSize == \A S : Ledger!Cardinality(S) = Cardinality(S)
BY DEF Ledger!Cardinality, Cardinality

(* The whole days of a ledger. *)
LEMMA DaysAreFinite ==
  ASSUME NEW session
  PROVE  /\ IsFiniteSet(Ledger!CompleteDays(session)) /\ Ledger!CompleteDays(session) \in SUBSET (0 .. LastDay)
         /\ Cardinality(Ledger!CompleteDays(session)) \in Nat
<1>1. Ledger!CompleteDays(session) \in SUBSET (0 .. LastDay)
  BY DEF Ledger!CompleteDays
<1>2. IsFiniteSet(0 .. LastDay)
  BY LastSlot, FS_Interval
<1> QED BY <1>1, <1>2, FS_Subset, FS_CardinalityType

(* Every whole day but the first has its morning linked over midnight.     *)
LEMMA LinksCoverDays ==
  ASSUME NEW session, session.accepted \in SUBSET Ledger!Slots
  PROVE  Ledger!CrossDayLinks(session) + 1 >= Ledger!Cardinality(Ledger!CompleteDays(session))
<1> DEFINE D == Ledger!CompleteDays(session)
           A == session.accepted
           L == {s \in A : Ledger!Below(A, s) # {} /\ Ledger!DayOf(Ledger!Max(Ledger!Below(A, s))) # Ledger!DayOf(s)}
<1>1. IsFiniteSet(D) /\ D \in SUBSET (0 .. LastDay) /\ Cardinality(D) \in Nat
  BY DaysAreFinite
<1>2. IsFiniteSet(L) /\ Cardinality(L) \in Nat
  <2>1. IsFiniteSet(Ledger!Slots)
    BY LastSlot, FS_Interval DEF Ledger!Slots, Ledger!Baseline
  <2>2. L \in SUBSET Ledger!Slots
    OBVIOUS
  <2> HIDE DEF L
  <2> QED BY <2>1, <2>2, FS_Subset, FS_CardinalityType
<1>3. CASE D = {}
  <2>1. Cardinality(D) = 0
    BY <1>3, FS_EmptySet
  <2> HIDE DEF D
  <2> HIDE DEF L
  <2>2. Cardinality(D) = Ledger!Cardinality(Ledger!CompleteDays(session))
    BY SameSize DEF D
  <2>3. Cardinality(L) = Ledger!CrossDayLinks(session)
    BY SameSize DEF Ledger!CrossDayLinks, L
  <2> QED BY <1>2, <2>1, <2>2, <2>3
<1>4. CASE D # {}
  <2>1. D \in SUBSET Nat
    BY <1>1, LastSlot
  <2>2. PICK first \in D : \A d \in D : first <= d
    <3> HIDE DEF D
    <3> QED BY <1>4, <2>1, LeastOf
  <2>3. \A d \in D : d \in 0 .. LastDay /\ (4 * d) .. (4 * d + 3) \subseteq A
    BY DEF Ledger!CompleteDays
  <2>4. ASSUME NEW d \in D \ {first} PROVE 4 * d \in L
    <3>1. d \in Nat /\ first \in Nat /\ first < d
      BY <2>1, <2>2
    <3>2. 4 * d \in A /\ 4 * first \in A
      BY <2>3, <3>1
    <3>3. 4 * first \in Ledger!Below(A, 4 * d)
      BY <3>1, <3>2 DEF Ledger!Below
    <3>4. PICK p : p = Ledger!Max(Ledger!Below(A, 4 * d))
      OBVIOUS
    <3>5. p \in A /\ p < 4 * d
      <4>1. PICK s \in Ledger!Slots : s = 4 * d
        BY <3>2
      <4> HIDE DEF A
      <4> QED BY <3>3, <3>4, <4>1, BelowFound DEF A
    <3>6. p \in Int /\ Ledger!DayOf(p) # Ledger!DayOf(4 * d)
      <4>1. p \in Int
        BY <3>5, SlotsAreNumbers
      <4> QED BY <3>1, <3>5, <4>1 DEF Ledger!DayOf
    <3> QED BY <3>2, <3>3, <3>4, <3>6
  <2>5. Cardinality(D \ {first}) <= Cardinality(L)
    <3> DEFINE f == [d \in D \ {first} |-> 4 * d]
    <3>1. f \in Injection(D \ {first}, L)
      <4>1. f \in [D \ {first} -> L]
        BY <2>4
      <4>2. \A d, e \in D \ {first} : f[d] = f[e] => d = e
        BY <2>1
      <4> QED BY <4>1, <4>2 DEF Injection, IsInjective
    <3> HIDE DEF f, L, D
    <3> QED BY <1>2, <3>1, FS_Injection
  <2>6. Cardinality(D \ {first}) = Cardinality(D) - 1
    <3> HIDE DEF D
    <3> QED BY <1>1, <2>2, FS_RemoveElement
  <2>7. Cardinality(L) = Ledger!CrossDayLinks(session)
    BY SameSize DEF Ledger!CrossDayLinks
  <2>8. Cardinality(D) = Ledger!Cardinality(Ledger!CompleteDays(session))
    BY SameSize
  <2> HIDE DEF D, L
  <2> QED BY <1>1, <1>2, <2>5, <2>6, <2>7, <2>8
<1> QED BY <1>3, <1>4

-----------------------------------------------------------------------------
LEMMA NoneIsNothing ==
  /\ None \notin Ledger!Sessions /\ None \notin Ledger!Stores
  /\ \A s \in Ledger!Slots : /\ <<"collect", s>> # None /\ <<"activate", s>> # None
                     /\ <<"finalize", s>> # None
BY LedgerConstants DEF Ledger!RouteBConstants

(* A run that is collected is authentic, and what it is credited with      *)
(* stays a lineage: admission looks at the whole ledger again.             *)
LEMMA AdmitKeeps ==
  ASSUME LedgerInv, running # None, NEW s \in Ledger!Slots, store.session # None, Ledger!Collectable(s),
         Ledger!AdmitToStore(s), UNCHANGED << Ledger!runs, Ledger!bounds >>
  PROVE  LedgerInv'
<1>1. PICK old \in Ledger!Sessions : old = store.session
  BY DEF LedgerInv, Ledger!TypeOK, Ledger!Stores
<1>2. PICK session \in Ledger!Sessions : /\ session = Ledger!Admit(old, s) /\ session.start = old.start
                                  /\ session.accepted = old.accepted \cup {s}
  <2>1. PICK credit \in SUBSET Ledger!Slots : credit = old.accepted \cup {s}
    BY DEF Ledger!Sessions
  <2>2. Ledger!Admit(old, s) = [old EXCEPT !.accepted = credit]
    BY <2>1 DEF Ledger!Admit
  <2> QED BY <2>1, <2>2 DEF Ledger!Sessions
<1>3. CASE Ledger!Succeeded
  <2>1. faults' \in 0 .. MaxFaults /\ reruns' = reruns
    BY DEF LedgerInv, Ledger!TypeOK, Ledger!bounds
  <2> QED BY <1>3, <2>1, Ending
<1>4. CASE Ledger!Failed
  <2>1. faults' \in 0 .. MaxFaults /\ reruns' = reruns
    BY DEF LedgerInv, Ledger!TypeOK, Ledger!bounds
  <2> QED BY <1>4, <2>1, Ending
<1>5. CASE ~Ledger!Succeeded /\ ~Ledger!Failed
  <2>1. PICK summary \in {"progress", "ready"} : summary = Ledger!Summary(session)
    BY DEF Ledger!Summary
  <2>2. PICK new \in Ledger!Stores : new = [store EXCEPT !.session = session, !.summary = summary]
    BY DEF LedgerInv, Ledger!TypeOK, Ledger!Stores
  <2>3. Ledger!Admissible(old, s) /\ Ledger!Audit(session) /\ Ledger!Commit(new)
    BY <1>1, <1>2, <1>5, <2>1, <2>2 DEF Ledger!AdmitToStore
  <2>4. new.session = session /\ new.summary = summary /\ new.final = store.final
    BY <2>2 DEF LedgerInv, Ledger!TypeOK, Ledger!Stores
  <2>5. CreditInv(old)
    BY <1>1 DEF LedgerInv, BookInv
  <2>6. CreditInv(session)
    <3>1. s \in states \ (late \cup manual \cup foreign)
      BY DEF Ledger!Collectable, Ledger!Ancestry, Ledger!Overlay, Ledger!Standard,
           Ledger!ActualTiming
    <3>2. Ledger!DayOf(s) >= session.start
      BY <1>2, <2>3 DEF Ledger!Admissible
    <3> QED BY <1>2, <2>3, <2>5, <3>1, <3>2 DEF CreditInv
  <2>7. Ledger!Closed(session) => summary = "ready"
    <3>1. session.accepted \in SUBSET Ledger!Slots
      BY DEF Ledger!Sessions
    <3>2. Ledger!CrossDayLinks(session) + 1 >= Ledger!Cardinality(Ledger!CompleteDays(session))
      BY <3>1, LinksCoverDays
    <3> QED BY <2>1, <2>3, <3>2 DEF Ledger!Summary
  <2>8. summary = "ready" => Ledger!Closed(session)
    BY <2>1 DEF Ledger!Summary
  <2>9. store.final # "accepted"
    BY <1>1, <2>3 DEF LedgerInv, BookInv, Ledger!Admissible
  <2>10. BookInv(new)
    BY <2>4, <2>6, <2>7, <2>8, <2>9, NoneIsNothing DEF BookInv
  <2>11. Extends(new, store)
    BY <1>1, <1>2, <2>4, NoneIsNothing DEF Extends
  <2> QED BY <2>3, <2>10, <2>11, Committing
<1> QED BY <1>3, <1>4, <1>5

LEMMA CollectKeeps == ASSUME LedgerInv, NEW s \in Ledger!Slots, Ledger!Collect(s) PROVE LedgerInv'
<1>1. running # None /\ UNCHANGED << Ledger!runs, Ledger!bounds >>
  BY NoneIsNothing DEF Ledger!Collect
<1>2. faults' \in 0 .. MaxFaults /\ reruns' = reruns
  BY <1>1 DEF LedgerInv, Ledger!TypeOK, Ledger!bounds
<1>3. CASE Ledger!Failed \/ Ledger!Succeeded
  BY <1>1, <1>2, <1>3, Ending
<1>4. CASE ~Ledger!Failed /\ ~Ledger!Succeeded
  <2>1. store.session # None /\ Ledger!Collectable(s) /\ Ledger!AdmitToStore(s)
    BY <1>4 DEF Ledger!Collect
  <2> QED BY <1>1, <2>1, AdmitKeeps
<1> QED BY <1>3, <1>4

LEMMA NothingClosed == ASSUME NEW session, session.accepted = {} PROVE ~Ledger!Closed(session)
<1>1. \A d \in 0 .. LastDay : 4 * d \in (4 * d) .. (4 * d + 3)
  BY LastSlot
<1>2. Ledger!CompleteDays(session) = {}
  BY <1>1 DEF Ledger!CompleteDays
<1> QED BY <1>2, FS_EmptySet, SameSize DEF Ledger!Closed, Ledger!MIN_TRADING_DAYS

LEMMA ActivateKeeps == ASSUME LedgerInv, NEW s \in Ledger!Slots, Ledger!Activate(s) PROVE LedgerInv'
<1>1. running # None /\ running = <<"activate", s>> /\ UNCHANGED << Ledger!runs, Ledger!bounds >>
  BY NoneIsNothing DEF Ledger!Activate
<1>2. faults' \in 0 .. MaxFaults /\ reruns' = reruns
  BY <1>1 DEF LedgerInv, Ledger!TypeOK, Ledger!bounds
<1>3. CASE Ledger!Failed \/ Ledger!Succeeded
  BY <1>1, <1>2, <1>3, Ending
<1>4. CASE ~Ledger!Failed /\ ~Ledger!Succeeded
  <2>1. Ledger!Activation(s) /\ Ledger!PersistActivation(s) /\ store.session = None
    BY <1>4 DEF Ledger!Activate, Ledger!PersistActivation
  <2>2. PICK session : session = Ledger!OpenSession(s)
    OBVIOUS
  <2>3. session \in Ledger!Sessions /\ session.accepted = {} /\ session.start >= 2
    <3>1. Ledger!Noon(s)
      BY <1>1 DEF LedgerInv, Ledger!TypeOK, Ledger!RouteJobs
    <3>2. s - 2 \in Ledger!Slots /\ s \in Ledger!Slots
      BY <2>1 DEF Ledger!Activation, LedgerInv, Ledger!TypeOK
    <3>3. Ledger!DayOf(s) + 1 \in 1 .. LastDay + 1 /\ Ledger!DayOf(s) + 1 >= 2
      BY <3>1, <3>2, LastSlot DEF Ledger!Slots, Ledger!Baseline, Ledger!DayOf, Ledger!Noon
    <3> QED BY <2>2, <3>3 DEF Ledger!OpenSession, Ledger!Sessions
  <2>4. PICK new \in Ledger!Stores : new = [store EXCEPT !.session = session, !.summary = "progress"]
    BY <2>3 DEF LedgerInv, Ledger!TypeOK, Ledger!Stores
  <2>5. Ledger!Commit(new)
    BY <2>1, <2>2, <2>4 DEF Ledger!PersistActivation
  <2>6. new.session = session /\ new.summary = "progress" /\ new.final = store.final
    BY <2>4 DEF LedgerInv, Ledger!TypeOK, Ledger!Stores
  <2>7. store.final # "accepted"
    BY <2>1 DEF LedgerInv, BookInv
  <2>8. CreditInv(session)
    BY <2>3 DEF CreditInv, Ledger!Audit
  <2>9. BookInv(new)
    BY <2>3, <2>6, <2>7, <2>8, NothingClosed, NoneIsNothing DEF BookInv
  <2>10. Extends(new, store)
    BY <2>1, <2>6 DEF Extends
  <2> QED BY <1>1, <2>5, <2>9, <2>10, Committing
<1> QED BY <1>3, <1>4

LEMMA FinalizeKeeps == ASSUME LedgerInv, Ledger!Finalize PROVE LedgerInv'
<1>1. running # None /\ UNCHANGED << Ledger!runs, Ledger!bounds >>
  BY NoneIsNothing, SlotsAreNumbers DEF Ledger!Finalize, Ledger!Finalization
<1>2. faults' \in 0 .. MaxFaults /\ reruns' = reruns
  BY <1>1 DEF LedgerInv, Ledger!TypeOK, Ledger!bounds
<1>3. CASE Ledger!Failed
  BY <1>1, <1>2, <1>3, Ending
<1>4. CASE ~Ledger!Failed
  <2>1. PICK final \in {"noop", "accepted"} :
          /\ Ledger!Commit([store EXCEPT !.final = final])
          /\ final = "accepted" <=> (store.session # None /\ store.summary = "ready")
    BY <1>4 DEF Ledger!Finalize
  <2>2. PICK new \in Ledger!Stores : new = [store EXCEPT !.final = final]
    BY DEF LedgerInv, Ledger!TypeOK, Ledger!Stores
  <2>3. new.session = store.session /\ new.summary = store.summary /\ new.final = final
    BY <2>2 DEF LedgerInv, Ledger!TypeOK, Ledger!Stores
  <2>4. BookInv(new)
    BY <2>1, <2>3 DEF LedgerInv, BookInv
  <2>5. Extends(new, store)
    BY <2>1, <2>3 DEF LedgerInv, BookInv, Extends
  <2> QED BY <1>1, <2>1, <2>2, <2>4, <2>5, Committing
<1> QED BY <1>3, <1>4

LEMMA PushKeeps == ASSUME LedgerInv, Ledger!Push PROVE LedgerInv'
<1>1. clone # None /\ running # None /\ UNCHANGED << Ledger!runs, Ledger!bounds >>
  BY DEF Ledger!Push, LedgerInv
<1>2. faults' \in 0 .. MaxFaults /\ reruns' = reruns
  BY <1>1 DEF LedgerInv, Ledger!TypeOK, Ledger!bounds
<1>3. CASE Ledger!Failed
  BY <1>1, <1>2, <1>3, Ending
<1>4. CASE ~Ledger!Failed
  <2>1. /\ store' = clone /\ clone' = None /\ running' = pending /\ pending' = None
        /\ dropped' = dropped /\ requested' \in {requested, requested \cup {Ledger!Finalization}}
    BY <1>4 DEF Ledger!Push, Ledger!End
  <2>2. Ledger!TypeOK'
    <3>1. Ledger!Finalization \in Ledger!RouteJobs
      BY DEF Ledger!Finalization, Ledger!RouteJobs
    <3> QED BY <1>1, <2>1, <3>1 DEF LedgerInv, Ledger!TypeOK, Ledger!runs, Ledger!bounds
  <2>3. PublishedInv'
    BY <1>1 DEF LedgerInv, PublishedInv, Ledger!runs, Ledger!PreviousSlot
  <2>4. PICK book : book = clone
    OBVIOUS
  <2>5. BookInv(book)'
    BY <1>1, <2>4, BookRigid DEF LedgerInv
  <2>6. BookInv(store)'
    BY <2>1, <2>4, <2>5 DEF BookInv, CreditInv, Ledger!Audit
  <2> QED BY <2>1, <2>2, <2>3, <2>6 DEF LedgerInv
<1> QED BY <1>3, <1>4

LEMMA LedgerKeeps == ASSUME LedgerInv, [Ledger!Next]_Ledger!vars PROVE LedgerInv'
<1>1. CASE UNCHANGED Ledger!vars
  <2>1. UNCHANGED << Ledger!runs, store, clone, running >> /\ Ledger!TypeOK'
    BY <1>1 DEF Ledger!vars, Ledger!runs, Ledger!group, Ledger!bounds, LedgerInv, Ledger!TypeOK
  <2> QED BY <2>1, RestingRuns DEF LedgerInv
<1>2. CASE \E j \in Ledger!RouteJobs : Ledger!Queue(j) \/ Ledger!Rerun(j)
  BY <1>2, QueueKeeps, RerunKeeps
<1>3. CASE \E s \in Ledger!Slots : Ledger!Activate(s) \/ Ledger!Collect(s)
  BY <1>3, ActivateKeeps, CollectKeeps
<1>4. CASE \E how \in {"punctual", "late", "manual"} : Ledger!Publish(how)
  BY <1>4, PublishKeeps
<1> QED BY <1>1, <1>2, <1>3, <1>4, MissKeeps, StrayKeeps, OutageKeeps, FinalizeKeeps,
     PushKeeps DEF Ledger!Next

-----------------------------------------------------------------------------
LEMMA CreditedNumbers ==
  ASSUME LedgerInv, NEW session, CreditInv(session)
  PROVE  /\ states \in SUBSET Ledger!Slots /\ session.accepted \in SUBSET states
         /\ session.accepted \in SUBSET Ledger!Slots
BY DEF LedgerInv, Ledger!TypeOK, CreditInv

(* A credited run follows the one before it by the rule of its time. *)
LEMMA StepBack ==
  ASSUME LedgerInv, NEW session, CreditInv(session),
         NEW s \in session.accepted, Ledger!Below(session.accepted, s) # {}
  PROVE  LET p == Ledger!PreviousSlot(s)
         IN  /\ p \in session.accepted /\ p < s /\ p = Ledger!Max(Ledger!Below(session.accepted, s))
             /\ Ledger!PredecessorSlotLegal(p, s) /\ (Ledger!Morning(s) => Ledger!Evening(p))
             /\ Ledger!DayOf(p) = Ledger!DayOf(s) \/ (Ledger!Evening(p) /\ Ledger!Morning(s))
<1>1. PICK A \in SUBSET Ledger!Slots : A = session.accepted /\ A \subseteq states /\ states \in SUBSET Ledger!Slots
  BY CreditedNumbers
<1>2. PICK p : p = Ledger!Max(Ledger!Below(A, s))
  OBVIOUS
<1>3. p \in A /\ p < s
  BY <1>1, <1>2, BelowFound
<1>4. Ledger!PreviousSlot(s) = p /\ (Ledger!DayOf(p) = Ledger!DayOf(s) \/ (Ledger!Evening(p) /\ Ledger!Morning(s)))
  BY <1>1, <1>2 DEF CreditInv, Ledger!Audit
<1>5. s # Ledger!Baseline /\ s \in states /\ s \in Ledger!Slots
  <2>1. p \in Ledger!Slots /\ s \in Ledger!Slots /\ s \in states
    BY <1>1, <1>3
  <2>2. p \in Int /\ s \in Int /\ p >= Ledger!Baseline /\ Ledger!Baseline \in Int
    BY <2>1, SlotsAreNumbers DEF Ledger!Baseline
  <2>3. s # Ledger!Baseline
    BY <1>3, <2>2
  <2> QED BY <2>1, <2>3
<1>6. Ledger!HasPredecessor(states, s) /\ Ledger!PredecessorSlotLegal(p, s)
  BY <1>4, <1>5 DEF LedgerInv, PublishedInv
<1>7. Ledger!Morning(s) => Ledger!Evening(p)
  BY <1>1, <1>4, <1>5, <1>6, PreviousFound DEF Ledger!PreviousSlot
<1> QED BY <1>1, <1>2, <1>3, <1>4, <1>6, <1>7

LEMMA DayArithmetic ==
  ASSUME NEW d \in Nat
  PROVE  /\ Ledger!Morning(4 * d) /\ Ledger!NineThirty(4 * d + 1)
         /\ Ledger!Noon(4 * d + 2) /\ Ledger!Evening(4 * d + 3)
         /\ \A i \in 0 .. 3 : Ledger!DayOf(4 * d + i) = d
         /\ ~Ledger!Morning(4 * d + 1) /\ ~Ledger!Morning(4 * d + 2) /\ ~Ledger!Morning(4 * d + 3)
         /\ Ledger!DayOf(4 * d) = d
BY DEF Ledger!Morning, Ledger!NineThirty, Ledger!Noon, Ledger!Evening, Ledger!DayOf

(* A credited evening has the morning of its day credited, when something  *)
(* older is.                                                               *)
LEMMA MorningOfEvening ==
  ASSUME LedgerInv, NEW session, CreditInv(session), NEW d \in Nat,
         4 * d + 3 \in session.accepted, NEW low \in session.accepted, low < 4 * d
  PROVE  4 * d \in session.accepted
<1>1. PICK A \in SUBSET Ledger!Slots : A = session.accepted
  BY CreditedNumbers
<1>2. low \in Int /\ low < 4 * d + 1 /\ low < 4 * d + 2 /\ low < 4 * d + 3
  <2>1. low \in Ledger!Slots
    BY <1>1
  <2>2. low \in Int
    BY <2>1, SlotsAreNumbers
  <2> QED BY <2>2
<1>3. ASSUME NEW s \in A, s \in {4 * d + 1, 4 * d + 2, 4 * d + 3}
      PROVE  /\ Ledger!PreviousSlot(s) \in A /\ Ledger!PreviousSlot(s) < s
             /\ Ledger!PredecessorSlotLegal(Ledger!PreviousSlot(s), s)
             /\ Ledger!DayOf(Ledger!PreviousSlot(s)) = d
  <2>1. Ledger!Below(A, s) # {}
    BY <1>1, <1>2, <1>3 DEF Ledger!Below
  <2>2. ~Ledger!Morning(s)
    BY <1>3, DayArithmetic
  <2>3. Ledger!DayOf(s) = d
    BY <1>3 DEF Ledger!DayOf
  <2> QED BY <1>1, <2>1, <2>2, <2>3, StepBack
<1>4. 4 * d + 1 \in A => 4 * d \in A
  <2> SUFFICES ASSUME 4 * d + 1 \in A PROVE 4 * d \in A
    OBVIOUS
  <2>1. /\ Ledger!PreviousSlot(4 * d + 1) \in A
        /\ Ledger!PredecessorSlotLegal(Ledger!PreviousSlot(4 * d + 1), 4 * d + 1)
    BY <1>3
  <2>2. Ledger!PreviousSlot(4 * d + 1) = (4 * d + 1) - 1
    BY <2>1, DayArithmetic DEF Ledger!PredecessorSlotLegal, Ledger!Partial
  <2> QED BY <2>1, <2>2
<1>5. 4 * d + 2 \in A => 4 * d + 1 \in A
  <2> SUFFICES ASSUME 4 * d + 2 \in A PROVE 4 * d + 1 \in A
    OBVIOUS
  <2>1. /\ Ledger!PreviousSlot(4 * d + 2) \in A
        /\ Ledger!PredecessorSlotLegal(Ledger!PreviousSlot(4 * d + 2), 4 * d + 2)
    BY <1>3
  <2>2. Ledger!PreviousSlot(4 * d + 2) = (4 * d + 2) - 1
    BY <2>1, DayArithmetic DEF Ledger!PredecessorSlotLegal, Ledger!Partial
  <2> QED BY <2>1, <2>2
<1>6. PICK p \in A : p < 4 * d + 3 /\ Ledger!PredecessorSlotLegal(p, 4 * d + 3) /\ Ledger!DayOf(p) = d
  BY <1>1, <1>3
<1>7. p \in Ledger!Slots
  BY <1>1
<1>8. CASE p = 4 * d
  BY <1>1, <1>8
<1>9. CASE p # 4 * d
  <2>1. Ledger!Partial(p)
    BY <1>6, <1>7, <1>9, SlotCases, SlotsAreNumbers DEF Ledger!Partial
  <2>2. p = 4 * d + 2
    BY <1>6, <2>1, DayArithmetic DEF Ledger!PredecessorSlotLegal
  <2> QED BY <1>1, <1>4, <1>5, <2>2
<1> QED BY <1>8, <1>9

(* No day between two whole days is left out. *)
LEMMA EveryDayBetween ==
  ASSUME LedgerInv, NEW session, CreditInv(session),
         NEW first \in Ledger!CompleteDays(session), NEW last \in Ledger!CompleteDays(session),
         NEW between \in first .. last
  PROVE  {4 * between, 4 * between + 3} \subseteq session.accepted
<1> DEFINE A == session.accepted
           Good(d) == 4 * d \in A /\ 4 * d + 3 \in A
           Bad == {d \in first .. last : ~Good(d)}
<1>1. /\ first \in 0 .. LastDay /\ (4 * first) .. (4 * first + 3) \subseteq A
      /\ last \in 0 .. LastDay /\ (4 * last) .. (4 * last + 3) \subseteq A
  BY DEF Ledger!CompleteDays
<1>2. first \in Nat /\ last \in Nat /\ Good(first) /\ Good(last)
  BY <1>1, LastSlot
<1>3. SUFFICES Bad = {}
  <2>1. between \notin Bad
    BY <1>3
  <2> QED BY <2>1
<1>4. SUFFICES ASSUME Bad # {} PROVE FALSE
  OBVIOUS
<1>5. PICK d \in Bad : \A b \in Bad : b <= d
  <2>1. Bad \in SUBSET (0 .. last)
    BY <1>2
  <2>2. Ledger!Max(Bad) \in Bad /\ \A x \in Bad : x <= Ledger!Max(Bad)
    <3> HIDE DEF Bad
    <3> QED BY <1>2, <1>4, <2>1, GreatestOf
  <2> QED BY <2>2
<1>6. d \in first .. last /\ ~Good(d) /\ d # first /\ d # last /\ d \in Nat
  BY <1>2, <1>5
<1>7. d + 1 \in first .. last /\ Good(d + 1)
  <2>1. d + 1 \in first .. last /\ ~ (d + 1 <= d)
    BY <1>2, <1>6
  <2> QED BY <1>5, <2>1
<1>8. 4 * first \in A /\ 4 * first < 4 * d /\ 4 * first < 4 * (d + 1) /\ d + 1 \in Nat
  BY <1>2, <1>6
<1>9. 4 * d + 3 \in A
  <2>1. PICK s : s = 4 * (d + 1)
    OBVIOUS
  <2>2. s \in A /\ Ledger!Below(A, s) # {} /\ Ledger!Morning(s) /\ Ledger!DayOf(s) = d + 1
    BY <1>7, <1>8, <2>1, DayArithmetic DEF Ledger!Below
  <2>3. PICK p : p = Ledger!PreviousSlot(s)
    OBVIOUS
  <2>4. p \in A /\ Ledger!Evening(p) /\ Ledger!PredecessorSlotLegal(p, s)
    BY <2>2, <2>3, StepBack
  <2>5. Ledger!DayOf(p) = d /\ p \in Ledger!Slots
    <3>1. p \in Ledger!Slots
      BY <2>4, CreditedNumbers
    <3> QED BY <1>6, <2>2, <2>4, <3>1 DEF Ledger!PredecessorSlotLegal
  <2>6. p = 4 * d + 3
    BY <2>4, <2>5, SlotsAreNumbers DEF Ledger!Evening, Ledger!DayOf
  <2> QED BY <2>4, <2>6
<1>10. 4 * d \in A
  BY <1>6, <1>8, <1>9, MorningOfEvening
<1> QED BY <1>6, <1>9, <1>10

(* Credit is lineage. *)
LEMMA CreditHolds == ASSUME LedgerInv PROVE Ledger!CreditIsLineage
<1>1. ASSUME store.session # None
      PROVE  LET credit == store.session.accepted IN
             /\ credit \cap (late \cup manual \cup foreign) = {} /\ credit \subseteq states
             /\ \A s \in credit : Ledger!DayOf(s) >= store.session.start
                                  /\ (Ledger!Below(credit, s) # {} => Ledger!PreviousSlot(s) \in credit)
             /\ Ledger!Closed(store.session) => store.summary = "ready"
  <2>1. CreditInv(store.session) /\ (Ledger!Closed(store.session) => store.summary = "ready")
    BY <1>1 DEF LedgerInv, BookInv
  <2>2. \A s \in store.session.accepted :
          Ledger!Below(store.session.accepted, s) # {} => Ledger!PreviousSlot(s) \in store.session.accepted
    BY <2>1, StepBack
  <2> QED BY <2>1, <2>2 DEF CreditInv
<1>2. ASSUME store.final = "accepted"
      PROVE  LET days == Ledger!CompleteDays(store.session) IN
             /\ days \subseteq 2 .. LastDay /\ Ledger!Cardinality(days) >= Ledger!MIN_TRADING_DAYS
             /\ \A first, last \in days : \A d \in first .. last :
                  {4 * d, 4 * d + 3} \subseteq store.session.accepted
  <2>1. CreditInv(store.session) /\ Ledger!Closed(store.session)
    BY <1>2 DEF LedgerInv, BookInv
  <2>2. ASSUME NEW d \in Ledger!CompleteDays(store.session) PROVE d \in 2 .. LastDay
    <3>1. d \in 0 .. LastDay /\ 4 * d \in store.session.accepted /\ d \in Nat
      BY LastSlot DEF Ledger!CompleteDays
    <3>2. Ledger!DayOf(4 * d) = d
      BY <3>1, DayArithmetic
    <3>3. store.session \in Ledger!Sessions
      BY <2>1, NoneIsNothing, <1>2 DEF LedgerInv, BookInv, Ledger!TypeOK, Ledger!Stores
    <3>4. store.session.start \in Int /\ store.session.start >= 2 /\ d >= store.session.start
      BY <2>1, <3>1, <3>2, <3>3, LastSlot DEF CreditInv, Ledger!Sessions
    <3> QED BY <3>1, <3>4
  <2>3. \A first, last \in Ledger!CompleteDays(store.session) : \A d \in first .. last :
          {4 * d, 4 * d + 3} \subseteq store.session.accepted
    BY <2>1, EveryDayBetween
  <2> QED BY <2>1, <2>2, <2>3 DEF Ledger!Closed
<1> QED BY <1>1, <1>2 DEF Ledger!CreditIsLineage

-----------------------------------------------------------------------------
(* A set of slots that is not empty has a first. *)
LEMMA LeastIsMin ==
  ASSUME NEW S \in SUBSET Nat, S # {}
  PROVE  Ledger!Min(S) \in S /\ \A x \in S : Ledger!Min(S) <= x
<1>1. \E x \in S : \A y \in S : x <= y
  BY LeastOf
<1> QED BY <1>1 DEF Ledger!Min

LEMMA ListsArePublished == ASSUME LedgerInv, NEW list \in Ledger!Lists PROVE list \in SUBSET states
BY DEF Ledger!Lists

LEMMA PassingList ==
  ASSUME LedgerInv, NEW list \in SUBSET states, Ledger!ReportSoakPasses(list)
  PROVE  /\ Ledger!Cardinality(Ledger!WholeDays(list)) >= 3 /\ list \cap manual = {}
         /\ list = {s \in states : Ledger!Min(list) <= s /\ s <= Ledger!Max(list)}
         /\ \A d \in Ledger!DayOf(Ledger!Min(list)) .. Ledger!DayOf(Ledger!Max(list)) :
              \E s \in list : Ledger!DayOf(s) = d
<1>1. list # {} /\ Ledger!Completion(list) /\ Ledger!Evaluates(list)
  BY DEF Ledger!ReportSoakPasses
<1>2. /\ list \in SUBSET Ledger!Slots /\ list \in SUBSET Nat
      /\ list \in SUBSET (0 .. (4 * LastDay + 3)) /\ states \in SUBSET Ledger!Slots
  BY SlotsAreNumbers DEF LedgerInv, Ledger!TypeOK
<1>3. PICK first, last : first = Ledger!Min(list) /\ last = Ledger!Max(list)
  OBVIOUS
<1>4. first \in list /\ \A x \in list : first <= x
  BY <1>1, <1>2, <1>3, LeastIsMin
<1>5. last \in list /\ \A x \in list : x <= last
  BY <1>1, <1>2, <1>3, LastSlot, GreatestOf
<1>6. \A s \in list : s \notin manual
  BY <1>1 DEF Ledger!Evaluates, Ledger!ByCron
<1>7. \A s \in list : Ledger!Below(list, s) # {} => Ledger!PreviousSlot(s) = Ledger!Max(Ledger!Below(list, s))
  <2> SUFFICES ASSUME NEW s \in list, Ledger!Below(list, s) # {}
               PROVE  Ledger!PreviousSlot(s) = Ledger!Max(Ledger!Below(list, s))
    OBVIOUS
  <2>1. s # first
    <3>1. PICK r \in list : r < s
      BY DEF Ledger!Below
    <3>2. first <= r /\ first \in Nat /\ r \in Nat /\ s \in Nat
      BY <1>2, <1>4
    <3> QED BY <3>1, <3>2
  <2>2. Ledger!FollowsRun(IF s = first THEN 4 * Ledger!DayOf(first) - 1 ELSE Ledger!Max(Ledger!Below(list, s)), s)
    BY <1>1, <1>3 DEF Ledger!Evaluates
  <2> QED BY <2>1, <2>2 DEF Ledger!FollowsRun
<1>8. ASSUME NEW x \in states, first <= x, x <= last PROVE x \in list
  <2>1. x \in Nat /\ first \in Nat /\ last \in Nat
    BY <1>2, <1>4, <1>5, SlotsAreNumbers
  <2>2. CASE first < x /\ x < last
    BY <1>4, <1>5, <1>7, <2>2, Unbroken DEF LedgerInv
  <2> QED BY <1>4, <1>5, <1>8, <2>1, <2>2
<1>9. list = {s \in states : first <= s /\ s <= last}
  BY <1>4, <1>5, <1>8
<1>10. ASSUME NEW d \in Ledger!DayOf(first) .. Ledger!DayOf(last) PROVE \E s \in list : Ledger!DayOf(s) = d
  <2>1. /\ Ledger!DaysOf(list) \in SUBSET (0 .. LastDay) /\ Ledger!DaysOf(list) # {}
        /\ Ledger!DaysOf(list) \in SUBSET Nat
    BY <1>2, <1>4, SlotCases, LastSlot DEF Ledger!DaysOf
  <2>2. Ledger!DayOf(first) \in Ledger!DaysOf(list) /\ Ledger!DayOf(last) \in Ledger!DaysOf(list)
    BY <1>4, <1>5 DEF Ledger!DaysOf
  <2>3. PICK low, high : low = Ledger!Min(Ledger!DaysOf(list)) /\ high = Ledger!Max(Ledger!DaysOf(list))
    OBVIOUS
  <2>4. low \in Ledger!DaysOf(list) /\ low <= Ledger!DayOf(first)
    BY <2>1, <2>2, <2>3, LeastIsMin
  <2>5. high \in Ledger!DaysOf(list) /\ Ledger!DayOf(last) <= high
    BY <2>1, <2>2, <2>3, LastSlot, GreatestOf
  <2>6. Ledger!DaysOf(list) = low .. high
    BY <1>1, <2>3 DEF Ledger!Evaluates
  <2>7. d \in low .. high
    <3>1. Ledger!DayOf(first) \in Int /\ Ledger!DayOf(last) \in Int /\ low \in Int /\ high \in Int
      BY <2>1, <2>2, <2>4, <2>5
    <3> QED BY <2>4, <2>5, <3>1
  <2> QED BY <2>6, <2>7 DEF Ledger!DaysOf
<1>11. Ledger!Cardinality(Ledger!WholeDays(list)) >= 3
  BY <1>1 DEF Ledger!Completion, Ledger!REQUIRED_TRADING_DAYS
<1> QED BY <1>3, <1>6, <1>9, <1>10, <1>11

(* A whole day has a 09:30, which is report only. *)
LEMMA FullSoakNeverPasses ==
  ASSUME LedgerInv, NEW list \in SUBSET states, NEW blocked \in BOOLEAN
  PROVE  ~Ledger!FullSoakPasses(list, blocked)
<1> SUFFICES ASSUME Ledger!FullSoakPasses(list, blocked) PROVE FALSE
  OBVIOUS
<1>1. PICK credited : credited = IF blocked THEN {} ELSE Ledger!Normalized(list)
  OBVIOUS
<1>2. Ledger!Cardinality(Ledger!WholeDays(credited)) >= Ledger!REQUIRED_TRADING_DAYS
  BY <1>1 DEF Ledger!FullSoakPasses
<1>3. Ledger!WholeDays(credited) # {}
  BY <1>2, FS_EmptySet, SameSize DEF Ledger!REQUIRED_TRADING_DAYS
<1>4. credited \subseteq list /\ \A s \in credited : ~Ledger!Partial(s)
  BY <1>1 DEF Ledger!Normalized, Ledger!Disqualified
<1>5. PICK d \in Ledger!DaysOf(credited) : (4 * d) .. (4 * d + 3) \subseteq credited
  BY <1>3 DEF Ledger!WholeDays
<1>6. d \in Nat
  BY <1>4, SlotCases, LastSlot DEF Ledger!DaysOf, LedgerInv, Ledger!TypeOK
<1>7. 4 * d + 1 \in credited
  BY <1>5, <1>6
<1> QED BY <1>4, <1>6, <1>7, DayArithmetic DEF Ledger!Partial

LEMMA SoakHolds == ASSUME LedgerInv PROVE Ledger!SoakIsLineage
<1> SUFFICES ASSUME NEW list \in Ledger!Lists
             PROVE  /\ Ledger!ReportSoakPasses(list) =>
                         /\ Ledger!Cardinality(Ledger!WholeDays(list)) >= 3 /\ list \cap manual = {}
                         /\ list = {s \in states : Ledger!Min(list) <= s /\ s <= Ledger!Max(list)}
                         /\ \A d \in Ledger!DayOf(Ledger!Min(list)) .. Ledger!DayOf(Ledger!Max(list)) :
                              \E s \in list : Ledger!DayOf(s) = d
                    /\ \A blocked \in BOOLEAN : ~Ledger!FullSoakPasses(list, blocked)
  BY DEF Ledger!SoakIsLineage
<1>1. list \in SUBSET states
  BY ListsArePublished
<1> QED BY <1>1, PassingList, FullSoakNeverPasses

-----------------------------------------------------------------------------
(* What is pushed extends what was on main, and nothing else is written.   *)
LEMMA LedgerGrowing ==
  ASSUME LedgerInv, [Ledger!Next]_Ledger!vars
  PROVE  [store.session # None =>
            /\ store'.session # None /\ store'.session.start = store.session.start
            /\ store.session.accepted \subseteq store'.session.accepted
            /\ store.final = "accepted" => store'.final = "accepted"]_store
<1>1. CASE Ledger!Push
  <2>1. store' = store \/ (clone # None /\ store' = clone)
    BY <1>1 DEF Ledger!Push, Ledger!Failed
  <2> QED BY <2>1 DEF LedgerInv, Extends
<1>2. CASE ~Ledger!Push
  <2>1. CASE Ledger!Miss \/ Ledger!Stray \/ Ledger!Outage \/ Ledger!Finalize
    BY <2>1 DEF Ledger!Miss, Ledger!Stray, Ledger!Outage, Ledger!Finalize, Ledger!Commit,
         Ledger!Failed
  <2>2. CASE \E j \in Ledger!RouteJobs : Ledger!Queue(j) \/ Ledger!Rerun(j)
    BY <2>2 DEF Ledger!Queue, Ledger!Rerun
  <2>3. CASE \E s \in Ledger!Slots : Ledger!Activate(s) \/ Ledger!Collect(s)
    BY <2>3 DEF Ledger!Activate, Ledger!PersistActivation, Ledger!Collect, Ledger!AdmitToStore,
         Ledger!Commit, Ledger!Failed, Ledger!Succeeded
  <2>4. CASE \E how \in {"punctual", "late", "manual"} : Ledger!Publish(how)
    BY <2>4 DEF Ledger!Publish
  <2>5. CASE UNCHANGED Ledger!vars
    BY <2>5 DEF Ledger!vars
  <2>6. \/ Ledger!Miss \/ Ledger!Stray \/ Ledger!Outage \/ Ledger!Finalize \/ UNCHANGED Ledger!vars
        \/ \E j \in Ledger!RouteJobs : Ledger!Queue(j) \/ Ledger!Rerun(j)
        \/ \E s \in Ledger!Slots : Ledger!Activate(s) \/ Ledger!Collect(s)
        \/ \E how \in {"punctual", "late", "manual"} : Ledger!Publish(how)
    BY <1>2 DEF Ledger!Next
  <2> QED BY <2>1, <2>2, <2>3, <2>4, <2>5, <2>6
<1> QED BY <1>1, <1>2

(* What is next in line has no credited run behind it, so the ledger stays *)
(* a lineage with it.                                                      *)
LEMMA NextInLine ==
  ASSUME LedgerInv, NEW s \in Ledger!Slots, Ledger!Creditable(s)
  PROVE  Ledger!Audit(Ledger!Admit(store.session, s))
<1>1. PICK old \in Ledger!Sessions : old = store.session
  BY DEF LedgerInv, Ledger!TypeOK, Ledger!Stores, Ledger!Creditable
<1>2. PICK A \in SUBSET Ledger!Slots : A = old.accepted
  BY DEF Ledger!Sessions
<1>3. PICK session \in Ledger!Sessions : /\ session = Ledger!Admit(old, s) /\ session.start = old.start
                                  /\ session.accepted = A \cup {s}
  <2>1. PICK B \in SUBSET Ledger!Slots : B = A \cup {s}
    OBVIOUS
  <2>2. Ledger!Admit(old, s) = [old EXCEPT !.accepted = B]
    BY <1>2, <2>1 DEF Ledger!Admit
  <2> QED BY <2>1, <2>2 DEF Ledger!Sessions
<1>4. CreditInv(old) /\ A \subseteq states /\ s \in states /\ s \notin A /\ s \notin manual
  BY <1>1, <1>2 DEF LedgerInv, BookInv, CreditInv, Ledger!Creditable
<1>5. CASE A = {}
  <2>1. \A t \in {s} : Ledger!Below({s}, t) = {}
    BY SlotsAreNumbers DEF Ledger!Below
  <2> QED BY <1>1, <1>3, <1>5, <2>1 DEF Ledger!Audit
<1>6. CASE A # {}
  <2>1. PICK q \in A : q = Ledger!PreviousSlot(s) /\ (Ledger!DayOf(q) = Ledger!DayOf(s) \/ Ledger!Morning(s))
    BY <1>1, <1>2, <1>6 DEF Ledger!Creditable
  <2>2. Ledger!HasPredecessor(states, s) /\ Ledger!PredecessorSlotLegal(q, s)
    BY <1>4, <2>1 DEF LedgerInv, PublishedInv
  <2>3. q < s /\ (Ledger!Morning(s) => Ledger!Evening(q)) /\ \A x \in Ledger!Candidates(states, s) : x <= q
    BY <1>4, <2>1, <2>2, PreviousFound DEF LedgerInv, Ledger!TypeOK, Ledger!PreviousSlot
  <2>4. q \in Nat /\ s \in Nat /\ \A t \in A : t \in Nat
    BY <1>2, SlotsAreNumbers
  <2>5. \A t \in A : t < s => t <= q
    <3> SUFFICES ASSUME NEW t \in A, t < s PROVE t <= q
      OBVIOUS
    <3>1. CASE Ledger!Morning(s)
      <4>1. q = s - 1
        BY <2>2, <2>3, <2>4, <3>1 DEF Ledger!PredecessorSlotLegal, Ledger!Morning,
             Ledger!Evening, Ledger!DayOf
      <4> QED BY <2>4, <4>1
    <3>2. CASE ~Ledger!Morning(s)
      <4>1. t \in Ledger!Candidates(states, s)
        BY <1>4, <3>2 DEF Ledger!Candidates
      <4> QED BY <2>3, <4>1
    <3> QED BY <3>1, <3>2
  <2>6. ASSUME NEW t \in A PROVE ~ (s < t)
    <3>1. \A r \in A : Ledger!Below(A, r) # {} => Ledger!PreviousSlot(r) = Ledger!Max(Ledger!Below(A, r))
      BY <1>2, <1>4 DEF CreditInv, Ledger!Audit
    <3> QED BY <1>4, <2>3, <3>1, Unbroken DEF LedgerInv
  <2>7. ASSUME NEW t \in A PROVE Ledger!Below(A \cup {s}, t) = Ledger!Below(A, t)
    BY <2>6 DEF Ledger!Below
  <2>8. Ledger!Max(Ledger!Below(A \cup {s}, s)) = q
    <3>1. PICK B : B = Ledger!Below(A \cup {s}, s)
      OBVIOUS
    <3>2. q \in B /\ \A x \in B : x \in Nat /\ x <= q
      BY <2>3, <2>4, <2>5, <3>1 DEF Ledger!Below
    <3>3. B \in SUBSET (0 .. q)
      BY <3>2
    <3>4. Ledger!Max(B) \in B /\ \A x \in B : x <= Ledger!Max(B)
      BY <2>4, <3>2, <3>3, GreatestOf
    <3>5. Ledger!Max(B) \in Nat /\ Ledger!Max(B) <= q /\ q <= Ledger!Max(B)
      BY <3>2, <3>4
    <3>6. Ledger!Max(B) = q
      BY <2>4, <3>5
    <3> QED BY <3>1, <3>6
  <2>9. ASSUME NEW t \in A \cup {s}, Ledger!Below(A \cup {s}, t) # {}
        PROVE  LET p == Ledger!Max(Ledger!Below(A \cup {s}, t)) IN
               /\ Ledger!PreviousSlot(t) = p
               /\ Ledger!DayOf(p) = Ledger!DayOf(t) \/ (Ledger!Evening(p) /\ Ledger!Morning(t))
    <3>1. CASE t = s
      BY <2>1, <2>3, <2>8, <3>1
    <3>2. CASE t \in A
      BY <1>2, <1>4, <2>7, <2>9, <3>2 DEF CreditInv, Ledger!Audit
    <3> QED BY <3>1, <3>2
  <2> QED BY <1>1, <1>3, <2>9 DEF Ledger!Audit
<1> QED BY <1>5, <1>6

LEMMA AuthenticCollectable ==
  ASSUME LedgerInv, ReaderTakesQueries, NEW s \in Ledger!Slots, Ledger!Creditable(s) PROVE Ledger!Collectable(s)
<1>1. s \in states \ (late \cup manual \cup foreign) /\ Ledger!DayOf(s) >= store.session.start
  BY DEF Ledger!Creditable
<1>2. Ledger!HasPredecessor(states, s) /\ Ledger!PredecessorSlotLegal(Ledger!PreviousSlot(s), s)
  BY <1>1 DEF LedgerInv, PublishedInv
<1>3. Ledger!PreviousSlot(s) \in states
  BY <1>2, PreviousFound DEF LedgerInv, Ledger!TypeOK, Ledger!PreviousSlot
<1>4. Ledger!Partial(s) => Ledger!Overlay(s)
  BY <1>1, <1>2, <1>3 DEF Ledger!PredecessorSlotLegal, Ledger!Overlay
<1> QED BY <1>1, <1>2, <1>4 DEF Ledger!Collectable, Ledger!Ancestry, Ledger!Standard,
     Ledger!ActualTiming, Ledger!TimingProvenance

LEMMA CollectorCredits ==
  ASSUME LedgerInv, ReaderTakesQueries, [Ledger!Next]_Ledger!vars, NEW s \in Ledger!Slots,
         running = <<"collect", s>>, clone = None, Ledger!Creditable(s), running' # running
  PROVE  faults' > faults
<1>1. running # None /\ faults \in Nat
  BY NoneIsNothing, LedgerConstants DEF LedgerInv, Ledger!TypeOK, Ledger!RouteBConstants
<1>2. Ledger!Outage
  <2>1. ~ Ledger!Collect(s)
    <3> SUFFICES ASSUME Ledger!Collect(s) PROVE FALSE
      OBVIOUS
    <3>1. Ledger!Collectable(s)
      BY AuthenticCollectable
    <3>2. /\ Ledger!Audit(Ledger!Admit(store.session, s))
          /\ Ledger!Admissible(store.session, s) /\ s \notin store.session.accepted
      BY NextInLine DEF Ledger!Creditable, Ledger!Admissible
    <3>3. UNCHANGED Ledger!group
      BY <3>1, <3>2 DEF Ledger!Collect, Ledger!AdmitToStore, Ledger!Commit, Ledger!Creditable
    <3> QED BY <3>3 DEF Ledger!group
  <2>2. \A t \in Ledger!Slots : t # s => ~Ledger!Collect(t)
    BY DEF Ledger!Collect
  <2>3. \A t \in Ledger!Slots : ~Ledger!Activate(t)
    BY DEF Ledger!Activate
  <2>4. ~Ledger!Push /\ ~Ledger!Finalize
    BY DEF Ledger!Push, Ledger!Finalize, Ledger!Finalization
  <2>5. \A j \in Ledger!RouteJobs : ~Ledger!Queue(j) /\ ~Ledger!Rerun(j)
    BY <1>1 DEF Ledger!Queue, Ledger!Rerun
  <2>6. ~Ledger!Miss /\ ~Ledger!Stray /\ ~UNCHANGED Ledger!vars
    BY DEF Ledger!Miss, Ledger!Stray, Ledger!vars, Ledger!group
  <2>7. \A how \in {"punctual", "late", "manual"} : ~Ledger!Publish(how)
    BY DEF Ledger!Publish
  <2> QED BY <2>1, <2>2, <2>3, <2>4, <2>5, <2>6, <2>7 DEF Ledger!Next
<1> QED BY <1>1, <1>2 DEF Ledger!Outage, Ledger!Fault
-----------------------------------------------------------------------------
LEMMA LedgerBehaviour == EitherSpec => Ledger!Spec
<1>1. EitherInit => Ledger!Init
  BY DEF EitherInit
<1>2. [EitherNext]_<< part, vars, bootstraps, routeB, day, market >> => [Ledger!Next]_Ledger!vars
  BY DEF EitherNext, routeB, Ledger!vars, Ledger!runs, Ledger!group, Ledger!bounds
<1>3. QED
  BY <1>1, <1>2, PTL DEF EitherSpec, Ledger!Spec

(* The ledger on main and what the running job is about to push are both   *)
(* lineages of authentic runs, and the second extends the first.           *)
THEOREM LedgerInvariant == Ledger!Spec => []LedgerInv
BY LedgerStarts, LedgerKeeps, PTL DEF Ledger!Spec

(* What has credit is the lineage of main, and a soak passes by that       *)
(* lineage only, however many slots and faults there are.                  *)
THEOREM CreditsAreLineage == EitherSpec => []CreditIsLineage
<1>1. LedgerInv => CreditIsLineage
  BY CreditHolds, SoakHolds DEF CreditIsLineage
<1> QED BY <1>1, LedgerInvariant, LedgerBehaviour, PTL

(* A session is opened once, for good, and keeps what it has credited.     *)
THEOREM LedgersGrow == EitherSpec => LedgerGrows
<1>1. LedgerInv /\ [Ledger!Next]_Ledger!vars => [store.session # None =>
        /\ store'.session # None /\ store'.session.start = store.session.start
        /\ store.session.accepted \subseteq store'.session.accepted
        /\ store.final = "accepted" => store'.final = "accepted"]_store
  BY LedgerGrowing
<1>2. Ledger!Spec => Ledger!LedgerGrows
  BY <1>1, LedgerInvariant, PTL DEF Ledger!Spec, Ledger!LedgerGrows
<1> QED BY <1>2, LedgerBehaviour DEF LedgerGrows

(* A collector that ends without an outage has credited its authentic run, *)
(* if the Actions API answers its queries.                                 *)
THEOREM AuthenticRunsCredited == ReaderTakesQueries => (EitherSpec => AuthenticRunCredited)
<1> SUFFICES ASSUME ReaderTakesQueries PROVE EitherSpec => AuthenticRunCredited
  OBVIOUS
<1>1. LedgerInv /\ [Ledger!Next]_Ledger!vars =>
        [\A s \in Ledger!Slots : running = <<"collect", s>> /\ clone = None /\ Ledger!Creditable(s)
                                 /\ running' # running => faults' > faults]_Ledger!vars
  BY CollectorCredits
<1>2. Ledger!Spec => Ledger!AuthenticRunCredited
  BY <1>1, LedgerInvariant, PTL DEF Ledger!Spec, Ledger!AuthenticRunCredited
<1> QED BY <1>2, LedgerBehaviour DEF AuthenticRunCredited
-----------------------------------------------------------------------------
(* The acceptance jobs of a day.  The state a place is for, the one before *)
(* it, and what a job has to build, in its order.                          *)
Before(s) == CASE s = "opening" -> "morning" [] s = "midday" -> "opening"
               [] s = "evening" -> "midday" [] s = "nextday" -> "evening"

Builds(j) == IF j = "fullday" THEN Day!Replays ELSE << <<j, j>> >>

Lefts(j) == {<< >>, Builds(j)} \cup (IF j = "fullday" THEN {Tail(Builds(j)), Tail(Tail(Builds(j)))} ELSE {})

Both(p) == <<Before(p[2]), p[2]>>

(* The state is in the index of its place; and in the chain, with its file. *)
Indexed(p) == p[2] \in listed[p]
Backed(p) == Indexed(p) /\ chains[p] = Both(p) /\ p \in whole

BuildPhases == {"build", "open", "openindex", "persist", "index", "body", "gates"}
DayPhases == BuildPhases \cup {"idle", "reset", "load", "write"}

DayJob == [pc : DayPhases, seen : SUBSET (Day!DayJobs \cup {"morning"}), left : Seq(Day!Places), first : {"none", "repeat", "entry"}]

DaySays == {"absent", "NOT_RUN", "FAIL", "repeat", "entry", "PASS"}

DayTypes ==
  /\ DOMAIN chains = Day!Places /\ DOMAIN listed = Day!Places /\ whole \subseteq Day!Places
  /\ evidence \in [Day!DayJobs \cup {"morning"} -> DaySays]
  /\ job \in [Day!DayJobs -> DayJob]
  /\ \A p \in Day!Places : chains[p] \in {<< >>, <<Before(p[2])>>, Both(p)}

(* A job at work has taken its evidence back, has built what is not left   *)
(* to it, and between two files knows what the first one holds.            *)
DayJobInv(j) ==
  LET phase == job[j].pc
      left == job[j].left
      first == job[j].first
      p == Head(left)
  IN  /\ left \in Lefts(j) /\ (left # << >> <=> phase \in BuildPhases)
      /\ phase # "idle" => evidence[j] = "NOT_RUN"
      /\ phase \in BuildPhases \cup {"write"} =>
           \A q \in Day!Root(j) : (\A i \in DOMAIN left : left[i] # q) => Indexed(q)
      /\ phase = "index" => chains[p] = Both(p)
      /\ phase = "body" => chains[p] = Both(p) /\ Indexed(p)
      /\ phase = "gates" => Indexed(p) /\ first # "none" /\ (first = "entry" => Backed(p))
      /\ phase = "write" /\ j # "fullday" => 
           /\ first # "none" /\ (first = "entry" => Backed(<<j, j>>))
           /\ j = "nextday" => first = "entry"

(* What the evidence of a job that is not at work says.                    *)
DayEvidenceInv(j) ==
  /\ j # "fullday" => /\ evidence[j] = "entry" => Backed(<<j, j>>)
                      /\ evidence[j] = "repeat" => Indexed(<<j, j>>) /\ j # "nextday"
  /\ j = "fullday" /\ evidence[j] = "PASS" => \A p \in Day!Root(j) : Indexed(p)

DayInv == DayTypes /\ \A j \in Day!DayJobs : DayJobInv(j) /\ DayEvidenceInv(j)

-----------------------------------------------------------------------------
(* A place is one job's, and for one stage.                                *)
LEMMA PlaceOfOne ==
  ASSUME NEW j \in Day!DayJobs, NEW p \in Day!Root(j)
  PROVE  /\ p \in Day!Places /\ p[1] = j /\ p[2] \in Day!Stages
         /\ j # "fullday" => p = <<j, j>>
  BY DEF Day!Root, Day!Places, Day!DayJobs, Day!Stages

LEMMA PlacesAre ==
  ASSUME NEW p \in Day!Places
  PROVE  p[1] \in Day!DayJobs /\ p \in Day!Root(p[1])
<1>1. PICK j \in Day!DayJobs : p \in Day!Root(j)
  BY DEF Day!Places
<1> QED BY <1>1, PlaceOfOne

LEMMA AfterHead ==
  ASSUME NEW S, NEW left \in Seq(S), left # << >>
  PROVE  \A i \in DOMAIN left :
           left[i] = Head(left) \/ (i - 1 \in DOMAIN Tail(left) /\ Tail(left)[i - 1] = left[i])
<1>1. Len(left) \in Nat /\ DOMAIN left = 1 .. Len(left) /\ Len(left) # 0 /\ Head(left) = left[1]
  OBVIOUS
<1>2. Tail(left) \in Seq(S) /\ Len(Tail(left)) = Len(left) - 1
  BY <1>1
<1>3. DOMAIN Tail(left) = 1 .. Len(left) - 1 /\ \A i \in 1 .. Len(left) - 1 : Tail(left)[i] = left[i + 1]
  BY <1>1, <1>2
<1>4. ASSUME NEW i \in DOMAIN left, i # 1
      PROVE  i - 1 \in DOMAIN Tail(left) /\ Tail(left)[i - 1] = left[i]
  <2>1. PICK k : k = i - 1
    OBVIOUS
  <2>2. k \in 1 .. Len(left) - 1 /\ k + 1 = i
    BY <1>1, <1>4, <2>1
  <2>3. Tail(left)[k] = left[k + 1]
    BY <1>3, <2>2
  <2> QED BY <1>3, <2>1, <2>2, <2>3
<1>5. ASSUME NEW i \in DOMAIN left
      PROVE  left[i] = Head(left) \/ (i - 1 \in DOMAIN Tail(left) /\ Tail(left)[i - 1] = left[i])
  BY <1>1, <1>4
<1> QED BY <1>5

LEMMA BuildsAre ==
  ASSUME NEW j \in Day!DayJobs
  PROVE  /\ Builds(j) # << >> /\ \A p \in Day!Root(j) : \E i \in DOMAIN Builds(j) : Builds(j)[i] = p
         /\ \A left \in Lefts(j) :
              /\ left \in Seq(Day!Places)
              /\ left # << >> => Head(left) \in Day!Root(j) /\ Tail(left) \in Lefts(j)
<1>1. CASE j # "fullday"
  <2>1. PICK p : p = <<j, j>>
    OBVIOUS
  <2>2. Builds(j) = <<p>> /\ Day!Root(j) = {p} /\ Lefts(j) = {<< >>, <<p>>}
    BY <1>1, <2>1 DEF Builds, Day!Root, Lefts
  <2>3. p \in Day!Places
    BY <2>2 DEF Day!Places
  <2>4. /\ Tail(<<p>>) = << >> /\ Head(<<p>>) = p /\ <<p>> # << >> /\ <<p>> \in Seq(Day!Places)
        /\ 1 \in DOMAIN <<p>> /\ <<p>>[1] = p
    BY <2>3
  <2> QED BY <2>2, <2>4
<1>2. CASE j = "fullday"
  <2>1. PICK a, b, c : a = <<"fullday", "opening">> /\ b = <<"fullday", "midday">> /\ c = <<"fullday", "evening">>
    OBVIOUS
  <2>2. Day!Root(j) = {a, b, c}
    BY <1>2, <2>1 DEF Day!Root
  <2>3. Builds(j) = <<a, b, c>>
    BY <1>2, <2>1 DEF Builds, Day!Replays
  <2>4. /\ Tail(<<a, b, c>>) = <<b, c>> /\ Tail(<<b, c>>) = <<c>> /\ Tail(<<c>>) = << >>
        /\ Head(<<a, b, c>>) = a /\ Head(<<b, c>>) = b /\ Head(<<c>>) = c
        /\ <<a, b, c>> # << >>
    OBVIOUS
  <2>5. Lefts(j) = {<< >>, <<a, b, c>>, <<b, c>>, <<c>>}
    BY <1>2, <2>3, <2>4 DEF Lefts
  <2>6. {a, b, c} \subseteq Day!Places
    BY <2>2 DEF Day!Places
  <2>7. \A left \in {<< >>, <<a, b, c>>, <<b, c>>, <<c>>} : left \in Seq(Day!Places)
    <3>1. <<a, b, c>> \in Seq(Day!Places)
      BY <2>6
    <3>2. <<b, c>> \in Seq(Day!Places) /\ <<c>> \in Seq(Day!Places)
      BY <2>6
    <3>3. << >> \in Seq(Day!Places)
      OBVIOUS
    <3> QED BY <3>1, <3>2, <3>3
  <2>8. \A p \in {a, b, c} : \E i \in {1, 2, 3} : <<a, b, c>>[i] = p
    OBVIOUS
  <2>9. DOMAIN <<a, b, c>> = {1, 2, 3}
    OBVIOUS
  <2> QED BY <2>2, <2>3, <2>4, <2>5, <2>7, <2>8, <2>9
<1> QED BY <1>1, <1>2

(* What a step of one job leaves to prove: the rest is another job's.      *)
LEMMA OwnStep ==
  ASSUME DayInv, NEW j \in Day!DayJobs, DayTypes',
         \A k \in Day!DayJobs \ {j} : job'[k] = job[k] /\ evidence'[k] = evidence[k],
         \A p \in Day!Places \ Day!Root(j) :
           chains'[p] = chains[p] /\ listed'[p] = listed[p] /\ (p \in whole <=> p \in whole'),
         DayJobInv(j)', DayEvidenceInv(j)'
  PROVE  DayInv'
<1>1. ASSUME NEW k \in Day!DayJobs, k # j PROVE DayJobInv(k)' /\ DayEvidenceInv(k)'
  <2>1. job'[k] = job[k] /\ evidence'[k] = evidence[k] /\ DayJobInv(k) /\ DayEvidenceInv(k)
    BY <1>1 DEF DayInv
  <2>2. \A p \in Day!Root(k) : /\ chains'[p] = chains[p] /\ listed'[p] = listed[p]
                               /\ (p \in whole <=> p \in whole') /\ p \in Day!Places
    BY <1>1, PlaceOfOne
  <2>3. \A p \in Day!Root(k) : Indexed(p)' = Indexed(p) /\ Backed(p)' = Backed(p)
    BY <2>2 DEF Indexed, Backed, Both
  <2>4. k # "fullday" => <<k, k>> \in Day!Root(k)
    BY DEF Day!Root
  <2>5. job[k].left # << >> => Head(job[k].left) \in Day!Root(k)
    BY <2>1, BuildsAre DEF DayJobInv
  <2>6. DayEvidenceInv(k)'
    BY <2>1, <2>3, <2>4 DEF DayEvidenceInv
  <2>7. DayJobInv(k)'
    BY <2>1, <2>2, <2>3, <2>4, <2>5 DEF DayJobInv, BuildPhases, Both
  <2> QED BY <2>6, <2>7
<1> QED BY <1>1 DEF DayInv

(* The parts of an own step that speak of what the job did not touch.      *)
LEMMA JobNow ==
  ASSUME DayInv, NEW j \in Day!DayJobs
  PROVE  /\ job[j] \in DayJob /\ DayJobInv(j) /\ DayEvidenceInv(j) /\ DayTypes
         /\ job[j].left \in Lefts(j) /\ job[j].left \in Seq(Day!Places)
         /\ job[j].left # << >> => Head(job[j].left) \in Day!Root(j) /\ Head(job[j].left) \in Day!Places
  BY BuildsAre, PlaceOfOne DEF DayInv, DayTypes, DayJobInv

LEMMA StepIs ==
  ASSUME DayTypes, NEW j \in Day!DayJobs, NEW phase \in DayPhases, Day!Step(j, phase)
  PROVE  /\ job' \in [Day!DayJobs -> DayJob] /\ \A k \in Day!DayJobs \ {j} : job'[k] = job[k]
         /\ job'[j].pc = phase /\ job'[j].left = job[j].left /\ job'[j].first = job[j].first
<1>1. job[j] \in DayJob
  BY DEF DayTypes
<1>2. [job[j] EXCEPT !.pc = phase] \in DayJob
  BY <1>1 DEF DayJob
<1>3. job' = [job EXCEPT ![j] = [job[j] EXCEPT !.pc = phase]]
  BY DEF Day!Step
<1> QED BY <1>1, <1>2, <1>3 DEF DayTypes, DayJob

LEMMA GatesIs ==
  ASSUME DayTypes, NEW j \in Day!DayJobs, NEW found \in {"repeat", "entry"},
         job' = [job EXCEPT ![j].pc = "gates", ![j].first = found]
  PROVE  /\ job' \in [Day!DayJobs -> DayJob] /\ \A k \in Day!DayJobs \ {j} : job'[k] = job[k]
         /\ job'[j].pc = "gates" /\ job'[j].left = job[j].left /\ job'[j].first = found
<1>1. job[j] \in DayJob /\ "gates" \in DayPhases
  BY DEF DayTypes, DayPhases, BuildPhases
<1>2. [job[j] EXCEPT !.pc = "gates", !.first = found] \in DayJob
  BY <1>1 DEF DayJob
<1>3. job' = [job EXCEPT ![j] = [job[j] EXCEPT !.pc = "gates", !.first = found]]
  BY DEF DayTypes
<1> QED BY <1>1, <1>2, <1>3 DEF DayTypes, DayJob

LEMMA AtIs ==
  ASSUME DayTypes, NEW j \in Day!DayJobs, NEW phase \in DayPhases,
         job' = [job EXCEPT ![j] = Day!At(phase)]
  PROVE  /\ job' \in [Day!DayJobs -> DayJob] /\ \A k \in Day!DayJobs \ {j} : job'[k] = job[k]
         /\ job'[j].pc = phase /\ job'[j].left = << >> /\ job'[j].first = "none"
<1>1. Day!At(phase) = [pc |-> phase, seen |-> {}, left |-> << >>, first |-> "none"]
  BY DEF Day!At
<1>2. Day!At(phase) \in DayJob
  BY <1>1 DEF DayJob
<1> QED BY <1>1, <1>2 DEF DayTypes

(* A job that has nothing on its hands, and evidence that says nothing.    *)
LEMMA AtRest ==
  ASSUME DayInv, NEW j \in Day!DayJobs, NEW phase \in {"idle", "reset", "load"}, NEW said \in DaySays,
         job' = [job EXCEPT ![j] = Day!At(phase)], evidence' = [evidence EXCEPT ![j] = said],
         UNCHANGED <<chains, listed, whole>>,
         phase # "idle" => said = "NOT_RUN",
         DayEvidenceInv(j)'
  PROVE  DayInv'
<1>1. phase \in DayPhases /\ phase \notin BuildPhases \cup {"write"}
  BY DEF DayPhases, BuildPhases
<1>2. DayTypes /\ evidence \in [Day!DayJobs \cup {"morning"} -> DaySays]
  BY DEF DayInv, DayTypes
<1>3. /\ job' \in [Day!DayJobs -> DayJob] /\ \A k \in Day!DayJobs \ {j} : job'[k] = job[k]
      /\ job'[j].pc = phase /\ job'[j].left = << >> /\ job'[j].first = "none"
  BY <1>1, <1>2, AtIs
<1>4. /\ evidence' \in [Day!DayJobs \cup {"morning"} -> DaySays] /\ evidence'[j] = said
      /\ \A k \in Day!DayJobs \ {j} : evidence'[k] = evidence[k]
  BY <1>2
<1>5. DayTypes'
  BY <1>2, <1>3, <1>4 DEF DayTypes, Both
<1>6. << >> \in Lefts(j)
  BY DEF Lefts
<1>7. DayJobInv(j)'
  BY <1>1, <1>3, <1>4, <1>6 DEF DayJobInv, BuildPhases
<1> QED BY <1>3, <1>4, <1>5, <1>7, OwnStep

LEMMA DayStart ==
  ASSUME DayInv, NEW j \in Day!DayJobs, NEW reset \in BOOLEAN, Day!Start(j, reset)
  PROVE  DayInv'
<1>1. PICK phase \in {"reset", "load"} : job' = [job EXCEPT ![j] = Day!At(phase)]
  BY DEF Day!Start
<1>2. evidence' = [evidence EXCEPT ![j] = "NOT_RUN"] /\ UNCHANGED <<chains, listed, whole>>
  BY DEF Day!Start
<1>3. evidence'[j] = "NOT_RUN"
  BY <1>2 DEF DayInv, DayTypes
<1>4. DayEvidenceInv(j)'
  BY <1>3 DEF DayEvidenceInv
<1> QED BY <1>1, <1>2, <1>4, AtRest DEF DaySays

LEMMA DayFail ==
  ASSUME DayInv, NEW j \in Day!DayJobs, Day!FailClosed(j), UNCHANGED <<chains, listed, whole>>
  PROVE  DayInv'
<1>1. job' = [job EXCEPT ![j] = Day!At("idle")] /\ evidence' = [evidence EXCEPT ![j] = "FAIL"]
  BY DEF Day!FailClosed
<1>2. evidence'[j] = "FAIL"
  BY <1>1 DEF DayInv, DayTypes
<1>3. DayEvidenceInv(j)'
  BY <1>2 DEF DayEvidenceInv
<1> QED BY <1>1, <1>3, AtRest DEF DaySays

LEMMA DayKill ==
  ASSUME DayInv, NEW j \in Day!DayJobs, Day!Kill(j)
  PROVE  DayInv'
<1>1. /\ job' = [job EXCEPT ![j] = Day!At("idle")] /\ UNCHANGED <<chains, listed, whole, evidence>>
      /\ job[j].pc # "idle"
  BY DEF Day!Kill
<1>2. evidence[j] = "NOT_RUN" /\ evidence' = [evidence EXCEPT ![j] = "NOT_RUN"]
  BY <1>1, JobNow DEF DayJobInv, DayTypes
<1>3. DayEvidenceInv(j)'
  BY <1>1, <1>2 DEF DayEvidenceInv
<1> QED BY <1>1, <1>2, <1>3, AtRest DEF DaySays

LEMMA DayWrite ==
  ASSUME DayInv, NEW j \in Day!DayJobs, NEW what, Day!WriteEvidence(j, what),
         what = (IF j = "fullday" THEN "PASS" ELSE job[j].first)
  PROVE  DayInv'
<1>1. /\ job[j].pc = "write" /\ UNCHANGED <<chains, listed, whole>>
      /\ job' = [job EXCEPT ![j] = Day!At("idle")] /\ evidence' = [evidence EXCEPT ![j] = what]
  BY DEF Day!WriteEvidence
<1>2. job[j].left = << >> /\ \A q \in Day!Root(j) : Indexed(q)
  <2>1. job[j].left = << >>
    BY <1>1, JobNow DEF DayJobInv, BuildPhases
  <2>2. DOMAIN << >> = {}
    OBVIOUS
  <2> QED BY <1>1, <2>1, <2>2, JobNow DEF DayJobInv
<1>3. \A q : Indexed(q)' = Indexed(q) /\ Backed(q)' = Backed(q)
  BY <1>1 DEF Indexed, Backed, Both
<1>4. evidence'[j] = what
  BY <1>1 DEF DayInv, DayTypes
<1>5. j # "fullday" => /\ job[j].first # "none" /\ (job[j].first = "entry" => Backed(<<j, j>>))
                       /\ j = "nextday" => job[j].first = "entry"
  BY <1>1, JobNow DEF DayJobInv
<1>6. j # "fullday" => <<j, j>> \in Day!Root(j)
  BY DEF Day!Root
<1>7. DayEvidenceInv(j)'
  BY <1>2, <1>3, <1>4, <1>5, <1>6 DEF DayEvidenceInv
<1>8. job[j].first \in {"none", "repeat", "entry"}
  BY JobNow DEF DayJob
<1>9. what \in DaySays
  BY <1>5, <1>8 DEF DaySays
<1> QED BY <1>1, <1>7, <1>9, AtRest

(* A job at work has said nothing.                                         *)
LEMMA NothingSaid ==
  ASSUME DayInv, NEW j \in Day!DayJobs, job[j].pc # "idle", UNCHANGED evidence
  PROVE  evidence'[j] = "NOT_RUN" /\ DayEvidenceInv(j)'
<1>1. evidence'[j] = "NOT_RUN"
  BY JobNow DEF DayJobInv
<1> QED BY <1>1 DEF DayEvidenceInv

LEMMA DayReset ==
  ASSUME DayInv, NEW j \in Day!DayJobs, Day!Reset(j)
  PROVE  DayInv'
<1>1. job[j].pc = "reset" /\ UNCHANGED evidence /\ DayTypes /\ "reset" \in DayPhases /\ "load" \in DayPhases
  BY JobNow DEF Day!Reset, DayPhases
<1>2. PICK phase \in {"reset", "load"} :
        /\ job' \in [Day!DayJobs -> DayJob] /\ \A k \in Day!DayJobs \ {j} : job'[k] = job[k]
        /\ job'[j].pc = phase /\ job'[j].left = job[j].left
  <2>1. CASE UNCHANGED job
    BY <1>1, <2>1 DEF DayTypes
  <2>2. CASE Day!Step(j, "load")
    BY <1>1, <2>2, StepIs
  <2> QED BY <2>1, <2>2 DEF Day!Reset
<1>3. /\ DOMAIN chains' = Day!Places /\ DOMAIN listed' = Day!Places /\ whole' \subseteq Day!Places
      /\ \A p \in Day!Places : chains'[p] \in {<< >>, chains[p]}
      /\ \A p \in Day!Places \ Day!Root(j) :
           chains'[p] = chains[p] /\ listed'[p] = listed[p] /\ (p \in whole <=> p \in whole')
  <2>1. CASE UNCHANGED <<chains, listed, whole>>
    BY <1>1, <2>1 DEF DayTypes
  <2>2. ASSUME NEW p \in Day!Root(j), chains' = [chains EXCEPT ![p] = << >>], UNCHANGED <<listed, whole>>
        PROVE  <1>3!:
    BY <1>1, <2>2, PlaceOfOne DEF DayTypes
  <2>3. ASSUME NEW p \in Day!Root(j), listed' = [listed EXCEPT ![p] = {}], UNCHANGED <<chains, whole>>
        PROVE  <1>3!:
    BY <1>1, <2>3, PlaceOfOne DEF DayTypes
  <2>4. ASSUME NEW p \in Day!Root(j), whole' = whole \ {p}, UNCHANGED <<chains, listed>>
        PROVE  <1>3!:
    BY <1>1, <2>4, PlaceOfOne DEF DayTypes
  <2> QED BY <2>1, <2>2, <2>3, <2>4 DEF Day!Reset
<1>4. DayTypes'
  BY <1>1, <1>2, <1>3 DEF DayTypes, Both
<1>5. DayJobInv(j)'
  <2>1. job[j].left = << >> /\ << >> \in Lefts(j)
    BY <1>1, JobNow DEF DayJobInv, BuildPhases
  <2> QED BY <1>1, <1>2, <2>1, NothingSaid DEF DayJobInv, BuildPhases
<1>6. \A k \in Day!DayJobs \ {j} : job'[k] = job[k] /\ evidence'[k] = evidence[k]
  BY <1>1, <1>2
<1> QED BY <1>1, <1>3, <1>4, <1>5, <1>6, NothingSaid, OwnStep

LEMMA DayLoad ==
  ASSUME DayInv, NEW j \in Day!DayJobs, Day!Load(j, Builds(j))
  PROVE  DayInv'
<1> DEFINE loaded == [pc |-> "build", left |-> Builds(j), first |-> "none",
                      seen |-> {s \in DOMAIN evidence : evidence[s] = "entry"}]
<1>1. /\ job[j].pc = "load" /\ UNCHANGED <<chains, listed, whole, evidence>>
      /\ job' = [job EXCEPT ![j] = loaded] /\ DayTypes
  BY JobNow DEF Day!Load
<1>2. Builds(j) \in Lefts(j) /\ Builds(j) \in Seq(Day!Places) /\ Builds(j) # << >>
  BY BuildsAre DEF Lefts
<1>3. DOMAIN evidence = Day!DayJobs \cup {"morning"}
  BY <1>1 DEF DayTypes
<1>4. loaded \in DayJob
  BY <1>2, <1>3 DEF DayJob, DayPhases, BuildPhases
<1>5. /\ job' \in [Day!DayJobs -> DayJob] /\ \A k \in Day!DayJobs \ {j} : job'[k] = job[k]
      /\ job'[j].pc = "build" /\ job'[j].left = Builds(j)
  BY <1>1, <1>4 DEF DayTypes
<1>6. DayTypes'
  BY <1>1, <1>5 DEF DayTypes, Both
<1>7. DayJobInv(j)'
  BY <1>1, <1>2, <1>5, BuildsAre, NothingSaid DEF DayJobInv, BuildPhases
<1>8. \A k \in Day!DayJobs \ {j} : job'[k] = job[k] /\ evidence'[k] = evidence[k]
  BY <1>1, <1>5
<1> QED BY <1>1, <1>6, <1>7, <1>8, NothingSaid, OwnStep

(* A step within a build touches the place that is built.                  *)
LEMMA AtBuild ==
  ASSUME DayInv, NEW j \in Day!DayJobs, NEW phase \in BuildPhases, NEW p, p = Head(job[j].left),
         job[j].pc \in BuildPhases, UNCHANGED evidence,
         job' \in [Day!DayJobs -> DayJob], \A k \in Day!DayJobs \ {j} : job'[k] = job[k],
         job'[j].pc = phase, job'[j].left = job[j].left,
         DOMAIN chains' = Day!Places, DOMAIN listed' = Day!Places, whole' \subseteq Day!Places,
         \A q \in Day!Places \ {p} :
           chains'[q] = chains[q] /\ listed'[q] = listed[q] /\ (q \in whole <=> q \in whole'),
         chains'[p] \in {<< >>, <<Before(p[2])>>, Both(p)},
         phase = "index" => chains'[p] = Both(p),
         phase = "body" => chains'[p] = Both(p) /\ Indexed(p)',
         phase = "gates" => Indexed(p)' /\ job'[j].first # "none" /\ (job'[j].first = "entry" => Backed(p)')
  PROVE  DayInv'
<1>1. /\ job[j].left # << >> /\ job[j].left \in Lefts(j) /\ DayTypes /\ DayJobInv(j)
      /\ p \in Day!Root(j) /\ p \in Day!Places
  <2>1. job[j].left # << >>
    BY JobNow DEF DayJobInv
  <2> QED BY <2>1, JobNow
<1>2. 1 \in DOMAIN job[j].left /\ job[j].left[1] = p
  BY <1>1, JobNow
<1>3. DayTypes'
  BY <1>1 DEF DayTypes, Both
<1>4. \A q \in Day!Root(j) : (\A i \in DOMAIN job[j].left : job[j].left[i] # q) => Indexed(q)'
  <2>1. TAKE q \in Day!Root(j)
  <2>2. SUFFICES ASSUME \A i \in DOMAIN job[j].left : job[j].left[i] # q PROVE Indexed(q)'
    OBVIOUS
  <2>3. q # p /\ q \in Day!Places /\ Indexed(q)
    BY <1>1, <1>2, <2>2, PlaceOfOne DEF DayJobInv
  <2> QED BY <2>3 DEF Indexed
<1>5. evidence'[j] = "NOT_RUN" /\ DayEvidenceInv(j)'
  BY NothingSaid DEF BuildPhases
<1>6. DayJobInv(j)'
  <2>1. Both(p)' = Both(p)
    BY DEF Both
  <2> QED BY <1>1, <1>4, <1>5, <2>1 DEF DayJobInv, BuildPhases
<1>7. \A q \in Day!Places \ Day!Root(j) :
           chains'[q] = chains[q] /\ listed'[q] = listed[q] /\ (q \in whole <=> q \in whole')
  BY <1>1
<1> QED BY <1>3, <1>5, <1>6, <1>7, OwnStep

(* A decision of the day: its state follows the one before it.             *)
Decisions == {Day!OpeningDecision, Day!MiddayDecision, Day!EveningDecision, Day!NextDayDecision}

LEMMA DecisionsAre ==
  ASSUME NEW d \in Decisions PROVE d.previous = Before(d.id)
  BY DEF Decisions, Day!OpeningDecision, Day!MiddayDecision, Day!EveningDecision, Day!NextDayDecision, Before

LEMMA DayInitialize ==
  ASSUME DayInv, NEW j \in Day!DayJobs, NEW d \in Decisions, Day!InitializeChain(j, d)
  PROVE  DayInv'
<1>1. PICK p : p = Head(job[j].left)
  OBVIOUS
<1>2. UNCHANGED <<whole, evidence>> /\ DayTypes /\ BuildPhases \subseteq DayPhases
  BY JobNow DEF Day!InitializeChain, DayPhases
<1>3. job[j].pc \in BuildPhases /\ p[2] = d.id
  BY <1>1 DEF Day!InitializeChain, Day!Building, BuildPhases
<1>4. p \in Day!Places /\ Both(p) = <<d.previous, d.id>> /\ d.previous = Before(p[2])
  <2>1. job[j].left # << >>
    BY <1>3, JobNow DEF DayJobInv
  <2> QED BY <1>1, <1>3, <2>1, JobNow, DecisionsAre DEF Both
<1>5. CASE /\ chains' = [chains EXCEPT ![p] = <<d.previous>>] /\ Day!Step(j, "openindex") /\ UNCHANGED listed
  <2>1. "openindex" \in BuildPhases
    BY DEF BuildPhases
  <2>2. chains'[p] = <<Before(p[2])>> /\ \A q \in Day!Places \ {p} : chains'[q] = chains[q]
    BY <1>2, <1>4, <1>5 DEF DayTypes
  <2>3. DOMAIN chains' = Day!Places /\ DOMAIN listed' = Day!Places
    BY <1>2, <1>5 DEF DayTypes
  <2> QED BY <1>1, <1>2, <1>3, <1>5, <2>1, <2>2, <2>3, StepIs, AtBuild DEF DayTypes
<1>6. CASE Day!Step(j, "persist") /\ UNCHANGED <<chains, listed>>
  <2>1. "persist" \in BuildPhases
    BY DEF BuildPhases
  <2>2. chains'[p] \in {<< >>, <<Before(p[2])>>, Both(p)}
    BY <1>2, <1>4, <1>6 DEF DayTypes
  <2> QED BY <1>1, <1>2, <1>3, <1>6, <2>1, <2>2, StepIs, AtBuild DEF DayTypes
<1>7. CASE listed' = [listed EXCEPT ![p] = {d.previous}] /\ Day!Step(j, "persist") /\ UNCHANGED chains
  <2>1. "persist" \in BuildPhases
    BY DEF BuildPhases
  <2>2. chains'[p] \in {<< >>, <<Before(p[2])>>, Both(p)}
    BY <1>2, <1>4, <1>7 DEF DayTypes
  <2>3. \A q \in Day!Places \ {p} : listed'[q] = listed[q]
    BY <1>2, <1>7 DEF DayTypes
  <2>4. DOMAIN chains' = Day!Places /\ DOMAIN listed' = Day!Places
    BY <1>2, <1>7 DEF DayTypes
  <2> QED BY <1>1, <1>2, <1>3, <1>7, <2>1, <2>2, <2>3, <2>4, StepIs, AtBuild DEF DayTypes
<1> QED BY <1>1, <1>5, <1>6, <1>7 DEF Day!InitializeChain

LEMMA DayPersist ==
  ASSUME DayInv, NEW j \in Day!DayJobs, NEW d \in Decisions, Day!PersistOnce(j, d)
  PROVE  DayInv'
<1>1. PICK p : p = Head(job[j].left)
  OBVIOUS
<1>2. DayTypes /\ BuildPhases \subseteq DayPhases /\ {"index", "body", "gates"} \subseteq BuildPhases
  BY JobNow DEF DayPhases, BuildPhases
<1>3. job[j].pc \in BuildPhases /\ p[2] = d.id
  BY <1>1 DEF Day!PersistOnce, Day!Building, BuildPhases
<1>4. p \in Day!Places /\ Both(p) = <<d.previous, d.id>> /\ d.previous = Before(p[2]) /\ DayJobInv(j)
  <2>1. job[j].left # << >>
    BY <1>3, JobNow DEF DayJobInv
  <2> QED BY <1>1, <1>3, <2>1, JobNow, DecisionsAre DEF Both
<1>5. chains[p] \in {<< >>, <<d.previous>>, Both(p)}
  BY <1>2, <1>4 DEF DayTypes
<1>6. ASSUME d.id \in listed[p], job' = [job EXCEPT ![j].pc = "gates", ![j].first = "repeat"],
             UNCHANGED <<chains, listed, whole, evidence>>
      PROVE  DayInv'
  <2>1. /\ job' \in [Day!DayJobs -> DayJob] /\ \A k \in Day!DayJobs \ {j} : job'[k] = job[k]
        /\ job'[j].pc = "gates" /\ job'[j].left = job[j].left /\ job'[j].first = "repeat"
    BY <1>2, <1>6, GatesIs
  <2>2. Indexed(p)'
    BY <1>3, <1>6 DEF Indexed
  <2> QED BY <1>1, <1>2, <1>3, <1>4, <1>5, <1>6, <2>1, <2>2, AtBuild DEF DayTypes
<1>7. ASSUME Day!Appendable(p, d), chains' = [chains EXCEPT ![p] = Append(@, d.id)], Day!Step(j, "index"),
             UNCHANGED <<listed, whole, evidence>>
      PROVE  DayInv'
  <2>1. chains[p] = <<d.previous>>
    <3>1. Len(<<d.previous, d.id>>) = 2 /\ <<d.previous, d.id>>[2] = d.id
      OBVIOUS
    <3>2. d.previous # d.id
      BY DEF Decisions, Day!OpeningDecision, Day!MiddayDecision, Day!EveningDecision, Day!NextDayDecision
    <3> QED BY <1>4, <1>5, <1>7, <3>1, <3>2 DEF Day!Appendable, Day!Last
  <2>2. chains'[p] = Both(p) /\ \A q \in Day!Places \ {p} : chains'[q] = chains[q]
    <3>1. PICK a, b : a = d.previous /\ b = d.id
      OBVIOUS
    <3>2. <<a>> \in Seq({a, b}) /\ b \in {a, b}
      OBVIOUS
    <3>3. Append(<<a>>, b) = <<a, b>>
      <4>1. PICK s, t : s = Append(<<a>>, b) /\ t = <<a, b>>
        OBVIOUS
      <4>2. s \in Seq({a, b}) /\ Len(s) = 2 /\ s[1] = a /\ s[2] = b
        BY <3>2, <4>1
      <4>3. t \in Seq({a, b}) /\ Len(t) = 2 /\ t[1] = a /\ t[2] = b
        BY <4>1
      <4>4. \A i \in 1 .. 2 : s[i] = t[i]
        BY <4>2, <4>3
      <4>5. s = t
        BY <4>2, <4>3, <4>4, SeqEqual
      <4> QED BY <4>1, <4>5
    <3> QED BY <1>2, <1>4, <1>7, <2>1, <3>1, <3>3 DEF DayTypes
  <2>3. DOMAIN chains' = Day!Places /\ DOMAIN listed' = Day!Places
    BY <1>2, <1>7 DEF DayTypes
  <2>4. UNCHANGED <<listed, whole, evidence>> /\ Day!Step(j, "index")
    BY <1>7
  <2> QED BY <1>1, <1>2, <1>3, <2>2, <2>3, <2>4, StepIs, AtBuild DEF DayTypes
<1>8. ASSUME job[j].pc = "index", listed' = [listed EXCEPT ![p] = @ \cup {d.id}], Day!Step(j, "body"),
             UNCHANGED <<chains, whole, evidence>>
      PROVE  DayInv'
  <2>1. chains'[p] = Both(p)
    BY <1>1, <1>4, <1>8 DEF DayJobInv
  <2>2. Indexed(p)' /\ \A q \in Day!Places \ {p} : listed'[q] = listed[q]
    BY <1>2, <1>3, <1>4, <1>8 DEF DayTypes, Indexed
  <2>3. DOMAIN chains' = Day!Places /\ DOMAIN listed' = Day!Places
    BY <1>2, <1>8 DEF DayTypes
  <2> QED BY <1>1, <1>2, <1>3, <1>8, <2>1, <2>2, <2>3, StepIs, AtBuild DEF DayTypes
<1>9. ASSUME job[j].pc = "body", whole' = whole \cup {p},
             job' = [job EXCEPT ![j].pc = "gates", ![j].first = "entry"],
             UNCHANGED <<chains, listed, evidence>>
      PROVE  DayInv'
  <2>1. /\ job' \in [Day!DayJobs -> DayJob] /\ \A k \in Day!DayJobs \ {j} : job'[k] = job[k]
        /\ job'[j].pc = "gates" /\ job'[j].left = job[j].left /\ job'[j].first = "entry"
    BY <1>2, <1>9, GatesIs
  <2>2. chains[p] = Both(p) /\ Indexed(p)
    BY <1>1, <1>4, <1>9 DEF DayJobInv
  <2>3. Indexed(p)' /\ Backed(p)'
    BY <1>9, <2>2 DEF Backed, Indexed, Both
  <2>4. chains'[p] = Both(p) /\ whole' \subseteq Day!Places
    BY <1>2, <1>4, <1>9, <2>2 DEF DayTypes
  <2> QED BY <1>1, <1>2, <1>3, <1>9, <2>1, <2>3, <2>4, AtBuild DEF DayTypes
<1>10. CASE Day!FailClosed(j) /\ UNCHANGED <<chains, listed, whole>>
  BY <1>10, DayFail
<1> QED BY <1>1, <1>6, <1>7, <1>8, <1>9, <1>10 DEF Day!PersistOnce, Day!Building

LEMMA DayGates ==
  ASSUME DayInv, NEW j \in Day!DayJobs, NEW d \in Decisions, NEW last, Day!Gates(j, d, last),
         j = "nextday" => (last => job[j].first = "entry")
  PROVE  DayInv'
<1>1. PICK p : p = Head(job[j].left)
  OBVIOUS
<1>2. /\ DayTypes /\ DayJobInv(j) /\ job[j].pc = "gates" /\ UNCHANGED <<chains, listed, whole>>
      /\ "gates" \in BuildPhases /\ "build" \in BuildPhases /\ job[j] \in DayJob
  BY JobNow DEF Day!Gates, Day!Building, BuildPhases
<1>3. /\ job[j].left # << >> /\ p \in Day!Root(j) /\ Tail(job[j].left) \in Lefts(j)
      /\ job[j].left \in Seq(Day!Places) /\ Tail(job[j].left) \in Seq(Day!Places)
  <2>1. job[j].left # << >> /\ job[j].left \in Lefts(j)
    BY <1>2 DEF DayJobInv
  <2> QED BY <1>1, <2>1, BuildsAre
<1>4. CASE Day!FailClosed(j)
  BY <1>2, <1>4, DayFail
<1>5. ASSUME last, UNCHANGED evidence,
             job' = [job EXCEPT ![j].pc = IF Len(job[j].left) = 1 THEN "write" ELSE "build", ![j].left = Tail(@)]
      PROVE  DayInv'
  <2>1. PICK phase \in {"write", "build"} : phase = IF Len(job[j].left) = 1 THEN "write" ELSE "build"
    OBVIOUS
  <2>2. phase = "write" <=> Tail(job[j].left) = << >>
    <3>1. PICK left \in Seq(Day!Places) : left = job[j].left /\ left # << >>
      BY <1>3
    <3>2. Tail(left) \in Seq(Day!Places) /\ Len(Tail(left)) = Len(left) - 1 /\ Len(left) \in Nat
      BY <3>1
    <3>3. Len(Tail(left)) = 0 <=> Tail(left) = << >>
      BY <3>2, EmptySeq
    <3>4. Len(job[j].left) = 1 <=> Tail(job[j].left) = << >>
      BY <3>1, <3>2, <3>3
    <3> QED BY <2>1, <3>4
  <2>3. [job[j] EXCEPT !.pc = phase, !.left = Tail(@)] \in DayJob
    BY <1>2, <1>3, <2>1 DEF DayJob, DayPhases, BuildPhases
  <2>4. job' = [job EXCEPT ![j] = [job[j] EXCEPT !.pc = phase, !.left = Tail(@)]]
    BY <1>2, <1>5, <2>1 DEF DayTypes
  <2>5. /\ job' \in [Day!DayJobs -> DayJob] /\ \A k \in Day!DayJobs \ {j} : job'[k] = job[k]
        /\ job'[j].pc = phase /\ job'[j].left = Tail(job[j].left) /\ job'[j].first = job[j].first
    BY <1>2, <2>3, <2>4 DEF DayTypes, DayJob
  <2>6. Indexed(p) /\ job[j].first # "none" /\ (job[j].first = "entry" => Backed(p))
    BY <1>1, <1>2 DEF DayJobInv
  <2>7. \A q : Indexed(q)' = Indexed(q) /\ Backed(q)' = Backed(q)
    BY <1>2 DEF Indexed, Backed, Both
  <2>8. \A q \in Day!Root(j) : (\A i \in DOMAIN Tail(job[j].left) : Tail(job[j].left)[i] # q) => Indexed(q)
    <3>1. TAKE q \in Day!Root(j)
    <3>2. SUFFICES ASSUME \A i \in DOMAIN Tail(job[j].left) : Tail(job[j].left)[i] # q PROVE Indexed(q)
      OBVIOUS
    <3>3. CASE q = p
      BY <2>6, <3>3
    <3>4. CASE q # p
      <4>1. \A i \in DOMAIN job[j].left : job[j].left[i] # q
        BY <1>1, <1>3, <3>2, <3>4, AfterHead
      <4> QED BY <1>2, <4>1 DEF DayJobInv
    <3> QED BY <3>3, <3>4
  <2>9. j # "fullday" => p = <<j, j>>
    BY <1>3, PlaceOfOne
  <2>10. DayTypes'
    BY <1>2, <1>5, <2>5 DEF DayTypes, Both
  <2>11. evidence'[j] = "NOT_RUN" /\ DayEvidenceInv(j)'
    BY <1>2, <1>5, NothingSaid
  <2>12. DayJobInv(j)'
    BY <1>3, <1>5, <2>1, <2>2, <2>5, <2>6, <2>7, <2>8, <2>9, <2>11 DEF DayJobInv, BuildPhases
  <2>13. \A k \in Day!DayJobs \ {j} : job'[k] = job[k] /\ evidence'[k] = evidence[k]
    BY <1>5, <2>5
  <2> QED BY <1>2, <2>10, <2>11, <2>12, <2>13, OwnStep
<1> QED BY <1>4, <1>5 DEF Day!Gates

LEMMA DayAdmit ==
  ASSUME DayInv, NEW j \in Day!DayJobs, NEW d \in Decisions, NEW admitted, Day!Admit(j, d, admitted)
  PROVE  DayInv'
<1>1. UNCHANGED <<chains, listed, whole>> /\ job[j].pc = "build" /\ DayTypes /\ DayJobInv(j)
  BY JobNow DEF Day!Admit, Day!Building
<1>2. CASE Day!FailClosed(j)
  BY <1>1, <1>2, DayFail
<1>3. CASE Day!Step(j, "open") /\ UNCHANGED evidence
  <2>1. "open" \in BuildPhases /\ "build" \in BuildPhases /\ "open" \in DayPhases
    BY DEF BuildPhases, DayPhases
  <2>2. PICK p : p = Head(job[j].left)
    OBVIOUS
  <2>3. p \in Day!Places
    BY <1>1, <2>1, <2>2, JobNow DEF DayJobInv
  <2>4. chains'[p] \in {<< >>, <<Before(p[2])>>, Both(p)}
    BY <1>1, <2>3 DEF DayTypes
  <2> QED BY <1>1, <1>3, <2>1, <2>2, <2>4, StepIs, AtBuild DEF DayTypes
<1> QED BY <1>2, <1>3 DEF Day!Admit

LEMMA DayKeep ==
  ASSUME DayInv, NEW j \in Day!DayJobs, NEW d \in Decisions, Day!Keep(j, d)
  PROVE  DayInv'
  BY DayInitialize, DayPersist DEF Day!Keep

(* Each build is of one decision; the last gate of the next day looks at   *)
(* what the persist found.                                                 *)
LEMMA DayBuild ==
  ASSUME DayInv, NEW j \in Day!DayJobs,
         \/ j # "nextday" /\ (Day!BuildOpening(j) \/ Day!BuildMidday(j) \/ Day!BuildEvening(j))
         \/ Day!BuildNextDay(j)
  PROVE  DayInv'
<1>1. {Day!OpeningDecision, Day!MiddayDecision, Day!EveningDecision, Day!NextDayDecision} \subseteq Decisions
  BY DEF Decisions
<1>2. CASE j # "nextday" /\ Day!BuildOpening(j)
  <2>1. ASSUME NEW admitted, Day!Admit(j, Day!OpeningDecision, admitted) PROVE DayInv'
    BY <1>1, <2>1, DayAdmit
  <2>2. CASE Day!KeepOpening(j)
    BY <1>1, <2>2, DayKeep DEF Day!KeepOpening
  <2>3. CASE Day!OpeningGates(j)
    BY <1>1, <1>2, <2>3, DayGates DEF Day!OpeningGates
  <2> QED BY <1>2, <2>1, <2>2, <2>3 DEF Day!BuildOpening
<1>3. CASE j # "nextday" /\ Day!BuildMidday(j)
  <2>1. ASSUME NEW admitted, Day!Admit(j, Day!MiddayDecision, admitted) PROVE DayInv'
    BY <1>1, <2>1, DayAdmit
  <2>2. CASE Day!KeepMidday(j)
    BY <1>1, <2>2, DayKeep DEF Day!KeepMidday
  <2>3. CASE Day!MiddayGates(j)
    BY <1>1, <1>3, <2>3, DayGates DEF Day!MiddayGates
  <2> QED BY <1>3, <2>1, <2>2, <2>3 DEF Day!BuildMidday
<1>4. CASE j # "nextday" /\ Day!BuildEvening(j)
  <2>1. ASSUME NEW admitted, Day!Admit(j, Day!EveningDecision, admitted) PROVE DayInv'
    BY <1>1, <2>1, DayAdmit
  <2>2. CASE Day!KeepEvening(j)
    BY <1>1, <2>2, DayKeep DEF Day!KeepEvening
  <2>3. CASE Day!EveningGates(j)
    BY <1>1, <1>4, <2>3, DayGates DEF Day!EveningGates
  <2> QED BY <1>4, <2>1, <2>2, <2>3 DEF Day!BuildEvening
<1>5. CASE Day!BuildNextDay(j)
  <2>1. ASSUME NEW admitted, Day!Admit(j, Day!NextDayDecision, admitted) PROVE DayInv'
    BY <1>1, <2>1, DayAdmit
  <2>2. CASE Day!KeepNextDay(j)
    BY <1>1, <2>2, DayKeep DEF Day!KeepNextDay
  <2>3. CASE Day!NextDayGates(j)
    BY <1>1, <1>5, <2>3, DayGates DEF Day!NextDayGates
  <2> QED BY <1>5, <2>1, <2>2, <2>3 DEF Day!BuildNextDay
<1> QED BY <1>2, <1>3, <1>4, <1>5

LEMMA DayRun ==
  ASSUME DayInv, NEW j \in Day!DayJobs, NEW what, what = (IF j = "fullday" THEN "PASS" ELSE job[j].first),
         Day!Run(j, Builds(j), what)
  PROVE  DayInv'
  BY DayStart, DayReset, DayLoad, DayWrite DEF Day!Run

LEMMA DayNext == DayInv /\ [Day!Next]_day => DayInv'
<1> SUFFICES ASSUME DayInv, [Day!Next]_day PROVE DayInv'
  OBVIOUS
<1>1. /\ {"opening", "midday", "evening", "nextday", "fullday"} = Day!DayJobs
      /\ \A j \in {"opening", "midday", "evening", "nextday"} : Builds(j) = << <<j, j>> >>
      /\ Builds("fullday") = Day!Replays
  BY DEF Day!DayJobs, Day!Stages, Builds
<1>2. CASE Day!OpeningRun
  BY <1>1, <1>2, DayRun, DayBuild DEF Day!OpeningRun
<1>3. CASE Day!MiddayRun
  BY <1>1, <1>3, DayRun, DayBuild DEF Day!MiddayRun
<1>4. CASE Day!EveningRun
  BY <1>1, <1>4, DayRun, DayBuild DEF Day!EveningRun
<1>5. CASE Day!NextDayRun
  BY <1>1, <1>5, DayRun, DayBuild DEF Day!NextDayRun
<1>6. CASE Day!FullDayRun
  <2>1. CASE Day!BuildFullDay("fullday")
    BY <1>1, <2>1, DayBuild, DayFail DEF Day!BuildFullDay
  <2>2. CASE Day!Run("fullday", Day!Replays, "PASS")
    <3>1. Day!Run("fullday", Builds("fullday"), "PASS") /\ "fullday" \in Day!DayJobs
      BY <1>1, <2>2
    <3> QED BY <3>1, DayRun
  <2> QED BY <1>6, <2>1, <2>2 DEF Day!FullDayRun
<1>7. ASSUME NEW j \in Day!DayJobs, Day!Raise(j) \/ Day!Kill(j) PROVE DayInv'
  BY <1>7, DayFail, DayKill DEF Day!Raise
<1>8. CASE UNCHANGED day
  <2>1. UNCHANGED <<chains, listed, whole, evidence, job>>
    BY <1>8 DEF day
  <2>2. DayTypes'
    BY <2>1 DEF DayInv, DayTypes, Both
  <2>3. "opening" \in Day!DayJobs /\ DayJobInv("opening") /\ DayEvidenceInv("opening")
    BY <1>1 DEF DayInv
  <2>4. \A p : Indexed(p)' = Indexed(p) /\ Backed(p)' = Backed(p) /\ Both(p)' = Both(p)
    BY <2>1 DEF Indexed, Backed, Both
  <2>5. DayEvidenceInv("opening")'
    BY <2>1, <2>3, <2>4 DEF DayEvidenceInv
  <2>6. DayJobInv("opening")'
    BY <2>1, <2>3, <2>4 DEF DayJobInv
  <2> QED BY <2>1, <2>2, <2>3, <2>5, <2>6, OwnStep
<1> QED BY <1>2, <1>3, <1>4, <1>5, <1>6, <1>7, <1>8 DEF Day!Next

LEMMA DayInit == Day!Init => DayInv
<1> SUFFICES ASSUME Day!Init PROVE DayInv
  OBVIOUS
<1>1. PICK morning \in {"repeat", "entry"} :
        evidence = [j \in Day!DayJobs \cup {"morning"} |-> IF j = "morning" THEN morning ELSE "absent"]
  BY DEF Day!Init
<1>2. \A j \in Day!DayJobs : job[j] = [pc |-> "idle", seen |-> {}, left |-> << >>, first |-> "none"]
  BY DEF Day!Init, Day!At
<1>3. job \in [Day!DayJobs -> DayJob]
  <2>1. [pc |-> "idle", seen |-> {}, left |-> << >>, first |-> "none"] \in DayJob
    BY DEF DayJob, DayPhases
  <2> QED BY <1>2, <2>1 DEF Day!Init
<1>4. DayTypes
  BY <1>1, <1>3 DEF Day!Init, DayTypes, DaySays
<1>5. ASSUME NEW j \in Day!DayJobs PROVE DayJobInv(j) /\ DayEvidenceInv(j)
  <2>1. << >> \in Lefts(j)
    BY DEF Lefts
  <2>2. evidence[j] = "absent"
    BY <1>1 DEF Day!DayJobs, Day!Stages
  <2> QED BY <1>2, <2>1, <2>2 DEF DayJobInv, DayEvidenceInv, BuildPhases
<1> QED BY <1>4, <1>5 DEF DayInv

(* The inductive invariant of the jobs of a day.                           *)
THEOREM DayInvariant == Day!Spec => []DayInv
<1>1. Day!Init => DayInv
  BY DayInit
<1>2. DayInv /\ [Day!Next]_Day!vars => DayInv'
  BY DayNext DEF Day!vars, day
<1> QED BY <1>1, <1>2, PTL DEF Day!Spec

LEMMA DayBehaviour == EitherSpec => Day!Spec
<1>1. EitherInit => Day!Init
  BY DEF EitherInit
<1>2. [EitherNext]_<< part, vars, bootstraps, routeB, day, market >> => [Day!Next]_Day!vars
  BY DEF EitherNext, day, Day!vars
<1> QED BY <1>1, <1>2, PTL DEF EitherSpec, Day!Spec

(* The evidence that the jobs of a day leave is backed by their chains.    *)
THEOREM EvidenceIsBacked == EitherSpec => []EvidenceBacked
<1>1. DayInv => EvidenceBacked
  <2> SUFFICES ASSUME DayInv PROVE Day!EvidenceBacked
    BY DEF EvidenceBacked
  <2>1. ASSUME NEW d \in Decisions
        PROVE  /\ d.id \in Day!DayJobs /\ d.id # "fullday" /\ d.previous = Before(d.id)
               /\ <<d.id, d.id>>[2] = d.id
    BY DecisionsAre DEF Decisions, Day!OpeningDecision, Day!MiddayDecision, Day!EveningDecision,
                        Day!NextDayDecision, Day!DayJobs, Day!Stages
  <2>2. ASSUME NEW d \in Decisions
        PROVE  LET p == <<d.id, d.id>> IN
               /\ evidence[d.id] = "entry" => chains[p] = <<d.previous, d.id>> /\ p \in whole
               /\ evidence[d.id] \in {"repeat", "entry"} => d.id \in listed[p]
    BY <2>1, JobNow DEF DayEvidenceInv, Backed, Indexed, Both
  <2>3. evidence["fullday"] = "PASS" => \A p \in Day!Root("fullday") : p[2] \in listed[p]
    BY JobNow DEF DayEvidenceInv, Indexed, Day!DayJobs
  <2>4. evidence["nextday"] \in {"repeat", "entry"} => Day!SoakPredecessor
    BY JobNow DEF DayEvidenceInv, Day!SoakPredecessor, Day!DayJobs, Day!Stages
  <2> QED BY <2>2, <2>3, <2>4 DEF Day!EvidenceBacked, Decisions
<1> QED BY <1>1, DayInvariant, DayBehaviour, PTL

-----------------------------------------------------------------------------
(* The history bootstrap of the full market.                               *)

(* A checkpoint's file is named by plan and symbol and names a material of *)
(* the symbol, acquired with the owner files the plan binds.               *)
Named(f) ==
  /\ f[2] = << f[2][1], f[2][2] >> /\ f[3].symbol = f[2][2] /\ f[3].owners = f[2][1].owners

WellNamed(fs) == \A f \in fs : f[1] = "progress" => Named(f)

(* The files of a commit.                                                  *)
CommitOk(fs) ==
  /\ Market!Immutable(fs) /\ WellNamed(fs)
  /\ \A f \in fs : f[1] = "progress" => Market!LoadCheckpoint(fs, f[2][1], f[2][2])
  /\ \A f \in fs : f[1] = "snapshot" =>
       /\ Market!Reloads(fs, f[2], f[2].owners)
       /\ \A s \in Market!PlanSymbols : f[3][s].owners = f[2].owners
  /\ \A f \in fs : f[1] = "report" => f[3] = f[2]

(* What a shard of run r has written, half written files among them.       *)
ShardFiles(r, out) ==
  \A f \in out :
    /\ f[1] \in {"raw", "material", "progress"}
    /\ f[1] = "progress" =>
         /\ f[2] = << r.plan, f[2][2] >>
         /\ f[3] # None => f[3].symbol = f[2][2] /\ f[3].owners = r.plan.owners

IsShardJob(j) == j = [at |-> j.at, pending |-> j.pending, out |-> j.out]

MarketTypes ==
  /\ Len(branch) \in Nat /\ branch \in Seq({branch[i] : i \in 1 .. Len(branch)})
  /\ shard \in [Shards -> {shard[h] : h \in Shards}]
  /\ \A h \in Shards : IsShardJob(shard[h])
  /\ publish = [at |-> publish.at, base |-> publish.base, files |-> publish.files, passes |-> publish.passes]
  /\ publish.base \in Nat

BranchOk ==
  /\ \A i \in 1 .. Len(branch) : CommitOk(branch[i])
  /\ \A i \in 1 .. Len(branch) : i > 1 => branch[i - 1] \subseteq branch[i]

RunInv ==
  /\ run = None => publish.at = "waits" /\ \A h \in Shards : shard[h].out = {}
  /\ run # None => run.plan.owners = run.owners /\ \A h \in Shards : ShardFiles(run, shard[h].out)

(* What is staged extends the commit it was made on; what is pushed is     *)
(* there; and what passes reloads.                                         *)
PublishOk(j) ==
  /\ j.at \in {"waits", "staged", "pushed", "unchanged"}
  /\ j.at = "staged" =>
       /\ j.base <= Len(branch) /\ (j.base # 0 => branch[j.base] \subseteq j.files)
       /\ CommitOk(j.files) /\ j.files # {}
  /\ j.at \in {"pushed", "unchanged"} => j.base \in 1 .. Len(branch) /\ branch[j.base] = j.files
  /\ j.at # "waits" /\ j.passes => Market!Reloads(j.files, run.plan, run.plan.owners)

AcceptedOk ==
  \A a \in accepted : a.commit \in 1 .. Len(branch) /\ Market!Reloads(branch[a.commit], a.plan, a.plan.owners)

MarketInv == MarketTypes /\ BranchOk /\ RunInv /\ PublishOk(publish) /\ AcceptedOk

(* A checkpoint that loads goes on loading.                                *)
LEMMA LoadStays ==
  ASSUME NEW old, NEW new, old \subseteq new, NEW p, NEW s, Market!LoadCheckpoint(old, p, s)
  PROVE  Market!LoadCheckpoint(new, p, s)
<1>1. PICK f \in Market!ProgressIn(old, p) :
        /\ f[2][2] = s /\ << "material", f[3], f[3] >> \in old /\ Market!ValidSymbol(old, p, s, f[3])
  BY DEF Market!LoadCheckpoint
<1>2. f \in Market!ProgressIn(new, p)
  BY DEF Market!ProgressIn
<1>3. Market!ValidSymbol(new, p, s, f[3])
  BY <1>1 DEF Market!ValidSymbol, Market!AnswersKept
<1> QED BY <1>1, <1>2, <1>3 DEF Market!LoadCheckpoint

(* A snapshot describes the one material of each symbol's checkpoint.      *)
LEMMA CoreOfSymbol ==
  ASSUME NEW fs, Market!Immutable(fs), WellNamed(fs),
         NEW p, NEW s \in Market!PlanSymbols, NEW f \in Market!ProgressIn(fs, p), f[2][2] = s
  PROVE  Market!Core(fs, p)[s] = f[3] /\ f[3].owners = p.owners
<1> DEFINE named == {g[3] : g \in Market!ProgressIn(fs, p)}
<1>1. f \in fs /\ f[1] = "progress" /\ f[2] = << p, s >> /\ f[3].symbol = s /\ f[3].owners = p.owners
  BY DEF Market!ProgressIn, WellNamed, Named
<1>2. ASSUME NEW m \in named, m.symbol = s PROVE m = f[3]
  <2>1. PICK g \in Market!ProgressIn(fs, p) : m = g[3]
    BY <1>2
  <2>2. g \in fs /\ g[1] = "progress" /\ g[2] = << p, s >>
    BY <1>2, <2>1 DEF Market!ProgressIn, WellNamed, Named
  <2> QED BY <1>1, <2>1, <2>2 DEF Market!Immutable
<1>3. f[3] \in named
  OBVIOUS
<1>4. Market!Core(fs, p)[s] = CHOOSE m \in named : m.symbol = s
  BY DEF Market!Core
<1>5. \E m \in named : m.symbol = s
  BY <1>1, <1>3
<1> HIDE DEF named
<1>6. (CHOOSE m \in named : m.symbol = s) \in named /\ (CHOOSE m \in named : m.symbol = s).symbol = s
  BY <1>5
<1> QED BY <1>1, <1>2, <1>4, <1>6

LEMMA CoreStays ==
  ASSUME NEW old, NEW new, old \subseteq new, Market!Immutable(new), WellNamed(new),
         NEW p, Market!Missing(old, p) = {}
  PROVE  Market!Core(new, p) = Market!Core(old, p)
<1>1. Market!Immutable(old) /\ WellNamed(old)
  BY DEF Market!Immutable, WellNamed
<1>2. ASSUME NEW s \in Market!PlanSymbols PROVE Market!Core(new, p)[s] = Market!Core(old, p)[s]
  <2>1. Market!LoadCheckpoint(old, p, s)
    BY DEF Market!Missing
  <2>2. PICK f \in Market!ProgressIn(old, p) : f[2][2] = s
    BY <2>1 DEF Market!LoadCheckpoint
  <2>3. f \in Market!ProgressIn(new, p)
    BY DEF Market!ProgressIn
  <2> QED BY <1>1, <2>2, <2>3, CoreOfSymbol
<1>3. PICK a, b : a = Market!Core(new, p) /\ b = Market!Core(old, p)
  OBVIOUS
<1>4. a = [s \in Market!PlanSymbols |-> a[s]] /\ b = [s \in Market!PlanSymbols |-> b[s]]
  BY <1>3 DEF Market!Core
<1> QED BY <1>2, <1>3, <1>4

LEMMA ReloadStays ==
  ASSUME NEW old, NEW new, old \subseteq new, Market!Immutable(new), WellNamed(new),
         NEW p, NEW v, Market!Reloads(old, p, v)
  PROVE  Market!Reloads(new, p, v)
<1>1. p.owners = v /\ Market!Missing(old, p) = {}
  BY DEF Market!Reloads
<1>2. Market!Core(new, p) = Market!Core(old, p)
  BY <1>1, CoreStays
<1>3. \A kind : Market!Aggregated(kind, new, p) = Market!Aggregated(kind, old, p)
  BY <1>2 DEF Market!Aggregated
<1>4. Market!Missing(new, p) = {}
  BY <1>1, LoadStays DEF Market!Missing
<1> QED BY <1>1, <1>3, <1>4 DEF Market!Reloads

(* A commit that gains files.                                              *)
LEMMA CommitGrows ==
  ASSUME NEW old, CommitOk(old), NEW new, old \subseteq new, Market!Immutable(new),
         \A f \in new \ old : f[1] = "progress" => Named(f) /\ Market!LoadCheckpoint(new, f[2][1], f[2][2]),
         \A f \in new \ old : f[1] = "snapshot" =>
           /\ Market!Reloads(new, f[2], f[2].owners)
           /\ \A s \in Market!PlanSymbols : f[3][s].owners = f[2].owners,
         \A f \in new \ old : f[1] = "report" => f[3] = f[2]
  PROVE  CommitOk(new)
<1>1. WellNamed(new)
  BY DEF CommitOk, WellNamed
<1>2. ASSUME NEW f \in new, f[1] = "progress" PROVE Market!LoadCheckpoint(new, f[2][1], f[2][2])
  BY <1>2, LoadStays DEF CommitOk
<1>3. ASSUME NEW f \in new, f[1] = "snapshot"
      PROVE  /\ Market!Reloads(new, f[2], f[2].owners)
             /\ \A s \in Market!PlanSymbols : f[3][s].owners = f[2].owners
  BY <1>1, <1>3, ReloadStays DEF CommitOk
<1>4. \A f \in new : f[1] = "report" => f[3] = f[2]
  BY DEF CommitOk
<1> QED BY <1>1, <1>2, <1>3, <1>4 DEF CommitOk

-----------------------------------------------------------------------------
(* What a shard writes.                                                    *)
LEMMA ShardWrites ==
  ASSUME NEW r, r.plan.owners = r.owners, NEW s, NEW out, ShardFiles(r, out)
  PROVE  ShardFiles(r, out \cup Market!PersistSymbol(r, s))
<1>1. PICK m : m = Market!Material(r, s)
  OBVIOUS
<1>2. m.symbol = s /\ m.owners = r.plan.owners
  BY <1>1 DEF Market!Material
<1>3. Market!PersistSymbol(r, s) = {<< "material", m, m >>, << "progress", << r.plan, s >>, m >>}
  BY <1>1 DEF Market!PersistSymbol
<1>4. \A f \in Market!PersistSymbol(r, s) : \/ f[1] = "material"
                                            \/ f[1] = "progress" /\ f[2] = << r.plan, s >> /\ f[3] = m
  BY <1>3
<1> QED BY <1>2, <1>4 DEF ShardFiles

LEMMA HalvesWritten ==
  ASSUME NEW r, NEW out, ShardFiles(r, out)
  PROVE  /\ ShardFiles(r, {}) /\ ShardFiles(r, {<< f[1], f[2], None >> : f \in out})
         /\ \A m : ShardFiles(r, out \cup {<< "material", m, None >>})
         /\ \A m, s : ShardFiles(r, out \cup {<< "material", m, m >>, << "progress", << r.plan, s >>, None >>})
<1>1. ShardFiles(r, {})
  BY DEF ShardFiles
<1>2. ShardFiles(r, {<< f[1], f[2], None >> : f \in out})
  BY DEF ShardFiles
<1>3. \A m : ShardFiles(r, out \cup {<< "material", m, None >>})
  BY DEF ShardFiles
<1>4. \A m, s : ShardFiles(r, out \cup {<< "material", m, m >>, << "progress", << r.plan, s >>, None >>})
  BY DEF ShardFiles
<1> QED BY <1>1, <1>2, <1>3, <1>4

(* A step of one shard.                                                    *)
LEMMA ShardStep ==
  ASSUME MarketInv, NEW h \in Shards, NEW j, run # None, IsShardJob(j), ShardFiles(run, j.out),
         shard' = [shard EXCEPT ![h] = j], UNCHANGED << owners, branch, run, publish, accepted >>
  PROVE  MarketInv'
<1>1. shard \in [Shards -> {shard[g] : g \in Shards}] /\ \A g \in Shards : IsShardJob(shard[g])
  BY DEF MarketInv, MarketTypes
<1>2. /\ shard' \in [Shards -> {shard'[g] : g \in Shards}]
      /\ \A g \in Shards : shard'[g] = IF g = h THEN j ELSE shard[g]
  BY <1>1
<1>3. MarketTypes'
  <2>1. \A g \in Shards : IsShardJob(shard[g])'
    BY <1>1, <1>2 DEF IsShardJob
  <2> QED BY <1>2, <2>1 DEF MarketInv, MarketTypes
<1>4. RunInv'
  BY <1>2 DEF MarketInv, RunInv
<1>5. PublishOk(publish)'
  BY DEF MarketInv, PublishOk
<1>6. BranchOk' /\ AcceptedOk'
  BY DEF MarketInv, BranchOk, AcceptedOk
<1> QED BY <1>3, <1>4, <1>5, <1>6 DEF MarketInv

LEMMA ShardNow ==
  ASSUME MarketInv, NEW h \in Shards
  PROVE  /\ shard \in [Shards -> {shard[g] : g \in Shards}] /\ IsShardJob(shard[h])
         /\ run # None => run.plan.owners = run.owners /\ ShardFiles(run, shard[h].out)
BY DEF MarketInv, MarketTypes, RunInv

LEMMA OpenShardKeeps ==
  ASSUME MarketInv, NEW h \in Shards, NEW answered \in BOOLEAN, Market!OpenShard(h, answered)
  PROVE  MarketInv'
<1>1. PICK durable : durable = {s \in h : \E f \in Market!ProgressIn(Market!Tip, run.plan) : f[2][2] = s}
  OBVIOUS
<1>2. PICK j : j = Market!AcquireFundamentals(h, h \ durable, answered)
  OBVIOUS
<1>3. /\ run # None /\ shard' = [shard EXCEPT ![h] = j]
      /\ UNCHANGED << owners, branch, run, publish, accepted >>
  BY <1>1, <1>2 DEF Market!OpenShard
<1>4. PICK still, out : /\ j = [at |-> "works", pending |-> still, out |-> out]
                        /\ out = {} \/ \E e : out = {<< "raw", e, e >>}
  BY <1>2 DEF Market!AcquireFundamentals
<1>5. IsShardJob(j) /\ j.out = out
  BY <1>4 DEF IsShardJob
<1>6. ShardFiles(run, j.out)
  BY <1>4, <1>5 DEF ShardFiles
<1> QED BY <1>3, <1>5, <1>6, ShardStep

LEMMA AcquireKeeps ==
  ASSUME MarketInv, NEW h \in Shards, NEW s \in h, Market!Acquire(h, s)
  PROVE  MarketInv'
<1>1. PICK j, still, out :
        j = shard[h] /\ still = j.pending \ {s} /\ out = j.out \cup Market!PersistSymbol(run, s)
  OBVIOUS
<1>2. run # None /\ UNCHANGED << owners, branch, run, publish, accepted >>
  BY DEF Market!Acquire
<1>3. PICK k : k = [j EXCEPT !.pending = still, !.out = out]
  OBVIOUS
<1>4. shard' = [shard EXCEPT ![h] = k]
  <2>1. shard' = [shard EXCEPT ![h].pending = still, ![h].out = out]
    BY <1>1 DEF Market!Acquire
  <2> QED BY <1>1, <1>3, <2>1, ShardNow
<1>5. IsShardJob(k) /\ k.out = out
  <2>1. PICK at, left, there : j = [at |-> at, pending |-> left, out |-> there]
    BY <1>1, ShardNow DEF IsShardJob
  <2>2. k = [at |-> at, pending |-> still, out |-> out]
    BY <1>3, <2>1
  <2> QED BY <2>2 DEF IsShardJob
<1>6. ShardFiles(run, k.out)
  <2>1. PICK r : r = run /\ r.plan.owners = r.owners /\ ShardFiles(r, j.out)
    BY <1>1, <1>2, ShardNow
  <2>2. ShardFiles(r, j.out \cup Market!PersistSymbol(r, s))
    BY <2>1, ShardWrites
  <2> QED BY <1>1, <1>5, <2>1, <2>2
<1> QED BY <1>2, <1>4, <1>5, <1>6, ShardStep

LEMMA FailSymbolKeeps ==
  ASSUME MarketInv, NEW h \in Shards, NEW s \in h, Market!FailSymbol(h, s)
  PROVE  MarketInv'
<1>1. PICK j, k : j = shard[h] /\ k = [j EXCEPT !.pending = @ \ {s}]
  OBVIOUS
<1>2. run # None /\ shard' = [shard EXCEPT ![h] = k] /\ UNCHANGED << owners, branch, run, publish, accepted >>
  BY <1>1 DEF Market!FailSymbol
<1>3. IsShardJob(k) /\ k.out = j.out
  <2>1. PICK at, left, there : j = [at |-> at, pending |-> left, out |-> there]
    BY <1>1, ShardNow DEF IsShardJob
  <2>2. k = [at |-> at, pending |-> left \ {s}, out |-> there]
    BY <1>1, <2>1
  <2> QED BY <2>1, <2>2 DEF IsShardJob
<1> QED BY <1>1, <1>2, <1>3, ShardNow, ShardStep

LEMMA CloseShardKeeps ==
  ASSUME MarketInv, NEW h \in Shards, Market!CloseShard(h)
  PROVE  MarketInv'
<1>1. PICK j, k : j = shard[h] /\ k = [j EXCEPT !.at = "uploaded"]
  OBVIOUS
<1>2. run # None /\ shard' = [shard EXCEPT ![h] = k] /\ UNCHANGED << owners, branch, run, publish, accepted >>
  BY <1>1 DEF Market!CloseShard
<1>3. IsShardJob(k) /\ k.out = j.out
  <2>1. PICK at, left, there : j = [at |-> at, pending |-> left, out |-> there]
    BY <1>1, ShardNow DEF IsShardJob
  <2>2. k = [at |-> "uploaded", pending |-> left, out |-> there]
    BY <1>1, <2>1
  <2> QED BY <2>1, <2>2 DEF IsShardJob
<1> QED BY <1>1, <1>2, <1>3, ShardNow, ShardStep

LEMMA KillShardKeeps ==
  ASSUME MarketInv, NEW h \in Shards, NEW out \in {{}, shard[h].out} \cup Market!HalfWritten(h),
         Market!KillShard(h, out)
  PROVE  MarketInv'
<1>1. PICK k : k = [at |-> "uploaded", pending |-> {}, out |-> out]
  OBVIOUS
<1>2. run # None /\ shard' = [shard EXCEPT ![h] = k] /\ UNCHANGED << owners, branch, run, publish, accepted >>
  BY <1>1 DEF Market!KillShard
<1>3. PICK r, there : r = run /\ there = shard[h].out /\ ShardFiles(r, there)
  BY <1>2, ShardNow
<1>4. \/ out = {} \/ out = there
      \/ out = {<< f[1], f[2], None >> : f \in there}
      \/ \E m : out = there \cup {<< "material", m, None >>}
      \/ \E m, s : out = there \cup {<< "material", m, m >>, << "progress", << r.plan, s >>, None >>}
  BY <1>3 DEF Market!HalfWritten
<1>5. ShardFiles(r, out)
  <2>1. ASSUME out = {} \/ out = there PROVE ShardFiles(r, out)
    BY <1>3, <2>1, HalvesWritten
  <2>2. ASSUME out = {<< f[1], f[2], None >> : f \in there} PROVE ShardFiles(r, out)
    BY <1>3, <2>2, HalvesWritten
  <2>3. ASSUME NEW m, out = there \cup {<< "material", m, None >>} PROVE ShardFiles(r, out)
    BY <1>3, <2>3, HalvesWritten
  <2>4. ASSUME NEW m, NEW s, out = there \cup {<< "material", m, m >>, << "progress", << r.plan, s >>, None >>}
        PROVE  ShardFiles(r, out)
    BY <1>3, <2>4, HalvesWritten
  <2> QED BY <1>4, <2>1, <2>2, <2>3, <2>4
<1>6. IsShardJob(k) /\ k.out = out
  BY <1>1 DEF IsShardJob
<1> QED BY <1>2, <1>3, <1>5, <1>6, ShardStep

-----------------------------------------------------------------------------
(* The newest commit, and one behind it.                                   *)
LEMMA TipIs ==
  ASSUME MarketInv
  PROVE  /\ Len(branch) \in Nat /\ CommitOk(Market!Tip)
         /\ branch = << >> => Market!Tip = {}
         /\ branch # << >> => Len(branch) # 0 /\ Market!Tip = branch[Len(branch)]
         /\ branch = << >> <=> Len(branch) = 0
<1>1. Len(branch) \in Nat /\ branch \in Seq({branch[i] : i \in 1 .. Len(branch)})
  BY DEF MarketInv, MarketTypes
<1>2. branch = << >> <=> Len(branch) = 0
  BY <1>1
<1>3. branch # << >> => Market!Tip = branch[Len(branch)] /\ Len(branch) \in 1 .. Len(branch)
  BY <1>1, <1>2 DEF Market!Tip, Market!Last
<1>4. branch = << >> => Market!Tip = {}
  BY DEF Market!Tip
<1>5. CommitOk({})
  BY DEF CommitOk, Market!Immutable, WellNamed
<1> QED BY <1>1, <1>2, <1>3, <1>4, <1>5 DEF MarketInv, BranchOk

LEMMA BranchGrows ==
  ASSUME MarketInv, NEW fs, CommitOk(fs), Market!Tip \subseteq fs, branch' = Append(branch, fs)
  PROVE  /\ Len(branch') = Len(branch) + 1 /\ branch'[Len(branch) + 1] = fs
         /\ \A i \in 1 .. Len(branch) : branch'[i] = branch[i]
         /\ Len(branch') \in Nat /\ branch' \in Seq({branch'[i] : i \in 1 .. Len(branch')})
         /\ BranchOk'
<1>1. PICK n, commits : /\ n = Len(branch) /\ n \in Nat /\ commits = {branch[i] : i \in 1 .. n}
                        /\ branch \in Seq(commits)
  BY DEF MarketInv, MarketTypes
<1>2. branch \in Seq(commits \cup {fs})
  BY <1>1
<1>3. /\ branch' \in Seq(commits \cup {fs}) /\ Len(branch') = n + 1 /\ branch'[n + 1] = fs
      /\ \A i \in 1 .. n : branch'[i] = branch[i]
  BY <1>1, <1>2
<1>4. branch' \in Seq({branch'[i] : i \in 1 .. Len(branch')})
  BY <1>1, <1>3
<1>5. \A i \in 1 .. Len(branch') : CommitOk(branch'[i])
  BY <1>1, <1>3 DEF MarketInv, BranchOk
<1>6. \A i \in 1 .. Len(branch') : i > 1 => branch'[i - 1] \subseteq branch'[i]
  <2>1. ASSUME NEW i \in 1 .. n, i > 1 PROVE branch'[i - 1] \subseteq branch'[i]
    BY <1>1, <1>3, <2>1 DEF MarketInv, BranchOk
  <2>2. n > 0 => branch'[n] \subseteq branch'[n + 1]
    BY <1>1, <1>3, TipIs
  <2> QED BY <1>1, <1>3, <2>1, <2>2
<1>7. BranchOk'
  BY <1>5, <1>6 DEF BranchOk, CommitOk
<1>8. Len(branch') = Len(branch) + 1 /\ branch'[Len(branch) + 1] = fs /\ Len(branch') \in Nat
  BY <1>1, <1>3
<1>9. \A i \in 1 .. Len(branch) : branch'[i] = branch[i]
  BY <1>1, <1>3
<1> QED BY <1>4, <1>7, <1>8, <1>9

(* What was accepted stands on a branch that grows.                        *)
LEMMA AcceptedStay ==
  ASSUME MarketInv, UNCHANGED accepted, Len(branch') \in Nat, Len(branch') >= Len(branch),
         \A i \in 1 .. Len(branch) : branch'[i] = branch[i]
  PROVE  AcceptedOk'
<1>1. ASSUME NEW a \in accepted
      PROVE  a.commit \in 1 .. Len(branch') /\ Market!Reloads(branch'[a.commit], a.plan, a.plan.owners)
  BY TipIs DEF MarketInv, AcceptedOk
<1> QED BY <1>1 DEF AcceptedOk

(* The kinds of files that an aggregate is made of.                        *)
LEMMA AggregateKinds ==
  ASSUME NEW fs, NEW p
  PROVE  /\ Len(Market!AggregateOrder) = 4
         /\ \A i \in 1 .. 4 : \A f \in Market!Aggregated(Market!AggregateOrder[i], fs, p) :
              /\ f[1] \in {"replay", "shard", "manifest", "snapshot"}
              /\ f[1] = "snapshot" => i = 4 /\ f = << "snapshot", p, Market!Core(fs, p) >>
         /\ \A kind \in Market!ToSet(Market!AggregateOrder) : \E i \in 1 .. 4 : kind = Market!AggregateOrder[i]
<1>1. Market!AggregateOrder = << "replay", "shards", "manifest", "snapshot" >>
  BY DEF Market!AggregateOrder
<1>2. Len(Market!AggregateOrder) = 4 /\ \A kind \in Market!ToSet(Market!AggregateOrder) : \E i \in 1 .. 4 : kind = Market!AggregateOrder[i]
  BY <1>1 DEF Market!ToSet
<1>3. PICK core : core = Market!Core(fs, p)
  OBVIOUS
<1>4. ASSUME NEW f \in Market!Aggregated("replay", fs, p) PROVE f[1] = "replay"
  BY <1>3 DEF Market!Aggregated
<1>5. ASSUME NEW f \in Market!Aggregated("shards", fs, p) PROVE f[1] = "shard"
  BY <1>3 DEF Market!Aggregated
<1>6. ASSUME NEW f \in Market!Aggregated("manifest", fs, p) PROVE f[1] = "manifest"
  BY <1>3 DEF Market!Aggregated
<1>7. ASSUME NEW f \in Market!Aggregated("snapshot", fs, p) PROVE f = << "snapshot", p, core >> /\ f[1] = "snapshot"
  BY <1>3 DEF Market!Aggregated
<1> QED BY <1>1, <1>2, <1>3, <1>4, <1>5, <1>6, <1>7

-----------------------------------------------------------------------------
(* The progress is kept: the checkpoints that the shards bring load.       *)
LEMMA ImportedLoads ==
  ASSUME MarketInv, run # None, Market!Importable, NEW f \in Market!Imported
  PROVE  /\ f[1] \in {"raw", "material", "progress"}
         /\ f[1] = "progress" => Named(f) /\ Market!LoadCheckpoint(Market!Imported, f[2][1], f[2][2])
<1>1. PICK r : r = run /\ \A g \in Market!Incoming : ShardFiles(r, Market!Incoming)
  BY DEF Market!Incoming, MarketInv, RunInv, ShardFiles
<1>2. f \in Market!Incoming
  BY DEF Market!Imported
<1>3. ASSUME f[1] = "progress" PROVE Named(f) /\ Market!LoadCheckpoint(Market!Imported, f[2][1], f[2][2])
  <2>1. f[3] # None /\ Market!LoadCheckpoint(Market!Incoming, r.plan, f[2][2])
    BY <1>1, <1>2, <1>3 DEF Market!Importable
  <2>2. f[2] = << r.plan, f[2][2] >> /\ f[3].symbol = f[2][2] /\ f[3].owners = r.plan.owners
    BY <1>1, <1>2, <1>3, <2>1 DEF ShardFiles
  <2>3. PICK g \in Market!ProgressIn(Market!Incoming, r.plan) :
          /\ g[2][2] = f[2][2] /\ << "material", g[3], g[3] >> \in Market!Incoming
          /\ Market!ValidSymbol(Market!Incoming, r.plan, f[2][2], g[3])
    BY <2>1 DEF Market!LoadCheckpoint
  <2>4. g \in Market!ProgressIn(Market!Imported, r.plan)
    BY <2>3 DEF Market!ProgressIn, Market!Imported
  <2>5. << "material", g[3], g[3] >> \in Market!Imported
    BY <2>3, <2>4 DEF Market!Imported, Market!ProgressIn
  <2>6. Market!ValidSymbol(Market!Imported, r.plan, f[2][2], g[3])
    <3>1. Market!RawOf(g[3]) \in Market!Imported
      BY <2>3 DEF Market!ValidSymbol, Market!AnswersKept, Market!Imported, Market!RawOf
    <3> QED BY <2>3, <3>1 DEF Market!ValidSymbol, Market!AnswersKept
  <2>7. Market!LoadCheckpoint(Market!Imported, r.plan, f[2][2])
    BY <2>3, <2>4, <2>5, <2>6 DEF Market!LoadCheckpoint
  <2>8. f[2][1] = r.plan
    BY <2>2
  <2> QED BY <2>2, <2>7, <2>8 DEF Named
<1> QED BY <1>1, <1>2, <1>3 DEF ShardFiles

LEMMA StageKeeps ==
  ASSUME MarketInv, NEW written \in 0 .. Len(Market!AggregateOrder), Market!Stage(written)
  PROVE  MarketInv'
<1>1. PICK p, plan : p = run.plan /\ plan = << "plan", p, p >>
  OBVIOUS
<1>2. PICK kept : kept = Market!Tip \cup Market!Imported \cup {plan}
  OBVIOUS
<1>3. PICK more : more = IF Market!Missing(kept, p) # {} THEN {}
                         ELSE UNION {Market!Aggregated(Market!AggregateOrder[i], kept, p) : i \in 1 .. written}
  OBVIOUS
<1>4. PICK fs : fs = kept \cup more
  OBVIOUS
<1>5. PICK passes : passes = (written = Len(Market!AggregateOrder) /\ Market!Reloads(fs, p, run.owners))
  OBVIOUS
<1>6. /\ run # None /\ Market!Importable /\ Market!Immutable(fs)
      /\ publish' = [at |-> "staged", base |-> Len(branch), files |-> fs, passes |-> passes]
      /\ UNCHANGED << owners, branch, run, shard, accepted >>
  BY <1>1, <1>2, <1>3, <1>4, <1>5 DEF Market!Stage
<1>7. Market!Immutable(kept)
  BY <1>4, <1>6 DEF Market!Immutable
<1>8. CommitOk(kept)
  <2>1. CommitOk(Market!Tip) /\ Market!Tip \subseteq kept
    BY <1>2, TipIs
  <2>2. ASSUME NEW f \in kept \ Market!Tip
        PROVE  /\ f[1] \in {"raw", "material", "progress", "plan"}
               /\ f[1] = "progress" => Named(f) /\ Market!LoadCheckpoint(kept, f[2][1], f[2][2])
    <3>1. CASE f = plan
      BY <1>1, <3>1
    <3>2. CASE f \in Market!Imported
      <4>1. Market!Imported \subseteq kept
        BY <1>2
      <4> QED BY <1>6, <3>2, <4>1, ImportedLoads, LoadStays
    <3> QED BY <1>2, <3>1, <3>2
  <2> QED BY <1>7, <2>1, <2>2, CommitGrows
<1>9. CommitOk(fs)
  <2>1. CASE more = {}
    <3>1. fs = kept
      BY <1>4, <2>1
    <3> QED BY <1>8, <3>1
  <2>2. CASE Market!Missing(kept, p) = {}
    <3>1. more = UNION {Market!Aggregated(Market!AggregateOrder[i], kept, p) : i \in 1 .. written}
      BY <1>3, <2>2
    <3>2. \A f \in more : /\ f[1] \in {"replay", "shard", "manifest", "snapshot"}
                          /\ f[1] = "snapshot" => written = 4 /\ f = << "snapshot", p, Market!Core(kept, p) >>
      BY <3>1, AggregateKinds
    <3>3. WellNamed(fs)
      BY <1>4, <1>8, <3>2 DEF WellNamed, CommitOk
    <3>4. Market!Core(fs, p) = Market!Core(kept, p)
      BY <1>4, <1>6, <2>2, <3>3, CoreStays
    <3>5. \A s \in Market!PlanSymbols : Market!Core(kept, p)[s].owners = p.owners
      <4> TAKE s \in Market!PlanSymbols
      <4>1. Market!LoadCheckpoint(kept, p, s)
        BY <2>2 DEF Market!Missing
      <4>2. PICK g \in Market!ProgressIn(kept, p) : g[2][2] = s
        BY <4>1 DEF Market!LoadCheckpoint
      <4> QED BY <1>8, <4>2, CoreOfSymbol DEF CommitOk
    <3>6. written = 4 => Market!Reloads(fs, p, p.owners)
      <4> SUFFICES ASSUME written = 4 PROVE Market!Reloads(fs, p, p.owners)
        OBVIOUS
      <4>1. Market!Missing(fs, p) = {}
        <5>1. kept \subseteq fs
          BY <1>4
        <5> QED BY <2>2, <5>1, LoadStays DEF Market!Missing
      <4>2. ASSUME NEW kind \in Market!ToSet(Market!AggregateOrder) PROVE Market!Aggregated(kind, fs, p) \subseteq fs
        <5>1. PICK i \in 1 .. 4 : kind = Market!AggregateOrder[i]
          BY AggregateKinds
        <5>2. Market!Aggregated(kind, kept, p) \subseteq fs
          BY <1>4, <3>1, <5>1
        <5>3. Market!Aggregated(kind, fs, p) = Market!Aggregated(kind, kept, p)
          BY <3>4 DEF Market!Aggregated
        <5> QED BY <5>2, <5>3
      <4> QED BY <4>1, <4>2 DEF Market!Reloads
    <3>7. ASSUME NEW f \in fs \ kept, f[1] = "snapshot"
          PROVE  /\ Market!Reloads(fs, f[2], f[2].owners)
                 /\ \A s \in Market!PlanSymbols : f[3][s].owners = f[2].owners
      <4>1. written = 4 /\ f[2] = p /\ f[3] = Market!Core(kept, p)
        BY <1>4, <3>2, <3>7
      <4> QED BY <3>5, <3>6, <4>1
    <3>8. \A f \in fs \ kept : f[1] # "progress" /\ f[1] # "report"
      BY <1>4, <3>2
    <3>9. kept \subseteq fs
      BY <1>4
    <3> QED BY <1>6, <1>8, <3>7, <3>8, <3>9, CommitGrows
  <2> QED BY <1>3, <2>1, <2>2
<1>10. Market!Tip \subseteq fs /\ fs # {}
  BY <1>2, <1>4
<1>11. passes => Market!Reloads(fs, p, p.owners)
  BY <1>1, <1>5, <1>6 DEF MarketInv, RunInv
<1>12. MarketTypes'
  BY <1>6, TipIs DEF MarketInv, MarketTypes, IsShardJob
<1>13. PublishOk(publish)'
  <2>1. PICK j : j = [at |-> "staged", base |-> Len(branch), files |-> fs, passes |-> passes] /\ publish' = j
    BY <1>6
  <2>2. j.at = "staged" /\ j.base = Len(branch) /\ j.files = fs /\ j.passes = passes
    BY <2>1
  <2>3. j.base # 0 => branch[j.base] \subseteq fs
    BY <1>10, <2>2, TipIs
  <2>4. PublishOk(j)
    BY <1>1, <1>9, <1>10, <1>11, <2>2, <2>3, TipIs DEF PublishOk
  <2> QED BY <1>6, <2>1, <2>4 DEF PublishOk
<1>14. RunInv' /\ BranchOk' /\ AcceptedOk'
  BY <1>6 DEF MarketInv, RunInv, BranchOk, AcceptedOk
<1> QED BY <1>12, <1>13, <1>14 DEF MarketInv

-----------------------------------------------------------------------------
LEMMA PushedJob ==
  ASSUME NEW at, NEW onto, NEW fs, NEW passes, NEW phase, NEW next,
         NEW j, j = [at |-> at, base |-> onto, files |-> fs, passes |-> passes],
         NEW k, k = [j EXCEPT !.at = phase, !.base = next]
  PROVE  k = [at |-> phase, base |-> next, files |-> fs, passes |-> passes]
<1>1. DOMAIN k = {"at", "base", "files", "passes"}
  OBVIOUS
<1>2. k.at = phase /\ k.base = next /\ k.files = fs /\ k.passes = passes
  OBVIOUS
<1>3. k = [f \in {"at", "base", "files", "passes"} |-> k[f]]
  BY <1>1
<1> QED BY <1>2, <1>3

LEMMA PushedKeeps ==
  ASSUME MarketInv, Market!Push
  PROVE  MarketInv'
<1>1. PICK j : j = publish /\ j.at = "staged" /\ j.base = Len(branch) /\ PublishOk(j)
  BY DEF Market!Push, MarketInv
<1>2. run # None /\ UNCHANGED << owners, run, shard, accepted >>
  BY DEF Market!Push
<1>3. PICK onto, fs, passes : j = [at |-> "staged", base |-> onto, files |-> fs, passes |-> passes]
  BY <1>1 DEF MarketInv, MarketTypes
<1>4. onto = Len(branch) /\ Market!Tip \subseteq fs /\ CommitOk(fs) /\ fs # {}
      /\ (passes => Market!Reloads(fs, run.plan, run.plan.owners))
  <2>1. j.base = onto /\ j.files = fs /\ j.passes = passes
    BY <1>3
  <2>2. onto # 0 => branch[onto] \subseteq fs
    BY <1>1, <2>1 DEF PublishOk
  <2> QED BY <1>1, <2>1, <2>2, TipIs DEF PublishOk
<1>5. CASE fs = Market!Tip
  <2>1. PICK k : k = [at |-> "unchanged", base |-> onto, files |-> fs, passes |-> passes]
    OBVIOUS
  <2>2. publish' = k /\ branch' = branch
    BY <1>1, <1>3, <1>5, <2>1 DEF Market!Push
  <2>3. onto \in 1 .. Len(branch) /\ branch[onto] = fs
    BY <1>4, <1>5, TipIs
  <2>4. PublishOk(k)
    BY <1>4, <2>1, <2>3 DEF PublishOk
  <2>5. PublishOk(publish)'
    BY <1>2, <2>2, <2>4 DEF PublishOk
  <2>6. MarketTypes'
    BY <1>2, <2>1, <2>2, <2>3, TipIs DEF MarketInv, MarketTypes, IsShardJob
  <2>7. RunInv' /\ BranchOk' /\ AcceptedOk'
    BY <1>2, <2>2 DEF MarketInv, RunInv, BranchOk, AcceptedOk
  <2> QED BY <2>5, <2>6, <2>7 DEF MarketInv
<1>6. CASE fs # Market!Tip
  <2>1. PICK k : k = [at |-> "pushed", base |-> onto + 1, files |-> fs, passes |-> passes]
    OBVIOUS
  <2>2. publish' = k /\ branch' = Append(branch, fs)
    <3>1. publish.files # Market!Tip
      BY <1>1, <1>3, <1>6
    <3>2. branch' = Append(branch, publish.files) /\ publish' = [publish EXCEPT !.at = "pushed", !.base = @ + 1]
      BY <3>1 DEF Market!Push
    <3>3. j.files = fs /\ j.base = onto
      BY <1>3
    <3>4. PICK next : next = onto + 1
      OBVIOUS
    <3>5. PICK moved : moved = [j EXCEPT !.at = "pushed", !.base = next]
      OBVIOUS
    <3>6. moved = [at |-> "pushed", base |-> next, files |-> fs, passes |-> passes]
      BY <1>3, <3>5, PushedJob
    <3>7. publish' = moved
      BY <1>1, <3>2, <3>3, <3>4, <3>5
    <3>8. moved = k
      BY <2>1, <3>4, <3>6
    <3> QED BY <1>1, <3>2, <3>3, <3>7, <3>8
  <2>3. /\ Len(branch') = onto + 1 /\ branch'[onto + 1] = fs /\ onto \in Nat /\ BranchOk'
        /\ \A i \in 1 .. Len(branch) : branch'[i] = branch[i]
        /\ branch' \in Seq({branch'[i] : i \in 1 .. Len(branch')})
    BY <1>4, <2>2, BranchGrows, TipIs
  <2>4. PublishOk(publish)'
    <3>1. k.at = "pushed" /\ k.base = onto + 1 /\ k.files = fs /\ k.passes = passes
      BY <2>1
    <3>2. k.base \in 1 .. Len(branch') /\ branch'[k.base] = k.files
      BY <2>3, <3>1
    <3>3. k.passes => Market!Reloads(k.files, run'.plan, run'.plan.owners)
      BY <1>2, <1>4, <3>1
    <3> QED BY <2>2, <3>1, <3>2, <3>3 DEF PublishOk
  <2>5. MarketTypes'
    <3>1. publish' = [at |-> publish'.at, base |-> publish'.base, files |-> publish'.files, passes |-> publish'.passes]
          /\ publish'.base \in Nat
      BY <2>1, <2>2, <2>3
    <3> QED BY <1>2, <2>3, <3>1 DEF MarketInv, MarketTypes, IsShardJob
  <2>6. AcceptedOk'
    BY <1>2, <1>4, <2>3, AcceptedStay
  <2>7. RunInv'
    BY <1>2 DEF MarketInv, RunInv
  <2> QED BY <2>3, <2>4, <2>5, <2>6, <2>7 DEF MarketInv
<1> QED BY <1>5, <1>6

(* A run ends, and the branch stays as it is.                              *)
LEMMA EndStep ==
  ASSUME MarketInv, Market!EndRun, UNCHANGED << owners, branch >>, AcceptedOk'
  PROVE  MarketInv'
<1>1. run' = None /\ shard' = [h \in Shards |-> Market!Idle] /\ publish' = Market!NoJob
  BY DEF Market!EndRun
<1>2. IsShardJob(Market!Idle) /\ Market!Idle.out = {}
  BY DEF IsShardJob, Market!Idle
<1>3. MarketTypes'
  <2>1. shard' \in [Shards -> {shard'[h] : h \in Shards}] /\ \A h \in Shards : IsShardJob(shard[h])'
    BY <1>1, <1>2 DEF IsShardJob
  <2> QED BY <1>1, <2>1 DEF MarketInv, MarketTypes, Market!NoJob
<1>4. RunInv'
  BY <1>1, <1>2 DEF RunInv, Market!NoJob
<1>5. PublishOk(publish)'
  BY <1>1 DEF PublishOk, Market!NoJob
<1>6. BranchOk'
  BY DEF MarketInv, BranchOk
<1> QED BY <1>3, <1>4, <1>5, <1>6 DEF MarketInv

LEMMA ConfirmKeeps ==
  ASSUME MarketInv, Market!Confirm
  PROVE  MarketInv'
<1>1. /\ Market!EndRun /\ UNCHANGED << owners, branch >> /\ publish.at \in {"pushed", "unchanged"}
      /\ \/ UNCHANGED accepted
         \/ publish.passes /\ accepted' = accepted \cup {[plan |-> run.plan, commit |-> publish.base]}
  BY DEF Market!Confirm
<1>2. publish.base \in 1 .. Len(branch)
      /\ (publish.passes => Market!Reloads(branch[publish.base], run.plan, run.plan.owners))
  BY <1>1 DEF MarketInv, PublishOk
<1>3. \A a \in accepted' : a.commit \in 1 .. Len(branch) /\ Market!Reloads(branch[a.commit], a.plan, a.plan.owners)
  BY <1>1, <1>2 DEF MarketInv, AcceptedOk
<1>4. AcceptedOk'
  BY <1>1, <1>3 DEF AcceptedOk
<1> QED BY <1>1, <1>4, EndStep

LEMMA JobDiesKeeps ==
  ASSUME MarketInv, Market!Die
  PROVE  MarketInv'
<1>1. Market!EndRun /\ UNCHANGED << owners, branch, accepted >>
  BY DEF Market!Die
<1>2. AcceptedOk'
  BY <1>1 DEF MarketInv, AcceptedOk
<1> QED BY <1>1, <1>2, EndStep

(* A run starts on a plan of its owner files.                              *)
LEMMA StartKeeps ==
  ASSUME MarketInv, NEW date \in Dates, Market!PlanNew(date) \/ Market!PlanAgain(date)
  PROVE  MarketInv'
<1>1. PICK p : p.owners = owners /\ Market!Start(p)
  <2>1. CASE Market!PlanNew(date)
    BY <2>1 DEF Market!PlanNew
  <2>2. CASE Market!PlanAgain(date)
    BY <2>2 DEF Market!PlanAgain, Market!Resumable
  <2> QED BY <2>1, <2>2
<1>2. /\ run = None /\ run' = [id |-> count.runs + 1, plan |-> p, owners |-> owners]
      /\ UNCHANGED << owners, branch, shard, publish, accepted >>
  BY <1>1 DEF Market!Start
<1>3. run'.plan = p /\ run'.owners = owners
  BY <1>2
<1>4. publish.at = "waits" /\ \A h \in Shards : shard[h].out = {}
  BY <1>2 DEF MarketInv, RunInv
<1>5. RunInv'
  BY <1>1, <1>2, <1>3, <1>4 DEF RunInv, ShardFiles
<1>6. PublishOk(publish)'
  BY <1>2, <1>4 DEF PublishOk
<1>7. MarketTypes' /\ BranchOk' /\ AcceptedOk'
  BY <1>2 DEF MarketInv, MarketTypes, IsShardJob, BranchOk, AcceptedOk
<1> QED BY <1>5, <1>6, <1>7 DEF MarketInv

(* Somebody else pushes.                                                   *)
LEMMA RivalKeeps ==
  ASSUME MarketInv, Market!Rival
  PROVE  MarketInv'
<1>1. PICK n, fs : n = count.rivals /\ fs = Market!Tip \cup {<< "report", n, n >>}
  OBVIOUS
<1>2. branch' = Append(branch, fs) /\ UNCHANGED << owners, run, shard, publish, accepted >>
  BY <1>1 DEF Market!Rival
<1>3. CommitOk(fs) /\ Market!Tip \subseteq fs
  <2>1. CommitOk(Market!Tip) /\ Market!Tip \subseteq fs
    BY <1>1, TipIs
  <2>2. \A f \in fs \ Market!Tip : f[1] = "report" /\ f[3] = f[2]
    BY <1>1
  <2>3. \A f \in fs : f[1] = "report" => f[3] = f[2]
    BY <2>1, <2>2 DEF CommitOk
  <2>4. Market!Immutable(fs)
    BY <2>1, <2>2, <2>3 DEF CommitOk, Market!Immutable
  <2> QED BY <2>1, <2>2, <2>4, CommitGrows
<1>4. /\ Len(branch') = Len(branch) + 1 /\ Len(branch) \in Nat /\ Len(branch') \in Nat /\ BranchOk'
      /\ \A i \in 1 .. Len(branch) : branch'[i] = branch[i]
      /\ branch' \in Seq({branch'[i] : i \in 1 .. Len(branch')})
  BY <1>2, <1>3, BranchGrows, TipIs
<1>5. PublishOk(publish)'
  <2>1. PICK j : j = publish /\ publish' = j /\ PublishOk(j) /\ j.base \in Nat
    BY <1>2 DEF MarketInv, MarketTypes
  <2>2. j.at = "staged" => j.base <= Len(branch') /\ (j.base # 0 => branch'[j.base] \subseteq j.files)
    BY <1>4, <2>1 DEF PublishOk
  <2>3. j.at \in {"pushed", "unchanged"} => j.base \in 1 .. Len(branch') /\ branch'[j.base] = j.files
    BY <1>4, <2>1 DEF PublishOk
  <2> QED BY <1>2, <2>1, <2>2, <2>3 DEF PublishOk
<1>6. MarketTypes'
  BY <1>2, <1>4 DEF MarketInv, MarketTypes, IsShardJob
<1>7. AcceptedOk'
  BY <1>2, <1>4, AcceptedStay
<1>8. RunInv'
  BY <1>2 DEF MarketInv, RunInv
<1> QED BY <1>4, <1>5, <1>6, <1>7, <1>8 DEF MarketInv

LEMMA MarketIdleKeeps ==
  ASSUME MarketInv, UNCHANGED << branch, run, shard, publish, accepted >>
  PROVE  MarketInv'
<1>1. MarketTypes' /\ BranchOk' /\ AcceptedOk'
  BY DEF MarketInv, MarketTypes, IsShardJob, BranchOk, AcceptedOk
<1>2. RunInv' /\ PublishOk(publish)'
  BY DEF MarketInv, RunInv, PublishOk
<1> QED BY <1>1, <1>2 DEF MarketInv

LEMMA MarketNext == MarketInv /\ [Market!Next]_(Market!vars) => MarketInv'
<1> SUFFICES ASSUME MarketInv, [Market!Next]_(Market!vars) PROVE MarketInv'
  OBVIOUS
<1>1. CASE UNCHANGED Market!vars \/ Market!Merge
  BY <1>1, MarketIdleKeeps DEF Market!vars, Market!Merge
<1>2. ASSUME NEW d \in Dates, Market!PlanNew(d) \/ Market!PlanAgain(d) PROVE MarketInv'
  BY <1>2, StartKeeps
<1>3. ASSUME NEW h \in Shards, \E answered \in BOOLEAN : Market!OpenShard(h, answered) PROVE MarketInv'
  BY <1>3, OpenShardKeeps
<1>4. ASSUME NEW h \in Shards, \E s \in h : Market!Acquire(h, s) \/ Market!FailSymbol(h, s) PROVE MarketInv'
  BY <1>4, AcquireKeeps, FailSymbolKeeps
<1>5. ASSUME NEW h \in Shards, Market!CloseShard(h) PROVE MarketInv'
  BY <1>5, CloseShardKeeps
<1>6. ASSUME NEW h \in Shards,
             \E out \in {{}, shard[h].out} \cup Market!HalfWritten(h) : Market!KillShard(h, out)
      PROVE  MarketInv'
  BY <1>6, KillShardKeeps
<1>7. CASE \E written \in 0 .. Len(Market!AggregateOrder) : Market!Stage(written)
  BY <1>7, StageKeeps
<1>8. CASE Market!Push \/ Market!Confirm \/ Market!Die \/ Market!Rival
  BY <1>8, PushedKeeps, ConfirmKeeps, JobDiesKeeps, RivalKeeps
<1> QED BY <1>1, <1>2, <1>3, <1>4, <1>5, <1>6, <1>7, <1>8 DEF Market!Next

LEMMA MarketInit == Market!Init => MarketInv
<1> SUFFICES ASSUME Market!Init PROVE MarketInv
  OBVIOUS
<1>1. /\ branch = << >> /\ run = None /\ accepted = {} /\ shard = [h \in Shards |-> Market!Idle]
      /\ publish = Market!NoJob
  BY DEF Market!Init
<1>2. IsShardJob(Market!Idle) /\ Market!Idle.out = {}
  BY DEF IsShardJob, Market!Idle
<1>3. shard \in [Shards -> {shard[h] : h \in Shards}] /\ \A h \in Shards : IsShardJob(shard[h]) /\ shard[h].out = {}
  BY <1>1, <1>2
<1>4. Len(branch) = 0 /\ branch \in Seq({branch[i] : i \in 1 .. Len(branch)})
  BY <1>1
<1>5. MarketTypes
  BY <1>1, <1>3, <1>4 DEF MarketTypes, Market!NoJob
<1>6. RunInv /\ PublishOk(publish)
  BY <1>1, <1>3 DEF RunInv, PublishOk, Market!NoJob
<1>7. BranchOk /\ AcceptedOk
  BY <1>1, <1>4 DEF BranchOk, AcceptedOk
<1> QED BY <1>5, <1>6, <1>7 DEF MarketInv

(* The inductive invariant of the full market's bootstrap.                 *)
THEOREM MarketInvariant == Market!Spec => []MarketInv
<1>1. Market!Init => MarketInv
  BY MarketInit
<1>2. MarketInv /\ [Market!Next]_(Market!vars) => MarketInv'
  BY MarketNext
<1> QED BY <1>1, <1>2, PTL DEF Market!Spec

LEMMA MarketInvSound == MarketInv => Market!MarketSound
<1> SUFFICES ASSUME MarketInv PROVE Market!MarketSound
  OBVIOUS
<1>1. Len(branch) \in Nat /\ \A i \in 1 .. Len(branch) : CommitOk(branch[i])
  BY DEF MarketInv, BranchOk, MarketTypes
<1>2. Market!AppendOnly
  <2>1. \A i \in 2 .. Len(branch) : branch[i - 1] \subseteq branch[i]
    BY <1>1 DEF MarketInv, BranchOk
  <2> QED BY <1>1, <2>1 DEF Market!AppendOnly, CommitOk
<1>3. Market!ProgressLoads
  BY <1>1 DEF Market!ProgressLoads, CommitOk
<1>4. Market!SnapshotsWhole
  BY <1>1 DEF Market!SnapshotsWhole, CommitOk
<1>5. Market!AcceptedStands
  BY DEF Market!AcceptedStands, MarketInv, AcceptedOk
<1> QED BY <1>2, <1>3, <1>4, <1>5 DEF Market!MarketSound

LEMMA MarketBehaviour == EitherSpec => Market!Spec
<1>1. EitherInit => Market!Init
  BY DEF EitherInit
<1>2. [EitherNext]_<< part, vars, bootstraps, routeB, day, market >> => [Market!Next]_(Market!vars)
  BY DEF EitherNext, market, Market!vars
<1> QED BY <1>1, <1>2, PTL DEF EitherSpec, Market!Spec

(* The branch only grows, its checkpoints load, its snapshots are whole    *)
(* and of one version of the owner files, and what was accepted stands.    *)
THEOREM MarketsSound == EitherSpec => []MarketSound
<1>1. MarketInv => MarketSound
  BY MarketInvSound DEF MarketSound
<1> QED BY <1>1, MarketInvariant, MarketBehaviour, PTL
=============================================================================
