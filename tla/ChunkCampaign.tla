--------------------------- MODULE ChunkCampaign ----------------------------
(***************************************************************************)
(* What a campaign of history chunks promises: a chunk is acquired at most *)
(* once, one at a time, and the first chunk whose claim does not end in a  *)
(* clean pass ends the campaign.  HistoryExecution implements it file by   *)
(* file; HistoryBatch runs its windows on it.                              *)
(***************************************************************************)
CONSTANT Chunks

VARIABLES
  status,  (* of each chunk: "open", "running", "passed" or "dead" *)
  halted   (* HALTED.json lies in the campaign root                *)

vars == << status, halted >>

Init == status = [c \in Chunks |-> "open"] /\ halted = FALSE

Clear == ~halted /\ \A c \in Chunks : status[c] \in {"open", "passed"}

Become(c, s) == status' = [status EXCEPT ![c] = s]

(* The claim is made, and the run goes on from it or is lost with it. *)
Start(c) ==
  /\ Clear /\ status[c] = "open"
  /\ \E s \in {"running", "dead"} : Become(c, s)
  /\ UNCHANGED halted
Pass(c) == status[c] = "running" /\ Become(c, "passed") /\ UNCHANGED halted
Die(c) == status[c] = "running" /\ Become(c, "dead") /\ UNCHANGED halted
(* Nothing can halt a campaign of which nothing was ever claimed. *)
Halt == (\E c \in Chunks : status[c] # "open") /\ halted' = TRUE /\ UNCHANGED status

Next == Halt \/ \E c \in Chunks : Start(c) \/ Pass(c) \/ Die(c)

Spec == Init /\ [][Next]_vars
=============================================================================
