------------------------- MODULE StoreQualification -------------------------
(***************************************************************************)
(* The qualification of the Cloudflare store that is to keep execution     *)
(* receipts: a D1 database and a Worker are made, probed and removed again *)
(* under one single-use authorization.  Two executors do it:               *)
(*   rehearsed  rehearse_cloudflare_real_qualification, which cleans up    *)
(*              whatever failed; a call of its backend fails before it has *)
(*              any effect,                                                *)
(*   shaped     rehearse_cloudflare_http_request_shapes over the bounded   *)
(*              HTTPS transport, which raises at the first answer that is  *)
(*              not as expected; an answer may be lost after its effect.   *)
(* Calls are synchronous, so one run at a time uses a backend, and several *)
(* authorizations may come to the same one.                                *)
(***************************************************************************)
EXTENDS Naturals, Sequences

CONSTANTS Tokens,    \* qualified authorizations
          MaxFaults, \* bound: calls that fail
          None

Admin == <<"create", "upload", "secret", "schema", "metadata", "script", "present", "account", "subdomain">>
Probes == <<"unauthorized", "missing", "post", "readback", "duplicate", "method">>
Calls == Admin \o Probes

VARIABLES way,      \* the executor in use
          consumed, \* authorizations consumed at this backend
          token,    \* the authorization of the run, or None
          at,       \* the next call of the run, past the last: cleanup
          failed,   \* a call of the run has failed
          account,  \* what exists: d1, worker, secret, schema, receipt
          made,     \* resources the run has made
          attempts, \* deletions tried at this backend
          unclean,  \* a deletion of the run has failed
          result,   \* how the run of an authorization ended
          faults

vars == <<way, consumed, token, at, failed, account, made, attempts, unclean, result, faults>>

Resources == {"worker", "d1"}
Things == Resources \cup {"secret", "schema", "receipt"}
Results == {"PASS", "BLOCKED_FAILURE", "BLOCKED_RESIDUAL", "raised"}
RemoveWorker == Len(Calls) + 1
RemoveD1 == Len(Calls) + 2
Close == Len(Calls) + 3

TypeOK == /\ way \in {"rehearsed", "shaped"}
          /\ consumed \subseteq Tokens
          /\ token \in Tokens \cup {None}
          /\ at \in 1 .. Close
          /\ failed \in BOOLEAN /\ unclean \in BOOLEAN
          /\ account \subseteq Things /\ made \subseteq Resources
          /\ attempts \in [Resources -> Nat]
          /\ result \in [Tokens -> Results \cup {None}]
          /\ faults \in 0 .. MaxFaults

Init == /\ way \in {"rehearsed", "shaped"}
        /\ consumed = {} /\ token = None /\ at = 1
        /\ failed = FALSE /\ unclean = FALSE
        /\ account = {} /\ made = {}
        /\ attempts = [r \in Resources |-> 0]
        /\ result = [t \in Tokens |-> None]
        /\ faults = 0

(* Single use is checked and consumed before the first call.               *)
Begin(t) ==
  /\ token = None /\ t \notin consumed
  /\ consumed' = consumed \cup {t} /\ token' = t /\ at' = 1
  /\ failed' = FALSE /\ unclean' = FALSE /\ made' = {}
  /\ UNCHANGED <<way, account, attempts, result, faults>>

Raise == result' = [result EXCEPT ![token] = "raised"] /\ token' = None

(* What a call needs to be answered as expected.  The backend of the       *)
(* rehearsed executor refuses a call out of order; its probes need the     *)
(* deployment and no more.                                                 *)
AdminReady(call) ==
  CASE call = "upload" -> way = "shaped" \/ "d1" \in account
    [] call = "secret" -> way = "shaped" \/ "worker" \in account
    [] call = "schema" -> way = "shaped" \/ "d1" \in account
    [] call = "script" -> way = "rehearsed" \/ "worker" \in account
    [] call = "present" -> way = "shaped" \/ "secret" \in account
    [] OTHER -> TRUE

(* The Worker keeps a receipt for good: a first POST creates it, a second  *)
(* is refused.  The rehearsed backend answers its probes from a table.     *)
ProbeReady(call) ==
  IF way = "rehearsed" THEN {"worker", "secret", "schema"} \subseteq account
  ELSE CASE call = "post" -> "receipt" \notin account
         [] call \in {"readback", "duplicate"} -> "receipt" \in account
         [] OTHER -> TRUE

Ready(call) == AdminReady(call) /\ (at > Len(Admin) => ProbeReady(call))

Effect(call) ==
  /\ account' = account \cup CASE call = "create" -> {"d1"} [] call = "upload" -> {"worker"}
                               [] call = "secret" -> {"secret"} [] call = "schema" -> {"schema"}
                               [] call = "post" /\ way = "shaped" -> {"receipt"} [] OTHER -> {}
  /\ made' = made \cup CASE call = "create" -> {"d1"} [] call = "upload" -> {"worker"} [] OTHER -> {}

Call ==
  /\ token # None /\ at <= Len(Calls) /\ Ready(Calls[at])
  /\ Effect(Calls[at])
  /\ at' = at + 1
  /\ UNCHANGED <<way, consumed, token, failed, attempts, unclean, result, faults>>

(* The rehearsed executor goes on to clean up; the shaped one raises, with *)
(* what it made still there and its authorization consumed.                *)
GiveUp ==
  IF way = "rehearsed"
  THEN failed' = TRUE /\ at' = RemoveWorker /\ UNCHANGED <<token, result>>
  ELSE Raise /\ UNCHANGED <<failed, at>>

Refused ==
  /\ token # None /\ at <= Len(Calls) /\ ~Ready(Calls[at])
  /\ GiveUp
  /\ UNCHANGED <<way, consumed, account, made, attempts, unclean, faults>>

Fault ==
  /\ token # None /\ at <= Len(Calls) /\ faults < MaxFaults
  /\ faults' = faults + 1
  /\ GiveUp
  /\ \/ UNCHANGED <<account, made>>
     \/ way = "shaped" /\ Ready(Calls[at]) /\ Effect(Calls[at])
  /\ UNCHANGED <<way, consumed, attempts, unclean>>
-----------------------------------------------------------------------------
Gone(r) == {r} \cup IF r = "worker" THEN {"secret"} ELSE {"schema"}

(* A cleanup that is left out when a call has failed.                      *)
RemoveAfterSuccess(r, next) ==
  /\ IF way = "shaped" \/ (r \in account /\ ~failed)
     THEN /\ attempts' = [attempts EXCEPT ![r] = @ + 1]
          /\ \/ account' = account \ Gone(r) /\ at' = next /\ UNCHANGED <<unclean, token, result, faults>>
             \/ /\ faults < MaxFaults /\ faults' = faults + 1
                /\ IF way = "shaped" THEN Raise /\ UNCHANGED <<at, unclean>>
                   ELSE unclean' = TRUE /\ at' = next /\ UNCHANGED <<token, result>>
                /\ account' = account \/ (way = "shaped" /\ account' = account \ Gone(r))
     ELSE at' = next /\ UNCHANGED <<account, attempts, unclean, token, result, faults>>
  /\ UNCHANGED <<way, consumed, failed, made>>

(* The rehearsed executor removes what exists, whatever failed before, and *)
(* goes on when a deletion fails; the shaped one deletes both and raises.  *)
Remove(r, next) ==
  /\ IF way = "shaped" \/ r \in account
     THEN /\ attempts' = [attempts EXCEPT ![r] = @ + 1]
          /\ \/ account' = account \ Gone(r) /\ at' = next /\ UNCHANGED <<unclean, token, result, faults>>
             \/ /\ faults < MaxFaults /\ faults' = faults + 1
                /\ IF way = "shaped" THEN Raise /\ UNCHANGED <<at, unclean>>
                   ELSE unclean' = TRUE /\ at' = next /\ UNCHANGED <<token, result>>
                /\ account' = account \/ (way = "shaped" /\ account' = account \ Gone(r))
     ELSE at' = next /\ UNCHANGED <<account, attempts, unclean, token, result, faults>>
  /\ UNCHANGED <<way, consumed, failed, made>>

CleanWorker == token # None /\ at = RemoveWorker /\ Remove("worker", RemoveD1)
CleanD1 == token # None /\ at = RemoveD1 /\ Remove("d1", Close)

Residual == Resources \cap account # {}

(* A verdict that goes by the calls alone.                                 *)
VerdictOfCalls == IF failed THEN "BLOCKED_FAILURE" ELSE "PASS"

(* A deletion tried twice at a backend raises, also when the second was    *)
(* another authorization's.                                                *)
Verdict ==
  IF way = "shaped" THEN IF Residual THEN "raised" ELSE "PASS"
  ELSE IF \E r \in Resources : attempts[r] > 1 THEN "raised"
  ELSE IF Residual \/ unclean THEN "BLOCKED_RESIDUAL"
  ELSE IF failed THEN "BLOCKED_FAILURE" ELSE "PASS"

Report ==
  /\ token # None /\ at = Close
  /\ result' = [result EXCEPT ![token] = Verdict]
  /\ token' = None
  /\ UNCHANGED <<way, consumed, at, failed, account, made, attempts, unclean, faults>>

Next == \/ \E t \in Tokens : Begin(t)
        \/ Call \/ Refused \/ Fault \/ CleanWorker \/ CleanD1 \/ Report

Spec == Init /\ [][Next]_vars
-----------------------------------------------------------------------------
(* A run that is about to report has tried to remove every resource it     *)
(* made; what it reports as a PASS or as a failed call has left nothing    *)
(* behind, whichever calls and deletions failed; and nothing is undone by  *)
(* a second run on a consumed authorization, for there is none.            *)
QualificationClean ==
  /\ token # None /\ at = Close => \A r \in made : attempts[r] > 0
  /\ token # None /\ at = Close /\ Verdict \in {"PASS", "BLOCKED_FAILURE"} => ~Residual
  /\ token # None /\ at = Close /\ Verdict = "PASS" => made = Resources /\ ~failed
  /\ \A t \in Tokens : result[t] # None => t \in consumed
=============================================================================
