-------------------------- MODULE ActivationReview --------------------------
(***************************************************************************)
(* The documents of an intraday activation, from the provider's authority  *)
(* to the transaction plan.  Each gate is a function of the documents it   *)
(* is handed: it compares what they name with the values its caller        *)
(* expects and issues a document of its own, which the next gate names by  *)
(* its digest.  A digest is the document itself here, and a caller may     *)
(* expect any value there is: an older main, another secret.               *)
(*                                                                         *)
(* The gates stand in the order their next_gate fields give; whoever runs  *)
(* them may go back and issue documents anew, and others push to main.     *)
(* A gate runs in a checkout of the commit it is told, so the preimages it *)
(* hashes are that commit's.                                               *)
(***************************************************************************)
EXTENDS Naturals, Sequences, FiniteSets

CONSTANTS MaxMain,    \* bound: commits on main after the first
          Touching,   \* the commits that change a file the activation replaces
          Secrets,    \* credential names
          Endpoints,  \* endpoint templates of the provider
          Licenses,   \* bases on which a provider is accepted
          MaxRounds,  \* bound: times the gates are gone through again
          None

ReviewConstants == /\ MaxMain \in Nat
                   /\ Touching \subseteq 1 .. MaxMain
                   /\ MaxRounds \in Nat

Mains == 0 .. MaxMain
Cadences == {"0930", "1200"}

VARIABLES main,   \* the newest commit on main
          desk,   \* the newest document of each gate
          at,     \* the gate whose turn it is
          rounds  \* how often the gates were gone through again

ReviewLine == <<"authority", "liveReady", "liveAuth", "liveRun", "review", "accepted", "ready", "delta",
                "synthetic", "bound", "applyReady", "applyAuth", "plan">>

(* The files of a commit, as far as the activation replaces them.          *)
FilesOf(m) == Cardinality({t \in Touching : t <= m})

(* A candidate: the rewritten files, which carry endpoint and secret.      *)
Candidate(m, endpoint, secret) == [over |-> FilesOf(m), endpoint |-> endpoint, secret |-> secret]

Seen == 0 .. main

Issue(kind, document) == /\ desk' = [desk EXCEPT ![kind] = document]
                         /\ at' = at + 1
                         /\ UNCHANGED <<main, rounds>>
-----------------------------------------------------------------------------
(* The manifest the provider presents against the binding expected of it;  *)
(* identity, service, secret and validity agree or nothing is issued.      *)
QualifyProviderAuthority(manifest, expected) == manifest = expected

(* The binding the evidence intake expects is hashed from the caller's     *)
(* words, so it may be for another secret than the manifest's.             *)
Authority ==
  \E manifest, expected \in Secrets :
    /\ QualifyProviderAuthority(manifest, expected)
    /\ Issue("authority", [secret |-> manifest])

(* Readiness names no authority: it compares the authority's binding with  *)
(* the intake's and issues the commit alone.                               *)
LiveReady ==
  \E m \in Seen, intake \in Secrets :
    /\ desk["authority"].secret = intake
    /\ Issue("liveReady", [main |-> m])

LiveAuth ==
  \E m \in Seen, c \in Cadences :
    /\ desk["liveReady"].main = m
    /\ Issue("liveAuth", [main |-> m, cadence |-> c])

(* The result of the one run its authorization allows.                     *)
LiveRun == Issue("liveRun", [main |-> desk["liveAuth"].main, cadence |-> desk["liveAuth"].cadence])

(* The review package repeats the result's provider, date and cadence or   *)
(* is refused; the source commit it names is the caller's word and is not  *)
(* looked at again.                                                        *)
ReviewPackage(c, result) == result.cadence = c

LiveReview ==
  \E c \in Cadences :
    /\ ReviewPackage(c, desk["liveRun"])
    /\ Issue("review", [cadence |-> c])

(* The decision holds whole copies of the live review and the authority,   *)
(* and a commit, a license and a secret of the caller's; the acceptance    *)
(* that validates it issues the decision, the commit and the license.      *)
DecisionOn(m, license, secret) ==
  [main |-> m, license |-> license, secret |-> secret, review |-> desk["review"], authority |-> desk["authority"]]

Accept ==
  \E m \in Seen, license \in Licenses, secret \in Secrets :
    LET decision == DecisionOn(m, license, secret)
    IN Issue("accepted", [main |-> decision.main, license |-> decision.license, decision |-> decision])

(* Permit and readiness are for one commit, and the secret of the          *)
(* readiness is the one the authority names.                               *)
ValidatePermit(permit, m) == permit.main = m

Ready ==
  \E m, permitted \in Seen, secret \in Secrets :
    /\ ValidatePermit([main |-> permitted], m)
    /\ secret = desk["authority"].secret
    /\ Issue("ready", [main |-> m, files |-> FilesOf(m), binding |-> desk["authority"]])
-----------------------------------------------------------------------------
(* A plan that takes a provider acceptance for any commit.                 *)
DeltaAnyAcceptance ==
  \E m \in Seen, endpoint \in Endpoints, secret \in Secrets :
    /\ desk["ready"].main = m
    /\ desk["ready"].files = FilesOf(m)
    /\ Issue("delta", [main |-> m, license |-> desk["accepted"].license, endpoint |-> endpoint,
                       secret |-> secret, files |-> FilesOf(m), accepted |-> desk["accepted"].main])

(* Endpoint and secret of the delta plan are the caller's.                 *)
Delta ==
  \E m \in Seen, endpoint \in Endpoints, secret \in Secrets :
    /\ desk["ready"].main = m
    /\ desk["ready"].files = FilesOf(m)
    /\ desk["accepted"].main = m
    /\ Issue("delta", [main |-> m, license |-> desk["accepted"].license, endpoint |-> endpoint,
                       secret |-> secret, files |-> FilesOf(m), accepted |-> desk["accepted"].main])

(* The candidate is rendered from the files on disk and the delta plan.    *)
Scaffold(plan, m) == Candidate(m, plan.endpoint, plan.secret)

(* Static review: the candidate's registries carry the plan's endpoint.    *)
StaticReview(plan, files) == files.endpoint = plan.endpoint

(* Syntax review: its code and workflows name the expected secret alone.   *)
SyntaxReview(files, secret) == files.secret = secret

(* The runtime and the acquisition tool, run against a fake transport.     *)
RuntimeReview(files, runtime, secret) == SyntaxReview(files, secret) /\ runtime = files
AcquisitionReview(files, acquisition, secret) == SyntaxReview(files, secret) /\ acquisition = files

(* The candidate is written to an empty workspace and read back.           *)
Materialize(files, manifest) == manifest = files
ReviewWorkspace(plan, files, manifest, secret) ==
  /\ manifest = files
  /\ StaticReview(plan, files)
  /\ RuntimeReview(files, files, secret)

(* One run of every synthetic review over one candidate.                   *)
Synthetic ==
  \E m \in Seen, endpoint \in Endpoints, secret \in Secrets, c \in Cadences :
    LET plan == desk["delta"]
        candidate == Scaffold(plan, m)
    IN /\ plan.main = m /\ plan.endpoint = endpoint /\ plan.secret = secret
       /\ plan.files = FilesOf(m)
       /\ StaticReview(plan, candidate)
       /\ RuntimeReview(candidate, candidate, secret)
       /\ AcquisitionReview(candidate, candidate, secret)
       /\ Materialize(candidate, candidate)
       /\ ReviewWorkspace(plan, candidate, candidate, secret)
       /\ Issue("synthetic", [main |-> m, manifest |-> candidate, cadence |-> c, plan |-> plan])

(* The live review joins the candidate by its cadence, the acceptance by   *)
(* its license: neither is compared with the other.                        *)
Bind ==
  \E license \in Licenses :
    /\ desk["synthetic"].cadence = desk["review"].cadence
    /\ desk["accepted"].license = license
    /\ Issue("bound", [main |-> desk["synthetic"].main, manifest |-> desk["synthetic"].manifest,
                       license |-> license, cadence |-> desk["review"].cadence,
                       synthetic |-> desk["synthetic"], review |-> desk["review"],
                       accepted |-> desk["accepted"]])
-----------------------------------------------------------------------------
(* Readiness that takes whatever synthetic review there is.                *)
ApplyReadyStaleReview ==
  \E m \in Seen, endpoint \in Endpoints, secret \in Secrets, license \in Licenses :
    LET plan == desk["delta"]  synthetic == desk["synthetic"] IN
    /\ desk["bound"].license = license
    /\ plan.main = m /\ plan.license = license /\ plan.endpoint = endpoint /\ plan.secret = secret
    /\ plan.files = FilesOf(m)
    /\ Issue("applyReady", [main |-> m, manifest |-> synthetic.manifest, license |-> license,
                            bound |-> desk["bound"], plan |-> plan, synthetic |-> synthetic])

(* Historical live evidence meets the delta plan and the synthetic review  *)
(* made again for the current main.  The review is compared by commit and  *)
(* manifest, never with the delta plan, and no document names the endpoint *)
(* or the secret of the historical chain.                                  *)
ApplyReady ==
  \E m \in Seen, endpoint \in Endpoints, secret \in Secrets, license \in Licenses :
    LET plan == desk["delta"]  synthetic == desk["synthetic"] IN
    /\ desk["bound"].license = license
    /\ plan.main = m /\ plan.license = license /\ plan.endpoint = endpoint /\ plan.secret = secret
    /\ plan.files = FilesOf(m)
    /\ synthetic.main = m
    /\ Issue("applyReady", [main |-> m, manifest |-> synthetic.manifest, license |-> license,
                            bound |-> desk["bound"], plan |-> plan, synthetic |-> synthetic])

ApplyAuth ==
  \E m \in Seen :
    LET ready == desk["applyReady"] IN
    /\ ready.main = m
    /\ Issue("applyAuth", [main |-> m, manifest |-> ready.manifest, ready |-> ready])

(* The candidate handed in has the authorized manifest, or there is no     *)
(* plan; the preimages are those of the checkout.                          *)
Plan ==
  \E m \in Seen :
    /\ desk["applyAuth"].main = m
    /\ Issue("plan", [main |-> m, manifest |-> desk["applyAuth"].manifest, auth |-> desk["applyAuth"],
                       files |-> FilesOf(m)])
=============================================================================
