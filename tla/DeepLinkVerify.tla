--------------------------- MODULE DeepLinkVerify ---------------------------
(***************************************************************************)
(* An eudss://verify link: the single-shot overlay of                      *)
(* DeepLinkVerifyModal.tsx, from the cold start of the application on: the *)
(* sidecar may still be booting, or dead.  Once the document is loaded     *)
(* (LinkOverlay) the overlay asks for the user's consent, has the sidecar  *)
(* validate the document, posts the report to the calling site, and shows  *)
(* it in any case.                                                         *)
(***************************************************************************)
EXTENDS LinkOverlay, Sidecar

VARIABLES
  result,         (* the link whose report is in state, or 0               *)
  callbackFailed,
  validation,     (* per run id, where its runValidate is, for which link  *)
  consent,        (* per link, times the user clicked Validate             *)
  posted          (* per link, reports posted to the calling site          *)

report == <<result, callbackFailed, validation, consent, posted>>
verify == <<sidecar, link, report>>

NoValidation == [at |-> "idle", link |-> 0]

VerifyTypeOK ==
  /\ SidecarTypeOK
  /\ LinkTypeOK
  /\ phase \in {"loading", "starting", "confirm", "validating", "sending", "result", "error"}
  /\ result \in 0..NLinks
  /\ callbackFailed \in BOOLEAN
  /\ validation \in [RunIds -> [at: {"idle", "validate", "post"}, link: 0..NLinks]]
  /\ consent \in [Links -> Nat]
  /\ posted \in [Links -> Nat]

VerifyInit ==
  /\ SidecarInit
  /\ LinkInit
  /\ result = 0
  /\ callbackFailed = FALSE
  /\ validation = [i \in RunIds |-> NoValidation]
  /\ consent = [l \in Links |-> 0]
  /\ posted = [l \in Links |-> 0]
-----------------------------------------------------------------------------
(* A link, or the effect once more, forgets the last report.               *)
Arrives ==
  /\ app = "open"
  /\ (\E parses \in BOOLEAN : Open(parses)) \/ Restart
  /\ result' = 0
  /\ callbackFailed' = FALSE
  /\ UNCHANGED <<sidecar, validation, consent, posted>>

(* The buttons of each block.                                              *)
SpinnerBlock == {}
ConfirmBlock == {"validate", "cancel"}
ResultBlock == {"close"}
ErrorBlock == {"close"}

(* The buttons of the block that is rendered: a phase whose data is not    *)
(* there yet renders none.                                                 *)
Buttons ==
  CASE phase = "confirm" /\ request # 0 /\ doc # 0 -> ConfirmBlock
    [] phase = "result" /\ result # 0 -> ResultBlock
    [] phase = "error" -> ErrorBlock
    [] OTHER -> SpinnerBlock

CloseVerify ==
  /\ app = "open"
  /\ Close(Buttons \cap {"cancel", "close"} # {})
  /\ UNCHANGED <<sidecar, report>>

LoadVerify(i) == app = "open" /\ Load(i, ready) /\ UNCHANGED <<sidecar, report>>

(* runValidate.  The phase changes at the click, and the button goes.      *)
RunValidate ==
  /\ app = "open"
  /\ url # 0 /\ "validate" \in Buttons
  /\ consent' = [consent EXCEPT ![url] = @ + 1]
  /\ validation' = [validation EXCEPT ![runId] = [at |-> "validate", link |-> doc]]
  /\ phase' = "validating"
  /\ UNCHANGED <<sidecar, links, url, request, runId, doc, loader>>
  /\ UNCHANGED <<result, callbackFailed, posted>>

ValidationEnds(i) == validation' = [validation EXCEPT ![i] = NoValidation]

(* No report: the sidecar is not there or failed, or the document is not a *)
(* signature, or it is a detached one.                                     *)
NotValidated(i) ==
  /\ app = "open"
  /\ validation[i].at = "validate"
  /\ ValidationEnds(i)
  /\ Fail(i)
  /\ UNCHANGED <<sidecar, links, url, request, runId, doc, loader>>
  /\ UNCHANGED <<result, callbackFailed, consent, posted>>

(* A report that is shown and posted whatever became of its link.          *)
ValidatedUnguarded(i) ==
  /\ app = "open"
  /\ validation[i].at = "validate"
  /\ process = "serving"
  /\ result' = validation[i].link
  /\ phase' = "sending"
  /\ validation' = [validation EXCEPT ![i].at = "post"]
  /\ posted' = [posted EXCEPT ![validation[i].link] = @ + 1]
  /\ UNCHANGED <<sidecar, links, url, request, runId, doc, loader>>
  /\ UNCHANGED <<callbackFailed, consent>>

(* A report; the post goes out unless the run became stale.                *)
Validated(i) ==
  /\ app = "open"
  /\ validation[i].at = "validate"
  /\ process = "serving"
  /\ \/ /\ i = runId
        /\ result' = validation[i].link
        /\ phase' = "sending"
        /\ validation' = [validation EXCEPT ![i].at = "post"]
        /\ posted' = [posted EXCEPT ![validation[i].link] = @ + 1]
     \/ /\ i # runId
        /\ ValidationEnds(i)
        /\ UNCHANGED <<result, phase, posted>>
  /\ UNCHANGED <<sidecar, links, url, request, runId, doc, loader>>
  /\ UNCHANGED <<callbackFailed, consent>>

(* A failed callback that ends in error, as it does for a signature.       *)
PostedFails(i, ok) ==
  /\ app = "open"
  /\ validation[i].at = "post"
  /\ ValidationEnds(i)
  /\ callbackFailed' = IF i = runId THEN ~ok ELSE callbackFailed
  /\ Shows(i, IF ok THEN "result" ELSE "error")
  /\ UNCHANGED <<sidecar, links, url, request, runId, doc, loader>>
  /\ UNCHANGED <<result, consent, posted>>

(* The calling site answered, or could not be reached: the report is shown *)
(* either way.                                                             *)
Posted(i, ok) ==
  /\ app = "open"
  /\ validation[i].at = "post"
  /\ ValidationEnds(i)
  /\ callbackFailed' = IF i = runId THEN ~ok ELSE callbackFailed
  /\ Shows(i, "result")
  /\ UNCHANGED <<sidecar, links, url, request, runId, doc, loader>>
  /\ UNCHANGED <<result, consent, posted>>
-----------------------------------------------------------------------------
User == Arrives \/ CloseVerify \/ RunValidate

RunStep(i) == NotValidated(i) \/ Validated(i) \/ \E ok \in BOOLEAN : Posted(i, ok)

Host == InitBackend \/ Serve \/ Die \/ Poll \/ Destroy \/ Exit \/ Crash

VerifyNext ==
  \/ User
  \/ \E i \in RunIds : LoadVerify(i) \/ RunStep(i)
  \/ Host /\ UNCHANGED <<link, report>>

(* Timers fire, and a request to a server that is not there is refused.    *)
(* Nothing has a timeout (deepLinkShared.ts, backendApi.ts), so neither the*)
(* sites of the link nor a server that is up owe an answer.                *)
VerifySpec ==
  /\ VerifyInit /\ [][VerifyNext]_verify
  /\ \A i \in RunIds :
       /\ WF_verify(app = "open" /\ LoadLocal(i, ready) /\ UNCHANGED <<sidecar, report>>)
       /\ WF_verify(process # "serving" /\ NotValidated(i))
-----------------------------------------------------------------------------
(* Properties.                                                             *)

Stuck == url # 0 /\ Buttons = {}

(* The document offered for validation and the report shown are the link's *)
(* own, however many links and restarts of the effect came before          *)
(* (DeepLinkVerifyModal.tsx:121-212).                                      *)
ShowsOwn ==
  url # 0 =>
    /\ phase = "confirm" => doc = url
    /\ phase \in {"sending", "result"} => result = url

(* A report leaves the machine only for the link on the screen, and at     *)
(* most once for each consent (DeepLinkVerifyModal.tsx:172-197).           *)
PostsWhatIsShown ==
  [][\A l \in Links : posted'[l] # posted[l] =>
       l = url /\ posted'[l] <= consent[l] /\ phase = "validating"]_verify

(* A validation that succeeded shows its report, although the callback     *)
(* failed (DeepLinkVerifyModal.tsx:192-216).                               *)
ReportSurvivesPost ==
  [][phase = "sending" /\ phase' # "sending" => phase' = "result" \/ runId' # runId]_verify

(* The overlay covers the window, and a spinner, or a phase without its    *)
(* data, has no button.  It comes back to a block that has one, with a     *)
(* sidecar that never comes up or dies under it, its flag still saying     *)
(* ready, unless it is for someone to answer, whom it awaits for ever: a   *)
(* site of the link, or a server that is up (backend.rs:179,               *)
(* DeepLinkVerifyModal.tsx:141-216).                                       *)
AwaitsAnswer ==
  \/ loader[runId].at = "fetch"
  \/ validation[runId].at = "validate" /\ process = "serving"
  \/ validation[runId].at = "post"
VerifySpinnerEnds == Stuck ~> ~Stuck \/ AwaitsAnswer \/ app # "open"

(* No server process outlives an application that exits, whichever of the  *)
(* two events came (lib.rs:60-72).  One that crashes leaves it behind.     *)
NoOrphan == app = "exited" => process \notin {"booting", "serving"}
-----------------------------------------------------------------------------
(* The overlay keeps the promise of LinkPromise, whose variables are what  *)
(* the block on the screen shows.  A closed overlay keeps its state and    *)
(* shows none of it, and a run whose id has passed is nothing at all       *)
(* (DeepLinkVerifyModal.tsx:113-229).                                      *)
Visible(phases) == url # 0 /\ phase \in phases

Promise == INSTANCE LinkPromise WITH
  phase    <- IF url = 0 THEN "closed" ELSE phase,
  document <- IF Visible({"confirm"}) THEN doc ELSE 0,
  report   <- IF Visible({"sending", "result"}) THEN result ELSE 0,
  failed   <- Visible({"result"}) /\ callbackFailed

KeepsLinkPromise == Promise!Spec
=============================================================================
