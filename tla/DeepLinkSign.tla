---------------------------- MODULE DeepLinkSign ----------------------------
(***************************************************************************)
(* An eudss://sign link: the single-shot overlay of DeepLinkSignModal.tsx  *)
(* over the agent context and the signing core.  Once the document is      *)
(* loaded (LinkOverlay) it asks for the user's consent, signs, and posts   *)
(* the result to the calling site.                                         *)
(***************************************************************************)
EXTENDS AgentContext, LinkOverlay

CONSTANT MaxConsents  (* bound: per link, the clicks on Sign               *)

ASSUME ConsentsAssumption == MaxConsents \in [Links -> Nat]

VARIABLES
  onboarded, (* the shell is mounted, with the PIN modal; else the wizard   *)
  ready,     (* backendApi.ready answers true                              *)
  fallback,  (* the link whose signed document is offered, or 0            *)
  sign,      (* per flow, where its runSign is, what it closed over        *)
  consent,   (* per link, times the user clicked Sign for it               *)
  made       (* per link, signatures the card made for it                  *)

overlay  == <<onboarded, ready, link, fallback, sign, consent, made>>
deepLink == <<vars, context, overlay>>

NoSign == [at |-> "idle", id |-> 0, link |-> 0, cert |-> NoCard]

DeepLinkTypeOK ==
  /\ TypeOK
  /\ ContextTypeOK
  /\ LinkTypeOK
  /\ phase \in {"loading", "starting", "confirm", "signing", "sending", "success", "error"}
  /\ onboarded \in BOOLEAN
  /\ ready \in BOOLEAN
  /\ fallback \in 0..NLinks
  /\ sign \in [Flows -> [at: {"idle", "unlock", "prepare", "sign", "assemble", "post"},
                         id: RunIds, link: 0..NLinks, cert: Cards \cup {NoCard}]]
  /\ consent \in [Links -> Nat]
  /\ \A l \in Links : consent[l] <= MaxConsents[l]
  /\ made \in [Links -> Nat]

DeepLinkInit ==
  /\ Init
  /\ ContextInit
  /\ LinkInit
  /\ onboarded \in BOOLEAN
  /\ ready \in BOOLEAN
  /\ fallback = 0
  /\ sign = [f \in Flows |-> NoSign]
  /\ consent = [l \in Links |-> 0]
  /\ made = [l \in Links |-> 0]

BackendUp ==
  /\ ~ready
  /\ ready' = TRUE
  /\ UNCHANGED <<vars, context, onboarded, link, fallback, sign, consent, made>>

(* The wizard is completed or relaunched.  The overlays are mounted beside *)
(* both, the PIN modal in the shell only.                                  *)
SwitchGate ==
  /\ onboarded' = ~onboarded
  /\ UNCHANGED <<vars, context, ready, link, fallback, sign, consent, made>>

(* A link, or the effect once more, forgets the last signed document.      *)
Arrives ==
  /\ (\E parses \in BOOLEAN : Open(parses)) \/ Restart
  /\ fallback' = 0
  /\ UNCHANGED <<vars, context, onboarded, ready, sign, consent, made>>

(* The buttons of each block.  The signed document of a failed callback is *)
(* offered for download.                                                   *)
SpinnerBlock == {}
ConfirmBlock == {"sign", "cancel"}
SuccessBlock == {"close"}
ErrorBlock == {"close"} \cup IF fallback # 0 THEN {"download"} ELSE {}

(* The buttons of the block that is rendered: a phase whose data is not    *)
(* there yet renders none.                                                 *)
Buttons ==
  CASE phase = "confirm" /\ request # 0 /\ doc # 0 -> ConfirmBlock
    [] phase = "success" /\ request # 0 -> SuccessBlock
    [] phase = "error" -> ErrorBlock
    [] OTHER -> SpinnerBlock

CloseSign ==
  /\ Close(Buttons \cap {"cancel", "close"} # {})
  /\ UNCHANGED <<vars, context, onboarded, ready, fallback, sign, consent, made>>

LoadSign(i) ==
  /\ Load(i, ready)
  /\ UNCHANGED <<vars, context, onboarded, ready, fallback, sign, consent, made>>
-----------------------------------------------------------------------------
(* runSign.                                                                *)

SignEnds(f) == sign' = [sign EXCEPT ![f] = NoSign]
SignAt(f, at) == sign' = [sign EXCEPT ![f].at = at]

(* A consent that starts to spin before the PIN is asked for.              *)
ConfirmSpins(f) ==
  /\ url # 0 /\ "sign" \in Buttons
  /\ sign[f] = NoSign
  /\ consent[url] < MaxConsents[url]
  /\ EnsureUnlocked(f)
  /\ sign' = [sign EXCEPT ![f] = [NoSign EXCEPT !.at = "unlock", !.id = runId, !.link = doc]]
  /\ consent' = [consent EXCEPT ![url] = @ + 1]
  /\ phase' = "signing"
  /\ UNCHANGED <<vars, available, certificates, pinOpen, pad, pinResolver, probe, given>>
  /\ UNCHANGED <<onboarded, ready, links, url, request, runId, doc, loader, fallback, made>>

(* The consent.  The block stays until ensureUnlocked has resolved.        *)
Confirm(f) ==
  /\ url # 0 /\ "sign" \in Buttons
  /\ sign[f] = NoSign
  /\ consent[url] < MaxConsents[url]
  /\ EnsureUnlocked(f)
  /\ sign' = [sign EXCEPT ![f] = [NoSign EXCEPT !.at = "unlock", !.id = runId, !.link = doc]]
  /\ consent' = [consent EXCEPT ![url] = @ + 1]
  /\ UNCHANGED <<vars, available, certificates, pinOpen, pad, pinResolver, probe, given>>
  /\ UNCHANGED <<onboarded, ready, link, fallback, made>>

(* The selected key's certificate, in the list of the card or else in that *)
(* of the click; with none selected, the first of the card.                *)
Chosen(f) ==
  IF cached[f] = NoCard \/ (given[f] # NoCard /\ KeyIdOf[given[f]] = KeyIdOf[cached[f]])
    THEN given[f] ELSE cached[f]

(* A run that goes on whatever became of its link while the PIN was asked. *)
SignUnlockedUnguarded(f) ==
  /\ sign[f].at = "unlock"
  /\ Settled(f)
  /\ Moves(f, "idle")
  /\ IF ensure[f] = "ready" /\ Chosen(f) # NoCard
       THEN /\ sign' = [sign EXCEPT ![f].at = "prepare", ![f].cert = Chosen(f)]
            /\ phase' = "signing"
       ELSE SignEnds(f) /\ UNCHANGED phase
  /\ UNCHANGED <<vars, available, certificates, pinOpen, pad, pinResolver, probe,
                 cached, given>>
  /\ UNCHANGED <<onboarded, ready, links, url, request, runId, doc, loader, fallback, consent, made>>

(* ensureUnlocked has settled.  A run that became stale stops here, and one*)
(* whose prompt was cancelled; one without a certificate fails.            *)
SignUnlocked(f) ==
  /\ sign[f].at = "unlock"
  /\ Settled(f)
  /\ Moves(f, "idle")
  /\ IF ensure[f] = "ready" /\ Chosen(f) # NoCard /\ sign[f].id = runId
       THEN /\ sign' = [sign EXCEPT ![f].at = "prepare", ![f].cert = Chosen(f)]
            /\ phase' = "signing"
       ELSE /\ SignEnds(f)
            /\ IF ensure[f] = "ready" /\ Chosen(f) = NoCard
                 THEN Fail(sign[f].id) ELSE UNCHANGED phase
  /\ UNCHANGED <<vars, available, certificates, pinOpen, pad, pinResolver, probe,
                 cached, given>>
  /\ UNCHANGED <<onboarded, ready, links, url, request, runId, doc, loader, fallback, consent, made>>

SignPrepared(f, ok) ==
  /\ sign[f].at = "prepare"
  /\ IF ok THEN SignAt(f, "sign") /\ UNCHANGED phase
           ELSE SignEnds(f) /\ Fail(sign[f].id)
  /\ UNCHANGED <<vars, context, onboarded, ready, links, url, request, runId, doc, loader,
                 fallback, consent, made>>

(* agentApi.signDigest is run by the shell.                                *)
RunSign(f) ==
  /\ sign[f].at = "sign"
  /\ Sent(f)
  /\ \/ SignBegin(f, KeyIdOf[sign[f].cert])
     \/ SignRefused(f, TRUE)
     \/ OpenFails(f, "sign")
  /\ UNCHANGED <<context, overlay>>

SignAnswered(f) ==
  /\ sign[f].at = "sign"
  /\ Answered(f, "sign")
  /\ Take(f)
  /\ IF reply[f].code = "ok"
       THEN /\ SignAt(f, "assemble")
            /\ made' = [made EXCEPT ![sign[f].link] = @ + 1]
            /\ UNCHANGED phase
       ELSE /\ SignEnds(f)
            /\ Fail(sign[f].id)
            /\ UNCHANGED made
  /\ UNCHANGED <<context, onboarded, ready, links, url, request, runId, doc, loader, fallback, consent>>

(* A run that has the card sign once more when the assembly fails.         *)
SignAssembledRetries(f, ok) ==
  /\ sign[f].at = "assemble"
  /\ IF ok /\ sign[f].id = runId
       THEN SignAt(f, "post") /\ phase' = "sending"
       ELSE (IF ok THEN SignEnds(f) ELSE SignAt(f, "sign")) /\ UNCHANGED phase
  /\ UNCHANGED <<vars, context, onboarded, ready, links, url, request, runId, doc, loader,
                 fallback, consent, made>>

SignAssembled(f, ok) ==
  /\ sign[f].at = "assemble"
  /\ IF ok /\ sign[f].id = runId
       THEN SignAt(f, "post") /\ phase' = "sending"
       ELSE SignEnds(f) /\ (IF ok THEN UNCHANGED phase ELSE Fail(sign[f].id))
  /\ UNCHANGED <<vars, context, onboarded, ready, links, url, request, runId, doc, loader,
                 fallback, consent, made>>

(* A failed callback that leaves nothing to download.                      *)
PostedLosesDocument(f, ok) ==
  /\ sign[f].at = "post"
  /\ SignEnds(f)
  /\ Shows(sign[f].id, IF ok THEN "success" ELSE "error")
  /\ UNCHANGED <<vars, context, onboarded, ready, links, url, request, runId, doc, loader,
                 fallback, consent, made>>

(* A post whose end is shown whatever is on the screen by then.            *)
PostedUnguarded(f, ok) ==
  /\ sign[f].at = "post"
  /\ SignEnds(f)
  /\ phase' = IF ok THEN "success" ELSE "error"
  /\ fallback' = IF ok THEN fallback ELSE sign[f].link
  /\ UNCHANGED <<vars, context, onboarded, ready, links, url, request, runId, doc, loader, consent, made>>

(* The calling site answered, or could not be reached.                     *)
(* A failed callback offers the signed document; setSignedFallback is not  *)
(* guarded by the run id.                                                  *)
Posted(f, ok) ==
  /\ sign[f].at = "post"
  /\ SignEnds(f)
  /\ Shows(sign[f].id, IF ok THEN "success" ELSE "error")
  /\ fallback' = IF ok THEN fallback ELSE sign[f].link
  /\ UNCHANGED <<vars, context, onboarded, ready, links, url, request, runId, doc, loader, consent, made>>
-----------------------------------------------------------------------------
Quiet == \A f \in Flows : ~Settled(f)

User == Arrives \/ CloseSign \/ \E f \in Flows : Confirm(f)

SignStep(f) ==
  \/ \E ok \in BOOLEAN : SignPrepared(f, ok) \/ SignAssembled(f, ok) \/ Posted(f, ok)
  \/ SignAnswered(f)

CardAnswers == TokenAnswers /\ UNCHANGED <<context, overlay>>

DeepLinkNext ==
  \/ \E f \in Flows : SignUnlocked(f)
  \/ /\ Quiet
     /\ \/ User
        \/ BackendUp \/ SwitchGate
        \/ onboarded /\ PinModal /\ UNCHANGED overlay
        \/ \E i \in RunIds : LoadSign(i)
        \/ \E f \in Flows : SignStep(f) \/ RunSign(f)
        \/ ContextEvent /\ UNCHANGED overlay
        \/ World /\ UNCHANGED <<context, overlay>>
        \/ CardAnswers

DeepLinkSpec == DeepLinkInit /\ [][DeepLinkNext]_deepLink
-----------------------------------------------------------------------------
(* Properties.                                                             *)

(* One click per link at most, and the language is left alone: DeepLinkSign*)
(* allows more, which breaks what is said of this case (SingleShot).       *)
Undisturbed == Restarts = 0 /\ \A l \in Links : consent[l] <= 1

(* Undisturbed, the card is asked to sign only for the link on the screen, *)
(* confirmed and not cancelled since, whatever was opened and closed while *)
(* the PIN was awaited (DeepLinkSignModal.tsx:156-180).                    *)
SignsWhatIsShown ==
  [][\A f \in Flows :
       call'.op = "sign" /\ call.op # "sign" /\ call'.who = f /\ Undisturbed =>
         sign[f].link = url /\ sign[f].id = runId /\ consent[url] > 0]_deepLink

(* The card makes no signature for a link without a click of its own,      *)
(* whatever fails or is abandoned on the way and however many runs there   *)
(* are (DeepLinkSignModal.tsx:156-222).                                    *)
OneSignaturePerConsent == \A l \in Links : made[l] <= consent[l]

(* Undisturbed, a signed document always reaches someone: when the post    *)
(* ends, the overlay reports success or offers that document for download  *)
(* (DeepLinkSignModal.tsx:200-222).                                        *)
SignedReachesUser ==
  [][\A f \in Flows :
       sign[f].at = "post" /\ sign'[f].at = "idle" /\ Undisturbed =>
         \/ phase' = "success"
         \/ phase' = "error" /\ fallback' = sign[f].link]_deepLink

(* What an overlay asks consent for is its own link's document, and what it*)
(* says is sent or delivered is a signature made for its own link, although*)
(* loads, runs and posts of links that were cancelled, restarted or        *)
(* confirmed twice end under it (DeepLinkSignModal.tsx:94-150,196-216).    *)
(* The document offered after a failed callback is not covered: Posted     *)
(* offers the last one, whichever link it is of.                           *)
OverlayIsOwn ==
  url # 0 => /\ phase = "confirm" => doc = url
             /\ phase \in {"sending", "success"} => made[url] > 0

(* A run of the link on the screen that is past its PIN gate.              *)
Works(f) == sign[f].id = runId /\ sign[f].at \notin {"idle", "unlock"}

(* Whoever waits for a PIN for the link on the screen can leave: the modal *)
(* is there to answer, or the overlay has a button, or it waits for another*)
(* run of the link to end, also while the wizard is shown, where no modal  *)
(* is mounted (App.tsx:335, DeepLinkSignModal.tsx:160-176).                *)
WaiterCanLeave ==
  \A f \in Flows : ensure[f] = "pin" /\ url # 0 /\ sign[f].id = runId =>
    \/ Buttons \cap {"cancel", "close"} # {}
    \/ pinOpen /\ onboarded
    \/ \E g \in Flows : Works(g)

(* The overlay covers the window, and a spinner, or a phase without its    *)
(* data, has no button.  There is always work of the shown link behind it: *)
(* no failure, cancelled prompt, stale load or second run leaves it with   *)
(* nothing to end it (DeepLinkSignModal.tsx:98-222).  The work itself may  *)
(* last for ever: a site of the link has no time to answer in.             *)
Stuck == url # 0 /\ Buttons = {}
SpinnerHasWork == Stuck => loader[runId].at # "idle" \/ \E f \in Flows : Works(f)

(* DeepLinkSignModal.tsx:13: the overlay is single-shot; one link yields   *)
(* at most one signature.                                                  *)
SingleShot == \A l \in Links : made[l] <= 1
=============================================================================
