--------------------------- MODULE FirstRunWizard ---------------------------
(***************************************************************************)
(* The first-run wizard (FirstRunWizard.tsx, selfTest.ts) over the signing *)
(* core, and what brings it up: the flag in the local storage (store.ts),  *)
(* the root of App.tsx and the prerequisites screen with its button that   *)
(* starts the wizard again.  The wizard unlocks the card itself, beside    *)
(* the agent context, and signs a throw-away document.  A test outlives    *)
(* the wizard the user skipped.                                            *)
(***************************************************************************)
EXTENDS Prerequisites

CONSTANTS
  Tests,     (* bound: the tests that can be in progress at once, counting *)
             (* those of wizards that are gone                             *)
  storage    (* localStorage works                                         *)

ASSUME TestsAssumption == Tests \subseteq Clients \ Detectors /\ storage \in BOOLEAN

VARIABLES
  stored,    (* the `passed` that is stored                                *)
  onboarded, (* the state of App: the shell is shown, else the wizard      *)
  tab,       (* the shell's tab: "prerequis", or "other"                   *)
  step, busy, locked,
  pin,       (* PIN_MIN digits or more are typed                           *)
  certCn,    (* the card whose certificate is named, or NoCard             *)
  result,    (* the self-test's, and the card that signed in it            *)
  test       (* per test, its await                                        *)

gate   == <<stored, onboarded, tab>>
pane   == <<step, busy, locked, pin, certCn, result>>
wizard == <<gate, pane, test>>
all    == <<vars, ready, detecting, wizard>>

NoResult == [ok |-> "none", by |-> NoCard]

(* tried: unlocks the test has sent, kept for the properties; left: the    *)
(* wizard that started it is gone.                                         *)
NoTest == [at |-> "idle", cert |-> NoCard, by |-> NoCard, tried |-> 0, left |-> FALSE]

WizardTypeOK ==
  /\ TypeOK
  /\ RowsTypeOK
  /\ stored \in BOOLEAN /\ onboarded \in BOOLEAN
  /\ tab \in {"prerequis", "other"}
  /\ step \in {"prereq", "pin", "verifying", "done"}
  /\ busy \in BOOLEAN /\ locked \in BOOLEAN /\ pin \in BOOLEAN
  /\ certCn \in Cards \cup {NoCard}
  /\ result \in [ok: {"none", "yes", "no"}, by: Cards \cup {NoCard}]
  /\ test \in [Tests -> [at: {"idle", "unlock", "list", "prepare", "sign", "assemble",
                              "validate"},
                         cert: Cards \cup {NoCard}, by: Cards \cup {NoCard},
                         tried: 0..1, left: BOOLEAN]]

(* The wizard's state as it mounts; kept so while the shell is shown.      *)
WizardInit ==
  /\ Init
  /\ ready = FALSE
  /\ stored \in BOOLEAN
  /\ stored => storage
  /\ onboarded = stored
  /\ tab = "other"
  /\ step = "prereq"
  /\ busy = FALSE /\ locked = FALSE /\ pin = FALSE
  /\ certCn = NoCard
  /\ result = NoResult
  /\ test = [f \in Tests |-> NoTest]
  /\ rows = Checking
  /\ \E d \in Detectors :
       detection = [e \in Detectors |-> IF e = d /\ ~onboarded THEN "asked" ELSE "idle"]

FreshPane ==
  /\ step' = "prereq"
  /\ busy' = FALSE /\ locked' = FALSE /\ pin' = FALSE
  /\ certCn' = NoCard
  /\ result' = NoResult
-----------------------------------------------------------------------------
(* What each view offers: the buttons that are shown and enabled, and the  *)
(* keys of the pad and the keyboard.                                       *)

PrereqView ==
  {"skip"} \cup (IF rows.token = "ok" THEN {"continue"} ELSE {})
           \cup (IF AnyMissing THEN {"detect"} ELSE {})

PinView ==
  {"skip"} \cup (IF busy \/ locked THEN {} ELSE {"key"} \cup (IF pin THEN {"test"} ELSE {}))

VerifyingView == IF result.ok = "no" THEN {"retry", "skip"} ELSE {}

DoneView == {"enter"}

PrerequisitesView == {"wizard"} \cup (IF AllOk THEN {"sign"} ELSE {})
                                \cup (IF AnyMissing THEN {"detect"} ELSE {})

Buttons ==
  IF onboarded THEN IF tab = "prerequis" THEN PrerequisitesView ELSE {}
  ELSE [prereq |-> PrereqView, pin |-> PinView, verifying |-> VerifyingView,
        done |-> DoneView][step]
-----------------------------------------------------------------------------
(* The gate.                                                               *)

(* store.set, which swallows the error of a storage that does not work.    *)
Store(passed) == stored' = (storage /\ passed)

EnterApp ==
  /\ onboarded' = TRUE
  /\ FreshPane
  /\ UnmountRows
  /\ test' = [f \in Tests |-> IF test[f] = NoTest THEN NoTest ELSE [test[f] EXCEPT !.left = TRUE]]
  /\ UNCHANGED <<vars, ready, tab>>

(* A skip that is good for this time only.                                 *)
SkipOnce ==
  /\ "skip" \in Buttons
  /\ EnterApp
  /\ UNCHANGED stored

(* "Configurer plus tard", in every view but the spinner and the last one. *)
Skip ==
  /\ "skip" \in Buttons
  /\ Store(TRUE)
  /\ EnterApp

Enter ==
  /\ "enter" \in Buttons
  /\ Store(TRUE)
  /\ EnterApp

(* The prerequisites screen comes and goes with its tab; its own button to *)
(* the signing tab is one way to leave it.                                 *)
OpenPrerequisites(d) ==
  /\ onboarded
  /\ tab = "other"
  /\ tab' = "prerequis"
  /\ MountRows(d)
  /\ UNCHANGED <<vars, ready, stored, onboarded, pane, test>>

LeavePrerequisites ==
  /\ onboarded
  /\ tab = "prerequis"
  /\ tab' = "other"
  /\ UnmountRows
  /\ UNCHANGED <<vars, ready, stored, onboarded, pane, test>>

RelaunchWizard(d) ==
  /\ "wizard" \in Buttons
  /\ Store(FALSE)
  /\ onboarded' = FALSE
  /\ tab' = "other"
  /\ MountRows(d)
  /\ UNCHANGED <<vars, ready, pane, test>>

(* The application ends in whatever it was doing, and starts again.        *)
Restart(d) ==
  /\ ProcessEnds
  /\ ready' = FALSE
  /\ onboarded' = stored
  /\ tab' = "other"
  /\ FreshPane
  /\ test' = [f \in Tests |-> NoTest]
  /\ rows' = Checking
  /\ detection' = [e \in Detectors |-> IF e = d /\ ~stored THEN "asked" ELSE "idle"]
  /\ UNCHANGED stored
-----------------------------------------------------------------------------
(* The steps of the wizard.                                                *)

(* The rows are not looked at again.                                       *)
Continue ==
  /\ "continue" \in Buttons
  /\ step' = "pin"
  /\ UnmountRows
  /\ UNCHANGED <<vars, ready, gate, busy, locked, pin, certCn, result, test>>

(* Keys pressed, on the pad or on the keyboard.                            *)
Press ==
  /\ "key" \in Buttons
  /\ pin' = ~pin
  /\ UNCHANGED <<vars, ready, detecting, gate, step, busy, locked, certCn, result, test>>

Test(f) ==
  /\ "test" \in Buttons
  /\ test[f] = NoTest
  /\ busy' = TRUE
  /\ test' = [test EXCEPT ![f].at = "unlock"]
  /\ UNCHANGED <<vars, ready, detecting, gate, step, locked, pin, certCn, result>>

(* The commands of a test, run by the shell.                               *)
RunTest(f) ==
  /\ Sent(f)
  /\ \/ /\ test[f].at = "unlock"
        /\ UnlockBegin(f) \/ OpenFails(f, "unlock")
        /\ test' = [test EXCEPT ![f].tried = @ + 1]
     \/ /\ test[f].at = "list"
        /\ List(f, "list") \/ OpenFails(f, "list")
        /\ UNCHANGED test
     \/ /\ test[f].at = "sign"
        /\ \/ SignBegin(f, KeyIdOf[test[f].cert])
           \/ SignRefused(f, TRUE)
           \/ OpenFails(f, "sign")
        /\ UNCHANGED test
  /\ UNCHANGED <<ready, detecting, gate, pane>>

(* What a test sets, if its wizard is still there.                         *)
Sets(f, var, value) == IF test[f].left THEN var ELSE value

At(f, at) == test' = [test EXCEPT ![f].at = at]
Ends(f)   == test' = [test EXCEPT ![f] = NoTest] /\ busy' = Sets(f, busy, FALSE)

(* The catch: the error clears the PIN, and a blocked card the pad.        *)
Refused(f, code) ==
  /\ Ends(f)
  /\ locked' = Sets(f, locked, locked \/ code = "pin_locked")
  /\ pin' = Sets(f, pin, FALSE)
  /\ UNCHANGED <<step, certCn, result>>

(* A test that tries the PIN again when the card was away.                 *)
TestUnlockedRetries(f) ==
  /\ test[f].at = "unlock"
  /\ Answered(f, "unlock")
  /\ Take(f)
  /\ IF reply[f].code \in {"ok", "token_unavailable"}
       THEN At(f, IF reply[f].code = "ok" THEN "list" ELSE "unlock") /\ UNCHANGED pane
       ELSE Refused(f, reply[f].code)
  /\ UNCHANGED <<ready, detecting, gate>>

TestUnlocked(f) ==
  /\ test[f].at = "unlock"
  /\ Answered(f, "unlock")
  /\ Take(f)
  /\ IF reply[f].code = "ok"
       THEN At(f, "list") /\ UNCHANGED pane
       ELSE Refused(f, reply[f].code)
  /\ UNCHANGED <<ready, detecting, gate>>

(* The spinner comes up; a card without a certificate is refused.          *)
TestListed(f) ==
  /\ test[f].at = "list"
  /\ Answered(f, "list")
  /\ Take(f)
  /\ \/ /\ reply[f].code = "ok"
        /\ test' = [test EXCEPT ![f].at = "prepare", ![f].cert = reply[f].card]
        /\ certCn' = Sets(f, certCn, reply[f].card)
        /\ step' = Sets(f, step, "verifying")
        /\ UNCHANGED <<busy, locked, pin, result>>
     \/ Refused(f, IF reply[f].code = "ok" THEN "no_certificate" ELSE reply[f].code)
  /\ UNCHANGED <<ready, detecting, gate>>
-----------------------------------------------------------------------------
(* runSelfTest.                                                            *)

(* The self-test returns.                                                  *)
Returns(f, ok) ==
  /\ Ends(f)
  /\ result' = Sets(f, result, [ok |-> IF ok THEN "yes" ELSE "no", by |-> test[f].by])
  /\ step' = Sets(f, step, IF ok THEN "done" ELSE step)
  /\ UNCHANGED <<locked, pin, certCn>>

(* A self-test that passes its error on to the caller's catch.             *)
FailsByThrowing(f) == Refused(f, "none")

(* Its own catch.                                                          *)
Fails(f) == Returns(f, FALSE)

TestPrepared(f, ok) ==
  /\ test[f].at = "prepare"
  /\ IF ok THEN At(f, "sign") /\ UNCHANGED pane ELSE Fails(f)
  /\ UNCHANGED <<vars, ready, detecting, gate>>

TestSigned(f) ==
  /\ test[f].at = "sign"
  /\ Answered(f, "sign")
  /\ Take(f)
  /\ IF reply[f].code = "ok"
       THEN /\ test' = [test EXCEPT ![f].at = "assemble", ![f].by = reply[f].card]
            /\ UNCHANGED pane
       ELSE Fails(f)
  /\ UNCHANGED <<ready, detecting, gate>>

TestAssembled(f, ok) ==
  /\ test[f].at = "assemble"
  /\ IF ok THEN At(f, "validate") /\ UNCHANGED pane ELSE Fails(f)
  /\ UNCHANGED <<vars, ready, detecting, gate>>

(* The report counts a signature or not; its indication decides nothing.   *)
TestValidated(f, ok) ==
  /\ test[f].at = "validate"
  /\ IF ok THEN \E counted \in BOOLEAN : Returns(f, counted) ELSE Fails(f)
  /\ UNCHANGED <<vars, ready, detecting, gate>>

(* The failure card's button: back to the PIN.                             *)
RetryTest ==
  /\ "retry" \in Buttons
  /\ step' = "pin"
  /\ result' = NoResult
  /\ pin' = FALSE
  /\ UNCHANGED <<vars, ready, detecting, gate, busy, locked, certCn, test>>
-----------------------------------------------------------------------------
RowsShown == IF onboarded THEN tab = "prerequis" ELSE step = "prereq"

User ==
  \/ Skip \/ Enter \/ Continue \/ Press \/ RetryTest \/ LeavePrerequisites
  \/ \E d \in Detectors : OpenPrerequisites(d) \/ RelaunchWizard(d)
  \/ \E f \in Tests : Test(f)

TestStep(f) ==
  \/ TestUnlocked(f) \/ TestListed(f) \/ TestSigned(f)
  \/ \E ok \in BOOLEAN : TestPrepared(f, ok) \/ TestAssembled(f, ok) \/ TestValidated(f, ok)

PollStep == RowsShown /\ (\E d \in Detectors : Poll(d)) /\ UNCHANGED wizard

DetectionStep(d) ==
  (ProbeToken(d) \/ ProbeBackend(d) \/ Detected(d)) /\ UNCHANGED wizard

CardAnswers == TokenAnswers /\ UNCHANGED <<ready, detecting, wizard>>

WizardNext ==
  \/ User
  \/ \E d \in Detectors : DetectionStep(d) \/ Restart(d)
  \/ "detect" \in Buttons /\ (\E d \in Detectors : RetryDetection(d)) /\ UNCHANGED wizard
  \/ PollStep
  \/ \E f \in Tests : RunTest(f) \/ TestStep(f)
  \/ CardAnswers
  \/ BackendUp /\ UNCHANGED wizard
  \/ World /\ UNCHANGED <<ready, detecting, wizard>>

WizardSpec == WizardInit /\ [][WizardNext]_all

(* The interval fires, the shell runs what it was sent, the server and the *)
(* card answer, and continuations run.                                     *)
WizardFairness ==
  /\ WF_all(PollStep)
  /\ \A d \in Detectors : WF_all(DetectionStep(d))
  /\ \A f \in Tests : WF_all(RunTest(f) \/ TestStep(f))
  /\ WF_all(CardAnswers)

FairWizardSpec == WizardSpec /\ WizardFairness
-----------------------------------------------------------------------------
(* Properties.                                                             *)

(* The wizard is never stuck: neither the pad, disabled while a test runs, *)
(* nor the spinner, which has no button, stays for ever                    *)
(* (FirstRunWizard.tsx:247-312, "never hard-brick").                       *)
Waiting == ~onboarded /\ (busy \/ (step = "verifying" /\ result = NoResult))
WizardResponds == Waiting ~> ~Waiting

(* The rows come true: once every probe finds what it looks for, they are  *)
(* all ok in the end and stay so, although detections overlap and older    *)
(* ones answer last (FirstRunWizard.tsx:166-202,                           *)
(* PrerequisitesScreen.tsx:165-209).                                       *)
Steady == RowsShown /\ ready /\ \A d \in Detectors : reply[d].code \in {"none", "ok"}
DetectionConverges == <>[]Steady => <>[]AllOk

(* "exactly one unlock attempt" (FirstRunWizard.tsx:246): a test sends the *)
(* PIN to the card once, and a wizard that was told the card is blocked    *)
(* never sends it again.                                                   *)
OneAttemptPerTest ==
  [][\A f \in Tests : call'.op = "unlock" /\ call.op # "unlock" /\ call'.who = f =>
       test[f].tried = 0 /\ (locked => test[f].left)]_all

(* The last view is reached only when a card has made the signature that   *)
(* was validated, with the key of the certificate the view names, although *)
(* cards may be pulled and swapped between the two (selfTest.ts:68-107).   *)
DoneMeansSigned ==
  step = "done" =>
    NoCard \notin {result.by, certCn} /\ KeyIdOf[result.by] = KeyIdOf[certCn]

(* The gate survives restarts both ways: who left the wizard finds it gone *)
(* and who asked for it again finds it there, as long as the storage works *)
(* (FirstRunWizard.tsx:303-312, App.tsx:424-433, store.ts:52-66).          *)
GateIsStored == storage => (onboarded <=> stored)
=============================================================================
