----------------------------- MODULE WizardProofs ---------------------------
(***************************************************************************)
(* The wizard, for any number of cards, detections and tests, with a       *)
(* storage that works or not and restarts at any instant.  WInv says of    *)
(* every test what it holds at each of its awaits, and that at most one    *)
(* works for the wizard on the screen, which then is busy.  A restart is   *)
(* the one step that is no step of the signing core.                       *)
(***************************************************************************)
EXTENDS FirstRunWizard, SignerProofs

TestRecord == [at: {"idle", "unlock", "list", "prepare", "sign", "assemble", "validate"},
               cert: Cards \cup {NoCard}, by: Cards \cup {NoCard}, tried: 0..1, left: BOOLEAN]

(* A test that has its certificate.                                        *)
Certified == {"prepare", "sign", "assemble", "validate"}

(* A test that its wizard waits for.                                       *)
Awaited(f) == test[f].at # "idle" /\ ~test[f].left

PaneType ==
  /\ step \in {"prereq", "pin", "verifying", "done"}
  /\ busy \in BOOLEAN /\ locked \in BOOLEAN /\ pin \in BOOLEAN
  /\ certCn \in Cards \cup {NoCard}
  /\ result \in [ok: {"none", "yes", "no"}, by: Cards \cup {NoCard}]

GateType ==
  stored \in BOOLEAN /\ onboarded \in BOOLEAN /\ tab \in {"prerequis", "other"}

(* A test has a card's certificate once it has listed, and sends the PIN   *)
(* once: an unlock that was run is on its way or answered.                 *)
TestOk(f) ==
  /\ test[f].at \in Certified => test[f].cert \in Cards
  /\ test[f].at = "unlock" /\ Sent(f) => test[f].tried = 0

(* The wizard waits for one test at most, and is busy meanwhile; one that  *)
(* was told the card is blocked is not.                                    *)
OneAwaited ==
  /\ \A f, g \in Tests : Awaited(f) /\ Awaited(g) => f = g
  /\ \A f \in Tests : Awaited(f) => busy
  /\ locked => ~busy

(* The certificate on the screen is that of the test it waits for.         *)
NamedCert == \A f \in Tests : Awaited(f) /\ test[f].at \in Certified => certCn = test[f].cert

(* Detections never wait for the card, and one that was answered goes on.  *)
DetectionsOk ==
  /\ call # NoCall => call.who \in Tests
  /\ \A d \in Detectors : reply[d] # NoReply => detection[d] # "idle"

TestsInv == (\A f \in Tests : TestOk(f)) /\ OneAwaited /\ NamedCert

WInv ==
  /\ RowsTypeOK /\ GateType /\ PaneType /\ test \in [Tests -> TestRecord]
  /\ DetectionsOk /\ TestsInv

AllInv == SInv /\ WInv
-----------------------------------------------------------------------------
LEMMA TestFacts ==
  /\ Tests \subseteq Clients /\ Detectors \subseteq Clients /\ Tests \cap Detectors = {}
  BY TestsAssumption, DetectorsAssumption

LEMMA NoTestFacts ==
  /\ NoTest \in TestRecord /\ NoTest.at = "idle" /\ NoTest.tried = 0
  /\ [NoTest EXCEPT !.at = "unlock"] \in TestRecord
  /\ [NoTest EXCEPT !.at = "unlock"].at = "unlock"
  /\ [NoTest EXCEPT !.at = "unlock"].tried = 0
<1>1. NoTest \in TestRecord /\ NoTest.at = "idle" /\ NoTest.tried = 0
  BY DEF NoTest, TestRecord
<1> QED
  BY <1>1 DEF TestRecord

LEMMA FreshFacts ==
  ASSUME FreshPane
  PROVE  PaneType' /\ ~busy' /\ ~locked' /\ step' = "prereq"
  BY DEF FreshPane, PaneType, NoResult

(* One test moves, the others do not.                                      *)
LEMMA OneTest ==
  ASSUME WInv, NEW f \in Tests, NEW r \in TestRecord, test' = [test EXCEPT ![f] = r]
  PROVE  /\ test' \in [Tests -> TestRecord] /\ test'[f] = r
         /\ \A g \in Tests \ {f} : test'[g] = test[g]
  BY DEF WInv
-----------------------------------------------------------------------------
(* The signing core under the wizard.                                      *)

(* No test's command is run, answered or taken.                            *)
Untouched ==
  \A f \in Tests :
    /\ Sent(f)' => Sent(f)
    /\ reply'[f] = reply[f]
    /\ call'.op = "sign" /\ call'.who = f =>
         call.op = "sign" /\ call.who = f /\ call'.key = call.key

LEMMA SameUntouched == UNCHANGED vars => Untouched
  BY DEF vars, Untouched, Sent

LEMMA WorldUntouched == TypeOK /\ World => Untouched
<1> SUFFICES ASSUME TypeOK, World PROVE Untouched
  OBVIOUS
<1>1. reply' = reply
  BY DEF World, Install, Unplug, Tick, Plug
<1>2. CASE call' = call
  BY <1>1, <1>2 DEF Untouched, Sent
<1>3. CASE Tick /\ call.op = "sign"
  <2>1. call' = [call EXCEPT !.age = Aged(call.age)]
    BY <1>3 DEF Tick
  <2>2. call' # NoCall /\ call'.op = call.op /\ call'.who = call.who /\ call'.key = call.key
    BY <1>3, <2>1, CallType DEF NoCall
  <2>3. call # NoCall
    BY <1>3, NoFacts
  <2> QED
    BY <1>1, <2>2, <2>3 DEF Untouched, Sent
<1> QED
  BY <1>2, <1>3 DEF World, Install, Unplug, Tick, Plug

LEMMA DetectionUntouched ==
  ASSUME TypeOK, NEW d \in Detectors, DetectionStep(d)
  PROVE  Untouched
<1>1. CASE ProbeBackend(d)
  BY <1>1, SameUntouched DEF ProbeBackend
<1>2. ASSUME NEW op, NEW code, NEW c, Answer(d, op, code, c), call' = call PROVE Untouched
  <2>1. \A f \in Tests : reply'[f] = reply[f]
    BY <1>2, TestFacts DEF Answer, TypeOK
  <2> QED
    BY <1>2, <2>1 DEF Untouched, Sent
<1>3. CASE ProbeToken(d)
  <2>1. (\E op, code, c : Answer(d, op, code, c)) /\ call' = call
    BY <1>3 DEF ProbeToken, List, OpenFails
  <2> QED
    BY <1>2, <2>1
<1>4. CASE Detected(d)
  <2>1. Answer(d, "none", "none", NoCard) /\ call' = call
    BY <1>4 DEF Detected, Take, Answer, NoReply
  <2> QED
    BY <1>2, <2>1
<1> QED
  BY <1>1, <1>3, <1>4 DEF DetectionStep

(* The card answers: whoever awaited it has an answer.                     *)
LEMMA AnswerKeepsSent ==
  ASSUME TypeOK, TokenAnswers
  PROVE  \A f \in Tests : Sent(f)' => Sent(f)
<1>1. call' = NoCall /\ call.who \in Clients
  BY CallType, NoFacts DEF TokenAnswers, UnlockOk, UnlockWrong, UnlockBlocked, SignOk,
                           SignUnknownKey, UnlockFault, SignFault
<1>2. \E op \in {"unlock", "sign"} : \E code, c : Answer(call.who, op, code, c)
  BY DEF TokenAnswers, UnlockOk, UnlockWrong, UnlockBlocked, SignOk, SignUnknownKey,
         UnlockFault, SignFault
<1>3. PICK op \in {"unlock", "sign"} : \E code, c : Answer(call.who, op, code, c)
  BY <1>2
<1>3a. PICK code, c : Answer(call.who, op, code, c)
  BY <1>3
<1>4. \A f \in Tests : reply'[f] = IF f = call.who THEN Reply(op, code, c) ELSE reply[f]
  BY <1>1, <1>3a, TestFacts DEF Answer, TypeOK
<1>5. Reply(op, code, c) # NoReply
  BY DEF Reply, NoReply
<1> QED
  BY <1>1, <1>4, <1>5 DEF Sent

(* Every step is a step of the signing core or leaves it.                  *)
LEMMA WizardSteps ==
  ASSUME AllInv, [WizardNext]_all
  PROVE  Steps
<1>1. ASSUME UNCHANGED vars PROVE Steps
  BY <1>1 DEF Steps
<1>2. ASSUME NEW w \in Clients, Command(w) \/ Take(w) PROVE Steps
  BY <1>2 DEF Steps, Next
<1>3. CASE User
  BY <1>1, <1>3 DEF User, Skip, Enter, EnterApp, Continue, Press, RetryTest, LeavePrerequisites,
                    OpenPrerequisites, RelaunchWizard, Test
<1>4. ASSUME NEW d \in Detectors, DetectionStep(d) PROVE Steps
  <2>1. CASE ProbeToken(d)
    <3>1. Command(d)
      BY <2>1 DEF ProbeToken, Command, Ops
    <3> QED
      BY <1>2, <3>1, TestFacts
  <2>2. CASE ProbeBackend(d)
    BY <1>1, <2>2 DEF ProbeBackend
  <2>3. CASE Detected(d)
    BY <1>2, <2>3, TestFacts DEF Detected
  <2> QED
    BY <1>4, <2>1, <2>2, <2>3 DEF DetectionStep
<1>5. ASSUME NEW d \in Detectors, RetryDetection(d) \/ Poll(d) PROVE Steps
  BY <1>1, <1>5 DEF RetryDetection, Poll
<1>6. ASSUME NEW f \in Tests, RunTest(f) PROVE Steps
  <2>1. f \in Clients
    BY TestFacts
  <2>2. test[f].at = "sign" => KeyIdOf[test[f].cert] \in KeyIds
    BY SignerAssumption DEF AllInv, WInv, TestsInv, TestOk, Certified
  <2>3. Command(f)
    BY <1>6, <2>2 DEF RunTest, Command, Ops
  <2> QED
    BY <1>2, <2>1, <2>3
<1>7. ASSUME NEW f \in Tests, TestStep(f) PROVE Steps
  <2>1. f \in Clients
    BY TestFacts
  <2> QED
    BY <1>1, <1>2, <1>7, <2>1 DEF TestStep, TestUnlocked, TestListed, TestSigned, TestPrepared,
                                  TestAssembled, TestValidated
<1>8. CASE CardAnswers
  BY <1>8 DEF CardAnswers, Steps, Next
<1>9. CASE BackendUp
  BY <1>1, <1>9 DEF BackendUp
<1>10. CASE World
  BY <1>10 DEF Steps, Next
<1>11. ASSUME NEW d \in Detectors, Restart(d) PROVE Steps
  BY <1>11 DEF Restart, Steps, Next
<1>12. CASE UNCHANGED all
  BY <1>1, <1>12 DEF all
<1> QED
  BY <1>3, <1>4, <1>5, <1>6, <1>7, <1>8, <1>9, <1>10, <1>11, <1>12 DEF WizardNext, PollStep
-----------------------------------------------------------------------------
(* The rows.                                                               *)

DetectionState == {"idle", "asked", "ok", "waiting", "ignored"}

LEMMA RowsFacts ==
  ASSUME RowsTypeOK
  PROVE  /\ detection \in [Detectors -> DetectionState]
         /\ Abandoned \in [Detectors -> DetectionState]
         /\ UnmountRows => rows' = Checking /\ detection' \in [Detectors -> DetectionState]
         /\ \A d \in Detectors : MountRows(d) \/ Detect(d) =>
              rows' = Checking /\ detection' \in [Detectors -> DetectionState]
  BY DEF RowsTypeOK, Abandoned, UnmountRows, MountRows, Detect, DetectionState

LEMMA RowsType ==
  ASSUME ready' \in BOOLEAN, rows' = Checking, detection' \in [Detectors -> DetectionState]
  PROVE  RowsTypeOK'
  BY DEF RowsTypeOK, DetectionState

LEMMA SameRows == RowsTypeOK /\ UNCHANGED <<ready, detecting>> => RowsTypeOK'
  BY DEF RowsTypeOK, detecting, Checking

LEMMA DetectionRows ==
  ASSUME RowsTypeOK, DetectionsOk, NEW d \in Detectors, DetectionStep(d)
  PROVE  RowsTypeOK'
<1>1. CASE ProbeToken(d)
  BY <1>1, SameRows DEF ProbeToken
<1>2. CASE ProbeBackend(d)
  BY <1>2 DEF ProbeBackend, RowsTypeOK, Checking
<1>3. CASE Detected(d)
  <2>1. ready' = ready /\ detection' = [detection EXCEPT ![d] = "idle"]
    BY <1>3 DEF Detected
  <2>2. reply[d] # NoReply
    BY <1>3 DEF Detected, Take
  <2>3. detection[d] \in {"ok", "waiting", "ignored"}
    BY <1>3, <2>2 DEF Detected, RowsTypeOK, DetectionsOk
  <2>4. rows' = rows \/ rows' \in [token: {"ok", "waiting"}, backend: {"ok", "waiting"}]
    BY <1>3, <2>3 DEF Detected
  <2> QED
    BY <2>1, <2>4 DEF RowsTypeOK, Checking
<1> QED
  BY <1>1, <1>2, <1>3 DEF DetectionStep

(* No detection is answered, and none that is answered becomes idle.       *)
DetectionsKept ==
  /\ call' # NoCall => call # NoCall /\ call'.who = call.who
  /\ \A d \in Detectors :
       reply'[d] = reply[d] /\ (detection'[d] = "idle" => detection[d] = "idle")

LEMMA KeptDetections == DetectionsOk /\ DetectionsKept => DetectionsOk'
  BY DEF DetectionsOk, DetectionsKept

LEMMA RowsKept ==
  ASSUME RowsTypeOK, UNCHANGED vars,
         \/ UnmountRows \/ UNCHANGED detecting
         \/ \E d \in Detectors : MountRows(d) \/ Detect(d)
  PROVE  DetectionsKept
<1>1. CASE UnmountRows
  BY <1>1 DEF vars, DetectionsKept, UnmountRows, Abandoned, RowsTypeOK
<1>2. CASE UNCHANGED detecting
  BY <1>2 DEF vars, DetectionsKept, detecting
<1>3. ASSUME NEW d \in Detectors, MountRows(d) PROVE DetectionsKept
  BY <1>3 DEF vars, DetectionsKept, MountRows, Abandoned, RowsTypeOK
<1>4. ASSUME NEW d \in Detectors, Detect(d) PROVE DetectionsKept
  BY <1>4 DEF vars, DetectionsKept, Detect, RowsTypeOK
<1> QED
  BY <1>1, <1>2, <1>3, <1>4

LEMMA StepDetections ==
  ASSUME TypeOK, RowsTypeOK, DetectionsOk, NEW d \in Detectors, DetectionStep(d)
  PROVE  DetectionsOk'
<1>1. CASE ProbeBackend(d)
  <2>1. DetectionsKept
    BY <1>1 DEF ProbeBackend, vars, DetectionsKept, RowsTypeOK
  <2> QED
    BY <2>1, KeptDetections
<1>2. CASE ProbeToken(d)
  <2>1. (\E op, code, c : Answer(d, op, code, c)) /\ call' = call
    BY <1>2 DEF ProbeToken, List, OpenFails
  <2>2. \A e \in Detectors \ {d} : reply'[e] = reply[e]
    BY <2>1, TestFacts DEF Answer, TypeOK
  <2> QED
    BY <1>2, <2>1, <2>2 DEF ProbeToken, DetectionsOk, detecting
<1>3. CASE Detected(d)
  <2>1. call' = call /\ reply' = [reply EXCEPT ![d] = NoReply]
        /\ detection' = [detection EXCEPT ![d] = "idle"]
    BY <1>3 DEF Detected, Take
  <2> QED
    BY <2>1, TestFacts DEF DetectionsOk, TypeOK, RowsTypeOK
<1> QED
  BY <1>1, <1>2, <1>3 DEF DetectionStep

(* The commands and the answers of tests are not the detections'.          *)
LEMMA TestDetections ==
  ASSUME TypeOK, DetectionsOk, NEW f \in Tests, UNCHANGED detecting,
         call' = call \/ (call' # NoCall => call'.who = f),
         \A w \in Clients \ {f} : reply'[w] = reply[w]
  PROVE  DetectionsOk'
  BY TestFacts DEF DetectionsOk, detecting

LEMMA CardDetections ==
  ASSUME TypeOK, DetectionsOk, TokenAnswers, UNCHANGED detecting
  PROVE  DetectionsOk'
<1>1. call' = NoCall /\ call # NoCall
  BY NoFacts DEF TokenAnswers, UnlockOk, UnlockWrong, UnlockBlocked, SignOk,
                 SignUnknownKey, UnlockFault, SignFault
<1>2. \E op, code, c : Answer(call.who, op, code, c)
  BY DEF TokenAnswers, UnlockOk, UnlockWrong, UnlockBlocked, SignOk, SignUnknownKey,
         UnlockFault, SignFault
<1>3. call.who \in Tests
  BY <1>1 DEF DetectionsOk
<1>4. \A w \in Clients \ {call.who} : reply'[w] = reply[w]
  BY <1>2 DEF Answer, TypeOK
<1> QED
  BY <1>1, <1>3, <1>4, TestDetections

LEMMA WorldDetections ==
  ASSUME TypeOK, DetectionsOk, World, UNCHANGED detecting
  PROVE  DetectionsOk'
<1>1. reply' = reply
  BY DEF World, Install, Unplug, Tick, Plug
<1>2. call' # NoCall => call # NoCall /\ call'.who = call.who
  BY CallType, NoFacts DEF World, Install, Unplug, Tick, Plug
<1> QED
  BY <1>1, <1>2, KeptDetections DEF DetectionsKept, detecting
-----------------------------------------------------------------------------
(* The tests.                                                              *)

LEMMA SameTests ==
  ASSUME WInv, test' = test, UNCHANGED <<busy, locked, certCn>>,
         \A f \in Tests : Sent(f)' => Sent(f)
  PROVE  TestsInv'
  BY DEF WInv, TestsInv, TestOk, OneAwaited, NamedCert, Awaited

(* The wizard on the screen is new, and waits for none of the tests.       *)
LEMMA FreshTests ==
  ASSUME WInv, FreshPane, UNCHANGED vars, test' \in [Tests -> TestRecord],
         \A f \in Tests :
           \/ test'[f].at = "idle"
           \/ test'[f] = [test[f] EXCEPT !.left = TRUE]
  PROVE  TestsInv'
<1>1. ~locked' /\ ~busy'
  BY DEF FreshPane
<1>2. ASSUME NEW f \in Tests PROVE TestOk(f)' /\ ~Awaited(f)'
  <2>1. Sent(f)' => Sent(f)
    BY SameUntouched DEF Untouched
  <2>2. CASE test'[f].at = "idle"
    BY <2>2 DEF TestOk, Awaited, Certified
  <2>3. CASE test'[f] = [test[f] EXCEPT !.left = TRUE]
    <3>1. /\ test'[f].at = test[f].at /\ test'[f].cert = test[f].cert
          /\ test'[f].tried = test[f].tried /\ test'[f].left
      BY <2>3 DEF WInv, TestRecord
    <3> QED
      BY <2>1, <3>1 DEF TestOk, Awaited, WInv, TestsInv
  <2> QED
    BY <1>2, <2>2, <2>3
<1> QED
  BY <1>1, <1>2 DEF TestsInv, OneAwaited, NamedCert

LEMMA LeftTests ==
  ASSUME WInv,
         test' = [f \in Tests |-> IF test[f] = NoTest THEN NoTest
                                  ELSE [test[f] EXCEPT !.left = TRUE]]
  PROVE  /\ test' \in [Tests -> TestRecord]
         /\ \A f \in Tests : test'[f].at = "idle" \/ test'[f] = [test[f] EXCEPT !.left = TRUE]
<1>1. \A f \in Tests : [test[f] EXCEPT !.left = TRUE] \in TestRecord
  BY DEF WInv, TestRecord
<1> QED
  BY <1>1, NoTestFacts

(* A test goes on, past the unlock.  What it names is its own certificate. *)
LEMMA GoesOn ==
  ASSUME WInv, NEW f \in Tests, NEW r \in TestRecord, test' = [test EXCEPT ![f] = r],
         test[f].at # "idle", r.left = test[f].left, r.at \notin {"idle", "unlock"},
         r.at \in Certified => r.cert \in Cards,
         r.at \in Certified /\ ~r.left => certCn' = r.cert,
         test[f].left => certCn' = certCn,
         UNCHANGED <<busy, locked>>,
         \A g \in Tests \ {f} : Sent(g)' => Sent(g)
  PROVE  TestsInv'
<1>1. test'[f] = r /\ \A g \in Tests \ {f} : test'[g] = test[g]
  BY OneTest
<1>2. \A g \in Tests : Awaited(g)' <=> Awaited(g)
  BY <1>1 DEF Awaited
<1>3. \A g \in Tests : TestOk(g)'
  BY <1>1 DEF TestOk, WInv, TestsInv
<1>4. OneAwaited'
  BY <1>2 DEF OneAwaited, WInv, TestsInv
<1>5. ASSUME NEW g \in Tests \ {f}, Awaited(g), test[g].at \in Certified
      PROVE  certCn' = test[g].cert
  BY <1>5 DEF WInv, TestsInv, OneAwaited, NamedCert, Awaited
<1>6. NamedCert'
  BY <1>1, <1>2, <1>5 DEF NamedCert, Awaited
<1> QED
  BY <1>3, <1>4, <1>6 DEF TestsInv

(* A test ends; if its wizard waited for it, it is not busy any more.      *)
LEMMA EndsWell ==
  ASSUME WInv, NEW f \in Tests, test[f].at # "idle", Ends(f),
         certCn' = certCn, locked' \in BOOLEAN, test[f].left => locked' = locked,
         \A g \in Tests \ {f} : Sent(g)' => Sent(g)
  PROVE  /\ TestsInv' /\ test' \in [Tests -> TestRecord] /\ busy' \in BOOLEAN
         /\ test'[f] = NoTest /\ \A g \in Tests \ {f} : test'[g] = test[g]
<1>1. /\ test' \in [Tests -> TestRecord] /\ test'[f] = NoTest
      /\ \A g \in Tests \ {f} : test'[g] = test[g]
  BY NoTestFacts, OneTest DEF Ends
<1>2. busy' = IF test[f].left THEN busy ELSE FALSE
  BY DEF Ends, Sets
<1>3. \A g \in Tests : Awaited(g)' <=> Awaited(g) /\ g # f
  BY <1>1, NoTestFacts DEF Awaited
<1>4. \A g \in Tests : TestOk(g)'
  BY <1>1, NoTestFacts DEF TestOk, WInv, TestsInv, Certified
<1>5. \A g \in Tests : Awaited(g)' => test[f].left
  BY <1>3 DEF OneAwaited, WInv, TestsInv, Awaited
<1>6. OneAwaited'
  BY <1>2, <1>3, <1>5 DEF OneAwaited, WInv, TestsInv, PaneType
<1>7. NamedCert'
  BY <1>1, <1>3 DEF NamedCert, WInv, TestsInv
<1> QED
  BY <1>1, <1>2, <1>4, <1>6, <1>7 DEF TestsInv, WInv, PaneType
-----------------------------------------------------------------------------
(* WInv is kept.                                                           *)

(* The user acts on the gate and the rows: the core is left alone.         *)
LEMMA EnterWInv ==
  ASSUME AllInv, EnterApp, stored' \in BOOLEAN
  PROVE  WInv'
<1> USE DEF AllInv, WInv
<1>1. RowsTypeOK' /\ DetectionsOk'
  BY RowsFacts, RowsType, RowsKept, KeptDetections DEF EnterApp, RowsTypeOK
<1>2. GateType' /\ PaneType'
  BY FreshFacts DEF EnterApp, GateType
<1>3. test' \in [Tests -> TestRecord] /\ TestsInv'
  BY LeftTests, FreshTests DEF EnterApp
<1> QED
  BY <1>1, <1>2, <1>3

LEMMA UserWInv ==
  ASSUME AllInv, User
  PROVE  WInv'
<1> USE DEF AllInv, WInv
<1>1. ASSUME UNCHANGED vars, ready' = ready,
             \/ UnmountRows \/ UNCHANGED detecting
             \/ \E d \in Detectors : MountRows(d) \/ Detect(d)
      PROVE  RowsTypeOK' /\ DetectionsOk' /\ \A f \in Tests : Sent(f)' => Sent(f)
  <2>1. ready \in BOOLEAN
    BY DEF RowsTypeOK
  <2>2. RowsTypeOK'
    BY <1>1, <2>1, RowsFacts, RowsType, SameRows
  <2> QED
    BY <1>1, <2>2, RowsKept, KeptDetections, SameUntouched DEF Untouched
<1>2. CASE Skip \/ Enter
  BY <1>2, EnterWInv, TestsAssumption DEF Skip, Enter, Store
<1>3. CASE Continue
  <2>1. GateType' /\ PaneType'
    BY <1>3 DEF Continue, gate, GateType, PaneType
  <2> QED
    BY <1>1, <1>3, <2>1, SameTests DEF Continue
<1>4. CASE Press
  <2>1. GateType' /\ PaneType'
    BY <1>4 DEF Press, gate, GateType, PaneType
  <2> QED
    BY <1>1, <1>4, <2>1, SameTests DEF Press
<1>5. CASE RetryTest
  <2>1. GateType' /\ PaneType'
    BY <1>5 DEF RetryTest, gate, GateType, PaneType, NoResult
  <2> QED
    BY <1>1, <1>5, <2>1, SameTests DEF RetryTest
<1>6. CASE LeavePrerequisites
  <2>1. GateType' /\ PaneType'
    BY <1>6 DEF LeavePrerequisites, pane, GateType, PaneType
  <2> QED
    BY <1>1, <1>6, <2>1, SameTests DEF LeavePrerequisites, pane
<1>7. ASSUME NEW d \in Detectors, OpenPrerequisites(d) PROVE WInv'
  <2>1. GateType' /\ PaneType'
    BY <1>7 DEF OpenPrerequisites, pane, GateType, PaneType
  <2> QED
    BY <1>1, <1>7, <2>1, SameTests DEF OpenPrerequisites, pane
<1>8. ASSUME NEW d \in Detectors, RelaunchWizard(d) PROVE WInv'
  <2>1. GateType' /\ PaneType'
    BY <1>8, TestsAssumption DEF RelaunchWizard, Store, pane, GateType, PaneType
  <2> QED
    BY <1>1, <1>8, <2>1, SameTests DEF RelaunchWizard, pane
<1>9. ASSUME NEW f \in Tests, Test(f) PROVE WInv'
  <2> DEFINE r == [test[f] EXCEPT !.at = "unlock"]
  <2>1. RowsTypeOK' /\ DetectionsOk' /\ \A g \in Tests : Sent(g)' => Sent(g)
    BY <1>1, <1>9 DEF Test
  <2>2. GateType' /\ PaneType'
    BY <1>9 DEF Test, gate, GateType, PaneType
  <2>3. ~busy /\ ~locked
    BY <1>9 DEF Test, Buttons, PrerequisitesView, PrereqView, PinView, VerifyingView, DoneView,
                PaneType
  <2>4. r \in TestRecord /\ r.at = "unlock" /\ r.tried = 0
    <3>1. test[f] = NoTest
      BY <1>9 DEF Test
    <3> QED
      BY <3>1, NoTestFacts
  <2>5. test' = [test EXCEPT ![f] = r] /\ busy' /\ locked' = locked /\ certCn' = certCn
    BY <1>9 DEF Test
  <2> HIDE DEF r
  <2>6. /\ test' \in [Tests -> TestRecord] /\ test'[f] = r
        /\ \A g \in Tests \ {f} : test'[g] = test[g]
    BY <2>4, <2>5, OneTest
  <2>7. \A g \in Tests \ {f} : ~Awaited(g)'
    BY <2>3, <2>6 DEF TestsInv, OneAwaited, Awaited
  <2>8. \A g \in Tests : TestOk(g)'
    BY <2>1, <2>4, <2>6 DEF TestsInv, TestOk, Certified
  <2>9. TestsInv'
    BY <2>3, <2>4, <2>5, <2>6, <2>7, <2>8 DEF TestsInv, OneAwaited, NamedCert, Certified
  <2> QED
    BY <2>1, <2>2, <2>6, <2>9
<1> QED
  BY <1>2, <1>3, <1>4, <1>5, <1>6, <1>7, <1>8, <1>9 DEF User

LEMMA RestartWInv ==
  ASSUME AllInv, NEW d \in Detectors, Restart(d)
  PROVE  WInv'
<1> USE DEF AllInv, WInv
<1>1. RowsTypeOK'
  BY DEF Restart, RowsTypeOK
<1>2. DetectionsOk'
  BY TestFacts DEF Restart, ProcessEnds, DetectionsOk
<1>3. GateType' /\ PaneType' /\ ~busy' /\ ~locked'
  BY FreshFacts DEF Restart, GateType
<1>4. test' \in [Tests -> TestRecord] /\ \A f \in Tests : test'[f].at = "idle"
  BY NoTestFacts DEF Restart
<1>5. TestsInv'
  BY <1>3, <1>4 DEF TestsInv, TestOk, OneAwaited, NamedCert, Awaited, Certified
<1> QED
  BY <1>1, <1>2, <1>3, <1>4, <1>5

(* A command of a test is run: from then on it is not waiting to be run.   *)
LEMMA RunTestWInv ==
  ASSUME AllInv, NEW f \in Tests, RunTest(f)
  PROVE  WInv'
<1> USE DEF AllInv, WInv
<1>1. TypeOK /\ f \in Clients
  BY TestFacts DEF SInv, IInv
<1>2. RowsTypeOK' /\ GateType' /\ PaneType' /\ UNCHANGED detecting
  BY SameRows DEF RunTest, gate, pane, GateType, PaneType
<1>3. /\ ~Sent(f)'
      /\ call' = call \/ (call' # NoCall => call'.who = f)
      /\ \A w \in Clients \ {f} : reply'[w] = reply[w]
  <2>1. ASSUME NEW op \in {"unlock", "list", "sign"}, NEW code, NEW c,
               Answer(f, op, code, c), call' = call
        PROVE  ~Sent(f)' /\ \A w \in Clients \ {f} : reply'[w] = reply[w]
    <3>1. reply'[f] = Reply(op, code, c) /\ \A w \in Clients \ {f} : reply'[w] = reply[w]
      BY <1>1, <2>1 DEF Answer, TypeOK
    <3>2. Reply(op, code, c) # NoReply
      BY DEF Reply, NoReply
    <3> QED
      BY <3>1, <3>2 DEF Sent
  <2>2. ASSUME call' # NoCall, call'.who = f, reply' = [reply EXCEPT ![f] = NoReply]
        PROVE  ~Sent(f)' /\ \A w \in Clients \ {f} : reply'[w] = reply[w]
    BY <1>1, <2>2 DEF Sent, TypeOK
  <2> DEFINE Run == /\ ~Sent(f)'
                    /\ call' = call \/ (call' # NoCall => call'.who = f)
                    /\ \A w \in Clients \ {f} : reply'[w] = reply[w]
  <2>3. ASSUME NEW op \in {"unlock", "list", "sign"}, OpenFails(f, op) PROVE Run
    BY <2>1, <2>3 DEF OpenFails
  <2>4. List(f, "list") => Run
    BY <2>1 DEF List
  <2>5. SignRefused(f, TRUE) => Run
    BY <2>1 DEF SignRefused
  <2>6. ASSUME UnlockBegin(f) \/ SignBegin(f, KeyIdOf[test[f].cert]) PROVE Run
    BY <2>2, <2>6 DEF UnlockBegin, SignBegin, NoCall
  <2> QED
    BY <2>3, <2>4, <2>5, <2>6 DEF RunTest
<1>4. DetectionsOk'
  BY <1>1, <1>2, <1>3, TestDetections
<1>5. \A g \in Tests : Sent(g)' => Sent(g) /\ g # f
  <2>1. call = NoCall
    BY DEF RunTest, UnlockBegin, SignBegin, List, SignRefused, OpenFails, Free
  <2> QED
    BY <1>3, <2>1, TestFacts DEF Sent
<1>6. UNCHANGED pane
  BY DEF RunTest
<1>7. CASE test' = test
  BY <1>2, <1>4, <1>5, <1>6, <1>7, SameTests DEF pane
<1>8. CASE test[f].at = "unlock" /\ test' = [test EXCEPT ![f].tried = @ + 1]
  <2> DEFINE r == [test[f] EXCEPT !.tried = test[f].tried + 1]
  <2>1. test[f].tried = 0
    BY <1>8 DEF RunTest, TestsInv, TestOk
  <2>2. /\ r \in TestRecord /\ r.at = "unlock" /\ r.left = test[f].left
        /\ test' = [test EXCEPT ![f] = r]
    BY <1>8, <2>1 DEF TestRecord
  <2> HIDE DEF r
  <2>3. /\ test' \in [Tests -> TestRecord] /\ test'[f] = r
        /\ \A g \in Tests \ {f} : test'[g] = test[g]
    BY <2>2, OneTest
  <2>4. \A g \in Tests : Awaited(g)' <=> Awaited(g)
    BY <1>8, <2>2, <2>3 DEF Awaited
  <2>5. \A g \in Tests : TestOk(g)'
    BY <1>5, <2>2, <2>3 DEF TestsInv, TestOk, Certified
  <2>6. OneAwaited'
    BY <1>6, <2>4 DEF TestsInv, OneAwaited, pane
  <2>7. NamedCert'
    BY <1>6, <2>2, <2>3, <2>4 DEF TestsInv, NamedCert, pane, Certified
  <2> QED
    BY <1>2, <1>4, <2>3, <2>5, <2>6, <2>7 DEF TestsInv
<1> QED
  BY <1>7, <1>8 DEF RunTest

(* What a continuation of a test leaves of the tests and the pane.         *)
Good == PaneType' /\ test' \in [Tests -> TestRecord] /\ TestsInv'

LEMMA AtGood ==
  ASSUME WInv, NEW f \in Tests, NEW at \in {"list", "sign", "assemble", "validate"},
         At(f, at), UNCHANGED pane, test[f].at # "idle",
         at \in Certified => test[f].at \in Certified,
         \A g \in Tests \ {f} : Sent(g)' => Sent(g)
  PROVE  Good
<1> DEFINE r == [test[f] EXCEPT !.at = at]
<1>1. /\ r \in TestRecord /\ r.at = at /\ r.left = test[f].left /\ r.cert = test[f].cert
      /\ test' = [test EXCEPT ![f] = r]
  BY DEF WInv, TestRecord, At
<1> HIDE DEF r
<1>2. PaneType' /\ certCn' = certCn /\ UNCHANGED <<busy, locked>>
  BY DEF pane, PaneType, WInv
<1>3. at \in Certified => r.cert \in Cards /\ (~r.left => certCn = r.cert)
  BY <1>1 DEF WInv, TestsInv, TestOk, NamedCert, Awaited
<1>4. TestsInv'
  BY <1>1, <1>2, <1>3, GoesOn
<1> QED
  BY <1>1, <1>2, <1>4, OneTest DEF Good

LEMMA RefusedGood ==
  ASSUME WInv, NEW f \in Tests, NEW code, Refused(f, code), test[f].at # "idle",
         \A g \in Tests \ {f} : Sent(g)' => Sent(g)
  PROVE  Good
<1>1. /\ locked' \in BOOLEAN /\ pin' \in BOOLEAN /\ (test[f].left => locked' = locked)
      /\ UNCHANGED <<step, certCn, result>>
  BY DEF Refused, Sets, WInv, PaneType
<1>2. TestsInv' /\ test' \in [Tests -> TestRecord] /\ busy' \in BOOLEAN
  BY <1>1, EndsWell DEF Refused
<1> QED
  BY <1>1, <1>2 DEF Good, WInv, PaneType

LEMMA ReturnsGood ==
  ASSUME WInv, NEW f \in Tests, NEW ok \in BOOLEAN, Returns(f, ok), test[f].at # "idle",
         \A g \in Tests \ {f} : Sent(g)' => Sent(g)
  PROVE  Good
<1>1. /\ result' \in [ok: {"none", "yes", "no"}, by: Cards \cup {NoCard}]
      /\ step' \in {"prereq", "pin", "verifying", "done"}
  BY DEF Returns, Sets, WInv, PaneType, TestRecord
<1>2. TestsInv' /\ test' \in [Tests -> TestRecord] /\ busy' \in BOOLEAN
  BY EndsWell DEF Returns, WInv, PaneType
<1> QED
  BY <1>1, <1>2 DEF Good, Returns, WInv, PaneType

LEMMA TestStepWInv ==
  ASSUME AllInv, NEW f \in Tests, TestStep(f)
  PROVE  WInv'
<1> USE DEF AllInv, WInv
<1>1. TypeOK /\ f \in Clients
  BY TestFacts DEF SInv, IInv
<1>2. /\ UNCHANGED <<ready, detecting, gate>> /\ (UNCHANGED vars \/ Take(f))
      /\ test[f].at # "idle"
  BY DEF TestStep, TestUnlocked, TestListed, TestSigned, TestPrepared, TestAssembled,
         TestValidated
<1>3. call' = call /\ \A w \in Clients \ {f} : reply'[w] = reply[w]
  BY <1>1, <1>2 DEF vars, Take, TypeOK
<1>4. RowsTypeOK' /\ GateType' /\ DetectionsOk'
  BY <1>1, <1>2, <1>3, SameRows, TestDetections DEF gate, GateType
<1>5. \A g \in Tests \ {f} : Sent(g)' => Sent(g)
  BY <1>3, TestFacts DEF Sent
<1>6. ASSUME NEW at \in {"list", "sign", "assemble", "validate"}, At(f, at), UNCHANGED pane,
             at \in Certified => test[f].at \in Certified
      PROVE  Good
  BY <1>2, <1>5, <1>6, AtGood
<1>7. ASSUME NEW code, Refused(f, code) PROVE Good
  BY <1>2, <1>5, <1>7, RefusedGood
<1>8. ASSUME NEW ok \in BOOLEAN, Returns(f, ok) PROVE Good
  BY <1>2, <1>5, <1>8, ReturnsGood
<1>9. ASSUME TestUnlocked(f) PROVE Good
  BY <1>6, <1>7, <1>9 DEF TestUnlocked, Certified
<1>10. ASSUME TestListed(f) PROVE Good
  <2>1. CASE \E code : Refused(f, code)
    BY <1>7, <2>1
  <2>2. CASE reply[f].code = "ok" /\ step' = Sets(f, step, "verifying")
             /\ test' = [test EXCEPT ![f].at = "prepare", ![f].cert = reply[f].card]
             /\ certCn' = Sets(f, certCn, reply[f].card)
             /\ UNCHANGED <<busy, locked, pin, result>>
    <3> DEFINE r == [test[f] EXCEPT !.at = "prepare", !.cert = reply[f].card]
    <3>1. reply[f].card \in Cards
      BY <1>1, <1>10, <2>2 DEF TestListed, Answered, SInv, ReplyCard
    <3>2. /\ r \in TestRecord /\ r.at = "prepare" /\ r.left = test[f].left
          /\ r.cert = reply[f].card /\ test' = [test EXCEPT ![f] = r]
      BY <2>2, <3>1 DEF TestRecord
    <3> HIDE DEF r
    <3>3. PaneType' /\ certCn' = IF test[f].left THEN certCn ELSE r.cert
      BY <2>2, <3>1, <3>2 DEF PaneType, Sets
    <3>4. TestsInv'
      BY <1>2, <1>5, <2>2, <3>1, <3>2, <3>3, GoesOn
    <3> QED
      BY <3>2, <3>3, <3>4, OneTest DEF Good
  <2> QED
    BY <1>10, <2>1, <2>2 DEF TestListed
<1>11. ASSUME NEW ok \in BOOLEAN, TestPrepared(f, ok) PROVE Good
  BY <1>6, <1>8, <1>11 DEF TestPrepared, Fails, Certified
<1>12. ASSUME TestSigned(f) PROVE Good
  <2>1. CASE reply[f].code = "ok"
    <3> DEFINE r == [test[f] EXCEPT !.at = "assemble", !.by = reply[f].card]
    <3>1. reply[f].card \in Cards /\ test[f].at = "sign"
      BY <1>1, <1>12, <2>1 DEF TestSigned, Answered, SInv, ReplyCard
    <3>2. /\ r \in TestRecord /\ r.at = "assemble" /\ r.left = test[f].left
          /\ r.cert = test[f].cert /\ test' = [test EXCEPT ![f] = r]
      BY <1>12, <2>1, <3>1 DEF TestRecord, TestSigned
    <3> HIDE DEF r
    <3>3. PaneType' /\ certCn' = certCn /\ UNCHANGED <<busy, locked>>
      BY <1>12, <2>1 DEF TestSigned, PaneType, pane
    <3>4. r.cert \in Cards /\ (~r.left => certCn = r.cert)
      BY <3>1, <3>2 DEF TestsInv, TestOk, NamedCert, Awaited, Certified
    <3>5. TestsInv'
      BY <1>2, <1>5, <3>2, <3>3, <3>4, GoesOn
    <3> QED
      BY <3>2, <3>3, <3>5, OneTest DEF Good
  <2>2. CASE reply[f].code # "ok"
    BY <1>8, <1>12, <2>2 DEF TestSigned, Fails
  <2> QED
    BY <2>1, <2>2
<1>13. ASSUME NEW ok \in BOOLEAN, TestAssembled(f, ok) PROVE Good
  BY <1>6, <1>8, <1>13 DEF TestAssembled, Fails, Certified
<1>14. ASSUME NEW ok \in BOOLEAN, TestValidated(f, ok) PROVE Good
  BY <1>8, <1>14 DEF TestValidated, Fails
<1>15. Good
  BY <1>9, <1>10, <1>11, <1>12, <1>13, <1>14 DEF TestStep
<1> QED
  BY <1>4, <1>15 DEF Good

LEMMA StepAllInv == AllInv /\ [WizardNext]_all => AllInv'
<1> SUFFICES ASSUME AllInv, [WizardNext]_all PROVE AllInv'
  OBVIOUS
<1>0. SInv'
  BY WizardSteps, StepSInv DEF AllInv
<1>1. TypeOK /\ RowsTypeOK /\ DetectionsOk
  BY DEF AllInv, SInv, IInv, WInv
<1>2. ASSUME UNCHANGED wizard, RowsTypeOK', DetectionsOk', \A f \in Tests : Sent(f)' => Sent(f)
      PROVE  WInv'
  <2>1. GateType' /\ PaneType' /\ test' = test /\ UNCHANGED <<busy, locked, certCn>>
    BY <1>2 DEF wizard, gate, pane, GateType, PaneType, AllInv, WInv
  <2>2. TestsInv'
    BY <1>2, <2>1, SameTests DEF AllInv
  <2> QED
    BY <1>2, <2>1, <2>2 DEF AllInv, WInv
<1>3. CASE UNCHANGED all
  <2>1. RowsTypeOK' /\ DetectionsOk' /\ \A f \in Tests : Sent(f)' => Sent(f)
    BY <1>1, <1>3, SameRows, RowsKept, KeptDetections, SameUntouched DEF all, Untouched
  <2> QED
    BY <1>0, <1>2, <1>3, <2>1 DEF all, AllInv
<1>4. ASSUME NEW d \in Detectors, Restart(d) PROVE AllInv'
  BY <1>0, <1>4, RestartWInv DEF AllInv
<1>5. CASE WizardNext /\ \A d \in Detectors : ~Restart(d)
  <2>2. ASSUME NEW d \in Detectors, DetectionStep(d) PROVE WInv'
    <3>1. UNCHANGED wizard
      BY <2>2 DEF DetectionStep
    <3> QED
      BY <1>1, <1>2, <2>2, <3>1, DetectionRows, StepDetections, DetectionUntouched DEF Untouched
  <2>3. ASSUME NEW d \in Detectors, RetryDetection(d) \/ Poll(d), UNCHANGED wizard PROVE WInv'
    <3>1. UNCHANGED vars /\ ready' = ready /\ Detect(d)
      BY <2>3 DEF RetryDetection, Poll
    <3>2. RowsTypeOK'
      BY <1>1, <3>1, RowsFacts, RowsType DEF RowsTypeOK
    <3> QED
      BY <1>1, <1>2, <2>3, <3>1, <3>2, RowsKept, KeptDetections, SameUntouched DEF Untouched
  <2>4. ASSUME CardAnswers PROVE WInv'
    BY <1>1, <1>2, <2>4, SameRows, CardDetections, AnswerKeepsSent DEF CardAnswers
  <2>5. ASSUME BackendUp, UNCHANGED wizard PROVE WInv'
    <3>1. UNCHANGED vars /\ UNCHANGED detecting /\ RowsTypeOK'
      BY <1>1, <2>5 DEF BackendUp, RowsTypeOK, detecting, Checking
    <3> QED
      BY <1>1, <1>2, <2>5, <3>1, RowsKept, KeptDetections, SameUntouched DEF Untouched
  <2>6. ASSUME World, UNCHANGED <<ready, detecting, wizard>> PROVE WInv'
    BY <1>1, <1>2, <2>6, SameRows, WorldDetections, WorldUntouched DEF Untouched
  <2>7. WInv'
    BY <1>5, <2>2, <2>3, <2>4, <2>5, <2>6, UserWInv, RunTestWInv, TestStepWInv
    DEF WizardNext, PollStep
  <2> QED
    BY <1>0, <2>7 DEF AllInv
<1> QED
  BY <1>3, <1>4, <1>5

LEMMA InitAllInv == WizardInit => AllInv
<1> SUFFICES ASSUME WizardInit PROVE AllInv
  OBVIOUS
<1>1. SInv
  BY InitSInv DEF WizardInit
<1>2. RowsTypeOK /\ GateType /\ PaneType
  BY DEF WizardInit, RowsTypeOK, GateType, PaneType, NoResult
<1>3. DetectionsOk
  BY TestFacts DEF WizardInit, Init, DetectionsOk
<1>4. test \in [Tests -> TestRecord] /\ \A f \in Tests : test[f].at = "idle"
  BY NoTestFacts DEF WizardInit
<1>5. TestsInv
  BY <1>4 DEF WizardInit, TestsInv, TestOk, OneAwaited, NamedCert, Awaited, Certified
<1> QED
  BY <1>1, <1>2, <1>3, <1>4, <1>5 DEF AllInv, WInv

LEMMA AlwaysAllInv == WizardSpec => []AllInv
  BY InitAllInv, StepAllInv, PTL DEF WizardSpec
-----------------------------------------------------------------------------
(* Type correctness, for any number of detections, tests and cards.        *)
THEOREM WizardTypeCorrect == WizardSpec => []WizardTypeOK
<1>1. AllInv => WizardTypeOK
  BY DEF AllInv, SInv, IInv, WInv, GateType, PaneType, TestRecord, WizardTypeOK
<1> QED
  BY AlwaysAllInv, <1>1, PTL

(* Only a test whose unlock has not run yet takes the mutex for one.       *)
LEMMA UnlockIsTests ==
  ASSUME AllInv, WizardNext, call'.op = "unlock", call.op # "unlock"
  PROVE  \E f \in Tests : /\ call'.who = f /\ test[f].at = "unlock" /\ Sent(f)
<1>1. call' # call /\ call'.op # "none"
  OBVIOUS
<1>2. ~User
  BY <1>1 DEF User, Skip, Enter, EnterApp, Continue, Press, RetryTest, LeavePrerequisites,
              OpenPrerequisites, RelaunchWizard, Test, vars
<1>3. \A d \in Detectors : ~DetectionStep(d) /\ ~Restart(d) /\ ~RetryDetection(d) /\ ~Poll(d)
  BY <1>1, NoFacts DEF DetectionStep, ProbeToken, ProbeBackend, Detected, Take, List, OpenFails,
                       Restart, ProcessEnds, RetryDetection, Poll, vars
<1>4. \A f \in Tests : ~TestStep(f)
  BY <1>1 DEF TestStep, TestUnlocked, TestListed, TestSigned, TestPrepared, TestAssembled,
              TestValidated, Take, vars
<1>5. ~CardAnswers /\ ~BackendUp
  BY <1>1, NoFacts DEF CardAnswers, TokenAnswers, UnlockOk, UnlockWrong, UnlockBlocked, SignOk,
                       SignUnknownKey, UnlockFault, SignFault, BackendUp, vars
<1>6. ~World
  <2>1. World => call'.op = call.op
    BY CallType DEF World, Install, Unplug, Tick, Plug, AllInv, SInv, IInv
  <2> QED
    BY <2>1
<1>7. PICK f \in Tests : RunTest(f)
  BY <1>2, <1>3, <1>4, <1>5, <1>6 DEF WizardNext, PollStep
<1>8. UnlockBegin(f) /\ test[f].at = "unlock" /\ Sent(f)
  <2>1. ~SignBegin(f, KeyIdOf[test[f].cert])
    BY DEF SignBegin
  <2>2. /\ ~List(f, "list") /\ ~SignRefused(f, TRUE)
        /\ \A op \in {"unlock", "list", "sign"} : ~OpenFails(f, op)
    BY <1>1 DEF OpenFails, List, SignRefused
  <2> QED
    BY <1>7, <2>1, <2>2 DEF RunTest
<1> QED
  BY <1>8 DEF UnlockBegin

(* The wizard, its rows and restarts drive the signing core as Signer      *)
(* describes it, so every theorem of SignerProofs holds under them         *)
(* (FirstRunWizard.tsx:247-312, App.tsx:423-424).                          *)
THEOREM WizardRunsSigner == WizardSpec => Spec
<1>1. WizardInit => Init
  BY DEF WizardInit
<1>2. AllInv /\ [WizardNext]_all => [Next]_vars
  BY WizardSteps DEF Steps
<1> QED
  BY AlwaysAllInv, <1>1, <1>2, PTL DEF WizardSpec, Spec

(* The wizard keeps the promise of PinSession, whenever the application is *)
(* ended and started again: no signature is made under a PIN of an earlier *)
(* start (session.rs:29-33, signer.rs:102-129, signer_state.rs:12-14).     *)
THEOREM WizardKeepsPinSession == WizardSpec => ImplementsPinSession
  BY WizardRunsSigner, Refinement

(* A test presents the PIN once, and a wizard that was told the card is    *)
(* blocked presents it no more (FirstRunWizard.tsx:246).                   *)
THEOREM OneAttempt == WizardSpec => OneAttemptPerTest
<1> DEFINE Attempt ==
      \A f \in Tests : call'.op = "unlock" /\ call.op # "unlock" /\ call'.who = f =>
        test[f].tried = 0 /\ (locked => test[f].left)
<1>1. AllInv /\ [WizardNext]_all => [Attempt]_all
  <2> SUFFICES ASSUME AllInv, WizardNext, NEW f \in Tests,
                      call'.op = "unlock", call.op # "unlock", call'.who = f
               PROVE  test[f].tried = 0 /\ (locked => test[f].left)
    OBVIOUS
  <2>1. test[f].at = "unlock" /\ Sent(f)
    BY UnlockIsTests
  <2> QED
    BY <2>1 DEF AllInv, WInv, TestsInv, TestOk, OneAwaited, Awaited
<1> QED
  BY AlwaysAllInv, <1>1, PTL DEF WizardSpec, OneAttemptPerTest

(* The gate survives restarts both ways (FirstRunWizard.tsx:303-312,       *)
(* App.tsx:424-433, store.ts:52-66).                                       *)
THEOREM GatesAreStored == WizardSpec => []GateIsStored
<1>1. WizardInit => GateIsStored
  BY DEF WizardInit, GateIsStored
<1>2. AllInv /\ GateIsStored /\ [WizardNext]_all => GateIsStored'
  <2> SUFFICES ASSUME AllInv, GateIsStored, [WizardNext]_all PROVE GateIsStored'
    OBVIOUS
  <2>1. ASSUME UNCHANGED gate PROVE GateIsStored'
    BY <2>1 DEF gate, GateIsStored
  <2>2. CASE User
    <3>1. CASE Skip \/ Enter
      BY <3>1 DEF Skip, Enter, EnterApp, Store, GateIsStored
    <3>2. ASSUME NEW d \in Detectors, RelaunchWizard(d) PROVE GateIsStored'
      BY <3>2 DEF RelaunchWizard, Store, GateIsStored
    <3>3. CASE UNCHANGED <<stored, onboarded>>
      BY <3>3 DEF GateIsStored
    <3> QED
      BY <2>2, <3>1, <3>2, <3>3 DEF User, Continue, Press, RetryTest, LeavePrerequisites,
                                    OpenPrerequisites, Test, gate
  <2>3. ASSUME NEW d \in Detectors, Restart(d) PROVE GateIsStored'
    BY <2>3 DEF Restart, GateIsStored
  <2>4. ASSUME NEW f \in Tests, RunTest(f) \/ TestStep(f) PROVE UNCHANGED gate
    BY <2>4 DEF RunTest, TestStep, TestUnlocked, TestListed, TestSigned, TestPrepared,
                TestAssembled, TestValidated
  <2>5. ASSUME UNCHANGED wizard PROVE UNCHANGED gate
    BY <2>5 DEF wizard
  <2>6. (CardAnswers \/ PollStep \/ \E d \in Detectors : DetectionStep(d)) => UNCHANGED wizard
    BY DEF CardAnswers, PollStep, DetectionStep
  <2>7. UNCHANGED all => UNCHANGED wizard
    BY DEF all
  <2> QED
    BY <2>1, <2>2, <2>3, <2>4, <2>5, <2>6, <2>7 DEF WizardNext
<1> QED
  BY AlwaysAllInv, <1>1, <1>2, PTL DEF WizardSpec
-----------------------------------------------------------------------------
(* The last view.  Its signature was made with a key of the id of the      *)
(* certificate it names.                                                   *)

Matches(x) == x.by \in Cards /\ x.cert \in Cards /\ KeyIdOf[x.by] = KeyIdOf[x.cert]

(* The command and the answer of a signature are those of a test that      *)
(* awaits them, made with the key of the test's certificate.               *)
SignOwn ==
  \A f \in Tests :
    /\ call.op = "sign" /\ call.who = f =>
         test[f].at = "sign" /\ call.key = KeyIdOf[test[f].cert]
    /\ reply[f].op = "sign" /\ reply[f].code = "ok" =>
         test[f].at = "sign" /\ KeyIdOf[reply[f].card] = KeyIdOf[test[f].cert]
    /\ test[f].at \in {"assemble", "validate"} => Matches(test[f])

DoneMatches ==
  step = "done" =>
    result.by \in Cards /\ certCn \in Cards /\ KeyIdOf[result.by] = KeyIdOf[certCn]

DoneIsIdle == step = "done" => ~busy

DoneInv == SignOwn /\ DoneMatches /\ DoneIsIdle

SamePane == UNCHANGED <<step, certCn, result, busy>>

LEMMA SameDone == DoneMatches /\ DoneIsIdle /\ SamePane => DoneMatches' /\ DoneIsIdle'
  BY DEF DoneMatches, DoneIsIdle, SamePane

LEMMA SignOwnKept ==
  ASSUME SignOwn, Untouched,
         \A f \in Tests : \/ test'[f].at = test[f].at /\ test'[f].cert = test[f].cert
                                                      /\ test'[f].by = test[f].by
                          \/ test[f].at = "idle" /\ test'[f].at = "unlock"
  PROVE  SignOwn'
  BY DEF SignOwn, Untouched, Matches

(* One test goes on, and has no command or answer of a signature left.     *)
LEMMA OneSignOwn ==
  ASSUME SignOwn, NEW f \in Tests, call' = call, ~(call.op = "sign" /\ call.who = f),
         \A g \in Tests \ {f} : reply'[g] = reply[g] /\ test'[g] = test[g],
         ~(reply'[f].op = "sign" /\ reply'[f].code = "ok"),
         test'[f].at \in {"assemble", "validate"} => Matches(test'[f])
  PROVE  SignOwn'
  BY DEF SignOwn, Matches

LEMMA UserDone ==
  ASSUME AllInv, DoneInv, User
  PROVE  DoneInv'
<1> USE DEF AllInv, WInv, DoneInv
<1>1. ASSUME UNCHANGED vars, test' = test PROVE SignOwn'
  BY <1>1, SameUntouched, SignOwnKept
<1>2. ASSUME step' # "done" PROVE DoneMatches' /\ DoneIsIdle'
  BY <1>2 DEF DoneMatches, DoneIsIdle
<1>3. CASE Skip \/ Enter
  <2>1. EnterApp
    BY <1>3 DEF Skip, Enter
  <2>2. ASSUME NEW f \in Tests
        PROVE  /\ test'[f].at = test[f].at /\ test'[f].cert = test[f].cert
               /\ test'[f].by = test[f].by
    <3>1. test[f] \in TestRecord
          /\ test'[f] = IF test[f] = NoTest THEN NoTest ELSE [test[f] EXCEPT !.left = TRUE]
      BY <2>1 DEF EnterApp
    <3> QED
      BY <3>1 DEF TestRecord
  <2>3. SignOwn' /\ step' = "prereq"
    BY <2>1, <2>2, SameUntouched, SignOwnKept, FreshFacts DEF EnterApp
  <2> QED
    BY <1>2, <2>3
<1>4. CASE Continue \/ RetryTest
  <2>1. step' = "pin" /\ UNCHANGED vars /\ test' = test
    BY <1>4 DEF Continue, RetryTest
  <2> QED
    BY <1>1, <1>2, <2>1
<1>5. CASE Press
  BY <1>1, <1>5, SameDone DEF Press, SamePane
<1>6. ASSUME LeavePrerequisites \/ \E d \in Detectors : OpenPrerequisites(d) \/ RelaunchWizard(d)
      PROVE  DoneInv'
  <2>1. UNCHANGED vars /\ test' = test /\ SamePane
    BY <1>6 DEF LeavePrerequisites, OpenPrerequisites, RelaunchWizard, pane, SamePane
  <2> QED
    BY <1>1, <2>1, SameDone
<1>7. ASSUME NEW f \in Tests, Test(f) PROVE DoneInv'
  <2>1. step' # "done"
    BY <1>7 DEF Test, Buttons, PrerequisitesView, PrereqView, VerifyingView, DoneView, PaneType
  <2>2. /\ test'[f].at = "unlock" /\ test[f].at = "idle"
        /\ \A g \in Tests \ {f} : test'[g] = test[g]
    <3>1. test[f] = NoTest /\ test' = [test EXCEPT ![f] = [NoTest EXCEPT !.at = "unlock"]]
      BY <1>7 DEF Test
    <3> QED
      BY <3>1, NoTestFacts, OneTest
  <2>3. SignOwn'
    BY <1>7, <2>2, SameUntouched, SignOwnKept DEF Test
  <2> QED
    BY <1>2, <2>1, <2>3
<1> QED
  BY <1>3, <1>4, <1>5, <1>6, <1>7 DEF User

(* What a continuation of a test leaves of the last view.                  *)
DoneKept == DoneMatches' /\ DoneIsIdle'

LEMMA RefusedDone ==
  ASSUME DoneInv, NEW f \in Tests, NEW code, Refused(f, code)
  PROVE  DoneKept
  BY DEF DoneKept, Refused, Ends, Sets, DoneInv, DoneMatches, DoneIsIdle

(* The test that the wizard waits for returns before the last view, and    *)
(* brings it up once its signature was validated.                          *)
LEMMA ReturnsDone ==
  ASSUME AllInv, DoneInv, NEW f \in Tests, NEW ok \in BOOLEAN, Returns(f, ok),
         test[f].at # "idle", ok => test[f].at = "validate"
  PROVE  DoneKept
<1> USE DEF AllInv, WInv, DoneInv
<1>1. certCn' = certCn
  BY DEF Returns
<1>2. CASE test[f].left
  <2>1. SamePane
    BY <1>1, <1>2 DEF Returns, Ends, Sets, SamePane
  <2> QED
    BY <2>1, SameDone DEF DoneKept
<1>3. CASE ~test[f].left
  <2>1. step # "done"
    BY <1>3 DEF TestsInv, OneAwaited, Awaited, DoneIsIdle
  <2>2. CASE ~ok
    <3>1. step' # "done"
      BY <2>1, <2>2 DEF Returns, Sets
    <3> QED
      BY <3>1 DEF DoneKept, DoneMatches, DoneIsIdle
  <2>3. CASE ok
    <3>1. result'.by = test[f].by /\ ~busy'
      BY <1>3 DEF Returns, Ends, Sets
    <3>2. Matches(test[f]) /\ test[f].cert = certCn
      BY <1>3, <2>3 DEF SignOwn, TestsInv, TestOk, NamedCert, Awaited, Certified
    <3> QED
      BY <1>1, <3>1, <3>2 DEF DoneKept, DoneMatches, DoneIsIdle, Matches
  <2> QED
    BY <2>2, <2>3
<1> QED
  BY <1>2, <1>3

LEMMA TestStepDone ==
  ASSUME AllInv, DoneInv, NEW f \in Tests, TestStep(f)
  PROVE  DoneInv'
<1> USE DEF AllInv, WInv, DoneInv
<1>1. TypeOK /\ f \in Clients
  BY TestFacts DEF SInv, IInv
<1>2. ASSUME \A g \in Tests \ {f} : test'[g] = test[g],
             (UNCHANGED vars /\ test[f].at # "sign") \/ Take(f),
             test'[f].at \in {"assemble", "validate"} => Matches(test'[f])
      PROVE  SignOwn'
  <2>1. call' = call /\ \A g \in Tests \ {f} : reply'[g] = reply[g]
    BY <1>1, <1>2, TestFacts DEF vars, Take, TypeOK
  <2>2. ~(call.op = "sign" /\ call.who = f) /\ ~(reply'[f].op = "sign" /\ reply'[f].code = "ok")
    <3>1. CASE UNCHANGED vars /\ test[f].at # "sign"
      BY <3>1 DEF SignOwn, vars
    <3>2. CASE Take(f)
      <4>1. reply[f] # NoReply /\ reply'[f] = NoReply
        BY <1>1, <3>2 DEF Take, TypeOK
      <4>2. call.op = "sign" => call # NoCall
        BY NoFacts
      <4> QED
        BY <4>1, <4>2 DEF SInv, NoAnswerYet, NoReply, Reply
    <3> QED
      BY <1>2, <3>1, <3>2
  <2> QED
    BY <1>2, <2>1, <2>2, OneSignOwn
<1>3. ASSUME NEW at, At(f, at)
      PROVE  /\ test'[f].at = at /\ test'[f].cert = test[f].cert /\ test'[f].by = test[f].by
             /\ \A g \in Tests \ {f} : test'[g] = test[g]
  BY <1>3 DEF At, TestRecord
<1>4. ASSUME Ends(f)
      PROVE  test'[f].at = "idle" /\ \A g \in Tests \ {f} : test'[g] = test[g]
  BY <1>4, NoTestFacts, OneTest DEF Ends
<1>5. UNCHANGED pane => DoneKept
  BY SameDone DEF pane, SamePane, DoneKept
<1> SUFFICES SignOwn' /\ DoneKept
  BY DEF DoneKept
<1>6. ASSUME TestUnlocked(f) PROVE SignOwn' /\ DoneKept
  <2>1. Take(f)
    BY <1>6 DEF TestUnlocked
  <2>2. CASE At(f, "list") /\ UNCHANGED pane
    BY <1>2, <1>3, <1>5, <2>1, <2>2
  <2>3. CASE Refused(f, reply[f].code)
    BY <1>2, <1>4, <2>1, <2>3, RefusedDone DEF Refused
  <2> QED
    BY <1>6, <2>2, <2>3 DEF TestUnlocked
<1>7. ASSUME TestListed(f) PROVE SignOwn' /\ DoneKept
  <2>1. Take(f) /\ test[f].at = "list"
    BY <1>7 DEF TestListed
  <2>2. CASE \E code : Refused(f, code)
    BY <1>2, <1>4, <2>1, <2>2, RefusedDone DEF Refused
  <2>3. CASE /\ test' = [test EXCEPT ![f].at = "prepare", ![f].cert = reply[f].card]
             /\ certCn' = Sets(f, certCn, reply[f].card)
             /\ step' = Sets(f, step, "verifying")
             /\ UNCHANGED <<busy, locked, pin, result>>
    <3>1. test'[f].at = "prepare" /\ \A g \in Tests \ {f} : test'[g] = test[g]
      BY <2>3 DEF TestRecord
    <3>2. DoneKept
      <4>1. CASE test[f].left
        BY <2>3, <4>1, SameDone DEF Sets, SamePane, DoneKept
      <4>2. CASE ~test[f].left
        BY <2>3, <4>2 DEF Sets, DoneKept, DoneMatches, DoneIsIdle
      <4> QED
        BY <4>1, <4>2
    <3> QED
      BY <1>2, <2>1, <3>1, <3>2
  <2> QED
    BY <1>7, <2>2, <2>3 DEF TestListed
<1>8. ASSUME NEW ok \in BOOLEAN, Returns(f, ok), test[f].at # "idle",
             (UNCHANGED vars /\ test[f].at # "sign") \/ Take(f),
             ok => test[f].at = "validate"
      PROVE  SignOwn' /\ DoneKept
  BY <1>2, <1>4, <1>8, ReturnsDone DEF Returns
<1>9. ASSUME NEW ok \in BOOLEAN, TestPrepared(f, ok) PROVE SignOwn' /\ DoneKept
  <2>1. CASE ok
    BY <1>2, <1>3, <1>5, <1>9, <2>1 DEF TestPrepared
  <2>2. CASE ~ok
    BY <1>8, <1>9, <2>2 DEF TestPrepared, Fails
  <2> QED
    BY <2>1, <2>2
<1>10. ASSUME TestSigned(f) PROVE SignOwn' /\ DoneKept
  <2>1. Take(f) /\ test[f].at = "sign" /\ reply[f].op = "sign"
    BY <1>10 DEF TestSigned, Answered
  <2>2. CASE reply[f].code = "ok"
    <3>1. test' = [test EXCEPT ![f].at = "assemble", ![f].by = reply[f].card] /\ UNCHANGED pane
      BY <1>10, <2>2 DEF TestSigned
    <3>2. /\ test'[f].by = reply[f].card /\ test'[f].cert = test[f].cert
          /\ \A g \in Tests \ {f} : test'[g] = test[g]
      BY <3>1 DEF TestRecord
    <3>3. Matches(test'[f])
      <4>1. reply[f].card \in Cards /\ test[f].cert \in Cards
        BY <1>1, <2>1, <2>2 DEF SInv, ReplyCard, TestsInv, TestOk, Certified
      <4> QED
        BY <2>1, <2>2, <3>2, <4>1 DEF SignOwn, Matches
    <3> QED
      BY <1>2, <1>5, <2>1, <3>1, <3>2, <3>3
  <2>3. CASE reply[f].code # "ok"
    BY <1>8, <1>10, <2>1, <2>3 DEF TestSigned, Fails
  <2> QED
    BY <2>2, <2>3
<1>11. ASSUME NEW ok \in BOOLEAN, TestAssembled(f, ok) PROVE SignOwn' /\ DoneKept
  <2>1. CASE ok
    <3>1. Matches(test[f])
      BY <1>11 DEF TestAssembled, SignOwn
    <3>2. At(f, "validate") => Matches(test'[f])
      BY <1>3, <3>1 DEF Matches
    <3> QED
      BY <1>2, <1>3, <1>5, <1>11, <2>1, <3>2 DEF TestAssembled
  <2>2. CASE ~ok
    BY <1>8, <1>11, <2>2 DEF TestAssembled, Fails
  <2> QED
    BY <2>1, <2>2
<1>12. ASSUME NEW ok \in BOOLEAN, TestValidated(f, ok) PROVE SignOwn' /\ DoneKept
  BY <1>8, <1>12 DEF TestValidated, Fails
<1> QED
  BY <1>6, <1>7, <1>9, <1>10, <1>11, <1>12 DEF TestStep

(* The command asks for the key of the test's certificate.                 *)
LEMMA RunTestDone ==
  ASSUME AllInv, DoneInv, NEW f \in Tests, RunTest(f)
  PROVE  DoneInv'
<1> USE DEF AllInv, WInv, DoneInv
<1>1. TypeOK /\ f \in Clients
  BY TestFacts DEF SInv, IInv
<1>2. DoneMatches' /\ DoneIsIdle'
  BY SameDone DEF RunTest, pane, SamePane
<1>3. \A g \in Tests : /\ test'[g].at = test[g].at /\ test'[g].cert = test[g].cert
                       /\ test'[g].by = test[g].by
  <2>1. CASE test' = test
    BY <2>1
  <2>2. CASE test' = [test EXCEPT ![f].tried = @ + 1]
    BY <2>2 DEF TestRecord
  <2> QED
    BY <2>1, <2>2 DEF RunTest
<1>4. ASSUME \A g \in Tests \ {f} : reply'[g] = reply[g],
             ~(reply'[f].op = "sign" /\ reply'[f].code = "ok"),
             call'.op = "sign" => \/ call' = call
                                  \/ /\ call'.who = f /\ test[f].at = "sign"
                                     /\ call'.key = KeyIdOf[test[f].cert]
      PROVE  SignOwn'
  BY <1>3, <1>4 DEF SignOwn, Matches
<1>5. ASSUME NEW op, NEW code, NEW c, Answer(f, op, code, c), call' = call,
             ~(op = "sign" /\ code = "ok")
      PROVE  SignOwn'
  <2>1. reply'[f] = Reply(op, code, c) /\ \A g \in Tests \ {f} : reply'[g] = reply[g]
    BY <1>1, <1>5, TestFacts DEF Answer, TypeOK
  <2> QED
    BY <1>4, <1>5, <2>1 DEF Reply
<1>6. ASSUME reply' = [reply EXCEPT ![f] = NoReply],
             call'.op = "sign" => \/ call' = call
                                  \/ /\ call'.who = f /\ test[f].at = "sign"
                                     /\ call'.key = KeyIdOf[test[f].cert]
      PROVE  SignOwn'
  <2>1. reply'[f] = NoReply /\ \A g \in Tests \ {f} : reply'[g] = reply[g]
    BY <1>1, <1>6, TestFacts DEF TypeOK
  <2> QED
    BY <1>4, <1>6, <2>1 DEF Reply, NoReply
<1>7. ASSUME NEW op \in {"unlock", "list", "sign"}, OpenFails(f, op) PROVE SignOwn'
  <2> PICK e \in OpenErrors : Answer(f, op, Says(op, e), NoCard)
    BY <1>7 DEF OpenFails
  <2>1. Says(op, e) # "ok"
    BY DEF Says, OpenErrors
  <2>2. call' = call
    BY <1>7 DEF OpenFails
  <2> QED
    BY <1>5, <2>1, <2>2
<1>8. List(f, "list") => SignOwn'
  BY <1>5 DEF List
<1>9. SignRefused(f, TRUE) => SignOwn'
  BY <1>5 DEF SignRefused
<1>10. UnlockBegin(f) => SignOwn'
  BY <1>6 DEF UnlockBegin
<1>11. test[f].at = "sign" /\ SignBegin(f, KeyIdOf[test[f].cert]) => SignOwn'
  BY <1>6 DEF SignBegin
<1>12. SignOwn'
  BY <1>7, <1>8, <1>9, <1>10, <1>11 DEF RunTest
<1> QED
  BY <1>2, <1>12

(* The card signs with the key it was asked for.                           *)
LEMMA CardDone ==
  ASSUME AllInv, DoneInv, CardAnswers
  PROVE  DoneInv'
<1> USE DEF AllInv, WInv, DoneInv
<1>1. test' = test /\ SamePane /\ TypeOK
  BY DEF CardAnswers, wizard, pane, SamePane, SInv, IInv
<1>2. call' = NoCall /\ call'.op = "none" /\ call.who \in Clients
  BY <1>1, CallType, NoFacts DEF CardAnswers, TokenAnswers, UnlockOk, UnlockWrong, UnlockBlocked,
                                 SignOk, SignUnknownKey, UnlockFault, SignFault
<1>3. ASSUME NEW op, NEW code, NEW c, Answer(call.who, op, code, c),
             call.who \in Tests /\ op = "sign" /\ code = "ok" =>
               test[call.who].at = "sign" /\ KeyIdOf[c] = KeyIdOf[test[call.who].cert]
      PROVE  SignOwn'
  <2>1. \A g \in Clients : reply'[g] = IF g = call.who THEN Reply(op, code, c) ELSE reply[g]
    BY <1>1, <1>3 DEF Answer, TypeOK
  <2> QED
    BY <1>1, <1>2, <1>3, <2>1, TestFacts DEF SignOwn, Reply
<1>4. SignOk => SignOwn'
  <2> SUFFICES ASSUME SignOk PROVE SignOwn'
    OBVIOUS
  <2>1. call.who \in Tests =>
          test[call.who].at = "sign" /\ KeyIdOf[live.card] = KeyIdOf[test[call.who].cert]
    BY DEF SignOk, SignOwn
  <2> QED
    BY <1>3, <2>1 DEF SignOk
<1>5. UnlockOk \/ UnlockWrong \/ UnlockBlocked \/ SignUnknownKey => SignOwn'
  BY <1>3 DEF UnlockOk, UnlockWrong, UnlockBlocked, SignUnknownKey
<1>6. ASSUME NEW code \in Codes, UnlockFault(code) \/ SignFault(code) PROVE SignOwn'
  <2>1. code # "ok"
    BY <1>6 DEF UnlockFault, SignFault, TokenErrors
  <2> QED
    BY <1>3, <1>6, <2>1 DEF UnlockFault, SignFault
<1>7. SignOwn'
  BY <1>4, <1>5, <1>6 DEF CardAnswers, TokenAnswers
<1> QED
  BY <1>1, <1>7, SameDone

LEMMA RestartDone ==
  ASSUME NEW d \in Detectors, Restart(d)
  PROVE  DoneInv'
<1>1. step' = "prereq"
  BY DEF Restart, FreshPane
<1>2. /\ call'.op = "none"
      /\ \A f \in Tests : reply'[f].op = "none" /\ test'[f].at = "idle"
  BY TestFacts, NoFacts, NoTestFacts DEF Restart, ProcessEnds, NoReply, Reply
<1> QED
  BY <1>1, <1>2 DEF DoneInv, SignOwn, DoneMatches, DoneIsIdle

LEMMA StepDone == AllInv /\ DoneInv /\ [WizardNext]_all => DoneInv'
<1> SUFFICES ASSUME AllInv, DoneInv, [WizardNext]_all PROVE DoneInv'
  OBVIOUS
<1>1. ASSUME Untouched, UNCHANGED wizard PROVE DoneInv'
  <2>1. test' = test /\ SamePane
    BY <1>1 DEF wizard, pane, SamePane
  <2> QED
    BY <1>1, <2>1, SignOwnKept, SameDone DEF DoneInv
<1>2. TypeOK
  BY DEF AllInv, SInv, IInv
<1>3. ASSUME NEW d \in Detectors, DetectionStep(d) PROVE DoneInv'
  BY <1>1, <1>2, <1>3, DetectionUntouched DEF DetectionStep
<1>4. ASSUME UNCHANGED vars, UNCHANGED wizard PROVE DoneInv'
  BY <1>1, <1>4, SameUntouched
<1>5. ASSUME NEW d \in Detectors, RetryDetection(d) \/ Poll(d), UNCHANGED wizard PROVE DoneInv'
  BY <1>4, <1>5 DEF RetryDetection, Poll
<1>6. ASSUME World, UNCHANGED wizard PROVE DoneInv'
  BY <1>1, <1>2, <1>6, WorldUntouched
<1>7. ASSUME BackendUp, UNCHANGED wizard PROVE DoneInv'
  BY <1>4, <1>7 DEF BackendUp
<1>8. UNCHANGED all => UNCHANGED vars /\ UNCHANGED wizard
  BY DEF all
<1> QED
  BY <1>3, <1>4, <1>5, <1>6, <1>7, <1>8, UserDone, TestStepDone, RunTestDone, CardDone,
     RestartDone DEF WizardNext, PollStep

(* The signature that was validated before the last view was made with a   *)
(* key of the id of the certificate the view names, whatever cards were    *)
(* pulled and swapped in between (selfTest.ts:68-107, token.rs:93-112).    *)
THEOREM DoneKeyMatches == WizardSpec => []DoneMeansSigned
<1>1. WizardInit => DoneInv
  <2> SUFFICES ASSUME WizardInit PROVE DoneInv
    OBVIOUS
  <2>1. /\ call.op = "none" /\ step = "prereq"
        /\ \A f \in Tests : reply[f].op = "none" /\ test[f].at = "idle"
    BY TestFacts, NoFacts, NoTestFacts DEF WizardInit, Init, NoReply, Reply
  <2> QED
    BY <2>1 DEF DoneInv, SignOwn, DoneMatches, DoneIsIdle
<1>2. AllInv /\ DoneInv /\ [WizardNext]_all => DoneInv'
  BY StepDone
<1>3. DoneInv => DoneMeansSigned
  BY SignerAssumption DEF DoneInv, DoneMatches, DoneMeansSigned
<1> QED
  BY AlwaysAllInv, <1>1, <1>2, <1>3, PTL DEF WizardSpec
=============================================================================
