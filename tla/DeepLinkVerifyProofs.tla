------------------------ MODULE DeepLinkVerifyProofs ------------------------
(***************************************************************************)
(* Proofs about DeepLinkVerify, for any number of links and of restarts of *)
(* the loading effect.  The inductive invariant ties what is shown to the  *)
(* one run that holds the current run id, and the server's process to the  *)
(* handle that can kill it.                                                *)
(***************************************************************************)
EXTENDS DeepLinkVerify, LinkOverlayProofs

RunAhead == \A i \in RunIds : validation[i].at # "idle" => i <= runId

(* The run that can still touch what is shown works for the shown link.    *)
RunOwn ==
  LET v == validation[runId]
  IN  /\ v.at # "idle" => url # 0 /\ v.link = url
      /\ v.at = "validate" => phase = "validating" /\ posted[url] < consent[url]
      /\ v.at = "post" => phase = "sending"

Reported == url # 0 /\ phase \in {"sending", "result"} => result = url

Consented == \A l \in Links : posted[l] <= consent[l]

(* A server that runs has a handle, until the exit takes it.               *)
Killable ==
  /\ child = "none" => process \notin {"booting", "serving"}
  /\ app = "exited" => child = "none"

VInv ==
  /\ VerifyTypeOK /\ LinkInv
  /\ RunAhead /\ RunOwn /\ Reported /\ Consented
  /\ Killable
-----------------------------------------------------------------------------
LEMMA RunFacts ==
  ASSUME VInv
  PROVE  /\ runId \in RunIds /\ RunIds \subseteq Nat /\ runId \in Nat
         /\ \A i \in RunIds : validation[i] \in [at: {"idle", "validate", "post"}, link: 0..NLinks]
         /\ NoValidation \in [at: {"idle", "validate", "post"}, link: 0..NLinks]
         /\ NoValidation.at = "idle"
         /\ \A l \in Links : l \in Nat /\ consent[l] \in Nat /\ posted[l] \in Nat
<1>1. LinkTypeOK
  BY DEF VInv, LinkInv
<1>2. runId \in RunIds /\ RunIds \subseteq Nat /\ runId \in Nat /\ NLinks \in Nat
  BY <1>1, LinkFacts DEF LinkTypeOK
<1>3. validation \in [RunIds -> [at: {"idle", "validate", "post"}, link: 0..NLinks]]
  BY DEF VInv, VerifyTypeOK
<1>4. 0 \in 0..NLinks
  BY <1>2
<1>5. NoValidation \in [at: {"idle", "validate", "post"}, link: 0..NLinks]
  BY <1>4 DEF NoValidation
<1>6. consent \in [Links -> Nat] /\ posted \in [Links -> Nat]
  BY DEF VInv, VerifyTypeOK
<1>7. \A l \in Links : l \in Nat /\ consent[l] \in Nat /\ posted[l] \in Nat
  BY <1>2, <1>6 DEF Links
<1> QED
  BY <1>2, <1>3, <1>5, <1>7 DEF NoValidation

LEMMA InitVInv == VerifyInit => VInv
<1> SUFFICES ASSUME VerifyInit PROVE VInv
  OBVIOUS
<1>1. LinkInv
  BY LinkInitInv DEF VerifyInit
<1>2. RunIds \subseteq Nat /\ 0 \in RunIds /\ NLinks \in Nat /\ runId = 0
  BY <1>1, LinkFacts DEF LinkInv, VerifyInit, LinkInit, LinkTypeOK
<1>3. VerifyTypeOK
  <2>1. SidecarTypeOK
    BY DEF VerifyInit, SidecarInit, SidecarTypeOK
  <2>2. NoValidation \in [at: {"idle", "validate", "post"}, link: 0..NLinks]
    BY <1>2 DEF NoValidation
  <2>3. LinkTypeOK /\ phase = "loading"
    BY <1>1 DEF LinkInv, VerifyInit, LinkInit
  <2>4. validation \in [RunIds -> [at: {"idle", "validate", "post"}, link: 0..NLinks]]
    BY <2>2 DEF VerifyInit
  <2>5. consent \in [Links -> Nat] /\ posted \in [Links -> Nat]
    BY DEF VerifyInit
  <2>6. result \in 0..NLinks /\ callbackFailed \in BOOLEAN
    <3>1. 0 \in 0..NLinks
      BY <1>2
    <3>2. result = 0 /\ callbackFailed = FALSE
      BY DEF VerifyInit
    <3> QED
      BY <3>1, <3>2
  <2>7. phase \in {"loading", "starting", "confirm", "validating", "sending", "result", "error"}
    BY <2>3
  <2> QED
    BY <2>1, <2>3, <2>4, <2>5, <2>6, <2>7 DEF VerifyTypeOK
<1>4. RunAhead /\ RunOwn
  BY <1>2 DEF VerifyInit, RunAhead, RunOwn, NoValidation
<1>5. Reported /\ Consented /\ Killable
  BY DEF VerifyInit, LinkInit, SidecarInit, Reported, Consented, Killable
<1> QED
  BY <1>1, <1>3, <1>4, <1>5 DEF VInv

(* The server and the application go their way.                            *)
LEMMA HostVInv ==
  ASSUME VInv, Host, UNCHANGED <<link, report>>
  PROVE  VInv'
<1> USE DEF VInv
<1>1. SidecarTypeOK' /\ Killable'
  <2>1. SidecarTypeOK
    BY DEF VerifyTypeOK
  <2>2. CASE InitBackend
    BY <2>1, <2>2 DEF InitBackend, SidecarTypeOK, Killable
  <2>3. CASE Serve
    BY <2>1, <2>3 DEF Serve, SidecarTypeOK, Killable
  <2>4. CASE Die
    BY <2>1, <2>4 DEF Die, SidecarTypeOK, Killable
  <2>5. CASE Poll
    BY <2>1, <2>5 DEF Poll, SidecarTypeOK, Killable
  <2>6. CASE Destroy
    BY <2>1, <2>6 DEF Destroy, KillChild, SidecarTypeOK, Killable
  <2>7. CASE Exit
    BY <2>1, <2>7 DEF Exit, KillChild, SidecarTypeOK, Killable
  <2>8. CASE Crash
    BY <2>1, <2>8 DEF Crash, SidecarTypeOK, Killable
  <2> QED
    BY <2>2, <2>3, <2>4, <2>5, <2>6, <2>7, <2>8 DEF Host
<1>2. LinkInv'
  BY DEF link, LinkInv, LinkTypeOK, RunBound, LoaderAhead, LoaderOwn, LoaderShown, DocOwn
<1>3. VerifyTypeOK'
  BY <1>1, <1>2 DEF VerifyTypeOK, LinkInv, link, report
<1>4. RunAhead' /\ RunOwn' /\ Reported' /\ Consented'
  BY DEF link, report, RunAhead, RunOwn, Reported, Consented
<1> QED
  BY <1>1, <1>2, <1>3, <1>4

(* A link, a restart of the effect and a close leave no run its own.       *)
LEMMA NewRunVInv ==
  ASSUME VInv, LinkInv', runId' = runId + 1,
         phase' \in {phase, "loading", "error"},
         url' # 0 => phase' \in {"loading", "error"},
         UNCHANGED <<sidecar, validation, consent, posted>>,
         result' \in {result, 0}, callbackFailed' \in BOOLEAN
  PROVE  VInv'
<1> USE DEF VInv
<1>1. runId' \in RunIds /\ runId' \in Nat
  BY RunFacts DEF LinkInv, LinkTypeOK
<1>2. validation[runId'].at = "idle"
  BY <1>1, RunFacts DEF RunAhead
<1>3. VerifyTypeOK'
  <2>1. result' \in 0..NLinks
    BY LinkFacts DEF VerifyTypeOK, LinkInv
  <2>2. phase' \in {"loading", "starting", "confirm", "validating", "sending", "result", "error"}
    BY DEF VerifyTypeOK
  <2>3. SidecarTypeOK'
    BY DEF VerifyTypeOK, SidecarTypeOK, sidecar
  <2> QED
    BY <2>1, <2>2, <2>3 DEF VerifyTypeOK, LinkInv
<1>4. RunAhead'
  <2> SUFFICES ASSUME NEW i \in RunIds, validation[i].at # "idle" PROVE i <= runId'
    BY DEF RunAhead
  <2> QED
    BY RunFacts DEF RunAhead
<1>5. RunOwn'
  BY <1>2 DEF RunOwn
<1>6. Reported' /\ Consented' /\ Killable'
  BY DEF Reported, Consented, Killable, sidecar
<1> QED
  BY <1>3, <1>4, <1>5, <1>6

LEMMA ArrivesVInv == VInv /\ Arrives => VInv'
<1> SUFFICES ASSUME VInv, Arrives PROVE VInv'
  OBVIOUS
<1>1. LinkInv' /\ runId' = runId + 1
  BY OpenInv, RestartInv DEF Arrives, VInv
<1>2. phase' \in {"loading", "error"}
  BY DEF Arrives, Open, Restart, Effect
<1>3. UNCHANGED <<sidecar, validation, consent, posted>> /\ result' = 0 /\ callbackFailed' = FALSE
  BY DEF Arrives
<1> QED
  BY <1>1, <1>2, <1>3, NewRunVInv

LEMMA CloseVInv == VInv /\ CloseVerify => VInv'
<1> SUFFICES ASSUME VInv, CloseVerify PROVE VInv'
  OBVIOUS
<1>1. LinkInv' /\ runId' = runId + 1 /\ url' = 0
  BY CloseInv DEF CloseVerify, VInv
<1>2. phase' = phase /\ UNCHANGED <<sidecar, validation, consent, posted>>
      /\ result' = result /\ callbackFailed' = callbackFailed
  BY DEF CloseVerify, Close, report
<1>3. callbackFailed' \in BOOLEAN
  BY <1>2 DEF VInv, VerifyTypeOK
<1> QED
  BY <1>1, <1>2, <1>3, NewRunVInv

(* A load shows something only while no run validates for the shown link.  *)
LEMMA LoadVInv ==
  ASSUME VInv, NEW i \in RunIds, LoadVerify(i)
  PROVE  VInv'
<1> USE DEF VInv
<1>1. Load(i, ready) /\ UNCHANGED <<sidecar, report>>
  BY DEF LoadVerify
<1>2. /\ LinkInv'
      /\ url' = url /\ runId' = runId
      /\ i # runId => phase' = phase
      /\ i = runId => phase \in {"loading", "starting"}
      /\ phase' \in {phase, "loading", "starting", "confirm", "error"}
  BY <1>1, LoadInv
<1>3. VerifyTypeOK'
  <2>1. SidecarTypeOK'
    BY <1>1 DEF VerifyTypeOK, SidecarTypeOK, sidecar
  <2>2. UNCHANGED <<result, callbackFailed, validation, consent, posted>>
    BY <1>1 DEF report
  <2>3. phase' \in {"loading", "starting", "confirm", "validating", "sending", "result", "error"}
    BY <1>2 DEF VerifyTypeOK
  <2> QED
    BY <1>2, <2>1, <2>2, <2>3 DEF VerifyTypeOK, LinkInv
<1>4. RunAhead' /\ Consented' /\ Killable'
  BY <1>1, <1>2 DEF RunAhead, Consented, Killable, report, sidecar
<1>5. RunOwn' /\ Reported'
  <2>1. CASE i = runId
    <3>1. validation[runId].at = "idle"
      BY <1>2, <2>1, RunFacts DEF RunOwn
    <3>2. validation'[runId'].at = "idle"
      BY <1>1, <1>2, <3>1 DEF report
    <3>3. phase' \notin {"sending", "result"}
      BY <1>2, <2>1
    <3> QED
      BY <3>2, <3>3 DEF RunOwn, Reported
  <2>2. CASE i # runId
    BY <1>1, <1>2, <2>2 DEF RunOwn, Reported, report
  <2> QED
    BY <2>1, <2>2
<1> QED
  BY <1>2, <1>3, <1>4, <1>5

(* Past the loading phases the overlay changes phase without a load.       *)
LEMMA PhaseMoves ==
  ASSUME LinkInv, UNCHANGED <<links, url, request, runId, doc, loader>>,
         phase' = phase \/ (/\ phase \notin {"loading", "starting"}
                           /\ phase' \notin {"confirm", "loading", "starting"})
  PROVE  LinkInv'
<1> USE DEF LinkInv
<1>1. LinkTypeOK' /\ RunBound' /\ LoaderAhead'
  BY DEF LinkTypeOK, RunBound, LoaderAhead
<1>2. LoaderOwn' /\ LoaderShown' /\ DocOwn'
  BY DEF LoaderOwn, LoaderShown, DocOwn
<1> QED
  BY <1>1, <1>2

(* The click: the run works for the shown link, and has a consent left.    *)
LEMMA RunValidateVInv == VInv /\ RunValidate => VInv'
<1> SUFFICES ASSUME VInv, RunValidate PROVE VInv'
  OBVIOUS
<1> USE DEF VInv
<1> DEFINE V == [at |-> "validate", link |-> doc]
<1>1. /\ url # 0 /\ phase = "confirm" /\ phase' = "validating"
      /\ consent' = [consent EXCEPT ![url] = @ + 1]
      /\ validation' = [validation EXCEPT ![runId] = V]
      /\ UNCHANGED <<links, url, request, runId, doc, loader>>
      /\ result' = result /\ callbackFailed' = callbackFailed /\ posted' = posted
      /\ UNCHANGED sidecar
  BY DEF RunValidate, Buttons, ConfirmBlock, ResultBlock, ErrorBlock, SpinnerBlock
<1>2. doc = url /\ url \in Links /\ doc \in 0..NLinks
  BY <1>1, LinkFacts DEF LinkInv, DocOwn, LinkTypeOK, Links
<1>3. LinkInv'
  BY <1>1, PhaseMoves
<1>4. V \in [at: {"idle", "validate", "post"}, link: 0..NLinks]
  BY <1>2
<1>5. validation' \in [RunIds -> [at: {"idle", "validate", "post"}, link: 0..NLinks]]
  BY <1>1, <1>4 DEF VerifyTypeOK
<1>6. /\ consent' \in [Links -> Nat]
      /\ \A l \in Links : posted'[l] <= consent'[l]
      /\ posted'[url] < consent'[url]
  <2>1. consent \in [Links -> Nat] /\ posted \in [Links -> Nat]
    BY DEF VerifyTypeOK
  <2>2. consent[url] + 1 \in Nat
    BY <1>2, <2>1
  <2>3. consent' \in [Links -> Nat]
    BY <1>1, <2>1, <2>2
  <2>4. consent'[url] = consent[url] + 1 /\ \A l \in Links : l # url => consent'[l] = consent[l]
    BY <1>1, <1>2, <2>1
  <2>5. \A l \in Links : posted[l] <= consent[l] /\ posted[l] \in Nat /\ consent[l] \in Nat
    BY <2>1 DEF Consented
  <2> QED
    BY <1>1, <1>2, <2>3, <2>4, <2>5
<1>7. VerifyTypeOK'
  <2>1. SidecarTypeOK'
    BY <1>1 DEF VerifyTypeOK, SidecarTypeOK, sidecar
  <2>2. posted' \in [Links -> Nat] /\ result' \in 0..NLinks /\ callbackFailed' \in BOOLEAN
    BY <1>1 DEF VerifyTypeOK
  <2>3. LinkTypeOK'
    BY <1>3 DEF LinkInv
  <2> QED
    BY <1>1, <1>5, <1>6, <2>1, <2>2, <2>3 DEF VerifyTypeOK
<1>8. RunAhead' /\ RunOwn'
  <2>1. validation'[runId] = V /\ \A i \in RunIds : i # runId => validation'[i] = validation[i]
    BY <1>1, RunFacts DEF VerifyTypeOK
  <2>2. RunAhead'
    <3> SUFFICES ASSUME NEW i \in RunIds, validation'[i].at # "idle" PROVE i <= runId
      BY <1>1 DEF RunAhead
    <3> QED
      BY <2>1, RunFacts DEF RunAhead
  <2> QED
    BY <1>1, <1>2, <1>6, <2>1, <2>2 DEF RunOwn
<1>9. Reported' /\ Consented' /\ Killable'
  BY <1>1, <1>6 DEF Reported, Consented, Killable, sidecar
<1> QED
  BY <1>3, <1>7, <1>8, <1>9

(* A run that ends writes nothing unless it is the shown link's.           *)
LEMMA EndVInv ==
  ASSUME VInv, NEW i \in RunIds, ValidationEnds(i), validation[i].at # "idle",
         UNCHANGED <<links, url, request, runId, doc, loader>>,
         UNCHANGED sidecar, result' = result, posted' = posted, consent' = consent,
         callbackFailed' \in BOOLEAN,
         phase' \in {phase, "result", "error"},
         phase' # phase => i = runId,
         phase' = "result" => phase \in {"sending", "result"}
  PROVE  VInv'
<1> USE DEF VInv
<1>1. /\ validation' \in [RunIds -> [at: {"idle", "validate", "post"}, link: 0..NLinks]]
      /\ validation'[i] = NoValidation
      /\ \A j \in RunIds : j # i => validation'[j] = validation[j]
  BY RunFacts DEF ValidationEnds, VerifyTypeOK
<1>2. LinkInv'
  <2>1. phase' = phase \/ (/\ phase \notin {"loading", "starting"}
                          /\ phase' \notin {"confirm", "loading", "starting"})
    <3>1. CASE i = runId
      BY <3>1, RunFacts DEF RunOwn, VerifyTypeOK
    <3>2. CASE i # runId
      BY <3>2
    <3> QED
      BY <3>1, <3>2
  <2> QED
    BY <2>1, PhaseMoves
<1>3. VerifyTypeOK'
  <2>1. SidecarTypeOK'
    BY DEF VerifyTypeOK, SidecarTypeOK, sidecar
  <2>2. consent' \in [Links -> Nat] /\ posted' \in [Links -> Nat] /\ result' \in 0..NLinks
    BY DEF VerifyTypeOK
  <2>3. phase' \in {"loading", "starting", "confirm", "validating", "sending", "result", "error"}
    BY DEF VerifyTypeOK
  <2>4. LinkTypeOK'
    BY <1>2 DEF LinkInv
  <2> QED
    BY <1>1, <2>1, <2>2, <2>3, <2>4 DEF VerifyTypeOK
<1>4. RunAhead'
  BY <1>1, RunFacts DEF RunAhead
<1>5. RunOwn'
  <2>1. CASE i = runId
    BY <1>1, <2>1, RunFacts DEF RunOwn
  <2>2. CASE i # runId
    <3>1. validation'[runId'] = validation[runId] /\ phase' = phase
      BY <1>1, <2>2, RunFacts
    <3> QED
      BY <3>1 DEF RunOwn
  <2> QED
    BY <2>1, <2>2
<1>6. Reported' /\ Consented' /\ Killable'
  BY DEF Reported, Consented, Killable, sidecar
<1> QED
  BY <1>2, <1>3, <1>4, <1>5, <1>6

LEMMA NotValidatedVInv == ASSUME VInv, NEW i \in RunIds, NotValidated(i) PROVE VInv'
<1>1. callbackFailed' \in BOOLEAN
  BY DEF NotValidated, VInv, VerifyTypeOK
<1>2. UNCHANGED sidecar /\ UNCHANGED <<links, url, request, runId, doc, loader>>
  BY DEF NotValidated
<1>3. phase' = IF i = runId THEN "error" ELSE phase
  BY DEF NotValidated, Fail, Shows
<1>4. phase' = "result" => phase \in {"sending", "result"}
  BY <1>3
<1>5. /\ ValidationEnds(i) /\ validation[i].at # "idle"
      /\ result' = result /\ posted' = posted /\ consent' = consent
  BY DEF NotValidated
<1> QED
  BY <1>1, <1>2, <1>3, <1>4, <1>5, EndVInv

LEMMA PostedVInv ==
  ASSUME VInv, NEW i \in RunIds, NEW ok \in BOOLEAN, Posted(i, ok)
  PROVE  VInv'
<1>1. callbackFailed' \in BOOLEAN
  BY DEF Posted, VInv, VerifyTypeOK
<1>2. UNCHANGED sidecar /\ UNCHANGED <<links, url, request, runId, doc, loader>>
  BY DEF Posted
<1>3. phase' = IF i = runId THEN "result" ELSE phase
  BY DEF Posted, Shows
<1>4. phase' = "result" => phase \in {"sending", "result"}
  BY <1>3 DEF Posted, VInv, RunOwn
<1>5. /\ ValidationEnds(i) /\ validation[i].at # "idle"
      /\ result' = result /\ posted' = posted /\ consent' = consent
  BY DEF Posted
<1> QED
  BY <1>1, <1>2, <1>3, <1>4, <1>5, EndVInv

(* A report: the shown link's is posted and uses up a consent.             *)
LEMMA ValidatedVInv == ASSUME VInv, NEW i \in RunIds, Validated(i) PROVE VInv'
<1> USE DEF VInv
<1>1. /\ validation[i].at = "validate" /\ callbackFailed' = callbackFailed
      /\ consent' = consent
      /\ UNCHANGED sidecar /\ UNCHANGED <<links, url, request, runId, doc, loader>>
  BY DEF Validated
<1>2. CASE i # runId
  <2>1. ValidationEnds(i) /\ result' = result /\ phase' = phase /\ posted' = posted
    BY <1>2 DEF Validated
  <2>2. callbackFailed' \in BOOLEAN
    BY <1>1 DEF VerifyTypeOK
  <2> QED
    BY <1>1, <1>2, <2>1, <2>2, EndVInv
<1>3. CASE i = runId
  <2>1. /\ result' = validation[i].link /\ phase' = "sending"
        /\ validation' = [validation EXCEPT ![i].at = "post"]
        /\ posted' = [posted EXCEPT ![validation[i].link] = @ + 1]
    BY <1>3 DEF Validated
  <2>2. /\ url # 0 /\ validation[i].link = url /\ url \in Links /\ url \in 0..NLinks
        /\ phase = "validating" /\ posted[url] < consent[url]
    BY <1>1, <1>3, LinkFacts DEF RunOwn, LinkInv, LinkTypeOK, Links
  <2>3. LinkInv'
    BY <1>1, <2>1, <2>2, PhaseMoves
  <2>4. /\ validation' \in [RunIds -> [at: {"idle", "validate", "post"}, link: 0..NLinks]]
        /\ validation'[i] = [at |-> "post", link |-> url]
        /\ \A j \in RunIds : j # i => validation'[j] = validation[j]
    <3>1. [validation[i] EXCEPT !.at = "post"] = [at |-> "post", link |-> url]
      BY <2>2, RunFacts
    <3>2. validation' = [validation EXCEPT ![i] = [at |-> "post", link |-> url]]
      BY <2>1, <3>1
    <3>3. [at |-> "post", link |-> url] \in [at: {"idle", "validate", "post"}, link: 0..NLinks]
      BY <2>2
    <3> QED
      BY <3>2, <3>3 DEF VerifyTypeOK
  <2>5. posted' \in [Links -> Nat] /\ \A l \in Links : posted'[l] <= consent[l]
    <3>1. consent \in [Links -> Nat] /\ posted \in [Links -> Nat]
      BY DEF VerifyTypeOK
    <3>2. posted[url] + 1 \in Nat /\ posted[url] + 1 <= consent[url]
      BY <2>2, <3>1
    <3>3. posted' = [posted EXCEPT ![url] = posted[url] + 1]
      BY <2>1, <2>2
    <3> QED
      BY <3>1, <3>2, <3>3 DEF Consented
  <2>6. VerifyTypeOK'
    <3>1. SidecarTypeOK'
      BY <1>1 DEF VerifyTypeOK, SidecarTypeOK, sidecar
    <3>2. consent' \in [Links -> Nat] /\ callbackFailed' \in BOOLEAN
      BY <1>1 DEF VerifyTypeOK
    <3>3. LinkTypeOK' /\ result' \in 0..NLinks
      BY <2>1, <2>2, <2>3 DEF LinkInv
    <3> QED
      BY <2>1, <2>4, <2>5, <3>1, <3>2, <3>3 DEF VerifyTypeOK
  <2>7. RunAhead' /\ RunOwn'
    BY <1>1, <1>3, <2>1, <2>2, <2>4 DEF RunAhead, RunOwn
  <2>8. Reported' /\ Consented' /\ Killable'
    BY <1>1, <2>1, <2>2, <2>5 DEF Reported, Consented, Killable, sidecar
  <2> QED
    BY <2>3, <2>6, <2>7, <2>8
<1> QED
  BY <1>2, <1>3
-----------------------------------------------------------------------------
LEMMA StepVInv == VInv /\ [VerifyNext]_verify => VInv'
<1> SUFFICES ASSUME VInv, [VerifyNext]_verify PROVE VInv'
  OBVIOUS
<1>1. CASE User
  BY <1>1, ArrivesVInv, CloseVInv, RunValidateVInv DEF User
<1>2. CASE \E i \in RunIds : LoadVerify(i)
  BY <1>2, LoadVInv
<1>3. CASE \E i \in RunIds : RunStep(i)
  BY <1>3, NotValidatedVInv, ValidatedVInv, PostedVInv DEF RunStep
<1>4. CASE Host /\ UNCHANGED <<link, report>>
  BY <1>4, HostVInv
<1>5. CASE UNCHANGED verify
  <2>1. UNCHANGED sidecar /\ UNCHANGED link /\ UNCHANGED report
    BY <1>5 DEF verify
  <2>2. LinkInv'
    BY <2>1 DEF VInv, link, LinkInv, LinkTypeOK, RunBound, LoaderAhead, LoaderOwn, LoaderShown, DocOwn
  <2>3. VerifyTypeOK'
    BY <2>1, <2>2 DEF VInv, VerifyTypeOK, SidecarTypeOK, LinkInv, link, report, sidecar
  <2>4. RunAhead' /\ RunOwn' /\ Reported' /\ Consented' /\ Killable'
    BY <2>1 DEF VInv, link, report, sidecar, RunAhead, RunOwn, Reported, Consented, Killable
  <2> QED
    BY <2>2, <2>3, <2>4 DEF VInv
<1> QED
  BY <1>1, <1>2, <1>3, <1>4, <1>5 DEF VerifyNext

LEMMA VInvAlways == VerifySpec => []VInv
  BY InitVInv, StepVInv, PTL DEF VerifySpec

(* Every state is well typed: each link takes one run id to open and one   *)
(* to close, and a restart one, so the run ids of the type suffice         *)
(* (DeepLinkVerifyModal.tsx:96-101).                                       *)
THEOREM VerifyTypeCorrect == VerifySpec => []VerifyTypeOK
<1>1. VInv => VerifyTypeOK
  BY DEF VInv
<1> QED
  BY <1>1, VInvAlways, PTL

(* Whatever arrived late, the document and the report on the screen are    *)
(* the shown link's (DeepLinkVerifyModal.tsx:121-212).                     *)
THEOREM ShownIsOwn == VerifySpec => []ShowsOwn
<1>1. VInv => ShowsOwn
  BY DEF VInv, LinkInv, DocOwn, Reported, ShowsOwn
<1> QED
  BY <1>1, VInvAlways, PTL

(* The server dies with the application, by whichever of the two paths it  *)
(* ends (lib.rs:60-72).                                                    *)
THEOREM ServerDiesWithApp == VerifySpec => []NoOrphan
<1>1. VInv => NoOrphan
  BY DEF VInv, Killable, NoOrphan
<1> QED
  BY <1>1, VInvAlways, PTL

(* What is posted is the report of the link on the screen, and the user    *)
(* agreed to each post (DeepLinkVerifyModal.tsx:172-197).                  *)
THEOREM PostsAreShown == VerifySpec => PostsWhatIsShown
<1> DEFINE Fine == \A l \in Links : posted'[l] # posted[l] =>
                     l = url /\ posted'[l] <= consent[l] /\ phase = "validating"
<1>1. VInv /\ VInv' /\ [VerifyNext]_verify => [Fine]_verify
  <2> SUFFICES ASSUME VInv, VInv', VerifyNext PROVE Fine
    OBVIOUS
  <2>1. CASE posted' = posted
    BY <2>1
  <2>2. CASE posted' # posted
    <3>1. PICK i \in RunIds : Validated(i)
      BY <2>2 DEF VerifyNext, User, Arrives, CloseVerify, RunValidate, LoadVerify, RunStep,
                  NotValidated, Posted, Host, report
    <3>2. /\ i = runId /\ validation[i].at = "validate" /\ consent' = consent
          /\ posted' = [posted EXCEPT ![validation[i].link] = @ + 1]
      BY <2>2, <3>1 DEF Validated
    <3>3. validation[i].link = url /\ phase = "validating"
      BY <3>2 DEF VInv, RunOwn
    <3>4. posted \in [Links -> Nat] /\ \A l \in Links : posted'[l] <= consent[l]
      BY <3>2 DEF VInv, VerifyTypeOK, Consented
    <3> QED
      BY <3>2, <3>3, <3>4
  <2> QED
    BY <2>1, <2>2
<1> QED
  BY <1>1, VInvAlways, PTL DEF VerifySpec, PostsWhatIsShown

(* A report that was made reaches the screen although its post failed      *)
(* (DeepLinkVerifyModal.tsx:192-216).                                      *)
THEOREM ReportsSurvive == VerifySpec => ReportSurvivesPost
<1>1. VInv /\ [VerifyNext]_verify =>
        [phase = "sending" /\ phase' # "sending" => phase' = "result" \/ runId' # runId]_verify
  <2> SUFFICES ASSUME VInv, VerifyNext, phase = "sending", phase' # "sending"
               PROVE  phase' = "result" \/ runId' # runId
    OBVIOUS
  <2>1. CASE Arrives
    <3>1. runId' = runId + 1
      BY <2>1, OpenInv, RestartInv DEF Arrives, VInv
    <3> QED
      BY <3>1, RunFacts
  <2>2. CASE CloseVerify \/ RunValidate
    BY <2>2 DEF CloseVerify, Close, RunValidate, Buttons, ConfirmBlock, ResultBlock, ErrorBlock, SpinnerBlock
  <2>3. CASE \E i \in RunIds : LoadVerify(i)
    BY <2>3, LoadInv DEF LoadVerify, VInv
  <2>4. CASE \E i \in RunIds : RunStep(i)
    BY <2>4 DEF RunStep, NotValidated, Validated, Posted, Fail, Shows, VInv, RunOwn
  <2>5. CASE Host /\ UNCHANGED <<link, report>>
    BY <2>5 DEF link
  <2> QED
    BY <2>1, <2>2, <2>3, <2>4, <2>5 DEF VerifyNext, User
<1> QED
  BY <1>1, VInvAlways, PTL DEF VerifySpec, ReportSurvivesPost
-----------------------------------------------------------------------------
(* The overlay keeps the promise of LinkPromise: only the run that holds   *)
(* the current run id takes one of its steps.                              *)

LEMMA LinkPromiseInit == VerifyInit => Promise!Init
  BY DEF VerifyInit, LinkInit, Promise!Init, Visible, Links

(* A link, or the effect once more, shows neither document nor report.     *)
LEMMA ArrivesKeeps == VInv /\ Arrives => Promise!Next
<1> SUFFICES ASSUME VInv, Arrives PROVE Promise!Next
  OBVIOUS
<1>1. doc' = 0 /\ result' = 0 /\ callbackFailed' = FALSE /\ UNCHANGED <<consent, posted>>
      /\ phase' \in {"loading", "error"}
  BY DEF Arrives, Open, Restart, Effect
<1>2. CASE \E parses \in BOOLEAN : Open(parses)
  <2>1. url = 0 /\ links < NLinks /\ links' = links + 1 /\ url' = links' /\ url' # 0
    BY <1>2, LinkFacts DEF Open, Effect, VInv, LinkInv
  <2>2. Promise!Arrive
    BY <1>1, <2>1 DEF Promise!Arrive, Promise!Shows, Visible
  <2> QED
    BY <2>2 DEF Promise!Next
<1>3. CASE Restart
  <2>1. url # 0 /\ url' = url /\ links' = links
    BY <1>3 DEF Restart, Effect
  <2>2. Promise!Restart
    BY <1>1, <2>1 DEF Promise!Restart, Promise!Shows, Visible
  <2> QED
    BY <2>2 DEF Promise!Next
<1> QED
  BY <1>2, <1>3 DEF Arrives

(* The buttons are there in the phases that the promise names.             *)
LEMMA CloseKeeps == VInv /\ CloseVerify => Promise!Next
<1> SUFFICES ASSUME VInv, CloseVerify PROVE Promise!Next
  OBVIOUS
<1>1. url # 0 /\ url' = 0 /\ UNCHANGED <<links, consent, posted>>
      /\ Buttons \cap {"cancel", "close"} # {}
  BY DEF CloseVerify, Close, report
<1>2. phase \in {"confirm", "result", "error"}
  BY <1>1 DEF Buttons, SpinnerBlock
<1>3. Promise!Close
  BY <1>1, <1>2 DEF Promise!Close, Promise!Shows, Visible
<1> QED
  BY <1>3 DEF Promise!Next

LEMMA RunValidateKeeps == VInv /\ RunValidate => Promise!Next
<1> SUFFICES ASSUME VInv, RunValidate PROVE Promise!Next
  OBVIOUS
<1>1. url # 0 /\ "validate" \in Buttons
      /\ consent' = [consent EXCEPT ![url] = @ + 1] /\ phase' = "validating"
      /\ UNCHANGED <<links, url, posted>>
  BY DEF RunValidate
<1>2. phase = "confirm"
  BY <1>1 DEF Buttons, SpinnerBlock, ResultBlock, ErrorBlock
<1>3. Promise!Consent
  BY <1>1, <1>2 DEF Promise!Consent, Promise!Shows, Visible
<1> QED
  BY <1>3 DEF Promise!Next

(* The current load is the shown link's; of a stale one nothing is seen.   *)
LEMMA LoadKeeps ==
  ASSUME VInv, NEW i \in RunIds, LoadVerify(i)
  PROVE  Promise!Next \/ UNCHANGED Promise!vars
<1>1. Load(i, ready) /\ UNCHANGED <<result, callbackFailed, consent, posted>>
  BY DEF LoadVerify, report
<1>2. /\ LinkInv' /\ UNCHANGED <<links, url, runId>>
      /\ i # runId => phase' = phase
      /\ i = runId => phase \in {"loading", "starting"}
      /\ phase' \in {phase, "loading", "starting", "confirm", "error"}
  BY <1>1, LoadInv DEF VInv
<1>3. loader[i].at # "idle"
  BY <1>1 DEF Load, LoadLocal, LoadReady, LoadPoll, LoadFetched
<1>4. CASE i # runId
  <2>1. doc' = doc
    BY <1>1, <1>4 DEF Load, LoadLocal, LoadReady, LoadPoll, LoadFetched
  <2> QED
    BY <1>1, <1>2, <1>4, <2>1 DEF Promise!vars, Visible
<1>5. CASE i = runId
  <2>1. url # 0
    BY <1>3, <1>5 DEF VInv, LinkInv, LoaderOwn
  <2>2. phase' = "confirm" => doc' = url
    BY <1>2, <2>1 DEF LinkInv, DocOwn
  <2>3. Promise!Load
    BY <1>1, <1>2, <1>5, <2>1, <2>2 DEF Promise!Load, Promise!Shows, Visible
  <2> QED
    BY <2>3 DEF Promise!Next
<1> QED
  BY <1>4, <1>5

(* So is the current validation, and the current post.                     *)
LEMMA RunStepKeeps ==
  ASSUME VInv, NEW i \in RunIds, RunStep(i)
  PROVE  Promise!Next \/ UNCHANGED Promise!vars
<1>1. UNCHANGED <<links, url, runId, doc, consent>>
  BY DEF RunStep, NotValidated, Validated, Posted
<1>2. CASE i # runId
  <2>1. UNCHANGED <<phase, result, callbackFailed, posted>>
    BY <1>2 DEF RunStep, NotValidated, Validated, Posted, Fail, Shows
  <2> QED
    BY <1>1, <2>1 DEF Promise!vars, Visible
<1>3. CASE i = runId /\ NotValidated(i)
  <2>1. url # 0 /\ phase = "validating"
    BY <1>3 DEF NotValidated, VInv, RunOwn
  <2>2. phase' = "error" /\ UNCHANGED <<result, callbackFailed, posted>>
    BY <1>3 DEF NotValidated, Fail, Shows
  <2>3. Promise!Refuse
    BY <1>1, <2>1, <2>2 DEF Promise!Refuse, Promise!Shows, Visible
  <2> QED
    BY <2>3 DEF Promise!Next
<1>4. CASE i = runId /\ Validated(i)
  <2>1. url # 0 /\ phase = "validating" /\ validation[i].link = url
    BY <1>4 DEF Validated, VInv, RunOwn
  <2>2. phase' = "sending" /\ result' = url /\ callbackFailed' = callbackFailed
        /\ posted' = [posted EXCEPT ![url] = @ + 1]
    BY <1>4, <2>1 DEF Validated
  <2>3. Promise!Post
    BY <1>1, <2>1, <2>2 DEF Promise!Post, Visible
  <2> QED
    BY <2>3 DEF Promise!Next
<1>5. CASE i = runId /\ \E ok \in BOOLEAN : Posted(i, ok)
  <2>1. url # 0 /\ phase = "sending"
    BY <1>5 DEF Posted, VInv, RunOwn
  <2>2. phase' = "result" /\ callbackFailed' \in BOOLEAN /\ UNCHANGED <<result, posted>>
    BY <1>5 DEF Posted, Shows
  <2>3. Promise!Sent
    BY <1>1, <2>1, <2>2 DEF Promise!Sent, Visible
  <2> QED
    BY <2>3 DEF Promise!Next
<1> QED
  BY <1>2, <1>3, <1>4, <1>5 DEF RunStep

LEMMA LinkPromiseStep == VInv /\ [VerifyNext]_verify => [Promise!Next]_(Promise!vars)
<1> SUFFICES ASSUME VInv, [VerifyNext]_verify
             PROVE  Promise!Next \/ UNCHANGED Promise!vars
  OBVIOUS
<1>1. CASE UNCHANGED <<link, report>>
  BY <1>1 DEF link, report, Promise!vars, Visible
<1>2. CASE User
  BY <1>2, ArrivesKeeps, CloseKeeps, RunValidateKeeps DEF User
<1>3. CASE \E i \in RunIds : LoadVerify(i) \/ RunStep(i)
  BY <1>3, LoadKeeps, RunStepKeeps
<1> QED
  BY <1>1, <1>2, <1>3 DEF VerifyNext, verify

(* The overlay behaves as if there were no run but the shown link's, and   *)
(* each report that leaves answers a consent of its own                    *)
(* (DeepLinkVerifyModal.tsx:113-229).                                      *)
THEOREM LinksKeepPromise == VerifySpec => KeepsLinkPromise
  BY VInvAlways, LinkPromiseInit, LinkPromiseStep, PTL
     DEF VerifySpec, KeepsLinkPromise, Promise!Spec
=============================================================================
