------------------------ MODULE DeepLinkSignProofs --------------------------
(***************************************************************************)
(* A signing link, for any number of links, runs, cards and clients.       *)
(* AllInv holds for any number of clicks and restarts of the effect: it    *)
(* makes every step of the overlay at most one step of the signing core,   *)
(* it has no signature without a click, and it ties the phase to the runs  *)
(* and loads that hold the current run id.                                 *)
(***************************************************************************)
EXTENDS DeepLinkSign, ContextProofs, LinkOverlayProofs, FiniteSetTheorems

Phases == {"loading", "starting", "confirm", "signing", "sending", "success", "error"}
AfterPin == {"prepare", "sign", "assemble", "post"}
Owing == {"unlock", "prepare", "sign"}

SignRecord == [at: {"idle"} \cup Owing \cup AfterPin,
               id: RunIds, link: 0..NLinks, cert: Cards \cup {NoCard}]

OverlayType ==
  /\ onboarded \in BOOLEAN /\ ready \in BOOLEAN
  /\ phase \in Phases /\ fallback \in 0..NLinks
  /\ sign \in [Flows -> SignRecord]
  /\ consent \in [Links -> Nat] /\ \A l \in Links : consent[l] <= MaxConsents[l]
  /\ made \in [Links -> Nat]

(* A run works for a link the user confirmed, after the PIN with a card's  *)
(* certificate and, once the card has answered, a signature; one that      *)
(* holds the current run id is the shown link's, whose document is no      *)
(* longer being loaded.                                                    *)
RunOk(r) ==
  /\ r.at # "idle" => r.link \in Links /\ r.id <= runId /\ consent[r.link] > 0
  /\ r.at # "idle" /\ r.id = runId =>
       url # 0 /\ r.link = url /\ request # 0 /\ loader[runId].at = "idle"
  /\ r.at \in AfterPin => r.cert \in Cards
  /\ r.at \in {"assemble", "post"} => made[r.link] > 0

RunsOk == \A f \in Flows : RunOk(sign[f])

(* A run waits for the PIN exactly while its ensureUnlocked is in progress.*)
RunEnsures == \A f \in Flows : ensure[f] # "idle" <=> sign[f].at = "unlock"

(* The runs of a link that may still have the card sign.                   *)
Owes(r, l) == r.at \in Owing /\ r.link = l
Owed(l)    == {f \in Flows : Owes(sign[f], l)}

OwedBound ==
  \A l \in Links : IsFiniteSet(Owed(l)) /\ made[l] + Cardinality(Owed(l)) <= consent[l]

(* A phase that waits for a run has one, and one that says a signature is  *)
(* made has that.                                                          *)
PhaseFits ==
  url # 0 => /\ phase \in {"signing", "sending"} => \E f \in Flows : Works(f)
             /\ phase = "success" => request # 0
             /\ phase \in {"sending", "success"} => made[url] > 0

DInv == LinkInv /\ OverlayType /\ RunsOk /\ RunEnsures /\ OwedBound /\ PhaseFits

AllInv == SInv /\ CInv /\ DInv
-----------------------------------------------------------------------------
LEMMA NumberFacts ==
  /\ NLinks \in Nat /\ MaxRestarts \in Nat /\ MaxConsents \in [Links -> Nat]
  /\ Links \subseteq Nat /\ Links \subseteq 0..NLinks /\ 0 \notin Links
  /\ \A l \in 0..NLinks : l # 0 => l \in Links
  /\ 0 \in RunIds /\ RunIds \subseteq Nat
  BY LinksAssumption, ConsentsAssumption DEF Links, RunIds

LEMMA NoSignFacts ==
  NoSign \in SignRecord /\ NoSign.at = "idle" /\ RunOk(NoSign) /\ \A l : ~Owes(NoSign, l)
<1>1. 0 \in 0..NLinks /\ 0 \in RunIds
  BY NumberFacts
<1> QED
  BY <1>1 DEF NoSign, SignRecord, RunOk, AfterPin, Owes, Owing

(* One run moves, the others do not.                                       *)
LEMMA OneSign ==
  ASSUME OverlayType, NEW f \in Flows, NEW r \in SignRecord, sign' = [sign EXCEPT ![f] = r]
  PROVE  /\ sign' \in [Flows -> SignRecord] /\ sign'[f] = r
         /\ \A g \in Flows \ {f} : sign'[g] = sign[g]
  BY DEF OverlayType

(* What a run owes is one of what its link's consents allow.               *)
LEMMA OwedStep ==
  ASSUME OverlayType, OwedBound, NEW f \in Flows, sign' \in [Flows -> SignRecord],
         \A g \in Flows \ {f} : sign'[g] = sign[g],
         consent' \in [Links -> Nat], made' \in [Links -> Nat],
         \A l \in Links :
           made'[l] + (IF Owes(sign'[f], l) THEN 1 ELSE 0) + consent[l]
             <= consent'[l] + (IF Owes(sign[f], l) THEN 1 ELSE 0) + made[l]
  PROVE  OwedBound'
<1> SUFFICES ASSUME NEW l \in Links
             PROVE  IsFiniteSet(Owed(l)') /\ made'[l] + Cardinality(Owed(l)') <= consent'[l]
  BY DEF OwedBound
<1> DEFINE Others == Owed(l) \ {f}
<1>1. /\ IsFiniteSet(Owed(l)) /\ made[l] + Cardinality(Owed(l)) <= consent[l]
      /\ Cardinality(Owed(l)) \in Nat
  BY FS_CardinalityType DEF OwedBound
<1>2. /\ IsFiniteSet(Others) /\ Cardinality(Others) \in Nat
      /\ Cardinality(Owed(l)) = Cardinality(Others) + IF Owes(sign[f], l) THEN 1 ELSE 0
  <2>1. f \in Owed(l) <=> Owes(sign[f], l)
    BY DEF Owed
  <2>2. IsFiniteSet(Others) /\ Cardinality(Others) \in Nat
    BY <1>1, FS_RemoveElement, FS_CardinalityType
  <2>3. Cardinality(Others) = IF f \in Owed(l) THEN Cardinality(Owed(l)) - 1
                              ELSE Cardinality(Owed(l))
    BY <1>1, FS_RemoveElement
  <2> HIDE DEF Others
  <2> QED
    BY <1>1, <2>1, <2>2, <2>3
<1>3. Owed(l)' = IF Owes(sign'[f], l) THEN Others \cup {f} ELSE Others
  BY DEF Owed, Owes
<1>4. f \notin Others
  OBVIOUS
<1> HIDE DEF Others
<1>5. /\ IsFiniteSet(Owed(l)')
      /\ Cardinality(Owed(l)') = Cardinality(Others) + IF Owes(sign'[f], l) THEN 1 ELSE 0
  BY <1>2, <1>3, <1>4, FS_AddElement
<1>6. made[l] \in Nat /\ consent[l] \in Nat /\ made'[l] \in Nat /\ consent'[l] \in Nat
  BY NumberFacts DEF OverlayType
<1>7. CASE Owes(sign[f], l)
  BY <1>1, <1>2, <1>5, <1>6, <1>7
<1>8. CASE ~Owes(sign[f], l)
  BY <1>1, <1>2, <1>5, <1>6, <1>8
<1> QED
  BY <1>7, <1>8
-----------------------------------------------------------------------------
(* Steps that leave the runs alone.                                        *)

LEMMA RunsKept ==
  ASSUME DInv, LinkInv', OverlayType', UNCHANGED <<sign, consent, made>>,
         \A g \in Flows : ensure'[g] = "idle" <=> ensure[g] = "idle",
         \/ runId' = runId + 1 /\ (url' = 0 \/ phase' \in {"loading", "error"})
         \/ /\ UNCHANGED <<runId, url, request>>
            /\ phase' \in {phase, "loading", "starting", "confirm", "error"}
            /\ loader[runId].at = "idle" => loader'[runId].at = "idle"
  PROVE  DInv'
<1> USE DEF DInv
<1>1. RunsOk'
  <2> SUFFICES ASSUME NEW f \in Flows PROVE RunOk(sign[f])'
    BY DEF RunsOk
  <2>1. RunOk(sign[f]) /\ sign'[f] = sign[f] /\ sign[f].id \in Nat /\ runId \in Nat
    BY NumberFacts, LinkFacts DEF RunsOk, OverlayType, SignRecord, LinkInv
  <2> QED
    BY <2>1 DEF RunOk
<1>2. RunEnsures'
  BY DEF RunEnsures
<1>3. OwedBound'
  <2>1. \A l \in Links : Owed(l)' = Owed(l)
    BY DEF Owed, Owes
  <2> QED
    BY <2>1 DEF OwedBound
<1>4. PhaseFits'
  <2>1. CASE url' = 0 \/ phase' \in {"loading", "starting", "confirm", "error"}
    BY <2>1 DEF PhaseFits
  <2>2. CASE UNCHANGED <<runId, url, request, phase>>
    BY <2>2 DEF PhaseFits, Works
  <2> QED
    BY <2>1, <2>2
<1> QED
  BY <1>1, <1>2, <1>3, <1>4

(* Everything else happens beside the overlay.                             *)
LEMMA OverlaySame ==
  ASSUME DInv, UNCHANGED overlay, \A g \in Flows : ensure'[g] = "idle" <=> ensure[g] = "idle"
  PROVE  DInv'
<1>1. /\ UNCHANGED <<onboarded, ready, fallback, sign, consent, made>>
      /\ UNCHANGED <<links, url, request, runId, phase, doc, loader>>
  BY DEF overlay, link
<1>2. LinkInv' /\ OverlayType'
  BY <1>1 DEF DInv, LinkInv, LinkTypeOK, RunBound, LoaderAhead, LoaderOwn, LoaderShown, DocOwn, OverlayType
<1> QED
  BY <1>1, <1>2, RunsKept

LEMMA QuietSteps ==
  ASSUME AllInv, UNCHANGED <<vars, context>>
  PROVE  Steps /\ CInv' /\ ensure' = ensure
  BY ContextSame DEF Steps, AllInv

LEMMA GateInv ==
  ASSUME AllInv, BackendUp \/ SwitchGate
  PROVE  Steps /\ CInv' /\ DInv'
<1>1. /\ UNCHANGED <<vars, context, link, fallback, sign, consent, made>>
      /\ ready' \in BOOLEAN /\ onboarded' \in BOOLEAN
  BY DEF BackendUp, SwitchGate, AllInv, DInv, OverlayType
<1>2. Steps /\ CInv' /\ ensure' = ensure
  BY <1>1, QuietSteps
<1>3. UNCHANGED <<links, url, request, runId, phase, doc, loader>>
  BY <1>1 DEF link
<1>4. LinkInv' /\ OverlayType'
  BY <1>1, <1>3
  DEF AllInv, DInv, LinkInv, LinkTypeOK, RunBound, LoaderAhead, LoaderOwn, LoaderShown, DocOwn, OverlayType
<1> QED
  BY <1>1, <1>2, <1>3, <1>4, RunsKept DEF AllInv

LEMMA ArrivesInv ==
  ASSUME AllInv, Arrives
  PROVE  /\ Steps /\ CInv' /\ DInv'
         /\ runId' = runId + 1
<1>1. /\ UNCHANGED <<vars, context, onboarded, ready, sign, consent, made>> /\ fallback' = 0
      /\ (\E parses \in BOOLEAN : Open(parses)) \/ Restart
  BY DEF Arrives
<1>2. Steps /\ CInv' /\ ensure' = ensure
  BY <1>1, QuietSteps
<1>3. LinkInv' /\ runId' = runId + 1
  BY <1>1, OpenInv, RestartInv DEF AllInv, DInv
<1>4. phase' \in {"loading", "error"}
  BY <1>1 DEF Open, Restart, Effect
<1>5. OverlayType'
  BY <1>1, <1>4, NumberFacts DEF OverlayType, Phases, AllInv, DInv
<1> QED
  BY <1>1, <1>2, <1>3, <1>4, <1>5, RunsKept DEF AllInv

LEMMA CloseSignInv ==
  ASSUME AllInv, CloseSign
  PROVE  /\ Steps /\ CInv' /\ DInv'
         /\ runId' = runId + 1
<1> DEFINE offered == Buttons \cap {"cancel", "close"} # {}
<1>1. /\ UNCHANGED <<vars, context, onboarded, ready, fallback, sign, consent, made>>
      /\ Close(offered)
  BY DEF CloseSign
<1> HIDE DEF offered
<1>2. Steps /\ CInv' /\ ensure' = ensure
  BY <1>1, QuietSteps
<1>3. LinkInv' /\ runId' = runId + 1 /\ url' = 0
  BY <1>1, CloseInv DEF AllInv, DInv
<1>4. OverlayType'
  BY <1>1 DEF OverlayType, AllInv, DInv, Close
<1> QED
  BY <1>1, <1>2, <1>3, <1>4, RunsKept DEF AllInv

LEMMA LoadSignInv ==
  ASSUME AllInv, NEW i \in RunIds, LoadSign(i)
  PROVE  /\ Steps /\ CInv' /\ DInv'
<1>1. /\ UNCHANGED <<vars, context, onboarded, ready, fallback, sign, consent, made>>
      /\ Load(i, ready)
  BY DEF LoadSign
<1>2. Steps /\ CInv' /\ ensure' = ensure
  BY <1>1, QuietSteps
<1>3. /\ LinkInv' /\ UNCHANGED <<links, url, request, runId>>
      /\ i # runId => phase' = phase
      /\ i = runId => phase \in {"loading", "starting"}
      /\ phase' \in {phase, "loading", "starting", "confirm", "error"}
  BY <1>1, LoadInv DEF AllInv, DInv
<1>4. OverlayType'
  BY <1>1, <1>3 DEF OverlayType, Phases, AllInv, DInv
<1>5. /\ loader[i].at # "idle"
      /\ \A j \in RunIds : j # i => loader'[j] = loader[j]
  <2>1. loader[i].at # "idle" /\ loader \in [RunIds -> [at: {"idle", "ready", "poll", "fetch"},
                                                        link: 0..NLinks]]
    BY <1>1 DEF Load, LoadLocal, LoadReady, LoadPoll, LoadFetched, AllInv, DInv, LinkInv, LinkTypeOK
  <2>2. \E x : loader' = [loader EXCEPT ![i] = x]
    <3>1. CASE LoaderEnds(i)
      BY <3>1 DEF LoaderEnds
    <3>2. ASSUME NEW at, loader' = [loader EXCEPT ![i].at = at]
          PROVE  \E x : loader' = [loader EXCEPT ![i] = x]
      BY <3>2
    <3>3. CASE LoadReady(i, ready)
      BY <3>1, <3>2, <3>3 DEF LoadReady
    <3>4. CASE LoadPoll(i, ready)
      BY <3>1, <3>2, <3>4 DEF LoadPoll
    <3>5. CASE \E ok \in BOOLEAN : LoadFetched(i, ok)
      BY <3>1, <3>5 DEF LoadFetched
    <3> QED
      BY <1>1, <3>3, <3>4, <3>5 DEF Load, LoadLocal
  <2> QED
    BY <2>1, <2>2
<1>6. loader[runId].at = "idle" => loader'[runId].at = "idle"
  BY <1>5 DEF AllInv, DInv, LinkInv, LinkTypeOK
<1> QED
  BY <1>1, <1>2, <1>3, <1>4, <1>6, RunsKept DEF AllInv
-----------------------------------------------------------------------------
(* Steps of a run.                                                         *)

(* What every step of a run after the click has in common.                 *)
Moved(f, r) ==
  /\ sign' = [sign EXCEPT ![f] = r]
  /\ UNCHANGED <<onboarded, ready, links, url, request, runId, doc, loader, consent>>
  /\ sign[f].at # "idle" /\ r.at # "unlock"
  /\ r.at # "idle" => r.id = sign[f].id /\ r.link = sign[f].link
  /\ r.at \in AfterPin => r.cert \in Cards
  /\ \/ phase' = phase
     \/ sign[f].id = runId /\ phase' \in {"signing", "sending", "success", "error"}
  /\ phase' # phase /\ phase' \in {"signing", "sending"} => r.at \in AfterPin
  /\ phase' # phase /\ phase' \in {"sending", "success"} => sign[f].at \in {"assemble", "post"}
  /\ Works(f) /\ r.at = "idle" => phase' \in {"success", "error"}
  /\ fallback' \in {fallback, sign[f].link}
  /\ r.at = "post" => sign[f].at \in {"assemble", "post"}
  /\ r.at \in Owing => sign[f].at \in Owing
  /\ \/ made' = made /\ r.at # "assemble"
     \/ /\ sign[f].at = "sign" /\ r.at = "assemble"
        /\ made' = [made EXCEPT ![sign[f].link] = @ + 1]

LEMMA MovedInv ==
  ASSUME DInv, NEW f \in Flows, NEW r \in SignRecord, Moved(f, r), ensure'[f] = "idle",
         \A g \in Flows \ {f} : ensure'[g] = "idle" <=> ensure[g] = "idle"
  PROVE  DInv'
<1> USE DEF DInv
<1>1. /\ sign' \in [Flows -> SignRecord] /\ sign'[f] = r
      /\ \A g \in Flows \ {f} : sign'[g] = sign[g]
  BY OneSign DEF Moved
<1>2. RunOk(sign[f]) /\ sign[f].link \in Links /\ sign[f] \in SignRecord
  BY DEF RunsOk, RunOk, Moved, OverlayType
<1>3. UNCHANGED <<links, url, request, runId, doc, loader>>
  BY DEF Moved
<1>4. LinkInv'
  <2>1. \/ phase' = phase
        \/ loader[runId].at = "idle" /\ phase' \notin {"confirm", "loading", "starting"}
    BY <1>2 DEF RunOk, Moved
  <2> QED
    BY <1>3, <2>1
    DEF LinkInv, LinkTypeOK, RunBound, LoaderAhead, LoaderOwn, LoaderShown, DocOwn
<1>5. OverlayType'
  <2>1. made' \in [Links -> Nat]
    BY <1>2 DEF Moved, OverlayType
  <2>2. phase' \in Phases
    BY DEF Moved, OverlayType, Phases
  <2>3. fallback' \in 0..NLinks
    BY <1>2, NumberFacts DEF Moved, OverlayType
  <2> QED
    BY <1>1, <2>1, <2>2, <2>3 DEF Moved, OverlayType
<1>6. \A l \in Links : made[l] > 0 => made'[l] > 0
  <2> SUFFICES ASSUME NEW l \in Links, made[l] > 0 PROVE made'[l] > 0
    OBVIOUS
  <2>1. made[l] \in Nat /\ made'[l] \in {made[l], made[l] + 1}
    BY <1>2 DEF Moved, OverlayType
  <2> QED
    BY <2>1
<1>7. RunsOk'
  <2> SUFFICES ASSUME NEW g \in Flows PROVE RunOk(sign[g])'
    BY DEF RunsOk
  <2>1. CASE g = f
    <3>1. r.at = "idle" => RunOk(r)'
      BY DEF RunOk, AfterPin
    <3>2. ASSUME r.at # "idle"
          PROVE  /\ r.link \in Links /\ r.id <= runId /\ consent[r.link] > 0
                 /\ r.id = runId =>
                      url # 0 /\ r.link = url /\ request # 0 /\ loader[runId].at = "idle"
      BY <1>2, <3>2 DEF RunOk, Moved
    <3>3. r.at \in AfterPin => r.cert \in Cards
      BY DEF Moved
    <3>4. r.at \in {"assemble", "post"} => made'[r.link] > 0
      <4>1. CASE r.at = "post"
        <5>1. made[sign[f].link] > 0 /\ r.link = sign[f].link /\ made' = made
          BY <1>2, <4>1 DEF RunOk, Moved
        <5> QED
          BY <5>1
      <4>2. CASE r.at = "assemble"
        <5>1. made' = [made EXCEPT ![sign[f].link] = @ + 1] /\ r.link = sign[f].link
          BY <4>2 DEF Moved
        <5>2. made'[r.link] = made[r.link] + 1 /\ made[r.link] \in Nat
          BY <1>2, <5>1 DEF OverlayType
        <5> QED
          BY <5>2
      <4> QED
        BY <4>1, <4>2
    <3>5. consent' = consent
      BY DEF Moved
    <3> QED
      BY <1>1, <1>3, <2>1, <3>2, <3>3, <3>4, <3>5 DEF RunOk
  <2>2. CASE g # f
    <3>1. sign'[g] = sign[g] /\ RunOk(sign[g]) /\ consent' = consent
      BY <1>1, <2>2 DEF RunsOk, Moved
    <3>2. \A l \in Links : made[l] > 0 => made'[l] > 0
      BY <1>6
    <3>3. sign[g].at \in {"assemble", "post"} => sign[g].at # "idle"
      OBVIOUS
    <3> QED
      BY <1>3, <3>1, <3>2, <3>3 DEF RunOk
  <2> QED
    BY <2>1, <2>2
<1>8. RunEnsures'
  BY <1>1 DEF RunEnsures, Moved
<1>9. OwedBound'
  <2>1. ASSUME NEW l \in Links
        PROVE  made'[l] + (IF Owes(r, l) THEN 1 ELSE 0) + consent[l]
                 <= consent'[l] + (IF Owes(sign[f], l) THEN 1 ELSE 0) + made[l]
    <3>1. made[l] \in Nat /\ consent[l] \in Nat /\ consent'[l] = consent[l]
      BY NumberFacts DEF OverlayType, Moved
    <3>2. Owes(r, l) => Owes(sign[f], l)
      BY DEF Owes, Moved, Owing
    <3>3. CASE made' = made
      BY <3>1, <3>2, <3>3
    <3>4. CASE /\ sign[f].at = "sign" /\ r.at = "assemble"
               /\ made' = [made EXCEPT ![sign[f].link] = @ + 1]
      <4>1. ~Owes(r, l) /\ (Owes(sign[f], l) <=> l = sign[f].link)
        BY <3>4 DEF Owes, Owing
      <4>2. made'[l] = made[l] + IF l = sign[f].link THEN 1 ELSE 0
        BY <1>2, <3>1, <3>4 DEF OverlayType
      <4> QED
        BY <3>1, <4>1, <4>2
    <3> QED
      BY <3>3, <3>4 DEF Moved
  <2>2. consent' \in [Links -> Nat]
    BY NumberFacts DEF OverlayType, Moved
  <2> QED
    BY <1>1, <1>5, <2>1, <2>2, OwedStep DEF OverlayType
<1>10. PhaseFits'
  <2> SUFFICES ASSUME url # 0
               PROVE  /\ phase' \in {"signing", "sending"} => \E g \in Flows : Works(g)'
                      /\ phase' = "success" => request # 0
                      /\ phase' \in {"sending", "success"} => made'[url] > 0
    BY <1>3 DEF PhaseFits
  <2>1. CASE phase' = phase
    <3>1. ASSUME phase \in {"signing", "sending"} PROVE \E g \in Flows : Works(g)'
      <4>1. PICK g \in Flows : Works(g)
        BY <3>1 DEF PhaseFits
      <4>2. CASE g = f
        <5>1. r.at # "idle" /\ r.id = runId
          BY <2>1, <3>1, <4>1, <4>2 DEF Moved, Works
        <5> QED
          BY <1>1, <1>3, <5>1 DEF Works, Moved
      <4>3. CASE g # f
        BY <1>1, <1>3, <4>1, <4>3 DEF Works
      <4> QED
        BY <4>2, <4>3
    <3>2. url \in Links
      BY NumberFacts DEF LinkInv, LinkTypeOK
    <3> QED
      BY <1>6, <2>1, <3>1, <3>2 DEF PhaseFits
  <2>2. CASE phase' # phase
    <3>1. /\ sign[f].id = runId /\ sign[f].link = url /\ request # 0
          /\ phase' \in {"signing", "sending", "success", "error"}
      BY <1>2, <2>2 DEF Moved, RunOk
    <3>2. ASSUME phase' \in {"signing", "sending"} PROVE Works(f)'
      BY <1>1, <1>3, <2>2, <3>1, <3>2 DEF Moved, Works, AfterPin
    <3>3. phase' \in {"sending", "success"} => made[url] > 0
      BY <1>2, <2>2, <3>1 DEF Moved, RunOk
    <3> QED
      BY <1>2, <1>6, <3>1, <3>2, <3>3
  <2> QED
    BY <2>1, <2>2
<1> QED
  BY <1>4, <1>5, <1>7, <1>8, <1>9, <1>10

(* The click.                                                              *)
LEMMA ConfirmInv ==
  ASSUME AllInv, NEW f \in Flows, Confirm(f)
  PROVE  Steps /\ CInv' /\ DInv'
<1> USE DEF AllInv, DInv
<1> DEFINE r == [NoSign EXCEPT !.at = "unlock", !.id = runId, !.link = doc]
<1>1. /\ url # 0 /\ sign[f] = NoSign /\ consent[url] < MaxConsents[url]
      /\ ensure[f] = "idle" /\ Moves(f, "status")
      /\ cached' = [cached EXCEPT ![f] = certificates]
      /\ sign' = [sign EXCEPT ![f] = r]
      /\ consent' = [consent EXCEPT ![url] = @ + 1]
      /\ UNCHANGED <<vars, available, certificates, pinOpen, pad, pinResolver, probe, given>>
      /\ UNCHANGED <<onboarded, ready, link, fallback, made>>
  BY DEF Confirm, EnsureUnlocked
<1>2. phase = "confirm" /\ request # 0 /\ doc # 0
  BY DEF Confirm, Buttons, SpinnerBlock, ConfirmBlock, SuccessBlock, ErrorBlock
<1>3. UNCHANGED <<links, url, request, runId, phase, doc, loader>>
  BY <1>1 DEF link
<1>4. url \in Links /\ doc = url /\ loader[runId].at = "idle" /\ runId \in RunIds /\ runId \in Nat
  BY <1>1, <1>2, NumberFacts, LinkFacts DEF LinkInv, LinkTypeOK, DocOwn, LoaderOwn
<1>5. /\ r \in SignRecord /\ r.at = "unlock" /\ r.id = runId /\ r.link = url
  BY <1>4, NumberFacts DEF NoSign, SignRecord, Owing, AfterPin
<1> HIDE DEF r
<1>6. /\ sign' \in [Flows -> SignRecord] /\ sign'[f] = r
      /\ \A g \in Flows \ {f} : sign'[g] = sign[g]
  BY <1>1, <1>5, OneSign
<1>7. /\ CInv' /\ ensure'[f] = "status"
      /\ \A g \in Flows : g # f => ensure'[g] = ensure[g]
  <2>1. cached' \in [Flows -> Cards \cup {NoCard}]
    BY <1>1 DEF CInv, ContextTypeOK
  <2> QED
    BY <1>1, <2>1, MovesCInv DEF Awaits
<1>8. /\ consent' \in [Links -> Nat] /\ consent'[url] = consent[url] + 1
      /\ \A l \in Links : l # url => consent'[l] = consent[l]
      /\ consent[url] \in Nat /\ consent'[url] <= MaxConsents[url]
  <2>1. consent \in [Links -> Nat] /\ consent[url] \in Nat /\ MaxConsents[url] \in Nat
    BY <1>4, NumberFacts DEF OverlayType
  <2>2. consent[url] + 1 \in Nat /\ consent[url] + 1 <= MaxConsents[url]
    BY <1>1, <2>1
  <2> QED
    BY <1>1, <1>4, <2>1, <2>2
<1>9. OverlayType'
  BY <1>1, <1>3, <1>6, <1>8 DEF OverlayType
<1>10. LinkInv'
  BY <1>3 DEF LinkInv, LinkTypeOK, RunBound, LoaderAhead, LoaderOwn, LoaderShown, DocOwn
<1>11. RunsOk'
  <2> SUFFICES ASSUME NEW g \in Flows PROVE RunOk(sign[g])'
    BY DEF RunsOk
  <2>1. CASE g = f
    <3>1. request # 0
      BY <1>2
    <3>2. consent'[url] > 0
      BY <1>8
    <3> QED
      BY <1>1, <1>3, <1>4, <1>5, <1>6, <2>1, <3>1, <3>2 DEF RunOk, AfterPin
  <2>2. CASE g # f
    <3>1. sign'[g] = sign[g] /\ RunOk(sign[g])
      BY <1>6, <2>2 DEF RunsOk
    <3>2. \A l \in Links : consent[l] > 0 => consent'[l] > 0
      BY <1>8
    <3> QED
      BY <1>1, <1>3, <3>1, <3>2 DEF RunOk
  <2> QED
    BY <2>1, <2>2
<1>12. RunEnsures'
  BY <1>5, <1>6, <1>7 DEF RunEnsures
<1>13. OwedBound'
  <2>1. ASSUME NEW l \in Links
        PROVE  made'[l] + (IF Owes(r, l) THEN 1 ELSE 0) + consent[l]
                 <= consent'[l] + (IF Owes(sign[f], l) THEN 1 ELSE 0) + made[l]
    <3>1. made[l] \in Nat /\ consent[l] \in Nat /\ made'[l] = made[l]
      BY <1>1, NumberFacts DEF OverlayType
    <3>2. Owes(r, l) <=> l = url
      BY <1>5 DEF Owes, Owing
    <3>3. ~Owes(sign[f], l)
      BY <1>1, NoSignFacts
    <3>4. consent'[l] = consent[l] + IF l = url THEN 1 ELSE 0
      BY <1>8, <3>1
    <3> QED
      BY <3>1, <3>2, <3>3, <3>4
  <2>2. consent' \in [Links -> Nat] /\ made' \in [Links -> Nat]
    BY <1>1, <1>8, NumberFacts DEF OverlayType
  <2> QED
    BY <1>6, <2>1, <2>2, OwedStep
<1>14. Steps
  BY <1>1 DEF Steps
<1>15. PhaseFits'
  BY <1>2, <1>3 DEF PhaseFits
<1> QED
  BY <1>7, <1>9, <1>10, <1>11, <1>12, <1>13, <1>14, <1>15

(* A run ends, and shows what it may.                                      *)
LEMMA EndsMoved ==
  ASSUME OverlayType, NEW f \in Flows, sign[f].at # "idle", SignEnds(f),
         UNCHANGED <<onboarded, ready, links, url, request, runId, doc, loader, consent, made>>,
         NEW p \in {"success", "error"}, p = "success" => sign[f].at = "post",
         Shows(sign[f].id, p) \/ (phase' = phase /\ ~Works(f)),
         fallback' \in {fallback, sign[f].link}
  PROVE  Moved(f, NoSign)
<1>1. sign' = [sign EXCEPT ![f] = NoSign]
  BY DEF SignEnds
<1>2. phase' = phase \/ (sign[f].id = runId /\ phase' = p)
  BY DEF Shows
<1>3. Works(f) => phase' \in {"success", "error"}
  BY DEF Shows, Works
<1> QED
  BY <1>1, <1>2, <1>3, NoSignFacts DEF Moved, AfterPin, Owing

LEMMA SignUnlockedMoved ==
  ASSUME AllInv, NEW f \in Flows, SignUnlocked(f)
  PROVE  /\ Steps /\ CInv' /\ DInv'
         /\ \E r \in SignRecord : Moved(f, r)
<1> USE DEF AllInv, DInv
<1>1. /\ sign[f].at = "unlock" /\ Settled(f) /\ Moves(f, "idle")
      /\ UNCHANGED <<vars, available, certificates, pinOpen, pad, pinResolver, probe, cached, given>>
      /\ UNCHANGED <<onboarded, ready, links, url, request, runId, doc, loader, fallback,
                     consent, made>>
  BY DEF SignUnlocked
<1>2. CInv' /\ ensure'[f] = "idle" /\ \A g \in Flows : g # f => ensure'[g] = ensure[g]
  <2>1. ensure[f] # "pin" /\ cached' \in [Flows -> Cards \cup {NoCard}]
    BY <1>1 DEF Settled, CInv, ContextTypeOK
  <2> QED
    BY <1>1, <2>1, MovesCInv DEF Awaits
<1>3. \E r \in SignRecord : Moved(f, r)
  <2>1. CASE ensure[f] = "ready" /\ Chosen(f) # NoCard /\ sign[f].id = runId
    <3> DEFINE r == [sign[f] EXCEPT !.at = "prepare", !.cert = Chosen(f)]
    <3>1. sign[f] \in SignRecord
      BY DEF OverlayType
    <3>2. Chosen(f) \in Cards
      BY <2>1 DEF Chosen, CInv, ContextTypeOK
    <3>3. /\ sign' = [sign EXCEPT ![f].at = "prepare", ![f].cert = Chosen(f)]
          /\ phase' = "signing"
      BY <2>1 DEF SignUnlocked
    <3>4. sign' = [sign EXCEPT ![f] = r]
      BY <3>1, <3>3 DEF OverlayType
    <3>5. r \in SignRecord /\ r.at = "prepare" /\ r.id = sign[f].id /\ r.link = sign[f].link
          /\ r.cert \in Cards
      BY <3>1, <3>2 DEF SignRecord, Owing, AfterPin
    <3> HIDE DEF r
    <3>7. Moved(f, r)
      BY <1>1, <2>1, <3>3, <3>4, <3>5 DEF Moved, AfterPin, Owing
    <3> QED
      BY <3>5, <3>7
  <2>2. CASE ~(ensure[f] = "ready" /\ Chosen(f) # NoCard /\ sign[f].id = runId)
    <3>1. SignEnds(f) /\ (Shows(sign[f].id, "error") \/ phase' = phase) /\ ~Works(f)
      BY <1>1, <2>2 DEF SignUnlocked, Fail, Works
    <3>2. PICK p \in {"success", "error"} : p = "error"
      OBVIOUS
    <3>3. Moved(f, NoSign)
      BY <1>1, <3>1, <3>2, EndsMoved
    <3> QED
      BY <3>3, NoSignFacts
  <2> QED
    BY <2>1, <2>2
<1>4. DInv'
  BY <1>2, <1>3, MovedInv
<1>5. Steps
  BY <1>1 DEF Steps
<1> QED
  BY <1>2, <1>3, <1>4, <1>5

(* A run that goes on to its next await.                                   *)
LEMMA AtMoved ==
  ASSUME OverlayType, RunsOk, NEW f \in Flows, sign[f].at \in AfterPin,
         NEW at \in {"sign", "assemble", "post"}, SignAt(f, at),
         UNCHANGED <<onboarded, ready, links, url, request, runId, doc, loader, consent, fallback>>,
         \/ phase' = phase /\ at # "post"
         \/ phase' = "sending" /\ at = "post" /\ sign[f].at = "assemble" /\ sign[f].id = runId,
         at = "sign" => sign[f].at = "prepare",
         \/ made' = made /\ at # "assemble"
         \/ /\ sign[f].at = "sign" /\ at = "assemble"
            /\ made' = [made EXCEPT ![sign[f].link] = @ + 1]
  PROVE  \E r \in SignRecord : Moved(f, r)
<1> DEFINE r == [sign[f] EXCEPT !.at = at]
<1>1. sign[f] \in SignRecord /\ RunOk(sign[f])
  BY DEF OverlayType, RunsOk
<1>2. /\ r \in SignRecord /\ r.at = at /\ r.id = sign[f].id /\ r.link = sign[f].link
      /\ r.cert = sign[f].cert
  BY <1>1 DEF SignRecord, AfterPin
<1>3. sign' = [sign EXCEPT ![f] = r]
  BY DEF SignAt
<1> HIDE DEF r
<1>4. r.cert \in Cards
  BY <1>1, <1>2 DEF RunOk
<1>5. /\ r.at \notin {"idle", "unlock"} /\ sign[f].at # "idle"
      /\ r.at \in AfterPin /\ (r.at \in Owing => sign[f].at \in Owing)
  BY <1>2 DEF AfterPin, Owing
<1>6. Moved(f, r)
  BY <1>2, <1>3, <1>4, <1>5 DEF Moved
<1> QED
  BY <1>2, <1>6

LEMMA SignStepMoved ==
  ASSUME AllInv, NEW f \in Flows, SignStep(f)
  PROVE  /\ Steps /\ CInv' /\ DInv'
         /\ \E r \in SignRecord : Moved(f, r)
<1> USE DEF AllInv, DInv
<1>1. sign[f].at \in AfterPin
      /\ UNCHANGED <<onboarded, ready, links, url, request, runId, doc, loader, consent>>
  BY DEF SignStep, SignPrepared, SignAnswered, SignAssembled, Posted, AfterPin
<1>2. UNCHANGED context
  BY DEF SignStep, SignPrepared, SignAnswered, SignAssembled, Posted
<1>3. CInv' /\ ensure' = ensure /\ ensure[f] = "idle"
  BY <1>1, <1>2, ContextSame DEF RunEnsures, AfterPin
<1>4. sign[f].at # "idle"
  BY <1>1 DEF AfterPin
<1>5. ASSUME SignEnds(f), made' = made, NEW p \in {"success", "error"},
             p = "success" => sign[f].at = "post",
             Shows(sign[f].id, p) \/ (phase' = phase /\ ~Works(f)),
             fallback' \in {fallback, sign[f].link}
      PROVE  \E r \in SignRecord : Moved(f, r)
  BY <1>1, <1>4, <1>5, EndsMoved, NoSignFacts
<1>6. \E r \in SignRecord : Moved(f, r)
  <2>1. ASSUME NEW ok \in BOOLEAN, SignPrepared(f, ok) PROVE \E r \in SignRecord : Moved(f, r)
    <3>1. sign[f].at = "prepare" /\ UNCHANGED <<made, fallback>>
      BY <2>1 DEF SignPrepared
    <3>2. CASE ok
      <4>1. SignAt(f, "sign") /\ phase' = phase
        BY <2>1, <3>2 DEF SignPrepared
      <4> QED
        BY <1>1, <3>1, <4>1, AtMoved
    <3>3. CASE ~ok
      <4>1. SignEnds(f) /\ Shows(sign[f].id, "error")
        BY <2>1, <3>3 DEF SignPrepared, Fail
      <4> QED
        BY <1>5, <3>1, <4>1
    <3> QED
      BY <3>2, <3>3
  <2>2. ASSUME SignAnswered(f) PROVE \E r \in SignRecord : Moved(f, r)
    <3>1. sign[f].at = "sign" /\ fallback' = fallback
      BY <2>2 DEF SignAnswered
    <3>2. CASE reply[f].code = "ok"
      <4>1. /\ SignAt(f, "assemble") /\ phase' = phase
            /\ made' = [made EXCEPT ![sign[f].link] = @ + 1]
        BY <2>2, <3>2 DEF SignAnswered
      <4> QED
        BY <1>1, <3>1, <4>1, AtMoved
    <3>3. CASE reply[f].code # "ok"
      <4>1. SignEnds(f) /\ Shows(sign[f].id, "error") /\ made' = made
        BY <2>2, <3>3 DEF SignAnswered, Fail
      <4> QED
        BY <1>5, <3>1, <4>1
    <3> QED
      BY <3>2, <3>3
  <2>3. ASSUME NEW ok \in BOOLEAN, SignAssembled(f, ok) PROVE \E r \in SignRecord : Moved(f, r)
    <3>1. sign[f].at = "assemble" /\ UNCHANGED <<made, fallback>>
      BY <2>3 DEF SignAssembled
    <3>2. CASE ok /\ sign[f].id = runId
      <4>1. SignAt(f, "post") /\ phase' = "sending"
        BY <2>3, <3>2 DEF SignAssembled
      <4> QED
        BY <1>1, <3>1, <3>2, <4>1, AtMoved
    <3>3. CASE ~(ok /\ sign[f].id = runId)
      <4>1. SignEnds(f) /\ (Shows(sign[f].id, "error") \/ (phase' = phase /\ ~Works(f)))
        BY <2>3, <3>3 DEF SignAssembled, Fail, Works
      <4> QED
        BY <1>5, <3>1, <4>1
    <3> QED
      BY <3>2, <3>3
  <2>4. ASSUME NEW ok \in BOOLEAN, Posted(f, ok) PROVE \E r \in SignRecord : Moved(f, r)
    <3>1. /\ sign[f].at = "post" /\ SignEnds(f) /\ made' = made
          /\ Shows(sign[f].id, IF ok THEN "success" ELSE "error")
          /\ fallback' = IF ok THEN fallback ELSE sign[f].link
      BY <2>4 DEF Posted
    <3>2. (IF ok THEN "success" ELSE "error") \in {"success", "error"}
      OBVIOUS
    <3> QED
      BY <1>5, <3>1, <3>2
  <2> QED
    BY <2>1, <2>2, <2>3, <2>4 DEF SignStep
<1>7. DInv'
  BY <1>3, <1>6, MovedInv
<1>8. Steps
  <2>1. CASE SignAnswered(f)
    BY <2>1, ClientFacts DEF SignAnswered, Steps, Next
  <2>2. CASE UNCHANGED vars
    BY <2>2 DEF Steps
  <2> QED
    BY <2>1, <2>2 DEF SignStep, SignPrepared, SignAssembled, Posted
<1> QED
  BY <1>3, <1>6, <1>7, <1>8
-----------------------------------------------------------------------------
(* The command, the modal, the world and the card leave the overlay alone. *)

LEMMA RunSignInv ==
  ASSUME AllInv, NEW f \in Flows, RunSign(f)
  PROVE  /\ Steps /\ CInv' /\ DInv'
         /\ UNCHANGED overlay
<1>1. UNCHANGED <<context, overlay>> /\ sign[f].at = "sign"
      /\ (SignBegin(f, KeyIdOf[sign[f].cert]) \/ SignRefused(f, TRUE) \/ OpenFails(f, "sign"))
  BY DEF RunSign
<1>2. CInv' /\ ensure' = ensure
  BY <1>1, ContextSame DEF AllInv
<1>3. DInv'
  BY <1>1, <1>2, OverlaySame DEF AllInv
<1>4. KeyIdOf[sign[f].cert] \in KeyIds
  BY <1>1, SignerAssumption DEF AllInv, DInv, RunsOk, RunOk, AfterPin
<1>5. Command(f)
  BY <1>1, <1>4 DEF Command, Ops
<1>6. Steps
  BY <1>5, ClientFacts DEF Steps, Next
<1> QED
  BY <1>1, <1>2, <1>3, <1>6

LEMMA OutsideInv ==
  ASSUME AllInv, UNCHANGED overlay,
         \/ PinModal \/ ContextEvent
         \/ (World \/ TokenAnswers) /\ UNCHANGED context
  PROVE  Steps /\ CInv' /\ DInv'
<1> USE DEF AllInv
<1>1. CASE PinModal \/ ContextEvent
  <2>1. Steps
    BY <1>1, ContextSteps
  <2>2. CInv' /\ \A g \in Flows : ensure'[g] = "idle" <=> ensure[g] = "idle"
    BY <1>1, PinModalCInv, ContextEventCInv
  <2> QED
    BY <2>1, <2>2, OverlaySame
<1>2. CASE (World \/ TokenAnswers) /\ UNCHANGED context
  <2>1. Steps
    BY <1>2 DEF Steps, Next
  <2>2. CInv' /\ ensure' = ensure
    BY <1>2, ContextSame
  <2> QED
    BY <2>1, <2>2, OverlaySame
<1> QED
  BY <1>1, <1>2

LEMMA StepAllInv == AllInv /\ [DeepLinkNext]_deepLink => AllInv' /\ Steps
<1> SUFFICES ASSUME AllInv, [DeepLinkNext]_deepLink PROVE AllInv' /\ Steps
  OBVIOUS
<1> DEFINE Good == Steps /\ CInv' /\ DInv'
<1>1. ASSUME NEW f \in Flows, SignUnlocked(f) \/ SignStep(f) PROVE Good
  BY <1>1, SignUnlockedMoved, SignStepMoved
<1>2. ASSUME User PROVE Good
  BY <1>2, ArrivesInv, CloseSignInv, ConfirmInv DEF User
<1>3. ASSUME BackendUp \/ SwitchGate PROVE Good
  BY <1>3, GateInv
<1>4. ASSUME NEW i \in RunIds, LoadSign(i) PROVE Good
  BY <1>4, LoadSignInv
<1>5. ASSUME NEW f \in Flows, RunSign(f) PROVE Good
  BY <1>5, RunSignInv
<1>6. ASSUME \/ (PinModal \/ ContextEvent) /\ UNCHANGED overlay
             \/ World /\ UNCHANGED <<context, overlay>>
             \/ CardAnswers
      PROVE  Good
  BY <1>6, OutsideInv DEF CardAnswers
<1>7. ASSUME UNCHANGED deepLink PROVE Good
  <2>1. UNCHANGED <<vars, context>> /\ UNCHANGED overlay
    BY <1>7 DEF deepLink
  <2> QED
    BY <2>1, QuietSteps, OverlaySame DEF AllInv
<1>8. Good
  BY <1>1, <1>2, <1>3, <1>4, <1>5, <1>6, <1>7 DEF DeepLinkNext
<1>9. SInv'
  BY <1>8, StepSInv DEF AllInv
<1> QED
  BY <1>8, <1>9 DEF AllInv

LEMMA InitAllInv == DeepLinkInit => AllInv
<1> SUFFICES ASSUME DeepLinkInit PROVE AllInv
  OBVIOUS
<1>1. SInv /\ CInv /\ LinkInv
  BY InitSInv, InitCInv, LinkInitInv DEF DeepLinkInit
<1>2. /\ \A f \in Flows : sign[f] = NoSign /\ ensure[f] = "idle"
      /\ \A l \in Links : consent[l] = 0 /\ made[l] = 0
  BY DEF DeepLinkInit, ContextInit
<1>3. OverlayType
  BY NoSignFacts, NumberFacts DEF DeepLinkInit, LinkInit, OverlayType, Phases
<1>4. RunsOk /\ RunEnsures
  BY <1>2, NoSignFacts DEF RunsOk, RunEnsures
<1>5. OwedBound
  <2>1. \A l \in Links : Owed(l) = {}
    BY <1>2, NoSignFacts DEF Owed
  <2> QED
    BY <1>2, <2>1, FS_EmptySet DEF OwedBound
<1>6. PhaseFits
  BY DEF DeepLinkInit, LinkInit, PhaseFits
<1> QED
  BY <1>1, <1>3, <1>4, <1>5, <1>6 DEF AllInv, DInv

LEMMA AlwaysAllInv == DeepLinkSpec => []AllInv
  BY InitAllInv, StepAllInv, PTL DEF DeepLinkSpec
-----------------------------------------------------------------------------
(* Type correctness, for any number of links, clicks, restarts, cards.     *)
THEOREM DeepLinkTypeCorrect == DeepLinkSpec => []DeepLinkTypeOK
<1>1. AllInv => DeepLinkTypeOK
  BY DEF AllInv, SInv, IInv, CInv, DInv, LinkInv, OverlayType, SignRecord, Phases, Owing,
         AfterPin, DeepLinkTypeOK
<1> QED
  BY AlwaysAllInv, <1>1, PTL

(* The card makes no signature for a link without a click of its own,      *)
(* however many runs, failures and restarts there are                      *)
(* (DeepLinkSignModal.tsx:156-222).                                        *)
THEOREM SignaturesAreConsented == DeepLinkSpec => []OneSignaturePerConsent
<1>1. AllInv => OneSignaturePerConsent
  <2> SUFFICES ASSUME AllInv, NEW l \in Links PROVE made[l] <= consent[l]
    BY DEF OneSignaturePerConsent
  <2>1. /\ Cardinality(Owed(l)) \in Nat /\ made[l] + Cardinality(Owed(l)) <= consent[l]
        /\ made[l] \in Nat /\ consent[l] \in Nat
    BY FS_CardinalityType, NumberFacts DEF AllInv, DInv, OwedBound, OverlayType
  <2> QED
    BY <2>1
<1> QED
  BY AlwaysAllInv, <1>1, PTL

(* The overlay drives the signing core as Signer describes it, so every    *)
(* theorem of SignerProofs holds under it: a link's signatures keep to the *)
(* PIN session (session.rs:29-33, signer.rs:102-129).                      *)
THEOREM DeepLinkRunsSigner == DeepLinkSpec => Spec
<1>1. DeepLinkInit => Init
  BY DEF DeepLinkInit
<1>2. AllInv /\ [DeepLinkNext]_deepLink => [Next]_vars
  BY StepAllInv DEF Steps
<1> QED
  BY AlwaysAllInv, <1>1, <1>2, PTL DEF DeepLinkSpec, Spec

(* Signing for a link keeps the promise of PinSession: every signature is  *)
(* under a PIN presented to the inserted card, within the idle TTL         *)
(* (session.rs:29-33, signer.rs:102-129).                                  *)
THEOREM DeepLinkKeepsPinSession == DeepLinkSpec => ImplementsPinSession
  BY DeepLinkRunsSigner, Refinement
-----------------------------------------------------------------------------
(* What the screen shows, for any number of clicks and restarts.           *)

(* A spinner of the link on the screen has work behind it: no failure,     *)
(* cancelled prompt, stale load or second run leaves the overlay without   *)
(* a button and without an end (DeepLinkSignModal.tsx:98-222).             *)
THEOREM SpinnersHaveWork == DeepLinkSpec => []SpinnerHasWork
<1>1. AllInv => SpinnerHasWork
  <2> SUFFICES ASSUME AllInv, Stuck
               PROVE  loader[runId].at # "idle" \/ \E f \in Flows : Works(f)
    BY DEF SpinnerHasWork
  <2>1. url # 0 /\ Buttons = {}
    BY DEF Stuck
  <2>2. phase \notin {"confirm", "success", "error"}
    <3>1. phase = "confirm" => request # 0 /\ doc # 0
      BY <2>1 DEF AllInv, DInv, LinkInv, DocOwn
    <3>2. phase = "success" => request # 0
      BY <2>1 DEF AllInv, DInv, PhaseFits
    <3> QED
      BY <2>1, <3>1, <3>2 DEF Buttons, ConfirmBlock, SuccessBlock, ErrorBlock
  <2> QED
    BY <2>1, <2>2 DEF AllInv, DInv, OverlayType, Phases, LinkInv, LoaderShown, PhaseFits
<1> QED
  BY AlwaysAllInv, <1>1, PTL

(* Whoever waits for a PIN for the link on the screen can leave, wherever  *)
(* the modal is and whatever runs the link has                             *)
(* (App.tsx:335, DeepLinkSignModal.tsx:160-176).                           *)
THEOREM WaitersCanLeave == DeepLinkSpec => []WaiterCanLeave
<1>1. AllInv => WaiterCanLeave
  <2> SUFFICES ASSUME AllInv, NEW f \in Flows, ensure[f] = "pin", url # 0, sign[f].id = runId
               PROVE  Buttons \cap {"cancel", "close"} # {} \/ \E g \in Flows : Works(g)
    BY DEF WaiterCanLeave
  <2>1. sign[f].at = "unlock"
    BY DEF AllInv, DInv, RunEnsures
  <2>2. request # 0 /\ loader[runId].at = "idle"
    BY <2>1 DEF AllInv, DInv, RunsOk, RunOk
  <2>3. phase \notin {"loading", "starting"}
    BY <2>2 DEF AllInv, DInv, LinkInv, LoaderShown
  <2>4. phase = "confirm" => doc # 0
    BY DEF AllInv, DInv, LinkInv, DocOwn
  <2>5. phase \in {"confirm", "success", "error"} => Buttons \cap {"cancel", "close"} # {}
    BY <2>2, <2>4 DEF Buttons, ConfirmBlock, SuccessBlock, ErrorBlock
  <2> QED
    BY <2>3, <2>5 DEF AllInv, DInv, OverlayType, Phases, PhaseFits
<1> QED
  BY AlwaysAllInv, <1>1, PTL

(* What an overlay asks consent for is its own link's document, and what   *)
(* it says is sent or delivered is a signature made for its own link       *)
(* (DeepLinkSignModal.tsx:94-150,196-216).                                 *)
THEOREM OverlaysAreOwn == DeepLinkSpec => []OverlayIsOwn
<1>1. AllInv => OverlayIsOwn
  BY DEF AllInv, DInv, LinkInv, DocOwn, PhaseFits, OverlayIsOwn
<1> QED
  BY AlwaysAllInv, <1>1, PTL
=============================================================================
