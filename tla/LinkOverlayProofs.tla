------------------------- MODULE LinkOverlayProofs --------------------------
(***************************************************************************)
(* What both overlays rely on: at any time at most one load can still      *)
(* touch what is shown, the one that holds the current run id, and it is   *)
(* the shown link's; and while the overlay says that it loads, there is    *)
(* one.  The modules about one overlay add what that overlay does once the *)
(* document is there.                                                      *)
(***************************************************************************)
EXTENDS LinkOverlay, TLAPS

(* A link costs a run id to open and one to close, a restart one.          *)
RunBound ==
  /\ url # 0 => runId <= 2 * links - 1 + MaxRestarts
  /\ url = 0 => runId <= 2 * links + MaxRestarts

LoaderAhead == \A i \in RunIds : loader[i].at # "idle" => i <= runId

LoaderOwn ==
  loader[runId].at # "idle" =>
    url # 0 /\ request = url /\ loader[runId].link = url /\ phase \in {"loading", "starting"}

LoaderShown == url # 0 /\ phase \in {"loading", "starting"} => loader[runId].at # "idle"

DocOwn ==
  url # 0 => /\ request \in {0, url} /\ doc \in {0, url}
             /\ phase = "confirm" => doc = url /\ request = url

LinkInv == LinkTypeOK /\ RunBound /\ LoaderAhead /\ LoaderOwn /\ LoaderShown /\ DocOwn
-----------------------------------------------------------------------------
LEMMA LinkFacts ==
  ASSUME LinkTypeOK
  PROVE  /\ NLinks \in Nat /\ MaxRestarts \in Nat
         /\ links \in Nat /\ runId \in Nat /\ RunIds \subseteq Nat
         /\ \A i \in Nat : i <= 2 * NLinks + MaxRestarts <=> i \in RunIds
  BY LinksAssumption DEF LinkTypeOK, RunIds

LEMMA LinkInitInv == LinkInit => LinkInv
<1> SUFFICES ASSUME LinkInit PROVE LinkInv
  OBVIOUS
<1>1. 0 \in RunIds /\ RunIds \subseteq Nat
  BY LinksAssumption DEF RunIds
<1>2. LinkTypeOK
  BY <1>1, LinksAssumption DEF LinkInit, LinkTypeOK, NoLoad
<1> QED
  BY <1>1, <1>2, LinksAssumption DEF LinkInit, LinkInv, RunBound, LoaderAhead, LoaderOwn,
                                     LoaderShown, DocOwn, NoLoad

(* The effect starts under a run id that nothing has used.                 *)
LEMMA EffectInv ==
  ASSUME LinkInv, NEW l \in 1..NLinks, NEW parses \in BOOLEAN, Effect(l, parses),
         links' \in 0..NLinks, runId + 1 <= 2 * links' - 1 + MaxRestarts
  PROVE  LinkInv' /\ runId' = runId + 1
<1> USE DEF LinkInv
<1>1. runId' = runId + 1 /\ runId' \in RunIds /\ runId \in Nat /\ runId' \in Nat
      /\ NLinks \in Nat /\ MaxRestarts \in Nat /\ links' \in Nat
  BY LinkFacts DEF Effect
<1>2. loader' \in [RunIds -> [at: {"idle", "ready", "poll", "fetch"}, link: 0..NLinks]]
  <2>1. CASE parses
    <3>1. l \in 0..NLinks
      BY <1>1
    <3>2. [at |-> "ready", link |-> l]
            \in [at: {"idle", "ready", "poll", "fetch"}, link: 0..NLinks]
      BY <3>1
    <3>3. loader' = [loader EXCEPT ![runId'] = [at |-> "ready", link |-> l]]
      BY <2>1 DEF Effect
    <3> QED
      BY <3>2, <3>3 DEF LinkTypeOK
  <2>2. CASE ~parses
    BY <2>2 DEF Effect, LinkTypeOK
  <2> QED
    BY <2>1, <2>2
<1>3. LinkTypeOK'
  BY <1>1, <1>2 DEF Effect, ParseRequest, LinkTypeOK
<1>4. RunBound'
  <2>1. url' = l /\ l # 0
    BY DEF Effect
  <2>2. runId' <= 2 * links' - 1 + MaxRestarts
    BY <1>1
  <2> QED
    BY <2>1, <2>2 DEF RunBound
<1>5. LoaderAhead' /\ LoaderOwn' /\ LoaderShown'
  <2>1. \A i \in RunIds : i # runId' => loader'[i] = loader[i]
    BY <1>1 DEF Effect, ParseRequest, LinkTypeOK
  <2>2. loader[runId'].at = "idle"
    BY <1>1 DEF LoaderAhead
  <2>3. parses => loader'[runId'] = [at |-> "ready", link |-> l]
    BY <1>1 DEF Effect, ParseRequest, LinkTypeOK
  <2>4. ~parses => loader'[runId'] = loader[runId']
    BY DEF Effect
  <2>5. LoaderAhead'
    <3> SUFFICES ASSUME NEW i \in RunIds, loader'[i].at # "idle" PROVE i <= runId'
      BY DEF LoaderAhead
    <3>1. i \in Nat
      BY LinkFacts
    <3> QED
      BY <1>1, <2>1, <3>1 DEF LoaderAhead
  <2>6. LoaderOwn'
    BY <2>2, <2>3, <2>4 DEF LoaderOwn, Effect, ParseRequest
  <2>7. LoaderShown'
    BY <2>3 DEF LoaderShown, Effect
  <2> QED
    BY <2>5, <2>6, <2>7
<1>6. DocOwn'
  BY DEF Effect, ParseRequest, DocOwn
<1> QED
  BY <1>1, <1>3, <1>4, <1>5, <1>6

LEMMA OpenInv ==
  ASSUME LinkInv, NEW parses \in BOOLEAN, Open(parses)
  PROVE  LinkInv' /\ runId' = runId + 1
<1>1. Effect(links', parses) /\ links' = links + 1 /\ url = 0 /\ links < NLinks
  BY DEF Open
<1>2. links' \in 1..NLinks /\ runId + 1 <= 2 * links' - 1 + MaxRestarts
  BY <1>1, LinkFacts DEF LinkInv, RunBound
<1>3. links' \in 0..NLinks
  BY <1>2
<1> QED
  BY <1>1, <1>2, <1>3, EffectInv

LEMMA RestartInv ==
  ASSUME LinkInv, Restart
  PROVE  LinkInv' /\ runId' = runId + 1
<1>1. Effect(url, request # 0) /\ links' = links /\ url # 0
      /\ runId - (2 * links - 1) < MaxRestarts
  BY DEF Restart, Restarts
<1>2. url \in 1..NLinks /\ links' \in 0..NLinks /\ (request # 0) \in BOOLEAN
      /\ runId + 1 <= 2 * links' - 1 + MaxRestarts
  BY <1>1, LinkFacts DEF LinkInv, LinkTypeOK
<1> QED
  BY <1>1, <1>2, EffectInv

(* A closed overlay has no load of its own.                                *)
LEMMA CloseInv ==
  ASSUME LinkInv, NEW offered, Close(offered)
  PROVE  LinkInv' /\ runId' = runId + 1 /\ url' = 0
<1> USE DEF LinkInv
<1>1. runId' = runId + 1 /\ url' = 0 /\ url # 0 /\ runId \in Nat /\ runId' \in Nat
      /\ runId' <= 2 * links + MaxRestarts
      /\ UNCHANGED <<links, request, phase, doc, loader>>
  BY LinkFacts DEF Close, RunBound
<1>2. runId' \in RunIds
  <2>1. links \in Nat /\ links <= NLinks
    BY LinkFacts DEF LinkTypeOK
  <2>2. runId' <= 2 * NLinks + MaxRestarts
    BY <1>1, <2>1, LinkFacts
  <2> QED
    BY <1>1, <2>2, LinkFacts
<1>3. LinkTypeOK'
  BY <1>1, <1>2, LinkFacts DEF LinkTypeOK
<1>4. loader[runId'].at = "idle"
  BY <1>1, <1>2 DEF LoaderAhead
<1>5. LoaderAhead'
  <2> SUFFICES ASSUME NEW i \in RunIds, loader[i].at # "idle" PROVE i <= runId'
    BY <1>1 DEF LoaderAhead
  <2> QED
    BY <1>1, LinkFacts DEF LoaderAhead
<1> QED
  BY <1>1, <1>3, <1>4, <1>5 DEF RunBound, LoaderOwn, LoaderShown, DocOwn

(* A load moves on, and shows something only under the current run id.     *)
LEMMA LoadInv ==
  ASSUME LinkInv, NEW i \in RunIds, NEW ready, Load(i, ready)
  PROVE  /\ LinkInv'
         /\ UNCHANGED <<links, url, request, runId>>
         /\ i # runId => phase' = phase
         /\ i = runId => phase \in {"loading", "starting"}
         /\ phase' \in {phase, "loading", "starting", "confirm", "error"}
<1> USE DEF LinkInv
<1>1. loader[i].at # "idle" /\ UNCHANGED <<links, url, request, runId>>
  BY DEF Load, LoadLocal, LoadReady, LoadPoll, LoadFetched
<1>2. PICK at \in {"idle", "poll", "fetch"}, k \in {0, loader[i].link} :
        /\ loader' = [loader EXCEPT ![i] = [at |-> at, link |-> k]]
        /\ at # "idle" => k = loader[i].link
  <2>1. loader[i] \in [at: {"idle", "ready", "poll", "fetch"}, link: 0..NLinks]
    BY DEF LinkTypeOK
  <2>2. CASE LoaderEnds(i)
    BY <2>2 DEF LoaderEnds, NoLoad
  <2>3. CASE ~LoaderEnds(i)
    <3>1. \E at \in {"poll", "fetch"} : loader' = [loader EXCEPT ![i].at = at]
      <4>1. CASE LoadReady(i, ready)
        <5>1. loader' = [loader EXCEPT ![i].at = IF ready THEN "fetch" ELSE "poll"]
          BY <2>3, <4>1 DEF LoadReady
        <5> QED
          BY <5>1
      <4>2. CASE LoadPoll(i, ready)
        BY <2>3, <4>2 DEF LoadPoll
      <4>3. CASE \E ok \in BOOLEAN : LoadFetched(i, ok)
        BY <2>3, <4>3 DEF LoadFetched
      <4> QED
        BY <4>1, <4>2, <4>3 DEF Load, LoadLocal
    <3>2. PICK at \in {"poll", "fetch"} : loader' = [loader EXCEPT ![i].at = at]
      BY <3>1
    <3>3. [loader[i] EXCEPT !.at = at] = [at |-> at, link |-> loader[i].link]
      BY <2>1
    <3>4. loader' = [loader EXCEPT ![i] = [at |-> at, link |-> loader[i].link]]
      BY <3>2, <3>3
    <3> QED
      BY <3>4
  <2> QED
    BY <2>2, <2>3
<1>3. /\ loader' \in [RunIds -> [at: {"idle", "ready", "poll", "fetch"}, link: 0..NLinks]]
      /\ loader'[i] = [at |-> at, link |-> k]
      /\ \A j \in RunIds : j # i => loader'[j] = loader[j]
  <2>1. k \in 0..NLinks
    <3>1. loader[i] \in [at: {"idle", "ready", "poll", "fetch"}, link: 0..NLinks]
      BY DEF LinkTypeOK
    <3>2. 0 \in 0..NLinks
      BY LinkFacts
    <3> QED
      BY <1>2, <3>1, <3>2
  <2>2. [at |-> at, link |-> k] \in [at: {"idle", "ready", "poll", "fetch"}, link: 0..NLinks]
    BY <2>1
  <2> QED
    BY <1>2, <2>2 DEF LinkTypeOK
<1>4. /\ doc' \in {doc, loader[i].link}
      /\ i # runId => doc' = doc /\ phase' = phase
      /\ phase' \in {phase, "loading", "starting", "confirm", "error"}
      /\ i = runId => (at # "idle" <=> phase' \in {"loading", "starting"})
      /\ i = runId /\ phase' = "confirm" => doc' = loader[i].link
  <2>1. CASE LoadReady(i, ready)
    <3>1. doc' = doc
      BY <2>1 DEF LoadReady
    <3>2. CASE i # runId
      BY <2>1, <3>1, <3>2 DEF LoadReady
    <3>3. CASE i = runId
      <4>1. phase' \in {"loading", "starting"}
        BY <2>1, <3>3 DEF LoadReady
      <4>2. loader'[i].at \in {"fetch", "poll"}
        BY <2>1, <3>3 DEF LoadReady, LinkTypeOK
      <4>3. at # "idle"
        BY <1>3, <4>2
      <4> QED
        BY <3>1, <3>3, <4>1, <4>3
    <3> QED
      BY <3>2, <3>3
  <2>2. CASE LoadPoll(i, ready)
    <3>1. doc' = doc
      BY <2>2 DEF LoadPoll
    <3>2. CASE i # runId
      BY <2>2, <3>1, <3>2 DEF LoadPoll
    <3>3. CASE i = runId /\ ready
      <4>1. phase' = "loading"
        BY <2>2, <3>3 DEF LoadPoll
      <4>2. loader'[i].at = "fetch"
        BY <2>2, <3>3 DEF LoadPoll, LinkTypeOK
      <4>3. at # "idle"
        BY <1>3, <4>2
      <4> QED
        BY <3>1, <3>3, <4>1, <4>3
    <3>4. CASE i = runId /\ ~ready
      <4>1. LoaderEnds(i) /\ phase' = "error"
        BY <2>2, <3>4 DEF LoadPoll, Fail, Shows
      <4>2. at = "idle"
        BY <1>3, <4>1 DEF LoaderEnds, NoLoad, LinkTypeOK
      <4> QED
        BY <3>1, <3>4, <4>1, <4>2
    <3> QED
      BY <3>2, <3>3, <3>4
  <2>3. CASE \E ok \in BOOLEAN : LoadFetched(i, ok)
    <3>1. PICK ok \in BOOLEAN : LoadFetched(i, ok)
      BY <2>3
    <3>2. at = "idle"
      BY <1>3, <3>1 DEF LoadFetched, LoaderEnds, NoLoad, LinkTypeOK
    <3>3. CASE ok
      BY <3>1, <3>2, <3>3 DEF LoadFetched, Shows
    <3>4. CASE ~ok
      BY <3>1, <3>2, <3>4 DEF LoadFetched, Shows, Fail
    <3> QED
      BY <3>3, <3>4
  <2> QED
    BY <2>1, <2>2, <2>3 DEF Load, LoadLocal
<1>5. LinkTypeOK'
  <2>1. doc' \in 0..NLinks
    BY <1>4 DEF LinkTypeOK
  <2> QED
    BY <1>1, <1>3, <2>1 DEF LinkTypeOK
<1>6. RunBound'
  BY <1>1 DEF RunBound
<1>7. LoaderAhead'
  BY <1>1, <1>3 DEF LoaderAhead
<1>8. LoaderOwn'
  BY <1>1, <1>2, <1>3, <1>4 DEF LoaderOwn, LinkTypeOK
<1>9. DocOwn'
  BY <1>1, <1>4 DEF DocOwn, LoaderOwn
<1>10. LoaderShown'
  <2>1. CASE i = runId
    BY <1>1, <1>3, <1>4, <2>1 DEF LoaderShown, LinkTypeOK
  <2>2. CASE i # runId
    BY <1>1, <1>3, <1>4, <2>2 DEF LoaderShown, LinkTypeOK
  <2> QED
    BY <2>1, <2>2
<1>11. i = runId => phase \in {"loading", "starting"}
  BY <1>1 DEF LoaderOwn
<1> QED
  BY <1>1, <1>4, <1>5, <1>6, <1>7, <1>8, <1>9, <1>10, <1>11
=============================================================================
