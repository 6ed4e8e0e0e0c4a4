----------------------------- MODULE LinkOverlay ----------------------------
(***************************************************************************)
(* What the two overlays of eudss:// links share: the handler of App.tsx,  *)
(* the effect that loads the link's document, fail and close.  Every await *)
(* is guarded by a run id taken when the work began; a link, a close and a *)
(* restart of the effect make the run ids before them stale.  Links are    *)
(* numbered as they arrive.                                                *)
(***************************************************************************)
EXTENDS Naturals

CONSTANTS
  NLinks,       (* bound: links handled                                    *)
  MaxRestarts   (* bound: restarts of the effect                           *)

ASSUME LinksAssumption == NLinks \in Nat /\ MaxRestarts \in Nat

VARIABLES
  links,     (* links handled so far                                       *)
  url,       (* the link the overlay is showing, or 0                      *)
  request,   (* the link whose parsed request is in state, or 0            *)
  runId,     (* runIdRef.current                                           *)
  phase,     (* the overlay's phase                                        *)
  doc,       (* the link whose document is in state, or 0                  *)
  loader     (* per run id, where the loading effect is, and for which link *)

link == <<links, url, request, runId, phase, doc, loader>>

Links  == 1..NLinks
RunIds == 0..(2 * NLinks + MaxRestarts)
NoLoad == [at |-> "idle", link |-> 0]

LinkTypeOK ==
  /\ links \in 0..NLinks
  /\ url \in 0..NLinks
  /\ request \in 0..NLinks
  /\ runId \in RunIds
  /\ doc \in 0..NLinks
  /\ loader \in [RunIds -> [at: {"idle", "ready", "poll", "fetch"}, link: 0..NLinks]]

LinkInit ==
  /\ links = 0
  /\ url = 0
  /\ request = 0
  /\ runId = 0
  /\ phase = "loading"
  /\ doc = 0
  /\ loader = [i \in RunIds |-> NoLoad]
-----------------------------------------------------------------------------
(* The request of a link, or none: another action, a missing parameter, a  *)
(* URL of the document or of the callback that does not parse.             *)
ParseRequest(l, parses) == IF parses THEN l ELSE 0

(* The effect resets the overlay; a link that does not parse is refused.   *)
Effect(l, parses) ==
  /\ url' = l
  /\ runId' = runId + 1
  /\ doc' = 0
  /\ request' = ParseRequest(l, parses)
  /\ IF parses
       THEN /\ phase' = "loading"
            /\ loader' = [loader EXCEPT ![runId'] = [at |-> "ready", link |-> l]]
       ELSE /\ phase' = "error"
            /\ UNCHANGED loader

(* A link arrives.  While one is shown it is ignored: no action.           *)
Open(parses) ==
  /\ url = 0
  /\ links < NLinks
  /\ links' = links + 1
  /\ Effect(links', parses)

(* Each link takes a run id and gives it up when it is closed; the others  *)
(* are those of restarts.                                                  *)
Restarts == runId - (2 * links - IF url = 0 THEN 0 ELSE 1)

(* The language is switched while a link is shown: the effect depends on   *)
(* the translations and starts over.                                       *)
Restart ==
  /\ url # 0
  /\ Restarts < MaxRestarts
  /\ Effect(url, request # 0)
  /\ UNCHANGED links

(* A close that also answers when no overlay is shown.                     *)
CloseAnytime(offered) ==
  /\ offered
  /\ url' = 0
  /\ runId' = runId + 1
  /\ UNCHANGED <<links, request, phase, doc, loader>>

(* A button that closes, where the block shown has one.                    *)
Close(offered) ==
  /\ url # 0
  /\ offered
  /\ url' = 0
  /\ runId' = runId + 1
  /\ UNCHANGED <<links, request, phase, doc, loader>>

Shows(id, p) == phase' = IF id = runId THEN p ELSE phase

(* fail(msg, runId) *)
Fail(id) == Shows(id, "error")
-----------------------------------------------------------------------------
(* The loading effect with run id i; ready is what backendApi.ready        *)
(* answers.                                                                *)

LoaderEnds(i) == loader' = [loader EXCEPT ![i] = NoLoad]

(* The first look at the sidecar.                                          *)
LoadReady(i, ready) ==
  /\ loader[i].at = "ready"
  /\ IF i # runId
       THEN LoaderEnds(i) /\ UNCHANGED phase
       ELSE /\ loader' = [loader EXCEPT ![i].at = IF ready THEN "fetch" ELSE "poll"]
            /\ phase' = IF ready THEN "loading" ELSE "starting"
  /\ UNCHANGED <<links, url, request, runId, doc>>

(* A poll without its 30 s deadline.                                       *)
LoadPollForever(i, ready) ==
  /\ loader[i].at = "poll"
  /\ ready \/ i # runId
  /\ IF i = runId
       THEN loader' = [loader EXCEPT ![i].at = "fetch"] /\ phase' = "loading"
       ELSE LoaderEnds(i) /\ UNCHANGED phase
  /\ UNCHANGED <<links, url, request, runId, doc>>

(* A poll that ends at its deadline without a word.                        *)
LoadPollGivesUp(i, ready) ==
  /\ loader[i].at = "poll"
  /\ IF i = runId /\ ready
       THEN loader' = [loader EXCEPT ![i].at = "fetch"] /\ phase' = "loading"
       ELSE LoaderEnds(i) /\ UNCHANGED phase
  /\ UNCHANGED <<links, url, request, runId, doc>>

(* The poll sees the sidecar up, or gives up after 30 s.                   *)
LoadPoll(i, ready) ==
  /\ loader[i].at = "poll"
  /\ \/ /\ i # runId
        /\ LoaderEnds(i)
        /\ UNCHANGED phase
     \/ /\ i = runId
        /\ ready
        /\ loader' = [loader EXCEPT ![i].at = "fetch"]
        /\ phase' = "loading"
     \/ /\ i = runId
        /\ ~ready
        /\ LoaderEnds(i)
        /\ Fail(i)
  /\ UNCHANGED <<links, url, request, runId, doc>>

(* An effect that shows a document without asking whether it is stale.     *)
LoadFetchedUnguarded(i, ok) ==
  /\ loader[i].at = "fetch"
  /\ LoaderEnds(i)
  /\ IF ok THEN doc' = loader[i].link /\ phase' = "confirm"
           ELSE Fail(i) /\ UNCHANGED doc
  /\ UNCHANGED <<links, url, request, runId>>

(* fetchDoc answered.                                                      *)
LoadFetched(i, ok) ==
  /\ loader[i].at = "fetch"
  /\ LoaderEnds(i)
  /\ IF ok
       THEN /\ doc' = IF i = runId THEN loader[i].link ELSE doc
            /\ Shows(i, "confirm")
       ELSE /\ Fail(i)
            /\ UNCHANGED doc
  /\ UNCHANGED <<links, url, request, runId>>

LoadLocal(i, ready) == LoadReady(i, ready) \/ LoadPoll(i, ready)

Load(i, ready) == LoadLocal(i, ready) \/ \E ok \in BOOLEAN : LoadFetched(i, ok)
=============================================================================
