----------------------------- MODULE LinkPromise ----------------------------
(***************************************************************************)
(* What an eudss://verify link promises its user, with no mention of run   *)
(* ids, of the sidecar, or of work that a later link has overtaken.  One   *)
(* link is on the screen at a time.  What is shown is its own document and *)
(* its own report; its document is sent nowhere before the user's consent, *)
(* and each consent lets one report leave the machine.  Whatever ends the  *)
(* link's work ends it for good.  Module DeepLinkVerify implements it.     *)
(***************************************************************************)
EXTENDS Naturals

CONSTANTS NLinks   (* links handled *)

VARIABLES
  links,     (* links so far                                               *)
  url,       (* the link on the screen, or 0                               *)
  phase,     (* how far it is, "closed" when there is none                 *)
  document,  (* the link whose document is offered for validation, or 0    *)
  report,    (* the link whose report is shown, or 0                       *)
  failed,    (* the report is shown as one that did not reach the site     *)
  consent,   (* per link, times the user agreed                            *)
  posted     (* per link, reports that left                                *)

vars == <<links, url, phase, document, report, failed, consent, posted>>

Init ==
  /\ links = 0 /\ url = 0
  /\ phase = "closed"
  /\ document = 0 /\ report = 0
  /\ failed = FALSE
  /\ consent = [l \in 1..NLinks |-> 0]
  /\ posted = [l \in 1..NLinks |-> 0]

(* Nothing of a document nor of a report is shown.                         *)
Shows(p) == phase' = p /\ document' = 0 /\ report' = 0 /\ failed' = FALSE

(* A link arrives while none is shown, and is refused or loaded.           *)
Arrive ==
  /\ url = 0
  /\ links < NLinks
  /\ links' = links + 1
  /\ url' = links'
  /\ Shows("loading") \/ Shows("error")
  /\ UNCHANGED <<consent, posted>>

(* The link shown starts over, whatever it was doing.                      *)
Restart ==
  /\ url # 0
  /\ Shows("loading") \/ Shows("error")
  /\ UNCHANGED <<links, url, consent, posted>>

(* The document is waited for, cannot be had, or is offered.               *)
Load ==
  /\ phase \in {"loading", "starting"}
  /\ \/ Shows("loading") \/ Shows("starting") \/ Shows("error")
     \/ /\ phase' = "confirm"
        /\ document' = url
        /\ UNCHANGED <<report, failed>>
  /\ UNCHANGED <<links, url, consent, posted>>

Consent ==
  /\ phase = "confirm"
  /\ consent' = [consent EXCEPT ![url] = @ + 1]
  /\ Shows("validating")
  /\ UNCHANGED <<links, url, posted>>

(* There is no report, ...                                                 *)
Refuse ==
  /\ phase = "validating"
  /\ Shows("error")
  /\ UNCHANGED <<links, url, consent, posted>>

(* ... or there is one, and it goes to the calling site, ...               *)
Post ==
  /\ phase = "validating"
  /\ phase' = "sending"
  /\ report' = url
  /\ posted' = [posted EXCEPT ![url] = @ + 1]
  /\ UNCHANGED <<links, url, document, failed, consent>>

(* ... and stays on the screen, whether or not it got there.               *)
Sent ==
  /\ phase = "sending"
  /\ phase' = "result"
  /\ failed' \in BOOLEAN
  /\ UNCHANGED <<links, url, document, report, consent, posted>>

(* The user turns the link away, or is done with it.                       *)
Close ==
  /\ phase \in {"confirm", "result", "error"}
  /\ url' = 0
  /\ Shows("closed")
  /\ UNCHANGED <<links, consent, posted>>

Next == Arrive \/ Restart \/ Load \/ Consent \/ Refuse \/ Post \/ Sent \/ Close

Spec == Init /\ [][Next]_vars
=============================================================================
