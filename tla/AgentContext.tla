---------------------------- MODULE AgentContext ----------------------------
(***************************************************************************)
(* The React context that stands between the flows of the interface and    *)
(* the shell commands (AgentContext.tsx, PinModal.tsx).  One PIN modal and *)
(* one resolver serve every flow.  A flow calls ensureUnlocked and awaits  *)
(* it; each await inside is a command of Signer the flow is the client of. *)
(*                                                                         *)
(* An awaited command is "sent" when the await starts and no answer is     *)
(* there, runs in a step of Signer, and is answered once reply[w] is set;  *)
(* the continuation takes the answer.  A settled ensureUnlocked, "ready"   *)
(* or "rejected", is continued before any other event: the promise queue   *)
(* is drained first.  The modules that EXTEND this one add the flows.      *)
(***************************************************************************)
EXTENDS Signer

CONSTANTS
  Flows,     (* the calls of ensureUnlocked that can be in progress        *)
  Pad,       (* the PIN modal's client of the commands                     *)
  Probe,     (* recheck's client                                           *)
  LockChip,  (* the lock button's client                                   *)
  Nobody,    (* no resolver                                                *)
  Blank      (* the cards that hold no certificate                         *)

ASSUME ContextAssumption ==
  /\ Flows \cup {Pad} \subseteq Clients
  /\ Clients \subseteq Flows \cup {Pad, Probe, LockChip}
  /\ Nobody \notin Clients
  /\ Pad \notin Flows /\ Probe \notin Flows \cup {Pad}
  /\ LockChip \notin Flows \cup {Pad, Probe}
  /\ Blank \subseteq Cards

VARIABLES
  available,  (* the context's status                                      *)
  certificates, (* the card whose certificates are listed, or NoCard       *)
  pinOpen,    (* the PIN modal is shown                                    *)
  pad,        (* where submitPin is: its await and the resolver it closed  *)
              (* over; "idle" when pinBusy is false                        *)
  pinResolver,(* the flow whose promise the modal settles, or Nobody       *)
  probe,      (* where recheck is; "idle" when checkingRef is false        *)
  ensure,     (* per flow, where its ensureUnlocked is                     *)
  cached,     (* per flow, the `certificates` its ensureUnlocked closed    *)
              (* over when the user started it                             *)
  given       (* per flow, the certificates ensureUnlocked resolved with   *)

context == <<available, certificates, pinOpen, pad, pinResolver, probe,
             ensure, cached, given>>

Awaits == {"idle", "status", "load", "pin", "ready", "rejected"}
PadIdle == [at |-> "idle", for |-> Nobody]

ContextTypeOK ==
  /\ available \in {"checking", "available", "unavailable", "error"}
  /\ certificates \in Cards \cup {NoCard}
  /\ pinOpen \in BOOLEAN
  /\ pad \in [at: {"idle", "unlock", "load"}, for: Flows \cup {Nobody}]
  /\ pinResolver \in Flows \cup {Nobody}
  /\ probe \in {"idle", "available", "status", "load"}
  /\ ensure \in [Flows -> Awaits]
  /\ cached \in [Flows -> Cards \cup {NoCard}]
  /\ given \in [Flows -> Cards \cup {NoCard}]

(* An instance without the probe starts after the recheck of the mount.    *)
ContextInit ==
  /\ available = IF Probe \in Clients THEN "checking" ELSE "available"
  /\ certificates = NoCard
  /\ pinOpen = FALSE
  /\ pad = PadIdle
  /\ pinResolver = Nobody
  /\ probe = "idle"
  /\ ensure = [f \in Flows |-> "idle"]
  /\ cached = [f \in Flows |-> NoCard]
  /\ given = [f \in Flows |-> NoCard]

Settled(f) == ensure[f] \in {"ready", "rejected"}

(* The certificates w was answered: a blank card's list is empty.          *)
ListedTo(w) == IF reply[w].card \in Blank THEN NoCard ELSE reply[w].card

Moves(f, at) == ensure' = [ensure EXCEPT ![f] = at]
-----------------------------------------------------------------------------
(* The commands the awaits stand for, run by the shell in a Signer step.   *)

RunEnsure(f) ==
  /\ Sent(f)
  /\ \/ ensure[f] = "status" /\ Status(f)
     \/ ensure[f] = "load" /\ (List(f, "list") \/ OpenFails(f, "list"))
  /\ UNCHANGED context

RunPad ==
  /\ Sent(Pad)
  /\ \/ pad.at = "unlock" /\ (UnlockBegin(Pad) \/ OpenFails(Pad, "unlock"))
     \/ pad.at = "load" /\ (List(Pad, "list") \/ OpenFails(Pad, "list"))
  /\ UNCHANGED context

RunProbe ==
  /\ Probe \in Clients
  /\ Sent(Probe)
  /\ \/ probe = "available" /\ (List(Probe, "available") \/ OpenFails(Probe, "available"))
     \/ probe = "status" /\ Status(Probe)
     \/ probe = "load" /\ (List(Probe, "list") \/ OpenFails(Probe, "list"))
  /\ UNCHANGED context
-----------------------------------------------------------------------------
(* ensureUnlocked.                                                         *)

(* The user's click; the closure keeps the certificates of that render.    *)
EnsureUnlocked(f) ==
  /\ ensure[f] = "idle"
  /\ Moves(f, "status")
  /\ cached' = [cached EXCEPT ![f] = certificates]

(* promptUnlock: the modal opens and its resolver is replaced.             *)
PromptUnlock(f) ==
  /\ pinOpen' = TRUE
  /\ pinResolver' = f
  /\ Moves(f, "pin")

(* getStatus answered.                                                     *)
EnsureStatus(f) ==
  /\ ensure[f] = "status"
  /\ Answered(f, "status")
  /\ Take(f)
  /\ \/ /\ reply[f].code = "unlocked"
        /\ cached[f] # NoCard
        /\ Moves(f, "ready")
        /\ given' = [given EXCEPT ![f] = cached[f]]
        /\ UNCHANGED <<pinOpen, pinResolver>>
     \/ /\ reply[f].code = "unlocked"
        /\ cached[f] = NoCard
        /\ Moves(f, "load")
        /\ UNCHANGED <<given, pinOpen, pinResolver>>
     \/ /\ reply[f].code # "unlocked"
        /\ PromptUnlock(f)
        /\ UNCHANGED given
  /\ UNCHANGED <<available, certificates, pad, probe, cached>>

(* loadCertificates answered.                                              *)
EnsureLoaded(f) ==
  /\ ensure[f] = "load"
  /\ Answered(f, "list")
  /\ Take(f)
  /\ \/ /\ reply[f].code = "ok"
        /\ certificates' = ListedTo(f)
        /\ given' = [given EXCEPT ![f] = ListedTo(f)]
        /\ Moves(f, "ready")
     \/ /\ reply[f].code # "ok"
        /\ Moves(f, "rejected")
        /\ UNCHANGED <<certificates, given>>
  /\ UNCHANGED <<available, pinOpen, pad, pinResolver, probe, cached>>
-----------------------------------------------------------------------------
(* The PIN modal.                                                          *)

(* submitPin closes over the resolver of the render it was called from.    *)
SubmitPin ==
  /\ pinOpen
  /\ pad = PadIdle
  /\ pad' = [at |-> "unlock", for |-> pinResolver]
  /\ UNCHANGED <<available, certificates, pinOpen, pinResolver, probe, ensure, cached, given>>

(* A failure shown without the finally that clears pinBusy.                *)
PinErrorStaysBusy == pad' = pad

PinError == pad' = PadIdle

PadUnlocked ==
  /\ pad.at = "unlock"
  /\ Answered(Pad, "unlock")
  /\ Take(Pad)
  /\ \/ /\ reply[Pad].code = "ok"
        /\ pad' = [pad EXCEPT !.at = "load"]
        /\ UNCHANGED available
     \/ /\ reply[Pad].code # "ok"
        /\ PinError
        /\ available' = IF reply[Pad].code = "token_unavailable" THEN "error"
                        ELSE available
  /\ UNCHANGED <<certificates, pinOpen, pinResolver, probe, ensure, cached, given>>

(* A submission that leaves the modal open when another flow has asked for *)
(* the PIN meanwhile, but still forgets its resolver.                      *)
PadLoadedStaysOpen ==
  /\ pad.at = "load"
  /\ Answered(Pad, "list")
  /\ reply[Pad].code = "ok"
  /\ Take(Pad)
  /\ certificates' = ListedTo(Pad)
  /\ pinOpen' = (pinResolver # pad.for)
  /\ pinResolver' = Nobody
  /\ pad' = PadIdle
  /\ Moves(pad.for, "ready")
  /\ given' = [given EXCEPT ![pad.for] = ListedTo(Pad)]
  /\ UNCHANGED <<available, probe, cached>>

(* A submission that closes the modal whatever came of it.                 *)
PadLoadedForgets ==
  /\ pad.at = "load"
  /\ Answered(Pad, "list")
  /\ Take(Pad)
  /\ pinOpen' = FALSE
  /\ pinResolver' = Nobody
  /\ pad' = PadIdle
  /\ IF reply[Pad].code = "ok" /\ pad.for # Nobody /\ ensure[pad.for] = "pin"
       THEN Moves(pad.for, "ready") /\ given' = [given EXCEPT ![pad.for] = ListedTo(Pad)]
       ELSE UNCHANGED <<ensure, given>>
  /\ certificates' = IF reply[Pad].code = "ok" THEN ListedTo(Pad) ELSE certificates
  /\ UNCHANGED <<available, probe, cached>>

(* The modal closes and the resolver is cleared, whichever it is by now;   *)
(* the flow that is resolved is the one submitPin closed over.  A promise  *)
(* settles once.                                                           *)
PadLoaded ==
  /\ pad.at = "load"
  /\ Answered(Pad, "list")
  /\ Take(Pad)
  /\ \/ /\ reply[Pad].code = "ok"
        /\ certificates' = ListedTo(Pad)
        /\ pinOpen' = FALSE
        /\ pinResolver' = Nobody
        /\ pad' = PadIdle
        /\ IF pad.for # Nobody /\ ensure[pad.for] = "pin"
             THEN /\ Moves(pad.for, "ready")
                  /\ given' = [given EXCEPT ![pad.for] = ListedTo(Pad)]
             ELSE UNCHANGED <<ensure, given>>
        /\ UNCHANGED available
     \/ /\ reply[Pad].code # "ok"
        /\ PinError
        /\ available' = IF reply[Pad].code = "token_unavailable" THEN "error"
                        ELSE available
        /\ UNCHANGED <<certificates, pinOpen, pinResolver, ensure, given>>
  /\ UNCHANGED <<probe, cached>>

(* Escape, the scrim or the button; not while pinBusy.                     *)
CancelPin ==
  /\ pinOpen
  /\ pad = PadIdle
  /\ pinOpen' = FALSE
  /\ pinResolver' = Nobody
  /\ IF pinResolver # Nobody /\ ensure[pinResolver] = "pin"
       THEN Moves(pinResolver, "rejected")
       ELSE UNCHANGED ensure
  /\ UNCHANGED <<available, certificates, pad, probe, cached, given>>
-----------------------------------------------------------------------------
(* recheck and lock.                                                       *)

(* On mount, on focus and on demand; ignored while one is in flight.       *)
Recheck ==
  /\ Probe \in Clients
  /\ probe = "idle"
  /\ probe' = "available"
  /\ available' = "checking"
  /\ UNCHANGED <<certificates, pinOpen, pad, pinResolver, ensure, cached, given>>

RecheckAvailable ==
  /\ probe = "available"
  /\ Answered(Probe, "available")
  /\ Take(Probe)
  /\ available' = IF reply[Probe].code = "ok" THEN "available" ELSE "unavailable"
  /\ probe' = IF reply[Probe].code = "ok" THEN "status" ELSE "idle"
  /\ UNCHANGED <<certificates, pinOpen, pad, pinResolver, ensure, cached, given>>

RecheckStatus ==
  /\ probe = "status"
  /\ Answered(Probe, "status")
  /\ Take(Probe)
  /\ probe' = IF reply[Probe].code = "unlocked" THEN "load" ELSE "idle"
  /\ UNCHANGED <<available, certificates, pinOpen, pad, pinResolver, ensure, cached, given>>

RecheckLoaded ==
  /\ probe = "load"
  /\ Answered(Probe, "list")
  /\ Take(Probe)
  /\ probe' = "idle"
  /\ certificates' = IF reply[Probe].code = "ok" THEN ListedTo(Probe) ELSE certificates
  /\ UNCHANGED <<available, pinOpen, pad, pinResolver, ensure, cached, given>>

(* The lock button: the command runs, its answer is ignored.               *)
LockClicked ==
  /\ LockChip \in Clients
  /\ Lock(LockChip) \/ OpenFails(LockChip, "lock")
  /\ UNCHANGED context

LockAnswered ==
  /\ LockChip \in Clients
  /\ Take(LockChip)
  /\ UNCHANGED context
-----------------------------------------------------------------------------
(* The continuations of a flow's ensureUnlocked, and the modal's.          *)
EnsureStep(f) == EnsureStatus(f) \/ EnsureLoaded(f)
PadStep       == PadUnlocked \/ PadLoaded

(* PinModal, where it is mounted.                                          *)
PinModal == (SubmitPin \/ CancelPin) /\ UNCHANGED vars

ContextEvent ==
  \/ Recheck /\ UNCHANGED vars
  \/ \E f \in Flows : RunEnsure(f) \/ EnsureStep(f)
  \/ RunPad \/ PadStep
  \/ RunProbe \/ RecheckAvailable \/ RecheckStatus \/ RecheckLoaded
-----------------------------------------------------------------------------
(* Properties.                                                             *)

(* The modal is never shown for no one: while it is open, a flow waits for *)
(* exactly the promise it will settle (AgentContext.tsx:155-201).          *)
ModalHasWaiter == pinOpen => pinResolver # Nobody /\ ensure[pinResolver] = "pin"

(* The flow's prompt is gone: neither the modal nor a submission in flight *)
(* will settle the promise it awaits, and nothing else does.               *)
PromptLost(f) == ensure[f] = "pin" /\ f \notin {pinResolver, pad.for}

(* A flow loses its prompt to another flow only: to one that prompts after *)
(* it, or whose submission closes the modal it shares.  A wrong PIN, a card*)
(* that fails, a recheck or a page that goes never take a flow's prompt    *)
(* (AgentContext.tsx:155-201).                                             *)
PromptLostToAnother ==
  [][\A f \in Flows : ~PromptLost(f) /\ PromptLost(f)' =>
       \E g \in Flows \ {f} : g \in {pinResolver', pad.for}]_context

(* What AgentContext.tsx:155 says of promptUnlock: it shows the modal and  *)
(* resolves once unlocked or rejects on cancel, so whoever waits for the   *)
(* PIN has a modal to answer it.                                           *)
WaiterHasModal == \A f \in Flows : ensure[f] = "pin" => pinOpen
=============================================================================
