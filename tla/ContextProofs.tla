---------------------------- MODULE ContextProofs ---------------------------
(***************************************************************************)
(* What every composition over the agent context relies on, for any flows: *)
(* each step of the context is a step of the signing core, the context     *)
(* stays well typed, the open modal has its waiter, and a flow loses its   *)
(* prompt to another flow only.                                            *)
(***************************************************************************)
EXTENDS AgentContext, SignerProofs

(* Whoever the modal would resolve is shown it, and a submission was made  *)
(* for someone.                                                            *)
ModalShown ==
  /\ pinResolver # Nobody => pinOpen
  /\ pad.at # "idle" => Nobody \notin {pad.for, pinResolver}

ProbeIsClient == probe # "idle" => Probe \in Clients

CInv == ContextTypeOK /\ ModalHasWaiter /\ ModalShown /\ ProbeIsClient

-----------------------------------------------------------------------------

LEMMA InitCInv == ContextInit => CInv
<1> SUFFICES ASSUME ContextInit PROVE CInv
  OBVIOUS
<1>1. /\ ensure \in [Flows -> Awaits]
      /\ cached \in [Flows -> Cards \cup {NoCard}] /\ given \in [Flows -> Cards \cup {NoCard}]
  BY DEF ContextInit, Awaits
<1>2. pad \in [at: {"idle", "unlock", "load"}, for: Flows \cup {Nobody}]
  BY DEF ContextInit, PadIdle
<1>3. ModalHasWaiter /\ ModalShown /\ ProbeIsClient
  BY DEF ContextInit, ModalHasWaiter, ModalShown, ProbeIsClient, PadIdle
<1>4. /\ available \in {"checking", "available", "unavailable", "error"}
      /\ certificates \in Cards \cup {NoCard} /\ pinOpen \in BOOLEAN
      /\ pinResolver \in Flows \cup {Nobody}
      /\ probe \in {"idle", "available", "status", "load"}
  BY DEF ContextInit
<1> QED
  BY <1>1, <1>2, <1>3, <1>4 DEF CInv, ContextTypeOK

LEMMA ClientFacts ==
  /\ Flows \subseteq Clients /\ Pad \in Clients /\ Pad \notin Flows /\ Nobody \notin Flows
  /\ Probe \notin Flows /\ LockChip \notin Flows
  BY ContextAssumption

(* A flow's ensureUnlocked begins, or the flow goes on after it.           *)
LEMMA MovesCInv ==
  ASSUME CInv, NEW f \in Flows, NEW at \in Awaits \ {"pin", "ready"}, ensure[f] # "pin",
         Moves(f, at), cached' \in [Flows -> Cards \cup {NoCard}],
         UNCHANGED <<available, certificates, pinOpen, pad, pinResolver, probe, given>>
  PROVE  /\ CInv'
         /\ ensure'[f] = at
         /\ \A g \in Flows : g # f => ensure'[g] = ensure[g]
<1>1. ensure' \in [Flows -> Awaits] /\ ensure'[f] = at
      /\ \A g \in Flows : g # f => ensure'[g] = ensure[g]
  BY DEF CInv, ContextTypeOK, Moves
<1>2. ContextTypeOK'
  BY <1>1 DEF CInv, ContextTypeOK
<1>3. ModalHasWaiter'
  BY <1>1, ClientFacts DEF CInv, ContextTypeOK, ModalHasWaiter
<1>4. ModalShown' /\ ProbeIsClient'
  BY <1>1 DEF CInv, ContextTypeOK, ModalShown, ProbeIsClient
<1> QED
  BY <1>1, <1>2, <1>3, <1>4 DEF CInv

(* What the answers to a flow change: the flow moves, and never to or from *)
(* idle.                                                                   *)
LEMMA EnsureStepCInv ==
  ASSUME SInv, CInv, NEW f \in Flows, EnsureStep(f)
  PROVE  /\ CInv'
         /\ \A g \in Flows : ensure'[g] = "idle" <=> ensure[g] = "idle"
<1>1. PICK at \in {"ready", "load", "pin", "rejected"} : Moves(f, at)
  BY DEF EnsureStep, EnsureStatus, EnsureLoaded, PromptUnlock
<1>2. /\ ensure' \in [Flows -> Awaits] /\ ensure'[f] = at
      /\ \A g \in Flows : g # f => ensure'[g] = ensure[g]
  BY <1>1 DEF CInv, ContextTypeOK, Moves, Awaits
<1>3. ensure[f] \in {"status", "load"}
  BY DEF EnsureStep, EnsureStatus, EnsureLoaded
<1>4. UNCHANGED <<available, pad, probe, cached>>
  BY DEF EnsureStep, EnsureStatus, EnsureLoaded
<1>5. CASE EnsureStatus(f)
  <2>1. CASE reply[f].code = "unlocked" /\ cached[f] # NoCard
    <3>1. given' = [given EXCEPT ![f] = cached[f]] /\ cached[f] \in Cards
          /\ UNCHANGED <<certificates, pinOpen, pinResolver>>
      BY <1>5, <2>1 DEF EnsureStatus, CInv, ContextTypeOK
    <3> QED
      BY <1>2, <1>3, <1>4, <3>1, ClientFacts
      DEF CInv, ContextTypeOK, ModalHasWaiter, ModalShown, ProbeIsClient
  <2>2. CASE reply[f].code = "unlocked" /\ cached[f] = NoCard
    <3>1. Moves(f, "load") /\ UNCHANGED <<certificates, given, pinOpen, pinResolver>>
      BY <1>5, <2>2 DEF EnsureStatus
    <3>2. ensure'[f] = "load"
      BY <3>1 DEF Moves, CInv, ContextTypeOK
    <3> QED
      BY <1>2, <1>3, <1>4, <3>1, <3>2, ClientFacts
      DEF CInv, ContextTypeOK, ModalHasWaiter, ModalShown, ProbeIsClient
  <2>3. CASE reply[f].code # "unlocked"
    <3>1. /\ pinOpen' = TRUE /\ pinResolver' = f /\ Moves(f, "pin")
          /\ UNCHANGED <<certificates, given>>
      BY <1>5, <2>3 DEF EnsureStatus, PromptUnlock
    <3>2. ensure'[f] = "pin"
      BY <3>1 DEF Moves, CInv, ContextTypeOK
    <3> QED
      BY <1>2, <1>3, <1>4, <3>1, <3>2, ClientFacts
      DEF CInv, ContextTypeOK, ModalHasWaiter, ModalShown, ProbeIsClient
  <2> QED
    BY <2>1, <2>2, <2>3
<1>6. CASE EnsureLoaded(f)
  <2>1. CASE reply[f].code = "ok"
    <3>1. /\ certificates' = ListedTo(f) /\ given' = [given EXCEPT ![f] = ListedTo(f)]
          /\ UNCHANGED <<pinOpen, pinResolver>>
      BY <1>6, <2>1 DEF EnsureLoaded
    <3>2. ListedTo(f) \in Cards \cup {NoCard}
      BY <1>6, <2>1, ClientFacts DEF EnsureLoaded, Answered, SInv, ReplyCard, ListedTo
    <3> QED
      BY <1>2, <1>3, <1>4, <3>1, <3>2, ClientFacts
      DEF CInv, ContextTypeOK, ModalHasWaiter, ModalShown, ProbeIsClient
  <2>2. CASE reply[f].code # "ok"
    <3>1. Moves(f, "rejected") /\ UNCHANGED <<certificates, given, pinOpen, pinResolver>>
      BY <1>6, <2>2 DEF EnsureLoaded
    <3>2. ensure'[f] = "rejected"
      BY <3>1 DEF Moves, CInv, ContextTypeOK
    <3> QED
      BY <1>2, <1>3, <1>4, <3>1, <3>2, ClientFacts
      DEF CInv, ContextTypeOK, ModalHasWaiter, ModalShown, ProbeIsClient
  <2> QED
    BY <2>1, <2>2
<1> QED
  BY <1>2, <1>3, <1>5, <1>6 DEF EnsureStep

(* The modal: whoever it resolves was waiting for it.                      *)
LEMMA PadStepCInv ==
  ASSUME SInv, CInv, PadStep
  PROVE  /\ CInv'
         /\ \A g \in Flows : ensure'[g] = "idle" <=> ensure[g] = "idle"
<1>1. CASE PadUnlocked
  <2>1. pad' \in {PadIdle, [pad EXCEPT !.at = "load"]}
    BY <1>1 DEF PadUnlocked, PinError
  <2>2. pad' \in [at: {"idle", "unlock", "load"}, for: Flows \cup {Nobody}]
    BY <2>1 DEF CInv, ContextTypeOK, PadIdle
  <2>3. available' \in {available, "error"}
    BY <1>1 DEF PadUnlocked
  <2>4. UNCHANGED <<certificates, pinOpen, pinResolver, probe, ensure, cached, given>>
    BY <1>1 DEF PadUnlocked
  <2>5. pad.at = "unlock" /\ (pad'.at # "idle" => pad'.for = pad.for)
    BY <1>1, <2>1 DEF PadUnlocked, PadIdle, CInv, ContextTypeOK
  <2>6. ModalShown'
    BY <2>4, <2>5 DEF CInv, ModalShown
  <2> QED
    BY <2>2, <2>3, <2>4, <2>6 DEF CInv, ContextTypeOK, ModalHasWaiter, ProbeIsClient
<1>2. CASE PadLoaded /\ reply[Pad].code = "ok"
  <2>1. /\ certificates' = ListedTo(Pad) /\ pinOpen' = FALSE /\ pinResolver' = Nobody
        /\ pad' = PadIdle /\ UNCHANGED <<available, probe, cached>>
    BY <1>2 DEF PadLoaded
  <2>2. ListedTo(Pad) \in Cards \cup {NoCard}
    BY <1>2, ClientFacts DEF PadLoaded, Answered, SInv, ReplyCard, ListedTo
  <2>3. CASE pad.for # Nobody /\ ensure[pad.for] = "pin"
    <3>1. pad.for \in Flows
      BY <2>3 DEF CInv, ContextTypeOK
    <3>2. ensure' = [ensure EXCEPT ![pad.for] = "ready"]
      BY <1>2, <2>3 DEF PadLoaded, Moves
    <3>3. given' = [given EXCEPT ![pad.for] = ListedTo(Pad)]
      BY <1>2, <2>3 DEF PadLoaded
    <3>4. ensure' \in [Flows -> Awaits] /\ given' \in [Flows -> Cards \cup {NoCard}]
      BY <2>2, <3>1, <3>2, <3>3 DEF CInv, ContextTypeOK, Awaits
    <3>5. ModalShown'
      BY <2>1 DEF ModalShown, PadIdle
    <3>6. \A g \in Flows : ensure'[g] = "idle" <=> ensure[g] = "idle"
      BY <2>3, <3>1, <3>2 DEF CInv, ContextTypeOK
    <3> QED
      BY <2>1, <2>2, <3>4, <3>5, <3>6
      DEF CInv, ContextTypeOK, ModalHasWaiter, ProbeIsClient, PadIdle
  <2>4. CASE ~(pad.for # Nobody /\ ensure[pad.for] = "pin")
    <3>1. UNCHANGED <<ensure, given>>
      BY <1>2, <2>4 DEF PadLoaded
    <3> QED
      BY <2>1, <2>2, <3>1
      DEF CInv, ContextTypeOK, ModalHasWaiter, ModalShown, ProbeIsClient, PadIdle
  <2> QED
    BY <2>3, <2>4
<1>3. CASE PadLoaded /\ reply[Pad].code # "ok"
  <2>1. /\ pad' = PadIdle /\ available' \in {available, "error"}
        /\ UNCHANGED <<certificates, pinOpen, pinResolver, probe, ensure, cached, given>>
    BY <1>3 DEF PadLoaded, PinError
  <2> QED
    BY <2>1 DEF CInv, ContextTypeOK, ModalHasWaiter, ModalShown, ProbeIsClient, PadIdle
<1> QED
  BY <1>1, <1>2, <1>3 DEF PadStep

(* The user's answer to the modal.                                         *)
LEMMA PinModalCInv ==
  ASSUME CInv, PinModal
  PROVE  /\ CInv'
         /\ \A g \in Flows : ensure'[g] = "idle" <=> ensure[g] = "idle"
<1>1. CASE SubmitPin
  <2>1. pad' \in [at: {"idle", "unlock", "load"}, for: Flows \cup {Nobody}]
    BY <1>1 DEF SubmitPin, CInv, ContextTypeOK
  <2>2. UNCHANGED <<available, certificates, pinOpen, pinResolver, probe, ensure, cached, given>>
    BY <1>1 DEF SubmitPin
  <2>3. pinOpen /\ pad'.for = pinResolver
    BY <1>1 DEF SubmitPin
  <2>4. ModalShown'
    BY <2>2, <2>3 DEF CInv, ModalHasWaiter, ModalShown
  <2> QED
    BY <2>1, <2>2, <2>4 DEF CInv, ContextTypeOK, ModalHasWaiter, ProbeIsClient
<1>2. CASE CancelPin
  <2>1. /\ pinOpen' = FALSE /\ pinResolver' = Nobody /\ pinResolver \in Flows
        /\ ensure[pinResolver] = "pin"
        /\ UNCHANGED <<available, certificates, pad, probe, cached, given>>
    BY <1>2 DEF CancelPin, CInv, ContextTypeOK, ModalHasWaiter
  <2>2. ensure' = [ensure EXCEPT ![pinResolver] = "rejected"]
    BY <1>2, <2>1, ClientFacts DEF CancelPin, Moves
  <2>3. ensure' \in [Flows -> Awaits]
    BY <2>1, <2>2 DEF CInv, ContextTypeOK, Awaits
  <2>4. \A g \in Flows : ensure'[g] = "idle" <=> ensure[g] = "idle"
    BY <2>1, <2>2 DEF CInv, ContextTypeOK
  <2>5. ModalShown'
    <3>1. pad.at = "idle"
      BY <1>2 DEF CancelPin, PadIdle
    <3> QED
      BY <2>1, <3>1 DEF ModalShown
  <2> QED
    BY <2>1, <2>3, <2>4, <2>5 DEF CInv, ContextTypeOK, ModalHasWaiter, ProbeIsClient
<1> QED
  BY <1>1, <1>2 DEF PinModal

LEMMA ContextSame ==
  ASSUME CInv, UNCHANGED context
  PROVE  CInv' /\ ensure' = ensure
  BY DEF context, CInv, ContextTypeOK, ModalHasWaiter, ModalShown, ProbeIsClient

(* Whatever happens in the context, no flow's ensureUnlocked begins or     *)
(* ends there.                                                             *)
LEMMA ContextEventCInv ==
  ASSUME SInv, CInv, ContextEvent
  PROVE  /\ CInv'
         /\ \A g \in Flows : ensure'[g] = "idle" <=> ensure[g] = "idle"
<1> DEFINE Good == /\ CInv'
                   /\ \A g \in Flows : ensure'[g] = "idle" <=> ensure[g] = "idle"
<1>1. ASSUME UNCHANGED context PROVE Good
  BY <1>1, ContextSame
<1>2. ASSUME NEW f \in Flows, RunEnsure(f) PROVE Good
  BY <1>1, <1>2 DEF RunEnsure
<1>3. CASE RunPad \/ RunProbe
  BY <1>1, <1>3 DEF RunPad, RunProbe
<1>4. ASSUME NEW f \in Flows, EnsureStep(f) PROVE Good
  BY <1>4, EnsureStepCInv
<1>5. CASE PadStep
  BY <1>5, PadStepCInv
<1>6. CASE Recheck \/ RecheckAvailable \/ RecheckStatus
  <2>1. UNCHANGED <<certificates, pinOpen, pad, pinResolver, ensure, cached, given>>
    BY <1>6 DEF Recheck, RecheckAvailable, RecheckStatus
  <2>2. /\ available' \in {available, "checking", "available", "unavailable"}
        /\ probe' \in {"idle", "available", "status", "load"} /\ Probe \in Clients
    BY <1>6 DEF Recheck, RecheckAvailable, RecheckStatus, CInv, ProbeIsClient
  <2> QED
    BY <2>1, <2>2 DEF CInv, ContextTypeOK, ModalHasWaiter, ModalShown, ProbeIsClient
<1>7. CASE RecheckLoaded
  <2>1. /\ UNCHANGED <<available, pinOpen, pad, pinResolver, ensure, cached, given>>
        /\ probe' = "idle" /\ Probe \in Clients
    BY <1>7 DEF RecheckLoaded, CInv, ProbeIsClient
  <2>2. certificates' \in Cards \cup {NoCard}
    BY <1>7, <2>1 DEF RecheckLoaded, Answered, CInv, ContextTypeOK, SInv, ReplyCard, ListedTo
  <2> QED
    BY <2>1, <2>2 DEF CInv, ContextTypeOK, ModalHasWaiter, ModalShown, ProbeIsClient
<1> QED
  BY <1>2, <1>3, <1>4, <1>5, <1>6, <1>7 DEF ContextEvent

(* No step of the context is more than a step of the core.                 *)
LEMMA ContextSteps ==
  ASSUME SInv, CInv, PinModal \/ ContextEvent \/ LockAnswered \/ LockClicked
  PROVE  Steps
<1>1. ASSUME NEW w \in Clients, Command(w) \/ Take(w) PROVE Steps
  BY <1>1 DEF Steps, Next
<1>2. ASSUME UNCHANGED vars PROVE Steps
  BY <1>2 DEF Steps
<1>3. ASSUME NEW f \in Flows, RunEnsure(f) PROVE Steps
  <2>1. Command(f)
    BY <1>3 DEF RunEnsure, Command, Ops
  <2> QED
    BY <1>1, <2>1, ClientFacts
<1>4. ASSUME NEW f \in Flows, EnsureStep(f) PROVE Steps
  <2>1. Take(f)
    BY <1>4 DEF EnsureStep, EnsureStatus, EnsureLoaded
  <2> QED
    BY <1>1, <2>1, ClientFacts
<1>5. CASE RunPad
  <2>1. Command(Pad)
    BY <1>5 DEF RunPad, Command, Ops
  <2> QED
    BY <1>1, <2>1, ClientFacts
<1>6. CASE PadStep
  <2>1. Take(Pad)
    BY <1>6 DEF PadStep, PadUnlocked, PadLoaded
  <2> QED
    BY <1>1, <2>1, ClientFacts
<1>7. CASE RunProbe
  <2>1. Command(Probe) /\ Probe \in Clients
    BY <1>7 DEF RunProbe, Command, Ops
  <2> QED
    BY <1>1, <2>1
<1>8. CASE RecheckAvailable \/ RecheckStatus \/ RecheckLoaded
  <2>1. Take(Probe) /\ Probe \in Clients
    BY <1>8 DEF RecheckAvailable, RecheckStatus, RecheckLoaded, CInv, ProbeIsClient
  <2> QED
    BY <1>1, <2>1
<1>9. CASE LockAnswered \/ LockClicked
  <2>1. LockChip \in Clients /\ (Take(LockChip) \/ Command(LockChip))
    BY <1>9 DEF LockAnswered, LockClicked, Command, Ops
  <2> QED
    BY <1>1, <2>1
<1> QED
  BY <1>2, <1>3, <1>4, <1>5, <1>6, <1>7, <1>8, <1>9 DEF PinModal, ContextEvent
-----------------------------------------------------------------------------
(* Signatures are none of the context's business: it sends no sign         *)
(* command, and hands no flow an answer to one.                            *)
NoSigning ==
  /\ call'.op = "sign" => call' = call
  /\ \A f \in Flows : reply'[f].op = "sign" => reply'[f] = reply[f]

LEMMA AnswerNoSigning ==
  ASSUME TypeOK, NEW w \in Clients, NEW op, NEW code, NEW c, op # "sign",
         Answer(w, op, code, c), call' = call \/ call' = NoCall \/ call'.op = "unlock"
  PROVE  NoSigning
<1>1. \A f \in Clients : reply'[f] = IF f = w THEN Reply(op, code, c) ELSE reply[f]
  BY DEF Answer, TypeOK
<1> QED
  BY <1>1, ClientFacts DEF NoSigning, Reply, NoCall

LEMMA TakeNoSigning ==
  ASSUME TypeOK, NEW w \in Clients, Take(w)
  PROVE  NoSigning
<1>1. Answer(w, "none", "none", NoCard) /\ call' = call
  BY DEF Take, Answer, NoReply
<1> QED
  BY <1>1, AnswerNoSigning

LEMMA CommandNoSigning ==
  ASSUME TypeOK, NEW w \in Clients,
         \/ Status(w) \/ Lock(w) \/ UnlockBegin(w)
         \/ \E op \in {"available", "list"} : List(w, op)
         \/ \E op \in {"available", "list", "unlock", "lock"} : OpenFails(w, op)
  PROVE  NoSigning
<1>1. CASE Status(w)
  BY <1>1, AnswerNoSigning DEF Status
<1>2. CASE Lock(w)
  BY <1>2, AnswerNoSigning DEF Lock
<1>3. CASE UnlockBegin(w)
  <2>1. Answer(w, "none", "none", NoCard) /\ call'.op = "unlock"
    BY <1>3 DEF UnlockBegin, Answer, NoReply
  <2> QED
    BY <2>1, AnswerNoSigning
<1>4. ASSUME NEW op \in {"available", "list"}, List(w, op) PROVE NoSigning
  <2>1. (\E code, c : Answer(w, op, code, c)) /\ call' = call
    BY <1>4 DEF List
  <2> QED
    BY <2>1, AnswerNoSigning
<1>5. ASSUME NEW op \in {"available", "list", "unlock", "lock"}, OpenFails(w, op)
      PROVE  NoSigning
  <2>1. (\E code, c : Answer(w, op, code, c)) /\ call' = call
    BY <1>5 DEF OpenFails
  <2> QED
    BY <2>1, AnswerNoSigning
<1> QED
  BY <1>1, <1>2, <1>3, <1>4, <1>5

LEMMA ContextNoSigning ==
  ASSUME TypeOK, CInv, PinModal \/ ContextEvent \/ LockAnswered \/ LockClicked
  PROVE  NoSigning
<1>1. ASSUME UNCHANGED vars PROVE NoSigning
  BY <1>1 DEF vars, NoSigning
<1>2. ASSUME NEW f \in Flows, RunEnsure(f) \/ EnsureStep(f) PROVE NoSigning
  <2>1. f \in Clients
    BY ClientFacts
  <2>2. CASE RunEnsure(f)
    BY <2>1, <2>2, CommandNoSigning DEF RunEnsure
  <2>3. CASE EnsureStep(f)
    BY <2>1, <2>3, TakeNoSigning DEF EnsureStep, EnsureStatus, EnsureLoaded
  <2> QED
    BY <1>2, <2>2, <2>3
<1>3. CASE RunPad
  BY <1>3, ClientFacts, CommandNoSigning DEF RunPad
<1>4. CASE PadStep
  BY <1>4, ClientFacts, TakeNoSigning DEF PadStep, PadUnlocked, PadLoaded
<1>5. CASE RunProbe
  BY <1>5, CommandNoSigning DEF RunProbe
<1>6. CASE RecheckAvailable \/ RecheckStatus \/ RecheckLoaded
  <2>1. Take(Probe) /\ Probe \in Clients
    BY <1>6 DEF RecheckAvailable, RecheckStatus, RecheckLoaded, CInv, ProbeIsClient
  <2> QED
    BY <2>1, TakeNoSigning
<1>7. CASE LockAnswered
  BY <1>7, TakeNoSigning DEF LockAnswered
<1>8. CASE LockClicked
  BY <1>8, CommandNoSigning DEF LockClicked
<1> QED
  BY <1>1, <1>2, <1>3, <1>4, <1>5, <1>6, <1>7, <1>8 DEF PinModal, ContextEvent
-----------------------------------------------------------------------------
(* A flow that waits for the PIN loses its prompt to another flow only.    *)
Prompts ==
  \A f \in Flows : ~PromptLost(f) /\ PromptLost(f)' =>
    \E g \in Flows \ {f} : g \in {pinResolver', pad.for}

LEMMA PromptsSame ==
  ASSUME UNCHANGED <<pad, pinResolver>>,
         \A f \in Flows : ensure'[f] = "pin" => ensure[f] = "pin"
  PROVE  Prompts
  BY DEF Prompts, PromptLost

LEMMA MovesPrompts ==
  ASSUME CInv, NEW f \in Flows, NEW at \in Awaits \ {"pin"}, Moves(f, at),
         UNCHANGED <<pad, pinResolver>>
  PROVE  Prompts
<1>1. \A g \in Flows : ensure'[g] = IF g = f THEN at ELSE ensure[g]
  BY DEF Moves, CInv, ContextTypeOK
<1> QED
  BY <1>1, PromptsSame

LEMMA PadStepPrompts ==
  ASSUME CInv, PadStep
  PROVE  Prompts
<1> SUFFICES ASSUME NEW f \in Flows, ~PromptLost(f), PromptLost(f)'
             PROVE  \E g \in Flows \ {f} : g \in {pinResolver', pad.for}
  BY DEF Prompts
<1>1. pad.at # "idle" /\ pad.for \in Flows /\ pinResolver \in Flows
  BY DEF PadStep, PadUnlocked, PadLoaded, CInv, ModalShown, ContextTypeOK
<1>2. CASE UNCHANGED <<pinResolver, ensure>>
  <2>1. f \in {pinResolver, pad.for} /\ f # pinResolver
    BY <1>2 DEF PromptLost
  <2> QED
    BY <1>1, <1>2, <2>1
<1>3. CASE PadLoaded /\ reply[Pad].code = "ok"
  <2>1. ensure[f] = "pin" /\ f # pad.for
    <3>1. CASE ensure[pad.for] = "pin"
      <4>1. ensure' = [ensure EXCEPT ![pad.for] = "ready"]
        BY <1>1, <1>3, <3>1, ClientFacts DEF PadLoaded, Moves
      <4> QED
        BY <1>1, <4>1 DEF PromptLost, CInv, ContextTypeOK
    <3>2. CASE ensure[pad.for] # "pin"
      <4>1. ensure' = ensure
        BY <1>3, <3>2 DEF PadLoaded
      <4> QED
        BY <3>2, <4>1 DEF PromptLost
    <3> QED
      BY <3>1, <3>2
  <2> QED
    BY <1>1, <2>1
<1> QED
  BY <1>2, <1>3 DEF PadStep, PadUnlocked, PadLoaded

LEMMA EnsureStepPrompts ==
  ASSUME CInv, NEW f \in Flows, EnsureStep(f)
  PROVE  Prompts
<1>1. CASE PromptUnlock(f) /\ pad' = pad
  <2>1. pinResolver' = f /\ \A g \in Flows \ {f} : ensure'[g] = ensure[g]
    BY <1>1 DEF PromptUnlock, Moves, CInv, ContextTypeOK
  <2> QED
    BY <2>1 DEF Prompts, PromptLost
<1>2. ASSUME NEW at \in {"ready", "load", "rejected"}, Moves(f, at),
             UNCHANGED <<pad, pinResolver>>
      PROVE  Prompts
  <2>1. at \in Awaits \ {"pin"}
    BY DEF Awaits
  <2> QED
    BY <1>2, <2>1, MovesPrompts
<1>3. \/ PromptUnlock(f) /\ pad' = pad
      \/ /\ \E at \in {"ready", "load", "rejected"} : Moves(f, at)
         /\ UNCHANGED <<pad, pinResolver>>
  BY DEF EnsureStep, EnsureStatus, EnsureLoaded
<1> QED
  BY <1>1, <1>2, <1>3

LEMMA PinModalPrompts ==
  ASSUME CInv, PinModal
  PROVE  Prompts
<1>1. CASE SubmitPin
  <2>1. pinResolver' = pinResolver /\ ensure' = ensure /\ pad.for = Nobody
    BY <1>1 DEF SubmitPin, PadIdle
  <2> QED
    BY <2>1, ClientFacts DEF Prompts, PromptLost
<1>2. CASE CancelPin
  <2>1. /\ pinResolver \in Flows /\ ensure[pinResolver] = "pin" /\ pad.for = Nobody
        /\ pinResolver # Nobody
    BY <1>2, ClientFacts DEF CancelPin, CInv, ContextTypeOK, ModalHasWaiter, PadIdle
  <2>2. ensure' = [ensure EXCEPT ![pinResolver] = "rejected"]
    BY <1>2, <2>1 DEF CancelPin, Moves
  <2>3. \A g \in Flows : ensure'[g] = "pin" => ensure[g] = "pin" /\ g # pinResolver
    BY <2>1, <2>2 DEF CInv, ContextTypeOK
  <2> QED
    BY <2>1, <2>3, ClientFacts DEF Prompts, PromptLost
<1> QED
  BY <1>1, <1>2 DEF PinModal

LEMMA ContextEventPrompts ==
  ASSUME CInv, ContextEvent
  PROVE  Prompts
<1>1. CASE UNCHANGED <<pad, pinResolver, ensure>>
  BY <1>1, PromptsSame
<1>2. UNCHANGED context => Prompts
  BY <1>1 DEF context
<1>3. ASSUME NEW f \in Flows, RunEnsure(f) \/ EnsureStep(f) PROVE Prompts
  BY <1>2, <1>3, EnsureStepPrompts DEF RunEnsure
<1>4. CASE Recheck \/ RecheckAvailable \/ RecheckStatus \/ RecheckLoaded
  BY <1>1, <1>4 DEF Recheck, RecheckAvailable, RecheckStatus, RecheckLoaded
<1>5. CASE RunPad \/ RunProbe
  BY <1>2, <1>5 DEF RunPad, RunProbe
<1> QED
  BY <1>3, <1>4, <1>5, PadStepPrompts DEF ContextEvent
=============================================================================
