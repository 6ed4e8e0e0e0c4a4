---------------------------- MODULE SignWorkspace ---------------------------
(***************************************************************************)
(* Batch signing (SignWorkspace.tsx, signFlow.ts) over the agent context   *)
(* and the signing core: every click on Sign starts a run of runBatch,     *)
(* which takes its documents one after the other through prepare on the    *)
(* server, sign on the card and assemble on the server.  Nothing but the   *)
(* `busy` flag keeps two runs apart, and it is set only once               *)
(* ensureUnlocked has resolved.  The other page with card buttons is the   *)
(* key screen (KeyCertScreen.tsx).  A run outlives its page: when the user *)
(* changes tabs the page's state is dropped, while the run goes on and     *)
(* shows nothing.  The overlays cover the pages without taking the focus,  *)
(* so the keyboard reaches every button whatever is shown.                 *)
(***************************************************************************)
EXTENDS AgentContext

CONSTANT NDocs   (* documents the user may drop on the page *)

ASSUME WorkspaceAssumption == NDocs \in Nat

VARIABLES
  tab,       (* the page shown: "sign", or "cle", the key screen           *)
  docs,      (* per document, numbered in list order, its status and the   *)
             (* signature it carries                                       *)
  busy,      (* the busy flag                                              *)
  done,      (* a batch has finished                                       *)
  signedSnapshot, (* the targets of the last batch                         *)
  run        (* per flow, its run of runBatch                              *)

workspace == <<tab, docs, busy, done, signedSnapshot, run>>
desk      == <<vars, context, workspace>>

Docs == 1..NDocs

(* at: the await of runBatch or signOne, or "key" for an unlock asked for  *)
(* on the key screen; cert and by: the card whose certificate went  *)
(* into the parameters and the card that signed; made: the signatures the  *)
(* run has obtained for its current document, kept for the properties;     *)
(* left: the page it was started on is gone.                               *)
NoRun  == [at |-> "idle", todo |-> {}, doc |-> 0, cert |-> NoCard, by |-> NoCard,
           retried |-> FALSE, made |-> 0, left |-> FALSE]
Absent == [status |-> "absent", cert |-> NoCard, by |-> NoCard]

WorkspaceTypeOK ==
  /\ TypeOK
  /\ ContextTypeOK
  /\ tab \in {"sign", "cle"}
  /\ docs \in [Docs -> [status: {"absent", "pending", "signing", "signed", "error"},
                        cert: Cards \cup {NoCard}, by: Cards \cup {NoCard}]]
  /\ busy \in BOOLEAN /\ done \in BOOLEAN
  /\ signedSnapshot \subseteq Docs
  /\ run \in [Flows -> [at: {"idle", "key", "unlock", "prepare", "sign", "assemble", "relock"},
                        todo: SUBSET Docs, doc: 0..NDocs,
                        cert: Cards \cup {NoCard}, by: Cards \cup {NoCard},
                        retried: BOOLEAN, made: 0..2, left: BOOLEAN]]

WorkspaceInit ==
  /\ Init
  /\ ContextInit
  /\ tab = "sign"
  /\ docs = [d \in Docs |-> Absent]
  /\ busy = FALSE
  /\ done = FALSE
  /\ signedSnapshot = {}
  /\ run = [f \in Flows |-> NoRun]

(* The list D once f has patched d: neither a removed document nor a page  *)
(* the user left is patched.                                               *)
Patched(f, D, d, outcome) ==
  IF run[f].left \/ D[d].status = "absent" THEN D ELSE [D EXCEPT ![d] = outcome]

Signing(f, D, d) == Patched(f, D, d, [D[d] EXCEPT !.status = "signing"])

(* A flag of the page, unless f's page is gone.                            *)
Sets(f, flag, value) == IF run[f].left THEN flag ELSE value

Listed  == {d \in Docs : docs[d].status # "absent"}

(* Targets that include what is signed already.                            *)
PendingAll == Listed

Pending == {d \in Listed : docs[d].status # "signed"}

CanSign == available = "available" /\ Pending # {} /\ ~busy

(* The success view replaces the main view.                                *)
AllTargetedSigned ==
  done /\ signedSnapshot # {} /\ \A d \in signedSnapshot : docs[d].status = "signed"

(* The buttons of the two views, and those on the screen.  The documents   *)
(* stay open to change while a run waits for the PIN.                      *)
DocumentsPanel == {"add"} \cup IF busy THEN {} ELSE {"remove"}
SuccessView == {"reset", "verify"}
MainView == DocumentsPanel \cup IF CanSign THEN {"sign"} ELSE {}

Buttons ==
  IF tab # "sign" THEN {} ELSE IF AllTargetedSigned THEN SuccessView ELSE MainView
-----------------------------------------------------------------------------
(* The user's actions.                                                     *)

(* Every file gets a fresh id; a number is used again only when nothing    *)
(* refers to it any more.                                                  *)
AddFile(d) ==
  /\ "add" \in Buttons
  /\ docs[d].status = "absent"
  /\ d \notin signedSnapshot
  /\ \A f \in Flows : run[f].left \/ (run[f].doc # d /\ d \notin run[f].todo)
  /\ \A e \in Docs : e < d => docs[e].status # "absent"
  /\ docs' = [docs EXCEPT ![d] = [Absent EXCEPT !.status = "pending"]]
  /\ UNCHANGED <<vars, context, tab, busy, done, signedSnapshot, run>>

Remove(d) ==
  /\ "remove" \in Buttons
  /\ docs[d].status # "absent"
  /\ docs' = [docs EXCEPT ![d] = Absent]
  /\ UNCHANGED <<vars, context, tab, busy, done, signedSnapshot, run>>

(* onReset of the success view.                                            *)
Reset ==
  /\ "reset" \in Buttons
  /\ docs' = [d \in Docs |-> Absent]
  /\ done' = FALSE
  /\ signedSnapshot' = {}
  /\ UNCHANGED <<vars, context, tab, busy, run>>

(* Another tab: the page and its state go, its runs stay.                  *)
SetTab(t) ==
  /\ tab' = t
  /\ docs' = [d \in Docs |-> Absent]
  /\ busy' = FALSE
  /\ done' = FALSE
  /\ signedSnapshot' = {}
  /\ run' = [f \in Flows |-> IF run[f] = NoRun THEN NoRun ELSE [run[f] EXCEPT !.left = TRUE]]
  /\ UNCHANGED <<vars, context>>

(* handleUnlock of the key screen, one at a time while it is mounted.      *)
KeyUnlock(f) ==
  /\ tab = "cle"
  /\ available = "available"
  /\ run[f] = NoRun
  /\ \A g \in Flows : run[g].at = "key" => run[g].left
  /\ EnsureUnlocked(f)
  /\ run' = [run EXCEPT ![f] = [NoRun EXCEPT !.at = "key"]]
  /\ UNCHANGED <<vars, available, certificates, pinOpen, pad, pinResolver, probe, given>>
  /\ UNCHANGED <<tab, docs, busy, done, signedSnapshot>>

(* The lock button of the key screen.                                      *)
KeyLock == tab = "cle" /\ LockClicked /\ UNCHANGED workspace

(* signAll: the targets are the documents not signed at the click.         *)
SignAll(f) ==
  /\ "sign" \in Buttons
  /\ run[f] = NoRun
  /\ EnsureUnlocked(f)
  /\ run' = [run EXCEPT ![f] = [NoRun EXCEPT !.at = "unlock", !.todo = Pending]]
  /\ UNCHANGED <<vars, available, certificates, pinOpen, pad, pinResolver, probe, given>>
  /\ UNCHANGED <<tab, docs, busy, done, signedSnapshot>>
-----------------------------------------------------------------------------
(* runBatch and signOne.                                                   *)

First(S) == CHOOSE d \in S : \A e \in S : d <= e

(* signOne begins its next document.                                       *)
Starts(f, r, d) ==
  run' = [run EXCEPT ![f] = [r EXCEPT !.at = "prepare", !.doc = d, !.todo = @ \ {d},
                                      !.by = NoCard, !.retried = FALSE, !.made = 0]]

(* A batch that gives up at the first document in error.                   *)
FinishStopsEarly(f, outcome) ==
  LET ended == Patched(f, docs, run[f].doc, outcome)
  IN  IF run[f].todo = {} \/ outcome.status = "error"
        THEN /\ docs' = ended
             /\ busy' = Sets(f, busy, FALSE)
             /\ done' = Sets(f, done, TRUE)
             /\ run' = [run EXCEPT ![f] = NoRun]
        ELSE /\ docs' = Signing(f, ended, First(run[f].todo))
             /\ Starts(f, run[f], First(run[f].todo))
             /\ UNCHANGED <<busy, done>>

(* The document ends with a status; the next one starts, or the batch ends *)
(* for every run of the page.                                              *)
Finish(f, outcome) ==
  LET ended == Patched(f, docs, run[f].doc, outcome)
  IN  IF run[f].todo = {}
        THEN /\ docs' = ended
             /\ busy' = Sets(f, busy, FALSE)
             /\ done' = Sets(f, done, TRUE)
             /\ run' = [run EXCEPT ![f] = NoRun]
        ELSE /\ docs' = Signing(f, ended, First(run[f].todo))
             /\ Starts(f, run[f], First(run[f].todo))
             /\ UNCHANGED <<busy, done>>

Failed(f)  == Finish(f, [docs[run[f].doc] EXCEPT !.status = "error"])
Signed(f)  == Finish(f, [status |-> "signed", cert |-> run[f].cert, by |-> run[f].by])

(* ensureUnlocked has settled for handleUnlock.                            *)
KeyUnlocked(f) ==
  /\ run[f].at = "key"
  /\ Settled(f)
  /\ Moves(f, "idle")
  /\ run' = [run EXCEPT ![f] = NoRun]
  /\ UNCHANGED <<vars, available, certificates, pinOpen, pad, pinResolver, probe,
                 cached, given>>
  /\ UNCHANGED <<tab, docs, busy, done, signedSnapshot>>

(* ensureUnlocked has settled for runBatch, which needs a certificate.     *)
BatchUnlocked(f) ==
  /\ run[f].at = "unlock"
  /\ Settled(f)
  /\ Moves(f, "idle")
  /\ IF ensure[f] = "ready" /\ given[f] # NoCard
       THEN /\ signedSnapshot' = Sets(f, signedSnapshot, run[f].todo)
            /\ busy' = Sets(f, busy, TRUE)
            /\ docs' = Signing(f, docs, First(run[f].todo))
            /\ Starts(f, [run[f] EXCEPT !.cert = given[f]], First(run[f].todo))
            /\ UNCHANGED done
       ELSE /\ run' = [run EXCEPT ![f] = NoRun]
            /\ UNCHANGED <<docs, busy, done, signedSnapshot>>
  /\ UNCHANGED <<vars, available, certificates, pinOpen, pad, pinResolver, probe,
                 cached, given, tab>>

(* backendApi.prepare answered.                                            *)
Prepared(f, ok) ==
  /\ run[f].at = "prepare"
  /\ IF ok
       THEN /\ run' = [run EXCEPT ![f].at = "sign"]
            /\ UNCHANGED <<docs, busy, done>>
       ELSE Failed(f)
  /\ UNCHANGED <<vars, context, tab, signedSnapshot>>

(* Signing with the certificates the context lists by now.                 *)
RunSignCurrent(f) ==
  /\ run[f].at = "sign"
  /\ Sent(f)
  /\ certificates # NoCard
  /\ SignBegin(f, KeyIdOf[certificates]) \/ SignRefused(f, TRUE) \/ OpenFails(f, "sign")
  /\ UNCHANGED <<context, workspace>>

(* agentApi.signDigest is run by the shell.                                *)
RunSign(f) ==
  /\ run[f].at = "sign"
  /\ Sent(f)
  /\ \/ SignBegin(f, KeyIdOf[run[f].cert])
     \/ SignRefused(f, TRUE)
     \/ OpenFails(f, "sign")
  /\ UNCHANGED <<context, workspace>>

(* The card's signature came back.                                         *)
SignAnswered(f) ==
  /\ run[f].at = "sign"
  /\ Answered(f, "sign")
  /\ reply[f].code = "ok"
  /\ Take(f)
  /\ run' = [run EXCEPT ![f].at = "assemble", ![f].by = reply[f].card, ![f].made = @ + 1]
  /\ UNCHANGED <<context, tab, docs, busy, done, signedSnapshot>>

(* The card did not sign: a locked session is unlocked again, once.        *)
SignFailed(f) ==
  /\ run[f].at = "sign"
  /\ Answered(f, "sign")
  /\ reply[f].code # "ok"
  /\ Take(f)
  /\ IF reply[f].code = "locked" /\ ~run[f].retried
       THEN /\ Moves(f, "status")
            /\ run' = [run EXCEPT ![f].at = "relock"]
            /\ UNCHANGED <<docs, busy, done>>
       ELSE Failed(f) /\ UNCHANGED ensure
  /\ UNCHANGED <<available, certificates, pinOpen, pad, pinResolver, probe, cached,
                 given, tab, signedSnapshot>>

(* A cancelled prompt that gives the run up without a word on its document.*)
RetryUnlockedSilent(f) ==
  /\ run[f].at = "relock"
  /\ Settled(f)
  /\ Moves(f, "idle")
  /\ IF ensure[f] = "ready"
       THEN /\ docs' = Signing(f, docs, run[f].doc)
            /\ run' = [run EXCEPT ![f].at = "prepare", ![f].retried = TRUE]
            /\ UNCHANGED busy
       ELSE /\ run' = [run EXCEPT ![f] = NoRun]
            /\ busy' = Sets(f, busy, FALSE)
            /\ UNCHANGED docs
  /\ UNCHANGED <<vars, available, certificates, pinOpen, pad, pinResolver, probe,
                 cached, given, tab, done, signedSnapshot>>

(* ensureUnlocked has settled for signOne, which starts over.              *)
RetryUnlocked(f) ==
  /\ run[f].at = "relock"
  /\ Settled(f)
  /\ Moves(f, "idle")
  /\ IF ensure[f] = "ready"
       THEN /\ docs' = Signing(f, docs, run[f].doc)
            /\ run' = [run EXCEPT ![f].at = "prepare", ![f].retried = TRUE]
            /\ UNCHANGED <<busy, done>>
       ELSE Failed(f)
  /\ UNCHANGED <<vars, available, certificates, pinOpen, pad, pinResolver, probe,
                 cached, given, tab, signedSnapshot>>

(* A failed assembly that is tried again from the start.                   *)
AssembledRetries(f, ok) ==
  /\ run[f].at = "assemble"
  /\ IF ok THEN Signed(f)
           ELSE /\ run' = [run EXCEPT ![f].at = "prepare"]
                /\ UNCHANGED <<docs, busy, done>>
  /\ UNCHANGED <<vars, context, tab, signedSnapshot>>

(* backendApi.assemble answered.                                           *)
Assembled(f, ok) ==
  /\ run[f].at = "assemble"
  /\ IF ok THEN Signed(f) ELSE Failed(f)
  /\ UNCHANGED <<vars, context, tab, signedSnapshot>>
-----------------------------------------------------------------------------
(* The promise queue is empty.                                             *)
Quiet == \A f \in Flows : ~Settled(f)

User ==
  \/ \E d \in Docs : AddFile(d) \/ Remove(d)
  \/ Reset
  \/ \E t \in {"sign", "cle"} \ {tab} : SetTab(t)
  \/ \E f \in Flows : SignAll(f) \/ KeyUnlock(f)
  \/ KeyLock

Continue(f) == KeyUnlocked(f) \/ BatchUnlocked(f) \/ RetryUnlocked(f)

(* A run goes on: the server has answered, or the shell has.               *)
Progress(f) ==
  \/ \E ok \in BOOLEAN : Prepared(f, ok) \/ Assembled(f, ok)
  \/ SignAnswered(f)
  \/ SignFailed(f)

CardAnswers == TokenAnswers /\ UNCHANGED <<context, workspace>>

WorkspaceNext ==
  \/ \E f \in Flows : Continue(f)
  \/ /\ Quiet
     /\ \/ User
        \/ \E f \in Flows : Progress(f) \/ RunSign(f)
        \/ (PinModal \/ ContextEvent \/ LockAnswered) /\ UNCHANGED workspace
        \/ World /\ UNCHANGED <<context, workspace>>
        \/ CardAnswers

WorkspaceSpec == WorkspaceInit /\ [][WorkspaceNext]_desk

(* The server and the card answer, one way or another; continuations run;  *)
(* the shell runs the commands it was sent in order, so none of them waits *)
(* for ever on the mutex.  The user need not do anything.                  *)
WorkspaceFairness ==
  /\ \A f \in Flows :
       /\ WF_desk(Continue(f) \/ Progress(f) \/ (EnsureStep(f) /\ UNCHANGED workspace))
       /\ SF_desk(RunSign(f) \/ (RunEnsure(f) /\ UNCHANGED workspace))
  /\ WF_desk(PadStep /\ UNCHANGED workspace)
  /\ SF_desk(RunPad /\ UNCHANGED workspace)
  /\ WF_desk(CardAnswers)

FairWorkspaceSpec == WorkspaceSpec /\ WorkspaceFairness
-----------------------------------------------------------------------------
(* Properties.                                                             *)

(* The run of f, on the page that is shown, is at an await of signOne for  *)
(* d.                                                                      *)
WorksOn(f, d) ==
  run[f].doc = d /\ run[f].at \notin {"idle", "key", "unlock"} /\ ~run[f].left

(* Someone is to continue f: the server, the card, the shell, or the user, *)
(* who has the modal for it or has submitted it.                           *)
GoesOn(f) == ensure[f] = "pin" => (pinOpen /\ pinResolver = f) \/ pad.for = f

(* A document shown as being signed has a run that goes on, whatever runs  *)
(* overlap, fail or are cancelled (SignWorkspace.tsx:139-214); or that run *)
(* has lost its prompt to another flow (PromptLostToAnother), and then     *)
(* nothing ends it: the row and the page's busy flag stay as they are.     *)
SigningHasRun ==
  \A d \in Docs : docs[d].status = "signing" =>
    \E f \in Flows : WorksOn(f, d) /\ (GoesOn(f) \/ PromptLost(f))

(* A signature is made with the key of the certificate that is sealed into *)
(* its document, although the certificate was chosen when the batch began, *)
(* is kept by the retry, and the card may have been swapped, its list read *)
(* anew and the PIN given to another card since: a card whose key has      *)
(* another CKA_ID signs nothing (SignWorkspace.tsx:139-184, token.rs:97-112).*)
(* Two cards whose keys share a CKA_ID are one card to this test.          *)
SignedByItsKey ==
  \A d \in Docs : docs[d].status = "signed" =>
    NoCard \notin {docs[d].by, docs[d].cert} /\ KeyIdOf[docs[d].by] = KeyIdOf[docs[d].cert]

(* A run asks the card at most once for a signature of a document it has   *)
(* obtained: the retry after `locked` never signs twice, and a failed      *)
(* assembly is not retried (SignWorkspace.tsx:181-193).                    *)
OneSignaturePerRun == \A f \in Flows : run[f].made <= 1

(* Every batch ends unless it waits for the user to answer the PIN modal:  *)
(* no failure, lock, timeout or pulled card leaves the page busy for ever, *)
(* nor the modal busy with no answer to come (SignWorkspace.tsx:196-214).  *)
BatchEnds ==
  \A f \in Flows :
    run[f] # NoRun ~> run[f] = NoRun \/ (pinOpen /\ pad = PadIdle)

(* When a batch ends, every target still listed is signed or in error: one *)
(* document's failure or one cancelled prompt leaves no other document     *)
(* behind (SignWorkspace.tsx:206-209).                                     *)
BatchSettles ==
  [][\A f \in Flows : busy /\ run[f] # NoRun /\ ~run[f].left /\ run'[f] = NoRun =>
       \A d \in signedSnapshot : docs'[d].status \in {"signed", "error", "absent"}]_desk

(* SignWorkspace.tsx:226: the success view is rendered once all targeted   *)
(* docs are signed and the batch is finished.                              *)
SuccessMeansFinished ==
  AllTargetedSigned => \A f \in Flows : run[f].left \/ run[f].at \in {"idle", "key", "unlock"}

(* A document that is signed stays so, while it is listed: another batch   *)
(* over a list that has grown leaves it alone                              *)
(* (SignWorkspace.tsx:206-208,217-218).  Of one run at a time; two that    *)
(* overlap undo each other's work (SignWorkspace.tsx:181-193).             *)
SignedStays ==
  [][\A d \in Docs :
       docs[d].status = "signed" => docs'[d].status \in {"signed", "absent"}]_desk
=============================================================================
