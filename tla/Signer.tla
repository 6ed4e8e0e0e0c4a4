------------------------------- MODULE Signer -------------------------------
(***************************************************************************)
(* The signing core: the Rust crate eudss-signer behind the Tauri commands *)
(* of the desktop shell.  The state of `Mutex<Option<Signer>>` is opened,  *)
(* live and session; the card and its PKCS#11 middleware are external and  *)
(* change under it.  A command holds the mutex from start to end.  The two *)
(* that wait for the card, unlock and sign, are split into Begin and End,  *)
(* between which time passes and the card may be pulled; the others answer *)
(* in one step.                                                            *)
(***************************************************************************)
EXTENDS Naturals

CONSTANTS
  Cards,     (* the physical cards                                         *)
  NoCard,    (* "no card"; not an element of Cards                         *)
  KeyIds,    (* the CKA_ID values the interface may ask for                *)
  KeyIdOf,   (* the CKA_ID of each card's signing key                      *)
  Clients,   (* the flows of the interface that call the commands          *)
  TTL,       (* the idle TTL, 300 s in the code                            *)
  PinTries   (* wrong PINs in a row that block a card                      *)

ASSUME SignerAssumption ==
  /\ NoCard \notin Cards
  /\ KeyIdOf \in [Cards -> KeyIds]
  /\ TTL \in Nat
  /\ PinTries \in Nat \ {0}

VARIABLES
  card,      (* the inserted card, or NoCard                               *)
  tries,     (* per card, the wrong PINs it still accepts                  *)
  installed, (* PKCS#11 middleware is found by module::resolve             *)
  opened,    (* the Option<Signer> is Some                                 *)
  live,      (* Signer.live: the logged-in PKCS#11 session                 *)
  session,   (* age of SessionState.unlocked_since_activity                *)
  call,      (* the command that holds the mutex while the card works      *)
  reply      (* per client, the answer it has not taken yet                *)

environment == <<card, tries, installed>>
signer      == <<opened, live, session>>
vars        == <<card, tries, installed, opened, live, session, call, reply>>

(* Ages stop at Lapsed: None and an activity older than the TTL answer     *)
(* every question of SessionState alike.                                   *)
Lapsed   == TTL + 1
Aged(a)  == IF a < Lapsed THEN a + 1 ELSE a
Unlocked == session <= TTL

(* A login is valid until its card is pulled; the handle survives that.    *)
NoLive == [card |-> NoCard, valid |-> FALSE]
NoCall == [op |-> "none"]

Ops    == {"none", "status", "available", "list", "lock", "unlock", "sign"}
Errors == {"token_unavailable", "pkcs11_error", "module_not_found"}
Codes  == {"none", "ok", "no", "unlocked", "locked", "invalid_input",
           "unknown_key_id", "pin_incorrect", "pin_locked"} \cup Errors
Reply(op, code, c) == [op |-> op, code |-> code, card |-> c]
NoReply == Reply("none", "none", NoCard)

(* What each command may answer its client: status and is_available never  *)
(* fail, and only a list and a sign tell of a card.                        *)
Answers ==
       [op: {"none"}, code: {"none"}, card: {NoCard}]
  \cup [op: {"status"}, code: {"unlocked", "locked"}, card: {NoCard}]
  \cup [op: {"available"}, code: {"ok", "no"}, card: {NoCard}]
  \cup [op: {"list", "sign"}, code: {"ok"}, card: Cards]
  \cup [op: {"list", "lock", "unlock", "sign"}, code: Errors, card: {NoCard}]
  \cup [op: {"lock", "unlock"}, code: {"ok"}, card: {NoCard}]
  \cup [op: {"unlock"}, code: {"pin_incorrect", "pin_locked"}, card: {NoCard}]
  \cup [op: {"sign"}, code: {"locked", "invalid_input", "unknown_key_id"}, card: {NoCard}]

Calls ==
  {NoCall} \cup [op: {"unlock"}, who: Clients]
           \cup [op: {"sign"}, who: Clients, key: KeyIds, age: 0..Lapsed]

TypeOK ==
  /\ card \in Cards \cup {NoCard}
  /\ tries \in [Cards -> 0..PinTries]
  /\ installed \in BOOLEAN
  /\ opened \in BOOLEAN
  /\ live \in [card: Cards \cup {NoCard}, valid: BOOLEAN]
  /\ session \in 0..Lapsed
  /\ call \in Calls
  /\ reply \in [Clients -> Answers]

Init ==
  /\ card \in Cards \cup {NoCard}
  /\ tries = [c \in Cards |-> PinTries]
  /\ installed \in BOOLEAN
  /\ opened = FALSE
  /\ live = NoLive
  /\ session = Lapsed
  /\ call = NoCall
  /\ reply = [w \in Clients |-> NoReply]
-----------------------------------------------------------------------------
(* The world outside the process.                                          *)

Install ==
  /\ ~installed
  /\ installed' = TRUE
  /\ UNCHANGED <<card, tries, opened, live, session, call, reply>>

Plug(c) ==
  /\ card = NoCard
  /\ card' = c
  /\ UNCHANGED <<tries, installed, opened, live, session, call, reply>>

Unplug ==
  /\ card # NoCard
  /\ card' = NoCard
  /\ live' = [live EXCEPT !.valid = FALSE]
  /\ UNCHANGED <<tries, installed, opened, session, call, reply>>

Tick ==
  /\ session' = Aged(session)
  /\ call' = IF call.op = "sign" THEN [call EXCEPT !.age = Aged(@)] ELSE call
  /\ UNCHANGED <<card, tries, installed, opened, live, reply>>
-----------------------------------------------------------------------------
(* SignerState::with.                                                      *)

Answer(w, op, code, c) == reply' = [reply EXCEPT ![w] = Reply(op, code, c)]

(* The answer crosses the IPC boundary and is handed to the client.        *)
Take(w) ==
  /\ reply[w] # NoReply
  /\ reply' = [reply EXCEPT ![w] = NoReply]
  /\ UNCHANGED <<card, tries, installed, opened, live, session, call>>

(* A command awaited by w that has not run yet, and one that was answered. *)
Sent(w) == reply[w] = NoReply /\ ~(call # NoCall /\ call.who = w)

Answered(w, op) == reply[w].op = op

Free == call = NoCall

(* The guard holds a Signer, or Signer::open may succeed.                  *)
CanOpen == opened \/ (installed /\ card # NoCard)

(* What Signer::open can fail with: no middleware, no card in the slot, or *)
(* middleware that does not load or initialise.                            *)
OpenErrors ==
  IF installed
    THEN {"pkcs11_error"} \cup (IF card = NoCard THEN {"token_unavailable"} ELSE {})
    ELSE {"module_not_found"}

(* An is_available that hands its error on as the other commands do.       *)
SaysError(op, code) == code

(* is_available answers yes or no, the other commands say what failed.     *)
Says(op, code) == IF op = "available" THEN "no" ELSE code

(* Signer::open failed; the closure never runs.                            *)
OpenFails(w, op) ==
  /\ Free
  /\ ~opened
  /\ \E code \in OpenErrors : Answer(w, op, Says(op, code), NoCard)
  /\ UNCHANGED <<card, tries, installed, opened, live, session, call>>

(* What a PKCS#11 call can fail with, after from_pkcs11.  A card that is   *)
(* or was out shows as such or, through an invalid handle, as some other   *)
(* error; "pkcs11_error" stands for every code that keeps the Signer.      *)
TokenErrors(cardStayed) ==
  {"pkcs11_error"} \cup
    (IF card # NoCard /\ cardStayed THEN {} ELSE {"token_unavailable"})

(* TokenUnavailable drops the cached Signer, any other error keeps it.     *)
KeepLoginOnTokenLoss(code) ==
  /\ opened' = (code # "token_unavailable")
  /\ session' = IF code = "token_unavailable" THEN Lapsed ELSE session
  /\ live' = live

AfterError(code) ==
  IF code = "token_unavailable"
    THEN /\ opened' = FALSE
         /\ live' = NoLive
         /\ session' = Lapsed
    ELSE /\ opened' = TRUE
         /\ UNCHANGED <<live, session>>
-----------------------------------------------------------------------------
(* The commands.                                                           *)

(* A status poll that counted as activity.                                 *)
StatusTouches(w) ==
  /\ Free
  /\ opened' \in {opened, CanOpen}
  /\ Answer(w, "status", IF Unlocked THEN "unlocked" ELSE "locked", NoCard)
  /\ session' = IF Unlocked THEN 0 ELSE session
  /\ UNCHANGED <<card, tries, installed, live, call>>

(* commands::status answers "locked" when no Signer can be opened.         *)
Status(w) ==
  /\ Free
  /\ opened' \in {opened, CanOpen}
  /\ Answer(w, "status", IF Unlocked THEN "unlocked" ELSE "locked", NoCard)
  /\ UNCHANGED <<card, tries, installed, live, session, call>>

(* list_certificates, and is_available, which only reports its success.    *)
List(w, op) ==
  /\ Free
  /\ CanOpen
  /\ \/ /\ card # NoCard
        /\ opened' = TRUE
        /\ Answer(w, op, "ok", IF op = "list" THEN card ELSE NoCard)
        /\ UNCHANGED <<live, session>>
     \/ \E code \in TokenErrors(TRUE) :
          /\ AfterError(code)
          /\ Answer(w, op, Says(op, code), NoCard)
  /\ UNCHANGED <<card, tries, installed, call>>

Lock(w) ==
  /\ Free
  /\ CanOpen
  /\ opened' = TRUE
  /\ live' = NoLive
  /\ session' = Lapsed
  /\ Answer(w, "lock", "ok", NoCard)
  /\ UNCHANGED <<card, tries, installed, call>>

(* The prior login is closed first; the idle timer is not reset.           *)
UnlockBegin(w) ==
  /\ Free
  /\ CanOpen
  /\ opened' = TRUE
  /\ live' = NoLive
  /\ call' = [op |-> "unlock", who |-> w]
  /\ reply' = [reply EXCEPT ![w] = NoReply]
  /\ UNCHANGED <<card, tries, installed, session>>

UnlockOk ==
  /\ call.op = "unlock"
  /\ card # NoCard
  /\ tries[card] > 0
  /\ live' = [card |-> card, valid |-> TRUE]
  /\ session' = 0
  /\ tries' = [tries EXCEPT ![card] = PinTries]
  /\ Answer(call.who, "unlock", "ok", NoCard)
  /\ call' = NoCall
  /\ UNCHANGED <<card, installed, opened>>

(* One C_Login, never retried.                                             *)
UnlockWrong ==
  /\ call.op = "unlock"
  /\ card # NoCard
  /\ tries[card] > 0
  /\ tries' = [tries EXCEPT ![card] = @ - 1]
  /\ Answer(call.who, "unlock", "pin_incorrect", NoCard)
  /\ call' = NoCall
  /\ UNCHANGED <<card, installed, opened, live, session>>

UnlockBlocked ==
  /\ call.op = "unlock"
  /\ card # NoCard
  /\ tries[card] = 0
  /\ Answer(call.who, "unlock", "pin_locked", NoCard)
  /\ call' = NoCall
  /\ UNCHANGED <<card, tries, installed, opened, live, session>>

UnlockFault(code) ==
  /\ call.op = "unlock"
  /\ code \in TokenErrors(FALSE)
  /\ AfterError(code)
  /\ Answer(call.who, "unlock", code, NoCard)
  /\ call' = NoCall
  /\ UNCHANGED environment

(* sign refuses without the card: an expired session (the leftover login   *)
(* is closed now), then an ill-formed digest, then a missing login.        *)
SignRefused(w, wellFormed) ==
  /\ Free
  /\ CanOpen
  /\ opened' = TRUE
  /\ \/ /\ ~Unlocked
        /\ live' = NoLive
        /\ Answer(w, "sign", "locked", NoCard)
     \/ /\ Unlocked
        /\ ~wellFormed
        /\ live' = live
        /\ Answer(w, "sign", "invalid_input", NoCard)
     \/ /\ Unlocked
        /\ wellFormed
        /\ live = NoLive
        /\ live' = live
        /\ Answer(w, "sign", "locked", NoCard)
  /\ UNCHANGED <<card, tries, installed, session, call>>

(* sign without the is_unlocked test.                                      *)
SignBeginUnchecked(w, key) ==
  /\ Free
  /\ CanOpen
  /\ live # NoLive
  /\ opened' = TRUE
  /\ call' = [op |-> "sign", who |-> w, key |-> key, age |-> 0]
  /\ reply' = [reply EXCEPT ![w] = NoReply]
  /\ UNCHANGED <<card, tries, installed, live, session>>

SignBegin(w, key) ==
  /\ Free
  /\ CanOpen
  /\ Unlocked
  /\ live # NoLive
  /\ opened' = TRUE
  /\ call' = [op |-> "sign", who |-> w, key |-> key, age |-> 0]
  /\ reply' = [reply EXCEPT ![w] = NoReply]
  /\ UNCHANGED <<card, tries, installed, live, session>>

(* session.touch(now), with the instant read when the command began.       *)
SignOk ==
  /\ call.op = "sign"
  /\ live.valid
  /\ KeyIdOf[live.card] = call.key
  /\ session' = call.age
  /\ Answer(call.who, "sign", "ok", live.card)
  /\ call' = NoCall
  /\ UNCHANGED <<card, tries, installed, opened, live>>

SignUnknownKey ==
  /\ call.op = "sign"
  /\ live.valid
  /\ KeyIdOf[live.card] # call.key
  /\ Answer(call.who, "sign", "unknown_key_id", NoCard)
  /\ call' = NoCall
  /\ UNCHANGED <<card, tries, installed, opened, live, session>>

SignFault(code) ==
  /\ call.op = "sign"
  /\ code \in TokenErrors(live.valid)
  /\ AfterError(code)
  /\ Answer(call.who, "sign", code, NoCard)
  /\ call' = NoCall
  /\ UNCHANGED environment
-----------------------------------------------------------------------------
(* The process ends, whatever it was doing, and starts anew: the Signer    *)
(* lives in memory only, and the card forgets its login, not its tries.    *)
ProcessEnds ==
  /\ opened' = FALSE
  /\ live' = NoLive
  /\ session' = Lapsed
  /\ call' = NoCall
  /\ reply' = [w \in Clients |-> NoReply]
  /\ UNCHANGED environment

World == Install \/ Unplug \/ Tick \/ \E c \in Cards : Plug(c)

Command(w) ==
  \/ \E op \in Ops \ {"none", "status"} : OpenFails(w, op)
  \/ Status(w)
  \/ \E op \in {"available", "list"} : List(w, op)
  \/ Lock(w)
  \/ UnlockBegin(w)
  \/ \E wellFormed \in BOOLEAN : SignRefused(w, wellFormed)
  \/ \E key \in KeyIds : SignBegin(w, key)

TokenAnswers ==
  \/ UnlockOk
  \/ UnlockWrong
  \/ UnlockBlocked
  \/ SignOk
  \/ SignUnknownKey
  \/ \E code \in Codes : UnlockFault(code) \/ SignFault(code)

Next ==
  \/ World
  \/ \E w \in Clients : Command(w) \/ Take(w)
  \/ TokenAnswers
  \/ ProcessEnds

Spec == Init /\ [][Next]_vars

(* Time passes; nothing is assumed of the user, the card or the driver.    *)
FairSpec == Spec /\ WF_vars(Tick)
-----------------------------------------------------------------------------
(* Properties.                                                             *)

(* A login never outlives what vouches for it: a valid handle belongs to   *)
(* the inserted card, and neither a handle nor a running timer exists      *)
(* once the Signer was dropped (signer.rs:33-37, signer_state.rs:37-39).   *)
LoginMatchesCard ==
  /\ live.valid => live.card = card /\ card # NoCard
  /\ ~opened => live = NoLive /\ ~Unlocked /\ call = NoCall
  /\ call.op = "unlock" => live = NoLive

(* A session that cannot sign does not go on being reported as unlocked:   *)
(* whatever the user and the driver do, a session whose login is gone      *)
(* expires or is unlocked anew; failing signatures and status polls never  *)
(* prolong it (signer.rs:102-129, session.rs:29-33).                       *)
DeadSessionEnds == Unlocked /\ ~live.valid ~> ~Unlocked \/ live.valid

(* What softhsm_integration.rs:56 says: after a failed unlock the session  *)
(* is still locked.                                                        *)
FailedUnlockStaysLocked ==
  [][(/\ call.op = "unlock" /\ call' = NoCall
      /\ reply'[call.who].code = "pin_incorrect") => ~Unlocked']_vars

(* The core keeps the promise of PinSession: holder is the card of a valid *)
(* login, a request is a sign that holds the mutex.                        *)
PS == INSTANCE PinSession WITH
        holder    <- IF live.valid THEN live.card ELSE NoCard,
        idle      <- session,
        asked     <- IF call.op = "sign"
                       THEN [open |-> TRUE, who |-> call.who, age |-> call.age]
                       ELSE [open |-> FALSE],
        signature <- [w \in Clients |->
                        IF reply[w].op = "sign" /\ reply[w].code = "ok"
                          THEN reply[w].card ELSE NoCard]

(* Every signature is made by the inserted card, under a PIN presented to  *)
(* it since it was inserted, for a request made within the idle TTL.       *)
ImplementsPinSession == PS!Spec
=============================================================================
