---------------------------- MODULE SignerProofs ----------------------------
(***************************************************************************)
(* What TLC finds for two cards and two clients, proved for every set of   *)
(* cards, keys and clients, every TTL and every number of PIN tries.       *)
(* IInv is the inductive invariant: the types, and that a login handle, an *)
(* idle timer and a running command vouch for one another.                 *)
(***************************************************************************)
EXTENDS Signer, TLAPS

IInv == TypeOK /\ LoginMatchesCard

(* TokenErrors and OpenErrors stay among the errors of the core.           *)
LEMMA ErrorCodes ==
  /\ \A b \in BOOLEAN : TokenErrors(b) \subseteq Errors
  /\ OpenErrors \subseteq Errors
  BY DEF TokenErrors, OpenErrors, Errors

(* Which errors a command passes on, and is_available does not.            *)
LEMMA SaysType ==
  ASSUME NEW op \in Ops \ {"none", "status"}, NEW code \in Errors
  PROVE  Reply(op, Says(op, code), NoCard) \in Answers
  BY DEF Says, Reply, Answers, Ops

(* Ages stay within 0..Lapsed.                                             *)
LEMMA AgedType == \A a \in 0..Lapsed : Aged(a) \in 0..Lapsed
  BY SignerAssumption DEF Aged, Lapsed

(* A well-formed answer keeps the replies well formed.                     *)
LEMMA AnswerType ==
  ASSUME TypeOK, NEW w \in Clients, NEW op, NEW code, NEW c, Answer(w, op, code, c),
         Reply(op, code, c) \in Answers
  PROVE  reply' \in [Clients -> Answers]
  BY DEF TypeOK, Answer

(* The client of the running command, and the age of a running sign.       *)
LEMMA CallType ==
  ASSUME TypeOK
  PROVE  /\ call.op # "none" => call.who \in Clients
         /\ call.op = "sign" => /\ call.age \in 0..Lapsed
                                /\ call.key \in KeyIds
                                /\ call \in [op: {"sign"}, who: Clients,
                                             key: KeyIds, age: 0..Lapsed]
  BY DEF TypeOK, Calls, NoCall

(* No login and no command are states of their own.                        *)
LEMMA NoFacts ==
  /\ NoLive \in [card: Cards \cup {NoCard}, valid: BOOLEAN]
  /\ ~NoLive.valid
  /\ NoLive.card = NoCard
  /\ NoCall \in Calls
  /\ NoCall.op = "none"
  /\ NoReply \in Answers
  BY DEF NoLive, NoCall, Calls, NoReply, Reply, Answers

(* The initial states satisfy the inductive invariant.                     *)
LEMMA InitIInv == Init => IInv
<1> SUFFICES ASSUME Init PROVE IInv
  OBVIOUS
<1>1. TypeOK
  <2>1. tries \in [Cards -> 0..PinTries] /\ session \in 0..Lapsed
    BY SignerAssumption DEF Init, Lapsed
  <2>2. live \in [card: Cards \cup {NoCard}, valid: BOOLEAN] /\ call \in Calls
    BY DEF Init, NoLive, Calls
  <2>3. NoReply \in Answers
    BY NoFacts
  <2> QED
    BY <2>1, <2>2, <2>3 DEF Init, TypeOK
<1>2. LoginMatchesCard
  BY SignerAssumption DEF Init, LoginMatchesCard, NoLive, NoCall, Unlocked, Lapsed
<1> QED
  BY <1>1, <1>2 DEF IInv
-----------------------------------------------------------------------------
(* The world moves under the process without breaking the invariant: a     *)
(* pulled card takes the validity of the login with it.                    *)
LEMMA WorldIInv == IInv /\ World => IInv'
<1> SUFFICES ASSUME IInv, World PROVE IInv'
  OBVIOUS
<1> USE DEF IInv
<1>1. CASE Install
  BY <1>1 DEF Install, TypeOK, LoginMatchesCard, Unlocked
<1>2. CASE Unplug
  <2>1. /\ live' \in [card: Cards \cup {NoCard}, valid: BOOLEAN]
        /\ ~live'.valid
        /\ live = NoLive => live' = NoLive
    <3>1. live' = [card |-> live.card, valid |-> FALSE]
      BY <1>2 DEF Unplug, TypeOK
    <3>2. live = NoLive => live.card = NoCard
      BY NoFacts
    <3> QED
      BY <3>1, <3>2 DEF TypeOK, NoLive
  <2> QED
    BY <1>2, <2>1 DEF Unplug, TypeOK, LoginMatchesCard, Unlocked
<1>3. CASE Tick
  <2>1. session' \in 0..Lapsed /\ (Unlocked' => Unlocked)
    BY <1>3, AgedType, SignerAssumption DEF Tick, TypeOK, Aged, Lapsed, Unlocked
  <2>2. call' \in Calls /\ call'.op = call.op /\ (call = NoCall => call' = NoCall)
    BY <1>3, AgedType, CallType DEF Tick, TypeOK, Calls, NoCall
  <2> QED
    BY <1>3, <2>1, <2>2 DEF Tick, TypeOK, LoginMatchesCard
<1>4. ASSUME NEW c \in Cards, Plug(c) PROVE IInv'
  BY <1>4, SignerAssumption DEF Plug, TypeOK, LoginMatchesCard, Unlocked
<1> QED
  BY <1>1, <1>2, <1>3, <1>4 DEF World
-----------------------------------------------------------------------------
(* The state after SignerState::with has handled an error.                 *)
LEMMA AfterErrorKeeps ==
  ASSUME IInv, NEW code \in Codes, AfterError(code), call' = NoCall, card' = card
  PROVE  /\ opened' \in BOOLEAN
         /\ live' \in [card: Cards \cup {NoCard}, valid: BOOLEAN]
         /\ session' \in 0..Lapsed
         /\ LoginMatchesCard'
<1>1. CASE code = "token_unavailable"
  <2>1. opened' = FALSE /\ live' = NoLive /\ session' = Lapsed
    BY <1>1 DEF AfterError
  <2>2. session' \in 0..Lapsed /\ ~Unlocked'
    BY <2>1, SignerAssumption DEF Lapsed, Unlocked
  <2> QED
    BY <2>1, <2>2, NoFacts DEF LoginMatchesCard
<1>2. CASE code # "token_unavailable"
  BY <1>2, NoFacts DEF AfterError, IInv, TypeOK, LoginMatchesCard
<1> QED
  BY <1>1, <1>2

(* Commands that answer at once, and the first half of unlock and sign.    *)
LEMMA CommandIInv ==
  ASSUME IInv, NEW w \in Clients, Command(w)
  PROVE  IInv'
<1> USE DEF IInv
<1>1. ASSUME NEW op \in Ops \ {"none", "status"}, OpenFails(w, op) PROVE IInv'
  <2>1. PICK code \in OpenErrors : Answer(w, op, Says(op, code), NoCard)
    BY <1>1 DEF OpenFails
  <2>2. reply' \in [Clients -> Answers]
    BY <2>1, SaysType, ErrorCodes, AnswerType
  <2> QED
    BY <1>1, <2>2 DEF OpenFails, TypeOK, LoginMatchesCard, Unlocked
<1>2. CASE Status(w)
  <2>1. reply' \in [Clients -> Answers]
    BY <1>2, AnswerType DEF Status, Reply, Answers
  <2> QED
    BY <1>2, <2>1 DEF Status, TypeOK, LoginMatchesCard, Unlocked, CanOpen, Free
<1>3. ASSUME NEW op \in {"available", "list"}, List(w, op) PROVE IInv'
  <2>1. ASSUME card # NoCard
        PROVE  Reply(op, "ok", IF op = "list" THEN card ELSE NoCard) \in Answers
    <3>1. CASE op = "list"
      BY <2>1, <3>1 DEF Reply, Answers, TypeOK
    <3>2. CASE op = "available"
      BY <3>2 DEF Reply, Answers
    <3> QED
      BY <3>1, <3>2
  <2>2. CASE /\ card # NoCard
             /\ opened' = TRUE
             /\ Answer(w, op, "ok", IF op = "list" THEN card ELSE NoCard)
             /\ UNCHANGED <<live, session>>
    <3>1. reply' \in [Clients -> Answers]
      BY <2>1, <2>2, AnswerType
    <3> QED
      BY <1>3, <2>2, <3>1 DEF List, TypeOK, LoginMatchesCard, Unlocked
  <2>3. ASSUME NEW code \in TokenErrors(TRUE), AfterError(code),
               Answer(w, op, Says(op, code), NoCard)
        PROVE  IInv'
    <3>1. code \in Codes /\ Reply(op, Says(op, code), NoCard) \in Answers
      BY ErrorCodes, SaysType DEF Codes, Ops
    <3>2. reply' \in [Clients -> Answers]
      BY <2>3, <3>1, AnswerType
    <3> QED
      BY <1>3, <2>3, <3>1, <3>2, AfterErrorKeeps DEF List, TypeOK, Free
  <2> QED
    BY <1>3, <2>2, <2>3 DEF List
<1>4. CASE Lock(w)
  <2>1. reply' \in [Clients -> Answers]
    BY <1>4, AnswerType DEF Lock, Reply, Answers
  <2> QED
    BY <1>4, <2>1, SignerAssumption
    DEF Lock, TypeOK, LoginMatchesCard, Unlocked, NoLive, Lapsed
<1>5. CASE UnlockBegin(w)
  <2>1. reply' \in [Clients -> Answers]
    BY <1>5, NoFacts DEF UnlockBegin, TypeOK
  <2>2. call' \in Calls
    BY <1>5 DEF UnlockBegin, Calls
  <2> QED
    BY <1>5, <2>1, <2>2 DEF UnlockBegin, TypeOK, LoginMatchesCard, NoLive
<1>6. ASSUME NEW wellFormed \in BOOLEAN, SignRefused(w, wellFormed) PROVE IInv'
  <2>1. reply' \in [Clients -> Answers]
    BY <1>6, AnswerType DEF SignRefused, Reply, Answers
  <2>2. live' \in {live, NoLive}
    BY <1>6 DEF SignRefused
  <2> QED
    BY <1>6, <2>1, <2>2, NoFacts DEF SignRefused, TypeOK, LoginMatchesCard, Unlocked
<1>7. ASSUME NEW key \in KeyIds, SignBegin(w, key) PROVE IInv'
  <2>1. reply' \in [Clients -> Answers]
    BY <1>7, NoFacts DEF SignBegin, TypeOK
  <2>2. call' \in Calls /\ call'.op = "sign"
    BY <1>7, SignerAssumption DEF SignBegin, Calls, Lapsed
  <2> QED
    BY <1>7, <2>1, <2>2 DEF SignBegin, TypeOK, LoginMatchesCard
<1> QED
  BY <1>1, <1>2, <1>3, <1>4, <1>5, <1>6, <1>7 DEF Command
-----------------------------------------------------------------------------
(* The card answers an unlock.                                             *)
LEMMA UnlockIInv ==
  ASSUME IInv, UnlockOk \/ UnlockWrong \/ UnlockBlocked
                 \/ \E code \in Codes : UnlockFault(code)
  PROVE  IInv'
<1> USE DEF IInv
<1>1. call.op = "unlock"
  BY DEF UnlockOk, UnlockWrong, UnlockBlocked, UnlockFault
<1>2. call.who \in Clients /\ live = NoLive /\ opened
  BY <1>1, CallType, NoFacts DEF LoginMatchesCard
<1>3. ASSUME NEW code \in Errors \cup {"ok", "pin_incorrect", "pin_locked"},
             Answer(call.who, "unlock", code, NoCard)
      PROVE  reply' \in [Clients -> Answers]
  <2>1. Reply("unlock", code, NoCard) \in Answers
    BY DEF Reply, Answers
  <2> QED
    BY <1>2, <1>3, <2>1, AnswerType
<1>4. CASE UnlockOk
  <2>2. live' \in [card: Cards \cup {NoCard}, valid: BOOLEAN]
    BY <1>4 DEF UnlockOk, TypeOK
  <2>3. tries' \in [Cards -> 0..PinTries] /\ session' \in 0..Lapsed
    BY <1>4, SignerAssumption DEF UnlockOk, TypeOK, Lapsed
  <2>4. TypeOK'
    BY <1>3, <1>4, <2>2, <2>3, NoFacts DEF UnlockOk, TypeOK
  <2>5. LoginMatchesCard'
    BY <1>2, <1>4, NoFacts DEF UnlockOk, LoginMatchesCard, TypeOK
  <2> QED
    BY <2>4, <2>5
<1>5. CASE UnlockWrong
  <2>2. tries' \in [Cards -> 0..PinTries]
    BY <1>5, SignerAssumption DEF UnlockWrong, TypeOK
  <2> QED
    BY <1>2, <1>3, <1>5, <2>2, NoFacts
    DEF UnlockWrong, TypeOK, LoginMatchesCard, Unlocked
<1>6. CASE UnlockBlocked
  BY <1>2, <1>3, <1>6, NoFacts
  DEF UnlockBlocked, TypeOK, LoginMatchesCard, Unlocked
<1>7. ASSUME NEW code \in Codes, UnlockFault(code) PROVE IInv'
  <2>1. code \in Errors
    BY <1>7, ErrorCodes DEF UnlockFault
  <2> QED
    BY <1>3, <1>7, <2>1, AfterErrorKeeps, NoFacts DEF UnlockFault, TypeOK, environment
<1> QED
  BY <1>4, <1>5, <1>6, <1>7

(* The card answers a sign.                                                *)
LEMMA SignIInv ==
  ASSUME IInv, SignOk \/ SignUnknownKey \/ \E code \in Codes : SignFault(code)
  PROVE  IInv'
<1> USE DEF IInv
<1>1. call.op = "sign"
  BY DEF SignOk, SignUnknownKey, SignFault
<1>2. call.who \in Clients /\ call.age \in 0..Lapsed /\ opened
  BY <1>1, CallType, NoFacts DEF LoginMatchesCard
<1>3. ASSUME NEW code, NEW c, Answer(call.who, "sign", code, c),
             \/ code = "ok" /\ c \in Cards
             \/ code \in Errors \cup {"unknown_key_id"} /\ c = NoCard
      PROVE  reply' \in [Clients -> Answers]
  <2>1. Reply("sign", code, c) \in Answers
    BY <1>3 DEF Reply, Answers
  <2> QED
    BY <1>2, <1>3, <2>1, AnswerType
<1>4. CASE SignOk
  <2>1. live.card \in Cards
    BY <1>4 DEF SignOk, LoginMatchesCard, TypeOK
  <2> QED
    BY <1>2, <1>3, <1>4, <2>1, NoFacts DEF SignOk, TypeOK, LoginMatchesCard
<1>5. CASE SignUnknownKey
  BY <1>2, <1>3, <1>5, NoFacts
  DEF SignUnknownKey, TypeOK, LoginMatchesCard, Unlocked
<1>6. ASSUME NEW code \in Codes, SignFault(code) PROVE IInv'
  <2>1. code \in Errors
    BY <1>6, ErrorCodes DEF SignFault, TypeOK
  <2> QED
    BY <1>3, <1>6, <2>1, AfterErrorKeeps, NoFacts DEF SignFault, TypeOK, environment
<1> QED
  BY <1>4, <1>5, <1>6

(* A client takes its answer.                                              *)
LEMMA TakeIInv ==
  ASSUME IInv, NEW w \in Clients, Take(w)
  PROVE  IInv'
<1>1. reply' \in [Clients -> Answers]
  BY NoFacts DEF Take, IInv, TypeOK
<1> QED
  BY <1>1 DEF Take, IInv, TypeOK, LoginMatchesCard, Unlocked

(* The process ends and starts anew.                                       *)
LEMMA EndsIInv ==
  ASSUME IInv, ProcessEnds
  PROVE  IInv'
<1>1. NoReply \in Answers
  BY NoFacts
<1>2. Lapsed \in 0..Lapsed /\ ~(Lapsed <= TTL)
  BY SignerAssumption DEF Lapsed
<1> QED
  BY <1>1, <1>2, NoFacts
  DEF ProcessEnds, IInv, TypeOK, LoginMatchesCard, Unlocked, environment

(* Every step keeps the invariant.                                         *)
LEMMA StepIInv == IInv /\ [Next]_vars => IInv'
<1> SUFFICES ASSUME IInv, [Next]_vars PROVE IInv'
  OBVIOUS
<1>1. CASE World
  BY <1>1, WorldIInv
<1>2. ASSUME NEW w \in Clients, Command(w) PROVE IInv'
  BY <1>2, CommandIInv
<1>3. CASE TokenAnswers
  BY <1>3, UnlockIInv, SignIInv DEF TokenAnswers
<1>4. CASE UNCHANGED vars
  BY <1>4 DEF vars, IInv, TypeOK, LoginMatchesCard, Unlocked
<1>5. ASSUME NEW w \in Clients, Take(w) PROVE IInv'
  BY <1>5, TakeIInv
<1>6. CASE ProcessEnds
  BY <1>6, EndsIInv
<1> QED
  BY <1>1, <1>2, <1>3, <1>4, <1>5, <1>6 DEF Next

(* Type correctness, for every set of cards and clients and every TTL.     *)
THEOREM TypeCorrect == Spec => []TypeOK
<1>1. IInv => TypeOK
  BY DEF IInv
<1> QED
  BY InitIInv, StepIInv, <1>1, PTL DEF Spec

(* A valid login belongs to the inserted card, and dropping the Signer     *)
(* ends login, timer and command together.                                 *)
THEOREM LoginsMatchCards == Spec => []LoginMatchesCard
<1>1. IInv => LoginMatchesCard
  BY DEF IInv
<1> QED
  BY InitIInv, StepIInv, <1>1, PTL DEF Spec
-----------------------------------------------------------------------------
(* The refinement mapping, named.                                          *)
holderBar == IF live.valid THEN live.card ELSE NoCard
askedBar  == IF call.op = "sign"
               THEN [open |-> TRUE, who |-> call.who, age |-> call.age]
               ELSE [open |-> FALSE]
signatureBar == [w \in Clients |->
                   IF reply[w].op = "sign" /\ reply[w].code = "ok"
                     THEN reply[w].card ELSE NoCard]

(* An answer that is no signature clears the client's signature; one that  *)
(* is sets it.                                                             *)
LEMMA SignatureAnswer ==
  ASSUME TypeOK, NEW w \in Clients, NEW op, NEW code, NEW c,
         Answer(w, op, code, c)
  PROVE  signatureBar' = [signatureBar EXCEPT ![w] =
                            IF op = "sign" /\ code = "ok" THEN c ELSE NoCard]
<1>1. reply' = [reply EXCEPT ![w] = Reply(op, code, c)]
  BY DEF Answer
<1>2. /\ \A v \in Clients \ {w} : reply'[v] = reply[v]
      /\ reply'[w] = [op |-> op, code |-> code, card |-> c]
  BY <1>1 DEF TypeOK, Reply
<1>3. /\ reply'[w].op = op /\ reply'[w].code = code /\ reply'[w].card = c
  BY <1>2
<1> QED
  BY <1>2, <1>3 DEF signatureBar

(* A command that answers without a signature is an AnswerOther.           *)
LEMMA AnswerOtherStep ==
  ASSUME IInv, NEW w \in Clients, NEW op, NEW code, Answer(w, op, code, NoCard),
         call.op # "sign", call'.op # "sign", card' = card,
         holderBar' \in {holderBar, NoCard}, session' \in {session, Lapsed}
  PROVE  PS!AnswerOther(w)
<1>1. signatureBar' = [signatureBar EXCEPT ![w] = NoCard]
  BY SignatureAnswer DEF IInv
<1>2. askedBar = [open |-> FALSE] /\ askedBar' = [open |-> FALSE]
  BY DEF askedBar
<1> QED
  BY <1>1, <1>2
  DEF PS!AnswerOther, PS!Lapsed, Lapsed, holderBar, askedBar, signatureBar

(* Dropping the Signer or keeping it, an error never starts a PIN session. *)
LEMMA AfterErrorBar ==
  ASSUME NEW code, AfterError(code)
  PROVE  holderBar' \in {holderBar, NoCard} /\ session' \in {session, Lapsed}
  BY NoFacts DEF AfterError, holderBar

(* The world's steps are the card's steps, time, or invisible.             *)
LEMMA WorldStep ==
  ASSUME IInv, World
  PROVE  [PS!Next]_(PS!vars)
<1> USE DEF IInv
<1>1. CASE Install
  BY <1>1 DEF Install, PS!vars
<1>2. ASSUME NEW c \in Cards, Plug(c) PROVE PS!Insert(c)
  BY <1>2 DEF Plug, PS!Insert
<1>3. CASE Unplug
  <2>1. live'.valid = FALSE
    BY <1>3 DEF Unplug, TypeOK
  <2> QED
    BY <1>3, <2>1 DEF Unplug, PS!Next, PS!Remove
<1>4. CASE Tick
  <2>1. session' = PS!Older(session)
    BY <1>4 DEF Tick, Aged, PS!Older, PS!Lapsed, Lapsed
  <2>2. askedBar' = IF askedBar.open THEN [askedBar EXCEPT !.age = PS!Older(@)]
                    ELSE askedBar
    <3>1. CASE call.op = "sign"
      <4>1. /\ call' = [call EXCEPT !.age = Aged(@)]
            /\ call'.op = "sign" /\ call'.who = call.who
            /\ call'.age = Aged(call.age)
        BY <1>4, <3>1, CallType DEF Tick
      <4>2. Aged(call.age) = PS!Older(call.age)
        BY DEF Aged, PS!Older, PS!Lapsed, Lapsed
      <4> QED
        BY <3>1, <4>1, <4>2 DEF askedBar
    <3>2. CASE call.op # "sign"
      BY <1>4, <3>2 DEF Tick, askedBar
    <3> QED
      BY <3>1, <3>2
  <2>3. PS!Age
    BY <1>4, <2>1, <2>2 DEF Tick, PS!Age, askedBar
  <2> QED
    BY <2>3 DEF PS!Next
<1> QED
  BY <1>1, <1>2, <1>3, <1>4 DEF World, PS!Next

(* A client's command is a request or an answer that is no signature.      *)
LEMMA CommandStep ==
  ASSUME IInv, NEW w \in Clients, Command(w)
  PROVE  PS!AnswerOther(w) \/ PS!Request(w)
<1> DEFINE Quiet == /\ call.op # "sign" /\ call'.op # "sign" /\ card' = card
                    /\ holderBar' \in {holderBar, NoCard}
                    /\ session' \in {session, Lapsed}
                    /\ \E op, code : Answer(w, op, code, NoCard)
<1>1. Quiet => PS!AnswerOther(w)
  BY AnswerOtherStep
<1>2. ASSUME NEW op \in Ops \ {"none", "status"}, OpenFails(w, op) PROVE Quiet
  BY <1>2, NoFacts DEF OpenFails, Free, holderBar
<1>3. Status(w) => Quiet
  BY NoFacts DEF Status, Free, holderBar
<1>4. ASSUME NEW op \in {"available", "list"}, List(w, op)
      PROVE  PS!AnswerOther(w)
  <2>1. call.op # "sign" /\ call'.op # "sign" /\ card' = card
    BY <1>4, NoFacts DEF List, Free
  <2>2. CASE /\ Answer(w, op, "ok", IF op = "list" THEN card ELSE NoCard)
             /\ UNCHANGED <<live, session>>
    <3>1. signatureBar' = [signatureBar EXCEPT ![w] = NoCard]
      BY <2>2, SignatureAnswer DEF IInv
    <3>2. askedBar = [open |-> FALSE] /\ askedBar' = [open |-> FALSE]
      BY <2>1 DEF askedBar
    <3> QED
      BY <2>1, <2>2, <3>1, <3>2
      DEF PS!AnswerOther, holderBar, askedBar, signatureBar
  <2>3. ASSUME NEW code \in TokenErrors(TRUE), AfterError(code),
               Answer(w, op, Says(op, code), NoCard)
        PROVE  Quiet
    BY <2>1, <2>3, AfterErrorBar
  <2> QED
    BY <1>1, <1>4, <2>2, <2>3 DEF List
<1>5. Lock(w) => Quiet
  BY NoFacts DEF Lock, Free, holderBar
<1>6. UnlockBegin(w) => Quiet
  <2> SUFFICES ASSUME UnlockBegin(w) PROVE Quiet
    OBVIOUS
  <2>1. Answer(w, "none", "none", NoCard)
    BY DEF UnlockBegin, Answer, NoReply
  <2> QED
    BY <2>1, NoFacts DEF UnlockBegin, Free, holderBar
<1>7. ASSUME NEW b \in BOOLEAN, SignRefused(w, b) PROVE PS!AnswerOther(w)
  <2>1. call.op # "sign" /\ call'.op # "sign" /\ card' = card
    BY <1>7, NoFacts DEF SignRefused, Free
  <2>2. holderBar' \in {holderBar, NoCard} /\ session' = session
    BY <1>7, NoFacts DEF SignRefused, holderBar
  <2>3. \E code : Answer(w, "sign", code, NoCard) /\ code # "ok"
    BY <1>7 DEF SignRefused
  <2>4. signatureBar' = [signatureBar EXCEPT ![w] = NoCard]
    BY <2>3, SignatureAnswer DEF IInv
  <2> QED
    BY <1>1, <2>1, <2>2, <2>3
<1>8. ASSUME NEW key \in KeyIds, SignBegin(w, key) PROVE PS!Request(w)
  <2>1. Answer(w, "none", "none", NoCard)
    BY <1>8 DEF SignBegin, Answer, NoReply
  <2>2. signatureBar' = [signatureBar EXCEPT ![w] = NoCard]
    BY <2>1, SignatureAnswer DEF IInv
  <2>3. ~askedBar.open /\ askedBar' = [open |-> TRUE, who |-> w, age |-> 0]
    BY <1>8, NoFacts DEF SignBegin, Free, askedBar
  <2> QED
    BY <1>8, <2>2, <2>3
    DEF SignBegin, Unlocked, PS!Request, holderBar, askedBar, signatureBar
<1> QED
  BY <1>1, <1>2, <1>3, <1>4, <1>5, <1>6, <1>7, <1>8 DEF Command

(* The right PIN is PresentPin; every other answer to an unlock is no      *)
(* signature and starts no session.                                        *)
LEMMA UnlockStep ==
  ASSUME IInv, UnlockOk \/ UnlockWrong \/ UnlockBlocked
                 \/ \E code \in Codes : UnlockFault(code)
  PROVE  \E w \in Clients : PS!PresentPin(w) \/ PS!AnswerOther(w)
<1>1. call.op = "unlock"
  BY DEF UnlockOk, UnlockWrong, UnlockBlocked, UnlockFault
<1>2. PICK w \in Clients : w = call.who
  BY <1>1, CallType DEF IInv
<1>3. call' = NoCall /\ call'.op # "sign" /\ card' = card
  BY NoFacts DEF UnlockOk, UnlockWrong, UnlockBlocked, UnlockFault, environment
<1>4. ASSUME UnlockOk PROVE PS!PresentPin(w)
  <2>1. signatureBar' = [signatureBar EXCEPT ![w] = NoCard]
    BY <1>2, <1>4, SignatureAnswer DEF UnlockOk, IInv
  <2>2. askedBar = [open |-> FALSE] /\ askedBar' = [open |-> FALSE]
    BY <1>1, <1>3 DEF askedBar
  <2>3. card # NoCard /\ holderBar' = card /\ session' = 0
    BY <1>4 DEF UnlockOk, holderBar
  <2> QED
    BY <1>3, <2>1, <2>2, <2>3 DEF PS!PresentPin, holderBar, askedBar, signatureBar
<1>5. ASSUME NEW code, Answer(w, "unlock", code, NoCard),
             holderBar' \in {holderBar, NoCard}, session' \in {session, Lapsed}
      PROVE  PS!AnswerOther(w)
  BY <1>1, <1>2, <1>3, <1>5, AnswerOtherStep
<1>6. CASE UnlockWrong \/ UnlockBlocked
  BY <1>2, <1>5, <1>6 DEF UnlockWrong, UnlockBlocked, holderBar
<1>7. ASSUME NEW code \in Codes, UnlockFault(code)
      PROVE  PS!AnswerOther(w)
  BY <1>2, <1>5, <1>7, AfterErrorBar DEF UnlockFault
<1> QED
  BY <1>2, <1>4, <1>6, <1>7

(* The card signs for the request in progress, or the request is refused.  *)
LEMMA SignAnswerStep ==
  ASSUME IInv, SignOk \/ SignUnknownKey \/ \E code \in Codes : SignFault(code)
  PROVE  PS!Grant \/ PS!Refuse
<1>1. call.op = "sign"
  BY DEF SignOk, SignUnknownKey, SignFault
<1>2. call.who \in Clients
  BY <1>1, CallType DEF IInv
<1>3. call'.op # "sign" /\ card' = card
  BY NoFacts DEF SignOk, SignUnknownKey, SignFault, environment
<1>4. /\ askedBar = [open |-> TRUE, who |-> call.who, age |-> call.age]
      /\ askedBar' = [open |-> FALSE]
  BY <1>1, <1>3 DEF askedBar
<1>5. CASE SignOk
  <2>1. live' = live /\ holderBar = card /\ card # NoCard /\ live.card = card
    BY <1>5 DEF SignOk, IInv, LoginMatchesCard, holderBar
  <2>2. signatureBar' = [signatureBar EXCEPT ![call.who] = holderBar]
    BY <1>2, <1>5, <2>1, SignatureAnswer DEF SignOk, IInv
  <2> QED
    BY <1>3, <1>4, <1>5, <2>1, <2>2
    DEF SignOk, PS!Grant, PS!NoRequest, holderBar, askedBar, signatureBar
<1>6. ASSUME NEW code, code # "ok", Answer(call.who, "sign", code, NoCard),
             holderBar' \in {holderBar, NoCard}, session' \in {session, Lapsed}
      PROVE  PS!Refuse
  <2>1. signatureBar' = [signatureBar EXCEPT ![call.who] = NoCard]
    BY <1>2, <1>6, SignatureAnswer DEF IInv
  <2> QED
    BY <1>3, <1>4, <1>6, <2>1
    DEF PS!Refuse, PS!NoRequest, PS!Lapsed, Lapsed, holderBar, askedBar, signatureBar
<1>7. CASE SignUnknownKey
  BY <1>6, <1>7 DEF SignUnknownKey, holderBar
<1>8. ASSUME NEW code \in Codes, SignFault(code) PROVE PS!Refuse
  <2>1. code # "ok"
    BY <1>8 DEF SignFault, TokenErrors
  <2> QED
    BY <1>6, <1>8, <2>1, AfterErrorBar DEF SignFault
<1> QED
  BY <1>5, <1>7, <1>8

(* The signing core implements the PIN session: its initial states map to  *)
(* initial states, and each of its steps to a step or to no change.        *)
THEOREM Refinement == Spec => ImplementsPinSession
<1>1. Init => PS!Init
  <2> SUFFICES ASSUME Init PROVE PS!Init
    OBVIOUS
  <2>1. holderBar = NoCard /\ askedBar = [open |-> FALSE]
    BY NoFacts DEF Init, holderBar, askedBar
  <2>2. signatureBar = [v \in Clients |-> NoCard]
    BY DEF Init, NoReply, Reply, signatureBar
  <2> QED
    BY <2>1, <2>2
    DEF Init, Lapsed, PS!Init, PS!Lapsed, PS!NoRequest, holderBar, askedBar, signatureBar
<1>2. IInv /\ [Next]_vars => [PS!Next]_(PS!vars)
  <2> SUFFICES ASSUME IInv, [Next]_vars PROVE [PS!Next]_(PS!vars)
    OBVIOUS
  <2>1. CASE World
    BY <2>1, WorldStep
  <2>2. ASSUME NEW w \in Clients, Command(w) PROVE PS!Next
    BY <2>2, CommandStep DEF PS!Next
  <2>3. CASE TokenAnswers
    BY <2>3, UnlockStep, SignAnswerStep DEF TokenAnswers, PS!Next
  <2>4. CASE UNCHANGED vars
    BY <2>4 DEF vars, PS!vars
  <2>5. ASSUME NEW w \in Clients, Take(w) PROVE PS!Take(w)
    <3>1. Answer(w, "none", "none", NoCard)
      BY <2>5 DEF Take, Answer, NoReply
    <3>2. signatureBar' = [signatureBar EXCEPT ![w] = NoCard]
      BY <3>1, SignatureAnswer DEF IInv
    <3> QED
      BY <2>5, <3>2 DEF Take, PS!Take, holderBar, askedBar, signatureBar
  <2>6. CASE ProcessEnds
    <3>1. holderBar' = NoCard /\ askedBar' = [open |-> FALSE]
      BY <2>6, NoFacts DEF ProcessEnds, holderBar, askedBar
    <3>2. signatureBar' = [v \in Clients |-> NoCard]
      BY <2>6 DEF ProcessEnds, NoReply, Reply, signatureBar
    <3>3. PS!Quit
      BY <2>6, <3>1, <3>2 DEF ProcessEnds, environment, Lapsed, PS!Quit, PS!Lapsed,
                              PS!NoRequest, holderBar, askedBar, signatureBar
    <3> QED
      BY <3>3 DEF PS!Next
  <2> QED
    BY <2>1, <2>2, <2>3, <2>4, <2>5, <2>6 DEF Next, PS!Next
<1> QED
  BY InitIInv, StepIInv, <1>1, <1>2, PTL DEF Spec, ImplementsPinSession, PS!Spec
-----------------------------------------------------------------------------
(* What the compositions rely on: the core's invariant, and what it tells  *)
(* its clients.                                                            *)

(* A list and a signature come with the card that gave them.               *)
ReplyCard ==
  \A w \in Clients :
    reply[w].op \in {"list", "sign"} /\ reply[w].code = "ok" => reply[w].card \in Cards

(* Who waits for the card has no answer yet.                               *)
NoAnswerYet == call # NoCall => reply[call.who] = NoReply

SInv == IInv /\ ReplyCard /\ NoAnswerYet

Steps == [Next]_vars

LEMMA InitSInv == Init => SInv
<1> SUFFICES ASSUME Init PROVE SInv
  OBVIOUS
<1>1. ReplyCard /\ NoAnswerYet
  BY DEF Init, ReplyCard, NoAnswerYet, NoReply, Reply
<1> QED
  BY <1>1, InitIInv DEF SInv

(* One answer replaces one reply.                                          *)
LEMMA AnswerCard ==
  ASSUME TypeOK, ReplyCard, NEW w \in Clients, NEW op, NEW code, NEW c,
         Answer(w, op, code, c),
         op \in {"list", "sign"} /\ code = "ok" => c \in Cards
  PROVE  ReplyCard'
<1>1. \A v \in Clients : reply'[v] = IF v = w THEN Reply(op, code, c) ELSE reply[v]
  BY DEF Answer, TypeOK
<1> QED
  BY <1>1 DEF ReplyCard, Reply

(* A reply that is given up does no harm.                                  *)
LEMMA NoReplyCard ==
  ASSUME TypeOK, ReplyCard, NEW w \in Clients, reply' = [reply EXCEPT ![w] = NoReply]
  PROVE  ReplyCard'
<1>1. Answer(w, "none", "none", NoCard)
  BY DEF Answer, NoReply
<1> QED
  BY <1>1, AnswerCard

LEMMA CommandReplies ==
  ASSUME SInv, NEW w \in Clients, Command(w)
  PROVE  ReplyCard' /\ NoAnswerYet'
<1> USE DEF SInv, IInv
<1>1. ASSUME NEW op \in Ops \ {"none", "status"}, OpenFails(w, op)
      PROVE  ReplyCard' /\ NoAnswerYet'
  <2>1. \A code \in OpenErrors : Says(op, code) # "ok"
    BY DEF Says, OpenErrors
  <2> QED
    BY <1>1, <2>1, AnswerCard DEF OpenFails, NoAnswerYet, Free
<1>2. CASE Status(w)
  BY <1>2, AnswerCard DEF Status, NoAnswerYet, Free
<1>3. ASSUME NEW op \in {"available", "list"}, List(w, op)
      PROVE  ReplyCard' /\ NoAnswerYet'
  <2>1. ReplyCard'
    <3>1. ASSUME card # NoCard, Answer(w, op, "ok", IF op = "list" THEN card ELSE NoCard)
          PROVE  ReplyCard'
      <4>1. op \in {"list", "sign"} => (IF op = "list" THEN card ELSE NoCard) \in Cards
        BY <3>1 DEF TypeOK
      <4> QED
        BY <3>1, <4>1, AnswerCard
    <3>2. ASSUME NEW code \in TokenErrors(TRUE), Answer(w, op, Says(op, code), NoCard)
          PROVE  ReplyCard'
      <4>1. Says(op, code) # "ok"
        BY DEF Says, TokenErrors
      <4> QED
        BY <3>2, <4>1, AnswerCard
    <3> QED
      BY <1>3, <3>1, <3>2 DEF List
  <2> QED
    BY <1>3, <2>1 DEF List, NoAnswerYet, Free
<1>4. CASE Lock(w)
  BY <1>4, AnswerCard DEF Lock, NoAnswerYet, Free
<1>5. CASE UnlockBegin(w)
  BY <1>5, NoReplyCard DEF UnlockBegin, NoAnswerYet, TypeOK
<1>6. ASSUME NEW wellFormed \in BOOLEAN, SignRefused(w, wellFormed)
      PROVE  ReplyCard' /\ NoAnswerYet'
  BY <1>6, AnswerCard DEF SignRefused, NoAnswerYet, Free
<1>7. ASSUME NEW key \in KeyIds, SignBegin(w, key) PROVE ReplyCard' /\ NoAnswerYet'
  BY <1>7, NoReplyCard DEF SignBegin, NoAnswerYet, TypeOK
<1> QED
  BY <1>1, <1>2, <1>3, <1>4, <1>5, <1>6, <1>7 DEF Command

LEMMA TokenReplies ==
  ASSUME SInv, TokenAnswers
  PROVE  ReplyCard' /\ NoAnswerYet'
<1> USE DEF SInv, IInv
<1>1. call' = NoCall /\ call.who \in Clients
  BY CallType, NoFacts DEF TokenAnswers, UnlockOk, UnlockWrong, UnlockBlocked, SignOk,
                           SignUnknownKey, UnlockFault, SignFault
<1> SUFFICES ReplyCard'
  BY <1>1 DEF NoAnswerYet
<1>2. CASE UnlockOk \/ UnlockWrong \/ UnlockBlocked
  BY <1>1, <1>2, AnswerCard DEF UnlockOk, UnlockWrong, UnlockBlocked
<1>3. CASE SignOk
  <2>1. live.card \in Cards
    BY <1>3 DEF SignOk, LoginMatchesCard, TypeOK
  <2> QED
    BY <1>1, <1>3, <2>1, AnswerCard DEF SignOk
<1>4. CASE SignUnknownKey
  BY <1>1, <1>4, AnswerCard DEF SignUnknownKey
<1>5. ASSUME NEW code \in Codes, UnlockFault(code) \/ SignFault(code) PROVE ReplyCard'
  <2>1. code # "ok"
    BY <1>5 DEF UnlockFault, SignFault, TokenErrors
  <2> QED
    BY <1>1, <1>5, <2>1, AnswerCard DEF UnlockFault, SignFault
<1> QED
  BY <1>1, <1>2, <1>3, <1>4, <1>5 DEF TokenAnswers

LEMMA TakeReplies ==
  ASSUME SInv, NEW w \in Clients, Take(w)
  PROVE  ReplyCard' /\ NoAnswerYet'
<1>1. ReplyCard'
  BY NoReplyCard DEF Take, SInv, IInv
<1>2. NoAnswerYet'
  BY DEF Take, SInv, IInv, TypeOK, NoAnswerYet
<1> QED
  BY <1>1, <1>2

(* Every step of the core keeps SInv.                                      *)
LEMMA StepSInv == SInv /\ Steps => SInv'
<1> SUFFICES ASSUME SInv, Steps PROVE SInv'
  OBVIOUS
<1>1. IInv'
  BY StepIInv DEF SInv, Steps
<1>2. ReplyCard' /\ NoAnswerYet'
  <2>1. CASE World
    <3>1. reply' = reply
      BY <2>1 DEF World, Install, Unplug, Tick, Plug
    <3>2. call' # NoCall => call # NoCall /\ call'.who = call.who
      BY <2>1, CallType, NoFacts DEF World, Install, Unplug, Tick, Plug, SInv, IInv
    <3> QED
      BY <3>1, <3>2 DEF SInv, ReplyCard, NoAnswerYet
  <2>2. ASSUME NEW w \in Clients, Command(w) PROVE ReplyCard' /\ NoAnswerYet'
    BY <2>2, CommandReplies
  <2>3. ASSUME NEW w \in Clients, Take(w) PROVE ReplyCard' /\ NoAnswerYet'
    BY <2>3, TakeReplies
  <2>4. CASE TokenAnswers
    BY <2>4, TokenReplies
  <2>5. CASE UNCHANGED vars
    BY <2>5 DEF vars, SInv, ReplyCard, NoAnswerYet
  <2>6. CASE ProcessEnds
    BY <2>6 DEF ProcessEnds, ReplyCard, NoAnswerYet, NoReply, Reply
  <2> QED
    BY <2>1, <2>2, <2>3, <2>4, <2>5, <2>6 DEF Steps, Next
<1> QED
  BY <1>1, <1>2 DEF SInv
=============================================================================
