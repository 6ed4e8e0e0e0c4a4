----------------------------- MODULE PinSession -----------------------------
(***************************************************************************)
(* What the signing core promises its user, with no mention of mutexes,    *)
(* handles or error codes.  A card signs only for a request made while a   *)
(* PIN session was running: the PIN was presented to the card that is      *)
(* still inserted, and no more than TTL had passed since that PIN or since *)
(* the last request that was granted.  When the application ends the PIN   *)
(* is forgotten with it.  Module Signer implements it.                     *)
(***************************************************************************)
EXTENDS Naturals

CONSTANTS
  Cards,     (* the physical cards                                         *)
  NoCard,    (* "no card"; not an element of Cards                         *)
  Clients,   (* the flows of the application that ask for signatures       *)
  TTL        (* idle time a PIN session survives                           *)

VARIABLES
  card,      (* the inserted card, or NoCard                               *)
  holder,    (* the card that currently honours a presented PIN, or NoCard *)
  idle,      (* age of the last PIN or granted request, Lapsed beyond TTL  *)
  asked,     (* the request being served: its client and its age           *)
  signature  (* per client, the card that made the signature last returned *)

vars == <<card, holder, idle, asked, signature>>

Lapsed    == TTL + 1
NoRequest == [open |-> FALSE]
Older(a)  == IF a < Lapsed THEN a + 1 ELSE a

Init ==
  /\ card \in Cards \cup {NoCard}
  /\ holder = NoCard
  /\ idle = Lapsed
  /\ asked = NoRequest
  /\ signature = [w \in Clients |-> NoCard]

(* The card goes in, or comes out and forgets the PIN. *)
Insert(c) ==
  /\ card = NoCard
  /\ card' = c
  /\ UNCHANGED <<holder, idle, asked, signature>>

Remove ==
  /\ card' = NoCard
  /\ holder' = NoCard
  /\ UNCHANGED <<idle, asked, signature>>

Age ==
  /\ idle' = Older(idle)
  /\ asked' = IF asked.open THEN [asked EXCEPT !.age = Older(@)] ELSE asked
  /\ UNCHANGED <<card, holder, signature>>

(* The right PIN reaches the inserted card. *)
PresentPin(w) ==
  /\ ~asked.open
  /\ card # NoCard
  /\ holder' = card
  /\ idle' = 0
  /\ signature' = [signature EXCEPT ![w] = NoCard]
  /\ UNCHANGED <<card, asked>>

(* Any other answer to w; it may end the PIN session, never start one. *)
AnswerOther(w) ==
  /\ ~asked.open
  /\ holder' \in {holder, NoCard}
  /\ idle' \in {idle, Lapsed}
  /\ signature' = [signature EXCEPT ![w] = NoCard]
  /\ UNCHANGED <<card, asked>>

(* The client takes its answer, whatever else is going on. *)
Take(w) ==
  /\ signature' = [signature EXCEPT ![w] = NoCard]
  /\ UNCHANGED <<card, holder, idle, asked>>

Request(w) ==
  /\ ~asked.open
  /\ idle <= TTL
  /\ asked' = [open |-> TRUE, who |-> w, age |-> 0]
  /\ signature' = [signature EXCEPT ![w] = NoCard]
  /\ UNCHANGED <<card, holder, idle>>

(* The session is then as old as the request, not as its answer. *)
Grant ==
  /\ asked.open
  /\ holder # NoCard
  /\ holder = card
  /\ signature' = [signature EXCEPT ![asked.who] = holder]
  /\ idle' = asked.age
  /\ asked' = NoRequest
  /\ UNCHANGED <<card, holder>>

Refuse ==
  /\ asked.open
  /\ asked' = NoRequest
  /\ holder' \in {holder, NoCard}
  /\ idle' \in {idle, Lapsed}
  /\ signature' = [signature EXCEPT ![asked.who] = NoCard]
  /\ UNCHANGED card

(* The application ends: nobody is served, and no PIN is held any more. *)
Quit ==
  /\ holder' = NoCard
  /\ idle' = Lapsed
  /\ asked' = NoRequest
  /\ signature' = [w \in Clients |-> NoCard]
  /\ UNCHANGED card

Next ==
  \/ \E c \in Cards : Insert(c)
  \/ Remove
  \/ Age
  \/ \E w \in Clients : PresentPin(w) \/ AnswerOther(w) \/ Take(w) \/ Request(w)
  \/ Grant
  \/ Refuse
  \/ Quit

Spec == Init /\ [][Next]_vars
=============================================================================
