--------------------------- MODULE WorkspaceProofs --------------------------
(***************************************************************************)
(* Batch signing, for any number of documents, runs that overlap, cards    *)
(* and clients.  AllInv is the invariant of the composition: the signing   *)
(* core's, the context's, and the page's, which says of every run what it  *)
(* holds at each of its awaits.  Each step of the page is at most one step *)
(* of the signing core, so what SignerProofs proves of the core holds      *)
(* under the page.                                                         *)
(***************************************************************************)
EXTENDS SignWorkspace, ContextProofs, FiniteSetTheorems

Working == {"prepare", "sign", "assemble", "relock"}

DocRecord == [status: {"absent", "pending", "signing", "signed", "error"},
              cert: Cards \cup {NoCard}, by: Cards \cup {NoCard}]

RunRecord == [at: {"idle", "key", "unlock", "prepare", "sign", "assemble", "relock"},
              todo: SUBSET Docs, doc: 0..NDocs,
              cert: Cards \cup {NoCard}, by: Cards \cup {NoCard},
              retried: BOOLEAN, made: 0..2, left: BOOLEAN]

PageType ==
  /\ tab \in {"sign", "cle"} /\ docs \in [Docs -> DocRecord]
  /\ busy \in BOOLEAN /\ done \in BOOLEAN /\ signedSnapshot \subseteq Docs
  /\ run \in [Flows -> RunRecord]

(* A run that waits for the unlock has targets, one that works has a       *)
(* document and a card's certificate, and a signature is held only until   *)
(* it is assembled.                                                        *)
RunOk(r) ==
  /\ r.at = "unlock" => r.todo # {}
  /\ r.at \in Working => r.doc \in Docs /\ r.cert \in Cards
  /\ r.made = IF r.at = "assemble" THEN 1 ELSE 0

RunsOk == \A f \in Flows : RunOk(run[f])

(* A run is at an await of ensureUnlocked exactly while one is in progress.*)
RunEnsures ==
  \A f \in Flows : ensure[f] # "idle" <=> run[f].at \in {"key", "unlock", "relock"}

(* A row that shows as being signed has a run at work on it.               *)
RowHasRun ==
  \A d \in Docs : docs[d].status = "signing" =>
    \E f \in Flows : run[f].doc = d /\ run[f].at \notin {"idle", "key", "unlock"} /\ ~run[f].left

DeskInv == PageType /\ RunsOk /\ RunEnsures /\ RowHasRun

AllInv == SInv /\ CInv /\ DeskInv
-----------------------------------------------------------------------------
(* Lists, runs and records.                                                *)

(* A set of numbers that is not empty has a first one.                     *)
LEMMA FirstIn ==
  ASSUME NEW S \in SUBSET Nat, S # {}
  PROVE  First(S) \in S
<1> DEFINE Below == {1..n : n \in S}
           R == StrictSubsetOrdering(Nat)
<1>1. Below \subseteq FiniteSubsetsOf(Nat) /\ Below # {}
  <2>1. \A n \in S : 1..n \in SUBSET Nat /\ IsFiniteSet(1..n)
    BY FS_Interval
  <2> QED
    BY <2>1 DEF FiniteSubsetsOf
<1>2. PICK X \in Below : \A Y \in Below : <<Y, X>> \notin R
  <2> HIDE DEF Below
  <2> QED
    BY <1>1, WFMin, FS_StrictSubsetOrderingWellFounded
<1>3. PICK d \in S : X = 1..d
  BY <1>2
<1>4. ASSUME NEW e \in S, ~(d <= e) PROVE FALSE
  <2>1. 1..e \subseteq 1..d /\ d \in 1..d /\ d \notin 1..e /\ 1..e \in Below
    BY <1>4
  <2>2. 1..e \in SUBSET Nat /\ 1..d \in SUBSET Nat
    OBVIOUS
  <2>3. <<1..e, 1..d>> \in R
    BY <2>1, <2>2 DEF StrictSubsetOrdering
  <2> QED
    BY <1>2, <1>3, <2>1, <2>3
<1> QED
  BY <1>4 DEF First

LEMMA FirstDoc ==
  ASSUME NEW S \in SUBSET Docs, S # {}
  PROVE  First(S) \in Docs
<1>1. S \in SUBSET Nat
  BY WorkspaceAssumption DEF Docs
<1> QED
  BY <1>1, FirstIn

LEMMA NoRunFacts ==
  /\ NoRun \in RunRecord /\ RunOk(NoRun) /\ NoRun.at = "idle" /\ ~NoRun.left
  /\ Absent \in DocRecord /\ Absent.status = "absent"
  /\ Docs \subseteq 0..NDocs
  BY WorkspaceAssumption DEF NoRun, RunRecord, RunOk, Working, Absent, DocRecord, Docs

(* What a patch of the list can change.                                    *)
LEMMA PatchedFacts ==
  ASSUME NEW D \in [Docs -> DocRecord], NEW d \in Docs, NEW o \in DocRecord, NEW P,
         NEW left, P = IF left \/ D[d].status = "absent" THEN D ELSE [D EXCEPT ![d] = o]
  PROVE  /\ P \in [Docs -> DocRecord]
         /\ \A e \in Docs \ {d} : P[e] = D[e]
         /\ P[d] = IF left \/ D[d].status = "absent" THEN D[d] ELSE o
  OBVIOUS

LEMMA SigningFacts ==
  ASSUME NEW D \in [Docs -> DocRecord], NEW d \in Docs, NEW P, NEW left,
         P = IF left \/ D[d].status = "absent" THEN D
             ELSE [D EXCEPT ![d] = [D[d] EXCEPT !.status = "signing"]]
  PROVE  /\ P \in [Docs -> DocRecord]
         /\ \A e \in Docs \ {d} : P[e] = D[e]
         /\ P[d] = IF left \/ D[d].status = "absent" THEN D[d]
                   ELSE [D[d] EXCEPT !.status = "signing"]
<1> DEFINE o == [D[d] EXCEPT !.status = "signing"]
<1>1. o \in DocRecord
  BY DEF DocRecord
<1> QED
  BY <1>1, PatchedFacts

(* One run moves, the others do not.                                       *)
LEMMA OneRun ==
  ASSUME PageType, RunsOk, NEW f \in Flows, NEW r \in RunRecord, RunOk(r),
         run' = [run EXCEPT ![f] = r]
  PROVE  /\ run' \in [Flows -> RunRecord] /\ RunsOk'
         /\ run'[f] = r
         /\ \A g \in Flows \ {f} : run'[g] = run[g]
<1>1. /\ run' \in [Flows -> RunRecord] /\ run'[f] = r
      /\ \A g \in Flows \ {f} : run'[g] = run[g]
  BY DEF PageType
<1>2. RunsOk'
  BY <1>1 DEF RunsOk, RunOk
<1> QED
  BY <1>1, <1>2

LEMMA StartsRun ==
  ASSUME PageType, RunsOk, NEW f \in Flows, NEW r \in RunRecord, r.cert \in Cards,
         NEW d \in Docs, Starts(f, r, d)
  PROVE  /\ run' \in [Flows -> RunRecord] /\ RunsOk'
         /\ run'[f].at = "prepare" /\ run'[f].doc = d /\ run'[f].left = r.left
         /\ run'[f].cert = r.cert
         /\ \A g \in Flows \ {f} : run'[g] = run[g]
<1> DEFINE s == [r EXCEPT !.at = "prepare", !.doc = d, !.todo = @ \ {d},
                          !.by = NoCard, !.retried = FALSE, !.made = 0]
<1>1. s \in RunRecord
  <2>1. PICK m \in 0..2 : m = 0
    OBVIOUS
  <2>2. d \in 0..NDocs
    BY NoRunFacts
  <2>3. [r EXCEPT !.at = "prepare", !.doc = d, !.todo = @ \ {d},
                  !.by = NoCard, !.retried = FALSE, !.made = m] \in RunRecord
    BY <2>2 DEF RunRecord
  <2> QED
    BY <2>1, <2>3
<1>2. /\ s.at = "prepare" /\ s.doc = d /\ s.left = r.left /\ s.cert = r.cert /\ s.made = 0
  BY DEF RunRecord
<1>3. RunOk(s)
  BY <1>2 DEF RunOk, Working
<1>4. run' = [run EXCEPT ![f] = s]
  BY DEF Starts
<1> HIDE DEF s
<1> QED
  BY <1>1, <1>2, <1>3, <1>4, OneRun

(* Whatever f does, a document stays worked on, if f leaves those of other *)
(* runs alone and works on what it marks itself.                           *)
LEMMA SigningKept ==
  ASSUME PageType, RowHasRun, NEW f \in Flows, run' \in [Flows -> RunRecord],
         \A g \in Flows \ {f} : run'[g] = run[g],
         \A d \in Docs : docs'[d].status = "signing" =>
           \/ /\ docs[d].status = "signing"
              /\ run[f].left \/ run[f].at \notin Working \/ run[f].doc # d
           \/ run'[f].doc = d /\ run'[f].at \in Working /\ ~run'[f].left
  PROVE  RowHasRun'
<1> SUFFICES ASSUME NEW d \in Docs, docs'[d].status = "signing"
             PROVE  \E g \in Flows : /\ run'[g].doc = d /\ ~run'[g].left
                                     /\ run'[g].at \notin {"idle", "key", "unlock"}
  BY DEF RowHasRun
<1>1. CASE run'[f].doc = d /\ run'[f].at \in Working /\ ~run'[f].left
  BY <1>1 DEF Working
<1>2. CASE /\ docs[d].status = "signing"
           /\ run[f].left \/ run[f].at \notin Working \/ run[f].doc # d
  <2>1. PICK g \in Flows : /\ run[g].doc = d /\ ~run[g].left
                           /\ run[g].at \notin {"idle", "key", "unlock"}
    BY <1>2 DEF RowHasRun
  <2>2. run[g].at \in Working
    BY <2>1 DEF PageType, RunRecord, Working
  <2>3. g # f
    BY <1>2, <2>1, <2>2
  <2> QED
    BY <2>1, <2>3
<1> QED
  BY <1>1, <1>2
-----------------------------------------------------------------------------
(* Steps that leave the page alone.                                        *)
LEMMA DeskSame ==
  ASSUME DeskInv, UNCHANGED workspace,
         \A g \in Flows : ensure'[g] = "idle" <=> ensure[g] = "idle"
  PROVE  DeskInv'
<1>1. UNCHANGED <<tab, docs, busy, done, signedSnapshot, run>>
  BY DEF workspace
<1>2. PageType' /\ RunsOk' /\ RowHasRun'
  BY <1>1 DEF DeskInv, PageType, RunsOk, RunOk, RowHasRun
<1>3. RunEnsures'
  BY <1>1 DEF DeskInv, RunEnsures
<1> QED
  BY <1>2, <1>3 DEF DeskInv

(* The document of a run ends, whatever its run was awaiting.              *)
LEMMA FinishDesk ==
  ASSUME DeskInv, NEW f \in Flows, run[f].at \in Working,
         NEW o \in DocRecord, o.status \in {"signed", "error"}, Finish(f, o),
         UNCHANGED <<tab, signedSnapshot>>, ensure'[f] = "idle",
         \A g \in Flows \ {f} : ensure'[g] = "idle" <=> ensure[g] = "idle"
  PROVE  DeskInv'
<1> USE DEF DeskInv
<1> DEFINE ended == Patched(f, docs, run[f].doc, o)
<1>1. run[f].doc \in Docs /\ run[f].cert \in Cards /\ run[f] \in RunRecord
  BY DEF RunsOk, RunOk, PageType
<1>2. /\ ended \in [Docs -> DocRecord]
      /\ \A e \in Docs \ {run[f].doc} : ended[e] = docs[e]
      /\ ended[run[f].doc] =
           IF run[f].left \/ docs[run[f].doc].status = "absent" THEN docs[run[f].doc] ELSE o
  <2>1. docs \in [Docs -> DocRecord]
    BY DEF PageType
  <2> QED
    BY <1>1, <2>1, PatchedFacts DEF Patched
<1>3. \A e \in Docs : ended[e].status = "signing" =>
        docs[e].status = "signing" /\ (run[f].left \/ run[f].doc # e)
  BY <1>2
<1> HIDE DEF ended
<1>4. CASE run[f].todo = {}
  <2>1. docs' = ended /\ run' = [run EXCEPT ![f] = NoRun]
    BY <1>4 DEF Finish, ended
  <2>2. /\ busy' \in BOOLEAN /\ done' \in BOOLEAN
    BY <1>4 DEF Finish, Sets, PageType
  <2>3. /\ run' \in [Flows -> RunRecord] /\ RunsOk' /\ run'[f] = NoRun
        /\ \A g \in Flows \ {f} : run'[g] = run[g]
    BY <2>1, NoRunFacts, OneRun
  <2>4. RowHasRun'
    BY <1>3, <2>1, <2>3, SigningKept
  <2>5. RunEnsures'
    BY <2>3, NoRunFacts DEF RunEnsures
  <2>6. PageType'
    BY <1>2, <2>1, <2>2, <2>3 DEF PageType
  <2> QED
    BY <2>3, <2>4, <2>5, <2>6
<1>5. CASE run[f].todo # {}
  <2> DEFINE d == First(run[f].todo)
  <2>1. d \in Docs
    BY <1>1, <1>5, FirstDoc DEF RunRecord
  <2>2. docs' = Signing(f, ended, d) /\ Starts(f, run[f], d) /\ UNCHANGED <<busy, done>>
    BY <1>5 DEF Finish, ended
  <2>3. /\ run' \in [Flows -> RunRecord] /\ RunsOk'
        /\ run'[f].at = "prepare" /\ run'[f].doc = d /\ run'[f].left = run[f].left
        /\ \A g \in Flows \ {f} : run'[g] = run[g]
    BY <1>1, <2>1, <2>2, StartsRun
  <2>4. /\ docs' \in [Docs -> DocRecord]
        /\ \A e \in Docs \ {d} : docs'[e] = ended[e]
        /\ docs'[d] = IF run[f].left \/ ended[d].status = "absent" THEN ended[d]
                      ELSE [ended[d] EXCEPT !.status = "signing"]
    BY <1>2, <2>1, <2>2, SigningFacts DEF Signing, Patched
  <2>5. RowHasRun'
    <3>1. ASSUME NEW e \in Docs, docs'[e].status = "signing"
          PROVE  \/ /\ docs[e].status = "signing"
                    /\ run[f].left \/ run[f].at \notin Working \/ run[f].doc # e
                 \/ run'[f].doc = e /\ run'[f].at \in Working /\ ~run'[f].left
      <4>1. run'[f].at \in Working
        BY <2>3 DEF Working
      <4>2. CASE e = d /\ ~run[f].left
        BY <2>3, <4>1, <4>2
      <4>3. CASE e # d \/ run[f].left
        <5>1. docs'[e] = ended[e]
          BY <2>4, <4>3
        <5> QED
          BY <1>3, <3>1, <5>1
      <4> QED
        BY <1>1, <4>2, <4>3 DEF RunRecord
    <3> QED
      BY <2>3, <3>1, SigningKept
  <2>6. RunEnsures'
    BY <2>3 DEF RunEnsures
  <2>7. PageType'
    BY <2>2, <2>3, <2>4 DEF PageType
  <2> QED
    BY <2>3, <2>5, <2>6, <2>7
<1> QED
  BY <1>4, <1>5

(* A run moves and the page does not change.                               *)
LEMMA RunDesk ==
  ASSUME DeskInv, NEW f \in Flows, NEW r \in RunRecord, RunOk(r), run' = [run EXCEPT ![f] = r],
         UNCHANGED <<tab, docs, busy, done, signedSnapshot>>,
         ensure'[f] # "idle" <=> r.at \in {"key", "unlock", "relock"},
         \A g \in Flows \ {f} : ensure'[g] = "idle" <=> ensure[g] = "idle",
         run[f].at \in Working => r.at \in Working /\ r.doc = run[f].doc /\ r.left = run[f].left
  PROVE  DeskInv'
<1> USE DEF DeskInv
<1>1. /\ run' \in [Flows -> RunRecord] /\ RunsOk' /\ run'[f] = r
      /\ \A g \in Flows \ {f} : run'[g] = run[g]
  BY OneRun
<1>2. PageType'
  BY <1>1 DEF PageType
<1>3. RunEnsures'
  BY <1>1 DEF RunEnsures
<1>4. RowHasRun'
  <2>1. ASSUME NEW d \in Docs, docs'[d].status = "signing"
        PROVE  \/ /\ docs[d].status = "signing"
                  /\ run[f].left \/ run[f].at \notin Working \/ run[f].doc # d
               \/ run'[f].doc = d /\ run'[f].at \in Working /\ ~run'[f].left
    BY <1>1, <2>1
  <2> QED
    BY <1>1, <2>1, SigningKept
<1> QED
  BY <1>1, <1>2, <1>3, <1>4

(* A run is given up before it has marked a document, or a key screen's    *)
(* unlock is over.                                                         *)
LEMMA GiveUpDesk ==
  ASSUME DeskInv, NEW f \in Flows, run[f].at \in {"key", "unlock"},
         run' = [run EXCEPT ![f] = NoRun],
         UNCHANGED <<tab, docs, busy, done, signedSnapshot>>, ensure'[f] = "idle",
         \A g \in Flows \ {f} : ensure'[g] = "idle" <=> ensure[g] = "idle"
  PROVE  DeskInv'
<1>1. run[f].at \notin Working
  BY DEF Working
<1> QED
  BY <1>1, NoRunFacts, RunDesk

-----------------------------------------------------------------------------
(* The continuations of ensureUnlocked.                                    *)

LEMMA KeyUnlockedInv ==
  ASSUME AllInv, NEW f \in Flows, KeyUnlocked(f)
  PROVE  Steps /\ CInv' /\ DeskInv'
<1> USE DEF AllInv
<1>1. Steps
  BY DEF KeyUnlocked, Steps
<1>2. CInv' /\ ensure'[f] = "idle" /\ \A g \in Flows : g # f => ensure'[g] = ensure[g]
  <2>1. "idle" \in Awaits \ {"pin", "ready"} /\ ensure[f] # "pin"
    BY DEF KeyUnlocked, Settled, Awaits
  <2>2. Moves(f, "idle") /\ cached' \in [Flows -> Cards \cup {NoCard}]
    BY DEF KeyUnlocked, CInv, ContextTypeOK
  <2>3. UNCHANGED <<available, certificates, pinOpen, pad, pinResolver, probe, given>>
    BY DEF KeyUnlocked
  <2> QED
    BY <2>1, <2>2, <2>3, MovesCInv
<1>3. DeskInv'
  BY <1>2, GiveUpDesk DEF KeyUnlocked
<1> QED
  BY <1>1, <1>2, <1>3

LEMMA BatchUnlockedInv ==
  ASSUME AllInv, NEW f \in Flows, BatchUnlocked(f)
  PROVE  Steps /\ CInv' /\ DeskInv'
<1> USE DEF AllInv
<1>1. Steps
  BY DEF BatchUnlocked, Steps
<1>2. CInv' /\ ensure'[f] = "idle" /\ \A g \in Flows : g # f => ensure'[g] = ensure[g]
  <2>1. "idle" \in Awaits \ {"pin", "ready"} /\ ensure[f] # "pin"
    BY DEF BatchUnlocked, Settled, Awaits
  <2>2. Moves(f, "idle") /\ cached' \in [Flows -> Cards \cup {NoCard}]
    BY DEF BatchUnlocked, CInv, ContextTypeOK
  <2>3. UNCHANGED <<available, certificates, pinOpen, pad, pinResolver, probe, given>>
    BY DEF BatchUnlocked
  <2> QED
    BY <2>1, <2>2, <2>3, MovesCInv
<1>3. CASE ~(ensure[f] = "ready" /\ given[f] # NoCard)
  <2>1. /\ run[f].at = "unlock" /\ run' = [run EXCEPT ![f] = NoRun]
        /\ UNCHANGED <<tab, docs, busy, done, signedSnapshot>>
    BY <1>3 DEF BatchUnlocked
  <2>2. DeskInv'
    BY <1>2, <2>1, GiveUpDesk
  <2> QED
    BY <1>1, <1>2, <2>2
<1>4. CASE ensure[f] = "ready" /\ given[f] # NoCard
  <2> DEFINE d == First(run[f].todo)
             r == [run[f] EXCEPT !.cert = given[f]]
  <2>1. run[f] \in RunRecord /\ run[f].at = "unlock" /\ run[f].todo # {}
        /\ run[f].todo \in SUBSET Docs
    BY DEF BatchUnlocked, DeskInv, PageType, RunsOk, RunOk, RunRecord
  <2>2. d \in Docs
    BY <2>1, FirstDoc
  <2>3. given[f] \in Cards
    BY <1>4 DEF CInv, ContextTypeOK
  <2>4. r \in RunRecord /\ r.cert \in Cards /\ r.left = run[f].left
    BY <2>1, <2>3 DEF RunRecord
  <2>5. /\ docs' = Signing(f, docs, d) /\ Starts(f, r, d) /\ UNCHANGED <<tab, done>>
        /\ signedSnapshot' = Sets(f, signedSnapshot, run[f].todo)
        /\ busy' = Sets(f, busy, TRUE)
    BY <1>4 DEF BatchUnlocked
  <2> HIDE DEF d, r
  <2>6. /\ run' \in [Flows -> RunRecord] /\ RunsOk'
        /\ run'[f].at = "prepare" /\ run'[f].doc = d /\ run'[f].left = run[f].left
        /\ \A g \in Flows \ {f} : run'[g] = run[g]
    BY <2>2, <2>4, <2>5, StartsRun DEF DeskInv
  <2>7. /\ docs' \in [Docs -> DocRecord]
        /\ \A e \in Docs \ {d} : docs'[e] = docs[e]
        /\ docs'[d] = IF run[f].left \/ docs[d].status = "absent" THEN docs[d]
                      ELSE [docs[d] EXCEPT !.status = "signing"]
    BY <2>2, <2>5, SigningFacts DEF Signing, Patched, DeskInv, PageType
  <2>8. RowHasRun'
    <3>1. ASSUME NEW e \in Docs, docs'[e].status = "signing"
          PROVE  \/ /\ docs[e].status = "signing"
                    /\ run[f].left \/ run[f].at \notin Working \/ run[f].doc # e
                 \/ run'[f].doc = e /\ run'[f].at \in Working /\ ~run'[f].left
      <4>1. run[f].at \notin Working /\ run'[f].at \in Working
        BY <2>1, <2>6 DEF Working
      <4>2. CASE e = d /\ ~run[f].left
        BY <2>6, <4>1, <4>2
      <4>3. CASE e # d \/ run[f].left
        BY <2>7, <3>1, <4>1, <4>3
      <4> QED
        BY <2>1, <4>2, <4>3 DEF RunRecord
    <3> QED
      BY <2>6, <3>1, SigningKept DEF DeskInv
  <2>9. PageType'
    BY <2>1, <2>5, <2>6, <2>7 DEF DeskInv, PageType, Sets
  <2>10. RunEnsures'
    BY <1>2, <2>6 DEF DeskInv, RunEnsures
  <2> QED
    BY <1>1, <1>2, <2>6, <2>8, <2>9, <2>10 DEF DeskInv
<1> QED
  BY <1>3, <1>4

(* A failed document.                                                      *)
LEMMA FailedDesk ==
  ASSUME DeskInv, NEW f \in Flows, run[f].at \in Working, Failed(f),
         UNCHANGED <<tab, signedSnapshot>>, ensure'[f] = "idle",
         \A g \in Flows \ {f} : ensure'[g] = "idle" <=> ensure[g] = "idle"
  PROVE  DeskInv'
<1> DEFINE o == [docs[run[f].doc] EXCEPT !.status = "error"]
<1>1. docs[run[f].doc] \in DocRecord
  BY DEF DeskInv, PageType, RunsOk, RunOk
<1>2. o \in DocRecord /\ o.status = "error"
  BY <1>1 DEF DocRecord
<1>3. Finish(f, o)
  BY DEF Failed
<1> HIDE DEF o
<1> QED
  BY <1>2, <1>3, FinishDesk

LEMMA RetryUnlockedInv ==
  ASSUME AllInv, NEW f \in Flows, RetryUnlocked(f)
  PROVE  Steps /\ CInv' /\ DeskInv'
<1> USE DEF AllInv
<1>1. Steps
  BY DEF RetryUnlocked, Steps
<1>2. CInv' /\ ensure'[f] = "idle" /\ \A g \in Flows : g # f => ensure'[g] = ensure[g]
  <2>1. "idle" \in Awaits \ {"pin", "ready"} /\ ensure[f] # "pin"
    BY DEF RetryUnlocked, Settled, Awaits
  <2>2. Moves(f, "idle") /\ cached' \in [Flows -> Cards \cup {NoCard}]
    BY DEF RetryUnlocked, CInv, ContextTypeOK
  <2>3. UNCHANGED <<available, certificates, pinOpen, pad, pinResolver, probe, given>>
    BY DEF RetryUnlocked
  <2> QED
    BY <2>1, <2>2, <2>3, MovesCInv
<1>3. run[f].at = "relock" /\ run[f].at \in Working /\ run[f] \in RunRecord
      /\ RunOk(run[f]) /\ run[f].doc \in Docs
  BY DEF RetryUnlocked, Working, DeskInv, PageType, RunsOk, RunOk
<1>4. CASE ensure[f] # "ready"
  <2>1. Failed(f) /\ UNCHANGED <<tab, signedSnapshot>>
    BY <1>4 DEF RetryUnlocked
  <2>2. DeskInv'
    BY <1>2, <1>3, <2>1, FailedDesk
  <2> QED
    BY <1>1, <1>2, <2>2
<1>5. CASE ensure[f] = "ready"
  <2> DEFINE d == run[f].doc
             r == [run[f] EXCEPT !.at = "prepare", !.retried = TRUE]
  <2>1. r \in RunRecord /\ r.at = "prepare" /\ r.doc = d /\ r.left = run[f].left
        /\ r.cert = run[f].cert /\ r.made = run[f].made
    BY <1>3 DEF RunRecord
  <2>2. RunOk(r)
    BY <1>3, <2>1 DEF RunOk, Working
  <2>3. /\ docs' = Signing(f, docs, d) /\ UNCHANGED <<tab, busy, done, signedSnapshot>>
        /\ run' = [run EXCEPT ![f] = r]
    BY <1>5 DEF RetryUnlocked
  <2> HIDE DEF r
  <2>4. /\ run' \in [Flows -> RunRecord] /\ RunsOk' /\ run'[f] = r
        /\ \A g \in Flows \ {f} : run'[g] = run[g]
    BY <2>1, <2>2, <2>3, OneRun DEF DeskInv
  <2>5. /\ docs' \in [Docs -> DocRecord]
        /\ \A e \in Docs \ {d} : docs'[e] = docs[e]
        /\ docs'[d] = IF run[f].left \/ docs[d].status = "absent" THEN docs[d]
                      ELSE [docs[d] EXCEPT !.status = "signing"]
    BY <1>3, <2>3, SigningFacts DEF Signing, Patched, DeskInv, PageType
  <2>6. RowHasRun'
    <3>1. ASSUME NEW e \in Docs, docs'[e].status = "signing"
          PROVE  \/ /\ docs[e].status = "signing"
                    /\ run[f].left \/ run[f].at \notin Working \/ run[f].doc # e
                 \/ run'[f].doc = e /\ run'[f].at \in Working /\ ~run'[f].left
      <4>1. run'[f].at \in Working
        BY <2>1, <2>4 DEF Working
      <4>2. CASE e = d /\ ~run[f].left
        BY <2>1, <2>4, <4>1, <4>2
      <4>3. CASE e # d \/ run[f].left
        BY <2>5, <3>1, <4>3
      <4> QED
        BY <1>3, <4>2, <4>3 DEF RunRecord
    <3> QED
      BY <2>4, <3>1, SigningKept DEF DeskInv
  <2>7. PageType'
    BY <2>3, <2>4, <2>5 DEF DeskInv, PageType
  <2>8. RunEnsures'
    BY <1>2, <2>1, <2>4 DEF DeskInv, RunEnsures
  <2> QED
    BY <1>1, <1>2, <2>4, <2>6, <2>7, <2>8 DEF DeskInv
<1> QED
  BY <1>4, <1>5
-----------------------------------------------------------------------------
(* The user's actions.                                                     *)

(* A click that asks for the card starts a run's ensureUnlocked.           *)
LEMMA ClickInv ==
  ASSUME AllInv, NEW f \in Flows, EnsureUnlocked(f), run[f] = NoRun,
         NEW r \in RunRecord, RunOk(r), r.at \in {"key", "unlock"},
         run' = [run EXCEPT ![f] = r],
         UNCHANGED <<vars, available, certificates, pinOpen, pad, pinResolver, probe, given>>,
         UNCHANGED <<tab, docs, busy, done, signedSnapshot>>
  PROVE  Steps /\ CInv' /\ DeskInv'
<1> USE DEF AllInv
<1>1. Steps
  BY DEF Steps
<1>2. CInv' /\ ensure'[f] = "status" /\ \A g \in Flows : g # f => ensure'[g] = ensure[g]
  <2>1. "status" \in Awaits \ {"pin", "ready"} /\ ensure[f] # "pin" /\ Moves(f, "status")
    BY DEF EnsureUnlocked, Awaits
  <2>2. cached' \in [Flows -> Cards \cup {NoCard}]
    BY DEF EnsureUnlocked, CInv, ContextTypeOK
  <2> QED
    BY <2>1, <2>2, MovesCInv
<1>3. run[f].at \notin Working
  BY NoRunFacts DEF Working
<1>4. DeskInv'
  BY <1>2, <1>3, RunDesk
<1> QED
  BY <1>1, <1>2, <1>4

LEMMA SignAllInv ==
  ASSUME AllInv, NEW f \in Flows, SignAll(f)
  PROVE  Steps /\ CInv' /\ DeskInv'
<1> DEFINE r == [NoRun EXCEPT !.at = "unlock", !.todo = Pending]
<1>1. Pending # {}
  BY DEF SignAll, Buttons, MainView, SuccessView, DocumentsPanel, CanSign
<1>2. Pending \in SUBSET Docs
  BY DEF Pending, Listed
<1>3. /\ r \in RunRecord /\ r.at = "unlock" /\ r.todo = Pending /\ r.made = NoRun.made
  BY <1>2, NoRunFacts DEF RunRecord
<1>4. RunOk(r)
  BY <1>1, <1>3 DEF RunOk, Working, NoRun
<1>5. run' = [run EXCEPT ![f] = r] /\ EnsureUnlocked(f) /\ run[f] = NoRun
  BY DEF SignAll
<1> HIDE DEF r
<1> QED
  BY <1>3, <1>4, <1>5, ClickInv DEF SignAll

LEMMA KeyUnlockInv ==
  ASSUME AllInv, NEW f \in Flows, KeyUnlock(f)
  PROVE  Steps /\ CInv' /\ DeskInv'
<1> DEFINE r == [NoRun EXCEPT !.at = "key"]
<1>1. /\ r \in RunRecord /\ r.at = "key" /\ r.made = NoRun.made
  BY NoRunFacts DEF RunRecord
<1>2. RunOk(r)
  BY <1>1 DEF RunOk, Working, NoRun
<1>3. run' = [run EXCEPT ![f] = r] /\ EnsureUnlocked(f) /\ run[f] = NoRun
  BY DEF KeyUnlock
<1> HIDE DEF r
<1> QED
  BY <1>1, <1>2, <1>3, ClickInv DEF KeyUnlock

(* The list changes, and nothing in it begins to sign.                     *)
LEMMA ListDesk ==
  ASSUME DeskInv, UNCHANGED <<context, run>>, docs' \in [Docs -> DocRecord],
         tab' \in {"sign", "cle"}, busy' \in BOOLEAN, done' \in BOOLEAN,
         signedSnapshot' \subseteq Docs,
         \A d \in Docs : docs'[d].status = "signing" => docs[d].status = "signing"
  PROVE  DeskInv'
<1>1. ensure' = ensure /\ run' = run
  BY DEF context
<1>2. PageType' /\ RunsOk' /\ RunEnsures'
  BY <1>1 DEF DeskInv, PageType, RunsOk, RunOk, RunEnsures
<1>3. RowHasRun'
  BY <1>1 DEF DeskInv, RowHasRun
<1> QED
  BY <1>2, <1>3 DEF DeskInv

LEMMA ListInv ==
  ASSUME AllInv, (\E d \in Docs : AddFile(d) \/ Remove(d)) \/ Reset
  PROVE  Steps /\ CInv' /\ DeskInv'
<1> USE DEF AllInv
<1>1. UNCHANGED <<vars, context, tab, busy, run>>
  BY DEF AddFile, Remove, Reset
<1>2. Steps /\ CInv'
  BY <1>1, ContextSame DEF Steps
<1>3. ASSUME NEW d \in Docs, AddFile(d) \/ Remove(d) PROVE DeskInv'
  <2>1. PICK o \in DocRecord : docs' = [docs EXCEPT ![d] = o] /\ o.status \in {"absent", "pending"}
    <3>1. [Absent EXCEPT !.status = "pending"] \in DocRecord
      BY NoRunFacts DEF DocRecord
    <3>2. [Absent EXCEPT !.status = "pending"].status = "pending"
      BY DEF Absent
    <3> QED
      BY <1>3, <3>1, <3>2, NoRunFacts DEF AddFile, Remove
  <2>2. done' = done /\ signedSnapshot' = signedSnapshot
    BY <1>3 DEF AddFile, Remove
  <2>3. /\ docs' \in [Docs -> DocRecord]
        /\ \A e \in Docs : docs'[e].status = "signing" => docs[e].status = "signing"
    BY <2>1 DEF DeskInv, PageType
  <2> QED
    BY <1>1, <2>2, <2>3, ListDesk DEF DeskInv, PageType
<1>4. CASE Reset
  <2>1. docs' = [d \in Docs |-> Absent] /\ done' = FALSE /\ signedSnapshot' = {}
    BY <1>4 DEF Reset
  <2>2. docs' \in [Docs -> DocRecord] /\ \A d \in Docs : docs'[d].status = "absent"
    BY <2>1, NoRunFacts
  <2>3. DeskInv'
    BY <1>1, <2>1, <2>2, ListDesk DEF DeskInv, PageType
  <2> QED
    BY <1>2, <2>3
<1> QED
  BY <1>2, <1>3, <1>4

(* Leaving the page drops its list, and its runs go on.                    *)
LEMMA SetTabInv ==
  ASSUME AllInv, NEW t \in {"sign", "cle"}, SetTab(t)
  PROVE  Steps /\ CInv' /\ DeskInv'
<1> USE DEF AllInv
<1>1. UNCHANGED <<vars, context>> /\ ensure' = ensure
  BY DEF SetTab, context
<1>2. Steps /\ CInv'
  BY <1>1, ContextSame DEF Steps
<1>3. /\ run' = [f \in Flows |-> IF run[f] = NoRun THEN NoRun ELSE [run[f] EXCEPT !.left = TRUE]]
      /\ docs' = [d \in Docs |-> Absent] /\ tab' = t /\ busy' = FALSE /\ done' = FALSE
      /\ signedSnapshot' = {}
  BY DEF SetTab
<1>4. ASSUME NEW f \in Flows
      PROVE  /\ run'[f] \in RunRecord /\ run'[f].at = run[f].at /\ run'[f].todo = run[f].todo
             /\ run'[f].doc = run[f].doc /\ run'[f].cert = run[f].cert
             /\ run'[f].made = run[f].made
  <2>1. run[f] \in RunRecord
    BY DEF DeskInv, PageType
  <2>2. run'[f] = IF run[f] = NoRun THEN NoRun ELSE [run[f] EXCEPT !.left = TRUE]
    BY <1>3
  <2> QED
    BY <2>1, <2>2 DEF RunRecord
<1>5. RunsOk' /\ RunEnsures'
  BY <1>1, <1>4 DEF DeskInv, RunsOk, RunOk, RunEnsures
<1>6. docs' \in [Docs -> DocRecord] /\ \A d \in Docs : docs'[d].status = "absent"
  BY <1>3, NoRunFacts
<1>7. run' \in [Flows -> RunRecord]
  BY <1>3, <1>4
<1>8. PageType' /\ RowHasRun'
  BY <1>3, <1>6, <1>7 DEF PageType, RowHasRun
<1> QED
  BY <1>2, <1>5, <1>8 DEF DeskInv
-----------------------------------------------------------------------------
(* The server and the shell answer.                                        *)

LEMMA PreparedInv ==
  ASSUME AllInv, NEW f \in Flows, NEW ok \in BOOLEAN, ensure[f] = "idle",
         Prepared(f, ok) \/ Assembled(f, ok)
  PROVE  Steps /\ CInv' /\ DeskInv'
<1> USE DEF AllInv
<1>1. UNCHANGED <<vars, context, tab, signedSnapshot>> /\ ensure' = ensure
  BY DEF Prepared, Assembled, context
<1>2. Steps /\ CInv'
  BY <1>1, ContextSame DEF Steps
<1>3. run[f] \in RunRecord /\ RunOk(run[f]) /\ run[f].at \in {"prepare", "assemble"}
      /\ run[f].at \in Working
  BY DEF Prepared, Assembled, DeskInv, PageType, RunsOk, Working
<1>4. CASE Failed(f)
  BY <1>1, <1>2, <1>3, <1>4, FailedDesk
<1>5. CASE Signed(f)
  <2> DEFINE o == [status |-> "signed", cert |-> run[f].cert, by |-> run[f].by]
  <2>1. o \in DocRecord /\ o.status = "signed"
    BY <1>3 DEF DocRecord, RunRecord
  <2>2. Finish(f, o)
    BY <1>5 DEF Signed
  <2> HIDE DEF o
  <2>3. DeskInv'
    BY <1>1, <1>3, <2>1, <2>2, FinishDesk
  <2> QED
    BY <1>2, <2>3
<1>6. CASE run[f].at = "prepare" /\ run' = [run EXCEPT ![f].at = "sign"]
           /\ UNCHANGED <<docs, busy, done>>
  <2> DEFINE r == [run[f] EXCEPT !.at = "sign"]
  <2>1. /\ r \in RunRecord /\ r.at = "sign" /\ r.doc = run[f].doc /\ r.left = run[f].left
        /\ r.cert = run[f].cert /\ r.made = run[f].made
    BY <1>3 DEF RunRecord
  <2>2. RunOk(r) /\ r.at \in Working
    BY <1>3, <1>6, <2>1 DEF RunOk, Working
  <2>3. run' = [run EXCEPT ![f] = r]
    BY <1>6
  <2> HIDE DEF r
  <2>4. DeskInv'
    BY <1>1, <1>6, <2>1, <2>2, <2>3, RunDesk
  <2> QED
    BY <1>2, <2>4
<1> QED
  BY <1>4, <1>5, <1>6 DEF Prepared, Assembled

LEMMA SignAnsweredInv ==
  ASSUME AllInv, NEW f \in Flows, SignAnswered(f)
  PROVE  Steps /\ CInv' /\ DeskInv'
<1> USE DEF AllInv
<1>1. UNCHANGED <<context, tab, docs, busy, done, signedSnapshot>> /\ ensure' = ensure
  BY DEF SignAnswered, context
<1>2. Take(f) /\ f \in Clients
  BY ClientFacts DEF SignAnswered
<1>3. Steps /\ CInv'
  BY <1>1, <1>2, ContextSame DEF Steps, Next
<1>4. reply[f].card \in Cards
  BY <1>2 DEF SignAnswered, Answered, SInv, ReplyCard
<1>5. /\ run[f] \in RunRecord /\ RunOk(run[f]) /\ run[f].at = "sign" /\ run[f].at \in Working
      /\ run[f].made = 0 /\ ensure[f] = "idle"
  BY DEF SignAnswered, DeskInv, PageType, RunsOk, RunOk, RunEnsures, Working
<1>6. PICK m \in 0..2 : m = 1
  OBVIOUS
<1> DEFINE r == [run[f] EXCEPT !.at = "assemble", !.by = reply[f].card, !.made = m]
<1>7. /\ r \in RunRecord /\ r.at = "assemble" /\ r.doc = run[f].doc /\ r.left = run[f].left
      /\ r.cert = run[f].cert /\ r.made = m
  BY <1>4, <1>5 DEF RunRecord
<1>8. RunOk(r) /\ r.at \in Working
  BY <1>5, <1>6, <1>7 DEF RunOk, Working
<1>9. run' = [run EXCEPT ![f] = r]
  <2>1. run' = [run EXCEPT ![f] = [run[f] EXCEPT !.at = "assemble", !.by = reply[f].card,
                                                 !.made = run[f].made + 1]]
    BY DEF SignAnswered, DeskInv, PageType
  <2>2. m = run[f].made + 1
    BY <1>5, <1>6
  <2> QED
    BY <2>1, <2>2
<1> HIDE DEF r
<1>10. DeskInv'
  BY <1>1, <1>5, <1>7, <1>8, <1>9, RunDesk
<1> QED
  BY <1>3, <1>10

LEMMA SignFailedInv ==
  ASSUME AllInv, NEW f \in Flows, SignFailed(f)
  PROVE  Steps /\ CInv' /\ DeskInv'
<1> USE DEF AllInv
<1>1. UNCHANGED <<available, certificates, pinOpen, pad, pinResolver, probe, cached,
                  given, tab, signedSnapshot>>
  BY DEF SignFailed
<1>2. Take(f) /\ f \in Clients
  BY ClientFacts DEF SignFailed
<1>3. Steps
  BY <1>2 DEF Steps, Next
<1>4. /\ run[f] \in RunRecord /\ RunOk(run[f]) /\ run[f].at = "sign" /\ run[f].at \in Working
      /\ ensure[f] = "idle"
  BY DEF SignFailed, DeskInv, PageType, RunsOk, RunEnsures, Working
<1>5. CASE Failed(f) /\ UNCHANGED ensure
  <2>1. CInv'
    BY <1>1, <1>5, ContextSame DEF context
  <2>2. DeskInv'
    BY <1>1, <1>4, <1>5, FailedDesk
  <2> QED
    BY <1>3, <2>1, <2>2
<1>6. CASE /\ Moves(f, "status") /\ run' = [run EXCEPT ![f].at = "relock"]
           /\ UNCHANGED <<docs, busy, done>>
  <2>1. CInv' /\ ensure'[f] = "status" /\ \A g \in Flows : g # f => ensure'[g] = ensure[g]
    <3>1. "status" \in Awaits \ {"pin", "ready"} /\ ensure[f] # "pin"
      BY <1>4 DEF Awaits
    <3>2. cached' \in [Flows -> Cards \cup {NoCard}]
      BY <1>1 DEF CInv, ContextTypeOK
    <3> QED
      BY <1>1, <1>6, <3>1, <3>2, MovesCInv
  <2> DEFINE r == [run[f] EXCEPT !.at = "relock"]
  <2>2. /\ r \in RunRecord /\ r.at = "relock" /\ r.doc = run[f].doc /\ r.left = run[f].left
        /\ r.cert = run[f].cert /\ r.made = run[f].made
    BY <1>4 DEF RunRecord
  <2>3. RunOk(r) /\ r.at \in Working
    BY <1>4, <2>2 DEF RunOk, Working
  <2>4. run' = [run EXCEPT ![f] = r]
    BY <1>6
  <2> HIDE DEF r
  <2>5. DeskInv'
    BY <1>1, <1>4, <1>6, <2>1, <2>2, <2>3, <2>4, RunDesk
  <2> QED
    BY <1>3, <2>1, <2>5
<1> QED
  BY <1>5, <1>6 DEF SignFailed
-----------------------------------------------------------------------------
(* The shell runs a sign command; the world and the card move.             *)

LEMMA RunSignInv ==
  ASSUME AllInv, NEW f \in Flows, RunSign(f)
  PROVE  Steps /\ CInv' /\ DeskInv'
<1> USE DEF AllInv
<1>1. UNCHANGED <<context, workspace>>
  BY DEF RunSign
<1>2. KeyIdOf[run[f].cert] \in KeyIds /\ f \in Clients
  BY SignerAssumption, ClientFacts DEF RunSign, DeskInv, RunsOk, RunOk, Working
<1>3. Command(f)
  BY <1>2 DEF RunSign, Command, Ops
<1>4. Steps
  BY <1>2, <1>3 DEF Steps, Next
<1>5. CInv' /\ ensure' = ensure
  BY <1>1, ContextSame
<1> QED
  BY <1>1, <1>4, <1>5, DeskSame

LEMMA OutsideInv ==
  ASSUME AllInv, World \/ TokenAnswers, UNCHANGED <<context, workspace>>
  PROVE  Steps /\ CInv' /\ DeskInv'
<1> USE DEF AllInv
<1>1. Steps
  BY DEF Steps, Next
<1>2. CInv' /\ ensure' = ensure
  BY ContextSame
<1> QED
  BY <1>1, <1>2, DeskSame

LEMMA ContextInv ==
  ASSUME AllInv, PinModal \/ ContextEvent \/ LockAnswered \/ LockClicked, UNCHANGED workspace
  PROVE  Steps /\ CInv' /\ DeskInv'
<1> USE DEF AllInv
<1>1. Steps
  BY ContextSteps
<1>2. CInv' /\ \A g \in Flows : ensure'[g] = "idle" <=> ensure[g] = "idle"
  <2>1. CASE PinModal
    BY <2>1, PinModalCInv
  <2>2. CASE ContextEvent
    BY <2>2, ContextEventCInv
  <2>3. CASE LockAnswered \/ LockClicked
    BY <2>3, ContextSame DEF LockAnswered, LockClicked
  <2> QED
    BY <2>1, <2>2, <2>3
<1> QED
  BY <1>1, <1>2, DeskSame

(* Every step of the page is a step of the core or none, and keeps AllInv. *)
LEMMA StepAllInv == AllInv /\ [WorkspaceNext]_desk => AllInv' /\ Steps
<1> SUFFICES ASSUME AllInv, [WorkspaceNext]_desk PROVE AllInv' /\ Steps
  OBVIOUS
<1> DEFINE Good == Steps /\ CInv' /\ DeskInv'
<1>1. Good => AllInv' /\ Steps
  BY StepSInv DEF AllInv
<1>2. ASSUME NEW f \in Flows, Continue(f) PROVE Good
  BY <1>2, KeyUnlockedInv, BatchUnlockedInv, RetryUnlockedInv DEF Continue
<1>3. ASSUME User PROVE Good
  <2>1. ASSUME NEW f \in Flows, SignAll(f) \/ KeyUnlock(f) PROVE Good
    BY <2>1, SignAllInv, KeyUnlockInv
  <2>2. ASSUME KeyLock PROVE Good
    BY <2>2, ContextInv DEF KeyLock
  <2>3. ASSUME NEW t \in {"sign", "cle"}, SetTab(t) PROVE Good
    BY <2>3, SetTabInv
  <2> QED
    BY <1>3, <2>1, <2>2, <2>3, ListInv DEF User
<1>4. ASSUME NEW f \in Flows, Progress(f) PROVE Good
  <2>1. ASSUME NEW ok \in BOOLEAN, Prepared(f, ok) \/ Assembled(f, ok) PROVE Good
    <3>1. ensure[f] = "idle"
      BY <2>1 DEF Prepared, Assembled, AllInv, DeskInv, RunEnsures
    <3> QED
      BY <2>1, <3>1, PreparedInv
  <2> QED
    BY <1>4, <2>1, SignAnsweredInv, SignFailedInv DEF Progress
<1>5. ASSUME NEW f \in Flows, RunSign(f) PROVE Good
  BY <1>5, RunSignInv
<1>6. ASSUME PinModal \/ ContextEvent \/ LockAnswered, UNCHANGED workspace PROVE Good
  BY <1>6, ContextInv
<1>7. ASSUME (World /\ UNCHANGED <<context, workspace>>) \/ CardAnswers PROVE Good
  BY <1>7, OutsideInv DEF CardAnswers
<1>8. ASSUME UNCHANGED desk PROVE Good
  <2>1. Steps /\ UNCHANGED <<context, workspace>>
    BY <1>8 DEF desk, Steps
  <2>2. CInv' /\ ensure' = ensure
    BY <2>1, ContextSame DEF AllInv
  <2> QED
    BY <2>1, <2>2, DeskSame DEF AllInv
<1> HIDE DEF Good
<1>9. Good
  BY <1>2, <1>3, <1>4, <1>5, <1>6, <1>7, <1>8 DEF WorkspaceNext
<1> QED
  BY <1>1, <1>9

LEMMA InitAllInv == WorkspaceInit => AllInv
<1> SUFFICES ASSUME WorkspaceInit PROVE AllInv
  OBVIOUS
<1>1. SInv /\ CInv
  BY InitSInv, InitCInv DEF WorkspaceInit
<1>2. PageType /\ RunsOk
  BY NoRunFacts DEF WorkspaceInit, PageType, RunsOk
<1>3. RunEnsures /\ RowHasRun
  BY NoRunFacts DEF WorkspaceInit, ContextInit, RunEnsures, RowHasRun
<1> QED
  BY <1>1, <1>2, <1>3 DEF AllInv, DeskInv

LEMMA AlwaysAllInv == WorkspaceSpec => []AllInv
  BY InitAllInv, StepAllInv, PTL DEF WorkspaceSpec
-----------------------------------------------------------------------------
(* Type correctness, for any number of documents, runs and cards.          *)
THEOREM WorkspaceTypeCorrect == WorkspaceSpec => []WorkspaceTypeOK
<1>1. AllInv => WorkspaceTypeOK
  BY DEF AllInv, SInv, IInv, CInv, DeskInv, PageType, DocRecord, RunRecord, WorkspaceTypeOK
<1> QED
  BY AlwaysAllInv, <1>1, PTL

(* The PIN modal is never shown for no one (AgentContext.tsx:155-201).     *)
THEOREM ModalIsAwaited == WorkspaceSpec => []ModalHasWaiter
<1>1. AllInv => ModalHasWaiter
  BY DEF AllInv, CInv
<1> QED
  BY AlwaysAllInv, <1>1, PTL

(* A document shown as being signed has a run that goes on, or one that    *)
(* has lost its prompt, however many runs overlap                          *)
(* (SignWorkspace.tsx:139-214).                                            *)
THEOREM SpinnersHaveRuns == WorkspaceSpec => []SigningHasRun
<1>1. AllInv => SigningHasRun
  <2> SUFFICES ASSUME AllInv, NEW d \in Docs, docs[d].status = "signing"
               PROVE  \E f \in Flows : WorksOn(f, d) /\ (GoesOn(f) \/ PromptLost(f))
    BY DEF SigningHasRun
  <2>1. PICK f \in Flows : WorksOn(f, d)
    BY DEF AllInv, DeskInv, RowHasRun, WorksOn
  <2>2. GoesOn(f) \/ PromptLost(f)
    BY ClientFacts DEF AllInv, CInv, ModalShown, GoesOn, PromptLost
  <2> QED
    BY <2>1, <2>2
<1> QED
  BY AlwaysAllInv, <1>1, PTL

(* The retry after `locked` never signs twice (SignWorkspace.tsx:181-193). *)
THEOREM RunsSignOnce == WorkspaceSpec => []OneSignaturePerRun
<1>1. AllInv => OneSignaturePerRun
  BY DEF AllInv, DeskInv, PageType, RunsOk, RunOk, RunRecord, OneSignaturePerRun
<1> QED
  BY AlwaysAllInv, <1>1, PTL

(* The page and its context drive the signing core as Signer describes it, *)
(* so every theorem of SignerProofs holds under them: signatures keep to   *)
(* the PIN session (session.rs:29-33, signer.rs:102-129).                  *)
THEOREM WorkspaceRunsSigner == WorkspaceSpec => Spec
<1>1. WorkspaceInit => Init
  BY DEF WorkspaceInit
<1>2. AllInv /\ [WorkspaceNext]_desk => [Next]_vars
  BY StepAllInv DEF Steps
<1> QED
  BY AlwaysAllInv, <1>1, <1>2, PTL DEF WorkspaceSpec, Spec

(* Signing a batch keeps the promise of PinSession: every signature is     *)
(* under a PIN presented to the inserted card, within the idle TTL         *)
(* (session.rs:29-33, signer.rs:102-129).                                  *)
THEOREM WorkspaceKeepsPinSession == WorkspaceSpec => ImplementsPinSession
  BY WorkspaceRunsSigner, Refinement
-----------------------------------------------------------------------------
(* What the page does to the prompts: no run takes another's but by asking *)
(* for the PIN itself.                                                     *)
LEMMA StepPrompts == AllInv /\ [WorkspaceNext]_desk => Prompts
<1> SUFFICES ASSUME AllInv, [WorkspaceNext]_desk PROVE Prompts
  OBVIOUS
<1> USE DEF AllInv
<1>1. UNCHANGED context => Prompts
  BY PromptsSame DEF context
<1>2. ASSUME NEW f \in Flows, NEW at \in {"idle", "status"}, Moves(f, at),
             UNCHANGED <<pad, pinResolver>>
      PROVE  Prompts
  BY <1>2, MovesPrompts DEF Awaits
<1>3. ASSUME NEW f \in Flows, Continue(f) PROVE Prompts
  BY <1>2, <1>3 DEF Continue, KeyUnlocked, BatchUnlocked, RetryUnlocked
<1>4. ASSUME User PROVE Prompts
  <2>1. ASSUME NEW f \in Flows, SignAll(f) \/ KeyUnlock(f) PROVE Prompts
    BY <1>2, <2>1 DEF SignAll, KeyUnlock, EnsureUnlocked
  <2>2. ASSUME NEW d \in Docs, AddFile(d) \/ Remove(d) PROVE Prompts
    BY <1>1, <2>2 DEF AddFile, Remove
  <2>3. ASSUME NEW t \in {"sign", "cle"}, SetTab(t) PROVE Prompts
    BY <1>1, <2>3 DEF SetTab
  <2>4. ASSUME Reset \/ KeyLock PROVE Prompts
    BY <1>1, <2>4 DEF Reset, KeyLock, LockClicked
  <2> QED
    BY <1>4, <2>1, <2>2, <2>3, <2>4 DEF User
<1>5. ASSUME NEW f \in Flows, Progress(f) PROVE Prompts
  <2>1. CASE UNCHANGED <<pad, pinResolver>> /\ (Moves(f, "status") \/ UNCHANGED ensure)
    BY <1>2, <2>1, PromptsSame
  <2> QED
    BY <1>5, <2>1 DEF Progress, Prepared, Assembled, SignAnswered, SignFailed, context
<1>6. ASSUME NEW f \in Flows, RunSign(f) PROVE Prompts
  BY <1>1, <1>6 DEF RunSign
<1> QED
  BY <1>1, <1>3, <1>4, <1>5, <1>6, PinModalPrompts, ContextEventPrompts
  DEF WorkspaceNext, LockAnswered, CardAnswers, desk

(* A flow that waits for the PIN loses its prompt to another flow only     *)
(* (AgentContext.tsx:155-201).                                             *)
THEOREM PromptsLostToOthers == WorkspaceSpec => PromptLostToAnother
<1>1. AllInv /\ [WorkspaceNext]_desk =>
        [\A f \in Flows : ~PromptLost(f) /\ PromptLost(f)' =>
           \E g \in Flows \ {f} : g \in {pinResolver', pad.for}]_context
  BY StepPrompts DEF Prompts
<1> QED
  BY AlwaysAllInv, <1>1, PTL DEF WorkspaceSpec, PromptLostToAnother
-----------------------------------------------------------------------------
(* The signed document carries a certificate of the signer's key id.       *)

(* Of a run or a document: the card that signed has the key id of the one  *)
(* whose certificate is in the parameters.                                 *)
Matches(x) == x.by \in Cards /\ x.cert \in Cards /\ KeyIdOf[x.by] = KeyIdOf[x.cert]

KeyIdSigned == \A d \in Docs : docs[d].status = "signed" => Matches(docs[d])

(* The command and the answer of a signature are those of a run that       *)
(* awaits them, made with the key of the run's certificate; NoAnswerYet    *)
(* keeps a second one from being on its way.                               *)
SignOwn ==
  \A f \in Flows :
    /\ call.op = "sign" /\ call.who = f =>
         run[f].at = "sign" /\ call.key = KeyIdOf[run[f].cert]
    /\ reply[f].op = "sign" /\ reply[f].code = "ok" =>
         run[f].at = "sign" /\ KeyIdOf[reply[f].card] = KeyIdOf[run[f].cert]
    /\ run[f].at = "assemble" => Matches(run[f])

CertInv == SignOwn /\ KeyIdSigned

(* Runs that sign or assemble stay at it with their certificate, and no    *)
(* signature is asked for or given.                                        *)
LEMMA SignOwnKept ==
  ASSUME SignOwn, NoSigning,
         \A f \in Flows : run[f].at = "sign" => run'[f].at = "sign" /\ run'[f].cert = run[f].cert,
         \A f \in Flows : run'[f].at = "assemble" =>
           \/ run[f].at = "assemble" /\ run'[f].by = run[f].by /\ run'[f].cert = run[f].cert
           \/ Matches(run'[f])
  PROVE  SignOwn'
  BY DEF SignOwn, NoSigning, Matches

LEMMA OneRunSignOwn ==
  ASSUME SignOwn, NoSigning, NEW f \in Flows, run[f].at # "sign", run'[f].at # "assemble",
         \A g \in Flows \ {f} : run'[g] = run[g]
  PROVE  SignOwn'
<1>1. ASSUME NEW g \in Flows, run[g].at = "sign"
      PROVE  run'[g].at = "sign" /\ run'[g].cert = run[g].cert
  BY <1>1
<1>2. ASSUME NEW g \in Flows, run'[g].at = "assemble"
      PROVE  run[g].at = "assemble" /\ run'[g].by = run[g].by /\ run'[g].cert = run[g].cert
  BY <1>2
<1> QED
  BY <1>1, <1>2, SignOwnKept

LEMMA SameNoSigning == UNCHANGED vars => NoSigning
  BY DEF vars, NoSigning

(* What the end of a document leaves: its own status, or what was there.   *)
LEMMA FinishCert ==
  ASSUME DeskInv, NEW f \in Flows, run[f].at \in Working,
         NEW o \in DocRecord, Finish(f, o)
  PROVE  /\ run'[f].at \in {"idle", "prepare"}
         /\ \A g \in Flows \ {f} : run'[g] = run[g]
         /\ \A e \in Docs : docs'[e].status = "signed" => docs'[e] \in {docs[e], o}
<1> USE DEF DeskInv
<1> DEFINE ended == Patched(f, docs, run[f].doc, o)
<1>1. run[f].doc \in Docs /\ run[f] \in RunRecord /\ docs \in [Docs -> DocRecord]
  BY DEF RunsOk, RunOk, PageType
<1>2. /\ ended \in [Docs -> DocRecord]
      /\ \A e \in Docs : ended[e] \in {docs[e], o}
  BY <1>1, PatchedFacts DEF Patched
<1> HIDE DEF ended
<1>3. CASE run[f].todo = {}
  <2>1. docs' = ended /\ run' = [run EXCEPT ![f] = NoRun]
    BY <1>3 DEF Finish, ended
  <2> QED
    BY <1>2, <2>1, NoRunFacts, OneRun
<1>4. CASE run[f].todo # {}
  <2> DEFINE d == First(run[f].todo)
  <2>1. d \in Docs
    BY <1>1, <1>4, FirstDoc DEF RunRecord
  <2>2. docs' = Signing(f, ended, d) /\ Starts(f, run[f], d)
    BY <1>4 DEF Finish, ended
  <2> HIDE DEF d
  <2>3. /\ \A e \in Docs \ {d} : docs'[e] = ended[e]
        /\ docs'[d] = IF run[f].left \/ ended[d].status = "absent" THEN ended[d]
                      ELSE [ended[d] EXCEPT !.status = "signing"]
    BY <1>2, <2>1, <2>2, SigningFacts DEF Signing, Patched
  <2>4. [ended[d] EXCEPT !.status = "signing"].status = "signing"
    BY <1>2, <2>1 DEF DocRecord
  <2>5. \A e \in Docs : docs'[e].status = "signed" => docs'[e] \in {docs[e], o}
    BY <1>2, <2>1, <2>3, <2>4
  <2>6. run'[f].at = "prepare" /\ \A g \in Flows \ {f} : run'[g] = run[g]
    BY <1>1, <2>1, <2>2, StartsRun DEF RunsOk, RunOk
  <2> QED
    BY <2>5, <2>6
<1> QED
  BY <1>3, <1>4

(* A run that has its certificates, or has them again, marks a document.   *)
LEMMA SigningCert ==
  ASSUME DeskInv, NEW f \in Flows, NEW d \in Docs, docs' = Signing(f, docs, d),
         KeyIdSigned
  PROVE  KeyIdSigned'
<1>1. docs \in [Docs -> DocRecord]
  BY DEF DeskInv, PageType
<1>2. /\ \A e \in Docs \ {d} : docs'[e] = docs[e]
      /\ docs'[d] = IF run[f].left \/ docs[d].status = "absent" THEN docs[d]
                    ELSE [docs[d] EXCEPT !.status = "signing"]
  BY <1>1, SigningFacts DEF Signing, Patched
<1>3. [docs[d] EXCEPT !.status = "signing"].status = "signing"
  BY <1>1 DEF DocRecord
<1> QED
  BY <1>2, <1>3 DEF KeyIdSigned

LEMMA ContinueCert ==
  ASSUME AllInv, CertInv, NEW f \in Flows, Continue(f)
  PROVE  CertInv'
<1> USE DEF AllInv, CertInv
<1>1. NoSigning /\ run[f] \in RunRecord /\ RunOk(run[f])
  BY SameNoSigning DEF Continue, KeyUnlocked, BatchUnlocked, RetryUnlocked, DeskInv, PageType,
                       RunsOk
<1>2. CASE run' = [run EXCEPT ![f] = NoRun] /\ docs' = docs /\ run[f].at # "sign"
  <2>1. SignOwn'
    BY <1>1, <1>2, NoRunFacts, OneRun, OneRunSignOwn DEF DeskInv
  <2> QED
    BY <1>2, <2>1 DEF KeyIdSigned
<1>3. CASE BatchUnlocked(f) /\ ensure[f] = "ready" /\ given[f] # NoCard
  <2> DEFINE d == First(run[f].todo)
             r == [run[f] EXCEPT !.cert = given[f]]
  <2>1. d \in Docs /\ given[f] \in Cards /\ run[f].at = "unlock"
    BY <1>1, <1>3, FirstDoc DEF BatchUnlocked, RunOk, RunRecord, CInv, ContextTypeOK
  <2>2. r \in RunRecord /\ r.cert \in Cards
    BY <1>1, <2>1 DEF RunRecord
  <2>3. docs' = Signing(f, docs, d) /\ Starts(f, r, d)
    BY <1>3 DEF BatchUnlocked
  <2> HIDE DEF d, r
  <2>4. run'[f].at = "prepare" /\ \A g \in Flows \ {f} : run'[g] = run[g]
    BY <2>1, <2>2, <2>3, StartsRun DEF DeskInv
  <2>5. SignOwn'
    BY <1>1, <2>1, <2>4, OneRunSignOwn
  <2> QED
    BY <2>1, <2>3, <2>5, SigningCert
<1>4. CASE RetryUnlocked(f) /\ ensure[f] = "ready"
  <2>1. /\ docs' = Signing(f, docs, run[f].doc) /\ run[f].doc \in Docs /\ run[f].at = "relock"
        /\ run' = [run EXCEPT ![f] = [run[f] EXCEPT !.at = "prepare", !.retried = TRUE]]
    BY <1>1, <1>4 DEF RetryUnlocked, RunOk, Working
  <2>2. run'[f].at = "prepare" /\ \A g \in Flows \ {f} : run'[g] = run[g]
    BY <1>1, <2>1 DEF DeskInv, PageType, RunRecord
  <2>3. SignOwn'
    BY <1>1, <2>1, <2>2, OneRunSignOwn
  <2> QED
    BY <2>1, <2>3, SigningCert
<1>5. CASE RetryUnlocked(f) /\ Failed(f)
  <2> DEFINE o == [docs[run[f].doc] EXCEPT !.status = "error"]
  <2>1. run[f].at = "relock" /\ run[f].at \in Working /\ docs[run[f].doc] \in DocRecord
    BY <1>1, <1>5 DEF RetryUnlocked, RunOk, Working, DeskInv, PageType
  <2>2. o \in DocRecord /\ o.status = "error" /\ Finish(f, o)
    BY <1>5, <2>1 DEF DocRecord, Failed
  <2> HIDE DEF o
  <2>3. /\ run'[f].at \in {"idle", "prepare"} /\ \A g \in Flows \ {f} : run'[g] = run[g]
        /\ \A e \in Docs : docs'[e].status = "signed" => docs'[e] = docs[e]
    BY <2>1, <2>2, FinishCert
  <2>4. SignOwn'
    BY <1>1, <2>1, <2>3, OneRunSignOwn
  <2> QED
    BY <2>3, <2>4 DEF KeyIdSigned
<1> QED
  BY <1>2, <1>3, <1>4, <1>5 DEF Continue, KeyUnlocked, BatchUnlocked, RetryUnlocked

LEMMA UserCert ==
  ASSUME AllInv, CertInv, User
  PROVE  CertInv'
<1> USE DEF AllInv, CertInv
<1>1. ASSUME NEW f \in Flows, SignAll(f) \/ KeyUnlock(f) PROVE CertInv'
  <2>1. /\ NoSigning /\ run[f] = NoRun /\ docs' = docs
        /\ run'[f].at \in {"unlock", "key"} /\ \A g \in Flows \ {f} : run'[g] = run[g]
    <3>1. UNCHANGED vars /\ run[f] = NoRun /\ docs' = docs
      BY <1>1 DEF SignAll, KeyUnlock
    <3>2. PICK r : run' = [run EXCEPT ![f] = r] /\ r.at \in {"unlock", "key"}
      <4>1. CASE SignAll(f)
        <5>1. [NoRun EXCEPT !.at = "unlock", !.todo = Pending].at = "unlock"
          BY DEF NoRun
        <5> QED
          BY <4>1, <5>1 DEF SignAll
      <4>2. CASE KeyUnlock(f)
        <5>1. [NoRun EXCEPT !.at = "key"].at = "key"
          BY DEF NoRun
        <5> QED
          BY <4>2, <5>1 DEF KeyUnlock
      <4> QED
        BY <1>1, <4>1, <4>2
    <3> QED
      BY <3>1, <3>2, SameNoSigning DEF DeskInv, PageType
  <2>2. SignOwn'
    BY <2>1, NoRunFacts, OneRunSignOwn
  <2> QED
    BY <2>1, <2>2 DEF KeyIdSigned
<1>2. ASSUME NEW d \in Docs, AddFile(d) \/ Remove(d) PROVE CertInv'
  <2>1. NoSigning /\ run' = run
    BY <1>2, SameNoSigning DEF AddFile, Remove
  <2>2. \A e \in Docs : docs'[e].status = "signed" => docs'[e] = docs[e]
    BY <1>2 DEF AddFile, Remove, Absent, DeskInv, PageType
  <2> QED
    BY <2>1, <2>2, SignOwnKept DEF KeyIdSigned
<1>3. CASE Reset
  <2>1. NoSigning /\ run' = run
    BY <1>3, SameNoSigning DEF Reset
  <2>2. \A e \in Docs : docs'[e].status = "absent"
    BY <1>3, NoRunFacts DEF Reset
  <2> QED
    BY <2>1, <2>2, SignOwnKept DEF KeyIdSigned
<1>4. ASSUME NEW t \in {"sign", "cle"}, SetTab(t) PROVE CertInv'
  <2>1. NoSigning /\ \A e \in Docs : docs'[e].status = "absent"
    BY <1>4, SameNoSigning, NoRunFacts DEF SetTab
  <2>2. ASSUME NEW f \in Flows
        PROVE  /\ run'[f].at = run[f].at /\ run'[f].cert = run[f].cert /\ run'[f].by = run[f].by
    <3>1. run[f] \in RunRecord
          /\ run'[f] = IF run[f] = NoRun THEN NoRun ELSE [run[f] EXCEPT !.left = TRUE]
      BY <1>4 DEF SetTab, DeskInv, PageType
    <3> QED
      BY <3>1 DEF RunRecord
  <2> QED
    BY <2>1, <2>2, SignOwnKept DEF KeyIdSigned
<1>5. CASE KeyLock
  <2>1. NoSigning /\ run' = run /\ docs' = docs
    BY <1>5, ContextNoSigning DEF KeyLock, workspace, SInv, IInv
  <2> QED
    BY <2>1, SignOwnKept DEF KeyIdSigned
<1> QED
  BY <1>1, <1>2, <1>3, <1>4, <1>5 DEF User

(* The answers to a run.  While an answer is there no other is on its way. *)
LEMMA ProgressCert ==
  ASSUME AllInv, CertInv, NEW f \in Flows, Progress(f)
  PROVE  CertInv'
<1> USE DEF AllInv, CertInv
<1>1. run[f] \in RunRecord /\ RunOk(run[f]) /\ docs \in [Docs -> DocRecord] /\ f \in Clients
  BY ClientFacts DEF DeskInv, PageType, RunsOk
<1>2. ASSUME NEW o \in DocRecord, Finish(f, o), run[f].at \in Working,
             o.status = "signed" => Matches(o)
      PROVE  /\ KeyIdSigned' /\ run'[f].at \in {"idle", "prepare"}
             /\ \A g \in Flows \ {f} : run'[g] = run[g]
  <2>1. /\ run'[f].at \in {"idle", "prepare"} /\ \A g \in Flows \ {f} : run'[g] = run[g]
        /\ \A e \in Docs : docs'[e].status = "signed" => docs'[e] \in {docs[e], o}
    BY <1>2, FinishCert
  <2> QED
    BY <1>2, <2>1 DEF KeyIdSigned
<1>3. ASSUME Failed(f), run[f].at \in Working
      PROVE  /\ KeyIdSigned' /\ run'[f].at \in {"idle", "prepare"}
             /\ \A g \in Flows \ {f} : run'[g] = run[g]
  <2> DEFINE o == [docs[run[f].doc] EXCEPT !.status = "error"]
  <2>1. docs[run[f].doc] \in DocRecord
    BY <1>1, <1>3 DEF RunOk
  <2>2. o \in DocRecord /\ o.status = "error" /\ Finish(f, o)
    BY <1>3, <2>1 DEF DocRecord, Failed
  <2> HIDE DEF o
  <2> QED
    BY <1>2, <1>3, <2>2
<1>4. ASSUME NEW ok \in BOOLEAN, Prepared(f, ok) PROVE CertInv'
  <2>1. NoSigning /\ run[f].at = "prepare" /\ run[f].at \in Working
    BY <1>4, SameNoSigning DEF Prepared, Working
  <2>2. /\ KeyIdSigned' /\ run'[f].at \in {"idle", "prepare", "sign"}
        /\ \A g \in Flows \ {f} : run'[g] = run[g]
    <3>1. CASE ok
      <4>1. docs' = docs /\ run' = [run EXCEPT ![f] = [run[f] EXCEPT !.at = "sign"]]
        BY <1>4, <3>1 DEF Prepared
      <4> QED
        BY <1>1, <4>1 DEF KeyIdSigned, DeskInv, PageType, RunRecord
    <3>2. CASE ~ok
      BY <1>3, <1>4, <2>1, <3>2 DEF Prepared
    <3> QED
      BY <3>1, <3>2
  <2> QED
    BY <2>1, <2>2, OneRunSignOwn
<1>5. ASSUME NEW ok \in BOOLEAN, Assembled(f, ok) PROVE CertInv'
  <2>1. NoSigning /\ run[f].at = "assemble" /\ run[f].at \in Working
    BY <1>5, SameNoSigning DEF Assembled, Working
  <2>2. /\ KeyIdSigned' /\ run'[f].at \in {"idle", "prepare"}
        /\ \A g \in Flows \ {f} : run'[g] = run[g]
    <3>1. CASE ok
      <4> DEFINE o == [status |-> "signed", cert |-> run[f].cert, by |-> run[f].by]
      <4>1. o \in DocRecord /\ Finish(f, o)
        BY <1>1, <1>5, <3>1 DEF Assembled, Signed, DocRecord, RunRecord
      <4>2. Matches(o)
        BY <2>1 DEF SignOwn, Matches
      <4> HIDE DEF o
      <4> QED
        BY <1>2, <2>1, <4>1, <4>2
    <3>2. CASE ~ok
      BY <1>3, <1>5, <2>1, <3>2 DEF Assembled
    <3> QED
      BY <3>1, <3>2
  <2> QED
    BY <2>1, <2>2, OneRunSignOwn
<1>6. ASSUME Take(f), reply[f].op = "sign"
      PROVE  /\ call' = call /\ ~(call.op = "sign" /\ call.who = f)
             /\ reply'[f] = NoReply /\ \A g \in Flows \ {f} : reply'[g] = reply[g]
  <2>1. reply[f] # NoReply
    BY <1>6 DEF NoReply, Reply
  <2>2. call.op = "sign" => call # NoCall
    BY NoFacts
  <2>3. call' = call /\ reply' = [reply EXCEPT ![f] = NoReply]
    BY <1>6 DEF Take
  <2> QED
    BY <1>1, <2>1, <2>2, <2>3, ClientFacts DEF SInv, IInv, TypeOK, NoAnswerYet
<1>7. ASSUME Take(f), reply[f].op = "sign", \A g \in Flows \ {f} : run'[g] = run[g],
             run'[f].at = "assemble" => Matches(run'[f])
      PROVE  SignOwn'
  <2>1. /\ call' = call /\ ~(call.op = "sign" /\ call.who = f)
        /\ reply'[f].op = "none" /\ \A g \in Flows \ {f} : reply'[g] = reply[g]
    BY <1>6, <1>7 DEF NoReply, Reply
  <2> QED
    BY <1>7, <2>1 DEF SignOwn, Matches
<1>8. CASE SignAnswered(f)
  <2>1. /\ Take(f) /\ reply[f].op = "sign" /\ reply[f].code = "ok" /\ docs' = docs
    BY <1>8 DEF SignAnswered, Answered
  <2>2. run' = [run EXCEPT ![f] = [run[f] EXCEPT !.at = "assemble", !.by = reply[f].card,
                                                 !.made = run[f].made + 1]]
    BY <1>8 DEF SignAnswered, DeskInv, PageType
  <2>3. /\ run'[f].by = reply[f].card /\ run'[f].cert = run[f].cert
        /\ \A g \in Flows \ {f} : run'[g] = run[g]
    BY <1>1, <2>2 DEF DeskInv, PageType, RunRecord
  <2>4. Matches(run'[f])
    <3>1. reply[f].card \in Cards /\ run[f].cert \in Cards
      BY <1>1, <1>8, <2>1 DEF SignAnswered, RunOk, Working, SInv, ReplyCard
    <3> QED
      BY <2>1, <2>3, <3>1 DEF SignOwn, Matches
  <2>5. SignOwn'
    BY <1>7, <2>1, <2>3, <2>4
  <2> QED
    BY <2>1, <2>5 DEF KeyIdSigned
<1>9. CASE SignFailed(f)
  <2>1. Take(f) /\ reply[f].op = "sign" /\ run[f].at = "sign" /\ run[f].at \in Working
    BY <1>9 DEF SignFailed, Answered, Working
  <2>2. /\ KeyIdSigned' /\ run'[f].at \in {"idle", "prepare", "relock"}
        /\ \A g \in Flows \ {f} : run'[g] = run[g]
    <3>1. CASE docs' = docs /\ run' = [run EXCEPT ![f].at = "relock"]
      <4>1. run' = [run EXCEPT ![f] = [run[f] EXCEPT !.at = "relock"]]
        BY <3>1
      <4> QED
        BY <1>1, <3>1, <4>1 DEF KeyIdSigned, DeskInv, PageType, RunRecord
    <3>2. CASE Failed(f)
      BY <1>3, <2>1, <3>2
    <3> QED
      BY <1>9, <3>1, <3>2 DEF SignFailed
  <2> QED
    BY <1>7, <2>1, <2>2
<1> QED
  BY <1>4, <1>5, <1>8, <1>9 DEF Progress

(* The command asks for the key of the run's certificate.                  *)
LEMMA RunSignCert ==
  ASSUME AllInv, CertInv, NEW f \in Flows, RunSign(f)
  PROVE  CertInv'
<1> USE DEF AllInv, CertInv
<1>1. run' = run /\ docs' = docs /\ run[f].at = "sign" /\ f \in Clients
  BY ClientFacts DEF RunSign, workspace
<1>2. CASE SignBegin(f, KeyIdOf[run[f].cert])
  <2>1. /\ call'.op = "sign" /\ call'.who = f /\ call'.key = KeyIdOf[run[f].cert]
        /\ reply'[f].op = "none" /\ \A g \in Flows \ {f} : reply'[g] = reply[g]
    BY <1>1, <1>2, ClientFacts DEF SignBegin, NoReply, Reply, SInv, IInv, TypeOK
  <2> QED
    BY <1>1, <2>1 DEF SignOwn, KeyIdSigned
<1>3. CASE SignRefused(f, TRUE) \/ OpenFails(f, "sign")
  <2>1. PICK code : Answer(f, "sign", code, NoCard) /\ code # "ok" /\ call' = call
    BY <1>3 DEF SignRefused, OpenFails, Says, Errors, OpenErrors
  <2>2. /\ reply'[f].code # "ok" /\ \A g \in Flows \ {f} : reply'[g] = reply[g]
    BY <1>1, <2>1, ClientFacts DEF Answer, Reply, SInv, IInv, TypeOK
  <2> QED
    BY <1>1, <2>1, <2>2 DEF SignOwn, KeyIdSigned
<1> QED
  BY <1>2, <1>3 DEF RunSign

(* The card signs with the key it was asked for.                           *)
LEMMA CardCert ==
  ASSUME AllInv, CertInv, TokenAnswers, UNCHANGED workspace
  PROVE  CertInv'
<1> USE DEF AllInv, CertInv
<1>1. run' = run /\ docs' = docs
  BY DEF workspace
<1>2. call' = NoCall /\ call'.op = "none" /\ call.who \in Clients
  BY CallType, NoFacts DEF TokenAnswers, UnlockOk, UnlockWrong, UnlockBlocked, SignOk,
                           SignUnknownKey, UnlockFault, SignFault, SInv, IInv
<1>3. ASSUME NEW op, NEW code, NEW c, Answer(call.who, op, code, c),
             call.who \in Flows /\ op = "sign" /\ code = "ok" =>
               run[call.who].at = "sign" /\ KeyIdOf[c] = KeyIdOf[run[call.who].cert]
      PROVE  CertInv'
  <2>1. \A g \in Clients : reply'[g] = IF g = call.who THEN Reply(op, code, c) ELSE reply[g]
    BY <1>3 DEF Answer, SInv, IInv, TypeOK
  <2> QED
    BY <1>1, <1>2, <1>3, <2>1, ClientFacts DEF SignOwn, KeyIdSigned, Reply
<1>4. CASE SignOk
  <2>1. call.who \in Flows =>
          run[call.who].at = "sign" /\ KeyIdOf[live.card] = KeyIdOf[run[call.who].cert]
    BY <1>4 DEF SignOk, SignOwn
  <2> QED
    BY <1>3, <1>4, <2>1 DEF SignOk
<1>5. CASE UnlockOk \/ UnlockWrong \/ UnlockBlocked \/ SignUnknownKey
  BY <1>3, <1>5 DEF UnlockOk, UnlockWrong, UnlockBlocked, SignUnknownKey
<1>6. ASSUME NEW code \in Codes, UnlockFault(code) \/ SignFault(code) PROVE CertInv'
  <2>1. code # "ok"
    BY <1>6 DEF UnlockFault, SignFault, TokenErrors
  <2> QED
    BY <1>3, <1>6, <2>1 DEF UnlockFault, SignFault
<1> QED
  BY <1>4, <1>5, <1>6 DEF TokenAnswers

LEMMA StepCertInv == AllInv /\ CertInv /\ [WorkspaceNext]_desk => CertInv'
<1> SUFFICES ASSUME AllInv, CertInv, [WorkspaceNext]_desk PROVE CertInv'
  OBVIOUS
<1>1. ASSUME NoSigning, UNCHANGED workspace PROVE CertInv'
  <2>1. run' = run /\ docs' = docs
    BY <1>1 DEF workspace
  <2> QED
    BY <1>1, <2>1, SignOwnKept DEF CertInv, KeyIdSigned
<1>2. ASSUME PinModal \/ ContextEvent \/ LockAnswered, UNCHANGED workspace PROVE CertInv'
  BY <1>1, <1>2, ContextNoSigning DEF AllInv, SInv, IInv
<1>3. CASE World /\ UNCHANGED <<context, workspace>>
  <2>1. reply' = reply /\ run' = run /\ docs' = docs
    BY <1>3 DEF World, Install, Unplug, Tick, Plug, workspace
  <2>2. call'.op = "sign" => call.op = "sign" /\ call'.who = call.who /\ call'.key = call.key
    BY <1>3, CallType DEF World, Install, Unplug, Tick, Plug, AllInv, SInv, IInv
  <2> QED
    BY <2>1, <2>2 DEF CertInv, SignOwn, KeyIdSigned
<1>4. CASE CardAnswers
  BY <1>4, CardCert DEF CardAnswers
<1>5. CASE UNCHANGED desk
  BY <1>1, <1>5, SameNoSigning DEF desk
<1> QED
  BY <1>2, <1>3, <1>4, <1>5, ContinueCert, UserCert, ProgressCert, RunSignCert DEF WorkspaceNext

LEMMA AlwaysCertInv == WorkspaceSpec => []CertInv
<1>1. WorkspaceInit => CertInv
  <2> SUFFICES ASSUME WorkspaceInit PROVE CertInv
    OBVIOUS
  <2>1. /\ call.op = "none" /\ \A f \in Flows : reply[f].op = "none" /\ run[f].at = "idle"
        /\ \A d \in Docs : docs[d].status = "absent"
    BY ClientFacts, NoFacts, NoRunFacts DEF WorkspaceInit, Init, NoReply, Reply
  <2> QED
    BY <2>1 DEF CertInv, SignOwn, KeyIdSigned
<1>2. AllInv /\ CertInv /\ [WorkspaceNext]_desk => CertInv'
  BY StepCertInv
<1> QED
  BY AlwaysAllInv, <1>1, <1>2, PTL DEF WorkspaceSpec

(* A signed document is signed with a key of the id its certificate was    *)
(* listed under, whatever the cards: the CKA_ID is all the signing core    *)
(* looks at (SignWorkspace.tsx:139-158, token.rs:93-112).                 *)
THEOREM KeyIdsSign == WorkspaceSpec => []SignedByItsKey
<1>1. CertInv => SignedByItsKey
  BY SignerAssumption DEF CertInv, KeyIdSigned, Matches, SignedByItsKey
<1> QED
  BY AlwaysCertInv, <1>1, PTL

-----------------------------------------------------------------------------
(* One batch at a time.  A second click before the first run is busy makes *)
(* two runs that undo each other's work; what a batch promises is proved   *)
(* for every behaviour in which the page never has two.                    *)

(* The run belongs to the page that is shown, and it is a batch's.         *)
OnPage(f) == run[f].at \in Working \cup {"unlock"} /\ ~run[f].left
Works(f)  == run[f].at \in Working /\ ~run[f].left

OneBatch == \A f, g \in Flows : OnPage(f) /\ OnPage(g) => f = g

Decided == {"signed", "error", "absent"}

(* The key screen has no batch, the sign page no unlock of the key screen; *)
(* a busy page has a run that works.                                       *)
TabOk ==
  /\ tab = "cle" => /\ \A d \in Docs : docs[d].status = "absent"
                    /\ signedSnapshot = {} /\ ~busy
                    /\ \A f \in Flows : ~OnPage(f)
  /\ tab = "sign" => \A f \in Flows : run[f].at = "key" => run[f].left
  /\ busy => \E f \in Flows : Works(f)

(* What a batch still has to sign is not signed; one that works keeps the  *)
(* page busy, has marked its document, and has decided every target it is  *)
(* done with.                                                              *)
BatchOk(f) ==
  /\ OnPage(f) => \A d \in run[f].todo : docs[d].status # "signed"
  /\ Works(f) =>
       /\ busy
       /\ docs[run[f].doc].status \in {"signing", "absent"}
       /\ run[f].todo \cup {run[f].doc} \subseteq signedSnapshot /\ run[f].doc \notin run[f].todo
       /\ \A d \in signedSnapshot :
            d \in run[f].todo \/ d = run[f].doc \/ docs[d].status \in Decided

BatchInv == TabOk /\ \A f \in Flows : BatchOk(f)

(* The two action properties, as actions.                                  *)
Settles ==
  \A f \in Flows : busy /\ run[f] # NoRun /\ ~run[f].left /\ run'[f] = NoRun =>
    \A d \in signedSnapshot : docs'[d].status \in Decided
Stays == \A d \in Docs : docs[d].status = "signed" => docs'[d].status \in {"signed", "absent"}

BatchGood == BatchInv' /\ Settles /\ Stays

LEMMA BatchSame ==
  ASSUME BatchInv, UNCHANGED workspace
  PROVE  BatchGood
<1>1. UNCHANGED <<tab, docs, busy, done, signedSnapshot, run>>
  BY DEF workspace
<1> QED
  BY <1>1 DEF BatchGood, BatchInv, TabOk, BatchOk, OnPage, Works, Settles, Stays

(* A run moves and the page does not change.                               *)
LEMMA RunBatch ==
  ASSUME PageType, BatchInv, NEW f \in Flows, NEW r \in RunRecord,
         run' = [run EXCEPT ![f] = r], UNCHANGED <<tab, docs, busy, done, signedSnapshot>>,
         r.at \in Working =>
           /\ run[f].at \in Working
           /\ r.left = run[f].left /\ r.doc = run[f].doc /\ r.todo = run[f].todo,
         r.at = "unlock" => tab = "sign" /\ \A d \in r.todo : docs[d].status # "signed",
         r.at = "key" => tab = "cle",
         busy /\ Works(f) => r.at \in Working,
         busy /\ ~run[f].left /\ run[f] # NoRun => r # NoRun
  PROVE  BatchGood
<1>1. run'[f] = r /\ \A g \in Flows \ {f} : run'[g] = run[g]
  BY DEF PageType
<1>2. /\ Works(f)' => Works(f) /\ r.doc = run[f].doc /\ r.todo = run[f].todo
      /\ OnPage(f)' => \/ OnPage(f) /\ r.todo = run[f].todo
                       \/ tab = "sign" /\ \A d \in r.todo : docs[d].status # "signed"
  BY <1>1 DEF Works, OnPage
<1>3. \A g \in Flows \ {f} : (OnPage(g)' <=> OnPage(g)) /\ (Works(g)' <=> Works(g))
  BY <1>1 DEF OnPage, Works
<1>4. TabOk'
  <2>1. ASSUME tab = "sign", NEW g \in Flows, run'[g].at = "key" PROVE run'[g].left
    BY <1>1, <2>1 DEF BatchInv, TabOk
  <2>2. ASSUME tab = "cle", NEW g \in Flows PROVE ~OnPage(g)'
    BY <1>2, <1>3, <2>2 DEF BatchInv, TabOk
  <2>3. ASSUME busy PROVE \E g \in Flows : Works(g)'
    <3>1. PICK g \in Flows : Works(g)
      BY <2>3 DEF BatchInv, TabOk
    <3>2. CASE g = f
      <4>1. Works(f)'
        BY <1>1, <2>3, <3>1, <3>2 DEF Works
      <4> QED
        BY <4>1
    <3>3. CASE g # f
      BY <1>3, <3>1, <3>3
    <3> QED
      BY <3>2, <3>3
  <2>4. UNCHANGED <<tab, docs, busy, signedSnapshot>>
    OBVIOUS
  <2> HIDE DEF Works, OnPage
  <2> QED
    BY <2>1, <2>2, <2>3, <2>4 DEF BatchInv, TabOk
<1>5. ASSUME NEW g \in Flows PROVE BatchOk(g)'
  <2>1. CASE g = f
    BY <1>1, <1>2, <2>1 DEF BatchInv, BatchOk
  <2>2. CASE g # f
    BY <1>1, <1>3, <2>2 DEF BatchInv, BatchOk
  <2> QED
    BY <2>1, <2>2
<1>6. Settles /\ Stays
  BY <1>1 DEF Settles, Stays
<1> QED
  BY <1>4, <1>5, <1>6 DEF BatchGood, BatchInv

(* The only run of the page moves from one await of runBatch to another,   *)
(* and keeps the list in order.                                            *)
LEMMA OneWorks ==
  ASSUME PageType, BatchInv, OneBatch, NEW f \in Flows, OnPage(f),
         run' \in [Flows -> RunRecord], \A g \in Flows \ {f} : run'[g] = run[g],
         UNCHANGED tab, busy', Works(f)', BatchOk(f)'
  PROVE  BatchInv'
<1>1. ASSUME NEW g \in Flows \ {f} PROVE ~OnPage(g)' /\ ~Works(g)'
  BY <1>1 DEF OneBatch, OnPage, Works
<1>2. tab = "sign"
  BY DEF PageType, BatchInv, TabOk
<1>3. TabOk'
  <2>1. \A g \in Flows : run'[g].at = "key" => run'[g].left
    BY <1>2 DEF BatchInv, TabOk, Works, Working
  <2> QED
    BY <1>2, <2>1 DEF TabOk
<1>4. ASSUME NEW g \in Flows PROVE BatchOk(g)'
  <2>1. CASE g = f
    BY <2>1
  <2>2. CASE g # f
    BY <1>1, <2>2 DEF BatchOk
  <2> QED
    BY <2>1, <2>2
<1> QED
  BY <1>3, <1>4 DEF BatchInv

(* The run of a page the user left moves, and the page does not change.    *)
LEMMA LeftBatch ==
  ASSUME PageType, BatchInv, NEW f \in Flows, run[f].left,
         run' \in [Flows -> RunRecord], \A g \in Flows \ {f} : run'[g] = run[g],
         run'[f] = NoRun \/ (run'[f].at \in Working /\ run'[f].left),
         UNCHANGED <<tab, docs, busy, signedSnapshot>>
  PROVE  BatchGood
<1>1. ~OnPage(f) /\ ~Works(f) /\ ~OnPage(f)' /\ ~Works(f)' /\ run'[f].at # "key"
  BY NoRunFacts DEF OnPage, Works, Working
<1>2. \A g \in Flows \ {f} : (OnPage(g)' <=> OnPage(g)) /\ (Works(g)' <=> Works(g))
  BY DEF OnPage, Works
<1>3. TabOk'
  <2>1. ASSUME busy PROVE \E g \in Flows : Works(g)'
    BY <1>1, <1>2, <2>1 DEF BatchInv, TabOk
  <2>2. \A g \in Flows : ~OnPage(g) => ~OnPage(g)'
    BY <1>1, <1>2
  <2> HIDE DEF OnPage, Works
  <2> QED
    BY <1>1, <2>1, <2>2 DEF BatchInv, TabOk
<1>4. ASSUME NEW g \in Flows PROVE BatchOk(g)'
  BY <1>1, <1>2, <1>4 DEF BatchInv, BatchOk
<1>5. Settles /\ Stays
  BY DEF Settles, Stays
<1> QED
  BY <1>3, <1>4, <1>5 DEF BatchGood, BatchInv

(* A document ends; the batch takes its next target, or is over.           *)
LEMMA FinishBatch ==
  ASSUME PageType, RunsOk, BatchInv, OneBatch, NEW f \in Flows, run[f].at \in Working,
         NEW o \in DocRecord, o.status \in {"signed", "error"}, Finish(f, o),
         UNCHANGED <<tab, signedSnapshot>>
  PROVE  BatchGood
<1> DEFINE c == run[f].doc
           ended == Patched(f, docs, c, o)
<1>1. /\ c \in Docs /\ run[f].cert \in Cards /\ run[f] \in RunRecord
      /\ docs \in [Docs -> DocRecord]
  BY DEF RunsOk, RunOk, PageType
<1>2. /\ ended \in [Docs -> DocRecord] /\ \A e \in Docs \ {c} : ended[e] = docs[e]
      /\ ended[c] = IF run[f].left \/ docs[c].status = "absent" THEN docs[c] ELSE o
  BY <1>1, PatchedFacts DEF Patched
<1>3. run[f].left => ended = docs
  BY DEF Patched
<1>4. ASSUME ~run[f].left
      PROVE  /\ OnPage(f) /\ Works(f) /\ busy /\ tab = "sign"
             /\ docs[c].status \in {"signing", "absent"}
             /\ run[f].todo \cup {c} \subseteq signedSnapshot
             /\ c \notin run[f].todo /\ \A d \in run[f].todo : docs[d].status # "signed"
             /\ \A d \in signedSnapshot :
                  d \in run[f].todo \/ d = c \/ docs[d].status \in Decided
  BY <1>4 DEF OnPage, Works, BatchInv, BatchOk, TabOk, PageType
<1> HIDE DEF ended
<1>5. CASE run[f].todo = {}
  <2>1. docs' = ended /\ run' = [run EXCEPT ![f] = NoRun]
    BY <1>5 DEF Finish, ended
  <2>2. /\ run' \in [Flows -> RunRecord] /\ run'[f] = NoRun
        /\ \A g \in Flows \ {f} : run'[g] = run[g]
    BY <2>1, NoRunFacts, OneRun
  <2>3. CASE run[f].left
    <3>1. UNCHANGED <<tab, docs, busy, signedSnapshot>>
      BY <1>3, <1>5, <2>1, <2>3 DEF Finish, Sets
    <3> QED
      BY <2>2, <2>3, <3>1, LeftBatch
  <2>4. CASE ~run[f].left
    <3>1. ~busy'
      BY <1>5, <2>4 DEF Finish, Sets
    <3>2. ASSUME NEW g \in Flows PROVE ~OnPage(g)' /\ ~Works(g)'
      BY <1>4, <2>2, <2>4, <3>2, NoRunFacts DEF OneBatch, OnPage, Works, Working
    <3>3. \A g \in Flows : run'[g].at = "key" => run'[g].left
      BY <1>4, <2>2, <2>4, NoRunFacts DEF BatchInv, TabOk
    <3>4. BatchInv'
      BY <1>4, <2>4, <3>1, <3>2, <3>3 DEF BatchInv, TabOk, BatchOk
    <3>5. \A d \in signedSnapshot : docs'[d].status \in Decided
      BY <1>2, <1>4, <1>5, <2>1, <2>4 DEF Decided, PageType
    <3>6. Stays
      BY <1>2, <1>4, <2>1, <2>4 DEF Stays
    <3> QED
      BY <3>4, <3>5, <3>6 DEF BatchGood, Settles
  <2> QED
    BY <2>3, <2>4
<1>6. CASE run[f].todo # {}
  <2> DEFINE d == First(run[f].todo)
  <2>1. d \in Docs /\ d \in run[f].todo
    <3>1. run[f].todo \in SUBSET Docs /\ Docs \in SUBSET Nat
      BY <1>1, WorkspaceAssumption DEF RunRecord, Docs
    <3> QED
      BY <1>6, <3>1, FirstIn
  <2>2. docs' = Signing(f, ended, d) /\ Starts(f, run[f], d) /\ UNCHANGED <<busy, done>>
    BY <1>6 DEF Finish, ended
  <2> HIDE DEF d
  <2>3. /\ run' \in [Flows -> RunRecord] /\ run'[f].at = "prepare" /\ run'[f].doc = d
        /\ run'[f].left = run[f].left /\ run'[f].todo = run[f].todo \ {d}
        /\ \A g \in Flows \ {f} : run'[g] = run[g]
    <3>1. run'[f].todo = run[f].todo \ {d}
      BY <1>1, <2>2 DEF Starts, PageType, RunRecord
    <3> QED
      BY <1>1, <2>1, <2>2, <3>1, StartsRun
  <2>4. /\ docs' \in [Docs -> DocRecord] /\ \A e \in Docs \ {d} : docs'[e] = ended[e]
        /\ docs'[d] = IF run[f].left \/ ended[d].status = "absent" THEN ended[d]
                      ELSE [ended[d] EXCEPT !.status = "signing"]
    BY <1>2, <2>1, <2>2, SigningFacts DEF Signing, Patched
  <2>5. CASE run[f].left
    <3>1. docs' = docs
      BY <1>3, <2>2, <2>5 DEF Signing, Patched
    <3> QED
      BY <2>2, <2>3, <2>5, <3>1, LeftBatch DEF Working
  <2>6. CASE ~run[f].left
    <3>1. docs'[d].status \in {"signing", "absent"}
      BY <1>2, <2>1, <2>4, <2>6 DEF DocRecord
    <3>2. d # c /\ \A e \in Docs \ {d, c} : docs'[e] = docs[e]
      BY <1>2, <1>4, <2>1, <2>4, <2>6
    <3>3. docs'[c].status \in Decided
      BY <1>1, <1>2, <2>4, <2>6, <3>2 DEF Decided
    <3>4. Works(f)' /\ busy'
      BY <1>4, <2>2, <2>3, <2>6 DEF Works, Working
    <3>5. BatchOk(f)'
      <4>1. ASSUME NEW e \in run'[f].todo PROVE docs'[e].status # "signed"
        <5>1. e \in run[f].todo /\ e # d /\ e # c /\ e \in Docs
          BY <1>1, <1>4, <2>3, <2>6, <4>1 DEF RunRecord
        <5> QED
          BY <1>4, <2>6, <3>2, <5>1
      <4>2. ASSUME NEW e \in signedSnapshot
            PROVE  e \in run'[f].todo \/ e = d \/ docs'[e].status \in Decided
        <5>1. e \in Docs
          BY DEF PageType
        <5> QED
          BY <1>4, <2>3, <2>6, <3>2, <3>3, <5>1
      <4>3. run'[f].todo \cup {d} \subseteq signedSnapshot' /\ d \notin run'[f].todo
        BY <1>4, <2>1, <2>3, <2>6
      <4> QED
        BY <2>3, <3>1, <3>4, <4>1, <4>2, <4>3 DEF BatchOk
    <3>6. BatchInv'
      BY <1>4, <2>3, <2>6, <3>4, <3>5, OneWorks
    <3>7. Settles
      BY <1>4, <2>3, <2>6, <3>4, NoRunFacts DEF Settles
    <3>8. Stays
      <4>1. docs[d].status # "signed" /\ docs[c].status # "signed"
        BY <1>4, <2>1, <2>6
      <4> QED
        BY <3>2, <4>1 DEF Stays
    <3> QED
      BY <3>6, <3>7, <3>8 DEF BatchGood
  <2> QED
    BY <2>5, <2>6
<1> QED
  BY <1>5, <1>6

LEMMA FailedBatch ==
  ASSUME PageType, RunsOk, BatchInv, OneBatch, NEW f \in Flows, run[f].at \in Working,
         Failed(f), UNCHANGED <<tab, signedSnapshot>>
  PROVE  BatchGood
<1> DEFINE o == [docs[run[f].doc] EXCEPT !.status = "error"]
<1>1. docs[run[f].doc] \in DocRecord
  BY DEF PageType, RunsOk, RunOk
<1>2. o \in DocRecord /\ o.status = "error" /\ Finish(f, o)
  BY <1>1 DEF DocRecord, Failed
<1> HIDE DEF o
<1> QED
  BY <1>2, FinishBatch

(* The batch starts: its targets are those of the click, and are not       *)
(* signed, for no other batch was there to sign them.                      *)
LEMMA BatchUnlockedBatch ==
  ASSUME AllInv, BatchInv, OneBatch, NEW f \in Flows, BatchUnlocked(f), ensure[f] = "ready",
         given[f] # NoCard
  PROVE  BatchGood
<1> USE DEF AllInv, DeskInv
<1> DEFINE d == First(run[f].todo)
           r == [run[f] EXCEPT !.cert = given[f]]
<1>1. run[f] \in RunRecord /\ run[f].at = "unlock" /\ run[f].todo # {}
      /\ run[f].todo \in SUBSET Docs /\ given[f] \in Cards
  BY DEF BatchUnlocked, PageType, RunsOk, RunOk, RunRecord, CInv, ContextTypeOK
<1>2. d \in Docs /\ d \in run[f].todo
  <2>1. Docs \in SUBSET Nat
    BY WorkspaceAssumption DEF Docs
  <2> QED
    BY <1>1, <2>1, FirstIn
<1>3. r \in RunRecord /\ r.cert \in Cards /\ r.left = run[f].left /\ r.todo = run[f].todo
  BY <1>1 DEF RunRecord
<1>4. /\ docs' = Signing(f, docs, d) /\ Starts(f, r, d) /\ UNCHANGED tab
      /\ signedSnapshot' = Sets(f, signedSnapshot, run[f].todo)
      /\ busy' = Sets(f, busy, TRUE)
  BY DEF BatchUnlocked
<1> HIDE DEF d, r
<1>5. /\ run' \in [Flows -> RunRecord] /\ run'[f].at = "prepare" /\ run'[f].doc = d
      /\ run'[f].left = run[f].left /\ run'[f].todo = run[f].todo \ {d}
      /\ \A g \in Flows \ {f} : run'[g] = run[g]
  <2>1. run'[f].todo = r.todo \ {d}
    BY <1>3, <1>4 DEF Starts, PageType, RunRecord
  <2> QED
    BY <1>2, <1>3, <1>4, <2>1, StartsRun
<1>6. /\ docs' \in [Docs -> DocRecord] /\ \A e \in Docs \ {d} : docs'[e] = docs[e]
      /\ docs'[d] = IF run[f].left \/ docs[d].status = "absent" THEN docs[d]
                    ELSE [docs[d] EXCEPT !.status = "signing"]
  BY <1>2, <1>4, SigningFacts DEF Signing, Patched, PageType
<1>7. CASE run[f].left
  <2>1. docs' = docs /\ UNCHANGED <<tab, busy, signedSnapshot>>
    BY <1>4, <1>7 DEF Signing, Patched, Sets
  <2> QED
    BY <1>5, <1>7, <2>1, LeftBatch DEF Working
<1>8. CASE ~run[f].left
  <2>1. OnPage(f) /\ \A e \in run[f].todo : docs[e].status # "signed"
    BY <1>1, <1>8 DEF OnPage, BatchInv, BatchOk
  <2>2. docs'[d].status \in {"signing", "absent"}
    BY <1>2, <1>6, <1>8 DEF PageType, DocRecord
  <2>3. Works(f)' /\ busy' /\ signedSnapshot' = run[f].todo
    BY <1>4, <1>5, <1>8 DEF Works, Working, Sets
  <2>4. BatchOk(f)'
    <3>1. \A e \in run'[f].todo : e \in Docs \ {d} /\ docs'[e].status # "signed"
      BY <1>1, <1>5, <1>6, <2>1
    <3> QED
      BY <1>2, <1>5, <2>2, <2>3, <3>1 DEF BatchOk
  <2>5. BatchInv'
    BY <1>4, <1>5, <2>1, <2>3, <2>4, OneWorks
  <2>6. Settles
    BY <1>1, <1>5, <1>8, NoRunFacts DEF Settles
  <2>7. Stays
    BY <1>2, <1>6, <2>1 DEF Stays
  <2> QED
    BY <2>5, <2>6, <2>7 DEF BatchGood
<1> QED
  BY <1>7, <1>8

LEMMA RetryUnlockedBatch ==
  ASSUME AllInv, BatchInv, OneBatch, NEW f \in Flows, RetryUnlocked(f)
  PROVE  BatchGood
<1> USE DEF AllInv, DeskInv
<1> DEFINE d == run[f].doc
<1>1. /\ run[f].at = "relock" /\ run[f].at \in Working /\ run[f] \in RunRecord
      /\ d \in Docs /\ UNCHANGED <<tab, signedSnapshot>>
  BY DEF RetryUnlocked, Working, PageType, RunsOk, RunOk
<1>2. CASE ensure[f] # "ready"
  BY <1>1, <1>2, FailedBatch DEF RetryUnlocked
<1>3. CASE ensure[f] = "ready"
  <2>1. /\ docs' = Signing(f, docs, d) /\ UNCHANGED <<tab, busy, done, signedSnapshot>>
        /\ run' = [run EXCEPT ![f] = [run[f] EXCEPT !.at = "prepare", !.retried = TRUE]]
    BY <1>3 DEF RetryUnlocked
  <2>2. /\ run' \in [Flows -> RunRecord] /\ run'[f].at = "prepare" /\ run'[f].doc = d
        /\ run'[f].left = run[f].left /\ run'[f].todo = run[f].todo
        /\ \A g \in Flows \ {f} : run'[g] = run[g]
    BY <1>1, <2>1 DEF PageType, RunRecord
  <2>3. /\ docs' \in [Docs -> DocRecord] /\ \A e \in Docs \ {d} : docs'[e] = docs[e]
        /\ docs'[d] = IF run[f].left \/ docs[d].status = "absent" THEN docs[d]
                      ELSE [docs[d] EXCEPT !.status = "signing"]
    BY <1>1, <2>1, SigningFacts DEF Signing, Patched, PageType
  <2>4. CASE run[f].left
    <3>1. docs' = docs
      BY <2>1, <2>4 DEF Signing, Patched
    <3> QED
      BY <2>1, <2>2, <2>4, <3>1, LeftBatch DEF Working
  <2>5. CASE ~run[f].left
    <3>1. OnPage(f) /\ Works(f)
      BY <1>1, <2>5 DEF OnPage, Works
    <3>2. Works(f)' /\ busy'
      BY <2>1, <2>2, <2>5, <3>1 DEF Works, Working, BatchInv, BatchOk
    <3>3. docs'[d].status \in {"signing", "absent"} /\ docs[d].status # "signed"
      BY <1>1, <2>3, <3>1 DEF BatchInv, BatchOk, PageType, DocRecord
    <3>4. BatchOk(f)'
      <4>1. \A e \in Docs : e # d => docs'[e].status = docs[e].status
        BY <2>3
      <4>2. run[f].todo \subseteq Docs /\ signedSnapshot \subseteq Docs /\ d \notin run[f].todo
        BY <1>1, <3>1 DEF PageType, RunRecord, BatchInv, BatchOk
      <4>3. \A e \in signedSnapshot : e \in run[f].todo \/ e = d \/ docs[e].status \in Decided
        BY <3>1 DEF BatchInv, BatchOk
      <4>4. \A e \in run[f].todo : docs[e].status # "signed"
        BY <3>1 DEF BatchInv, BatchOk
      <4>5. run[f].todo \cup {d} \subseteq signedSnapshot
        BY <3>1 DEF BatchInv, BatchOk
      <4>6. signedSnapshot' = signedSnapshot
        BY <2>1
      <4> QED
        BY <2>2, <3>2, <3>3, <4>1, <4>2, <4>3, <4>4, <4>5, <4>6 DEF BatchOk
    <3>5. BatchInv'
      BY <2>1, <2>2, <3>1, <3>2, <3>4, OneWorks
    <3>6. Settles /\ Stays
      BY <2>2, <2>3, <3>3, NoRunFacts DEF Settles, Stays
    <3> QED
      BY <3>5, <3>6 DEF BatchGood
  <2> QED
    BY <2>4, <2>5
<1> QED
  BY <1>2, <1>3

LEMMA ContinueBatch ==
  ASSUME AllInv, BatchInv, OneBatch, NEW f \in Flows, Continue(f)
  PROVE  BatchGood
<1> USE DEF AllInv, DeskInv
<1>1. CASE KeyUnlocked(f)
  <2>1. /\ run[f].at = "key" /\ run' = [run EXCEPT ![f] = NoRun]
        /\ UNCHANGED <<tab, docs, busy, done, signedSnapshot>>
    BY <1>1 DEF KeyUnlocked
  <2>2. busy => run[f].left
    BY <2>1 DEF PageType, BatchInv, TabOk
  <2>3. ~Works(f)
    BY <2>1 DEF Works, Working
  <2> QED
    BY <2>1, <2>2, <2>3, NoRunFacts, RunBatch DEF Working
<1>2. CASE BatchUnlocked(f) /\ ~(ensure[f] = "ready" /\ given[f] # NoCard)
  <2>1. /\ run[f].at = "unlock" /\ run' = [run EXCEPT ![f] = NoRun]
        /\ UNCHANGED <<tab, docs, busy, done, signedSnapshot>>
    BY <1>2 DEF BatchUnlocked
  <2>2. busy => run[f].left
    <3> SUFFICES ASSUME busy, ~run[f].left PROVE FALSE
      OBVIOUS
    <3>1. PICK g \in Flows : Works(g)
      BY DEF BatchInv, TabOk
    <3>2. g = f
      BY <2>1, <3>1 DEF OneBatch, OnPage, Works
    <3> QED
      BY <2>1, <3>1, <3>2 DEF Works, Working
  <2>3. ~Works(f)
    BY <2>1 DEF Works, Working
  <2> QED
    BY <2>1, <2>2, <2>3, NoRunFacts, RunBatch DEF Working
<1> QED
  BY <1>1, <1>2, BatchUnlockedBatch, RetryUnlockedBatch DEF Continue

LEMMA UserBatch ==
  ASSUME AllInv, BatchInv, OneBatch, User
  PROVE  BatchGood
<1> USE DEF AllInv, DeskInv
<1>1. ASSUME NEW f \in Flows, SignAll(f) PROVE BatchGood
  <2> DEFINE r == [NoRun EXCEPT !.at = "unlock", !.todo = Pending]
  <2>1. tab = "sign" /\ ~busy /\ run[f] = NoRun /\ run' = [run EXCEPT ![f] = r]
        /\ UNCHANGED <<tab, docs, busy, done, signedSnapshot>>
    BY <1>1 DEF SignAll, Buttons, MainView, SuccessView, DocumentsPanel, CanSign
  <2>2. Pending \in SUBSET Docs /\ \A d \in Pending : docs[d].status # "signed"
    BY DEF Pending, Listed
  <2>3. r \in RunRecord /\ r.at = "unlock" /\ r.todo = Pending
    BY <2>2, NoRunFacts DEF RunRecord
  <2> HIDE DEF r
  <2> QED
    BY <2>1, <2>2, <2>3, RunBatch DEF Working
<1>2. ASSUME NEW f \in Flows, KeyUnlock(f) PROVE BatchGood
  <2> DEFINE r == [NoRun EXCEPT !.at = "key"]
  <2>1. tab = "cle" /\ run[f] = NoRun /\ run' = [run EXCEPT ![f] = r]
        /\ UNCHANGED <<tab, docs, busy, done, signedSnapshot>>
    BY <1>2 DEF KeyUnlock
  <2>2. r \in RunRecord /\ r.at = "key" /\ ~busy
    BY <2>1, NoRunFacts DEF RunRecord, BatchInv, TabOk
  <2> HIDE DEF r
  <2> QED
    BY <2>1, <2>2, RunBatch DEF Working
<1>3. ASSUME NEW d \in Docs, AddFile(d) PROVE BatchGood
  <2>1. /\ d \notin signedSnapshot /\ docs[d].status = "absent"
        /\ \A f \in Flows : run[f].left \/ (run[f].doc # d /\ d \notin run[f].todo)
        /\ UNCHANGED <<tab, busy, done, signedSnapshot, run>>
    BY <1>3 DEF AddFile
  <2>2. tab # "cle"
    BY <1>3 DEF AddFile, Buttons
  <2>3. /\ \A e \in Docs \ {d} : docs'[e] = docs[e]
        /\ docs'[d].status = "pending"
    BY <1>3 DEF AddFile, PageType, Absent
  <2>4. ASSUME NEW f \in Flows PROVE BatchOk(f)'
    <3>1. CASE run[f].left
      BY <2>1, <3>1 DEF BatchOk, OnPage, Works
    <3>2. CASE ~run[f].left
      <4>1. run[f].todo \subseteq Docs \ {d} /\ signedSnapshot \subseteq Docs \ {d}
        BY <2>1, <3>2 DEF PageType, RunRecord
      <4>2. Works(f) => run[f].doc \in Docs \ {d}
        BY <2>1, <3>2 DEF Works, RunsOk, RunOk
      <4> QED
        BY <2>1, <2>3, <4>1, <4>2 DEF BatchInv, BatchOk, OnPage, Works
    <3> QED
      BY <3>1, <3>2
  <2>5. TabOk'
    BY <2>1, <2>2 DEF BatchInv, TabOk, OnPage, Works
  <2>6. Settles /\ Stays
    BY <2>1, <2>3 DEF Settles, Stays
  <2> QED
    BY <2>4, <2>5, <2>6 DEF BatchGood, BatchInv
<1>4. ASSUME NEW d \in Docs, Remove(d) PROVE BatchGood
  <2>1. tab # "cle" /\ ~busy /\ UNCHANGED <<tab, busy, done, signedSnapshot, run>>
    BY <1>4 DEF Remove, Buttons, MainView, SuccessView, DocumentsPanel
  <2>2. \A e \in Docs : docs'[e] = docs[e] \/ docs'[e].status = "absent"
    BY <1>4, NoRunFacts DEF Remove, PageType
  <2>3. ASSUME NEW f \in Flows PROVE BatchOk(f)'
    <3>1. ~Works(f) /\ run[f].todo \subseteq Docs
      BY <2>1 DEF BatchInv, BatchOk, PageType, RunRecord
    <3> QED
      BY <2>1, <2>2, <3>1 DEF BatchInv, BatchOk, OnPage, Works
  <2>4. TabOk'
    BY <2>1 DEF BatchInv, TabOk, OnPage, Works
  <2>5. Settles /\ Stays
    BY <2>1, <2>2 DEF Settles, Stays
  <2> QED
    BY <2>3, <2>4, <2>5 DEF BatchGood, BatchInv
<1>5. CASE Reset
  <2>1. /\ tab # "cle" /\ AllTargetedSigned /\ UNCHANGED <<tab, busy, run>>
        /\ signedSnapshot' = {} /\ docs' = [d \in Docs |-> Absent]
    BY <1>5 DEF Reset, Buttons, MainView, DocumentsPanel
  <2>2. \A d \in Docs : docs'[d].status = "absent"
    BY <2>1, NoRunFacts
  <2>3. ASSUME NEW f \in Flows PROVE ~Works(f) /\ BatchOk(f)'
    <3>1. ~Works(f)
      BY <2>1 DEF AllTargetedSigned, BatchInv, BatchOk
    <3>2. run[f].todo \subseteq Docs
      BY DEF PageType, RunRecord
    <3> QED
      BY <2>1, <2>2, <3>1, <3>2 DEF BatchOk, OnPage, Works
  <2>4. TabOk'
    BY <2>1, <2>3 DEF BatchInv, TabOk, OnPage, Works
  <2>5. Settles /\ Stays
    BY <2>1, <2>2 DEF Settles, Stays
  <2> QED
    BY <2>3, <2>4, <2>5 DEF BatchGood, BatchInv
<1>6. ASSUME NEW t \in {"sign", "cle"}, SetTab(t) PROVE BatchGood
  <2>1. /\ tab' = t /\ busy' = FALSE /\ signedSnapshot' = {}
        /\ docs' = [d \in Docs |-> Absent]
        /\ run' = [f \in Flows |-> IF run[f] = NoRun THEN NoRun ELSE [run[f] EXCEPT !.left = TRUE]]
    BY <1>6 DEF SetTab
  <2>2. ASSUME NEW f \in Flows
        PROVE  /\ (run'[f] = NoRun /\ run[f] = NoRun) \/ (run'[f].left /\ run'[f] # NoRun)
               /\ ~OnPage(f)' /\ ~Works(f)' /\ (run'[f].at = "key" => run'[f].left)
    <3>1. run'[f] = IF run[f] = NoRun THEN NoRun ELSE [run[f] EXCEPT !.left = TRUE]
      BY <2>1
    <3>2. [run[f] EXCEPT !.left = TRUE].left = TRUE
      BY DEF PageType, RunRecord
    <3> QED
      BY <3>1, <3>2, NoRunFacts DEF OnPage, Works, Working
  <2>3. \A d \in Docs : docs'[d].status = "absent"
    BY <2>1, NoRunFacts
  <2>4. BatchInv'
    BY <2>1, <2>2, <2>3 DEF BatchInv, TabOk, BatchOk
  <2>5. Settles /\ Stays
    BY <2>2, <2>3 DEF Settles, Stays
  <2> QED
    BY <2>4, <2>5 DEF BatchGood
<1>7. CASE KeyLock
  BY <1>7, BatchSame DEF KeyLock
<1> QED
  BY <1>1, <1>2, <1>3, <1>4, <1>5, <1>6, <1>7 DEF User

LEMMA ProgressBatch ==
  ASSUME AllInv, BatchInv, OneBatch, NEW f \in Flows, Progress(f)
  PROVE  BatchGood
<1> USE DEF AllInv, DeskInv
<1>1. run[f] \in RunRecord /\ run \in [Flows -> RunRecord] /\ RunOk(run[f])
  BY DEF PageType, RunsOk
<1>2. ASSUME NEW ok \in BOOLEAN, Prepared(f, ok) \/ Assembled(f, ok) PROVE BatchGood
  <2>1. run[f].at \in Working /\ UNCHANGED <<tab, signedSnapshot>>
    BY <1>2 DEF Prepared, Assembled, Working
  <2>2. CASE Failed(f)
    BY <2>1, <2>2, FailedBatch
  <2>3. CASE Signed(f)
    <3> DEFINE o == [status |-> "signed", cert |-> run[f].cert, by |-> run[f].by]
    <3>1. o \in DocRecord /\ o.status = "signed" /\ Finish(f, o)
      BY <1>1, <2>3 DEF DocRecord, RunRecord, Signed
    <3> HIDE DEF o
    <3> QED
      BY <2>1, <3>1, FinishBatch
  <2>4. CASE run' = [run EXCEPT ![f] = [run[f] EXCEPT !.at = "sign"]]
             /\ UNCHANGED <<docs, busy, done>>
    <3> DEFINE r == [run[f] EXCEPT !.at = "sign"]
    <3>1. /\ r \in RunRecord /\ r.at = "sign" /\ r.left = run[f].left
          /\ r.doc = run[f].doc /\ r.todo = run[f].todo
      BY <1>1 DEF RunRecord
    <3> HIDE DEF r
    <3>2. run' = [run EXCEPT ![f] = r]
      BY <2>4 DEF r
    <3> QED
      BY <2>1, <2>4, <3>1, <3>2, NoRunFacts, RunBatch DEF Working
  <2> QED
    BY <1>2, <2>2, <2>3, <2>4 DEF Prepared, Assembled
<1>3. ASSUME NEW r \in RunRecord, run' = [run EXCEPT ![f] = r], run[f].at = "sign",
             r.at \in {"assemble", "relock"}, r.left = run[f].left, r.doc = run[f].doc,
             r.todo = run[f].todo, UNCHANGED <<tab, docs, busy, done, signedSnapshot>>
      PROVE  BatchGood
  BY <1>3, NoRunFacts, RunBatch DEF Working
<1>4. CASE SignAnswered(f)
  <2>1. reply[f].card \in Cards
    BY <1>4, ClientFacts DEF SignAnswered, Answered, SInv, ReplyCard
  <2>2. PICK m \in 0..2 : m = run[f].made + 1
    BY <1>1, <1>4 DEF SignAnswered, RunOk
  <2> DEFINE r == [run[f] EXCEPT !.at = "assemble", !.by = reply[f].card, !.made = m]
  <2>3. r \in RunRecord /\ r.at = "assemble" /\ r.left = run[f].left /\ r.doc = run[f].doc
        /\ r.todo = run[f].todo
    BY <1>1, <2>1 DEF RunRecord
  <2>4. run' = [run EXCEPT ![f] = r]
    BY <1>1, <1>4, <2>2 DEF SignAnswered
  <2> HIDE DEF r
  <2> QED
    BY <1>3, <1>4, <2>3, <2>4 DEF SignAnswered
<1>5. CASE SignFailed(f) /\ ~Failed(f)
  <2> DEFINE r == [run[f] EXCEPT !.at = "relock"]
  <2>1. r \in RunRecord /\ r.at = "relock" /\ r.left = run[f].left /\ r.doc = run[f].doc
        /\ r.todo = run[f].todo
    BY <1>1 DEF RunRecord
  <2>2. run' = [run EXCEPT ![f] = r] /\ run[f].at = "sign"
        /\ UNCHANGED <<tab, docs, busy, done, signedSnapshot>>
    BY <1>5 DEF SignFailed
  <2> HIDE DEF r
  <2> QED
    BY <1>3, <2>1, <2>2
<1>6. CASE SignFailed(f) /\ Failed(f)
  <2>1. run[f].at \in Working /\ UNCHANGED <<tab, signedSnapshot>>
    BY <1>6 DEF SignFailed, Working
  <2> QED
    BY <1>6, <2>1, FailedBatch
<1> QED
  BY <1>2, <1>4, <1>5, <1>6 DEF Progress

LEMMA StepBatch == AllInv /\ BatchInv /\ OneBatch /\ [WorkspaceNext]_desk => BatchGood
<1> SUFFICES ASSUME AllInv, BatchInv, OneBatch, [WorkspaceNext]_desk PROVE BatchGood
  OBVIOUS
<1>1. ASSUME UNCHANGED workspace PROVE BatchGood
  BY <1>1, BatchSame
<1> QED
  BY <1>1, ContinueBatch, UserBatch, ProgressBatch DEF WorkspaceNext, RunSign, CardAnswers, desk

LEMMA AlwaysBatchInv == WorkspaceSpec /\ []OneBatch => [](BatchInv /\ AllInv)
<1>1. WorkspaceInit => BatchInv
  <2> SUFFICES ASSUME WorkspaceInit PROVE BatchInv
    OBVIOUS
  <2>1. tab = "sign" /\ ~busy /\ \A f \in Flows : run[f].at = "idle"
    BY NoRunFacts DEF WorkspaceInit
  <2>2. \A f \in Flows : ~OnPage(f) /\ ~Works(f)
    BY <2>1 DEF OnPage, Works, Working
  <2> QED
    BY <2>1, <2>2 DEF BatchInv, TabOk, BatchOk
<1>2. AllInv /\ BatchInv /\ OneBatch /\ [WorkspaceNext]_desk => BatchInv'
  BY StepBatch DEF BatchGood
<1> QED
  BY <1>1, <1>2, AlwaysAllInv, PTL DEF WorkspaceSpec

(* When a batch ends, every target still listed is signed or in error      *)
(* (SignWorkspace.tsx:206-209).                                            *)
THEOREM BatchesSettle == WorkspaceSpec /\ []OneBatch => BatchSettles
<1>1. AllInv /\ BatchInv /\ OneBatch /\ [WorkspaceNext]_desk => [Settles]_desk
  BY StepBatch DEF BatchGood
<1>2. [Settles]_desk =>
        [\A f \in Flows : busy /\ run[f] # NoRun /\ ~run[f].left /\ run'[f] = NoRun =>
           \A d \in signedSnapshot : docs'[d].status \in {"signed", "error", "absent"}]_desk
  BY DEF Settles, Decided
<1> QED
  BY <1>1, <1>2, AlwaysBatchInv, PTL DEF WorkspaceSpec, BatchSettles

(* A document that is signed stays so while it is listed                   *)
(* (SignWorkspace.tsx:206-208,217-218).                                    *)
THEOREM SignedStaySigned == WorkspaceSpec /\ []OneBatch => SignedStays
<1>1. AllInv /\ BatchInv /\ OneBatch /\ [WorkspaceNext]_desk => [Stays]_desk
  BY StepBatch DEF BatchGood
<1>2. [Stays]_desk =>
        [\A d \in Docs :
           docs[d].status = "signed" => docs'[d].status \in {"signed", "absent"}]_desk
  BY DEF Stays
<1> QED
  BY <1>1, <1>2, AlwaysBatchInv, PTL DEF WorkspaceSpec, SignedStays

=============================================================================
