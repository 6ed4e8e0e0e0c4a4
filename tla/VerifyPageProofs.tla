-------------------------- MODULE VerifyPageProofs --------------------------
(***************************************************************************)
(* Proofs about VerifyPage, for any files, bounds and reports.  What the   *)
(* page shows depends on the run in progress, so the inductive invariant   *)
(* says of that run what the properties say of the page: it works on the   *)
(* files that are on the screen, for the question the page has asked.      *)
(***************************************************************************)
EXTENDS VerifyPage, SequenceTheorems, TLAPS

(* The four overall verdicts agree on every report with a signature, of    *)
(* whatever length.                                                        *)

(* A report either fails somewhere, or passes everywhere, or neither; the  *)
(* computations all split it so.                                           *)
LEMMA PassingNeverFails ==
  ASSUME NEW inds \in Seq(Indications), inds # << >>, Every(inds, "TOTAL_PASSED")
  PROVE  ~Some(inds, "TOTAL_FAILED")
  BY DEF Every, Some

(* The server, the page and the overlay give the same verdict on a         *)
(* document with at least one signature, and the site that asked accepts   *)
(* exactly what they accept (DocumentValidationService.java:111,           *)
(* ValidatePage.tsx:105, DeepLinkVerifyModal.tsx:80,                       *)
(* deeplink-test.mjs:231).                                                 *)
THEOREM VerdictAgreement ==
  ASSUME NEW inds \in Seq(Indications), inds # << >>
  PROVE  Agree(inds)
<1>1. CASE Some(inds, "TOTAL_FAILED")
  <2>1. OverallIndication(inds) = "TOTAL_FAILED"
    BY <1>1 DEF OverallIndication
  <2>2. OverallVariant(inds) = "danger"
    BY <1>1 DEF OverallVariant, Some, Every
  <2>3. OverallVerdict(inds) = "danger"
    BY <1>1 DEF OverallVerdict
  <2>4. ~VerifyCallback(inds)
    BY <1>1 DEF VerifyCallback, Some, Every
  <2> QED
    BY <2>1, <2>2, <2>3, <2>4 DEF Agree
<1>2. CASE Every(inds, "TOTAL_PASSED")
  <2>0. ~Some(inds, "TOTAL_FAILED")
    BY <1>2, PassingNeverFails
  <2>1. OverallIndication(inds) = "TOTAL_PASSED"
    BY <1>2, <2>0 DEF OverallIndication
  <2>2. OverallVariant(inds) = "ok"
    BY <1>2, <2>0 DEF OverallVariant, Some, Every
  <2>3. OverallVerdict(inds) = "ok"
    BY <1>2, <2>0 DEF OverallVerdict
  <2>4. VerifyCallback(inds)
    BY <1>2 DEF VerifyCallback
  <2> QED
    BY <2>1, <2>2, <2>3, <2>4 DEF Agree
<1>3. CASE ~Some(inds, "TOTAL_FAILED") /\ ~Every(inds, "TOTAL_PASSED")
  <2>1. OverallIndication(inds) = "INDETERMINATE"
    BY <1>3 DEF OverallIndication
  <2>2. OverallVariant(inds) = "warn"
    BY <1>3 DEF OverallVariant, Some, Every
  <2>3. OverallVerdict(inds) = "warn"
    BY <1>3 DEF OverallVerdict
  <2>4. ~VerifyCallback(inds)
    BY <1>3 DEF VerifyCallback
  <2> QED
    BY <2>1, <2>2, <2>3, <2>4 DEF Agree
<1> QED
  BY <1>1, <1>2, <1>3
-----------------------------------------------------------------------------
RunRecord == [at: {"idle", "read", "validate"}, file: Files \cup {NoFile},
              second: Files \cup {NoFile}, need: {"none", "source", "signature"}]
Entries == [name: Files \cup {NoFile}, verdict: Indications]

Current == flight[mount][runId[mount]]

(* The type invariant, with the domains that updates of flight rely on.    *)
Typed ==
  /\ PageTypeOK
  /\ flight \in [Mounts -> [Runs -> RunRecord]]
  /\ history \in Seq(Entries)

(* A run id is used once: no run is ahead of its page, nor of its mount.   *)
NoneAhead ==
  \A m \in Mounts, i \in Runs :
    flight[m][i].at # "idle" => m <= mount /\ i <= runId[m]

(* The run that will set the page's state is the page's own.               *)
CurrentIsOwn ==
  busy => /\ file # NoFile /\ result = NoResult
          /\ Current.file = file
          /\ Current.second = secondFile
          /\ Current.need = need
          /\ secondFile = NoFile <=> need = "none"

(* What is asked for follows from the file, and comes before the second.   *)
NeedFits ==
  /\ need = "source" => file \in Detached
  /\ need = "signature" => file \in Plain \ Empty
  /\ need = "none" => secondFile = NoFile

PInv ==
  /\ Typed
  /\ NoneAhead
  /\ BusyHasRun
  /\ CurrentIsOwn
  /\ NeedFits
  /\ ResultIsOwn
-----------------------------------------------------------------------------
(* What an update of one run does to flight.                               *)
LEMMA FlightUpdate ==
  ASSUME Typed, NEW m \in Mounts, NEW i \in Runs, NEW r \in RunRecord,
         flight' = [flight EXCEPT ![m][i] = r]
  PROVE  /\ flight' \in [Mounts -> [Runs -> RunRecord]]
         /\ flight'[m][i] = r
         /\ \A n \in Mounts, j \in Runs :
              n # m \/ j # i => flight'[n][j] = flight[n][j]
  BY DEF Typed

(* The ends of a run and the constants are well typed.                     *)
LEMMA Records ==
  /\ NoRun \in RunRecord
  /\ NoRun.at = "idle"
  /\ NoFile \notin Files
  /\ Mounts \subseteq Int /\ Runs \subseteq Int /\ 0 \in Runs /\ 1 \in Mounts
  BY PageAssumption DEF NoRun, RunRecord, Mounts, Runs

(* A run id of the mounted page is one of its runs'.                       *)
LEMMA CurrentRun ==
  ASSUME Typed
  PROVE  /\ mount \in Mounts
         /\ \A m \in Mounts : runId[m] \in Runs
         /\ \A m \in Mounts, i \in Runs : flight[m][i] \in RunRecord
  BY DEF Typed, PageTypeOK
-----------------------------------------------------------------------------
LEMMA InitPInv == Init => PInv
<1> SUFFICES ASSUME Init PROVE PInv
  OBVIOUS
<1>1. Typed
  <2>1. flight \in [Mounts -> [Runs -> RunRecord]]
    BY Records DEF Init
  <2>2. \A m \in Mounts, i \in Runs : flight[m][i] \in RunRecord
    BY <2>1
  <2>3. history \in Seq(Entries) /\ Len(history) <= MAX
    BY PageAssumption DEF Init
  <2>4. runId \in [Mounts -> Runs]
    BY Records DEF Init
  <2> QED
    BY <2>1, <2>2, <2>3, <2>4, Records DEF Init, Typed, PageTypeOK, RunRecord
<1>2. \A m \in Mounts, i \in Runs : flight[m][i].at = "idle"
  BY Records DEF Init
<1>3. NoneAhead /\ BusyHasRun /\ CurrentIsOwn
  BY <1>1, <1>2, CurrentRun DEF Init, NoneAhead, BusyHasRun, CurrentIsOwn
<1>4. NeedFits /\ ResultIsOwn
  BY DEF Init, NeedFits, ResultIsOwn
<1> QED
  BY <1>1, <1>3, <1>4 DEF PInv
-----------------------------------------------------------------------------
(* A fresh run id: nothing has run under it yet.                           *)
LEMMA FreshRun ==
  ASSUME Typed, NoneAhead, NewRunId
  PROVE  /\ runId' \in [Mounts -> Runs]
         /\ runId'[mount] = runId[mount] + 1
         /\ \A m \in Mounts : runId[m] <= runId'[m]
         /\ flight[mount][runId'[mount]].at = "idle"
<1>1. mount \in Mounts /\ runId \in [Mounts -> Runs] /\ MaxRuns \in Nat
  BY PageAssumption DEF Typed, PageTypeOK
<1>2. runId'[mount] = runId[mount] + 1 /\ runId[mount] + 1 \in Runs
  BY <1>1 DEF NewRunId, Runs
<1>3. \A m \in Mounts : runId[m] \in Int
  BY <1>1 DEF Runs
<1>4. runId' \in [Mounts -> Runs] /\ \A m \in Mounts : runId[m] <= runId'[m]
  BY <1>1, <1>2, <1>3 DEF NewRunId
<1>5. flight[mount][runId'[mount]].at = "idle"
  BY <1>1, <1>2, <1>3 DEF NoneAhead
<1> QED
  BY <1>2, <1>4, <1>5

(* The page is emptied, or its second file taken away: no run is its own.  *)
LEMMA PutAside ==
  ASSUME PInv, (\E f \in Files : PickFile(f)) \/ ClearAll \/ RemoveSecond
  PROVE  PInv'
<1> USE DEF PInv
<1>1. NewRunId /\ ~busy' /\ secondFile' = NoFile /\ mount' = mount
      /\ flight' = flight /\ history' = history
  BY DEF PickFile, ClearAll, RemoveSecond
<1>2. /\ file' \in Files \cup {NoFile}
      /\ need' \in {"none", "source", "signature"}
      /\ result' = NoResult
      /\ error' \in {"none", "failed", "wrongSecondFile"}
      /\ need' # "none" => need' = need /\ file' = file
  BY DEF PickFile, ClearAll, RemoveSecond, PrimaryRow, SecondRow, Typed, PageTypeOK
<1>3. Typed'
  <2>1. mount' \in Mounts /\ runId' \in [Mounts -> Runs] /\ busy' \in BOOLEAN
        /\ secondFile' \in Files \cup {NoFile}
    BY <1>1, FreshRun DEF PickFile, ClearAll, RemoveSecond, Typed, PageTypeOK
  <2> QED
    BY <1>1, <1>2, <2>1 DEF Typed, PageTypeOK
<1>4. NoneAhead'
  <2> SUFFICES ASSUME NEW m \in Mounts, NEW i \in Runs, flight[m][i].at # "idle"
               PROVE  m <= mount /\ i <= runId'[m]
    BY <1>1 DEF NoneAhead
  <2>1. m <= mount /\ i <= runId[m]
    BY DEF NoneAhead
  <2>2. runId[m] <= runId'[m] /\ runId[m] \in Int /\ runId'[m] \in Int /\ i \in Int
    BY <1>1, FreshRun, CurrentRun, Records
  <2> QED
    BY <2>1, <2>2
<1>5. BusyHasRun' /\ CurrentIsOwn'
  BY <1>1, FreshRun DEF BusyHasRun, CurrentIsOwn, Current
<1>6. NeedFits'
  BY <1>1, <1>2 DEF NeedFits
<1>7. ResultIsOwn'
  BY <1>2 DEF ResultIsOwn
<1> QED
  BY <1>3, <1>4, <1>5, <1>6, <1>7

(* A pass begins, on the files of the page.                                *)
LEMMA PassBegins ==
  ASSUME PInv, VerifyPrimary \/ \E f \in Files : PickSecondFile(f)
  PROVE  PInv'
<1> USE DEF PInv
<1>1. PICK r \in RunRecord :
        /\ Start(r)
        /\ r.at = "read" /\ r.file = file /\ r.second = secondFile'
        /\ r.need = need
        /\ secondFile' = NoFile <=> need = "none"
  <2>1. CASE VerifyPrimary
    <3> DEFINE r == [NoRun EXCEPT !.at = "read", !.file = file]
    <3>1. r \in RunRecord /\ r.at = "read" /\ r.file = file /\ r.second = NoFile
          /\ r.need = "none"
      BY <2>1, Records DEF RunRecord, NoRun, Typed, PageTypeOK
    <3>2. need = "none" /\ secondFile' = NoFile /\ Start(r)
      BY <2>1 DEF VerifyPrimary, PrimaryRow, NeedFits
    <3> QED
      BY <3>1, <3>2
  <2>2. CASE \E f \in Files : PickSecondFile(f)
    <3>1. PICK f \in Files : PickSecondFile(f)
      BY <2>2
    <3> DEFINE r == [at |-> "read", file |-> file, second |-> f, need |-> need]
    <3>2. r \in RunRecord
      BY DEF RunRecord, Typed, PageTypeOK
    <3>3. secondFile' = f /\ need # "none" /\ Start(r) /\ f # NoFile
      BY <3>1, Records DEF PickSecondFile, SecondRow
    <3> QED
      BY <3>2, <3>3
  <2> QED
    BY <2>1, <2>2
<1>2. /\ NewRunId /\ busy' = TRUE /\ error' = "none" /\ mount' = mount
      /\ file' = file /\ need' = need /\ result' = result /\ history' = history
      /\ file # NoFile /\ result = NoResult
      /\ secondFile' \in Files \cup {NoFile}
  BY DEF VerifyPrimary, PickSecondFile, PrimaryRow, SecondRow, Typed, PageTypeOK
<1>3. mount \in Mounts /\ runId'[mount] \in Runs
  BY <1>2, FreshRun, CurrentRun
<1>4. flight' = [flight EXCEPT ![mount][runId'[mount]] = r]
  BY <1>1 DEF Start
<1>5. /\ flight' \in [Mounts -> [Runs -> RunRecord]]
      /\ flight'[mount][runId'[mount]] = r
      /\ \A n \in Mounts, j \in Runs :
           n # mount \/ j # runId'[mount] => flight'[n][j] = flight[n][j]
  BY <1>3, <1>4, FlightUpdate
<1>6. \A n \in Mounts, j \in Runs : flight'[n][j] \in RunRecord
  BY <1>5
<1>7. Typed'
  BY <1>2, <1>5, <1>6, FreshRun DEF Typed, PageTypeOK, RunRecord
<1>8. NoneAhead'
  <2> SUFFICES ASSUME NEW m \in Mounts, NEW i \in Runs, flight'[m][i].at # "idle"
               PROVE  m <= mount /\ i <= runId'[m]
    BY <1>2 DEF NoneAhead
  <2>1. runId[m] <= runId'[m] /\ runId[m] \in Int /\ runId'[m] \in Int
        /\ i \in Int /\ mount \in Int
    BY <1>2, <1>3, FreshRun, CurrentRun, Records
  <2> QED
    BY <1>5, <2>1 DEF NoneAhead
<1>9. BusyHasRun' /\ CurrentIsOwn'
  BY <1>1, <1>2, <1>5 DEF BusyHasRun, CurrentIsOwn, Current
<1>10. NeedFits' /\ ResultIsOwn'
  BY <1>1, <1>2 DEF NeedFits, ResultIsOwn
<1> QED
  BY <1>7, <1>8, <1>9, <1>10

(* The next mount of the page is as good as new.                           *)
LEMMA Remounts == PInv /\ Leave => PInv'
<1> SUFFICES ASSUME PInv, Leave PROVE PInv'
  OBVIOUS
<1> USE DEF PInv
<1>1. mount' = mount + 1 /\ mount' \in Mounts /\ mount \in Mounts
      /\ mount \in Int /\ mount' \in Int
  BY PageAssumption DEF Leave, Mounts, Typed, PageTypeOK
<1>2. flight' = flight /\ runId' = runId /\ history' = history /\ ~busy'
      /\ result' = NoResult /\ file' = NoFile /\ secondFile' = NoFile
      /\ need' = "none" /\ error' = "none"
  BY DEF Leave
<1>3. Typed'
  <2>1. busy' \in BOOLEAN /\ runId' \in [Mounts -> Runs]
    BY <1>2 DEF Leave, Typed, PageTypeOK
  <2> QED
    BY <1>1, <1>2, <2>1 DEF Typed, PageTypeOK
<1>4. NoneAhead'
  <2> SUFFICES ASSUME NEW m \in Mounts, NEW i \in Runs, flight[m][i].at # "idle"
               PROVE  m <= mount' /\ i <= runId[m]
    BY <1>2 DEF NoneAhead
  <2>1. m <= mount /\ i <= runId[m] /\ m \in Int
    BY Records DEF NoneAhead
  <2> QED
    BY <1>1, <2>1
<1>5. BusyHasRun'
  <2>1. runId[mount'] \in Runs /\ ~(mount' <= mount)
    BY <1>1, CurrentRun
  <2>2. flight[mount'][runId[mount']].at = "idle"
    BY <1>1, <2>1 DEF NoneAhead
  <2> QED
    BY <1>2, <2>2 DEF BusyHasRun
<1>6. CurrentIsOwn' /\ NeedFits' /\ ResultIsOwn'
  BY <1>2 DEF CurrentIsOwn, NeedFits, ResultIsOwn
<1> QED
  BY <1>3, <1>4, <1>5, <1>6
-----------------------------------------------------------------------------
(* A run ends or moves on, whatever it does to the page.                   *)
LEMMA RunMoves ==
  ASSUME PInv, NEW m \in Mounts, NEW i \in Runs, NEW r \in RunRecord,
         flight' = [flight EXCEPT ![m][i] = r],
         r.at # "idle" => flight[m][i].at # "idle",
         mount' = mount, runId' = runId, file' = file,
         secondFile' \in Files \cup {NoFile},
         need' \in {"none", "source", "signature"}, busy' \in BOOLEAN,
         result' = NoResult
           \/ result' \in [document: Files, content: Files \cup {NoFile}, inds: Reports],
         error' \in {"none", "failed", "wrongSecondFile"},
         history' \in Seq(Entries), Len(history') <= MAX
  PROVE  /\ Typed' /\ NoneAhead'
         /\ flight'[m][i] = r
         /\ m # mount \/ i # runId[m] => Current' = Current
         /\ m = mount /\ i = runId[m] => Current' = r
<1> USE DEF PInv
<1>1. /\ flight' \in [Mounts -> [Runs -> RunRecord]]
      /\ flight'[m][i] = r
      /\ \A n \in Mounts, j \in Runs : n # m \/ j # i => flight'[n][j] = flight[n][j]
  BY DEF Typed
<1>2. \A n \in Mounts, j \in Runs : flight'[n][j] \in RunRecord
  BY <1>1
<1>3. Typed'
  <2>1. file' \in Files \cup {NoFile} /\ mount' \in Mounts /\ runId' \in [Mounts -> Runs]
    BY DEF Typed, PageTypeOK
  <2> QED
    BY <1>1, <1>2, <2>1 DEF Typed, PageTypeOK, RunRecord
<1>4. NoneAhead'
  BY <1>1 DEF NoneAhead
<1>5. mount \in Mounts /\ runId[mount] \in Runs
  BY CurrentRun
<1> QED
  BY <1>1, <1>3, <1>4, <1>5 DEF Current

(* A run that is stale, or whose page is gone, leaves the page as it is.   *)
LEMMA Elsewhere ==
  ASSUME PInv, NEW m \in Mounts, NEW i \in Runs, NEW r \in RunRecord,
         flight' = [flight EXCEPT ![m][i] = r],
         r.at # "idle" => flight[m][i].at # "idle",
         m # mount \/ i # runId[m],
         UNCHANGED <<mount, runId, page>>,
         history' \in Seq(Entries), Len(history') <= MAX
  PROVE  PInv'
<1> USE DEF PInv
<1>1. file' = file /\ secondFile' = secondFile /\ need' = need /\ busy' = busy
      /\ result' = result /\ error' = error /\ mount' = mount /\ runId' = runId
  BY DEF page
<1>2. Typed' /\ NoneAhead' /\ Current' = Current
  <2>1. /\ secondFile' \in Files \cup {NoFile}
        /\ need' \in {"none", "source", "signature"} /\ busy' \in BOOLEAN
        /\ error' \in {"none", "failed", "wrongSecondFile"}
    BY <1>1 DEF Typed, PageTypeOK
  <2>2. result' = NoResult
          \/ result' \in [document: Files, content: Files \cup {NoFile}, inds: Reports]
    BY <1>1 DEF Typed, PageTypeOK
  <2> QED
    BY <1>1, <2>1, <2>2, RunMoves
<1>3. BusyHasRun' /\ CurrentIsOwn'
  BY <1>1, <1>2 DEF BusyHasRun, CurrentIsOwn, Current
<1>4. NeedFits' /\ ResultIsOwn'
  BY <1>1 DEF NeedFits, ResultIsOwn
<1> QED
  BY <1>2, <1>3, <1>4

(* The history as it was is a history.                                     *)
LEMMA HistoryKept ==
  ASSUME Typed, history' = history
  PROVE  history' \in Seq(Entries) /\ Len(history') <= MAX
  BY DEF Typed, PageTypeOK

LEMMA DropsPInv ==
  ASSUME PInv, NEW m \in Mounts, NEW i \in Runs, Drops(m, i)
  PROVE  PInv'
<1>1. flight' = [flight EXCEPT ![m][i] = NoRun] /\ i # runId[m]
      /\ UNCHANGED <<mount, runId, page, history>>
  BY DEF Drops, Ends
<1> QED
  BY <1>1, Elsewhere, HistoryKept, Records DEF PInv

LEMMA FailsPInv ==
  ASSUME PInv, NEW m \in Mounts, NEW i \in Runs, Fails(m, i)
  PROVE  PInv'
<1> USE DEF PInv
<1>1. flight' = [flight EXCEPT ![m][i] = NoRun]
      /\ UNCHANGED <<mount, runId, file, secondFile, need, result, history>>
  BY DEF Fails, Ends
<1>2. history' \in Seq(Entries) /\ Len(history') <= MAX
  BY <1>1, HistoryKept
<1>3. CASE m # mount \/ i # runId[m]
  <2>1. error' = error /\ busy' = busy
    BY <1>3 DEF Fails, Sets
  <2> QED
    BY <1>1, <1>2, <1>3, <2>1, Elsewhere, Records DEF page
<1>4. CASE m = mount /\ i = runId[m]
  <2>1. error' = "failed" /\ busy' = FALSE
    BY <1>4 DEF Fails, Sets
  <2>2. Typed' /\ NoneAhead' /\ Current' = NoRun
    <3>1. secondFile' \in Files \cup {NoFile} /\ need' \in {"none", "source", "signature"}
      BY <1>1 DEF Typed, PageTypeOK
    <3>2. result' = NoResult
            \/ result' \in [document: Files, content: Files \cup {NoFile}, inds: Reports]
      BY <1>1 DEF Typed, PageTypeOK
    <3> QED
      BY <1>1, <1>2, <1>4, <2>1, <3>1, <3>2, RunMoves, Records
  <2>3. BusyHasRun' /\ CurrentIsOwn'
    BY <2>1, <2>2, Records DEF BusyHasRun, CurrentIsOwn, Current
  <2>4. NeedFits' /\ ResultIsOwn'
    BY <1>1 DEF NeedFits, ResultIsOwn
  <2> QED
    BY <2>2, <2>3, <2>4
<1> QED
  BY <1>3, <1>4

LEMMA ReadPInv ==
  ASSUME PInv, NEW m \in Mounts, NEW i \in Runs, FilesRead(m, i)
  PROVE  PInv'
<1> USE DEF PInv
<1>1. CASE Drops(m, i)
  BY <1>1, DropsPInv
<1>2. CASE ~Drops(m, i)
  <2> DEFINE r == [flight[m][i] EXCEPT !.at = "validate"]
  <2>1. /\ flight[m][i].at = "read"
        /\ i = runId[m]
        /\ UNCHANGED <<mount, runId, page, history>>
    BY <1>2 DEF FilesRead
  <2>2. flight[m][i] \in RunRecord
    BY CurrentRun
  <2>3. r \in RunRecord /\ r.at = "validate" /\ r.file = flight[m][i].file
        /\ r.second = flight[m][i].second /\ r.need = flight[m][i].need
    BY <2>2 DEF RunRecord
  <2>4. flight' = [flight EXCEPT ![m][i] = r]
    BY <1>2, <2>2 DEF FilesRead, Typed
  <2>5. history' \in Seq(Entries) /\ Len(history') <= MAX
    BY <2>1, HistoryKept
  <2>9. r.at # "idle" => flight[m][i].at # "idle"
    BY <2>1
  <2> HIDE DEF r, PInv
  <2>6. CASE m # mount
    BY <2>1, <2>3, <2>4, <2>5, <2>6, <2>9, Elsewhere
  <2>7. CASE m = mount
    <3>1. file' = file /\ secondFile' = secondFile /\ need' = need /\ busy' = busy
          /\ result' = result /\ error' = error /\ mount' = mount /\ runId' = runId
      BY <2>1 DEF page
    <3>2. /\ secondFile' \in Files \cup {NoFile}
          /\ need' \in {"none", "source", "signature"} /\ busy' \in BOOLEAN
          /\ error' \in {"none", "failed", "wrongSecondFile"}
      BY <3>1 DEF PInv, Typed, PageTypeOK
    <3>3. result' = NoResult
            \/ result' \in [document: Files, content: Files \cup {NoFile}, inds: Reports]
      BY <3>1 DEF PInv, Typed, PageTypeOK
    <3>4. Typed' /\ NoneAhead' /\ Current' = r
      <4>1. i = runId[m] /\ r \in RunRecord
        BY <2>1, <2>3
      <4> QED
        BY <2>4, <2>5, <2>7, <2>9, <3>1, <3>2, <3>3, <4>1, RunMoves
    <3>5. Current = flight[m][i]
      BY <2>1, <2>7 DEF Current
    <3>6. BusyHasRun' /\ CurrentIsOwn'
      BY <2>1, <2>3, <3>1, <3>4, <3>5 DEF PInv, BusyHasRun, CurrentIsOwn, Current
    <3>7. NeedFits' /\ ResultIsOwn'
      BY <3>1 DEF PInv, NeedFits, ResultIsOwn
    <3> QED
      BY <3>4, <3>6, <3>7 DEF PInv
  <2> QED
    BY <2>6, <2>7
<1> QED
  BY <1>1, <1>2
-----------------------------------------------------------------------------
(* A report is a sequence of indications, and has at least one.            *)
LEMMA ReportType ==
  ASSUME NEW inds \in Reports
  PROVE  inds \in Seq(Indications) /\ inds # << >>
<1>1. PICK n \in 1..MaxSigs : inds \in [1..n -> Indications]
  BY DEF Reports
<1>2. inds \in Seq(Indications) /\ Len(inds) = n /\ n >= 1
  BY <1>1, PageAssumption
<1> QED
  BY <1>2

(* An added entry leaves a history within its bound.                       *)
LEMMA RecordKeeps ==
  ASSUME Typed, NEW document \in Files \cup {NoFile}, NEW content, NEW inds \in Reports,
         Record([document |-> document, content |-> content], inds)
  PROVE  history' \in Seq(Entries) /\ Len(history') <= MAX
<1> DEFINE entry == [name    |-> document,
                     verdict |-> IF OverallVariant(inds) = "ok" THEN "TOTAL_PASSED"
                                 ELSE OverallIndication(inds)]
           all   == <<entry>> \o history
           kept  == IF Len(all) < MAX THEN Len(all) ELSE MAX
<1>1. entry \in Entries
  <2>1. OverallIndication(inds) \in Indications
    BY DEF OverallIndication, Indications
  <2>2. entry.verdict \in Indications
    BY <2>1 DEF Indications
  <2> QED
    BY <2>2 DEF Entries
<1>2. history' = SubSeq(all, 1, kept)
  BY DEF Record
<1> HIDE DEF entry
<1>3. all \in Seq(Entries) /\ Len(all) \in Nat
  BY <1>1, ConcatProperties DEF Typed
<1>4. kept \in Nat /\ kept <= MAX /\ kept <= Len(all)
  BY <1>3, PageAssumption
<1> HIDE DEF all, kept
<1>5. \A k \in 1..kept : all[k] \in Entries
  BY <1>3, <1>4
<1>6. /\ SubSeq(all, 1, kept) \in Seq(Entries)
      /\ Len(SubSeq(all, 1, kept)) = IF 1 <= kept THEN kept - 1 + 1 ELSE 0
  BY <1>4, <1>5, SubSeqProperties
<1> QED
  BY <1>2, <1>4, <1>6, PageAssumption

(* What the run in progress and the server's answer say of the files: a    *)
(* document that validates is a signature, and one that does not calls for *)
(* the other file, unless that one was wrong.                              *)
LEMMA Answers ==
  ASSUME NEW document, NEW content
  PROVE  /\ Validate(document, content) = "VALIDATED" => document \notin Plain
         /\ Validate(document, content) = "NOT_A_SIGNATURE" => document \in Plain
         /\ Validate(document, content) \notin {"VALIDATED", "NOT_A_SIGNATURE"} =>
              document \in Detached /\ content \in Empty \cup {NoFile}
  BY DEF Validate

(* The run that answers is the page's own.                                 *)
LEMMA OwnRun ==
  ASSUME PInv, NEW m \in Mounts, NEW i \in Runs, flight[m][i].at = "validate",
         m = mount, i = runId[m]
  PROVE  /\ busy /\ file \in Files /\ result = NoResult
         /\ flight[m][i].file = file /\ flight[m][i].second = secondFile
         /\ flight[m][i].need = need
         /\ secondFile = NoFile <=> need = "none"
<1>1. busy
  BY DEF PInv, BusyHasRun
<1>2. file \in Files \cup {NoFile}
  BY DEF PInv, Typed, PageTypeOK
<1> QED
  BY <1>1, <1>2 DEF PInv, CurrentIsOwn, Current
LEMMA ValidatedPInv ==
  ASSUME PInv, NEW m \in Mounts, NEW i \in Runs, Validated(m, i)
  PROVE  PInv'
<1> DEFINE r    == flight[m][i]
           q    == Request(r)
           kind == Validate(q.document, q.content)
<1>1. CASE Drops(m, i)
  BY <1>1, DropsPInv
<1>2. CASE ~Drops(m, i)
  <2>1. r \in RunRecord /\ r.at = "validate" /\ i = runId[m] /\ q.document \notin Empty
    BY <1>2, CurrentRun DEF Validated, PInv
  <2>2. flight' = [flight EXCEPT ![m][i] = NoRun]
    BY <1>2 DEF Validated, Ends
  <2>3. UNCHANGED <<mount, runId, file>> /\ busy' = Sets(m, busy, FALSE)
    BY <1>2 DEF Validated
  <2>4. \/ /\ kind = "VALIDATED"
           /\ \E inds \in Reports : Shows(m, i, inds)
           /\ UNCHANGED <<secondFile, need, error>>
        \/ /\ kind # "VALIDATED" /\ r.second = NoFile
           /\ need' = Sets(m, need, IF kind = "NOT_A_SIGNATURE" THEN "signature" ELSE "source")
           /\ UNCHANGED <<secondFile, result, error, history>>
        \/ /\ kind # "VALIDATED" /\ r.second # NoFile
           /\ error' = Sets(m, error, "wrongSecondFile")
           /\ secondFile' = Sets(m, secondFile, NoFile)
           /\ UNCHANGED <<need, result, history>>
    BY <1>2 DEF Validated
  <2>5. q.document \in Files \cup {NoFile} /\ q.content \in Files \cup {NoFile}
        /\ q = [document |-> q.document, content |-> q.content]
    BY <2>1 DEF Request, RunRecord
  <2> HIDE DEF kind
  <2>6. history' \in Seq(Entries) /\ Len(history') <= MAX
    <3>1. CASE \E inds \in Reports : Shows(m, i, inds)
      <4>1. PICK inds \in Reports : Record(q, inds)
        BY <3>1 DEF Shows
      <4> HIDE DEF q
      <4> QED
        BY <2>5, <4>1, RecordKeeps DEF PInv
    <3>2. CASE history' = history
      BY <3>2, HistoryKept DEF PInv
    <3> QED
      BY <2>4, <3>1, <3>2
  <2>7. CASE m # mount
    <3>1. UNCHANGED <<mount, runId, page>>
      BY <2>3, <2>4, <2>7 DEF page, Sets, Shows
    <3> QED
      BY <2>2, <2>6, <2>7, <3>1, Elsewhere, Records
  <2>8. CASE m = mount
    <3>1. /\ busy /\ file \in Files /\ result = NoResult
          /\ r.file = file /\ r.second = secondFile /\ r.need = need
          /\ secondFile = NoFile <=> need = "none"
          /\ secondFile \in Files \cup {NoFile}
          /\ need \in {"none", "source", "signature"}
          /\ error \in {"none", "failed", "wrongSecondFile"}
          /\ NeedFits
      BY <2>1, <2>8, OwnRun DEF PInv, Typed, PageTypeOK
    <3>2. mount' = mount /\ runId' = runId /\ file' = file /\ ~busy' /\ busy' \in BOOLEAN
      BY <2>3, <2>8 DEF Sets
    <3>3. q = IF need = "signature" THEN [document |-> secondFile, content |-> file]
                                    ELSE [document |-> file, content |-> secondFile]
      BY <3>1 DEF Request
    <3>4. /\ kind = "VALIDATED" => q.document \notin Plain
          /\ kind = "NOT_A_SIGNATURE" => q.document \in Plain
          /\ kind \notin {"VALIDATED", "NOT_A_SIGNATURE"} =>
               q.document \in Detached /\ q.content \in Empty \cup {NoFile}
      BY Answers DEF kind
    <3>5. /\ secondFile' \in Files \cup {NoFile}
          /\ need' \in {"none", "source", "signature"}
          /\ error' \in {"none", "failed", "wrongSecondFile"}
          /\ NeedFits'
          /\ \/ result' = NoResult
             \/ /\ result' \in [document: Files, content: Files \cup {NoFile}, inds: Reports]
                /\ {result'.document, result'.content} \ {NoFile} = {file', secondFile'} \ {NoFile}
                /\ result'.document \notin Plain
      <4>1. CASE kind = "VALIDATED"
        <5>1. PICK inds \in Reports :
                result' = [document |-> q.document, content |-> q.content, inds |-> inds]
          BY <2>4, <2>8, <4>1 DEF Shows, Sets
        <5>2. q.document \in Files
          BY <3>1, <3>3
        <5>3. secondFile' = secondFile /\ need' = need /\ error' = error
          BY <2>4, <4>1
        <5>4. {q.document, q.content} = {file, secondFile}
          BY <3>3
        <5>5. NeedFits'
          BY <3>1, <3>2, <5>3 DEF NeedFits
        <5> HIDE DEF q
        <5>6. result' \in [document: Files, content: Files \cup {NoFile}, inds: Reports]
              /\ result'.document = q.document /\ result'.content = q.content
          BY <2>5, <5>1, <5>2
        <5> QED
          BY <3>1, <3>2, <3>4, <4>1, <5>3, <5>4, <5>5, <5>6
      <4>2. CASE kind # "VALIDATED" /\ secondFile = NoFile
        <5>1. need' = IF kind = "NOT_A_SIGNATURE" THEN "signature" ELSE "source"
          BY <2>4, <2>8, <3>1, <4>2 DEF Sets
        <5>2. secondFile' = secondFile /\ result' = result /\ error' = error
          BY <2>4, <3>1, <4>2
        <5>3. q.document = file
          BY <3>1, <3>3, <4>2
        <5>4. NeedFits'
          BY <2>1, <3>2, <3>4, <4>2, <5>1, <5>2, <5>3 DEF NeedFits
        <5> QED
          BY <3>1, <5>1, <5>2, <5>4
      <4>3. CASE kind # "VALIDATED" /\ secondFile # NoFile
        <5>1. /\ error' = "wrongSecondFile" /\ secondFile' = NoFile
              /\ need' = need /\ result' = result
          BY <2>4, <2>8, <3>1, <4>3 DEF Sets
        <5>2. NeedFits'
          BY <3>1, <3>2, <5>1 DEF NeedFits
        <5> QED
          BY <3>1, <5>1, <5>2
      <4> QED
        BY <4>1, <4>2, <4>3
    <3>6. Typed' /\ NoneAhead' /\ Current' = NoRun
      <4>1. i = runId[m]
        BY <2>1
      <4>2. result' = NoResult
              \/ result' \in [document: Files, content: Files \cup {NoFile}, inds: Reports]
        BY <3>5
      <4>3. /\ secondFile' \in Files \cup {NoFile}
            /\ need' \in {"none", "source", "signature"}
            /\ error' \in {"none", "failed", "wrongSecondFile"}
        BY <3>5
      <4> QED
        BY <2>2, <2>6, <2>8, <3>2, <4>1, <4>2, <4>3, RunMoves, Records
    <3>7. BusyHasRun' /\ CurrentIsOwn'
      BY <3>2, <3>6, Records DEF BusyHasRun, CurrentIsOwn, Current
    <3>8. ResultIsOwn'
      BY <3>5 DEF ResultIsOwn
    <3> QED
      BY <3>5, <3>6, <3>7, <3>8 DEF PInv
  <2> QED
    BY <2>7, <2>8
<1> QED
  BY <1>1, <1>2
-----------------------------------------------------------------------------
LEMMA StepPInv == PInv /\ [Next]_vars => PInv'
<1> SUFFICES ASSUME PInv, [Next]_vars PROVE PInv'
  OBVIOUS
<1>1. CASE User
  BY <1>1, PutAside, PassBegins, Remounts DEF User
<1>2. CASE \E m \in Mounts, i \in Runs : Step(m, i)
  BY <1>2, ReadPInv, ValidatedPInv, FailsPInv DEF Step
<1>3. CASE UNCHANGED vars
  BY <1>3 DEF vars, page, PInv, Typed, PageTypeOK, NoneAhead, BusyHasRun, CurrentIsOwn,
              Current, NeedFits, ResultIsOwn
<1> QED
  BY <1>1, <1>2, <1>3 DEF Next

LEMMA AlwaysPInv == Spec => []PInv
<1> QED
  BY InitPInv, StepPInv, PTL DEF Spec

(* Every reachable state is well typed, and the history within its bound.  *)
THEOREM PageTypeCorrect == Spec => []PageTypeOK
<1>1. PInv => PageTypeOK
  BY DEF PInv, Typed
<1> QED
  BY <1>1, AlwaysPInv, PTL

(* The report on the screen is about the files on the screen, in their     *)
(* roles, whatever was put aside or answered late (ValidatePage.tsx:409).  *)
THEOREM ReportIsOwn == Spec => []ResultIsOwn
<1>1. PInv => ResultIsOwn
  BY DEF PInv
<1> QED
  BY <1>1, AlwaysPInv, PTL

(* The spinner turns exactly while the page's own run is in progress, on   *)
(* every mount of the page (ValidatePage.tsx:370-480).                     *)
THEOREM SpinnerHasRun == Spec => []BusyHasRun
<1>1. PInv => BusyHasRun
  BY DEF PInv
<1> QED
  BY <1>1, AlwaysPInv, PTL

(* The second file asked for is the one the first calls for                *)
(* (ValidatePage.tsx:421-422).                                             *)
THEOREM RequestIsOwn == Spec => []NeedIsOwn
<1>1. PInv => NeedIsOwn
  BY DEF PInv, NeedFits, NeedIsOwn
<1> QED
  BY <1>1, AlwaysPInv, PTL

(* The four verdicts agree on every report the page shows, whatever its    *)
(* length (DocumentValidationService.java:111, ValidatePage.tsx:105,       *)
(* DeepLinkVerifyModal.tsx:80).                                            *)
THEOREM ShownVerdictsAgree == Spec => []VerdictsAgree
<1>1. PInv => VerdictsAgree
  <2> SUFFICES ASSUME PInv, result # NoResult PROVE Agree(result.inds)
    BY DEF VerdictsAgree
  <2>1. result.inds \in Reports
    BY DEF PInv, Typed, PageTypeOK
  <2> QED
    BY <2>1, ReportType, VerdictAgreement
<1> QED
  BY <1>1, AlwaysPInv, PTL
-----------------------------------------------------------------------------
(* Only an answer to the page's own second pass refuses the second file.   *)
LEMMA RefusalIsAnswer ==
  ASSUME PInv, Next, error' = "wrongSecondFile", error # "wrongSecondFile"
  PROVE  \E m \in Mounts, i \in Runs :
           /\ m = mount /\ i = runId[m] /\ flight[m][i].at = "validate"
           /\ Request(flight[m][i]).document \notin Empty
           /\ Validate(Request(flight[m][i]).document, Request(flight[m][i]).content)
                # "VALIDATED"
           /\ flight[m][i].second # NoFile
<1>1. ~User
  BY DEF User, PickFile, PickSecondFile, ClearAll, VerifyPrimary, RemoveSecond, Leave
<1>2. PICK m \in Mounts, i \in Runs : Step(m, i)
  BY <1>1 DEF Next
<1>3. ~Drops(m, i) /\ ~Fails(m, i) /\ ~FilesRead(m, i)
  BY DEF Drops, Fails, FilesRead, Sets, page
<1>4. Validated(m, i)
  BY <1>2, <1>3 DEF Step
<1>5. m = mount /\ flight[m][i].second # NoFile
      /\ Validate(Request(flight[m][i]).document, Request(flight[m][i]).content) # "VALIDATED"
  BY <1>3, <1>4 DEF Validated, Sets
<1> QED
  BY <1>3, <1>4, <1>5 DEF Validated

(* The right pair is accepted in either order: a second file is refused    *)
(* only when neither file is a signature, or it is empty                   *)
(* (ValidatePage.tsx:446-464).                                             *)
THEOREM RightPairIsAccepted == Spec => WrongSecondIsWrong
<1> DEFINE Refused == error' = "wrongSecondFile" /\ error # "wrongSecondFile"
           Justified == (file \in Plain /\ secondFile \in Plain) \/ secondFile \in Empty
<1>1. PInv /\ [Next]_vars => [Refused => Justified]_vars
  <2> SUFFICES ASSUME PInv, Next, Refused PROVE Justified
    BY DEF vars, page
  <2>1. PICK m \in Mounts, i \in Runs :
          /\ m = mount /\ i = runId[m] /\ flight[m][i].at = "validate"
          /\ Request(flight[m][i]).document \notin Empty
          /\ Validate(Request(flight[m][i]).document, Request(flight[m][i]).content)
               # "VALIDATED"
          /\ flight[m][i].second # NoFile
    BY RefusalIsAnswer
  <2>2. /\ flight[m][i].file = file /\ flight[m][i].second = secondFile
        /\ flight[m][i].need = need /\ (secondFile = NoFile <=> need = "none")
        /\ need \in {"none", "source", "signature"} /\ NeedFits
    BY <2>1, OwnRun DEF PInv, Typed, PageTypeOK
  <2>3. CASE need = "source"
    <3>1. /\ Request(flight[m][i]) = [document |-> file, content |-> secondFile]
          /\ file \in Detached /\ secondFile # NoFile
      BY <2>1, <2>2, <2>3 DEF Request, NeedFits
    <3>2. file \notin Plain
      BY <3>1, PageAssumption
    <3> QED
      BY <2>1, <3>1, <3>2 DEF Validate
  <2>4. CASE need = "signature"
    <3>1. /\ Request(flight[m][i]) = [document |-> secondFile, content |-> file]
          /\ file \in Plain \ Empty
      BY <2>2, <2>4 DEF Request, NeedFits
    <3>2. file # NoFile
      BY <3>1, PageAssumption
    <3> QED
      BY <2>1, <3>1, <3>2 DEF Validate
  <2> QED
    BY <2>1, <2>2, <2>3, <2>4
<1> QED
  BY <1>1, AlwaysPInv, PTL DEF Spec, WrongSecondIsWrong
-----------------------------------------------------------------------------
(* What is recorded comes first in the history.                            *)
LEMMA RecordHead ==
  ASSUME Typed, NEW document \in Files \cup {NoFile}, NEW content, NEW inds \in Reports,
         Record([document |-> document, content |-> content], inds)
  PROVE  /\ Head(history').name = document
         /\ (Head(history').verdict = "TOTAL_PASSED") = (OverallVariant(inds) = "ok")
<1> DEFINE verdict == IF OverallVariant(inds) = "ok" THEN "TOTAL_PASSED"
                      ELSE OverallIndication(inds)
           entry == [name |-> document, verdict |-> verdict]
           all   == <<entry>> \o history
           kept  == IF Len(all) < MAX THEN Len(all) ELSE MAX
<1>1. history' = SubSeq(all, 1, kept)
  BY DEF Record
<1>2. OverallIndication(inds) \in Indications
  BY DEF OverallIndication, Indications
<1>3. entry \in Entries
  BY <1>2 DEF Entries, Indications
<1>4. entry.name = document /\ entry.verdict = verdict
  OBVIOUS
<1> HIDE DEF entry
<1>5. all \in Seq(Entries) /\ Len(all) \in Nat /\ Len(all) >= 1 /\ all[1] = entry
  BY <1>3, ConcatProperties DEF Typed
<1>6. kept \in 1..Len(all)
  BY <1>5, PageAssumption
<1> HIDE DEF all, kept
<1>7. Head(SubSeq(all, 1, kept)) = entry
  BY <1>5, <1>6, HeadTailOfSubSeq
<1>8. (verdict = "TOTAL_PASSED") = (OverallVariant(inds) = "ok")
  <2>1. CASE OverallVariant(inds) = "ok"
    BY <2>1
  <2>2. CASE OverallVariant(inds) # "ok"
    <3>1. Agree(inds)
      BY ReportType, VerdictAgreement
    <3>2. OverallIndication(inds) # "TOTAL_PASSED"
      BY <2>2, <3>1 DEF Agree
    <3> QED
      BY <2>2, <3>2
  <2> QED
    BY <2>1, <2>2
<1> QED
  BY <1>1, <1>4, <1>7, <1>8

(* The history grows only by an answer that is shown, if its page is.      *)
LEMMA RecordIsAnswer ==
  ASSUME PInv, Next, history' # history
  PROVE  \E m \in Mounts, i \in Runs, inds \in Reports :
           /\ i = runId[m] /\ flight[m][i].at = "validate"
           /\ flight' = [flight EXCEPT ![m][i] = NoRun]
           /\ Validate(Request(flight[m][i]).document, Request(flight[m][i]).content)
                = "VALIDATED"
           /\ Shows(m, i, inds)
<1>1. ~User
  BY DEF User, PickFile, PickSecondFile, ClearAll, VerifyPrimary, RemoveSecond, Leave
<1>2. PICK m \in Mounts, i \in Runs : Step(m, i)
  BY <1>1 DEF Next
<1>3. ~Drops(m, i) /\ ~Fails(m, i) /\ ~FilesRead(m, i)
  BY DEF Drops, Fails, FilesRead
<1>4. Validated(m, i)
  BY <1>2, <1>3 DEF Step
<1> QED
  BY <1>3, <1>4 DEF Validated, Ends

(* The home screen's badge says verified of a recorded pass only.          *)
LEMMA OnlyAPassIsOk ==
  ASSUME NEW verdict PROVE Badge(verdict) = "ok" <=> verdict = "TOTAL_PASSED"
  BY DEF Badge

(* A verification is recorded under the name of the signature, and the     *)
(* home screen shows it as verified exactly when the banner did            *)
(* (ValidatePage.tsx:393-406, AccueilScreen.tsx:79-86).                    *)
THEOREM RecordMatchesBanner == Spec => RecordIsShown
<1> DEFINE Faithful ==
      history' # history =>
        LET entry == Head(history')
        IN  /\ entry.name \notin Plain
            /\ \/ /\ entry.name = result'.document
                  /\ (Badge(entry.verdict) = "ok") = (OverallVariant(result'.inds) = "ok")
               \/ \E m \in Mounts \ {mount} : flight'[m] # flight[m]
<1>1. PInv /\ [Next]_vars => [Faithful]_vars
  <2> SUFFICES ASSUME PInv, Next, history' # history PROVE Faithful
    BY DEF vars
  <2>1. PICK m \in Mounts, i \in Runs, inds \in Reports :
           /\ i = runId[m] /\ flight[m][i].at = "validate"
           /\ flight' = [flight EXCEPT ![m][i] = NoRun]
           /\ Validate(Request(flight[m][i]).document, Request(flight[m][i]).content)
                = "VALIDATED"
           /\ Shows(m, i, inds)
    BY RecordIsAnswer
  <2> DEFINE q == Request(flight[m][i])
  <2>2. q.document \in Files \cup {NoFile} /\ q.document \notin Plain
        /\ q = [document |-> q.document, content |-> q.content]
    <3>1. flight[m][i] \in RunRecord
      BY CurrentRun DEF PInv
    <3> QED
      BY <2>1, <3>1, Answers DEF Request, RunRecord
  <2>3. Record(q, inds)
    BY <2>1 DEF Shows
  <2>4. /\ Head(history').name = q.document
        /\ (Badge(Head(history').verdict) = "ok") = (OverallVariant(inds) = "ok")
    <3> HIDE DEF q
    <3>1. /\ Head(history').name = q.document
          /\ (Head(history').verdict = "TOTAL_PASSED") = (OverallVariant(inds) = "ok")
      BY <2>2, <2>3, RecordHead DEF PInv
    <3> QED
      BY <3>1, OnlyAPassIsOk
  <2>5. CASE m = mount
    <3>1. result'.document = q.document /\ result'.inds = inds
      BY <2>1, <2>5 DEF Shows, Sets
    <3> QED
      BY <2>2, <2>4, <3>1
  <2>6. CASE m # mount
    <3>1. flight'[m][i].at = "idle" /\ flight[m][i].at # "idle"
      BY <2>1, Records DEF PInv, Typed
    <3> QED
      BY <2>2, <2>4, <2>6, <3>1
  <2> QED
    BY <2>5, <2>6
<1> QED
  BY <1>1, AlwaysPInv, PTL DEF Spec, RecordIsShown
-----------------------------------------------------------------------------
(* The page keeps the promise of VerifyPromise.  Run ids and copies of the *)
(* files are hidden by LeftBehind, so three kinds of step remain: those of *)
(* the current run of the page are the promise's own, those of a run left  *)
(* behind are EndLeft, and all others are nothing.                         *)

(* A run has a file, so what it asks of the server is no empty request.    *)
RunHasFile == \A m \in Mounts, i \in Runs : flight[m][i].at # "idle" => flight[m][i].file \in Files

LEMMA InitRunHasFile == Init => RunHasFile
  BY Records DEF Init, RunHasFile

(* Runs only come and go one at a time.                                    *)
LEMMA OneRunChanges ==
  ASSUME PInv, RunHasFile, NEW m \in Mounts, NEW i \in Runs, NEW r \in RunRecord,
         flight' = [flight EXCEPT ![m][i] = r],
         r.at # "idle" => r.file \in Files
  PROVE  RunHasFile'
<1>1. /\ flight'[m][i] = r
      /\ \A n \in Mounts, j \in Runs : n # m \/ j # i => flight'[n][j] = flight[n][j]
  BY FlightUpdate DEF PInv
<1> QED
  BY <1>1 DEF RunHasFile

LEMMA StepRunHasFile == PInv /\ RunHasFile /\ [Next]_vars => RunHasFile'
<1> SUFFICES ASSUME PInv, RunHasFile, [Next]_vars PROVE RunHasFile'
  OBVIOUS
<1>1. CASE VerifyPrimary
  <2> DEFINE r == [NoRun EXCEPT !.at = "read", !.file = file]
  <2>1. r \in RunRecord /\ r.file = file /\ file \in Files
    BY <1>1, Records DEF VerifyPrimary, PrimaryRow, RunRecord, NoRun, PInv, Typed, PageTypeOK
  <2>2. mount \in Mounts /\ runId'[mount] \in Runs
    BY <1>1, FreshRun, CurrentRun DEF PInv, VerifyPrimary
  <2>3. flight' = [flight EXCEPT ![mount][runId'[mount]] = r]
    BY <1>1 DEF VerifyPrimary, Start
  <2> HIDE DEF r
  <2> QED
    BY <2>1, <2>2, <2>3, OneRunChanges
<1>2. CASE \E f \in Files : PickSecondFile(f)
  <2>1. PICK f \in Files : PickSecondFile(f)
    BY <1>2
  <2> DEFINE r == [at |-> "read", file |-> file, second |-> f, need |-> need]
  <2>2. r \in RunRecord /\ r.file \in Files
    BY <2>1 DEF PickSecondFile, SecondRow, RunRecord, PInv, Typed, PageTypeOK
  <2>3. mount \in Mounts /\ runId'[mount] \in Runs
    BY <2>1, FreshRun, CurrentRun DEF PInv, PickSecondFile
  <2>4. flight' = [flight EXCEPT ![mount][runId'[mount]] = r]
    BY <2>1 DEF PickSecondFile, Start
  <2> HIDE DEF r
  <2> QED
    BY <2>2, <2>3, <2>4, OneRunChanges
<1>3. CASE flight' = flight
  BY <1>3 DEF RunHasFile
<1>4. ASSUME NEW m \in Mounts, NEW i \in Runs, Step(m, i)
      PROVE  RunHasFile'
  <2>1. CASE flight' = [flight EXCEPT ![m][i] = NoRun]
    BY <2>1, OneRunChanges, Records
  <2>2. CASE flight' = [flight EXCEPT ![m][i].at = "validate"] /\ flight[m][i].at = "read"
    <3> DEFINE r == [flight[m][i] EXCEPT !.at = "validate"]
    <3>1. r \in RunRecord /\ r.file = flight[m][i].file /\ flight[m][i].file \in Files
      BY <2>2, CurrentRun DEF RunRecord, RunHasFile, PInv
    <3>2. flight' = [flight EXCEPT ![m][i] = r]
      BY <2>2, CurrentRun DEF PInv, Typed
    <3> HIDE DEF r
    <3> QED
      BY <3>1, <3>2, OneRunChanges
  <2> QED
    BY <1>4, <2>1, <2>2 DEF Step, FilesRead, Validated, Fails, Drops, Ends
<1> QED
  BY <1>1, <1>2, <1>3, <1>4 DEF Next, User, PickFile, ClearAll, RemoveSecond, Leave, vars

(* What is left behind changes only with the runs of the other mounts.     *)
LEMMA LeftKept ==
  ASSUME mount' = mount,
         \A m \in Mounts : m # mount => runId'[m] = runId[m] /\ flight'[m] = flight[m]
  PROVE  LeftBehind' = LeftBehind
  BY DEF LeftBehind, Request

(* A stale run, or one of the mounted page, left nothing behind; and one   *)
(* that goes on asks the same.                                             *)
LEMMA LeftSame ==
  ASSUME Typed, NEW m \in Mounts, NEW i \in Runs, NEW r \in RunRecord,
         flight' = [flight EXCEPT ![m][i] = r],
         mount' = mount, runId' = runId,
         \/ m = mount
         \/ i # runId[m]
         \/ r.at # "idle" /\ flight[m][i].at # "idle" /\ Request(r) = Request(flight[m][i])
  PROVE  LeftBehind' = LeftBehind
<1>1. /\ flight'[m][i] = r
      /\ \A n \in Mounts, j \in Runs : n # m \/ j # i => flight'[n][j] = flight[n][j]
  BY DEF Typed
<1>2. \A n \in Mounts : n # m \/ i # runId[m] => flight'[n][runId[n]] = flight[n][runId[n]]
  BY <1>1, CurrentRun
<1> QED
  BY <1>1, <1>2 DEF LeftBehind, Request

(* The current run of another mount is a request that mount left behind.   *)
LEMMA LeftRequest ==
  ASSUME Typed, RunHasFile, NEW m \in Mounts, m # mount, flight[m][runId[m]].at # "idle"
  PROVE  /\ LeftBehind[m] = Request(flight[m][runId[m]])
         /\ LeftBehind[m] # Promise!NoRequest
<1>1. LeftBehind[m] = Request(flight[m][runId[m]])
  BY DEF LeftBehind
<1>2. flight[m][runId[m]].file \in Files
  BY CurrentRun DEF RunHasFile
<1>3. flight[m][runId[m]].file # NoFile
  BY <1>2, Records
<1> QED
  BY <1>1, <1>3 DEF Request, Promise!NoRequest

(* When such a run ends, its request is gone.                              *)
LEMMA LeftEnds ==
  ASSUME Typed, NEW m \in Mounts, NEW i \in Runs, i = runId[m], m # mount, Ends(m, i),
         mount' = mount, runId' = runId
  PROVE  LeftBehind' = [LeftBehind EXCEPT ![m] = Promise!NoRequest]
<1>1. /\ flight'[m][i] = NoRun
      /\ \A n \in Mounts, j \in Runs : n # m \/ j # i => flight'[n][j] = flight[n][j]
  BY DEF Typed, Ends
<1>2. \A n \in Mounts : n # m => flight'[n][runId[n]] = flight[n][runId[n]]
  BY <1>1, CurrentRun
<1> QED
  BY <1>1, <1>2, Records DEF LeftBehind, Request, Promise!NoRequest

(* The run that goes on when the user leaves is the page's verification.   *)
LEMMA LeftByLeaving ==
  ASSUME PInv, Leave
  PROVE  LeftBehind' = [LeftBehind EXCEPT ![mount] = IF busy THEN Promise!Pending
                                                     ELSE Promise!NoRequest]
<1>1. mount' = mount + 1 /\ mount' \in Mounts /\ mount \in Mounts
      /\ mount \in Int /\ mount' \in Int /\ mount' # mount
  BY PageAssumption DEF Leave, Mounts, PInv, Typed, PageTypeOK
<1>2. flight' = flight /\ runId' = runId
  BY DEF Leave
<1>3. flight[mount'][runId[mount']].at = "idle"
  BY <1>1, CurrentRun DEF PInv, NoneAhead
<1>4. busy => Request(flight[mount][runId[mount]]) = Promise!Pending
  BY DEF PInv, CurrentIsOwn, Current, Request, Promise!Pending
<1>5. busy <=> flight[mount][runId[mount]].at # "idle"
  BY DEF PInv, BusyHasRun
<1>6. LeftBehind'[mount] = IF busy THEN Promise!Pending ELSE Promise!NoRequest
  BY <1>1, <1>2, <1>4, <1>5 DEF LeftBehind, Request, Promise!NoRequest
<1>7. \A n \in Mounts : n # mount => LeftBehind'[n] = LeftBehind[n]
  BY <1>1, <1>2, <1>3 DEF LeftBehind, Request
<1> QED
  BY <1>1, <1>6, <1>7 DEF LeftBehind
-----------------------------------------------------------------------------
(* The server validates exactly the complete requests.                     *)
LEMMA ValidIsComplete ==
  ASSUME NEW document, NEW content
  PROVE  Validate(document, content) = "VALIDATED"
           <=> Promise!Complete([document |-> document, content |-> content])
  BY DEF Validate, Promise!Complete

(* It says of plain files, and of those only, that they are no signature.  *)
LEMMA PlainIsNoSignature ==
  ASSUME NEW document, NEW content
  PROVE  Validate(document, content) = "NOT_A_SIGNATURE" <=> document \in Plain
  BY PageAssumption DEF Validate

(* What is recorded is the promised entry: the banner's pass is the        *)
(* server's.                                                               *)
LEMMA RecordIsPromised ==
  ASSUME NEW r, NEW inds \in Reports, Record(r, inds)
  PROVE  history' = Promise!Recorded(r, inds)
<1>1. inds \in Seq(Indications) /\ inds # << >>
  BY ReportType
<1>2. Agree(inds)
  BY <1>1, VerdictAgreement
<1>3. (IF OverallVariant(inds) = "ok" THEN "TOTAL_PASSED" ELSE OverallIndication(inds))
        = OverallIndication(inds)
  <2>1. OverallIndication(inds) \in Indications
    BY DEF OverallIndication, Indications
  <2> QED
    BY <1>2, <2>1 DEF Agree, Indications
<1>4. OverallIndication(inds) = Promise!OverallIndication(inds)
  BY DEF OverallIndication, Some, Every, Promise!OverallIndication, Promise!Some, Promise!Every
<1> QED
  BY <1>3, <1>4 DEF Record, Promise!Recorded
-----------------------------------------------------------------------------
LEMMA PromiseInit == Init => Promise!Init
<1> SUFFICES ASSUME Init PROVE Promise!Init
  OBVIOUS
<1>1. \A m \in Mounts : flight[m][runId[m]].at = "idle"
  BY Records DEF Init
<1>2. LeftBehind = [m \in Mounts |-> Promise!NoRequest]
  BY <1>1 DEF LeftBehind, Promise!NoRequest
<1> QED
  BY <1>2 DEF Init, Promise!Init, NoResult, Promise!NoResult

(* The user's steps are the same in both, but for the run ids.             *)
LEMMA PromiseUser == PInv /\ User => Promise!Next
<1> SUFFICES ASSUME PInv, User PROVE Promise!Next
  OBVIOUS
<1>0. NoResult = Promise!NoResult /\ mount \in Mounts /\ runId \in [Mounts -> Runs]
  BY DEF NoResult, Promise!NoResult, PInv, Typed, PageTypeOK
<1>1. CASE \E f \in Files : PickFile(f)
  <2>1. PICK f \in Files : PickFile(f)
    BY <1>1
  <2>2. LeftBehind' = LeftBehind
    BY <2>1, LeftKept, <1>0 DEF PickFile, NewRunId
  <2>3. file = NoFile
    BY <2>1 DEF PickFile, PrimaryRow
  <2>4. Promise!PickFile(f)
    BY <1>0, <2>1, <2>2, <2>3 DEF PickFile, Promise!PickFile, Promise!Blank
  <2> QED
    BY <2>4 DEF Promise!Next
<1>2. CASE \E f \in Files : PickSecondFile(f)
  <2>1. PICK f \in Files : PickSecondFile(f)
    BY <1>2
  <2>2. LeftBehind' = LeftBehind
    <3>1. runId' = [runId EXCEPT ![mount] = runId[mount] + 1] /\ mount' = mount
      BY <2>1 DEF PickSecondFile, NewRunId
    <3>2. \A m \in Mounts : m # mount => flight'[m] = flight[m]
      BY <1>0, <2>1 DEF PickSecondFile, Start, PInv, Typed
    <3> QED
      BY <1>0, <3>1, <3>2, LeftKept
  <2>3. file # NoFile /\ need # "none" /\ result = NoResult /\ secondFile = NoFile
    BY <2>1 DEF PickSecondFile, SecondRow
  <2>4. ~busy
    BY <2>3 DEF PInv, CurrentIsOwn
  <2>5. Promise!PickSecondFile(f)
    BY <1>0, <2>1, <2>2, <2>3, <2>4 DEF PickSecondFile, Promise!PickSecondFile
  <2> QED
    BY <2>5 DEF Promise!Next
<1>3. CASE ClearAll
  <2>2. LeftBehind' = LeftBehind
    BY <1>3, LeftKept, <1>0 DEF ClearAll, NewRunId
  <2>3. file # NoFile
    BY <1>3 DEF ClearAll, PrimaryRow
  <2>4. Promise!ClearAll
    BY <1>0, <1>3, <2>2, <2>3 DEF ClearAll, Promise!ClearAll, Promise!Blank
  <2> QED
    BY <2>4 DEF Promise!Next
<1>4. CASE VerifyPrimary
  <2>2. LeftBehind' = LeftBehind
    <3>1. runId' = [runId EXCEPT ![mount] = runId[mount] + 1] /\ mount' = mount
      BY <1>4 DEF VerifyPrimary, NewRunId
    <3>2. \A m \in Mounts : m # mount => flight'[m] = flight[m]
      BY <1>0, <1>4 DEF VerifyPrimary, Start, PInv, Typed
    <3> QED
      BY <1>0, <3>1, <3>2, LeftKept
  <2>3. file # NoFile /\ need = "none" /\ result = NoResult /\ ~busy
    BY <1>4 DEF VerifyPrimary, PrimaryRow
  <2>4. Promise!Verify
    BY <1>0, <1>4, <2>2, <2>3 DEF VerifyPrimary, Promise!Verify
  <2> QED
    BY <2>4 DEF Promise!Next
<1>5. CASE RemoveSecond
  <2>2. LeftBehind' = LeftBehind
    BY <1>5, LeftKept, <1>0 DEF RemoveSecond, NewRunId
  <2>3. need # "none" /\ result = NoResult /\ secondFile # NoFile
    BY <1>5 DEF RemoveSecond, SecondRow
  <2>4. Promise!RemoveSecond
    BY <1>0, <1>5, <2>2, <2>3 DEF RemoveSecond, Promise!RemoveSecond
  <2> QED
    BY <2>4 DEF Promise!Next
<1>6. CASE Leave
  <2>1. mount + 1 \in Mounts
    BY <1>0, <1>6, PageAssumption DEF Leave, Mounts
  <2>2. Promise!Leave
    BY <1>0, <1>6, <2>1, LeftByLeaving DEF Leave, Promise!Leave, Promise!Blank
  <2> QED
    BY <2>2 DEF Promise!Next
<1> QED
  BY <1>1, <1>2, <1>3, <1>4, <1>5, <1>6 DEF User
-----------------------------------------------------------------------------
(* A stale run ends, and nothing happens.                                  *)
LEMMA PromiseDrops ==
  ASSUME PInv, NEW m \in Mounts, NEW i \in Runs, Drops(m, i)
  PROVE  UNCHANGED Promise!vars
<1>1. LeftBehind' = LeftBehind
  BY LeftSame, Records DEF PInv, Drops, Ends
<1> QED
  BY <1>1 DEF Drops, page, Promise!vars, Promise!page

(* The files are read: nothing the user is promised depends on it.         *)
LEMMA PromiseRead ==
  ASSUME PInv, NEW m \in Mounts, NEW i \in Runs, FilesRead(m, i)
  PROVE  UNCHANGED Promise!vars
<1>1. CASE Drops(m, i)
  BY <1>1, PromiseDrops
<1>2. CASE ~Drops(m, i)
  <2> DEFINE r == [flight[m][i] EXCEPT !.at = "validate"]
  <2>1. /\ flight[m][i].at = "read"
        /\ i = runId[m]
        /\ UNCHANGED <<mount, runId, page, history>>
    BY <1>2 DEF FilesRead
  <2>2. r \in RunRecord /\ r.at # "idle" /\ Request(r) = Request(flight[m][i])
    BY <2>1, CurrentRun DEF PInv, RunRecord, Request
  <2>3. flight' = [flight EXCEPT ![m][i] = r]
    BY <1>2, CurrentRun DEF FilesRead, PInv, Typed
  <2> HIDE DEF r
  <2>7. LeftBehind' = LeftBehind
    BY <2>1, <2>2, <2>3, LeftSame DEF PInv
  <2> QED
    BY <2>1, <2>7 DEF page, Promise!vars, Promise!page
<1> QED
  BY <1>1, <1>2

(* A failure is the page's, or nothing, or the end of what was left.       *)
LEMMA PromiseFails ==
  ASSUME PInv, RunHasFile, NEW m \in Mounts, NEW i \in Runs, Fails(m, i)
  PROVE  Promise!Next \/ UNCHANGED Promise!vars
<1>1. /\ flight' = [flight EXCEPT ![m][i] = NoRun] /\ flight[m][i].at # "idle"
      /\ UNCHANGED <<mount, runId, file, secondFile, need, result, history>>
  BY DEF Fails, Ends
<1>2. CASE i # runId[m]
  <2>1. LeftBehind' = LeftBehind
    BY <1>1, <1>2, LeftSame, Records DEF PInv
  <2> QED
    BY <1>1, <1>2, <2>1 DEF Fails, Promise!vars, Promise!page
<1>3. CASE i = runId[m] /\ m = mount
  <2>1. LeftBehind' = LeftBehind
    BY <1>1, <1>3, LeftSame, Records DEF PInv
  <2>2. busy
    BY <1>1, <1>3 DEF PInv, BusyHasRun
  <2>3. Promise!Fail
    BY <1>1, <1>3, <2>1, <2>2 DEF Fails, Sets, Promise!Fail
  <2> QED
    BY <2>3 DEF Promise!Next
<1>4. CASE i = runId[m] /\ m # mount
  <2>1. LeftBehind[m] # Promise!NoRequest
    BY <1>1, <1>4, LeftRequest DEF PInv
  <2>2. LeftBehind' = [LeftBehind EXCEPT ![m] = Promise!NoRequest]
    BY <1>1, <1>4, LeftEnds DEF PInv, Ends
  <2>3. error' = error /\ busy' = busy
    BY <1>4 DEF Fails, Sets
  <2>4. Promise!EndLeft(m)
    BY <1>1, <2>1, <2>2, <2>3 DEF Promise!EndLeft, Promise!page
  <2> QED
    BY <2>4 DEF Promise!Next
<1> QED
  BY <1>2, <1>3, <1>4

(* An answer for a visit that is over is at most recorded.                 *)
LEMMA PromiseAnswersLeft ==
  ASSUME PInv, RunHasFile, NEW m \in Mounts, NEW i \in Runs, Validated(m, i),
         i = runId[m], m # mount
  PROVE  Promise!EndLeft(m)
<1> DEFINE q == Request(flight[m][i])
<1>1. /\ Ends(m, i) /\ flight[m][i].at = "validate"
      /\ UNCHANGED <<mount, runId, file, busy, secondFile, need, error, result>>
      /\ \/ /\ Validate(q.document, q.content) = "VALIDATED"
            /\ \E inds \in Reports : Record(q, inds)
         \/ history' = history
  BY DEF Validated, Drops, Sets, Shows
<1>2. LeftBehind[m] = q /\ LeftBehind[m] # Promise!NoRequest
  BY <1>1, LeftRequest DEF PInv
<1>3. LeftBehind' = [LeftBehind EXCEPT ![m] = Promise!NoRequest]
  BY <1>1, LeftEnds DEF PInv
<1>4. q = [document |-> q.document, content |-> q.content]
  BY DEF Request
<1> HIDE DEF q
<1>5. \/ /\ Promise!Complete(q)
         /\ \E inds \in Reports : history' = Promise!Recorded(q, inds)
      \/ history' = history
  BY <1>1, <1>4, ValidIsComplete, RecordIsPromised
<1> QED
  BY <1>1, <1>2, <1>3, <1>5 DEF Promise!EndLeft, Promise!page

(* An answer to the page's own verification: a report, a question or the   *)
(* refusal of the second file, for the files on the screen.                *)
LEMMA PromiseAnswers ==
  ASSUME PInv, NEW m \in Mounts, NEW i \in Runs, Validated(m, i), i = runId[m], m = mount
  PROVE  Promise!Report \/ Promise!Ask \/ Promise!Refuse
<1> DEFINE r    == flight[m][i]
           q    == Request(r)
           kind == Validate(q.document, q.content)
<1>1. /\ Ends(m, i) /\ r.at = "validate" /\ q.document \notin Empty
      /\ UNCHANGED <<mount, runId, file>> /\ busy' = FALSE
      /\ \/ /\ kind = "VALIDATED"
            /\ \E inds \in Reports : Shows(m, i, inds)
            /\ UNCHANGED <<secondFile, need, error>>
         \/ /\ kind # "VALIDATED" /\ r.second = NoFile
            /\ need' = IF kind = "NOT_A_SIGNATURE" THEN "signature" ELSE "source"
            /\ UNCHANGED <<secondFile, result, error, history>>
         \/ /\ kind # "VALIDATED" /\ r.second # NoFile
            /\ error' = "wrongSecondFile" /\ secondFile' = NoFile
            /\ UNCHANGED <<need, result, history>>
  BY DEF Validated, Drops, Sets
<1>2. /\ busy /\ file \in Files
      /\ r.file = file /\ r.second = secondFile /\ r.need = need
      /\ secondFile = NoFile <=> need = "none"
  BY <1>1, OwnRun
<1>3. q = Promise!Pending /\ q = [document |-> q.document, content |-> q.content]
  BY <1>2 DEF Request, Promise!Pending
<1>4. LeftBehind' = LeftBehind
  BY <1>1, LeftSame, Records DEF PInv, Ends
<1>5. kind = "NOT_A_SIGNATURE" <=> q.document \in Plain
  BY PlainIsNoSignature
<1>6. kind = "VALIDATED" <=> Promise!Complete(q)
  BY <1>3, ValidIsComplete
<1>7. secondFile = NoFile => q.document = file
  BY <1>2 DEF Request
<1>8. \A inds \in Reports : Shows(m, i, inds) =>
        /\ result' = [document |-> q.document, content |-> q.content, inds |-> inds]
        /\ history' = Promise!Recorded(q, inds)
  BY RecordIsPromised DEF Shows, Sets
<1> HIDE DEF q, kind, r
<1>9. CASE kind = "VALIDATED"
  <2>1. Promise!Report
    BY <1>1, <1>2, <1>3, <1>4, <1>6, <1>8, <1>9 DEF Promise!Report
  <2> QED
    BY <2>1
<1>10. CASE kind # "VALIDATED" /\ secondFile = NoFile
  <2>1. Promise!Ask
    BY <1>1, <1>2, <1>3, <1>4, <1>5, <1>6, <1>7, <1>10 DEF Promise!Ask
  <2> QED
    BY <2>1
<1>11. CASE kind # "VALIDATED" /\ secondFile # NoFile
  <2>1. Promise!Refuse
    BY <1>1, <1>2, <1>3, <1>4, <1>6, <1>11 DEF Promise!Refuse
  <2> QED
    BY <2>1
<1> QED
  BY <1>9, <1>10, <1>11

LEMMA PromiseStep == PInv /\ RunHasFile /\ [Next]_vars => [Promise!Next]_(Promise!vars)
<1> SUFFICES ASSUME PInv, RunHasFile, [Next]_vars
             PROVE  Promise!Next \/ UNCHANGED Promise!vars
  OBVIOUS
<1>1. CASE User
  BY <1>1, PromiseUser
<1>2. ASSUME NEW m \in Mounts, NEW i \in Runs, Step(m, i)
      PROVE  Promise!Next \/ UNCHANGED Promise!vars
  <2>1. CASE FilesRead(m, i)
    BY <2>1, PromiseRead
  <2>2. CASE Fails(m, i)
    BY <2>2, PromiseFails
  <2>3. CASE Validated(m, i) /\ i # runId[m]
    <3>1. Drops(m, i)
      BY <2>3 DEF Validated
    <3> QED
      BY <3>1, PromiseDrops
  <2>4. CASE Validated(m, i) /\ i = runId[m] /\ m # mount
    BY <2>4, PromiseAnswersLeft DEF Promise!Next
  <2>5. CASE Validated(m, i) /\ i = runId[m] /\ m = mount
    BY <2>5, PromiseAnswers DEF Promise!Next
  <2> QED
    BY <1>2, <2>1, <2>2, <2>3, <2>4, <2>5 DEF Step
<1>3. CASE UNCHANGED vars
  <2>1. LeftBehind' = LeftBehind
    BY <1>3 DEF vars, page, LeftBehind, Request
  <2> QED
    BY <1>3, <2>1 DEF vars, page, Promise!vars, Promise!page
<1> QED
  BY <1>1, <1>2, <1>3 DEF Next

(* Run ids do what they are for: the page behaves as if every edit ended   *)
(* the verification in progress, and one left behind can only add an entry *)
(* to the history (ValidatePage.tsx:370-480).                              *)
THEOREM RunIdsKeepPromise == Spec => KeepsPromise
<1>1. Init /\ [][Next]_vars => [](PInv /\ RunHasFile)
  BY InitPInv, StepPInv, InitRunHasFile, StepRunHasFile, PTL
<1> QED
  BY <1>1, PromiseInit, PromiseStep, PTL DEF Spec, KeepsPromise, Promise!Spec
=============================================================================
