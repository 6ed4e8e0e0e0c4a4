----------------------------- MODULE VerifyPage -----------------------------
(***************************************************************************)
(* The verification page (ValidatePage.tsx), the server's validate and the *)
(* local history.  A first pass on a file may end by asking for a second   *)
(* one: the source of a detached signature, or the signature of a source.  *)
(* A run of either pass awaits the reading of its files and the server;    *)
(* its run id tells it, after each await, that it has become stale.        *)
(* Leaving the tab drops the page but not its runs, nor their run id: each *)
(* mount of the page has its own.                                          *)
(***************************************************************************)
EXTENDS Verdict, FiniteSets

CONSTANTS
  Files,     (* the user's files                                           *)
  Plain,     (* those that are not a signature                             *)
  Detached,  (* those that sign a document they do not contain             *)
  Empty,     (* the plain ones without a byte                              *)
  NoFile,
  MaxRuns,   (* bound: run ids used by a mount                             *)
  MaxMounts, (* bound: mounts of the page                                  *)
  MaxSigs,   (* bound: signatures in a document                            *)
  MAX        (* entries the history keeps                                  *)

ASSUME PageAssumption ==
  /\ Empty \subseteq Plain /\ Plain \subseteq Files /\ Detached \subseteq Files /\ Plain \cap Detached = {}
  /\ NoFile \notin Files
  /\ MaxRuns \in Nat /\ MaxMounts \in Nat \ {0} /\ MaxSigs \in Nat \ {0}
  /\ MAX \in Nat \ {0}

VARIABLES
  mount,     (* the mount of the page on the screen                        *)
  runId,     (* per mount, runIdRef.current                                *)
  file, secondFile,
  need,      (* what the first pass asked for, or "none"                   *)
  busy,
  result,    (* the report shown: the document, its content, indications   *)
  error,
  flight,    (* per mount and run id, the run in progress                  *)
  history    (* entries, most recent first                                 *)

page == <<file, secondFile, need, busy, result, error>>
vars == <<mount, runId, page, flight, history>>

Mounts == 1..MaxMounts
Runs   == 0..MaxRuns
NoRun  == [at |-> "idle", file |-> NoFile, second |-> NoFile, need |-> "none"]
NoResult == [document |-> NoFile, content |-> NoFile, inds |-> << >>]
Reports  == UNION {[1..n -> Indications] : n \in 1..MaxSigs}
Kinds    == {"VALIDATED", "DETACHED_CONTENT_REQUIRED", "NOT_A_SIGNATURE"}

PageTypeOK ==
  /\ mount \in Mounts
  /\ runId \in [Mounts -> Runs]
  /\ file \in Files \cup {NoFile} /\ secondFile \in Files \cup {NoFile}
  /\ need \in {"none", "source", "signature"}
  /\ busy \in BOOLEAN
  /\ result = NoResult \/ result \in [document: Files, content: Files \cup {NoFile}, inds: Reports]
  /\ error \in {"none", "failed", "wrongSecondFile"}
  /\ \A m \in Mounts, i \in Runs :
       flight[m][i] \in [at: {"idle", "read", "validate"}, file: Files \cup {NoFile},
                         second: Files \cup {NoFile}, need: {"none", "source", "signature"}]
  /\ Len(history) <= MAX

Init ==
  /\ mount = 1
  /\ runId = [m \in Mounts |-> 0]
  /\ file = NoFile /\ secondFile = NoFile
  /\ need = "none"
  /\ busy = FALSE
  /\ result = NoResult
  /\ error = "none"
  /\ flight = [m \in Mounts |-> [i \in Runs |-> NoRun]]
  /\ history = << >>
-----------------------------------------------------------------------------
(* runIdRef.current++ of the mounted page.                                 *)
NewRunId == runId[mount] < MaxRuns /\ runId' = [runId EXCEPT ![mount] = @ + 1]

Start(r) == flight' = [flight EXCEPT ![mount][runId'[mount]] = r]

(* DocumentValidationService.validate; a blank content is no content.      *)
Validate(document, content) ==
  CASE document \in Plain                                     -> "NOT_A_SIGNATURE"
    [] document \in Detached /\ content \in Empty \cup {NoFile} -> "DETACHED_CONTENT_REQUIRED"
    [] OTHER                                                  -> "VALIDATED"

(* What the page offers for each file: a drop zone while there is none, or *)
(* its row.  A second file is asked for below the first until there is a   *)
(* result.                                                                 *)
PrimaryRow ==
  IF file = NoFile THEN {"pick"}
  ELSE {"clear"} \cup IF need = "none" /\ result = NoResult /\ ~busy THEN {"verify"} ELSE {}
SecondRow ==
  IF file = NoFile \/ need = "none" \/ result # NoResult THEN {}
  ELSE IF secondFile = NoFile THEN {"pickSecond"} ELSE {"removeSecond"}

(* A file is chosen or dropped.                                            *)
PickFile(chosen) ==
  /\ "pick" \in PrimaryRow
  /\ NewRunId
  /\ file' = chosen
  /\ busy' = FALSE
  /\ secondFile' = NoFile
  /\ need' = "none"
  /\ result' = NoResult
  /\ error' = "none"
  /\ UNCHANGED <<mount, flight, history>>

(* A reset that leaves the run in progress its run id.                     *)
ClearAllKeepsRun ==
  /\ "clear" \in PrimaryRow
  /\ busy' = FALSE
  /\ file' = NoFile
  /\ secondFile' = NoFile
  /\ need' = "none"
  /\ result' = NoResult
  /\ error' = "none"
  /\ UNCHANGED <<mount, runId, flight, history>>

(* The cross on the file's row, or the reset button of a result.           *)
ClearAll ==
  /\ "clear" \in PrimaryRow
  /\ NewRunId
  /\ busy' = FALSE
  /\ file' = NoFile
  /\ secondFile' = NoFile
  /\ need' = "none"
  /\ result' = NoResult
  /\ error' = "none"
  /\ UNCHANGED <<mount, flight, history>>

(* The first pass.                                                         *)
VerifyPrimary ==
  /\ "verify" \in PrimaryRow
  /\ NewRunId
  /\ busy' = TRUE
  /\ error' = "none"
  /\ Start([NoRun EXCEPT !.at = "read", !.file = file])
  /\ UNCHANGED <<mount, file, secondFile, need, result, history>>

(* The second file is chosen, and the second pass begins at once.          *)
PickSecondFile(chosen) ==
  /\ "pickSecond" \in SecondRow
  /\ NewRunId
  /\ secondFile' = chosen
  /\ busy' = TRUE
  /\ error' = "none"
  /\ Start([at |-> "read", file |-> file, second |-> chosen, need |-> need])
  /\ UNCHANGED <<mount, file, need, result, history>>

(* A cross on the second file's row that forgets the spinner.              *)
RemoveSecondStaysBusy ==
  /\ "removeSecond" \in SecondRow
  /\ NewRunId
  /\ secondFile' = NoFile
  /\ UNCHANGED <<mount, busy, file, need, result, error, flight, history>>

(* The cross on the second file's row.                                     *)
RemoveSecond ==
  /\ "removeSecond" \in SecondRow
  /\ NewRunId
  /\ busy' = FALSE
  /\ secondFile' = NoFile
  /\ UNCHANGED <<mount, file, need, result, error, flight, history>>

(* Another tab and back.                                                   *)
Leave ==
  /\ mount < MaxMounts
  /\ mount' = mount + 1
  /\ file' = NoFile /\ secondFile' = NoFile
  /\ need' = "none"
  /\ busy' = FALSE
  /\ result' = NoResult
  /\ error' = "none"
  /\ UNCHANGED <<runId, flight, history>>
-----------------------------------------------------------------------------
(* A run of mount m with run id i.                                         *)

Ends(m, i)  == flight' = [flight EXCEPT ![m][i] = NoRun]

(* What a run sets, if its page is still there.                            *)
Sets(m, var, value) == IF m = mount THEN value ELSE var

(* A run that became stale says nothing.                                   *)
Drops(m, i) ==
  /\ i # runId[m]
  /\ Ends(m, i)
  /\ UNCHANGED <<mount, runId, page, history>>

(* A failure: the files could not be read, or the server did not answer.   *)
Fails(m, i) ==
  /\ flight[m][i].at # "idle"
  /\ Ends(m, i)
  /\ IF i = runId[m]
       THEN error' = Sets(m, error, "failed") /\ busy' = Sets(m, busy, FALSE)
       ELSE UNCHANGED <<error, busy>>
  /\ UNCHANGED <<mount, runId, file, secondFile, need, result, history>>

FilesRead(m, i) ==
  /\ flight[m][i].at = "read"
  /\ \/ Drops(m, i)
     \/ /\ i = runId[m]
        /\ flight' = [flight EXCEPT ![m][i].at = "validate"]
        /\ UNCHANGED <<mount, runId, page, history>>

(* A second pass that always sends the first file as the document.         *)
RequestFirst(r) == [document |-> r.file, content |-> r.second]

(* The roles of the two files depend on what was asked for.                *)
Request(r) ==
  IF r.need = "signature" THEN [document |-> r.second, content |-> r.file]
                          ELSE [document |-> r.file, content |-> r.second]

(* The verdict of the first signature stands for all.                      *)
RecordFirstSignature(request, inds) ==
  LET all == <<[name |-> request.document, verdict |-> inds[1]]>> \o history
  IN  history' = SubSeq(all, 1, IF Len(all) < MAX THEN Len(all) ELSE MAX)

(* A history that is never cut.                                            *)
RecordUncapped(request, inds) ==
  history' = <<[name |-> request.document, verdict |-> OverallIndication(inds)]>> \o history

(* history.add of recordHistory.                                           *)
Record(request, inds) ==
  LET entry == [name    |-> request.document,
                verdict |-> IF OverallVariant(inds) = "ok" THEN "TOTAL_PASSED"
                            ELSE OverallIndication(inds)]
      all   == <<entry>> \o history
  IN  history' = SubSeq(all, 1, IF Len(all) < MAX THEN Len(all) ELSE MAX)

(* A second pass that shows a report whatever became of its page.          *)
ShowsUnguarded(m, i, inds) ==
  LET request == Request(flight[m][i])
  IN  /\ result' = [document |-> request.document, content |-> request.content, inds |-> inds]
      /\ Record(request, inds)

(* A report is shown and recorded; the page may be gone, the record stays. *)
Shows(m, i, inds) ==
  LET request == Request(flight[m][i])
  IN  /\ result' = Sets(m, result, [document |-> request.document,
                                    content |-> request.content, inds |-> inds])
      /\ Record(request, inds)

(* The server answered; it refuses a request without a document.           *)
Validated(m, i) ==
  LET r == flight[m][i]
      kind == Validate(Request(r).document, Request(r).content)
  IN  /\ r.at = "validate"
      /\ Request(r).document \notin Empty
      /\ \/ Drops(m, i)
         \/ /\ i = runId[m]
            /\ Ends(m, i)
            /\ busy' = Sets(m, busy, FALSE)
            /\ \/ /\ kind = "VALIDATED"
                  /\ \E inds \in Reports : Shows(m, i, inds)
                  /\ UNCHANGED <<secondFile, need, error>>
               \/ /\ kind # "VALIDATED"
                  /\ r.second = NoFile
                  /\ need' = Sets(m, need, IF kind = "NOT_A_SIGNATURE" THEN "signature"
                                           ELSE "source")
                  /\ UNCHANGED <<secondFile, result, error, history>>
               \/ /\ kind # "VALIDATED"
                  /\ r.second # NoFile
                  /\ error' = Sets(m, error, "wrongSecondFile")
                  /\ secondFile' = Sets(m, secondFile, NoFile)
                  /\ UNCHANGED <<need, result, history>>
            /\ UNCHANGED <<mount, runId, file>>
-----------------------------------------------------------------------------
User ==
  \/ \E f \in Files : PickFile(f) \/ PickSecondFile(f)
  \/ ClearAll \/ VerifyPrimary \/ RemoveSecond \/ Leave

Step(m, i) == FilesRead(m, i) \/ Validated(m, i) \/ Fails(m, i)

Next == User \/ \E m \in Mounts, i \in Runs : Step(m, i)

(* Reads and requests end, one way or another.                             *)
Spec == Init /\ [][Next]_vars /\ \A m \in Mounts, i \in Runs : WF_vars(Step(m, i))
-----------------------------------------------------------------------------
(* Properties.                                                             *)

(* The report on the screen is about the files on the screen: no answer of *)
(* a file that was replaced, nor of a second file that was removed, and    *)
(* never with the roles swapped (ValidatePage.tsx:409-474).                *)
ResultIsOwn ==
  result # NoResult =>
    /\ {result.document, result.content} \ {NoFile} = {file, secondFile} \ {NoFile}
    /\ result.document \notin Plain

(* The spinner turns exactly while a run of this page that is not stale is *)
(* in progress (ValidatePage.tsx:370-480).                                 *)
BusyHasRun == busy <=> flight[mount][runId[mount]].at # "idle"

(* The page asks for the second file its first file calls for, not for one *)
(* an abandoned first pass called for (ValidatePage.tsx:421-422).          *)
NeedIsOwn ==
  /\ need = "source" => file \in Detached
  /\ need = "signature" => file \in Plain

(* A second file is refused only when neither file is a signature, or it   *)
(* is empty: the right pair is accepted in either order                    *)
(* (ValidatePage.tsx:446-464).                                             *)
WrongSecondIsWrong ==
  [][error' = "wrongSecondFile" /\ error # "wrongSecondFile" =>
       (file \in Plain /\ secondFile \in Plain) \/ secondFile \in Empty]_vars

(* The history records a verification under the name of the signature, the *)
(* home screen shows it as verified exactly when the banner did, and there *)
(* is no entry for a file the user had put aside while the page was there  *)
(* (ValidatePage.tsx:393-406, AccueilScreen.tsx:79-86).                    *)
RecordIsShown ==
  [][history' # history =>
       LET entry == Head(history')
       IN  /\ entry.name \notin Plain
           /\ \/ /\ entry.name = result'.document
                 /\ (Badge(entry.verdict) = "ok") = (OverallVariant(result'.inds) = "ok")
              \/ \E m \in Mounts \ {mount} : flight'[m] # flight[m]]_vars

(* The server's verdict, the banner, the overlay's and the calling site's  *)
(* agree on every report (DocumentValidationService.java:111,              *)
(* ValidatePage.tsx:105, DeepLinkVerifyModal.tsx:80,                       *)
(* deeplink-test.mjs:231).                                                 *)
VerdictsAgree == result # NoResult => Agree(result.inds)

(* A verification ends (ValidatePage.tsx:428,472).                         *)
BusyEnds == busy ~> ~busy
-----------------------------------------------------------------------------
(* What a mount left behind: the request of the current run it had.        *)
LeftBehind ==
  [m \in Mounts |->
     IF m # mount /\ flight[m][runId[m]].at # "idle" THEN Request(flight[m][runId[m]])
     ELSE [document |-> NoFile, content |-> NoFile]]

(* The page keeps the promise of VerifyPromise: the verification there is  *)
(* that of the current run of the mounted page, and stale runs are nothing *)
(* at all (ValidatePage.tsx:370-480).                                      *)
Promise == INSTANCE VerifyPromise WITH left <- LeftBehind

KeepsPromise == Promise!Spec
=============================================================================
