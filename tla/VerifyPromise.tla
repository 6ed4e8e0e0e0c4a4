---------------------------- MODULE VerifyPromise ---------------------------
(***************************************************************************)
(* What the verification page promises its user, with no mention of run    *)
(* ids, of copies of the files, or of what is read and sent when.  There   *)
(* is one verification at a time, that of the files on the screen: every   *)
(* edit of the page ends it for good.  Leaving the tab is the exception.   *)
(* The verification then goes on without a page, and all that can come of  *)
(* it is one entry in the history.  Module VerifyPage implements it.       *)
(***************************************************************************)
EXTENDS Verdict

CONSTANTS
  Files,     (* the user's files                                           *)
  Plain,     (* those that are not a signature                             *)
  Detached,  (* those that sign a document they do not contain             *)
  Empty,     (* the plain ones without a byte                              *)
  NoFile,
  Mounts,    (* the visits to the tab                                      *)
  Reports,   (* the indications the server may give                        *)
  MAX        (* entries the history keeps                                  *)

VARIABLES
  mount,     (* the visit in progress                                      *)
  file, secondFile, need, busy, result, error,
  left,      (* per visit, the request it left behind                      *)
  history

page == <<file, secondFile, need, busy, result, error>>
vars == <<mount, page, left, history>>

NoRequest == [document |-> NoFile, content |-> NoFile]
NoResult  == [document |-> NoFile, content |-> NoFile, inds |-> << >>]

(* The verification in progress is that of the files on the screen, in the *)
(* roles that the question the page asked gives them.                      *)
Pending ==
  IF need = "signature" THEN [document |-> secondFile, content |-> file]
                        ELSE [document |-> file, content |-> secondFile]

(* The document is a signature, and the content it signs is known.         *)
Complete(r) ==
  /\ r.document \notin Plain
  /\ r.document \in Detached => r.content \notin Empty \cup {NoFile}

(* The report on a request enters the history under the signature's name.  *)
Recorded(r, inds) ==
  LET all == <<[name |-> r.document, verdict |-> OverallIndication(inds)]>> \o history
  IN  SubSeq(all, 1, IF Len(all) < MAX THEN Len(all) ELSE MAX)

Init ==
  /\ mount = 1
  /\ file = NoFile /\ secondFile = NoFile
  /\ need = "none"
  /\ busy = FALSE
  /\ result = NoResult
  /\ error = "none"
  /\ left = [m \in Mounts |-> NoRequest]
  /\ history = << >>
-----------------------------------------------------------------------------
(* The page holds f and nothing else.                                      *)
Blank(f) ==
  /\ file' = f
  /\ secondFile' = NoFile
  /\ need' = "none"
  /\ busy' = FALSE
  /\ result' = NoResult
  /\ error' = "none"

PickFile(f) ==
  /\ file = NoFile
  /\ Blank(f)
  /\ UNCHANGED <<mount, left, history>>

ClearAll ==
  /\ file # NoFile
  /\ Blank(NoFile)
  /\ UNCHANGED <<mount, left, history>>

Verify ==
  /\ file # NoFile /\ need = "none" /\ result = NoResult /\ ~busy
  /\ busy' = TRUE
  /\ error' = "none"
  /\ UNCHANGED <<mount, file, secondFile, need, result, left, history>>

PickSecondFile(f) ==
  /\ file # NoFile /\ need # "none" /\ result = NoResult /\ ~busy
  /\ secondFile = NoFile
  /\ secondFile' = f
  /\ busy' = TRUE
  /\ error' = "none"
  /\ UNCHANGED <<mount, file, need, result, left, history>>

RemoveSecond ==
  /\ need # "none" /\ result = NoResult
  /\ secondFile # NoFile
  /\ secondFile' = NoFile
  /\ busy' = FALSE
  /\ UNCHANGED <<mount, file, need, result, error, left, history>>

(* Another tab and back.                                                   *)
Leave ==
  /\ mount + 1 \in Mounts
  /\ mount' = mount + 1
  /\ left' = [left EXCEPT ![mount] = IF busy THEN Pending ELSE NoRequest]
  /\ Blank(NoFile)
  /\ UNCHANGED history

(* The verification ends with an error, ...                                *)
Fail ==
  /\ busy
  /\ busy' = FALSE
  /\ error' = "failed"
  /\ UNCHANGED <<mount, file, secondFile, need, result, left, history>>

(* ... with a report that is shown and recorded, ...                       *)
Report ==
  /\ busy
  /\ busy' = FALSE
  /\ Complete(Pending)
  /\ \E inds \in Reports :
       /\ result' = [document |-> Pending.document, content |-> Pending.content,
                     inds |-> inds]
       /\ history' = Recorded(Pending, inds)
  /\ UNCHANGED <<mount, file, secondFile, need, error, left>>

(* ... by asking for the other file, ...                                   *)
Ask ==
  /\ busy
  /\ busy' = FALSE
  /\ secondFile = NoFile
  /\ ~Complete(Pending)
  /\ file \notin Empty
  /\ need' = IF file \in Plain THEN "signature" ELSE "source"
  /\ UNCHANGED <<mount, file, secondFile, result, error, left, history>>

(* ... or by refusing the one that was given.                              *)
Refuse ==
  /\ busy
  /\ busy' = FALSE
  /\ secondFile # NoFile
  /\ ~Complete(Pending)
  /\ secondFile' = NoFile
  /\ error' = "wrongSecondFile"
  /\ UNCHANGED <<mount, file, need, result, left, history>>

(* The verification that visit m left behind ends; nobody sees how.        *)
EndLeft(m) ==
  /\ left[m] # NoRequest
  /\ left' = [left EXCEPT ![m] = NoRequest]
  /\ \/ Complete(left[m]) /\ \E inds \in Reports : history' = Recorded(left[m], inds)
     \/ history' = history
  /\ UNCHANGED <<mount, page>>

Next ==
  \/ \E f \in Files : PickFile(f) \/ PickSecondFile(f)
  \/ ClearAll \/ Verify \/ RemoveSecond \/ Leave
  \/ Fail \/ Report \/ Ask \/ Refuse
  \/ \E m \in Mounts : EndLeft(m)

Spec == Init /\ [][Next]_vars
=============================================================================
