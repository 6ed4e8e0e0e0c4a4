---------------------------- MODULE Prerequisites ---------------------------
(***************************************************************************)
(* The rows that tell the user what is still missing: the middleware and   *)
(* the card, which one probe answers for both, and the embedded server.    *)
(* The wizard's first step and the prerequisites screen hold the same code *)
(* and are never shown together.  A detection asks both probes and waits   *)
(* for both answers.  It is started on mount, by the poll and by a button, *)
(* whether or not an earlier one is still in flight, and whichever answers *)
(* last fills the rows.                                                    *)
(***************************************************************************)
EXTENDS Signer

CONSTANT Detectors  (* bound: the detections that can be in flight at once *)

ASSUME DetectorsAssumption == Detectors \subseteq Clients

VARIABLES
  ready,     (* backendApi.ready answers true                              *)
  rows,      (* the rows shown; the middleware's is the card's             *)
  detection  (* per detection, what the server answered, or "ignored" once *)
             (* the screen that started it is gone; the card's answer is   *)
             (* its reply                                                  *)

detecting == <<rows, detection>>

Checking == [token |-> "checking", backend |-> "checking"]

RowsTypeOK ==
  /\ ready \in BOOLEAN
  /\ rows \in {Checking} \cup [token: {"ok", "waiting"}, backend: {"ok", "waiting"}]
  /\ detection \in [Detectors -> {"idle", "asked", "ok", "waiting", "ignored"}]

(* All rows are ok, or they are in and some are not.                       *)
AllOk      == rows.token = "ok" /\ rows.backend = "ok"
AnyMissing == rows # Checking /\ ~AllOk

(* detect, up to its first await.                                          *)
Detect(d) ==
  /\ detection[d] = "idle"
  /\ rows' = Checking
  /\ detection' = [detection EXCEPT ![d] = "asked"]

(* The screen goes; what it started goes on and shows nothing.             *)
Abandoned == [d \in Detectors |-> IF detection[d] = "idle" THEN "idle" ELSE "ignored"]

UnmountRows == rows' = Checking /\ detection' = Abandoned

(* A screen comes, and its effect detects.                                 *)
MountRows(d) ==
  /\ detection[d] = "idle"
  /\ rows' = Checking
  /\ detection' = [Abandoned EXCEPT ![d] = "asked"]

(* A poll that is over once the card is there.                             *)
PollUntilCard(d) ==
  /\ rows.token # "ok"
  /\ Detect(d)
  /\ UNCHANGED <<vars, ready>>

(* The interval, which is gone as long as all rows are ok.                 *)
Poll(d) ==
  /\ ~AllOk
  /\ Detect(d)
  /\ UNCHANGED <<vars, ready>>

(* The button of the rows that wait.                                       *)
RetryDetection(d) ==
  /\ Detect(d)
  /\ UNCHANGED <<vars, ready>>

BackendUp ==
  /\ ~ready
  /\ ready' = TRUE
  /\ UNCHANGED <<vars, detecting>>

(* agentApi.isAvailable is run by the shell.                               *)
ProbeToken(d) ==
  /\ detection[d] # "idle"
  /\ Sent(d)
  /\ List(d, "available") \/ OpenFails(d, "available")
  /\ UNCHANGED <<ready, detecting>>

(* backendApi.ready answered.                                              *)
ProbeBackend(d) ==
  /\ detection[d] = "asked"
  /\ detection' = [detection EXCEPT ![d] = IF ready THEN "ok" ELSE "waiting"]
  /\ UNCHANGED <<vars, ready, rows>>

(* A detection that does not wait for the server's answer.                 *)
DetectedEarly(d) ==
  /\ Answered(d, "available")
  /\ Take(d)
  /\ detection' = [detection EXCEPT ![d] = "idle"]
  /\ rows' = IF detection[d] = "ignored" THEN rows
             ELSE [token   |-> IF reply[d].code = "ok" THEN "ok" ELSE "waiting",
                   backend |-> detection[d]]
  /\ UNCHANGED ready

(* Both probes answered.                                                   *)
Detected(d) ==
  /\ Answered(d, "available")
  /\ detection[d] # "asked"
  /\ Take(d)
  /\ detection' = [detection EXCEPT ![d] = "idle"]
  /\ rows' = IF detection[d] = "ignored" THEN rows
             ELSE [token   |-> IF reply[d].code = "ok" THEN "ok" ELSE "waiting",
                   backend |-> detection[d]]
  /\ UNCHANGED ready
=============================================================================
