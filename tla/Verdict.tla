------------------------------- MODULE Verdict ------------------------------
(***************************************************************************)
(* The overall verdict on a document's signatures.  The server, the page,  *)
(* the link overlay and the calling site each compute it from the          *)
(* indications, in the order of the report; nothing in the code ties the   *)
(* four together, nor the home screen, which reads it in the history.      *)
(***************************************************************************)
EXTENDS Sequences, Integers

Indications == {"TOTAL_PASSED", "INDETERMINATE", "TOTAL_FAILED"}

Some(inds, i)  == \E k \in DOMAIN inds : inds[k] = i
Every(inds, i) == \A k \in DOMAIN inds : inds[k] = i

(* The server: its loop returns at the first failure.                      *)
OverallIndication(inds) ==
  IF Some(inds, "TOTAL_FAILED") THEN "TOTAL_FAILED"
  ELSE IF Every(inds, "TOTAL_PASSED") THEN "TOTAL_PASSED" ELSE "INDETERMINATE"

(* A page that is content with one good signature.                         *)
OverallVariantLax(inds) ==
  CASE inds = << >>                -> "nosig"
    [] Some(inds, "TOTAL_PASSED")  -> "ok"
    [] Some(inds, "TOTAL_FAILED")  -> "danger"
    [] OTHER                       -> "warn"

(* The verification page.                                                  *)
OverallVariant(inds) ==
  CASE inds = << >>                -> "nosig"
    [] Some(inds, "TOTAL_FAILED")  -> "danger"
    [] Every(inds, "TOTAL_PASSED") -> "ok"
    [] OTHER                       -> "warn"

(* The link overlay; its caller never sees a report without signatures.    *)
OverallVerdict(inds) ==
  IF Some(inds, "TOTAL_FAILED") THEN "danger"
  ELSE IF inds # << >> /\ Every(inds, "TOTAL_PASSED") THEN "ok" ELSE "warn"

(* The site that asked, of the report it was posted.                       *)
VerifyCallback(inds) == inds # << >> /\ Every(inds, "TOTAL_PASSED")

(* The home screen, of the verdict in an entry of the history: what is not *)
(* a pass is shown as invalid, an indeterminate verdict too.               *)
Badge(verdict) ==
  CASE verdict = "TOTAL_PASSED" -> "ok"
    [] verdict = ""             -> "warn"
    [] OTHER                    -> "danger"

(* What the four say of one report.                                        *)
Agree(inds) ==
  LET said == [TOTAL_PASSED |-> "ok", TOTAL_FAILED |-> "danger", INDETERMINATE |-> "warn"]
  IN  /\ said[OverallIndication(inds)] = OverallVariant(inds)
      /\ OverallVariant(inds) = OverallVerdict(inds)
      /\ VerifyCallback(inds) <=> OverallVerdict(inds) = "ok"
=============================================================================
