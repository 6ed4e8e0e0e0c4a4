---------------------------- MODULE MCVerifyPage ----------------------------
(* An instance of VerifyPage for TLC.                                      *)
EXTENDS VerifyPage

CONSTANTS self, detached, source, empty
=============================================================================
