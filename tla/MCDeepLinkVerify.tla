-------------------------- MODULE MCDeepLinkVerify --------------------------
(* An instance of DeepLinkVerify for TLC.                                  *)
EXTENDS DeepLinkVerify
=============================================================================
