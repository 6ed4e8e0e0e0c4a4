--------------------------- MODULE MCDeepLinkSign ---------------------------
(* Instances of DeepLinkSign for TLC.                                      *)
EXTENDS DeepLinkSign, TLC

CONSTANTS c1, c2, k1, k2, s1, s2

MCKeyIdOf == [c \in Cards |-> IF c = c1 THEN k1 ELSE k2]

(* Clicks on Sign, by link.                                                *)
TwiceThenNone == <<2, 0>>
Twice         == <<2>>

(* Two runs differ in nothing but their names.                             *)
FlowSymmetry == Permutations({s1, s2})
=============================================================================
