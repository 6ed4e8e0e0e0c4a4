-------------------------- MODULE MCSignWorkspace ---------------------------
(* Instances of SignWorkspace for TLC.                                     *)
EXTENDS SignWorkspace, TLC

CONSTANTS c1, c2, k1, k2, b1, b2

MCKeyIdOf == [c \in Cards |-> IF c = c1 THEN k1 ELSE k2]

(* Two runs differ in nothing but their names, and so do two cards with    *)
(* their keys.                                                             *)
FlowSymmetry == Permutations({b1, b2})
CardSymmetry ==
  {p \in Permutations({c1, c2, k1, k2}) :
     \A c \in Cards : p[c] \in Cards /\ p[MCKeyIdOf[c]] = MCKeyIdOf[p[c]]}
=============================================================================
