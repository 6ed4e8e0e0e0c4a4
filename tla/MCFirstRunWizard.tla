-------------------------- MODULE MCFirstRunWizard --------------------------
(* Instances of FirstRunWizard for TLC.                                    *)
EXTENDS FirstRunWizard, TLC

CONSTANTS c1, k1, d1, d2, t1

MCKeyIdOf == c1 :> k1
=============================================================================
