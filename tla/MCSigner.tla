------------------------------ MODULE MCSigner ------------------------------
(* Instances of Signer for TLC: two cards with different key ids.          *)
EXTENDS Signer, TLC

CONSTANTS c1, c2, k1, k2, w1, w2

MCKeyIdOf == (c1 :> k1) @@ (c2 :> k2)
=============================================================================
