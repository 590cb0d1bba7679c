------------------------------- MODULE Powers --------------------------------
(***************************************************************************)
(* Powers of natural numbers as a recursive function: what Integers calls  *)
(* b ^ n, in a form that proofs can unfold.                                *)
(***************************************************************************)
EXTENDS Integers

Pow(b, n) == LET power[i \in 0 .. n] == IF i = 0 THEN 1 ELSE b * power[i - 1] IN power[n]
=============================================================================
