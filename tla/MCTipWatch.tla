----------------------------- MODULE MCTipWatch -----------------------------
(***************************************************************************)
(* An instance of TipWatch: two heights; the timeout and the sleep have    *)
(* the same length as in the code, the retry is shorter, and a fallback    *)
(* is only tried after the timeout has passed.                             *)
(***************************************************************************)
EXTENDS TipWatch

MCHeight == 1..2
=============================================================================
