----------------------------- MODULE MCPayouts ------------------------------
(* Instances of Payouts for TLC: handlers are model values.                *)
EXTENDS Payouts
=============================================================================
