---------------------------- MODULE MCMarketplace ---------------------------
(* Instances of Marketplace for TLC: users are model values.               *)
EXTENDS Marketplace
=============================================================================
