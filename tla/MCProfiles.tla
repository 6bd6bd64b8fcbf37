----------------------------- MODULE MCProfiles -----------------------------
(* Instances of Profiles for TLC: one form with two items.                 *)
EXTENDS Profiles, TLC

CONSTANTS a, b

OneForm == {{a, b}}
=============================================================================
