-------------------------- MODULE MCAdministration --------------------------
(***************************************************************************)
(* Two scripts at once, beside two requests of the administrators.         *)
(***************************************************************************)
EXTENDS Administration

\* Scripts and requests are interchangeable; the run checks only safety.
ProcessSymmetry == Permutations(Scripts) \cup Permutations(Handlers)

=============================================================================
