------------------------------- MODULE MCChat -------------------------------
(* Instances of Chat for TLC: users are model values, u1 is the nounu.     *)
EXTENDS Chat, TLC

CONSTANTS u1, u2

\* Rooms asked for from either side, and one that u2 has with itself, in
\* which u1 is a stranger.
ThreePairs == {<<u1, u2>>, <<u2, u1>>, <<u2, u2>>}

=============================================================================
