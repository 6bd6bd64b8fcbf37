----------------------------- MODULE MCPayments -----------------------------
(***************************************************************************)
(* Instances of Payments for TLC.  Users, payments, packs and handlers are *)
(* model values; a user buys either without naming a pack or for pack k1.  *)
(***************************************************************************)
EXTENDS Payments, TLC

CONSTANTS u1, k1

\* Every payment is made by u1; another user, if any, only tries to use it.
OwnerIsU1 == [p \in Payments |-> u1]

\* Payments that name no pack: 30 days, here DefaultDays.
WithoutPack == [p \in Payments |-> Null]

\* Payments for the pack k1.
ForPack == [p \in Payments |-> k1]

\* Requests are interchangeable; only safety runs use this.
HandlerSymmetry == Permutations(Handlers)

=============================================================================
