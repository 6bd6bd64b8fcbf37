------------------------- MODULE SubscriptionLedger -------------------------
(***************************************************************************)
(* What the payment side of the backend promises, without its requests,    *)
(* statuses, snapshots and failures: the provider settles payments, and    *)
(* the ledger of subscriptions only ever grows by an entry that is either  *)
(* backed by a payment settled before it, and then belongs to the user who *)
(* made that payment, or a gift of an administrator.  Entries are never    *)
(* rewritten: whom a subscription belongs to and which payment it rests on *)
(* are decided once.                                                       *)
(***************************************************************************)
EXTENDS Sequences

CONSTANTS Users, Payments, Owner, Null

VARIABLES settled, ledger

Entry(u, p) == [user |-> u, pay |-> p]

Init == settled = {} /\ ledger = <<>>

\* The provider completes a payment.
Settle(p) ==
    /\ settled' = settled \cup {p}
    /\ UNCHANGED ledger

\* A settled payment yields a subscription for its owner.
Grant(p) ==
    /\ p \in settled
    /\ ledger' = Append(ledger, Entry(Owner[p], p))
    /\ UNCHANGED settled

\* An administrator gives a subscription away.
Give(u) ==
    /\ ledger' = Append(ledger, Entry(u, Null))
    /\ UNCHANGED settled

Next ==
    \/ \E p \in Payments : Settle(p) \/ Grant(p)
    \/ \E u \in Users : Give(u)

Spec == Init /\ [][Next]_<<settled, ledger>>

=============================================================================
