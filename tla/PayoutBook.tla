----------------------------- MODULE PayoutBook -----------------------------
(***************************************************************************)
(* What the administration promises about the money sent to a nounu,       *)
(* without its requests, routes and failures: each payout is entered in    *)
(* the book once at most, for good and under its own reference; its line   *)
(* only shows a status that the provider may have given this payout, or    *)
(* that it was given up; and the nounu is congratulated and subscribed     *)
(* for executed payouts only.                                              *)
(***************************************************************************)
EXTENDS Naturals, Sequences

VARIABLES
    sent,  \* sent[k]: the status of payout k at the provider
    book,  \* the lines: the payout's reference, its status, how often told
    gifts  \* the lines that were taken for a purchase and gave a subscription

vars == <<sent, book, gifts>>

Statuses == {"Pending", "Success", "Failed", "Cancelled"}

Init == sent = <<>> /\ book = <<>> /\ gifts = <<>>

\* What the provider may have said of payout k up to now.
Had(k) ==
    CASE sent[k] = "Success"   -> {"Pending", "Success"}
      [] sent[k] = "Cancelled" -> {"Pending", "Success", "Cancelled"}
      [] OTHER                 -> {"Pending"}

Executed(k) == "Success" \in Had(k)

-----------------------------------------------------------------------------
Send == sent' = Append(sent, "Pending") /\ UNCHANGED <<book, gifts>>

\* The provider executes a payout, rejects it or takes it back.
Settle(k, status) ==
    /\ \/ sent[k] = "Pending" /\ status \in {"Success", "Cancelled"}
       \/ sent[k] = "Success" /\ status = "Cancelled"
    /\ sent' = [sent EXCEPT ![k] = status]
    /\ UNCHANGED <<book, gifts>>

Record(k) ==
    /\ \A r \in DOMAIN book : book[r].ref # k
    /\ book' = Append(book, [ref |-> k, status |-> "Pending", told |-> 0])
    /\ UNCHANGED <<sent, gifts>>

\* The line follows the provider, late or not, or an administrator.
Correct(r, status) ==
    /\ status \in Had(book[r].ref) \/ status = "Failed"
    /\ book' = [book EXCEPT ![r].status = status]
    /\ UNCHANGED <<sent, gifts>>

Tell(r) ==
    /\ Executed(book[r].ref)
    /\ book' = [book EXCEPT ![r].told = @ + 1]
    /\ UNCHANGED <<sent, gifts>>

Give(r) ==
    /\ Executed(book[r].ref)
    /\ gifts' = Append(gifts, r)
    /\ UNCHANGED <<sent, book>>

Next ==
    \/ Send
    \/ \E k \in DOMAIN sent : Record(k) \/ \E status \in Statuses : Settle(k, status)
    \/ \E r \in DOMAIN book : \/ Tell(r) \/ Give(r)
                              \/ \E status \in Statuses : Correct(r, status)

Spec == Init /\ [][Next]_vars

=============================================================================
