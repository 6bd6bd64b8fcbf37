------------------------------- MODULE Payouts ------------------------------
(***************************************************************************)
(* Money sent to a nounu: PayNounuUseCase and VerifyNounuPaymentUseCase of *)
(* admin.usecases.ts, GeniusPay's payouts, and the routes written for      *)
(* parents' purchases that a payout reaches all the same, since its row is *)
(* in the same table: the client's verification and the webhook of         *)
(* payment.usecases.ts, the administrators' verification and failure.      *)
(*                                                                         *)
(* The provider is asked before the row exists, and every check of a row   *)
(* is a read, a call to the provider and a write.                          *)
(***************************************************************************)
EXTENDS Integers, Sequences, FiniteSets

CONSTANTS
    Handlers,   \* requests in flight at once
    MaxPayouts, \* bound: payouts asked of the provider
    MaxMoves,   \* bound: checks that the fairness does not ask for
    MaxFaults   \* bound: lost calls and rejected statements

ASSUME PayoutsAssumption ==
    /\ MaxPayouts \in Nat /\ MaxMoves \in Nat /\ MaxFaults \in Nat

VARIABLES
    sent,    \* sent[k]: the status of payout k at the provider
    rows,    \* the payout rows of the payments table
    subs,    \* the nounu's subscriptions; base: how many the request had found
    job,     \* job[h]: what handler h is executing
    lost,    \* ghost: payouts sent by a request that failed before its row
    quiet,   \* ghost: rows that succeeded without a notification
    crossed, \* ghost: rows that two requests checked at once
    moves, faults

table == <<sent, rows, subs>>
ghost == <<lost, quiet, crossed>>
vars == <<table, job, ghost, moves, faults>>

Statuses == {"Pending", "Success", "Failed", "Cancelled"}

Steps == {"idle", "store", "ask", "write", "tell", "lookup", "create"}

\* Who checks: the administrators' routes, the client's, the webhook.
Routes == {"admin", "client", "webhook", "fail"}

Row == [ref : Nat, status : Statuses, told : Nat]

\* seen: the status read; answer: the status to write; n: subscriptions found.
Job == [at : Steps, by : Routes, row : Nat, seen : Statuses, answer : Statuses, n : Nat]

NoJob == [at |-> "idle", by |-> "admin", row |-> 0, seen |-> "Pending",
          answer |-> "Pending", n |-> 0]

Init ==
    /\ sent = <<>> /\ rows = <<>> /\ subs = <<>>
    /\ job = [h \in Handlers |-> NoJob]
    /\ lost = {} /\ quiet = {} /\ crossed = {}
    /\ moves = 0 /\ faults = 0

-----------------------------------------------------------------------------
At(steps) == {h \in Handlers : job[h].at \in steps}

Begin(h, j) == job[h].at = "idle" /\ job' = [job EXCEPT ![h] = j]

Finish(h) == job' = [job EXCEPT ![h] = NoJob]

Checking(r) == {h \in Handlers : job[h].row = r}

-----------------------------------------------------------------------------
(* Sending a payout.                                                       *)

\* A new transaction id, hence a new idempotency key, for every request, and
\* whatever amount the administrator asks for: GeniusPay creates a payout.
PayNounu(h) ==
    /\ Len(sent) < MaxPayouts
    /\ Begin(h, [NoJob EXCEPT !.at = "store", !.n = Len(sent) + 1])
    /\ sent' = Append(sent, "Pending")
    /\ UNCHANGED <<rows, subs, ghost, moves, faults>>

\* GeniusPay creates it and the answer is lost: the request is an error.
AnswerLost(h) ==
    /\ Len(sent) < MaxPayouts /\ faults < MaxFaults /\ faults' = faults + 1
    /\ Begin(h, NoJob)
    /\ sent' = Append(sent, "Pending") /\ lost' = lost \cup {Len(sent) + 1}
    /\ UNCHANGED <<rows, subs, quiet, crossed, moves>>

\* Mutant: a payout already pending for the nounu keeps its row.
BugCreateNounuPayment(h) ==
    /\ job[h].at = "store"
    /\ rows' = IF \E r \in DOMAIN rows : rows[r].status = "Pending" THEN rows
               ELSE Append(rows, [ref |-> job[h].n, status |-> "Pending", told |-> 0])
    /\ Finish(h)
    /\ UNCHANGED <<sent, subs, ghost, moves, faults>>

createNounuPayment(h) ==
    /\ job[h].at = "store"
    /\ rows' = Append(rows, [ref |-> job[h].n, status |-> "Pending", told |-> 0])
    /\ Finish(h)
    /\ UNCHANGED <<sent, subs, ghost, moves, faults>>

-----------------------------------------------------------------------------
(* The nounu's summary.                                                    *)

\* Mutant: the sum is over a status that payouts never have.
BugTotalPaid == Cardinality({r \in DOMAIN rows : rows[r].status = "Completed"})

\* GetNounuDetailsUseCase: only the payouts whose row succeeded, one unit each.
totalPaid == Cardinality({r \in DOMAIN rows : rows[r].status = "Success"})

-----------------------------------------------------------------------------
(* Checking a payout.                                                      *)

\* The row is read.  A success is not asked about again by the webhook, and
\* the client's route goes on to the subscription; only a pending one fails.
Check(h, r, by) ==
    LET seen == rows[r].status IN
    /\ by = "fail" => seen = "Pending"
    /\ by = "webhook" => seen # "Success"
    /\ Begin(h, [NoJob EXCEPT
                   !.at = IF by = "fail" THEN "write"
                          ELSE IF by = "client" /\ seen = "Success" THEN "lookup" ELSE "ask",
                   !.by = by, !.row = r, !.seen = seen,
                   !.answer = IF by = "fail" THEN "Failed" ELSE seen])
    /\ crossed' = IF Checking(r) = {} THEN crossed ELSE crossed \cup {r}
    /\ UNCHANGED <<table, lost, quiet, faults>>

VerifyNounuPayment(h, r) == Check(h, r, "admin")

VerifyAdminPayment(h, r) == Check(h, r, "admin")

VerifyPayment(h, r) == Check(h, r, "client")

HandleNotify(h, r) == Check(h, r, "webhook")

FailAdminPayment(h, r) == Check(h, r, "fail")

verifyPayment(h) ==
    LET j == job[h] IN
    /\ j.at = "ask"
    /\ job' = [job EXCEPT ![h].at = "write", ![h].answer = sent[rows[j.row].ref]]
    /\ UNCHANGED <<table, ghost, moves, faults>>

\* The webhook and the failure write whatever they read before.
Writes(j) == j.by \in {"webhook", "fail"} \/ j.answer # j.seen

\* Mutant: the notification follows every check that finds a success.
BugNextStep(j) ==
    IF j.answer # "Success" THEN "idle"
    ELSE IF j.by = "client" THEN "lookup" ELSE "tell"

\* What follows the write.
NextStep(j) ==
    IF j.answer # "Success" \/ (j.by = "admin" /\ ~Writes(j)) THEN "idle"
    ELSE IF j.by = "client" THEN "lookup" ELSE "tell"

Continue(h, step) ==
    IF step = "idle" THEN Finish(h)
    ELSE job' = [job EXCEPT ![h] = [NoJob EXCEPT !.at = step, !.by = job[h].by,
                                              !.row = job[h].row]]

\* Mutant: whatever the provider answers is stored as a success.
BugUpdatePayment(h) ==
    LET j == job[h] IN
    /\ j.at = "write"
    /\ rows' = IF Writes(j) THEN [rows EXCEPT ![j.row].status = "Success"] ELSE rows
    /\ quiet' = IF Writes(j) /\ (j.by = "fail" \/ (j.by = "client" /\ j.answer = "Success"))
                THEN quiet \cup {j.row} ELSE quiet
    /\ Continue(h, NextStep(j))
    /\ UNCHANGED <<sent, subs, lost, crossed, moves, faults>>

updatePayment(h) ==
    LET j == job[h] IN
    /\ j.at = "write"
    /\ rows' = IF Writes(j) THEN [rows EXCEPT ![j.row].status = j.answer] ELSE rows
    /\ quiet' = IF Writes(j) /\ (j.by = "fail" \/ (j.by = "client" /\ j.answer = "Success"))
                THEN quiet \cup {j.row} ELSE quiet
    /\ Continue(h, NextStep(j))
    /\ UNCHANGED <<sent, subs, lost, crossed, moves, faults>>

\* Mutant: only the webhook notifies.
BugTellNounu(h) ==
    LET j == job[h] IN
    /\ j.at = "tell"
    /\ rows' = IF j.by = "webhook" THEN [rows EXCEPT ![j.row].told = @ + 1] ELSE rows
    /\ Continue(h, IF j.by = "webhook" THEN "lookup" ELSE "idle")
    /\ UNCHANGED <<sent, subs, ghost, moves, faults>>

\* The PAIEMENT notification; the webhook goes on to the subscription.
TellNounu(h) ==
    LET j == job[h] IN
    /\ j.at = "tell"
    /\ rows' = [rows EXCEPT ![j.row].told = @ + 1]
    /\ Continue(h, IF j.by = "webhook" THEN "lookup" ELSE "idle")
    /\ UNCHANGED <<sent, subs, ghost, moves, faults>>

\* A payout is taken for a purchase: its nounu gets a subscription, if the
\* nounu has none.
ensureSubscription(h) ==
    /\ job[h].at = "lookup"
    /\ IF subs # <<>> THEN Finish(h)
       ELSE job' = [job EXCEPT ![h].at = "create", ![h].n = Len(subs)]
    /\ UNCHANGED <<table, ghost, moves, faults>>

\* The subscription and its notification.
createSubscription(h) ==
    LET j == job[h] IN
    /\ j.at = "create"
    /\ subs' = Append(subs, [row |-> j.row, base |-> j.n])
    /\ Finish(h)
    /\ UNCHANGED <<sent, rows, ghost, moves, faults>>

-----------------------------------------------------------------------------
(* The provider, failures and fairness.                                    *)

\* GeniusPay executes a payout, or takes it back or rejects it (Cancelled
\* stands for the answers that map to Failed too).
Settle(k, status) ==
    /\ \/ sent[k] = "Pending" /\ status \in {"Success", "Cancelled"}
       \/ sent[k] = "Success" /\ status = "Cancelled"
    /\ sent' = [sent EXCEPT ![k] = status]
    /\ UNCHANGED <<rows, subs, job, ghost, moves, faults>>

\* A statement is rejected or the provider does not answer.  The client's
\* route then goes on with the status it read, which is not a success.
Fail(h) ==
    LET j == job[h] IN
    /\ j.at # "idle" /\ faults < MaxFaults /\ faults' = faults + 1
    /\ lost' = IF j.at = "store" THEN lost \cup {j.n} ELSE lost
    /\ quiet' = IF j.at = "tell" THEN quiet \cup {j.row} ELSE quiet
    /\ Finish(h)
    /\ UNCHANGED <<table, crossed, moves>>

\* An administrator verifies a pending payout again.
VerifyAgain(h, r) ==
    /\ rows[r].status = "Pending"
    /\ \A g \in Handlers : ~(job[g].row = r /\ job[g].by = "admin")
    /\ VerifyNounuPayment(h, r) /\ UNCHANGED moves

Advance(h) ==
    \/ createNounuPayment(h) \/ verifyPayment(h) \/ updatePayment(h) \/ TellNounu(h)
    \/ ensureSubscription(h) \/ createSubscription(h)

Arrive(h) ==
    \/ PayNounu(h)
    \/ /\ moves < MaxMoves /\ moves' = moves + 1
       /\ \E r \in DOMAIN rows : \/ VerifyAdminPayment(h, r) \/ VerifyPayment(h, r)
                                 \/ HandleNotify(h, r) \/ FailAdminPayment(h, r)

Next ==
    \/ \E h \in Handlers : \/ Arrive(h) \/ Advance(h) \/ AnswerLost(h) \/ Fail(h)
                           \/ \E r \in DOMAIN rows : VerifyAgain(h, r)
    \/ \E k \in DOMAIN sent, status \in Statuses : Settle(k, status)

Spec == Init /\ [][Next]_vars

\* Requests run to their end; pending payouts are verified again and again.
FairSpec ==
    /\ Spec
    /\ \A h \in Handlers : WF_vars(Advance(h))
    /\ \A r \in 1 .. MaxPayouts :
         WF_vars(\E h \in Handlers : r \in DOMAIN rows /\ VerifyAgain(h, r))

-----------------------------------------------------------------------------
(* Properties.                                                             *)

TypeOK ==
    /\ sent \in Seq(Statuses) /\ rows \in Seq(Row)
    /\ subs \in Seq([row : Nat, base : Nat])
    /\ job \in [Handlers -> Job]
    /\ \A h \in Handlers : job[h].row \in {0} \cup DOMAIN rows
    /\ lost \subseteq DOMAIN sent /\ quiet \cup crossed \subseteq DOMAIN rows
    /\ moves \in Nat /\ faults \in Nat

(***************************************************************************)
(* Every payout at the provider has one row, or the request that sent it   *)
(* is about to store it, or that request failed in between                 *)
(* (admin.usecases.ts:923).                                                *)
(***************************************************************************)
PayoutsAreRecorded ==
    \A k \in DOMAIN sent :
        Cardinality({r \in DOMAIN rows : rows[r].ref = k})
        + Cardinality({h \in At({"store"}) : job[h].n = k})
        + (IF k \in lost THEN 1 ELSE 0) = 1

(***************************************************************************)
(* What the server says was paid, the provider did pay: a row is Success   *)
(* or Cancelled only if its own payout was, although a check may write an  *)
(* answer older than the one before it (admin.usecases.ts:988).            *)
(***************************************************************************)
PaidIsGenuine ==
    \A r \in DOMAIN rows :
        /\ rows[r].status = "Success" => sent[rows[r].ref] \in {"Success", "Cancelled"}
        /\ rows[r].status = "Cancelled" => sent[rows[r].ref] = "Cancelled"

(***************************************************************************)
(* Payouts implement PayoutBook: whatever requests run at once, whichever  *)
(* fails between its steps and however old the answer that it writes, a    *)
(* payout has one row at most, a row shows nothing its own payout never    *)
(* was, and only an executed payout congratulates or subscribes the nounu  *)
(* (admin.usecases.ts:988, payment.usecases.ts:253).                       *)
(***************************************************************************)
Book == INSTANCE PayoutBook
            WITH book <- rows, gifts <- [m \in DOMAIN subs |-> subs[m].row]

RefinesBook == Book!Spec

(***************************************************************************)
(* The nounu is told of a payout twice only if two requests checked it at  *)
(* once (payment.usecases.ts:382 writes a status older than the one it     *)
(* replaces, admin.usecases.ts:988 then finds a change again).             *)
(***************************************************************************)
ToldTwiceOnlyByRace == \A r \in DOMAIN rows \ crossed : rows[r].told <= 1

(***************************************************************************)
(* A payout verified as a purchase gives its nounu a subscription; a       *)
(* second one only if it was looked for before the first was stored        *)
(* (payment.usecases.ts:253).                                              *)
(***************************************************************************)
TwoSubscriptionsOnlyByRace == \A k, m \in DOMAIN subs : k < m => subs[m].base < k

\* What a payout brings twice, it brings twice only by a race.
DoublesOnlyByRace == ToldTwiceOnlyByRace /\ TwoSubscriptionsOnlyByRace

(***************************************************************************)
(* The nounu's summary never calls paid more payouts than the provider has *)
(* executed: no payout is counted under two rows, and none on an answer    *)
(* that was not its own (admin.usecases.ts:744).                           *)
(***************************************************************************)
SummaryIsGenuine ==
    totalPaid <= Cardinality({k \in DOMAIN sent : sent[k] \in {"Success", "Cancelled"}})

(***************************************************************************)
(* The summary ends up counting, for good, every recorded payout that the  *)
(* provider executed and an administrator did not mark as failed, whatever *)
(* older answers the webhook wrote over it.  Nothing in the code keeps the *)
(* nounu from being paid more than is owed in the meantime.                *)
(***************************************************************************)
SummarySettles ==
    <>[](totalPaid >= Cardinality({r \in DOMAIN rows :
                          sent[rows[r].ref] = "Success" /\ rows[r].status # "Failed"}))

(***************************************************************************)
(* The nounu is told of every payout that succeeds and has a row, unless   *)
(* the provider takes it back, the notification fails after the status is  *)
(* stored, an administrator marked it failed, or the client's route stored *)
(* the success, which notifies nobody and leaves no change to the others.  *)
(***************************************************************************)
NounuIsTold ==
    \A r \in 1 .. MaxPayouts :
        r \in DOMAIN rows /\ sent[rows[r].ref] = "Success"
        ~> r \in DOMAIN rows /\ (rows[r].told > 0 \/ r \in quiet
                                 \/ sent[rows[r].ref] = "Cancelled")

=============================================================================
