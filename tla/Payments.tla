------------------------------ MODULE Payments ------------------------------
(***************************************************************************)
(* Payments and subscriptions of the BabyNounu backend: the use cases of   *)
(* application/payment/payment.usecases.ts and the payment, subscription   *)
(* and pack use cases of application/admin/admin.usecases.ts, running as   *)
(* concurrent requests of one Node.js server over one MySQL database.      *)
(*                                                                         *)
(* No use case opens a transaction.  Every awaited Prisma call is one      *)
(* atomic statement and every other request may run between two of them,   *)
(* so a request is a process whose steps are its awaited calls; what it    *)
(* read at an earlier step is kept in job[h] and may be stale.             *)
(*                                                                         *)
(* The payment provider (GeniusPay) is external: it moves each payment     *)
(* through its own statuses, answers when asked, and calls the webhook as  *)
(* often, as late and in any order it likes.                               *)
(***************************************************************************)
EXTENDS Integers, Sequences

CONSTANTS
    Users,          \* accounts
    Payments,       \* transaction ids the server may generate
    Packs,          \* ids of subscription packs
    Handlers,       \* requests the server can have in flight at once
    Null,           \* SQL NULL: no pack, no payment, no expiry date
    Owner,          \* Owner[p]: the user who initiates payment p
    PackOf,         \* PackOf[p]: the packId of that request, or Null
    DurationDays,   \* durations an admin may give a pack; 0 is "for life"
    DefaultDays,    \* the 30 days granted when no pack is named
    GatewayStatuses,\* provider statuses in play
    Ops,            \* kinds of request in play
    MaxTime,        \* bound: the day the clock stops
    MaxSubs,        \* bound: subscription rows ever created
    MaxFaults       \* bound: failed provider calls and aborted requests

VARIABLES
    now,      \* the current day
    gw,       \* gw[p]: the provider's status of p, "none" before it knows p
    seen,     \* seen[p]: every status the provider has had for p
    row,      \* row[p]: payments.status, "none" while there is no row
    subs,     \* the subscriptions table in creation order
    packs,    \* the packs table
    notices,  \* the PAIEMENT and ABONNEMENT rows of the notifications table
    told,     \* told[p]: last paymentStatus event sent to the room of p
    job,      \* job[h]: the request handler h is executing
    faults    \* failures so far, only to bound them

vars == <<now, gw, seen, row, subs, packs, notices, told, job, faults>>

AllOps == {"initiate", "verify", "notify", "check", "subscribe", "averify",
           "fail", "grant", "amend", "remove", "packs", "clock"}

AllGatewayStatuses == {"PENDING", "PROCESSING", "COMPLETED", "SUCCESS",
                       "FAILED", "EXPIRED", "CANCELLED", "REFUNDED", "OTHER"}

Statuses == {"Pending", "Success", "Failed", "Cancelled"}

\* 'active' against any other string; "deleted" marks a removed row.
SubStatuses == {"active", "inactive", "deleted"}

ASSUME ConstantsAssumption ==
    /\ Owner \in [Payments -> Users]
    /\ PackOf \in [Payments -> Packs \cup {Null}]
    /\ DurationDays \subseteq Nat
    /\ DefaultDays \in Nat \ {0}
    /\ "PENDING" \in GatewayStatuses
    /\ GatewayStatuses \subseteq AllGatewayStatuses
    /\ Ops \subseteq AllOps
    /\ MaxTime \in Nat /\ MaxSubs \in Nat /\ MaxFaults \in Nat

ASSUME NullAssumption ==
    /\ Null \notin Users
    /\ Null \notin Payments
    /\ Null \notin Packs
    /\ Null \notin Nat

-----------------------------------------------------------------------------
(* Records.                                                                *)

Expiries == Nat \cup {Null}

Subscription == [user: Users, pay: Payments \cup {Null}, exp: Expiries,
                 status: SubStatuses]

Pack == [state: {"none", "live", "deleted"}, onSale: BOOLEAN, days: Nat]

Notice == [type: {"PAIEMENT"}, to: Users, link: Payments]
          \cup [type: {"ABONNEMENT"}, to: Users, link: Nat]

Steps == {"idle", "initiate gateway", "initiate create",
          "verify sub", "verify ask", "verify update",
          "ensure find", "ensure pack", "create", "announce",
          "read sub", "push",
          "notify ask", "notify update", "notify paid",
          "subscribe pack", "grant pack",
          "averify ask", "averify update", "averify paid",
          "fail write", "amend write", "remove write"}

(***************************************************************************)
(* The local variables of a request.  snap: the payment status it read;    *)
(* st: mappedStatus; pack: packId; exp and life: expiresAt and isLifetime; *)
(* label: the status the new row gets; sub: the row it is about; active:   *)
(* hasActiveSubscription; base, a ghost: how many rows there were when it  *)
(* looked for an active one.                                               *)
(***************************************************************************)
Job == [op: AllOps \cup {"none"}, at: Steps, user: Users \cup {Null},
        pay: Payments \cup {Null}, pack: Packs \cup {Null},
        snap: Statuses, st: Statuses, exp: Expiries, life: BOOLEAN,
        label: SubStatuses, sub: Nat, active: BOOLEAN, base: Nat]

NoJob == [op |-> "none", at |-> "idle", user |-> Null, pay |-> Null,
          pack |-> Null, snap |-> "Pending", st |-> "Pending", exp |-> Null,
          life |-> FALSE, label |-> "active", sub |-> 0, active |-> FALSE,
          base |-> 0]

Init ==
    /\ now = 0
    /\ gw = [p \in Payments |-> "none"]
    /\ seen = [p \in Payments |-> {}]
    /\ row = [p \in Payments |-> "none"]
    /\ subs = <<>>
    /\ packs = [k \in Packs |-> [state |-> "none", onSale |-> FALSE, days |-> 0]]
    /\ notices = {}
    /\ told = [p \in Payments |-> [status |-> "none", active |-> FALSE]]
    /\ job = [h \in Handlers |-> NoJob]
    /\ faults = 0

-----------------------------------------------------------------------------
(* What the queries return.                                                *)

\* The provider's vocabulary reduced to the application's four statuses.
mapGeniusPayStatus(s) ==
    CASE s \in {"COMPLETED", "SUCCESS"}  -> "Success"
      [] s \in {"FAILED", "EXPIRED"}     -> "Failed"
      [] s \in {"CANCELLED", "REFUNDED"} -> "Cancelled"
      [] OTHER                           -> "Pending"

ActiveRows(u) == {i \in DOMAIN subs : subs[i].user = u /\ subs[i].status = "active"}

\* findUserSubscription returns the newest active row, expired or not.
IsUserSubscription(u, i) ==
    i \in ActiveRows(u) /\ \A j \in ActiveRows(u) : j <= i

Unexpired(e) == e = Null \/ (e # Null /\ e > now)

\* hasActiveSubscription as the payment use cases and PaymentGateway compute it.
hasActiveSubscription(u) ==
    \E i \in DOMAIN subs : IsUserSubscription(u, i) /\ Unexpired(subs[i].exp)

\* SubscriptionGuard lets a parent through when any active row is unexpired.
canActivate(u) == \E i \in ActiveRows(u) : Unexpired(subs[i].exp)

-----------------------------------------------------------------------------
(* Frames and moves of a request.                                          *)

InPlay(op) == op \in Ops

Idle(h) == job[h].at = "idle"

World == <<now, gw, seen, faults>>
Tables == <<row, subs, packs, notices, told>>

\* The request returns or throws: its local state is gone.
Finish(h) == job' = [job EXCEPT ![h] = NoJob]

Goto(h, step) == job' = [job EXCEPT ![h].at = step]

\* A request about payment p that has read its row.
Snapshot(op, step, p) ==
    [NoJob EXCEPT !.op = op, !.at = step, !.pay = p, !.user = Owner[p],
                  !.pack = PackOf[p], !.snap = row[p], !.st = row[p]]

-----------------------------------------------------------------------------
(* InitiatePaymentUseCase: the provider first, the row second.             *)

InitiateStart(h, p) ==
    /\ InPlay("initiate") /\ Idle(h)
    /\ gw[p] = "none" /\ row[p] = "none"
    /\ \A g \in Handlers : job[g].pay # p
    /\ PackOf[p] # Null =>
         packs[PackOf[p]].state = "live" /\ packs[PackOf[p]].onSale
    /\ job' = [job EXCEPT ![h] = [NoJob EXCEPT !.op = "initiate", !.pay = p,
                                               !.at = "initiate gateway"]]
    /\ UNCHANGED <<World, Tables>>

InitiateGateway(h) ==
    LET p == job[h].pay IN
    /\ job[h].at = "initiate gateway"
    /\ gw' = [gw EXCEPT ![p] = "PENDING"]
    /\ seen' = [seen EXCEPT ![p] = @ \cup {"PENDING"}]
    /\ Goto(h, "initiate create")
    /\ UNCHANGED <<now, faults, Tables>>

InitiateCreate(h) ==
    /\ job[h].at = "initiate create"
    /\ row' = [row EXCEPT ![job[h].pay] = "Pending"]
    /\ Finish(h)
    /\ UNCHANGED <<World, subs, packs, notices, told>>

-----------------------------------------------------------------------------
(* VerifyPaymentUseCase, also reached from ConfirmPaymentUseCase and from  *)
(* the unauthenticated GET payments/status/:transactionId.                 *)

\* Mutant: only a pending payment is asked about again.
BugVerifyStart(h, p) ==
    /\ InPlay("verify") /\ Idle(h)
    /\ row[p] # "none"
    /\ job' = [job EXCEPT ![h] =
                 Snapshot("verify", CASE row[p] = "Success" -> "verify sub"
                                      [] row[p] = "Pending" -> "verify ask"
                                      [] OTHER              -> "read sub", p)]
    /\ UNCHANGED <<World, Tables>>

VerifyStart(h, p) ==
    /\ InPlay("verify") /\ Idle(h)
    /\ row[p] # "none"
    /\ job' = [job EXCEPT ![h] =
                 Snapshot("verify", IF row[p] = "Success" THEN "verify sub"
                                                          ELSE "verify ask", p)]
    /\ UNCHANGED <<World, Tables>>

\* Mutant: the confirmed branch returns before notifying when all is well.
BugNoPush(h) ==
    /\ job[h].at = "verify sub"
    /\ IF hasActiveSubscription(job[h].user) THEN Finish(h) ELSE Goto(h, "ensure find")
    /\ UNCHANGED <<World, Tables>>

\* Already confirmed: look for an active subscription, repair if there is none.
VerifySub(h) ==
    /\ job[h].at = "verify sub"
    /\ job' = [job EXCEPT
                 ![h].at = IF hasActiveSubscription(job[h].user)
                             THEN "push" ELSE "ensure find",
                 ![h].active = TRUE]
    /\ UNCHANGED <<World, Tables>>

\* Mutant: the answer is written without comparing it with the snapshot.
BugVerifyAsk(h) ==
    /\ job[h].at = "verify ask"
    /\ job' = [job EXCEPT ![h].st = mapGeniusPayStatus(gw[job[h].pay]),
                          ![h].at = "verify update"]
    /\ UNCHANGED <<World, Tables>>

VerifyAsk(h) ==
    LET st == mapGeniusPayStatus(gw[job[h].pay]) IN
    /\ job[h].at = "verify ask"
    /\ job' = [job EXCEPT ![h].st = st,
                          ![h].at = IF st = job[h].snap THEN "read sub"
                                                        ELSE "verify update"]
    /\ UNCHANGED <<World, Tables>>

\* Mutant: the catch block falls through to the subscription.
BugVerifyAskFails(h) ==
    /\ job[h].at = "verify ask" /\ faults < MaxFaults
    /\ Goto(h, "ensure find")
    /\ faults' = faults + 1
    /\ UNCHANGED <<now, gw, seen, Tables>>

\* The catch block: the provider cannot be reached, keep the stored status.
VerifyAskFails(h) ==
    /\ job[h].at = "verify ask" /\ faults < MaxFaults
    /\ Goto(h, "read sub")
    /\ faults' = faults + 1
    /\ UNCHANGED <<now, gw, seen, Tables>>

VerifyUpdate(h) ==
    /\ job[h].at = "verify update"
    /\ row' = [row EXCEPT ![job[h].pay] = job[h].st]
    /\ Goto(h, IF job[h].st = "Success" THEN "ensure find" ELSE "read sub")
    /\ UNCHANGED <<World, subs, packs, notices, told>>

-----------------------------------------------------------------------------
(* ensureSubscription, and its copy inlined in HandleNotifyUseCase.        *)

\* After ensureSubscription: VerifyPayment's confirmed branch announces at
\* once, the other callers read the subscription again.
AfterEnsure(j) == IF j.op = "verify" /\ j.snap = "Success" THEN "push" ELSE "read sub"

\* Mutant: ensureSubscription does not look for an existing row.
BugEnsureFind(h) ==
    LET j == job[h] IN
    /\ j.at = "ensure find"
    /\ IF j.pack # Null
         THEN job' = [job EXCEPT ![h].at = "ensure pack", ![h].base = Len(subs)]
         ELSE job' = [job EXCEPT ![h].at = "create", ![h].base = Len(subs),
                                 ![h].exp = now + DefaultDays]
    /\ UNCHANGED <<World, Tables>>

EnsureFind(h) ==
    LET j == job[h] IN
    /\ j.at = "ensure find"
    /\ \/ /\ ActiveRows(j.user) # {}
          /\ Goto(h, AfterEnsure(j))
       \/ /\ ActiveRows(j.user) = {} /\ j.pack # Null
          /\ job' = [job EXCEPT ![h].at = "ensure pack", ![h].base = Len(subs)]
       \/ /\ ActiveRows(j.user) = {} /\ j.pack = Null
          /\ job' = [job EXCEPT ![h].at = "create", ![h].base = Len(subs),
                                ![h].exp = now + DefaultDays]
    /\ UNCHANGED <<World, Tables>>

\* What a live pack gives: for life when its duration is 0.
PackExpiry(k) == IF packs[k].days = 0 THEN Null ELSE now + packs[k].days

\* A deleted pack leaves expiresAt null without being for life.
EnsurePack(h) ==
    LET k == job[h].pack
        live == packs[k].state = "live"
    IN  /\ job[h].at = "ensure pack"
        /\ job' = [job EXCEPT ![h].at = "create",
                              ![h].exp = IF live THEN PackExpiry(k) ELSE Null,
                              ![h].life = live /\ packs[k].days = 0]
        /\ UNCHANGED <<World, Tables>>

-----------------------------------------------------------------------------
(* The tail shared by ensureSubscription, SubscribeUseCase and the admin's *)
(* CreateSubscriptionUseCase: insert the row, format its expiry, notify.   *)

\* Formatting a null expiresAt throws after the row has been inserted.
CreateSubscription(h) ==
    LET j == job[h] IN
    /\ j.at = "create" /\ Len(subs) < MaxSubs
    /\ subs' = Append(subs, [user |-> j.user, pay |-> j.pay, exp |-> j.exp,
                             status |-> j.label])
    /\ \/ /\ j.exp = Null /\ ~j.life
          /\ Finish(h)
       \/ /\ j.exp # Null \/ j.life
          /\ job' = [job EXCEPT ![h].at = "announce", ![h].sub = Len(subs) + 1]
    /\ UNCHANGED <<World, row, packs, notices, told>>

Announce(h) ==
    LET j == job[h] IN
    /\ j.at = "announce"
    /\ notices' = notices \cup {[type |-> "ABONNEMENT", to |-> j.user, link |-> j.sub]}
    /\ IF j.op \in {"subscribe", "grant"} THEN Finish(h) ELSE Goto(h, AfterEnsure(j))
    /\ UNCHANGED <<World, row, subs, packs, told>>

ReadSub(h) ==
    /\ job[h].at = "read sub"
    /\ job' = [job EXCEPT ![h].at = "push",
                          ![h].active = hasActiveSubscription(job[h].user)]
    /\ UNCHANGED <<World, Tables>>

\* notifyPaymentStatus, and the reply of checkPaymentStatus.
Push(h) ==
    LET j == job[h] IN
    /\ j.at = "push"
    /\ told' = [told EXCEPT ![j.pay] = [status |-> j.st, active |-> j.active]]
    /\ Finish(h)
    /\ UNCHANGED <<World, row, subs, packs, notices>>

-----------------------------------------------------------------------------
(* HandleNotifyUseCase: the provider's webhook.                            *)

\* 'payment not found' and 'already confirmed' return at once: no step.
NotifyStart(h, p) ==
    /\ InPlay("notify") /\ Idle(h)
    /\ row[p] \notin {"none", "Success"}
    /\ job' = [job EXCEPT ![h] = Snapshot("notify", "notify ask", p)]
    /\ UNCHANGED <<World, Tables>>

\* Mutant: the webhook is believed without asking the provider.
BugNotifyAsk(h) ==
    /\ job[h].at = "notify ask"
    /\ job' = [job EXCEPT ![h].at = "notify update", ![h].st = "Success"]
    /\ UNCHANGED <<World, Tables>>

NotifyAsk(h) ==
    /\ job[h].at = "notify ask"
    /\ job' = [job EXCEPT ![h].at = "notify update",
                          ![h].st = mapGeniusPayStatus(gw[job[h].pay])]
    /\ UNCHANGED <<World, Tables>>

\* Unconditional: the snapshot is not compared with the answer or the row.
NotifyUpdate(h) ==
    /\ job[h].at = "notify update"
    /\ row' = [row EXCEPT ![job[h].pay] = job[h].st]
    /\ Goto(h, IF job[h].st = "Success" THEN "notify paid" ELSE "read sub")
    /\ UNCHANGED <<World, subs, packs, notices, told>>

PaidNotice(j) == [type |-> "PAIEMENT", to |-> j.user, link |-> j.pay]

NotifyPaid(h) ==
    /\ job[h].at = "notify paid"
    /\ notices' = notices \cup {PaidNotice(job[h])}
    /\ Goto(h, "ensure find")
    /\ UNCHANGED <<World, row, subs, packs, told>>

-----------------------------------------------------------------------------
(* PaymentGateway's checkPaymentStatus event.                              *)

CheckStart(h, p) ==
    /\ InPlay("check") /\ Idle(h)
    /\ row[p] # "none"
    /\ job' = [job EXCEPT ![h] = Snapshot("check", "read sub", p)]
    /\ UNCHANGED <<World, Tables>>

-----------------------------------------------------------------------------
(* SubscribeUseCase: the user turns a confirmed payment into a row, for    *)
(* the pack of this request, which need not be the pack that was paid.     *)

\* Mutant: payment.userId is not compared with the caller.
BugAnyOwner(h, u, p, k, d) ==
    /\ InPlay("subscribe") /\ Idle(h)
    /\ row[p] = "Success"
    /\ job' = [job EXCEPT ![h] =
         [Snapshot("subscribe", IF k = Null THEN "create" ELSE "subscribe pack", p)
            EXCEPT !.user = u, !.pack = k,
                   !.exp = IF k = Null THEN now + d ELSE Null]]
    /\ UNCHANGED <<World, Tables>>

SubscribeStart(h, u, p, k, d) ==
    /\ InPlay("subscribe") /\ Idle(h)
    /\ row[p] = "Success" /\ Owner[p] = u
    /\ job' = [job EXCEPT ![h] =
         [Snapshot("subscribe", IF k = Null THEN "create" ELSE "subscribe pack", p)
            EXCEPT !.user = u, !.pack = k,
                   !.exp = IF k = Null THEN now + d ELSE Null]]
    /\ UNCHANGED <<World, Tables>>

\* A missing or deleted pack is refused: the request ends with NotFound.
SubscribePack(h) ==
    LET k == job[h].pack IN
    /\ job[h].at \in {"subscribe pack", "grant pack"}
    /\ \/ /\ packs[k].state = "live"
          /\ job' = [job EXCEPT ![h].at = "create", ![h].exp = PackExpiry(k),
                                ![h].life = packs[k].days = 0]
       \/ /\ packs[k].state # "live"
          /\ Finish(h)
    /\ UNCHANGED <<World, Tables>>

-----------------------------------------------------------------------------
(* The admin's payment operations.                                         *)

VerifyAdminStart(h, p) ==
    /\ InPlay("averify") /\ Idle(h)
    /\ row[p] # "none"
    /\ job' = [job EXCEPT ![h] = Snapshot("averify", "averify ask", p)]
    /\ UNCHANGED <<World, Tables>>

VerifyAdminAsk(h) ==
    LET st == mapGeniusPayStatus(gw[job[h].pay]) IN
    /\ job[h].at = "averify ask"
    /\ \/ /\ st = job[h].snap
          /\ Finish(h)
       \/ /\ st # job[h].snap
          /\ job' = [job EXCEPT ![h].at = "averify update", ![h].st = st]
    /\ UNCHANGED <<World, Tables>>

VerifyAdminUpdate(h) ==
    /\ job[h].at = "averify update"
    /\ row' = [row EXCEPT ![job[h].pay] = job[h].st]
    /\ IF job[h].st = "Success" THEN Goto(h, "averify paid") ELSE Finish(h)
    /\ UNCHANGED <<World, subs, packs, notices, told>>

VerifyAdminPaid(h) ==
    /\ job[h].at = "averify paid"
    /\ notices' = notices \cup {PaidNotice(job[h])}
    /\ Finish(h)
    /\ UNCHANGED <<World, row, subs, packs, told>>

\* The guard is evaluated on the snapshot, the write happens a step later.
FailAdminStart(h, p) ==
    /\ InPlay("fail") /\ Idle(h)
    /\ row[p] = "Pending"
    /\ job' = [job EXCEPT ![h] = Snapshot("fail", "fail write", p)]
    /\ UNCHANGED <<World, Tables>>

FailAdminWrite(h) ==
    /\ job[h].at = "fail write"
    /\ row' = [row EXCEPT ![job[h].pay] = "Failed"]
    /\ Finish(h)
    /\ UNCHANGED <<World, subs, packs, notices, told>>

-----------------------------------------------------------------------------
(* The admin's subscription operations.                                    *)

GrantStart(h, u, k, d, label) ==
    /\ InPlay("grant") /\ Idle(h)
    /\ job' = [job EXCEPT ![h] =
         [NoJob EXCEPT !.op = "grant", !.user = u, !.pack = k, !.label = label,
                       !.at = IF k = Null THEN "create" ELSE "grant pack",
                       !.exp = IF k = Null THEN now + d ELSE Null]]
    /\ UNCHANGED <<World, Tables>>

\* UpdateSubscriptionUseCase and DeleteSubscriptionUseCase find, then write.
AdminSubStart(h, op, i) ==
    /\ InPlay(op) /\ Idle(h)
    /\ i \in DOMAIN subs /\ subs[i].status # "deleted"
    /\ job' = [job EXCEPT ![h] =
         [NoJob EXCEPT !.op = op, !.sub = i,
                       !.at = IF op = "amend" THEN "amend write" ELSE "remove write"]]
    /\ UNCHANGED <<World, Tables>>

\* Mutant: the update writes the whole row and loses its payment.
BugAmendWrite(h, label, e) ==
    LET i == job[h].sub IN
    /\ job[h].at = "amend write"
    /\ subs' = [subs EXCEPT ![i].status = label, ![i].exp = e, ![i].pay = Null]
    /\ Finish(h)
    /\ UNCHANGED <<World, row, packs, notices, told>>

\* Any status, any date, or a date in the past; throws if the row is gone.
AmendWrite(h, label, e) ==
    LET i == job[h].sub IN
    /\ job[h].at = "amend write"
    /\ subs' = IF subs[i].status = "deleted" THEN subs
               ELSE [subs EXCEPT ![i].status = label, ![i].exp = e]
    /\ Finish(h)
    /\ UNCHANGED <<World, row, packs, notices, told>>

RemoveWrite(h) ==
    /\ job[h].at = "remove write"
    /\ subs' = [subs EXCEPT ![job[h].sub].status = "deleted"]
    /\ Finish(h)
    /\ UNCHANGED <<World, row, packs, notices, told>>

-----------------------------------------------------------------------------
(* The admin's packs.  Each operation changes the table in one statement.  *)

CreatePack(k, d, onSale) ==
    /\ InPlay("packs") /\ packs[k].state = "none"
    /\ packs' = [packs EXCEPT ![k] = [state |-> "live", onSale |-> onSale, days |-> d]]
    /\ UNCHANGED <<World, row, subs, notices, told, job>>

UpdatePack(k, d, onSale) ==
    /\ InPlay("packs") /\ packs[k].state # "none"
    /\ packs' = [packs EXCEPT ![k].onSale = onSale, ![k].days = d]
    /\ UNCHANGED <<World, row, subs, notices, told, job>>

DeletePack(k) ==
    /\ InPlay("packs") /\ packs[k].state # "none"
    /\ packs' = [packs EXCEPT ![k].state = "deleted"]
    /\ UNCHANGED <<World, row, subs, notices, told, job>>

-----------------------------------------------------------------------------
(* The environment: the provider, the clock, failures.                     *)

\* A settled payment can only be refunded; a refused one is over.
GatewayNext(s) ==
    CASE s = "PENDING"    -> {"PROCESSING", "COMPLETED", "SUCCESS", "FAILED",
                              "EXPIRED", "CANCELLED", "OTHER"}
      [] s = "PROCESSING" -> {"COMPLETED", "SUCCESS", "FAILED", "CANCELLED", "OTHER"}
      [] s = "OTHER"      -> {"COMPLETED", "SUCCESS", "FAILED", "CANCELLED"}
      [] s \in {"COMPLETED", "SUCCESS"} -> {"REFUNDED"}
      [] OTHER            -> {}

GatewayMove(p, s) ==
    /\ s \in GatewayNext(gw[p]) \cap GatewayStatuses
    /\ gw' = [gw EXCEPT ![p] = s]
    /\ seen' = [seen EXCEPT ![p] = @ \cup {s}]
    /\ UNCHANGED <<now, faults, Tables, job>>

Tick ==
    /\ InPlay("clock") /\ now < MaxTime
    /\ now' = now + 1
    /\ UNCHANGED <<gw, seen, faults, Tables, job>>

\* An awaited call throws, or the server stops: the request is abandoned
\* between two of its statements and nothing it did is undone.
Abort(h) ==
    /\ ~Idle(h) /\ faults < MaxFaults
    /\ Finish(h)
    /\ faults' = faults + 1
    /\ UNCHANGED <<now, gw, seen, Tables>>

\* The provider creates the payment but its answer is lost or unusable.
InitiateAnswerLost(h) ==
    LET p == job[h].pay IN
    /\ job[h].at = "initiate gateway" /\ faults < MaxFaults
    /\ gw' = [gw EXCEPT ![p] = "PENDING"]
    /\ seen' = [seen EXCEPT ![p] = @ \cup {"PENDING"}]
    /\ Finish(h)
    /\ faults' = faults + 1
    /\ UNCHANGED <<now, Tables>>

-----------------------------------------------------------------------------
(* A request's next statement; requests arriving; everything together.     *)

Advance(h) ==
    \/ InitiateGateway(h) \/ InitiateCreate(h)
    \/ VerifySub(h) \/ VerifyAsk(h) \/ VerifyUpdate(h)
    \/ EnsureFind(h) \/ EnsurePack(h) \/ CreateSubscription(h) \/ Announce(h)
    \/ ReadSub(h) \/ Push(h)
    \/ NotifyAsk(h) \/ NotifyUpdate(h) \/ NotifyPaid(h)
    \/ SubscribePack(h)
    \/ VerifyAdminAsk(h) \/ VerifyAdminUpdate(h) \/ VerifyAdminPaid(h)
    \/ FailAdminWrite(h)
    \/ \E label \in {"active", "inactive"}, e \in (0 .. MaxTime + 1) \cup {Null} :
         AmendWrite(h, label, e)
    \/ RemoveWrite(h)

GrantDays == (DurationDays \ {0}) \cup {DefaultDays}

Arrive(h) ==
    \/ \E p \in Payments :
         \/ InitiateStart(h, p) \/ VerifyStart(h, p) \/ NotifyStart(h, p)
         \/ CheckStart(h, p) \/ VerifyAdminStart(h, p) \/ FailAdminStart(h, p)
    \/ \E u \in Users, p \in Payments, k \in Packs \cup {Null}, d \in GrantDays :
         SubscribeStart(h, u, p, k, d)
    \/ \E u \in Users, k \in Packs \cup {Null}, d \in GrantDays,
          label \in {"active", "inactive"} : GrantStart(h, u, k, d, label)
    \/ \E op \in {"amend", "remove"}, i \in 1 .. MaxSubs : AdminSubStart(h, op, i)

Environment ==
    \/ \E p \in Payments, s \in GatewayStatuses : GatewayMove(p, s)
    \/ \E k \in Packs, d \in DurationDays, onSale \in BOOLEAN :
         CreatePack(k, d, onSale) \/ UpdatePack(k, d, onSale)
    \/ \E k \in Packs : DeletePack(k)
    \/ Tick

Faulty(h) == Abort(h) \/ VerifyAskFails(h) \/ InitiateAnswerLost(h)

Next == Environment \/ \E h \in Handlers : Advance(h) \/ Arrive(h) \/ Faulty(h)

Spec == Init /\ [][Next]_vars

(***************************************************************************)
(* Fairness.  The event loop runs every request to its next statement, so  *)
(* Advance is weakly fair for each request.  A client that is waiting for  *)
(* its payment keeps asking payments/status; its requests compete with     *)
(* others for handlers, hence strong fairness.  Nothing else has to occur: *)
(* not the webhook, not an admin, not the provider.                        *)
(***************************************************************************)
Polling(p) == \E h \in Handlers : VerifyStart(h, p)

FairSpec ==
    /\ Spec
    /\ \A h \in Handlers : WF_vars(Advance(h))
    /\ \A p \in Payments : SF_vars(Polling(p))

-----------------------------------------------------------------------------
(* Properties.                                                             *)

Row == Statuses \cup {"none"}

TypeOK ==
    /\ now \in Nat
    /\ gw \in [Payments -> AllGatewayStatuses \cup {"none"}]
    /\ seen \in [Payments -> SUBSET AllGatewayStatuses]
    /\ row \in [Payments -> Row]
    /\ subs \in Seq(Subscription)
    /\ packs \in [Packs -> Pack]
    /\ notices \subseteq Notice
    /\ told \in [Payments -> [status: Row, active: BOOLEAN]]
    /\ job \in [Handlers -> Job]
    /\ faults \in Nat

\* The provider has, at some time, held the money of payment p.
Settled(p) == \E s \in seen[p] : mapGeniusPayStatus(s) = "Success"

(***************************************************************************)
(* A subscription row that names a payment belongs to the user who made    *)
(* it, and the provider really completed that payment before, whichever    *)
(* request created the row, from whichever snapshot, and whatever failed   *)
(* on the way (ensureSubscription, HandleNotify, Subscribe).               *)
(***************************************************************************)
SubscriptionsArePaidFor ==
    \A i \in DOMAIN subs : subs[i].pay # Null =>
        /\ Settled(subs[i].pay)
        /\ subs[i].user = Owner[subs[i].pay]

(***************************************************************************)
(* No status is invented.  A payment has a row only if the provider knows  *)
(* it; the stored status is the initial one, the admin's failure, or one   *)
(* the provider did report; nobody is told over the socket or by a         *)
(* PAIEMENT notification that a payment is confirmed unless it was.        *)
(***************************************************************************)
StatusesAreGenuine ==
    /\ \A p \in Payments : row[p] # "none" =>
         /\ gw[p] # "none"
         /\ \/ row[p] = "Pending"
            \/ row[p] = "Failed" /\ InPlay("fail")
            \/ \E s \in seen[p] : mapGeniusPayStatus(s) = row[p]
    /\ \A p \in Payments : told[p].status = "Success" => Settled(p)
    /\ \A n \in notices : n.type = "PAIEMENT" =>
         Settled(n.link) /\ n.to = Owner[n.link]

(***************************************************************************)
(* A confirmation is not lost by accident.  Several requests hold older    *)
(* snapshots and older answers of the provider, and the comment "If        *)
(* payment is already confirmed in DB, skip GeniusPay verification"        *)
(* (payment.usecases.ts:169) takes the confirmation as settled.  What      *)
(* writes over it is the refund the provider reported, an admin's failure  *)
(* decided before, or an answer asked for before, of a webhook or of a     *)
(* request that had read such a failure; never a client's or an admin's    *)
(* verification of a payment that was pending.                             *)
(***************************************************************************)
ConfirmationIsKept ==
    [][\A p \in Payments : row[p] = "Success" /\ row'[p] # "Success" =>
         \/ row'[p] = "Cancelled" /\ gw[p] = "REFUNDED"
         \/ \E h \in Handlers :
              /\ job[h].pay = p /\ job'[h] # job[h]
              /\ \/ row'[p] = "Failed" /\ job[h].at = "fail write"
                 \/ row'[p] = "Pending"
                    /\ (job[h].at = "notify update" \/ job[h].snap = "Failed")]_vars

(***************************************************************************)
(* "Auto-create subscription if missing" (payment.usecases.ts:177, 398):   *)
(* a poll, a webhook, a retry or a repair creates a row for a user who has *)
(* an active one already only if that one came while the request was       *)
(* between its search and its insertion, or was re-activated by an admin   *)
(* meanwhile: two active rows need a race, never just a long history of    *)
(* failures, expiries and deletions.                                       *)
(***************************************************************************)
GrantsOnlyIfMissing ==
    \A h \in Handlers : LET j == job[h] IN
        j.at = "create" /\ j.op \in {"verify", "notify"} /\ ~InPlay("amend")
            => \A i \in ActiveRows(j.user) : i > j.base

(***************************************************************************)
(* ensureSubscription returns without creating a row only when the user    *)
(* already has a usable subscription, or when this very payment has already *)
(* been redeemed: "Auto-create subscription if missing" is what the caller  *)
(* says of it.                                                             *)
(***************************************************************************)
Redeemed(p) == \E i \in DOMAIN subs : subs[i].pay = p

SkippedOnlyIfUsable ==
    [][\A h \in Handlers :
         job[h].at = "ensure find" /\ job'[h].at \in {"push", "read sub"}
           => canActivate(job[h].user) \/ Redeemed(job[h].pay)]_vars

(***************************************************************************)
(* A payment that stays completed at the provider ends up confirmed, for   *)
(* good, as long as the client keeps polling: lost or stale webhooks,      *)
(* provider outages, aborted requests and an admin's hasty failure are all *)
(* made up for.                                                            *)
(***************************************************************************)
CompletedIsConfirmed ==
    \A p \in Payments :
        <>[](mapGeniusPayStatus(gw[p]) = "Success" /\ row[p] # "none")
            => <>[](row[p] = "Success")

(***************************************************************************)
(* The client waiting in the room of a confirmed payment is told so, again *)
(* and again, whatever an older request told it in between.                *)
(***************************************************************************)
ClientLearns ==
    \A p \in Payments :
        <>[](row[p] = "Success")
            => []<>(told[p] = [status |-> "Success", active |-> TRUE])

\* The abstract promise: see SubscriptionLedger.
Ledger == INSTANCE SubscriptionLedger WITH
            settled <- {p \in Payments : Settled(p)},
            ledger <- [i \in 1 .. Len(subs) |->
                         [user |-> subs[i].user, pay |-> subs[i].pay]]

\* Every step of the requests, the admin and the provider is a step of the
\* ledger or none: rows are appended with their backing and never rewritten.
RefinesLedger == Ledger!Spec

-----------------------------------------------------------------------------
(***************************************************************************)
(* The inductive invariant behind the safety properties.  The tables alone *)
(* are not inductive: a request carries a status and a payment from one    *)
(* statement to the next, so each request must already hold the evidence   *)
(* for what it is about to write.                                          *)
(***************************************************************************)

\* Steps of a request that has read the row of its payment.
OnPayment == {"verify sub", "verify ask", "verify update", "ensure find",
              "ensure pack", "read sub", "push", "notify ask", "notify update",
              "notify paid", "subscribe pack", "averify ask", "averify update",
              "averify paid", "fail write"}

\* Steps taken only for a confirmed payment.
OnConfirmed == {"verify sub", "ensure find", "ensure pack", "notify paid",
                "subscribe pack", "averify paid"}

\* Payment p was read from the table by, and is paid for by, the user of j.
Knows(j) ==
    j.pay \in Payments /\ j.user = Owner[j.pay] /\ gw[j.pay] # "none"

Evidence(j) ==
    /\ j.pay # Null /\ j.st = "Success" => Settled(j.pay)
    /\ j.at \in OnPayment => Knows(j)
    /\ j.at \in OnConfirmed => j.st = "Success"
    /\ j.at \in {"initiate gateway", "initiate create"} => j.pay \in Payments
    /\ j.at = "initiate create" => gw[j.pay] # "none"
    /\ j.at \in {"verify update", "notify update", "averify update"}
         => \E s \in seen[j.pay] : mapGeniusPayStatus(s) = j.st
    /\ j.at \in {"ensure pack", "subscribe pack", "grant pack"} => j.pack \in Packs
    /\ j.at \in {"grant pack", "create", "announce"} =>
         \/ j.op = "grant" /\ j.pay = Null /\ j.user \in Users
         \/ j.at # "grant pack" /\ Knows(j) /\ j.st = "Success"
    /\ j.at = "fail write" => InPlay("fail")
    /\ j.at \in {"amend write", "remove write"} => j.sub \in DOMAIN subs

CurrentIsSeen == \A p \in Payments : gw[p] # "none" => gw[p] \in seen[p]

IInv ==
    /\ TypeOK
    /\ CurrentIsSeen
    /\ SubscriptionsArePaidFor
    /\ StatusesAreGenuine
    /\ \A h \in Handlers : Evidence(job[h])

=============================================================================
