--------------------------- MODULE PaymentsProofs ---------------------------
(***************************************************************************)
(* Proofs about Payments for all users, payments, packs, numbers of        *)
(* concurrent requests and bounds.  The argument is one inductive          *)
(* invariant, IInv: besides the tables it constrains what each request in  *)
(* flight holds, because a request writes what it read some steps ago.     *)
(***************************************************************************)
EXTENDS Payments, SequenceTheorems, TLAPS

(***************************************************************************)
(* Evidence does not expire: the provider's history and the subscriptions  *)
(* table only grow, so a request that does not move keeps what it needs.   *)
(***************************************************************************)
Grows ==
    /\ \A p \in Payments : seen[p] \subseteq seen'[p]
    /\ \A p \in Payments : gw[p] # "none" => gw'[p] # "none"
    /\ DOMAIN subs \subseteq DOMAIN subs'

\* A payment once completed at the provider stays settled.
LEMMA SettledStable ==
    ASSUME Grows, NEW p \in Payments, Settled(p)
    PROVE  Settled(p)'
BY DEF Grows, Settled

\* A request that does not move keeps its evidence while history and tables grow.
LEMMA EvidenceStable ==
    ASSUME NEW h \in Handlers, job[h] \in Job, Evidence(job[h]),
           job'[h] = job[h], Grows
    PROVE  Evidence(job[h])'
<1>1. job[h].pay \in Payments \cup {Null}
  BY DEF Job
<1>2. job[h].pay # Null /\ job[h].st = "Success" => Settled(job[h].pay)'
  BY <1>1, SettledStable DEF Evidence
<1>3. Knows(job[h]) => Knows(job[h])'
  BY DEF Knows, Grows
<1>4. job[h].at = "initiate create" => (gw[job[h].pay] # "none")'
  BY DEF Evidence, Grows
<1>5. job[h].at \in {"verify update", "notify update", "averify update"}
        => (\E s \in seen[job[h].pay] : mapGeniusPayStatus(s) = job[h].st)'
  BY DEF Evidence, Knows, OnPayment, Grows
<1>6. job[h].at \in {"amend write", "remove write"} => (job[h].sub \in DOMAIN subs)'
  BY DEF Evidence, Grows
<1>7. QED
  BY <1>2, <1>3, <1>4, <1>5, <1>6 DEF Evidence, InPlay

(***************************************************************************)
(* A step that moves request h and leaves the evidence of the others: what *)
(* remains to be shown is about h and about the tables the step writes.    *)
(***************************************************************************)
LEMMA OthersKeepEvidence ==
    ASSUME IInv, NEW h \in Handlers, Grows,
           \A g \in Handlers \ {h} : job'[g] = job[g], Evidence(job[h])'
    PROVE  \A g \in Handlers : Evidence(job[g])'
<1> TAKE g \in Handlers
<1>1. CASE g = h
  BY <1>1
<1>2. CASE g # h
  BY <1>2, EvidenceStable DEF IInv, TypeOK
<1>3. QED
  BY <1>1, <1>2

(***************************************************************************)
(* A step that only moves request h.                                       *)
(***************************************************************************)
LEMMA JobStep ==
    ASSUME IInv, NEW h \in Handlers, UNCHANGED <<World, Tables>>,
           job' \in [Handlers -> Job],
           \A g \in Handlers \ {h} : job'[g] = job[g], Evidence(job[h])'
    PROVE  IInv'
<1>1. TypeOK'
  BY DEF IInv, TypeOK, World, Tables
<1>2. CurrentIsSeen'
  BY DEF IInv, CurrentIsSeen, World
<1>3. SubscriptionsArePaidFor'
  BY DEF IInv, SubscriptionsArePaidFor, Settled, World, Tables
<1>4. StatusesAreGenuine'
  BY DEF IInv, StatusesAreGenuine, Settled, World, Tables, InPlay
<1>5. Grows
  BY DEF Grows, World, Tables
<1>6. QED
  BY <1>1, <1>2, <1>3, <1>4, <1>5, OthersKeepEvidence DEF IInv

(***************************************************************************)
(* Requests arriving.                                                      *)
(***************************************************************************)
LEMMA SnapshotFields ==
    ASSUME NEW op, NEW step, NEW p
    PROVE  LET r == Snapshot(op, step, p) IN
           r.at = step /\ r.pay = p /\ r.user = Owner[p] /\ r.st = row[p]
BY DEF Snapshot, NoJob

\* The steps a request can start with once it has read its payment.
FirstSteps == {"verify sub", "verify ask", "notify ask", "read sub",
               "averify ask", "fail write"}

Reads(h, op, step, p) ==
    /\ op \in AllOps /\ step \in FirstSteps
    /\ row[p] # "none"
    /\ step = "verify sub" => row[p] = "Success"
    /\ step = "fail write" => InPlay("fail") /\ row[p] = "Pending"
    /\ job' = [job EXCEPT ![h] = Snapshot(op, step, p)]
    /\ UNCHANGED <<World, Tables>>

(***************************************************************************)
(* A request that starts by reading the row of its payment holds all the   *)
(* evidence its first statement needs: StatusesAreGenuine provides it.     *)
(***************************************************************************)
LEMMA ReadsInv ==
    ASSUME IInv, NEW h \in Handlers, NEW p \in Payments, NEW op, NEW step,
           Reads(h, op, step, p)
    PROVE  IInv'
<1>1. Snapshot(op, step, p) \in Job
  <2>1. row[p] \in Statuses /\ Owner[p] \in Users /\ PackOf[p] \in Packs \cup {Null}
    BY ConstantsAssumption DEF IInv, TypeOK, Row, Reads
  <2>2. op \in AllOps /\ step \in Steps
    BY DEF FirstSteps, Steps, Reads
  <2>3. "active" \in SubStatuses /\ "Pending" \in Statuses
    BY DEF SubStatuses, Statuses
  <2>4. QED
    BY <2>1, <2>2, <2>3 DEF Snapshot, NoJob, Job, Expiries
<1>2. row[p] = "Success" => Settled(p)
  BY DEF IInv, StatusesAreGenuine, Settled
<1>3. gw[p] # "none"
  BY DEF IInv, StatusesAreGenuine, Reads
<1>4. job'[h] = Snapshot(op, step, p)
  BY DEF IInv, TypeOK, Reads
<1>5. job' \in [Handlers -> Job] /\ \A g \in Handlers \ {h} : job'[g] = job[g]
  BY <1>1 DEF IInv, TypeOK, Reads
<1>6. /\ job'[h].at = step /\ job'[h].pay = p /\ job'[h].user = Owner[p]
      /\ job'[h].st = row[p]
  BY <1>4, SnapshotFields
<1>7. (job[h].st = "Success" => Settled(job[h].pay))'
  BY <1>2, <1>6 DEF World, Settled, Reads
<1>8. Evidence(job[h])'
  BY <1>2, <1>3, <1>6, <1>7
  DEF Evidence, Knows, OnPayment, OnConfirmed, InPlay, World, FirstSteps, Reads
<1>9. QED
  BY <1>5, <1>8, JobStep DEF Reads

(***************************************************************************)
(* VerifyPayment, HandleNotify, checkPaymentStatus, VerifyPaymentAdmin and *)
(* FailPayment all arrive this way.                                        *)
(***************************************************************************)
LEMMA ArrivalsRead ==
    ASSUME NEW h, NEW p,
           \/ VerifyStart(h, p) \/ NotifyStart(h, p) \/ CheckStart(h, p)
           \/ VerifyAdminStart(h, p) \/ FailAdminStart(h, p)
    PROVE  \E op, step : Reads(h, op, step, p)
<1>1. CASE VerifyStart(h, p)
  <2>1. CASE row[p] = "Success"
    <3>1. Reads(h, "verify", "verify sub", p)
      BY <1>1, <2>1 DEF VerifyStart, Reads, AllOps, FirstSteps
    <3>2. QED
      BY <3>1
  <2>2. CASE row[p] # "Success"
    <3>1. Reads(h, "verify", "verify ask", p)
      BY <1>1, <2>2 DEF VerifyStart, Reads, AllOps, FirstSteps
    <3>2. QED
      BY <3>1
  <2>3. QED
    BY <2>1, <2>2
<1>2. CASE NotifyStart(h, p)
  <2>1. Reads(h, "notify", "notify ask", p)
    BY <1>2 DEF NotifyStart, Reads, AllOps, FirstSteps
  <2>2. QED
    BY <2>1
<1>3. CASE CheckStart(h, p)
  <2>1. Reads(h, "check", "read sub", p)
    BY <1>3 DEF CheckStart, Reads, AllOps, FirstSteps
  <2>2. QED
    BY <2>1
<1>4. CASE VerifyAdminStart(h, p)
  <2>1. Reads(h, "averify", "averify ask", p)
    BY <1>4 DEF VerifyAdminStart, Reads, AllOps, FirstSteps
  <2>2. QED
    BY <2>1
<1>5. CASE FailAdminStart(h, p)
  <2>1. Reads(h, "fail", "fail write", p)
    BY <1>5 DEF FailAdminStart, Reads, AllOps, FirstSteps
  <2>2. QED
    BY <2>1
<1>6. QED
  BY <1>1, <1>2, <1>3, <1>4, <1>5

(***************************************************************************)
(* How the two moves of a request change its local state.                  *)
(***************************************************************************)
Moves(h) == job' \in [Handlers -> Job] /\ \A g \in Handlers \ {h} : job'[g] = job[g]

\* The invariant types the local state of every request.
LEMMA JobsTyped == IInv => job \in [Handlers -> Job]
BY DEF IInv, TypeOK

\* Returning or throwing leaves a request that needs no evidence.
LEMMA FinishMoves ==
    ASSUME IInv, NEW h \in Handlers, Finish(h)
    PROVE  Moves(h) /\ Evidence(job[h])'
<1>1. NoJob \in Job
  BY DEF NoJob, Job, AllOps, Steps, Statuses, SubStatuses, Expiries
<1>2. job'[h] = NoJob /\ Moves(h)
  BY <1>1 DEF IInv, TypeOK, Finish, Moves
<1>3. NoJob.at = "idle" /\ NoJob.pay = Null /\ NoJob.st = "Pending"
  BY DEF NoJob
<1>4. QED
  BY <1>2, <1>3 DEF Evidence, OnPayment, OnConfirmed

\* Going to another step changes nothing else of the request.
LEMMA GotoMoves ==
    ASSUME IInv, NEW h \in Handlers, NEW step, step \in Steps, Goto(h, step)
    PROVE  /\ Moves(h)
           /\ job'[h].at = step /\ job'[h].op = job[h].op
           /\ job'[h].user = job[h].user /\ job'[h].pay = job[h].pay
           /\ job'[h].pack = job[h].pack /\ job'[h].st = job[h].st
           /\ job'[h].sub = job[h].sub /\ job'[h].snap = job[h].snap
BY ZenonT(30) DEF IInv, TypeOK, Goto, Moves, Job

(***************************************************************************)
(* Statements that only read: the request moves, the tables do not.        *)
(***************************************************************************)
LEMMA VerifySubInv ==
    ASSUME IInv, NEW h \in Handlers, VerifySub(h)
    PROVE  IInv'
<1> DEFINE next == IF hasActiveSubscription(job[h].user) THEN "push" ELSE "ensure find"
<1>1. next \in Steps /\ next \in {"push", "ensure find"}
  BY DEF Steps
<1>2. job' = [job EXCEPT ![h].at = next, ![h].active = TRUE]
  BY DEF VerifySub
<1> HIDE DEF next
<1>3. /\ Moves(h) /\ job'[h].at = next /\ job'[h].st = job[h].st
      /\ job'[h].user = job[h].user /\ job'[h].pay = job[h].pay
  BY ZenonT(30), <1>1, <1>2, JobsTyped DEF Moves, Job
<1>4. Evidence(job[h])'
  BY <1>1, <1>3 DEF VerifySub, IInv, Evidence, Knows, OnPayment, OnConfirmed,
                    Settled, World, InPlay
<1>5. QED
  BY <1>3, <1>4, JobStep DEF VerifySub, Moves

\* Reading the subscription again only fills hasActiveSubscription.
LEMMA ReadSubInv ==
    ASSUME IInv, NEW h \in Handlers, ReadSub(h)
    PROVE  IInv'
<1> DEFINE usable == hasActiveSubscription(job[h].user)
<1>1. usable \in BOOLEAN
  BY DEF hasActiveSubscription
<1>2. job' = [job EXCEPT ![h].at = "push", ![h].active = usable]
  BY DEF ReadSub
<1> HIDE DEF usable
<1>3. "push" \in Steps
  BY DEF Steps
<1>4. /\ Moves(h) /\ job'[h].at = "push" /\ job'[h].st = job[h].st
      /\ job'[h].user = job[h].user /\ job'[h].pay = job[h].pay
  <2>1. PICK k : k = [job[h] EXCEPT !.at = "push", !.active = usable]
    OBVIOUS
  <2>2. job[h] \in Job
    BY JobsTyped
  <2>3. k \in Job
    BY <1>1, <1>3, <2>1, <2>2 DEF Job
  <2>4. k.at = "push" /\ k.st = job[h].st /\ k.user = job[h].user /\ k.pay = job[h].pay
    BY <2>1, <2>2 DEF Job
  <2>5. job' = [job EXCEPT ![h] = k]
    BY <1>2, <2>1
  <2>6. QED
    BY <2>3, <2>4, <2>5, JobsTyped DEF Moves
<1>5. Evidence(job[h])'
  BY <1>4 DEF ReadSub, IInv, Evidence, Knows, OnPayment, OnConfirmed, Settled,
              World, InPlay
<1>6. QED
  BY <1>4, <1>5, JobStep DEF ReadSub, Moves

(***************************************************************************)
(* What the provider answers is something it has seen.                     *)
(***************************************************************************)
LEMMA AnswerIsGenuine ==
    ASSUME IInv, NEW p \in Payments, gw[p] # "none"
    PROVE  /\ mapGeniusPayStatus(gw[p]) \in Statuses
           /\ \E s \in seen[p] : mapGeniusPayStatus(s) = mapGeniusPayStatus(gw[p])
           /\ mapGeniusPayStatus(gw[p]) = "Success" => Settled(p)
<1>1. gw[p] \in seen[p]
  BY DEF IInv, CurrentIsSeen
<1>2. mapGeniusPayStatus(gw[p]) \in Statuses
  BY DEF mapGeniusPayStatus, Statuses
<1>3. QED
  BY <1>1, <1>2 DEF Settled

\* A request that has just recorded the provider's answer st for its payment.
Heard(h, step, st) ==
    /\ job[h].at \in OnPayment /\ step \in Steps
    /\ step \in {"read sub", "verify update", "notify update", "averify update"}
    /\ st = mapGeniusPayStatus(gw[job[h].pay])
    /\ job' = [job EXCEPT ![h].at = step, ![h].st = st]
    /\ UNCHANGED <<World, Tables>>

\* Whoever hears the provider holds a status it really reported.
LEMMA HeardInv ==
    ASSUME IInv, NEW h \in Handlers, NEW step, NEW st, Heard(h, step, st)
    PROVE  IInv'
<1>1. Knows(job[h])
  BY DEF IInv, Evidence, Heard
<1>2. /\ st \in Statuses /\ \E s \in seen[job[h].pay] : mapGeniusPayStatus(s) = st
      /\ st = "Success" => Settled(job[h].pay)
  BY <1>1, AnswerIsGenuine DEF Knows, Heard
<1>3. step \in Steps /\ job' = [job EXCEPT ![h].at = step, ![h].st = st]
  BY DEF Heard
<1>4. /\ Moves(h) /\ job'[h].at = step /\ job'[h].st = st
      /\ job'[h].user = job[h].user /\ job'[h].pay = job[h].pay
  BY ZenonT(30), <1>2, <1>3, JobsTyped DEF Moves, Job
<1>5. /\ Knows(job[h])' /\ (st = "Success" => Settled(job[h].pay)')
      /\ \E s \in seen'[job'[h].pay] : mapGeniusPayStatus(s) = st
  BY <1>1, <1>2, <1>4 DEF Knows, World, Heard, Settled
<1>6. step \in {"read sub", "verify update", "notify update", "averify update"}
  BY DEF Heard
<1>7. Evidence(job[h])'
  BY <1>4, <1>5, <1>6 DEF Evidence, OnPayment, OnConfirmed
<1>8. QED
  BY <1>4, <1>7, JobStep DEF Heard, Moves

\* VerifyPayment asks, and compares the answer with its snapshot.
LEMMA VerifyAskInv ==
    ASSUME IInv, NEW h \in Handlers, VerifyAsk(h)
    PROVE  IInv'
<1> DEFINE st == mapGeniusPayStatus(gw[job[h].pay])
           next == IF st = job[h].snap THEN "read sub" ELSE "verify update"
<1>1. next \in Steps /\ next \in {"read sub", "verify update"} /\ job[h].at \in OnPayment
  BY DEF Steps, VerifyAsk, OnPayment
<1>2. job' = [job EXCEPT ![h].at = next, ![h].st = st]
  <2>1. job' = [job EXCEPT ![h].st = st, ![h].at = next]
    BY DEF VerifyAsk
  <2> HIDE DEF next, st
  <2>2. QED
    BY <2>1, JobsTyped DEF Job
<1> HIDE DEF next
<1>3. Heard(h, next, st)
  BY <1>1, <1>2 DEF Heard, VerifyAsk
<1>4. QED
  BY <1>3, HeardInv

\* The webhook asks, and compares with nothing.
LEMMA NotifyAskInv ==
    ASSUME IInv, NEW h \in Handlers, NotifyAsk(h)
    PROVE  IInv'
<1>1. Heard(h, "notify update", mapGeniusPayStatus(gw[job[h].pay]))
  BY DEF Heard, NotifyAsk, Steps, OnPayment
<1>2. QED
  BY <1>1, HeardInv

\* The admin's verification asks, and may stop there.
LEMMA VerifyAdminAskInv ==
    ASSUME IInv, NEW h \in Handlers, VerifyAdminAsk(h)
    PROVE  IInv'
<1>1. CASE Finish(h)
  BY <1>1, FinishMoves, JobStep DEF VerifyAdminAsk, Moves
<1>2. CASE ~Finish(h)
  <2>1. Heard(h, "averify update", mapGeniusPayStatus(gw[job[h].pay]))
    BY <1>2 DEF Heard, VerifyAdminAsk, Steps, OnPayment
  <2>2. QED
    BY <2>1, HeardInv
<1>3. QED
  BY <1>1, <1>2

(***************************************************************************)
(* A request that goes on to create a row keeps the right to do so.        *)
(***************************************************************************)
Entitled(j) == \/ j.op = "grant" /\ j.pay = Null /\ j.user \in Users
               \/ Knows(j) /\ j.st = "Success"

\* Being about to create a row, entitled as before, is evidence enough.
LEMMA CreateEvidence ==
    ASSUME IInv, NEW h \in Handlers, UNCHANGED <<World, Tables>>,
           Moves(h), Entitled(job[h]), job'[h].at = "create",
           job'[h].op = job[h].op, job'[h].user = job[h].user,
           job'[h].pay = job[h].pay, job'[h].st = job[h].st
    PROVE  IInv'
<1>1. Entitled(job[h])'
  BY DEF Entitled, Knows, World
<1>2. (job[h].pay # Null /\ job[h].st = "Success" => Settled(job[h].pay))'
  BY DEF IInv, Evidence, Settled, World
<1>3. Evidence(job[h])'
  BY <1>1, <1>2 DEF Evidence, Entitled, OnPayment, OnConfirmed
<1>4. QED
  BY <1>3, JobStep DEF Moves

\* A pack's expiry is a date or null.
LEMMA PackExpiryTyped ==
    ASSUME IInv, NEW k \in Packs
    PROVE  PackExpiry(k) \in Expiries /\ packs[k].days \in Nat
BY DEF IInv, TypeOK, PackExpiry, Expiries, Pack

\* ensureSubscription's look-up: a row exists, a pack is named, or 30 days are given.
LEMMA EnsureFindInv ==
    ASSUME IInv, NEW h \in Handlers, EnsureFind(h)
    PROVE  IInv'
<1> DEFINE after == AfterEnsure(job[h])
<1>1. Knows(job[h]) /\ job[h].st = "Success" /\ Settled(job[h].pay)
  BY NullAssumption DEF IInv, Evidence, EnsureFind, OnPayment, OnConfirmed, Knows
<1>2. after \in {"push", "read sub"} /\ after \in Steps /\ "ensure pack" \in Steps
      /\ "create" \in Steps
  BY DEF AfterEnsure, Steps
<1> HIDE DEF after
<1>3. CASE Goto(h, after)
  <2>1. /\ Moves(h) /\ job'[h].at \in {"push", "read sub"}
        /\ job'[h].st = job[h].st /\ job'[h].user = job[h].user
        /\ job'[h].pay = job[h].pay
    BY <1>2, <1>3, GotoMoves
  <2>2. Knows(job[h])' /\ Settled(job[h].pay)'
    BY <1>1, <2>1 DEF Knows, Settled, World, EnsureFind
  <2>3. Evidence(job[h])'
    BY <1>1, <2>1, <2>2 DEF Evidence, OnPayment, OnConfirmed
  <2>4. QED
    BY <2>1, <2>3, JobStep DEF Moves, EnsureFind
<1>4. Len(subs) \in Nat
  BY DEF IInv, TypeOK
<1>5. CASE /\ job[h].pack # Null
           /\ job' = [job EXCEPT ![h].at = "ensure pack", ![h].base = Len(subs)]
  <2> DEFINE n == Len(subs)
  <2>1. n \in Nat /\ job' = [job EXCEPT ![h].at = "ensure pack", ![h].base = n]
    BY <1>4, <1>5
  <2> HIDE DEF n
  <2>2. /\ Moves(h) /\ job'[h].at = "ensure pack" /\ job'[h].st = job[h].st
        /\ job'[h].pack = job[h].pack /\ job'[h].user = job[h].user
        /\ job'[h].pay = job[h].pay
    BY ZenonT(30), <1>2, <2>1, JobsTyped DEF Moves, Job
  <2>3. job'[h].pack \in Packs
    BY <1>5, <2>2, JobsTyped DEF Job
  <2>4. Knows(job[h])' /\ Settled(job[h].pay)'
    BY <1>1, <2>2 DEF Knows, Settled, World, EnsureFind
  <2>5. Evidence(job[h])'
    BY <1>1, <2>2, <2>3, <2>4 DEF Evidence, OnPayment, OnConfirmed
  <2>6. QED
    BY <2>2, <2>5, JobStep DEF Moves, EnsureFind
<1>6. CASE job' = [job EXCEPT ![h].at = "create", ![h].base = Len(subs),
                              ![h].exp = now + DefaultDays]
  <2> DEFINE e == now + DefaultDays
             n == Len(subs)
  <2>1. e \in Expiries /\ n \in Nat
    BY <1>4, ConstantsAssumption DEF IInv, TypeOK, Expiries
  <2>2. job' = [job EXCEPT ![h].at = "create", ![h].base = n, ![h].exp = e]
    BY <1>6
  <2> HIDE DEF e, n
  <2>3. /\ Moves(h) /\ job'[h].at = "create" /\ job'[h].op = job[h].op
        /\ job'[h].user = job[h].user /\ job'[h].pay = job[h].pay
        /\ job'[h].st = job[h].st
    <3> DEFINE r == [job[h] EXCEPT !.at = "create", !.base = n]
               s == [r EXCEPT !.exp = e]
    <3>1. /\ r \in Job /\ r.at = "create" /\ r.op = job[h].op /\ r.user = job[h].user
          /\ r.pay = job[h].pay /\ r.st = job[h].st
      BY <1>2, <2>1, JobsTyped DEF Job
    <3>2. job' = [job EXCEPT ![h] = s]
      BY <2>2
    <3> HIDE DEF r
    <3>3. /\ s \in Job /\ s.at = r.at /\ s.op = r.op /\ s.user = r.user
          /\ s.pay = r.pay /\ s.st = r.st
      BY <2>1, <3>1 DEF Job
    <3> HIDE DEF s
    <3>4. Moves(h) /\ job'[h] = s
      BY <3>2, <3>3, JobsTyped DEF Moves
    <3>5. QED
      BY <3>1, <3>3, <3>4
  <2>4. QED
    BY <1>1, <2>3, CreateEvidence DEF Entitled, EnsureFind
<1>7. QED
  BY <1>3, <1>5, <1>6 DEF EnsureFind, after

\* The request learns from the packs table what its pack gives.
Priced(h, e, l) ==
    job' = [job EXCEPT ![h].at = "create", ![h].exp = e, ![h].life = l]

\* Pricing a request by its pack keeps its right to create the row.
LEMMA PricedInv ==
    ASSUME IInv, NEW h \in Handlers, NEW e, NEW l, e \in Expiries, l \in BOOLEAN,
           job[h].at \in {"ensure pack", "subscribe pack", "grant pack"},
           Priced(h, e, l), UNCHANGED <<World, Tables>>
    PROVE  IInv'
<1>1. "create" \in Steps
  BY DEF Steps
<1>2. /\ Moves(h) /\ job'[h].at = "create" /\ job'[h].op = job[h].op
      /\ job'[h].user = job[h].user /\ job'[h].pay = job[h].pay
      /\ job'[h].st = job[h].st
  <2> DEFINE mid == [job EXCEPT ![h].at = "create", ![h].exp = e]
  <2>1. /\ mid \in [Handlers -> Job] /\ \A g \in Handlers \ {h} : mid[g] = job[g]
        /\ mid[h].at = "create" /\ mid[h].op = job[h].op
        /\ mid[h].user = job[h].user /\ mid[h].pay = job[h].pay
        /\ mid[h].st = job[h].st
    BY ZenonT(30), <1>1, JobsTyped DEF Job
  <2>2. job' = [mid EXCEPT ![h].life = l]
    BY DEF Priced
  <2> HIDE DEF mid
  <2>3. PICK k : k = [mid[h] EXCEPT !.life = l]
    OBVIOUS
  <2>4. k \in Job
    <3>1. mid[h] \in Job
      BY <2>1
    <3>2. QED
      BY <2>3, <3>1 DEF Job
  <2>5. /\ k.at = mid[h].at /\ k.op = mid[h].op /\ k.user = mid[h].user
        /\ k.pay = mid[h].pay /\ k.st = mid[h].st
    BY <2>1, <2>3 DEF Job
  <2>6. job' = [mid EXCEPT ![h] = k]
    BY <2>2, <2>3
  <2>7. QED
    BY <2>1, <2>4, <2>5, <2>6 DEF Moves
<1>3. Entitled(job[h])
  BY DEF IInv, Evidence, Entitled, OnPayment, OnConfirmed
<1>4. QED
  BY <1>2, <1>3, CreateEvidence

\* ensureSubscription reads the pack, deleted or not.
LEMMA EnsurePackInv ==
    ASSUME IInv, NEW h \in Handlers, EnsurePack(h)
    PROVE  IInv'
<1> DEFINE k == job[h].pack
           live == packs[k].state = "live"
           e == IF live THEN PackExpiry(k) ELSE Null
           l == live /\ packs[k].days = 0
<1>1. k \in Packs
  BY DEF IInv, Evidence, EnsurePack
<1>2. e \in Expiries /\ l \in BOOLEAN
  BY <1>1, PackExpiryTyped DEF Expiries
<1>3. Priced(h, e, l)
  BY DEF EnsurePack, Priced
<1> HIDE DEF e, l
<1>4. QED
  BY <1>2, <1>3, PricedInv DEF EnsurePack

\* SubscribeUseCase and the admin's grant read the pack and refuse a deleted one.
LEMMA SubscribePackInv ==
    ASSUME IInv, NEW h \in Handlers, SubscribePack(h)
    PROVE  IInv'
<1> DEFINE k == job[h].pack
           e == PackExpiry(k)
           l == (packs[k].days = 0)
<1>1. CASE Finish(h)
  BY <1>1, FinishMoves, JobStep DEF SubscribePack, Moves
<1>2. CASE ~Finish(h)
  <2>1. k \in Packs
    BY DEF IInv, Evidence, SubscribePack
  <2>2. e \in Expiries /\ l \in BOOLEAN
    BY <2>1, PackExpiryTyped
  <2>3. Priced(h, e, l)
    BY <1>2 DEF SubscribePack, Priced
  <2> HIDE DEF e, l
  <2>4. QED
    BY <2>2, <2>3, PricedInv DEF SubscribePack
<1>3. QED
  BY <1>1, <1>2

(***************************************************************************)
(* The remaining arrivals build their local state themselves.              *)
(***************************************************************************)
LEMMA ReplaceMoves ==
    ASSUME IInv, NEW h \in Handlers, NEW r, r \in Job, job' = [job EXCEPT ![h] = r]
    PROVE  Moves(h) /\ job'[h] = r
BY JobsTyped DEF Moves

\* A new payment has no row and no evidence yet.
LEMMA InitiateStartInv ==
    ASSUME IInv, NEW h \in Handlers, NEW p \in Payments, InitiateStart(h, p)
    PROVE  IInv'
<1> DEFINE r == [NoJob EXCEPT !.op = "initiate", !.pay = p, !.at = "initiate gateway"]
<1>1. /\ r \in Job /\ r.at = "initiate gateway" /\ r.pay = p /\ r.st = "Pending"
  BY DEF NoJob, Job, AllOps, Steps, Statuses, SubStatuses, Expiries
<1>2. job' = [job EXCEPT ![h] = r]
  BY DEF InitiateStart
<1> HIDE DEF r
<1>3. Moves(h) /\ job'[h] = r
  BY <1>1, <1>2, ReplaceMoves
<1>4. Evidence(job[h])'
  BY <1>1, <1>3 DEF Evidence, OnPayment, OnConfirmed
<1>5. QED
  BY <1>3, <1>4, JobStep DEF InitiateStart, Moves

\* An admin's update or deletion has found its subscription.
LEMMA AdminSubStartInv ==
    ASSUME IInv, NEW h \in Handlers, NEW op \in {"amend", "remove"}, NEW i,
           AdminSubStart(h, op, i)
    PROVE  IInv'
<1> DEFINE step == IF op = "amend" THEN "amend write" ELSE "remove write"
           r == [NoJob EXCEPT !.op = op, !.sub = i, !.at = step]
<1>1. op \in AllOps /\ step \in Steps /\ step \in {"amend write", "remove write"}
  BY DEF AllOps, Steps
<1>2. i \in DOMAIN subs /\ i \in Nat
  BY DEF AdminSubStart, IInv, TypeOK
<1>3. job' = [job EXCEPT ![h] = r]
  BY DEF AdminSubStart
<1>4. "active" \in SubStatuses /\ "Pending" \in Statuses
  BY DEF SubStatuses, Statuses
<1> HIDE DEF step
<1>5. r \in Job /\ r.at = step /\ r.pay = Null /\ r.sub = i
  BY <1>1, <1>2, <1>4 DEF NoJob, Job, Expiries
<1> HIDE DEF r
<1>6. Moves(h) /\ job'[h] = r
  BY <1>3, <1>5, ReplaceMoves
<1>7. Evidence(job[h])'
  BY <1>1, <1>2, <1>5, <1>6 DEF Evidence, OnPayment, OnConfirmed, AdminSubStart, Tables
<1>8. QED
  BY <1>6, <1>7, JobStep DEF AdminSubStart, Moves

\* An admin's grant is about an existing user and names no payment.
LEMMA GrantStartInv ==
    ASSUME IInv, NEW h \in Handlers, NEW u \in Users, NEW k \in Packs \cup {Null},
           NEW d \in GrantDays, NEW label \in {"active", "inactive"},
           GrantStart(h, u, k, d, label)
    PROVE  IInv'
<1> DEFINE step == IF k = Null THEN "create" ELSE "grant pack"
           e == IF k = Null THEN now + d ELSE Null
           r == [NoJob EXCEPT !.op = "grant", !.user = u, !.pack = k, !.label = label,
                              !.at = step, !.exp = e]
<1>1. step \in Steps /\ step \in {"create", "grant pack"} /\ "grant" \in AllOps
      /\ label \in SubStatuses /\ "Pending" \in Statuses
  BY DEF Steps, AllOps, SubStatuses, Statuses
<1>2. e \in Expiries
  BY ConstantsAssumption DEF IInv, TypeOK, Expiries, GrantDays
<1>3. step = "grant pack" => k \in Packs
  OBVIOUS
<1>4. job' = [job EXCEPT ![h] = r]
  BY DEF GrantStart
<1> HIDE DEF step, e
<1>5. r \in Job /\ r.at = step /\ r.pay = Null /\ r.op = "grant" /\ r.user = u /\ r.pack = k
  BY <1>1, <1>2 DEF NoJob, Job
<1> HIDE DEF r
<1>6. Moves(h) /\ job'[h] = r
  BY <1>4, <1>5, ReplaceMoves
<1>7. Evidence(job[h])'
  BY <1>1, <1>3, <1>5, <1>6 DEF Evidence, OnPayment, OnConfirmed
<1>8. QED
  BY <1>6, <1>7, JobStep DEF GrantStart, Moves

\* A user who subscribes has read a confirmed payment of their own.
LEMMA SubscribeStartInv ==
    ASSUME IInv, NEW h \in Handlers, NEW u \in Users, NEW p \in Payments,
           NEW k \in Packs \cup {Null}, NEW d \in GrantDays,
           SubscribeStart(h, u, p, k, d)
    PROVE  IInv'
<1> DEFINE step == IF k = Null THEN "create" ELSE "subscribe pack"
           e == IF k = Null THEN now + d ELSE Null
           r == [Snapshot("subscribe", step, p) EXCEPT !.user = u, !.pack = k, !.exp = e]
<1>1. step \in Steps /\ step \in {"create", "subscribe pack"} /\ "subscribe" \in AllOps
      /\ "active" \in SubStatuses /\ "Success" \in Statuses
  BY DEF Steps, AllOps, SubStatuses, Statuses
<1>2. e \in Expiries
  BY ConstantsAssumption DEF IInv, TypeOK, Expiries, GrantDays
<1>3. step = "subscribe pack" => k \in Packs
  OBVIOUS
<1>4. job' = [job EXCEPT ![h] = r]
  BY DEF SubscribeStart
<1>5. row[p] = "Success" /\ Owner[p] = u
  BY DEF SubscribeStart
<1> HIDE DEF step, e
<1>6. r \in Job /\ r.at = step /\ r.pay = p /\ r.user = u /\ r.pack = k /\ r.st = "Success"
  BY <1>1, <1>2, <1>5 DEF Snapshot, NoJob, Job
<1> HIDE DEF r
<1>7. Moves(h) /\ job'[h] = r
  BY <1>4, <1>6, ReplaceMoves
<1>8. Settled(p) /\ gw[p] # "none"
  BY <1>5 DEF IInv, StatusesAreGenuine, Settled
<1>9. Settled(p)' /\ gw'[p] # "none"
  BY <1>8 DEF Settled, SubscribeStart, World
<1>10. Evidence(job[h])'
  BY <1>1, <1>3, <1>5, <1>6, <1>7, <1>9 DEF Evidence, Knows, OnPayment, OnConfirmed
<1>11. QED
  BY <1>7, <1>10, JobStep DEF SubscribeStart, Moves

(***************************************************************************)
(* Statements that write payments.status: InitiatePayment's insert, the    *)
(* three updates from a provider's answer, the admin's failure.  The value *)
(* written must be one the row may have.                                   *)
(***************************************************************************)
LEMMA RowInv ==
    ASSUME IInv, NEW h \in Handlers, Moves(h), Evidence(job[h])',
           NEW p \in Payments, gw[p] # "none", NEW st \in Statuses,
           \/ st = "Pending"
           \/ st = "Failed" /\ InPlay("fail")
           \/ \E s \in seen[p] : mapGeniusPayStatus(s) = st,
           row' = [row EXCEPT ![p] = st],
           UNCHANGED <<World, subs, packs, notices, told>>
    PROVE  IInv'
<1>1. row' \in [Payments -> Row]
  BY DEF IInv, TypeOK, Row
<1>2. TypeOK'
  BY <1>1 DEF IInv, TypeOK, World, Moves
<1>3. CurrentIsSeen' /\ SubscriptionsArePaidFor' /\ Grows
  BY DEF IInv, CurrentIsSeen, SubscriptionsArePaidFor, Settled, World, Grows
<1>4. StatusesAreGenuine'
  <2>1. \A q \in Payments : row'[q] = IF q = p THEN st ELSE row[q]
    BY DEF IInv, TypeOK
  <2>2. gw' = gw /\ seen' = seen /\ told' = told /\ notices' = notices
    BY DEF World
  <2>3. QED
    BY <2>1, <2>2 DEF IInv, StatusesAreGenuine, Settled, InPlay
<1>5. QED
  BY <1>2, <1>3, <1>4, OthersKeepEvidence DEF IInv, Moves

\* The row is inserted Pending once the provider knows the payment.
LEMMA InitiateCreateInv ==
    ASSUME IInv, NEW h \in Handlers, InitiateCreate(h)
    PROVE  IInv'
<1>1. job[h].pay \in Payments /\ gw[job[h].pay] # "none" /\ "Pending" \in Statuses
  BY DEF IInv, Evidence, InitiateCreate, Statuses
<1>2. QED
  BY <1>1, FinishMoves, RowInv DEF InitiateCreate

\* The admin's failure is one of the values a row may have.
LEMMA FailAdminWriteInv ==
    ASSUME IInv, NEW h \in Handlers, FailAdminWrite(h)
    PROVE  IInv'
<1>1. Knows(job[h]) /\ InPlay("fail") /\ "Failed" \in Statuses
  BY DEF IInv, Evidence, FailAdminWrite, OnPayment, Statuses
<1>2. QED
  BY <1>1, FinishMoves, RowInv DEF FailAdminWrite, Knows

\* A request that holds an answer writes it and goes on.
Records(h, next) ==
    /\ job[h].at \in {"verify update", "notify update", "averify update"}
    /\ next \in {"read sub", "ensure find", "notify paid", "averify paid"}
    /\ next # "read sub" => job[h].st = "Success"
    /\ row' = [row EXCEPT ![job[h].pay] = job[h].st]
    /\ Goto(h, next)
    /\ UNCHANGED <<World, subs, packs, notices, told>>

\* A request about to write an answer knows its payment and where the answer is from.
LEMMA HeldAnswer ==
    ASSUME IInv, NEW h \in Handlers,
           job[h].at \in {"verify update", "notify update", "averify update"}
    PROVE  /\ Knows(job[h]) /\ job[h].st \in Statuses
           /\ \E s \in seen[job[h].pay] : mapGeniusPayStatus(s) = job[h].st
<1>1. job[h].st \in Statuses
  BY JobsTyped DEF Job
<1>2. QED
  BY <1>1 DEF IInv, Evidence, OnPayment

\* Writing a held answer, whatever the next step, preserves the invariant.
LEMMA RecordsInv ==
    ASSUME IInv, NEW h \in Handlers, NEW next, Records(h, next)
    PROVE  IInv'
<1>1. /\ Knows(job[h]) /\ job[h].st \in Statuses
      /\ \E s \in seen[job[h].pay] : mapGeniusPayStatus(s) = job[h].st
  BY HeldAnswer DEF Records
<1>2. next \in {"read sub", "ensure find", "notify paid", "averify paid"} /\ next \in Steps
  BY DEF Records, Steps
<1>3. /\ Moves(h) /\ job'[h].at = next /\ job'[h].st = job[h].st
      /\ job'[h].user = job[h].user /\ job'[h].pay = job[h].pay
  BY <1>2, GotoMoves DEF Records
<1>4. /\ Knows(job[h])' /\ (job[h].st = "Success" => Settled(job[h].pay)')
      /\ (next # "read sub" => job[h].st = "Success")
  BY <1>1, <1>3 DEF Knows, Records, World, Settled
<1>5. Evidence(job[h])'
  BY <1>2, <1>3, <1>4 DEF Evidence, OnPayment, OnConfirmed
<1>6. QED
  BY <1>1, <1>3, <1>5, RowInv DEF Records, Knows

\* VerifyPayment's update preserves the invariant.
LEMMA VerifyUpdateInv ==
    ASSUME IInv, NEW h \in Handlers, VerifyUpdate(h)
    PROVE  IInv'
<1>1. CASE job[h].st = "Success"
  <2>1. Records(h, "ensure find")
    BY <1>1 DEF VerifyUpdate, Records
  <2>2. QED
    BY <2>1, RecordsInv
<1>2. CASE job[h].st # "Success"
  <2>1. Records(h, "read sub")
    BY <1>2 DEF VerifyUpdate, Records
  <2>2. QED
    BY <2>1, RecordsInv
<1>3. QED
  BY <1>1, <1>2

\* The webhook's unconditional update preserves the invariant.
LEMMA NotifyUpdateInv ==
    ASSUME IInv, NEW h \in Handlers, NotifyUpdate(h)
    PROVE  IInv'
<1>1. CASE job[h].st = "Success"
  <2>1. Records(h, "notify paid")
    BY <1>1 DEF NotifyUpdate, Records
  <2>2. QED
    BY <2>1, RecordsInv
<1>2. CASE job[h].st # "Success"
  <2>1. Records(h, "read sub")
    BY <1>2 DEF NotifyUpdate, Records
  <2>2. QED
    BY <2>1, RecordsInv
<1>3. QED
  BY <1>1, <1>2

\* The admin verification's update preserves the invariant.
LEMMA VerifyAdminUpdateInv ==
    ASSUME IInv, NEW h \in Handlers, VerifyAdminUpdate(h)
    PROVE  IInv'
<1>1. CASE job[h].st = "Success"
  <2>1. Records(h, "averify paid")
    BY <1>1 DEF VerifyAdminUpdate, Records
  <2>2. QED
    BY <2>1, RecordsInv
<1>2. CASE job[h].st # "Success"
  <2>1. Finish(h)
    BY <1>2 DEF VerifyAdminUpdate
  <2>2. QED
    BY <2>1, HeldAnswer, FinishMoves, RowInv DEF VerifyAdminUpdate, Knows
<1>3. QED
  BY <1>1, <1>2

(***************************************************************************)
(* Statements that tell somebody: rows of the notifications table and the  *)
(* paymentStatus events.                                                   *)
(***************************************************************************)
LEMMA NoticeInv ==
    ASSUME IInv, NEW h \in Handlers, Moves(h), Evidence(job[h])', NEW n \in Notice,
           n.type = "PAIEMENT" => Settled(n.link) /\ n.to = Owner[n.link],
           notices' = notices \cup {n},
           UNCHANGED <<World, row, subs, packs, told>>
    PROVE  IInv'
<1>1. TypeOK'
  BY DEF IInv, TypeOK, World, Moves
<1>2. CurrentIsSeen' /\ SubscriptionsArePaidFor' /\ Grows
  BY DEF IInv, CurrentIsSeen, SubscriptionsArePaidFor, Settled, World, Grows
<1>3. StatusesAreGenuine'
  BY DEF IInv, StatusesAreGenuine, Settled, World, InPlay
<1>4. QED
  BY <1>1, <1>2, <1>3, OthersKeepEvidence DEF IInv, Moves

\* The ABONNEMENT notification preserves the invariant, and the request goes on.
LEMMA AnnounceInv ==
    ASSUME IInv, NEW h \in Handlers, Announce(h)
    PROVE  IInv'
<1> DEFINE after == AfterEnsure(job[h])
           n == [type |-> "ABONNEMENT", to |-> job[h].user, link |-> job[h].sub]
<1>1. Entitled(job[h])
  BY DEF IInv, Evidence, Announce, Entitled
<1>2. job[h].user \in Users /\ job[h].sub \in Nat
  BY <1>1, JobsTyped, ConstantsAssumption DEF Entitled, Knows, Job
<1>3. n \in Notice /\ n.type # "PAIEMENT"
  BY <1>2 DEF Notice
<1>4. Moves(h) /\ Evidence(job[h])'
  <2>1. CASE Finish(h)
    BY <2>1, FinishMoves
  <2>2. CASE Goto(h, after) /\ job[h].op # "grant"
    <3>1. after \in {"push", "read sub"} /\ after \in Steps
      BY DEF AfterEnsure, Steps
    <3> HIDE DEF after
    <3>2. /\ Moves(h) /\ job'[h].at = after /\ job'[h].st = job[h].st
          /\ job'[h].user = job[h].user /\ job'[h].pay = job[h].pay
      BY <2>2, <3>1, GotoMoves
    <3>3. Knows(job[h]) /\ job[h].st = "Success" /\ Settled(job[h].pay)
      BY <1>1, <2>2, NullAssumption DEF Entitled, Knows, IInv, Evidence
    <3>4. Knows(job[h])' /\ Settled(job[h].pay)'
      BY <3>2, <3>3 DEF Knows, Settled, World, Announce
    <3>5. Evidence(job[h])'
      BY <3>1, <3>2, <3>4 DEF Evidence, OnPayment, OnConfirmed
    <3>6. QED
      BY <3>2, <3>5
  <2>3. QED
    BY <2>1, <2>2 DEF Announce
<1>5. QED
  BY <1>3, <1>4, NoticeInv DEF Announce

\* A PAIEMENT notification is for the payer of a completed payment.
LEMMA PaidNoticeTyped ==
    ASSUME IInv, NEW h \in Handlers, job[h].at \in {"notify paid", "averify paid"}
    PROVE  /\ Knows(job[h]) /\ job[h].st = "Success" /\ Settled(job[h].pay)
           /\ PaidNotice(job[h]) \in Notice
           /\ PaidNotice(job[h]).link = job[h].pay
           /\ PaidNotice(job[h]).to = Owner[job[h].pay]
<1>1. Knows(job[h]) /\ job[h].st = "Success" /\ Settled(job[h].pay)
  BY NullAssumption DEF IInv, Evidence, OnPayment, OnConfirmed, Knows
<1>2. job[h].pay \in Payments /\ job[h].user \in Users
  BY <1>1, ConstantsAssumption DEF Knows
<1>3. QED
  BY <1>1, <1>2 DEF PaidNotice, Notice, Knows

\* The webhook's PAIEMENT notification preserves the invariant.
LEMMA NotifyPaidInv ==
    ASSUME IInv, NEW h \in Handlers, NotifyPaid(h)
    PROVE  IInv'
<1>1. Knows(job[h]) /\ job[h].st = "Success" /\ Settled(job[h].pay)
  BY PaidNoticeTyped DEF NotifyPaid
<1>2. "ensure find" \in Steps
  BY DEF Steps
<1>3. /\ Moves(h) /\ job'[h].at = "ensure find" /\ job'[h].st = job[h].st
      /\ job'[h].user = job[h].user /\ job'[h].pay = job[h].pay
  BY <1>2, GotoMoves DEF NotifyPaid
<1>4. Knows(job[h])' /\ Settled(job[h].pay)'
  BY <1>1, <1>3 DEF Knows, Settled, World, NotifyPaid
<1>5. Evidence(job[h])'
  BY <1>1, <1>3, <1>4 DEF Evidence, OnPayment, OnConfirmed
<1>6. QED
  BY <1>3, <1>5, PaidNoticeTyped, NoticeInv DEF NotifyPaid

\* The admin verification's PAIEMENT notification preserves the invariant.
LEMMA VerifyAdminPaidInv ==
    ASSUME IInv, NEW h \in Handlers, VerifyAdminPaid(h)
    PROVE  IInv'
BY FinishMoves, PaidNoticeTyped, NoticeInv DEF VerifyAdminPaid

\* A paymentStatus event carries the status its request holds evidence for.
LEMMA PushInv ==
    ASSUME IInv, NEW h \in Handlers, Push(h)
    PROVE  IInv'
<1> DEFINE p == job[h].pay
           event == [status |-> job[h].st, active |-> job[h].active]
<1>1. Knows(job[h]) /\ (job[h].st = "Success" => Settled(p))
  BY NullAssumption DEF IInv, Evidence, Push, OnPayment, Knows
<1>2. event \in [status: Row, active: BOOLEAN]
  BY JobsTyped DEF Job, Row
<1>3. p \in Payments
  BY <1>1 DEF Knows
<1>4. told' = [told EXCEPT ![p] = event] /\ UNCHANGED <<World, row, subs, packs, notices>>
  BY DEF Push
<1>5. Moves(h) /\ Evidence(job[h])'
  BY FinishMoves DEF Push
<1>6. TypeOK'
  BY <1>2, <1>3, <1>4, <1>5 DEF IInv, TypeOK, World, Moves
<1>7. CurrentIsSeen' /\ SubscriptionsArePaidFor' /\ Grows
  BY <1>4 DEF IInv, CurrentIsSeen, SubscriptionsArePaidFor, Settled, World, Grows
<1>8. StatusesAreGenuine'
  <2>1. \A q \in Payments : told'[q].status = "Success" => Settled(q)
    BY <1>1, <1>3, <1>4 DEF IInv, TypeOK, StatusesAreGenuine
  <2>2. QED
    BY <1>4, <2>1 DEF IInv, StatusesAreGenuine, Settled, World, InPlay
<1>9. QED
  BY <1>5, <1>6, <1>7, <1>8, OthersKeepEvidence DEF IInv, Moves

(***************************************************************************)
(* Statements that write the subscriptions table.                          *)
(***************************************************************************)
PaidFor(sub) == sub.pay # Null => Settled(sub.pay) /\ sub.user = Owner[sub.pay]

\* A table that grew, all of its rows paid for, preserves the invariant.
LEMMA SubsInv ==
    ASSUME IInv, NEW h \in Handlers, Moves(h), Evidence(job[h])',
           subs' \in Seq(Subscription), DOMAIN subs \subseteq DOMAIN subs',
           \A i \in DOMAIN subs' : PaidFor(subs'[i]),
           UNCHANGED <<World, row, packs, notices, told>>
    PROVE  IInv'
<1>1. TypeOK'
  BY DEF IInv, TypeOK, World, Moves
<1>2. CurrentIsSeen' /\ StatusesAreGenuine' /\ Grows
  BY DEF IInv, CurrentIsSeen, StatusesAreGenuine, Settled, World, InPlay, Grows
<1>3. SubscriptionsArePaidFor'
  BY DEF SubscriptionsArePaidFor, PaidFor, Settled, World
<1>4. QED
  BY <1>1, <1>2, <1>3, OthersKeepEvidence DEF IInv, Moves

\* An inserted row is paid for because its request is entitled to it.
LEMMA CreateSubscriptionInv ==
    ASSUME IInv, NEW h \in Handlers, CreateSubscription(h)
    PROVE  IInv'
<1> DEFINE j == job[h]
           new == [user |-> j.user, pay |-> j.pay, exp |-> j.exp, status |-> j.label]
<1>1. Entitled(j)
  BY DEF IInv, Evidence, CreateSubscription, Entitled
<1>2. j.user \in Users /\ j.pay \in Payments \cup {Null} /\ j.exp \in Expiries
      /\ j.label \in SubStatuses
  BY <1>1, JobsTyped, ConstantsAssumption DEF Entitled, Knows, Job
<1>3. new \in Subscription /\ new.user = j.user /\ new.pay = j.pay
  BY <1>2 DEF Subscription
<1>4. PaidFor(new)
  BY <1>1, <1>3 DEF Entitled, Knows, PaidFor, IInv, Evidence
<1>5. subs \in Seq(Subscription) /\ \A i \in DOMAIN subs : PaidFor(subs[i])
  BY DEF IInv, TypeOK, SubscriptionsArePaidFor, PaidFor
<1>6. subs' = Append(subs, new)
  BY DEF CreateSubscription
<1> HIDE DEF new
<1>7. /\ subs' \in Seq(Subscription) /\ DOMAIN subs \subseteq DOMAIN subs'
      /\ \A i \in DOMAIN subs' : PaidFor(subs'[i])
  BY <1>3, <1>4, <1>5, <1>6
<1>8. Moves(h) /\ Evidence(job[h])'
  <2>1. CASE Finish(h)
    BY <2>1, FinishMoves
  <2>2. CASE job' = [job EXCEPT ![h].at = "announce", ![h].sub = Len(subs) + 1]
    <3>1. "announce" \in Steps /\ Len(subs) + 1 \in Nat
      BY <1>5 DEF Steps
    <3> DEFINE last == Len(subs) + 1
    <3>2. job' = [job EXCEPT ![h].at = "announce", ![h].sub = last] /\ last \in Nat
      BY <2>2, <3>1
    <3> HIDE DEF last
    <3>3. /\ Moves(h) /\ job'[h].at = "announce" /\ job'[h].op = job[h].op
          /\ job'[h].user = job[h].user /\ job'[h].pay = job[h].pay
          /\ job'[h].st = job[h].st
      BY ZenonT(30), <3>1, <3>2, JobsTyped DEF Moves, Job
    <3>4. Entitled(job[h])'
      BY <1>1, <3>3 DEF Entitled, Knows, CreateSubscription, World
    <3>5. (job[h].pay # Null /\ job[h].st = "Success" => Settled(job[h].pay))'
      BY <3>3 DEF IInv, Evidence, Settled, CreateSubscription, World
    <3>6. Evidence(job[h])'
      BY <3>3, <3>4, <3>5 DEF Evidence, Entitled, OnPayment, OnConfirmed
    <3>7. QED
      BY <3>3, <3>6
  <2>3. QED
    BY <2>1, <2>2 DEF CreateSubscription
<1>9. QED
  BY <1>7, <1>8, SubsInv DEF CreateSubscription

(***************************************************************************)
(* The admin's updates touch the status and the expiry of one row.         *)
(***************************************************************************)
LEMMA RowsKeepBacking ==
    ASSUME IInv, subs' \in Seq(Subscription), DOMAIN subs' = DOMAIN subs,
           \A i \in DOMAIN subs : subs'[i].user = subs[i].user /\ subs'[i].pay = subs[i].pay
    PROVE  \A i \in DOMAIN subs' : PaidFor(subs'[i])
BY DEF IInv, SubscriptionsArePaidFor, PaidFor

\* Rewriting one row with the same user and payment keeps every backing.
LEMMA RowRewritten ==
    ASSUME IInv, NEW i \in DOMAIN subs, NEW r \in Subscription,
           r.user = subs[i].user, r.pay = subs[i].pay,
           subs' = [subs EXCEPT ![i] = r]
    PROVE  /\ subs' \in Seq(Subscription) /\ DOMAIN subs' = DOMAIN subs
           /\ \A k \in DOMAIN subs :
                subs'[k].user = subs[k].user /\ subs'[k].pay = subs[k].pay
<1>1. subs \in Seq(Subscription) /\ i \in 1 .. Len(subs)
  BY DEF IInv, TypeOK
<1>2. subs' \in Seq(Subscription)
  BY <1>1, ExceptSeq
<1>3. QED
  BY <1>1, <1>2

\* An admin's update keeps the user and the payment of every row.
LEMMA AmendKeeps ==
    ASSUME IInv, NEW h \in Handlers, NEW label \in {"active", "inactive"}, NEW e,
           e \in Expiries, AmendWrite(h, label, e)
    PROVE  /\ subs' \in Seq(Subscription) /\ DOMAIN subs' = DOMAIN subs
           /\ \A k \in DOMAIN subs :
                subs'[k].user = subs[k].user /\ subs'[k].pay = subs[k].pay
<1> DEFINE i == job[h].sub
           r == [subs[i] EXCEPT !.status = label, !.exp = e]
<1>1. subs \in Seq(Subscription) /\ i \in DOMAIN subs /\ label \in SubStatuses
  BY DEF IInv, TypeOK, Evidence, AmendWrite, SubStatuses
<1>2. subs[i] \in Subscription
  BY <1>1
<1>3. r \in Subscription /\ r.user = subs[i].user /\ r.pay = subs[i].pay
  BY <1>1, <1>2 DEF Subscription
<1>4. CASE subs' = subs
  BY <1>1, <1>4
<1>5. CASE subs' = [subs EXCEPT ![i].status = label, ![i].exp = e]
  <2>1. subs' = [subs EXCEPT ![i] = r]
    BY <1>1, <1>2, <1>5 DEF Subscription
  <2> HIDE DEF r, i
  <2>2. QED
    BY <1>1, <1>3, <2>1, RowRewritten
<1>6. QED
  BY <1>4, <1>5 DEF AmendWrite

\* An admin's deletion keeps the user and the payment of every row.
LEMMA RemoveKeeps ==
    ASSUME IInv, NEW h \in Handlers, RemoveWrite(h)
    PROVE  /\ subs' \in Seq(Subscription) /\ DOMAIN subs' = DOMAIN subs
           /\ \A k \in DOMAIN subs :
                subs'[k].user = subs[k].user /\ subs'[k].pay = subs[k].pay
<1> DEFINE i == job[h].sub
           r == [subs[i] EXCEPT !.status = "deleted"]
<1>1. subs \in Seq(Subscription) /\ i \in DOMAIN subs /\ "deleted" \in SubStatuses
  BY DEF IInv, TypeOK, Evidence, RemoveWrite, SubStatuses
<1>2. subs[i] \in Subscription
  BY <1>1
<1>3. r \in Subscription /\ r.user = subs[i].user /\ r.pay = subs[i].pay
  BY <1>1, <1>2 DEF Subscription
<1>4. subs' = [subs EXCEPT ![i] = r]
  BY <1>1 DEF RemoveWrite
<1> HIDE DEF r, i
<1>5. QED
  BY <1>1, <1>3, <1>4, RowRewritten

\* An admin's update preserves the invariant.
LEMMA AmendWriteInv ==
    ASSUME IInv, NEW h \in Handlers, NEW label \in {"active", "inactive"}, NEW e,
           e \in Expiries, AmendWrite(h, label, e)
    PROVE  IInv'
BY AmendKeeps, RowsKeepBacking, FinishMoves, SubsInv DEF AmendWrite

\* An admin's deletion preserves the invariant.
LEMMA RemoveWriteInv ==
    ASSUME IInv, NEW h \in Handlers, RemoveWrite(h)
    PROVE  IInv'
BY RemoveKeeps, RowsKeepBacking, FinishMoves, SubsInv DEF RemoveWrite

(***************************************************************************)
(* The provider moves a payment: its history grows by the new status.      *)
(***************************************************************************)
ProviderMoves(p, s) ==
    /\ gw' = [gw EXCEPT ![p] = s]
    /\ seen' = [seen EXCEPT ![p] = @ \cup {s}]
    /\ UNCHANGED <<now, Tables>>

\* A provider's move only adds to the history.
LEMMA HistoryGrows ==
    ASSUME IInv, NEW p \in Payments, NEW s \in AllGatewayStatuses, ProviderMoves(p, s)
    PROVE  Grows /\ CurrentIsSeen' /\ gw'[p] # "none"
<1>1. /\ gw' \in [Payments -> AllGatewayStatuses \cup {"none"}]
      /\ seen' \in [Payments -> SUBSET AllGatewayStatuses]
  BY DEF IInv, TypeOK, ProviderMoves
<1>2. s # "none"
  BY DEF AllGatewayStatuses
<1>3. \A q \in Payments : gw'[q] = IF q = p THEN s ELSE gw[q]
  BY DEF IInv, TypeOK, ProviderMoves
<1>4. \A q \in Payments : seen'[q] = IF q = p THEN seen[q] \cup {s} ELSE seen[q]
  BY DEF IInv, TypeOK, ProviderMoves
<1>5. QED
  BY <1>2, <1>3, <1>4 DEF Grows, IInv, CurrentIsSeen, ProviderMoves, Tables

\* A provider's move preserves the invariant if the requests keep their evidence.
LEMMA ProviderInv ==
    ASSUME IInv, NEW p \in Payments, NEW s \in AllGatewayStatuses,
           ProviderMoves(p, s), faults' \in Nat, job' \in [Handlers -> Job],
           \A h \in Handlers : Evidence(job[h])'
    PROVE  IInv'
<1>1. Grows /\ CurrentIsSeen'
  BY HistoryGrows
<1>2. TypeOK'
  BY DEF IInv, TypeOK, ProviderMoves, Tables
<1>3. \A q \in Payments : Settled(q) => Settled(q)'
  BY <1>1, SettledStable
<1>4. SubscriptionsArePaidFor'
  <2>1. subs' = subs
    BY DEF ProviderMoves, Tables
  <2>2. ASSUME NEW i \in DOMAIN subs
        PROVE  subs[i].pay \in Payments \cup {Null}
    <3>1. subs \in Seq(Subscription)
      BY DEF IInv, TypeOK
    <3>2. subs[i] \in Subscription
      BY <3>1
    <3>3. QED
      BY <3>2 DEF Subscription
  <2>3. QED
    BY <1>3, <2>1, <2>2 DEF IInv, SubscriptionsArePaidFor
<1>5. StatusesAreGenuine'
  <2>1. row' = row /\ told' = told /\ notices' = notices
    BY DEF ProviderMoves, Tables
  <2>2. \A n \in notices : n.type = "PAIEMENT" => n.link \in Payments
    BY DEF IInv, TypeOK, Notice
  <2>3. \A n \in notices : n.type = "PAIEMENT" => Settled(n.link)' /\ n.to = Owner[n.link]
    BY <1>3, <2>2 DEF IInv, StatusesAreGenuine
  <2>4. \A q \in Payments : told[q].status = "Success" => Settled(q)'
    BY <1>3 DEF IInv, StatusesAreGenuine
  <2>5. \A q \in Payments : row[q] # "none" =>
          /\ gw'[q] # "none"
          /\ \/ row[q] = "Pending"
             \/ row[q] = "Failed" /\ InPlay("fail")
             \/ \E t \in seen'[q] : mapGeniusPayStatus(t) = row[q]
    BY <1>1 DEF IInv, StatusesAreGenuine, Grows
  <2>6. QED
    BY <2>1, <2>3, <2>4, <2>5 DEF StatusesAreGenuine, InPlay
<1>6. QED
  BY <1>1, <1>2, <1>4, <1>5 DEF IInv

\* The provider moving a payment on its own preserves the invariant.
LEMMA GatewayMoveInv ==
    ASSUME IInv, NEW p \in Payments, NEW s \in GatewayStatuses, GatewayMove(p, s)
    PROVE  IInv'
<1>1. s \in AllGatewayStatuses /\ ProviderMoves(p, s)
  BY ConstantsAssumption DEF GatewayMove, ProviderMoves
<1>2. Grows
  BY <1>1, HistoryGrows
<1>3. faults' \in Nat /\ job' = job /\ job \in [Handlers -> Job]
  BY DEF IInv, TypeOK, GatewayMove
<1>4. \A h \in Handlers : Evidence(job[h])'
  BY <1>2, <1>3, EvidenceStable DEF IInv
<1>5. QED
  BY <1>1, <1>3, <1>4, ProviderInv

\* Creating the payment at the provider preserves the invariant.
LEMMA InitiateGatewayInv ==
    ASSUME IInv, NEW h \in Handlers, InitiateGateway(h)
    PROVE  IInv'
<1> PICK p \in Payments : p = job[h].pay
  BY DEF IInv, Evidence, InitiateGateway
<1>1. "PENDING" \in AllGatewayStatuses /\ ProviderMoves(p, "PENDING")
  BY DEF InitiateGateway, AllGatewayStatuses, ProviderMoves
<1>2. Grows /\ gw'[p] # "none" /\ faults' \in Nat
  BY <1>1, HistoryGrows DEF InitiateGateway, IInv, TypeOK
<1>3. "initiate create" \in Steps
  BY DEF Steps
<1>4. /\ Moves(h) /\ job'[h].at = "initiate create" /\ job'[h].st = job[h].st
      /\ job'[h].pay = p
  BY <1>3, GotoMoves DEF InitiateGateway
<1>5. job[h].st = "Success" => Settled(p)'
  <2>1. job[h].st = "Success" => Settled(p)
    BY NullAssumption DEF IInv, Evidence
  <2>2. QED
    BY <1>1, <1>2, <2>1, SettledStable
<1>6. Evidence(job[h])'
  BY <1>1, <1>2, <1>4, <1>5 DEF Evidence, OnPayment, OnConfirmed, Settled
<1>7. QED
  BY <1>1, <1>2, <1>4, <1>6, OthersKeepEvidence, ProviderInv DEF Moves

\* So it does when the provider's answer is lost.
LEMMA InitiateAnswerLostInv ==
    ASSUME IInv, NEW h \in Handlers, InitiateAnswerLost(h)
    PROVE  IInv'
<1> DEFINE p == job[h].pay
<1>1. p \in Payments /\ "PENDING" \in AllGatewayStatuses /\ ProviderMoves(p, "PENDING")
  BY DEF IInv, Evidence, InitiateAnswerLost, AllGatewayStatuses, ProviderMoves
<1>2. Grows /\ faults' \in Nat
  <2>1. Grows
    BY <1>1, HistoryGrows
  <2>2. faults \in Nat /\ faults' = faults + 1
    BY DEF InitiateAnswerLost, IInv, TypeOK
  <2>3. QED
    BY <2>1, <2>2
<1>3. Moves(h) /\ Evidence(job[h])'
  BY FinishMoves DEF InitiateAnswerLost
<1>4. QED
  BY <1>1, <1>2, <1>3, OthersKeepEvidence, ProviderInv DEF Moves

(***************************************************************************)
(* Steps that touch neither payments nor subscriptions nor the provider:   *)
(* the packs, the clock, a request that dies or falls back to the stored   *)
(* status.                                                                 *)
(***************************************************************************)
LEMMA AsideInv ==
    ASSUME IInv, TypeOK', \A h \in Handlers : Evidence(job[h])',
           UNCHANGED <<gw, seen, row, subs, notices, told>>
    PROVE  IInv'
BY DEF IInv, CurrentIsSeen, SubscriptionsArePaidFor, StatusesAreGenuine, Settled, InPlay

\* Creating or updating a pack preserves the invariant.
LEMMA PacksInv ==
    ASSUME IInv, NEW k \in Packs, NEW d \in DurationDays, NEW onSale \in BOOLEAN,
           CreatePack(k, d, onSale) \/ UpdatePack(k, d, onSale)
    PROVE  IInv'
<1>1. d \in Nat /\ packs[k] \in Pack
  BY ConstantsAssumption DEF IInv, TypeOK
<1>2. packs' \in [Packs -> Pack]
  <2>1. CASE CreatePack(k, d, onSale)
    BY <1>1, <2>1 DEF CreatePack, IInv, TypeOK, Pack
  <2>2. CASE UpdatePack(k, d, onSale)
    BY <1>1, <2>2 DEF UpdatePack, IInv, TypeOK, Pack
  <2>3. QED
    BY <2>1, <2>2
<1>3. UNCHANGED <<World, row, subs, notices, told, job>>
  BY DEF CreatePack, UpdatePack
<1>4. TypeOK'
  BY <1>2, <1>3 DEF IInv, TypeOK, World
<1>5. \A h \in Handlers : Evidence(job[h])'
  BY <1>3, EvidenceStable DEF IInv, TypeOK, Grows, World
<1>6. QED
  BY <1>3, <1>4, <1>5, AsideInv DEF World

\* Deleting a pack preserves the invariant, also under requests that named it.
LEMMA DeletePackInv ==
    ASSUME IInv, NEW k \in Packs, DeletePack(k)
    PROVE  IInv'
<1>1. packs[k] \in Pack
  BY DEF IInv, TypeOK
<1>2. TypeOK'
  BY <1>1 DEF DeletePack, IInv, TypeOK, Pack, World
<1>3. \A h \in Handlers : Evidence(job[h])'
  BY EvidenceStable DEF DeletePack, IInv, TypeOK, Grows, World
<1>4. QED
  BY <1>2, <1>3, AsideInv DEF DeletePack, World

\* The clock preserves the invariant.
LEMMA TickInv ==
    ASSUME IInv, Tick
    PROVE  IInv'
<1>1. TypeOK'
  BY DEF Tick, IInv, TypeOK, Tables
<1>2. \A h \in Handlers : Evidence(job[h])'
  BY EvidenceStable DEF Tick, IInv, TypeOK, Grows, Tables
<1>3. QED
  BY <1>1, <1>2, AsideInv DEF Tick, Tables

\* A request that dies between two statements preserves the invariant.
LEMMA AbortInv ==
    ASSUME IInv, NEW h \in Handlers, Abort(h)
    PROVE  IInv'
<1>1. Moves(h) /\ Evidence(job[h])'
  BY FinishMoves DEF Abort
<1>2. TypeOK'
  BY <1>1 DEF Abort, IInv, TypeOK, Tables, Moves
<1>3. Grows
  BY DEF Abort, Grows, Tables
<1>4. QED
  BY <1>1, <1>2, <1>3, OthersKeepEvidence, AsideInv DEF Abort, Tables, Moves

\* VerifyPayment's catch block preserves the invariant.
LEMMA VerifyAskFailsInv ==
    ASSUME IInv, NEW h \in Handlers, VerifyAskFails(h)
    PROVE  IInv'
<1>1. "read sub" \in Steps
  BY DEF Steps
<1>2. /\ Moves(h) /\ job'[h].at = "read sub" /\ job'[h].st = job[h].st
      /\ job'[h].user = job[h].user /\ job'[h].pay = job[h].pay
  BY <1>1, GotoMoves DEF VerifyAskFails
<1>3. Evidence(job[h])'
  BY <1>2 DEF VerifyAskFails, IInv, Evidence, Knows, OnPayment, OnConfirmed, Settled
<1>4. TypeOK'
  <2>1. faults \in Nat /\ faults' = faults + 1
    BY DEF VerifyAskFails, IInv, TypeOK
  <2>2. faults' \in Nat
    BY <2>1
  <2>3. job' \in [Handlers -> Job] /\ UNCHANGED <<now, gw, seen, Tables>>
    BY <1>2 DEF VerifyAskFails, Moves
  <2>4. QED
    BY <2>2, <2>3 DEF IInv, TypeOK, Tables
<1>5. Grows
  BY DEF VerifyAskFails, Grows, Tables
<1>6. QED
  BY <1>2, <1>3, <1>4, <1>5, OthersKeepEvidence, AsideInv
  DEF VerifyAskFails, Tables, Moves

(***************************************************************************)
(* The invariant is inductive.                                             *)
(***************************************************************************)
LEMMA InitInv == Init => IInv
<1> SUFFICES ASSUME Init PROVE IInv
  OBVIOUS
<1>1. NoJob \in Job /\ NoJob.at = "idle" /\ NoJob.pay = Null /\ NoJob.st = "Pending"
  BY DEF NoJob, Job, AllOps, Steps, Statuses, SubStatuses, Expiries
<1>2. subs = <<>> /\ notices = {}
  BY DEF Init
<1>3. TypeOK
  BY <1>1, <1>2 DEF Init, TypeOK, Row, Pack
<1>4. CurrentIsSeen /\ SubscriptionsArePaidFor /\ StatusesAreGenuine
  BY <1>2 DEF Init, CurrentIsSeen, SubscriptionsArePaidFor, StatusesAreGenuine
<1>5. \A h \in Handlers : Evidence(job[h])
  BY <1>1 DEF Init, Evidence, OnPayment, OnConfirmed
<1>6. QED
  BY <1>3, <1>4, <1>5 DEF IInv

\* Every statement of a request in flight preserves the invariant.
LEMMA AdvanceInv ==
    ASSUME IInv, NEW h \in Handlers, Advance(h)
    PROVE  IInv'
<1>1. ASSUME NEW label \in {"active", "inactive"},
             NEW e \in (0 .. MaxTime + 1) \cup {Null}, AmendWrite(h, label, e)
      PROVE  IInv'
  <2>1. e \in Expiries
    BY ConstantsAssumption DEF Expiries
  <2>2. QED
    BY <1>1, <2>1, AmendWriteInv
<1>2. QED
  BY <1>1, InitiateGatewayInv, InitiateCreateInv, VerifySubInv, VerifyAskInv,
     VerifyUpdateInv, EnsureFindInv, EnsurePackInv, CreateSubscriptionInv,
     AnnounceInv, ReadSubInv, PushInv, NotifyAskInv, NotifyUpdateInv, NotifyPaidInv,
     SubscribePackInv, VerifyAdminAskInv, VerifyAdminUpdateInv, VerifyAdminPaidInv,
     FailAdminWriteInv, RemoveWriteInv
  DEF Advance

\* Every arriving request preserves the invariant.
LEMMA ArriveInv ==
    ASSUME IInv, NEW h \in Handlers, Arrive(h)
    PROVE  IInv'
<1>1. CASE \E p \in Payments :
             \/ InitiateStart(h, p) \/ VerifyStart(h, p) \/ NotifyStart(h, p)
             \/ CheckStart(h, p) \/ VerifyAdminStart(h, p) \/ FailAdminStart(h, p)
  BY <1>1, InitiateStartInv, ArrivalsRead, ReadsInv
<1>2. CASE \E u \in Users, p \in Payments, k \in Packs \cup {Null}, d \in GrantDays :
             SubscribeStart(h, u, p, k, d)
  BY <1>2, SubscribeStartInv
<1>3. CASE \E u \in Users, k \in Packs \cup {Null}, d \in GrantDays,
             label \in {"active", "inactive"} : GrantStart(h, u, k, d, label)
  BY <1>3, GrantStartInv
<1>4. CASE \E op \in {"amend", "remove"}, i \in 1 .. MaxSubs : AdminSubStart(h, op, i)
  BY <1>4, AdminSubStartInv
<1>5. QED
  BY <1>1, <1>2, <1>3, <1>4 DEF Arrive

\* Every step preserves the invariant.
LEMMA StepInv == IInv /\ [Next]_vars => IInv'
<1> SUFFICES ASSUME IInv, [Next]_vars PROVE IInv'
  OBVIOUS
<1>1. CASE Environment
  BY <1>1, GatewayMoveInv, PacksInv, DeletePackInv, TickInv DEF Environment
<1>2. ASSUME NEW h \in Handlers, Advance(h) \/ Arrive(h) \/ Faulty(h)
      PROVE  IInv'
  BY <1>2, AdvanceInv, ArriveInv, AbortInv, VerifyAskFailsInv, InitiateAnswerLostInv
  DEF Faulty
<1>3. CASE UNCHANGED vars
  <2>1. TypeOK'
    BY <1>3 DEF vars, IInv, TypeOK
  <2>2. \A h \in Handlers : Evidence(job[h])'
    BY <1>3, EvidenceStable DEF vars, IInv, TypeOK, Grows
  <2>3. QED
    BY <1>3, <2>1, <2>2, AsideInv DEF vars
<1>4. QED
  BY <1>1, <1>2, <1>3 DEF Next

(***************************************************************************)
(* The invariant holds in every reachable state.                           *)
(***************************************************************************)
THEOREM Invariant == Spec => []IInv
BY InitInv, StepInv, PTL DEF Spec

(***************************************************************************)
(* Type correctness: statuses stay within the application's four, expiries *)
(* are dates or null, notifications point at payments or subscriptions.    *)
(***************************************************************************)
THEOREM TypeCorrect == Spec => []TypeOK
<1>1. IInv => TypeOK
  BY DEF IInv
<1>2. QED
  BY <1>1, Invariant, PTL

(***************************************************************************)
(* Every subscription row that names a payment belongs to its payer and    *)
(* was completed by the provider, for any number of concurrent requests.   *)
(***************************************************************************)
THEOREM AlwaysPaidFor == Spec => []SubscriptionsArePaidFor
<1>1. IInv => SubscriptionsArePaidFor
  BY DEF IInv
<1>2. QED
  BY <1>1, Invariant, PTL

(***************************************************************************)
(* No stored status, event or notification claims what the provider never  *)
(* reported.                                                               *)
(***************************************************************************)
THEOREM AlwaysGenuine == Spec => []StatusesAreGenuine
<1>1. IInv => StatusesAreGenuine
  BY DEF IInv
<1>2. QED
  BY <1>1, Invariant, PTL

(***************************************************************************)
(* Refinement.  Seen through the ledger a step settles a payment, appends  *)
(* one entry, or does nothing.                                             *)
(***************************************************************************)
SettledPayments == {p \in Payments : Settled(p)}
LedgerOfSubs == [i \in 1 .. Len(subs) |-> [user |-> subs[i].user, pay |-> subs[i].pay]]

\* A step that leaves the history and the table alone is no step of the ledger.
LEMMA StillLedger ==
    ASSUME UNCHANGED <<seen, subs>>
    PROVE  UNCHANGED <<SettledPayments, LedgerOfSubs>>
BY DEF SettledPayments, LedgerOfSubs, Settled

\* A new provider status settles its payment or settles nothing.
LEMMA ProviderLedger ==
    ASSUME IInv, NEW p \in Payments, NEW s \in AllGatewayStatuses, ProviderMoves(p, s)
    PROVE  /\ SettledPayments' \in {SettledPayments, SettledPayments \cup {p}}
           /\ UNCHANGED LedgerOfSubs
<1>1. \A q \in Payments : seen'[q] = IF q = p THEN seen[q] \cup {s} ELSE seen[q]
  BY DEF IInv, TypeOK, ProviderMoves
<1>2. \A q \in Payments \ {p} : Settled(q)' <=> Settled(q)
  BY <1>1 DEF Settled
<1>3. Settled(p) => Settled(p)'
  BY <1>1 DEF Settled
<1>4. UNCHANGED LedgerOfSubs
  BY DEF ProviderMoves, Tables, LedgerOfSubs
<1>5. QED
  BY <1>2, <1>3, <1>4 DEF SettledPayments

\* Inserting a subscription appends its entry, backed by its payment or a gift.
LEMMA CreateLedger ==
    ASSUME IInv, NEW h \in Handlers, CreateSubscription(h)
    PROVE  /\ UNCHANGED SettledPayments
           /\ LedgerOfSubs' = Append(LedgerOfSubs,
                                    [user |-> job[h].user, pay |-> job[h].pay])
           /\ \/ job[h].pay = Null /\ job[h].user \in Users
              \/ job[h].pay \in SettledPayments /\ job[h].user = Owner[job[h].pay]
<1> DEFINE j == job[h]
           new == [user |-> j.user, pay |-> j.pay, exp |-> j.exp, status |-> j.label]
           entry == [user |-> j.user, pay |-> j.pay]
<1>1. Entitled(j)
  BY DEF IInv, Evidence, CreateSubscription, Entitled
<1>2. \/ j.pay = Null /\ j.user \in Users
      \/ j.pay \in SettledPayments /\ j.user = Owner[j.pay]
  BY <1>1, NullAssumption DEF Entitled, Knows, SettledPayments, IInv, Evidence
<1>3. UNCHANGED SettledPayments
  BY DEF CreateSubscription, World, SettledPayments, Settled
<1>4. subs \in Seq(Subscription) /\ subs' = Append(subs, new)
  BY DEF IInv, TypeOK, CreateSubscription
<1>5. new.user = j.user /\ new.pay = j.pay
  OBVIOUS
<1> HIDE DEF new
<1>6. LedgerOfSubs' = Append(LedgerOfSubs, [user |-> new.user, pay |-> new.pay])
  BY <1>4 DEF LedgerOfSubs
<1>7. QED
  BY <1>2, <1>3, <1>5, <1>6

\* A table with the same users and payments is the same ledger.
LEMMA RewriteLedger ==
    ASSUME IInv, subs' \in Seq(Subscription), DOMAIN subs' = DOMAIN subs,
           \A i \in DOMAIN subs :
             subs'[i].user = subs[i].user /\ subs'[i].pay = subs[i].pay
    PROVE  UNCHANGED LedgerOfSubs
<1>1. subs \in Seq(Subscription) /\ Len(subs') = Len(subs)
  BY DEF IInv, TypeOK
<1>2. QED
  BY <1>1 DEF LedgerOfSubs

\* What a step can do to the provider's history and to the table.
LEMMA StepKinds ==
    ASSUME IInv, [Next]_vars
    PROVE  \/ UNCHANGED <<seen, subs>>
           \/ \E p \in Payments, s \in AllGatewayStatuses : ProviderMoves(p, s)
           \/ \E h \in Handlers : CreateSubscription(h)
           \/ UNCHANGED <<seen, LedgerOfSubs>>
<1>1. CASE Environment
  <2>1. ASSUME NEW p \in Payments, NEW s \in GatewayStatuses, GatewayMove(p, s)
        PROVE  s \in AllGatewayStatuses /\ ProviderMoves(p, s)
    BY <2>1, ConstantsAssumption DEF GatewayMove, ProviderMoves
  <2>2. ASSUME NEW k, NEW d, NEW onSale,
               CreatePack(k, d, onSale) \/ UpdatePack(k, d, onSale) \/ DeletePack(k) \/ Tick
        PROVE  UNCHANGED <<seen, subs>>
    BY <2>2 DEF CreatePack, UpdatePack, DeletePack, Tick, World, Tables
  <2>3. QED
    BY <1>1, <2>1, <2>2 DEF Environment
<1>2. ASSUME NEW h \in Handlers, Advance(h)
      PROVE  \/ UNCHANGED <<seen, subs>> \/ UNCHANGED <<seen, LedgerOfSubs>>
             \/ \E p \in Payments, s \in AllGatewayStatuses : ProviderMoves(p, s)
             \/ CreateSubscription(h)
  <2>1. CASE InitiateGateway(h)
    <3>1. job[h].pay \in Payments /\ "PENDING" \in AllGatewayStatuses
      BY <2>1 DEF IInv, Evidence, InitiateGateway, AllGatewayStatuses
    <3>2. ProviderMoves(job[h].pay, "PENDING")
      BY <2>1 DEF InitiateGateway, ProviderMoves
    <3>3. QED
      BY <3>1, <3>2
  <2>2. CASE \E label \in {"active", "inactive"}, e \in (0 .. MaxTime + 1) \cup {Null} :
               AmendWrite(h, label, e)
    <3>1. PICK label \in {"active", "inactive"}, e \in (0 .. MaxTime + 1) \cup {Null} :
               AmendWrite(h, label, e)
      BY <2>2
    <3>2. e \in Expiries
      BY ConstantsAssumption DEF Expiries
    <3>3. QED
      BY <3>1, <3>2, AmendKeeps, RewriteLedger DEF AmendWrite, World
  <2>3. CASE RemoveWrite(h)
    BY <2>3, RemoveKeeps, RewriteLedger DEF RemoveWrite, World
  <2>4. CASE \/ InitiateCreate(h) \/ VerifySub(h) \/ VerifyAsk(h) \/ VerifyUpdate(h)
             \/ EnsureFind(h) \/ EnsurePack(h) \/ Announce(h) \/ ReadSub(h) \/ Push(h)
    BY <2>4 DEF InitiateCreate, VerifySub, VerifyAsk, VerifyUpdate, EnsureFind, EnsurePack,
                Announce, ReadSub, Push, World, Tables
  <2>5. CASE \/ NotifyAsk(h) \/ NotifyUpdate(h) \/ NotifyPaid(h) \/ SubscribePack(h)
             \/ VerifyAdminAsk(h) \/ VerifyAdminUpdate(h) \/ VerifyAdminPaid(h)
             \/ FailAdminWrite(h)
    BY <2>5 DEF NotifyAsk, NotifyUpdate, NotifyPaid, SubscribePack, VerifyAdminAsk,
                VerifyAdminUpdate, VerifyAdminPaid, FailAdminWrite, World, Tables
  <2>6. QED
    BY <1>2, <2>1, <2>2, <2>3, <2>4, <2>5 DEF Advance
<1>3. ASSUME NEW h \in Handlers, Arrive(h)
      PROVE  UNCHANGED <<seen, subs>>
  BY <1>3 DEF Arrive, InitiateStart, VerifyStart, NotifyStart, CheckStart,
              VerifyAdminStart, FailAdminStart, SubscribeStart, GrantStart,
              AdminSubStart, World, Tables
<1>4. ASSUME NEW h \in Handlers, Faulty(h)
      PROVE  \/ UNCHANGED <<seen, subs>>
             \/ \E p \in Payments, s \in AllGatewayStatuses : ProviderMoves(p, s)
  <2>1. CASE InitiateAnswerLost(h)
    <3>1. job[h].pay \in Payments /\ "PENDING" \in AllGatewayStatuses
      BY <2>1 DEF IInv, Evidence, InitiateAnswerLost, AllGatewayStatuses
    <3>2. ProviderMoves(job[h].pay, "PENDING")
      BY <2>1 DEF InitiateAnswerLost, ProviderMoves
    <3>3. QED
      BY <3>1, <3>2
  <2>2. CASE Abort(h) \/ VerifyAskFails(h)
    BY <2>2 DEF Abort, VerifyAskFails, Tables
  <2>3. QED
    BY <1>4, <2>1, <2>2 DEF Faulty
<1>5. CASE UNCHANGED vars
  BY <1>5 DEF vars
<1>6. QED
  BY <1>1, <1>2, <1>3, <1>4, <1>5 DEF Next

(***************************************************************************)
(* The payment system implements the subscription ledger: whatever the     *)
(* interleaving of polls, webhooks, admins and failures, entries are only  *)
(* added, each by a settled payment of its owner or as a gift, and none is *)
(* reassigned.                                                             *)
(***************************************************************************)
THEOREM Refinement == Spec => RefinesLedger
<1>1. Init => Ledger!Init
  <2> SUFFICES ASSUME Init PROVE Ledger!Init
    OBVIOUS
  <2>1. subs = <<>> /\ \A p \in Payments : ~Settled(p)
    BY DEF Init, Settled
  <2>2. {p \in Payments : Settled(p)} = {}
    BY <2>1
  <2>3. [i \in 1 .. Len(subs) |-> [user |-> subs[i].user, pay |-> subs[i].pay]] = <<>>
    BY <2>1
  <2>4. QED
    BY <2>2, <2>3 DEF Ledger!Init
<1>2. IInv /\ [Next]_vars => [Ledger!Next]_<<SettledPayments, LedgerOfSubs>>
  <2> SUFFICES ASSUME IInv, [Next]_vars
               PROVE  [Ledger!Next]_<<SettledPayments, LedgerOfSubs>>
    OBVIOUS
  <2>1. CASE UNCHANGED <<seen, subs>>
    BY <2>1, StillLedger
  <2>2. CASE \E p \in Payments, s \in AllGatewayStatuses : ProviderMoves(p, s)
    <3>1. PICK p \in Payments, s \in AllGatewayStatuses : ProviderMoves(p, s)
      BY <2>2
    <3>2. \/ UNCHANGED <<SettledPayments, LedgerOfSubs>> \/ Ledger!Settle(p)
      BY <3>1, ProviderLedger DEF Ledger!Settle, SettledPayments, LedgerOfSubs
    <3>3. QED
      BY <3>2 DEF Ledger!Next
  <2>3. CASE \E h \in Handlers : CreateSubscription(h)
    <3>1. PICK h \in Handlers : CreateSubscription(h)
      BY <2>3
    <3>2. CASE job[h].pay = Null /\ job[h].user \in Users
      <4>1. PICK u \in Users : u = job[h].user
        BY <3>2
      <4>2. Ledger!Give(u)
        BY <3>1, <3>2, <4>1, CreateLedger
        DEF Ledger!Give, Ledger!Entry, SettledPayments, LedgerOfSubs
      <4>3. QED
        BY <4>2 DEF Ledger!Next
    <3>3. CASE job[h].pay \in SettledPayments /\ job[h].user = Owner[job[h].pay]
      <4>1. PICK p \in Payments : p = job[h].pay
        BY <3>3 DEF SettledPayments
      <4>2. Ledger!Grant(p)
        BY <3>1, <3>3, <4>1, CreateLedger
        DEF Ledger!Grant, Ledger!Entry, SettledPayments, LedgerOfSubs
      <4>3. QED
        BY <4>2 DEF Ledger!Next
    <3>4. QED
      BY <3>1, <3>2, <3>3, CreateLedger
  <2>4. CASE UNCHANGED <<seen, LedgerOfSubs>>
    BY <2>4 DEF SettledPayments, Settled
  <2>5. QED
    BY <2>1, <2>2, <2>3, <2>4, StepKinds
<1>3. QED
  BY <1>1, <1>2, Invariant, PTL
  DEF Spec, RefinesLedger, Ledger!Spec, SettledPayments, LedgerOfSubs

-----------------------------------------------------------------------------
(***************************************************************************)
(* The search before a grant.  A request between its search and its        *)
(* insertion holds base, and every row that is active now is younger: the  *)
(* rows that were there are still inactive, because only an administrator  *)
(* re-activates one.                                                       *)
(***************************************************************************)
Searching == {"ensure pack", "create"}

Special == Searching \cup {"subscribe pack", "grant pack", "amend write"}

ActiveIn(table, u) == {i \in DOMAIN table : table[i].user = u /\ table[i].status = "active"}

Looked(j) ==
    /\ j.base <= Len(subs)
    /\ j.at = "amend write" => InPlay("amend")
    /\ j.at \in {"subscribe pack", "grant pack"} => j.op \notin {"verify", "notify"}
    /\ j.at \in Searching /\ j.op \in {"verify", "notify"} /\ ~InPlay("amend")
         => \A i \in ActiveIn(subs, j.user) : i > j.base

Searches == \A h \in Handlers : Looked(job[h])

\* Rows are added at the end, and none of the others becomes active.
OnlyNewer ==
    /\ Len(subs) <= Len(subs')
    /\ ~InPlay("amend") =>
         \A u : \A i \in ActiveIn(subs', u) : i \in ActiveIn(subs, u) \/ i > Len(subs)

\* The types that the arithmetic on row numbers needs.
LEMMA SearchTypes ==
    ASSUME NEW table \in Seq(Subscription), NEW jobs \in [Handlers -> Job]
    PROVE  /\ Len(table) \in Nat /\ DOMAIN table = 1 .. Len(table)
           /\ \A u : ActiveIn(table, u) \subseteq Nat
           /\ \A h \in Handlers : jobs[h] \in Job /\ jobs[h].base \in Nat
<1>1. Len(table) \in Nat /\ DOMAIN table = 1 .. Len(table)
  OBVIOUS
<1>2. \A u : ActiveIn(table, u) \subseteq Nat
  BY <1>1 DEF ActiveIn
<1>3. \A h \in Handlers : jobs[h] \in Job /\ jobs[h].base \in Nat
  BY DEF Job
<1>4. QED
  BY <1>1, <1>2, <1>3

\* Before and after a step.
LEMMA StepTypes ==
    ASSUME IInv, IInv'
    PROVE  /\ Len(subs) \in Nat /\ Len(subs') \in Nat
           /\ \A u : ActiveIn(subs, u) \subseteq Nat /\ ActiveIn(subs', u) \subseteq Nat
           /\ \A h \in Handlers : job[h].base \in Nat /\ job'[h].base \in Nat
<1>1. /\ subs \in Seq(Subscription) /\ subs' \in Seq(Subscription)
      /\ job \in [Handlers -> Job] /\ job' \in [Handlers -> Job]
  BY DEF IInv, TypeOK
<1>2. QED
  BY <1>1, SearchTypes

\* Where the table does not change there is nothing new.
LEMMA SameRows ==
    ASSUME IInv, UNCHANGED subs
    PROVE  OnlyNewer
<1>1. Len(subs) \in Nat
  BY DEF IInv, TypeOK
<1>2. QED
  BY <1>1 DEF OnlyNewer

\* A request that does not move has still searched well enough.
LEMMA LookedStays ==
    ASSUME IInv, IInv', NEW h \in Handlers, Looked(job[h]), OnlyNewer, job'[h] = job[h]
    PROVE  Looked(job[h])'
<1>1. /\ Len(subs) \in Nat /\ Len(subs') \in Nat /\ job[h].base \in Nat
      /\ \A u : ActiveIn(subs', u) \subseteq Nat
  BY StepTypes
<1>2. job[h].base <= Len(subs) /\ Len(subs) <= Len(subs')
  BY DEF Looked, OnlyNewer
<1>3. job[h].base <= Len(subs')
  BY <1>1, <1>2
<1>4. ASSUME job[h].at \in Searching, job[h].op \in {"verify", "notify"}, ~InPlay("amend"),
             NEW i \in ActiveIn(subs', job[h].user)
      PROVE  i > job[h].base
  <2>1. i \in ActiveIn(subs, job[h].user) \/ i > Len(subs)
    BY <1>4 DEF OnlyNewer
  <2>2. i \in ActiveIn(subs, job[h].user) => i > job[h].base
    BY <1>4 DEF Looked
  <2>3. i \in Nat
    BY <1>1, <1>4
  <2>4. QED
    BY <1>1, <1>2, <2>1, <2>2, <2>3
<1>5. QED
  BY <1>3, <1>4 DEF Looked, InPlay

\* Neither has one that goes where no search matters anything to keep.
Plain(h) ==
    /\ job'[h].at \notin Special
    /\ job'[h].base = job[h].base \/ job'[h].base = 0

\* Requests that leave the search behind, or have not come to it.
LEMMA PlainLooked ==
    ASSUME IInv, IInv', NEW h \in Handlers, Looked(job[h]), OnlyNewer, Plain(h)
    PROVE  Looked(job[h])'
<1>1. /\ Len(subs) \in Nat /\ Len(subs') \in Nat
      /\ job[h].base \in Nat /\ job'[h].base \in Nat
  BY StepTypes
<1>2. job[h].base <= Len(subs) /\ Len(subs) <= Len(subs')
  BY DEF Looked, OnlyNewer
<1>3. job'[h].base = job[h].base \/ job'[h].base = 0
  BY DEF Plain
<1>4. job'[h].base <= Len(subs')
  BY <1>1, <1>2, <1>3
<1>5. QED
  BY <1>4 DEF Looked, Plain, Special, Searching

\* Returning is going to such a place.
LEMMA FinishPlain ==
    ASSUME IInv, NEW h \in Handlers, Finish(h)
    PROVE  Plain(h)
<1>1. job'[h] = NoJob
  BY DEF IInv, TypeOK, Finish
<1>2. NoJob.at = "idle" /\ NoJob.base = 0
  BY DEF NoJob
<1>3. QED
  BY <1>1, <1>2 DEF Plain, Special, Searching

\* So is moving to a step without a search.
LEMMA GotoPlain ==
    ASSUME IInv, NEW h \in Handlers, NEW step, step \notin Special, Goto(h, step)
    PROVE  Plain(h)
<1>1. job'[h].at = step /\ job'[h].base = job[h].base
  BY JobsTyped DEF Goto, Job
<1>2. QED
  BY <1>1 DEF Plain

(***************************************************************************)
(* Statements after which no search is under way.                          *)
(***************************************************************************)
LEMMA PlainSteps ==
    ASSUME IInv, NEW h \in Handlers,
           \/ InitiateGateway(h) \/ InitiateCreate(h) \/ VerifySub(h) \/ VerifyAsk(h)
           \/ VerifyUpdate(h) \/ ReadSub(h) \/ Push(h) \/ Announce(h) \/ NotifyAsk(h)
           \/ NotifyUpdate(h) \/ NotifyPaid(h) \/ VerifyAdminAsk(h) \/ VerifyAdminUpdate(h)
           \/ VerifyAdminPaid(h) \/ FailAdminWrite(h) \/ Faulty(h)
    PROVE  Plain(h) /\ UNCHANGED subs
<1>0. job \in [Handlers -> Job]
  BY JobsTyped
<1>1. CASE InitiateGateway(h) \/ InitiateCreate(h)
  BY <1>1, GotoPlain, FinishPlain
  DEF InitiateGateway, InitiateCreate, Tables, Special, Searching
<1>2. CASE VerifySub(h)
  <2>1. job'[h].at \in {"push", "ensure find"} /\ job'[h].base = job[h].base
    BY <1>0, <1>2 DEF VerifySub, Job
  <2>2. QED
    BY <1>2, <2>1 DEF VerifySub, Plain, Special, Searching, Tables
<1>3. CASE VerifyAsk(h) \/ NotifyAsk(h) \/ ReadSub(h)
  <2>1. job'[h].at \in {"read sub", "verify update", "notify update", "push"}
        /\ job'[h].base = job[h].base
    BY ZenonT(30), <1>0, <1>3 DEF VerifyAsk, NotifyAsk, ReadSub, Job
  <2>2. QED
    BY <1>3, <2>1 DEF VerifyAsk, NotifyAsk, ReadSub, Plain, Special, Searching, Tables
<1>4. CASE VerifyUpdate(h) \/ NotifyUpdate(h) \/ NotifyPaid(h)
  BY <1>4, GotoPlain DEF VerifyUpdate, NotifyUpdate, NotifyPaid, Special, Searching
<1>5. CASE Push(h) \/ VerifyAdminPaid(h) \/ FailAdminWrite(h)
  BY <1>5, FinishPlain DEF Push, VerifyAdminPaid, FailAdminWrite
<1>6. CASE VerifyAdminUpdate(h)
  BY <1>6, GotoPlain, FinishPlain DEF VerifyAdminUpdate, Special, Searching
<1>7. CASE Announce(h)
  <2>1. AfterEnsure(job[h]) \notin Special
    BY DEF AfterEnsure, Special, Searching
  <2>2. QED
    BY <1>7, <2>1, GotoPlain, FinishPlain DEF Announce
<1>8. CASE VerifyAdminAsk(h)
  <2>1. CASE Finish(h)
    BY <1>8, <2>1, FinishPlain DEF VerifyAdminAsk, Tables
  <2>2. CASE ~Finish(h)
    <3>1. job'[h].at = "averify update" /\ job'[h].base = job[h].base
      BY <1>0, <1>8, <2>2 DEF VerifyAdminAsk, Job
    <3>2. QED
      BY <1>8, <3>1 DEF VerifyAdminAsk, Plain, Special, Searching, Tables
  <2>3. QED
    BY <2>1, <2>2
<1>9. CASE Faulty(h)
  BY <1>9, GotoPlain, FinishPlain
  DEF Faulty, Abort, VerifyAskFails, InitiateAnswerLost, Tables, Special, Searching
<1>10. QED
  BY <1>1, <1>2, <1>3, <1>4, <1>5, <1>6, <1>7, <1>8, <1>9

\* Requests that write the table go where no search matters.
LEMMA CreatePlain ==
    ASSUME IInv, NEW h \in Handlers, CreateSubscription(h)
    PROVE  Plain(h)
<1>1. CASE Finish(h)
  BY <1>1, FinishPlain
<1>2. CASE job' = [job EXCEPT ![h].at = "announce", ![h].sub = Len(subs) + 1]
  <2>1. job'[h].at = "announce" /\ job'[h].base = job[h].base
    BY <1>2, JobsTyped DEF Job
  <2>2. QED
    BY <2>1 DEF Plain, Special, Searching
<1>3. QED
  BY <1>1, <1>2 DEF CreateSubscription

\* The new row comes after every other.
LEMMA CreateNewer ==
    ASSUME IInv, NEW h \in Handlers, CreateSubscription(h)
    PROVE  OnlyNewer
<1> DEFINE new == [user |-> job[h].user, pay |-> job[h].pay, exp |-> job[h].exp,
                   status |-> job[h].label]
<1>1. subs' = Append(subs, new)
  BY DEF CreateSubscription
<1>2. new \in Subscription /\ subs \in Seq(Subscription)
  <2>1. job[h] \in Job /\ subs \in Seq(Subscription)
    BY DEF IInv, TypeOK
  <2>2. job[h].user \in Users
    BY ConstantsAssumption DEF IInv, Evidence, Knows, CreateSubscription
  <2>3. new \in Subscription
    BY <2>1, <2>2 DEF Job, Subscription
  <2>4. QED
    BY <2>1, <2>3
<1> HIDE DEF new
<1>3. /\ Len(subs') = Len(subs) + 1 /\ Len(subs) \in Nat
      /\ DOMAIN subs = 1 .. Len(subs) /\ DOMAIN subs' = 1 .. Len(subs) + 1
      /\ \A i \in 1 .. Len(subs) : subs'[i] = subs[i]
  BY <1>1, <1>2
<1>4. ASSUME NEW u, NEW i \in ActiveIn(subs', u)
      PROVE  i \in ActiveIn(subs, u) \/ i > Len(subs)
  BY <1>3 DEF ActiveIn
<1>5. QED
  BY <1>3, <1>4 DEF OnlyNewer

\* An administrator's deletion makes no row active.
LEMMA RemoveNewer ==
    ASSUME IInv, NEW h \in Handlers, RemoveWrite(h)
    PROVE  OnlyNewer
<1>1. subs \in Seq(Subscription) /\ job[h].sub \in DOMAIN subs
  BY DEF IInv, TypeOK, Evidence, RemoveWrite
<1>2. subs' = [subs EXCEPT ![job[h].sub].status = "deleted"]
  BY DEF RemoveWrite
<1>3. /\ DOMAIN subs' = DOMAIN subs /\ Len(subs') = Len(subs) /\ Len(subs) \in Nat
      /\ \A i \in DOMAIN subs : subs'[i].user = subs[i].user
      /\ \A i \in DOMAIN subs :
           subs'[i].status = subs[i].status \/ subs'[i].status = "deleted"
  BY <1>1, <1>2 DEF Subscription
<1>4. ASSUME NEW u, NEW i \in ActiveIn(subs', u)
      PROVE  i \in ActiveIn(subs, u)
  BY <1>3 DEF ActiveIn
<1>5. QED
  BY <1>3, <1>4 DEF OnlyNewer

\* An administrator's change may, and is not in play where it matters.
LEMMA AmendNewer ==
    ASSUME IInv, NEW h \in Handlers, NEW label \in {"active", "inactive"}, NEW e,
           e \in Expiries, AmendWrite(h, label, e), Looked(job[h])
    PROVE  OnlyNewer
<1>1. InPlay("amend")
  BY DEF AmendWrite, Looked
<1>2. Len(subs') = Len(subs) /\ Len(subs) \in Nat
  <2>1. subs \in Seq(Subscription)
    BY DEF IInv, TypeOK
  <2>2. subs' \in Seq(Subscription) /\ DOMAIN subs' = DOMAIN subs
    BY AmendKeeps
  <2>3. QED
    BY <2>1, <2>2
<1>3. QED
  BY <1>1, <1>2 DEF OnlyNewer

(***************************************************************************)
(* The three statements of a search, and the requests that arrive.         *)
(***************************************************************************)
LEMMA EnsureFindLooked ==
    ASSUME IInv, IInv', NEW h \in Handlers, EnsureFind(h), Looked(job[h])
    PROVE  Looked(job[h])'
<1>0. /\ UNCHANGED subs /\ job \in [Handlers -> Job] /\ Len(subs) \in Nat
      /\ ActiveIn(subs, job[h].user) = ActiveRows(job[h].user)
  BY JobsTyped, StepTypes DEF EnsureFind, Tables, ActiveIn, ActiveRows
<1>1. CASE ActiveRows(job[h].user) # {}
  <2>1. AfterEnsure(job[h]) \notin Special
    BY DEF AfterEnsure, Special, Searching
  <2>2. Plain(h)
    BY <1>1, <2>1, GotoPlain DEF EnsureFind
  <2>3. QED
    BY <1>0, <2>2, SameRows, PlainLooked
<1>2. CASE ActiveRows(job[h].user) = {}
  <2>1. /\ job'[h].at \in Searching /\ job'[h].base = Len(subs)
        /\ job'[h].user = job[h].user
    BY ZenonT(30), <1>0, <1>2 DEF EnsureFind, Searching, Job
  <2>2. job'[h].base <= Len(subs') /\ ActiveIn(subs', job'[h].user) = {}
    BY <1>0, <1>2, <2>1
  <2>3. QED
    BY <2>1, <2>2 DEF Looked, Searching, InPlay
<1>3. QED
  BY <1>1, <1>2

\* Reading the pack keeps the search.
LEMMA EnsurePackLooked ==
    ASSUME IInv, NEW h \in Handlers, EnsurePack(h), Looked(job[h])
    PROVE  Looked(job[h])'
<1> DEFINE live == packs[job[h].pack].state = "live"
           e == IF live THEN PackExpiry(job[h].pack) ELSE Null
           l == live /\ packs[job[h].pack].days = 0
<1>1. job' = [job EXCEPT ![h].at = "create", ![h].exp = e, ![h].life = l]
  BY DEF EnsurePack
<1> HIDE DEF e, l
<1>2. /\ job'[h].at = "create" /\ job'[h].base = job[h].base /\ job'[h].op = job[h].op
      /\ job'[h].user = job[h].user
  BY <1>1, JobsTyped DEF Job
<1>3. job[h].at \in Searching /\ UNCHANGED subs
  BY DEF EnsurePack, Searching, Tables
<1>4. QED
  BY <1>2, <1>3 DEF Looked, Searching, InPlay

\* SubscribeUseCase and the administrator's grant do not search.
LEMMA SubscribePackLooked ==
    ASSUME IInv, IInv', NEW h \in Handlers, SubscribePack(h), Looked(job[h])
    PROVE  Looked(job[h])'
<1>0. UNCHANGED subs
  BY DEF SubscribePack, Tables
<1>1. CASE Finish(h)
  BY <1>0, <1>1, FinishPlain, SameRows, PlainLooked
<1>2. CASE ~Finish(h)
  <2> DEFINE e == PackExpiry(job[h].pack)
             l == packs[job[h].pack].days = 0
  <2>1. job' = [job EXCEPT ![h].at = "create", ![h].exp = e, ![h].life = l]
    BY <1>2 DEF SubscribePack
  <2> HIDE DEF e, l
  <2>2. job'[h].at = "create" /\ job'[h].base = job[h].base /\ job'[h].op = job[h].op
    BY <2>1, JobsTyped DEF Job
  <2>3. job[h].op \notin {"verify", "notify"}
    BY DEF SubscribePack, Looked
  <2>4. QED
    BY <1>0, <2>2, <2>3 DEF Looked, Searching
<1>3. QED
  BY <1>1, <1>2

\* Base zero is below any length.
LEMMA ZeroLeast == \A n \in Nat : 0 <= n
OBVIOUS

\* A request that has not searched.
LEMMA FreshLooked ==
    ASSUME IInv, IInv', NEW h \in Handlers, job'[h].base = 0,
           job'[h].at = "amend write" => InPlay("amend"),
           job'[h].at \in {"subscribe pack", "grant pack"} \cup Searching
             => job'[h].op \notin {"verify", "notify"}
    PROVE  Looked(job[h])'
<1>1. job'[h].base <= Len(subs')
  BY StepTypes, ZeroLeast
<1>2. QED
  BY <1>1 DEF Looked, Searching, InPlay

\* A request that arrives has searched nothing yet.
LEMMA ArriveLooked ==
    ASSUME IInv, IInv', NEW h \in Handlers, Arrive(h)
    PROVE  UNCHANGED subs /\ Looked(job[h])'
<1>0. job \in [Handlers -> Job] /\ Len(subs) \in Nat
  BY JobsTyped, StepTypes
<1>1. CASE \E p \in Payments : InitiateStart(h, p)
  <2>1. job'[h].at = "initiate gateway" /\ job'[h].base = 0 /\ UNCHANGED subs
    BY <1>0, <1>1 DEF InitiateStart, NoJob, Tables
  <2>2. QED
    BY <1>0, <2>1, FreshLooked DEF Searching
<1>2. CASE \E p \in Payments : \/ VerifyStart(h, p) \/ NotifyStart(h, p) \/ CheckStart(h, p)
                              \/ VerifyAdminStart(h, p) \/ FailAdminStart(h, p)
  <2>1. PICK p, op, step : Reads(h, op, step, p)
    BY <1>2, ArrivalsRead
  <2>2. job'[h].at \in FirstSteps /\ job'[h].base = 0 /\ UNCHANGED subs
    BY <1>0, <2>1 DEF Reads, Snapshot, NoJob, Tables
  <2>3. QED
    BY <1>0, <2>2, FreshLooked DEF Searching, FirstSteps
<1>3. CASE \E u \in Users, p \in Payments, k \in Packs \cup {Null}, d \in GrantDays :
             SubscribeStart(h, u, p, k, d)
  <2>1. PICK u \in Users, p \in Payments, k \in Packs \cup {Null}, d \in GrantDays :
               SubscribeStart(h, u, p, k, d)
    BY <1>3
  <2> DEFINE step == IF k = Null THEN "create" ELSE "subscribe pack"
             e == IF k = Null THEN now + d ELSE Null
  <2>2. job' = [job EXCEPT ![h] = [Snapshot("subscribe", step, p)
                                     EXCEPT !.user = u, !.pack = k, !.exp = e]]
    BY <2>1 DEF SubscribeStart
  <2>3. step # "amend write" /\ UNCHANGED subs
    BY <2>1 DEF SubscribeStart, Tables
  <2> HIDE DEF step, e
  <2>4. job'[h].at = step /\ job'[h].op = "subscribe" /\ job'[h].base = 0
    BY <1>0, <2>2 DEF Snapshot, NoJob
  <2>5. QED
    BY <1>0, <2>3, <2>4, FreshLooked
<1>4. CASE \E u \in Users, k \in Packs \cup {Null}, d \in GrantDays,
             label \in {"active", "inactive"} : GrantStart(h, u, k, d, label)
  <2>1. PICK u \in Users, k \in Packs \cup {Null}, d \in GrantDays,
             label \in {"active", "inactive"} : GrantStart(h, u, k, d, label)
    BY <1>4
  <2> DEFINE step == IF k = Null THEN "create" ELSE "grant pack"
             e == IF k = Null THEN now + d ELSE Null
  <2>2. job' = [job EXCEPT ![h] = [NoJob EXCEPT !.op = "grant", !.user = u, !.pack = k,
                                     !.label = label, !.at = step, !.exp = e]]
    BY <2>1 DEF GrantStart
  <2>3. step # "amend write" /\ UNCHANGED subs
    BY <2>1 DEF GrantStart, Tables
  <2> HIDE DEF step, e
  <2>4. job'[h].at = step /\ job'[h].op = "grant" /\ job'[h].base = 0
    BY <1>0, <2>2 DEF NoJob
  <2>5. QED
    BY <1>0, <2>3, <2>4, FreshLooked
<1>5. CASE \E op \in {"amend", "remove"}, i \in 1 .. MaxSubs : AdminSubStart(h, op, i)
  <2>1. PICK op \in {"amend", "remove"}, i \in 1 .. MaxSubs : AdminSubStart(h, op, i)
    BY <1>5
  <2>2. /\ job'[h].at = (IF op = "amend" THEN "amend write" ELSE "remove write")
        /\ job'[h].base = 0 /\ UNCHANGED subs /\ InPlay(op)
    BY <1>0, <2>1 DEF AdminSubStart, NoJob, Tables
  <2>3. QED
    BY <1>0, <2>2, FreshLooked DEF Searching
<1>6. QED
  BY <1>1, <1>2, <1>3, <1>4, <1>5 DEF Arrive

(***************************************************************************)
(* Every step keeps every search.                                          *)
(***************************************************************************)
LEMMA MoverLooked ==
    ASSUME IInv, IInv', Searches, NEW h \in Handlers, Advance(h) \/ Arrive(h) \/ Faulty(h)
    PROVE  OnlyNewer /\ Looked(job[h])'
<1>0. Looked(job[h])
  BY DEF Searches
<1>1. CASE \/ InitiateGateway(h) \/ InitiateCreate(h) \/ VerifySub(h) \/ VerifyAsk(h)
           \/ VerifyUpdate(h) \/ ReadSub(h) \/ Push(h) \/ Announce(h) \/ NotifyAsk(h)
           \/ NotifyUpdate(h) \/ NotifyPaid(h) \/ VerifyAdminAsk(h) \/ VerifyAdminUpdate(h)
           \/ VerifyAdminPaid(h) \/ FailAdminWrite(h) \/ Faulty(h)
  BY <1>0, <1>1, PlainSteps, SameRows, PlainLooked
<1>2. CASE CreateSubscription(h)
  BY <1>0, <1>2, CreatePlain, CreateNewer, PlainLooked
<1>3. CASE RemoveWrite(h)
  <2>1. Plain(h)
    BY <1>3, FinishPlain DEF RemoveWrite
  <2>2. QED
    BY <1>0, <1>3, <2>1, RemoveNewer, PlainLooked
<1>4. CASE \E label \in {"active", "inactive"}, e \in (0 .. MaxTime + 1) \cup {Null} :
             AmendWrite(h, label, e)
  <2>1. PICK label \in {"active", "inactive"}, e \in (0 .. MaxTime + 1) \cup {Null} :
               AmendWrite(h, label, e)
    BY <1>4
  <2>2. e \in Expiries
    BY ConstantsAssumption DEF Expiries
  <2>3. Plain(h)
    BY <2>1, FinishPlain DEF AmendWrite
  <2>4. OnlyNewer
    BY <1>0, <2>1, <2>2, AmendNewer
  <2>5. QED
    BY <1>0, <2>3, <2>4, PlainLooked
<1>5. CASE EnsureFind(h)
  <2>1. UNCHANGED subs
    BY <1>5 DEF EnsureFind, Tables
  <2>2. QED
    BY <1>0, <1>5, <2>1, EnsureFindLooked, SameRows
<1>6. CASE EnsurePack(h)
  <2>1. UNCHANGED subs
    BY <1>6 DEF EnsurePack, Tables
  <2>2. QED
    BY <1>0, <1>6, <2>1, EnsurePackLooked, SameRows
<1>7. CASE SubscribePack(h)
  <2>1. UNCHANGED subs
    BY <1>7 DEF SubscribePack, Tables
  <2>2. QED
    BY <1>0, <1>7, <2>1, SubscribePackLooked, SameRows
<1>8. CASE Arrive(h)
  BY <1>8, ArriveLooked, SameRows
<1>9. QED
  BY <1>1, <1>2, <1>3, <1>4, <1>5, <1>6, <1>7, <1>8 DEF Advance

\* Only one request moves at a time.
LEMMA OneMoves ==
    ASSUME IInv, NEW h \in Handlers, Advance(h) \/ Arrive(h) \/ Faulty(h)
    PROVE  \A g \in Handlers \ {h} : job'[g] = job[g]
<1>0. job \in [Handlers -> Job]
  BY JobsTyped
<1>1. CASE Arrive(h)
  BY <1>0, <1>1 DEF Arrive, InitiateStart, VerifyStart, NotifyStart, CheckStart, VerifyAdminStart,
     FailAdminStart, SubscribeStart, GrantStart, AdminSubStart
<1>2. CASE Faulty(h)
  BY <1>0, <1>2 DEF Faulty, Abort, VerifyAskFails, InitiateAnswerLost, Finish, Goto
<1>3. CASE Advance(h)
  <2>1. CASE \E label \in {"active", "inactive"}, e \in (0 .. MaxTime + 1) \cup {Null} :
               AmendWrite(h, label, e)
    BY <1>0, <2>1 DEF AmendWrite, Finish
  <2>2. CASE \/ InitiateGateway(h) \/ InitiateCreate(h) \/ VerifySub(h) \/ VerifyAsk(h)
             \/ VerifyUpdate(h) \/ ReadSub(h) \/ Push(h) \/ Announce(h)
    BY <1>0, <2>2 DEF InitiateGateway, InitiateCreate, VerifySub, VerifyAsk, VerifyUpdate,
       ReadSub, Push, Announce, Finish, Goto
  <2>3. CASE \/ NotifyAsk(h) \/ NotifyUpdate(h) \/ NotifyPaid(h) \/ VerifyAdminAsk(h)
             \/ VerifyAdminUpdate(h) \/ VerifyAdminPaid(h) \/ FailAdminWrite(h)
    BY <1>0, <2>3 DEF NotifyAsk, NotifyUpdate, NotifyPaid, VerifyAdminAsk,
       VerifyAdminUpdate, VerifyAdminPaid, FailAdminWrite, Finish, Goto
  <2>4. CASE \/ EnsureFind(h) \/ EnsurePack(h) \/ SubscribePack(h) \/ CreateSubscription(h)
             \/ RemoveWrite(h)
    BY <1>0, <2>4 DEF EnsureFind, EnsurePack, SubscribePack, CreateSubscription, RemoveWrite,
       Finish, Goto
  <2>5. QED
    BY <1>3, <2>1, <2>2, <2>3, <2>4 DEF Advance
<1>4. QED
  BY <1>1, <1>2, <1>3

\* The searches of all requests, by any step.
LEMMA SearchesInv ==
    ASSUME IInv, IInv', Searches, [Next]_vars
    PROVE  Searches'
<1>1. CASE Environment \/ UNCHANGED vars
  <2>1. UNCHANGED <<subs, job>>
    BY <1>1 DEF vars, Environment, GatewayMove, CreatePack, UpdatePack, DeletePack, Tick,
                World, Tables
  <2>2. \A h \in Handlers : Looked(job[h])'
    BY <2>1, SameRows, LookedStays DEF Searches
  <2>3. QED
    BY <2>2 DEF Searches
<1>2. CASE \E h \in Handlers : Advance(h) \/ Arrive(h) \/ Faulty(h)
  <2>1. PICK h \in Handlers : Advance(h) \/ Arrive(h) \/ Faulty(h)
    BY <1>2
  <2>2. OnlyNewer /\ Looked(job[h])'
    BY <2>1, MoverLooked
  <2>3. \A g \in Handlers \ {h} : Looked(job[g])'
    BY <2>1, <2>2, OneMoves, LookedStays DEF Searches
  <2>4. QED
    BY <2>2, <2>3 DEF Searches
<1>3. QED
  BY <1>1, <1>2 DEF Next

(***************************************************************************)
(* A poll, a webhook or a repair adds to an active subscription only when  *)
(* that one was created during the request's own search and insertion:     *)
(* for any number of requests, users and payments.                         *)
(***************************************************************************)
THEOREM OnlyIfMissing == Spec => []GrantsOnlyIfMissing
<1>1. Init => Searches
  <2> SUFFICES ASSUME Init, NEW h \in Handlers PROVE Looked(job[h])
    BY DEF Searches
  <2>1. job[h].base = 0 /\ job[h].at = "idle" /\ subs = <<>>
    BY DEF Init, NoJob
  <2>2. QED
    BY <2>1 DEF Looked, Searching
<1>2. IInv /\ IInv' /\ Searches /\ [Next]_vars => Searches'
  BY SearchesInv
<1>3. Searches => GrantsOnlyIfMissing
  BY DEF Searches, Looked, GrantsOnlyIfMissing, Searching, ActiveIn, ActiveRows
<1>4. QED
  BY <1>1, <1>2, <1>3, Invariant, PTL DEF Spec

-----------------------------------------------------------------------------
(***************************************************************************)
(* What is written over a confirmation.  A stored outcome is backed by the *)
(* provider's current status, because an outcome is final there but for    *)
(* the refund; so is the answer a request is about to write, and a request *)
(* that compares it with its snapshot finds the two at odds only if the    *)
(* snapshot was an admin's failure.                                        *)
(***************************************************************************)
Opening == {"initiate gateway", "initiate create"}

Asking == {"verify ask", "averify ask"}

Answered == {"verify update", "notify update", "averify update"}

\* Steps at which a request is bound to the row or to the provider.
Bound == Opening \cup Asking \cup Answered \cup {"notify ask", "fail write"}

Backed(st, s) ==
    /\ st = "Success" => s \in {"COMPLETED", "SUCCESS", "REFUNDED"}
    /\ st = "Cancelled" => s \in {"CANCELLED", "REFUNDED"}

Answers(st, s) == Backed(st, s) /\ (st = "Failed" => s \in {"FAILED", "EXPIRED"})

Aware(j) ==
    /\ j.at \in Opening => row[j.pay] = "none"
    /\ j.at \in Bound \ Opening => row[j.pay] # "none"
    /\ j.at \in Asking => Backed(j.snap, gw[j.pay])
    /\ j.at \in Answered => Answers(j.st, gw[j.pay])
    /\ j.at \in Answered \ {"notify update"} /\ j.st = "Pending" => j.snap = "Failed"

\* Two requests never open the same payment.
Alone(g, h) ==
    job[g].at \in Opening /\ job[h].at \in Opening /\ job[g].pay = job[h].pay => g = h

KInv ==
    /\ \A p \in Payments : Backed(row[p], gw[p])
    /\ \A h \in Handlers : Aware(job[h])
    /\ \A g, h \in Handlers : Alone(g, h)

\* A request bound to a payment names one.
LEMMA BoundPay ==
    ASSUME IInv, NEW h \in Handlers, job[h].at \in Bound
    PROVE  job[h].pay \in Payments
BY DEF IInv, Evidence, Knows, OnPayment, Bound, Opening, Asking, Answered

(***************************************************************************)
(* Steps that leave the row and the provider alone: only the request that  *)
(* moves has something to show.                                            *)
(***************************************************************************)
LEMMA MoveKept ==
    ASSUME KInv, NEW h \in Handlers, \A g \in Handlers \ {h} : job'[g] = job[g],
           UNCHANGED <<row, gw>>, Aware(job[h])', job'[h].at \notin Opening
    PROVE  KInv'
<1>1. \A p \in Payments : Backed(row'[p], gw'[p])
  BY DEF KInv
<1>2. ASSUME NEW g \in Handlers PROVE Aware(job[g])'
  <2>1. CASE g = h
    BY <2>1
  <2>2. CASE g # h
    <3>1. job'[g] = job[g] /\ Aware(job[g])
      BY <2>2 DEF KInv
    <3>2. QED
      BY <3>1 DEF Aware
  <2>3. QED
    BY <2>1, <2>2
<1>3. ASSUME NEW f \in Handlers, NEW g \in Handlers PROVE Alone(f, g)'
  <2>1. CASE f # h /\ g # h
    <3>1. job'[f] = job[f] /\ job'[g] = job[g] /\ Alone(f, g)
      BY <2>1 DEF KInv
    <3>2. QED
      BY <3>1 DEF Alone
  <2>2. CASE f = h \/ g = h
    BY <2>2 DEF Alone
  <2>3. QED
    BY <2>1, <2>2
<1>4. QED
  BY <1>1, <1>2, <1>3 DEF KInv

\* A request that goes where it is bound to nothing.
Free(h) == job'[h].at \notin Bound /\ UNCHANGED <<row, gw>>

\* Such a step has nothing to show at all.
LEMMA FreeKept ==
    ASSUME KInv, NEW h \in Handlers, \A g \in Handlers \ {h} : job'[g] = job[g], Free(h)
    PROVE  KInv'
<1>1. Aware(job[h])' /\ job'[h].at \notin Opening
  BY DEF Aware, Free, Bound
<1>2. QED
  BY <1>1, MoveKept DEF Free

\* Returning frees a request.
LEMMA FinishFrees ==
    ASSUME IInv, NEW h \in Handlers, Finish(h)
    PROVE  job'[h].at \notin Bound
<1>1. job'[h] = NoJob
  BY DEF IInv, TypeOK, Finish
<1>2. QED
  BY <1>1 DEF NoJob, Bound, Opening, Asking, Answered

\* So does moving to another step.
LEMMA GotoFrees ==
    ASSUME IInv, NEW h \in Handlers, NEW step, step \notin Bound, Goto(h, step)
    PROVE  job'[h].at \notin Bound
<1>1. job'[h].at = step
  BY JobsTyped DEF Goto, Job
<1>2. QED
  BY <1>1

\* The statements that neither ask the provider nor write the row.
LEMMA FreeSteps ==
    ASSUME IInv, NEW h \in Handlers,
           \/ VerifySub(h) \/ EnsureFind(h) \/ EnsurePack(h) \/ CreateSubscription(h)
           \/ Announce(h) \/ ReadSub(h) \/ Push(h) \/ NotifyPaid(h) \/ SubscribePack(h)
           \/ VerifyAdminPaid(h) \/ RemoveWrite(h) \/ Abort(h) \/ VerifyAskFails(h)
           \/ \E label, e : AmendWrite(h, label, e)
    PROVE  Free(h)
<1>0. job \in [Handlers -> Job]
  BY JobsTyped
<1>1. CASE VerifySub(h)
  <2>1. job'[h].at \in {"push", "ensure find"}
    BY <1>0, <1>1 DEF VerifySub, Job
  <2>2. QED
    BY <1>1, <2>1 DEF VerifySub, Free, World, Tables, Bound, Opening, Asking, Answered
<1>2. CASE EnsureFind(h)
  <2>1. job'[h].at \in {"push", "read sub", "ensure pack", "create"}
    BY ZenonT(30), <1>0, <1>2 DEF EnsureFind, Goto, AfterEnsure, Job
  <2>2. QED
    BY <1>2, <2>1 DEF EnsureFind, Free, World, Tables, Bound, Opening, Asking, Answered
<1>3. CASE EnsurePack(h)
  <2>1. job'[h].at = "create"
    BY ZenonT(30), <1>0, <1>3 DEF EnsurePack, Job
  <2>2. QED
    BY <1>3, <2>1 DEF EnsurePack, Free, World, Tables, Bound, Opening, Asking, Answered
<1>4. CASE CreateSubscription(h)
  <2>1. CASE Finish(h)
    BY <1>4, <2>1, FinishFrees DEF CreateSubscription, Free, World
  <2>2. CASE ~Finish(h)
    <3>1. job'[h].at = "announce"
      BY <1>0, <1>4, <2>2 DEF CreateSubscription, Job
    <3>2. QED
      BY <1>4, <3>1 DEF CreateSubscription, Free, World, Bound, Opening, Asking, Answered
  <2>3. QED
    BY <2>1, <2>2
<1>5. CASE Announce(h)
  <2>1. AfterEnsure(job[h]) \notin Bound
    BY DEF AfterEnsure, Bound, Opening, Asking, Answered
  <2>2. QED
    BY <1>5, <2>1, GotoFrees, FinishFrees DEF Announce, Free, World
<1>6. CASE ReadSub(h)
  <2>1. job'[h].at = "push"
    BY <1>0, <1>6 DEF ReadSub, Job
  <2>2. QED
    BY <1>6, <2>1 DEF ReadSub, Free, World, Tables, Bound, Opening, Asking, Answered
<1>7. CASE Push(h) \/ VerifyAdminPaid(h) \/ RemoveWrite(h)
  BY <1>7, FinishFrees DEF Push, VerifyAdminPaid, RemoveWrite, Free, World
<1>8. CASE NotifyPaid(h)
  <2>1. "ensure find" \notin Bound
    BY DEF Bound, Opening, Asking, Answered
  <2>2. QED
    BY <1>8, <2>1, GotoFrees DEF NotifyPaid, Free, World
<1>9. CASE SubscribePack(h)
  <2>1. CASE Finish(h)
    BY <1>9, <2>1, FinishFrees DEF SubscribePack, Free, World, Tables
  <2>2. CASE ~Finish(h)
    <3>1. PICK e, l : job' = [job EXCEPT ![h].at = "create", ![h].exp = e, ![h].life = l]
      BY <1>9, <2>2 DEF SubscribePack
    <3>2. job'[h].at = "create"
      BY ZenonT(30), <1>0, <3>1 DEF Job
    <3>3. QED
      BY <1>9, <3>2 DEF SubscribePack, Free, World, Tables, Bound, Opening, Asking, Answered
  <2>3. QED
    BY <2>1, <2>2
<1>10. CASE Abort(h)
  BY <1>10, FinishFrees DEF Abort, Free, Tables
<1>11. CASE VerifyAskFails(h)
  <2>1. "read sub" \notin Bound
    BY DEF Bound, Opening, Asking, Answered
  <2>2. QED
    BY <1>11, <2>1, GotoFrees DEF VerifyAskFails, Free, Tables
<1>12. CASE \E label, e : AmendWrite(h, label, e)
  BY <1>12, FinishFrees DEF AmendWrite, Free, World
<1>13. QED
  BY <1>1, <1>2, <1>3, <1>4, <1>5, <1>6, <1>7, <1>8, <1>9, <1>10, <1>11, <1>12

(***************************************************************************)
(* Arrivals.  What a request reads is backed when it reads it.             *)
(***************************************************************************)
LEMMA ReadsKept ==
    ASSUME IInv, KInv, NEW h \in Handlers, NEW p \in Payments, NEW op, NEW step,
           Reads(h, op, step, p)
    PROVE  KInv'
<1>1. job'[h] = Snapshot(op, step, p) /\ \A g \in Handlers \ {h} : job'[g] = job[g]
  BY JobsTyped DEF Reads
<1>2. job'[h].at = step /\ job'[h].pay = p /\ job'[h].snap = row[p]
  BY <1>1 DEF Snapshot, NoJob
<1>3. step \in FirstSteps /\ row[p] # "none" /\ UNCHANGED <<row, gw>>
  BY DEF Reads, World, Tables
<1>4. Backed(row[p], gw[p])
  BY DEF KInv
<1>5. Aware(job[h])' /\ step \notin Opening
  BY <1>2, <1>3, <1>4 DEF Aware, FirstSteps, Bound, Opening, Asking, Answered
<1>6. QED
  BY <1>1, <1>2, <1>3, <1>5, MoveKept

\* A payment is opened by one request, before it has a row.
LEMMA InitiateStartKept ==
    ASSUME IInv, KInv, NEW h \in Handlers, NEW p \in Payments, InitiateStart(h, p)
    PROVE  KInv'
<1> DEFINE r == [NoJob EXCEPT !.op = "initiate", !.pay = p, !.at = "initiate gateway"]
<1>1. r.at = "initiate gateway" /\ r.pay = p
  BY DEF NoJob
<1>2. job' = [job EXCEPT ![h] = r]
  BY DEF InitiateStart
<1> HIDE DEF r
<1>3. job'[h] = r /\ \A g \in Handlers \ {h} : job'[g] = job[g]
  BY <1>2, JobsTyped
<1>4. UNCHANGED <<row, gw>> /\ row[p] = "none" /\ \A g \in Handlers : job[g].pay # p
  BY DEF InitiateStart, World, Tables
<1>5. Aware(job[h])'
  BY <1>1, <1>3, <1>4 DEF Aware, Bound, Opening, Asking, Answered
<1>6. ASSUME NEW g \in Handlers PROVE Aware(job[g])'
  <2>1. CASE g = h
    BY <1>5, <2>1
  <2>2. CASE g # h
    <3>1. job'[g] = job[g] /\ Aware(job[g])
      BY <1>3, <2>2 DEF KInv
    <3>2. QED
      BY <1>4, <3>1 DEF Aware
  <2>3. QED
    BY <2>1, <2>2
<1>7. ASSUME NEW f \in Handlers, NEW g \in Handlers PROVE Alone(f, g)'
  <2>1. CASE f # h /\ g # h
    <3>1. job'[f] = job[f] /\ job'[g] = job[g] /\ Alone(f, g)
      BY <1>3, <2>1 DEF KInv
    <3>2. QED
      BY <3>1 DEF Alone
  <2>2. CASE f = h /\ g # h
    BY <1>1, <1>3, <1>4, <2>2 DEF Alone
  <2>3. CASE f # h /\ g = h
    BY <1>1, <1>3, <1>4, <2>3 DEF Alone
  <2>4. CASE f = h /\ g = h
    BY <2>4 DEF Alone
  <2>5. QED
    BY <2>1, <2>2, <2>3, <2>4
<1>8. QED
  BY <1>4, <1>6, <1>7 DEF KInv

\* The arrivals that read no payment, or a confirmed one for its user.
LEMMA FreeArrivals ==
    ASSUME IInv, NEW h \in Handlers,
           \/ \E u, p, k, d : SubscribeStart(h, u, p, k, d)
           \/ \E u, k, d, label : GrantStart(h, u, k, d, label)
           \/ \E op, i : AdminSubStart(h, op, i)
    PROVE  Free(h)
<1>0. job \in [Handlers -> Job]
  BY JobsTyped
<1>1. CASE \E u, p, k, d : SubscribeStart(h, u, p, k, d)
  <2>1. PICK u, p, k, d : SubscribeStart(h, u, p, k, d)
    BY <1>1
  <2> DEFINE step == IF k = Null THEN "create" ELSE "subscribe pack"
             e == IF k = Null THEN now + d ELSE Null
  <2>2. job' = [job EXCEPT ![h] = [Snapshot("subscribe", step, p)
                                     EXCEPT !.user = u, !.pack = k, !.exp = e]]
    BY <2>1 DEF SubscribeStart
  <2>3. step \notin Bound /\ UNCHANGED <<row, gw>>
    BY <2>1 DEF SubscribeStart, World, Tables, Bound, Opening, Asking, Answered
  <2> HIDE DEF step, e
  <2>4. job'[h].at = step
    BY <1>0, <2>2 DEF Snapshot, NoJob
  <2>5. QED
    BY <2>3, <2>4 DEF Free
<1>2. CASE \E u, k, d, label : GrantStart(h, u, k, d, label)
  <2>1. PICK u, k, d, label : GrantStart(h, u, k, d, label)
    BY <1>2
  <2> DEFINE step == IF k = Null THEN "create" ELSE "grant pack"
             e == IF k = Null THEN now + d ELSE Null
  <2>2. job' = [job EXCEPT ![h] = [NoJob EXCEPT !.op = "grant", !.user = u, !.pack = k,
                                     !.label = label, !.at = step, !.exp = e]]
    BY <2>1 DEF GrantStart
  <2>3. step \notin Bound /\ UNCHANGED <<row, gw>>
    BY <2>1 DEF GrantStart, World, Tables, Bound, Opening, Asking, Answered
  <2> HIDE DEF step, e
  <2>4. job'[h].at = step
    BY <1>0, <2>2 DEF NoJob
  <2>5. QED
    BY <2>3, <2>4 DEF Free
<1>3. CASE \E op, i : AdminSubStart(h, op, i)
  <2>1. PICK op, i : AdminSubStart(h, op, i)
    BY <1>3
  <2> DEFINE step == IF op = "amend" THEN "amend write" ELSE "remove write"
  <2>2. job' = [job EXCEPT ![h] = [NoJob EXCEPT !.op = op, !.sub = i, !.at = step]]
    BY <2>1 DEF AdminSubStart
  <2>3. step \notin Bound /\ UNCHANGED <<row, gw>>
    BY <2>1 DEF AdminSubStart, World, Tables, Bound, Opening, Asking, Answered
  <2> HIDE DEF step
  <2>4. job'[h].at = step
    BY <1>0, <2>2 DEF NoJob
  <2>5. QED
    BY <2>3, <2>4 DEF Free
<1>4. QED
  BY <1>1, <1>2, <1>3

(***************************************************************************)
(* The provider's answers.  An answer is backed by the status it is taken  *)
(* from; it contradicts a backed snapshot by being open again only if that *)
(* snapshot was a failure.                                                 *)
(***************************************************************************)
LEMMA AnswerBacked ==
    ASSUME NEW s \in AllGatewayStatuses
    PROVE  /\ Answers(mapGeniusPayStatus(s), s)
           /\ \A old \in Statuses :
                Backed(old, s) /\ mapGeniusPayStatus(s) = "Pending"
                  => old \in {"Pending", "Failed"}
BY DEF AllGatewayStatuses, Answers, Backed, mapGeniusPayStatus, Statuses

\* A request that asks and compares.
LEMMA AskKept ==
    ASSUME IInv, KInv, NEW h \in Handlers, VerifyAsk(h) \/ NotifyAsk(h) \/ VerifyAdminAsk(h)
    PROVE  KInv'
<1> DEFINE s == gw[job[h].pay]
           st == mapGeniusPayStatus(s)
<1>0. job \in [Handlers -> Job] /\ \A g \in Handlers \ {h} : job'[g] = job[g]
  BY JobsTyped, OneMoves DEF Advance
<1>1. UNCHANGED <<row, gw>>
  BY DEF VerifyAsk, NotifyAsk, VerifyAdminAsk, World, Tables
<1>2. job[h].at \in Asking \cup {"notify ask"}
  BY DEF VerifyAsk, NotifyAsk, VerifyAdminAsk, Asking
<1>3. job[h].pay \in Payments /\ row[job[h].pay] # "none" /\ s \in AllGatewayStatuses
  <2>1. job[h].pay \in Payments /\ s # "none"
    BY <1>2 DEF IInv, Evidence, Knows, OnPayment, Asking
  <2>2. row[job[h].pay] # "none"
    BY <1>2 DEF KInv, Aware, Bound, Opening, Asking, Answered
  <2>3. QED
    BY <2>1, <2>2 DEF IInv, TypeOK
<1>4. job[h].at \in Asking => Backed(job[h].snap, s)
  BY DEF KInv, Aware
<1>5. job[h].snap \in Statuses
  BY <1>0 DEF Job
<1>6. /\ Answers(st, s)
      /\ job[h].at \in Asking /\ st = "Pending" => job[h].snap \in {"Pending", "Failed"}
  BY <1>3, <1>4, <1>5, AnswerBacked
<1>7. \/ job'[h].at \notin Bound
      \/ /\ job'[h].at \in Answered /\ job'[h].pay = job[h].pay
         /\ job'[h].st = st /\ job'[h].snap = job[h].snap
         /\ job'[h].at # "notify update" => job[h].at \in Asking /\ st # job[h].snap
  <2> HIDE DEF st
  <2>1. CASE VerifyAsk(h)
    <3> DEFINE next == IF st = job[h].snap THEN "read sub" ELSE "verify update"
    <3>1. job' = [job EXCEPT ![h].st = st, ![h].at = next] /\ job[h].at \in Asking
      BY <2>1 DEF VerifyAsk, st, Asking
    <3>2. \/ next \notin Bound
          \/ next = "verify update" /\ st # job[h].snap
      BY DEF Bound, Opening, Asking, Answered
    <3> HIDE DEF next
    <3>3. /\ job'[h].at = next /\ job'[h].pay = job[h].pay
          /\ job'[h].st = st /\ job'[h].snap = job[h].snap
      BY ZenonT(30), <1>0, <3>1 DEF Job
    <3>4. QED
      BY <3>1, <3>2, <3>3 DEF Answered
  <2>2. CASE NotifyAsk(h)
    <3>1. job' = [job EXCEPT ![h].at = "notify update", ![h].st = st]
      BY <2>2 DEF NotifyAsk, st
    <3>2. /\ job'[h].at = "notify update" /\ job'[h].pay = job[h].pay
          /\ job'[h].st = st /\ job'[h].snap = job[h].snap
      BY ZenonT(30), <1>0, <3>1 DEF Job
    <3>3. QED
      BY <3>2 DEF Answered
  <2>3. CASE VerifyAdminAsk(h)
    <3>1. CASE Finish(h)
      BY <3>1, FinishFrees
    <3>2. CASE ~Finish(h)
      <4>1. /\ job' = [job EXCEPT ![h].at = "averify update", ![h].st = st]
            /\ job[h].at \in Asking /\ st # job[h].snap
        BY <2>3, <3>2 DEF VerifyAdminAsk, st, Asking
      <4>2. /\ job'[h].at = "averify update" /\ job'[h].pay = job[h].pay
            /\ job'[h].st = st /\ job'[h].snap = job[h].snap
        BY ZenonT(30), <1>0, <4>1 DEF Job
      <4>3. QED
        BY <4>1, <4>2 DEF Answered
    <3>3. QED
      BY <3>1, <3>2
  <2>4. QED
    BY <2>1, <2>2, <2>3
<1> HIDE DEF st, s
<1>8. CASE job'[h].at \notin Bound
  BY <1>0, <1>1, <1>8, FreeKept DEF Free
<1>9. CASE job'[h].at \in Bound
  <2>1. /\ job'[h].at \in Answered /\ job'[h].pay = job[h].pay
        /\ job'[h].st = st /\ job'[h].snap = job[h].snap
        /\ job'[h].at # "notify update" => job[h].at \in Asking /\ st # job[h].snap
    BY <1>7, <1>9
  <2>2. row'[job'[h].pay] # "none" /\ gw'[job'[h].pay] = s
    BY <1>1, <1>3, <2>1 DEF s
  <2>3. job'[h].at # "notify update" /\ st = "Pending" => job'[h].snap = "Failed"
    BY <1>6, <2>1
  <2>4. Aware(job[h])' /\ job'[h].at \notin Opening
    BY <1>6, <2>1, <2>2, <2>3 DEF Aware, Opening, Asking, Answered
  <2>5. QED
    BY <1>0, <1>1, <2>4, MoveKept
<1>10. QED
  BY <1>8, <1>9

(***************************************************************************)
(* Writes of the row.  What is written is backed, and nobody else is still *)
(* opening that payment.                                                   *)
(***************************************************************************)
LEMMA RowKept ==
    ASSUME IInv, KInv, NEW h \in Handlers, \A g \in Handlers \ {h} : job'[g] = job[g],
           job'[h].at \notin Bound, NEW p \in Payments, NEW st \in Statuses,
           Backed(st, gw[p]), row' = [row EXCEPT ![p] = st], gw' = gw,
           \A g \in Handlers \ {h} : job[g].at \in Opening => job[g].pay # p
    PROVE  KInv'
<1>1. \A q \in Payments : row'[q] = IF q = p THEN st ELSE row[q]
  BY DEF IInv, TypeOK
<1>2. st # "none"
  BY DEF Statuses
<1>3. \A q \in Payments : Backed(row'[q], gw'[q])
  BY <1>1 DEF KInv
<1>4. ASSUME NEW g \in Handlers PROVE Aware(job[g])'
  <2>1. CASE g = h
    BY <2>1 DEF Aware, Bound
  <2>2. CASE g # h /\ job[g].at \notin Bound
    BY <2>2 DEF Aware, Bound
  <2>3. CASE g # h /\ job[g].at \in Bound
    <3>1. job'[g] = job[g] /\ Aware(job[g]) /\ job[g].pay \in Payments
      BY <2>3, BoundPay DEF KInv
    <3>2. job[g].at \in Opening => row'[job[g].pay] = row[job[g].pay]
      BY <1>1, <2>3, <3>1
    <3>3. row[job[g].pay] # "none" => row'[job[g].pay] # "none"
      BY <1>1, <1>2, <3>1
    <3>4. QED
      BY <3>1, <3>2, <3>3 DEF Aware
  <2>4. QED
    BY <2>1, <2>2, <2>3
<1>5. ASSUME NEW f \in Handlers, NEW g \in Handlers PROVE Alone(f, g)'
  <2>1. CASE f # h /\ g # h
    <3>1. job'[f] = job[f] /\ job'[g] = job[g] /\ Alone(f, g)
      BY <2>1 DEF KInv
    <3>2. QED
      BY <3>1 DEF Alone
  <2>2. CASE f = h \/ g = h
    BY <2>2 DEF Alone, Bound
  <2>3. QED
    BY <2>1, <2>2
<1>6. QED
  BY <1>3, <1>4, <1>5 DEF KInv

\* Where the row exists nobody is opening the payment.
LEMMA Opened ==
    ASSUME KInv, NEW h \in Handlers, job[h].at \in Bound \ Opening
    PROVE  \A g \in Handlers \ {h} : job[g].at \in Opening => job[g].pay # job[h].pay
BY DEF KInv, Aware

\* The row is inserted by the only request that opened the payment.
LEMMA InitiateCreateKept ==
    ASSUME IInv, KInv, NEW h \in Handlers, InitiateCreate(h)
    PROVE  KInv'
<1>1. job[h].at \in Opening /\ job[h].at \in Bound
  BY DEF InitiateCreate, Opening, Bound
<1>2. job[h].pay \in Payments
  BY <1>1, BoundPay
<1>3. \A g \in Handlers \ {h} : job'[g] = job[g]
  BY OneMoves DEF Advance
<1>4. \A g \in Handlers \ {h} : job[g].at \in Opening => job[g].pay # job[h].pay
  BY <1>1 DEF KInv, Alone
<1>5. "Pending" \in Statuses /\ Backed("Pending", gw[job[h].pay])
  BY DEF Statuses, Backed
<1>6. job'[h].at \notin Bound /\ row' = [row EXCEPT ![job[h].pay] = "Pending"] /\ gw' = gw
  BY FinishFrees DEF InitiateCreate, World
<1>7. QED
  BY <1>2, <1>3, <1>4, <1>5, <1>6, RowKept

\* An admin's failure needs no backing.
LEMMA FailAdminKept ==
    ASSUME IInv, KInv, NEW h \in Handlers, FailAdminWrite(h)
    PROVE  KInv'
<1>1. job[h].at \in Bound \ Opening
  BY DEF FailAdminWrite, Opening, Bound
<1>2. job[h].pay \in Payments
  BY <1>1, BoundPay
<1>3. \A g \in Handlers \ {h} : job'[g] = job[g]
  BY OneMoves DEF Advance
<1>4. "Failed" \in Statuses /\ Backed("Failed", gw[job[h].pay])
  BY DEF Statuses, Backed
<1>5. job'[h].at \notin Bound /\ row' = [row EXCEPT ![job[h].pay] = "Failed"] /\ gw' = gw
  BY FinishFrees DEF FailAdminWrite, World
<1>6. QED
  BY <1>1, <1>2, <1>3, <1>4, <1>5, Opened, RowKept

\* A held answer is backed when it is written.
LEMMA UpdateKept ==
    ASSUME IInv, KInv, NEW h \in Handlers,
           VerifyUpdate(h) \/ NotifyUpdate(h) \/ VerifyAdminUpdate(h)
    PROVE  KInv'
<1>1. job[h].at \in Answered /\ job[h].at \in Bound \ Opening
  BY DEF VerifyUpdate, NotifyUpdate, VerifyAdminUpdate, Opening, Answered, Bound
<1>2. job[h].pay \in Payments /\ job[h].st \in Statuses
  BY <1>1, BoundPay, JobsTyped DEF Job
<1>3. \A g \in Handlers \ {h} : job'[g] = job[g]
  BY OneMoves DEF Advance
<1>4. Backed(job[h].st, gw[job[h].pay])
  BY <1>1 DEF KInv, Aware, Answers
<1>5. /\ "read sub" \notin Bound /\ "ensure find" \notin Bound
      /\ "notify paid" \notin Bound /\ "averify paid" \notin Bound
  BY DEF Opening, Asking, Answered, Bound
<1>6. job'[h].at \notin Bound
  BY <1>5, FinishFrees, GotoFrees DEF VerifyUpdate, NotifyUpdate, VerifyAdminUpdate
<1>7. row' = [row EXCEPT ![job[h].pay] = job[h].st] /\ gw' = gw
  BY DEF VerifyUpdate, NotifyUpdate, VerifyAdminUpdate, World
<1>8. QED
  BY <1>1, <1>2, <1>3, <1>4, <1>6, <1>7, Opened, RowKept

(***************************************************************************)
(* Moves of the provider.  Its outcomes are final but for the refund, so   *)
(* what was backed stays backed.                                           *)
(***************************************************************************)
LEMMA GatewayKeepsBacking ==
    ASSUME NEW s, NEW t \in GatewayNext(s), NEW st, Backed(st, s)
    PROVE  Backed(st, t) /\ (Answers(st, s) => Answers(st, t))
BY DEF GatewayNext, Backed, Answers

\* The provider moving a payment on its own.
LEMMA GatewayMoveKept ==
    ASSUME IInv, KInv, NEW p \in Payments, NEW s \in GatewayStatuses, GatewayMove(p, s)
    PROVE  KInv'
<1>1. \A q \in Payments : gw'[q] = IF q = p THEN s ELSE gw[q]
  BY DEF GatewayMove, IInv, TypeOK
<1>2. s \in GatewayNext(gw[p]) /\ row' = row /\ job' = job
  BY DEF GatewayMove, Tables
<1>3. ASSUME NEW q \in Payments, NEW st
      PROVE  /\ Backed(st, gw[q]) => Backed(st, gw'[q])
             /\ Answers(st, gw[q]) => Answers(st, gw'[q])
  BY <1>1, <1>2, GatewayKeepsBacking DEF Answers
<1>4. ASSUME NEW q \in Payments PROVE Backed(row'[q], gw'[q])
  <2>1. Backed(row[q], gw[q])
    BY DEF KInv
  <2>2. Backed(row[q], gw'[q])
    BY <1>3, <2>1
  <2>3. QED
    BY <1>2, <2>2
<1>5. ASSUME NEW g \in Handlers PROVE Aware(job[g])'
  <2>1. CASE job[g].at \notin Bound
    BY <1>2, <2>1 DEF Aware, Bound
  <2>2. CASE job[g].at \in Bound
    <3>1. Aware(job[g]) /\ job[g].pay \in Payments
      BY <2>2, BoundPay DEF KInv
    <3>2. job[g].at \in Asking => Backed(job[g].snap, gw'[job[g].pay])
      BY <1>3, <3>1 DEF Aware
    <3>3. job[g].at \in Answered => Answers(job[g].st, gw'[job[g].pay])
      BY <1>3, <3>1 DEF Aware
    <3>4. QED
      BY <1>2, <3>1, <3>2, <3>3 DEF Aware
  <2>3. QED
    BY <2>1, <2>2
<1>6. \A f, g \in Handlers : Alone(f, g)'
  BY <1>2 DEF KInv, Alone
<1>7. QED
  BY <1>4, <1>5, <1>6 DEF KInv

\* Creating a payment at the provider: it has no row and nobody asks about it.
LEMMA OpenKept ==
    ASSUME IInv, KInv, NEW h \in Handlers, InitiateGateway(h) \/ InitiateAnswerLost(h)
    PROVE  KInv'
<1> PICK p \in Payments : p = job[h].pay
  <2>1. job[h].at \in Bound
    BY DEF InitiateGateway, InitiateAnswerLost, Bound, Opening
  <2>2. QED
    BY <2>1, BoundPay
<1>1. row[p] = "none" /\ job[h].at \in Opening
  BY DEF KInv, Aware, InitiateGateway, InitiateAnswerLost, Opening
<1>2. row' = row /\ \A q \in Payments \ {p} : gw'[q] = gw[q]
  BY DEF InitiateGateway, InitiateAnswerLost, IInv, TypeOK, Tables
<1>3. \A g \in Handlers \ {h} : job'[g] = job[g]
  BY OneMoves DEF Advance, Faulty
<1>4. \/ job'[h].at \notin Bound
      \/ job'[h].at = "initiate create" /\ job'[h].pay = p
  <2>1. CASE InitiateGateway(h)
    BY <2>1, JobsTyped DEF InitiateGateway, Goto, Job
  <2>2. CASE InitiateAnswerLost(h)
    BY <2>2, FinishFrees DEF InitiateAnswerLost
  <2>3. QED
    BY <2>1, <2>2
<1>5. \A q \in Payments : Backed(row'[q], gw'[q])
  BY <1>1, <1>2 DEF KInv, Backed
<1>6. ASSUME NEW g \in Handlers PROVE Aware(job[g])'
  <2>1. CASE g = h
    BY <1>1, <1>2, <1>4, <2>1 DEF Aware, Opening, Asking, Answered, Bound
  <2>2. CASE g # h /\ job[g].at \notin Bound
    BY <1>3, <2>2 DEF Aware, Bound
  <2>3. CASE g # h /\ job[g].at \in Bound
    <3>1. job'[g] = job[g] /\ Aware(job[g]) /\ job[g].pay \in Payments
      BY <1>3, <2>3, BoundPay DEF KInv
    <3>2. job[g].at \in Bound \ Opening => gw'[job[g].pay] = gw[job[g].pay]
      BY <1>1, <1>2, <3>1 DEF Aware
    <3>3. QED
      BY <1>2, <3>1, <3>2 DEF Aware, Opening, Asking, Answered, Bound
  <2>4. QED
    BY <2>1, <2>2, <2>3
<1>7. ASSUME NEW f \in Handlers, NEW g \in Handlers PROVE Alone(f, g)'
  <2>1. ASSUME NEW k \in Handlers, job'[k].at \in Opening
        PROVE  job[k].at \in Opening /\ job'[k].pay = job[k].pay
    BY <1>1, <1>3, <1>4, <2>1 DEF Bound
  <2>2. Alone(f, g)
    BY DEF KInv
  <2>3. QED
    BY <2>1, <2>2 DEF Alone
<1>8. QED
  BY <1>5, <1>6, <1>7 DEF KInv

(***************************************************************************)
(* Every step.                                                             *)
(***************************************************************************)
LEMMA ArriveKept ==
    ASSUME IInv, KInv, NEW h \in Handlers, Arrive(h)
    PROVE  KInv'
<1>1. CASE \E p \in Payments : InitiateStart(h, p)
  BY <1>1, InitiateStartKept
<1>2. CASE \E p \in Payments : \/ VerifyStart(h, p) \/ NotifyStart(h, p) \/ CheckStart(h, p)
                              \/ VerifyAdminStart(h, p) \/ FailAdminStart(h, p)
  BY <1>2, ArrivalsRead, ReadsKept
<1>3. CASE \/ \E u, p, k, d : SubscribeStart(h, u, p, k, d)
           \/ \E u, k, d, label : GrantStart(h, u, k, d, label)
           \/ \E op, i : AdminSubStart(h, op, i)
  <2>1. Free(h)
    BY <1>3, FreeArrivals
  <2>2. QED
    BY <2>1, OneMoves, FreeKept
<1>4. QED
  BY <1>1, <1>2, <1>3 DEF Arrive

\* One request moving, of its own accord or by a failure.
LEMMA MoverKept ==
    ASSUME IInv, KInv, NEW h \in Handlers, Advance(h) \/ Arrive(h) \/ Faulty(h)
    PROVE  KInv'
<1>1. CASE Arrive(h)
  BY <1>1, ArriveKept
<1>2. CASE \/ VerifySub(h) \/ EnsureFind(h) \/ EnsurePack(h) \/ CreateSubscription(h)
           \/ Announce(h) \/ ReadSub(h) \/ Push(h) \/ NotifyPaid(h) \/ SubscribePack(h)
           \/ VerifyAdminPaid(h) \/ RemoveWrite(h) \/ Abort(h) \/ VerifyAskFails(h)
           \/ \E label, e : AmendWrite(h, label, e)
  <2>1. Free(h)
    BY <1>2, FreeSteps
  <2>2. QED
    BY <2>1, OneMoves, FreeKept
<1>3. QED
  BY <1>1, <1>2, AskKept, UpdateKept, InitiateCreateKept, FailAdminKept, OpenKept
  DEF Advance, Faulty

\* The backing of rows and answers, by any step.
LEMMA StepKept ==
    ASSUME IInv, KInv, [Next]_vars
    PROVE  KInv'
<1>1. CASE UNCHANGED <<row, gw, job>>
  BY <1>1 DEF KInv, Aware, Alone
<1>2. CASE Environment
  <2>1. CASE \E p \in Payments, s \in GatewayStatuses : GatewayMove(p, s)
    BY <2>1, GatewayMoveKept
  <2>2. CASE ~\E p \in Payments, s \in GatewayStatuses : GatewayMove(p, s)
    <3>1. UNCHANGED <<row, gw, job>>
      BY <1>2, <2>2 DEF Environment, CreatePack, UpdatePack, DeletePack, Tick, World, Tables
    <3>2. QED
      BY <1>1, <3>1
  <2>3. QED
    BY <2>1, <2>2
<1>3. CASE UNCHANGED vars
  BY <1>1, <1>3 DEF vars
<1>4. QED
  BY <1>2, <1>3, MoverKept DEF Next

\* The backing is an invariant.
LEMMA Kept == Spec => []KInv
<1>1. Init => KInv
  <2> SUFFICES ASSUME Init PROVE KInv
    OBVIOUS
  <2>1. \A h \in Handlers : job[h].at = "idle"
    BY DEF Init, NoJob
  <2>2. \A p \in Payments : row[p] = "none"
    BY DEF Init
  <2>3. QED
    BY <2>1, <2>2 DEF KInv, Aware, Alone, Backed, Bound, Opening, Asking, Answered
<1>2. IInv /\ KInv /\ [Next]_vars => KInv'
  BY StepKept
<1>3. QED
  BY <1>1, <1>2, Invariant, PTL DEF Spec

\* What may be written over a confirmation of p in one step.
Overwritten(p) ==
    \/ row'[p] = "Cancelled" /\ gw[p] = "REFUNDED"
    \/ \E h \in Handlers :
         /\ job[h].pay = p /\ job'[h] # job[h]
         /\ \/ row'[p] = "Failed" /\ job[h].at = "fail write"
            \/ row'[p] = "Pending"
               /\ (job[h].at = "notify update" \/ job[h].snap = "Failed")

\* Writing a held answer over a confirmation.
LEMMA UpdateOverwrites ==
    ASSUME IInv, KInv, NEW h \in Handlers,
           VerifyUpdate(h) \/ NotifyUpdate(h) \/ VerifyAdminUpdate(h),
           NEW p \in Payments, row[p] = "Success", row'[p] # "Success"
    PROVE  Overwritten(p)
<1>1. job[h].at \in Answered
  BY DEF VerifyUpdate, NotifyUpdate, VerifyAdminUpdate, Answered
<1>2. row' = [row EXCEPT ![job[h].pay] = job[h].st]
  BY DEF VerifyUpdate, NotifyUpdate, VerifyAdminUpdate
<1>3. job[h].pay = p /\ row'[p] = job[h].st
  BY <1>2 DEF IInv, TypeOK
<1>4. job[h].st \in Statuses \ {"Success"}
  BY <1>3, JobsTyped DEF Job
<1>5. Answers(job[h].st, gw[p]) /\ gw[p] \in {"COMPLETED", "SUCCESS", "REFUNDED"}
  BY <1>1, <1>3 DEF KInv, Aware, Backed
<1>6. CASE job[h].st = "Cancelled"
  BY <1>3, <1>5, <1>6 DEF Overwritten, Answers, Backed
<1>7. CASE job[h].st = "Failed"
  BY <1>5, <1>7 DEF Answers
<1>8. CASE job[h].st = "Pending"
  <2>1. job[h].at = "notify update" \/ job[h].snap = "Failed"
    BY <1>1, <1>8 DEF KInv, Aware
  <2>2. job'[h] # job[h]
    <3>1. job'[h].at \notin Bound
      <4>1. /\ "read sub" \notin Bound /\ "ensure find" \notin Bound
            /\ "notify paid" \notin Bound /\ "averify paid" \notin Bound
        BY DEF Opening, Asking, Answered, Bound
      <4>2. QED
        BY <4>1, FinishFrees, GotoFrees DEF VerifyUpdate, NotifyUpdate, VerifyAdminUpdate
    <3>2. QED
      BY <1>1, <3>1 DEF Bound
  <2>3. QED
    BY <1>3, <1>8, <2>1, <2>2 DEF Overwritten
<1>9. QED
  BY <1>4, <1>6, <1>7, <1>8 DEF Statuses

\* Nothing else writes over one, but an admin's failure.
LEMMA StepOverwrites ==
    ASSUME IInv, KInv, [Next]_vars, NEW p \in Payments, row[p] = "Success", row'[p] # "Success"
    PROVE  Overwritten(p)
<1>1. CASE Environment \/ UNCHANGED vars
  BY <1>1 DEF vars, Environment, GatewayMove, CreatePack, UpdatePack, DeletePack, Tick,
              World, Tables
<1>2. CASE \E h \in Handlers : Advance(h) \/ Arrive(h) \/ Faulty(h)
  <2>1. PICK h \in Handlers : Advance(h) \/ Arrive(h) \/ Faulty(h)
    BY <1>2
  <2>2. CASE InitiateCreate(h)
    <3>1. row[job[h].pay] = "none"
      BY <2>2 DEF InitiateCreate, KInv, Aware, Opening
    <3>2. row'[p] = row[p]
      BY <2>2, <3>1 DEF InitiateCreate, IInv, TypeOK
    <3>3. QED
      BY <3>2
  <2>3. CASE FailAdminWrite(h)
    <3>1. job[h].pay = p /\ row'[p] = "Failed" /\ job[h].at = "fail write"
      BY <2>3 DEF FailAdminWrite, IInv, TypeOK
    <3>2. job'[h].at \notin Bound
      BY <2>3, FinishFrees DEF FailAdminWrite
    <3>3. QED
      BY <3>1, <3>2 DEF Overwritten, Bound
  <2>4. CASE VerifyUpdate(h) \/ NotifyUpdate(h) \/ VerifyAdminUpdate(h)
    BY <2>4, UpdateOverwrites
  <2>5. CASE Arrive(h)
    BY <2>5 DEF Arrive, InitiateStart, VerifyStart, NotifyStart, CheckStart, VerifyAdminStart,
                FailAdminStart, SubscribeStart, GrantStart, AdminSubStart, Tables
  <2>6. CASE \/ VerifySub(h) \/ EnsureFind(h) \/ EnsurePack(h) \/ CreateSubscription(h)
             \/ Announce(h) \/ ReadSub(h) \/ Push(h) \/ NotifyPaid(h) \/ SubscribePack(h)
             \/ VerifyAdminPaid(h) \/ RemoveWrite(h) \/ Abort(h) \/ VerifyAskFails(h)
             \/ \E label, e : AmendWrite(h, label, e)
    BY <2>6, FreeSteps DEF Free
  <2>7. CASE \/ VerifyAsk(h) \/ NotifyAsk(h) \/ VerifyAdminAsk(h)
             \/ InitiateGateway(h) \/ InitiateAnswerLost(h)
    BY <2>7 DEF VerifyAsk, NotifyAsk, VerifyAdminAsk, InitiateGateway, InitiateAnswerLost, Tables
  <2>8. QED
    BY <2>1, <2>2, <2>3, <2>4, <2>5, <2>6, <2>7 DEF Advance, Faulty
<1>3. QED
  BY <1>1, <1>2 DEF Next

(***************************************************************************)
(* A confirmation is written over only by the refund the provider reports, *)
(* by an admin's failure, or by an open answer of a webhook or of a        *)
(* request that had read such a failure: for any number of requests.       *)
(***************************************************************************)
THEOREM ConfirmationsStay == Spec => ConfirmationIsKept
<1>1. IInv /\ KInv /\ [Next]_vars
        => [\A p \in Payments : row[p] = "Success" /\ row'[p] # "Success"
              => Overwritten(p)]_vars
  BY StepOverwrites
<1>2. QED
  BY <1>1, Invariant, Kept, PTL DEF Spec, ConfirmationIsKept, Overwritten

-----------------------------------------------------------------------------
(***************************************************************************)
(* The safety half of CompletedIsConfirmed.  What can still undo the       *)
(* confirmation of p are requests in flight: an administrator's failure    *)
(* about to be written and answers, taken before, that are no success.     *)
(***************************************************************************)
Undoes(j, p) ==
    /\ j.pay = p
    /\ j.at = "fail write" \/ (j.at \in Answered /\ j.st # "Success")

Undoing(p) == {h \in Handlers : Undoes(job[h], p)}

Confirmed(p) == row[p] = "Success" /\ mapGeniusPayStatus(gw[p]) = "Success"

\* While p is confirmed and completed, no step adds such a request, and one is
\* used up by each write over the confirmation.
ConfirmationSettles ==
    [][\A p \in Payments : Confirmed(p) =>
         /\ Undoing(p)' \subseteq Undoing(p)
         /\ row'[p] # "Success" => Undoing(p)' # Undoing(p)]_vars

\* A request that goes where it is bound to nothing undoes nothing.
LEMMA UnboundUndoes ==
    ASSUME NEW h, NEW p, job'[h].at \notin Bound
    PROVE  ~Undoes(job'[h], p)
BY DEF Undoes, Bound

\* The provider's answer on a completed payment is a success.
LEMMA AskUndoes ==
    ASSUME IInv, NEW h \in Handlers, NEW p \in Payments, Confirmed(p),
           VerifyAsk(h) \/ NotifyAsk(h) \/ VerifyAdminAsk(h)
    PROVE  ~Undoes(job'[h], p)
<1> DEFINE st == mapGeniusPayStatus(gw[job[h].pay])
<1>0. job \in [Handlers -> Job]
  BY JobsTyped
<1>1. CASE VerifyAsk(h)
  <2> DEFINE next == IF st = job[h].snap THEN "read sub" ELSE "verify update"
  <2>1. job' = [job EXCEPT ![h].st = st, ![h].at = next] /\ next # "fail write"
    BY <1>1 DEF VerifyAsk
  <2> HIDE DEF next
  <2>2. job'[h].pay = job[h].pay /\ job'[h].st = st /\ job'[h].at = next
    BY ZenonT(30), <1>0, <2>1 DEF Job
  <2>3. QED
    BY <2>1, <2>2 DEF Undoes, Confirmed
<1>2. CASE NotifyAsk(h)
  <2>1. job' = [job EXCEPT ![h].at = "notify update", ![h].st = st]
    BY <1>2 DEF NotifyAsk
  <2>2. job'[h].pay = job[h].pay /\ job'[h].st = st /\ job'[h].at = "notify update"
    BY ZenonT(30), <1>0, <2>1 DEF Job
  <2>3. QED
    BY <2>2 DEF Undoes, Confirmed
<1>3. CASE VerifyAdminAsk(h)
  <2>1. CASE Finish(h)
    BY <2>1, FinishFrees, UnboundUndoes
  <2>2. CASE ~Finish(h)
    <3>1. job' = [job EXCEPT ![h].at = "averify update", ![h].st = st]
      BY <1>3, <2>2 DEF VerifyAdminAsk
    <3>2. job'[h].pay = job[h].pay /\ job'[h].st = st /\ job'[h].at = "averify update"
      BY ZenonT(30), <1>0, <3>1 DEF Job
    <3>3. QED
      BY <3>2 DEF Undoes, Confirmed
  <2>3. QED
    BY <2>1, <2>2
<1>4. QED
  BY <1>1, <1>2, <1>3

\* An administrator fails pending payments only, and what else arrives has no
\* answer yet.
LEMMA ArriveUndoes ==
    ASSUME IInv, NEW h \in Handlers, NEW p \in Payments, Confirmed(p), Arrive(h)
    PROVE  ~Undoes(job'[h], p)
<1>0. job \in [Handlers -> Job]
  BY JobsTyped
<1>1. CASE \E q \in Payments : InitiateStart(h, q)
  <2>1. PICK q \in Payments : InitiateStart(h, q)
    BY <1>1
  <2> DEFINE r == [NoJob EXCEPT !.op = "initiate", !.pay = q, !.at = "initiate gateway"]
  <2>2. job' = [job EXCEPT ![h] = r] /\ r.at = "initiate gateway"
    BY <2>1 DEF InitiateStart, NoJob
  <2> HIDE DEF r
  <2>3. job'[h].at = "initiate gateway"
    BY <1>0, <2>2
  <2>4. QED
    BY <2>3 DEF Undoes, Answered
<1>2. CASE \E q \in Payments : \/ VerifyStart(h, q) \/ NotifyStart(h, q) \/ CheckStart(h, q)
                              \/ VerifyAdminStart(h, q) \/ FailAdminStart(h, q)
  <2>1. PICK q \in Payments : \E op, step : Reads(h, op, step, q)
    BY <1>2, ArrivalsRead
  <2> PICK op, step : Reads(h, op, step, q)
    BY <2>1
  <2>2. job'[h] = Snapshot(op, step, q)
    BY <1>0 DEF Reads
  <2>3. job'[h].at = step /\ job'[h].pay = q
    BY <2>2 DEF Snapshot, NoJob
  <2>4. step \notin Answered /\ (step = "fail write" => q # p)
    BY DEF Reads, FirstSteps, Answered, Confirmed
  <2>5. QED
    BY <2>3, <2>4 DEF Undoes
<1>3. CASE \/ \E u, q, k, d : SubscribeStart(h, u, q, k, d)
           \/ \E u, k, d, label : GrantStart(h, u, k, d, label)
           \/ \E op, i : AdminSubStart(h, op, i)
  BY <1>3, FreeArrivals, UnboundUndoes DEF Free
<1>4. QED
  BY <1>1, <1>2, <1>3 DEF Arrive

\* Whoever writes is done with the payment.
LEMMA WriteUndoes ==
    ASSUME IInv, NEW h \in Handlers,
           \/ VerifyUpdate(h) \/ NotifyUpdate(h) \/ VerifyAdminUpdate(h)
           \/ InitiateCreate(h) \/ FailAdminWrite(h)
    PROVE  job'[h].at \notin Bound
<1>1. /\ "read sub" \notin Bound /\ "ensure find" \notin Bound
      /\ "notify paid" \notin Bound /\ "averify paid" \notin Bound
  BY DEF Opening, Asking, Answered, Bound
<1>2. QED
  BY <1>1, FinishFrees, GotoFrees
  DEF VerifyUpdate, NotifyUpdate, VerifyAdminUpdate, InitiateCreate, FailAdminWrite

\* No move makes a request one that undoes p.
LEMMA MoveUndoes ==
    ASSUME IInv, NEW h \in Handlers, NEW p \in Payments, Confirmed(p),
           Advance(h) \/ Arrive(h) \/ Faulty(h)
    PROVE  ~Undoes(job'[h], p)
<1>1. CASE InitiateGateway(h) \/ InitiateAnswerLost(h)
  <2>1. CASE InitiateGateway(h)
    <3>1. job'[h].at = "initiate create"
      BY <2>1, JobsTyped DEF InitiateGateway, Goto, Job
    <3>2. QED
      BY <3>1 DEF Undoes, Answered
  <2>2. CASE InitiateAnswerLost(h)
    BY <2>2, FinishFrees, UnboundUndoes DEF InitiateAnswerLost
  <2>3. QED
    BY <1>1, <2>1, <2>2
<1>2. CASE \/ VerifySub(h) \/ EnsureFind(h) \/ EnsurePack(h) \/ CreateSubscription(h)
           \/ Announce(h) \/ ReadSub(h) \/ Push(h) \/ NotifyPaid(h) \/ SubscribePack(h)
           \/ VerifyAdminPaid(h) \/ RemoveWrite(h) \/ Abort(h) \/ VerifyAskFails(h)
           \/ \E label, e : AmendWrite(h, label, e)
  BY <1>2, FreeSteps, UnboundUndoes DEF Free
<1>3. CASE \/ VerifyUpdate(h) \/ NotifyUpdate(h) \/ VerifyAdminUpdate(h)
           \/ InitiateCreate(h) \/ FailAdminWrite(h)
  BY <1>3, WriteUndoes, UnboundUndoes
<1>4. QED
  BY <1>1, <1>2, <1>3, AskUndoes, ArriveUndoes DEF Advance, Faulty

\* Who writes over the confirmation of p was one of those that undo it.
LEMMA OverwriterUndoes ==
    ASSUME IInv, KInv, NEW h \in Handlers, NEW p \in Payments,
           Advance(h) \/ Arrive(h) \/ Faulty(h), row[p] = "Success", row'[p] # "Success"
    PROVE  Undoes(job[h], p)
<1>1. CASE InitiateCreate(h)
  <2>1. row[job[h].pay] = "none"
    BY <1>1 DEF InitiateCreate, KInv, Aware, Opening
  <2>2. row'[p] = row[p]
    BY <1>1, <2>1 DEF InitiateCreate, IInv, TypeOK
  <2>3. QED
    BY <2>2
<1>2. CASE FailAdminWrite(h)
  <2>1. job[h].pay = p /\ job[h].at = "fail write"
    BY <1>2 DEF FailAdminWrite, IInv, TypeOK
  <2>2. QED
    BY <2>1 DEF Undoes
<1>3. CASE VerifyUpdate(h) \/ NotifyUpdate(h) \/ VerifyAdminUpdate(h)
  <2>1. job[h].at \in Answered /\ row' = [row EXCEPT ![job[h].pay] = job[h].st]
    BY <1>3 DEF VerifyUpdate, NotifyUpdate, VerifyAdminUpdate, Answered
  <2>2. job[h].pay = p /\ job[h].st # "Success"
    BY <2>1 DEF IInv, TypeOK
  <2>3. QED
    BY <2>1, <2>2 DEF Undoes
<1>4. CASE Arrive(h)
  BY <1>4 DEF Arrive, InitiateStart, VerifyStart, NotifyStart, CheckStart, VerifyAdminStart,
              FailAdminStart, SubscribeStart, GrantStart, AdminSubStart, Tables
<1>5. CASE \/ VerifySub(h) \/ EnsureFind(h) \/ EnsurePack(h) \/ CreateSubscription(h)
           \/ Announce(h) \/ ReadSub(h) \/ Push(h) \/ NotifyPaid(h) \/ SubscribePack(h)
           \/ VerifyAdminPaid(h) \/ RemoveWrite(h) \/ Abort(h) \/ VerifyAskFails(h)
           \/ \E label, e : AmendWrite(h, label, e)
  BY <1>5, FreeSteps DEF Free
<1>6. CASE \/ VerifyAsk(h) \/ NotifyAsk(h) \/ VerifyAdminAsk(h)
           \/ InitiateGateway(h) \/ InitiateAnswerLost(h)
  BY <1>6 DEF VerifyAsk, NotifyAsk, VerifyAdminAsk, InitiateGateway, InitiateAnswerLost, Tables
<1>7. QED
  BY <1>1, <1>2, <1>3, <1>4, <1>5, <1>6 DEF Advance, Faulty

\* Every step.
LEMMA StepSettles ==
    ASSUME IInv, KInv, [Next]_vars, NEW p \in Payments, Confirmed(p)
    PROVE  /\ Undoing(p)' \subseteq Undoing(p)
           /\ row'[p] # "Success" => Undoing(p)' # Undoing(p)
<1>1. CASE UNCHANGED <<row, job>>
  BY <1>1 DEF Undoing, Undoes, Confirmed
<1>2. CASE Environment \/ UNCHANGED vars
  <2>1. UNCHANGED <<row, job>>
    BY <1>2 DEF vars, Environment, GatewayMove, CreatePack, UpdatePack, DeletePack, Tick,
                World, Tables
  <2>2. QED
    BY <1>1, <2>1
<1>3. ASSUME NEW h \in Handlers, Advance(h) \/ Arrive(h) \/ Faulty(h)
      PROVE  /\ Undoing(p)' \subseteq Undoing(p)
             /\ row'[p] # "Success" => Undoing(p)' # Undoing(p)
  <2>1. \A g \in Handlers \ {h} : job'[g] = job[g]
    BY <1>3, OneMoves
  <2>2. ~Undoes(job'[h], p)
    BY <1>3, MoveUndoes
  <2>3. Undoing(p)' = Undoing(p) \ {h}
    BY <2>1, <2>2 DEF Undoing, Undoes
  <2>4. row'[p] # "Success" => h \in Undoing(p)
    BY <1>3, OverwriterUndoes DEF Confirmed, Undoing
  <2>5. QED
    BY <2>3, <2>4
<1>4. QED
  BY <1>2, <1>3 DEF Next

(***************************************************************************)
(* A confirmation settles: while the provider keeps the money, a confirmed *)
(* payment can be undone only by requests that had their answer, or had    *)
(* found the payment pending, before it was confirmed.  Later webhooks,    *)
(* polls and administrators add none, and each of those can do it once; so *)
(* once they are gone the confirmation is for good                         *)
(* (payment.usecases.ts:169 and :385, admin.usecases.ts:570).              *)
(***************************************************************************)
THEOREM ConfirmationsSettle == Spec => ConfirmationSettles
<1>1. IInv /\ KInv /\ [Next]_vars
        => [\A p \in Payments : Confirmed(p) =>
              /\ Undoing(p)' \subseteq Undoing(p)
              /\ row'[p] # "Success" => Undoing(p)' # Undoing(p)]_vars
  BY StepSettles
<1>2. QED
  BY <1>1, Invariant, Kept, PTL DEF Spec, ConfirmationSettles

=============================================================================
