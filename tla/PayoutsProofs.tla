---------------------------- MODULE PayoutsProofs ---------------------------
(***************************************************************************)
(* Proofs about Payouts, for any number of payouts, handlers and checks.   *)
(* A check writes an answer that may be old by then.  What saves the row   *)
(* is that the provider never goes back: an answer once true stays backed. *)
(* What saves the notification is that a row which nobody else is checking *)
(* still has the status that its check has read.                           *)
(***************************************************************************)
EXTENDS Payouts, SequenceTheorems, FiniteSetTheorems, TLAPS

\* A status that the provider's history of payout k allows to be stored.
Backed(status, k) ==
    /\ status = "Success" => sent[k] \in {"Success", "Cancelled"}
    /\ status = "Cancelled" => sent[k] = "Cancelled"

\* The answer of a check never goes back behind what it had read.
Follows(j) ==
    /\ j.seen = "Cancelled" => j.answer = "Cancelled"
    /\ j.seen = "Success" => j.answer \in {"Success", "Cancelled"}
    /\ j.by = "fail" => j.seen = "Pending" /\ j.answer = "Failed"
    /\ j.by = "webhook" => j.seen # "Success"

OnRow == {"ask", "write", "tell", "lookup", "create"}

\* What a request in flight may hold.
Sound(j) ==
    /\ j.at = "store" => j.n \in DOMAIN sent
    /\ j.at \in OnRow => j.row \in DOMAIN rows
    /\ j.at = "ask" => /\ j.by # "fail" /\ (j.by = "webhook" => j.seen # "Success")
                       /\ Backed(j.seen, rows[j.row].ref)
    /\ j.at = "write" => Backed(j.answer, rows[j.row].ref) /\ Follows(j)
    /\ j.at = "create" => j.n = 0

RowSound(r) == rows[r].ref \in DOMAIN sent /\ Backed(rows[r].status, rows[r].ref)

\* A row that no two requests have checked at once.
Single(r) ==
    /\ \A g, h \in Checking(r) : g = h
    /\ \/ rows[r].told = 0
       \/ rows[r].told = 1 /\ rows[r].status \in {"Success", "Cancelled"}
    /\ \A h \in Checking(r) :
         /\ job[h].at \in {"ask", "write"} => job[h].seen = rows[r].status
         /\ job[h].at = "tell" => rows[r].told = 0 /\ rows[r].status = "Success"

IInv ==
    /\ TypeOK
    /\ \A r \in DOMAIN rows : RowSound(r)
    /\ \A h \in Handlers : Sound(job[h])
    /\ \A r \in DOMAIN rows \ crossed : Single(r)
    /\ \A m \in DOMAIN subs : subs[m].base = 0

-----------------------------------------------------------------------------
(* Steps.                                                                  *)

\* Nothing stored is taken back: payouts keep their rows, and what the
\* provider's history allowed it still allows.
Grows ==
    /\ DOMAIN sent \subseteq DOMAIN sent'
    /\ DOMAIN rows \subseteq DOMAIN rows'
    /\ \A r \in DOMAIN rows : rows'[r].ref = rows[r].ref
    /\ \A k \in DOMAIN sent, s \in Statuses : Backed(s, k) => Backed(s, k)'

LEMMA NoJobType == NoJob \in Job
BY DEF NoJob, Job, Steps, Routes, Statuses

\* What a request holds stays sound while it waits.
LEMMA SoundStays ==
    ASSUME IInv, Grows, NEW j \in Job, Sound(j)
    PROVE  Sound(j)'
<1>1. j.seen \in Statuses /\ j.answer \in Statuses
  BY DEF Job
<1>2. j.at = "store" => (j.n \in DOMAIN sent)'
  BY DEF Sound, Grows
<1>3. j.at \in OnRow =>
        /\ j.row \in DOMAIN rows /\ (j.row \in DOMAIN rows)'
        /\ rows'[j.row].ref = rows[j.row].ref /\ rows[j.row].ref \in DOMAIN sent
  BY DEF Sound, Grows, IInv, RowSound
<1>4. PICK k : k = rows[j.row].ref
  OBVIOUS
<1>5. j.at \in {"ask", "write"} => k \in DOMAIN sent /\ rows'[j.row].ref = k
  BY <1>3, <1>4 DEF OnRow
<1>6. j.at = "ask" => Backed(j.seen, k)'
  BY <1>1, <1>4, <1>5 DEF Sound, Grows
<1>7. j.at = "write" => Backed(j.answer, k)'
  BY <1>1, <1>4, <1>5 DEF Sound, Grows
<1>8. (j.at = "ask" => Backed(j.seen, rows[j.row].ref))'
  BY <1>5, <1>6 DEF Backed
<1>9. (j.at = "write" => Backed(j.answer, rows[j.row].ref))'
  BY <1>5, <1>7 DEF Backed
<1>10. QED
  BY <1>2, <1>3, <1>8, <1>9 DEF Sound, Follows

(***************************************************************************)
(* Request h moves and the others wait.                                    *)
(***************************************************************************)
Moves(h, j) == h \in Handlers /\ j \in Job /\ job' = [job EXCEPT ![h] = j]

LEMMA MoveSound ==
    ASSUME IInv, Grows, NEW h, NEW j, Moves(h, j), Sound(j)'
    PROVE  (\A g \in Handlers : Sound(job[g]))'
<1>1. job \in [Handlers -> Job] /\ \A g \in Handlers : Sound(job[g])
  BY DEF IInv, TypeOK
<1> TAKE g \in Handlers
<1>2. CASE g = h
  BY <1>1, <1>2 DEF Moves
<1>3. CASE g # h
  BY <1>1, <1>3, SoundStays DEF Moves
<1>4. QED
  BY <1>2, <1>3

\* Types of the requests after a move that keeps or grows the rows.
LEMMA MoveTyped ==
    ASSUME IInv, Grows, NEW h, NEW j, Moves(h, j), j.row \in {0} \cup DOMAIN rows
    PROVE  job' \in [Handlers -> Job] /\ \A g \in Handlers : job'[g].row \in {0} \cup DOMAIN rows'
BY DEF IInv, TypeOK, Moves, Grows

\* The rows stay; h leaves its row or goes on with what it had read of it.
Harmless(h, j) ==
    \/ j.row = 0
    \/ /\ j.row = job[h].row
       /\ j.at \in {"ask", "write"} => job[h].at \in {"ask", "write"} /\ j.seen = job[h].seen
       /\ j.at = "tell" => job[h].at = "tell"

LEMMA MoveSingle ==
    ASSUME IInv, UNCHANGED <<rows, crossed>>, NEW h, NEW j, Moves(h, j), Harmless(h, j)
    PROVE  (\A r \in DOMAIN rows \ crossed : Single(r))'
<1>1. job \in [Handlers -> Job] /\ h \in Handlers
  BY DEF IInv, TypeOK, Moves
<1>2. job'[h] = j /\ \A g \in Handlers \ {h} : job'[g] = job[g]
  BY <1>1 DEF Moves
<1> SUFFICES ASSUME NEW r \in DOMAIN rows \ crossed
             PROVE  Single(r)'
  OBVIOUS
<1>3. Single(r) /\ r # 0
  BY DEF IInv, TypeOK
<1>4. (Checking(r))' \subseteq Checking(r)
  BY <1>1, <1>2, <1>3 DEF Checking, Harmless
<1>5. ASSUME NEW g \in (Checking(r))'
      PROVE  /\ job'[g].at \in {"ask", "write"} => job'[g].seen = rows[r].status
             /\ job'[g].at = "tell" => rows[r].told = 0 /\ rows[r].status = "Success"
  <2>1. g \in Checking(r) /\ g \in Handlers /\ job'[g].row = r
    BY <1>4, <1>5 DEF Checking
  <2>2. CASE g = h
    BY <1>2, <1>3, <2>1, <2>2 DEF Single, Harmless
  <2>3. CASE g # h
    BY <1>2, <1>3, <2>1, <2>3 DEF Single
  <2>4. QED
    BY <2>2, <2>3
<1>6. QED
  BY <1>3, <1>4, <1>5 DEF Single

\* A request ends.
LEMMA Ends ==
    ASSUME IInv, NEW h \in Handlers, Finish(h)
    PROVE  Moves(h, NoJob) /\ Sound(NoJob)' /\ Harmless(h, NoJob) /\ NoJob.row = 0
BY NoJobType DEF Finish, Moves, Sound, Harmless, NoJob, OnRow

\* Whatever leaves payouts and rows alone only has to move a request well.
LEMMA PlainStep ==
    ASSUME IInv, UNCHANGED <<sent, rows, crossed>>, NEW h, NEW j, Moves(h, j),
           Harmless(h, j), Sound(j)', j.row \in {0} \cup DOMAIN rows,
           subs' \in Seq([row : Nat, base : Nat]), (\A m \in DOMAIN subs : subs[m].base = 0)',
           lost' \subseteq DOMAIN sent, quiet' \subseteq DOMAIN rows,
           moves' \in Nat, faults' \in Nat
    PROVE  IInv'
<1>1. Grows
  BY DEF Grows, Backed
<1>2. TypeOK'
  BY <1>1, MoveTyped DEF IInv, TypeOK
<1>3. (\A r \in DOMAIN rows : RowSound(r))'
  BY DEF IInv, RowSound, Backed
<1>4. (\A g \in Handlers : Sound(job[g]))'
  BY <1>1, MoveSound
<1>5. (\A r \in DOMAIN rows \ crossed : Single(r))'
  BY MoveSingle
<1>6. QED
  BY <1>2, <1>3, <1>4, <1>5 DEF IInv

LEMMA JobTyped ==
    ASSUME IInv, NEW h \in Handlers
    PROVE  job[h] \in Job /\ Sound(job[h]) /\ job[h].row \in {0} \cup DOMAIN rows
BY DEF IInv, TypeOK

-----------------------------------------------------------------------------
(* Sending a payout.                                                       *)

\* The provider knows one payout more.
LEMMA SentGrows ==
    ASSUME IInv, sent' = Append(sent, "Pending"), UNCHANGED rows
    PROVE  /\ sent' \in Seq(Statuses) /\ DOMAIN sent' = 1 .. Len(sent) + 1
           /\ Grows /\ (\A r \in DOMAIN rows : RowSound(r))'
<1>1. "Pending" \in Statuses
  BY DEF Statuses
<1>2. /\ sent' \in Seq(Statuses) /\ DOMAIN sent' = 1 .. Len(sent) + 1
      /\ \A k \in DOMAIN sent : k \in DOMAIN sent' /\ sent'[k] = sent[k]
  BY <1>1 DEF IInv, TypeOK
<1>3. QED
  BY <1>2 DEF Grows, Backed, RowSound, IInv

LEMMA SendInv ==
    ASSUME IInv, NEW h, NEW j, Moves(h, j), Harmless(h, j), j.row \in {0} \cup DOMAIN rows,
           sent' = Append(sent, "Pending"), Sound(j)', lost' \subseteq 1 .. Len(sent) + 1,
           faults' \in Nat, UNCHANGED <<rows, subs, quiet, crossed, moves>>
    PROVE  IInv'
<1>1. /\ sent' \in Seq(Statuses) /\ DOMAIN sent' = 1 .. Len(sent) + 1
      /\ Grows /\ (\A r \in DOMAIN rows : RowSound(r))'
  BY SentGrows
<1>2. TypeOK'
  BY <1>1, MoveTyped DEF IInv, TypeOK
<1>3. (\A g \in Handlers : Sound(job[g]))'
  BY <1>1, MoveSound
<1>4. (\A r \in DOMAIN rows \ crossed : Single(r))'
  BY MoveSingle
<1>5. QED
  BY <1>1, <1>2, <1>3, <1>4 DEF IInv

LEMMA PayNounuInv ==
    ASSUME IInv, NEW h \in Handlers, PayNounu(h)
    PROVE  IInv'
<1> PICK n : n = Len(sent) + 1
  OBVIOUS
<1> PICK j : j = [NoJob EXCEPT !.at = "store", !.n = n]
  OBVIOUS
<1>1. n \in Nat /\ n \in DOMAIN sent'
  BY SentGrows DEF PayNounu, IInv, TypeOK
<1>2. job' = [job EXCEPT ![h] = j]
  BY DEF PayNounu, Begin
<1>3. lost' \subseteq 1 .. Len(sent) + 1
  BY DEF PayNounu, ghost, IInv, TypeOK
<1>4. j \in Job /\ j.at = "store" /\ j.n = n /\ j.row = 0
  BY <1>1, NoJobType DEF Job, NoJob, Steps
<1>5. Moves(h, j) /\ Harmless(h, j) /\ Sound(j)'
  BY <1>1, <1>2, <1>4 DEF Moves, Harmless, Sound, OnRow
<1>6. QED
  BY <1>3, <1>4, <1>5, SendInv DEF PayNounu, ghost, IInv, TypeOK

LEMMA AnswerLostInv ==
    ASSUME IInv, NEW h \in Handlers, AnswerLost(h)
    PROVE  IInv'
<1>1. lost' \subseteq 1 .. Len(sent) + 1 /\ faults' \in Nat
  BY DEF AnswerLost, IInv, TypeOK
<1>2. Finish(h)
  BY DEF AnswerLost, Begin, Finish
<1>3. QED
  BY <1>1, <1>2, Ends, SendInv, NoJobType DEF AnswerLost

\* A new row: nobody is checking it yet.
LEMMA CreateInv ==
    ASSUME IInv, NEW h \in Handlers, createNounuPayment(h)
    PROVE  IInv'
<1> DEFINE new == [ref |-> job[h].n, status |-> "Pending", told |-> 0]
           N == Len(rows) + 1
<1>1. job[h] \in Job /\ job[h].n \in DOMAIN sent /\ job[h].n \in Nat
  BY JobTyped DEF createNounuPayment, Sound, Job
<1>2. new \in Row /\ new.ref \in DOMAIN sent /\ new.status = "Pending" /\ new.told = 0
  BY <1>1 DEF Row, Statuses
<1>3. rows \in Seq(Row) /\ rows' = Append(rows, new)
  BY DEF createNounuPayment, IInv, TypeOK
<1> HIDE DEF new
<1>4. /\ rows' \in Seq(Row) /\ DOMAIN rows' = DOMAIN rows \cup {N} /\ N \notin DOMAIN rows
      /\ rows'[N] = new /\ \A r \in DOMAIN rows : rows'[r] = rows[r]
      /\ DOMAIN rows \subseteq DOMAIN rows' /\ N # 0
  BY <1>2, <1>3
<1> HIDE DEF N
<1>5. UNCHANGED <<sent, subs, ghost, moves, faults>>
  BY DEF createNounuPayment
<1>6. Grows
  BY <1>4, <1>5 DEF Grows, Backed
<1>7. Moves(h, NoJob) /\ Sound(NoJob)' /\ NoJob.row = 0
  BY Ends DEF createNounuPayment
<1>8. TypeOK'
  BY <1>4, <1>5, <1>6, <1>7, MoveTyped DEF IInv, TypeOK, ghost
<1>9. (\A r \in DOMAIN rows : RowSound(r))'
  BY <1>2, <1>4, <1>5 DEF IInv, RowSound, Backed
<1>10. (\A g \in Handlers : Sound(job[g]))'
  BY <1>6, <1>7, MoveSound
<1>11. ASSUME NEW r \in DOMAIN rows' \ crossed'
       PROVE  Single(r)'
  <2>1. \A g \in Handlers : job'[g] = job[g] \/ job'[g].row = 0
    BY <1>7 DEF Moves, IInv, TypeOK
  <2>2. \A g \in Handlers : job[g].row \in {0} \cup DOMAIN rows
    BY DEF IInv, TypeOK
  <2>3. CASE r = N
    <3>1. (Checking(r))' = {}
      BY <1>4, <2>1, <2>2, <2>3 DEF Checking
    <3>2. QED
      BY <1>2, <1>4, <2>3, <3>1 DEF Single
  <2>4. CASE r \in DOMAIN rows
    <3>1. Single(r) /\ rows'[r] = rows[r] /\ r # 0
      BY <1>3, <1>4, <1>5, <2>4 DEF IInv, ghost
    <3>2. \A g \in (Checking(r))' : g \in Checking(r) /\ job'[g] = job[g]
      BY <2>1, <3>1 DEF Checking
    <3>3. QED
      BY <3>1, <3>2 DEF Single
  <2>5. QED
    BY <1>4, <1>11, <2>3, <2>4
<1>12. QED
  BY <1>5, <1>8, <1>9, <1>10, <1>11 DEF IInv

-----------------------------------------------------------------------------
(* Checking a payout.                                                      *)

LEMMA CheckInv ==
    ASSUME IInv, NEW h \in Handlers, NEW r \in DOMAIN rows, NEW by \in Routes,
           Check(h, r, by), moves' \in Nat
    PROVE  IInv'
<1> PICK seen : seen = rows[r].status
  OBVIOUS
<1> PICK step : step = IF by = "fail" THEN "write"
                       ELSE IF by = "client" /\ seen = "Success" THEN "lookup" ELSE "ask"
  OBVIOUS
<1> PICK answer : answer = IF by = "fail" THEN "Failed" ELSE seen
  OBVIOUS
<1> PICK j : j = [NoJob EXCEPT !.at = step, !.by = by, !.row = r, !.seen = seen,
                               !.answer = answer]
  OBVIOUS
<1>1. /\ job[h].at = "idle" /\ job' = [job EXCEPT ![h] = j]
      /\ by = "fail" => seen = "Pending"
      /\ by = "webhook" => seen # "Success"
      /\ crossed' = IF Checking(r) = {} THEN crossed ELSE crossed \cup {r}
      /\ UNCHANGED <<table, lost, quiet, faults>>
  BY DEF Check, Begin
<1>2. rows[r] \in Row /\ r \in Nat /\ r # 0 /\ RowSound(r)
  BY DEF IInv, TypeOK
<1>3. seen \in Statuses /\ answer \in Statuses /\ step \in {"write", "lookup", "ask"}
  BY <1>2 DEF Row, Statuses
<1>4. /\ step = "ask" => by # "fail"
      /\ step = "write" => by = "fail" /\ answer = "Failed"
  OBVIOUS
<1>5. Backed(seen, rows[r].ref)
  BY <1>2 DEF RowSound
<1>6. /\ j \in Job /\ j.at = step /\ j.by = by /\ j.row = r /\ j.seen = seen
      /\ j.answer = answer
  BY <1>2, <1>3, NoJobType DEF Job, Steps, NoJob
<1>7. Moves(h, j)
  BY <1>1, <1>6 DEF Moves
<1>8. Sound(j)
  BY <1>1, <1>3, <1>4, <1>5, <1>6 DEF Sound, Backed, Follows, OnRow
<1>9. Grows
  BY <1>1 DEF Grows, Backed, table
<1>10. Sound(j)'
  BY <1>6, <1>8, <1>9, SoundStays
<1>11. TypeOK'
  <2>1. crossed' \subseteq DOMAIN rows
    BY <1>1 DEF IInv, TypeOK
  <2>2. job' \in [Handlers -> Job] /\ \A g \in Handlers : job'[g].row \in {0} \cup DOMAIN rows'
    BY <1>6, <1>7, <1>9, MoveTyped
  <2>3. QED
    BY <1>1, <2>1, <2>2 DEF IInv, TypeOK, table
<1>12. (\A q \in DOMAIN rows : RowSound(q))'
  BY <1>1 DEF IInv, RowSound, Backed, table
<1>13. (\A g \in Handlers : Sound(job[g]))'
  BY <1>7, <1>9, <1>10, MoveSound
<1>14. ASSUME NEW q \in DOMAIN rows \ crossed'
       PROVE  Single(q)'
  <2>1. q \notin crossed /\ Single(q) /\ q # 0 /\ rows' = rows
    BY <1>1 DEF IInv, TypeOK, table
  <2>2. job'[h] = j /\ \A g \in Handlers \ {h} : job'[g] = job[g]
    BY <1>7 DEF Moves, IInv, TypeOK
  <2>3. CASE q = r
    <3>1. Checking(r) = {}
      BY <1>1, <1>14, <2>3
    <3>2. (Checking(q))' \subseteq {h}
      BY <2>2, <2>3, <3>1 DEF Checking
    <3>3. /\ job'[h].at \in {"ask", "write"} => job'[h].seen = rows'[q].status
          /\ job'[h].at # "tell"
      BY <1>3, <1>6, <2>1, <2>2, <2>3
    <3>4. \A g \in (Checking(q))' : g = h
      BY <3>2
    <3>5. QED
      BY <2>1, <3>3, <3>4 DEF Single
  <2>4. CASE q # r
    <3>1. \A g \in (Checking(q))' : g \in Checking(q) /\ job'[g] = job[g]
      BY <1>6, <2>2, <2>4 DEF Checking
    <3>2. QED
      BY <2>1, <3>1 DEF Single
  <2>5. QED
    BY <2>3, <2>4
<1>15. QED
  BY <1>1, <1>11, <1>12, <1>13, <1>14 DEF IInv, table

LEMMA VerifyInv ==
    ASSUME IInv, NEW h \in Handlers, verifyPayment(h)
    PROVE  IInv'
<1> PICK r : r = job[h].row
  OBVIOUS
<1> PICK answer : answer = sent[rows[r].ref]
  OBVIOUS
<1> PICK j : j = [job[h] EXCEPT !.at = "write", !.answer = answer]
  OBVIOUS
<1>1. job[h] \in Job /\ Sound(job[h]) /\ job[h].at = "ask" /\ r \in DOMAIN rows
  BY JobTyped DEF verifyPayment, Sound, OnRow
<1>2. rows[r].ref \in DOMAIN sent /\ answer \in Statuses
  BY <1>1 DEF IInv, TypeOK, RowSound
<1>3. /\ job[h].by # "fail" /\ (job[h].by = "webhook" => job[h].seen # "Success")
      /\ Backed(job[h].seen, rows[r].ref)
  BY <1>1 DEF Sound
<1>4. Backed(answer, rows[r].ref)
  BY DEF Backed
<1>5. /\ job[h].seen = "Cancelled" => answer = "Cancelled"
      /\ job[h].seen = "Success" => answer \in {"Success", "Cancelled"}
  BY <1>3 DEF Backed
<1>6. job' = [job EXCEPT ![h] = j]
  BY DEF verifyPayment
<1>7. /\ j \in Job /\ j.at = "write" /\ j.answer = answer /\ j.row = r
      /\ j.by = job[h].by /\ j.seen = job[h].seen
  BY <1>1, <1>2 DEF Job, Steps
<1>8. UNCHANGED <<table, ghost, moves, faults>>
  BY DEF verifyPayment
<1>9. Sound(j)'
  <2>1. Follows(j)
    BY <1>3, <1>5, <1>7 DEF Follows
  <2>2. (Backed(j.answer, rows[j.row].ref))'
    BY <1>4, <1>7, <1>8 DEF Backed, table
  <2>3. QED
    BY <1>1, <1>7, <1>8, <2>1, <2>2 DEF Sound, table, Follows
<1>10. Moves(h, j) /\ Harmless(h, j)
  BY <1>1, <1>6, <1>7 DEF Moves, Harmless
<1>11. QED
  BY <1>1, <1>7, <1>8, <1>9, <1>10, PlainStep DEF table, ghost, IInv, TypeOK

\* What follows a write or a notification: the end, or a step with no answer.
LEMMA ContinueMoves ==
    ASSUME IInv, NEW h \in Handlers, job[h].row \in DOMAIN rows,
           NEW step \in {"idle", "tell", "lookup"}, Continue(h, step)
    PROVE  \E j \in Job : /\ Moves(h, j) /\ j.at = step
                          /\ j.row \in {0, job[h].row} /\ (j.at # "idle" => j.row = job[h].row)
<1> DEFINE j == [NoJob EXCEPT !.at = step, !.by = job[h].by, !.row = job[h].row]
<1>1. job[h].by \in Routes /\ job[h].row \in Nat
  BY JobTyped DEF Job
<1>2. j \in Job /\ j.at = step /\ j.row = job[h].row
  BY <1>1, NoJobType DEF Job, Steps, NoJob
<1>3. NoJob \in Job /\ NoJob.at = "idle" /\ NoJob.row = 0
  BY NoJobType DEF NoJob
<1>4. CASE step = "idle"
  BY <1>3, <1>4 DEF Continue, Finish, Moves
<1>5. CASE step # "idle"
  <2>1. job' = [job EXCEPT ![h] = j]
    BY <1>5 DEF Continue
  <2>2. QED
    BY <1>2, <2>1 DEF Moves
<1>6. QED
  BY <1>4, <1>5

\* A row changes its status or its notifications.
LEMMA RowChanges ==
    ASSUME IInv, NEW r \in DOMAIN rows, NEW x \in Row, x.ref = rows[r].ref,
           rows' = [rows EXCEPT ![r] = x], UNCHANGED sent
    PROVE  /\ rows' \in Seq(Row) /\ DOMAIN rows' = DOMAIN rows /\ rows'[r] = x
           /\ \A q \in DOMAIN rows \ {r} : rows'[q] = rows[q]
           /\ Grows
<1>1. /\ rows' \in Seq(Row) /\ DOMAIN rows' = DOMAIN rows /\ rows'[r] = x
      /\ \A q \in DOMAIN rows \ {r} : rows'[q] = rows[q]
  BY DEF IInv, TypeOK
<1>2. QED
  BY <1>1 DEF Grows, Backed

(***************************************************************************)
(* A check of row r goes on to step j, after writing x in the row.         *)
(***************************************************************************)
LEMMA RowStep ==
    ASSUME IInv, NEW h \in Handlers, NEW j \in Job, Moves(h, j),
           NEW r \in DOMAIN rows, job[h].row = r, NEW x \in Row, x.ref = rows[r].ref,
           rows' = [rows EXCEPT ![r] = x], Backed(x.status, x.ref),
           j.at \in {"idle", "tell", "lookup"}, j.row \in {0, r},
           j.at # "idle" => j.row = r,
           r \notin crossed =>
             /\ x.told = 0 \/ (x.told = 1 /\ x.status \in {"Success", "Cancelled"})
             /\ j.at = "tell" => x.told = 0 /\ x.status = "Success",
           quiet' \subseteq DOMAIN rows, UNCHANGED <<sent, subs, lost, crossed, moves, faults>>
    PROVE  IInv'
<1>1. /\ rows' \in Seq(Row) /\ DOMAIN rows' = DOMAIN rows /\ rows'[r] = x
      /\ \A q \in DOMAIN rows \ {r} : rows'[q] = rows[q]
      /\ Grows
  BY RowChanges
<1>2. TypeOK'
  BY <1>1, MoveTyped DEF IInv, TypeOK
<1>3. (\A q \in DOMAIN rows : RowSound(q))'
  <2>1. RowSound(r)'
    BY <1>1 DEF IInv, RowSound, Backed
  <2>2. \A q \in DOMAIN rows \ {r} : RowSound(q)'
    BY <1>1 DEF IInv, RowSound, Backed
  <2>3. QED
    BY <1>1, <2>1, <2>2
<1>4. Sound(j)'
  BY <1>1 DEF Sound, OnRow
<1>5. (\A g \in Handlers : Sound(job[g]))'
  BY <1>1, <1>4, MoveSound
<1>6. ASSUME NEW q \in DOMAIN rows \ crossed
      PROVE  Single(q)'
  <2>1. Single(q) /\ q # 0
    BY DEF IInv, TypeOK
  <2>2. job'[h] = j /\ \A g \in Handlers \ {h} : job'[g] = job[g]
    BY DEF Moves, IInv, TypeOK
  <2>3. CASE q = r
    <3>1. h \in Checking(q)
      BY <2>3 DEF Checking
    <3>2. \A g \in Checking(q) : g = h
      BY <2>1, <3>1 DEF Single
    <3>3. (Checking(q))' \subseteq {h}
      BY <2>2, <3>2 DEF Checking
    <3>4. QED
      BY <1>1, <1>6, <2>2, <2>3, <3>3 DEF Single
  <2>4. CASE q # r
    <3>1. \A g \in (Checking(q))' : g \in Checking(q) /\ job'[g] = job[g]
      BY <2>1, <2>2, <2>4 DEF Checking
    <3>2. rows'[q] = rows[q]
      BY <1>1, <2>4
    <3>3. QED
      BY <2>1, <3>1, <3>2 DEF Single
  <2>5. QED
    BY <2>3, <2>4
<1>7. QED
  BY <1>1, <1>2, <1>3, <1>5, <1>6 DEF IInv

(***************************************************************************)
(* A check that nobody crossed goes on to the notification only from a     *)
(* status that is not a success: the nounu has not been told yet.          *)
(***************************************************************************)
LEMMA UpdateInv ==
    ASSUME IInv, NEW h \in Handlers, updatePayment(h)
    PROVE  IInv'
<1> DEFINE old == job[h]
           r == old.row
           x == IF Writes(old) THEN [rows[r] EXCEPT !.status = old.answer] ELSE rows[r]
           step == NextStep(old)
<1>1. old \in Job /\ Sound(old) /\ old.at = "write" /\ r \in DOMAIN rows
  BY JobTyped DEF updatePayment, Sound, OnRow
<1>2. Backed(old.answer, rows[r].ref) /\ Follows(old)
  BY <1>1 DEF Sound
<1>3. rows[r] \in Row /\ old.answer \in Statuses /\ RowSound(r)
  BY <1>1 DEF IInv, TypeOK, Job
<1>4. /\ x \in Row /\ x.ref = rows[r].ref /\ x.told = rows[r].told
      /\ x.status = IF Writes(old) THEN old.answer ELSE rows[r].status
  BY <1>3 DEF Row
<1>5. rows' = [rows EXCEPT ![r] = x]
  <2>1. CASE Writes(old)
    BY <2>1 DEF updatePayment
  <2>2. CASE ~Writes(old)
    BY <1>1, <2>2 DEF updatePayment, IInv, TypeOK
  <2>3. QED
    BY <2>1, <2>2
<1>6. Backed(x.status, x.ref)
  BY <1>2, <1>3, <1>4 DEF RowSound
<1>7. step \in {"idle", "tell", "lookup"}
  BY DEF NextStep
<1>8. quiet' \subseteq DOMAIN rows
  BY <1>1 DEF updatePayment, IInv, TypeOK
<1>9. /\ Continue(h, step)
      /\ UNCHANGED <<sent, subs, lost, crossed, moves, faults>>
  BY DEF updatePayment
<1>10. r \notin crossed =>
         /\ x.told = 0 \/ (x.told = 1 /\ x.status \in {"Success", "Cancelled"})
         /\ step = "tell" => x.told = 0 /\ x.status = "Success"
  <2> SUFFICES ASSUME r \notin crossed
               PROVE  /\ x.told = 0 \/ (x.told = 1 /\ x.status \in {"Success", "Cancelled"})
                      /\ step = "tell" => x.told = 0 /\ x.status = "Success"
    OBVIOUS
  <2>1. Single(r) /\ h \in Checking(r)
    BY <1>1 DEF IInv, Checking
  <2>2. old.seen = rows[r].status
    BY <1>1, <2>1 DEF Single
  <2>3. rows[r].told = 0 \/ (rows[r].told = 1 /\ rows[r].status \in {"Success", "Cancelled"})
    BY <2>1 DEF Single
  <2>4. rows[r].status \in {"Success", "Cancelled"} => x.status \in {"Success", "Cancelled"}
    BY <1>2, <1>4, <2>2 DEF Follows
  <2>5. step = "tell" => old.answer = "Success" /\ old.seen \notin {"Success", "Cancelled"}
                         /\ Writes(old)
    BY <1>1, <1>2 DEF NextStep, Writes, Follows, Job, Routes
  <2>6. QED
    BY <1>4, <2>2, <2>3, <2>4, <2>5
<1> HIDE DEF x, step
<1>11. PICK j \in Job : /\ Moves(h, j) /\ j.at = step
                        /\ j.row \in {0, r} /\ (j.at # "idle" => j.row = r)
  BY <1>1, <1>7, <1>9, ContinueMoves
<1>12. QED
  BY <1>1, <1>4, <1>5, <1>6, <1>7, <1>8, <1>9, <1>10, <1>11, RowStep

LEMMA TellInv ==
    ASSUME IInv, NEW h \in Handlers, TellNounu(h)
    PROVE  IInv'
<1> DEFINE old == job[h]
           r == old.row
           x == [rows[r] EXCEPT !.told = @ + 1]
           step == IF old.by = "webhook" THEN "lookup" ELSE "idle"
<1>1. old \in Job /\ Sound(old) /\ old.at = "tell" /\ r \in DOMAIN rows
  BY JobTyped DEF TellNounu, Sound, OnRow
<1>2. rows[r] \in Row /\ RowSound(r)
  BY <1>1 DEF IInv, TypeOK
<1>3. /\ x \in Row /\ x.ref = rows[r].ref /\ x.told = rows[r].told + 1
      /\ x.status = rows[r].status
  BY <1>2 DEF Row
<1>4. rows' = [rows EXCEPT ![r] = x]
  BY DEF TellNounu
<1>5. Backed(x.status, x.ref)
  BY <1>2, <1>3 DEF RowSound
<1>6. step \in {"idle", "tell", "lookup"} /\ step # "tell"
  OBVIOUS
<1>7. /\ Continue(h, step) /\ quiet' \subseteq DOMAIN rows
      /\ UNCHANGED <<sent, subs, lost, crossed, moves, faults>>
  BY DEF TellNounu, ghost, IInv, TypeOK
<1>8. r \notin crossed => x.told = 1 /\ x.status = "Success"
  <2> SUFFICES ASSUME r \notin crossed
               PROVE  x.told = 1 /\ x.status = "Success"
    OBVIOUS
  <2>1. Single(r) /\ h \in Checking(r)
    BY <1>1 DEF IInv, Checking
  <2>2. QED
    BY <1>1, <1>3, <2>1 DEF Single
<1> HIDE DEF x, step
<1>9. PICK j \in Job : /\ Moves(h, j) /\ j.at = step
                       /\ j.row \in {0, r} /\ (j.at # "idle" => j.row = r)
  BY <1>1, <1>6, <1>7, ContinueMoves
<1>10. QED
  BY <1>1, <1>3, <1>4, <1>5, <1>6, <1>7, <1>8, <1>9, RowStep

LEMMA EnsureInv ==
    ASSUME IInv, NEW h \in Handlers, ensureSubscription(h)
    PROVE  IInv'
<1> PICK j : j = [job[h] EXCEPT !.at = "create", !.n = Len(subs)]
  OBVIOUS
<1>1. job[h] \in Job /\ Sound(job[h]) /\ job[h].at = "lookup" /\ job[h].row \in DOMAIN rows
  BY JobTyped DEF ensureSubscription, Sound, OnRow
<1>2. UNCHANGED <<table, ghost, moves, faults>>
  BY DEF ensureSubscription
<1>3. CASE subs # <<>>
  BY <1>2, <1>3, Ends, PlainStep DEF ensureSubscription, table, ghost, IInv, TypeOK
<1>4. CASE subs = <<>>
  <2>1. job' = [job EXCEPT ![h] = j] /\ Len(subs) = 0 /\ 0 \in Nat
    BY <1>4 DEF ensureSubscription
  <2>2. j \in Job /\ j.at = "create" /\ j.n = 0 /\ j.row = job[h].row
    BY <1>1, <2>1 DEF Job, Steps
  <2>3. Moves(h, j) /\ Harmless(h, j)
    BY <2>1, <2>2 DEF Moves, Harmless
  <2>4. Sound(j)'
    BY <1>1, <1>2, <2>2 DEF Sound, OnRow, table
  <2>5. QED
    BY <1>1, <1>2, <2>2, <2>3, <2>4, PlainStep DEF table, ghost, IInv, TypeOK
<1>5. QED
  BY <1>3, <1>4

LEMMA SubscribeInv ==
    ASSUME IInv, NEW h \in Handlers, createSubscription(h)
    PROVE  IInv'
<1> DEFINE new == [row |-> job[h].row, base |-> job[h].n]
<1>1. job[h] \in Job /\ job[h].n = 0 /\ job[h].row \in Nat
  BY JobTyped DEF createSubscription, Sound, Job
<1>2. new \in [row : Nat, base : Nat] /\ new.base = 0
  BY <1>1
<1>3. subs \in Seq([row : Nat, base : Nat]) /\ \A m \in DOMAIN subs : subs[m].base = 0
  BY DEF IInv, TypeOK
<1>4. subs' = Append(subs, new)
  BY DEF createSubscription
<1> HIDE DEF new
<1>5. subs' \in Seq([row : Nat, base : Nat]) /\ \A m \in DOMAIN subs' : subs'[m].base = 0
  BY <1>2, <1>3, <1>4
<1>6. QED
  BY <1>5, Ends, PlainStep DEF createSubscription, ghost, IInv, TypeOK

-----------------------------------------------------------------------------
(* The provider never goes back.                                           *)

LEMMA SettleInv ==
    ASSUME IInv, NEW k \in DOMAIN sent, NEW status \in Statuses, Settle(k, status)
    PROVE  IInv'
<1>1. /\ sent' \in Seq(Statuses) /\ DOMAIN sent' = DOMAIN sent /\ sent'[k] = status
      /\ \A i \in DOMAIN sent \ {k} : sent'[i] = sent[i]
  BY DEF Settle, IInv, TypeOK
<1>2. ASSUME NEW i \in DOMAIN sent, NEW s \in Statuses, Backed(s, i)
      PROVE  Backed(s, i)'
  BY <1>1, <1>2 DEF Backed, Settle
<1>3. UNCHANGED <<rows, subs, job, ghost, moves, faults>>
  BY DEF Settle
<1>4. Grows
  BY <1>1, <1>2, <1>3 DEF Grows
<1>5. TypeOK'
  BY <1>1, <1>3 DEF IInv, TypeOK, ghost
<1>6. ASSUME NEW r \in DOMAIN rows
      PROVE  RowSound(r)'
  <2>1. rows[r] \in Row /\ RowSound(r)
    BY DEF IInv, TypeOK
  <2>2. QED
    BY <1>1, <1>2, <1>3, <2>1 DEF RowSound, Row
<1>7. (\A g \in Handlers : Sound(job[g]))'
  BY <1>3, <1>4, SoundStays DEF IInv, TypeOK
<1>8. (\A r \in DOMAIN rows \ crossed : Single(r))'
  BY <1>3 DEF IInv, Single, Checking, ghost
<1>9. QED
  BY <1>3, <1>5, <1>6, <1>7, <1>8 DEF IInv

LEMMA FailInv ==
    ASSUME IInv, NEW h \in Handlers, Fail(h)
    PROVE  IInv'
<1>1. job[h] \in Job /\ Sound(job[h])
  BY JobTyped
<1>2. lost' \subseteq DOMAIN sent /\ quiet' \subseteq DOMAIN rows /\ faults' \in Nat
  BY <1>1 DEF Fail, Sound, OnRow, IInv, TypeOK
<1>3. QED
  BY <1>2, Ends, PlainStep DEF Fail, table, IInv, TypeOK

-----------------------------------------------------------------------------
LEMMA InitInv ==
    ASSUME Init
    PROVE  IInv
<1>1. \A h \in Handlers : job[h] = NoJob /\ job[h].at = "idle" /\ job[h].row = 0
  BY DEF Init, NoJob
<1>2. TypeOK
  <2>1. sent \in Seq(Statuses) /\ rows \in Seq(Row) /\ subs \in Seq([row : Nat, base : Nat])
    BY DEF Init
  <2>2. job \in [Handlers -> Job] /\ \A h \in Handlers : job[h].row \in {0} \cup DOMAIN rows
    BY <1>1, NoJobType DEF Init
  <2>3. QED
    BY <2>1, <2>2 DEF Init, TypeOK
<1>3. \A h \in Handlers : Sound(job[h])
  BY <1>1 DEF Sound, OnRow
<1>4. QED
  BY <1>2, <1>3 DEF Init, IInv

LEMMA StepInv ==
    ASSUME IInv, [Next]_vars
    PROVE  IInv'
<1>1. ASSUME NEW h \in Handlers, Arrive(h)
      PROVE  IInv'
  <2>1. CASE PayNounu(h)
    BY <2>1, PayNounuInv
  <2>2. ASSUME NEW r \in DOMAIN rows, moves' = moves + 1,
               \/ VerifyAdminPayment(h, r) \/ VerifyPayment(h, r)
               \/ HandleNotify(h, r) \/ FailAdminPayment(h, r)
        PROVE  IInv'
    <3>1. moves' \in Nat /\ {"admin", "client", "webhook", "fail"} \subseteq Routes
      BY <2>2 DEF IInv, TypeOK, Routes
    <3>2. QED
      BY <2>2, <3>1, CheckInv DEF VerifyAdminPayment, VerifyPayment, HandleNotify, FailAdminPayment
  <2>3. QED
    BY <1>1, <2>1, <2>2 DEF Arrive
<1>2. ASSUME NEW h \in Handlers, NEW r \in DOMAIN rows, VerifyAgain(h, r)
      PROVE  IInv'
  <2>1. moves' \in Nat /\ "admin" \in Routes
    BY <1>2 DEF VerifyAgain, IInv, TypeOK, Routes
  <2>2. QED
    BY <1>2, <2>1, CheckInv DEF VerifyAgain, VerifyNounuPayment
<1>3. ASSUME NEW h \in Handlers, Advance(h) \/ AnswerLost(h) \/ Fail(h)
      PROVE  IInv'
  BY <1>3, CreateInv, VerifyInv, UpdateInv, TellInv, EnsureInv, SubscribeInv,
     AnswerLostInv, FailInv DEF Advance
<1>4. CASE UNCHANGED vars
  <2>1. Grows
    BY <1>4 DEF vars, table, Grows, Backed
  <2>2. QED
    BY <1>4 DEF vars, table, ghost, IInv, TypeOK, RowSound, Sound, Single, Checking, Backed
<1>5. QED
  BY <1>1, <1>2, <1>3, <1>4, SettleInv DEF Next

\* Payouts, rows, subscriptions and requests are well typed.
THEOREM TypeCorrect == Spec => []TypeOK
<1>1. Init => IInv
  BY InitInv
<1>2. IInv /\ [Next]_vars => IInv'
  BY StepInv
<1>3. IInv => TypeOK
  BY DEF IInv
<1>4. QED
  BY <1>1, <1>2, <1>3, PTL DEF Spec

(***************************************************************************)
(* A payout that the server calls paid was paid, however many routes check *)
(* its row at once and however old the answers they write.                 *)
(***************************************************************************)
THEOREM PaidAreGenuine == Spec => []PaidIsGenuine
<1>1. Init => IInv
  BY InitInv
<1>2. IInv /\ [Next]_vars => IInv'
  BY StepInv
<1>3. IInv => PaidIsGenuine
  BY DEF IInv, RowSound, Backed, PaidIsGenuine
<1>4. QED
  BY <1>1, <1>2, <1>3, PTL DEF Spec

(***************************************************************************)
(* A nounu is told of a payout twice, or subscribed twice by payouts, only *)
(* by requests that crossed, for any number of them.                       *)
(***************************************************************************)
THEOREM DoublesAreRaces == Spec => []DoublesOnlyByRace
<1>1. Init => IInv
  BY InitInv
<1>2. IInv /\ [Next]_vars => IInv'
  BY StepInv
<1>3. IInv => ToldTwiceOnlyByRace
  BY DEF IInv, Single, ToldTwiceOnlyByRace
<1>4. IInv => TwoSubscriptionsOnlyByRace
  BY DEF IInv, TypeOK, TwoSubscriptionsOnlyByRace
<1>5. QED
  BY <1>1, <1>2, <1>3, <1>4, PTL DEF Spec, DoublesOnlyByRace

-----------------------------------------------------------------------------
(* Every payout is accounted for once: one more invariant, on top of the   *)
(* first.                                                                  *)

Stored(k) == {r \in DOMAIN rows : rows[r].ref = k}

Storing(k) == {h \in At({"store"}) : job[h].n = k}

\* The row, the request that will write it, or a failure: one of them.
Recorded(k) ==
    \/ (\E r : Stored(k) = {r}) /\ Storing(k) = {} /\ k \notin lost
    \/ (\E h : Storing(k) = {h}) /\ Stored(k) = {} /\ k \notin lost
    \/ k \in lost /\ Stored(k) = {} /\ Storing(k) = {}

AllRecorded == \A k \in DOMAIN sent : Recorded(k)

SameRefs ==
    DOMAIN rows' = DOMAIN rows /\ \A r \in DOMAIN rows : rows'[r].ref = rows[r].ref

\* A step that neither sends nor stores a payout.
Aside ==
    /\ UNCHANGED <<sent, lost>> /\ SameRefs
    /\ \E h \in Handlers :
         /\ job[h].at # "store" /\ job'[h].at # "store"
         /\ \A g \in Handlers : g # h => job'[g] = job[g]

LEMMA RecordedStays ==
    ASSUME AllRecorded, SameRefs, DOMAIN sent' = DOMAIN sent, lost' = lost,
           \A g \in Handlers : job[g].at = "store" \/ job'[g].at = "store" => job'[g] = job[g]
    PROVE  AllRecorded'
<1>1. ASSUME NEW k \in DOMAIN sent
      PROVE  Stored(k)' = Stored(k) /\ Storing(k)' = Storing(k)
  BY DEF Stored, Storing, SameRefs, At
<1>2. QED
  BY <1>1 DEF AllRecorded, Recorded

LEMMA AsideStep ==
    ASSUME AllRecorded, Aside
    PROVE  AllRecorded'
<1>1. PICK h \in Handlers :
         /\ job[h].at # "store" /\ job'[h].at # "store"
         /\ \A g \in Handlers : g # h => job'[g] = job[g]
  BY DEF Aside
<1>2. \A g \in Handlers : job[g].at = "store" \/ job'[g].at = "store" => job'[g] = job[g]
  BY <1>1
<1>3. QED
  BY <1>2, RecordedStays DEF Aside

LEMMA Moved ==
    ASSUME IInv, NEW h \in Handlers, NEW j, job' = [job EXCEPT ![h] = j]
    PROVE  job'[h] = j /\ \A g \in Handlers : g # h => job'[g] = job[g]
BY DEF IInv, TypeOK

LEMMA CheckAside ==
    ASSUME IInv, NEW h \in Handlers, NEW r \in DOMAIN rows, NEW by \in Routes, Check(h, r, by)
    PROVE  Aside
<1>1. PICK step : step = IF by = "fail" THEN "write"
                         ELSE IF by = "client" /\ rows[r].status = "Success" THEN "lookup"
                         ELSE "ask"
  OBVIOUS
<1>2. PICK answer : answer = IF by = "fail" THEN "Failed" ELSE rows[r].status
  OBVIOUS
<1>3. PICK j : j = [NoJob EXCEPT !.at = step, !.by = by, !.row = r,
                                 !.seen = rows[r].status, !.answer = answer]
  OBVIOUS
<1>4. job[h].at = "idle" /\ job' = [job EXCEPT ![h] = j]
  BY <1>1, <1>2, <1>3 DEF Check, Begin
<1>5. j.at = step
  BY <1>3 DEF NoJob
<1>6. UNCHANGED <<sent, rows, lost>>
  BY DEF Check, table
<1>7. QED
  BY <1>1, <1>4, <1>5, <1>6, Moved DEF Aside, SameRefs

\* A request that has a row goes on.
LEMMA GoesOnAside ==
    ASSUME IInv, NEW h \in Handlers,
           verifyPayment(h) \/ ensureSubscription(h) \/ createSubscription(h)
    PROVE  Aside
<1>1. job[h] \in Job /\ UNCHANGED <<sent, rows, lost>> /\ job[h].at # "store"
  BY JobTyped DEF verifyPayment, ensureSubscription, createSubscription, table, ghost
<1>2. \E j : job' = [job EXCEPT ![h] = j] /\ j.at \in {"write", "create", "idle"}
  <2>1. CASE verifyPayment(h)
    <3>1. PICK j : j = [job[h] EXCEPT !.at = "write", !.answer = sent[rows[job[h].row].ref]]
      OBVIOUS
    <3>2. job' = [job EXCEPT ![h] = j] /\ j.at = "write"
      BY <1>1, <2>1, <3>1 DEF verifyPayment, Job
    <3>3. QED
      BY <3>2
  <2>2. CASE job' = [job EXCEPT ![h] = NoJob]
    <3>1. NoJob.at = "idle"
      BY DEF NoJob
    <3>2. QED
      BY <2>2, <3>1
  <2>3. CASE ensureSubscription(h) /\ job' # [job EXCEPT ![h] = NoJob]
    <3>1. PICK j : j = [job[h] EXCEPT !.at = "create", !.n = Len(subs)]
      OBVIOUS
    <3>2. job' = [job EXCEPT ![h] = j] /\ j.at = "create"
      BY <1>1, <2>3, <3>1 DEF ensureSubscription, Finish, Job
    <3>3. QED
      BY <3>2
  <2>4. QED
    BY <2>1, <2>2, <2>3 DEF createSubscription, Finish
<1>3. QED
  BY <1>1, <1>2, Moved DEF Aside, SameRefs

\* A request writes in a row, and the row keeps its payout.
LEMMA WritesAside ==
    ASSUME IInv, NEW h \in Handlers, updatePayment(h) \/ TellNounu(h)
    PROVE  Aside
<1>1. job[h] \in Job /\ Sound(job[h]) /\ job[h].at \in {"write", "tell"}
  BY JobTyped DEF updatePayment, TellNounu
<1>2. job[h].row \in DOMAIN rows
  BY <1>1 DEF Sound, OnRow
<1>3. \E step \in {"idle", "tell", "lookup"} : Continue(h, step)
  BY DEF updatePayment, TellNounu, NextStep
<1>4. PICK j \in Job : Moves(h, j) /\ j.at \in {"idle", "tell", "lookup"}
  BY <1>2, <1>3, ContinueMoves
<1>5. PICK r \in DOMAIN rows : r = job[h].row
  BY <1>2
<1>6. rows[r] \in Row /\ rows \in Seq(Row)
  BY DEF IInv, TypeOK
<1>7. SameRefs
  <2>1. CASE rows' = rows
    BY <2>1 DEF SameRefs
  <2>2. CASE rows' # rows
    <3>1. \E y : rows' = [rows EXCEPT ![r] = y] /\ y.ref = rows[r].ref
      <4>1. CASE updatePayment(h)
        <5>1. PICK y : y = [rows[r] EXCEPT !.status = job[h].answer]
          OBVIOUS
        <5>2. rows' = [rows EXCEPT ![r] = y] /\ y.ref = rows[r].ref
          BY <1>5, <1>6, <2>2, <4>1, <5>1 DEF updatePayment, Row
        <5>3. QED
          BY <5>2
      <4>2. CASE TellNounu(h)
        <5>1. PICK y : y = [rows[r] EXCEPT !.told = @ + 1]
          OBVIOUS
        <5>2. rows' = [rows EXCEPT ![r] = y] /\ y.ref = rows[r].ref
          BY <1>5, <1>6, <4>2, <5>1 DEF TellNounu, Row
        <5>3. QED
          BY <5>2
      <4>3. QED
        BY <4>1, <4>2
    <3>2. QED
      BY <1>6, <3>1 DEF SameRefs
  <2>3. QED
    BY <2>1, <2>2
<1>8. UNCHANGED <<sent, lost>>
  BY DEF updatePayment, TellNounu, ghost
<1>9. QED
  BY <1>1, <1>4, <1>7, <1>8, Moved DEF Aside, Moves

\* A new payout is held by the request that asked for it, or lost.
LEMMA SendOutlay ==
    ASSUME IInv, AllRecorded, NEW h \in Handlers, PayNounu(h) \/ AnswerLost(h)
    PROVE  AllRecorded'
<1>1. PICK n : n = Len(sent) + 1
  OBVIOUS
<1>2. sent' = Append(sent, "Pending") /\ UNCHANGED rows /\ job[h].at = "idle"
  BY DEF PayNounu, AnswerLost, Begin
<1>3. /\ DOMAIN sent' = DOMAIN sent \cup {n} /\ n \notin DOMAIN sent
      /\ sent \in Seq(Statuses)
  BY <1>1, <1>2, SentGrows DEF IInv, TypeOK
<1>4. \/ job'[h].at = "store" /\ job'[h].n = n /\ lost' = lost
      \/ job'[h].at = "idle" /\ lost' = lost \cup {n}
  <2>1. CASE PayNounu(h)
    <3>1. PICK j : j = [NoJob EXCEPT !.at = "store", !.n = n]
      OBVIOUS
    <3>2. job' = [job EXCEPT ![h] = j] /\ lost' = lost
      BY <1>1, <2>1, <3>1 DEF PayNounu, Begin, ghost
    <3>3. j.at = "store" /\ j.n = n
      BY <3>1 DEF NoJob
    <3>4. QED
      BY <3>2, <3>3, Moved
  <2>2. CASE AnswerLost(h)
    <3>1. job' = [job EXCEPT ![h] = NoJob] /\ lost' = lost \cup {n}
      BY <1>1, <2>2 DEF AnswerLost, Begin
    <3>2. NoJob.at = "idle"
      BY DEF NoJob
    <3>3. QED
      BY <3>1, <3>2, Moved
  <2>3. QED
    BY <2>1, <2>2
<1>5. \A g \in Handlers : g # h => job'[g] = job[g]
  <2>1. \E j : job' = [job EXCEPT ![h] = j]
    BY DEF PayNounu, AnswerLost, Begin
  <2>2. QED
    BY <2>1, Moved
<1>6. Stored(n) = {} /\ Storing(n) = {} /\ n \notin lost
  <2>1. \A r \in DOMAIN rows : rows[r].ref \in DOMAIN sent
    BY DEF IInv, RowSound
  <2>2. \A g \in Handlers : job[g].at = "store" => job[g].n \in DOMAIN sent
    BY DEF IInv, Sound
  <2>3. lost \subseteq DOMAIN sent
    BY DEF IInv, TypeOK
  <2>4. QED
    BY <1>3, <2>1, <2>2, <2>3 DEF Stored, Storing, At
<1>7. ASSUME NEW k \in DOMAIN sent
      PROVE  Recorded(k)'
  <2>1. k # n
    BY <1>3
  <2>2. Stored(k)' = Stored(k) /\ (k \in lost' <=> k \in lost)
    BY <1>2, <1>4, <2>1 DEF Stored
  <2>3. Storing(k)' = Storing(k)
    BY <1>2, <1>4, <1>5, <2>1 DEF Storing, At
  <2>4. QED
    BY <2>2, <2>3 DEF AllRecorded, Recorded
<1>8. Recorded(n)'
  <2>1. Stored(n)' = {}
    BY <1>2, <1>6 DEF Stored
  <2>2. CASE job'[h].at = "store" /\ job'[h].n = n /\ lost' = lost
    <3>1. Storing(n)' = {h}
      BY <1>5, <1>6, <2>2 DEF Storing, At
    <3>2. QED
      BY <1>6, <2>1, <2>2, <3>1 DEF Recorded
  <2>3. CASE job'[h].at = "idle" /\ lost' = lost \cup {n}
    <3>1. Storing(n)' = {}
      BY <1>5, <1>6, <2>3 DEF Storing, At
    <3>2. QED
      BY <2>1, <2>3, <3>1 DEF Recorded
  <2>4. QED
    BY <1>4, <2>2, <2>3
<1>9. QED
  BY <1>3, <1>7, <1>8 DEF AllRecorded

\* A payout passes from its request to its row.
LEMMA CreateOutlay ==
    ASSUME IInv, AllRecorded, NEW h \in Handlers, createNounuPayment(h)
    PROVE  AllRecorded'
<1>1. PICK n : n = job[h].n
  OBVIOUS
<1>2. PICK new : new = [ref |-> n, status |-> "Pending", told |-> 0]
  OBVIOUS
<1>3. PICK m : m = Len(rows) + 1
  OBVIOUS
<1>4. /\ job[h].at = "store" /\ rows' = Append(rows, new) /\ job' = [job EXCEPT ![h] = NoJob]
      /\ UNCHANGED <<sent, lost>> /\ NoJob.at = "idle"
  BY <1>1, <1>2 DEF createNounuPayment, Finish, ghost, NoJob
<1>5. /\ job'[h].at = "idle" /\ \A g \in Handlers : g # h => job'[g] = job[g]
      /\ n \in DOMAIN sent
  BY <1>1, <1>4, Moved, JobTyped DEF Sound
<1>6. /\ DOMAIN rows' = DOMAIN rows \cup {m} /\ m \notin DOMAIN rows /\ rows'[m] = new
      /\ \A r \in DOMAIN rows : rows'[r] = rows[r]
  BY <1>3, <1>4 DEF IInv, TypeOK
<1>7. h \in Storing(n)
  BY <1>1, <1>4 DEF Storing, At
<1>8. Storing(n) = {h} /\ Stored(n) = {} /\ n \notin lost
  BY <1>5, <1>7 DEF AllRecorded, Recorded
<1>9. Recorded(n)'
  <2>1. Stored(n)' = {m}
    BY <1>2, <1>6, <1>8 DEF Stored
  <2>2. Storing(n)' = {}
    BY <1>5, <1>8 DEF Storing, At
  <2>3. QED
    BY <1>4, <1>8, <2>1, <2>2 DEF Recorded
<1>10. ASSUME NEW k \in DOMAIN sent, k # n
       PROVE  Recorded(k)'
  <2>1. Stored(k)' = Stored(k)
    BY <1>2, <1>6, <1>10 DEF Stored
  <2>2. Storing(k)' = Storing(k)
    BY <1>1, <1>4, <1>5, <1>10 DEF Storing, At
  <2>3. QED
    BY <1>4, <2>1, <2>2 DEF AllRecorded, Recorded
<1>11. QED
  BY <1>4, <1>9, <1>10 DEF AllRecorded

LEMMA SettleOutlay ==
    ASSUME IInv, AllRecorded, NEW k \in DOMAIN sent, NEW status \in Statuses,
           Settle(k, status)
    PROVE  AllRecorded'
<1>1. /\ DOMAIN sent' = DOMAIN sent /\ sent'[k] = status
      /\ \A i \in DOMAIN sent \ {k} : sent'[i] = sent[i]
  BY DEF Settle, IInv, TypeOK
<1>2. UNCHANGED <<rows, job, lost>>
  BY DEF Settle, ghost
<1>3. SameRefs
  BY <1>2 DEF SameRefs
<1>4. QED
  BY <1>1, <1>2, <1>3, RecordedStays

\* A request that fails with a payout in hand loses it.
LEMMA FailOutlay ==
    ASSUME IInv, AllRecorded, NEW h \in Handlers, Fail(h)
    PROVE  AllRecorded'
<1>1. PICK n : n = job[h].n
  OBVIOUS
<1>2. /\ job' = [job EXCEPT ![h] = NoJob] /\ UNCHANGED <<sent, rows>>
      /\ NoJob.at = "idle"
  BY DEF Fail, Finish, NoJob, table
<1>3. job'[h].at = "idle" /\ \A g \in Handlers : g # h => job'[g] = job[g]
  BY <1>2, Moved
<1>4. lost' = IF job[h].at = "store" THEN lost \cup {n} ELSE lost
  BY <1>1 DEF Fail
<1>5. ASSUME NEW k \in DOMAIN sent
      PROVE  Recorded(k)'
  <2>1. Stored(k)' = Stored(k) /\ Recorded(k)
    BY <1>2 DEF Stored, AllRecorded
  <2>2. CASE job[h].at = "store" /\ k = n
    <3>1. h \in Storing(k)
      BY <1>1, <2>2 DEF Storing, At
    <3>2. Storing(k) = {h} /\ Stored(k) = {}
      BY <2>1, <3>1 DEF Recorded
    <3>3. Storing(k)' = {}
      BY <1>3, <3>2 DEF Storing, At
    <3>4. QED
      BY <1>4, <2>1, <2>2, <3>2, <3>3 DEF Recorded
  <2>3. CASE ~(job[h].at = "store" /\ k = n)
    <3>1. Storing(k)' = Storing(k)
      BY <1>1, <1>3, <2>3 DEF Storing, At
    <3>2. k \in lost' <=> k \in lost
      BY <1>4, <2>3
    <3>3. QED
      BY <2>1, <3>1, <3>2 DEF Recorded
  <2>4. QED
    BY <2>2, <2>3
<1>6. QED
  BY <1>2, <1>5 DEF AllRecorded

LEMMA OutlayInit ==
    ASSUME Init
    PROVE  AllRecorded
<1>1. sent = <<>>
  BY DEF Init
<1>2. QED
  BY <1>1 DEF AllRecorded

LEMMA OutlayStep ==
    ASSUME IInv, AllRecorded, [Next]_vars
    PROVE  AllRecorded'
<1>1. ASSUME NEW h \in Handlers, NEW r \in DOMAIN rows,
             \/ VerifyAdminPayment(h, r) \/ VerifyPayment(h, r) \/ HandleNotify(h, r)
             \/ FailAdminPayment(h, r) \/ VerifyAgain(h, r)
      PROVE  AllRecorded'
  <2>1. PICK by \in Routes : Check(h, r, by)
    BY <1>1 DEF VerifyAdminPayment, VerifyPayment, HandleNotify, FailAdminPayment, VerifyAgain,
                VerifyNounuPayment, Routes
  <2>2. QED
    BY <2>1, CheckAside, AsideStep
<1>2. ASSUME NEW h \in Handlers, Advance(h) \/ AnswerLost(h) \/ Fail(h) \/ PayNounu(h)
      PROVE  AllRecorded'
  <2>1. CASE \/ verifyPayment(h) \/ ensureSubscription(h) \/ createSubscription(h)
             \/ updatePayment(h) \/ TellNounu(h)
    BY <2>1, GoesOnAside, WritesAside, AsideStep
  <2>2. CASE \/ PayNounu(h) \/ AnswerLost(h) \/ createNounuPayment(h) \/ Fail(h)
    BY <2>2, SendOutlay, CreateOutlay, FailOutlay
  <2>3. QED
    BY <1>2, <2>1, <2>2 DEF Advance
<1>3. CASE UNCHANGED vars
  <2>1. UNCHANGED <<sent, rows, job, lost>>
    BY <1>3 DEF vars, table, ghost
  <2>2. SameRefs
    BY <2>1 DEF SameRefs
  <2>3. QED
    BY <2>1, <2>2, RecordedStays
<1>4. QED
  BY <1>1, <1>2, <1>3, SettleOutlay DEF Next, Arrive

(***************************************************************************)
(* Every payout at the provider has one row, or a request about to store   *)
(* it, or was lost by one that failed in between (admin.usecases.ts:923).  *)
(***************************************************************************)
THEOREM PayoutsHaveRows == Spec => []PayoutsAreRecorded
<1>1. Init => IInv /\ AllRecorded
  BY InitInv, OutlayInit
<1>2. (IInv /\ AllRecorded) /\ [Next]_vars => (IInv /\ AllRecorded)'
  BY StepInv, OutlayStep
<1>3. AllRecorded => PayoutsAreRecorded
  <2> SUFFICES ASSUME AllRecorded, NEW k \in DOMAIN sent
               PROVE  Cardinality(Stored(k)) + Cardinality(Storing(k))
                      + (IF k \in lost THEN 1 ELSE 0) = 1
    BY DEF PayoutsAreRecorded, Stored, Storing
  <2>1. Cardinality({}) = 0 /\ \A x : Cardinality({x}) = 1
    BY FS_EmptySet, FS_Singleton
  <2>2. Recorded(k)
    BY DEF AllRecorded
  <2>3. CASE (\E r : Stored(k) = {r}) /\ Storing(k) = {} /\ k \notin lost
    <3>1. Cardinality(Stored(k)) = 1
      BY <2>1, <2>3
    <3>2. Cardinality(Storing(k)) = 0
      BY <2>1, <2>3
    <3>3. QED
      BY <2>3, <3>1, <3>2
  <2>4. CASE (\E h : Storing(k) = {h}) /\ Stored(k) = {} /\ k \notin lost
    <3>1. Cardinality(Storing(k)) = 1
      BY <2>1, <2>4
    <3>2. Cardinality(Stored(k)) = 0
      BY <2>1, <2>4
    <3>3. QED
      BY <2>4, <3>1, <3>2
  <2>5. CASE k \in lost /\ Stored(k) = {} /\ Storing(k) = {}
    BY <2>1, <2>5
  <2>6. QED
    BY <2>2, <2>3, <2>4, <2>5 DEF Recorded
<1>4. QED
  BY <1>1, <1>2, <1>3, PTL DEF Spec

(***************************************************************************)
(* The nounu's summary never calls paid more payouts than the provider has *)
(* executed: what it counts are rows of different payouts, each of them    *)
(* executed (admin.usecases.ts:744).                                       *)
(***************************************************************************)
THEOREM SummaryCountsPayouts == Spec => []SummaryIsGenuine
<1>1. Init => IInv /\ AllRecorded
  BY InitInv, OutlayInit
<1>2. (IInv /\ AllRecorded) /\ [Next]_vars => (IInv /\ AllRecorded)'
  BY StepInv, OutlayStep
<1>3. IInv /\ AllRecorded => SummaryIsGenuine
  <2> DEFINE Paid == {r \in DOMAIN rows : rows[r].status = "Success"}
             Executed == {k \in DOMAIN sent : sent[k] \in {"Success", "Cancelled"}}
             f == [r \in Paid |-> rows[r].ref]
  <2> SUFFICES ASSUME IInv, AllRecorded
               PROVE  Cardinality(Paid) <= Cardinality(Executed)
    BY DEF SummaryIsGenuine, totalPaid
  <2>1. IsFiniteSet(1 .. Len(sent)) /\ Executed \in SUBSET (1 .. Len(sent))
    BY FS_Interval DEF IInv, TypeOK
  <2>2. IsFiniteSet(Executed)
    BY <2>1, FS_Subset
  <2>3. \A r \in Paid : rows[r].ref \in Executed
    BY DEF IInv, RowSound, Backed
  <2>4. ASSUME NEW q \in Paid, NEW r \in Paid, rows[q].ref = rows[r].ref
        PROVE  q = r
    <3>1. PICK k : k = rows[r].ref
      OBVIOUS
    <3>2. q \in Stored(k) /\ r \in Stored(k) /\ k \in DOMAIN sent
      BY <2>3, <2>4, <3>1 DEF Stored
    <3>3. \E x : Stored(k) = {x}
      BY <3>2 DEF AllRecorded, Recorded
    <3>4. QED
      BY <3>2, <3>3
  <2>5. f \in Injection(Paid, Executed)
    BY <2>3, <2>4 DEF Injection, IsInjective
  <2> HIDE DEF Paid, Executed, f
  <2>6. QED
    BY <2>2, <2>5, FS_Injection
<1>4. QED
  BY <1>1, <1>2, <1>3, PTL DEF Spec

-----------------------------------------------------------------------------
(* The book of the payouts: a third invariant, and each step of a request  *)
(* as a step of PayoutBook or as none.                                     *)

\* What a request is about to bring the nounu, the payout of its row was
\* executed for.
Due == \A h \in Handlers :
         job[h].at \in {"tell", "lookup", "create"}
           => job[h].row \in DOMAIN rows /\ Backed("Success", rows[job[h].row].ref)

Gifts == [m \in DOMAIN subs |-> subs[m].row]

LEMMA BookIs ==
    /\ Book!vars = <<sent, rows, Gifts>>
    /\ Book!vars' = <<sent', rows', Gifts'>>
BY DEF Book!vars, Gifts

\* The steps of the book.
Step == Due' /\ (UNCHANGED Book!vars \/ Book!Next)

\* The provider's history as the book tells it.
LEMMA HadIs ==
    ASSUME NEW k, NEW s \in Statuses \ {"Failed"}, Backed(s, k)
    PROVE  /\ s \in Book!Had(k)
           /\ s = "Success" => Book!Executed(k)
BY DEF Backed, Statuses, Book!Had, Book!Executed

LEMMA DueStays ==
    ASSUME IInv, Due, Grows, NEW h \in Handlers,
           \A g \in Handlers \ {h} : job'[g].at = job[g].at /\ job'[g].row = job[g].row,
           job'[h].at \in {"tell", "lookup", "create"}
             => job'[h].row \in DOMAIN rows /\ Backed("Success", rows[job'[h].row].ref)
    PROVE  Due'
<1> SUFFICES ASSUME NEW g \in Handlers, job'[g].at \in {"tell", "lookup", "create"}
             PROVE  (job[g].row \in DOMAIN rows /\ Backed("Success", rows[job[g].row].ref))'
  BY DEF Due
<1>1. PICK r : r = job'[g].row
  OBVIOUS
<1>2. r \in DOMAIN rows /\ Backed("Success", rows[r].ref)
  BY <1>1 DEF Due
<1>3. rows[r].ref \in DOMAIN sent /\ "Success" \in Statuses
  BY <1>2 DEF IInv, RowSound, Statuses
<1>4. Backed("Success", rows[r].ref)' /\ r \in DOMAIN rows'
  BY <1>2, <1>3 DEF Grows
<1>5. QED
  BY <1>1, <1>4

\* Requests that touch neither payouts, rows nor subscriptions.
LEMMA AloneStep ==
    ASSUME IInv, Due, NEW h \in Handlers, NEW j, job' = [job EXCEPT ![h] = j],
           j.at \in {"tell", "lookup", "create"}
             => j.row \in DOMAIN rows /\ Backed("Success", rows[j.row].ref),
           UNCHANGED <<sent, rows, subs>>
    PROVE  Step
<1>1. job'[h] = j /\ \A g \in Handlers \ {h} : job'[g] = job[g]
  BY DEF IInv, TypeOK
<1>2. Grows
  BY DEF Grows, Backed
<1>3. Due'
  BY <1>1, <1>2, DueStays
<1>4. Gifts' = Gifts
  BY DEF Gifts
<1> QED
  BY <1>3, <1>4, BookIs DEF Step

LEMMA CheckStep ==
    ASSUME IInv, Due, NEW h \in Handlers, NEW r \in DOMAIN rows, NEW by \in Routes,
           Check(h, r, by)
    PROVE  Step
<1>1. PICK step : step = IF by = "fail" THEN "write"
                         ELSE IF by = "client" /\ rows[r].status = "Success" THEN "lookup"
                         ELSE "ask"
  OBVIOUS
<1>2. PICK answer : answer = IF by = "fail" THEN "Failed" ELSE rows[r].status
  OBVIOUS
<1>3. PICK j : j = [NoJob EXCEPT !.at = step, !.by = by, !.row = r,
                                 !.seen = rows[r].status, !.answer = answer]
  OBVIOUS
<1>4. job' = [job EXCEPT ![h] = j]
  BY <1>1, <1>2, <1>3 DEF Check, Begin
<1>5. j.at = step /\ j.row = r
  BY <1>3 DEF NoJob
<1>6. step = "lookup" => Backed("Success", rows[r].ref)
  BY <1>1 DEF IInv, RowSound
<1>7. UNCHANGED <<sent, rows, subs>>
  BY DEF Check, table
<1> QED
  BY <1>1, <1>4, <1>5, <1>6, <1>7, AloneStep

LEMMA QuietSteps ==
    ASSUME IInv, Due, NEW h \in Handlers,
           verifyPayment(h) \/ ensureSubscription(h) \/ Fail(h)
    PROVE  Step
<1>1. job[h] \in Job /\ UNCHANGED <<sent, rows, subs>>
  BY JobTyped DEF verifyPayment, ensureSubscription, Fail, table
<1>2. NoJob.at = "idle" /\ NoJob \in Job
  BY NoJobType DEF NoJob
<1>3. CASE verifyPayment(h)
  <2>1. PICK j : j = [job[h] EXCEPT !.at = "write", !.answer = sent[rows[job[h].row].ref]]
    OBVIOUS
  <2>2. job' = [job EXCEPT ![h] = j] /\ j.at = "write"
    BY <1>1, <1>3, <2>1 DEF verifyPayment, Job
  <2> QED
    BY <1>1, <2>2, AloneStep
<1>4. CASE job' = [job EXCEPT ![h] = NoJob]
  BY <1>1, <1>2, <1>4, AloneStep
<1>5. CASE ensureSubscription(h) /\ job' # [job EXCEPT ![h] = NoJob]
  <2>1. PICK j : j = [job[h] EXCEPT !.at = "create", !.n = Len(subs)]
    OBVIOUS
  <2>2. job' = [job EXCEPT ![h] = j] /\ j.row = job[h].row /\ job[h].at = "lookup"
    BY <1>1, <1>5, <2>1 DEF ensureSubscription, Finish, Job
  <2>3. job[h].row \in DOMAIN rows /\ Backed("Success", rows[job[h].row].ref)
    BY <2>2 DEF Due
  <2> QED
    BY <1>1, <2>2, <2>3, AloneStep
<1> QED
  BY <1>3, <1>4, <1>5 DEF Fail, Finish

\* A payout leaves, and its request may fail before the row.
LEMMA SendStep ==
    ASSUME IInv, Due, NEW h \in Handlers, PayNounu(h) \/ AnswerLost(h)
    PROVE  Step
<1>1. sent' = Append(sent, "Pending") /\ UNCHANGED <<rows, subs>>
  BY DEF PayNounu, AnswerLost
<1>2. Grows
  BY <1>1, SentGrows
<1>3. \E j : job' = [job EXCEPT ![h] = j] /\ j.at \in {"store", "idle"}
  <2>1. CASE PayNounu(h)
    <3>1. PICK j : j = [NoJob EXCEPT !.at = "store", !.n = Len(sent) + 1]
      OBVIOUS
    <3>2. job' = [job EXCEPT ![h] = j] /\ j.at = "store"
      BY <2>1, <3>1 DEF PayNounu, Begin, NoJob
    <3> QED
      BY <3>2
  <2>2. CASE AnswerLost(h)
    <3>1. NoJob.at = "idle"
      BY DEF NoJob
    <3> QED
      BY <2>2, <3>1 DEF AnswerLost, Begin
  <2> QED
    BY <2>1, <2>2
<1>4. job'[h].at \in {"store", "idle"} /\ \A g \in Handlers \ {h} : job'[g] = job[g]
  BY <1>3, Moved
<1>5. Due'
  BY <1>2, <1>4, DueStays
<1>6. Gifts' = Gifts
  BY <1>1 DEF Gifts
<1>7. Book!Send
  BY <1>1, <1>6, Zenon DEF Book!Send, Gifts
<1> QED
  BY <1>5, <1>7 DEF Step, Book!Next

\* A payout held by its request has no row yet.
LEMMA RecordStep ==
    ASSUME IInv, AllRecorded, Due, NEW h \in Handlers, createNounuPayment(h)
    PROVE  Step
<1>1. PICK n : n = job[h].n
  OBVIOUS
<1>2. PICK new : new = [ref |-> n, status |-> "Pending", told |-> 0]
  OBVIOUS
<1>3. /\ job[h].at = "store" /\ rows' = Append(rows, new) /\ job' = [job EXCEPT ![h] = NoJob]
      /\ UNCHANGED <<sent, subs>> /\ NoJob.at = "idle"
  BY <1>1, <1>2 DEF createNounuPayment, Finish, NoJob
<1>4. n \in DOMAIN sent
  BY <1>1, <1>3, JobTyped DEF Sound
<1>5. h \in Storing(n)
  BY <1>1, <1>3 DEF Storing, At
<1>6. Stored(n) = {}
  BY <1>4, <1>5 DEF AllRecorded, Recorded
<1>7. \A r \in DOMAIN rows : rows[r].ref # n
  BY <1>6 DEF Stored
<1>8. /\ DOMAIN rows \subseteq DOMAIN rows'
      /\ \A r \in DOMAIN rows : rows'[r] = rows[r]
  BY <1>3 DEF IInv, TypeOK
<1>9. Grows
  BY <1>3, <1>8 DEF Grows, Backed
<1>10. job'[h].at = "idle" /\ \A g \in Handlers \ {h} : job'[g] = job[g]
  BY <1>3, Moved
<1>11. Due'
  BY <1>9, <1>10, DueStays
<1>12. Gifts' = Gifts
  BY <1>3 DEF Gifts
<1>13. Book!Record(n)
  BY <1>2, <1>3, <1>7, <1>12, Zenon DEF Book!Record, Gifts
<1> QED
  BY <1>4, <1>11, <1>13 DEF Step, Book!Next

LEMMA SettleStep ==
    ASSUME IInv, Due, NEW k \in DOMAIN sent, NEW status \in Statuses, Settle(k, status)
    PROVE  Step
<1>1. /\ DOMAIN sent' = DOMAIN sent /\ sent'[k] = status
      /\ \A i \in DOMAIN sent \ {k} : sent'[i] = sent[i]
  BY DEF Settle, IInv, TypeOK
<1>2. ASSUME NEW i \in DOMAIN sent, NEW s \in Statuses, Backed(s, i)
      PROVE  Backed(s, i)'
  BY <1>1, <1>2 DEF Backed, Settle
<1>3. UNCHANGED <<rows, subs, job>>
  BY DEF Settle
<1>4. Grows
  BY <1>1, <1>2, <1>3 DEF Grows
<1>5. Due'
  <2>1. ASSUME NEW h \in Handlers
        PROVE  job'[h] = job[h]
    BY <1>3
  <2>2. CASE Handlers = {}
    BY <2>2 DEF Due
  <2>3. CASE Handlers # {}
    <3>1. PICK h \in Handlers : TRUE
      BY <2>3
    <3> QED
      BY <1>4, <2>1, <3>1, DueStays DEF Due
  <2> QED
    BY <2>2, <2>3
<1>6. Gifts' = Gifts
  BY <1>3 DEF Gifts
<1>7. Book!Settle(k, status)
  BY <1>3, <1>6, Zenon DEF Settle, Book!Settle, Gifts
<1>8. Statuses = Book!Statuses
  BY Zenon DEF Statuses, Book!Statuses
<1> QED
  BY <1>5, <1>7, <1>8 DEF Step, Book!Next

\* A request writes in a row and goes on.
LEMMA RowWritten ==
    ASSUME IInv, Due, NEW h \in Handlers, NEW r \in DOMAIN rows, job[h].row = r,
           NEW x \in Row, x.ref = rows[r].ref,
           rows' = [rows EXCEPT ![r] = x], UNCHANGED <<sent, subs>>,
           NEW step \in {"idle", "tell", "lookup"}, Continue(h, step),
           step # "idle" => Backed("Success", x.ref)
    PROVE  Due' /\ Gifts' = Gifts
<1>1. Grows
  BY RowChanges
<1>2. PICK j \in Job : /\ Moves(h, j) /\ j.at = step
                       /\ j.row \in {0, job[h].row} /\ (j.at # "idle" => j.row = job[h].row)
  BY ContinueMoves
<1>3. job'[h] = j /\ \A g \in Handlers \ {h} : job'[g] = job[g]
  BY <1>2, Moved DEF Moves
<1>4. Due'
  BY <1>1, <1>2, <1>3, DueStays
<1> QED
  BY <1>4 DEF Gifts

LEMMA WriteStep ==
    ASSUME IInv, Due, NEW h \in Handlers, updatePayment(h)
    PROVE  Step
<1>1. PICK r, answer : r = job[h].row /\ answer = job[h].answer
  OBVIOUS
<1>2. /\ job[h] \in Job /\ job[h].at = "write" /\ r \in DOMAIN rows /\ answer \in Statuses
      /\ Backed(answer, rows[r].ref)
  BY <1>1, JobTyped DEF updatePayment, Sound, OnRow, Job
<1>3. rows[r] \in Row /\ rows \in Seq(Row)
  BY <1>2 DEF IInv, TypeOK
<1>4. PICK step : step = NextStep(job[h])
  OBVIOUS
<1>5. Continue(h, step) /\ UNCHANGED <<sent, subs>>
  BY <1>4 DEF updatePayment
<1>6. step \in {"idle", "tell", "lookup"} /\ (step # "idle" => answer = "Success")
  BY <1>1, <1>4 DEF NextStep
<1>7. PICK x : x = [rows[r] EXCEPT !.status = IF Writes(job[h]) THEN answer ELSE @]
  OBVIOUS
<1>8. x \in Row /\ x.ref = rows[r].ref
  BY <1>2, <1>3, <1>7 DEF Row
<1>9. /\ rows' = [rows EXCEPT ![r] = x]
      /\ rows' = rows \/ rows' = [rows EXCEPT ![r].status = answer]
  <2>1. CASE Writes(job[h])
    BY <1>1, <1>7, <2>1 DEF updatePayment
  <2>2. CASE ~Writes(job[h])
    <3>1. rows' = rows /\ x = rows[r]
      BY <1>1, <1>3, <1>7, <2>2 DEF updatePayment, Row
    <3> QED
      BY <1>2, <1>3, <3>1
  <2> QED
    BY <2>1, <2>2
<1>10. Due' /\ Gifts' = Gifts
  <2>1. step # "idle" => Backed("Success", x.ref)
    BY <1>2, <1>6, <1>8
  <2>2. job[h].row = r /\ rows' = [rows EXCEPT ![r] = x] /\ UNCHANGED <<sent, subs>>
    BY <1>1, <1>5, <1>9
  <2> QED
    BY <1>2, <1>5, <1>6, <1>8, <2>1, <2>2, RowWritten
<1>11. answer \in Book!Had(rows[r].ref) \/ answer = "Failed"
  BY <1>2, HadIs
<1>12. CASE rows' = rows
  BY <1>5, <1>10, <1>12, BookIs DEF Step
<1>13. CASE rows' = [rows EXCEPT ![r].status = answer]
  <2>1. Book!Correct(r, answer)
    BY <1>5, <1>10, <1>11, <1>13, Zenon DEF Book!Correct, Gifts
  <2>2. Statuses = Book!Statuses
    BY Zenon DEF Statuses, Book!Statuses
  <2> QED
    BY <1>2, <1>10, <2>1, <2>2 DEF Step, Book!Next
<1> QED
  BY <1>9, <1>12, <1>13

LEMMA TellStep ==
    ASSUME IInv, Due, NEW h \in Handlers, TellNounu(h)
    PROVE  Step
<1>1. PICK r : r = job[h].row
  OBVIOUS
<1>2. job[h].at = "tell" /\ r \in DOMAIN rows /\ Backed("Success", rows[r].ref)
  BY <1>1 DEF TellNounu, Due
<1>3. rows[r] \in Row /\ rows \in Seq(Row) /\ UNCHANGED <<sent, subs>>
  BY <1>2 DEF IInv, TypeOK, TellNounu
<1>4. PICK x : x = [rows[r] EXCEPT !.told = @ + 1]
  OBVIOUS
<1>5. x \in Row /\ x.ref = rows[r].ref
  <2>1. PICK t : t = rows[r].told + 1
    OBVIOUS
  <2>2. t \in Nat /\ x = [rows[r] EXCEPT !.told = t]
    BY <1>3, <1>4, <2>1 DEF Row
  <2> QED
    BY <1>3, <2>2 DEF Row
<1>6. rows' = [rows EXCEPT ![r].told = @ + 1] /\ rows' = [rows EXCEPT ![r] = x]
  BY <1>1, <1>4 DEF TellNounu
<1>7. PICK step : step = IF job[h].by = "webhook" THEN "lookup" ELSE "idle"
  OBVIOUS
<1>8. Continue(h, step) /\ step \in {"idle", "tell", "lookup"}
  BY <1>7 DEF TellNounu
<1>9. Due' /\ Gifts' = Gifts
  <2>1. step # "idle" => Backed("Success", x.ref)
    BY <1>2, <1>5
  <2>2. job[h].row = r /\ rows' = [rows EXCEPT ![r] = x] /\ UNCHANGED <<sent, subs>>
    BY <1>1, <1>3, <1>6
  <2> QED
    BY <1>2, <1>5, <1>8, <2>1, <2>2, RowWritten
<1>10. Book!Executed(rows[r].ref)
  BY <1>2, HadIs DEF Statuses
<1>11. Book!Tell(r)
  BY <1>3, <1>6, <1>9, <1>10, Zenon DEF Book!Tell, Gifts
<1> QED
  BY <1>2, <1>9, <1>11 DEF Step, Book!Next

LEMMA GiveStep ==
    ASSUME IInv, Due, NEW h \in Handlers, createSubscription(h)
    PROVE  Step
<1>1. PICK r : r = job[h].row
  OBVIOUS
<1>2. PICK new : new = [row |-> r, base |-> job[h].n]
  OBVIOUS
<1>3. /\ job[h].at = "create" /\ subs' = Append(subs, new) /\ job' = [job EXCEPT ![h] = NoJob]
      /\ UNCHANGED <<sent, rows>> /\ NoJob.at = "idle" /\ new.row = r
  BY <1>1, <1>2 DEF createSubscription, Finish, NoJob
<1>4. r \in DOMAIN rows /\ Backed("Success", rows[r].ref)
  BY <1>1, <1>3 DEF Due
<1>5. Book!Executed(rows[r].ref)
  BY <1>4, HadIs DEF Statuses
<1>6. Gifts' = Append(Gifts, r)
  <2>1. subs \in Seq([row : Nat, base : Nat]) /\ new \in [row : Nat, base : Nat]
    BY <1>1, <1>2, JobTyped DEF IInv, TypeOK, Job
  <2>2. PICK n : n = Len(subs)
    OBVIOUS
  <2>3. /\ n \in Nat /\ DOMAIN subs = 1 .. n /\ DOMAIN subs' = 1 .. n + 1
        /\ subs'[n + 1] = new /\ \A m \in 1 .. n : subs'[m] = subs[m]
        /\ \A m \in 1 .. n : subs[m].row \in Nat
    <3>1. \A m \in 1 .. Len(subs) : subs[m] \in [row : Nat, base : Nat]
      BY <2>1, ElementOfSeq
    <3>2. \A m \in 1 .. Len(subs) : subs[m].row \in Nat
      BY <3>1
    <3>3. subs' = Append(subs, new)
      BY <1>3
    <3> QED
      BY <2>1, <2>2, <3>2, <3>3
  <2>4. PICK g : g = Gifts
    OBVIOUS
  <2>5. g = [m \in 1 .. n |-> subs[m].row]
    BY <2>3, <2>4 DEF Gifts
  <2>6. g \in Seq(Nat) /\ Len(g) = n
    BY <2>3, <2>5
  <2>7. r \in Nat
    BY <1>2, <2>1
  <2>8. PICK f : f = Gifts'
    OBVIOUS
  <2>9. f = [m \in 1 .. n + 1 |-> subs'[m].row]
    BY <2>3, <2>8 DEF Gifts
  <2>10. f \in Seq(Nat) /\ Len(f) = n + 1 /\ f[n + 1] = r /\ \A m \in 1 .. n : f[m] = g[m]
    BY <1>3, <2>3, <2>5, <2>7, <2>9
  <2>11. f = Append(g, r)
    BY <2>3, <2>6, <2>7, <2>10
  <2> QED
    BY <2>4, <2>8, <2>11
<1>7. Due'
  <2>1. job'[h].at = "idle" /\ \A g \in Handlers \ {h} : job'[g] = job[g]
    BY <1>3, Moved
  <2>2. Grows
    BY <1>3 DEF Grows, Backed
  <2> QED
    BY <2>1, <2>2, DueStays
<1>8. Book!Give(r)
  BY <1>3, <1>5, <1>6, Zenon DEF Book!Give, Gifts
<1> QED
  BY <1>4, <1>7, <1>8 DEF Step, Book!Next

LEMMA BookInit ==
    ASSUME Init
    PROVE  Due /\ Book!Init
<1>1. /\ sent = <<>> /\ rows = <<>> /\ subs = <<>>
      /\ \A h \in Handlers : job[h].at = "idle"
  BY DEF Init, NoJob
<1>2. Gifts = <<>>
  BY <1>1 DEF Gifts
<1> QED
  BY <1>1, <1>2 DEF Due, Book!Init, Gifts

LEMMA BookStep ==
    ASSUME IInv, AllRecorded, Due, [Next]_vars
    PROVE  Step
<1>1. ASSUME NEW h \in Handlers, NEW r \in DOMAIN rows,
             \/ VerifyAdminPayment(h, r) \/ VerifyPayment(h, r) \/ HandleNotify(h, r)
             \/ FailAdminPayment(h, r) \/ VerifyAgain(h, r)
      PROVE  Step
  <2>1. PICK by \in Routes : Check(h, r, by)
    BY <1>1 DEF VerifyAdminPayment, VerifyPayment, HandleNotify, FailAdminPayment, VerifyAgain,
                VerifyNounuPayment, Routes
  <2> QED
    BY <2>1, CheckStep
<1>2. ASSUME NEW h \in Handlers, Advance(h) \/ AnswerLost(h) \/ Fail(h) \/ PayNounu(h)
      PROVE  Step
  BY <1>2, QuietSteps, SendStep, RecordStep, WriteStep, TellStep, GiveStep DEF Advance
<1>3. CASE UNCHANGED vars
  <2>1. UNCHANGED <<sent, rows, subs, job>>
    BY <1>3 DEF vars, table
  <2> QED
    BY <2>1, BookIs DEF Step, Due, Backed, Gifts
<1> QED
  BY <1>1, <1>2, <1>3, SettleStep DEF Next, Arrive

(***************************************************************************)
(* Payouts implement PayoutBook, for any number of requests and payouts:   *)
(* one row for a payout at most, no status that the payout never had, and  *)
(* nothing brought to the nounu by a payout that was not executed          *)
(* (admin.usecases.ts:988, payment.usecases.ts:253).                       *)
(***************************************************************************)
THEOREM BookKept == Spec => RefinesBook
<1>1. Init => IInv /\ AllRecorded /\ Due /\ Book!Init
  BY InitInv, OutlayInit, BookInit
<1>2. (IInv /\ AllRecorded) /\ [Next]_vars => (IInv /\ AllRecorded)'
  BY StepInv, OutlayStep
<1>3. IInv /\ AllRecorded /\ Due /\ [Next]_vars => Due' /\ [Book!Next]_(Book!vars)
  BY BookStep DEF Step
<1> QED
  BY <1>1, <1>2, <1>3, PTL DEF Spec, RefinesBook, Book!Spec

-----------------------------------------------------------------------------
(***************************************************************************)
(* The safety half of NounuIsTold: the success of a row was told, is in    *)
(* the hands of the request that is about to tell it, or is one of those   *)
(* that the code tells nobody of.                                          *)
(***************************************************************************)
Telling(r) == {h \in Handlers : job[h].row = r /\ job[h].at = "tell"}

SuccessIsTold ==
    \A r \in DOMAIN rows :
        rows[r].status = "Success" => rows[r].told > 0 \/ r \in quiet \/ Telling(r) # {}

\* Row r and what is known of it stay, while h moves on.
LEMMA TellingStays ==
    ASSUME IInv, NEW h \in Handlers, NEW j, job' = [job EXCEPT ![h] = j],
           job[h].at # "tell", NEW r
    PROVE  Telling(r) \subseteq Telling(r)'
<1>1. \A g \in Handlers \ {h} : job'[g] = job[g]
  BY DEF IInv, TypeOK
<1> QED
  BY <1>1 DEF Telling

\* Steps that leave the rows alone.
LEMMA RowsAlone ==
    ASSUME IInv, SuccessIsTold, NEW h \in Handlers, NEW j, job' = [job EXCEPT ![h] = j],
           UNCHANGED rows, quiet \subseteq quiet',
           job[h].at = "tell" => job[h].row \in quiet'
    PROVE  SuccessIsTold'
<1>1. \A g \in Handlers \ {h} : job'[g] = job[g]
  BY DEF IInv, TypeOK
<1>2. ASSUME NEW r \in DOMAIN rows, rows[r].status = "Success", ~(rows[r].told > 0),
             r \notin quiet'
      PROVE  Telling(r)' # {}
  <2>1. PICK g \in Telling(r) : TRUE
    BY <1>2 DEF SuccessIsTold
  <2>2. g # h
    BY <1>2, <2>1 DEF Telling
  <2> QED
    BY <1>1, <2>1, <2>2 DEF Telling
<1> QED
  BY <1>2 DEF SuccessIsTold

LEMMA QuietTells ==
    ASSUME IInv, SuccessIsTold, NEW h \in Handlers,
           \/ PayNounu(h) \/ AnswerLost(h) \/ verifyPayment(h)
           \/ ensureSubscription(h) \/ createSubscription(h) \/ Fail(h)
           \/ \E r \in DOMAIN rows, by \in Routes : Check(h, r, by)
    PROVE  SuccessIsTold'
<1>1. UNCHANGED rows /\ quiet \subseteq quiet'
  BY DEF PayNounu, AnswerLost, verifyPayment, ensureSubscription,
         createSubscription, Fail, Check, table, ghost
<1>2. job[h].at = "tell" => job[h].row \in quiet'
  BY DEF PayNounu, AnswerLost, verifyPayment, ensureSubscription,
         createSubscription, Fail, Check, Begin
<1>3. \E j : job' = [job EXCEPT ![h] = j]
  BY DEF PayNounu, AnswerLost, verifyPayment, ensureSubscription,
         createSubscription, Fail, Check, Begin, Finish
<1> QED
  BY <1>1, <1>2, <1>3, RowsAlone

\* A new row has no success to tell.
LEMMA CreateTells ==
    ASSUME IInv, SuccessIsTold, NEW h \in Handlers, createNounuPayment(h)
    PROVE  SuccessIsTold'
<1>1. PICK new : new = [ref |-> job[h].n, status |-> "Pending", told |-> 0]
  OBVIOUS
<1>2. /\ rows \in Seq(Row) /\ rows' = Append(rows, new) /\ new.status = "Pending"
      /\ UNCHANGED quiet /\ job' = [job EXCEPT ![h] = NoJob] /\ job[h].at # "tell"
  BY <1>1 DEF createNounuPayment, Finish, ghost, IInv, TypeOK
<1>3. ASSUME NEW r \in DOMAIN rows', rows'[r].status = "Success"
      PROVE  rows'[r].told > 0 \/ r \in quiet' \/ Telling(r)' # {}
  <2>1. r \in DOMAIN rows /\ rows'[r] = rows[r]
    BY <1>2, <1>3
  <2>2. Telling(r) \subseteq Telling(r)'
    BY <1>2, TellingStays
  <2> QED
    BY <1>2, <1>3, <2>1, <2>2 DEF SuccessIsTold
<1> QED
  BY <1>3 DEF SuccessIsTold

\* Row r changes to x.
LEMMA RowTells ==
    ASSUME IInv, SuccessIsTold, NEW h \in Handlers, NEW r \in DOMAIN rows, NEW x,
           rows' = [rows EXCEPT ![r] = x], quiet \subseteq quiet', job[h].row = r,
           x.status = "Success" => x.told > 0 \/ r \in quiet' \/ Telling(r)' # {},
           \A g \in Handlers \ {h} : job'[g] = job[g]
    PROVE  SuccessIsTold'
<1>1. /\ DOMAIN rows' = DOMAIN rows /\ rows'[r] = x
      /\ \A q \in DOMAIN rows \ {r} : rows'[q] = rows[q]
  BY DEF IInv, TypeOK
<1>2. ASSUME NEW q \in DOMAIN rows \ {r}
      PROVE  Telling(q) \subseteq Telling(q)'
  BY DEF Telling
<1> QED
  BY <1>1, <1>2 DEF SuccessIsTold

LEMMA UpdateTells ==
    ASSUME IInv, SuccessIsTold, NEW h \in Handlers, updatePayment(h)
    PROVE  SuccessIsTold'
<1>1. PICK r, answer, step : /\ r = job[h].row /\ answer = job[h].answer
                             /\ step = NextStep(job[h])
  OBVIOUS
<1>2. /\ job[h] \in Job /\ job[h].at = "write" /\ r \in DOMAIN rows /\ Follows(job[h])
  BY <1>1, JobTyped DEF updatePayment, Sound, OnRow
<1>3. /\ Continue(h, step) /\ step \in {"idle", "tell", "lookup"} /\ quiet \subseteq quiet'
  BY <1>1 DEF updatePayment, NextStep
<1>4. PICK j \in Job : /\ Moves(h, j) /\ j.at = step /\ (j.at # "idle" => j.row = r)
  BY <1>1, <1>2, <1>3, ContinueMoves
<1>5. job'[h] = j /\ \A g \in Handlers \ {h} : job'[g] = job[g]
  BY <1>4, Moved DEF Moves
<1>6. CASE ~Writes(job[h])
  <2>1. UNCHANGED rows /\ UNCHANGED quiet
    BY <1>6 DEF updatePayment
  <2> QED
    BY <1>2, <1>4, <2>1, RowsAlone DEF Moves
<1>7. CASE Writes(job[h])
  <2>1. PICK x : x = [rows[r] EXCEPT !.status = answer]
    OBVIOUS
  <2>2. rows[r] \in Row
    BY <1>2 DEF IInv, TypeOK
  <2>3. rows' = [rows EXCEPT ![r] = x] /\ x.status = answer
    BY <1>1, <1>7, <2>1, <2>2 DEF updatePayment, Row
  <2>4. answer = "Success" => r \in quiet' \/ step = "tell"
    BY <1>1, <1>2, <1>7 DEF updatePayment, NextStep, Follows
  <2>5. step = "tell" => h \in Telling(r)'
    BY <1>4, <1>5 DEF Telling
  <2> QED
    BY <1>1, <1>2, <1>3, <1>5, <2>3, <2>4, <2>5, RowTells
<1> QED
  BY <1>6, <1>7

LEMMA TellTells ==
    ASSUME IInv, SuccessIsTold, NEW h \in Handlers, TellNounu(h)
    PROVE  SuccessIsTold'
<1>1. PICK r : r = job[h].row
  OBVIOUS
<1>2. r \in DOMAIN rows
  BY <1>1, JobTyped DEF TellNounu, Sound, OnRow
<1>3. rows[r] \in Row
  BY <1>2 DEF IInv, TypeOK
<1>4. PICK t : t = rows[r].told + 1
  OBVIOUS
<1>5. PICK x : x = [rows[r] EXCEPT !.told = t]
  OBVIOUS
<1>6. x.told = t /\ t > 0
  BY <1>3, <1>4, <1>5 DEF Row
<1>7. rows' = [rows EXCEPT ![r] = x] /\ UNCHANGED quiet
  BY <1>1, <1>4, <1>5 DEF TellNounu, ghost
<1>8. \A g \in Handlers \ {h} : job'[g] = job[g]
  BY DEF TellNounu, Continue, Finish, IInv, TypeOK
<1> QED
  BY <1>1, <1>2, <1>6, <1>7, <1>8, RowTells

(***************************************************************************)
(* The success of a payout that reaches its row is never just left there:  *)
(* whoever stored it tells the nounu, was the client's route or failed to  *)
(* tell, for any number of routes that check it at once                    *)
(* (admin.usecases.ts:988, payment.usecases.ts:214).                       *)
(***************************************************************************)
THEOREM SuccessesAreTold == Spec => []SuccessIsTold
<1>1. Init => IInv /\ SuccessIsTold
  <2>1. Init => rows = <<>>
    BY DEF Init
  <2>2. rows = <<>> => SuccessIsTold
    BY DEF SuccessIsTold
  <2> QED
    BY <2>1, <2>2, InitInv
<1>2. (IInv /\ SuccessIsTold) /\ [Next]_vars => (IInv /\ SuccessIsTold)'
  <2> SUFFICES ASSUME IInv, SuccessIsTold, [Next]_vars
               PROVE  SuccessIsTold'
    BY StepInv
  <2>1. ASSUME NEW h \in Handlers, NEW r \in DOMAIN rows,
               \/ VerifyAdminPayment(h, r) \/ VerifyPayment(h, r) \/ HandleNotify(h, r)
               \/ FailAdminPayment(h, r) \/ VerifyAgain(h, r)
        PROVE  SuccessIsTold'
    <3>1. PICK by \in Routes : Check(h, r, by)
      BY <2>1 DEF VerifyAdminPayment, VerifyPayment, HandleNotify, FailAdminPayment, VerifyAgain,
                  VerifyNounuPayment, Routes
    <3> QED
      BY <3>1, QuietTells
  <2>2. ASSUME NEW h \in Handlers, Advance(h) \/ AnswerLost(h) \/ Fail(h) \/ PayNounu(h)
        PROVE  SuccessIsTold'
    BY <2>2, QuietTells, CreateTells, UpdateTells, TellTells DEF Advance
  <2>3. ASSUME UNCHANGED <<rows, quiet, job>>
        PROVE  SuccessIsTold'
    BY <2>3 DEF SuccessIsTold, Telling
  <2>4. ASSUME NEW k \in DOMAIN sent, NEW status \in Statuses, Settle(k, status)
        PROVE  SuccessIsTold'
    BY <2>3, <2>4 DEF Settle, ghost
  <2>5. CASE UNCHANGED vars
    BY <2>3, <2>5 DEF vars, table, ghost
  <2> QED
    BY <2>1, <2>2, <2>4, <2>5 DEF Next, Arrive
<1> QED
  BY <1>1, <1>2, PTL DEF Spec

=============================================================================
