--------------------------- MODULE AccountsProofs ---------------------------
(***************************************************************************)
(* Proofs about Accounts, for any number of apps, addresses and codes and  *)
(* any lifetimes.  Sessions: the client that wrote the session last either *)
(* holds it or is about to be answered with it.  Codes: a code that no two *)
(* requests used at once is used by the one request that counts for it.    *)
(***************************************************************************)
EXTENDS Accounts, TLAPS

Typed == TypeOK /\ now > 0 /\ \A c \in Clients : job[c].token <= now

\* The last author of a session, between its write and its answer and after.
Kept(c) ==
    author[EmailOf[c]] = c =>
        session[EmailOf[c]] = IF job[c].at = "profile" THEN job[c].token ELSE held[c]

Refreshing(c) ==
    At(c, "refresh", "store") /\ ~job[c].overtaken => session[EmailOf[c]] = held[c]

Sessions == \A c \in Clients : Kept(c) /\ Refreshing(c)

Busy == {"password", "mark"}

Users(k) == {c \in Clients : job[c].k = k /\ job[c].at \in Busy}

\* What a code that was never raced has done: nothing before its only user
\* set the password, one reset after.
Once(k) ==
    /\ \A c, d \in Users(k) : c = d
    /\ \A c \in Users(k) : resets[k] = IF job[c].at = "mark" THEN 1 ELSE 0
    /\ Users(k) = {} => resets[k] = 0 \/ (resets[k] = 1 /\ code[k].used)

CodesSound ==
    /\ \A k \in Codes : Free(k) => resets[k] = 0
    /\ \A c \in Clients : job[c].at \in Busy => job[c].k \in Codes /\ ~Free(job[c].k)
    /\ \A c \in Clients : job[c].at = "mail" => job[c].k \in Codes
    /\ \A k \in Codes \ raced : Once(k)

IInv == Typed /\ Sessions /\ CodesSound

-----------------------------------------------------------------------------
(* Types.                                                                  *)

LEMMA NoJobType == NoJob \in Job /\ NoJob.token = 0 /\ NoJob.at = "idle"
BY DEF NoJob, Job, Ops, Steps

\* Client c moves to j and the others wait.
Moves(c, j) == c \in Clients /\ j \in Job /\ job' = [job EXCEPT ![c] = j]

LEMMA MoveTyped ==
    ASSUME Typed, NEW c, NEW j, Moves(c, j), j.token <= now, now' = now
    PROVE  job' \in [Clients -> Job] /\ \A d \in Clients : job'[d].token <= now'
BY DEF Typed, TypeOK, Moves

LEMMA AnswerMoves ==
    ASSUME Typed, NEW c \in Clients, Answer(c)
    PROVE  Moves(c, NoJob) /\ NoJob.token <= now
BY NoJobType DEF Answer, Moves, Typed, TypeOK

LEMMA GotoMoves ==
    ASSUME Typed, NEW c \in Clients, NEW step \in Steps, Goto(c, step)
    PROVE  \E j \in Job : /\ Moves(c, j) /\ j.at = step /\ j.token <= now
                          /\ j.k = job[c].k /\ j.op = job[c].op /\ j.pw = job[c].pw
<1> PICK j : j = [job[c] EXCEPT !.at = step]
  OBVIOUS
<1>1. job[c] \in Job /\ job[c].token <= now
  BY DEF Typed, TypeOK
<1>2. /\ j \in Job /\ j.at = step /\ j.token = job[c].token
      /\ j.k = job[c].k /\ j.op = job[c].op /\ j.pw = job[c].pw
  BY <1>1 DEF Job
<1>3. job' = [job EXCEPT ![c] = j]
  BY DEF Goto
<1>4. QED
  BY <1>1, <1>2, <1>3 DEF Moves

\* Every request that writes a session marks the refreshes that it overtakes.
LEMMA Overtaking ==
    ASSUME Typed, NEW e
    PROVE  /\ Overtake(e) \in [Clients -> Job]
           /\ \A d \in Clients :
                /\ Overtake(e)[d].op = job[d].op /\ Overtake(e)[d].at = job[d].at
                /\ Overtake(e)[d].k = job[d].k /\ Overtake(e)[d].token = job[d].token
                /\ Overtake(e)[d].pw = job[d].pw
                /\ At(d, "refresh", "store") /\ EmailOf[d] = e => Overtake(e)[d].overtaken
                /\ EmailOf[d] # e => Overtake(e)[d].overtaken = job[d].overtaken
<1> DEFINE mark(d) == job[d].overtaken \/ (EmailOf[d] = e /\ At(d, "refresh", "store"))
           new(d) == [job[d] EXCEPT !.overtaken = mark(d)]
<1>1. ASSUME NEW d \in Clients
      PROVE  /\ new(d) \in Job /\ new(d).op = job[d].op /\ new(d).at = job[d].at
             /\ new(d).k = job[d].k /\ new(d).token = job[d].token /\ new(d).pw = job[d].pw
             /\ new(d).overtaken = mark(d) /\ job[d].overtaken \in BOOLEAN
  <2>1. job[d] \in Job
    BY DEF Typed, TypeOK
  <2>2. mark(d) \in BOOLEAN
    OBVIOUS
  <2> HIDE DEF mark
  <2>3. QED
    BY <2>1, <2>2 DEF Job
<1>2. Overtake(e) = [d \in Clients |-> new(d)]
  BY DEF Overtake
<1>3. \A d \in Clients :
        /\ At(d, "refresh", "store") /\ EmailOf[d] = e => mark(d)
        /\ EmailOf[d] # e => (mark(d) <=> job[d].overtaken)
  OBVIOUS
<1> HIDE DEF mark
<1>4. ASSUME NEW d \in Clients
      PROVE  mark(d) \in BOOLEAN
  BY <1>1 DEF mark
<1> HIDE DEF new
<1>5. QED
  BY <1>1, <1>2, <1>3, <1>4

\* A session is stored by a request that goes on to its answer.
LEMMA StoreMoves ==
    ASSUME Typed, NEW c \in Clients, StoreTokens(c)
    PROVE  /\ job' \in [Clients -> Job]
           /\ job'[c].at = "profile" /\ job'[c].token = job[c].token /\ job'[c].k = job[c].k
           /\ \A d \in Clients \ {c} : job'[d] = Overtake(EmailOf[c])[d]
<1> PICK e : e = EmailOf[c]
  OBVIOUS
<1> PICK old : old = Overtake(e)
  OBVIOUS
<1>1. old \in [Clients -> Job] /\ old[c].token = job[c].token /\ old[c].k = job[c].k
  BY Overtaking
<1>2. job' = [old EXCEPT ![c].at = "profile", ![c].overtaken = FALSE]
  BY DEF StoreTokens
<1> PICK j : j = [old[c] EXCEPT !.at = "profile", !.overtaken = FALSE]
  OBVIOUS
<1>3. old[c] \in Job
  BY <1>1
<1>4. j \in Job /\ j.at = "profile" /\ j.token = old[c].token /\ j.k = old[c].k
  BY <1>3 DEF Job, Steps
<1>5. job' = [old EXCEPT ![c] = j]
  BY <1>2
<1>6. QED
  BY <1>1, <1>4, <1>5

-----------------------------------------------------------------------------
(* Steps that leave the sessions, or the codes, alone.                     *)

LEMMA SessionsWait ==
    ASSUME Typed, Sessions, UNCHANGED <<session, held, author>>, NEW c, NEW j, Moves(c, j),
           job[c].at # "profile", j.at # "profile",
           j.op = "refresh" /\ j.at = "store" /\ ~j.overtaken => session[EmailOf[c]] = held[c]
    PROVE  Sessions'
<1>1. c \in Clients /\ job' \in [Clients -> Job] /\ job'[c] = j
      /\ \A d \in Clients \ {c} : job'[d] = job[d]
  BY DEF Moves, Typed, TypeOK
<1>2. Kept(c)' /\ Refreshing(c)'
  BY <1>1 DEF Sessions, Kept, Refreshing, At
<1>3. ASSUME NEW d \in Clients \ {c}
      PROVE  Kept(d)' /\ Refreshing(d)'
  BY <1>1 DEF Sessions, Kept, Refreshing, At
<1>4. QED
  BY <1>2, <1>3 DEF Sessions

LEMMA CodesWait ==
    ASSUME CodesSound, UNCHANGED <<code, resets, raced>>,
           \A d \in Clients : job[d].at \in Busy \/ job'[d].at \in Busy =>
                                job'[d].at = job[d].at /\ job'[d].k = job[d].k,
           \A d \in Clients : job'[d].at = "mail" => job[d].at = "mail" /\ job'[d].k = job[d].k
    PROVE  CodesSound'
<1>1. ASSUME NEW k
      PROVE  Users(k)' = Users(k)
  BY DEF Users
<1>2. ASSUME NEW k \in Codes \ raced
      PROVE  Once(k)'
  <2>1. Once(k) /\ Users(k)' = Users(k)
    BY <1>1 DEF CodesSound
  <2>2. \A c \in Users(k) : job'[c].at = job[c].at
    BY DEF Users
  <2>3. QED
    BY <2>1, <2>2 DEF Once
<1>3. QED
  BY <1>2 DEF CodesSound, Free

LEMMA OneWaits ==
    ASSUME Typed, CodesSound, UNCHANGED <<code, resets, raced>>, NEW c, NEW j, Moves(c, j),
           job[c].at \notin Busy, j.at \notin Busy \cup {"mail"}
    PROVE  CodesSound'
<1>1. job'[c] = j /\ \A d \in Clients \ {c} : job'[d] = job[d]
  BY DEF Moves, Typed, TypeOK
<1>2. QED
  BY <1>1, CodesWait

-----------------------------------------------------------------------------
(* Signing up, signing in, refreshing and logging out.                     *)

\* A request begins: no code is involved and nothing is written.
LEMMA Begins ==
    ASSUME IInv, NEW c \in Clients, Idle(c), NEW j \in Job, j.token \in 0 .. now,
           j.at \notin Busy \cup {"mail", "profile"},
           j.op = "refresh" => session[EmailOf[c]] = held[c],
           job' = [job EXCEPT ![c] = j], moves' \in Nat,
           UNCHANGED <<password, session, Codes_, held, author, now, faults>>
    PROVE  IInv'
<1>1. Moves(c, j) /\ Typed /\ Sessions /\ CodesSound
  BY DEF IInv, Moves
<1>2. Typed'
  BY <1>1, MoveTyped DEF Typed, TypeOK, Codes_
<1>3. Sessions'
  BY <1>1, SessionsWait DEF Idle
<1>4. CodesSound'
  BY <1>1, OneWaits DEF Idle, Codes_, Busy
<1>5. QED
  BY <1>2, <1>3, <1>4 DEF IInv

LEMMA SignUpInv ==
    ASSUME IInv, NEW c \in Clients, NEW p \in Passwords, SignUpStart(c, p)
    PROVE  IInv'
<1> PICK j : j = [NoJob EXCEPT !.op = "sign up", !.at = "create", !.pw = p]
  OBVIOUS
<1>1. j \in Job /\ j.op = "sign up" /\ j.at = "create" /\ j.token = 0
  BY NoJobType DEF Job, Ops, Steps, NoJob
<1>2. j.token \in 0 .. now /\ moves' \in Nat /\ j.at \notin Busy \cup {"mail", "profile"}
  BY <1>1 DEF IInv, Typed, TypeOK, SignUpStart, Move, Busy
<1>3. /\ Idle(c) /\ job' = [job EXCEPT ![c] = j]
      /\ UNCHANGED <<password, session, Codes_, held, author, now, faults>>
  BY DEF SignUpStart
<1>4. QED
  BY <1>1, <1>2, <1>3, Begins

LEMMA SignInInv ==
    ASSUME IInv, NEW c \in Clients, NEW p, SignInWith(c, p), moves' \in Nat
    PROVE  IInv'
<1> PICK j : j = [NoJob EXCEPT !.op = "sign in", !.at = "store", !.token = now]
  OBVIOUS
<1>1. now \in Nat
  BY DEF IInv, Typed, TypeOK
<1>2. j \in Job /\ j.op = "sign in" /\ j.at = "store" /\ j.token = now
  BY <1>1, NoJobType DEF Job, Ops, Steps, NoJob
<1>3. j.token \in 0 .. now /\ j.at \notin Busy \cup {"mail", "profile"}
  BY <1>1, <1>2 DEF Busy
<1>4. /\ Idle(c) /\ job' = [job EXCEPT ![c] = j]
      /\ UNCHANGED <<password, session, Codes_, held, author, now, faults>>
  BY DEF SignInWith
<1>5. QED
  BY <1>2, <1>3, <1>4, Begins

\* A client that gives up its token, or whose last write is disowned.
LEMMA GivesUp ==
    ASSUME Typed, Sessions, NEW c \in Clients,
           Moves(c, NoJob) \/ (job[c].at = "idle" /\ UNCHANGED job),
           session' = session, held' = [held EXCEPT ![c] = 0],
           author' = Disown(c) \/ (author' = author /\ author[EmailOf[c]] # c)
    PROVE  /\ Sessions'
           /\ held' \in [Clients -> 0 .. now] /\ author' \in [Emails -> Clients \cup {Nobody}]
<1>1. /\ job' \in [Clients -> Job] /\ job'[c].at = "idle"
      /\ \A d \in Clients \ {c} : job'[d] = job[d]
  BY NoJobType DEF Moves, Typed, TypeOK
<1>2. held' \in [Clients -> 0 .. now] /\ \A d \in Clients \ {c} : held'[d] = held[d]
  BY DEF Typed, TypeOK
<1>3. /\ author' \in [Emails -> Clients \cup {Nobody}]
      /\ \A e \in Emails : author'[e] # c \/ e # EmailOf[c]
      /\ \A e \in Emails, d \in Clients : author'[e] = d => author[e] = d
  BY AccountsAssumption DEF Disown, Typed, TypeOK
<1>4. \A d \in Clients : EmailOf[d] \in Emails
  BY AccountsAssumption
<1>5. Kept(c)' /\ Refreshing(c)'
  BY <1>1, <1>3, <1>4 DEF Kept, Refreshing, At
<1>6. ASSUME NEW d \in Clients \ {c}
      PROVE  Kept(d)' /\ Refreshing(d)'
  BY <1>1, <1>2, <1>3, <1>4 DEF Sessions, Kept, Refreshing, At
<1>7. QED
  BY <1>2, <1>3, <1>5, <1>6 DEF Sessions

LEMMA RefreshInv ==
    ASSUME IInv, NEW c \in Clients, RefreshStart(c)
    PROVE  IInv'
<1>1. Idle(c) /\ now \in Nat /\ moves' \in Nat
  BY DEF RefreshStart, IInv, Typed, TypeOK
<1> DEFINE alive == now <= held[c] + TokenLife
<1>2. CASE alive /\ Presented(c)
  <2> PICK j : j = [NoJob EXCEPT !.op = "refresh", !.at = "store", !.token = now]
    OBVIOUS
  <2>1. j \in Job /\ j.op = "refresh" /\ j.at = "store" /\ j.token = now
    BY <1>1, NoJobType DEF Job, Ops, Steps, NoJob
  <2>2. /\ session[EmailOf[c]] = held[c] /\ job' = [job EXCEPT ![c] = j]
        /\ UNCHANGED <<password, session, Codes_, held, author, now, faults>>
    BY <1>2 DEF RefreshStart, Presented
  <2>3. j.token \in 0 .. now /\ j.at \notin Busy \cup {"mail", "profile"}
    BY <1>1, <2>1 DEF Busy
  <2>4. QED
    BY <1>1, <2>1, <2>2, <2>3, Begins
<1>3. CASE ~(alive /\ Presented(c))
  <2>1. /\ held' = [held EXCEPT ![c] = 0] /\ UNCHANGED job
        /\ author' = IF alive THEN author ELSE Disown(c)
        /\ UNCHANGED <<password, session, Codes_, now, faults, moves>>
    BY <1>3 DEF RefreshStart
  <2>2. job[c].at = "idle" /\ Typed /\ Sessions /\ CodesSound
    BY <1>1 DEF Idle, IInv
  <2>3. alive => author[EmailOf[c]] # c
    BY <1>3, <2>2 DEF Sessions, Kept, Presented
  <2>4. /\ Sessions'
        /\ held' \in [Clients -> 0 .. now] /\ author' \in [Emails -> Clients \cup {Nobody}]
    BY <2>1, <2>2, <2>3, GivesUp
  <2>5. CodesSound'
    BY <2>1, <2>2, CodesWait DEF Codes_
  <2>6. QED
    BY <2>1, <2>2, <2>4, <2>5 DEF IInv, Typed, TypeOK, Codes_
<1>4. QED
  BY <1>2, <1>3

LEMMA CreateUserInv ==
    ASSUME IInv, NEW c \in Clients, CreateUser(c)
    PROVE  IInv'
<1>1. job[c] \in Job /\ job[c].op = "sign up" /\ job[c].at = "create" /\ now \in Nat
  BY DEF CreateUser, At, IInv, Typed, TypeOK
<1>2. password' \in [Emails -> Passwords \cup {Nobody}]
  BY <1>1 DEF CreateUser, IInv, Typed, TypeOK, Job
<1>3. /\ UNCHANGED <<session, Codes_, held, author, now, faults, moves>>
      /\ Typed /\ Sessions /\ CodesSound
  BY DEF CreateUser, IInv
<1>4. PICK j : /\ Moves(c, j) /\ j.token <= now /\ j.op # "refresh"
               /\ j.at \notin Busy \cup {"mail", "profile"}
  <2>1. CASE Exists(EmailOf[c])
    BY <2>1, <1>3, AnswerMoves, NoJobType DEF CreateUser, NoJob, Busy
  <2>2. CASE ~Exists(EmailOf[c])
    <3> PICK j : j = [job[c] EXCEPT !.at = "store", !.token = now]
      OBVIOUS
    <3>1. j \in Job /\ j.at = "store" /\ j.token = now /\ j.op = "sign up"
      BY <1>1 DEF Job, Steps
    <3>2. job' = [job EXCEPT ![c] = j]
      BY <2>2 DEF CreateUser
    <3>3. Moves(c, j)
      BY <3>1, <3>2 DEF Moves
    <3>4. j.token <= now
      <4>1. now \in Nat /\ j.token = now
        BY <1>1, <3>1
      <4>2. QED
        BY <4>1
    <3>5. j.op # "refresh" /\ j.at \notin Busy \cup {"mail", "profile"}
      BY <3>1 DEF Busy
    <3>6. QED
      BY <3>3, <3>4, <3>5
  <2>3. QED
    BY <2>1, <2>2
<1>5. Typed'
  BY <1>2, <1>3, <1>4, MoveTyped DEF Typed, TypeOK, Codes_
<1>6. Sessions'
  BY <1>1, <1>3, <1>4, SessionsWait
<1>7. CodesSound'
  BY <1>1, <1>3, <1>4, OneWaits DEF Codes_, Busy
<1>8. QED
  BY <1>5, <1>6, <1>7 DEF IInv

\* The session is written: the others' refreshes of it are overtaken.
LEMMA SessionWritten ==
    ASSUME IInv, NEW c \in Clients, NEW t \in 0 .. now, session' = [session EXCEPT ![EmailOf[c]] = t],
           author' = [author EXCEPT ![EmailOf[c]] = c], job' \in [Clients -> Job],
           \A d \in Clients \ {c} : job'[d] = Overtake(EmailOf[c])[d] /\ held'[d] = held[d],
           job'[c].at \notin Busy \cup {"mail", "store"}, job[c].at \notin Busy, job'[c].token <= now,
           t = IF job'[c].at = "profile" THEN job'[c].token ELSE held'[c],
           held' \in [Clients -> 0 .. now], moves' \in Nat,
           UNCHANGED <<password, Codes_, now, faults>>
    PROVE  IInv'
<1> PICK e : e = EmailOf[c]
  OBVIOUS
<1>1. e \in Emails /\ \A d \in Clients : EmailOf[d] \in Emails
  BY AccountsAssumption
<1>2. /\ session' \in [Emails -> 0 .. now] /\ session'[e] = t
      /\ \A x \in Emails \ {e} : session'[x] = session[x]
      /\ author' \in [Emails -> Clients \cup {Nobody}] /\ author'[e] = c
      /\ \A x \in Emails \ {e} : author'[x] = author[x]
  BY <1>1 DEF IInv, Typed, TypeOK
<1>3. Typed /\ Sessions /\ CodesSound
  BY DEF IInv
<1>4. \A d \in Clients \ {c} :
        /\ job'[d].op = job[d].op /\ job'[d].at = job[d].at
        /\ job'[d].k = job[d].k /\ job'[d].token = job[d].token
        /\ At(d, "refresh", "store") /\ EmailOf[d] = e => job'[d].overtaken
        /\ EmailOf[d] # e => job'[d].overtaken = job[d].overtaken
  BY <1>3, Overtaking
<1>5. Typed'
  BY <1>2, <1>3, <1>4 DEF Typed, TypeOK, Codes_
<1>6. Kept(c)' /\ Refreshing(c)'
  BY <1>2 DEF Kept, Refreshing, At
<1>7. ASSUME NEW d \in Clients \ {c}
      PROVE  Kept(d)' /\ Refreshing(d)'
  <2>1. held'[d] = held[d] /\ Kept(d) /\ Refreshing(d) /\ EmailOf[d] \in Emails
    BY <1>1, <1>3 DEF Sessions
  <2>2. CASE EmailOf[d] = e
    BY <1>2, <1>4, <2>2 DEF Kept, Refreshing, At
  <2>3. CASE EmailOf[d] # e
    BY <1>2, <1>4, <2>1, <2>3 DEF Kept, Refreshing, At
  <2>4. QED
    BY <2>2, <2>3
<1>8. Sessions'
  BY <1>6, <1>7 DEF Sessions
<1>9. CodesSound'
  BY <1>3, <1>4, CodesWait DEF Codes_
<1>10. QED
  BY <1>5, <1>8, <1>9 DEF IInv

LEMMA StoreTokensInv ==
    ASSUME IInv, NEW c \in Clients, StoreTokens(c)
    PROVE  IInv'
<1>1. Typed /\ job[c] \in Job /\ job[c].token <= now /\ job[c].at = "store"
  BY DEF StoreTokens, IInv, Typed, TypeOK
<1>2. job[c].token \in 0 .. now
  BY <1>1 DEF Job, Typed, TypeOK
<1>3. held' \in [Clients -> 0 .. now] /\ moves' \in Nat /\ UNCHANGED held
  BY <1>1 DEF StoreTokens, Typed, TypeOK
<1>4. QED
  BY <1>1, <1>2, <1>3, StoreMoves, SessionWritten DEF StoreTokens, Busy

LEMMA LogoutInv ==
    ASSUME IInv, NEW c \in Clients, Logout(c)
    PROVE  IInv'
<1>1. Typed /\ job[c].at = "idle" /\ 0 \in 0 .. now
  BY DEF Logout, Idle, IInv, Typed, TypeOK
<1>2. /\ job' \in [Clients -> Job] /\ job'[c].at = "idle" /\ job'[c].token = job[c].token
      /\ \A d \in Clients : job'[d] = Overtake(EmailOf[c])[d]
  BY <1>1, Overtaking DEF Logout
<1>3. /\ held' \in [Clients -> 0 .. now] /\ held'[c] = 0 /\ moves' \in Nat
      /\ \A d \in Clients \ {c} : held'[d] = held[d]
  BY <1>1 DEF Logout, Move, Typed, TypeOK
<1>4. QED
  BY <1>1, <1>2, <1>3, SessionWritten DEF Logout, Busy, Typed

LEMMA GetProfileInv ==
    ASSUME IInv, NEW c \in Clients, GetProfile(c)
    PROVE  IInv'
<1>1. /\ Typed /\ Sessions /\ CodesSound /\ job[c] \in Job /\ job[c].at = "profile"
      /\ job[c].token \in 0 .. now /\ Moves(c, NoJob)
  BY AnswerMoves DEF GetProfile, IInv, Typed, TypeOK, Job
<1>2. /\ held' \in [Clients -> 0 .. now] /\ held'[c] = job[c].token
      /\ \A d \in Clients \ {c} : held'[d] = held[d]
  BY <1>1 DEF GetProfile, Typed, TypeOK
<1>3. /\ job' \in [Clients -> Job] /\ job'[c].at = "idle"
      /\ \A d \in Clients \ {c} : job'[d] = job[d]
  BY <1>1, NoJobType DEF Moves, Typed, TypeOK
<1>4. UNCHANGED <<password, session, Codes_, author, now, faults, moves>>
  BY DEF GetProfile
<1>5. Typed'
  BY <1>1, <1>2, <1>4, MoveTyped, NoJobType DEF Typed, TypeOK, Codes_
<1>6. Kept(c)' /\ Refreshing(c)'
  BY <1>1, <1>2, <1>3, <1>4 DEF Sessions, Kept, Refreshing, At
<1>7. \A d \in Clients \ {c} : Kept(d)' /\ Refreshing(d)'
  BY <1>1, <1>2, <1>3, <1>4 DEF Sessions, Kept, Refreshing, At
<1>8. CodesSound'
  BY <1>1, <1>4, NoJobType, OneWaits DEF Codes_, Busy
<1>9. QED
  BY <1>5, <1>6, <1>7, <1>8 DEF IInv, Sessions

-----------------------------------------------------------------------------
(* Forgotten passwords.                                                    *)

LEMMA ForgotInv ==
    ASSUME IInv, NEW c \in Clients, NEW e \in Emails, NEW k \in Codes, ForgotWith(c, e, k),
           moves' \in Nat
    PROVE  IInv'
<1>1. /\ Typed /\ Sessions /\ CodesSound /\ job[c].at = "idle"
      /\ UNCHANGED <<password, session, mailbox, resets, raced, held, author, now, faults>>
  BY DEF ForgotWith, Idle, IInv
<1>2. CASE ~Free(k)
  <2>1. UNCHANGED <<code, job>>
    BY <1>2 DEF ForgotWith
  <2>2. Typed'
    BY <1>1, <2>1 DEF Typed, TypeOK
  <2>3. Sessions'
    BY <1>1, <2>1 DEF Sessions, Kept, Refreshing, At
  <2>4. CodesSound'
    BY <1>1, <2>1, CodesWait
  <2>5. QED
    BY <2>2, <2>3, <2>4 DEF IInv
<1>3. CASE Free(k)
  <2> PICK j : j = [NoJob EXCEPT !.op = "reset", !.at = "mail", !.k = k]
    OBVIOUS
  <2> PICK row : row = [owner |-> e, born |-> now, used |-> FALSE]
    OBVIOUS
  <2>1. j \in Job /\ j.op = "reset" /\ j.at = "mail" /\ j.token = 0 /\ j.k = k
    BY NoJobType DEF Job, Ops, Steps, NoJob
  <2>2. now \in Nat /\ now > 0
    BY <1>1 DEF Typed, TypeOK
  <2>3. row \in Code /\ row.born = now /\ ~row.used
    BY <2>2, AccountsAssumption DEF Code
  <2>4. job' = [job EXCEPT ![c] = j] /\ code' = [code EXCEPT ![k] = row]
    BY <1>3 DEF ForgotWith
  <2>5. Moves(c, j) /\ j.token <= now
    BY <2>1, <2>2, <2>4 DEF Moves
  <2>6. /\ code' \in [Codes -> Code] /\ code'[k] = row
        /\ \A m \in Codes \ {k} : code'[m] = code[m]
    BY <1>1, <2>3, <2>4 DEF Typed, TypeOK
  <2>7. Typed'
    BY <1>1, <2>5, <2>6, MoveTyped DEF Typed, TypeOK
  <2>8. Sessions'
    BY <1>1, <2>1, <2>5, SessionsWait
  <2>9. job'[c] = j /\ \A d \in Clients \ {c} : job'[d] = job[d]
    BY <1>1, <2>4 DEF Typed, TypeOK
  <2>10. ASSUME NEW m
         PROVE  Users(m)' = Users(m) /\ \A d \in Users(m) : job'[d] = job[d]
    <3>1. job[c].at = "idle" /\ job'[c].at = "mail"
      BY <1>1, <2>1, <2>9
    <3>2. QED
      BY ONLY <2>9, <3>1 DEF Users, Busy
  <2>11. Users(k) = {}
    BY <1>1, <1>3 DEF CodesSound, Users
  <2>12. resets[k] = 0
    BY <1>1, <1>3 DEF CodesSound
  <2>13. ASSUME NEW m \in Codes \ raced
         PROVE  Once(m)'
    <3>1. CASE m = k
      BY <1>1, <2>10, <2>11, <2>12, <3>1 DEF Once
    <3>2. CASE m # k
      BY <1>1, <2>6, <2>10, <3>2 DEF CodesSound, Once
    <3>3. QED
      BY <3>1, <3>2
  <2>14. \A m \in Codes : Free(m)' => Free(m)
    BY <2>2, <2>3, <2>6 DEF Free
  <2>15. \A d \in Clients : job'[d].at \in Busy => job'[d].k \in Codes /\ ~Free(job'[d].k)
    BY <1>1, <2>1, <2>9 DEF CodesSound, Busy
  <2>16. \A d \in Clients : (job[d].at \in Busy => job[d].k \in Codes /\ ~Free(job[d].k))'
    BY <2>14, <2>15 DEF Free
  <2>17. \A d \in Clients : job'[d].at = "mail" => job'[d].k \in Codes
    <3>1. job'[c].k \in Codes
      BY <2>1, <2>9
    <3>2. \A d \in Clients \ {c} : job'[d].at = "mail" => job'[d].k \in Codes
      BY <1>1, <2>9 DEF CodesSound
    <3>3. QED
      BY <3>1, <3>2
  <2>18. \A m \in Codes : (Free(m) => resets[m] = 0)'
    BY <1>1, <2>14 DEF CodesSound
  <2>19. CodesSound'
    BY <1>1, <2>13, <2>16, <2>17, <2>18 DEF CodesSound
  <2>20. QED
    BY <2>7, <2>8, <2>19 DEF IInv
<1>4. QED
  BY <1>2, <1>3

LEMMA SendMailInv ==
    ASSUME IInv, NEW c \in Clients, SendMail(c)
    PROVE  IInv'
<1>1. /\ Typed /\ Sessions /\ CodesSound /\ job[c] \in Job /\ job[c].at = "mail"
      /\ Moves(c, NoJob) /\ NoJob.token <= now
      /\ UNCHANGED <<password, session, code, resets, raced, held, author, now, faults, moves>>
  BY AnswerMoves DEF SendMail, IInv, Typed, TypeOK
<1>2. job[c].k \in Codes
  BY <1>1 DEF CodesSound
<1>3. mailbox' \in [Emails -> SUBSET Codes]
  BY <1>1, <1>2 DEF SendMail, Typed, TypeOK
<1>4. Typed'
  BY <1>1, <1>3, MoveTyped DEF Typed, TypeOK
<1>5. Sessions' /\ CodesSound'
  BY <1>1, NoJobType, SessionsWait, OneWaits DEF Busy, NoJob
<1>6. QED
  BY <1>4, <1>5 DEF IInv

\* Users of other codes, and other users of this one, are where they were.
LEMMA UsersMove ==
    ASSUME Typed, NEW c, NEW j, Moves(c, j), NEW k
    PROVE  /\ Users(k)' = IF j.k = k /\ j.at \in Busy THEN Users(k) \cup {c} ELSE Users(k) \ {c}
           /\ job'[c] = j /\ \A d \in Clients \ {c} : job'[d] = job[d]
BY DEF Typed, TypeOK, Moves, Users

LEMMA ResetInv ==
    ASSUME IInv, NEW c \in Clients, NEW k \in Codes, NEW p \in Passwords,
           ResetWith(c, k, p), moves' \in Nat
    PROVE  IInv'
<1> PICK j : j = [NoJob EXCEPT !.op = "reset", !.at = "password", !.k = k, !.pw = p]
  OBVIOUS
<1>1. /\ Typed /\ Sessions /\ CodesSound /\ job[c].at = "idle" /\ job' = [job EXCEPT ![c] = j]
      /\ raced' = IF InUse(k) THEN raced \cup {k} ELSE raced
      /\ ~Free(k) /\ ~code[k].used
      /\ UNCHANGED <<password, session, code, mailbox, resets, held, author, now, faults>>
  BY DEF ResetWith, Idle, Usable, IInv
<1>2. j \in Job /\ j.op = "reset" /\ j.at = "password" /\ j.token = 0 /\ j.k = k
  BY NoJobType DEF Job, Ops, Steps, NoJob
<1>3. Moves(c, j) /\ j.token <= now
  BY <1>1, <1>2 DEF Moves, Typed, TypeOK
<1>4. Typed'
  BY <1>1, <1>3, MoveTyped DEF Typed, TypeOK
<1>5. Sessions'
  BY <1>1, <1>2, <1>3, SessionsWait
<1>6. job'[c] = j /\ \A d \in Clients \ {c} : job'[d] = job[d]
  BY <1>1, <1>3, UsersMove
<1> DEFINE moved(m) == IF m = k THEN Users(m) \cup {c} ELSE Users(m) \ {c}
<1>7. ASSUME NEW m
      PROVE  Users(m)' = moved(m)
  <2>1. Typed /\ Moves(c, j)
    BY <1>1, <1>3
  <2>2. Users(m)' = IF j.k = m /\ j.at \in Busy THEN Users(m) \cup {c} ELSE Users(m) \ {c}
    BY ONLY <2>1, UsersMove
  <2>3. QED
    BY <1>2, <2>2 DEF Busy
<1>8. ASSUME NEW m \in Codes \ raced'
      PROVE  Once(m)'
  <2>1. m \notin raced /\ Once(m)
    BY <1>1, <1>8 DEF CodesSound
  <2>2. CASE m = k
    <3>1. Users(k) = {}
      BY <1>1, <1>8, <2>2 DEF InUse, Users, Busy
    <3>2. Users(k)' = {c}
      BY <1>7, <3>1
    <3>3. resets[k] = 0
      BY <1>1, <2>1, <2>2, <3>1 DEF Once
    <3>4. QED
      BY <1>1, <1>2, <1>6, <2>2, <3>2, <3>3 DEF Once
  <2>3. CASE m # k
    <3>1. c \notin Users(m)
      BY <1>1 DEF Users, Busy
    <3>2. Users(m)' = Users(m)
      BY <1>7, <2>3, <3>1
    <3>3. \A d \in Users(m) : job'[d] = job[d]
      BY <1>6, <3>1 DEF Users
    <3>4. QED
      BY <1>1, <2>1, <3>2, <3>3 DEF Once
  <2>4. QED
    BY <2>2, <2>3
<1>9. CodesSound'
  <2>1. ASSUME NEW d \in Clients, job'[d].at \in Busy
        PROVE  job'[d].k \in Codes /\ (~Free(job[d].k))'
    BY <1>1, <1>2, <1>6, <2>1 DEF CodesSound, Free
  <2>2. \A d \in Clients : job'[d].at = "mail" => job'[d].k \in Codes
    BY <1>1, <1>2, <1>6 DEF CodesSound
  <2>3. QED
    BY <1>1, <1>8, <2>1, <2>2 DEF CodesSound, Free
<1>10. QED
  BY <1>4, <1>5, <1>9 DEF IInv

LEMMA SetPasswordInv ==
    ASSUME IInv, NEW c \in Clients, SetPassword(c)
    PROVE  IInv'
<1> PICK k : k = job[c].k
  OBVIOUS
<1>1. /\ Typed /\ Sessions /\ CodesSound /\ job[c] \in Job /\ job[c].at = "password"
      /\ UNCHANGED <<session, code, mailbox, raced, held, author, now, faults, moves>>
  BY DEF SetPassword, IInv, Typed, TypeOK
<1>2. k \in Codes /\ ~Free(k) /\ c \in Users(k)
  BY <1>1 DEF CodesSound, Users, Busy
<1>3. PICK j \in Job : Moves(c, j) /\ j.at = "mark" /\ j.token <= now /\ j.k = k
  BY <1>1, GotoMoves DEF SetPassword, Steps
<1>4. /\ password' \in [Emails -> Passwords \cup {Nobody}]
      /\ resets' \in [Codes -> Nat] /\ resets'[k] = resets[k] + 1
      /\ \A m \in Codes \ {k} : resets'[m] = resets[m]
  <2>1. job[c].pw \in Passwords \cup {Nobody}
    BY <1>1 DEF Job
  <2>2. password' = [password EXCEPT ![code[k].owner] = job[c].pw]
    BY DEF SetPassword
  <2>3. password' \in [Emails -> Passwords \cup {Nobody}]
    BY <1>1, <2>1, <2>2 DEF Typed, TypeOK
  <2>4. resets' = [resets EXCEPT ![k] = @ + 1] /\ resets \in [Codes -> Nat]
    BY <1>1 DEF SetPassword, Typed, TypeOK
  <2>5. QED
    BY <1>2, <2>3, <2>4
<1>5. Typed'
  BY <1>1, <1>3, <1>4, MoveTyped DEF Typed, TypeOK
<1>6. Sessions'
  BY <1>1, <1>3, SessionsWait
<1>7. job'[c] = j /\ \A d \in Clients \ {c} : job'[d] = job[d]
  BY <1>1, <1>3, UsersMove
<1>8. \A m : Users(m)' = Users(m)
  BY <1>1, <1>2, <1>3, UsersMove DEF Users, Busy
<1>9. ASSUME NEW m \in Codes \ raced
      PROVE  Once(m)'
  <2>1. Once(m)
    BY <1>1, <1>9 DEF CodesSound
  <2>2. CASE m = k
    <3>1. \A d \in Users(k) : d = c
      BY <1>2, <2>1, <2>2 DEF Once
    <3>2. resets'[k] = 1
      BY <1>1, <1>2, <1>4, <2>1, <2>2 DEF Once
    <3>3. QED
      BY <1>2, <1>3, <1>7, <1>8, <2>2, <3>1, <3>2 DEF Once
  <2>3. CASE m # k
    <3>1. \A d \in Users(m) : job'[d] = job[d]
      BY <1>7, <2>3 DEF Users
    <3>2. QED
      BY <1>1, <1>4, <1>8, <2>1, <2>3, <3>1 DEF Once
  <2>4. QED
    BY <2>2, <2>3
<1>10. CodesSound'
  <2>1. \A m \in Codes : Free(m)' => (resets[m] = 0)'
    BY <1>1, <1>2, <1>4 DEF CodesSound, Free
  <2>2. \A d \in Clients : (job[d].at \in Busy => job[d].k \in Codes /\ ~Free(job[d].k))'
    BY <1>1, <1>2, <1>3, <1>7 DEF CodesSound, Free
  <2>3. \A d \in Clients : job'[d].at = "mail" => job'[d].k \in Codes
    BY <1>1, <1>3, <1>7 DEF CodesSound
  <2>4. QED
    BY <1>1, <1>9, <2>1, <2>2, <2>3 DEF CodesSound
<1>11. QED
  BY <1>5, <1>6, <1>10 DEF IInv

\* A user of code k leaves it, having marked it or raced.
LEMMA UserLeaves ==
    ASSUME Typed, CodesSound, NEW c \in Clients, Moves(c, NoJob), resets' = resets,
           code' = code \/ \E k \in Codes : code' = [code EXCEPT ![k].used = TRUE],
           raced' \in SUBSET Codes, raced \subseteq raced',
           job[c].at = "mark" /\ job[c].k \notin raced' => code'[job[c].k].used
    PROVE  CodesSound' /\ code' \in [Codes -> Code]
<1>1. /\ code' \in [Codes -> Code]
      /\ \A m \in Codes : code'[m].born = code[m].born /\ (code[m].used => code'[m].used)
  <2>1. CASE code' = code
    BY <2>1 DEF Typed, TypeOK
  <2>2. ASSUME NEW k \in Codes, code' = [code EXCEPT ![k].used = TRUE]
        PROVE  /\ code' \in [Codes -> Code]
               /\ \A m \in Codes : code'[m].born = code[m].born /\ (code[m].used => code'[m].used)
    <3> PICK row : row = [code[k] EXCEPT !.used = TRUE]
      OBVIOUS
    <3>1. code \in [Codes -> Code] /\ code[k] \in Code
      BY DEF Typed, TypeOK
    <3>2. row \in Code /\ row.born = code[k].born /\ row.used
      BY <3>1 DEF Code
    <3>3. code' = [code EXCEPT ![k] = row]
      BY <2>2
    <3>4. QED
      BY <3>1, <3>2, <3>3
  <2>3. QED
    BY <2>1, <2>2
<1>2. job'[c] = NoJob /\ \A d \in Clients \ {c} : job'[d] = job[d]
  BY UsersMove
<1>3. ASSUME NEW m
      PROVE  Users(m)' = Users(m) \ {c}
  BY UsersMove, NoJobType DEF Busy
<1>4. ASSUME NEW m \in Codes \ raced'
      PROVE  Once(m)'
  <2>1. Once(m) /\ Users(m)' = Users(m) \ {c}
    BY <1>3, <1>4 DEF CodesSound
  <2>2. \A d \in Users(m) \ {c} : job'[d] = job[d]
    BY <1>2 DEF Users
  <2>3. CASE c \in Users(m)
    <3>1. Users(m)' = {}
      BY <2>1, <2>3 DEF Once
    <3>2. resets[m] = 0 \/ (resets[m] = 1 /\ job[c].at = "mark" /\ job[c].k = m)
      BY <2>1, <2>3 DEF Once, Users
    <3>3. resets[m] = 0 \/ (resets[m] = 1 /\ code'[m].used)
      BY <1>4, <3>2
    <3>4. QED
      BY <3>1, <3>3 DEF Once
  <2>4. CASE c \notin Users(m)
    <3>1. Users(m)' = Users(m) /\ (code[m].used => code'[m].used)
      BY <1>1, <1>4, <2>1, <2>4
    <3>2. QED
      BY <2>1, <2>2, <3>1 DEF Once
  <2>5. QED
    BY <2>3, <2>4
<1>5. \A m \in Codes : Free(m)' <=> Free(m)
  BY <1>1 DEF Free
<1>6. \A d \in Clients : job'[d].at \in Busy => job'[d].k \in Codes /\ ~Free(job'[d].k)
  BY <1>2, NoJobType DEF CodesSound, Busy
<1>7. \A d \in Clients : (job[d].at \in Busy => job[d].k \in Codes /\ ~Free(job[d].k))'
  BY <1>5, <1>6 DEF Free
<1>8. \A d \in Clients : job'[d].at = "mail" => job'[d].k \in Codes
  BY <1>2, NoJobType DEF CodesSound
<1>9. QED
  BY <1>1, <1>4, <1>5, <1>7, <1>8 DEF CodesSound

LEMMA MarkUsedInv ==
    ASSUME IInv, NEW c \in Clients, MarkUsed(c)
    PROVE  IInv'
<1>1. /\ Typed /\ Sessions /\ CodesSound /\ job[c].at = "mark" /\ Moves(c, NoJob)
      /\ NoJob.token <= now
      /\ UNCHANGED <<password, session, mailbox, resets, raced, held, author, now, faults, moves>>
  BY AnswerMoves DEF MarkUsed, IInv
<1> PICK k : k = job[c].k
  OBVIOUS
<1>2. k \in Codes /\ code' = [code EXCEPT ![k].used = TRUE] /\ raced \subseteq Codes
  BY <1>1 DEF CodesSound, Busy, MarkUsed, Typed, TypeOK
<1>3. code'[k].used
  BY <1>1, <1>2 DEF Typed, TypeOK, Code
<1>4. CodesSound' /\ code' \in [Codes -> Code]
  BY <1>1, <1>2, <1>3, UserLeaves
<1>5. Typed'
  BY <1>1, <1>4, MoveTyped DEF Typed, TypeOK
<1>6. Sessions'
  BY <1>1, NoJobType, SessionsWait DEF NoJob
<1>7. QED
  BY <1>4, <1>5, <1>6 DEF IInv

-----------------------------------------------------------------------------
(* Failures and the clock.                                                 *)

LEMMA FailInv ==
    ASSUME IInv, NEW c \in Clients, Fail(c)
    PROVE  IInv'
<1>1. /\ Typed /\ Sessions /\ CodesSound /\ job[c] \in Job /\ Moves(c, NoJob)
      /\ NoJob.token <= now
      /\ UNCHANGED <<password, session, code, mailbox, resets, now, moves>>
  BY AnswerMoves DEF Fail, IInv, Typed, TypeOK
<1>2. faults' \in Nat /\ raced' \in SUBSET Codes /\ raced \subseteq raced'
      /\ (job[c].at = "mark" => job[c].k \in raced')
  BY <1>1 DEF Fail, Typed, TypeOK, CodesSound, Busy
<1>3. CodesSound'
  BY <1>1, <1>2, UserLeaves
<1>4. /\ Sessions' /\ held' \in [Clients -> 0 .. now]
      /\ author' \in [Emails -> Clients \cup {Nobody}]
  <2>1. CASE job[c].op = "refresh"
    BY <1>1, <2>1, GivesUp DEF Fail
  <2>2. CASE job[c].op # "refresh" /\ job[c].at # "profile"
    <3>1. UNCHANGED <<session, held, author>>
      BY <1>1, <2>2 DEF Fail
    <3>2. QED
      BY <1>1, <2>2, <3>1, NoJobType, SessionsWait DEF NoJob, Typed, TypeOK
  <2>3. CASE job[c].op # "refresh" /\ job[c].at = "profile"
    <3>1. UNCHANGED <<session, held>> /\ author' = Disown(c)
      BY <1>1, <2>3 DEF Fail
    <3>2. /\ author' \in [Emails -> Clients \cup {Nobody}]
          /\ \A e \in Emails : author'[e] # c
          /\ \A e \in Emails, d \in Clients : author'[e] = d => author[e] = d
      BY <1>1, <3>1, AccountsAssumption DEF Disown, Typed, TypeOK
    <3>3. \A d \in Clients : EmailOf[d] \in Emails
      BY AccountsAssumption
    <3>4. job'[c] = NoJob /\ \A d \in Clients \ {c} : job'[d] = job[d]
      BY <1>1, UsersMove
    <3>5. Kept(c)' /\ Refreshing(c)'
      BY <3>2, <3>3, <3>4, NoJobType DEF Kept, Refreshing, At
    <3>6. \A d \in Clients \ {c} : Kept(d)' /\ Refreshing(d)'
      BY <1>1, <3>1, <3>2, <3>3, <3>4 DEF Sessions, Kept, Refreshing, At
    <3>7. QED
      BY <1>1, <3>1, <3>2, <3>5, <3>6 DEF Sessions, Typed, TypeOK
  <2>4. QED
    BY <2>1, <2>2, <2>3
<1>5. Typed'
  BY <1>1, <1>2, <1>4, MoveTyped DEF Typed, TypeOK
<1>6. QED
  BY <1>3, <1>4, <1>5 DEF IInv

LEMMA TickInv ==
    ASSUME IInv, Tick
    PROVE  IInv'
<1>1. now \in Nat /\ now' = now + 1 /\ Typed
      /\ UNCHANGED <<password, session, Codes_, held, job, author, faults, moves>>
  BY DEF Tick, IInv, Typed, TypeOK
<1>2. 0 .. now \subseteq 0 .. now'
  BY <1>1
<1>3. \A c \in Clients : job[c].token \in Nat
  BY <1>1 DEF Typed, TypeOK, Job
<1>4. Typed'
  BY <1>1, <1>2, <1>3 DEF Typed, TypeOK, Codes_
<1>5. Sessions'
  BY <1>1 DEF IInv, Sessions, Kept, Refreshing, At
<1>6. CodesSound'
  BY <1>1, CodesWait DEF IInv, Codes_
<1>7. QED
  BY <1>4, <1>5, <1>6 DEF IInv

-----------------------------------------------------------------------------
LEMMA InitInv ==
    ASSUME Init
    PROVE  IInv
<1>1. \A c \in Clients : job[c] = NoJob /\ job[c].at = "idle" /\ job[c].token = 0
  BY NoJobType DEF Init
<1>2. \A k \in Codes : code[k] \in Code /\ code[k].born = 0
  BY DEF Init, Code
<1>3. Typed
  <2>1. now = 1 /\ now \in Nat /\ now > 0 /\ 0 \in 0 .. now
    BY DEF Init
  <2>2. job \in [Clients -> Job] /\ \A c \in Clients : job[c].token <= now
    BY <1>1, <2>1, NoJobType DEF Init
  <2>3. code \in [Codes -> Code]
    BY <1>2 DEF Init
  <2>4. session \in [Emails -> 0 .. now] /\ held \in [Clients -> 0 .. now]
    BY <2>1 DEF Init
  <2>5. QED
    BY <2>1, <2>2, <2>3, <2>4 DEF Init, Typed, TypeOK
<1>4. Sessions
  BY <1>1, AccountsAssumption DEF Init, Sessions, Kept, Refreshing, At
<1>5. \A k \in Codes : Users(k) = {} /\ resets[k] = 0
  BY <1>1 DEF Init, Users, Busy
<1>6. CodesSound
  BY <1>1, <1>2, <1>5 DEF CodesSound, Free, Once, Busy
<1>7. QED
  BY <1>3, <1>4, <1>6 DEF IInv

LEMMA StepInv ==
    ASSUME IInv, [Next]_vars
    PROVE  IInv'
<1>1. moves \in Nat
  BY DEF IInv, Typed, TypeOK
<1>2. ASSUME NEW c \in Clients, Arrive(c)
      PROVE  IInv'
  <2>1. CASE \E p \in Passwords : SignInStart(c, p)
    BY <1>1, <2>1, SignInInv DEF SignInStart, Move
  <2>2. CASE \E p \in Passwords, k \in Codes : ResetStart(c, k, p)
    BY <1>1, <2>2, ResetInv DEF ResetStart, Move
  <2>3. CASE \E e \in Emails, k \in Drawn : ForgotStart(c, e, k)
    BY <1>1, <2>3, ForgotInv DEF ForgotStart, Move, Drawn
  <2>4. QED
    BY <1>2, <2>1, <2>2, <2>3, SignUpInv, RefreshInv, LogoutInv DEF Arrive
<1>3. ASSUME NEW c \in Clients, RetrySignIn(c)
      PROVE  IInv'
  BY <1>1, <1>3, SignInInv DEF RetrySignIn
<1>6. ASSUME NEW e \in Emails, Recover(e)
      PROVE  IInv'
  <2>1. PICK c \in Clients : EmailOf[c] = e /\ (RetryForgot(c) \/ RetryReset(c))
    BY <1>6 DEF Recover
  <2>2. moves' \in Nat /\ mailbox[e] \subseteq Codes
    BY <1>1, <1>6 DEF Recover, IInv, Typed, TypeOK
  <2>3. CASE RetryForgot(c)
    BY <2>1, <2>2, <2>3, ForgotInv DEF RetryForgot, Drawn
  <2>4. CASE RetryReset(c)
    BY <2>1, <2>2, <2>4, ResetInv DEF RetryReset
  <2>5. QED
    BY <2>1, <2>3, <2>4
<1>4. ASSUME NEW c \in Clients, Advance(c) \/ Fail(c)
      PROVE  IInv'
  BY <1>4, CreateUserInv, StoreTokensInv, GetProfileInv, SendMailInv, SetPasswordInv,
     MarkUsedInv, FailInv DEF Advance
<1>5. CASE UNCHANGED vars
  <2>1. UNCHANGED <<password, session, code, mailbox, held, job, author, resets, raced,
                    now, faults, moves>>
    BY <1>5 DEF vars
  <2>2. Typed' /\ Sessions'
    BY <2>1 DEF IInv, Typed, TypeOK, Sessions, Kept, Refreshing, At
  <2>3. CodesSound'
    BY <2>1, CodesWait DEF IInv
  <2>4. QED
    BY <2>2, <2>3 DEF IInv
<1>7. QED
  BY <1>2, <1>3, <1>4, <1>5, <1>6, TickInv DEF Next

\* Accounts, sessions, codes and requests are well typed.
THEOREM TypeCorrect == Spec => []TypeOK
<1>1. Init => IInv
  BY InitInv
<1>2. IInv /\ [Next]_vars => IInv'
  BY StepInv
<1>3. IInv => TypeOK
  BY DEF IInv, Typed
<1>4. QED
  BY <1>1, <1>2, <1>3, PTL DEF Spec

(***************************************************************************)
(* Any number of apps of one account may sign in, refresh and log out at   *)
(* once: the one whose request wrote the session last is signed in.        *)
(***************************************************************************)
THEOREM AuthorStaysIn == Spec => []AuthorIsIn
<1>1. Init => IInv
  BY InitInv
<1>2. IInv /\ [Next]_vars => IInv'
  BY StepInv
<1>3. IInv => AuthorIsIn
  BY DEF IInv, Sessions, Kept, AuthorIsIn, Idle
<1>4. QED
  BY <1>1, <1>2, <1>3, PTL DEF Spec

(***************************************************************************)
(* A refresh that nobody overtook replaces the token it presented.         *)
(***************************************************************************)
THEOREM RefreshesReplace == Spec => []RefreshReplacesItsToken
<1>1. Init => IInv
  BY InitInv
<1>2. IInv /\ [Next]_vars => IInv'
  BY StepInv
<1>3. IInv => RefreshReplacesItsToken
  BY DEF IInv, Sessions, Refreshing, RefreshReplacesItsToken
<1>4. QED
  BY <1>1, <1>2, <1>3, PTL DEF Spec

(***************************************************************************)
(* A reset code changes one password once, but for races and failures.     *)
(***************************************************************************)
THEOREM CodesWorkOnce == Spec => []CodeWorksOnce
<1>1. Init => IInv
  BY InitInv
<1>2. IInv /\ [Next]_vars => IInv'
  BY StepInv
<1>3. IInv => CodeWorksOnce
  <2> SUFFICES ASSUME IInv, NEW k \in Codes \ raced
               PROVE  resets[k] <= 1
    BY DEF CodeWorksOnce
  <2>1. Once(k)
    BY DEF IInv, CodesSound
  <2>2. resets[k] = 0 \/ resets[k] = 1
    BY <2>1 DEF Once
  <2>3. QED
    BY <2>2
<1>4. QED
  BY <1>1, <1>2, <1>3, PTL DEF Spec

(***************************************************************************)
(* The register of the accounts.  What the refinement of AccountRegister   *)
(* rests on, beside the invariant above: who each code was made for and    *)
(* which code each request carries.                                        *)
(***************************************************************************)
\* A code is made for one address, for good; a request that uses a code uses
\* one that was made.
Made == \A k \in Codes : Free(k) <=> code[k].owner = Nobody

Unspent == \A k \in Codes : Free(k) => ~code[k].used

Carries(c) ==
    /\ job[c].at \in {"password", "mark"}
         => job[c].k \in Codes /\ code[job[c].k].owner # Nobody
    /\ job[c].at \in {"create", "password"} => job[c].pw \in Passwords

RInv == Made /\ Unspent /\ \A c \in Clients : Carries(c)

\* The variables of the register.
Entering == {c \in Clients : job[c].at = "password"}

Entry(c) == <<c, job[c].k, job[c].pw>>

Entered == {Entry(c) : c \in Entering}

OwnerOf == [k \in Codes |-> code[k].owner]

Used == {k \in Codes : code[k].used}

LEMMA RegistryIs ==
    /\ Registry!vars = <<password, OwnerOf, Used, Entered>>
    /\ Registry!vars' = <<password', OwnerOf', Used', Entered'>>
<1>1. Entered = {<<c, job[c].k, job[c].pw>> :
                    c \in {d \in Clients : job[d].at = "password"}}
  BY Zenon DEF Entered, Entry, Entering
<1>2. Entered' = {<<c, job'[c].k, job'[c].pw>> :
                    c \in {d \in Clients : job'[d].at = "password"}}
  BY Zenon DEF Entered, Entry, Entering
<1> QED
  BY <1>1, <1>2, Zenon DEF Registry!vars, OwnerOf, Used

\* Client c does something, no other request changes what it carries.
Others(c) ==
    \A d \in Clients \ {c} :
        job'[d].at = job[d].at /\ job'[d].k = job[d].k /\ job'[d].pw = job[d].pw

LEMMA MovesOthers ==
    ASSUME Typed, NEW c, NEW j, Moves(c, j)
    PROVE  Others(c) /\ job'[c] = j
BY DEF Typed, TypeOK, Moves, Others

LEMMA EnteredStays ==
    ASSUME NEW c \in Clients, Others(c), job[c].at # "password", job'[c].at # "password"
    PROVE  Entered' = Entered
<1>1. Entering' = Entering
  BY DEF Entering, Others
<1>2. \A d \in Entering : Entry(d)' = Entry(d)
  BY DEF Entering, Entry, Others
<1> QED
  BY <1>1, <1>2 DEF Entered

\* An unchanged code table keeps what is carried.
LEMMA CarriesStays ==
    ASSUME NEW c \in Clients, RInv, Others(c), code' = code, Carries(c)'
    PROVE  \A d \in Clients : Carries(d)'
BY DEF RInv, Others, Carries

LEMMA QuietStep ==
    ASSUME NEW c \in Clients, RInv, Others(c), Carries(c)',
           job[c].at # "password", job'[c].at # "password",
           UNCHANGED <<password, code>>
    PROVE  RInv' /\ UNCHANGED Registry!vars
<1>1. Entered' = Entered
  BY EnteredStays
<1>2. OwnerOf' = OwnerOf /\ Used' = Used
  BY DEF OwnerOf, Used
<1>3. Made' /\ Unspent'
  BY DEF RInv, Made, Unspent, Free
<1>4. \A d \in Clients : Carries(d)'
  BY CarriesStays
<1> QED
  BY <1>1, <1>2, <1>3, <1>4, RegistryIs DEF RInv

\* The steps of the register.
Step == RInv' /\ (UNCHANGED Registry!vars \/ Registry!Next)

LEMMA NoJobCarries ==
    ASSUME NEW c, NEW j, j.at \in {"idle", "store", "profile"}, job'[c] = j
    PROVE  Carries(c)' /\ job'[c].at # "password"
BY DEF Carries

LEMMA JobIs ==
    ASSUME Typed, NEW c \in Clients
    PROVE  job[c] \in Job /\ EmailOf[c] \in Emails
BY AccountsAssumption DEF Typed, TypeOK

\* Requests that begin without a code, and the answers of requests without one.
LEMMA PlainMove ==
    ASSUME Typed, RInv, NEW c, NEW j, Moves(c, j), job[c].at # "password",
           j.at \in {"idle", "create", "store", "profile"},
           j.at = "create" => j.pw \in Passwords,
           UNCHANGED <<password, code>>
    PROVE  Step
<1>1. c \in Clients /\ Others(c) /\ job'[c] = j
  BY MovesOthers DEF Moves
<1>2. Carries(c)' /\ job'[c].at # "password"
  BY <1>1 DEF Carries
<1> QED
  BY <1>1, <1>2, QuietStep DEF Step

LEMMA SignUpStep ==
    ASSUME Typed, RInv, NEW c \in Clients, NEW p \in Passwords, SignUpStart(c, p)
    PROVE  Step
<1> PICK j : j = [NoJob EXCEPT !.op = "sign up", !.at = "create", !.pw = p]
  OBVIOUS
<1>1. j \in Job /\ j.at = "create" /\ j.pw = p
  BY NoJobType DEF Job, Ops, Steps, NoJob
<1>2. Moves(c, j) /\ job[c].at # "password"
  BY <1>1 DEF SignUpStart, Moves, Idle
<1> QED
  BY <1>1, <1>2, PlainMove DEF SignUpStart, Codes_

LEMMA SignInStep ==
    ASSUME Typed, RInv, NEW c \in Clients, NEW p, SignInWith(c, p)
    PROVE  Step
<1> PICK j : j = [NoJob EXCEPT !.op = "sign in", !.at = "store", !.token = now]
  OBVIOUS
<1>1. now \in Nat
  BY DEF Typed, TypeOK
<1>2. j \in Job /\ j.at = "store"
  BY <1>1, NoJobType DEF Job, Ops, Steps, NoJob
<1>3. Moves(c, j) /\ job[c].at # "password"
  BY <1>2 DEF SignInWith, Moves, Idle
<1> QED
  BY <1>2, <1>3, PlainMove DEF SignInWith, Codes_

LEMMA SameStep ==
    ASSUME RInv, UNCHANGED <<password, code, job>>
    PROVE  Step
<1>1. Entered' = Entered
  BY DEF Entered, Entering, Entry
<1>2. OwnerOf' = OwnerOf /\ Used' = Used
  BY DEF OwnerOf, Used
<1>3. RInv'
  BY DEF RInv, Made, Unspent, Free, Carries
<1> QED
  BY <1>1, <1>2, <1>3, RegistryIs DEF Step

LEMMA RefreshStep ==
    ASSUME Typed, RInv, NEW c \in Clients, RefreshStart(c)
    PROVE  Step
<1>1. Idle(c) /\ now \in Nat /\ UNCHANGED <<password, code>>
  BY DEF RefreshStart, Codes_, Typed, TypeOK
<1>2. CASE UNCHANGED job
  BY <1>1, <1>2, SameStep
<1>3. CASE ~UNCHANGED job
  <2> PICK j : j = [NoJob EXCEPT !.op = "refresh", !.at = "store", !.token = now]
    OBVIOUS
  <2>1. j \in Job /\ j.at = "store"
    BY <1>1, NoJobType DEF Job, Ops, Steps, NoJob
  <2>2. Moves(c, j) /\ job[c].at # "password"
    BY <1>1, <1>3, <2>1 DEF RefreshStart, Moves, Idle
  <2> QED
    BY <1>1, <2>1, <2>2, PlainMove
<1> QED
  BY <1>2, <1>3

\* Writing a session changes no code.
LEMMA StoreTokensStep ==
    ASSUME Typed, RInv, NEW c \in Clients, StoreTokens(c)
    PROVE  Step
<1>1. job[c].at # "password" /\ UNCHANGED <<password, code>>
  BY DEF StoreTokens, Codes_
<1>2. job'[c].at = "profile"
  BY StoreMoves
<1>3. Others(c)
  BY StoreMoves, Overtaking DEF Others
<1>4. Carries(c)'
  BY <1>2 DEF Carries
<1> QED
  BY <1>1, <1>2, <1>3, <1>4, QuietStep DEF Step

LEMMA LogoutStep ==
    ASSUME Typed, RInv, NEW c \in Clients, Logout(c)
    PROVE  Step
<1>1. job[c].at = "idle" /\ UNCHANGED <<password, code>>
  BY DEF Logout, Codes_, Idle
<1>2. \A d \in Clients :
        job'[d].at = job[d].at /\ job'[d].k = job[d].k /\ job'[d].pw = job[d].pw
  BY Overtaking DEF Logout
<1>3. Others(c) /\ Carries(c)'
  BY <1>1, <1>2 DEF Others, Carries
<1> QED
  BY <1>1, <1>2, <1>3, QuietStep DEF Step

LEMMA GetProfileStep ==
    ASSUME Typed, RInv, NEW c \in Clients, GetProfile(c)
    PROVE  Step
<1>1. Moves(c, NoJob) /\ NoJob.at = "idle" /\ job[c].at # "password"
  BY AnswerMoves, NoJobType DEF GetProfile
<1> QED
  BY <1>1, PlainMove DEF GetProfile, Codes_

LEMMA TickStep ==
    ASSUME RInv, Tick
    PROVE  Step
BY SameStep DEF Tick, Codes_

\* An address is registered once.
LEMMA CreateUserStep ==
    ASSUME Typed, RInv, NEW c \in Clients, CreateUser(c)
    PROVE  Step
<1>1. /\ job[c] \in Job /\ job[c].at = "create" /\ EmailOf[c] \in Emails
      /\ UNCHANGED code
  BY JobIs DEF CreateUser, At, Codes_
<1>2. job[c].pw \in Passwords
  BY <1>1 DEF RInv, Carries
<1>3. CASE Exists(EmailOf[c])
  <2>1. Moves(c, NoJob) /\ NoJob.at = "idle" /\ UNCHANGED password
    BY <1>3, AnswerMoves, NoJobType DEF CreateUser
  <2> QED
    BY <1>1, <2>1, PlainMove
<1>4. CASE ~Exists(EmailOf[c])
  <2> PICK j : j = [job[c] EXCEPT !.at = "store", !.token = now]
    OBVIOUS
  <2>1. now \in Nat
    BY DEF Typed, TypeOK
  <2>2. j \in Job /\ j.at = "store"
    BY <1>1, <2>1 DEF Job, Steps
  <2>3. job' = [job EXCEPT ![c] = j] /\ password' = [password EXCEPT ![EmailOf[c]] = job[c].pw]
    BY <1>4 DEF CreateUser
  <2>4. Others(c) /\ job'[c] = j
    BY <2>2, <2>3, MovesOthers DEF Moves
  <2>5. Entered' = Entered
    BY <1>1, <2>2, <2>4, EnteredStays
  <2>6. OwnerOf' = OwnerOf /\ Used' = Used
    BY <1>1 DEF OwnerOf, Used
  <2>7. Carries(c)'
    BY <2>2, <2>4 DEF Carries
  <2>8. RInv'
    BY <1>1, <2>4, <2>7, CarriesStays DEF RInv, Made, Unspent, Free
  <2>9. Registry!Register(EmailOf[c], job[c].pw)
    <3>1. password[EmailOf[c]] = Nobody
      BY <1>4 DEF Exists
    <3> QED
      BY <1>1, <2>3, <2>5, <2>6, <3>1, Zenon
      DEF Registry!Register, OwnerOf, Used, Entered, Entering, Entry
  <2> QED
    BY <1>1, <1>2, <2>8, <2>9 DEF Step, Registry!Next
<1> QED
  BY <1>3, <1>4

\* A code is made for the address that was asked for.
LEMMA ForgotStep ==
    ASSUME Typed, RInv, NEW c \in Clients, NEW e \in Emails, NEW k \in Codes, ForgotWith(c, e, k)
    PROVE  Step
<1>1. job[c].at = "idle" /\ Exists(e) /\ e # Nobody /\ UNCHANGED password
  BY AccountsAssumption DEF ForgotWith, Idle
<1>2. CASE ~Free(k)
  BY <1>1, <1>2, SameStep DEF ForgotWith
<1>3. CASE Free(k)
  <2> PICK j : j = [NoJob EXCEPT !.op = "reset", !.at = "mail", !.k = k]
    OBVIOUS
  <2> PICK row : row = [owner |-> e, born |-> now, used |-> FALSE]
    OBVIOUS
  <2>1. j \in Job /\ j.at = "mail" /\ j.k = k
    BY NoJobType DEF Job, Ops, Steps, NoJob
  <2>2. job' = [job EXCEPT ![c] = j] /\ code' = [code EXCEPT ![k] = row]
    BY <1>3 DEF ForgotWith
  <2>3. Others(c) /\ job'[c] = j
    BY <2>1, <2>2, MovesOthers DEF Moves
  <2>4. /\ DOMAIN code = Codes /\ now > 0 /\ now \in Nat
        /\ row.owner = e /\ row.born = now /\ row.used = FALSE
    BY DEF Typed, TypeOK
  <2>5. code'[k] = row /\ \A m \in Codes \ {k} : code'[m] = code[m]
    BY <2>2, <2>4
  <2>6. code[k].owner = Nobody /\ ~code[k].used
    BY <1>3 DEF RInv, Made, Unspent
  <2>7. Entered' = Entered
    BY <1>1, <2>1, <2>3, EnteredStays
  <2>8. Used' = Used
    BY <2>4, <2>5, <2>6 DEF Used
  <2>9. OwnerOf' = [OwnerOf EXCEPT ![k] = e] /\ OwnerOf[k] = Nobody
    BY <2>4, <2>5, <2>6 DEF OwnerOf
  <2>10. Registry!MakeCode(e, k)
    <3>1. password[e] # Nobody
      BY <1>1 DEF Exists
    <3> QED
      BY <1>1, <2>7, <2>8, <2>9, <3>1, Zenon
      DEF Registry!MakeCode, OwnerOf, Used, Entered, Entering, Entry
  <2>11. Made' /\ Unspent'
    <3>1. \A m \in Codes : Free(m)' => m # k /\ Free(m)
      BY <2>4, <2>5 DEF Free
    <3>2. \A m \in Codes : code'[m].owner = Nobody => m # k /\ code[m].owner = Nobody
      BY <1>1, <2>4, <2>5
    <3>3. \A m \in Codes : m # k /\ Free(m) => Free(m)'
      BY <2>5 DEF Free
    <3>4. Made'
      BY <2>5, <3>1, <3>2, <3>3 DEF RInv, Made
    <3>5. Unspent'
      BY <2>5, <3>1, Zenon DEF RInv, Unspent
    <3> QED
      BY <3>4, <3>5
  <2>12. ASSUME NEW d \in Clients PROVE Carries(d)'
    <3>1. CASE d = c
      <4>1. job'[d].at = "mail"
        BY <2>1, <2>3, <3>1
      <4> QED
        BY <4>1 DEF Carries
    <3>2. CASE d # c
      <4>1. Carries(d)
        BY DEF RInv
      <4>2. job[d].at \in {"password", "mark"} => job[d].k # k
        BY <2>6, <4>1 DEF Carries
      <4> QED
        BY <2>3, <2>5, <3>2, <4>1, <4>2 DEF Others, Carries
    <3> QED
      BY <3>1, <3>2
  <2> QED
    BY <2>10, <2>11, <2>12 DEF Step, RInv, Registry!Next
<1> QED
  BY <1>2, <1>3

\* Mailing a code is no step of the register.
LEMMA SendMailStep ==
    ASSUME Typed, RInv, NEW c \in Clients, SendMail(c)
    PROVE  Step
<1>1. /\ job[c].at = "mail" /\ UNCHANGED <<password, code>>
      /\ Moves(c, NoJob) /\ NoJob.at = "idle"
  BY AnswerMoves, NoJobType DEF SendMail
<1> QED
  BY <1>1, PlainMove

\* A code is accepted only unused.
LEMMA ResetStep ==
    ASSUME Typed, RInv, NEW c \in Clients, NEW k \in Codes, NEW p \in Passwords,
           ResetWith(c, k, p)
    PROVE  Step
<1> PICK j : j = [NoJob EXCEPT !.op = "reset", !.at = "password", !.k = k, !.pw = p]
  OBVIOUS
<1>1. j \in Job /\ j.at = "password" /\ j.k = k /\ j.pw = p
  BY NoJobType DEF Job, Ops, Steps, NoJob
<1>2. /\ job[c].at = "idle" /\ UNCHANGED <<password, code>>
      /\ ~Free(k) /\ ~code[k].used /\ job' = [job EXCEPT ![c] = j]
  BY DEF ResetWith, Idle, Usable
<1>3. Others(c) /\ job'[c] = j
  BY <1>1, <1>2, MovesOthers DEF Moves
<1>4. code[k].owner # Nobody
  BY <1>2 DEF RInv, Made
<1>5. Carries(c)'
  BY <1>1, <1>2, <1>3, <1>4 DEF Carries
<1>6. RInv'
  BY <1>2, <1>3, <1>5, CarriesStays DEF RInv, Made, Unspent, Free
<1>7. Entered' = Entered \cup {<<c, k, p>>}
  <2>1. Entering' = Entering \cup {c} /\ c \notin Entering
    BY <1>1, <1>2, <1>3 DEF Entering, Others
  <2>2. Entry(c)' = <<c, k, p>>
    BY <1>1, <1>3 DEF Entry
  <2>3. \A d \in Entering : Entry(d)' = Entry(d)
    BY <1>3, <2>1 DEF Entering, Entry, Others
  <2> QED
    BY <2>1, <2>2, <2>3 DEF Entered
<1>8. OwnerOf' = OwnerOf /\ Used' = Used /\ OwnerOf[k] # Nobody /\ k \notin Used
  BY <1>2, <1>4 DEF OwnerOf, Used
<1>9. Registry!Enter(c, k, p)
  BY <1>2, <1>7, <1>8, Zenon DEF Registry!Enter, OwnerOf, Used, Entered, Entering, Entry
<1> QED
  BY <1>2, <1>6, <1>9 DEF Step, Registry!Next

\* A request that leaves the step before the password takes its entry with it.
LEMMA EntryLeaves ==
    ASSUME NEW c \in Clients, Others(c), job[c].at = "password", job'[c].at # "password"
    PROVE  /\ Entered' = Entered \ {<<c, job[c].k, job[c].pw>>}
           /\ <<c, job[c].k, job[c].pw>> \in Entered
<1>1. Entering' = Entering \ {c} /\ c \in Entering
  BY DEF Entering, Others
<1>2. Entry(c) = <<c, job[c].k, job[c].pw>>
  BY DEF Entry
<1>3. \A d \in Entering \ {c} : Entry(d)' = Entry(d) /\ Entry(d) # Entry(c)
  BY DEF Entering, Entry, Others
<1> QED
  BY <1>1, <1>2, <1>3 DEF Entered

LEMMA SetPasswordStep ==
    ASSUME Typed, RInv, NEW c \in Clients, SetPassword(c)
    PROVE  Step
<1> PICK k, p : k = job[c].k /\ p = job[c].pw
  OBVIOUS
<1> PICK j \in Job : Moves(c, j) /\ j.at = "mark" /\ j.k = k
  BY GotoMoves DEF SetPassword, Steps
<1>1. /\ job[c].at = "password" /\ UNCHANGED code
      /\ password' = [password EXCEPT ![code[k].owner] = p]
  BY DEF SetPassword
<1>2. k \in Codes /\ code[k].owner # Nobody /\ p \in Passwords
  BY <1>1 DEF RInv, Carries
<1>3. Others(c) /\ job'[c] = j
  BY MovesOthers
<1>4. Entered' = Entered \ {<<c, k, p>>} /\ <<c, k, p>> \in Entered
  BY <1>1, <1>3, EntryLeaves
<1>5. OwnerOf' = OwnerOf /\ Used' = Used
  BY <1>1 DEF OwnerOf, Used
<1>6. password' = [password EXCEPT ![OwnerOf[k]] = p]
  BY <1>1, <1>2 DEF OwnerOf
<1>7. Registry!Change(c, k, p)
  BY <1>1, <1>4, <1>5, <1>6, Zenon DEF Registry!Change, OwnerOf, Used, Entered, Entering, Entry
<1>8. Carries(c)'
  BY <1>1, <1>2, <1>3 DEF Carries
<1>9. RInv'
  BY <1>1, <1>3, <1>8, CarriesStays DEF RInv, Made, Unspent, Free
<1> QED
  BY <1>1, <1>2, <1>7, <1>9 DEF Step, Registry!Next

LEMMA MarkUsedStep ==
    ASSUME Typed, RInv, NEW c \in Clients, MarkUsed(c)
    PROVE  Step
<1> PICK k : k = job[c].k
  OBVIOUS
<1>1. /\ job[c].at = "mark" /\ UNCHANGED password
      /\ code' = [code EXCEPT ![k].used = TRUE]
      /\ Moves(c, NoJob) /\ NoJob.at = "idle"
  BY AnswerMoves, NoJobType DEF MarkUsed
<1>2. k \in Codes /\ code[k].owner # Nobody
  BY <1>1 DEF RInv, Carries
<1>3. Others(c) /\ job'[c] = NoJob
  BY <1>1, MovesOthers
<1>4. Entered' = Entered
  BY <1>1, <1>3, EnteredStays
<1>5. /\ \A m \in Codes : code'[m].owner = code[m].owner /\ code'[m].born = code[m].born
      /\ \A m \in Codes : code'[m].used = IF m = k THEN TRUE ELSE code[m].used
  <2>1. code \in [Codes -> Code]
    BY DEF Typed, TypeOK
  <2> PICK row : row = [code[k] EXCEPT !.used = TRUE]
    OBVIOUS
  <2>2. row.owner = code[k].owner /\ row.born = code[k].born /\ row.used = TRUE
    BY <1>2, <2>1 DEF Code
  <2>3. code' = [code EXCEPT ![k] = row]
    BY <1>1
  <2> QED
    BY <1>2, <2>1, <2>2, <2>3
<1>6. OwnerOf' = OwnerOf /\ Used' = Used \cup {k} /\ OwnerOf[k] # Nobody
  BY <1>2, <1>5 DEF OwnerOf, Used
<1>7. Registry!Retire(k)
  BY <1>1, <1>4, <1>6, Zenon DEF Registry!Retire, OwnerOf, Used, Entered, Entering, Entry
<1>8. Made' /\ Unspent'
  <2>1. \A m \in Codes : Free(m)' <=> Free(m)
    BY <1>5 DEF Free
  <2>2. Free(k) = FALSE
    BY <1>2 DEF RInv, Made
  <2>3. Made'
    BY <1>5, <2>1 DEF RInv, Made
  <2>4. \A m \in Codes : m # k => code'[m].used = code[m].used
    BY <1>5
  <2>5. Unspent'
    BY <2>1, <2>2, <2>4, Zenon DEF RInv, Unspent
  <2> QED
    BY <2>3, <2>5
<1>9. ASSUME NEW d \in Clients PROVE Carries(d)'
  BY <1>1, <1>3, <1>5 DEF RInv, Carries, Others
<1> QED
  BY <1>2, <1>7, <1>8, <1>9 DEF Step, RInv, Registry!Next

\* A request that fails writes nothing; what it had entered is given up.
LEMMA FailStep ==
    ASSUME Typed, RInv, NEW c \in Clients, Fail(c)
    PROVE  Step
<1>1. /\ Moves(c, NoJob) /\ NoJob.at = "idle" /\ UNCHANGED <<password, code>>
  BY AnswerMoves, NoJobType DEF Fail
<1>2. CASE job[c].at # "password"
  BY <1>1, <1>2, PlainMove
<1>3. CASE job[c].at = "password"
  <2> PICK k, p : k = job[c].k /\ p = job[c].pw
    OBVIOUS
  <2>1. k \in Codes /\ p \in Passwords
    BY <1>3 DEF RInv, Carries
  <2>2. Others(c) /\ job'[c] = NoJob
    BY <1>1, MovesOthers
  <2>3. Entered' = Entered \ {<<c, k, p>>}
    BY <1>1, <1>3, <2>2, EntryLeaves
  <2>4. OwnerOf' = OwnerOf /\ Used' = Used
    BY <1>1 DEF OwnerOf, Used
  <2>5. Registry!GiveUp(c, k, p)
    BY <1>1, <2>3, <2>4, Zenon DEF Registry!GiveUp, OwnerOf, Used, Entered, Entering, Entry
  <2>6. Carries(c)'
    BY <1>1, <2>2 DEF Carries
  <2>7. RInv'
    BY <1>1, <2>2, <2>6, CarriesStays DEF RInv, Made, Unspent, Free
  <2> QED
    BY <1>1, <2>1, <2>5, <2>7 DEF Step, Registry!Next
<1> QED
  BY <1>2, <1>3

LEMMA RegistryInit ==
    ASSUME Init
    PROVE  RInv /\ Registry!Init
<1>1. \A k \in Codes : code[k].owner = Nobody /\ code[k].born = 0 /\ code[k].used = FALSE
  BY DEF Init
<1>2. \A c \in Clients : job[c].at = "idle"
  BY DEF Init, NoJob
<1>4. RInv
  BY <1>1, <1>2 DEF RInv, Made, Unspent, Carries, Free
<1>5. Entered = {}
  BY <1>2 DEF Entered, Entering
<1>6. OwnerOf = [k \in Codes |-> Nobody] /\ Used = {}
  BY <1>1 DEF OwnerOf, Used
<1>7. password \in [Emails -> Passwords \cup {Nobody}]
  BY DEF Init
<1> QED
  BY <1>4, <1>5, <1>6, <1>7, Zenon DEF Registry!Init, OwnerOf, Used, Entered, Entering, Entry

LEMMA RegistryStep ==
    ASSUME Typed, RInv, [Next]_vars
    PROVE  Step
<1>1. CASE Tick
  BY <1>1, TickStep
<1>2. ASSUME NEW c \in Clients, Arrive(c)
      PROVE  Step
  <2>1. CASE RefreshStart(c) \/ Logout(c)
    BY <2>1, RefreshStep, LogoutStep
  <2>2. CASE \E p \in Passwords : SignUpStart(c, p) \/ SignInStart(c, p)
    BY <2>2, SignUpStep, SignInStep DEF SignInStart
  <2>3. CASE \E p \in Passwords, k \in Codes : ResetStart(c, k, p)
    BY <2>3, ResetStep DEF ResetStart
  <2>4. CASE \E e \in Emails, k \in Drawn : ForgotStart(c, e, k)
    BY <2>4, ForgotStep DEF ForgotStart, Drawn
  <2> QED
    BY <1>2, <2>1, <2>2, <2>3, <2>4 DEF Arrive
<1>3. ASSUME NEW c \in Clients, RetrySignIn(c)
      PROVE  Step
  BY <1>3, SignInStep DEF RetrySignIn
<1>6. ASSUME NEW e \in Emails, Recover(e)
      PROVE  Step
  <2>1. PICK c \in Clients : EmailOf[c] = e /\ (RetryForgot(c) \/ RetryReset(c))
    BY <1>6 DEF Recover
  <2>2. mailbox[e] \subseteq Codes
    BY DEF Typed, TypeOK
  <2> QED
    BY <2>1, <2>2, ForgotStep, ResetStep DEF RetryForgot, RetryReset, Drawn
<1>4. ASSUME NEW c \in Clients, Advance(c) \/ Fail(c)
      PROVE  Step
  BY <1>4, CreateUserStep, StoreTokensStep, GetProfileStep, SendMailStep, SetPasswordStep,
     MarkUsedStep, FailStep DEF Advance
<1>5. CASE UNCHANGED vars
  BY <1>5, SameStep DEF vars
<1> QED
  BY <1>1, <1>2, <1>3, <1>4, <1>5, <1>6 DEF Next

(***************************************************************************)
(* Accounts implement AccountRegister, for any number of apps, addresses   *)
(* and codes: what crosses between requests, and what fails half way,      *)
(* never changes a password without a code made for its address that was   *)
(* unused when it was entered, whichever app entered it, and no used code  *)
(* comes back (auth.usecases.ts:328, 343).                                 *)
(***************************************************************************)
THEOREM RegisterKept == Spec => RefinesRegister
<1>1. Init => IInv /\ RInv /\ Registry!Init
  BY InitInv, RegistryInit
<1>2. IInv /\ [Next]_vars => IInv'
  BY StepInv
<1>3. IInv /\ RInv /\ [Next]_vars => RInv' /\ [Registry!Next]_(Registry!vars)
  BY RegistryStep DEF IInv, Step
<1> QED
  BY <1>1, <1>2, <1>3, PTL DEF Spec, RefinesRegister, Registry!Spec

=============================================================================
