------------------------------ MODULE Accounts ------------------------------
(***************************************************************************)
(* Accounts and sessions: auth.usecases.ts over PrismaUserRepository and   *)
(* the password_reset_tokens table.                                        *)
(*                                                                         *)
(* A refresh token is a signed function of its account and of the second   *)
(* it is signed in, so the model names it by that second.  The users row   *)
(* holds one refresh token: signing in or refreshing anywhere replaces it. *)
(* Every request reads, hashes or compares, and writes in separate steps.  *)
(***************************************************************************)
EXTENDS Integers, FiniteSets

CONSTANTS
    Emails,    \* addresses
    Clients,   \* apps; each runs one request at a time
    EmailOf,   \* EmailOf[c]: the address client c signs up and signs in with
    Passwords, \* passwords
    Codes,     \* the six-digit codes
    Nobody,    \* no client, address, password or code
    CodeLife,  \* ticks a code is valid for (10 minutes)
    TokenLife, \* ticks a refresh token is valid for (7 days)
    MaxClock,  \* bound: ticks of the clock
    MaxFaults, \* bound: rejected statements and failed mails
    MaxMoves   \* bound: requests that the fairness does not ask for

ASSUME AccountsAssumption ==
    /\ Nobody \notin Emails \cup Clients \cup Passwords \cup Codes
    /\ EmailOf \in [Clients -> Emails]
    /\ CodeLife \in Nat /\ TokenLife \in Nat
    /\ MaxClock \in Nat /\ MaxFaults \in Nat /\ MaxMoves \in Nat

VARIABLES
    password, \* password[e]: of the users row of e, Nobody if there is none
    session,  \* session[e]: its refreshToken, 0 for null
    code,     \* code[k]: the password_reset_tokens row with token k
    mailbox,  \* mailbox[e]: codes received by mail
    held,     \* held[c]: the refresh token client c holds, 0 if signed out
    job,      \* job[c]: the request client c is waiting for
    author,   \* ghost: author[e], the client whose request last wrote session[e]
    resets,   \* ghost: resets[k], how many times code k changed a password
    raced,    \* ghost: codes checked while another request was using them,
              \* or whose request failed before marking them
    now, faults, moves

vars == <<password, session, code, mailbox, held, job, author, resets, raced, now, faults, moves>>

Ops == {"none", "sign up", "sign in", "refresh", "reset"}

Steps == {"idle", "create", "store", "profile", "mail", "password", "mark"}

\* token: the refresh token the request signed.
\* overtaken: a ghost, somebody wrote the session since this refresh read the row.
Job == [op : Ops, at : Steps, pw : Passwords \cup {Nobody}, k : Codes \cup {Nobody},
        token : Nat, overtaken : BOOLEAN]

NoJob == [op |-> "none", at |-> "idle", pw |-> Nobody, k |-> Nobody,
          token |-> 0, overtaken |-> FALSE]

\* born = 0: no row.
Code == [owner : Emails \cup {Nobody}, born : Nat, used : BOOLEAN]

Init ==
    /\ password \in [Emails -> Passwords \cup {Nobody}]
    /\ session = [e \in Emails |-> 0]
    /\ code = [k \in Codes |-> [owner |-> Nobody, born |-> 0, used |-> FALSE]]
    /\ mailbox = [e \in Emails |-> {}]
    /\ held = [c \in Clients |-> 0]
    /\ job = [c \in Clients |-> NoJob]
    /\ author = [e \in Emails |-> Nobody]
    /\ resets = [k \in Codes |-> 0]
    /\ raced = {}
    /\ now = 1 /\ faults = 0 /\ moves = 0

-----------------------------------------------------------------------------
Exists(e) == password[e] # Nobody

Idle(c) == job[c].at = "idle"

At(c, op, step) == job[c].op = op /\ job[c].at = step

Goto(c, step) == job' = [job EXCEPT ![c].at = step]

Answer(c) == job' = [job EXCEPT ![c] = NoJob]

Codes_ == <<code, mailbox, resets, raced>>

\* A request beyond those that the fairness asks for.
Move == moves < MaxMoves /\ moves' = moves + 1

-----------------------------------------------------------------------------
(* Signing up and signing in.                                              *)

\* SignUp: the address is free; the password is hashed, the parameters read.
SignUpStart(c, p) ==
    /\ Idle(c) /\ Move
    /\ ~Exists(EmailOf[c])
    /\ job' = [job EXCEPT ![c] = [NoJob EXCEPT !.op = "sign up", !.at = "create", !.pw = p]]
    /\ UNCHANGED <<password, session, Codes_, held, author, now, faults>>

\* users.email is unique: the second of two concurrent sign-ups is refused.
CreateUser(c) ==
    LET e == EmailOf[c] IN
    /\ At(c, "sign up", "create")
    /\ IF Exists(e)
       THEN Answer(c) /\ UNCHANGED password
       ELSE /\ password' = [password EXCEPT ![e] = job[c].pw]
            /\ job' = [job EXCEPT ![c].at = "store", ![c].token = now]
    /\ UNCHANGED <<session, Codes_, held, author, now, faults, moves>>

\* SignIn: the password read is compared, both tokens are signed.
SignInWith(c, p) ==
    /\ Idle(c)
    /\ Exists(EmailOf[c]) /\ password[EmailOf[c]] = p
    /\ job' = [job EXCEPT ![c] = [NoJob EXCEPT !.op = "sign in", !.at = "store", !.token = now]]
    /\ UNCHANGED <<password, session, Codes_, held, author, now, faults>>

SignInStart(c, p) == SignInWith(c, p) /\ Move

\* The client no longer holds what it wrote, through no other client.
Disown(c) == [e \in Emails |-> IF author[e] = c THEN Nobody ELSE author[e]]

\* Mutant: the presented token is not compared with the stored one.
BugPresented(c) == TRUE

Presented(c) == session[EmailOf[c]] = held[c]

\* RefreshToken: the token has not expired and is the stored one; a client
\* that is refused forgets its token.
RefreshStart(c) ==
    LET e == EmailOf[c]
        alive == now <= held[c] + TokenLife
    IN  /\ Idle(c) /\ held[c] # 0
        /\ IF alive /\ Presented(c)
           THEN /\ job' = [job EXCEPT ![c] = [NoJob EXCEPT !.op = "refresh", !.at = "store",
                                                         !.token = now]]
                /\ UNCHANGED <<held, author>>
           ELSE /\ held' = [held EXCEPT ![c] = 0]
                /\ author' = IF alive THEN author ELSE Disown(c)
                /\ UNCHANGED job
        /\ UNCHANGED <<password, session, Codes_, now, faults, moves>>

Overtake(e) ==
    [d \in Clients |-> [job[d] EXCEPT !.overtaken =
        @ \/ (EmailOf[d] = e /\ At(d, "refresh", "store"))]]

\* Mutant: a session that another app has is kept.
BugStoreTokens(c) ==
    LET e == EmailOf[c] IN
    /\ job[c].at = "store"
    /\ session' = [session EXCEPT ![e] = IF @ = 0 THEN job[c].token ELSE @]
    /\ author' = [author EXCEPT ![e] = c]
    /\ job' = [Overtake(e) EXCEPT ![c].at = "profile", ![c].overtaken = FALSE]
    /\ UNCHANGED <<password, Codes_, held, now, faults, moves>>

\* The tokens are stored, whatever the row has become since it was read.
StoreTokens(c) ==
    LET e == EmailOf[c] IN
    /\ job[c].at = "store"
    /\ session' = [session EXCEPT ![e] = job[c].token]
    /\ author' = [author EXCEPT ![e] = c]
    /\ job' = [Overtake(e) EXCEPT ![c].at = "profile", ![c].overtaken = FALSE]
    /\ UNCHANGED <<password, Codes_, held, now, faults, moves>>

\* Mutant: a refresh answers with the access token only.
BugGetProfile(c) ==
    /\ job[c].at = "profile"
    /\ held' = [held EXCEPT ![c] = IF job[c].op = "refresh" THEN @ ELSE job[c].token]
    /\ Answer(c)
    /\ UNCHANGED <<password, session, Codes_, author, now, faults, moves>>

\* getProfile, and the answer with the tokens.
GetProfile(c) ==
    /\ job[c].at = "profile"
    /\ held' = [held EXCEPT ![c] = job[c].token]
    /\ Answer(c)
    /\ UNCHANGED <<password, session, Codes_, author, now, faults, moves>>

\* Logout by access token: one statement; the client forgets its tokens.
Logout(c) ==
    /\ Idle(c) /\ held[c] # 0 /\ Move
    /\ session' = [session EXCEPT ![EmailOf[c]] = 0]
    /\ author' = [author EXCEPT ![EmailOf[c]] = c]
    /\ held' = [held EXCEPT ![c] = 0]
    /\ job' = Overtake(EmailOf[c])
    /\ UNCHANGED <<password, Codes_, now, faults>>

-----------------------------------------------------------------------------
(* Forgotten passwords.                                                    *)

Free(k) == code[k].born = 0

\* What Math.random may return: a token that has a row, or a new one; which
\* new one makes no difference.
Drawn == {k \in Codes : ~Free(k) \/ k = CHOOSE j \in Codes : Free(j)}

\* Mutant: the row of an existing token is written again.
BugForgotWith(c, e, k) ==
    /\ Idle(c) /\ Exists(e)
    /\ code' = [code EXCEPT ![k] = [owner |-> e, born |-> now, used |-> FALSE]]
    /\ job' = [job EXCEPT ![c] = [NoJob EXCEPT !.op = "reset", !.at = "mail", !.k = k]]
    /\ UNCHANGED <<password, session, mailbox, resets, raced, held, author, now, faults>>

\* ForgotPassword, for any address: a random code is stored, unless the token
\* exists already.
ForgotWith(c, e, k) ==
    /\ Idle(c) /\ Exists(e)
    /\ IF Free(k)
       THEN /\ code' = [code EXCEPT ![k] = [owner |-> e, born |-> now, used |-> FALSE]]
            /\ job' = [job EXCEPT ![c] = [NoJob EXCEPT !.op = "reset", !.at = "mail", !.k = k]]
       ELSE UNCHANGED <<code, job>>
    /\ UNCHANGED <<password, session, mailbox, resets, raced, held, author, now, faults>>

ForgotStart(c, e, k) == ForgotWith(c, e, k) /\ Move

\* Mutant: the mail is not sent.
BugSendMail(c) ==
    /\ job[c].at = "mail"
    /\ Answer(c)
    /\ UNCHANGED <<password, session, code, mailbox, resets, raced, held, author, now,
                   faults, moves>>

SendMail(c) ==
    /\ job[c].at = "mail"
    /\ mailbox' = [mailbox EXCEPT ![code[job[c].k].owner] = @ \cup {job[c].k}]
    /\ Answer(c)
    /\ UNCHANGED <<password, session, code, resets, raced, held, author, now, faults, moves>>

Usable(k) == ~Free(k) /\ ~code[k].used /\ now <= code[k].born + CodeLife

InUse(k) == \E d \in Clients : job[d].k = k /\ job[d].at \in {"password", "mark"}

\* ResetPassword: the code entered is looked up and checked, whoever enters it;
\* its user is looked up, and never missing.
ResetWith(c, k, p) ==
    /\ Idle(c) /\ Usable(k)
    /\ job' = [job EXCEPT ![c] = [NoJob EXCEPT !.op = "reset", !.at = "password", !.k = k,
                                             !.pw = p]]
    /\ raced' = IF InUse(k) THEN raced \cup {k} ELSE raced
    /\ UNCHANGED <<password, session, code, mailbox, resets, held, author, now, faults>>

ResetStart(c, k, p) == ResetWith(c, k, p) /\ Move

\* The password only: sessions stay as they are.
SetPassword(c) ==
    /\ job[c].at = "password"
    /\ password' = [password EXCEPT ![code[job[c].k].owner] = job[c].pw]
    /\ resets' = [resets EXCEPT ![job[c].k] = @ + 1]
    /\ Goto(c, "mark")
    /\ UNCHANGED <<session, code, mailbox, raced, held, author, now, faults, moves>>

\* Mutant: the code is not marked once it has expired.
BugMarkUsed(c) ==
    /\ job[c].at = "mark"
    /\ code' = [code EXCEPT ![job[c].k].used = now > code[job[c].k].born]
    /\ Answer(c)
    /\ UNCHANGED <<password, session, mailbox, resets, raced, held, author, now, faults, moves>>

MarkUsed(c) ==
    /\ job[c].at = "mark"
    /\ code' = [code EXCEPT ![job[c].k].used = TRUE]
    /\ Answer(c)
    /\ UNCHANGED <<password, session, mailbox, resets, raced, held, author, now, faults, moves>>

-----------------------------------------------------------------------------
(* The clock, failures and fairness.                                       *)

Tick ==
    /\ now < MaxClock /\ now' = now + 1
    /\ UNCHANGED <<password, session, Codes_, held, job, author, faults, moves>>

\* A statement or the mail fails: the request ends with an error, and what
\* it has written stays.  A client whose refresh fails is told that its token
\* is invalid; a client whose sign-in fails keeps what it had.
Fail(c) ==
    /\ ~Idle(c) /\ faults < MaxFaults /\ faults' = faults + 1
    /\ held' = IF job[c].op = "refresh" THEN [held EXCEPT ![c] = 0] ELSE held
    /\ author' = IF job[c].op = "refresh" \/ job[c].at = "profile" THEN Disown(c) ELSE author
    /\ raced' = IF job[c].at = "mark" THEN raced \cup {job[c].k} ELSE raced
    /\ Answer(c)
    /\ UNCHANGED <<password, session, code, mailbox, resets, now, moves>>

Advance(c) ==
    \/ CreateUser(c) \/ StoreTokens(c) \/ GetProfile(c)
    \/ SendMail(c) \/ SetPassword(c) \/ MarkUsed(c)

Arrive(c) ==
    \/ \E p \in Passwords : \/ SignUpStart(c, p) \/ SignInStart(c, p)
                            \/ \E k \in Codes : ResetStart(c, k, p)
    \/ RefreshStart(c) \/ Logout(c)
    \/ \E e \in Emails, k \in Drawn : ForgotStart(c, e, k)

(***************************************************************************)
(* What a user without a session does again and again: sign in with the    *)
(* password the account has, ask for a code while no code of the account   *)
(* has ever worked, none is on its way and none received can be used, use  *)
(* a code received to set another password.                                *)
(***************************************************************************)
Recovered(e) == \E k \in Codes : code[k].owner = e /\ resets[k] > 0

RetrySignIn(c) ==
    /\ held[c] # session[EmailOf[c]] \/ held[c] = 0
    /\ SignInWith(c, password[EmailOf[c]]) /\ UNCHANGED moves

RetryForgot(c) ==
    LET e == EmailOf[c] IN
    /\ ~\E k \in mailbox[e] : Usable(k)
    /\ ~\E d \in Clients : job[d].at = "mail" /\ code[job[d].k].owner = e
    /\ \E k \in Drawn : Free(k) /\ ForgotWith(c, e, k)

RetryReset(c) ==
    LET e == EmailOf[c] IN
    \E k \in mailbox[e], p \in Passwords \ {password[e]} : ResetWith(c, k, p)

\* The app in which the user recovers the account; the others may interfere.
RecoveryApp(e) == CHOOSE c \in Clients : EmailOf[c] = e

Recover(e) ==
    /\ ~Recovered(e)
    /\ \E c \in Clients : /\ EmailOf[c] = e /\ c = RecoveryApp(e)
                          /\ RetryForgot(c) \/ RetryReset(c)
    /\ UNCHANGED moves

Next ==
    \/ Tick
    \/ \E c \in Clients : Arrive(c) \/ Advance(c) \/ Fail(c) \/ RetrySignIn(c)
    \/ \E e \in Emails : Recover(e)

Spec == Init /\ [][Next]_vars

\* Requests run to their end.  An app repeats what did not work; it may be
\* busy with something else in between.
FairSpec ==
    /\ Spec
    /\ \A c \in Clients : WF_vars(Advance(c)) /\ SF_vars(RetrySignIn(c))
    /\ \A e \in Emails : SF_vars(Recover(e))

-----------------------------------------------------------------------------
(* Properties.                                                             *)

TypeOK ==
    /\ password \in [Emails -> Passwords \cup {Nobody}]
    /\ session \in [Emails -> 0 .. now]
    /\ code \in [Codes -> Code]
    /\ mailbox \in [Emails -> SUBSET Codes]
    /\ held \in [Clients -> 0 .. now]
    /\ job \in [Clients -> Job]
    /\ author \in [Emails -> Clients \cup {Nobody}]
    /\ resets \in [Codes -> Nat]
    /\ raced \subseteq Codes
    /\ now \in Nat /\ faults \in Nat /\ moves \in Nat

(***************************************************************************)
(* The client whose request wrote the session last, and was answered,      *)
(* holds the stored token: with any interleaving of sign-ins, refreshes    *)
(* and logouts of an account's apps, an app is signed out only by another  *)
(* app's later write or by a failure of its own request.                   *)
(***************************************************************************)
AuthorIsIn ==
    \A c \in Clients :
        Idle(c) /\ author[EmailOf[c]] = c => held[c] = session[EmailOf[c]]

(***************************************************************************)
(* A refresh about to store its token replaces the very token it was given *)
(* unless another request of the account stored or erased a token after it *)
(* read the row: a logout can be undone only by a request already reading  *)
(* (auth.usecases.ts:220).                                                 *)
(***************************************************************************)
RefreshReplacesItsToken ==
    \A c \in Clients :
        At(c, "refresh", "store") /\ ~job[c].overtaken => session[EmailOf[c]] = held[c]

(***************************************************************************)
(* A code changes a password once, unless two requests used it at the same *)
(* time or the one that did failed before it could mark it.                *)
(***************************************************************************)
CodeWorksOnce == \A k \in Codes \ raced : resets[k] <= 1

(***************************************************************************)
(* The promise of AccountRegister: a registered address keeps its password *)
(* but for codes made for it that were unused when they were entered, by   *)
(* whichever app and whatever requests cross (auth.usecases.ts:343).       *)
(***************************************************************************)
Registry == INSTANCE AccountRegister WITH
    owner <- [k \in Codes |-> code[k].owner],
    used <- {k \in Codes : code[k].used},
    entered <- {<<c, job[c].k, job[c].pw>> : c \in {d \in Clients : job[d].at = "password"}}

RefinesRegister == Registry!Spec

(***************************************************************************)
(* A user who forgot the password recovers the account: a mail may fail,   *)
(* codes expire unused and are asked for again, requests fail half way,    *)
(* but asking for codes and entering them ends with a new password.        *)
(***************************************************************************)
AccountRecovered ==
    \A e \in {EmailOf[c] : c \in Clients} : Exists(e) ~> Recovered(e)

(***************************************************************************)
(* A signed-out app with the right password gets a session that it holds,  *)
(* although other apps of the account keep replacing it.                   *)
(***************************************************************************)
SignedInAgain ==
    \A c \in Clients :
        Exists(EmailOf[c]) ~> (held[c] # 0 /\ held[c] = session[EmailOf[c]])

=============================================================================
