---------------------------- MODULE Notifications ----------------------------
(***************************************************************************)
(* Notifications, the counts shown by the bell, device tokens and push:    *)
(* PrismaNotificationRepository, notification.usecases.ts, the             *)
(* notification events of chat.gateway.ts and push-notification.service.ts.*)
(*                                                                         *)
(* A count is read by one statement and emitted after it; a push reads the *)
(* tokens of its user, calls Firebase, and removes the tokens that         *)
(* Firebase reports as unregistered, in three steps.                       *)
(***************************************************************************)
EXTENDS Integers, Sequences, FiniteSets

CONSTANTS
    Users,      \* accounts
    Devices,    \* devices; each has one Firebase token
    Handlers,   \* requests, events and detached branches in flight at once
    Nobody,     \* no user
    MaxNotices, \* bound: notifications ever stored
    MaxRegs,    \* bound: registrations, removals of tokens and of the app
    MaxFaults   \* bound: rejected statements and failed calls of Firebase

ASSUME NotificationsAssumption ==
    Nobody \notin Users /\ MaxNotices \in Nat /\ MaxRegs \in Nat /\ MaxFaults \in Nat

VARIABLES
    notices, \* the notifications table
    bell,    \* bell[u]: the last unreadCountsNotification event u received
    online,  \* users with a connected socket
    token,   \* token[d]: the device_tokens row of device d
    holder,  \* holder[d]: the user whose app last registered device d
    valid,   \* devices whose token Firebase accepts
    pushed,  \* pairs of a device and the user of a push displayed on it
    job,     \* job[h]: what handler h is executing
    regs, faults

vars == <<notices, bell, online, token, holder, valid, pushed, job, regs, faults>>

Steps == {"idle", "count", "ring", "tokens", "send", "prune"}

\* chat: of type MESSAGE or PROPOSITION and linked to the room.
Notice == [to: Users, chat: BOOLEAN, read: BOOLEAN, deleted: BOOLEAN]

Token == [owner: Users \cup {Nobody}, live: BOOLEAN]

(***************************************************************************)
(* alert: push after ringing if the user has no socket.  tokens: what was  *)
(* read for the push.  bad: those Firebase reported.  touched: a ghost,    *)
(* the devices registered since the tokens were read.                      *)
(***************************************************************************)
Job == [at: Steps, user: Users \cup {Nobody}, alert: BOOLEAN, count: Nat,
        tokens: SUBSET Devices, bad: SUBSET Devices, touched: SUBSET Devices]

NoJob == [at |-> "idle", user |-> Nobody, alert |-> FALSE, count |-> 0,
          tokens |-> {}, bad |-> {}, touched |-> {}]

Init ==
    /\ notices = <<>>
    /\ bell = [u \in Users |-> 0]
    /\ online = {}
    /\ token = [d \in Devices |-> [owner |-> Nobody, live |-> FALSE]]
    /\ holder = [d \in Devices |-> Nobody]
    /\ valid = Devices
    /\ pushed = {}
    /\ job = [h \in Handlers |-> NoJob]
    /\ regs = 0 /\ faults = 0

-----------------------------------------------------------------------------
UnreadCount(u) ==
    Cardinality({i \in DOMAIN notices :
                   notices[i].to = u /\ ~notices[i].read /\ ~notices[i].deleted})

Idle(h) == job[h].at = "idle"

Begin(h, step, u, alert) ==
    /\ Idle(h)
    /\ job' = [job EXCEPT ![h] = [NoJob EXCEPT !.at = step, !.user = u, !.alert = alert]]

Goto(h, step) == job' = [job EXCEPT ![h].at = step]

Finish(h) == job' = [job EXCEPT ![h] = NoJob]

Devs == <<token, holder, valid, regs>>

-----------------------------------------------------------------------------
(* Rows.                                                                   *)

Append1(u, chat) ==
    /\ Len(notices) < MaxNotices
    /\ notices' = Append(notices, [to |-> u, chat |-> chat, read |-> FALSE, deleted |-> FALSE])

\* The createNotification event, and a chat message's notification with the
\* detached notifyNewNotification.
CreateAndRing(h, u, chat) ==
    /\ Append1(u, chat)
    /\ Begin(h, "count", u, TRUE)
    /\ UNCHANGED <<bell, online, Devs, pushed, faults>>

\* CreateNotificationUseCase: the row, then a push whether on line or not.
CreateAndPush(h, u) ==
    /\ Append1(u, FALSE)
    /\ Begin(h, "tokens", u, FALSE)
    /\ UNCHANGED <<bell, online, Devs, pushed, faults>>

\* Every other use case: the row only, no event and no push.
CreateSilently(u) ==
    /\ Append1(u, FALSE)
    /\ UNCHANGED <<bell, online, Devs, pushed, job, faults>>

\* chats: only those linked to a room.
MarkAll(u, chats) ==
    notices' = [i \in DOMAIN notices |->
                  IF notices[i].to = u /\ (chats => notices[i].chat)
                  THEN [notices[i] EXCEPT !.read = TRUE] ELSE notices[i]]

\* The notification statement of markAsRead and markRoomAsRead of a room.
ReadRoom(h, u) ==
    /\ MarkAll(u, TRUE)
    /\ Begin(h, "count", u, FALSE)
    /\ UNCHANGED <<bell, online, Devs, pushed, faults>>

\* The markAsReadNotification event.
ReadOne(h, i) ==
    /\ i \in DOMAIN notices
    /\ notices' = [notices EXCEPT ![i].read = TRUE]
    /\ Begin(h, "count", notices[i].to, FALSE)
    /\ UNCHANGED <<bell, online, Devs, pushed, faults>>

\* POST notifications/:id/read and read-all tell nobody.
ReadSilently(u) ==
    /\ \/ MarkAll(u, FALSE)
       \/ \E i \in DOMAIN notices : notices' = [notices EXCEPT ![i].read = TRUE]
    /\ UNCHANGED <<bell, online, Devs, pushed, job, faults>>

DeleteNotice(i) ==
    /\ i \in DOMAIN notices
    /\ notices' = [notices EXCEPT ![i].deleted = TRUE]
    /\ UNCHANGED <<bell, online, Devs, pushed, job, faults>>

\* getUnreadCountsNotification and getAllCountNotificationsByReceiverId.
Ask(h, u) ==
    /\ Begin(h, "count", u, FALSE)
    /\ UNCHANGED <<notices, bell, online, Devs, pushed, faults>>

-----------------------------------------------------------------------------
(* The bell.                                                               *)

Count(h) ==
    /\ job[h].at = "count"
    /\ job' = [job EXCEPT ![h].at = "ring", ![h].count = UnreadCount(job[h].user)]
    /\ UNCHANGED <<notices, bell, online, Devs, pushed, faults>>

\* Mutant: a count of 0 is not announced.
BugRing(h) ==
    LET j == job[h] IN
    /\ j.at = "ring"
    /\ bell' = IF j.user \in online /\ j.count > 0 THEN [bell EXCEPT ![j.user] = j.count] ELSE bell
    /\ IF j.alert /\ j.user \notin online THEN Goto(h, "tokens") ELSE Finish(h)
    /\ UNCHANGED <<notices, online, Devs, pushed, faults>>

\* An event to a user without a socket is lost; then there is the push.
Ring(h) ==
    LET j == job[h] IN
    /\ j.at = "ring"
    /\ bell' = IF j.user \in online THEN [bell EXCEPT ![j.user] = j.count] ELSE bell
    /\ IF j.alert /\ j.user \notin online THEN Goto(h, "tokens") ELSE Finish(h)
    /\ UNCHANGED <<notices, online, Devs, pushed, faults>>

-----------------------------------------------------------------------------
(* PushNotificationService.                                                *)

LiveTokens(u) == {d \in Devices : token[d].live /\ token[d].owner = u}

\* sendToUser reads the tokens and returns if there are none.
ReadTokens(h) ==
    LET ds == LiveTokens(job[h].user) IN
    /\ job[h].at = "tokens"
    /\ IF ds = {} THEN Finish(h)
       ELSE job' = [job EXCEPT ![h].at = "send", ![h].tokens = ds]
    /\ UNCHANGED <<notices, bell, online, Devs, pushed, faults>>

\* sendEachForMulticast answers token by token.  Devices in out fail for another
\* reason than their registration.
SendEach(h, out, condemned) ==
    LET j == job[h] IN
    /\ j.at = "send"
    /\ out \subseteq j.tokens \cap valid
    /\ out # {} => faults < MaxFaults
    /\ faults' = IF out = {} THEN faults ELSE faults + 1
    /\ pushed' = pushed \cup {<<d, j.user>> : d \in (j.tokens \cap valid) \ out}
    /\ IF condemned = {} THEN Finish(h)
       ELSE job' = [job EXCEPT ![h].at = "prune", ![h].bad = condemned]
    /\ UNCHANGED <<notices, bell, online, Devs>>

\* Mutant: every failure condemns the token.
BugSendPush(h) ==
    \E out \in SUBSET Devices : SendEach(h, out, (job[h].tokens \ valid) \cup out)

\* Only UNREGISTERED and invalid-registration-token condemn a token.
SendPush(h) ==
    \E out \in SUBSET Devices : SendEach(h, out, job[h].tokens \ valid)

\* handleFailedTokens: by the value of the token, whoever owns it by now.
Prune(h) ==
    /\ job[h].at = "prune"
    /\ token' = [d \in Devices |->
                   IF d \in job[h].bad THEN [token[d] EXCEPT !.live = FALSE] ELSE token[d]]
    /\ Finish(h)
    /\ UNCHANGED <<notices, bell, online, holder, valid, regs, pushed, faults>>

Touch(d) == [h \in Handlers |-> [job[h] EXCEPT !.touched =
                IF job[h].at \in {"send", "prune"} THEN @ \cup {d} ELSE @]]

\* Mutant: the upsert updates the platform and leaves the owner.
BugRegister(d, u) ==
    /\ regs < MaxRegs /\ regs' = regs + 1
    /\ token' = [token EXCEPT ![d].live = TRUE,
                              ![d].owner = IF @ = Nobody THEN u ELSE @]
    /\ holder' = [holder EXCEPT ![d] = u]
    /\ job' = Touch(d)
    /\ UNCHANGED <<notices, bell, online, valid, pushed, faults>>

\* registerToken: upsert by the unique token; the device changes hands.
Register(d, u) ==
    /\ regs < MaxRegs /\ regs' = regs + 1
    /\ token' = [token EXCEPT ![d] = [owner |-> u, live |-> TRUE]]
    /\ holder' = [holder EXCEPT ![d] = u]
    /\ job' = Touch(d)
    /\ UNCHANGED <<notices, bell, online, valid, pushed, faults>>

Unregister(d) ==
    /\ token[d].live /\ regs < MaxRegs /\ regs' = regs + 1
    /\ token' = [token EXCEPT ![d].live = FALSE]
    /\ UNCHANGED <<notices, bell, online, holder, valid, pushed, job, faults>>

-----------------------------------------------------------------------------
(* Sockets, Firebase and failures.                                         *)

Connect(u) ==
    /\ u \notin online /\ online' = online \cup {u}
    /\ UNCHANGED <<notices, bell, Devs, pushed, job, faults>>

Disconnect(u) ==
    /\ u \in online /\ online' = online \ {u}
    /\ UNCHANGED <<notices, bell, Devs, pushed, job, faults>>

\* The app is removed from the device: Firebase never accepts its token again.
Uninstall(d) ==
    /\ d \in valid /\ regs < MaxRegs /\ regs' = regs + 1
    /\ valid' = valid \ {d}
    /\ UNCHANGED <<notices, bell, online, token, holder, pushed, job, faults>>

\* A statement or the call of Firebase fails; the failure is logged or swallowed.
Fail(h) ==
    /\ ~Idle(h) /\ faults < MaxFaults /\ faults' = faults + 1
    /\ Finish(h)
    /\ UNCHANGED <<notices, bell, online, Devs, pushed>>

-----------------------------------------------------------------------------
Advance(h) == Count(h) \/ Ring(h) \/ ReadTokens(h) \/ SendPush(h) \/ Prune(h)

Arrive(h) ==
    \/ \E u \in Users : \/ \E chat \in BOOLEAN : CreateAndRing(h, u, chat)
                        \/ CreateAndPush(h, u) \/ ReadRoom(h, u) \/ Ask(h, u)
    \/ \E i \in 1 .. MaxNotices : ReadOne(h, i)

Environment ==
    \/ \E u \in Users : CreateSilently(u) \/ ReadSilently(u) \/ Connect(u) \/ Disconnect(u)
    \/ \E i \in 1 .. MaxNotices : DeleteNotice(i)
    \/ \E d \in Devices : Unregister(d) \/ Uninstall(d) \/ \E u \in Users : Register(d, u)

Next == Environment \/ \E h \in Handlers : Advance(h) \/ Arrive(h) \/ Fail(h)

Spec == Init /\ [][Next]_vars

(***************************************************************************)
(* Fairness.  Requests and detached branches run to their next statement;  *)
(* an app on line asks for its counts again and again, competing with      *)
(* other requests for handlers.                                            *)
(***************************************************************************)
Asking(u) == \E h \in Handlers : Ask(h, u)

FairSpec ==
    /\ Spec
    /\ \A h \in Handlers : WF_vars(Advance(h))
    /\ \A u \in Users : SF_vars(Asking(u))

-----------------------------------------------------------------------------
(* Properties.                                                             *)

TypeOK ==
    /\ notices \in Seq(Notice)
    /\ bell \in [Users -> Nat]
    /\ online \subseteq Users
    /\ token \in [Devices -> Token]
    /\ holder \in [Devices -> Users \cup {Nobody}]
    /\ valid \subseteq Devices
    /\ pushed \subseteq Devices \X Users
    /\ job \in [Handlers -> Job]
    /\ regs \in Nat /\ faults \in Nat

(***************************************************************************)
(* A push that is about to be sent goes to devices held by its user, but   *)
(* for those that changed hands after the tokens were read: the upsert by  *)
(* token moves a device from one account to the other at once, and neither *)
(* the removal of tokens by value nor a late removal gives it back.        *)
(***************************************************************************)
PushStaysWithHolder ==
    \A h \in Handlers : job[h].at = "send" =>
        \A d \in job[h].tokens \ job[h].touched : holder[d] = job[h].user

(***************************************************************************)
(* A device that Firebase accepts loses its row only to an unregister      *)
(* request, although removal is by the token's value, from an answer that  *)
(* may be old by the time it is acted upon (push-notification.service:117).*)
(***************************************************************************)
ReachableStays ==
    [][\A d \in Devices :
         token[d].live /\ ~token'[d].live /\ d \in valid => regs' # regs]_vars

(***************************************************************************)
(* The bell of a user who stays on line settles on the number of unread    *)
(* notifications: counts may be emitted late and out of order, rows may    *)
(* change without an event, but the app's next questions repair it.        *)
(***************************************************************************)
BellSettles ==
    \A u \in Users :
        <>[](u \in online) => <>[](bell[u] = UnreadCount(u))

=============================================================================
