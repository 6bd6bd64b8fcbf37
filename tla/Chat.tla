-------------------------------- MODULE Chat --------------------------------
(***************************************************************************)
(* Rooms, messages, propositions and unread counters of the chat:          *)
(* application/chat, the chat use cases of application/admin, the          *)
(* repositories behind them and presentation/gateways/chat.gateway.ts.     *)
(*                                                                         *)
(* A message reaches the database by three paths, HTTP, the admin writing  *)
(* as the nounu, and the socket.  Storing the message, storing its         *)
(* notification, counting it as unread and announcing the counts are       *)
(* separate awaited statements; on the HTTP and admin paths everything     *)
(* after the notification row runs detached from the request and nobody    *)
(* awaits it.  Notification rows and their counts are in Notifications.     *)
(***************************************************************************)
EXTENDS Integers, Sequences, FiniteSets

CONSTANTS
    Users,      \* accounts
    Pairs,      \* who may ask for a room with whom, in this instance
    Senders,    \* those who send messages, in this instance
    Readers,    \* those who connect, read and ask for their counts
    Nounus,     \* those with a nounu profile, for whom the admin may write
    Handlers,   \* requests and socket events in flight at once
    Nobody,     \* no user yet
    MaxRooms,   \* bound: rooms ever created
    MaxMsgs,    \* bound: messages ever stored
    MaxMoves,   \* bound: requests, answers, expiries, sockets come and gone; not reads
    MaxFaults   \* bound: rejected statements

ASSUME ChatAssumption ==
    /\ Senders \subseteq Users /\ Readers \subseteq Users
    /\ Nounus \subseteq Users /\ Nobody \notin Users
    /\ MaxRooms \in Nat /\ MaxMsgs \in Nat
    /\ MaxMoves \in Nat /\ MaxFaults \in Nat

VARIABLES
    rooms,    \* the rooms table, in creation order
    msgs,     \* the messages table, in creation order
    unread,   \* unread[r][u]: RoomUnreadCount.count, 0 while there is no row
    online,   \* users with a connected socket in the room user:<id>
    shown,    \* shown[u]: the last unreadCounts event sent to user u
    alerted,  \* messages whose receiver was told on line or by push
    job,      \* job[h]: what handler h is executing
    moves,    \* counts what MaxMoves bounds
    faults    \* rejected statements so far

vars == <<rooms, msgs, unread, online, shown, alerted, job, moves, faults>>

Sends == {"http", "admin send", "socket"}
Reads == {"read", "admin read"}
Ops == Sends \cup Reads \cup {"open", "ask", "none"}

Steps == {"idle", "create room", "insert", "increment", "read messages", "reset",
          "sum", "show", "push"}

Statuses == {"Pending", "Accepted", "Refused"}

(***************************************************************************)
(* base is a ghost: how many rows there were when the request that wrote   *)
(* the row looked at the table.  checked: the path looks for a pending     *)
(* proposition before it writes.                                           *)
(***************************************************************************)
Room == [sender: Users, receiver: Users, deleted: BOOLEAN, base: Nat]

Message == [room: Nat, from: Users, prop: BOOLEAN, status: Statuses,
            expired: BOOLEAN, read: BOOLEAN, checked: BOOLEAN, base: Nat]

\* at: the next statement; peer: whose counts it is about.
Job == [op: Ops, at: Steps, room: Nat, user: Users \cup {Nobody},
        peer: Users \cup {Nobody}, prop: BOOLEAN, base: Nat, msg: Nat,
        total: Nat]

NoJob == [op |-> "none", at |-> "idle", room |-> 0,
          user |-> Nobody, peer |-> Nobody, prop |-> FALSE, base |-> 0,
          msg |-> 0, total |-> 0]

NewRoom(u, v, n) == [sender |-> u, receiver |-> v, deleted |-> FALSE, base |-> n]

Init ==
    /\ rooms = <<>> /\ msgs = <<>>
    /\ unread = [r \in 1 .. MaxRooms |-> [u \in Users |-> 0]]
    /\ online = {}
    /\ shown = [u \in Users |-> 0]
    /\ alerted = {}
    /\ job = [h \in Handlers |-> NoJob]
    /\ moves = 0 /\ faults = 0

-----------------------------------------------------------------------------
(* What the queries return.                                                *)

Members(r) == {rooms[r].sender, rooms[r].receiver}

\* Whoever is not the sender; the room's sender for a stranger's message, the
\* one member for a message to oneself.
Receiver(r, u) == IF rooms[r].sender = u THEN rooms[r].receiver ELSE rooms[r].sender

\* Mutant: only rooms opened by the one who asks are found.
BugRoomsOf(u, v) == {r \in DOMAIN rooms : rooms[r].sender = u /\ rooms[r].receiver = v}

\* Rooms of a pair in either direction, deleted ones included.
RoomsOf(u, v) == {r \in DOMAIN rooms : \/ rooms[r].sender = u /\ rooms[r].receiver = v
                                       \/ rooms[r].sender = v /\ rooms[r].receiver = u}

\* A proposition that blocks another one; deleted or not.
Open(m) == m.prop /\ m.status = "Pending" /\ ~m.expired

hasActive(r) == \E i \in DOMAIN msgs : msgs[i].room = r /\ Open(msgs[i])

\* The sum of the counters of u over all rooms.
UnreadTotal(u) ==
    LET sum[r \in 0 .. MaxRooms] == IF r = 0 THEN 0 ELSE sum[r - 1] + unread[r][u]
    IN  sum[MaxRooms]

-----------------------------------------------------------------------------
(* Frames and moves.                                                       *)

Rows == <<rooms, msgs, unread>>
Events == <<shown, alerted>>

Idle(h) == job[h].at = "idle"

Goto(h, step) == job' = [job EXCEPT ![h].at = step]

Begin(h, j) == Idle(h) /\ job' = [job EXCEPT ![h] = j]

\* Everything but a user's own reads is counted, to bound it.
Counted == moves < MaxMoves /\ moves' = moves + 1

\* Only the counts are left to announce.
Announce(h) == job' = [job EXCEPT ![h].at = "sum", ![h].room = 0, ![h].user = Nobody]

Finish(h) == job' = [job EXCEPT ![h] = NoJob]

\* Bounds: a request starts only if the rows it will write fit.
About(steps) == Cardinality({h \in Handlers : job[h].at \in steps})
RoomFits == Len(rooms) + About({"create room"}) < MaxRooms
MsgFits == Len(msgs) + About({"insert"}) < MaxMsgs

-----------------------------------------------------------------------------
(* FindOrCreateRoomUseCase.                                                *)

\* Nothing keeps a user from opening a room with itself.
OpenRoomStart(h, u, v) ==
    /\ RoomFits
    /\ RoomsOf(u, v) = {}
    /\ Begin(h, [NoJob EXCEPT !.op = "open", !.at = "create room", !.user = u,
                              !.peer = v, !.base = Len(rooms)])
    /\ Counted
    /\ UNCHANGED <<Rows, Events, online, faults>>

CreateRoom(h) ==
    LET j == job[h] IN
    /\ j.at = "create room"
    /\ rooms' = Append(rooms, NewRoom(j.user, j.peer, j.base))
    /\ Finish(h)
    /\ UNCHANGED <<msgs, unread, Events, online, moves, faults>>

\* Soft deletion: messages can still be sent to the room and it is still found.
DeleteRoom(r) ==
    /\ Counted
    /\ r \in DOMAIN rooms /\ ~rooms[r].deleted
    /\ rooms' = [rooms EXCEPT ![r].deleted = TRUE]
    /\ UNCHANGED <<msgs, unread, Events, online, job, faults>>

-----------------------------------------------------------------------------
(* Sending.  The HTTP and admin paths refuse a second pending proposition; *)
(* the socket path goes straight to the insert.  None of them asks whether *)
(* the sender belongs to the room.                                         *)

SendStart(h, op, r, u, prop) ==
    /\ r \in DOMAIN rooms
    /\ MsgFits
    /\ Begin(h, [NoJob EXCEPT !.op = op, !.at = "insert", !.room = r, !.user = u,
                              !.peer = Receiver(r, u), !.prop = prop,
                              !.base = Len(msgs)])
    /\ Counted
    /\ UNCHANGED <<Rows, Events, online, faults>>

SendMessage(h, r, u, prop) ==
    /\ SendStart(h, "http", r, u, prop)
    /\ prop => ~hasActive(r)

SendMessageAsNounu(h, r, u, prop) ==
    /\ SendStart(h, "admin send", r, u, prop)
    /\ u = (IF rooms[r].sender \in Nounus THEN rooms[r].sender ELSE rooms[r].receiver)
    /\ prop => ~hasActive(r)

handleSendMessage(h, r, u, prop) == SendStart(h, "socket", r, u, prop)

InsertMessage(h) ==
    LET j == job[h] IN
    /\ j.at = "insert"
    /\ msgs' = Append(msgs, [room |-> j.room, from |-> j.user, prop |-> j.prop,
                             status |-> "Pending", expired |-> FALSE, read |-> FALSE,
                             checked |-> j.op # "socket", base |-> j.base])
    /\ job' = [job EXCEPT ![h].at = "increment", ![h].msg = Len(msgs) + 1,
                          ![h].base = 0, ![h].prop = FALSE]
    /\ UNCHANGED <<rooms, unread, Events, online, moves, faults>>

\* Mutant: the socket path counts the message before and after the events.
BugIncrementUnread(h) ==
    LET j == job[h] IN
    /\ j.at = "increment"
    /\ unread' = [unread EXCEPT ![j.room][j.peer] = IF j.op = "socket" THEN @ + 2 ELSE @ + 1]
    /\ Announce(h)
    /\ UNCHANGED <<rooms, msgs, Events, online, moves, faults>>

IncrementUnread(h) ==
    LET j == job[h] IN
    /\ j.at = "increment"
    /\ unread' = [unread EXCEPT ![j.room][j.peer] = @ + 1]
    /\ Announce(h)
    /\ UNCHANGED <<rooms, msgs, Events, online, moves, faults>>

-----------------------------------------------------------------------------
(* Reading.  MarkAsRead: the messages, then the counter.  The admin's      *)
(* MarkRoomAsRead: the counter only.  Anybody may read any room.           *)

ReadStart(h, op, first, r, u) ==
    /\ r \in DOMAIN rooms
    /\ Begin(h, [NoJob EXCEPT !.op = op, !.at = first, !.room = r, !.user = u, !.peer = u])
    /\ UNCHANGED <<Rows, Events, online, faults>>

\* By HTTP and by the markAsRead event.
MarkAsRead(h, r, u) == ReadStart(h, "read", "read messages", r, u) /\ UNCHANGED moves

MarkRoomAsRead(h, r, u) == ReadStart(h, "admin read", "reset", r, u) /\ Counted

ReadMessages(h) ==
    LET j == job[h] IN
    /\ j.at = "read messages"
    /\ msgs' = [i \in DOMAIN msgs |->
                  IF msgs[i].room = j.room /\ msgs[i].from # j.user
                    THEN [msgs[i] EXCEPT !.read = TRUE] ELSE msgs[i]]
    /\ Goto(h, "reset")
    /\ UNCHANGED <<rooms, unread, Events, online, moves, faults>>

\* Mutant: the upsert has an empty update.
BugResetUnread(h) ==
    /\ job[h].at = "reset"
    /\ Announce(h)
    /\ UNCHANGED <<Rows, Events, online, moves, faults>>

ResetUnread(h) ==
    LET j == job[h] IN
    /\ j.at = "reset"
    /\ unread' = [unread EXCEPT ![j.room][j.user] = 0]
    /\ Announce(h)
    /\ UNCHANGED <<rooms, msgs, Events, online, moves, faults>>

-----------------------------------------------------------------------------
(* Announcing.  A count is read by one statement and emitted when the      *)
(* answer arrives; events to a user without a socket are lost.             *)

SumUnread(h) ==
    /\ job[h].at = "sum"
    /\ job' = [job EXCEPT ![h].at = "show", ![h].total = UnreadTotal(job[h].peer)]
    /\ UNCHANGED <<Rows, Events, online, moves, faults>>

\* Mutant: whoever has a socket is pushed to, instead of whoever has none.
BugShowUnread(h) ==
    LET j == job[h] IN
    /\ j.at = "show"
    /\ shown' = IF j.peer \in online THEN [shown EXCEPT ![j.peer] = j.total] ELSE shown
    /\ alerted' = alerted \cup {i \in {j.msg} : j.op \in Sends /\ j.peer \in online}
    /\ IF j.op \in Sends /\ j.peer \in online THEN Goto(h, "push") ELSE Finish(h)
    /\ UNCHANGED <<Rows, online, moves, faults>>

\* Whoever sends pushes when, at that moment, the receiver has no socket.
ShowUnread(h) ==
    LET j == job[h] IN
    /\ j.at = "show"
    /\ shown' = IF j.peer \in online THEN [shown EXCEPT ![j.peer] = j.total] ELSE shown
    /\ alerted' = alerted \cup {i \in {j.msg} : j.op \in Sends /\ j.peer \in online}
    /\ IF j.op \in Sends /\ j.peer \notin online THEN Goto(h, "push") ELSE Finish(h)
    /\ UNCHANGED <<Rows, online, moves, faults>>

Push(h) ==
    /\ job[h].at = "push"
    /\ alerted' = alerted \cup {job[h].msg}
    /\ Finish(h)
    /\ UNCHANGED <<Rows, shown, online, moves, faults>>

-----------------------------------------------------------------------------
(* Propositions.                                                           *)

\* UpdateProposalStatusUseCase, on any message and whatever its status; the
\* notification of the sender is in Notifications.
Answer(i, s) ==
    /\ Counted
    /\ i \in DOMAIN msgs
    /\ msgs' = [msgs EXCEPT ![i].status = s]
    /\ UNCHANGED <<rooms, unread, Events, online, job, faults>>

\* propositionExpired passes; a proposition without one never expires.
Expire(i) ==
    /\ Counted
    /\ i \in DOMAIN msgs /\ Open(msgs[i])
    /\ msgs' = [msgs EXCEPT ![i].expired = TRUE]
    /\ UNCHANGED <<rooms, unread, Events, online, job, faults>>

\* The getUnreadCounts event.
AskCounts(h, u) ==
    /\ Begin(h, [NoJob EXCEPT !.op = "ask", !.at = "sum", !.peer = u])
    /\ Counted
    /\ UNCHANGED <<Rows, Events, online, faults>>

-----------------------------------------------------------------------------
(* Sockets and failures.                                                   *)

Connect(u) ==
    /\ Counted
    /\ u \notin online
    /\ online' = online \cup {u}
    /\ UNCHANGED <<Rows, Events, job, faults>>

Disconnect(u) ==
    /\ Counted
    /\ u \in online
    /\ online' = online \ {u}
    /\ UNCHANGED <<Rows, Events, job, faults>>

\* A statement is rejected: the request or the detached branch ends there.
Fail(h) ==
    /\ ~Idle(h) /\ faults < MaxFaults
    /\ faults' = faults + 1
    /\ Finish(h)
    /\ UNCHANGED <<Rows, Events, online, moves>>

-----------------------------------------------------------------------------
Advance(h) ==
    \/ CreateRoom(h) \/ InsertMessage(h) \/ IncrementUnread(h)
    \/ ReadMessages(h) \/ ResetUnread(h)
    \/ SumUnread(h) \/ ShowUnread(h) \/ Push(h)

Arrive(h) ==
    \/ \E u, v \in Users : <<u, v>> \in Pairs /\ OpenRoomStart(h, u, v)
    \/ \E r \in 1 .. MaxRooms, u \in Senders, prop \in BOOLEAN :
         \/ SendMessage(h, r, u, prop) \/ SendMessageAsNounu(h, r, u, prop)
         \/ handleSendMessage(h, r, u, prop)
    \/ \E r \in 1 .. MaxRooms, u \in Readers : MarkAsRead(h, r, u) \/ MarkRoomAsRead(h, r, u)
    \/ \E u \in Readers : AskCounts(h, u)

Environment ==
    \/ \E r \in 1 .. MaxRooms : DeleteRoom(r)
    \/ \E i \in 1 .. MaxMsgs : Expire(i) \/ \E s \in {"Accepted", "Refused"} : Answer(i, s)
    \/ \E u \in Readers : Connect(u) \/ Disconnect(u)

Next == Environment \/ \E h \in Handlers : Advance(h) \/ Arrive(h) \/ Fail(h)

Spec == Init /\ [][Next]_vars

(***************************************************************************)
(* Fairness.  The event loop runs every branch to its next statement.  A   *)
(* user who keeps opening a conversation of its own keeps marking it as    *)
(* read; such a request competes with others for handlers.  Nothing else   *)
(* has to occur.                                                           *)
(***************************************************************************)
Reading(r, u) ==
    r \in DOMAIN rooms /\ u \in Members(r) /\ \E h \in Handlers : MarkAsRead(h, r, u)

FairSpec ==
    /\ Spec
    /\ \A h \in Handlers : WF_vars(Advance(h))
    /\ \A r \in 1 .. MaxRooms, u \in Readers : SF_vars(Reading(r, u))

-----------------------------------------------------------------------------
(* Properties.                                                             *)

TypeOK ==
    /\ rooms \in Seq(Room)
    /\ msgs \in Seq(Message)
    /\ unread \in [1 .. MaxRooms -> [Users -> Nat]]
    /\ online \subseteq Users
    /\ shown \in [Users -> Nat]
    /\ alerted \subseteq Nat
    /\ job \in [Handlers -> Job]
    /\ moves \in Nat /\ faults \in Nat

(***************************************************************************)
(* Two rooms of one pair exist only if the request that created the later  *)
(* one had looked for a room before the earlier one was stored: findFirst  *)
(* in both directions, deleted rooms included, leaves no other way.        *)
(***************************************************************************)
TwoRoomsOnlyByRace ==
    \A i, j \in DOMAIN rooms :
        i < j /\ Members(i) = Members(j) => rooms[j].base < i

(***************************************************************************)
(* "Une proposition est deja en attente dans cette conversation"           *)
(* (chat.usecases.ts:63): next to an open proposition a later one that     *)
(* passed the check is open only if the check ran before the earlier one   *)
(* was stored; answers and expiry never reopen a proposition.              *)
(***************************************************************************)
TwoOpenOnlyByRace ==
    \A i, j \in DOMAIN msgs :
        i < j /\ msgs[i].room = msgs[j].room /\ Open(msgs[i])
              /\ msgs[j].prop /\ msgs[j].checked
          => msgs[j].base < i

\* What exists once by the code's checks exists twice only by a race.
DoublesOnlyByRace == TwoRoomsOnlyByRace /\ TwoOpenOnlyByRace

\* Messages of room r whose receiver is u, their sender a member of it or not.
AddressedTo(r, u) ==
    {i \in DOMAIN msgs : msgs[i].room = r /\ Receiver(r, msgs[i].from) = u}

\* Increments for u in room r that are still to come.
Owed(r, u) == {h \in Handlers : /\ job[h].room = r /\ job[h].peer = u
                               /\ job[h].at = "increment"}

(***************************************************************************)
(* The badge of a conversation never counts a message twice: counter and   *)
(* increments under way together stay within the messages whose receiver   *)
(* the user is, whichever path stored them, whoever sent them and however  *)
(* reads and failures interleave (chat.gateway.ts:108, 367).               *)
(***************************************************************************)
CountedAtMostOnce ==
    \A r \in 1 .. MaxRooms, u \in Users : r \in DOMAIN rooms =>
        unread[r][u] + Cardinality(Owed(r, u)) <= Cardinality(AddressedTo(r, u))

(***************************************************************************)
(* A read that runs between a message and its increment leaves a counter   *)
(* with nothing to read behind; reading again repairs it, and what the     *)
(* user is last shown becomes 0 although totals are announced late and out *)
(* of order (chat.gateway.ts:361-445).                                     *)
(***************************************************************************)
BadgeClears ==
    \A u \in Readers :
        /\ <>[](UnreadTotal(u) = 0)
        /\ <>[](u \in online) => <>[](shown[u] = 0)

(***************************************************************************)
(* The receiver of a stored message is told of it, by the event with the   *)
(* new count while a socket is connected or by push, also when the socket  *)
(* comes or goes while the message is being counted; only a failed         *)
(* statement can prevent it (chat.gateway.ts:387).                         *)
(***************************************************************************)
Alerted ==
    \A i \in 1 .. MaxMsgs : i \in DOMAIN msgs ~> (i \in alerted \/ faults > 0)

=============================================================================
