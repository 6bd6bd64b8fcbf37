----------------------------- MODULE ChatProofs -----------------------------
(***************************************************************************)
(* Proofs about Chat, for all users, rooms, handlers and bounds.  A        *)
(* request that found nothing writes later; the invariant says that what   *)
(* it did not see is newer than its look, and that each increment under    *)
(* way stands for a message that is already stored.                        *)
(***************************************************************************)
EXTENDS Chat, FiniteSetTheorems, WellFoundedInduction, TLAPS

\* What a request may carry from one statement to the next.
Sound(j) ==
    /\ j.at = "create room" =>
         /\ j.user \in Users /\ j.peer \in Users
         /\ j.base <= Len(rooms)
         /\ \A r \in DOMAIN rooms : Members(r) = {j.user, j.peer} => j.base < r
    /\ j.at \in {"insert", "increment"} =>
         /\ j.room \in 1 .. MaxRooms /\ j.room \in DOMAIN rooms
         /\ j.user \in Users /\ j.peer = Receiver(j.room, j.user)
    /\ j.at = "insert" =>
         /\ j.base <= Len(msgs)
         /\ j.prop /\ j.op # "socket" =>
              \A i \in DOMAIN msgs : msgs[i].room = j.room /\ Open(msgs[i]) => j.base < i
    /\ j.at \in {"insert", "increment", "read messages", "reset", "sum"} => j.peer \in Users

JobsSound == \A h \in Handlers : Sound(job[h])

\* Rooms yet to come have no unread messages.
Fresh == \A r \in 1 .. MaxRooms, u \in Users : r \notin DOMAIN rooms => unread[r][u] = 0

\* Counter and increments under way stay within what was addressed to u.
Bounded(r, u) ==
    /\ IsFiniteSet(Owed(r, u))
    /\ r \in DOMAIN rooms =>
         unread[r][u] + Cardinality(Owed(r, u)) <= Cardinality(AddressedTo(r, u))

Counts == \A r \in 1 .. MaxRooms, u \in Users : Bounded(r, u)

IInv ==
    /\ TypeOK
    /\ JobsSound
    /\ TwoRoomsOnlyByRace
    /\ TwoOpenOnlyByRace
    /\ Fresh
    /\ Counts

-----------------------------------------------------------------------------
(***************************************************************************)
(* The sum of the counters is a number.  It is defined by recursion, so    *)
(* that there is such a function has to be shown, for every number of      *)
(* rooms, and then that its values are numbers.  Induction is by the       *)
(* smallest counterexample, in terms of sets.                              *)
(***************************************************************************)
Less == {p \in Nat \X Nat : p[1] < p[2]}

LEMMA LessIsWellFounded == IsWellFoundedOn(Less, Nat)
<1>1. OpToRel(<, Nat) = Less
  BY Zenon DEF OpToRel, Less
<1>2. QED
  BY <1>1, NatLessThanWellFounded, Zenon

LEMMA SetInduction ==
    ASSUME NEW S, 0 \in S, \A n \in S \cap Nat : n + 1 \in S
    PROVE  Nat \subseteq S
<1>1. SUFFICES ASSUME Nat \ S # {}
               PROVE  FALSE
  OBVIOUS
<1>2. PICK n \in Nat \ S : \A k \in Nat \ S : ~(<<k, n>> \in Less)
  BY <1>1, LessIsWellFounded, WFMin, Zenon
<1>3. n # 0 /\ n - 1 \in Nat /\ (n - 1) + 1 = n
  OBVIOUS
<1>4. <<n - 1, n>> \in Less
  BY <1>3 DEF Less
<1>5. n - 1 \in S
  BY <1>2, <1>3, <1>4
<1>6. QED
  BY <1>3, <1>5

\* The equation that defines a sum of the first n values of a function.
IsSum(f, g, n) == f = [r \in 0 .. n |-> IF r = 0 THEN 0 ELSE f[r - 1] + g[r]]

LEMMA SumExists ==
    ASSUME NEW g
    PROVE  \A n \in Nat : \E f : IsSum(f, g, n)
<1> DEFINE S == {n \in Nat : \E f : IsSum(f, g, n)}
<1>1. 0 \in S
  <2> DEFINE f == [r \in 0 .. 0 |-> 0]
  <2>1. IsSum(f, g, 0)
    BY DEF IsSum
  <2>2. QED
    BY <2>1
<1>2. ASSUME NEW n \in S
      PROVE  n + 1 \in S
  <2>1. PICK f : IsSum(f, g, n)
    OBVIOUS
  <2> DEFINE e == [r \in 0 .. n + 1 |-> IF r = n + 1 THEN f[n] + g[n + 1] ELSE f[r]]
  <2>2. \A r \in 0 .. n : f[r] = IF r = 0 THEN 0 ELSE f[r - 1] + g[r]
    BY <2>1 DEF IsSum
  <2>3. ASSUME NEW r \in 0 .. n + 1
        PROVE  e[r] = IF r = 0 THEN 0 ELSE e[r - 1] + g[r]
    <3>1. CASE r = n + 1
      <4>1. r # 0 /\ n \in 0 .. n + 1 /\ n # n + 1 /\ r - 1 = n
        BY <3>1
      <4>2. e[r] = f[n] + g[n + 1] /\ e[n] = f[n]
        BY <3>1, <4>1
      <4>3. QED
        BY <3>1, <4>1, <4>2
    <3>2. CASE r = 0
      <4>1. 0 \in 0 .. n + 1 /\ 0 # n + 1 /\ 0 \in 0 .. n
        OBVIOUS
      <4>2. e[0] = f[0] /\ f[0] = 0
        BY <2>2, <4>1
      <4>3. QED
        BY <3>2, <4>2
    <3>3. CASE r # 0 /\ r # n + 1
      <4>1. r \in 0 .. n /\ r - 1 \in 0 .. n + 1 /\ r - 1 # n + 1
        BY <3>3
      <4>2. e[r] = f[r] /\ e[r - 1] = f[r - 1]
        BY <3>3, <4>1
      <4>3. f[r] = f[r - 1] + g[r]
        BY <2>2, <3>3, <4>1
      <4>4. QED
        BY <3>3, <4>2, <4>3
    <3>4. QED
      BY <3>1, <3>2, <3>3
  <2>4. e = [r \in 0 .. n + 1 |-> e[r]]
    OBVIOUS
  <2> HIDE DEF e
  <2>5. IsSum(e, g, n + 1)
    BY <2>3, <2>4 DEF IsSum
  <2>6. QED
    BY <2>5
<1> HIDE DEF S
<1>3. Nat \subseteq S
  BY <1>1, <1>2, SetInduction
<1>4. QED
  BY <1>3 DEF S

LEMMA SumType ==
    ASSUME NEW g, NEW n \in Nat, NEW f, IsSum(f, g, n), \A r \in 1 .. n : g[r] \in Nat
    PROVE  f[n] \in Nat
<1> DEFINE S == {k \in Nat : k <= n => f[k] \in Nat}
<1>1. \A r \in 0 .. n : f[r] = IF r = 0 THEN 0 ELSE f[r - 1] + g[r]
  BY DEF IsSum
<1>2. 0 \in S
  BY <1>1
<1>3. ASSUME NEW k \in S
      PROVE  k + 1 \in S
  <2>1. SUFFICES ASSUME k + 1 <= n
                 PROVE  f[k + 1] \in Nat
    OBVIOUS
  <2>2. k + 1 \in 0 .. n /\ k + 1 # 0 /\ (k + 1) - 1 = k /\ k + 1 \in 1 .. n /\ k <= n
    BY <2>1
  <2>3. f[k + 1] = f[k] + g[k + 1]
    BY <1>1, <2>2
  <2>4. f[k] \in Nat /\ g[k + 1] \in Nat
    BY <2>2
  <2>5. QED
    BY <2>3, <2>4
<1> HIDE DEF S
<1>4. Nat \subseteq S
  BY <1>2, <1>3, SetInduction
<1>5. QED
  BY <1>4 DEF S

\* What the unreadCounts event tells is a number.
LEMMA UnreadTotalType ==
    ASSUME TypeOK, NEW u \in Users
    PROVE  UnreadTotal(u) \in Nat
<1>1. PICK g : g = [r \in 1 .. MaxRooms |-> unread[r][u]]
  OBVIOUS
<1>2. \A r \in 1 .. MaxRooms : g[r] = unread[r][u] /\ g[r] \in Nat
  BY <1>1 DEF TypeOK
<1>3. MaxRooms \in Nat
  BY ChatAssumption
<1> DEFINE Q(f) == f = [r \in 0 .. MaxRooms |-> IF r = 0 THEN 0 ELSE f[r - 1] + unread[r][u]]
<1>4. \A f : Q(f) <=> IsSum(f, g, MaxRooms)
  <2>1. ASSUME NEW f
        PROVE  [r \in 0 .. MaxRooms |-> IF r = 0 THEN 0 ELSE f[r - 1] + unread[r][u]]
               = [r \in 0 .. MaxRooms |-> IF r = 0 THEN 0 ELSE f[r - 1] + g[r]]
    BY <1>2, <1>3
  <2>2. QED
    BY <2>1 DEF IsSum
<1>5. \E f : Q(f)
  BY <1>3, <1>4, SumExists
<1>6. PICK s : s = CHOOSE f : Q(f)
  OBVIOUS
<1>7. Q(s)
  BY <1>5, <1>6, Zenon
<1>8. UnreadTotal(u) = s[MaxRooms]
  BY <1>6 DEF UnreadTotal
<1>9. s[MaxRooms] \in Nat
  BY <1>2, <1>3, <1>4, <1>7, SumType
<1>10. QED
  BY <1>8, <1>9

-----------------------------------------------------------------------------
(* How the tables may change under a request.                              *)

RoomsGrow ==
    /\ rooms' \in Seq(Room)
    /\ Len(rooms) <= Len(rooms')
    /\ \A r \in DOMAIN rooms : /\ rooms'[r].sender = rooms[r].sender
                               /\ rooms'[r].receiver = rooms[r].receiver
                               /\ rooms'[r].base = rooms[r].base

\* No proposition opens again.
MsgsGrow ==
    /\ msgs' \in Seq(Message)
    /\ Len(msgs) <= Len(msgs')
    /\ \A i \in DOMAIN msgs : /\ msgs'[i].room = msgs[i].room
                              /\ msgs'[i].from = msgs[i].from
                              /\ msgs'[i].prop = msgs[i].prop
                              /\ msgs'[i].checked = msgs[i].checked
                              /\ msgs'[i].base = msgs[i].base
                              /\ Open(msgs'[i]) => Open(msgs[i])

LEMMA RoomsStay ==
    ASSUME TypeOK, UNCHANGED rooms
    PROVE  RoomsGrow
BY DEF TypeOK, RoomsGrow

LEMMA MsgsStay ==
    ASSUME TypeOK, UNCHANGED msgs
    PROVE  MsgsGrow
BY DEF TypeOK, MsgsGrow

LEMMA NoJobType == NoJob \in Job /\ NoJob.at = "idle"
BY DEF NoJob, Job, Ops, Steps

\* The clauses about a room survive, whatever rooms are added.
LEMMA MembersStay ==
    ASSUME TypeOK, RoomsGrow, NEW r \in DOMAIN rooms
    PROVE  /\ r \in DOMAIN rooms' /\ Members(r)' = Members(r)
           /\ \A u : Receiver(r, u)' = Receiver(r, u)
<1>1. rooms \in Seq(Room)
  BY DEF TypeOK
<1>2. r \in DOMAIN rooms'
  BY <1>1 DEF RoomsGrow
<1>3. QED
  BY <1>2 DEF RoomsGrow, Members, Receiver

LEMMA SoundStays ==
    ASSUME TypeOK, RoomsGrow, MsgsGrow, NEW j \in Job, Sound(j)
    PROVE  Sound(j)'
<1>1. /\ j.base \in Nat /\ rooms \in Seq(Room) /\ msgs \in Seq(Message)
      /\ rooms' \in Seq(Room) /\ msgs' \in Seq(Message)
  BY DEF TypeOK, Job, RoomsGrow, MsgsGrow
<1>2. CASE j.at = "create room"
  <2>0. j.base <= Len(rooms) /\ Len(rooms) \in Nat
    <3>1. j.base <= Len(rooms)
      BY <1>2, Zenon DEF Sound
    <3>2. QED
      BY <1>1, <3>1
  <2>1. ASSUME NEW r \in DOMAIN rooms', Members(r)' = {j.user, j.peer}
        PROVE  j.base < r
    <3>1. CASE r \in DOMAIN rooms
      BY <1>2, <2>1, <3>1, MembersStay DEF Sound
    <3>2. CASE r \notin DOMAIN rooms
      BY <1>1, <2>0, <3>2 DEF RoomsGrow
    <3>3. QED
      BY <3>1, <3>2
  <2>2. j.base <= Len(rooms')
    BY <1>1, <2>0 DEF RoomsGrow
  <2>3. QED
    BY <1>2, <2>1, <2>2 DEF Sound
<1>3. CASE j.at \in {"insert", "increment"}
  <2>1. /\ j.room \in 1 .. MaxRooms /\ j.room \in DOMAIN rooms'
        /\ j.user \in Users /\ j.peer = Receiver(j.room, j.user)'
    BY <1>3, MembersStay DEF Sound
  <2>2. ASSUME j.at = "insert"
        PROVE  j.base <= Len(msgs')
    BY <1>1, <2>2 DEF Sound, MsgsGrow
  <2>3. ASSUME j.at = "insert", j.prop, j.op # "socket", NEW i \in DOMAIN msgs',
               msgs'[i].room = j.room, Open(msgs'[i])
        PROVE  j.base < i
    <3>1. CASE i \in DOMAIN msgs
      BY <2>3, <3>1 DEF Sound, MsgsGrow
    <3>2. CASE i \notin DOMAIN msgs
      BY <1>1, <2>3, <3>2 DEF Sound, MsgsGrow
    <3>3. QED
      BY <3>1, <3>2
  <2>4. QED
    BY <1>3, <2>1, <2>2, <2>3 DEF Sound
<1>4. QED
  BY <1>2, <1>3 DEF Sound

LEMMA JobMoves ==
    ASSUME TypeOK, JobsSound, RoomsGrow, MsgsGrow,
           NEW h \in Handlers, NEW j \in Job, Sound(j)', job' = [job EXCEPT ![h] = j]
    PROVE  job' \in [Handlers -> Job] /\ JobsSound'
<1>1. job' \in [Handlers -> Job]
  BY DEF TypeOK
<1>2. ASSUME NEW g \in Handlers
      PROVE  Sound(job[g])'
  <2>1. CASE g = h
    <3>1. job'[g] = j
      BY <2>1 DEF TypeOK
    <3>2. QED
      BY <3>1 DEF Sound
  <2>2. CASE g # h
    <3>1. PICK k \in Job : k = job[g]
      BY DEF TypeOK
    <3>2. Sound(k) /\ job'[g] = k
      BY <2>2, <3>1 DEF TypeOK, JobsSound
    <3>3. Sound(k)'
      BY <3>2, SoundStays
    <3>4. QED
      BY <3>2, <3>3 DEF Sound
  <2>3. QED
    BY <2>1, <2>2
<1>3. QED
  BY <1>1, <1>2 DEF JobsSound

LEMMA JobsStay ==
    ASSUME TypeOK, JobsSound, RoomsGrow, MsgsGrow, UNCHANGED job
    PROVE  job' \in [Handlers -> Job] /\ JobsSound'
<1>1. ASSUME NEW g \in Handlers
      PROVE  Sound(job[g])'
  <2>1. PICK k \in Job : k = job[g]
    BY DEF TypeOK
  <2>2. Sound(k)'
    BY <2>1, SoundStays DEF JobsSound
  <2>3. QED
    BY <2>1, <2>2 DEF Sound
<1>2. QED
  BY <1>1 DEF TypeOK, JobsSound

-----------------------------------------------------------------------------
(* Counting.                                                               *)

LEMMA SomeFinite ==
    ASSUME NEW s \in Seq(Message), NEW S, S \subseteq DOMAIN s
    PROVE  IsFiniteSet(S) /\ Cardinality(S) \in Nat
<1>1. IsFiniteSet(1 .. Len(s))
  BY FS_Interval
<1>2. S \subseteq 1 .. Len(s)
  OBVIOUS
<1>3. QED
  BY <1>1, <1>2, FS_Subset, FS_CardinalityType

LEMMA AddressedFinite ==
    ASSUME msgs \in Seq(Message), NEW r, NEW u
    PROVE  IsFiniteSet(AddressedTo(r, u)) /\ Cardinality(AddressedTo(r, u)) \in Nat
<1>1. AddressedTo(r, u) \subseteq DOMAIN msgs
  BY DEF AddressedTo
<1>2. QED
  BY <1>1, SomeFinite

\* Rooms keep their two users, so messages keep their receiver.
LEMMA AddressedGrows ==
    ASSUME TypeOK, RoomsGrow, MsgsGrow, NEW r \in DOMAIN rooms, NEW u
    PROVE  /\ AddressedTo(r, u) \subseteq AddressedTo(r, u)'
           /\ Cardinality(AddressedTo(r, u)) <= Cardinality(AddressedTo(r, u)')
           /\ Cardinality(AddressedTo(r, u)) \in Nat /\ Cardinality(AddressedTo(r, u)') \in Nat
<1>1. msgs \in Seq(Message) /\ msgs' \in Seq(Message)
  BY DEF TypeOK, MsgsGrow
<1>2. \A v : Receiver(r, v)' = Receiver(r, v)
  BY MembersStay
<1>3. \A i \in DOMAIN msgs : i \in DOMAIN msgs' /\ msgs'[i].room = msgs[i].room
                             /\ msgs'[i].from = msgs[i].from
  BY <1>1 DEF MsgsGrow
<1>4. AddressedTo(r, u) \subseteq AddressedTo(r, u)'
  <2>1. ASSUME NEW i \in AddressedTo(r, u)
        PROVE  i \in AddressedTo(r, u)'
    <3>1. i \in DOMAIN msgs /\ msgs[i].room = r /\ Receiver(r, msgs[i].from) = u
      BY DEF AddressedTo
    <3>2. Receiver(r, msgs[i].from)' = u
      BY <1>2, <1>3, <3>1 DEF Receiver
    <3>3. QED
      BY <1>3, <3>1, <3>2 DEF AddressedTo
  <2>2. QED
    BY <2>1
<1>5. IsFiniteSet(AddressedTo(r, u)') /\ Cardinality(AddressedTo(r, u)') \in Nat
  <2>1. AddressedTo(r, u)' \subseteq DOMAIN msgs'
    BY DEF AddressedTo
  <2>2. QED
    BY <1>1, <2>1, SomeFinite
<1>6. QED
  BY <1>1, <1>4, <1>5, FS_Subset, AddressedFinite

\* A step that owes no more and counts no more keeps the bound.
LEMMA BoundedStays ==
    ASSUME TypeOK, RoomsGrow, MsgsGrow, NEW r \in 1 .. MaxRooms, NEW u \in Users,
           Bounded(r, u), r \in DOMAIN rooms' => r \in DOMAIN rooms,
           unread'[r][u] \in Nat, unread'[r][u] <= unread[r][u],
           Owed(r, u)' \subseteq Owed(r, u)
    PROVE  Bounded(r, u)'
<1>1. IsFiniteSet(Owed(r, u)) /\ unread[r][u] \in Nat
  BY DEF Bounded, TypeOK
<1>2. /\ IsFiniteSet(Owed(r, u)')
      /\ Cardinality(Owed(r, u)') <= Cardinality(Owed(r, u))
      /\ Cardinality(Owed(r, u)') \in Nat /\ Cardinality(Owed(r, u)) \in Nat
  BY <1>1, FS_Subset, FS_CardinalityType
<1>3. ASSUME r \in DOMAIN rooms'
      PROVE  unread'[r][u] + Cardinality(Owed(r, u)') <= Cardinality(AddressedTo(r, u)')
  <2>1. unread[r][u] + Cardinality(Owed(r, u)) <= Cardinality(AddressedTo(r, u))
    BY <1>3 DEF Bounded
  <2>2. /\ Cardinality(AddressedTo(r, u)) <= Cardinality(AddressedTo(r, u)')
        /\ Cardinality(AddressedTo(r, u)) \in Nat /\ Cardinality(AddressedTo(r, u)') \in Nat
    BY <1>3, AddressedGrows
  <2>3. QED
    BY <1>1, <1>2, <2>1, <2>2
<1>4. QED
  BY <1>2, <1>3 DEF Bounded

\* What the handler that moves owes, it no longer owes.
LEMMA OwedFalls ==
    ASSUME TypeOK, NEW h \in Handlers, NEW j \in Job, job' = [job EXCEPT ![h] = j],
           j.at # "increment", NEW r, NEW u
    PROVE  Owed(r, u)' = Owed(r, u) \ {h}
<1>1. job'[h] = j /\ \A g \in Handlers \ {h} : job'[g] = job[g]
  BY DEF TypeOK
<1>2. QED
  BY <1>1 DEF Owed

(***************************************************************************)
(* A step that adds no room, opens no proposition and raises no counter.   *)
(***************************************************************************)
LEMMA PlainStep ==
    ASSUME IInv, RoomsGrow, MsgsGrow, Len(rooms') = Len(rooms), Len(msgs') = Len(msgs),
           unread' \in [1 .. MaxRooms -> [Users -> Nat]],
           \A r \in 1 .. MaxRooms, u \in Users : unread'[r][u] <= unread[r][u],
           \/ UNCHANGED job
           \/ \E h \in Handlers : \E j \in Job :
                job' = [job EXCEPT ![h] = j] /\ Sound(j)' /\ j.at # "increment",
           online' \subseteq Users, shown' \in [Users -> Nat], alerted' \subseteq Nat,
           moves' \in Nat, faults' \in Nat
    PROVE  IInv'
<1>1. /\ rooms \in Seq(Room) /\ msgs \in Seq(Message)
      /\ rooms' \in Seq(Room) /\ msgs' \in Seq(Message)
  BY DEF IInv, TypeOK, RoomsGrow, MsgsGrow
<1>2. DOMAIN rooms' = DOMAIN rooms /\ DOMAIN msgs' = DOMAIN msgs
  BY <1>1
<1>3. job' \in [Handlers -> Job] /\ JobsSound'
  BY JobMoves, JobsStay DEF IInv
<1>4. TypeOK'
  BY <1>1, <1>3 DEF TypeOK
<1>6. \A r \in DOMAIN rooms : Members(r)' = Members(r)
  BY MembersStay DEF IInv
<1>7. TwoRoomsOnlyByRace'
  BY <1>2, <1>6 DEF IInv, TwoRoomsOnlyByRace, RoomsGrow
<1>8. TwoOpenOnlyByRace'
  BY <1>2 DEF IInv, TwoOpenOnlyByRace, MsgsGrow
<1>9. \A r \in 1 .. MaxRooms, u \in Users : unread[r][u] \in Nat /\ unread'[r][u] \in Nat
  BY DEF IInv, TypeOK
<1>10. Fresh'
  <2>1. ASSUME NEW r \in 1 .. MaxRooms, NEW u \in Users, r \notin DOMAIN rooms'
        PROVE  unread'[r][u] = 0
    <3>1. unread[r][u] = 0
      BY <1>2, <2>1 DEF IInv, Fresh
    <3>2. QED
      BY <1>9, <3>1
  <2>2. QED
    BY <2>1 DEF Fresh
<1>11. ASSUME NEW r \in 1 .. MaxRooms, NEW u \in Users
       PROVE  Bounded(r, u)'
  <2>1. Owed(r, u)' \subseteq Owed(r, u)
    <3>1. CASE UNCHANGED job
      BY <3>1 DEF Owed
    <3>2. ASSUME NEW h \in Handlers, NEW j \in Job, job' = [job EXCEPT ![h] = j],
                 j.at # "increment"
          PROVE  Owed(r, u)' \subseteq Owed(r, u)
      <4>1. TypeOK
        BY DEF IInv
      <4>2. Owed(r, u)' = Owed(r, u) \ {h}
        BY <3>2, <4>1, OwedFalls
      <4>3. QED
        BY <4>2
    <3>3. QED
      BY <3>1, <3>2
  <2>2. r \in DOMAIN rooms' => r \in DOMAIN rooms
    BY <1>2
  <2>3. QED
    BY <1>9, <2>1, <2>2, BoundedStays DEF IInv, Counts
<1>12. QED
  BY <1>3, <1>4, <1>7, <1>8, <1>10, <1>11 DEF IInv, Counts

\* A step of one request that leaves the tables.
LEMMA QuietStep ==
    ASSUME IInv, UNCHANGED Rows, NEW h \in Handlers, NEW j \in Job, Sound(j),
           job' = [job EXCEPT ![h] = j], j.at # "increment",
           online' \subseteq Users, shown' \in [Users -> Nat], alerted' \subseteq Nat,
           moves' \in Nat, faults' \in Nat
    PROVE  IInv'
<1>1. RoomsGrow /\ MsgsGrow
  BY RoomsStay, MsgsStay DEF IInv, Rows
<1>2. Sound(j)'
  BY <1>1, SoundStays DEF IInv
<1>3. /\ unread' \in [1 .. MaxRooms -> [Users -> Nat]] /\ unread' = unread
      /\ Len(rooms') = Len(rooms) /\ Len(msgs') = Len(msgs)
  BY DEF IInv, TypeOK, Rows
<1>4. \A r \in 1 .. MaxRooms, u \in Users : unread[r][u] \in Nat
  BY DEF IInv, TypeOK
<1>5. \A r \in 1 .. MaxRooms, u \in Users : unread'[r][u] <= unread[r][u]
  BY <1>3, <1>4
<1>6. QED
  BY <1>1, <1>2, <1>3, <1>5, PlainStep

-----------------------------------------------------------------------------
(* Requests that begin.                                                    *)

LEMMA RoomNumbers == \A r \in 1 .. MaxRooms : r \in Nat
<1>1. MaxRooms \in Nat
  BY ChatAssumption
<1>2. QED
  BY <1>1

LEMMA CountedType ==
    ASSUME IInv, Counted
    PROVE  moves' \in Nat
BY DEF IInv, TypeOK, Counted

LEMMA RestTyped ==
    ASSUME IInv
    PROVE  /\ online \subseteq Users /\ shown \in [Users -> Nat] /\ alerted \subseteq Nat
           /\ moves \in Nat /\ faults \in Nat
           /\ rooms \in Seq(Room) /\ Len(rooms) \in Nat
           /\ msgs \in Seq(Message) /\ Len(msgs) \in Nat
BY DEF IInv, TypeOK

LEMMA OpenRoomInv ==
    ASSUME IInv, NEW h \in Handlers, NEW u \in Users, NEW v \in Users, OpenRoomStart(h, u, v)
    PROVE  IInv'
<1>1. PICK j : j = [NoJob EXCEPT !.op = "open", !.at = "create room", !.user = u,
                                 !.peer = v, !.base = Len(rooms)]
  OBVIOUS
<1>2. /\ j \in Job /\ j.at = "create room" /\ j.user = u /\ j.peer = v
      /\ j.base = Len(rooms)
  BY <1>1, NoJobType, RestTyped DEF Job, Ops, Steps
<1>3. \A r \in DOMAIN rooms : Members(r) # {u, v}
  BY DEF OpenRoomStart, RoomsOf, Members
<1>4. Sound(j)
  <2>1. PICK n \in Nat : n = Len(rooms)
    BY RestTyped
  <2>2. Len(rooms) <= Len(rooms)
    BY <2>1
  <2>3. j.base <= Len(rooms)
    BY <1>2, <2>2
  <2>4. \A r \in DOMAIN rooms : j.base < r \/ Members(r) # {j.user, j.peer}
    BY <1>2, <1>3
  <2>5. QED
    BY <1>2, <2>3, <2>4 DEF Sound
<1>5. job' = [job EXCEPT ![h] = j]
  BY <1>1 DEF OpenRoomStart, Begin
<1>6. QED
  BY <1>2, <1>4, <1>5, QuietStep, CountedType, RestTyped DEF OpenRoomStart, Events

LEMMA SendStartInv ==
    ASSUME IInv, NEW h \in Handlers, NEW op \in Sends, NEW r \in 1 .. MaxRooms, NEW u \in Users,
           NEW prop \in BOOLEAN, SendStart(h, op, r, u, prop),
           op # "socket" /\ prop => ~hasActive(r)
    PROVE  IInv'
<1>1. PICK j : j = [NoJob EXCEPT !.op = op, !.at = "insert", !.room = r, !.user = u,
                              !.peer = Receiver(r, u), !.prop = prop, !.base = Len(msgs)]
  OBVIOUS
<1>2. r \in DOMAIN rooms /\ rooms[r] \in Room
  BY RestTyped DEF SendStart
<1>3. Receiver(r, u) \in Users
  BY <1>2 DEF Receiver, Room
<1>4. op \in Ops /\ r \in Nat /\ "insert" \in Steps
  <2>1. r \in Nat
    BY RoomNumbers
  <2>2. QED
    BY <2>1 DEF Ops, Sends, Reads, Steps
<1>5. /\ j \in Job /\ j.at = "insert" /\ j.user = u /\ j.peer = Receiver(r, u) /\ j.room = r
      /\ j.prop = prop /\ j.op = op /\ j.base = Len(msgs)
  BY <1>1, <1>3, <1>4, NoJobType, RestTyped DEF Job
<1>6. Sound(j)
  BY <1>2, <1>3, <1>5, RestTyped DEF Sound, hasActive
<1>7. job' = [job EXCEPT ![h] = j]
  BY <1>1 DEF SendStart, Begin
<1>8. QED
  BY <1>5, <1>6, <1>7, QuietStep, CountedType, RestTyped DEF SendStart, Events

LEMMA ReadStartInv ==
    ASSUME IInv, NEW h \in Handlers, NEW op \in Reads, NEW first \in {"read messages", "reset"},
           NEW r \in 1 .. MaxRooms, NEW u \in Users, ReadStart(h, op, first, r, u), moves' \in Nat
    PROVE  IInv'
<1>1. PICK j : j = [NoJob EXCEPT !.op = op, !.at = first, !.room = r, !.user = u, !.peer = u]
  OBVIOUS
<1>2. op \in Ops /\ first \in Steps /\ r \in Nat
  <2>1. r \in Nat
    BY RoomNumbers
  <2>2. QED
    BY <2>1 DEF Ops, Reads, Steps
<1>3. j \in Job /\ j.at = first
  BY <1>1, <1>2, NoJobType DEF Job
<1>4. Sound(j) /\ j.at # "increment"
  <2>1. j.peer = u
    BY <1>1, <1>2, NoJobType DEF Job
  <2>2. QED
    BY <1>3, <2>1 DEF Sound
<1>5. job' = [job EXCEPT ![h] = j]
  BY <1>1 DEF ReadStart, Begin
<1>6. QED
  BY <1>3, <1>4, <1>5, QuietStep, RestTyped DEF ReadStart, Events

LEMMA AskInv ==
    ASSUME IInv, NEW h \in Handlers, NEW u \in Users, AskCounts(h, u)
    PROVE  IInv'
<1>1. PICK j : j = [NoJob EXCEPT !.op = "ask", !.at = "sum", !.peer = u]
  OBVIOUS
<1>2. j \in Job /\ j.at = "sum" /\ j.peer = u
  BY <1>1, NoJobType DEF Job, Ops, Steps
<1>3. Sound(j) /\ j.at # "increment"
  BY <1>2 DEF Sound
<1>4. job' = [job EXCEPT ![h] = j]
  BY <1>1 DEF AskCounts, Begin
<1>5. QED
  BY <1>2, <1>3, <1>4, QuietStep, CountedType, RestTyped DEF AskCounts, Events

LEMMA ArriveInv ==
    ASSUME IInv, NEW h \in Handlers, Arrive(h)
    PROVE  IInv'
<1>1. Senders \subseteq Users /\ Readers \subseteq Users
  BY ChatAssumption
<1>2. ASSUME NEW u \in Users, NEW v \in Users, OpenRoomStart(h, u, v)
      PROVE  IInv'
  BY <1>2, OpenRoomInv
<1>3. ASSUME NEW r \in 1 .. MaxRooms, NEW u \in Senders, NEW prop \in BOOLEAN,
             \/ SendMessage(h, r, u, prop) \/ SendMessageAsNounu(h, r, u, prop)
             \/ handleSendMessage(h, r, u, prop)
      PROVE  IInv'
  <2>1. PICK op \in Sends : /\ SendStart(h, op, r, u, prop)
                            /\ op # "socket" /\ prop => ~hasActive(r)
    BY <1>3 DEF SendMessage, SendMessageAsNounu, handleSendMessage, Sends
  <2>2. u \in Users
    BY <1>1
  <2>3. QED
    BY <2>1, <2>2, SendStartInv
<1>4. ASSUME NEW r \in 1 .. MaxRooms, NEW u \in Readers,
             MarkAsRead(h, r, u) \/ MarkRoomAsRead(h, r, u)
      PROVE  IInv'
  <2>1. u \in Users /\ moves' \in Nat
    BY <1>1, <1>4, CountedType, RestTyped DEF MarkAsRead, MarkRoomAsRead
  <2>2. QED
    BY <1>4, <2>1, ReadStartInv DEF MarkAsRead, MarkRoomAsRead, Reads
<1>5. ASSUME NEW u \in Readers, AskCounts(h, u)
      PROVE  IInv'
  BY <1>1, <1>5, AskInv
<1>6. QED
  BY <1>2, <1>3, <1>4, <1>5 DEF Arrive

-----------------------------------------------------------------------------
(* Storing rooms and messages.                                             *)

LEMMA CreateRoomInv ==
    ASSUME IInv, NEW h \in Handlers, CreateRoom(h)
    PROVE  IInv'
<1>1. /\ job[h] \in Job /\ Sound(job[h]) /\ job[h].at = "create room"
      /\ job[h].user \in Users /\ job[h].peer \in Users
  BY DEF CreateRoom, IInv, TypeOK, JobsSound, Sound
<1>2. PICK row : row = NewRoom(job[h].user, job[h].peer, job[h].base)
  OBVIOUS
<1>3. /\ row \in Room /\ row.sender = job[h].user /\ row.receiver = job[h].peer
      /\ row.base = job[h].base
  BY <1>1, <1>2 DEF Room, NewRoom, Job
<1>4. PICK n : n = Len(rooms) + 1
  OBVIOUS
<1>5. rooms' = Append(rooms, row) /\ UNCHANGED <<msgs, unread, Events, online, moves, faults>>
  BY <1>2 DEF CreateRoom
<1>6. /\ rooms' \in Seq(Room) /\ Len(rooms') = n /\ rooms'[n] = row
      /\ \A r \in DOMAIN rooms : rooms'[r] = rooms[r] /\ r < n
      /\ DOMAIN rooms' = DOMAIN rooms \cup {n} /\ n \notin DOMAIN rooms
  BY <1>3, <1>4, <1>5, RestTyped
<1>7. RoomsGrow /\ MsgsGrow
  BY <1>4, <1>5, <1>6, MsgsStay, RestTyped DEF RoomsGrow, IInv
<1>8. PICK j \in Job : j = NoJob /\ Sound(j)' /\ j.at # "increment"
  BY NoJobType DEF Sound
<1>9. job' = [job EXCEPT ![h] = j]
  BY <1>8 DEF CreateRoom, Finish
<1>10. job' \in [Handlers -> Job] /\ JobsSound'
  BY <1>7, <1>8, <1>9, JobMoves DEF IInv
<1>11. TypeOK'
  BY <1>5, <1>6, <1>10 DEF IInv, TypeOK, Events
<1>13. \A r \in DOMAIN rooms : Members(r)' = Members(r)
  BY <1>7, MembersStay DEF IInv
<1>14. Members(n)' = {job[h].user, job[h].peer}
  BY <1>3, <1>6 DEF Members
<1>15. TwoRoomsOnlyByRace'
  <2>1. ASSUME NEW i \in DOMAIN rooms', NEW k \in DOMAIN rooms', i < k, Members(i)' = Members(k)'
        PROVE  rooms'[k].base < i
    <3>1. CASE k = n
      <4>1. i \in DOMAIN rooms
        BY <1>4, <1>6, <2>1, <3>1, RestTyped
      <4>2. Members(i) = {job[h].user, job[h].peer}
        BY <1>13, <1>14, <2>1, <3>1, <4>1
      <4>3. job[h].base < i
        BY <1>1, <4>1, <4>2 DEF Sound
      <4>4. QED
        BY <1>3, <1>6, <3>1, <4>3
    <3>2. CASE k # n
      <4>1. k \in DOMAIN rooms /\ i \in DOMAIN rooms
        BY <1>4, <1>6, <2>1, <3>2, RestTyped
      <4>2. Members(i) = Members(k)
        BY <1>13, <2>1, <4>1
      <4>3. rooms[k].base < i
        BY <2>1, <4>1, <4>2 DEF IInv, TwoRoomsOnlyByRace
      <4>4. QED
        BY <1>6, <4>1, <4>3
    <3>3. QED
      BY <3>1, <3>2
  <2>2. QED
    BY <2>1 DEF TwoRoomsOnlyByRace
<1>16. TwoOpenOnlyByRace'
  BY <1>5 DEF IInv, TwoOpenOnlyByRace
<1>17. Fresh'
  BY <1>5, <1>6 DEF IInv, Fresh
<1>18. ASSUME NEW r \in 1 .. MaxRooms, NEW u \in Users
       PROVE  Bounded(r, u)'
  <2>1. unread[r][u] \in Nat /\ unread'[r][u] = unread[r][u] /\ Bounded(r, u)
    BY <1>5 DEF IInv, TypeOK, Counts
  <2>2. Owed(r, u)' = Owed(r, u) \ {h}
    BY <1>8, <1>9, OwedFalls DEF IInv
  <2>3. CASE r # n
    BY <1>6, <1>7, <1>13, <2>1, <2>2, <2>3, BoundedStays DEF IInv
  <2>4. CASE r = n
    <3>1. unread[r][u] = 0
      BY <1>6, <2>4 DEF IInv, Fresh
    <3>2. Owed(r, u) = {}
      BY <1>6, <2>4 DEF Owed, IInv, JobsSound, Sound
    <3>3. Owed(r, u)' = {}
      BY <2>2, <3>2
    <3>4. IsFiniteSet(Owed(r, u)') /\ Cardinality(Owed(r, u)') = 0
      BY <3>3, FS_EmptySet
    <3>5. Cardinality(AddressedTo(r, u)') \in Nat
      <4>1. msgs' \in Seq(Message) /\ AddressedTo(r, u)' \subseteq DOMAIN msgs'
        BY <1>11 DEF TypeOK, AddressedTo
      <4>2. QED
        BY <4>1, SomeFinite
    <3>6. QED
      BY <2>1, <3>1, <3>4, <3>5 DEF Bounded
  <2>5. QED
    BY <2>3, <2>4
<1>19. QED
  BY <1>10, <1>11, <1>15, <1>16, <1>17, <1>18 DEF IInv, Counts

(***************************************************************************)
(* A message is stored before it is counted: what was sent to the receiver *)
(* and what is owed grow together.                                         *)
(***************************************************************************)
LEMMA InsertInv ==
    ASSUME IInv, NEW h \in Handlers, InsertMessage(h)
    PROVE  IInv'
<1>1. job[h] \in Job /\ Sound(job[h]) /\ job[h].at = "insert"
  BY DEF InsertMessage, IInv, TypeOK, JobsSound
<1>2. PICK q \in 1 .. MaxRooms : q = job[h].room
  BY <1>1 DEF Sound
<1>3. /\ q \in DOMAIN rooms /\ job[h].user \in Users
      /\ job[h].peer = Receiver(q, job[h].user)
  BY <1>1, <1>2 DEF Sound
<1>4. rooms[q] \in Room
  BY <1>3, RestTyped
<1>5. job[h].user \in Users /\ job[h].peer \in Users
  BY <1>3, <1>4 DEF Receiver, Room
<1>6. PICK m : m = [room |-> q, from |-> job[h].user, prop |-> job[h].prop,
                    status |-> "Pending", expired |-> FALSE, read |-> FALSE,
                    checked |-> job[h].op # "socket", base |-> job[h].base]
  OBVIOUS
<1>7. /\ m \in Message /\ m.room = q /\ m.from = job[h].user /\ m.prop = job[h].prop
      /\ m.checked = (job[h].op # "socket") /\ m.base = job[h].base
  BY <1>1, <1>2, <1>5, <1>6 DEF Message, Statuses, Job
<1>8. PICK n \in Nat : n = Len(msgs) + 1
  BY RestTyped
<1>9. PICK j : j = [job[h] EXCEPT !.at = "increment", !.msg = n, !.base = 0, !.prop = FALSE]
  OBVIOUS
<1>10. /\ j \in Job /\ j.at = "increment" /\ j.room = q /\ j.user = job[h].user
       /\ j.peer = job[h].peer
  <2>1. PICK k1 \in Job : k1 = [job[h] EXCEPT !.at = "increment"]
    BY <1>1 DEF Job, Steps
  <2>2. PICK k2 \in Job : k2 = [k1 EXCEPT !.msg = n]
    BY DEF Job
  <2>3. PICK k3 \in Job : k3 = [k2 EXCEPT !.base = 0]
    BY DEF Job
  <2>4. j = [k3 EXCEPT !.prop = FALSE]
    BY <1>9, <2>1, <2>2, <2>3
  <2>5. /\ k1.at = "increment" /\ k1.room = q /\ k1.user = job[h].user /\ k1.peer = job[h].peer
    BY <1>1, <1>2, <2>1 DEF Job
  <2>6. k2.at = k1.at /\ k2.room = k1.room /\ k2.user = k1.user /\ k2.peer = k1.peer
    BY <2>2 DEF Job
  <2>7. k3.at = k2.at /\ k3.room = k2.room /\ k3.user = k2.user /\ k3.peer = k2.peer
    BY <2>3 DEF Job
  <2>8. /\ j \in Job
        /\ j.at = k3.at /\ j.room = k3.room /\ j.user = k3.user /\ j.peer = k3.peer
    BY <2>4 DEF Job
  <2>9. QED
    BY <2>5, <2>6, <2>7, <2>8
<1>11. /\ msgs' = Append(msgs, m) /\ job' = [job EXCEPT ![h] = j]
       /\ UNCHANGED <<rooms, unread, Events, online, moves, faults>>
  BY <1>2, <1>6, <1>8, <1>9 DEF InsertMessage
<1>12. /\ msgs' \in Seq(Message) /\ Len(msgs') = n /\ msgs'[n] = m
       /\ \A i \in DOMAIN msgs : msgs'[i] = msgs[i] /\ i < n
       /\ DOMAIN msgs' = DOMAIN msgs \cup {n} /\ n \notin DOMAIN msgs
  BY <1>7, <1>8, <1>11, RestTyped
<1>13. RoomsGrow /\ MsgsGrow
  BY <1>8, <1>11, <1>12, RoomsStay, RestTyped DEF MsgsGrow, IInv
<1>14. Sound(j)'
  BY <1>2, <1>3, <1>5, <1>10, <1>11 DEF Sound, Receiver
<1>15. job' \in [Handlers -> Job] /\ JobsSound'
  BY <1>10, <1>11, <1>13, <1>14, JobMoves DEF IInv
<1>16. TypeOK'
  BY <1>11, <1>12, <1>15 DEF IInv, TypeOK, Events
<1>17. TwoRoomsOnlyByRace' /\ Fresh'
  BY <1>11 DEF IInv, TwoRoomsOnlyByRace, Members, Fresh
<1>18. TwoOpenOnlyByRace'
  <2>1. ASSUME NEW i \in DOMAIN msgs', NEW k \in DOMAIN msgs', i < k,
               msgs'[i].room = msgs'[k].room, Open(msgs'[i]), msgs'[k].prop, msgs'[k].checked
        PROVE  msgs'[k].base < i
    <3>1. CASE k = n
      <4>1. i \in DOMAIN msgs
        BY <1>8, <1>12, <2>1, <3>1
      <4>2. /\ msgs[i].room = job[h].room /\ Open(msgs[i])
            /\ job[h].prop /\ job[h].op # "socket"
        BY <1>2, <1>7, <1>12, <2>1, <3>1, <4>1
      <4>3. job[h].base < i
        BY <1>1, <4>1, <4>2 DEF Sound
      <4>4. QED
        BY <1>7, <1>12, <3>1, <4>3
    <3>2. CASE k # n
      <4>1. k \in DOMAIN msgs /\ k < n /\ k \in Nat
        BY <1>12, <3>2, RestTyped
      <4>2. i \in DOMAIN msgs
        BY <1>8, <1>12, <2>1, <4>1, RestTyped
      <4>3. QED
        BY <1>12, <2>1, <4>1, <4>2 DEF IInv, TwoOpenOnlyByRace
    <3>3. QED
      BY <3>1, <3>2
  <2>2. QED
    BY <2>1 DEF TwoOpenOnlyByRace
<1>19. /\ job'[h] = j /\ \A g \in Handlers \ {h} : job'[g] = job[g]
  BY <1>11 DEF IInv, TypeOK
<1>20. ASSUME NEW r \in 1 .. MaxRooms, NEW u \in Users
       PROVE  Bounded(r, u)'
  <2>1. unread[r][u] \in Nat /\ unread'[r][u] = unread[r][u] /\ Bounded(r, u)
    BY <1>11 DEF IInv, TypeOK, Counts
  <2>2. rooms' = rooms
    BY <1>11
  <2>3. CASE r # q \/ u # job[h].peer
    <3>1. Owed(r, u)' \subseteq Owed(r, u)
      BY <1>10, <1>19, <2>3 DEF Owed
    <3>2. QED
      BY <1>13, <2>1, <2>2, <3>1, BoundedStays DEF IInv
  <2>4. CASE r = q /\ u = job[h].peer
    <3>1. h \notin Owed(r, u) /\ Owed(r, u)' = Owed(r, u) \cup {h}
      BY <1>1, <1>10, <1>19, <2>4 DEF Owed
    <3>2. IsFiniteSet(Owed(r, u))
      BY <2>1 DEF Bounded
    <3>3. /\ IsFiniteSet(Owed(r, u)') /\ Cardinality(Owed(r, u)) \in Nat
          /\ Cardinality(Owed(r, u)') = Cardinality(Owed(r, u)) + 1
      BY <3>1, <3>2, FS_AddElement, FS_CardinalityType
    <3>4. n \notin AddressedTo(r, u) /\ AddressedTo(r, u)' = AddressedTo(r, u) \cup {n}
      <4>1. msgs'[n].room = q /\ (Receiver(q, msgs[n].from))' = u
        BY <1>3, <1>7, <1>12, <2>2, <2>4 DEF Receiver
      <4>2. \A i \in DOMAIN msgs :
              msgs'[i] = msgs[i] /\ (Receiver(r, msgs[i].from))' = Receiver(r, msgs[i].from)
        BY <1>12, <2>2 DEF Receiver
      <4>3. n \notin AddressedTo(r, u)
        BY <1>12 DEF AddressedTo
      <4>4. \A i \in DOMAIN msgs' : i \in AddressedTo(r, u)' <=> i \in AddressedTo(r, u) \cup {n}
        BY <1>12, <2>4, <4>1, <4>2 DEF AddressedTo
      <4>5. AddressedTo(r, u)' \subseteq DOMAIN msgs' /\ AddressedTo(r, u) \subseteq DOMAIN msgs
        BY DEF AddressedTo
      <4>6. QED
        BY <1>12, <4>3, <4>4, <4>5
    <3>5. /\ Cardinality(AddressedTo(r, u)) \in Nat
          /\ Cardinality(AddressedTo(r, u)') = Cardinality(AddressedTo(r, u)) + 1
      BY <3>4, RestTyped, AddressedFinite, FS_AddElement
    <3>6. r \in DOMAIN rooms
      BY <1>3, <2>4
    <3>7. unread[r][u] + Cardinality(Owed(r, u)) <= Cardinality(AddressedTo(r, u))
      BY <2>1, <3>6 DEF Bounded
    <3>8. QED
      BY <2>1, <3>3, <3>5, <3>7 DEF Bounded
  <2>5. QED
    BY <2>3, <2>4
<1>21. QED
  BY <1>15, <1>16, <1>17, <1>18, <1>20 DEF IInv, Counts

\* What was owed is counted.
LEMMA IncrementInv ==
    ASSUME IInv, NEW h \in Handlers, IncrementUnread(h)
    PROVE  IInv'
<1>1. job[h] \in Job /\ Sound(job[h]) /\ job[h].at = "increment"
  BY DEF IncrementUnread, IInv, TypeOK, JobsSound
<1>2. PICK q \in 1 .. MaxRooms : q = job[h].room
  BY <1>1 DEF Sound
<1>3. /\ q \in DOMAIN rooms /\ job[h].peer = Receiver(q, job[h].user) /\ rooms[q] \in Room
  BY <1>1, <1>2, RestTyped DEF Sound
<1>4. PICK v \in Users : v = job[h].peer
  BY <1>3 DEF Receiver, Room
<1>5. PICK j : j = [job[h] EXCEPT !.at = "sum", !.room = 0, !.user = Nobody]
  OBVIOUS
<1>6. j \in Job /\ j.at = "sum" /\ j.peer = v
  BY <1>1, <1>4, <1>5 DEF Job, Steps
<1>7. Sound(j)' /\ j.at # "increment"
  BY <1>6 DEF Sound
<1>8. /\ unread' = [unread EXCEPT ![q][v] = @ + 1] /\ job' = [job EXCEPT ![h] = j]
      /\ UNCHANGED <<rooms, msgs, Events, online, moves, faults>>
  BY <1>2, <1>4, <1>5 DEF IncrementUnread, Announce
<1>9. RoomsGrow /\ MsgsGrow
  BY <1>8, RoomsStay, MsgsStay DEF IInv
<1>10. job' \in [Handlers -> Job] /\ JobsSound'
  BY <1>6, <1>7, <1>8, <1>9, JobMoves DEF IInv
<1>11. PICK old \in [Users -> Nat] : old = unread[q]
  BY DEF IInv, TypeOK
<1>12. [old EXCEPT ![v] = @ + 1] \in [Users -> Nat]
  OBVIOUS
<1>13. unread' = [unread EXCEPT ![q] = [old EXCEPT ![v] = @ + 1]]
  BY <1>8, <1>11
<1>14. /\ unread' \in [1 .. MaxRooms -> [Users -> Nat]]
       /\ unread'[q][v] = unread[q][v] + 1
       /\ \A r \in 1 .. MaxRooms, u \in Users : r # q \/ u # v => unread'[r][u] = unread[r][u]
  <2>1. unread \in [1 .. MaxRooms -> [Users -> Nat]]
    BY DEF IInv, TypeOK
  <2>2. unread' \in [1 .. MaxRooms -> [Users -> Nat]] /\ unread'[q] = [old EXCEPT ![v] = @ + 1]
    BY <1>12, <1>13, <2>1
  <2>3. \A r \in 1 .. MaxRooms : r # q => unread'[r] = unread[r]
    BY <1>13, <2>1
  <2>4. QED
    BY <1>11, <2>2, <2>3
<1>15. TypeOK'
  BY <1>8, <1>10, <1>14 DEF IInv, TypeOK, Events
<1>16. TwoRoomsOnlyByRace' /\ TwoOpenOnlyByRace'
  BY <1>8 DEF IInv, TwoRoomsOnlyByRace, TwoOpenOnlyByRace, Members
<1>17. Fresh'
  BY <1>3, <1>8, <1>14 DEF IInv, Fresh
<1>18. ASSUME NEW r \in 1 .. MaxRooms, NEW u \in Users
       PROVE  Bounded(r, u)'
  <2>1. unread[r][u] \in Nat /\ unread'[r][u] \in Nat /\ Bounded(r, u)
    BY <1>14 DEF IInv, TypeOK, Counts
  <2>2. Owed(r, u)' = Owed(r, u) \ {h}
    BY <1>6, <1>7, <1>8, OwedFalls DEF IInv
  <2>3. rooms' = rooms
    BY <1>8
  <2>4. CASE r # q \/ u # v
    BY <1>9, <1>14, <2>1, <2>2, <2>3, <2>4, BoundedStays DEF IInv
  <2>5. CASE r = q /\ u = v
    <3>1. h \in Owed(r, u) /\ IsFiniteSet(Owed(r, u))
      BY <1>1, <1>2, <1>4, <2>1, <2>5 DEF Owed, Bounded
    <3>2. /\ IsFiniteSet(Owed(r, u)') /\ Cardinality(Owed(r, u)) \in Nat
          /\ Cardinality(Owed(r, u)') = Cardinality(Owed(r, u)) - 1
      BY <2>2, <3>1, FS_RemoveElement, FS_CardinalityType
    <3>3. AddressedTo(r, u)' = AddressedTo(r, u) /\ Cardinality(AddressedTo(r, u)) \in Nat
      <4>1. msgs' = msgs /\ \A w : (Receiver(r, w))' = Receiver(r, w)
        BY <1>8 DEF Receiver
      <4>2. Cardinality(AddressedTo(r, u)) \in Nat
        BY RestTyped, AddressedFinite
      <4>3. QED
        BY <4>1, <4>2 DEF AddressedTo
    <3>4. unread'[r][u] = unread[r][u] + 1
      BY <1>14, <2>5
    <3>5. QED
      BY <2>1, <2>3, <3>2, <3>3, <3>4 DEF Bounded
  <2>6. QED
    BY <2>4, <2>5
<1>19. QED
  BY <1>10, <1>15, <1>16, <1>17, <1>18 DEF IInv, Counts

-----------------------------------------------------------------------------
(* The remaining steps add no row.                                         *)

LEMMA SameRooms ==
    ASSUME NEW s \in Seq(Room), NEW f, DOMAIN f = DOMAIN s, f = [r \in DOMAIN s |-> f[r]],
           \A r \in DOMAIN s : f[r] \in Room
    PROVE  f \in Seq(Room) /\ Len(f) = Len(s)
<1>1. f \in [1 .. Len(s) -> Room] /\ Len(s) \in Nat
  OBVIOUS
<1>2. QED
  BY <1>1

LEMMA SameMsgs ==
    ASSUME NEW s \in Seq(Message), NEW f, DOMAIN f = DOMAIN s, f = [i \in DOMAIN s |-> f[i]],
           \A i \in DOMAIN s : f[i] \in Message
    PROVE  f \in Seq(Message) /\ Len(f) = Len(s)
<1>1. f \in [1 .. Len(s) -> Message] /\ Len(s) \in Nat
  OBVIOUS
<1>2. QED
  BY <1>1

\* A message changes only in what an answer, an expiry or a read changes.
Fades(m, n) ==
    /\ n \in Message
    /\ n.room = m.room /\ n.from = m.from /\ n.prop = m.prop
    /\ n.checked = m.checked /\ n.base = m.base
    /\ Open(n) => Open(m)

LEMMA ChangesFade ==
    ASSUME NEW m \in Message
    PROVE  /\ Fades(m, m)
           /\ Fades(m, [m EXCEPT !.read = TRUE])
           /\ Fades(m, [m EXCEPT !.expired = TRUE])
           /\ \A s \in {"Accepted", "Refused"} : Fades(m, [m EXCEPT !.status = s])
<1>1. Fades(m, m) /\ Fades(m, [m EXCEPT !.read = TRUE])
  BY DEF Fades, Message, Open
<1>2. Fades(m, [m EXCEPT !.expired = TRUE])
  BY DEF Fades, Message, Open
<1>3. ASSUME NEW s \in {"Accepted", "Refused"}
      PROVE  Fades(m, [m EXCEPT !.status = s])
  <2>1. PICK n : n = [m EXCEPT !.status = s]
    OBVIOUS
  <2>2. n \in Message /\ n.status = s
    BY <2>1 DEF Message, Statuses
  <2>3. /\ n.room = m.room /\ n.from = m.from /\ n.prop = m.prop
        /\ n.checked = m.checked /\ n.base = m.base
    BY <2>1 DEF Message
  <2>4. ~Open(n)
    BY <2>2 DEF Open
  <2>5. QED
    BY <2>1, <2>2, <2>3, <2>4 DEF Fades
<1>4. QED
  BY <1>1, <1>2, <1>3

LEMMA FadingMsgs ==
    ASSUME msgs \in Seq(Message), msgs' = [i \in DOMAIN msgs |-> msgs'[i]],
           DOMAIN msgs' = DOMAIN msgs, \A i \in DOMAIN msgs : Fades(msgs[i], msgs'[i])
    PROVE  MsgsGrow /\ Len(msgs') = Len(msgs)
<1>1. msgs' \in Seq(Message) /\ Len(msgs') = Len(msgs)
  BY SameMsgs DEF Fades
<1>2. Len(msgs) \in Nat
  OBVIOUS
<1>3. QED
  BY <1>1, <1>2 DEF MsgsGrow, Fades

\* One message fades.
LEMMA OneFades ==
    ASSUME msgs \in Seq(Message), NEW i \in DOMAIN msgs, NEW n, Fades(msgs[i], n),
           msgs' = [msgs EXCEPT ![i] = n]
    PROVE  MsgsGrow /\ Len(msgs') = Len(msgs)
<1>1. \A k \in DOMAIN msgs : msgs[k] \in Message
  OBVIOUS
<1>2. \A k \in DOMAIN msgs : msgs'[k] = IF k = i THEN n ELSE msgs[k]
  OBVIOUS
<1>3. \A k \in DOMAIN msgs : Fades(msgs[k], msgs'[k])
  BY <1>1, <1>2, ChangesFade
<1>4. msgs' = [k \in DOMAIN msgs |-> msgs'[k]] /\ DOMAIN msgs' = DOMAIN msgs
  OBVIOUS
<1>5. QED
  BY <1>3, <1>4, FadingMsgs

\* The bounds on what a step without counting does to the counters.
LEMMA UnreadStays ==
    ASSUME IInv, UNCHANGED unread
    PROVE  /\ unread' \in [1 .. MaxRooms -> [Users -> Nat]]
           /\ \A r \in 1 .. MaxRooms, u \in Users : unread'[r][u] <= unread[r][u]
<1>1. unread \in [1 .. MaxRooms -> [Users -> Nat]] /\ unread' = unread
  BY DEF IInv, TypeOK
<1>2. \A r \in 1 .. MaxRooms, u \in Users : unread[r][u] \in Nat
  BY <1>1
<1>3. QED
  BY <1>1, <1>2

LEMMA ReadMessagesInv ==
    ASSUME IInv, NEW h \in Handlers, ReadMessages(h)
    PROVE  IInv'
<1>1. PICK j : j = [job[h] EXCEPT !.at = "reset"]
  OBVIOUS
<1>2. job[h] \in Job
  BY DEF IInv, TypeOK
<1>3. j \in Job /\ j.at = "reset" /\ j.peer \in Users
  <2>1. job[h].peer \in Users
    BY DEF ReadMessages, IInv, JobsSound, Sound
  <2>2. QED
    BY <1>1, <1>2, <2>1 DEF Job, Steps
<1>4. Sound(j)' /\ j.at # "increment"
  BY <1>3 DEF Sound
<1>5. job' = [job EXCEPT ![h] = j] /\ UNCHANGED <<rooms, unread, Events, online, moves, faults>>
  BY <1>1 DEF ReadMessages, Goto
<1>6. msgs' = [i \in DOMAIN msgs |->
                 IF msgs[i].room = job[h].room /\ msgs[i].from # job[h].user
                 THEN [msgs[i] EXCEPT !.read = TRUE] ELSE msgs[i]]
  BY DEF ReadMessages
<1>7. \A i \in DOMAIN msgs : Fades(msgs[i], msgs'[i])
  <2>1. \A i \in DOMAIN msgs : msgs[i] \in Message
    BY RestTyped
  <2>2. QED
    BY <1>6, <2>1, ChangesFade
<1>8. DOMAIN msgs' = DOMAIN msgs /\ msgs' = [i \in DOMAIN msgs |-> msgs'[i]]
  BY <1>6
<1>9. MsgsGrow /\ Len(msgs') = Len(msgs)
  BY <1>7, <1>8, RestTyped, FadingMsgs
<1>10. RoomsGrow /\ Len(rooms') = Len(rooms)
  BY <1>5, RoomsStay DEF IInv
<1>11. /\ online' \subseteq Users /\ shown' \in [Users -> Nat] /\ alerted' \subseteq Nat
       /\ moves' \in Nat /\ faults' \in Nat
  BY <1>5, RestTyped DEF Events
<1>12. QED
  BY <1>3, <1>4, <1>5, <1>9, <1>10, <1>11, UnreadStays, PlainStep

LEMMA ResetInv ==
    ASSUME IInv, NEW h \in Handlers, ResetUnread(h)
    PROVE  IInv'
<1>1. PICK j : j = [job[h] EXCEPT !.at = "sum", !.room = 0, !.user = Nobody]
  OBVIOUS
<1>2. job[h] \in Job
  BY DEF IInv, TypeOK
<1>3. j \in Job /\ j.at = "sum" /\ j.peer \in Users
  <2>1. job[h].peer \in Users
    BY DEF ResetUnread, IInv, JobsSound, Sound
  <2>2. QED
    BY <1>1, <1>2, <2>1 DEF Job, Steps
<1>4. Sound(j)' /\ j.at # "increment"
  BY <1>3 DEF Sound
<1>5. /\ job' = [job EXCEPT ![h] = j] /\ UNCHANGED <<rooms, msgs, Events, online, moves, faults>>
      /\ unread' = [unread EXCEPT ![job[h].room][job[h].user] = 0]
  BY <1>1 DEF ResetUnread, Announce
<1>6. unread \in [1 .. MaxRooms -> [Users -> Nat]]
  BY DEF IInv, TypeOK
<1>7. ASSUME NEW r \in 1 .. MaxRooms
      PROVE  /\ unread'[r] \in [Users -> Nat]
             /\ \A u \in Users : unread'[r][u] <= unread[r][u]
  <2>1. PICK old \in [Users -> Nat] : old = unread[r]
    BY <1>6
  <2>2. unread'[r] = old \/ unread'[r] = [old EXCEPT ![job[h].user] = 0]
    BY <1>5, <1>6, <2>1
  <2>3. \A u \in Users : old[u] \in Nat
    OBVIOUS
  <2>4. CASE unread'[r] = old
    BY <2>1, <2>3, <2>4
  <2>5. CASE unread'[r] = [old EXCEPT ![job[h].user] = 0]
    <3>1. unread'[r] \in [Users -> Nat]
      <4>1. PICK f : f = [old EXCEPT ![job[h].user] = 0]
        OBVIOUS
      <4>2. f = [u \in Users |-> f[u]] /\ \A u \in Users : f[u] = 0 \/ f[u] = old[u]
        BY <4>1
      <4>3. \A u \in Users : f[u] \in Nat
        BY <2>3, <4>2
      <4>4. f \in [Users -> Nat]
        BY <4>2, <4>3
      <4>5. QED
        BY <2>5, <4>1, <4>4
    <3>2. \A u \in Users : unread'[r][u] = IF u = job[h].user THEN 0 ELSE old[u]
      BY <2>5
    <3>3. QED
      BY <2>1, <2>3, <3>1, <3>2
  <2>6. QED
    BY <2>2, <2>4, <2>5
<1>8. unread' \in [1 .. MaxRooms -> [Users -> Nat]]
  BY <1>5, <1>6, <1>7
<1>9. /\ RoomsGrow /\ MsgsGrow /\ Len(rooms') = Len(rooms) /\ Len(msgs') = Len(msgs)
  BY <1>5, RoomsStay, MsgsStay DEF IInv
<1>10. /\ online' \subseteq Users /\ shown' \in [Users -> Nat] /\ alerted' \subseteq Nat
       /\ moves' \in Nat /\ faults' \in Nat
  BY <1>5, RestTyped DEF Events
<1>11. QED
  BY <1>3, <1>4, <1>5, <1>7, <1>8, <1>9, <1>10, PlainStep

LEMMA SumInv ==
    ASSUME IInv, NEW h \in Handlers, SumUnread(h)
    PROVE  IInv'
<1>1. PICK n \in Nat : n = UnreadTotal(job[h].peer)
  <2>1. PICK u \in Users : u = job[h].peer
    BY DEF SumUnread, IInv, JobsSound, Sound
  <2>2. QED
    BY <2>1, UnreadTotalType DEF IInv
<1>2. PICK j : j = [job[h] EXCEPT !.at = "show", !.total = n]
  OBVIOUS
<1>3. job[h] \in Job
  BY DEF IInv, TypeOK
<1>4. j \in Job /\ j.at = "show"
  BY <1>2, <1>3 DEF Job, Steps
<1>5. Sound(j) /\ j.at # "increment"
  BY <1>4 DEF Sound
<1>6. job' = [job EXCEPT ![h] = j] /\ UNCHANGED <<Rows, Events, online, moves, faults>>
  BY <1>1, <1>2 DEF SumUnread
<1>7. QED
  BY <1>4, <1>5, <1>6, QuietStep, RestTyped DEF Events

LEMMA ShowInv ==
    ASSUME IInv, NEW h \in Handlers, ShowUnread(h)
    PROVE  IInv'
<1>1. job[h] \in Job
  BY DEF IInv, TypeOK
<1>2. PICK j \in Job : /\ job' = [job EXCEPT ![h] = j]
                       /\ Sound(j) /\ j.at # "increment"
  <2>1. CASE Finish(h)
    BY <2>1, NoJobType DEF Finish, Sound
  <2>2. CASE Goto(h, "push")
    <3>1. PICK j : j = [job[h] EXCEPT !.at = "push"]
      OBVIOUS
    <3>2. j \in Job /\ j.at = "push"
      BY <1>1, <3>1 DEF Job, Steps
    <3>3. Sound(j) /\ j.at # "increment"
      BY <3>2 DEF Sound
    <3>4. QED
      BY <2>2, <3>1, <3>2, <3>3 DEF Goto
  <2>3. QED
    BY <2>1, <2>2 DEF ShowUnread
<1>3. job[h].total \in Nat /\ job[h].msg \in Nat
  BY <1>1 DEF Job
<1>4. shown' \in [Users -> Nat] /\ alerted' \subseteq Nat
  BY <1>3, RestTyped DEF ShowUnread
<1>5. UNCHANGED <<Rows, online, moves, faults>>
  BY DEF ShowUnread
<1>6. QED
  BY <1>2, <1>4, <1>5, QuietStep, RestTyped

LEMMA PushInv ==
    ASSUME IInv, NEW h \in Handlers, Push(h)
    PROVE  IInv'
<1>1. job[h].msg \in Nat
  BY DEF IInv, TypeOK, Job
<1>2. PICK j \in Job : j = NoJob /\ Sound(j) /\ j.at # "increment"
  BY NoJobType DEF Sound
<1>3. job' = [job EXCEPT ![h] = j] /\ alerted' = alerted \cup {job[h].msg}
      /\ UNCHANGED <<Rows, shown, online, moves, faults>>
  BY <1>2 DEF Push, Finish
<1>4. alerted' \subseteq Nat
  BY <1>1, <1>3, RestTyped
<1>5. QED
  BY <1>2, <1>3, <1>4, QuietStep, RestTyped

LEMMA FailInv ==
    ASSUME IInv, NEW h \in Handlers, Fail(h)
    PROVE  IInv'
<1>1. PICK j \in Job : j = NoJob /\ Sound(j) /\ j.at # "increment"
  BY NoJobType DEF Sound
<1>2. job' = [job EXCEPT ![h] = j] /\ UNCHANGED <<Rows, Events, online, moves>>
  BY <1>1 DEF Fail, Finish
<1>3. faults' \in Nat
  BY RestTyped DEF Fail
<1>4. QED
  BY <1>1, <1>2, <1>3, QuietStep, RestTyped DEF Events

\* A room is deleted; it keeps its members.
LEMMA DeleteRoomInv ==
    ASSUME IInv, NEW r, DeleteRoom(r)
    PROVE  IInv'
<1>1. r \in DOMAIN rooms /\ rooms[r] \in Room
  BY RestTyped DEF DeleteRoom
<1>2. PICK row : row = [rooms[r] EXCEPT !.deleted = TRUE]
  OBVIOUS
<1>3. /\ row \in Room /\ row.sender = rooms[r].sender /\ row.receiver = rooms[r].receiver
      /\ row.base = rooms[r].base
  BY <1>1, <1>2 DEF Room
<1>4. rooms' = [rooms EXCEPT ![r] = row] /\ UNCHANGED <<msgs, unread, Events, online, job, faults>>
  BY <1>2 DEF DeleteRoom
<1>5. /\ rooms' \in Seq(Room) /\ Len(rooms') = Len(rooms) /\ DOMAIN rooms' = DOMAIN rooms
      /\ \A k \in DOMAIN rooms : rooms'[k] = IF k = r THEN row ELSE rooms[k]
  BY <1>1, <1>3, <1>4, RestTyped
<1>6. RoomsGrow /\ MsgsGrow /\ Len(msgs') = Len(msgs)
  BY <1>3, <1>4, <1>5, MsgsStay, RestTyped DEF RoomsGrow, IInv
<1>7. moves' \in Nat
  BY CountedType DEF DeleteRoom
<1>8. /\ online' \subseteq Users /\ shown' \in [Users -> Nat] /\ alerted' \subseteq Nat
      /\ faults' \in Nat
  BY <1>4, RestTyped DEF Events
<1>9. QED
  BY <1>4, <1>5, <1>6, <1>7, <1>8, UnreadStays, PlainStep

LEMMA MessageChanges ==
    ASSUME IInv, NEW i \in DOMAIN msgs, NEW n, Fades(msgs[i], n), msgs' = [msgs EXCEPT ![i] = n],
           Counted, UNCHANGED <<rooms, unread, Events, online, job, faults>>
    PROVE  IInv'
<1>1. MsgsGrow /\ Len(msgs') = Len(msgs)
  BY OneFades, RestTyped
<1>2. RoomsGrow /\ Len(rooms') = Len(rooms)
  BY RoomsStay DEF IInv
<1>3. /\ online' \subseteq Users /\ shown' \in [Users -> Nat] /\ alerted' \subseteq Nat
      /\ faults' \in Nat /\ moves' \in Nat
  BY CountedType, RestTyped DEF Events
<1>4. QED
  BY <1>1, <1>2, <1>3, UnreadStays, PlainStep

LEMMA AnswerInv ==
    ASSUME IInv, NEW i, NEW s \in {"Accepted", "Refused"}, Answer(i, s)
    PROVE  IInv'
<1>1. i \in DOMAIN msgs /\ msgs[i] \in Message
  BY RestTyped DEF Answer
<1>2. PICK n : n = [msgs[i] EXCEPT !.status = s]
  OBVIOUS
<1>3. Fades(msgs[i], n)
  BY <1>1, <1>2, ChangesFade
<1>4. msgs' = [msgs EXCEPT ![i] = n]
  BY <1>2 DEF Answer
<1>5. QED
  BY <1>1, <1>3, <1>4, MessageChanges DEF Answer

LEMMA ExpireInv ==
    ASSUME IInv, NEW i, Expire(i)
    PROVE  IInv'
<1>1. i \in DOMAIN msgs /\ msgs[i] \in Message
  BY RestTyped DEF Expire
<1>2. PICK n : n = [msgs[i] EXCEPT !.expired = TRUE]
  OBVIOUS
<1>3. Fades(msgs[i], n)
  BY <1>1, <1>2, ChangesFade
<1>4. msgs' = [msgs EXCEPT ![i] = n]
  BY <1>2 DEF Expire
<1>5. QED
  BY <1>1, <1>3, <1>4, MessageChanges DEF Expire

LEMMA SocketInv ==
    ASSUME IInv, UNCHANGED <<Rows, Events, job, faults>>, online' \subseteq Users, moves' \in Nat
    PROVE  IInv'
<1>1. /\ RoomsGrow /\ MsgsGrow /\ Len(rooms') = Len(rooms) /\ Len(msgs') = Len(msgs)
      /\ UNCHANGED unread /\ UNCHANGED job
  BY RoomsStay, MsgsStay DEF IInv, Rows
<1>2. shown' \in [Users -> Nat] /\ alerted' \subseteq Nat /\ faults' \in Nat
  BY RestTyped DEF Events
<1>3. QED
  BY <1>1, <1>2, UnreadStays, PlainStep

LEMMA EnvironmentInv ==
    ASSUME IInv, Environment
    PROVE  IInv'
<1>1. ASSUME NEW u \in Readers, Connect(u) \/ Disconnect(u)
      PROVE  IInv'
  <2>1. u \in Users
    BY ChatAssumption
  <2>2. UNCHANGED <<Rows, Events, job, faults>> /\ online' \subseteq Users /\ moves' \in Nat
    BY <1>1, <2>1, CountedType, RestTyped DEF Connect, Disconnect
  <2>3. QED
    BY <2>2, SocketInv
<1>2. QED
  BY <1>1, DeleteRoomInv, AnswerInv, ExpireInv DEF Environment

(***************************************************************************)
(* IInv is inductive.                                                      *)
(***************************************************************************)
LEMMA InitInv ==
    ASSUME Init
    PROVE  IInv
<1>1. DOMAIN rooms = {} /\ DOMAIN msgs = {}
  BY DEF Init
<1>2. \A h \in Handlers : job[h] = NoJob
  BY DEF Init
<1>3. job \in [Handlers -> Job]
  BY NoJobType DEF Init
<1>4. TypeOK
  BY <1>3 DEF Init, TypeOK
<1>5. JobsSound
  BY <1>2, NoJobType DEF JobsSound, Sound
<1>6. TwoRoomsOnlyByRace /\ TwoOpenOnlyByRace
  BY <1>1 DEF TwoRoomsOnlyByRace, TwoOpenOnlyByRace
<1>7. Fresh
  BY DEF Init, Fresh
<1>8. ASSUME NEW r \in 1 .. MaxRooms, NEW u \in Users
      PROVE  Bounded(r, u)
  <2>1. Owed(r, u) = {}
    BY <1>2, NoJobType DEF Owed
  <2>2. QED
    BY <1>1, <2>1, FS_EmptySet DEF Bounded
<1>9. QED
  BY <1>4, <1>5, <1>6, <1>7, <1>8 DEF IInv, Counts

LEMMA StepInv ==
    ASSUME IInv, [Next]_vars
    PROVE  IInv'
<1>1. ASSUME NEW h \in Handlers, Advance(h)
      PROVE  IInv'
  BY <1>1, CreateRoomInv, InsertInv, IncrementInv, ReadMessagesInv, ResetInv,
     SumInv, ShowInv, PushInv DEF Advance
<1>2. ASSUME NEW h \in Handlers, Arrive(h) \/ Fail(h)
      PROVE  IInv'
  BY <1>2, ArriveInv, FailInv
<1>3. CASE UNCHANGED vars
  <2>1. UNCHANGED <<Rows, Events, job, faults>> /\ online' \subseteq Users /\ moves' \in Nat
    BY <1>3, RestTyped DEF vars, Rows, Events
  <2>2. QED
    BY <2>1, SocketInv
<1>4. QED
  BY <1>1, <1>2, <1>3, EnvironmentInv DEF Next

\* Tables, sockets, events and requests are well typed in every reachable
\* state; in particular every total announced is a number.
THEOREM TypeCorrect == Spec => []TypeOK
<1>1. Init => IInv
  BY InitInv
<1>2. IInv /\ [Next]_vars => IInv'
  BY StepInv
<1>3. IInv => TypeOK
  BY DEF IInv
<1>4. QED
  BY <1>1, <1>2, <1>3, PTL DEF Spec

(***************************************************************************)
(* Two rooms of a pair, or two pending propositions of which the later was *)
(* checked, come from requests that crossed, whatever their number.        *)
(***************************************************************************)
THEOREM DoublesAreRaces == Spec => []DoublesOnlyByRace
<1>1. Init => IInv
  BY InitInv
<1>2. IInv /\ [Next]_vars => IInv'
  BY StepInv
<1>3. IInv => DoublesOnlyByRace
  BY DEF IInv, DoublesOnlyByRace
<1>4. QED
  BY <1>1, <1>2, <1>3, PTL DEF Spec

(***************************************************************************)
(* No message is counted twice: the counter of a conversation and the      *)
(* increments under way never exceed what was sent to its reader.          *)
(***************************************************************************)
THEOREM NothingCountedTwice == Spec => []CountedAtMostOnce
<1>1. Init => IInv
  BY InitInv
<1>2. IInv /\ [Next]_vars => IInv'
  BY StepInv
<1>3. IInv => CountedAtMostOnce
  BY DEF IInv, Counts, Bounded, Fresh, CountedAtMostOnce, TypeOK
<1>4. QED
  BY <1>1, <1>2, <1>3, PTL DEF Spec

-----------------------------------------------------------------------------
(***************************************************************************)
(* The safety half of Alerted: a message whose receiver was not told yet   *)
(* is in the hands of the branch that will tell, whether or not a socket   *)
(* comes or goes meanwhile, and one failure drops one message at most.     *)
(***************************************************************************)
Carrying == {"increment", "sum", "show", "push"}

CarriedBy(h, i) == job[h].msg = i /\ job[h].op \in Sends /\ job[h].at \in Carrying

Forgotten == {i \in DOMAIN msgs : /\ i \notin alerted
                                  /\ \A h \in Handlers : ~CarriedBy(h, i)}

\* A receiver is forgotten only by a failed statement, one by each at most.
ForgottenByFailure == Cardinality(Forgotten) <= faults

\* Only those who send have a message to insert or to count.
SendersInsert ==
    \A h \in Handlers : job[h].at \in {"insert", "increment"} => job[h].op \in Sends

LEMMA ForgottenFinite ==
    ASSUME TypeOK
    PROVE  IsFiniteSet(Forgotten) /\ Cardinality(Forgotten) \in Nat
<1>1. PICK n \in Nat : n = Len(msgs) /\ DOMAIN msgs = 1 .. n
  BY DEF TypeOK
<1>2. IsFiniteSet(1 .. n)
  BY FS_Interval
<1>3. Forgotten \subseteq 1 .. n
  BY <1>1 DEF Forgotten
<1> QED
  BY <1>2, <1>3, FS_Subset, FS_CardinalityType

\* Fewer are forgotten, or one more with one failure more.
LEMMA FewerForgotten ==
    ASSUME TypeOK, TypeOK', ForgottenByFailure, Forgotten' \subseteq Forgotten, faults <= faults'
    PROVE  ForgottenByFailure'
<1>1. IsFiniteSet(Forgotten) /\ Cardinality(Forgotten) \in Nat
  BY ForgottenFinite
<1>2. Cardinality(Forgotten') <= Cardinality(Forgotten) /\ IsFiniteSet(Forgotten')
  BY <1>1, FS_Subset
<1>3. Cardinality(Forgotten') \in Nat /\ faults \in Nat /\ faults' \in Nat
  BY <1>2, FS_CardinalityType DEF TypeOK
<1> QED
  BY <1>1, <1>2, <1>3 DEF ForgottenByFailure

LEMMA OneMoreForgotten ==
    ASSUME TypeOK, TypeOK', ForgottenByFailure, NEW i, Forgotten' \subseteq Forgotten \cup {i},
           faults' = faults + 1
    PROVE  ForgottenByFailure'
<1>1. IsFiniteSet(Forgotten) /\ Cardinality(Forgotten) \in Nat
  BY ForgottenFinite
<1>2. PICK more : more = Forgotten \cup {i}
  OBVIOUS
<1>3. /\ IsFiniteSet(more)
      /\ Cardinality(more) = IF i \in Forgotten THEN Cardinality(Forgotten)
                             ELSE Cardinality(Forgotten) + 1
  BY <1>1, <1>2, FS_AddElement
<1>4. IsFiniteSet(Forgotten') /\ Cardinality(Forgotten') <= Cardinality(more)
  BY <1>2, <1>3, FS_Subset
<1>5. /\ Cardinality(Forgotten') \in Nat /\ Cardinality(more) \in Nat
      /\ faults \in Nat /\ Cardinality(more) <= Cardinality(Forgotten) + 1
  BY <1>1, <1>3, <1>4, FS_CardinalityType DEF TypeOK
<1> QED
  BY <1>1, <1>4, <1>5 DEF ForgottenByFailure

\* The messages stay; request h goes on to j, and tells or still carries what
\* it carried.
LEMMA CarriesOn ==
    ASSUME TypeOK, TypeOK', SendersInsert, ForgottenByFailure,
           NEW h \in Handlers, NEW j, job' = [job EXCEPT ![h] = j],
           DOMAIN msgs' = DOMAIN msgs, alerted \subseteq alerted', UNCHANGED faults,
           j.at \in {"insert", "increment"} => j.op \in Sends,
           job[h].op \in Sends /\ job[h].at \in Carrying
             => \/ job[h].msg \in alerted'
                \/ j.msg = job[h].msg /\ j.op = job[h].op /\ j.at \in Carrying
    PROVE  SendersInsert' /\ ForgottenByFailure'
<1>1. job'[h] = j /\ \A g \in Handlers \ {h} : job'[g] = job[g]
  BY DEF TypeOK
<1>2. SendersInsert'
  BY <1>1 DEF SendersInsert
<1>3. ASSUME NEW i \in Forgotten'
      PROVE  i \in Forgotten
  <2>1. i \in DOMAIN msgs /\ i \notin alerted' /\ \A g \in Handlers : ~CarriedBy(g, i)'
    BY <1>3 DEF Forgotten
  <2>2. ASSUME NEW g \in Handlers
        PROVE  ~CarriedBy(g, i)
    <3>1. CASE g = h
      BY <1>1, <2>1, <3>1 DEF CarriedBy
    <3>2. CASE g # h
      BY <1>1, <2>1, <3>2 DEF CarriedBy
    <3> QED
      BY <3>1, <3>2
  <2> QED
    BY <2>1, <2>2 DEF Forgotten
<1>4. faults <= faults'
  BY DEF TypeOK
<1> QED
  BY <1>2, <1>3, <1>4, FewerForgotten

\* Nothing about a message happens.
LEMMA NothingForgotten ==
    ASSUME TypeOK, TypeOK', SendersInsert, ForgottenByFailure,
           DOMAIN msgs' = DOMAIN msgs, UNCHANGED <<alerted, job, faults>>
    PROVE  SendersInsert' /\ ForgottenByFailure'
<1>1. Forgotten' \subseteq Forgotten
  BY DEF Forgotten, CarriedBy
<1>2. faults <= faults' /\ SendersInsert'
  BY DEF TypeOK, SendersInsert
<1> QED
  BY <1>1, <1>2, FewerForgotten

LEMMA BeginForgets ==
    ASSUME TypeOK, TypeOK', SendersInsert, ForgottenByFailure, NEW h \in Handlers,
           NEW j, Begin(h, j), j.at = "insert" => j.op \in Sends, j.at # "increment",
           UNCHANGED <<msgs, alerted, faults>>
    PROVE  SendersInsert' /\ ForgottenByFailure'
<1>1. job[h].at = "idle" /\ job' = [job EXCEPT ![h] = j]
  BY DEF Begin, Idle
<1> QED
  BY <1>1, CarriesOn DEF Carrying

LEMMA ArriveForgets ==
    ASSUME TypeOK, TypeOK', SendersInsert, ForgottenByFailure, NEW h \in Handlers, Arrive(h)
    PROVE  SendersInsert' /\ ForgottenByFailure'
<1>1. ASSUME NEW u, NEW v, OpenRoomStart(h, u, v)
      PROVE  SendersInsert' /\ ForgottenByFailure'
  <2>1. PICK j : j = [NoJob EXCEPT !.op = "open", !.at = "create room", !.user = u,
                                   !.peer = v, !.base = Len(rooms)]
    OBVIOUS
  <2>2. j.at = "create room"
    BY <2>1 DEF NoJob
  <2> QED
    BY <1>1, <2>1, <2>2, BeginForgets DEF OpenRoomStart, Rows, Events
<1>2. ASSUME NEW op \in Sends, NEW r, NEW u, NEW prop, SendStart(h, op, r, u, prop)
      PROVE  SendersInsert' /\ ForgottenByFailure'
  <2>1. PICK j : j = [NoJob EXCEPT !.op = op, !.at = "insert", !.room = r, !.user = u,
                                   !.peer = Receiver(r, u), !.prop = prop,
                                   !.base = Len(msgs)]
    OBVIOUS
  <2>2. j.at = "insert" /\ j.op = op
    BY <2>1 DEF NoJob
  <2>3. Begin(h, j) /\ UNCHANGED <<msgs, alerted, faults>>
    BY <1>2, <2>1 DEF SendStart, Rows, Events
  <2> QED
    BY <2>2, <2>3, BeginForgets
<1>3. ASSUME NEW op, NEW step \in {"read messages", "reset"}, NEW r, NEW u,
             ReadStart(h, op, step, r, u)
      PROVE  SendersInsert' /\ ForgottenByFailure'
  <2>1. PICK j : j = [NoJob EXCEPT !.op = op, !.at = step, !.room = r, !.user = u, !.peer = u]
    OBVIOUS
  <2>2. j.at = step
    BY <2>1 DEF NoJob
  <2>3. Begin(h, j) /\ UNCHANGED <<msgs, alerted, faults>>
    BY <1>3, <2>1 DEF ReadStart, Rows, Events
  <2> QED
    BY <2>2, <2>3, BeginForgets
<1>4. ASSUME NEW u, AskCounts(h, u)
      PROVE  SendersInsert' /\ ForgottenByFailure'
  <2>1. PICK j : j = [NoJob EXCEPT !.op = "ask", !.at = "sum", !.peer = u]
    OBVIOUS
  <2>2. j.at = "sum"
    BY <2>1 DEF NoJob
  <2> QED
    BY <1>4, <2>1, <2>2, BeginForgets DEF AskCounts, Rows, Events
<1>5. "http" \in Sends /\ "admin send" \in Sends /\ "socket" \in Sends
  BY DEF Sends
<1> QED
  BY <1>1, <1>2, <1>3, <1>4, <1>5
  DEF Arrive, SendMessage, SendMessageAsNounu, handleSendMessage, MarkAsRead, MarkRoomAsRead

\* A stored message is carried at once.
LEMMA InsertForgets ==
    ASSUME IInv, TypeOK', SendersInsert, ForgottenByFailure, NEW h \in Handlers,
           InsertMessage(h)
    PROVE  SendersInsert' /\ ForgottenByFailure'
<1>1. job[h] \in Job /\ job[h].at = "insert" /\ job[h].op \in Sends
  BY DEF InsertMessage, IInv, TypeOK, SendersInsert
<1>2. PICK n : n = Len(msgs) + 1
  OBVIOUS
<1>3. PICK j : j = [job[h] EXCEPT !.at = "increment", !.msg = n, !.base = 0, !.prop = FALSE]
  OBVIOUS
<1>4. j.at = "increment" /\ j.msg = n /\ j.op = job[h].op
  BY <1>1, <1>3 DEF Job
<1>5. job' = [job EXCEPT ![h] = j] /\ UNCHANGED <<alerted, faults>>
  BY <1>2, <1>3 DEF InsertMessage, Events
<1>6. job'[h] = j /\ \A g \in Handlers \ {h} : job'[g] = job[g]
  BY <1>5 DEF IInv, TypeOK
<1>7. DOMAIN msgs' = DOMAIN msgs \cup {n}
  <2>1. msgs \in Seq(Message) /\ \E m : msgs' = Append(msgs, m)
    BY DEF IInv, TypeOK, InsertMessage
  <2> QED
    BY <1>2, <2>1
<1>8. SendersInsert'
  BY <1>1, <1>4, <1>6 DEF SendersInsert
<1>9. CarriedBy(h, n)'
  BY <1>1, <1>4, <1>6 DEF CarriedBy, Carrying
<1>10. ASSUME NEW i \in Forgotten'
       PROVE  i \in Forgotten
  <2>1. i \in DOMAIN msgs' /\ i \notin alerted /\ \A g \in Handlers : ~CarriedBy(g, i)'
    BY <1>5, <1>10 DEF Forgotten
  <2>2. i \in DOMAIN msgs
    BY <1>7, <1>9, <2>1
  <2>3. \A g \in Handlers : ~CarriedBy(g, i)
    BY <1>1, <1>6, <2>1 DEF CarriedBy, Carrying
  <2> QED
    BY <2>1, <2>2, <2>3 DEF Forgotten
<1>11. faults <= faults'
  BY <1>5 DEF IInv, TypeOK
<1> QED
  BY <1>8, <1>10, <1>11, FewerForgotten DEF IInv

\* Every other step of a branch but the last ones keeps what it carries.
LEMMA GoesOnForgets ==
    ASSUME IInv, TypeOK', SendersInsert, ForgottenByFailure, NEW h \in Handlers,
           \/ CreateRoom(h) \/ ReadMessages(h) \/ ResetUnread(h)
           \/ IncrementUnread(h) \/ SumUnread(h)
    PROVE  SendersInsert' /\ ForgottenByFailure'
<1>1. job[h] \in Job /\ TypeOK /\ NoJob.at = "idle"
  BY NoJobType DEF IInv, TypeOK
<1>2. DOMAIN msgs' = DOMAIN msgs /\ UNCHANGED <<alerted, faults>>
  BY DEF CreateRoom, ReadMessages, ResetUnread, IncrementUnread, SumUnread, Rows, Events
<1>3. CASE CreateRoom(h)
  BY <1>1, <1>2, <1>3, CarriesOn DEF CreateRoom, Finish, Carrying
<1>4. CASE ReadMessages(h)
  <2>1. PICK j : j = [job[h] EXCEPT !.at = "reset"]
    OBVIOUS
  <2>2. job' = [job EXCEPT ![h] = j] /\ j.at = "reset" /\ job[h].at = "read messages"
    BY <1>1, <1>4, <2>1 DEF ReadMessages, Goto, Job
  <2> QED
    BY <1>1, <1>2, <2>2, CarriesOn DEF Carrying
<1>5. CASE ResetUnread(h) \/ IncrementUnread(h)
  <2>1. PICK j : j = [job[h] EXCEPT !.at = "sum", !.room = 0, !.user = Nobody]
    OBVIOUS
  <2>2. job' = [job EXCEPT ![h] = j] /\ j.at = "sum" /\ j.msg = job[h].msg /\ j.op = job[h].op
    BY <1>1, <1>5, <2>1 DEF ResetUnread, IncrementUnread, Announce, Job
  <2> QED
    BY <1>1, <1>2, <2>2, CarriesOn DEF Carrying
<1>6. CASE SumUnread(h)
  <2>1. PICK j : j = [job[h] EXCEPT !.at = "show", !.total = UnreadTotal(job[h].peer)]
    OBVIOUS
  <2>2. job' = [job EXCEPT ![h] = j] /\ j.at = "show" /\ j.msg = job[h].msg /\ j.op = job[h].op
    BY <1>1, <1>6, <2>1 DEF SumUnread, Job
  <2> QED
    BY <1>1, <1>2, <2>2, CarriesOn DEF Carrying
<1> QED
  BY <1>3, <1>4, <1>5, <1>6

\* On line the receiver is told, off line the branch goes on to the push.
LEMMA ShowForgets ==
    ASSUME IInv, TypeOK', SendersInsert, ForgottenByFailure, NEW h \in Handlers,
           ShowUnread(h) \/ Push(h)
    PROVE  SendersInsert' /\ ForgottenByFailure'
<1>1. job[h] \in Job /\ TypeOK /\ NoJob.at = "idle"
  BY NoJobType DEF IInv, TypeOK
<1>2. DOMAIN msgs' = DOMAIN msgs /\ UNCHANGED faults /\ alerted \subseteq alerted'
  BY DEF ShowUnread, Push, Rows
<1>3. CASE Push(h)
  <2>1. job[h].msg \in alerted' /\ job' = [job EXCEPT ![h] = NoJob]
    BY <1>3 DEF Push, Finish
  <2> QED
    BY <1>1, <1>2, <2>1, CarriesOn
<1>4. CASE ShowUnread(h) /\ job[h].op \in Sends /\ job[h].peer \notin online
  <2>1. PICK j : j = [job[h] EXCEPT !.at = "push"]
    OBVIOUS
  <2>2. job' = [job EXCEPT ![h] = j] /\ j.at = "push" /\ j.msg = job[h].msg /\ j.op = job[h].op
    BY <1>1, <1>4, <2>1 DEF ShowUnread, Goto, Job
  <2> QED
    BY <1>1, <1>2, <2>2, CarriesOn DEF Carrying
<1>5. CASE ShowUnread(h) /\ ~(job[h].op \in Sends /\ job[h].peer \notin online)
  <2>1. job' = [job EXCEPT ![h] = NoJob]
    BY <1>5 DEF ShowUnread, Finish
  <2>2. job[h].op \in Sends => job[h].msg \in alerted'
    BY <1>5 DEF ShowUnread
  <2> QED
    BY <1>1, <1>2, <2>1, <2>2, CarriesOn
<1> QED
  BY <1>3, <1>4, <1>5

LEMMA FailForgets ==
    ASSUME IInv, TypeOK', SendersInsert, ForgottenByFailure, NEW h \in Handlers, Fail(h)
    PROVE  SendersInsert' /\ ForgottenByFailure'
<1>1. /\ job' = [job EXCEPT ![h] = NoJob] /\ NoJob.at = "idle"
      /\ UNCHANGED <<msgs, alerted>> /\ faults' = faults + 1
  BY NoJobType DEF Fail, Finish, Rows, Events
<1>2. job'[h] = NoJob /\ \A g \in Handlers \ {h} : job'[g] = job[g]
  BY <1>1 DEF IInv, TypeOK
<1>3. SendersInsert'
  BY <1>1, <1>2 DEF SendersInsert
<1>4. ASSUME NEW i \in Forgotten', i # job[h].msg
      PROVE  i \in Forgotten
  <2>1. i \in DOMAIN msgs /\ i \notin alerted /\ \A g \in Handlers : ~CarriedBy(g, i)'
    BY <1>1, <1>4 DEF Forgotten
  <2>2. \A g \in Handlers : ~CarriedBy(g, i)
    BY <1>2, <1>4, <2>1 DEF CarriedBy
  <2> QED
    BY <2>1, <2>2 DEF Forgotten
<1>5. PICK i : i = job[h].msg
  OBVIOUS
<1>6. Forgotten' \subseteq Forgotten \cup {i}
  BY <1>4, <1>5
<1> QED
  BY <1>1, <1>3, <1>6, OneMoreForgotten DEF IInv

LEMMA EnvironmentForgets ==
    ASSUME IInv, TypeOK', SendersInsert, ForgottenByFailure, Environment
    PROVE  SendersInsert' /\ ForgottenByFailure'
<1>1. DOMAIN msgs' = DOMAIN msgs /\ UNCHANGED <<alerted, job, faults>>
  BY DEF Environment, DeleteRoom, Expire, Answer, Connect, Disconnect, Rows, Events, IInv, TypeOK
<1> QED
  BY <1>1, NothingForgotten DEF IInv

(***************************************************************************)
(* Without a failure no receiver of a stored message is forgotten: each    *)
(* was told, on line or by push, or the branch that tells is under way;    *)
(* and one failed statement costs one message at most, for any number of   *)
(* users, rooms and branches (job-chat-notification.repository.ts:359 and  *)
(* the branches of chat.gateway.ts:112 after it, which nobody awaits).     *)
(***************************************************************************)
THEOREM NobodyIsForgotten == Spec => []ForgottenByFailure
<1>1. Init => IInv /\ SendersInsert /\ ForgottenByFailure
  <2> SUFFICES ASSUME Init
               PROVE  SendersInsert /\ ForgottenByFailure
    BY InitInv
  <2>1. SendersInsert
    BY NoJobType DEF Init, SendersInsert
  <2>2. Forgotten = {}
    BY DEF Init, Forgotten
  <2>3. Cardinality(Forgotten) = 0 /\ faults = 0
    BY <2>2, FS_EmptySet DEF Init
  <2> QED
    BY <2>1, <2>3 DEF ForgottenByFailure
<1>2. (IInv /\ SendersInsert /\ ForgottenByFailure) /\ [Next]_vars
        => (IInv /\ SendersInsert /\ ForgottenByFailure)'
  <2> SUFFICES ASSUME IInv, SendersInsert, ForgottenByFailure, [Next]_vars
               PROVE  IInv' /\ SendersInsert' /\ ForgottenByFailure'
    OBVIOUS
  <2>1. IInv' /\ TypeOK /\ TypeOK'
    BY StepInv DEF IInv
  <2>2. CASE UNCHANGED vars
    BY <2>1, <2>2, NothingForgotten DEF vars
  <2>3. ASSUME NEW h \in Handlers, Advance(h) \/ Arrive(h) \/ Fail(h)
        PROVE  SendersInsert' /\ ForgottenByFailure'
    BY <2>1, <2>3, ArriveForgets, InsertForgets, GoesOnForgets, ShowForgets, FailForgets
    DEF Advance
  <2> QED
    BY <2>1, <2>2, <2>3, EnvironmentForgets DEF Next
<1> QED
  BY <1>1, <1>2, PTL DEF Spec

=============================================================================
