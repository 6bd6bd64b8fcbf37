------------------------- MODULE NotificationsProofs ------------------------
(***************************************************************************)
(* Proofs about Notifications, for all users, devices, handlers and        *)
(* bounds.  The device_tokens table alone does not tell whether a push is  *)
(* right: a branch carries tokens, and later those that Firebase reported, *)
(* past other requests.  So the invariant says what each branch may hold.  *)
(***************************************************************************)
EXTENDS Notifications, FiniteSetTheorems, TLAPS

\* A row belongs to the account whose app registered the device last.
HolderOwns == \A d \in Devices : token[d].owner = holder[d]

\* What a branch holds: its user; tokens of devices that its user held, but
\* for those registered since; reported tokens that stay invalid.
Sound(j) ==
    /\ j.at # "idle" => j.user \in Users
    /\ j.at = "send" => \A d \in j.tokens \ j.touched : holder[d] = j.user
    /\ j.at = "prune" => j.bad \cap valid = {}

IInv ==
    /\ TypeOK
    /\ HolderOwns
    /\ \A h \in Handlers : Sound(job[h])

-----------------------------------------------------------------------------
LEMMA NoJobType == NoJob \in Job
BY DEF NoJob, Job, Steps

LEMMA UnreadCountType ==
    ASSUME notices \in Seq(Notice), NEW u
    PROVE  UnreadCount(u) \in Nat
<1> DEFINE S == {i \in DOMAIN notices :
                   notices[i].to = u /\ ~notices[i].read /\ ~notices[i].deleted}
<1>1. IsFiniteSet(1 .. Len(notices))
  BY FS_Interval
<1>2. S \subseteq 1 .. Len(notices)
  OBVIOUS
<1>3. IsFiniteSet(S)
  BY <1>1, <1>2, FS_Subset
<1>4. QED
  BY <1>3, FS_CardinalityType DEF UnreadCount

(***************************************************************************)
(* A step of one branch that leaves the devices: only what it will hold    *)
(* needs to be shown.                                                      *)
(***************************************************************************)
LEMMA BranchMoves ==
    ASSUME IInv, NEW h \in Handlers, NEW j \in Job, Sound(j),
           job' = [job EXCEPT ![h] = j], UNCHANGED Devs
    PROVE  /\ job' \in [Handlers -> Job]
           /\ HolderOwns'
           /\ (\A g \in Handlers : Sound(job[g]))'
<1>1. job' \in [Handlers -> Job]
  BY DEF IInv, TypeOK
<1>2. HolderOwns'
  BY DEF IInv, HolderOwns, Devs
<1>3. ASSUME NEW g \in Handlers
      PROVE  Sound(job[g])'
  <2>1. CASE g = h
    <3>1. job'[g] = j
      BY <2>1 DEF IInv, TypeOK
    <3>2. QED
      BY <3>1 DEF Sound, Devs
  <2>2. CASE g # h
    <3>1. job'[g] = job[g] /\ Sound(job[g])
      BY <2>2 DEF IInv, TypeOK
    <3>2. QED
      BY <3>1 DEF Sound, Devs
  <2>3. QED
    BY <2>1, <2>2
<1>4. QED
  BY <1>1, <1>2, <1>3

\* The branch ends.
LEMMA BranchEnds ==
    ASSUME IInv, NEW h \in Handlers, Finish(h), UNCHANGED Devs
    PROVE  /\ job' \in [Handlers -> Job]
           /\ HolderOwns'
           /\ (\A g \in Handlers : Sound(job[g]))'
<1>1. NoJob \in Job /\ Sound(NoJob)
  BY NoJobType DEF Sound, NoJob
<1>2. QED
  BY <1>1, BranchMoves DEF Finish

\* A branch begins with its user and nothing else.
LEMMA BranchBegins ==
    ASSUME IInv, NEW h \in Handlers, NEW step \in {"count", "tokens"}, NEW u \in Users,
           NEW alert \in BOOLEAN, Begin(h, step, u, alert), UNCHANGED Devs
    PROVE  /\ job' \in [Handlers -> Job]
           /\ HolderOwns'
           /\ (\A g \in Handlers : Sound(job[g]))'
<1> DEFINE j == [NoJob EXCEPT !.at = step, !.user = u, !.alert = alert]
<1>1. j \in Job
  BY NoJobType DEF Job, Steps
<1>2. j.at = step /\ j.user = u
  BY DEF NoJob
<1>3. Sound(j)
  BY <1>2 DEF Sound
<1>4. job' = [job EXCEPT ![h] = j]
  BY DEF Begin
<1>5. QED
  BY <1>1, <1>3, <1>4, BranchMoves

\* No branch moves and the devices stay.
LEMMA NoBranchMoves ==
    ASSUME IInv, UNCHANGED <<job, Devs>>
    PROVE  /\ job' \in [Handlers -> Job]
           /\ HolderOwns'
           /\ (\A g \in Handlers : Sound(job[g]))'
BY DEF IInv, TypeOK, HolderOwns, Sound, Devs

-----------------------------------------------------------------------------
LEMMA NewNotice ==
    ASSUME notices \in Seq(Notice), NEW u \in Users, NEW chat \in BOOLEAN, Append1(u, chat)
    PROVE  notices' \in Seq(Notice)
<1> DEFINE n == [to |-> u, chat |-> chat, read |-> FALSE, deleted |-> FALSE]
<1>1. n \in Notice
  BY DEF Notice
<1>2. QED
  BY <1>1 DEF Append1

LEMMA SameLength ==
    ASSUME NEW s \in Seq(Notice), NEW f, DOMAIN f = DOMAIN s, f = [i \in DOMAIN s |-> f[i]],
           \A i \in DOMAIN s : f[i] \in Notice
    PROVE  f \in Seq(Notice)
<1>1. f \in [1 .. Len(s) -> Notice] /\ Len(s) \in Nat
  OBVIOUS
<1>2. QED
  BY <1>1

LEMMA NoticesRead ==
    ASSUME notices \in Seq(Notice), NEW u, NEW chats \in BOOLEAN, MarkAll(u, chats)
    PROVE  notices' \in Seq(Notice)
<1>1. \A i \in DOMAIN notices : notices[i] \in Notice
  OBVIOUS
<1>2. \A i \in DOMAIN notices : [notices[i] EXCEPT !.read = TRUE] \in Notice
  BY <1>1 DEF Notice
<1>3. \A i \in DOMAIN notices : notices'[i] \in Notice
  BY <1>1, <1>2 DEF MarkAll
<1>4. DOMAIN notices' = DOMAIN notices /\ notices' = [i \in DOMAIN notices |-> notices'[i]]
  BY DEF MarkAll
<1>5. QED
  BY <1>3, <1>4, SameLength

LEMMA OneNoticeChanges ==
    ASSUME notices \in Seq(Notice), NEW i \in DOMAIN notices,
           \/ notices' = [notices EXCEPT ![i].read = TRUE]
           \/ notices' = [notices EXCEPT ![i].deleted = TRUE]
    PROVE  notices' \in Seq(Notice)
<1>1. notices[i] \in Notice
  OBVIOUS
<1>2. /\ [notices[i] EXCEPT !.read = TRUE] \in Notice
      /\ [notices[i] EXCEPT !.deleted = TRUE] \in Notice
  BY <1>1 DEF Notice
<1>3. PICK n \in Notice : notices' = [notices EXCEPT ![i] = n]
  BY <1>2
<1>4. QED
  BY <1>3

-----------------------------------------------------------------------------
(* One lemma per group of actions.                                         *)

LEMMA ArriveInv ==
    ASSUME IInv, NEW h \in Handlers, Arrive(h)
    PROVE  IInv'
<1> USE DEF Devs
<1>1. ASSUME NEW u \in Users, NEW chat \in BOOLEAN, CreateAndRing(h, u, chat)
      PROVE  IInv'
  BY <1>1, NewNotice, BranchBegins DEF CreateAndRing, IInv, TypeOK
<1>2. ASSUME NEW u \in Users, CreateAndPush(h, u)
      PROVE  IInv'
  BY <1>2, NewNotice, BranchBegins DEF CreateAndPush, IInv, TypeOK
<1>3. ASSUME NEW u \in Users, ReadRoom(h, u)
      PROVE  IInv'
  BY <1>3, NoticesRead, BranchBegins DEF ReadRoom, IInv, TypeOK
<1>4. ASSUME NEW u \in Users, Ask(h, u)
      PROVE  IInv'
  BY <1>4, BranchBegins DEF Ask, IInv, TypeOK
<1>5. ASSUME NEW i \in 1 .. MaxNotices, ReadOne(h, i)
      PROVE  IInv'
  <2>1. i \in DOMAIN notices /\ notices[i].to \in Users
    <3>1. i \in DOMAIN notices /\ notices \in Seq(Notice)
      BY <1>5 DEF ReadOne, IInv, TypeOK
    <3>2. notices[i] \in Notice
      BY <3>1
    <3>3. QED
      BY <3>1, <3>2 DEF Notice
  <2>2. notices' \in Seq(Notice)
    BY <1>5, <2>1, OneNoticeChanges DEF ReadOne, IInv, TypeOK
  <2>3. QED
    BY <1>5, <2>1, <2>2, BranchBegins DEF ReadOne, IInv, TypeOK
<1>6. QED
  BY <1>1, <1>2, <1>3, <1>4, <1>5 DEF Arrive

LEMMA CountInv ==
    ASSUME IInv, NEW h \in Handlers, Count(h)
    PROVE  IInv'
<1> DEFINE n == UnreadCount(job[h].user)
           j == [job[h] EXCEPT !.at = "ring", !.count = n]
<1>1. job[h] \in Job /\ Sound(job[h]) /\ n \in Nat
  BY UnreadCountType DEF IInv, TypeOK
<1> HIDE DEF n
<1>2. j \in Job /\ j.at = "ring" /\ j.user = job[h].user
  BY <1>1 DEF Job, Steps
<1>3. Sound(j)
  BY <1>1, <1>2 DEF Sound, Count
<1>4. job' = [job EXCEPT ![h] = j]
  BY DEF Count, n
<1>5. QED
  BY <1>2, <1>3, <1>4, BranchMoves DEF Count, IInv, TypeOK, Devs

LEMMA RingInv ==
    ASSUME IInv, NEW h \in Handlers, Ring(h)
    PROVE  IInv'
<1> DEFINE j == [job[h] EXCEPT !.at = "tokens"]
<1>1. job[h] \in Job /\ Sound(job[h])
  BY DEF IInv, TypeOK
<1>2. j \in Job /\ j.at = "tokens" /\ j.user = job[h].user
  BY <1>1 DEF Job, Steps
<1>3. Sound(j)
  BY <1>1, <1>2 DEF Sound, Ring
<1>4. bell' \in [Users -> Nat]
  BY <1>1 DEF Ring, IInv, TypeOK, Job
<1>5. Finish(h) \/ job' = [job EXCEPT ![h] = j]
  BY DEF Ring, Goto
<1>6. /\ job' \in [Handlers -> Job]
      /\ HolderOwns'
      /\ (\A g \in Handlers : Sound(job[g]))'
  BY <1>2, <1>3, <1>5, BranchMoves, BranchEnds DEF Ring
<1>7. QED
  BY <1>4, <1>6 DEF Ring, IInv, TypeOK, Devs

\* The tokens read belong to the user, who is the holder of their devices.
LEMMA ReadTokensInv ==
    ASSUME IInv, NEW h \in Handlers, ReadTokens(h)
    PROVE  IInv'
<1> DEFINE ds == LiveTokens(job[h].user)
           j == [job[h] EXCEPT !.at = "send", !.tokens = ds]
<1>1. job[h] \in Job /\ Sound(job[h])
  BY DEF IInv, TypeOK
<1>2. ds \subseteq Devices /\ \A d \in ds : holder[d] = job[h].user
  BY DEF LiveTokens, IInv, HolderOwns
<1>3. job' = [job EXCEPT ![h] = j] \/ Finish(h)
  BY DEF ReadTokens
<1> HIDE DEF ds
<1>4. j \in Job /\ j.at = "send" /\ j.user = job[h].user /\ j.tokens = ds
  BY <1>1, <1>2 DEF Job, Steps
<1>5. Sound(j)
  BY <1>1, <1>2, <1>4 DEF Sound, ReadTokens
<1>6. /\ job' \in [Handlers -> Job]
      /\ HolderOwns'
      /\ (\A g \in Handlers : Sound(job[g]))'
  BY <1>3, <1>4, <1>5, BranchMoves, BranchEnds DEF ReadTokens
<1>7. QED
  BY <1>6 DEF ReadTokens, IInv, TypeOK, Devs

\* Only tokens that Firebase no longer accepts are condemned.
LEMMA SendPushInv ==
    ASSUME IInv, NEW h \in Handlers, SendPush(h)
    PROVE  IInv'
<1>1. PICK out \in SUBSET Devices : SendEach(h, out, job[h].tokens \ valid)
  BY DEF SendPush
<1> DEFINE bad == job[h].tokens \ valid
           j == [job[h] EXCEPT !.at = "prune", !.bad = bad]
<1>2. job[h] \in Job /\ Sound(job[h]) /\ job[h].at = "send"
  BY <1>1 DEF IInv, TypeOK, SendEach
<1>3. job[h].user \in Users /\ job[h].tokens \subseteq Devices
  BY <1>2 DEF Sound, Job
<1>4. job' = [job EXCEPT ![h] = j] \/ Finish(h)
  BY <1>1 DEF SendEach
<1>5. bad \subseteq Devices /\ bad \cap valid = {}
  BY <1>3
<1>6. pushed' \subseteq Devices \X Users /\ faults' \in Nat
  BY <1>1, <1>3 DEF SendEach, IInv, TypeOK
<1> HIDE DEF bad
<1>7. j \in Job /\ j.at = "prune" /\ j.user = job[h].user /\ j.bad = bad
  BY <1>2, <1>5 DEF Job, Steps
<1>8. Sound(j)
  BY <1>3, <1>5, <1>7 DEF Sound
<1>9. UNCHANGED <<notices, bell, online, Devs>>
  BY <1>1 DEF SendEach
<1>10. /\ job' \in [Handlers -> Job]
       /\ HolderOwns'
       /\ (\A g \in Handlers : Sound(job[g]))'
  BY <1>4, <1>7, <1>8, <1>9, BranchMoves, BranchEnds
<1>11. QED
  BY <1>6, <1>9, <1>10 DEF IInv, TypeOK, Devs

LEMMA PruneInv ==
    ASSUME IInv, NEW h \in Handlers, Prune(h)
    PROVE  IInv'
<1>1. \A d \in Devices : token[d] \in Token
  BY DEF IInv, TypeOK
<1>2. \A d \in Devices : /\ [token[d] EXCEPT !.live = FALSE] \in Token
                         /\ [token[d] EXCEPT !.live = FALSE].owner = token[d].owner
  BY <1>1 DEF Token
<1>3. token' \in [Devices -> Token]
  BY <1>1, <1>2 DEF Prune
<1>4. HolderOwns'
  BY <1>1, <1>2 DEF Prune, HolderOwns, IInv
<1>5. NoJob \in Job /\ NoJob.at = "idle"
  BY NoJobType DEF NoJob
<1>6. job' \in [Handlers -> Job] /\ \A g \in Handlers : job'[g] = job[g] \/ job'[g] = NoJob
  BY <1>5 DEF Prune, Finish, IInv, TypeOK
<1>7. (\A g \in Handlers : Sound(job[g]))'
  BY <1>5, <1>6 DEF Sound, Prune, IInv
<1>8. QED
  BY <1>3, <1>4, <1>6, <1>7 DEF Prune, IInv, TypeOK

\* The device changes hands, and every branch that holds its token notes it.
LEMMA RegisterInv ==
    ASSUME IInv, NEW d \in Devices, NEW u \in Users, Register(d, u)
    PROVE  IInv'
<1> DEFINE t == [owner |-> u, live |-> TRUE]
<1>1. t \in Token /\ t.owner = u
  BY DEF Token
<1>2. token' \in [Devices -> Token] /\ holder' \in [Devices -> Users \cup {Nobody}]
  BY <1>1 DEF Register, IInv, TypeOK
<1>3. HolderOwns'
  BY <1>1 DEF Register, IInv, TypeOK, HolderOwns
<1>4. ASSUME NEW h \in Handlers
      PROVE  job'[h] \in Job /\ Sound(job[h])'
  <2>1. job[h] \in Job /\ Sound(job[h])
    BY DEF IInv, TypeOK
  <2>2. PICK s \in SUBSET Devices : /\ job'[h] = [job[h] EXCEPT !.touched = s]
                                    /\ job[h].touched \subseteq s
                                    /\ job[h].at = "send" => d \in s
    <3>1. job[h].touched \subseteq Devices
      BY <2>1 DEF Job
    <3>2. CASE job[h].at \in {"send", "prune"}
      <4> PICK s : s = job[h].touched \cup {d}
        OBVIOUS
      <4>1. job'[h] = [job[h] EXCEPT !.touched = s]
        BY <3>2 DEF Register, Touch
      <4>2. s \in SUBSET Devices /\ job[h].touched \subseteq s /\ d \in s
        BY <3>1
      <4>3. QED
        BY <4>1, <4>2
    <3>3. CASE job[h].at \notin {"send", "prune"}
      BY <3>1, <3>3 DEF Register, Touch
    <3>4. QED
      BY <3>2, <3>3
  <2>3. /\ job'[h] \in Job /\ job'[h].at = job[h].at /\ job'[h].user = job[h].user
        /\ job'[h].tokens = job[h].tokens /\ job'[h].bad = job[h].bad
        /\ job'[h].touched = s
    BY <2>1, <2>2 DEF Job
  <2>4. \A e \in Devices \ {d} : holder'[e] = holder[e]
    BY DEF Register, IInv, TypeOK
  <2>5. job[h].tokens \subseteq Devices
    BY <2>1 DEF Job
  <2>6. Sound(job[h])'
    BY <2>1, <2>2, <2>3, <2>4, <2>5 DEF Sound, Register
  <2>7. QED
    BY <2>3, <2>6
<1>5. job' = [h \in Handlers |-> job'[h]]
  BY DEF Register, Touch
<1>6. QED
  BY <1>2, <1>3, <1>4, <1>5 DEF Register, IInv, TypeOK

LEMMA EnvironmentInv ==
    ASSUME IInv, Environment
    PROVE  IInv'
<1>1. ASSUME NEW u \in Users,
             CreateSilently(u) \/ ReadSilently(u) \/ Connect(u) \/ Disconnect(u)
      PROVE  IInv'
  <2>1. UNCHANGED <<job, Devs>>
    BY <1>1 DEF CreateSilently, ReadSilently, Connect, Disconnect
  <2>2. CASE CreateSilently(u)
    BY <2>1, <2>2, NewNotice, NoBranchMoves DEF CreateSilently, IInv, TypeOK, Devs
  <2>3. CASE ReadSilently(u)
    <3>1. notices' \in Seq(Notice)
      BY <2>3, NoticesRead, OneNoticeChanges DEF ReadSilently, IInv, TypeOK
    <3>2. QED
      BY <2>1, <2>3, <3>1, NoBranchMoves DEF ReadSilently, IInv, TypeOK, Devs
  <2>4. CASE Connect(u) \/ Disconnect(u)
    BY <2>1, <2>4, NoBranchMoves DEF Connect, Disconnect, IInv, TypeOK, Devs
  <2>5. QED
    BY <1>1, <2>2, <2>3, <2>4
<1>2. ASSUME NEW i \in 1 .. MaxNotices, DeleteNotice(i)
      PROVE  IInv'
  BY <1>2, OneNoticeChanges, NoBranchMoves DEF DeleteNotice, IInv, TypeOK, Devs
<1>3. ASSUME NEW d \in Devices, Unregister(d)
      PROVE  IInv'
  <2>1. token[d] \in Token
    BY DEF IInv, TypeOK
  <2> DEFINE u == [token[d] EXCEPT !.live = FALSE]
  <2>2. u \in Token /\ u.owner = token[d].owner
    BY <2>1 DEF Token
  <2>3. token' = [token EXCEPT ![d] = u]
    BY <1>3 DEF Unregister
  <2>4. PICK t \in Token : token' = [token EXCEPT ![d] = t] /\ t.owner = token[d].owner
    BY <2>2, <2>3
  <2>5. token' \in [Devices -> Token] /\ HolderOwns'
    BY <1>3, <2>4 DEF Unregister, IInv, TypeOK, HolderOwns
  <2>6. (\A h \in Handlers : Sound(job[h]))'
    BY <1>3 DEF Unregister, IInv, Sound
  <2>7. regs' \in Nat
    BY <1>3 DEF Unregister, IInv, TypeOK
  <2>8. QED
    BY <1>3, <2>5, <2>6, <2>7 DEF Unregister, IInv, TypeOK
<1>4. ASSUME NEW d \in Devices, Uninstall(d)
      PROVE  IInv'
  <2>1. (\A h \in Handlers : Sound(job[h]))'
    BY <1>4 DEF Uninstall, IInv, Sound
  <2>2. QED
    BY <1>4, <2>1 DEF Uninstall, IInv, TypeOK, HolderOwns
<1>5. QED
  BY <1>1, <1>2, <1>3, <1>4, RegisterInv DEF Environment

LEMMA FailInv ==
    ASSUME IInv, NEW h \in Handlers, Fail(h)
    PROVE  IInv'
BY BranchEnds DEF Fail, IInv, TypeOK, Devs

(***************************************************************************)
(* IInv is inductive.                                                      *)
(***************************************************************************)
LEMMA InitInv ==
    ASSUME Init
    PROVE  IInv
<1>1. TypeOK
  BY NoJobType DEF Init, TypeOK, Token
<1>2. HolderOwns
  BY DEF Init, HolderOwns
<1>3. \A h \in Handlers : Sound(job[h])
  BY DEF Init, Sound, NoJob
<1>4. QED
  BY <1>1, <1>2, <1>3 DEF IInv

LEMMA StepInv ==
    ASSUME IInv, [Next]_vars
    PROVE  IInv'
<1>1. CASE Environment
  BY <1>1, EnvironmentInv
<1>2. ASSUME NEW h \in Handlers, Advance(h) \/ Arrive(h) \/ Fail(h)
      PROVE  IInv'
  BY <1>2, CountInv, RingInv, ReadTokensInv, SendPushInv, PruneInv, ArriveInv, FailInv
  DEF Advance
<1>3. CASE UNCHANGED vars
  BY <1>3, NoBranchMoves DEF vars, Devs, IInv, TypeOK
<1>4. QED
  BY <1>1, <1>2, <1>3 DEF Next

\* Tables, events, tokens and branches are well typed in every reachable state.
THEOREM TypeCorrect == Spec => []TypeOK
<1>1. Init => IInv
  BY InitInv
<1>2. IInv /\ [Next]_vars => IInv'
  BY StepInv
<1>3. IInv => TypeOK
  BY DEF IInv
<1>4. QED
  BY <1>1, <1>2, <1>3, PTL DEF Spec

(***************************************************************************)
(* A push goes to devices held by its user, but for those that changed     *)
(* hands after the tokens were read, however many devices and branches.    *)
(***************************************************************************)
THEOREM PushesStay == Spec => []PushStaysWithHolder
<1>1. Init => IInv
  BY InitInv
<1>2. IInv /\ [Next]_vars => IInv'
  BY StepInv
<1>3. IInv => PushStaysWithHolder
  BY DEF IInv, Sound, PushStaysWithHolder
<1>4. QED
  BY <1>1, <1>2, <1>3, PTL DEF Spec

\* A live row of a device that Firebase accepts goes only by a request.
LEMMA ReachableStep ==
    ASSUME IInv, Next, NEW d \in Devices, token[d].live, ~token'[d].live, d \in valid
    PROVE  regs' # regs
<1>1. ASSUME NEW h \in Handlers, Prune(h)
      PROVE  FALSE
  <2>1. job[h].bad \cap valid = {}
    BY <1>1 DEF Prune, IInv, Sound
  <2>2. QED
    BY <1>1, <2>1 DEF Prune
<1>2. ASSUME NEW h \in Handlers, Advance(h) \/ Arrive(h) \/ Fail(h), ~Prune(h)
      PROVE  FALSE
  <2>1. UNCHANGED token
    BY <1>2 DEF Advance, Arrive, Fail, Devs, Count, Ring, ReadTokens, SendPush, SendEach,
       CreateAndRing, CreateAndPush, ReadRoom, Ask, ReadOne
  <2>2. QED
    BY <2>1
<1>3. CASE Environment
  <2>1. CASE UNCHANGED token
    BY <2>1
  <2>2. ASSUME NEW e \in Devices, Unregister(e)
        PROVE  regs' # regs
    BY <2>2 DEF Unregister, IInv, TypeOK
  <2>3. ASSUME NEW e \in Devices, NEW u \in Users, Register(e, u)
        PROVE  FALSE
    BY <2>3 DEF Register, IInv, TypeOK
  <2>4. QED
    BY <1>3, <2>1, <2>2, <2>3 DEF Environment, CreateSilently, ReadSilently, Connect,
       Disconnect, DeleteNotice, Uninstall, Devs
<1>4. QED
  BY <1>1, <1>2, <1>3 DEF Next

(***************************************************************************)
(* A device that Firebase accepts keeps its row until a request removes    *)
(* it, although rows are removed by value on an answer of any age.         *)
(***************************************************************************)
THEOREM ReachableDevicesStay == Spec => ReachableStays
<1>1. Init => IInv
  BY InitInv
<1>2. IInv /\ [Next]_vars => IInv'
  BY StepInv
<1>3. IInv /\ [Next]_vars =>
        [\A d \in Devices :
           token[d].live /\ ~token'[d].live /\ d \in valid => regs' # regs]_vars
  BY ReachableStep
<1>4. QED
  BY <1>1, <1>2, <1>3, PTL DEF Spec, ReachableStays

=============================================================================
