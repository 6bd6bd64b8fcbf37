-------------------------- MODULE MarketplaceProofs -------------------------
(***************************************************************************)
(* Proofs about Marketplace, for all users, handlers, forms and bounds:    *)
(* the requests in flight say what the rows still lack.                    *)
(***************************************************************************)
EXTENDS Marketplace, TLAPS, FiniteSetTheorems

Writes(j) == j.at \in {"clear", "prefs"}

Averages(j) == j.at \in {"average", "points"}

\* What a request may carry from one statement to the next.
Sound(j) ==
    /\ j.at \in {"clear", "prefs", "word", "apply", "tell"} => j.ref \in DOMAIN jobs
    /\ j.at = "row" => j.user \in Owners
    /\ j.at \in {"apply", "tell"} => j.user \in Nounus
    /\ j.at \in {"like", "unlike", "count", "review"} => j.user \in Users
    /\ j.at = "clear" => j.n = Rows
    /\ j.at = "prefs" => j.n \in 1 .. Rows
    /\ j.at = "word" => j.n <= jobs[j.ref].decisions
    /\ j.at = "review" => j.ref \in 0 .. 1
    /\ j.at = "points" => j.n <= Len(reviews)
    /\ j.at = "unlike" => j.ref # 0

JobsSound == \A h \in Handlers : Sound(job[h])

\* A job has one writer at most, who adds what is missing.
Whole(i) ==
    /\ \A g, h \in Writing(i) : g = h
    /\ Writing(i) = {} => jobs[i].prefs = Rows
    /\ \A h \in Writing(i) : job[h].at = "prefs" => jobs[i].prefs + job[h].n = Rows

WholeSound == \A i \in DOMAIN jobs \ torn : Whole(i)

\* The owner knows the last decision or a request is about to tell it.
Told(i) ==
    \/ word[i] = jobs[i].decisions
    \/ \E h \in Handlers : /\ job[h].at = "word" /\ job[h].ref = i
                           /\ job[h].n = jobs[i].decisions

DecisionSound == \A i \in DOMAIN jobs \ (crossed \cup failed) : Told(i)

\* The points are up to date or a request is about to bring them there.
PointsDue ==
    \/ points = Len(reviews)
    \/ \E h \in Handlers : job[h].at = "average"
    \/ \E h \in Handlers : job[h].at = "points" /\ job[h].n = Len(reviews)

PointsSound == Points \notin crossed \cup failed => PointsDue

IInv ==
    /\ TypeOK
    /\ JobsSound
    /\ WholeSound
    /\ DecisionSound
    /\ PointsSound

-----------------------------------------------------------------------------
(* How the tables may change under a request.                              *)

Grow ==
    /\ jobs' \in Seq(JobRow) /\ Len(jobs) <= Len(jobs')
    /\ \A i \in DOMAIN jobs : jobs[i].decisions <= jobs'[i].decisions
    /\ reviews' \in Seq(Review) /\ Len(reviews) <= Len(reviews')

\* The rows that exist keep what requests compare.
SamePrefs ==
    DOMAIN jobs' = DOMAIN jobs /\ \A i \in DOMAIN jobs : jobs'[i].prefs = jobs[i].prefs

SameDecisions ==
    DOMAIN jobs' = DOMAIN jobs /\ \A i \in DOMAIN jobs : jobs'[i].decisions = jobs[i].decisions

SameJobs == SamePrefs /\ SameDecisions

LEMMA TablesStay ==
    ASSUME TypeOK, UNCHANGED <<jobs, reviews>>
    PROVE  Grow /\ SameJobs
<1>1. ASSUME NEW i \in DOMAIN jobs
      PROVE  jobs[i].decisions \in Nat
  <2>1. jobs[i] \in JobRow
    BY DEF TypeOK
  <2>2. QED
    BY <2>1 DEF JobRow
<1>2. jobs \in Seq(JobRow) /\ reviews \in Seq(Review)
  BY DEF TypeOK
<1>3. \A i \in DOMAIN jobs : jobs[i].decisions <= jobs'[i].decisions
  BY <1>1
<1>4. Len(jobs) <= Len(jobs') /\ Len(reviews) <= Len(reviews')
  BY <1>2
<1>5. QED
  BY <1>2, <1>3, <1>4 DEF Grow, SameJobs, SamePrefs, SameDecisions

LEMMA NoJobType ==
    /\ NoJob \in Job /\ NoJob.at = "idle" /\ NoJob.user = Nobody
    /\ NoJob.ref = 0 /\ NoJob.n = 0
BY DEF NoJob, Job, Steps

\* What a request carries stays right when rows are added.
LEMMA SoundStays ==
    ASSUME TypeOK, Grow, NEW j \in Job, Sound(j)
    PROVE  Sound(j)'
<1>1. j.n \in Nat /\ j.ref \in Nat /\ jobs \in Seq(JobRow) /\ reviews \in Seq(Review)
  BY DEF TypeOK, Job
<1>2. j.ref \in DOMAIN jobs => j.ref \in DOMAIN jobs'
  BY <1>1 DEF Grow
<1>3. ASSUME j.at = "word" PROVE j.n <= jobs'[j.ref].decisions
  <2>1. j.ref \in DOMAIN jobs /\ j.n <= jobs[j.ref].decisions
    BY <1>3 DEF Sound
  <2>2. jobs[j.ref] \in JobRow /\ jobs'[j.ref] \in JobRow
    BY <1>1, <1>2, <2>1 DEF Grow
  <2>3. jobs[j.ref].decisions \in Nat /\ jobs'[j.ref].decisions \in Nat
    BY <2>2 DEF JobRow
  <2>4. jobs[j.ref].decisions <= jobs'[j.ref].decisions
    BY <2>1 DEF Grow
  <2>5. QED
    BY <1>1, <2>1, <2>3, <2>4
<1>4. ASSUME j.at = "points" PROVE j.n <= Len(reviews')
  BY <1>1, <1>4 DEF Sound, Grow
<1>5. QED
  BY <1>2, <1>3, <1>4 DEF Sound

LEMMA JobMoves ==
    ASSUME TypeOK, JobsSound, Grow,
           NEW h \in Handlers, NEW j \in Job, Sound(j)', job' = [job EXCEPT ![h] = j]
    PROVE  job' \in [Handlers -> Job] /\ JobsSound'
<1>1. job' \in [Handlers -> Job]
  BY DEF TypeOK
<1>2. ASSUME NEW g \in Handlers
      PROVE  Sound(job[g])'
  <2>1. CASE g = h
    <3>1. job'[g] = j
      BY <2>1 DEF TypeOK
    <3>2. QED
      BY <3>1 DEF Sound
  <2>2. CASE g # h
    <3>1. job'[g] = job[g] /\ job[g] \in Job /\ Sound(job[g])
      BY <2>2 DEF TypeOK, JobsSound
    <3>2. PICK k \in Job : k = job[g]
      BY <3>1
    <3>3. Sound(k)'
      BY <3>1, <3>2, SoundStays
    <3>4. QED
      BY <3>1, <3>2, <3>3 DEF Sound
  <2>3. QED
    BY <2>1, <2>2
<1>3. QED
  BY <1>1, <1>2 DEF JobsSound

LEMMA JobsStay ==
    ASSUME TypeOK, JobsSound, Grow, UNCHANGED job
    PROVE  JobsSound'
<1>1. ASSUME NEW g \in Handlers
      PROVE  Sound(job[g])'
  <2>1. job[g] \in Job /\ Sound(job[g])
    BY DEF TypeOK, JobsSound
  <2>2. PICK k \in Job : k = job[g]
    BY <2>1
  <2>3. Sound(k)'
    BY <2>1, <2>2, SoundStays
  <2>4. QED
    BY <2>2, <2>3 DEF Sound
<1>2. QED
  BY <1>1 DEF JobsSound

-----------------------------------------------------------------------------
(* Steps of requests that concern none of the rows a part speaks of.       *)

\* Only requests of which P is false move, to where it is false.
KeepsWriters ==
    \A g \in Handlers : Writes(job[g]) \/ Writes(job'[g]) => job'[g] = job[g]

KeepsTellers ==
    \A g \in Handlers : job[g].at = "word" \/ job'[g].at = "word" => job'[g] = job[g]

KeepsAverages ==
    \A g \in Handlers : Averages(job[g]) \/ Averages(job'[g]) => job'[g] = job[g]

LEMMA Keeps ==
    ASSUME TypeOK, NEW h \in Handlers, NEW j \in Job, job' = [job EXCEPT ![h] = j]
    PROVE  /\ ~Writes(job[h]) /\ ~Writes(j) => KeepsWriters
           /\ job[h].at # "word" /\ j.at # "word" => KeepsTellers
           /\ ~Averages(job[h]) /\ ~Averages(j) => KeepsAverages
<1>1. \A g \in Handlers : job'[g] = IF g = h THEN j ELSE job[g]
  BY DEF TypeOK
<1>2. QED
  BY <1>1 DEF KeepsWriters, KeepsTellers, KeepsAverages

LEMMA AllKept ==
    ASSUME UNCHANGED job
    PROVE  KeepsWriters /\ KeepsTellers /\ KeepsAverages
BY DEF KeepsWriters, KeepsTellers, KeepsAverages

LEMMA WholeQuiet ==
    ASSUME TypeOK, WholeSound, SamePrefs, KeepsWriters, torn \subseteq torn'
    PROVE  WholeSound'
<1>1. ASSUME NEW i \in DOMAIN jobs, i \notin torn'
      PROVE  Whole(i)'
  <2>1. \A h \in Handlers : h \in Writing(i)' <=> h \in Writing(i)
    BY DEF Writing, KeepsWriters, Writes
  <2>2. \A h \in Writing(i)' : h \in Handlers /\ job'[h] = job[h]
    BY DEF Writing, KeepsWriters, Writes
  <2>3. Writing(i)' = Writing(i)
    BY <2>1 DEF Writing
  <2>4. Whole(i)
    BY <1>1 DEF WholeSound
  <2>5. QED
    BY <2>2, <2>3, <2>4 DEF Whole, SamePrefs
<1>2. QED
  BY <1>1 DEF WholeSound, SamePrefs

LEMMA DecisionQuiet ==
    ASSUME TypeOK, DecisionSound, SameDecisions, KeepsTellers, UNCHANGED word,
           \A i \in DOMAIN jobs : i \in crossed \cup failed => i \in crossed' \cup failed'
    PROVE  DecisionSound'
<1>1. ASSUME NEW i \in DOMAIN jobs, i \notin crossed' \cup failed'
      PROVE  Told(i)'
  BY <1>1 DEF DecisionSound, Told, SameDecisions, KeepsTellers
<1>2. QED
  BY <1>1 DEF DecisionSound, SameDecisions

LEMMA PointsQuiet ==
    ASSUME TypeOK, PointsSound, KeepsAverages, UNCHANGED <<points, reviews>>,
           Points \in crossed \cup failed => Points \in crossed' \cup failed'
    PROVE  PointsSound'
BY DEF PointsSound, PointsDue, KeepsAverages, Averages

\* A step that changes no row of the three parts.
LEMMA Quiet ==
    ASSUME IInv, SameJobs, KeepsWriters, KeepsTellers, KeepsAverages,
           UNCHANGED <<word, points, reviews, ghost>>
    PROVE  WholeSound' /\ DecisionSound' /\ PointsSound'
<1>1. TypeOK /\ WholeSound /\ DecisionSound /\ PointsSound
  BY DEF IInv
<1>2. /\ torn' = torn /\ crossed' = crossed /\ failed' = failed
      /\ SamePrefs /\ SameDecisions
  BY DEF ghost, SameJobs
<1>3. WholeSound'
  BY <1>1, <1>2, WholeQuiet
<1>4. DecisionSound'
  BY <1>1, <1>2, DecisionQuiet
<1>5. PointsSound'
  BY <1>1, <1>2, PointsQuiet
<1>6. QED
  BY <1>1, <1>3, <1>4, <1>5

-----------------------------------------------------------------------------
(* One lemma per action.                                                   *)

\* A request begins, goes on or ends without writing a row.
LEMMA PlainStep ==
    ASSUME IInv, NEW h \in Handlers, NEW j \in Job, job' = [job EXCEPT ![h] = j], Sound(j),
           ~Writes(job[h]), ~Writes(j), job[h].at # "word", j.at # "word",
           ~Averages(job[h]), ~Averages(j),
           UNCHANGED <<table, ghost>>, moves' \in Nat, faults' \in Nat
    PROVE  IInv'
<1>1. TypeOK /\ JobsSound
  BY DEF IInv
<1>2. Grow /\ SameJobs
  BY <1>1, TablesStay DEF table
<1>3. Sound(j)'
  BY <1>1, <1>2, SoundStays
<1>4. job' \in [Handlers -> Job] /\ JobsSound'
  BY <1>1, <1>2, <1>3, JobMoves
<1>5. TypeOK'
  BY <1>1, <1>4 DEF TypeOK, table, ghost
<1>6. KeepsWriters /\ KeepsTellers /\ KeepsAverages
  BY <1>1, Keeps
<1>7. WholeSound' /\ DecisionSound' /\ PointsSound'
  BY <1>2, <1>6, Quiet DEF table
<1>8. QED
  BY <1>1, <1>4, <1>5, <1>7 DEF IInv, table

LEMMA StepCreateJob ==
    ASSUME IInv, NEW h \in Handlers, NEW u \in Owners, CreateJob(h, u)
    PROVE  IInv'
<1>1. PICK j : j = [NoJob EXCEPT !.at = "row", !.user = u]
  OBVIOUS
<1>2. j \in Job /\ j.at = "row" /\ j.user = u
  BY <1>1, NoJobType DEF Job, Steps, Users
<1>3. job[h].at = "idle" /\ job' = [job EXCEPT ![h] = j]
  BY <1>1 DEF CreateJob, Begin, Idle
<1>4. Sound(j)
  BY <1>2 DEF Sound
<1>5. moves' \in Nat /\ faults' \in Nat
  BY DEF IInv, TypeOK, CreateJob, Move
<1>6. UNCHANGED <<table, ghost>>
  BY DEF CreateJob
<1>7. QED
  BY <1>2, <1>3, <1>4, <1>5, <1>6, PlainStep DEF Writes, Averages

LEMMA StepApplyToJob ==
    ASSUME IInv, NEW h \in Handlers, NEW u \in Nounus, NEW i \in DOMAIN jobs,
           ApplyToJob(h, u, i), moves' \in Nat
    PROVE  IInv'
<1>1. PICK at : at = IF Applied(u, i) THEN "tell" ELSE "apply"
  OBVIOUS
<1>2. PICK j : j = [at |-> at, user |-> u, ref |-> i, n |-> 0]
  OBVIOUS
<1>3. i \in Nat
  BY DEF IInv, TypeOK
<1>4. j \in Job /\ j.at \in {"apply", "tell"} /\ j.user = u /\ j.ref = i
  BY <1>1, <1>2, <1>3 DEF Job, Steps, Users
<1>5. job[h].at = "idle" /\ job' = [job EXCEPT ![h] = j]
  BY <1>1, <1>2 DEF ApplyToJob, Begin, Idle
<1>6. Sound(j)
  BY <1>4 DEF Sound
<1>7. UNCHANGED <<table, ghost>> /\ faults' \in Nat
  BY DEF ApplyToJob, IInv, TypeOK
<1>8. QED
  BY <1>4, <1>5, <1>6, <1>7, PlainStep DEF Writes, Averages

LEMMA StepCreateReview ==
    ASSUME IInv, NEW h \in Handlers, NEW u \in Users, NEW c \in 0 .. 1, CreateReview(h, u, c)
    PROVE  IInv'
<1>1. PICK j : j = [NoJob EXCEPT !.at = "review", !.user = u, !.ref = c]
  OBVIOUS
<1>2. j \in Job /\ j.at = "review" /\ j.user = u /\ j.ref = c
  <2>1. c \in Nat
    OBVIOUS
  <2>2. QED
    BY <1>1, <2>1, NoJobType DEF Job, Steps
<1>3. job[h].at = "idle" /\ job' = [job EXCEPT ![h] = j]
  BY <1>1 DEF CreateReview, Begin, Idle
<1>4. Sound(j)
  BY <1>2 DEF Sound
<1>5. moves' \in Nat /\ faults' \in Nat
  BY DEF IInv, TypeOK, CreateReview, Move
<1>6. UNCHANGED <<table, ghost>>
  BY DEF CreateReview
<1>7. QED
  BY <1>2, <1>3, <1>4, <1>5, <1>6, PlainStep DEF Writes, Averages

LEMMA StepToggle ==
    ASSUME IInv, NEW h \in Handlers, NEW u \in Users, Toggle(h, u)
    PROVE  IInv'
<1>1. like[u] \in Nat
  BY DEF IInv, TypeOK
<1>2. PICK j : j = [NoJob EXCEPT !.at = IF like[u] = 0 THEN "like" ELSE "unlike",
                                 !.user = u, !.ref = like[u]]
  OBVIOUS
<1>3. j \in Job /\ j.user = u /\ j.ref = like[u]
  BY <1>1, <1>2, NoJobType DEF Job, Steps, Users
<1>4. j.at = IF like[u] = 0 THEN "like" ELSE "unlike"
  BY <1>2, NoJobType DEF Job
<1>5. job[h].at = "idle" /\ job' = [job EXCEPT ![h] = j]
  BY <1>2 DEF Toggle, Begin, Idle
<1>6. Sound(j)
  BY <1>3, <1>4 DEF Sound
<1>7. moves' \in Nat /\ faults' \in Nat
  BY DEF IInv, TypeOK, Toggle, Move
<1>8. UNCHANGED <<table, ghost>>
  BY DEF Toggle
<1>9. QED
  BY <1>3, <1>4, <1>5, <1>6, <1>7, <1>8, PlainStep DEF Writes, Averages

LEMMA SoundIdle == Sound(NoJob)
BY NoJobType DEF Sound

LEMMA StepTellReview ==
    ASSUME IInv, NEW h \in Handlers, TellReview(h)
    PROVE  IInv'
<1>1. job[h].at = "reviewed" /\ job' = [job EXCEPT ![h] = NoJob]
  BY DEF TellReview, Finish
<1>2. UNCHANGED <<table, ghost>> /\ moves' \in Nat /\ faults' \in Nat
  BY DEF TellReview, IInv, TypeOK
<1>3. QED
  BY <1>1, <1>2, SoundIdle, NoJobType, PlainStep DEF Writes, Averages

-----------------------------------------------------------------------------
(* Rows that the parts do not speak of: applications, likes, and           *)
(* the other columns of a job.                                             *)

\* As Quiet, for a request that moves while rows of other tables change.
LEMMA SideStep ==
    ASSUME IInv, NEW h \in Handlers, NEW j \in Job, job' = [job EXCEPT ![h] = j], Sound(j),
           ~Writes(job[h]), ~Writes(j), job[h].at # "word", j.at # "word",
           ~Averages(job[h]), ~Averages(j),
           UNCHANGED <<jobs, word, points, reviews, ghost>>
    PROVE  /\ job' \in [Handlers -> Job] /\ JobsSound'
           /\ WholeSound' /\ DecisionSound' /\ PointsSound'
<1>1. TypeOK /\ JobsSound
  BY DEF IInv
<1>2. Grow /\ SameJobs
  BY <1>1, TablesStay
<1>3. Sound(j)'
  BY <1>1, <1>2, SoundStays
<1>4. job' \in [Handlers -> Job] /\ JobsSound'
  BY <1>1, <1>2, <1>3, JobMoves
<1>5. KeepsWriters /\ KeepsTellers /\ KeepsAverages
  BY <1>1, Keeps
<1>6. QED
  BY <1>2, <1>4, <1>5, Quiet

LEMMA StepInsertApplication ==
    ASSUME IInv, NEW h \in Handlers, InsertApplication(h)
    PROVE  IInv'
<1>1. TypeOK /\ Sound(job[h])
  BY DEF IInv, JobsSound
<1>2. PICK j : j = [job[h] EXCEPT !.at = "tell"]
  OBVIOUS
<1>3. job[h] \in Job
  BY <1>1 DEF TypeOK
<1>4. j \in Job /\ j.at = "tell" /\ j.ref = job[h].ref /\ j.user = job[h].user
  BY <1>2, <1>3 DEF Job, Steps
<1>5. job[h].at = "apply" /\ job' = [job EXCEPT ![h] = j]
  BY <1>2 DEF InsertApplication
<1>6. Sound(j)
  BY <1>1, <1>4, <1>5 DEF Sound
<1>7. UNCHANGED <<jobs, word, points, reviews, ghost>>
  BY DEF InsertApplication
<1>8. /\ job' \in [Handlers -> Job] /\ JobsSound'
      /\ WholeSound' /\ DecisionSound' /\ PointsSound'
  BY <1>4, <1>5, <1>6, <1>7, SideStep DEF Writes, Averages
<1>9. [job |-> job[h].ref, user |-> job[h].user] \in Application
  BY <1>1, <1>3, <1>5 DEF Application, Sound, Job
<1>10. apps' \in Seq(Application)
  BY <1>1, <1>9 DEF TypeOK, InsertApplication
<1>11. TypeOK'
  BY <1>1, <1>8, <1>10 DEF TypeOK, InsertApplication, ghost
<1>12. QED
  BY <1>8, <1>11 DEF IInv

LEMMA StepTellOwner ==
    ASSUME IInv, NEW h \in Handlers, TellOwner(h)
    PROVE  IInv'
<1>1. TypeOK /\ Sound(job[h])
  BY DEF IInv, JobsSound
<1>2. job[h].at = "tell" /\ job' = [job EXCEPT ![h] = NoJob]
  BY DEF TellOwner, Finish
<1>3. UNCHANGED <<jobs, word, points, reviews, ghost>>
  BY DEF TellOwner
<1>4. /\ job' \in [Handlers -> Job] /\ JobsSound'
      /\ WholeSound' /\ DecisionSound' /\ PointsSound'
  BY <1>2, <1>3, SoundIdle, NoJobType, SideStep DEF Writes, Averages
<1>5. told' \subseteq (DOMAIN jobs) \X Nounus
  BY <1>1, <1>2 DEF TypeOK, TellOwner, Sound
<1>6. TypeOK'
  BY <1>1, <1>4, <1>5 DEF TypeOK, TellOwner, ghost
<1>7. QED
  BY <1>4, <1>6 DEF IInv

\* A toggle goes on to its count or ends.
LEMMA StepLikes ==
    ASSUME IInv, NEW h \in Handlers, job[h].at \in {"like", "unlike", "count"},
           job' = [job EXCEPT ![h] = NoJob] \/ job' = [job EXCEPT ![h].at = "count"],
           likes' \in Nat, like' \in [Users -> 0 .. likes'], flips' \in [Users -> BOOLEAN],
           UNCHANGED <<jobs, apps, told, word, reviews, points, vips, ghost, moves, faults>>
    PROVE  IInv'
<1>1. TypeOK /\ Sound(job[h]) /\ job[h] \in Job
  BY DEF IInv, JobsSound, TypeOK
<1>2. PICK j \in Job : j.at \in {"idle", "count"} /\ Sound(j) /\ job' = [job EXCEPT ![h] = j]
  <2>1. CASE job' = [job EXCEPT ![h] = NoJob]
    BY <2>1, SoundIdle, NoJobType
  <2>2. CASE job' = [job EXCEPT ![h].at = "count"]
    <3>1. PICK j : j = [job[h] EXCEPT !.at = "count"]
      OBVIOUS
    <3>2. j \in Job /\ j.at = "count" /\ j.user = job[h].user
      BY <1>1, <3>1 DEF Job, Steps
    <3>3. Sound(j)
      BY <1>1, <3>2 DEF Sound
    <3>4. QED
      BY <2>2, <3>1, <3>2, <3>3
  <2>3. QED
    BY <2>1, <2>2
<1>3. /\ job' \in [Handlers -> Job] /\ JobsSound'
      /\ WholeSound' /\ DecisionSound' /\ PointsSound'
  BY <1>2, SideStep DEF Writes, Averages
<1>4. TypeOK'
  BY <1>1, <1>3 DEF TypeOK, ghost
<1>5. QED
  BY <1>3, <1>4 DEF IInv

LEMMA StepLike ==
    ASSUME IInv, NEW h \in Handlers, Like(h)
    PROVE  IInv'
<1>1. likes \in Nat /\ like \in [Users -> 0 .. likes] /\ flips \in [Users -> BOOLEAN]
  BY DEF IInv, TypeOK
<1>2. likes' \in Nat /\ like' \in [Users -> 0 .. likes'] /\ flips' \in [Users -> BOOLEAN]
  <2>1. CASE UNCHANGED <<like, likes>>
    BY <1>1, <2>1 DEF Like
  <2>2. CASE likes' = likes + 1 /\ like' = [like EXCEPT ![job[h].user] = likes + 1]
    <3>1. likes' \in Nat /\ \A u \in Users : like[u] \in 0 .. likes'
      BY <1>1, <2>2
    <3>2. likes + 1 \in 0 .. likes'
      BY <1>1, <2>2
    <3>3. like' \in [Users -> 0 .. likes']
      BY <1>1, <2>2, <3>1, <3>2
    <3>4. QED
      BY <1>1, <3>1, <3>3 DEF Like
  <2>3. QED
    BY <2>1, <2>2 DEF Like
<1>3. QED
  BY <1>2, StepLikes DEF Like, Finish, Goto

LEMMA StepUnlike ==
    ASSUME IInv, NEW h \in Handlers, Unlike(h)
    PROVE  IInv'
<1>1. likes \in Nat /\ like \in [Users -> 0 .. likes] /\ flips \in [Users -> BOOLEAN]
  BY DEF IInv, TypeOK
<1>2. likes' \in Nat /\ like' \in [Users -> 0 .. likes'] /\ flips' \in [Users -> BOOLEAN]
  BY <1>1 DEF Unlike
<1>3. QED
  BY <1>2, StepLikes DEF Unlike, Finish, Goto

LEMMA StepCountLikes ==
    ASSUME IInv, NEW h \in Handlers, CountLikes(h)
    PROVE  IInv'
<1>1. likes \in Nat /\ like \in [Users -> 0 .. likes] /\ flips \in [Users -> BOOLEAN]
  BY DEF IInv, TypeOK
<1>2. job[h].user \in Users
  BY DEF IInv, JobsSound, Sound, CountLikes
<1>3. likes' \in Nat /\ like' \in [Users -> 0 .. likes'] /\ flips' \in [Users -> BOOLEAN]
  BY <1>1, <1>2 DEF CountLikes, Flip
<1>4. QED
  BY <1>3, StepLikes DEF CountLikes, Finish

-----------------------------------------------------------------------------
(* Jobs.                                                                   *)

LEMMA RowChanges ==
    ASSUME jobs \in Seq(JobRow), NEW i \in DOMAIN jobs, NEW r \in JobRow,
           jobs' = [jobs EXCEPT ![i] = r]
    PROVE  /\ jobs' \in Seq(JobRow) /\ DOMAIN jobs' = DOMAIN jobs /\ Len(jobs') = Len(jobs)
           /\ jobs'[i] = r
           /\ \A k \in DOMAIN jobs : k # i => jobs'[k] = jobs[k]
OBVIOUS

LEMMA RowType ==
    ASSUME jobs \in Seq(JobRow), NEW i \in DOMAIN jobs
    PROVE  jobs[i] \in JobRow /\ jobs[i].prefs \in Nat /\ jobs[i].decisions \in Nat
<1>1. jobs[i] \in JobRow
  OBVIOUS
<1>2. QED
  BY <1>1 DEF JobRow

\* A row changes in the columns that no request compares, decisions aside.
LEMMA RowGrows ==
    ASSUME TypeOK, NEW i \in DOMAIN jobs, NEW r \in JobRow,
           r.decisions >= jobs[i].decisions,
           jobs' = [jobs EXCEPT ![i] = r], UNCHANGED reviews
    PROVE  Grow
<1>1. jobs \in Seq(JobRow) /\ reviews \in Seq(Review)
  BY DEF TypeOK
<1>2. /\ jobs' \in Seq(JobRow) /\ Len(jobs') = Len(jobs) /\ jobs'[i] = r
      /\ \A k \in DOMAIN jobs : k # i => jobs'[k] = jobs[k]
  BY <1>1, RowChanges
<1>3. ASSUME NEW k \in DOMAIN jobs
      PROVE  jobs[k].decisions <= jobs'[k].decisions
  <2>1. jobs[k].decisions \in Nat
    BY <1>1, RowType
  <2>2. r.decisions \in Nat
    BY DEF JobRow
  <2>3. CASE k = i
    BY <1>2, <2>1, <2>2, <2>3
  <2>4. CASE k # i
    BY <1>2, <2>1, <2>4
  <2>5. QED
    BY <2>3, <2>4
<1>4. Len(jobs) <= Len(jobs') /\ Len(reviews) <= Len(reviews')
  BY <1>1, <1>2
<1>5. QED
  BY <1>1, <1>2, <1>3, <1>4 DEF Grow

\* A change from outside of the columns that no request compares.
LEMMA OutsideRow ==
    ASSUME IInv, NEW i \in DOMAIN jobs, NEW r \in JobRow,
           r.decisions = jobs[i].decisions, r.prefs = jobs[i].prefs,
           jobs' = [jobs EXCEPT ![i] = r], UNCHANGED <<vips, Others>>, moves' \in Nat
    PROVE  IInv'
<1>1. TypeOK /\ JobsSound /\ jobs \in Seq(JobRow)
  BY DEF IInv, TypeOK
<1>2. /\ jobs' \in Seq(JobRow) /\ DOMAIN jobs' = DOMAIN jobs /\ jobs'[i] = r
      /\ \A k \in DOMAIN jobs : k # i => jobs'[k] = jobs[k]
  BY <1>1, RowChanges
<1>3. SameJobs
  BY <1>2 DEF SameJobs, SamePrefs, SameDecisions
<1>4. UNCHANGED <<apps, told, word, reviews, points, like, likes, flips, vips,
                  job, ghost, faults>>
  BY DEF Others
<1>5. Grow
  <2>1. jobs[i].decisions \in Nat
    BY <1>1, RowType
  <2>2. r.decisions >= jobs[i].decisions
    BY <2>1
  <2>3. QED
    BY <1>1, <1>4, <2>2, RowGrows
<1>6. TypeOK'
  BY <1>1, <1>2, <1>4 DEF TypeOK, ghost
<1>7. JobsSound'
  BY <1>1, <1>4, <1>5, JobsStay
<1>8. WholeSound' /\ DecisionSound' /\ PointsSound'
  BY <1>3, <1>4, AllKept, Quiet
<1>9. QED
  BY <1>1, <1>4, <1>6, <1>7, <1>8 DEF IInv

LEMMA StepDeleteJob ==
    ASSUME IInv, NEW u \in Owners, NEW i \in DOMAIN jobs, DeleteJob(u, i)
    PROVE  IInv'
<1>1. PICK r : r = [jobs[i] EXCEPT !.deleted = TRUE]
  OBVIOUS
<1>2. jobs \in Seq(JobRow) /\ jobs[i] \in JobRow
  BY RowType DEF IInv, TypeOK
<1>3. r \in JobRow /\ r.decisions = jobs[i].decisions /\ r.prefs = jobs[i].prefs
  BY <1>1, <1>2 DEF JobRow
<1>4. jobs' = [jobs EXCEPT ![i] = r] /\ UNCHANGED <<vips, Others>>
  BY <1>1 DEF DeleteJob
<1>5. moves' \in Nat
  BY DEF DeleteJob, Move, IInv, TypeOK
<1>6. QED
  BY <1>3, <1>4, <1>5, OutsideRow

LEMMA StepPrioritize ==
    ASSUME IInv, NEW i \in DOMAIN jobs, Prioritize(i, 1)
    PROVE  IInv'
<1>1. PICK r : r = [jobs[i] EXCEPT !.priority = 1]
  OBVIOUS
<1>2. jobs \in Seq(JobRow) /\ jobs[i] \in JobRow
  BY RowType DEF IInv, TypeOK
<1>3. r \in JobRow /\ r.decisions = jobs[i].decisions /\ r.prefs = jobs[i].prefs
  BY <1>1, <1>2 DEF JobRow
<1>4. jobs' = [jobs EXCEPT ![i] = r] /\ UNCHANGED <<vips, Others>>
  BY <1>1 DEF Prioritize
<1>5. moves' \in Nat
  BY DEF Prioritize, Move, IInv, TypeOK
<1>6. QED
  BY <1>3, <1>4, <1>5, OutsideRow

\* A change from outside that leaves the jobs.
LEMMA OutsideStep ==
    ASSUME IInv, UNCHANGED <<jobs, apps, told, word, reviews, points, like, likes, flips,
                             job, ghost, faults>>,
           vips' \subseteq Owners,
           moves' \in Nat
    PROVE  IInv'
<1>1. TypeOK /\ JobsSound
  BY DEF IInv
<1>2. Grow /\ SameJobs
  BY <1>1, TablesStay
<1>3. TypeOK'
  BY <1>1 DEF TypeOK, ghost
<1>4. JobsSound'
  BY <1>1, <1>2, JobsStay
<1>5. WholeSound' /\ DecisionSound' /\ PointsSound'
  BY <1>2, AllKept, Quiet
<1>6. QED
  BY <1>1, <1>3, <1>4, <1>5 DEF IInv

LEMMA StepChangePack ==
    ASSUME IInv, NEW u \in Owners, ChangePack(u)
    PROVE  IInv'
<1>1. vips' \subseteq Owners
  BY DEF IInv, TypeOK, ChangePack, Others
<1>2. moves' \in Nat
  BY DEF ChangePack, Move, IInv, TypeOK
<1>3. QED
  BY <1>1, <1>2, OutsideStep DEF ChangePack, Others

\* A new decision: the request that took it is about to tell it.
LEMMA StepSuspend ==
    ASSUME IInv, NEW h \in Handlers, NEW i \in DOMAIN jobs, NEW suspended \in BOOLEAN,
           Suspend(h, i, suspended)
    PROVE  IInv'
<1>1. /\ TypeOK /\ JobsSound /\ WholeSound /\ DecisionSound /\ PointsSound
      /\ jobs \in Seq(JobRow)
  BY DEF IInv, TypeOK
<1>2. jobs[i] \in JobRow /\ jobs[i].decisions \in Nat /\ i \in Nat
  BY <1>1, RowType
<1>3. PICK d : d = jobs[i].decisions + 1
  OBVIOUS
<1>4. PICK r : r = [jobs[i] EXCEPT !.suspended = suspended, !.decisions = d]
  OBVIOUS
<1>5. r \in JobRow /\ r.decisions = d /\ r.prefs = jobs[i].prefs
  <2>1. PICK q : q = [jobs[i] EXCEPT !.suspended = suspended]
    OBVIOUS
  <2>2. q \in JobRow /\ q.prefs = jobs[i].prefs
    BY <1>2, <2>1 DEF JobRow
  <2>3. r = [q EXCEPT !.decisions = d] /\ d \in Nat
    BY <1>2, <1>3, <1>4, <2>1
  <2>4. QED
    BY <2>2, <2>3 DEF JobRow
<1>6. jobs' = [jobs EXCEPT ![i] = r]
  <2>1. jobs' = [jobs EXCEPT ![i].suspended = suspended, ![i].decisions = @ + 1]
    BY DEF Suspend
  <2>2. PICK f : f = [jobs EXCEPT ![i] = [jobs[i] EXCEPT !.suspended = suspended]]
    OBVIOUS
  <2>3. f[i] = [jobs[i] EXCEPT !.suspended = suspended]
    BY <1>1, <2>2
  <2>4. f[i].decisions = jobs[i].decisions
    BY <1>2, <2>3 DEF JobRow
  <2>5. jobs' = [f EXCEPT ![i] = [f[i] EXCEPT !.decisions = d]]
    BY <1>3, <2>1, <2>2, <2>3, <2>4
  <2>6. [f[i] EXCEPT !.decisions = d] = r
    BY <1>2, <1>4, <2>3 DEF JobRow
  <2>7. QED
    BY <1>1, <2>2, <2>5, <2>6
<1>7. /\ jobs' \in Seq(JobRow) /\ DOMAIN jobs' = DOMAIN jobs /\ jobs'[i] = r
      /\ \A k \in DOMAIN jobs : k # i => jobs'[k] = jobs[k]
  BY <1>1, <1>5, <1>6, RowChanges
<1>8. PICK j : j = [NoJob EXCEPT !.at = "word", !.ref = i, !.n = d]
  OBVIOUS
<1>9. j \in Job /\ j.at = "word" /\ j.ref = i /\ j.n = d
  <2>1. d \in Nat
    BY <1>2, <1>3
  <2>2. PICK q : q = [NoJob EXCEPT !.at = "word", !.ref = i]
    OBVIOUS
  <2>3. q \in Job /\ q.at = "word" /\ q.ref = i
    BY <1>2, <2>2, NoJobType DEF Job, Steps
  <2>4. j = [q EXCEPT !.n = d]
    BY <1>8, <2>2
  <2>5. QED
    BY <2>1, <2>3, <2>4 DEF Job
<1>10. job[h].at = "idle" /\ job' = [job EXCEPT ![h] = j]
  BY <1>3, <1>8 DEF Suspend, Begin, Idle
<1>11. UNCHANGED <<apps, told, word, reviews, points, like, likes, flips, vips,
                   ghost, faults>> /\ moves' \in Nat
  BY <1>1 DEF Suspend, Move, TypeOK
<1>12. Grow
  <2>1. r.decisions >= jobs[i].decisions
    BY <1>2, <1>3, <1>5
  <2>2. QED
    BY <1>1, <1>5, <1>6, <1>11, <2>1, RowGrows
<1>13. Sound(j)'
  <2>1. d \in Nat
    BY <1>2, <1>3
  <2>2. QED
    BY <1>5, <1>7, <1>9, <2>1 DEF Sound
<1>14. job' \in [Handlers -> Job] /\ JobsSound'
  BY <1>1, <1>9, <1>10, <1>12, <1>13, JobMoves
<1>15. TypeOK'
  BY <1>1, <1>7, <1>11, <1>14 DEF TypeOK, ghost
<1>16. KeepsWriters /\ KeepsAverages
  BY <1>1, <1>9, <1>10, Keeps DEF Writes, Averages
<1>17. SamePrefs
  BY <1>5, <1>7 DEF SamePrefs
<1>18. WholeSound' /\ PointsSound'
  BY <1>1, <1>11, <1>16, <1>17, WholeQuiet, PointsQuiet DEF ghost
<1>19. ASSUME NEW k \in DOMAIN jobs, k \notin crossed \cup failed
       PROVE  Told(k)'
  <2>1. \A g \in Handlers : job'[g] = IF g = h THEN j ELSE job[g]
    BY <1>1, <1>10 DEF TypeOK
  <2>2. CASE k = i
    BY <1>5, <1>7, <1>9, <2>1, <2>2 DEF Told
  <2>3. CASE k # i
    <3>1. Told(k) /\ jobs'[k] = jobs[k] /\ word' = word
      BY <1>1, <1>7, <1>11, <1>19, <2>3 DEF DecisionSound
    <3>2. QED
      BY <1>10, <2>1, <3>1 DEF Told
  <2>4. QED
    BY <2>2, <2>3
<1>20. DecisionSound'
  BY <1>7, <1>11, <1>19 DEF DecisionSound, ghost
<1>21. QED
  BY <1>1, <1>11, <1>14, <1>15, <1>18, <1>20 DEF IInv

\* A decision is told: the last one, or an older one with the last to come.
LEMMA StepTellSuspension ==
    ASSUME IInv, NEW h \in Handlers, TellSuspension(h)
    PROVE  IInv'
<1>1. /\ TypeOK /\ JobsSound /\ WholeSound /\ DecisionSound /\ PointsSound
      /\ jobs \in Seq(JobRow)
  BY DEF IInv, TypeOK
<1>2. job[h].at = "word" /\ job' = [job EXCEPT ![h] = NoJob]
  BY DEF TellSuspension, Finish
<1>3. PICK i : i = job[h].ref
  OBVIOUS
<1>4. i \in DOMAIN jobs /\ job[h].n <= jobs[i].decisions /\ job[h].n \in Nat
  BY <1>1, <1>2, <1>3 DEF JobsSound, Sound, TypeOK, Job
<1>5. jobs[i].decisions \in Nat /\ word[i] \in Nat /\ word \in Seq(Nat) /\ i \in DOMAIN word
  BY <1>1, <1>4, RowType DEF TypeOK
<1>6. word' = [word EXCEPT ![i] = job[h].n]
  BY <1>3 DEF TellSuspension
<1>7. /\ word' \in Seq(Nat) /\ DOMAIN word' = DOMAIN word /\ word'[i] = job[h].n
      /\ \A k \in DOMAIN word : k # i => word'[k] = word[k]
  BY <1>4, <1>5, <1>6
<1>8. crossed' = IF word[i] > job[h].n THEN crossed \cup {i}
                 ELSE IF job[h].n = jobs[i].decisions THEN crossed \ {i} ELSE crossed
  BY <1>3 DEF TellSuspension
<1>9. UNCHANGED <<jobs, apps, told, reviews, points, like, likes, flips, vips,
                  torn, failed, moves, faults>>
  BY DEF TellSuspension
<1>10. Grow /\ SamePrefs
  BY <1>1, <1>9, TablesStay DEF SameJobs
<1>11. Sound(NoJob)'
  BY <1>1, <1>10, SoundIdle, NoJobType, SoundStays
<1>12. job' \in [Handlers -> Job] /\ JobsSound'
  BY <1>1, <1>2, <1>10, <1>11, NoJobType, JobMoves
<1>13. crossed' \cup failed' \subseteq (DOMAIN jobs) \cup {Points}
  BY <1>1, <1>4, <1>8, <1>9 DEF TypeOK
<1>14. TypeOK'
  BY <1>1, <1>7, <1>9, <1>12, <1>13 DEF TypeOK
<1>15. KeepsWriters /\ KeepsAverages
  BY <1>1, <1>2, NoJobType, Keeps DEF Writes, Averages
<1>16. i # Points
  BY <1>1, <1>4 DEF Points
<1>17. Points \in crossed => Points \in crossed'
  BY <1>8, <1>16
<1>18. PointsSound'
  BY <1>1, <1>9, <1>15, <1>17, PointsQuiet
<1>19. WholeSound'
  BY <1>1, <1>9, <1>10, <1>15, WholeQuiet
<1>20. ASSUME NEW k \in DOMAIN jobs, k \notin crossed' \cup failed'
       PROVE  Told(k)'
  <2>1. \A g \in Handlers : job'[g] = IF g = h THEN NoJob ELSE job[g]
    BY <1>1, <1>2 DEF TypeOK
  <2>2. CASE k = i /\ job[h].n = jobs[i].decisions
    BY <1>7, <1>9, <2>2 DEF Told
  <2>3. CASE k = i /\ job[h].n # jobs[i].decisions
    <3>1. ~(word[i] > job[h].n) /\ k \notin crossed \cup failed
      BY <1>8, <1>9, <1>20, <2>3
    <3>2. word[i] # jobs[i].decisions
      BY <1>4, <1>5, <2>3, <3>1
    <3>3. PICK g \in Handlers :
            job[g].at = "word" /\ job[g].ref = i /\ job[g].n = jobs[i].decisions
      BY <1>1, <2>3, <3>1, <3>2 DEF DecisionSound, Told
    <3>4. g # h
      BY <2>3, <3>3
    <3>5. QED
      BY <1>9, <2>1, <2>3, <3>3, <3>4 DEF Told
  <2>4. CASE k # i
    <3>1. k \notin crossed \cup failed
      BY <1>8, <1>9, <1>20, <2>4
    <3>2. Told(k) /\ word'[k] = word[k]
      BY <1>1, <1>7, <2>4, <3>1 DEF DecisionSound, TypeOK
    <3>3. QED
      BY <1>3, <1>9, <2>1, <2>4, <3>2 DEF Told
  <2>5. QED
    BY <2>2, <2>3, <2>4
<1>21. DecisionSound'
  BY <1>9, <1>20 DEF DecisionSound
<1>22. QED
  BY <1>1, <1>9, <1>12, <1>14, <1>18, <1>19, <1>21 DEF IInv

-----------------------------------------------------------------------------
(* Preferences.                                                            *)

LEMMA WritingJob ==
    ASSUME TypeOK, NEW h \in Handlers, NEW j \in Job, job' = [job EXCEPT ![h] = j]
    PROVE  \A i : Writing(i)' = IF Writes(j) /\ j.ref = i THEN Writing(i) \cup {h}
                                ELSE Writing(i) \ {h}
<1>1. \A g \in Handlers : job'[g] = IF g = h THEN j ELSE job[g]
  BY DEF TypeOK
<1>2. QED
  BY <1>1 DEF Writing, Writes

LEMMA StepInsertJob ==
    ASSUME IInv, NEW h \in Handlers, InsertJob(h)
    PROVE  IInv'
<1>1. /\ TypeOK /\ JobsSound /\ WholeSound /\ DecisionSound /\ PointsSound
      /\ jobs \in Seq(JobRow)
  BY DEF IInv, TypeOK
<1>2. PICK i : i = Len(jobs) + 1
  OBVIOUS
<1>3. i \in Nat /\ i \notin DOMAIN jobs /\ i # Points
  BY <1>1, <1>2 DEF Points
<1>4. PICK r : r = [owner |-> job[h].user, deleted |-> FALSE, suspended |-> FALSE,
                    priority |-> 0, prefs |-> 0, decisions |-> 0]
  OBVIOUS
<1>5. PICK j : j = [at |-> "prefs", user |-> Nobody, ref |-> i, n |-> Rows]
  OBVIOUS
<1>6. job[h].at = "row" /\ jobs' = Append(jobs, r) /\ job' = [job EXCEPT ![h] = j]
      /\ word' = Append(word, 0)
  BY <1>2, <1>4, <1>5 DEF InsertJob
<1>7. j \in Job /\ j.at = "prefs" /\ j.ref = i /\ j.n = Rows
  BY <1>3, <1>5, MarketplaceAssumption DEF Job, Steps
<1>8. r \in JobRow /\ r.prefs = 0 /\ r.decisions = 0
  BY <1>1, <1>4, <1>6 DEF JobRow, JobsSound, Sound
<1>9. /\ jobs' \in Seq(JobRow) /\ DOMAIN jobs' = DOMAIN jobs \cup {i} /\ jobs'[i] = r
      /\ Len(jobs') = Len(jobs) + 1
      /\ \A k \in DOMAIN jobs : jobs'[k] = jobs[k]
  BY <1>1, <1>2, <1>6, <1>8
<1>10. /\ word' \in Seq(Nat) /\ DOMAIN word' = DOMAIN word \cup {i} /\ word'[i] = 0
       /\ \A k \in DOMAIN word : word'[k] = word[k]
  <2>1. word \in Seq(Nat) /\ Len(word) = Len(jobs)
    BY <1>1 DEF TypeOK
  <2>2. QED
    BY <1>2, <1>6, <2>1
<1>11. UNCHANGED <<apps, told, reviews, points, like, likes, flips, vips,
                   ghost, moves, faults>>
  BY DEF InsertJob
<1>12. Grow
  <2>1. \A k \in DOMAIN jobs : jobs[k].decisions \in Nat
    BY <1>1, RowType
  <2>2. reviews \in Seq(Review)
    BY <1>1 DEF TypeOK
  <2>3. QED
    BY <1>1, <1>9, <1>11, <2>1, <2>2 DEF Grow
<1>13. Sound(j)'
  BY <1>7, <1>9, MarketplaceAssumption DEF Sound
<1>14. job' \in [Handlers -> Job] /\ JobsSound'
  BY <1>1, <1>6, <1>7, <1>12, <1>13, JobMoves
<1>15. TypeOK'
  BY <1>1, <1>9, <1>10, <1>11, <1>14 DEF TypeOK, ghost
<1>16. KeepsTellers /\ KeepsAverages
  BY <1>1, <1>6, <1>7, Keeps DEF Averages
<1>17. PointsSound'
  BY <1>1, <1>11, <1>16, PointsQuiet DEF ghost
<1>18. ASSUME NEW k \in DOMAIN jobs', k \notin crossed' \cup failed'
       PROVE  Told(k)'
  <2>1. CASE k = i
    BY <1>8, <1>9, <1>10, <2>1 DEF Told
  <2>2. CASE k # i
    <3>1. k \in DOMAIN jobs /\ k \in DOMAIN word /\ Told(k)
      BY <1>1, <1>9, <1>11, <1>18, <2>2 DEF DecisionSound, TypeOK, ghost
    <3>2. QED
      BY <1>9, <1>10, <1>16, <3>1 DEF Told, KeepsTellers
  <2>3. QED
    BY <2>1, <2>2
<1>19. DecisionSound'
  BY <1>18 DEF DecisionSound
<1>20. ASSUME NEW k \in DOMAIN jobs', k \notin torn'
       PROVE  Whole(k)'
  <2>1. \A g \in Handlers : job'[g] = IF g = h THEN j ELSE job[g]
    BY <1>1, <1>6 DEF TypeOK
  <2>2. CASE k = i
    <3>1. Writing(i) = {}
      BY <1>1, <1>3 DEF Writing, JobsSound, Sound
    <3>2. Writing(i)' = {h}
      BY <1>1, <1>6, <1>7, <3>1, WritingJob DEF Writes
    <3>3. jobs'[i].prefs + job'[h].n = Rows
      BY <1>7, <1>8, <1>9, <2>1, MarketplaceAssumption
    <3>4. QED
      BY <2>2, <3>2, <3>3 DEF Whole
  <2>3. CASE k # i
    <3>1. k \in DOMAIN jobs /\ Whole(k) /\ jobs'[k] = jobs[k]
      BY <1>1, <1>9, <1>11, <1>20, <2>3 DEF WholeSound, ghost
    <3>2. h \notin Writing(k)
      BY <1>6 DEF Writing
    <3>3. Writing(k)' = Writing(k)
      <4>1. Writing(k)' = Writing(k) \ {h}
        BY <1>1, <1>6, <1>7, <2>3, WritingJob
      <4>2. QED
        BY <3>2, <4>1
    <3>4. \A g \in Writing(k) : job'[g] = job[g]
      BY <2>1, <3>2 DEF Writing
    <3>5. QED
      BY <3>1, <3>3, <3>4 DEF Whole
  <2>4. QED
    BY <2>2, <2>3
<1>21. WholeSound'
  BY <1>20 DEF WholeSound
<1>22. QED
  BY <1>1, <1>11, <1>14, <1>15, <1>17, <1>19, <1>21 DEF IInv

\* Another form for a job: its request is the only writer, or the job is torn.
LEMMA StepUpdateJob ==
    ASSUME IInv, NEW h \in Handlers, NEW u \in Owners, NEW i \in DOMAIN jobs,
           UpdateJob(h, u, i)
    PROVE  IInv'
<1>1. /\ TypeOK /\ JobsSound /\ WholeSound /\ DecisionSound /\ PointsSound
      /\ i \in Nat
  BY DEF IInv, TypeOK
<1>2. PICK j : j = [NoJob EXCEPT !.at = "clear", !.ref = i, !.n = Rows]
  OBVIOUS
<1>3. j \in Job /\ j.at = "clear" /\ j.ref = i /\ j.n = Rows
  <2>1. PICK q : q = [NoJob EXCEPT !.at = "clear", !.ref = i]
    OBVIOUS
  <2>2. q \in Job /\ q.at = "clear" /\ q.ref = i
    BY <1>1, <2>1, NoJobType DEF Job, Steps
  <2>3. j = [q EXCEPT !.n = Rows] /\ Rows \in Nat
    BY <1>2, <2>1, MarketplaceAssumption
  <2>4. QED
    BY <2>2, <2>3 DEF Job
<1>4. job[h].at = "idle" /\ job' = [job EXCEPT ![h] = j]
  BY <1>2 DEF UpdateJob, Begin, Idle
<1>5. UNCHANGED <<table, crossed, failed, faults>> /\ moves' \in Nat
  BY <1>1 DEF UpdateJob, Move, TypeOK
<1>6. torn' = IF Writing(i) = {} THEN torn ELSE torn \cup {i}
  BY DEF UpdateJob
<1>7. Grow /\ SameJobs
  BY <1>1, <1>5, TablesStay DEF table
<1>8. Sound(j)
  BY <1>3 DEF Sound
<1>9. Sound(j)'
  BY <1>1, <1>3, <1>7, <1>8, SoundStays
<1>10. job' \in [Handlers -> Job] /\ JobsSound'
  BY <1>1, <1>3, <1>4, <1>7, <1>9, JobMoves
<1>11. TypeOK'
  BY <1>1, <1>5, <1>6, <1>10 DEF TypeOK, table
<1>12. KeepsTellers /\ KeepsAverages
  BY <1>1, <1>3, <1>4, Keeps DEF Averages
<1>13. DecisionSound' /\ PointsSound'
  BY <1>1, <1>5, <1>7, <1>12, DecisionQuiet, PointsQuiet
     DEF SameJobs, table
<1>14. ASSUME NEW k \in DOMAIN jobs, k \notin torn'
       PROVE  Whole(k)'
  <2>1. \A g \in Handlers : job'[g] = IF g = h THEN j ELSE job[g]
    BY <1>1, <1>4 DEF TypeOK
  <2>2. Whole(k) /\ jobs' = jobs
    BY <1>1, <1>5, <1>6, <1>14 DEF WholeSound, table
  <2>3. h \notin Writing(k)
    BY <1>4 DEF Writing
  <2>4. CASE k = i
    <3>1. Writing(i)' = {h}
      BY <1>1, <1>3, <1>4, <1>6, <1>14, <2>4, WritingJob DEF Writes
    <3>2. job'[h].at = "clear"
      BY <1>3, <2>1
    <3>3. QED
      BY <2>4, <3>1, <3>2 DEF Whole
  <2>5. CASE k # i
    <3>1. Writing(k)' = Writing(k)
      <4>1. Writing(k)' = Writing(k) \ {h}
        BY <1>1, <1>3, <1>4, <2>5, WritingJob
      <4>2. QED
        BY <2>3, <4>1
    <3>2. \A g \in Writing(k) : job'[g] = job[g]
      BY <2>1, <2>3 DEF Writing
    <3>3. QED
      BY <2>2, <3>1, <3>2 DEF Whole
  <2>6. QED
    BY <2>4, <2>5
<1>15. WholeSound'
  BY <1>5, <1>14 DEF WholeSound, table
<1>16. QED
  BY <1>1, <1>5, <1>10, <1>11, <1>13, <1>15 DEF IInv, table

\* The writer of a job changes its preferences from those of p to those of
\* the row r, and goes on as j.
LEMMA WriterStep ==
    ASSUME IInv, NEW h \in Handlers, NEW j \in Job, NEW r \in JobRow, NEW i \in DOMAIN jobs,
           Writes(job[h]), job[h].ref = i, job' = [job EXCEPT ![h] = j],
           jobs' = [jobs EXCEPT ![i] = r], r.decisions = jobs[i].decisions,
           \/ j = NoJob
           \/ j.at = "prefs" /\ j.ref = i /\ j.n \in 1 .. Rows,
           i \notin torn => /\ j = NoJob => r.prefs = Rows
                            /\ j.at = "prefs" => r.prefs + j.n = Rows,
           UNCHANGED <<apps, told, word, reviews, points, like, likes, flips, vips,
                       ghost, moves, faults>>
    PROVE  IInv'
<1>1. /\ TypeOK /\ JobsSound /\ WholeSound /\ DecisionSound /\ PointsSound
      /\ jobs \in Seq(JobRow)
  BY DEF IInv, TypeOK
<1>2. /\ jobs' \in Seq(JobRow) /\ DOMAIN jobs' = DOMAIN jobs /\ jobs'[i] = r
      /\ \A k \in DOMAIN jobs : k # i => jobs'[k] = jobs[k]
  BY <1>1, RowChanges
<1>3. Grow
  <2>1. r.decisions >= jobs[i].decisions
    BY <1>1, RowType
  <2>2. QED
    BY <1>1, <2>1, RowGrows
<1>4. Sound(j)'
  BY <1>2, NoJobType DEF Sound, Writes
<1>5. job' \in [Handlers -> Job] /\ JobsSound'
  BY <1>1, <1>3, <1>4, JobMoves
<1>6. TypeOK'
  BY <1>1, <1>2, <1>5 DEF TypeOK, ghost
<1>7. KeepsTellers /\ KeepsAverages
  BY <1>1, NoJobType, Keeps DEF Averages, Writes
<1>8. SameDecisions
  BY <1>2 DEF SameDecisions
<1>9. DecisionSound' /\ PointsSound'
  BY <1>1, <1>7, <1>8, DecisionQuiet, PointsQuiet DEF ghost
<1>10. ASSUME NEW k \in DOMAIN jobs, k \notin torn'
       PROVE  Whole(k)'
  <2>1. \A g \in Handlers : job'[g] = IF g = h THEN j ELSE job[g]
    BY <1>1 DEF TypeOK
  <2>2. Whole(k) /\ k \notin torn
    BY <1>1, <1>10 DEF WholeSound, ghost
  <2>3. CASE k = i
    <3>1. h \in Writing(i)
      BY DEF Writing, Writes
    <3>2. Writing(i) = {h}
      BY <2>2, <2>3, <3>1 DEF Whole
    <3>3. CASE j = NoJob
      <4>1. Writing(i)' = Writing(i) \ {h}
        BY <1>1, <3>3, NoJobType, WritingJob DEF Writes
      <4>2. Writing(i)' = {}
        BY <3>2, <4>1
      <4>3. QED
        BY <1>2, <2>2, <2>3, <3>3, <4>2 DEF Whole
    <3>4. CASE j # NoJob
      <4>1. Writing(i)' = Writing(i) \cup {h}
        BY <1>1, <3>4, WritingJob DEF Writes
      <4>2. Writing(i)' = {h}
        BY <3>2, <4>1
      <4>3. job'[h] = j
        BY <2>1
      <4>4. QED
        BY <1>2, <2>2, <2>3, <4>2, <4>3 DEF Whole
    <3>5. QED
      BY <3>3, <3>4
  <2>4. CASE k # i
    <3>1. h \notin Writing(k)
      BY <2>4 DEF Writing
    <3>2. ~(Writes(j) /\ j.ref = k)
      BY <2>4, NoJobType DEF Writes
    <3>3. Writing(k)' = Writing(k) \ {h}
      BY <1>1, <3>2, WritingJob
    <3>4. Writing(k)' = Writing(k)
      BY <3>1, <3>3
    <3>5. \A g \in Writing(k) : job'[g] = job[g]
      BY <2>1, <3>1 DEF Writing
    <3>6. QED
      BY <1>2, <2>2, <2>4, <3>4, <3>5 DEF Whole
  <2>5. QED
    BY <2>3, <2>4
<1>11. WholeSound'
  BY <1>2, <1>10 DEF WholeSound
<1>12. QED
  BY <1>1, <1>5, <1>6, <1>9, <1>11 DEF IInv

\* What the one writer of an untorn job knows of its preferences.
LEMMA WriterKnows ==
    ASSUME IInv, NEW h \in Handlers, Writes(job[h])
    PROVE  /\ job[h] \in Job /\ job[h].ref \in DOMAIN jobs
           /\ job[h].at = "clear" => job[h].n = Rows
           /\ job[h].at = "prefs" => job[h].n \in 1 .. Rows
           /\ job[h].at = "prefs" /\ job[h].ref \notin torn
              => jobs[job[h].ref].prefs + job[h].n = Rows
<1>1. TypeOK /\ Sound(job[h]) /\ WholeSound
  BY DEF IInv, JobsSound
<1>2. job[h].ref \in DOMAIN jobs
  BY <1>1 DEF Sound, Writes
<1>3. h \in Writing(job[h].ref)
  BY DEF Writing, Writes
<1>4. job[h] \in Job
  BY <1>1 DEF TypeOK
<1>5. job[h].ref \notin torn => Whole(job[h].ref)
  BY <1>1, <1>2 DEF WholeSound
<1>6. QED
  BY <1>1, <1>2, <1>3, <1>4, <1>5 DEF Sound, Whole

LEMMA StepClearPreferences ==
    ASSUME IInv, NEW h \in Handlers, ClearPreferences(h)
    PROVE  IInv'
<1>1. PICK i : i = job[h].ref
  OBVIOUS
<1>2. job[h].at = "clear" /\ Writes(job[h])
  BY DEF ClearPreferences, Writes
<1>3. job[h] \in Job /\ i \in DOMAIN jobs /\ job[h].n = Rows
  BY <1>1, <1>2, WriterKnows
<1>4. PICK j : j = [job[h] EXCEPT !.at = "prefs"]
  OBVIOUS
<1>5. j \in Job /\ j.at = "prefs" /\ j.ref = i /\ j.n = Rows
  BY <1>1, <1>3, <1>4 DEF Job, Steps
<1>6. PICK r : r = [jobs[i] EXCEPT !.prefs = 0]
  OBVIOUS
<1>7. jobs[i] \in JobRow
  BY <1>3, RowType DEF IInv, TypeOK
<1>8. r \in JobRow /\ r.prefs = 0 /\ r.decisions = jobs[i].decisions
  BY <1>6, <1>7 DEF JobRow
<1>9. job' = [job EXCEPT ![h] = j] /\ jobs' = [jobs EXCEPT ![i] = r]
  BY <1>1, <1>4, <1>6 DEF ClearPreferences, Goto
<1>10. UNCHANGED <<apps, told, word, reviews, points, like, likes, flips, vips,
                   ghost, moves, faults>>
  BY DEF ClearPreferences
<1>11. j # NoJob /\ Writes(j) /\ j.n \in 1 .. Rows /\ r.prefs + j.n = Rows
  BY <1>5, <1>8, NoJobType, MarketplaceAssumption DEF Writes
<1>12. QED
  BY <1>1, <1>2, <1>3, <1>5, <1>8, <1>9, <1>10, <1>11, WriterStep

LEMMA StepAddPreference ==
    ASSUME IInv, NEW h \in Handlers, AddPreference(h)
    PROVE  IInv'
<1>1. PICK i : i = job[h].ref
  OBVIOUS
<1>2. job[h].at = "prefs" /\ Writes(job[h])
  BY DEF AddPreference, Writes
<1>3. job[h] \in Job /\ i \in DOMAIN jobs /\ job[h].n \in 1 .. Rows
  BY <1>1, <1>2, WriterKnows
<1>4. i \notin torn => jobs[i].prefs + job[h].n = Rows
  BY <1>1, <1>2, WriterKnows
<1>5. jobs[i] \in JobRow /\ jobs[i].prefs \in Nat
  BY <1>3, RowType DEF IInv, TypeOK
<1>6. PICK r : r = [jobs[i] EXCEPT !.prefs = jobs[i].prefs + 1]
  OBVIOUS
<1>7. r \in JobRow /\ r.prefs = jobs[i].prefs + 1 /\ r.decisions = jobs[i].decisions
  BY <1>5, <1>6 DEF JobRow
<1>8. jobs' = [jobs EXCEPT ![i] = r]
  <2>1. jobs' = [jobs EXCEPT ![i].prefs = @ + 1]
    BY <1>1 DEF AddPreference
  <2>2. QED
    BY <1>6, <2>1
<1>9. UNCHANGED <<apps, told, word, reviews, points, like, likes, flips, vips,
                  ghost, moves, faults>>
  BY DEF AddPreference
<1>10. CASE job[h].n = 1
  <2>1. job' = [job EXCEPT ![h] = NoJob]
    BY <1>10 DEF AddPreference, Finish
  <2>2. i \notin torn => r.prefs = Rows
    BY <1>4, <1>7, <1>10
  <2>3. NoJob.at # "prefs" /\ NoJob \in Job
    BY NoJobType
  <2>4. i \notin torn => /\ NoJob = NoJob => r.prefs = Rows
                         /\ NoJob.at = "prefs" => r.prefs + NoJob.n = Rows
    BY <2>2, <2>3
  <2>5. QED
    BY <1>1, <1>2, <1>3, <1>7, <1>8, <1>9, <2>1, <2>3, <2>4, WriterStep
<1>11. CASE job[h].n # 1
  <2>1. PICK j : j = [job[h] EXCEPT !.n = job[h].n - 1]
    OBVIOUS
  <2>2. job[h].n - 1 \in 1 .. Rows /\ job[h].n - 1 \in Nat /\ job[h].n \in Nat
    BY <1>3, <1>11, MarketplaceAssumption
  <2>3. j \in Job /\ j.at = "prefs" /\ j.ref = i /\ j.n = job[h].n - 1
    BY <1>1, <1>2, <1>3, <2>1, <2>2 DEF Job
  <2>4. job' = [job EXCEPT ![h] = j]
    BY <1>11, <2>1 DEF AddPreference
  <2>5. i \notin torn => r.prefs + j.n = Rows
    BY <1>4, <1>5, <1>7, <2>2, <2>3, MarketplaceAssumption
  <2>6. j # NoJob /\ Writes(j) /\ j.n \in 1 .. Rows
    BY <2>2, <2>3, NoJobType DEF Writes
  <2>7. QED
    BY <1>1, <1>2, <1>3, <1>7, <1>8, <1>9, <2>3, <2>4, <2>5, <2>6, WriterStep
<1>12. QED
  BY <1>10, <1>11

-----------------------------------------------------------------------------
(* Reviews and the nounu's points.                                         *)

LEMMA StepInsertReview ==
    ASSUME IInv, NEW h \in Handlers, InsertReview(h)
    PROVE  IInv'
<1>1. /\ TypeOK /\ JobsSound /\ WholeSound /\ DecisionSound /\ PointsSound
      /\ jobs \in Seq(JobRow) /\ reviews \in Seq(Review)
  BY DEF IInv, TypeOK
<1>2. job[h].at = "review"
  BY DEF InsertReview
<1>3. UNCHANGED <<jobs, apps, told, word, points, like, likes, flips, vips,
                  ghost, moves, faults>>
  BY DEF InsertReview
<1>4. CASE Reviewed(job[h].user, job[h].ref)
  <2>1. job' = [job EXCEPT ![h] = NoJob] /\ UNCHANGED <<table, ghost>>
    BY <1>3, <1>4 DEF InsertReview, Finish, table
  <2>2. moves' \in Nat /\ faults' \in Nat
    BY <1>1, <1>3 DEF TypeOK
  <2>3. QED
    BY <1>2, <2>1, <2>2, SoundIdle, NoJobType, PlainStep DEF Writes, Averages
<1>5. CASE ~Reviewed(job[h].user, job[h].ref)
  <2>1. PICK c : c = [by |-> job[h].user, contract |-> job[h].ref]
    OBVIOUS
  <2>2. c \in Review /\ job[h] \in Job
    BY <1>1, <1>2, <2>1 DEF JobsSound, Sound, TypeOK, Review
  <2>3. PICK j : j = [job[h] EXCEPT !.at = "average"]
    OBVIOUS
  <2>4. j \in Job /\ j.at = "average"
    BY <2>2, <2>3 DEF Job, Steps
  <2>5. job' = [job EXCEPT ![h] = j] /\ reviews' = Append(reviews, c)
    BY <1>5, <2>1, <2>3 DEF InsertReview, Goto
  <2>6. /\ reviews' \in Seq(Review) /\ Len(reviews') = Len(reviews) + 1
        /\ DOMAIN reviews' = DOMAIN reviews \cup {Len(reviews) + 1}
        /\ reviews'[Len(reviews) + 1] = c
        /\ \A k \in DOMAIN reviews : reviews'[k] = reviews[k]
    BY <1>1, <2>2, <2>5
  <2>7. Grow
    <3>1. \A k \in DOMAIN jobs : jobs[k].decisions \in Nat
      BY <1>1, RowType
    <3>2. QED
      BY <1>1, <1>3, <2>6, <3>1 DEF Grow
  <2>8. SamePrefs /\ SameDecisions
    BY <1>3 DEF SamePrefs, SameDecisions
  <2>9. Sound(j)'
    BY <2>4 DEF Sound
  <2>10. job' \in [Handlers -> Job] /\ JobsSound'
    BY <1>1, <2>4, <2>5, <2>7, <2>9, JobMoves
  <2>11. TypeOK'
    <3>1. points' \in 0 .. Len(reviews')
      BY <1>1, <1>3, <2>6 DEF TypeOK
    <3>2. QED
      BY <1>1, <1>3, <2>6, <2>10, <3>1 DEF TypeOK, ghost
  <2>12. KeepsWriters /\ KeepsTellers
    BY <1>1, <1>2, <2>4, <2>5, Keeps DEF Writes
  <2>13. WholeSound' /\ DecisionSound'
    BY <1>1, <1>3, <2>8, <2>12, WholeQuiet, DecisionQuiet DEF ghost
  <2>14. PointsSound'
    <3>1. job'[h].at = "average"
      BY <1>1, <2>4, <2>5 DEF TypeOK
    <3>2. QED
      BY <3>1 DEF PointsSound, PointsDue
  <2>15. QED
    BY <1>1, <1>3, <2>10, <2>11, <2>13, <2>14 DEF IInv
<1>6. QED
  BY <1>4, <1>5

LEMMA StepAverage ==
    ASSUME IInv, NEW h \in Handlers, Average(h)
    PROVE  IInv'
<1>1. /\ TypeOK /\ JobsSound /\ WholeSound /\ DecisionSound /\ PointsSound
      /\ Len(reviews) \in Nat
  BY DEF IInv, TypeOK
<1>2. PICK j : j = [job[h] EXCEPT !.at = "points", !.n = Len(reviews)]
  OBVIOUS
<1>3. j \in Job /\ j.at = "points" /\ j.n = Len(reviews)
  <2>1. PICK q : q = [job[h] EXCEPT !.at = "points"]
    OBVIOUS
  <2>2. q \in Job /\ q.at = "points"
    BY <1>1, <2>1 DEF TypeOK, Job, Steps
  <2>3. j = [q EXCEPT !.n = Len(reviews)]
    BY <1>1, <1>2, <2>1 DEF TypeOK, Job
  <2>4. QED
    BY <1>1, <2>2, <2>3 DEF Job
<1>4. job[h].at = "average" /\ job' = [job EXCEPT ![h] = j]
  <2>1. job' = [job EXCEPT ![h].at = "points", ![h].n = Len(reviews)]
    BY DEF Average
  <2>2. QED
    BY <1>1, <1>2, <2>1 DEF Average, TypeOK
<1>5. UNCHANGED <<table, ghost, moves, faults>>
  BY DEF Average
<1>6. Grow /\ SamePrefs /\ SameDecisions
  BY <1>1, <1>5, TablesStay DEF table, SameJobs
<1>7. Sound(j)'
  BY <1>3, <1>5 DEF Sound, table
<1>8. job' \in [Handlers -> Job] /\ JobsSound'
  BY <1>1, <1>3, <1>4, <1>6, <1>7, JobMoves
<1>9. TypeOK'
  BY <1>1, <1>5, <1>8 DEF TypeOK, table, ghost
<1>10. KeepsWriters /\ KeepsTellers
  BY <1>1, <1>3, <1>4, Keeps DEF Writes
<1>11. WholeSound' /\ DecisionSound'
  BY <1>1, <1>5, <1>6, <1>10, WholeQuiet, DecisionQuiet DEF ghost, table
<1>12. PointsSound'
  <2>1. job'[h] = j /\ reviews' = reviews
    BY <1>1, <1>4, <1>5 DEF TypeOK, table
  <2>2. QED
    BY <1>3, <2>1 DEF PointsSound, PointsDue
<1>13. QED
  BY <1>1, <1>5, <1>8, <1>9, <1>11, <1>12 DEF IInv, table

\* An average is stored: the last one, or an older one with the last to come.
LEMMA StepUpdatePoints ==
    ASSUME IInv, NEW h \in Handlers, UpdatePoints(h)
    PROVE  IInv'
<1>1. /\ TypeOK /\ JobsSound /\ WholeSound /\ DecisionSound /\ PointsSound
      /\ Len(reviews) \in Nat /\ points \in 0 .. Len(reviews)
  BY DEF IInv, TypeOK
<1>2. PICK n : n = job[h].n
  OBVIOUS
<1>3. job[h] \in Job /\ job[h].at = "points" /\ n \in 0 .. Len(reviews)
  BY <1>1, <1>2 DEF UpdatePoints, TypeOK, JobsSound, Sound, Job
<1>4. PICK j : j = [job[h] EXCEPT !.at = "reviewed"]
  OBVIOUS
<1>5. j \in Job /\ j.at = "reviewed"
  BY <1>3, <1>4 DEF Job, Steps
<1>6. job' = [job EXCEPT ![h] = j] /\ points' = n
  BY <1>2, <1>4 DEF UpdatePoints, Goto
<1>7. crossed' = IF points > n THEN crossed \cup {Points}
                 ELSE IF n = Len(reviews) THEN crossed \ {Points} ELSE crossed
  BY <1>2 DEF UpdatePoints
<1>8. UNCHANGED <<jobs, apps, told, word, reviews, like, likes, flips, vips,
                  torn, failed, moves, faults>>
  BY DEF UpdatePoints
<1>9. Grow /\ SamePrefs /\ SameDecisions
  BY <1>1, <1>8, TablesStay DEF SameJobs
<1>10. Sound(j)'
  BY <1>5 DEF Sound
<1>11. job' \in [Handlers -> Job] /\ JobsSound'
  BY <1>1, <1>5, <1>6, <1>9, <1>10, JobMoves
<1>12. crossed' \cup failed' \subseteq (DOMAIN jobs) \cup {Points}
  BY <1>1, <1>7, <1>8 DEF TypeOK
<1>13. TypeOK'
  BY <1>1, <1>3, <1>6, <1>8, <1>11, <1>12 DEF TypeOK
<1>14. KeepsWriters /\ KeepsTellers
  BY <1>1, <1>3, <1>5, <1>6, Keeps DEF Writes
<1>15. \A i \in DOMAIN jobs : i \in crossed => i \in crossed'
  <2>1. \A i \in DOMAIN jobs : i # Points
    BY <1>1 DEF TypeOK, Points
  <2>2. QED
    BY <1>7, <2>1
<1>16. WholeSound' /\ DecisionSound'
  BY <1>1, <1>8, <1>9, <1>14, <1>15, WholeQuiet, DecisionQuiet
<1>17. ASSUME Points \notin crossed' \cup failed'
       PROVE  PointsDue'
  <2>1. CASE n = Len(reviews)
    BY <1>6, <1>8, <2>1 DEF PointsDue
  <2>2. CASE n # Len(reviews)
    <3>1. ~(points > n) /\ Points \notin crossed \cup failed
      BY <1>7, <1>8, <1>17, <2>2
    <3>2. points # Len(reviews)
      BY <1>1, <1>3, <2>2, <3>1
    <3>3. \A g \in Handlers : job'[g] = IF g = h THEN j ELSE job[g]
      BY <1>1, <1>6 DEF TypeOK
    <3>4. CASE \E g \in Handlers : job[g].at = "average"
      BY <1>3, <3>3, <3>4 DEF PointsDue
    <3>5. CASE \E g \in Handlers : job[g].at = "points" /\ job[g].n = Len(reviews)
      BY <1>2, <1>8, <2>2, <3>3, <3>5 DEF PointsDue
    <3>6. QED
      BY <1>1, <3>1, <3>2, <3>4, <3>5 DEF PointsSound, PointsDue
  <2>3. QED
    BY <2>1, <2>2
<1>18. PointsSound'
  BY <1>17 DEF PointsSound
<1>19. QED
  BY <1>1, <1>8, <1>11, <1>13, <1>16, <1>18 DEF IInv

-----------------------------------------------------------------------------
(* Failures, and the theorems.                                             *)

LEMMA StepFail ==
    ASSUME IInv, NEW h \in Handlers, Fail(h)
    PROVE  IInv'
<1>1. /\ TypeOK /\ JobsSound /\ WholeSound /\ DecisionSound /\ PointsSound
  BY DEF IInv, TypeOK
<1>2. /\ job' = [job EXCEPT ![h] = NoJob]
      /\ UNCHANGED <<jobs, apps, told, word, reviews, points, like, likes, vips, crossed, moves>>
  BY DEF Fail, Finish
<1>3. faults' \in Nat
  BY <1>1 DEF Fail, TypeOK
<1>4. torn' = IF Writes(job[h]) THEN torn \cup {job[h].ref} ELSE torn
  BY DEF Fail, Writes
<1>5. failed' = failed \cup (IF job[h].at = "word" THEN {job[h].ref}
                             ELSE IF Averages(job[h]) THEN {Points} ELSE {})
  <2>1. CASE job[h].at = "word"
    BY <2>1 DEF Fail
  <2>2. CASE Averages(job[h])
    BY <2>2 DEF Fail, Averages
  <2>3. CASE job[h].at # "word" /\ ~Averages(job[h])
    BY <2>3 DEF Fail, Averages
  <2>4. QED
    BY <2>1, <2>2, <2>3 DEF Averages
<1>6. Writes(job[h]) \/ job[h].at = "word" => job[h].ref \in DOMAIN jobs
  BY <1>1 DEF JobsSound, Sound, Writes
<1>7. torn' \subseteq DOMAIN jobs /\ crossed' \cup failed' \subseteq (DOMAIN jobs) \cup {Points}
  BY <1>1, <1>2, <1>4, <1>5, <1>6 DEF TypeOK
<1>8. Grow /\ SamePrefs /\ SameDecisions
  BY <1>1, <1>2, TablesStay DEF SameJobs
<1>9. Sound(NoJob)'
  BY <1>1, <1>8, SoundIdle, NoJobType, SoundStays
<1>10. job' \in [Handlers -> Job] /\ JobsSound'
  BY <1>1, <1>2, <1>8, <1>9, NoJobType, JobMoves
<1>11. TypeOK'
  <2>1. flips' \in [Users -> BOOLEAN]
    BY <1>1 DEF Fail, Flip, TypeOK
  <2>2. QED
    BY <1>1, <1>2, <1>3, <1>7, <1>10, <2>1 DEF TypeOK
<1>12. \A g \in Handlers : job'[g] = IF g = h THEN NoJob ELSE job[g]
  BY <1>1, <1>2 DEF TypeOK
<1>13. ASSUME NEW k \in DOMAIN jobs, k \notin torn'
       PROVE  Whole(k)'
  <2>1. Whole(k) /\ jobs' = jobs
    BY <1>1, <1>2, <1>4, <1>13 DEF WholeSound
  <2>2. h \notin Writing(k)
    BY <1>4, <1>13 DEF Writing, Writes
  <2>3. Writing(k)' = Writing(k) \ {h}
    BY <1>1, <1>2, NoJobType, WritingJob DEF Writes
  <2>4. Writing(k)' = Writing(k)
    BY <2>2, <2>3
  <2>5. \A g \in Writing(k) : job'[g] = job[g]
    BY <1>12, <2>2 DEF Writing
  <2>6. QED
    BY <2>1, <2>4, <2>5 DEF Whole
<1>14. WholeSound'
  BY <1>2, <1>13 DEF WholeSound
<1>15. ASSUME NEW k \in DOMAIN jobs, k \notin crossed' \cup failed'
       PROVE  Told(k)'
  <2>1. Told(k) /\ jobs' = jobs /\ word' = word
    BY <1>1, <1>2, <1>5, <1>15 DEF DecisionSound
  <2>2. ~(job[h].at = "word" /\ job[h].ref = k)
    BY <1>5, <1>15
  <2>3. QED
    BY <1>12, <2>1, <2>2 DEF Told
<1>16. DecisionSound'
  BY <1>2, <1>15 DEF DecisionSound
<1>17. ASSUME Points \notin crossed' \cup failed'
       PROVE  PointsDue'
  <2>1. PointsDue /\ points' = points /\ reviews' = reviews
    BY <1>1, <1>2, <1>5, <1>17 DEF PointsSound
  <2>2. ~Averages(job[h])
    BY <1>5, <1>17 DEF Averages
  <2>3. QED
    BY <1>12, <2>1, <2>2 DEF PointsDue, Averages
<1>18. PointsSound'
  BY <1>17 DEF PointsSound
<1>19. QED
  BY <1>1, <1>2, <1>10, <1>11, <1>14, <1>16, <1>18
     DEF IInv

LEMMA StepApplyAgain ==
    ASSUME IInv, NEW h \in Handlers, NEW u \in Nounus, NEW i \in DOMAIN jobs,
           ApplyAgain(h, u, i) \/ Apply(h, u, i)
    PROVE  IInv'
<1>1. ApplyToJob(h, u, i)
  BY DEF ApplyAgain, Apply
<1>2. moves' \in Nat
  BY DEF ApplyAgain, Apply, Move, IInv, TypeOK
<1>3. QED
  BY <1>1, <1>2, StepApplyToJob

LEMMA InitInv == Init => IInv
<1>1. SUFFICES ASSUME Init PROVE IInv
  OBVIOUS
<1>2. job \in [Handlers -> Job] /\ \A h \in Handlers : job[h] = NoJob
  BY <1>1, NoJobType DEF Init
<1>3. /\ jobs = <<>> /\ apps = <<>> /\ told = {} /\ word = <<>> /\ reviews = <<>>
      /\ points = 0 /\ vips = {} /\ torn = {} /\ crossed = {} /\ failed = {}
      /\ likes = 0 /\ moves = 0 /\ faults = 0
  BY <1>1 DEF Init
<1>4. like \in [Users -> 0 .. likes] /\ flips \in [Users -> BOOLEAN]
  BY <1>1, <1>3 DEF Init
<1>5. TypeOK
  BY <1>2, <1>3, <1>4 DEF TypeOK
<1>6. JobsSound
  BY <1>2, SoundIdle DEF JobsSound, Sound
<1>7. WholeSound /\ DecisionSound /\ PointsSound
  BY <1>3 DEF WholeSound, DecisionSound, PointsSound, PointsDue
<1>8. QED
  BY <1>5, <1>6, <1>7 DEF IInv

LEMMA StutterInv ==
    ASSUME IInv, UNCHANGED vars
    PROVE  IInv'
<1>1. /\ TypeOK /\ JobsSound
  BY DEF IInv
<1>2. UNCHANGED <<table, ghost, job, moves, faults>>
  BY DEF vars
<1>3. Grow /\ SameJobs
  BY <1>1, <1>2, TablesStay DEF table
<1>4. WholeSound' /\ DecisionSound' /\ PointsSound'
  BY <1>2, <1>3, AllKept, Quiet DEF table
<1>5. TypeOK' /\ JobsSound'
  BY <1>1, <1>2, <1>3, JobsStay DEF TypeOK, table, ghost
<1>6. QED
  BY <1>1, <1>2, <1>4, <1>5 DEF IInv, table

LEMMA StepInv == IInv /\ [Next]_vars => IInv'
<1>1. SUFFICES ASSUME IInv, [Next]_vars PROVE IInv'
  OBVIOUS
<1>2. CASE Outside
  BY <1>1, <1>2, StepDeleteJob, StepPrioritize, StepChangePack DEF Outside
<1>3. ASSUME NEW h \in Handlers, Arrive(h)
      PROVE  IInv'
  BY <1>1, <1>3, StepCreateJob, StepToggle, StepUpdateJob, StepSuspend, StepApplyAgain,
     StepCreateReview DEF Arrive, Users
<1>4. ASSUME NEW h \in Handlers, Advance(h)
      PROVE  IInv'
  BY <1>1, <1>4, StepInsertJob, StepAddPreference, StepClearPreferences, StepTellSuspension,
     StepInsertApplication, StepTellOwner, StepInsertReview, StepAverage,
     StepUpdatePoints, StepTellReview, StepLike, StepUnlike, StepCountLikes DEF Advance
<1>5. ASSUME NEW h \in Handlers, Fail(h)
      PROVE  IInv'
  BY <1>1, <1>5, StepFail
<1>6. ASSUME NEW h \in Handlers, NEW u \in Nounus, NEW i \in DOMAIN jobs, ApplyAgain(h, u, i)
      PROVE  IInv'
  BY <1>1, <1>6, StepApplyAgain
<1>7. CASE UNCHANGED vars
  BY <1>1, <1>7, StutterInv
<1>8. QED
  BY <1>1, <1>2, <1>3, <1>4, <1>5, <1>6, <1>7 DEF Next

(***************************************************************************)
(* The invariant holds in every reachable state.                           *)
(***************************************************************************)
THEOREM Invariant == Spec => []IInv
BY InitInv, StepInv, PTL DEF Spec

(***************************************************************************)
(* Every variable keeps its type: notifications, ghosts and requests name  *)
(* jobs that exist.                                                        *)
(***************************************************************************)
THEOREM TypeCorrect == Spec => []TypeOK
<1>1. IInv => TypeOK
  BY DEF IInv
<1>2. QED
  BY <1>1, Invariant, PTL

(***************************************************************************)
(* A job that nobody is writing has the preferences of one form, unless    *)
(* requests crossed on it or one failed (job.usecases.ts:37).              *)
(***************************************************************************)
THEOREM JobsStayWhole == Spec => []JobsAreWhole
<1>1. IInv => JobsAreWhole
  BY DEF IInv, WholeSound, Whole, JobsAreWhole
<1>2. QED
  BY <1>1, Invariant, PTL

(***************************************************************************)
(* The last notification about a job tells the last decision, unless an    *)
(* older one came after it or was never sent (admin.usecases.ts:371).      *)
(***************************************************************************)
THEOREM OwnersAreTold == Spec => []OwnerKnowsTheDecision
<1>1. IInv => OwnerKnowsTheDecision
  BY DEF IInv, DecisionSound, Told, OwnerKnowsTheDecision, At
<1>2. QED
  BY <1>1, Invariant, PTL

(***************************************************************************)
(* The points average all the reviews when no review is being stored,      *)
(* unless an older average came last or a request failed                   *)
(* (review.controller.ts:50).                                              *)
(***************************************************************************)
THEOREM PointsAverage == Spec => []PointsAverageTheReviews
<1>1. IInv => PointsAverageTheReviews
  <2>1. SUFFICES ASSUME IInv PROVE PointsAverageTheReviews
    OBVIOUS
  <2>2. ASSUME Points \notin crossed \cup failed, At("average") \cup At("points") = {}
        PROVE  points = Len(reviews)
    BY <2>1, <2>2 DEF IInv, PointsSound, PointsDue, At
  <2>3. QED
    BY <2>2 DEF PointsAverageTheReviews
<1>2. QED
  BY <1>1, Invariant, PTL

-----------------------------------------------------------------------------
(***************************************************************************)
(* Toggles.  A write of the like brings one request to its count, and the  *)
(* answer or the failure there takes one away and flips the user's parity. *)
(***************************************************************************)
Odd(S) == Cardinality(S) % 2 = 1

Parity(u) ==
    /\ IsFiniteSet(Counting(u))
    /\ like[u] # 0 <=> (flips[u] # Odd(Counting(u)))

ParitySound == \A u \in Users : Parity(u)

LEMMA OddAdd ==
    ASSUME NEW S, IsFiniteSet(S), NEW x, x \notin S
    PROVE  IsFiniteSet(S \cup {x}) /\ Odd(S \cup {x}) = ~Odd(S)
<1>1. Cardinality(S) \in Nat /\ IsFiniteSet(S \cup {x}) /\ Cardinality(S \cup {x}) = Cardinality(S) + 1
  BY FS_AddElement, FS_CardinalityType
<1> QED
  BY <1>1 DEF Odd

LEMMA OddRemove ==
    ASSUME NEW S, IsFiniteSet(S), NEW x \in S
    PROVE  IsFiniteSet(S \ {x}) /\ Odd(S \ {x}) = ~Odd(S)
<1>1. PICK T : T = S \ {x}
  OBVIOUS
<1>2. IsFiniteSet(T) /\ x \notin T /\ S = T \cup {x}
  BY <1>1, FS_RemoveElement
<1>3. Odd(S) = ~Odd(T)
  BY <1>2, OddAdd
<1>4. Odd(T) \in BOOLEAN /\ Odd(S) \in BOOLEAN
  BY DEF Odd
<1> QED
  BY <1>1, <1>2, <1>3, <1>4

\* Request h moves from j to k, two that count no likes, and no like changes.
NotCounting(h) ==
    /\ job[h].at # "count" /\ UNCHANGED <<like, flips>>
    /\ \E k : k.at # "count" /\ job' = [job EXCEPT ![h] = k]

LEMMA CountersStay ==
    ASSUME TypeOK, ParitySound, NEW h \in Handlers,
           NotCounting(h) \/ UNCHANGED <<job, like, flips>>
    PROVE  ParitySound'
<1>1. ASSUME NEW u \in Users PROVE Counting(u)' = Counting(u)
  <2>1. CASE NotCounting(h)
    <3>1. PICK k : k.at # "count" /\ job' = [job EXCEPT ![h] = k]
      BY <2>1 DEF NotCounting
    <3>2. \A g \in Handlers : job'[g] = IF g = h THEN k ELSE job[g]
      BY <3>1 DEF TypeOK
    <3> QED
      BY <2>1, <3>1, <3>2 DEF NotCounting, Counting
  <2> QED
    BY <2>1 DEF Counting
<1>2. UNCHANGED <<like, flips>>
  BY DEF NotCounting
<1> QED
  BY <1>1, <1>2 DEF ParitySound, Parity

LEMMA ArriveNotCounting ==
    ASSUME NEW h \in Handlers, Arrive(h) \/ \E u \in Nounus, i \in DOMAIN jobs : ApplyAgain(h, u, i)
    PROVE  NotCounting(h)
<1>1. ASSUME NEW k, Begin(h, k), k.at # "count", UNCHANGED <<like, flips>>
      PROVE  NotCounting(h)
  BY <1>1 DEF Begin, Idle, NotCounting
<1>2. ASSUME NEW u, CreateJob(h, u) PROVE NotCounting(h)
  BY <1>1, <1>2, NoJobType DEF CreateJob, table, Job
<1>3. ASSUME NEW u, Toggle(h, u) PROVE NotCounting(h)
  <2>1. PICK k : k = [NoJob EXCEPT !.at = IF like[u] = 0 THEN "like" ELSE "unlike",
                                   !.user = u, !.ref = like[u]]
    OBVIOUS
  <2>2. k.at # "count" /\ Begin(h, k) /\ UNCHANGED <<like, flips>>
    BY <1>3, <2>1, NoJobType DEF Toggle, table, NoJob
  <2> QED
    BY <1>1, <2>2
<1>4. ASSUME NEW u, NEW i, UpdateJob(h, u, i) PROVE NotCounting(h)
  <2>1. PICK k : k = [NoJob EXCEPT !.at = "clear", !.ref = i, !.n = Rows]
    OBVIOUS
  <2>2. k.at # "count" /\ Begin(h, k) /\ UNCHANGED <<like, flips>>
    BY <1>4, <2>1 DEF UpdateJob, table, NoJob
  <2> QED
    BY <1>1, <2>2
<1>5. ASSUME NEW i, NEW s, Suspend(h, i, s) PROVE NotCounting(h)
  <2>1. PICK k : k = [NoJob EXCEPT !.at = "word", !.ref = i, !.n = jobs[i].decisions + 1]
    OBVIOUS
  <2>2. k.at # "count" /\ Begin(h, k) /\ UNCHANGED <<like, flips>>
    BY <1>5, <2>1 DEF Suspend, NoJob
  <2> QED
    BY <1>1, <2>2
<1>6. ASSUME NEW u, NEW i, ApplyToJob(h, u, i) PROVE NotCounting(h)
  <2>1. PICK k : k = [at |-> IF Applied(u, i) THEN "tell" ELSE "apply",
                      user |-> u, ref |-> i, n |-> 0]
    OBVIOUS
  <2>2. k.at # "count" /\ Begin(h, k) /\ UNCHANGED <<like, flips>>
    BY <1>6, <2>1 DEF ApplyToJob, table
  <2> QED
    BY <1>1, <2>2
<1>7. ASSUME NEW u, NEW c, CreateReview(h, u, c) PROVE NotCounting(h)
  <2>1. PICK k : k = [NoJob EXCEPT !.at = "review", !.user = u, !.ref = c]
    OBVIOUS
  <2>2. k.at # "count" /\ Begin(h, k) /\ UNCHANGED <<like, flips>>
    BY <1>7, <2>1 DEF CreateReview, table, NoJob
  <2> QED
    BY <1>1, <2>2
<1> QED
  BY <1>2, <1>3, <1>4, <1>5, <1>6, <1>7 DEF Arrive, Apply, ApplyAgain

LEMMA AdvanceNotCounting ==
    ASSUME TypeOK, NEW h \in Handlers, Advance(h), ~Like(h), ~Unlike(h), ~CountLikes(h)
    PROVE  NotCounting(h)
<1>1. job[h] \in Job
  BY DEF TypeOK
<1>2. ASSUME NEW step, step # "count", Goto(h, step), job[h].at # "count", UNCHANGED <<like, flips>>
      PROVE  NotCounting(h)
  <2>1. PICK k : k = [job[h] EXCEPT !.at = step]
    OBVIOUS
  <2>2. k.at # "count" /\ job' = [job EXCEPT ![h] = k]
    BY <1>1, <1>2, <2>1 DEF Goto, Job
  <2> QED
    BY <1>2, <2>2 DEF NotCounting
<1>3. ASSUME Finish(h), job[h].at # "count", UNCHANGED <<like, flips>>
      PROVE  NotCounting(h)
  BY <1>3, NoJobType DEF Finish, NotCounting
<1>4. CASE InsertJob(h)
  <2>1. PICK k : k = [at |-> "prefs", user |-> Nobody, ref |-> Len(jobs) + 1, n |-> Rows]
    OBVIOUS
  <2>2. k.at # "count" /\ job' = [job EXCEPT ![h] = k]
    BY <1>4, <2>1 DEF InsertJob
  <2> QED
    BY <1>4, <2>2 DEF InsertJob, NotCounting
<1>5. CASE AddPreference(h)
  <2>1. CASE Finish(h)
    BY <1>3, <1>5, <2>1 DEF AddPreference
  <2>2. CASE job' = [job EXCEPT ![h].n = @ - 1]
    <3>1. PICK k : k = [job[h] EXCEPT !.n = @ - 1]
      OBVIOUS
    <3>2. k.at = job[h].at /\ job' = [job EXCEPT ![h] = k]
      BY <1>1, <2>2, <3>1 DEF Job
    <3> QED
      BY <1>5, <3>2 DEF AddPreference, NotCounting
  <2> QED
    BY <1>5, <2>1, <2>2 DEF AddPreference
<1>6. CASE ClearPreferences(h)
  BY <1>2, <1>6 DEF ClearPreferences
<1>7. CASE TellSuspension(h) \/ TellOwner(h) \/ TellReview(h)
  BY <1>3, <1>7 DEF TellSuspension, TellOwner, TellReview, table
<1>8. CASE InsertApplication(h)
  BY <1>2, <1>8 DEF InsertApplication, Goto
<1>9. CASE InsertReview(h)
  BY <1>2, <1>3, <1>9 DEF InsertReview
<1>10. CASE Average(h)
  <2>1. PICK k : k = [job[h] EXCEPT !.at = "points", !.n = Len(reviews)]
    OBVIOUS
  <2>2. k.at # "count" /\ job' = [job EXCEPT ![h] = k]
    BY <1>1, <1>10, <2>1 DEF Average, Job, TypeOK
  <2> QED
    BY <1>10, <2>2 DEF Average, NotCounting, table
<1>11. CASE UpdatePoints(h)
  BY <1>2, <1>11 DEF UpdatePoints
<1> QED
  BY <1>4, <1>5, <1>6, <1>7, <1>8, <1>9, <1>10, <1>11 DEF Advance

\* The like changes and h goes on to its count.
LEMMA LikeChanges ==
    ASSUME TypeOK, ParitySound, NEW h \in Handlers, NEW u \in Users,
           job[h].user = u, job[h].at # "count", job' = [job EXCEPT ![h].at = "count"],
           like'[u] # 0 <=> like[u] = 0, \A v \in Users \ {u} : like'[v] = like[v],
           UNCHANGED flips
    PROVE  ParitySound'
<1>1. job[h] \in Job /\ \A g \in Handlers : job'[g] = IF g = h THEN [job[h] EXCEPT !.at = "count"]
                                                       ELSE job[g]
  BY DEF TypeOK
<1>2. job'[h].at = "count" /\ job'[h].user = u
  BY <1>1 DEF Job
<1>3. Counting(u)' = Counting(u) \cup {h} /\ h \notin Counting(u)
  BY <1>1, <1>2 DEF Counting
<1>4. \A v \in Users \ {u} : Counting(v)' = Counting(v)
  BY <1>1, <1>2 DEF Counting
<1>5. IsFiniteSet(Counting(u)') /\ Odd(Counting(u)') = ~Odd(Counting(u))
  BY <1>3, OddAdd DEF ParitySound, Parity
<1>6. Odd(Counting(u)) \in BOOLEAN /\ flips[u] \in BOOLEAN
  BY DEF Odd, TypeOK
<1>7. Parity(u)'
  BY <1>5, <1>6 DEF ParitySound, Parity, Odd
<1>8. \A v \in Users \ {u} : Parity(v)'
  BY <1>4 DEF ParitySound, Parity, Odd
<1> QED
  BY <1>7, <1>8 DEF ParitySound

LEMMA LikeParity ==
    ASSUME IInv, ParitySound, NEW h \in Handlers, Like(h) \/ Unlike(h)
    PROVE  ParitySound'
<1>1. TypeOK /\ Sound(job[h])
  BY DEF IInv, JobsSound
<1>2. job[h].at \in {"like", "unlike"} /\ UNCHANGED flips
  BY DEF Like, Unlike
<1>3. PICK u \in Users : u = job[h].user
  BY <1>1, <1>2 DEF Sound
<1>4. likes \in Nat /\ like \in [Users -> 0 .. likes]
  BY <1>1 DEF TypeOK
<1>5. CASE UNCHANGED like
  <2>1. CASE Finish(h)
    BY <1>1, <1>2, <1>5, <2>1, NoJobType, CountersStay DEF Finish, NotCounting
  <2>2. CASE ~Finish(h)
    <3>1. like'[u] # like[u]
      BY <1>1, <1>2, <1>3, <1>4, <2>2 DEF Like, Unlike, Sound
    <3> QED
      BY <1>5, <3>1
  <2> QED
    BY <2>1, <2>2
<1>6. CASE ~UNCHANGED like
  <2>1. job' = [job EXCEPT ![h].at = "count"]
    BY <1>6 DEF Like, Unlike, Goto
  <2>2. CASE Like(h)
    <3>1. like[u] = 0 /\ like' = [like EXCEPT ![u] = likes + 1]
      BY <1>3, <1>6, <2>2 DEF Like
    <3>2. like'[u] # 0 /\ \A v \in Users \ {u} : like'[v] = like[v]
      BY <1>4, <3>1
    <3> QED
      BY <1>1, <1>2, <1>3, <2>1, <3>1, <3>2, LikeChanges
  <2>3. CASE Unlike(h)
    <3>1. like[u] # 0 /\ like' = [like EXCEPT ![u] = 0]
      BY <1>1, <1>3, <1>6, <2>3 DEF Unlike, Sound
    <3>2. like'[u] = 0 /\ \A v \in Users \ {u} : like'[v] = like[v]
      BY <1>4, <3>1
    <3> QED
      BY <1>1, <1>2, <1>3, <2>1, <3>1, <3>2, LikeChanges
  <2> QED
    BY <2>2, <2>3
<1> QED
  BY <1>5, <1>6

\* A request at its count is answered, or fails there.
LEMMA CountParity ==
    ASSUME IInv, ParitySound, NEW h \in Handlers, job[h].at = "count",
           job' = [job EXCEPT ![h] = NoJob], Flip(h), UNCHANGED like
    PROVE  ParitySound'
<1>1. TypeOK /\ Sound(job[h])
  BY DEF IInv, JobsSound
<1>2. PICK u \in Users : u = job[h].user
  BY <1>1 DEF Sound
<1>3. \A g \in Handlers : job'[g] = IF g = h THEN NoJob ELSE job[g]
  BY <1>1 DEF TypeOK
<1>4. Counting(u)' = Counting(u) \ {h} /\ h \in Counting(u)
  BY <1>2, <1>3, NoJobType DEF Counting
<1>5. \A v \in Users \ {u} : Counting(v)' = Counting(v)
  BY <1>2, <1>3, NoJobType DEF Counting
<1>6. flips \in [Users -> BOOLEAN] /\ flips' = [flips EXCEPT ![u] = ~@]
  BY <1>1, <1>2 DEF TypeOK, Flip
<1>7. flips'[u] = ~flips[u] /\ \A v \in Users \ {u} : flips'[v] = flips[v]
  BY <1>6
<1>8. IsFiniteSet(Counting(u)') /\ Odd(Counting(u)') = ~Odd(Counting(u))
  BY <1>4, OddRemove DEF ParitySound, Parity
<1>9. Odd(Counting(u)) \in BOOLEAN /\ flips[u] \in BOOLEAN
  BY <1>6 DEF Odd
<1>10. Parity(u)'
  BY <1>7, <1>8, <1>9 DEF ParitySound, Parity, Odd
<1>11. \A v \in Users \ {u} : Parity(v)'
  BY <1>5, <1>7 DEF ParitySound, Parity, Odd
<1> QED
  BY <1>10, <1>11 DEF ParitySound

LEMMA FailParity ==
    ASSUME IInv, ParitySound, NEW h \in Handlers, Fail(h)
    PROVE  ParitySound'
<1>1. job' = [job EXCEPT ![h] = NoJob] /\ UNCHANGED like
  BY DEF Fail, Finish
<1>2. CASE job[h].at = "count"
  BY <1>1, <1>2, CountParity DEF Fail
<1>3. CASE job[h].at # "count"
  <2>1. UNCHANGED flips
    BY <1>3 DEF Fail
  <2> QED
    BY <1>1, <1>3, <2>1, NoJobType, CountersStay DEF NotCounting, IInv
<1> QED
  BY <1>2, <1>3

(***************************************************************************)
(* A like is there exactly if an odd number of toggles changed it: those   *)
(* answered, those about to count the likes and those that failed there,   *)
(* for any number of toggles of one user at once (like.controller.ts:21).  *)
(***************************************************************************)
THEOREM TogglesCount == Spec => []TogglesAreCounted
<1>1. Init => ParitySound
  <2> SUFFICES ASSUME Init, NEW u \in Users
               PROVE  Parity(u)
    BY DEF ParitySound
  <2>1. Counting(u) = {}
    BY NoJobType DEF Init, Counting
  <2>2. IsFiniteSet(Counting(u)) /\ Cardinality(Counting(u)) = 0
    BY <2>1, FS_EmptySet
  <2>3. like[u] = 0 /\ flips[u] = FALSE
    BY DEF Init
  <2>4. Odd(Counting(u)) = FALSE
    BY <2>2 DEF Odd
  <2> QED
    BY <2>2, <2>3, <2>4 DEF Parity
<1>2. IInv /\ ParitySound /\ [Next]_vars => ParitySound'
  <2> SUFFICES ASSUME IInv, ParitySound, [Next]_vars
               PROVE  ParitySound'
    OBVIOUS
  <2>1. TypeOK
    BY DEF IInv
  <2>2. ASSUME UNCHANGED <<job, like, flips>>
        PROVE  ParitySound'
    BY <2>2 DEF ParitySound, Parity, Counting
  <2>3. CASE UNCHANGED vars
    BY <2>2, <2>3 DEF vars, table
  <2>4. CASE Outside
    BY <2>2, <2>4 DEF Outside, DeleteJob, Prioritize, ChangePack, Others
  <2>5. ASSUME NEW h \in Handlers,
               Arrive(h) \/ \E u \in Nounus, i \in DOMAIN jobs : ApplyAgain(h, u, i)
        PROVE  ParitySound'
    BY <2>1, <2>5, ArriveNotCounting, CountersStay
  <2>6. ASSUME NEW h \in Handlers, Advance(h)
        PROVE  ParitySound'
    <3>1. CASE Like(h) \/ Unlike(h)
      BY <3>1, LikeParity
    <3>2. CASE CountLikes(h)
      BY <3>2, CountParity DEF CountLikes, Finish
    <3> QED
      BY <2>1, <2>6, <3>1, <3>2, AdvanceNotCounting, CountersStay
  <2>7. ASSUME NEW h \in Handlers, Fail(h)
        PROVE  ParitySound'
    BY <2>7, FailParity
  <2> QED
    BY <2>3, <2>4, <2>5, <2>6, <2>7 DEF Next
<1>3. ParitySound => TogglesAreCounted
  BY DEF ParitySound, Parity, Odd, TogglesAreCounted
<1> QED
  BY <1>1, <1>2, <1>3, Invariant, PTL DEF Spec

-----------------------------------------------------------------------------
(***************************************************************************)
(* The pages.  A strict total order of a finite set numbers it from 1 to   *)
(* its cardinality, so the page cut from the list and the page sorted      *)
(* again are bijections with intervals, and the intervals of the pages     *)
(* partition the numbers from 1.                                           *)
(***************************************************************************)
\* R orders S strictly and totally.
OrdersStrictly(R, S) ==
    /\ R \in SUBSET (S \X S)
    /\ \A x \in S : <<x, x>> \notin R
    /\ \A x, y, z \in S : <<x, y>> \in R /\ <<y, z>> \in R => <<x, z>> \in R
    /\ \A x, y \in S : x # y => <<x, y>> \in R \/ <<y, x>> \in R

Below(R, S, x) == {k \in S : <<k, x>> \in R}

Position(R, S, x) == 1 + Cardinality(Below(R, S, x))

LEMMA PositionType ==
    ASSUME NEW S, IsFiniteSet(S), NEW R, OrdersStrictly(R, S), NEW x \in S
    PROVE  /\ IsFiniteSet(Below(R, S, x))
           /\ Cardinality(S) \in Nat
           /\ Cardinality(Below(R, S, x)) \in Nat
           /\ Position(R, S, x) \in 1 .. Cardinality(S)
<1>1. Below(R, S, x) \in SUBSET S /\ x \notin Below(R, S, x)
  BY DEF Below, OrdersStrictly
<1>2. /\ IsFiniteSet(Below(R, S, x))
      /\ Cardinality(Below(R, S, x)) <= Cardinality(S)
      /\ Cardinality(S) = Cardinality(Below(R, S, x)) => S = Below(R, S, x)
  BY <1>1, FS_Subset
<1>3. Cardinality(S) \in Nat /\ Cardinality(Below(R, S, x)) \in Nat
  BY <1>2, FS_CardinalityType
<1>4. S # Below(R, S, x)
  BY <1>1
<1> QED
  BY <1>2, <1>3, <1>4 DEF Position

LEMMA PositionGrows ==
    ASSUME NEW S, IsFiniteSet(S), NEW R, OrdersStrictly(R, S),
           NEW x \in S, NEW y \in S, <<x, y>> \in R
    PROVE  Position(R, S, x) < Position(R, S, y)
<1>1. Below(R, S, x) \in SUBSET Below(R, S, y)
  BY DEF Below, OrdersStrictly
<1>2. x \in Below(R, S, y) /\ x \notin Below(R, S, x)
  BY DEF Below, OrdersStrictly
<1>3. Below(R, S, x) # Below(R, S, y)
  BY <1>2
<1>4. /\ IsFiniteSet(Below(R, S, y)) /\ Cardinality(Below(R, S, y)) \in Nat
      /\ Cardinality(Below(R, S, x)) \in Nat
  BY PositionType
<1>5. /\ Cardinality(Below(R, S, x)) <= Cardinality(Below(R, S, y))
      /\ Cardinality(Below(R, S, y)) = Cardinality(Below(R, S, x))
         => Below(R, S, y) = Below(R, S, x)
  BY <1>1, <1>4, FS_Subset
<1> QED
  BY <1>3, <1>4, <1>5 DEF Position

LEMMA PositionDiffers ==
    ASSUME NEW S, IsFiniteSet(S), NEW R, OrdersStrictly(R, S),
           NEW x \in S, NEW y \in S, Position(R, S, x) = Position(R, S, y)
    PROVE  x = y
<1> SUFFICES ASSUME x # y PROVE FALSE
  OBVIOUS
<1>1. Position(R, S, x) \in Int /\ Position(R, S, y) \in Int
  BY PositionType
<1>2. CASE <<x, y>> \in R
  <2>1. Position(R, S, x) < Position(R, S, y)
    BY <1>2, PositionGrows
  <2> QED
    BY <1>1, <2>1
<1>3. CASE <<y, x>> \in R
  <2>1. Position(R, S, y) < Position(R, S, x)
    BY <1>3, PositionGrows
  <2> QED
    BY <1>1, <2>1
<1> QED
  BY <1>2, <1>3 DEF OrdersStrictly

LEMMA EveryPositionTaken ==
    ASSUME NEW S, IsFiniteSet(S), NEW R, OrdersStrictly(R, S),
           NEW n \in 1 .. Cardinality(S)
    PROVE  \E x \in S : Position(R, S, x) = n
<1> DEFINE N == Cardinality(S)
<1>1. N \in Nat
  BY FS_CardinalityType
<1>2. PICK f : f = [x \in S |-> Position(R, S, x)]
  OBVIOUS
<1>3. f \in [S -> 1 .. N]
  BY <1>2, PositionType
<1>4. \A x, y \in S : f[x] = f[y] => x = y
  BY <1>2, PositionDiffers
<1>5. f \in Injection(S, 1 .. N)
  BY <1>3, <1>4 DEF Injection, IsInjective
<1>6. IsFiniteSet(1 .. N) /\ Cardinality(1 .. N) = N
  BY <1>1, FS_Interval
<1>7. f \in Surjection(S, 1 .. N)
  BY <1>5, <1>6, FS_Injection
<1> QED
  BY <1>2, <1>7 DEF Surjection

\* The relations the pages are cut and sorted by.
Earlier(S) == {p \in S \X S : Before(p[1], p[2])}

Sooner(S) == {p \in S \X S : Ahead(p[1], p[2])}

LEMMA JobFields ==
    ASSUME jobs \in Seq(JobRow), NEW i \in DOMAIN jobs
    PROVE  jobs[i].priority \in Nat /\ i \in Nat
<1>1. jobs[i] \in JobRow /\ i \in Nat
  OBVIOUS
<1> QED
  BY <1>1 DEF JobRow

LEMMA BeforeOrders ==
    ASSUME jobs \in Seq(JobRow), NEW S \in SUBSET DOMAIN jobs
    PROVE  OrdersStrictly(Earlier(S), S)
<1>1. \A x \in S : jobs[x].priority \in Nat /\ x \in Nat
  BY JobFields
<1>2. \A x, y \in S : <<x, y>> \in Earlier(S) <=> Before(x, y)
  BY DEF Earlier
<1>3. \A x \in S : ~Before(x, x)
  BY <1>1 DEF Before
<1>4. \A x, y, z \in S : Before(x, y) /\ Before(y, z) => Before(x, z)
  BY <1>1 DEF Before
<1>5. \A x, y \in S : x # y => Before(x, y) \/ Before(y, x)
  BY <1>1 DEF Before
<1>6. Earlier(S) \in SUBSET (S \X S)
  BY DEF Earlier
<1> QED
  BY <1>2, <1>3, <1>4, <1>5, <1>6 DEF OrdersStrictly

LEMMA AheadOrders ==
    ASSUME jobs \in Seq(JobRow), NEW S \in SUBSET DOMAIN jobs
    PROVE  OrdersStrictly(Sooner(S), S)
<1>1. \A x \in S : jobs[x].priority \in Nat /\ x \in Nat
  BY JobFields
<1>2. \A x, y \in S : <<x, y>> \in Sooner(S) <=> Ahead(x, y)
  BY DEF Sooner
<1>3. \A x \in S : ~Ahead(x, x)
  BY <1>1 DEF Ahead, Before
<1>4. \A x, y, z \in S : Before(x, y) /\ Before(y, z) => Before(x, z)
  BY <1>1 DEF Before
<1>5. \A x, y, z \in S : Ahead(x, y) /\ Ahead(y, z) => Ahead(x, z)
  BY <1>4 DEF Ahead
<1>6. \A x, y \in S : x # y => Before(x, y) \/ Before(y, x)
  BY <1>1 DEF Before
<1>7. \A x, y \in S : x # y => Ahead(x, y) \/ Ahead(y, x)
  BY <1>6 DEF Ahead
<1>8. Sooner(S) \in SUBSET (S \X S)
  BY DEF Sooner
<1> QED
  BY <1>2, <1>3, <1>5, <1>7, <1>8 DEF OrdersStrictly

LEMMA PublishedFinite ==
    ASSUME jobs \in Seq(JobRow)
    PROVE  /\ Published \in SUBSET DOMAIN jobs /\ IsFiniteSet(Published)
           /\ Cardinality(Published) \in Nat /\ Cardinality(Published) <= Len(jobs)
<1>1. Len(jobs) \in Nat /\ DOMAIN jobs = 1 .. Len(jobs)
  OBVIOUS
<1>2. IsFiniteSet(1 .. Len(jobs)) /\ Cardinality(1 .. Len(jobs)) = Len(jobs)
  BY <1>1, FS_Interval
<1>3. Published \in SUBSET (1 .. Len(jobs))
  BY <1>1 DEF Published
<1>4. IsFiniteSet(Published) /\ Cardinality(Published) <= Len(jobs)
  BY <1>2, <1>3, FS_Subset
<1> QED
  BY <1>1, <1>3, <1>4, FS_CardinalityType

LEMMA RankIsPosition ==
    ASSUME NEW i \in Published
    PROVE  Rank(i) = Position(Earlier(Published), Published, i)
<1>1. {k \in Published : Before(k, i)} = Below(Earlier(Published), Published, i)
  BY DEF Below, Earlier
<1> QED
  BY <1>1 DEF Rank, Position

LEMMA PlaceIsPosition ==
    ASSUME NEW rows, NEW i \in rows
    PROVE  Place(rows, i) = Position(Sooner(rows), rows, i)
<1>1. {k \in rows : Ahead(k, i)} = Below(Sooner(rows), rows, i)
  BY DEF Below, Sooner
<1> QED
  BY <1>1 DEF Place, Position

\* Pages of n rows cut the numbers from 1 into intervals.
LEMMA PageBefore ==
    ASSUME NEW p \in Nat, NEW q \in Nat, NEW n \in Nat, p < q
    PROVE  p * n <= (q - 1) * n
<1>1. PICK d \in Nat : q - 1 = p + d
  <2>1. q - 1 - p \in Nat /\ q - 1 = p + (q - 1 - p)
    OBVIOUS
  <2> QED
    BY <2>1
<1>2. (p + d) * n = p * n + d * n
  OBVIOUS
<1>3. d * n \in Nat /\ p * n \in Nat
  OBVIOUS
<1> QED
  BY <1>1, <1>2, <1>3

LEMMA PageOf ==
    ASSUME NEW r \in Nat \ {0}, NEW n \in Nat \ {0}
    PROVE  \E p \in 1 .. r : r \in (p - 1) * n + 1 .. (p - 1) * n + n
<1>1. PICK d \in Nat, m \in 0 .. n - 1 : r - 1 = n * d + m /\ d <= r - 1
  <2>1. (r - 1) \div n \in Nat /\ (r - 1) % n \in 0 .. n - 1
    OBVIOUS
  <2>2. r - 1 = n * ((r - 1) \div n) + ((r - 1) % n)
    OBVIOUS
  <2>3. (r - 1) \div n <= r - 1
    OBVIOUS
  <2> QED
    BY <2>1, <2>2, <2>3
<1>2. d + 1 \in 1 .. r /\ (d + 1) - 1 = d
  BY <1>1
<1>3. d * n = n * d /\ d * n \in Nat
  OBVIOUS
<1>4. r \in d * n + 1 .. d * n + n
  BY <1>1, <1>3
<1> QED
  BY <1>2, <1>4

LEMMA LimitType ==
    ASSUME NEW limit \in Int
    PROVE  PageLimit(limit) \in Nat \ {0} /\ PageLimit(limit) <= 100
BY DEF PageLimit

LEMMA SkipIs ==
    ASSUME NEW p \in Nat \ {0}, NEW limit \in Int
    PROVE  /\ getSkip(p, limit) = (p - 1) * PageLimit(limit)
           /\ getSkip(p, limit) \in Nat
<1>1. PageNumber(p) = p /\ p - 1 \in Nat
  BY DEF PageNumber
<1>2. PageLimit(limit) \in Nat
  BY LimitType
<1> QED
  BY <1>1, <1>2 DEF getSkip

LEMMA RowsOfPage ==
    ASSUME jobs \in Seq(JobRow), NEW p \in Nat \ {0}, NEW limit \in Int
    PROVE  /\ FindMany(p, limit) \in SUBSET Published
           /\ IsFiniteSet(FindMany(p, limit))
           /\ Cardinality(FindMany(p, limit)) \in Nat
           /\ Cardinality(FindMany(p, limit)) <= PageLimit(limit)
           /\ Cardinality(FindMany(p, limit)) <= Len(jobs)
<1> DEFINE rows == FindMany(p, limit)
           skip == getSkip(p, limit)
           n == PageLimit(limit)
<1>1. skip \in Nat /\ n \in Nat
  BY SkipIs, LimitType
<1>2. rows \in SUBSET Published /\ \A i \in rows : Rank(i) \in skip + 1 .. skip + n
  BY DEF FindMany
<1>3. IsFiniteSet(rows) /\ Cardinality(rows) <= Cardinality(Published)
  BY <1>2, PublishedFinite, FS_Subset
<1>4. Cardinality(rows) \in Nat
  BY <1>3, FS_CardinalityType
<1>5. PICK f : f = [i \in rows |-> Rank(i)]
  OBVIOUS
<1>6. f \in [rows -> skip + 1 .. skip + n]
  BY <1>2, <1>5
<1>7. ASSUME NEW i \in rows, NEW k \in rows, f[i] = f[k]
      PROVE  i = k
  <2>1. i \in Published /\ k \in Published /\ Rank(i) = Rank(k)
    BY <1>2, <1>5, <1>7
  <2>2. Position(Earlier(Published), Published, i) = Position(Earlier(Published), Published, k)
    BY <2>1, RankIsPosition
  <2> QED
    BY <2>1, <2>2, PublishedFinite, BeforeOrders, PositionDiffers
<1>8. f \in Injection(rows, skip + 1 .. skip + n)
  BY <1>6, <1>7 DEF Injection, IsInjective
<1>9. /\ IsFiniteSet(skip + 1 .. skip + n)
      /\ Cardinality(skip + 1 .. skip + n) <= n
  <2>1. PICK a \in Int, b \in Int : a = skip + 1 /\ b = skip + n
    BY <1>1
  <2>2. IsFiniteSet(a .. b) /\ Cardinality(a .. b) = IF a > b THEN 0 ELSE b - a + 1
    BY FS_Interval
  <2>3. (IF a > b THEN 0 ELSE b - a + 1) <= n
    BY <1>1, <2>1
  <2> QED
    BY <2>1, <2>2, <2>3
<1>10. Cardinality(rows) <= Cardinality(skip + 1 .. skip + n)
  BY <1>8, <1>9, FS_Injection
<1>11. Cardinality(skip + 1 .. skip + n) \in Nat
  BY <1>9, FS_CardinalityType
<1>12. Cardinality(rows) <= n
  BY <1>1, <1>4, <1>9, <1>10, <1>11
<1>13. Cardinality(rows) <= Len(jobs)
  <2>1. Cardinality(Published) \in Nat /\ Cardinality(Published) <= Len(jobs)
    BY PublishedFinite
  <2>2. Len(jobs) \in Nat
    OBVIOUS
  <2> QED
    BY <1>3, <1>4, <2>1, <2>2
<1> QED
  BY <1>2, <1>3, <1>4, <1>12, <1>13

LEMMA PageShape ==
    ASSUME jobs \in Seq(JobRow), NEW p \in Nat \ {0}, NEW limit \in Int
    PROVE  /\ DOMAIN Page(p, limit) = 1 .. Cardinality(FindMany(p, limit))
           /\ Len(Page(p, limit)) = Cardinality(FindMany(p, limit))
           /\ \A n \in DOMAIN Page(p, limit) :
                /\ Page(p, limit)[n] \in FindMany(p, limit)
                /\ Place(FindMany(p, limit), Page(p, limit)[n]) = n
<1>1. PICK rows : rows = FindMany(p, limit)
  OBVIOUS
<1>2. /\ IsFiniteSet(rows) /\ Cardinality(rows) \in Nat
      /\ rows \in SUBSET DOMAIN jobs
  BY <1>1, RowsOfPage, PublishedFinite
<1>3. Page(p, limit) = [n \in 1 .. Cardinality(rows) |->
                           CHOOSE i \in rows : Place(rows, i) = n]
  BY <1>1 DEF Page
<1>4. OrdersStrictly(Sooner(rows), rows)
  BY <1>2, AheadOrders
<1>5. ASSUME NEW n \in 1 .. Cardinality(rows)
      PROVE  /\ Page(p, limit)[n] \in rows
             /\ Place(rows, Page(p, limit)[n]) = n
  <2>1. PICK i \in rows : Position(Sooner(rows), rows, i) = n
    BY <1>2, <1>4, EveryPositionTaken
  <2>2. Place(rows, i) = n
    BY <2>1, PlaceIsPosition
  <2>3. Page(p, limit)[n] = CHOOSE k \in rows : Place(rows, k) = n
    BY <1>3
  <2> QED
    BY <2>2, <2>3
<1>6. DOMAIN Page(p, limit) = 1 .. Cardinality(rows)
  BY <1>3
<1>7. Len(Page(p, limit)) = Cardinality(rows)
  <2>1. Page(p, limit) \in Seq(rows)
    BY <1>2, <1>3, <1>5
  <2> QED
    BY <1>2, <1>6, <2>1
<1> QED
  BY <1>1, <1>5, <1>6, <1>7

\* A row of the page has a place on it, and no other.
LEMMA PlaceOnPage ==
    ASSUME jobs \in Seq(JobRow), NEW p \in Nat \ {0}, NEW limit \in Int,
           NEW i \in FindMany(p, limit)
    PROVE  /\ Place(FindMany(p, limit), i) \in DOMAIN Page(p, limit)
           /\ Place(FindMany(p, limit), i) \in 1 .. Len(jobs)
           /\ Page(p, limit)[Place(FindMany(p, limit), i)] = i
<1>1. PICK rows : rows = FindMany(p, limit)
  OBVIOUS
<1>2. /\ IsFiniteSet(rows) /\ Cardinality(rows) \in Nat
      /\ rows \in SUBSET DOMAIN jobs /\ Cardinality(rows) <= Len(jobs)
  BY <1>1, RowsOfPage, PublishedFinite
<1>3. OrdersStrictly(Sooner(rows), rows)
  BY <1>2, AheadOrders
<1>4. PICK n : n = Place(rows, i)
  OBVIOUS
<1>5. n = Position(Sooner(rows), rows, i) /\ n \in 1 .. Cardinality(rows)
  BY <1>1, <1>2, <1>3, <1>4, PlaceIsPosition, PositionType
<1>6. n \in DOMAIN Page(p, limit)
  BY <1>1, <1>5, PageShape
<1>7. PICK k : k = Page(p, limit)[n]
  OBVIOUS
<1>8. k \in rows /\ Place(rows, k) = n
  BY <1>1, <1>6, <1>7, PageShape
<1>9. Position(Sooner(rows), rows, k) = Position(Sooner(rows), rows, i)
  BY <1>5, <1>8, PlaceIsPosition
<1>10. k = i
  BY <1>1, <1>2, <1>3, <1>8, <1>9, PositionDiffers
<1>11. n \in 1 .. Len(jobs)
  <2>1. Len(jobs) \in Nat
    OBVIOUS
  <2> QED
    BY <1>2, <1>5, <2>1
<1> QED
  BY <1>1, <1>4, <1>6, <1>7, <1>10, <1>11

\* Owners with priority_requests come first.
LEMMA VipsFirst ==
    ASSUME jobs \in Seq(JobRow), NEW p \in Nat \ {0}, NEW limit \in Int,
           NEW n \in DOMAIN Page(p, limit), NEW m \in DOMAIN Page(p, limit),
           Vip(Page(p, limit)[n]), ~Vip(Page(p, limit)[m])
    PROVE  n < m
<1>1. PICK rows, i, k : /\ rows = FindMany(p, limit)
                        /\ i = Page(p, limit)[n] /\ k = Page(p, limit)[m]
  OBVIOUS
<1>2. /\ IsFiniteSet(rows) /\ rows \in SUBSET DOMAIN jobs
  BY <1>1, RowsOfPage, PublishedFinite
<1>3. OrdersStrictly(Sooner(rows), rows)
  BY <1>2, AheadOrders
<1>4. i \in rows /\ k \in rows /\ Place(rows, i) = n /\ Place(rows, k) = m
  BY <1>1, PageShape
<1>5. Ahead(i, k)
  BY <1>1 DEF Ahead
<1>6. <<i, k>> \in Sooner(rows)
  BY <1>4, <1>5 DEF Sooner
<1>7. Position(Sooner(rows), rows, i) < Position(Sooner(rows), rows, k)
  BY <1>2, <1>3, <1>4, <1>6, PositionGrows
<1> QED
  BY <1>4, <1>7, PlaceIsPosition

\* A published job is on one page.
LEMMA OnSomePage ==
    ASSUME jobs \in Seq(JobRow), NEW limit \in Int, NEW i \in Published
    PROVE  \E p \in 1 .. Len(jobs) : i \in FindMany(p, limit)
<1>1. PICK r : r = Rank(i)
  OBVIOUS
<1>2. r \in 1 .. Cardinality(Published)
  BY <1>1, RankIsPosition, PublishedFinite, BeforeOrders, PositionType
<1>3. r \in Nat \ {0} /\ r <= Len(jobs)
  <2>1. /\ Cardinality(Published) \in Nat /\ Cardinality(Published) <= Len(jobs)
        /\ Len(jobs) \in Nat
    BY PublishedFinite
  <2> QED
    BY <1>2, <2>1
<1>4. PageLimit(limit) \in Nat \ {0}
  BY LimitType
<1>5. PICK p \in 1 .. r : r \in (p - 1) * PageLimit(limit) + 1
                                .. (p - 1) * PageLimit(limit) + PageLimit(limit)
  BY <1>3, <1>4, PageOf
<1>6. p \in Nat \ {0} /\ p \in 1 .. Len(jobs)
  <2>1. Len(jobs) \in Nat
    OBVIOUS
  <2> QED
    BY <1>3, <2>1
<1>7. getSkip(p, limit) = (p - 1) * PageLimit(limit)
  BY <1>6, SkipIs
<1>8. Rank(i) \in getSkip(p, limit) + 1 .. getSkip(p, limit) + PageLimit(limit)
  BY <1>1, <1>5, <1>7
<1>9. i \in FindMany(p, limit)
  BY <1>8 DEF FindMany
<1> QED
  BY <1>6, <1>9

LEMMA NotLater ==
    ASSUME jobs \in Seq(JobRow), NEW limit \in Int, NEW i \in Published,
           NEW p \in Nat \ {0}, NEW q \in Nat \ {0},
           i \in FindMany(p, limit), i \in FindMany(q, limit)
    PROVE  ~(p < q)
<1> SUFFICES ASSUME p < q PROVE FALSE
  OBVIOUS
<1>1. PICK r, n, a, b : /\ r = Rank(i) /\ n = PageLimit(limit)
                        /\ a = getSkip(p, limit) /\ b = getSkip(q, limit)
  OBVIOUS
<1>2. n \in Nat /\ a \in Nat /\ b \in Nat
  BY <1>1, LimitType, SkipIs
<1>3. a = (p - 1) * n /\ b = (q - 1) * n
  BY <1>1, SkipIs
<1>4. r \in a + 1 .. a + n /\ r \in b + 1 .. b + n
  BY <1>1 DEF FindMany
<1>5. p * n <= (q - 1) * n
  BY <1>2, PageBefore
<1>6. p * n = (p - 1) * n + n
  BY <1>2
<1>7. a + n <= b
  BY <1>3, <1>5, <1>6
<1> QED
  BY <1>2, <1>4, <1>7

LEMMA OnOnePage ==
    ASSUME jobs \in Seq(JobRow), NEW limit \in Int, NEW i \in Published,
           NEW p \in Nat \ {0}, NEW q \in Nat \ {0},
           i \in FindMany(p, limit), i \in FindMany(q, limit)
    PROVE  p = q
<1>1. ~(p < q) /\ ~(q < p)
  BY NotLater
<1> QED
  BY <1>1

LEMMA ShownOnce ==
    ASSUME jobs \in Seq(JobRow), NEW limit \in Int, NEW i \in Published
    PROVE  \E p \in 1 .. Len(jobs), n \in 1 .. Len(jobs) :
             /\ n \in DOMAIN Page(p, limit) /\ Page(p, limit)[n] = i
             /\ \A q \in Nat \ {0} : \A m \in DOMAIN Page(q, limit) :
                  Page(q, limit)[m] = i => q = p /\ m = n
<1>1. PICK p \in 1 .. Len(jobs) : i \in FindMany(p, limit)
  BY OnSomePage
<1>2. p \in Nat \ {0}
  OBVIOUS
<1>3. PICK n : n = Place(FindMany(p, limit), i)
  OBVIOUS
<1>4. n \in 1 .. Len(jobs) /\ n \in DOMAIN Page(p, limit) /\ Page(p, limit)[n] = i
  BY <1>1, <1>2, <1>3, PlaceOnPage
<1>5. ASSUME NEW q \in Nat \ {0}, NEW m \in DOMAIN Page(q, limit),
             Page(q, limit)[m] = i
      PROVE  q = p /\ m = n
  <2>1. i \in FindMany(q, limit) /\ Place(FindMany(q, limit), i) = m
    BY <1>5, PageShape
  <2>2. q = p
    BY <1>1, <1>2, <2>1, OnOnePage
  <2> QED
    BY <1>3, <2>1, <2>2
<1> QED
  BY <1>4, <1>5

LEMMA PagesPartition ==
    ASSUME TypeOK
    PROVE  PagesAreAPartition
<1>1. jobs \in Seq(JobRow)
  BY DEF TypeOK
<1>2. Len(jobs) \in Nat
  BY <1>1
<1> SUFFICES ASSUME NEW limit \in -1 .. Len(jobs) + 1
             PROVE  LET pages == [page \in 1 .. Len(jobs) + 1 |-> Page(page, limit)]
                        Shown(i, p, n) == n \in DOMAIN pages[p] /\ pages[p][n] = i
                    IN  /\ \A p \in DOMAIN pages :
                             /\ Len(pages[p]) <= PageLimit(limit)
                             /\ \A n \in DOMAIN pages[p] : pages[p][n] \in Published
                             /\ \A n, m \in DOMAIN pages[p] :
                                  Vip(pages[p][n]) /\ ~Vip(pages[p][m]) => n < m
                        /\ \A i \in Published :
                             \E p \in DOMAIN pages, n \in 1 .. Len(jobs) :
                               /\ Shown(i, p, n)
                               /\ \A q \in DOMAIN pages, m \in 1 .. Len(jobs) :
                                    Shown(i, q, m) => q = p /\ m = n
  BY DEF PagesAreAPartition
<1> DEFINE pages == [page \in 1 .. Len(jobs) + 1 |-> Page(page, limit)]
<1>3. limit \in Int
  BY <1>2
<1>4. DOMAIN pages = 1 .. Len(jobs) + 1
  OBVIOUS
<1>5. \A p \in DOMAIN pages : p \in Nat \ {0} /\ pages[p] = Page(p, limit)
  BY <1>2
<1>6. ASSUME NEW p \in DOMAIN pages
      PROVE  /\ Len(pages[p]) <= PageLimit(limit)
             /\ \A n \in DOMAIN pages[p] : pages[p][n] \in Published
             /\ \A n, m \in DOMAIN pages[p] :
                  Vip(pages[p][n]) /\ ~Vip(pages[p][m]) => n < m
  <2>1. p \in Nat \ {0} /\ pages[p] = Page(p, limit)
    BY <1>5
  <2>2. Len(Page(p, limit)) <= PageLimit(limit)
    BY <1>1, <1>3, <2>1, PageShape, RowsOfPage
  <2>3. \A n \in DOMAIN Page(p, limit) : Page(p, limit)[n] \in Published
    BY <1>1, <1>3, <2>1, PageShape, RowsOfPage
  <2>4. \A n, m \in DOMAIN Page(p, limit) :
          Vip(Page(p, limit)[n]) /\ ~Vip(Page(p, limit)[m]) => n < m
    BY <1>1, <1>3, <2>1, VipsFirst
  <2> QED
    BY <2>1, <2>2, <2>3, <2>4
<1>7. ASSUME NEW i \in Published
      PROVE  \E p \in DOMAIN pages, n \in 1 .. Len(jobs) :
               /\ n \in DOMAIN pages[p] /\ pages[p][n] = i
               /\ \A q \in DOMAIN pages, m \in 1 .. Len(jobs) :
                    m \in DOMAIN pages[q] /\ pages[q][m] = i => q = p /\ m = n
  <2>1. PICK p \in 1 .. Len(jobs), n \in 1 .. Len(jobs) :
          /\ n \in DOMAIN Page(p, limit) /\ Page(p, limit)[n] = i
          /\ \A q \in Nat \ {0} : \A m \in DOMAIN Page(q, limit) :
               Page(q, limit)[m] = i => q = p /\ m = n
    BY <1>1, <1>3, ShownOnce
  <2>2. p \in DOMAIN pages
    BY <1>2, <1>4
  <2>3. pages[p] = Page(p, limit)
    BY <1>5, <2>2
  <2>4. \A q \in DOMAIN pages, m \in 1 .. Len(jobs) :
          m \in DOMAIN pages[q] /\ pages[q][m] = i => q = p /\ m = n
    BY <1>5, <2>1
  <2> QED
    BY <2>1, <2>2, <2>3, <2>4
<1> QED
  BY <1>6, <1>7

(***************************************************************************)
(* Whatever the numbers of jobs, their priorities and their owners' packs, *)
(* the pages of the list of jobs, read one after the other, show every     *)
(* published job once, within the limit and priority_requests first.       *)
(***************************************************************************)
THEOREM PagesPartitionJobs == Spec => []PagesAreAPartition
<1> QED
  BY TypeCorrect, PagesPartition, PTL

-----------------------------------------------------------------------------
(***************************************************************************)
(* The safety half of OwnerHears: until the owner was told of a stored     *)
(* application, the request that is about to tell it is under way, and one *)
(* failure drops one application at most, which applying again repairs.    *)
(***************************************************************************)
Pair(k) == <<apps[k].job, apps[k].user>>

Applications == {Pair(k) : k \in DOMAIN apps}

TellingOf(p) == {h \in Handlers : job[h].at = "tell" /\ <<job[h].ref, job[h].user>> = p}

Unheard == {p \in Applications : p \notin told /\ TellingOf(p) = {}}

\* An application is kept from its owner only by a failure, one by each at most.
UnheardByFailure == Cardinality(Unheard) <= faults

LEMMA UnheardFinite ==
    ASSUME TypeOK
    PROVE  IsFiniteSet(Unheard) /\ Cardinality(Unheard) \in Nat
<1>1. PICK n \in Nat : n = Len(apps) /\ DOMAIN apps = 1 .. n
  BY DEF TypeOK
<1>2. IsFiniteSet(1 .. n)
  BY FS_Interval
<1>3. PICK f : f = [k \in 1 .. n |-> Pair(k)]
  OBVIOUS
<1>4. f \in [1 .. n -> Applications] /\ \A p \in Applications : \E k \in 1 .. n : f[k] = p
  BY <1>1, <1>3 DEF Applications
<1>5. f \in Surjection(1 .. n, Applications)
  BY <1>4 DEF Surjection
<1>6. IsFiniteSet(Applications)
  BY <1>2, <1>5, FS_Surjection
<1>7. Unheard \subseteq Applications
  BY DEF Unheard
<1> QED
  BY <1>6, <1>7, FS_Subset, FS_CardinalityType

LEMMA FewerUnheard ==
    ASSUME TypeOK, TypeOK', UnheardByFailure, Unheard' \subseteq Unheard, UNCHANGED faults
    PROVE  UnheardByFailure'
<1>1. IsFiniteSet(Unheard) /\ Cardinality(Unheard) \in Nat
  BY UnheardFinite
<1>2. Cardinality(Unheard') <= Cardinality(Unheard) /\ IsFiniteSet(Unheard')
  BY <1>1, FS_Subset
<1>3. Cardinality(Unheard') \in Nat /\ faults \in Nat
  BY <1>2, FS_CardinalityType DEF TypeOK
<1> QED
  BY <1>1, <1>2, <1>3 DEF UnheardByFailure

\* Request h, which tells no owner, moves on; nobody applies.
LEMMA OthersTell ==
    ASSUME TypeOK, TypeOK', UnheardByFailure, NEW h \in Handlers, job[h].at # "tell",
           \A g \in Handlers \ {h} : job'[g] = job[g], UNCHANGED <<apps, told, faults>>
    PROVE  UnheardByFailure'
<1>1. Applications' = Applications
  BY DEF Applications, Pair
<1>2. ASSUME NEW p, TellingOf(p) # {}
      PROVE  TellingOf(p)' # {}
  BY <1>2 DEF TellingOf
<1> QED
  BY <1>1, <1>2, FewerUnheard DEF Unheard

LEMMA NobodyTells ==
    ASSUME TypeOK, TypeOK', UnheardByFailure, UNCHANGED <<apps, told, job, faults>>
    PROVE  UnheardByFailure'
<1>1. Unheard' = Unheard
  BY DEF Unheard, Applications, Pair, TellingOf
<1> QED
  BY <1>1, FewerUnheard

\* What most steps have in common.
Elsewhere(h) ==
    /\ job[h].at # "tell" /\ UNCHANGED <<apps, told, faults>>
    /\ \E j : job' = [job EXCEPT ![h] = j]

LEMMA ElsewhereTells ==
    ASSUME TypeOK, TypeOK', UnheardByFailure, NEW h \in Handlers,
           Elsewhere(h) \/ UNCHANGED <<apps, told, job, faults>>
    PROVE  UnheardByFailure'
<1>1. CASE Elsewhere(h)
  <2>1. \A g \in Handlers \ {h} : job'[g] = job[g]
    BY <1>1 DEF Elsewhere, TypeOK
  <2> QED
    BY <1>1, <2>1, OthersTell DEF Elsewhere
<1> QED
  BY <1>1, NobodyTells

LEMMA ArriveElsewhere ==
    ASSUME NEW h \in Handlers, Arrive(h) \/ \E u \in Nounus, i \in DOMAIN jobs : ApplyAgain(h, u, i)
    PROVE  Elsewhere(h)
<1>1. ASSUME NEW j, Begin(h, j)
      PROVE  job[h].at # "tell" /\ \E k : job' = [job EXCEPT ![h] = k]
  BY <1>1 DEF Begin, Idle
<1>2. ASSUME NEW u, CreateJob(h, u) \/ Toggle(h, u)
      PROVE  Elsewhere(h)
  BY <1>1, <1>2 DEF CreateJob, Toggle, Elsewhere, table
<1>3. ASSUME NEW u, NEW i, UpdateJob(h, u, i) \/ Apply(h, u, i) \/ ApplyAgain(h, u, i)
      PROVE  Elsewhere(h)
  BY <1>1, <1>3 DEF UpdateJob, Apply, ApplyAgain, ApplyToJob, Elsewhere, table
<1>4. ASSUME NEW i, NEW s, Suspend(h, i, s)
      PROVE  Elsewhere(h)
  BY <1>1, <1>4 DEF Suspend, Elsewhere
<1>5. ASSUME NEW u, NEW c, CreateReview(h, u, c)
      PROVE  Elsewhere(h)
  BY <1>1, <1>5 DEF CreateReview, Elsewhere, table
<1> QED
  BY <1>2, <1>3, <1>4, <1>5 DEF Arrive

LEMMA AdvanceElsewhere ==
    ASSUME NEW h \in Handlers, Advance(h), ~InsertApplication(h), ~TellOwner(h)
    PROVE  Elsewhere(h)
<1>1. CASE InsertJob(h)
  BY <1>1 DEF InsertJob, Elsewhere, ghost
<1>2. CASE AddPreference(h)
  BY <1>2 DEF AddPreference, Elsewhere, Finish, ghost
<1>3. CASE ClearPreferences(h)
  BY <1>3 DEF ClearPreferences, Elsewhere, Goto, ghost
<1>4. CASE TellSuspension(h)
  BY <1>4 DEF TellSuspension, Elsewhere, Finish
<1>5. CASE InsertReview(h)
  BY <1>5 DEF InsertReview, Elsewhere, Finish, Goto
<1>6. CASE Average(h)
  BY <1>6 DEF Average, Elsewhere, table
<1>7. CASE UpdatePoints(h)
  BY <1>7 DEF UpdatePoints, Elsewhere, Goto
<1>8. CASE TellReview(h)
  BY <1>8 DEF TellReview, Elsewhere, Finish, table
<1>9. CASE Like(h) \/ Unlike(h) \/ CountLikes(h)
  BY <1>9 DEF Like, Unlike, CountLikes, Elsewhere, Finish, Goto
<1> QED
  BY <1>1, <1>2, <1>3, <1>4, <1>5, <1>6, <1>7, <1>8, <1>9 DEF Advance

\* The request that stores an application goes on to tell its owner.
LEMMA InsertTells ==
    ASSUME TypeOK, TypeOK', UnheardByFailure, NEW h \in Handlers, InsertApplication(h)
    PROVE  UnheardByFailure'
<1>1. PICK new : new = [job |-> job[h].ref, user |-> job[h].user]
  OBVIOUS
<1>2. PICK n : n = Len(apps) + 1
  OBVIOUS
<1>3. PICK j : j = [job[h] EXCEPT !.at = "tell"]
  OBVIOUS
<1>4. /\ job[h] \in Job /\ job[h].at = "apply" /\ apps' = Append(apps, new)
      /\ job' = [job EXCEPT ![h] = j] /\ UNCHANGED <<told, faults>>
  BY <1>1, <1>3 DEF InsertApplication, TypeOK
<1>5. j.at = "tell" /\ j.ref = job[h].ref /\ j.user = job[h].user
  BY <1>3, <1>4 DEF Job
<1>6. job'[h] = j /\ \A g \in Handlers \ {h} : job'[g] = job[g]
  BY <1>4 DEF TypeOK
<1>7. /\ DOMAIN apps' = DOMAIN apps \cup {n} /\ apps'[n] = new
      /\ \A k \in DOMAIN apps : apps'[k] = apps[k]
  BY <1>2, <1>4 DEF TypeOK
<1>8. PICK p : p = <<new.job, new.user>>
  OBVIOUS
<1>9. Applications' \subseteq Applications \cup {p}
  BY <1>7, <1>8 DEF Applications, Pair
<1>10. TellingOf(p)' # {}
  BY <1>1, <1>5, <1>6, <1>8 DEF TellingOf
<1>11. ASSUME NEW q, TellingOf(q) # {}
       PROVE  TellingOf(q)' # {}
  BY <1>4, <1>6, <1>11 DEF TellingOf
<1> QED
  BY <1>4, <1>9, <1>10, <1>11, FewerUnheard DEF Unheard

LEMMA OwnerTells ==
    ASSUME TypeOK, TypeOK', UnheardByFailure, NEW h \in Handlers, TellOwner(h)
    PROVE  UnheardByFailure'
<1>1. PICK p : p = <<job[h].ref, job[h].user>>
  OBVIOUS
<1>2. told' = told \cup {p} /\ UNCHANGED <<apps, faults>> /\ job' = [job EXCEPT ![h] = NoJob]
  BY <1>1 DEF TellOwner, Finish
<1>3. \A g \in Handlers \ {h} : job'[g] = job[g]
  BY <1>2 DEF TypeOK
<1>4. Applications' = Applications
  BY <1>2 DEF Applications, Pair
<1>5. ASSUME NEW q, q # p, TellingOf(q) # {}
      PROVE  TellingOf(q)' # {}
  BY <1>1, <1>3, <1>5 DEF TellingOf
<1> QED
  BY <1>2, <1>4, <1>5, FewerUnheard DEF Unheard

LEMMA FailTells ==
    ASSUME TypeOK, TypeOK', UnheardByFailure, NEW h \in Handlers, Fail(h)
    PROVE  UnheardByFailure'
<1>1. PICK p : p = <<job[h].ref, job[h].user>>
  OBVIOUS
<1>2. /\ UNCHANGED <<apps, told>> /\ faults' = faults + 1
      /\ job' = [job EXCEPT ![h] = NoJob]
  BY DEF Fail, Finish
<1>3. \A g \in Handlers \ {h} : job'[g] = job[g]
  BY <1>2 DEF TypeOK
<1>4. Applications' = Applications
  BY <1>2 DEF Applications, Pair
<1>5. ASSUME NEW q, q # p, TellingOf(q) # {}
      PROVE  TellingOf(q)' # {}
  BY <1>1, <1>3, <1>5 DEF TellingOf
<1>6. PICK more : more = Unheard \cup {p}
  OBVIOUS
<1>7. Unheard' \subseteq more
  BY <1>2, <1>4, <1>5, <1>6 DEF Unheard
<1>8. IsFiniteSet(Unheard) /\ Cardinality(Unheard) \in Nat
  BY UnheardFinite
<1>9. /\ IsFiniteSet(more)
      /\ Cardinality(more) = IF p \in Unheard THEN Cardinality(Unheard)
                             ELSE Cardinality(Unheard) + 1
  BY <1>6, <1>8, FS_AddElement
<1>10. IsFiniteSet(Unheard') /\ Cardinality(Unheard') <= Cardinality(more)
  BY <1>7, <1>9, FS_Subset
<1>11. /\ Cardinality(Unheard') \in Nat /\ Cardinality(more) \in Nat /\ faults \in Nat
       /\ Cardinality(more) <= Cardinality(Unheard) + 1
  BY <1>8, <1>9, <1>10, FS_CardinalityType DEF TypeOK
<1> QED
  BY <1>2, <1>8, <1>10, <1>11 DEF UnheardByFailure

(***************************************************************************)
(* Without a failure no stored application is kept from the job's owner:   *)
(* it was told, or the request that stored or found it is about to tell;   *)
(* one failed request costs one application at most, for any number of     *)
(* nounus who apply at once (job.usecases.ts:284).                         *)
(***************************************************************************)
THEOREM ApplicationsAreHeard == Spec => []UnheardByFailure
<1>1. Init => UnheardByFailure
  <2> SUFFICES ASSUME Init
               PROVE  UnheardByFailure
    OBVIOUS
  <2>1. Unheard = {}
    BY DEF Init, Unheard, Applications
  <2> QED
    BY <2>1, FS_EmptySet DEF Init, UnheardByFailure
<1>2. TypeOK /\ TypeOK' /\ UnheardByFailure /\ [Next]_vars => UnheardByFailure'
  <2> SUFFICES ASSUME TypeOK, TypeOK', UnheardByFailure, [Next]_vars
               PROVE  UnheardByFailure'
    OBVIOUS
  <2>1. CASE UNCHANGED vars
    BY <2>1, NobodyTells DEF vars, table
  <2>2. CASE Outside
    BY <2>2, NobodyTells DEF Outside, DeleteJob, Prioritize, ChangePack,
                            Others, ghost
  <2>3. ASSUME NEW h \in Handlers,
               \/ Arrive(h) \/ Advance(h) \/ Fail(h)
               \/ \E u \in Nounus, i \in DOMAIN jobs : ApplyAgain(h, u, i)
        PROVE  UnheardByFailure'
    BY <2>3, ArriveElsewhere, AdvanceElsewhere, ElsewhereTells, InsertTells, OwnerTells, FailTells
  <2> QED
    BY <2>1, <2>2, <2>3 DEF Next
<1> QED
  BY <1>1, <1>2, TypeCorrect, PTL DEF Spec

=============================================================================
