----------------------------- MODULE Marketplace ----------------------------
(***************************************************************************)
(* Jobs and applications, reviews and likes: job.usecases.ts,              *)
(* PrismaJobRepository, the administrators' job use cases and the review   *)
(* and like controllers.                                                   *)
(*                                                                         *)
(* Every request is a row written, found or counted by one statement, and  *)
(* then others that depend on it: preferences after the job, a             *)
(* notification after the application, an average after the review.        *)
(***************************************************************************)
EXTENDS Integers, Sequences, FiniteSets

CONSTANTS
    Owners,     \* parents, who publish jobs
    Nounus,     \* nounus, who apply; parents review and like them
    Handlers,   \* requests in flight at once
    Nobody,     \* no user
    Rows,       \* preferences of a form
    MaxJobs, MaxApps, MaxReviews, \* bounds: rows of jobs, applications, reviews
    MaxMoves,   \* bound: requests that the fairness does not ask for
    MaxFaults   \* bound: rejected statements

ASSUME MarketplaceAssumption ==
    /\ Nobody \notin Owners \cup Nounus /\ Owners \cap Nounus = {}
    /\ Rows \in Nat \ {0} /\ MaxJobs \in Nat /\ MaxApps \in Nat /\ MaxReviews \in Nat
    /\ MaxMoves \in Nat /\ MaxFaults \in Nat

VARIABLES
    jobs,    \* the jobs table; a job's id is its index, ids grow with createdAt
    apps,    \* the job_applications table
    told,    \* pairs of a job and a user of the CANDIDATURE notifications sent
    word,    \* word[i]: the decision on job i that the last JOBS notification tells
    reviews, \* the reviews of one nounu
    points,  \* how many reviews the nounu's points average
    like,    \* like[u]: the id of u's like of the nounu, 0 for none
    likes,   \* ids given to likes
    flips,   \* flips[u]: whether an odd number of toggles by u was answered, or
             \* failed at the count that comes before the answer
    vips,    \* owners whose pack has priority_requests
    job,     \* job[h]: what handler h is executing
    torn,    \* ghost: jobs whose preferences were written by two requests at
             \* once or by one that failed half way
    crossed, \* ghost: Points or a job of which something older replaced
             \* something newer, and nothing up to date came since
    failed,  \* ghost: what a failed request left undone
    moves, faults

table == <<jobs, apps, told, word, reviews, points, like, likes, flips, vips>>
ghost == <<torn, crossed, failed>>
vars == <<table, job, ghost, moves, faults>>

Users == Owners \cup Nounus

Points == 0   \* stands for the nounu's points among the ids of the jobs

Steps == {"idle", "row", "clear", "prefs", "apply", "tell", "word",
          "review", "average", "points", "reviewed", "like", "unlike", "count"}

\* decisions: how many times an administrator suspended or reactivated it.
JobRow == [owner : Owners, deleted : BOOLEAN, suspended : BOOLEAN, priority : Nat,
           prefs : Nat, decisions : Nat]

Application == [job : Nat, user : Nounus]

\* Anyone may review; contract: the contract named (1), or none (0).
Review == [by : Users, contract : 0 .. 1]

\* ref: the job, the contract reviewed, or the like found.
\* n: preferences left, the decision, the average, the rows seen.
Job == [at : Steps, user : Users \cup {Nobody}, ref : Nat, n : Nat]

NoJob == [at |-> "idle", user |-> Nobody, ref |-> 0, n |-> 0]

Init ==
    /\ jobs = <<>> /\ apps = <<>> /\ told = {} /\ word = <<>>
    /\ reviews = <<>> /\ points = 0
    /\ like = [u \in Users |-> 0] /\ likes = 0 /\ flips = [u \in Users |-> FALSE]
    /\ vips = {}
    /\ job = [h \in Handlers |-> NoJob]
    /\ torn = {} /\ crossed = {} /\ failed = {}
    /\ moves = 0 /\ faults = 0

-----------------------------------------------------------------------------
Idle(h) == job[h].at = "idle"

Begin(h, j) == Idle(h) /\ job' = [job EXCEPT ![h] = j]

Goto(h, step) == job' = [job EXCEPT ![h].at = step]

Finish(h) == job' = [job EXCEPT ![h] = NoJob]

Move == moves < MaxMoves /\ moves' = moves + 1

At(step) == {h \in Handlers : job[h].at = step}

-----------------------------------------------------------------------------
(* Jobs and their preferences.                                             *)

Writing(i) == {h \in Handlers : job[h].ref = i /\ job[h].at \in {"clear", "prefs"}}

CreateJob(h, u) ==
    /\ Move
    /\ Len(jobs) + Cardinality(At("row")) < MaxJobs
    /\ Begin(h, [NoJob EXCEPT !.at = "row", !.user = u])
    /\ UNCHANGED <<table, ghost, faults>>

\* The job is published at once, its preferences follow.
InsertJob(h) ==
    /\ job[h].at = "row"
    /\ jobs' = Append(jobs, [owner |-> job[h].user, deleted |-> FALSE, suspended |-> FALSE,
                             priority |-> 0, prefs |-> 0, decisions |-> 0])
    /\ word' = Append(word, 0)
    /\ job' = [job EXCEPT ![h] = [at |-> "prefs", user |-> Nobody, ref |-> Len(jobs) + 1,
                                  n |-> Rows]]
    /\ UNCHANGED <<apps, told, reviews, points, like, likes, flips, vips,
                   ghost, moves, faults>>

\* Mutant: the last preference is forgotten.
BugAddPreference(h) ==
    LET j == job[h] IN
    /\ j.at = "prefs"
    /\ jobs' = IF j.n = 1 THEN jobs ELSE [jobs EXCEPT ![j.ref].prefs = @ + 1]
    /\ IF j.n = 1 THEN Finish(h) ELSE job' = [job EXCEPT ![h].n = @ - 1]
    /\ UNCHANGED <<apps, told, word, reviews, points, like, likes, flips, vips,
                   ghost, moves, faults>>

\* One turn of the loop of createPreferences and replacePreferences.
AddPreference(h) ==
    LET j == job[h] IN
    /\ j.at = "prefs"
    /\ jobs' = [jobs EXCEPT ![j.ref].prefs = @ + 1]
    /\ IF j.n = 1 THEN Finish(h) ELSE job' = [job EXCEPT ![h].n = @ - 1]
    /\ UNCHANGED <<apps, told, word, reviews, points, like, likes, flips, vips,
                   ghost, moves, faults>>

\* The owner's job, deleted and suspended ones included; the fields, then
\* the preferences.
UpdateJob(h, u, i) ==
    /\ Move
    /\ i \in DOMAIN jobs /\ jobs[i].owner = u
    /\ Begin(h, [NoJob EXCEPT !.at = "clear", !.ref = i, !.n = Rows])
    /\ torn' = IF Writing(i) = {} THEN torn ELSE torn \cup {i}
    /\ UNCHANGED <<table, crossed, failed, faults>>

ClearPreferences(h) ==
    /\ job[h].at = "clear"
    /\ jobs' = [jobs EXCEPT ![job[h].ref].prefs = 0]
    /\ Goto(h, "prefs")
    /\ UNCHANGED <<apps, told, word, reviews, points, like, likes, flips, vips,
                   ghost, moves, faults>>

Others == <<apps, told, word, reviews, points, like, likes, flips, job, ghost, faults>>

DeleteJob(u, i) ==
    /\ Move /\ i \in DOMAIN jobs /\ jobs[i].owner = u
    /\ jobs' = [jobs EXCEPT ![i].deleted = TRUE]
    /\ UNCHANGED <<vips, Others>>

Prioritize(i, p) ==
    /\ Move /\ i \in DOMAIN jobs
    /\ jobs' = [jobs EXCEPT ![i].priority = p]
    /\ UNCHANGED <<vips, Others>>

\* A subscription to a pack with priority_requests starts or ends.
ChangePack(u) ==
    /\ Move
    /\ vips' = IF u \in vips THEN vips \ {u} ELSE vips \cup {u}
    /\ UNCHANGED <<jobs, Others>>

(***************************************************************************)
(* SuspendJob: the row, then the notification, which tells the decision of *)
(* its own request.                                                        *)
(***************************************************************************)
Suspend(h, i, suspended) ==
    /\ Move /\ i \in DOMAIN jobs
    /\ jobs' = [jobs EXCEPT ![i].suspended = suspended, ![i].decisions = @ + 1]
    /\ Begin(h, [NoJob EXCEPT !.at = "word", !.ref = i, !.n = jobs[i].decisions + 1])
    /\ UNCHANGED <<apps, told, word, reviews, points, like, likes, flips, vips,
                   ghost, faults>>

\* Mutant: an owner who knows of a decision is not told the next one.
BugTellSuspension(h) ==
    LET j == job[h] IN
    /\ j.at = "word"
    /\ word' = [word EXCEPT ![j.ref] = IF @ = 0 THEN j.n ELSE @]
    /\ crossed' = IF word[j.ref] > j.n THEN crossed \cup {j.ref}
                  ELSE IF j.n = jobs[j.ref].decisions THEN crossed \ {j.ref} ELSE crossed
    /\ Finish(h)
    /\ UNCHANGED <<jobs, apps, told, reviews, points, like, likes, flips, vips,
                   torn, failed, moves, faults>>

TellSuspension(h) ==
    LET j == job[h] IN
    /\ j.at = "word"
    /\ word' = [word EXCEPT ![j.ref] = j.n]
    /\ crossed' = IF word[j.ref] > j.n THEN crossed \cup {j.ref}
                  ELSE IF j.n = jobs[j.ref].decisions THEN crossed \ {j.ref} ELSE crossed
    /\ Finish(h)
    /\ UNCHANGED <<jobs, apps, told, reviews, points, like, likes, flips, vips,
                   torn, failed, moves, faults>>

-----------------------------------------------------------------------------
(* The list of jobs.                                                       *)

PageNumber(page) == IF page < 1 THEN 1 ELSE page

\* No limit, or 0, means 10.
PageLimit(limit) ==
    IF limit = 0 THEN 10 ELSE IF limit < 1 THEN 1 ELSE IF limit > 100 THEN 100 ELSE limit

\* Mutant: pages are numbered from 0.
BugGetSkip(page, limit) == PageNumber(page) * PageLimit(limit)

getSkip(page, limit) == (PageNumber(page) - 1) * PageLimit(limit)

Published == {i \in DOMAIN jobs : ~jobs[i].deleted /\ ~jobs[i].suspended}

\* orderBy priority, then createdAt, both descending.
Before(i, k) ==
    \/ jobs[i].priority > jobs[k].priority
    \/ jobs[i].priority = jobs[k].priority /\ i > k

Rank(i) == 1 + Cardinality({k \in Published : Before(k, i)})

Vip(i) == jobs[i].owner \in vips

\* skip and take.
FindMany(page, limit) ==
    LET skip == getSkip(page, limit)
    IN  {i \in Published : Rank(i) \in skip + 1 .. skip + PageLimit(limit)}

\* The page is sorted again: the owners with priority_requests come first.
Ahead(k, i) ==
    \/ Vip(k) /\ ~Vip(i)
    \/ (Vip(k) <=> Vip(i)) /\ Before(k, i)

Place(rows, i) == 1 + Cardinality({k \in rows : Ahead(k, i)})

Page(page, limit) ==
    LET rows == FindMany(page, limit)
    IN  [n \in 1 .. Cardinality(rows) |-> CHOOSE i \in rows : Place(rows, i) = n]

-----------------------------------------------------------------------------
(* Applications.                                                           *)

Applied(u, i) == \E k \in DOMAIN apps : apps[k].job = i /\ apps[k].user = u

\* Mutant: an existing application is answered without a notification.
BugApplyToJob(h, u, i) ==
    /\ i \in DOMAIN jobs /\ jobs[i].owner # u
    /\ IF Applied(u, i) THEN Idle(h) /\ UNCHANGED job
       ELSE Begin(h, [at |-> "apply", user |-> u, ref |-> i, n |-> 0])
    /\ UNCHANGED <<table, ghost, faults>>

\* The job is another's, deleted and suspended ones included; an existing
\* application is found and the owner notified again.
ApplyToJob(h, u, i) ==
    /\ i \in DOMAIN jobs /\ jobs[i].owner # u
    /\ Begin(h, IF Applied(u, i) THEN [at |-> "tell", user |-> u, ref |-> i, n |-> 0]
                ELSE [at |-> "apply", user |-> u, ref |-> i, n |-> 0])
    /\ UNCHANGED <<table, ghost, faults>>

Apply(h, u, i) ==
    /\ Move /\ Len(apps) + Cardinality(At("apply")) < MaxApps
    /\ ApplyToJob(h, u, i)

InsertApplication(h) ==
    LET j == job[h] IN
    /\ j.at = "apply"
    /\ apps' = Append(apps, [job |-> j.ref, user |-> j.user])
    /\ job' = [job EXCEPT ![h].at = "tell"]
    /\ UNCHANGED <<jobs, told, word, reviews, points, like, likes, flips, vips,
                   ghost, moves, faults>>

TellOwner(h) ==
    LET j == job[h] IN
    /\ j.at = "tell"
    /\ told' = told \cup {<<j.ref, j.user>>}
    /\ Finish(h)
    /\ UNCHANGED <<jobs, apps, word, reviews, points, like, likes, flips, vips,
                   ghost, moves, faults>>

-----------------------------------------------------------------------------
(* Reviews of one nounu.                                                   *)

Reviewed(u, c) == c # 0 /\ \E k \in DOMAIN reviews : reviews[k] = [by |-> u, contract |-> c]

\* Any user reviews, a contract once, and as often without a contract as it
\* likes; whether the contract is the user's is not looked up.
CreateReview(h, u, c) ==
    /\ Move /\ Len(reviews) + Cardinality(At("review")) < MaxReviews
    /\ ~Reviewed(u, c)
    /\ Begin(h, [NoJob EXCEPT !.at = "review", !.user = u, !.ref = c])
    /\ UNCHANGED <<table, ghost, faults>>

\* reviewerId and contractId are unique together, unless the contract is null.
InsertReview(h) ==
    LET j == job[h] IN
    /\ j.at = "review"
    /\ IF Reviewed(j.user, j.ref) THEN Finish(h) /\ UNCHANGED reviews
       ELSE /\ reviews' = Append(reviews, [by |-> j.user, contract |-> j.ref])
            /\ Goto(h, "average")
    /\ UNCHANGED <<jobs, apps, told, word, points, like, likes, flips, vips,
                   ghost, moves, faults>>

\* aggregate
Average(h) ==
    /\ job[h].at = "average"
    /\ job' = [job EXCEPT ![h].at = "points", ![h].n = Len(reviews)]
    /\ UNCHANGED <<table, ghost, moves, faults>>

\* Mutant: the average is that of the reviews before this one.
BugUpdatePoints(h) ==
    /\ job[h].at = "points"
    /\ points' = job[h].n - 1
    /\ crossed' = IF points > job[h].n THEN crossed \cup {Points}
                  ELSE IF job[h].n = Len(reviews) THEN crossed \ {Points} ELSE crossed
    /\ Goto(h, "reviewed")
    /\ UNCHANGED <<jobs, apps, told, word, reviews, like, likes, flips, vips,
                   torn, failed, moves, faults>>

\* The average read is stored, whatever was reviewed since.
UpdatePoints(h) ==
    /\ job[h].at = "points"
    /\ points' = job[h].n
    /\ crossed' = IF points > job[h].n THEN crossed \cup {Points}
                  ELSE IF job[h].n = Len(reviews) THEN crossed \ {Points} ELSE crossed
    /\ Goto(h, "reviewed")
    /\ UNCHANGED <<jobs, apps, told, word, reviews, like, likes, flips, vips,
                   torn, failed, moves, faults>>

\* The REVIEW notification, and the answer.
TellReview(h) ==
    /\ job[h].at = "reviewed"
    /\ Finish(h)
    /\ UNCHANGED <<table, ghost, moves, faults>>

-----------------------------------------------------------------------------
(* Likes.                                                                  *)

\* toggle: the like found is deleted by its id, or one is created.
Toggle(h, u) ==
    /\ Move
    /\ Begin(h, [NoJob EXCEPT !.at = IF like[u] = 0 THEN "like" ELSE "unlike",
                              !.user = u, !.ref = like[u]])
    /\ UNCHANGED <<table, ghost, faults>>

Counting(u) == {h \in Handlers : job[h].at = "count" /\ job[h].user = u}

\* userId and nounuId are unique together: a second create is an error.
Like(h) ==
    LET u == job[h].user IN
    /\ job[h].at = "like"
    /\ IF like[u] # 0 THEN Finish(h) /\ UNCHANGED <<like, likes>>
       ELSE /\ likes' = likes + 1 /\ like' = [like EXCEPT ![u] = likes + 1]
            /\ Goto(h, "count")
    /\ UNCHANGED <<jobs, apps, told, word, reviews, points, flips, vips, ghost, moves, faults>>

\* Mutant: deleteMany by user and nounu, which is never an error.
BugUnlike(h) ==
    /\ job[h].at = "unlike"
    /\ like' = [like EXCEPT ![job[h].user] = 0] /\ Goto(h, "count")
    /\ UNCHANGED <<jobs, apps, told, word, reviews, points, likes, flips, vips, ghost,
                   moves, faults>>

\* Deleting a row that is gone is an error.
Unlike(h) ==
    LET u == job[h].user IN
    /\ job[h].at = "unlike"
    /\ IF like[u] # job[h].ref THEN Finish(h) /\ UNCHANGED like
       ELSE like' = [like EXCEPT ![u] = 0] /\ Goto(h, "count")
    /\ UNCHANGED <<jobs, apps, told, word, reviews, points, likes, flips, vips, ghost,
                   moves, faults>>

Flip(h) == flips' = [flips EXCEPT ![job[h].user] = ~@]

\* likeCount, and the answer.
CountLikes(h) ==
    /\ job[h].at = "count"
    /\ Flip(h)
    /\ Finish(h)
    /\ UNCHANGED <<jobs, apps, told, word, reviews, points, like, likes, vips, ghost,
                   moves, faults>>

-----------------------------------------------------------------------------
(* Failures and fairness.                                                  *)

\* A statement is rejected: what the request has written stays.
Fail(h) ==
    LET j == job[h] IN
    /\ ~Idle(h) /\ faults < MaxFaults /\ faults' = faults + 1
    /\ torn' = IF j.at \in {"clear", "prefs"} THEN torn \cup {j.ref} ELSE torn
    /\ failed' = failed \cup
         CASE j.at = "word" -> {j.ref}
           [] j.at \in {"average", "points"} -> {Points}
           [] OTHER -> {}
    /\ IF j.at = "count" THEN Flip(h) ELSE UNCHANGED flips
    /\ Finish(h)
    /\ UNCHANGED <<jobs, apps, told, word, reviews, points, like, likes, vips, crossed, moves>>

\* A nounu who is not sure that the owner was told applies again.
ApplyAgain(h, u, i) ==
    /\ Applied(u, i) /\ <<i, u>> \notin told
    /\ ApplyToJob(h, u, i)
    /\ UNCHANGED moves

Advance(h) ==
    \/ InsertJob(h) \/ AddPreference(h) \/ ClearPreferences(h) \/ TellSuspension(h)
    \/ InsertApplication(h) \/ TellOwner(h)
    \/ InsertReview(h) \/ Average(h) \/ UpdatePoints(h) \/ TellReview(h)
    \/ Like(h) \/ Unlike(h) \/ CountLikes(h)

Arrive(h) ==
    \/ \E u \in Owners : CreateJob(h, u)
    \/ \E u \in Users : Toggle(h, u)
    \/ \E i \in DOMAIN jobs : \/ \E u \in Owners : UpdateJob(h, u, i)
                              \/ \E s \in BOOLEAN : Suspend(h, i, s)
                              \/ \E u \in Nounus : Apply(h, u, i)
    \/ \E u \in Users, c \in 0 .. 1 : CreateReview(h, u, c)

Outside ==
    \/ \E i \in DOMAIN jobs : (\E u \in Owners : DeleteJob(u, i)) \/ Prioritize(i, 1)
    \/ \E u \in Owners : ChangePack(u)

Next ==
    \/ Outside
    \/ \E h \in Handlers : \/ Arrive(h) \/ Advance(h) \/ Fail(h)
                           \/ \E u \in Nounus, i \in DOMAIN jobs : ApplyAgain(h, u, i)

Spec == Init /\ [][Next]_vars

\* Requests run to their end; an application is repeated while it is needed.
FairSpec ==
    /\ Spec
    /\ \A h \in Handlers : WF_vars(Advance(h))
    /\ WF_vars(\E h \in Handlers, u \in Nounus, i \in DOMAIN jobs : ApplyAgain(h, u, i))

-----------------------------------------------------------------------------
(* Properties.                                                             *)

TypeOK ==
    /\ jobs \in Seq(JobRow) /\ apps \in Seq(Application)
    /\ told \subseteq (DOMAIN jobs) \X Nounus
    /\ word \in Seq(Nat) /\ DOMAIN word = DOMAIN jobs
    /\ reviews \in Seq(Review) /\ points \in 0 .. Len(reviews)
    /\ likes \in Nat /\ like \in [Users -> 0 .. likes] /\ flips \in [Users -> BOOLEAN]
    /\ vips \subseteq Owners
    /\ job \in [Handlers -> Job]
    /\ torn \subseteq DOMAIN jobs
    /\ crossed \cup failed \subseteq (DOMAIN jobs) \cup {Points}
    /\ moves \in Nat /\ faults \in Nat

(***************************************************************************)
(* A job that nobody is writing has the preferences of one form, unless    *)
(* two requests wrote them at once or one failed half way: a job is        *)
(* published before its preferences exist (job.usecases.ts:37).            *)
(***************************************************************************)
JobsAreWhole ==
    \A i \in DOMAIN jobs \ torn : Writing(i) = {} => jobs[i].prefs = Rows

(***************************************************************************)
(* Reading all the pages of an unchanging list shows every published job,  *)
(* at one place of one page, and no other; a page never exceeds its limit, *)
(* and has no job of an owner without priority_requests before one of an   *)
(* owner with it: the page is cut from one order and sorted by another     *)
(* (job-chat-notification.repository.ts:69).                               *)
(***************************************************************************)
PagesAreAPartition ==
    \A limit \in -1 .. Len(jobs) + 1 :
        LET pages == [page \in 1 .. Len(jobs) + 1 |-> Page(page, limit)]
            Shown(i, p, n) == n \in DOMAIN pages[p] /\ pages[p][n] = i
        IN  /\ \A p \in DOMAIN pages :
                 /\ Len(pages[p]) <= PageLimit(limit)
                 /\ \A n \in DOMAIN pages[p] : pages[p][n] \in Published
                 /\ \A n, m \in DOMAIN pages[p] :
                      Vip(pages[p][n]) /\ ~Vip(pages[p][m]) => n < m
            /\ \A i \in Published : \E p \in DOMAIN pages, n \in 1 .. Len(jobs) :
                 /\ Shown(i, p, n)
                 /\ \A q \in DOMAIN pages, m \in 1 .. Len(jobs) :
                      Shown(i, q, m) => q = p /\ m = n

(***************************************************************************)
(* When nobody is deciding, the last notification about a job tells the    *)
(* last decision, unless a request stored the row and could not notify, or *)
(* several did and an older notification came after a newer one            *)
(* (admin.usecases.ts:371).                                                *)
(***************************************************************************)
OwnerKnowsTheDecision ==
    \A i \in DOMAIN jobs \ (crossed \cup failed) :
        (\A h \in At("word") : job[h].ref # i) => word[i] = jobs[i].decisions

(***************************************************************************)
(* When no review is being stored, the nounu's points average all the      *)
(* reviews, whoever wrote them, unless a request failed before it updated  *)
(* the points or stored an average older than the one it replaced, and     *)
(* no request stored an up to date one since (review.controller.ts:50).    *)
(***************************************************************************)
PointsAverageTheReviews ==
    Points \notin crossed \cup failed /\ At("average") \cup At("points") = {}
    => points = Len(reviews)

(***************************************************************************)
(* A like is there exactly if an odd number of toggles changed it: those   *)
(* that were answered, those about to count the likes, and those that      *)
(* failed there, whose user sees an error and a changed like.  Of two      *)
(* toggles at once that found the same state, one is an error and changes  *)
(* nothing (like.controller.ts:21).                                        *)
(***************************************************************************)
TogglesAreCounted ==
    \A u \in Users : like[u] # 0 <=> (flips[u] # (Cardinality(Counting(u)) % 2 = 1))

(***************************************************************************)
(* The owner of a job hears of every application in the end, although the  *)
(* request that stored it may fail before it notifies: applying again      *)
(* finds the application and notifies all the same.                        *)
(***************************************************************************)
OwnerHears ==
    \A u \in Nounus, i \in 1 .. MaxJobs :
        i \in DOMAIN jobs /\ Applied(u, i) ~> <<i, u>> \in told

=============================================================================
