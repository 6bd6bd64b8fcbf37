--------------------------- MODULE Administration ---------------------------
(***************************************************************************)
(* The administrators' own data: settings, parameters, permissions and     *)
(* roles, sub-administrators and the decisions about a nounu               *)
(* (admin.usecases.ts, guarded by RolesGuard and PermissionsGuard), while  *)
(* the scripts of Seeds write the same rows.                               *)
(*                                                                         *)
(* A request is let in by the guards, and then runs its statements, which  *)
(* are not a transaction: another request, a script or a failure may come  *)
(* between two of them.                                                    *)
(***************************************************************************)
EXTENDS Seeds

CONSTANTS Handlers,  \* requests that run at the same time
          MaxMoves   \* bound: requests let in

ASSUME AdministrationAssumption == MaxMoves \in Nat /\ "write" \in DemoPerms

VARIABLES
    decided,  \* decisions about the nounu: certif, restricted
    word,     \* the decision that its last notification tells
    excused,  \* ghost: the two differ by a race, a failure or a silent route
    asked,    \* ghost: grants asked for the sub-administrator, not removed
    cut,      \* ghost: its creation stopped half way
    job,      \* job[h]: what handler h is doing
    moves

requestVars == <<decided, word, excused, asked, cut, job, moves>>

vars == <<table, grants, roleOf, faults, seedVars, requestVars>>

Job == [at : {"idle", "settings", "assign", "word"}, role : Nat, want : SUBSET Perms, n : Nat]

NoJob == [at |-> "idle", role |-> 0, want |-> {}, n |-> 0]

Init ==
    /\ SeedInit
    /\ decided = 0 /\ word = 0 /\ excused = FALSE /\ asked = {} /\ cut = FALSE
    /\ job = [h \in Handlers |-> NoJob]
    /\ moves = 0

-----------------------------------------------------------------------------
(* RolesGuard and PermissionsGuard: the role's slug is 'admin' whatever    *)
(* its row, and the permissions are those of the row the account refers to.*)

canActivate(a, p) == roleOf[a] # 0 /\ <<roleOf[a], p>> \in grants

\* Every writing route asks for settings.write or nounus.certify, "write".
LetIn(h) ==
    /\ job[h] = NoJob /\ moves < MaxMoves
    /\ \E a \in Admins : canActivate(a, "write")
    /\ moves' = moves + 1

Begin(h, j) == job' = [job EXCEPT ![h] = j]
Finish(h) == job' = [job EXCEPT ![h] = NoJob]

-----------------------------------------------------------------------------
(* Settings and parameters.                                                *)

\* updateSettings: findFirst, then update or create.
UpdateSettings(h) ==
    /\ LetIn(h)
    /\ IF Found("settings") THEN UNCHANGED job
       ELSE Begin(h, [NoJob EXCEPT !.at = "settings"])
    /\ UNCHANGED <<table, grants, roleOf, faults, seedVars, decided, word, excused, asked, cut>>

CreateSettings(h) ==
    /\ job[h].at = "settings"
    /\ AddRow("settings")
    /\ Finish(h)
    /\ UNCHANGED <<grants, roleOf, faults, seedVars, decided, word, excused, asked, cut, moves>>

\* No search: a slug may be used again.
CreateParameter(h) ==
    /\ LetIn(h)
    /\ AddRow("role")
    /\ UNCHANGED <<grants, roleOf, faults, seedVars, decided, word, excused, asked, cut, job>>

DeleteParameter(h) ==
    /\ LetIn(h)
    /\ \E r \in DOMAIN table["role"] :
         table' = [table EXCEPT !["role"][r].gone = TRUE]
    /\ UNCHANGED <<grants, roleOf, faults, seedVars, decided, word, excused, asked, cut, job>>

-----------------------------------------------------------------------------
(* Roles and sub-administrators.                                           *)

\* The foreign key.
Known == {p \in Perms : Found(p)}

\* The primary key refuses a second time.
AssignPermissionToRole(h) ==
    /\ LetIn(h)
    /\ \E r \in DOMAIN table["role"], p \in Known : grants' = grants \cup {<<r, p>>}
    /\ UNCHANGED <<table, roleOf, faults, seedVars, decided, word, excused, asked, cut, job>>

RemovePermissionFromRole(h) ==
    /\ LetIn(h)
    /\ \E g \in grants : grants' = grants \ {g} /\ asked' = asked \ {g}
    /\ script' = [s \in Scripts |-> [script[s] EXCEPT !.clean = FALSE]]
    /\ UNCHANGED <<table, roleOf, faults, prefs, seeded, torn, starts, decided, word, excused, cut, job>>

\* The account, whose address is unique; then its role's permissions.
CreateSubAdmin(h) ==
    /\ LetIn(h) /\ roleOf["sub"] = 0
    /\ \E r \in DOMAIN table["role"], want \in SUBSET Known :
         /\ roleOf' = [roleOf EXCEPT !["sub"] = r]
         /\ asked' = {r} \X want
         /\ IF want = {} THEN UNCHANGED job
            ELSE Begin(h, [NoJob EXCEPT !.at = "assign", !.role = r, !.want = want])
    /\ UNCHANGED <<table, grants, faults, seedVars, decided, word, excused, cut>>

\* Mutant: a permission that the role has already refuses them all.
BugAssignPermissionsBulk(h) ==
    LET new == {job[h].role} \X job[h].want IN
    /\ job[h].at = "assign"
    /\ grants' = IF new \cap grants = {} THEN grants \cup new ELSE grants
    /\ Finish(h)
    /\ UNCHANGED <<table, roleOf, faults, seedVars, decided, word, excused, asked, cut, moves>>

\* skipDuplicates.
assignPermissionsBulk(h) ==
    /\ job[h].at = "assign"
    /\ grants' = grants \cup ({job[h].role} \X job[h].want)
    /\ Finish(h)
    /\ UNCHANGED <<table, roleOf, faults, seedVars, decided, word, excused, asked, cut, moves>>

-----------------------------------------------------------------------------
(* Decisions about a nounu: certified or not, restricted or not.           *)

\* Mutant: RestrictNounu and CertifyNounu save, and notify nobody.
BugDecide(h) ==
    /\ LetIn(h)
    /\ decided' = decided + 1
    /\ UNCHANGED <<table, grants, roleOf, faults, seedVars, word, excused, asked, cut, job>>

Decide(h) ==
    /\ LetIn(h)
    /\ decided' = decided + 1
    /\ Begin(h, [NoJob EXCEPT !.at = "word", !.n = decided + 1])
    /\ UNCHANGED <<table, grants, roleOf, faults, seedVars, word, excused, asked, cut>>

TellDecision(h) ==
    /\ job[h].at = "word"
    /\ excused' = (word > job[h].n \/ (excused /\ job[h].n # decided))
    /\ word' = job[h].n
    /\ Finish(h)
    /\ UNCHANGED <<table, grants, roleOf, faults, seedVars, decided, asked, cut, moves>>

\* nounu.controller approves and rejects, for any administrator, without a
\* notification, and so does a nounu's own PUT, which takes the certification
\* back to 'Pending'.
DecideSilently ==
    /\ moves < MaxMoves /\ moves' = moves + 1
    /\ decided' = decided + 1 /\ excused' = TRUE
    /\ UNCHANGED <<table, grants, roleOf, faults, seedVars, word, asked, cut, job>>

-----------------------------------------------------------------------------
Fail(h) ==
    /\ job[h] # NoJob /\ faults < MaxFaults /\ faults' = faults + 1
    /\ excused' = (excused \/ job[h].at = "word")
    /\ cut' = (cut \/ job[h].at = "assign")
    /\ Finish(h)
    /\ UNCHANGED <<table, grants, roleOf, seedVars, decided, word, asked, moves>>

Request(h) ==
    \/ UpdateSettings(h) \/ CreateParameter(h) \/ DeleteParameter(h)
    \/ AssignPermissionToRole(h) \/ RemovePermissionFromRole(h) \/ CreateSubAdmin(h)
    \/ Decide(h)

Advance(h) == CreateSettings(h) \/ assignPermissionsBulk(h) \/ TellDecision(h)

Next ==
    \/ SeedNext /\ UNCHANGED requestVars
    \/ DecideSilently
    \/ \E h \in Handlers : Request(h) \/ Advance(h) \/ Fail(h)

Spec == Init /\ [][Next]_vars

-----------------------------------------------------------------------------
(* Correctness.                                                            *)

References == (DOMAIN table["role"]) \X {p \in Perms : table[p] # <<>>}

\* Rows, grants, scripts and requests have the shape of the schema, and a
\* role given to an account or a permission is a row (foreign keys).
TypeOK ==
    /\ table \in [Keys -> Seq(Entry)]
    /\ grants \subseteq References
    /\ roleOf \in [Admins -> {0} \cup DOMAIN table["role"]]
    /\ prefs \in Nat /\ seeded \in BOOLEAN /\ torn \in BOOLEAN
    /\ script \in [Scripts -> Script]
    /\ starts \in 0 .. MaxStarts /\ faults \in 0 .. MaxFaults /\ moves \in 0 .. MaxMoves
    /\ decided \in 0 .. MaxMoves /\ word \in 0 .. decided
    /\ excused \in BOOLEAN /\ cut \in BOOLEAN
    /\ asked \subseteq References
    /\ job \in [Handlers -> Job]

\* Once seed-config has run to its end, running it again adds no row, whole
\* or stopped half way, whatever other scripts inserted and administrators
\* deleted or added meanwhile: it looks for every row that it writes, among
\* the deleted ones too (seed-config.ts:13).  The other scripts are not so:
\* seed.ts inserts its settings and demonstration rows each time it runs.
RepeatAddsNothing ==
    [][\A s \in Scripts :
         script[s].plan = "config" /\ script[s].again /\ script'[s] # script[s]
         => table' = table]_vars

\* A seeded nounu has each of its preferences once, however often it was
\* seeded, unless a script stopped or two crossed between the deletion and
\* the last insertion.
PrefsAreWhole ==
    ~torn /\ (\A s \in Scripts : ~WritesPrefs(s)) => prefs = Prefs

\* A sub-administrator has the permissions it was created with, whatever
\* the scripts granted meanwhile, unless an administrator took one away or
\* the creation failed half way (its address then refuses another try).
SubAdminIsAuthorised ==
    ~cut /\ (\A h \in Handlers : job[h].at # "assign") => asked \subseteq grants

\* The nounu's last notification tells the decision in force, unless two
\* decisions crossed, a request failed or a silent route was used.
NounuKnowsTheDecision ==
    ~excused /\ (\A h \in Handlers : job[h].at # "word") => word = decided

\* seed-config, run to its end while no permission is taken away, lets the
\* administrator in everywhere (some rows may be there already, written by
\* another script or by an unfinished run), if there is one role 'admin'.
SeedOpensTheDoor ==
    [][\A s \in Scripts :
         /\ script[s].plan = "config" /\ script[s].clean /\ script'[s].plan = "done"
         /\ Len(table["role"]) = 1 /\ roleOf["root"] # 0
         => \A p \in Perms : canActivate("root", p)']_vars

=============================================================================
