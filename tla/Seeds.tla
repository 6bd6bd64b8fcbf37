-------------------------------- MODULE Seeds -------------------------------
(***************************************************************************)
(* The scripts that fill the database: prisma/seed-config.ts (reference    *)
(* data, safe to repeat), seed.ts (the same and demonstration accounts and *)
(* rows), seed-nounus.ts and seed-nounus-batch.ts (nounus),                *)
(* seed-messages-contracts-notifs.ts and seed-contracts.ts (rooms).        *)
(*                                                                         *)
(* A script is a sequence of statements without a transaction: it may stop *)
(* anywhere, be run again, and run beside another script and beside the    *)
(* administrators (Administration).  Each step has one of a few forms, so  *)
(* a script is its plan, a sequence of [how, key], and one action per form.*)
(***************************************************************************)
EXTENDS Integers, SequencesExt

CONSTANTS
    Scripts,    \* scripts that an operator may run at once
    Perms,      \* the permissions' slugs
    DemoPerms,  \* those of seed.ts, which has no packs and no subscriptions
    Prefs,      \* preferences of a seeded nounu
    MaxStarts,  \* bound: scripts started
    MaxFaults   \* bound: scripts and requests stopped half way

ASSUME SeedsAssumption ==
    /\ Prefs \in Nat \ {0} /\ MaxStarts \in Nat /\ MaxFaults \in Nat
    /\ IsFiniteSet(Perms) /\ DemoPerms \subseteq Perms

VARIABLES
    table,   \* table[key]: the rows that have this slug, e-mail or phone
    grants,  \* role_permissions: pairs of a row of "role" and a permission
    roleOf,  \* the role of each administrator, 0 for no account
    prefs,   \* how many preferences the seeded nounu has
    seeded,  \* ghost: seed-config has run to its end
    torn,    \* ghost: these were never written, or last by two scripts at
             \* once or by one that stopped half way
    script,  \* script[s]: what script s is doing
    starts, faults

seedVars == <<prefs, seeded, torn, script, starts>>

\* "role" is the slug 'admin', for every parameter; "type" is its type.
Keys == {"type", "role", "user", "parent", "demo", "payment", "subscription", "settings", "pack",
         "nounu", "media", "review", "room", "message", "contract", "notice"} \cup Perms

Admins == {"root", "sub"}

\* gone: deletedAt is set.
Entry == [gone : BOOLEAN]

AddRow(key) == table' = [table EXCEPT ![key] = Append(@, [gone |-> FALSE])]

\* make: nothing was found; role: adminRole; clean, a ghost: no permission
\* was taken away since the script started; again, a ghost: seed-config had
\* run to its end before.
Script == [plan : {"none", "config", "demo", "nounus", "rooms", "contracts", "done"}, pc : Nat,
           make : BOOLEAN, role : Nat, clean : BOOLEAN, again : BOOLEAN]

NoScript == [plan |-> "none", pc |-> 0, make |-> FALSE, role |-> 0,
             clean |-> FALSE, again |-> FALSE]

\* What seed.ts writes into an empty database, in a run of its own.
DemoKeys == {"type", "role", "user", "parent", "demo", "payment", "subscription", "settings",
             "pack"} \cup DemoPerms

DemoRows(key) == [i \in 1 .. (IF key = "demo" THEN 4 ELSE 1) |-> [gone |-> FALSE]]

\* An empty database, or one that seed.ts was run on.
SeedInit ==
    /\ \E demo \in BOOLEAN :
         /\ table = [k \in Keys |-> IF demo /\ k \in DemoKeys THEN DemoRows(k) ELSE <<>>]
         /\ grants = IF demo THEN {1} \X DemoPerms ELSE {}
         /\ roleOf = [a \in Admins |-> IF demo /\ a = "root" THEN 1 ELSE 0]
    /\ seeded = FALSE /\ prefs = 0 /\ torn = TRUE
    /\ script = [s \in Scripts |-> NoScript]
    /\ starts = 0 /\ faults = 0

-----------------------------------------------------------------------------
(* The plans.                                                              *)

Step(how, key) == <<[how |-> how, key |-> key]>>

\* Some order of the permissions: the scripts have one.
Each(how, keys) == [i \in 1 .. Cardinality(keys) |-> [how |-> how, key |-> SetToSeq(keys)[i]]]

seedPermissions(slugs) == Each("unique", slugs) \o Step("role", "role") \o Each("grant", slugs)

seedSettings == Step("find", "settings")

seedPacks == Step("unique", "pack")

seedTypeParameters == Step("find", "type")

seedParameters == Step("find", "role")

ConfigPlan ==
    seedTypeParameters \o seedParameters \o seedPermissions(Perms) \o seedSettings \o seedPacks

\* upsert of a unique address; a parent's profile is found by its e-mail.
seedUsersAndProfiles ==
    Step("role", "role") \o Step("unique", "user") \o Step("find", "parent")

\* Every time it runs: preferences, jobs and applications; rooms, messages
\* and contracts; notifications; medias.
seedPreferencesAndJobs == Step("insert", "demo")
seedDemoRooms == Step("insert", "demo")
seedNotifications == Step("insert", "demo")
seedMedias == Step("insert", "demo")

\* upsert of a unique transaction; its subscription is found by the payment.
seedPaymentsAndSubscriptions == Step("unique", "payment") \o Step("find", "subscription")

seedDemoSettings == Step("insert", "settings")

DemoPlan ==
    seedTypeParameters \o seedParameters \o seedUsersAndProfiles
    \o seedPreferencesAndJobs \o seedDemoRooms \o seedNotifications
    \o seedPaymentsAndSubscriptions \o seedMedias
    \o seedPermissions(DemoPerms) \o seedDemoSettings \o seedPacks

seedNounus == Step("unique", "nounu") \o Step("find", "media") \o Step("clear", "nounu")

seedNounuPreferences == [i \in 1 .. Prefs |-> [how |-> "add", key |-> "nounu"]]

seedNounuReviews == Step("find", "review")

NounusPlan == seedNounus \o seedNounuPreferences \o seedNounuReviews

\* A room that is there is passed over, whatever it holds.
seedRoomsAndMessages ==
    Step("skip", "room") \o Step("insert", "room") \o Step("insert", "message")
    \o Step("find", "contract")

\* It looks for one random message and stores another.
seedRandomNotifications == Step("draw", "notice")

RoomsPlan == seedRoomsAndMessages \o seedRandomNotifications

\* A room that has a contract is passed over.
seedContractsBatch ==
    Step("find", "room") \o Step("skip", "contract") \o Step("insert", "message")
    \o Step("insert", "contract")

Plan(plan) ==
    CASE plan = "config" -> ConfigPlan
      [] plan = "demo" -> DemoPlan
      [] plan = "nounus" -> NounusPlan
      [] plan = "rooms" -> RoomsPlan
      [] plan = "contracts" -> seedContractsBatch

-----------------------------------------------------------------------------
(* The forms of a step.                                                    *)

Running(s) == script[s].plan \notin {"none", "done"}

Item(s) == Plan(script[s].plan)[script[s].pc]

Doing(s, how) == Running(s) /\ Item(s).how = how

\* On to the next item, or the end.
Onward(s) ==
    LET w == script[s] IN
    script' = [script EXCEPT ![s] =
        IF w.pc < Len(Plan(w.plan)) THEN [w EXCEPT !.pc = @ + 1, !.make = FALSE]
        ELSE [NoScript EXCEPT !.plan = "done"]]

Quit(s) == script' = [script EXCEPT ![s] = NoScript]

\* Mutant: rows that administrators deleted are not found.
BugFound(key) == \E i \in DOMAIN table[key] : ~table[key][i].gone

\* findFirst by slug, e-mail or phone, deleted rows included; the rooms of
\* the scripts are never deleted here.
Found(key) == table[key] # <<>>

\* find-or-create, its read.
Look(s) ==
    LET key == Item(s).key IN
    /\ Doing(s, "find") \/ Doing(s, "unique")
    /\ ~script[s].make
    /\ IF Found(key) THEN Onward(s)
       ELSE script' = [script EXCEPT ![s].make = TRUE]
    /\ UNCHANGED <<table, grants, roleOf, prefs, torn, starts, faults>>

\* Its write.  Of two scripts that found nothing, the second stops if the
\* key is unique, and duplicates the row if it is not.
Create(s) ==
    LET key == Item(s).key IN
    /\ script[s].make /\ ~Doing(s, "grant")
    /\ IF Doing(s, "unique") /\ table[key] # <<>>
       THEN Quit(s) /\ UNCHANGED <<table, roleOf>>
       ELSE /\ AddRow(key)
            /\ roleOf' = IF key = "user" THEN [roleOf EXCEPT !["root"] = script[s].role]
                         ELSE roleOf
            /\ Onward(s)
    /\ UNCHANGED <<grants, prefs, torn, starts, faults>>

\* The rest is for a pair that has none; notifications are for everyone.
Skip(s) ==
    LET w == script[s]
        rest == {i \in DOMAIN Plan(w.plan) : Plan(w.plan)[i].how = "draw"}
    IN  /\ Doing(s, "skip")
        /\ IF ~Found(Item(s).key) THEN Onward(s)
           ELSE script' = [script EXCEPT ![s] = IF rest = {} THEN [NoScript EXCEPT !.plan = "done"]
                                                ELSE [w EXCEPT !.pc = CHOOSE i \in rest : TRUE]]
        /\ UNCHANGED <<table, grants, roleOf, prefs, torn, starts, faults>>

\* The message looked for may be there only if some message is.
Draw(s) ==
    /\ Doing(s, "draw")
    /\ \/ Found(Item(s).key) /\ UNCHANGED table
       \/ AddRow(Item(s).key)
    /\ Onward(s)
    /\ UNCHANGED <<grants, roleOf, prefs, torn, starts, faults>>

Insert(s) ==
    /\ Doing(s, "insert")
    /\ AddRow(Item(s).key)
    /\ Onward(s)
    /\ UNCHANGED <<grants, roleOf, prefs, torn, starts, faults>>

\* adminRole: any of the rows with the slug.
ReadRole(s) ==
    /\ Doing(s, "role")
    /\ \E r \in IF table["role"] = <<>> THEN {0} ELSE DOMAIN table["role"] :
         script' = [script EXCEPT ![s].pc = @ + 1, ![s].role = r]
    /\ UNCHANGED <<table, grants, roleOf, prefs, torn, starts, faults>>

\* A permission is granted if it and the role are there, and it is not yet.
LookGrant(s) ==
    LET p == Item(s).key
        role == script[s].role
    IN  /\ Doing(s, "grant") /\ ~script[s].make
        /\ IF role = 0 \/ ~Found(p) \/ <<role, p>> \in grants THEN Onward(s)
           ELSE script' = [script EXCEPT ![s].make = TRUE]
        /\ UNCHANGED <<table, grants, roleOf, prefs, torn, starts, faults>>

\* Mutant: the next permission replaces the one before.
BugCreateGrant(s) ==
    LET g == <<script[s].role, Item(s).key>> IN
    /\ Doing(s, "grant") /\ script[s].make
    /\ grants' = {x \in grants : x[1] # g[1]} \cup {g}
    /\ Onward(s)
    /\ UNCHANGED <<table, roleOf, prefs, torn, starts, faults>>

\* Granted in between: the primary key stops the script.
CreateGrant(s) ==
    LET g == <<script[s].role, Item(s).key>> IN
    /\ Doing(s, "grant") /\ script[s].make
    /\ IF g \in grants THEN Quit(s) ELSE Onward(s)
    /\ grants' = grants \cup {g}
    /\ UNCHANGED <<table, roleOf, prefs, torn, starts, faults>>

\* Between the deleteMany and the last create.
WritesPrefs(s) == Doing(s, "add")

\* Mutant: the preferences are added to those of the last run.
BugClear(s) ==
    /\ Doing(s, "clear")
    /\ torn' = (\E r \in Scripts \ {s} : WritesPrefs(r))
    /\ Onward(s)
    /\ UNCHANGED <<table, grants, roleOf, prefs, starts, faults>>

Clear(s) ==
    /\ Doing(s, "clear")
    /\ prefs' = 0 /\ torn' = (\E r \in Scripts \ {s} : WritesPrefs(r))
    /\ Onward(s)
    /\ UNCHANGED <<table, grants, roleOf, starts, faults>>

Add(s) ==
    /\ Doing(s, "add")
    /\ prefs' = prefs + 1
    /\ Onward(s)
    /\ UNCHANGED <<table, grants, roleOf, torn, starts, faults>>

-----------------------------------------------------------------------------
(* Runs of the scripts.                                                    *)

StartScript(s, plan) ==
    /\ ~Running(s)
    /\ starts < MaxStarts /\ starts' = starts + 1
    /\ script' = [script EXCEPT ![s] = [NoScript EXCEPT !.plan = plan, !.pc = 1, !.clean = TRUE,
                                                      !.again = seeded]]
    /\ UNCHANGED <<table, grants, roleOf, prefs, torn, faults>>

\* A statement is rejected or the operator stops the script.
Stop(s) ==
    /\ Running(s) /\ faults < MaxFaults /\ faults' = faults + 1
    /\ torn' = (torn \/ WritesPrefs(s))
    /\ Quit(s)
    /\ UNCHANGED <<table, grants, roleOf, prefs, starts>>

Proceed(s) ==
    \/ Look(s) \/ Create(s) \/ Skip(s) \/ Draw(s) \/ Insert(s) \/ ReadRole(s)
    \/ LookGrant(s) \/ CreateGrant(s) \/ Clear(s) \/ Add(s)

SeedNext ==
    /\ \E s \in Scripts :
          \/ Proceed(s) \/ Stop(s)
          \/ \E plan \in {"config", "demo", "nounus", "rooms", "contracts"} :
                StartScript(s, plan)
    /\ seeded' = (seeded \/ \E s \in Scripts :
                     script[s].plan = "config" /\ script'[s].plan = "done")

=============================================================================
