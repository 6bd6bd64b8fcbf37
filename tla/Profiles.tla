------------------------------ MODULE Profiles ------------------------------
(***************************************************************************)
(* Profiles of parents and nounus, their preferences and their photos:     *)
(* profile.usecases.ts, PrismaProfileRepository, media.usecases.ts.        *)
(*                                                                         *)
(* No request runs in a transaction: a profile is looked for and created,  *)
(* preferences are erased and created one by one, photos are retired and   *)
(* stored, each by a statement of its own.  The parent and the nounu have  *)
(* twin use cases that differ in which photos they retire.                 *)
(***************************************************************************)
EXTENDS Integers, Sequences, FiniteSets

CONSTANTS
    Users,       \* accounts
    Handlers,    \* requests in flight at once
    Items,       \* parameters that a preference may refer to
    Forms,       \* sets of items submitted as the preferences of a form
    Nobody,      \* no user
    MaxProfiles, \* bound: rows of profil_parents and profil_nounus
    MaxMedia,    \* bound: rows of medias
    MaxMoves,    \* bound: requests that the fairness does not ask for
    MaxFaults    \* bound: rejected statements

ASSUME ProfilesAssumption ==
    /\ Nobody \notin Users
    /\ Forms \subseteq SUBSET Items
    /\ MaxProfiles \in Nat /\ MaxMedia \in Nat /\ MaxMoves \in Nat /\ MaxFaults \in Nat

VARIABLES
    profiles, \* the rows of both tables, in order of creation
    prefs,    \* prefs[i]: how many preferences of profile i refer to each item
    medias,   \* the medias table
    known,    \* parameters found by name: those not deleted
    job,      \* job[h]: what handler h is executing
    saved,    \* ghost: saved[i], the preferences last meant for profile i
    mixed,    \* ghost: profiles whose preferences were written by two requests
              \* at once, or by one that failed half way
    bare,     \* ghost: users whose photo was deleted, or retired by a request
              \* that then failed
    moves, faults

vars == <<profiles, prefs, medias, known, job, saved, mixed, bare, moves, faults>>

Kinds == {"parent", "nounu"}

Ops == {"none", "create", "update", "upload"}

Steps == {"idle", "create", "clear", "rows", "retire", "photo"}

\* phone: unique among nounus.  base: a ghost, the number of rows when the
\* request that created this one found no profile.
Profile == [owner : Users, kind : Kinds, phone : Nat, deleted : BOOLEAN, base : Nat]

\* photo: of type photo_profil.  Ghosts: op and kind, the route that stored it;
\* base, the number of rows when that request retired the photos, MaxMedia if
\* it retired none.
Media == [owner : Users, photo : BOOLEAN, deleted : BOOLEAN, op : Ops, kind : Kinds,
          base : Nat]

\* items: preferences still to create.  photo: the form has a photo.
Job == [op : Ops, at : Steps, user : Users \cup {Nobody}, kind : Kinds, profile : Nat,
        items : SUBSET Items, photo : BOOLEAN, phone : Nat, base : Nat]

NoJob == [op |-> "none", at |-> "idle", user |-> Nobody, kind |-> "parent", profile |-> 0,
          items |-> {}, photo |-> FALSE, phone |-> 0, base |-> 0]

Init ==
    /\ profiles = <<>> /\ prefs = <<>> /\ medias = <<>>
    /\ known = Items
    /\ job = [h \in Handlers |-> NoJob]
    /\ saved = <<>> /\ mixed = {} /\ bare = {}
    /\ moves = 0 /\ faults = 0

-----------------------------------------------------------------------------
Idle(h) == job[h].at = "idle"

\* findParentByUserId and findNounuByUserId: any row, deleted or not.
ProfilesOf(u, kind) == {i \in DOMAIN profiles : profiles[i].owner = u /\ profiles[i].kind = kind}

Live(u) == {i \in DOMAIN medias : medias[i].owner = u /\ ~medias[i].deleted}

\* mapNounuForFrontend: a photo if there is one, or else any media.
Shown(u) ==
    LET photos == {i \in Live(u) : medias[i].photo}
    IN  IF photos # {} THEN photos ELSE Live(u)

\* extractPreferences: items whose parameter is not found are dropped.
Resolve(form) == form \cap known

Writing(i) == {h \in Handlers : job[h].profile = i /\ job[h].at \in {"clear", "rows"}}

NoPrefs == [x \in Items |-> 0]

\* Routes whose createMedia stores a photo beside those that there are: both
\* creations and the parent's update.
Beside(op, kind) == op = "create" \/ (op = "update" /\ kind = "parent")

\* Mutant: the nounu's update retires nothing either.
BugAfterRows(j) ==
    IF ~j.photo THEN NoJob
    ELSE [j EXCEPT !.at = "photo", !.profile = 0, !.base = MaxMedia]

\* What follows the preferences: the files of the form, or the answer.
AfterRows(j) ==
    IF ~j.photo THEN NoJob
    ELSE [j EXCEPT !.at = IF Beside(j.op, j.kind) THEN "photo" ELSE "retire",
                   !.profile = 0, !.base = MaxMedia]

\* A request beyond those that the fairness asks for.
Move == moves < MaxMoves /\ moves' = moves + 1

Rows == <<profiles, prefs, saved, mixed>>

-----------------------------------------------------------------------------
(* Creating a profile.                                                     *)

\* Mutant: nothing is looked up.
BugNoProfile(u, kind) == TRUE

NoProfile(u, kind) == ProfilesOf(u, kind) = {}

CreateStart(h, u, kind, form, photo, phone) ==
    /\ Idle(h) /\ Move
    /\ NoProfile(u, kind)
    /\ job' = [job EXCEPT ![h] = [op |-> "create", at |-> "create", user |-> u, kind |-> kind,
                                  profile |-> 0, items |-> Resolve(form), photo |-> photo,
                                  phone |-> phone, base |-> Len(profiles)]]
    /\ UNCHANGED <<Rows, medias, known, bare, faults>>

CreateParentStart(h, u, form, photo) == CreateStart(h, u, "parent", form, photo, 0)

CreateNounuStart(h, u, form, photo, phone) == CreateStart(h, u, "nounu", form, photo, phone)

PhoneTaken(phone) ==
    \E i \in DOMAIN profiles : profiles[i].kind = "nounu" /\ profiles[i].phone = phone

\* createParent, createNounu.  The phone of a nounu is unique.
CreateRow(h, kind) ==
    LET j == job[h] IN
    /\ j.at = "create" /\ j.kind = kind
    /\ IF kind = "nounu" /\ PhoneTaken(j.phone)
       THEN /\ job' = [job EXCEPT ![h] = NoJob]
            /\ UNCHANGED Rows
       ELSE LET j2 == [j EXCEPT !.profile = Len(profiles) + 1, !.base = 0, !.phone = 0]
            IN  /\ profiles' = Append(profiles, [owner |-> j.user, kind |-> kind,
                                   phone |-> j.phone, deleted |-> FALSE, base |-> j.base])
                /\ prefs' = Append(prefs, NoPrefs)
                /\ saved' = Append(saved, j.items)
                /\ mixed' = mixed
                /\ job' = [job EXCEPT ![h] =
                            IF j.items = {} THEN AfterRows(j2) ELSE [j2 EXCEPT !.at = "rows"]]
    /\ UNCHANGED <<medias, known, bare, moves, faults>>

\* Mutant: the last one is forgotten.
BugAddPreference(h, op, kind) ==
    LET j == job[h] IN
    /\ j.at = "rows" /\ j.op = op /\ j.kind = kind
    /\ \E x \in j.items :
         LET rest == [j EXCEPT !.items = @ \ {x}]
         IN  /\ prefs' = IF rest.items = {} THEN prefs ELSE [prefs EXCEPT ![j.profile][x] = @ + 1]
             /\ job' = [job EXCEPT ![h] = IF rest.items = {} THEN AfterRows(rest) ELSE rest]
    /\ UNCHANGED <<profiles, saved, mixed, medias, known, bare, moves, faults>>

\* One turn of the loop of createPreferences and replacePreferences.
AddPreference(h, op, kind) ==
    LET j == job[h] IN
    /\ j.at = "rows" /\ j.op = op /\ j.kind = kind
    /\ \E x \in j.items :
         LET rest == [j EXCEPT !.items = @ \ {x}]
         IN  /\ prefs' = [prefs EXCEPT ![j.profile][x] = @ + 1]
             /\ job' = [job EXCEPT ![h] = IF rest.items = {} THEN AfterRows(rest) ELSE rest]
    /\ UNCHANGED <<profiles, saved, mixed, medias, known, bare, moves, faults>>

CreateParentPreferences(h) == AddPreference(h, "create", "parent")
CreateNounuPreferences(h)  == AddPreference(h, "create", "nounu")
AddParentPreferences(h)    == AddPreference(h, "update", "parent")
AddNounuPreferences(h)     == AddPreference(h, "update", "nounu")

-----------------------------------------------------------------------------
(* Updating a profile: the fields, then the preferences if any was found.  *)

UpdateWith(h, i, kind, form, photo) ==
    LET items == Resolve(form)
        j == [NoJob EXCEPT !.op = "update", !.at = "clear", !.user = profiles[i].owner,
                           !.kind = kind, !.profile = i, !.items = items, !.photo = photo]
    IN  /\ Idle(h)
        /\ job' = [job EXCEPT ![h] = IF items = {} THEN AfterRows(j) ELSE j]
        /\ saved' = IF items = {} THEN saved ELSE [saved EXCEPT ![i] = items]
        /\ mixed' = IF items # {} /\ Writing(i) # {} THEN mixed \cup {i} ELSE mixed
        /\ UNCHANGED <<profiles, prefs, medias, known, bare, faults>>

\* The parent's and the nounu's own routes: the profile found for the user.
UpdateParentStart(h, u, form, photo) ==
    Move /\ \E i \in ProfilesOf(u, "parent") : UpdateWith(h, i, "parent", form, photo)

UpdateNounuStart(h, u, form, photo) ==
    Move /\ \E i \in ProfilesOf(u, "nounu") : UpdateWith(h, i, "nounu", form, photo)

\* PATCH update/:id: the fields only, of the profile's own nounu or of any parent.
UpdateParentById(h, i) ==
    Move /\ profiles[i].kind = "parent" /\ UpdateWith(h, i, "parent", {}, FALSE)

UpdateNounuById(h, i) ==
    Move /\ profiles[i].kind = "nounu" /\ UpdateWith(h, i, "nounu", {}, FALSE)

\* Mutant: preferences are added to those there are.
BugClearPreferences(h, kind) ==
    /\ job[h].at = "clear" /\ job[h].kind = kind
    /\ prefs' = prefs
    /\ job' = [job EXCEPT ![h].at = "rows"]
    /\ UNCHANGED <<profiles, saved, mixed, medias, known, bare, moves, faults>>

ClearPreferences(h, kind) ==
    /\ job[h].at = "clear" /\ job[h].kind = kind
    /\ prefs' = [prefs EXCEPT ![job[h].profile] = NoPrefs]
    /\ job' = [job EXCEPT ![h].at = "rows"]
    /\ UNCHANGED <<profiles, saved, mixed, medias, known, bare, moves, faults>>

ReplaceParentPreferences(h) == ClearPreferences(h, "parent")
ReplaceNounuPreferences(h)  == ClearPreferences(h, "nounu")

\* DeleteParent and DeleteNounu: the row stays and is still found by user.
DeleteProfile(i) ==
    /\ i \in DOMAIN profiles /\ ~profiles[i].deleted /\ Move
    /\ profiles' = [profiles EXCEPT ![i].deleted = TRUE]
    /\ UNCHANGED <<prefs, saved, mixed, medias, known, job, bare, faults>>

DeleteParent(i) == i \in DOMAIN profiles /\ profiles[i].kind = "parent" /\ DeleteProfile(i)
DeleteNounu(i)  == i \in DOMAIN profiles /\ profiles[i].kind = "nounu" /\ DeleteProfile(i)

-----------------------------------------------------------------------------
(* Photos.                                                                 *)

\* UploadMedia of a profile photo.
UploadStart(h, u) ==
    /\ Idle(h) /\ Move
    /\ job' = [job EXCEPT ![h] = [NoJob EXCEPT !.op = "upload", !.at = "retire", !.user = u,
                                             !.photo = TRUE]]
    /\ UNCHANGED <<Rows, medias, known, bare, faults>>

\* A media of another type replaces nothing.
UploadOther(u) ==
    /\ Move /\ Len(medias) < MaxMedia
    /\ medias' = Append(medias, [owner |-> u, photo |-> FALSE, deleted |-> FALSE,
                                 op |-> "upload", kind |-> "parent", base |-> MaxMedia])
    /\ UNCHANGED <<Rows, known, job, bare, faults>>

\* The user's photos are deleted by one statement before the new one is stored.
RetirePhotos(h) ==
    LET u == job[h].user IN
    /\ job[h].at = "retire"
    /\ medias' = [i \in DOMAIN medias |->
                    IF medias[i].owner = u /\ medias[i].photo
                    THEN [medias[i] EXCEPT !.deleted = TRUE] ELSE medias[i]]
    /\ job' = [job EXCEPT ![h].at = "photo", ![h].base = Len(medias)]
    /\ UNCHANGED <<Rows, known, bare, moves, faults>>

Retire(h, op) == job[h].op = op /\ RetirePhotos(h)

\* Mutant: the photos are retired after the new one is stored.
BugStorePhoto(h) ==
    LET j == job[h]
        all == Append(medias, [owner |-> j.user, photo |-> TRUE, deleted |-> FALSE,
                               op |-> j.op, kind |-> j.kind, base |-> j.base])
    IN  /\ j.at = "photo"
        /\ medias' = [i \in DOMAIN all |-> [all[i] EXCEPT !.deleted = @ \/ all[i].owner = j.user]]
        /\ bare' = bare \ {j.user}
        /\ job' = [job EXCEPT ![h] = NoJob]
        /\ UNCHANGED <<Rows, known, moves, faults>>

StorePhoto(h) ==
    LET j == job[h] IN
    /\ j.at = "photo"
    /\ medias' = Append(medias, [owner |-> j.user, photo |-> TRUE, deleted |-> FALSE,
                                 op |-> j.op, kind |-> j.kind, base |-> j.base])
    /\ bare' = bare \ {j.user}
    /\ job' = [job EXCEPT ![h] = NoJob]
    /\ UNCHANGED <<Rows, known, moves, faults>>

Store(h, op, kind) == job[h].op = op /\ job[h].kind = kind /\ StorePhoto(h)

StoreParentMedia(h)   == Store(h, "create", "parent")
StoreNounuMedia(h)    == Store(h, "create", "nounu")
UpdateParentMedia(h)  == Store(h, "update", "parent")
UpdateNounuMedia(h)   == Retire(h, "update") \/ Store(h, "update", "nounu")
UploadMedia(h)        == Retire(h, "upload") \/ Store(h, "upload", "parent")

DeleteMedia(i) ==
    /\ i \in DOMAIN medias /\ Move
    /\ medias' = [medias EXCEPT ![i].deleted = TRUE]
    /\ bare' = IF medias[i].photo THEN bare \cup {medias[i].owner} ELSE bare
    /\ UNCHANGED <<Rows, known, job, faults>>

-----------------------------------------------------------------------------
(* Parameters, failures and fairness.                                      *)

\* An administrator deletes or restores a parameter.
FlipParameter(x) ==
    /\ Move
    /\ known' = IF x \in known THEN known \ {x} ELSE known \cup {x}
    /\ UNCHANGED <<Rows, medias, job, bare, faults>>

\* A statement is rejected: what the request has written stays.
Fail(h) ==
    LET j == job[h] IN
    /\ ~Idle(h) /\ faults < MaxFaults /\ faults' = faults + 1
    /\ mixed' = IF j.at \in {"clear", "rows"} THEN mixed \cup {j.profile} ELSE mixed
    /\ bare' = IF j.at = "photo" THEN bare \cup {j.user} ELSE bare
    /\ job' = [job EXCEPT ![h] = NoJob]
    /\ UNCHANGED <<profiles, prefs, saved, medias, known, moves>>

Advance(h) ==
    \/ CreateRow(h, "parent") \/ CreateRow(h, "nounu")
    \/ CreateParentPreferences(h) \/ CreateNounuPreferences(h)
    \/ AddParentPreferences(h) \/ AddNounuPreferences(h)
    \/ ReplaceParentPreferences(h) \/ ReplaceNounuPreferences(h)
    \/ StoreParentMedia(h) \/ StoreNounuMedia(h)
    \/ UpdateParentMedia(h) \/ UpdateNounuMedia(h) \/ UploadMedia(h)

\* Rows that the requests in flight may still store.
Room == /\ Len(profiles) + Cardinality({h \in Handlers : job[h].at = "create"}) < MaxProfiles
Shelf == Len(medias) + Cardinality({h \in Handlers : job[h].photo}) < MaxMedia

Arrive(h, u) ==
    \/ \E form \in Forms, photo \in BOOLEAN :
         /\ photo => Shelf
         /\ \/ Room /\ CreateParentStart(h, u, form, photo)
            \/ Room /\ \E phone \in 1 .. 2 : CreateNounuStart(h, u, form, photo, phone)
            \/ UpdateParentStart(h, u, form, photo)
            \/ UpdateNounuStart(h, u, form, photo)
    \/ Shelf /\ UploadStart(h, u)

ById(h) ==
    \/ \E i \in DOMAIN profiles : UpdateParentById(h, i) \/ UpdateNounuById(h, i)

Others ==
    \/ \E i \in DOMAIN profiles : DeleteParent(i) \/ DeleteNounu(i)
    \/ \E i \in DOMAIN medias : DeleteMedia(i)
    \/ \E x \in Items : FlipParameter(x)
    \/ \E u \in Users : Shelf /\ UploadOther(u)

Whole(i) == \E form \in Forms : prefs[i] = [x \in Items |-> IF x \in form THEN 1 ELSE 0]

\* Users whose preferences are wrong save the form again and wait for the
\* answer.  The route updates the profile that findFirst returns, any one of
\* them if there are two.
SaveAgain(h, u, kind) ==
    /\ \E i \in ProfilesOf(u, kind) : ~Whole(i)
    /\ \A i \in ProfilesOf(u, kind) : Writing(i) = {}
    /\ \E i \in ProfilesOf(u, kind), form \in Forms :
         Resolve(form) = form /\ UpdateWith(h, i, kind, form, FALSE)
    /\ UNCHANGED moves

Next ==
    \/ \E h \in Handlers : \/ Advance(h) \/ Fail(h) \/ ById(h)
                           \/ \E u \in Users : Arrive(h, u)
                           \/ \E u \in Users, kind \in Kinds : SaveAgain(h, u, kind)
    \/ Others

Spec == Init /\ [][Next]_vars

\* Requests run to their end; a user saves again whenever it is needed.
FairSpec ==
    /\ Spec
    /\ \A h \in Handlers : WF_vars(Advance(h))
    /\ \A u \in Users, kind \in Kinds : WF_vars(\E h \in Handlers : SaveAgain(h, u, kind))

-----------------------------------------------------------------------------
(* Properties.                                                             *)

TypeOK ==
    /\ profiles \in Seq(Profile)
    /\ prefs \in Seq([Items -> Nat]) /\ Len(prefs) = Len(profiles)
    /\ medias \in Seq(Media)
    /\ known \subseteq Items
    /\ job \in [Handlers -> Job]
    /\ \A i \in DOMAIN profiles : \A h \in Writing(i) : job[h].kind = profiles[i].kind
    /\ saved \in Seq(SUBSET Items) /\ Len(saved) = Len(profiles)
    /\ mixed \subseteq DOMAIN profiles
    /\ bare \subseteq Users
    /\ moves \in Nat /\ faults \in Nat

(***************************************************************************)
(* A user has two profiles of one kind only if the second was asked for    *)
(* before the first was stored; a form submitted twice does that to a      *)
(* parent, and never to a nounu, whose phone is unique                     *)
(* (profile.usecases.ts:107, 354).                                         *)
(***************************************************************************)
TwoProfilesOnlyByRace ==
    \A i, k \in DOMAIN profiles :
        i < k /\ profiles[i].owner = profiles[k].owner /\ profiles[i].kind = profiles[k].kind
        => /\ profiles[k].base < i
           /\ profiles[i].kind = "nounu" => profiles[i].phone # profiles[k].phone

(***************************************************************************)
(* When nobody is writing them, the preferences of a profile are those     *)
(* that the last form with a known item asked for, each once, unless two   *)
(* requests wrote them at once or one failed half way                      *)
(* (profile.usecases.ts:291).                                              *)
(***************************************************************************)
PreferencesAreTheLastForm ==
    \A i \in DOMAIN profiles \ mixed :
        Writing(i) = {} => prefs[i] = [x \in Items |-> IF x \in saved[i] THEN 1 ELSE 0]

(***************************************************************************)
(* Of two photos that a user has at once, the later was stored by a route  *)
(* that never retires the earlier ones, a creation or the parent's update  *)
(* (profile.usecases.ts:179, 300, 433), or, by an upload or the nounu's    *)
(* update, after the request had retired the photos and before it saw the  *)
(* earlier one (media.usecases.ts:35, profile.usecases.ts:595).            *)
(***************************************************************************)
TwoPhotosOnlyByRace ==
    \A u \in Users : \A i, k \in Shown(u) :
        i < k /\ medias[k].photo
        => Beside(medias[k].op, medias[k].kind) \/ medias[k].base < i

\* What a user has once, the user has twice only by a race or, a photo, by a
\* route that stores it beside the others.
DoublesOnlyByRace == TwoProfilesOnlyByRace /\ TwoPhotosOnlyByRace

(***************************************************************************)
(* A user who has had a photo is shown one, unless it was deleted on       *)
(* request, or a request that retired it has yet to store its own or       *)
(* failed to.                                                              *)
(***************************************************************************)
PhotoKept ==
    \A u \in Users \ bare :
        (\E i \in DOMAIN medias : medias[i].owner = u /\ medias[i].photo)
          /\ (\A h \in Handlers : job[h].user = u => job[h].at # "photo")
        => \E i \in Shown(u) : medias[i].photo

(***************************************************************************)
(* The preferences of a user's only profile of a kind become those of a    *)
(* form, each once: saving again repairs what a failure or two saves at    *)
(* once left behind, because a save erases before it writes; unless every  *)
(* form names a deleted parameter.  Of two profiles of a kind one may      *)
(* never be found, and stay as it was left (user.repository.ts:121, 154).  *)
(***************************************************************************)
Doubled(i) == \E k \in ProfilesOf(profiles[i].owner, profiles[i].kind) : k # i

PreferencesRepaired ==
    \A i \in 1 .. MaxProfiles :
        i \in DOMAIN profiles ~>
            \/ i \in DOMAIN profiles /\ (Whole(i) \/ Doubled(i))
            \/ ~\E form \in Forms : form \subseteq known

=============================================================================
