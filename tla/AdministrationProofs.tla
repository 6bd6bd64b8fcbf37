------------------------ MODULE AdministrationProofs ------------------------
(***************************************************************************)
(* Proofs about Administration and the scripts of Seeds, for any number of *)
(* permissions, scripts, handlers and preferences.  Rows are never really  *)
(* deleted and grants only by an administrator, so whatever a script or a  *)
(* request has found stays found while the others run.  About single       *)
(* scripts: what seed-config has done when it ends, and who may be writing *)
(* the preferences of the seeded nounu.                                    *)
(***************************************************************************)
EXTENDS Administration, FiniteSetTheorems, SequenceTheorems, TLAPS

-----------------------------------------------------------------------------
(* The plans of the scripts: a grant is of a permission, and reading the   *)
(* role is never the last step.                                            *)

Hows == {"find", "unique", "role", "grant", "insert", "clear", "add", "skip", "draw"}

Items == {i \in [how : Hows, key : Keys] : i.how = "grant" => i.key \in Perms}

GoodPlan(p) == p \in Seq(Items) \ {<<>>} /\ \A i \in DOMAIN p : p[i].how = "role" => i < Len(p)

LEMMA StepType ==
    ASSUME NEW how \in Hows \ {"grant"}, NEW key \in Keys
    PROVE  /\ Step(how, key) \in Seq(Items)
           /\ Len(Step(how, key)) = 1 /\ Step(how, key)[1].how = how
<1> DEFINE item == [how |-> how, key |-> key]
<1>1. item \in Items /\ item.how = how
  BY DEF Items
<1>2. Step(how, key) = <<item>>
  BY DEF Step
<1> HIDE DEF item
<1>3. QED
  BY <1>1, <1>2

LEMMA SetToSeqType ==
    ASSUME NEW S, IsFiniteSet(S)
    PROVE  SetToSeq(S) \in [1 .. Cardinality(S) -> S]
<1>1. Cardinality(S) \in Nat /\ ExistsBijection(1 .. Cardinality(S), S)
  BY FS_CardinalityType
<1>2. \E f \in [1 .. Cardinality(S) -> S] : IsInjective(f)
  BY <1>1 DEF ExistsBijection, Bijection, Injection, IsInjective
<1>3. QED
  BY <1>2 DEF SetToSeq

LEMMA EachType ==
    ASSUME NEW S \in SUBSET Perms, NEW how \in {"unique", "grant"}
    PROVE  Each(how, S) \in Seq(Items)
<1> PICK n : n = Cardinality(S)
  OBVIOUS
<1>1. IsFiniteSet(S)
  BY SeedsAssumption, FS_Subset
<1>2. n \in Nat /\ SetToSeq(S) \in [1 .. n -> S]
  BY <1>1, FS_CardinalityType, SetToSeqType
<1>3. Each(how, S) = [i \in 1 .. n |-> [how |-> how, key |-> SetToSeq(S)[i]]]
  BY DEF Each
<1>4. ASSUME NEW i \in 1 .. n
      PROVE  [how |-> how, key |-> SetToSeq(S)[i]] \in Items
  <2>1. SetToSeq(S)[i] \in Perms
    BY <1>2
  <2>2. QED
    BY <2>1 DEF Items, Keys, Hows
<1>5. Each(how, S) \in [1 .. n -> Items]
  BY <1>3, <1>4
<1>6. QED
  BY <1>2, <1>5

LEMMA JoinType ==
    ASSUME NEW a \in Seq(Items), NEW b \in Seq(Items)
    PROVE  a \o b \in Seq(Items)
BY ConcatProperties

\* A plan that ends with a step which does not read the role is good, if
\* nothing before it is at its end.
LEMMA EndsWell ==
    ASSUME NEW a \in Seq(Items), NEW how \in Hows \ {"grant", "role"}, NEW key \in Keys
    PROVE  GoodPlan(a \o Step(how, key))
<1> PICK b : b = Step(how, key)
  OBVIOUS
<1>1. b \in Seq(Items) /\ Len(b) = 1 /\ b[1].how = how
  BY StepType
<1> PICK p : p = a \o b
  OBVIOUS
<1>2. /\ p \in Seq(Items) /\ Len(p) = Len(a) + Len(b)
      /\ \A i \in 1 .. Len(a) + Len(b) : p[i] = IF i <= Len(a) THEN a[i] ELSE b[i - Len(a)]
  BY <1>1, ConcatProperties
<1>3. Len(a) \in Nat /\ DOMAIN p = 1 .. Len(p) /\ Len(p) = Len(a) + 1
  BY <1>1, <1>2
<1>4. p[Len(p)].how # "role"
  <2>1. p[Len(p)] = b[1]
    BY <1>1, <1>2, <1>3
  <2>2. QED
    BY <1>1, <2>1
<1>5. \A i \in DOMAIN p : i < Len(p) \/ i = Len(p)
  BY <1>3
<1>6. p # <<>>
  BY <1>2, <1>3
<1>7. QED
  BY <1>2, <1>3, <1>4, <1>5, <1>6 DEF GoodPlan

LEMMA PermissionsType ==
    ASSUME NEW S \in SUBSET Perms
    PROVE  seedPermissions(S) \in Seq(Items)
<1>1. /\ Each("unique", S) \in Seq(Items) /\ Each("grant", S) \in Seq(Items)
      /\ Step("role", "role") \in Seq(Items)
  BY EachType, StepType DEF Hows, Keys
<1>2. QED
  BY <1>1, JoinType DEF seedPermissions

LEMMA ConfigPlanType == GoodPlan(ConfigPlan)
<1>1. /\ seedTypeParameters \in Seq(Items) /\ seedParameters \in Seq(Items)
      /\ seedSettings \in Seq(Items) /\ seedPermissions(Perms) \in Seq(Items)
  BY StepType, PermissionsType DEF seedTypeParameters, seedParameters, seedSettings, Hows, Keys
<1>2. seedTypeParameters \o seedParameters \o seedPermissions(Perms) \o seedSettings \in Seq(Items)
  BY <1>1, JoinType
<1>3. QED
  BY <1>2, EndsWell DEF ConfigPlan, seedPacks, Hows, Keys

LEMMA DemoPlanType == GoodPlan(DemoPlan)
<1>1. /\ seedTypeParameters \in Seq(Items) /\ seedParameters \in Seq(Items)
      /\ seedPreferencesAndJobs \in Seq(Items) /\ seedDemoRooms \in Seq(Items)
      /\ seedNotifications \in Seq(Items) /\ seedMedias \in Seq(Items)
      /\ seedDemoSettings \in Seq(Items)
  BY StepType DEF seedTypeParameters, seedParameters, seedPreferencesAndJobs, seedDemoRooms,
     seedNotifications, seedMedias, seedDemoSettings, Hows, Keys
<1>2. seedPermissions(DemoPerms) \in Seq(Items)
  BY PermissionsType, SeedsAssumption
<1>3. seedUsersAndProfiles \in Seq(Items)
  BY StepType, JoinType DEF seedUsersAndProfiles, Hows, Keys
<1>4. seedPaymentsAndSubscriptions \in Seq(Items)
  BY StepType, JoinType DEF seedPaymentsAndSubscriptions, Hows, Keys
<1>5. seedTypeParameters \o seedParameters \o seedUsersAndProfiles
      \o seedPreferencesAndJobs \o seedDemoRooms \o seedNotifications \in Seq(Items)
  BY <1>1, <1>3, JoinType
<1>6. (seedTypeParameters \o seedParameters \o seedUsersAndProfiles
       \o seedPreferencesAndJobs \o seedDemoRooms \o seedNotifications)
      \o seedPaymentsAndSubscriptions \o seedMedias
      \o seedPermissions(DemoPerms) \o seedDemoSettings \in Seq(Items)
  BY <1>1, <1>2, <1>4, <1>5, JoinType
<1>7. QED
  BY <1>6, EndsWell DEF DemoPlan, seedPacks, Hows, Keys

LEMMA NounusPlanType == GoodPlan(NounusPlan)
<1>1. seedNounus \in Seq(Items)
  BY StepType, JoinType DEF seedNounus, Hows, Keys
<1>2. seedNounuPreferences \in Seq(Items)
  <2>1. [how |-> "add", key |-> "nounu"] \in Items
    BY DEF Items, Hows, Keys
  <2>2. Prefs \in Nat
    BY SeedsAssumption
  <2>3. QED
    BY <2>1, <2>2 DEF seedNounuPreferences
<1>3. seedNounus \o seedNounuPreferences \in Seq(Items)
  BY <1>1, <1>2, JoinType
<1>4. QED
  BY <1>3, EndsWell DEF NounusPlan, seedNounuReviews, Hows, Keys

LEMMA RoomsPlanType == GoodPlan(RoomsPlan)
<1>1. seedRoomsAndMessages \in Seq(Items)
  BY StepType, JoinType DEF seedRoomsAndMessages, Hows, Keys
<1>2. QED
  BY <1>1, EndsWell DEF RoomsPlan, seedRandomNotifications, Hows, Keys

LEMMA ContractsPlanType == GoodPlan(seedContractsBatch)
<1>1. Step("find", "room") \o Step("skip", "contract") \o Step("insert", "message") \in Seq(Items)
  BY StepType, JoinType DEF Hows, Keys
<1>2. QED
  BY <1>1, EndsWell DEF seedContractsBatch, Hows, Keys

Plans == {"config", "demo", "nounus", "rooms", "contracts"}

LEMMA PlanType ==
    ASSUME NEW plan \in Plans
    PROVE  GoodPlan(Plan(plan))
BY ConfigPlanType, DemoPlanType, NounusPlanType, RoomsPlanType, ContractsPlanType DEF Plan, Plans

-----------------------------------------------------------------------------
(* The invariant.                                                          *)

\* The forms that read before they write.
Finding == {"find", "unique", "grant"}

\* What a script holds: rows it has found stay there.
ScriptSound(s) ==
    /\ script[s].role \in {0} \cup DOMAIN table["role"]
    /\ Running(s) => script[s].pc \in DOMAIN Plan(script[s].plan)
    /\ script[s].make => Running(s) /\ Item(s).how \in Finding
    /\ script[s].make /\ Doing(s, "grant") => <<script[s].role, Item(s).key>> \in References

\* What a request holds.
JobSound(h) ==
    /\ job[h].n <= decided
    /\ job[h].at = "assign" => job[h].role \in DOMAIN table["role"] /\ job[h].want \subseteq Known

Waiting(g) ==
    \E h \in Handlers : job[h].at = "assign" /\ g \in {job[h].role} \X job[h].want

\* A grant asked for is there, or a request is about to store it.
Authorised == ~cut => \A g \in asked : g \in grants \/ Waiting(g)

IInv ==
    /\ TypeOK /\ decided <= moves
    /\ \A s \in Scripts : ScriptSound(s)
    /\ \A h \in Handlers : JobSound(h)
    /\ Authorised

-----------------------------------------------------------------------------
(* The tables grow.                                                        *)

Grows ==
    /\ table' \in [Keys -> Seq(Entry)]
    /\ \A key \in Keys : DOMAIN table[key] \subseteq DOMAIN table'[key]

LEMMA KeysKnown == {"role"} \cup Perms \subseteq Keys
BY DEF Keys

LEMMA GrownReferences ==
    ASSUME TypeOK, Grows
    PROVE  /\ References \subseteq References' /\ Known \subseteq Known'
           /\ DOMAIN table["role"] \subseteq DOMAIN table'["role"]
<1>1. DOMAIN table["role"] \subseteq DOMAIN table'["role"]
  BY KeysKnown DEF Grows
<1>2. ASSUME NEW p \in Perms, table[p] # <<>>
      PROVE  table'[p] # <<>>
  <2>1. table[p] \in Seq(Entry) /\ table'[p] \in Seq(Entry) /\ p \in Keys
    BY KeysKnown DEF TypeOK, Grows
  <2>2. 1 \in DOMAIN table[p]
    BY <1>2, <2>1
  <2>3. QED
    BY <2>1, <2>2 DEF Grows
<1>3. QED
  BY <1>1, <1>2 DEF References, Known, Found

\* A row is added; the key of a step is one of the tables.
LEMMA RowAdded ==
    ASSUME TypeOK, NEW key \in Keys, AddRow(key)
    PROVE  Grows
<1> PICK row : row = [gone |-> FALSE]
  OBVIOUS
<1>1. row \in Entry
  BY DEF Entry
<1> PICK old : old = table[key]
  OBVIOUS
<1>2. old \in Seq(Entry)
  BY DEF TypeOK
<1> PICK new : new = Append(old, row)
  OBVIOUS
<1>3. new \in Seq(Entry) /\ DOMAIN old \subseteq DOMAIN new
  BY <1>1, <1>2
<1>4. table' = [table EXCEPT ![key] = new]
  BY DEF AddRow
<1>5. table'[key] = new /\ \A k \in Keys \ {key} : table'[k] = table[k]
  BY <1>4 DEF TypeOK
<1>6. QED
  BY <1>3, <1>4, <1>5 DEF Grows, TypeOK

LEMMA NoScriptType == NoScript \in Script /\ NoScript.plan = "none" /\ ~NoScript.make
BY DEF NoScript, Script

LEMMA NoJobType == NoJob \in Job /\ NoJob.at = "idle" /\ NoJob.n = 0
BY DEF NoJob, Job

\* Scripts wait while the tables grow.
LEMMA ScriptStays ==
    ASSUME TypeOK, Grows, NEW s \in Scripts, ScriptSound(s), script'[s] = script[s]
    PROVE  ScriptSound(s)'
<1>1. Running(s)' = Running(s) /\ Item(s)' = Item(s) /\ \A how : Doing(s, how)' = Doing(s, how)
  BY DEF Running, Item, Doing
<1>2. QED
  BY <1>1, GrownReferences DEF ScriptSound

LEMMA JobStays ==
    ASSUME TypeOK, Grows, decided' >= decided, decided' \in Nat, NEW h \in Handlers, JobSound(h),
           job'[h] = job[h]
    PROVE  JobSound(h)'
<1>1. job[h].n \in Nat /\ decided \in Nat
  BY DEF TypeOK, Job
<1>2. job'[h].n <= decided'
  BY <1>1 DEF JobSound
<1>3. QED
  BY <1>2, GrownReferences DEF JobSound

\* Script s goes on as w, and holds nothing that was not found.
Continues(s, w) ==
    /\ w \in Script /\ script' = [script EXCEPT ![s] = w]
    /\ w.role \in {0} \cup DOMAIN table["role"]
    /\ w.plan \in Plans => w.pc \in DOMAIN Plan(w.plan)
    /\ w.make => w.plan \in Plans /\ Plan(w.plan)[w.pc].how \in Finding
    /\ w.plan \in Plans /\ w.make /\ Plan(w.plan)[w.pc].how = "grant" =>
         <<w.role, Plan(w.plan)[w.pc].key>> \in References

(***************************************************************************)
(* A step of script s to w, while the tables and the grants grow.          *)
(***************************************************************************)
LEMMA ScriptStep ==
    ASSUME IInv, UNCHANGED requestVars, seeded' \in BOOLEAN, Grows, NEW s \in Scripts, NEW w,
           Continues(s, w),
           grants \subseteq grants', grants' \subseteq References',
           roleOf' \in [Admins -> {0} \cup (DOMAIN table["role"])'],
           prefs' \in Nat, torn' \in BOOLEAN, starts' \in 0 .. MaxStarts, faults' \in 0 .. MaxFaults
    PROVE  IInv'
<1>1. TypeOK /\ References \subseteq References' /\ Known \subseteq Known'
      /\ DOMAIN table["role"] \subseteq DOMAIN table'["role"]
  BY GrownReferences DEF IInv
<1>2. /\ script' \in [Scripts -> Script] /\ script'[s] = w
      /\ \A r \in Scripts \ {s} : script'[r] = script[r]
  BY <1>1 DEF TypeOK, Continues
<1>3. TypeOK'
  <2>1. asked' \subseteq References'
    BY <1>1 DEF TypeOK, requestVars
  <2>2. UNCHANGED <<decided, word, excused, asked, cut, job, moves>>
    BY DEF requestVars
  <2>3. /\ table' \in [Keys -> Seq(Entry)] /\ grants' \subseteq References'
        /\ roleOf' \in [Admins -> {0} \cup DOMAIN table'["role"]]
    BY DEF Grows
  <2>4. /\ decided' \in 0 .. MaxMoves /\ word' \in 0 .. decided' /\ excused' \in BOOLEAN
        /\ cut' \in BOOLEAN /\ job' \in [Handlers -> Job] /\ moves' \in 0 .. MaxMoves
    BY <1>1, <2>2 DEF TypeOK
  <2>5. /\ prefs' \in Nat /\ seeded' \in BOOLEAN /\ torn' \in BOOLEAN
        /\ script' \in [Scripts -> Script]
        /\ starts' \in 0 .. MaxStarts /\ faults' \in 0 .. MaxFaults
    BY <1>2
  <2>6. QED
    BY <2>1, <2>3, <2>4, <2>5, Zenon DEF TypeOK
<1>4. ScriptSound(s)'
  <2>1. Running(s)' <=> w.plan \in Plans
    BY <1>2 DEF Running, Plans, Script, Continues
  <2>2. Item(s)' = Plan(w.plan)[w.pc]
    BY <1>2 DEF Item
  <2>3. Doing(s, "grant")' => w.plan \in Plans /\ Plan(w.plan)[w.pc].how = "grant"
    BY <2>1, <2>2 DEF Doing
  <2>4. QED
    BY <1>1, <1>2, <2>1, <2>2, <2>3 DEF ScriptSound, Continues
<1>5. ASSUME NEW r \in Scripts \ {s}
      PROVE  ScriptSound(r)'
  BY <1>1, <1>2, ScriptStays DEF IInv
<1>6. ASSUME NEW h \in Handlers
      PROVE  JobSound(h)'
  BY <1>1, JobStays DEF IInv, requestVars, TypeOK
<1>7. Authorised'
  BY DEF IInv, Authorised, Waiting, requestVars
<1>8. QED
  BY <1>3, <1>4, <1>5, <1>6, <1>7 DEF IInv, requestVars

-----------------------------------------------------------------------------
(* The forms of a step.                                                    *)

LEMMA ScriptTyped ==
    ASSUME IInv, NEW s \in Scripts
    PROVE  /\ script[s] \in Script /\ ScriptSound(s)
           /\ Running(s) => /\ script[s].plan \in Plans
                            /\ Plan(script[s].plan) \in Seq(Items)
                            /\ Item(s) \in Items
                            /\ Item(s).how = "role" => script[s].pc < Len(Plan(script[s].plan))
<1>1. script[s] \in Script /\ ScriptSound(s)
  BY DEF IInv, TypeOK
<1>2. ASSUME Running(s)
      PROVE  /\ script[s].plan \in Plans
             /\ Plan(script[s].plan) \in Seq(Items)
             /\ Item(s) \in Items
             /\ Item(s).how = "role" => script[s].pc < Len(Plan(script[s].plan))
  <2>1. script[s].plan \in Plans
    BY <1>1, <1>2 DEF Running, Plans, Script
  <2>2. GoodPlan(Plan(script[s].plan))
    BY <2>1, PlanType
  <2>3. script[s].pc \in DOMAIN Plan(script[s].plan)
    BY <1>1, <1>2 DEF ScriptSound
  <2>4. QED
    BY <2>1, <2>2, <2>3 DEF GoodPlan, Item
<1>3. QED
  BY <1>1, <1>2

\* On to the next item, or the end.
LEMMA OnwardMoves ==
    ASSUME IInv, NEW s \in Scripts, Running(s), Onward(s)
    PROVE  \E w : Continues(s, w)
<1> PICK old : old = script[s]
  OBVIOUS
<1> PICK p : p = Plan(old.plan)
  OBVIOUS
<1>1. /\ old \in Script /\ old.role \in {0} \cup DOMAIN table["role"]
      /\ old.plan \in Plans /\ p \in Seq(Items) /\ old.pc \in DOMAIN p
  BY ScriptTyped DEF ScriptSound
<1>2. CASE old.pc < Len(p)
  <2> PICK n : n = old.pc + 1
    OBVIOUS
  <2> PICK w : w = [old EXCEPT !.pc = n, !.make = FALSE]
    OBVIOUS
  <2>1. n \in DOMAIN p /\ n \in Nat
    BY <1>1, <1>2
  <2>2. w \in Script /\ w.pc = n /\ w.make = FALSE /\ w.role = old.role /\ w.plan = old.plan
    BY <1>1, <2>1 DEF Script
  <2>3. script' = [script EXCEPT ![s] = w]
    BY <1>2 DEF Onward
  <2>4. QED
    BY <1>1, <2>1, <2>2, <2>3 DEF Continues
<1>3. CASE ~(old.pc < Len(p))
  <2> PICK w : w = [NoScript EXCEPT !.plan = "done"]
    OBVIOUS
  <2>1. w \in Script /\ w.plan = "done" /\ w.role = 0 /\ ~w.make
    BY NoScriptType DEF Script, NoScript
  <2>2. script' = [script EXCEPT ![s] = w]
    BY <1>3 DEF Onward
  <2>3. QED
    BY <2>1, <2>2 DEF Continues, Plans
<1>4. QED
  BY <1>2, <1>3

LEMMA QuitMoves ==
    ASSUME NEW s, Quit(s)
    PROVE  Continues(s, NoScript)
BY NoScriptType DEF Quit, Continues, NoScript, Plans

\* A step that writes nothing but its own progress.
LEMMA PlainScriptStep ==
    ASSUME IInv, UNCHANGED requestVars, seeded' \in BOOLEAN,
           UNCHANGED <<table, grants, roleOf>>, NEW s \in Scripts, NEW w,
           Continues(s, w),
           prefs' \in Nat, torn' \in BOOLEAN, starts' \in 0 .. MaxStarts, faults' \in 0 .. MaxFaults
    PROVE  IInv'
<1>1. Grows /\ References' = References
  BY DEF IInv, TypeOK, Grows, References
<1>2. QED
  BY <1>1, ScriptStep DEF IInv, TypeOK

LEMMA LookInv ==
    ASSUME IInv, UNCHANGED requestVars, seeded' \in BOOLEAN, NEW s \in Scripts, Look(s)
    PROVE  IInv'
<1>1. Running(s) /\ Item(s).how \in {"find", "unique"} /\ Item(s) \in Items
  BY ScriptTyped DEF Look, Doing
<1>2. PICK key \in Keys : key = Item(s).key
  BY <1>1 DEF Items
<1>3. CASE Found(key)
  BY <1>1, <1>2, <1>3, OnwardMoves, PlainScriptStep DEF Look, IInv, TypeOK
<1>4. CASE ~Found(key)
  <2> PICK w : w = [script[s] EXCEPT !.make = TRUE]
    OBVIOUS
  <2>2. script' = [script EXCEPT ![s] = w]
    BY <1>2, <1>4 DEF Look
  <2>3. script[s] \in Script /\ ScriptSound(s)
    BY ScriptTyped
  <2>4. /\ w \in Script /\ w.pc = script[s].pc /\ w.plan = script[s].plan
        /\ w.role = script[s].role
    BY <2>3 DEF Script
  <2>5. script[s].plan \in Plans /\ Plan(w.plan)[w.pc] = Item(s)
    BY <1>1, <2>4, ScriptTyped DEF Item
  <2>6. Continues(s, w)
    BY <1>1, <2>2, <2>3, <2>4, <2>5 DEF Continues, ScriptSound, Finding
  <2>7. QED
    BY <2>6, PlainScriptStep DEF Look, IInv, TypeOK
<1>5. QED
  BY <1>3, <1>4

\* A step that adds a row of its table.
LEMMA AddingStep ==
    ASSUME IInv, UNCHANGED requestVars, seeded' \in BOOLEAN, NEW s \in Scripts, Running(s), Onward(s),
           AddRow(Item(s).key),
           roleOf' = roleOf \/ roleOf' = [roleOf EXCEPT !["root"] = script[s].role],
           UNCHANGED <<grants, prefs, torn, starts, faults>>
    PROVE  IInv'
<1>1. PICK key \in Keys : key = Item(s).key
  BY ScriptTyped DEF Items
<1>2. Grows
  BY <1>1, RowAdded DEF IInv
<1>3. PICK w : Continues(s, w)
  BY OnwardMoves
<1>4. References \subseteq References' /\ DOMAIN table["role"] \subseteq DOMAIN table'["role"]
  BY <1>2, GrownReferences DEF IInv
<1>5. script[s].role \in {0} \cup DOMAIN table["role"]
  BY ScriptTyped DEF ScriptSound
<1>6. roleOf' \in [Admins -> {0} \cup DOMAIN table'["role"]]
  BY <1>4, <1>5 DEF IInv, TypeOK
<1>7. QED
  BY <1>2, <1>3, <1>4, <1>6, ScriptStep DEF IInv, TypeOK

LEMMA CreateInv ==
    ASSUME IInv, UNCHANGED requestVars, seeded' \in BOOLEAN, NEW s \in Scripts, Create(s)
    PROVE  IInv'
<1> PICK key : key = Item(s).key
  OBVIOUS
<1>1. Running(s)
  BY ScriptTyped DEF ScriptSound, Create
<1>2. CASE Doing(s, "unique") /\ table[key] # <<>>
  BY <1>2, QuitMoves, PlainScriptStep DEF Create, IInv, TypeOK
<1>3. CASE ~(Doing(s, "unique") /\ table[key] # <<>>)
  <2>1. /\ AddRow(Item(s).key)
        /\ roleOf' = roleOf \/ roleOf' = [roleOf EXCEPT !["root"] = script[s].role]
        /\ Onward(s) /\ UNCHANGED <<grants, prefs, torn, starts, faults>>
    BY <1>1, <1>3 DEF Create
  <2>2. QED
    BY <1>1, <2>1, AddingStep
<1>4. QED
  BY <1>2, <1>3

LEMMA SkipInv ==
    ASSUME IInv, UNCHANGED requestVars, seeded' \in BOOLEAN, NEW s \in Scripts, Skip(s)
    PROVE  IInv'
<1> PICK old : old = script[s]
  OBVIOUS
<1> PICK p : p = Plan(old.plan)
  OBVIOUS
<1> DEFINE rest == {i \in DOMAIN p : p[i].how = "draw"}
<1>1. Running(s) /\ old \in Script /\ ScriptSound(s) /\ p \in Seq(Items)
  BY ScriptTyped DEF Skip, Doing
<1>2. UNCHANGED <<table, grants, roleOf, prefs, torn, starts, faults>>
  BY DEF Skip
<1>3. CASE Onward(s)
  BY <1>1, <1>2, <1>3, OnwardMoves, PlainScriptStep DEF IInv, TypeOK
<1>4. CASE rest = {} /\ script' = [script EXCEPT ![s] = [NoScript EXCEPT !.plan = "done"]]
  <2> PICK w : w = [NoScript EXCEPT !.plan = "done"]
    OBVIOUS
  <2>1. w \in Script /\ w.plan = "done" /\ w.role = 0 /\ ~w.make
    BY NoScriptType DEF Script, NoScript
  <2>2. Continues(s, w)
    BY <1>4, <2>1 DEF Continues, Plans
  <2>3. QED
    BY <1>2, <2>2, PlainScriptStep DEF IInv, TypeOK
<1>5. CASE rest # {} /\ script' = [script EXCEPT ![s] = [old EXCEPT !.pc = CHOOSE i \in rest : TRUE]]
  <2> PICK n : n = CHOOSE i \in rest : TRUE
    OBVIOUS
  <2>1. n \in DOMAIN p /\ n \in Nat /\ p[n].how = "draw"
    BY <1>1, <1>5
  <2> PICK w : w = [old EXCEPT !.pc = n]
    OBVIOUS
  <2>2. w \in Script /\ w.pc = n /\ w.role = old.role /\ w.plan = old.plan
    BY <1>1, <2>1 DEF Script
  <2>3. script' = [script EXCEPT ![s] = w] /\ old.plan \in Plans
    BY <1>1, <1>5, ScriptTyped
  <2>4. ~old.make
    BY <1>1 DEF ScriptSound, Skip, Doing, Finding
  <2>5. w.make = old.make
    BY <1>1 DEF Script
  <2>6. Continues(s, w)
    BY <1>1, <2>1, <2>2, <2>3, <2>4, <2>5 DEF Continues, ScriptSound
  <2>7. QED
    BY <1>2, <2>6, PlainScriptStep DEF IInv, TypeOK
<1>6. QED
  BY <1>3, <1>4, <1>5 DEF Skip

LEMMA DrawInv ==
    ASSUME IInv, UNCHANGED requestVars, seeded' \in BOOLEAN, NEW s \in Scripts, Draw(s)
    PROVE  IInv'
<1>1. Running(s) /\ Onward(s) /\ UNCHANGED <<grants, roleOf, prefs, torn, starts, faults>>
  BY DEF Draw, Doing
<1>2. CASE UNCHANGED table
  BY <1>1, <1>2, OnwardMoves, PlainScriptStep DEF IInv, TypeOK
<1>3. CASE AddRow(Item(s).key)
  BY <1>1, <1>3, AddingStep
<1>4. QED
  BY <1>2, <1>3 DEF Draw

LEMMA InsertInv ==
    ASSUME IInv, UNCHANGED requestVars, seeded' \in BOOLEAN, NEW s \in Scripts, Insert(s)
    PROVE  IInv'
BY AddingStep DEF Insert, Doing

LEMMA ReadRoleInv ==
    ASSUME IInv, UNCHANGED requestVars, seeded' \in BOOLEAN, NEW s \in Scripts, ReadRole(s)
    PROVE  IInv'
<1> PICK old : old = script[s]
  OBVIOUS
<1>1. /\ Running(s) /\ Item(s).how = "role" /\ old \in Script /\ ScriptSound(s)
      /\ old.plan \in Plans /\ Plan(old.plan) \in Seq(Items) /\ old.pc < Len(Plan(old.plan))
  BY ScriptTyped DEF ReadRole, Doing
<1>2. PICK r \in {0} \cup DOMAIN table["role"] :
         script' = [script EXCEPT ![s].pc = @ + 1, ![s].role = r]
  BY DEF ReadRole
<1>3. r \in Nat /\ old.pc \in Nat
  BY <1>1, <1>2, KeysKnown DEF IInv, TypeOK, Script
<1> PICK n : n = old.pc + 1
  OBVIOUS
<1>4. n \in Nat /\ n \in DOMAIN Plan(old.plan)
  BY <1>1, <1>3
<1> PICK w : w = [old EXCEPT !.pc = n, !.role = r]
  OBVIOUS
<1>5. w \in Script /\ w.pc = n /\ w.role = r /\ w.plan = old.plan /\ w.make = old.make
  BY <1>1, <1>3, <1>4 DEF Script
<1>6. script' = [script EXCEPT ![s] = w]
  BY <1>2
<1>7. ~old.make
  BY <1>1 DEF ScriptSound, Finding
<1>8. Continues(s, w)
  BY <1>1, <1>4, <1>5, <1>6, <1>7 DEF Continues, ScriptSound
<1>9. QED
  BY <1>8, PlainScriptStep DEF ReadRole, IInv, TypeOK

LEMMA LookGrantInv ==
    ASSUME IInv, UNCHANGED requestVars, seeded' \in BOOLEAN, NEW s \in Scripts, LookGrant(s)
    PROVE  IInv'
<1> PICK old : old = script[s]
  OBVIOUS
<1> PICK p : p = Item(s).key
  OBVIOUS
<1>1. /\ Running(s) /\ Item(s).how = "grant" /\ old \in Script /\ ScriptSound(s) /\ p \in Perms
      /\ old.plan \in Plans
  BY ScriptTyped DEF LookGrant, Doing, Items
<1>2. UNCHANGED <<table, grants, roleOf, prefs, torn, starts, faults>>
  BY DEF LookGrant
<1>3. CASE Onward(s)
  BY <1>1, <1>2, <1>3, OnwardMoves, PlainScriptStep DEF IInv, TypeOK
<1>4. CASE ~Onward(s)
  <2> PICK w : w = [old EXCEPT !.make = TRUE]
    OBVIOUS
  <2>1. old.role # 0 /\ Found(p) /\ script' = [script EXCEPT ![s] = w]
    BY <1>4 DEF LookGrant
  <2>2. <<old.role, p>> \in References
    BY <1>1, <2>1 DEF ScriptSound, References, Found
  <2>3. w \in Script /\ w.pc = old.pc /\ w.role = old.role /\ w.plan = old.plan
    BY <1>1 DEF Script
  <2>4. Plan(w.plan)[w.pc] = Item(s)
    BY <2>3 DEF Item
  <2>5. Continues(s, w)
    BY <1>1, <2>1, <2>2, <2>3, <2>4 DEF Continues, ScriptSound, Finding
  <2>6. QED
    BY <1>2, <2>5, PlainScriptStep DEF IInv, TypeOK
<1>5. QED
  BY <1>3, <1>4

\* The role and the permission it had found are there still.
LEMMA CreateGrantInv ==
    ASSUME IInv, UNCHANGED requestVars, seeded' \in BOOLEAN, NEW s \in Scripts, CreateGrant(s)
    PROVE  IInv'
<1>1. /\ Running(s) /\ UNCHANGED <<table, roleOf, prefs, torn, starts, faults>>
      /\ Onward(s) \/ Quit(s)
  BY DEF CreateGrant, Doing
<1>2. PICK w : Continues(s, w)
  BY <1>1, OnwardMoves, QuitMoves
<1>3. <<script[s].role, Item(s).key>> \in References
  BY ScriptTyped DEF CreateGrant, ScriptSound
<1>4. Grows /\ References' = References
  BY <1>1 DEF IInv, TypeOK, Grows, References
<1>5. grants \subseteq grants' /\ grants' \subseteq References'
  BY <1>3, <1>4 DEF CreateGrant, IInv, TypeOK
<1>6. QED
  BY <1>1, <1>2, <1>4, <1>5, ScriptStep DEF IInv, TypeOK

LEMMA ClearInv ==
    ASSUME IInv, UNCHANGED requestVars, seeded' \in BOOLEAN, NEW s \in Scripts, Clear(s)
    PROVE  IInv'
<1>1. Running(s) /\ Onward(s) /\ UNCHANGED <<table, grants, roleOf, starts, faults>>
  BY DEF Clear, Doing
<1>2. prefs' \in Nat /\ torn' \in BOOLEAN
  BY DEF Clear
<1>3. QED
  BY <1>1, <1>2, OnwardMoves, PlainScriptStep DEF IInv, TypeOK

LEMMA AddInv ==
    ASSUME IInv, UNCHANGED requestVars, seeded' \in BOOLEAN, NEW s \in Scripts, Add(s)
    PROVE  IInv'
<1>1. Running(s) /\ Onward(s) /\ UNCHANGED <<table, grants, roleOf, torn, starts, faults>>
  BY DEF Add, Doing
<1>2. prefs' \in Nat
  BY DEF Add, IInv, TypeOK
<1>3. QED
  BY <1>1, <1>2, OnwardMoves, PlainScriptStep DEF IInv, TypeOK

LEMMA StartScriptInv ==
    ASSUME IInv, UNCHANGED requestVars, seeded' \in BOOLEAN, NEW s \in Scripts, NEW plan \in Plans, StartScript(s, plan)
    PROVE  IInv'
<1> PICK w : w = [NoScript EXCEPT !.plan = plan, !.pc = 1, !.clean = TRUE, !.again = seeded]
  OBVIOUS
<1>1. w \in Script /\ w.plan = plan /\ w.pc = 1 /\ w.role = 0 /\ ~w.make
  <2>1. seeded \in BOOLEAN
    BY DEF IInv, TypeOK
  <2>2. QED
    BY <2>1, NoScriptType DEF Script, NoScript, Plans
<1>2. 1 \in DOMAIN Plan(plan)
  <2>1. Plan(plan) \in Seq(Items) /\ Plan(plan) # <<>>
    BY PlanType DEF GoodPlan
  <2>2. QED
    BY <2>1
<1>3. Continues(s, w)
  BY <1>1, <1>2 DEF Continues, StartScript
<1>4. starts' \in 0 .. MaxStarts
  BY SeedsAssumption DEF StartScript, IInv, TypeOK
<1>5. QED
  BY <1>3, <1>4, PlainScriptStep DEF StartScript, IInv, TypeOK

LEMMA StopInv ==
    ASSUME IInv, UNCHANGED requestVars, seeded' \in BOOLEAN, NEW s \in Scripts, Stop(s)
    PROVE  IInv'
<1>1. faults' \in 0 .. MaxFaults /\ torn' \in BOOLEAN
  BY SeedsAssumption DEF Stop, IInv, TypeOK
<1>2. QED
  BY <1>1, QuitMoves, PlainScriptStep DEF Stop, IInv, TypeOK

LEMMA SeedNextInv ==
    ASSUME IInv, SeedNext, UNCHANGED requestVars
    PROVE  IInv'
<1>1. seeded' \in BOOLEAN
  BY DEF SeedNext, IInv, TypeOK
<1>2. PICK s \in Scripts : Proceed(s) \/ Stop(s) \/ \E plan \in Plans : StartScript(s, plan)
  BY DEF SeedNext, Plans
<1>3. QED
  BY <1>1, <1>2, LookInv, CreateInv, SkipInv, DrawInv, InsertInv, ReadRoleInv, LookGrantInv,
     CreateGrantInv, ClearInv, AddInv, StartScriptInv, StopInv DEF Proceed

-----------------------------------------------------------------------------
(* Requests.                                                               *)

\* A request writes what does not concern the scripts.
LEMMA RequestStep ==
    ASSUME IInv, Grows, script' \in [Scripts -> Script],
           \A s \in Scripts : \E c \in BOOLEAN : script'[s] = [script[s] EXCEPT !.clean = c],
           NEW h \in Handlers, NEW j \in Job, job' = [job EXCEPT ![h] = j], JobSound(h)',
           decided' >= decided, decided' <= moves', decided' \in Nat,
           moves' \in 0 .. MaxMoves, TypeOK', Authorised'
    PROVE  IInv'
<1>1. job' \in [Handlers -> Job] /\ \A g \in Handlers \ {h} : job'[g] = job[g]
  BY DEF IInv, TypeOK
<1>2. ASSUME NEW g \in Handlers
      PROVE  JobSound(g)'
  BY <1>1, JobStays DEF IInv
<1>3. ASSUME NEW s \in Scripts
      PROVE  ScriptSound(s)'
  <2>1. script[s] \in Script /\ ScriptSound(s)
    BY ScriptTyped
  <2>2. /\ script'[s].plan = script[s].plan /\ script'[s].pc = script[s].pc
        /\ script'[s].make = script[s].make
        /\ script'[s].role = script[s].role
    BY <2>1 DEF Script
  <2>3. Running(s)' = Running(s) /\ Item(s)' = Item(s) /\ Doing(s, "grant")' = Doing(s, "grant")
    BY <2>2 DEF Running, Item, Doing
  <2>4. QED
    BY <2>1, <2>2, <2>3, GrownReferences DEF ScriptSound, IInv
<1>4. QED
  BY <1>2, <1>3 DEF IInv

\* A request comes in: its handler was free.
LEMMA LetInMoves ==
    ASSUME IInv, NEW h, LetIn(h)
    PROVE  job[h] = NoJob /\ moves' = moves + 1 /\ moves' \in 0 .. MaxMoves /\ moves' \in Nat
BY AdministrationAssumption DEF LetIn, IInv, TypeOK

\* What a request does without the scripts' rows or its own progress.
Same == UNCHANGED <<roleOf, faults, seedVars, decided, word, excused>>

\* Its own step waits for nothing, or it was not waiting to assign.
LEMMA WaitingStays ==
    ASSUME IInv, NEW h \in Handlers, NEW j, job' = [job EXCEPT ![h] = j],
           job[h].at # "assign" \/ cut', cut => cut',
           grants \subseteq grants', asked' \subseteq asked
    PROVE  Authorised'
<1>1. \A g \in Handlers \ {h} : job'[g] = job[g]
  BY DEF IInv, TypeOK
<1>2. \A g \in asked : Waiting(g) /\ job[h].at # "assign" => Waiting(g)'
  BY <1>1 DEF Waiting
<1>3. QED
  BY <1>2 DEF IInv, Authorised

LEMMA TableKept ==
    ASSUME IInv, UNCHANGED table
    PROVE  Grows /\ References' = References /\ Known' = Known
BY DEF IInv, TypeOK, Grows, References, Known, Found

\* A request that only tells, decides or fails.
LEMMA QuietStep ==
    ASSUME IInv, UNCHANGED <<table, grants, roleOf, seedVars>>, NEW h \in Handlers, NEW j \in Job,
           job' = [job EXCEPT ![h] = j], j.at # "assign", j.n <= decided',
           job[h].at # "assign" \/ cut', cut => cut', cut' \in BOOLEAN, asked' = asked,
           decided' \in 0 .. MaxMoves, decided' >= decided, decided' <= moves',
           word' \in 0 .. decided', excused' \in BOOLEAN,
           moves' \in 0 .. MaxMoves, faults' \in 0 .. MaxFaults
    PROVE  IInv'
<1>1. Grows /\ References' = References
  BY TableKept
<1>2. job' \in [Handlers -> Job] /\ job'[h] = j
  BY DEF IInv, TypeOK
<1>3. UNCHANGED <<prefs, seeded, torn, script, starts>>
  BY DEF seedVars
<1>4. TypeOK'
  BY <1>1, <1>2, <1>3 DEF IInv, TypeOK
<1>5. Authorised'
  BY WaitingStays
<1>6. JobSound(h)'
  BY <1>2 DEF JobSound
<1>7. \A s \in Scripts : \E c \in BOOLEAN : script'[s] = [script[s] EXCEPT !.clean = c]
  BY <1>3 DEF IInv, TypeOK, Script
<1>8. script' \in [Scripts -> Script] /\ decided' \in Nat
  BY <1>3 DEF IInv, TypeOK
<1>9. QED
  BY <1>1, <1>4, <1>5, <1>6, <1>7, <1>8, RequestStep

\* A row or a grant is added, or a row is marked deleted.
LEMMA WritingStep ==
    ASSUME IInv, Grows, grants \subseteq grants', grants' \subseteq References',
           UNCHANGED <<roleOf, faults, seedVars, decided, word, excused, asked, cut>>,
           NEW h \in Handlers, NEW j \in Job, job' = [job EXCEPT ![h] = j],
           j.at # "assign", j.n = 0, job[h].at # "assign",
           moves' \in 0 .. MaxMoves, moves' >= moves
    PROVE  IInv'
<1>1. job' \in [Handlers -> Job] /\ job'[h] = j
  BY DEF IInv, TypeOK
<1>2. References \subseteq References' /\ DOMAIN table["role"] \subseteq DOMAIN table'["role"]
  BY GrownReferences DEF IInv
<1>3. UNCHANGED <<prefs, seeded, torn, script, starts>>
  BY DEF seedVars
<1>4. TypeOK'
  <2>1. table' \in [Keys -> Seq(Entry)]
    BY DEF Grows
  <2>2. roleOf' \in [Admins -> {0} \cup DOMAIN table'["role"]] /\ asked' \subseteq References'
    BY <1>2 DEF IInv, TypeOK
  <2>3. QED
    BY <1>1, <1>3, <2>1, <2>2 DEF IInv, TypeOK
<1>5. Authorised'
  BY WaitingStays
<1>6. JobSound(h)'
  BY <1>1 DEF JobSound, IInv, TypeOK
<1>7. \A s \in Scripts : \E c \in BOOLEAN : script'[s] = [script[s] EXCEPT !.clean = c]
  BY <1>3 DEF IInv, TypeOK, Script
<1>8. /\ script' \in [Scripts -> Script] /\ decided' \in Nat /\ decided' >= decided
      /\ decided' <= moves'
  BY <1>3, AdministrationAssumption DEF IInv, TypeOK
<1>9. QED
  BY <1>1, <1>4, <1>5, <1>6, <1>7, <1>8, RequestStep

\* The handler stays free.
LEMMA StaysFree ==
    ASSUME IInv, NEW h \in Handlers, job[h] = NoJob, UNCHANGED job
    PROVE  job' = [job EXCEPT ![h] = NoJob]
BY DEF IInv, TypeOK

LEMMA UpdateSettingsInv ==
    ASSUME IInv, NEW h \in Handlers, UpdateSettings(h)
    PROVE  IInv'
<1>1. job[h] = NoJob /\ moves' = moves + 1 /\ moves' \in 0 .. MaxMoves /\ moves' \in Nat
  BY LetInMoves DEF UpdateSettings
<1>2. moves' >= moves /\ job[h].at # "assign"
  BY <1>1, NoJobType DEF IInv, TypeOK
<1>3. UNCHANGED <<table, grants, roleOf, faults, seedVars, decided, word, excused, asked, cut>>
  BY DEF UpdateSettings
<1>4. PICK j \in Job : j.at # "assign" /\ j.n = 0 /\ job' = [job EXCEPT ![h] = j]
  <2>1. CASE Found("settings")
    BY <1>1, <2>1, NoJobType, StaysFree DEF UpdateSettings
  <2>2. CASE ~Found("settings")
    <3> PICK j : j = [NoJob EXCEPT !.at = "settings"]
      OBVIOUS
    <3>1. j \in Job /\ j.at = "settings" /\ j.n = 0
      BY NoJobType DEF Job
    <3>2. job' = [job EXCEPT ![h] = j]
      BY <2>2 DEF UpdateSettings, Begin
    <3>3. QED
      BY <3>1, <3>2
  <2>3. QED
    BY <2>1, <2>2
<1>5. Grows /\ grants \subseteq grants' /\ grants' \subseteq References'
  BY <1>3, TableKept DEF IInv, TypeOK
<1>6. QED
  BY <1>1, <1>2, <1>3, <1>4, <1>5, WritingStep

LEMMA CreateSettingsInv ==
    ASSUME IInv, NEW h \in Handlers, CreateSettings(h)
    PROVE  IInv'
<1>1. job[h].at = "settings"
  BY DEF CreateSettings
<1>3. Grows
  BY RowAdded DEF CreateSettings, IInv, Keys
<1>4. grants \subseteq grants' /\ grants' \subseteq References'
  BY <1>3, GrownReferences DEF CreateSettings, IInv, TypeOK
<1>5. job' = [job EXCEPT ![h] = NoJob] /\ moves' \in 0 .. MaxMoves /\ moves' >= moves
  BY AdministrationAssumption DEF CreateSettings, Finish, IInv, TypeOK
<1>6. QED
  BY <1>1, <1>3, <1>4, <1>5, NoJobType, WritingStep DEF CreateSettings

LEMMA CreateParameterInv ==
    ASSUME IInv, NEW h \in Handlers, CreateParameter(h)
    PROVE  IInv'
<1>1. job[h] = NoJob /\ moves' = moves + 1 /\ moves' \in 0 .. MaxMoves /\ moves' \in Nat
  BY LetInMoves DEF CreateParameter
<1>2. moves' >= moves /\ job[h].at # "assign"
  BY <1>1, NoJobType DEF IInv, TypeOK
<1>3. Grows
  BY RowAdded DEF CreateParameter, IInv, Keys
<1>4. grants \subseteq grants' /\ grants' \subseteq References'
  BY <1>3, GrownReferences DEF CreateParameter, IInv, TypeOK
<1>5. job' = [job EXCEPT ![h] = NoJob]
  BY <1>1, StaysFree DEF CreateParameter
<1>6. QED
  BY <1>1, <1>2, <1>3, <1>4, <1>5, NoJobType, WritingStep DEF CreateParameter

LEMMA DeleteParameterInv ==
    ASSUME IInv, NEW h \in Handlers, DeleteParameter(h)
    PROVE  IInv'
<1>1. job[h] = NoJob /\ moves' = moves + 1 /\ moves' \in 0 .. MaxMoves /\ moves' \in Nat
  BY LetInMoves DEF DeleteParameter
<1>2. moves' >= moves /\ job[h].at # "assign"
  BY <1>1, NoJobType DEF IInv, TypeOK
<1>3. PICK r \in DOMAIN table["role"] : table' = [table EXCEPT !["role"][r].gone = TRUE]
  BY DEF DeleteParameter
<1> PICK old : old = table["role"]
  OBVIOUS
<1>4. old \in Seq(Entry) /\ old[r] \in Entry /\ r \in DOMAIN old
  BY <1>3, KeysKnown DEF IInv, TypeOK
<1> PICK row : row = [old[r] EXCEPT !.gone = TRUE]
  OBVIOUS
<1>5. row \in Entry
  BY <1>4 DEF Entry
<1> PICK new : new = [old EXCEPT ![r] = row]
  OBVIOUS
<1>6. new \in Seq(Entry) /\ DOMAIN new = DOMAIN old
  BY <1>4, <1>5
<1>7. table' = [table EXCEPT !["role"] = new]
  BY <1>3
<1>8. table'["role"] = new /\ \A k \in Keys \ {"role"} : table'[k] = table[k]
  BY <1>7, KeysKnown DEF IInv, TypeOK
<1>9. table' \in [Keys -> Seq(Entry)]
  BY <1>6, <1>7 DEF IInv, TypeOK
<1>10. Grows
  <2>1. \A k \in Keys : DOMAIN table[k] \subseteq DOMAIN table'[k]
    BY <1>6, <1>8
  <2>2. QED
    BY <1>9, <2>1 DEF Grows
<1>11. grants \subseteq grants' /\ grants' \subseteq References'
  BY <1>10, GrownReferences DEF DeleteParameter, IInv, TypeOK
<1>12. job' = [job EXCEPT ![h] = NoJob]
  BY <1>1, StaysFree DEF DeleteParameter
<1>13. QED
  BY <1>1, <1>2, <1>10, <1>11, <1>12, NoJobType, WritingStep DEF DeleteParameter

LEMMA AssignInv ==
    ASSUME IInv, NEW h \in Handlers, AssignPermissionToRole(h)
    PROVE  IInv'
<1>1. job[h] = NoJob /\ moves' = moves + 1 /\ moves' \in 0 .. MaxMoves /\ moves' \in Nat
  BY LetInMoves DEF AssignPermissionToRole
<1>2. moves' >= moves /\ job[h].at # "assign"
  BY <1>1, NoJobType DEF IInv, TypeOK
<1>3. Grows /\ References' = References
  BY TableKept DEF AssignPermissionToRole
<1>4. grants \subseteq grants' /\ grants' \subseteq References
  BY DEF AssignPermissionToRole, IInv, TypeOK, References, Known, Found
<1>5. job' = [job EXCEPT ![h] = NoJob]
  BY <1>1, StaysFree DEF AssignPermissionToRole
<1>6. QED
  BY <1>1, <1>2, <1>3, <1>4, <1>5, NoJobType, WritingStep DEF AssignPermissionToRole

\* A grant is taken away, and asked for no longer.
LEMMA RemoveInv ==
    ASSUME IInv, NEW h \in Handlers, RemovePermissionFromRole(h)
    PROVE  IInv'
<1>1. job[h] = NoJob /\ moves' = moves + 1 /\ moves' \in 0 .. MaxMoves /\ moves' \in Nat
  BY LetInMoves DEF RemovePermissionFromRole
<1>2. /\ UNCHANGED <<table, roleOf, faults, prefs, seeded, torn, starts, decided, word, excused, cut, job>>
      /\ script' = [s \in Scripts |-> [script[s] EXCEPT !.clean = FALSE]]
  BY DEF RemovePermissionFromRole
<1>3. PICK g \in grants : grants' = grants \ {g} /\ asked' = asked \ {g}
  BY DEF RemovePermissionFromRole
<1>4. Grows /\ References' = References
  BY <1>2, TableKept
<1>5. \A s \in Scripts : [script[s] EXCEPT !.clean = FALSE] \in Script
  BY DEF IInv, TypeOK, Script
<1>6. script' \in [Scripts -> Script]
  BY <1>2, <1>5
<1>7. TypeOK'
  BY <1>1, <1>2, <1>3, <1>4, <1>6 DEF IInv, TypeOK
<1>8. Authorised'
  <2>1. \A x : Waiting(x)' = Waiting(x)
    BY <1>2 DEF Waiting
  <2>2. QED
    BY <1>2, <1>3, <2>1 DEF IInv, Authorised
<1>9. job' = [job EXCEPT ![h] = NoJob]
  BY <1>1, <1>2, StaysFree
<1>10. JobSound(h)'
  BY <1>1, <1>2, NoJobType DEF JobSound, IInv, TypeOK
<1>11. \A s \in Scripts : \E c \in BOOLEAN : script'[s] = [script[s] EXCEPT !.clean = c]
  BY <1>2
<1>12. decided' >= decided /\ decided' <= moves' /\ decided' \in Nat
  BY <1>1, <1>2, AdministrationAssumption DEF IInv, TypeOK
<1>13. QED
  BY <1>1, <1>4, <1>6, <1>7, <1>8, <1>9, <1>10, <1>11, <1>12, NoJobType, RequestStep

\* The account is stored, and its permissions are waited for.
LEMMA CreateSubAdminInv ==
    ASSUME IInv, NEW h \in Handlers, CreateSubAdmin(h)
    PROVE  IInv'
<1>1. job[h] = NoJob /\ moves' = moves + 1 /\ moves' \in 0 .. MaxMoves /\ moves' \in Nat
  BY LetInMoves DEF CreateSubAdmin
<1>2. /\ UNCHANGED <<table, grants, faults, seedVars, decided, word, excused, cut>>
      /\ UNCHANGED <<prefs, seeded, torn, script, starts>>
  BY DEF CreateSubAdmin, seedVars
<1>3. PICK r \in DOMAIN table["role"], want \in SUBSET Known :
         /\ roleOf' = [roleOf EXCEPT !["sub"] = r]
         /\ asked' = {r} \X want
         /\ IF want = {} THEN UNCHANGED job
            ELSE Begin(h, [NoJob EXCEPT !.at = "assign", !.role = r, !.want = want])
  BY DEF CreateSubAdmin
<1>4. Grows /\ References' = References /\ Known' = Known
  BY <1>2, TableKept
<1>5. r \in Nat /\ want \in SUBSET Perms
  BY <1>3, KeysKnown DEF IInv, TypeOK, Known
<1> PICK next : next = [NoJob EXCEPT !.at = "assign", !.role = r, !.want = want]
  OBVIOUS
<1>6. /\ next \in Job /\ next.at = "assign" /\ next.role = r /\ next.want = want
      /\ next.n = 0
  BY <1>5, NoJobType DEF Job
<1>7. PICK j \in Job : /\ job' = [job EXCEPT ![h] = j] /\ j.n = 0
                       /\ j = IF want = {} THEN NoJob ELSE next
  BY <1>1, <1>3, <1>6, NoJobType, StaysFree DEF Begin
<1>8. job' \in [Handlers -> Job] /\ job'[h] = j
  BY <1>7 DEF IInv, TypeOK
<1>9. roleOf' \in [Admins -> {0} \cup DOMAIN table'["role"]]
  BY <1>2, <1>3 DEF IInv, TypeOK
<1>10. asked' \subseteq References'
  BY <1>3, <1>4 DEF References, Known, Found
<1>11. TypeOK'
  BY <1>1, <1>2, <1>4, <1>8, <1>9, <1>10 DEF IInv, TypeOK
<1>12. Authorised'
  <2>1. want # {} => \A g \in asked' : Waiting(g)'
    BY <1>3, <1>6, <1>7, <1>8 DEF Waiting
  <2>2. want = {} => asked' = {}
    BY <1>3
  <2>3. QED
    BY <2>1, <2>2 DEF Authorised
<1>13. JobSound(h)'
  BY <1>2, <1>3, <1>4, <1>6, <1>7, <1>8, NoJobType DEF JobSound, IInv, TypeOK
<1>14. \A s \in Scripts : \E c \in BOOLEAN : script'[s] = [script[s] EXCEPT !.clean = c]
  BY <1>2 DEF IInv, TypeOK, Script
<1>15. /\ script' \in [Scripts -> Script] /\ decided' >= decided /\ decided' <= moves'
       /\ decided' \in Nat
  BY <1>1, <1>2, AdministrationAssumption DEF IInv, TypeOK
<1>16. QED
  BY <1>1, <1>4, <1>7, <1>11, <1>12, <1>13, <1>14, <1>15, RequestStep

\* skipDuplicates: what was granted meanwhile stays.
LEMMA AssignBulkInv ==
    ASSUME IInv, NEW h \in Handlers, assignPermissionsBulk(h)
    PROVE  IInv'
<1> PICK new : new = {job[h].role} \X job[h].want
  OBVIOUS
<1>1. /\ job[h].at = "assign" /\ grants' = grants \cup new /\ job' = [job EXCEPT ![h] = NoJob]
      /\ UNCHANGED <<table, roleOf, faults, decided, word, excused, asked, cut, moves>>
      /\ UNCHANGED <<prefs, seeded, torn, script, starts>>
  BY DEF assignPermissionsBulk, Finish, seedVars
<1>2. new \subseteq References
  BY <1>1 DEF IInv, JobSound, References, Known, Found
<1>3. Grows /\ References' = References
  BY <1>1, TableKept
<1>4. /\ job' \in [Handlers -> Job] /\ job'[h] = NoJob
      /\ \A g \in Handlers \ {h} : job'[g] = job[g]
  BY <1>1, NoJobType DEF IInv, TypeOK
<1>5. TypeOK'
  BY <1>1, <1>2, <1>3, <1>4 DEF IInv, TypeOK
<1>6. Authorised'
  <2>1. \A x : Waiting(x) => x \in new \/ Waiting(x)'
    BY <1>4 DEF Waiting
  <2>2. QED
    BY <1>1, <2>1 DEF IInv, Authorised
<1>7. JobSound(h)'
  BY <1>1, <1>4, NoJobType DEF JobSound, IInv, TypeOK
<1>8. \A s \in Scripts : \E c \in BOOLEAN : script'[s] = [script[s] EXCEPT !.clean = c]
  BY <1>1 DEF IInv, TypeOK, Script
<1>9. /\ script' \in [Scripts -> Script] /\ decided' >= decided /\ decided' <= moves'
      /\ decided' \in Nat /\ moves' \in 0 .. MaxMoves
  BY <1>1, AdministrationAssumption DEF IInv, TypeOK
<1>10. QED
  BY <1>1, <1>3, <1>5, <1>6, <1>7, <1>8, <1>9, NoJobType, RequestStep

LEMMA DecideInv ==
    ASSUME IInv, NEW h \in Handlers, Decide(h)
    PROVE  IInv'
<1>1. job[h] = NoJob /\ moves' = moves + 1 /\ moves' \in 0 .. MaxMoves /\ moves' \in Nat
  BY LetInMoves DEF Decide
<1>2. /\ decided \in Nat /\ moves \in Nat /\ decided' = decided + 1
      /\ UNCHANGED <<table, grants, roleOf, faults, seedVars, word, excused, asked, cut>>
  BY AdministrationAssumption DEF Decide, IInv, TypeOK
<1> PICK n : n = decided + 1
  OBVIOUS
<1> PICK j : j = [NoJob EXCEPT !.at = "word", !.n = n]
  OBVIOUS
<1>3. n \in Nat
  BY <1>2
<1>4. j \in Job /\ j.at = "word" /\ j.n = n
  BY <1>3, NoJobType DEF Job
<1>5. job' = [job EXCEPT ![h] = j]
  BY DEF Decide, Begin
<1>6. /\ decided' \in 0 .. MaxMoves /\ decided' >= decided /\ decided' <= moves'
      /\ j.n <= decided' /\ word' \in 0 .. decided'
  BY <1>1, <1>2, <1>4, AdministrationAssumption DEF IInv, TypeOK
<1>7. excused' \in BOOLEAN /\ cut' \in BOOLEAN /\ faults' \in 0 .. MaxFaults /\ asked' = asked
      /\ job[h].at # "assign" /\ (cut => cut')
  BY <1>1, <1>2, NoJobType DEF IInv, TypeOK
<1>8. QED
  BY <1>1, <1>2, <1>4, <1>5, <1>6, <1>7, QuietStep

LEMMA TellDecisionInv ==
    ASSUME IInv, NEW h \in Handlers, TellDecision(h)
    PROVE  IInv'
<1>1. /\ job[h].at = "word" /\ job' = [job EXCEPT ![h] = NoJob] /\ word' = job[h].n
      /\ UNCHANGED <<table, grants, roleOf, faults, seedVars, decided, asked, cut, moves>>
      /\ excused' \in BOOLEAN
  BY DEF TellDecision, Finish
<1>2. job[h] \in Job /\ job[h].n <= decided /\ decided \in Nat /\ decided <= moves
  BY AdministrationAssumption DEF IInv, TypeOK, JobSound
<1>3. word' \in 0 .. decided' /\ decided' \in 0 .. MaxMoves /\ decided' >= decided
      /\ decided' <= moves' /\ NoJob.n <= decided' /\ moves' \in 0 .. MaxMoves
  BY <1>1, <1>2, NoJobType DEF Job, IInv, TypeOK
<1>4. cut' \in BOOLEAN /\ faults' \in 0 .. MaxFaults /\ (cut => cut')
  BY <1>1 DEF IInv, TypeOK
<1>5. QED
  BY <1>1, <1>3, <1>4, NoJobType, QuietStep

LEMMA FailInv ==
    ASSUME IInv, NEW h \in Handlers, Fail(h)
    PROVE  IInv'
<1>1. /\ job' = [job EXCEPT ![h] = NoJob] /\ faults' = faults + 1 /\ faults < MaxFaults
      /\ UNCHANGED <<table, grants, roleOf, seedVars, decided, word, asked, moves>>
      /\ cut' = (cut \/ job[h].at = "assign") /\ excused' = (excused \/ job[h].at = "word")
  BY DEF Fail, Finish
<1>2. cut' \in BOOLEAN /\ excused' \in BOOLEAN /\ (cut => cut') /\ (job[h].at # "assign" \/ cut')
  BY <1>1 DEF IInv, TypeOK
<1>3. faults' \in 0 .. MaxFaults
  BY <1>1, SeedsAssumption DEF IInv, TypeOK
<1>4. /\ decided' \in 0 .. MaxMoves /\ decided' >= decided /\ decided' <= moves'
      /\ NoJob.n <= decided' /\ word' \in 0 .. decided' /\ moves' \in 0 .. MaxMoves
  BY <1>1, NoJobType, AdministrationAssumption DEF IInv, TypeOK
<1>5. QED
  BY <1>1, <1>2, <1>3, <1>4, NoJobType, QuietStep

\* Nobody is told: no handler is involved.
LEMMA DecideSilentlyInv ==
    ASSUME IInv, DecideSilently
    PROVE  IInv'
<1>1. /\ moves \in Nat /\ decided \in Nat /\ moves' = moves + 1 /\ decided' = decided + 1
      /\ moves < MaxMoves /\ excused' = TRUE
      /\ UNCHANGED <<table, grants, roleOf, faults, word, asked, cut, job>>
      /\ UNCHANGED <<prefs, seeded, torn, script, starts>>
  BY AdministrationAssumption DEF DecideSilently, seedVars, IInv, TypeOK
<1>2. /\ decided' \in 0 .. MaxMoves /\ word' \in 0 .. decided' /\ moves' \in 0 .. MaxMoves
      /\ decided' <= moves'
  BY <1>1, AdministrationAssumption DEF IInv, TypeOK
<1>3. Grows /\ References' = References
  BY <1>1, TableKept
<1>4. TypeOK'
  BY <1>1, <1>2, <1>3 DEF IInv, TypeOK
<1>5. \A s \in Scripts : ScriptSound(s)'
  BY <1>1, <1>3, ScriptStays DEF IInv
<1>6. \A h \in Handlers : JobSound(h)'
  BY <1>1, <1>3, JobStays DEF IInv
<1>7. Authorised'
  BY <1>1 DEF IInv, Authorised, Waiting
<1>8. QED
  BY <1>2, <1>3, <1>4, <1>5, <1>6, <1>7 DEF IInv

-----------------------------------------------------------------------------
\* The tables before any script of the model has run.
LEMMA SeededTables ==
    ASSUME SeedInit
    PROVE  /\ table \in [Keys -> Seq(Entry)]
           /\ grants \subseteq References
           /\ roleOf \in [Admins -> {0} \cup DOMAIN table["role"]]
<1>1. PICK demo \in BOOLEAN :
         /\ table = [k \in Keys |-> IF demo /\ k \in DemoKeys THEN DemoRows(k) ELSE <<>>]
         /\ grants = IF demo THEN {1} \X DemoPerms ELSE {}
         /\ roleOf = [a \in Admins |-> IF demo /\ a = "root" THEN 1 ELSE 0]
  BY DEF SeedInit
<1>2. \A k \in Keys : DemoRows(k) \in Seq(Entry) /\ 1 \in DOMAIN DemoRows(k)
  <2>1. [gone |-> FALSE] \in Entry
    BY DEF Entry
  <2>2. QED
    BY <2>1 DEF DemoRows
<1>3. table \in [Keys -> Seq(Entry)]
  BY <1>1, <1>2
<1>4. CASE demo
  <2>1. 1 \in DOMAIN table["role"]
    BY <1>1, <1>2, <1>4, KeysKnown DEF DemoKeys
  <2>2. ASSUME NEW p \in DemoPerms
        PROVE  p \in Perms /\ table[p] # <<>>
    BY <1>1, <1>2, <1>4, SeedsAssumption, KeysKnown DEF DemoKeys
  <2>3. QED
    BY <1>1, <1>3, <1>4, <2>1, <2>2 DEF References
<1>5. QED
  BY <1>1, <1>3, <1>4

LEMMA InitInv ==
    ASSUME Init
    PROVE  IInv
<1>1. \A s \in Scripts : script[s] = NoScript /\ \A h \in Handlers : job[h] = NoJob
  BY DEF Init, SeedInit
<1>2. /\ table \in [Keys -> Seq(Entry)] /\ grants \subseteq References
      /\ roleOf \in [Admins -> {0} \cup DOMAIN table["role"]]
  BY SeededTables DEF Init
<1>3. script \in [Scripts -> Script] /\ job \in [Handlers -> Job]
  BY NoScriptType, NoJobType DEF Init, SeedInit
<1>4. TypeOK
  <2>1. asked \subseteq References
    BY DEF Init
  <2>2. /\ 0 \in 0 .. MaxStarts /\ 0 \in 0 .. MaxFaults /\ 0 \in 0 .. MaxMoves
        /\ 0 \in Nat /\ 0 \in 0 .. 0
    BY SeedsAssumption, AdministrationAssumption
  <2>3. /\ starts = 0 /\ faults = 0 /\ moves = 0 /\ decided = 0 /\ word = 0 /\ prefs = 0
        /\ seeded = FALSE /\ torn = TRUE /\ excused = FALSE /\ cut = FALSE
    BY DEF Init, SeedInit
  <2>4. QED
    BY <1>2, <1>3, <2>1, <2>2, <2>3 DEF TypeOK
<1>5. \A s \in Scripts : ScriptSound(s)
  BY NoScriptType DEF Init, SeedInit, ScriptSound, Running, NoScript
<1>6. \A h \in Handlers : JobSound(h)
  BY NoJobType DEF Init, JobSound
<1>7. Authorised /\ decided <= moves
  BY DEF Init, Authorised
<1>8. QED
  BY <1>4, <1>5, <1>6, <1>7 DEF IInv

LEMMA StepInv ==
    ASSUME IInv, [Next]_vars
    PROVE  IInv'
<1>1. ASSUME NEW h \in Handlers, Request(h) \/ Advance(h) \/ Fail(h)
      PROVE  IInv'
  BY <1>1, UpdateSettingsInv, CreateParameterInv, DeleteParameterInv, AssignInv, RemoveInv,
     CreateSubAdminInv, DecideInv, CreateSettingsInv, AssignBulkInv, TellDecisionInv, FailInv
     DEF Request, Advance
<1>2. CASE UNCHANGED vars
  <2>1. /\ UNCHANGED <<table, grants, roleOf, faults, decided, word, excused, asked, cut, job, moves>>
        /\ UNCHANGED <<prefs, seeded, torn, script, starts>>
    BY <1>2 DEF vars, seedVars, requestVars
  <2>2. Grows /\ References' = References
    BY <2>1, TableKept
  <2>3. TypeOK'
    BY <2>1, <2>2 DEF IInv, TypeOK
  <2>4. \A s \in Scripts : ScriptSound(s)'
    BY <2>1, <2>2, ScriptStays DEF IInv
  <2>5. \A h \in Handlers : JobSound(h)'
    BY <2>1, <2>2 DEF IInv, JobSound, Known, Found
  <2>6. Authorised'
    BY <2>1 DEF IInv, Authorised, Waiting
  <2>7. QED
    BY <2>1, <2>2, <2>3, <2>4, <2>5, <2>6 DEF IInv
<1>3. QED
  BY <1>1, <1>2, SeedNextInv, DecideSilentlyInv DEF Next

\* Rows, grants, scripts and requests are well typed, and refer to rows.
THEOREM TypeCorrect == Spec => []TypeOK
<1>1. Init => IInv
  BY InitInv
<1>2. IInv /\ [Next]_vars => IInv'
  BY StepInv
<1>3. IInv => TypeOK
  BY DEF IInv
<1>4. QED
  BY <1>1, <1>2, <1>3, PTL DEF Spec

(***************************************************************************)
(* A sub-administrator ends with the permissions it was created with,      *)
(* whatever scripts and administrators grant meanwhile.                    *)
(***************************************************************************)
THEOREM SubAdminsAreAuthorised == Spec => []SubAdminIsAuthorised
<1>1. Init => IInv
  BY InitInv
<1>2. IInv /\ [Next]_vars => IInv'
  BY StepInv
<1>3. IInv => SubAdminIsAuthorised
  BY DEF IInv, Authorised, Waiting, SubAdminIsAuthorised
<1>4. QED
  BY <1>1, <1>2, <1>3, PTL DEF Spec

-----------------------------------------------------------------------------
(* Decisions about the nounu, on top of the invariant.                     *)

\* The nounu knows the last decision, or a request is about to tell it.
Told ==
    \/ word = decided
    \/ \E h \in Handlers : job[h].at = "word" /\ job[h].n = decided

DecisionSound == ~excused => Told

\* A step that neither decides nor tells.
LEMMA DecisionStays ==
    ASSUME IInv, DecisionSound, UNCHANGED <<decided, word>>, excused => excused',
           NEW h \in Handlers, job[h].at # "word" \/ excused',
           \A g \in Handlers : g # h => job'[g] = job[g]
    PROVE  DecisionSound'
BY DEF DecisionSound, Told

LEMMA HandlersMove ==
    ASSUME IInv, NEW h \in Handlers, NEW j, job' = [job EXCEPT ![h] = j]
    PROVE  /\ \A g \in Handlers : g # h => job'[g] = job[g]
           /\ job'[h] = j
BY DEF IInv, TypeOK

LEMMA DecideSound ==
    ASSUME IInv, DecisionSound, NEW h \in Handlers, Decide(h)
    PROVE  DecisionSound'
<1>1. PICK j : j = [NoJob EXCEPT !.at = "word", !.n = decided + 1]
  OBVIOUS
<1>2. j.at = "word" /\ j.n = decided + 1
  BY <1>1, NoJobType DEF NoJob
<1>3. job' = [job EXCEPT ![h] = j]
  BY <1>1 DEF Decide, Begin
<1>4. job'[h] = j
  BY <1>3, HandlersMove
<1>5. decided' = decided + 1
  BY DEF Decide
<1>6. QED
  BY <1>2, <1>4, <1>5 DEF DecisionSound, Told

LEMMA TellSound ==
    ASSUME IInv, DecisionSound, NEW h \in Handlers, TellDecision(h)
    PROVE  DecisionSound'
<1>1. job[h].at = "word" /\ job' = [job EXCEPT ![h] = NoJob] /\ decided' = decided
  BY DEF TellDecision, Finish
<1>2. PICK n : n = job[h].n
  OBVIOUS
<1>3. n \in Nat /\ n <= decided /\ word \in Nat /\ decided \in Nat /\ word <= decided
  <2>1. job[h] \in Job /\ job[h].n <= decided
    BY DEF IInv, TypeOK, JobSound
  <2>2. job[h].n \in Nat
    BY <2>1 DEF Job
  <2>3. decided \in 0 .. MaxMoves /\ word \in 0 .. decided
    BY DEF IInv, TypeOK
  <2>4. decided \in Nat
    BY <2>3, AdministrationAssumption
  <2>5. QED
    BY <1>2, <2>1, <2>2, <2>3, <2>4
<1>4. word' = n /\ excused' = (word > n \/ (excused /\ n # decided))
  BY <1>2 DEF TellDecision
<1>5. CASE n = decided
  BY <1>1, <1>4, <1>5 DEF DecisionSound, Told
<1>6. CASE n # decided
  <2>1. SUFFICES ASSUME ~excused' PROVE Told'
    BY DEF DecisionSound
  <2>2. ~excused /\ ~(word > n)
    BY <1>4, <1>6, <2>1
  <2>3. word # decided
    BY <1>3, <1>6, <2>2
  <2>4. PICK g \in Handlers : job[g].at = "word" /\ job[g].n = decided
    BY <2>2, <2>3 DEF DecisionSound, Told
  <2>5. g # h
    BY <1>2, <1>6, <2>4
  <2>6. job'[g] = job[g]
    BY <1>1, <2>5, HandlersMove
  <2>7. QED
    BY <1>1, <2>4, <2>6 DEF Told
<1>7. QED
  BY <1>5, <1>6

\* Every other request: it was not at "word", or excuses the difference.
LEMMA OthersSound ==
    ASSUME IInv, DecisionSound, NEW h \in Handlers,
           \/ UpdateSettings(h) \/ CreateParameter(h) \/ DeleteParameter(h)
           \/ AssignPermissionToRole(h) \/ RemovePermissionFromRole(h) \/ CreateSubAdmin(h)
           \/ CreateSettings(h) \/ assignPermissionsBulk(h) \/ Fail(h)
    PROVE  DecisionSound'
<1>1. CASE UpdateSettings(h)
  BY <1>1, NoJobType, HandlersMove, DecisionStays DEF UpdateSettings, LetIn, Begin
<1>2. CASE CreateParameter(h) \/ DeleteParameter(h) \/ AssignPermissionToRole(h)
           \/ RemovePermissionFromRole(h)
  <2>1. UNCHANGED <<decided, word, excused, job>>
    BY <1>2 DEF CreateParameter, DeleteParameter, AssignPermissionToRole, RemovePermissionFromRole
  <2>2. QED
    BY <2>1 DEF DecisionSound, Told
<1>3. CASE CreateSubAdmin(h)
  <2>1. job[h].at # "word" /\ UNCHANGED <<decided, word, excused>>
    BY <1>3, NoJobType DEF CreateSubAdmin, LetIn
  <2>2. \E j : job' = job \/ job' = [job EXCEPT ![h] = j]
    BY <1>3 DEF CreateSubAdmin, Begin
  <2>3. \A g \in Handlers : g # h => job'[g] = job[g]
    BY <2>2, HandlersMove
  <2>4. QED
    BY <2>1, <2>3, DecisionStays
<1>4. CASE CreateSettings(h)
  BY <1>4, HandlersMove, DecisionStays DEF CreateSettings, Finish
<1>5. CASE assignPermissionsBulk(h)
  BY <1>5, HandlersMove, DecisionStays DEF assignPermissionsBulk, Finish
<1>6. CASE Fail(h)
  <2>1. UNCHANGED <<decided, word>> /\ excused' = (excused \/ job[h].at = "word")
        /\ job' = [job EXCEPT ![h] = NoJob]
    BY <1>6 DEF Fail, Finish
  <2>2. QED
    BY <2>1, HandlersMove, DecisionStays
<1>7. QED
  BY <1>1, <1>2, <1>3, <1>4, <1>5, <1>6

(***************************************************************************)
(* The nounu's last notification tells the decision in force, unless the   *)
(* difference is excused (admin.usecases.ts:717).                          *)
(***************************************************************************)
THEOREM NounuKnows == Spec => []NounuKnowsTheDecision
<1>1. Init => IInv /\ DecisionSound
  <2>1. Init => DecisionSound
    BY DEF Init, DecisionSound, Told
  <2>2. QED
    BY <2>1, InitInv
<1>2. IInv /\ DecisionSound /\ [Next]_vars => (IInv /\ DecisionSound)'
  <2>1. SUFFICES ASSUME IInv, DecisionSound, [Next]_vars PROVE DecisionSound'
    BY StepInv
  <2>2. CASE (SeedNext /\ UNCHANGED requestVars) \/ UNCHANGED vars
    <3>1. UNCHANGED <<decided, word, excused, job>>
      BY <2>2 DEF requestVars, vars
    <3>2. QED
      BY <2>1, <3>1 DEF DecisionSound, Told
  <2>3. CASE DecideSilently
    BY <2>3 DEF DecideSilently, DecisionSound
  <2>4. ASSUME NEW h \in Handlers, Request(h) \/ Advance(h) \/ Fail(h)
        PROVE  DecisionSound'
    BY <2>1, <2>4, DecideSound, TellSound, OthersSound DEF Request, Advance
  <2>5. QED
    BY <2>1, <2>2, <2>3, <2>4 DEF Next
<1>3. IInv /\ DecisionSound => NounuKnowsTheDecision
  BY DEF DecisionSound, Told, NounuKnowsTheDecision
<1>4. QED
  BY <1>1, <1>2, <1>3, PTL DEF Spec

-----------------------------------------------------------------------------
(* The order of seed-config's plan: every permission is created before it  *)
(* is granted, and the role before both it and they are read.              *)

LEMMA StepIs ==
    ASSUME NEW how \in Hows \ {"grant"}, NEW key \in Keys
    PROVE  /\ Step(how, key) \in Seq(Items) /\ Len(Step(how, key)) = 1
           /\ Step(how, key)[1] = [how |-> how, key |-> key]
<1>1. Step(how, key) \in Seq(Items)
  BY StepType
<1> PICK item : item = [how |-> how, key |-> key]
  OBVIOUS
<1>2. Step(how, key) = <<item>>
  BY DEF Step
<1>3. QED
  BY <1>1, <1>2

\* The order of the permissions misses none.
LEMMA EveryElement ==
    ASSUME NEW S, IsFiniteSet(S)
    PROVE  \A p \in S : \E i \in 1 .. Cardinality(S) : SetToSeq(S)[i] = p
<1> PICK n : n = Cardinality(S)
  OBVIOUS
<1>1. n \in Nat /\ ExistsBijection(1 .. n, S)
  BY FS_CardinalityType
<1>2. \E f \in [1 .. n -> S] : IsInjective(f)
  BY <1>1 DEF ExistsBijection, Bijection, Injection, IsInjective
<1> PICK f : f = SetToSeq(S)
  OBVIOUS
<1>3. f \in [1 .. n -> S] /\ IsInjective(f)
  BY <1>2 DEF SetToSeq
<1>4. f \in Injection(1 .. n, S)
  BY <1>3 DEF Injection, IsInjective
<1>5. Cardinality(1 .. n) = n
  BY <1>1, FS_Interval
<1>6. f \in Surjection(1 .. n, S)
  BY <1>4, <1>5, FS_Injection
<1>7. QED
  BY <1>6 DEF Surjection

\* Each gives one step for each slug.
LEMMA EachIs ==
    ASSUME NEW S \in SUBSET Perms, NEW how \in {"unique", "grant"}
    PROVE  /\ Each(how, S) \in Seq(Items) /\ Len(Each(how, S)) = Cardinality(S)
           /\ \A i \in 1 .. Cardinality(S) :
                Each(how, S)[i] = [how |-> how, key |-> SetToSeq(S)[i]]
<1>1. Each(how, S) \in Seq(Items) /\ Cardinality(S) \in Nat
  BY EachType, FS_Subset, FS_CardinalityType, SeedsAssumption
<1>2. QED
  BY <1>1 DEF Each

\* Where the items of two plans are when one follows the other.
LEMMA JoinAt ==
    ASSUME NEW a \in Seq(Items), NEW b \in Seq(Items), NEW c, c = a \o b
    PROVE  /\ c \in Seq(Items) /\ Len(c) = Len(a) + Len(b)
           /\ \A i \in 1 .. Len(a) : c[i] = a[i]
           /\ \A i \in 1 .. Len(b) : c[Len(a) + i] = b[i]
<1>1. /\ c \in Seq(Items) /\ Len(c) = Len(a) + Len(b)
      /\ \A i \in 1 .. Len(a) + Len(b) :
           c[i] = IF i <= Len(a) THEN a[i] ELSE b[i - Len(a)]
  BY ConcatProperties
<1>2. PICK m, k \in Nat : m = Len(a) /\ k = Len(b)
  OBVIOUS
<1>3. ASSUME NEW i \in 1 .. m PROVE c[i] = a[i]
  BY <1>1, <1>2
<1>4. ASSUME NEW i \in 1 .. k PROVE c[m + i] = b[i]
  <2>1. m + i \in 1 .. m + k /\ ~(m + i <= m) /\ (m + i) - m = i
    BY <1>2
  <2>2. QED
    BY <1>1, <1>2, <2>1
<1>5. QED
  BY <1>1, <1>2, <1>3, <1>4

Order(n, q) ==
    /\ n \in Nat /\ q \in [1 .. n -> Perms]
    /\ \A p \in Perms : \E i \in 1 .. n : q[i] = p
    /\ ConfigPlan \in Seq(Items) /\ Len(ConfigPlan) = n + n + 5
    /\ ConfigPlan[1] = [how |-> "find", key |-> "type"]
    /\ ConfigPlan[2] = [how |-> "find", key |-> "role"]
    /\ \A i \in 1 .. n : ConfigPlan[i + 2] = [how |-> "unique", key |-> q[i]]
    /\ ConfigPlan[n + 3] = [how |-> "role", key |-> "role"]
    /\ \A i \in 1 .. n : ConfigPlan[i + n + 3] = [how |-> "grant", key |-> q[i]]
    /\ ConfigPlan[n + n + 4] = [how |-> "find", key |-> "settings"]
    /\ ConfigPlan[n + n + 5] = [how |-> "unique", key |-> "pack"]

\* The places of the items, counted from the ends of the parts.
LEMMA Places ==
    ASSUME NEW n \in Nat
    PROVE  /\ n + n + 4 = 2 + (n + 1 + n) + 1
           /\ n + n + 5 = 2 + (n + 1 + n) + 1 + 1
           /\ n + n + 4 \in 1 .. 2 + (n + 1 + n) + 1
           /\ \A i \in 1 .. n + n + 3 : /\ i \in 1 .. 2 + (n + 1 + n)
                                       /\ i \in 1 .. 2 + (n + 1 + n) + 1
           /\ \A i \in 1 .. n :
                /\ i \in 1 .. n + 1 /\ i \in 1 .. n + 1 + n /\ n + 1 + i \in 1 .. n + 1 + n
                /\ i + 2 \in 1 .. n + n + 3 /\ i + n + 3 \in 1 .. n + n + 3
                /\ 2 + i = i + 2 /\ 2 + (n + 1 + i) = i + n + 3
OBVIOUS

LEMMA ConfigOrder == \E n, q : Order(n, q)
<1> PICK n, q : n = Cardinality(Perms) /\ q = SetToSeq(Perms)
  OBVIOUS
<1> PICK t : t = [how |-> "find", key |-> "type"]
  OBVIOUS
<1> PICK f : f = [how |-> "find", key |-> "role"]
  OBVIOUS
<1> PICK r : r = [how |-> "role", key |-> "role"]
  OBVIOUS
<1> PICK s : s = [how |-> "find", key |-> "settings"]
  OBVIOUS
<1> PICK k : k = [how |-> "unique", key |-> "pack"]
  OBVIOUS
<1>1. n \in Nat /\ q \in [1 .. n -> Perms] /\ \A p \in Perms : \E i \in 1 .. n : q[i] = p
  BY SeedsAssumption, FS_CardinalityType, SetToSeqType, EveryElement
<1>0. n \in Nat
  BY <1>1
<1>2. PICK u \in Seq(Items) :
         /\ u = Each("unique", Perms) /\ Len(u) = n
         /\ \A i \in 1 .. n : u[i] = [how |-> "unique", key |-> q[i]]
  BY EachIs
<1>3. PICK g \in Seq(Items) :
         /\ g = Each("grant", Perms) /\ Len(g) = n
         /\ \A i \in 1 .. n : g[i] = [how |-> "grant", key |-> q[i]]
  BY EachIs
<1>4. PICK st \in Seq(Items) : st = Step("find", "type") /\ Len(st) = 1 /\ st[1] = t
  BY StepIs DEF Hows, Keys
<1>5. PICK sf \in Seq(Items) : sf = Step("find", "role") /\ Len(sf) = 1 /\ sf[1] = f
  BY StepIs DEF Hows, Keys
<1>6. PICK sr \in Seq(Items) : sr = Step("role", "role") /\ Len(sr) = 1 /\ sr[1] = r
  BY StepIs DEF Hows, Keys
<1>7. PICK ss \in Seq(Items) : ss = Step("find", "settings") /\ Len(ss) = 1 /\ ss[1] = s
  BY StepIs DEF Hows, Keys
<1>8. PICK sk \in Seq(Items) : sk = Step("unique", "pack") /\ Len(sk) = 1 /\ sk[1] = k
  BY StepIs DEF Hows, Keys
<1>9. PICK a : a = st \o sf
  OBVIOUS
<1>10. a \in Seq(Items) /\ Len(a) = 2 /\ a[1] = t /\ a[2] = f
  <2>1. /\ a \in Seq(Items) /\ Len(a) = Len(st) + Len(sf)
        /\ \A i \in 1 .. Len(st) : a[i] = st[i]
        /\ \A i \in 1 .. Len(sf) : a[Len(st) + i] = sf[i]
    BY <1>9, JoinAt
  <2>2. a[1] = st[1]
    <3>1. 1 \in 1 .. Len(st)
      BY <1>4
    <3>2. QED
      BY <2>1, <3>1
  <2>3. a[Len(st) + 1] = sf[1]
    <3>1. 1 \in 1 .. Len(sf)
      BY <1>5
    <3>2. QED
      BY <2>1, <3>1
  <2>4. Len(st) = 1 /\ Len(sf) = 1 /\ st[1] = t /\ sf[1] = f
    BY <1>4, <1>5
  <2>5. a[2] = f /\ Len(a) = 2
    BY <2>1, <2>3, <2>4
  <2>6. QED
    BY <2>1, <2>2, <2>4, <2>5
<1>11. PICK b : b = u \o sr
  OBVIOUS
<1>12. /\ b \in Seq(Items) /\ Len(b) = n + 1 /\ b[n + 1] = r
       /\ \A i \in 1 .. n : b[i] = u[i]
  <2>1. /\ b \in Seq(Items) /\ Len(b) = Len(u) + Len(sr)
        /\ \A i \in 1 .. Len(u) : b[i] = u[i]
        /\ \A i \in 1 .. Len(sr) : b[Len(u) + i] = sr[i]
    BY <1>11, JoinAt
  <2>2. 1 \in 1 .. Len(sr) /\ b[Len(u) + 1] = sr[1]
    BY <1>6, <2>1
  <2>3. QED
    BY <1>1, <1>2, <1>6, <2>1, <2>2
<1>13. PICK c : c = b \o g
  OBVIOUS
<1>14. /\ c \in Seq(Items) /\ Len(c) = n + 1 + n
       /\ \A i \in 1 .. n + 1 : c[i] = b[i]
       /\ \A i \in 1 .. n : c[n + 1 + i] = g[i]
  <2>0. b \in Seq(Items) /\ g \in Seq(Items)
    BY <1>3, <1>12
  <2>1. /\ c \in Seq(Items) /\ Len(c) = Len(b) + Len(g)
        /\ \A i \in 1 .. Len(b) : c[i] = b[i]
        /\ \A i \in 1 .. Len(g) : c[Len(b) + i] = g[i]
    BY <2>0, <1>13, JoinAt
  <2>2. QED
    BY <1>3, <1>12, <1>13, <1>1, <2>1
<1>15. PICK d : d = a \o c
  OBVIOUS
<1>16. /\ d \in Seq(Items) /\ Len(d) = 2 + (n + 1 + n)
       /\ \A i \in 1 .. 2 : d[i] = a[i]
       /\ \A i \in 1 .. n + 1 + n : d[2 + i] = c[i]
  <2>0. a \in Seq(Items) /\ c \in Seq(Items)
    BY <1>10, <1>14
  <2>1. /\ d \in Seq(Items) /\ Len(d) = Len(a) + Len(c)
        /\ \A i \in 1 .. Len(a) : d[i] = a[i]
        /\ \A i \in 1 .. Len(c) : d[Len(a) + i] = c[i]
    BY <2>0, <1>15, JoinAt
  <2>2. QED
    BY <1>10, <1>14, <1>15, <1>1, <2>1
<1>17. PICK e : e = d \o ss
  OBVIOUS
<1>18. /\ e \in Seq(Items) /\ Len(e) = 2 + (n + 1 + n) + 1
       /\ \A i \in 1 .. 2 + (n + 1 + n) : e[i] = d[i]
       /\ \A i \in 1 .. 1 : e[2 + (n + 1 + n) + i] = ss[i]
  <2>0. d \in Seq(Items) /\ ss \in Seq(Items)
    BY <1>7, <1>16
  <2>1. /\ e \in Seq(Items) /\ Len(e) = Len(d) + Len(ss)
        /\ \A i \in 1 .. Len(d) : e[i] = d[i]
        /\ \A i \in 1 .. Len(ss) : e[Len(d) + i] = ss[i]
    BY <2>0, <1>17, JoinAt
  <2>2. QED
    BY <1>7, <1>16, <1>17, <1>1, <2>1
<1>19. PICK w : w = e \o sk
  OBVIOUS
<1>20. /\ w \in Seq(Items) /\ Len(w) = 2 + (n + 1 + n) + 1 + 1
       /\ \A i \in 1 .. 2 + (n + 1 + n) + 1 : w[i] = e[i]
       /\ \A i \in 1 .. 1 : w[2 + (n + 1 + n) + 1 + i] = sk[i]
  <2>0. e \in Seq(Items) /\ sk \in Seq(Items)
    BY <1>8, <1>18
  <2>1. /\ w \in Seq(Items) /\ Len(w) = Len(e) + Len(sk)
        /\ \A i \in 1 .. Len(e) : w[i] = e[i]
        /\ \A i \in 1 .. Len(sk) : w[Len(e) + i] = sk[i]
    BY <2>0, <1>19, JoinAt
  <2>2. QED
    BY <1>8, <1>18, <1>19, <1>1, <2>1
<1>21. ConfigPlan = w
  BY <1>2, <1>3, <1>4, <1>5, <1>6, <1>7, <1>8, <1>9, <1>11, <1>13, <1>15, <1>17, <1>19
  DEF ConfigPlan, seedTypeParameters, seedParameters, seedPermissions, seedSettings, seedPacks
<1>22. ASSUME NEW i \in 1 .. n + n + 3 PROVE w[i] = d[i]
  <2>1. i \in 1 .. 2 + (n + 1 + n) /\ i \in 1 .. 2 + (n + 1 + n) + 1
    BY <1>0, Places
  <2>2. w[i] = e[i] /\ e[i] = d[i]
    BY <1>18, <1>20, <2>1
  <2>3. QED
    BY <2>2
<1>23. w[1] = t /\ w[2] = f
  <2>1. 1 \in 1 .. n + n + 3 /\ 2 \in 1 .. n + n + 3
    BY <1>0, Places
  <2>2. w[1] = d[1] /\ w[2] = d[2]
    BY <1>22, <2>1
  <2>3. QED
    BY <1>10, <1>16, <2>2
<1>24. w[n + 3] = r
  <2>1. /\ n + 1 \in 1 .. n + 1 /\ n + 1 \in 1 .. n + 1 + n
        /\ n + 3 \in 1 .. n + n + 3 /\ 2 + (n + 1) = n + 3
    BY <1>0, Places
  <2>2. w[n + 3] = d[2 + (n + 1)]
    BY <1>22, <2>1
  <2>3. d[2 + (n + 1)] = c[n + 1]
    BY <1>16, <2>1
  <2>4. c[n + 1] = b[n + 1]
    BY <1>14, <2>1
  <2>5. QED
    BY <1>12, <2>2, <2>3, <2>4
<1>25. w[n + n + 4] = s
  <2>1. /\ n + n + 4 = 2 + (n + 1 + n) + 1
        /\ n + n + 4 \in 1 .. 2 + (n + 1 + n) + 1 /\ 1 \in 1 .. 1
    BY <1>0, Places
  <2>2. QED
    BY <1>7, <1>18, <1>20, <2>1
<1>26. w[n + n + 5] = k
  <2>1. n + n + 5 = 2 + (n + 1 + n) + 1 + 1
    BY <1>0, Places
  <2>2. w[2 + (n + 1 + n) + 1 + 1] = sk[1]
    <3>1. 1 \in 1 .. 1
      OBVIOUS
    <3>2. QED
      BY <1>20, <3>1
  <2>3. QED
    BY <1>8, <2>1, <2>2
<1>27. ASSUME NEW i \in 1 .. n
       PROVE  w[i + 2] = u[i] /\ w[i + n + 3] = g[i]
  <2>1. /\ i \in 1 .. n + 1 /\ i \in 1 .. n + 1 + n /\ n + 1 + i \in 1 .. n + 1 + n
        /\ i + 2 \in 1 .. n + n + 3 /\ i + n + 3 \in 1 .. n + n + 3
        /\ 2 + i = i + 2 /\ 2 + (n + 1 + i) = i + n + 3
    BY <1>0, Places
  <2>2. w[i + 2] = d[2 + i] /\ w[i + n + 3] = d[2 + (n + 1 + i)]
    BY <1>22, <2>1
  <2>3. d[2 + i] = c[i] /\ d[2 + (n + 1 + i)] = c[n + 1 + i]
    BY <1>16, <2>1
  <2>4. c[i] = b[i] /\ c[n + 1 + i] = g[i]
    BY <1>14, <2>1
  <2>5. QED
    BY <1>12, <2>2, <2>3, <2>4
<1>28. Len(w) = n + n + 5 /\ w \in Seq(Items)
  <2>1. Len(w) = 2 + (n + 1 + n) + 1 + 1 /\ w \in Seq(Items)
    BY <1>20
  <2>2. QED
    BY <1>0, <2>1, Places
<1>29. \A i \in 1 .. n : /\ w[i + 2] = [how |-> "unique", key |-> q[i]]
                         /\ w[i + n + 3] = [how |-> "grant", key |-> q[i]]
  BY <1>2, <1>3, <1>27
<1>30. Order(n, q)
  BY <1>1, <1>21, <1>23, <1>24, <1>25, <1>26, <1>28, <1>29 DEF Order
<1>31. QED
  BY <1>30

\* What the order amounts to.
LEMMA ConfigBefore ==
    /\ \A p \in Perms : \E i \in DOMAIN ConfigPlan : ConfigPlan[i] = [how |-> "grant", key |-> p]
    /\ ConfigPlan[Len(ConfigPlan)] = [how |-> "unique", key |-> "pack"]
    /\ \A i \in DOMAIN ConfigPlan : ConfigPlan[i].how \in {"find", "unique", "role", "grant"}
    /\ \A i \in DOMAIN ConfigPlan : ConfigPlan[i].how = "role" =>
         \E j \in DOMAIN ConfigPlan : j < i /\ ConfigPlan[j] = [how |-> "find", key |-> "role"]
    /\ \A i \in DOMAIN ConfigPlan : ConfigPlan[i].how = "grant" =>
         /\ \E j \in DOMAIN ConfigPlan :
              j < i /\ ConfigPlan[j] = [how |-> "unique", key |-> ConfigPlan[i].key]
         /\ \E j \in DOMAIN ConfigPlan : j < i /\ ConfigPlan[j].how = "role"
         /\ \A j \in DOMAIN ConfigPlan : ConfigPlan[j].how = "role" => j < i
<1> PICK n, q : Order(n, q)
  BY ConfigOrder
<1> PICK c : c = ConfigPlan
  OBVIOUS
<1>1. n \in Nat /\ c \in Seq(Items) /\ Len(c) = n + n + 5 /\ DOMAIN c = 1 .. n + n + 5
  BY DEF Order
<1>2. /\ c[1] = [how |-> "find", key |-> "type"] /\ c[2] = [how |-> "find", key |-> "role"]
      /\ \A i \in 1 .. n : c[i + 2] = [how |-> "unique", key |-> q[i]]
      /\ c[n + 3] = [how |-> "role", key |-> "role"]
      /\ \A i \in 1 .. n : c[i + n + 3] = [how |-> "grant", key |-> q[i]]
      /\ c[n + n + 4] = [how |-> "find", key |-> "settings"]
      /\ c[n + n + 5] = [how |-> "unique", key |-> "pack"]
  BY DEF Order
<1>3. ASSUME NEW i \in DOMAIN c
      PROVE  \/ i = 1 \/ i = 2 \/ i = n + 3 \/ i = n + n + 4 \/ i = n + n + 5
             \/ \E j \in 1 .. n : i = j + 2
             \/ \E j \in 1 .. n : i = j + n + 3
  <2>1. CASE i \in 3 .. n + 2
    <3>1. i - 2 \in 1 .. n /\ i = (i - 2) + 2
      BY <1>1, <2>1
    <3>2. QED
      BY <3>1
  <2>2. CASE i \in n + 4 .. n + n + 3
    <3>1. i - (n + 3) \in 1 .. n /\ i = (i - (n + 3)) + n + 3
      BY <1>1, <2>2
    <3>2. QED
      BY <3>1
  <2>3. QED
    BY <1>1, <2>1, <2>2
<1>4. ASSUME NEW i \in DOMAIN c
      PROVE  /\ c[i].how \in {"find", "unique", "role", "grant"}
             /\ c[i].how = "role" => i = n + 3
             /\ c[i].how = "grant" => \E j \in 1 .. n : i = j + n + 3
  <2>1. CASE \E j \in 1 .. n : i = j + 2
    <3>1. PICK j \in 1 .. n : c[i] = [how |-> "unique", key |-> q[j]]
      BY <1>2, <2>1
    <3>2. QED
      BY <3>1
  <2>2. CASE \E j \in 1 .. n : i = j + n + 3
    <3>1. PICK j \in 1 .. n : c[i] = [how |-> "grant", key |-> q[j]]
      BY <1>2, <2>2
    <3>2. QED
      BY <2>2, <3>1
  <2>3. CASE i = 1 \/ i = 2 \/ i = n + n + 4 \/ i = n + n + 5
    <3>1. c[i].how \in {"find", "unique"}
      BY <1>2, <2>3
    <3>2. QED
      BY <3>1
  <2>4. CASE i = n + 3
    <3>1. c[i].how = "role"
      BY <1>2, <2>4
    <3>2. QED
      BY <2>4, <3>1
  <2>5. QED
    BY <1>3, <2>1, <2>2, <2>3, <2>4
<1>5. ASSUME NEW p \in Perms
      PROVE  \E i \in DOMAIN c : c[i] = [how |-> "grant", key |-> p]
  <2>1. PICK j \in 1 .. n : q[j] = p
    BY DEF Order
  <2>2. j + n + 3 \in DOMAIN c /\ c[j + n + 3] = [how |-> "grant", key |-> p]
    BY <1>1, <1>2, <2>1
  <2>3. QED
    BY <2>2
<1>6. ASSUME NEW i \in DOMAIN c, c[i].how = "role"
      PROVE  \E j \in DOMAIN c : j < i /\ c[j] = [how |-> "find", key |-> "role"]
  <2>1. 2 \in DOMAIN c /\ 2 < i
    BY <1>1, <1>4, <1>6
  <2>2. QED
    BY <1>2, <2>1
<1>7. ASSUME NEW i \in DOMAIN c, c[i].how = "grant"
      PROVE  /\ \E j \in DOMAIN c : j < i /\ c[j] = [how |-> "unique", key |-> c[i].key]
             /\ \E j \in DOMAIN c : j < i /\ c[j].how = "role"
             /\ \A j \in DOMAIN c : c[j].how = "role" => j < i
  <2>1. PICK m \in 1 .. n : i = m + n + 3
    BY <1>4, <1>7
  <2>2. c[i] = [how |-> "grant", key |-> q[m]] /\ c[m + 2] = [how |-> "unique", key |-> q[m]]
    BY <1>2, <2>1
  <2>3. m + 2 \in DOMAIN c /\ m + 2 < i /\ n + 3 \in DOMAIN c /\ n + 3 < i
    BY <1>1, <2>1
  <2>4. c[n + 3].how = "role"
    BY <1>2
  <2>5. \A j \in DOMAIN c : c[j].how = "role" => j < i
    BY <1>4, <2>3
  <2>6. QED
    BY <2>2, <2>3, <2>4, <2>5
<1>8. c[Len(c)] = [how |-> "unique", key |-> "pack"]
  BY <1>1, <1>2
<1>9. QED
  BY <1>4, <1>5, <1>6, <1>7, <1>8

-----------------------------------------------------------------------------
(* What an unfinished run of seed-config has done: every row it has looked *)
(* for is there, it has read a role, and what it has granted is granted    *)
(* unless some permission was taken away.                                  *)

Past(w, i) ==
    LET item == ConfigPlan[i] IN
    /\ item.how \in {"find", "unique"} => table[item.key] # <<>>
    /\ item.how = "role" => w.role # 0
    /\ item.how = "grant" /\ w.clean => <<w.role, item.key>> \in grants

Progress(w) == w.plan = "config" => \A i \in DOMAIN ConfigPlan : i < w.pc => Past(w, i)

PInv == \A s \in Scripts : Progress(script[s])

\* No table loses a row.
LEMMA TablesGrow ==
    ASSUME IInv, [Next]_vars
    PROVE  Grows
<1>1. table \in [Keys -> Seq(Entry)] /\ table' \in [Keys -> Seq(Entry)]
  BY StepInv DEF IInv, TypeOK
<1>2. CASE table' = table
  BY <1>1, <1>2 DEF Grows
<1>3. ASSUME NEW key \in Keys, NEW row, table' = [table EXCEPT ![key] = Append(@, row)]
      PROVE  Grows
  <2> PICK old : old = table[key]
    OBVIOUS
  <2> PICK new : new = Append(old, row)
    OBVIOUS
  <2>1. old \in Seq(Entry) /\ DOMAIN old \subseteq DOMAIN new
    BY <1>1
  <2>2. table'[key] = new /\ \A k \in Keys \ {key} : table'[k] = table[k]
    BY <1>1, <1>3
  <2>3. QED
    BY <1>1, <2>1, <2>2 DEF Grows
<1>4. ASSUME NEW r \in DOMAIN table["role"], table' = [table EXCEPT !["role"][r].gone = TRUE]
      PROVE  Grows
  <2> PICK old : old = table["role"]
    OBVIOUS
  <2> PICK new : new = [old EXCEPT ![r].gone = TRUE]
    OBVIOUS
  <2>1. DOMAIN old = DOMAIN new
    OBVIOUS
  <2>2. table' = [table EXCEPT !["role"] = new]
    BY <1>4
  <2>3. table'["role"] = new /\ \A k \in Keys \ {"role"} : table'[k] = table[k]
    BY <1>1, <2>2, KeysKnown
  <2>4. QED
    BY <1>1, <2>1, <2>3 DEF Grows
<1>5. ASSUME NEW s \in Scripts, Proceed(s) \/ Stop(s) \/ \E plan \in Plans : StartScript(s, plan)
      PROVE  Grows
  <2>1. Running(s) => Item(s).key \in Keys
    BY ScriptTyped DEF Items
  <2>2. CASE Create(s)
    <3>1. Running(s)
      BY <2>2, ScriptTyped DEF ScriptSound, Create
    <3>2. QED
      BY <1>2, <1>3, <2>1, <2>2, <3>1 DEF Create, AddRow
  <2>3. CASE Draw(s) \/ Insert(s)
    BY <1>2, <1>3, <2>1, <2>3 DEF Draw, Insert, Doing, AddRow
  <2>4. CASE \/ Look(s) \/ Skip(s) \/ ReadRole(s) \/ LookGrant(s) \/ CreateGrant(s)
             \/ Clear(s) \/ Add(s) \/ Stop(s) \/ \E plan \in Plans : StartScript(s, plan)
    BY <1>2, <2>4 DEF Look, Skip, ReadRole, LookGrant, CreateGrant, Clear, Add, Stop, StartScript
  <2>5. QED
    BY <1>5, <2>2, <2>3, <2>4 DEF Proceed
<1>6. ASSUME NEW h \in Handlers, Request(h) \/ Advance(h) \/ Fail(h)
      PROVE  Grows
  <2>1. {"role", "settings"} \subseteq Keys
    BY DEF Keys
  <2>2. CASE CreateSettings(h) \/ CreateParameter(h)
    BY <1>3, <2>1, <2>2 DEF CreateSettings, CreateParameter, AddRow
  <2>3. CASE DeleteParameter(h)
    BY <1>4, <2>3 DEF DeleteParameter
  <2>4. CASE \/ UpdateSettings(h) \/ AssignPermissionToRole(h) \/ RemovePermissionFromRole(h)
             \/ CreateSubAdmin(h) \/ Decide(h) \/ assignPermissionsBulk(h) \/ TellDecision(h)
             \/ Fail(h)
    BY <1>2, <2>4 DEF UpdateSettings, AssignPermissionToRole, RemovePermissionFromRole,
       CreateSubAdmin, Decide, assignPermissionsBulk, TellDecision, Fail
  <2>5. QED
    BY <1>6, <2>2, <2>3, <2>4 DEF Request, Advance
<1>7. CASE DecideSilently \/ UNCHANGED vars
  BY <1>2, <1>7 DEF DecideSilently, vars
<1>8. QED
  BY <1>5, <1>6, <1>7 DEF Next, SeedNext, Plans

LEMMA ConfigTyped ==
    /\ ConfigPlan \in Seq(Items) \ {<<>>} /\ Plan("config") = ConfigPlan
    /\ Len(ConfigPlan) \in Nat \ {0} /\ DOMAIN ConfigPlan = 1 .. Len(ConfigPlan)
    /\ \A i \in DOMAIN ConfigPlan :
         /\ ConfigPlan[i].key \in Keys
         /\ ConfigPlan[i].how = "grant" => ConfigPlan[i].key \in Perms
<1>1. ConfigPlan \in Seq(Items) \ {<<>>}
  BY ConfigPlanType DEF GoodPlan
<1>2. ASSUME NEW i \in DOMAIN ConfigPlan
      PROVE  ConfigPlan[i] \in Items
  BY <1>1
<1>3. QED
  BY <1>1, <1>2 DEF Items, Plan

LEMMA StaysThere ==
    ASSUME TypeOK, Grows, NEW key \in Keys, table[key] # <<>>
    PROVE  table'[key] # <<>>
<1>1. table[key] \in Seq(Entry) /\ table'[key] \in Seq(Entry)
  BY DEF TypeOK, Grows
<1>2. 1 \in DOMAIN table[key]
  BY <1>1
<1>3. QED
  BY <1>1, <1>2 DEF Grows

\* What is done stays done.
LEMMA PastStays ==
    ASSUME TypeOK, Grows, NEW w, NEW i \in DOMAIN ConfigPlan, Past(w, i),
           grants \subseteq grants' \/ ~w.clean
    PROVE  Past(w, i)'
<1> PICK item : item = ConfigPlan[i]
  OBVIOUS
<1>1. item.key \in Keys
  BY ConfigTyped
<1>2. table[item.key] # <<>> => table'[item.key] # <<>>
  BY <1>1, StaysThere
<1>3. QED
  BY <1>2 DEF Past

LEMMA ProgressStays ==
    ASSUME TypeOK, Grows, NEW w, Progress(w), grants \subseteq grants' \/ ~w.clean
    PROVE  Progress(w)'
BY PastStays DEF Progress

\* Only script s goes on.
LEMMA ProgressStep ==
    ASSUME IInv, PInv, Grows, grants \subseteq grants', NEW s \in Scripts, NEW v,
           script' = [script EXCEPT ![s] = v], Progress(v)'
    PROVE  PInv'
<1>1. script'[s] = v /\ \A r \in Scripts \ {s} : script'[r] = script[r]
  BY DEF IInv, TypeOK
<1>2. ASSUME NEW r \in Scripts \ {s}
      PROVE  Progress(script[r])'
  <2> PICK w : w = script[r]
    OBVIOUS
  <2>1. Progress(w)'
    BY ProgressStays DEF PInv, IInv
  <2>2. script'[r] = w
    BY <1>1
  <2>3. QED
    BY <2>1, <2>2 DEF Progress, Past
<1>3. Progress(script[s])'
  BY <1>1 DEF Progress, Past
<1>4. QED
  BY <1>2, <1>3 DEF PInv

\* On to the next item of seed-config, or the end.
LEMMA OnwardProgress ==
    ASSUME IInv, PInv, Grows, grants \subseteq grants', NEW s \in Scripts, NEW w,
           w = script[s], w.plan = "config", Onward(s), Past(w, w.pc)'
    PROVE  PInv'
<1>1. w \in Script /\ w.pc \in DOMAIN ConfigPlan /\ Progress(w)
  BY ScriptTyped, ConfigTyped DEF ScriptSound, Running, PInv
<1>2. CASE w.pc < Len(ConfigPlan)
  <2> PICK n : n = w.pc + 1
    OBVIOUS
  <2> PICK v : v = [w EXCEPT !.pc = n, !.make = FALSE]
    OBVIOUS
  <2>1. v.pc = n /\ v.role = w.role /\ v.clean = w.clean /\ v.plan = "config"
    BY <1>1 DEF Script
  <2>2. script' = [script EXCEPT ![s] = v]
    BY <1>2, ConfigTyped DEF Onward
  <2>3. ASSUME NEW i \in DOMAIN ConfigPlan, i < n
        PROVE  Past(v, i)'
    <3>1. i = w.pc \/ i < w.pc
      BY <1>1, <2>3, ConfigTyped
    <3>2. Past(w, i)'
      BY <1>1, <3>1, PastStays DEF Progress, IInv
    <3>3. QED
      BY <2>1, <3>2 DEF Past
  <2>4. Progress(v)'
    BY <2>1, <2>3 DEF Progress
  <2>5. QED
    BY <2>2, <2>4, ProgressStep
<1>3. CASE ~(w.pc < Len(ConfigPlan))
  <2> PICK v : v = [NoScript EXCEPT !.plan = "done"]
    OBVIOUS
  <2>1. v.plan # "config" /\ script' = [script EXCEPT ![s] = v]
    BY <1>3, ConfigTyped DEF Onward, NoScript
  <2>2. QED
    BY <2>1, ProgressStep DEF Progress
<1>4. QED
  BY <1>2, <1>3

-----------------------------------------------------------------------------
(* The steps.                                                              *)

\* A step of another plan does not become one of seed-config.
LEMMA OtherPlans ==
    ASSUME IInv, PInv, Grows, grants \subseteq grants', NEW s \in Scripts,
           script[s].plan # "config", Proceed(s)
    PROVE  PInv'
<1>1. PICK w \in Script : w = script[s]
  BY DEF IInv, TypeOK
<1>2. ASSUME NEW v, v.plan # "config", script' = [script EXCEPT ![s] = v]
      PROVE  PInv'
  BY <1>2, ProgressStep DEF Progress
<1>3. NoScript.plan # "config" /\ [NoScript EXCEPT !.plan = "done"].plan # "config"
  BY DEF NoScript
<1>4. ASSUME Onward(s)
      PROVE  PInv'
  <2>1. [w EXCEPT !.pc = @ + 1, !.make = FALSE].plan # "config"
    BY <1>1 DEF Script
  <2>2. QED
    BY <1>1, <1>2, <1>3, <1>4, <2>1 DEF Onward
<1>5. ASSUME Quit(s)
      PROVE  PInv'
  BY <1>2, <1>3, <1>5 DEF Quit
<1>6. CASE Look(s)
  <2>1. [w EXCEPT !.make = TRUE].plan # "config"
    BY <1>1 DEF Script
  <2>2. Onward(s) \/ script' = [script EXCEPT ![s] = [w EXCEPT !.make = TRUE]]
    BY <1>1, <1>6 DEF Look
  <2>3. QED
    BY <1>2, <1>4, <2>1, <2>2
<1>7. CASE Skip(s)
  <2>1. ASSUME NEW n PROVE [w EXCEPT !.pc = n].plan # "config"
    BY <1>1 DEF Script
  <2>2. \/ Onward(s) \/ script' = [script EXCEPT ![s] = [NoScript EXCEPT !.plan = "done"]]
        \/ \E n : script' = [script EXCEPT ![s] = [w EXCEPT !.pc = n]]
    BY <1>1, <1>7 DEF Skip
  <2>3. QED
    BY <1>2, <1>3, <1>4, <2>1, <2>2
<1>8. CASE ReadRole(s)
  <2>1. ASSUME NEW r PROVE [w EXCEPT !.pc = @ + 1, !.role = r].plan # "config"
    BY <1>1 DEF Script
  <2>2. \E r : script' = [script EXCEPT ![s] = [w EXCEPT !.pc = @ + 1, !.role = r]]
    BY <1>1, <1>8 DEF ReadRole
  <2>3. QED
    BY <1>2, <2>1, <2>2
<1>9. CASE LookGrant(s)
  <2>1. [w EXCEPT !.make = TRUE].plan # "config"
    BY <1>1 DEF Script
  <2>2. Onward(s) \/ script' = [script EXCEPT ![s] = [w EXCEPT !.make = TRUE]]
    BY <1>1, <1>9 DEF LookGrant
  <2>3. QED
    BY <1>2, <1>4, <2>1, <2>2
<1>10. CASE Create(s) \/ Draw(s) \/ Insert(s) \/ CreateGrant(s) \/ Clear(s) \/ Add(s)
  BY <1>4, <1>5, <1>10 DEF Create, Draw, Insert, CreateGrant, Clear, Add
<1>11. QED
  BY <1>6, <1>7, <1>8, <1>9, <1>10 DEF Proceed

\* The item that a run of seed-config is at.
LEMMA AtItem ==
    ASSUME IInv, PInv, NEW s \in Scripts, NEW w, w = script[s], w.plan = "config"
    PROVE  /\ w \in Script /\ Running(s) /\ w.pc \in DOMAIN ConfigPlan /\ Item(s) = ConfigPlan[w.pc]
           /\ Item(s).how \in {"find", "unique", "role", "grant"} /\ Progress(w)
<1>1. w \in Script /\ Running(s) /\ Item(s) = ConfigPlan[w.pc] /\ Progress(w)
  BY ScriptTyped, ConfigTyped DEF Running, Item, PInv
<1>2. w.pc \in DOMAIN ConfigPlan
  BY <1>1, ScriptTyped, ConfigTyped DEF ScriptSound
<1>3. QED
  BY <1>1, <1>2, ConfigBefore

LEMMA LookProgress ==
    ASSUME IInv, PInv, Grows, NEW s \in Scripts, script[s].plan = "config", Look(s)
    PROVE  PInv'
<1> PICK w : w = script[s]
  OBVIOUS
<1>1. /\ w \in Script /\ w.plan = "config" /\ w.pc \in DOMAIN ConfigPlan
      /\ Item(s) = ConfigPlan[w.pc] /\ Progress(w)
  BY AtItem
<1>2. /\ ConfigPlan[w.pc].how \in {"find", "unique"} /\ UNCHANGED <<table, grants>>
  BY <1>1 DEF Look, Doing
<1>3. CASE Found(Item(s).key)
  <2>1. Past(w, w.pc)'
    BY <1>1, <1>2, <1>3 DEF Past, Found
  <2>2. QED
    BY <1>1, <1>2, <1>3, <2>1, OnwardProgress DEF Look
<1>4. CASE ~Found(Item(s).key)
  <2> PICK v : v = [w EXCEPT !.make = TRUE]
    OBVIOUS
  <2>1. v.pc = w.pc /\ v.role = w.role /\ v.clean = w.clean /\ v.plan = w.plan
    BY <1>1 DEF Script
  <2>2. script' = [script EXCEPT ![s] = v]
    BY <1>4 DEF Look
  <2>3. Progress(v)'
    BY <1>1, <1>2, <2>1 DEF Progress, Past
  <2>4. QED
    BY <1>2, <2>2, <2>3, ProgressStep
<1>5. QED
  BY <1>3, <1>4

LEMMA CreateProgress ==
    ASSUME IInv, PInv, Grows, NEW s \in Scripts, script[s].plan = "config", Create(s)
    PROVE  PInv'
<1> PICK w : w = script[s]
  OBVIOUS
<1>1. /\ w \in Script /\ w.plan = "config" /\ w.pc \in DOMAIN ConfigPlan
      /\ Item(s) = ConfigPlan[w.pc] /\ Running(s) /\ Progress(w)
  BY AtItem
<1>2. ConfigPlan[w.pc].how \in {"find", "unique"} /\ grants' = grants
  BY <1>1, ScriptTyped DEF Create, Doing, ScriptSound, Finding
<1>3. CASE Quit(s)
  BY <1>2, <1>3, ProgressStep DEF Quit, Progress, NoScript
<1>4. CASE ~Quit(s)
  <2> PICK key, row : key = Item(s).key /\ row = [gone |-> FALSE]
    OBVIOUS
  <2> PICK old, new : old = table[key] /\ new = Append(old, row)
    OBVIOUS
  <2>1. key \in Keys /\ table' = [table EXCEPT ![key] = new] /\ Onward(s)
    BY <1>1, <1>4, ConfigTyped DEF Create, AddRow
  <2>2. old \in Seq(Entry)
    BY <2>1 DEF IInv, TypeOK
  <2>3. new # <<>>
    BY <2>2
  <2>4. table'[key] # <<>>
    BY <2>1, <2>3 DEF IInv, TypeOK
  <2>5. Past(w, w.pc)'
    BY <1>1, <1>2, <2>4 DEF Past
  <2>6. QED
    BY <1>1, <1>2, <2>1, <2>5, OnwardProgress
<1>5. QED
  BY <1>3, <1>4

\* The role was looked for before, so there is one.
LEMMA ReadRoleProgress ==
    ASSUME IInv, PInv, Grows, NEW s \in Scripts, script[s].plan = "config", ReadRole(s)
    PROVE  PInv'
<1> PICK w : w = script[s]
  OBVIOUS
<1>1. /\ w \in Script /\ w.plan = "config" /\ w.pc \in DOMAIN ConfigPlan
      /\ Item(s) = ConfigPlan[w.pc] /\ Progress(w)
  BY AtItem
<1>2. ConfigPlan[w.pc].how = "role" /\ UNCHANGED <<table, grants>>
  BY <1>1 DEF ReadRole, Doing
<1>3. PICK j \in DOMAIN ConfigPlan : j < w.pc /\ ConfigPlan[j] = [how |-> "find", key |-> "role"]
  BY <1>1, <1>2, ConfigBefore
<1>4. ConfigPlan[j].how = "find" /\ ConfigPlan[j].key = "role"
  BY <1>3
<1>5. table["role"] # <<>>
  BY <1>1, <1>3, <1>4 DEF Progress, Past
<1>6. PICK r \in DOMAIN table["role"] : script' = [script EXCEPT ![s].pc = @ + 1, ![s].role = r]
  BY <1>5 DEF ReadRole
<1>7. r # 0
  BY <1>6, KeysKnown DEF IInv, TypeOK
<1> PICK n : n = w.pc + 1
  OBVIOUS
<1> PICK v : v = [w EXCEPT !.pc = n, !.role = r]
  OBVIOUS
<1>8. v.pc = n /\ v.role = r /\ v.clean = w.clean /\ v.plan = "config"
  BY <1>1 DEF Script
<1>9. script' = [script EXCEPT ![s] = v]
  BY <1>6
<1>10. ASSUME NEW i \in DOMAIN ConfigPlan, i < n
       PROVE  Past(v, i)'
  <2>1. i = w.pc \/ i < w.pc
    BY <1>1, <1>10, ConfigTyped
  <2>2. ConfigPlan[i].how # "grant"
    <3>1. ConfigPlan[i].how = "grant" => w.pc < i
      BY <1>1, <1>2, ConfigBefore
    <3>2. w.pc \in Nat /\ i \in Nat
      BY <1>1, ConfigTyped
    <3>3. QED
      BY <2>1, <3>1, <3>2
  <2>3. ConfigPlan[i].how \in {"find", "unique"} => table'[ConfigPlan[i].key] # <<>>
    BY <1>1, <1>2, <2>1 DEF Progress, Past
  <2>4. QED
    BY <1>7, <1>8, <2>2, <2>3 DEF Past
<1>11. Progress(v)'
  BY <1>8, <1>10 DEF Progress
<1>12. QED
  BY <1>2, <1>9, <1>11, ProgressStep

\* The role and the permission were found before.
LEMMA GrantProgress ==
    ASSUME IInv, PInv, Grows, NEW s \in Scripts, script[s].plan = "config",
           LookGrant(s) \/ CreateGrant(s)
    PROVE  PInv'
<1> PICK w : w = script[s]
  OBVIOUS
<1> PICK p : p = Item(s).key
  OBVIOUS
<1>1. /\ w \in Script /\ w.plan = "config" /\ w.pc \in DOMAIN ConfigPlan
      /\ Item(s) = ConfigPlan[w.pc] /\ Progress(w)
  BY AtItem
<1>2. ConfigPlan[w.pc].how = "grant" /\ table' = table /\ grants \subseteq grants'
  BY <1>1 DEF LookGrant, CreateGrant, Doing
<1>3. ASSUME Onward(s), <<w.role, p>> \in grants'
      PROVE  PInv'
  <2>1. Past(w, w.pc)'
    BY <1>1, <1>2, <1>3 DEF Past
  <2>2. QED
    BY <1>1, <1>2, <1>3, <2>1, OnwardProgress
<1>4. CASE LookGrant(s)
  <2>1. w.role # 0
    <3>1. PICK j \in DOMAIN ConfigPlan : j < w.pc /\ ConfigPlan[j].how = "role"
      BY <1>1, <1>2, ConfigBefore
    <3>2. QED
      BY <1>1, <3>1 DEF Progress, Past
  <2>2. Found(p)
    <3>1. PICK j \in DOMAIN ConfigPlan : j < w.pc /\ ConfigPlan[j] = [how |-> "unique", key |-> p]
      BY <1>1, <1>2, ConfigBefore
    <3>2. ConfigPlan[j].how = "unique" /\ ConfigPlan[j].key = p
      BY <3>1
    <3>3. QED
      BY <1>1, <3>1, <3>2 DEF Progress, Past, Found
  <2>3. CASE <<w.role, p>> \in grants
    BY <1>2, <1>3, <1>4, <2>3 DEF LookGrant
  <2>4. CASE <<w.role, p>> \notin grants
    <3> PICK v : v = [w EXCEPT !.make = TRUE]
      OBVIOUS
    <3>1. script' = [script EXCEPT ![s] = v]
      BY <1>4, <2>1, <2>2, <2>4 DEF LookGrant
    <3>2. v.pc = w.pc /\ v.role = w.role /\ v.clean = w.clean /\ v.plan = w.plan
      BY <1>1 DEF Script
    <3>3. Progress(w)'
      BY <1>1, <1>2, ProgressStays DEF IInv
    <3>4. Progress(v)'
      BY <3>2, <3>3 DEF Progress, Past
    <3>5. QED
      BY <1>2, <3>1, <3>4, ProgressStep
  <2>5. QED
    BY <2>3, <2>4
<1>5. CASE CreateGrant(s)
  <2>1. CASE Quit(s)
    BY <1>2, <2>1, ProgressStep DEF Quit, Progress, NoScript
  <2>2. CASE ~Quit(s)
    BY <1>3, <1>5, <2>2 DEF CreateGrant
  <2>3. QED
    BY <2>1, <2>2
<1>6. QED
  BY <1>4, <1>5

LEMMA ScriptProgress ==
    ASSUME IInv, PInv, Grows, NEW s \in Scripts,
           Proceed(s) \/ Stop(s) \/ \E plan \in Plans : StartScript(s, plan)
    PROVE  PInv'
<1>1. CASE Stop(s)
  BY <1>1, ProgressStep DEF Stop, Quit, Progress, NoScript
<1>2. ASSUME NEW plan \in Plans, StartScript(s, plan)
      PROVE  PInv'
  <2> PICK v : v = [NoScript EXCEPT !.plan = plan, !.pc = 1, !.clean = TRUE, !.again = seeded]
    OBVIOUS
  <2>1. v.pc = 1
    BY DEF NoScript
  <2>2. \A i \in DOMAIN ConfigPlan : ~(i < 1)
    BY ConfigTyped
  <2>3. script' = [script EXCEPT ![s] = v] /\ grants' = grants
    BY <1>2 DEF StartScript
  <2>4. Progress(v)'
    BY <2>1, <2>2 DEF Progress
  <2>5. QED
    BY <2>3, <2>4, ProgressStep
<1>3. CASE Proceed(s) /\ script[s].plan # "config"
  <2>1. grants \subseteq grants'
    BY <1>3 DEF Proceed, Look, Create, Skip, Draw, Insert, ReadRole, LookGrant, CreateGrant,
       Clear, Add
  <2>2. QED
    BY <1>3, <2>1, OtherPlans
<1>4. CASE Proceed(s) /\ script[s].plan = "config"
  <2>1. Item(s).how \in {"find", "unique", "role", "grant"}
    BY <1>4, AtItem
  <2>2. Look(s) \/ Create(s) \/ ReadRole(s) \/ LookGrant(s) \/ CreateGrant(s)
    BY <1>4, <2>1 DEF Proceed, Skip, Draw, Insert, Clear, Add, Doing
  <2>3. QED
    BY <1>4, <2>2, LookProgress, CreateProgress, ReadRoleProgress, GrantProgress
<1>5. QED
  BY <1>1, <1>2, <1>3, <1>4

\* Requests take permissions away only from runs that are marked for it.
LEMMA RequestProgress ==
    ASSUME IInv, PInv, Grows, NEW h \in Handlers, Request(h) \/ Advance(h) \/ Fail(h)
    PROVE  PInv'
<1>1. CASE RemovePermissionFromRole(h)
  <2> SUFFICES ASSUME NEW s \in Scripts PROVE Progress(script[s])'
    BY DEF PInv
  <2> PICK w : w = script[s]
    OBVIOUS
  <2> PICK v : v = [w EXCEPT !.clean = FALSE]
    OBVIOUS
  <2>1. w \in Script /\ Progress(w) /\ script'[s] = v
    BY <1>1 DEF IInv, TypeOK, PInv, RemovePermissionFromRole
  <2>2. v.pc = w.pc /\ v.role = w.role /\ ~v.clean /\ v.plan = w.plan
    BY <2>1 DEF Script
  <2>3. Progress(v)
    BY <2>1, <2>2 DEF Progress, Past
  <2>4. Progress(v)'
    BY <2>2, <2>3, ProgressStays DEF IInv
  <2>5. QED
    BY <2>1, <2>4 DEF Progress, Past
<1>2. CASE ~RemovePermissionFromRole(h)
  <2>1. script' = script
    BY <1>2 DEF Request, Advance, Fail, UpdateSettings, CreateParameter, DeleteParameter,
       AssignPermissionToRole, CreateSubAdmin, Decide, CreateSettings, assignPermissionsBulk,
       TellDecision, seedVars
  <2>2. grants \subseteq grants'
    BY <1>2 DEF Request, Advance, Fail, UpdateSettings, CreateParameter, DeleteParameter,
       AssignPermissionToRole, CreateSubAdmin, Decide, CreateSettings, assignPermissionsBulk,
       TellDecision
  <2>3. ASSUME NEW s \in Scripts
        PROVE  Progress(script[s])'
    <3> PICK w : w = script[s]
      OBVIOUS
    <3>1. Progress(w)'
      BY <2>2, ProgressStays DEF PInv, IInv
    <3>2. QED
      BY <2>1, <3>1 DEF Progress, Past
  <2>4. QED
    BY <2>3 DEF PInv
<1>3. QED
  BY <1>1, <1>2

LEMMA StepProgress ==
    ASSUME IInv, PInv, [Next]_vars
    PROVE  PInv'
<1>1. Grows
  BY TablesGrow
<1>2. CASE UNCHANGED vars \/ DecideSilently
  <2>1. UNCHANGED <<script, table, grants>>
    BY <1>2 DEF vars, seedVars, DecideSilently
  <2>2. QED
    BY <2>1 DEF PInv, Progress, Past
<1>3. QED
  BY <1>1, <1>2, ScriptProgress, RequestProgress DEF Next, SeedNext, Plans

-----------------------------------------------------------------------------
(* The end of seed-config.                                                 *)

\* Each step of a script is its own.
LEMMA OwnStep ==
    ASSUME IInv, NEW s \in Scripts,
           Proceed(s) \/ Stop(s) \/ \E plan \in Plans : StartScript(s, plan)
    PROVE  \A r \in Scripts \ {s} : script'[r] = script[r]
<1>1. ASSUME NEW v, script' = [script EXCEPT ![s] = v]
      PROVE  \A r \in Scripts \ {s} : script'[r] = script[r]
  BY <1>1 DEF IInv, TypeOK
<1>2. ASSUME Onward(s) \/ Quit(s)
      PROVE  \A r \in Scripts \ {s} : script'[r] = script[r]
  BY <1>1, <1>2 DEF Onward, Quit
<1>3. CASE Look(s) \/ Skip(s) \/ LookGrant(s)
  BY <1>1, <1>2, <1>3 DEF Look, Skip, LookGrant
<1>4. CASE ReadRole(s)
  BY <1>4 DEF ReadRole, IInv, TypeOK
<1>5. CASE Create(s) \/ Draw(s) \/ Insert(s) \/ CreateGrant(s) \/ Clear(s) \/ Add(s) \/ Stop(s)
  BY <1>2, <1>5 DEF Create, Draw, Insert, CreateGrant, Clear, Add, Stop
<1>6. CASE \E plan \in Plans : StartScript(s, plan)
  BY <1>1, <1>6 DEF StartScript
<1>7. QED
  BY <1>3, <1>4, <1>5, <1>6 DEF Proceed

\* A request leaves every script where it is.
LEMMA RequestKeepsPlaces ==
    ASSUME IInv, NEW h \in Handlers, Request(h) \/ Advance(h) \/ Fail(h), NEW s \in Scripts
    PROVE  script'[s].plan = script[s].plan /\ script'[s].pc = script[s].pc
<1>1. CASE RemovePermissionFromRole(h)
  <2>1. script[s] \in Script /\ script'[s] = [script[s] EXCEPT !.clean = FALSE]
    BY <1>1 DEF RemovePermissionFromRole, IInv, TypeOK
  <2>2. QED
    BY <2>1 DEF Script
<1>2. CASE ~RemovePermissionFromRole(h)
  BY <1>2 DEF Request, Advance, Fail, UpdateSettings, CreateParameter, DeleteParameter,
     AssignPermissionToRole, CreateSubAdmin, Decide, CreateSettings, assignPermissionsBulk,
     TellDecision, seedVars
<1>3. QED
  BY <1>1, <1>2

\* seed-config ends by a step of its own.
LEMMA EndsInProceed ==
    ASSUME IInv, PInv, [Next]_vars, NEW s \in Scripts,
           script[s].plan = "config", script'[s].plan = "done"
    PROVE  Proceed(s) /\ ~Quit(s)
<1> PICK w : w = script[s]
  OBVIOUS
<1>1. w \in Script /\ w.plan = "config" /\ Running(s)
  BY AtItem
<1>2. ASSUME NEW v, script' = [script EXCEPT ![s] = v], v.plan # "done"
      PROVE  FALSE
  BY <1>2 DEF IInv, TypeOK
<1>3. Proceed(s) \/ Stop(s) \/ \E plan \in Plans : StartScript(s, plan)
  <2>1. ~(DecideSilently \/ UNCHANGED vars)
    BY <1>1 DEF DecideSilently, vars, seedVars
  <2>2. \A h \in Handlers : ~(Request(h) \/ Advance(h) \/ Fail(h))
    BY RequestKeepsPlaces
  <2>3. PICK r \in Scripts : Proceed(r) \/ Stop(r) \/ \E plan \in Plans : StartScript(r, plan)
    BY <2>1, <2>2 DEF Next, SeedNext, Plans
  <2>4. r = s
    BY <2>3, OwnStep
  <2>5. QED
    BY <2>3, <2>4
<1>4. QED
  BY <1>1, <1>2, <1>3 DEF Stop, Quit, NoScript, StartScript

\* seed-config ends with its last item, which grants nothing.
LEMMA EndOfConfig ==
    ASSUME IInv, PInv, [Next]_vars, NEW s \in Scripts,
           script[s].plan = "config", script'[s].plan = "done"
    PROVE  /\ script[s].pc = Len(ConfigPlan) /\ ConfigPlan[script[s].pc].how = "unique"
           /\ UNCHANGED <<grants, roleOf>>
<1> PICK w : w = script[s]
  OBVIOUS
<1>1. /\ w \in Script /\ w.plan = "config" /\ w.pc \in DOMAIN ConfigPlan /\ Running(s)
      /\ Item(s) = ConfigPlan[w.pc] /\ Item(s).how \in {"find", "unique", "role", "grant"}
  BY AtItem
<1>2. ASSUME NEW v, script' = [script EXCEPT ![s] = v], v.plan # "done"
      PROVE  FALSE
  BY <1>2 DEF IInv, TypeOK
<1>3. Proceed(s) /\ ~Quit(s)
  BY EndsInProceed
<1>5. /\ [w EXCEPT !.make = TRUE].plan # "done"
      /\ \A n : [w EXCEPT !.pc = n, !.make = FALSE].plan # "done"
      /\ \A n, r : [w EXCEPT !.pc = n, !.role = r].plan # "done"
  BY <1>1 DEF Script
<1>6. ~ReadRole(s)
  <2> SUFFICES ASSUME ReadRole(s) PROVE FALSE
    OBVIOUS
  <2>1. PICK r : script' = [script EXCEPT ![s].pc = @ + 1, ![s].role = r]
    BY DEF ReadRole
  <2> PICK v : v = [w EXCEPT !.pc = w.pc + 1, !.role = r]
    OBVIOUS
  <2>2. script' = [script EXCEPT ![s] = v] /\ v.plan # "done"
    BY <1>5, <2>1
  <2>3. QED
    BY <1>2, <2>2
<1>7. Onward(s) /\ (Look(s) \/ Create(s) \/ LookGrant(s) \/ CreateGrant(s))
  <2>1. Look(s) \/ Create(s) \/ LookGrant(s) \/ CreateGrant(s)
    BY <1>1, <1>3, <1>6 DEF Proceed, Skip, Draw, Insert, Clear, Add, Doing
  <2>2. CASE Look(s)
    <3> PICK v : v = [w EXCEPT !.make = TRUE]
      OBVIOUS
    <3>1. Onward(s) \/ script' = [script EXCEPT ![s] = v]
      BY <2>2 DEF Look
    <3>2. v.plan # "done"
      BY <1>5
    <3>3. QED
      BY <1>2, <2>2, <3>1, <3>2
  <2>3. CASE LookGrant(s)
    <3>1. Onward(s) \/ script' = [script EXCEPT ![s] = [w EXCEPT !.make = TRUE]]
      BY <2>3 DEF LookGrant
    <3>2. QED
      BY <1>2, <1>5, <2>3, <3>1
  <2>4. CASE Create(s) \/ CreateGrant(s)
    BY <1>3, <2>4 DEF Create, CreateGrant
  <2>5. QED
    BY <2>1, <2>2, <2>3, <2>4
<1>8. w.pc = Len(ConfigPlan)
  <2>1. ~(w.pc < Len(ConfigPlan))
    <3> SUFFICES ASSUME w.pc < Len(ConfigPlan) PROVE FALSE
      OBVIOUS
    <3> PICK v : v = [w EXCEPT !.pc = w.pc + 1, !.make = FALSE]
      OBVIOUS
    <3>1. script' = [script EXCEPT ![s] = v] /\ v.plan # "done"
      BY <1>1, <1>5, <1>7, ConfigTyped DEF Onward
    <3>2. QED
      BY <1>2, <3>1
  <2>2. QED
    BY <1>1, <2>1, ConfigTyped
<1>9. ConfigPlan[w.pc].how = "unique" /\ ConfigPlan[w.pc].key = "pack"
  BY <1>8, ConfigBefore
<1>10. Look(s) \/ Create(s)
  BY <1>1, <1>7, <1>9 DEF LookGrant, CreateGrant, Doing
<1>11. UNCHANGED <<grants, roleOf>>
  BY <1>1, <1>9, <1>10 DEF Look, Create
<1>12. QED
  BY <1>8, <1>9, <1>11

LEMMA DoorOpens ==
    ASSUME IInv, PInv, [Next]_vars, NEW s \in Scripts, script[s].plan = "config", script[s].clean,
           script'[s].plan = "done", Len(table["role"]) = 1, roleOf["root"] # 0, NEW p \in Perms
    PROVE  canActivate("root", p)'
<1> PICK w : w = script[s]
  OBVIOUS
<1>1. /\ w.pc = Len(ConfigPlan) /\ ConfigPlan[w.pc].how = "unique"
      /\ UNCHANGED <<grants, roleOf>>
  BY EndOfConfig
<1>2. w.plan = "config" /\ w.clean /\ Progress(w)
  BY DEF PInv
<1>3. PICK i \in DOMAIN ConfigPlan : ConfigPlan[i] = [how |-> "grant", key |-> p]
  BY ConfigBefore
<1>4. ConfigPlan[i].how = "grant" /\ ConfigPlan[i].key = p
  BY <1>3
<1>5. i < w.pc
  <2>1. i # w.pc
    BY <1>1, <1>4
  <2>2. QED
    BY <1>1, <2>1, ConfigTyped
<1>6. <<w.role, p>> \in grants
  BY <1>2, <1>4, <1>5 DEF Progress, Past
<1>7. PICK j \in DOMAIN ConfigPlan : j < i /\ ConfigPlan[j].how = "role"
  BY <1>4, ConfigBefore
<1>8. w.role # 0
  <2>1. j < w.pc
    BY <1>1, <1>5, <1>7, ConfigTyped
  <2>2. QED
    BY <1>2, <1>7, <2>1 DEF Progress, Past
<1>9. DOMAIN table["role"] = {1}
  BY KeysKnown DEF IInv, TypeOK
<1>10. w.role = 1 /\ roleOf["root"] = 1
  <2>1. w.role \in {0} \cup DOMAIN table["role"]
    BY ScriptTyped DEF ScriptSound
  <2>2. roleOf["root"] \in {0} \cup DOMAIN table["role"]
    BY DEF IInv, TypeOK, Admins
  <2>3. QED
    BY <1>8, <1>9, <2>1, <2>2
<1>11. QED
  BY <1>1, <1>6, <1>10 DEF canActivate

(***************************************************************************)
(* seed-config, run to its end while no permission is taken away, lets the *)
(* administrator in everywhere if there is one role, whatever other        *)
(* scripts, stopped runs and administrators left or do meanwhile.          *)
(***************************************************************************)
THEOREM SeedsOpenTheDoor == Spec => SeedOpensTheDoor
<1>1. Init => IInv /\ PInv
  <2> SUFFICES ASSUME Init PROVE PInv
    BY InitInv
  <2>1. \A s \in Scripts : script[s].plan = "none"
    BY NoScriptType DEF Init, SeedInit
  <2>2. QED
    BY <2>1 DEF PInv, Progress
<1>2. IInv /\ PInv /\ [Next]_vars => IInv' /\ PInv'
  BY StepInv, StepProgress
<1>3. IInv /\ PInv /\ [Next]_vars
        => [\A s \in Scripts :
              /\ script[s].plan = "config" /\ script[s].clean /\ script'[s].plan = "done"
              /\ Len(table["role"]) = 1 /\ roleOf["root"] # 0
              => \A p \in Perms : canActivate("root", p)']_vars
  BY DoorOpens
<1>4. QED
  BY <1>1, <1>2, <1>3, PTL DEF Spec, SeedOpensTheDoor

-----------------------------------------------------------------------------
(* Once seed-config has run to its end, all it looks for is there, and a   *)
(* run that began after that has found it all.                             *)

AllThere ==
    \A i \in DOMAIN ConfigPlan :
        ConfigPlan[i].how \in {"find", "unique"} => table[ConfigPlan[i].key] # <<>>

Repeats(w) ==
    w.plan = "config" /\ w.again =>
        seeded /\ ~(w.make /\ ConfigPlan[w.pc].how \in {"find", "unique"})

RInv == (seeded => AllThere) /\ \A s \in Scripts : Repeats(script[s])

LEMMA AllStays ==
    ASSUME TypeOK, Grows, AllThere
    PROVE  AllThere'
BY ConfigTyped, StaysThere DEF AllThere

\* The last item of seed-config is there when it ends.
LEMMA LastItem ==
    ASSUME IInv, PInv, [Next]_vars, NEW s \in Scripts,
           script[s].plan = "config", script'[s].plan = "done"
    PROVE  table'["pack"] # <<>>
<1> PICK w : w = script[s]
  OBVIOUS
<1>1. w.pc = Len(ConfigPlan) /\ ConfigPlan[w.pc] = [how |-> "unique", key |-> "pack"]
  BY EndOfConfig, ConfigBefore
<1>2. /\ w \in Script /\ w.plan = "config" /\ Running(s) /\ Item(s) = ConfigPlan[w.pc]
  BY AtItem
<1>3. Item(s).how = "unique" /\ Item(s).key = "pack" /\ "pack" \in Keys
  BY <1>1, <1>2 DEF Keys
<1>4. ASSUME NEW v, script' = [script EXCEPT ![s] = v], v.plan # "done"
      PROVE  FALSE
  BY <1>4 DEF IInv, TypeOK
<1>5. Look(s) \/ Create(s)
  BY <1>2, <1>3, EndsInProceed DEF Proceed, Skip, Draw, Insert, ReadRole, LookGrant, CreateGrant,
     Clear, Add, Doing
<1>6. ~Quit(s)
  BY <1>4 DEF Quit, NoScript
<1>7. CASE Look(s)
  <2> PICK v : v = [w EXCEPT !.make = TRUE]
    OBVIOUS
  <2>1. v.plan # "done"
    BY <1>2 DEF Script
  <2>2. Found(Item(s).key) /\ table' = table
    BY <1>4, <1>7, <2>1 DEF Look
  <2>3. QED
    BY <1>3, <2>2 DEF Found
<1>8. CASE Create(s)
  <2> PICK old, row : old = table["pack"] /\ row = [gone |-> FALSE]
    OBVIOUS
  <2> PICK new : new = Append(old, row)
    OBVIOUS
  <2>1. table' = [table EXCEPT !["pack"] = new]
    BY <1>3, <1>6, <1>8 DEF Create, AddRow
  <2>2. old \in Seq(Entry)
    BY <1>3 DEF IInv, TypeOK
  <2>3. new # <<>>
    BY <2>2
  <2>4. QED
    BY <1>3, <2>1, <2>3 DEF IInv, TypeOK
<1>9. QED
  BY <1>5, <1>7, <1>8

LEMMA EndLeavesAll ==
    ASSUME IInv, PInv, [Next]_vars, NEW s \in Scripts,
           script[s].plan = "config", script'[s].plan = "done"
    PROVE  AllThere'
<1> PICK w : w = script[s]
  OBVIOUS
<1>1. w.plan = "config" /\ Progress(w) /\ w.pc = Len(ConfigPlan)
  BY EndOfConfig DEF PInv
<1>2. Grows /\ TypeOK
  BY TablesGrow DEF IInv
<1>3. ASSUME NEW i \in DOMAIN ConfigPlan, ConfigPlan[i].how \in {"find", "unique"}
      PROVE  table'[ConfigPlan[i].key] # <<>>
  <2>1. CASE i < w.pc
    <3>1. table[ConfigPlan[i].key] # <<>>
      BY <1>1, <1>3, <2>1 DEF Progress, Past
    <3>2. QED
      BY <1>2, <3>1, ConfigTyped, StaysThere
  <2>2. CASE i = w.pc
    BY <1>1, <2>2, LastItem, ConfigBefore
  <2>3. QED
    BY <1>1, <2>1, <2>2, ConfigTyped
<1>4. QED
  BY <1>3 DEF AllThere

\* seeded is never taken back, and is set only by such an end.
LEMMA SeededMoves ==
    ASSUME IInv, PInv, RInv, [Next]_vars
    PROVE  (seeded => seeded') /\ (seeded' => AllThere')
<1>1. Grows /\ TypeOK
  BY TablesGrow DEF IInv
<1>2. seeded => AllThere'
  BY <1>1, AllStays DEF RInv
<1>3. CASE SeedNext
  <2>1. seeded' = (seeded \/ \E s \in Scripts :
                      script[s].plan = "config" /\ script'[s].plan = "done")
    BY <1>3 DEF SeedNext
  <2>2. QED
    BY <1>2, <2>1, EndLeavesAll
<1>4. CASE DecideSilently \/ UNCHANGED vars
  BY <1>2, <1>4 DEF DecideSilently, vars, seedVars
<1>5. ASSUME NEW h \in Handlers, Request(h) \/ Advance(h) \/ Fail(h)
      PROVE  seeded' = seeded
  BY <1>5 DEF Request, Advance, Fail, UpdateSettings, CreateParameter, DeleteParameter,
     AssignPermissionToRole, RemovePermissionFromRole, CreateSubAdmin, Decide, CreateSettings,
     assignPermissionsBulk, TellDecision, seedVars
<1>6. QED
  BY <1>2, <1>3, <1>4, <1>5 DEF Next

\* A step of the script itself.
LEMMA RunRepeats ==
    ASSUME IInv, PInv, RInv, seeded => seeded', NEW s \in Scripts,
           Proceed(s) \/ Stop(s) \/ \E plan \in Plans : StartScript(s, plan)
    PROVE  Repeats(script[s])'
<1> PICK w : w = script[s]
  OBVIOUS
<1>1. w \in Script /\ Repeats(w) /\ ScriptSound(s)
  BY ScriptTyped DEF RInv
<1>2. ASSUME NEW v, script' = [script EXCEPT ![s] = v],
             v.plan = "config" /\ v.again =>
                 seeded /\ ~(v.make /\ ConfigPlan[v.pc].how \in {"find", "unique"})
      PROVE  Repeats(script[s])'
  <2>1. script'[s] = v
    BY <1>2 DEF IInv, TypeOK
  <2>2. QED
    BY <1>2, <2>1 DEF Repeats
<1>3. NoScript.plan # "config" /\ [NoScript EXCEPT !.plan = "done"].plan # "config"
  BY DEF NoScript
<1>4. ASSUME Onward(s)
      PROVE  Repeats(script[s])'
  <2> PICK v : v = [w EXCEPT !.pc = @ + 1, !.make = FALSE]
    OBVIOUS
  <2>1. v.plan = w.plan /\ v.again = w.again /\ v.make = FALSE
    BY <1>1 DEF Script
  <2>2. \/ script' = [script EXCEPT ![s] = v]
        \/ script' = [script EXCEPT ![s] = [NoScript EXCEPT !.plan = "done"]]
    BY <1>4 DEF Onward
  <2>3. QED
    BY <1>1, <1>2, <1>3, <2>1, <2>2 DEF Repeats
<1>5. ASSUME Quit(s)
      PROVE  Repeats(script[s])'
  BY <1>2, <1>3, <1>5 DEF Quit
<1>6. CASE Look(s)
  <2> PICK v : v = [w EXCEPT !.make = TRUE]
    OBVIOUS
  <2>1. v.plan = w.plan /\ v.again = w.again
    BY <1>1 DEF Script
  <2>2. CASE w.plan = "config" /\ w.again
    <3>1. Item(s) = ConfigPlan[w.pc] /\ w.pc \in DOMAIN ConfigPlan
      BY <2>2, AtItem
    <3>2. Found(Item(s).key)
      BY <1>1, <1>6, <2>2, <3>1 DEF Repeats, RInv, AllThere, Found, Look, Doing
    <3>3. QED
      BY <1>4, <1>6, <3>2 DEF Look
  <2>3. CASE ~(w.plan = "config" /\ w.again)
    <3>1. Onward(s) \/ script' = [script EXCEPT ![s] = v]
      BY <1>6 DEF Look
    <3>2. QED
      BY <1>2, <1>4, <2>1, <2>3, <3>1
  <2>4. QED
    BY <2>2, <2>3
<1>7. CASE LookGrant(s)
  <2> PICK v : v = [w EXCEPT !.make = TRUE]
    OBVIOUS
  <2>1. v.plan = w.plan /\ v.again = w.again /\ v.pc = w.pc
    BY <1>1 DEF Script
  <2>2. Onward(s) \/ script' = [script EXCEPT ![s] = v]
    BY <1>7 DEF LookGrant
  <2>3. w.plan = "config" => ConfigPlan[w.pc].how = "grant"
    BY <1>7, AtItem DEF LookGrant, Doing
  <2>4. QED
    BY <1>1, <1>2, <1>4, <2>1, <2>2, <2>3 DEF Repeats
<1>8. CASE ReadRole(s)
  <2>1. PICK r : script' = [script EXCEPT ![s].pc = @ + 1, ![s].role = r]
    BY <1>8 DEF ReadRole
  <2> PICK v : v = [w EXCEPT !.pc = w.pc + 1, !.role = r]
    OBVIOUS
  <2>2. script' = [script EXCEPT ![s] = v]
    BY <2>1
  <2>3. v.plan = w.plan /\ v.again = w.again /\ v.make = w.make
    BY <1>1 DEF Script
  <2>4. ~w.make
    BY <1>1, <1>8 DEF ReadRole, Doing, ScriptSound, Finding
  <2>5. QED
    BY <1>1, <1>2, <2>2, <2>3, <2>4 DEF Repeats
<1>9. CASE Skip(s)
  <2>1. w.plan # "config"
    BY <1>9, AtItem DEF Skip, Doing
  <2>2. ASSUME NEW n PROVE [w EXCEPT !.pc = n].plan # "config"
    BY <1>1, <2>1 DEF Script
  <2>3. \/ Onward(s) \/ script' = [script EXCEPT ![s] = [NoScript EXCEPT !.plan = "done"]]
        \/ \E n : script' = [script EXCEPT ![s] = [w EXCEPT !.pc = n]]
    BY <1>9 DEF Skip
  <2>4. QED
    BY <1>2, <1>3, <1>4, <2>2, <2>3
<1>10. CASE Create(s) \/ Draw(s) \/ Insert(s) \/ CreateGrant(s) \/ Clear(s) \/ Add(s) \/ Stop(s)
  BY <1>4, <1>5, <1>10 DEF Create, Draw, Insert, CreateGrant, Clear, Add, Stop
<1>11. ASSUME NEW plan \in Plans, StartScript(s, plan)
       PROVE  Repeats(script[s])'
  <2> PICK v : v = [NoScript EXCEPT !.plan = plan, !.pc = 1, !.clean = TRUE, !.again = seeded]
    OBVIOUS
  <2>1. ~v.make /\ v.again = seeded
    BY DEF NoScript
  <2>2. script' = [script EXCEPT ![s] = v]
    BY <1>11 DEF StartScript
  <2>3. QED
    BY <1>2, <2>1, <2>2
<1>12. QED
  BY <1>6, <1>7, <1>8, <1>9, <1>10, <1>11 DEF Proceed

LEMMA StepRepeats ==
    ASSUME IInv, PInv, RInv, [Next]_vars
    PROVE  RInv'
<1>1. (seeded => seeded') /\ (seeded' => AllThere')
  BY SeededMoves
<1>2. ASSUME NEW s \in Scripts, script'[s] = script[s]
      PROVE  Repeats(script[s])'
  BY <1>1, <1>2 DEF RInv, Repeats
<1>3. CASE SeedNext
  <2>1. PICK s \in Scripts : Proceed(s) \/ Stop(s) \/ \E plan \in Plans : StartScript(s, plan)
    BY <1>3 DEF SeedNext, Plans
  <2>2. Repeats(script[s])' /\ \A r \in Scripts \ {s} : Repeats(script[r])'
    BY <1>1, <1>2, <2>1, RunRepeats, OwnStep
  <2>3. QED
    BY <1>1, <2>2 DEF RInv
<1>4. CASE DecideSilently \/ UNCHANGED vars
  <2>1. script' = script
    BY <1>4 DEF DecideSilently, vars, seedVars
  <2>2. QED
    BY <1>1, <1>2, <2>1 DEF RInv
<1>5. ASSUME NEW h \in Handlers, Request(h) \/ Advance(h) \/ Fail(h)
      PROVE  RInv'
  <2>1. CASE RemovePermissionFromRole(h)
    <3>1. ASSUME NEW s \in Scripts
          PROVE  Repeats(script[s])'
      <4>1. script[s] \in Script /\ script'[s] = [script[s] EXCEPT !.clean = FALSE]
        BY <2>1 DEF RemovePermissionFromRole, IInv, TypeOK
      <4>2. /\ script'[s].plan = script[s].plan /\ script'[s].again = script[s].again
            /\ script'[s].make = script[s].make /\ script'[s].pc = script[s].pc
        BY <4>1 DEF Script
      <4>3. QED
        BY <1>1, <4>2 DEF RInv, Repeats
    <3>2. QED
      BY <1>1, <3>1 DEF RInv
  <2>2. CASE ~RemovePermissionFromRole(h)
    <3>1. script' = script
      BY <1>5, <2>2 DEF Request, Advance, Fail, UpdateSettings, CreateParameter, DeleteParameter,
         AssignPermissionToRole, CreateSubAdmin, Decide, CreateSettings, assignPermissionsBulk,
         TellDecision, seedVars
    <3>2. QED
      BY <1>1, <1>2, <3>1 DEF RInv
  <2>3. QED
    BY <2>1, <2>2
<1>6. QED
  BY <1>3, <1>4, <1>5 DEF Next

\* A run of seed-config that began after an end of it writes no row.
LEMMA RepeatWritesNothing ==
    ASSUME IInv, PInv, RInv, [Next]_vars, NEW s \in Scripts,
           script[s].plan = "config", script[s].again, script'[s] # script[s]
    PROVE  table' = table
<1>1. CASE SeedNext
  <2>1. PICK r \in Scripts : Proceed(r) \/ Stop(r) \/ \E plan \in Plans : StartScript(r, plan)
    BY <1>1 DEF SeedNext, Plans
  <2>2. r = s
    BY <2>1, OwnStep
  <2>3. /\ Running(s) /\ Item(s) = ConfigPlan[script[s].pc] /\ ScriptSound(s)
        /\ Item(s).how \in {"find", "unique", "role", "grant"} /\ Repeats(script[s])
    BY AtItem, ScriptTyped DEF RInv
  <2>4. ~Create(s)
    BY <2>3 DEF Create, Repeats, ScriptSound, Finding, Doing
  <2>5. Look(s) \/ ReadRole(s) \/ LookGrant(s) \/ CreateGrant(s) \/ Stop(s)
    BY <2>1, <2>2, <2>3, <2>4 DEF Proceed, Skip, Draw, Insert, Clear, Add, Doing, StartScript
  <2>6. QED
    BY <2>5 DEF Look, ReadRole, LookGrant, CreateGrant, Stop
<1>2. CASE DecideSilently \/ UNCHANGED vars
  BY <1>2 DEF DecideSilently, vars
<1>3. ASSUME NEW h \in Handlers, Request(h) \/ Advance(h) \/ Fail(h)
      PROVE  table' = table
  <2>1. RemovePermissionFromRole(h)
    BY <1>3 DEF Request, Advance, Fail, UpdateSettings, CreateParameter, DeleteParameter,
       AssignPermissionToRole, CreateSubAdmin, Decide, CreateSettings, assignPermissionsBulk,
       TellDecision, seedVars
  <2>2. QED
    BY <2>1 DEF RemovePermissionFromRole
<1>4. QED
  BY <1>1, <1>2, <1>3 DEF Next

(***************************************************************************)
(* Once seed-config has run to its end, no later run of it adds a row,     *)
(* whatever other scripts and administrators write and delete meanwhile    *)
(* (seed-config.ts:13), for any number of scripts, stops and permissions.  *)
(***************************************************************************)
THEOREM RepeatsAddNothing == Spec => RepeatAddsNothing
<1>1. Init => IInv /\ PInv /\ RInv
  <2> SUFFICES ASSUME Init PROVE PInv /\ RInv
    BY InitInv
  <2>1. seeded = FALSE /\ \A s \in Scripts : script[s].plan = "none"
    BY NoScriptType DEF Init, SeedInit
  <2>2. QED
    BY <2>1 DEF PInv, Progress, RInv, Repeats
<1>2. IInv /\ PInv /\ RInv /\ [Next]_vars => IInv' /\ PInv' /\ RInv'
  BY StepInv, StepProgress, StepRepeats
<1>3. IInv /\ PInv /\ RInv /\ [Next]_vars
        => [\A s \in Scripts :
              script[s].plan = "config" /\ script[s].again /\ script'[s] # script[s]
              => table' = table]_vars
  BY RepeatWritesNothing
<1>4. QED
  BY <1>1, <1>2, <1>3, PTL DEF Spec, RepeatAddsNothing

-----------------------------------------------------------------------------
(* The preferences of a seeded nounu.                                      *)

\* Plans that do not touch them.
Spares(p) == p \in Seq(Items) /\ \A i \in DOMAIN p : p[i].how \notin {"clear", "add"}

LEMMA StepSpares ==
    ASSUME NEW how \in Hows \ {"grant", "clear", "add"}, NEW key \in Keys
    PROVE  Spares(Step(how, key))
<1> PICK p : p = Step(how, key)
  OBVIOUS
<1>1. p \in Seq(Items) /\ Len(p) = 1 /\ p[1].how = how
  BY StepType
<1>2. DOMAIN p = {1}
  BY <1>1
<1>3. QED
  BY <1>1, <1>2 DEF Spares

LEMMA JoinSpares ==
    ASSUME NEW a, NEW b, Spares(a), Spares(b)
    PROVE  Spares(a \o b)
<1> PICK c : c = a \o b
  OBVIOUS
<1>1. a \in Seq(Items) /\ b \in Seq(Items)
  BY DEF Spares
<1>2. /\ c \in Seq(Items) /\ Len(c) = Len(a) + Len(b)
      /\ \A i \in 1 .. Len(a) + Len(b) : c[i] = IF i <= Len(a) THEN a[i] ELSE b[i - Len(a)]
  BY <1>1, ConcatProperties
<1>3. ASSUME NEW i \in DOMAIN c
      PROVE  c[i].how \notin {"clear", "add"}
  <2>1. i \in 1 .. Len(a) + Len(b) /\ Len(a) \in Nat /\ Len(b) \in Nat
    BY <1>1, <1>2, <1>3
  <2>2. CASE i <= Len(a)
    <3>1. i \in DOMAIN a /\ c[i] = a[i]
      BY <1>1, <1>2, <2>1, <2>2
    <3>2. QED
      BY <3>1 DEF Spares
  <2>3. CASE ~(i <= Len(a))
    <3>1. i - Len(a) \in DOMAIN b /\ c[i] = b[i - Len(a)]
      BY <1>1, <1>2, <2>1, <2>3
    <3>2. QED
      BY <3>1 DEF Spares
  <2>4. QED
    BY <2>2, <2>3
<1>4. QED
  BY <1>2, <1>3 DEF Spares

LEMMA EachSpares ==
    ASSUME NEW S \in SUBSET Perms, NEW how \in {"unique", "grant"}
    PROVE  Spares(Each(how, S))
<1> PICK p : p = Each(how, S)
  OBVIOUS
<1>1. p \in Seq(Items) /\ Len(p) = Cardinality(S)
      /\ \A i \in 1 .. Cardinality(S) : p[i] = [how |-> how, key |-> SetToSeq(S)[i]]
  BY EachIs
<1>2. ASSUME NEW i \in DOMAIN p
      PROVE  p[i].how = how
  <2>1. i \in 1 .. Cardinality(S)
    BY <1>1
  <2>2. p[i] = [how |-> how, key |-> SetToSeq(S)[i]]
    BY <1>1, <2>1
  <2>3. QED
    BY <2>2
<1>3. QED
  BY <1>1, <1>2 DEF Spares

LEMMA PermissionsSpare ==
    ASSUME NEW S \in SUBSET Perms
    PROVE  Spares(seedPermissions(S))
<1>1. Spares(Each("unique", S)) /\ Spares(Each("grant", S)) /\ Spares(Step("role", "role"))
  BY EachSpares, StepSpares DEF Hows, Keys
<1>2. QED
  BY <1>1, JoinSpares DEF seedPermissions

LEMMA ConfigSpares == Spares(ConfigPlan)
BY ConfigTyped, ConfigBefore DEF Spares

LEMMA DemoSpares == Spares(DemoPlan)
<1>1. /\ Spares(seedTypeParameters) /\ Spares(seedParameters)
      /\ Spares(seedPreferencesAndJobs) /\ Spares(seedDemoRooms)
      /\ Spares(seedNotifications) /\ Spares(seedMedias)
      /\ Spares(seedDemoSettings) /\ Spares(seedPacks)
  BY StepSpares DEF seedTypeParameters, seedParameters, seedPreferencesAndJobs, seedDemoRooms,
     seedNotifications, seedMedias, seedDemoSettings, seedPacks, Hows, Keys
<1>2. Spares(seedPermissions(DemoPerms))
  BY PermissionsSpare, SeedsAssumption
<1>3. Spares(seedUsersAndProfiles) /\ Spares(seedPaymentsAndSubscriptions)
  BY StepSpares, JoinSpares DEF seedUsersAndProfiles, seedPaymentsAndSubscriptions, Hows, Keys
<1>4. Spares(seedTypeParameters \o seedParameters \o seedUsersAndProfiles
             \o seedPreferencesAndJobs \o seedDemoRooms \o seedNotifications)
  BY <1>1, <1>3, JoinSpares
<1>5. QED
  BY <1>1, <1>2, <1>3, <1>4, JoinSpares DEF DemoPlan

LEMMA RoomsSpare == Spares(RoomsPlan) /\ Spares(seedContractsBatch)
<1>1. Spares(seedRoomsAndMessages) /\ Spares(seedRandomNotifications)
  BY StepSpares, JoinSpares DEF seedRoomsAndMessages, seedRandomNotifications, Hows, Keys
<1>2. Spares(seedContractsBatch)
  BY StepSpares, JoinSpares DEF seedContractsBatch, Hows, Keys
<1>3. QED
  BY <1>1, <1>2, JoinSpares DEF RoomsPlan

\* c is a and then the item of b.
Longer(c, a, b, m) ==
    /\ c \in Seq(Items) /\ Len(c) = m + 1 /\ c[m + 1] = b[1]
    /\ \A i \in 1 .. m : c[i] = a[i]

LEMMA AddOne ==
    ASSUME NEW a \in Seq(Items), NEW b \in Seq(Items), Len(b) = 1, NEW m \in Nat, Len(a) = m
    PROVE  Longer(a \o b, a, b, m)
<1> PICK c : c = a \o b
  OBVIOUS
<1>1. /\ c \in Seq(Items) /\ Len(c) = Len(a) + Len(b)
      /\ \A i \in 1 .. Len(a) + Len(b) :
           c[i] = IF i <= Len(a) THEN a[i] ELSE b[i - Len(a)]
  BY ConcatProperties
<1>2. Len(c) = m + 1
  BY <1>1
<1>3. c[m + 1] = b[1]
  <2>1. m + 1 \in 1 .. m + 1 /\ ~(m + 1 <= m) /\ (m + 1) - m = 1
    OBVIOUS
  <2>2. QED
    BY <1>1, <2>1
<1>4. ASSUME NEW i \in 1 .. m PROVE c[i] = a[i]
  BY <1>1
<1>5. QED
  BY <1>1, <1>2, <1>3, <1>4 DEF Longer

\* The deletion is third, and the insertions follow it.
LEMMA NounusOrder ==
    /\ NounusPlan \in Seq(Items) /\ Len(NounusPlan) = Prefs + 4
    /\ \A i \in 1 .. Prefs + 4 : NounusPlan[i].how = "clear" <=> i = 3
    /\ \A i \in 1 .. Prefs + 4 : NounusPlan[i].how = "add" <=> i \in 4 .. Prefs + 3
    /\ \A i \in 1 .. Prefs + 4 : NounusPlan[i].how \in {"unique", "find", "clear", "add"}
<1>1. PICK a \in Seq(Items) : a = Step("unique", "nounu") /\ Len(a) = 1 /\ a[1].how = "unique"
  BY StepType DEF Hows, Keys
<1>2. PICK b \in Seq(Items) : b = Step("find", "media") /\ Len(b) = 1 /\ b[1].how = "find"
  BY StepType DEF Hows, Keys
<1>3. PICK c \in Seq(Items) : c = Step("clear", "nounu") /\ Len(c) = 1 /\ c[1].how = "clear"
  BY StepType DEF Hows, Keys
<1>4. PICK n \in Nat \ {0} : n = Prefs
  BY SeedsAssumption
<1>5. PICK d \in Seq(Items) : /\ d = seedNounuPreferences /\ Len(d) = n
                              /\ \A i \in 1 .. n : d[i].how = "add"
  <2> PICK item : item = [how |-> "add", key |-> "nounu"]
    OBVIOUS
  <2>1. item \in Items /\ item.how = "add"
    BY DEF Items, Hows, Keys
  <2>2. seedNounuPreferences = [i \in 1 .. n |-> item]
    BY <1>4 DEF seedNounuPreferences
  <2>3. [i \in 1 .. n |-> item] \in [1 .. n -> Items]
    BY <2>1
  <2>4. PICK d : d = [i \in 1 .. n |-> item]
    OBVIOUS
  <2>5. d \in Seq(Items) /\ Len(d) = n /\ \A i \in 1 .. n : d[i] = item
    <3>1. d \in [1 .. n -> Items] /\ n \in Nat
      BY <2>3, <2>4
    <3>2. \A i \in 1 .. n : d[i] = item
      BY <2>4
    <3>3. d \in Seq(Items) /\ Len(d) = n
      BY <3>1
    <3>4. QED
      BY <3>2, <3>3
  <2>6. QED
    BY <2>1, <2>2, <2>4, <2>5
<1>6. PICK e \in Seq(Items) : e = Step("find", "review") /\ Len(e) = 1 /\ e[1].how = "find"
  BY StepType DEF Hows, Keys
<1>7. PICK x \in Seq(Items) : /\ x = a \o b /\ Len(x) = 2
                              /\ x[1].how = "unique" /\ x[2].how = "find"
  <2>1. PICK x : x = a \o b
    OBVIOUS
  <2>2. Longer(x, a, b, 1)
    <3>1. a \in Seq(Items) /\ b \in Seq(Items) /\ Len(a) = 1 /\ Len(b) = 1
      BY <1>1, <1>2
    <3>2. QED
      BY <2>1, <3>1, AddOne
  <2>3. x \in Seq(Items) /\ Len(x) = 2 /\ x[1] = a[1] /\ x[2] = b[1]
    BY <2>2 DEF Longer
  <2>4. a[1].how = "unique" /\ b[1].how = "find"
    BY <1>1, <1>2
  <2>5. QED
    BY <2>1, <2>3, <2>4
<1>8. PICK y \in Seq(Items) : /\ y = x \o c /\ Len(y) = 3
                              /\ y[1].how = "unique" /\ y[2].how = "find" /\ y[3].how = "clear"
  <2>1. PICK y : y = x \o c
    OBVIOUS
  <2>2. Longer(y, x, c, 2)
    <3>1. x \in Seq(Items) /\ c \in Seq(Items) /\ Len(x) = 2 /\ Len(c) = 1
      BY <1>3, <1>7
    <3>2. QED
      BY <2>1, <3>1, AddOne
  <2>3. y \in Seq(Items) /\ Len(y) = 3 /\ y[1] = x[1] /\ y[2] = x[2] /\ y[3] = c[1]
    BY <2>2 DEF Longer
  <2>4. x[1].how = "unique" /\ x[2].how = "find" /\ c[1].how = "clear"
    BY <1>3, <1>7
  <2>5. QED
    BY <2>1, <2>3, <2>4
<1>9. PICK z : z = y \o d
  OBVIOUS
<1>10. /\ z \in Seq(Items) /\ Len(z) = n + 3
       /\ z[1].how = "unique" /\ z[2].how = "find" /\ z[3].how = "clear"
       /\ \A i \in 4 .. n + 3 : z[i].how = "add"
  <2>1. /\ z \in Seq(Items) /\ Len(z) = Len(y) + Len(d)
        /\ \A i \in 1 .. Len(y) : z[i] = y[i]
        /\ \A i \in 1 .. Len(d) : z[Len(y) + i] = d[i]
    BY <1>9, JoinAt
  <2>2. z[1] = y[1] /\ z[2] = y[2] /\ z[3] = y[3]
    <3>1. 1 \in 1 .. Len(y) /\ 2 \in 1 .. Len(y) /\ 3 \in 1 .. Len(y)
      BY <1>8
    <3>2. QED
      BY <2>1, <3>1
  <2>3. ASSUME NEW i \in 4 .. n + 3
        PROVE  z[i].how = "add"
    <3>1. PICK k : k = i - 3
      OBVIOUS
    <3>2. k \in 1 .. n /\ 3 + k = i
      BY <1>4, <3>1
    <3>3. z[3 + k] = d[k]
      BY <1>5, <1>8, <2>1, <3>2
    <3>4. QED
      BY <1>5, <3>2, <3>3
  <2>4. Len(z) = n + 3
    BY <1>5, <1>8, <2>1
  <2>5. QED
    BY <1>8, <2>1, <2>2, <2>3, <2>4
<1>11. PICK p : p = z \o e
  OBVIOUS
<1>12. NounusPlan = p
  BY <1>1, <1>2, <1>3, <1>5, <1>6, <1>7, <1>8, <1>9, <1>11
  DEF NounusPlan, seedNounus, seedNounuReviews
<1>13. /\ p \in Seq(Items) /\ Len(p) = (n + 3) + 1 /\ p[(n + 3) + 1] = e[1]
       /\ \A i \in 1 .. n + 3 : p[i] = z[i]
  <2>1. z \in Seq(Items) /\ e \in Seq(Items) /\ Len(z) = n + 3 /\ Len(e) = 1 /\ n + 3 \in Nat
    BY <1>4, <1>6, <1>10
  <2>2. Longer(p, z, e, n + 3)
    BY <1>11, <2>1, AddOne
  <2>3. QED
    BY <2>2 DEF Longer
<1>14. ASSUME NEW i \in 1 .. n + 4
       PROVE  /\ p[i].how = "clear" <=> i = 3
              /\ p[i].how = "add" <=> i \in 4 .. n + 3
              /\ p[i].how \in {"unique", "find", "clear", "add"}
  <2>1. CASE i = n + 4
    <3>1. p[i] = e[1] /\ i # 3 /\ i \notin 4 .. n + 3
      BY <1>4, <1>13, <2>1
    <3>2. QED
      BY <1>6, <3>1
  <2>2. CASE i # n + 4
    <3>1. i \in 1 .. n + 3 /\ (i = 1 \/ i = 2 \/ i = 3 \/ i \in 4 .. n + 3)
      BY <1>4, <2>2
    <3>2. p[i] = z[i]
      BY <1>13, <3>1
    <3>3. z[i].how = "clear" <=> i = 3
      BY <1>10, <3>1
    <3>4. z[i].how = "add" <=> i \in 4 .. n + 3
      BY <1>10, <3>1
    <3>5. z[i].how \in {"unique", "find", "clear", "add"}
      BY <1>10, <3>1
    <3>6. QED
      BY <3>2, <3>3, <3>4, <3>5
  <2>3. QED
    BY <2>1, <2>2
<1>15. Len(p) = n + 4
  BY <1>4, <1>13
<1>16. QED
  BY <1>4, <1>12, <1>13, <1>14, <1>15

Writer(w) == w.plan = "nounus" /\ w.pc \in 4 .. Prefs + 3

\* Nobody writes them and they are whole, or one script has written those
\* before its place.
PrefsSound ==
    ~torn => \/ prefs = Prefs /\ \A s \in Scripts : ~Writer(script[s])
             \/ \E s \in Scripts : /\ Writer(script[s]) /\ prefs = script[s].pc - 4
                                   /\ \A r \in Scripts \ {s} : ~Writer(script[r])

\* Who writes is at an insertion, and comes there by the deletion.
LEMMA PlaceOfWriter ==
    ASSUME IInv, NEW s \in Scripts, NEW w, w = script[s], Running(s)
    PROVE  /\ w \in Script
           /\ Item(s).how = "add" <=> Writer(w)
           /\ Item(s).how = "clear" <=> w.plan = "nounus" /\ w.pc = 3
           /\ w.plan = "nounus" =>
                /\ w.pc \in 1 .. Prefs + 4 /\ Len(Plan(w.plan)) = Prefs + 4
                /\ Item(s).how \in {"unique", "find", "clear", "add"}
<1>1. /\ w \in Script /\ w.plan \in Plans /\ w.pc \in DOMAIN Plan(w.plan)
      /\ Item(s) = Plan(w.plan)[w.pc]
  BY ScriptTyped DEF ScriptSound, Item
<1>2. CASE w.plan = "nounus"
  <2>1. Plan(w.plan) = NounusPlan
    BY <1>2 DEF Plan
  <2>2. w.pc \in 1 .. Prefs + 4 /\ 3 \in 1 .. Prefs + 4
    BY <1>1, <2>1, NounusOrder, SeedsAssumption
  <2>3. QED
    BY <1>1, <1>2, <2>1, <2>2, NounusOrder DEF Writer
<1>3. CASE w.plan # "nounus"
  <2>1. Spares(Plan(w.plan))
    BY <1>1, <1>3, ConfigSpares, DemoSpares, RoomsSpare DEF Plan, Plans
  <2>2. Item(s).how \notin {"clear", "add"}
    BY <1>1, <2>1 DEF Spares
  <2>3. QED
    BY <1>1, <1>3, <2>2 DEF Writer
<1>4. QED
  BY <1>2, <1>3

LEMMA WritesIff ==
    ASSUME IInv, NEW s \in Scripts
    PROVE  WritesPrefs(s) <=> Writer(script[s])
<1>1. CASE Running(s)
  BY <1>1, PlaceOfWriter DEF WritesPrefs, Doing
<1>2. CASE ~Running(s)
  BY <1>2 DEF WritesPrefs, Doing, Writer, Running
<1>3. QED
  BY <1>1, <1>2

\* Nobody begins or stops writing.
LEMMA PrefsKept ==
    ASSUME PrefsSound, UNCHANGED <<prefs, torn>>,
           \A s \in Scripts :
             \/ script'[s].plan = script[s].plan /\ script'[s].pc = script[s].pc
             \/ ~Writer(script[s]) /\ ~Writer(script'[s])
    PROVE  PrefsSound'
<1>1. \A s \in Scripts : Writer(script[s]) <=> Writer(script'[s])
  BY DEF Writer
<1>2. \A s \in Scripts : Writer(script[s]) => script'[s].pc = script[s].pc
  OBVIOUS
<1>3. QED
  BY <1>1, <1>2 DEF PrefsSound, Writer

\* A step of a script that is not at the deletion or an insertion.
LEMMA PrefsElsewhere ==
    ASSUME IInv, PrefsSound, UNCHANGED <<prefs, torn>>, NEW s \in Scripts, NEW w, w = script[s],
           ~Writer(w), NEW v, script' = [script EXCEPT ![s] = v], ~Writer(v)
    PROVE  PrefsSound'
<1>1. script'[s] = v /\ \A r \in Scripts \ {s} : script'[r] = script[r]
  BY DEF IInv, TypeOK
<1>2. QED
  BY <1>1, PrefsKept

LEMMA OnwardElsewhere ==
    ASSUME IInv, PrefsSound, UNCHANGED <<prefs, torn>>, NEW s \in Scripts, Running(s), Onward(s),
           Item(s).how \notin {"clear", "add"}
    PROVE  PrefsSound'
<1> PICK w : w = script[s]
  OBVIOUS
<1>1. /\ w \in Script /\ ~Writer(w) /\ ~(w.plan = "nounus" /\ w.pc = 3)
      /\ w.plan = "nounus" => w.pc \in 1 .. Prefs + 4 /\ Len(Plan(w.plan)) = Prefs + 4
  BY PlaceOfWriter
<1>2. CASE w.pc < Len(Plan(w.plan))
  <2> PICK v : v = [w EXCEPT !.pc = w.pc + 1, !.make = FALSE]
    OBVIOUS
  <2>1. v.plan = w.plan /\ v.pc = w.pc + 1
    BY <1>1 DEF Script
  <2>2. script' = [script EXCEPT ![s] = v]
    BY <1>2 DEF Onward
  <2>3. ~Writer(v)
    <3>1. SUFFICES ASSUME w.plan = "nounus" PROVE v.pc \notin 4 .. Prefs + 3
      BY <2>1 DEF Writer
    <3>2. w.pc \in 1 .. Prefs + 4 /\ w.pc < Prefs + 4 /\ w.pc # 3 /\ w.pc \notin 4 .. Prefs + 3
      BY <1>1, <1>2, <3>1 DEF Writer
    <3>3. QED
      BY <2>1, <3>2, SeedsAssumption
  <2>4. QED
    BY <1>1, <2>2, <2>3, PrefsElsewhere
<1>3. CASE ~(w.pc < Len(Plan(w.plan)))
  <2> PICK v : v = [NoScript EXCEPT !.plan = "done"]
    OBVIOUS
  <2>1. script' = [script EXCEPT ![s] = v] /\ ~Writer(v)
    BY <1>3 DEF Onward, Writer, NoScript
  <2>2. QED
    BY <1>1, <2>1, PrefsElsewhere
<1>4. QED
  BY <1>2, <1>3

\* The deletion: nobody else is writing, or what follows is torn.
LEMMA ClearSound ==
    ASSUME IInv, NEW s \in Scripts, Clear(s)
    PROVE  PrefsSound'
<1> PICK w : w = script[s]
  OBVIOUS
<1>1. /\ w \in Script /\ w.plan = "nounus" /\ w.pc = 3 /\ Len(Plan(w.plan)) = Prefs + 4
  BY PlaceOfWriter DEF Clear, Doing
<1> PICK v : v = [w EXCEPT !.pc = 4, !.make = FALSE]
  OBVIOUS
<1>2. v.plan = "nounus" /\ v.pc = 4
  BY <1>1 DEF Script
<1>3. script' = [script EXCEPT ![s] = v]
  <2>1. w.pc < Len(Plan(w.plan)) /\ w.pc + 1 = 4
    BY <1>1, SeedsAssumption
  <2>2. QED
    BY <2>1 DEF Clear, Onward
<1>4. script'[s] = v /\ \A r \in Scripts \ {s} : script'[r] = script[r]
  BY <1>3 DEF IInv, TypeOK
<1>5. Writer(v)
  BY <1>2, SeedsAssumption DEF Writer
<1>6. prefs' = script'[s].pc - 4
  BY <1>2, <1>4 DEF Clear
<1>7. ~torn' => \A r \in Scripts \ {s} : ~Writer(script'[r])
  BY <1>4, WritesIff DEF Clear
<1>8. QED
  BY <1>4, <1>5, <1>6, <1>7 DEF PrefsSound, Writer

\* An insertion: it is the only writer, unless they are torn.
LEMMA AddSound ==
    ASSUME IInv, PrefsSound, NEW s \in Scripts, Add(s)
    PROVE  PrefsSound'
<1> SUFFICES ASSUME ~torn' PROVE PrefsSound'
  BY DEF PrefsSound
<1> PICK w : w = script[s]
  OBVIOUS
<1>1. /\ w \in Script /\ Writer(w) /\ w.plan = "nounus" /\ Len(Plan(w.plan)) = Prefs + 4
      /\ w.pc \in 4 .. Prefs + 3
  BY PlaceOfWriter DEF Add, Doing, Writer
<1>2. ~torn /\ prefs' = prefs + 1 /\ Onward(s)
  BY DEF Add
<1>3. prefs = w.pc - 4 /\ \A r \in Scripts \ {s} : ~Writer(script[r])
  BY <1>1, <1>2 DEF PrefsSound
<1> PICK n : n = w.pc + 1
  OBVIOUS
<1> PICK v : v = [w EXCEPT !.pc = n, !.make = FALSE]
  OBVIOUS
<1>4. v.plan = "nounus" /\ v.pc = n
  BY <1>1 DEF Script
<1>5. script' = [script EXCEPT ![s] = v]
  <2>1. w.pc < Len(Plan(w.plan))
    BY <1>1, SeedsAssumption
  <2>2. QED
    BY <1>2, <2>1 DEF Onward
<1>6. script'[s] = v /\ \A r \in Scripts \ {s} : script'[r] = script[r]
  BY <1>5 DEF IInv, TypeOK
<1>7. prefs' = n - 4 /\ (n \in 4 .. Prefs + 3 \/ n = Prefs + 4)
  <2>1. Prefs \in Nat \ {0} /\ w.pc \in 4 .. Prefs + 3 /\ prefs' = (w.pc - 4) + 1
    BY <1>1, <1>2, <1>3, SeedsAssumption
  <2>2. QED
    BY <2>1
<1>8. CASE n \in 4 .. Prefs + 3
  <2>1. Writer(v) /\ prefs' = v.pc - 4
    BY <1>4, <1>7, <1>8 DEF Writer
  <2>2. \A r \in Scripts \ {s} : ~Writer(script'[r])
    BY <1>3, <1>6
  <2>3. Writer(script'[s]) /\ prefs' = script'[s].pc - 4
    BY <1>6, <2>1
  <2>4. QED
    BY <2>2, <2>3 DEF PrefsSound, Writer
<1>9. CASE n = Prefs + 4
  <2>1. prefs' = Prefs /\ ~Writer(v)
    BY <1>4, <1>7, <1>9, SeedsAssumption DEF Writer
  <2>2. \A r \in Scripts : ~Writer(script'[r])
    BY <1>3, <1>6, <2>1
  <2>3. QED
    BY <2>1, <2>2 DEF PrefsSound, Writer
<1>10. QED
  BY <1>7, <1>8, <1>9

\* A writer that stops leaves them torn.
LEMMA StopSound ==
    ASSUME IInv, PrefsSound, NEW s \in Scripts, Stop(s)
    PROVE  PrefsSound'
<1>1. Quit(s) /\ prefs' = prefs /\ torn' = (torn \/ WritesPrefs(s)) /\ ~Writer(NoScript)
  BY DEF Stop, Writer, NoScript
<1>2. CASE WritesPrefs(s)
  BY <1>1, <1>2 DEF PrefsSound
<1>3. CASE ~WritesPrefs(s)
  <2>1. ~Writer(script[s]) /\ torn' = torn
    BY <1>1, <1>3, WritesIff DEF IInv, TypeOK
  <2>2. QED
    BY <1>1, <2>1, PrefsElsewhere DEF Quit
<1>4. QED
  BY <1>2, <1>3

\* The other steps of a script.
LEMMA OtherSound ==
    ASSUME IInv, PrefsSound, NEW s \in Scripts,
           \/ Look(s) \/ Create(s) \/ Skip(s) \/ Draw(s) \/ Insert(s) \/ ReadRole(s)
           \/ LookGrant(s) \/ CreateGrant(s)
    PROVE  PrefsSound'
<1> PICK w : w = script[s]
  OBVIOUS
<1>1. UNCHANGED <<prefs, torn>>
  BY DEF Look, Create, Skip, Draw, Insert, ReadRole, LookGrant, CreateGrant
<1>2. Running(s) /\ Item(s).how \notin {"clear", "add"}
  BY ScriptTyped DEF Look, Create, Skip, Draw, Insert, ReadRole, LookGrant, CreateGrant, Doing,
     ScriptSound, Finding
<1>3. /\ w \in Script /\ ~Writer(w) /\ ~(w.plan = "nounus" /\ w.pc = 3)
  BY <1>2, PlaceOfWriter
<1>4. ASSUME NEW v, script' = [script EXCEPT ![s] = v], ~Writer(v)
      PROVE  PrefsSound'
  BY <1>1, <1>3, <1>4, PrefsElsewhere
<1>5. ASSUME Onward(s) \/ Quit(s)
      PROVE  PrefsSound'
  BY <1>1, <1>2, <1>4, <1>5, OnwardElsewhere DEF Quit, NoScript, Writer
<1>6. CASE Look(s)
  <2> PICK v : v = [w EXCEPT !.make = TRUE]
    OBVIOUS
  <2>1. v.plan = w.plan /\ v.pc = w.pc
    BY <1>3 DEF Script
  <2>2. ~Writer(v)
    BY <1>3, <2>1 DEF Writer
  <2>3. Onward(s) \/ script' = [script EXCEPT ![s] = v]
    BY <1>6 DEF Look
  <2>4. QED
    BY <1>4, <1>5, <2>2, <2>3
<1>7. CASE LookGrant(s)
  <2> PICK v : v = [w EXCEPT !.make = TRUE]
    OBVIOUS
  <2>1. v.plan = w.plan /\ v.pc = w.pc
    BY <1>3 DEF Script
  <2>2. ~Writer(v)
    BY <1>3, <2>1 DEF Writer
  <2>3. Onward(s) \/ script' = [script EXCEPT ![s] = v]
    BY <1>7 DEF LookGrant
  <2>4. QED
    BY <1>4, <1>5, <2>2, <2>3
<1>8. CASE Skip(s) \/ ReadRole(s)
  <2>1. w.plan # "nounus"
    BY <1>2, <1>8, PlaceOfWriter DEF Skip, ReadRole, Doing
  <2>2. ASSUME NEW n, NEW r
        PROVE  ~Writer([w EXCEPT !.pc = n]) /\ ~Writer([w EXCEPT !.pc = n, !.role = r])
    BY <1>3, <2>1 DEF Writer, Script
  <2>3. CASE Skip(s)
    <3>1. ~Writer([NoScript EXCEPT !.plan = "done"])
      BY DEF Writer, NoScript
    <3>2. \/ Onward(s) \/ script' = [script EXCEPT ![s] = [NoScript EXCEPT !.plan = "done"]]
          \/ \E n : script' = [script EXCEPT ![s] = [w EXCEPT !.pc = n]]
      BY <2>3 DEF Skip
    <3>3. QED
      BY <1>4, <1>5, <2>2, <3>1, <3>2
  <2>4. CASE ReadRole(s)
    <3>1. PICK r : script' = [script EXCEPT ![s].pc = @ + 1, ![s].role = r]
      BY <2>4 DEF ReadRole
    <3> PICK v : v = [w EXCEPT !.pc = w.pc + 1, !.role = r]
      OBVIOUS
    <3>2. script' = [script EXCEPT ![s] = v]
      BY <3>1
    <3>3. QED
      BY <1>4, <2>2, <3>2
  <2>5. QED
    BY <1>8, <2>3, <2>4
<1>9. CASE Create(s) \/ Draw(s) \/ Insert(s) \/ CreateGrant(s)
  BY <1>5, <1>9 DEF Create, Draw, Insert, CreateGrant
<1>10. QED
  BY <1>6, <1>7, <1>8, <1>9

\* A script begins before the deletion.
LEMMA StartSound ==
    ASSUME IInv, PrefsSound, NEW s \in Scripts, NEW plan, StartScript(s, plan)
    PROVE  PrefsSound'
<1> PICK v : v = [NoScript EXCEPT !.plan = plan, !.pc = 1, !.clean = TRUE, !.again = seeded]
  OBVIOUS
<1>1. v.pc = 1
  BY DEF NoScript
<1>2. ~Writer(v)
  BY <1>1, SeedsAssumption DEF Writer
<1>3. ~Writer(script[s])
  BY DEF StartScript, Running, Writer
<1>4. QED
  BY <1>2, <1>3, PrefsElsewhere DEF StartScript

LEMMA StepPrefs ==
    ASSUME IInv, PrefsSound, [Next]_vars
    PROVE  PrefsSound'
<1>1. CASE UNCHANGED vars \/ DecideSilently
  <2>1. UNCHANGED <<prefs, torn, script>>
    BY <1>1 DEF vars, seedVars, DecideSilently
  <2>2. QED
    BY <2>1, PrefsKept
<1>2. ASSUME NEW h \in Handlers, Request(h) \/ Advance(h) \/ Fail(h)
      PROVE  PrefsSound'
  <2>1. UNCHANGED <<prefs, torn>>
    BY <1>2 DEF Request, Advance, Fail, UpdateSettings, CreateParameter, DeleteParameter,
       AssignPermissionToRole, RemovePermissionFromRole, CreateSubAdmin, Decide, CreateSettings,
       assignPermissionsBulk, TellDecision, seedVars
  <2>2. ASSUME NEW s \in Scripts
        PROVE  script'[s].plan = script[s].plan /\ script'[s].pc = script[s].pc
    BY <1>2, RequestKeepsPlaces
  <2>3. QED
    BY <2>1, <2>2, PrefsKept
<1>3. QED
  BY <1>1, <1>2, ClearSound, AddSound, StopSound, OtherSound, StartSound
  DEF Next, SeedNext, Proceed

(***************************************************************************)
(* A seeded nounu has each of its preferences once, however often and      *)
(* beside whatever else it was seeded, unless two scripts crossed or one   *)
(* stopped between the deletion and the last insertion.                    *)
(***************************************************************************)
THEOREM PreferencesAreWhole == Spec => []PrefsAreWhole
<1>1. Init => IInv /\ PrefsSound
  <2>1. Init => PrefsSound
    BY DEF Init, SeedInit, PrefsSound
  <2>2. QED
    BY <2>1, InitInv
<1>2. IInv /\ PrefsSound /\ [Next]_vars => IInv' /\ PrefsSound'
  BY StepInv, StepPrefs
<1>3. IInv /\ PrefsSound => PrefsAreWhole
  BY WritesIff DEF PrefsSound, PrefsAreWhole
<1>4. QED
  BY <1>1, <1>2, <1>3, PTL DEF Spec

=============================================================================
