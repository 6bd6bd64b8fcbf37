--------------------------- MODULE ProfilesProofs ---------------------------
(***************************************************************************)
(* Proofs about Profiles, for all users, items, forms, handlers and        *)
(* bounds.  What the tables hold depends on what requests looked up        *)
(* earlier: the invariant relates the row counts and items that a request  *)
(* carries to the rows that others stored since.                           *)
(***************************************************************************)
EXTENDS Profiles, TLAPS

Ind(s) == [x \in Items |-> IF x \in s THEN 1 ELSE 0]

LivePhoto(u, i) == medias[i].owner = u /\ medias[i].photo /\ ~medias[i].deleted

Writes(j) == j.at \in {"clear", "rows"}

\* What a request may carry from one statement to the next.
Sound(j) ==
    /\ j.at # "idle" => j.user \in Users
    /\ j.at = "create" =>
         /\ j.base <= Len(profiles)
         /\ \A i \in DOMAIN profiles :
              profiles[i].owner = j.user /\ profiles[i].kind = j.kind => j.base < i
    /\ Writes(j) => j.profile \in DOMAIN profiles /\ profiles[j.profile].kind = j.kind
    /\ j.at = "photo" /\ ~Beside(j.op, j.kind) =>
         /\ j.base <= Len(medias)
         /\ \A i \in DOMAIN medias : LivePhoto(j.user, i) => j.base < i

\* Preferences p of a profile meant to have those of s, which j is writing.
Underway(j, p, s) ==
    /\ j.items \subseteq s
    /\ j.at = "clear" => j.items = s
    /\ j.at = "rows" => p = Ind(s \ j.items)

\* One request at most writes the preferences, and they add up.
Written(i) ==
    /\ \A g, h \in Writing(i) : g = h
    /\ Writing(i) = {} => prefs[i] = Ind(saved[i])
    /\ \A h \in Writing(i) : Underway(job[h], prefs[i], saved[i])

PrefsSound == \A i \in DOMAIN profiles \ mixed : Written(i)

\* Of two live photos the later was stored beside the others, or did not know
\* of the earlier.
PhotosSound ==
    \A i, k \in DOMAIN medias :
        i < k /\ LivePhoto(medias[k].owner, i) /\ LivePhoto(medias[k].owner, k)
        => Beside(medias[k].op, medias[k].kind) \/ medias[k].base < i

\* A user once photographed has a live photo.
KeptSound ==
    \A u \in Users \ bare :
        (\E i \in DOMAIN medias : medias[i].owner = u /\ medias[i].photo)
          /\ (\A h \in Handlers : job[h].user = u => job[h].at # "photo")
        => \E i \in DOMAIN medias : LivePhoto(u, i)

JobsSound == \A h \in Handlers : Sound(job[h])

IInv ==
    /\ TypeOK
    /\ JobsSound
    /\ TwoProfilesOnlyByRace
    /\ PrefsSound
    /\ PhotosSound
    /\ KeptSound

-----------------------------------------------------------------------------
(* How the tables may change under a request: rows stay, and stay deleted. *)

ProfilesGrow ==
    /\ profiles' \in Seq(Profile)
    /\ Len(profiles) <= Len(profiles')
    /\ \A i \in DOMAIN profiles : /\ profiles'[i].owner = profiles[i].owner
                                  /\ profiles'[i].kind = profiles[i].kind

MediasGrow ==
    /\ medias' \in Seq(Media)
    /\ Len(medias) <= Len(medias')
    /\ \A i \in DOMAIN medias : /\ medias'[i].owner = medias[i].owner
                                /\ medias'[i].photo = medias[i].photo
                                /\ medias'[i].op = medias[i].op
                                /\ medias'[i].kind = medias[i].kind
                                /\ medias'[i].base = medias[i].base
                                /\ medias[i].deleted => medias'[i].deleted

LEMMA ProfilesStay ==
    ASSUME TypeOK, UNCHANGED profiles
    PROVE  ProfilesGrow
BY DEF TypeOK, ProfilesGrow

LEMMA MediasStay ==
    ASSUME TypeOK, UNCHANGED medias
    PROVE  MediasGrow
BY DEF TypeOK, MediasGrow

LEMMA NoJobType == NoJob \in Job /\ NoJob.at = "idle" /\ NoJob.base = 0 /\ NoJob.items = {}
BY DEF NoJob, Job, Steps, Ops, Kinds

\* What a request carries stays right when others store rows.
LEMMA SoundStays ==
    ASSUME TypeOK, ProfilesGrow, MediasGrow, NEW j \in Job, Sound(j)
    PROVE  Sound(j)'
<1>1. j.base \in Nat /\ profiles \in Seq(Profile) /\ medias \in Seq(Media)
  BY DEF TypeOK, Job
<1>2. CASE j.at = "create"
  <2>1. ASSUME NEW i \in DOMAIN profiles',
               profiles'[i].owner = j.user, profiles'[i].kind = j.kind
        PROVE  j.base < i
    <3>1. CASE i \in DOMAIN profiles
      BY <1>2, <2>1, <3>1 DEF Sound, ProfilesGrow
    <3>2. CASE i \notin DOMAIN profiles
      BY <1>1, <1>2, <3>2 DEF Sound, ProfilesGrow
    <3>3. QED
      BY <3>1, <3>2
  <2>2. j.base <= Len(profiles')
    BY <1>1, <1>2 DEF Sound, ProfilesGrow
  <2>3. QED
    BY <1>2, <2>1, <2>2 DEF Sound, Writes
<1>3. CASE Writes(j)
  BY <1>1, <1>3 DEF Sound, ProfilesGrow, Writes
<1>4. CASE j.at = "photo" /\ ~Beside(j.op, j.kind)
  <2>1. ASSUME NEW i \in DOMAIN medias', LivePhoto(j.user, i)'
        PROVE  j.base < i
    <3>1. CASE i \in DOMAIN medias
      BY <1>4, <2>1, <3>1 DEF Sound, MediasGrow, LivePhoto
    <3>2. CASE i \notin DOMAIN medias
      BY <1>1, <1>4, <3>2 DEF Sound, MediasGrow
    <3>3. QED
      BY <3>1, <3>2
  <2>2. j.base <= Len(medias')
    BY <1>1, <1>4 DEF Sound, MediasGrow
  <2>3. QED
    BY <1>4, <2>1, <2>2 DEF Sound, Writes
<1>5. CASE j.at = "photo" /\ Beside(j.op, j.kind)
  BY <1>5 DEF Sound, Writes
<1>6. QED
  BY <1>2, <1>3, <1>4, <1>5 DEF Sound, Writes

\* One request moves to j, which is right in the new state.
LEMMA JobMoves ==
    ASSUME TypeOK, JobsSound, ProfilesGrow, MediasGrow,
           NEW h \in Handlers, NEW j \in Job, Sound(j)', job' = [job EXCEPT ![h] = j]
    PROVE  job' \in [Handlers -> Job] /\ JobsSound'
<1>1. job' \in [Handlers -> Job]
  BY DEF TypeOK
<1>2. ASSUME NEW g \in Handlers
      PROVE  Sound(job[g])'
  <2>1. CASE g = h
    <3>1. job'[g] = j
      BY <2>1 DEF TypeOK
    <3>2. QED
      BY <3>1 DEF Sound
  <2>2. CASE g # h
    <3>1. PICK k \in Job : k = job[g]
      BY DEF TypeOK
    <3>2. Sound(k) /\ job'[g] = k
      BY <2>2, <3>1 DEF TypeOK, JobsSound
    <3>3. Sound(k)'
      BY <3>2, SoundStays
    <3>4. QED
      BY <3>2, <3>3 DEF Sound
  <2>3. QED
    BY <2>1, <2>2
<1>3. QED
  BY <1>1, <1>2 DEF JobsSound

LEMMA JobsStay ==
    ASSUME TypeOK, JobsSound, ProfilesGrow, MediasGrow, UNCHANGED job
    PROVE  job' \in [Handlers -> Job] /\ JobsSound'
<1>1. ASSUME NEW g \in Handlers
      PROVE  Sound(job[g])'
  <2>1. PICK k \in Job : k = job[g]
    BY DEF TypeOK
  <2>2. Sound(k)'
    BY <2>1, SoundStays DEF JobsSound
  <2>3. QED
    BY <2>1, <2>2 DEF Sound
<1>2. QED
  BY <1>1 DEF TypeOK, JobsSound

\* The last clause about jobs of the type invariant.
LEMMA WritersKind ==
    ASSUME JobsSound
    PROVE  \A i \in DOMAIN profiles : \A h \in Writing(i) : job[h].kind = profiles[i].kind
BY DEF JobsSound, Sound, Writes, Writing

-----------------------------------------------------------------------------
(* Parts of the invariant that a step leaves alone.                        *)

LEMMA PrefsStay ==
    ASSUME TypeOK, PrefsSound, UNCHANGED <<prefs, saved, mixed>>,
           DOMAIN profiles' = DOMAIN profiles,
           NEW h \in Handlers, NEW j \in Job, job' = [job EXCEPT ![h] = j],
           ~Writes(job[h]), ~Writes(j)
    PROVE  PrefsSound'
<1>1. ASSUME NEW i \in DOMAIN profiles \ mixed
      PROVE  Written(i)'
  <2>1. Written(i)
    BY DEF PrefsSound
  <2>2. Writing(i)' = Writing(i)
    BY DEF Writing, Writes, TypeOK
  <2>3. \A g \in Writing(i) : job'[g] = job[g]
    BY DEF Writing, Writes, TypeOK
  <2>4. QED
    BY <2>1, <2>2, <2>3 DEF Written
<1>2. QED
  BY <1>1 DEF PrefsSound

LEMMA PrefsStayWithJobs ==
    ASSUME PrefsSound, UNCHANGED <<prefs, saved, mixed, job>>, DOMAIN profiles' = DOMAIN profiles
    PROVE  PrefsSound'
BY DEF PrefsSound, Written, Writing

(***************************************************************************)
(* The request h writes the preferences of profile i, which may be new,    *)
(* alone if the profile is not mixed, and leaves them right.               *)
(***************************************************************************)
LEMMA OneWriter ==
    ASSUME TypeOK, PrefsSound, NEW i, DOMAIN profiles' = DOMAIN profiles \cup {i},
           NEW h \in Handlers, NEW j \in Job, job' = [job EXCEPT ![h] = j],
           Writes(job[h]) => job[h].profile = i, Writes(j) => j.profile = i,
           \A k \in DOMAIN profiles \ {i} : prefs'[k] = prefs[k] /\ saved'[k] = saved[k],
           mixed \subseteq mixed',
           i \notin mixed' => Writing(i) \subseteq {h},
           i \notin mixed' => /\ Writes(j) => Underway(j, prefs'[i], saved'[i])
                              /\ ~Writes(j) => prefs'[i] = Ind(saved'[i])
    PROVE  PrefsSound'
<1>1. ASSUME NEW k \in DOMAIN profiles \ mixed, k # i
      PROVE  Written(k)'
  <2>1. Written(k)
    BY DEF PrefsSound
  <2>2. Writing(k)' = Writing(k)
    BY <1>1 DEF Writing, Writes, TypeOK
  <2>3. \A g \in Writing(k) : job'[g] = job[g]
    BY <1>1 DEF Writing, Writes, TypeOK
  <2>4. prefs'[k] = prefs[k] /\ saved'[k] = saved[k]
    BY <1>1
  <2>5. QED
    BY <2>1, <2>2, <2>3, <2>4 DEF Written
<1>2. ASSUME i \notin mixed'
      PROVE  Written(i)'
  <2>1. job'[h] = j /\ \A g \in Handlers \ {h} : job'[g] = job[g]
    BY DEF TypeOK
  <2>2. Writing(i)' \subseteq {h}
    BY <1>2, <2>1 DEF Writing
  <2>3. CASE Writes(j)
    <3>1. Writing(i)' = {h}
      BY <2>1, <2>2, <2>3 DEF Writing, Writes
    <3>2. Underway(job'[h], prefs'[i], saved'[i])
      BY <1>2, <2>1, <2>3
    <3>3. QED
      BY <3>1, <3>2 DEF Written
  <2>4. CASE ~Writes(j)
    <3>1. Writing(i)' = {}
      BY <2>1, <2>2, <2>4 DEF Writing, Writes
    <3>2. QED
      BY <1>2, <2>4, <3>1 DEF Written
  <2>5. QED
    BY <2>3, <2>4
<1>3. QED
  BY <1>1, <1>2 DEF PrefsSound

LEMMA ShelfStays ==
    ASSUME TypeOK, PhotosSound, KeptSound, UNCHANGED <<medias, bare>>,
           NEW h \in Handlers, NEW j \in Job, job' = [job EXCEPT ![h] = j], job[h].at # "photo"
    PROVE  PhotosSound' /\ KeptSound'
<1>1. PhotosSound'
  BY DEF PhotosSound, LivePhoto
<1>2. ASSUME NEW u \in Users \ bare,
             \E i \in DOMAIN medias : medias[i].owner = u /\ medias[i].photo,
             \A g \in Handlers : job'[g].user = u => job'[g].at # "photo"
      PROVE  \E i \in DOMAIN medias : LivePhoto(u, i)
  <2>1. \A g \in Handlers : job[g].user = u => job[g].at # "photo"
    BY <1>2 DEF TypeOK
  <2>2. QED
    BY <1>2, <2>1 DEF KeptSound
<1>3. QED
  BY <1>1, <1>2 DEF KeptSound, LivePhoto

LEMMA ShelfStaysWithJobs ==
    ASSUME PhotosSound, KeptSound, UNCHANGED <<medias, bare, job>>
    PROVE  PhotosSound' /\ KeptSound'
BY DEF PhotosSound, KeptSound, LivePhoto

LEMMA TwoProfilesStay ==
    ASSUME TwoProfilesOnlyByRace, UNCHANGED profiles
    PROVE  TwoProfilesOnlyByRace'
BY DEF TwoProfilesOnlyByRace

-----------------------------------------------------------------------------
(* Requests that begin, and steps between the tables.                      *)

\* A step of one request that stores nothing and writes no preferences.
LEMMA QuietStep ==
    ASSUME IInv, NEW h \in Handlers, NEW j \in Job, Sound(j), job' = [job EXCEPT ![h] = j],
           job[h].at # "photo", ~Writes(job[h]), ~Writes(j),
           UNCHANGED <<Rows, medias, known, bare>>, moves' \in Nat, faults' \in Nat
    PROVE  IInv'
<1>1. ProfilesGrow /\ MediasGrow
  BY ProfilesStay, MediasStay DEF IInv, Rows
<1>2. job' \in [Handlers -> Job] /\ JobsSound'
  BY <1>1, JobMoves, SoundStays DEF IInv
<1>3. PrefsSound' /\ PhotosSound' /\ KeptSound'
  BY PrefsStay, ShelfStays DEF IInv, Rows
<1>4. TypeOK'
  BY <1>2, WritersKind DEF IInv, TypeOK, Rows, JobsSound, Sound, Writes, Writing
<1>5. QED
  BY <1>2, <1>3, <1>4, TwoProfilesStay DEF IInv, Rows

LEMMA AfterRowsSound ==
    ASSUME NEW j \in Job, j.user \in Users, TypeOK
    PROVE  /\ AfterRows(j) \in Job
           /\ AfterRows(j).at \in {"idle", "retire", "photo"}
           /\ Sound(AfterRows(j))
<1>1. CASE ~j.photo
  BY <1>1, NoJobType DEF AfterRows, Sound, Writes
<1>2. CASE j.photo
  <2>1. PICK step : step = IF Beside(j.op, j.kind) THEN "photo" ELSE "retire"
    OBVIOUS
  <2>2. step \in {"retire", "photo"} /\ (step = "photo" => Beside(j.op, j.kind))
    BY <2>1
  <2>3. PICK k : k = AfterRows(j)
    OBVIOUS
  <2>4. k = [j EXCEPT !.at = step, !.profile = 0, !.base = MaxMedia]
    BY <1>2, <2>1, <2>3 DEF AfterRows
  <2>5. /\ k \in Job /\ k.at = step /\ k.user = j.user
        /\ k.op = j.op /\ k.kind = j.kind
    <3>1. step \in Steps /\ MaxMedia \in Nat
      BY <2>2, ProfilesAssumption DEF Steps
    <3>2. PICK k1 \in Job : k1 = [j EXCEPT !.at = step]
      BY <3>1 DEF Job
    <3>3. PICK k2 \in Job : k2 = [k1 EXCEPT !.profile = 0]
      BY DEF Job
    <3>4. k = [k2 EXCEPT !.base = MaxMedia]
      BY <2>4, <3>2, <3>3
    <3>5. k \in Job /\ k.at = k2.at /\ k.user = k2.user /\ k.op = k2.op /\ k.kind = k2.kind
      BY <3>1, <3>4 DEF Job
    <3>6. k2.at = step /\ k2.user = j.user /\ k2.op = j.op /\ k2.kind = j.kind
      BY <3>2, <3>3 DEF Job
    <3>7. QED
      BY <3>5, <3>6
  <2>6. Sound(k)
    BY <2>2, <2>5 DEF Sound, Writes
  <2>7. QED
    BY <2>2, <2>3, <2>5, <2>6
<1>3. QED
  BY <1>1, <1>2

LEMMA MoveType ==
    ASSUME IInv, Move
    PROVE  moves' \in Nat
BY DEF IInv, TypeOK, Move

LEMMA CreateStartInv ==
    ASSUME IInv, NEW h \in Handlers, NEW u \in Users, NEW kind \in Kinds, NEW form,
           NEW photo \in BOOLEAN, NEW phone \in Nat, CreateStart(h, u, kind, form, photo, phone)
    PROVE  IInv'
<1>1. PICK j : j = [op |-> "create", at |-> "create", user |-> u, kind |-> kind,
                    profile |-> 0, items |-> Resolve(form), photo |-> photo,
                    phone |-> phone, base |-> Len(profiles)]
  OBVIOUS
<1>2. Resolve(form) \subseteq Items /\ Len(profiles) \in Nat
  BY DEF Resolve, IInv, TypeOK
<1>3. j \in Job
  BY <1>1, <1>2 DEF Job, Ops, Steps
<1>4. Sound(j)
  BY <1>1, <1>2 DEF Sound, Writes, CreateStart, NoProfile, ProfilesOf
<1>5. job' = [job EXCEPT ![h] = j]
  BY <1>1 DEF CreateStart
<1>6. QED
  BY <1>1, <1>3, <1>4, <1>5, QuietStep, MoveType
     DEF CreateStart, Idle, Writes, IInv, TypeOK

LEMMA UploadStartInv ==
    ASSUME IInv, NEW h \in Handlers, NEW u \in Users, UploadStart(h, u)
    PROVE  IInv'
<1>1. PICK j : j = [NoJob EXCEPT !.op = "upload", !.at = "retire", !.user = u, !.photo = TRUE]
  OBVIOUS
<1>2. j \in Job /\ j.at = "retire" /\ j.user = u
  BY <1>1, NoJobType DEF Job, Ops, Steps
<1>3. Sound(j)
  BY <1>2 DEF Sound, Writes
<1>4. job' = [job EXCEPT ![h] = j]
  BY <1>1 DEF UploadStart
<1>5. QED
  BY <1>2, <1>3, <1>4, QuietStep, MoveType DEF UploadStart, Idle, Writes, IInv, TypeOK

-----------------------------------------------------------------------------
(* Writing preferences.                                                    *)

(***************************************************************************)
(* A step of one request that writes the preferences of an existing        *)
(* profile and nothing else.                                               *)
(***************************************************************************)
LEMMA WriterStep ==
    ASSUME IInv, NEW i \in DOMAIN profiles, NEW h \in Handlers, NEW j \in Job, Sound(j),
           job' = [job EXCEPT ![h] = j], job[h].at # "photo",
           Writes(job[h]) => job[h].profile = i, Writes(j) => j.profile = i,
           NEW p \in [Items -> Nat], prefs' = [prefs EXCEPT ![i] = p],
           NEW s \in SUBSET Items, saved' = [saved EXCEPT ![i] = s],
           mixed \subseteq mixed', mixed' \subseteq mixed \cup {i},
           i \notin mixed' => Writing(i) \subseteq {h},
           i \notin mixed' => /\ Writes(j) => Underway(j, p, s)
                              /\ ~Writes(j) => p = Ind(s),
           UNCHANGED <<profiles, medias, known, bare>>, moves' \in Nat, faults' \in Nat
    PROVE  IInv'
<1>1. ProfilesGrow /\ MediasGrow
  BY ProfilesStay, MediasStay DEF IInv
<1>2. job' \in [Handlers -> Job] /\ JobsSound'
  BY <1>1, JobMoves, SoundStays DEF IInv
<1>3. /\ profiles \in Seq(Profile)
      /\ prefs \in Seq([Items -> Nat]) /\ Len(prefs) = Len(profiles)
      /\ saved \in Seq(SUBSET Items) /\ Len(saved) = Len(profiles)
  BY DEF IInv, TypeOK
<1>4. /\ i \in DOMAIN prefs /\ i \in DOMAIN saved
      /\ DOMAIN profiles = DOMAIN prefs /\ DOMAIN profiles = DOMAIN saved
  BY <1>3
<1>5. prefs' \in Seq([Items -> Nat]) /\ Len(prefs') = Len(prefs)
  BY <1>3, <1>4
<1>6. saved' \in Seq(SUBSET Items) /\ Len(saved') = Len(saved)
  BY <1>3, <1>4
<1>7. /\ prefs'[i] = p /\ saved'[i] = s
      /\ \A k \in DOMAIN profiles \ {i} : prefs'[k] = prefs[k] /\ saved'[k] = saved[k]
  BY <1>3, <1>4
<1>8. PrefsSound'
  <2>1. TypeOK /\ PrefsSound /\ DOMAIN profiles' = DOMAIN profiles \cup {i}
    BY DEF IInv
  <2>2. i \notin mixed' => /\ Writes(j) => Underway(j, prefs'[i], saved'[i])
                           /\ ~Writes(j) => prefs'[i] = Ind(saved'[i])
    BY <1>7
  <2>3. QED
    BY <1>7, <2>1, <2>2, OneWriter
<1>9. PhotosSound' /\ KeptSound'
  BY ShelfStays DEF IInv
<1>10. mixed' \subseteq DOMAIN profiles'
  BY DEF IInv, TypeOK
<1>11. TypeOK'
  BY <1>2, <1>3, <1>5, <1>6, <1>10 DEF IInv, TypeOK, JobsSound, Sound, Writes, Writing
<1>12. QED
  BY <1>2, <1>8, <1>9, <1>11, TwoProfilesStay DEF IInv

\* Functions updated by what they already have.
LEMMA SamePrefs ==
    ASSUME TypeOK, NEW i \in DOMAIN profiles
    PROVE  /\ prefs[i] \in [Items -> Nat] /\ prefs = [prefs EXCEPT ![i] = prefs[i]]
           /\ saved[i] \in SUBSET Items /\ saved = [saved EXCEPT ![i] = saved[i]]
BY DEF TypeOK

LEMMA IndType ==
    ASSUME NEW s
    PROVE  Ind(s) \in [Items -> Nat]
BY DEF Ind

LEMMA UpdateWithInv ==
    ASSUME IInv, NEW h \in Handlers, NEW i \in DOMAIN profiles, NEW kind \in Kinds,
           profiles[i].kind = kind, NEW form, NEW photo \in BOOLEAN,
           UpdateWith(h, i, kind, form, photo), moves' \in Nat
    PROVE  IInv'
<1>1. PICK items \in SUBSET Items : items = Resolve(form)
  BY DEF Resolve, IInv, TypeOK
<1>2. PICK j : j = [NoJob EXCEPT !.op = "update", !.at = "clear", !.user = profiles[i].owner,
                             !.kind = kind, !.profile = i, !.items = items, !.photo = photo]
  OBVIOUS
<1>3. profiles[i] \in Profile /\ i \in Nat
  BY DEF IInv, TypeOK
<1>4. profiles[i].owner \in Users
  BY <1>3 DEF Profile
<1>5. /\ j \in Job /\ j.at = "clear" /\ j.user \in Users /\ j.kind = kind
      /\ j.profile = i /\ j.items = items
  BY <1>2, <1>3, <1>4, NoJobType DEF Job, Ops, Steps
<1>6. Sound(j)
  BY <1>5 DEF Sound, Writes
<1>7. CASE items = {}
  <2>1. job' = [job EXCEPT ![h] = AfterRows(j)]
    BY <1>1, <1>2, <1>7 DEF UpdateWith
  <2>2. UNCHANGED <<Rows, medias, known, bare, faults>>
    BY <1>1, <1>7 DEF UpdateWith, Rows
  <2>3. PICK k \in Job : k = AfterRows(j) /\ ~Writes(k) /\ Sound(k)
    BY <1>5, AfterRowsSound DEF Writes, IInv
  <2>4. QED
    BY <2>1, <2>2, <2>3, QuietStep DEF UpdateWith, Idle, Writes, IInv, TypeOK
<1>8. CASE items # {}
  <2>1. job' = [job EXCEPT ![h] = j]
    BY <1>1, <1>2, <1>8 DEF UpdateWith
  <2>2. saved' = [saved EXCEPT ![i] = items]
    BY <1>1, <1>8 DEF UpdateWith
  <2>3. mixed' = IF Writing(i) # {} THEN mixed \cup {i} ELSE mixed
    BY <1>1, <1>8 DEF UpdateWith
  <2>4. ~Writes(job[h]) /\ job[h].at # "photo"
    BY DEF UpdateWith, Idle, Writes
  <2>5. Underway(j, prefs[i], items)
    BY <1>5 DEF Underway
  <2>6. PICK p \in [Items -> Nat] : p = prefs[i] /\ prefs = [prefs EXCEPT ![i] = p]
    BY SamePrefs DEF IInv
  <2>7. UNCHANGED <<profiles, prefs, medias, known, bare, faults>> /\ faults \in Nat
    BY DEF UpdateWith, IInv, TypeOK
  <2>8. prefs' = [prefs EXCEPT ![i] = p]
    BY <2>6, <2>7
  <2>9. Writes(j) /\ Underway(j, p, items)
    BY <1>5, <2>5, <2>6 DEF Writes
  <2>10. /\ mixed \subseteq mixed' /\ mixed' \subseteq mixed \cup {i}
         /\ i \notin mixed' => Writing(i) \subseteq {h}
    BY <2>3
  <2>11. QED
    BY <1>5, <1>6, <2>1, <2>2, <2>4, <2>7, <2>8, <2>9, <2>10, WriterStep
<1>9. QED
  BY <1>7, <1>8

\* Whoever writes a profile that is not mixed writes it alone.
LEMMA Alone ==
    ASSUME IInv, NEW h \in Handlers, Writes(job[h])
    PROVE  /\ job[h] \in Job /\ Sound(job[h])
           /\ job[h].profile \in DOMAIN profiles /\ job[h].user \in Users
           /\ h \in Writing(job[h].profile)
           /\ job[h].profile \notin mixed =>
                /\ Writing(job[h].profile) \subseteq {h}
                /\ Underway(job[h], prefs[job[h].profile], saved[job[h].profile])
<1>1. job[h] \in Job /\ Sound(job[h])
  BY DEF IInv, TypeOK, JobsSound
<1>2. job[h].profile \in DOMAIN profiles /\ job[h].user \in Users /\ h \in Writing(job[h].profile)
  BY <1>1 DEF Sound, Writes, Writing
<1>3. job[h].profile \notin mixed => Written(job[h].profile)
  BY <1>2 DEF IInv, PrefsSound
<1>4. QED
  BY <1>1, <1>2, <1>3 DEF Written

LEMMA ClearInv ==
    ASSUME IInv, NEW h \in Handlers, NEW kind, ClearPreferences(h, kind)
    PROVE  IInv'
<1>1. Writes(job[h])
  BY DEF ClearPreferences, Writes
<1>2. PICK i \in DOMAIN profiles : i = job[h].profile
  BY <1>1, Alone
<1>3. PICK j : j = [job[h] EXCEPT !.at = "rows"]
  OBVIOUS
<1>4. /\ j \in Job /\ j.at = "rows" /\ j.profile = i /\ j.items = job[h].items
      /\ j.user = job[h].user /\ j.kind = job[h].kind
  BY <1>1, <1>2, <1>3, Alone DEF Job, Steps
<1>5. Sound(j)
  BY <1>1, <1>2, <1>4, Alone DEF Sound, Writes
<1>6. job' = [job EXCEPT ![h] = j]
  BY <1>3 DEF ClearPreferences
<1>7. PICK s \in SUBSET Items : s = saved[i] /\ saved = [saved EXCEPT ![i] = s]
  BY SamePrefs DEF IInv
<1>8. NoPrefs \in [Items -> Nat] /\ prefs' = [prefs EXCEPT ![i] = NoPrefs]
  BY <1>2 DEF ClearPreferences, NoPrefs
<1>9. i \notin mixed => Underway(j, NoPrefs, s)
  <2>1. SUFFICES ASSUME i \notin mixed
                 PROVE  Underway(j, NoPrefs, s)
    OBVIOUS
  <2>2. job[h].items = s
    BY <1>1, <1>2, <1>7, <2>1, Alone DEF Underway, ClearPreferences
  <2>3. NoPrefs = Ind(s \ j.items)
    BY <1>4, <2>2 DEF NoPrefs, Ind
  <2>4. QED
    BY <1>4, <2>2, <2>3 DEF Underway
<1>10. UNCHANGED <<profiles, saved, mixed, medias, known, bare, moves, faults>>
  BY DEF ClearPreferences
<1>11. moves' \in Nat /\ faults' \in Nat /\ job[h].at # "photo" /\ Writes(j)
  BY <1>1, <1>4, <1>10 DEF IInv, TypeOK, Writes
<1>12. i \notin mixed => Writing(i) \subseteq {h}
  BY <1>1, <1>2, Alone
<1>13. saved' = [saved EXCEPT ![i] = s]
  BY <1>7, <1>10
<1>14. QED
  BY <1>2, <1>4, <1>5, <1>6, <1>8, <1>9, <1>10, <1>11, <1>12, <1>13, WriterStep

LEMMA AddInv ==
    ASSUME IInv, NEW h \in Handlers, NEW op, NEW kind, AddPreference(h, op, kind)
    PROVE  IInv'
<1>1. Writes(job[h]) /\ job[h].at = "rows"
  BY DEF AddPreference, Writes
<1>2. PICK i \in DOMAIN profiles : i = job[h].profile
  BY <1>1, Alone
<1>3. PICK x \in job[h].items :
        LET rest == [job[h] EXCEPT !.items = @ \ {x}]
        IN  /\ prefs' = [prefs EXCEPT ![job[h].profile][x] = @ + 1]
            /\ job' = [job EXCEPT ![h] = IF rest.items = {} THEN AfterRows(rest) ELSE rest]
  BY DEF AddPreference
<1>4. PICK rest : rest = [job[h] EXCEPT !.items = @ \ {x}]
  OBVIOUS
<1>5. /\ rest \in Job /\ rest.at = "rows" /\ rest.profile = i
      /\ rest.items = job[h].items \ {x}
      /\ rest.user \in Users /\ rest.kind = job[h].kind
  BY <1>1, <1>2, <1>4, Alone DEF Job, Steps
<1>6. Sound(rest)
  BY <1>1, <1>2, <1>5, Alone DEF Sound, Writes
<1>7. PICK j \in Job : /\ job' = [job EXCEPT ![h] = j] /\ Sound(j)
                       /\ \/ j = rest
                          \/ rest.items = {} /\ ~Writes(j)
  <2>1. CASE rest.items = {}
    BY <1>3, <1>4, <1>5, <2>1, AfterRowsSound DEF Writes, IInv
  <2>2. CASE rest.items # {}
    BY <1>3, <1>4, <1>5, <1>6, <2>2
  <2>3. QED
    BY <2>1, <2>2
<1>8. PICK s \in SUBSET Items : s = saved[i] /\ saved = [saved EXCEPT ![i] = s]
  BY SamePrefs DEF IInv
<1>9. prefs[i] \in [Items -> Nat] /\ x \in Items
  BY <1>1, <1>3, SamePrefs, Alone DEF IInv, Job
<1>10. PICK p \in [Items -> Nat] : p = [prefs[i] EXCEPT ![x] = @ + 1]
  <2>1. PICK q \in [Items -> Nat] : q = prefs[i]
    BY <1>9
  <2>2. [q EXCEPT ![x] = @ + 1] \in [Items -> Nat]
    BY <1>9
  <2>3. QED
    BY <2>1, <2>2
<1>11. prefs' = [prefs EXCEPT ![i] = p]
  BY <1>2, <1>3, <1>10
<1>12. ASSUME i \notin mixed
       PROVE  p = Ind(s \ rest.items) /\ rest.items \subseteq s
  <2>1. prefs[i] = Ind(s \ job[h].items) /\ job[h].items \subseteq s
    BY <1>1, <1>2, <1>8, <1>12, Alone DEF Underway
  <2>2. \A y \in Items : p[y] = IF y = x THEN prefs[i][x] + 1 ELSE prefs[i][y]
    BY <1>9, <1>10
  <2>3. \A y \in Items : p[y] = Ind(s \ rest.items)[y]
    BY <1>3, <1>5, <2>1, <2>2 DEF Ind
  <2>4. p = Ind(s \ rest.items)
    BY <2>3, IndType
  <2>5. QED
    BY <1>5, <2>1, <2>4
<1>13. i \notin mixed => /\ Writes(j) => Underway(j, p, s)
                         /\ ~Writes(j) => p = Ind(s)
  <2>1. CASE j = rest
    BY <1>5, <1>12, <2>1 DEF Underway, Writes
  <2>2. CASE rest.items = {} /\ ~Writes(j)
    <3>1. s \ rest.items = s
      BY <2>2
    <3>2. QED
      BY <1>12, <2>2, <3>1
  <2>3. QED
    BY <1>7, <2>1, <2>2
<1>14. UNCHANGED <<profiles, saved, mixed, medias, known, bare, moves, faults>>
  BY DEF AddPreference
<1>15. moves' \in Nat /\ faults' \in Nat /\ job[h].at # "photo"
  BY <1>1, <1>14 DEF IInv, TypeOK
<1>16. i \notin mixed => Writing(i) \subseteq {h}
  BY <1>1, <1>2, Alone
<1>17. saved' = [saved EXCEPT ![i] = s]
  BY <1>8, <1>14
<1>18. Writes(j) => j.profile = i
  BY <1>5, <1>7
<1>19. /\ mixed \subseteq mixed' /\ mixed' \subseteq mixed \cup {i}
       /\ i \notin mixed' => i \notin mixed
  BY <1>14
<1>20. job' = [job EXCEPT ![h] = j] /\ Sound(j)
  BY <1>7
<1>21. Writes(job[h]) => job[h].profile = i
  BY <1>2
<1>22. UNCHANGED <<profiles, medias, known, bare>>
  BY <1>14
<1>23. QED
  BY <1>11, <1>13, <1>15, <1>16, <1>17, <1>18, <1>19, <1>20, <1>21, <1>22, WriterStep

-----------------------------------------------------------------------------
(* Storing rows.                                                           *)

LEMMA CreateRowInv ==
    ASSUME IInv, NEW h \in Handlers, NEW kind \in Kinds, CreateRow(h, kind)
    PROVE  IInv'
<1>1. /\ job[h] \in Job /\ Sound(job[h]) /\ job[h].at = "create" /\ job[h].kind = kind
      /\ job[h].user \in Users /\ ~Writes(job[h])
  BY DEF CreateRow, IInv, TypeOK, JobsSound, Sound, Writes
<1>2. UNCHANGED <<medias, known, bare, moves, faults>> /\ moves' \in Nat /\ faults' \in Nat
  BY DEF CreateRow, IInv, TypeOK
<1>3. CASE kind = "nounu" /\ PhoneTaken(job[h].phone)
  <2>1. PICK j \in Job : j = NoJob /\ ~Writes(j) /\ Sound(j)
    BY NoJobType DEF Sound, Writes
  <2>2. job' = [job EXCEPT ![h] = j] /\ UNCHANGED Rows
    BY <1>3, <2>1 DEF CreateRow
  <2>3. QED
    BY <1>1, <1>2, <2>1, <2>2, QuietStep
<1>4. CASE ~(kind = "nounu" /\ PhoneTaken(job[h].phone))
  <2>1. PICK n : n = Len(profiles) + 1
    OBVIOUS
  <2>2. PICK row : row = [owner |-> job[h].user, kind |-> kind, phone |-> job[h].phone,
                          deleted |-> FALSE, base |-> job[h].base]
    OBVIOUS
  <2>3. PICK j2 : j2 = [job[h] EXCEPT !.profile = n, !.base = 0, !.phone = 0]
    OBVIOUS
  <2>4. PICK j : j = IF job[h].items = {} THEN AfterRows(j2) ELSE [j2 EXCEPT !.at = "rows"]
    OBVIOUS
  <2>5. /\ profiles' = Append(profiles, row)
        /\ prefs' = Append(prefs, NoPrefs)
        /\ saved' = Append(saved, job[h].items)
        /\ mixed' = mixed
        /\ job' = [job EXCEPT ![h] = j]
    BY <1>4, <2>1, <2>2, <2>3, <2>4 DEF CreateRow
  <2>6. /\ profiles \in Seq(Profile) /\ Len(profiles) \in Nat
        /\ prefs \in Seq([Items -> Nat]) /\ Len(prefs) = Len(profiles)
        /\ saved \in Seq(SUBSET Items) /\ Len(saved) = Len(profiles)
    BY DEF IInv, TypeOK
  <2>7. row \in Profile /\ job[h].items \subseteq Items /\ NoPrefs \in [Items -> Nat]
    BY <1>1, <2>2 DEF Job, Profile, NoPrefs
  <2>8. /\ profiles' \in Seq(Profile) /\ Len(profiles') = n /\ profiles'[n] = row
        /\ \A k \in DOMAIN profiles : profiles'[k] = profiles[k]
        /\ DOMAIN profiles' = DOMAIN profiles \cup {n} /\ n \notin DOMAIN profiles
    BY <2>1, <2>5, <2>6, <2>7
  <2>9. /\ prefs' \in Seq([Items -> Nat]) /\ Len(prefs') = n /\ prefs'[n] = NoPrefs
        /\ \A k \in DOMAIN profiles : prefs'[k] = prefs[k]
    BY <2>1, <2>5, <2>6, <2>7
  <2>10. /\ saved' \in Seq(SUBSET Items) /\ Len(saved') = n /\ saved'[n] = job[h].items
         /\ \A k \in DOMAIN profiles : saved'[k] = saved[k]
    BY <2>1, <2>5, <2>6, <2>7
  <2>11. j2 \in Job /\ j2.user = job[h].user /\ j2.items = job[h].items
         /\ j2.profile = n /\ j2.kind = kind
    <3>1. n \in Nat
      BY <2>1, <2>6
    <3>2. PICK k1 \in Job : k1 = [job[h] EXCEPT !.profile = n]
      BY <1>1, <3>1 DEF Job
    <3>3. /\ k1.user = job[h].user /\ k1.items = job[h].items
          /\ k1.profile = n /\ k1.kind = kind
      BY <1>1, <3>2 DEF Job
    <3>4. PICK k2 \in Job : k2 = [k1 EXCEPT !.base = 0]
      BY DEF Job
    <3>5. k2.user = k1.user /\ k2.items = k1.items /\ k2.profile = k1.profile /\ k2.kind = k1.kind
      BY <3>4 DEF Job
    <3>6. j2 = [k2 EXCEPT !.phone = 0]
      BY <2>3, <3>2, <3>4
    <3>7. /\ j2 \in Job /\ j2.user = k2.user /\ j2.items = k2.items
          /\ j2.profile = k2.profile /\ j2.kind = k2.kind
      BY <3>6 DEF Job
    <3>8. QED
      BY <3>3, <3>5, <3>7
  <2>12. ProfilesGrow /\ MediasGrow
    BY <1>2, <2>1, <2>6, <2>8, MediasStay DEF ProfilesGrow, IInv
  <2>13. /\ j \in Job /\ Sound(j)'
         /\ Writes(j) => j.profile = n /\ j.at = "rows" /\ j.items = job[h].items
         /\ ~Writes(j) => job[h].items = {}
    <3>1. CASE job[h].items = {}
      <4>1. j = AfterRows(j2) /\ j2.user \in Users
        BY <1>1, <2>4, <2>11, <3>1
      <4>2. j \in Job /\ Sound(j) /\ ~Writes(j)
        BY <2>11, <4>1, AfterRowsSound DEF Writes, IInv
      <4>3. QED
        BY <2>12, <3>1, <4>2, SoundStays DEF IInv
    <3>2. CASE job[h].items # {}
      <4>1. /\ j \in Job /\ j.at = "rows" /\ j.user = j2.user /\ j.items = j2.items
            /\ j.profile = j2.profile /\ j.kind = j2.kind
        BY <2>4, <2>11, <3>2 DEF Job, Steps
      <4>2. n \in DOMAIN profiles' /\ profiles'[n].kind = kind
        BY <2>2, <2>8
      <4>3. Sound(j)'
        BY <1>1, <2>11, <4>1, <4>2 DEF Sound, Writes
      <4>4. QED
        BY <2>11, <4>1, <4>3 DEF Writes
    <3>3. QED
      BY <3>1, <3>2
  <2>14. job' \in [Handlers -> Job] /\ JobsSound'
    BY <2>5, <2>12, <2>13, JobMoves DEF IInv
  <2>15. Writing(n) = {}
    BY <2>8 DEF Writing, IInv, JobsSound, Sound, Writes
  <2>16. NoPrefs = Ind(job[h].items \ job[h].items)
    BY DEF NoPrefs, Ind
  <2>17. PrefsSound'
    <3>1. Writes(j) => Underway(j, prefs'[n], saved'[n])
      BY <2>9, <2>10, <2>13, <2>16 DEF Underway
    <3>2. ~Writes(j) => prefs'[n] = Ind(saved'[n])
      BY <2>9, <2>10, <2>13, <2>16
    <3>3. /\ Writing(n) \subseteq {h} /\ mixed \subseteq mixed'
          /\ \A k \in DOMAIN profiles \ {n} : prefs'[k] = prefs[k] /\ saved'[k] = saved[k]
      BY <2>5, <2>9, <2>10, <2>15
    <3>4. TypeOK /\ PrefsSound /\ DOMAIN profiles' = DOMAIN profiles \cup {n}
      BY <2>8 DEF IInv
    <3>5. job' = [job EXCEPT ![h] = j] /\ Writes(j) => j.profile = n
      BY <2>5, <2>13
    <3>6. QED
      BY <1>1, <2>5, <2>13, <3>1, <3>2, <3>3, <3>4, <3>5, OneWriter
  <2>18. PhotosSound' /\ KeptSound'
    BY <1>1, <1>2, <2>5, <2>13, ShelfStays DEF IInv
  <2>19. TwoProfilesOnlyByRace'
    <3>1. ASSUME NEW i \in DOMAIN profiles, profiles[i].owner = row.owner,
                 profiles[i].kind = row.kind
          PROVE  row.base < i /\ (profiles[i].kind = "nounu" => profiles[i].phone # row.phone)
      BY <1>1, <1>4, <2>2, <3>1 DEF Sound, PhoneTaken
    <3>2. \A i \in DOMAIN profiles : i < n
      BY <2>1, <2>6
    <3>3. ASSUME NEW i \in DOMAIN profiles', NEW k \in DOMAIN profiles', i < k,
                 profiles'[i].owner = profiles'[k].owner, profiles'[i].kind = profiles'[k].kind
          PROVE  /\ profiles'[k].base < i
                 /\ profiles'[i].kind = "nounu" => profiles'[i].phone # profiles'[k].phone
      <4>1. CASE k = n
        <5>1. i \in DOMAIN profiles
          BY <2>8, <3>3, <4>1, <2>6, <2>1
        <5>2. QED
          BY <2>8, <3>1, <3>3, <4>1, <5>1
      <4>2. CASE k # n
        <5>1. k \in DOMAIN profiles /\ i \in DOMAIN profiles
          BY <2>8, <3>2, <3>3, <4>2, <2>1, <2>6
        <5>2. QED
          BY <2>8, <3>3, <5>1 DEF IInv, TwoProfilesOnlyByRace
      <4>3. QED
        BY <4>1, <4>2
    <3>4. QED
      BY <3>3 DEF TwoProfilesOnlyByRace
  <2>20. TypeOK'
    <3>1. mixed' \subseteq DOMAIN profiles'
      BY <2>5, <2>8 DEF IInv, TypeOK
    <3>2. (\A i \in DOMAIN profiles : \A g \in Writing(i) : job[g].kind = profiles[i].kind)'
      BY <2>14 DEF JobsSound, Sound, Writes, Writing
    <3>3. Len(prefs') = Len(profiles') /\ Len(saved') = Len(profiles')
      BY <2>8, <2>9, <2>10
    <3>4. QED
      BY <1>2, <2>8, <2>9, <2>10, <2>14, <3>1, <3>2, <3>3 DEF IInv, TypeOK
  <2>21. QED
    BY <2>14, <2>17, <2>18, <2>19, <2>20 DEF IInv
<1>5. QED
  BY <1>3, <1>4

\* A step that touches the medias only, with or without one request moving.
LEMMA ShelfStep ==
    ASSUME IInv, MediasGrow, UNCHANGED <<Rows, known>>, moves' \in Nat, faults' \in Nat,
           bare' \subseteq Users, PhotosSound', KeptSound',
           \/ UNCHANGED job
           \/ \E h \in Handlers : \E j \in Job :
                /\ job' = [job EXCEPT ![h] = j] /\ Sound(j)'
                /\ ~Writes(job[h]) /\ ~Writes(j)
    PROVE  IInv'
<1>1. ProfilesGrow
  BY ProfilesStay DEF IInv, Rows
<1>2. job' \in [Handlers -> Job] /\ JobsSound' /\ PrefsSound'
  <2>1. CASE UNCHANGED job
    BY <1>1, <2>1, JobsStay, PrefsStayWithJobs DEF IInv, Rows
  <2>2. ASSUME NEW h \in Handlers, NEW j \in Job, job' = [job EXCEPT ![h] = j], Sound(j)',
               ~Writes(job[h]), ~Writes(j)
        PROVE  job' \in [Handlers -> Job] /\ JobsSound' /\ PrefsSound'
    BY <1>1, <2>2, JobMoves, PrefsStay DEF IInv, Rows
  <2>3. QED
    BY <2>1, <2>2
<1>3. TypeOK'
  BY <1>2 DEF IInv, TypeOK, Rows, MediasGrow, JobsSound, Sound, Writes, Writing
<1>4. QED
  BY <1>2, <1>3, TwoProfilesStay DEF IInv, Rows

\* Deleting medias makes no two photos live.
LEMMA FadingPhotos ==
    ASSUME IInv, MediasGrow, Len(medias') = Len(medias)
    PROVE  PhotosSound'
<1>1. medias \in Seq(Media) /\ medias' \in Seq(Media)
  BY DEF IInv, TypeOK, MediasGrow
<1>2. DOMAIN medias' = DOMAIN medias
  BY <1>1
<1>3. \A i \in DOMAIN medias : /\ medias[i].deleted \in BOOLEAN /\ medias'[i].deleted \in BOOLEAN
                               /\ ~medias'[i].deleted => ~medias[i].deleted
  <2>1. \A i \in DOMAIN medias : medias[i] \in Media /\ medias'[i] \in Media
    BY <1>1, <1>2
  <2>2. \A m \in Media : m.deleted \in BOOLEAN
    BY DEF Media
  <2>3. QED
    BY <2>1, <2>2 DEF MediasGrow
<1>4. QED
  BY <1>2, <1>3 DEF PhotosSound, LivePhoto, MediasGrow, IInv

LEMMA RetireInv ==
    ASSUME IInv, NEW h \in Handlers, RetirePhotos(h)
    PROVE  IInv'
<1>1. /\ job[h] \in Job /\ Sound(job[h]) /\ job[h].at = "retire" /\ job[h].user \in Users
      /\ ~Writes(job[h]) /\ medias \in Seq(Media) /\ Len(medias) \in Nat
  BY DEF RetirePhotos, IInv, TypeOK, JobsSound, Sound, Writes
<1>2. PICK u : u = job[h].user
  OBVIOUS
<1>3. medias' = [i \in DOMAIN medias |->
                   IF medias[i].owner = u /\ medias[i].photo
                   THEN [medias[i] EXCEPT !.deleted = TRUE] ELSE medias[i]]
  BY <1>2 DEF RetirePhotos
<1>4. \A i \in DOMAIN medias : /\ medias[i] \in Media
                               /\ [medias[i] EXCEPT !.deleted = TRUE] \in Media
  <2>1. \A i \in DOMAIN medias : medias[i] \in Media
    BY <1>1
  <2>2. \A m \in Media : [m EXCEPT !.deleted = TRUE] \in Media
    BY DEF Media
  <2>3. QED
    BY <2>1, <2>2
<1>5. \A i \in DOMAIN medias : /\ medias'[i] \in Media
                               /\ medias'[i].owner = medias[i].owner
                               /\ medias'[i].photo = medias[i].photo
                               /\ medias'[i].op = medias[i].op
                               /\ medias'[i].kind = medias[i].kind
                               /\ medias'[i].base = medias[i].base
                               /\ medias[i].deleted => medias'[i].deleted
                               /\ ~LivePhoto(u, i)'
  BY <1>3, <1>4 DEF Media, LivePhoto
<1>6. medias' \in Seq(Media) /\ Len(medias') = Len(medias) /\ DOMAIN medias' = DOMAIN medias
  <2>1. DOMAIN medias' = 1 .. Len(medias) /\ medias' \in [1 .. Len(medias) -> Media]
    BY <1>1, <1>3, <1>5
  <2>2. QED
    BY <1>1, <2>1
<1>7. MediasGrow
  BY <1>1, <1>5, <1>6 DEF MediasGrow
<1>8. PICK n \in Nat : n = Len(medias)
  BY <1>1
<1>9. PICK j : j = [job[h] EXCEPT !.at = "photo", !.base = n]
  OBVIOUS
<1>10. j \in Job /\ j.at = "photo" /\ j.user = u /\ j.base = n
  BY <1>1, <1>2, <1>9 DEF Job, Steps
<1>11. job' = [job EXCEPT ![h] = j]
  BY <1>8, <1>9 DEF RetirePhotos
<1>12. Sound(j)'
  BY <1>1, <1>2, <1>5, <1>6, <1>8, <1>10 DEF Sound, Writes
<1>13. PhotosSound'
  BY <1>6, <1>7, FadingPhotos
<1>14. UNCHANGED <<Rows, known, bare, moves, faults>>
  BY DEF RetirePhotos
<1>15. KeptSound'
  <2>1. job'[h].user = u /\ job'[h].at = "photo"
    BY <1>10, <1>11 DEF IInv, TypeOK
  <2>2. ASSUME NEW v \in Users \ bare,
               \E i \in DOMAIN medias : medias[i].owner = v /\ medias[i].photo,
               \A g \in Handlers : job'[g].user = v => job'[g].at # "photo"
        PROVE  \E i \in DOMAIN medias : LivePhoto(v, i)'
    <3>1. v # u
      BY <2>1, <2>2
    <3>2. \A g \in Handlers : job[g].user = v => job[g].at # "photo"
      BY <1>1, <1>11, <2>2 DEF IInv, TypeOK
    <3>3. PICK i \in DOMAIN medias : LivePhoto(v, i)
      BY <2>2, <3>2 DEF IInv, KeptSound
    <3>4. LivePhoto(v, i)'
      BY <1>3, <3>1, <3>3 DEF LivePhoto
    <3>5. QED
      BY <3>4
  <2>3. QED
    BY <1>5, <1>6, <1>14, <2>2 DEF KeptSound
<1>16. ~Writes(j) /\ moves' \in Nat /\ faults' \in Nat /\ bare' \subseteq Users
  BY <1>10, <1>14 DEF Writes, IInv, TypeOK
<1>17. QED
  BY <1>1, <1>7, <1>10, <1>11, <1>12, <1>13, <1>14, <1>15, <1>16, ShelfStep

\* One media more.
LEMMA Appended ==
    ASSUME IInv, NEW m \in Media, medias' = Append(medias, m)
    PROVE  /\ MediasGrow /\ Len(medias) \in Nat /\ Len(medias') = Len(medias) + 1
           /\ DOMAIN medias' = DOMAIN medias \cup {Len(medias) + 1}
           /\ Len(medias) + 1 \notin DOMAIN medias
           /\ medias'[Len(medias) + 1] = m
           /\ \A i \in DOMAIN medias : medias'[i] = medias[i] /\ i < Len(medias) + 1
<1>1. medias \in Seq(Media)
  BY DEF IInv, TypeOK
<1>2. QED
  BY <1>1 DEF MediasGrow

\* A new photo is stored beside the others, or knows of no live photo of its
\* owner.
LEMMA AppendedPhotos ==
    ASSUME IInv, NEW m \in Media, medias' = Append(medias, m),
           m.photo /\ ~Beside(m.op, m.kind) =>
             \A i \in DOMAIN medias : LivePhoto(m.owner, i) => m.base < i
    PROVE  PhotosSound'
<1>1. PICK n : n = Len(medias) + 1
  OBVIOUS
<1>2. /\ n \in Nat /\ DOMAIN medias' = DOMAIN medias \cup {n} /\ medias'[n] = m
      /\ \A i \in DOMAIN medias : medias'[i] = medias[i] /\ i < n
  BY <1>1, Appended
<1>3. ASSUME NEW i \in DOMAIN medias', NEW k \in DOMAIN medias', i < k,
             LivePhoto(medias[k].owner, i)', LivePhoto(medias[k].owner, k)'
      PROVE  Beside(medias'[k].op, medias'[k].kind) \/ medias'[k].base < i
  <2>1. CASE k = n
    <3>1. i \in DOMAIN medias
      BY <1>2, <1>3, <2>1
    <3>2. QED
      BY <1>2, <1>3, <2>1, <3>1 DEF LivePhoto
  <2>2. CASE k # n
    <3>1. k \in DOMAIN medias /\ k < n /\ k \in Nat
      BY <1>2, <2>2 DEF IInv, TypeOK
    <3>2. i # n
      BY <1>2, <1>3, <3>1
    <3>3. i \in DOMAIN medias
      BY <1>2, <3>2
    <3>4. QED
      BY <1>2, <1>3, <3>1, <3>3 DEF LivePhoto, PhotosSound, IInv
  <2>3. QED
    BY <2>1, <2>2
<1>4. QED
  BY <1>3 DEF PhotosSound

LEMMA StoreInv ==
    ASSUME IInv, NEW h \in Handlers, StorePhoto(h)
    PROVE  IInv'
<1>1. /\ job[h] \in Job /\ Sound(job[h]) /\ job[h].at = "photo" /\ job[h].user \in Users
      /\ ~Writes(job[h])
  BY DEF StorePhoto, IInv, TypeOK, JobsSound, Sound, Writes
<1>2. PICK m : m = [owner |-> job[h].user, photo |-> TRUE, deleted |-> FALSE,
                    op |-> job[h].op, kind |-> job[h].kind, base |-> job[h].base]
  OBVIOUS
<1>3. /\ m \in Media /\ m.owner = job[h].user /\ m.photo /\ ~m.deleted /\ m.base = job[h].base
      /\ m.op = job[h].op /\ m.kind = job[h].kind
  BY <1>1, <1>2 DEF Media, Job
<1>4. medias' = Append(medias, m)
  BY <1>2 DEF StorePhoto
<1>5. PhotosSound'
  BY <1>1, <1>3, <1>4, AppendedPhotos DEF Sound
<1>6. PICK j \in Job : j = NoJob /\ Sound(j)' /\ ~Writes(j)
  BY NoJobType DEF Sound, Writes
<1>7. /\ job' = [job EXCEPT ![h] = j] /\ bare' = bare \ {m.owner}
      /\ UNCHANGED <<Rows, known, moves, faults>>
  BY <1>3, <1>6 DEF StorePhoto
<1>8. KeptSound'
  <2>1. PICK n : n = Len(medias) + 1
    OBVIOUS
  <2>2. /\ DOMAIN medias' = DOMAIN medias \cup {n} /\ medias'[n] = m
        /\ \A i \in DOMAIN medias : medias'[i] = medias[i]
    BY <1>3, <1>4, <2>1, Appended
  <2>3. LivePhoto(m.owner, n)'
    BY <1>3, <2>2 DEF LivePhoto
  <2>4. ASSUME NEW v \in Users \ bare', v # m.owner,
               \E i \in DOMAIN medias' : medias'[i].owner = v /\ medias'[i].photo,
               \A g \in Handlers : job'[g].user = v => job'[g].at # "photo"
        PROVE  \E i \in DOMAIN medias' : LivePhoto(v, i)'
    <3>1. \E i \in DOMAIN medias : medias[i].owner = v /\ medias[i].photo
      BY <2>2, <2>4
    <3>2. \A g \in Handlers : job[g].user = v => job[g].at # "photo"
      BY <1>3, <1>7, <2>4 DEF IInv, TypeOK
    <3>3. PICK i \in DOMAIN medias : LivePhoto(v, i)
      BY <1>7, <2>4, <3>1, <3>2 DEF IInv, KeptSound
    <3>4. QED
      BY <2>2, <3>3 DEF LivePhoto
  <2>5. QED
    BY <2>2, <2>3, <2>4 DEF KeptSound
<1>9. moves' \in Nat /\ faults' \in Nat /\ bare' \subseteq Users /\ MediasGrow
  BY <1>3, <1>4, <1>7, Appended DEF IInv, TypeOK
<1>10. QED
  BY <1>1, <1>5, <1>6, <1>7, <1>8, <1>9, ShelfStep

LEMMA UploadOtherInv ==
    ASSUME IInv, NEW u \in Users, UploadOther(u)
    PROVE  IInv'
<1>1. PICK m : m = [owner |-> u, photo |-> FALSE, deleted |-> FALSE, op |-> "upload",
                    kind |-> "parent", base |-> MaxMedia]
  OBVIOUS
<1>2. m \in Media /\ ~m.photo
  BY <1>1, ProfilesAssumption DEF Media, Ops, Kinds
<1>3. medias' = Append(medias, m)
  BY <1>1 DEF UploadOther
<1>4. PhotosSound' /\ MediasGrow
  BY <1>2, <1>3, AppendedPhotos, Appended
<1>5. KeptSound'
  <2>1. PICK n : n = Len(medias) + 1
    OBVIOUS
  <2>2. /\ DOMAIN medias' = DOMAIN medias \cup {n} /\ medias'[n] = m
        /\ \A i \in DOMAIN medias : medias'[i] = medias[i]
    BY <1>2, <1>3, <2>1, Appended
  <2>3. UNCHANGED <<job, bare>>
    BY DEF UploadOther
  <2>4. QED
    BY <1>2, <2>2, <2>3 DEF KeptSound, LivePhoto, IInv
<1>6. UNCHANGED <<Rows, known, job, bare, faults>>
  BY DEF UploadOther
<1>7. moves' \in Nat /\ faults' \in Nat /\ bare' \subseteq Users
  BY <1>6, MoveType DEF UploadOther, IInv, TypeOK
<1>8. QED
  BY <1>4, <1>5, <1>6, <1>7, ShelfStep

LEMMA DeleteMediaInv ==
    ASSUME IInv, NEW i \in DOMAIN medias, DeleteMedia(i)
    PROVE  IInv'
<1>1. medias \in Seq(Media) /\ medias[i] \in Media /\ medias[i].owner \in Users
  <2>1. medias \in Seq(Media)
    BY DEF IInv, TypeOK
  <2>2. medias[i] \in Media
    BY <2>1
  <2>3. QED
    BY <2>1, <2>2 DEF Media
<1>2. PICK m : m = [medias[i] EXCEPT !.deleted = TRUE]
  OBVIOUS
<1>3. /\ m \in Media /\ m.owner = medias[i].owner /\ m.photo = medias[i].photo
      /\ m.op = medias[i].op /\ m.kind = medias[i].kind /\ m.base = medias[i].base /\ m.deleted
  BY <1>1, <1>2 DEF Media
<1>4. medias' = [medias EXCEPT ![i] = m]
  BY <1>2 DEF DeleteMedia
<1>5. /\ medias' \in Seq(Media) /\ Len(medias') = Len(medias) /\ DOMAIN medias' = DOMAIN medias
      /\ Len(medias) \in Nat /\ medias'[i] = m
      /\ \A k \in DOMAIN medias \ {i} : medias'[k] = medias[k]
  BY <1>1, <1>3, <1>4
<1>6. MediasGrow
  BY <1>3, <1>5 DEF MediasGrow
<1>7. UNCHANGED <<Rows, known, job, faults>>
  BY DEF DeleteMedia
<1>8. bare' = IF medias[i].photo THEN bare \cup {medias[i].owner} ELSE bare
  BY DEF DeleteMedia
<1>9. KeptSound'
  <2>1. ASSUME NEW v \in Users \ bare',
               \E k \in DOMAIN medias' : medias'[k].owner = v /\ medias'[k].photo,
               \A g \in Handlers : job[g].user = v => job[g].at # "photo"
        PROVE  \E k \in DOMAIN medias' : LivePhoto(v, k)'
    <3>1. \E k \in DOMAIN medias : medias[k].owner = v /\ medias[k].photo
      BY <1>3, <1>5, <2>1
    <3>2. v \in Users \ bare
      BY <1>8, <2>1
    <3>3. PICK k \in DOMAIN medias : LivePhoto(v, k)
      BY <2>1, <3>1, <3>2 DEF IInv, KeptSound
    <3>4. k # i
      BY <1>8, <2>1, <3>3 DEF LivePhoto
    <3>5. QED
      BY <1>5, <3>3, <3>4 DEF LivePhoto
  <2>2. QED
    BY <1>7, <2>1 DEF KeptSound
<1>10. moves' \in Nat /\ faults' \in Nat /\ bare' \subseteq Users
  BY <1>1, <1>7, <1>8, MoveType DEF DeleteMedia, IInv, TypeOK
<1>11. QED
  BY <1>5, <1>6, <1>7, <1>9, <1>10, ShelfStep, FadingPhotos

-----------------------------------------------------------------------------
(* The remaining actions.                                                  *)

LEMMA FlipParameterInv ==
    ASSUME IInv, NEW x \in Items, FlipParameter(x)
    PROVE  IInv'
<1>1. UNCHANGED <<Rows, medias, job, bare, faults>>
  BY DEF FlipParameter
<1>2. ProfilesGrow /\ MediasGrow
  BY <1>1, ProfilesStay, MediasStay DEF IInv, Rows
<1>3. JobsSound' /\ PrefsSound' /\ PhotosSound' /\ KeptSound'
  BY <1>1, <1>2, JobsStay, PrefsStayWithJobs, ShelfStaysWithJobs DEF IInv, Rows
<1>4. known' \subseteq Items /\ moves' \in Nat
  BY MoveType DEF FlipParameter, IInv, TypeOK
<1>5. TypeOK'
  BY <1>1, <1>4 DEF IInv, TypeOK, Rows, Writing
<1>6. QED
  BY <1>1, <1>3, <1>5, TwoProfilesStay DEF IInv, Rows

LEMMA DeleteProfileInv ==
    ASSUME IInv, NEW i, DeleteProfile(i)
    PROVE  IInv'
<1>1. profiles \in Seq(Profile) /\ i \in DOMAIN profiles
  BY DEF DeleteProfile, IInv, TypeOK
<1>2. PICK row : row = [profiles[i] EXCEPT !.deleted = TRUE]
  OBVIOUS
<1>3. profiles[i] \in Profile
  BY <1>1
<1>4. /\ row \in Profile /\ row.owner = profiles[i].owner /\ row.kind = profiles[i].kind
      /\ row.phone = profiles[i].phone /\ row.base = profiles[i].base
  BY <1>2, <1>3 DEF Profile
<1>5. profiles' = [profiles EXCEPT ![i] = row]
  BY <1>2 DEF DeleteProfile
<1>6. /\ profiles' \in Seq(Profile) /\ Len(profiles') = Len(profiles)
      /\ DOMAIN profiles' = DOMAIN profiles /\ Len(profiles) \in Nat
  BY <1>1, <1>4, <1>5
<1>7. \A k \in DOMAIN profiles :
        /\ profiles'[k].owner = profiles[k].owner /\ profiles'[k].kind = profiles[k].kind
        /\ profiles'[k].phone = profiles[k].phone /\ profiles'[k].base = profiles[k].base
  BY <1>1, <1>4, <1>5
<1>8. ProfilesGrow /\ MediasGrow
  BY <1>6, <1>7, MediasStay DEF ProfilesGrow, DeleteProfile, IInv
<1>9. UNCHANGED <<prefs, saved, mixed, medias, known, job, bare, faults>>
  BY DEF DeleteProfile
<1>10. job' \in [Handlers -> Job] /\ JobsSound'
  BY <1>8, <1>9, JobsStay DEF IInv
<1>11. PrefsSound' /\ PhotosSound' /\ KeptSound'
  BY <1>6, <1>9, PrefsStayWithJobs, ShelfStaysWithJobs DEF IInv
<1>12. TwoProfilesOnlyByRace'
  BY <1>6, <1>7 DEF TwoProfilesOnlyByRace, IInv
<1>13. (\A k \in DOMAIN profiles : \A g \in Writing(k) : job[g].kind = profiles[k].kind)'
  BY <1>10 DEF JobsSound, Sound, Writes, Writing
<1>14. TypeOK'
  BY <1>6, <1>9, <1>10, <1>13, MoveType DEF DeleteProfile, IInv, TypeOK
<1>15. QED
  BY <1>10, <1>11, <1>12, <1>14 DEF IInv

\* A failure leaves a mixed profile or a bare user, or nothing to complain of.
LEMMA FailInv ==
    ASSUME IInv, NEW h \in Handlers, Fail(h)
    PROVE  IInv'
<1>1. /\ job[h] \in Job /\ Sound(job[h]) /\ job[h].at # "idle" /\ job[h].user \in Users
      /\ faults' \in Nat
  BY DEF Fail, Idle, IInv, TypeOK, JobsSound, Sound
<1>2. PICK j \in Job : j = NoJob /\ Sound(j) /\ ~Writes(j)
  BY NoJobType DEF Sound, Writes
<1>3. /\ job' = [job EXCEPT ![h] = j]
      /\ mixed' = IF Writes(job[h]) THEN mixed \cup {job[h].profile} ELSE mixed
      /\ bare' = IF job[h].at = "photo" THEN bare \cup {job[h].user} ELSE bare
      /\ UNCHANGED <<profiles, prefs, saved, medias, known, moves>>
  BY <1>2 DEF Fail, Writes
<1>4. moves' \in Nat
  BY <1>3 DEF IInv, TypeOK
<1>5. CASE Writes(job[h])
  <2>1. PICK i \in DOMAIN profiles : i = job[h].profile
    BY <1>5, Alone
  <2>2. PICK p \in [Items -> Nat] : p = prefs[i] /\ prefs = [prefs EXCEPT ![i] = p]
    BY SamePrefs DEF IInv
  <2>3. PICK s \in SUBSET Items : s = saved[i] /\ saved = [saved EXCEPT ![i] = s]
    BY SamePrefs DEF IInv
  <2>4. mixed' = mixed \cup {i} /\ UNCHANGED bare /\ job[h].at # "photo"
    BY <1>3, <1>5, <2>1 DEF Writes
  <2>5. prefs' = [prefs EXCEPT ![i] = p] /\ saved' = [saved EXCEPT ![i] = s]
    BY <1>3, <2>2, <2>3
  <2>6. QED
    BY <1>1, <1>2, <1>3, <1>4, <2>1, <2>4, <2>5, WriterStep
<1>6. CASE job[h].at = "photo"
  <2>1. bare' = bare \cup {job[h].user} /\ UNCHANGED <<Rows, medias, known>> /\ ~Writes(job[h])
    BY <1>3, <1>6 DEF Writes, Rows
  <2>2. MediasGrow /\ ProfilesGrow
    BY <1>3, MediasStay, ProfilesStay DEF IInv
  <2>3. PhotosSound'
    BY <2>1 DEF PhotosSound, LivePhoto, IInv
  <2>4. ASSUME NEW v \in Users \ bare',
               \E i \in DOMAIN medias : medias[i].owner = v /\ medias[i].photo,
               \A g \in Handlers : job'[g].user = v => job'[g].at # "photo"
        PROVE  \E i \in DOMAIN medias : LivePhoto(v, i)
    <3>1. v # job[h].user /\ v \in Users \ bare
      BY <2>1, <2>4
    <3>2. \A g \in Handlers : job[g].user = v => job[g].at # "photo"
      BY <1>3, <2>4, <3>1 DEF IInv, TypeOK
    <3>3. QED
      BY <2>4, <3>1, <3>2 DEF IInv, KeptSound
  <2>5. KeptSound'
    BY <2>1, <2>4 DEF KeptSound, LivePhoto
  <2>6. bare' \subseteq Users
    BY <1>1, <2>1 DEF IInv, TypeOK
  <2>7. Sound(j)'
    BY <1>2, <2>2, SoundStays DEF IInv
  <2>8. QED
    BY <1>1, <1>2, <1>3, <1>4, <2>1, <2>2, <2>3, <2>5, <2>6, <2>7, ShelfStep
<1>7. CASE ~Writes(job[h]) /\ job[h].at # "photo"
  <2>1. UNCHANGED <<Rows, medias, known, bare>>
    BY <1>3, <1>7 DEF Rows
  <2>2. QED
    BY <1>1, <1>2, <1>3, <1>4, <1>7, <2>1, QuietStep
<1>8. QED
  BY <1>5, <1>6, <1>7

LEMMA AdvanceInv ==
    ASSUME IInv, NEW h \in Handlers, Advance(h)
    PROVE  IInv'
<1>1. CASE CreateRow(h, "parent") \/ CreateRow(h, "nounu")
  BY <1>1, CreateRowInv DEF Kinds
<1>2. CASE \/ CreateParentPreferences(h) \/ CreateNounuPreferences(h)
           \/ AddParentPreferences(h) \/ AddNounuPreferences(h)
  BY <1>2, AddInv DEF CreateParentPreferences, CreateNounuPreferences,
     AddParentPreferences, AddNounuPreferences
<1>3. CASE ReplaceParentPreferences(h) \/ ReplaceNounuPreferences(h)
  BY <1>3, ClearInv DEF ReplaceParentPreferences, ReplaceNounuPreferences
<1>4. CASE \/ StoreParentMedia(h) \/ StoreNounuMedia(h)
           \/ UpdateParentMedia(h) \/ UpdateNounuMedia(h) \/ UploadMedia(h)
  <2>1. RetirePhotos(h) \/ StorePhoto(h)
    BY <1>4 DEF StoreParentMedia, StoreNounuMedia, UpdateParentMedia, UpdateNounuMedia,
       UploadMedia, Retire, Store
  <2>2. QED
    BY <2>1, RetireInv, StoreInv
<1>5. QED
  BY <1>1, <1>2, <1>3, <1>4 DEF Advance

\* The user of a route has the profile that it updates.
LEMMA ArriveInv ==
    ASSUME IInv, NEW h \in Handlers, NEW u \in Users, Arrive(h, u)
    PROVE  IInv'
<1>1. ASSUME NEW form, NEW photo \in BOOLEAN, CreateParentStart(h, u, form, photo)
      PROVE  IInv'
  BY <1>1, CreateStartInv DEF CreateParentStart, Kinds
<1>2. ASSUME NEW form, NEW photo \in BOOLEAN, NEW phone \in 1 .. 2,
             CreateNounuStart(h, u, form, photo, phone)
      PROVE  IInv'
  BY <1>2, CreateStartInv DEF CreateNounuStart, Kinds
<1>3. ASSUME NEW form, NEW photo \in BOOLEAN,
             UpdateParentStart(h, u, form, photo) \/ UpdateNounuStart(h, u, form, photo)
      PROVE  IInv'
  <2>1. moves' \in Nat
    BY <1>3, MoveType DEF UpdateParentStart, UpdateNounuStart
  <2>2. PICK kind \in Kinds : \E i \in ProfilesOf(u, kind) : UpdateWith(h, i, kind, form, photo)
    BY <1>3 DEF UpdateParentStart, UpdateNounuStart, Kinds
  <2>3. PICK i \in ProfilesOf(u, kind) : UpdateWith(h, i, kind, form, photo)
    BY <2>2
  <2>4. i \in DOMAIN profiles /\ profiles[i].kind = kind
    BY DEF ProfilesOf
  <2>5. QED
    BY <2>1, <2>3, <2>4, UpdateWithInv
<1>4. QED
  BY <1>1, <1>2, <1>3, UploadStartInv DEF Arrive

LEMMA ByIdInv ==
    ASSUME IInv, NEW h \in Handlers, ById(h)
    PROVE  IInv'
<1>1. PICK i \in DOMAIN profiles : UpdateParentById(h, i) \/ UpdateNounuById(h, i)
  BY DEF ById
<1>2. PICK kind \in Kinds : profiles[i].kind = kind /\ UpdateWith(h, i, kind, {}, FALSE)
  BY <1>1 DEF UpdateParentById, UpdateNounuById, Kinds
<1>3. moves' \in Nat
  BY <1>1, MoveType DEF UpdateParentById, UpdateNounuById
<1>4. QED
  BY <1>2, <1>3, UpdateWithInv

LEMMA SaveAgainInv ==
    ASSUME IInv, NEW h \in Handlers, NEW u \in Users, NEW kind \in Kinds, SaveAgain(h, u, kind)
    PROVE  IInv'
<1>1. PICK i \in ProfilesOf(u, kind), form \in Forms : UpdateWith(h, i, kind, form, FALSE)
  BY DEF SaveAgain
<1>2. i \in DOMAIN profiles /\ profiles[i].kind = kind
  BY DEF ProfilesOf
<1>3. moves' \in Nat
  BY DEF SaveAgain, IInv, TypeOK
<1>4. QED
  BY <1>1, <1>2, <1>3, UpdateWithInv

LEMMA OthersInv ==
    ASSUME IInv, Others
    PROVE  IInv'
BY DeleteProfileInv, DeleteMediaInv, FlipParameterInv, UploadOtherInv
   DEF Others, DeleteParent, DeleteNounu

(***************************************************************************)
(* IInv is inductive.                                                      *)
(***************************************************************************)
LEMMA InitInv ==
    ASSUME Init
    PROVE  IInv
<1>1. \A h \in Handlers : job[h] = NoJob
  BY DEF Init
<1>2. DOMAIN profiles = {} /\ DOMAIN medias = {} /\ Len(profiles) = 0
  BY DEF Init
<1>3. job \in [Handlers -> Job]
  BY NoJobType DEF Init
<1>4. TypeOK
  BY <1>2, <1>3 DEF Init, TypeOK
<1>5. JobsSound
  BY <1>1, NoJobType DEF JobsSound, Sound, Writes
<1>6. TwoProfilesOnlyByRace /\ PrefsSound /\ PhotosSound /\ KeptSound
  BY <1>2 DEF TwoProfilesOnlyByRace, PrefsSound, PhotosSound, KeptSound
<1>7. QED
  BY <1>4, <1>5, <1>6 DEF IInv

LEMMA StepInv ==
    ASSUME IInv, [Next]_vars
    PROVE  IInv'
<1>1. ASSUME NEW h \in Handlers, Advance(h) \/ Fail(h) \/ ById(h)
      PROVE  IInv'
  BY <1>1, AdvanceInv, FailInv, ByIdInv
<1>2. ASSUME NEW h \in Handlers, NEW u \in Users, Arrive(h, u)
      PROVE  IInv'
  BY <1>2, ArriveInv
<1>3. ASSUME NEW h \in Handlers, NEW u \in Users, NEW kind \in Kinds, SaveAgain(h, u, kind)
      PROVE  IInv'
  BY <1>3, SaveAgainInv
<1>4. CASE Others
  BY <1>4, OthersInv
<1>5. CASE UNCHANGED vars
  <2>1. UNCHANGED <<profiles, prefs, medias, known, job, saved, mixed, bare, moves, faults>>
    BY <1>5 DEF vars
  <2>2. ProfilesGrow /\ MediasGrow
    BY <2>1, ProfilesStay, MediasStay DEF IInv
  <2>3. JobsSound' /\ PrefsSound' /\ PhotosSound' /\ KeptSound'
    BY <2>1, <2>2, JobsStay, PrefsStayWithJobs, ShelfStaysWithJobs DEF IInv
  <2>4. TypeOK'
    BY <2>1 DEF IInv, TypeOK, Writing
  <2>5. QED
    BY <2>1, <2>3, <2>4, TwoProfilesStay DEF IInv
<1>6. QED
  BY <1>1, <1>2, <1>3, <1>4, <1>5 DEF Next

\* Tables, ghosts and requests are well typed in every reachable state.
THEOREM TypeCorrect == Spec => []TypeOK
<1>1. Init => IInv
  BY InitInv
<1>2. IInv /\ [Next]_vars => IInv'
  BY StepInv
<1>3. IInv => TypeOK
  BY DEF IInv
<1>4. QED
  BY <1>1, <1>2, <1>3, PTL DEF Spec

(***************************************************************************)
(* Preferences are those of the last form, each once, however many         *)
(* profiles are written at the same time, unless one was written by two    *)
(* requests at once or by one that failed.                                 *)
(***************************************************************************)
THEOREM PreferencesFollowForms == Spec => []PreferencesAreTheLastForm
<1>1. Init => IInv
  BY InitInv
<1>2. IInv /\ [Next]_vars => IInv'
  BY StepInv
<1>3. IInv => PreferencesAreTheLastForm
  BY DEF IInv, PrefsSound, Written, Ind, PreferencesAreTheLastForm
<1>4. QED
  BY <1>1, <1>2, <1>3, PTL DEF Spec

\* What a user has twice, two profiles or two photos, comes from a race or, a
\* photo, from a route that retires none.
THEOREM DoublesAreRaces == Spec => []DoublesOnlyByRace
<1>1. Init => IInv
  BY InitInv
<1>2. IInv /\ [Next]_vars => IInv'
  BY StepInv
<1>3. ASSUME IInv
      PROVE  TwoPhotosOnlyByRace
  <2>1. ASSUME NEW u \in Users, NEW i \in Shown(u), NEW k \in Shown(u), i < k, medias[k].photo
        PROVE  Beside(medias[k].op, medias[k].kind) \/ medias[k].base < i
    <3>1. k \in Live(u) /\ medias[k].photo
      BY <2>1 DEF Shown
    <3>2. i \in Live(u) /\ medias[i].photo
      BY <2>1, <3>1 DEF Shown
    <3>3. i \in DOMAIN medias /\ k \in DOMAIN medias /\ LivePhoto(u, i) /\ LivePhoto(u, k)
      BY <3>1, <3>2 DEF Live, LivePhoto
    <3>4. LivePhoto(medias[k].owner, i) /\ LivePhoto(medias[k].owner, k)
      BY <3>3 DEF LivePhoto
    <3>5. QED
      BY <1>3, <2>1, <3>3, <3>4 DEF IInv, PhotosSound
  <2>2. QED
    BY <2>1 DEF TwoPhotosOnlyByRace
<1>4. IInv => DoublesOnlyByRace
  BY <1>3 DEF IInv, DoublesOnlyByRace
<1>5. QED
  BY <1>1, <1>2, <1>4, PTL DEF Spec

\* Whoever has had a photo is shown one, whatever else is stored or fails.
THEOREM PhotosAreKept == Spec => []PhotoKept
<1>1. Init => IInv
  BY InitInv
<1>2. IInv /\ [Next]_vars => IInv'
  BY StepInv
<1>3. ASSUME NEW u, NEW i \in DOMAIN medias, LivePhoto(u, i)
      PROVE  i \in Shown(u)
  BY <1>3 DEF LivePhoto, Shown, Live
<1>4. IInv => PhotoKept
  BY <1>3 DEF IInv, KeptSound, PhotoKept, LivePhoto
<1>5. QED
  BY <1>1, <1>2, <1>4, PTL DEF Spec

=============================================================================
