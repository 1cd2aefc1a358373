---------------------------- MODULE VaultProofs ----------------------------
(***************************************************************************)
(* Vault.tla for every set of secrets, values, chassis and command lines:  *)
(* its types, and that a calm behaviour implements SecretStore. The        *)
(* inductive invariant says what a process that has loaded the envelope    *)
(* relies on: nobody else is at work, so what it loaded is still there.    *)
(***************************************************************************)
EXTENDS Vault, TLAPS

USE VaultAssumption, ContentAssumption

(* A phrase is never made twice. *)
Known(f) == f \in Env => f.phrase <= mints

(* One process at a time, and the boot service before the others. *)
OneAtATime ==
    /\ \A p, q \in Proc : ~At(p, "idle") /\ ~At(q, "idle") => p = q
    /\ \A p \in Proc : ~At(p, "idle") => (up <=> p # "boot")

(* Plain files and a vault are together only while one becomes the other. *)
Apart ==
    /\ file \in Env /\ (\A p \in Proc : work[p].pc \notin {"migrate", "shred"})
       => plain = Nothing
    /\ ~claimed => file = None /\ plain = Nothing
    /\ media.file \in Env => media.plain = Nothing
    /\ ~media.claimed => media.file = None /\ media.plain = Nothing

Whole == file \in Env \cup {None} /\ media.file \in Env \cup {None}

(* What process p is about to store, against what is there. *)
Due(p) ==
    LET j == work[p].job
        e == work[p].env
    IN /\ e \in Env /\ e.phrase <= mints
       /\ CASE j.kind \in Fresh     -> file = None /\ e.doc = Nothing
            [] j.kind = "unlock"    -> file \in Env /\ e = [file EXCEPT !.seal = hw]
            [] j.kind = "rephrase"  -> /\ file \in Env /\ file.phrase # e.phrase
                                       /\ e = [file EXCEPT !.phrase = e.phrase]
            [] j.kind = "migrate"   -> /\ file \in Env
                                       /\ e.seal = file.seal /\ e.phrase = file.phrase
            [] OTHER                -> file \in Env /\ e = [file EXCEPT !.doc = Doc(j, file.doc)]

Sound(p) ==
    /\ At(p, "migrate") => file \in Env /\ file.doc = Nothing /\ work[p].job.kind = "found"
    /\ At(p, "shred") => /\ work[p].job.kind = "migrate"
                         /\ work[p].env.doc = [n \in Name |-> Kept(file, plain, n)]
    /\ work[p].pc \in {"shred", "open", "write", "rename"} => Due(p)
    /\ work[p].pc \in {"open", "write", "rename"} /\ work[p].job.kind \in {"claim", "migrate"}
       => plain = Nothing
    /\ At(p, "write") => new = Torn /\ work[p].fd = "new"
    /\ At(p, "rename") => new = work[p].env
    /\ At(p, "files") => file \in Env /\ work[p].env = file
    /\ At(p, "save") /\ work[p].job.kind \notin {"rephrase", "note"}
       => file \in Env /\ run = file.doc
    /\ ~At(p, "idle") /\ work[p].job.kind \in Fresh => claimed
    /\ ~At(p, "idle") /\ p \in Cli => work[p].job.kind \notin Fresh

CalmInv == calm => /\ OneAtATime /\ Apart /\ Whole
                   /\ Known(file) /\ Known(media.file)
                   /\ \A p \in Proc : Sound(p)

-----------------------------------------------------------------------------
(* Types. *)

LEMMA IdleType == Idle \in Work /\ Idle.pc = "idle" /\ Idle.job \in Job
  <1>1. \E j \in Job : TRUE
    <2>1. PICK n \in Name, v \in Value : TRUE
      OBVIOUS
    <2>2. [kind |-> "set", name |-> n, value |-> v] \in Job
      BY DEF Job, Kind
    <2> QED BY <2>2
  <1>2. (CHOOSE j \in Job : TRUE) \in Job
    BY <1>1
  <1> QED BY <1>2 DEF Idle, Work

LEMMA TableType == Nothing \in Table
  BY DEF Nothing, Table

LEMMA InitType == Init => TypeOK
  <1> SUFFICES ASSUME Init PROVE TypeOK
    OBVIOUS
  <1>1. file \in Content /\ new \in Content
    BY DEF Init, Content
  <1>2. plain \in Table /\ run \in Table
    BY TableType DEF Init, Table
  <1>3. work \in [Proc -> Work]
    BY IdleType DEF Init
  <1>4. claimed \in BOOLEAN /\ up \in BOOLEAN /\ calm \in BOOLEAN /\ hw \in Chassis
    BY DEF Init
  <1>5. mints \in 0..MaxMint /\ ops \in 0..MaxOps /\ cuts \in 0..MaxCut
    BY DEF Init
  <1> HIDE DEF Work, Content, Table
  <1>6. media \in [file: Content, plain: Table, claimed: BOOLEAN]
    BY <1>1, <1>2, <1>4 DEF Init
  <1> QED BY <1>1, <1>2, <1>3, <1>4, <1>5, <1>6 DEF TypeOK

LEMMA JobsType ==
    ASSUME NEW K \in SUBSET Kind
    PROVE  Jobs(K) \subseteq Job
  <1>1. AnyName \in Name /\ AnyValue \in Value
    BY DEF AnyName, AnyValue
  <1> QED BY <1>1 DEF Jobs, Job

(* What an operation makes of an envelope is an envelope. *)
LEMMA ChangedType ==
    ASSUME TypeOK, NEW j \in Job,
           j.kind \in Fresh \/ file \in Env,
           j.kind \in Fresh \cup {"rephrase"} => mints < MaxMint
    PROVE  Changed(j, file) \in Env
  <1>1. CASE j.kind \in Fresh
    <2>1. mints + 1 \in 1..MaxMint /\ Nothing \in Table /\ hw \in Chassis
      BY <1>1, TableType DEF TypeOK
    <2>2. Changed(j, file) = FreshEnv
      BY <1>1 DEF Changed, Fresh
    <2> QED BY <2>1, <2>2 DEF FreshEnv, Env
  <1>2. CASE j.kind = "unlock"
    <2>1. file \in Env /\ Changed(j, file) = [file EXCEPT !.seal = hw]
      BY <1>2 DEF Changed, Fresh
    <2> QED BY <2>1 DEF Env, TypeOK
  <1>3. CASE j.kind = "rephrase"
    <2>1. mints + 1 \in 1..MaxMint
      BY <1>3 DEF TypeOK
    <2>2. file \in Env /\ Changed(j, file) = [file EXCEPT !.phrase = mints + 1]
      BY <1>3 DEF Changed, Fresh
    <2> QED BY <2>1, <2>2 DEF Env
  <1>4. CASE j.kind \notin Fresh \cup {"unlock", "rephrase"}
    <2>1. file \in Env
      BY <1>4
    <2>4. file.doc \in Table
      BY <2>1 DEF Env
    <2>2. Doc(j, file.doc) \in Table
      BY <2>4 DEF Doc, Moved, Table, Job, TypeOK
    <2>3. Changed(j, file) = [file EXCEPT !.doc = Doc(j, file.doc)]
      BY <1>4 DEF Changed
    <2> QED BY <2>1, <2>2, <2>3 DEF Env
  <1> QED BY <1>1, <1>2, <1>3, <1>4

LEMMA LoadedType ==
    ASSUME TypeOK, NEW p \in Proc, NEW j \in Job, Loaded(p, j)
    PROVE  work' \in [Proc -> Work] /\ mints' \in 0..MaxMint
  <1>1. Changed(j, file) \in Env
    BY ChangedType DEF Loaded, Opens
  <1>2. mints' \in 0..MaxMint
    BY DEF Loaded, TypeOK
  <1>3. \E w \in Work : work' = [work EXCEPT ![p] = w]
    <2> DEFINE e == Changed(j, file)
               same == j.kind = "export" \/ (j.kind = "migrate" /\ e = file)
               w == [pc |-> CASE same -> IF p \in Cli /\ j.kind # "export" THEN "idle" ELSE "export"
                              [] ~same /\ j.kind = "migrate" -> "shred"
                              [] OTHER -> "open",
                     job |-> j, env |-> IF same THEN None ELSE e, fd |-> "shut"]
    <2>1. work' = [work EXCEPT ![p] = w]
      BY DEF Loaded
    <2>2. w.pc \in {"idle", "export", "shred", "open"}
      OBVIOUS
    <2>3. w.env \in Env \cup {None}
      BY <1>1
    <2> HIDE DEF e, same
    <2>4. w \in Work
      BY <2>2, <2>3 DEF Work
    <2> QED BY <2>1, <2>4
  <1> QED BY <1>2, <1>3 DEF TypeOK

LEMMA EndsType ==
    ASSUME TypeOK, NEW p \in Proc, Ends(p)
    PROVE  work' \in [Proc -> Work] /\ up' \in BOOLEAN
  BY IdleType DEF Ends, TypeOK

Pcs == {"idle", "migrate", "shred", "open", "write", "rename", "export", "files", "save"}
Fds == {"shut", "new", "file", "gone"}

(* A process keeps its job, and goes on with an envelope. *)
LEMMA DoingType ==
    ASSUME TypeOK, NEW p \in Proc, NEW pc \in Pcs, NEW e \in Env \cup {None}, NEW f \in Fds,
           pc = "files" => e \in Env
    PROVE  Doing(p, pc, e, f) \in Work
  BY DEF TypeOK, Doing, Work, Pcs, Fds

LEMMA BecomesType ==
    ASSUME TypeOK, NEW p \in Proc, NEW pc \in Pcs, NEW e \in Env \cup {None}, NEW f \in Fds,
           pc = "files" => e \in Env, Becomes(p, pc, e, f)
    PROVE  work' \in [Proc -> Work]
  BY DoingType DEF TypeOK, Becomes

LEMMA GoesType ==
    ASSUME TypeOK, NEW p \in Proc, NEW pc \in {"open", "rename", "save"}, Goes(p, pc)
    PROVE  work' \in [Proc -> Work]
  <1>1. work[p].env \in Env \cup {None} /\ work[p].fd \in Fds
    BY DEF TypeOK, Work, Fds
  <1> QED BY <1>1, BecomesType DEF Goes, Pcs

LEMMA WrittenType ==
    ASSUME NEW old \in Content, NEW e \in Env \cup {None}, NEW c \in Written(old, e)
    PROVE  c \in Content
  BY DEF Written, Content

LEMMA TypeStep == TypeOK /\ [Next]_vars => TypeOK'
  <1> SUFFICES ASSUME TypeOK, [Next]_vars PROVE TypeOK'
    OBVIOUS
  <1> USE DEF TypeOK
  <1>1. CASE BootStarts
    <2>1. [Idle.job EXCEPT !.kind = "export"] \in Job /\ [Idle.job EXCEPT !.kind = "found"] \in Job
      BY IdleType DEF Work, Job, Kind, Fresh
    <2>2. "boot" \in Proc
      BY DEF Proc
    <2> QED BY <1>1, <2>1, <2>2, LoadedType, EndsType DEF BootStarts
  <1>2. ASSUME NEW j \in Jobs(WebKinds), WebStarts(j) PROVE TypeOK'
    <2>1. j \in Job /\ "web" \in Proc
      BY JobsType DEF WebKinds, Proc
    <2>2. ops' \in 0..MaxOps
      BY <1>2 DEF WebStarts
    <2>4. claimed' = TRUE \/ claimed' = claimed
      BY <1>2 DEF WebStarts
    <2>3. work' \in [Proc -> Work] /\ mints' \in 0..MaxMint
      BY <1>2, <2>1, LoadedType DEF WebStarts
    <2> QED BY <1>2, <2>2, <2>3, <2>4 DEF WebStarts
  <1>3. ASSUME NEW p \in Cli, NEW j \in Jobs(CliKinds), CliStarts(p, j) PROVE TypeOK'
    <2>1. j \in Job /\ p \in Proc
      BY JobsType DEF CliKinds, Proc
    <2> QED BY <1>3, <2>1, LoadedType DEF CliStarts
  <1>4. ASSUME NEW p \in Cli, Killed(p) PROVE TypeOK'
    BY <1>4, IdleType DEF Killed, Proc
  <1>5. ASSUME NEW p \in Proc, Migrates(p) PROVE TypeOK'
    <2>1. [work[p].job EXCEPT !.kind = "migrate"] \in Job
      BY DEF Work, Job, Kind
    <2> QED BY <1>5, <2>1, LoadedType, EndsType DEF Migrates
  <1>6. ASSUME NEW p \in Proc, Shreds(p) PROVE TypeOK'
    BY <1>6, GoesType, TableType DEF Shreds
  <1>7. ASSUME NEW p \in Proc, OpensNew(p) PROVE TypeOK'
    <2>1. work[p].env \in Env \cup {None}
      BY DEF Work
    <2>2. work' \in [Proc -> Work]
      BY <1>7, <2>1, BecomesType DEF OpensNew, Pcs, Fds
    <2> QED BY <1>7, <2>2 DEF OpensNew, Content
  <1>8. ASSUME NEW p \in Proc, Writes(p) PROVE TypeOK'
    <2>1. work[p].env \in Env \cup {None}
      BY DEF Work
    <2>2. new' \in Content /\ file' \in Content
      BY <1>8, <2>1, WrittenType DEF Writes
    <2> QED BY <1>8, <2>2, GoesType DEF Writes
  <1>9. ASSUME NEW p \in Proc, Renames(p) PROVE TypeOK'
    <2>1. AfterStore(p) \in {"migrate", "save", "export"}
      BY DEF AfterStore
    <2>2. Relinked \in [Proc -> Work]
      BY DEF Relinked, Work
    <2>3. CASE new # None /\ UNCHANGED up
      <3>1. work' \in [Proc -> Work]
        <4>1. CASE p \in Cli
          BY <1>9, <2>2, <2>3, <4>1, IdleType DEF Renames, Ends
        <4>2. CASE p \notin Cli
          <5>1. Doing(p, AfterStore(p), None, "shut") \in Work
            BY <2>1, DoingType DEF Pcs, Fds
          <5> QED BY <1>9, <2>2, <2>3, <4>2, <5>1 DEF Renames
        <4> QED BY <4>1, <4>2
      <3> QED BY <1>9, <2>3, <3>1 DEF Renames, Content
    <2>4. CASE new = None /\ Ends(p)
      BY <1>9, <2>4, EndsType DEF Renames
    <2> QED BY <1>9, <2>3, <2>4 DEF Renames
  <1>10. ASSUME NEW p \in Proc, Reads(p) PROVE TypeOK'
    <2>1. CASE Ends(p)
      BY <1>10, <2>1, EndsType DEF Reads
    <2>2. CASE file \in Env /\ UNCHANGED up /\ Becomes(p, "files", file, "shut")
      <3>1. work' \in [Proc -> Work]
        BY <2>2, BecomesType DEF Pcs, Fds
      <3> QED BY <1>10, <2>2, <3>1 DEF Reads
    <2> QED BY <1>10, <2>1, <2>2 DEF Reads
  <1>11. ASSUME NEW p \in Proc, Exports(p) PROVE TypeOK'
    <2>1. work[p].env \in Env
      BY <1>11 DEF Exports, At, Work
    <2>2. work[p].env.doc \in Table
      BY <2>1 DEF Env
    <2> QED BY <1>11, <2>2, EndsType, GoesType DEF Exports
  <1>12. ASSUME NEW p \in Proc, Saves(p) PROVE TypeOK'
    BY <1>12, EndsType DEF Saves, Saved
  <1>13. CASE OtherSave
    BY <1>13 DEF OtherSave, Saved
  <1>14. ASSUME NEW c \in Chassis, PowerCut(c) PROVE TypeOK'
    <2>1. media.file \in Content /\ media.plain \in Table /\ media.claimed \in BOOLEAN
      OBVIOUS
    <2>2. work' \in [Proc -> Work]
      BY <1>14, IdleType DEF PowerCut
    <2>3. cuts' \in 0..MaxCut
      BY <1>14 DEF PowerCut
    <2>4. new' \in Content
      BY <1>14 DEF PowerCut, Content
    <2> QED BY <1>14, <2>1, <2>2, <2>3, <2>4, TableType DEF PowerCut
  <1>15. CASE UNCHANGED vars
    BY <1>15 DEF vars
  <1> QED BY <1>1, <1>2, <1>3, <1>4, <1>5, <1>6, <1>7, <1>8, <1>9, <1>10, <1>11, <1>12, <1>13, <1>14, <1>15 DEF Next

(* Every state is of its types, for all instances.                         *)
THEOREM TypeCorrect == Spec => []TypeOK
  BY InitType, TypeStep, PTL DEF Spec

-----------------------------------------------------------------------------
(* The invariant of calm behaviours. *)

LEMMA CalmInit == Init => CalmInv
  <1> SUFFICES ASSUME Init PROVE OneAtATime /\ Apart /\ Whole /\ Known(file) /\ Known(media.file)
                                 /\ \A p \in Proc : Sound(p)
    BY DEF CalmInv
  <1>1. \A p \in Proc : At(p, "idle")
    BY IdleType DEF Init, At
  <1>2. Apart
    BY DEF Init, Apart
  <1> QED BY <1>1, <1>2 DEF Init, OneAtATime, Whole, Known, Sound, At

LEMMA IdleSound ==
    ASSUME NEW q \in Proc, At(q, "idle")'
    PROVE  Sound(q)'
  BY DEF Sound, At

(* The only process at work, before and after its step. *)
LEMMA SoleProcess ==
    ASSUME calm, CalmInv, NEW p \in Proc, ~At(p, "idle")
    PROVE  /\ \A q \in Proc \ {p} : At(q, "idle")
           /\ up <=> p # "boot"
           /\ Sound(p)
  BY DEF CalmInv, OneAtATime

LEMMA StillSole ==
    ASSUME NEW p \in Proc, \A q \in Proc \ {p} : At(q, "idle")',
           ~At(p, "idle")' => (up' <=> p # "boot")
    PROVE  OneAtATime'
  BY DEF OneAtATime

(* A process that loads the envelope while no other is at work. *)
LEMMA LoadedSound ==
    ASSUME TypeOK, calm, CalmInv, NEW p \in Proc, NEW j \in Job, Loaded(p, j),
           \A q \in Proc \ {p} : At(q, "idle"),
           At(p, "idle") \/ (At(p, "migrate") /\ j.kind = "migrate"),
           j.kind \in Fresh => file = None,
           j.kind = "claim" => plain = Nothing,
           j.kind \in Fresh => claimed',
           p \in Cli => j.kind \notin Fresh,
           UNCHANGED <<file, new, plain, media, run, hw>>
    PROVE  /\ \A q \in Proc \ {p} : At(q, "idle")'
           /\ Sound(p)' /\ Known(file)' /\ Known(media.file)'
           /\ file \in Env /\ work'[p].pc \notin {"migrate", "shred"} => plain = Nothing
  <1> DEFINE e == Changed(j, file)
             same == j.kind = "export" \/ (j.kind = "migrate" /\ e = file)
  <1>1. e \in Env
    BY ChangedType DEF Loaded, Opens
  <1>2. \A q \in Proc \ {p} : At(q, "idle")'
    BY DEF Loaded, At, TypeOK
  <1>3. Known(file)' /\ Known(media.file)'
    <2>1. mints \in Nat /\ mints' \in Nat /\ mints <= mints'
      BY DEF Loaded, TypeOK
    <2>2. \A f \in Env : f.phrase \in Nat
      BY DEF Env
    <2> QED BY <2>1, <2>2 DEF CalmInv, Known
  <1>4. work'[p].job = j
    BY DEF Loaded, TypeOK
  <1>5. file \in Env => plain = Nothing \/ (At(p, "migrate") /\ file.doc = Nothing)
    <2>1. CASE At(p, "migrate")
      BY <2>1 DEF CalmInv, Sound
    <2>2. CASE At(p, "idle")
      <3>1. \A q \in Proc : work[q].pc \notin {"migrate", "shred"}
        BY <2>2 DEF At
      <3>2. Apart
        BY DEF CalmInv
      <3>3. file \in Env => plain = Nothing
        BY <3>1, <3>2 DEF Apart
      <3> QED BY <3>3
    <2> QED BY <2>1, <2>2
  <1>6. CASE same
    <2>1. work'[p].pc \in {"idle", "export"}
      BY <1>6 DEF Loaded, TypeOK
    <2>2. file \in Env => plain = Nothing
      <3>1. SUFFICES ASSUME file \in Env, At(p, "migrate"), file.doc = Nothing PROVE plain = Nothing
        BY <1>5
      <3>2. j.kind = "migrate" /\ e = [file EXCEPT !.doc = Moved(file.doc)] /\ e = file
        BY <1>6, <3>1 DEF At, Changed, Fresh, Doc
      <3>3. Moved(file.doc) = Nothing
        BY <3>1, <3>2 DEF Env
      <3>4. \A n \in Name : plain[n] = NoValue
        BY <3>1, <3>3 DEF Moved, Nothing, TypeOK, Table
      <3> QED BY <3>4 DEF Nothing, TypeOK, Table
    <2> QED BY <1>2, <1>3, <2>1, <2>2, <1>4 DEF Sound, At, Fresh
  <1>7. CASE ~same
    <2>1. work'[p] = [pc |-> IF j.kind = "migrate" THEN "shred" ELSE "open",
                      job |-> j, env |-> e, fd |-> "shut"]
      BY <1>7 DEF Loaded, TypeOK
    <2>2. Due(p)'
      <3>1. work'[p].env = e /\ work'[p].job = j
        BY <2>1
      <3>2. CASE j.kind \in Fresh
        <4>1. e = FreshEnv /\ mints' = mints + 1
          BY <3>2 DEF Changed, Fresh, Loaded
        <4>2. e.phrase = mints' /\ e.doc = Nothing /\ mints' \in Nat
          BY <4>1 DEF FreshEnv, TypeOK
        <4>3. file = None
          BY <3>2
        <4> HIDE DEF e
        <4> QED BY <3>1, <3>2, <1>1, <4>2, <4>3 DEF Due, Fresh
      <3>3. CASE j.kind = "unlock"
        <4>1. file \in Env /\ e = [file EXCEPT !.seal = hw] /\ mints' = mints
          BY <3>3 DEF Changed, Fresh, Loaded, Opens
        <4>2. e.phrase <= mints
          BY <4>1 DEF CalmInv, Known, Env
        <4> QED BY <3>1, <3>3, <1>1, <4>1, <4>2 DEF Due, Fresh
      <3>4. CASE j.kind = "rephrase"
        <4>1. file \in Env /\ e = [file EXCEPT !.phrase = mints + 1] /\ mints' = mints + 1
          BY <3>4 DEF Changed, Fresh, Loaded, Opens
        <4>2. e.phrase = mints + 1 /\ file.phrase <= mints /\ file.phrase \in Nat /\ mints \in Nat
          BY <4>1 DEF CalmInv, Known, Env, TypeOK
        <4> QED BY <3>1, <3>4, <1>1, <4>1, <4>2 DEF Due, Fresh
      <3>5. CASE j.kind \notin Fresh \cup {"unlock", "rephrase"}
        <4>1. file \in Env /\ e = [file EXCEPT !.doc = Doc(j, file.doc)] /\ mints' = mints
          BY <3>5 DEF Changed, Fresh, Loaded, Opens
        <4>2. e.phrase = file.phrase /\ e.seal = file.seal
          BY <4>1 DEF Env
        <4>3. e.phrase <= mints
          BY <4>1, <4>2 DEF CalmInv, Known
        <4> QED BY <3>1, <3>5, <1>1, <4>1, <4>2, <4>3 DEF Due, Fresh, Doc
      <3> QED BY <3>2, <3>3, <3>4, <3>5
    <2>3. j.kind = "migrate" => e.doc = [n \in Name |-> Kept(file, plain, n)]
      <3>1. SUFFICES ASSUME j.kind = "migrate" PROVE e.doc = [n \in Name |-> Kept(file, plain, n)]
        OBVIOUS
      <3>2. file \in Env /\ e = [file EXCEPT !.doc = Moved(file.doc)]
        BY <3>1 DEF Loaded, Opens, Changed, Fresh, Doc
      <3> QED BY <3>2 DEF Moved, Kept, Env
    <2>4. j.kind \in {"claim"} => plain = Nothing
      OBVIOUS
    <2>5. file \in Env /\ j.kind # "migrate" => plain = Nothing
      BY <1>5 DEF At
    <2>6. Sound(p)'
      <3> HIDE DEF e, same
      <3> QED BY <2>1, <2>2, <2>3, <2>4 DEF Sound, At, Fresh
    <2> QED BY <1>2, <1>3, <2>1, <2>5, <2>6
  <1> QED BY <1>6, <1>7

LEMMA CalmFrom ==
    ASSUME NEW p \in Proc, \A q \in Proc \ {p} : At(q, "idle")',
           ~At(p, "idle")' => (up' <=> p # "boot"), Sound(p)',
           Apart', Whole', Known(file)', Known(media.file)'
    PROVE  CalmInv'
  <1>1. \A q \in Proc : Sound(q)'
    BY IdleSound
  <1> QED BY <1>1, StillSole DEF CalmInv

LEMMA BootCalm ==
    ASSUME TypeOK, calm, CalmInv, BootStarts
    PROVE  CalmInv'
  <1>1. "boot" \in Proc /\ Idle.job \in Job
    BY IdleType DEF Proc, Work
  <1>2. \A q \in Proc \ {"boot"} : At(q, "idle")
    BY <1>1 DEF BootStarts, CalmInv, OneAtATime
  <1>3. At("boot", "idle") /\ ~up /\ Apart /\ Whole /\ Known(file) /\ Known(media.file)
    BY DEF BootStarts, CalmInv
  <1>4. ASSUME NEW k \in {"export", "found"}, Loaded("boot", [Idle.job EXCEPT !.kind = k]),
               k = "found" => file = None /\ claimed, UNCHANGED up
        PROVE  CalmInv'
    <2> DEFINE j == [Idle.job EXCEPT !.kind = k]
    <2>1. j \in Job /\ j.kind = k
      BY <1>1 DEF Job, Kind, Fresh
    <2>2. UNCHANGED <<file, new, plain, claimed, media, run, hw>>
      BY DEF BootStarts
    <2> HIDE DEF j
    <2>3. /\ \A q \in Proc \ {"boot"} : At(q, "idle")'
          /\ Sound("boot")' /\ Known(file)' /\ Known(media.file)'
      BY <1>1, <1>2, <1>3, <1>4, <2>1, <2>2, LoadedSound DEF Fresh, j
    <2>4. file \in Env /\ work'["boot"].pc \notin {"migrate", "shred"} => plain = Nothing
      BY <1>1, <1>2, <1>3, <1>4, <2>1, <2>2, LoadedSound DEF Fresh, j
    <2>5. Apart' /\ Whole'
      BY <1>1, <1>3, <2>2, <2>4 DEF Apart, Whole
    <2> QED BY <1>1, <1>3, <1>4, <2>3, <2>5, CalmFrom
  <1>5. CASE Ends("boot") /\ UNCHANGED mints
    <2>1. UNCHANGED <<file, new, plain, claimed, media, run, hw>>
      BY DEF BootStarts
    <2>2. \A q \in Proc : At(q, "idle")'
      BY <1>1, <1>2, <1>5, IdleType DEF Ends, At, TypeOK
    <2>3. Apart'
      BY <1>2, <1>3, <2>1 DEF Apart, At
    <2>4. Whole' /\ Known(file)' /\ Known(media.file)'
      BY <1>3, <1>5, <2>1 DEF Whole, Known
    <2>5. Sound("boot")'
      BY <1>1, <2>2, IdleSound
    <2> QED BY <1>1, <2>2, <2>3, <2>4, <2>5, CalmFrom
  <1> QED BY <1>4, <1>5 DEF BootStarts

LEMMA StartCalm ==
    ASSUME TypeOK, calm, CalmInv, NEW p \in Proc \ {"boot"}, NEW j \in Job,
           up, At(p, "idle"), Clear(p), Loaded(p, j),
           j.kind = "found" => claimed /\ file = None,
           j.kind = "claim" => ~claimed /\ claimed' = TRUE,
           j.kind # "claim" => UNCHANGED claimed,
           p \in Cli => j.kind \notin Fresh,
           p \in Cli \/ p = "web",
           UNCHANGED <<file, new, plain, media, run, up, hw>>
    PROVE  CalmInv'
  <1>1. Apart /\ Whole /\ OneAtATime
    BY DEF CalmInv
  <1>2. \A q \in Proc \ {p} : At(q, "idle")
    <2>1. At("boot", "idle")
      BY <1>1 DEF OneAtATime, Proc
    <2> QED BY <2>1 DEF Clear, Quiet, Proc, At
  <1>3. j.kind \in Fresh => file = None
    BY <1>1 DEF Fresh, Apart
  <1>4. j.kind = "claim" => plain = Nothing
    BY <1>1 DEF Apart
  <1>5. /\ \A q \in Proc \ {p} : At(q, "idle")'
        /\ Sound(p)' /\ Known(file)' /\ Known(media.file)'
        /\ file \in Env /\ work'[p].pc \notin {"migrate", "shred"} => plain = Nothing
    <2>1. j.kind \in Fresh => claimed'
      BY DEF Fresh
    <2> QED BY <1>2, <1>3, <1>4, <2>1, LoadedSound
  <1>6. Apart'
    BY <1>1, <1>5 DEF Apart
  <1>7. Whole'
    BY <1>1 DEF Whole
  <1> QED BY <1>5, <1>6, <1>7, CalmFrom

LEMMA KilledCalm ==
    ASSUME TypeOK, calm, CalmInv, NEW p \in Cli, Killed(p)
    PROVE  CalmInv'
  <1>1. p \in Proc /\ ~At(p, "idle") /\ Apart /\ Whole /\ Known(file) /\ Known(media.file)
    BY DEF Killed, Proc, CalmInv
  <1>2. Sound(p) /\ \A q \in Proc \ {p} : At(q, "idle")
    BY <1>1, SoleProcess
  <1>3. \A q \in Proc : At(q, "idle")'
    BY <1>1, <1>2, IdleType DEF Killed, At, TypeOK
  <1>4. work[p].pc \notin {"migrate", "shred"}
    BY <1>1, <1>2 DEF Sound, At, Killed, Fresh
  <1>5. Apart'
    BY <1>1, <1>2, <1>4 DEF Apart, Killed, At
  <1>6. Whole' /\ Known(file)' /\ Known(media.file)' /\ Sound(p)'
    BY <1>1, <1>3, IdleSound DEF Killed, Whole, Known
  <1> QED BY <1>1, <1>3, <1>5, <1>6, CalmFrom

LEMMA MigratesCalm ==
    ASSUME TypeOK, calm, CalmInv, NEW p \in Proc, Migrates(p)
    PROVE  CalmInv'
  <1> DEFINE j == [work[p].job EXCEPT !.kind = "migrate"]
  <1>1. At(p, "migrate") /\ Loaded(p, j)
        /\ UNCHANGED <<up, file, new, plain, claimed, media, run, hw>>
    BY DEF Migrates
  <1>2. j \in Job /\ j.kind = "migrate"
    BY DEF TypeOK, Work, Job, Kind
  <1>3. Sound(p) /\ (up <=> p # "boot") /\ \A q \in Proc \ {p} : At(q, "idle")
    BY <1>1, SoleProcess DEF At
  <1> HIDE DEF j
  <1>4. /\ \A q \in Proc \ {p} : At(q, "idle")'
        /\ Sound(p)' /\ Known(file)' /\ Known(media.file)'
        /\ file \in Env /\ work'[p].pc \notin {"migrate", "shred"} => plain = Nothing
    BY <1>1, <1>2, <1>3, LoadedSound DEF Fresh
  <1>5. Apart' /\ Whole'
    BY <1>1, <1>4 DEF CalmInv, Apart, Whole
  <1> QED BY <1>1, <1>3, <1>4, <1>5, CalmFrom

(* The steps between the load and the rename. *)
LEMMA WritingCalm ==
    ASSUME TypeOK, calm, CalmInv, NEW p \in Proc, Shreds(p) \/ OpensNew(p) \/ Writes(p)
    PROVE  CalmInv'
  <1>1. ~At(p, "idle") /\ Apart /\ Whole /\ Known(file) /\ Known(media.file)
    BY DEF Shreds, OpensNew, Writes, At, CalmInv
  <1>2. Sound(p) /\ (up <=> p # "boot") /\ \A q \in Proc \ {p} : At(q, "idle")
    BY <1>1, SoleProcess
  <1>3. Due(p) /\ work[p].pc \in {"shred", "open", "write"}
    BY <1>2 DEF Sound, Shreds, OpensNew, Writes, At
  <1>4. UNCHANGED <<file, claimed, media, run, up, hw, calm, mints>>
    BY <1>2 DEF Shreds, OpensNew, Writes, At, Sound
  <1>5. \A q \in Proc \ {p} : At(q, "idle")'
    BY <1>2 DEF Shreds, OpensNew, Writes, Goes, Becomes, At, TypeOK
  <1>6. work'[p].job = work[p].job /\ work'[p].env = work[p].env
    <2>1. \E pc, f : Becomes(p, pc, work[p].env, f)
      BY DEF Shreds, OpensNew, Writes, Goes
    <2> QED BY <2>1 DEF Becomes, Doing, TypeOK
  <1>7. Due(p)'
    BY <1>3, <1>4, <1>6 DEF Due, Doc
  <1>8. CASE Shreds(p)
    <2>1. plain' = Nothing /\ At(p, "open")' /\ At(p, "shred")
      BY <1>8 DEF Shreds, Goes, Becomes, Doing, At, TypeOK
    <2>2. Sound(p)'
      BY <1>2, <1>4, <1>6, <1>7, <2>1 DEF Sound, At
    <2>3. Apart' /\ Whole' /\ Known(file)' /\ Known(media.file)'
      BY <1>1, <1>4, <2>1 DEF Apart, Whole, Known
    <2> QED BY <1>2, <1>4, <1>5, <2>2, <2>3, CalmFrom
  <1>9. CASE OpensNew(p)
    <2>1. plain' = plain /\ new' = Torn /\ At(p, "open") /\ At(p, "write")' /\ work'[p].fd = "new"
      BY <1>9 DEF OpensNew, Becomes, Doing, At, TypeOK
    <2>2. Sound(p)'
      BY <1>2, <1>4, <1>6, <1>7, <2>1 DEF Sound, At
    <2>3. Apart' /\ Whole' /\ Known(file)' /\ Known(media.file)'
      BY <1>1, <1>2, <1>4, <2>1 DEF Apart, Whole, Known, At
    <2> QED BY <1>2, <1>4, <1>5, <2>2, <2>3, CalmFrom
  <1>10. CASE Writes(p)
    <2>1. plain' = plain /\ At(p, "write") /\ At(p, "rename")'
      BY <1>10 DEF Writes, Goes, Becomes, Doing, At, TypeOK
    <2>2. new' = work[p].env
      BY <1>2, <1>10, <2>1 DEF Writes, Sound, Written
    <2>3. Sound(p)'
      BY <1>2, <1>4, <1>6, <1>7, <2>1, <2>2 DEF Sound, At
    <2>4. Apart' /\ Whole' /\ Known(file)' /\ Known(media.file)'
      BY <1>1, <1>2, <1>4, <2>1 DEF Apart, Whole, Known, At
    <2> QED BY <1>2, <1>4, <1>5, <2>3, <2>4, CalmFrom
  <1> QED BY <1>8, <1>9, <1>10

(* What is due, once renamed, keeps plain files and vault apart. *)
LEMMA RenamesCalm ==
    ASSUME TypeOK, calm, CalmInv, NEW p \in Proc, Renames(p)
    PROVE  CalmInv'
  <1> DEFINE e == work[p].env
             j == work[p].job
  <1>1. At(p, "rename") /\ Apart /\ Whole /\ Known(file) /\ Known(media.file)
    BY DEF Renames, CalmInv
  <1>2. Sound(p) /\ (up <=> p # "boot") /\ \A q \in Proc \ {p} : At(q, "idle")
    BY <1>1, SoleProcess DEF At
  <1>3. Due(p) /\ new = e /\ e \in Env /\ new # None
    BY <1>1, <1>2 DEF Sound, Due, At
  <1>4. file' = e /\ UNCHANGED <<plain, claimed, media, run, hw, calm, mints, up>>
    BY <1>3 DEF Renames
  <1>5. work'[p] = IF p \in Cli THEN Idle ELSE Doing(p, AfterStore(p), None, "shut")
    BY <1>3 DEF Renames, Relinked
  <1>6. \A q \in Proc \ {p} : At(q, "idle")'
    <2>1. \A q \in Proc : Relinked[q].pc = work[q].pc
      BY DEF Relinked, TypeOK, Work
    <2>2. \A q \in Proc \ {p} : work'[q] = Relinked[q]
      BY <1>3 DEF Renames, Relinked
    <2> QED BY <1>2, <2>1, <2>2 DEF At
  <1>7. Whole' /\ Known(file)' /\ Known(media.file)'
    BY <1>1, <1>3, <1>4 DEF Whole, Known, Due
  <1>8. j.kind # "found" => plain = Nothing
    <2>1. file \in Env => plain = Nothing
      BY <1>1, <1>2 DEF Apart, At
    <2> QED BY <1>1, <1>2, <1>3, <2>1 DEF Sound, Due, At, Fresh
  <1>9. claimed \/ plain = Nothing
    BY <1>8, <1>1, <1>2 DEF Sound, At, Fresh
  <1>10. ~At(p, "idle")' => p \notin Cli /\ work'[p] = Doing(p, AfterStore(p), None, "shut")
    BY <1>5, IdleType DEF At
  <1>11. Sound(p)'
    <2>1. CASE At(p, "idle")'
      BY <2>1, IdleSound
    <2>2. CASE ~At(p, "idle")'
      <3>1. work'[p].pc = AfterStore(p) /\ work'[p].job = j /\ p \notin Cli
        BY <1>10, <2>2 DEF Doing
      <3>2. j.kind = "found" => e.doc = Nothing
        BY <1>3 DEF Due, Fresh
      <3>3. AfterStore(p) \in {"migrate", "save", "export"}
            /\ (AfterStore(p) = "migrate" <=> j.kind = "found")
            /\ (AfterStore(p) = "save" => j.kind \in {"rephrase", "note"})
        BY DEF AfterStore
      <3>4. j.kind \in Fresh => claimed
        BY <1>1, <1>2 DEF Sound, At
      <3> HIDE DEF e, j
      <3> QED BY <3>1, <3>2, <3>3, <3>4, <1>3, <1>4 DEF Sound, At
    <2> QED BY <2>1, <2>2
  <1>12. Apart'
    <2>1. (\A q \in Proc : work'[q].pc \notin {"migrate", "shred"}) => plain = Nothing
      <3>1. j.kind = "found" => p \notin Cli
        BY <1>1, <1>2 DEF Sound, At, Fresh
      <3>2. j.kind = "found" => work'[p].pc = "migrate"
        BY <1>5, <3>1 DEF Doing, AfterStore
      <3> QED BY <1>8, <3>2
    <2>2. ~claimed => FALSE
      <3>1. ~claimed => file = None /\ plain = Nothing
        BY <1>1 DEF Apart
      <3>2. file = None => j.kind \in Fresh
        BY <1>3 DEF Due
      <3> QED BY <3>1, <3>2, <1>1, <1>2 DEF Sound, At, Fresh
    <2> QED BY <1>1, <1>3, <1>4, <2>1, <2>2 DEF Apart
  <1> QED BY <1>2, <1>4, <1>6, <1>7, <1>11, <1>12, CalmFrom

(* The steps after the rename: none touches the envelope. *)
LEMMA ServingCalm ==
    ASSUME TypeOK, calm, CalmInv, NEW p \in Proc, Reads(p) \/ Exports(p) \/ Saves(p)
    PROVE  CalmInv'
  <1>1. ~At(p, "idle") /\ Apart /\ Whole /\ Known(file) /\ Known(media.file)
    BY DEF Reads, Exports, Saves, At, CalmInv
  <1>2. Sound(p) /\ (up <=> p # "boot") /\ \A q \in Proc \ {p} : At(q, "idle")
    BY <1>1, SoleProcess
  <1>3. UNCHANGED <<file, new, plain, claimed, hw, calm, mints>>
    BY DEF Reads, Exports, Saves
  <1>4. (\E pc, e, f : Becomes(p, pc, e, f)) \/ Ends(p)
    BY DEF Reads, Exports, Saves, Goes
  <1>5. \A q \in Proc \ {p} : At(q, "idle")'
    BY <1>2, <1>4 DEF Becomes, Ends, At, TypeOK
  <1>6. work[p].pc \notin {"migrate", "shred"}
    BY DEF Reads, Exports, Saves, At
  <1>7. file \in Env => plain = Nothing
    BY <1>1, <1>2, <1>6 DEF Apart, At
  <1>8. media' = media \/ media' = Saved
    BY DEF Reads, Exports, Saves
  <1>9. Apart' /\ Whole' /\ Known(file)' /\ Known(media.file)'
    BY <1>1, <1>3, <1>7, <1>8 DEF Apart, Whole, Known, Saved
  <1>10. CASE Ends(p)
    <2>1. At(p, "idle")'
      BY <1>10, IdleType DEF Ends, At, TypeOK
    <2> QED BY <1>5, <1>9, <2>1, IdleSound, CalmFrom
  <1>11. CASE UNCHANGED up /\ Becomes(p, "files", file, "shut") /\ file \in Env
    <2>1. work'[p].pc = "files" /\ work'[p].env = file /\ work'[p].job = work[p].job
      BY <1>11 DEF Becomes, Doing, TypeOK
    <2>2. Sound(p)'
      BY <1>1, <1>2, <1>3, <1>11, <2>1 DEF Sound, At
    <2> QED BY <1>2, <1>5, <1>9, <1>11, <2>2, CalmFrom
  <1>12. CASE Exports(p) /\ UNCHANGED up /\ Goes(p, "save")
    <2>1. work'[p].pc = "save" /\ work'[p].job = work[p].job
      BY <1>12 DEF Goes, Becomes, Doing, TypeOK
    <2>2. file \in Env /\ run' = file.doc
      BY <1>2, <1>12 DEF Exports, Sound
    <2>3. Sound(p)'
      BY <1>1, <1>2, <1>3, <2>1, <2>2 DEF Sound, At
    <2> QED BY <1>2, <1>5, <1>9, <1>12, <2>3, CalmFrom
  <1> QED BY <1>10, <1>11, <1>12 DEF Reads, Exports, Saves

LEMMA OtherSaveCalm ==
    ASSUME TypeOK, calm, CalmInv, OtherSave
    PROVE  CalmInv'
  <1>1. /\ OneAtATime /\ Apart /\ Whole /\ Known(file) /\ Known(media.file)
        /\ \A p \in Proc : Sound(p)
    BY DEF CalmInv
  <1>2. media' = Saved /\ UNCHANGED <<file, new, plain, claimed, run, work, up, hw, calm, mints>>
    BY DEF OtherSave
  <1>3. \A p \in Proc : work[p].pc \notin {"migrate", "shred"}
    BY <1>1 DEF OtherSave, Migrating, Sound, At
  <1>4. Apart'
    BY <1>1, <1>2, <1>3 DEF Apart, Saved
  <1>5. Whole' /\ Known(file)' /\ Known(media.file)'
    BY <1>1, <1>2 DEF Whole, Known, Saved
  <1>6. OneAtATime'
    BY <1>1, <1>2 DEF OneAtATime, At
  <1>7. ASSUME NEW p \in Proc PROVE Sound(p)'
    <2>1. Due(p)' <=> Due(p)
      BY <1>2 DEF Due, Doc, Moved
    <2> QED BY <1>1, <1>2, <2>1 DEF Sound, At, Kept
  <1> QED BY <1>4, <1>5, <1>6, <1>7 DEF CalmInv

LEMMA CutCalm ==
    ASSUME TypeOK, calm, CalmInv, NEW c \in Chassis, PowerCut(c)
    PROVE  CalmInv'
  <1>1. "boot" \in Proc /\ Apart /\ Whole /\ Known(media.file)
    BY DEF Proc, CalmInv
  <1>2. \A q \in Proc : At(q, "idle")'
    BY IdleType DEF PowerCut, At
  <1>3. Apart' /\ Whole' /\ Known(file)' /\ Known(media.file)'
    BY <1>1 DEF PowerCut, Apart, Whole, Known
  <1> QED BY <1>1, <1>2, <1>3, IdleSound, CalmFrom

LEMMA CalmStep == TypeOK /\ CalmInv /\ [Next]_vars => CalmInv'
  <1> SUFFICES ASSUME TypeOK, CalmInv, [Next]_vars, calm' PROVE CalmInv'
    BY DEF CalmInv
  <1>1. calm
    BY DEF Next, vars, BootStarts, WebStarts, CliStarts, Killed, Migrates, Shreds, OpensNew, Writes,
           Renames, Reads, Exports, Saves, OtherSave, PowerCut
  <1>2. CASE BootStarts
    BY <1>1, <1>2, BootCalm
  <1>3. ASSUME NEW j \in Jobs(WebKinds), WebStarts(j) PROVE CalmInv'
    <2>1. j \in Job /\ "web" \in Proc \ {"boot"} /\ "web" \notin Cli
      BY JobsType DEF WebKinds, Proc
    <2>2. UNCHANGED <<file, new, plain, media, run, up, hw>> /\ up /\ At("web", "idle")
          /\ Clear("web") /\ Loaded("web", j)
      BY <1>3 DEF WebStarts
    <2>3. /\ j.kind = "found" => claimed /\ file = None
          /\ j.kind = "claim" => ~claimed /\ claimed' = TRUE
          /\ j.kind # "claim" => UNCHANGED claimed
      BY <1>3 DEF WebStarts
    <2> QED BY <1>1, <2>1, <2>2, <2>3, StartCalm
  <1>4. ASSUME NEW p \in Cli, NEW j \in Jobs(CliKinds), CliStarts(p, j) PROVE CalmInv'
    <2>1. j \in Job /\ p \in Proc \ {"boot"} /\ j.kind \notin Fresh
      BY <1>1, <1>4, JobsType DEF CliKinds, CliStarts, Proc
    <2>2. UNCHANGED <<file, new, plain, claimed, media, run, up, hw>> /\ up /\ At(p, "idle")
          /\ Clear(p) /\ Loaded(p, j)
      BY <1>4 DEF CliStarts
    <2> QED BY <1>1, <2>1, <2>2, StartCalm DEF Fresh
  <1>5. ASSUME NEW p \in Cli, Killed(p) PROVE CalmInv'
    BY <1>1, <1>5, KilledCalm
  <1>6. ASSUME NEW p \in Proc, \/ Migrates(p) \/ Shreds(p) \/ OpensNew(p) \/ Writes(p)
                               \/ Renames(p) \/ Reads(p) \/ Exports(p) \/ Saves(p)
        PROVE  CalmInv'
    BY <1>1, <1>6, MigratesCalm, WritingCalm, RenamesCalm, ServingCalm
  <1>7. CASE OtherSave
    BY <1>1, <1>7, OtherSaveCalm
  <1>8. ASSUME NEW c \in Chassis, PowerCut(c) PROVE CalmInv'
    BY <1>1, <1>8, CutCalm
  <1>9. CASE UNCHANGED vars
    <2>1. ASSUME NEW p \in Proc PROVE Sound(p)' <=> Sound(p)
      BY <1>9 DEF vars, Sound, Due, At, Doc, Moved, Kept
    <2> QED BY <1>9, <2>1 DEF vars, CalmInv, OneAtATime, Apart, Whole, Known, At
  <1> QED BY <1>2, <1>3, <1>4, <1>5, <1>6, <1>7, <1>8, <1>9 DEF Next

LEMMA CalmInvariant == Spec => [](TypeOK /\ CalmInv)
  BY InitType, TypeStep, CalmInit, CalmStep, PTL DEF Spec

(* In a calm behaviour a request that comes to its save has exported what  *)
(* the envelope holds: nobody changed it since (vault.py:422).             *)
THEOREM ExportsCurrentCorrect == Spec => []ExportsCurrent
  <1>1. CalmInv => ExportsCurrent
    BY DEF CalmInv, Sound, ExportsCurrent
  <1> QED BY <1>1, CalmInvariant, PTL

(* In a calm behaviour no save puts a secret in the clear beside a vault   *)
(* (pipeos-vault:55).                                                      *)
THEOREM SealedMediaCorrect == Spec => []SealedMedia
  <1>1. CalmInv => SealedMedia
    BY DEF CalmInv, Apart, SealedMedia
  <1> QED BY <1>1, CalmInvariant, PTL

-----------------------------------------------------------------------------
(* A calm behaviour implements SecretStore. *)

KeptTable(f, t) == [n \in Name |-> Kept(f, t, n)]

LEMMA HoldsKept == InFlight = {} => Holds = KeptTable(file, plain)
  BY DEF Holds, KeptTable

LEMMA HoldsKeptNext == InFlight' = {} => Holds' = KeptTable(file', plain')
  BY DEF Holds, KeptTable, Kept

LEMMA HoldsFlying ==
    ASSUME NEW p \in Proc, InFlight = {p}
    PROVE  Holds = work[p].env.doc
  BY DEF Holds

LEMMA HoldsFlyingNext ==
    ASSUME NEW p \in Proc, InFlight' = {p}
    PROVE  Holds' = work'[p].env.doc
  BY DEF Holds

(* What the mapped variables are while a behaviour is calm. *)
LEMMA Mapped ==
    ASSUME calm, calm'
    PROVE  /\ Store!store = <<Holds, Phrase(file), Home(file),
                 [secret |-> KeptTable(media.file, media.plain),
                  phrase |-> Phrase(media.file), home |-> Home(media.file)]>>
           /\ Store!store' = <<Holds', Phrase(file'), Home(file'),
                 [secret |-> KeptTable(media'.file, media'.plain),
                  phrase |-> Phrase(media'.file), home |-> Home(media'.file)]>>
  BY DEF Store!store, KeptTable, Phrase, Home, Kept

LEMMA Stutters ==
    ASSUME calm, calm', Holds' = Holds, UNCHANGED <<file, media>>
    PROVE  UNCHANGED Store!store
  BY Mapped

(* The steps that neither store nor save. *)
LEMMA QuietStep ==
    ASSUME TypeOK, calm, calm', InFlight = {}, InFlight' = {}, UNCHANGED <<file, plain, media>>
    PROVE  UNCHANGED Store!store
  BY HoldsKept, HoldsKeptNext, Stutters

LEMMA LoadedFlight ==
    ASSUME TypeOK, NEW p \in Proc, NEW j \in Job, Loaded(p, j), InFlight = {}
    PROVE  InFlight' = {}
  <1>1. work'[p].job = j /\ (j.kind = "migrate" => work'[p].pc \notin {"open", "write", "rename"})
    BY DEF Loaded, TypeOK
  <1>2. \A q \in Proc \ {p} : work'[q] = work[q]
    BY DEF Loaded, TypeOK
  <1> QED BY <1>1, <1>2 DEF InFlight

LEMMA EndsFlight ==
    ASSUME TypeOK, NEW p \in Proc, Ends(p), InFlight = {}
    PROVE  InFlight' = {}
  BY IdleType DEF Ends, InFlight, TypeOK

(* Nobody else at work: what is in flight is that process's, or nothing.   *)
LEMMA SoleFlight ==
    ASSUME NEW p \in Proc, \A q \in Proc \ {p} : At(q, "idle")
    PROVE  InFlight = IF work[p].job.kind = "migrate" /\ work[p].pc \in {"open", "write", "rename"}
                      THEN {p} ELSE {}
  BY DEF InFlight, At

LEMMA SoleFlightNext ==
    ASSUME NEW p \in Proc, \A q \in Proc \ {p} : At(q, "idle")'
    PROVE  InFlight' = IF work'[p].job.kind = "migrate" /\ work'[p].pc \in {"open", "write", "rename"}
                       THEN {p} ELSE {}
  BY DEF InFlight, At

LEMMA SaveMaps ==
    ASSUME calm, calm', InFlight = {}, InFlight' = {}, media' = Saved, UNCHANGED <<file, plain>>
    PROVE  Store!Save
  <1>1. Holds = KeptTable(file, plain) /\ Holds' = Holds
    BY HoldsKept, HoldsKeptNext
  <1> QED BY <1>1 DEF Store!Save, Saved, KeptTable, Phrase, Home, Kept

LEMMA CutMaps ==
    ASSUME calm, calm', NEW c \in Chassis, PowerCut(c)
    PROVE  Store!Cut
  <1>1. InFlight' = {}
    BY IdleType DEF PowerCut, InFlight
  <1>2. Holds' = KeptTable(media.file, media.plain)
    BY <1>1, HoldsKeptNext DEF PowerCut
  <1> QED BY <1>2 DEF Store!Cut, PowerCut, KeptTable, Phrase, Home, Kept

(* A step of a process that is not in flight to the store. *)
LEMMA MovesMap ==
    ASSUME TypeOK, calm, calm', CalmInv, NEW p \in Proc,
           Migrates(p) \/ Shreds(p) \/ OpensNew(p) \/ Writes(p) \/ Reads(p) \/ Exports(p)
    PROVE  UNCHANGED Store!store
  <1>1. ~At(p, "idle")
    BY DEF Migrates, Shreds, OpensNew, Writes, Reads, Exports, At
  <1>2. Sound(p) /\ \A q \in Proc \ {p} : At(q, "idle")
    BY <1>1, SoleProcess
  <1>3. CASE Migrates(p)
    <2>1. [work[p].job EXCEPT !.kind = "migrate"] \in Job
      BY DEF TypeOK, Work, Job, Kind
    <2>2. InFlight = {}
      BY <1>2, <1>3, SoleFlight DEF Migrates, At
    <2>3. InFlight' = {} /\ UNCHANGED <<file, plain, media>>
      BY <1>3, <2>1, <2>2, LoadedFlight, EndsFlight DEF Migrates
    <2> QED BY <2>2, <2>3, QuietStep
  <1>4. CASE Reads(p) \/ Exports(p)
    <2>1. InFlight = {}
      BY <1>2, <1>4, SoleFlight DEF Reads, Exports, At
    <2>2. Ends(p) \/ \E pc \in {"files", "save"} : \E e, f : Becomes(p, pc, e, f)
      BY <1>4 DEF Reads, Exports, Goes
    <2>3. ASSUME NEW pc \in {"files", "save"}, NEW e, NEW f, Becomes(p, pc, e, f)
          PROVE  InFlight' = {}
      BY <2>1, <2>3 DEF Becomes, Doing, InFlight, TypeOK
    <2>4. InFlight' = {} /\ UNCHANGED <<file, plain, media>>
      BY <1>4, <2>1, <2>2, <2>3, EndsFlight DEF Reads, Exports
    <2> QED BY <2>1, <2>4, QuietStep
  <1>5. CASE Shreds(p) \/ OpensNew(p) \/ Writes(p)
    <2>1. \E pc \in {"open", "write", "rename"} : \E f : Becomes(p, pc, work[p].env, f)
      BY <1>5 DEF Shreds, OpensNew, Writes, Goes
    <2>2. /\ work'[p].job = work[p].job /\ work'[p].env = work[p].env
          /\ work'[p].pc \in {"open", "write", "rename"}
          /\ \A q \in Proc \ {p} : At(q, "idle")'
      BY <1>2, <2>1 DEF Becomes, Doing, TypeOK, At
    <2>3. UNCHANGED <<file, media>>
      BY <1>2, <1>5 DEF Shreds, OpensNew, Writes, Sound
    <2>4. Holds' = Holds
      <3>1. CASE work[p].job.kind # "migrate"
        <4>1. InFlight = {} /\ InFlight' = {}
          BY <1>2, <2>2, <3>1, SoleFlight, SoleFlightNext
        <4>2. UNCHANGED plain
          BY <1>2, <1>5, <3>1 DEF Shreds, OpensNew, Writes, Sound
        <4> QED BY <2>3, <4>1, <4>2, HoldsKept, HoldsKeptNext
      <3>2. CASE work[p].job.kind = "migrate"
        <4>1. InFlight' = {p}
          BY <2>2, <3>2, SoleFlightNext
        <4>2. Holds' = work[p].env.doc
          BY <2>2, <4>1, HoldsFlyingNext
        <4>3. CASE Shreds(p)
          <5>1. InFlight = {} /\ At(p, "shred")
            BY <1>2, <4>3, SoleFlight DEF Shreds, At
          <5> QED BY <1>2, <4>2, <5>1, HoldsKept DEF Sound, KeptTable
        <4>4. CASE OpensNew(p) \/ Writes(p)
          <5>1. InFlight = {p}
            BY <1>2, <3>2, <4>4, SoleFlight DEF OpensNew, Writes, At
          <5> QED BY <4>2, <5>1, HoldsFlying
        <4> QED BY <1>5, <4>3, <4>4
      <3> QED BY <3>1, <3>2
    <2> QED BY <2>3, <2>4, Stutters
  <1> QED BY <1>3, <1>4, <1>5

(* The rename is where the store changes, by what the operation was. *)
LEMMA RenamesMap ==
    ASSUME TypeOK, calm, calm', CalmInv, NEW p \in Proc, Renames(p)
    PROVE  [Store!Next]_Store!store
  <1> DEFINE e == work[p].env
             j == work[p].job
  <1>1. At(p, "rename") /\ ~At(p, "idle")
    BY DEF Renames, At
  <1>2. Sound(p) /\ \A q \in Proc \ {p} : At(q, "idle")
    BY <1>1, SoleProcess
  <1>3. Due(p) /\ new = e /\ e \in Env /\ new # None
    BY <1>1, <1>2 DEF Sound, Due, At
  <1>4. file' = e /\ UNCHANGED <<plain, media>>
    BY <1>3 DEF Renames
  <1>5. j \in Job
    BY DEF TypeOK, Work
  <1>6. e.doc \in Table /\ e.phrase \in 1..MaxMint /\ e.seal \in Chassis
    BY <1>3 DEF Env
  <1>7. InFlight' = {}
    <2>1. \A q \in Proc : Relinked[q].pc = work[q].pc
      BY DEF Relinked, TypeOK, Work
    <2>2. \A q \in Proc \ {p} : work'[q].pc = "idle"
      BY <1>2, <1>3, <2>1 DEF Renames, Relinked, At
    <2>3. work'[p].pc \notin {"open", "write", "rename"}
      BY <1>3, IdleType DEF Renames, Relinked, Doing, AfterStore
    <2> QED BY <2>2, <2>3 DEF InFlight
  <1>8. Holds' = KeptTable(e, plain)
    BY <1>4, <1>7, HoldsKeptNext
  <1>9. UNCHANGED [secret |-> KeptTable(media.file, media.plain),
                   phrase |-> Phrase(media.file), home |-> Home(media.file)]
    BY <1>4 DEF KeptTable, Kept, Phrase, Home
  <1>10. Phrase(e) = e.phrase /\ Home(e) = e.seal /\ Phrase(file') = Phrase(e) /\ Home(file') = Home(e)
    BY <1>3, <1>4 DEF Phrase, Home
  <1>11. CASE j.kind \in Fresh
    <2>1. file = None /\ e.doc = Nothing
      BY <1>3, <1>11 DEF Due, Fresh
    <2>2. Holds = KeptTable(file, plain)
      BY <1>2, <1>11, SoleFlight, HoldsKept DEF Fresh
    <2>3. Holds' = Holds
      BY <1>3, <1>8, <2>1, <2>2 DEF KeptTable, Kept, Nothing
    <2>4. Store!Found(e.phrase, e.seal)
      BY <1>9, <1>10, <2>1, <2>3 DEF Store!Found, Phrase, Home, KeptTable, Kept
    <2> QED BY <1>6, <2>4 DEF Store!Next
  <1>12. CASE j.kind = "migrate"
    <2>1. plain = Nothing /\ file \in Env /\ e.seal = file.seal /\ e.phrase = file.phrase
      BY <1>1, <1>2, <1>3, <1>12 DEF Sound, Due, At, Fresh
    <2>2. Holds = e.doc
      BY <1>1, <1>2, <1>12, SoleFlight, HoldsFlying DEF At
    <2>3. KeptTable(e, plain) = e.doc
      BY <1>3, <1>6, <2>1 DEF KeptTable, Kept, Nothing, Table
    <2>4. Holds' = Holds /\ Phrase(file') = Phrase(file) /\ Home(file') = Home(file)
      BY <1>8, <1>10, <2>1, <2>2, <2>3 DEF Phrase, Home
    <2> QED BY <1>4, <2>4, Mapped
  <1>13. CASE j.kind \notin Fresh \cup {"migrate"}
    <2>1. file \in Env
      BY <1>3, <1>13 DEF Due
    <2>2. plain = Nothing
      <3>1. \A q \in Proc : work[q].pc \notin {"migrate", "shred"}
        BY <1>1, <1>2 DEF At
      <3> QED BY <2>1, <3>1 DEF CalmInv, Apart
    <2>3. file.doc \in Table
      BY <2>1 DEF Env
    <2>4. Holds = file.doc
      <3>1. Holds = KeptTable(file, plain)
        BY <1>2, <1>13, SoleFlight, HoldsKept
      <3> QED BY <2>1, <2>2, <2>3, <3>1 DEF KeptTable, Kept, Nothing, Table
    <2>5. Holds' = e.doc
      BY <1>3, <1>6, <1>8, <2>2 DEF KeptTable, Kept, Nothing, Table
    <2>6. Phrase(file) = file.phrase /\ Home(file) = file.seal
      BY <2>1 DEF Phrase, Home
    <2>7. CASE j.kind = "unlock"
      <3>1. e = [file EXCEPT !.seal = hw]
        BY <1>3, <2>7 DEF Due, Fresh
      <3>2. e.doc = file.doc /\ e.phrase = file.phrase
        BY <2>1, <3>1 DEF Env
      <3>3. Store!Rehome(e.seal)
        BY <1>9, <1>10, <2>4, <2>5, <2>6, <3>2 DEF Store!Rehome, Phrase, Home, KeptTable, Kept
      <3> QED BY <1>6, <3>3 DEF Store!Next
    <2>8. CASE j.kind = "rephrase"
      <3>1. file.phrase # e.phrase /\ e = [file EXCEPT !.phrase = e.phrase]
        BY <1>3, <2>8 DEF Due, Fresh
      <3>2. e.doc = file.doc /\ e.seal = file.seal
        BY <2>1, <3>1 DEF Env
      <3>3. Store!Rephrase(e.phrase)
        BY <1>9, <1>10, <2>4, <2>5, <2>6, <3>1, <3>2 DEF Store!Rephrase, Phrase, Home, KeptTable, Kept
      <3> QED BY <1>6, <3>3 DEF Store!Next
    <2>9. CASE j.kind \notin {"unlock", "rephrase"}
      <3>1. e = [file EXCEPT !.doc = Doc(j, file.doc)]
        BY <1>3, <1>13, <2>9 DEF Due, Fresh
      <3>2. e.doc = Doc(j, file.doc) /\ e.seal = file.seal /\ e.phrase = file.phrase
        BY <2>1, <3>1 DEF Env
      <3>3. file.phrase # None
        BY <2>1 DEF Env
      <3>4. CASE j.kind = "set"
        <4>1. Store!Put(j.name, j.value)
          BY <1>9, <1>10, <2>4, <2>5, <2>6, <3>2, <3>3, <3>4
          DEF Doc, Store!Put, Phrase, Home, KeptTable, Kept
        <4> QED BY <1>5, <4>1 DEF Store!Next, Job
      <3>5. CASE j.kind = "del"
        <4>1. Store!Forget(j.name)
          BY <1>9, <1>10, <2>4, <2>5, <2>6, <3>2, <3>3, <3>5
          DEF Doc, Store!Forget, Store!Put, Phrase, Home, KeptTable, Kept
        <4> QED BY <1>5, <4>1 DEF Store!Next, Job
      <3>6. CASE j.kind \notin {"set", "del"}
        <4>1. Holds' = Holds
          BY <1>13, <2>4, <2>5, <3>2, <3>6 DEF Doc
        <4> QED BY <1>4, <1>10, <2>6, <3>2, <4>1, Mapped
      <3> QED BY <3>4, <3>5, <3>6
    <2> QED BY <2>7, <2>8, <2>9
  <1> QED BY <1>11, <1>12, <1>13

LEMMA InitMaps == Init => Store!Init
  <1> SUFFICES ASSUME Init PROVE Store!Init
    OBVIOUS
  <1>1. InFlight = {}
    BY IdleType DEF Init, InFlight
  <1>2. Holds = KeptTable(file, plain) /\ Holds \in Table
    BY <1>1, HoldsKept DEF Init, KeptTable, Kept, Table, Nothing
  <1>3. file = None /\ media.file = file /\ media.plain = plain
    BY DEF Init
  <1> QED BY <1>2, <1>3, TableType DEF Store!Init, Store!Table, Table, KeptTable, Kept, Phrase, Home

LEMMA NextMaps == TypeOK /\ CalmInv /\ [Next]_vars => [Store!Next]_Store!store
  <1> SUFFICES ASSUME TypeOK, CalmInv, [Next]_vars PROVE [Store!Next]_Store!store
    OBVIOUS
  <1>1. calm' = calm
    BY DEF Next, vars, BootStarts, WebStarts, CliStarts, Killed, Migrates, Shreds, OpensNew, Writes,
           Renames, Reads, Exports, Saves, OtherSave, PowerCut
  <1>2. CASE ~calm
    BY <1>1, <1>2 DEF TypeOK, Store!store
  <1>3. CASE calm
    <2>1. calm /\ calm'
      BY <1>1, <1>3
    <2>2. CASE BootStarts
      <3>1. /\ [Idle.job EXCEPT !.kind = "export"] \in Job /\ [Idle.job EXCEPT !.kind = "found"] \in Job
            /\ "boot" \in Proc
        BY IdleType DEF Work, Job, Kind, Fresh, Proc
      <3>2. \A q \in Proc : At(q, "idle")
        BY <2>1, <2>2 DEF BootStarts, CalmInv, OneAtATime
      <3>3. InFlight = {}
        BY <3>2 DEF InFlight, At
      <3>4. InFlight' = {} /\ UNCHANGED <<file, plain, media>>
        BY <2>2, <3>1, <3>3, LoadedFlight, EndsFlight DEF BootStarts
      <3> QED BY <2>1, <3>3, <3>4, QuietStep
    <2>3. ASSUME NEW p \in Proc, NEW j \in Job, Loaded(p, j), At(p, "idle"), Clear(p),
                 p # "boot", up, UNCHANGED <<file, plain, media>>
          PROVE  [Store!Next]_Store!store
      <3>1. \A q \in Proc : At(q, "idle")
        BY <2>1, <2>3 DEF Clear, Quiet, At, Proc, CalmInv, OneAtATime
      <3>2. InFlight = {} /\ InFlight' = {}
        BY <2>3, <3>1, LoadedFlight DEF InFlight, At
      <3> QED BY <2>1, <2>3, <3>2, QuietStep
    <2>4. ASSUME NEW j \in Jobs(WebKinds), WebStarts(j) PROVE [Store!Next]_Store!store
      <3>1. j \in Job /\ "web" \in Proc
        BY JobsType DEF WebKinds, Proc
      <3> QED BY <2>3, <2>4, <3>1 DEF WebStarts
    <2>5. ASSUME NEW p \in Cli, NEW j \in Jobs(CliKinds), CliStarts(p, j)
          PROVE  [Store!Next]_Store!store
      <3>1. j \in Job /\ p \in Proc /\ p # "boot"
        BY JobsType DEF CliKinds, Proc
      <3> QED BY <2>3, <2>5, <3>1 DEF CliStarts
    <2>6. ASSUME NEW p \in Cli, Killed(p) PROVE [Store!Next]_Store!store
      <3>1. p \in Proc /\ \A q \in Proc \ {p} : At(q, "idle")
        BY <2>1, <2>6, SoleProcess DEF Killed, Proc
      <3>2. InFlight = {}
        BY <2>1, <2>6, <3>1, SoleFlight DEF Killed
      <3>3. InFlight' = {} /\ UNCHANGED <<file, plain, media>>
        BY <2>6, <3>1, <3>2, IdleType DEF Killed, InFlight, TypeOK
      <3> QED BY <2>1, <3>2, <3>3, QuietStep
    <2>7. ASSUME NEW p \in Proc,
                 Migrates(p) \/ Shreds(p) \/ OpensNew(p) \/ Writes(p) \/ Reads(p) \/ Exports(p)
          PROVE  [Store!Next]_Store!store
      BY <2>1, <2>7, MovesMap
    <2>8. ASSUME NEW p \in Proc, Renames(p) PROVE [Store!Next]_Store!store
      BY <2>1, <2>8, RenamesMap
    <2>9. ASSUME NEW p \in Proc, Saves(p) PROVE [Store!Next]_Store!store
      <3>1. \A q \in Proc \ {p} : At(q, "idle")
        BY <2>1, <2>9, SoleProcess DEF Saves, At
      <3>2. InFlight = {}
        BY <2>9, <3>1, SoleFlight DEF Saves, At
      <3>3. InFlight' = {} /\ media' = Saved /\ UNCHANGED <<file, plain>>
        BY <2>9, <3>2, EndsFlight DEF Saves
      <3> QED BY <2>1, <3>2, <3>3, SaveMaps DEF Store!Next
    <2>10. CASE OtherSave
      <3>1. InFlight = {} /\ InFlight' = {}
        BY <2>1, <2>10 DEF OtherSave, Migrating, InFlight
      <3>2. media' = Saved /\ UNCHANGED <<file, plain>>
        BY <2>10 DEF OtherSave
      <3> QED BY <2>1, <3>1, <3>2, SaveMaps DEF Store!Next
    <2>11. ASSUME NEW c \in Chassis, PowerCut(c) PROVE [Store!Next]_Store!store
      BY <2>1, <2>11, CutMaps DEF Store!Next
    <2>12. CASE UNCHANGED vars
      <3>1. Holds' = Holds
        BY <2>12 DEF vars, Holds, InFlight, Kept
      <3> QED BY <2>1, <2>12, <3>1, Stutters DEF vars
    <2> QED BY <2>2, <2>4, <2>5, <2>6, <2>7, <2>8, <2>9, <2>10, <2>11, <2>12 DEF Next
  <1> QED BY <1>2, <1>3 DEF TypeOK

(* A calm behaviour of the vault is a behaviour of the store: its changes  *)
(* are whole and none undoes another, a migration keeps every secret, and  *)
(* a power cut takes back what was not saved (vault.py, pipeos-vault).     *)
THEOREM VaultImplementsStore == Spec => Implements
  BY InitMaps, NextMaps, CalmInvariant, PTL DEF Spec, Implements, Store!Spec
=============================================================================
