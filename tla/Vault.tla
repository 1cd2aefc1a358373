------------------------------- MODULE Vault -------------------------------
(***************************************************************************)
(* One box's secrets: the sealed envelope /etc/pipeos/vault.sealed, the    *)
(* plain files it replaces, and the files under /run/pipeos/secrets its    *)
(* services read. Every change loads the whole envelope and writes it      *)
(* back, through one temporary name (vault.py). Three kinds of process do  *)
(* so: the boot service, the dashboard (one request at a time, under       *)
(* MUTATE_LOCK) and the command line, which takes no lock.                 *)
(*                                                                         *)
(* /etc is RAM on this box. A save copies it to the boot media; a power    *)
(* cut brings back the last copy, perhaps in another chassis.              *)
(*                                                                         *)
(* Abstracted: a save is one step (BootMedia.tla has its steps) and works; *)
(* the cryptography opens an envelope in its chassis, or with its phrase,  *)
(* and otherwise not; an export writes its files in one step.              *)
(***************************************************************************)
EXTENDS Naturals, FiniteSets

CONSTANTS
    Name, Value, NoValue, Chassis, None,    \* as in SecretStore
    Quoted,     \* values with a quote or a newline
    Torn,       \* a file that is not a whole envelope
    Cli,        \* command lines that may run at a time
    Calm,       \* may behaviours be calm (TRUE), not calm (FALSE)?
    MaxMint,    \* bound on recovery phrases
    MaxOps,     \* bound on operations
    MaxCut      \* bound on power cuts

ASSUME VaultAssumption ==
    /\ NoValue \notin Value /\ None \notin Chassis \cup Nat /\ Quoted \subseteq Value
    /\ Cli \cap {"boot", "web"} = {} /\ Calm \subseteq BOOLEAN /\ Calm # {}
    /\ Name # {} /\ Value # {} /\ Chassis # {} /\ MaxMint \in Nat /\ MaxOps \in Nat /\ MaxCut \in Nat

VARIABLES
    file,       \* vault.sealed
    new,        \* vault.sealed.new
    plain,      \* what the plain files of /etc/pipeos hold
    claimed,    \* web-admin.conf
    media,      \* these, as last saved
    run,        \* what the files under /run/pipeos/secrets hold
    work,       \* each process: what it does, what it has loaded, its open file
    up,         \* the boot service is done
    hw,         \* the chassis the stick is in
    calm,       \* this behaviour is calm: see Starts and OtherSave
    mints,      \* recovery phrases made so far
    ops,        \* operations so far
    cuts        \* power cuts so far

vars == <<file, new, plain, claimed, media, run, work, up, hw, calm, mints, ops, cuts>>

Proc == {"boot", "web"} \cup Cli

Table == [Name -> Value \cup {NoValue}]
Nothing == [n \in Name |-> NoValue]

\* The envelope: whose chassis its first slot is sealed to, the phrase of
\* its second, and the secrets.
Env == [seal: Chassis, phrase: 1..MaxMint, doc: Table]

ASSUME ContentAssumption == None \notin Env /\ Torn \notin Env /\ Torn # None

Content == Env \cup {None, Torn}

Fresh == {"found", "claim"}     \* vault.init, with a migration or without
Kind == Fresh \cup {"set", "del", "note", "unlock", "rephrase", "migrate", "export"}

Job == [kind: Kind, name: Name, value: Value]

Idle == [pc |-> "idle", job |-> CHOOSE j \in Job : TRUE, env |-> None, fd |-> "shut"]

Work == {w \in [pc: {"idle", "migrate", "shred", "open", "write", "rename", "export", "files", "save"},
                job: Job, env: Env \cup {None},
                fd: {"shut", "new", "file", "gone"}] :    \* where the inode it writes is linked
            w.pc = "files" => w.env \in Env}

TypeOK ==
    /\ file \in Content /\ new \in Content
    /\ plain \in Table /\ run \in Table
    /\ claimed \in BOOLEAN
    /\ media \in [file: Content, plain: Table, claimed: BOOLEAN]
    /\ work \in [Proc -> Work]
    /\ up \in BOOLEAN /\ calm \in BOOLEAN
    /\ hw \in Chassis
    /\ mints \in 0..MaxMint /\ ops \in 0..MaxOps /\ cuts \in 0..MaxCut

\* A box claimed before there were vaults, with its secrets in plain files,
\* or one that is not claimed yet; about to boot.
Init ==
    /\ file = None /\ new = None
    /\ claimed \in BOOLEAN
    /\ plain \in IF claimed THEN [Name -> (Value \ Quoted) \cup {NoValue}] ELSE {Nothing}
    /\ media = [file |-> file, plain |-> plain, claimed |-> claimed]
    /\ run = Nothing
    /\ work = [p \in Proc |-> Idle]
    /\ up = FALSE
    /\ hw \in Chassis
    /\ calm \in Calm
    /\ mints = 0 /\ ops = 0 /\ cuts = 0

-----------------------------------------------------------------------------
(* What an operation makes of the envelope it has loaded. *)

\* Every plain file that is there replaces the vault's value.
Moved(doc) == [n \in Name |-> IF plain[n] # NoValue THEN plain[n] ELSE doc[n]]

\* A mutant: a set begins a document of its own.
DocAlone(j, doc) ==
    CASE j.kind = "set"     -> [Nothing EXCEPT ![j.name] = j.value]
      [] j.kind = "del"     -> [doc EXCEPT ![j.name] = NoValue]
      [] j.kind = "migrate" -> Moved(doc)
      [] OTHER              -> doc

Doc(j, doc) ==
    CASE j.kind = "set"     -> [doc EXCEPT ![j.name] = j.value]
      [] j.kind = "del"     -> [doc EXCEPT ![j.name] = NoValue]
      [] j.kind = "migrate" -> Moved(doc)
      [] OTHER              -> doc

\* vault.init's envelope; its phrase is the next one.
FreshEnv == [seal |-> hw, phrase |-> mints + 1, doc |-> Nothing]

\* A note of a copy (set_shared) changes nothing that is modelled here.
Changed(j, e) ==
    CASE j.kind \in Fresh     -> FreshEnv
      [] j.kind = "unlock"    -> [e EXCEPT !.seal = hw]
      [] j.kind = "rephrase"  -> [e EXCEPT !.phrase = mints + 1]
      [] OTHER                -> [e EXCEPT !.doc = Doc(j, e.doc)]

Opens(e, j) == e \in Env /\ (e.seal = hw \/ j.kind = "unlock")

\* _load and the change, in memory. A migration with nothing to move writes
\* nothing, and neither does a delete of what is not there: on the command
\* line it is no step, in the dashboard an export.
Loaded(p, j) ==
    LET e == Changed(j, file)
        same == j.kind = "export" \/ (j.kind = "migrate" /\ e = file)
    IN /\ IF j.kind \in Fresh THEN mints < MaxMint ELSE Opens(file, j)
       /\ j.kind = "del" => e # file
       /\ j.kind = "rephrase" => mints < MaxMint
       /\ mints' = IF j.kind \in Fresh \cup {"rephrase"} THEN mints + 1 ELSE mints
       /\ work' = [work EXCEPT ![p] =
                     [pc |-> CASE same -> IF p \in Cli /\ j.kind # "export" THEN "idle" ELSE "export"
                               [] ~same /\ j.kind = "migrate" -> "shred"
                               [] OTHER -> "open",
                      job |-> j, env |-> IF same THEN None ELSE e, fd |-> "shut"]]

Quiet(P) == \A p \in P : work[p].pc = "idle"

Migrating == \E p \in Proc : work[p].pc # "idle" /\ work[p].job.kind \in {"found", "migrate"}

-----------------------------------------------------------------------------
(* The steps of a process. *)

At(p, pc) == work[p].pc = pc

Doing(p, pc, env, fd) == [pc |-> pc, job |-> work[p].job, env |-> env, fd |-> fd]

Becomes(p, pc, env, fd) == work' = [work EXCEPT ![p] = Doing(p, pc, env, fd)]

Goes(p, pc) == Becomes(p, pc, work[p].env, work[p].fd)

\* The end of a handler, of a command, or of the boot service.
Ends(p) == /\ work' = [work EXCEPT ![p] = Idle]
           /\ up' = (up \/ p = "boot")

\* In a calm behaviour nobody types a command while the dashboard or another
\* command is at work, makes a vault by hand, or interrupts a migration.
Clear(p) == calm => Quiet(IF p = "web" THEN Cli ELSE Proc)

AnyName == CHOOSE n \in Name : TRUE
AnyValue == CHOOSE v \in Value : TRUE

Jobs(kinds) == [kind: kinds \ {"set", "del"}, name: {AnyName}, value: {AnyValue}]
                \cup [kind: kinds \cap {"set"}, name: Name, value: Value]
                \cup [kind: kinds \cap {"del"}, name: Name, value: {AnyValue}]

\* A request to the dashboard: claim, init, set, del, unlock, rephrase, share;
\* an export that saves nothing is a delete of what is not there.
WebStarts(j) ==
    /\ up /\ At("web", "idle") /\ Clear("web") /\ ops < MaxOps
    /\ j.kind = "found" => claimed /\ file = None
    /\ IF j.kind = "claim" THEN ~claimed /\ claimed' = TRUE ELSE UNCHANGED claimed
    /\ Loaded("web", j)
    /\ ops' = ops + 1
    /\ UNCHANGED <<file, new, plain, media, run, up, hw, calm, cuts>>

\* pipeos vault VERB; "claim" is init --force, which no calm behaviour has.
CliStarts(p, j) ==
    /\ up /\ At(p, "idle") /\ Clear(p) /\ ops < MaxOps
    /\ calm => j.kind \notin Fresh
    /\ Loaded(p, j)
    /\ ops' = ops + 1
    /\ UNCHANGED <<file, new, plain, claimed, media, run, up, hw, calm, cuts>>

\* The boot service exports the vault of the box, or makes one of its plain
\* secrets, or leaves an unclaimed box alone. A vault that does not open, or
\* an init that fails, leaves the services without their files.
BootStarts ==
    /\ ~up /\ At("boot", "idle")
    /\ \/ /\ \/ file # None /\ Loaded("boot", [Idle.job EXCEPT !.kind = "export"])
             \/ file = None /\ claimed /\ Loaded("boot", [Idle.job EXCEPT !.kind = "found"])
          /\ UNCHANGED up
       \/ /\ IF file = None THEN ~claimed \/ ~calm ELSE ~Opens(file, Idle.job)
          /\ Ends("boot")
          /\ UNCHANGED mints
    /\ UNCHANGED <<file, new, plain, claimed, media, run, hw, calm, ops, cuts>>

\* After vault.init: vault.migrate loads what was just stored.
Migrates(p) ==
    /\ At(p, "migrate")
    /\ \/ /\ Loaded(p, [work[p].job EXCEPT !.kind = "migrate"])
          /\ UNCHANGED up
       \/ /\ ~calm
          /\ Ends(p)
          /\ UNCHANGED mints
    /\ UNCHANGED <<file, new, plain, claimed, media, run, hw, calm, ops, cuts>>

\* migrate shreds and blanks the plain files before it stores.
Shreds(p) ==
    /\ At(p, "shred") /\ Goes(p, "open")
    /\ plain' = Nothing
    /\ UNCHANGED <<file, new, claimed, media, run, up, hw, calm, mints, ops, cuts>>

\* os.open(vault.sealed.new, O_CREAT | O_TRUNC): a file of that name that is
\* there, another process's or one left behind, is emptied.
OpensNew(p) ==
    /\ At(p, "open")
    /\ new' = Torn
    /\ Becomes(p, "write", work[p].env, "new")
    /\ UNCHANGED <<file, plain, claimed, media, run, up, hw, calm, mints, ops, cuts>>

\* The write goes to the inode that was opened, whatever its name is now.
\* Over what another process wrote it leaves the longer one's tail, or not.
Written(old, e) == IF old = Torn THEN {e} ELSE {e, Torn}

Writes(p) ==
    /\ At(p, "write") /\ Goes(p, "rename")
    /\ CASE work[p].fd = "new"  -> new' \in Written(new, work[p].env) /\ UNCHANGED file
         [] work[p].fd = "file" -> file' \in Written(file, work[p].env) /\ UNCHANGED new
         [] OTHER               -> UNCHANGED <<file, new>>
    /\ UNCHANGED <<plain, claimed, media, run, up, hw, calm, mints, ops, cuts>>

\* A mutant: a delete saves, and leaves the files for the next export.
AfterStoreDeletes(p) ==
    LET k == work[p].job.kind
    IN CASE k = "found" -> "migrate"
         [] k \in {"rephrase", "note", "del"} -> "save"
         [] OTHER -> "export"

\* A mutant: a vault is made, and the plain files stay.
AfterStoreUnmigrated(p) ==
    IF work[p].job.kind \in {"rephrase", "note"} THEN "save" ELSE "export"

AfterStore(p) ==
    LET k == work[p].job.kind
    IN CASE k = "found"                 -> "migrate"
         [] k \in {"rephrase", "note"} -> "save"
         [] OTHER                       -> "export"

\* os.replace: every open file moves with its inode.
Relinked == [q \in Proc |->
    [work[q] EXCEPT !.fd = CASE @ = "new" -> "file" [] @ = "file" -> "gone" [] OTHER -> @]]

Renames(p) ==
    /\ At(p, "rename")
    /\ \/ /\ new # None
          /\ file' = new /\ new' = None
          /\ IF p \in Cli
             THEN work' = [Relinked EXCEPT ![p] = Idle]
             ELSE work' = [Relinked EXCEPT ![p] = Doing(p, AfterStore(p), None, "shut")]
          /\ UNCHANGED up
       \/ /\ new = None       \* another process renamed it: OSError
          /\ Ends(p)
          /\ UNCHANGED <<file, new>>
    /\ UNCHANGED <<plain, claimed, media, run, hw, calm, mints, ops, cuts>>

\* vault.export builds every file before it writes one: a value it cannot
\* quote leaves all files as they are, and the request ends without a save.
Reads(p) ==
    /\ At(p, "export")
    /\ \/ /\ file \in Env /\ file.seal = hw
          /\ \A n \in Name : file.doc[n] \notin Quoted
          /\ Becomes(p, "files", file, "shut")
          /\ UNCHANGED up
       \/ /\ ~(file \in Env /\ file.seal = hw /\ \A n \in Name : file.doc[n] \notin Quoted)
          /\ Ends(p)
    /\ UNCHANGED <<file, new, plain, claimed, media, run, hw, calm, mints, ops, cuts>>

Exports(p) ==
    /\ At(p, "files")
    /\ run' = work[p].env.doc
    /\ IF p \in Cli \/ work[p].job.kind = "export"
       THEN Ends(p)
       ELSE Goes(p, "save") /\ UNCHANGED up
    /\ UNCHANGED <<file, new, plain, claimed, media, hw, calm, mints, ops, cuts>>

Saved == [file |-> file, plain |-> plain, claimed |-> claimed]

\* save_state, and the answer; pipeos-save, and the end of the boot service.
Saves(p) ==
    /\ At(p, "save")
    /\ media' = Saved
    /\ Ends(p)
    /\ UNCHANGED <<file, new, plain, claimed, run, hw, calm, mints, ops, cuts>>

\* Another program's save. In a calm behaviour not during a migration.
OtherSave ==
    /\ up /\ claimed
    /\ calm => ~Migrating
    /\ media' = Saved
    /\ UNCHANGED <<file, new, plain, claimed, run, work, up, hw, calm, mints, ops, cuts>>

Killed(p) ==
    /\ ~At(p, "idle")
    /\ calm => work[p].job.kind # "migrate"
    /\ work' = [work EXCEPT ![p] = Idle]
    /\ UNCHANGED <<file, new, plain, claimed, media, run, up, hw, calm, mints, ops, cuts>>

PowerCut(c) ==
    /\ cuts < MaxCut
    /\ file' = media.file /\ plain' = media.plain /\ claimed' = media.claimed
    /\ new' = None
    /\ run' = Nothing
    /\ work' = [p \in Proc |-> Idle]
    /\ up' = FALSE
    /\ hw' = c
    /\ cuts' = cuts + 1
    /\ UNCHANGED <<media, calm, mints, ops>>

WebKinds == Kind \ {"migrate"}
CliKinds == Kind \ {"found", "note"}

Next ==
    \/ BootStarts
    \/ \E j \in Jobs(WebKinds) : WebStarts(j)
    \/ \E p \in Cli : Killed(p) \/ \E j \in Jobs(CliKinds) : CliStarts(p, j)
    \/ \E p \in Proc : \/ Migrates(p) \/ Shreds(p) \/ OpensNew(p) \/ Writes(p)
                       \/ Renames(p) \/ Reads(p) \/ Exports(p) \/ Saves(p)
    \/ OtherSave
    \/ \E c \in Chassis : PowerCut(c)

Spec == Init /\ [][Next]_vars

-----------------------------------------------------------------------------
(* The store the box seems to have. A secret is in its plain file, or in   *)
(* the vault, or, while a migration has it in neither, in that process.    *)

Kept(f, t, n) == IF t[n] # NoValue THEN t[n] ELSE IF f \in Env THEN f.doc[n] ELSE NoValue

InFlight == {p \in Proc : /\ work[p].job.kind = "migrate"
                          /\ work[p].pc \in {"open", "write", "rename"}}

Holds == IF InFlight # {} THEN work[CHOOSE p \in InFlight : TRUE].env.doc
         ELSE [n \in Name |-> Kept(file, plain, n)]

Phrase(f) == IF f \in Env THEN f.phrase ELSE None
Home(f) == IF f \in Env THEN f.seal ELSE None

Store == INSTANCE SecretStore WITH
    Phrases <- 1..MaxMint,
    secret <- IF calm THEN Holds ELSE Nothing,
    phrase <- IF calm THEN Phrase(file) ELSE None,
    home   <- IF calm THEN Home(file) ELSE None,
    saved  <- IF calm
              THEN [secret |-> [n \in Name |-> Kept(media.file, media.plain, n)],
                    phrase |-> Phrase(media.file), home |-> Home(media.file)]
              ELSE [secret |-> Nothing, phrase |-> None, home |-> None]

(* In a calm behaviour the vault is a SecretStore: a set, a delete, a new  *)
(* phrase or an unlock happens as a whole or not at all, and none undoes   *)
(* another; a migration neither loses nor changes a secret; a power cut    *)
(* takes back what was not saved and nothing else (vault.py, pipeos-vault).*)
Implements == Store!Spec

(* In a calm behaviour, when a request that changed secrets comes to its   *)
(* save, the services' files are what the vault holds: "a deleted secret   *)
(* is gone at once" (vault.py:422).                                        *)
ExportsCurrent ==
    \A p \in Proc : calm /\ At(p, "save") /\ work[p].job.kind \notin {"rephrase", "note"}
                   => run = file.doc

(* In a calm behaviour media that carry a vault carry no secret in the     *)
(* clear (pipeos-vault:55).                                                *)
SealedMedia == calm /\ media.file \in Env => media.plain = Nothing

(* "A vault, and it opens: the consumers find their files"                 *)
(* (pipeos-vault:12), once the boot and the dashboard are at rest; a value *)
(* that cannot be quoted has no file.                                      *)
ConsumersFindFiles ==
    up /\ Quiet(Proc) /\ file \in Env /\ file.seal = hw
    => \A n \in Name : file.doc[n] \notin Quoted => run[n] = file.doc[n]
=============================================================================
