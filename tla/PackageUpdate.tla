--------------------------- MODULE PackageUpdate ---------------------------
(***************************************************************************)
(* pipeos-selfupdate and pipeos-sync-media: a box takes a new release.     *)
(*                                                                         *)
(* The packages a boot installs come from the repo on the boot media,      *)
(* apks/pipeos (dst); the world they must satisfy comes from the canonical *)
(* apkovl. An update fetches a release into the source tree on /data,      *)
(* makes sure the identity paths are in lbu's include list, swaps the      *)
(* media repo (pipeos-sync-media, which people run by hand as well),       *)
(* upgrades RAM, saves, verifies, and stamps the release as applied - or   *)
(* rolls back. The cron tick runs it at most once an interval, except that *)
(* a run that was held is tried again at the next tick.                    *)
(*                                                                         *)
(* A save and an image apply are single steps here: BootMedia.tla has      *)
(* their insides.                                                          *)
(***************************************************************************)
EXTENDS Naturals, FiniteSets

CONSTANTS
    Updater,    \* concurrent runs of pipeos-selfupdate
    Hand,       \* concurrent runs of pipeos-sync-media by hand
    Cast,       \* the sets of runs that take part in one behaviour
    Release,    \* releases by date, each with a coherent repo
    Release0,   \* the one the box starts on
    Resolving,  \* those whose repo the box's world resolves against
    IdPath,     \* IDENTITY_PATHS
    Listed0,    \* those in the include list the box started with
    MaxCrash,   \* bound on power cuts
    None,       \* no such directory
    Partial     \* a tree that verify-repo.sh refuses

ASSUME ProcAssumption    == Updater \cap Hand = {} /\ "free" \notin Updater \cup Hand
ASSUME ReleaseAssumption == Release \subseteq Nat /\ Resolving \subseteq Release
ASSUME StartAssumption   == Release0 \in Resolving
ASSUME TreeAssumption    == None \notin Release /\ Partial \notin Release /\ None # Partial
ASSUME ListAssumption    == Listed0 \subseteq IdPath
ASSUME CrashAssumption   == MaxCrash \in Nat

Proc == Updater \cup Hand

ASSUME CastAssumption == Cast \subseteq SUBSET Proc

Tree == Release \cup {None, Partial}

VARIABLES
    dst,        \* apks/pipeos on the media
    dstNew,     \* apks/pipeos.new
    dstOld,     \* apks/pipeos.old
    canon,      \* the canonical apkovl: [ids, list, rel]
    kg,         \* the known-good apkovl
    source,     \* SRC_REPO on /data
    stamp,      \* selfupdate.applied
    checked,    \* selfupdate.checked is younger than the interval
    up,         \* the box is running
    installed,  \* the release of the packages in RAM
    ids,        \* identity paths that exist
    list,       \* lbu's include list
    ulock,      \* the holder of pipeos-selfupdate.lock
    lock,       \* the holder of pipeos-save.lock, across a media swap
    pc,         \* where each run is
    run,        \* each updater's own variables
    origin,     \* the release UPDATE_RELEASE_URL serves
    before,     \* dst when the holder of the lock took it
    crashes     \* power cuts so far

media == <<dst, dstNew, dstOld>>
saved == <<canon, kg>>
marks == <<stamp, checked>>
world == <<origin, crashes>>
env  == <<origin, before, crashes>>
disk == <<dst, dstNew, dstOld, canon, kg, source, stamp, checked>>
ram  == <<up, installed, ids, list>>
vars == <<dst, dstNew, dstOld, canon, kg, source, stamp, checked, up, installed,
          ids, list, ulock, lock, pc, run, origin, before, crashes>>

(* Where a run is that does not run. *)
Resting == {"idle", "absent"}

Label == {"absent", "idle", "image", "probe", "fetch", "clear", "copy", "guard",
          "sync", "wait", "stage", "check", "swapout", "swapin", "simulate",
          "revertin", "upgrade", "save", "verify"}

(* Inside the media swap. *)
Swapping == {"stage", "check", "swapout", "swapin", "simulate", "revertin"}

Apkovl == [ids: SUBSET IdPath, list: SUBSET IdPath, rel: Release \cup {None}]

Kind == {"scheduled", "hand", "packages"}

Run == [kind: Kind, held: BOOLEAN, rel: Release \cup {None}, seen: SUBSET IdPath]

NoRun == [kind |-> "hand", held |-> FALSE, rel |-> None, seen |-> {}]

TypeOK ==
    /\ dst \in Tree /\ dstNew \in Tree /\ dstOld \in Tree
    /\ canon \in Apkovl /\ kg \in Apkovl
    /\ source \in Tree
    /\ stamp \in Release \cup {None}
    /\ checked \in BOOLEAN /\ up \in BOOLEAN
    /\ installed \in Release \cup {None}
    /\ ids \subseteq IdPath /\ list \subseteq IdPath
    /\ ulock \in Updater \cup {"free"}
    /\ lock \in Proc \cup {"free"}
    /\ pc \in [Proc -> Label]
    /\ run \in [Updater -> Run]
    /\ origin \in Release
    /\ before \in Tree
    /\ crashes \in 0..MaxCrash

(* lbu package: of the identity paths, those that exist and are listed.    *)
Packaged == [ids |-> ids \cap list, list |-> list, rel |-> installed]

Init ==
    /\ dst = Release0 /\ dstNew = None /\ dstOld = None
    /\ source = None /\ stamp = None /\ checked = FALSE
    /\ up = TRUE /\ installed = Release0
    /\ ids \in SUBSET IdPath /\ list = Listed0
    /\ canon = [ids |-> ids \cap list, list |-> Listed0, rel |-> Release0]
    /\ kg = canon
    /\ ulock = "free" /\ lock = "free"
    /\ \E cast \in Cast :
          pc = [p \in Proc |-> IF p \in cast THEN "idle" ELSE "absent"]
    /\ run = [u \in Updater |-> NoRun]
    /\ origin = Release0 /\ before = None /\ crashes = 0

At(p, l) == up /\ pc[p] = l

Goto(p, l) == pc' = [pc EXCEPT ![p] = l]

Step(p, from, to) == At(p, from) /\ Goto(p, to)

(* Every run is gone: the box went down. *)
Stopped == [p \in Proc |-> IF pc[p] = "absent" THEN "absent" ELSE "idle"]

(* A run exits: the kernel drops its locks. *)
Exit(p) ==
    /\ pc' = [pc EXCEPT ![p] = "idle"]
    /\ run' = [u \in Updater |-> IF u = p THEN NoRun ELSE run[u]]
    /\ ulock' = IF ulock = p THEN "free" ELSE ulock
    /\ lock' = IF lock = p THEN "free" ELSE lock
    /\ before' = IF lock = p THEN None ELSE before

(* mark_checked: a held or a packages-only run is not the day's check.     *)
MarkChecked(u) ==
    checked' = (checked \/ (run[u].kind # "packages" /\ ~run[u].held))

-----------------------------------------------------------------------------
(* pipeos-selfupdate up to the media.                                      *)

(* Mutant of UpStart: no flock. *)
UpStartUnlocked(u) ==
    /\ At(u, "idle")
    /\ \E k \in Kind :
          /\ k = "scheduled" => ~checked
          /\ run' = [run EXCEPT ![u] = [NoRun EXCEPT !.kind = k]]
    /\ Goto(u, "image")
    /\ UNCHANGED <<disk, ram, ulock, lock, env>>

(* The clock, then flock -n: a second self-update exits at once.           *)
UpStart(u) ==
    /\ At(u, "idle")
    /\ ulock = "free"
    /\ \E k \in Kind :
          /\ k = "scheduled" => ~checked
          /\ run' = [run EXCEPT ![u] = [NoRun EXCEPT !.kind = k]]
    /\ ulock' = u
    /\ Goto(u, "image")
    /\ UNCHANGED <<disk, ram, lock, env>>

(* image_update returns 1: up to date, off, a failed fetch or apply (a     *)
(* verdict), or a hold - a job, a terminal, the cluster's turn, the API.   *)
UpNoImage(u) ==
    /\ Step(u, "image", "probe")
    /\ \E h \in IF run[u].kind = "packages" THEN {FALSE} ELSE BOOLEAN :
          run' = [run EXCEPT ![u].held = h]
    /\ UNCHANGED <<disk, ram, ulock, lock, env>>

(* The release's image is applied in place and the box reboots: the media  *)
(* gets the image's repo, once the world resolves against it, and as       *)
(* canonical and known-good lbu package's identity merged under the        *)
(* image's overlay, whose include list covers every identity path.         *)
UpImage(u) ==
    /\ At(u, "image")
    /\ run[u].kind # "packages"
    /\ lock = "free"
    /\ origin \in Resolving
    /\ dst' = origin /\ dstNew' = None /\ dstOld' = None
    /\ canon' = [ids |-> ids \cap list, list |-> IdPath, rel |-> origin]
    /\ kg' = canon'
    /\ up' = FALSE
    /\ ulock' = "free"
    /\ pc' = Stopped
    /\ run' = [v \in Updater |-> NoRun]
    /\ UNCHANGED <<source, marks, installed, ids, list, lock, env>>

(* SHA256SUMS names the digest that was last applied. *)
UpToDate(u) ==
    /\ At(u, "probe")
    /\ stamp = origin
    /\ MarkChecked(u)
    /\ Exit(u)
    /\ UNCHANGED <<media, saved, source, stamp, ram, world>>

UpChanged(u) ==
    /\ Step(u, "probe", "fetch")
    /\ stamp # origin
    /\ run' = [run EXCEPT ![u].rel = origin]
    /\ UNCHANGED <<disk, ram, ulock, lock, env>>

(* The snapshot matches SHA256SUMS, extracts and passes verify-repo.sh.    *)
UpFetch(u) ==
    /\ Step(u, "fetch", "clear")
    /\ run[u].rel = origin
    /\ UNCHANGED <<disk, ram, ulock, lock, run, env>>

(* Every die: the origin or an asset does not answer, the snapshot is not  *)
(* the one SHA256SUMS names, does not extract or does not verify (fetch);  *)
(* apk update fails; pipeos-save fails.                                    *)
UpDie(u) ==
    /\ up /\ pc[u] \in {"probe", "fetch", "upgrade", "save"}
    /\ Exit(u)
    /\ UNCHANGED <<disk, ram, world>>

(* rm -f "$SRC_REPO"/*.apk *)
UpClear(u) ==
    /\ Step(u, "clear", "copy")
    /\ source' = Partial
    /\ UNCHANGED <<media, saved, marks, ram, ulock, lock, run, env>>

(* cp into SRC_REPO; whether it succeeded is not looked at. *)
UpCopy(u) ==
    /\ Step(u, "copy", "guard")
    /\ source' \in {run[u].rel, Partial}
    /\ UNCHANGED <<media, saved, marks, ram, ulock, lock, run, env>>

(* Mutant of UpGuard: the list is taken as the image shipped it. *)
UpGuardSkipped(u) ==
    /\ Step(u, "guard", "sync")
    /\ run' = [run EXCEPT ![u].seen = ids]
    /\ UNCHANGED <<disk, ram, ulock, lock, env>>

(* The persistence guarantee: every identity path that exists is listed.   *)
UpGuard(u) ==
    /\ Step(u, "guard", "sync")
    /\ list' = list \cup ids
    /\ run' = [run EXCEPT ![u].seen = ids]
    /\ UNCHANGED <<disk, up, installed, ids, ulock, lock, env>>

-----------------------------------------------------------------------------
(* pipeos-sync-media, run by an updater or by hand.                        *)

(* Somebody types it. *)
HandStart(p) ==
    /\ Step(p, "idle", "sync")
    /\ UNCHANGED <<disk, ram, ulock, lock, run, env>>

SyncVerify(p) ==
    /\ Step(p, "sync", "wait")
    /\ source \in Release
    /\ UNCHANGED <<disk, ram, ulock, lock, run, env>>

(* The source fails verification, or the lock is busy for 60 s. *)
SyncRefused(p) ==
    /\ up
    /\ \/ pc[p] = "sync" /\ source \notin Release
       \/ pc[p] = "wait" /\ lock # "free"
    /\ Exit(p)
    /\ UNCHANGED <<disk, ram, world>>

(* "one media mutator at a time": held from here to the run's end. *)
SyncLock(p) ==
    /\ Step(p, "wait", "stage")
    /\ lock = "free"
    /\ lock' = p
    /\ before' = dst
    /\ UNCHANGED <<disk, ram, ulock, run, origin, crashes>>

(* rm -rf DST.new DST.old; cp into DST.new, which an updater that clears   *)
(* the source meanwhile, or a full media, leaves partial.                  *)
SyncStage(p) ==
    /\ Step(p, "stage", "check")
    /\ dstNew' \in {source, Partial}
    /\ dstOld' = None
    /\ UNCHANGED <<dst, saved, source, marks, ram, ulock, lock, run, env>>

(* Mutant of SyncCheck: the staged copy is trusted as the source was. *)
SyncCheckSkipped(p) ==
    /\ Step(p, "check", "swapout")
    /\ UNCHANGED <<disk, ram, ulock, lock, run, env>>

(* verify-repo.sh on the staged copy. *)
SyncCheck(p) ==
    /\ Step(p, "check", "swapout")
    /\ dstNew \in Release
    /\ UNCHANGED <<disk, ram, ulock, lock, run, env>>

SyncCheckFails(p) ==
    /\ At(p, "check")
    /\ dstNew \notin Release
    /\ dstNew' = None
    /\ Exit(p)
    /\ UNCHANGED <<dst, dstOld, saved, source, marks, ram, world>>

(* mv DST DST.old && ...: with no DST the second rename is not tried. *)
SyncSwapOut(p) ==
    /\ IF dst = None
       THEN Step(p, "swapout", "simulate") /\ UNCHANGED <<dst, dstOld>>
       ELSE /\ Step(p, "swapout", "swapin")
            /\ dstOld' = dst
            /\ dst' = None
    /\ UNCHANGED <<dstNew, saved, source, marks, ram, ulock, lock, run, env>>

(* ... mv DST.new DST *)
SyncSwapIn(p) ==
    /\ Step(p, "swapin", "simulate")
    /\ dst' = dstNew
    /\ dstNew' = None
    /\ UNCHANGED <<dstOld, saved, source, marks, ram, ulock, lock, run, env>>

(* apk fix --simulate: the world against the repos on the media; without   *)
(* apks/pipeos it depends on what RAM has installed.                       *)
Simulates == dst \in Resolving \/ (dst = None /\ installed # None)

(* Mutant of SyncDone: apk fix --simulate is not asked. *)
SyncDoneUnasked(p) ==
    /\ At(p, "simulate")
    /\ dstOld' = None
    /\ IF p \in Updater
       THEN /\ Goto(p, "upgrade") /\ lock' = "free" /\ before' = None
            /\ UNCHANGED <<ulock, run>>
       ELSE Exit(p)
    /\ UNCHANGED <<dst, dstNew, saved, source, marks, ram, world>>

(* "media pipeos repo synced and verified." *)
SyncDone(p) ==
    /\ At(p, "simulate")
    /\ Simulates
    /\ dstOld' = None
    /\ IF p \in Updater
       THEN /\ Goto(p, "upgrade") /\ lock' = "free" /\ before' = None
            /\ UNCHANGED <<ulock, run>>
       ELSE Exit(p)
    /\ UNCHANGED <<dst, dstNew, saved, source, marks, ram, world>>

(* "world stopped resolving": mv DST DST.failed && ... *)
SyncRevertOut(p) ==
    /\ Step(p, "simulate", "revertin")
    /\ ~Simulates
    /\ dst # None
    /\ dst' = None
    /\ UNCHANGED <<dstNew, dstOld, saved, source, marks, ram, ulock, lock,
                   run, env>>

(* ... mv DST.old DST; rm the failed one; die "swapped back". *)
SyncRevertIn(p) ==
    /\ At(p, "revertin")
    /\ dst' = dstOld
    /\ dstOld' = None
    /\ Exit(p)
    /\ UNCHANGED <<dstNew, saved, source, marks, ram, world>>

(* No DST to move aside: neither rename happens, the message is the same.  *)
SyncNothingBack(p) ==
    /\ At(p, "simulate")
    /\ ~Simulates
    /\ dst = None
    /\ Exit(p)
    /\ UNCHANGED <<disk, ram, world>>

Sync(p) ==
    \/ SyncVerify(p) \/ SyncRefused(p) \/ SyncLock(p) \/ SyncStage(p)
    \/ SyncCheck(p) \/ SyncCheckFails(p) \/ SyncSwapOut(p) \/ SyncSwapIn(p)
    \/ SyncDone(p) \/ SyncRevertOut(p) \/ SyncRevertIn(p) \/ SyncNothingBack(p)

-----------------------------------------------------------------------------
(* pipeos-selfupdate after the swap.                                       *)

(* apk update; apk upgrade -a, whose failure is left for verify to judge.  *)
UpUpgrade(u) ==
    /\ Step(u, "upgrade", "save")
    /\ installed' \in (IF dst \in Resolving THEN {installed, dst} ELSE {installed})
    /\ UNCHANGED <<disk, up, ids, list, ulock, lock, run, env>>

UpSave(u) ==
    /\ Step(u, "save", "verify")
    /\ lock = "free"
    /\ canon' = Packaged
    /\ UNCHANGED <<media, kg, source, marks, ram, ulock, lock, run, env>>

(* pipeos verify: the repo's index matches it, the world resolves and is   *)
(* installed. Its other tests may fail as well: see UpVerifyFails.         *)
Verifies == dst \in Resolving /\ installed # None

(* "updated and verified": the stamp. *)
UpVerify(u) ==
    /\ At(u, "verify")
    /\ Verifies
    /\ stamp' = run[u].rel
    /\ MarkChecked(u)
    /\ Exit(u)
    /\ UNCHANGED <<media, saved, source, ram, world>>

(* "verify FAILED after update - rolling back to known-good": `pipeos      *)
(* rollback` without a name lists the snapshots and succeeds.              *)
UpVerifyFails(u) ==
    /\ At(u, "verify")
    /\ Exit(u)
    /\ UNCHANGED <<disk, ram, world>>

Update(u) ==
    \/ UpStart(u) \/ UpNoImage(u) \/ UpImage(u) \/ UpToDate(u) \/ UpChanged(u)
    \/ UpFetch(u) \/ UpDie(u) \/ UpClear(u) \/ UpCopy(u) \/ UpGuard(u)
    \/ UpUpgrade(u) \/ UpSave(u) \/ UpVerify(u) \/ UpVerifyFails(u)

-----------------------------------------------------------------------------
(* The box and the world around them.                                      *)

(* The 15min autosave. *)
Autosave ==
    /\ up /\ lock = "free"
    /\ canon # Packaged
    /\ canon' = Packaged
    /\ UNCHANGED <<media, kg, source, marks, ram, ulock, lock, pc, run, env>>

(* make release: the origin's latest only moves on. *)
Publish ==
    /\ \E r \in Release : r > origin /\ origin' = r
    /\ UNCHANGED <<disk, ram, ulock, lock, pc, run, before, crashes>>

(* UPDATE_INTERVAL_HOURS pass. *)
IntervalPasses ==
    /\ checked
    /\ checked' = FALSE
    /\ UNCHANGED <<media, saved, source, stamp, ram, ulock, lock, pc, run,
                   env>>

(* A copy that was being made stays partial. *)
PowerLoss ==
    /\ up /\ crashes < MaxCrash
    /\ crashes' = crashes + 1
    /\ up' = FALSE
    /\ source' \in {source} \cup (IF \E u \in Updater : pc[u] = "copy" THEN {Partial} ELSE {})
    /\ dstNew' \in {dstNew} \cup (IF \E p \in Proc : pc[p] = "stage" THEN {Partial} ELSE {})
    /\ ulock' = "free" /\ lock' = "free"
    /\ pc' = Stopped
    /\ run' = [u \in Updater |-> NoRun]
    /\ before' = None
    /\ UNCHANGED <<dst, dstOld, saved, marks, installed, ids, list, origin>>

(* The initramfs installs the world from the repos on the media, over the  *)
(* canonical apkovl.                                                       *)
Boot ==
    /\ ~up
    /\ up' = TRUE
    /\ installed' = IF dst \in Resolving THEN dst ELSE None
    /\ ids' = canon.ids
    /\ list' = canon.list
    /\ UNCHANGED <<disk, ulock, lock, pc, run, env>>

Next ==
    \/ \E u \in Updater : Update(u)
    \/ \E p \in Hand : HandStart(p)
    \/ \E p \in Proc : Sync(p)
    \/ Autosave \/ Publish \/ IntervalPasses \/ PowerLoss \/ Boot

Spec == Init /\ [][Next]_vars

-----------------------------------------------------------------------------
(* Properties.                                                             *)

(* The two flocks do what they are for: one self-update at a time, whoever *)
(* started it, and one run inside the media swap.                          *)
Exclusive ==
    /\ \A u, v \in Updater : pc[u] \notin Resting /\ pc[v] \notin Resting => u = v
    /\ \A p, q \in Proc : pc[p] \in Swapping /\ pc[q] \in Swapping => p = q

(* Whatever is swapped in, in whatever order people and the cron job fill, *)
(* read and swap the trees, and wherever the power goes: the directory the *)
(* boot installs from is never a partial copy ("one media mutator at a     *)
(* time", the second verification).                                        *)
RepoNeverPartial == dst # Partial

(* A sync that ends with a repo on the media leaves either the one it      *)
(* found or one the world resolves against: "on any failure swap back".    *)
SyncAllOrNothing ==
    [][(lock # "free" /\ lock' = "free" /\ up' /\ before # None) =>
         dst' \in Resolving \cup {before}]_vars

(* "The applied digest is recorded only on a verified success": what is    *)
(* stamped is on the media, resolves, and was saved after the upgrade,     *)
(* whoever else syncs, saves or updates meanwhile.                         *)
StampedIsOnMedia ==
    [][stamp' # stamp => dst = stamp' /\ dst \in Resolving /\ canon.rel = installed]_vars

(* "an update never costs a box its identity": every identity path the     *)
(* update found survives a power cut right after its save.                 *)
IdentitySurvives ==
    [][\A u \in Updater : (pc[u] = "save" /\ pc'[u] = "verify") =>
          (run[u].seen \cap ids) \subseteq canon'.ids]_vars

(* What makes them so: the locks are held exactly over the runs they       *)
(* guard ...                                                               *)
LockInv ==
    /\ \A u \in Updater : pc[u] \notin Resting <=> ulock = u
    /\ \A p \in Proc : pc[p] \in Swapping <=> lock = p
    /\ ~up => \A p \in Proc : pc[p] \in Resting

(* ... inside the swap, what DST, DST.new and DST.old hold is a matter of  *)
(* how far it is ...                                                       *)
SwapInv ==
    /\ dst # Partial /\ dstOld # Partial /\ before # Partial
    /\ \A p \in Proc :
          /\ pc[p] \in {"stage", "check", "swapout"} => dst = before
          /\ pc[p] \in {"swapout", "swapin"} => dstNew \in Release
          /\ pc[p] = "swapin" => dst = None /\ dstOld = before /\ before # None
          /\ pc[p] = "simulate" =>
                IF before = None THEN dst = None ELSE dst \in Release /\ dstOld = before
          /\ pc[p] = "revertin" => dstOld = before

OwnSwap(u) ==
    /\ pc[u] = "check" => dstNew \in {run[u].rel, Partial}
    /\ pc[u] \in {"swapout", "swapin"} => dstNew = run[u].rel
    /\ pc[u] = "simulate" => dst \in {run[u].rel, None}

SwapBehind(u, p) ==
    /\ pc[p] \in Swapping => before \in {run[u].rel, None}
    /\ pc[p] = "check" => dstNew \in {run[u].rel, Partial}
    /\ pc[p] \in {"swapout", "swapin"} => dstNew = run[u].rel

(* ... and from its copy on, the tree an updater filled holds its release  *)
(* or nothing whole, so nothing else gets on the media behind its back.    *)
Stamp(u) ==
    /\ pc[u] \in {"guard", "sync"} => source \in {run[u].rel, Partial}
    /\ pc[u] \in Swapping \cup {"wait", "upgrade", "save", "verify"} =>
          source = run[u].rel
    /\ OwnSwap(u)
    /\ pc[u] \in {"upgrade", "save", "verify"} =>
          dst \in {run[u].rel, None} /\ \A p \in Proc : SwapBehind(u, p)
    /\ pc[u] = "verify" => canon.rel = installed

StampInv == \A u \in Updater : Stamp(u)

(* What an update found is on the include list from then on, and a run     *)
(* does not outlive the power that brings an older list back.              *)
ListedInv ==
    \A u \in Updater : run[u].seen \subseteq list /\ (~up => run[u].seen = {})

(* pipeos-sync-media is "verified, atomic, self-reverting": the box never  *)
(* comes back from a power cut without its repo ...                        *)
BootFindsRepo == ~up => dst # None

(* ... nor with one its world does not resolve against ...                 *)
BootRepoResolves == ~up => dst \in Resolving \cup {None}

(* ... and a sync that ran to its end, with whatever message, leaves one.  *)
SyncLeavesRepo ==
    [][(lock # "free" /\ lock' = "free" /\ up') => dst' # None]_vars

(* "verify FAILED after update - rolling back to known-good": when the     *)
(* update ends that way, known-good is what the next boot loads.           *)
RollsBack ==
    [][\A u \in Updater : (pc[u] = "verify" /\ pc'[u] = "idle" /\ up' /\ stamp' = stamp)
          => canon' = kg]_vars

(* "A refusal that will say the same thing every hour is a verdict:        *)
(* retried tomorrow, not hammered hourly": a scheduled run that was not    *)
(* held and ended by itself moves the clock.                               *)
VerdictMovesClock ==
    [][\A u \in Updater : (ulock = u /\ ulock' = "free" /\ up' /\ pc[u] \in {"fetch", "verify"}
                             /\ run[u].kind = "scheduled" /\ ~run[u].held)
          => checked']_vars

=============================================================================
