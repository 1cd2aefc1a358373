------------------------------ MODULE BootMedia ------------------------------
(***************************************************************************)
(* The boot media of a pipeOS Machine and the five programs that write it. *)
(*                                                                         *)
(* A Machine is diskless: it runs from RAM, and what it is (its overlay,   *)
(* its configuration, whose it is) comes back at boot from ONE file on the *)
(* vfat boot partition, pipeos.apkovl.tar.gz - the canonical apkovl.       *)
(* Beside it lie pipeos.known-good.tar.gz and the rotations                *)
(* pipeos.<timestamp>.tar.gz. Their writers are                            *)
(*   - pipeos-save       (the 15min cron, the shutdown hook, webd, people),*)
(*   - pipeos rollback   (stage an older apkovl for the next boot),        *)
(*   - pipeos-selfcheck --boot  (promote canonical to known-good),         *)
(*   - pipeos-flash apply       (rewrite the whole partition in place),    *)
(*   - pipeos unclaim           (a factory reset, through pipeos-save).    *)
(* They share the flock /run/pipeos-save.lock and two fence files that say *)
(* "the media holds something RAM must not be saved over":                 *)
(* /etc/pipeos/rollback-pending and /run/pipeos/flash-pending. Power can   *)
(* be lost between any two steps and tears the file being written.         *)
(***************************************************************************)
EXTENDS Naturals, FiniteSets

CONSTANTS
    Saver,      \* concurrent runs of pipeos-save
    Actor,      \* which of the other four programs there are
    Cast,       \* the sets of programs that take part in one behaviour
    Image,      \* released images
    Image0,     \* the image the box starts on
    Bundle,     \* apkovls reachable by path (pipeos rollback /data/...)
    Fault,      \* partial failures that may occur: see Faults
    LIMIT,      \* BACKUP_LIMIT: rotations kept
    MaxVer,     \* bound on configuration changes
    MaxWrites,  \* bound on writes of the canonical apkovl (its mtime)
    None,       \* no such file
    Torn        \* a file a power cut or a failed cp left incomplete

Program == {"rollback", "promote", "apply", "unclaim"}

(* The steps whose failure the code survives without undoing: a rotation   *)
(* copy ("continuing"), the known-good copy of an unclaim, and everything  *)
(* of an apply after its point of no return.                               *)
Faults == {"rotation", "unclaim-known-good", "late-apply"}

Owner == {"owner", "part", "nobody"}

(* An apkovl, as far as its readers tell it apart: the configuration it    *)
(* carries, the image whose overlay it carries, whether the fence file     *)
(* /etc/pipeos/rollback-pending is among its files, and whose box it is.   *)
Ovl == [st: 0..MaxVer, img: Image, rb: BOOLEAN, own: Owner]

File == Ovl \cup {None, Torn}

ASSUME SaverAssumption  == Saver \cap Program = {} /\ "free" \notin Saver
ASSUME ActorAssumption  == Actor \subseteq Program
ASSUME ImageAssumption  == Image0 \in Image
ASSUME BundleAssumption == Bundle \subseteq Ovl
ASSUME FaultAssumption  == Fault \subseteq Faults
ASSUME BoundAssumption  == LIMIT \in Nat /\ MaxVer \in Nat /\ MaxWrites \in Nat
ASSUME FileAssumption   == None \notin Ovl /\ Torn \notin Ovl /\ None # Torn

Proc == Saver \cup Actor

(* The programs that run pipeos-save: the savers, and unclaim in its       *)
(* PIPEOS_SAVE_UNCLAIM=1 mode.                                             *)
SaveProc == Saver \cup (Actor \cap {"unclaim"})

ASSUME CastAssumption == Cast \subseteq SUBSET Proc

VARIABLES
    \* the media, which survive a power cut
    canon,      \* pipeos.apkovl.tar.gz
    canonTs,    \* its mtime: the name its rotation will have
    ovlNew,     \* pipeos.apkovl.tar.gz.new
    kg,         \* pipeos.known-good.tar.gz
    kgNew,      \* pipeos.known-good.tar.gz.new
    rots,       \* the rotations: a set of [ts, ovl]
    mimg,       \* the image on the partition
    p1,         \* "ok", or "writing" while (or after) a dd did not finish
    \* RAM, which does not
    up,         \* the box is running
    mounted,    \* /media/usb is mounted
    ram,        \* the running system: [st, img, own]
    rbFence,    \* /etc/pipeos/rollback-pending
    flFence,    \* /run/pipeos/flash-pending
    lock,       \* the holder of /run/pipeos-save.lock
    pc,         \* where each program is
    tmp,        \* the lock holder's packaged (or merged) candidate
    src,        \* what the running rollback was asked to stage
    \* bookkeeping
    ver,        \* configuration changes so far
    clock,      \* writes of the canonical so far
    loaded      \* the apkovl this boot loaded

media == <<canon, canonTs, ovlNew, kg, kgNew, rots, mimg, p1>>
run   == <<up, mounted, ram, rbFence, flFence>>
vars  == <<canon, canonTs, ovlNew, kg, kgNew, rots, mimg, p1, up, mounted,
           ram, rbFence, flFence, lock, pc, tmp, src, ver, clock, loaded>>

(* Where a program is that does not run. *)
Resting == {"idle", "absent"}

Label == {"absent", "idle", "wait", "package", "copy", "rotate", "install", "prune",
          "kgcopy", "kginstall", "wipe", "done", "scrub",
          "confirm", "dd", "identity", "kgdirect", "fence"}

Source == [kind: {"known-good", "rotation", "path"}, ts: 0..MaxWrites, ovl: File]

NoSource == [kind |-> "path", ts |-> 0, ovl |-> None]

(* Only the configuration, the overlay and the owner live in RAM proper;   *)
(* lbu package adds the fence file when it is there (it lies under /etc).  *)
Package == [st |-> ram.st, img |-> ram.img, rb |-> rbFence, own |-> ram.own]

Generic(i) == [st |-> 0, img |-> i, rb |-> FALSE, own |-> "nobody"]

(* [ -f /etc/pipeos/provisioned ] *)
Provisioned == ram.own # "nobody"

(* pipeos-save's fenced() *)
Fenced == rbFence \/ flFence

OvlRunning == [st: 0..MaxVer, img: Image, own: Owner]

TypeOK ==
    /\ canon \in File
    /\ canonTs \in 0..MaxWrites
    /\ ovlNew \in File
    /\ kg \in File
    /\ kgNew \in File
    /\ rots \subseteq [ts: 0..MaxWrites, ovl: File]
    /\ mimg \in Image
    /\ p1 \in {"ok", "writing"}
    /\ up \in BOOLEAN /\ mounted \in BOOLEAN
    /\ ram \in OvlRunning
    /\ rbFence \in BOOLEAN /\ flFence \in BOOLEAN
    /\ lock \in Proc \cup {"free"}
    /\ pc \in [Proc -> Label]
    /\ tmp \in Ovl \cup {None}
    /\ src \in Source
    /\ ver \in 0..MaxVer
    /\ clock \in 0..MaxWrites
    /\ loaded \in Ovl

(* A claimed box, freshly flashed and saved once.                          *)
Init ==
    /\ ram = [st |-> 0, img |-> Image0, own |-> "owner"]
    /\ canon = [st |-> 0, img |-> Image0, rb |-> FALSE, own |-> "owner"]
    /\ kg = canon
    /\ loaded = canon
    /\ canonTs = 0 /\ clock = 0 /\ ver = 0
    /\ ovlNew = None /\ kgNew = None /\ rots = {}
    /\ mimg = Image0 /\ p1 = "ok"
    /\ up = TRUE /\ mounted = TRUE
    /\ rbFence = FALSE /\ flFence = FALSE
    /\ lock = "free" /\ tmp = None /\ src = NoSource
    /\ \E cast \in Cast :
          pc = [p \in Proc |-> IF p \in cast THEN "idle" ELSE "absent"]

-----------------------------------------------------------------------------
(* Steps shared by the programs.                                           *)

At(p, l) == up /\ pc[p] = l

Goto(p, l) == pc' = [pc EXCEPT ![p] = l]

(* The lock holder moves on and keeps the lock. *)
Step(p, from, to) == At(p, from) /\ Goto(p, to) /\ UNCHANGED lock

(* The holder exits: the kernel drops the flock with its last descriptor.  *)
Release(p) ==
    /\ pc' = [pc EXCEPT ![p] = "idle"]
    /\ lock' = "free"
    /\ tmp' = None

(* A program that queued for the lock takes it. *)
Acquire(p, to) ==
    /\ At(p, "wait")
    /\ lock = "free"
    /\ lock' = p
    /\ Goto(p, to)

(* Mutant of GiveUp: a queued program polls for ever. *)
GiveUpNever(p) == FALSE

(* "lock held for 60s; giving up": sixty polls, one a second. *)
GiveUp(p) ==
    /\ At(p, "wait")
    /\ lock # "free"
    /\ pc' = [pc EXCEPT ![p] = "idle"]
    /\ UNCHANGED <<media, run, lock, tmp, src, ver, clock, loaded>>

(* The bound on writes is met when a program packages, not when it renames,*)
(* so that it never stops a program that is under way.                     *)
Room == clock < MaxWrites

(* A new canonical apkovl gets a new mtime. *)
WriteCanon(o) ==
    /\ Room
    /\ clock' = clock + 1
    /\ canonTs' = clock + 1
    /\ canon' = o

-----------------------------------------------------------------------------
(* pipeos-save.                                                            *)

(* The provisioned and fence checks before the lock. *)
SaveStart(p) ==
    /\ At(p, "idle")
    /\ Provisioned
    /\ ~Fenced
    /\ Goto(p, "wait")
    /\ UNCHANGED <<media, run, lock, tmp, src, ver, clock, loaded>>

(* Mutant of SaveLock: the fences are not tested again after the wait. *)
SaveLockUnfenced(p) ==
    /\ Acquire(p, "package")
    /\ UNCHANGED <<media, run, tmp, src, ver, clock, loaded>>

(* The lock, and the fences again: the program that held it may have       *)
(* fenced while this one waited (exit 3).                                  *)
SaveLock(p) ==
    /\ ~Fenced
    /\ Acquire(p, "package")
    /\ UNCHANGED <<media, run, tmp, src, ver, clock, loaded>>

SaveRefused(p) ==
    /\ Fenced
    /\ At(p, "wait")
    /\ lock = "free"
    /\ pc' = [pc EXCEPT ![p] = "idle"]
    /\ UNCHANGED <<media, run, lock, tmp, src, ver, clock, loaded>>

(* lbu package into /tmp; the candidate is intact and differs from the     *)
(* canonical (unclaim writes even an identical one).                       *)
SavePackage(p) ==
    /\ Step(p, "package", "copy")
    /\ Room
    /\ mounted
    /\ tmp' = Package
    /\ p = "unclaim" \/ tmp' # canon
    /\ UNCHANGED <<media, run, src, ver, clock, loaded>>

(* Every way out before the media changes: low space, lbu package, the     *)
(* integrity and fit checks, an identical candidate, the remount, the copy *)
(* to .new. The EXIT trap removes .new.                                    *)
SaveQuit(p) ==
    /\ up /\ pc[p] \in {"package", "copy"}
    /\ Release(p)
    /\ ovlNew' = IF pc[p] = "copy" THEN None ELSE ovlNew
    /\ UNCHANGED <<canon, canonTs, kg, kgNew, rots, mimg, p1, run, src, ver,
                   clock, loaded>>

(* cp "$tmp" "$OVL.new"; sync *)
SaveCopy(p) ==
    /\ Step(p, "copy", "rotate")
    /\ ovlNew' = tmp
    /\ UNCHANGED <<canon, canonTs, kg, kgNew, rots, mimg, p1, run, tmp, src,
                   ver, clock, loaded>>

Rotated(o) == {r \in rots : r.ts # canonTs} \cup {[ts |-> canonTs, ovl |-> o]}

(* Mutant of SaveRotate: lbu commit's way, the canonical is renamed away. *)
SaveRotateByRename(p) ==
    /\ Step(p, "rotate", "install")
    /\ rots' = Rotated(canon)
    /\ canon' = None
    /\ UNCHANGED <<canonTs, ovlNew, kg, kgNew, mimg, p1, run, tmp, src, ver,
                   clock, loaded>>

(* The old canonical is COPIED to its rotation name; a failed copy may     *)
(* leave nothing or a torn file, and the save goes on.                     *)
SaveRotate(p) ==
    /\ Step(p, "rotate", "install")
    /\ \/ rots' = Rotated(canon)
       \/ /\ "rotation" \in Fault
          /\ rots' \in {rots, Rotated(Torn)}
    /\ UNCHANGED <<canon, canonTs, ovlNew, kg, kgNew, mimg, p1, run, tmp, src,
                   ver, clock, loaded>>

(* mv "$OVL.new" "$OVL": the one rename. *)
SaveInstall(p) ==
    /\ Step(p, "install", IF p = "unclaim" THEN "kgcopy" ELSE "prune")
    /\ WriteCanon(ovlNew)
    /\ ovlNew' = None
    /\ UNCHANGED <<kg, kgNew, rots, mimg, p1, run, tmp, src, ver, loaded>>

Younger(r) == {q \in rots : q.ts > r.ts}

(* Mutant of SavePrune: the newest rotations go. *)
SavePruneNewest(p) ==
    /\ At(p, "prune")
    /\ rots' = {r \in rots : Cardinality({q \in rots : q.ts < r.ts}) < LIMIT}
    /\ Release(p)
    /\ UNCHANGED <<canon, canonTs, ovlNew, kg, kgNew, mimg, p1, run, src, ver,
                   clock, loaded>>

(* Rotations beyond LIMIT go, oldest first; the save exits. *)
SavePrune(p) ==
    /\ At(p, "prune")
    /\ rots' = {r \in rots : Cardinality(Younger(r)) < LIMIT}
    /\ Release(p)
    /\ UNCHANGED <<canon, canonTs, ovlNew, kg, kgNew, mimg, p1, run, src, ver,
                   clock, loaded>>

SaveSteps(p) ==
    \/ SaveLock(p) \/ SaveRefused(p) \/ SavePackage(p) \/ SaveQuit(p)
    \/ SaveCopy(p) \/ SaveRotate(p) \/ SaveInstall(p)

Save(p) == SaveStart(p) \/ SaveSteps(p) \/ SavePrune(p)

-----------------------------------------------------------------------------
(* pipeos unclaim: RAM is scrubbed piece by piece, the provisioned marker  *)
(* last, and one save in unclaim mode makes the media nobody's.            *)

UnclaimStart ==
    /\ At("unclaim", "idle")
    /\ Provisioned
    /\ ~Fenced
    /\ ram' = [ram EXCEPT !.own = "part"]
    /\ Goto("unclaim", "scrub")
    /\ UNCHANGED <<media, up, mounted, rbFence, flFence, lock, tmp, src, ver,
                   clock, loaded>>

(* A step of the scrub failed ("NOT saved; do not hand this box on").      *)
UnclaimAbort ==
    /\ At("unclaim", "scrub")
    /\ Goto("unclaim", "idle")
    /\ UNCHANGED <<media, run, lock, tmp, src, ver, clock, loaded>>

(* rm provisioned, then pipeos-save's own first fence check. *)
UnclaimSave ==
    /\ At("unclaim", "scrub")
    /\ ram' = [ram EXCEPT !.own = "nobody"]
    /\ Goto("unclaim", IF Fenced THEN "idle" ELSE "wait")
    /\ UNCHANGED <<media, up, mounted, rbFence, flFence, lock, tmp, src, ver,
                   clock, loaded>>

(* cp "$OVL" "$KNOWN_GOOD.new": its failure is not looked at, and the      *)
(* rename is skipped.                                                      *)
UnclaimKgCopy ==
    /\ \/ /\ Step("unclaim", "kgcopy", "kginstall")
          /\ kgNew' = canon
       \/ /\ "unclaim-known-good" \in Fault
          /\ Step("unclaim", "kgcopy", "wipe")
          /\ kgNew' = Torn
    /\ UNCHANGED <<canon, canonTs, ovlNew, kg, rots, mimg, p1, run, tmp, src,
                   ver, clock, loaded>>

UnclaimKgInstall ==
    /\ Step("unclaim", "kginstall", "wipe")
    /\ kg' = kgNew
    /\ kgNew' = None
    /\ UNCHANGED <<canon, canonTs, ovlNew, rots, mimg, p1, run, tmp, src, ver,
                   clock, loaded>>

(* Mutant of UnclaimWipe: the rotations are pruned as in any other save. *)
UnclaimWipePrunes ==
    /\ At("unclaim", "wipe")
    /\ rots' = {r \in rots : Cardinality(Younger(r)) < LIMIT}
    /\ pc' = [pc EXCEPT !["unclaim"] = "done"]
    /\ lock' = "free"
    /\ tmp' = None
    /\ UNCHANGED <<canon, canonTs, ovlNew, kg, kgNew, mimg, p1, run, src, ver,
                   clock, loaded>>

(* rm the rotations, exit 0: "unclaimed; rebooting into the wizard". *)
UnclaimWipe ==
    /\ At("unclaim", "wipe")
    /\ rots' = {}
    /\ pc' = [pc EXCEPT !["unclaim"] = "done"]
    /\ lock' = "free"
    /\ tmp' = None
    /\ UNCHANGED <<canon, canonTs, ovlNew, kg, kgNew, mimg, p1, run, src, ver,
                   clock, loaded>>

Unclaim ==
    \/ UnclaimStart \/ UnclaimAbort \/ UnclaimSave \/ SaveSteps("unclaim")
    \/ UnclaimKgCopy \/ UnclaimKgInstall \/ UnclaimWipe

-----------------------------------------------------------------------------
(* pipeos rollback SRC (and pipeos flash restore-identity FILE).           *)

(* The contents a source names: no element when there is no such file.     *)
Named(s) ==
    CASE s.kind = "known-good" -> {kg} \ {None}
      [] s.kind = "rotation"   -> {r.ovl : r \in {q \in rots : q.ts = s.ts}}
      [] OTHER                 -> {s.ovl}

(* ... and what can be read of it: a bundle lies outside the media. *)
SourceFile(s) == IF mounted \/ s.kind = "path" THEN Named(s) ELSE {}

Sources ==
    {[kind |-> "known-good", ts |-> 0, ovl |-> None]}
      \cup {[kind |-> "rotation", ts |-> r.ts, ovl |-> None] : r \in rots}
      \cup {[kind |-> "path", ts |-> 0, ovl |-> b] : b \in Bundle}

(* Refused while a new image is pending; the source exists and untars.     *)
(* All of it is looked at before the lock.                                 *)
RollbackStart ==
    /\ At("rollback", "idle")
    /\ ~flFence
    /\ \E s \in Sources :
          /\ SourceFile(s) # {} /\ SourceFile(s) \subseteq Ovl
          /\ src' = s
    /\ Goto("rollback", "wait")
    /\ UNCHANGED <<media, run, lock, tmp, ver, clock, loaded>>

RollbackLock ==
    /\ Acquire("rollback", "copy")
    /\ UNCHANGED <<media, run, tmp, src, ver, clock, loaded>>

(* cp "$src" "$OVL.new"; sync *)
RollbackCopy ==
    /\ Step("rollback", "copy", "install")
    /\ Room
    /\ mounted
    /\ ovlNew' \in SourceFile(src)
    /\ UNCHANGED <<canon, canonTs, kg, kgNew, rots, mimg, p1, run, tmp, src,
                   ver, clock, loaded>>

(* The remount or the copy failed (the source may be gone by now).         *)
RollbackQuit ==
    /\ At("rollback", "copy")
    /\ Release("rollback")
    /\ ovlNew' = None
    /\ src' = NoSource
    /\ UNCHANGED <<canon, canonTs, kg, kgNew, rots, mimg, p1, run, ver, clock,
                   loaded>>

(* mv, then the fence, still under the lock. *)
RollbackInstall ==
    /\ At("rollback", "install")
    /\ WriteCanon(ovlNew)
    /\ ovlNew' = None
    /\ rbFence' = TRUE
    /\ src' = NoSource
    /\ Release("rollback")
    /\ UNCHANGED <<kg, kgNew, rots, mimg, p1, up, mounted, ram, flFence, ver,
                   loaded>>

Rollback ==
    \/ RollbackStart \/ RollbackLock \/ RollbackCopy \/ RollbackQuit
    \/ RollbackInstall

-----------------------------------------------------------------------------
(* pipeos-selfcheck --boot, section 6: the promotion. Section 1 to 5 found *)
(* nothing critical; they run for minutes beside everything else.          *)

PromoteStart ==
    /\ At("promote", "idle")
    /\ mounted
    /\ canon # None
    /\ Goto("promote", "wait")
    /\ UNCHANGED <<media, run, lock, tmp, src, ver, clock, loaded>>

PromoteLock ==
    /\ kg # canon
    /\ Acquire("promote", "kgcopy")
    /\ UNCHANGED <<media, run, tmp, src, ver, clock, loaded>>

(* "already promoted" *)
PromoteSkip ==
    /\ At("promote", "wait")
    /\ lock = "free"
    /\ kg = canon
    /\ Goto("promote", "idle")
    /\ UNCHANGED <<media, run, lock, tmp, src, ver, clock, loaded>>

PromoteCopy ==
    /\ Step("promote", "kgcopy", "kginstall")
    /\ mounted
    /\ kgNew' = canon
    /\ UNCHANGED <<canon, canonTs, ovlNew, kg, rots, mimg, p1, run, tmp, src,
                   ver, clock, loaded>>

PromoteQuit ==
    /\ At("promote", "kgcopy")
    /\ Release("promote")
    /\ kgNew' = None
    /\ UNCHANGED <<canon, canonTs, ovlNew, kg, rots, mimg, p1, run, src, ver,
                   clock, loaded>>

PromoteInstall ==
    /\ At("promote", "kginstall")
    /\ kg' = kgNew
    /\ kgNew' = None
    /\ Release("promote")
    /\ UNCHANGED <<canon, canonTs, ovlNew, rots, mimg, p1, run, src, ver,
                   clock, loaded>>

Promote ==
    \/ PromoteStart \/ PromoteLock \/ PromoteSkip \/ PromoteCopy
    \/ PromoteQuit \/ PromoteInstall

-----------------------------------------------------------------------------
(* pipeos-flash apply, in place. The decompression between ApplyStart and  *)
(* ApplyLock takes minutes.                                                *)

ApplyStart ==
    /\ At("apply", "idle")
    /\ Provisioned
    /\ ~rbFence
    /\ Goto("apply", "wait")
    /\ UNCHANGED <<media, run, lock, tmp, src, ver, clock, loaded>>

ApplyLock ==
    /\ Acquire("apply", "package")
    /\ UNCHANGED <<media, run, tmp, src, ver, clock, loaded>>

(* lbu package, then merge_apkovl: image i's overlay over this identity    *)
(* (etc/pipeos, the fence file in it, is the identity's).                  *)
ApplyMerge ==
    /\ Step("apply", "package", "confirm")
    /\ Room
    /\ \E i \in Image : tmp' = [Package EXCEPT !.img = i]
    /\ UNCHANGED <<media, run, src, ver, clock, loaded>>

(* Every die before the point of no return, and the --to path, which       *)
(* writes another disk. A quiesce_media that fails on a second mount of p1 *)
(* has unmounted the first and does not mount it again.                    *)
ApplyQuit ==
    /\ up /\ pc["apply"] \in {"package", "confirm"}
    /\ Release("apply")
    /\ mounted' \in (IF pc["apply"] = "confirm" THEN {mounted, FALSE} ELSE {mounted})
    /\ UNCHANGED <<media, up, ram, rbFence, flFence, src, ver, clock, loaded>>

(* The hostname was typed; the media are unmounted and dd starts.          *)
ApplyErase ==
    /\ Step("apply", "confirm", "dd")
    /\ mounted' = FALSE
    /\ p1' = "writing"
    /\ canon' = Torn /\ kg' = None /\ rots' = {}
    /\ ovlNew' = None /\ kgNew' = None
    /\ UNCHANGED <<canonTs, mimg, up, ram, rbFence, flFence, tmp, src, ver,
                   clock, loaded>>

(* dd ends, the label is there, the media are mounted: image i with its    *)
(* own generic apkovl.                                                     *)
ApplyWritten ==
    /\ Step("apply", "dd", "identity")
    /\ p1' = "ok"
    /\ mimg' = tmp.img
    /\ canon' = Generic(tmp.img)
    /\ canonTs' = 0
    /\ mounted' = TRUE
    /\ UNCHANGED <<ovlNew, kg, kgNew, rots, up, ram, rbFence, flFence, tmp,
                   src, ver, clock, loaded>>

(* A die past the point of no return: a failed dd leaves no file system, a *)
(* failed mount or install_identity the image's generic apkovl. The fence  *)
(* is not written.                                                         *)
ApplyDies ==
    /\ "late-apply" \in Fault
    /\ up /\ pc["apply"] \in {"dd", "identity"}
    /\ Release("apply")
    /\ ovlNew' = None
    /\ mounted' \in (IF pc["apply"] = "dd" THEN {FALSE} ELSE BOOLEAN)
    /\ UNCHANGED <<canon, canonTs, kg, kgNew, rots, mimg, p1, up, ram, rbFence,
                   flFence, src, ver, clock, loaded>>

(* install_identity: .new, then the rename. *)
ApplyIdentity ==
    /\ Step("apply", "identity", "kgdirect")
    /\ WriteCanon(tmp)
    /\ ovlNew' = None
    /\ UNCHANGED <<kg, kgNew, rots, mimg, p1, run, tmp, src, ver, loaded>>

(* install_identity: cp straight onto known-good ("|| true"), rm rotations. *)
ApplyKnownGood ==
    /\ Step("apply", "kgdirect", "fence")
    /\ \/ kg' = tmp
       \/ "late-apply" \in Fault /\ kg' = Torn
    /\ rots' = {}
    /\ UNCHANGED <<canon, canonTs, ovlNew, kgNew, mimg, p1, run, tmp, src, ver,
                   clock, loaded>>

(* Mutant of ApplyFence: the lock is dropped, the fence is not written. *)
ApplyForgetsFence ==
    /\ At("apply", "fence")
    /\ Release("apply")
    /\ UNCHANGED <<media, run, src, ver, clock, loaded>>

(* flash-pending, the last act under the lock. *)
ApplyFence ==
    /\ At("apply", "fence")
    /\ flFence' = TRUE
    /\ Release("apply")
    /\ UNCHANGED <<media, up, mounted, ram, rbFence, src, ver, clock, loaded>>

Apply ==
    \/ ApplyStart \/ ApplyLock \/ ApplyMerge \/ ApplyQuit \/ ApplyErase
    \/ ApplyWritten \/ ApplyDies \/ ApplyIdentity \/ ApplyKnownGood
    \/ ApplyFence

-----------------------------------------------------------------------------
(* The box around them.                                                    *)

(* Any change of configuration the box would want to keep. *)
Configure ==
    /\ up /\ ver < MaxVer
    /\ ver' = ver + 1
    /\ ram' = [ram EXCEPT !.st = ver + 1]
    /\ UNCHANGED <<media, up, mounted, rbFence, flFence, lock, pc, tmp, src,
                   clock, loaded>>

(* The web claim of a box that is nobody's (or half scrubbed); the save    *)
(* that follows is a saver's (SaveStart). *)
Claim ==
    /\ up /\ ram.own # "owner"
    /\ "unclaim" \in Actor => pc["unclaim"] \in Resting
    /\ ram' = [ram EXCEPT !.own = "owner"]
    /\ UNCHANGED <<media, up, mounted, rbFence, flFence, lock, pc, tmp, src,
                   ver, clock, loaded>>

(* The lock holder is in the middle of a cp onto this file. *)
Writing(l) == lock # "free" /\ pc[lock] = l

(* Power goes, or an orderly reboot ends: RAM, the tmpfs fences and every  *)
(* process are gone. A file a cp was writing may be torn; a left-over .new *)
(* is not kept here, every writer copies over it before reading it.        *)
PowerLoss ==
    /\ up
    /\ up' = FALSE /\ mounted' = FALSE
    /\ ovlNew' = None /\ kgNew' = None
    /\ rots' \in {rots} \cup (IF Writing("rotate") THEN {Rotated(Torn)} ELSE {})
    /\ kg' \in {kg} \cup (IF Writing("kgdirect") THEN {Torn} ELSE {})
    /\ ram' = [st |-> 0, img |-> mimg, own |-> "nobody"]
    /\ rbFence' = FALSE /\ flFence' = FALSE
    /\ lock' = "free" /\ tmp' = None /\ src' = NoSource
    /\ pc' = [p \in Proc |-> IF pc[p] = "absent" THEN "absent" ELSE "idle"]
    /\ UNCHANGED <<canon, canonTs, mimg, p1, ver, clock, loaded>>

(* The initramfs unpacks the canonical apkovl into RAM - the fence file    *)
(* with the rest, should it carry it.                                      *)
Boot ==
    /\ ~up
    /\ p1 = "ok"
    /\ canon \in Ovl
    /\ up' = TRUE /\ mounted' = TRUE
    /\ ram' = [st |-> canon.st, img |-> canon.img, own |-> canon.own]
    /\ rbFence' = canon.rb
    /\ loaded' = canon
    /\ UNCHANGED <<media, flFence, lock, pc, tmp, src, ver, clock>>

(* "unbootable until reflashed": the stick is written at another machine.  *)
Reflash ==
    /\ ~up
    /\ p1 = "writing"
    /\ p1' = "ok"
    /\ \E i \in Image : mimg' = i /\ canon' = Generic(i)
    /\ canonTs' = 0
    /\ UNCHANGED <<ovlNew, kg, kgNew, rots, run, lock, pc, tmp, src, ver, clock,
                   loaded>>

Box == Configure \/ Claim \/ PowerLoss \/ Boot \/ Reflash

Next ==
    \/ \E p \in Saver : Save(p)
    \/ \E p \in Proc : GiveUp(p)
    \/ "rollback" \in Actor /\ Rollback
    \/ "promote" \in Actor /\ Promote
    \/ "apply" \in Actor /\ Apply
    \/ "unclaim" \in Actor /\ Unclaim
    \/ Box

Spec == Init /\ [][Next]_vars

(* The scheduler runs every pipeos-save that started, and its poll loop    *)
(* ends: nothing else is assumed to make progress (apply waits for a typed *)
(* hostname while it holds the lock).                                      *)
SaverStep(p) == SaveSteps(p) \/ SavePrune(p) \/ GiveUp(p)

FairSpec == Spec /\ \A p \in Saver : WF_vars(SaverStep(p))

-----------------------------------------------------------------------------
(* Properties.                                                             *)

OnMedia == ({canon, kg} \cup {r.ovl : r \in rots}) \cap Ovl

(* Whatever step the power goes in, the media hold a complete canonical    *)
(* apkovl, so the next boot comes up as this box: pipeos-save's header     *)
(* ("the canonical file exists at every instant"). The one exception is a  *)
(* dd that did not finish, the documented point of no return.              *)
CanonicalIntact == p1 = "ok" => canon \in Ovl

(* RAM is never saved over what a rollback staged or an apply merged, even *)
(* by a save that passed its first fence check before the fence existed    *)
(* and queued for the lock (pipeOS#276).                                   *)
SavesRespectFences ==
    [][\A p \in SaveProc : (lock = p /\ canon' # canon) => ~Fenced]_vars

(* No apkovl on the media brings the rollback fence back at boot: "the     *)
(* fence lives in tmpfs and clears itself at reboot" (pipeos rollback).    *)
FenceNotSaved == \A o \in OnMedia : ~o.rb

(* Every apkovl on the media carries the overlay of the image it lies      *)
(* beside: the box never boots its old overlay off a new image, from the   *)
(* canonical, the known-good or a rotation (pipeos-flash, pipeOS#276).     *)
OverlayMatchesImage == p1 = "ok" => \A o \in OnMedia : o.img = mimg

(* While flash-pending stands the canonical is one merged for the image    *)
(* that was applied; cmd_rollback's refusal names the case it prevents.    *)
FlashFenceProtects == (flFence /\ p1 = "ok") => canon \in Ovl /\ canon.img = mimg

(* When unclaim reports success nothing of the old owner is left on the    *)
(* media, whoever else was saving, promoting or applying meanwhile.        *)
UnclaimLeavesNothing ==
    ("unclaim" \in Actor /\ pc["unclaim"] = "done") =>
        \A o \in OnMedia : o.own = "nobody"

(* What the selfcheck promotes to known-good is the apkovl this boot       *)
(* loaded: "this apkovl booted and nothing is critical".                   *)
PromotesWhatBooted == [][(lock = "promote" /\ kg' # kg) => kg' = loaded]_vars

UndoStep ==
    /\ canon' # canon => (\E r \in rots' : r.ovl = canon)
    /\ \A r \in rots : (\A q \in rots' : q.ts # r.ts) =>
                         (\A q \in rots' : q.ts > r.ts)

(* A save can be undone: the canonical it replaced is a rotation, and the  *)
(* pruning that follows drops no rotation younger than one it keeps.       *)
UndoKept == [][(lock \in Saver /\ up') => UndoStep]_vars

(* A pipeos-save that started ends: it saves, refuses, or gives the lock   *)
(* up, even beside an apply that holds it for ever at its prompt.          *)
SaveEnds == \A p \in Saver : pc[p] \notin Resting ~> pc[p] \in Resting

-----------------------------------------------------------------------------
(* The inductive invariant behind the proofs (BootMediaProofs.tla).        *)

(* The labels at which a program holds /run/pipeos-save.lock. *)
Inside == {"package", "copy", "rotate", "install", "prune", "kgcopy",
           "kginstall", "wipe", "confirm", "dd", "identity", "kgdirect",
           "fence"}

(* One media mutator at a time, and none while the box is off. *)
LockInv ==
    /\ \A p \in Proc : pc[p] \in Inside <=> lock = p
    /\ ~up => lock = "free"

(* Past its packaging, a save or an apply has a whole candidate. *)
CandidateInv ==
    \A p \in SaveProc \cup (Actor \cap {"apply"}) :
        pc[p] \in {"copy", "rotate", "install", "confirm", "dd", "identity",
                  "kgdirect", "fence"} => tmp \in Ovl

(* A fence is never raised under a save that holds the lock. *)
FenceInv == \A p \in SaveProc : lock = p => ~Fenced

(* What is about to be renamed onto the canonical or the known-good is     *)
(* whole, and so is what the running rollback was asked to stage.          *)
WholeInv ==
    /\ mounted => p1 = "ok"
    /\ ("apply" \in Actor /\ pc["apply"] = "identity") => p1 = "ok"
    /\ p1 = "ok" => canon \in Ovl
    /\ \A p \in Proc : pc[p] \in {"rotate", "install"} => ovlNew \in Ovl
    /\ \A p \in SaveProc : pc[p] \in {"copy", "rotate", "install", "prune",
                                    "kgcopy", "kginstall"} => mounted
    /\ \A p \in Proc : pc[p] = "kginstall" => kgNew \in Ovl
    /\ ("rollback" \in Actor /\ pc["rollback"] \in {"wait", "copy"}) =>
           Named(src) \subseteq Ovl

(* Outside an apply, and until flash-pending, RAM runs the image that is   *)
(* on the media; candidates under way carry its overlay.                   *)
Applying == "apply" \in Actor /\ pc["apply"] \in {"dd", "identity", "kgdirect", "fence"}

Mine(o) == o \in Ovl => o.img = mimg

ImageInv ==
    /\ (up /\ ~flFence /\ ~Applying) => ram.img = mimg
    /\ OverlayMatchesImage
    /\ p1 = "writing" => kg = None /\ rots = {}
    /\ src.ovl = None
    /\ \A p \in Proc : pc[p] \in {"rotate", "install"} => Mine(ovlNew)
    /\ \A p \in Proc : pc[p] = "kginstall" => Mine(kgNew)
    /\ \A p \in SaveProc : pc[p] \in {"copy", "rotate", "install"} => Mine(tmp)
    /\ \A p \in SaveProc : pc[p] \in {"copy", "rotate", "install", "prune",
                                    "kgcopy", "kginstall"} => mounted
    /\ mounted => p1 = "ok"
    /\ ("apply" \in Actor /\ pc["apply"] \in {"identity", "kgdirect", "fence"}) =>
           Mine(tmp) /\ p1 = "ok"
    /\ (up /\ p1 = "writing") => Applying
    /\ ("apply" \in Actor /\ pc["apply"] = "dd") => p1 = "writing"

(* A rotation is a copy of the canonical it makes room for, and stays until*)
(* the save that made it has renamed its candidate into place.             *)
UndoInv ==
    /\ IsFiniteSet(rots)
    /\ \A p \in Saver : pc[p] = "install" => \E r \in rots : r.ovl = canon

(* Nobody's: an apkovl that carries no owner (or no apkovl at all). *)
Freed(o) == o \in Ovl => o.own = "nobody"

Unclaiming(labels) == "unclaim" \in Actor /\ pc["unclaim"] \in labels

(* From the removal of the provisioned marker on the running system is     *)
(* nobody's; each file the unclaim has passed is too, and once it is done  *)
(* so is everything any later program may have under way.                  *)
UnclaimInv ==
    /\ src.ovl \in Bundle \cup {None}
    /\ Unclaiming({"wait", "done"} \cup Inside) => up /\ ram.own = "nobody"
    /\ Unclaiming({"copy", "rotate", "install"}) => Freed(tmp)
    /\ Unclaiming({"rotate", "install"}) => Freed(ovlNew)
    /\ Unclaiming({"kgcopy", "kginstall", "wipe"}) => Freed(canon)
    /\ Unclaiming({"kginstall"}) => Freed(kgNew)
    /\ Unclaiming({"wipe"}) => Freed(kg)
    /\ Unclaiming({"done"}) =>
         /\ \A o \in OnMedia : Freed(o)
         /\ Freed(tmp)
         /\ \A p \in Proc : pc[p] \in {"rotate", "install"} => Freed(ovlNew)
         /\ \A p \in Proc : pc[p] = "kginstall" => Freed(kgNew)

=============================================================================
