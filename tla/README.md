# A TLA+ model of pipeOS

pipeOS is a diskless Alpine appliance: a Machine boots from one archive on a
vfat stick, runs from RAM, updates its own packages and image over the network,
joins a cluster with other Machines on the LAN, runs scheduled agents, and
keeps their secrets and their spending. Most of it is shell scripts under
`overlay/usr/local/bin` and Python under `overlay/usr/local/share/pipeos/web`
that run beside each other, share files and locks, and may lose their power at
any step. This directory holds TLA+ modules for the parts where that is hard
to get right, the TLC configurations that check them on small instances, and
TLAPS proofs of the properties that matter most.

`PROJECT.json` maps every definition to the source lines it stands for, and
lists runs, mutants, hazards, findings and theorems.

## The system

| Component | State it keeps | Operations | Talks to |
|---|---|---|---|
| Boot media (`pipeos-save`, `pipeos rollback`, `pipeos-selfcheck --boot` section 6, `pipeos-flash apply`, `pipeos unclaim`) | canonical apkovl, known-good, rotations, the image on p1; `/run/pipeos-save.lock`, `rollback-pending`, `flash-pending` | save, rollback, promote, apply, unclaim | everyone who wants a change kept calls `pipeos-save` |
| Package update (`pipeos-selfupdate`, `pipeos-sync-media`) | `apks/pipeos` on the media, the source tree on `/data`, the stamp and the clock, lbu's include list | probe, fetch, guard, swap, upgrade, save, verify, stamp | the origin, the save lock, `pipeos-save`, `pipeos verify` |
| Rolling image update (`image_update`, `rolling_ok`) | per box: release on the media, verdict, mark `/run/pipeos/updating`, fence | tick, ask all members, go or hold, fetch, write, reboot, report | every member's listener |
| Cluster membership (`cluster.py`, webd's `/api/cluster`) | per box: `cluster.json` in RAM and saved, a join token, `MUTATE_LOCK` | init, add, join, join-via, add-request, remove, push, sync, reconcile | other members' listeners; the save |
| Schedule (`schedtick.py`, `schedctl.py`, `pipeos-schedule-run`, webd's `/api/schedule`) | `schedule.json`, `state.json`, sessions, a lock per box, pause markers | tick, run now, run, set, remove | hot set, ledger, vault, cluster DM |
| Hot set and work disk (`pipeos-work`) | the RAM copy of agents' state, its last flush, whether `/data` is parked | flush, park, unpark | schedule, shutdown |
| Ledger (`ledger.py`) | the months' files of rows, a cursor with a ring of seen ids, caps, `paused.json` and the plain marker, markers of messages sent | a pass over the transcripts, `enforce_cap`, `set_cap` | the runner's `runs.log`, the gates of schedule and listener, peers' notes |
| Vault (`vault.py`, `pipeos-vault`) | the envelope `vault.sealed`, the plain files it replaces, the exports under `/run/pipeos/secrets` | init, migrate, set, delete, unlock, rephrase, export, the boot service | webd, the command line, the save |
| Secret sharing (webd's `/api/secrets`) | who has which value ("shared with"), requests and their state on every box | set, delete, share, unshare, request, approve, deny, close, offer again | other members' listeners, under both `MUTATE_LOCK`s |
| Claim, sessions, accounts (`webd.py`, `nasctl.py`, `pipeos-user`) | `web-admin.conf`, `users.json`, the unix accounts, the claim's mark, sessions | claim, sign in, change and reset a password, add, change and remove users, storage accounts | the save, unclaim |
| Others | see `PROJECT.json` "components": backup and restore, overlay deployment, garbage collection, cohort watch and listener, LAN discovery, one-shot configuration, probes, boot sequence, dashboard, image build | | |

What is hard in it:

- Five programs write one partition under one lock, and the checks that decide
  whether they may (fences, sources, "this apkovl booted") are often made before
  the lock is taken.
- Power can go between any two steps; vfat has a rename and nothing else.
- Failures that a script notes and survives (`|| true`, "continuing").
- A rule without leader, lock or clock decides which box updates next, from
  rows that were each true at another moment.
- Jobs, ticks and page views of one box meet in a lock, a table in RAM and a disk
  that any of them may remount; what survives a power cut is the last flush.
- A listener holds its only lock across requests to other listeners that hold
  theirs, and a request whose caller gave up is served later all the same.
- A command line (`pipeos vault`, `pipeos nas`, `pipeos cluster`) writes the files the dashboard
  reads, changes and writes under a lock that the command line does not take.
- Files that must agree are written one after the other (a fallback password and the
  table of users, rows and the cursor, an envelope and its exports), and a kill or a
  save may come in between.

## Modules

`BootMedia`, `PackageUpdate`, `RollingUpdate`, `Cluster`, `Schedule`, `Vault`, `Secrets`,
`Accounts` and `Ledger` are the components' modules, `SecretStore` is what `Vault`
implements; `MC*` gives each its small instance; `*Proofs` holds the theorems. Those about
`RollingUpdate` are in `ClusterProofs`, which extends both: they are about the members of one cluster (hence
`RollInit`, `RollSpec` and so on in `RollingUpdate`).

### BootMedia

Files are values: an apkovl is a record of what its readers tell apart (which
configuration, which image's overlay, whether the rollback fence is among its
files, whose it is), or `None`, or `Torn`. The media variables survive
`PowerLoss`; RAM, fences, lock and programs do not. Every `cp`, `mv` and
`rm` that changes the media is a step of its own, so power can go between any
two; a file a `cp` was writing may be torn by it. `pipeos-save` is
`SaveStart, SaveLock | SaveRefused | GiveUp, SavePackage, SaveCopy, SaveRotate,
SaveInstall, SavePrune` with `SaveQuit` for the exits before the rename. `unclaim`
runs the same steps in its unclaim mode. The minutes `apply` decompresses lie
between `ApplyStart` and `ApplyLock`. `Fault` names the failures the code
survives without undoing. What a configuration holds, low space, the fit
check and remounts are abstracted into the quit steps; only one run each of
rollback, promotion, apply and unclaim takes part.

### PackageUpdate

The repo on the media and its two siblings of the swap (`dst`, `dstNew`,
`dstOld`), the source tree, the canonical apkovl's identity paths, the stamp and
the daily clock. A tree is a release, `None` or `Partial`. A release of
`Resolving` is one the box's world resolves against, so `apk fix --simulate` and
`pipeos verify` have something to find. Releases are numbers by date, and the
origin only moves on. A save and an image apply are single steps, as
BootMedia's theorem says they may be: no reader sees a half-written canonical.

### RollingUpdate

One record per box: what its media hold, its last verdict, its mark and fence,
and how far its `pipeos-selfupdate` is. A page asks the members one by one in any
order (`Ask`), and every row keeps what was true when it was asked. `Clear` is
`rolling_ok`'s three questions. `Signal` is the trap that removes the mark while
`sh` goes on. `unjudged` is a ghost: applied, and not reported on since its boot.

### Cluster

A list is an id and a set of boxes. Each box has three processes: its listener at
a POST (`web`, one at a time: `Free`), `pipeos cluster` (`cli`) and a GET of its page (`page`),
the last two without the lock. An edit reads the list (`AddMember`, `StartRemove`, `Reconcile`) and
writes it (`WriteList`) in two steps, and what the others wrote in between is gone. What the listener does with
a request (`Join`, `TakeList`), the first list before an add and `init` are one step each, although a process
without the lock may write in the middle of these too. What is lost then is what `NeverMovedBack` and `Mutual` lose already (known
divergences); the properties that are checked do not turn on it: each list written has the box itself, and
the others are of boxes, or plays, where no such process writes. `net`
holds the requests on their way or queued behind a lock; `Timeout` leaves a
request there with `live` false, and it is served when the lock is free. A caller
that waits for a box that waits itself always may time out (`Blocked`); other
timeouts are counted. Certificates are abstract: `Trusted` is the handshake, each in
the other's list. What a box advertises on the LAN is its list's id, as of now.

### Schedule

A tick is two steps (`TickReads` before the lock, `TickFires` under it), and ends in
one detached shell for the minute's jobs. A shell is a record: which runner it
waits for, how far that is, which jobs it has left. The runner is `Check` (skip,
record, or proceed), `LooksAtDisk`, `Unparks`, `Locks`, `Begins`, `AgentWrites`, `AgentEnds`,
`Reparks`, `Remounts`. `hot` is the schedule's part of the hot set in RAM. A flush is two steps
under `hotset.lock` (`flusher`): the rsync (`Copies`) makes `copy` of it on `/data`, the sync
(`Syncs`) makes the copy and the transcripts last: `disk` and `synced`. A park goes on
to a second sync and the remount (`Remount`), which the kernel may refuse. The hourly flush (`Flush`), the
flush of a save (`SaveFlushes`), the owner's park (`OwnerParks`, `OwnerRemounts`) and a run's
share these. `Reboot` flushes; `PowerCut` leaves what the last sync left, and any part of what was
written since: each file of the hot set old or new (`Mixed`), each transcript there or not. A page that
looks whether a job runs takes the lock for a moment (`PageTakes`). Four variables are ghosts: `wanted`
(the owner parked), `refused` (the kernel refused a run's park, and none has succeeded
since), `torn` (conversations a cut within a flush took while it kept their marker) and `fires` (how
often a job was started in this minute). Caps, refusals and the assistant's
success are choices; reading and writing `state.json` under its lock is one step, and so is an
edit of the table.

Taken of what is not in the repository: a remount to read-write succeeds; a remount
to read-only may succeed between two writes of a run; claude fails without its
transcript, and has written it when its time is up; a pid named by a row from before
a boot is dead.

### Vault and SecretStore

One box's envelope as a file with a temporary name of its own (`file`, `new`), so that
two processes that store at once meet in it: a process that has the temporary file open
goes on writing into an inode that another may have renamed (`fd`, `Relinked`). A store is
`OpensNew, Writes, Renames`, then `AfterStore` (exports, plain files, the save). A load may
read a torn envelope. `Migrates` and `Shreds` are the two halves of a migration.
`PowerCut(c)` brings `/etc` back as last saved, in chassis `c`.

`SecretStore` is the abstract specification: a table of secrets that changes one whole
operation at a time and comes back as last saved. In a calm behaviour (`calm`: no command
line overlaps another process, no process is killed between two steps, see
`Clear`, `Killed`) `Vault` implements it; the refinement mapping takes a secret from
its plain file, from the envelope, or from the process that migrates it.

### Secrets

How a secret goes from box to box. A box has two processes, its listener and the
thread that offers its open requests again; `net` holds calls that wait for a box's lock,
as in `Cluster`. `SharesNext`, `OwnerApproves` and the like send a call and wait with the
lock; `GivesUp` is the timeout, after which the call is lost or served late, or the
answer was on its way. `note` is "shared with", `ask` and `view` are the requests and what
each box knows of them. `taken` and `doubt` are ghosts: copies taken for a request, and
pairs of boxes between which a call had no answer, or whose answer a power cut undid.

### Accounts

The claim, sign-in and every request that changes an account, one at a time (`web`, under
`MUTATE_LOCK`) with one step for each file it writes, a command line that takes no lock
(`cli`), saves by others, kills and power cuts. A password is a number, each a new one; a
session remembers the password and the role it came by. `ReadUsers` is the table a request
reads: without an admin who may sign in, `users.json` is not believed and
`web-admin.conf` counts. `pipeos-user` refuses, works, or fails before or after it has
done what it is for (`Made`, `NotMade`, `DeletesUnix`); a failed `add` ends the request and a
failed `del` does not.

### Ledger

A transcript is an inode and its lines, the last of which may be half written. A pass is
`PassStarts, Looks, Reads, CountsLine, AddsRows, SavesCursor` under its lock; `enforce_cap`
is `EnforceStarts, Tells, Marks, WritesJson, WritesPlain` without one, and `Collides` is what two
of them make of their shared temporary names. `Given` is what the code cannot help:
messages, more lines of one, a transcript replaced or cut short in place, runs of a job, caps
set by the owner, a peer's note, the next month.

### Casts and plays

All programs at once are more than TLC can enumerate, and most of them wait for
the same lock. BootMedia and PackageUpdate have a constant `Cast`: the initial
state picks which programs take part in that behaviour and the others are
`absent`. Cluster, Secrets, Accounts and Ledger have `Play`: what may happen in the
behaviour, and how often. Vault has `Calm`. Schedule has two constants instead: `HandPark`
(the owner parks and unparks `/data`; without it, it is never parked) and `Straddle` (a tick may outlive the minute it
read). The theorems hold for every `Cast`, every `Play` and every `Calm`.

## Runs

| Run | Instance | Shows |
|---|---|---|
| `boot_media` | two images, one rotation kept, three writes of the canonical, one configuration change; six casts of three or four programs | `CanonicalIntact` `OverlayMatchesImage` `UnclaimLeavesNothing` `SavesRespectFences` `UndoKept` |
| `boot_faults` | two saves and an apply, or a save, an apply and an unclaim; every fault | `CanonicalIntact` in spite of them; `SaveEnds` |
| `package_update` | three releases of which one does not resolve, one identity path, one power cut; two updaters, or one and a hand-run sync | `RepoNeverPartial` `SyncAllOrNothing` `StampedIsOnMedia` `IdentitySurvives` |
| `rolling_update` | three boxes, one release, one fault of any kind | `OneAtRisk` `EveryoneUpdates` |
| `cluster_lists` | four boxes; five plays | `SelfInList` for edits of any kind by anybody, `NeverMoved` for the boxes among them whose listener alone writes the list; `OneEditorAgrees` for six edits by one dashboard; `OneEditorIsMutual` for four by one command line; `EditsEnd`, also for three dashboards that wait for each other; `TypeOK` |
| `schedule_fires` | two ticks, two shells, a timed job and a manual one that waits for a secret, two minutes, one edit, one power cut | `FiredOnce` `RowsTrue` |
| `schedule_disk` | one continuing job started by hand, two shells, the owner's park, two conversations, one power cut at any step | `ParkedAgain` but for parks the kernel refused; `ResumesReal` but for what a cut within a flush tore |
| `vault_store` | two secrets of two values, two chassis, boot service, dashboard and one command line, two operations, one power cut | `ExportsCurrent` `SealedMedia`, and `Implements`: the refinement of SecretStore |
| `secrets_copies` | three boxes, one secret, one request; five plays of two or three taps with a late call or a power cut | `NotesTrue` `TakenOnce` `DoneHeld` `TypeOK` |
| `accounts_signins` | three names; six plays of three or four requests, with kills, a power cut, a command line, a failed `pipeos-user`, saves at any time | `LastAdminStays` `SessionsCurrent` `PlacesAgree` `MediaClaimWhole` |
| `ledger_spend` | two transcripts, two processes, a ring of two, three caps, two months; six plays | `NothingLost` `CountedOnce` `ToldOnce` `PausedInTheEnd` |
| `ledger_long_run` | one run of a job | the finding below |

A type invariant that is a theorem (`TypeCorrect` of BootMedia, PackageUpdate,
Schedule, Vault, Accounts, Ledger, `RollTypeCorrect`) is mostly no run's property; it is one of
`cluster_lists` and `secrets_copies`, where the messages are what is hard to type.

Why the bounds are enough. Two images tell old from new. Three writes are a
save, a rollback or apply on top of it, and a save after that; one rotation kept
makes the second save prune. Two savers are one that holds the lock and one that
passed its first fence check and queues. In `package_update` the second release
does not resolve, so a swap reverts, and a third comes to tell a stale stamp from
a true one; identity paths are left out where a hand-run sync takes part, which
never touches them. Three boxes are the fewest with a lowest, a next and a
bystander; the proof of `OneAtRisk` covers any number. Three dashboards can wait
in a cycle of three; a fourth box is one to add. Six edits let one box add,
remove and add again. Two shells are the holder of the runner's lock and one that
is refused; two ticks, crond's and one by hand, are the double invocation
`schedtick.py` speaks of; a shell with a queue of several jobs is left to the proofs. Two
conversations are one that is lost and its successor. Two secrets are the one that
changes and one that must not; two chassis tell home from elsewhere. A secret goes from
an owner by a copy to a third box. Three accounts are one that acts, one that it acts on
and one that must be left; four requests make an account, give it a role and use it. A
ring of two is one that three messages overflow; two processes overlap, and a third would
do what the second does. The proofs cover any number of all of these. Every bound is a guard of the step it bounds (`Room`,
`MaxCrash`, `Fault`, `Tally`, `Counts`, `MaxMinute`, `MaxSid`, `MaxEdit`, `MaxCut`, `MaxMint`, `MaxOps`, `MaxAsk`), and no bound stops a program that is under way.

Fairness. BootMedia: weak fairness of each save that runs (`SaverStep`), which
includes giving up after sixty polls; nothing is assumed of the other programs,
so an apply may wait at its prompt for ever. RollingUpdate: the hourly hook, a
box that was switched off is switched on, and the live check each hour finds a
sound box green (`Update`, `Boot`, `GoodReport`); no fairness for a release or a
fault. Cluster: each process that may be at work (`Worker`) goes on with its own
steps or times out (sockets do), and a listener that is at nothing serves what waits (`Runs`). Ledger: the worker's
thread starts a pass and an enforcement each minute and is started again when it dies, and
whoever is in the middle of one goes on; nothing is assumed of requests and command lines.
Schedule, Vault, Secrets and Accounts have no liveness property and assume no fairness:
nothing in the code promises that a job that fired runs, or that an owner answers.
`CHECK_DEADLOCK FALSE` is set where the bounds, or a box that is half written or
fully updated, may leave nothing to do.

## Findings

- `ledger_long_run` (`RunIsTheJobs`): a run of a job is in `runs.log` when it ends, and the
  ledger gives a row its job once, when it reads the line, a minute after it was written at
  most: what a run spends before its last minute is not counted against the job's cap.

Known divergences without a run: to see one, name the property in a copy of the
configuration given, with the constants given.

- `FenceNotSaved` (`MCBootMedia_media.cfg`, `Cast <- RollbackAndApply`, Saver `{}`, Actor `{"rollback", "apply"}`): a
  rollback staged while an apply decompresses is overwritten, and the merged apkovl carries
  the fence file: it comes back at every boot and no save runs again.
- `RollsBack` (`MCPackageUpdate_updates.cfg`, `Cast <- Alone`, Updater `{u1}`, Hand `{}`, IdPath `{}`): `pipeos rollback`
  without a name only lists, so an update that fails its verification is not rolled back.
- `Mutual` (`MCCluster_lists.cfg`, `Play <- OnlyWebJoin`, Box `{1, 2, 3}`): Join from the dashboard waits under the
  lock that the member's call back needs; the join is refused, then served, and is one-sided.
- `RunHasDisk` (`MCSchedule_disk.cfg`, MaxCut 0): `/data` is parked under the run that has the lock. The owner may do
  it between two writes; and a run looks whether `/data` is parked, and unparks it, before it asks
  for the lock, and parks it when it is refused.
- `ParkNotLost` (`MCSchedule_disk.cfg`, MaxCut 0): a run's own park is refused by the kernel while another run
  writes (`pipeos-work:133`), its message goes to `/dev/null` (`pipeos-schedule-run:211`) and it is not tried
  again; the run that was writing found `/data` unparked, so it parks nothing. `/data` the owner
  parked stays read-write. `ParkedAgain` is what is left: it allows that, and nothing else.
- `NothingTorn` (`MCSchedule_disk.cfg`): a power cut between the rsync of a flush (`pipeos-work:103`) and its sync
  (`:106`) leaves a conversation's resume marker on the stick and not its transcript; the job then
  resumes, at every run, what is gone. `pipeos-work:25` says that "one job firing a second time" is the
  worst of it. `ResumesReal` leaves these conversations out, and no others.
- `ConsumersFindFiles` (`MCVault_store.cfg`, Quoted `{"v2"}`, Cli `{}`, `Calm <- OnlyCalm`): a value with a quote or a
  newline is stored and never exported, and every later export fails with it
  (`vault.py:394`; `pipeos-vault:9` says that the consumers find their files).
- `PromotesWhatBooted` (BootMedia; cast `{s1, "promote"}`, Actor `{"promote"}`): a save after the boot replaces
  the canonical that the selfcheck then promotes as the one that booted.
- `FlashFenceProtects` (as `FenceNotSaved`, with `Bundle <- OldBundle`): `pipeos rollback` tests `flash-pending` before it queues
  for the lock and not again; it can stage an old bundle over a freshly merged apkovl.
- `UnclaimLeavesNothing` (BootMedia; `Cast <- SaveAndUnclaim`, Fault `{"unclaim-known-good"}`): a failed known-good copy in unclaim mode goes unnoticed
  and the owner's apkovl stays on the stick.
- `OverlayMatchesImage` with Fault `{"late-apply"}`: an apply that dies between its dd and its fence.
- `BootFindsRepo`, `BootRepoResolves`, `SyncLeavesRepo` (as `RollsBack`): a power cut
  between the two renames of the swap leaves no repo, a later sync does not
  put one back and says it succeeded; one before the check leaves a repo that does
  not resolve.
- `VerdictMovesClock` (as `RollsBack`): a fetch or verification that fails is tried again
  every hour, media swap included.
- `OneOut` and, with `MaxRelease = 2`, `OneAnswer` (RollingUpdate, two boxes): a second member goes while the first is
  rebooting; two members go at once for two releases.
- `EveryoneUpdates` (RollingUpdate, two boxes, `Off = {1}`): a member that takes no image and has the lowest id holds
  every other one back for ever.
- `NeverMovedBack` (`MCCluster_lists.cfg`, `Play <- OnlyShellAdds`, as a PROPERTY): the command line of a box reads its list
  of one to add a member (`cluster.py:281`), its listener meanwhile serves a join to another cluster, and the
  command line writes the old list back (`:287`): the box has left the cluster that lists it.
- `Mutual` (`Play <- OnlySameBox`): a dashboard and a command line of one box add at the same time; the later write
  drops the member that the earlier one added.
- `SameList` (`Play <- OnlyTwoAdd`; or any timeout) and `Belongs` (Cluster, any removal): lists carry no
  version, and a box that is removed is not told.
- `FiredOnce` with `Straddle = TRUE` (`MCSchedule_fires.cfg`): a tick that gets the lock after its minute sets
  `last_fired_minute` back, and the newer minute's job fires again.
- `ResumesReal` with `Backends = {"claude", "hermes"}` and MaxEdit 1 (`MCSchedule_disk.cfg`): a run under hermes leaves the resume
  marker; set back to claude, the job resumes a conversation that was never made,
  fails, and does so at every run.

Met while modelling Schedule, visible in its actions and not stated as properties:

- A page view (`PageTakes`) may hold the lock for the moment of a runner's `flock -n`: the run is
  skipped as if another one were running (`pipeos-schedule-run:215`, `webd.py:5017`).
- A job disabled while it waits in a shell's queue runs all the same; `webd.py:4902` says "Pause means
  pause" of the ways in, and the runner does not look (`Proceed`).
- A manual job whose secret lands while another job has the lock is not started, and
  nothing tries again (`SecretLands`, `webd.py:4955`).
- `Record` clears `running_pid` in the row of a run of the same job that is under way: the
  dashboard shows no job running.
- On a parked `/data` a new job's first run is refused by its `mkdir -p`
  (`pipeos-schedule-run:148`), which comes before the unpark.
- `pipeos-work-flush` leaves a parked `/data` alone because "nothing changed on it", but the hot set
  in RAM goes on changing: a power cut takes back everything since the park.

Of Vault, where behaviours are not calm:

- A command line's store, and a dashboard's, load the whole envelope and write it back: the later
  one undoes the other, and both use one temporary name.
- A process that dies between a migration's shredding and its store has lost the plain secrets.

Of Secrets:

- A box that offers a request again records the answer without looking what its own
  record has become: "denied" over "done" (`ReofferRecords`).
- `approve` sends a copy on to a third box, although `share` refuses one and
  `check-cluster.py:770` says that a copy is never forwarded onward.
- A power cut between the answer and the save of `ServesReceive` brings the request back as
  pending; offered again, it is closed as done, and the box has no secret (`DoneHeld` has `doubt` for it).
- "Shared with" is stamped in whole seconds: a value set in the second of the share reads as
  not stale.

Of Accounts:

- `pipeos nas account` reads, changes and writes `users.json` without `MUTATE_LOCK`: what the dashboard
  writes meanwhile is undone.
- A request that resets a password and has a key that is refused has changed
  `web-admin.conf` and ended the sessions, and leaves `users.json` as it was (`SetEnds`).
- `{"disabled": 1}` disables like `true` (`webd.py:4414`), but only `true` is asked whether an admin would be
  left (`webd.py:4408`): it takes the last one, against `web-wizard.md:188`. `LastAdminStays` leaves such requests
  ("odd") out; the play `Odd` sends them.
- A `pipeos-user add` that fails or is timed out after its `adduser` is answered with 500 and leaves a unix account
  without an entry (the name is then refused as "taken by a system account"); a `pipeos-user del` that fails is
  noted in `problems`, and the entry goes all the same. `PlacesAgree` allows for both (`count.fail`).
- The account admin, removed and made again, leaves the old password in `web-admin.conf`.
- An admin who switches himself off and sets a password in one request gets a new
  session of a disabled account.
- A dashboard that is killed in the middle of a claim leaves a claimed box without the mark;
  `pipeos-save` then saves nothing and says so with status 0, and the answers say "saved".
- The role of a session is the one it came with: a change of role does not end it.
- A save in the middle of a new account and a power cut after it leave a unix account without
  an entry in `users.json`; so does unclaim, which leaves the unix accounts of all.

Of Ledger:

- A transcript cut short in place that has grown past the cursor again looks as if it had
  only grown: the lines in between are not read (`NothingLost` leaves it out).
- A pass killed between the rows and the cursor appends its rows again (`CountedOnce` allows one for each kill).
- Two enforcements at once, or a kill between a message and its marker, tell the owner twice
  (`ToldOnce` leaves them out); a message that could not be sent is marked as sent.
- Two enforcements share the names `paused.json.new` and `paused.new` (`Collides`); the next minute
  puts it right (`PausedInTheEnd`).
- With more messages than the ring holds, a transcript that is replaced is counted again.

## Proofs

All theorems are of the form `Spec => []Inv` or `Spec => [][A]_vars`, for every
value of the constants that satisfies the modules' assumptions.

- `BootMediaProofs`. `Base == TypeOK /\ LockInv /\ CandidateInv /\ FenceInv` is inductive. `LockInv` says
  that the labels inside the critical section and the lock's holder determine each
  other, from which mutual exclusion (`OneMutator`) follows. `FenceInv` says that no
  fence is up while a save holds the lock: a fence is only raised by a holder of
  the lock and tested again by whoever takes it. That is `SavesAreFenced`.
  `CanonicalAlwaysWhole` adds `WholeInv` (what is about to be renamed is whole) and holds
  whatever fails, except that where a rollback may run no rotation copy and no late
  known-good copy fails half-way; `OverlayAlwaysMatches` adds `ImageInv` (until
  `flash-pending`, RAM runs the image on the media, and candidates carry its overlay)
  and holds without path bundles and late faults. `UndoAlwaysKept` has `UndoInv`: there
  are finitely many rotations, so that pruning has a youngest one to keep, and between a save's rotation and its
  rename one of them is the canonical. `UnclaimLeavesNothingCorrect` has `UnclaimInv`, which goes
  through the unclaim file by file: what it has passed is nobody's, and once it is done so is whatever any
  other program still has in hand. Those assumptions are in the
  theorems' statements; the findings are why they are there.
- `PackageUpdateProofs`. `Base == TypeOK /\ LockInv /\ SwapInv /\ StampInv`. `SwapInv` ties the three directories
  to how far the swap is and to what it found. `StampInv` says that from its copy on
  the tree an updater filled holds its release or nothing whole, so a hand-run sync
  can only put that release on the media behind its back. `LocksExclude`,
  `RepoAlwaysWhole`, `SyncsRevert` and `StampsAreTrue` follow. `IdentityAlwaysSurvives`
  adds `ListedInv`: the paths that an updater found stay on the list a save reads, by whomever else it is
  changed, for as long as the box is up.
- `ClusterProofs`. `Base == TypeOK /\ JobInv /\ NetInv /\ AskInv` ties each process to its requests: a request that
  is live is the one that its sender waits for, to whom and of the kind its step says, and an edit that was asked for
  is the only one of its asker. `SelfListed` has `SelfInv`: what is on the media, or is about to be
  written, is as good as what is in RAM. `MembersNeverMoved` has `WriteInv`: where the listener alone writes a box's list, what a
  POST is about to write is of the cluster the box is in, because joins and pushes wait for the lock until it is written.
  Both hold for edits of any kind, with any late request and power cut. `PeaceInv` is about one process that edits while no other begins
  (`Alone`; pages may be looked at): `OneInv` says who may be busy then, those that do what it asked for, and that no request
  is late; `ListsInv` follows a list on its way, box by box, through an edit, its pushes and its save: at each step it names who has
  the list as it was, who has it as it will be, and who is still to be sent it. `OneEditorAgreesCorrect` and `OneEditorIsMutualCorrect`
  follow, for any number of boxes and edits; TLC checks them for six and four.
  The second part is the rolling update. `RollTypeOK /\ RunInv /\ SeenInv /\ OrderInv`: a run past its trigger is
  about the one release, on a box that lacks it; a row that shows the release stays true, however old the page, because
  no step takes the release from a member that has it (`Taken`); so a member at risk has every lower one on the release. The proof
  of `OneMemberAtRisk` does not use the mark: signals may take it at any time. It assumes
  `MaxRelease = 1`, and the counterexample to `OneAnswer` is why.

- `ScheduleProofs`. `LockInv`: a shell past its `flock` has the lock until its last lines, and no pid
  outlives a flush; with `TypeOK` and `RowsTrue` it is inductive, so one lemma serves both. `FiresInv`: a tick's
  minute is the clock's (here `~Straddle` is needed), and a job was started no more often than the
  power cuts so far, and once more if its row names this minute. `ParkInv`: while the
  owner's park is undone some shell has still to park, or the kernel has refused the last that tried. `ResumeInv`: a
  marker in RAM or in a copy is of a conversation that exists or was torn; one on the stick, and
  outside a flush one in the copy, is of one a cut cannot take; `Backends = {"claude"}` is needed.
  `JobsFireOnce`, `DiskParkedAgain` and `ClaudeResumesReal` follow, each with `TypeOK`.

- `VaultProofs`. `CalmInv`: in a calm behaviour at most one process has something loaded that it will store
  (`OneAtATime`), the open temporary file is its own (`Apart`), what is named `vault.sealed` is whole, and for
  each process `Sound` ties what it loaded to the envelope and the plain files. `VaultImplementsStore`
  maps the initial states and each step: a rename is the store's `Put`, `Rephrase`,
  `Rehome` or `Found`, a save its `Save`, a power cut its `Cut`, and every other step a stutter.
- `AccountsProofs`. `MediaInv` gives `MediaClaimWhole`. `AdminInv`: each table on its way into `users.json`,
  the dashboard's and the command line's, is `Good` by itself, whatever the file has become; `ReadUsersGood`
  says why a request reads a good one; it is of behaviours whose switches are true or false (`Asked`). `CalmInv` names what the request at work will have made of
  users, fallback, unix accounts and sessions when it is done (`TableDue`, `ConfDue`, `UnixDue`, `SessDue`); these agree at
  every step (the unix accounts exactly so long as no call of `pipeos-user` has failed), which gives `PlacesAgree` and `SessionsCurrent` between requests.
- `LedgerProofs`. `KeepInv` follows a message through a pass: what the cursor on file has gone past is in the
  files (`SavedOK`), and so is what the pass's cursor has gone past, or in its rows to be added (`PassOK`), where
  `FileOK`, `ReadOK` and `LineOK` say what the pass has read of a transcript that may be replaced
  under it. `HeardInv` is for `ToldOnceCorrect`: with one enforcement at a time what was told is marked or the
  process that told it marks it next, and once a cap was told to be reached, that it is near is marked, or
  is about to be without a word.
  `CountInv` is for `CountedOnceCorrect`: a message is of one transcript (`OfOne`), whose lines are in
  the messages' order; where files only grow, what a cursor remembers is in the file before all it has still
  to read (`SteadyOK`); and what has been counted once more than there were kills, or is about to be, has been
  `Met`: it is in the ring of its transcript or, if nothing is replaced, no younger than the last in
  it (`CountOK`). A ring that is cut loses nothing of that, because it holds all messages there are or
  keeps its last. How often a message is counted is a sum over a bag of rows: `MapThenSumSet` is a
  recursive function over the parts of a finite set, and the section "Sums over finite sets" shows that
  there is one, what it is for a set and an element less, and that it depends on the set's values only, by way of the least size
  of a part for which it would not (the library's well-founded relation on numbers).
- `SecretsProofs`. `Base` ties each process to its request, to the calls it has sent and to the box that answers it:
  a call whose caller waits is one its caller sent in the step it is at (`Expects`), one call
  at a time between two boxes, and nobody is called in vain after a save (`WaitInv`); what is down as
  done, on media or on its way as an answer or a close, `Has` its secret. `TakenOnce` and `DoneHeld` follow.
  `Notice` is what makes `NotesTrue` inductive with it: the note on the media, and the one a box is about to write
  (`Told`, `Awaited`), are true of what the other box has and of what it will have after a
  power cut, or that cut will leave a doubt (`Undone`).

Every invariant and every action property that a passing run checks is a theorem; `Implements`, the refinement, is
one as well (`VaultImplementsStore`). The exceptions are the liveness properties (`SaveEnds`, `EveryoneUpdates`, `EditsEnd`,
`PausedInTheEnd`): fairness and ENABLED are out of TLAPS's reach, and they are only model-checked. What the theorems assume of
constants beyond the modules' assumptions is in their statements, and is what the runs take as well, or less.
`Cluster` takes its boxes as finitely many numbers (`BoxAssumption`): the lowest id and the size of a list need it. No module declares a
RECURSIVE operator.

## Not modelled

- Boxes that edit one cluster from different releases, the LAN roster's expiry, and the
  page of last summaries, which tell nobody what to do.
- The cron grammar: a job that is not manual is due every minute.
- Of the ledger: rates (one price), the totals' cache, pruning after thirteen months, two
  writers that merge one torn row line, the usage page.
- The vault's cryptography: an envelope opens in its chassis or with its phrase.
- Of accounts: throttling of sign-ins, ssh keys and shared folders, the wizard's other
  steps, a claim made while an unclaim runs, and the listing of the session directory, which
  another thread's unlink may cut short.
- The work disk's other entries, backups and restores: copies under the save lock.

The components that stay out as a whole, with the reason for each, are in `PROJECT.json`: they
are presentation (most of `webd.py`), one-shot scripts, probes of the running box whose verdict is
a choice here, wire formats, and the repository's own tests. These are more than two
thirds of its lines, which is why the map names a smaller share of them than of what the
modules are about.
