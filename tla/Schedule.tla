------------------------------ MODULE Schedule ------------------------------
(***************************************************************************)
(* The box's scheduled jobs: the table, the tick that fires the due ones   *)
(* (schedtick.py), the runner of one job (pipeos-schedule-run), the ways   *)
(* to start, change and remove a job (webd.py, schedctl.py), and the disk  *)
(* they run on: pipeos-work keeps the schedule's state in RAM, flushes it  *)
(* and parks /data read-only.                                              *)
(*                                                                         *)
(* A tick starts one detached shell that runs the minute's jobs one after  *)
(* another; Run now starts a shell for one job. Shells run at the same     *)
(* time, and only the flock of the runner keeps their agents apart.        *)
(*                                                                         *)
(* Abstracted: a job that is not manual is due every minute; whether a cap *)
(* pauses a job and whether its settings are refused are choices; the      *)
(* reads and writes of state.json are atomic, as its lock makes them; an   *)
(* edit of the table is atomic; a flush copies the hot set as it is at one *)
(* moment.                                                                 *)
(***************************************************************************)
EXTENDS Naturals, FiniteSets

CONSTANTS
    Jobs,       \* names a job may have
    Manual,     \* jobs without a schedule
    Continue,   \* jobs whose conversation continues across runs
    Needs,      \* jobs that need a secret the box does not have yet
    Backends,   \* assistants a job may be set to: "claude", "hermes"
    Shells,     \* bound on detached shells at a time
    Ticks,      \* processes that may run the tick: crond's and a hand's
    Nobody,     \* no holder of the lock, no pid
    Page,       \* a dashboard request that tries the lock
    Owner,      \* pipeos work park by hand
    Saver,      \* the hourly flush, and the one of a save
    Straddle,   \* whether a tick may outlive the minute it read
    HandPark,   \* whether the owner parks and unparks /data
    MaxMinute,  \* bound on minutes
    MaxSid,     \* bound on conversations
    MaxEdit,    \* bound on edits of the table
    MaxCut      \* bound on power cuts

ASSUME JobsAssumption   == Jobs # {} /\ Manual \cup Continue \cup Needs \subseteq Jobs
ASSUME BackendsAssumption == Backends # {} /\ Backends \subseteq {"claude", "hermes"}
ASSUME ShellsAssumption == Nobody \notin Shells /\ Page \notin Shells \cup {Nobody}
ASSUME OwnerAssumption  == {Owner, Saver} \cap (Shells \cup {Nobody}) = {} /\ Owner # Saver
ASSUME BoundsAssumption ==
    /\ MaxMinute \in Nat \ {0} /\ MaxSid \in Nat /\ MaxEdit \in Nat /\ MaxCut \in Nat
    /\ Straddle \in BOOLEAN /\ HandPark \in BOOLEAN

VARIABLES
    conf,       \* schedule.json
    hot,        \* .pipeos/schedule in RAM: state.json and sessions/
    conv,       \* conversations claude can resume (transcripts on /data)
    disk,       \* the hot set as the last sync left it on the stick
    synced,     \* the conversations a power cut cannot take
    copy,       \* the hot set as the last rsync wrote it to /data
    flusher,    \* who holds hotset.lock: between its rsync and its sync
    parkers,    \* those that have flushed and are about to remount
    torn,       \* conversations lost to a cut that kept their marker (ghost)
    parked,     \* /data is read-only
    wanted,     \* the owner parked it, and has not unparked it (ghost)
    refused,    \* the kernel has refused a run's park since the last one (ghost)
    lock,       \* who holds /run/pipeos/schedule.lock
    run,        \* each shell, and the runner it is waiting for
    tick,       \* each tick in progress
    minute,     \* the clock
    fires,      \* times each job was started in this minute (ghost)
    missing,    \* jobs whose secret is not in the export
    saving,     \* an edit's save has still to flush
    sids,       \* conversations named so far
    edits,      \* edits so far
    cuts        \* power cuts so far

flushVars == <<disk, synced, copy, flusher, parkers, torn>>

parkVars == <<parked, wanted, refused>>

vars == <<conf, hot, conv, flushVars, parkVars, lock, run, tick, minute, fires,
          missing, saving, sids, edits, cuts>>

Entry == [there: BOOLEAN, enabled: BOOLEAN, backend: Backends]

\* last_fired_minute and running_pid; the rest of a row is for people to read.
Row == [fired: 0..MaxMinute, pid: Shells \cup {Nobody}]

Hot == [row: [Jobs -> Row], sid: [Jobs -> 0..MaxSid], started: SUBSET (1..MaxSid)]

NoRow == [fired |-> 0, pid |-> Nobody]

Runner == [pc: {"idle", "next", "park", "unpark", "lock", "begin", "agent", "repark"},
           left: SUBSET Jobs,           \* jobs the shell has still to run
           job: Jobs, backend: Backends,
           repark: BOOLEAN,             \* _reparked=yes
           sid: 0..MaxSid, resume: BOOLEAN]

Idle == [pc |-> "idle", left |-> {}, job |-> CHOOSE j \in Jobs : TRUE,
         backend |-> CHOOSE b \in Backends : TRUE, repark |-> FALSE,
         sid |-> 0, resume |-> FALSE]

Off == [on |-> FALSE, jobs |-> {}, now |-> 0]

TypeOK ==
    /\ conf \in [Jobs -> Entry]
    /\ hot \in Hot /\ disk \in Hot /\ copy \in Hot
    /\ conv \subseteq 1..MaxSid /\ synced \subseteq conv /\ torn \subseteq 1..MaxSid
    /\ flusher \in Shells \cup {Nobody, Owner, Saver} /\ parkers \subseteq Shells \cup {Owner}
    /\ parked \in BOOLEAN /\ wanted \in BOOLEAN /\ refused \in BOOLEAN
    /\ lock \in Shells \cup {Nobody, Page}
    /\ run \in [Shells -> Runner]
    /\ tick \in [Ticks -> [on: BOOLEAN, jobs: SUBSET Jobs, now: 0..MaxMinute]]
    /\ minute \in 1..MaxMinute
    /\ fires \in [Jobs -> Nat]
    /\ missing \subseteq Jobs /\ saving \in BOOLEAN
    /\ sids \in 0..MaxSid
    /\ edits \in 0..MaxEdit
    /\ cuts \in 0..MaxCut

Init ==
    /\ conf \in [Jobs -> [there: {TRUE}, enabled: {TRUE}, backend: Backends]]
    /\ hot = [row |-> [j \in Jobs |-> NoRow], sid |-> [j \in Jobs |-> 0], started |-> {}]
    /\ disk = hot /\ copy = hot /\ flusher = Nobody /\ parkers = {}
    /\ conv = {} /\ synced = {} /\ torn = {}
    /\ parked \in {FALSE, HandPark} /\ wanted = parked /\ refused = FALSE
    /\ lock = Nobody
    /\ run = [r \in Shells |-> Idle]
    /\ tick = [t \in Ticks |-> Off]
    /\ minute = 1
    /\ fires = [j \in Jobs |-> 0]
    /\ missing = Needs /\ saving = FALSE
    /\ sids = 0 /\ edits = 0 /\ cuts = 0

-----------------------------------------------------------------------------
(* The disk. *)

\* What a boot makes of a hot set: no runner it names is alive. (A pid that
\* another process has after the boot is taken for a dead one.)
Booted(ram) == [ram EXCEPT !.row = [j \in Jobs |-> [@[j] EXCEPT !.pid = Nobody]]]

\* pipeos-work flush, under hotset.lock: the hot set goes to /data. On a
\* parked /data a flush is refused.
Copies(p) ==
    /\ ~parked /\ flusher = Nobody
    /\ flusher' = p /\ copy' = Booted(hot)
    /\ UNCHANGED <<disk, synced, parkers, torn>>

\* What sync makes of the copy and the transcripts.
OnDisk == disk' = copy /\ synced' = conv

\* A mutant: without the sync.
SyncsNot ==
    /\ flusher # Nobody /\ flusher' = Nobody
    /\ disk' = copy /\ UNCHANGED synced
    /\ parkers' = parkers \cup ({flusher} \ {Saver})
    /\ UNCHANGED <<conf, hot, conv, copy, torn, parkVars, lock, run, tick, minute,
                   fires, missing, saving, sids, edits, cuts>>

\* The sync of a flush. One that is part of a park goes on to the remount.
Syncs ==
    /\ flusher # Nobody /\ flusher' = Nobody
    /\ OnDisk
    /\ parkers' = parkers \cup ({flusher} \ {Saver})
    /\ UNCHANGED <<conf, hot, conv, copy, torn, parkVars, lock, run, tick, minute,
                   fires, missing, saving, sids, edits, cuts>>

\* The hourly flush.
Flush ==
    /\ Copies(Saver)
    /\ UNCHANGED <<conf, hot, conv, parkVars, lock, run, tick, minute, fires,
                   missing, saving, sids, edits, cuts>>

\* The flush of the save an edit ends in.
SaveFlushes ==
    /\ saving /\ saving' = FALSE
    /\ IF parked THEN UNCHANGED flushVars ELSE Copies(Saver)
    /\ UNCHANGED <<conf, hot, conv, parkVars, lock, run, tick, minute, fires,
                   missing, sids, edits, cuts>>

\* The end of pipeos-work park: a second sync, and the remount, which the
\* kernel refuses while a file is open for writing. (Between two writes of a
\* run none is.)
Remount(p) ==
    /\ p \in parkers /\ parkers' = parkers \ {p}
    /\ OnDisk /\ UNCHANGED <<copy, flusher, torn>>
    /\ parked' \in {parked, TRUE}

\* Already parked, or the flush first.
OwnerParks ==
    /\ HandPark
    /\ IF parked THEN wanted' = TRUE /\ UNCHANGED flushVars
       ELSE Owner \notin parkers /\ Copies(Owner) /\ UNCHANGED wanted
    /\ UNCHANGED <<conf, hot, conv, parked, refused, lock, run, tick, minute,
                   fires, missing, saving, sids, edits, cuts>>

OwnerRemounts ==
    /\ Remount(Owner)
    /\ wanted' = (wanted \/ parked') /\ refused' = (refused /\ ~parked')
    /\ UNCHANGED <<conf, hot, conv, lock, run, tick, minute, fires, missing,
                   saving, sids, edits, cuts>>

OwnerUnparks ==
    /\ HandPark
    /\ parked' = FALSE /\ wanted' = FALSE /\ UNCHANGED refused
    /\ UNCHANGED <<conf, hot, conv, flushVars, lock, run, tick, minute, fires,
                   missing, saving, sids, edits, cuts>>

\* What every boot starts from: /run and the processes are gone, /data is
\* mounted read-write, the hot set is seeded from the disk.
Down ==
    /\ disk' = hot' /\ copy' = hot' /\ flusher' = Nobody /\ parkers' = {}
    /\ parked' = FALSE /\ wanted' = FALSE /\ refused' = FALSE
    /\ lock' = Nobody /\ saving' = FALSE
    /\ run' = [r \in Shells |-> Idle]
    /\ tick' = [t \in Ticks |-> Off]

\* A shutdown unparks and flushes (hot-down).
Reboot ==
    /\ hot' = Booted(hot) /\ synced' = conv
    /\ Down
    /\ UNCHANGED <<conf, conv, torn, minute, fires, missing, sids, edits, cuts>>

\* What may be on the stick of a hot set that was being written over another:
\* of state.json, of each file of sessions/ and of each marker the old or
\* the new.
Mixed(old, new) ==
    {h \in [row: {old.row, new.row}, sid: [Jobs -> UNION {{old.sid[j], new.sid[j]} : j \in Jobs}],
            started: SUBSET (old.started \cup new.started)] :
        /\ \A j \in Jobs : h.sid[j] \in {old.sid[j], new.sid[j]}
        /\ old.started \cap new.started \subseteq h.started}

\* A power cut: what the last sync left on the stick, and of what was written
\* since, hot set and transcripts, any part.
PowerCut ==
    /\ cuts < MaxCut /\ cuts' = cuts + 1
    /\ hot' \in Mixed(disk, copy)
    /\ conv' \in {c \in SUBSET conv : synced \subseteq c}
    /\ synced' = conv'
    /\ torn' = IF flusher = Nobody THEN torn ELSE torn \cup (hot'.started \ conv')
    /\ Down
    /\ UNCHANGED <<conf, minute, fires, missing, sids, edits>>

-----------------------------------------------------------------------------
(* The tick, and every other way to start a job. *)

\* Minutes pass. Unless ticks may straddle, a tick ends in its minute.
NextMinute ==
    /\ minute < MaxMinute /\ minute' = minute + 1
    /\ Straddle \/ \A t \in Ticks : ~tick[t].on
    /\ fires' = [j \in Jobs |-> 0]
    /\ UNCHANGED <<conf, hot, conv, flushVars, parkVars, lock, run,
                   tick, missing, saving, sids, edits, cuts>>

\* The job list and the clock are read before the lock is asked for.
TickReads(t) ==
    /\ ~tick[t].on
    /\ tick' = [tick EXCEPT ![t] = [on |-> TRUE, now |-> minute,
           jobs |-> {j \in Jobs \ Manual : conf[j].there /\ conf[j].enabled}]]
    /\ UNCHANGED <<conf, hot, conv, flushVars, parkVars, lock, run,
                   minute, fires, missing, saving, sids, edits, cuts>>

\* A free shell for these jobs.
Starts(js) ==
    \E r \in Shells :
        /\ run[r].pc = "idle"
        /\ run' = [run EXCEPT ![r] = [Idle EXCEPT !.pc = "next", !.left = js]]

\* A mutant: the minute of the last firing is not asked.
DueAlways(j, now) == TRUE

\* A job fires unless the last minute it fired in is this one.
Due(j, now) == hot.row[j].fired # now

\* Under the state lock the due jobs are marked as fired; those no cap
\* pauses go to one detached shell.
TickFires(t) ==
    LET due == {j \in tick[t].jobs : Due(j, tick[t].now)}
    IN  /\ tick[t].on
        /\ tick' = [tick EXCEPT ![t] = Off]
        /\ hot' = [hot EXCEPT !.row = [j \in Jobs |->
               IF j \in due THEN [@[j] EXCEPT !.fired = tick[t].now] ELSE @[j]]]
        /\ \E fire \in SUBSET due :
               /\ IF fire = {} THEN UNCHANGED run ELSE Starts(fire)
               /\ fires' = [j \in Jobs |->
                      IF j \in fire /\ tick[t].now = minute THEN fires[j] + 1 ELSE fires[j]]
        /\ UNCHANGED <<conf, conv, flushVars, parkVars, lock, minute,
                       missing, saving, sids, edits, cuts>>

\* pipeos schedule run. The dashboard's Run now asks also that nothing holds
\* the lock, so it is one of these.
RunNow(j) ==
    /\ conf[j].there /\ conf[j].enabled
    /\ Starts({j})
    /\ UNCHANGED <<conf, hot, conv, flushVars, parkVars, lock, tick,
                   minute, fires, missing, saving, sids, edits, cuts>>

\* The secret lands: a manual job that waits for it is run, if no job holds
\* the lock and no cap pauses it; nothing tries again.
SecretLands(j) ==
    /\ j \in missing /\ missing' = missing \ {j}
    /\ \/ j \in Manual /\ conf[j].there /\ conf[j].enabled /\ lock = Nobody /\ Starts({j})
       \/ UNCHANGED run
    /\ UNCHANGED <<conf, hot, conv, flushVars, parkVars, lock, tick,
                   minute, fires, saving, sids, edits, cuts>>

\* schedule_running: a request takes the lock for a moment to see whether a
\* job has it.
PageTakes ==
    /\ lock = Nobody /\ lock' = Page
    /\ UNCHANGED <<conf, hot, conv, flushVars, parkVars, run, tick,
                   minute, fires, missing, saving, sids, edits, cuts>>

PageDrops ==
    /\ lock = Page /\ lock' = Nobody
    /\ UNCHANGED <<conf, hot, conv, flushVars, parkVars, run, tick,
                   minute, fires, missing, saving, sids, edits, cuts>>

-----------------------------------------------------------------------------
(* The table. Every edit ends in a save. *)

Edit == edits < MaxEdit /\ edits' = edits + 1 /\ saving' = TRUE

SetJob(j) ==
    /\ Edit
    /\ \E e \in [there: {TRUE}, enabled: BOOLEAN, backend: Backends] :
           e # conf[j] /\ conf' = [conf EXCEPT ![j] = e]
    /\ UNCHANGED <<hot, conv, flushVars, parkVars, lock, run, tick, minute,
                   fires, missing, sids, cuts>>

\* Both ways to remove a job forget its conversation; only the dashboard's
\* drops its row of state.json, and with it what fired: a job added later
\* under the name is another job.
RemoveJob(j) ==
    /\ Edit
    /\ conf[j].there /\ conf' = [conf EXCEPT ![j].there = FALSE]
    /\ \/ /\ hot' = [hot EXCEPT !.sid[j] = 0, !.row[j] = NoRow]
          /\ fires' = [fires EXCEPT ![j] = 0]
       \/ /\ hot' = [hot EXCEPT !.sid[j] = 0]
          /\ UNCHANGED fires
    /\ UNCHANGED <<conv, flushVars, parkVars, lock, run, tick, minute, missing,
                   sids, cuts>>

-----------------------------------------------------------------------------
(* The runner. *)

\* The runner of this shell ends; the shell goes on to its next job.
Exits(r, left) ==
    run' = [run EXCEPT ![r] = IF left = {} THEN Idle
                              ELSE [Idle EXCEPT !.pc = "next", !.left = left]]

\* No such job any more, or a cap pauses it: nothing is recorded.
Skip(r, j) ==
    /\ Exits(r, run[r].left \ {j})
    /\ UNCHANGED hot

\* A refusal, and the wait for a missing secret, are recorded in the job's
\* row, even while another run of the job is what it tells about.
Record(r, j) ==
    /\ conf[j].there
    /\ hot' = [hot EXCEPT !.row[j].pid = Nobody]
    /\ Exits(r, run[r].left \ {j})

Proceed(r, j) ==
    /\ conf[j].there /\ j \notin missing
    /\ run' = [run EXCEPT ![r].pc = "park", ![r].job = j, ![r].left = @ \ {j},
                          ![r].backend = conf[j].backend]
    /\ UNCHANGED hot

Check(r) ==
    /\ run[r].pc = "next"
    /\ \E j \in run[r].left :
           \/ Skip(r, j)
           \/ Record(r, j)
           \/ Proceed(r, j)
    /\ UNCHANGED <<conf, conv, flushVars, parkVars, lock, tick, minute,
                   fires, missing, saving, sids, edits, cuts>>

\* A mutant: the row says running before the lock is taken.
LooksAndTells(r) ==
    /\ run[r].pc = "park"
    /\ hot' = [hot EXCEPT !.row[run[r].job].pid = r]
    /\ run' = [run EXCEPT ![r].pc = IF parked THEN "unpark" ELSE "lock"]
    /\ UNCHANGED <<conf, conv, flushVars, parkVars, lock, tick, minute, fires,
                   missing, saving, sids, edits, cuts>>

\* Whether /data is parked is asked before the lock.
LooksAtDisk(r) ==
    /\ run[r].pc = "park"
    /\ run' = [run EXCEPT ![r].pc = IF parked THEN "unpark" ELSE "lock"]
    /\ UNCHANGED <<conf, hot, conv, flushVars, parkVars, lock, tick,
                   minute, fires, missing, saving, sids, edits, cuts>>

\* pipeos-work unpark succeeds too when somebody else has unparked.
Unparks(r) ==
    /\ run[r].pc = "unpark"
    /\ parked' = FALSE
    /\ run' = [run EXCEPT ![r].pc = "lock", ![r].repark = TRUE]
    /\ UNCHANGED <<conf, hot, conv, flushVars, wanted, refused, lock, tick,
                   minute, fires, missing, saving, sids, edits, cuts>>

\* A mutant: a refused run leaves without parking again.
LocksOrLeaves(r) ==
    /\ run[r].pc = "lock"
    /\ \/ lock = Nobody /\ lock' = r /\ run' = [run EXCEPT ![r].pc = "begin"]
       \/ lock # Nobody /\ UNCHANGED lock /\ Exits(r, run[r].left)
    /\ UNCHANGED <<conf, hot, conv, flushVars, parkVars, tick, minute,
                   fires, missing, saving, sids, edits, cuts>>

\* flock -n: without the lock the run is skipped, and parks again if it has
\* unparked.
Locks(r) ==
    /\ run[r].pc = "lock"
    /\ \/ lock = Nobody /\ lock' = r /\ run' = [run EXCEPT ![r].pc = "begin"]
       \/ lock # Nobody /\ UNCHANGED lock /\ run' = [run EXCEPT ![r].pc = "repark"]
    /\ UNCHANGED <<conf, hot, conv, flushVars, parkVars, tick, minute,
                   fires, missing, saving, sids, edits, cuts>>

\* The conversation: the one of the last run, or a new one. It is resumed if
\* a run of it has reached the conversation.
Resumes(j, sid) == j \in Continue /\ sid \in hot.started

Begins(r) ==
    LET j   == run[r].job
        old == IF j \in Continue THEN hot.sid[j] ELSE 0
    IN  /\ run[r].pc = "begin"
        /\ \/ old # 0 /\ UNCHANGED sids
           \/ old = 0 /\ j \in Continue /\ sids < MaxSid /\ sids' = sids + 1
           \/ j \notin Continue /\ UNCHANGED sids
        /\ LET sid == IF old # 0 THEN old ELSE IF j \in Continue THEN sids' ELSE 0
           IN  /\ hot' = [hot EXCEPT !.sid[j] = sid, !.row[j].pid = r]
               /\ run' = [run EXCEPT ![r].pc = "agent", ![r].sid = sid,
                                     ![r].resume = Resumes(j, sid)]
        /\ UNCHANGED <<conf, conv, flushVars, parkVars, lock, tick,
                       minute, fires, missing, saving, edits, cuts>>

\* claude writes the transcript of a new conversation; it cannot on a parked
\* /data. The other assistant keeps its conversations elsewhere.
AgentWrites(r) ==
    /\ run[r].pc = "agent" /\ run[r].backend = "claude" /\ run[r].sid # 0
    /\ ~parked /\ ~run[r].resume /\ run[r].sid \notin conv
    /\ conv' = conv \cup {run[r].sid}
    /\ UNCHANGED <<conf, hot, flushVars, parkVars, lock, run, tick, minute,
                   fires, missing, saving, sids, edits, cuts>>

\* What the end of a run leaves of its session: the resume marker of a run
\* that reached the conversation, else nothing.
Session(r, ok) ==
    LET j   == run[r].job
        sid == run[r].sid
    IN  IF ok
        THEN [hot EXCEPT !.started = @ \cup ({sid} \ {0})]
        ELSE [hot EXCEPT !.sid[j] = IF j \in Continue /\ sid \notin hot.started THEN 0 ELSE @]

\* The assistant ends, or its time is up: ok or cut off, or failed. claude
\* fails without its transcript, and has written it long before its time is
\* up: that is taken of claude, no line here shows it.
AgentEnds(r) ==
    /\ run[r].pc = "agent"
    /\ \E ok \in BOOLEAN :
           /\ ok => run[r].backend # "claude" \/ run[r].sid \in conv \cup {0}
           /\ hot' = [Session(r, ok) EXCEPT !.row[run[r].job].pid = Nobody]
    /\ run' = [run EXCEPT ![r].pc = "repark"]
    /\ UNCHANGED <<conf, conv, flushVars, parkVars, lock, tick, minute,
                   fires, missing, saving, sids, edits, cuts>>

\* The end of the runner: its lock goes with it.
Leaves(r) ==
    /\ lock' = IF lock = r THEN Nobody ELSE lock
    /\ Exits(r, run[r].left)

\* The last lines of a runner: a run that has unparked /data parks it again,
\* from the flush on, unless it is parked.
Reparks(r) ==
    /\ run[r].pc = "repark" /\ r \notin parkers /\ flusher # r
    /\ IF run[r].repark /\ ~parked THEN Copies(r) /\ UNCHANGED <<lock, run>>
       ELSE Leaves(r) /\ UNCHANGED flushVars
    /\ UNCHANGED <<conf, hot, conv, parkVars, tick, minute, fires, missing,
                   saving, sids, edits, cuts>>

\* A park the kernel refuses is told to nobody, and not tried again.
Remounts(r) ==
    /\ Remount(r) /\ Leaves(r)
    /\ refused' = ~parked' /\ UNCHANGED wanted
    /\ UNCHANGED <<conf, hot, conv, tick, minute, fires, missing, saving, sids,
                   edits, cuts>>

-----------------------------------------------------------------------------
Next ==
    \/ Flush \/ SaveFlushes \/ Syncs \/ OwnerParks \/ OwnerRemounts \/ OwnerUnparks
    \/ Reboot \/ PowerCut \/ NextMinute \/ PageTakes \/ PageDrops
    \/ \E t \in Ticks : TickReads(t) \/ TickFires(t)
    \/ \E j \in Jobs : RunNow(j) \/ SecretLands(j) \/ SetJob(j) \/ RemoveJob(j)
    \/ \E r \in Shells :
           \/ Check(r) \/ LooksAtDisk(r) \/ Unparks(r) \/ Locks(r) \/ Begins(r)
           \/ AgentWrites(r) \/ AgentEnds(r) \/ Reparks(r) \/ Remounts(r)

Spec == Init /\ [][Next]_vars

-----------------------------------------------------------------------------
(* Properties. *)

\* A job is started once a minute, whoever runs the tick, and at most once
\* more for every power cut that takes the hot set back ("One tick may be
\* double-invoked and must not double-fire", schedtick.py; "one job firing a
\* second time in the same minute", pipeos-work).
FiredOnce == \A j \in Jobs : fires[j] <= 1 + cuts

\* A /data the owner parked is parked again when the last shell has ended,
\* whichever of several runs unparked it and whichever were refused the lock
\* (pipeos-schedule-run: "unparked for the run ... and re-parked after"). The
\* code does not keep this when the kernel has refused a run's park and none
\* has succeeded since.
ParkedAgain ==
    wanted /\ (\A r \in Shells : run[r].pc = "idle") => parked \/ refused

\* A row that names a live runner names the one that has the lock and runs
\* this job: agents_here shows at most one job as running, and the right one.
RowsTrue ==
    \A j \in Jobs :
        LET row == hot.row[j]
        IN  row.pid # Nobody =>
                /\ lock = row.pid
                /\ run[row.pid].pc = "agent" /\ run[row.pid].job = j

\* claude is told to resume only a conversation it has: a job never gets
\* stuck on one that was never made, or that a power cut took ("a run that
\* died before claude made a session would otherwise be resumed forever",
\* pipeos-schedule-run). The code does not keep this for a conversation that
\* a cut between the rsync and the sync of a flush has taken.
ResumesReal ==
    \A r \in Shells :
        run[r].pc = "agent" /\ run[r].resume /\ run[r].backend = "claude"
            => run[r].sid \in conv \cup torn

\* The owner's park comes back whatever the kernel has refused. The code
\* breaks it: a park refused at the end of a run is told to nobody.
ParkNotLost ==
    wanted /\ (\A r \in Shells : run[r].pc = "idle") => parked

\* No conversation is torn from its marker. The code breaks it: a flush
\* writes the marker before its sync makes the transcript last.
NothingTorn == torn = {}

\* A run has its disk: /data is read-write while an assistant runs ("unparked
\* for the run - claude writes its transcript there", pipeos-schedule-run).
\* The code breaks it.
RunHasDisk == \A r \in Shells : run[r].pc = "agent" => ~parked
=============================================================================
