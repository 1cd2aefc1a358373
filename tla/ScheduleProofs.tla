--------------------------- MODULE ScheduleProofs ---------------------------
(***************************************************************************)
(* Schedule.tla for every set of jobs, shells and ticks and any number of  *)
(* minutes, edits and power cuts: its types, that the lock keeps agents    *)
(* apart and the rows say whose turn it is, that a job fires once a        *)
(* minute, that the disk is parked again, and that claude resumes only     *)
(* conversations it has.                                                   *)
(***************************************************************************)
EXTENDS Schedule, TLAPS

USE JobsAssumption, BackendsAssumption, ShellsAssumption, OwnerAssumption, BoundsAssumption
USE DEF flushVars, parkVars

LEMMA IdleType == Idle \in Runner /\ Idle.pc = "idle" /\ ~Idle.repark
  <1>1. (CHOOSE j \in Jobs : TRUE) \in Jobs /\ (CHOOSE b \in Backends : TRUE) \in Backends
    OBVIOUS
  <1> QED BY <1>1 DEF Idle, Runner

LEMMA NoRowType == NoRow \in Row
  BY DEF NoRow, Row

LEMMA InitType == Init => TypeOK
  <1> SUFFICES ASSUME Init PROVE TypeOK
    OBVIOUS
  <1>1. conf \in [Jobs -> Entry]
    BY DEF Init, Entry
  <1>2. hot \in Hot
    BY NoRowType DEF Init, Hot
  <1>3. run \in [Shells -> Runner]
    BY IdleType DEF Init
  <1>4. tick \in [Ticks -> [on: BOOLEAN, jobs: SUBSET Jobs, now: 0..MaxMinute]]
    BY DEF Init, Off
  <1>5. /\ disk \in Hot /\ copy \in Hot
        /\ conv \subseteq 1..MaxSid /\ synced \subseteq conv /\ torn \subseteq 1..MaxSid
        /\ flusher \in Shells \cup {Nobody, Owner, Saver} /\ parkers \subseteq Shells \cup {Owner}
    BY <1>2 DEF Init
  <1>6. /\ parked \in BOOLEAN /\ wanted \in BOOLEAN /\ refused \in BOOLEAN /\ saving \in BOOLEAN
        /\ lock \in Shells \cup {Nobody, Page}
    BY DEF Init
  <1>7. fires \in [Jobs -> Nat] /\ missing \subseteq Jobs
    BY DEF Init
  <1>8. minute \in 1..MaxMinute /\ sids \in 0..MaxSid /\ edits \in 0..MaxEdit /\ cuts \in 0..MaxCut
    BY DEF Init
  <1> QED BY <1>1, <1>2, <1>3, <1>4, <1>5, <1>6, <1>7, <1>8 DEF TypeOK

LEMMA BootedType ==
    ASSUME NEW h \in Hot
    PROVE  Booted(h) \in Hot
  <1>1. h.row \in [Jobs -> Row] /\ h.sid \in [Jobs -> 0..MaxSid] /\ h.started \in SUBSET (1..MaxSid)
    BY DEF Hot
  <1>2. \A j \in Jobs : [h.row[j] EXCEPT !.pid = Nobody] \in Row
    BY <1>1 DEF Row
  <1>3. Booted(h) = [h EXCEPT !.row = [j \in Jobs |-> [h.row[j] EXCEPT !.pid = Nobody]]]
    BY DEF Booted, Hot
  <1>4. [j \in Jobs |-> [h.row[j] EXCEPT !.pid = Nobody]] \in [Jobs -> Row]
    BY <1>2
  <1> HIDE DEF Row
  <1> QED BY <1>1, <1>3, <1>4 DEF Hot

(* What a flush, a remount and a power cut do to the copies of the hot set. *)
LEMMA CopiesType ==
    ASSUME TypeOK, NEW p \in Shells \cup {Owner, Saver}, Copies(p)
    PROVE  /\ copy' \in Hot /\ flusher' \in Shells \cup {Nobody, Owner, Saver}
           /\ UNCHANGED <<disk, synced, parkers, torn>>
  BY BootedType DEF TypeOK, Copies

LEMMA RemountType ==
    ASSUME TypeOK, NEW p, Remount(p)
    PROVE  /\ disk' \in Hot /\ synced' = conv /\ UNCHANGED <<copy, flusher, torn>>
           /\ parkers' \subseteq Shells \cup {Owner} /\ parked' \in BOOLEAN
  BY DEF TypeOK, Remount, OnDisk

LEMMA MixedType ==
    ASSUME NEW a \in Hot, NEW b \in Hot, NEW h \in Mixed(a, b)
    PROVE  /\ h \in Hot /\ h.row \in {a.row, b.row}
           /\ h.started \subseteq a.started \cup b.started
  <1> DEFINE S == UNION {{a.sid[j], b.sid[j]} : j \in Jobs}
  <1>1. /\ h \in [row: {a.row, b.row}, sid: [Jobs -> S], started: SUBSET (a.started \cup b.started)]
        /\ \A j \in Jobs : h.sid[j] \in {a.sid[j], b.sid[j]}
    BY DEF Mixed
  <1>2. /\ a.row \in [Jobs -> Row] /\ a.sid \in [Jobs -> 0..MaxSid] /\ a.started \in SUBSET (1..MaxSid)
        /\ b.row \in [Jobs -> Row] /\ b.sid \in [Jobs -> 0..MaxSid] /\ b.started \in SUBSET (1..MaxSid)
    BY DEF Hot
  <1>3. h.sid \in [Jobs -> S] /\ \A j \in Jobs : h.sid[j] \in 0..MaxSid
    BY <1>1, <1>2
  <1>4. h.sid \in [Jobs -> 0..MaxSid]
    BY <1>3
  <1>5. h.row \in {a.row, b.row} /\ h.started \subseteq a.started \cup b.started
    BY <1>1
  <1>6. /\ h = [row |-> h.row, sid |-> h.sid, started |-> h.started]
    BY <1>1
  <1> HIDE DEF S
  <1>7. h \in Hot
    BY <1>2, <1>4, <1>5, <1>6 DEF Hot
  <1> QED BY <1>5, <1>7

(* The two ways the code changes a row or a session of the hot set. *)
LEMMA PidType ==
    ASSUME NEW h \in Hot, NEW j \in Jobs, NEW p \in Shells \cup {Nobody}
    PROVE  [h EXCEPT !.row[j].pid = p] \in Hot
  <1>1. h.row \in [Jobs -> Row] /\ h.sid \in [Jobs -> 0..MaxSid] /\ h.started \in SUBSET (1..MaxSid)
    BY DEF Hot
  <1>2. [h.row[j] EXCEPT !.pid = p] \in Row
    BY <1>1 DEF Row
  <1>3. [h.row EXCEPT ![j].pid = p] \in [Jobs -> Row]
    BY <1>1, <1>2
  <1> QED BY <1>1, <1>3 DEF Hot

LEMMA SidType ==
    ASSUME NEW h \in Hot, NEW j \in Jobs, NEW s \in 0..MaxSid
    PROVE  [h EXCEPT !.sid[j] = s] \in Hot
  BY DEF Hot

LEMMA RowType ==
    ASSUME NEW h \in Hot, NEW j \in Jobs, NEW w \in Row
    PROVE  [h EXCEPT !.row[j] = w] \in Hot
  BY DEF Hot

(* The two ways a runner's record changes in place. *)
LEMMA GoesType ==
    ASSUME NEW w \in Runner, NEW p \in {"lock", "begin", "agent", "repark"}
    PROVE  [w EXCEPT !.pc = p] \in Runner
  BY DEF Runner

LEMMA BeginsType ==
    ASSUME NEW w \in Runner, NEW s \in 0..MaxSid, NEW b \in BOOLEAN
    PROVE  [w EXCEPT !.pc = "agent", !.sid = s, !.resume = b] \in Runner
  BY DEF Runner

LEMMA ExitsType ==
    ASSUME TypeOK, NEW r \in Shells, NEW left \in SUBSET Jobs, Exits(r, left)
    PROVE  run' \in [Shells -> Runner]
  <1>1. [Idle EXCEPT !.pc = "next", !.left = left] \in Runner
    BY IdleType DEF Runner
  <1> QED BY <1>1, IdleType DEF TypeOK, Exits

LEMMA StartsType ==
    ASSUME TypeOK, NEW js \in SUBSET Jobs, Starts(js)
    PROVE  run' \in [Shells -> Runner]
  <1>1. [Idle EXCEPT !.pc = "next", !.left = js] \in Runner
    BY IdleType DEF Runner
  <1> QED BY <1>1, IdleType DEF TypeOK, Starts

LEMMA GoneType ==
    ASSUME NEW e \in Entry
    PROVE  [e EXCEPT !.there = FALSE] \in Entry
  BY DEF Entry

(* Every step keeps the types. *)
LEMMA StepType == TypeOK /\ [Next]_vars => TypeOK'
  <1> SUFFICES ASSUME TypeOK, [Next]_vars PROVE TypeOK'
    OBVIOUS
  <1> USE DEF TypeOK
  <1>1. ASSUME Flush \/ SaveFlushes PROVE TypeOK'
    BY <1>1, CopiesType DEF Flush, SaveFlushes
  <1>2. ASSUME OwnerParks \/ OwnerRemounts PROVE TypeOK'
    <2>1. CASE OwnerParks
      BY <2>1, CopiesType DEF OwnerParks
    <2>2. CASE OwnerRemounts
      BY <2>2, RemountType DEF OwnerRemounts
    <2> QED BY <1>2, <2>1, <2>2
  <1>3. ASSUME OwnerUnparks \/ Syncs PROVE TypeOK'
    BY <1>3 DEF OwnerUnparks, Syncs, OnDisk
  <1>4. ASSUME Reboot \/ PowerCut PROVE TypeOK'
    <2>1. run' \in [Shells -> Runner]
      BY <1>4, IdleType DEF Reboot, PowerCut, Down
    <2>2. conv' \subseteq 1..MaxSid /\ synced' \subseteq conv'
      BY <1>4 DEF Reboot, PowerCut
    <2>3. tick' \in [Ticks -> [on: BOOLEAN, jobs: SUBSET Jobs, now: 0..MaxMinute]]
      <3>1. tick' = [t \in Ticks |-> Off]
        BY <1>4 DEF Reboot, PowerCut, Down
      <3>2. Off \in [on: BOOLEAN, jobs: SUBSET Jobs, now: 0..MaxMinute]
        BY BoundsAssumption DEF Off
      <3> QED BY <3>1, <3>2
    <2>4. cuts' \in 0..MaxCut
      BY <1>4 DEF Reboot, PowerCut
    <2>5. hot' \in Hot
      BY <1>4, BootedType, MixedType DEF Reboot, PowerCut
    <2>6. torn' \subseteq 1..MaxSid
      BY <1>4, <2>5 DEF Reboot, PowerCut, Hot
    <2> QED BY <1>4, <2>1, <2>2, <2>3, <2>4, <2>5, <2>6 DEF Reboot, PowerCut, Down
  <1>5. ASSUME NextMinute PROVE TypeOK'
    BY <1>5 DEF NextMinute
  <1>6. ASSUME PageTakes \/ PageDrops PROVE TypeOK'
    BY <1>6 DEF PageTakes, PageDrops
  <1>7. ASSUME NEW t \in Ticks, TickReads(t) PROVE TypeOK'
    BY <1>7 DEF TickReads
  <1>8. ASSUME NEW t \in Ticks, TickFires(t) PROVE TypeOK'
    <2>1. hot' \in Hot
      <3> DEFINE fired(j) == [hot.row[j] EXCEPT !.fired = tick[t].now]
                 due == {j \in tick[t].jobs : Due(j, tick[t].now)}
      <3>0. hot.row \in [Jobs -> Row] /\ tick[t].now \in 0..MaxMinute
        BY DEF Hot
      <3>1. \A j \in Jobs : hot.row[j] \in Row /\ fired(j) \in Row
        BY <3>0 DEF Row
      <3>2. hot' = [hot EXCEPT !.row = [j \in Jobs |-> IF j \in due THEN fired(j) ELSE hot.row[j]]]
        BY <1>8 DEF TickFires
      <3> HIDE DEF fired, due
      <3>3. [j \in Jobs |-> IF j \in due THEN fired(j) ELSE hot.row[j]] \in [Jobs -> Row]
        BY <3>1
      <3> QED BY <3>2, <3>3 DEF Hot
    <2>2. tick' \in [Ticks -> [on: BOOLEAN, jobs: SUBSET Jobs, now: 0..MaxMinute]]
      BY <1>8 DEF TickFires, Off
    <2>3. PICK fire \in SUBSET {j \in tick[t].jobs : Due(j, tick[t].now)} :
            /\ IF fire = {} THEN UNCHANGED run ELSE Starts(fire)
            /\ fires' = [j \in Jobs |->
                   IF j \in fire /\ tick[t].now = minute THEN fires[j] + 1 ELSE fires[j]]
      BY <1>8 DEF TickFires
    <2>4. run' \in [Shells -> Runner]
      BY <2>3, StartsType
    <2>5. fires' \in [Jobs -> Nat]
      BY <2>3
    <2> QED BY <1>8, <2>1, <2>2, <2>4, <2>5 DEF TickFires
  <1>9. ASSUME NEW j \in Jobs, RunNow(j) PROVE TypeOK'
    BY <1>9, StartsType DEF RunNow
  <1>10. ASSUME NEW j \in Jobs, SecretLands(j) PROVE TypeOK'
    <2>1. run' \in [Shells -> Runner]
      BY <1>10, StartsType DEF SecretLands
    <2> QED BY <1>10, <2>1 DEF SecretLands
  <1>11. ASSUME NEW j \in Jobs, SetJob(j) PROVE TypeOK'
    <2>1. conf' \in [Jobs -> Entry]
      BY <1>11 DEF SetJob, Entry
    <2>2. edits' \in 0..MaxEdit /\ saving' \in BOOLEAN
      BY <1>11 DEF SetJob, Edit
    <2> QED BY <1>11, <2>1, <2>2 DEF SetJob
  <1>12. ASSUME NEW j \in Jobs, RemoveJob(j) PROVE TypeOK'
    <2>1. conf' \in [Jobs -> Entry]
      <3>1. [conf[j] EXCEPT !.there = FALSE] \in Entry
        BY GoneType
      <3>2. conf' = [conf EXCEPT ![j] = [conf[j] EXCEPT !.there = FALSE]]
        BY <1>12 DEF RemoveJob
      <3> QED BY <3>1, <3>2
    <2>2. edits' \in 0..MaxEdit /\ saving' \in BOOLEAN
      BY <1>12 DEF RemoveJob, Edit
    <2>3. hot' \in Hot
      <3>1. [hot EXCEPT !.sid[j] = 0] \in Hot
        BY SidType
      <3>2. [[hot EXCEPT !.sid[j] = 0] EXCEPT !.row[j] = NoRow] \in Hot
        BY <3>1, NoRowType, RowType
      <3> QED BY <1>12, <3>1, <3>2 DEF RemoveJob
    <2>4. fires' = [fires EXCEPT ![j] = 0] \/ fires' = fires
      BY <1>12 DEF RemoveJob
    <2>5. fires' \in [Jobs -> Nat]
      BY <2>4
    <2> QED BY <1>12, <2>1, <2>2, <2>3, <2>5 DEF RemoveJob
  <1>13. ASSUME NEW r \in Shells, Check(r) PROVE TypeOK'
    <2>1. PICK j \in run[r].left :
              Skip(r, j) \/ Record(r, j) \/ Proceed(r, j)
      BY <1>13 DEF Check
    <2>2. j \in Jobs /\ run[r].left \ {j} \in SUBSET Jobs
      BY DEF Runner
    <2>3. run' \in [Shells -> Runner]
      <3>1. CASE Skip(r, j) \/ Record(r, j)
        BY <2>2, <3>1, ExitsType DEF Skip, Record
      <3>2. CASE Proceed(r, j)
        BY <2>2, <3>2 DEF Proceed, Runner, Entry
      <3> QED BY <2>1, <3>1, <3>2
    <2>4. hot' \in Hot
      BY <2>1, <2>2, PidType DEF Skip, Record, Proceed
    <2> QED BY <1>13, <2>3, <2>4 DEF Check
  <1>14. ASSUME NEW r \in Shells, LooksAtDisk(r) \/ Unparks(r) \/ Locks(r) PROVE TypeOK'
    <2>1. run[r] \in Runner
      OBVIOUS
    <2>2. \A p \in {"unpark", "lock", "begin", "repark"} :
              [run[r] EXCEPT !.pc = p] \in Runner /\ [run[r] EXCEPT !.pc = p, !.repark = TRUE] \in Runner
      BY <2>1 DEF Runner
    <2>3. run' \in [Shells -> Runner]
      <3>1. CASE LooksAtDisk(r)
        BY <2>2, <3>1 DEF LooksAtDisk
      <3>2. CASE Unparks(r)
        <4>1. run' = [run EXCEPT ![r] = [run[r] EXCEPT !.pc = "lock", !.repark = TRUE]]
          BY <3>2 DEF Unparks
        <4> QED BY <2>2, <4>1
      <3>3. CASE Locks(r)
        BY <2>2, <3>3 DEF Locks
      <3> QED BY <1>14, <3>1, <3>2, <3>3
    <2> QED BY <1>14, <2>3 DEF LooksAtDisk, Unparks, Locks
  <1>15. ASSUME NEW r \in Shells, Begins(r) PROVE TypeOK'
    <2> DEFINE j == run[r].job
               old == IF j \in Continue THEN hot.sid[j] ELSE 0
               sid == IF old # 0 THEN old ELSE IF j \in Continue THEN sids' ELSE 0
    <2>1. j \in Jobs /\ old \in 0..MaxSid
      BY DEF Runner, Hot
    <2>2. sids' \in 0..MaxSid /\ sid \in 0..MaxSid
      BY <1>15, <2>1 DEF Begins
    <2>3. hot' = [hot EXCEPT !.sid[j] = sid, !.row[j].pid = r]
      BY <1>15 DEF Begins
    <2>4. run' = [run EXCEPT ![r].pc = "agent", ![r].sid = sid, ![r].resume = Resumes(j, sid)]
      BY <1>15 DEF Begins
    <2>5. hot' \in Hot
      <3>1. [hot EXCEPT !.sid[j] = sid] \in Hot
        BY <2>1, <2>2, SidType
      <3>2. [[hot EXCEPT !.sid[j] = sid] EXCEPT !.row[j].pid = r] \in Hot
        BY <2>1, <3>1, PidType
      <3> QED BY <2>3, <3>2
    <2>6. Resumes(j, sid) \in BOOLEAN
      BY DEF Resumes
    <2>7. run' \in [Shells -> Runner]
      <3>1. [run[r] EXCEPT !.pc = "agent", !.sid = sid, !.resume = Resumes(j, sid)] \in Runner
        BY <2>2, <2>6, BeginsType
      <3>2. run' = [run EXCEPT ![r] = [run[r] EXCEPT !.pc = "agent", !.sid = sid, !.resume = Resumes(j, sid)]]
        BY <2>4
      <3> QED BY <3>1, <3>2
    <2> QED BY <1>15, <2>2, <2>5, <2>7 DEF Begins
  <1>16. ASSUME NEW r \in Shells, AgentWrites(r) PROVE TypeOK'
    <2>1. run[r].sid \in 1..MaxSid
      BY <1>16 DEF AgentWrites, Runner
    <2> QED BY <1>16, <2>1 DEF AgentWrites
  <1>17. ASSUME NEW r \in Shells, AgentEnds(r) PROVE TypeOK'
    <2>1. run' \in [Shells -> Runner]
      BY <1>17, GoesType DEF AgentEnds
    <2>5. run[r].job \in Jobs
      BY DEF Runner
    <2>2. PICK ok \in BOOLEAN :
              hot' = [Session(r, ok) EXCEPT !.row[run[r].job].pid = Nobody]
      BY <1>17 DEF AgentEnds
    <2>3. Session(r, ok) \in Hot
      <3>1. run[r].sid \in 0..MaxSid /\ hot \in Hot
        BY DEF Runner
      <3>2. CASE ok
        BY <3>1, <3>2 DEF Session, Hot
      <3>3. CASE ~ok
        <4>1. Session(r, ok) \in {[hot EXCEPT !.sid[run[r].job] = 0], [hot EXCEPT !.sid[run[r].job] = @]}
          BY <3>3 DEF Session
        <4>2. hot.sid[run[r].job] \in 0..MaxSid /\ 0 \in 0..MaxSid
          BY <2>5, <3>1 DEF Hot
        <4> QED BY <2>5, <3>1, <4>1, <4>2, SidType
      <3> QED BY <3>2, <3>3
    <2>4. hot' \in Hot
      BY <2>5, <2>2, <2>3, PidType
    <2> QED BY <1>17, <2>1, <2>4 DEF AgentEnds
  <1>18. ASSUME NEW r \in Shells, Reparks(r) \/ Remounts(r) PROVE TypeOK'
    <2>1. run[r].left \in SUBSET Jobs
      BY DEF Runner
    <2>2. ASSUME Leaves(r) PROVE run' \in [Shells -> Runner] /\ lock' \in Shells \cup {Nobody, Page}
      BY <2>1, <2>2, ExitsType DEF Leaves
    <2>3. CASE Reparks(r)
      BY <2>2, <2>3, CopiesType DEF Reparks
    <2>4. CASE Remounts(r)
      BY <2>2, <2>4, RemountType DEF Remounts
    <2> QED BY <1>18, <2>3, <2>4
  <1>19. ASSUME UNCHANGED vars PROVE TypeOK'
    BY <1>19 DEF vars
  <1> QED BY <1>1, <1>2, <1>3, <1>4, <1>5, <1>6, <1>7, <1>8, <1>9, <1>10, <1>11,
             <1>12, <1>13, <1>14, <1>15, <1>16, <1>17, <1>18, <1>19 DEF Next

(* The types hold in every reachable state. *)
THEOREM TypeCorrect == Spec => []TypeOK
  BY InitType, StepType, PTL DEF Spec

-----------------------------------------------------------------------------
(* The lock and the rows. *)

(* Only the holder of the lock is between its flock and its last lines, only
   a runner at its end parks, and no pid outlives a flush. *)
LockInv ==
    /\ \A r \in Shells : run[r].pc \in {"begin", "agent"} => lock = r
    /\ \A r \in Shells : r \in parkers \/ flusher = r => run[r].pc = "repark"
    /\ flusher \notin parkers
    /\ \A j \in Jobs : disk.row[j].pid = Nobody /\ copy.row[j].pid = Nobody

(* A step that writes no pid but Nobody, keeps the lock and ends no agent
   keeps the rows true. *)
LEMMA RowsKept ==
    ASSUME TypeOK, RowsTrue,
           lock' = lock,
           \A r \in Shells : run[r].pc = "agent" => run'[r] = run[r],
           \A j \in Jobs : hot'.row[j].pid \in {hot.row[j].pid, Nobody}
    PROVE  RowsTrue'
  <1>1. \A j \in Jobs : hot.row[j].pid \in Shells \cup {Nobody}
    BY DEF TypeOK, Hot, Row
  <1> QED BY <1>1 DEF RowsTrue

LEMMA CopiesPids ==
    ASSUME TypeOK, LockInv, NEW p, Copies(p)
    PROVE  /\ \A j \in Jobs : disk'.row[j].pid = Nobody /\ copy'.row[j].pid = Nobody
           /\ UNCHANGED parkers /\ flusher' = p
  BY DEF TypeOK, LockInv, Copies, Booted, Hot, Row

LEMMA RemountPids ==
    ASSUME LockInv, NEW p, Remount(p)
    PROVE  /\ \A j \in Jobs : disk'.row[j].pid = Nobody /\ copy'.row[j].pid = Nobody
           /\ p \in parkers /\ parkers' = parkers \ {p} /\ flusher' = flusher
  BY DEF LockInv, Remount, OnDisk

(* What a boot leaves of the rows, and what the start of a run adds. *)
LEMMA BootedRows ==
    ASSUME NEW h \in Hot, NEW j \in Jobs
    PROVE  Booted(h).row[j].fired = h.row[j].fired
  <1>1. h.row \in [Jobs -> Row]
    BY DEF Hot
  <1>2. Booted(h).row = [k \in Jobs |-> [h.row[k] EXCEPT !.pid = Nobody]]
    BY DEF Booted, Hot
  <1>3. Booted(h).row[j] = [h.row[j] EXCEPT !.pid = Nobody]
    BY <1>2
  <1> QED BY <1>1, <1>3 DEF Row

LEMMA PidSet ==
    ASSUME NEW rows \in [Jobs -> Row], NEW j \in Jobs, NEW p, NEW k \in Jobs
    PROVE  /\ [rows EXCEPT ![j].pid = p][k].fired = rows[k].fired
           /\ [rows EXCEPT ![j].pid = p][k].pid = IF k = j THEN p ELSE rows[k].pid
  <1>1. CASE k = j
    <2>1. [rows EXCEPT ![j].pid = p][k] = [rows[j] EXCEPT !.pid = p]
      BY <1>1
    <2> QED BY <1>1, <2>1 DEF Row
  <1>2. CASE k # j
    BY <1>2
  <1> QED BY <1>1, <1>2

LEMMA BeginsRows ==
    ASSUME TypeOK, NEW r \in Shells, Begins(r), NEW k \in Jobs
    PROVE  /\ hot'.row[k].fired = hot.row[k].fired
           /\ hot'.row[k].pid = IF k = run[r].job THEN r ELSE hot.row[k].pid
  <1>1. run[r].job \in Jobs /\ hot \in Hot
    BY DEF TypeOK, Runner
  <1>2. PICK sid : hot' = [hot EXCEPT !.sid[run[r].job] = sid, !.row[run[r].job].pid = r]
    BY DEF Begins
  <1>3. hot.row \in [Jobs -> Row] /\ hot'.row = [hot.row EXCEPT ![run[r].job].pid = r]
    BY <1>1, <1>2 DEF Hot
  <1> QED BY <1>1, <1>3, PidSet

LEMMA BeginsRun ==
    ASSUME TypeOK, NEW r \in Shells, Begins(r)
    PROVE  /\ run'[r].pc = "agent" /\ run'[r].job = run[r].job
           /\ run'[r].resume = Resumes(run[r].job, run'[r].sid)
           /\ \A s \in Shells \ {r} : run'[s] = run[s]
  <1>1. PICK sid : run' = [run EXCEPT ![r].pc = "agent", ![r].sid = sid,
                                      ![r].resume = Resumes(run[r].job, sid)]
    BY DEF Begins
  <1>2. run \in [Shells -> Runner] /\ run[r] \in Runner
    BY DEF TypeOK
  <1>3. run'[r] = [run[r] EXCEPT !.pc = "agent", !.sid = sid,
                                 !.resume = Resumes(run[r].job, sid)]
    BY <1>1, <1>2
  <1>4. \A s \in Shells \ {r} : run'[s] = run[s]
    BY <1>1, <1>2
  <1> QED BY <1>2, <1>3, <1>4 DEF Runner

LEMMA ExitsAgents ==
    ASSUME TypeOK, NEW r \in Shells, NEW left, Exits(r, left)
    PROVE  /\ run'[r].pc \in {"idle", "next"} /\ ~run'[r].repark
           /\ \A s \in Shells \ {r} : run'[s] = run[s]
  BY IdleType DEF TypeOK, Exits, Idle

LEMMA StartsAgents ==
    ASSUME TypeOK, NEW js, Starts(js)
    PROVE  \E r \in Shells :
               /\ run[r].pc = "idle" /\ run'[r].pc = "next" /\ ~run'[r].repark
               /\ \A s \in Shells \ {r} : run'[s] = run[s]
  <1>1. PICK r \in Shells :
            /\ run[r].pc = "idle"
            /\ run' = [run EXCEPT ![r] = [Idle EXCEPT !.pc = "next", !.left = js]]
    BY DEF Starts
  <1>2. run'[r].pc = "next" /\ ~run'[r].repark
    BY <1>1, IdleType DEF TypeOK, Idle
  <1>3. \A s \in Shells \ {r} : run'[s] = run[s]
    BY <1>1 DEF TypeOK
  <1> QED BY <1>1, <1>2, <1>3

RowsInv == TypeOK /\ LockInv /\ RowsTrue

LEMMA RowsInit == Init => RowsInv
  <1>1. Init => LockInv /\ RowsTrue
    BY IdleType DEF Init, LockInv, RowsTrue, NoRow
  <1> QED BY <1>1, InitType DEF RowsInv

LEMMA RowsStep == RowsInv /\ [Next]_vars => RowsInv'
  <1> SUFFICES ASSUME TypeOK, LockInv, RowsTrue, [Next]_vars
               PROVE  LockInv' /\ RowsTrue'
    BY StepType DEF RowsInv
  <1>0. hot \in Hot /\ hot' \in Hot /\ run \in [Shells -> Runner]
    BY StepType DEF TypeOK
  <1>1. CASE Flush \/ SaveFlushes
    <2>1. UNCHANGED flushVars \/ Copies(Saver)
      BY <1>1 DEF Flush, SaveFlushes
    <2> QED BY <1>1, <2>1, CopiesPids, RowsKept DEF Flush, SaveFlushes, LockInv, TypeOK
  <1>2. CASE OwnerParks \/ OwnerRemounts
    <2>1. UNCHANGED flushVars \/ (Copies(Owner) /\ Owner \notin parkers) \/ Remount(Owner)
      BY <1>2 DEF OwnerParks, OwnerRemounts
    <2> QED BY <1>2, <2>1, CopiesPids, RemountPids, RowsKept DEF OwnerParks, OwnerRemounts, LockInv
  <1>3. CASE OwnerUnparks \/ Syncs
    BY <1>3, RowsKept DEF OwnerUnparks, Syncs, OnDisk, LockInv, TypeOK
  <1>4. CASE Reboot \/ PowerCut
    <2>1. \A j \in Jobs : hot'.row[j].pid = Nobody
      <3>1. CASE Reboot
        BY <1>0, <3>1 DEF Reboot, Booted, Hot, Row
      <3>2. CASE PowerCut
        <4>1. hot' \in Mixed(disk, copy)
          BY <3>2 DEF PowerCut
        <4>2. hot'.row \in {disk.row, copy.row}
          BY <4>1, MixedType DEF TypeOK
        <4> QED BY <4>2 DEF LockInv
      <3> QED BY <1>4, <3>1, <3>2
    <2> QED BY <1>4, <2>1, IdleType DEF Reboot, PowerCut, Down, LockInv, RowsTrue
  <1>5. CASE NextMinute
    BY <1>5, RowsKept DEF NextMinute, LockInv
  <1>6. CASE PageTakes \/ PageDrops
    <2>1. \A j \in Jobs : hot.row[j].pid \in Shells \cup {Nobody}
      BY <1>0 DEF Hot, Row
    <2> QED BY <1>6, <2>1 DEF PageTakes, PageDrops, LockInv, RowsTrue
  <1>7. ASSUME NEW t \in Ticks, TickReads(t) PROVE LockInv' /\ RowsTrue'
    BY <1>7, RowsKept DEF TickReads, LockInv
  <1>8. ASSUME NEW t \in Ticks, TickFires(t) PROVE LockInv' /\ RowsTrue'
    <2>1. UNCHANGED run \/ \E js \in SUBSET Jobs : Starts(js)
      <3>1. PICK fire \in SUBSET {j \in tick[t].jobs : Due(j, tick[t].now)} :
                IF fire = {} THEN UNCHANGED run ELSE Starts(fire)
        BY <1>8 DEF TickFires
      <3>2. tick[t].jobs \subseteq Jobs
        BY DEF TypeOK
      <3> QED BY <3>1, <3>2
    <2>2. \A r \in Shells : run'[r] = run[r] \/ (run[r].pc = "idle" /\ run'[r].pc = "next")
      BY <2>1, StartsAgents
    <2>3. \A j \in Jobs : hot'.row[j].pid = hot.row[j].pid
      <3> DEFINE fired(j) == [hot.row[j] EXCEPT !.fired = tick[t].now]
                 due == {j \in tick[t].jobs : Due(j, tick[t].now)}
      <3>1. \A j \in Jobs : fired(j).pid = hot.row[j].pid
        BY <1>0 DEF Hot, Row
      <3>2. hot' = [hot EXCEPT !.row = [j \in Jobs |-> IF j \in due THEN fired(j) ELSE hot.row[j]]]
        BY <1>8 DEF TickFires
      <3> HIDE DEF fired, due
      <3> QED BY <1>0, <3>1, <3>2 DEF Hot
    <2>4. RowsTrue'
      BY <1>8, <2>2, <2>3, RowsKept DEF TickFires
    <2> QED BY <1>8, <2>2, <2>4 DEF TickFires, LockInv
  <1>9. ASSUME NEW j \in Jobs, RunNow(j) \/ SecretLands(j) PROVE LockInv' /\ RowsTrue'
    <2>1. \A r \in Shells : run'[r] = run[r] \/ (run[r].pc = "idle" /\ run'[r].pc = "next")
      BY <1>9, StartsAgents DEF RunNow, SecretLands
    <2>2. UNCHANGED <<hot, flushVars, lock>>
      BY <1>9 DEF RunNow, SecretLands
    <2> QED BY <2>1, <2>2, RowsKept DEF LockInv
  <1>10. ASSUME NEW j \in Jobs, SetJob(j) PROVE LockInv' /\ RowsTrue'
    BY <1>0, <1>10, RowsKept DEF SetJob, LockInv
  <1>11. ASSUME NEW j \in Jobs, RemoveJob(j) PROVE LockInv' /\ RowsTrue'
    <2>1. UNCHANGED flushVars
      BY <1>11 DEF RemoveJob
    <2>2. \A k \in Jobs : hot'.row[k].pid \in {hot.row[k].pid, Nobody}
      <3>1. hot'.row \in {[hot.row EXCEPT ![j] = NoRow], hot.row}
        BY <1>0, <1>11 DEF RemoveJob, Hot
      <3>2. hot.row \in [Jobs -> Row] /\ NoRow.pid = Nobody
        BY <1>0 DEF Hot, NoRow
      <3> QED BY <3>1, <3>2
    <2>3. RowsTrue'
      BY <1>11, <2>2, RowsKept DEF RemoveJob
    <2> QED BY <1>11, <2>1, <2>3 DEF RemoveJob, LockInv
  <1>12. ASSUME NEW r \in Shells, Check(r) PROVE LockInv' /\ RowsTrue'
    <2>1. PICK j \in run[r].left : Skip(r, j) \/ Record(r, j) \/ Proceed(r, j)
      BY <1>12 DEF Check
    <2>2. j \in Jobs
      BY <1>0 DEF Runner
    <2>3. run[r].pc = "next" /\ UNCHANGED <<lock, flushVars>>
      BY <1>12 DEF Check
    <2>4. run'[r].pc \notin {"begin", "agent"} /\ \A s \in Shells \ {r} : run'[s] = run[s]
      <3>1. CASE Skip(r, j) \/ Record(r, j)
        BY <3>1, ExitsAgents DEF Skip, Record
      <3>2. CASE Proceed(r, j)
        BY <1>0, <3>2 DEF Proceed, Runner
      <3> QED BY <2>1, <3>1, <3>2
    <2>5. \A k \in Jobs : hot'.row[k].pid \in {hot.row[k].pid, Nobody}
      BY <1>0, <2>1, <2>2 DEF Skip, Record, Proceed, Hot, Row
    <2>6. RowsTrue'
      BY <2>3, <2>4, <2>5, RowsKept
    <2> QED BY <2>3, <2>4, <2>6 DEF LockInv
  <1>13. ASSUME NEW r \in Shells, LooksAtDisk(r) \/ Unparks(r) PROVE LockInv' /\ RowsTrue'
    <2>1. /\ run[r].pc \notin {"agent", "repark"} /\ run'[r].pc \in {"unpark", "lock"}
          /\ \A s \in Shells \ {r} : run'[s] = run[s]
      BY <1>0, <1>13 DEF LooksAtDisk, Unparks, Runner
    <2>2. UNCHANGED <<hot, flushVars, lock>>
      BY <1>13 DEF LooksAtDisk, Unparks
    <2> QED BY <2>1, <2>2, RowsKept DEF LockInv
  <1>14. ASSUME NEW r \in Shells, Locks(r) PROVE LockInv' /\ RowsTrue'
    <2>1. \A s \in Shells \ {r} : run'[s] = run[s]
      BY <1>0, <1>14 DEF Locks
    <2>2. UNCHANGED <<hot, flushVars>> /\ run[r].pc = "lock"
      BY <1>14 DEF Locks
    <2>3. CASE lock = Nobody /\ lock' = r /\ run' = [run EXCEPT ![r].pc = "begin"]
      <3>1. \A j \in Jobs : hot.row[j].pid = Nobody
        BY <1>0, <2>3 DEF RowsTrue, Hot, Row
      <3> QED BY <2>1, <2>2, <2>3, <3>1 DEF LockInv, RowsTrue
    <2>4. CASE UNCHANGED lock /\ run' = [run EXCEPT ![r].pc = "repark"]
      <3>1. run'[r].pc = "repark"
        BY <1>0, <2>4 DEF Runner
      <3>2. RowsTrue'
        BY <2>1, <2>2, <2>4, RowsKept
      <3> QED BY <2>1, <2>2, <2>4, <3>1, <3>2 DEF LockInv
    <2> QED BY <1>14, <2>3, <2>4 DEF Locks
  <1>15. ASSUME NEW r \in Shells, Begins(r) PROVE LockInv' /\ RowsTrue'
    <2> DEFINE j == run[r].job
    <2>1. run[r].pc = "begin" /\ lock = r /\ UNCHANGED <<lock, flushVars>> /\ j \in Jobs
      BY <1>0, <1>15 DEF Begins, LockInv, Runner
    <2>2. /\ run'[r].pc = "agent" /\ run'[r].job = j
          /\ \A s \in Shells \ {r} : run'[s] = run[s]
      BY <1>15, BeginsRun
    <2>3. \A k \in Jobs : hot'.row[k].pid = IF k = j THEN r ELSE hot.row[k].pid
      BY <1>15, BeginsRows
    <2>4. \A k \in Jobs : hot.row[k].pid = Nobody
      BY <2>1 DEF RowsTrue
    <2> QED BY <2>1, <2>2, <2>3, <2>4 DEF LockInv, RowsTrue
  <1>16. ASSUME NEW r \in Shells, AgentWrites(r) PROVE LockInv' /\ RowsTrue'
    BY <1>16, RowsKept DEF AgentWrites, LockInv
  <1>17. ASSUME NEW r \in Shells, AgentEnds(r) PROVE LockInv' /\ RowsTrue'
    <2> DEFINE j == run[r].job
    <2>1. run[r].pc = "agent" /\ lock = r /\ UNCHANGED <<lock, flushVars>> /\ j \in Jobs
      BY <1>0, <1>17 DEF AgentEnds, LockInv, Runner
    <2>2. /\ run'[r].pc = "repark"
          /\ \A s \in Shells \ {r} : run'[s] = run[s]
      BY <1>0, <1>17 DEF AgentEnds, Runner
    <2>3. PICK ok \in BOOLEAN : hot' = [Session(r, ok) EXCEPT !.row[j].pid = Nobody]
      BY <1>17 DEF AgentEnds
    <2>4. Session(r, ok).row = hot.row
      BY <1>0 DEF Session, Hot
    <2>5. \A k \in Jobs : hot'.row[k].pid = IF k = j THEN Nobody ELSE hot.row[k].pid
      <3>1. hot'.row = [hot.row EXCEPT ![j].pid = Nobody]
        BY <1>0, <2>3, <2>4 DEF Session, Hot
      <3> QED BY <1>0, <2>1, <3>1 DEF Hot, Row
    <2>6. \A k \in Jobs : hot'.row[k].pid = Nobody
      BY <2>1, <2>5 DEF RowsTrue
    <2> QED BY <2>1, <2>2, <2>6 DEF LockInv, RowsTrue
  <1>18. ASSUME NEW r \in Shells, run[r].pc = "repark", r \notin parkers', flusher' # r,
                flusher' \notin parkers',
                UNCHANGED hot, Leaves(r),
                \A s \in Shells : s \in parkers' \/ flusher' = s => s \in parkers \/ flusher = s,
                \A k \in Jobs : disk'.row[k].pid = Nobody /\ copy'.row[k].pid = Nobody
         PROVE  LockInv' /\ RowsTrue'
    <2>1. lock' = IF lock = r THEN Nobody ELSE lock
      BY <1>18 DEF Leaves
    <2>2. run'[r].pc \in {"idle", "next"} /\ \A s \in Shells \ {r} : run'[s] = run[s]
      BY <1>18, ExitsAgents DEF Leaves
    <2>3. \A k \in Jobs : hot.row[k].pid \in Shells \cup {Nobody}
      BY <1>0 DEF Hot, Row
    <2> QED BY <1>18, <2>1, <2>2, <2>3 DEF LockInv, RowsTrue
  <1>20. ASSUME NEW r \in Shells, Reparks(r) PROVE LockInv' /\ RowsTrue'
    <2>1. run[r].pc = "repark" /\ r \notin parkers /\ flusher # r /\ UNCHANGED hot
      BY <1>20 DEF Reparks
    <2>2. CASE Copies(r) /\ UNCHANGED <<lock, run>>
      BY <2>1, <2>2, CopiesPids, RowsKept DEF LockInv
    <2>3. CASE Leaves(r) /\ UNCHANGED flushVars
      BY <1>18, <2>1, <2>3 DEF LockInv
    <2> QED BY <1>20, <2>2, <2>3 DEF Reparks
  <1>21. ASSUME NEW r \in Shells, Remounts(r) PROVE LockInv' /\ RowsTrue'
    <2>1. Remount(r) /\ Leaves(r) /\ UNCHANGED hot
      BY <1>21 DEF Remounts
    <2>2. run[r].pc = "repark" /\ r \notin parkers'
      BY <2>1, RemountPids DEF LockInv
    <2>3. flusher' # r /\ flusher' \notin parkers'
      BY <2>1, RemountPids DEF LockInv
    <2> QED BY <1>18, <2>1, <2>2, <2>3, RemountPids
  <1>19. CASE UNCHANGED vars
    BY <1>19, RowsKept DEF vars, LockInv
  <1> QED BY <1>1, <1>2, <1>3, <1>4, <1>5, <1>6, <1>7, <1>8, <1>9, <1>10, <1>11,
             <1>12, <1>13, <1>14, <1>15, <1>16, <1>17, <1>19, <1>20, <1>21 DEF Next

(* At most one job is shown as running, the one whose runner has the lock,
   however many shells, pages, edits and power cuts there are. *)
THEOREM RowsAlwaysTrue == Spec => []RowsTrue
  BY RowsInit, RowsStep, PTL DEF Spec, RowsInv

-----------------------------------------------------------------------------
(* Firing once. *)

(* A tick is of this minute, and a start above one for every power cut has
   left its minute in the row. *)
FiresInv ==
    /\ \A t \in Ticks : tick[t].on => tick[t].now = minute
    /\ \A j \in Jobs : fires[j] <= cuts + (IF hot.row[j].fired = minute THEN 1 ELSE 0)

LEMMA FiresKept ==
    ASSUME FiresInv, UNCHANGED <<minute, tick, fires, cuts>>,
           \A j \in Jobs : hot'.row[j].fired = hot.row[j].fired
    PROVE  FiresInv'
  BY DEF FiresInv

LEMMA FiresStep ==
    ASSUME ~Straddle, TypeOK, FiresInv, [Next]_vars
    PROVE  FiresInv'
  <1>0. /\ hot \in Hot /\ run \in [Shells -> Runner] /\ fires \in [Jobs -> Nat] /\ cuts \in Nat
        /\ minute \in Nat
        /\ tick \in [Ticks -> [on: BOOLEAN, jobs: SUBSET Jobs, now: 0..MaxMinute]]
    BY DEF TypeOK
  <1>1. CASE \/ Flush \/ SaveFlushes \/ Syncs \/ OwnerParks \/ OwnerRemounts \/ OwnerUnparks
             \/ PageTakes \/ PageDrops
    BY <1>1, FiresKept DEF Flush, SaveFlushes, Syncs, OwnerParks, OwnerRemounts, OwnerUnparks,
                           PageTakes, PageDrops
  <1>2. CASE PowerCut
    <2>1. \A j \in Jobs : fires[j] <= cuts + 1
      BY <1>0 DEF FiresInv
    <2>2. cuts' = cuts + 1 /\ UNCHANGED <<minute, fires>> /\ tick' = [t \in Ticks |-> Off]
      BY <1>2 DEF PowerCut, Down
    <2>3. \A j \in Jobs : fires'[j] <= cuts' + (IF hot'.row[j].fired = minute' THEN 1 ELSE 0)
      BY <1>0, <2>1, <2>2
    <2> QED BY <2>2, <2>3 DEF FiresInv, Off
  <1>3. CASE NextMinute
    BY <1>0, <1>3 DEF NextMinute, FiresInv
  <1>4. ASSUME NEW t \in Ticks, TickReads(t) PROVE FiresInv'
    BY <1>0, <1>4 DEF TickReads, FiresInv
  <1>5. ASSUME NEW t \in Ticks, TickFires(t) PROVE FiresInv'
    <2> DEFINE fired(j) == [hot.row[j] EXCEPT !.fired = tick[t].now]
               due == {j \in tick[t].jobs : Due(j, tick[t].now)}
    <2>1. tick[t].now = minute /\ UNCHANGED <<minute, cuts>>
          /\ tick' = [tick EXCEPT ![t] = Off]
      BY <1>5 DEF TickFires, FiresInv
    <2>2. PICK fire \in SUBSET due :
              fires' = [j \in Jobs |->
                  IF j \in fire /\ tick[t].now = minute THEN fires[j] + 1 ELSE fires[j]]
      BY <1>5 DEF TickFires
    <2>3. \A j \in Jobs : fired(j).fired = minute
      BY <1>0, <2>1 DEF Hot, Row
    <2>4. hot' = [hot EXCEPT !.row = [j \in Jobs |-> IF j \in due THEN fired(j) ELSE hot.row[j]]]
      BY <1>5 DEF TickFires
    <2>5. \A j \in due : hot.row[j].fired # minute
      BY <2>1 DEF Due
    <2>6. \A j \in Jobs : hot'.row[j].fired = IF j \in due THEN minute ELSE hot.row[j].fired
      <3> HIDE DEF fired, due
      <3> QED BY <1>0, <2>3, <2>4 DEF Hot
    <2>7. \A j \in Jobs : fires'[j] <= cuts + (IF hot'.row[j].fired = minute THEN 1 ELSE 0)
      <3> HIDE DEF due
      <3> QED BY <1>0, <2>1, <2>2, <2>5, <2>6 DEF FiresInv
    <2>8. \A u \in Ticks : tick'[u].on => tick'[u].now = minute
      BY <1>0, <2>1 DEF FiresInv, Off
    <2> QED BY <2>1, <2>7, <2>8 DEF FiresInv
  <1>6. ASSUME NEW j \in Jobs, RunNow(j) \/ SecretLands(j) \/ SetJob(j) PROVE FiresInv'
    BY <1>6, FiresKept DEF RunNow, SecretLands, SetJob
  <1>7. ASSUME NEW j \in Jobs, RemoveJob(j) PROVE FiresInv'
    <2>1. UNCHANGED <<minute, cuts, tick>>
      BY <1>7 DEF RemoveJob
    <2>2. CASE /\ hot' = [hot EXCEPT !.sid[j] = 0, !.row[j] = NoRow]
               /\ fires' = [fires EXCEPT ![j] = 0]
      <3>1. hot'.row = [hot.row EXCEPT ![j] = NoRow] /\ hot.row \in [Jobs -> Row]
        BY <1>0, <2>2 DEF Hot
      <3> QED BY <1>0, <2>1, <2>2, <3>1 DEF FiresInv
    <2>3. CASE hot' = [hot EXCEPT !.sid[j] = 0] /\ UNCHANGED fires
      <3>1. hot'.row = hot.row
        BY <1>0, <2>3 DEF Hot
      <3> QED BY <2>1, <2>3, <3>1, FiresKept
    <2> QED BY <1>7, <2>2, <2>3 DEF RemoveJob
  <1>8. ASSUME NEW r \in Shells, Check(r) PROVE FiresInv'
    <2>1. PICK j \in run[r].left : Skip(r, j) \/ Record(r, j) \/ Proceed(r, j)
      BY <1>8 DEF Check
    <2>2. j \in Jobs
      BY <1>0 DEF Runner
    <2>3. \A k \in Jobs : hot'.row[k].fired = hot.row[k].fired
      BY <1>0, <2>1, <2>2 DEF Skip, Record, Proceed, Hot, Row
    <2> QED BY <1>8, <2>3, FiresKept DEF Check
  <1>9. ASSUME NEW r \in Shells,
               \/ LooksAtDisk(r) \/ Unparks(r) \/ Locks(r) \/ AgentWrites(r)
               \/ Reparks(r) \/ Remounts(r)
        PROVE  FiresInv'
    BY <1>9, FiresKept DEF LooksAtDisk, Unparks, Locks, AgentWrites, Reparks, Remounts
  <1>10. ASSUME NEW r \in Shells, Begins(r) PROVE FiresInv'
    <2>1. \A k \in Jobs : hot'.row[k].fired = hot.row[k].fired
      BY <1>10, BeginsRows
    <2> QED BY <1>10, <2>1, FiresKept DEF Begins
  <1>11. ASSUME NEW r \in Shells, AgentEnds(r) PROVE FiresInv'
    <2>1. run[r].job \in Jobs
      BY <1>0 DEF Runner
    <2>2. hot'.row = [hot.row EXCEPT ![run[r].job].pid = Nobody]
      BY <1>0, <1>11 DEF AgentEnds, Session, Hot
    <2>3. \A k \in Jobs : hot'.row[k].fired = hot.row[k].fired
      BY <1>0, <2>1, <2>2 DEF Hot, Row
    <2> QED BY <1>11, <2>3, FiresKept DEF AgentEnds
  <1>12. CASE Reboot
    <2>1. UNCHANGED <<minute, fires, cuts>> /\ tick' = [t \in Ticks |-> Off]
      BY <1>12 DEF Reboot, Down
    <2>2. \A j \in Jobs : hot'.row[j].fired = hot.row[j].fired
      BY <1>0, <1>12, BootedRows DEF Reboot
    <2> QED BY <2>1, <2>2 DEF FiresInv, Off
  <1>13. CASE UNCHANGED vars
    BY <1>13, FiresKept DEF vars
  <1> QED BY <1>1, <1>2, <1>3, <1>4, <1>5, <1>6, <1>7, <1>8, <1>9, <1>10, <1>11,
             <1>12, <1>13 DEF Next

(* A tick that ends in the minute it read never fires a job twice in it,
   whoever else runs a tick, but for a power cut. *)
THEOREM JobsFireOnce ==
    ASSUME ~Straddle
    PROVE  Spec => []FiredOnce
  <1>1. Init => FiresInv
    BY DEF Init, FiresInv, Off
  <1>2. TypeOK /\ FiresInv /\ [Next]_vars => FiresInv'
    BY FiresStep
  <1>3. TypeOK /\ FiresInv => FiredOnce
    BY DEF TypeOK, FiresInv, FiredOnce
  <1> QED BY <1>1, <1>2, <1>3, TypeCorrect, PTL DEF Spec

-----------------------------------------------------------------------------
(* Parking again. *)

(* While the owner's park is undone some runner has still to repark, or the
   kernel has refused one. *)
ParkInv ==
    /\ \A r \in Shells : run[r].repark => run[r].pc \in {"lock", "begin", "agent", "repark"}
    /\ wanted => parked \/ refused \/ \E r \in Shells : run[r].repark

LEMMA ParkKept ==
    ASSUME ParkInv, UNCHANGED parkVars,
           \A r \in Shells : /\ run'[r].repark = run[r].repark
                             /\ run'[r].repark => run'[r].pc \in {"lock", "begin", "agent", "repark"}
    PROVE  ParkInv'
  BY DEF ParkInv

LEMMA ParkStep ==
    ASSUME TypeOK, ParkInv, [Next]_vars
    PROVE  ParkInv'
  <1>0. run \in [Shells -> Runner]
    BY DEF TypeOK
  <1>1. CASE Flush \/ SaveFlushes \/ Syncs \/ NextMinute \/ PageTakes \/ PageDrops
    BY <1>1 DEF Flush, SaveFlushes, Syncs, NextMinute, PageTakes, PageDrops, ParkInv
  <1>2. CASE OwnerParks \/ OwnerRemounts \/ OwnerUnparks
    <2>1. UNCHANGED run /\ (wanted' => parked' \/ (wanted /\ ~parked' /\ refused' = refused /\ ~parked))
      BY <1>2 DEF OwnerParks, OwnerRemounts, Remount, OwnerUnparks, TypeOK
    <2> QED BY <2>1 DEF ParkInv
  <1>3. CASE Reboot \/ PowerCut
    BY <1>3, IdleType DEF Reboot, PowerCut, Down, ParkInv
  <1>4. ASSUME NEW js \in SUBSET Jobs, Starts(js), UNCHANGED parkVars
        PROVE  ParkInv'
    BY <1>0, <1>4, StartsAgents, ParkKept DEF ParkInv, Runner
  <1>5. ASSUME NEW t \in Ticks, TickReads(t) \/ TickFires(t) PROVE ParkInv'
    <2>1. tick[t].jobs \subseteq Jobs
      BY DEF TypeOK
    <2>2. UNCHANGED parkVars
      BY <1>5 DEF TickReads, TickFires
    <2>3. UNCHANGED run \/ \E js \in SUBSET Jobs : Starts(js)
      BY <1>5, <2>1 DEF TickReads, TickFires
    <2> QED BY <1>4, <2>2, <2>3 DEF ParkInv
  <1>6. ASSUME NEW j \in Jobs, RunNow(j) \/ SecretLands(j) \/ SetJob(j) \/ RemoveJob(j)
        PROVE  ParkInv'
    <2>1. UNCHANGED parkVars /\ (UNCHANGED run \/ Starts({j}))
      BY <1>6 DEF RunNow, SecretLands, SetJob, RemoveJob
    <2>2. {j} \in SUBSET Jobs
      OBVIOUS
    <2> QED BY <1>4, <2>1, <2>2 DEF ParkInv
  <1>7. ASSUME NEW r \in Shells, Check(r) PROVE ParkInv'
    <2>1. PICK j \in run[r].left : Skip(r, j) \/ Record(r, j) \/ Proceed(r, j)
      BY <1>7 DEF Check
    <2>2. ~run[r].repark /\ UNCHANGED parkVars
      BY <1>7 DEF Check, ParkInv
    <2>3. ~run'[r].repark /\ \A s \in Shells \ {r} : run'[s] = run[s]
      <3>1. CASE Skip(r, j) \/ Record(r, j)
        BY <3>1, ExitsAgents DEF Skip, Record
      <3>2. CASE Proceed(r, j)
        BY <1>0, <2>2, <3>2 DEF Proceed, Runner
      <3> QED BY <2>1, <3>1, <3>2
    <2> QED BY <1>0, <2>2, <2>3, ParkKept DEF ParkInv, Runner
  <1>8. ASSUME NEW r \in Shells, LooksAtDisk(r) PROVE ParkInv'
    <2>1. ~run[r].repark /\ UNCHANGED parkVars
      BY <1>8 DEF LooksAtDisk, ParkInv
    <2>2. ~run'[r].repark /\ \A s \in Shells \ {r} : run'[s] = run[s]
      BY <1>0, <1>8, <2>1 DEF LooksAtDisk, Runner
    <2> QED BY <1>0, <2>1, <2>2, ParkKept DEF ParkInv, Runner
  <1>9. ASSUME NEW r \in Shells, Unparks(r) PROVE ParkInv'
    <2>1. run'[r].repark /\ run'[r].pc = "lock" /\ \A s \in Shells \ {r} : run'[s] = run[s]
      BY <1>0, <1>9 DEF Unparks, Runner
    <2> QED BY <2>1 DEF ParkInv
  <1>10. ASSUME NEW r \in Shells, Locks(r) \/ Begins(r) \/ AgentWrites(r) \/ AgentEnds(r)
         PROVE  ParkInv'
    <2>1. UNCHANGED parkVars /\ \A s \in Shells \ {r} : run'[s] = run[s]
      BY <1>0, <1>10 DEF Locks, Begins, AgentWrites, AgentEnds
    <2>2. run'[r].repark = run[r].repark /\ run'[r].pc \in {"begin", "agent", "repark"}
      BY <1>0, <1>10 DEF Locks, Begins, AgentWrites, AgentEnds, Runner
    <2> QED BY <2>1, <2>2, ParkKept DEF ParkInv
  <1>11. ASSUME NEW r \in Shells, Reparks(r) PROVE ParkInv'
    <2>1. UNCHANGED parkVars
      BY <1>11 DEF Reparks
    <2>2. CASE UNCHANGED run
      BY <2>1, <2>2 DEF ParkInv
    <2>3. CASE Leaves(r) /\ ~(run[r].repark /\ ~parked)
      <3>1. ~run'[r].repark /\ \A s \in Shells \ {r} : run'[s] = run[s]
        BY <2>3, ExitsAgents DEF Leaves
      <3> QED BY <2>1, <2>3, <3>1 DEF ParkInv
    <2> QED BY <1>11, <2>2, <2>3 DEF Reparks
  <1>13. ASSUME NEW r \in Shells, Remounts(r) PROVE ParkInv'
    <2>1. ~run'[r].repark /\ \A s \in Shells \ {r} : run'[s] = run[s]
      BY <1>13, ExitsAgents DEF Remounts, Leaves
    <2>2. parked' \/ refused'
      BY <1>13 DEF Remounts
    <2> QED BY <2>1, <2>2 DEF ParkInv
  <1>12. CASE UNCHANGED vars
    BY <1>12 DEF vars, ParkInv
  <1> QED BY <1>1, <1>2, <1>3, <1>5, <1>6, <1>7, <1>8, <1>9, <1>10, <1>11, <1>12, <1>13 DEF Next

(* However many runs unpark, are refused the lock or fail, a /data the owner
   parked is parked again once no shell is left, unless the kernel has
   refused the last park a run asked for. *)
THEOREM DiskParkedAgain == Spec => []ParkedAgain
  <1>1. Init => ParkInv
    BY IdleType DEF Init, ParkInv
  <1>2. TypeOK /\ ParkInv /\ [Next]_vars => ParkInv'
    BY ParkStep
  <1>3. ParkInv => ParkedAgain
    BY DEF ParkInv, ParkedAgain
  <1> QED BY <1>1, <1>2, <1>3, TypeCorrect, PTL DEF Spec

-----------------------------------------------------------------------------
(* Conversations. *)

(* A resume marker is of a conversation claude has, in RAM and in its copies,
   and outside a flush a power cut takes none that has its marker in them. *)
ResumeInv ==
    /\ hot.started \subseteq conv \cup torn
    /\ copy.started \subseteq conv \cup torn
    /\ disk.started \subseteq synced \cup torn
    /\ flusher = Nobody => copy.started \subseteq synced \cup torn
    /\ \A r \in Shells : run[r].pc = "agent" /\ run[r].resume => run[r].sid \in conv \cup torn

(* The part of it that is about the copies. *)
MarkersInv ==
    /\ copy.started \subseteq conv \cup torn
    /\ disk.started \subseteq synced \cup torn
    /\ flusher = Nobody => copy.started \subseteq synced \cup torn

LEMMA CopiesMarkers ==
    ASSUME TypeOK, ResumeInv, NEW p \in Shells \cup {Owner, Saver}, Copies(p), UNCHANGED conv
    PROVE  MarkersInv' /\ UNCHANGED torn
  <1>1. copy'.started = hot.started
    BY DEF Copies, Booted, TypeOK, Hot
  <1> QED BY <1>1 DEF Copies, ResumeInv, MarkersInv

LEMMA OnDiskMarkers ==
    ASSUME TypeOK, ResumeInv, OnDisk, UNCHANGED <<conv, copy, torn>>
    PROVE  MarkersInv'
  BY DEF OnDisk, ResumeInv, MarkersInv

LEMMA ResumeKept ==
    ASSUME TypeOK, ResumeInv, UNCHANGED <<conv, torn>>, hot'.started = hot.started,
           MarkersInv' \/ UNCHANGED flushVars,
           \A r \in Shells : run'[r].pc = "agent" => run'[r] = run[r]
    PROVE  ResumeInv'
  BY DEF ResumeInv, MarkersInv

LEMMA ResumeStep ==
    ASSUME Backends = {"claude"}, TypeOK, ResumeInv, [Next]_vars
    PROVE  ResumeInv'
  <1>0. /\ hot \in Hot /\ hot' \in Hot /\ run \in [Shells -> Runner]
        /\ synced \subseteq conv
    BY StepType DEF TypeOK
  <1>1. CASE Flush \/ SaveFlushes \/ OwnerParks
    <2>1. UNCHANGED <<conv, hot, run>>
      BY <1>1 DEF Flush, SaveFlushes, OwnerParks
    <2>2. UNCHANGED flushVars \/ \E p \in Shells \cup {Owner, Saver} : Copies(p)
      BY <1>1 DEF Flush, SaveFlushes, OwnerParks
    <2> QED BY <2>1, <2>2, CopiesMarkers, ResumeKept
  <1>14. CASE Syncs \/ OwnerRemounts
    <2>1. UNCHANGED <<conv, hot, run, copy, torn>> /\ OnDisk
      BY <1>14 DEF Syncs, OwnerRemounts, Remount
    <2> QED BY <2>1, OnDiskMarkers, ResumeKept
  <1>2. CASE OwnerUnparks \/ NextMinute \/ PageTakes \/ PageDrops \/ UNCHANGED vars
    BY <1>0, <1>2, ResumeKept DEF OwnerUnparks, NextMinute, PageTakes, PageDrops, vars
  <1>3. CASE Reboot \/ PowerCut
    <2>1. /\ copy' = hot' /\ disk' = hot' /\ synced' = conv' /\ torn \subseteq torn'
          /\ \A r \in Shells : run'[r].pc # "agent"
      BY <1>3, IdleType DEF Reboot, PowerCut, Down
    <2>2. hot'.started \subseteq conv' \cup torn'
      <3>1. CASE Reboot
        <4>1. Booted(hot).started = hot.started
          BY <1>0 DEF Booted, Hot
        <4> QED BY <3>1, <4>1 DEF Reboot, ResumeInv
      <3>2. CASE PowerCut
        <4>1. hot'.started \subseteq disk.started \cup copy.started
          BY <3>2, MixedType DEF PowerCut, TypeOK
        <4>2. synced \subseteq conv'
          BY <3>2 DEF PowerCut
        <4>3. CASE flusher = Nobody
          BY <3>2, <4>1, <4>2, <4>3 DEF PowerCut, ResumeInv
        <4>4. CASE flusher # Nobody
          BY <3>2, <4>4 DEF PowerCut
        <4> QED BY <4>3, <4>4
      <3> QED BY <1>3, <3>1, <3>2
    <2> QED BY <2>1, <2>2 DEF ResumeInv
  <1>4. ASSUME NEW js \in SUBSET Jobs, Starts(js) \/ UNCHANGED run,
               UNCHANGED <<conv, flushVars>>, hot'.started = hot.started
        PROVE  ResumeInv'
    <2>1. \A r \in Shells : run'[r].pc = "agent" => run'[r] = run[r]
      BY <1>4, StartsAgents
    <2> QED BY <1>0, <1>4, <2>1, ResumeKept
  <1>5. ASSUME NEW t \in Ticks, TickReads(t) \/ TickFires(t) PROVE ResumeInv'
    <2>1. tick[t].jobs \subseteq Jobs
      BY DEF TypeOK
    <2>2. UNCHANGED run \/ \E js \in SUBSET Jobs : Starts(js)
      BY <1>5, <2>1 DEF TickReads, TickFires
    <2>3. UNCHANGED <<conv, flushVars>> /\ hot'.started = hot.started
      BY <1>0, <1>5 DEF TickReads, TickFires, Hot
    <2> QED BY <1>4, <2>2, <2>3
  <1>6. ASSUME NEW j \in Jobs, RunNow(j) \/ SecretLands(j) PROVE ResumeInv'
    <2>1. Starts({j}) \/ UNCHANGED run
      BY <1>6 DEF RunNow, SecretLands
    <2>2. UNCHANGED <<conv, flushVars, hot>>
      BY <1>6 DEF RunNow, SecretLands
    <2>3. {j} \in SUBSET Jobs
      OBVIOUS
    <2> QED BY <1>4, <2>1, <2>2, <2>3
  <1>7. ASSUME NEW j \in Jobs, SetJob(j) \/ RemoveJob(j) PROVE ResumeInv'
    <2>1. hot'.started = hot.started
      BY <1>0, <1>7 DEF SetJob, RemoveJob, Hot
    <2>2. UNCHANGED <<conv, flushVars, run>>
      BY <1>7 DEF SetJob, RemoveJob
    <2> QED BY <1>0, <2>1, <2>2, ResumeKept
  <1>8. ASSUME NEW r \in Shells, Check(r) PROVE ResumeInv'
    <2>1. PICK j \in run[r].left : Skip(r, j) \/ Record(r, j) \/ Proceed(r, j)
      BY <1>8 DEF Check
    <2>2. run'[r].pc # "agent" /\ \A s \in Shells \ {r} : run'[s] = run[s]
      <3>1. CASE Skip(r, j) \/ Record(r, j)
        BY <3>1, ExitsAgents DEF Skip, Record
      <3>2. CASE Proceed(r, j)
        BY <1>0, <3>2 DEF Proceed, Runner
      <3> QED BY <2>1, <3>1, <3>2
    <2>3. hot'.started = hot.started
      BY <1>0, <2>1 DEF Skip, Record, Proceed, Hot
    <2> QED BY <1>0, <1>8, <2>2, <2>3, ResumeKept DEF Check
  <1>9. ASSUME NEW r \in Shells, LooksAtDisk(r) \/ Unparks(r) \/ Locks(r) PROVE ResumeInv'
    <2>1. run'[r].pc # "agent" /\ \A s \in Shells \ {r} : run'[s] = run[s]
      BY <1>0, <1>9 DEF LooksAtDisk, Unparks, Locks, Runner
    <2>2. UNCHANGED <<conv, flushVars, hot>>
      BY <1>9 DEF LooksAtDisk, Unparks, Locks
    <2> QED BY <1>0, <2>1, <2>2, ResumeKept
  <1>10. ASSUME NEW r \in Shells, Begins(r) PROVE ResumeInv'
    <2>1. UNCHANGED <<conv, flushVars>> /\ \A s \in Shells \ {r} : run'[s] = run[s]
      BY <1>10, BeginsRun DEF Begins
    <2>2. hot'.started = hot.started
      BY <1>0, <1>10 DEF Begins, Hot
    <2>3. run'[r].resume => run'[r].sid \in hot.started
      BY <1>10, BeginsRun DEF Resumes
    <2> QED BY <1>0, <2>1, <2>2, <2>3 DEF ResumeInv
  <1>11. ASSUME NEW r \in Shells, AgentWrites(r) PROVE ResumeInv'
    BY <1>11 DEF AgentWrites, ResumeInv
  <1>12. ASSUME NEW r \in Shells, AgentEnds(r) PROVE ResumeInv'
    <2>1. /\ UNCHANGED <<conv, flushVars>>
          /\ run'[r].pc = "repark" /\ \A s \in Shells \ {r} : run'[s] = run[s]
      BY <1>0, <1>12 DEF AgentEnds, Runner
    <2>2. run[r].backend = "claude"
      BY <1>0 DEF Runner
    <2>3. PICK ok \in BOOLEAN :
              /\ ok => run[r].sid \in conv \cup {0}
              /\ hot' = [Session(r, ok) EXCEPT !.row[run[r].job].pid = Nobody]
      BY <1>12, <2>2 DEF AgentEnds
    <2>4. Session(r, ok) \in {[hot EXCEPT !.started = @ \cup ({run[r].sid} \ {0})],
                             [hot EXCEPT !.sid[run[r].job] = 0], hot}
          /\ (~ok => Session(r, ok).started = hot.started)
          /\ (ok => Session(r, ok).started = hot.started \cup ({run[r].sid} \ {0}))
      BY <1>0 DEF Session, Hot
    <2>5. hot'.started = Session(r, ok).started
      BY <1>0, <2>3, <2>4 DEF Hot
    <2>6. hot'.started \subseteq conv \cup torn
      BY <2>3, <2>4, <2>5 DEF ResumeInv
    <2> QED BY <2>1, <2>6 DEF ResumeInv
  <1>13. ASSUME NEW r \in Shells, Reparks(r) \/ Remounts(r) PROVE ResumeInv'
    <2>1. \A s \in Shells : run'[s].pc = "agent" => run'[s] = run[s]
      BY <1>13, ExitsAgents DEF Reparks, Remounts, Leaves
    <2>2. UNCHANGED <<conv, hot>>
      BY <1>13 DEF Reparks, Remounts
    <2>3. UNCHANGED flushVars \/ Copies(r) \/ (OnDisk /\ UNCHANGED <<copy, torn>>)
      BY <1>13 DEF Reparks, Remounts, Remount
    <2> QED BY <2>1, <2>2, <2>3, CopiesMarkers, OnDiskMarkers, ResumeKept
  <1> QED BY <1>1, <1>2, <1>3, <1>5, <1>6, <1>7, <1>8, <1>9, <1>10, <1>11, <1>12,
             <1>13, <1>14 DEF Next

(* With claude the only assistant, no run is told to resume a conversation
   that claude does not have, but for those a power cut has torn from their
   markers between the rsync and the sync of a flush. *)
THEOREM ClaudeResumesReal ==
    ASSUME Backends = {"claude"}
    PROVE  Spec => []ResumesReal
  <1>1. Init => ResumeInv
    BY IdleType DEF Init, ResumeInv
  <1>2. TypeOK /\ ResumeInv /\ [Next]_vars => ResumeInv'
    BY ResumeStep
  <1>3. ResumeInv => ResumesReal
    BY DEF ResumeInv, ResumesReal
  <1> QED BY <1>1, <1>2, <1>3, TypeCorrect, PTL DEF Spec
=============================================================================
