------------------------------- MODULE Ledger -------------------------------
(***************************************************************************)
(* What a box spends, and what that stops (ledger.py).                     *)
(*                                                                         *)
(* A pass (ingest) reads what the transcripts have new, a row for each     *)
(* message, into the file of the message's month, and last the cursor: per *)
(* transcript, the inode, how far it has read, and a ring of the messages  *)
(* it has counted. Passes hold a lock. enforce_cap does not: the worker's, *)
(* a request's and a command line's may overlap. It compares the month's   *)
(* spend to the caps of the box, the cluster and one scheduled job, tells  *)
(* the owner, once a month each, and writes paused.json and the plain      *)
(* marker, which the gates read (why_paused).                              *)
(*                                                                         *)
(* A message is a number and costs Price. One line is a message's content, *)
(* or more of the same message. A run of the job (pipeos-schedule-run) has *)
(* a transcript, which the ledger knows for the job's once the run is in   *)
(* runs.log.                                                               *)
(*                                                                         *)
(* Abstracted: a peer is one note (Cluster.tla has the members); a write   *)
(* of a file of rows is one step; enforce_cap reads all it judges by in    *)
(* one step; thirteen months are kept, the model has fewer; rates.         *)
(***************************************************************************)
EXTENDS Naturals, Sequences, FiniteSets, Bags, FiniteSetsExt

CONSTANTS
    Transcript, \* the transcripts
    JobRun,     \* those of the job's runs
    Proc,       \* who may read or enforce
    Worker,     \* the dashboard's worker, each minute
    Ring,       \* how many messages a cursor remembers (256)
    Price,      \* of a message
    Caps,       \* the caps an owner may set; 0 is none
    Spends,     \* what a peer may say that it spent
    Play        \* what may happen: one of these in each behaviour

(* What may happen: "torn", a line is written in two steps; "more", more   *)
(* lines of a message; "redo", a transcript is replaced by a copy, perhaps *)
(* a shorter, older one; "shrink", one is cut short in place; "job", runs  *)
(* of the job; "cap:…", a cap is set; "peer", the peer's note changes;     *)
(* "pass", processes other than the worker read; "beside", they enforce,   *)
(* "alone", but never beside another.                                      *)
Feature == {"torn", "more", "redo", "shrink", "job", "cap:box", "cap:cluster", "cap:job",
            "peer", "pass", "beside", "alone"}

(* And the bounds: on messages, on changes of other kinds, on what         *)
(* processes besides the worker start, on kills, and the last month.       *)
Plays == [may: SUBSET Feature, msg: Nat, change: Nat, op: Nat, kill: Nat, month: Nat]

Scope == {"box", "cluster", "job"}

ASSUME LedgerAssumption ==
    /\ Transcript # {} /\ JobRun \subseteq Transcript /\ Worker \in Proc /\ "none" \notin Proc \cup Transcript
    /\ Ring \in Nat \ {0} /\ Price \in Nat
    /\ Caps \subseteq Nat /\ 0 \in Caps /\ Spends \subseteq Nat /\ 0 \in Spends
    /\ Play \subseteq Plays

VARIABLES
    text,       \* what each transcript holds
    cursor,     \* cursor.json
    rows,       \* the months' files: a bag of rows
    pass,       \* the pass that has the lock
    run,        \* the transcript of the run there is, or "none"
    logged,     \* the runs that runs.log has
    caps,       \* the caps
    peer,       \* what the peer said last
    month,      \* this month
    markers,    \* the messages that are marked as sent
    told,       \* the messages sent to the owner about a scope
    json,       \* paused.json: the caps that are reached, 0 for none
    plain,      \* the plain marker: the scope and the cap it names
    enf,        \* where each process is in enforce_cap
    count,      \* messages, changes, starts, kills so far
    play        \* what may happen in this behaviour

reading == <<text, cursor, rows, pass>>
judging == <<markers, told, json, plain, enf>>
given == <<run, logged, caps, peer, month>>
vars == <<reading, judging, given, count, play>>

Line == [id: Nat, month: Nat]
Row == [id: Nat, month: Nat, job: BOOLEAN]
Text == [ino: Nat, lines: Seq(Line), whole: BOOLEAN]
Mark == [ino: Nat, off: Nat, seen: Seq(Nat)]
Kind == {"warned", "paused"}
NoPause == [s \in Scope |-> 0]
NoPlain == [scope |-> "none", cap |-> 0]

Pass == [at: {"idle", "look", "read", "line", "add"}, by: Proc, left: SUBSET Transcript, t: Transcript,
         ino: Nat, from: Nat, upto: Nat, data: Seq(Line), seen: Seq(Nat),
         cursor: [Transcript -> Mark], runs: SUBSET Transcript, out: SUBSET Row]

Enforce == [at: {"idle", "ready", "tell", "mark", "plain"}, todo: SUBSET (Scope \X Kind), month: Nat,
            doc: [Scope -> Nat], before: [Scope -> Nat]]

NoPass == [at |-> "idle", by |-> Worker, left |-> {}, t |-> CHOOSE t \in Transcript : TRUE,
           ino |-> 0, from |-> 0, upto |-> 0, data |-> <<>>, seen |-> <<>>,
           cursor |-> [t \in Transcript |-> [ino |-> 0, off |-> 0, seen |-> <<>>]], runs |-> {}, out |-> {}]

NoEnforce == [at |-> "idle", todo |-> {}, month |-> 0, doc |-> NoPause, before |-> NoPause]

Init ==
    /\ text = [t \in Transcript |-> [ino |-> 1, lines |-> <<>>, whole |-> TRUE]]
    /\ cursor = NoPass.cursor
    /\ rows = EmptyBag
    /\ pass = NoPass
    /\ run = "none" /\ logged = {}
    /\ caps = NoPause /\ peer = [month |-> 1, spent |-> 0] /\ month = 1
    /\ markers = {} /\ told = [s \in Scope |-> <<>>]
    /\ json = NoPause /\ plain = NoPlain
    /\ enf = [p \in Proc |-> NoEnforce]
    /\ count = [msg |-> 0, change |-> 0, op |-> 0, kill |-> 0]
    /\ play \in Play

ReadingOK ==
    /\ text \in [Transcript -> Text]
    /\ cursor \in [Transcript -> Mark]
    /\ BagToSet(rows) \subseteq Row /\ \A r \in BagToSet(rows) : rows[r] \in Nat \ {0}
    /\ pass \in Pass

JudgingOK ==
    /\ markers \subseteq Scope \X Kind \X Nat
    /\ told \in [Scope -> Seq([kind: Kind, month: Nat])]
    /\ json \in [Scope -> Nat] /\ plain \in [scope: Scope \cup {"none"}, cap: Nat]
    /\ enf \in [Proc -> Enforce]

GivenOK ==
    /\ run \in JobRun \cup {"none"} /\ logged \subseteq JobRun
    /\ caps \in [Scope -> Caps] /\ peer \in [month: Nat, spent: Spends] /\ month \in Nat
    /\ count \in [msg: Nat, change: Nat, op: Nat, kill: Nat]
    /\ play \in Play

TypeOK == ReadingOK /\ JudgingOK /\ GivenOK

Counts(what) ==
    /\ count[what] < play[what]
    /\ count' = [count EXCEPT ![what] = @ + 1]

May(what) == what \in play.may /\ Counts("change")

\* why_paused: the plain marker, then paused.json.
Stops(job) ==
    \/ plain # NoPlain
    \/ json["box"] # 0 \/ json["cluster"] # 0
    \/ job /\ json["job"] # 0

-----------------------------------------------------------------------------
(* What the ledger is given. *)

Lines(t) == text[t].lines

Whole(t) == IF text[t].whole THEN Len(Lines(t)) ELSE Len(Lines(t)) - 1

Holds(ino, lines, whole) == [ino |-> ino, lines |-> lines, whole |-> whole]

\* A session writes a line: the next message, or more of the last one.
Writes(t, line, whole) ==
    text' = [text EXCEPT ![t] = Holds(@.ino, Append(@.lines, line), whole)]

Open(t) == (t \in JobRun => run = t) /\ text[t].whole

Speaks ==
    \E t \in Transcript, whole \in BOOLEAN :
        /\ Open(t) /\ (whole \/ "torn" \in play.may)
        /\ Counts("msg")
        /\ Writes(t, [id |-> count.msg + 1, month |-> month], whole)
        /\ UNCHANGED <<cursor, rows, pass, judging, given, play>>

SpeaksOn ==
    \E t \in Transcript :
        /\ Open(t) /\ Lines(t) # <<>> /\ May("more")
        /\ Writes(t, Lines(t)[Len(Lines(t))], TRUE)
        /\ UNCHANGED <<cursor, rows, pass, judging, given, play>>

EndsLine ==
    \E t \in Transcript :
        /\ ~text[t].whole
        /\ text' = [text EXCEPT ![t] = Holds(@.ino, @.lines, TRUE)]
        /\ UNCHANGED <<cursor, rows, pass, judging, given, count, play>>

\* A transcript is restored from a copy, or cut short.
Redone ==
    \E t \in Transcript : \E n \in 0 .. Whole(t) :
        /\ Lines(t) # <<>>
        /\ \/ May("redo") /\ text' = [text EXCEPT ![t] = Holds(@.ino + 1, SubSeq(@.lines, 1, n), TRUE)]
           \/ May("shrink") /\ text' = [text EXCEPT ![t] = Holds(@.ino, SubSeq(@.lines, 1, n), TRUE)]
        /\ UNCHANGED <<cursor, rows, pass, judging, given, play>>

JobStarts ==
    \E t \in JobRun :
        /\ run = "none" /\ ~Stops(TRUE) /\ May("job")
        /\ run' = t
        /\ UNCHANGED <<reading, judging, logged, caps, peer, month, play>>

JobEnds ==
    /\ run # "none" /\ text[run].whole
    /\ run' = "none" /\ logged' = logged \cup {run}
    /\ UNCHANGED <<reading, judging, caps, peer, month, count, play>>

OwnerSetsCap ==
    \E s \in Scope, c \in Caps :
        /\ c # caps[s] /\ May("cap:" \o s)
        /\ caps' = [caps EXCEPT ![s] = c]
        /\ UNCHANGED <<reading, judging, run, logged, peer, month, play>>

PeerSpends ==
    \E u \in Spends :
        /\ May("peer")
        /\ peer' = [month |-> month, spent |-> u]
        /\ UNCHANGED <<reading, judging, run, logged, caps, month, play>>

NextMonth ==
    /\ month < play.month
    /\ month' = month + 1
    /\ UNCHANGED <<reading, judging, run, logged, caps, peer, count, play>>

-----------------------------------------------------------------------------
(* A pass (_ingest_locked). *)

Last(n, s) == IF Len(s) <= n THEN s ELSE SubSeq(s, Len(s) - n + 1, Len(s))

Has(s, x) == \E i \in DOMAIN s : s[i] = x

\* A torn line is half of one.
Size(t) == 2 * Len(Lines(t)) - (IF text[t].whole THEN 0 ELSE 1)

\* The worker reads and then enforces; another process does one of the two.
MayStart(p) ==
    /\ enf[p].at = "idle" /\ (pass.at # "idle" => pass.by # p)
    /\ IF p = Worker THEN UNCHANGED count ELSE Counts("op")

PassStarts(p) ==
    /\ pass.at = "idle" /\ MayStart(p) /\ (p = Worker \/ "pass" \in play.may)
    /\ pass' = [NoPass EXCEPT !.at = "look", !.by = p, !.left = Transcript, !.cursor = cursor, !.runs = logged]
    /\ UNCHANGED <<text, cursor, rows, judging, given, play>>

\* A mutant: a file that is replaced loses the ring.
StartsOverBare(t, m) ==
    IF m.ino # text[t].ino \/ Size(t) < 2 * m.off THEN [m EXCEPT !.off = 0, !.seen = <<>>] ELSE m

StartsOver(t, m) == IF m.ino # text[t].ino \/ Size(t) < 2 * m.off THEN [m EXCEPT !.off = 0] ELSE m

MarkAt(ino, off, seen) == [ino |-> ino, off |-> off, seen |-> Last(Ring, seen)]

Looks(p) ==
    /\ pass.at = "look" /\ pass.by = p
    /\ \E t \in pass.left :
        LET m == StartsOver(t, pass.cursor[t])
            now == [pass EXCEPT !.left = @ \ {t}]
        IN  pass' = IF Size(t) = 2 * m.off
                    THEN [now EXCEPT !.cursor[t] = MarkAt(text[t].ino, m.off, m.seen)]
                    ELSE [now EXCEPT !.at = "read", !.t = t, !.ino = text[t].ino, !.from = m.off, !.seen = m.seen]
    /\ UNCHANGED <<text, cursor, rows, judging, given, count, play>>

Reads(p) ==
    /\ pass.at = "read" /\ pass.by = p
    /\ LET data == SubSeq(Lines(pass.t), pass.from + 1, Whole(pass.t))
       IN  pass' = [pass EXCEPT !.at = "line", !.data = data, !.upto = pass.from + Len(data)]
    /\ UNCHANGED <<text, cursor, rows, judging, given, count, play>>

CountsLine(p) ==
    /\ pass.at = "line" /\ pass.by = p
    /\ pass' =
        IF pass.data = <<>>
        THEN [pass EXCEPT !.at = "look", !.cursor[pass.t] = MarkAt(pass.ino, pass.upto, pass.seen)]
        ELSE LET line == Head(pass.data)
                 row == [id |-> line.id, month |-> line.month, job |-> pass.t \in pass.runs]
                 rest == [pass EXCEPT !.data = Tail(@)]
             IN  IF Has(pass.seen, line.id) THEN rest
                 ELSE [rest EXCEPT !.seen = Append(@, line.id), !.out = @ \cup {row}]
    /\ UNCHANGED <<text, cursor, rows, judging, given, count, play>>

AddsRows(p) ==
    /\ pass.by = p /\ (pass.at = "add" \/ (pass.at = "look" /\ pass.left = {}))
    /\ \E r \in pass.out :
        LET these == {x \in pass.out : x.month = r.month}
        IN  /\ rows' = rows (+) SetToBag(these)
            /\ pass' = [pass EXCEPT !.at = "add", !.out = @ \ these]
    /\ UNCHANGED <<text, cursor, judging, given, count, play>>

Ready(p) == enf' = [enf EXCEPT ![p] = IF p = Worker THEN [NoEnforce EXCEPT !.at = "ready"] ELSE NoEnforce]

\* A mutant: the cursor is saved before the rows are added.
SavesEarly(p) ==
    /\ pass.by = p /\ pass.at = "look" /\ pass.left = {}
    /\ cursor' = pass.cursor
    /\ IF pass.out = {} THEN pass' = NoPass /\ Ready(p)
       ELSE pass' = [pass EXCEPT !.at = "add"] /\ UNCHANGED enf
    /\ UNCHANGED <<text, rows, markers, told, json, plain, given, count, play>>

SavesCursor(p) ==
    /\ pass.by = p /\ pass.out = {} /\ (pass.at = "add" \/ (pass.at = "look" /\ pass.left = {}))
    /\ cursor' = pass.cursor
    /\ pass' = NoPass
    /\ Ready(p)
    /\ UNCHANGED <<text, rows, markers, told, json, plain, given, count, play>>

PassSteps(p) == Looks(p) \/ Reads(p) \/ CountsLine(p) \/ AddsRows(p) \/ SavesCursor(p)

-----------------------------------------------------------------------------
(* The caps (enforce_cap), without the lock. *)

\* totals: what a scope has spent this month.
Spent(s) ==
    LET counted == {r \in BagToSet(rows) : r.month = month /\ (s = "job" => r.job)}
        own == Price * MapThenSumSet(LAMBDA r : rows[r], counted)
    IN  IF s = "cluster" /\ peer.month = month THEN own + peer.spent ELSE own

Reached(s) == caps[s] # 0 /\ Spent(s) >= caps[s]

Near(s) == caps[s] # 0 /\ 100 * Spent(s) >= 80 * caps[s]

\* What may have to be told: a scope and a threshold, in the order of enforce_cap.
Tasks == {"box", "cluster"} \X Kind \cup {<<"job", "paused">>}

Place(task) ==
    CASE task[1] = "box" -> IF task[2] = "paused" THEN 1 ELSE 2
      [] task[1] = "cluster" -> IF task[2] = "paused" THEN 3 ELSE 4
      [] OTHER -> 5

Due(task) == IF task[2] = "paused" THEN Reached(task[1]) ELSE Near(task[1])

Enforcing == {p \in Proc : enf[p].at \notin {"idle", "ready"}}

EnforceStarts(p) ==
    /\ IF p = Worker THEN enf[p].at = "ready" /\ UNCHANGED count
       ELSE MayStart(p) /\ ({"beside", "alone"} \cap play.may # {})
    /\ "beside" \in play.may \/ Enforcing = {}
    /\ enf' = [enf EXCEPT ![p] = [at |-> "tell", todo |-> {x \in Tasks : Due(x)}, month |-> month, before |-> json,
                                  doc |-> [s \in Scope |-> IF Reached(s) THEN caps[s] ELSE 0]]]
    /\ UNCHANGED <<reading, markers, told, json, plain, given, play>>

IsNext(task, p) == task \in enf[p].todo /\ \A other \in enf[p].todo : Place(task) <= Place(other)

Sends(task, m) == told' = [told EXCEPT ![task[1]] = Append(@, [kind |-> task[2], month |-> m])]

\* A mutant: the month's marker is not looked for.
TellsAgain(p) ==
    /\ enf[p].at = "tell"
    /\ \E task \in Tasks : IsNext(task, p) /\ Sends(task, enf[p].month)
    /\ enf' = [enf EXCEPT ![p].at = "mark"]
    /\ UNCHANGED <<reading, markers, json, plain, given, count, play>>

\* A message is sent, but none that a cap is near when it is reached.
Tells(p) ==
    /\ enf[p].at = "tell"
    /\ \E task \in Tasks :
        /\ IsNext(task, p)
        /\ IF <<task[1], task[2], enf[p].month>> \in markers
           THEN enf' = [enf EXCEPT ![p].todo = @ \ {task}] /\ UNCHANGED told
           ELSE /\ enf' = [enf EXCEPT ![p].at = "mark"]
                /\ IF task[2] = "warned" /\ enf[p].doc[task[1]] # 0 THEN UNCHANGED told
                   ELSE Sends(task, enf[p].month)
    /\ UNCHANGED <<reading, markers, json, plain, given, count, play>>

Marks(p) ==
    /\ enf[p].at = "mark"
    /\ \E task \in Tasks :
        /\ IsNext(task, p)
        /\ markers' = markers \cup {<<task[1], task[2], enf[p].month>>}
        /\ enf' = [enf EXCEPT ![p].at = "tell", ![p].todo = @ \ {task}]
    /\ UNCHANGED <<reading, told, json, plain, given, count, play>>

\* A mutant: a paused.json is left when nothing is paused any more.
LeavesJson(p) ==
    /\ enf[p].at = "tell" /\ enf[p].todo = {}
    /\ json' = IF enf[p].doc = NoPause THEN json ELSE enf[p].doc
    /\ enf' = [enf EXCEPT ![p].at = "plain"]
    /\ UNCHANGED <<reading, markers, told, plain, given, count, play>>

\* _write_markers: paused.json first; an entry it had is as good.
WritesJson(p) ==
    /\ enf[p].at = "tell" /\ enf[p].todo = {}
    /\ json' = IF enf[p].doc # NoPause /\ enf[p].doc = enf[p].before THEN json ELSE enf[p].doc
    /\ enf' = [enf EXCEPT ![p].at = "plain"]
    /\ UNCHANGED <<reading, markers, told, plain, given, count, play>>

PlainOf(doc) ==
    IF doc["cluster"] # 0 THEN [scope |-> "cluster", cap |-> doc["cluster"]]
    ELSE IF doc["box"] # 0 THEN [scope |-> "box", cap |-> doc["box"]]
    ELSE NoPlain

WritesPlain(p) ==
    /\ enf[p].at = "plain"
    /\ plain' = PlainOf(enf[p].doc)
    /\ enf' = [enf EXCEPT ![p] = NoEnforce]
    /\ UNCHANGED <<reading, markers, told, json, given, count, play>>

EnforceSteps(p) == Tells(p) \/ Marks(p) \/ WritesJson(p) \/ WritesPlain(p)

\* _replace and unlink: two that write at once have one temporary file, and
\* the one whose file is gone ends with an error.
Collides(p) ==
    /\ enf[p].at = "plain" \/ (enf[p].at = "tell" /\ enf[p].todo = {})
    /\ \E q \in Enforcing : q # p
    /\ enf' = [enf EXCEPT ![p] = NoEnforce]
    /\ UNCHANGED <<reading, markers, told, json, plain, given, count, play>>

\* The dashboard or a command line is killed; a lock it had is free.
Killed(p) ==
    /\ pass.by = p \/ enf[p].at # "idle"
    /\ Counts("kill")
    /\ pass' = IF pass.at # "idle" /\ pass.by = p THEN NoPass ELSE pass
    /\ enf' = [enf EXCEPT ![p] = NoEnforce]
    /\ UNCHANGED <<text, cursor, rows, markers, told, json, plain, given, play>>

Given == Speaks \/ SpeaksOn \/ EndsLine \/ Redone \/ JobStarts \/ JobEnds \/ OwnerSetsCap \/ PeerSpends \/ NextMonth

Next ==
    \/ Given
    \/ \E p \in Proc : PassStarts(p) \/ PassSteps(p) \/ EnforceStarts(p) \/ EnforceSteps(p) \/ Collides(p) \/ Killed(p)

Spec == Init /\ [][Next]_vars

\* The worker never ends (ledger_worker), and what has started goes on.
FairSpec ==
    /\ Spec
    /\ WF_vars(PassStarts(Worker)) /\ WF_vars(EnforceStarts(Worker))
    /\ \A p \in Proc : WF_vars(PassSteps(p)) /\ WF_vars(EnforceSteps(p))

-----------------------------------------------------------------------------
(* Properties *)

Counted(id) == MapThenSumSet(LAMBDA r : rows[r], {r \in BagToSet(rows) : r.id = id})

(* A message the cursor has gone past is in the months' files: passes that *)
(* are killed, lines half written and transcripts replaced while they are  *)
(* read lose none (_ingest_locked). Not where a transcript is cut short in *)
(* place: one that has grown past the cursor again looks like the same.    *)
NothingLost ==
    "shrink" \notin play.may =>
        \A t \in Transcript :
            cursor[t].ino = text[t].ino =>
                \A i \in 1 .. cursor[t].off :
                    i \in DOMAIN Lines(t) => \E r \in BagToSet(rows) : r.id = Lines(t)[i].id

(* A message is counted once, however often its line is written or its     *)
(* transcript replaced ("an id ring ... stops a rewrite double-counting"), *)
(* and once more at most for each kill; with more messages than the ring   *)
(* holds, as long as none is replaced.                                     *)
CountedOnce ==
    (count.msg <= Ring \/ {"redo", "shrink"} \cap play.may = {}) =>
        \A id \in 1 .. count.msg : Counted(id) <= 1 + count.kill

(* The owner hears of a cap at most twice a month, that it is near and     *)
(* then that it is reached ("one DM per month per threshold per scope"),   *)
(* however often it is enforced, unless a process is killed between a      *)
(* message and its marker, or two enforce at once. Of three there would be *)
(* one that comes after another and before a third.                        *)
ToldOnce ==
    (count.kill = 0 /\ "beside" \notin play.may) =>
        \A s \in Scope : \A i, j \in DOMAIN told[s] :
            (i < j /\ told[s][i].month = told[s][j].month) =>
                told[s][i].kind = "warned" /\ told[s][j].kind = "paused"

Agrees == /\ json = [s \in Scope |-> IF Reached(s) THEN caps[s] ELSE 0]
          /\ plain = PlainOf(json)

(* When caps, spend and months stop changing, what is paused is what has   *)
(* reached a cap, and the marker names it, whatever kills and enforcers    *)
(* that overlap have left (the worker's minute).                           *)
PausedInTheEnd == <>[]Agrees

(* A run's messages are the job's, once it has ended (pipeos-schedule-run: *)
(* "every run appends one line to runs.log ... which is how the usage      *)
(* ledger knows which transcript was which job").                          *)
RunIsTheJobs ==
    \A t \in logged : \A r \in BagToSet(rows) :
        (\E i \in DOMAIN Lines(t) : Lines(t)[i].id = r.id) => r.job
=============================================================================
