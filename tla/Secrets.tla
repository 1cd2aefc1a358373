------------------------------ MODULE Secrets ------------------------------
(***************************************************************************)
(* How one secret gets from box to box (webd.py, "secrets across the       *)
(* cluster"): the owner of a box that has it shares it, or a box that      *)
(* needs it asks, every dashboard shows the request, and the owner taps    *)
(* approve on a box that has it, or deny on any.                           *)
(*                                                                         *)
(* A box serves one POST at a time and holds MUTATE_LOCK while that POST   *)
(* calls other boxes. A caller gives up after a while; what it sent may    *)
(* still be served then. A thread of each box offers its open requests     *)
(* again, without the lock. /etc is RAM until a save; the notices of other *)
(* boxes' requests are never saved.                                        *)
(*                                                                         *)
(* Abstracted: the members do not change (Cluster.tla), vaults are open,   *)
(* the command line does not set secrets meanwhile (Vault.tla), a save     *)
(* works and is one step (BootMedia.tla), one clock for all boxes.         *)
(***************************************************************************)
EXTENDS Naturals, FiniteSets

CONSTANTS
    Box,        \* the members
    NoBox,      \* nobody
    MaxAsk,     \* bound on requests
    Play        \* what may happen: one of these in each behaviour

Tap == {"set", "delete", "share", "unshare", "request", "approve", "deny"}

(* The boxes that have the secret at the start, what the owner may do, and *)
(* the bounds: on taps, on calls served after their caller gave up, on     *)
(* power cuts.                                                             *)
Plays == [own: SUBSET Box, may: SUBSET Tap, tap: Nat, late: Nat, cut: Nat]

ASSUME SecretsAssumption == NoBox \notin Box /\ MaxAsk \in Nat /\ Play \subseteq Plays

VARIABLES
    held,       \* each box's value of the secret, and the box that set it or sent it
    note,       \* "shared with": of an older value, of this one, or not
    ask,        \* the requests made: who asks, who had the secret then
    view,       \* what each box knows of each request
    late,       \* requests whose day is over
    saved,      \* what each box's media hold
    job,        \* what each process is at
    net,        \* calls that wait for a lock
    count,      \* taps, late calls and power cuts so far
    play,       \* what may happen in this behaviour
    taken,      \* copies taken in answer to each request, since its box last lost power
    doubt       \* pairs of boxes: a copy sent by one to the other, its fate not known

vars == <<held, note, ask, view, late, saved, job, net, count, play, taken, doubt>>

Proc == Box \X {"web", "offer"}
Id == 1..MaxAsk

NoValue == [value |-> 0, by |-> NoBox]
Secret == [value: Nat \ {0}, by: Box] \cup {NoValue}
Notes == [Box -> {"none", "stale", "fresh"}]
State == {"none", "pending", "done", "denied"}
Views == [Id -> State]
Ask == [from: Box \cup {NoBox}, holders: SUBSET Box]

Call == [kind: {"receive", "offer", "close"}, from: Proc, to: Box, id: 0..MaxAsk,
         value: Nat, state: State, live: BOOLEAN]

\* Who waits for the end of a handler that saves first.
NoCaller == <<NoBox, "web">>

Job == [at: {"idle", "have", "record", "offer", "share", "approve", "close", "closing", "save"},
        id: 0..MaxAsk, out: SUBSET Box, to: SUBSET Box,
        state: State \cup {"ok", "refused", "lost"}, caller: Proc \cup {NoCaller}]

TypeOK ==
    /\ held \in [Box -> Secret]
    /\ note \in [Box -> Notes]
    /\ ask \in [Id -> Ask]
    /\ view \in [Box -> Views]
    /\ late \subseteq Id
    /\ saved \in [Box -> [held: Secret, note: Notes, view: Views]]
    /\ job \in [Proc -> Job]
    /\ net \subseteq Call
    /\ count \in [tap: Nat, late: Nat, cut: Nat]
    /\ play \in Play
    /\ taken \in [Id -> Nat]
    /\ doubt \subseteq Box \X Box

Idle == [at |-> "idle", id |-> 0, out |-> {}, to |-> {}, state |-> "none", caller |-> NoCaller]
NoNotes == [b \in Box |-> "none"]
NoViews == [i \in Id |-> "none"]

Init ==
    /\ play \in Play
    /\ held = [b \in Box |-> IF b \in play.own THEN [value |-> 1, by |-> b] ELSE NoValue]
    /\ note = [b \in Box |-> NoNotes]
    /\ ask = [i \in Id |-> [from |-> NoBox, holders |-> {}]]
    /\ view = [b \in Box |-> NoViews]
    /\ late = {}
    /\ saved = [b \in Box |-> [held |-> held[b], note |-> NoNotes, view |-> NoViews]]
    /\ job = [p \in Proc |-> Idle]
    /\ net = {}
    /\ count = [tap |-> 0, late |-> 0, cut |-> 0]
    /\ taken = [i \in Id |-> 0]
    /\ doubt = {}

-----------------------------------------------------------------------------

At(p, at) == job[p].at = at

Web(b) == <<b, "web">>

\* MUTATE_LOCK of box b: its listener serves no POST, and the thread that
\* offers again does not record an answer.
Free(b) == At(Web(b), "idle") /\ ~At(<<b, "offer">>, "save")

Others(b) == Box \ {b}

Asked == {i \in Id : ask[i].from # NoBox}

\* _req_live
Open(b, i) == view[b][i] = "pending" /\ i \notin late

Counts(what) ==
    /\ count[what] < play[what]
    /\ count' = [count EXCEPT ![what] = @ + 1]

Taps(kind) == kind \in play.may /\ Counts("tap")

Calls(kind, p, to, i, value, state) ==
    {[kind |-> kind, from |-> p, to |-> m, id |-> i, value |-> value, state |-> state,
      live |-> TRUE] : m \in to}

\* A mutant: a change leaves no note behind.
StaleNever(n) == n

\* Every change of a value leaves the notes of who has it behind.
Stale(n) == [m \in Box |-> IF n[m] = "none" THEN "none" ELSE "stale"]

Starts(b, j) == Free(b) /\ job' = [job EXCEPT ![Web(b)] = j]

-----------------------------------------------------------------------------
(* The owner's taps on box b. *)

\* api_secrets_set
OwnerSets(b) ==
    /\ Taps("set")
    /\ Starts(b, [Idle EXCEPT !.at = "save"])
    /\ held' = [held EXCEPT ![b] = [value |-> count'.tap + 1, by |-> b]]
    /\ note' = [note EXCEPT ![b] = Stale(@)]
    /\ UNCHANGED <<ask, view, late, saved, net, play, taken, doubt>>

\* api_secrets_del; that box is no longer one a note must be true of.
OwnerDeletes(b) ==
    /\ Taps("delete")
    /\ held[b] # NoValue
    /\ Starts(b, [Idle EXCEPT !.at = "save"])
    /\ held' = [held EXCEPT ![b] = NoValue]
    /\ note' = [note EXCEPT ![b] = NoNotes]
    /\ doubt' = doubt \cup {<<m, b>> : m \in Box}
    /\ UNCHANGED <<ask, view, late, saved, net, play, taken>>

\* api_secrets_unshare
OwnerUnshares(b, m) ==
    /\ Taps("unshare")
    /\ held[b] # NoValue /\ note[b][m] # "none"
    /\ Starts(b, [Idle EXCEPT !.at = "save"])
    /\ note' = [note EXCEPT ![b][m] = "none"]
    /\ UNCHANGED <<held, ask, view, late, saved, net, play, taken, doubt>>

\* api_secrets_share: one member after the other; a copy is not shared.
OwnerShares(b, to) ==
    /\ Taps("share")
    /\ held[b].by = b
    /\ Starts(b, [Idle EXCEPT !.at = "share", !.to = to])
    /\ UNCHANGED <<held, note, ask, view, late, saved, net, play, taken, doubt>>

SharesNext(b, m) ==
    LET j == job[Web(b)]
    IN /\ j.at = "share" /\ j.out = {} /\ m \in j.to
       /\ job' = [job EXCEPT ![Web(b)].out = {m}, ![Web(b)].to = j.to \ {m}]
       /\ net' = net \cup Calls("receive", Web(b), {m}, 0, held[b].value, "none")
       /\ UNCHANGED <<held, note, ask, view, late, saved, count, play, taken, doubt>>

ShareEnds(b) ==
    /\ At(Web(b), "share") /\ job[Web(b)].out = {} /\ job[Web(b)].to = {}
    /\ job' = [job EXCEPT ![Web(b)].at = "save"]
    /\ UNCHANGED <<held, note, ask, view, late, saved, net, count, play, taken, doubt>>

\* api_secrets_requests_approve, on a box that had the secret when the
\* request was made and has it now, as its own or as a copy.
OwnerApproves(b, i) ==
    /\ Taps("approve")
    /\ Open(b, i) /\ b \in ask[i].holders /\ b # ask[i].from /\ held[b] # NoValue
    /\ Starts(b, [Idle EXCEPT !.at = "approve", !.id = i, !.out = {ask[i].from}])
    /\ net' = net \cup Calls("receive", Web(b), {ask[i].from}, i, held[b].value, "none")
    /\ UNCHANGED <<held, note, ask, view, late, saved, play, taken, doubt>>

\* api_secrets_requests_deny, on any box that shows it.
OwnerDenies(b, i) ==
    /\ Taps("deny")
    /\ Open(b, i)
    /\ Starts(b, [Idle EXCEPT !.at = "close", !.id = i, !.out = Others(b)])
    /\ view' = [view EXCEPT ![b][i] = "denied"]
    /\ net' = net \cup Calls("close", Web(b), Others(b), i, 0, "denied")
    /\ UNCHANGED <<held, note, ask, late, saved, play, taken, doubt>>

-----------------------------------------------------------------------------
(* A request (api_secrets_request), by the box's agent or its owner. Not   *)
(* while one is open, and not within a day of a denial.                    *)

Requests(b) ==
    /\ Asked # Id /\ Taps("request")
    /\ held[b] = NoValue
    /\ \A i \in Asked : ask[i].from = b => ~Open(b, i) /\ (view[b][i] = "denied" => i \in late)
    /\ Starts(b, [Idle EXCEPT !.at = "have", !.out = Others(b)])
    /\ UNCHANGED <<held, note, ask, view, late, saved, net, play, taken, doubt>>

\* A member says under its own lock whether it has the secret, or does not
\* answer in time.
Hears(b, m) ==
    LET j == job[Web(b)]
    IN /\ j.at = "have" /\ m \in j.out
       /\ \E yes \in {FALSE, Free(m) /\ held[m] # NoValue} :
            job' = [job EXCEPT ![Web(b)].out = @ \ {m},
                               ![Web(b)].to = IF yes THEN @ \cup {m} ELSE @]
       /\ UNCHANGED <<held, note, ask, view, late, saved, net, count, play, taken, doubt>>

Records(b) ==
    LET j == job[Web(b)]
        i == Cardinality(Asked) + 1
    IN /\ j.at = "have" /\ j.out = {}
       /\ \/ /\ j.to = {}
             /\ job' = [job EXCEPT ![Web(b)] = Idle]
             /\ UNCHANGED <<ask, view>>
          \/ /\ j.to # {} /\ i \in Id
             /\ ask' = [ask EXCEPT ![i] = [from |-> b, holders |-> j.to]]
             /\ view' = [view EXCEPT ![b][i] = "pending"]
             /\ job' = [job EXCEPT ![Web(b)] = [Idle EXCEPT !.at = "record", !.id = i]]
       /\ UNCHANGED <<held, note, late, saved, net, count, play, taken, doubt>>

\* The day of a request is over.
Expires(i) ==
    /\ i \in Asked \ late
    /\ late' = late \cup {i}
    /\ UNCHANGED <<held, note, ask, view, saved, job, net, count, play, taken, doubt>>

-----------------------------------------------------------------------------
(* A save, in the middle of a request or at the end of a handler. Only the *)
(* records of the box's own requests are under /etc.                       *)

\* A mutant: a save of those records alone.
OwnViewsAlone(b) == [i \in {k \in Id : ask[k].from = b} |-> view[b][i]]

OwnViews(b) == [i \in Id |-> IF ask[i].from = b THEN view[b][i] ELSE "none"]

Snapshot(b) == [held |-> held[b], note |-> note[b], view |-> OwnViews(b)]

Keeps(b) == saved' = [saved EXCEPT ![b] = Snapshot(b)]

\* The request is on the media before any member hears of it.
SavesRecord(b) ==
    LET p == Web(b)
    IN /\ At(p, "record")
       /\ Keeps(b)
       /\ job' = [job EXCEPT ![p].at = "offer", ![p].out = Others(b)]
       /\ net' = net \cup Calls("offer", p, Others(b), job[p].id, 0, "pending")
       /\ UNCHANGED <<held, note, ask, view, late, count, play, taken, doubt>>

\* What process p, if it waits still, makes of m's answer: the one call of a
\* share or an approval is looked at below; a thread that offers again keeps
\* the first word that the request was decided.
Answered(j, p, m, answer) ==
    IF p \notin Proc THEN j
    ELSE IF m \notin j[p].out THEN j
    ELSE IF j[p].at \in {"share", "approve"} THEN [j EXCEPT ![p].state = answer]
    ELSE [j EXCEPT ![p].out = @ \ {m},
                   ![p].state = IF p[2] = "offer" /\ @ = "none" /\ answer \in {"done", "denied"}
                                THEN answer ELSE @]

Saves(p) ==
    /\ At(p, "save")
    /\ Keeps(p[1])
    /\ job' = Answered([job EXCEPT ![p] = Idle], job[p].caller, p[1], "ok")
    /\ UNCHANGED <<held, note, ask, view, late, net, count, play, taken, doubt>>

-----------------------------------------------------------------------------
(* What a box makes of a member's call, once it has its own lock.          *)

Answers(c, answer) == job' = IF c.live THEN Answered(job, c.from, c.to, answer) ELSE job

\* The answer comes after the save that ends the handler.
SavesFirst(c) ==
    job' = [job EXCEPT ![Web(c.to)] =
              [Idle EXCEPT !.at = "save", !.caller = IF c.live THEN c.from ELSE NoCaller]]

\* A mutant: a request once made is answered however often.
TakesAgain(c) == held[c.to] = NoValue \/ held[c.to].by # c.to

\* A copy replaces nothing but a copy; in answer to a request it is taken
\* while that is open.
Takes(c) ==
    /\ held[c.to] = NoValue \/ held[c.to].by # c.to
    /\ c.id # 0 => Open(c.to, c.id) /\ c.from[1] \in ask[c.id].holders

\* api_secrets_receive. A request's answer goes out before the save.
ServesReceive(c) ==
    LET b == c.to
    IN /\ c.kind = "receive" /\ c \in net /\ Free(b)
       /\ net' = net \ {c}
       /\ IF Takes(c)
          THEN /\ held' = [held EXCEPT ![b] = [value |-> c.value, by |-> c.from[1]]]
               /\ note' = [note EXCEPT ![b] = Stale(@)]
               /\ IF c.id = 0
                  THEN SavesFirst(c) /\ UNCHANGED <<view, taken>>
                  ELSE /\ view' = [view EXCEPT ![b][c.id] = "done"]
                       /\ taken' = [taken EXCEPT ![c.id] = @ + 1]
                       /\ job' = LET j == [job EXCEPT ![Web(b)] = [Idle EXCEPT !.at = "save"]]
                                 IN IF c.live THEN Answered(j, c.from, b, "ok") ELSE j
          ELSE Answers(c, "refused") /\ UNCHANGED <<held, note, view, taken>>
       /\ UNCHANGED <<ask, late, saved, count, play, doubt>>

Decided(b, i) == view[b][i] \in {"done", "denied"}

\* api_secrets_requests_offer
ServesOffer(c) ==
    LET b == c.to
    IN /\ c.kind = "offer" /\ c \in net /\ Free(b)
       /\ net' = net \ {c}
       /\ IF Decided(b, c.id)
          THEN Answers(c, view[b][c.id]) /\ UNCHANGED view
          ELSE Answers(c, "ok") /\ view' = [view EXCEPT ![b][c.id] = "pending"]
       /\ UNCHANGED <<held, note, ask, late, saved, count, play, taken, doubt>>

\* api_secrets_requests_close
ServesClose(c) ==
    LET b == c.to
        i == c.id
    IN /\ c.kind = "close" /\ c \in net /\ Free(b)
       /\ net' = net \ {c}
       /\ IF view[b][i] = "pending" /\ (c.state = "denied" \/ c.from[1] \in ask[i].holders)
          THEN /\ view' = [view EXCEPT ![b][i] = c.state]
               /\ IF ask[i].from = b THEN SavesFirst(c) ELSE Answers(c, "ok")
          ELSE Answers(c, "ok") /\ UNCHANGED view
       /\ UNCHANGED <<held, note, ask, late, saved, count, play, taken, doubt>>

-----------------------------------------------------------------------------
(* The callers. *)

\* Those it has sent a copy and not heard from.
Sending(b) == IF job[Web(b)].at \in {"share", "approve"} THEN job[Web(b)].out ELSE {}

\* p waits no longer for m. Its call is lost, or is served when m's lock is
\* free, or is being served.
Waits(p, m) == m \in job[p].out /\ (job[p].at \in {"share", "approve"} => job[p].state = "none")

GivesUp(p, m) ==
    LET calls == {c \in net : c.from = p /\ c.to = m /\ c.live}
        j == [job EXCEPT ![Web(m)].caller = IF @ = p THEN NoCaller ELSE @]
    IN /\ Waits(p, m) /\ ~At(p, "have")
       /\ \/ net' = net \ calls /\ UNCHANGED count
          \/ /\ calls # {} /\ Counts("late")
             /\ net' = (net \ calls) \cup {[c EXCEPT !.live = FALSE] : c \in calls}
       /\ job' = Answered(j, p, m, "lost")
       /\ doubt' = IF p[2] = "web" /\ m \in Sending(p[1]) THEN doubt \cup {<<p[1], m>>} ELSE doubt
       /\ UNCHANGED <<held, note, ask, view, late, saved, play, taken>>

\* The sharing box notes who took this value, and that who refused it has not.
ShareNotes(b, m) ==
    LET j == job[Web(b)]
    IN /\ j.at = "share" /\ j.out = {m} /\ j.state # "none"
       /\ note' = [note EXCEPT ![b][m] = CASE j.state = "ok" -> "fresh"
                                           [] j.state = "refused" -> "none"
                                           [] OTHER -> @]
       /\ job' = [job EXCEPT ![Web(b)].out = {}, ![Web(b)].state = "none"]
       /\ UNCHANGED <<held, ask, view, late, saved, net, count, play, taken, doubt>>

\* A mutant: what is settled there is done.
ApproveDecidesDone(b) ==
    LET p == Web(b)
        i == job[p].id
    IN /\ At(p, "approve") /\ job[p].state \in {"ok", "refused"}
       /\ note' = [note EXCEPT ![b][ask[i].from] = "fresh"]
       /\ view' = [view EXCEPT ![b][i] = "done"]
       /\ job' = [job EXCEPT ![p].at = "close", ![p].out = Others(b), ![p].state = "done"]
       /\ net' = net \cup Calls("close", p, Others(b), i, 0, "done")
       /\ UNCHANGED <<held, ask, late, saved, count, play, taken, doubt>>

\* The copy landed, or the box that asked had settled the request: it is
\* decided here and at every member. No answer: it stays open.
ApproveDecides(b) ==
    LET p == Web(b)
        i == job[p].id
        a == job[p].state
        s == IF a = "ok" THEN "done" ELSE "denied"
    IN /\ At(p, "approve") /\ a # "none"
       /\ IF a = "lost"
          THEN job' = [job EXCEPT ![p] = Idle] /\ UNCHANGED <<note, view, net>>
          ELSE /\ note' = IF a = "ok" THEN [note EXCEPT ![b][ask[i].from] = "fresh"] ELSE note
               /\ view' = [view EXCEPT ![b][i] = s]
               /\ job' = [job EXCEPT ![p].at = "close", ![p].out = Others(b), ![p].state = s]
               /\ net' = net \cup Calls("close", p, Others(b), i, 0, s)
       /\ UNCHANGED <<held, ask, late, saved, count, play, taken, doubt>>

\* Every member has heard, or did not answer.
FanoutEnds(b) ==
    LET p == Web(b)
        j == job[p]
    IN /\ j.at \in {"offer", "close"} /\ j.out = {}
       /\ job' = [job EXCEPT ![p] =
                    IF j.at = "close" /\ (ask[j.id].from = b \/ j.state # "none")
                    THEN [Idle EXCEPT !.at = "save"] ELSE Idle]
       /\ UNCHANGED <<held, note, ask, view, late, saved, net, count, play, taken, doubt>>

\* reoffer_requests, at the start and every five minutes, without the lock.
Reoffers(b, i) ==
    LET p == <<b, "offer">>
    IN /\ At(p, "idle")
       /\ ask[i].from = b /\ Open(b, i)
       /\ job' = [job EXCEPT ![p] = [Idle EXCEPT !.at = "offer", !.id = i, !.out = Others(b)]]
       /\ net' = net \cup Calls("offer", p, Others(b), i, 0, "pending")
       /\ UNCHANGED <<held, note, ask, view, late, saved, count, play, taken, doubt>>

ReofferEnds(b) ==
    LET p == <<b, "offer">>
    IN /\ At(p, "offer") /\ job[p].out = {}
       /\ job' = [job EXCEPT ![p] = IF @.state = "none" THEN Idle ELSE [@ EXCEPT !.at = "closing"]]
       /\ UNCHANGED <<held, note, ask, view, late, saved, net, count, play, taken, doubt>>

\* A member had decided it: so is the record, whatever it is by now.
ReofferRecords(b) ==
    LET p == <<b, "offer">>
    IN /\ At(p, "closing") /\ Free(b)
       /\ view' = [view EXCEPT ![b][job[p].id] = job[p].state]
       /\ job' = [job EXCEPT ![p] = [Idle EXCEPT !.at = "save"]]
       /\ UNCHANGED <<held, note, ask, late, saved, net, count, play, taken, doubt>>

-----------------------------------------------------------------------------

\* Calls to the box end with it, calls from it are served or not.
PowerCut(b) ==
    LET from == {c \in net : c.from[1] = b /\ c.live}
        rest == {c \in net : c.to # b} \ from
        off == [job EXCEPT ![Web(b)] = Idle, ![<<b, "offer">>] = Idle]
    IN /\ Counts("cut")
       /\ held' = [held EXCEPT ![b] = saved[b].held]
       /\ note' = [note EXCEPT ![b] = saved[b].note]
       /\ view' = [view EXCEPT ![b] = saved[b].view]
       /\ job' = [p \in Proc |-> IF off[p].caller[1] = b THEN [off[p] EXCEPT !.caller = NoCaller]
                                                        ELSE off[p]]
       /\ \E on \in {{}, from} :
            net' = rest \cup {[c EXCEPT !.live = FALSE] : c \in {d \in on : d.to # b}}
       /\ taken' = [i \in Id |-> IF ask[i].from = b THEN 0 ELSE taken[i]]
       /\ doubt' = doubt \cup {<<b, m>> : m \in Sending(b)} \cup
                     IF held[b] # saved[b].held THEN {<<held[b].by, b>>} \cap (Box \X Box) ELSE {}
       /\ UNCHANGED <<ask, late, saved, play>>

Begins(b) ==
    \/ OwnerSets(b) \/ OwnerDeletes(b)
    \/ \E m \in Others(b) : OwnerUnshares(b, m)
    \/ \E to \in SUBSET Others(b) \ {{}} : OwnerShares(b, to)
    \/ \E i \in Id : OwnerApproves(b, i) \/ OwnerDenies(b, i)
    \/ Requests(b)

\* What a box does once it has begun, and what it owes others.
Works(b) ==
    \/ \E m \in Box : SharesNext(b, m) \/ Hears(b, m) \/ ShareNotes(b, m)
    \/ ShareEnds(b) \/ Records(b) \/ SavesRecord(b) \/ ApproveDecides(b) \/ FanoutEnds(b)
    \/ ReofferEnds(b) \/ ReofferRecords(b)
    \/ Saves(Web(b)) \/ Saves(<<b, "offer">>)

Serves(c) == ServesReceive(c) \/ ServesOffer(c) \/ ServesClose(c)

Next ==
    \/ \E b \in Box : Begins(b) \/ Works(b) \/ PowerCut(b) \/ \E i \in Id : Reoffers(b, i)
    \/ \E c \in net : Serves(c)
    \/ \E p \in Proc, m \in Box : GivesUp(p, m)
    \/ \E i \in Id : Expires(i)

Spec == Init /\ [][Next]_vars

-----------------------------------------------------------------------------

(* What a box notes of who has its value is so ("the note said it held our *)
(* value; it does not", webd.py:2994): that box has a copy, and where the  *)
(* note is not stale, of this value, unless the owner deleted it there or  *)
(* a call between the two had no answer, or one that a power cut undid.    *)
NotesTrue ==
    \A b, m \in Box :
       note[b][m] # "none" /\ <<b, m>> \notin doubt
       => /\ held[m] # NoValue
          /\ note[b][m] = "fresh" /\ held[m].by = b => held[m].value = held[b].value

(* A request is answered with one copy, however many boxes its owner taps  *)
(* approve on (webd.py:3101).                                              *)
TakenOnce == \A i \in Id : taken[i] <= 1

(* A box that asked and has its request down as done has the secret, or    *)
(* its owner deleted it, or a power cut took it before it was saved.       *)
DoneHeld ==
    \A i \in Asked : LET b == ask[i].from
                     IN view[b][i] = "done" /\ (\A m \in Box : <<m, b>> \notin doubt)
                        => held[b] # NoValue

=============================================================================
