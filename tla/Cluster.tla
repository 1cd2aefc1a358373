------------------------------- MODULE Cluster -------------------------------
(***************************************************************************)
(* Cluster membership (web/cluster.py, webd.py's /api/cluster handlers).   *)
(*                                                                         *)
(* There is no head node: each box keeps a list, edits its own and pushes  *)
(* it to the others, which take it as it stands. A box's listener runs     *)
(* one POST at a time (MUTATE_LOCK) and holds that lock across the         *)
(* requests the POST itself makes to other boxes; `pipeos cluster` edits   *)
(* the same file in a process of its own, and a GET of the cluster page in *)
(* a thread of its own, both without the lock: an edit reads the list and  *)
(* writes it in two steps, and what others wrote in between is gone. A     *)
(* request that its caller gave up on still waits for the lock at the      *)
(* other end, and is served when it gets it. Lists live in RAM and persist *)
(* by a save that ends the edit.                                           *)
(***************************************************************************)
EXTENDS Naturals, FiniteSets

CONSTANTS
    Box,        \* the boxes on the LAN, by id
    Cluster0,   \* those that form a cluster at the start
    NoCluster,  \* no cluster.json
    NoJob,      \* nobody waits for an edit's answer
    Play        \* what may happen: one of these in each behaviour

(* A box's listener at a POST, its command line, a GET of its page.        *)
Proc == Box \X {"web", "cli", "page"}

Doc == [id: Nat, members: SUBSET Box]

(* Who edits, how, and which boxes they add or ask; and the bounds: on     *)
(* edits, on timeouts while the other box is not busy, on power cuts.      *)
Plays == [editor: SUBSET Proc, op: SUBSET {"add", "remove", "sync", "join", "init"},
          lan: SUBSET Box, edit: Nat, timeout: Nat, crash: Nat]

ASSUME BoxAssumption     == Box \subseteq Nat /\ IsFiniteSet(Box)
ASSUME NoneAssumption    == NoCluster \notin Doc /\ NoJob \notin Proc
ASSUME ClusterAssumption == Cluster0 \subseteq Box
ASSUME PlayAssumption    == Play \subseteq Plays

VARIABLES
    list,       \* /etc/pipeos/cluster.json of each box
    saved,      \* the one on its boot media
    token,      \* whether a join token it minted is live
    job,        \* what each process is at
    net,        \* requests on their way to, or waiting for, a lock
    minted,     \* cluster ids drawn so far
    count,      \* edits, timeouts and power cuts so far
    play        \* what may happen in this behaviour

vars == <<list, saved, token, job, net, minted, count, play>>

Idle == [at |-> "idle", to |-> 0, doc |-> NoCluster, todo |-> {}, saves |-> TRUE,
         asker |-> NoJob]

Job == [at: {"idle", "joining", "joined", "write", "push", "pushing", "asking", "save"},
        to: Nat, doc: Doc \cup {NoCluster}, todo: SUBSET Box, saves: BOOLEAN,
        asker: Proc \cup {NoJob}]

Request == [kind: {"join", "members", "add-request"}, from: Proc, to: Box,
            auth: {"", "password", "token"}, doc: Doc \cup {NoCluster},
            live: BOOLEAN]

TypeOK ==
    /\ list \in [Box -> Doc \cup {NoCluster}]
    /\ saved \in [Box -> Doc \cup {NoCluster}]
    /\ token \in [Box -> BOOLEAN]
    /\ job \in [Proc -> Job]
    /\ net \subseteq Request
    /\ minted \in Nat
    /\ count \in [edit: Nat, timeout: Nat, crash: Nat]
    /\ play \in Play

Init ==
    /\ list = [b \in Box |-> IF b \in Cluster0 THEN [id |-> 0, members |-> Cluster0]
                                               ELSE NoCluster]
    /\ saved = list
    /\ token = [b \in Box |-> FALSE]
    /\ job = [p \in Proc |-> Idle]
    /\ net = {}
    /\ minted = 0
    /\ count = [edit |-> 0, timeout |-> 0, crash |-> 0]
    /\ play \in Play

-----------------------------------------------------------------------------

Members(b) == IF list[b] = NoCluster THEN {} ELSE list[b].members

(* init: a cluster of one, under an id nobody has. *)
ClusterOfOne(b) == [id |-> minted + 1, members |-> {b}]

At(p, at) == job[p].at = at

(* MUTATE_LOCK is free: the box's listener is at no POST. A mutant runs    *)
(* POSTs as they come.                                                     *)
FreeAlways(b) == TRUE

Free(b) == At(<<b, "web">>, "idle")

Set(p, at) == job' = [job EXCEPT ![p].at = at]

(* A handler at one end of a call that ends: the process that waits for    *)
(* it, if it waits still, gets on. A webd join-via then saves, the CLI's   *)
(* ends.                                                                   *)
Answer(j, asker, ok) ==
    IF asker = NoJob \/ j[asker].at # "asking" THEN j
    ELSE [j EXCEPT ![asker] = IF ok /\ asker[2] = "web" THEN [Idle EXCEPT !.at = "save"]
                                                        ELSE Idle]

(* The end of p's edit, and of the join-via that asked for it. *)
End(p, ok) == job' = Answer([job EXCEPT ![p] = Idle], job[p].asker, ok)

Tally(what) ==
    /\ count[what] < play[what]
    /\ count' = [count EXCEPT ![what] = @ + 1]
    /\ UNCHANGED play

StartEdit(p, op) ==
    /\ p \in play.editor /\ p[2] # "page" /\ op \in play.op
    /\ At(p, "idle")
    /\ Tally("edit")

(* An edit begins to add t: no list, a cluster of one first. It reads the  *)
(* list, and sends it with the target's password or the token it minted.   *)
Adding(p, t, auth, asker, others) ==
    LET b == p[1]
        d == IF list[b] = NoCluster THEN ClusterOfOne(b) ELSE list[b]
    IN  /\ t # b /\ t \notin Members(b)
        /\ list' = [list EXCEPT ![b] = d]
        /\ minted' = IF list[b] = NoCluster THEN minted + 1 ELSE minted
        /\ job' = [job EXCEPT ![p] = [Idle EXCEPT !.at = "joining", !.to = t,
                                                  !.doc = d, !.asker = asker]]
        /\ net' = others \cup {[kind |-> "join", from |-> p, to |-> t,
                                auth |-> auth, doc |-> d, live |-> TRUE]}

StartAdd(p) ==
    /\ StartEdit(p, "add")
    /\ \E t \in play.lan : Adding(p, t, "password", NoJob, net)
    /\ UNCHANGED <<saved, token>>

(* The join at the target: the token is gone after any attempt. A box in   *)
(* a cluster with others refuses; one of its own is left. The save comes   *)
(* before the answer.                                                      *)
RefusesNothing(t, doc) == FALSE    \* a mutant

Refuses(t, doc) ==
    /\ list[t] # NoCluster /\ list[t].id # doc.id
    /\ Cardinality(list[t].members) > 1

JoinedAsSent(t, doc) == doc        \* a mutant

Joined(t, doc) == [id |-> doc.id, members |-> doc.members \cup {t}]

Join(r) ==
    LET t == r.to
        ok == (r.auth = "password" \/ token[t]) /\ ~Refuses(t, r.doc)
        joined == Joined(t, r.doc)
    IN  /\ r \in net /\ r.kind = "join" /\ Free(t)
        /\ net' = net \ {r}
        /\ token' = [token EXCEPT ![t] = FALSE]
        /\ list' = IF ok THEN [list EXCEPT ![t] = joined] ELSE list
        /\ saved' = IF ok THEN [saved EXCEPT ![t] = joined] ELSE saved
        /\ IF ~r.live THEN UNCHANGED job
           ELSE IF ok THEN Set(r.from, "joined")
                      ELSE End(r.from, FALSE)
        /\ UNCHANGED <<minted, count, play>>

(* add_member reads the list again and puts the target in, drop_member     *)
(* takes out anybody but oneself, who is not told: what they will write.   *)
AddMember(p) ==
    /\ At(p, "joined")
    /\ job' = [job EXCEPT ![p].at = "write",
                          ![p].doc = [list[p[1]] EXCEPT !.members = @ \cup {job[p].to}]]
    /\ UNCHANGED <<list, saved, token, net, minted, count, play>>

StartRemove(p) ==
    LET b == p[1] IN
    /\ StartEdit(p, "remove")
    /\ \E t \in Members(b) \ {b} :
          job' = [job EXCEPT ![p] = [Idle EXCEPT !.at = "write", !.to = t,
                                     !.doc = [list[b] EXCEPT !.members = @ \ {t}]]]
    /\ UNCHANGED <<list, saved, token, net, minted>>

(* GET /api/cluster, of which a page makes one every few seconds: members  *)
(* that advertise another cluster are dropped here.                        *)
Elsewhere(b) ==
    {m \in Members(b) \ {b} : list[m] # NoCluster /\ list[m].id # list[b].id}

Reconcile(p) ==
    LET b == p[1] IN
    /\ p \in play.editor /\ p[2] = "page" /\ At(p, "idle")
    /\ Elsewhere(b) # {}
    /\ job' = [job EXCEPT ![p] = [Idle EXCEPT !.at = "write",
                                  !.doc = [list[b] EXCEPT !.members = @ \ Elsewhere(b)]]]
    /\ UNCHANGED <<list, saved, token, net, minted, count, play>>

(* The write of any of the three, over whatever the list is by now. The    *)
(* edits push it, the page does not. A mutant pushes the list as it was.   *)
WriteListStale(p) ==
    LET b == p[1]
        d == job[p].doc
    IN  /\ At(p, "write")
        /\ list' = [list EXCEPT ![b] = d]
        /\ job' = [job EXCEPT ![p].at = IF p[2] = "page" THEN "save" ELSE "push",
                              ![p].doc = list[b], ![p].todo = d.members \ {b}]
        /\ UNCHANGED <<saved, token, net, minted, count, play>>

WriteList(p) ==
    LET b == p[1]
        d == job[p].doc
    IN  /\ At(p, "write")
        /\ list' = [list EXCEPT ![b] = d]
        /\ job' = [job EXCEPT ![p].at = IF p[2] = "page" THEN "save" ELSE "push",
                              ![p].todo = d.members \ {b}]
        /\ UNCHANGED <<saved, token, net, minted, count, play>>

StartSync(p) ==
    LET b == p[1] IN
    /\ StartEdit(p, "sync")
    /\ list[b] # NoCluster
    /\ job' = [job EXCEPT ![p] = [Idle EXCEPT !.at = "push", !.doc = list[b],
                                  !.todo = list[b].members \ {b}, !.saves = FALSE]]
    /\ UNCHANGED <<list, saved, token, net, minted>>

(* push, one member after the other by id. The handshake wants each in the *)
(* other's list; without it, the member is an error line.                  *)
Trusted(a, b) == a \in Members(b) /\ b \in Members(a)

Push(p) ==
    /\ At(p, "push")
    /\ \E m \in job[p].todo :
          /\ \A n \in job[p].todo : m <= n
          /\ IF Trusted(p[1], m)
             THEN /\ net' = net \cup {[kind |-> "members", from |-> p, to |-> m,
                                       auth |-> "", doc |-> job[p].doc, live |-> TRUE]}
                  /\ job' = [job EXCEPT ![p].at = "pushing", ![p].to = m]
             ELSE /\ job' = [job EXCEPT ![p].todo = @ \ {m}]
                  /\ UNCHANGED net
    /\ UNCHANGED <<list, saved, token, minted, count, play>>

(* The member's answer, or none in time: on to the next. *)
Pushed(j, p) == [j EXCEPT ![p].at = "push", ![p].todo = @ \ {j[p].to}]

(* replace: a list without the box itself would mean that it was removed,  *)
(* but a push goes to the members of the list it carries.                  *)
Replaced(m, doc) ==
    IF doc.id # list[m].id THEN list[m]
    ELSE IF m \notin doc.members THEN ClusterOfOne(m)
    ELSE doc

(* POST /api/cluster/members, once it has the lock: the sender is looked   *)
(* up again.                                                               *)
TakeList(r) ==
    LET m == r.to
        d == IF r.from[1] \in Members(m) THEN Replaced(m, r.doc) ELSE list[m]
    IN  /\ r \in net /\ r.kind = "members" /\ Free(m)
        /\ net' = net \ {r}
        /\ list' = [list EXCEPT ![m] = d]
        /\ saved' = IF d # list[m] THEN [saved EXCEPT ![m] = d] ELSE saved
        /\ minted' = IF d = ClusterOfOne(m) THEN minted + 1 ELSE minted
        /\ job' = IF r.live THEN Pushed(job, r.from) ELSE job
        /\ UNCHANGED <<token, count, play>>

(* A mutant: the edit answers here and saves behind the answer. *)
PushEndsEarly(p) ==
    /\ At(p, "push") /\ job[p].todo = {}
    /\ Set(p, "answered")
    /\ UNCHANGED <<list, saved, token, net, minted, count, play>>

(* The push is through: an edit ends in a save, a sync in nothing. *)
PushEnds(p) ==
    /\ At(p, "push") /\ job[p].todo = {}
    /\ IF job[p].saves THEN Set(p, "save") ELSE End(p, TRUE)
    /\ UNCHANGED <<list, saved, token, net, minted, count, play>>

Save(p) ==
    /\ At(p, "save")
    /\ saved' = [saved EXCEPT ![p[1]] = list[p[1]]]
    /\ End(p, TRUE)
    /\ UNCHANGED <<list, token, net, minted, count, play>>

(* join_via: a token, and a request that a member add us. *)
StartJoin(p) ==
    /\ StartEdit(p, "join")
    /\ \E m \in play.lan \ {p[1]} :
          net' = net \cup {[kind |-> "add-request", from |-> p, to |-> m, auth |-> "",
                            doc |-> NoCluster, live |-> TRUE]}
    /\ token' = [token EXCEPT ![p[1]] = TRUE]
    /\ job' = [job EXCEPT ![p] = [Idle EXCEPT !.at = "asking"]]
    /\ UNCHANGED <<list, saved, minted>>

(* The member runs its ordinary add() against the asker, under its lock.   *)
AddRequest(r) ==
    LET m == r.to
        w == <<m, "web">>
    IN  /\ r \in net /\ r.kind = "add-request" /\ Free(m)
        /\ IF r.from[1] \in Members(m)
           THEN /\ job' = IF r.live THEN Answer(job, r.from, FALSE) ELSE job
                /\ net' = net \ {r}
                /\ UNCHANGED <<list, minted>>
           ELSE Adding(w, r.from[1], "token", IF r.live THEN r.from ELSE NoJob, net \ {r})
        /\ UNCHANGED <<saved, token, count, play>>

(* What p waits for waits itself for a lock. *)
Blocked(p) == \E r \in net : r.from = p /\ r.live /\ ~Free(r.to)

(* 20 s for a join, 10 s for a push, 40 s for an add-request: the caller   *)
(* goes on, the request stays where it waits.                              *)
Abandoned(p) == {IF r.from = p THEN [r EXCEPT !.live = FALSE] ELSE r : r \in net}

GivesUp(p) ==
    CASE At(p, "pushing") -> job' = Pushed(job, p)
      [] At(p, "joining") -> End(p, FALSE)
      [] At(p, "asking")  -> job' = [q \in Proc |-> IF q = p THEN Idle ELSE
                                       IF job[q].asker = p THEN [job[q] EXCEPT !.asker = NoJob]
                                       ELSE job[q]]

(* A mutant: a push waits for as long as it takes. *)
TimeoutNotPush(p) ==
    /\ job[p].at \in {"joining", "asking"}
    /\ IF Blocked(p) THEN UNCHANGED <<count, play>>
       ELSE Tally("timeout")
    /\ GivesUp(p)
    /\ net' = Abandoned(p)
    /\ UNCHANGED <<list, saved, token, minted>>

Timeout(p) ==
    /\ job[p].at \in {"joining", "pushing", "asking"}
    /\ IF Blocked(p) THEN UNCHANGED <<count, play>>
       ELSE Tally("timeout")
    /\ GivesUp(p)
    /\ net' = Abandoned(p)
    /\ UNCHANGED <<list, saved, token, minted>>

(* init: where there is no list, or by `pipeos cluster init --force`. *)
StartInit(p) ==
    /\ StartEdit(p, "init")
    /\ list[p[1]] = NoCluster \/ p[2] = "cli"
    /\ list' = [list EXCEPT ![p[1]] = ClusterOfOne(p[1])]
    /\ minted' = minted + 1
    /\ job' = [job EXCEPT ![p] = [Idle EXCEPT !.at = "save"]]
    /\ UNCHANGED <<saved, token, net>>

(* A power cut: the list is the one on the media, the token, the processes *)
(* and the requests that waited here are gone; nobody waits for those that *)
(* wait elsewhere, nor does what others asked of this box go on.           *)
Crash(b) ==
    LET mine == {p \in Proc : p[1] = b}
        gone == {r \in net : r.to = b}
        asked == {r.from : r \in {x \in gone : x.live}}
                    \cup ({job[p].asker : p \in mine} \ {NoJob})
    IN  /\ Tally("crash")
        /\ list' = [list EXCEPT ![b] = saved[b]]
        /\ token' = [token EXCEPT ![b] = FALSE]
        /\ net' = {IF r.from[1] = b THEN [r EXCEPT !.live = FALSE] ELSE r : r \in net \ gone}
        /\ job' = [p \in Proc |->
                     LET j == IF job[p].asker \in mine THEN [job[p] EXCEPT !.asker = NoJob]
                                                       ELSE job[p]
                     IN  IF p \in mine THEN Idle
                         ELSE IF p \notin asked THEN j
                         ELSE IF j.at = "pushing" THEN [j EXCEPT !.at = "push", !.todo = @ \ {b}]
                         ELSE Idle]
        /\ UNCHANGED <<saved, minted>>

Edit(p) ==
    \/ StartAdd(p) \/ StartRemove(p) \/ StartSync(p) \/ StartJoin(p) \/ StartInit(p)
    \/ Reconcile(p)

Step(p) == AddMember(p) \/ WriteList(p) \/ Push(p) \/ PushEnds(p) \/ Save(p)

Serve(b) == \E r \in net : r.to = b /\ (Join(r) \/ TakeList(r) \/ AddRequest(r))

Next ==
    \/ \E p \in Proc : Edit(p) \/ Step(p) \/ Timeout(p)
    \/ \E b \in Box : Serve(b) \/ Crash(b)

Spec == Init /\ [][Next]_vars

(* Who may ever be at work: listeners, and those that edit in some play.   *)
(* Each goes on with what it is at or times out; a listener that is at     *)
(* nothing serves.                                                         *)
Worker == {p \in Proc : p[2] = "web" \/ \E y \in Play : p \in y.editor}

Runs(p) == Step(p) \/ Timeout(p) \/ (p[2] = "web" /\ Serve(p[1]))

FairSpec == Spec /\ \A p \in Worker : WF_vars(Runs(p))

-----------------------------------------------------------------------------

(* Whoever edits, pushes, reconciles or loses its power, and however late  *)
(* a request is served: a box that has a list is on it. (A box that is not *)
(* would refuse its own operator's verbs, which come in by its own         *)
(* certificate, and hold a list it cannot be removed from.)                *)
SelfInList == \A b \in Box : list[b] # NoCluster => b \in list[b].members

(* "Each Machine belongs to exactly one cluster": a box in a cluster with  *)
(* others stays in it or leaves alone: removed, or by init on the box      *)
(* itself. (A power cut may take it back to what it saved last.)           *)
StaysOrLeaves(b) ==
    Cardinality(Members(b)) > 1 /\ list'[b] # NoCluster =>
        \/ list'[b].id = list[b].id
        \/ list'[b].members = {b}
        \/ count'.crash # count.crash

(* Neither a request of any age nor the box's own POST, which read the     *)
(* list before, moves it into another cluster, where the listener alone    *)
(* writes the list: the lock is held from the read to the write.           *)
ListenerAlone(b) == {<<b, "cli">>, <<b, "page">>} \cap play.editor = {}

NeverMoved == [][\A b \in Box : ListenerAlone(b) => StaysOrLeaves(b)]_vars

(* The same of every box. The code breaks it: the command line read the    *)
(* list of a cluster of one, the box was taken into another cluster, and   *)
(* the command line writes the old one back, with whom it added.           *)
NeverMovedBack == [][\A b \in Box : StaysOrLeaves(b)]_vars

(* Every edit ends, and the lock is free again, also when two members push *)
(* to one another or each adds the other: what a POST waits for may wait   *)
(* for this POST.                                                          *)
EditsEnd == \A p \in {x \in Worker : x[2] # "page"} : job[p].at # "idle" ~> job[p].at = "idle"

Quiet == net = {} /\ \A p \in Proc : At(p, "idle")

(* "Every member holds the same member list": once nothing is on its way,  *)
(* members that have each other in their lists have the same list, in RAM  *)
(* and on the media.                                                       *)
SameList ==
    Quiet => \A a, b \in Box : Trusted(a, b) => list[a] = list[b] /\ saved[a] = saved[b]

(* Without removals, membership is mutual once nothing is on its way: a    *)
(* box that was taken in is in the list of whoever took it.                *)
Mutual == Quiet => \A a, b \in Box : a \in Members(b) => b \in Members(a)

(* Only e edits, whoever looks at a page, and everybody answers in time: a *)
(* dashboard, which does not ask to be added (while it waits, its box      *)
(* takes no request), or a command line, which asks if nobody is removed   *)
(* and inits nothing anew.                                                 *)
Alone(e) ==
    /\ {p \in play.editor : p[2] # "page"} = {e}
    /\ play.timeout = 0 /\ play.crash = 0
    /\ "init" \in play.op => e[2] = "web"
    /\ "join" \in play.op => e[2] = "cli" /\ "remove" \notin play.op

(* What the two promise as long as one process edits in peace; with two    *)
(* at work, or a request served late, the code does not keep either.       *)
OneEditorAgrees == (\E e \in Proc : Alone(e)) => SameList

OneEditorIsMutual == (\E e \in Proc : Alone(e) /\ "remove" \notin play.op) => Mutual

(* "A Machine finding itself absent becomes a cluster of one": a box that  *)
(* lists others is in the list of one of them. The code breaks it: the box *)
(* that was removed is never sent the list, and as it goes on listing the  *)
(* others it refuses to join any other cluster.                            *)
Belongs ==
    Quiet => \A b \in Box : Cardinality(Members(b)) > 1 =>
                \E a \in Members(b) \ {b} : b \in Members(a)

-----------------------------------------------------------------------------
(* The inductive invariants behind the proofs (ClusterProofs.tla).         *)

(* An edit that is about to put a member in has a list to put it in, and   *)
(* one that writes or pushes has a list to write or push.                  *)
JobInv ==
    \A p \in Proc :
        /\ job[p].at \in {"joining", "joined"} => list[p[1]] # NoCluster /\ job[p].to \in Box
        /\ job[p].at \in {"write", "push", "pushing"} => job[p].doc \in Doc

Awaits(kind) ==
    CASE kind = "join" -> "joining" [] kind = "members" -> "pushing" [] OTHER -> "asking"

(* A request that is live is the one its sender waits for. *)
NetInv ==
    /\ \A r \in net : r.kind # "add-request" => r.doc \in Doc
    /\ \A r \in net : r.live => job[r.from].at = Awaits(r.kind)
    /\ \A r \in net : (r.live /\ r.kind # "add-request") => job[r.from].to = r.to
    /\ \A r, q \in net : (r.live /\ q.live /\ r.from = q.from) => r = q

(* An edit that somebody asked for is the only one of that asker, whose    *)
(* request has been taken.                                                 *)
AskInv ==
    /\ \A p \in Proc : job[p].asker # NoJob =>
          /\ job[job[p].asker].at = "asking"
          /\ \A r \in net : r.live => r.from # job[p].asker
    /\ \A p, q \in Proc : (job[p].asker # NoJob /\ job[p].asker = job[q].asker) => p = q

(* What is on the media or about to be written is as good as what is in    *)
(* RAM: a power cut or the write brings it back.                           *)
SelfInv ==
    /\ SelfInList
    /\ \A b \in Box : saved[b] # NoCluster => b \in saved[b].members
    /\ \A p \in Proc : At(p, "write") => p[1] \in job[p].doc.members

(* Where the listener alone writes, what it is about to write is of the    *)
(* cluster the box is in.                                                  *)
WriteInv ==
    /\ \A p \in Proc : p[2] # "web" /\ p \notin play.editor => At(p, "idle")
    /\ \A p \in Proc : ListenerAlone(p[1]) /\ At(p, "write") =>
          list[p[1]] # NoCluster /\ job[p].doc.id = list[p[1]].id

(* One process edits: whoever else is busy does what it asked for, and no  *)
(* request is late.                                                        *)
Works(p) == job[p].at \in {"joining", "joined", "write", "push", "pushing", "save"}

OneInv(e) ==
    /\ At(e, "asking") => "join" \in play.op
    /\ job[e].asker = NoJob
    /\ \A p \in Proc \ {e} : ~At(p, "idle") =>
          Works(p) /\ At(e, "asking") /\ p[2] = "web" /\ job[p].asker = e
    /\ \A r \in net :
          /\ r.live /\ r.to # r.from[1]
          /\ r.kind # "add-request" => r.doc = job[r.from].doc

(* Boxes with the same cluster id. *)
Kin(x, y) == list[x] # NoCluster /\ list[y] # NoCluster /\ list[x].id = list[y].id

(* The lists, seen from a box c whose edit has put in new and is yet to    *)
(* push to the late: lists name kin alone, other clusters are whole, a     *)
(* member has c's list or is late, and the boxes that were removed do not  *)
(* have one another.                                                       *)
Lists(c, new, late) ==
    /\ \A x, y \in Box : y \in Members(x) => Kin(x, y)
    /\ \A x, y \in Box : Kin(x, y) /\ ~Kin(x, c) => y \in Members(x)
    /\ \A m \in Members(c) : c \in Members(m) /\ (Members(m) = Members(c) \/ m \in late)
    /\ \A t \in new : t \notin Members(c) /\ Kin(t, c) /\ Members(t) = Members(c) \cup {t}
    /\ \A x, y \in Box : (/\ Kin(x, c) /\ Kin(y, c) /\ x # y
                          /\ {x, y} \cap (Members(c) \cup new) = {}) => ~Trusted(x, y)
    /\ "remove" \notin play.op => \A x \in Box : Kin(x, c) => x \in Members(c) \cup new

(* Of a process that works, or would be the next to: its edit is of the    *)
(* list as it is, and whose list is not on its media is about to save it.  *)
Pushes(p) == job[p].at \in {"push", "pushing"}

New(p) ==
    IF At(p, "joined") THEN {job[p].to}
    ELSE IF At(p, "write") THEN job[p].doc.members \ Members(p[1])
    ELSE {}

Writes(p) ==
    LET c == p[1]
        t == job[p].to
    IN  \/ /\ t \notin Members(c)
           /\ job[p].doc = [list[c] EXCEPT !.members = @ \cup {t}]
        \/ /\ t \in Members(c) \ {c} /\ "remove" \in play.op
           /\ job[p].doc = [list[c] EXCEPT !.members = @ \ {t}]

ListsInv(p) ==
    LET c == p[1]
    IN  /\ Lists(c, New(p), IF Pushes(p) THEN job[p].todo ELSE {})
        /\ job[p].at \in {"joining", "joined", "write"} => job[p].saves
        /\ At(p, "write") => list[c] # NoCluster /\ p[2] # "page" /\ Writes(p)
        /\ At(p, "joining") =>
              job[p].to # c /\ job[p].to \notin Members(c) /\ job[p].doc = list[c]
        /\ Pushes(p) => job[p].doc = list[c] /\ job[p].todo \subseteq Members(c) \ {c}
        /\ At(p, "pushing") => job[p].to \in job[p].todo
        /\ \A x \in Box : list[x] # NoCluster => list[x].id <= minted
        /\ \A x \in Box : \/ saved[x] = list[x] \/ Members(x) = {x}
                           \/ (x = c /\ (Pushes(p) \/ At(p, "save")) /\ job[p].saves)

(* Who that is. *)
Leads(e, p) == Works(p) \/ (p = e /\ \A q \in Proc : ~Works(q))

PeaceInv ==
    \A e \in Proc : Alone(e) =>
        OneInv(e) /\ \A p \in Proc : Leads(e, p) => ListsInv(p)

=============================================================================
