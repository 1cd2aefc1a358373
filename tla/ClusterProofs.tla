---------------------------- MODULE ClusterProofs ----------------------------
(***************************************************************************)
(* The cluster for every set of boxes: its membership (Cluster.tla), and   *)
(* the rolling update of its members (RollingUpdate.tla).                  *)
(*                                                                         *)
(* Membership. Types, the jobs and the requests bear on one another: what  *)
(* a process waits for, its request carries (Base: JobInv, NetInv,         *)
(* AskInv). A box stays on its own list because every list on its media or *)
(* about to be written has it (SelfInv), and in its cluster, where the     *)
(* listener alone writes, because the lock is held from an edit's read to  *)
(* its write (WriteInv).                                                   *)
(*                                                                         *)
(* With one editor in peace, whoever else is busy does what that editor    *)
(* asked for (OneInv), so one process at a time is at work, and the lists  *)
(* are those of its edit (ListsInv): kin that are on its list have the     *)
(* same list or wait for its push, those that were removed do not have     *)
(* one another, and every other cluster is whole. When nobody is at work   *)
(* that is what the next edit starts from, and what the two properties     *)
(* say.                                                                    *)
(*                                                                         *)
(* The rolling update. The mark plays no part in it. What carries the      *)
(* argument is that taking the release is for good, so a page read at any  *)
(* earlier time is wrong in one direction only: it may miss that a member  *)
(* has it, never the contrary (SeenInv). A member at risk saw every lower  *)
(* one on the release (OrderInv), and none of these starts again (RunInv). *)
(***************************************************************************)
EXTENDS Cluster, RollingUpdate, FiniteSetTheorems, TLAPS

USE BoxAssumption

-----------------------------------------------------------------------------
(* Membership. *)

LEMMA IdleIsAJob ==
    /\ Idle \in Job /\ [Idle EXCEPT !.at = "save"] \in Job
    /\ \A b \in Box : b \in Nat
    /\ NoCluster \notin Doc /\ NoJob \notin Proc
  BY NoneAssumption, BoxAssumption DEF Idle, Job

LEMMA AnswerJobs ==
    ASSUME NEW j \in [Proc -> Job], NEW a \in Proc \cup {NoJob}, NEW ok \in BOOLEAN
    PROVE  /\ Answer(j, a, ok) \in [Proc -> Job]
           /\ \A q \in Proc : q # a => Answer(j, a, ok)[q] = j[q]
           /\ (a # NoJob /\ j[a].at = "asking") =>
                 /\ Answer(j, a, ok)[a].at \in {"idle", "save"}
                 /\ Answer(j, a, ok)[a].asker = NoJob
           /\ (a # NoJob /\ j[a].at # "asking") => Answer(j, a, ok)[a] = j[a]
  <1>1. CASE a = NoJob \/ j[a].at # "asking"
    BY <1>1, IdleIsAJob DEF Answer
  <1>2. CASE a # NoJob /\ j[a].at = "asking"
    <2> DEFINE new == IF ok /\ a[2] = "web" THEN [Idle EXCEPT !.at = "save"] ELSE Idle
    <2>1. Answer(j, a, ok) = [j EXCEPT ![a] = new] /\ a \in Proc
      BY <1>2 DEF Answer
    <2>2. new \in Job
      BY IdleIsAJob
    <2>3. new.at \in {"idle", "save"} /\ new.asker = NoJob
      BY DEF Idle
    <2> QED BY <1>2, <2>1, <2>2, <2>3
  <1> QED BY <1>1, <1>2

(* What the end of an edit does to the processes: it is over, and the one  *)
(* that asked for it gets on.                                              *)
LEMMA EndJobs ==
    ASSUME TypeOK, NEW p \in Proc, NEW ok \in BOOLEAN, End(p, ok)
    PROVE  /\ job' \in [Proc -> Job]
           /\ job'[p] = Idle
           /\ \A q \in Proc : q # p /\ q # job[p].asker => job'[q] = job[q]
           /\ (job[p].asker \in Proc \ {p} /\ job[job[p].asker].at = "asking") =>
                 /\ job'[job[p].asker].at \in {"idle", "save"}
                 /\ job'[job[p].asker].asker = NoJob
           /\ (job[p].asker \in Proc \ {p} /\ job[job[p].asker].at # "asking") =>
                 job'[job[p].asker] = job[job[p].asker]
  <1> DEFINE a == job[p].asker
             j == [job EXCEPT ![p] = Idle]
  <1>1. a \in Proc \cup {NoJob} /\ j \in [Proc -> Job] /\ job \in [Proc -> Job]
    BY IdleIsAJob DEF TypeOK, Job
  <1>2. job' = Answer(j, a, ok)
    BY DEF End
  <1>3. j[p] = Idle /\ j[p].at = "idle" /\ \A q \in Proc : q # p => j[q] = job[q]
    BY <1>1 DEF Idle
  <1> HIDE DEF a, j
  <1>4. /\ Answer(j, a, ok) \in [Proc -> Job]
        /\ \A q \in Proc : q # a => Answer(j, a, ok)[q] = j[q]
        /\ (a # NoJob /\ j[a].at = "asking") =>
              /\ Answer(j, a, ok)[a].at \in {"idle", "save"}
              /\ Answer(j, a, ok)[a].asker = NoJob
        /\ (a # NoJob /\ j[a].at # "asking") => Answer(j, a, ok)[a] = j[a]
    BY <1>1, AnswerJobs
  <1>5. /\ job' \in [Proc -> Job]
        /\ job'[p] = Idle
        /\ \A q \in Proc : q # p /\ q # a => job'[q] = job[q]
        /\ (a \in Proc \ {p} /\ job[a].at = "asking") =>
              job'[a].at \in {"idle", "save"} /\ job'[a].asker = NoJob
        /\ (a \in Proc \ {p} /\ job[a].at # "asking") => job'[a] = job[a]
    BY <1>2, <1>3, <1>4, IdleIsAJob
  <1> QED BY <1>5 DEF a

LEMMA EndingJobs ==
    ASSUME TypeOK, AskInv, NEW p \in Proc, NEW ok \in BOOLEAN, End(p, ok)
    PROVE  /\ job' \in [Proc -> Job]
           /\ job'[p] = Idle
           /\ \A q \in Proc \ {p} :
                 \/ job'[q] = job[q]
                 \/ /\ q = job[p].asker /\ job[q].at = "asking"
                    /\ job'[q].at \in {"idle", "save"} /\ job'[q].asker = NoJob
  BY EndJobs DEF TypeOK, Job

LEMMA ListTypes ==
    ASSUME TypeOK, NEW b \in Box
    PROVE  /\ Members(b) \subseteq Box
           /\ ClusterOfOne(b) \in Doc
           /\ list[b] # NoCluster => list[b] \in Doc /\ Members(b) = list[b].members
  BY DEF TypeOK, Members, ClusterOfOne, Doc

LEMMA TallyType ==
    ASSUME TypeOK, NEW what \in {"edit", "timeout", "crash"}, Tally(what)
    PROVE  count' \in [edit: Nat, timeout: Nat, crash: Nat] /\ play' \in Play
  BY DEF TypeOK, Tally

(* What an add begins with. *)
Added(p, t, auth, asker, others) ==
    /\ list' \in [Box -> Doc \cup {NoCluster}]
    /\ \A b \in Box : list[b] # NoCluster => list'[b] = list[b]
    /\ list'[p[1]] \in Doc
    /\ minted' \in Nat
    /\ job' \in [Proc -> Job]
    /\ \A q \in Proc \ {p} : job'[q] = job[q]
    /\ job'[p].at = "joining" /\ job'[p].to = t /\ job'[p].asker = asker
    /\ job'[p].doc = list'[p[1]]
    /\ \E r \in Request : /\ net' = others \cup {r}
                          /\ r.kind = "join" /\ r.from = p /\ r.to = t /\ r.live
                          /\ r.auth = auth /\ r.doc = list'[p[1]]

LEMMA AddingTypes ==
    ASSUME TypeOK, NEW p \in Proc, NEW t \in Box, NEW auth \in {"password", "token"},
           NEW asker \in Proc \cup {NoJob}, NEW others \in SUBSET Request,
           Adding(p, t, auth, asker, others)
    PROVE  Added(p, t, auth, asker, others)
  <1> DEFINE b == p[1]
             d == IF list[b] = NoCluster THEN ClusterOfOne(b) ELSE list[b]
             new == [Idle EXCEPT !.at = "joining", !.to = t, !.doc = d, !.asker = asker]
             r == [kind |-> "join", from |-> p, to |-> t, auth |-> auth, doc |-> d, live |-> TRUE]
  <1>1. b \in Box
    BY DEF Proc
  <1>2. d \in Doc
    BY <1>1, ListTypes
  <1>3. new \in Job /\ new.at = "joining" /\ new.to = t /\ new.asker = asker /\ new.doc = d
    BY <1>2, IdleIsAJob DEF Idle, Job
  <1>4. r \in Request
    BY <1>2 DEF Request
  <1>5. /\ list' = [list EXCEPT ![b] = d]
        /\ minted' = IF list[b] = NoCluster THEN minted + 1 ELSE minted
        /\ job' = [job EXCEPT ![p] = new]
        /\ net' = others \cup {r}
    BY DEF Adding
  <1>6. r.kind = "join" /\ r.from = p /\ r.to = t /\ r.live /\ r.auth = auth /\ r.doc = d
    OBVIOUS
  <1> HIDE DEF b, d, new, r
  <1>7. b = p[1]
    BY DEF b
  <1>8. list[b] # NoCluster => d = list[b]
    BY DEF d
  <1> QED BY <1>1, <1>2, <1>3, <1>4, <1>5, <1>6, <1>7, <1>8 DEF TypeOK, Added

LEMMA PlayOK ==
    ASSUME TypeOK
    PROVE  play.lan \subseteq Box /\ play.editor \subseteq Proc
  BY PlayAssumption DEF TypeOK, Plays

(* A member's answer to a push, or none. *)
LEMMA PushedJobs ==
    ASSUME TypeOK, NEW p \in Proc
    PROVE  /\ Pushed(job, p) \in [Proc -> Job]
           /\ \A q \in Proc \ {p} : Pushed(job, p)[q] = job[q]
           /\ Pushed(job, p)[p].at = "push"
           /\ Pushed(job, p)[p].asker = job[p].asker
           /\ Pushed(job, p)[p].doc = job[p].doc
  <1> DEFINE new == [job[p] EXCEPT !.at = "push", !.todo = @ \ {job[p].to}]
  <1>1. Pushed(job, p) = [job EXCEPT ![p] = new]
    BY DEF TypeOK, Pushed, Job
  <1>2. new \in Job
    <2>1. job[p] \in Job
      BY DEF TypeOK
    <2> QED BY <2>1 DEF Job
  <1>3. new.at = "push" /\ new.asker = job[p].asker /\ new.doc = job[p].doc
    BY DEF TypeOK, Job
  <1> HIDE DEF new
  <1> QED BY <1>1, <1>2, <1>3 DEF TypeOK

LEMMA SetJobs ==
    ASSUME TypeOK, NEW p \in Proc,
           NEW at \in {"idle", "joining", "joined", "write", "push", "pushing", "asking", "save"},
           Set(p, at)
    PROVE  /\ job' \in [Proc -> Job]
           /\ \A q \in Proc \ {p} : job'[q] = job[q]
           /\ job'[p] = [job[p] EXCEPT !.at = at] /\ job'[p].at = at
           /\ job'[p].to = job[p].to /\ job'[p].asker = job[p].asker /\ job'[p].doc = job[p].doc
  BY DEF TypeOK, Set, Job

-----------------------------------------------------------------------------
(* What most steps have in common: one process moves on.                   *)

Base == TypeOK /\ JobInv /\ NetInv /\ AskInv

(* Whoever is not asking is nobody's asker.                                *)
LEMMA NobodysAsker ==
    ASSUME TypeOK, AskInv, NEW p \in Proc, job[p].at # "asking"
    PROVE  \A q \in Proc : job[q].asker # p
  BY IdleIsAJob DEF AskInv

(* Whoever waits for nothing has no request that is live.                  *)
LEMMA NothingLive ==
    ASSUME TypeOK, NetInv, NEW p \in Proc, job[p].at \notin {"joining", "pushing", "asking"}
    PROVE  \A r \in net : r.live => r.from # p
  BY DEF NetInv, Awaits

(* A process goes on without a request of its own.                         *)
LEMMA GoesOn ==
    ASSUME Base, TypeOK', NEW p \in Proc,
           \A b \in Box : list[b] # NoCluster => list'[b] # NoCluster,
           \A q \in Proc \ {p} : job'[q] = job[q],
           \A q \in Proc : job[q].asker # p,
           \A r \in net' : /\ r.kind # "add-request" => r.doc \in Doc
                           /\ r.live => r \in net /\ r.from # p,
           job'[p].asker \in {NoJob, job[p].asker},
           job'[p].at \in {"joining", "joined"} =>
               list'[p[1]] # NoCluster /\ job'[p].to \in Box,
           job'[p].at \in {"write", "push", "pushing"} => job'[p].doc \in Doc
    PROVE  Base'
  <1> USE DEF Base
  <1>1. \A q \in Proc : q[1] \in Box
    BY DEF Proc
  <1>2. JobInv'
    BY <1>1 DEF JobInv
  <1>3. NetInv'
    <2>1. \A r \in net' : r.live => r.from \in Proc \ {p}
      BY DEF TypeOK, Request
    <2> QED BY <2>1 DEF NetInv
  <1>4. AskInv'
    <2>1. \A q \in Proc : job'[q].asker \in {NoJob, job[q].asker}
      OBVIOUS
    <2>2. \A q \in Proc : job[q].asker \in (Proc \ {p}) \cup {NoJob}
      BY DEF TypeOK, Job
    <2> QED BY <2>1, <2>2 DEF AskInv
  <1> QED BY <1>2, <1>3, <1>4

(* A process sends a request and waits for it.                             *)
LEMMA SendsOne ==
    ASSUME Base, TypeOK', NEW p \in Proc, NEW r \in Request, NEW others \in SUBSET net,
           \A b \in Box : list[b] # NoCluster => list'[b] # NoCluster,
           \A q \in Proc \ {p} : job'[q] = job[q],
           job[p].at \notin {"joining", "pushing", "asking"},
           net' = others \cup {r}, r.from = p, r.live,
           r.kind # "add-request" => r.doc \in Doc /\ job'[p].to = r.to,
           job'[p].at = Awaits(r.kind),
           \/ job'[p].asker \in {NoJob, job[p].asker}
           \/ /\ job'[p].asker \in Proc /\ job[job'[p].asker].at = "asking"
              /\ \A q \in Proc : job[q].asker # job'[p].asker
              /\ \A x \in others : x.live => x.from # job'[p].asker,
           job'[p].at = "joining" => list'[p[1]] # NoCluster,
           job'[p].at = "pushing" => job'[p].doc \in Doc
    PROVE  Base'
  <1> USE DEF Base
  <1>1. \A q \in Proc : q[1] \in Box
    BY DEF Proc
  <1>2. \A x \in net : x.live => x.from # p
    BY NothingLive
  <1>3. \A q \in Proc : job[q].asker # p
    BY NobodysAsker
  <1>4. JobInv'
    <2>1. r.to \in Box /\ (job'[p].at = "joining" => job'[p].to \in Box) /\ job'[p].at # "joined"
      BY DEF Request, Awaits
    <2> QED BY <1>1, <2>1 DEF JobInv, Awaits
  <1>5. NetInv'
    <2>1. \A x \in others : x.live => x.from \in Proc \ {p}
      BY <1>2 DEF TypeOK, Request
    <2> QED BY <1>2, <2>1 DEF NetInv
  <1>6. AskInv'
    <2>1. \A q \in Proc : job[q].asker \in (Proc \ {p}) \cup {NoJob}
      BY <1>3 DEF TypeOK, Job
    <2>2. job'[p].asker # p
      BY <2>1, IdleIsAJob
    <2> QED BY <2>1, <2>2, IdleIsAJob DEF AskInv
  <1> QED BY <1>4, <1>5, <1>6

(* An edit ends, and whoever asked for it gets on.                         *)
LEMMA EndsOne ==
    ASSUME Base, TypeOK', NEW p \in Proc, NEW ok \in BOOLEAN, End(p, ok),
           job[p].at # "asking",
           list' = list,
           \A r \in net' : /\ r.kind # "add-request" => r.doc \in Doc
                           /\ r.live => r \in net /\ r.from # p
    PROVE  Base'
  <1> USE DEF Base
  <1>1. \A q \in Proc : q[1] \in Box
    BY DEF Proc
  <1>2. /\ job'[p].at = "idle" /\ job'[p].asker = NoJob
        /\ \A q \in Proc \ {p} :
              \/ job'[q] = job[q]
              \/ /\ q = job[p].asker /\ job[q].at = "asking"
                 /\ job'[q].at \in {"idle", "save"} /\ job'[q].asker = NoJob
    BY EndingJobs DEF Idle
  <1>3. \A q \in Proc : job[q].asker # p
    BY NobodysAsker
  <1>4. JobInv'
    BY <1>1, <1>2 DEF JobInv
  <1>5. NetInv'
    <2>1. \A r \in net' : r.live => r.from \in Proc \ {p}
      BY DEF TypeOK, Request
    <2>2. \A r \in net : r.live /\ r.from \in Proc => r.from # job[p].asker
      BY IdleIsAJob DEF AskInv
    <2>3. \A r \in net' : r.live => job'[r.from] = job[r.from]
      BY <1>2, <2>1, <2>2
    <2> QED BY <2>1, <2>3 DEF NetInv
  <1>6. AskInv'
    <2>1. \A q \in Proc : job[q].asker \in (Proc \ {p}) \cup {NoJob}
      BY <1>3 DEF TypeOK, Job
    <2>2. \A q \in Proc : job'[q].asker # NoJob =>
              q # p /\ job'[q] = job[q] /\ job'[job[q].asker] = job[job[q].asker]
      BY <1>2, <2>1, IdleIsAJob DEF AskInv
    <2> QED BY <2>2 DEF AskInv
  <1> QED BY <1>4, <1>5, <1>6

-----------------------------------------------------------------------------
(* Every step keeps what the types rest on.                                *)

LEMMA StartAddBase ==
    ASSUME Base, NEW p \in Proc, StartAdd(p)
    PROVE  Base'
  <1> USE DEF Base
  <1>1. PICK t \in play.lan : Adding(p, t, "password", NoJob, net)
    BY DEF StartAdd
  <1>2. /\ t \in Box /\ job[p].at = "idle" /\ net \in SUBSET Request
        /\ "password" \in {"password", "token"} /\ NoJob \in Proc \cup {NoJob}
    BY PlayOK DEF StartAdd, StartEdit, At, TypeOK
  <1>3. Added(p, t, "password", NoJob, net)
    BY <1>1, <1>2, AddingTypes
  <1>4. /\ list' \in [Box -> Doc \cup {NoCluster}]
        /\ \A b \in Box : list[b] # NoCluster => list'[b] = list[b]
        /\ list'[p[1]] \in Doc
        /\ minted' \in Nat
        /\ job' \in [Proc -> Job]
        /\ \A q \in Proc \ {p} : job'[q] = job[q]
        /\ job'[p].at = "joining" /\ job'[p].to = t /\ job'[p].asker = NoJob
        /\ job'[p].doc = list'[p[1]]
    BY <1>3 DEF Added
  <1>5. PICK r \in Request : /\ net' = net \cup {r}
                             /\ r.kind = "join" /\ r.from = p /\ r.to = t /\ r.live
                             /\ r.auth = "password" /\ r.doc = list'[p[1]]
    BY <1>3 DEF Added
  <1>6. TypeOK'
    BY <1>2, <1>4, <1>5, TallyType DEF StartAdd, StartEdit, TypeOK
  <1> QED BY <1>2, <1>4, <1>5, <1>6, IdleIsAJob, SendsOne DEF Awaits

LEMMA StartRemoveBase ==
    ASSUME Base, NEW p \in Proc, StartRemove(p)
    PROVE  Base'
  <1> USE DEF Base
  <1> DEFINE b == p[1]
  <1>1. PICK t \in Members(b) \ {b} :
          job' = [job EXCEPT ![p] = [Idle EXCEPT !.at = "write", !.to = t,
                                     !.doc = [list[b] EXCEPT !.members = @ \ {t}]]]
    BY DEF StartRemove
  <1> DEFINE d == [list[b] EXCEPT !.members = @ \ {t}]
             new == [Idle EXCEPT !.at = "write", !.to = t, !.doc = d]
  <1>2. b \in Box /\ list[b] \in Doc /\ job[p].at = "idle" /\ t \in Box
    BY <1>1, ListTypes DEF Proc, Members, StartRemove, StartEdit, At
  <1>3. d \in Doc
    BY <1>2 DEF Doc
  <1>4. new \in Job /\ new.at = "write" /\ new.asker = NoJob /\ new.doc = d
    BY <1>2, <1>3, IdleIsAJob DEF Idle, Job
  <1>5. job' = [job EXCEPT ![p] = new]
    BY <1>1
  <1> HIDE DEF b, d, new
  <1>6. UNCHANGED <<list, saved, token, net, minted>>
        /\ count' \in [edit: Nat, timeout: Nat, crash: Nat] /\ play' \in Play
    BY TallyType DEF StartRemove, StartEdit
  <1>7. TypeOK'
    BY <1>4, <1>5, <1>6 DEF TypeOK
  <1>8. /\ \A q \in Proc \ {p} : job'[q] = job[q]
        /\ job'[p] = new
    BY <1>5 DEF TypeOK
  <1>9. \A q \in Proc : job[q].asker # p
    BY <1>2, NobodysAsker
  <1>10. \A r \in net' : /\ r.kind # "add-request" => r.doc \in Doc
                         /\ r.live => r \in net /\ r.from # p
    BY <1>2, <1>6, NothingLive DEF NetInv
  <1> QED BY <1>3, <1>4, <1>6, <1>7, <1>8, <1>9, <1>10, GoesOn

LEMMA ReconcileBase ==
    ASSUME Base, NEW p \in Proc, Reconcile(p)
    PROVE  Base'
  <1> USE DEF Base
  <1> DEFINE b == p[1]
             d == [list[b] EXCEPT !.members = @ \ Elsewhere(b)]
             new == [Idle EXCEPT !.at = "write", !.doc = d]
  <1>1. b \in Box /\ list[b] \in Doc /\ job[p].at = "idle"
    BY ListTypes DEF Proc, Members, Elsewhere, Reconcile, At
  <1>2. d \in Doc
    BY <1>1 DEF Doc
  <1>3. new \in Job /\ new.at = "write" /\ new.asker = NoJob /\ new.doc = d
    BY <1>2, IdleIsAJob DEF Idle, Job
  <1>4. job' = [job EXCEPT ![p] = new] /\ UNCHANGED <<list, saved, token, net, minted, count, play>>
    BY DEF Reconcile
  <1> HIDE DEF b, d, new
  <1>5. TypeOK'
    BY <1>3, <1>4 DEF TypeOK
  <1>6. /\ \A q \in Proc \ {p} : job'[q] = job[q]
        /\ job'[p] = new
    BY <1>4 DEF TypeOK
  <1>7. \A q \in Proc : job[q].asker # p
    BY <1>1, NobodysAsker
  <1>8. \A r \in net' : /\ r.kind # "add-request" => r.doc \in Doc
                        /\ r.live => r \in net /\ r.from # p
    BY <1>1, <1>4, NothingLive DEF NetInv
  <1> QED BY <1>2, <1>3, <1>4, <1>5, <1>6, <1>7, <1>8, GoesOn

LEMMA StartSyncBase ==
    ASSUME Base, NEW p \in Proc, StartSync(p)
    PROVE  Base'
  <1> USE DEF Base
  <1> DEFINE b == p[1]
             new == [Idle EXCEPT !.at = "push", !.doc = list[b],
                                 !.todo = list[b].members \ {b}, !.saves = FALSE]
  <1>1. b \in Box /\ list[b] \in Doc /\ job[p].at = "idle"
    BY ListTypes DEF Proc, StartSync, StartEdit, At
  <1>2. new \in Job /\ new.at = "push" /\ new.asker = NoJob /\ new.doc = list[b]
    BY <1>1, IdleIsAJob DEF Idle, Job, Doc
  <1>3. list' = list /\ job' = [job EXCEPT ![p] = new]
    BY DEF StartSync
  <1> HIDE DEF b, new
  <1>4. UNCHANGED <<saved, token, net, minted>> /\ count' \in [edit: Nat, timeout: Nat, crash: Nat]
        /\ play' \in Play
    BY TallyType DEF StartSync, StartEdit
  <1>5. TypeOK'
    BY <1>2, <1>3, <1>4 DEF TypeOK
  <1>6. /\ \A q \in Proc \ {p} : job'[q] = job[q]
        /\ job'[p] = new
    BY <1>3 DEF TypeOK
  <1>7. \A q \in Proc : job[q].asker # p
    BY <1>1, NobodysAsker
  <1>8. \A r \in net' : /\ r.kind # "add-request" => r.doc \in Doc
                        /\ r.live => r \in net /\ r.from # p
    BY <1>1, <1>4, NothingLive DEF NetInv
  <1> QED BY <1>1, <1>2, <1>3, <1>5, <1>6, <1>7, <1>8, GoesOn

LEMMA StartInitBase ==
    ASSUME Base, NEW p \in Proc, StartInit(p)
    PROVE  Base'
  <1> USE DEF Base
  <1> DEFINE b == p[1]
             new == [Idle EXCEPT !.at = "save"]
             d == ClusterOfOne(b)
  <1>1. b \in Box /\ job[p].at = "idle"
    BY DEF Proc, StartInit, StartEdit, At
  <1>2. d \in Doc
    BY <1>1, ListTypes
  <1>3. new \in Job /\ new.at = "save" /\ new.asker = NoJob
    BY IdleIsAJob DEF Idle
  <1>4. list' = [list EXCEPT ![b] = d] /\ job' = [job EXCEPT ![p] = new] /\ minted' = minted + 1
    BY DEF StartInit
  <1> HIDE DEF b, new, d
  <1>5. UNCHANGED <<saved, token, net>> /\ count' \in [edit: Nat, timeout: Nat, crash: Nat]
        /\ play' \in Play
    BY TallyType DEF StartInit, StartEdit
  <1>6. TypeOK'
    BY <1>1, <1>2, <1>3, <1>4, <1>5 DEF TypeOK
  <1>7. \A x \in Box : list[x] # NoCluster => list'[x] # NoCluster
    BY <1>1, <1>2, <1>4, IdleIsAJob DEF TypeOK
  <1>8. /\ \A q \in Proc \ {p} : job'[q] = job[q]
        /\ job'[p] = new
    BY <1>4 DEF TypeOK
  <1>9. \A q \in Proc : job[q].asker # p
    BY <1>1, NobodysAsker
  <1>10. \A r \in net' : /\ r.kind # "add-request" => r.doc \in Doc
                         /\ r.live => r \in net /\ r.from # p
    BY <1>1, <1>5, NothingLive DEF NetInv
  <1> QED BY <1>3, <1>6, <1>7, <1>8, <1>9, <1>10, GoesOn

LEMMA StartJoinBase ==
    ASSUME Base, NEW p \in Proc, StartJoin(p)
    PROVE  Base'
  <1> USE DEF Base
  <1>1. PICK m \in play.lan \ {p[1]} :
          net' = net \cup {[kind |-> "add-request", from |-> p, to |-> m, auth |-> "",
                            doc |-> NoCluster, live |-> TRUE]}
    BY DEF StartJoin
  <1> DEFINE r == [kind |-> "add-request", from |-> p, to |-> m, auth |-> "",
                   doc |-> NoCluster, live |-> TRUE]
             new == [Idle EXCEPT !.at = "asking"]
  <1>2. m \in Box /\ job[p].at = "idle"
    BY PlayOK DEF StartJoin, StartEdit, At
  <1>3. r \in Request /\ r.kind = "add-request" /\ r.from = p /\ r.live
    BY <1>2 DEF Request
  <1>4. new \in Job /\ new.at = "asking" /\ new.asker = NoJob
    BY IdleIsAJob DEF Idle, Job
  <1>5. net' = net \cup {r} /\ job' = [job EXCEPT ![p] = new]
    BY <1>1 DEF StartJoin
  <1>6. UNCHANGED <<list, saved, minted>> /\ token' \in [Box -> BOOLEAN]
        /\ count' \in [edit: Nat, timeout: Nat, crash: Nat] /\ play' \in Play
    BY TallyType DEF StartJoin, StartEdit, TypeOK
  <1> HIDE DEF r, new
  <1>7. TypeOK'
    BY <1>3, <1>4, <1>5, <1>6 DEF TypeOK
  <1>8. /\ \A q \in Proc \ {p} : job'[q] = job[q]
        /\ job'[p] = new
    BY <1>5 DEF TypeOK
  <1> QED BY <1>2, <1>3, <1>4, <1>5, <1>6, <1>7, <1>8, SendsOne DEF Awaits

LEMMA AddMemberBase ==
    ASSUME Base, NEW p \in Proc, AddMember(p)
    PROVE  Base'
  <1> USE DEF Base
  <1> DEFINE b == p[1]
             d == [list[b] EXCEPT !.members = @ \cup {job[p].to}]
             new == [job[p] EXCEPT !.at = "write", !.doc = d]
  <1>1. b \in Box /\ list[b] \in Doc /\ job[p].at = "joined" /\ job[p].to \in Box
    BY ListTypes DEF Proc, AddMember, At, JobInv
  <1>2. d \in Doc
    BY <1>1 DEF Doc
  <1>3. new \in Job /\ new.at = "write" /\ new.asker = job[p].asker /\ new.doc = d
    <2>1. job[p] \in Job
      BY DEF TypeOK
    <2> HIDE DEF d
    <2> QED BY <1>2, <2>1 DEF Job
  <1>4. job' = [job EXCEPT ![p] = new] /\ UNCHANGED <<list, saved, token, net, minted, count, play>>
    <2>1. job' = [job EXCEPT ![p].at = "write", ![p].doc = d]
      BY DEF AddMember
    <2>2. job' = [job EXCEPT ![p] = new]
      BY <2>1 DEF TypeOK
    <2> QED BY <2>2 DEF AddMember
  <1> HIDE DEF b, d, new
  <1>5. TypeOK'
    BY <1>3, <1>4 DEF TypeOK
  <1>6. /\ \A q \in Proc \ {p} : job'[q] = job[q]
        /\ job'[p] = new
    BY <1>4 DEF TypeOK
  <1>7. \A q \in Proc : job[q].asker # p
    BY <1>1, NobodysAsker
  <1>8. \A r \in net' : /\ r.kind # "add-request" => r.doc \in Doc
                        /\ r.live => r \in net /\ r.from # p
    BY <1>1, <1>4, NothingLive DEF NetInv
  <1> QED BY <1>2, <1>3, <1>4, <1>5, <1>6, <1>7, <1>8, GoesOn

LEMMA WriteListBase ==
    ASSUME Base, NEW p \in Proc, WriteList(p)
    PROVE  Base'
  <1> USE DEF Base
  <1> DEFINE b == p[1]
             d == job[p].doc
             at == IF p[2] = "page" THEN "save" ELSE "push"
             new == [job[p] EXCEPT !.at = at, !.todo = d.members \ {b}]
  <1>1. b \in Box /\ d \in Doc /\ job[p].at = "write"
    BY DEF Proc, WriteList, At, JobInv
  <1>2. new \in Job /\ new.at \in {"save", "push"} /\ new.asker = job[p].asker /\ new.doc = d
    <2>1. job[p] \in Job
      BY DEF TypeOK
    <2>2. d.members \subseteq Box /\ at \in {"save", "push"}
      BY <1>1 DEF Doc
    <2> QED BY <2>1, <2>2 DEF Job
  <1>3. list' = [list EXCEPT ![b] = d] /\ job' = [job EXCEPT ![p] = new]
    <2>1. job' = [job EXCEPT ![p].at = at, ![p].todo = d.members \ {b}]
      BY DEF WriteList
    <2>2. job' = [job EXCEPT ![p] = new]
      BY <2>1 DEF TypeOK
    <2> QED BY <2>2 DEF WriteList
  <1> HIDE DEF b, d, at, new
  <1>4. UNCHANGED <<saved, token, net, minted, count, play>>
    BY DEF WriteList
  <1>5. TypeOK'
    BY <1>1, <1>2, <1>3, <1>4 DEF TypeOK
  <1>6. \A x \in Box : list[x] # NoCluster => list'[x] # NoCluster
    BY <1>1, <1>3, IdleIsAJob DEF TypeOK
  <1>7. /\ \A q \in Proc \ {p} : job'[q] = job[q]
        /\ job'[p] = new
    BY <1>3 DEF TypeOK
  <1>8. \A q \in Proc : job[q].asker # p
    BY <1>1, NobodysAsker
  <1>9. \A r \in net' : /\ r.kind # "add-request" => r.doc \in Doc
                        /\ r.live => r \in net /\ r.from # p
    BY <1>1, <1>4, NothingLive DEF NetInv
  <1> QED BY <1>1, <1>2, <1>5, <1>6, <1>7, <1>8, <1>9, GoesOn

LEMMA PushBase ==
    ASSUME Base, NEW p \in Proc, Push(p)
    PROVE  Base'
  <1> USE DEF Base
  <1>1. PICK m \in job[p].todo :
          IF Trusted(p[1], m)
          THEN /\ net' = net \cup {[kind |-> "members", from |-> p, to |-> m,
                                    auth |-> "", doc |-> job[p].doc, live |-> TRUE]}
               /\ job' = [job EXCEPT ![p].at = "pushing", ![p].to = m]
          ELSE /\ job' = [job EXCEPT ![p].todo = @ \ {m}]
               /\ UNCHANGED net
    BY DEF Push
  <1>2. /\ job[p].at = "push" /\ job[p] \in Job /\ job[p].doc \in Doc /\ m \in Box
        /\ UNCHANGED <<list, saved, token, minted, count, play>>
    BY DEF Push, At, TypeOK, Job, JobInv
  <1>3. CASE Trusted(p[1], m)
    <2> DEFINE r == [kind |-> "members", from |-> p, to |-> m, auth |-> "",
                     doc |-> job[p].doc, live |-> TRUE]
               new == [job[p] EXCEPT !.at = "pushing", !.to = m]
    <2>1. /\ r \in Request /\ r.kind = "members" /\ r.from = p /\ r.live
          /\ r.to = m /\ r.doc = job[p].doc
      BY <1>2 DEF Request
    <2>2. new \in Job /\ new.at = "pushing" /\ new.asker = job[p].asker /\ new.to = m
          /\ new.doc = job[p].doc
      BY <1>2, IdleIsAJob DEF Job
    <2>3. net' = net \cup {r} /\ job' = [job EXCEPT ![p] = new]
      BY <1>1, <1>3 DEF TypeOK
    <2> HIDE DEF r, new
    <2>4. TypeOK'
      BY <1>2, <2>1, <2>2, <2>3 DEF TypeOK
    <2>5. /\ \A q \in Proc \ {p} : job'[q] = job[q]
          /\ job'[p] = new
      BY <2>3 DEF TypeOK
    <2> QED BY <1>2, <2>1, <2>2, <2>3, <2>4, <2>5, SendsOne DEF Awaits
  <1>4. CASE ~Trusted(p[1], m)
    <2> DEFINE new == [job[p] EXCEPT !.todo = @ \ {m}]
    <2>1. new \in Job /\ new.at = "push" /\ new.asker = job[p].asker /\ new.doc = job[p].doc
      BY <1>2 DEF Job
    <2>2. net' = net /\ job' = [job EXCEPT ![p] = new]
      BY <1>1, <1>4 DEF TypeOK
    <2> HIDE DEF new
    <2>3. TypeOK'
      BY <1>2, <2>1, <2>2 DEF TypeOK
    <2>4. /\ \A q \in Proc \ {p} : job'[q] = job[q]
          /\ job'[p] = new
      BY <2>2 DEF TypeOK
    <2>5. \A q \in Proc : job[q].asker # p
      BY <1>2, NobodysAsker
    <2>6. \A r \in net' : /\ r.kind # "add-request" => r.doc \in Doc
                          /\ r.live => r \in net /\ r.from # p
      BY <1>2, <2>2, NothingLive DEF NetInv
    <2> QED BY <1>2, <2>1, <2>3, <2>4, <2>5, <2>6, GoesOn
  <1> QED BY <1>3, <1>4

LEMMA PushEndsBase ==
    ASSUME Base, NEW p \in Proc, PushEnds(p)
    PROVE  Base'
  <1> USE DEF Base
  <1>1. job[p].at = "push" /\ UNCHANGED <<list, saved, token, net, minted, count, play>>
    BY DEF PushEnds, At
  <1>2. \A r \in net' : /\ r.kind # "add-request" => r.doc \in Doc
                        /\ r.live => r \in net /\ r.from # p
    BY <1>1, NothingLive DEF NetInv
  <1>3. CASE job[p].saves
    <2>1. /\ job' \in [Proc -> Job]
          /\ \A q \in Proc \ {p} : job'[q] = job[q]
          /\ job'[p].at = "save" /\ job'[p].asker = job[p].asker
      BY <1>3, SetJobs DEF PushEnds
    <2>2. TypeOK'
      BY <1>1, <2>1 DEF TypeOK
    <2>3. \A q \in Proc : job[q].asker # p
      BY <1>1, NobodysAsker
    <2> QED BY <1>1, <1>2, <2>1, <2>2, <2>3, GoesOn
  <1>4. CASE ~job[p].saves
    <2>1. End(p, TRUE)
      BY <1>4 DEF PushEnds
    <2>2. TypeOK'
      BY <1>1, <2>1, EndingJobs DEF TypeOK
    <2> QED BY <1>1, <1>2, <2>1, <2>2, EndsOne
  <1> QED BY <1>3, <1>4

LEMMA SaveBase ==
    ASSUME Base, NEW p \in Proc, Save(p)
    PROVE  Base'
  <1> USE DEF Base
  <1>1. /\ job[p].at = "save" /\ End(p, TRUE)
        /\ UNCHANGED <<list, token, net, minted, count, play>>
        /\ saved' = [saved EXCEPT ![p[1]] = list[p[1]]]
    BY DEF Save, At
  <1>2. \A r \in net' : /\ r.kind # "add-request" => r.doc \in Doc
                        /\ r.live => r \in net /\ r.from # p
    BY <1>1, NothingLive DEF NetInv
  <1>3. TypeOK'
    BY <1>1, EndingJobs DEF TypeOK, Proc
  <1> QED BY <1>1, <1>2, <1>3, EndsOne

LEMMA AbandonedIsDead ==
    ASSUME Base, NEW p \in Proc
    PROVE  /\ Abandoned(p) \subseteq Request
           /\ \A r \in Abandoned(p) : /\ r.kind # "add-request" => r.doc \in Doc
                                      /\ r.live => r \in net /\ r.from # p
  <1> SUFFICES ASSUME NEW r \in Abandoned(p)
               PROVE  /\ r \in Request
                      /\ r.kind # "add-request" => r.doc \in Doc
                      /\ r.live => r \in net /\ r.from # p
    OBVIOUS
  <1>1. PICK x \in net : r = IF x.from = p THEN [x EXCEPT !.live = FALSE] ELSE x
    BY DEF Abandoned
  <1>2. x \in Request /\ (x.kind # "add-request" => x.doc \in Doc)
    BY DEF Base, TypeOK, NetInv
  <1>3. CASE x.from = p
    <2>1. r \in Request /\ r.kind = x.kind /\ r.doc = x.doc /\ ~r.live
      BY <1>1, <1>2, <1>3 DEF Request
    <2> QED BY <1>2, <2>1
  <1> QED BY <1>1, <1>2, <1>3

(* The one that asks gives up: nobody answers to it any more.              *)
LEMMA AskingGivesUp ==
    ASSUME Base, NEW p \in Proc, job[p].at = "asking", GivesUp(p)
    PROVE  /\ job' \in [Proc -> Job]
           /\ job'[p] = Idle
           /\ \A q \in Proc \ {p} :
                IF job[q].asker = p
                THEN job'[q] \in Job /\ job'[q] = [job[q] EXCEPT !.asker = NoJob]
                ELSE job'[q] = job[q]
  <1>1. job' = [q \in Proc |-> IF q = p THEN Idle
                               ELSE IF job[q].asker = p THEN [job[q] EXCEPT !.asker = NoJob]
                               ELSE job[q]]
    BY DEF GivesUp, At
  <1>2. \A q \in Proc : job[q] \in Job /\ [job[q] EXCEPT !.asker = NoJob] \in Job
    BY DEF Base, TypeOK, Job
  <1> QED BY <1>1, <1>2, IdleIsAJob

LEMMA TimeoutBase ==
    ASSUME Base, NEW p \in Proc, Timeout(p)
    PROVE  Base'
  <1> USE DEF Base
  <1>1. /\ job[p].at \in {"joining", "pushing", "asking"}
        /\ GivesUp(p) /\ net' = Abandoned(p) /\ UNCHANGED <<list, saved, token, minted>>
        /\ count' \in [edit: Nat, timeout: Nat, crash: Nat] /\ play' \in Play
    BY TallyType DEF Timeout, TypeOK
  <1>2. /\ net' \subseteq Request
        /\ \A r \in net' : /\ r.kind # "add-request" => r.doc \in Doc
                           /\ r.live => r \in net /\ r.from # p
    BY <1>1, AbandonedIsDead
  <1>3. CASE job[p].at = "pushing"
    <2>1. job' = Pushed(job, p)
      BY <1>1, <1>3 DEF GivesUp, At
    <2>2. /\ job' \in [Proc -> Job]
          /\ \A q \in Proc \ {p} : job'[q] = job[q]
          /\ job'[p].at = "push" /\ job'[p].asker = job[p].asker /\ job'[p].doc = job[p].doc
      BY <2>1, PushedJobs
    <2>3. TypeOK'
      BY <1>1, <1>2, <2>2 DEF TypeOK
    <2>4. \A q \in Proc : job[q].asker # p
      BY <1>3, NobodysAsker
    <2>5. job[p].doc \in Doc
      BY <1>3 DEF JobInv
    <2> QED BY <1>1, <1>2, <2>2, <2>3, <2>4, <2>5, GoesOn
  <1>4. CASE job[p].at = "joining"
    <2>1. End(p, FALSE)
      BY <1>1, <1>4 DEF GivesUp, At
    <2>2. TypeOK'
      BY <1>1, <1>2, <2>1, EndingJobs DEF TypeOK
    <2> QED BY <1>1, <1>2, <1>4, <2>1, <2>2, EndsOne
  <1>5. CASE job[p].at = "asking"
    <2>1. /\ job' \in [Proc -> Job]
          /\ job'[p] = Idle
          /\ \A q \in Proc \ {p} :
               IF job[q].asker = p
               THEN job'[q] \in Job /\ job'[q] = [job[q] EXCEPT !.asker = NoJob]
               ELSE job'[q] = job[q]
      BY <1>1, <1>5, AskingGivesUp
    <2>2. TypeOK'
      BY <1>1, <1>2, <2>1 DEF TypeOK
    <2>3. \A q \in Proc \ {p} :
             /\ job'[q].at = job[q].at /\ job'[q].to = job[q].to /\ job'[q].doc = job[q].doc
             /\ job'[q].asker = IF job[q].asker = p THEN NoJob ELSE job[q].asker
      BY <2>1 DEF TypeOK, Job
    <2>4. job'[p].at = "idle" /\ job'[p].asker = NoJob
      BY <2>1 DEF Idle
    <2>5. \A q \in Proc : q[1] \in Box
      BY DEF Proc
    <2>6. JobInv'
      BY <1>1, <2>3, <2>4, <2>5 DEF JobInv
    <2>7. NetInv'
      <3>1. \A r \in net' : r.live => r.from \in Proc \ {p}
        BY <1>2 DEF Request
      <3> QED BY <1>2, <2>3, <3>1 DEF NetInv
    <2>8. AskInv'
      <3>1. \A q \in Proc : job[q].asker \in Proc \cup {NoJob}
        BY DEF TypeOK, Job
      <3>2. \A q \in Proc : job'[q].asker # NoJob =>
                q # p /\ job'[q].asker = job[q].asker /\ job[q].asker \in Proc \ {p}
        BY <2>3, <2>4, <3>1
      <3> QED BY <1>2, <2>3, <3>2 DEF AskInv
    <2> QED BY <2>2, <2>6, <2>7, <2>8
  <1> QED BY <1>1, <1>3, <1>4, <1>5

LEMMA JoinBase ==
    ASSUME Base, NEW r \in net, Join(r)
    PROVE  Base'
  <1> USE DEF Base
  <1> DEFINE t == r.to
             p == r.from
             joined == Joined(t, r.doc)
             ok == (r.auth = "password" \/ token[t]) /\ ~Refuses(t, r.doc)
  <1>1. /\ r.kind = "join" /\ net' = net \ {r}
        /\ token' = [token EXCEPT ![t] = FALSE]
        /\ list' = IF ok THEN [list EXCEPT ![t] = joined] ELSE list
        /\ saved' = IF ok THEN [saved EXCEPT ![t] = joined] ELSE saved
        /\ IF ~r.live THEN UNCHANGED job
           ELSE IF ok THEN Set(p, "joined") ELSE End(p, FALSE)
        /\ UNCHANGED <<minted, count, play>>
    BY DEF Join
  <1>2. t \in Box /\ p \in Proc /\ r.doc \in Doc
    BY <1>1 DEF TypeOK, Request, NetInv
  <1>3. joined \in Doc
    BY <1>2 DEF Joined, Doc
  <1>4. ok \in BOOLEAN
    OBVIOUS
  <1> HIDE DEF t, p, joined, ok
  <1>5. /\ list' \in [Box -> Doc \cup {NoCluster}] /\ saved' \in [Box -> Doc \cup {NoCluster}]
        /\ token' \in [Box -> BOOLEAN]
        /\ \A b \in Box : list[b] # NoCluster => list'[b] # NoCluster
    BY <1>1, <1>2, <1>3, IdleIsAJob DEF TypeOK
  <1>6. CASE ~r.live
    <2>1. UNCHANGED job
      BY <1>1, <1>6
    <2>2. TypeOK'
      BY <1>1, <1>5, <2>1 DEF TypeOK
    <2>3. JobInv'
      BY <1>5, <2>1 DEF JobInv, Proc
    <2>4. NetInv' /\ AskInv'
      BY <1>1, <2>1 DEF NetInv, AskInv
    <2> QED BY <2>2, <2>3, <2>4
  <1>7. CASE r.live
    <2>1. job[p].at = "joining" /\ job[p].to \in Box /\ list[p[1]] # NoCluster
      BY <1>1, <1>2, <1>7 DEF NetInv, Awaits, JobInv, p
    <2>2. \A x \in net' : /\ x.kind # "add-request" => x.doc \in Doc
                          /\ x.live => x \in net /\ x.from # p
      BY <1>1, <1>7 DEF NetInv, p
    <2>3. CASE ok
      <3>1. /\ job' \in [Proc -> Job]
            /\ \A q \in Proc \ {p} : job'[q] = job[q]
            /\ job'[p].at = "joined" /\ job'[p].asker = job[p].asker
            /\ job'[p].to = job[p].to
        BY <1>1, <1>2, <1>7, <2>3, SetJobs
      <3>2. TypeOK'
        BY <1>1, <1>5, <3>1 DEF TypeOK
      <3>3. \A q \in Proc : job[q].asker # p
        BY <1>2, <2>1, NobodysAsker
      <3>4. list'[p[1]] # NoCluster
        BY <1>2, <1>5, <2>1 DEF Proc
      <3> QED BY <1>2, <1>5, <2>1, <2>2, <3>1, <3>2, <3>3, <3>4, GoesOn
    <2>4. CASE ~ok
      <3>1. End(p, FALSE) /\ list' = list
        BY <1>1, <1>7, <2>4
      <3>2. TypeOK'
        BY <1>1, <1>2, <1>5, <3>1, EndingJobs DEF TypeOK
      <3> QED BY <1>2, <2>1, <2>2, <3>1, <3>2, EndsOne
    <2> QED BY <2>3, <2>4
  <1> QED BY <1>6, <1>7

LEMMA ReplacedIsADoc ==
    ASSUME TypeOK, NEW m \in Box, NEW doc \in Doc, list[m] # NoCluster
    PROVE  Replaced(m, doc) \in Doc
  BY ListTypes DEF Replaced

LEMMA TakeListBase ==
    ASSUME Base, NEW r \in net, TakeList(r)
    PROVE  Base'
  <1> USE DEF Base
  <1> DEFINE m == r.to
             p == r.from
             d == IF p[1] \in Members(m) THEN Replaced(m, r.doc) ELSE list[m]
  <1>1. /\ r.kind = "members" /\ net' = net \ {r}
        /\ list' = [list EXCEPT ![m] = d]
        /\ saved' = IF d # list[m] THEN [saved EXCEPT ![m] = d] ELSE saved
        /\ minted' = IF d = ClusterOfOne(m) THEN minted + 1 ELSE minted
        /\ job' = IF r.live THEN Pushed(job, p) ELSE job
        /\ UNCHANGED <<token, count, play>>
    BY DEF TakeList
  <1>2. m \in Box /\ p \in Proc /\ r.doc \in Doc
    BY <1>1 DEF TypeOK, Request, NetInv
  <1>3. d \in Doc \/ d = list[m]
    BY <1>2, ReplacedIsADoc DEF Members
  <1> HIDE DEF m, p, d
  <1>4. /\ list' \in [Box -> Doc \cup {NoCluster}] /\ saved' \in [Box -> Doc \cup {NoCluster}]
        /\ minted' \in Nat
        /\ \A b \in Box : list[b] # NoCluster => list'[b] # NoCluster
    BY <1>1, <1>2, <1>3, IdleIsAJob DEF TypeOK
  <1>5. CASE ~r.live
    <2>1. UNCHANGED job
      BY <1>1, <1>5
    <2>2. TypeOK'
      BY <1>1, <1>4, <2>1 DEF TypeOK
    <2>3. JobInv'
      BY <1>4, <2>1 DEF JobInv, Proc
    <2>4. NetInv' /\ AskInv'
      BY <1>1, <2>1 DEF NetInv, AskInv
    <2> QED BY <2>2, <2>3, <2>4
  <1>6. CASE r.live
    <2>1. job[p].at = "pushing" /\ job[p].doc \in Doc
      BY <1>1, <1>2, <1>6 DEF NetInv, Awaits, JobInv, p
    <2>2. \A x \in net' : /\ x.kind # "add-request" => x.doc \in Doc
                          /\ x.live => x \in net /\ x.from # p
      BY <1>1, <1>6 DEF NetInv, p
    <2>3. /\ job' \in [Proc -> Job]
          /\ \A q \in Proc \ {p} : job'[q] = job[q]
          /\ job'[p].at = "push" /\ job'[p].asker = job[p].asker /\ job'[p].doc = job[p].doc
      BY <1>1, <1>2, <1>6, PushedJobs
    <2>4. TypeOK'
      BY <1>1, <1>4, <2>3 DEF TypeOK
    <2>5. \A q \in Proc : job[q].asker # p
      BY <1>2, <2>1, NobodysAsker
    <2> QED BY <1>2, <1>4, <2>1, <2>2, <2>3, <2>4, <2>5, GoesOn
  <1> QED BY <1>5, <1>6

(* An add-request begins an edit, which its sender waits for if it waits    *)
(* still.                                                                  *)
LEMMA AddsOne ==
    ASSUME Base, TypeOK, NEW w \in Proc, NEW t \in Box, NEW a \in Proc \cup {NoJob},
           NEW others \in SUBSET Request, others \subseteq net,
           Adding(w, t, "token", a, others), job[w].at = "idle",
           UNCHANGED <<saved, token, count, play>>,
           \/ a = NoJob
           \/ /\ a \in Proc /\ job[a].at = "asking"
              /\ \A q \in Proc : job[q].asker # a
              /\ \A y \in others : y.live => y.from # a
    PROVE  Base'
  <1>1. Added(w, t, "token", a, others)
    BY AddingTypes
  <1>2. /\ list' \in [Box -> Doc \cup {NoCluster}]
        /\ \A b \in Box : list[b] # NoCluster => list'[b] = list[b]
        /\ list'[w[1]] \in Doc
        /\ minted' \in Nat
        /\ job' \in [Proc -> Job]
        /\ \A q \in Proc \ {w} : job'[q] = job[q]
        /\ job'[w].at = "joining" /\ job'[w].to = t /\ job'[w].asker = a
        /\ job'[w].doc = list'[w[1]]
    BY <1>1 DEF Added
  <1>3. PICK x \in Request :
             /\ net' = others \cup {x}
             /\ x.kind = "join" /\ x.from = w /\ x.to = t /\ x.live
             /\ x.auth = "token" /\ x.doc = list'[w[1]]
    BY <1>1 DEF Added
  <1>4. TypeOK'
    BY <1>2, <1>3 DEF TypeOK
  <1>5. others \in SUBSET net
    OBVIOUS
  <1> QED BY <1>2, <1>3, <1>4, <1>5, IdleIsAJob, SendsOne DEF Awaits

LEMMA AddRequestBase ==
    ASSUME Base, NEW r \in net, AddRequest(r)
    PROVE  Base'
  <1> USE DEF Base
  <1> DEFINE m == r.to
             w == <<m, "web">>
             p == r.from
             a == IF r.live THEN p ELSE NoJob
  <1>1. /\ r.kind = "add-request" /\ job[w].at = "idle" /\ UNCHANGED <<saved, token, count, play>>
        /\ IF p[1] \in Members(m)
           THEN /\ job' = IF r.live THEN Answer(job, p, FALSE) ELSE job
                /\ net' = net \ {r}
                /\ UNCHANGED <<list, minted>>
           ELSE Adding(w, p[1], "token", a, net \ {r})
    BY DEF AddRequest, Free, At
  <1>2. m \in Box /\ p \in Proc /\ w \in Proc /\ p[1] \in Box
    BY DEF TypeOK, Request, Proc
  <1>3. r.live => job[p].at = "asking" /\ \A q \in Proc : job[q].asker # p
    <2>1. r.live => job[p].at = "asking"
      BY <1>1 DEF NetInv, Awaits
    <2>2. r.live => \A q \in Proc : job[q].asker # p
      BY <1>2, IdleIsAJob DEF AskInv
    <2> QED BY <2>1, <2>2
  <1>4. \A x \in net \ {r} : /\ x.kind # "add-request" => x.doc \in Doc
                             /\ x.live /\ r.live => x.from # p
    BY DEF NetInv
  <1> HIDE DEF m, p, a, w
  <1>5. CASE p[1] \in Members(m)
    <2>1. net' = net \ {r} /\ UNCHANGED <<list, minted, saved, token, count, play>>
      BY <1>1, <1>5
    <2>2. CASE ~r.live
      <3>1. UNCHANGED job
        BY <1>1, <1>5, <2>2
      <3>2. TypeOK'
        BY <2>1, <3>1 DEF TypeOK
      <3>3. JobInv' /\ NetInv' /\ AskInv'
        BY <2>1, <3>1 DEF JobInv, NetInv, AskInv
      <3> QED BY <3>2, <3>3
    <2>3. CASE r.live
      <3>1. job' = Answer(job, p, FALSE) /\ p # NoJob
        BY <1>1, <1>2, <1>5, <2>3, IdleIsAJob
      <3>2. /\ job' \in [Proc -> Job]
            /\ \A q \in Proc \ {p} : job'[q] = job[q]
            /\ job'[p].at \in {"idle", "save"} /\ job'[p].asker = NoJob
        <4>1. job \in [Proc -> Job] /\ p \in Proc \cup {NoJob} /\ FALSE \in BOOLEAN
          BY <1>2 DEF TypeOK
        <4>2. job[p].at = "asking"
          BY <1>3, <2>3
        <4> QED BY <3>1, <4>1, <4>2, AnswerJobs
      <3>3. TypeOK'
        BY <2>1, <3>2 DEF TypeOK
      <3>4. \A x \in net' : /\ x.kind # "add-request" => x.doc \in Doc
                            /\ x.live => x \in net /\ x.from # p
        BY <1>4, <2>1, <2>3
      <3> QED BY <1>2, <1>3, <2>1, <2>3, <3>2, <3>3, <3>4, GoesOn
    <2> QED BY <2>2, <2>3
  <1>6. CASE p[1] \notin Members(m)
    <2>1. Adding(w, p[1], "token", a, net \ {r})
      BY <1>1, <1>6
    <2> DEFINE others == net \ {r}
    <2>2. /\ a \in Proc \cup {NoJob} /\ others \in SUBSET Request /\ p[1] \in Box
          /\ "token" \in {"password", "token"}
      BY <1>2 DEF TypeOK, a
    <2> HIDE DEF others
    <2>3. Adding(w, p[1], "token", a, others)
      BY <2>1 DEF others
    <2>4. \/ a = NoJob
          \/ /\ a \in Proc /\ job[a].at = "asking"
             /\ \A q \in Proc : job[q].asker # a
             /\ \A y \in others : y.live => y.from # a
      BY <1>2, <1>3, <1>4 DEF a, others
    <2>5. others \subseteq net
      BY DEF others
    <2> QED BY <1>1, <1>2, <2>2, <2>4, <2>5, <2>3, AddsOne
  <1> QED BY <1>5, <1>6

(* Who runs on a box, what waits for it, and who waits for either.         *)
Mine(b)  == {p \in Proc : p[1] = b}
Gone(b)  == {r \in net : r.to = b}
Dropped(b) == {r.from : r \in {x \in Gone(b) : x.live}}
                  \cup ({job[p].asker : p \in Mine(b)} \ {NoJob})

(* A power cut: who ran on the box or waited for it stops or gets on, and  *)
(* everybody else is where it was, but that its asker may be gone.         *)
LEMMA CrashJobs ==
    ASSUME Base, NEW b \in Box, Crash(b)
    PROVE  /\ job' \in [Proc -> Job]
           /\ \A p \in Proc :
                \/ job'[p].at = "idle" /\ job'[p].asker = NoJob
                \/ /\ p \notin Mine(b) /\ job'[p].doc = job[p].doc
                   /\ job'[p].asker = IF job[p].asker \in Mine(b) THEN NoJob ELSE job[p].asker
                   /\ \/ p \notin Dropped(b) /\ job'[p].at = job[p].at /\ job'[p].to = job[p].to
                      \/ p \in Dropped(b) /\ job[p].at = "pushing" /\ job'[p].at = "push"
           /\ \A p \in Proc : p \notin Mine(b) /\ p \notin Dropped(b) =>
                /\ job'[p].at = job[p].at /\ job'[p].to = job[p].to /\ job'[p].doc = job[p].doc
  <1> USE DEF Base
  <1> DEFINE J(p) == IF job[p].asker \in Mine(b) THEN [job[p] EXCEPT !.asker = NoJob] ELSE job[p]
  <1>1. job' = [p \in Proc |->
                  IF p \in Mine(b) THEN Idle
                  ELSE IF p \notin Dropped(b) THEN J(p)
                  ELSE IF J(p).at = "pushing" THEN [J(p) EXCEPT !.at = "push", !.todo = @ \ {b}]
                  ELSE Idle]
    BY DEF Crash, Mine, Gone, Dropped
  <1>2. ASSUME NEW p \in Proc
        PROVE  /\ J(p) \in Job /\ J(p).at = job[p].at /\ J(p).to = job[p].to
               /\ J(p).doc = job[p].doc
               /\ J(p).asker = IF job[p].asker \in Mine(b) THEN NoJob ELSE job[p].asker
    BY DEF TypeOK, Job
  <1> HIDE DEF J
  <1>3. ASSUME NEW p \in Proc
        PROVE  /\ [J(p) EXCEPT !.at = "push", !.todo = @ \ {b}] \in Job
               /\ [J(p) EXCEPT !.at = "push", !.todo = @ \ {b}].at = "push"
               /\ [J(p) EXCEPT !.at = "push", !.todo = @ \ {b}].asker = J(p).asker
               /\ [J(p) EXCEPT !.at = "push", !.todo = @ \ {b}].doc = J(p).doc
    BY <1>2 DEF Job
  <1>4. Idle \in Job /\ Idle.at = "idle" /\ Idle.asker = NoJob
    BY IdleIsAJob DEF Idle
  <1>5. ASSUME NEW p \in Proc
        PROVE  /\ job'[p] \in Job
               /\ \/ job'[p] = Idle /\ (p \in Mine(b) \/ p \in Dropped(b))
                  \/ p \notin Mine(b) /\ p \notin Dropped(b) /\ job'[p] = J(p)
                  \/ /\ p \notin Mine(b) /\ p \in Dropped(b) /\ J(p).at = "pushing"
                     /\ job'[p] = [J(p) EXCEPT !.at = "push", !.todo = @ \ {b}]
    <2>1. CASE p \in Mine(b)
      BY <1>1, <1>4, <2>1
    <2>2. CASE p \notin Mine(b) /\ p \notin Dropped(b)
      BY <1>1, <1>2, <2>2
    <2>3. CASE p \notin Mine(b) /\ p \in Dropped(b) /\ J(p).at = "pushing"
      BY <1>1, <1>3, <2>3
    <2>4. CASE p \notin Mine(b) /\ p \in Dropped(b) /\ J(p).at # "pushing"
      BY <1>1, <1>4, <2>4
    <2> QED BY <2>1, <2>2, <2>3, <2>4
  <1>6. job' \in [Proc -> Job]
    BY <1>1, <1>5
  <1>7. ASSUME NEW p \in Proc
        PROVE  \/ job'[p].at = "idle" /\ job'[p].asker = NoJob
               \/ /\ p \notin Mine(b) /\ job'[p].doc = job[p].doc
                  /\ job'[p].asker = IF job[p].asker \in Mine(b) THEN NoJob ELSE job[p].asker
                  /\ \/ p \notin Dropped(b) /\ job'[p].at = job[p].at /\ job'[p].to = job[p].to
                     \/ p \in Dropped(b) /\ job[p].at = "pushing" /\ job'[p].at = "push"
    <2>1. CASE job'[p] = Idle
      BY <1>4, <2>1
    <2>2. CASE p \notin Mine(b) /\ p \notin Dropped(b) /\ job'[p] = J(p)
      BY <1>2, <2>2
    <2>3. CASE /\ p \notin Mine(b) /\ p \in Dropped(b) /\ J(p).at = "pushing"
               /\ job'[p] = [J(p) EXCEPT !.at = "push", !.todo = @ \ {b}]
      BY <1>2, <1>3, <2>3
    <2> QED BY <1>5, <2>1, <2>2, <2>3
  <1>8. ASSUME NEW p \in Proc, p \notin Mine(b), p \notin Dropped(b)
        PROVE  job'[p].at = job[p].at /\ job'[p].to = job[p].to /\ job'[p].doc = job[p].doc
    BY <1>2, <1>5, <1>8
  <1> QED BY <1>6, <1>7, <1>8

LEMMA CrashBase ==
    ASSUME Base, NEW b \in Box, Crash(b)
    PROVE  Base'
  <1> USE DEF Base
  <1>1. /\ count' \in [edit: Nat, timeout: Nat, crash: Nat] /\ play' \in Play
        /\ list' = [list EXCEPT ![b] = saved[b]]
        /\ token' = [token EXCEPT ![b] = FALSE]
        /\ net' = {IF r.from[1] = b THEN [r EXCEPT !.live = FALSE] ELSE r : r \in net \ Gone(b)}
        /\ UNCHANGED <<saved, minted>>
    BY TallyType DEF Crash, Gone
  <1>2. /\ job' \in [Proc -> Job]
        /\ \A p \in Proc :
             \/ job'[p].at = "idle" /\ job'[p].asker = NoJob
             \/ /\ p \notin Mine(b) /\ job'[p].doc = job[p].doc
                /\ job'[p].asker = IF job[p].asker \in Mine(b) THEN NoJob ELSE job[p].asker
                /\ \/ p \notin Dropped(b) /\ job'[p].at = job[p].at /\ job'[p].to = job[p].to
                   \/ p \in Dropped(b) /\ job[p].at = "pushing" /\ job'[p].at = "push"
        /\ \A p \in Proc : p \notin Mine(b) /\ p \notin Dropped(b) =>
             /\ job'[p].at = job[p].at /\ job'[p].to = job[p].to /\ job'[p].doc = job[p].doc
    BY CrashJobs
  <1>3. \A p \in Proc : p \notin Mine(b) => p[1] \in Box \ {b}
    BY DEF Proc, Mine
  <1>4. \A p \in Proc : p \in Dropped(b) =>
            \/ \E y \in net : y.live /\ y.to = b /\ y.from = p
            \/ \E q \in Mine(b) : job[q].asker = p
    BY DEF Dropped, Gone
  <1>5. ASSUME NEW r \in net'
        PROVE  /\ r \in Request
               /\ r.kind # "add-request" => r.doc \in Doc
               /\ r.live => r \in net /\ r.to # b /\ r.from \in Proc \ Mine(b)
    <2>1. PICK x \in net \ Gone(b) : r = IF x.from[1] = b THEN [x EXCEPT !.live = FALSE] ELSE x
      BY <1>1
    <2>2. x \in Request /\ (x.kind # "add-request" => x.doc \in Doc) /\ x.to # b
      BY DEF TypeOK, NetInv, Gone
    <2>3. CASE x.from[1] = b
      <3>1. r \in Request /\ r.kind = x.kind /\ r.doc = x.doc /\ ~r.live
        BY <2>1, <2>2, <2>3 DEF Request
      <3> QED BY <2>2, <3>1
    <2>4. CASE x.from[1] # b
      <3>1. r = x /\ x.from \in Proc
        BY <2>1, <2>2, <2>4 DEF Request
      <3> QED BY <2>2, <2>4, <3>1 DEF Mine
    <2> QED BY <2>3, <2>4
  <1>6. \A p \in Mine(b) : p \in Proc
    BY DEF Mine
  <1>7. TypeOK'
    <2>1. list' \in [Box -> Doc \cup {NoCluster}] /\ token' \in [Box -> BOOLEAN]
      BY <1>1 DEF TypeOK
    <2>2. net' \subseteq Request
      BY <1>5
    <2> QED BY <1>1, <1>2, <2>1, <2>2 DEF TypeOK
  <1>8. JobInv'
    <2> SUFFICES ASSUME NEW p \in Proc
                 PROVE  /\ job'[p].at \in {"joining", "joined"} =>
                               list'[p[1]] # NoCluster /\ job'[p].to \in Box
                        /\ job'[p].at \in {"write", "push", "pushing"} => job'[p].doc \in Doc
      BY DEF JobInv
    <2>1. CASE job'[p].at = "idle"
      BY <2>1
    <2>2. CASE p \notin Mine(b) /\ job'[p].at = job[p].at /\ job'[p].to = job[p].to
               /\ job'[p].doc = job[p].doc
      <3>1. list'[p[1]] = list[p[1]]
        BY <1>1, <1>3, <2>2 DEF TypeOK
      <3> QED BY <2>2, <3>1 DEF JobInv
    <2>3. CASE job[p].at = "pushing" /\ job'[p].at = "push" /\ job'[p].doc = job[p].doc
      BY <2>3 DEF JobInv
    <2> QED BY <1>2, <2>1, <2>2, <2>3
  <1>9. \A r \in net' : r.live => r.from \notin Dropped(b)
    <2> SUFFICES ASSUME NEW r \in net', r.live, r.from \in Dropped(b)
                 PROVE  FALSE
      OBVIOUS
    <2>1. r \in net /\ r.to # b /\ r.from \in Proc
      BY <1>5
    <2>2. ~\E y \in net : y.live /\ y.to = b /\ y.from = r.from
      BY <2>1 DEF NetInv
    <2>3. ~\E q \in Mine(b) : job[q].asker = r.from
      BY <1>6, <2>1, IdleIsAJob DEF AskInv
    <2> QED BY <1>4, <2>1, <2>2, <2>3
  <1>10. NetInv'
    <2>1. \A r \in net' : r.live =>
              job'[r.from].at = job[r.from].at /\ job'[r.from].to = job[r.from].to
      BY <1>2, <1>5, <1>9
    <2> QED BY <1>5, <2>1 DEF NetInv
  <1>11. AskInv'
    <2>1. ASSUME NEW p \in Proc, job'[p].asker # NoJob
          PROVE  /\ job'[p].asker = job[p].asker /\ job[p].asker \in Proc /\ job[p].asker \notin Mine(b)
                 /\ p \notin Mine(b)
      BY <1>2, <2>1 DEF TypeOK, Job
    <2>2. ASSUME NEW p \in Proc, job'[p].asker # NoJob
          PROVE  job'[job[p].asker].at = "asking"
      <3> DEFINE a == job[p].asker
      <3>1. job[a].at = "asking" /\ a \in Proc /\ a \notin Mine(b) /\ a # NoJob
        BY <2>1, <2>2 DEF AskInv
      <3>2. ~\E y \in net : y.live /\ y.to = b /\ y.from = a
        BY <3>1 DEF AskInv
      <3>3. ~\E q \in Mine(b) : job[q].asker = a
        BY <1>6, <2>1, <2>2, <3>1 DEF AskInv
      <3>4. a \notin Dropped(b)
        BY <1>4, <3>1, <3>2, <3>3
      <3> QED BY <1>2, <3>1, <3>4
    <2>3. ASSUME NEW p \in Proc, job'[p].asker # NoJob, NEW r \in net', r.live
          PROVE  r.from # job[p].asker
      BY <1>5, <2>1, <2>3 DEF AskInv
    <2>4. ASSUME NEW p \in Proc, NEW q \in Proc, job'[p].asker # NoJob, job'[p].asker = job'[q].asker
          PROVE  p = q
      BY <2>1, <2>4 DEF AskInv
    <2> QED BY <2>1, <2>2, <2>3, <2>4 DEF AskInv
  <1> QED BY <1>7, <1>8, <1>10, <1>11

LEMMA InitBase == Init => Base
  <1> SUFFICES ASSUME Init
               PROVE  Base
    OBVIOUS
  <1>1. TypeOK
    <2>1. [id |-> 0, members |-> Cluster0] \in Doc
      BY ClusterAssumption DEF Doc
    <2> QED BY <2>1, IdleIsAJob DEF Init, TypeOK
  <1>2. \A p \in Proc : job[p].at = "idle" /\ job[p].asker = NoJob
    BY DEF Init, Idle
  <1>3. JobInv /\ AskInv
    BY <1>2 DEF JobInv, AskInv
  <1>4. NetInv
    BY DEF Init, NetInv
  <1> QED BY <1>1, <1>3, <1>4 DEF Base

LEMMA StutterBase ==
    ASSUME Base, UNCHANGED vars
    PROVE  Base'
  <1> USE DEF Base, vars
  <1>1. TypeOK'
    BY DEF TypeOK
  <1>2. JobInv' /\ AskInv'
    BY DEF JobInv, AskInv
  <1>3. NetInv'
    BY DEF NetInv
  <1> QED BY <1>1, <1>2, <1>3

LEMMA StepBase ==
    ASSUME Base, [Next]_vars
    PROVE  Base'
  <1>1. ASSUME NEW p \in Proc, Edit(p)
        PROVE  Base'
    BY <1>1, StartAddBase, StartRemoveBase, StartSyncBase, StartJoinBase, StartInitBase,
       ReconcileBase DEF Edit
  <1>2. ASSUME NEW p \in Proc, Step(p)
        PROVE  Base'
    BY <1>2, AddMemberBase, WriteListBase, PushBase, PushEndsBase, SaveBase DEF Step
  <1>3. ASSUME NEW p \in Proc, Timeout(p)
        PROVE  Base'
    BY <1>3, TimeoutBase
  <1>4. ASSUME NEW b \in Box, Serve(b)
        PROVE  Base'
    BY <1>4, JoinBase, TakeListBase, AddRequestBase DEF Serve
  <1>5. ASSUME NEW b \in Box, Crash(b)
        PROVE  Base'
    BY <1>5, CrashBase
  <1>6. CASE UNCHANGED vars
    BY <1>6, StutterBase
  <1> QED BY <1>1, <1>2, <1>3, <1>4, <1>5, <1>6 DEF Next

(* Every variable keeps its shape: in particular no edit puts a member in a  *)
(* list that is not there, and no push goes out with no list, which is what  *)
(* the handlers assume after a minute's wait for a lock.                     *)
THEOREM TypeCorrect == Spec => []TypeOK
  <1>1. Base /\ [Next]_vars => Base'
    BY StepBase
  <1>2. Base => TypeOK
    BY DEF Base
  <1> QED BY InitBase, <1>1, <1>2, PTL DEF Spec

LEMMA BaseHolds == Spec => []Base
  <1>1. Base /\ [Next]_vars => Base'
    BY StepBase
  <1> QED BY InitBase, <1>1, PTL DEF Spec

-----------------------------------------------------------------------------
(* What a step may do to a list. It stays, or comes back from the media, or  *)
(* is a new cluster of one; somebody writes what it made of the list it      *)
(* read; a push is taken, under the same id; or its box joins a cluster,     *)
(* which one in a cluster with others does not.                              *)
ListMoves(b) ==
    \/ list'[b] = list[b]
    \/ list'[b] = saved[b] /\ count'.crash # count.crash
    \/ list'[b] = ClusterOfOne(b)
    \/ \E p \in Proc : p[1] = b /\ At(p, "write") /\ list'[b] = job[p].doc
    \/ /\ list[b] # NoCluster /\ list'[b] # NoCluster
       /\ list'[b].id = list[b].id
       /\ b \in list[b].members => b \in list'[b].members
    \/ /\ list'[b] # NoCluster /\ b \in list'[b].members
       /\ list[b] = NoCluster \/ list'[b].id = list[b].id \/ ~(Cardinality(list[b].members) > 1)

LEMMA AddingMoves ==
    ASSUME TypeOK, NEW p \in Proc, NEW t, NEW auth, NEW asker, NEW others,
           Adding(p, t, auth, asker, others), saved' = saved, NEW b \in Box
    PROVE  ListMoves(b) /\ saved'[b] \in {saved[b], list'[b]}
  BY DEF Adding, ListMoves, TypeOK, Proc

LEMMA EditMoves ==
    ASSUME Base, NEW p \in Proc, Edit(p), NEW b \in Box
    PROVE  ListMoves(b) /\ saved'[b] \in {saved[b], list'[b]}
  <1> USE DEF Base
  <1>1. p[1] \in Box
    BY DEF Proc
  <1>2. CASE StartAdd(p)
    BY <1>2, AddingMoves DEF StartAdd
  <1>3. CASE StartRemove(p) \/ Reconcile(p)
    BY <1>3 DEF StartRemove, Reconcile, ListMoves
  <1>4. CASE StartSync(p)
    BY <1>4 DEF StartSync, ListMoves
  <1>5. CASE StartJoin(p)
    BY <1>5 DEF StartJoin, ListMoves
  <1>6. CASE StartInit(p)
    BY <1>1, <1>6 DEF StartInit, ListMoves, TypeOK
  <1> QED BY <1>2, <1>3, <1>4, <1>5, <1>6 DEF Edit

LEMMA ProcMoves ==
    ASSUME Base, NEW p \in Proc, Step(p) \/ Timeout(p), NEW b \in Box
    PROVE  ListMoves(b) /\ saved'[b] \in {saved[b], list'[b]}
  <1> USE DEF Base
  <1>1. p[1] \in Box
    BY DEF Proc
  <1>2. CASE AddMember(p) \/ WriteList(p)
    BY <1>1, <1>2 DEF AddMember, WriteList, ListMoves, TypeOK
  <1>3. CASE Push(p)
    BY <1>3 DEF Push, ListMoves
  <1>4. CASE PushEnds(p)
    BY <1>4 DEF PushEnds, ListMoves
  <1>5. CASE Save(p)
    BY <1>1, <1>5 DEF Save, ListMoves, TypeOK
  <1>6. CASE Timeout(p)
    BY <1>6 DEF Timeout, ListMoves
  <1> QED BY <1>2, <1>3, <1>4, <1>5, <1>6 DEF Step

LEMMA JoinMoves ==
    ASSUME Base, NEW r \in net, Join(r), NEW b \in Box
    PROVE  ListMoves(b) /\ saved'[b] \in {saved[b], list'[b]}
  <1> USE DEF Base
  <1> DEFINE t == r.to
             joined == Joined(t, r.doc)
             ok == (r.auth = "password" \/ token[t]) /\ ~Refuses(t, r.doc)
  <1>1. /\ r.kind = "join"
        /\ list' = IF ok THEN [list EXCEPT ![t] = joined] ELSE list
        /\ saved' = IF ok THEN [saved EXCEPT ![t] = joined] ELSE saved
    BY DEF Join
  <1>2. t \in Box /\ r.doc \in Doc
    BY <1>1 DEF TypeOK, Request, NetInv
  <1>3. joined \in Doc /\ joined.id = r.doc.id /\ t \in joined.members
    BY <1>2 DEF Joined, Doc
  <1>4. ok => list[t] = NoCluster \/ r.doc.id = list[t].id \/ ~(Cardinality(list[t].members) > 1)
    BY DEF Refuses
  <1> HIDE DEF t, joined, ok
  <1>5. CASE ok /\ b = t
    BY <1>1, <1>2, <1>3, <1>4, <1>5, IdleIsAJob DEF ListMoves, TypeOK
  <1>6. CASE ~(ok /\ b = t)
    BY <1>1, <1>2, <1>6 DEF ListMoves, TypeOK
  <1> QED BY <1>5, <1>6

LEMMA TakeListMoves ==
    ASSUME Base, NEW r \in net, TakeList(r), NEW b \in Box
    PROVE  ListMoves(b) /\ saved'[b] \in {saved[b], list'[b]}
  <1> USE DEF Base
  <1> DEFINE m == r.to
             d == IF r.from[1] \in Members(m) THEN Replaced(m, r.doc) ELSE list[m]
  <1>1. /\ r.kind = "members"
        /\ list' = [list EXCEPT ![m] = d]
        /\ saved' = IF d # list[m] THEN [saved EXCEPT ![m] = d] ELSE saved
    BY DEF TakeList
  <1>2. m \in Box /\ r.doc \in Doc
    BY <1>1 DEF TypeOK, Request, NetInv
  <1>3. \/ d = list[m]
        \/ d = ClusterOfOne(m)
        \/ /\ list[m] # NoCluster /\ d = r.doc /\ d.id = list[m].id /\ m \in d.members
    BY DEF Replaced, Members
  <1> HIDE DEF m, d
  <1>4. CASE b = m
    BY <1>1, <1>2, <1>3, <1>4, IdleIsAJob DEF ListMoves, TypeOK
  <1>5. CASE b # m
    BY <1>1, <1>2, <1>5 DEF ListMoves, TypeOK
  <1> QED BY <1>4, <1>5

LEMMA AddRequestMoves ==
    ASSUME Base, NEW r \in net, AddRequest(r), NEW b \in Box
    PROVE  ListMoves(b) /\ saved'[b] \in {saved[b], list'[b]}
  <1> USE DEF Base
  <1>1. saved' = saved /\ <<r.to, "web">> \in Proc
    BY DEF AddRequest, TypeOK, Request, Proc
  <1>2. CASE r.from[1] \in Members(r.to)
    BY <1>2 DEF AddRequest, ListMoves
  <1>3. CASE r.from[1] \notin Members(r.to)
    <2>1. Adding(<<r.to, "web">>, r.from[1], "token", IF r.live THEN r.from ELSE NoJob, net \ {r})
      BY <1>3 DEF AddRequest
    <2> QED BY <1>1, <2>1, AddingMoves
  <1> QED BY <1>2, <1>3

LEMMA CrashMoves ==
    ASSUME Base, NEW c \in Box, Crash(c), NEW b \in Box
    PROVE  ListMoves(b) /\ saved'[b] \in {saved[b], list'[b]}
  <1>1. /\ list' = [list EXCEPT ![c] = saved[c]] /\ saved' = saved
        /\ count' = [count EXCEPT !.crash = @ + 1]
    BY DEF Crash, Tally
  <1>2. count'.crash # count.crash
    BY <1>1 DEF Base, TypeOK
  <1> QED BY <1>1, <1>2 DEF Base, TypeOK, ListMoves

LEMMA StepMoves ==
    ASSUME Base, [Next]_vars, NEW b \in Box
    PROVE  ListMoves(b) /\ saved'[b] \in {saved[b], list'[b]}
  <1>1. ASSUME NEW p \in Proc, Edit(p) \/ Step(p) \/ Timeout(p)
        PROVE  ListMoves(b) /\ saved'[b] \in {saved[b], list'[b]}
    BY <1>1, EditMoves, ProcMoves
  <1>2. ASSUME NEW c \in Box, Serve(c) \/ Crash(c)
        PROVE  ListMoves(b) /\ saved'[b] \in {saved[b], list'[b]}
    BY <1>2, JoinMoves, TakeListMoves, AddRequestMoves, CrashMoves DEF Serve
  <1>3. CASE UNCHANGED vars
    BY <1>3 DEF vars, ListMoves
  <1> QED BY <1>1, <1>2, <1>3 DEF Next

(* What a step may do to a process: one that nobody edits with stays idle,   *)
(* and one that is about to write was, or has just read the list.            *)
JobMoves(q) ==
    /\ job[q].at = "idle" /\ q[2] # "web" /\ q \notin play.editor => job'[q].at = "idle"
    /\ job'[q].at = "write" =>
          \/ job[q].at = "write" /\ job'[q].doc = job[q].doc
          \/ /\ list' = list /\ list[q[1]] # NoCluster
             /\ job'[q].doc.id = list[q[1]].id
             /\ q[1] \in list[q[1]].members => q[1] \in job'[q].doc.members

LEMMA EditJobs ==
    ASSUME Base, NEW p \in Proc, Edit(p), NEW q \in Proc
    PROVE  JobMoves(q)
  <1> USE DEF Base
  <1>1. CASE StartAdd(p)
    <2>1. \A x \in Proc : job'[x] = job[x] \/ (x = p /\ job'[x].at = "joining")
      BY <1>1 DEF StartAdd, Adding, TypeOK, Idle
    <2> QED BY <1>1, <2>1 DEF JobMoves, StartAdd, StartEdit
  <1>2. CASE StartRemove(p)
    <2>1. PICK t \in Members(p[1]) \ {p[1]} :
            job' = [job EXCEPT ![p] = [Idle EXCEPT !.at = "write", !.to = t,
                                       !.doc = [list[p[1]] EXCEPT !.members = @ \ {t}]]]
      BY <1>2 DEF StartRemove
    <2>2. list[p[1]] \in Doc /\ p \in play.editor /\ list' = list
      BY <1>2, <2>1, ListTypes DEF Members, Proc, StartRemove, StartEdit
    <2>3. \A x \in Proc : x # p => job'[x] = job[x]
      BY <2>1 DEF TypeOK
    <2>4. job'[p].doc = [list[p[1]] EXCEPT !.members = @ \ {t}]
      BY <2>1 DEF TypeOK, Idle
    <2>5. job'[p].doc.id = list[p[1]].id /\ job'[p].doc.members = list[p[1]].members \ {t}
      BY <2>2, <2>4 DEF Doc
    <2> QED BY <2>1, <2>2, <2>3, <2>5, IdleIsAJob DEF JobMoves
  <1>3. CASE StartSync(p)
    <2>1. \A x \in Proc : job'[x] = job[x] \/ (x = p /\ job'[x].at = "push")
      BY <1>3 DEF StartSync, TypeOK, Idle
    <2> QED BY <1>3, <2>1 DEF JobMoves, StartSync, StartEdit
  <1>4. CASE StartJoin(p)
    <2>1. \A x \in Proc : job'[x] = job[x] \/ (x = p /\ job'[x].at = "asking")
      BY <1>4 DEF StartJoin, TypeOK, Idle
    <2> QED BY <1>4, <2>1 DEF JobMoves, StartJoin, StartEdit
  <1>5. CASE StartInit(p)
    <2>1. \A x \in Proc : job'[x] = job[x] \/ (x = p /\ job'[x].at = "save")
      BY <1>5 DEF StartInit, TypeOK, Idle
    <2> QED BY <1>5, <2>1 DEF JobMoves, StartInit, StartEdit
  <1>6. CASE Reconcile(p)
    <2>1. /\ job' = [job EXCEPT ![p] = [Idle EXCEPT !.at = "write",
                         !.doc = [list[p[1]] EXCEPT !.members = @ \ Elsewhere(p[1])]]]
          /\ p \in play.editor /\ list' = list
      BY <1>6 DEF Reconcile
    <2>2. list[p[1]] \in Doc /\ p[1] \notin Elsewhere(p[1])
      BY <1>6, ListTypes DEF Reconcile, Elsewhere, Members, Proc
    <2>3. \A x \in Proc : x # p => job'[x] = job[x]
      BY <2>1 DEF TypeOK
    <2>4. job'[p].doc = [list[p[1]] EXCEPT !.members = @ \ Elsewhere(p[1])]
      BY <2>1 DEF TypeOK, Idle
    <2>5. /\ job'[p].doc.id = list[p[1]].id
          /\ job'[p].doc.members = list[p[1]].members \ Elsewhere(p[1])
      BY <2>2, <2>4 DEF Doc
    <2> QED BY <2>1, <2>2, <2>3, <2>5, IdleIsAJob DEF JobMoves
  <1> QED BY <1>1, <1>2, <1>3, <1>4, <1>5, <1>6 DEF Edit

LEMMA EndMoves ==
    ASSUME Base, NEW p \in Proc, NEW ok \in BOOLEAN, End(p, ok), NEW q \in Proc
    PROVE  JobMoves(q)
  <1>1. job'[p] = Idle /\ Idle.at = "idle"
    BY EndingJobs DEF Base, Idle
  <1>2. q # p => \/ job'[q] = job[q]
                 \/ job[q].at = "asking" /\ job'[q].at \in {"idle", "save"}
    BY EndingJobs DEF Base
  <1> QED BY <1>1, <1>2 DEF JobMoves

LEMMA StepJobs ==
    ASSUME Base, NEW p \in Proc, Step(p) \/ Timeout(p), NEW q \in Proc
    PROVE  JobMoves(q)
  <1> USE DEF Base
  <1>1. CASE AddMember(p)
    <2>1. /\ job[p].at = "joined" /\ list[p[1]] \in Doc /\ list' = list
          /\ job' = [job EXCEPT ![p].at = "write",
                         ![p].doc = [list[p[1]] EXCEPT !.members = @ \cup {job[p].to}]]
      BY <1>1, ListTypes DEF AddMember, At, JobInv, Proc
    <2>2. \A x \in Proc : x # p => job'[x] = job[x]
      BY <2>1 DEF TypeOK
    <2>3. job'[p].doc = [list[p[1]] EXCEPT !.members = @ \cup {job[p].to}]
      BY <2>1 DEF TypeOK, Job
    <2>4. /\ job'[p].doc.id = list[p[1]].id
          /\ job'[p].doc.members = list[p[1]].members \cup {job[p].to}
      BY <2>1, <2>3 DEF Doc
    <2> QED BY <2>1, <2>2, <2>4, IdleIsAJob DEF JobMoves
  <1>2. CASE WriteList(p)
    <2>1. job[p].at = "write" /\ job'[p].at \in {"save", "push"}
      BY <1>2 DEF WriteList, At, TypeOK, Job
    <2>2. \A x \in Proc : x # p => job'[x] = job[x]
      BY <1>2 DEF WriteList, TypeOK
    <2> QED BY <2>1, <2>2 DEF JobMoves
  <1>3. CASE Push(p)
    <2>1. PICK m \in job[p].todo :
            \/ job' = [job EXCEPT ![p].at = "pushing", ![p].to = m]
            \/ job' = [job EXCEPT ![p].todo = @ \ {m}]
      BY <1>3 DEF Push
    <2>2. job[p].at = "push" /\ job[p] \in Job
      BY <1>3 DEF Push, At, TypeOK
    <2>3. CASE job' = [job EXCEPT ![p].at = "pushing", ![p].to = m]
      <3>1. job'[p].at = "pushing" /\ \A x \in Proc : x # p => job'[x] = job[x]
        BY <2>2, <2>3 DEF TypeOK, Job
      <3> QED BY <2>2, <3>1 DEF JobMoves
    <2>4. CASE job' = [job EXCEPT ![p].todo = @ \ {m}]
      <3>1. job'[p].at = "push" /\ \A x \in Proc : x # p => job'[x] = job[x]
        BY <2>2, <2>4 DEF TypeOK, Job
      <3> QED BY <2>2, <3>1 DEF JobMoves
    <2> QED BY <2>1, <2>3, <2>4
  <1>4. CASE PushEnds(p)
    <2>1. CASE Set(p, "save")
      <3>1. job'[p].at = "save" /\ job[p].at = "push" /\ \A x \in Proc \ {p} : job'[x] = job[x]
        BY <1>4, <2>1, SetJobs DEF PushEnds, At
      <3> QED BY <3>1 DEF JobMoves
    <2> QED BY <1>4, <2>1, EndMoves DEF PushEnds
  <1>5. CASE Save(p)
    BY <1>5, EndMoves DEF Save
  <1>6. CASE Timeout(p)
    <2>1. CASE job[p].at = "pushing"
      <3>1. job' = Pushed(job, p)
        BY <1>6, <2>1 DEF Timeout, GivesUp, At
      <3>2. job'[p].at = "push" /\ \A x \in Proc \ {p} : job'[x] = job[x]
        BY <3>1, PushedJobs
      <3> QED BY <2>1, <3>2 DEF JobMoves
    <2>2. CASE job[p].at = "joining"
      BY <1>6, <2>2, EndMoves DEF Timeout, GivesUp, At
    <2>3. CASE job[p].at = "asking"
      <3>1. GivesUp(p)
        BY <1>6 DEF Timeout
      <3>2. /\ job'[p] = Idle
            /\ \A x \in Proc \ {p} : \/ job'[x] = [job[x] EXCEPT !.asker = NoJob]
                                     \/ job'[x] = job[x]
        BY <2>3, <3>1, AskingGivesUp
      <3>3. job'[p].at = "idle"
        BY <3>2 DEF Idle
      <3>4. \A x \in Proc \ {p} : job'[x].at = job[x].at /\ job'[x].doc = job[x].doc
        BY <3>2 DEF TypeOK, Job
      <3> QED BY <3>3, <3>4 DEF JobMoves
    <2> QED BY <1>6, <2>1, <2>2, <2>3 DEF Timeout
  <1> QED BY <1>1, <1>2, <1>3, <1>4, <1>5, <1>6 DEF Step

LEMMA ServeJobs ==
    ASSUME Base, NEW b \in Box, Serve(b), NEW q \in Proc
    PROVE  JobMoves(q)
  <1> USE DEF Base
  <1>1. PICK r \in net : r.to = b /\ (Join(r) \/ TakeList(r) \/ AddRequest(r))
    BY DEF Serve
  <1>2. r.from \in Proc
    BY DEF TypeOK, Request
  <1>3. CASE Join(r)
    <2>1. CASE job' = job
      BY <2>1 DEF JobMoves
    <2>2. CASE Set(r.from, "joined") /\ r.live
      <3>1. job'[r.from].at = "joined" /\ \A x \in Proc \ {r.from} : job'[x] = job[x]
        BY <1>2, <2>2, SetJobs
      <3>2. job[r.from].at = "joining"
        BY <1>3, <2>2 DEF Join, NetInv, Awaits
      <3> QED BY <3>1, <3>2 DEF JobMoves
    <2>3. CASE End(r.from, FALSE)
      BY <1>2, <2>3, EndMoves
    <2> QED BY <1>3, <2>1, <2>2, <2>3 DEF Join
  <1>4. CASE TakeList(r)
    <2>1. CASE ~r.live
      BY <1>4, <2>1 DEF TakeList, JobMoves
    <2>2. CASE r.live
      <3>1. job' = Pushed(job, r.from) /\ job[r.from].at = "pushing"
        BY <1>4, <2>2 DEF TakeList, NetInv, Awaits
      <3>2. job'[r.from].at = "push" /\ \A x \in Proc \ {r.from} : job'[x] = job[x]
        BY <1>2, <3>1, PushedJobs
      <3> QED BY <3>1, <3>2 DEF JobMoves
    <2> QED BY <2>1, <2>2
  <1>5. CASE AddRequest(r)
    <2>1. CASE job' = job
      BY <2>1 DEF JobMoves
    <2>2. CASE job' = Answer(job, r.from, FALSE) /\ r.live
      <3>1. job[r.from].at = "asking"
        BY <1>5, <2>2 DEF AddRequest, NetInv, Awaits
      <3>2. /\ \A x \in Proc : x # r.from => job'[x] = job[x]
            /\ (r.from # NoJob /\ job[r.from].at = "asking") => job'[r.from].at \in {"idle", "save"}
        <4>1. job \in [Proc -> Job] /\ r.from \in Proc \cup {NoJob} /\ FALSE \in BOOLEAN
          BY <1>2 DEF TypeOK
        <4>2. \A x \in Proc : x # r.from => Answer(job, r.from, FALSE)[x] = job[x]
          BY <4>1, AnswerJobs
        <4>3. (r.from # NoJob /\ job[r.from].at = "asking") =>
                 Answer(job, r.from, FALSE)[r.from].at \in {"idle", "save"}
          BY <4>1, AnswerJobs
        <4> QED BY <2>2, <4>2, <4>3
      <3> QED BY <1>2, <3>1, <3>2, IdleIsAJob DEF JobMoves
    <2>3. CASE Adding(<<r.to, "web">>, r.from[1], "token", IF r.live THEN r.from ELSE NoJob, net \ {r})
      <3>1. \A x \in Proc : job'[x] = job[x] \/ (x = <<r.to, "web">> /\ job'[x].at = "joining")
        BY <2>3 DEF Adding, TypeOK, Idle
      <3> QED BY <3>1 DEF JobMoves
    <2> QED BY <1>5, <2>1, <2>2, <2>3 DEF AddRequest
  <1> QED BY <1>1, <1>3, <1>4, <1>5

LEMMA StepJobMoves ==
    ASSUME Base, [Next]_vars, NEW q \in Proc
    PROVE  JobMoves(q)
  <1>1. ASSUME NEW b \in Box, Crash(b)
        PROVE  JobMoves(q)
    <2>1. \/ job'[q].at = "idle"
          \/ job'[q].doc = job[q].doc /\ job'[q].at = job[q].at
          \/ job'[q].at = "push" /\ job[q].at = "pushing"
      BY <1>1, CrashJobs
    <2> QED BY <2>1 DEF JobMoves
  <1>2. CASE UNCHANGED vars
    BY <1>2 DEF vars, JobMoves
  <1> QED BY <1>1, <1>2, EditJobs, StepJobs, ServeJobs DEF Next

(* Nobody changes the bounds or the editors. *)
LEMMA PlayStays ==
    ASSUME [Next]_vars
    PROVE  play' = play
  <1>1. ASSUME NEW p \in Proc, Edit(p) \/ Step(p) \/ Timeout(p)
        PROVE  play' = play
    BY <1>1 DEF Edit, Step, StartAdd, StartRemove, StartSync, StartJoin, StartInit, StartEdit,
                Reconcile, AddMember, WriteList, Push, PushEnds, Save, Timeout, Tally
  <1>2. ASSUME NEW b \in Box, Serve(b) \/ Crash(b)
        PROVE  play' = play
    BY <1>2 DEF Serve, Join, TakeList, AddRequest, Crash, Tally
  <1> QED BY <1>1, <1>2 DEF Next, vars

LEMMA SelfStep ==
    ASSUME Base, SelfInv, [Next]_vars
    PROVE  SelfInv'
  <1>1. ASSUME NEW b \in Box
        PROVE  list'[b] # NoCluster => b \in list'[b].members
    <2>1. ListMoves(b)
      BY StepMoves
    <2>2. /\ list[b] # NoCluster => b \in list[b].members
          /\ saved[b] # NoCluster => b \in saved[b].members
          /\ \A p \in Proc : p[1] = b /\ At(p, "write") => b \in job[p].doc.members
      BY DEF SelfInv, SelfInList
    <2>3. ClusterOfOne(b).members = {b}
      BY DEF ClusterOfOne
    <2> QED BY <2>1, <2>2, <2>3 DEF ListMoves
  <1>2. ASSUME NEW b \in Box
        PROVE  saved'[b] # NoCluster => b \in saved'[b].members
    <2>1. saved'[b] \in {saved[b], list'[b]}
      BY StepMoves
    <2> QED BY <1>1, <2>1 DEF SelfInv
  <1>3. ASSUME NEW p \in Proc, job'[p].at = "write"
        PROVE  p[1] \in job'[p].doc.members
    <2>1. JobMoves(p) /\ p[1] \in Box
      BY StepJobMoves DEF Proc
    <2> QED BY <1>3, <2>1 DEF JobMoves, SelfInv, SelfInList, At
  <1> QED BY <1>1, <1>2, <1>3 DEF SelfInv, SelfInList, At

(* Where the listener alone writes the list, nobody else changes it between  *)
(* the read and the write of a POST: the others are idle, and requests wait  *)
(* for the lock.                                                             *)
LEMMA HeldList ==
    ASSUME Base, WriteInv, [Next]_vars, NEW q \in Proc, ListenerAlone(q[1]),
           job[q].at = "write", job'[q].at = "write"
    PROVE  list'[q[1]] = list[q[1]]
  <1> USE DEF Base
  <1> DEFINE b == q[1]
  <1>1. b \in Box /\ \A p \in Proc : p[1] = b => p \in {<<b, "web">>, <<b, "cli">>, <<b, "page">>}
    BY DEF Proc
  <1>2. \A p \in Proc : p[1] = b /\ p[2] # "web" => p \notin play.editor /\ ~At(p, "write")
    BY <1>1 DEF ListenerAlone, WriteInv, At
  <1>3. q = <<b, "web">> /\ ~Free(b)
    BY <1>1, <1>2 DEF At, Free
  <1>4. \A p \in Proc : p[1] = b /\ p # q => p \notin play.editor /\ ~At(p, "write")
    BY <1>1, <1>2, <1>3
  <1>5. ASSUME NEW p \in Proc, Edit(p)
        PROVE  list'[b] = list[b]
    <2>1. CASE StartAdd(p) \/ StartInit(p)
      <3>1. p # q /\ p \in play.editor
        BY <2>1 DEF StartAdd, StartInit, StartEdit, At
      <3>2. p[1] # b
        BY <1>4, <3>1
      <3>3. p[1] \in Box
        BY DEF Proc
      <3>4. CASE StartInit(p)
        BY <1>1, <3>2, <3>3, <3>4 DEF StartInit, TypeOK
      <3>5. CASE StartAdd(p)
        <4>1. PICK d : list' = [list EXCEPT ![p[1]] = d]
          BY <3>5 DEF StartAdd, Adding
        <4> QED BY <1>1, <3>2, <3>3, <4>1 DEF TypeOK
      <3> QED BY <2>1, <3>4, <3>5
    <2> QED BY <1>5, <2>1 DEF Edit, StartRemove, StartSync, StartJoin, Reconcile
  <1>6. ASSUME NEW p \in Proc, Step(p) \/ Timeout(p)
        PROVE  list'[b] = list[b]
    <2>1. CASE WriteList(p)
      <3>1. At(p, "write") /\ list' = [list EXCEPT ![p[1]] = job[p].doc]
        BY <2>1 DEF WriteList
      <3>2. p # q
        BY <2>1 DEF WriteList, TypeOK, Job
      <3> QED BY <1>1, <1>4, <3>1, <3>2 DEF TypeOK
    <2> QED BY <1>6, <2>1 DEF Step, AddMember, Push, PushEnds, Save, Timeout
  <1>7. ASSUME NEW c \in Box, Serve(c)
        PROVE  list'[b] = list[b]
    <2>1. PICK r \in net : r.to = c /\ (Join(r) \/ TakeList(r) \/ AddRequest(r))
      BY <1>7 DEF Serve
    <2>2. c # b
      BY <1>3, <2>1 DEF Join, TakeList, AddRequest
    <2>3. CASE Join(r)
      BY <2>1, <2>2, <2>3 DEF Join, TypeOK
    <2>4. CASE TakeList(r)
      BY <2>1, <2>2, <2>4 DEF TakeList, TypeOK
    <2>5. CASE AddRequest(r)
      <3>1. \/ list' = list
            \/ \E d : list' = [list EXCEPT ![c] = d]
        BY <2>1, <2>5 DEF AddRequest, Adding
      <3> QED BY <1>1, <2>2, <3>1 DEF TypeOK
    <2> QED BY <2>1, <2>3, <2>4, <2>5
  <1>8. ASSUME NEW c \in Box, Crash(c)
        PROVE  list'[b] = list[b]
    <2>1. c # b
      <3> SUFFICES ASSUME c = b
                   PROVE  FALSE
        OBVIOUS
      <3>1. job'[q] = Idle
        BY <1>8 DEF Crash
      <3> QED BY <3>1 DEF Idle
    <2> QED BY <1>1, <1>8, <2>1 DEF Crash, TypeOK
  <1>9. CASE UNCHANGED vars
    BY <1>9 DEF vars
  <1> QED BY <1>5, <1>6, <1>7, <1>8, <1>9 DEF Next

LEMMA WriteStep ==
    ASSUME Base, WriteInv, [Next]_vars
    PROVE  WriteInv'
  <1>1. play' = play
    BY PlayStays
  <1>2. ASSUME NEW p \in Proc, p[2] # "web", p \notin play'.editor
        PROVE  job'[p].at = "idle"
    BY <1>1, <1>2, StepJobMoves DEF JobMoves, WriteInv, At
  <1>3. ASSUME NEW p \in Proc, ListenerAlone(p[1])', job'[p].at = "write"
        PROVE  list'[p[1]] # NoCluster /\ job'[p].doc.id = list'[p[1]].id
    <2>1. JobMoves(p) /\ ListenerAlone(p[1])
      BY <1>1, <1>3, StepJobMoves DEF ListenerAlone
    <2>2. CASE job[p].at = "write" /\ job'[p].doc = job[p].doc
      <3>1. list'[p[1]] = list[p[1]]
        BY <1>3, <2>1, <2>2, HeldList
      <3> QED BY <2>1, <2>2, <3>1 DEF WriteInv, At
    <2> QED BY <1>3, <2>1, <2>2 DEF JobMoves
  <1> QED BY <1>2, <1>3 DEF WriteInv, At

(* A box that has a list is on it, whatever the interleaving of edits,       *)
(* pushes, late requests, reconciles, gave-up waits and power cuts; so is    *)
(* the list it would come back with, and what is about to be written over    *)
(* it (write, save_state).                                                   *)
THEOREM SelfListed == Spec => []SelfInList
  <1>1. Init => SelfInv
    BY DEF Init, SelfInv, SelfInList, At, Idle
  <1>2. Base /\ SelfInv /\ [Next]_vars => SelfInv'
    BY SelfStep
  <1>3. SelfInv => SelfInList
    BY DEF SelfInv
  <1> QED BY <1>1, <1>2, <1>3, BaseHolds, PTL DEF Spec

(* Where the listener alone writes the list, no request of any age and no    *)
(* POST of its own moves a box out of a cluster with others into another:    *)
(* joining is refused, a push of another cluster's list is not taken, and    *)
(* what a POST writes is of the cluster the box is still in.                 *)
THEOREM MembersNeverMoved == Spec => NeverMoved
  <1>1. Init => WriteInv
    BY DEF Init, WriteInv, At, Idle
  <1>2. Base /\ WriteInv /\ [Next]_vars => WriteInv'
    BY WriteStep
  <1>3. Base /\ WriteInv /\ [Next]_vars =>
          [\A b \in Box : ListenerAlone(b) => StaysOrLeaves(b)]_vars
    <2> SUFFICES ASSUME Base, WriteInv, [Next]_vars, NEW b \in Box, ListenerAlone(b),
                        Cardinality(Members(b)) > 1, list'[b] # NoCluster
                 PROVE  \/ list'[b].id = list[b].id
                        \/ list'[b].members = {b}
                        \/ count'.crash # count.crash
      BY DEF StaysOrLeaves
    <2>1. ListMoves(b)
      BY StepMoves
    <2>2. list[b] # NoCluster /\ Cardinality(list[b].members) > 1
      <3>1. ~(Cardinality({}) > 1)
        BY FS_EmptySet
      <3> QED BY <3>1 DEF Members
    <2>3. \A p \in Proc : p[1] = b /\ At(p, "write") => job[p].doc.id = list[b].id
      BY DEF WriteInv
    <2> QED BY <2>1, <2>2, <2>3 DEF ListMoves, ClusterOfOne
  <1> QED BY <1>1, <1>2, <1>3, BaseHolds, PTL DEF Spec, NeverMoved

-----------------------------------------------------------------------------
(* One process edits in peace. What each change to a list does to the rest.  *)

(* A box's list changes, and nobody else's.                                  *)
LEMMA OneListChanges ==
    ASSUME TypeOK, NEW c \in Box, NEW d \in Doc, list' = [list EXCEPT ![c] = d]
    PROVE  /\ Members(c)' = d.members /\ d.members \subseteq Box
           /\ \A x \in Box : Members(x) \subseteq Box
           /\ \A x \in Box \ {c} : Members(x)' = Members(x)
           /\ \A x, y \in Box \ {c} : Kin(x, y)' <=> Kin(x, y)
           /\ \A x \in Box \ {c} : /\ Kin(x, c)' <=> list[x] # NoCluster /\ list[x].id = d.id
                                   /\ Kin(c, x)' <=> list[x] # NoCluster /\ list[x].id = d.id
           /\ Kin(c, c)'
  <1>1. list'[c] = d /\ d # NoCluster /\ d.members \subseteq Box
    BY IdleIsAJob DEF TypeOK, Doc
  <1>2. \A x \in Box \ {c} : list'[x] = list[x]
    BY DEF TypeOK
  <1>3. \A x \in Box : Members(x) \subseteq Box
    BY ListTypes
  <1> QED BY <1>1, <1>2, <1>3 DEF Members, Kin

(* The same, when the cluster's id stays.                                    *)
LEMMA SameIdChanges ==
    ASSUME TypeOK, NEW c \in Box, NEW d \in Doc, list' = [list EXCEPT ![c] = d],
           list[c] # NoCluster, d.id = list[c].id
    PROVE  /\ Members(c)' = d.members /\ d.members \subseteq Box
           /\ \A x \in Box : Members(x) \subseteq Box
           /\ \A x \in Box \ {c} : Members(x)' = Members(x)
           /\ \A x, y \in Box : Kin(x, y)' <=> Kin(x, y)
  <1>1. \A x \in Box : Kin(x, c) <=> list[x] # NoCluster /\ list[x].id = d.id
    BY DEF Kin
  <1>2. \A x \in Box : Kin(c, x) <=> list[x] # NoCluster /\ list[x].id = d.id
    BY DEF Kin
  <1>3. Kin(c, c)
    BY DEF Kin
  <1>4. ASSUME NEW x \in Box, NEW y \in Box
        PROVE  Kin(x, y)' <=> Kin(x, y)
    <2>1. CASE x = c /\ y = c
      BY <1>3, <2>1, OneListChanges
    <2>2. CASE x = c /\ y # c
      <3>1. Kin(c, y)' <=> list[y] # NoCluster /\ list[y].id = d.id
        BY <2>2, OneListChanges
      <3> QED BY <1>2, <2>2, <3>1
    <2>3. CASE x # c /\ y = c
      <3>1. Kin(x, c)' <=> list[x] # NoCluster /\ list[x].id = d.id
        BY <2>3, OneListChanges
      <3> QED BY <1>1, <2>3, <3>1
    <2>4. CASE x # c /\ y # c
      BY <2>4, OneListChanges
    <2> QED BY <2>1, <2>2, <2>3, <2>4
  <1> QED BY <1>4, OneListChanges

LEMMA KinFacts ==
    /\ \A x, y \in Box : Kin(x, y) <=> Kin(y, x)
    /\ \A x, y, z \in Box : Kin(x, y) /\ Kin(y, z) => Kin(x, z)
  BY DEF Kin

LEMMA ListsStay ==
    ASSUME TypeOK, list' = list, play' = play, NEW c \in Box, NEW new \in SUBSET Box, NEW late,
           NEW more, late \subseteq more, Lists(c, new, late)
    PROVE  Lists(c, new, more)'
  <1>1. \A x \in Box : Members(x)' = Members(x)
    BY DEF Members
  <1>2. \A x, y \in Box : Kin(x, y)' <=> Kin(x, y)
    BY DEF Kin
  <1>3. \A x, y \in Box : Trusted(x, y)' <=> Trusted(x, y)
    BY <1>1 DEF Trusted
  <1>4. \A x \in Box : Members(x) \subseteq Box
    BY ListTypes
  <1>5. (\A x, y \in Box : y \in Members(x) => Kin(x, y))'
    BY <1>1, <1>2, <1>4 DEF Lists
  <1>6. (\A x, y \in Box : Kin(x, y) /\ ~Kin(x, c) => y \in Members(x))'
    BY <1>1, <1>2 DEF Lists
  <1>7. (\A m \in Members(c) : c \in Members(m) /\ (Members(m) = Members(c) \/ m \in more))'
    <2>1. ASSUME NEW m \in Members(c)
          PROVE  c \in Members(m)' /\ (Members(m)' = Members(c)' \/ m \in more)
      <3>1. m \in Box /\ c \in Members(m) /\ (Members(m) = Members(c) \/ m \in late)
        BY <1>4 DEF Lists
      <3>2. Members(m)' = Members(m) /\ Members(c)' = Members(c)
        BY <1>1, <3>1
      <3> QED BY <3>1, <3>2
    <2>2. Members(c)' = Members(c)
      BY <1>1
    <2> QED BY <2>1, <2>2
  <1>8. (\A t \in new : t \notin Members(c) /\ Kin(t, c) /\ Members(t) = Members(c) \cup {t})'
    <2>1. ASSUME NEW t \in new
          PROVE  t \notin Members(c)' /\ Kin(t, c)' /\ Members(t)' = Members(c)' \cup {t}
      <3>1. t \in Box /\ t \notin Members(c) /\ Kin(t, c) /\ Members(t) = Members(c) \cup {t}
        BY DEF Lists
      <3>2. Members(t)' = Members(t) /\ Members(c)' = Members(c) /\ (Kin(t, c)' <=> Kin(t, c))
        BY <1>1, <1>2, <3>1
      <3> QED BY <3>1, <3>2
    <2> QED BY <2>1
  <1>9. (\A x, y \in Box : (/\ Kin(x, c) /\ Kin(y, c) /\ x # y
                           /\ {x, y} \cap (Members(c) \cup new) = {}) => ~Trusted(x, y))'
    BY <1>1, <1>2, <1>3 DEF Lists
  <1>10. ("remove" \notin play.op => \A x \in Box : Kin(x, c) => x \in Members(c) \cup new)'
    BY <1>1, <1>2 DEF Lists
  <1> QED BY <1>5, <1>6, <1>7, <1>8, <1>9, <1>10 DEF Lists

LEMMA ListsSame ==
    ASSUME TypeOK, list' = list, play' = play, NEW c \in Box, Lists(c, {}, {})
    PROVE  Lists(c, {}, {})'
  <1>1. {} \in SUBSET Box /\ {} \subseteq {}
    OBVIOUS
  <1> QED BY <1>1, ListsStay

LEMMA OneOrMore ==
    ASSUME NEW S \in SUBSET Box, NEW t \in S, ~(Cardinality(S) > 1)
    PROVE  S = {t}
  <1> SUFFICES ASSUME NEW y \in S, y # t
               PROVE  FALSE
    OBVIOUS
  <1>1. IsFiniteSet(S)
    BY FS_Subset
  <1>2. Cardinality({t, y}) = 2 /\ IsFiniteSet({t, y})
    <2>1. IsFiniteSet({t}) /\ Cardinality({t}) = 1
      BY FS_Singleton
    <2>2. {t, y} = {t} \cup {y}
      OBVIOUS
    <2>3. y \notin {t}
      OBVIOUS
    <2>4. IsFiniteSet({t} \cup {y}) /\ Cardinality({t} \cup {y}) = Cardinality({t}) + 1
      BY <2>1, <2>3, FS_AddElement
    <2> QED BY <2>1, <2>2, <2>4
  <1>3. Cardinality({t, y}) <= Cardinality(S)
    BY <1>1, FS_Subset
  <1>4. Cardinality(S) \in Nat
    BY <1>1, FS_CardinalityType
  <1> QED BY <1>2, <1>3, <1>4

(* A box without a list founds a cluster of one.                             *)
LEMMA FoundsOne ==
    ASSUME TypeOK, NEW c \in Box, list[c] = NoCluster, play' = play,
           list' = [list EXCEPT ![c] = ClusterOfOne(c)],
           \A x \in Box : list[x] # NoCluster => list[x].id <= minted,
           Lists(c, {}, {})
    PROVE  Lists(c, {}, {})'
  <1> DEFINE d == ClusterOfOne(c)
  <1>1. d \in Doc /\ d.members = {c} /\ d.id = minted + 1
    BY ListTypes DEF ClusterOfOne
  <1>2. \A x \in Box : list[x] # NoCluster => list[x].id # d.id
    BY <1>1 DEF TypeOK, Doc
  <1> HIDE DEF d
  <1>3. list' = [list EXCEPT ![c] = d]
    BY DEF d
  <1>4. /\ Members(c)' = {c} /\ \A x \in Box : Members(x) \subseteq Box
        /\ \A x \in Box \ {c} : Members(x)' = Members(x)
        /\ \A x, y \in Box \ {c} : Kin(x, y)' <=> Kin(x, y)
        /\ \A x \in Box \ {c} : ~Kin(x, c)' /\ ~Kin(c, x)'
        /\ Kin(c, c)'
    <2>1. /\ Members(c)' = d.members /\ \A x \in Box : Members(x) \subseteq Box
          /\ \A x \in Box \ {c} : Members(x)' = Members(x)
          /\ \A x, y \in Box \ {c} : Kin(x, y)' <=> Kin(x, y)
          /\ Kin(c, c)'
      BY <1>1, <1>3, OneListChanges
    <2>2. \A x \in Box \ {c} :
            /\ Kin(x, c)' <=> list[x] # NoCluster /\ list[x].id = d.id
            /\ Kin(c, x)' <=> list[x] # NoCluster /\ list[x].id = d.id
      BY <1>1, <1>3, OneListChanges
    <2> QED BY <1>1, <1>2, <2>1, <2>2
  <1>5. \A x \in Box : ~Kin(x, c) /\ ~Kin(c, x)
    BY DEF Kin
  <1>6. ASSUME NEW x \in Box, NEW y \in Box, y \in Members(x)'
        PROVE  Kin(x, y)'
    <2>1. CASE x = c
      BY <1>4, <1>6, <2>1
    <2>2. CASE x # c
      <3>1. Kin(x, y) /\ y # c
        BY <1>4, <1>5, <1>6, <2>2 DEF Lists
      <3> QED BY <1>4, <2>2, <3>1
    <2> QED BY <2>1, <2>2
  <1>7. ASSUME NEW x \in Box, NEW y \in Box, Kin(x, y)', ~Kin(x, c)'
        PROVE  y \in Members(x)'
    <2>1. x # c /\ y # c
      BY <1>4, <1>7
    <2>2. Kin(x, y) /\ ~Kin(x, c)
      BY <1>4, <1>5, <1>7, <2>1
    <2>3. y \in Members(x)
      BY <2>2 DEF Lists
    <2> QED BY <1>4, <2>1, <2>3
  <1>8. \A m \in Members(c)' : m = c
    BY <1>4
  <1>9. \A x \in Box : Kin(x, c)' => x = c
    BY <1>4
  <1> QED BY <1>4, <1>6, <1>7, <1>8, <1>9 DEF Lists

(* A box joins c's cluster: it leaves nobody behind that was of its own.     *)
LEMMA JoinsIn ==
    ASSUME TypeOK, SelfInList, NEW c \in Box, NEW t \in Box, t # c,
           t \notin Members(c), list[c] # NoCluster, play' = play,
           NEW d \in Doc, list' = [list EXCEPT ![t] = d],
           d.id = list[c].id, d.members = Members(c) \cup {t},
           \/ list[t] = NoCluster \/ list[t].id = list[c].id
           \/ ~(Cardinality(list[t].members) > 1),
           Lists(c, {}, {})
    PROVE  Lists(c, {t}, {})'
  <1>1. /\ Members(t)' = Members(c) \cup {t} /\ \A x \in Box : Members(x) \subseteq Box
        /\ \A x \in Box \ {t} : Members(x)' = Members(x)
        /\ \A x, y \in Box \ {t} : Kin(x, y)' <=> Kin(x, y)
        /\ Kin(t, t)'
    BY OneListChanges
  <1>2. \A x \in Box \ {t} : (Kin(x, t)' <=> Kin(x, c)) /\ (Kin(t, x)' <=> Kin(x, c))
    <2>1. \A x \in Box : Kin(x, c) <=> list[x] # NoCluster /\ list[x].id = d.id
      BY DEF Kin
    <2> QED BY <2>1, OneListChanges
  <1>3. \A x \in Box \ {t} : Kin(x, t) => Kin(x, c)
    <2>1. CASE list[t] = NoCluster \/ list[t].id = list[c].id
      BY <2>1 DEF Kin
    <2>2. CASE list[t] # NoCluster /\ list[t].id # list[c].id
      <3>1. Members(t) = {t}
        BY <2>2, OneOrMore, ListTypes DEF SelfInList
      <3>2. ~Kin(t, c)
        BY <2>2 DEF Kin
      <3>3. \A x \in Box : Kin(t, x) => x \in Members(t)
        BY <3>2 DEF Lists
      <3> QED BY <3>1, <3>3, KinFacts
    <2> QED BY <2>1, <2>2
  <1>4. Kin(c, c)
    BY DEF Kin
  <1>5. ASSUME NEW x \in Box, NEW y \in Box, y \in Members(x)'
        PROVE  Kin(x, y)'
    <2>1. CASE x = t
      <3>1. CASE y = t
        BY <1>1, <2>1, <3>1
      <3>2. CASE y # t
        <4>1. Kin(c, y)
          BY <1>1, <1>5, <2>1, <3>2 DEF Lists
        <4> QED BY <1>2, <2>1, <3>2, <4>1, KinFacts
      <3> QED BY <3>1, <3>2
    <2>2. CASE x # t
      <3>1. Kin(x, y)
        BY <1>1, <1>5, <2>2 DEF Lists
      <3>2. CASE y = t
        BY <1>2, <1>3, <2>2, <3>1, <3>2
      <3>3. CASE y # t
        BY <1>1, <2>2, <3>1, <3>3
      <3> QED BY <3>2, <3>3
    <2> QED BY <2>1, <2>2
  <1>6. ASSUME NEW x \in Box, NEW y \in Box, Kin(x, y)', ~Kin(x, c)'
        PROVE  y \in Members(x)'
    <2>1. x # t
      BY <1>2, <1>4, <1>6
    <2>2. ~Kin(x, c)
      BY <1>1, <1>6, <2>1
    <2>3. y # t
      BY <1>2, <1>6, <2>1, <2>2
    <2>4. y \in Members(x)
      <3>1. Kin(x, y)
        BY <1>1, <1>6, <2>1, <2>3
      <3> QED BY <2>2, <3>1 DEF Lists
    <2> QED BY <1>1, <2>1, <2>4
  <1>7. ASSUME NEW m \in Members(c)'
        PROVE  c \in Members(m)' /\ Members(m)' = Members(c)'
    <2>1. m \in Members(c) /\ m \in Box /\ m # t
      BY <1>1, <1>7
    <2>2. c \in Members(m) /\ Members(m) = Members(c)
      BY <2>1 DEF Lists
    <2> QED BY <1>1, <2>1, <2>2
  <1>8. t \notin Members(c)' /\ Kin(t, c)' /\ Members(t)' = Members(c)' \cup {t}
    BY <1>1, <1>2, <1>4
  <1>9. ASSUME NEW x \in Box, NEW y \in Box, Kin(x, c)', Kin(y, c)', x # y,
               {x, y} \cap (Members(c)' \cup {t}) = {}
        PROVE  ~Trusted(x, y)'
    <2>1. x # t /\ y # t /\ {x, y} \cap Members(c) = {}
      BY <1>1, <1>9
    <2>2. Kin(x, c) /\ Kin(y, c)
      BY <1>1, <1>9, <2>1
    <2>3. ~Trusted(x, y)
      BY <1>9, <2>1, <2>2 DEF Lists
    <2> QED BY <1>1, <2>1, <2>3 DEF Trusted
  <1>10. ASSUME "remove" \notin play.op, NEW x \in Box, Kin(x, c)', x # t
         PROVE  x \in Members(c)'
    <2>1. Kin(x, c)
      BY <1>1, <1>10
    <2> QED BY <1>1, <1>10, <2>1 DEF Lists
  <1> QED BY <1>5, <1>6, <1>7, <1>8, <1>9, <1>10 DEF Lists

(* The edit puts in the box that joined; everybody is yet to be told.        *)
LEMMA PutsIn ==
    ASSUME TypeOK, SelfInList, NEW c \in Box, NEW t \in Box, list[c] # NoCluster, play' = play,
           NEW d \in Doc, list' = [list EXCEPT ![c] = d],
           d.id = list[c].id, d.members = Members(c) \cup {t},
           NEW late, late = d.members \ {c}, Lists(c, {t}, {})
    PROVE  Lists(c, {}, late)'
  <1>1. /\ Members(c)' = Members(c) \cup {t} /\ \A x \in Box : Members(x) \subseteq Box
        /\ \A x \in Box \ {c} : Members(x)' = Members(x)
        /\ \A x, y \in Box : Kin(x, y)' <=> Kin(x, y)
    BY SameIdChanges
  <1>2. c \in Members(c) /\ Kin(c, c)
    BY DEF SelfInList, Members, Kin
  <1>3. t \notin Members(c) /\ Kin(t, c) /\ Members(t) = Members(c) \cup {t} /\ t # c
    BY <1>2 DEF Lists
  <1>4. ASSUME NEW x \in Box, NEW y \in Box, y \in Members(x)'
        PROVE  Kin(x, y)'
    <2>1. CASE x = c /\ y = t
      BY <1>1, <1>3, <2>1, KinFacts
    <2>2. CASE ~(x = c /\ y = t)
      <3>1. y \in Members(x)
        BY <1>1, <1>4, <2>2
      <3> QED BY <1>1, <3>1 DEF Lists
    <2> QED BY <2>1, <2>2
  <1>5. ASSUME NEW x \in Box, NEW y \in Box, Kin(x, y)', ~Kin(x, c)'
        PROVE  y \in Members(x)'
    <2>1. x # c /\ Kin(x, y) /\ ~Kin(x, c)
      BY <1>1, <1>2, <1>5
    <2>2. y \in Members(x)
      BY <2>1 DEF Lists
    <2> QED BY <1>1, <2>1, <2>2
  <1>6. ASSUME NEW m \in Members(c)'
        PROVE  c \in Members(m)' /\ (Members(m)' = Members(c)' \/ m \in late)
    <2>1. CASE m = c
      BY <1>1, <1>2, <2>1
    <2>2. CASE m # c
      <3>1. m \in late /\ m \in Box
        BY <1>1, <1>6, <2>2
      <3>2. CASE m = t
        BY <1>1, <1>2, <1>3, <2>2, <3>1, <3>2
      <3>3. CASE m # t
        <4>1. c \in Members(m)
          BY <1>1, <1>6, <3>3 DEF Lists
        <4> QED BY <1>1, <2>2, <3>1, <4>1
      <3> QED BY <3>2, <3>3
    <2> QED BY <2>1, <2>2
  <1>7. ASSUME NEW x \in Box, NEW y \in Box, Kin(x, c)', Kin(y, c)', x # y,
               {x, y} \cap (Members(c)' \cup {}) = {}
        PROVE  ~Trusted(x, y)'
    <2>1. {x, y} \cap (Members(c) \cup {t}) = {} /\ x # c /\ y # c
      BY <1>1, <1>2, <1>7
    <2>2. Kin(x, c) /\ Kin(y, c)
      BY <1>1, <1>7
    <2>3. ~Trusted(x, y)
      BY <1>7, <2>1, <2>2 DEF Lists
    <2> QED BY <1>1, <2>1, <2>3 DEF Trusted
  <1>8. ASSUME "remove" \notin play.op, NEW x \in Box, Kin(x, c)'
        PROVE  x \in Members(c)'
    BY <1>1, <1>8 DEF Lists
  <1> QED BY <1>4, <1>5, <1>6, <1>7, <1>8 DEF Lists

(* The edit drops a member, which keeps its list: it has none of those that  *)
(* were dropped before.                                                      *)
LEMMA DropsOut ==
    ASSUME TypeOK, SelfInList, NEW c \in Box, NEW t \in Members(c) \ {c},
           list[c] # NoCluster, play' = play, "remove" \in play.op,
           NEW d \in Doc, list' = [list EXCEPT ![c] = d],
           d.id = list[c].id, d.members = Members(c) \ {t},
           NEW late, late = d.members \ {c}, Lists(c, {}, {})
    PROVE  Lists(c, {}, late)'
  <1>1. /\ Members(c)' = Members(c) \ {t} /\ \A x \in Box : Members(x) \subseteq Box
        /\ \A x \in Box \ {c} : Members(x)' = Members(x)
        /\ \A x, y \in Box : Kin(x, y)' <=> Kin(x, y)
    BY SameIdChanges
  <1>2. c \in Members(c) /\ Kin(c, c) /\ t \in Box /\ t # c
    BY <1>1 DEF SelfInList, Members, Kin
  <1>3. Members(t) = Members(c)
    BY DEF Lists
  <1>4. ASSUME NEW x \in Box, NEW y \in Box, y \in Members(x)'
        PROVE  Kin(x, y)'
    <2>1. y \in Members(x)
      BY <1>1, <1>4
    <2> QED BY <1>1, <2>1 DEF Lists
  <1>5. ASSUME NEW x \in Box, NEW y \in Box, Kin(x, y)', ~Kin(x, c)'
        PROVE  y \in Members(x)'
    <2>1. x # c /\ Kin(x, y) /\ ~Kin(x, c)
      BY <1>1, <1>2, <1>5
    <2>2. y \in Members(x)
      BY <2>1 DEF Lists
    <2> QED BY <1>1, <2>1, <2>2
  <1>6. ASSUME NEW m \in Members(c)'
        PROVE  c \in Members(m)' /\ (Members(m)' = Members(c)' \/ m \in late)
    <2>1. CASE m = c
      BY <1>1, <1>2, <2>1
    <2>2. CASE m # c
      <3>1. m \in late /\ m \in Box /\ m \in Members(c)
        BY <1>1, <1>6, <2>2
      <3>2. c \in Members(m)
        BY <3>1 DEF Lists
      <3> QED BY <1>1, <2>2, <3>1, <3>2
    <2> QED BY <2>1, <2>2
  <1>7. ASSUME NEW x \in Box, NEW y \in Box, Kin(x, c)', Kin(y, c)', x # y,
               {x, y} \cap (Members(c)' \cup {}) = {}
        PROVE  ~Trusted(x, y)'
    <2>1. x # c /\ y # c /\ Members(x)' = Members(x) /\ Members(y)' = Members(y)
      BY <1>1, <1>2, <1>7
    <2>2. CASE x = t
      <3>1. y \notin Members(x)
        BY <1>1, <1>3, <1>7, <2>2
      <3> QED BY <2>1, <3>1 DEF Trusted
    <2>3. CASE y = t
      <3>1. x \notin Members(y)
        BY <1>1, <1>3, <1>7, <2>3
      <3> QED BY <2>1, <3>1 DEF Trusted
    <2>4. CASE x # t /\ y # t
      <3>1. {x, y} \cap (Members(c) \cup {}) = {} /\ Kin(x, c) /\ Kin(y, c)
        BY <1>1, <1>7, <2>4
      <3>2. ~Trusted(x, y)
        BY <1>7, <3>1 DEF Lists
      <3> QED BY <2>1, <3>2 DEF Trusted
    <2> QED BY <2>2, <2>3, <2>4
  <1> QED BY <1>4, <1>5, <1>6, <1>7 DEF Lists

(* A member takes the list that is pushed to it.                             *)
LEMMA TakesOver ==
    ASSUME TypeOK, SelfInList, NEW c \in Box, NEW late, NEW m \in Members(c) \ {c},
           play' = play, list' = [list EXCEPT ![m] = list[c]],
           Lists(c, {}, late)
    PROVE  Lists(c, {}, late \ {m})'
  <1>1. /\ m \in Box /\ list[c] \in Doc /\ list[m] # NoCluster
        /\ list[c].id = list[m].id /\ list[c].members = Members(c) /\ Kin(c, m)
    <2>1. m \in Box /\ list[c] \in Doc /\ list[c].members = Members(c)
      BY ListTypes DEF Members
    <2>2. Kin(c, m)
      BY <2>1 DEF Lists
    <2> QED BY <2>1, <2>2 DEF Kin
  <1>2. /\ Members(m)' = Members(c) /\ \A x \in Box : Members(x) \subseteq Box
        /\ \A x \in Box \ {m} : Members(x)' = Members(x)
        /\ \A x, y \in Box : Kin(x, y)' <=> Kin(x, y)
    BY <1>1, SameIdChanges
  <1>3. c \in Members(c)
    BY <1>1, IdleIsAJob DEF SelfInList
  <1>4. ASSUME NEW x \in Box, NEW y \in Box, y \in Members(x)'
        PROVE  Kin(x, y)'
    <2>1. CASE x = m
      <3>1. Kin(c, y)
        BY <1>2, <1>4, <2>1 DEF Lists
      <3> QED BY <1>1, <1>2, <2>1, <3>1, KinFacts
    <2>2. CASE x # m
      BY <1>2, <1>4, <2>2 DEF Lists
    <2> QED BY <2>1, <2>2
  <1>5. ASSUME NEW x \in Box, NEW y \in Box, Kin(x, y)', ~Kin(x, c)'
        PROVE  y \in Members(x)'
    <2>1. x # m /\ Kin(x, y) /\ ~Kin(x, c)
      BY <1>1, <1>2, <1>5, KinFacts
    <2>2. y \in Members(x)
      BY <2>1 DEF Lists
    <2> QED BY <1>2, <2>1, <2>2
  <1>6. ASSUME NEW n \in Members(c)'
        PROVE  c \in Members(n)' /\ (Members(n)' = Members(c)' \/ n \in late \ {m})
    <2>1. Members(c)' = Members(c) /\ n \in Box
      BY <1>2, <1>6
    <2>2. CASE n = m
      BY <1>2, <1>3, <2>1, <2>2
    <2>3. CASE n # m
      <3>1. c \in Members(n) /\ (Members(n) = Members(c) \/ n \in late)
        BY <1>6, <2>1 DEF Lists
      <3> QED BY <1>2, <2>1, <2>3, <3>1
    <2> QED BY <2>2, <2>3
  <1>7. ASSUME NEW x \in Box, NEW y \in Box, Kin(x, c)', Kin(y, c)', x # y,
               {x, y} \cap (Members(c)' \cup {}) = {}
        PROVE  ~Trusted(x, y)'
    <2>1. {x, y} \cap (Members(c) \cup {}) = {} /\ x # m /\ y # m /\ Kin(x, c) /\ Kin(y, c)
      BY <1>2, <1>7
    <2>2. ~Trusted(x, y)
      BY <1>7, <2>1 DEF Lists
    <2> QED BY <1>2, <2>1, <2>2 DEF Trusted
  <1>8. ASSUME "remove" \notin play.op, NEW x \in Box, Kin(x, c)'
        PROVE  x \in Members(c)'
    BY <1>2, <1>8 DEF Lists
  <1> QED BY <1>4, <1>5, <1>6, <1>7, <1>8 DEF Lists

(* With nobody ever removed, it does not matter which box one looks from.    *)
LEMMA LeadsOn ==
    ASSUME TypeOK, NEW c \in Box, NEW a \in Box, "remove" \notin play.op, Lists(c, {}, {})
    PROVE  Lists(a, {}, {}) /\ Mutual
  <1>1. \A x \in Box : Members(x) \subseteq Box
    BY ListTypes
  <1>2. ASSUME NEW x \in Box, NEW y \in Box, Kin(x, y)
        PROVE  y \in Members(x)
    <2>1. CASE ~Kin(x, c)
      BY <1>2, <2>1 DEF Lists
    <2>2. CASE Kin(x, c)
      <3>1. Kin(y, c)
        BY <1>2, <2>2, KinFacts
      <3>2. x \in Members(c) /\ y \in Members(c)
        BY <2>2, <3>1 DEF Lists
      <3>3. Members(x) = Members(c)
        BY <3>2 DEF Lists
      <3> QED BY <3>2, <3>3
    <2> QED BY <2>1, <2>2
  <1>3. \A x, y \in Box : y \in Members(x) <=> Kin(x, y)
    BY <1>2 DEF Lists
  <1>4. \A x, y \in Box : y \in Members(x) => x \in Members(y)
    BY <1>3, KinFacts
  <1>5. ASSUME NEW m \in Members(a)
        PROVE  a \in Members(m) /\ Members(m) = Members(a)
    <2>1. m \in Box /\ Kin(a, m) /\ Kin(m, a)
      BY <1>1, <1>3, <1>5, KinFacts
    <2>2. \A y \in Box : Kin(m, y) <=> Kin(a, y)
      BY <2>1, KinFacts
    <2>3. \A y \in Box : y \in Members(m) <=> y \in Members(a)
      BY <1>3, <2>1, <2>2
    <2> QED BY <1>1, <1>3, <2>1, <2>3
  <1>6. \A x \in Box : Kin(x, a) => x \in Members(a)
    BY <1>3, KinFacts
  <1>7. \A x, y \in Box : y \in Members(x) => Kin(x, y)
    BY <1>3
  <1>8. \A x, y \in Box : Kin(x, y) => y \in Members(x)
    BY <1>3
  <1> QED BY <1>4, <1>5, <1>6, <1>7, <1>8 DEF Lists, Mutual

-----------------------------------------------------------------------------
(* Who is at work, and what the steps that go on or end an edit have in      *)
(* common.                                                                   *)
Kept(e) == OneInv(e) /\ \A p \in Proc : Leads(e, p) => ListsInv(p)

Peace(e) == Alone(e) /\ Base /\ SelfInv /\ Kept(e)

LEMMA OneLeads ==
    ASSUME Base, NEW e \in Proc, OneInv(e), NEW p \in Proc, NEW q \in Proc, Leads(e, p), Leads(e, q)
    PROVE  p = q
  <1>1. CASE p = e \/ q = e
    <2>1. \A x \in Proc : x # e /\ Works(x) => job[e].at = "asking"
      BY DEF OneInv, Works, At
    <2> QED BY <1>1, <2>1 DEF Leads, Works
  <1>2. CASE p # e /\ q # e
    <2>1. job[p].asker = e /\ job[q].asker = e /\ e # NoJob
      BY <1>2, IdleIsAJob DEF OneInv, Leads, Works, At
    <2> QED BY <2>1 DEF Base, AskInv
  <1> QED BY <1>1, <1>2

LEMMA OneLeadsThen ==
    ASSUME Base', NEW e \in Proc, OneInv(e)', NEW p \in Proc, Leads(e, p)', ListsInv(p)'
    PROVE  Kept(e)'
  <1> SUFFICES ASSUME NEW q \in Proc, Leads(e, q)'
               PROVE  p = q
    BY DEF Kept
  <1>1. CASE p = e \/ q = e
    <2>1. \A x \in Proc : x # e /\ Works(x)' => job'[e].at = "asking"
      BY DEF OneInv, Works, At
    <2> QED BY <1>1, <2>1 DEF Leads, Works
  <1>2. CASE p # e /\ q # e
    <2>1. job'[p].asker = e /\ job'[q].asker = e /\ e # NoJob
      BY <1>2, IdleIsAJob DEF OneInv, Leads, Works, At
    <2> QED BY <2>1 DEF Base, AskInv
  <1> QED BY <1>1, <1>2

(* Whoever leads has its lists in order.                                     *)
LEMMA TheLists ==
    ASSUME NEW e, Peace(e), NEW p \in Proc, Works(p) \/ (p = e /\ \A q \in Proc : ~Works(q))
    PROVE  ListsInv(p)
  BY DEF Peace, Kept, Leads

(* The one that works goes on.                                               *)
LEMMA WorksOn ==
    ASSUME Base, NEW e \in Proc, OneInv(e), NEW p \in Proc, Works(p), Works(p)', play' = play,
           \A q \in Proc \ {p} : job'[q] = job[q],
           job'[p].asker = job[p].asker,
           \A r \in net' : /\ r.live /\ r.to # r.from[1]
                           /\ r.kind # "add-request" => r.doc = job'[r.from].doc
    PROVE  OneInv(e)' /\ Leads(e, p)'
  <1>1. CASE p = e
    <2>1. job[e].at # "asking" /\ job'[e].at # "asking"
      BY <1>1 DEF Works
    <2>2. \A q \in Proc \ {e} : job[q].at = "idle" /\ job'[q].at = "idle"
      BY <1>1, <2>1 DEF OneInv, At
    <2> QED BY <1>1, <2>1, <2>2 DEF OneInv, Leads, At
  <1>2. CASE p # e
    <2>1. job'[e] = job[e]
      BY <1>2
    <2>2. \A q \in Proc \ {e} : job[q].at # "idle" => p = q
      <3>1. \A q \in Proc \ {e} : job[q].at # "idle" => job[q].asker = e
        BY DEF OneInv, At
      <3>2. job[p].at # "idle"
        BY DEF Works
      <3> QED BY <1>2, <3>1, <3>2, IdleIsAJob DEF Base, AskInv
    <2>3. job[p].asker = e /\ job[e].at = "asking" /\ p[2] = "web"
      BY <1>2 DEF OneInv, Works, At
    <2>4. \A q \in Proc \ {e} : job'[q].at # "idle" => q = p
      BY <2>2
    <2> QED BY <2>1, <2>3, <2>4 DEF OneInv, Leads, At
  <1> QED BY <1>1, <1>2

(* Nobody is at anything.                                                    *)
LEMMA AllIdle ==
    ASSUME Base', NEW e \in Proc, \A p \in Proc : job'[p].at = "idle", job'[e].asker = NoJob,
           \A r \in net' : r.live
    PROVE  OneInv(e)' /\ Leads(e, e)'
  <1>1. net' = {}
    <2> SUFFICES ASSUME NEW r \in net'
                 PROVE  FALSE
      OBVIOUS
    <2>1. job'[r.from].at = Awaits(r.kind) /\ r.from \in Proc
      BY DEF Base, NetInv, TypeOK, Request
    <2> QED BY <2>1 DEF Awaits
  <1> QED BY <1>1 DEF OneInv, Leads, Works, At

LEMMA EndsAll ==
    ASSUME NEW e \in Proc, Peace(e), NEW p \in Proc, Works(p), NEW ok \in BOOLEAN, End(p, ok)
    PROVE  (\A q \in Proc : job'[q].at = "idle") /\ job'[e].asker = NoJob
  <1> USE DEF Peace, Kept, Base
  <1>1. job \in [Proc -> Job]
    BY DEF TypeOK
  <1>2. CASE p = e
    <2>1. job[e].asker = NoJob /\ \A q \in Proc \ {e} : job[q].at = "idle"
      BY <1>2 DEF OneInv, Works, At
    <2>2. job' = [job EXCEPT ![e] = Idle]
      BY <1>2, <2>1 DEF End, Answer
    <2> QED BY <1>1, <2>1, <2>2 DEF Idle
  <1>3. CASE p # e
    <2>1. job[p].asker = e /\ job[e].at = "asking" /\ e[2] = "cli"
      BY <1>3 DEF OneInv, Works, At, Alone
    <2>2. \A q \in Proc \ {p, e} : job[q].at = "idle"
      <3>1. \A q \in Proc \ {e} : job[q].at # "idle" => job[q].asker = e
        BY DEF OneInv, At
      <3> QED BY <1>3, <2>1, <3>1, IdleIsAJob DEF AskInv
    <2> DEFINE j == [job EXCEPT ![p] = Idle]
    <2>3. j \in [Proc -> Job] /\ j[e].at = "asking" /\ j[p] = Idle
          /\ \A q \in Proc \ {p, e} : j[q].at = "idle"
      BY <1>1, <1>3, <2>1, <2>2, IdleIsAJob
    <2>4. job' = Answer(j, e, ok)
      BY <2>1 DEF End
    <2> HIDE DEF j
    <2>5. job' = [j EXCEPT ![e] = Idle]
      BY <2>1, <2>3, <2>4, IdleIsAJob DEF Answer
    <2> QED BY <1>3, <2>3, <2>5 DEF Idle
  <1> QED BY <1>2, <1>3

LEMMA EndsPeace ==
    ASSUME NEW e \in Proc, Peace(e), Base', NEW p \in Proc, Works(p), NEW ok \in BOOLEAN, End(p, ok),
           play' = play, list' = list, minted' = minted, net' \subseteq net,
           Lists(p[1], {}, {}),
           \A x \in Box : saved'[x] = list[x] \/ Members(x) = {x}
    PROVE  Kept(e)'
  <1> USE DEF Peace, Kept
  <1>1. p[1] \in Box /\ e[1] \in Box /\ TypeOK
    BY DEF Proc, Base
  <1>2. OneInv(e)' /\ Leads(e, e)' /\ job'[e].at = "idle"
    <2>1. (\A q \in Proc : job'[q].at = "idle") /\ job'[e].asker = NoJob
      BY EndsAll
    <2>2. \A r \in net' : r.live
      BY DEF OneInv
    <2> QED BY <2>1, <2>2, AllIdle
  <1>3. Lists(e[1], {}, {})
    <2>1. CASE p = e
      BY <2>1
    <2>2. CASE p # e
      <3>1. "remove" \notin play.op
        BY <2>2 DEF OneInv, Works, At, Alone
      <3> QED BY <1>1, <3>1, LeadsOn
    <2> QED BY <2>1, <2>2
  <1>4. Lists(e[1], {}, {})'
    BY <1>1, <1>3, ListsStay
  <1>5. \A x \in Box : list[x] # NoCluster => list[x].id <= minted
    BY TheLists DEF ListsInv
  <1>6. \A x \in Box : Members(x)' = Members(x)
    BY DEF Members
  <1>7. ListsInv(e)'
    BY <1>2, <1>4, <1>5, <1>6 DEF ListsInv, New, At, Pushes
  <1> QED BY <1>2, <1>7, OneLeadsThen

LEMMA AtRest ==
    ASSUME NEW e \in Proc, Peace(e), job[e].at = "idle"
    PROVE  /\ \A q \in Proc : job[q].at = "idle" /\ ~Works(q)
           /\ net = {} /\ ListsInv(e)
           /\ Lists(e[1], {}, {}) /\ \A x \in Box : saved[x] = list[x] \/ Members(x) = {x}
  <1> USE DEF Peace, Kept
  <1>1. \A q \in Proc : job[q].at = "idle" /\ ~Works(q)
    BY DEF OneInv, At, Works
  <1>2. net = {}
    <2> SUFFICES ASSUME NEW r \in net
                 PROVE  FALSE
      OBVIOUS
    <2>1. job[r.from].at = Awaits(r.kind) /\ r.from \in Proc
      BY DEF OneInv, Base, NetInv, TypeOK, Request
    <2> QED BY <1>1, <2>1 DEF Awaits
  <1>3. ListsInv(e)
    BY <1>1, TheLists
  <1> QED BY <1>1, <1>2, <1>3 DEF ListsInv, New, At, Pushes

(* The one that edits begins.                                                *)
LEMMA StartsOn ==
    ASSUME NEW e \in Proc, Peace(e), job[e].at = "idle", Works(e)',
           \A q \in Proc \ {e} : job'[q] = job[q], job'[e].asker = NoJob, net' = {}
    PROVE  OneInv(e)' /\ Leads(e, e)'
  BY AtRest DEF OneInv, Leads, Works, At

LEMMA OpOnly ==
    ASSUME NEW e \in Proc, Peace(e), NEW p \in Proc, NEW op, StartEdit(p, op)
    PROVE  p = e /\ op \in play.op /\ job[e].at = "idle" /\ play' = play
  BY DEF Peace, Alone, StartEdit, At, Tally

(* An add begins, by the one that edits or on its request.                   *)
LEMMA AddingPeace ==
    ASSUME NEW e \in Proc, Peace(e), Base', NEW w \in Proc, job[w].at = "idle",
           \A q \in Proc : ~Works(q),
           NEW a \in Proc \cup {NoJob}, NEW t \in Box, NEW auth \in {"password", "token"},
           \/ w = e /\ a = NoJob
           \/ w # e /\ a = e /\ job[e].at = "asking" /\ w[2] = "web",
           Adding(w, t, auth, a, {}), saved' = saved, play' = play
    PROVE  Kept(e)'
  <1> USE DEF Peace, Kept
  <1> DEFINE c == w[1]
  <1>1. c \in Box /\ e[1] \in Box /\ TypeOK /\ {} \in SUBSET Request
    BY DEF Proc, Base
  <1>2. /\ ListsInv(e) /\ Lists(e[1], {}, {})
        /\ \A x \in Box : saved[x] = list[x] \/ Members(x) = {x}
        /\ \A x \in Box : list[x] # NoCluster => list[x].id <= minted
    <2>1. ListsInv(e)
      BY TheLists
    <2>2. job[e].at \notin {"joined", "push", "pushing", "save"}
      BY DEF Works
    <2> QED BY <2>1, <2>2 DEF ListsInv, New, At, Pushes
  <1>3. Lists(c, {}, {})
    <2>1. CASE w = e
      BY <1>2, <2>1
    <2>2. CASE w # e
      <3>1. "remove" \notin play.op
        BY <2>2 DEF OneInv, At, Alone
      <3> QED BY <1>1, <1>2, <3>1, LeadsOn
    <2> QED BY <2>1, <2>2
  <1>4. Added(w, t, auth, a, {})
    BY <1>1, AddingTypes
  <1>5. /\ list' \in [Box -> Doc \cup {NoCluster}]
        /\ \A b \in Box : list[b] # NoCluster => list'[b] = list[b]
        /\ list'[w[1]] \in Doc
        /\ minted' \in Nat
        /\ job' \in [Proc -> Job]
        /\ \A q \in Proc \ {w} : job'[q] = job[q]
        /\ job'[w].at = "joining" /\ job'[w].to = t /\ job'[w].asker = a
        /\ job'[w].doc = list'[w[1]]
    BY <1>4 DEF Added
  <1>6. PICK r \in Request :
             /\ net' = {} \cup {r}
             /\ r.kind = "join" /\ r.from = w /\ r.to = t /\ r.live
             /\ r.auth = auth /\ r.doc = list'[w[1]]
    BY <1>4 DEF Added
  <1>7. t # c /\ t \notin Members(c)
    BY DEF Adding
  <1>8. OneInv(e)' /\ Leads(e, w)'
    <2>1. \A q \in Proc \ {e} : job[q].at = "idle"
      BY DEF OneInv, At
    <2>2. \A r2 \in net' : r2.live /\ r2.to # r2.from[1] /\ r2.doc = job'[r2.from].doc
      BY <1>5, <1>6, <1>7
    <2>3. \A q \in Proc \ {e, w} : job'[q].at = "idle"
      BY <1>5, <2>1
    <2>4. CASE w = e
      BY <1>5, <2>2, <2>3, <2>4 DEF OneInv, Leads, Works, At
    <2>5. CASE w # e
      <3>1. job'[e] = job[e]
        BY <1>5, <2>5
      <3> QED BY <1>5, <2>2, <2>3, <2>5, <3>1 DEF OneInv, Leads, Works, At
    <2> QED BY <2>4, <2>5
  <1>9. /\ Lists(c, {}, {})' /\ t \notin Members(c)'
        /\ \A x \in Box : list'[x] # NoCluster => list'[x].id <= minted'
        /\ \A x \in Box : saved'[x] = list'[x] \/ Members(x)' = {x}
    <2>1. CASE list[c] = NoCluster
      <3>1. list' = [list EXCEPT ![c] = ClusterOfOne(c)] /\ minted' = minted + 1
        BY <2>1 DEF Adding
      <3>2. Lists(c, {}, {})'
        BY <1>1, <1>2, <1>3, <2>1, <3>1, FoundsOne
      <3>3. /\ list'[c] = ClusterOfOne(c) /\ list'[c] # NoCluster
            /\ \A x \in Box \ {c} : list'[x] = list[x]
        BY <1>1, <1>5, <3>1, IdleIsAJob DEF TypeOK
      <3>4. Members(c)' = {c} /\ \A x \in Box \ {c} : Members(x)' = Members(x)
        BY <1>1, <3>3 DEF Members, ClusterOfOne
      <3>5. \A x \in Box : list'[x] # NoCluster => list'[x].id <= minted'
        BY <1>1, <1>2, <3>1, <3>3 DEF ClusterOfOne, TypeOK, Doc
      <3> QED BY <1>2, <1>7, <3>2, <3>3, <3>4, <3>5
    <2>2. CASE list[c] # NoCluster
      <3>1. list' = list /\ minted' = minted
        BY <1>1, <2>2 DEF Adding, TypeOK
      <3>2. \A x \in Box : Members(x)' = Members(x)
        BY <3>1 DEF Members
      <3>3. Lists(c, {}, {})'
        BY <1>1, <1>3, <3>1, ListsSame
      <3> QED BY <1>1, <1>2, <1>7, <3>1, <3>2, <3>3
    <2> QED BY <2>1, <2>2
  <1>10. job'[w].saves
    BY <1>1 DEF Adding, Idle, TypeOK
  <1>11. ListsInv(w)'
    BY <1>10, <1>5, <1>7, <1>9 DEF ListsInv, New, At, Pushes
  <1> QED BY <1>8, <1>11, OneLeadsThen

LEMMA StartAddPeace ==
    ASSUME NEW e \in Proc, Peace(e), Base', NEW p \in Proc, StartAdd(p)
    PROVE  Kept(e)'
  <1>1. p = e /\ job[e].at = "idle" /\ play' = play /\ saved' = saved
    BY OpOnly DEF StartAdd
  <1>2. net = {} /\ \A q \in Proc : ~Works(q)
    BY <1>1, AtRest
  <1>3. PICK t \in play.lan : Adding(e, t, "password", NoJob, {})
    BY <1>1, <1>2 DEF StartAdd
  <1>4. t \in Box
    BY PlayOK DEF Peace, Base
  <1> QED BY <1>1, <1>2, <1>3, <1>4, AddingPeace

LEMMA StartRemovePeace ==
    ASSUME NEW e \in Proc, Peace(e), Base', NEW p \in Proc, StartRemove(p)
    PROVE  Kept(e)'
  <1> USE DEF Peace, Kept
  <1> DEFINE c == e[1]
  <1>1. p = e /\ "remove" \in play.op /\ job[e].at = "idle" /\ play' = play
        /\ UNCHANGED <<list, saved, net, minted>> /\ e[2] # "page"
    BY OpOnly DEF StartRemove, StartEdit
  <1>2. /\ net = {} /\ Lists(c, {}, {}) /\ ListsInv(e)
        /\ \A x \in Box : saved[x] = list[x] \/ Members(x) = {x}
    BY <1>1, AtRest
  <1>3. PICK t \in Members(c) \ {c} :
          job' = [job EXCEPT ![e] = [Idle EXCEPT !.at = "write", !.to = t,
                                     !.doc = [list[c] EXCEPT !.members = @ \ {t}]]]
    BY <1>1 DEF StartRemove
  <1> DEFINE d == [list[c] EXCEPT !.members = @ \ {t}]
             new == [Idle EXCEPT !.at = "write", !.to = t, !.doc = d]
  <1>4. c \in Box /\ TypeOK /\ list[c] # NoCluster /\ list[c] \in Doc
        /\ Members(c) = list[c].members
    BY <1>3, ListTypes DEF Proc, Base, Members
  <1>5. d = [list[c] EXCEPT !.members = @ \ {t}] /\ d.members = Members(c) \ {t}
    BY <1>4 DEF Doc
  <1>6. new.at = "write" /\ new.to = t /\ new.doc = d /\ new.asker = NoJob /\ new.saves
    BY DEF Idle
  <1>7. job' = [job EXCEPT ![e] = new]
    BY <1>3
  <1> HIDE DEF d, new
  <1>8. job'[e] = new /\ \A q \in Proc \ {e} : job'[q] = job[q]
    BY <1>4, <1>7 DEF TypeOK
  <1>9. OneInv(e)' /\ Leads(e, e)'
    BY <1>1, <1>2, <1>6, <1>8, StartsOn DEF Works
  <1>10. \A x \in Box : Members(x)' = Members(x)
    BY <1>1 DEF Members
  <1>11. Lists(c, {}, {})'
    BY <1>1, <1>2, <1>4, ListsSame
  <1>12. New(e)' = {}
    <2>1. New(e)' = job'[e].doc.members \ Members(c)'
      BY <1>6, <1>8 DEF New, At
    <2>2. job'[e].doc.members = Members(c) \ {t} /\ Members(c)' = Members(c)
      BY <1>4, <1>5, <1>6, <1>8, <1>10
    <2> QED BY <2>1, <2>2
  <1>13. Writes(e)'
    BY <1>1, <1>3, <1>4, <1>5, <1>6, <1>8, <1>10 DEF Writes
  <1>14. \A x \in Box : list'[x] # NoCluster => list'[x].id <= minted'
    BY <1>1, <1>2 DEF ListsInv
  <1>15. \A x \in Box : saved'[x] = list'[x] \/ Members(x)' = {x}
    BY <1>1, <1>2, <1>10
  <1>16. job'[e].at = "write" /\ job'[e].saves
    BY <1>6, <1>8
  <1>17. ListsInv(e)'
    BY <1>1, <1>4, <1>11, <1>12, <1>13, <1>14, <1>15, <1>16 DEF ListsInv, At, Pushes
  <1> QED BY <1>9, <1>17, OneLeadsThen

LEMMA StartSyncPeace ==
    ASSUME NEW e \in Proc, Peace(e), Base', NEW p \in Proc, StartSync(p)
    PROVE  Kept(e)'
  <1> USE DEF Peace, Kept
  <1> DEFINE c == e[1]
             new == [Idle EXCEPT !.at = "push", !.doc = list[c],
                                 !.todo = list[c].members \ {c}, !.saves = FALSE]
  <1>1. /\ p = e /\ job[e].at = "idle" /\ play' = play
        /\ UNCHANGED <<list, saved, net, minted>>
        /\ list[c] # NoCluster /\ job' = [job EXCEPT ![e] = new]
    BY OpOnly DEF StartSync
  <1>2. /\ net = {} /\ Lists(c, {}, {}) /\ ListsInv(e)
        /\ \A x \in Box : saved[x] = list[x] \/ Members(x) = {x}
    BY <1>1, AtRest
  <1>3. c \in Box /\ TypeOK /\ Members(c) = list[c].members
    BY <1>1 DEF Proc, Base, Members
  <1>4. new.at = "push" /\ new.doc = list[c] /\ new.todo = Members(c) \ {c} /\ new.asker = NoJob
    BY <1>3 DEF Idle
  <1> HIDE DEF new
  <1>5. job'[e] = new /\ \A q \in Proc \ {e} : job'[q] = job[q]
    BY <1>1, <1>3 DEF TypeOK
  <1>6. OneInv(e)' /\ Leads(e, e)'
    BY <1>1, <1>2, <1>4, <1>5, StartsOn DEF Works
  <1>7. Lists(c, {}, Members(c) \ {c})'
    <2>1. Lists(c, {}, {}) /\ {} \subseteq Members(c) \ {c} /\ {} \in SUBSET Box
      BY <1>2
    <2> QED BY <1>1, <1>3, <2>1, ListsStay
  <1>8. \A x \in Box : Members(x)' = Members(x)
    BY <1>1 DEF Members
  <1>9. \A x \in Box : list'[x] # NoCluster => list'[x].id <= minted'
    BY <1>1, <1>2 DEF ListsInv
  <1>10. \A x \in Box : saved'[x] = list'[x] \/ Members(x)' = {x}
    BY <1>1, <1>2, <1>8
  <1>11. Members(c)' = Members(c)
    BY <1>3, <1>8
  <1>12. ListsInv(e)'
    BY <1>1, <1>4, <1>5, <1>7, <1>9, <1>10, <1>11 DEF ListsInv, New, At, Pushes
  <1> QED BY <1>6, <1>12, OneLeadsThen

LEMMA StartJoinPeace ==
    ASSUME NEW e \in Proc, Peace(e), Base', NEW p \in Proc, StartJoin(p)
    PROVE  Kept(e)'
  <1> USE DEF Peace, Kept
  <1>1. /\ p = e /\ job[e].at = "idle" /\ play' = play /\ "join" \in play.op
        /\ UNCHANGED <<list, saved, minted>>
        /\ job' = [job EXCEPT ![e] = [Idle EXCEPT !.at = "asking"]]
    BY OpOnly DEF StartJoin
  <1>2. /\ net = {} /\ Lists(e[1], {}, {}) /\ ListsInv(e)
        /\ \A x \in Box : saved[x] = list[x] \/ Members(x) = {x}
        /\ \A q \in Proc : job[q].at = "idle"
    BY <1>1, AtRest
  <1>3. PICK m \in play.lan \ {e[1]} :
          net' = {} \cup {[kind |-> "add-request", from |-> e, to |-> m, auth |-> "",
                           doc |-> NoCluster, live |-> TRUE]}
    BY <1>1, <1>2 DEF StartJoin
  <1>4. e[1] \in Box /\ TypeOK
    BY DEF Proc, Base
  <1>5. /\ job'[e].at = "asking" /\ job'[e].asker = NoJob
        /\ \A q \in Proc \ {e} : job'[q].at = "idle"
    BY <1>1, <1>2, <1>4 DEF TypeOK, Idle
  <1>6. OneInv(e)' /\ Leads(e, e)'
    <2>1. ASSUME NEW r \in net'
          PROVE  r.live /\ r.to # r.from[1] /\ r.kind = "add-request"
      <3>1. r = [kind |-> "add-request", from |-> e, to |-> m, auth |-> "",
                 doc |-> NoCluster, live |-> TRUE]
        BY <1>3
      <3>2. r.live /\ r.to = m /\ r.from = e /\ r.kind = "add-request"
        BY <3>1
      <3> QED BY <1>3, <3>2
    <2> QED BY <1>1, <1>5, <2>1 DEF OneInv, Leads, Works, At
  <1>7. Lists(e[1], {}, {})'
    BY <1>1, <1>2, <1>4, ListsSame
  <1>8. \A x \in Box : Members(x)' = Members(x)
    BY <1>1 DEF Members
  <1>9. ListsInv(e)'
    BY <1>1, <1>2, <1>5, <1>7, <1>8 DEF ListsInv, New, At, Pushes
  <1> QED BY <1>6, <1>9, OneLeadsThen

LEMMA StartInitPeace ==
    ASSUME NEW e \in Proc, Peace(e), Base', NEW p \in Proc, StartInit(p)
    PROVE  Kept(e)'
  <1> USE DEF Peace, Kept
  <1> DEFINE c == e[1]
  <1>1. /\ p = e /\ job[e].at = "idle" /\ play' = play
        /\ UNCHANGED <<saved, net>> /\ minted' = minted + 1
        /\ list[c] = NoCluster /\ list' = [list EXCEPT ![c] = ClusterOfOne(c)]
        /\ job' = [job EXCEPT ![e] = [Idle EXCEPT !.at = "save"]]
    BY OpOnly DEF StartInit, Alone
  <1>2. /\ net = {} /\ Lists(c, {}, {}) /\ ListsInv(e)
        /\ \A x \in Box : saved[x] = list[x] \/ Members(x) = {x}
    BY <1>1, AtRest
  <1>3. c \in Box /\ TypeOK /\ \A x \in Box : list[x] # NoCluster => list[x].id <= minted
    BY <1>2 DEF Proc, Base, ListsInv
  <1>4. /\ job'[e].at = "save" /\ job'[e].asker = NoJob /\ job'[e].saves = TRUE
        /\ \A q \in Proc \ {e} : job'[q] = job[q]
    BY <1>1, <1>3 DEF TypeOK, Idle
  <1>5. OneInv(e)' /\ Leads(e, e)'
    BY <1>1, <1>2, <1>4, StartsOn DEF Works
  <1>6. Lists(c, {}, {})'
    BY <1>1, <1>2, <1>3, FoundsOne
  <1>7. list'[c] = ClusterOfOne(c) /\ \A x \in Box \ {c} : list'[x] = list[x]
    BY <1>1, <1>3 DEF TypeOK
  <1>8. \A x \in Box \ {c} : Members(x)' = Members(x)
    BY <1>7 DEF Members
  <1>9. \A x \in Box : list'[x] # NoCluster => list'[x].id <= minted'
    BY <1>1, <1>3, <1>7 DEF ClusterOfOne, TypeOK, Doc
  <1>10. \A x \in Box : saved'[x] = list'[x] \/ Members(x)' = {x} \/ x = c
    BY <1>1, <1>2, <1>7, <1>8
  <1>11. ListsInv(e)'
    BY <1>4, <1>6, <1>9, <1>10 DEF ListsInv, New, At, Pushes
  <1> QED BY <1>5, <1>11, OneLeadsThen

(* What holds of one that works.                                             *)
LEMMA AtWork ==
    ASSUME NEW e \in Proc, Peace(e), NEW p \in Proc, Works(p)
    PROVE  /\ ListsInv(p) /\ p[1] \in Box
           /\ ~At(p, "save") => /\ list[p[1]] \in Doc /\ list[p[1]] # NoCluster
                               /\ Members(p[1]) = list[p[1]].members
                               /\ p[1] \in Members(p[1])
           /\ \A r \in net : r.live /\ r.from = p
  <1> USE DEF Peace, Kept
  <1>1. ListsInv(p) /\ p[1] \in Box /\ TypeOK
    BY TheLists DEF Proc, Base
  <1>2. list[p[1]] # NoCluster \/ At(p, "save")
    <2>1. Pushes(p) => list[p[1]] = job[p].doc /\ job[p].doc \in Doc
      BY <1>1 DEF ListsInv, Base, JobInv, Pushes
    <2>2. job[p].at \in {"joining", "joined", "write"} => list[p[1]] # NoCluster
      BY <1>1 DEF Base, JobInv, ListsInv, At
    <2> QED BY <2>1, <2>2, IdleIsAJob DEF Works, Pushes, At
  <1>3. ~At(p, "save") => /\ list[p[1]] \in Doc /\ list[p[1]] # NoCluster
                          /\ Members(p[1]) = list[p[1]].members
                          /\ p[1] \in Members(p[1])
    BY <1>1, <1>2, ListTypes DEF SelfInv, SelfInList
  <1>4. ASSUME NEW r \in net
        PROVE  r.live /\ r.from = p
    <2>1. r.live /\ r.from \in Proc /\ job[r.from].at = Awaits(r.kind)
      BY <1>1 DEF OneInv, Base, NetInv, TypeOK, Request
    <2>2. job[r.from].at # "idle"
      BY <2>1 DEF Awaits
    <2>3. CASE p = e
      <3>1. job[e].at # "asking"
        BY <2>3 DEF Works
      <3> QED BY <2>1, <2>2, <2>3, <3>1 DEF OneInv, At
    <2>4. CASE p # e
      <3>1. job[p].asker = e /\ e # NoJob
        BY <2>4, IdleIsAJob DEF OneInv, Works, At
      <3>2. r.from # e
        BY <2>1, <3>1 DEF Base, AskInv
      <3>3. job[r.from].asker = e
        BY <2>1, <2>2, <3>2 DEF OneInv, At
      <3> QED BY <2>1, <3>1, <3>3 DEF Base, AskInv
    <2> QED BY <2>3, <2>4
  <1> QED BY <1>1, <1>3, <1>4

LEMMA AddMemberPeace ==
    ASSUME NEW e \in Proc, Peace(e), Base', NEW p \in Proc, AddMember(p)
    PROVE  Kept(e)'
  <1> USE DEF Peace, Kept
  <1> DEFINE c == p[1]
             t == job[p].to
             d == [list[c] EXCEPT !.members = @ \cup {t}]
             new == [job[p] EXCEPT !.at = "write", !.doc = d]
  <1>1. /\ job[p].at = "joined" /\ play' = play
        /\ UNCHANGED <<list, saved, net, minted>> /\ job' = [job EXCEPT ![p] = new]
    <2>1. job' = [job EXCEPT ![p].at = "write", ![p].doc = d]
      BY DEF AddMember
    <2>2. job \in [Proc -> Job]
      BY DEF Base, TypeOK
    <2> HIDE DEF d
    <2>3. job' = [job EXCEPT ![p] = new]
      BY <2>1, <2>2
    <2> QED BY <2>3 DEF AddMember, At
  <1>2. Works(p) /\ ~At(p, "save") /\ TypeOK /\ job[p] \in Job
    BY <1>1 DEF Works, At, Base, TypeOK
  <1>3. /\ ListsInv(p) /\ c \in Box /\ list[c] \in Doc /\ list[c] # NoCluster
        /\ Members(c) = list[c].members /\ \A r \in net : r.from = p
    BY <1>2, AtWork
  <1>4. Lists(c, {t}, {}) /\ t \in Box /\ \A r \in net : r.live
    BY <1>1, <1>3 DEF ListsInv, New, At, Pushes, Base, JobInv, OneInv
  <1>5. net = {}
    <2> SUFFICES ASSUME NEW r \in net
                 PROVE  FALSE
      OBVIOUS
    <2>1. job[p].at = Awaits(r.kind)
      BY <1>3, <1>4 DEF Base, NetInv
    <2> QED BY <1>1, <2>1 DEF Awaits
  <1>6. d = [list[c] EXCEPT !.members = @ \cup {t}] /\ d.members = Members(c) \cup {t}
    BY <1>3, <1>4 DEF Doc
  <1>7. /\ new.at = "write" /\ new.to = t /\ new.doc = d
        /\ new.asker = job[p].asker /\ new.saves
    BY <1>1, <1>2, <1>3 DEF Job, ListsInv
  <1>8. p[2] # "page"
    BY <1>1 DEF OneInv, At, Alone
  <1> HIDE DEF d, new
  <1>9. \A x \in Box : Members(x)' = Members(x)
    BY <1>1 DEF Members
  <1>10. job'[p] = new /\ \A q \in Proc \ {p} : job'[q] = job[q]
    BY <1>1, <1>2 DEF TypeOK
  <1>11. OneInv(e)' /\ Leads(e, p)'
    BY <1>1, <1>2, <1>5, <1>7, <1>10, WorksOn DEF Works
  <1>12. t \notin Members(c)
    BY <1>4 DEF Lists
  <1>13. New(p)' = {t}
    BY <1>3, <1>6, <1>7, <1>9, <1>10, <1>12 DEF New, At
  <1>14. Lists(c, New(p), {})'
    <2>1. PICK u : u = {t} /\ u \in SUBSET Box
      BY <1>4
    <2>2. PICK l : l = {}
      OBVIOUS
    <2>3. Lists(c, u, l)
      BY <1>4, <2>1, <2>2
    <2>4. Lists(c, u, l)'
      BY <1>1, <1>2, <1>3, <2>1, <2>3, ListsStay
    <2>5. u = New(p)' /\ l = {}
      BY <1>13, <2>1, <2>2
    <2> QED BY <2>4, <2>5
  <1>15. Writes(p)'
    BY <1>1, <1>3, <1>6, <1>7, <1>9, <1>10, <1>12 DEF Writes
  <1>16. \A x \in Box : list'[x] # NoCluster => list'[x].id <= minted'
    BY <1>1, <1>3 DEF ListsInv
  <1>17. \A x \in Box : saved'[x] = list'[x] \/ Members(x)' = {x}
    <2>1. \A x \in Box : saved[x] = list[x] \/ Members(x) = {x}
      BY <1>1, <1>3 DEF ListsInv, At, Pushes
    <2> QED BY <1>1, <1>9, <2>1
  <1>18. job'[p].at = "write" /\ job'[p].saves
    BY <1>7, <1>10
  <1>19. ListsInv(p)'
    BY <1>1, <1>3, <1>8, <1>14, <1>15, <1>16, <1>17, <1>18 DEF ListsInv, At, Pushes
  <1> QED BY <1>11, <1>19, OneLeadsThen

LEMMA WriteListPeace ==
    ASSUME NEW e \in Proc, Peace(e), Base', NEW p \in Proc, WriteList(p)
    PROVE  Kept(e)'
  <1> USE DEF Peace, Kept
  <1> DEFINE c == p[1]
             d == job[p].doc
             new == [job[p] EXCEPT !.at = "push", !.todo = d.members \ {c}]
  <1>1. /\ job[p].at = "write" /\ play' = play /\ list' = [list EXCEPT ![c] = d]
        /\ UNCHANGED <<saved, net, minted>>
    BY DEF WriteList, At
  <1>2. Works(p) /\ ~At(p, "save") /\ TypeOK /\ job[p] \in Job /\ d \in Doc
    BY <1>1 DEF Works, At, Base, TypeOK, JobInv
  <1>3. /\ ListsInv(p) /\ c \in Box /\ list[c] \in Doc /\ list[c] # NoCluster
        /\ Members(c) = list[c].members /\ \A r \in net : r.from = p
    BY <1>2, AtWork
  <1>4. Lists(c, d.members \ Members(c), {}) /\ Writes(p) /\ p[2] # "page" /\ job[p].saves
    BY <1>1, <1>3 DEF ListsInv, New, At, Pushes
  <1>5. net = {}
    <2> SUFFICES ASSUME NEW r \in net
                 PROVE  FALSE
      OBVIOUS
    <2>1. job[p].at = Awaits(r.kind)
      BY <1>3 DEF Base, NetInv, OneInv
    <2> QED BY <1>1, <2>1 DEF Awaits
  <1>6. job'[p] = new /\ \A q \in Proc \ {p} : job'[q] = job[q]
    <2>1. job' = [job EXCEPT ![p].at = "push", ![p].todo = d.members \ {c}]
      BY <1>4 DEF WriteList
    <2>2. job \in [Proc -> Job]
      BY <1>2 DEF TypeOK
    <2> HIDE DEF d
    <2> QED BY <2>1, <2>2
  <1>7. /\ new.at = "push" /\ new.doc = d /\ new.todo = d.members \ {c}
        /\ new.asker = job[p].asker /\ new.saves
    BY <1>2, <1>4 DEF Job
  <1> HIDE DEF new
  <1>8. PICK late : late = d.members \ {c}
    OBVIOUS
  <1>9. (d.id = list[c].id) /\ Lists(c, {}, late)'
    <2> DEFINE t == job[p].to
    <2>1. CASE t \notin Members(c) /\ d = [list[c] EXCEPT !.members = @ \cup {t}]
      <3>1. d.id = list[c].id /\ d.members = Members(c) \cup {t}
        BY <1>3, <2>1 DEF Doc
      <3>2. t \in Box /\ d.members \ Members(c) = {t}
        BY <1>2, <2>1, <3>1 DEF Doc
      <3>3. PICK u \in Box : u = t
        BY <3>2
      <3>4. Lists(c, {u}, {}) /\ d.members = Members(c) \cup {u} /\ SelfInList
        BY <1>4, <3>1, <3>2, <3>3 DEF SelfInv
      <3> QED BY <1>1, <1>2, <1>3, <1>8, <3>1, <3>4, PutsIn
    <2>2. CASE /\ t \in Members(c) \ {c} /\ "remove" \in play.op
               /\ d = [list[c] EXCEPT !.members = @ \ {t}]
      <3>1. d.id = list[c].id /\ d.members = Members(c) \ {t}
        BY <1>3, <2>2 DEF Doc
      <3>2. PICK u \in Members(c) \ {c} : u = t
        BY <2>2
      <3>3. Lists(c, {}, {}) /\ d.members = Members(c) \ {u} /\ SelfInList
        <4>1. d.members \ Members(c) = {}
          BY <3>1
        <4> QED BY <1>4, <3>1, <3>2, <4>1 DEF SelfInv
      <3> QED BY <1>1, <1>2, <1>3, <1>8, <2>2, <3>1, <3>3, DropsOut
    <2> QED BY <1>4, <2>1, <2>2 DEF Writes
  <1>10. list'[c] = d /\ \A x \in Box \ {c} : list'[x] = list[x]
    BY <1>1, <1>2, <1>3 DEF TypeOK
  <1>11. (Members(c)' = d.members) /\ \A x \in Box \ {c} : Members(x)' = Members(x)
    BY <1>1, <1>2, <1>3, OneListChanges
  <1>12. OneInv(e)' /\ Leads(e, p)'
    BY <1>1, <1>2, <1>5, <1>6, <1>7, WorksOn DEF Works
  <1>13. \A x \in Box : list'[x] # NoCluster => list'[x].id <= minted'
    BY <1>1, <1>3, <1>9, <1>10 DEF ListsInv
  <1>14. \A x \in Box : saved'[x] = list'[x] \/ Members(x)' = {x} \/ x = c
    <2>1. \A x \in Box : saved[x] = list[x] \/ Members(x) = {x}
      BY <1>1, <1>3 DEF ListsInv, At, Pushes
    <2> QED BY <1>1, <1>10, <1>11, <2>1
  <1>15. /\ job'[p].at = "push" /\ job'[p].doc = list'[c] /\ job'[p].saves
         /\ job'[p].todo = late /\ job'[p].todo \subseteq Members(c)' \ {c}
    BY <1>6, <1>7, <1>8, <1>10, <1>11
  <1>16. ListsInv(p)'
    BY <1>9, <1>13, <1>14, <1>15 DEF ListsInv, New, At, Pushes
  <1> QED BY <1>12, <1>16, OneLeadsThen

LEMMA PushPeace ==
    ASSUME NEW e \in Proc, Peace(e), Base', NEW p \in Proc, Push(p)
    PROVE  Kept(e)'
  <1> USE DEF Peace, Kept
  <1> DEFINE c == p[1]
  <1>1. PICK m \in job[p].todo :
          IF Trusted(c, m)
          THEN /\ net' = net \cup {[kind |-> "members", from |-> p, to |-> m,
                                    auth |-> "", doc |-> job[p].doc, live |-> TRUE]}
               /\ job' = [job EXCEPT ![p].at = "pushing", ![p].to = m]
          ELSE /\ job' = [job EXCEPT ![p].todo = @ \ {m}]
               /\ UNCHANGED net
    BY DEF Push
  <1>2. job[p].at = "push" /\ UNCHANGED <<list, saved, token, minted, count, play>>
    BY DEF Push, At
  <1>3. Works(p) /\ ~At(p, "save") /\ TypeOK /\ job[p] \in Job /\ job \in [Proc -> Job]
    BY <1>2 DEF Works, At, Base, TypeOK
  <1>4. /\ ListsInv(p) /\ c \in Box /\ list[c] \in Doc /\ c \in Members(c)
        /\ \A r \in net : r.live /\ r.from = p
    BY <1>3, AtWork
  <1>5. /\ job[p].doc = list[c] /\ job[p].todo \subseteq Members(c) \ {c}
        /\ Lists(c, {}, job[p].todo)
    BY <1>2, <1>4 DEF ListsInv, New, At, Pushes
  <1>6. Trusted(c, m) /\ m # c
    BY <1>5 DEF Trusted, Lists
  <1> DEFINE r == [kind |-> "members", from |-> p, to |-> m, auth |-> "",
                   doc |-> job[p].doc, live |-> TRUE]
             new == [job[p] EXCEPT !.at = "pushing", !.to = m]
  <1>7. r.kind = "members" /\ r.from = p /\ r.live /\ r.to = m /\ r.doc = job[p].doc
    OBVIOUS
  <1>8. /\ new.at = "pushing" /\ new.asker = job[p].asker /\ new.to = m
        /\ new.doc = job[p].doc /\ new.todo = job[p].todo /\ new.saves = job[p].saves
    BY <1>3 DEF Job
  <1>9. net' = net \cup {r} /\ job' = [job EXCEPT ![p] = new]
    BY <1>1, <1>3, <1>6
  <1>10. net = {}
    <2> SUFFICES ASSUME NEW q \in net
                 PROVE  FALSE
      OBVIOUS
    <2>1. job[p].at = Awaits(q.kind)
      BY <1>4 DEF Base, NetInv
    <2> QED BY <1>2, <2>1 DEF Awaits
  <1> HIDE DEF r, new
  <1>11. job'[p] = new /\ \A q \in Proc \ {p} : job'[q] = job[q]
    BY <1>3, <1>9
  <1>12. OneInv(e)' /\ Leads(e, p)'
    <2>1. \A q \in net' : /\ q.live /\ q.to # q.from[1]
                          /\ q.kind # "add-request" => q.doc = job'[q.from].doc
      BY <1>6, <1>7, <1>8, <1>9, <1>10, <1>11
    <2>2. Works(p)'
      BY <1>8, <1>11 DEF Works
    <2> QED BY <1>2, <1>3, <1>8, <1>11, <2>1, <2>2, WorksOn
  <1>13. \A x \in Box : Members(x)' = Members(x)
    BY <1>2 DEF Members
  <1>14. PICK late : late = job[p].todo
    OBVIOUS
  <1>15. Lists(c, {}, late)'
    <2>1. {} \in SUBSET Box /\ late \subseteq late /\ Lists(c, {}, late)
      BY <1>5, <1>14
    <2> QED BY <1>2, <1>3, <1>4, <2>1, ListsStay
  <1>16. \A x \in Box : list'[x] # NoCluster => list'[x].id <= minted'
    BY <1>2, <1>4 DEF ListsInv
  <1>17. \A x \in Box : saved'[x] = list'[x] \/ Members(x)' = {x} \/ (x = c /\ job[p].saves)
    BY <1>2, <1>4, <1>13 DEF ListsInv
  <1>18. /\ job'[p].at = "pushing" /\ job'[p].doc = list'[c] /\ job'[p].saves = job[p].saves
         /\ job'[p].todo = late /\ job'[p].todo \subseteq Members(c)' \ {c}
         /\ job'[p].to \in job'[p].todo
    BY <1>2, <1>4, <1>5, <1>8, <1>11, <1>13, <1>14
  <1>19. ListsInv(p)'
    BY <1>15, <1>16, <1>17, <1>18 DEF ListsInv, New, At, Pushes
  <1> QED BY <1>12, <1>19, OneLeadsThen

LEMMA PushEndsPeace ==
    ASSUME NEW e \in Proc, Peace(e), Base', NEW p \in Proc, PushEnds(p)
    PROVE  Kept(e)'
  <1> USE DEF Peace, Kept
  <1> DEFINE c == p[1]
  <1>1. /\ job[p].at = "push" /\ job[p].todo = {}
        /\ UNCHANGED <<list, saved, token, net, minted, count, play>>
    BY DEF PushEnds, At
  <1>2. Works(p) /\ ~At(p, "save") /\ TypeOK /\ job \in [Proc -> Job]
    BY <1>1 DEF Works, At, Base, TypeOK
  <1>3. ListsInv(p) /\ c \in Box /\ \A r \in net : r.live /\ r.from = p
    BY <1>2, AtWork
  <1>4. Lists(c, {}, {})
    BY <1>1, <1>3 DEF ListsInv, New, At, Pushes
  <1>5. net = {}
    <2> SUFFICES ASSUME NEW q \in net
                 PROVE  FALSE
      OBVIOUS
    <2>1. job[p].at = Awaits(q.kind)
      BY <1>3 DEF Base, NetInv
    <2> QED BY <1>1, <2>1 DEF Awaits
  <1>6. CASE job[p].saves
    <2>1. /\ \A q \in Proc \ {p} : job'[q] = job[q]
          /\ job'[p] = [job[p] EXCEPT !.at = "save"]
      BY <1>2, <1>6 DEF PushEnds, Set
    <2>2. job'[p].at = "save" /\ job'[p].asker = job[p].asker /\ job'[p].saves
      BY <1>2, <1>6, <2>1 DEF Job
    <2>3. OneInv(e)' /\ Leads(e, p)'
      BY <1>1, <1>2, <1>5, <2>1, <2>2, WorksOn DEF Works
    <2>4. Lists(c, {}, {})'
      BY <1>1, <1>2, <1>3, <1>4, ListsSame
    <2>5. \A x \in Box : Members(x)' = Members(x)
      BY <1>1 DEF Members
    <2>6. \A x \in Box : list'[x] # NoCluster => list'[x].id <= minted'
      BY <1>1, <1>3 DEF ListsInv
    <2>7. \A x \in Box : saved'[x] = list'[x] \/ Members(x)' = {x} \/ x = c
      BY <1>1, <1>3, <2>5 DEF ListsInv
    <2>8. ListsInv(p)'
      BY <2>2, <2>4, <2>6, <2>7 DEF ListsInv, New, At, Pushes
    <2> QED BY <2>3, <2>8, OneLeadsThen
  <1>7. CASE ~job[p].saves
    <2>1. End(p, TRUE)
      BY <1>7 DEF PushEnds
    <2>2. \A x \in Box : saved'[x] = list[x] \/ Members(x) = {x}
      BY <1>1, <1>3, <1>7 DEF ListsInv
    <2> QED BY <1>1, <1>2, <1>4, <2>1, <2>2, EndsPeace
  <1> QED BY <1>6, <1>7

LEMMA SavePeace ==
    ASSUME NEW e \in Proc, Peace(e), Base', NEW p \in Proc, Save(p)
    PROVE  Kept(e)'
  <1> USE DEF Peace, Kept
  <1> DEFINE c == p[1]
  <1>1. /\ job[p].at = "save" /\ End(p, TRUE)
        /\ UNCHANGED <<list, token, net, minted, count, play>>
        /\ saved' = [saved EXCEPT ![c] = list[c]]
    BY DEF Save, At
  <1>2. Works(p) /\ TypeOK
    BY <1>1 DEF Works, Base
  <1>3. ListsInv(p) /\ c \in Box
    BY <1>2, AtWork
  <1>4. Lists(c, {}, {})
    BY <1>1, <1>3 DEF ListsInv, New, At, Pushes
  <1>5. \A x \in Box : saved'[x] = list[x] \/ Members(x) = {x}
    <2>1. \A x \in Box \ {c} : saved[x] = list[x] \/ Members(x) = {x}
      BY <1>3 DEF ListsInv
    <2> QED BY <1>1, <1>2, <1>3, <2>1 DEF TypeOK
  <1> QED BY <1>1, <1>2, <1>4, <1>5, EndsPeace

LEMMA JoinPeace ==
    ASSUME NEW e \in Proc, Peace(e), Base', NEW r \in net, Join(r)
    PROVE  Kept(e)'
  <1> USE DEF Peace, Kept
  <1> DEFINE t == r.to
             p == r.from
             c == p[1]
             d == Joined(t, r.doc)
             ok == (r.auth = "password" \/ token[t]) /\ ~Refuses(t, r.doc)
  <1>1. /\ r.kind = "join" /\ net' = net \ {r}
        /\ list' = IF ok THEN [list EXCEPT ![t] = d] ELSE list
        /\ saved' = IF ok THEN [saved EXCEPT ![t] = d] ELSE saved
        /\ IF ~r.live THEN UNCHANGED job
           ELSE IF ok THEN Set(p, "joined") ELSE End(p, FALSE)
        /\ UNCHANGED <<minted, count, play>>
    BY DEF Join
  <1>2. /\ r.live /\ t \in Box /\ p \in Proc /\ TypeOK /\ job \in [Proc -> Job]
        /\ job[p].at = "joining" /\ job[p].to = t /\ job[p].doc = r.doc
    BY <1>1 DEF Base, TypeOK, Request, NetInv, OneInv, Awaits
  <1>3. Works(p) /\ ~At(p, "save")
    BY <1>2 DEF Works, At
  <1>4. /\ ListsInv(p) /\ c \in Box /\ list[c] \in Doc /\ list[c] # NoCluster
        /\ Members(c) = list[c].members /\ \A q \in net : q.live /\ q.from = p
    BY <1>2, <1>3, AtWork
  <1>5. /\ Lists(c, {}, {}) /\ t # c /\ t \notin Members(c) /\ r.doc = list[c] /\ job[p].saves
        /\ \A x \in Box : saved[x] = list[x] \/ Members(x) = {x}
    BY <1>2, <1>4 DEF ListsInv, New, At, Pushes
  <1>6. d \in Doc /\ d.id = list[c].id /\ d.members = Members(c) \cup {t}
    BY <1>2, <1>4, <1>5 DEF Joined, Doc
  <1>7. net' = {}
    BY <1>1, <1>2, <1>4 DEF Base, NetInv
  <1>8. ok => list[t] = NoCluster \/ list[t].id = list[c].id \/ ~(Cardinality(list[t].members) > 1)
    BY <1>5 DEF Refuses
  <1> HIDE DEF d, ok, t, p
  <1>9. CASE ok
    <2>1. list' = [list EXCEPT ![t] = d] /\ saved' = [saved EXCEPT ![t] = d] /\ Set(p, "joined")
      BY <1>1, <1>2, <1>9
    <2>2. /\ \A q \in Proc \ {p} : job'[q] = job[q]
          /\ job'[p] = [job[p] EXCEPT !.at = "joined"]
      BY <1>2, <2>1 DEF Set
    <2>3. /\ job'[p].at = "joined" /\ job'[p].asker = job[p].asker /\ job'[p].saves
          /\ job'[p].to = t
      BY <1>2, <1>5, <2>2 DEF Job
    <2>4. OneInv(e)' /\ Leads(e, p)'
      BY <1>1, <1>2, <1>3, <1>7, <2>2, <2>3, WorksOn DEF Works
    <2>5. Lists(c, {t}, {})'
      <3>1. SelfInList /\ play' = play
        BY <1>1 DEF SelfInv
      <3> QED BY <1>2, <1>4, <1>5, <1>6, <1>8, <1>9, <2>1, <3>1, JoinsIn
    <2>6. /\ list'[t] = d /\ \A x \in Box \ {t} : list'[x] = list[x]
          /\ saved'[t] = d /\ \A x \in Box \ {t} : saved'[x] = saved[x]
      BY <1>2, <2>1 DEF TypeOK
    <2>7. \A x \in Box \ {t} : Members(x)' = Members(x)
      BY <2>6 DEF Members
    <2>8. \A x \in Box : list'[x] # NoCluster => list'[x].id <= minted'
      <3>1. \A x \in Box : list[x] # NoCluster => list[x].id <= minted
        BY <1>4 DEF ListsInv
      <3>2. d.id <= minted /\ minted' = minted
        BY <1>1, <1>4, <1>6, <3>1
      <3> QED BY <2>6, <3>1, <3>2
    <2>9. \A x \in Box : saved'[x] = list'[x] \/ Members(x)' = {x}
      BY <1>5, <2>6, <2>7
    <2>10. PICK u : u = t
      OBVIOUS
    <2>11. Lists(c, {u}, {})' /\ job'[p].to = u
      BY <2>3, <2>5, <2>10
    <2>12. ListsInv(p)'
      BY <2>3, <2>8, <2>9, <2>11 DEF ListsInv, New, At, Pushes
    <2> QED BY <1>2, <2>4, <2>12, OneLeadsThen
  <1>10. CASE ~ok
    <2>1. End(p, FALSE) /\ list' = list /\ saved' = saved /\ net' \subseteq net
      BY <1>1, <1>2, <1>10
    <2> QED BY <1>1, <1>2, <1>3, <1>5, <2>1, EndsPeace
  <1> QED BY <1>9, <1>10

LEMMA TakeListPeace ==
    ASSUME NEW e \in Proc, Peace(e), Base', NEW r \in net, TakeList(r)
    PROVE  Kept(e)'
  <1> USE DEF Peace, Kept
  <1> DEFINE m == r.to
             p == r.from
             c == p[1]
             d == IF c \in Members(m) THEN Replaced(m, r.doc) ELSE list[m]
  <1>1. /\ r.kind = "members" /\ net' = net \ {r}
        /\ list' = [list EXCEPT ![m] = d]
        /\ saved' = IF d # list[m] THEN [saved EXCEPT ![m] = d] ELSE saved
        /\ minted' = IF d = ClusterOfOne(m) THEN minted + 1 ELSE minted
        /\ job' = IF r.live THEN Pushed(job, p) ELSE job
        /\ UNCHANGED <<token, count, play>>
    BY DEF TakeList
  <1>2. /\ r.live /\ m \in Box /\ p \in Proc /\ TypeOK /\ job \in [Proc -> Job] /\ job[p] \in Job
        /\ job[p].at = "pushing" /\ job[p].to = m /\ job[p].doc = r.doc
    BY <1>1 DEF Base, TypeOK, Request, NetInv, OneInv, Awaits
  <1>3. Works(p) /\ ~At(p, "save")
    BY <1>2 DEF Works, At
  <1>4. /\ ListsInv(p) /\ c \in Box /\ list[c] \in Doc /\ list[c] # NoCluster
        /\ Members(c) = list[c].members /\ \A q \in net : q.live /\ q.from = p
    BY <1>2, <1>3, AtWork
  <1>5. /\ Lists(c, {}, job[p].todo) /\ r.doc = list[c] /\ m \in Members(c) \ {c}
        /\ m \in job[p].todo /\ job[p].todo \subseteq Members(c) \ {c}
    BY <1>2, <1>4 DEF ListsInv, New, At, Pushes
  <1>6. d = list[c] /\ list[m] # NoCluster
    <2>1. c \in Members(m) /\ Kin(c, m)
      BY <1>2, <1>4, <1>5 DEF Lists
    <2>2. list[m].id = list[c].id /\ list[m] # NoCluster
      BY <2>1 DEF Kin
    <2> QED BY <1>4, <1>5, <2>1, <2>2 DEF Replaced
  <1>7. net' = {}
    BY <1>1, <1>2, <1>4 DEF Base, NetInv
  <1> DEFINE new == [job[p] EXCEPT !.at = "push", !.todo = @ \ {m}]
  <1>8. job' = [job EXCEPT ![p] = new]
    BY <1>1, <1>2 DEF Pushed
  <1>9. /\ new.at = "push" /\ new.asker = job[p].asker /\ new.saves = job[p].saves
        /\ new.doc = list[c] /\ new.todo = job[p].todo \ {m}
    BY <1>2, <1>5 DEF Job
  <1> HIDE DEF d, new, m, p
  <1>10. job'[p] = new /\ \A q \in Proc \ {p} : job'[q] = job[q]
    BY <1>2, <1>8
  <1>11. OneInv(e)' /\ Leads(e, p)'
    BY <1>1, <1>2, <1>3, <1>7, <1>9, <1>10, WorksOn DEF Works
  <1>12. /\ list' = [list EXCEPT ![m] = list[c]]
         /\ list'[m] = list[c] /\ \A x \in Box \ {m} : list'[x] = list[x]
    BY <1>1, <1>2, <1>6 DEF TypeOK
  <1>13. PICK late : late = job[p].todo
    OBVIOUS
  <1>14. Lists(c, {}, late \ {m})'
    <2>1. SelfInList /\ play' = play /\ Lists(c, {}, late)
      BY <1>1, <1>5, <1>13 DEF SelfInv
    <2> QED BY <1>2, <1>4, <1>5, <1>12, <2>1, TakesOver
  <1>15. /\ (Members(c)' = Members(c)) /\ list'[c] = list[c]
         /\ \A x \in Box \ {m} : Members(x)' = Members(x)
    BY <1>2, <1>4, <1>5, <1>12 DEF Members
  <1>16. \A x \in Box : list'[x] # NoCluster => list'[x].id <= minted'
    <2>1. \A x \in Box : list[x] # NoCluster => list[x].id <= minted
      BY <1>4 DEF ListsInv
    <2>2. minted' = minted
      <3>1. list[c].id <= minted /\ list[c].id \in Nat /\ minted \in Nat
        BY <1>4, <2>1 DEF Base, TypeOK, Doc
      <3>2. ClusterOfOne(m).id = minted + 1
        BY DEF ClusterOfOne
      <3>3. list[c] # ClusterOfOne(m)
        BY <3>1, <3>2
      <3> QED BY <1>1, <1>6, <3>3
    <2> QED BY <1>4, <1>12, <2>1, <2>2
  <1>17. \A x \in Box : saved'[x] = list'[x] \/ Members(x)' = {x} \/ (x = c /\ job[p].saves)
    <2>1. \A x \in Box : saved[x] = list[x] \/ Members(x) = {x} \/ (x = c /\ job[p].saves)
      BY <1>4 DEF ListsInv
    <2>2. CASE list[c] # list[m]
      <3>1. saved'[m] = list[c] /\ \A x \in Box \ {m} : saved'[x] = saved[x]
        BY <1>1, <1>2, <1>6, <2>2 DEF TypeOK
      <3> QED BY <1>12, <1>15, <2>1, <3>1
    <2>3. CASE list[c] = list[m]
      <3>1. saved' = saved /\ \A x \in Box : list'[x] = list[x]
        BY <1>1, <1>6, <1>12, <2>3
      <3>2. \A x \in Box : Members(x)' = Members(x)
        BY <3>1 DEF Members
      <3> QED BY <2>1, <3>1, <3>2
    <2> QED BY <2>2, <2>3
  <1>18. PICK rest : rest = late \ {m}
    OBVIOUS
  <1>19. /\ job'[p].at = "push" /\ job'[p].doc = list'[c] /\ job'[p].saves = job[p].saves
         /\ job'[p].todo = rest /\ job'[p].todo \subseteq Members(c)' \ {c}
         /\ Lists(c, {}, rest)'
    BY <1>5, <1>9, <1>10, <1>13, <1>14, <1>15, <1>18
  <1>20. ListsInv(p)'
    BY <1>16, <1>17, <1>19 DEF ListsInv, New, At, Pushes
  <1> QED BY <1>2, <1>11, <1>20, OneLeadsThen

LEMMA AddRequestPeace ==
    ASSUME NEW e \in Proc, Peace(e), Base', NEW r \in net, AddRequest(r)
    PROVE  Kept(e)'
  <1> USE DEF Peace, Kept
  <1> DEFINE m == r.to
             w == <<m, "web">>
  <1>1. /\ r.kind = "add-request" /\ job[w].at = "idle" /\ UNCHANGED <<saved, token, count, play>>
    BY DEF AddRequest, Free, At
  <1>2. r.live /\ m \in Box /\ w \in Proc /\ r.from \in Proc /\ job[r.from].at = "asking" /\ TypeOK
    BY <1>1 DEF Base, TypeOK, Request, NetInv, OneInv, Awaits, Proc
  <1>3. r.from = e /\ job[e].at = "asking" /\ e[2] = "cli" /\ w # e /\ e[1] \in Box
    BY <1>1, <1>2 DEF OneInv, Works, At, Alone, Proc
  <1>4. \A q \in Proc \ {e} : job[q].at = "idle"
    <2>1. \A q \in Proc : job[q].asker # e
      BY <1>2, <1>3, IdleIsAJob DEF Base, AskInv
    <2> QED BY <2>1 DEF OneInv, At
  <1>5. \A q \in Proc : ~Works(q)
    BY <1>3, <1>4 DEF Works
  <1>6. \A q \in net : q = r
    <2> SUFFICES ASSUME NEW q \in net
                 PROVE  q = r
      OBVIOUS
    <2>1. q.live /\ q.from \in Proc /\ job[q.from].at = Awaits(q.kind)
      BY <1>2 DEF Base, NetInv, OneInv, TypeOK, Request
    <2>2. q.from = e
      BY <1>4, <2>1 DEF Awaits
    <2> QED BY <1>2, <1>3, <2>1, <2>2 DEF Base, NetInv
  <1> HIDE DEF m, w
  <1>7. CASE e[1] \in Members(m)
    <2>1. job' = Answer(job, e, FALSE) /\ net' = {} /\ UNCHANGED <<list, minted>>
      BY <1>2, <1>3, <1>6, <1>7 DEF AddRequest, m
    <2>2. job' = [job EXCEPT ![e] = Idle]
      BY <1>3, <2>1, IdleIsAJob DEF Answer
    <2>3. (\A q \in Proc : job'[q].at = "idle") /\ job'[e].asker = NoJob
      BY <1>2, <1>4, <2>2 DEF TypeOK, Idle
    <2>4. OneInv(e)' /\ Leads(e, e)'
      BY <2>1, <2>3, AllIdle
    <2>5. ListsInv(e)
      BY <1>5, TheLists
    <2>6. Lists(e[1], {}, {})
      BY <1>3, <2>5 DEF ListsInv, New, At, Pushes
    <2>7. Lists(e[1], {}, {})'
      BY <1>1, <1>2, <1>3, <2>1, <2>6, ListsSame
    <2>8. \A x \in Box : Members(x)' = Members(x)
      BY <2>1 DEF Members
    <2>9. \A x \in Box : saved[x] = list[x] \/ Members(x) = {x}
      BY <1>3, <2>5 DEF ListsInv, New, At, Pushes
    <2>10. /\ \A x \in Box : list'[x] # NoCluster => list'[x].id <= minted'
           /\ \A x \in Box : saved'[x] = list'[x] \/ Members(x)' = {x}
      BY <1>1, <2>1, <2>5, <2>8, <2>9 DEF ListsInv
    <2>11. ListsInv(e)'
      BY <2>3, <2>7, <2>10 DEF ListsInv, New, At, Pushes
    <2> QED BY <2>4, <2>11, OneLeadsThen
  <1>8. CASE e[1] \notin Members(m)
    <2>1. net \ {r} = {}
      BY <1>6
    <2>2. Adding(w, e[1], "token", e, {})
      BY <1>2, <1>3, <1>8, <2>1 DEF AddRequest, m, w
    <2>3. w[2] = "web" /\ saved' = saved /\ play' = play /\ e \in Proc \cup {NoJob}
          /\ "token" \in {"password", "token"}
      BY <1>1 DEF w
    <2> QED BY <1>1, <1>2, <1>3, <1>5, <2>2, <2>3, AddingPeace
  <1> QED BY <1>7, <1>8

(* Nobody's time runs out, nothing is reconciled, and the power stays on.    *)
LEMMA NoneElse ==
    ASSUME NEW e \in Proc, Peace(e)
    PROVE  /\ \A p \in Proc : ~Timeout(p)
           /\ \A p \in Proc : ~Reconcile(p)
           /\ \A b \in Box : ~Crash(b)
  <1> USE DEF Peace, Kept
  <1>1. ASSUME NEW p \in Proc, Timeout(p)
        PROVE  FALSE
    <2>1. ~Tally("timeout")
      BY DEF Tally, Alone, Base, TypeOK
    <2>2. PICK r \in net : r.from = p /\ r.live /\ ~Free(r.to)
      BY <1>1, <2>1 DEF Timeout, Blocked
    <2> DEFINE w == <<r.to, "web">>
    <2>3. /\ w \in Proc /\ job[w].at # "idle" /\ job[p].at # "idle" /\ r.to # p[1]
          /\ w # p /\ w[2] = "web"
      <3>1. r.to \in Box /\ r.to # p[1]
        BY <2>2 DEF Base, TypeOK, Request, OneInv
      <3>2. w \in Proc /\ w[1] = r.to /\ w[2] = "web"
        BY <3>1 DEF Proc
      <3>3. job[w].at # "idle"
        BY <2>2 DEF Free, At
      <3>4. job[p].at # "idle"
        BY <1>1 DEF Timeout
      <3> QED BY <3>1, <3>2, <3>3, <3>4
    <2> HIDE DEF w
    <2>4. CASE w = e
      <3>1. job[e].at # "asking"
        BY <2>3, <2>4 DEF OneInv, At, Alone
      <3> QED BY <2>3, <2>4, <3>1 DEF OneInv, At
    <2>5. CASE w # e
      <3>1. job[w].asker = e /\ e # NoJob
        BY <2>3, <2>5, IdleIsAJob DEF OneInv, At
      <3>2. p # e
        BY <2>2, <2>3, <3>1 DEF Base, AskInv
      <3>3. job[p].asker = e
        BY <2>3, <3>2 DEF OneInv, At
      <3> QED BY <2>3, <3>1, <3>3 DEF Base, AskInv
    <2> QED BY <2>4, <2>5
  <1>2. ASSUME NEW q \in Proc, Reconcile(q)
        PROVE  FALSE
    <2>1. PICK p \in Proc : ListsInv(p)
      BY TheLists
    <2>2. \A x, y \in Box : y \in Members(x) => Kin(x, y)
      BY <2>1 DEF ListsInv, Lists
    <2>3. q[1] \in Box /\ Members(q[1]) \subseteq Box
      BY ListTypes DEF Base, Proc
    <2> QED BY <1>2, <2>2, <2>3 DEF Reconcile, Elsewhere, Kin
  <1>3. ASSUME NEW b \in Box, Crash(b)
        PROVE  FALSE
    <2>1. ~Tally("crash")
      BY DEF Tally, Alone, Base, TypeOK
    <2> QED BY <1>3, <2>1 DEF Crash
  <1> QED BY <1>1, <1>2, <1>3

LEMMA StutterPeace ==
    ASSUME NEW e \in Proc, Peace(e), UNCHANGED vars
    PROVE  Kept(e)'
  <1> USE DEF Peace, Kept
  <1>1. OneInv(e)'
    BY DEF vars, OneInv, At, Works
  <1>2. \A p \in Proc : Leads(e, p)' => Leads(e, p)
    BY DEF vars, Leads, Works
  <1>3. ASSUME NEW p \in Proc, ListsInv(p)
        PROVE  ListsInv(p)'
    <2> DEFINE new == New(p)
               late == IF Pushes(p) THEN job[p].todo ELSE {}
    <2>1. p[1] \in Box /\ TypeOK /\ new \in SUBSET Box
      BY DEF Proc, Base, At, JobInv, New, Doc
    <2>2. PICK n : n = new /\ n \in SUBSET Box
      BY <2>1
    <2>3. PICK l : l = late
      OBVIOUS
    <2>4. n = new /\ l = late
      BY <2>2, <2>3
    <2>5. Lists(p[1], n, l)
      BY <1>3, <2>4 DEF ListsInv
    <2>6. Lists(p[1], n, l)'
      <3>1. l \subseteq l /\ list' = list /\ play' = play
        BY DEF vars
      <3> QED BY <2>1, <2>5, <2>2, <3>1, ListsStay
    <2>7. (n = new)' /\ (l = late)'
      BY <2>4 DEF vars, New, Members, At, Pushes
    <2>8. Lists(p[1], new, late)'
      BY <2>6, <2>7
    <2>9. \A x \in Box : Members(x)' = Members(x)
      BY DEF vars, Members
    <2> QED BY <1>3, <2>1, <2>8, <2>9 DEF vars, ListsInv, New, Writes, At, Pushes
  <1> QED BY <1>1, <1>2, <1>3

LEMMA PeaceStep ==
    ASSUME NEW e \in Proc, Peace(e), [Next]_vars
    PROVE  Peace(e)'
  <1>1. Base' /\ SelfInv' /\ Alone(e)'
    BY StepBase, SelfStep, PlayStays DEF Peace, Alone
  <1>2. ASSUME NEW p \in Proc, Edit(p)
        PROVE  Kept(e)'
    BY <1>1, <1>2, StartAddPeace, StartRemovePeace, StartSyncPeace, StartJoinPeace,
       StartInitPeace, NoneElse DEF Edit
  <1>3. ASSUME NEW p \in Proc, Step(p)
        PROVE  Kept(e)'
    BY <1>1, <1>3, AddMemberPeace, WriteListPeace, PushPeace, PushEndsPeace, SavePeace DEF Step
  <1>4. ASSUME NEW b \in Box, Serve(b)
        PROVE  Kept(e)'
    BY <1>1, <1>4, JoinPeace, TakeListPeace, AddRequestPeace DEF Serve
  <1>5. ASSUME UNCHANGED vars
        PROVE  Kept(e)'
    BY <1>5, StutterPeace
  <1>6. Kept(e)'
    <2>1. CASE \E p \in Proc : Edit(p) \/ Step(p) \/ Timeout(p)
      BY <1>2, <1>3, <2>1, NoneElse
    <2>2. CASE \E b \in Box : Serve(b) \/ Crash(b)
      BY <1>4, <2>2, NoneElse
    <2> QED BY <1>5, <2>1, <2>2 DEF Next
  <1> QED BY <1>1, <1>6 DEF Peace

LEMMA PeaceInit ==
    ASSUME NEW e \in Proc, Alone(e), Init
    PROVE  Peace(e)
  <1>1. Base /\ SelfInv
    BY InitBase DEF Init, SelfInv, SelfInList, At, Idle
  <1>2. \A p \in Proc : job[p].at = "idle" /\ job[p].asker = NoJob
    BY DEF Init, Idle
  <1>3. OneInv(e) /\ \A p \in Proc : Leads(e, p) => p = e
    BY <1>2 DEF Init, OneInv, Leads, Works, At
  <1>4. /\ \A x \in Cluster0 : Members(x) = Cluster0 /\ list[x] # NoCluster /\ list[x].id = 0
        /\ \A x \in Box \ Cluster0 : Members(x) = {} /\ list[x] = NoCluster
    <2>1. \A x \in Cluster0 : x \in Box /\ list[x] = [id |-> 0, members |-> Cluster0]
      BY ClusterAssumption DEF Init
    <2>2. [id |-> 0, members |-> Cluster0] \in Doc
      BY ClusterAssumption DEF Doc
    <2>3. \A x \in Cluster0 : list[x] # NoCluster
      BY <2>1, <2>2, IdleIsAJob
    <2>4. \A x \in Box \ Cluster0 : list[x] = NoCluster
      BY DEF Init
    <2> QED BY <2>1, <2>3, <2>4 DEF Members
  <1>5. \A x, y \in Box : Kin(x, y) <=> x \in Cluster0 /\ y \in Cluster0
    BY <1>4 DEF Kin
  <1>6. e[1] \in Box /\ Cluster0 \subseteq Box
    BY ClusterAssumption DEF Proc
  <1>7. Lists(e[1], {}, {})
    <2>1. CASE e[1] \in Cluster0
      BY <1>4, <1>5, <1>6, <2>1 DEF Lists
    <2>2. CASE e[1] \notin Cluster0
      BY <1>4, <1>5, <1>6, <2>2 DEF Lists
    <2> QED BY <2>1, <2>2
  <1>8. ListsInv(e)
    BY <1>2, <1>4, <1>7 DEF ListsInv, New, At, Pushes, Init
  <1> QED BY <1>1, <1>3, <1>8 DEF Peace, Kept

(* From here on `PeaceInv' of Cluster.tla holds, with what the other        *)
(* invariants say.                                                           *)
InPeace == \A e \in Proc : Alone(e) => Peace(e)

LEMMA PeaceHolds == Spec => []InPeace
  <1>1. Init => InPeace
    BY PeaceInit DEF InPeace
  <1>2. InPeace /\ [Next]_vars => InPeace'
    <2> SUFFICES ASSUME InPeace, [Next]_vars, NEW e \in Proc, Alone(e)'
                 PROVE  Peace(e)'
      BY DEF InPeace
    <2>1. Alone(e)
      BY PlayStays DEF Alone
    <2> QED BY <2>1, PeaceStep DEF InPeace
  <1> QED BY <1>1, <1>2, PTL DEF Spec

(* Nobody is at work: the lists are those the next editor would find.        *)
LEMMA QuietLists ==
    ASSUME NEW e \in Proc, Peace(e), Quiet
    PROVE  /\ e[1] \in Box /\ TypeOK /\ Lists(e[1], {}, {})
           /\ \A x \in Box : saved[x] = list[x] \/ Members(x) = {x}
           /\ \A x \in Box : Members(x) \subseteq Box
  <1>1. \A p \in Proc : job[p].at = "idle"
    BY DEF Quiet, At
  <1>2. Leads(e, e)
    BY <1>1 DEF Leads, Works
  <1>3. ListsInv(e)
    BY <1>2 DEF Peace, Kept
  <1>4. Lists(e[1], {}, {}) /\ \A x \in Box : saved[x] = list[x] \/ Members(x) = {x}
    BY <1>1, <1>3 DEF ListsInv, New, At, Pushes
  <1>5. e[1] \in Box /\ TypeOK
    BY DEF Proc, Peace, Base
  <1> QED BY <1>4, <1>5, ListTypes

LEMMA QuietAgrees ==
    ASSUME NEW e \in Proc, Peace(e), Quiet, NEW a \in Box, NEW b \in Box, Trusted(a, b)
    PROVE  list[a] = list[b] /\ saved[a] = saved[b]
  <1> DEFINE c == e[1]
  <1>1. /\ c \in Box /\ TypeOK /\ Lists(c, {}, {})
        /\ \A x \in Box : saved[x] = list[x] \/ Members(x) = {x}
        /\ \A x \in Box : Members(x) \subseteq Box
    BY QuietLists
  <1> HIDE DEF c
  <1>2. CASE a = b
    BY <1>2
  <1>3. CASE a # b
    <2>1. a \in Members(b) /\ b \in Members(a)
      BY DEF Trusted
    <2>2. Kin(a, b) /\ Kin(b, a)
      BY <1>1, <2>1 DEF Lists
    <2>3. Members(a) = Members(b)
      <3>1. CASE Kin(a, c)
        <4>1. Kin(b, c)
          BY <1>1, <2>2, <3>1, KinFacts
        <4>2. a \in Members(c) \/ b \in Members(c)
          BY <1>1, <1>3, <3>1, <4>1 DEF Lists
        <4>3. \A m \in Members(c) : Members(m) = Members(c)
          BY <1>1 DEF Lists
        <4> QED BY <2>1, <4>2, <4>3
      <3>2. CASE ~Kin(a, c)
        <4>1. ~Kin(b, c)
          BY <1>1, <2>2, <3>2, KinFacts
        <4>2. \A y \in Box : (y \in Members(a) <=> Kin(a, y)) /\ (y \in Members(b) <=> Kin(b, y))
          BY <1>1, <3>2, <4>1 DEF Lists
        <4>3. \A y \in Box : Kin(a, y) <=> Kin(b, y)
          BY <2>2, KinFacts
        <4>4. \A y \in Box : y \in Members(a) <=> y \in Members(b)
          BY <4>2, <4>3
        <4> QED BY <1>1, <4>4
      <3> QED BY <3>1, <3>2
    <2>4. /\ list[a] \in Doc /\ list[b] \in Doc /\ list[a].id = list[b].id
          /\ list[a].members = list[b].members
      BY <1>1, <2>2, <2>3 DEF Kin, Members, TypeOK
    <2>5. list[a] = list[b]
      BY <2>4 DEF Doc
    <2>6. saved[a] = list[a] /\ saved[b] = list[b]
      <3>1. Members(a) # {a} /\ Members(b) # {b}
        BY <1>3, <2>1
      <3>2. \A x \in Box : saved[x] = list[x] \/ Members(x) = {x}
        BY <1>1
      <3> QED BY <3>1, <3>2
    <2> QED BY <2>5, <2>6
  <1> QED BY <1>2, <1>3

LEMMA QuietIsMutual ==
    ASSUME NEW e \in Proc, Peace(e), Quiet, "remove" \notin play.op,
           NEW a \in Box, NEW b \in Box, a \in Members(b)
    PROVE  b \in Members(a)
  <1> DEFINE c == e[1]
  <1>1. c \in Box /\ Lists(c, {}, {})
    BY QuietLists
  <1> HIDE DEF c
  <1>2. Kin(b, a) /\ Kin(a, b)
    BY <1>1, KinFacts DEF Lists
  <1>3. CASE Kin(b, c)
    <2>1. Kin(a, c)
      BY <1>1, <1>2, <1>3, KinFacts
    <2>2. a \in Members(c) /\ b \in Members(c)
      BY <1>1, <1>3, <2>1 DEF Lists
    <2> QED BY <1>1, <2>2 DEF Lists
  <1>4. CASE ~Kin(b, c)
    <2>1. ~Kin(a, c)
      BY <1>1, <1>2, <1>4, KinFacts
    <2> QED BY <1>1, <1>2, <2>1 DEF Lists
  <1> QED BY <1>3, <1>4

(* Of any number of boxes, with any lists to begin with that agree, and      *)
(* after any number of edits: while one process edits in peace, whatever it  *)
(* adds, removes, asks for and syncs, members that list one another hold the *)
(* same list once nothing is on its way, in RAM and on the media.            *)
THEOREM OneEditorAgreesCorrect == Spec => []OneEditorAgrees
  <1>1. InPeace => OneEditorAgrees
    <2> SUFFICES ASSUME InPeace, NEW e \in Proc, Alone(e), Quiet,
                        NEW a \in Box, NEW b \in Box, Trusted(a, b)
                 PROVE  list[a] = list[b] /\ saved[a] = saved[b]
      BY DEF OneEditorAgrees, SameList
    <2>1. Peace(e)
      BY DEF InPeace
    <2> QED BY <2>1, QuietAgrees
  <1>2. Spec => []InPeace
    BY PeaceHolds
  <1> QED BY <1>1, <1>2, PTL

(* And if nobody is removed, whoever is in a box's list has that box in its  *)
(* own: nobody is taken in by halves.                                        *)
THEOREM OneEditorIsMutualCorrect == Spec => []OneEditorIsMutual
  <1>1. InPeace => OneEditorIsMutual
    <2> SUFFICES ASSUME InPeace, NEW e \in Proc, Alone(e), "remove" \notin play.op, Quiet,
                        NEW a \in Box, NEW b \in Box, a \in Members(b)
                 PROVE  b \in Members(a)
      BY DEF OneEditorIsMutual, Mutual
    <2>1. Peace(e)
      BY DEF InPeace
    <2> QED BY <2>1, QuietIsMutual
  <1>2. Spec => []InPeace
    BY PeaceHolds
  <1> QED BY <1>1, <1>2, PTL

-----------------------------------------------------------------------------
(* The rolling update of the members. *)

USE MemberAssumption, ReleaseAssumption, OffAssumption, FaultAssumption

LEMMA RollInitType ==
    RollInit => RollTypeOK
  <1> SUFFICES ASSUME RollInit PROVE RollTypeOK
    OBVIOUS
  <1>1. 0 \in Release
    BY DEF Release
  <1>2. Unasked \in Row
    BY DEF Unasked, Row, Verdict
  <1> QED BY <1>1, <1>2 DEF RollInit, RollTypeOK, Verdict

LEMMA RollFaultType ==
    ASSUME faults \in Nat, Fault \/ UNCHANGED faults
    PROVE  faults' \in Nat
  BY DEF Fault

(* A row is what the member says or that it is silent. *)
LEMMA RollSummaryType ==
    ASSUME RollTypeOK, NEW m \in Member
    PROVE  Summary(m) \in Row
  BY DEF RollTypeOK, Summary, Row, Unasked, Verdict, Release

LEMMA RollPublishType ==
    ASSUME latest \in Release, Publish
    PROVE  latest' \in Release
  BY DEF Publish, Release

(* Every step keeps the types. *)
LEMMA RollStepType ==
    ASSUME RollTypeOK, [RollNext]_rollVars
    PROVE  RollTypeOK'
  <1> USE DEF RollTypeOK, Verdict
  <1>1. ASSUME NEW b \in Member, Tick(b) PROVE RollTypeOK'
    <2>1. [m \in Member |-> Unasked] \in [Member -> Row]
      BY DEF Row, Unasked, Release
    <2> QED BY <1>1, <2>1 DEF Tick
  <1>2. ASSUME NEW b \in Member, NEW m \in Member, Ask(b, m) PROVE RollTypeOK'
    <2>1. Summary(m) \in Row
      BY RollSummaryType
    <2>2. seen' \in [Member -> [Member -> Row]]
      BY <1>2, <2>1 DEF Ask
    <2> QED BY <1>2, <2>2 DEF Ask
  <1>3. ASSUME NEW b \in Member, Hold(b) PROVE RollTypeOK'
    BY <1>3 DEF Hold
  <1>4. ASSUME NEW b \in Member, Go(b) PROVE RollTypeOK'
    BY <1>4 DEF Go
  <1>5. ASSUME NEW b \in Member, Write(b) PROVE RollTypeOK'
    BY <1>5 DEF Write
  <1>6. ASSUME NEW b \in Member, Apply(b) PROVE RollTypeOK'
    BY <1>6 DEF Apply
  <1>7. ASSUME NEW b \in Member, Reboot(b) PROVE RollTypeOK'
    BY <1>7 DEF Reboot
  <1>8. ASSUME NEW b \in Member, Halt(b) PROVE RollTypeOK'
    BY <1>8 DEF Halt, Down
  <1>9. ASSUME NEW b \in Member, ApplyFails(b) PROVE RollTypeOK'
    BY <1>9, RollFaultType DEF ApplyFails
  <1>10. ASSUME NEW b \in Member, Signal(b) PROVE RollTypeOK'
    BY <1>10, RollFaultType DEF Signal
  <1>11. ASSUME NEW b \in Member, PowerLoss(b) PROVE RollTypeOK'
    BY <1>11, RollFaultType DEF PowerLoss, Down
  <1>12. ASSUME NEW b \in Member, Boot(b) PROVE RollTypeOK'
    BY <1>12 DEF Boot
  <1>13. ASSUME NEW b \in Member, Report(b) PROVE RollTypeOK'
    <2>1. PICK v \in {"green", "critical"} :
            /\ verdict' = [verdict EXCEPT ![b] = v]
            /\ IF v = "critical" THEN Fault ELSE UNCHANGED faults
      BY <1>13 DEF Report
    <2>2. faults' \in Nat
      BY <2>1, RollFaultType
    <2>3. unjudged' \in [Member -> BOOLEAN]
      <3>1. (fence[b] /\ unjudged[b]) \in BOOLEAN
        OBVIOUS
      <3> QED BY <1>13, <3>1 DEF Report
    <2> QED BY <1>13, <2>1, <2>2, <2>3 DEF Report
  <1>14. ASSUME Publish PROVE RollTypeOK'
    <2>1. latest' \in Release
      BY <1>14, RollPublishType
    <2> QED BY <1>14, <2>1 DEF Publish
  <1>15. ASSUME UNCHANGED rollVars PROVE RollTypeOK'
    BY <1>15 DEF rollVars
  <1> QED BY <1>1, <1>2, <1>3, <1>4, <1>5, <1>6, <1>7, <1>8, <1>9, <1>10,
             <1>11, <1>12, <1>13, <1>14, <1>15 DEF RollNext, Update

(* The types hold in every reachable state. *)
THEOREM RollTypeCorrect ==
    RollSpec => []RollTypeOK
  <1>1. RollInit => RollTypeOK
    BY RollInitType
  <1>2. RollTypeOK /\ [RollNext]_rollVars => RollTypeOK'
    BY RollStepType
  <1> QED BY <1>1, <1>2, PTL DEF RollSpec

-----------------------------------------------------------------------------

(* A run is about the one release, and starts on a box that lacks it.      *)
RunInv ==
    \A b \in Member :
       /\ on[b] = 1 => latest = 1
       /\ pc[b] \in {"gather", "fetch"} => target[b] = 1 /\ latest = 1 /\ on[b] = 0
       /\ pc[b] = "write" => latest = 1 /\ on[b] = None

(* A row with the release on it is still true.                             *)
SeenInv == \A b, m \in Member : seen[b][m].commit = 1 => on[m] = 1

(* A member at risk has every lower one on the release.                    *)
OrderInv == \A b \in Member : AtRisk(b) => \A m \in Member : m < b => on[m] = 1

RollInv == RollTypeOK /\ RunInv /\ SeenInv /\ OrderInv

LEMMA UnaskedCommit == (MaxRelease = 1) => Unasked.commit = 2
  BY DEF Unasked, None

(* Going down, and a failed run, only end the run. *)
LEMMA ToIdle ==
    ASSUME NEW b \in Member, Halt(b) \/ PowerLoss(b) \/ ApplyFails(b)
    PROVE  UNCHANGED <<on, latest, target>> /\ pc' = [pc EXCEPT ![b] = "idle"]
  <1>1. CASE Down(b)
    BY <1>1 DEF Down
  <1>2. CASE ApplyFails(b)
    BY <1>2 DEF ApplyFails
  <1> QED BY <1>1, <1>2 DEF Halt, PowerLoss

LEMMA SummaryTrue ==
    ASSUME MaxRelease = 1, NEW m \in Member, Summary(m).commit = 1
    PROVE  on[m] = 1
  <1>1. ~up[m] => Summary(m).commit = None
    BY DEF Summary, Unasked
  <1> QED BY <1>1 DEF Summary, None

(* The release, once taken, is for good.                                   *)
LEMMA Taken ==
    ASSUME MaxRelease = 1, RollInv, [RollNext]_rollVars, NEW m \in Member, on[m] = 1
    PROVE  on'[m] = 1
  <1> USE DEF RollInv, RunInv, RollTypeOK
  <1>1. ASSUME NEW b \in Member, Write(b) PROVE on'[m] = 1
    BY <1>1 DEF Write
  <1>2. ASSUME NEW b \in Member, Apply(b) PROVE on'[m] = 1
    BY <1>2 DEF Apply
  <1>3. on' = on \/ \E b \in Member : Write(b) \/ Apply(b)
    BY DEF RollNext, Update, Tick, Ask, Hold, Go, Reboot, Halt, Down, ApplyFails,
           Signal, PowerLoss, Boot, Report, Publish, rollVars
  <1> QED BY <1>1, <1>2, <1>3

LEMMA RollInitInv ==
    MaxRelease = 1 /\ RollInit => RollInv
  <1> SUFFICES ASSUME MaxRelease = 1, RollInit PROVE RollInv
    OBVIOUS
  <1>1. RunInv
    BY DEF RollInit, RunInv
  <1>2. SeenInv
    BY UnaskedCommit DEF RollInit, SeenInv
  <1>3. OrderInv
    BY DEF RollInit, OrderInv, AtRisk, None
  <1> QED BY RollInitType, <1>1, <1>2, <1>3 DEF RollInv

LEMMA RunStep ==
    ASSUME MaxRelease = 1, RollInv, [RollNext]_rollVars
    PROVE  RunInv'
  <1> USE DEF RollInv, RunInv, RollTypeOK, Release, None
  <1>1. ASSUME NEW b \in Member, Tick(b) PROVE RunInv'
    <2>1. on[b] = 0 /\ latest = 1
      BY <1>1 DEF Tick
    <2> QED BY <1>1, <2>1 DEF Tick
  <1>2. ASSUME NEW b \in Member, Hold(b) \/ Reboot(b) PROVE RunInv'
    BY <1>2 DEF Hold, Reboot
  <1>3. ASSUME NEW b \in Member, Go(b) PROVE RunInv'
    BY <1>3 DEF Go, Gathered
  <1>4. ASSUME NEW b \in Member, Write(b) PROVE RunInv'
    BY <1>4 DEF Write
  <1>5. ASSUME NEW b \in Member, Apply(b) PROVE RunInv'
    BY <1>5 DEF Apply
  <1>6. ASSUME NEW b \in Member, Halt(b) \/ PowerLoss(b) PROVE RunInv'
    BY <1>6, ToIdle
  <1>7. ASSUME NEW b \in Member, ApplyFails(b) PROVE RunInv'
    BY <1>7, ToIdle
  <1>8. ASSUME Publish PROVE RunInv'
    BY <1>8 DEF Publish
  <1>9. ASSUME UNCHANGED <<pc, target, latest, on>> PROVE RunInv'
    BY <1>9
  <1>10. \/ UNCHANGED <<pc, target, latest, on>> \/ Publish
         \/ \E b \in Member : \/ Tick(b) \/ Hold(b) \/ Go(b) \/ Reboot(b)
                           \/ Write(b) \/ Apply(b) \/ Halt(b) \/ PowerLoss(b)
                           \/ ApplyFails(b)
    BY DEF RollNext, Update, Ask, Signal, Boot, Report, rollVars
  <1> QED BY <1>1, <1>2, <1>4, <1>5, <1>6, <1>7, <1>8, <1>9, <1>10, <1>3

LEMMA SeenStep ==
    ASSUME MaxRelease = 1, RollInv, [RollNext]_rollVars
    PROVE  SeenInv'
  <1> SUFFICES ASSUME NEW b \in Member, NEW m \in Member, seen'[b][m].commit = 1
               PROVE  on'[m] = 1
    BY DEF SeenInv
  <1> USE DEF RollInv, RollTypeOK
  <1>1. CASE seen'[b][m] = seen[b][m]
    BY <1>1, Taken DEF SeenInv
  <1>2. CASE Tick(b)
    <2>1. seen'[b][m] = Unasked
      BY <1>2 DEF Tick
    <2> QED BY <2>1, UnaskedCommit
  <1>3. CASE Ask(b, m)
    <2>1. seen'[b][m] = Summary(m)
      BY <1>3 DEF Ask
    <2>2. on[m] = 1
      BY <2>1, SummaryTrue
    <2> QED BY <2>2, Taken
  <1>4. \/ seen'[b][m] = seen[b][m] \/ Tick(b) \/ Ask(b, m)
    <2>1. ASSUME NEW c \in Member, Tick(c)
          PROVE  seen'[b][m] = seen[b][m] \/ Tick(b)
      BY <2>1 DEF Tick
    <2>2. ASSUME NEW c \in Member, NEW n \in Member, Ask(c, n)
          PROVE  seen'[b][m] = seen[b][m] \/ Ask(b, m)
      BY <2>2 DEF Ask
    <2>3. \/ seen' = seen
          \/ \E c \in Member : Tick(c) \/ \E n \in Member : Ask(c, n)
      BY DEF RollNext, Update, Hold, Go, Write, Apply, Reboot, Halt, Down,
             ApplyFails, Signal, PowerLoss, Boot, Report, Publish, rollVars
    <2> QED BY <2>1, <2>2, <2>3
  <1> QED BY <1>1, <1>2, <1>3, <1>4

LEMMA OrderStep ==
    ASSUME MaxRelease = 1, RollInv, [RollNext]_rollVars
    PROVE  OrderInv'
  <1> SUFFICES ASSUME NEW b \in Member, AtRisk(b)', NEW m \in Member, m < b
               PROVE  on'[m] = 1
    BY DEF OrderInv
  <1> USE DEF RollInv, RollTypeOK
  <1>1. CASE AtRisk(b)
    BY <1>1, Taken DEF OrderInv
  <1>2. CASE Go(b)
    <2>1. m \in Member \ {b} /\ ~(b < m)
      OBVIOUS
    <2>2. target[b] = 1
      BY <1>2 DEF RunInv, Go, Gathered
    <2>3. seen[b][m].commit = 1
      BY <1>2, <2>1, <2>2 DEF Go, Clear, Lowest
    <2> QED BY <2>3, Taken DEF SeenInv
  <1>3. AtRisk(b) \/ Go(b)
    <2> USE DEF AtRisk, None, Release
    <2>1. ASSUME NEW c \in Member, Tick(c) \/ Hold(c) \/ Reboot(c) PROVE AtRisk(b)
      BY <2>1 DEF Tick, Hold, Reboot
    <2>2. ASSUME NEW c \in Member, Go(c) PROVE AtRisk(b) \/ Go(b)
      BY <2>2 DEF Go
    <2>3. ASSUME NEW c \in Member, Write(c) \/ Apply(c) PROVE AtRisk(b)
      BY <2>3 DEF Write, Apply
    <2>4. ASSUME NEW c \in Member, Halt(c) \/ PowerLoss(c) \/ ApplyFails(c)
          PROVE  AtRisk(b)
      <3>1. UNCHANGED on /\ pc' = [pc EXCEPT ![c] = "idle"]
        BY <2>4, ToIdle
      <3> QED BY <3>1
    <2>5. ASSUME UNCHANGED <<pc, on>> PROVE AtRisk(b)
      BY <2>5
    <2>6. \/ UNCHANGED <<pc, on>>
          \/ \E c \in Member : \/ Tick(c) \/ Hold(c) \/ Go(c) \/ Reboot(c)
                            \/ Write(c) \/ Apply(c) \/ Halt(c) \/ PowerLoss(c)
                            \/ ApplyFails(c)
      BY DEF RollNext, Update, Ask, Signal, Boot, Report, Publish, rollVars
    <2> QED BY <2>1, <2>2, <2>3, <2>4, <2>5, <2>6
  <1> QED BY <1>1, <1>2, <1>3

(* The order of the ids alone, on pages of any age, with marks that may be *)
(* lost, puts at most one member at risk while one release is in play.     *)
THEOREM OneMemberAtRisk ==
    ASSUME MaxRelease = 1
    PROVE  RollSpec => []OneAtRisk
  <1>1. RollInit => RollInv
    BY RollInitInv
  <1>2. RollInv /\ [RollNext]_rollVars => RollInv'
    BY RollStepType, RunStep, SeenStep, OrderStep DEF RollInv
  <1>3. RollInv => OneAtRisk
    <2> SUFFICES ASSUME RollInv, NEW b \in Member, NEW c \in Member, AtRisk(b), AtRisk(c), b < c
                 PROVE  FALSE
      BY DEF OneAtRisk
    <2>1. on[b] = 1
      BY DEF RollInv, OrderInv
    <2>2. pc[b] \in {"fetch", "write"}
      BY <2>1 DEF AtRisk, None
    <2> QED BY <2>1, <2>2 DEF RollInv, RunInv, None
  <1> QED BY <1>1, <1>2, <1>3, PTL DEF RollSpec

==============================================================================
