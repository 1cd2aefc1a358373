---------------------------- MODULE SecretsProofs ----------------------------
(***************************************************************************)
(* Secrets.tla for any number of boxes, requests, taps, late calls and     *)
(* power cuts: its types, that a request brings one copy, that what a box  *)
(* has down as done it has, and that what a box notes of others is so.     *)
(***************************************************************************)
EXTENDS Secrets, FiniteSetTheorems, TLAPS

USE SecretsAssumption

-----------------------------------------------------------------------------
(* The invariant. The box that asked has the secret, or one of the ghost's *)
(* doubts is about it.                                                     *)

Has(i) == LET b == ask[i].from
          IN b \in Box /\ (held[b] # NoValue \/ \E m \in Box : <<m, b>> \in doubt)

(* Requests are numbered as they come.                                     *)
AskInv ==
    /\ \E n \in 0..MaxAsk : Asked = 1..n
    /\ \A i \in Id : ask[i].from = NoBox => ask[i].holders = {}

OfferOK(j) ==
    /\ j.at \in {"idle", "offer", "closing", "save"} /\ j.caller = NoCaller
    /\ j.state \in {"none", "done", "denied"} /\ (j.at = "closing" => j.state # "none")

(* A process: of which request it is, one call at a time in a share and an *)
(* approval, and that what it says is done is.                             *)
JobOK(p) ==
    LET j == job[p]
    IN /\ j.at \in {"record", "offer", "approve", "close", "closing"} => j.id # 0
       /\ p[2] = "offer" => OfferOK(j)
       /\ j.at \in {"share", "approve"} => \A m, n \in j.out : m = n
       /\ j.at = "share" => held[p[1]] # NoValue
       /\ j.at \in {"share", "approve"} => p[1] \notin j.out \cup j.to
       /\ j.at = "approve" => ask[j.id].from \in j.out
       /\ j.at = "record" \/ (j.at = "share" /\ j.out = {}) => j.state = "none"
       /\ \/ j.at \in {"close", "closing", "offer"} /\ j.state = "done"
          \/ j.at = "approve" /\ j.state = "ok"
          => Has(j.id)

(* A call whose caller waits is one that the caller has sent in the step   *)
(* it is at, and has no answer to.                                         *)
Expects(j, c) ==
    /\ c.to \in j.out
    /\ c.kind = "receive" => /\ j.at = IF c.id = 0 THEN "share" ELSE "approve"
                             /\ j.state = "none" /\ (c.id # 0 => j.id = c.id)
    /\ c.kind # "receive" => j.at = c.kind /\ j.id = c.id

CallOK(c) ==
    /\ c.kind \in {"offer", "close"} => c.id # 0
    /\ c.kind = "receive" => c.value # 0 /\ (c.id # 0 => ask[c.id].from = c.to)
    /\ c.kind = "close" /\ c.state = "done" => Has(c.id)
    /\ c.live => Expects(job[c.from], c)

(* One call at a time from a caller to a box; who waits for a save waits   *)
(* for that alone.                                                         *)
WaitInv ==
    /\ \A c, d \in net : c.live /\ d.live /\ c.from = d.from /\ c.to = d.to => c = d
    /\ \A b \in Box : LET q == job[Web(b)].caller
                      IN q \in Proc => /\ b \in job[q].out /\ job[q].at \in {"share", "close"}
                                       /\ job[q].at = "share" => job[q].state = "none"
                                       /\ \A c \in net : c.live => c.from # q \/ c.to # b

ViewInv == \A b \in Box, i \in Id : view[b][i] = "done" \/ saved[b].view[i] = "done" => Has(i)

TakenInv ==
    \A i \in Id : taken[i] <= 1 /\ (taken[i] = 1 => ask[i].from \in Box /\ Decided(ask[i].from, i))

WorkInv == (\A p \in Proc : JobOK(p)) /\ (\A c \in net : CallOK(c)) /\ WaitInv

Base == TypeOK /\ AskInv /\ WorkInv /\ ViewInv /\ TakenInv

-----------------------------------------------------------------------------
(* Processes and calls *)

Answer == State \cup {"ok", "refused", "lost"}

LEMMA ProcIs ==
    /\ \A b \in Box : /\ Web(b) \in Proc /\ <<b, "offer">> \in Proc /\ Web(b) # <<b, "offer">>
                      /\ Web(b)[1] = b /\ Web(b)[2] = "web"
    /\ NoCaller \notin Proc
    /\ \A p \in Proc : p[1] \in Box /\ p[2] \in {"web", "offer"} /\ p = <<p[1], p[2]>>
BY DEF Proc, Web, NoCaller

LEMMA IdleIs ==
    /\ Idle \in Job
    /\ Idle.at = "idle" /\ Idle.id = 0 /\ Idle.out = {} /\ Idle.to = {} /\ Idle.state = "none"
    /\ Idle.caller = NoCaller
BY DEF Idle, Job, State

LEMMA CallsTyped ==
    ASSUME NEW kind \in {"receive", "offer", "close"}, NEW p \in Proc, NEW to \in SUBSET Box,
           NEW i \in 0..MaxAsk, NEW value \in Nat, NEW state \in State
    PROVE  /\ Calls(kind, p, to, i, value, state) \subseteq Call
           /\ \A c \in Calls(kind, p, to, i, value, state) :
                 /\ c.kind = kind /\ c.from = p /\ c.to \in to /\ c.id = i /\ c.value = value /\ c.state = state
                 /\ c.live
                 /\ \A d \in Calls(kind, p, to, i, value, state) : c.to = d.to => c = d
<1> DEFINE Sent(m) == [kind |-> kind, from |-> p, to |-> m, id |-> i, value |-> value, state |-> state,
                       live |-> TRUE]
<1>1. \A m \in to : Sent(m) \in Call
  BY DEF Call
<1>2. \A m : /\ Sent(m).kind = kind /\ Sent(m).from = p /\ Sent(m).to = m /\ Sent(m).id = i
             /\ Sent(m).value = value /\ Sent(m).state = state /\ Sent(m).live
  OBVIOUS
<1>3. Calls(kind, p, to, i, value, state) = {Sent(m) : m \in to}
  BY DEF Calls
<1>4. \A c \in Calls(kind, p, to, i, value, state) : \E m \in to : c = Sent(m)
  BY <1>3
<1> HIDE DEF Sent
<1> QED
  BY <1>1, <1>2, <1>4

(* Nobody is to answer p. *)
Quiet(p) == (\A c \in net : c.live => c.from # p) /\ \A b \in Box : job[Web(b)].caller # p

LEMMA QuietBy ==
    ASSUME TypeOK, WorkInv, NEW p \in Proc,
           \/ job[p].at \in {"idle", "save", "have", "record", "closing"} \/ job[p].out = {}
           \/ job[p].at \in {"share", "approve"} /\ job[p].state # "none"
    PROVE  Quiet(p)
<1>1. ASSUME NEW c \in net, c.live, c.from = p PROVE FALSE
  <2>1. Expects(job[p], c) /\ c.kind \in {"receive", "offer", "close"}
    BY <1>1 DEF WorkInv, CallOK, TypeOK, Call
  <2> QED
    BY <2>1 DEF Expects
<1>2. ASSUME NEW b \in Box, job[Web(b)].caller = p PROVE FALSE
  BY <1>2 DEF WorkInv, WaitInv
<1> QED
  BY <1>1, <1>2 DEF Quiet

(* What is so of requests stays so, and a box that shares has its value. *)
Stays ==
    /\ \A i \in Id : Has(i) => Has(i)'
    /\ \A i \in Id : ask[i].from # NoBox => ask'[i] = ask[i]
    /\ \A b \in Box : job'[Web(b)].at = "share" /\ held[b] # NoValue => held'[b] # NoValue

LEMMA AskerStays ==
    ASSUME TypeOK, Stays, NEW p \in Proc, JobOK(p), job[p].at = "approve"
    PROVE  ask'[job[p].id] = ask[job[p].id]
<1>1. job[p].id \in Id /\ ask[job[p].id].from \in Box
  BY DEF TypeOK, Job, Id, JobOK
<1> QED
  BY <1>1 DEF Stays

(* Another process, and a call in which nothing has changed. *)
LEMMA JobStays ==
    ASSUME TypeOK, Stays, NEW p \in Proc, JobOK(p), job'[p] = job[p]
    PROVE  JobOK(p)'
<1>1. job[p].id \in Id \/ job[p].id = 0
  BY DEF TypeOK, Job, Id
<1>2. p[2] = "offer" \/ (p = Web(p[1]) /\ p[1] \in Box)
  BY ProcIs DEF Web
<1>3. job[p].at = "share" => held'[p[1]] # NoValue
  BY <1>2 DEF JobOK, OfferOK, Stays
<1> QED
  BY <1>1, <1>3, AskerStays DEF JobOK, OfferOK, Stays

LEMMA CallStays ==
    ASSUME TypeOK, Stays, NEW c \in net, CallOK(c), c.live => Expects(job'[c.from], c)
    PROVE  CallOK(c)'
<1>1. c.id \in Id \/ c.id = 0
  BY DEF TypeOK, Call, Id
<1>2. c.to # NoBox
  BY DEF TypeOK, Call
<1> QED
  BY <1>1, <1>2 DEF CallOK, Stays

(* A process that nobody is to answer goes on, and may send calls. *)
LEMMA OneMoves ==
    ASSUME TypeOK, WorkInv, Stays, NEW p \in Proc, Quiet(p), \A q \in Proc \ {p} : job'[q] = job[q],
           NEW N, net' = net \cup N,
           JobOK(p)', job'[p].caller \in {NoCaller, job[p].caller},
           \A c \in N : c.from = p /\ c.live /\ CallOK(c)',
           \A c, d \in N : c.to = d.to => c = d
    PROVE  WorkInv'
<1>1. \A q \in Proc : JobOK(q)'
  BY JobStays DEF WorkInv
<1>2. \A c \in net' : CallOK(c)'
  <2>1. ASSUME NEW c \in net PROVE CallOK(c)'
    <3>1. c.live => c.from # p /\ c.from \in Proc
      BY DEF Quiet, TypeOK, Call
    <3> QED
      BY <3>1, CallStays DEF WorkInv, CallOK
  <2> QED
    BY <2>1
<1>3. \A c, d \in net' : c.live /\ d.live /\ c.from = d.from /\ c.to = d.to => c = d
  BY DEF WorkInv, WaitInv, Quiet
<1>4. ASSUME NEW b \in Box, job'[Web(b)].caller \in Proc
      PROVE  /\ b \in job'[job'[Web(b)].caller].out /\ job'[job'[Web(b)].caller].at \in {"share", "close"}
             /\ job'[job'[Web(b)].caller].at = "share" => job'[job'[Web(b)].caller].state = "none"
             /\ \A c \in net' : c.live => c.from # job'[Web(b)].caller \/ c.to # b
  <2> DEFINE q == job[Web(b)].caller
  <2>1. job'[Web(b)].caller = q /\ q \in Proc
    <3>1. Web(b) \in Proc /\ NoCaller \notin Proc
      BY ProcIs
    <3>2. job'[Web(b)].caller = job[Web(b)].caller
      BY <1>4, <3>1
    <3> QED
      BY <1>4, <3>2
  <2>2. q # p /\ job'[q] = job[q]
    BY <2>1 DEF Quiet
  <2> QED
    BY <2>1, <2>2 DEF WorkInv, WaitInv
<1>5. WaitInv'
  BY <1>3, <1>4 DEF WaitInv, Web
<1> QED
  BY <1>1, <1>2, <1>5 DEF WorkInv

(* What an answer changes: the state of the one that waits, or the calls it *)
(* waits for.                                                              *)
LEMMA AnsweredIs ==
    ASSUME NEW j \in [Proc -> Job], NEW q \in Proc, NEW m \in Box, NEW answer \in Answer, m \in j[q].out
    PROVE  LET r == Answered(j, q, m, answer)
           IN /\ r \in [Proc -> Job]
              /\ \A p \in Proc \ {q} : r[p] = j[p]
              /\ /\ r[q].at = j[q].at /\ r[q].id = j[q].id /\ r[q].to = j[q].to
                 /\ r[q].caller = j[q].caller
              /\ j[q].at \in {"share", "approve"} => r[q].out = j[q].out /\ r[q].state = answer
              /\ j[q].at \notin {"share", "approve"} =>
                    /\ r[q].out = j[q].out \ {m}
                    /\ \/ r[q].state = j[q].state
                       \/ q[2] = "offer" /\ answer \in {"done", "denied"} /\ r[q].state = answer
<1> DEFINE r == Answered(j, q, m, answer)
<1>1. j[q] \in Job
  OBVIOUS
<1>2. CASE j[q].at \in {"share", "approve"}
  <2>1. r = [j EXCEPT ![q] = [j[q] EXCEPT !.state = answer]]
    BY <1>2 DEF Answered
  <2>2. [j[q] EXCEPT !.state = answer] \in Job
    BY <1>1 DEF Job, Answer
  <2> QED
    BY <1>2, <2>1, <2>2 DEF Job
<1>3. CASE j[q].at \notin {"share", "approve"}
  <2> DEFINE s == IF q[2] = "offer" /\ j[q].state = "none" /\ answer \in {"done", "denied"}
                  THEN answer ELSE j[q].state
             k == [j[q] EXCEPT !.out = j[q].out \ {m}, !.state = s]
  <2>1. r = [j EXCEPT ![q] = k]
    BY <1>3 DEF Answered
  <2>2. k \in Job
    BY <1>1 DEF Job, Answer
  <2>3. r[q] = k /\ r \in [Proc -> Job] /\ \A p \in Proc \ {q} : r[p] = j[p]
    BY <2>1, <2>2
  <2>4. /\ k.at = j[q].at /\ k.id = j[q].id /\ k.to = j[q].to /\ k.caller = j[q].caller
        /\ k.out = j[q].out \ {m} /\ k.state = s
    BY <1>1 DEF Job
  <2> QED
    BY <1>3, <2>3, <2>4
<1> QED
  BY <1>2, <1>3

SaveIdle == [Idle EXCEPT !.at = "save"]

LEMMA SaveIdleIs ==
    /\ SaveIdle \in Job
    /\ SaveIdle.at = "save" /\ SaveIdle.id = 0 /\ SaveIdle.out = {} /\ SaveIdle.to = {}
    /\ SaveIdle.state = "none" /\ SaveIdle.caller = NoCaller
BY DEF SaveIdle, Idle, Job, State

(* Calls go or are dead, none comes. *)
Fewer == \A c \in net' : c \in net \/ (~c.live /\ \E d \in net : c = [d EXCEPT !.live = FALSE])

LEMMA DeadCall ==
    ASSUME TypeOK, WorkInv, Stays, NEW d \in net, NEW c, c = [d EXCEPT !.live = FALSE]
    PROVE  c \in Call /\ CallOK(c)'
<1>1. d \in Call /\ CallOK(d)
  BY DEF TypeOK, WorkInv
<1>2. c \in Call /\ ~c.live
  BY <1>1 DEF Call
<1>3. c.kind = d.kind /\ c.id = d.id /\ c.to = d.to /\ c.state = d.state /\ c.value = d.value
  BY <1>1 DEF Call
<1>4. c.id \in Id \/ c.id = 0
  BY <1>2 DEF Call, Id
<1>5. c.to # NoBox
  BY <1>2 DEF Call
<1> QED
  BY <1>1, <1>2, <1>3, <1>4, <1>5 DEF CallOK, Stays

(* What a handler has made of the processes before its answer is heard: *)
(* the one that answers goes on, or forgets who waits for it.            *)
Before(j, m) ==
    /\ j \in [Proc -> Job]
    /\ \A p \in Proc : \/ j[p] = job[p]
                       \/ Quiet(p) /\ j[p] \in {Idle, SaveIdle}
                       \/ p = Web(m) /\ j[p] = [job[p] EXCEPT !.caller = NoCaller]

LEMMA BeforeIs ==
    ASSUME TypeOK, NEW m \in Box, NEW j, Before(j, m), NEW p \in Proc
    PROVE  /\ j[p] \in Job /\ j[p].caller \in {NoCaller, job[p].caller}
           /\ \/ /\ j[p].at = job[p].at /\ j[p].id = job[p].id /\ j[p].out = job[p].out
                 /\ j[p].to = job[p].to /\ j[p].state = job[p].state
              \/ /\ Quiet(p) /\ j[p].at \in {"idle", "save"} /\ j[p].id = 0 /\ j[p].out = {}
                 /\ j[p].state = "none"
<1>1. job[p] \in Job /\ j[p] \in Job
  BY DEF TypeOK, Before
<1>2. CASE j[p] \in {Idle, SaveIdle} /\ Quiet(p)
  BY <1>1, <1>2, IdleIs, SaveIdleIs
<1>3. CASE j[p] = [job[p] EXCEPT !.caller = NoCaller]
  BY <1>1, <1>3 DEF Job
<1> QED
  BY <1>1, <1>2, <1>3 DEF Before

LEMMA AnswerMoves ==
    ASSUME TypeOK, WorkInv, Stays, NEW j, NEW q \in Proc \cup {NoCaller}, NEW m \in Box, NEW answer \in Answer,
           Before(j, m), job' = Answered(j, q, m, answer), Fewer,
           j[Web(m)].caller = NoCaller \/ j[Web(m)].caller # q,
           \A c \in net' : c.live => c.from # q \/ c.to # m,
           \A i \in Id : /\ q \in Proc /\ m \in j[q].out /\ i = j[q].id
                         /\ ((j[q].at = "approve" /\ answer = "ok") \/ answer = "done")
                         => Has(i)'
    PROVE  WorkInv' /\ job' \in [Proc -> Job]
<1> DEFINE Heard == q \in Proc /\ m \in j[q].out
<1>1. j \in [Proc -> Job]
  BY DEF Before
<1>2. ~Heard => job' = j
  BY DEF Answered
<1>3. \A p \in Proc : /\ job'[p].at = j[p].at /\ job'[p].id = j[p].id /\ job'[p].to = j[p].to
                      /\ job'[p].caller = j[p].caller
  BY <1>1, <1>2, AnsweredIs
<1>4. \A p \in Proc : ~Heard \/ p # q => job'[p] = j[p]
  BY <1>1, <1>2, AnsweredIs
<1>5. Heard => /\ j[q].at \in {"share", "approve"} => job'[q].out = j[q].out /\ job'[q].state = answer
               /\ j[q].at \notin {"share", "approve"} =>
                    /\ job'[q].out = j[q].out \ {m}
                    /\ \/ job'[q].state = j[q].state
                       \/ q[2] = "offer" /\ answer \in {"done", "denied"} /\ job'[q].state = answer
  BY <1>1, AnsweredIs
<1>6. Heard => /\ j[q].at = job[q].at /\ j[q].id = job[q].id /\ j[q].out = job[q].out
               /\ j[q].state = job[q].state
  BY BeforeIs
<1>7. ASSUME NEW p \in Proc PROVE JobOK(p)'
  <2>1. JobOK(p) /\ job[p] \in Job /\ (job[p].id \in Id \/ job[p].id = 0)
    BY DEF WorkInv, TypeOK, Job, Id
  <2>2. job'[p].at = "share" => held'[p[1]] # NoValue
    <3>1. p[2] = "offer" \/ (p = Web(p[1]) /\ p[1] \in Box)
      BY ProcIs DEF Web
    <3>2. job'[p].at \in {job[p].at, "idle", "save"}
      BY <1>3, BeforeIs
    <3> QED
      BY <2>1, <3>1, <3>2 DEF JobOK, OfferOK, Stays
  <2>3. job[p].at = "approve" => ask'[job[p].id] = ask[job[p].id]
    BY <2>1, AskerStays
  <2>4. CASE ~Heard \/ p # q
    <3>1. job'[p] = j[p] /\ (p[2] = "offer" => j[p].caller = NoCaller)
      BY <1>4, <2>1, <2>4, BeforeIs DEF JobOK, OfferOK
    <3> QED
      BY <3>1, <2>1, <2>2, <2>3, BeforeIs DEF JobOK, OfferOK, Stays
  <2>5. CASE Heard /\ p = q
    <3>1. /\ job'[q].at = job[q].at /\ job'[q].id = job[q].id /\ job'[q].to = job[q].to
          /\ job'[q].caller \in {NoCaller, job[q].caller} /\ job[q].out # {}
      BY <1>3, <1>6, <2>5, BeforeIs
    <3>2. CASE job[q].at \in {"share", "approve"}
      <4>1. job'[q].out = job[q].out /\ job'[q].state = answer
        BY <1>5, <1>6, <2>5, <3>2
      <4>2. q[2] # "offer"
        BY <2>1, <2>5, <3>2 DEF JobOK, OfferOK
      <4>3. \A i \in Id : i = job[q].id /\ job[q].at = "approve" /\ answer = "ok" => Has(i)'
        BY <1>6, <2>5
      <4> QED
        BY <2>1, <2>5, <2>2, <2>3, <3>1, <3>2, <4>1, <4>2, <4>3 DEF JobOK
    <3>3. CASE job[q].at \notin {"share", "approve"}
      <4>1. \/ job'[q].state = job[q].state
            \/ q[2] = "offer" /\ answer \in {"done", "denied"} /\ job'[q].state = answer
        BY <1>5, <1>6, <2>5, <3>3
      <4>2. \A i \in Id : i = job[q].id /\ answer = "done" => Has(i)'
        BY <1>6, <2>5
      <4> QED
        BY <2>1, <2>5, <2>2, <3>1, <3>3, <4>1, <4>2 DEF JobOK, OfferOK, Stays
    <3> QED
      BY <3>2, <3>3
  <2> QED
    BY <2>4, <2>5
<1>8. ASSUME NEW c \in net' PROVE CallOK(c)'
  <2>1. CASE c \in net
    <3>1. c \in Call /\ CallOK(c) /\ c.from \in Proc
      BY <2>1 DEF TypeOK, Call, WorkInv
    <3>2. ASSUME c.live PROVE Expects(job'[c.from], c)
      <4>1. Expects(job[c.from], c) /\ ~Quiet(c.from) /\ c.kind \in {"receive", "offer", "close"}
        BY <2>1, <3>1, <3>2 DEF CallOK, Quiet, Call
      <4>2. /\ j[c.from].at = job[c.from].at /\ j[c.from].id = job[c.from].id
            /\ j[c.from].out = job[c.from].out /\ j[c.from].state = job[c.from].state
        BY <3>1, <4>1, BeforeIs
      <4>3. CASE ~Heard \/ c.from # q
        BY <1>4, <3>1, <4>1, <4>2, <4>3 DEF Expects
      <4>4. CASE Heard /\ c.from = q
        <5>1. c.to # m
          BY <3>2, <4>4
        <5>2. JobOK(q)
          BY <4>4 DEF WorkInv
        <5>3. job[q].at \notin {"share", "approve"}
          BY <1>6, <4>1, <4>4, <5>1, <5>2 DEF JobOK, Expects
        <5> QED
          BY <1>3, <1>5, <1>6, <4>1, <4>4, <5>1, <5>3 DEF Expects
      <4> QED
        BY <4>3, <4>4
    <3> QED
      BY <2>1, <3>1, <3>2, CallStays
  <2>2. CASE ~c.live /\ \E d \in net : c = [d EXCEPT !.live = FALSE]
    BY <2>2, DeadCall
  <2> QED
    BY <2>1, <2>2 DEF Fewer
<1>9. \A c, d \in net' : c.live /\ d.live /\ c.from = d.from /\ c.to = d.to => c = d
  BY DEF WorkInv, WaitInv, Fewer
<1>10. ASSUME NEW b \in Box, job'[Web(b)].caller \in Proc
       PROVE  /\ b \in job'[job'[Web(b)].caller].out /\ job'[job'[Web(b)].caller].at \in {"share", "close"}
              /\ job'[job'[Web(b)].caller].at = "share" => job'[job'[Web(b)].caller].state = "none"
              /\ \A c \in net' : c.live => c.from # job'[Web(b)].caller \/ c.to # b
  <2> DEFINE p == job[Web(b)].caller
  <2>1. Web(b) \in Proc /\ NoCaller \notin Proc
    BY ProcIs
  <2>2. job'[Web(b)].caller = p /\ p \in Proc /\ j[Web(b)].caller = p
    BY <1>3, <1>10, <2>1, BeforeIs
  <2>3. /\ b \in job[p].out /\ job[p].at \in {"share", "close"}
        /\ (job[p].at = "share" => job[p].state = "none")
        /\ \A c \in net : c.live => c.from # p \/ c.to # b
    BY <2>2 DEF WorkInv, WaitInv
  <2>4. j[p].at = job[p].at /\ j[p].out = job[p].out /\ j[p].state = job[p].state
    <3>1. ~Quiet(p)
      BY <2>2 DEF Quiet
    <3> HIDE DEF p
    <3> QED
      BY <2>2, <3>1, BeforeIs
  <2>5. /\ b \in job'[p].out /\ job'[p].at \in {"share", "close"}
        /\ (job'[p].at = "share" => job'[p].state = "none")
    <3>1. CASE ~Heard \/ p # q
      BY <1>4, <2>2, <2>3, <2>4, <3>1
    <3>2. CASE Heard /\ p = q
      <4>1. b # m
        BY <2>1, <2>2, <3>2
      <4>2. JobOK(p)
        BY <2>2 DEF WorkInv
      <4>3. job[p].at = "close"
        BY <1>6, <2>3, <3>2, <4>1, <4>2 DEF JobOK
      <4> QED
        BY <1>3, <1>5, <2>2, <2>3, <2>4, <3>2, <4>1, <4>3
    <3> QED
      BY <3>1, <3>2
  <2>6. \A c \in net' : c.live => c.from # p \/ c.to # b
    BY <2>3 DEF Fewer
  <2> HIDE DEF p
  <2> QED
    BY <2>2, <2>5, <2>6
<1>11. WaitInv'
  BY <1>9, <1>10 DEF WaitInv, Web
<1>12. job' \in [Proc -> Job]
  BY <1>1, <1>2, AnsweredIs
<1> QED
  BY <1>7, <1>8, <1>11, <1>12 DEF WorkInv

(* A handler of box b that saves first keeps c's caller waiting. *)
LEMMA SaveMoves ==
    ASSUME TypeOK, WorkInv, Stays, NEW c \in net, Free(c.to), net' = net \ {c}, SavesFirst(c),
           \/ c.kind = "receive" /\ c.id = 0
           \/ c.kind = "close"
    PROVE  WorkInv' /\ job' \in [Proc -> Job]
<1> DEFINE b == c.to
           k == [Idle EXCEPT !.at = "save", !.caller = IF c.live THEN c.from ELSE NoCaller]
<1>1. c \in Call /\ CallOK(c) /\ b \in Box /\ Web(b) \in Proc /\ Web(b)[2] = "web" /\ c.from \in Proc
  BY ProcIs DEF TypeOK, WorkInv, Call
<1>2. k \in Job /\ k.at = "save" /\ k.id = 0 /\ k.out = {} /\ k.state = "none"
      /\ k.caller = IF c.live THEN c.from ELSE NoCaller
  BY <1>1, IdleIs DEF Idle, Job
<1>3. job' = [job EXCEPT ![Web(b)] = k]
  BY DEF SavesFirst
<1> HIDE DEF k
<1>4. job' \in [Proc -> Job] /\ job'[Web(b)] = k /\ \A p \in Proc \ {Web(b)} : job'[p] = job[p]
  BY <1>1, <1>2, <1>3 DEF TypeOK
<1>5. Quiet(Web(b))
  BY <1>1, QuietBy DEF Free, At
<1>6. \A p \in Proc : JobOK(p)'
  <2>1. JobOK(Web(b))'
    BY <1>1, <1>2, <1>4, "web" # "offer" DEF JobOK, OfferOK
  <2> QED
    BY <1>4, <2>1, JobStays DEF WorkInv
<1>7. ASSUME NEW d \in net' PROVE CallOK(d)'
  <2>1. d \in net /\ CallOK(d) /\ (d.live => d.from # Web(b) /\ d.from \in Proc)
    BY <1>5, <1>7 DEF Quiet, TypeOK, Call, WorkInv
  <2> QED
    BY <1>4, <2>1, CallStays DEF CallOK
<1>8. \A d, e \in net' : d.live /\ e.live /\ d.from = e.from /\ d.to = e.to => d = e
  BY DEF WorkInv, WaitInv
<1>9. ASSUME NEW a \in Box, NEW p \in Proc, job'[Web(a)].caller = p
      PROVE  /\ a \in job'[p].out /\ job'[p].at \in {"share", "close"}
             /\ job'[p].at = "share" => job'[p].state = "none"
             /\ \A d \in net' : d.live => d.from # p \/ d.to # a
  <2>1. Web(a) \in Proc /\ NoCaller \notin Proc
    BY ProcIs
  <2>2. CASE a = b
    <3>1. c.live /\ p = c.from
      BY <1>2, <1>4, <1>9, <2>1, <2>2
    <3>2. Expects(job[p], c) /\ p # Web(b)
      BY <1>1, <1>5, <3>1 DEF CallOK, Quiet
    <3>3. job'[p] = job[p]
      BY <1>4, <3>2
    <3>4. \A d \in net : d.live /\ d.from = p /\ d.to = b => d = c
      BY <3>1 DEF WorkInv, WaitInv
    <3> QED
      BY <2>2, <3>2, <3>3, <3>4 DEF Expects
  <2>3. CASE a # b
    <3>1. Web(a) # Web(b)
      BY <2>3 DEF Web
    <3>2. job[Web(a)].caller = p
      BY <1>4, <1>9, <2>1, <3>1
    <3>3. p # Web(b) /\ job'[p] = job[p]
      BY <1>4, <1>5, <3>2 DEF Quiet
    <3> QED
      BY <3>2, <3>3 DEF WorkInv, WaitInv
  <2> QED
    BY <2>2, <2>3
<1>10. WaitInv'
  BY <1>8, <1>9 DEF WaitInv, Web
<1> QED
  BY <1>4, <1>6, <1>7, <1>10 DEF WorkInv

-----------------------------------------------------------------------------
(* What a step that leaves most alone keeps *)

LEMMA StaysBy ==
    ASSUME TypeOK, \A i \in Id : ask[i].from # NoBox => ask'[i] = ask[i], doubt \subseteq doubt',
           \A b \in Box : held[b] # NoValue => held'[b] # NoValue \/ \E m \in Box : <<m, b>> \in doubt',
           \A b \in Box : job'[Web(b)].at = "share" /\ held[b] # NoValue => held'[b] # NoValue
    PROVE  Stays
BY DEF Stays, Has

LEMMA ViewsKept ==
    ASSUME TypeOK, ViewInv, Stays,
           \A b \in Box, i \in Id :
              view'[b][i] = "done" => view[b][i] = "done" \/ saved[b].view[i] = "done" \/ Has(i)',
           \A b \in Box, i \in Id :
              saved'[b].view[i] = "done" => view[b][i] = "done" \/ saved[b].view[i] = "done"
    PROVE  ViewInv'
BY DEF ViewInv, Stays

LEMMA TakenKept ==
    ASSUME TypeOK, TakenInv, Stays,
           \A i \in Id : \/ taken'[i] = 0
                         \/ /\ taken'[i] = taken[i]
                            /\ \A b \in Box : b = ask[i].from /\ Decided(b, i) => Decided(b, i)'
    PROVE  TakenInv'
<1>1. \A i \in Id : ask[i].from \in Box => ask'[i] = ask[i]
  BY DEF Stays
<1> QED
  BY <1>1 DEF TakenInv

LEMMA AskKept == ASSUME TypeOK, AskInv, ask' = ask PROVE AskInv'
BY DEF AskInv, Asked

LEMMA RestKept ==
    ASSUME TypeOK, AskInv, ViewInv, TakenInv, Stays, UNCHANGED <<ask, view, saved, taken>>
    PROVE  AskInv' /\ ViewInv' /\ TakenInv'
<1>1. ViewInv'
  BY ViewsKept
<1>2. TakenInv'
  BY TakenKept DEF Decided
<1> QED
  BY <1>1, <1>2, AskKept

(* One process changes. *)
LEMMA Moves ==
    ASSUME TypeOK, NEW p \in Proc, NEW k \in Job, job' = [job EXCEPT ![p] = k]
    PROVE  job' \in [Proc -> Job] /\ job'[p] = k /\ \A q \in Proc \ {p} : job'[q] = job[q]
BY DEF TypeOK

(* A request handler begins. *)
LEMMA Begun ==
    ASSUME TypeOK, WorkInv, Stays, NEW b \in Box, NEW k \in Job, Starts(b, k), k.caller = NoCaller,
           \/ k.at \in {"save", "have"}
           \/ (/\ k.at = "share" /\ k.out = {} /\ k.state = "none" /\ b \notin k.to
               /\ held'[b] # NoValue),
           net' = net
    PROVE  WorkInv' /\ job' \in [Proc -> Job]
<1>1. Web(b) \in Proc /\ Web(b)[1] = b /\ Web(b)[2] = "web" /\ "web" # "offer"
  BY ProcIs
<1>2. Quiet(Web(b))
  BY <1>1, QuietBy DEF Starts, Free, At
<1>3. job' \in [Proc -> Job] /\ job'[Web(b)] = k /\ \A q \in Proc \ {Web(b)} : job'[q] = job[q]
  BY <1>1, Moves DEF Starts
<1>4. JobOK(Web(b))'
  BY <1>1, <1>3 DEF JobOK
<1> DEFINE N == {}
<1>5. /\ net' = net \cup N
      /\ \A c \in N : c.from = Web(b) /\ c.live /\ CallOK(c)'
      /\ \A c, d \in N : c.to = d.to => c = d
  OBVIOUS
<1> HIDE DEF N
<1> QED
  BY <1>1, <1>2, <1>3, <1>4, <1>5, OneMoves

(* Calls that may go out with a step. *)
LEMMA SentOK ==
    ASSUME TypeOK, Stays, NEW kind \in {"receive", "offer", "close"}, NEW p \in Proc, NEW to \in SUBSET Box,
           NEW i \in 0..MaxAsk, NEW value \in Nat, NEW state \in State,
           to \subseteq job'[p].out,
           kind = "receive" => /\ value # 0
                               /\ job'[p].at = IF i = 0 THEN "share" ELSE "approve"
                               /\ job'[p].state = "none" /\ (i # 0 => job'[p].id = i)
                               /\ \A m \in to : i # 0 => ask'[i].from = m,
           kind # "receive" => job'[p].at = kind /\ job'[p].id = i /\ i # 0,
           \A n \in Id : n = i /\ kind = "close" /\ state = "done" => Has(n)'
    PROVE  \A c \in Calls(kind, p, to, i, value, state) : c.from = p /\ c.live /\ CallOK(c)'
<1> SUFFICES ASSUME NEW c \in Calls(kind, p, to, i, value, state) PROVE c.from = p /\ c.live /\ CallOK(c)'
  OBVIOUS
<1>1. c \in Call /\ c.kind = kind /\ c.from = p /\ c.to \in to /\ c.id = i /\ c.state = state /\ c.value = value
      /\ c.live
  BY CallsTyped
<1>2. Expects(job'[p], c)
  BY <1>1 DEF Expects
<1>3. i \in Id \/ i = 0
  BY DEF Id
<1> QED
  BY <1>1, <1>2, <1>3 DEF CallOK

LEMMA NotesTyped ==
    /\ NoNotes \in Notes /\ NoViews \in Views
    /\ \A n \in Notes : Stale(n) \in Notes
BY DEF NoNotes, NoViews, Notes, Views, State, Stale

LEMMA CountTyped ==
    ASSUME TypeOK, NEW what \in {"tap", "late", "cut"}, Counts(what)
    PROVE  count' \in [tap: Nat, late: Nat, cut: Nat]
BY DEF TypeOK, Counts

(* A process that nobody is to answer goes on, and sends some calls or none. *)
LEMMA Sends ==
    ASSUME TypeOK, WorkInv, Stays, NEW p \in Proc, Quiet(p), NEW k \in Job, job' = [job EXCEPT ![p] = k],
           k.caller \in {NoCaller, job[p].caller}, JobOK(p)',
           NEW kind \in {"receive", "offer", "close"}, NEW to \in SUBSET Box, NEW i \in 0..MaxAsk,
           NEW value \in Nat, NEW state \in State,
           to \subseteq k.out, net' = net \cup Calls(kind, p, to, i, value, state),
           to # {} => /\ kind = "receive" => /\ value # 0
                                             /\ k.at = IF i = 0 THEN "share" ELSE "approve"
                                             /\ k.state = "none" /\ (i # 0 => k.id = i)
                                             /\ \A m \in to : i # 0 => ask'[i].from = m
                      /\ kind # "receive" => k.at = kind /\ k.id = i /\ i # 0
                      /\ \A n \in Id : n = i /\ kind = "close" /\ state = "done" => Has(n)'
    PROVE  WorkInv' /\ job' \in [Proc -> Job] /\ net' \subseteq Call
<1> DEFINE N == Calls(kind, p, to, i, value, state)
<1>1. job' \in [Proc -> Job] /\ job'[p] = k /\ \A q \in Proc \ {p} : job'[q] = job[q]
  BY Moves
<1>2. N \subseteq Call /\ (\A c, d \in N : c.to = d.to => c = d) /\ (to = {} => N = {})
  BY CallsTyped DEF Calls
<1>3. \A c \in N : c.from = p /\ c.live /\ CallOK(c)'
  <2>1. CASE to = {}
    BY <1>2, <2>1
  <2>2. CASE to # {}
    BY <1>1, <2>2, SentOK
  <2> QED
    BY <2>1, <2>2
<1>4. net' = net \cup N
  OBVIOUS
<1> HIDE DEF N
<1>5. WorkInv'
  BY <1>1, <1>2, <1>3, <1>4, OneMoves
<1> QED
  BY <1>1, <1>2, <1>4, <1>5 DEF TypeOK

LEMMA GoesOn ==
    ASSUME TypeOK, WorkInv, Stays, NEW p \in Proc, Quiet(p), NEW k \in Job, job' = [job EXCEPT ![p] = k],
           k.caller \in {NoCaller, job[p].caller}, JobOK(p)', net' = net
    PROVE  WorkInv' /\ job' \in [Proc -> Job]
<1>1. job' \in [Proc -> Job] /\ job'[p] = k /\ \A q \in Proc \ {p} : job'[q] = job[q]
  BY Moves
<1> DEFINE N == {}
<1>2. /\ net' = net \cup N
      /\ \A c \in N : c.from = p /\ c.live /\ CallOK(c)'
      /\ \A c, d \in N : c.to = d.to => c = d
  OBVIOUS
<1> HIDE DEF N
<1> QED
  BY <1>1, <1>2, OneMoves

(* A save of box b. *)
LEMMA Saved ==
    ASSUME TypeOK, NEW b \in Box, Keeps(b)
    PROVE  /\ saved' \in [Box -> [held: Secret, note: Notes, view: Views]]
           /\ \A m \in Box, i \in Id :
                 saved'[m].view[i] = "done" => view[m][i] = "done" \/ saved[m].view[i] = "done"
<1>1. OwnViews(b) \in Views /\ \A i \in Id : OwnViews(b)[i] = "done" => view[b][i] = "done"
  BY DEF TypeOK, OwnViews, Views, State
<1>2. /\ Snapshot(b) \in [held: Secret, note: Notes, view: Views]
      /\ Snapshot(b).view = OwnViews(b)
  BY <1>1 DEF TypeOK, Snapshot
<1>3. saved'[b] = Snapshot(b) /\ \A m \in Box \ {b} : saved'[m] = saved[m]
  BY DEF TypeOK, Keeps
<1>4. saved' \in [Box -> [held: Secret, note: Notes, view: Views]]
  BY <1>2 DEF TypeOK, Keeps
<1> QED
  BY <1>1, <1>2, <1>3, <1>4

-----------------------------------------------------------------------------
(* The owner's taps *)

LEMMA OwnerSetsBase == ASSUME Base, NEW b \in Box, OwnerSets(b) PROVE Base'
<1> USE DEF Base, OwnerSets
<1>1. count' \in [tap: Nat, late: Nat, cut: Nat]
  BY CountTyped DEF Taps
<1> DEFINE v == [value |-> count'.tap + 1, by |-> b]
<1>2. v \in Secret /\ v # NoValue
  BY <1>1 DEF Secret, NoValue
<1>3. held' \in [Box -> Secret] /\ held'[b] # NoValue /\ \A m \in Box \ {b} : held'[m] = held[m]
  BY <1>2 DEF TypeOK
<1>4. note' \in [Box -> Notes]
  BY NotesTyped DEF TypeOK
<1>5. Stays
  BY <1>3, StaysBy
<1>6. WorkInv' /\ job' \in [Proc -> Job]
  BY <1>5, Begun, SaveIdleIs DEF SaveIdle
<1>7. TypeOK'
  BY <1>1, <1>3, <1>4, <1>6 DEF TypeOK
<1> QED
  BY <1>5, <1>6, <1>7, RestKept

LEMMA OwnerDeletesBase == ASSUME Base, NEW b \in Box, OwnerDeletes(b) PROVE Base'
<1> USE DEF Base, OwnerDeletes
<1>1. count' \in [tap: Nat, late: Nat, cut: Nat]
  BY CountTyped DEF Taps
<1>2. held' \in [Box -> Secret] /\ \A m \in Box \ {b} : held'[m] = held[m]
  BY DEF TypeOK, Secret
<1>3. note' \in [Box -> Notes]
  BY NotesTyped DEF TypeOK
<1>4. doubt' \subseteq Box \X Box /\ doubt \subseteq doubt' /\ <<b, b>> \in doubt'
  BY DEF TypeOK
<1>5. job'[Web(b)] = SaveIdle
  BY ProcIs DEF TypeOK, Starts, SaveIdle
<1>6. Stays
  BY <1>2, <1>4, <1>5, SaveIdleIs, StaysBy
<1>7. WorkInv' /\ job' \in [Proc -> Job]
  BY <1>6, Begun, SaveIdleIs DEF SaveIdle
<1>8. TypeOK'
  BY <1>1, <1>2, <1>3, <1>4, <1>7 DEF TypeOK
<1> QED
  BY <1>6, <1>7, <1>8, RestKept

LEMMA OwnerUnsharesBase ==
    ASSUME Base, NEW b \in Box, NEW m \in Box, OwnerUnshares(b, m)
    PROVE  Base'
<1> USE DEF Base, OwnerUnshares
<1>1. count' \in [tap: Nat, late: Nat, cut: Nat]
  BY CountTyped DEF Taps
<1>2. note' \in [Box -> Notes]
  BY DEF TypeOK, Notes
<1>3. Stays
  BY StaysBy
<1>4. WorkInv' /\ job' \in [Proc -> Job]
  BY <1>3, Begun, SaveIdleIs DEF SaveIdle
<1>5. TypeOK'
  BY <1>1, <1>2, <1>4 DEF TypeOK
<1> QED
  BY <1>3, <1>4, <1>5, RestKept

LEMMA OwnerSharesBase ==
    ASSUME Base, NEW b \in Box, NEW to \in SUBSET Others(b), OwnerShares(b, to)
    PROVE  Base'
<1> USE DEF Base, OwnerShares
<1> DEFINE k == [Idle EXCEPT !.at = "share", !.to = to]
<1>1. count' \in [tap: Nat, late: Nat, cut: Nat]
  BY CountTyped DEF Taps
<1>2. k \in Job /\ k.at = "share" /\ k.out = {} /\ b \notin k.to /\ k.state = "none" /\ k.caller = NoCaller
  BY IdleIs DEF Job, Idle, Others
<1>3. held'[b] # NoValue
  BY DEF NoValue
<1>4. Stays
  BY StaysBy
<1>5. WorkInv' /\ job' \in [Proc -> Job]
  BY <1>3, <1>2, <1>4, Begun
<1>6. TypeOK'
  BY <1>1, <1>5 DEF TypeOK
<1> QED
  BY <1>4, <1>5, <1>6, RestKept

LEMMA RequestsBase == ASSUME Base, NEW b \in Box, Requests(b) PROVE Base'
<1> USE DEF Base, Requests
<1> DEFINE k == [Idle EXCEPT !.at = "have", !.out = Others(b)]
<1>1. count' \in [tap: Nat, late: Nat, cut: Nat]
  BY CountTyped DEF Taps
<1>2. k \in Job /\ k.at = "have" /\ k.caller = NoCaller
  BY IdleIs DEF Job, Idle, Others
<1>3. Stays
  BY StaysBy
<1>4. WorkInv' /\ job' \in [Proc -> Job]
  BY <1>2, <1>3, Begun
<1>5. TypeOK'
  BY <1>1, <1>4 DEF TypeOK
<1> QED
  BY <1>3, <1>4, <1>5, RestKept

LEMMA OwnerApprovesBase == ASSUME Base, NEW b \in Box, NEW i \in Id, OwnerApproves(b, i) PROVE Base'
<1> USE DEF Base, OwnerApproves
<1> DEFINE f == ask[i].from
           v == held[b].value
           T == {f}
           k == [Idle EXCEPT !.at = "approve", !.id = i, !.out = {f}]
<1>1. count' \in [tap: Nat, late: Nat, cut: Nat]
  BY CountTyped DEF Taps
<1>2. f \in Box /\ i \in 0..MaxAsk /\ i # 0 /\ v \in Nat /\ v # 0 /\ "none" \in State /\ ask'[i].from = f
  BY DEF AskInv, TypeOK, Ask, Id, Secret, NoValue, State
<1>3. /\ k \in Job /\ k.at = "approve" /\ k.id = i /\ k.out = T /\ k.to = {} /\ k.state = "none"
      /\ k.caller = NoCaller
  BY <1>2, IdleIs DEF Job, Idle
<1>4. Stays
  BY StaysBy
<1>5. Web(b) \in Proc /\ Web(b)[1] = b /\ Web(b)[2] = "web" /\ "web" # "offer"
  BY ProcIs
<1>6. Quiet(Web(b))
  BY <1>5, QuietBy DEF Starts, Free, At
<1>7. job' = [job EXCEPT ![Web(b)] = k] /\ job'[Web(b)] = k
  BY <1>5 DEF Starts, TypeOK
<1>8. T \in SUBSET Box /\ f \in T /\ b # f /\ \A m \in T : m = f
  BY <1>2
<1> HIDE DEF k, T
<1>9. JobOK(Web(b))'
  BY <1>2, <1>3, <1>5, <1>7, <1>8 DEF JobOK
<1>10. net' = net \cup Calls("receive", Web(b), T, i, v, "none")
  BY DEF T
<1> HIDE DEF v, OwnerApproves
<1>11. WorkInv' /\ job' \in [Proc -> Job] /\ net' \subseteq Call
  BY <1>2, <1>3, <1>4, <1>5, <1>6, <1>7, <1>8, <1>9, <1>10, Sends
<1>12. TypeOK'
  BY <1>1, <1>11 DEF TypeOK, OwnerApproves
<1> QED
  BY <1>4, <1>11, <1>12, RestKept DEF OwnerApproves

LEMMA OwnerDeniesBase == ASSUME Base, NEW b \in Box, NEW i \in Id, OwnerDenies(b, i) PROVE Base'
<1> USE DEF Base, OwnerDenies
<1> DEFINE k == [Idle EXCEPT !.at = "close", !.id = i, !.out = Others(b)]
<1>1. count' \in [tap: Nat, late: Nat, cut: Nat]
  BY CountTyped DEF Taps
<1>2. i \in 0..MaxAsk /\ i # 0 /\ 0 \in Nat /\ "denied" \in State /\ Others(b) \in SUBSET Box
  BY DEF Id, State, Others
<1>3. /\ k \in Job /\ k.at = "close" /\ k.id = i /\ k.out = Others(b) /\ k.state = "none"
      /\ k.caller = NoCaller
  BY <1>2, IdleIs DEF Job, Idle
<1>4. Stays
  BY StaysBy
<1>5. Web(b) \in Proc /\ Web(b)[2] = "web" /\ "web" # "offer"
  BY ProcIs
<1>6. Quiet(Web(b))
  BY <1>5, QuietBy DEF Starts, Free, At
<1>7. job' = [job EXCEPT ![Web(b)] = k] /\ job'[Web(b)] = k
  BY <1>5 DEF Starts, TypeOK
<1>8. JobOK(Web(b))'
  BY <1>2, <1>3, <1>5, <1>7 DEF JobOK
<1> HIDE DEF k
<1>9. WorkInv' /\ job' \in [Proc -> Job] /\ net' \subseteq Call
  BY <1>2, <1>3, <1>4, <1>5, <1>6, <1>7, <1>8, Sends
<1>10. view' \in [Box -> Views]
  BY <1>2 DEF TypeOK, Views
<1>11. TypeOK'
  BY <1>1, <1>9, <1>10 DEF TypeOK
<1>12. \A a \in Box, n \in Id : view'[a][n] = view[a][n] \/ view'[a][n] = "denied"
  BY DEF TypeOK, Views
<1>13. ViewInv'
  BY <1>4, <1>12, ViewsKept
<1>14. TakenInv'
  BY <1>4, <1>12, TakenKept DEF Decided
<1> QED
  BY <1>9, <1>11, <1>13, <1>14, AskKept

-----------------------------------------------------------------------------
(* What a box goes on with *)

LEMMA SharesNextBase == ASSUME Base, NEW b \in Box, NEW m \in Box, SharesNext(b, m) PROVE Base'
<1> USE DEF Base, SharesNext
<1> DEFINE j == job[Web(b)]
           v == held[b].value
           T == {m}
           k == [[j EXCEPT !.out = T] EXCEPT !.to = j.to \ T]
<1>1. Web(b) \in Proc /\ Web(b)[1] = b /\ Web(b)[2] = "web" /\ "web" # "offer"
  BY ProcIs
<1>2. j \in Job /\ j.at = "share" /\ j.out = {} /\ JobOK(Web(b))
  BY <1>1 DEF TypeOK, WorkInv
<1>3. v # 0 /\ held'[b] # NoValue
  BY <1>1, <1>2 DEF JobOK, TypeOK, Secret, NoValue
<1>4. v \in Nat /\ 0 \in 0..MaxAsk /\ "none" \in State /\ T \in SUBSET Box /\ \A n \in T : n = m
  BY DEF TypeOK, Secret, NoValue, State
<1>5. /\ k \in Job /\ k.at = "share" /\ k.out = T /\ b \notin T /\ b \notin k.to /\ k.state = "none"
      /\ k.caller = j.caller
  BY <1>1, <1>2, <1>4 DEF Job, JobOK
<1>6. Stays
  BY StaysBy
<1>7. Quiet(Web(b))
  BY <1>1, <1>2, QuietBy
<1>8. job' = [job EXCEPT ![Web(b)] = k] /\ job'[Web(b)] = k
  BY <1>1 DEF TypeOK
<1>9. net' = net \cup Calls("receive", Web(b), T, 0, v, "none")
  OBVIOUS
<1> HIDE DEF k, v, T, SharesNext
<1>10. JobOK(Web(b))'
  BY <1>3, <1>1, <1>4, <1>5, <1>8, m \in T DEF JobOK, T
<1>11. WorkInv' /\ job' \in [Proc -> Job] /\ net' \subseteq Call
  BY <1>3, <1>1, <1>4, <1>5, <1>6, <1>7, <1>8, <1>9, <1>10, Sends
<1>12. TypeOK'
  BY <1>11 DEF TypeOK, SharesNext
<1> QED
  BY <1>6, <1>11, <1>12, RestKept DEF SharesNext

LEMMA ShareEndsBase == ASSUME Base, NEW b \in Box, ShareEnds(b) PROVE Base'
<1> USE DEF Base, ShareEnds
<1> DEFINE j == job[Web(b)]
           k == [j EXCEPT !.at = "save"]
<1>1. Web(b) \in Proc /\ Web(b)[2] = "web" /\ "web" # "offer"
  BY ProcIs
<1>2. j \in Job /\ j.out = {}
  BY <1>1 DEF TypeOK
<1>3. k \in Job /\ k.at = "save" /\ k.caller = j.caller
  BY <1>2 DEF Job
<1>4. Stays
  BY StaysBy
<1>5. Quiet(Web(b))
  BY <1>1, <1>2, QuietBy
<1>6. job' = [job EXCEPT ![Web(b)] = k] /\ job'[Web(b)] = k
  BY <1>1 DEF TypeOK
<1>7. JobOK(Web(b))'
  BY <1>1, <1>3, <1>6 DEF JobOK
<1>8. WorkInv' /\ job' \in [Proc -> Job]
  BY <1>1, <1>3, <1>4, <1>5, <1>6, <1>7, GoesOn
<1>9. TypeOK'
  BY <1>8 DEF TypeOK
<1> QED
  BY <1>4, <1>8, <1>9, RestKept

LEMMA ShareNotesBase == ASSUME Base, NEW b \in Box, NEW m \in Box, ShareNotes(b, m) PROVE Base'
<1> USE DEF Base, ShareNotes
<1> DEFINE j == job[Web(b)]
           k == [[j EXCEPT !.out = {}] EXCEPT !.state = "none"]
<1>1. Web(b) \in Proc /\ Web(b)[1] = b /\ Web(b)[2] = "web" /\ "web" # "offer"
  BY ProcIs
<1>2. j \in Job /\ j.at = "share" /\ j.state # "none" /\ held'[b] # NoValue /\ b \notin j.to
  BY <1>1 DEF TypeOK, WorkInv, JobOK
<1>3. k \in Job /\ k.at = "share" /\ k.out = {} /\ k.to = j.to /\ k.state = "none" /\ k.caller = j.caller
  BY <1>2 DEF Job, State
<1>4. Stays
  BY StaysBy
<1>5. Quiet(Web(b))
  BY <1>1, <1>2, QuietBy
<1>6. job' = [job EXCEPT ![Web(b)] = k] /\ job'[Web(b)] = k
  BY <1>1 DEF TypeOK
<1>7. JobOK(Web(b))'
  BY <1>1, <1>2, <1>3, <1>6 DEF JobOK
<1>8. WorkInv' /\ job' \in [Proc -> Job]
  BY <1>1, <1>3, <1>4, <1>5, <1>6, <1>7, GoesOn
<1>9. note' \in [Box -> Notes]
  BY DEF TypeOK, Notes
<1>10. TypeOK'
  BY <1>8, <1>9 DEF TypeOK
<1> QED
  BY <1>4, <1>8, <1>10, RestKept

LEMMA HearsBase == ASSUME Base, NEW b \in Box, NEW m \in Box, Hears(b, m) PROVE Base'
<1> USE DEF Base
<1> DEFINE j == job[Web(b)]
<1>1. PICK yes \in BOOLEAN :
         job' = [job EXCEPT ![Web(b)].out = @ \ {m},
                            ![Web(b)].to = IF yes THEN @ \cup {m} ELSE @]
  BY DEF Hears
<1> DEFINE k == [[j EXCEPT !.out = j.out \ {m}] EXCEPT !.to = IF yes THEN j.to \cup {m} ELSE j.to]
<1>2. Web(b) \in Proc /\ Web(b)[2] = "web" /\ "web" # "offer"
  BY ProcIs
<1>3. j \in Job /\ j.at = "have"
  BY <1>2 DEF TypeOK, Hears
<1>4. k \in Job /\ k.at = "have" /\ k.caller = j.caller
  BY <1>3 DEF Job
<1>5. Stays
  BY StaysBy DEF Hears
<1>6. Quiet(Web(b))
  BY <1>2, <1>3, QuietBy
<1>7. job' = [job EXCEPT ![Web(b)] = k] /\ job'[Web(b)] = k
  BY <1>1, <1>2 DEF TypeOK
<1>8. JobOK(Web(b))'
  BY <1>2, <1>4, <1>7 DEF JobOK
<1>9. WorkInv' /\ job' \in [Proc -> Job]
  BY <1>2, <1>4, <1>5, <1>6, <1>7, <1>8, GoesOn DEF Hears
<1>10. TypeOK'
  BY <1>9 DEF TypeOK, Hears
<1> QED
  BY <1>5, <1>9, <1>10, RestKept DEF Hears

LEMMA SavesRecordBase == ASSUME Base, NEW b \in Box, SavesRecord(b) PROVE Base'
<1> USE DEF Base, SavesRecord
<1> DEFINE j == job[Web(b)]
           i == j.id
           k == [[j EXCEPT !.at = "offer"] EXCEPT !.out = Others(b)]
<1>1. Web(b) \in Proc /\ Web(b)[2] = "web" /\ "web" # "offer"
  BY ProcIs
<1>2. j \in Job /\ j.at = "record" /\ JobOK(Web(b))
  BY <1>1 DEF TypeOK, WorkInv, At
<1>3. /\ i \in Id /\ i \in 0..MaxAsk /\ i # 0 /\ j.state = "none"
      /\ 0 \in Nat /\ "pending" \in State /\ Others(b) \in SUBSET Box
  BY <1>2 DEF JobOK, Job, Id, State, Others
<1>4. k \in Job /\ k.at = "offer" /\ k.id = i /\ k.out = Others(b) /\ k.state = "none" /\ k.caller = j.caller
  BY <1>2, <1>3 DEF Job
<1>5. Stays
  BY StaysBy
<1>6. Quiet(Web(b))
  BY <1>1, <1>2, QuietBy
<1>7. job' = [job EXCEPT ![Web(b)] = k] /\ job'[Web(b)] = k
  BY <1>1 DEF TypeOK
<1>8. net' = net \cup Calls("offer", Web(b), Others(b), i, 0, "pending")
  OBVIOUS
<1> HIDE DEF k, i, SavesRecord
<1>9. JobOK(Web(b))'
  BY <1>1, <1>3, <1>4, <1>7 DEF JobOK
<1>10. WorkInv' /\ job' \in [Proc -> Job] /\ net' \subseteq Call
  BY <1>1, <1>3, <1>4, <1>5, <1>6, <1>7, <1>8, <1>9, Sends
<1>11. TypeOK'
  BY <1>10, Saved DEF TypeOK, SavesRecord
<1>12. ViewInv' /\ TakenInv'
  BY <1>5, Saved, ViewsKept, TakenKept DEF Decided, SavesRecord
<1> QED
  BY <1>10, <1>11, <1>12, AskKept DEF SavesRecord

LEMMA RecordsBase == ASSUME Base, NEW b \in Box, Records(b) PROVE Base'
<1> USE DEF Base
<1> DEFINE j == job[Web(b)]
<1>1. Web(b) \in Proc /\ Web(b)[2] = "web" /\ "web" # "offer" /\ NoCaller \notin Proc
  BY ProcIs
<1>2. j \in Job /\ j.at = "have" /\ Quiet(Web(b))
  BY <1>1, QuietBy DEF TypeOK, Records
<1>3. CASE job' = [job EXCEPT ![Web(b)] = Idle] /\ UNCHANGED <<ask, view>>
  <2>1. Stays
    BY <1>3, StaysBy DEF Records
  <2>2. job'[Web(b)] = Idle
    BY <1>1, <1>3 DEF TypeOK
  <2>3. JobOK(Web(b))'
    BY <1>1, <2>2, IdleIs DEF JobOK
  <2>4. WorkInv' /\ job' \in [Proc -> Job]
    BY <1>1, <1>2, <1>3, <2>1, <2>3, IdleIs, GoesOn DEF Records
  <2>5. TypeOK'
    BY <1>3, <2>4 DEF TypeOK, Records
  <2> QED
    BY <1>3, <2>1, <2>4, <2>5, RestKept DEF Records
<1>4. ASSUME NEW i \in Id, i = Cardinality(Asked) + 1,
             ask' = [ask EXCEPT ![i] = [from |-> b, holders |-> j.to]],
             view' = [view EXCEPT ![b][i] = "pending"],
             job' = [job EXCEPT ![Web(b)] = [Idle EXCEPT !.at = "record", !.id = i]]
      PROVE  Base'
  <2>1. PICK n \in 0..MaxAsk : Asked = 1..n
    BY DEF AskInv
  <2>2. i = n + 1 /\ ask[i].from = NoBox
    <3>1. Cardinality(1..n) = n
      BY FS_Interval
    <3>2. i = n + 1
      BY <1>4, <2>1, <3>1
    <3>3. i \notin Asked
      BY <2>1, <3>2
    <3> QED
      BY <3>2, <3>3 DEF Asked
  <2>3. ask' \in [Id -> Ask] /\ ask'[i].from = b /\ \A m \in Id \ {i} : ask'[m] = ask[m]
    BY <1>2, <1>4 DEF TypeOK, Ask, Job
  <2>4. Asked' = 1..i
    <3>1. Asked' = Asked \cup {i}
      BY <2>3 DEF Asked
    <3> QED
      BY <2>1, <2>2, <3>1
  <2>5. AskInv'
    BY <2>3, <2>4 DEF AskInv, Id
  <2>6. Stays
    BY <2>2, <2>3, StaysBy DEF Records
  <2> DEFINE k == [Idle EXCEPT !.at = "record", !.id = i]
  <2>7. i \in 0..MaxAsk /\ i # 0
    BY DEF Id
  <2>8. k \in Job /\ k.at = "record" /\ k.id = i /\ i # 0 /\ k.state = "none" /\ k.caller = NoCaller
    BY <2>7, IdleIs DEF Job, Idle
  <2>9. job' = [job EXCEPT ![Web(b)] = k] /\ job'[Web(b)] = k
    BY <1>1, <1>4 DEF TypeOK
  <2> HIDE DEF k
  <2>10. JobOK(Web(b))'
    BY <1>1, <2>8, <2>9 DEF JobOK
  <2>11. WorkInv' /\ job' \in [Proc -> Job]
    BY <1>1, <1>2, <2>6, <2>8, <2>9, <2>10, GoesOn DEF Records
  <2>12. /\ view' \in [Box -> Views]
         /\ \A a \in Box, m \in Id : view'[a][m] = "done" => view[a][m] = "done"
         /\ \A a \in Box, m \in Id : m # i => view'[a][m] = view[a][m]
    BY <1>4 DEF TypeOK, Views, State
  <2>13. TypeOK'
    BY <2>3, <2>11, <2>12 DEF TypeOK, Records
  <2>14. ViewInv'
    BY <2>6, <2>12, ViewsKept DEF Records
  <2>15. TakenInv'
    BY <2>2, <2>6, <2>12, TakenKept DEF Decided, Records
  <2> QED
    BY <2>5, <2>11, <2>13, <2>14, <2>15
<1> QED
  BY <1>3, <1>4 DEF Records

LEMMA ApproveDecidesBase == ASSUME Base, NEW b \in Box, ApproveDecides(b) PROVE Base'
<1> USE DEF Base
<1> DEFINE p == Web(b)
           j == job[p]
           i == j.id
<1>1. p \in Proc /\ p[2] = "web" /\ "web" # "offer"
  BY ProcIs
<1>2. j \in Job /\ j.at = "approve" /\ j.state # "none" /\ JobOK(p)
  BY <1>1 DEF TypeOK, WorkInv, ApproveDecides, At
<1>3. /\ i \in Id /\ i \in 0..MaxAsk /\ i # 0 /\ (j.state = "ok" => Has(i))
      /\ 0 \in Nat /\ Others(b) \in SUBSET Box
  BY <1>2 DEF JobOK, Job, Id, Others
<1>4. Quiet(p)
  BY <1>1, <1>2, QuietBy
<1>5. Stays
  BY StaysBy DEF ApproveDecides
<1>6. CASE job' = [job EXCEPT ![p] = Idle] /\ UNCHANGED <<note, view, net>>
  <2>1. job'[p] = Idle
    BY <1>1, <1>6 DEF TypeOK
  <2>2. JobOK(p)'
    BY <1>1, <2>1, IdleIs DEF JobOK
  <2>3. WorkInv' /\ job' \in [Proc -> Job]
    BY <1>1, <1>4, <1>5, <1>6, <2>2, IdleIs, GoesOn
  <2>4. TypeOK'
    BY <1>6, <2>3 DEF TypeOK, ApproveDecides
  <2> QED
    BY <1>5, <1>6, <2>3, <2>4, RestKept DEF ApproveDecides
<1>7. ASSUME NEW s \in {"done", "denied"}, s = "done" => j.state = "ok",
             note' = [note EXCEPT ![b][ask[i].from] = "fresh"] \/ note' = note,
             view' = [view EXCEPT ![b][i] = s],
             job' = [job EXCEPT ![p].at = "close", ![p].out = Others(b), ![p].state = s],
             net' = net \cup Calls("close", p, Others(b), i, 0, s)
      PROVE  Base'
  <2> DEFINE k == [[[j EXCEPT !.at = "close"] EXCEPT !.out = Others(b)] EXCEPT !.state = s]
  <2>1. /\ k \in Job /\ k.at = "close" /\ k.out = Others(b) /\ k.id = i /\ k.state = s
        /\ k.caller = j.caller
    BY <1>2, <1>3 DEF Job, State
  <2>2. job' = [job EXCEPT ![p] = k] /\ job'[p] = k
    BY <1>1, <1>7 DEF TypeOK
  <2>3. s \in State /\ net' = net \cup Calls("close", p, Others(b), i, 0, s)
    BY <1>7 DEF State
  <2>4. \A n \in Id : n = i /\ s = "done" => Has(n)'
    BY <1>3, <1>5, <1>7 DEF Stays
  <2> HIDE DEF k, i
  <2>5. JobOK(p)'
    BY <1>1, <1>3, <2>1, <2>2, <2>4 DEF JobOK
  <2>6. WorkInv' /\ job' \in [Proc -> Job] /\ net' \subseteq Call
    BY <1>1, <1>3, <1>4, <1>5, <2>1, <2>2, <2>3, <2>4, <2>5, Sends, ZenonT(30)
  <2>7. /\ view' \in [Box -> Views]
        /\ \A a \in Box, n \in Id : view'[a][n] = view[a][n] \/ (n = i /\ view'[a][n] = s)
    BY <1>3, <1>7, <2>3 DEF TypeOK, Views
  <2>8. note' \in [Box -> Notes]
    <3>1. \A f : [note[b] EXCEPT ![f] = "fresh"] \in Notes
      BY DEF TypeOK, Notes
    <3> DEFINE n == [note[b] EXCEPT ![ask[i].from] = "fresh"]
    <3>2. n \in Notes
      BY <3>1
    <3>3. note' = note \/ note' = [note EXCEPT ![b] = n]
      BY <1>7
    <3> HIDE DEF n
    <3> QED
      BY <3>2, <3>3 DEF TypeOK
  <2>9. TypeOK'
    BY <2>6, <2>7, <2>8 DEF TypeOK, ApproveDecides
  <2>10. ViewInv'
    BY <1>5, <2>4, <2>7, ViewsKept DEF ApproveDecides
  <2>11. TakenInv'
    BY <1>5, <1>7, <2>7, TakenKept DEF Decided, ApproveDecides
  <2> QED
    BY <2>6, <2>9, <2>10, <2>11, AskKept DEF ApproveDecides
<1>8. CASE j.state = "lost"
  BY <1>6, <1>8 DEF ApproveDecides
<1>9. CASE j.state # "lost"
  <2> DEFINE s == IF j.state = "ok" THEN "done" ELSE "denied"
  <2>1. s \in {"done", "denied"} /\ (s = "done" => j.state = "ok")
    OBVIOUS
  <2>2. /\ note' = [note EXCEPT ![b][ask[i].from] = "fresh"] \/ note' = note
        /\ view' = [view EXCEPT ![b][i] = s]
        /\ job' = [job EXCEPT ![p].at = "close", ![p].out = Others(b), ![p].state = s]
        /\ net' = net \cup Calls("close", p, Others(b), i, 0, s)
    BY <1>9 DEF ApproveDecides
  <2> HIDE DEF s
  <2> QED
    BY <1>7, <2>1, <2>2
<1> QED
  BY <1>8, <1>9

LEMMA FanoutEndsBase == ASSUME Base, NEW b \in Box, FanoutEnds(b) PROVE Base'
<1> USE DEF Base
<1> DEFINE j == job[Web(b)]
           k == IF j.at = "close" /\ (ask[j.id].from = b \/ j.state # "none") THEN SaveIdle ELSE Idle
<1>1. Web(b) \in Proc /\ Web(b)[2] = "web" /\ "web" # "offer"
  BY ProcIs
<1>2. Quiet(Web(b))
  BY <1>1, QuietBy DEF FanoutEnds
<1>3. k \in Job /\ k.at \in {"idle", "save"} /\ k.caller = NoCaller
  BY IdleIs, SaveIdleIs
<1>4. Stays
  BY StaysBy DEF FanoutEnds
<1>5. job' = [job EXCEPT ![Web(b)] = k] /\ job'[Web(b)] = k
  BY <1>1 DEF TypeOK, FanoutEnds, SaveIdle
<1> HIDE DEF k
<1>6. JobOK(Web(b))'
  BY <1>1, <1>3, <1>5 DEF JobOK
<1>7. WorkInv' /\ job' \in [Proc -> Job]
  BY <1>1, <1>2, <1>3, <1>4, <1>5, <1>6, GoesOn DEF FanoutEnds
<1>8. TypeOK'
  BY <1>7 DEF TypeOK, FanoutEnds
<1> QED
  BY <1>4, <1>7, <1>8, RestKept DEF FanoutEnds

LEMMA ReoffersBase == ASSUME Base, NEW b \in Box, NEW i \in Id, Reoffers(b, i) PROVE Base'
<1> USE DEF Base
<1> DEFINE p == <<b, "offer">>
           k == [Idle EXCEPT !.at = "offer", !.id = i, !.out = Others(b)]
<1>1. p \in Proc /\ job[p].at = "idle"
  BY ProcIs DEF Reoffers, At
<1>2. i \in 0..MaxAsk /\ i # 0 /\ 0 \in Nat /\ "pending" \in State /\ Others(b) \in SUBSET Box
  BY DEF Id, State, Others
<1>3. /\ k \in Job /\ k.at = "offer" /\ k.id = i /\ k.out = Others(b) /\ k.state = "none"
      /\ k.caller = NoCaller
  BY <1>2, IdleIs DEF Job, Idle
<1>4. Stays
  BY StaysBy DEF Reoffers
<1>5. Quiet(p)
  BY <1>1, QuietBy
<1>6. job' = [job EXCEPT ![p] = k] /\ job'[p] = k
  BY <1>1 DEF TypeOK, Reoffers
<1> HIDE DEF k
<1>7. JobOK(p)'
  BY <1>2, <1>3, <1>6 DEF JobOK, OfferOK
<1>8. net' = net \cup Calls("offer", p, Others(b), i, 0, "pending")
  BY DEF Reoffers
<1>9. WorkInv' /\ job' \in [Proc -> Job] /\ net' \subseteq Call
  BY <1>1, <1>2, <1>3, <1>4, <1>5, <1>6, <1>7, <1>8, Sends
<1>10. TypeOK'
  BY <1>9 DEF TypeOK, Reoffers
<1> QED
  BY <1>4, <1>9, <1>10, RestKept DEF Reoffers

LEMMA ReofferEndsBase == ASSUME Base, NEW b \in Box, ReofferEnds(b) PROVE Base'
<1> USE DEF Base
<1> DEFINE p == <<b, "offer">>
           j == job[p]
           k == IF j.state = "none" THEN Idle ELSE [j EXCEPT !.at = "closing"]
<1>1. p \in Proc /\ p[2] = "offer"
  BY ProcIs
<1>2. j \in Job /\ j.at = "offer" /\ JobOK(p) /\ Quiet(p)
  BY <1>1, QuietBy DEF TypeOK, WorkInv, ReofferEnds, At
<1>3. /\ k \in Job /\ k.caller = NoCaller
      /\ \/ k = Idle
         \/ k.at = "closing" /\ k.id = j.id /\ k.state = j.state /\ k.state # "none"
  BY <1>1, <1>2, IdleIs DEF Job, JobOK, OfferOK
<1>4. Stays
  BY StaysBy DEF ReofferEnds
<1>5. job' = [job EXCEPT ![p] = k] /\ job'[p] = k
  BY <1>1 DEF TypeOK, ReofferEnds
<1> HIDE DEF k
<1>6. JobOK(p)'
  <2>1. j.id \in Id
    BY <1>2 DEF JobOK, Job, Id
  <2>2. CASE k = Idle
    BY <1>5, <2>2, IdleIs DEF JobOK, OfferOK
  <2>3. CASE k # Idle
    BY <1>1, <1>2, <1>3, <1>4, <1>5, <2>1, <2>3 DEF JobOK, OfferOK, Stays
  <2> QED
    BY <2>2, <2>3
<1>7. WorkInv' /\ job' \in [Proc -> Job]
  BY <1>1, <1>2, <1>3, <1>4, <1>5, <1>6, GoesOn DEF ReofferEnds
<1>8. TypeOK'
  BY <1>7 DEF TypeOK, ReofferEnds
<1> QED
  BY <1>4, <1>7, <1>8, RestKept DEF ReofferEnds

LEMMA ReofferRecordsBase == ASSUME Base, NEW b \in Box, ReofferRecords(b) PROVE Base'
<1> USE DEF Base
<1> DEFINE p == <<b, "offer">>
           i == job[p].id
           s == job[p].state
<1>1. p \in Proc /\ p[2] = "offer"
  BY ProcIs
<1>2. job[p] \in Job /\ job[p].at = "closing" /\ JobOK(p) /\ Quiet(p)
  BY <1>1, QuietBy DEF TypeOK, WorkInv, ReofferRecords, At
<1>3. i \in Id /\ s \in {"done", "denied"} /\ (s = "done" => Has(i))
  BY <1>1, <1>2 DEF JobOK, OfferOK, Job, Id
<1>4. Stays
  BY StaysBy DEF ReofferRecords
<1>5. job' = [job EXCEPT ![p] = SaveIdle] /\ job'[p] = SaveIdle /\ view' = [view EXCEPT ![b][i] = s]
  BY <1>1 DEF TypeOK, ReofferRecords, SaveIdle
<1>6. JobOK(p)'
  BY <1>5, SaveIdleIs DEF JobOK, OfferOK
<1>7. WorkInv' /\ job' \in [Proc -> Job]
  BY <1>1, <1>2, <1>4, <1>5, <1>6, SaveIdleIs, GoesOn DEF ReofferRecords
<1> HIDE DEF i, s
<1>8. /\ view' \in [Box -> Views]
      /\ \A a \in Box, n \in Id : view'[a][n] = view[a][n] \/ (n = i /\ view'[a][n] = s)
  BY <1>3, <1>5 DEF TypeOK, Views, State
<1>9. TypeOK'
  BY <1>7, <1>8 DEF TypeOK, ReofferRecords
<1>10. ViewInv'
  BY <1>3, <1>4, <1>8, ViewsKept DEF Stays, ReofferRecords
<1>11. TakenInv'
  BY <1>3, <1>4, <1>8, TakenKept DEF Decided, ReofferRecords
<1> QED
  BY <1>7, <1>9, <1>10, <1>11, AskKept DEF ReofferRecords

LEMMA ExpiresBase == ASSUME Base, NEW i \in Id, Expires(i) PROVE Base'
<1> USE DEF Base, Expires
<1>1. Stays
  BY StaysBy
<1>2. \A p \in Proc : JobOK(p)'
  BY <1>1, JobStays DEF WorkInv
<1>3. \A c \in net' : CallOK(c)'
  BY <1>1, CallStays DEF WorkInv, CallOK
<1>4. WaitInv'
  BY DEF WorkInv, WaitInv, Web
<1>5. TypeOK'
  BY DEF TypeOK
<1> QED
  BY <1>1, <1>2, <1>3, <1>4, <1>5, RestKept DEF WorkInv

-----------------------------------------------------------------------------
(* Saves and answers *)

LEMMA SavesBase == ASSUME Base, NEW p \in Proc, Saves(p) PROVE Base'
<1> USE DEF Base
<1> DEFINE m == p[1]
           q == job[p].caller
           j == [job EXCEPT ![p] = Idle]
<1>1. m \in Box /\ p \in {Web(m), <<m, "offer">>} /\ Web(m) \in Proc /\ NoCaller \notin Proc
  BY ProcIs DEF Web
<1>2. job[p] \in Job /\ job[p].at = "save" /\ Quiet(p) /\ JobOK(p)
  BY QuietBy DEF TypeOK, WorkInv, Saves, At
<1>3. q \in Proc \cup {NoCaller} /\ (p # Web(m) => q = NoCaller)
  BY <1>1, <1>2 DEF Job, JobOK, OfferOK
<1>4. j[p] = Idle /\ \A n \in Proc \ {p} : j[n] = job[n]
  BY DEF TypeOK
<1>5. Before(j, m)
  BY <1>2, <1>4, IdleIs DEF Before, TypeOK
<1>6. q \in Proc => /\ job[q].at \in {"share", "close"}
                    /\ \A c \in net : c.live => c.from # q \/ c.to # m
  BY <1>1, <1>3 DEF WorkInv, WaitInv
<1>7. j[Web(m)].caller = NoCaller \/ j[Web(m)].caller # q
  BY <1>3, <1>4, IdleIs
<1>8. job' = Answered(j, q, m, "ok") /\ net' = net /\ "ok" \in Answer
  BY DEF Saves, Answer
<1>9. Stays
  BY StaysBy DEF Saves
<1>10. \A c \in net' : c.live => c.from # q \/ c.to # m
  BY <1>1, <1>3, <1>6, <1>8 DEF TypeOK, Call
<1>11. \A i \in Id : /\ q \in Proc /\ m \in j[q].out /\ i = j[q].id
                     /\ ((j[q].at = "approve" /\ "ok" = "ok") \/ "ok" = "done")
                     => Has(i)'
  BY <1>4, <1>6, IdleIs
<1>12. Fewer
  BY <1>8 DEF Fewer
<1> HIDE DEF j, q, m
<1>13. WorkInv' /\ job' \in [Proc -> Job]
  BY <1>1, <1>3, <1>5, <1>7, <1>8, <1>9, <1>10, <1>11, <1>12, AnswerMoves
<1>14. Keeps(m)
  BY DEF Saves, m
<1>15. TypeOK'
  BY <1>1, <1>13, <1>14, Saved DEF TypeOK, Saves
<1>16. ViewInv' /\ TakenInv'
  BY <1>1, <1>9, <1>14, Saved, ViewsKept, TakenKept DEF Decided, Saves
<1> QED
  BY <1>13, <1>15, <1>16, AskKept DEF Saves

(* A call is answered. *)
LEMMA AnswersMoves ==
    ASSUME TypeOK, WorkInv, Stays, NEW c \in net, net' = net \ {c}, NEW j, Before(j, c.to),
           NEW answer \in Answer, job' = IF c.live THEN Answered(j, c.from, c.to, answer) ELSE j,
           answer = "done" => c.kind # "receive",
           \A n \in Id : /\ n = c.id
                         /\ ((c.kind = "receive" /\ answer = "ok") \/ answer = "done")
                         => Has(n)'
    PROVE  WorkInv' /\ job' \in [Proc -> Job]
<1> DEFINE q == IF c.live THEN c.from ELSE NoCaller
           m == c.to
<1>1. c \in Call /\ CallOK(c) /\ m \in Box /\ Web(m) \in Proc /\ c.from \in Proc /\ NoCaller \notin Proc
  BY ProcIs DEF TypeOK, WorkInv, Call
<1>2. q \in Proc \cup {NoCaller}
  BY <1>1
<1>3. job' = Answered(j, q, m, answer)
  BY <1>1 DEF Answered
<1>4. Fewer
  BY DEF Fewer
<1>5. \A d \in net' : d.live => d.from # q \/ d.to # m
  BY <1>1 DEF WorkInv, WaitInv, TypeOK, Call
<1>6. j[Web(m)].caller = NoCaller \/ j[Web(m)].caller # q
  <2>1. j[Web(m)].caller \in {NoCaller, job[Web(m)].caller}
    BY <1>1, BeforeIs
  <2>2. ASSUME job[Web(m)].caller = q, q \in Proc PROVE FALSE
    <3>1. c.live /\ q = c.from
      BY <1>1, <2>2
    <3> QED
      BY <1>1, <2>2, <3>1 DEF WorkInv, WaitInv
  <2> QED
    BY <1>2, <2>1, <2>2
<1>7. ASSUME NEW n \in Id, q \in Proc, m \in j[q].out, n = j[q].id,
             (j[q].at = "approve" /\ answer = "ok") \/ answer = "done"
      PROVE  Has(n)'
  <2>1. c.live /\ q = c.from /\ Expects(job[q], c)
    BY <1>1, <1>7 DEF CallOK
  <2>2. j[q].at = job[q].at /\ j[q].id = job[q].id
    BY <1>1, <1>7, BeforeIs
  <2> HIDE DEF q, m
  <2>3. c.kind \in {"receive", "offer", "close"}
    BY <1>1 DEF Call
  <2>4. n = c.id /\ ((c.kind = "receive" /\ answer = "ok") \/ answer = "done")
    BY <1>7, <2>1, <2>2, <2>3 DEF Expects
  <2> QED
    BY <2>4
<1>8. \A n \in Id : /\ q \in Proc /\ m \in j[q].out /\ n = j[q].id
                    /\ ((j[q].at = "approve" /\ answer = "ok") \/ answer = "done")
                    => Has(n)'
  BY <1>7
<1> HIDE DEF q, m
<1>9. Before(j, m)
  BY DEF m
<1> QED
  BY <1>1, <1>2, <1>3, <1>4, <1>5, <1>6, <1>9, <1>8, AnswerMoves

(* A handler that only answers. *)
LEMMA OnlyAnswers ==
    ASSUME TypeOK, WorkInv, Stays, NEW c \in net, net' = net \ {c}, NEW answer \in Answer,
           Answers(c, answer), answer = "done" => c.kind # "receive",
           \A n \in Id : /\ n = c.id
                         /\ ((c.kind = "receive" /\ answer = "ok") \/ answer = "done")
                         => Has(n)'
    PROVE  WorkInv' /\ job' \in [Proc -> Job]
<1>1. Before(job, c.to)
  BY DEF Before, TypeOK
<1>2. job' = IF c.live THEN Answered(job, c.from, c.to, answer) ELSE job
  BY DEF Answers
<1> QED
  BY <1>1, <1>2, AnswersMoves

LEMMA ServesOfferBase == ASSUME Base, NEW c \in net, ServesOffer(c) PROVE Base'
<1> USE DEF Base
<1> DEFINE b == c.to
           i == c.id
<1>1. c \in Call /\ CallOK(c) /\ b \in Box /\ c.kind = "offer" /\ i \in Id /\ net' = net \ {c}
  BY DEF TypeOK, WorkInv, ServesOffer, Call, CallOK, Id
<1>2. Stays
  BY StaysBy DEF ServesOffer
<1>3. CASE Decided(b, i)
  <2> DEFINE a == view[b][i]
  <2>1. Answers(c, a) /\ UNCHANGED view
    BY <1>3 DEF ServesOffer
  <2>2. a \in Answer /\ (a = "done" => Has(i))
    BY <1>1, <1>3 DEF Answer, State, Decided, ViewInv
  <2>3. \A n \in Id : n = i /\ a = "done" => Has(n)'
    BY <1>2, <2>2 DEF Stays
  <2> HIDE DEF a
  <2>4. WorkInv' /\ job' \in [Proc -> Job]
    BY <1>1, <1>2, <2>1, <2>2, <2>3, OnlyAnswers
  <2>5. TypeOK'
    BY <1>1, <2>1, <2>4 DEF TypeOK, ServesOffer
  <2> QED
    BY <1>2, <2>1, <2>4, <2>5, RestKept DEF ServesOffer
<1>4. CASE ~Decided(b, i)
  <2>1. Answers(c, "ok") /\ view' = [view EXCEPT ![b][i] = "pending"]
    BY <1>4 DEF ServesOffer
  <2>2. "ok" \in Answer /\ "ok" # "done"
    BY DEF Answer
  <2>3. WorkInv' /\ job' \in [Proc -> Job]
    BY <1>1, <1>2, <2>1, <2>2, OnlyAnswers
  <2>4. /\ view' \in [Box -> Views]
        /\ \A a \in Box, n \in Id : \/ view'[a][n] = view[a][n]
                                    \/ a = b /\ n = i /\ view'[a][n] = "pending"
    BY <1>1, <2>1 DEF TypeOK, Views, State
  <2>5. TypeOK'
    BY <1>1, <2>3, <2>4 DEF TypeOK, ServesOffer
  <2>6. ViewInv'
    BY <1>2, <2>4, ViewsKept DEF ServesOffer
  <2>7. TakenInv'
    BY <1>2, <1>4, <2>4, TakenKept DEF Decided, ServesOffer
  <2> QED
    BY <2>3, <2>5, <2>6, <2>7, AskKept DEF ServesOffer
<1> QED
  BY <1>3, <1>4

LEMMA ServesCloseBase == ASSUME Base, NEW c \in net, ServesClose(c) PROVE Base'
<1> USE DEF Base
<1> DEFINE b == c.to
           i == c.id
<1>1. /\ c \in Call /\ CallOK(c) /\ b \in Box /\ c.kind = "close" /\ i \in Id /\ net' = net \ {c}
      /\ Free(b) /\ c.state \in State
  BY DEF TypeOK, WorkInv, ServesClose, Call, CallOK, Id
<1>2. Stays
  BY StaysBy DEF ServesClose
<1>3. c.state = "done" => Has(i)
  BY <1>1 DEF CallOK
<1>4. "ok" \in Answer /\ "ok" # "done"
  BY DEF Answer
<1>5. CASE Answers(c, "ok") /\ UNCHANGED view
  <2>1. WorkInv' /\ job' \in [Proc -> Job]
    BY <1>1, <1>2, <1>4, <1>5, OnlyAnswers
  <2>2. TypeOK'
    BY <1>1, <1>5, <2>1 DEF TypeOK, ServesClose
  <2> QED
    BY <1>2, <1>5, <2>1, <2>2, RestKept DEF ServesClose
<1>6. CASE /\ view[b][i] = "pending" /\ view' = [view EXCEPT ![b][i] = c.state]
           /\ SavesFirst(c) \/ Answers(c, "ok")
  <2>1. WorkInv' /\ job' \in [Proc -> Job]
    <3>1. CASE SavesFirst(c)
      BY <1>1, <1>2, <3>1, SaveMoves
    <3>2. CASE Answers(c, "ok")
      BY <1>1, <1>2, <1>4, <3>2, OnlyAnswers
    <3> QED
      BY <1>6, <3>1, <3>2
  <2>2. /\ view' \in [Box -> Views]
        /\ \A a \in Box, n \in Id : \/ view'[a][n] = view[a][n]
                                    \/ a = b /\ n = i /\ view'[a][n] = c.state
    BY <1>1, <1>6 DEF TypeOK, Views
  <2>3. TypeOK'
    BY <1>1, <2>1, <2>2 DEF TypeOK, ServesClose
  <2>4. ViewInv'
    BY <1>2, <1>3, <2>2, ViewsKept DEF Stays, ServesClose
  <2>5. TakenInv'
    BY <1>2, <1>6, <2>2, TakenKept DEF Decided, ServesClose
  <2> QED
    BY <2>1, <2>3, <2>4, <2>5, AskKept DEF ServesClose
<1> QED
  BY <1>5, <1>6 DEF ServesClose

LEMMA ServesReceiveBase == ASSUME Base, NEW c \in net, ServesReceive(c) PROVE Base'
<1> USE DEF Base
<1> DEFINE b == c.to
           i == c.id
<1>1. /\ c \in Call /\ CallOK(c) /\ b \in Box /\ c.kind = "receive" /\ net' = net \ {c}
      /\ Free(b) /\ c.from[1] \in Box /\ c.value \in Nat \ {0} /\ (i # 0 => i \in Id)
  BY ProcIs DEF TypeOK, WorkInv, ServesReceive, Call, CallOK, Id
<1>2. CASE ~Takes(c)
  <2>1. Answers(c, "refused") /\ UNCHANGED <<held, note, view, taken>>
    BY <1>2 DEF ServesReceive
  <2>2. Stays
    BY <2>1, StaysBy DEF ServesReceive
  <2>3. "refused" \in Answer /\ "refused" # "done" /\ "refused" # "ok"
    BY DEF Answer
  <2>4. WorkInv' /\ job' \in [Proc -> Job]
    BY <1>1, <2>1, <2>2, <2>3, OnlyAnswers
  <2>5. TypeOK'
    BY <1>1, <2>1, <2>4 DEF TypeOK, ServesReceive
  <2> QED
    BY <2>1, <2>2, <2>4, <2>5, RestKept DEF ServesReceive
<1>3. CASE Takes(c)
  <2> DEFINE v == [value |-> c.value, by |-> c.from[1]]
  <2>1. held' = [held EXCEPT ![b] = v] /\ note' = [note EXCEPT ![b] = Stale(@)]
    BY <1>3 DEF ServesReceive
  <2>2. v \in Secret /\ v # NoValue
    BY <1>1 DEF Secret, NoValue
  <2> HIDE DEF v
  <2>3. held' \in [Box -> Secret] /\ held'[b] # NoValue /\ \A m \in Box \ {b} : held'[m] = held[m]
    BY <1>1, <2>1, <2>2 DEF TypeOK
  <2>4. note' \in [Box -> Notes]
    BY <1>1, <2>1, NotesTyped DEF TypeOK
  <2>5. Stays
    BY <2>3, StaysBy DEF ServesReceive
  <2>6. CASE i = 0
    <3>1. SavesFirst(c) /\ UNCHANGED <<view, taken>>
      BY <1>3, <2>6 DEF ServesReceive
    <3>2. WorkInv' /\ job' \in [Proc -> Job]
      BY <1>1, <2>5, <2>6, <3>1, SaveMoves
    <3>3. TypeOK'
      BY <1>1, <2>3, <2>4, <3>1, <3>2 DEF TypeOK, ServesReceive
    <3> QED
      BY <2>5, <3>1, <3>2, <3>3, RestKept DEF ServesReceive
  <2>7. CASE i # 0
    <3> DEFINE j == [job EXCEPT ![Web(b)] = SaveIdle]
    <3>1. /\ view' = [view EXCEPT ![b][i] = "done"] /\ taken' = [taken EXCEPT ![i] = @ + 1]
          /\ job' = IF c.live THEN Answered(j, c.from, b, "ok") ELSE j
      BY <1>3, <2>7 DEF ServesReceive, SaveIdle
    <3>2. i \in Id /\ ask[i].from = b /\ ~Decided(b, i)
      BY <1>1, <1>3, <2>7 DEF CallOK, Takes, Open, Decided
    <3>3. Before(j, b)
      <4>1. Web(b) \in Proc /\ Quiet(Web(b))
        BY <1>1, ProcIs, QuietBy DEF Free, At
      <4> QED
        BY <4>1, SaveIdleIs DEF Before, TypeOK
    <3>4. \A n \in Id : n = i => Has(n)'
      BY <1>1, <2>3, <3>2 DEF Has, ServesReceive
    <3>5. "ok" \in Answer /\ "ok" # "done"
      BY DEF Answer
    <3> HIDE DEF j
    <3>6. WorkInv' /\ job' \in [Proc -> Job]
      BY <1>1, <2>5, <3>1, <3>3, <3>4, <3>5, AnswersMoves
    <3>7. /\ view' \in [Box -> Views] /\ view'[b][i] = "done"
          /\ \A a \in Box, n \in Id : view'[a][n] = view[a][n] \/ (a = b /\ n = i)
      BY <1>1, <3>1, <3>2 DEF TypeOK, Views, State
    <3>8. /\ taken' \in [Id -> Nat] /\ taken'[i] = taken[i] + 1
          /\ \A n \in Id \ {i} : taken'[n] = taken[n]
      BY <3>1, <3>2 DEF TypeOK
    <3>9. TypeOK'
      BY <1>1, <2>3, <2>4, <3>6, <3>7, <3>8 DEF TypeOK, ServesReceive
    <3>10. ViewInv'
      BY <2>5, <3>4, <3>7, ViewsKept DEF ServesReceive
    <3>11. TakenInv'
      <4>1. taken'[i] = 1
        <5>1. taken[i] \in Nat /\ taken[i] <= 1 /\ taken[i] # 1
          BY <3>2 DEF TakenInv, TypeOK
        <5> QED
          BY <3>8, <5>1
      <4>2. ask'[i].from = b /\ Decided(b, i)'
        BY <3>2, <3>7 DEF Decided, ServesReceive
      <4>3. \A n \in Id \ {i} : taken'[n] = taken[n] /\ ask'[n] = ask[n]
                                /\ \A a \in Box : Decided(a, n) => Decided(a, n)'
        BY <3>7, <3>8 DEF Decided, ServesReceive
      <4> QED
        BY <1>1, <4>1, <4>2, <4>3 DEF TakenInv
    <3> QED
      BY <3>6, <3>9, <3>10, <3>11, AskKept DEF ServesReceive
  <2> QED
    BY <2>6, <2>7
<1> QED
  BY <1>2, <1>3

-----------------------------------------------------------------------------
(* Calls without an answer, power cuts *)

LEMMA GivesUpBase == ASSUME Base, NEW p \in Proc, NEW m \in Box, GivesUp(p, m) PROVE Base'
<1> USE DEF Base
<1> DEFINE calls == {c \in net : c.from = p /\ c.to = m /\ c.live}
           r == job[Web(m)]
           k == IF r.caller = p THEN [r EXCEPT !.caller = NoCaller] ELSE r
           j == [job EXCEPT ![Web(m)] = k]
<1>1. Web(m) \in Proc /\ NoCaller \notin Proc /\ r \in Job /\ p[1] \in Box
  BY ProcIs DEF TypeOK
<1>2. k \in Job /\ k.caller # p
  BY <1>1 DEF Job
<1>3. j[Web(m)] = k /\ Before(j, m)
  BY <1>1, <1>2 DEF Before, TypeOK
<1>4. job' = Answered(j, p, m, "lost") /\ "lost" \in Answer /\ "lost" \notin {"ok", "done"}
  <2>1. [job EXCEPT ![Web(m)].caller = IF @ = p THEN NoCaller ELSE @] = j
    <3>1. [r EXCEPT !.caller = IF r.caller = p THEN NoCaller ELSE r.caller] = k
      BY <1>1 DEF Job
    <3> HIDE DEF k
    <3> QED
      BY <3>1
  <2> QED
    BY <2>1 DEF GivesUp, Answer
<1>5. /\ Fewer
      /\ \A c \in net' : c.live => c.from # p \/ c.to # m
      /\ count' \in [tap: Nat, late: Nat, cut: Nat]
  <2>1. CASE net' = net \ calls /\ UNCHANGED count
    BY <2>1 DEF Fewer, TypeOK
  <2>2. CASE Counts("late") /\ net' = (net \ calls) \cup {[c EXCEPT !.live = FALSE] : c \in calls}
    <3>1. \A c \in calls : c \in net /\ [c EXCEPT !.live = FALSE].live = FALSE
      BY DEF TypeOK, Call
    <3>2. Fewer
      BY <2>2, <3>1 DEF Fewer
    <3>3. \A c \in net' : c.live => c.from # p \/ c.to # m
      BY <2>2, <3>1
    <3> QED
      BY <2>2, <3>2, <3>3, CountTyped
  <2> QED
    BY <2>1, <2>2 DEF GivesUp
<1>6. doubt \subseteq doubt' /\ doubt' \subseteq Box \X Box
  BY <1>1 DEF GivesUp, TypeOK
<1>7. Stays
  BY <1>6, StaysBy DEF GivesUp
<1>8. \A i \in Id : /\ p \in Proc /\ m \in j[p].out /\ i = j[p].id
                    /\ ((j[p].at = "approve" /\ "lost" = "ok") \/ "lost" = "done")
                    => Has(i)'
  OBVIOUS
<1> HIDE DEF j, k
<1>9. WorkInv' /\ job' \in [Proc -> Job]
  BY <1>2, <1>3, <1>4, <1>5, <1>7, <1>8, AnswerMoves
<1>10. net' \subseteq Call
  BY <1>5, <1>7, DeadCall DEF Fewer, TypeOK
<1>11. TypeOK'
  BY <1>5, <1>6, <1>9, <1>10 DEF TypeOK, GivesUp
<1> QED
  BY <1>7, <1>9, <1>11, RestKept DEF GivesUp

LEMMA PowerCutBase == ASSUME Base, NEW b \in Box, PowerCut(b) PROVE Base'
<1> USE DEF Base
<1> DEFINE web == Web(b)
           offer == <<b, "offer">>
           off == [job EXCEPT ![web] = Idle, ![offer] = Idle]
<1>1. /\ web \in Proc /\ offer \in Proc /\ NoCaller \notin Proc /\ NoCaller[1] = NoBox /\ b # NoBox
      /\ \A p \in Proc : p[1] = b <=> p \in {web, offer}
      /\ \A m \in Box : Web(m) \in Proc /\ (Web(m) = web => m = b) /\ Web(m) # offer
  BY ProcIs DEF Web, Proc, NoCaller
<1>2. /\ off \in [Proc -> Job] /\ off[web] = Idle /\ off[offer] = Idle
      /\ \A p \in Proc \ {web, offer} : off[p] = job[p]
  BY <1>1, IdleIs DEF TypeOK
<1>3. job' = [p \in Proc |-> IF off[p].caller[1] = b THEN [off[p] EXCEPT !.caller = NoCaller] ELSE off[p]]
  BY DEF PowerCut
<1> HIDE DEF off
<1>4. /\ job' \in [Proc -> Job]
      /\ \A p \in Proc : /\ job'[p].at = off[p].at /\ job'[p].id = off[p].id /\ job'[p].out = off[p].out
                         /\ job'[p].to = off[p].to /\ job'[p].state = off[p].state
                         /\ job'[p].caller \in {NoCaller, off[p].caller} /\ job'[p].caller[1] # b
  <2>1. \A k \in Job : /\ [k EXCEPT !.caller = NoCaller] \in Job
                       /\ [k EXCEPT !.caller = NoCaller].at = k.at
                       /\ [k EXCEPT !.caller = NoCaller].id = k.id
                       /\ [k EXCEPT !.caller = NoCaller].out = k.out
                       /\ [k EXCEPT !.caller = NoCaller].to = k.to
                       /\ [k EXCEPT !.caller = NoCaller].state = k.state
                       /\ [k EXCEPT !.caller = NoCaller].caller = NoCaller
    BY DEF Job
  <2> QED
    BY <1>1, <1>2, <1>3, <2>1
<1>5. \A p \in Proc : \/ p \notin {web, offer} /\ off[p] = job[p]
                      \/ /\ p \in {web, offer} /\ off[p].at = "idle" /\ off[p].out = {}
                         /\ off[p].id = 0 /\ off[p].state = "none" /\ off[p].caller = NoCaller
  BY <1>2, IdleIs
<1>6. /\ held' = [held EXCEPT ![b] = saved[b].held] /\ saved' = saved /\ ask' = ask
      /\ view' = [view EXCEPT ![b] = saved[b].view]
      /\ taken' = [i \in Id |-> IF ask[i].from = b THEN 0 ELSE taken[i]]
  BY DEF PowerCut
<1>7. doubt \subseteq doubt' /\ doubt' \subseteq Box \X Box
  <2>1. Sending(b) \subseteq Box
    BY <1>1 DEF TypeOK, Sending, Job
  <2> QED
    BY <2>1 DEF PowerCut, TypeOK
<1>8. held[b] # NoValue => held'[b] # NoValue \/ \E m \in Box : <<m, b>> \in doubt'
  <2>1. ASSUME held[b] # NoValue, held[b] # saved[b].held
        PROVE  <<held[b].by, b>> \in doubt' /\ held[b].by \in Box
    <3>1. held[b].by \in Box
      BY <2>1 DEF TypeOK, Secret
    <3> QED
      BY <2>1, <3>1 DEF PowerCut
  <2> QED
    BY <1>6, <2>1 DEF TypeOK
<1>9. Stays
  <2>1. \A m \in Box : m # b => held'[m] = held[m]
    BY <1>6 DEF TypeOK
  <2>2. job'[Web(b)].at # "share"
    BY <1>1, <1>2, <1>4, IdleIs
  <2> QED
    BY <1>6, <1>7, <1>8, <2>1, <2>2, StaysBy
<1>10. /\ Fewer
       /\ \A c \in net' : c.live => c \in net /\ c.from[1] # b /\ c.to # b
  <2>1. PICK on \in {{}, {c \in net : c.from[1] = b /\ c.live}} :
          net' = ({c \in net : c.to # b} \ {c \in net : c.from[1] = b /\ c.live})
                   \cup {[c EXCEPT !.live = FALSE] : c \in {d \in on : d.to # b}}
    BY DEF PowerCut
  <2>2. \A c \in net : [c EXCEPT !.live = FALSE].live = FALSE
    BY DEF TypeOK, Call
  <2> QED
    BY <2>1, <2>2 DEF Fewer
<1>11. ASSUME NEW p \in Proc PROVE JobOK(p)'
  <2>1. JobOK(p) /\ job[p] \in Job /\ (job[p].id \in Id \/ job[p].id = 0)
    BY DEF WorkInv, TypeOK, Job, Id
  <2>2. CASE p \in {web, offer}
    <3>1. /\ job'[p].at = "idle" /\ job'[p].state = "none" /\ job'[p].caller = NoCaller
      BY <1>4, <1>5, <2>2
    <3> QED
      BY <3>1 DEF JobOK, OfferOK
  <2>3. CASE p \notin {web, offer}
    <3>1. /\ job'[p].at = job[p].at /\ job'[p].id = job[p].id /\ job'[p].out = job[p].out
          /\ job'[p].to = job[p].to /\ job'[p].state = job[p].state
          /\ job'[p].caller \in {NoCaller, job[p].caller}
      BY <1>4, <1>5, <2>3
    <3>2. held'[p[1]] = held[p[1]]
      BY <1>1, <1>6, <2>3 DEF TypeOK
    <3> QED
      BY <1>9, <2>1, <3>1, <3>2, AskerStays DEF JobOK, OfferOK, Stays
  <2> QED
    BY <2>2, <2>3
<1>12. ASSUME NEW c \in net' PROVE CallOK(c)'
  <2>1. CASE ~c.live /\ \E d \in net : c = [d EXCEPT !.live = FALSE]
    BY <1>9, <2>1, DeadCall
  <2>2. CASE c \in net
    <3>1. c \in Call /\ CallOK(c) /\ c.from \in Proc
      BY <2>2 DEF TypeOK, Call, WorkInv
    <3>2. ASSUME c.live PROVE Expects(job'[c.from], c)
      <4>1. c.from \notin {web, offer}
        BY <1>1, <1>10, <3>1, <3>2
      <4> QED
        BY <1>4, <1>5, <3>1, <3>2, <4>1 DEF CallOK, Expects
    <3> QED
      BY <1>9, <2>2, <3>1, <3>2, CallStays
  <2> QED
    BY <1>10, <2>1, <2>2 DEF Fewer
<1>13. \A c, d \in net' : c.live /\ d.live /\ c.from = d.from /\ c.to = d.to => c = d
  BY <1>10 DEF WorkInv, WaitInv
<1>14. ASSUME NEW m \in Box, NEW q \in Proc, job'[Web(m)].caller = q
       PROVE  /\ m \in job'[q].out /\ job'[q].at \in {"share", "close"}
              /\ job'[q].at = "share" => job'[q].state = "none"
              /\ \A c \in net' : c.live => c.from # q \/ c.to # m
  <2>1. q \notin {web, offer} /\ off[Web(m)].caller = q
    BY <1>1, <1>4, <1>14
  <2>2. Web(m) \notin {web, offer} /\ job[Web(m)].caller = q
    BY <1>1, <1>5, <2>1
  <2>3. /\ m \in job[q].out /\ job[q].at \in {"share", "close"}
        /\ (job[q].at = "share" => job[q].state = "none")
        /\ \A c \in net : c.live => c.from # q \/ c.to # m
    BY <2>2 DEF WorkInv, WaitInv
  <2> QED
    BY <1>4, <1>5, <1>10, <2>1, <2>3
<1>15. WaitInv'
  BY <1>13, <1>14 DEF WaitInv, Web
<1>16. count' \in [tap: Nat, late: Nat, cut: Nat]
  BY CountTyped DEF PowerCut
<1>17. net' \subseteq Call
  BY <1>9, <1>10, DeadCall DEF Fewer, TypeOK
<1>18. TypeOK'
  BY <1>4, <1>7, <1>16, <1>17 DEF TypeOK, PowerCut
<1>19. \A a \in Box, i \in Id : view'[a][i] = view[a][i] \/ (a = b /\ view'[a][i] = saved[a].view[i])
  BY <1>6 DEF TypeOK
<1>20. ViewInv'
  BY <1>6, <1>9, <1>19, ViewsKept
<1>21. TakenInv'
  BY <1>6, <1>9, <1>19, TakenKept DEF Decided
<1> QED
  BY <1>6, <1>11, <1>12, <1>15, <1>18, <1>20, <1>21, AskKept DEF WorkInv

-----------------------------------------------------------------------------

LEMMA InitBase == ASSUME Init PROVE Base
<1> USE DEF Init
<1>1. \A b \in Box : held[b] \in Secret
  BY DEF Secret
<1>2. held \in [Box -> Secret]
  BY <1>1
<1>3. \A b \in Box : [held |-> held[b], note |-> NoNotes, view |-> NoViews]
                        \in [held: Secret, note: Notes, view: Views]
  BY <1>1, NotesTyped
<1>4. saved \in [Box -> [held: Secret, note: Notes, view: Views]]
  BY <1>3
<1>5. note \in [Box -> Notes] /\ view \in [Box -> Views] /\ ask \in [Id -> Ask] /\ job \in [Proc -> Job]
  BY NotesTyped, IdleIs DEF Ask
<1>6. TypeOK
  BY <1>2, <1>4, <1>5 DEF TypeOK
<1>7. Asked = 1..0 /\ 0 \in 0..MaxAsk
  BY DEF Asked
<1>8. AskInv
  BY <1>7 DEF AskInv
<1>9. \A p \in Proc : job[p] = Idle
  OBVIOUS
<1>10. \A p \in Proc : JobOK(p)
  BY <1>9, IdleIs DEF JobOK, OfferOK
<1>11. \A b \in Box : job[Web(b)].caller \notin Proc
  BY <1>9, IdleIs, ProcIs
<1>12. WorkInv
  BY <1>10, <1>11 DEF WorkInv, WaitInv
<1>13. ViewInv /\ TakenInv
  BY DEF ViewInv, TakenInv, NoViews
<1> QED
  BY <1>6, <1>8, <1>12, <1>13 DEF Base

LEMMA StutterBase == ASSUME Base, UNCHANGED vars PROVE Base'
<1> USE DEF Base, vars
<1>1. Stays
  BY StaysBy
<1>2. \A p \in Proc : JobOK(p)'
  BY <1>1, JobStays DEF WorkInv
<1>3. \A c \in net' : CallOK(c)'
  BY <1>1, CallStays DEF WorkInv, CallOK
<1>4. WaitInv'
  BY DEF WorkInv, WaitInv, Web
<1>5. TypeOK'
  BY DEF TypeOK
<1> QED
  BY <1>1, <1>2, <1>3, <1>4, <1>5, RestKept DEF WorkInv

LEMMA NextBase == ASSUME Base, [Next]_vars PROVE Base'
<1>1. ASSUME NEW b \in Box, Begins(b) PROVE Base'
  BY <1>1, OwnerSetsBase, OwnerDeletesBase, OwnerUnsharesBase, OwnerSharesBase, OwnerApprovesBase,
     OwnerDeniesBase, RequestsBase DEF Begins, Others
<1>2. ASSUME NEW b \in Box, Works(b) PROVE Base'
  <2>1. Web(b) \in Proc /\ <<b, "offer">> \in Proc
    BY ProcIs
  <2> QED
    BY <1>2, <2>1, SharesNextBase, HearsBase, ShareNotesBase, ShareEndsBase, RecordsBase, SavesRecordBase,
       ApproveDecidesBase, FanoutEndsBase, ReofferEndsBase, ReofferRecordsBase, SavesBase DEF Works
<1>3. ASSUME NEW b \in Box, PowerCut(b) PROVE Base'
  BY <1>3, PowerCutBase
<1>4. ASSUME NEW b \in Box, NEW i \in Id, Reoffers(b, i) PROVE Base'
  BY <1>4, ReoffersBase
<1>5. ASSUME NEW c \in net, Serves(c) PROVE Base'
  BY <1>5, ServesReceiveBase, ServesOfferBase, ServesCloseBase DEF Serves
<1>6. ASSUME NEW p \in Proc, NEW m \in Box, GivesUp(p, m) PROVE Base'
  BY <1>6, GivesUpBase
<1>7. ASSUME NEW i \in Id, Expires(i) PROVE Base'
  BY <1>7, ExpiresBase
<1>8. CASE UNCHANGED vars
  BY <1>8, StutterBase
<1> QED
  BY <1>1, <1>2, <1>3, <1>4, <1>5, <1>6, <1>7, <1>8 DEF Next

LEMMA BaseHolds == Spec => []Base
<1>1. Init => Base
  BY InitBase
<1>2. Base /\ [Next]_vars => Base'
  BY NextBase
<1> QED
  BY <1>1, <1>2, PTL DEF Spec

(* Every variable has its type: what a save puts on the media and a power  *)
(* cut brings back too, and a copy that is taken has a value.              *)
THEOREM TypeCorrect == Spec => []TypeOK
<1>1. Base => TypeOK
  BY DEF Base
<1> QED
  BY <1>1, BaseHolds, PTL

(* However many boxes have the secret, however often the owner taps approve *)
(* on them, and however late a call is served, a request brings one copy   *)
(* until its box loses power (webd.py:3101).                               *)
THEOREM TakenOnceCorrect == Spec => []TakenOnce
<1>1. Base => TakenOnce
  BY DEF Base, TakenInv, TakenOnce
<1> QED
  BY <1>1, BaseHolds, PTL

(* A box that has its request down as done has the secret, whoever told it *)
(* so: its own handler, a holder's close or a re-offer's late answer; else *)
(* its owner deleted it, or a power cut took it before the save.           *)
THEOREM DoneHeldCorrect == Spec => []DoneHeld
<1>1. Base => DoneHeld
  <2> SUFFICES ASSUME Base, NEW i \in Asked, view[ask[i].from][i] = "done",
                      \A m \in Box : <<m, ask[i].from>> \notin doubt
               PROVE  held[ask[i].from] # NoValue
    BY DEF DoneHeld
  <2>1. i \in Id /\ ask[i].from \in Box
    BY DEF Base, TypeOK, Asked, Ask
  <2>2. Has(i)
    BY <2>1 DEF Base, ViewInv
  <2> QED
    BY <2>2 DEF Has
<1> QED
  BY <1>1, BaseHolds, PTL

-----------------------------------------------------------------------------
(* The notes. *)

(* A note of b's is true of what a box has. *)
Fits(b, n, v, h) == n # "none" => h # NoValue /\ (n = "fresh" /\ h.by = b => h.value = v)

(* A power cut at m now takes b's copy back. *)
Undone(b, m) == held[m].by = b /\ held[m] # saved[m].held

(* b has heard that m has its copy, or is to hear it once m has saved. *)
Told(b, m) == m \in Sending(b) /\ job[Web(b)].state = "ok"
Awaited(b, m) == job[Web(m)].caller = Web(b) /\ job[Web(b)].at = "share"

(* A note and the one on the media are true of what m has, and of what it  *)
(* has after a power cut; so is the note b is about to write.              *)
NoteOK(b, m) ==
    /\ Fits(b, note[b][m], held[b].value, held[m])
    /\ Fits(b, saved[b].note[m], saved[b].held.value, held[m])
    /\ Undone(b, m) \/ (/\ Fits(b, note[b][m], held[b].value, saved[m].held)
                        /\ Fits(b, saved[b].note[m], saved[b].held.value, saved[m].held))
    /\ Told(b, m) => /\ Fits(b, "fresh", held[b].value, held[m])
                     /\ Undone(b, m) \/ Fits(b, "fresh", held[b].value, saved[m].held)
    /\ Awaited(b, m) => Fits(b, "fresh", held[b].value, held[m])

CopyOK(c) == IF c.live THEN c.value = held[c.from[1]].value ELSE <<c.from[1], c.to>> \in doubt

Notice ==
    /\ \A b, m \in Box : <<b, m>> \notin doubt => NoteOK(b, m)
    /\ \A b \in Box : note[b][b] = "none" /\ saved[b].note[b] = "none"
    /\ \A b \in Box : held[b] = saved[b].held \/ At(Web(b), "save")
    /\ \A c \in net : c.kind = "receive" => CopyOK(c)

(* No box's value changes, and a box notes what it was told. *)
LEMMA NotesKept ==
    ASSUME Base, Notice, UNCHANGED <<held, saved>>, doubt \subseteq doubt',
           \A b, m \in Box : <<b, m>> \notin doubt' =>
              /\ note'[b][m] \in {note[b][m], "none"} \/ Told(b, m)
              /\ Told(b, m)' => Told(b, m)
              /\ Awaited(b, m)' => Awaited(b, m),
           \A b \in Box : note'[b][b] = "none",
           \A b \in Box : At(Web(b), "save") => At(Web(b), "save")',
           \A c \in net' : c.kind = "receive" => c \in net \/ CopyOK(c)'
    PROVE  Notice'
<1>1. ASSUME NEW b \in Box, NEW m \in Box, <<b, m>> \notin doubt' PROVE NoteOK(b, m)'
  <2>1. NoteOK(b, m)
    BY <1>1 DEF Notice
  <2>2. Undone(b, m)' <=> Undone(b, m)
    BY DEF Undone
  <2> QED
    BY <1>1, <2>1, <2>2 DEF NoteOK, Fits
<1>2. \A c \in net' : c.kind = "receive" => CopyOK(c)'
  BY DEF Notice, CopyOK
<1>3. \A b \in Box : held'[b] = saved'[b].held \/ At(Web(b), "save")'
  BY DEF Notice
<1> QED
  BY <1>1, <1>2, <1>3 DEF Notice, Web

(* A process that nobody is to answer goes on. *)
LEMMA MoveTells ==
    ASSUME Base, NEW p \in Proc, Quiet(p), \A q \in Proc \ {p} : job'[q] = job[q],
           job'[p].caller \in {NoCaller, job[p].caller},
           job'[p].at \in {"share", "approve"} => job'[p].state # "ok"
    PROVE  \A b, m \in Box : /\ Told(b, m)' => Told(b, m)
                             /\ Awaited(b, m)' => Awaited(b, m)
<1> SUFFICES ASSUME NEW b \in Box, NEW m \in Box
             PROVE  /\ Told(b, m)' => Told(b, m)
                    /\ Awaited(b, m)' => Awaited(b, m)
  OBVIOUS
<1>1. Web(b) \in Proc /\ Web(m) \in Proc /\ NoCaller \notin Proc
  BY ProcIs
<1>2. Told(b, m)' => Told(b, m)
  BY <1>1 DEF Told, Sending, Web
<1>3. Awaited(b, m)' => Awaited(b, m)
  <2> SUFFICES ASSUME job'[Web(m)].caller = Web(b), job'[Web(b)].at = "share"
               PROVE  job[Web(m)].caller = Web(b) /\ job[Web(b)].at = "share"
    BY DEF Awaited, Web
  <2>1. job[Web(m)].caller = Web(b)
    BY <1>1
  <2>2. Web(b) # p
    BY <2>1 DEF Quiet
  <2> QED
    BY <1>1, <2>1, <2>2
<1> QED
  BY <1>2, <1>3

LEMMA MoveNotes ==
    ASSUME Base, Notice, UNCHANGED <<held, saved>>, doubt' = doubt,
           NEW p \in Proc, Quiet(p), job[p].at # "save", NEW k \in Job, job' = [job EXCEPT ![p] = k],
           k.caller \in {NoCaller, job[p].caller}, k.at \in {"share", "approve"} => k.state # "ok",
           \A b, m \in Box : note'[b][m] \in {note[b][m], "none"} \/ Told(b, m),
           \A b \in Box : note'[b][b] = "none",
           \A c \in net' : c.kind = "receive" => c \in net \/ CopyOK(c)'
    PROVE  Notice'
<1>1. job'[p] = k /\ \A q \in Proc \ {p} : job'[q] = job[q]
  BY Moves DEF Base
<1>2. \A b, m \in Box : /\ Told(b, m)' => Told(b, m)
                        /\ Awaited(b, m)' => Awaited(b, m)
  BY <1>1, MoveTells
<1>3. \A b \in Box : At(Web(b), "save") => At(Web(b), "save")'
  BY <1>1, ProcIs DEF At, Web
<1> QED
  BY <1>2, <1>3, NotesKept

LEMMA OwnerSharesNotes ==
    ASSUME Base, Notice, NEW b \in Box, NEW to \in SUBSET Others(b), OwnerShares(b, to)
    PROVE  Notice'
<1> USE DEF Base, OwnerShares
<1>1. Web(b) \in Proc /\ Web(b)[1] = b
  BY ProcIs
<1>2. Quiet(Web(b)) /\ job[Web(b)].at # "save" /\ job[Web(b)] \in Job
  BY <1>1, QuietBy DEF Starts, Free, At, TypeOK
<1> DEFINE k == [Idle EXCEPT !.at = "share", !.to = to]
<1>3. k \in Job /\ k.at = "share" /\ k.state = "none" /\ k.caller \in {NoCaller, job[Web(b)].caller}
  BY <1>2, IdleIs, SaveIdleIs, ZenonT(30) DEF Job, Idle, Others
<1>4. job' = [job EXCEPT ![Web(b)] = k]
  BY <1>1 DEF Starts, TypeOK
<1> HIDE DEF k
<1>5. \A m \in Box : note'[m][m] = "none"
  BY DEF Notice
<1> QED
  BY <1>1, <1>2, <1>3, <1>4, <1>5, MoveNotes DEF Notice

LEMMA RequestsNotes == ASSUME Base, Notice, NEW b \in Box, Requests(b) PROVE Notice'
<1> USE DEF Base, Requests
<1>1. Web(b) \in Proc /\ Web(b)[1] = b
  BY ProcIs
<1>2. Quiet(Web(b)) /\ job[Web(b)].at # "save" /\ job[Web(b)] \in Job
  BY <1>1, QuietBy DEF Starts, Free, At, TypeOK
<1> DEFINE k == [Idle EXCEPT !.at = "have", !.out = Others(b)]
<1>3. k \in Job /\ k.at = "have" /\ k.state = "none" /\ k.caller \in {NoCaller, job[Web(b)].caller}
  BY <1>2, IdleIs, SaveIdleIs, ZenonT(30) DEF Job, Idle, Others
<1>4. job' = [job EXCEPT ![Web(b)] = k]
  BY <1>1 DEF Starts, TypeOK
<1> HIDE DEF k
<1>5. \A m \in Box : note'[m][m] = "none"
  BY DEF Notice
<1> QED
  BY <1>1, <1>2, <1>3, <1>4, <1>5, MoveNotes DEF Notice

LEMMA ShareEndsNotes == ASSUME Base, Notice, NEW b \in Box, ShareEnds(b) PROVE Notice'
<1> USE DEF Base, ShareEnds
<1>1. Web(b) \in Proc /\ Web(b)[1] = b
  BY ProcIs
<1>2. Quiet(Web(b)) /\ job[Web(b)].at # "save" /\ job[Web(b)] \in Job
  BY <1>1, QuietBy DEF Starts, Free, At, TypeOK
<1> DEFINE k == [job[Web(b)] EXCEPT !.at = "save"]
<1>3. k \in Job /\ k.at = "save" /\ k.state = job[Web(b)].state /\ k.caller \in {NoCaller, job[Web(b)].caller}
  BY <1>2, IdleIs, SaveIdleIs DEF Job, Idle
<1>4. job' = [job EXCEPT ![Web(b)] = k]
  BY <1>1 DEF Starts, TypeOK
<1> HIDE DEF k
<1>5. \A m \in Box : note'[m][m] = "none"
  BY DEF Notice
<1> QED
  BY <1>1, <1>2, <1>3, <1>4, <1>5, MoveNotes DEF Notice

LEMMA OwnerUnsharesNotes ==
    ASSUME Base, Notice, NEW b \in Box, NEW m \in Box, OwnerUnshares(b, m)
    PROVE  Notice'
<1> USE DEF Base, OwnerUnshares
<1>1. Web(b) \in Proc
  BY ProcIs
<1>2. Quiet(Web(b)) /\ job[Web(b)].at # "save"
  BY <1>1, QuietBy DEF Starts, Free, At
<1>3. job' = [job EXCEPT ![Web(b)] = SaveIdle]
  BY DEF Starts, SaveIdle
<1>4. \A x, y \in Box : note'[x][y] \in {note[x][y], "none"}
  BY DEF TypeOK, Notes
<1>5. \A x \in Box : note'[x][x] = "none"
  BY <1>4 DEF Notice
<1> QED
  BY <1>1, <1>2, <1>3, <1>4, <1>5, SaveIdleIs, MoveNotes

LEMMA ShareNotesNotes ==
    ASSUME Base, Notice, NEW b \in Box, NEW m \in Box, ShareNotes(b, m)
    PROVE  Notice'
<1> USE DEF Base, ShareNotes
<1> DEFINE j == job[Web(b)]
           k == [[j EXCEPT !.out = {}] EXCEPT !.state = "none"]
<1>1. Web(b) \in Proc /\ Web(b)[1] = b /\ Web(b)[2] = "web"
  BY ProcIs
<1>2. Quiet(Web(b)) /\ j.at = "share" /\ j \in Job /\ m # b /\ m \in j.out
  BY <1>1, QuietBy DEF TypeOK, WorkInv, JobOK
<1>3. k \in Job /\ k.at = "share" /\ k.state = "none" /\ k.caller = j.caller
  BY <1>2 DEF Job, State
<1>4. job' = [job EXCEPT ![Web(b)] = k]
  BY <1>1 DEF TypeOK
<1>5. \A x, y \in Box : note'[x][y] \in {note[x][y], "none"} \/ Told(x, y)
  <2>1. \A x, y \in Box : note'[x][y] = note[x][y] \/ (x = b /\ y = m)
    BY DEF TypeOK, Notes
  <2>2. note'[b][m] \in {note[b][m], "none"} \/ j.state = "ok"
    BY DEF TypeOK, Notes
  <2> QED
    BY <1>2, <2>1, <2>2 DEF Told, Sending
<1>6. \A x \in Box : note'[x][x] = "none"
  BY <1>2, <1>5 DEF Notice, TypeOK, Notes
<1> HIDE DEF k
<1> QED
  BY <1>1, <1>2, <1>3, <1>4, <1>5, <1>6, MoveNotes, ZenonT(30)

LEMMA SharesNextNotes ==
    ASSUME Base, Notice, NEW b \in Box, NEW m \in Box, SharesNext(b, m)
    PROVE  Notice'
<1> USE DEF Base, SharesNext
<1> DEFINE j == job[Web(b)]
           v == held[b].value
           T == {m}
           k == [[j EXCEPT !.out = T] EXCEPT !.to = j.to \ T]
<1>1. Web(b) \in Proc /\ Web(b)[1] = b
  BY ProcIs
<1>2. Quiet(Web(b)) /\ j.at = "share" /\ j \in Job /\ j.state = "none"
  BY <1>1, QuietBy DEF TypeOK, WorkInv, JobOK
<1>3. k \in Job /\ k.at = "share" /\ k.state = "none" /\ k.caller = j.caller
  BY <1>2 DEF Job
<1>4. job' = [job EXCEPT ![Web(b)] = k]
  BY <1>1 DEF TypeOK
<1>5. v \in Nat /\ 0 \in 0..MaxAsk /\ "none" \in State /\ T \in SUBSET Box
  BY DEF TypeOK, Secret, NoValue, State
<1>6. net' = net \cup Calls("receive", Web(b), T, 0, v, "none") /\ v = held'[b].value
  OBVIOUS
<1> HIDE DEF k, v, T
<1>7. \A c \in Calls("receive", Web(b), T, 0, v, "none") : CopyOK(c)'
  BY <1>1, <1>5, <1>6, CallsTyped DEF CopyOK
<1>8. \A x \in Box : note'[x][x] = "none"
  BY DEF Notice
<1> QED
  BY <1>1, <1>2, <1>3, <1>4, <1>6, <1>7, <1>8, MoveNotes

LEMMA OwnerApprovesNotes ==
    ASSUME Base, Notice, NEW b \in Box, NEW i \in Id, OwnerApproves(b, i)
    PROVE  Notice'
<1> USE DEF Base, OwnerApproves
<1> DEFINE f == ask[i].from
           v == held[b].value
           T == {f}
           k == [Idle EXCEPT !.at = "approve", !.id = i, !.out = T]
<1>1. Web(b) \in Proc /\ Web(b)[1] = b
  BY ProcIs
<1>2. Quiet(Web(b)) /\ job[Web(b)].at # "save"
  BY <1>1, QuietBy DEF Starts, Free, At
<1>3. f \in Box /\ i \in 0..MaxAsk /\ v \in Nat /\ "none" \in State /\ T \in SUBSET Box
  BY DEF AskInv, TypeOK, Ask, Id, Secret, NoValue, State
<1>4. k \in Job /\ k.at = "approve" /\ k.state = "none" /\ k.caller = NoCaller
  BY <1>3, IdleIs DEF Job, Idle
<1>5. job' = [job EXCEPT ![Web(b)] = k]
  BY DEF Starts
<1>6. net' = net \cup Calls("receive", Web(b), T, i, v, "none") /\ v = held'[b].value
  OBVIOUS
<1> HIDE DEF k, v, T
<1>7. \A c \in Calls("receive", Web(b), T, i, v, "none") : CopyOK(c)'
  BY <1>1, <1>3, <1>6, CallsTyped DEF CopyOK
<1>8. \A x \in Box : note'[x][x] = "none"
  BY DEF Notice
<1> QED
  BY <1>1, <1>2, <1>4, <1>5, <1>6, <1>7, <1>8, MoveNotes

LEMMA OwnerDeniesNotes ==
    ASSUME Base, Notice, NEW b \in Box, NEW i \in Id, OwnerDenies(b, i)
    PROVE  Notice'
<1> USE DEF Base, OwnerDenies
<1> DEFINE k == [Idle EXCEPT !.at = "close", !.id = i, !.out = Others(b)]
<1>1. Web(b) \in Proc
  BY ProcIs
<1>2. Quiet(Web(b)) /\ job[Web(b)].at # "save"
  BY <1>1, QuietBy DEF Starts, Free, At
<1>3. i \in 0..MaxAsk /\ 0 \in Nat /\ "denied" \in State /\ Others(b) \in SUBSET Box
  BY DEF Id, State, Others
<1>4. k \in Job /\ k.at = "close" /\ k.caller = NoCaller
  BY <1>3, IdleIs DEF Job, Idle
<1>5. job' = [job EXCEPT ![Web(b)] = k]
  BY DEF Starts
<1> HIDE DEF k
<1>6. \A c \in net' : c.kind = "receive" => c \in net
  BY <1>1, <1>3, CallsTyped
<1>7. \A x \in Box : note'[x][x] = "none"
  BY DEF Notice
<1> QED
  BY <1>1, <1>2, <1>4, <1>5, <1>6, <1>7, MoveNotes

LEMMA HearsNotes == ASSUME Base, Notice, NEW b \in Box, NEW m \in Box, Hears(b, m) PROVE Notice'
<1> USE DEF Base
<1> DEFINE j == job[Web(b)]
<1>1. PICK yes \in BOOLEAN :
         job' = [job EXCEPT ![Web(b)].out = @ \ {m},
                            ![Web(b)].to = IF yes THEN @ \cup {m} ELSE @]
  BY DEF Hears
<1> DEFINE k == [[j EXCEPT !.out = j.out \ {m}] EXCEPT !.to = IF yes THEN j.to \cup {m} ELSE j.to]
<1>2. Web(b) \in Proc
  BY ProcIs
<1>3. j \in Job /\ j.at = "have" /\ Quiet(Web(b))
  BY <1>2, QuietBy DEF TypeOK, Hears
<1>4. k \in Job /\ k.at = "have" /\ k.caller = j.caller
  BY <1>3 DEF Job
<1>5. job' = [job EXCEPT ![Web(b)] = k]
  BY <1>1, <1>2 DEF TypeOK
<1> HIDE DEF k
<1>6. \A x \in Box : note'[x][x] = "none"
  BY DEF Notice, Hears
<1> QED
  BY <1>2, <1>3, <1>4, <1>5, <1>6, MoveNotes DEF Hears

LEMMA RecordsNotes == ASSUME Base, Notice, NEW b \in Box, Records(b) PROVE Notice'
<1> USE DEF Base
<1>1. Web(b) \in Proc
  BY ProcIs
<1>2. job[Web(b)].at = "have" /\ Quiet(Web(b))
  BY <1>1, QuietBy DEF Records
<1>3. PICK k \in Job : /\ job' = [job EXCEPT ![Web(b)] = k]
                       /\ k.at \in {"idle", "record"} /\ k.caller = NoCaller
  <2>1. \A i \in Id : /\ [Idle EXCEPT !.at = "record", !.id = i] \in Job
                      /\ [Idle EXCEPT !.at = "record", !.id = i].at = "record"
                      /\ [Idle EXCEPT !.at = "record", !.id = i].caller = NoCaller
    <3> SUFFICES ASSUME NEW i \in Id
                 PROVE  /\ [Idle EXCEPT !.at = "record", !.id = i] \in Job
                        /\ [Idle EXCEPT !.at = "record", !.id = i].at = "record"
                        /\ [Idle EXCEPT !.at = "record", !.id = i].caller = NoCaller
      OBVIOUS
    <3>1. i \in 0..MaxAsk
      BY DEF Id
    <3> QED
      BY <3>1, IdleIs DEF Job, Idle
  <2> QED
    BY <2>1, IdleIs DEF Records
<1>4. \A x \in Box : note'[x][x] = "none"
  BY DEF Notice, Records
<1> QED
  BY <1>1, <1>2, <1>3, <1>4, MoveNotes DEF Records

LEMMA ApproveDecidesNotes == ASSUME Base, Notice, NEW b \in Box, ApproveDecides(b) PROVE Notice'
<1> USE DEF Base
<1> DEFINE p == Web(b)
           j == job[p]
           i == j.id
           f == ask[i].from
<1>1. p \in Proc /\ p[1] = b /\ p[2] = "web"
  BY ProcIs
<1>2. j \in Job /\ j.at = "approve" /\ j.state # "none" /\ JobOK(p) /\ Quiet(p)
  BY <1>1, QuietBy DEF TypeOK, WorkInv, ApproveDecides, At
<1>3. i \in 0..MaxAsk /\ 0 \in Nat /\ Others(b) \in SUBSET Box /\ f \in j.out /\ f \in Box /\ f # b
  BY <1>1, <1>2 DEF JobOK, Job, Others
<1>4. PICK k \in Job : /\ job' = [job EXCEPT ![p] = k]
                       /\ k.at \in {"idle", "close"} /\ k.caller \in {NoCaller, j.caller}
  <2> DEFINE s == IF j.state = "ok" THEN "done" ELSE "denied"
             k == [[[j EXCEPT !.at = "close"] EXCEPT !.out = Others(b)] EXCEPT !.state = s]
  <2>1. k \in Job /\ k.at = "close" /\ k.caller = j.caller
    BY <1>2, <1>3 DEF Job, State
  <2>2. job' = [job EXCEPT ![p] = k] \/ job' = [job EXCEPT ![p] = Idle]
    BY <1>1 DEF ApproveDecides, TypeOK
  <2> QED
    BY <2>1, <2>2, IdleIs
<1>5. \A c \in net' : c.kind = "receive" => c \in net
  <2>1. "done" \in State /\ "denied" \in State
    BY DEF State
  <2>2. \A s \in State : \A c \in Calls("close", p, Others(b), i, 0, s) : c.kind = "close"
    BY <1>1, <1>3, CallsTyped
  <2> QED
    BY <2>1, <2>2 DEF ApproveDecides
<1>6. \A x, y \in Box : note'[x][y] = note[x][y] \/ Told(x, y)
  <2>1. note' = note \/ (j.state = "ok" /\ note' = [note EXCEPT ![b][f] = "fresh"])
    BY DEF ApproveDecides
  <2>2. \A x, y \in Box : note'[x][y] = note[x][y] \/ (x = b /\ y = f /\ j.state = "ok")
    BY <2>1 DEF TypeOK, Notes
  <2> QED
    BY <1>2, <1>3, <2>2 DEF Told, Sending
<1>7. \A x \in Box : note'[x][x] = "none"
  <2>1. ~Told(b, b)
    BY <1>1, <1>2 DEF Told, Sending, JobOK
  <2>2. \A x \in Box : x # b => note'[x] = note[x]
    BY DEF ApproveDecides, TypeOK
  <2> QED
    BY <1>6, <2>1, <2>2 DEF Notice
<1>8. UNCHANGED <<held, saved>> /\ doubt' = doubt
  BY DEF ApproveDecides
<1> HIDE DEF i, f
<1> QED
  BY <1>1, <1>2, <1>4, <1>5, <1>6, <1>7, <1>8, MoveNotes

LEMMA FanoutEndsNotes == ASSUME Base, Notice, NEW b \in Box, FanoutEnds(b) PROVE Notice'
<1> USE DEF Base
<1>1. Web(b) \in Proc
  BY ProcIs
<1>2. Quiet(Web(b)) /\ job[Web(b)].at # "save"
  BY <1>1, QuietBy DEF FanoutEnds
<1>3. job' = [job EXCEPT ![Web(b)] = Idle] \/ job' = [job EXCEPT ![Web(b)] = SaveIdle]
  BY DEF FanoutEnds, SaveIdle
<1>4. \A x \in Box : note'[x][x] = "none"
  BY DEF Notice, FanoutEnds
<1> QED
  BY <1>1, <1>2, <1>3, <1>4, IdleIs, SaveIdleIs, MoveNotes DEF FanoutEnds

LEMMA ReoffersNotes ==
    ASSUME Base, Notice, NEW b \in Box, NEW i \in Id, Reoffers(b, i)
    PROVE  Notice'
<1> USE DEF Base
<1> DEFINE p == <<b, "offer">>
           k == [Idle EXCEPT !.at = "offer", !.id = i, !.out = Others(b)]
<1>1. p \in Proc /\ job[p].at = "idle"
  BY ProcIs DEF Reoffers, At
<1>2. i \in 0..MaxAsk /\ 0 \in Nat /\ "pending" \in State /\ Others(b) \in SUBSET Box
  BY DEF Id, State, Others
<1>3. k \in Job /\ k.at = "offer" /\ k.caller = NoCaller
  BY <1>2, IdleIs DEF Job, Idle
<1>4. Quiet(p) /\ job' = [job EXCEPT ![p] = k]
  BY <1>1, QuietBy DEF Reoffers
<1> HIDE DEF k
<1>5. \A c \in net' : c.kind = "receive" => c \in net
  BY <1>1, <1>2, CallsTyped DEF Reoffers
<1>6. \A x \in Box : note'[x][x] = "none"
  BY DEF Notice, Reoffers
<1> QED
  BY <1>1, <1>3, <1>4, <1>5, <1>6, MoveNotes DEF Reoffers

LEMMA ReofferEndsNotes == ASSUME Base, Notice, NEW b \in Box, ReofferEnds(b) PROVE Notice'
<1> USE DEF Base
<1> DEFINE p == <<b, "offer">>
           j == job[p]
<1>1. p \in Proc
  BY ProcIs
<1>2. j \in Job /\ j.at = "offer" /\ Quiet(p)
  BY <1>1, QuietBy DEF TypeOK, ReofferEnds, At
<1>3. PICK k \in Job : /\ job' = [job EXCEPT ![p] = k]
                       /\ k.at \in {"idle", "closing"} /\ k.caller \in {NoCaller, j.caller}
  <2>1. /\ [j EXCEPT !.at = "closing"] \in Job /\ [j EXCEPT !.at = "closing"].at = "closing"
        /\ [j EXCEPT !.at = "closing"].caller = j.caller
    BY <1>2 DEF Job
  <2>2. job' = [job EXCEPT ![p] = Idle] \/ job' = [job EXCEPT ![p] = [j EXCEPT !.at = "closing"]]
    BY <1>1 DEF ReofferEnds, TypeOK
  <2> QED
    BY <2>1, <2>2, IdleIs
<1>4. \A x \in Box : note'[x][x] = "none"
  BY DEF Notice, ReofferEnds
<1> QED
  BY <1>1, <1>2, <1>3, <1>4, MoveNotes, ZenonT(30) DEF ReofferEnds

LEMMA ReofferRecordsNotes == ASSUME Base, Notice, NEW b \in Box, ReofferRecords(b) PROVE Notice'
<1> USE DEF Base
<1> DEFINE p == <<b, "offer">>
<1>1. p \in Proc
  BY ProcIs
<1>2. job[p].at = "closing" /\ Quiet(p)
  BY <1>1, QuietBy DEF ReofferRecords, At
<1>3. job' = [job EXCEPT ![p] = SaveIdle]
  BY DEF ReofferRecords, SaveIdle
<1>4. \A x \in Box : note'[x][x] = "none"
  BY DEF Notice, ReofferRecords
<1> QED
  BY <1>1, <1>2, <1>3, <1>4, SaveIdleIs, MoveNotes DEF ReofferRecords

LEMMA IdleNotes ==
    ASSUME Base, Notice, UNCHANGED <<held, note, saved, job, net, doubt>>
    PROVE  Notice'
<1>1. \A b, m \in Box : /\ Told(b, m)' => Told(b, m)
                        /\ Awaited(b, m)' => Awaited(b, m)
  BY DEF Told, Sending, Awaited, Web
<1>2. \A b \in Box : At(Web(b), "save") => At(Web(b), "save")'
  BY DEF At, Web
<1>3. \A b \in Box : note'[b][b] = "none"
  BY DEF Notice
<1> QED
  BY <1>1, <1>2, <1>3, NotesKept

(* What is heard: by the one that has sent a copy to m, from m. *)
LEMMA AnswerTells ==
    ASSUME Base, NEW j, NEW q \in Proc \cup {NoCaller}, NEW m \in Box, NEW answer \in Answer,
           Before(j, m), job' = Answered(j, q, m, answer)
    PROVE  /\ \A x, y \in Box :
                 /\ Told(x, y)' => \/ Told(x, y)
                                   \/ /\ answer = "ok" /\ q = Web(x) /\ y = m /\ m \in job[q].out
                                      /\ job[q].at \in {"share", "approve"}
                 /\ Awaited(x, y)' => Awaited(x, y)
           /\ \A p \in Proc : job'[p].at = j[p].at
<1> USE DEF Base
<1> DEFINE Heard == q \in Proc /\ m \in j[q].out
<1>1. j \in [Proc -> Job]
  BY DEF Before
<1>2. ~Heard => job' = j
  BY DEF Answered
<1>3. \A p \in Proc : job'[p].at = j[p].at /\ job'[p].caller = j[p].caller
  BY <1>1, <1>2, AnsweredIs
<1>4. \A p \in Proc : ~Heard \/ p # q => job'[p] = j[p]
  BY <1>1, <1>2, AnsweredIs
<1>5. Heard /\ j[q].at \in {"share", "approve"} => job'[q].out = j[q].out /\ job'[q].state = answer
  BY <1>1, AnsweredIs
<1>6. \A p \in Proc : /\ j[p].caller \in {NoCaller, job[p].caller}
                      /\ j[p].at \in {"share", "approve"} =>
                            j[p].at = job[p].at /\ j[p].out = job[p].out /\ j[p].state = job[p].state
  BY BeforeIs
<1>7. ASSUME NEW x \in Box, NEW y \in Box
      PROVE  /\ Told(x, y)' => \/ Told(x, y)
                               \/ /\ answer = "ok" /\ q = Web(x) /\ y = m /\ m \in job[q].out
                                  /\ job[q].at \in {"share", "approve"}
             /\ Awaited(x, y)' => Awaited(x, y)
  <2>1. Web(x) \in Proc /\ Web(y) \in Proc /\ NoCaller \notin Proc
    BY ProcIs
  <2>2. Awaited(x, y)' => Awaited(x, y)
    BY <1>3, <1>6, <2>1, ZenonT(30) DEF Awaited, Web
  <2>3. ASSUME y \in job'[Web(x)].out, job'[Web(x)].at \in {"share", "approve"}, job'[Web(x)].state = "ok"
        PROVE  \/ Told(x, y)
               \/ /\ answer = "ok" /\ q = Web(x) /\ y = m /\ m \in job[q].out
                  /\ job[q].at \in {"share", "approve"}
    <3>1. CASE ~Heard \/ Web(x) # q
      BY <1>4, <1>6, <2>1, <2>3, <3>1 DEF Told, Sending
    <3>2. CASE Heard /\ Web(x) = q
      <4>1. JobOK(q)
        BY <3>2 DEF WorkInv
      <4> QED
        BY <1>3, <1>5, <1>6, <2>3, <3>2, <4>1 DEF JobOK
    <3> QED
      BY <3>1, <3>2
  <2>4. Told(x, y)' => /\ y \in job'[Web(x)].out /\ job'[Web(x)].at \in {"share", "approve"}
                       /\ job'[Web(x)].state = "ok"
    BY DEF Told, Sending, Web
  <2> QED
    BY <2>2, <2>3, <2>4
<1> QED
  BY <1>3, <1>7

LEMMA SaveTells ==
    ASSUME Base, NEW c \in net, Free(c.to), SavesFirst(c)
    PROVE  /\ \A x, y \in Box :
                 /\ Told(x, y)' => Told(x, y)
                 /\ Awaited(x, y)' => \/ Awaited(x, y)
                                      \/ c.live /\ c.from = Web(x) /\ y = c.to /\ c.kind = "receive"
           /\ job'[Web(c.to)].at = "save" /\ \A p \in Proc \ {Web(c.to)} : job'[p].at = job[p].at
<1> USE DEF Base
<1> DEFINE b == c.to
           k == [Idle EXCEPT !.at = "save", !.caller = IF c.live THEN c.from ELSE NoCaller]
<1>1. c \in Call /\ CallOK(c) /\ b \in Box /\ Web(b) \in Proc /\ c.from \in Proc /\ NoCaller \notin Proc
  BY ProcIs DEF TypeOK, WorkInv, Call
<1>2. k \in Job /\ k.at = "save" /\ k.caller = IF c.live THEN c.from ELSE NoCaller
  BY <1>1, IdleIs DEF Idle, Job
<1>3. job' = [job EXCEPT ![Web(b)] = k]
  BY DEF SavesFirst
<1> HIDE DEF k
<1>4. job'[Web(b)] = k /\ \A p \in Proc \ {Web(b)} : job'[p] = job[p]
  BY <1>1, <1>2, <1>3 DEF TypeOK
<1>5. Quiet(Web(b))
  BY <1>1, QuietBy DEF Free, At
<1>6. ASSUME NEW x \in Box, NEW y \in Box, job'[Web(y)].caller = Web(x), job'[Web(x)].at = "share"
      PROVE  Awaited(x, y) \/ (c.live /\ c.from = Web(x) /\ y = c.to /\ c.kind = "receive")
  <2>1. Web(x) \in Proc /\ Web(y) \in Proc /\ (Web(y) = Web(b) => y = b)
    BY ProcIs DEF Web
  <2>2. Web(x) # Web(b) /\ job[Web(x)].at = "share"
    BY <1>2, <1>4, <1>6, <2>1
  <2>3. CASE y = b
    <3>1. c.live /\ c.from = Web(x)
      BY <1>1, <1>2, <1>4, <1>6, <2>1, <2>3
    <3>2. c.kind = "receive"
      BY <1>1, <2>2, <3>1 DEF CallOK, Expects, Call
    <3> QED
      BY <2>3, <3>1, <3>2
  <2>4. CASE y # b
    BY <1>4, <1>6, <2>1, <2>2, <2>4 DEF Awaited
  <2> QED
    BY <2>3, <2>4
<1>7. ASSUME NEW x \in Box, NEW y \in Box PROVE Told(x, y)' => Told(x, y)
  <2>1. Web(x) \in Proc
    BY ProcIs
  <2> QED
    BY <1>2, <1>4, <2>1 DEF Told, Sending, Web
<1>8. \A x, y \in Box : Awaited(x, y)' => job'[Web(y)].caller = Web(x) /\ job'[Web(x)].at = "share"
  BY DEF Awaited, Web
<1> QED
  BY <1>2, <1>4, <1>6, <1>7, <1>8

(* A save of box b. *)
LEMMA SavedNotes ==
    ASSUME Base, Notice, NEW b \in Box, Keeps(b), UNCHANGED <<held, note, doubt>>,
           \A x, y \in Box : /\ Told(x, y)' => Told(x, y) \/ (y = b /\ Awaited(x, y))
                             /\ Awaited(x, y)' => Awaited(x, y),
           \A x \in Box : x # b /\ At(Web(x), "save") => At(Web(x), "save")',
           \A c \in net' : c.kind = "receive" => c \in net
    PROVE  Notice'
<1> USE DEF Base
<1>1. /\ saved'[b].held = held[b] /\ saved'[b].note = note[b]
      /\ \A x \in Box : x # b => saved'[x] = saved[x]
  BY DEF Keeps, Snapshot, TypeOK
<1>2. ASSUME NEW x \in Box, NEW y \in Box, <<x, y>> \notin doubt' PROVE NoteOK(x, y)'
  <2>1. NoteOK(x, y)
    BY <1>2 DEF Notice
  <2>2. y = b => saved'[y].held = held'[y]
    BY <1>1
  <2>3. y # b => saved'[y].held = saved[y].held /\ (Undone(x, y)' <=> Undone(x, y))
    BY <1>1 DEF Undone
  <2>4. \/ saved'[x].held = held'[x] /\ saved'[x].note = note'[x]
        \/ saved'[x] = saved[x]
    BY <1>1
  <2>5. /\ Fits(x, note'[x][y], held'[x].value, held'[y])
        /\ Fits(x, saved'[x].note[y], saved'[x].held.value, held'[y])
        /\ Told(x, y)' => Fits(x, "fresh", held'[x].value, held'[y])
        /\ Awaited(x, y)' => Fits(x, "fresh", held'[x].value, held'[y])
    BY <2>1, <2>4 DEF NoteOK
  <2>6. CASE y = b
    BY <2>2, <2>5, <2>6 DEF NoteOK, Fits
  <2>7. CASE y # b
    BY <2>1, <2>3, <2>4, <2>5, <2>7 DEF NoteOK, Fits
  <2> QED
    BY <2>6, <2>7
<1>3. \A c \in net' : c.kind = "receive" => CopyOK(c)'
  BY DEF Notice, CopyOK
<1>4. \A x \in Box : held'[x] = saved'[x].held \/ At(Web(x), "save")'
  BY <1>1 DEF Notice
<1>5. \A x \in Box : note'[x][x] = "none" /\ saved'[x].note[x] = "none"
  BY <1>1 DEF Notice
<1> QED
  BY <1>2, <1>3, <1>4, <1>5 DEF Notice, Web

LEMMA SavesRecordNotes == ASSUME Base, Notice, NEW b \in Box, SavesRecord(b) PROVE Notice'
<1> USE DEF Base
<1> DEFINE p == Web(b)
           j == job[p]
           i == j.id
           k == [[j EXCEPT !.at = "offer"] EXCEPT !.out = Others(b)]
<1>1. p \in Proc
  BY ProcIs
<1>2. j \in Job /\ j.at = "record" /\ Quiet(p)
  BY <1>1, QuietBy DEF TypeOK, SavesRecord, At
<1>3. i \in 0..MaxAsk /\ 0 \in Nat /\ "pending" \in State /\ Others(b) \in SUBSET Box
  BY <1>2 DEF Job, State, Others
<1>4. k \in Job /\ k.at = "offer" /\ k.caller = j.caller
  BY <1>2, <1>3 DEF Job
<1>5. job' = [job EXCEPT ![p] = k]
  BY <1>1 DEF SavesRecord, TypeOK
<1> HIDE DEF k
<1>6. job'[p] = k /\ \A q \in Proc \ {p} : job'[q] = job[q]
  BY <1>1, <1>4, <1>5, Moves
<1>7. \A x, y \in Box : /\ Told(x, y)' => Told(x, y)
                        /\ Awaited(x, y)' => Awaited(x, y)
  BY <1>1, <1>2, <1>4, <1>6, MoveTells
<1>8. \A x \in Box : x # b /\ At(Web(x), "save") => At(Web(x), "save")'
  BY <1>6, ProcIs DEF At, Web
<1>9. \A c \in net' : c.kind = "receive" => c \in net
  BY <1>1, <1>3, CallsTyped DEF SavesRecord
<1>10. Keeps(b) /\ UNCHANGED <<held, note, doubt>>
  BY DEF SavesRecord
<1> QED
  BY <1>7, <1>8, <1>9, <1>10, SavedNotes

LEMMA SavesNotes == ASSUME Base, Notice, NEW p \in Proc, Saves(p) PROVE Notice'
<1> USE DEF Base
<1> DEFINE m == p[1]
           q == job[p].caller
           j == [job EXCEPT ![p] = Idle]
<1>1. m \in Box /\ (p = Web(m) \/ p[2] = "offer") /\ NoCaller \notin Proc
  BY ProcIs DEF Web
<1>2. job[p] \in Job /\ Quiet(p) /\ JobOK(p)
  BY QuietBy DEF TypeOK, WorkInv, Saves, At
<1>3. q \in Proc \cup {NoCaller} /\ (p[2] = "offer" => q = NoCaller)
  BY <1>1, <1>2 DEF Job, JobOK, OfferOK
<1>4. j[p] = Idle /\ \A n \in Proc \ {p} : j[n] = job[n]
  BY DEF TypeOK
<1>5. Before(j, m)
  BY <1>2, <1>4, IdleIs DEF Before, TypeOK
<1>6. job' = Answered(j, q, m, "ok") /\ "ok" \in Answer /\ Keeps(m) /\ UNCHANGED <<held, note, net, doubt>>
  BY DEF Saves, Answer
<1> HIDE DEF j
<1>7. /\ \A x, y \in Box :
            /\ Told(x, y)' => \/ Told(x, y)
                              \/ q = Web(x) /\ y = m /\ job[q].at \in {"share", "approve"}
            /\ Awaited(x, y)' => Awaited(x, y)
      /\ \A n \in Proc : job'[n].at = j[n].at
  BY <1>1, <1>3, <1>5, <1>6, AnswerTells
<1>8. \A x \in Box : q = Web(x) /\ job[q].at \in {"share", "approve"} => Awaited(x, m)
  <2> SUFFICES ASSUME NEW x \in Box, q = Web(x), job[q].at \in {"share", "approve"} PROVE Awaited(x, m)
    OBVIOUS
  <2>1. Web(x) \in Proc
    BY ProcIs
  <2>2. q \in Proc /\ q # NoCaller
    BY <1>1, <2>1
  <2>3. p = Web(m)
    BY <1>1, <1>3, <2>2
  <2>4. job[Web(m)].caller = Web(x)
    BY <2>3
  <2>5. job[Web(x)].at \in {"share", "close"}
    BY <1>1, <2>1, <2>4 DEF WorkInv, WaitInv
  <2> QED
    BY <2>4, <2>5 DEF Awaited
<1>9. \A x \in Box : x # m /\ At(Web(x), "save") => At(Web(x), "save")'
  <2>1. \A x \in Box : x # m => Web(x) \in Proc /\ Web(x) # p
    BY ProcIs
  <2> QED
    BY <1>4, <1>7, <2>1 DEF At, Web
<1> QED
  BY <1>1, <1>6, <1>7, <1>8, <1>9, SavedNotes

LEMMA LiveReceive ==
    ASSUME Base, NEW c \in net, c.live, c.kind = "receive"
    PROVE  /\ c.from[1] \in Box /\ c.to \in Box /\ c.from = Web(c.from[1]) /\ c.from[1] # c.to
           /\ job[c.from].at \in {"share", "approve"} /\ c.to \in Sending(c.from[1])
<1> USE DEF Base
<1>1. c \in Call /\ CallOK(c) /\ c.from \in Proc /\ JobOK(c.from)
  BY DEF TypeOK, WorkInv, Call
<1>2. job[c.from].at \in {"share", "approve"} /\ c.to \in job[c.from].out
  BY <1>1 DEF CallOK, Expects
<1>3. c.from[1] \in Box /\ (c.from = Web(c.from[1]) \/ c.from[2] = "offer")
  BY <1>1, ProcIs DEF Web
<1>4. c.from = Web(c.from[1])
  BY <1>1, <1>2, <1>3 DEF JobOK, OfferOK
<1>5. c.from[1] # c.to
  BY <1>1, <1>2, <1>3, <1>4, ProcIs DEF JobOK
<1> QED
  BY <1>1, <1>2, <1>3, <1>4, <1>5 DEF Sending, Call

LEMMA OnlyAnswersNotes ==
    ASSUME Base, Notice, NEW c \in net, net' = net \ {c}, NEW answer \in Answer, Answers(c, answer),
           c.kind # "receive" \/ answer # "ok", UNCHANGED <<held, note, saved, doubt>>
    PROVE  Notice'
<1> USE DEF Base
<1> DEFINE q == IF c.live THEN c.from ELSE NoCaller
<1>1. c \in Call /\ CallOK(c) /\ c.from \in Proc /\ c.to \in Box /\ NoCaller \notin Proc
  BY ProcIs DEF TypeOK, WorkInv, Call
<1>2. job' = Answered(job, q, c.to, answer) /\ q \in Proc \cup {NoCaller}
  BY <1>1 DEF Answers, Answered
<1>3. Before(job, c.to)
  BY DEF Before, TypeOK
<1>4. ~(answer = "ok" /\ q \in Proc /\ job[q].at \in {"share", "approve"})
  BY <1>1 DEF CallOK, Expects, Call
<1> HIDE DEF q
<1>5. /\ \A x, y \in Box :
            /\ Told(x, y)' => \/ Told(x, y)
                              \/ answer = "ok" /\ q = Web(x) /\ job[q].at \in {"share", "approve"}
            /\ Awaited(x, y)' => Awaited(x, y)
      /\ \A n \in Proc : job'[n].at = job[n].at
  BY <1>1, <1>2, <1>3, AnswerTells
<1>6. ASSUME NEW x \in Box, NEW y \in Box, Told(x, y)' PROVE Told(x, y)
  <2>1. Web(x) \in Proc
    BY ProcIs
  <2>2. ~(answer = "ok" /\ q = Web(x) /\ job[q].at \in {"share", "approve"})
    BY <1>4, <2>1
  <2> QED
    BY <1>5, <1>6, <2>2
<1>7. \A x \in Box : At(Web(x), "save") => At(Web(x), "save")'
  BY <1>5, ProcIs DEF At, Web
<1>8. \A x \in Box : note'[x][x] = "none"
  BY DEF Notice
<1> QED
  BY <1>5, <1>6, <1>7, <1>8, NotesKept

LEMMA ServesOfferNotes == ASSUME Base, Notice, NEW c \in net, ServesOffer(c) PROVE Notice'
<1> USE DEF Base
<1>1. PICK answer \in Answer : Answers(c, answer)
  <2>1. c.to \in Box /\ (Decided(c.to, c.id) => view[c.to][c.id] \in Answer) /\ "ok" \in Answer
    BY DEF TypeOK, Call, Decided, Answer, State
  <2> QED
    BY <2>1 DEF ServesOffer
<1> QED
  BY <1>1, OnlyAnswersNotes DEF ServesOffer

LEMMA ServesCloseNotes == ASSUME Base, Notice, NEW c \in net, ServesClose(c) PROVE Notice'
<1> USE DEF Base
<1>1. c.kind = "close" /\ Free(c.to) /\ net' = net \ {c} /\ UNCHANGED <<held, note, saved, doubt>>
  BY DEF ServesClose
<1>2. CASE Answers(c, "ok")
  BY <1>1, <1>2, OnlyAnswersNotes DEF Answer
<1>3. CASE SavesFirst(c)
  <2>1. /\ \A x, y \in Box : (Told(x, y)' => Told(x, y)) /\ (Awaited(x, y)' => Awaited(x, y))
        /\ job'[Web(c.to)].at = "save" /\ \A p \in Proc \ {Web(c.to)} : job'[p].at = job[p].at
    BY <1>1, <1>3, SaveTells
  <2>2. \A x \in Box : At(Web(x), "save") => At(Web(x), "save")'
    BY <2>1, ProcIs DEF At, Web
  <2>3. \A x \in Box : note'[x][x] = "none"
    BY <1>1 DEF Notice
  <2> QED
    BY <1>1, <2>1, <2>2, <2>3, NotesKept
<1> QED
  BY <1>2, <1>3 DEF ServesClose

LEMMA GivesUpNotes ==
    ASSUME Base, Notice, NEW p \in Proc, NEW m \in Box, GivesUp(p, m)
    PROVE  Notice'
<1> USE DEF Base
<1> DEFINE calls == {c \in net : c.from = p /\ c.to = m /\ c.live}
           r == job[Web(m)]
           k == IF r.caller = p THEN [r EXCEPT !.caller = NoCaller] ELSE r
           j == [job EXCEPT ![Web(m)] = k]
<1>1. Web(m) \in Proc /\ r \in Job
  BY ProcIs DEF TypeOK
<1>2. k \in Job /\ k.at = r.at
  BY <1>1 DEF Job
<1>3. j[Web(m)] = k /\ Before(j, m) /\ \A n \in Proc : j[n].at = job[n].at
  BY <1>1, <1>2 DEF Before, TypeOK
<1>4. job' = Answered(j, p, m, "lost") /\ "lost" \in Answer /\ "lost" # "ok"
  <2>1. [job EXCEPT ![Web(m)].caller = IF @ = p THEN NoCaller ELSE @] = j
    <3>1. [r EXCEPT !.caller = IF r.caller = p THEN NoCaller ELSE r.caller] = k
      BY <1>1 DEF Job
    <3> HIDE DEF k
    <3> QED
      BY <3>1
  <2> QED
    BY <2>1 DEF GivesUp, Answer
<1> HIDE DEF j, k
<1>5. /\ \A x, y \in Box : (Told(x, y)' => Told(x, y)) /\ (Awaited(x, y)' => Awaited(x, y))
      /\ \A n \in Proc : job'[n].at = job[n].at
  BY <1>3, <1>4, AnswerTells
<1>6. \A x \in Box : At(Web(x), "save") => At(Web(x), "save")'
  BY <1>5, ProcIs DEF At, Web
<1>7. ASSUME NEW c \in net', c.kind = "receive" PROVE c \in net \/ CopyOK(c)'
  <2>1. c \in net \/ \E d \in calls : c = [d EXCEPT !.live = FALSE]
    BY <1>7 DEF GivesUp
  <2>2. ASSUME NEW d \in calls, c = [d EXCEPT !.live = FALSE] PROVE CopyOK(c)'
    <3>1. d \in net /\ d.live /\ d.from = p /\ d.to = m /\ d.kind = "receive" /\ ~c.live
          /\ c.from = p /\ c.to = m
      BY <1>7, <2>2 DEF TypeOK, Call
    <3>2. p = Web(p[1]) /\ p[1] \in Box /\ m \in Sending(p[1])
      BY <3>1, LiveReceive
    <3>3. <<p[1], m>> \in doubt'
      BY <3>2, ProcIs DEF GivesUp
    <3> QED
      BY <3>1, <3>3 DEF CopyOK
  <2> QED
    BY <2>1, <2>2
<1>8. \A x \in Box : note'[x][x] = "none"
  BY DEF Notice, GivesUp
<1>9. UNCHANGED <<held, note, saved>> /\ doubt \subseteq doubt'
  BY DEF GivesUp
<1> QED
  BY <1>5, <1>6, <1>7, <1>8, <1>9, NotesKept


(* Box b has another value, and its notes are stale. *)
LEMMA ValueNotes ==
    ASSUME Base, Notice, NEW b \in Box, Free(b), NEW v \in Secret, held' = [held EXCEPT ![b] = v],
           saved' = saved, doubt \subseteq doubt', job'[Web(b)].at = "save",
           \A x \in Box : x # b => note'[x] = note[x],
           \A m \in Box : note'[b][m] = "none" \/ (note'[b][m] = "stale" /\ note[b][m] # "none"),
           \A x \in Box : x # b /\ At(Web(x), "save") => At(Web(x), "save")',
           \A c \in net' : c.kind = "receive" => c \in net,
           \A x \in Box : x # b /\ <<x, b>> \notin doubt' =>
              /\ v # NoValue
              /\ v.by = x => v.value = held[x].value /\ held[x] = saved[x].held,
           \A x, y \in Box : /\ Told(x, y)' => Told(x, y) \/ (y = b /\ v.by = x)
                             /\ Awaited(x, y)' => Awaited(x, y) \/ y = b
    PROVE  Notice'
<1> USE DEF Base
<1>1. Web(b) \in Proc /\ job[Web(b)].at = "idle"
  BY ProcIs DEF Free, At
<1>2. held'[b] = v /\ held[b] = saved[b].held /\ \A x \in Box : x # b => held'[x] = held[x]
  BY <1>1 DEF Notice, At, TypeOK
<1>3. \A y \in Box : ~Told(b, y)' /\ ~Awaited(b, y)'
  BY DEF Told, Sending, Awaited, Web
<1>4. \A x \in Box : note'[x][x] = "none" /\ saved'[x].note[x] = "none"
  BY DEF Notice
<1>5. ASSUME NEW x \in Box, NEW y \in Box, <<x, y>> \notin doubt' PROVE NoteOK(x, y)'
  <2>1. NoteOK(x, y)
    BY <1>5 DEF Notice
  <2>2. CASE x = b /\ y = b
    BY <1>3, <1>4, <2>2 DEF NoteOK, Fits
  <2>3. CASE x = b /\ y # b
    <3>1. held'[y] = held[y] /\ (Undone(x, y)' <=> Undone(x, y))
      BY <1>2, <2>3 DEF Undone
    <3>2. \A h : Fits(x, note[x][y], held[x].value, h) => Fits(x, note'[x][y], held'[x].value, h)
      BY <2>3 DEF Fits
    <3> QED
      BY <1>3, <2>1, <2>3, <3>1, <3>2 DEF NoteOK
  <2>4. CASE x # b /\ y = b
    <3>1. \A n : Fits(x, n, held'[x].value, held'[y]) /\ Fits(x, n, saved'[x].held.value, held'[y])
      BY <1>2, <1>5, <2>4 DEF Fits
    <3>2. held'[x] = held[x] /\ note'[x] = note[x] /\ saved'[y].held = held[y]
      BY <1>2, <2>4
    <3>3. /\ Fits(x, note'[x][y], held'[x].value, saved'[y].held)
          /\ Fits(x, saved'[x].note[y], saved'[x].held.value, saved'[y].held)
          /\ Told(x, y) => Fits(x, "fresh", held'[x].value, saved'[y].held)
      BY <2>1, <3>2 DEF NoteOK
    <3>4. v.by = x => Undone(x, y)' \/ held'[y] = saved'[y].held
      BY <1>2, <2>4 DEF Undone
    <3>5. Told(x, y)' => Undone(x, y)' \/ Fits(x, "fresh", held'[x].value, saved'[y].held)
      BY <3>1, <3>3, <3>4
    <3> QED
      BY <3>1, <3>3, <3>5 DEF NoteOK
  <2>5. CASE x # b /\ y # b
    <3>1. /\ held'[x] = held[x] /\ held'[y] = held[y] /\ note'[x] = note[x]
          /\ (Undone(x, y)' <=> Undone(x, y))
      BY <1>2, <2>5 DEF Undone
    <3> QED
      BY <2>1, <2>5, <3>1 DEF NoteOK
  <2> QED
    BY <2>2, <2>3, <2>4, <2>5
<1>6. \A x \in Box : held'[x] = saved'[x].held \/ At(Web(x), "save")'
  BY <1>2 DEF Notice, At, Web
<1>7. ASSUME NEW c \in net', c.kind = "receive" PROVE CopyOK(c)'
  <2>1. c \in net /\ CopyOK(c)
    BY <1>7 DEF Notice
  <2>2. c.live => c.from[1] \in Box /\ c.from[1] # b
    BY <1>1, <1>7, <2>1, LiveReceive
  <2> QED
    BY <1>2, <2>1, <2>2 DEF CopyOK
<1> QED
  BY <1>4, <1>5, <1>6, <1>7 DEF Notice

LEMMA StaleIs ==
    ASSUME TypeOK, NEW b \in Box, note' = [note EXCEPT ![b] = Stale(@)]
    PROVE  /\ \A x \in Box : x # b => note'[x] = note[x]
           /\ \A m \in Box : note'[b][m] = "none" \/ (note'[b][m] = "stale" /\ note[b][m] # "none")
BY DEF TypeOK, Stale

(* What the owner begins on box b, with the save at once. *)
LEMMA BegunTells ==
    ASSUME Base, NEW b \in Box, Starts(b, SaveIdle)
    PROVE  /\ \A x, y \in Box : (Told(x, y)' => Told(x, y)) /\ (Awaited(x, y)' => Awaited(x, y))
           /\ job'[Web(b)].at = "save"
           /\ \A x \in Box : x # b /\ At(Web(x), "save") => At(Web(x), "save")'
<1> USE DEF Base
<1>1. Web(b) \in Proc /\ Quiet(Web(b))
  BY ProcIs, QuietBy DEF Starts, Free, At
<1>2. job'[Web(b)] = SaveIdle /\ \A q \in Proc \ {Web(b)} : job'[q] = job[q]
  BY <1>1, SaveIdleIs, Moves DEF Starts
<1>3. \A x, y \in Box : (Told(x, y)' => Told(x, y)) /\ (Awaited(x, y)' => Awaited(x, y))
  BY <1>1, <1>2, SaveIdleIs, MoveTells
<1>4. \A x \in Box : x # b => Web(x) \in Proc \ {Web(b)}
  BY ProcIs DEF Web
<1> QED
  BY <1>2, <1>3, <1>4, SaveIdleIs DEF At, Web

LEMMA OwnerSetsNotes == ASSUME Base, Notice, NEW b \in Box, OwnerSets(b) PROVE Notice'
<1> USE DEF Base
<1> DEFINE v == [value |-> count'.tap + 1, by |-> b]
<1>1. Starts(b, SaveIdle) /\ Free(b) /\ held' = [held EXCEPT ![b] = v] /\ UNCHANGED <<saved, net, doubt>>
  BY DEF OwnerSets, Starts, SaveIdle
<1>2. count' \in [tap: Nat, late: Nat, cut: Nat]
  BY CountTyped DEF OwnerSets, Taps
<1>3. v \in Secret /\ v # NoValue /\ v.by = b
  BY <1>2 DEF Secret, NoValue
<1> HIDE DEF v
<1>4. /\ \A x \in Box : x # b => note'[x] = note[x]
      /\ \A m \in Box : note'[b][m] = "none" \/ (note'[b][m] = "stale" /\ note[b][m] # "none")
  BY StaleIs DEF OwnerSets
<1> QED
  BY <1>1, <1>3, <1>4, BegunTells, ValueNotes

LEMMA OwnerDeletesNotes == ASSUME Base, Notice, NEW b \in Box, OwnerDeletes(b) PROVE Notice'
<1> USE DEF Base
<1>1. /\ Starts(b, SaveIdle) /\ Free(b) /\ held' = [held EXCEPT ![b] = NoValue] /\ UNCHANGED <<saved, net>>
      /\ doubt \subseteq doubt'
  BY DEF OwnerDeletes, Starts, SaveIdle
<1>2. NoValue \in Secret
  BY DEF Secret
<1>3. /\ \A x \in Box : x # b => note'[x] = note[x]
      /\ \A m \in Box : note'[b][m] = "none"
  BY DEF OwnerDeletes, TypeOK, NoNotes
<1>4. \A x \in Box : <<x, b>> \in doubt'
  BY DEF OwnerDeletes
<1> QED
  BY <1>1, <1>2, <1>3, <1>4, BegunTells, ValueNotes

LEMMA ServesReceiveNotes == ASSUME Base, Notice, NEW c \in net, ServesReceive(c) PROVE Notice'
<1> USE DEF Base
<1> DEFINE b == c.to
           v == [value |-> c.value, by |-> c.from[1]]
<1>1. /\ c \in Call /\ CallOK(c) /\ b \in Box /\ c.kind = "receive" /\ net' = net \ {c} /\ Free(b)
      /\ c.from \in Proc /\ c.from[1] \in Box /\ c.value \in Nat \ {0} /\ UNCHANGED <<saved, doubt>>
  BY ProcIs DEF TypeOK, WorkInv, ServesReceive, Call, CallOK
<1>2. CASE ~Takes(c)
  <2>1. Answers(c, "refused") /\ UNCHANGED <<held, note>>
    BY <1>2 DEF ServesReceive
  <2>2. "refused" \in Answer /\ "refused" # "ok"
    BY DEF Answer
  <2> QED
    BY <1>1, <2>1, <2>2, OnlyAnswersNotes
<1>3. CASE Takes(c)
  <2>1. held' = [held EXCEPT ![b] = v] /\ note' = [note EXCEPT ![b] = Stale(@)]
    BY <1>3 DEF ServesReceive
  <2>2. v \in Secret /\ v # NoValue /\ v.by = c.from[1] /\ v.value = c.value
    BY <1>1 DEF Secret, NoValue
  <2> HIDE DEF v
  <2>3. /\ \A x \in Box : x # b => note'[x] = note[x]
        /\ \A m \in Box : note'[b][m] = "none" \/ (note'[b][m] = "stale" /\ note[b][m] # "none")
    BY <1>1, <2>1, StaleIs
  <2>4. ASSUME NEW x \in Box, <<x, b>> \notin doubt', v.by = x
        PROVE  v.value = held[x].value /\ held[x] = saved[x].held
    <3>1. CopyOK(c) /\ c.live
      BY <1>1, <2>2, <2>4 DEF Notice, CopyOK
    <3>2. job[Web(x)].at \in {"share", "approve"}
      BY <1>1, <2>2, <2>4, <3>1, LiveReceive
    <3> QED
      BY <2>2, <2>4, <3>1, <3>2 DEF Notice, CopyOK, At
  <2>5. /\ \A x, y \in Box : /\ Told(x, y)' => Told(x, y) \/ (y = b /\ v.by = x)
                             /\ Awaited(x, y)' => Awaited(x, y) \/ y = b
        /\ job'[Web(b)].at = "save"
        /\ \A p \in Proc \ {Web(b)} : job'[p].at = job[p].at
    <3>1. CASE c.id = 0
      BY <1>1, <1>3, <3>1, SaveTells DEF ServesReceive
    <3>2. CASE c.id # 0
      <4> DEFINE j == [job EXCEPT ![Web(b)] = SaveIdle]
                 q == IF c.live THEN c.from ELSE NoCaller
      <4>1. Web(b) \in Proc /\ Quiet(Web(b)) /\ NoCaller \notin Proc
        BY <1>1, ProcIs, QuietBy DEF Free, At
      <4>2. Before(j, b) /\ j[Web(b)].at = "save" /\ \A p \in Proc \ {Web(b)} : j[p].at = job[p].at
        BY <4>1, SaveIdleIs DEF Before, TypeOK
      <4>3. job' = IF c.live THEN Answered(j, c.from, b, "ok") ELSE j
        BY <1>3, <3>2 DEF ServesReceive, SaveIdle
      <4> HIDE DEF j
      <4>4. job' = Answered(j, q, b, "ok") /\ q \in Proc \cup {NoCaller} /\ "ok" \in Answer
        BY <1>1, <4>1, <4>3 DEF Answered, Answer
      <4>5. \A x \in Box : q = Web(x) => v.by = x
        <5> SUFFICES ASSUME NEW x \in Box, q = Web(x) PROVE v.by = x
          OBVIOUS
        <5>1. Web(x) \in Proc /\ Web(x)[1] = x
          BY ProcIs
        <5> QED
          BY <2>2, <4>1, <5>1
      <4> HIDE DEF q
      <4>6. /\ \A x, y \in Box : /\ Told(x, y)' => Told(x, y) \/ (q = Web(x) /\ y = b)
                                 /\ Awaited(x, y)' => Awaited(x, y)
            /\ \A p \in Proc : job'[p].at = j[p].at
        BY <1>1, <4>2, <4>4, AnswerTells
      <4> QED
        BY <4>1, <4>2, <4>5, <4>6
    <3> QED
      BY <3>1, <3>2
  <2>6. \A x \in Box : x # b /\ At(Web(x), "save") => At(Web(x), "save")'
    <3>1. \A x \in Box : x # b => Web(x) \in Proc \ {Web(b)}
      BY ProcIs DEF Web
    <3> QED
      BY <2>5, <3>1 DEF At, Web
  <2> QED
    BY <1>1, <2>1, <2>2, <2>3, <2>4, <2>5, <2>6, ValueNotes
<1> QED
  BY <1>2, <1>3

LEMMA PowerCutNotes == ASSUME Base, Notice, NEW b \in Box, PowerCut(b) PROVE Notice'
<1> USE DEF Base
<1> DEFINE web == Web(b)
           offer == <<b, "offer">>
           off == [job EXCEPT ![web] = Idle, ![offer] = Idle]
<1>1. /\ web \in Proc /\ offer \in Proc /\ NoCaller \notin Proc
      /\ \A m \in Box : Web(m) \in Proc /\ (m # b => Web(m) \notin {web, offer})
  BY ProcIs DEF Web
<1>2. /\ off[web] = Idle /\ \A p \in Proc : off[p] \in Job
      /\ \A p \in Proc \ {web, offer} : off[p] = job[p]
  BY <1>1, IdleIs DEF TypeOK
<1>3. job' = [p \in Proc |-> IF off[p].caller[1] = b THEN [off[p] EXCEPT !.caller = NoCaller] ELSE off[p]]
  BY DEF PowerCut
<1> HIDE DEF off
<1>4. \A p \in Proc : /\ job'[p].at = off[p].at /\ job'[p].out = off[p].out /\ job'[p].state = off[p].state
                      /\ job'[p].caller \in {NoCaller, off[p].caller}
  <2>1. \A k \in Job : /\ [k EXCEPT !.caller = NoCaller].at = k.at
                       /\ [k EXCEPT !.caller = NoCaller].out = k.out
                       /\ [k EXCEPT !.caller = NoCaller].state = k.state
                       /\ [k EXCEPT !.caller = NoCaller].caller = NoCaller
    BY DEF Job
  <2> QED
    BY <1>2, <1>3, <2>1
<1>5. /\ job'[web].at = "idle" /\ job'[web].caller = NoCaller
      /\ \A m \in Box : m # b => /\ job'[Web(m)].at = job[Web(m)].at /\ job'[Web(m)].out = job[Web(m)].out
                                 /\ job'[Web(m)].state = job[Web(m)].state
                                 /\ job'[Web(m)].caller \in {NoCaller, job[Web(m)].caller}
  BY <1>1, <1>2, <1>4, IdleIs
<1>6. ASSUME NEW x \in Box, NEW y \in Box
      PROVE  /\ Told(x, y)' => x # b /\ Told(x, y)
             /\ Awaited(x, y)' => x # b /\ y # b /\ Awaited(x, y)
  <2>1. Told(x, y)' => x # b /\ Told(x, y)
    BY <1>5 DEF Told, Sending, Web
  <2>2. Awaited(x, y)' => job'[Web(y)].caller = Web(x) /\ job'[Web(x)].at = "share"
    BY DEF Awaited, Web
  <2>3. Web(x) # NoCaller
    BY <1>1
  <2> QED
    BY <1>5, <2>1, <2>2, <2>3 DEF Awaited
<1>7. /\ held'[b] = saved[b].held /\ note'[b] = saved[b].note /\ saved' = saved /\ doubt \subseteq doubt'
      /\ \A x \in Box : x # b => held'[x] = held[x] /\ note'[x] = note[x]
  BY DEF PowerCut, TypeOK
<1>8. \A x \in Box : Undone(x, b) => <<x, b>> \in doubt'
  BY DEF Undone, PowerCut
<1>9. ASSUME NEW x \in Box, NEW y \in Box, <<x, y>> \notin doubt' PROVE NoteOK(x, y)'
  <2>1. NoteOK(x, y)
    BY <1>7, <1>9 DEF Notice
  <2>2. CASE x = b /\ y = b
    <3>1. note'[x][y] = "none" /\ saved'[x].note[y] = "none" /\ ~Told(x, y)' /\ ~Awaited(x, y)'
      BY <1>6, <1>7, <2>2 DEF Notice
    <3> QED
      BY <3>1 DEF NoteOK, Fits
  <2>3. CASE x = b /\ y # b
    <3>1. /\ held'[y] = held[y] /\ (Undone(x, y)' <=> Undone(x, y)) /\ ~Told(x, y)' /\ ~Awaited(x, y)'
          /\ held'[x] = saved[x].held /\ note'[x] = saved[x].note
      BY <1>6, <1>7, <2>3 DEF Undone
    <3> QED
      BY <1>7, <2>1, <3>1 DEF NoteOK
  <2>4. CASE x # b /\ y = b
    <3>1. /\ held'[y] = saved[y].held /\ held'[x] = held[x] /\ note'[x] = note[x]
          /\ ~Undone(x, y) /\ (Told(x, y)' => Told(x, y)) /\ ~Awaited(x, y)'
      BY <1>6, <1>7, <1>8, <1>9, <2>4
    <3> QED
      BY <1>7, <2>1, <3>1 DEF NoteOK
  <2>5. CASE x # b /\ y # b
    <3>1. /\ held'[y] = held[y] /\ held'[x] = held[x] /\ note'[x] = note[x]
          /\ (Undone(x, y)' <=> Undone(x, y))
          /\ (Told(x, y)' => Told(x, y)) /\ (Awaited(x, y)' => Awaited(x, y))
      BY <1>6, <1>7, <2>5 DEF Undone
    <3> QED
      BY <1>7, <2>1, <3>1 DEF NoteOK
  <2> QED
    BY <2>2, <2>3, <2>4, <2>5
<1>10. \A x \in Box : note'[x][x] = "none" /\ saved'[x].note[x] = "none"
  BY <1>7 DEF Notice
<1>11. \A x \in Box : held'[x] = saved'[x].held \/ At(Web(x), "save")'
  BY <1>5, <1>7, ZenonT(30) DEF Notice, At, Web
<1>12. ASSUME NEW c \in net', c.kind = "receive" PROVE CopyOK(c)'
  <2>1. PICK on \in {{}, {d \in net : d.from[1] = b /\ d.live}} :
          net' = ({d \in net : d.to # b} \ {d \in net : d.from[1] = b /\ d.live})
                   \cup {[d EXCEPT !.live = FALSE] : d \in {e \in on : e.to # b}}
    BY DEF PowerCut
  <2>2. CASE c \in net /\ ~(c.from[1] = b /\ c.live)
    <3>1. c.live => c.from[1] \in Box /\ c.from[1] # b
      BY <1>12, <2>2, LiveReceive
    <3>2. CopyOK(c)
      BY <1>12, <2>2 DEF Notice
    <3> QED
      BY <1>7, <3>1, <3>2 DEF CopyOK
  <2>3. ASSUME NEW d \in net, d.from[1] = b, d.live, c = [d EXCEPT !.live = FALSE] PROVE CopyOK(c)'
    <3>1. d.kind = "receive" /\ ~c.live /\ c.from = d.from /\ c.to = d.to
      BY <1>12, <2>3 DEF TypeOK, Call
    <3>2. d.to \in Sending(b)
      BY <2>3, <3>1, LiveReceive
    <3>3. <<b, d.to>> \in doubt'
      BY <3>2 DEF PowerCut
    <3> QED
      BY <2>3, <3>1, <3>3 DEF CopyOK
  <2> QED
    BY <2>1, <2>2, <2>3
<1> QED
  BY <1>9, <1>10, <1>11, <1>12 DEF Notice

LEMMA InitNotes == ASSUME Init PROVE Notice
<1>1. \A b \in Box : Web(b) \in Proc
  BY ProcIs
<1>2. \A b \in Box : job[Web(b)] = Idle
  BY <1>1 DEF Init
<1>3. \A b, m \in Box : ~Told(b, m) /\ ~Awaited(b, m)
  BY <1>2, IdleIs DEF Told, Sending, Awaited
<1>4. \A b, m \in Box : note[b][m] = "none" /\ saved[b].note[m] = "none"
  BY DEF Init, NoNotes
<1>5. \A b \in Box : held[b] = saved[b].held
  BY DEF Init
<1> QED
  BY <1>3, <1>4, <1>5 DEF Init, Notice, NoteOK, Fits

LEMMA NextNotes == ASSUME Base, Notice, [Next]_vars PROVE Notice'
<1>1. ASSUME NEW b \in Box, Begins(b) PROVE Notice'
  BY <1>1, OwnerSetsNotes, OwnerDeletesNotes, OwnerUnsharesNotes, OwnerSharesNotes, OwnerApprovesNotes,
     OwnerDeniesNotes, RequestsNotes DEF Begins, Others
<1>2. ASSUME NEW b \in Box, Works(b) PROVE Notice'
  <2>1. Web(b) \in Proc /\ <<b, "offer">> \in Proc
    BY ProcIs
  <2> QED
    BY <1>2, <2>1, SharesNextNotes, HearsNotes, ShareNotesNotes, ShareEndsNotes, RecordsNotes,
       SavesRecordNotes, ApproveDecidesNotes, FanoutEndsNotes, ReofferEndsNotes, ReofferRecordsNotes,
       SavesNotes DEF Works
<1>3. ASSUME NEW b \in Box, PowerCut(b) PROVE Notice'
  BY <1>3, PowerCutNotes
<1>4. ASSUME NEW b \in Box, NEW i \in Id, Reoffers(b, i) PROVE Notice'
  BY <1>4, ReoffersNotes
<1>5. ASSUME NEW c \in net, Serves(c) PROVE Notice'
  BY <1>5, ServesReceiveNotes, ServesOfferNotes, ServesCloseNotes DEF Serves
<1>6. ASSUME NEW p \in Proc, NEW m \in Box, GivesUp(p, m) PROVE Notice'
  BY <1>6, GivesUpNotes
<1>7. ASSUME NEW i \in Id, Expires(i) PROVE Notice'
  BY <1>7, IdleNotes DEF Expires
<1>8. CASE UNCHANGED vars
  BY <1>8, IdleNotes DEF vars
<1> QED
  BY <1>1, <1>2, <1>3, <1>4, <1>5, <1>6, <1>7, <1>8 DEF Next

(* What a box notes of who has its value is so, through shares that fail   *)
(* half way, answers that come late or never, and power cuts on either     *)
(* side (webd.py:2994).                                                    *)
THEOREM NotesTrueCorrect == Spec => []NotesTrue
<1>1. Init => Base /\ Notice
  BY InitBase, InitNotes
<1>2. Base /\ Notice /\ [Next]_vars => (Base /\ Notice)'
  BY NextBase, NextNotes
<1>3. Base /\ Notice => NotesTrue
  BY DEF Notice, NoteOK, Fits, NotesTrue
<1> QED
  BY <1>1, <1>2, <1>3, PTL DEF Spec
=============================================================================
