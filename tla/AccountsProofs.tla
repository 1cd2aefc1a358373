--------------------------- MODULE AccountsProofs ---------------------------
(***************************************************************************)
(* Accounts.tla for every set of names and every bound: its types, that    *)
(* the media have no half claim, that an admin stays, and, in calm         *)
(* behaviours, that the places of an account and its sessions agree.       *)
(***************************************************************************)
EXTENDS Accounts, TLAPS

USE AccountsAssumption

-----------------------------------------------------------------------------
(* Types *)

LEMMA NoUsersTyped == NoUser \in Account /\ NoUsers \in Table /\ Idle \in Job
<1>1. NoUser \in Account
  BY DEF NoUser, Account, Role, Pass, NoPass
<1>2. NoUsers \in Table
  BY <1>1 DEF NoUsers, Table
<1> QED
  BY <1>1, <1>2 DEF Idle, Job, NoPass, Pass

LEMMA OnlyAdminTyped ==
    ASSUME NEW pw \in Pass
    PROVE  /\ OnlyAdmin(pw) \in Table
           /\ \A n \in Name : OnlyAdmin(pw)[n] =
                IF n = Admin THEN [role |-> "admin", on |-> TRUE, pw |-> pw, unix |-> FALSE] ELSE NoUser
BY NoUsersTyped DEF OnlyAdmin, NoUsers, Table, Account, Role

LEMMA ReadUsersTyped == ASSUME TypeOK PROVE ReadUsers \in Table /\ \A n \in Name : ReadUsers[n] \in Account
<1>1. ReadUsers \in {users, NoUsers, OnlyAdmin(conf)}
  BY DEF ReadUsers, OnlyAdmin
<1> QED
  BY <1>1, NoUsersTyped, OnlyAdminTyped DEF TypeOK, Table

LEMMA CountsTyped ==
    ASSUME TypeOK, NEW what \in {"op", "kill", "cut", "fail"}, Counts(what)
    PROVE  count' \in [op: Nat, kill: Nat, cut: Nat, fail: Nat]
BY DEF TypeOK, Counts

LEMMA MadeTyped ==
    ASSUME TypeOK, NEW n \in Name, Made(n) \/ NotMade(n)
    PROVE  unix' \subseteq Name /\ count' \in [op: Nat, kill: Nat, cut: Nat, fail: Nat]
BY CountsTyped DEF Made, NotMade, TypeOK

LEMMA NewPassTyped == ASSUME TypeOK PROVE NewPass \in Pass /\ NewPass # NoPass
BY DEF TypeOK, NewPass, Pass, NoPass

LEMMA SessionTyped ==
    ASSUME NEW n \in Name, NEW u \in Account
    PROVE  SessionOf(n, u) \in Session
BY DEF SessionOf, Session, Account

LEMMA PutTyped ==
    ASSUME NEW t \in Table, NEW n \in Name, NEW u \in Account
    PROVE  [t EXCEPT ![n] = u] \in Table
BY DEF Table

LEMMA AddedTyped ==
    ASSUME NEW t \in Table, NEW n \in Name, NEW r \in Role, NEW pw \in Pass, NEW ux \in BOOLEAN
    PROVE  Added(t, n, r, pw, ux) \in Table
BY PutTyped DEF Added, Account

LEMMA ChangedTyped ==
    ASSUME TypeOK, NEW u \in Account, NEW c \in Change
    PROVE  /\ Changed(u, c) \in Account
           /\ Changed(u, c).role = (IF c.role = "same" THEN u.role ELSE c.role)
           /\ Changed(u, c).on = (IF c.on = "same" THEN u.on ELSE c.on = "on")
           /\ Changed(u, c).pw = (IF c.pw THEN NewPass ELSE u.pw)
           /\ Changed(u, c).unix = u.unix
BY NewPassTyped DEF Changed, Account, Change

LEMMA GoesTyped ==
    ASSUME TypeOK, NEW at \in {"idle", "seed", "mark", "keep", "enter", "conf", "drop", "reset", "key", "unix",
                               "write", "del", "forget", "gone", "save"}, Goes(at)
    PROVE  web' \in Job /\ web'.at = at /\ web'.name = web.name /\ web'.by = web.by
           /\ web'.table = web.table /\ web'.pw = web.pw /\ web'.bad = web.bad
BY DEF Goes, TypeOK, Job

LEMMA InitTyped == Init => TypeOK
<1> SUFFICES ASSUME Init PROVE TypeOK
  OBVIOUS
<1>1. saved \in Disk
  BY NoUsersTyped DEF Init, Snapshot, Disk, NoPass, Pass
<1> QED
  BY <1>1, NoUsersTyped DEF Init, TypeOK, NoPass, Pass

LEMMA ClaimTyped ==
    ASSUME TypeOK, OwnerClaims \/ ClaimSeeds \/ ClaimMarks \/ ClaimEnters
    PROVE  TypeOK'
<1>1. CASE OwnerClaims
  <2>1. count' \in [op: Nat, kill: Nat, cut: Nat, fail: Nat] /\ NewPass \in Pass
    BY <1>1, CountsTyped, NewPassTyped DEF OwnerClaims
  <2>2. [Idle EXCEPT !.at = "seed", !.pw = NewPass] \in Job
    BY <2>1, NoUsersTyped DEF Job
  <2> QED
    BY <1>1, <2>1, <2>2 DEF OwnerClaims, TypeOK
<1>2. CASE ClaimSeeds
  <2>1. web' \in Job /\ OnlyAdmin(web.pw) \in Table
    BY <1>2, GoesTyped, OnlyAdminTyped DEF ClaimSeeds, TypeOK, Job
  <2> QED
    BY <1>2, <2>1 DEF ClaimSeeds, TypeOK
<1>3. CASE ClaimMarks
  <2>1. web' \in Job
    BY <1>3, GoesTyped DEF ClaimMarks
  <2> QED
    BY <1>3, <2>1 DEF ClaimMarks, TypeOK
<1>4. CASE ClaimEnters
  <2>1. [user |-> Admin, role |-> "admin", pw |-> web.pw] \in Session
    BY DEF TypeOK, Job, Session, Role
  <2> QED
    BY <1>4, <2>1, NoUsersTyped DEF ClaimEnters, TypeOK
<1> QED
  BY <1>1, <1>2, <1>3, <1>4

LEMMA SessionsTyped ==
    ASSUME TypeOK, (\E n \in Name : SignsIn(n)) \/ (\E s \in sess : SessionEnds(s))
    PROVE  TypeOK'
<1>1. ASSUME NEW n \in Name, SignsIn(n) PROVE TypeOK'
  <2>1. SessionOf(n, ReadUsers[n]) \in Session /\ ReadUsers[n].pw \in Pass
    BY ReadUsersTyped, SessionTyped DEF Account
  <2>2. OnlyAdmin(ReadUsers[n].pw) \in Table
    BY <2>1, OnlyAdminTyped
  <2> QED
    BY <1>1, <2>1, <2>2 DEF SignsIn, TypeOK
<1>2. ASSUME NEW s \in sess, SessionEnds(s) PROVE TypeOK'
  BY <1>2 DEF SessionEnds, TypeOK
<1> QED
  BY <1>1, <1>2

LEMMA ChangesTyped == ASSUME TypeOK, NEW s \in sess, ChangesPassword(s) PROVE TypeOK'
<1> DEFINE t == ReadUsers
           n == s.user
<1>1. n \in Name /\ t \in Table /\ t[n] \in Account /\ NewPass \in Pass
  BY ReadUsersTyped, NewPassTyped DEF TypeOK, Session
<1>2. [t EXCEPT ![n].pw = NewPass] \in Table
  <2>1. [t[n] EXCEPT !.pw = NewPass] \in Account
    BY <1>1 DEF Account
  <2> QED
    BY <1>1, <2>1, PutTyped
<1>3. count' \in [op: Nat, kill: Nat, cut: Nat, fail: Nat]
  BY CountsTyped DEF ChangesPassword, May
<1>4. users' = [t EXCEPT ![n].pw = NewPass]
  BY DEF ChangesPassword
<1>5. web' \in Job
  BY <1>1, <1>2, <1>4, NoUsersTyped DEF ChangesPassword, Job
<1> QED
  BY <1>2, <1>3, <1>4, <1>5 DEF ChangesPassword, TypeOK

LEMMA SetsTyped ==
    ASSUME TypeOK, NEW s \in sess, NEW n \in Name, NEW c \in Change, SetsUser(s, n, c)
    PROVE  TypeOK'
<1> DEFINE t == ReadUsers
           u == t[n]
           next == [at |-> IF c.pw THEN "reset" ELSE "key", name |-> n, by |-> s.user,
                    table |-> [t EXCEPT ![n] = Changed(u, c)], pw |-> NewPass, bad |-> c.bad]
<1>1. t \in Table /\ u \in Account /\ NewPass \in Pass /\ s.user \in Name /\ c.bad \in BOOLEAN /\ c.pw \in BOOLEAN
  BY ReadUsersTyped, NewPassTyped DEF TypeOK, Session, Change
<1>2. [t EXCEPT ![n] = Changed(u, c)] \in Table
  BY <1>1, ChangedTyped, PutTyped
<1>3. next \in Job
  BY <1>1, <1>2 DEF Job
<1>4. count' \in [op: Nat, kill: Nat, cut: Nat, fail: Nat]
  BY CountsTyped DEF SetsUser, May
<1>5. web' = next
  BY DEF SetsUser
<1>6. sess' \subseteq sess
  BY DEF SetsUser, Without
<1> QED
  BY <1>3, <1>4, <1>5, <1>6 DEF SetsUser, TypeOK

LEMMA AddsTyped ==
    ASSUME TypeOK, NEW s \in sess, NEW n \in Name,
           (\E r \in Role, ux \in BOOLEAN : AddsUser(s, n, r, ux)) \/ SharesWith(s, n) \/ RemovesUser(s, n)
    PROVE  TypeOK'
<1> DEFINE t == ReadUsers
<1>0. t \in Table /\ NewPass \in Pass /\ NoPass \in Pass /\ "viewer" \in Role
  BY ReadUsersTyped, NewPassTyped DEF Pass, NoPass, Role
<1>1. ASSUME NEW r \in Role, NEW ux \in BOOLEAN, AddsUser(s, n, r, ux) PROVE TypeOK'
  <2>1. count' \in [op: Nat, kill: Nat, cut: Nat, fail: Nat]
    BY <1>1, CountsTyped DEF AddsUser, May
  <2>2. Added(t, n, r, NewPass, ux) \in Table
    BY <1>0, AddedTyped
  <2>3. web' \in Job
    BY <1>1, <2>2, NoUsersTyped DEF AddsUser, Job
  <2> QED
    BY <1>1, <2>1, <2>3 DEF AddsUser, TypeOK
<1>2. CASE SharesWith(s, n)
  <2>1. count' \in [op: Nat, kill: Nat, cut: Nat, fail: Nat]
    BY <1>2, CountsTyped DEF SharesWith, May
  <2>2. Added(t, n, "viewer", NoPass, TRUE) \in Table
    BY <1>0, AddedTyped
  <2>3. web' \in Job
    BY <1>2, <2>2, NoUsersTyped DEF SharesWith, Job
  <2> QED
    BY <1>2, <2>1, <2>3 DEF SharesWith, TypeOK
<1>3. CASE RemovesUser(s, n)
  <2>1. count' \in [op: Nat, kill: Nat, cut: Nat, fail: Nat]
    BY <1>3, CountsTyped DEF RemovesUser, May
  <2>2. [t EXCEPT ![n] = NoUser] \in Table
    BY <1>0, NoUsersTyped, PutTyped
  <2>3. web' \in Job
    BY <1>3, <2>2, NoUsersTyped DEF RemovesUser, Job
  <2> QED
    BY <1>3, <2>1, <2>3 DEF RemovesUser, TypeOK
<1> QED
  BY <1>1, <1>2, <1>3

LEMMA CliTyped ==
    ASSUME TypeOK, (\E n \in Name : CliReads(n)) \/ CliMakesUnix \/ CliWrites \/ CliSaves
    PROVE  TypeOK'
<1>1. ASSUME NEW n \in Name, CliReads(n) PROVE TypeOK'
  <2>1. count' \in [op: Nat, kill: Nat, cut: Nat, fail: Nat]
    BY <1>1, CountsTyped DEF CliReads
  <2>2. Added(ReadUsers, n, "viewer", NoPass, TRUE) \in Table
    BY ReadUsersTyped, AddedTyped DEF Pass, NoPass, Role
  <2>3. cli' \in Job
    BY <1>1, <2>2, NoUsersTyped DEF CliReads, Job
  <2> QED
    BY <1>1, <2>1, <2>3 DEF CliReads, TypeOK
<1>2. CASE CliMakesUnix
  <2>1. [cli EXCEPT !.at = "write"] \in Job /\ cli.name \in Name
    BY DEF TypeOK, Job
  <2>2. unix' \subseteq Name /\ count' \in [op: Nat, kill: Nat, cut: Nat, fail: Nat]
    BY <1>2, <2>1, MadeTyped DEF CliMakesUnix
  <2> QED
    BY <1>2, <2>1, <2>2, NoUsersTyped DEF CliMakesUnix, TypeOK
<1>3. CASE CliWrites
  <2>1. [cli EXCEPT !.at = "save"] \in Job /\ cli.table \in Table
    BY DEF TypeOK, Job
  <2> QED
    BY <1>3, <2>1 DEF CliWrites, TypeOK
<1>4. CASE CliSaves
  <2>1. saved' \in Disk
    BY <1>4 DEF CliSaves, Kept, Snapshot, TypeOK, Disk
  <2> QED
    BY <1>4, <2>1, NoUsersTyped DEF CliSaves, TypeOK
<1> QED
  BY <1>1, <1>2, <1>3, <1>4

LEMMA WorksTyped == ASSUME TypeOK, WebWorks PROVE TypeOK'
<1>0. web.table \in Table /\ web.pw \in Pass /\ web.name \in Name /\ web.table[web.name] \in Account
  BY DEF TypeOK, Job, Table
<1>1. SessionOf(web.name, web.table[web.name]) \in Session /\ Without(web.name) \subseteq sess
  BY <1>0, SessionTyped DEF Without
<1>2. CASE ClaimSeeds \/ ClaimMarks \/ ClaimEnters
  BY <1>2, ClaimTyped
<1>3. CASE KeepsFallback
  <2>1. web' \in Job
    BY <1>3, GoesTyped DEF KeepsFallback
  <2> QED
    BY <1>0, <1>3, <2>1 DEF KeepsFallback, TypeOK
<1>4. CASE DropsOthers
  <2>1. web' \in Job
    BY <1>4, GoesTyped DEF DropsOthers
  <2> QED
    BY <1>1, <1>4, <2>1 DEF DropsOthers, TypeOK
<1>5. CASE ResetsPassword
  <2>1. web' \in Job
    BY <1>5, GoesTyped DEF ResetsPassword
  <2> QED
    BY <1>0, <1>1, <1>5, <2>1 DEF ResetsPassword, TypeOK
<1>6. CASE SetEnds
  <2>1. web' \in Job
    BY <1>6, GoesTyped, NoUsersTyped DEF SetEnds
  <2> QED
    BY <1>6, <2>1 DEF SetEnds, TypeOK
<1>7. CASE MakesUnix
  <2>1. web' \in Job
    BY <1>7, GoesTyped, NoUsersTyped DEF MakesUnix
  <2>2. unix' \subseteq Name /\ count' \in [op: Nat, kill: Nat, cut: Nat, fail: Nat]
    BY <1>0, <1>7, MadeTyped DEF MakesUnix
  <2> QED
    BY <1>7, <2>1, <2>2 DEF MakesUnix, TypeOK
<1>8. CASE Writes
  <2>1. web' \in Job
    BY <1>8, GoesTyped DEF Writes
  <2> QED
    BY <1>0, <1>8, <2>1 DEF Writes, TypeOK
<1>9. CASE ForgetsUser
  <2>1. web' \in Job
    BY <1>9, GoesTyped DEF ForgetsUser
  <2> QED
    BY <1>0, <1>9, <2>1 DEF ForgetsUser, TypeOK
<1>10. CASE DropsAll
  <2>1. web' \in Job
    BY <1>10, GoesTyped DEF DropsAll
  <2> QED
    BY <1>1, <1>10, <2>1 DEF DropsAll, TypeOK
<1>11. CASE WebSaves
  <2>1. web' \in Job
    BY <1>11, GoesTyped, NoUsersTyped DEF WebSaves
  <2>2. saved' \in Disk
    BY <1>11 DEF WebSaves, Kept, Snapshot, TypeOK, Disk
  <2> QED
    BY <1>11, <2>1, <2>2 DEF WebSaves, TypeOK
<1>12. CASE DeletesUnix
  <2>1. web' \in Job
    BY <1>12, GoesTyped DEF DeletesUnix
  <2>2. count' \in [op: Nat, kill: Nat, cut: Nat, fail: Nat]
    BY <1>12, CountsTyped DEF DeletesUnix, TypeOK
  <2> QED
    BY <1>12, <2>1, <2>2 DEF DeletesUnix, TypeOK
<1> QED
  BY <1>2, <1>3, <1>4, <1>5, <1>6, <1>7, <1>8, <1>9, <1>10, <1>11, <1>12 DEF WebWorks

LEMMA EndsTyped ==
    ASSUME TypeOK, OtherSaves \/ WebKilled \/ CliKilled \/ PowerCut \/ Unclaims
    PROVE  TypeOK'
<1>1. CASE OtherSaves
  <2>1. saved' \in Disk
    BY <1>1 DEF OtherSaves, Kept, Snapshot, TypeOK, Disk
  <2> QED
    BY <1>1, <2>1 DEF OtherSaves, TypeOK
<1>2. CASE WebKilled \/ CliKilled
  <2>1. count' \in [op: Nat, kill: Nat, cut: Nat, fail: Nat]
    BY <1>2, CountsTyped DEF WebKilled, CliKilled
  <2> QED
    BY <1>2, <2>1, NoUsersTyped DEF WebKilled, CliKilled, TypeOK
<1>3. CASE PowerCut
  <2>1. count' \in [op: Nat, kill: Nat, cut: Nat, fail: Nat]
    BY <1>3, CountsTyped DEF PowerCut
  <2> QED
    BY <1>3, <2>1, NoUsersTyped DEF PowerCut, Boots, TypeOK, Disk
<1>4. CASE Unclaims
  <2>1. count' \in [op: Nat, kill: Nat, cut: Nat, fail: Nat]
    BY <1>4, CountsTyped DEF Unclaims, May
  <2>2. saved' \in Disk
    BY <1>4, NoUsersTyped DEF Unclaims, TypeOK, Disk, NoPass, Pass
  <2> QED
    BY <1>4, <2>1, <2>2, NoUsersTyped DEF Unclaims, Boots, TypeOK, Disk
<1> QED
  BY <1>1, <1>2, <1>3, <1>4

(* Every state is of its types, for all instances. *)
THEOREM TypeCorrect == Spec => []TypeOK
<1>1. TypeOK /\ [Next]_vars => TypeOK'
  <2> SUFFICES ASSUME TypeOK, [Next]_vars PROVE TypeOK'
    OBVIOUS
  <2>1. CASE OwnerClaims \/ WebWorks
    BY <2>1, ClaimTyped, WorksTyped
  <2>2. ASSUME NEW s \in sess, Requests(s) \/ SessionEnds(s) PROVE TypeOK'
    BY <2>2, SessionsTyped, ChangesTyped, SetsTyped, AddsTyped DEF Requests
  <2>3. ASSUME NEW n \in Name, SignsIn(n) PROVE TypeOK'
    BY <2>3, SessionsTyped
  <2>4. CASE (\E n \in Name : CliReads(n)) \/ CliMakesUnix \/ CliWrites \/ CliSaves
    BY <2>4, CliTyped
  <2>5. CASE OtherSaves \/ WebKilled \/ CliKilled \/ PowerCut \/ Unclaims
    BY <2>5, EndsTyped
  <2>6. CASE UNCHANGED vars
    BY <2>6 DEF vars, TypeOK
  <2> QED
    BY <2>1, <2>2, <2>3, <2>4, <2>5, <2>6 DEF Next
<1> QED
  BY <1>1, InitTyped, PTL DEF Spec

-----------------------------------------------------------------------------
(* No half claim on the media: the mark comes after the accounts, and a    *)
(* save without the mark saves nothing.                                    *)

MediaInv ==
    /\ mark => file
    /\ web.at = "mark" => file
    /\ saved.mark => saved.file
    /\ saved.conf # NoPass => saved.mark

LEMMA KeptWhole == ASSUME MediaInv, Kept PROVE (saved'.mark => saved'.file) /\ (saved'.conf # NoPass => saved'.mark)
BY DEF MediaInv, Kept, Snapshot

(* The requests that an admin's session sends only begin here. *)
Asks(s, n) ==
    \/ \E c \in Change : SetsUser(s, n, c)
    \/ \E r \in Role, ux \in BOOLEAN : AddsUser(s, n, r, ux)
    \/ SharesWith(s, n) \/ RemovesUser(s, n)

LEMMA AsksOnly ==
    ASSUME NEW s \in sess, NEW n \in Name, Asks(s, n)
    PROVE  /\ UNCHANGED <<conf, file, users, mark, saved, cli, play>>
           /\ web = Idle /\ web'.at \in {"reset", "key", "write", "unix", "del", "forget"}
<1>1. ASSUME NEW c \in Change, SetsUser(s, n, c)
      PROVE  web = Idle /\ web'.at \in {"reset", "key"} /\ UNCHANGED <<conf, file, users, mark, saved, cli, play>>
  BY <1>1 DEF SetsUser, May
<1>2. ASSUME NEW r \in Role, NEW ux \in BOOLEAN, AddsUser(s, n, r, ux)
      PROVE  web = Idle /\ web'.at \in {"unix", "write"} /\ UNCHANGED <<conf, file, users, mark, saved, cli, play>>
  BY <1>2 DEF AddsUser, May, Idle
<1>3. ASSUME SharesWith(s, n)
      PROVE  web = Idle /\ web'.at = "unix" /\ UNCHANGED <<conf, file, users, mark, saved, cli, play>>
  BY <1>3 DEF SharesWith, May, Idle
<1>4. ASSUME RemovesUser(s, n)
      PROVE  web = Idle /\ web'.at \in {"del", "forget"} /\ UNCHANGED <<conf, file, users, mark, saved, cli, play>>
  BY <1>4 DEF RemovesUser, May, Idle
<1> QED
  BY <1>1, <1>2, <1>3, <1>4 DEF Asks

(* Whatever is killed and whenever a save comes, the media that say the    *)
(* box is claimed have its accounts and its mark (MediaClaimWhole).        *)
THEOREM MediaClaimWholeCorrect == Spec => []MediaClaimWhole
<1>1. Init => MediaInv
  BY DEF Init, MediaInv, Snapshot, Idle
<1>2. TypeOK /\ MediaInv /\ [Next]_vars => MediaInv'
  <2> SUFFICES ASSUME TypeOK, MediaInv, [Next]_vars PROVE MediaInv'
    OBVIOUS
  <2>1. CASE OwnerClaims
    BY <2>1 DEF OwnerClaims, MediaInv, Idle
  <2>2. CASE WebWorks
    <3>1. \A at \in {"mark", "keep", "drop", "save", "key", "write", "forget", "gone", "enter"} : Goes(at) => web'.at = at
      BY DEF Goes, TypeOK, Job
    <3>2. CASE WebSaves
      BY <3>1, <3>2, KeptWhole DEF WebSaves, MediaInv, Idle
    <3>3. CASE ~WebSaves
      BY <2>2, <3>1, <3>3 DEF WebWorks, ClaimSeeds, ClaimMarks, ClaimEnters, KeepsFallback, DropsOthers, ResetsPassword,
                              SetEnds, MakesUnix, Writes, DeletesUnix, ForgetsUser, DropsAll, MediaInv, Idle
    <3> QED
      BY <3>2, <3>3
  <2>3. ASSUME NEW s \in sess, Requests(s) \/ SessionEnds(s) PROVE MediaInv'
    <3>1. CASE ChangesPassword(s) \/ SessionEnds(s)
      BY <3>1 DEF ChangesPassword, SessionEnds, MediaInv, Idle
    <3>2. ASSUME NEW n \in Name, Asks(s, n) PROVE MediaInv'
      BY <3>2, AsksOnly DEF MediaInv
    <3> QED
      BY <2>3, <3>1, <3>2 DEF Requests, Asks
  <2>4. ASSUME NEW n \in Name, SignsIn(n) \/ CliReads(n) PROVE MediaInv'
    BY <2>4 DEF SignsIn, CliReads, MediaInv
  <2>5. CASE CliMakesUnix \/ CliWrites
    BY <2>5 DEF CliMakesUnix, CliWrites, MediaInv
  <2>6. CASE CliSaves \/ OtherSaves
    BY <2>6, KeptWhole DEF CliSaves, OtherSaves, MediaInv
  <2>7. CASE WebKilled \/ CliKilled
    BY <2>7 DEF WebKilled, CliKilled, MediaInv, Idle
  <2>8. CASE PowerCut \/ Unclaims
    BY <2>8 DEF PowerCut, Unclaims, Boots, MediaInv, Idle
  <2>9. CASE UNCHANGED vars
    BY <2>9 DEF vars, MediaInv
  <2> QED
    BY <2>1, <2>2, <2>3, <2>4, <2>5, <2>6, <2>7, <2>8, <2>9 DEF Next
<1>3. MediaInv => MediaClaimWhole
  BY DEF MediaInv, MediaClaimWhole
<1>4. Spec => []TypeOK
  BY TypeCorrect
<1> QED
  BY <1>1, <1>2, <1>3, <1>4, PTL DEF Spec

-----------------------------------------------------------------------------
(* An admin stays. Every table that is on its way into users.json, of the  *)
(* dashboard's request and of the command line, has an admin who may sign  *)
(* in, whatever the file has become in the meantime.                       *)

Good(t) == (\E n \in Name : IsAdmin(t[n])) /\ \A n \in Name : t[n].role = "admin" => t[n].pw # NoPass

AdminInv ==
    /\ IF file THEN Good(users) ELSE users = NoUsers
    /\ IF saved.file THEN Good(saved.users) ELSE saved.users = NoUsers
    /\ web.at \in {"reset", "key", "write", "unix", "del", "forget"} => Good(web.table)
    /\ web.at \in {"seed", "conf", "reset"} => web.pw # NoPass
    /\ web.at # "idle" \/ sess # {} => conf # NoPass
    /\ cli.at \in {"unix", "write"} => Good(cli.table)

(* What the invariant asks of the behaviour. *)
Asked == "odd" \notin play.may /\ ~({"cli", "early"} \subseteq play.may)

LastInv == Asked => AdminInv

LEMMA OnlyAdminGood == ASSUME NEW pw \in Pass, pw # NoPass PROVE Good(OnlyAdmin(pw))
<1> DEFINE t == OnlyAdmin(pw)
<1>0. \A n \in Name : t[n] = IF n = Admin THEN [role |-> "admin", on |-> TRUE, pw |-> pw, unix |-> FALSE] ELSE NoUser
  BY OnlyAdminTyped
<1> HIDE DEF t
<1>1. t[Admin] = [role |-> "admin", on |-> TRUE, pw |-> pw, unix |-> FALSE] /\ Admin \in Name
  BY <1>0, AccountsAssumption
<1>2. \A n \in Name \ {Admin} : t[n].role = "viewer"
  BY <1>0 DEF NoUser
<1>3. IsAdmin(t[Admin])
  BY <1>1 DEF IsAdmin
<1>4. \A n \in Name : t[n].role = "admin" => t[n].pw # NoPass
  BY <1>1, <1>2
<1>5. Good(t)
  BY <1>1, <1>3, <1>4 DEF Good
<1> QED
  BY <1>5 DEF t

LEMMA NoUsersNone == \A n \in Name : NoUsers[n] = NoUser /\ ~IsAdmin(NoUser) /\ NoUser.role # "admin"
BY DEF NoUsers, NoUser, IsAdmin

(* What a request reads is good, if the box is claimed. *)
LEMMA ReadUsersGood == ASSUME TypeOK, AdminInv, conf # NoPass PROVE Good(ReadUsers)
<1>1. CASE \E n \in Name : IsAdmin(users[n])
  <2>1. file
    BY <1>1, NoUsersNone DEF AdminInv
  <2> QED
    BY <1>1, <2>1 DEF ReadUsers, AdminInv
<1>2. CASE ~\E n \in Name : IsAdmin(users[n])
  <2>1. ReadUsers = OnlyAdmin(conf)
    BY <1>2 DEF ReadUsers, OnlyAdmin
  <2> QED
    BY <2>1, OnlyAdminGood DEF TypeOK
<1> QED
  BY <1>1, <1>2

LEMMA PutGood ==
    ASSUME NEW t \in Table, Good(t), NEW n \in Name, NEW u \in Account,
           u.role = "admin" => u.pw # NoPass, IsAdmin(u) \/ ~IsAdmin(t[n]) \/ OtherAdmin(t, n)
    PROVE  Good([t EXCEPT ![n] = u])
BY DEF Good, OtherAdmin, Table

LEMMA AsksGood ==
    ASSUME TypeOK, AdminInv, Asked, NEW s \in sess, NEW n \in Name, Asks(s, n)
    PROVE  Good(web'.table) /\ (web'.at = "reset" => web'.pw # NoPass)
<1> DEFINE t == ReadUsers
           u == t[n]
<1>0. t \in Table /\ u \in Account /\ Good(t) /\ NewPass \in Pass /\ NewPass # NoPass
  BY ReadUsersTyped, ReadUsersGood, NewPassTyped DEF AdminInv
<1>1. ASSUME NEW c \in Change, SetsUser(s, n, c)
      PROVE  Good(web'.table) /\ (web'.at = "reset" => web'.pw # NoPass)
  <2> DEFINE v == Changed(u, c)
  <2>1. /\ v \in Account
        /\ v.role = (IF c.role = "same" THEN u.role ELSE c.role)
        /\ v.on = (IF c.on = "same" THEN u.on ELSE c.on = "on")
        /\ v.pw = (IF c.pw THEN NewPass ELSE u.pw)
    BY <1>0, ChangedTyped
  <2>2. /\ web'.table = [t EXCEPT ![n] = v] /\ web'.pw = NewPass
        /\ u.pw = NoPass => c.role = "same" /\ ~c.pw /\ ~c.bad
        /\ u.role = "admin" /\ (c.role \in {"user", "viewer"} \/ c.on = "off") => OtherAdmin(t, n)
        /\ c.on # "odd"
    BY <1>1 DEF SetsUser, Asked
  <2>3. c.role \in {"admin", "user", "viewer", "same"} /\ c.on \in {"on", "off", "same"}
    BY <2>2 DEF Change, Role
  <2> HIDE DEF v, t
  <2>4. v.role = "admin" => v.pw # NoPass
    BY <1>0, <2>1, <2>2 DEF Good
  <2>5. IsAdmin(v) \/ ~IsAdmin(u) \/ OtherAdmin(t, n)
    BY <2>1, <2>2, <2>3 DEF IsAdmin
  <2> QED
    BY <1>0, <2>1, <2>2, <2>4, <2>5, PutGood
<1>2. ASSUME NEW r \in Role, NEW pw \in Pass, NEW ux \in BOOLEAN, u = NoUser, r = "admin" => pw # NoPass
      PROVE  Good(Added(t, n, r, pw, ux))
  <2>1. ~IsAdmin(u)
    BY <1>2, NoUsersNone
  <2>2. [role |-> r, on |-> TRUE, pw |-> pw, unix |-> ux] \in Account
    BY DEF Account
  <2> HIDE DEF t
  <2> QED
    BY <1>0, <1>2, <2>1, <2>2, PutGood DEF Added
<1>3. ASSUME NEW r \in Role, NEW ux \in BOOLEAN, AddsUser(s, n, r, ux)
      PROVE  Good(web'.table) /\ web'.at # "reset"
  BY <1>0, <1>2, <1>3 DEF AddsUser, Idle
<1>4. ASSUME SharesWith(s, n) PROVE Good(web'.table) /\ web'.at # "reset"
  <2>1. NoPass \in Pass /\ "viewer" \in Role
    BY DEF NoPass, Pass, Role
  <2>2. Good(Added(t, n, "viewer", NoPass, TRUE))
    BY <1>2, <1>4, <2>1 DEF SharesWith
  <2> QED
    BY <1>4, <2>2 DEF SharesWith, Idle
<1>5. ASSUME RemovesUser(s, n) PROVE Good(web'.table) /\ web'.at # "reset"
  <2>1. web'.table = [t EXCEPT ![n] = NoUser] /\ web'.at \in {"del", "forget"}
    BY <1>5 DEF RemovesUser, Idle
  <2>2. ~IsAdmin(u) \/ OtherAdmin(t, n)
    BY <1>5 DEF RemovesUser, IsAdmin
  <2> HIDE DEF t
  <2> QED
    BY <1>0, <2>1, <2>2, PutGood, NoUsersTyped, NoUsersNone
<1> QED
  BY <1>1, <1>3, <1>4, <1>5 DEF Asks

LEMMA CliGood ==
    ASSUME TypeOK, AdminInv, Asked, NEW n \in Name, CliReads(n)
    PROVE  Good(cli'.table)
<1> DEFINE t == ReadUsers
           u == [role |-> "viewer", on |-> TRUE, pw |-> NoPass, unix |-> TRUE]
<1>1. t \in Table /\ Good(t) /\ t[n] = NoUser /\ cli'.table = [t EXCEPT ![n] = u]
  BY ReadUsersTyped, ReadUsersGood DEF CliReads, Idle, Added, Asked
<1>2. u \in Account /\ u.role # "admin"
  BY DEF Account, Role, Pass, NoPass
<1>3. ~IsAdmin(t[n])
  BY <1>1, NoUsersNone
<1> HIDE DEF t, u
<1> QED
  BY <1>1, <1>2, <1>3, PutGood

LEMMA WorksKeepAdmin == ASSUME TypeOK, AdminInv, WebWorks PROVE AdminInv'
<1>0. web.table \in Table /\ web.pw \in Pass /\ \A at : Goes(at) => web' = [web EXCEPT !.at = at]
  BY DEF TypeOK, Job, Goes
<1>1. \A at \in {"mark", "keep", "drop", "save", "key", "write", "forget", "gone", "enter"} :
        Goes(at) => web'.at = at /\ web'.table = web.table /\ web'.pw = web.pw
  BY GoesTyped
<1>2. CASE ClaimSeeds
  <2>1. Good(users')
    BY <1>0, <1>2, OnlyAdminGood DEF ClaimSeeds, AdminInv
  <2> QED
    BY <1>1, <1>2, <2>1 DEF ClaimSeeds, AdminInv
<1>3. CASE ClaimMarks \/ ClaimEnters
  BY <1>1, <1>3 DEF ClaimMarks, ClaimEnters, AdminInv, Idle
<1>4. CASE KeepsFallback \/ DropsOthers
  BY <1>1, <1>4 DEF KeepsFallback, DropsOthers, AdminInv
<1>5. CASE ResetsPassword
  <2>1. conf' # NoPass /\ web'.at = "key" /\ web'.table = web.table
    BY <1>1, <1>5 DEF ResetsPassword, AdminInv
  <2> QED
    BY <1>5, <2>1 DEF ResetsPassword, AdminInv
<1>6. CASE SetEnds \/ MakesUnix \/ DeletesUnix
  BY <1>1, <1>6 DEF SetEnds, MakesUnix, DeletesUnix, AdminInv, Idle
<1>7. CASE Writes \/ ForgetsUser
  BY <1>1, <1>7 DEF Writes, ForgetsUser, AdminInv
<1>8. CASE DropsAll
  BY <1>1, <1>8 DEF DropsAll, AdminInv
<1>9. CASE WebSaves
  <2>1. IF saved'.file THEN Good(saved'.users) ELSE saved'.users = NoUsers
    BY <1>9 DEF WebSaves, Kept, Snapshot, AdminInv
  <2> QED
    BY <1>1, <1>9, <2>1 DEF WebSaves, AdminInv, Idle
<1> QED
  BY <1>2, <1>3, <1>4, <1>5, <1>6, <1>7, <1>8, <1>9 DEF WebWorks

LEMMA NoStepPlays == ASSUME [Next]_vars PROVE play' = play
<1>1. CASE OwnerClaims
  BY <1>1 DEF OwnerClaims
<1>2. CASE WebWorks
  BY <1>2 DEF WebWorks, ClaimSeeds, ClaimMarks, ClaimEnters, KeepsFallback, DropsOthers, ResetsPassword, SetEnds,
              MakesUnix, Writes, DeletesUnix, ForgetsUser, DropsAll, WebSaves
<1>3. ASSUME NEW s \in sess, Requests(s) \/ SessionEnds(s) PROVE play' = play
  <2>1. CASE ChangesPassword(s)
    BY <2>1 DEF ChangesPassword
  <2>2. CASE SessionEnds(s)
    BY <2>2 DEF SessionEnds
  <2>3. ASSUME NEW n \in Name, Asks(s, n) PROVE play' = play
    BY <2>3, AsksOnly
  <2> QED
    BY <1>3, <2>1, <2>2, <2>3 DEF Requests, Asks
<1>4. ASSUME NEW n \in Name, SignsIn(n) \/ CliReads(n) PROVE play' = play
  BY <1>4 DEF SignsIn, CliReads
<1>5. CASE CliMakesUnix \/ CliWrites \/ CliSaves \/ OtherSaves
  BY <1>5 DEF CliMakesUnix, CliWrites, CliSaves, OtherSaves
<1>6. CASE WebKilled \/ CliKilled \/ PowerCut \/ Unclaims
  BY <1>6 DEF WebKilled, CliKilled, PowerCut, Unclaims
<1> QED
  BY <1>1, <1>2, <1>3, <1>4, <1>5, <1>6 DEF Next, vars

LEMMA StepKeepsAdmin ==
    ASSUME TypeOK, AdminInv, Asked, [Next]_vars
    PROVE  AdminInv'
<1>1. CASE OwnerClaims
  BY <1>1, NewPassTyped DEF OwnerClaims, AdminInv, Idle
<1>2. CASE WebWorks
  BY <1>2, WorksKeepAdmin
<1>3. ASSUME NEW s \in sess, Requests(s) \/ SessionEnds(s) PROVE AdminInv'
  <2>1. CASE ChangesPassword(s)
    <3> DEFINE t == ReadUsers
               n == s.user
               u == [t[n] EXCEPT !.pw = NewPass]
    <3>1. n \in Name /\ t \in Table /\ t[n] \in Account /\ Good(t) /\ NewPass \in Pass /\ NewPass # NoPass
      BY ReadUsersTyped, ReadUsersGood, NewPassTyped DEF TypeOK, Session, AdminInv
    <3>2. u \in Account /\ u.role = t[n].role /\ u.on = t[n].on /\ u.pw = NewPass
      BY <3>1 DEF Account
    <3>3. users' = [t EXCEPT ![n] = u]
      BY <2>1 DEF ChangesPassword
    <3> HIDE DEF u, t, n
    <3>4. Good(users')
      BY <3>1, <3>2, <3>3, PutGood DEF IsAdmin
    <3>5. web'.at \in {"conf", "drop"} /\ web'.pw = NewPass /\ file' /\ UNCHANGED <<conf, sess, saved, cli>>
      BY <2>1 DEF ChangesPassword, Idle
    <3> QED
      BY <3>1, <3>4, <3>5 DEF AdminInv
  <2>2. CASE SessionEnds(s)
    BY <2>2 DEF SessionEnds, AdminInv
  <2>3. ASSUME NEW n \in Name, Asks(s, n) PROVE AdminInv'
    <3>1. conf # NoPass
      BY DEF AdminInv
    <3> QED
      BY <2>3, <3>1, AsksOnly, AsksGood DEF AdminInv
  <2> QED
    BY <1>3, <2>1, <2>2, <2>3 DEF Requests, Asks
<1>4. ASSUME NEW n \in Name, SignsIn(n) PROVE AdminInv'
  <2>1. ReadUsers[n].pw \in Pass /\ ReadUsers[n].pw # NoPass
    BY <1>4, ReadUsersTyped DEF SignsIn, Account
  <2>2. Good(OnlyAdmin(ReadUsers[n].pw))
    BY <2>1, OnlyAdminGood
  <2> QED
    BY <1>4, <2>2 DEF SignsIn, AdminInv
<1>5. ASSUME NEW n \in Name, CliReads(n) PROVE AdminInv'
  <2>1. UNCHANGED <<conf, file, users, sess, saved, web>>
    BY <1>5 DEF CliReads
  <2> QED
    BY <1>5, <2>1, CliGood DEF AdminInv
<1>6. CASE CliMakesUnix \/ CliWrites
  BY <1>6 DEF CliMakesUnix, CliWrites, AdminInv, Idle, TypeOK, Job
<1>7. CASE CliSaves \/ OtherSaves
  <2>1. IF saved'.file THEN Good(saved'.users) ELSE saved'.users = NoUsers
    BY <1>7 DEF CliSaves, OtherSaves, Kept, Snapshot, AdminInv
  <2> QED
    BY <1>7, <2>1 DEF CliSaves, OtherSaves, AdminInv, Idle
<1>8. CASE WebKilled \/ CliKilled
  BY <1>8 DEF WebKilled, CliKilled, AdminInv, Idle
<1>9. CASE PowerCut
  BY <1>9 DEF PowerCut, Boots, AdminInv, Idle
<1>10. CASE Unclaims
  BY <1>10 DEF Unclaims, Boots, AdminInv, Idle
<1>11. CASE UNCHANGED vars
  BY <1>11 DEF vars, AdminInv
<1> QED
  BY <1>1, <1>2, <1>3, <1>4, <1>5, <1>6, <1>7, <1>8, <1>9, <1>10, <1>11 DEF Next

(* Whatever admins do to each other, also with a command line beside the   *)
(* dashboard, one who may sign in is left (LastAdminStays).                *)
THEOREM LastAdminStaysCorrect == Spec => []LastAdminStays
<1>1. Init => LastInv
  BY DEF Init, LastInv, AdminInv, Snapshot, Idle
<1>2. TypeOK /\ LastInv /\ [Next]_vars => LastInv'
  <2> SUFFICES ASSUME TypeOK, LastInv, [Next]_vars PROVE LastInv'
    OBVIOUS
  <2>1. play' = play
    BY NoStepPlays
  <2> QED
    BY <2>1, StepKeepsAdmin DEF LastInv, Asked
<1>3. LastInv => LastAdminStays
  BY DEF LastInv, Asked, AdminInv, Good, LastAdminStays, IsAdmin
<1>4. Spec => []TypeOK
  BY TypeCorrect
<1> QED
  BY <1>1, <1>2, <1>3, <1>4, PTL DEF Spec

-----------------------------------------------------------------------------
(* Calm behaviours. What the request at work will have made of the places  *)
(* when it is done, they agree on: users.json, web-admin.conf, the unix    *)
(* accounts and the sessions it keeps.                                     *)

Agree(c, f, t, x, k) ==
    /\ f <=> c # NoPass
    /\ t[Admin] # NoUser => c = t[Admin].pw
    /\ {n \in Name : t[n].unix} \subseteq x
    /\ k = 0 => x = {n \in Name : t[n].unix}

TableDue == IF web.at = "seed" THEN OnlyAdmin(web.pw)
            ELSE IF web.at \in {"reset", "key", "write", "unix", "del", "forget"} THEN web.table ELSE users
ConfDue == IF web.at \in {"conf", "reset"} /\ web.name = Admin THEN web.pw ELSE conf
FileDue == IF web.at = "seed" THEN TRUE ELSE file
UnixDue == IF web.at = "unix" THEN unix \cup {web.name}
           ELSE IF web.at = "del" THEN unix \ {web.name} ELSE unix
SessDue == IF web.at \in {"conf", "drop", "reset", "del", "forget", "gone"} THEN Without(web.name) ELSE sess

Current(s, t) == t[s.user].on /\ t[s.user].pw = s.pw

JobCalm ==
    /\ ~web.bad
    /\ web.at \in {"mark", "keep", "enter"} => users = OnlyAdmin(web.pw)
    /\ web.at \in {"conf", "drop"} => web.table = users /\ users[web.name].on /\ users[web.name].pw = web.pw
    /\ web.at = "conf" => web.name = Admin
    /\ web.at = "reset" => web.name # web.by
    /\ web.at = "unix" => /\ web.name \notin unix
                          /\ Agree(conf, file, users, unix, count.fail) /\ \A s \in sess : Current(s, users)

CalmInv ==
    /\ cli = Idle
    /\ JobCalm
    /\ Agree(ConfDue, FileDue, TableDue, UnixDue, count.fail)
    /\ \A s \in SessDue : Current(s, TableDue)
    /\ Agree(saved.conf, saved.file, saved.users, saved.unix, count.fail)

LEMMA ReadsFile == ASSUME AdminInv, file PROVE ReadUsers = users
BY DEF AdminInv, Good, ReadUsers

LEMMA OnlyAdminIs ==
    ASSUME NEW pw \in Pass
    PROVE  /\ OnlyAdmin(pw)[Admin].on /\ OnlyAdmin(pw)[Admin].pw = pw
           /\ \A n \in Name : ~OnlyAdmin(pw)[n].unix
<1> DEFINE t == OnlyAdmin(pw)
<1>1. \A n \in Name : t[n] = IF n = Admin THEN [role |-> "admin", on |-> TRUE, pw |-> pw, unix |-> FALSE] ELSE NoUser
  BY OnlyAdminTyped
<1> SUFFICES t[Admin].on /\ t[Admin].pw = pw /\ \A n \in Name : ~t[n].unix
  OBVIOUS
<1> HIDE DEF t
<1>2. t[Admin] = [role |-> "admin", on |-> TRUE, pw |-> pw, unix |-> FALSE]
  BY <1>1, AccountsAssumption
<1>3. \A n \in Name : ~t[n].unix
  BY <1>1 DEF NoUser
<1> QED
  BY <1>2, <1>3

LEMMA FailKept ==
    ASSUME TypeOK, (\E what \in {"op", "kill", "cut"} : Counts(what)) \/ UNCHANGED count
    PROVE  count'.fail = count.fail
BY DEF Counts, TypeOK

LEMMA FailCounts == ASSUME TypeOK, Counts("fail") PROVE count'.fail # 0
BY DEF Counts, TypeOK

(* Without users.json there is nothing, and nobody. *)
LEMMA CalmFile ==
    ASSUME TypeOK, AdminInv, CalmInv, web.at # "seed"
    PROVE  file <=> conf # NoPass
BY DEF CalmInv, Agree, ConfDue, FileDue, AdminInv

LEMMA CalmIdle ==
    ASSUME TypeOK, AdminInv, CalmInv, web.at \in {"idle", "save", "mark", "keep", "enter"}
    PROVE  /\ Agree(conf, file, users, unix, count.fail)
           /\ \A s \in sess : Current(s, users)
BY DEF CalmInv, ConfDue, FileDue, TableDue, UnixDue, SessDue

LEMMA IdleCalm ==
    ASSUME web'.at \in {"idle", "save"}, cli' = Idle, ~web'.bad, Agree(conf', file', users', unix', count'.fail),
           \A s \in sess' : Current(s, users'),
           Agree(saved'.conf, saved'.file, saved'.users, saved'.unix, count'.fail)
    PROVE  CalmInv'
BY DEF CalmInv, JobCalm, ConfDue, FileDue, TableDue, UnixDue, SessDue

LEMMA ClaimsCalm == ASSUME TypeOK, AdminInv, CalmInv, OwnerClaims PROVE CalmInv'
<1>1. /\ web.at = "idle" /\ conf = NoPass /\ sess = {} /\ ~file /\ users = NoUsers
      /\ NewPass \in Pass /\ NewPass # NoPass
  BY CalmFile, NewPassTyped DEF OwnerClaims, Idle, AdminInv
<1>2. /\ Agree(conf, file, users, unix, count.fail)
      /\ count'.fail = count.fail
  BY <1>1, CalmIdle, FailKept DEF OwnerClaims
<1>3. /\ web'.at = "seed" /\ web'.pw = NewPass /\ ~web'.bad /\ conf' = NewPass
      /\ UNCHANGED <<file, users, unix, sess, saved, cli>>
  BY DEF OwnerClaims, Idle
<1>4. Agree(NewPass, TRUE, OnlyAdmin(NewPass), unix, count.fail)
  <2>1. {n \in Name : OnlyAdmin(NewPass)[n].unix} = {} /\ {n \in Name : users[n].unix} = {}
    BY <1>1, OnlyAdminIs, NoUsersNone DEF NoUser
  <2>2. OnlyAdmin(NewPass)[Admin].pw = NewPass
    BY <1>1, OnlyAdminIs
  <2> QED
    BY <1>1, <1>2, <2>1, <2>2 DEF Agree
<1> QED
  BY <1>1, <1>2, <1>3, <1>4 DEF CalmInv, JobCalm, ConfDue, FileDue, TableDue, UnixDue, SessDue

LEMMA WorksCalm == ASSUME TypeOK, AdminInv, CalmInv, WebWorks PROVE CalmInv'
<1>0. \A at \in {"mark", "keep", "drop", "save", "key", "write", "forget", "gone", "enter"} :
        Goes(at) => /\ web'.at = at /\ web'.name = web.name /\ web'.by = web.by
                    /\ web'.table = web.table /\ web'.pw = web.pw /\ web'.bad = web.bad
  BY GoesTyped
<1>e. UNCHANGED count => (count'.fail = count.fail)
  BY FailKept
<1>1. CASE ClaimSeeds
  <2>1. web'.at = "mark" /\ web'.pw = web.pw /\ ~web'.bad /\ users' = OnlyAdmin(web.pw) /\ file'
    BY <1>0, <1>1 DEF ClaimSeeds, CalmInv, JobCalm
  <2> QED
    BY <1>e, <1>1, <2>1 DEF ClaimSeeds, CalmInv, JobCalm, ConfDue, FileDue, TableDue, UnixDue, SessDue
<1>2. CASE ClaimMarks
  BY <1>0, <1>e, <1>2 DEF ClaimMarks, CalmInv, JobCalm, ConfDue, FileDue, TableDue, UnixDue, SessDue
<1>3. CASE ClaimEnters
  <2> DEFINE z == [user |-> Admin, role |-> "admin", pw |-> web.pw]
  <2>1. users = OnlyAdmin(web.pw) /\ web.pw \in Pass
    BY <1>3 DEF ClaimEnters, CalmInv, JobCalm, TypeOK, Job
  <2>2. users[Admin].on /\ users[Admin].pw = web.pw
    BY <2>1, OnlyAdminIs
  <2>3. Current(z, users)
    BY <2>2 DEF Current
  <2>4. Agree(conf, file, users, unix, count.fail) /\ \A s \in sess : Current(s, users)
    BY <1>3, CalmIdle DEF ClaimEnters
  <2>5. web' = Idle /\ sess' = sess \cup {z} /\ UNCHANGED <<conf, file, users, unix, saved, cli, count>>
    BY <1>3 DEF ClaimEnters
  <2> HIDE DEF z
  <2>6. \A s \in sess' : Current(s, users')
    BY <2>3, <2>4, <2>5
  <2>7. web'.at = "idle" /\ ~web'.bad
    BY <2>5 DEF Idle
  <2> QED
    BY <2>4, <2>5, <2>6, <2>7, IdleCalm DEF CalmInv
<1>4. CASE KeepsFallback
  <2>1. /\ web.at = "conf" /\ web.name = Admin /\ conf' = web.pw
        /\ web'.at = "drop" /\ web'.name = Admin /\ web'.table = web.table /\ web'.pw = web.pw /\ web'.bad = web.bad
        /\ UNCHANGED <<file, users, unix, sess, saved, cli, count>>
    BY <1>0, <1>4 DEF KeepsFallback, CalmInv, JobCalm
  <2>2. JobCalm'
    BY <2>1 DEF CalmInv, JobCalm
  <2>3. ConfDue' = ConfDue /\ FileDue' = FileDue /\ TableDue' = TableDue /\ UnixDue' = UnixDue /\ SessDue' = SessDue
    BY <2>1 DEF ConfDue, FileDue, TableDue, UnixDue, SessDue, Without
  <2> QED
    BY <2>1, <2>2, <2>3 DEF CalmInv
<1>5. CASE DropsOthers
  <2> DEFINE z == SessionOf(web.name, web.table[web.name])
  <2>1. web.table = users /\ users[web.name].on /\ users[web.name].pw = web.pw
    BY <1>5 DEF DropsOthers, CalmInv, JobCalm
  <2>2. Current(z, users)
    BY <2>1 DEF SessionOf, Current
  <2>3. Agree(conf, file, users, unix, count.fail) /\ \A s \in Without(web.name) : Current(s, users)
    BY <1>5 DEF DropsOthers, CalmInv, ConfDue, FileDue, TableDue, UnixDue, SessDue
  <2>4. /\ sess' = Without(web.name) \cup {z} /\ UNCHANGED <<conf, file, users, unix, saved, cli, count>>
        /\ web'.at = "save" /\ web'.bad = web.bad
    BY <1>0, <1>5 DEF DropsOthers
  <2> HIDE DEF z
  <2>5. \A s \in sess' : Current(s, users')
    BY <2>2, <2>3, <2>4
  <2> QED
    BY <2>3, <2>4, <2>5, IdleCalm DEF CalmInv, JobCalm
<1>6. CASE ResetsPassword
  <2>1. /\ sess' = Without(web.name) /\ conf' = (IF web.name = Admin THEN web.pw ELSE conf)
        /\ web'.at = "key" /\ web'.name = web.name /\ web'.table = web.table /\ web'.bad = web.bad
        /\ UNCHANGED <<file, users, unix, saved, cli>>
    BY <1>0, <1>6 DEF ResetsPassword, CalmInv, JobCalm
  <2> QED
    BY <1>e, <1>6, <2>1 DEF ResetsPassword, CalmInv, JobCalm, ConfDue, FileDue, TableDue, UnixDue, SessDue
<1>7. CASE SetEnds
  <2>1. web'.at = "write" /\ web'.table = web.table /\ web'.bad = web.bad /\ web.at = "key"
    BY <1>0, <1>7 DEF SetEnds, CalmInv, JobCalm
  <2> QED
    BY <1>e, <1>7, <2>1 DEF SetEnds, CalmInv, JobCalm, ConfDue, FileDue, TableDue, UnixDue, SessDue
<1>8. CASE MakesUnix
  <2>1. web.at = "unix" /\ web.name \notin unix /\ UNCHANGED <<conf, file, users, sess, saved, cli>>
    BY <1>8 DEF MakesUnix, CalmInv, JobCalm
  <2>2. CASE Made(web.name) /\ Goes("write")
    <3>1. /\ web'.at = "write" /\ web'.table = web.table /\ web'.bad = web.bad
          /\ unix' = unix \cup {web.name} /\ (count'.fail = count.fail)
      BY <1>0, <1>e, <2>2 DEF Made
    <3> QED
      BY <2>1, <3>1 DEF CalmInv, JobCalm, ConfDue, FileDue, TableDue, UnixDue, SessDue
  <2>3. CASE NotMade(web.name) /\ web' = Idle
    <3>1. web'.at = "idle" /\ ~web'.bad /\ unix' \in {unix, unix \cup {web.name}} /\ count'.fail # 0
      BY <2>1, <2>3, FailCounts DEF NotMade, Idle
    <3>2. Agree(conf, file, users, unix, count.fail) /\ \A s \in sess : Current(s, users)
      BY <2>1 DEF CalmInv, JobCalm
    <3>3. Agree(conf', file', users', unix', count'.fail) /\ Agree(saved'.conf, saved'.file, saved'.users, saved'.unix, count'.fail)
      BY <2>1, <3>1, <3>2 DEF Agree, CalmInv
    <3> QED
      BY <2>1, <3>1, <3>2, <3>3, IdleCalm DEF CalmInv
  <2> QED
    BY <1>8, <2>2, <2>3 DEF MakesUnix
<1>12. CASE DeletesUnix
  <2>1. /\ web.at = "del" /\ web'.at = "forget" /\ web'.name = web.name /\ web'.table = web.table /\ web'.bad = web.bad
        /\ UNCHANGED <<conf, file, users, sess, saved, cli>>
    BY <1>0, <1>12 DEF DeletesUnix
  <2>2. JobCalm' /\ SessDue' = SessDue /\ TableDue' = TableDue /\ ConfDue' = ConfDue /\ FileDue' = FileDue
    BY <2>1 DEF CalmInv, JobCalm, SessDue, Without, TableDue, ConfDue, FileDue
  <2>3. UnixDue = unix \ {web.name} /\ UnixDue' = unix'
    BY <2>1 DEF UnixDue
  <2>4. (unix' = UnixDue /\ (count'.fail = count.fail)) \/ (UnixDue \subseteq unix' /\ count'.fail # 0)
    BY <1>12, <1>e, <2>3, FailCounts DEF DeletesUnix
  <2>5. /\ Agree(ConfDue', FileDue', TableDue', UnixDue', count'.fail)
        /\ Agree(saved'.conf, saved'.file, saved'.users, saved'.unix, count'.fail)
    BY <2>1, <2>2, <2>3, <2>4 DEF Agree, CalmInv
  <2> QED
    BY <2>1, <2>2, <2>5 DEF CalmInv
<1>9. CASE Writes \/ ForgetsUser
  <2>1. /\ users' = web.table /\ file' /\ web'.at \in {"save", "gone"} /\ web'.name = web.name /\ web'.bad = web.bad
        /\ web.at \in {"write", "forget"} /\ (web'.at = "gone" <=> web.at = "forget")
        /\ UNCHANGED <<conf, unix, sess, saved, cli, count>>
    BY <1>0, <1>9 DEF Writes, ForgetsUser
  <2>2. conf # NoPass /\ Agree(conf, file, web.table, unix, count.fail) /\ file \in BOOLEAN
    BY <2>1 DEF CalmInv, ConfDue, FileDue, TableDue, UnixDue, AdminInv, TypeOK
  <2>3. Agree(conf', file', users', unix', count'.fail)
    BY <1>9, <1>e, <2>1, <2>2 DEF Agree, Writes, ForgetsUser
  <2> QED
    BY <2>1, <2>3 DEF CalmInv, JobCalm, Without, ConfDue, FileDue, TableDue, UnixDue, SessDue
<1>10. CASE DropsAll
  <2>1. web.at = "gone" /\ web'.at = "save" /\ web'.bad = web.bad /\ sess' = Without(web.name)
    BY <1>0, <1>10 DEF DropsAll
  <2> QED
    BY <1>e, <1>10, <2>1 DEF DropsAll, CalmInv, JobCalm, ConfDue, FileDue, TableDue, UnixDue, SessDue
<1>11. CASE WebSaves
  <2>1. Agree(conf, file, users, unix, count.fail) /\ \A s \in sess : Current(s, users)
    BY <1>11, CalmIdle DEF WebSaves
  <2>2. Agree(saved'.conf, saved'.file, saved'.users, saved'.unix, count'.fail)
    BY <1>11, <1>e, <2>1 DEF WebSaves, Kept, Snapshot, CalmInv
  <2>3. CASE web.at = "keep"
    <3>1. web'.at = "enter" /\ web'.pw = web.pw /\ web'.bad = web.bad
      BY <1>0, <1>11, <2>3 DEF WebSaves
    <3> QED
      BY <1>11, <1>e, <2>1, <2>2, <2>3, <3>1 DEF WebSaves, CalmInv, JobCalm, ConfDue, FileDue, TableDue, UnixDue, SessDue
  <2>4. CASE web.at # "keep"
    <3>1. web'.at = "idle" /\ ~web'.bad /\ UNCHANGED <<conf, file, users, unix, sess, cli>> /\ (count'.fail = count.fail)
      BY <1>11, <1>e, <2>4 DEF WebSaves, Idle
    <3> QED
      BY <2>1, <2>2, <3>1, IdleCalm DEF CalmInv
  <2> QED
    BY <1>e, <2>3, <2>4
<1> QED
  BY <1>1, <1>2, <1>3, <1>4, <1>5, <1>6, <1>7, <1>8, <1>9, <1>10, <1>11, <1>12 DEF WebWorks

(* What a request finds. *)
LEMMA CalmFound ==
    ASSUME TypeOK, AdminInv, CalmInv, web = Idle, NEW s \in sess
    PROVE  /\ file /\ ReadUsers = users /\ users \in Table /\ s.user \in Name /\ conf # NoPass
           /\ Agree(conf, file, users, unix, count.fail) /\ \A z \in sess : Current(z, users)
           /\ NewPass \in Pass /\ NewPass # NoPass
<1>1. web.at = "idle"
  BY DEF Idle
<1>2. Agree(conf, file, users, unix, count.fail) /\ \A z \in sess : Current(z, users)
  BY <1>1, CalmIdle
<1>3. conf # NoPass
  BY DEF AdminInv
<1>4. file
  BY <1>2, <1>3 DEF Agree
<1> QED
  BY <1>2, <1>3, <1>4, ReadsFile, NewPassTyped DEF TypeOK, Session

LEMMA ChangeCalm ==
    ASSUME TypeOK, AdminInv, CalmInv, NEW s \in sess, ChangesPassword(s)
    PROVE  CalmInv'
<1> DEFINE n == s.user
           t == [users EXCEPT ![n].pw = NewPass]
<1>1. web = Idle
  BY DEF ChangesPassword, May
<1>2. /\ file /\ ReadUsers = users /\ users \in Table /\ n \in Name /\ conf # NoPass
      /\ Agree(conf, file, users, unix, count.fail) /\ \A z \in sess : Current(z, users)
      /\ NewPass \in Pass /\ NewPass # NoPass
  BY <1>1, CalmFound
<1>3. \A m \in Name : /\ m # n => t[m] = users[m]
                      /\ t[m].on = users[m].on /\ t[m].unix = users[m].unix
                      /\ t[n].pw = NewPass
  BY <1>2 DEF Table, Account
<1>4. /\ users' = t /\ file' /\ web'.at = (IF n = Admin THEN "conf" ELSE "drop") /\ web'.name = n
      /\ web'.table = t /\ web'.pw = NewPass /\ ~web'.bad /\ UNCHANGED <<conf, unix, sess, saved, cli>>
      /\ count'.fail = count.fail
  BY <1>2, FailKept DEF ChangesPassword, May, Idle
<1>5. users[n] # NoUser
  BY <1>2 DEF ChangesPassword
<1>6. users[n].on /\ \A z \in sess : z.user \in Name /\ users[z.user].on /\ users[z.user].pw = z.pw
  BY <1>2 DEF Current, TypeOK, Session
<1> HIDE DEF t, n
<1>7. {m \in Name : t[m].unix} = {m \in Name : users[m].unix}
  BY <1>3
<1>8. Agree(IF n = Admin THEN NewPass ELSE conf, TRUE, t, unix, count.fail)
  BY <1>2, <1>3, <1>5, <1>7 DEF Agree
<1>9. \A z \in sess : z.user # n => Current(z, t)
  BY <1>3, <1>6 DEF Current
<1>10. t[n].on /\ t[n].pw = NewPass
  BY <1>2, <1>3, <1>6
<1>11. JobCalm'
  BY <1>4, <1>10 DEF JobCalm
<1>12. ConfDue' = (IF n = Admin THEN NewPass ELSE conf) /\ FileDue' = TRUE /\ TableDue' = t /\ UnixDue' = unix
  BY <1>4 DEF ConfDue, FileDue, TableDue, UnixDue
<1>13. \A z \in SessDue' : z \in sess /\ z.user # n
  BY <1>4 DEF SessDue, Without
<1> QED
  BY <1>4, <1>8, <1>9, <1>11, <1>12, <1>13 DEF CalmInv

LEMMA SetCalm ==
    ASSUME TypeOK, AdminInv, CalmInv, Calm, NEW s \in sess, NEW n \in Name, NEW c \in Change, SetsUser(s, n, c)
    PROVE  CalmInv'
<1> DEFINE v == Changed(users[n], c)
           t == [users EXCEPT ![n] = v]
<1>1. web = Idle
  BY DEF SetsUser, May
<1>2. /\ file /\ ReadUsers = users /\ users \in Table /\ users[n] \in Account /\ conf # NoPass
      /\ Agree(conf, file, users, unix, count.fail) /\ \A z \in sess : Current(z, users)
      /\ NewPass \in Pass /\ NewPass # NoPass
  BY <1>1, CalmFound DEF Table
<1>3. /\ v.on = (IF c.on = "same" THEN users[n].on ELSE c.on = "on")
      /\ v.pw = (IF c.pw THEN NewPass ELSE users[n].pw) /\ v.unix = users[n].unix
  BY <1>2, ChangedTyped
<1>4. Button(c) /\ n # s.user
  BY DEF SetsUser, Calm
<1>5. /\ web'.at = (IF c.pw THEN "reset" ELSE "key") /\ web'.name = n /\ web'.by = s.user
      /\ web'.table = t /\ web'.pw = NewPass /\ web'.bad = c.bad
      /\ sess' = (IF c.on = "off" /\ users[n].on THEN Without(n) ELSE sess)
      /\ users[n] # NoUser /\ c.on # "odd" /\ (count'.fail = count.fail)
      /\ UNCHANGED <<conf, file, users, unix, saved, cli>>
  BY <1>2, FailKept DEF SetsUser, Disables, May, Calm
<1>6. t[n] = v /\ \A m \in Name \ {n} : t[m] = users[m]
  BY <1>2 DEF Table
<1>7. \A z \in sess : z.user \in Name /\ users[z.user].on /\ users[z.user].pw = z.pw
  BY <1>2 DEF Current, TypeOK, Session
<1> HIDE DEF t, v
<1>8. {m \in Name : t[m].unix} = {m \in Name : users[m].unix}
  BY <1>3, <1>6
<1>9. Agree(IF c.pw /\ n = Admin THEN NewPass ELSE conf, TRUE, t, unix, count.fail)
  BY <1>2, <1>3, <1>5, <1>6, <1>8 DEF Agree
<1>10. ASSUME NEW z \in SessDue' PROVE Current(z, t)
  <2>1. z \in sess
    BY <1>5 DEF SessDue, Without
  <2>2. CASE z.user # n
    BY <1>6, <1>7, <2>1, <2>2 DEF Current
  <2>3. CASE z.user = n
    <3>1. ~c.pw /\ c.on # "off"
      BY <1>5, <1>7, <2>1, <2>3 DEF SessDue, Without
    <3>2. c.on \in {"on", "same"}
      BY <1>5, <3>1 DEF Change
    <3>3. v.on /\ v.pw = z.pw
      BY <1>3, <1>7, <2>1, <2>3, <3>1, <3>2
    <3> QED
      BY <1>6, <2>3, <3>3 DEF Current
  <2> QED
    BY <2>2, <2>3
<1>11. JobCalm'
  BY <1>4, <1>5 DEF JobCalm, Button
<1>12. ConfDue' = (IF c.pw /\ n = Admin THEN NewPass ELSE conf) /\ FileDue' = TRUE /\ TableDue' = t /\ UnixDue' = unix
  BY <1>2, <1>5 DEF ConfDue, FileDue, TableDue, UnixDue
<1> QED
  BY <1>5, <1>9, <1>10, <1>11, <1>12 DEF CalmInv

(* An account nobody has yet has no session. *)
LEMMA NewCalm ==
    ASSUME TypeOK, AdminInv, CalmInv, NEW s \in sess, NEW n \in Name \ {Admin}, NEW r \in Role, NEW pw \in Pass,
           NEW ux \in BOOLEAN, web = Idle, users[n] = NoUser, ux => n \notin unix, count'.fail = count.fail,
           web'.at = (IF ux THEN "unix" ELSE "write"), web'.name = n, ~web'.bad,
           web'.table = Added(users, n, r, pw, ux), UNCHANGED <<conf, file, users, unix, sess, saved, cli>>
    PROVE  CalmInv'
<1> DEFINE t == Added(users, n, r, pw, ux)
<1>1. /\ file /\ users \in Table
      /\ Agree(conf, file, users, unix, count.fail) /\ \A z \in sess : Current(z, users)
  BY CalmFound
<1>2. t[n].unix = ux /\ \A m \in Name \ {n} : t[m] = users[m]
  BY <1>1 DEF Added, Table
<1>3. \A z \in sess : z.user \in Name /\ users[z.user].on /\ users[z.user].pw = z.pw
  BY <1>1 DEF Current, TypeOK, Session
<1>4. ~users[n].unix /\ ~users[n].on
  BY DEF NoUser
<1> HIDE DEF t
<1>5. {m \in Name : t[m].unix} = {m \in Name : users[m].unix} \cup (IF ux THEN {n} ELSE {})
  BY <1>2, <1>4
<1>6. Agree(conf, TRUE, t, IF ux THEN unix \cup {n} ELSE unix, count.fail)
  BY <1>1, <1>2, <1>5 DEF Agree
<1>7. \A z \in sess : Current(z, t)
  BY <1>2, <1>3, <1>4 DEF Current
<1>8. JobCalm'
  BY <1>1 DEF JobCalm
<1>9. /\ ConfDue' = conf /\ FileDue' = TRUE /\ TableDue' = t /\ UnixDue' = (IF ux THEN unix \cup {n} ELSE unix)
      /\ SessDue' = sess
  BY <1>1 DEF ConfDue, FileDue, TableDue, UnixDue, SessDue, t
<1> QED
  BY <1>6, <1>7, <1>8, <1>9 DEF CalmInv

LEMMA RemoveCalm ==
    ASSUME TypeOK, AdminInv, CalmInv, NEW s \in sess, NEW n \in Name, RemovesUser(s, n)
    PROVE  CalmInv'
<1> DEFINE t == [users EXCEPT ![n] = NoUser]
<1>1. web = Idle
  BY DEF RemovesUser, May
<1>2. /\ file /\ ReadUsers = users /\ users \in Table
      /\ Agree(conf, file, users, unix, count.fail) /\ \A z \in sess : Current(z, users)
  BY <1>1, CalmFound
<1>3. /\ web'.at = (IF users[n].unix THEN "del" ELSE "forget") /\ web'.name = n /\ web'.table = t /\ ~web'.bad
      /\ UNCHANGED <<conf, file, users, unix, sess, saved, cli>> /\ (count'.fail = count.fail)
  BY <1>2, FailKept DEF RemovesUser, May, Idle
<1>4. t[n] = NoUser /\ ~t[n].unix /\ \A m \in Name \ {n} : t[m] = users[m]
  BY <1>2 DEF Table, NoUser
<1>5. \A z \in sess : z.user \in Name /\ users[z.user].on /\ users[z.user].pw = z.pw
  BY <1>2 DEF Current, TypeOK, Session
<1> HIDE DEF t
<1>6. {m \in Name : t[m].unix} = {m \in Name : users[m].unix} \ {n}
  BY <1>4
<1>7. Agree(conf, TRUE, t, IF users[n].unix THEN unix \ {n} ELSE unix, count.fail)
  BY <1>2, <1>4, <1>6 DEF Agree
<1>8. \A z \in sess : z.user # n => Current(z, t)
  BY <1>4, <1>5 DEF Current
<1>9. JobCalm'
  BY <1>3 DEF JobCalm
<1>10. ConfDue' = conf /\ FileDue' = TRUE /\ TableDue' = t
       /\ UnixDue' = (IF users[n].unix THEN unix \ {n} ELSE unix)
  BY <1>2, <1>3 DEF ConfDue, FileDue, TableDue, UnixDue
<1>11. \A z \in SessDue' : z \in sess /\ z.user # n
  BY <1>3 DEF SessDue, Without
<1> QED
  BY <1>3, <1>7, <1>8, <1>9, <1>10, <1>11 DEF CalmInv

LEMMA AsksCalm ==
    ASSUME TypeOK, AdminInv, CalmInv, Calm, NEW s \in sess, NEW n \in Name, Asks(s, n)
    PROVE  CalmInv'
<1>1. ASSUME NEW r \in Role, NEW ux \in BOOLEAN, AddsUser(s, n, r, ux) PROVE CalmInv'
  <2>1. web = Idle
    BY <1>1 DEF AddsUser, May
  <2>2. /\ file /\ ReadUsers = users /\ Agree(conf, file, users, unix, count.fail) /\ NewPass \in Pass
    BY <2>1, CalmFound
  <2>3. n # Admin /\ users[n] = NoUser
    BY <1>1, <2>2 DEF AddsUser, Calm
  <2>4. (ux => n \notin unix) /\ (count'.fail = count.fail)
    BY <1>1, FailKept DEF AddsUser, May
  <2>5. /\ web'.at = (IF ux THEN "unix" ELSE "write") /\ web'.name = n /\ ~web'.bad
        /\ web'.table = Added(users, n, r, NewPass, ux) /\ UNCHANGED <<conf, file, users, unix, sess, saved, cli>>
    BY <1>1, <2>2 DEF AddsUser, Idle
  <2> QED
    BY <2>1, <2>2, <2>3, <2>4, <2>5, NewCalm
<1>2. ASSUME SharesWith(s, n) PROVE CalmInv'
  <2>1. web = Idle
    BY <1>2 DEF SharesWith, May
  <2>2. file /\ ReadUsers = users
    BY <2>1, CalmFound
  <2>3. n # Admin /\ users[n] = NoUser /\ n \notin unix /\ "viewer" \in Role /\ NoPass \in Pass
        /\ count'.fail = count.fail
    BY <1>2, <2>2, FailKept DEF SharesWith, May, Role, Pass, NoPass
  <2>4. /\ web'.at = "unix" /\ web'.name = n /\ ~web'.bad
        /\ web'.table = Added(users, n, "viewer", NoPass, TRUE)
        /\ UNCHANGED <<conf, file, users, unix, sess, saved, cli>>
    BY <1>2, <2>2 DEF SharesWith, Idle
  <2>5. web'.at = (IF TRUE THEN "unix" ELSE "write")
    BY <2>4
  <2> QED
    BY <2>1, <2>3, <2>4, <2>5, NewCalm
<1> QED
  BY <1>1, <1>2, SetCalm, RemoveCalm DEF Asks

(* Without kills and the command line the rest changes little. *)
LEMMA RestCalm ==
    ASSUME TypeOK, AdminInv, CalmInv, Calm,
           \/ \E s \in sess : SessionEnds(s)
           \/ \E n \in Name : SignsIn(n) \/ CliReads(n)
           \/ CliMakesUnix \/ CliWrites \/ CliSaves \/ OtherSaves
           \/ WebKilled \/ CliKilled \/ PowerCut \/ Unclaims
    PROVE  CalmInv'
<1>1. ASSUME NEW s \in sess, SessionEnds(s) PROVE CalmInv'
  BY <1>1 DEF SessionEnds, CalmInv, JobCalm, Without, ConfDue, FileDue, TableDue, UnixDue, SessDue
<1>2. ASSUME NEW n \in Name, SignsIn(n) PROVE CalmInv'
  <2> DEFINE z == SessionOf(n, users[n])
  <2>1. web.at = "idle" /\ web = Idle /\ ~web.bad
    BY <1>2 DEF SignsIn, Idle
  <2>2. Agree(conf, file, users, unix, count.fail) /\ (\A y \in sess : Current(y, users)) /\ file
    BY <1>2, <2>1, CalmIdle, CalmFile DEF SignsIn
  <2>3. ReadUsers = users
    BY <2>2, ReadsFile
  <2>4. users[n].on /\ sess' = sess \cup {z} /\ UNCHANGED <<conf, file, users, unix, saved, web, cli, count>>
    BY <1>2, <2>2, <2>3 DEF SignsIn
  <2>5. Current(z, users)
    BY <2>4 DEF Current, SessionOf
  <2> HIDE DEF z
  <2>6. \A y \in sess' : Current(y, users')
    BY <2>2, <2>4, <2>5
  <2> QED
    BY <2>1, <2>2, <2>4, <2>6, IdleCalm DEF CalmInv
<1>3. ASSUME NEW n \in Name, CliReads(n) PROVE CalmInv'
  BY <1>3 DEF CliReads, Calm
<1>4. CASE CliMakesUnix \/ CliWrites \/ CliSaves
  BY <1>4 DEF CliMakesUnix, CliWrites, CliSaves, CalmInv, Idle
<1>5. CASE OtherSaves
  <2>1. web.at = "idle" /\ ~web.bad /\ UNCHANGED <<conf, file, users, unix, sess, web, cli, count>>
    BY <1>5 DEF OtherSaves, Calm, Idle
  <2>2. Agree(conf, file, users, unix, count.fail) /\ \A y \in sess : Current(y, users)
    BY <2>1, CalmIdle
  <2>3. Agree(saved'.conf, saved'.file, saved'.users, saved'.unix, count'.fail)
    BY <1>5, <2>2 DEF OtherSaves, Kept, Snapshot, CalmInv
  <2> QED
    BY <2>1, <2>2, <2>3, IdleCalm DEF CalmInv
<1>6. CASE WebKilled \/ CliKilled
  BY <1>6 DEF WebKilled, CliKilled, Counts, Calm, TypeOK
<1>7. CASE PowerCut
  <2>1. web'.at = "idle" /\ ~web'.bad /\ cli' = Idle /\ sess' = {} /\ UNCHANGED saved
        /\ conf' = saved.conf /\ file' = saved.file /\ users' = saved.users /\ unix' = saved.unix
        /\ count'.fail = count.fail
    BY <1>7, FailKept DEF PowerCut, Boots, Idle
  <2>2. Agree(conf', file', users', unix', count'.fail)
    BY <2>1 DEF CalmInv
  <2> QED
    BY <2>1, <2>2, IdleCalm DEF CalmInv
<1>8. CASE Unclaims
  BY <1>8 DEF Unclaims, May, Calm
<1> QED
  BY <1>1, <1>2, <1>3, <1>4, <1>5, <1>6, <1>7, <1>8

CalmIInv == Calm => AdminInv /\ CalmInv

LEMMA CalmAlways == Spec => [](TypeOK /\ CalmIInv)
<1>1. Init => CalmIInv
  <2> SUFFICES ASSUME Init PROVE AdminInv /\ CalmInv
    BY DEF CalmIInv
  <2>1. /\ web.at = "idle" /\ ~web.bad /\ cli = Idle /\ sess = {} /\ saved = Snapshot
        /\ conf = NoPass /\ file = FALSE /\ users = NoUsers /\ unix = {}
    BY DEF Init, Idle
  <2>2. AdminInv
    BY <2>1 DEF AdminInv, Snapshot, Idle
  <2>3. Agree(NoPass, FALSE, NoUsers, {}, count.fail)
    BY NoUsersNone DEF Agree, NoUser
  <2>4. Agree(saved.conf, saved.file, saved.users, saved.unix, count.fail)
    BY <2>1, <2>3 DEF Snapshot
  <2> QED
    BY <2>1, <2>2, <2>3, <2>4 DEF CalmInv, JobCalm, ConfDue, FileDue, TableDue, UnixDue, SessDue
<1>2. TypeOK /\ CalmIInv /\ [Next]_vars => CalmIInv'
  <2> SUFFICES ASSUME TypeOK, AdminInv, CalmInv, Calm, [Next]_vars PROVE AdminInv' /\ CalmInv'
    BY NoStepPlays DEF CalmIInv, Calm
  <2>1. AdminInv'
    BY StepKeepsAdmin DEF Calm, Asked
  <2> SUFFICES CalmInv'
    BY <2>1
  <2>2. CASE OwnerClaims
    BY <2>2, ClaimsCalm
  <2>3. CASE WebWorks
    BY <2>3, WorksCalm
  <2>4. ASSUME NEW s \in sess, Requests(s) PROVE CalmInv'
    BY <2>4, ChangeCalm, AsksCalm DEF Requests, Asks
  <2>5. CASE UNCHANGED vars
    BY <2>5 DEF vars, CalmInv, JobCalm, Without, ConfDue, FileDue, TableDue, UnixDue, SessDue
  <2>6. CASE ~(OwnerClaims \/ WebWorks \/ (\E s \in sess : Requests(s)) \/ UNCHANGED vars)
    BY <2>6, RestCalm DEF Next
  <2> QED
    BY <2>2, <2>3, <2>4, <2>5, <2>6
<1>3. Spec => []TypeOK
  BY TypeCorrect
<1> QED
  BY <1>1, <1>2, <1>3, PTL DEF Spec

(* Between requests users.json, web-admin.conf and the unix accounts agree *)
(* (PlacesAgree), but for unix accounts that failed calls leave: for all   *)
(* names and any number of requests, failed calls and power cuts.          *)
THEOREM PlacesAgreeCorrect == Spec => []PlacesAgree
<1>1. TypeOK /\ CalmIInv => PlacesAgree
  <2> SUFFICES ASSUME TypeOK, AdminInv, CalmInv, web.at \in {"idle", "save"}
               PROVE  /\ file /\ users[Admin] # NoUser => conf = users[Admin].pw
                      /\ {n \in Name : users[n].unix} \subseteq unix
                      /\ count.fail = 0 => unix = {n \in Name : users[n].unix}
    BY DEF CalmIInv, PlacesAgree
  <2> QED
    BY CalmIdle DEF Agree
<1> QED
  BY <1>1, CalmAlways, PTL

(* Between requests every session is one of an account that may sign in,   *)
(* with the password it has (SessionsCurrent).                             *)
THEOREM SessionsCurrentCorrect == Spec => []SessionsCurrent
<1>1. TypeOK /\ CalmIInv => SessionsCurrent
  <2> SUFFICES ASSUME TypeOK, AdminInv, CalmInv, web.at \in {"idle", "save"}, NEW s \in sess
               PROVE  ReadUsers[s.user].on /\ ReadUsers[s.user].pw = s.pw
    BY DEF CalmIInv, SessionsCurrent
  <2>1. Agree(conf, file, users, unix, count.fail) /\ Current(s, users) /\ conf # NoPass
    BY CalmIdle DEF AdminInv
  <2>2. ReadUsers = users
    BY <2>1, ReadsFile DEF Agree
  <2> QED
    BY <2>1, <2>2 DEF Current
<1> QED
  BY <1>1, CalmAlways, PTL
=============================================================================
