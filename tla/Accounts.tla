------------------------------ MODULE Accounts ------------------------------
(***************************************************************************)
(* Who may sign in to a box's dashboard (webd.py, "users", "sessions"):    *)
(* the claim, sign-in, password changes, the accounts an admin makes,      *)
(* changes and removes, and the share-only accounts that the command line  *)
(* makes too (nasctl.py), without the dashboard's lock.                    *)
(*                                                                         *)
(* An account is in up to four places: users.json, the unix accounts, the  *)
(* sessions, and, for "admin", web-admin.conf: the mark that the box is    *)
(* claimed, and what read_users serves when users.json has no admin. Each  *)
(* write of a file is one rename; a request makes several writes.          *)
(*                                                                         *)
(* Abstracted: a hash is its password, whoever signs in knows it; what the *)
(* claim does to services and the vault (Vault.tla); samba's own database; *)
(* terminals; a save works and is one step (BootMedia.tla); a session's    *)
(* check is one step.                                                      *)
(***************************************************************************)
EXTENDS Naturals, FiniteSets

CONSTANTS
    Name,       \* account names
    Admin,      \* "admin"
    Play        \* what may happen: one of these in each behaviour

Role == {"admin", "user", "viewer"}

(* What may happen: the requests; "cli", a command line that makes a share *)
(* account ("early": of a box nobody has claimed); "api", requests the     *)
(* page never sends; "odd", one whose "disabled" is truthy and not true;   *)
(* "again", an admin account made after one was removed.                   *)
Feature == {"password", "set", "add", "share", "del", "unclaim", "cli", "early", "api", "odd", "again"}

(* And the bounds: on requests, on kills of the dashboard or a command     *)
(* line, on power cuts, on calls of pipeos-user that fail; whether a save  *)
(* comes in the middle of a request.                                       *)
Plays == [may: SUBSET Feature, op: Nat, kill: Nat, cut: Nat, fail: Nat, mid: BOOLEAN]

ASSUME AccountsAssumption == Admin \in Name /\ Play \subseteq Plays

VARIABLES
    conf,       \* web-admin.conf
    file,       \* is there a users.json
    users,      \* what it says
    unix,       \* the names that have a unix account
    mark,       \* /etc/pipeos/provisioned: saves save
    sess,       \* the sessions
    saved,      \* what the media hold
    web,        \* the request the dashboard is at, under MUTATE_LOCK
    cli,        \* the command line
    count,      \* requests, kills, power cuts, failed calls so far
    play        \* what may happen in this behaviour

vars == <<conf, file, users, unix, mark, sess, saved, web, cli, count, play>>

NoPass == 0
Pass == Nat         \* NoPass, or a password

NoUser == [role |-> "viewer", on |-> FALSE, pw |-> NoPass, unix |-> FALSE]
Account == [role: Role, on: BOOLEAN, pw: Pass, unix: BOOLEAN]
Table == [Name -> Account]
NoUsers == [n \in Name |-> NoUser]

Disk == [conf: Pass, file: BOOLEAN, users: Table, unix: SUBSET Name, mark: BOOLEAN]
Session == [user: Name, role: Role, pw: Pass]

\* A request: what it is at next, the account it is about, who sent it, the
\* table it read and changed, and whether a key in it is refused.
Job == [at: {"idle", "seed", "mark", "keep", "enter", "conf", "drop", "reset", "key", "unix",
             "write", "del", "forget", "gone", "save"},
        name: Name, by: Name, table: Table, pw: Pass, bad: BOOLEAN]

Idle == [at |-> "idle", name |-> Admin, by |-> Admin, table |-> NoUsers, pw |-> NoPass, bad |-> FALSE]

TypeOK ==
    /\ conf \in Pass /\ file \in BOOLEAN /\ users \in Table /\ unix \subseteq Name
    /\ mark \in BOOLEAN
    /\ sess \subseteq Session
    /\ saved \in Disk
    /\ web \in Job /\ cli \in Job
    /\ count \in [op: Nat, kill: Nat, cut: Nat, fail: Nat]
    /\ play \in Play

Snapshot == [conf |-> conf, file |-> file, users |-> users, unix |-> unix, mark |-> mark]

Init ==
    /\ conf = NoPass /\ file = FALSE /\ users = NoUsers /\ unix = {} /\ mark = FALSE
    /\ sess = {}
    /\ saved = Snapshot
    /\ web = Idle /\ cli = Idle
    /\ count = [op |-> 0, kill |-> 0, cut |-> 0, fail |-> 0]
    /\ play \in Play

-----------------------------------------------------------------------------

IsAdmin(u) == u.role = "admin" /\ u.on

\* read_users: without an admin who may sign in, users.json is not believed.
ReadUsers ==
    IF \E n \in Name : IsAdmin(users[n]) THEN users
    ELSE IF conf = NoPass THEN NoUsers
    ELSE [NoUsers EXCEPT ![Admin] = [role |-> "admin", on |-> TRUE, pw |-> conf, unix |-> FALSE]]

OnlyAdmin(pw) == [NoUsers EXCEPT ![Admin] = [role |-> "admin", on |-> TRUE, pw |-> pw, unix |-> FALSE]]

Known(t) == {n \in Name : t[n] # NoUser}

\* A mutant: an admin who is disabled counts.
OtherAdminAny(t, n) == \E m \in Name \ {n} : t[m].role = "admin"

\* _last_admin_guard
OtherAdmin(t, n) == \E m \in Name \ {n} : IsAdmin(t[m])

\* drop_user_sessions
Without(n) == {s \in sess : s.user # n}

SessionOf(n, u) == [user |-> n, role |-> u.role, pw |-> u.pw]

\* Every password is a new one.
NewPass == count.op + 1

Counts(what) ==
    /\ count[what] < play[what]
    /\ count' = [count EXCEPT ![what] = @ + 1]

May(what) == what \in play.may /\ web = Idle /\ Counts("op")

\* An admin's session sends a request; the role is the one it signed in with.
AdminSession(s) == s \in sess /\ s.role = "admin"

Goes(at) == web' = [web EXCEPT !.at = at]

-----------------------------------------------------------------------------
(* The claim (api_claim). *)

OwnerClaims ==
    /\ web = Idle /\ conf = NoPass /\ Counts("op")
    /\ conf' = NewPass
    /\ web' = [Idle EXCEPT !.at = "seed", !.pw = NewPass]
    /\ UNCHANGED <<file, users, unix, mark, sess, saved, cli, play>>

\* A mutant: the mark comes before the accounts.
ClaimSeedsLast ==
    /\ web.at = "seed"
    /\ IF mark THEN users' = OnlyAdmin(web.pw) /\ file' = TRUE /\ Goes("mark") /\ UNCHANGED mark
               ELSE mark' = TRUE /\ UNCHANGED <<users, file, web>>
    /\ UNCHANGED <<conf, unix, sess, saved, cli, count, play>>

ClaimSeeds ==
    /\ web.at = "seed"
    /\ users' = OnlyAdmin(web.pw) /\ file' = TRUE
    /\ Goes("mark")
    /\ UNCHANGED <<conf, unix, mark, sess, saved, cli, count, play>>

ClaimMarks ==
    /\ web.at = "mark"
    /\ mark' = TRUE
    /\ Goes("keep")
    /\ UNCHANGED <<conf, file, users, unix, sess, saved, cli, count, play>>

ClaimEnters ==
    /\ web.at = "enter"
    /\ sess' = sess \cup {[user |-> Admin, role |-> "admin", pw |-> web.pw]}
    /\ web' = Idle
    /\ UNCHANGED <<conf, file, users, unix, mark, saved, cli, count, play>>

-----------------------------------------------------------------------------
(* Sessions. *)

\* api_login: a box from before users.json gets one.
SignsIn(n) ==
    LET u == ReadUsers[n]
    IN /\ web = Idle
       /\ conf # NoPass /\ u.on /\ u.pw # NoPass
       /\ IF ~file /\ n = Admin THEN users' = OnlyAdmin(u.pw) /\ file' = TRUE
                                ELSE UNCHANGED <<users, file>>
       /\ sess' = sess \cup {SessionOf(n, u)}
       /\ UNCHANGED <<conf, unix, mark, saved, web, cli, count, play>>

\* api_logout, or a day without a request.
SessionEnds(s) ==
    /\ s \in sess
    /\ sess' = sess \ {s}
    /\ UNCHANGED <<conf, file, users, unix, mark, saved, web, cli, count, play>>

-----------------------------------------------------------------------------
(* An account's own new password (api_password): users.json, then the      *)
(* fallback, then the sessions.                                            *)

ChangesPassword(s) ==
    LET t == ReadUsers
        n == s.user
    IN /\ s \in sess /\ May("password")
       /\ t[n] # NoUser /\ t[n].pw # NoPass
       /\ users' = [t EXCEPT ![n].pw = NewPass] /\ file' = TRUE
       /\ web' = [Idle EXCEPT !.at = IF n = Admin THEN "conf" ELSE "drop",
                              !.name = n, !.table = users', !.pw = NewPass]
       /\ UNCHANGED <<conf, unix, mark, sess, saved, cli, play>>

\* A mutant: the fallback is forgotten.
KeepsFallbackNever ==
    /\ web.at = "conf"
    /\ Goes("drop")
    /\ UNCHANGED <<conf, file, users, unix, mark, sess, saved, cli, count, play>>

KeepsFallback ==
    /\ web.at = "conf"
    /\ conf' = web.pw
    /\ Goes("drop")
    /\ UNCHANGED <<file, users, unix, mark, sess, saved, cli, count, play>>

\* The one who changed it goes on with a new session.
DropsOthers ==
    /\ web.at = "drop"
    /\ sess' = Without(web.name) \cup {SessionOf(web.name, web.table[web.name])}
    /\ Goes("save")
    /\ UNCHANGED <<conf, file, users, unix, mark, saved, cli, count, play>>

-----------------------------------------------------------------------------
(* An admin changes an account (api_users_set): the role, on or off, the   *)
(* password, a key, each where the request names it. The sessions and the  *)
(* fallback are done with before users.json is written, and a key that is  *)
(* refused ends the request before it.                                     *)

Change == [role: Role \cup {"same"}, on: {"on", "off", "odd", "same"}, pw: BOOLEAN, bad: BOOLEAN]

\* Whatever is truthy disables; only true is asked whether it may.
Disables(c) == c.on \in {"off", "odd"}

\* The page's buttons: on or off, or a new password, of somebody else.
Button(c) == c.role = "same" /\ ~c.bad /\ (c.on = "same") = c.pw

Changed(u, c) ==
    [u EXCEPT !.role = IF c.role = "same" THEN @ ELSE c.role,
              !.on = IF c.on = "same" THEN @ ELSE c.on = "on",
              !.pw = IF c.pw THEN NewPass ELSE @]

SetsUser(s, n, c) ==
    LET t == ReadUsers
        u == t[n]
    IN /\ AdminSession(s) /\ May("set")
       /\ u # NoUser
       /\ c.on = "odd" => "odd" \in play.may
       /\ (Button(c) /\ n # s.user) \/ "api" \in play.may
       /\ u.pw = NoPass => c.role = "same" /\ ~c.pw /\ ~c.bad
       /\ c.bad => u.unix
       /\ u.role = "admin" /\ (c.role \in {"user", "viewer"} \/ c.on = "off") => OtherAdmin(t, n)
       /\ sess' = IF Disables(c) /\ u.on THEN Without(n) ELSE sess
       /\ web' = [at |-> IF c.pw THEN "reset" ELSE "key", name |-> n, by |-> s.user,
                  table |-> [t EXCEPT ![n] = Changed(u, c)], pw |-> NewPass, bad |-> c.bad]
       /\ UNCHANGED <<conf, file, users, unix, mark, saved, cli, play>>

\* The password is reset: who did that to their own stays signed in.
ResetsPassword ==
    LET n == web.name
    IN /\ web.at = "reset"
       /\ conf' = IF n = Admin THEN web.pw ELSE conf
       /\ sess' = Without(n) \cup
                    IF n = web.by THEN {SessionOf(n, web.table[n])} ELSE {}
       /\ Goes("key")
       /\ UNCHANGED <<file, users, unix, mark, saved, cli, count, play>>

SetEnds ==
    /\ web.at = "key"
    /\ IF web.bad THEN web' = Idle ELSE Goes("write")
    /\ UNCHANGED <<conf, file, users, unix, mark, sess, saved, cli, count, play>>

Writes ==
    /\ web.at = "write"
    /\ users' = web.table /\ file' = TRUE
    /\ Goes("save")
    /\ UNCHANGED <<conf, unix, mark, sess, saved, cli, count, play>>

-----------------------------------------------------------------------------
(* A new account (user_add), with a unix account or without one: on the    *)
(* Users page, or, for a share only, in api_nas_account. Then the same on  *)
(* the command line: another process, which waits for nobody.              *)

Added(t, n, r, pw, ux) == [t EXCEPT ![n] = [role |-> r, on |-> TRUE, pw |-> pw, unix |-> ux]]

AddsUser(s, n, r, ux) ==
    LET t == ReadUsers
    IN /\ AdminSession(s) /\ May("add")
       /\ t[n] = NoUser /\ (ux => n \notin unix)
       /\ n = Admin => "again" \in play.may
       /\ web' = [Idle EXCEPT !.at = IF ux THEN "unix" ELSE "write", !.name = n,
                              !.table = Added(t, n, r, NewPass, ux)]
       /\ UNCHANGED <<conf, file, users, unix, mark, sess, saved, cli, play>>

SharesWith(s, n) ==
    LET t == ReadUsers
    IN /\ AdminSession(s) /\ May("share")
       /\ t[n] = NoUser /\ n \notin unix /\ n # Admin
       /\ web' = [Idle EXCEPT !.at = "unix", !.name = n,
                              !.table = Added(t, n, "viewer", NoPass, TRUE)]
       /\ UNCHANGED <<conf, file, users, unix, mark, sess, saved, cli, play>>

\* pipeos-user add: it refuses a name there is, and it may fail or be timed
\* out at any step, before the account is made or after.
Made(n) == n \notin unix /\ unix' = unix \cup {n} /\ UNCHANGED count
NotMade(n) == IF n \in unix THEN UNCHANGED <<unix, count>>
              ELSE Counts("fail") /\ unix' \in {unix, unix \cup {n}}

\* What fails is the answer, and no account is written.
MakesUnix ==
    /\ web.at = "unix"
    /\ \/ Made(web.name) /\ Goes("write")
       \/ NotMade(web.name) /\ web' = Idle
    /\ UNCHANGED <<conf, file, users, mark, sess, saved, cli, play>>

CliReads(n) ==
    LET t == ReadUsers
    IN /\ "cli" \in play.may /\ cli = Idle /\ Counts("op")
       /\ conf # NoPass \/ "early" \in play.may
       /\ t[n] = NoUser /\ n \notin unix /\ n # Admin
       /\ cli' = [Idle EXCEPT !.at = "unix", !.name = n,
                              !.table = Added(t, n, "viewer", NoPass, TRUE)]
       /\ UNCHANGED <<conf, file, users, unix, mark, sess, saved, web, play>>

CliMakesUnix ==
    /\ cli.at = "unix"
    /\ \/ Made(cli.name) /\ cli' = [cli EXCEPT !.at = "write"]
       \/ NotMade(cli.name) /\ cli' = Idle
    /\ UNCHANGED <<conf, file, users, mark, sess, saved, web, play>>

CliWrites ==
    /\ cli.at = "write"
    /\ users' = cli.table /\ file' = TRUE
    /\ cli' = [cli EXCEPT !.at = "save"]
    /\ UNCHANGED <<conf, unix, mark, sess, saved, web, count, play>>

-----------------------------------------------------------------------------
(* An account is removed (api_users_del): from unix, from users.json, then *)
(* its sessions.                                                           *)

RemovesUser(s, n) ==
    LET t == ReadUsers
    IN /\ AdminSession(s) /\ May("del")
       /\ t[n] # NoUser /\ n # s.user
       /\ t[n].role = "admin" => OtherAdmin(t, n)
       /\ web' = [Idle EXCEPT !.at = IF t[n].unix THEN "del" ELSE "forget", !.name = n,
                              !.table = [t EXCEPT ![n] = NoUser]]
       /\ UNCHANGED <<conf, file, users, unix, mark, sess, saved, cli, play>>

\* pipeos-user del: where it fails that is noted, and the request goes on.
DeletesUnix ==
    /\ web.at = "del"
    /\ \/ unix' = unix \ {web.name} /\ UNCHANGED count
       \/ Counts("fail") /\ UNCHANGED unix
    /\ Goes("forget")
    /\ UNCHANGED <<conf, file, users, mark, sess, saved, cli, play>>

ForgetsUser ==
    /\ web.at = "forget"
    /\ users' = web.table /\ file' = TRUE
    /\ Goes("gone")
    /\ UNCHANGED <<conf, unix, mark, sess, saved, cli, count, play>>

\* A mutant: they are left to expire.
DropsNone ==
    /\ web.at = "gone"
    /\ Goes("save")
    /\ UNCHANGED <<conf, file, users, unix, mark, sess, saved, cli, count, play>>

DropsAll ==
    /\ web.at = "gone"
    /\ sess' = Without(web.name)
    /\ Goes("save")
    /\ UNCHANGED <<conf, file, users, unix, mark, saved, cli, count, play>>

-----------------------------------------------------------------------------
(* Saves, restarts. *)

\* Without the mark a save does nothing, and that is no error.
Kept == saved' = IF mark THEN Snapshot ELSE saved

\* A claim signs in after its save.
WebSaves ==
    /\ web.at \in {"save", "keep"}
    /\ Kept
    /\ IF web.at = "keep" THEN Goes("enter") ELSE web' = Idle
    /\ UNCHANGED <<conf, file, users, unix, mark, sess, cli, count, play>>

CliSaves ==
    /\ cli.at = "save"
    /\ Kept
    /\ cli' = Idle
    /\ UNCHANGED <<conf, file, users, unix, mark, sess, web, count, play>>

\* pipeos-autosave, or another program.
OtherSaves ==
    /\ (web = Idle /\ cli = Idle) \/ play.mid
    /\ Kept
    /\ UNCHANGED <<conf, file, users, unix, mark, sess, web, cli, count, play>>

\* The dashboard is killed and comes back, or a command line is.
WebKilled ==
    /\ web # Idle /\ Counts("kill")
    /\ web' = Idle
    /\ UNCHANGED <<conf, file, users, unix, mark, sess, saved, cli, play>>

CliKilled ==
    /\ cli # Idle /\ Counts("kill")
    /\ cli' = Idle
    /\ UNCHANGED <<conf, file, users, unix, mark, sess, saved, web, play>>

Boots(d) ==
    /\ conf' = d.conf /\ file' = d.file /\ users' = d.users /\ unix' = d.unix /\ mark' = d.mark
    /\ sess' = {} /\ web' = Idle /\ cli' = Idle

PowerCut ==
    /\ Counts("cut")
    /\ Boots(saved)
    /\ UNCHANGED <<saved, play>>

\* pipeos unclaim, while nobody uses the dashboard: what the owner made
\* goes, a save, a reboot. The unix accounts stay.
Unclaims ==
    /\ May("unclaim") /\ cli = Idle /\ mark
    /\ saved' = [conf |-> NoPass, file |-> FALSE, users |-> NoUsers, unix |-> unix, mark |-> FALSE]
    /\ Boots(saved')
    /\ UNCHANGED play

-----------------------------------------------------------------------------

Requests(s) ==
    \/ ChangesPassword(s)
    \/ \E n \in Name : \/ \E c \in Change : SetsUser(s, n, c)
                       \/ \E r \in Role, ux \in BOOLEAN : AddsUser(s, n, r, ux)
                       \/ SharesWith(s, n) \/ RemovesUser(s, n)

WebWorks ==
    \/ ClaimSeeds \/ ClaimMarks \/ ClaimEnters
    \/ KeepsFallback \/ DropsOthers \/ ResetsPassword \/ SetEnds
    \/ MakesUnix \/ Writes \/ DeletesUnix \/ ForgetsUser \/ DropsAll \/ WebSaves

Next ==
    \/ OwnerClaims \/ WebWorks
    \/ \E s \in sess : Requests(s) \/ SessionEnds(s)
    \/ \E n \in Name : SignsIn(n) \/ CliReads(n)
    \/ CliMakesUnix \/ CliWrites \/ CliSaves \/ OtherSaves
    \/ WebKilled \/ CliKilled \/ PowerCut \/ Unclaims

Spec == Init /\ [][Next]_vars

-----------------------------------------------------------------------------

(* No command line, no kill, no save in the middle of a request, and no    *)
(* request that the page would not send: README, known divergences.        *)
Calm == play.kill = 0 /\ ~play.mid /\ play.may \cap {"cli", "api", "odd", "again", "unclaim"} = {}

(* However accounts are disabled, demoted and removed, the file has an     *)
(* admin who may sign in, "nor delete/disable the last enabled admin"      *)
(* (web-wizard.md:188): also when two writers overlap, or one is killed.   *)
(* A "disabled" that is truthy and not true is not asked (webd.py:4408),   *)
(* and takes the last one: README, known divergences.                      *)
LastAdminStays ==
    file /\ play.may \cap {"early", "odd"} = {} =>
       \E n \in Name : IsAdmin(users[n]) /\ users[n].pw # NoPass

(* Every session is one of an account there is, that is not disabled, and  *)
(* began with the password the account still has: a change, a reset, a     *)
(* switch and a removal end those from before (webd.py:4309).              *)
SessionsCurrent ==
    Calm /\ web.at \in {"idle", "save"} =>
       \A s \in sess : LET u == ReadUsers[s.user] IN u.on /\ u.pw = s.pw

(* Between requests the places agree: web-admin.conf has the password of   *)
(* admin, "the escape hatch must never go stale" (webd.py:4303), whoever   *)
(* should have a unix account has one, and nobody else does, but for what  *)
(* a failed pipeos-user left (webd.py:1799, 4478): known divergences.      *)
PlacesAgree ==
    Calm /\ web.at \in {"idle", "save"} =>
       LET Unix == {n \in Name : users[n].unix}
       IN /\ file /\ users[Admin] # NoUser => conf = users[Admin].pw
          /\ Unix \subseteq unix
          /\ count.fail = 0 => unix = Unix

(* The media never hold half a claim: where they say that the box is       *)
(* claimed, its accounts are there, and so is the mark without which no    *)
(* later save would be kept (webd.py:3461).                                *)
MediaClaimWhole == saved.conf # NoPass => saved.mark /\ saved.file

=============================================================================
