---------------------------- MODULE RollingUpdate ----------------------------
(***************************************************************************)
(* Rolling image updates of a cluster (docs/cluster.md, section 9).        *)
(*                                                                         *)
(* Each member's pipeos-selfupdate asks the origin which release is the    *)
(* latest, then `pipeos cluster rolling-ok` whether it may go: the box's   *)
(* own listener asks every other member for its summary, and rolling_ok    *)
(* judges the rows. A member that may go marks itself as updating,         *)
(* fetches, applies in place and reboots; the mark is on tmpfs. Nothing    *)
(* else is shared: the rule has no leader, no lock and no clock.           *)
(* (Names that Cluster.tla has too begin with Roll.)                       *)
(***************************************************************************)
EXTENDS Naturals, FiniteSets

CONSTANTS
    Member,     \* the members' ids, which the rule orders
    MaxRelease, \* bound on releases: 0 is the first
    Off,        \* members with IMAGE_UPDATE=off
    MaxFault    \* bound on faults: failures, signals, power cuts, bad verdicts

ASSUME MemberAssumption  == Member \subseteq Nat
ASSUME ReleaseAssumption == MaxRelease \in Nat
ASSUME OffAssumption     == Off \subseteq Member
ASSUME FaultAssumption   == MaxFault \in Nat

VARIABLES
    latest,     \* the origin's latest release
    on,         \* the release the box's media hold, None while it is written
    verdict,    \* selfcheck's last word since the box booted, "" for none
    up,         \* whether it is running
    mark,       \* /run/pipeos/updating
    fence,      \* /run/pipeos/flash-pending
    unjudged,   \* applied a release and not reported since its boot (ghost)
    pc,         \* where its pipeos-selfupdate is
    target,     \* the release that run is about
    seen,       \* the rows its page has gathered
    faults      \* faults so far

rollVars == <<latest, on, verdict, up, mark, fence, unjudged, pc, target, seen, faults>>

Release == 0..MaxRelease

None == MaxRelease + 1      \* no commit= to be read

Verdict == {"", "green", "critical"}

Row == [awake: BOOLEAN, updating: BOOLEAN, verdict: Verdict,
        commit: Release \cup {None}]

Unasked == [awake |-> FALSE, updating |-> TRUE, verdict |-> "", commit |-> None]

RollTypeOK ==
    /\ latest \in Release
    /\ on \in [Member -> Release \cup {None}]
    /\ verdict \in [Member -> Verdict]
    /\ up \in [Member -> BOOLEAN]
    /\ mark \in [Member -> BOOLEAN]
    /\ fence \in [Member -> BOOLEAN]
    /\ unjudged \in [Member -> BOOLEAN]
    /\ pc \in [Member -> {"idle", "gather", "fetch", "write", "reboot", "leaving"}]
    /\ target \in [Member -> Release]
    /\ seen \in [Member -> [Member -> Row]]
    /\ faults \in Nat

RollInit ==
    /\ latest = 0
    /\ on = [b \in Member |-> 0]
    /\ verdict = [b \in Member |-> "green"]
    /\ up = [b \in Member |-> TRUE]
    /\ mark = [b \in Member |-> FALSE]
    /\ fence = [b \in Member |-> FALSE]
    /\ unjudged = [b \in Member |-> FALSE]
    /\ pc = [b \in Member |-> "idle"]
    /\ target = [b \in Member |-> 0]
    /\ seen = [b \in Member |-> [m \in Member |-> Unasked]]
    /\ faults = 0

Fault == faults < MaxFault /\ faults' = faults + 1

-----------------------------------------------------------------------------

(* The hourly run. There is nothing to do when image updates are off, an   *)
(* applied image waits for its boot, or the media's commit cannot be read  *)
(* or is the latest. A live job or terminal only puts this off.            *)
Tick(b) ==
    /\ up[b] /\ pc[b] = "idle"
    /\ b \notin Off /\ ~fence[b]
    /\ on[b] \notin {None, latest}
    /\ target' = [target EXCEPT ![b] = latest]
    /\ seen' = [seen EXCEPT ![b] = [m \in Member |-> Unasked]]
    /\ pc' = [pc EXCEPT ![b] = "gather"]
    /\ UNCHANGED <<latest, on, verdict, up, mark, fence, unjudged, faults>>

(* /api/cluster/summary. The page asks all members at once and each        *)
(* answers when it does; one that is down is a row that is not awake.      *)
Summary(m) ==
    IF up[m] THEN [awake |-> TRUE, updating |-> mark[m], verdict |-> verdict[m],
                   commit |-> on[m]]
             ELSE [Unasked EXCEPT !.updating = FALSE]

Asked(b, m) == m = b \/ seen[b][m] # Unasked

Ask(b, m) ==
    /\ up[b] /\ pc[b] = "gather"
    /\ ~Asked(b, m)
    /\ seen' = [seen EXCEPT ![b][m] = Summary(m)]
    /\ UNCHANGED <<latest, on, verdict, up, mark, fence, unjudged, pc, target, faults>>

(* rolling_ok's first two questions: nobody is applying a release, nobody  *)
(* is silent, unassessed or critical.                                      *)
OthersGreen(b) ==
    \A m \in Member \ {b} : /\ ~seen[b][m].updating
                         /\ seen[b][m].awake
                         /\ seen[b][m].verdict = "green"

(* The third: of those that are not on the target, I am the lowest. A      *)
(* mutant: of those that can say what they run.                            *)
LowestReadable(b) ==
    \A m \in Member \ {b} : seen[b][m].commit \notin {target[b], None} => b < m

Lowest(b) == \A m \in Member \ {b} : seen[b][m].commit # target[b] => b < m

(* A mutant: the lowest of all members, as if none ever left the set.      *)
ClearByOrder(b) == OthersGreen(b) /\ \A m \in Member \ {b} : b < m

Clear(b) == OthersGreen(b) /\ Lowest(b)

Gathered(b) == up[b] /\ pc[b] = "gather" /\ \A m \in Member : Asked(b, m)

Hold(b) ==
    /\ Gathered(b) /\ ~Clear(b)
    /\ pc' = [pc EXCEPT ![b] = "idle"]
    /\ UNCHANGED <<latest, on, verdict, up, mark, fence, unjudged, target, seen, faults>>

(* The mark comes after the answer: nothing is held between the two.       *)
Go(b) ==
    /\ Gathered(b) /\ Clear(b)
    /\ mark' = [mark EXCEPT ![b] = TRUE]
    /\ pc' = [pc EXCEPT ![b] = "fetch"]
    /\ UNCHANGED <<latest, on, verdict, up, fence, unjudged, target, seen, faults>>

(* pipeos flash fetch succeeds, apply has unmounted the media and writes   *)
(* them: from here to the remount there is no commit to read.              *)
Write(b) ==
    /\ up[b] /\ pc[b] = "fetch"
    /\ on' = [on EXCEPT ![b] = None]
    /\ pc' = [pc EXCEPT ![b] = "write"]
    /\ UNCHANGED <<latest, verdict, up, mark, fence, unjudged, target, seen, faults>>

(* What was fetched is the origin's latest, whatever was asked about. RAM  *)
(* runs the old image still, but the commit the box tells is the media's.  *)
Apply(b) ==
    /\ up[b] /\ pc[b] = "write"
    /\ on' = [on EXCEPT ![b] = latest]
    /\ fence' = [fence EXCEPT ![b] = TRUE]
    /\ unjudged' = [unjudged EXCEPT ![b] = TRUE]
    /\ pc' = [pc EXCEPT ![b] = "reboot"]
    /\ UNCHANGED <<latest, verdict, up, mark, target, seen, faults>>

(* fetch fails or apply refuses, the media untouched; or dd fails midway.  *)
(* Either way the mark goes.                                               *)
ApplyFails(b) ==
    /\ up[b] /\ pc[b] \in {"fetch", "write"}
    /\ Fault
    /\ mark' = [mark EXCEPT ![b] = FALSE]
    /\ pc' = [pc EXCEPT ![b] = "idle"]
    /\ UNCHANGED <<latest, on, verdict, up, fence, unjudged, target, seen>>

(* TERM or HUP: the trap removes the mark, and sh goes on with the run.    *)
Signal(b) ==
    /\ up[b] /\ mark[b]
    /\ Fault
    /\ mark' = [mark EXCEPT ![b] = FALSE]
    /\ UNCHANGED <<latest, on, verdict, up, fence, unjudged, pc, target, seen>>

(* reboot only tells init and returns; `exit 0` runs the EXIT trap. The    *)
(* box still answers until init has stopped its services.                  *)
Reboot(b) ==
    /\ up[b] /\ pc[b] = "reboot"
    /\ mark' = [mark EXCEPT ![b] = FALSE]
    /\ pc' = [pc EXCEPT ![b] = "leaving"]
    /\ UNCHANGED <<latest, on, verdict, up, fence, unjudged, target, seen, faults>>

(* /run goes with the power: the mark, the fence and the reports.          *)
Down(b) ==
    /\ up' = [up EXCEPT ![b] = FALSE]
    /\ mark' = [mark EXCEPT ![b] = FALSE]
    /\ fence' = [fence EXCEPT ![b] = FALSE]
    /\ verdict' = [verdict EXCEPT ![b] = ""]
    /\ pc' = [pc EXCEPT ![b] = "idle"]
    /\ UNCHANGED <<latest, on, unjudged, target, seen>>

Halt(b) == up[b] /\ pc[b] = "leaving" /\ Down(b) /\ UNCHANGED faults

PowerLoss(b) == up[b] /\ Fault /\ Down(b)

(* A box whose media were half written does not come back.                 *)
Boot(b) ==
    /\ ~up[b] /\ on[b] # None
    /\ up' = [up EXCEPT ![b] = TRUE]
    /\ UNCHANGED <<latest, on, verdict, mark, fence, unjudged, pc, target, seen, faults>>

(* selfcheck --boot, and --live each hour, on whatever RAM runs.           *)
Report(b) ==
    /\ up[b]
    /\ \E v \in {"green", "critical"} :
          /\ v # verdict[b]
          /\ IF v = "critical" THEN Fault ELSE UNCHANGED faults
          /\ verdict' = [verdict EXCEPT ![b] = v]
    /\ unjudged' = [unjudged EXCEPT ![b] = fence[b] /\ unjudged[b]]
    /\ UNCHANGED <<latest, on, up, mark, fence, pc, target, seen>>

(* make release *)
Publish ==
    /\ latest < MaxRelease
    /\ latest' = latest + 1
    /\ UNCHANGED <<on, verdict, up, mark, fence, unjudged, pc, target, seen, faults>>

(* pipeos-selfupdate, from the hourly hook until the box goes down. *)
Update(b) ==
    \/ Tick(b) \/ (\E m \in Member : Ask(b, m)) \/ Hold(b) \/ Go(b)
    \/ Write(b) \/ Apply(b) \/ Reboot(b) \/ Halt(b)

RollNext ==
    \/ \E b \in Member : \/ Update(b) \/ ApplyFails(b) \/ Signal(b)
                      \/ PowerLoss(b) \/ Boot(b) \/ Report(b)
    \/ Publish

RollSpec == RollInit /\ [][RollNext]_rollVars

(* The hourly hook and a box's own processes keep running, a box that went *)
(* down is powered on again, and the live check finds a sound box green. A *)
(* release is not certain, a fault even less.                              *)
GoodReport(b) == Report(b) /\ verdict'[b] = "green"

RollFairSpec ==
    /\ RollSpec
    /\ \A b \in Member : /\ WF_rollVars(Update(b))
                      /\ WF_rollVars(Boot(b))
                      /\ WF_rollVars(GoodReport(b))

-----------------------------------------------------------------------------

(* With one release in play, one member at a time fetches and writes, and  *)
(* at most one has media that hold no whole image: a write that fails or a *)
(* power cut in the middle of it never costs the cluster a second member.  *)
(* Every view may be stale, marks may be lost to signals and boxes killed  *)
(* at any point; the order of the ids, that of a page read at any earlier  *)
(* time, is what holds.                                                    *)
AtRisk(b) == pc[b] \in {"fetch", "write"} \/ on[b] = None

OneAtRisk == \A b, c \in Member : AtRisk(b) /\ AtRisk(c) => b = c

(* "One Machine at a time, and never while another member is already out": *)
(* out from the answer to the first report after the boot that ends the    *)
(* update. The code lets a second one go: the EXIT trap takes the mark     *)
(* away as soon as reboot returns, and by then the media say the release   *)
(* is taken, so the box that is about to go down reads as updated, green   *)
(* and idle.                                                               *)
Out(b) == AtRisk(b) \/ unjudged[b]

OneOut == \A b, c \in Member : Out(b) /\ Out(c) => b = c

(* "Only one can answer yes at a time": not when a release comes between   *)
(* two members' questions. Each is the lowest for the release it asked     *)
(* about, and pages read before the marks know of neither.                 *)
OneAnswer == \A b, c \in Member : pc[b] = "fetch" /\ pc[c] = "fetch" => b = c

(* "The lowest goes, and when it comes back green it leaves that set, so   *)
(* the next lowest goes": a published release reaches every member that   *)
(* takes images, past failed fetches, power cuts and critical verdicts     *)
(* that pass, unless a failed write has left a member nothing to compare.  *)
(* The code breaks it: a low member that takes no image stays in the set.  *)
Broken(b) == on[b] = None /\ pc[b] # "write"

EveryoneUpdates ==
    \A b \in Member \ Off : (latest = MaxRelease)
                            ~> (on[b] = MaxRelease \/ \E c \in Member : Broken(c))

=============================================================================
