------------------------------ MODULE MCCluster ------------------------------
(***************************************************************************)
(* Cluster with three or four boxes, two of them in a cluster at the start.*)
(* Each initial state picks one of a few plays, so that a deep sequence of *)
(* edits by one box and a short one with everything in it share a run.     *)
(***************************************************************************)
EXTENDS Cluster

AllOps == {"add", "remove", "sync", "join", "init"}

(* Whoever looks at the page of these boxes. *)
Pages(boxes) == {<<b, "page">> : b \in boxes}

(* Dashboards, command lines and a page together, late answers, a power    *)
(* cut. Box 2 has its listener alone.                                      *)
Anything == [editor |-> {<<1, "web">>, <<1, "cli">>, <<2, "web">>, <<3, "cli">>} \cup Pages({1}),
             op |-> AllOps, lan |-> {1, 2, 3}, edit |-> 2, timeout |-> 1, crash |-> 1]

(* One dashboard, in peace. *)
OneDashboard == [editor |-> {<<1, "web">>} \cup Pages(1..4), op |-> {"add", "remove", "sync"},
                 lan |-> 1..4, edit |-> 6, timeout |-> 0, crash |-> 0]

(* One command line that adds, and asks to be added, in peace. *)
OneShell == [editor |-> {<<3, "cli">>} \cup Pages(1..4), op |-> {"add", "join"},
             lan |-> 1..4, edit |-> 4, timeout |-> 0, crash |-> 0]

(* Three dashboards, each waiting for the locks of the others. *)
Together == [editor |-> {<<1, "web">>, <<2, "web">>, <<3, "web">>},
             op |-> {"add", "join"}, lan |-> {1, 2, 3}, edit |-> 3,
             timeout |-> 0, crash |-> 0]

TwoAdd == [editor |-> {<<1, "web">>, <<2, "web">>}, op |-> {"add"}, lan |-> 3..4,
           edit |-> 2, timeout |-> 0, crash |-> 0]

(* Two add, one of them the other, each between its reads and its writes.  *)
BothAdd == [editor |-> {<<1, "web">>, <<3, "web">>}, op |-> {"add"}, lan |-> 3..4,
            edit |-> 2, timeout |-> 1, crash |-> 0]

(* The same with a command line at the box that is added. *)
ShellAdds == [editor |-> {<<1, "web">>, <<3, "cli">>}, op |-> {"add"}, lan |-> 3..4,
              edit |-> 2, timeout |-> 0, crash |-> 0]

(* A dashboard and a command line of one box. *)
SameBox == [editor |-> {<<1, "web">>, <<1, "cli">>}, op |-> {"add"}, lan |-> 3..4,
            edit |-> 2, timeout |-> 0, crash |-> 0]

WebJoin == [editor |-> {<<3, "web">>}, op |-> {"join"}, lan |-> {1, 2, 3},
            edit |-> 1, timeout |-> 0, crash |-> 0]

AllPlays == {Anything, OneDashboard, OneShell, Together, BothAdd}

(* For what the code does not keep (README, known divergences). *)
OnlyTwoAdd == {TwoAdd}
OnlyWebJoin == {WebJoin}
OnlyShellAdds == {ShellAdds}
OnlySameBox == {SameBox}

=============================================================================
