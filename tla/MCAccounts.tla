----------------------------- MODULE MCAccounts -----------------------------
(* Accounts on small instances. *)
EXTENDS Accounts, TLC

CONSTANTS admin, bob, eve

\* The page, in peace, with power cuts.
Page == [may |-> {"password", "set", "add", "share", "del"},
         op |-> 4, kill |-> 0, cut |-> 1, fail |-> 1, mid |-> FALSE]

\* Everything the dashboard takes; kills, power cuts, saves at any time.
Dashboard == [may |-> {"password", "set", "add", "del", "unclaim", "api", "again"},
              op |-> 3, kill |-> 1, cut |-> 1, fail |-> 0, mid |-> TRUE]

\* Admins at each other, and at themselves.
Admins == [may |-> {"set", "add", "del", "api"},
           op |-> 4, kill |-> 0, cut |-> 0, fail |-> 0, mid |-> FALSE]

\* Switches that are not asked.
Odd == [may |-> {"set", "add", "api", "odd"}, op |-> 3, kill |-> 0, cut |-> 0, fail |-> 0, mid |-> FALSE]

\* A command line beside the page.
Beside == [may |-> {"password", "set", "add", "del", "cli"},
           op |-> 4, kill |-> 0, cut |-> 0, fail |-> 1, mid |-> FALSE]

\* And beside the claim.
Early == [may |-> {"set", "cli", "early"}, op |-> 3, kill |-> 1, cut |-> 1, fail |-> 1, mid |-> TRUE]

AllPlays == {Page, Dashboard, Admins, Odd, Beside, Early}

Symmetry == Permutations({bob, eve})
=============================================================================
