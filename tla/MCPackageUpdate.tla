-------------------------- MODULE MCPackageUpdate --------------------------
(***************************************************************************)
(* PackageUpdate with three releases, of which the second leaves the box's *)
(* world unresolvable, and at most one power cut: two concurrent updaters, *)
(* or an updater beside a hand-run sync.                                   *)
(***************************************************************************)
EXTENDS PackageUpdate, TLC

CONSTANTS u1, u2, h1

Pairs == {{u1, u2}, {u1, h1}, {u2, h1}}

(* For what the code does not keep (README, known divergences). *)
Alone == {{u1}}

(* The identity paths matter to the updaters, and are left out where a     *)
(* hand-run sync takes part.                                               *)
InitSmall == Init /\ ((\E h \in Hand : pc[h] = "idle") <=> ids = {})

SpecSmall == InitSmall /\ [][Next]_vars

(* Updaters are interchangeable. *)
Symmetric == Permutations(Updater)
=============================================================================
