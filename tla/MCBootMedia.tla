---------------------------- MODULE MCBootMedia ----------------------------
(***************************************************************************)
(* BootMedia on small instances: two released images, up to two concurrent *)
(* runs of pipeos-save and one of each other program. All five at once are *)
(* too many for TLC, so each initial state picks a cast: the programs that *)
(* contend in that behaviour.                                              *)
(***************************************************************************)
EXTENDS BootMedia

CONSTANTS s1, s2    \* two runs of pipeos-save

(* An identity bundle taken before the new image was applied. *)
OldBundle == {[st |-> 0, img |-> Image0, rb |-> FALSE, own |-> "owner"]}

(* Two saves beside a staged rollback or an in-place apply; one beside     *)
(* both, and beside a factory reset with each of the others.               *)
Contenders == {{s1, s2, "rollback", "promote"},
               {s1, s2, "apply", "promote"},
               {s1, "rollback", "apply"},
               {s1, "unclaim", "rollback"},
               {s1, "unclaim", "apply"},
               {s1, "unclaim", "promote"}}

(* The programs whose partial failures are survived. *)
Failing == {{s1, s2, "apply"}, {s1, "apply", "unclaim"}}

(* For what the code does not keep (README, known divergences). *)
SaveAndUnclaim == {{s1, "unclaim"}}
RollbackAndApply == {{"rollback", "apply"}}
=============================================================================
