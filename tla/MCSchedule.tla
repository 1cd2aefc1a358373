----------------------------- MODULE MCSchedule -----------------------------
(* Small instances of Schedule for TLC. *)
EXTENDS Schedule, TLC

Symmetry == Permutations(Shells) \cup Permutations(Ticks)
=============================================================================
