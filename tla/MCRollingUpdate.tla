--------------------------- MODULE MCRollingUpdate ---------------------------
(* RollingUpdate with three members, one release and one fault. *)
EXTENDS RollingUpdate
=============================================================================
