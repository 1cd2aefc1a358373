------------------------------ MODULE MCVault ------------------------------
(* Vault on small instances. *)
EXTENDS Vault

Both == BOOLEAN
OnlyCalm == {TRUE}
=============================================================================
