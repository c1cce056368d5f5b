-------------------------- MODULE MCBarbAuthority --------------------------
(* BarbAuthority on a small instance: see MCBarbAuthority.cfg. *)
EXTENDS BarbAuthority
=============================================================================
