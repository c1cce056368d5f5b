---------------------------- MODULE MCBarbOutbox ----------------------------
(* BarbOutbox on small instances: see the MCBarbOutbox*.cfg files. *)
EXTENDS BarbOutbox
=============================================================================
