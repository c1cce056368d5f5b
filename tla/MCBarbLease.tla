---------------------------- MODULE MCBarbLease ----------------------------
(* BarbLease on small instances: see the MCBarbLease*.cfg files. *)
EXTENDS BarbLease

CONSTANTS s1, s2, n1, n2

\* Seats of Barb share a principal; every relay node has its own.
MCCallerOf == [h \in Holders |-> CASE h = n1 -> "node 1" [] h = n2 -> "node 2" [] OTHER -> "agent"]
=============================================================================
