--------------------------- MODULE MCBarbFailover ---------------------------
(* BarbFailover on small instances: r1 runs on the first authority a, r2 on  *)
(* the replica c, which a second failover may promote.                       *)
EXTENDS BarbFailover, TLC

CONSTANTS a, b, c, r1, r2

HomeApart == r1 :> a @@ r2 :> c
=============================================================================
