--------------------------- MODULE MCBarbDelivery ---------------------------
(* BarbDelivery on small instances: see the MCBarbDelivery*.cfg files. *)
EXTENDS BarbDelivery
=============================================================================
