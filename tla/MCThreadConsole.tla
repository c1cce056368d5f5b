--------------------------- MODULE MCThreadConsole ---------------------------
(* ThreadConsole on a small instance: see MCThreadConsole.cfg. *)
EXTENDS ThreadConsole
=============================================================================
