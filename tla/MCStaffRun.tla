----------------------------- MODULE MCStaffRun -----------------------------
(* StaffRun on small instances: see the MCStaffRun*.cfg files. *)
EXTENDS StaffRun

Retrying   == [providers |-> <<"claude">>, fallbacks |-> <<>>, max |-> 2]
FallsBack  == [providers |-> <<"claude", "codex">>, fallbacks |-> <<>>, max |-> 1]
OneInChain == [providers |-> <<"claude">>, fallbacks |-> <<"codex">>, max |-> 1]
TwoInChain == [providers |-> <<"claude">>, fallbacks |-> <<"codex", "gemini">>, max |-> 1]

SmallRoles == {Retrying, FallsBack, OneInChain}
ChainRole  == {TwoInChain}
RetryRole  == {Retrying}
=============================================================================
