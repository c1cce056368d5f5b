-------------------------- MODULE MCStaffProposals --------------------------
(* StaffProposals on small instances: see the MCStaffProposals*.cfg files. *)
EXTENDS StaffProposals, TLC

CONSTANTS p1, p2

OneProposal    == <<p1>>
TwoProposals   == <<p1, p2>>
AnyDefault     == p1 :> {"", "approve", "deny"}
SilentDefaults == (p1 :> {"approve", "deny"}) @@ (p2 :> {"deny"})
=============================================================================
