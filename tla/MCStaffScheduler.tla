-------------------------- MODULE MCStaffScheduler --------------------------
(* StaffScheduler on small instances: see the MCStaffScheduler*.cfg files. *)
EXTENDS StaffScheduler

CONSTANTS h1, h2, k1, k2

MCChain == <<h1, h2>>
OneKey  == <<k1>>
TwoKeys == <<k1, k2>>

\* Every key is a role's own schedule; or all are named jobs of one role.
MCRoleOf == [k \in KeySet |-> k]
MCJobsOf == [k \in KeySet |-> "role"]
=============================================================================
