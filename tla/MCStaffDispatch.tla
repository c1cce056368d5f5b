-------------------------- MODULE MCStaffDispatch --------------------------
(* StaffDispatch on small instances: see the MCStaffDispatch*.cfg files. *)
EXTENDS StaffDispatch, TLC

CONSTANTS k1, q1, q2, a, b

\* Two requests with one key, of which one may also be sent with another payload.
MCKeyOf      == [q \in Reqs |-> k1]
MCPayloadsOf == (q1 :> {a}) @@ (q2 :> {a, b})
=============================================================================
