---------------------------- MODULE FencedLease ----------------------------
(***************************************************************************)
(* What a scoped lease with a fencing epoch promises, whoever asks for it  *)
(* and in whatever order: the seat changes hands only under a new, higher  *)
(* epoch, and a write that claims the lease is made by the seat's holder   *)
(* under the epoch of the moment, so claimed writes never go back to an    *)
(* older epoch.                                                            *)
(***************************************************************************)
EXTENDS Naturals

CONSTANTS Holders, NoHolder, CallerOf
VARIABLES holder, epoch, written

lease == <<holder, epoch, written>>

Init ==
    /\ holder = NoHolder
    /\ epoch = 0
    /\ written = 0

Grant(h) == holder' = h /\ epoch' = epoch + 1 /\ UNCHANGED written

Vacate == holder # NoHolder /\ holder' = NoHolder /\ UNCHANGED <<epoch, written>>

\* The caller of the seat writes under the seat's epoch (written remembers it).
Write(h) ==
    /\ holder # NoHolder
    /\ CallerOf[holder] = CallerOf[h]
    /\ written' = epoch
    /\ UNCHANGED <<holder, epoch>>

Next == Vacate \/ \E h \in Holders : Grant(h) \/ Write(h)

Spec == Init /\ [][Next]_lease
=============================================================================
