-------------------------- MODULE RunCardRegister --------------------------
(***************************************************************************)
(* What the Barb authority promises about run cards (ADR 0008, I2 and I3), *)
(* without saying how: each run has one card, an accepted update strictly  *)
(* raises its version, and a terminal status is only ever replaced by the  *)
(* terminal status of a later attempt.  Refused updates change nothing.    *)
(***************************************************************************)
EXTENDS Naturals

CONSTANTS
    Runs,        \* run ids
    Statuses,    \* run statuses
    Final,       \* the terminal ones
    Missing      \* the status of a run that has no card

VARIABLE card    \* [Runs -> [version : Nat, status : Statuses \cup {Missing}]]

Init == card \in [Runs -> [version : {0}, status : Statuses \cup {Missing}]]

Accept(r) ==
    /\ card'[r] \in [version : Nat, status : Statuses]
    /\ card'[r].version > card[r].version
    /\ card[r].status \in Final => card'[r].status \in Final
    /\ card' = [card EXCEPT ![r] = card'[r]]

Next == \E r \in Runs : Accept(r)

Spec == Init /\ [][Next]_card
=============================================================================
