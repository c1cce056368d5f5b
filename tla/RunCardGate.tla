---------------------------- MODULE RunCardGate ----------------------------
(***************************************************************************)
(* The pure rules of the Barb single authority (ADR 0008): how a run-card  *)
(* update is classified against the stored card (barb_versions.py), when   *)
(* an authority may write under the persisted epoch fence (barb_fence.py)  *)
(* and which receipts a bounded prune removes (barb_versions.py).          *)
(*                                                                         *)
(* A stored card is a record [version, status].  Version 0 means there is  *)
(* no run_card_versions row; its status is then the one a card written     *)
(* before migration 5 shows (NoStatus: there is no card at all).           *)
(***************************************************************************)
EXTENDS Integers, FiniteSets

CONSTANT NoNode          \* the empty node name of an UNSET configuration

\* store.RUN_STATUSES, split by barb_versions.TERMINAL_STATUSES.
TERMINAL_STATUSES == {"succeeded", "failed", "cancelled"}
RUN_STATUSES ==
    TERMINAL_STATUSES
      \cup {"queued", "preparing", "running", "blocked", "needs_input"}
NoStatus == "none"

\* An absent (None) version or epoch of a request; present ones are >= 1.
None == 0

Card == [version : Nat, status : RUN_STATUSES \cup {NoStatus}]

-----------------------------------------------------------------------------

\* Faulty variants of decide, for mutation runs: a replay is applied again; a
\* late update may reopen a terminal card.
decide_reapplies(card, version, status) ==
    IF /\ version >= card.version
       /\ card.status \in TERMINAL_STATUSES => status \in TERMINAL_STATUSES
      THEN "applied" ELSE "stale"

decide_reopens(card, version, status) ==
    IF card.version # 0 /\ version = card.version THEN "duplicate"
    ELSE IF version > card.version THEN "applied" ELSE "stale"

(* barb_versions.decide: a replay of the stored version is a duplicate; a   *)
(* higher version is applied unless it would replace a terminal status by   *)
(* a non-terminal one; everything else is stale.                            *)
decide(card, version, status) ==
    IF card.version # 0 /\ version = card.version
      THEN "duplicate"
      ELSE IF /\ version > card.version
              /\ card.status \in TERMINAL_STATUSES => status \in TERMINAL_STATUSES
             THEN "applied"
             ELSE "stale"

-----------------------------------------------------------------------------
(* The fence is a record [epoch, node]; epoch 0 means no row is stored.     *)
NoFence == [epoch |-> 0, node |-> NoNode]

\* Faulty variants of the fence, for mutation runs: a node passes its own
\* newer fence; the fence keeps the first node it named.
check_fence_any_epoch(fence, epoch, node) ==
    \/ epoch > fence.epoch
    \/ node = NoNode \/ fence.node = NoNode \/ node = fence.node

advance_fence_keeps_node(fence, epoch, node) ==
    [epoch |-> epoch, node |-> IF fence.node # NoNode THEN fence.node ELSE node]

\* barb_fence.check_fence: may (epoch, node) act as the authority?
check_fence(fence, epoch, node) ==
    \/ epoch > fence.epoch
    \/ /\ epoch = fence.epoch
       /\ node = NoNode \/ fence.node = NoNode \/ node = fence.node

\* barb_fence.advance_fence, for an (epoch, node) that check_fence admits.
advance_fence(fence, epoch, node) ==
    IF epoch = fence.epoch /\ (fence.node # NoNode \/ node = NoNode)
      THEN fence
      ELSE [epoch |-> epoch,
            node  |-> IF node # NoNode THEN node ELSE fence.node]

-----------------------------------------------------------------------------

\* Faulty variant, for a mutation run: the newest receipt may be pruned too.
AnyReceipt(receipts, cards) == receipts

(* A receipt is a record with (at least) run, version and its position at   *)
(* in commit order.  It is superseded when it is not its run's newest.      *)
Superseded(receipts, cards) ==
    {x \in receipts : x.version # cards[x.run].version}

\* ORDER BY committed_at LIMIT n.
Oldest(receipts, n) ==
    {x \in receipts : Cardinality({y \in receipts : y.at < x.at}) < n}

\* barb_versions.prune_receipts: first superseded receipts up to the age
\* cutoff, then the oldest superseded ones beyond max_rows; at most batch
\* receipts in all.
prune_receipts(receipts, cards, cutoff, max_rows, batch) ==
    LET aged   == Oldest({x \in Superseded(receipts, cards) : x.at <= cutoff}, batch)
        kept   == receipts \ aged
        excess == Cardinality(Superseded(kept, cards)) - max_rows
        room   == batch - Cardinality(aged)
        extra  == IF excess > 0 /\ room > 0
                    THEN Oldest(Superseded(kept, cards),
                                IF excess < room THEN excess ELSE room)
                    ELSE {}
    IN  kept \ extra
=============================================================================
