--------------------------- MODULE BarbAuthority ---------------------------
(***************************************************************************)
(* One node's conversation database and the process that serves it, as     *)
(* seen by run-card updates: the version-gated upsert of                   *)
(* ConversationStore.apply_run_card_update (barb_store.py), the relayed    *)
(* and the local way into it (barb_ingest.py, run_link.py), the persisted  *)
(* epoch fence, the receipts and their bounded prune, and the operator's   *)
(* failover steps (scripts/barb_failover.py, a restart with new settings). *)
(*                                                                         *)
(* Every database transaction holds the store's lock and BEGIN IMMEDIATE   *)
(* (barb_db.py), so one transaction is one action.                         *)
(***************************************************************************)
EXTENDS RunCardGate

CONSTANTS
    Runs,          \* run ids
    Statuses,      \* the run statuses that updates carry
    Nodes,         \* node names
    Local,         \* this node's name
    MaxVersion,    \* bound: highest card version explored
    MaxEpoch,      \* bound: highest authority epoch explored
    PruneEvery,    \* RECEIPT_PRUNE_EVERY: applied updates between prunes
    MaxRows,       \* BARB_RECEIPT_MAX_ROWS
    Batch          \* DEFAULT_RECEIPT_PRUNE_BATCH

ASSUME StatusesAssumption == Statuses \subseteq RUN_STATUSES
ASSUME NodesAssumption    == Local \in Nodes /\ NoNode \notin Nodes
ASSUME BoundsAssumption   == /\ MaxVersion \in Nat \ {0}
                             /\ MaxEpoch \in Nat \ {0}
                             /\ PruneEvery \in Nat \ {0}
                             /\ MaxRows \in Nat
                             /\ Batch \in Nat \ {0}

VARIABLES
    config,       \* the process's cached AuthorityConfig
    fence,        \* barb_epoch_fence: the persisted (epoch, node) high-water mark
    cards,        \* run_card_versions (version 0: only what an old message shows)
    receipts,     \* barb_receipts of kind run_card
    commits,      \* how many updates were applied (the order of committed_at)
    sincePrune    \* ConversationStore._applied_since_prune (process memory)

vars == <<config, fence, cards, receipts, commits, sincePrune>>

Unset == [role |-> "unset", epoch |-> 0, node |-> NoNode]

\* What AuthorityConfig.from_env can return on this node.
Configs ==
    {Unset}
      \cup [role : {"authority"}, epoch : 1..MaxEpoch, node : {Local}]
      \cup [role : {"replica"}, epoch : 1..MaxEpoch, node : Nodes \ {Local}]

Receipt == [run : Runs, version : Nat, epoch : Nat, at : Nat]

TypeOK ==
    /\ config \in Configs
    /\ fence \in [epoch : Nat, node : Nodes \cup {NoNode}]
    /\ cards \in [Runs -> Card]
    /\ receipts \in SUBSET Receipt
    /\ commits \in Nat
    /\ sincePrune \in 0..(PruneEvery - 1)

\* A database that migrations 5 to 7 have just reached: cards of older runs
\* are messages without a version row.
Init ==
    /\ config \in Configs
    /\ fence = NoFence
    /\ cards \in [Runs -> [version : {0}, status : Statuses \cup {NoStatus}]]
    /\ receipts = {}
    /\ commits = 0
    /\ sincePrune = 0

-----------------------------------------------------------------------------
(* apply_run_card_update.                                                   *)

\* The version an update asks for; None takes the next local one.
Asked(r, version) == IF version = None THEN cards[r].version + 1 ELSE version

\* Faulty variants, for mutation runs: no fence check; no reset of the prune
\* counter.
AdmittedUnfenced == TRUE

RecordAppliedNoReset(r, v, s) ==
    /\ cards' = [cards EXCEPT ![r] = [version |-> v, status |-> s]]
    /\ receipts' = receipts \cup {[run |-> r, version |-> v, epoch |-> config.epoch,
                                   at |-> commits + 1]}
    /\ commits' = commits + 1
    /\ sincePrune' = sincePrune + 1

\* May this process commit at all?  (UNSET, epoch 0, never meets the fence.)
Admitted == config.epoch >= 1 => check_fence(fence, config.epoch, config.node)

\* record_applied followed by the prune that every PruneEvery-th applied
\* update runs in the same transaction.
RecordApplied(r, v, s) ==
    LET newCards == [cards EXCEPT ![r] = [version |-> v, status |-> s]]
        new      == [run |-> r, version |-> v, epoch |-> config.epoch,
                     at |-> commits + 1]
        grown    == receipts \cup {new}
    IN  /\ cards' = newCards
        /\ commits' = commits + 1
        /\ IF sincePrune + 1 >= PruneEvery
             THEN /\ sincePrune' = 0
                  /\ \E cutoff \in 0..(commits + 1) :
                       receipts' = prune_receipts(grown, newCards, cutoff, MaxRows, Batch)
             ELSE /\ sincePrune' = sincePrune + 1
                  /\ receipts' = grown

\* The whole transaction: an epoch-aware write raises the fence first, and
\* keeps it raised when the update itself is a duplicate or stale.
ApplyRunCardUpdate(r, version, s) ==
    LET v == Asked(r, version)
    IN  /\ v <= MaxVersion
        /\ Admitted
        /\ fence' = IF config.epoch >= 1
                      THEN advance_fence(fence, config.epoch, config.node)
                      ELSE fence
        /\ \/ /\ decide(cards[r], v, s) = "applied"
              /\ RecordApplied(r, v, s)
           \/ /\ decide(cards[r], v, s) # "applied"
              /\ UNCHANGED <<cards, receipts, commits, sincePrune>>
        /\ UNCHANGED config

-----------------------------------------------------------------------------
(* The two ways in.  A refused request changes nothing here.                *)

\* barb_versions.check_epoch.
EpochAgrees(e) == e = None \/ e = config.epoch

\* ingest_relayed_card: a replica never commits.
IngestRelayedCard(r, version, s, e) ==
    /\ config.role # "replica"
    /\ EpochAgrees(e)
    /\ ApplyRunCardUpdate(r, version, s)

\* How ingest_relayed_card answers a request, as AuthorityClient.post reads it.
IngestReply(r, version, s, e) ==
    IF config.role = "replica" THEN "unavailable"
    ELSE IF ~EpochAgrees(e) \/ ~Admitted THEN "epoch_mismatch"
    ELSE IF decide(cards[r], Asked(r, version), s) = "stale" THEN "stale"
    ELSE "delivered"

\* handle_run_status_change for a run of this node, when it is no replica.
PostRunCard(r, s) ==
    /\ config.role # "replica"
    /\ ApplyRunCardUpdate(r, None, s)

-----------------------------------------------------------------------------
(* The operator.  The role is resolved once per process, so new settings    *)
(* and a restart come together; the fence commands run on a database whose  *)
(* dashboard is stopped.                                                    *)

Restart(c) ==
    /\ config' = c
    /\ sincePrune' = 0
    /\ UNCHANGED <<fence, cards, receipts, commits>>

\* barb_failover.py advance: refused (exit 1) when it is behind the fence.
AdvanceFence(epoch, node) ==
    /\ check_fence(fence, epoch, node)
    /\ fence' = advance_fence(fence, epoch, node)
    /\ sincePrune' = 0
    /\ UNCHANGED <<config, cards, receipts, commits>>

Next ==
    \/ \E r \in Runs, v \in 0..MaxVersion, s \in Statuses, e \in 0..MaxEpoch :
          IngestRelayedCard(r, v, s, e)
    \/ \E r \in Runs, s \in Statuses : PostRunCard(r, s)
    \/ \E c \in Configs : Restart(c)
    \/ \E e \in 1..MaxEpoch, n \in Nodes : AdvanceFence(e, n)

Spec == Init /\ [][Next]_vars

-----------------------------------------------------------------------------
(* Properties.                                                              *)

\* I2, "replay = duplicate, same receipt": whatever was pruned, the receipt
\* that decide answers a replay of the newest version with is still there.
HeadReceiptKept ==
    \A r \in Runs : cards[r].version # 0 =>
        \E x \in receipts : x.run = r /\ x.version = cards[r].version

\* I2, "applied at most once": no two receipts name the same (run, version),
\* and none is ahead of the stored card, so no replay of a receipted (even a
\* pruned) version can be applied again.
AppliedOnce ==
    /\ \A x, y \in receipts : x.run = y.run /\ x.version = y.version => x = y
    /\ \A x \in receipts : x.version <= cards[x.run].version

\* I4 over the whole history the receipts keep: every epoch-aware commit was
\* at or below the fence, and only under a fence that names this node when it
\* is at the fence's own epoch.
FenceCoversReceipts ==
    \A x \in receipts : x.epoch # 0 =>
        /\ x.epoch <= fence.epoch
        /\ x.epoch = fence.epoch => fence.node = Local

\* I4, a demoted authority stays demoted: epoch-aware commits never fall back
\* to an older epoch, across restarts with any settings.
EpochsNeverFallBack ==
    \A x, y \in receipts :
        x.epoch # 0 /\ y.epoch # 0 /\ x.at < y.at => x.epoch <= y.epoch

\* The fence only moves forward, and never changes node within an epoch.
FenceMonotone ==
    [][ /\ fence'.epoch >= fence.epoch
        /\ fence'.epoch = fence.epoch /\ fence.node # NoNode
             => fence'.node = fence.node ]_vars

\* I3: the gated upsert implements the abstract register.
Register == INSTANCE RunCardRegister
              WITH card <- cards, Statuses <- RUN_STATUSES,
                   Final <- TERMINAL_STATUSES, Missing <- NoStatus
ImplementsRegister == Register!Spec
=============================================================================
