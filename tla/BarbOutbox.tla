----------------------------- MODULE BarbOutbox -----------------------------
(***************************************************************************)
(* A replica's bounded, persistent delivery outbox (barb_outbox.py), the   *)
(* threads that stage run cards in it (barb_runtime.enqueue_run_card) and  *)
(* the loop that drains it (barb_runtime.drain_loop, barb_outbox_drain).   *)
(*                                                                         *)
(* The table survives a crash; a card that was given a version but not yet *)
(* enqueued, the batch the drainer claimed and the failure counter do not. *)
(* Every outbox method is one transaction, so one action; what the drainer *)
(* does between two transactions is interleaved with the producers.        *)
(*                                                                         *)
(* Time is counted in drain passes: a row that is retried sits out a       *)
(* number of passes taken from Backoffs (backoff_seconds, against the loop *)
(* interval), and attempts and wording are left out.                       *)
(***************************************************************************)
EXTENDS Integers, FiniteSets, FiniteSetsExt

CONSTANTS
    CardKeys,      \* keys (kind, thread, run) of kind run_card: coalescing
    SignalKeys,    \* keys of one-shot kinds that have no delivery route
    MaxVersion,    \* bound: card versions issued per run
    Sizes,         \* payload sizes
    MaxEntries,    \* BARB_OUTBOX_MAX_ENTRIES
    MaxBytes,      \* BARB_OUTBOX_MAX_BYTES
    Limit,         \* entries claimed per pass
    Backoffs,      \* passes a retried row may sit out
    Faults,        \* do storage errors interrupt the drainer?
    MaxIds         \* bound: rows ever inserted

Keys == CardKeys \cup SignalKeys

ASSUME KeysAssumption == CardKeys \cap SignalKeys = {}
ASSUME OutboxBounds ==
    /\ MaxVersion \in Nat \ {0} /\ MaxEntries \in Nat \ {0}
    /\ MaxBytes \in Nat \ {0} /\ Limit \in Nat \ {0} /\ MaxIds \in Nat \ {0}
    /\ Sizes \subseteq Nat \ {0} /\ Backoffs \subseteq Nat
    /\ Faults \in BOOLEAN

VARIABLES
    rows,        \* the barb_outbox table
    lastId,      \* how many rows were inserted; outbox_id, in created_at order
    issued,      \* runs.card_version of each run, by key
    staging,     \* cards whose thread has a version but has not enqueued yet
    failures,    \* _enqueue_failures (process memory)
    loop,        \* "down"; "draining"; "releasing" (ending a pass); "dead"
    batch        \* ids of the entries the current pass claimed and not settled

vars == <<rows, lastId, issued, staging, failures, loop, batch>>

Event == [key : Keys, version : Nat, terminal : BOOLEAN, size : Nat]
Statuses == {"pending", "delivering", "delivered", "dead"}
Row == [id : Nat, key : Keys, version : Nat, terminal : BOOLEAN, size : Nat,
        status : Statuses, wait : Nat]

TypeOK ==
    /\ rows \in SUBSET Row
    /\ lastId \in Nat
    /\ issued \in [CardKeys -> Nat]
    /\ staging \in SUBSET Event
    /\ failures \in Nat
    /\ loop \in {"down", "draining", "releasing", "dead"}
    /\ batch \in SUBSET Nat

Init ==
    /\ rows = {}
    /\ lastId = 0
    /\ issued = [k \in CardKeys |-> 0]
    /\ staging = {}
    /\ failures = 0
    /\ loop = "down"
    /\ batch = {}

-----------------------------------------------------------------------------
(* OutboxStore.enqueue.                                                     *)

Undelivered(rs) == {x \in rs : x.status # "delivered"}
SizeOf(x) == x.size
Bytes(rs) == MapThenSumSet(SizeOf, rs)

\* Faulty variants, for mutation runs: coalescing deletes final cards too; the
\* bound forgets the row to be inserted.
CoalescedAll(e) ==
    {x \in rows : ~(x.key = e.key /\ x.status = "pending" /\ x.version < e.version)}

FullForgetsRow(rs, e) ==
    \/ Cardinality(Undelivered(rs)) > MaxEntries
    \/ Bytes(Undelivered(rs)) > MaxBytes

\* The table after the coalescing delete of enqueue.
Coalesced(e) ==
    IF e.key \in CardKeys
      THEN {x \in rows : ~ /\ x.key = e.key
                           /\ x.status = "pending"
                           /\ ~x.terminal
                           /\ x.version < e.version}
      ELSE rows

\* OutboxFullError: the bound counts every row that is not delivered.
Full(rs, e) ==
    \/ Cardinality(Undelivered(rs)) + 1 > MaxEntries
    \/ Bytes(Undelivered(rs)) + e.size > MaxBytes

Inserted(e) ==
    [id |-> lastId + 1, key |-> e.key, version |-> e.version,
     terminal |-> e.terminal, size |-> e.size, status |-> "pending", wait |-> 0]

\* The row that makes enqueue of e a no-op (same key and version).
Known(e) == \E x \in rows : x.key = e.key /\ x.version = e.version

\* enqueue as one transaction: a full outbox rolls the coalescing back too.
Enqueue(e) ==
    /\ ~Known(e)
    /\ ~Full(Coalesced(e), e)
    /\ lastId < MaxIds
    /\ rows' = Coalesced(e) \cup {Inserted(e)}
    /\ lastId' = lastId + 1

-----------------------------------------------------------------------------
(* Producers.  A process that is down produces nothing.                     *)

Running == loop # "down"

\* enqueue_run_card, first half: RunStore.next_card_version commits on its
\* own connection, before the outbox transaction.
NextCardVersion(k, terminal, size) ==
    /\ Running
    /\ issued[k] < MaxVersion
    /\ issued' = [issued EXCEPT ![k] = @ + 1]
    /\ staging' = staging \cup {[key |-> k, version |-> issued[k] + 1,
                                 terminal |-> terminal, size |-> size]}
    /\ UNCHANGED <<rows, lastId, failures, loop, batch>>

\* enqueue_run_card, second half: durably queued, or counted and dropped.
StageRunCard(e) ==
    /\ Running
    /\ staging' = staging \ {e}
    /\ \/ Enqueue(e) /\ UNCHANGED failures
       \/ /\ Full(Coalesced(e), e)
          /\ failures' = failures + 1
          /\ UNCHANGED <<rows, lastId>>
    /\ UNCHANGED <<issued, loop, batch>>

\* barb_forwarder.build_outbox_sender: a one-shot entry, always version 1,
\* whose kind AuthorityClient has no route for.  Sending it again is a no-op.
ForwardSignal(k, size) ==
    /\ Running
    /\ Enqueue([key |-> k, version |-> 1, terminal |-> TRUE, size |-> size])
    /\ UNCHANGED <<issued, staging, failures, loop, batch>>

-----------------------------------------------------------------------------
(* The drainer.                                                             *)

WithStatus(ids, st) ==
    {IF x.id \in ids THEN [x EXCEPT !.status = st] ELSE x : x \in rows}

\* recover_in_flight, once, when the loop starts.
StartDrainLoop ==
    /\ loop = "down"
    /\ \/ /\ loop' = "draining"
          /\ rows' = WithStatus({x.id : x \in {y \in rows : y.status = "delivering"}},
                                "pending")
       \/ /\ Faults                   \* the error ends the task, not the process
          /\ loop' = "dead"
          /\ UNCHANGED rows
    /\ UNCHANGED <<lastId, issued, staging, failures, batch>>

\* Faulty variants, for mutation runs: a lower version that waits for its
\* backoff is passed over; a dead lower version holds back those behind it.
DueIgnoringBackoff(x) ==
    /\ x.status = "pending" /\ x.wait = 0
    /\ ~ \E d \in rows : d.key = x.key /\ d.status = "delivering"
    /\ ~ \E p \in rows : /\ p.key = x.key /\ p.status = "pending"
                         /\ p.version < x.version /\ p.wait = 0

DueBehindDead(x) ==
    /\ x.status = "pending" /\ x.wait = 0
    /\ ~ \E d \in rows : d.key = x.key /\ d.status \in {"delivering", "dead"}
    /\ ~ \E p \in rows : p.key = x.key /\ p.status = "pending" /\ p.version < x.version

\* Head of line: the lowest pending version of a key with nothing in flight.
Due(x) ==
    /\ x.status = "pending"
    /\ x.wait = 0
    /\ ~ \E d \in rows : d.key = x.key /\ d.status = "delivering"
    /\ ~ \E p \in rows : p.key = x.key /\ p.status = "pending" /\ p.version < x.version

\* ORDER BY created_at LIMIT.
FirstDue ==
    LET due == {x \in rows : Due(x)}
    IN  {x \in due : Cardinality({y \in due : y.id < x.id}) < Limit}

\* claim_due, at the start of a pass; waiting rows come one pass closer.
ClaimDue ==
    /\ loop = "draining" /\ batch = {}
    /\ batch' = {x.id : x \in FirstDue}
    /\ rows' = {IF x \in FirstDue THEN [x EXCEPT !.status = "delivering"]
                ELSE IF x.wait > 0 THEN [x EXCEPT !.wait = @ - 1] ELSE x : x \in rows}
    /\ UNCHANGED <<lastId, issued, staging, failures, loop>>

Head == CHOOSE x \in rows : x.id = Min(batch)

\* mark_delivered and mark_dead, and mark_retry, of the entry just posted.
Marked(st) == WithStatus({Head.id}, st)
Retried(wait) ==
    {IF x = Head THEN [x EXCEPT !.status = "pending", !.wait = wait] ELSE x : x \in rows}

Replies == {"delivered", "stale", "epoch_mismatch", "rejected", "unavailable", "error"}

\* Faulty variant, for a mutation run: a refused epoch counts as delivered.
SettleMismatchDelivered(reply) ==
    /\ loop = "draining" /\ batch # {}
    /\ rows' = IF reply \in {"delivered", "stale", "epoch_mismatch"}
                 THEN Marked("delivered") ELSE Retried(0)
    /\ batch' = batch \ {Head.id}
    /\ UNCHANGED <<lastId, issued, staging, failures, loop>>

\* drain_once on the reply to the post of the batch's first entry: an
\* unreachable authority and an unexpected error end the pass, and what is
\* left of the batch is then released.
Settle(reply) ==
    /\ loop = "draining" /\ batch # {}
    /\ reply \in Replies
    /\ batch' = batch \ {Head.id}
    /\ \/ /\ reply \in {"delivered", "stale"}
          /\ rows' = Marked("delivered")
          /\ UNCHANGED loop
       \/ /\ reply = "rejected"
          /\ rows' = Marked("dead")
          /\ UNCHANGED loop
       \/ /\ reply = "epoch_mismatch"
          /\ \E w \in Backoffs : rows' = Retried(w)
          /\ UNCHANGED loop
       \/ /\ reply \in {"unavailable", "error"}
          /\ \E w \in Backoffs : rows' = Retried(w)
          /\ loop' = IF batch' = {} THEN "draining" ELSE "releasing"
    /\ UNCHANGED <<lastId, issued, staging, failures>>

\* release: one transaction for each entry that was claimed and not sent.
Release ==
    /\ loop = "releasing"
    /\ rows' = Marked("pending")
    /\ batch' = batch \ {Head.id}
    /\ loop' = IF batch' = {} THEN "draining" ELSE "releasing"
    /\ UNCHANGED <<lastId, issued, staging, failures>>

\* A kind without a route raises before anything is sent.
Routed == Head.key \in CardKeys
Post(reply) == batch # {} /\ (Routed \/ reply = "error") /\ Settle(reply)

\* A storage error in mark_* or release escapes drain_once; drain_loop logs it
\* and starts the next pass without recovering what was claimed.
SettleFault ==
    /\ Faults
    /\ batch # {}
    /\ loop' = "draining"
    /\ batch' = {}
    /\ UNCHANGED <<rows, lastId, issued, staging, failures>>

\* prune_delivered with some cutoff on delivered_at.
PruneDelivered ==
    /\ Running
    /\ \E old \in SUBSET {x \in rows : x.status = "delivered"} :
          old # {} /\ rows' = rows \ old
    /\ UNCHANGED <<lastId, issued, staging, failures, loop, batch>>

Crash ==
    /\ Running
    /\ loop' = "down" /\ batch' = {} /\ staging' = {} /\ failures' = 0
    /\ UNCHANGED <<rows, lastId, issued>>

Produce ==
    \/ \E k \in CardKeys, t \in BOOLEAN, z \in Sizes : NextCardVersion(k, t, z)
    \/ \E e \in staging : StageRunCard(e)
    \/ \E k \in SignalKeys, z \in Sizes : ForwardSignal(k, z)

Next ==
    \/ Produce
    \/ StartDrainLoop
    \/ ClaimDue
    \/ \E reply \in Replies : Post(reply)
    \/ Release
    \/ SettleFault
    \/ PruneDelivered
    \/ Crash

Spec == Init /\ [][Next]_vars

-----------------------------------------------------------------------------
(* Properties.                                                              *)

\* I5: the undelivered rows (dead ones included) never exceed the bounds,
\* whatever is retried, released or recovered.
EntriesBounded == Cardinality(Undelivered(rows)) <= MaxEntries
BytesBounded == Bytes(Undelivered(rows)) <= MaxBytes
WithinBounds == EntriesBounded /\ BytesBounded

\* "Deliver due entries in per-key version order": an entry is sent, or was
\* delivered, ahead of a lower version of its key only if that lower version
\* entered the outbox after it.
LowerVersionsFirst ==
    \A x, y \in rows :
        /\ x.key = y.key /\ x.version < y.version
        /\ x.status \in {"pending", "delivering"}
        /\ y.status \in {"delivering", "delivered"}
        => x.id > y.id

\* I5, never silently dropped: a row leaves the table only once delivered, or
\* as a non-terminal card that a newer version still in the table replaces.
NeverSilentlyDropped ==
    [][\A x \in rows :
          \/ \E y \in rows' : y.id = x.id
          \/ x.status = "delivered"
          \/ /\ ~x.terminal
             /\ \E y \in rows' : y.key = x.key /\ y.version > x.version
                                   /\ y.status = "pending"]_vars

\* barb_outbox_drain: "nothing may leave a key stuck in 'delivering'": while
\* the loop runs, the rows in flight are those of the pass under way.
NothingStuckDelivering ==
    loop \in {"draining", "releasing"} =>
        {x.id : x \in {y \in rows : y.status = "delivering"}} = batch
=============================================================================
