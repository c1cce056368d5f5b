----------------------------- MODULE BarbLease -----------------------------
(***************************************************************************)
(* One scoped Barb lease of the continuity store (barb_continuity.py), the *)
(* epoch fence that Barb-authored writes pass (barb_lease_fence.py), and   *)
(* one task of the inventory with its own fencing epoch                    *)
(* (barb_task_inventory.py).  Scopes and tasks are independent rows.  A    *)
(* relay node leads under such a lease (barb_node_leader.py) and sends its *)
(* deliveries under the fence (postman_relay_topology.py).                 *)
(*                                                                         *)
(* A store method takes the process's RLock, SELECTs the row, decides, and *)
(* UPDATEs it.  The lock excludes the other threads of the dashboard only: *)
(* the SELECT runs outside a transaction, so a process of its own (the     *)
(* script that applies relayed lease requests) can come between the two.   *)
(* "now" is taken before the lock is.                                      *)
(***************************************************************************)
EXTENDS Integers, FiniteSets

CONSTANTS
    Holders,      \* seats: holder strings
    NoHolder,     \* the empty holder of a released row
    CallerOf,     \* the principal a seat belongs to (seats may share one)
    BarbSeats,    \* the seats whose principal is_barb_seat
    Nodes,        \* the seats that are leader or standby relay nodes
    RemoteHolders,  \* BARB_REMOTE_HOLDERS: the seats whose requests the script applies
    Mode,         \* DASHBOARD_BARB_FENCE_MODE
    CliOverlaps,  \* the script that applies relayed requests may run between a
                  \* SELECT and its UPDATE (FALSE: only while no other call is under way)
    Ttl,          \* lease duration, in clock units
    MaxWait,      \* bound: how long a request waits for the lock
    MaxTime,      \* bound: the clock
    MaxEpoch,     \* bound: lease epochs
    MaxTask       \* bound: fencing epochs of the task

ASSUME HoldersAssumption == /\ NoHolder \notin Holders
                            /\ BarbSeats \subseteq Holders
                            /\ Nodes \subseteq Holders
                            /\ RemoteHolders \subseteq Holders
                            /\ DOMAIN CallerOf = Holders
ASSUME ModeAssumption    == Mode \in {"off", "warn", "enforce"} /\ CliOverlaps \in BOOLEAN
ASSUME BoundsAssumption  == /\ Ttl \in Nat \ {0}
                            /\ MaxTime \in Nat /\ MaxWait \in Nat
                            /\ MaxEpoch \in Nat \ {0}
                            /\ MaxTask \in Nat \ {0}

VARIABLES
    clock,
    row,      \* the barb_scoped_leases row; epoch 0: there is none
    task,     \* fencing_epoch of the barb_task_inventory row
    call,     \* per seat: the request under way, or Idle
    claim,    \* per seat: the epoch ensure_relay_lease last told it to act at, 0: none
    written,  \* lease epoch of the last claimed write (history)
    grants,   \* whom checkout_lease granted the scope at which epoch (history)
    winners   \* who was told "transitioned" from which task epoch (history)

vars == <<clock, row, task, call, claim, written, grants, winners>>
history == <<written, grants, winners>>

NoTurnover == 0
Row  == [holder : Holders \cup {NoHolder}, epoch : 0..MaxEpoch,
         expires : 0..(MaxTime + Ttl), released : BOOLEAN,
         turnover : 0..MaxEpoch]    \* last_turnover_id: the epoch it was logged at

Writes == {"turnover", "handoff", "upsert", "send"}
Ops    == {"checkout", "heartbeat", "release"} \cup Writes
Idle == [op |-> "idle"]
Call == [op : Ops, via : {"server", "cli"}, now : 0..MaxTime,
         stage : {"waiting", "fenced", "read"},
         epoch : 0..MaxEpoch,      \* the lease epoch the request names, 0: none
         opts : SUBSET {"force", "turnover", "holder", "relay"},  \* takeover or
                                   \* force, a turnover in the body, X-Barb-Holder,
                                   \* a call of ensure_relay_lease
         expected : 0..MaxTask,    \* expected_epoch of a handoff
         row : Row, task : 1..MaxTask]   \* what the SELECT returned, once it has

TypeOK ==
    /\ clock \in 0..MaxTime
    /\ row \in Row
    /\ task \in 1..MaxTask
    /\ call \in [Holders -> Call \cup {Idle}]
    /\ claim \in [Holders -> 0..MaxEpoch]
    /\ written \in 0..MaxEpoch
    /\ grants \subseteq [epoch : 1..MaxEpoch, holder : Holders]
    /\ winners \subseteq [epoch : 1..MaxTask, holder : Holders]

NoRow == [holder |-> NoHolder, epoch |-> 0, expires |-> 0, released |-> FALSE,
          turnover |-> NoTurnover]

Init ==
    /\ clock = 0
    /\ row = NoRow
    /\ task = 1
    /\ call = [h \in Holders |-> Idle]
    /\ claim = [h \in Holders |-> 0]
    /\ written = 0
    /\ grants = {}
    /\ winners = {}

-----------------------------------------------------------------------------
(* A request takes "now", waits for the lock, and reads.                    *)

\* The RLock keeps the threads of the dashboard's process apart, nobody else.
Excludes(a, b) == ~CliOverlaps \/ (a = "server" /\ b = "server")

\* Faulty variants, for mutation runs: the fence lets go of the lock before the
\* write; expiry is judged one unit early.
LockFreeForAll(h, via) == TRUE
VacantEarly(r, now) == r.epoch = 0 \/ r.released \/ r.expires <= now + 1

\* No call that this one has to wait for is between its check and its write.
LockFree(h, via) ==
    \A g \in Holders \ {h} :
        call[g] # Idle /\ call[g].stage # "waiting" => ~Excludes(via, call[g].via)

\* The time a request may have taken before it got the lock.
Nows == {t \in 0..clock : clock - t <= MaxWait}

\* There is no row, it is released, or expires_at <= now.
Vacant(r, now) == r.epoch = 0 \/ r.released \/ r.expires <= now

\* The bounds: no request is under way that could pass them.
Pending(ops) == {h \in Holders : call[h].op \in ops}
EpochLeft == row.epoch + Cardinality(Pending({"checkout"})) < MaxEpoch
TaskLeft  == task + Cardinality(Pending({"handoff"})) < MaxTask

Enter(h, op, via, stage, now, epoch, opts, expected) ==
    /\ call[h] = Idle
    /\ LockFree(h, via)
    /\ call' = [call EXCEPT ![h] =
         [op |-> op, via |-> via, stage |-> stage, now |-> now, epoch |-> epoch,
          opts |-> opts, expected |-> expected,
          row |-> IF stage = "read" THEN row ELSE NoRow,
          task |-> IF stage = "read" THEN task ELSE 1]]
    /\ UNCHANGED <<clock, row, task, claim, history>>

\* Callers know the current epoch or an old one (all old ones are refused alike).
Epochs == {row.epoch, row.epoch - 1} \cap (1..MaxEpoch)
TaskEpochs == {task, task - 1} \cap (1..MaxTask)

\* The SELECTs of checkout_lease, heartbeat_lease and release_lease, called by
\* the routes; a release may bring a turnover, or waive it.
Checkout(h) ==
    /\ EpochLeft
    /\ \E now \in Nows, opts \in SUBSET {"force"} :
         Enter(h, "checkout", "server", "read", now, 0, opts, 0)
Heartbeat(h) ==
    \E now \in Nows, e \in Epochs : Enter(h, "heartbeat", "server", "read", now, e, {}, 0)
Release(h) ==
    \E now \in Nows, opts \in SUBSET {"force", "turnover"} :
        Enter(h, "release", "server", "read", now, 0, opts, 0)

\* claim_for_write: a write without claim headers; of a Barb seat it is refused
\* when the mode is enforce.
ClaimForWrite(h) == h \notin BarbSeats \/ Mode # "enforce"

WriteArgs(h, stage, epoch, opts) ==
    \/ \E op \in {"turnover", "upsert"} : Enter(h, op, "server", stage, clock, epoch, opts, 0)
    \/ \E x \in TaskEpochs : (x = task => TaskLeft) /\ Enter(h, "handoff", "server", stage, clock, epoch, opts, x)

UnclaimedWrite(h) == ClaimForWrite(h) /\ WriteArgs(h, "read", 0, {})

\* assert_lease_claim, with the lock held: the routes let it take the time, a
\* relay node brings the one it read before.
AssertLeaseClaim(h, epoch, opts, now) ==
    /\ row.holder # NoHolder
    /\ IF "holder" \in opts THEN row.holder = h ELSE CallerOf[row.holder] = CallerOf[h]
    /\ row.expires > now
    /\ row.epoch = epoch

\* barb_write_fence: the claim is checked and the lock kept for a turnover
\* entry, a handoff or a task update (a refused write changes nothing).
Fence(h) ==
    \E e \in Epochs, opts \in SUBSET {"holder"} :
        /\ AssertLeaseClaim(h, e, opts, clock)
        /\ WriteArgs(h, "fenced", e, opts)

\* ensure_relay_lease reads current_leader, lets go of the lock, and goes on to
\* a checkout or to a heartbeat; or gives up, since another node is active.
Ensure(h) ==
    /\ h \in Nodes
    /\ \E now \in Nows :
         \/ /\ Vacant(row, now) /\ EpochLeft
            /\ Enter(h, "checkout", "server", "waiting", now, 0, {"relay"}, 0)
         \/ /\ ~Vacant(row, now) /\ row.holder = h
            /\ Enter(h, "heartbeat", "server", "waiting", now, row.epoch, {"relay"}, 0)
         \/ /\ ~Vacant(row, now) /\ row.holder # h
            /\ call[h] = Idle /\ LockFree(h, "server")
            /\ claim' = [claim EXCEPT ![h] = 0]
            /\ UNCHANGED <<clock, row, task, call, history>>

\* FencedBusPort.send and ack: a delivery under the claim the node was told.
Send(h) ==
    /\ h \in Nodes /\ claim[h] # 0
    /\ \E now \in Nows :
         /\ AssertLeaseClaim(h, claim[h], {}, now)
         /\ Enter(h, "send", "server", "read", clock, claim[h], {}, 0)

\* apply_request in the script's process, for the senders it allows: force is
\* forbidden; a release names its epoch, which is compared with the row read here,
\* and not again by release_lease.
Remote(h) ==
    /\ h \in RemoteHolders
    /\ \E now \in Nows :
         \/ EpochLeft /\ Enter(h, "checkout", "cli", "read", now, 0, {}, 0)
         \/ \E e \in Epochs : Enter(h, "heartbeat", "cli", "read", now, e, {}, 0)
         \/ /\ ~Vacant(row, now)
            /\ Enter(h, "release", "cli", "waiting", now, row.epoch, {"turnover"}, 0)

\* The SELECT of a store method called with the fence's lock held, or after an
\* earlier read.
Select(h) ==
    /\ call[h] # Idle
    /\ call[h].stage \in {"waiting", "fenced"}
    /\ LockFree(h, call[h].via)
    /\ call' = [call EXCEPT ![h].stage = "read", ![h].row = row, ![h].task = task]
    /\ UNCHANGED <<clock, row, task, claim, history>>

-----------------------------------------------------------------------------
(* The UPDATE, from what the SELECT saw; the request is answered.           *)

Answered(h) == call' = [call EXCEPT ![h] = Idle]

\* ensure_relay_lease answers active with a claim at this epoch (0: it raises),
\* whatever the store said: it reads neither "acquired" nor "renewed".
Told(h, c, epoch) ==
    claim' = IF "relay" \in c.opts THEN [claim EXCEPT ![h] = epoch] ELSE claim

\* Faulty variants, for mutation runs: a takeover keeps the epoch; an epoch is
\* skipped.
NextEpochSkips(h, seen, now) == seen.epoch + 2
NextEpochKept(h, seen, now) ==
    IF seen.epoch # 0 /\ (~Vacant(seen, now) \/ seen.holder = h) THEN seen.epoch ELSE seen.epoch + 1

Renews(h, seen, now) == seen.holder = h /\ ~Vacant(seen, now)

\* A live lease renewed by its holder keeps its epoch; any other grant bumps it.
NextEpoch(h, seen, now) == IF Renews(h, seen, now) THEN seen.epoch ELSE seen.epoch + 1

KeepTurnover(h, seen, now, force) == Renews(h, seen, now) \/ force

\* A conflict with a live lease of another seat; or the INSERT of a scope that
\* had no row meets one another process has inserted.
Refused(h, c) ==
    \/ ~Vacant(c.row, c.now) /\ c.row.holder # h /\ "force" \notin c.opts
    \/ c.row.epoch = 0 /\ row.epoch # 0

\* checkout_lease
CommitCheckout(h) ==
    LET c    == call[h]
        seen == c.row
        new  == NextEpoch(h, seen, c.now)
        force == "force" \in c.opts
    IN  /\ c.op = "checkout" /\ c.stage = "read"
        /\ \/ /\ Refused(h, c)
              /\ Told(h, c, seen.epoch)
              /\ UNCHANGED <<row, grants>>
           \/ /\ ~Refused(h, c)
              /\ row' = [holder |-> h, epoch |-> new, expires |-> c.now + Ttl, released |-> FALSE,
                         turnover |-> IF KeepTurnover(h, seen, c.now, force) THEN seen.turnover
                                                                            ELSE NoTurnover]
              /\ grants' = grants \cup {[epoch |-> new, holder |-> h]}
              /\ Told(h, c, new)
        /\ Answered(h)
        /\ UNCHANGED <<clock, task, written, winners>>

RenewedUntil(c) == c.now + Ttl

\* heartbeat_lease (ensure_relay_lease raises when the answer carries no lease)
CommitHeartbeat(h) ==
    LET c    == call[h]
        seen == c.row
    IN  /\ c.op = "heartbeat" /\ c.stage = "read"
        /\ row' = IF ~Vacant(seen, c.now) /\ seen.holder = h /\ seen.epoch = c.epoch
                    THEN [row EXCEPT !.expires = RenewedUntil(c)]
                    ELSE row
        /\ Told(h, c, IF seen.epoch = 0 \/ seen.released THEN 0 ELSE c.epoch)
        /\ Answered(h)
        /\ UNCHANGED <<clock, task, history>>

\* release_lease: the holder, with a turnover on record unless forced.
CommitRelease(h) ==
    LET c    == call[h]
        seen == c.row
        may  == /\ seen.epoch # 0 /\ ~seen.released
                /\ seen.holder = h
                /\ "turnover" \in c.opts \/ seen.turnover # NoTurnover \/ "force" \in c.opts
    IN  /\ c.op = "release" /\ c.stage = "read"
        /\ row' = IF may THEN [row EXCEPT !.holder = NoHolder, !.released = TRUE, !.expires = c.now,
                                          !.turnover = IF "turnover" \in c.opts THEN seen.epoch ELSE @]
                         ELSE row
        /\ Answered(h)
        /\ UNCHANGED <<clock, task, claim, history>>

Claimed(c) == c.epoch # 0
Wrote(c) == written' = IF Claimed(c) THEN c.epoch ELSE written

\* append_turnover: the entry marks the lease of its author, expired or not.
CommitTurnover(h) ==
    LET c == call[h]
    IN  /\ c.op = "turnover" /\ c.stage = "read"
        /\ row' = IF c.row.epoch # 0 /\ ~c.row.released /\ c.row.holder = h
                    THEN [row EXCEPT !.turnover = c.row.epoch]
                    ELSE row
        /\ Wrote(c)
        /\ Answered(h)
        /\ UNCHANGED <<clock, task, claim, grants, winners>>

NextTask(c) == c.task + 1

\* transition_handoff: compare the task's fencing epoch, bump it, take it over.
CommitHandoff(h) ==
    LET c == call[h]
    IN  /\ c.op = "handoff" /\ c.stage = "read"
        /\ \/ /\ c.expected # c.task
              /\ UNCHANGED <<task, written, winners>>
           \/ /\ c.expected = c.task
              /\ task' = NextTask(c)
              /\ winners' = winners \cup {[epoch |-> c.expected, holder |-> h]}
              /\ Wrote(c)
        /\ Answered(h)
        /\ UNCHANGED <<clock, row, claim, grants>>

\* upsert_task through the API never names a handoff state: it writes back the
\* state and the epoch it read, with the new details.
CommitUpsert(h) ==
    LET c == call[h]
    IN  /\ c.op = "upsert" /\ c.stage = "read"
        /\ task' = c.task
        /\ Wrote(c)
        /\ Answered(h)
        /\ UNCHANGED <<clock, row, claim, grants, winners>>

\* A delivery reaches the bus, and nothing of the store changes.
CommitSend(h) ==
    LET c == call[h]
    IN  /\ c.op = "send" /\ c.stage = "read"
        /\ Wrote(c)
        /\ Answered(h)
        /\ UNCHANGED <<clock, row, task, claim, grants, winners>>

Tick == clock < MaxTime /\ clock' = clock + 1 /\ UNCHANGED <<row, task, call, claim, history>>

Next ==
    \/ \E h \in Holders :
         \/ Checkout(h) \/ Heartbeat(h) \/ Release(h) \/ UnclaimedWrite(h) \/ Fence(h)
         \/ Ensure(h) \/ Send(h) \/ Remote(h) \/ Select(h)
         \/ CommitCheckout(h) \/ CommitHeartbeat(h) \/ CommitRelease(h)
         \/ CommitTurnover(h) \/ CommitHandoff(h) \/ CommitUpsert(h) \/ CommitSend(h)
    \/ Tick

Spec == Init /\ [][Next]_vars

-----------------------------------------------------------------------------
(* Properties.                                                              *)

\* The store's answers: through renewals, releases, expiry and takeovers no two
\* seats are granted the scope at the same epoch, nor hand off the task from the
\* same epoch.
GrantedOnce ==
    \A won \in {grants, winners} :
        \A a, b \in won : a.epoch = b.epoch => a.holder = b.holder

\* Whoever gets past the fence with a claim, its principal was granted that epoch.
WritersWereGranted ==
    \A h \in Holders :
        call[h].op \in Writes /\ Claimed(call[h]) /\ call[h].stage # "waiting" =>
            \E g \in grants : g.epoch = call[h].epoch /\ CallerOf[g.holder] = CallerOf[h]

\* Epochs are fencing tokens: checkout_lease grants each to one seat, and only that
\* seat's principal ever writes under it.  A relay node may be told another one's
\* epoch by ensure_relay_lease (RelayClaimIsOwn), but the fence lets nothing of it
\* through.
OneHolderPerEpoch == GrantedOnce /\ WritersWereGranted

\* ensure_relay_lease: "returns active=True with a fenced BarbClaim for the single
\* active holder", or "active=False with claim=None while another node holds a live
\* lease": the claim a node is told names an epoch that was granted to it.
RelayClaimIsOwn ==
    \A h \in Nodes : claim[h] # 0 => [epoch |-> claim[h], holder |-> h] \in grants

\* barb_lease_fence.py: "a takeover cannot land between the check and the
\* write".  From the check of a claim to the end of the write the lease is that
\* principal's at the epoch it claims.
NoTakeoverDuringWrite ==
    \A h \in Holders :
        call[h].op \in Writes /\ Claimed(call[h]) /\ call[h].stage # "waiting" =>
            /\ row.epoch = call[h].epoch
            /\ row.holder # NoHolder /\ CallerOf[row.holder] = CallerOf[h]

\* The seat of a live lease changes only by an explicit takeover: a caller that
\* waited for the lock with an old "now" never takes a lease that is still live.
NoTheft ==
    [][\A h \in Holders :
         row'.holder = h /\ row.holder \notin {h, NoHolder} /\ row.expires > clock
            => "force" \in call[h].opts]_vars

\* The row of barb_scoped_leases, with the epochs of claimed writes, keeps what a
\* fenced lease promises.
Lease == INSTANCE FencedLease WITH holder <- row.holder, epoch <- row.epoch
ImplementsFencedLease == Lease!Spec
=============================================================================
