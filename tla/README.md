# TLA+ models of the Runner Dashboard backend

The Runner Dashboard (`src/backend`) is a FastAPI process that runs on several
nodes of a fleet. Each node executes *staff runs* (a provider CLI working on a
task), keeps conversations and run state in SQLite, and reports progress as
*run cards*. One node is the *Barb authority* that owns the conversations; the
others are replicas that deliver their cards to it (ADR 0008,
`src/docs/adr/0008-barb-single-authority.md`). The models here cover that core:
how a card is written once, in order and by the right node; how it gets to the
authority over an unreliable network; how the authority is moved by hand; how a
run is scheduled, dispatched once, started, cancelled, retried and cleaned up
after a restart; who may write as Barb; how an action is approved and executed;
and what an open console shows of it all.

## 1. Inventory

One worker process serves a node. Inside it, requests run on an asyncio loop
and a thread pool, each staff run has a thread, retries wait in timers, and
background loops (drainer, scheduler, follow-up sweep) run beside them. They
share SQLite databases, where every store method is a transaction under a lock
and `BEGIN IMMEDIATE`. Nodes talk over HTTP only.

| Part | State | Operations | Talks to | Hard part |
|---|---|---|---|---|
| Card versions, receipts, fence (`staff/barb_versions.py`, `barb_fence.py`, `barb_store.py`) | `run_card_versions`, `barb_receipts`, `barb_epoch_fence` | apply update, prune, advance fence | ingest, run_link, failover tool | replays after pruning, reordered updates, old epochs |
| Roles and ingest (`barb_authority.py`, `barb_ingest.py`) | cached role and epoch of the process | resolve role, check epoch, ingest, post | outbox drainer over HTTP | nodes that disagree about the epoch |
| Outbox and drainer (`barb_outbox*.py`, `barb_runtime.py`, `barb_forwarder.py`) | `barb_outbox` rows, per-run card counter, failure counter | stage, claim, settle, release, recover, prune | run threads, authority | bounds, head-of-line order, storage errors, crashes |
| Failover (`scripts/barb_failover.py` and its runbook) | a node's database file and settings | stop, backup and restore, advance, reconfigure | all nodes | two writers, cards lost with a replaced file |
| Run cards (`run_link.py`) | card messages of a thread | post card, answer a question, link work items | runner, authority, thread bus | lost updates, order of published events |
| Staff runner (`runner.py`, `watchdog.py`, `execution_result.py`) | run rows, process table, cancel flags | admit, launch, worker, cancel | provider CLI, retry | cancel against registration, leaked processes |
| Retries and fallback (`retry.py`, `retry_policy.py`) | next attempts, backoff timers | retry, fall back, launch_retry | runner, follow-up sweep | who launches an attempt, timers lost in a restart |
| Restart reconciliation (`reconcile.py`) | none of its own | scan, terminate, close rows | runner | runs beside the server it starts with |
| Follow-up sweep (`followup.py`, `followup_ledger.py`) | work items, checks | claim, retry, escalate | retry | two sweepers, restart |
| Continuity leases and node leader (`barb_continuity.py`, `barb_lease_fence.py`, `barb_node_leader.py`) | scoped leases with epochs | checkout, takeover, heartbeat, release, fenced write | every Barb-authored request | expiry against a write in progress |
| Scheduler and leader lease (`scheduler.py`, `scheduler_leader_lease.py`) | cursors, lease record | acquire, tick, fire | runner, lease authority | two leaders, slots fired twice |
| Idempotency keys (`idempotency.py`) | reservations | reserve, complete, release, purge | every mutating route | concurrent replays, unknown outcome |
| Proposals (`conversation_proposals.py`, `actions.py`, `decision_sla.py`) | proposal states, thread epochs | propose, decide, execute, apply a default | operator, executors, follow-up sweep | executed twice, expired approval, a sweep that stops half way |
| Threads in the Console (`thread_bus.py`, `routers/staff_threads_stream.py`, `useThreadStream.ts`) | messages, subscriber queues, the Console's cursor | publish, replay, reconnect, load history | every writer of messages | dropped and overtaken events, updates missed while disconnected |
| Runner, path and dispatch leases (`runner_lease*.py`, `path_lease_store.py`, `coordination/`) | lease tables | acquire, renew, release, prune | dispatchers | fencing tokens, expiry |
| Agent inbox, chat pool, autoscaler | queues, slots, units | send/ack, acquire, scale | CLIs, systemd | reserve slots |
| Routers, inventory, metrics, library, frontend | caches | serve and collect | everything | no protocol state of their own |

What makes each modelled part correct (the ADR names its promises I1 to I5):

* a `(run, version)` is applied at most once and a replay is answered with the
  same receipt (I2); versions of a card only rise and a final card is never
  reopened (I3); a node behind the epoch fence never writes (I4);
* an outbox entry is delivered, pending or dead-lettered, and what is called
  delivered is committed at the authority (I1, I5);
* at most one node writes at any point of a failover, and never two in one epoch;
* one worker per attempt, bounded attempts, every run ends, and a provider process
  is left behind a cancel or a restart only for causes that can be named;
* a lease epoch is granted to one seat and only that seat's principal writes under
  it, and nothing written under a claim is written after the lease changed hands;
* a due slot that a host's cursor waits for is fired or skipped, by another host if
  the leader is gone, and a slot already stale is not fired;
* a repeated request gets the answer of the first, and its run exists once;
* an approved action is started once, ends, and is nobody else's meanwhile;
* an open console ends up showing what is stored.

`PROJECT.json` lists the places where these can go wrong under `hazards`, each
with the property that watches it.

## 2. Modules

```
RunCardGate            pure rules: decide, check_fence, advance_fence, prune_receipts
  BarbAuthority        one node's conversation database and its process      [proofs]
  BarbFailover         several nodes, one database file each, the operator   [proofs]
  StaffRun             one logical run and its attempts                      [proofs]
RunCardRegister        abstract: a register whose version rises, final stays final
BarbOutbox             the replica's outbox, its producers and its drain loop
  BarbDelivery         BarbOutbox + BarbAuthority + the HTTP exchange between them [proofs]
FencedLease            abstract: a seat that changes hands under rising epochs
BarbLease              the continuity store's lease, its fence, a handed-over task [proofs]
StaffScheduler         the schedulers of a leader chain and the leader lease [proofs]
StaffDispatch          a dispatch under an Idempotency-Key, local or forwarded [proofs]
StaffProposals         proposals, executions, decision defaults, reconciliation [proofs]
ThreadConsole          store, event bus, stream and the Console's hook       [proofs]
MC*                    instances for TLC
*Proofs                the theorems about a module marked [proofs]; those about
                       StaffProposals and ThreadConsole are in StaffThreadsProofs
```

**RunCardGate** translates the decision functions as operators under their own
names: `decide` (applied, duplicate or stale, with the terminal rule),
`check_fence`, `advance_fence`, and `prune_receipts`, which removes at most a
batch of receipts that are old or over the row bound and never the one of a
run's newest version.

**BarbAuthority** has the process's cached settings (`config`), the persisted
`fence`, `cards` and `receipts`, and the prune counter, which a restart resets.
`ApplyRunCardUpdate` is the transaction of `apply_run_card_update`: fence check
and advance, decision, upsert, receipt and the periodic prune together. A
request that is refused changes nothing and is no step. `Restart` takes any
settings `AuthorityConfig.from_env` can return; `AdvanceFence` is the operator's
command. `commits` orders receipts the way `committed_at` does; the cutoff of a
prune by age is any point of that order.

**RunCardRegister** is the abstract specification of a card; BarbAuthority is
checked and proved to implement it.

**BarbOutbox**: `NextCardVersion` and `StageRunCard` are the two transactions of
`enqueue_run_card`, so threads of one run interleave between them. `ClaimDue`,
`Settle`, `Release`, `StartDrainLoop` (with `recover_in_flight`) and
`PruneDelivered` are the store's other transactions, `SettleFault` a storage
error in one of them, and `Crash` loses whatever is not in the table. Time is
counted in drain passes: a retried row sits out a number of passes.

**BarbDelivery** joins the two through `AuthorityClient.post`: the request is
handled and answered, or the response is lost, or the request is lost, or it is
given up and arrives later. Both nodes restart, under an old or a new epoch. The
module extends BarbOutbox, whose run keys are the authority's runs, and has an
instance of BarbAuthority, `Auth`; an entry of a kind without a route is refused
on the replica (`Outcome`). Its own `Init`, `Next` and so on carry the name of the
module in front (`DeliverySpec`).

**BarbFailover** follows the runbook's steps: stop, replace the database file,
promote, reconfigure, fence and rejoin, while runs go on posting cards on every
node. Three ways in which a failover departs from the plain procedure are part
of it (`Deviations`): the old authority cannot be stopped first, the node to be
promoted still has undelivered cards, and the fence is raised under a running
authority. `deviated` remembers which of them happened. The exchange with the
authority is one step here; BarbDelivery has its detail.

**StaffRun**: `worker[n]` is how far the thread of attempt `n` has come, and each
step of it is one store call, process operation or card. `CancelFlag`,
`CancelDecide`, `CancelWrite` and `CancelPost` are the steps of a cancel request;
`PostExecution` is `handle_post_execution_retry`; `FollowUp` is `launch_retry`
from the sweep; `Crash`, `Start`, `ReconcileScan`, `ReconcileRun` and
`ReconcileDone` are a restart. Attempt ids derive from the root and a number in
the code, so attempts are numbered here. The watchdog terminates a process whose
time is over (`Expire`) and then writes the row (`WatchdogWrites`); it posts no
card. A process need not end: `terminate_process_group` may report that some of it
survived, and no caller but the watchdog asks; a worker whose child has closed its
output gives up waiting after five seconds (`WaitExpires`). The history variables
`unkilled` and `unreaped` remember the attempts this happened to.

**BarbLease**: a request is two steps, because the store SELECTs the row outside a
transaction and UPDATEs it later: `Checkout`, `Heartbeat`, `Release`, `Fence`,
`UnclaimedWrite` and `Ensure` read, the `Commit...` actions decide on what was read
and write. `LockFree` is the process's RLock, which `fence` keeps across a claimed
write; `Remote` is the script that applies relayed requests, a process of its own
which that lock does not stop (`CliOverlaps`). `now` is any time up to `MaxWait`
before the lock was had. `claim` is the epoch at which `ensure_relay_lease` told a
relay node to act; it does not look at what the store answered, so a node that lost a
race is told the other one's epoch (`Told`). `Send` and `CommitSend` are the
deliveries a node makes under its claim, through the fence. **FencedLease** is what
callers rely on: the seat moves only under the next epoch, and claimed writes carry
the epoch of the moment.

**StaffScheduler**: per host the state entries in memory and in its file. A tick
is `TickGranted` or `TickDenied` (settle earlier fires, ask the hub), `Queue`
(under the lock; moves cursors, and saves only what the code saves), one `Fire`
per slot, and `Finish`. The slots a tick still has to fire are a set, taken in
the order of the keys (`IsHead`), which is the order the code queued them in.
`Status` is the schedule route, which reseeds cursors as well; `TickFails` an
exception in the middle of the fires. The history variable `decided` has the slots
some host skipped, fired or saw refused, which a cursor that only moved past them does
not tell, and `dropped` those on the list of a tick that was cut short.

**StaffDispatch**: `Acquire` and `Replay` are the outcomes of `reserve`; `Refuse`,
`Admit` and `Launch`, or `Forward` and `ForwardReturns`, the dispatch; `Record`
and `Release` the end of `_handle_idempotent_post`. `PeerRuns` is independent of
whether the origin still waits. `AdmittedOnly` is a store error between
admission and launch.

**StaffProposals**: an execution reads the proposal in `ExecRead` and then takes
one step per transaction, each of which checks the state it finds (`Allowed`).
`SweepList`, `SweepApprove` and `SweepDeny` are the decision defaults with their
follow-up claims, `SweepEarly` a sweep within an interval of the last. The
overdue proposals it still has to go through are positions in the list
(`sweep`), the lowest first. `ExecUnrecorded` is a store error between an action
and the record of its result. `ListOrphans` and `Reconcile` run beside the routes.

**ThreadConsole**: a writer changes the store (`Add`, `Rewrite`) and publishes in a
later step; the stream subscribes before it reads its replay; the history answer
comes at any time. The history variables `late`, `dropped`, `missed` and `skipped`
record the four ways an event can be lost, so that the properties can say that there
is no fifth. What the hook offers beyond reading the stream
(`appendOptimisticMessage`, `updateMessage`, `stopStreaming`) is left out, since the
Console does not call it, and so is the second history request for a thread opened by
a link, whose answer is like the first. Its `Init`, `Next` and so on carry the
module's name in front (`ConsoleSpec`), so that one proof module can extend it beside
StaffProposals.

### Abstractions

* Message bodies, titles, transcripts and log lines are left out; of a status
  only what the code branches on is kept.
* Failure classes are grouped by what the retry policy does with them.
* `WorkerError` may happen at every step that runs git, opens the prompt's pipe
  or calls the store. A store call that fails while the child runs is a separate
  matter (`Faults`): the code then ends nothing. The StaffRun runs leave it out.
* The role has neither declarative fallback rules nor a failover chain; both
  functions return at once for it. The no-result nudge, cloud runs, planning and
  issue claims are left out.
* The sweep may act on any failed attempt; which work item led it there is not
  modelled.
* `MaxIds` bounds attempts: one past it behaves like one already claimed.
* Leases of different scopes, tasks, keys and threads share no state, so one of
  each is modelled. Windows, holds, budgets and exclusions of the scheduler are
  one choice of blocked keys; the checks of a dispatch are one refusal; policy,
  verification and outcome of an action are one choice.
* Token events of chat replies, which share a subscriber's queue with messages,
  are left out: they can fill it, and `QueueSize` is small enough without them.

## 3. Runs

| Run | Instance | Shows |
|---|---|---|
| `authority` | 1 run, 2 nodes, versions to 4, epochs to 2, prune every 2nd update | I2, I3, I4, the monotone fence, the register |
| `outbox` | 1 card key and 1 signal key, 3 versions, 4 rows ever, room for 2, storage errors | bounds, version order, nothing silently dropped |
| `delivery` | 1 run, known to the authority or not, 2 versions, 2 epochs, 2 late requests, 2 restarts | what is called delivered is committed; final cards are delivered or dead-lettered |
| `failover` | 3 nodes, 2 runs, 2 failovers, every deviation | one writer per epoch always; one writer at a time, no lost final card, no false delivery where the procedure was followed |
| `staff_run` | three kinds of role (2 attempts; 2 providers; a chain of 1), 3 ids, 1 restart, the first attempt's process may resist | cancel, success, bounds, one worker per attempt, the causes of leaks; every attempt ends except where a backoff timer is lost |
| `lease` | a seat and a relay node, epochs to 3, task epochs to 2, clock to 2, ttl 1 | fencing epochs of lease and task also under a wrong claim of the node, no takeover in a claimed write, no theft, the abstract lease |
| `scheduler` | 2 hosts, 1 key, 2 slots, ttl 1, 1 crash or exception | latest slot only, refires explained, the last slot is decided after a takeover |
| `dispatch` | 2 requests with one key, 2 payloads, 3 operations, 1 fault; the endpoint allows a takeover or not | right answer, live holders, causes of a second run, kept receipts, everyone answered |
| `dispatch_retake` | as `dispatch`, no faults | violated: the retaken reservation finds its run |
| `proposals` | 2 proposals, 1 API executor and the sweep, 1 restart, audit failure or store error | who holds a running action, starts per approval, executions end, silent denials |
| `proposals_sla` | as `proposals`, no faults | violated: every silent denial is applied |
| `thread` | 2 writers, 3 messages of which one is a reply rewritten once, a queue of 1, a history page of 2, a replay page of 1, 1 break | what the Console shows, and that messages arrive |

Each module has a type invariant, `TypeOK`. `authority` checks it; the others were
checked with the same configurations and hold, and are left out of them so that
the runs keep to what could be wrong. It is proved for six of the eight modules
that have proofs; BarbLease and StaffProposals prove the part of it that their
invariants need (`Typed`). The properties of BarbOutbox and BarbAuthority are not
checked again in `delivery`: that its replica is the outbox and its hub the
authority is proved (section 5).

**Bounds.** One run is enough for the authority because runs share nothing but the
fence and the prune, and the proofs cover any number. Four versions with a prune
every second update and room for one receipt let a prune happen twice, with a receipt
kept only because it is a run's newest. Two epochs give an old and a new authority;
three in `failover` give a failback. An outbox of two rows with sizes one and two
fills up by count and by bytes, with three versions of a key so that one is in
flight, one waits and one coalesces. In `staff_run` the third id is one past the
longest legal chain, so that a longer one would be seen; `Stubborn` has the first
attempt only, whose process may survive its termination, be waited for in vain, or
hold up its watchdog; the row of the root and a second attempt beside it are what
that can disturb. One restart leaves such a process behind; the proofs of the safety
properties cover any number. Three lease epochs are two changes of hands; a clock of
two with a ttl of one lets a lease be renewed, lapse, and be judged at an old `now`.
`MCBarbLeaseSeats.cfg` adds a second seat of the same principal, with one change of
hands, and holds too. Two slots and a period of two let a host sleep over a slot.
Three operations under one key are a holder, the one that takes over, and one after a
release. In `thread` a queue and a replay page of one make every overflow happen with
two messages.

**Deadlock** is not checked in `failover`, `staff_run`, `scheduler`, `dispatch`,
`proposals` and `thread`, where failovers, attempts, time, operations, decisions
or messages are finite and everything may end.

**Fairness.** In BarbDelivery the drain loop is weakly fair (`drain_loop` never
returns and `asyncio.sleep` ends), and so is the operator's update of a stale
replica, without which nothing can be delivered by design. The complete exchange is
strongly fair: a network that keeps accepting posts lets one through eventually.
Crashes, lost messages and late arrivals are not fair. In StaffRun threads,
timers and the startup thread are weakly fair, the watchdog's wall-clock and stall
limits are reached, and a stopped dashboard is started again (systemd); no process
has to end. The
semaphores need no strong fairness in these instances since attempts of a run
follow one another.

In StaffScheduler time passes, the lease authority is started again, and a
request for the lease that could be granted again and again is heard at some
time (strong fairness: ticks come every minute, answers are lost now and then);
no other host has to come back. In StaffDispatch handlers go on (HTTP calls
have timeouts), clients repeat a request that was cut off or is in progress,
and leases run out. In StaffProposals worker threads, the sweep and the startup
thread go on. The sweep is started by `POST /api/v1/staff/followup/sweep`, that is,
by a caller outside the process; the assumption is that it keeps calling, and
`check_watchdog` raises an alert when it does not. In ThreadConsole a writer
that wrote publishes, the hook reconnects three seconds after every error and an
open stream is read; the history request need not be answered.

**Two assumptions of the passing runs.** `delivery` is without storage errors,
which the code does not promise to survive (`MCBarbOutboxStuck.cfg`).
In `staff_run` no request arrives during the startup scan (`EarlyRequests`), and
in `lease` the script runs while no other call is under way (`CliOverlaps`);
`MCStaffRunBoot.cfg` and `MCBarbLeaseScript.cfg` show what happens otherwise.

## 4. Where code and documents disagree

Two runs expect a violation, and `PROJECT.json` quotes the lines they are about:

* `dispatch_retake`: a lapsed reservation is taken over under a fresh operation
  id, so the retry does not find the admitted run and starts a second one.
* `proposals_sla`: a proposal of an older thread epoch that is to be denied
  raises in the middle of the sweep, every time, and the denials behind it are
  never applied.

These configurations show further disagreements and are run by hand
(`tlc -config <file> <module>`); each ends in the counterexample described:

| Configuration | Violates | What happens |
|---|---|---|
| `MCBarbFailoverLiveFence.cfg` | `StagedFinalCardDelivered` | An authority numbers its cards by the stored version, a staged card by the run's own counter. One that finds itself fenced in the middle of a run starts over at 1, the new authority takes the final card for an old one, and the outbox marks it delivered; `run_link.py:192` says the card "is staged, not lost". |
| `MCBarbOutboxStuck.cfg` | `NothingStuckDelivering` | A storage error while a pass is being settled leaves rows 'delivering' until a restart; `barb_outbox_drain.py:60`: "nothing may leave a key stuck in 'delivering'". |
| `MCBarbLeaseScript.cfg` | `NoTakeoverDuringWrite` | The script comes between the check of a claim and its write; `barb_lease_fence.py` says a takeover cannot. |
| `MCStaffRunTimer.cfg` | `QueuedRunsEnd` | Reconciliation preserves retries that wait for their backoff, but nothing schedules them again. |
| `MCStaffRunChain.cfg` | `AttemptsBounded` | With two fallback providers the "next" one alternates and each fallback raises the limit: the chain is never exhausted. |
| `MCStaffRunBoot.cfg` | `FailedByItsWorker` | Startup reconciliation takes a run admitted a moment ago for an orphan and fails it under its worker. |
| `MCStaffRunLeak.cfg` | `NoKnownProcessLeaks` | A worker gives up waiting for its process and closes the row; no reconciliation looks at it again and the process stays, pid and all. `reconcile.py:8`: "Terminates child processes (by PID) if still alive". |
| `MCBarbLeaseRelay.cfg` | `RelayClaimIsOwn` | Two nodes find no leader; the one that then loses the checkout is answered `active=True` with a claim at the winner's epoch (`barb_node_leader.py:224`). `barb_node_leader.py:213`: "a fenced BarbClaim for the single active holder". The fence refuses what it sends (`OneHolderPerEpoch`). |
| `MCStaffSchedulerTakeover.cfg` | `LastSlotIsDecided` | The leader goes down for good before a due slot, and the host that takes over has no cursor or too old a one: it starts over from now, and nobody fires or skips the slot. |
| `MCStaffSchedulerLeader.cfg` | `OneHostFires` | A host of higher rank takes the lease while the other is still firing the slots it has queued; `scheduler_leader_lease.py:3`: "at most one host ... fires scheduled slots at a time". |
| `MCStaffSchedulerJobs.cfg` | `OneActiveRunPerRole` | Two named jobs of a role due in one tick pass the gate on active runs together. |
| `MCStaffProposalsRetry.cfg` | `RetryNeedsDecision` | Of two executions that read one approved proposal, the second starts the action again after the first has failed. |

The models contain more behaviours worth knowing, for which no property is
stated. Replacing the new authority's database with the backup removes whatever
its outbox still held, hence the deviation `undrained`.
A run that fails outside the last step of `_execute` posts no card, so its
thread goes on showing an earlier status. And a card rewritten while a console is
disconnected stays as it was in that console, since a replay starts after the
last sequence number (`missed` in ThreadConsole).

Further limits of the code that were met and that no property states:

* a full outbox drops even a final card, and only a counter in memory remembers
  it (`barb_runtime.py:103`); `recover_in_flight` raising ends the drain task until
  the next restart (`barb_runtime.py:147`);
* an exception after the result was recorded replaces it by 'failed'
  (`runner.py:221`); failures in preparation return before the retry policy
  (`runner.py:219`); the follow-up sweep does not read the cancel flag
  (`followup.py:247`);
* a relayed release compares its epoch on an earlier read
  (`barb_lease_requests.py:197`);
* an exception in one fire of a tick loses the slots behind it (`scheduler.py:374`);
* the epoch of a proposal's thread is compared when the proposal is read, not when
  its action starts (`actions.py:361`); looking for an identical proposal and
  inserting one are two steps (`conversation_proposals.py:59`);
* a question answered twice starts two continuation runs (`run_link.py:351`), and
  the mark on its card is a read and a later write (`run_link.py:397`); answers are
  not modelled.

## 5. Proofs

Each proof module proves its theorems for every value of the constants: any number of
runs, nodes, requests or attempts, and every bound. The assumptions are those that
the modules declare (`ASSUME`), which TLC evaluates in the runs; a hypothesis beyond
them is a definition of the proof module and is part of the theorem. Each inductive
invariant (`IInv`, `ConsoleInv` of ThreadConsole, or `TypeOK /\ Safe` in
BarbAuthorityProofs) was checked by TLC on the run's instance first.

| Module | Theorem | States |
|---|---|---|
| BarbAuthority | `TypeCorrect`, `ReplayIsAnswered`, `NeverAppliedTwice`, `CommitsAreFenced`, `DemotedStaysDemoted` | `TypeOK`, `HeadReceiptKept`, `AppliedOnce`, `FenceCoversReceipts`, `EpochsNeverFallBack` always |
| | `FenceNeverFallsBack`, `AuthorityIsRegister` | `FenceMonotone`; `ImplementsRegister`, the refinement |
| BarbDelivery, the outbox | `TypeCorrect`, `VersionsGoOutInOrder`, `OutboxStaysBounded` | `TypeOK`, `LowerVersionsFirst`, `WithinBounds` always |
| | `NothingIsDroppedSilently` | `NeverSilentlyDropped` |
| BarbDelivery, composed | `DeliveredCardsAreCommitted`, `DeliveryTyped` | `DeliveredIsCommitted`, `DeliveryTypeOK` always |
| | `ReplicaIsOutbox`, `HubIsAuthority` | `DeliverySpec` implies the `Spec` of BarbOutbox and that of BarbAuthority |
| | `HubIsSafe`, `HubFenceMonotone`, `HubIsRegister` | the invariants of BarbAuthority, `FenceMonotone` and `ImplementsRegister` of the hub |
| BarbFailover | `TypeCorrect`, `EpochNamesWriter`, `WritesAreNotSplit`, `FinalCardsAreKept` | `TypeOK`, `OneWriterPerEpoch`, `NoSplitWrites`, `FinalCardsSurvive` always |
| | `FinalCardsAreDelivered` | `DeliveredUnlessFencedLive` |
| BarbLease (`LockCovers`) | `EpochsAreFencingTokens`, `ClaimedWritesAreNotOvertaken` | `OneHolderPerEpoch`, `NoTakeoverDuringWrite` always |
| | `LiveLeasesAreNotStolen`, `EpochsOnlyRise`, `LeaseRefinesFencedLease` | `NoTheft`; no epoch falls; `ImplementsFencedLease`, the refinement |
| StaffRun | `TypeCorrect`, `AttemptsLaunchOnce` | `TypeOK`, `OneWorkerPerAttempt` always |
| StaffRun (`Orderly`) | `CancelsReachTheProcess`, `RestartsLeaveNoKnownProcess`, `SuccessesReachTheRoot` | `CancelReachesChild`, `LeaksOnlyUnrecorded`, `SuccessReachesRoot` always |
| StaffRun (`ChainsEnd`) | `AttemptsEnd` | `AttemptsBounded` always |
| StaffScheduler | `TypeCorrect`, `LatestSlotOnly`, `RefiresAreExplained` | `TypeOK`, `FiresLatestSlot`, `RefiredOnlyIfUnsaved` always |
| StaffDispatch | `TypeCorrect`, `AnswersNameOwnRun`, `ReservationIsExclusive`, `SecondRunsHaveAReason` | `TypeOK`, `AnswerIsOwnRun`, `OneLiveHolder`, `SecondRunExplained` always |
| | `ReceiptsAreKept` | `ReceiptKept` |
| StaffProposals | `RunnerHolds`, `ApprovalsStartOnce` | `RunnerHoldsProposal`, `NoBlindRetry` always |
| | `EndedStaysEnded` | done, denied and expired are final |
| ThreadConsole | `ConsoleTyped`, `ConsoleShowsTheStore` | `ConsoleTypeOK`, `ShownAsStored` always |

**The hypotheses.** Three are needed because the code needs them; each is what
the passing run assumes, and a configuration of section 4 shows that the claims
fail without it.

* `LockCovers`: the script that applies relayed lease requests does not run between
  the SELECT and the UPDATE of another call, or has nobody to apply requests for
  (`MCBarbLeaseScript.cfg`).
* `Orderly`: requests wait for the startup reconciliation, and no store call fails
  beside a running child. Otherwise a cancel is accepted for a process that the
  restart left and nobody watches (`MCStaffRunBoot.cfg` shows a neighbour of this).
* `ChainsEnd`: a role names no provider twice and one fallback provider at most
  (`MCStaffRunChain.cfg`).

StaffRun also assumes that a role's `providers` and `fallbacks` are lists, the first
of them not empty.

**The arguments.**

*BarbAuthority.* `TypeOK /\ Safe`, where `Safe` joins the four invariants with
`ReceiptsInOrder` (no receipt is later than the commit counter). They need one
another: `EpochsNeverFallBack` is kept by a new commit only because the fence
covers every stored receipt and admits no lower epoch, and because the new receipt
is the latest; `AppliedOnce` needs its own second half, that no receipt is ahead
of its card. `PruneKeepsHeads` makes pruning harmless: it keeps each run's newest.

*BarbOutbox.* Every transaction inserts a row, deletes rows or rewrites rows in
place (`Becomes`), and each of the three keeps the table's invariants, which are
then proved once. `LowerVersionsFirst` needs ids to be unique and in order of
insertion (`RowsNumbered`), and that what a pass still has to settle is in flight
(`BatchInFlight`): otherwise a settled entry could be one that was never claimed.
The entry bound is a matter of cardinalities: a rewrite maps the undelivered rows
onto those of the next state. The byte bound is a sum over a set, defined by
recursion. The induction it takes is done on sets of numbers, a set with 0 and
with the successor of each member being `Nat` (`Inductive`, from the least-number
principle); with it `Bytes` falls by a row's size when that row is taken out
(`BytesRemove`), is monotone (`BytesSubset`), and is kept by a rewrite that keeps
ids and sizes (`BytesImage`).

*BarbDelivery.* `Said` collects everything that speaks of a version of a card: the
staged cards, the rows, the overdue requests, the stored card. `OneVoice`: every
version spoken of was issued, and all agree whether it is final. That is what
makes a "duplicate" or "stale" answer true of the entry it settles: an equal
version is the same card, a higher one is not the run's last, and a stale answer
to a higher version is about a card that is not final. `AnswerHolds` keeps the
answer true until `SettlePost`, while producers insert and coalesce and late requests
arrive; stored cards and counters only advance meanwhile (`Advance`). The two
refinements are step by step. The theorems on BarbAuthority are then cited for an
instance of BarbAuthorityProofs, `Hubs`, whose assumptions are proved of the hub's
constants (`HubConstants`).

*BarbFailover.* An epoch stands for one authority among the operator's decision,
all settings and all past writers (`EpochNamesNode`), and no database is fenced
against the current one (`FencesBehind`). For the cards, a run's cards are numbered
as they are posted, by the card its node keeps if that node commits and by the
counter if it stages (`CardsNumbered`); this is what fails when a running authority is
fenced, and so is conditional. `FinalAccounted`: a final card is at the
authority or waits in an outbox.

*BarbLease.* What a SELECT returned is still what is stored when the UPDATE comes
(`ReadsAreFresh`), since one call at a time is past its check (`Serialised`). No
grant, claimed write or handoff is ahead of the stored epochs (`HistoryIsBehind`),
and the holder of the row was granted the row's epoch (`HolderWasGranted`). The fence
compares the principal as well as the epoch, so a node that was told another one's
epoch never gets past it, which is the second half of `OneHolderPerEpoch`. The
refinement then goes action by action: an UPDATE is a step of FencedLease, everything
else leaves it alone.

*StaffRun.* The row an insert creates decides who launches (`Launched`), without any
hypothesis. Under `Orderly`, the worker's position says what row and process can be
(`RowFollowsWorker`), a cancel acts on its flag (`CancelIsFlagged`), and a process
that was given up has a worker past the point where it was (`ProcessAccounted`). A
process without a worker is on the list of the reconciliation (`SurvivorReconciled`),
unless one of the four causes of `LeaksOnlyUnrecorded` keeps its row off it; an
attempt after the root exists only once the root is over, or given up by its watchdog
(`AfterRoot`). Under `ChainsEnd` every attempt is on a rung of the ladder of
fallbacks (`Laddered`).

*StaffScheduler.* A cursor in memory, or in the file of a host that is down, is past
every run that no crash lost (`CursorsCover`), and what is on a tick's list is the
latest slot, behind a moved cursor (`TickInOrder`). `NextFire` is the arithmetic.

*StaffDispatch.* A request in flight holds its key's row, or its lease ran out
(`HoldsOrLapsed`); a row carries the newest operation of its key (`RowsAreOwn`); where
a handler is tells what became of its run (`RunFollowsHandler`).

*StaffProposals.* An approved proposal has an approval to spend (`ApprovalUnspent`), and
an executor about to start has seen it approved (`StartsFromApproved`).

*ThreadConsole.* `ConsoleInv` follows the newest content of each message to where it is.
Its event is still with the writer, or is the last one sent, or a restart took it
and no older one is left (`NewestComesLast`). So the last event of a message in the
queue (`QueueInOrder`), and without one there its place in the replay (`ReplayCurrent`),
on the screen (`ShownCurrent`) or in the history answer (`HistoryCurrent`) has the
newest content, or the writer does. That a message is shown at all is a matter of
the cursor: the replay goes on without a gap (`ReplayInOrder`), a message that the
cursor has not passed comes before every later one (`ArrivesInOrder`), and one it
has passed is unsent behind a later one (`PassedUnsent`), so that its event will
either be shown or be `late`. Each leaves out the messages that the
recorded causes took, and the proof shows that no step puts a message outside them.

**Only model-checked.** Liveness, since it rests on fairness, which the prover has no
means to reason about: `FinalCardsArrive`, `RunsEndUnlessBackoffLost`,
`TakeoverDecidesSlot`, `EveryRequestAnswered`, `ExecutionEndsUnlessUnrecorded`,
`SilentDenialAppliedUnlessFenced` and `MessageArrives`. Every invariant and action
property of a passing run has a theorem.

## 6. Plan

Models that could follow: the follow-up ledger with work items and escalations,
composed with StaffRun; answers to questions and the runs that continue from
them; path and runner leases; the agent inbox; slots of the chat pool.

Not modelled, and not planned: the routers beyond the routes named above (request
plumbing), inventory, metrics, remediation, library, memory and scanning
(collection and presentation), the autoscaler's systemd commands, and the rest of
the frontend. They make up most of the repository's lines, so the share of lines
that the models stand for is small although the protocols are covered.
