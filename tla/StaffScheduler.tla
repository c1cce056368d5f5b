--------------------------- MODULE StaffScheduler ---------------------------
(***************************************************************************)
(* The staff scheduler (scheduler.py) on the hosts of a leader chain: each *)
(* host ticks with its own cursors, kept in memory and in its own state    *)
(* file, and fires only when the lease authority (the hub's scheduler)     *)
(* grants it the leader lease (scheduler_leader_lease.py).  A tick settles *)
(* earlier fires, asks for the lease, queues the due slots under the lock, *)
(* and fires them outside it, one after the other.                         *)
(*                                                                         *)
(* A key is a role's schedule or one of its named jobs.  Cron slots are    *)
(* the multiples of Period.  Windows, holds, budget, exclusions and issue  *)
(* picks are one choice of blocked keys; claims, persona guards and        *)
(* rejected submits are another, when the slot fires.                      *)
(***************************************************************************)
EXTENDS Integers, Sequences, FiniteSets, SequencesExt

CONSTANTS
    Chain,        \* STAFF_SCHEDULER_LEADER_CHAIN, highest priority first
    Hub,          \* the host whose state file holds the lease
    Keys,         \* the schedule keys, in the order a tick walks them
    RoleOf,       \* the role a key belongs to
    Period,       \* time units between two slots
    LeaseTtl,     \* lease duration
    MaxClock,     \* bound: the clock
    MaxFaults,    \* bound: host crashes and unexpected exceptions
    Barbs         \* the keys of the Barb family, which wait for the startup grace

Hosts == Range(Chain)
KeySet == Range(Keys)

ASSUME ChainAssumption  == Hub \in Hosts /\ IsInjective(Chain) /\ IsInjective(Keys)
ASSUME KeysAssumption   == DOMAIN RoleOf = KeySet /\ Barbs \subseteq KeySet
ASSUME BoundsAssumption == /\ Period \in Nat \ {0} /\ LeaseTtl \in Nat \ {0}
                           /\ MaxClock \in Nat
                           /\ MaxFaults \in Nat

VARIABLES
    clock,
    lease,    \* the authority's __leader_lease__ entry: holder and time to expires_at
    up,       \* the hosts whose dashboard runs
    tick,     \* per host: the tick under way, or Idle
    mem,      \* per host and key: the state entry in memory
    disk,     \* per host and key: the state entry in the file
    runs,     \* the runs that ticks submitted
    lost,     \* runs submitted with nothing of it on disk at a crash (history)
    decided,  \* slots some host skipped, fired or saw refused (history)
    dropped,  \* slots on the list of a tick that was cut short (history)
    faults

history == <<decided, dropped>>
vars == <<clock, lease, up, tick, mem, disk, runs, lost, history, faults>>

NoHost   == "none"
NoCursor == -1
NoRun    == [slot |-> 0]
Idle     == [stage |-> "idle"]

Slots == {s \in 1..MaxClock : s % Period = 0}
Slot == [key : KeySet, slot : Slots]
RunId == [host : Hosts, key : KeySet, slot : Slots, at : 0..MaxClock]
Outcomes == {"terminal", "needs_input"}
Fresh == [cursor |-> NoCursor, pending |-> NoRun]

TypeOK ==
    /\ clock \in 0..MaxClock
    /\ lease \in [holder : Hosts \cup {NoHost}, left : 0..LeaseTtl]
    /\ up \subseteq Hosts
    /\ tick \in [Hosts -> {Idle} \cup [stage : {"queue", "fire"}, now : 0..MaxClock,
                                       todo : SUBSET Slot]]
    /\ \A m \in {mem, disk} :
         m \in [Hosts -> [KeySet -> [cursor : {NoCursor} \cup (0..MaxClock),
                                     pending : RunId \cup {NoRun}]]]
    /\ DOMAIN runs \subseteq RunId
    /\ \A r \in DOMAIN runs : runs[r] \in {"active"} \cup Outcomes
    /\ lost \subseteq RunId
    /\ decided \subseteq Slot /\ dropped \subseteq Slot
    /\ faults \in 0..MaxFaults

Init ==
    /\ clock = 0
    /\ lease = [holder |-> NoHost, left |-> 0]
    /\ up = Hosts
    /\ tick = [h \in Hosts |-> Idle]
    /\ disk = [h \in Hosts |-> [k \in KeySet |-> Fresh]]
    /\ mem = disk
    /\ runs = << >>
    /\ lost = {}
    /\ decided = {} /\ dropped = {}
    /\ faults = 0

-----------------------------------------------------------------------------
(* Slots.                                                                   *)

\* next_fire: the first slot after t.
next_fire(t) == ((t \div Period) + 1) * Period

\* Faulty variant, for mutation runs: a cursor that is far behind is not noticed.
is_staleNever(cursor, now) == FALSE

\* Two slots after the cursor have passed already.
is_stale(cursor, now) == next_fire(next_fire(cursor)) <= now

\* The gate "no queued, preparing or running run of the role" (this host's store).
ActiveRun(h, k) ==
    \E r \in DOMAIN runs : r.host = h /\ RoleOf[r.key] = RoleOf[k] /\ runs[r] = "active"

-----------------------------------------------------------------------------
(* The leader lease.                                                        *)

Outranks(h, g) == \E i, j \in DOMAIN Chain : Chain[i] = h /\ Chain[j] = g /\ i < j

\* Faulty variant: a lease that never expires.
GrantedToHolderOnly(h) == lease.holder \in {h, NoHost} \/ Outranks(h, lease.holder)

\* acquire_leader_lease at the authority: the holder renews, a free or expired
\* lease is taken, a host earlier in the chain preempts.
Granted(h) ==
    \/ lease.holder = h
    \/ lease.holder = NoHost
    \/ lease.left = 0
    \/ Outranks(h, lease.holder)

\* The time to expires_at when the clock has moved.
TimeLeft == IF lease.left > 0 THEN lease.left - 1 ELSE 0

\* Granting saves the hub's whole state file.
Grant(h, m, d) ==
    /\ lease' = [holder |-> h, left |-> LeaseTtl]
    /\ disk' = [d EXCEPT ![Hub] = m[Hub]]

-----------------------------------------------------------------------------
(* A tick.                                                                  *)

\* reconcile_scheduled_runs: an entry whose run is no longer live is settled
\* (as a success or a miss), and the state is saved if any was.
Over(h) ==
    {k \in KeySet : LET r == mem[h][k].pending
                    IN  r # NoRun /\ (r \in DOMAIN runs => runs[r] = "terminal")}
Reconciled(h) ==
    [mem EXCEPT ![h] = [k \in KeySet |-> IF k \in Over(h) THEN [mem[h][k] EXCEPT !.pending = NoRun]
                                                          ELSE mem[h][k]]]
SavedIf(saves, h, m) == IF saves THEN [disk EXCEPT ![h] = m[h]] ELSE disk

\* A tick's now is later than that of the host's earlier ones.
Reconcile(h) ==
    /\ h \in up /\ tick[h] = Idle
    /\ \A r \in DOMAIN runs : r.host = h => r.at < clock
    /\ mem' = Reconciled(h)
    /\ UNCHANGED <<clock, up, runs, lost, history, faults>>

\* The lease is granted, and the answer reaches the host or is lost.
TickGranted(h, heard) ==
    /\ Reconcile(h)
    /\ Hub \in up /\ Granted(h)
    /\ Grant(h, Reconciled(h), SavedIf(Over(h) # {}, h, Reconciled(h)))
    /\ tick' = IF heard THEN [tick EXCEPT ![h] = [stage |-> "queue", now |-> clock, todo |-> {}]]
                        ELSE tick

\* The lease is held by another host, or the authority does not answer.
TickDenied(h) ==
    /\ Reconcile(h)
    /\ Over(h) # {}
    /\ disk' = SavedIf(TRUE, h, Reconciled(h))
    /\ UNCHANGED <<lease, tick>>

\* _cursor: a key seen for the first time, or far behind, starts from now.
Reseeded(h, now) ==
    {k \in KeySet : mem[h][k].cursor = NoCursor \/ is_stale(mem[h][k].cursor, now)}
DueKeys(h, now) ==
    {k \in KeySet \ Reseeded(h, now) : next_fire(mem[h][k].cursor) <= now}

\* queue_due_slot for every key: a due slot of a key that is not held back
\* (Barb's, in the startup grace) moves the cursor to now, and is skipped
\* (blocked) or put on the list.  Reseeding a key saves what the walk has
\* reached, a skip saves all of it; slots to fire alone save nothing.
Queue(h, blocked, heldback) ==
    LET now    == tick[h].now
        seeded == Reseeded(h, now)
        due    == DueKeys(h, now) \ heldback
        skips  == {k \in due : k \in blocked \/ ActiveRun(h, k)}
        slots(K) == {[key |-> k, slot |-> next_fire(mem[h][k].cursor)] : k \in K}
        fires  == slots(due \ skips)
        moved  == [k \in KeySet |-> IF k \in seeded \cup due THEN [mem[h][k] EXCEPT !.cursor = now]
                                                             ELSE mem[h][k]]
        walked == {k \in KeySet : \E i, j \in DOMAIN Keys : k = Keys[i] /\ i <= j /\ Keys[j] \in seeded}
    IN  /\ h \in up /\ tick[h].stage = "queue"
        /\ mem' = [mem EXCEPT ![h] = moved]
        /\ disk' = CASE skips # {}  -> [disk EXCEPT ![h] = moved]
                     [] skips = {} /\ seeded # {} ->
                          [disk EXCEPT ![h] = [k \in KeySet |-> IF k \in walked THEN moved[k] ELSE mem[h][k]]]
                     [] OTHER       -> disk
        /\ tick' = [tick EXCEPT ![h] =
             IF fires = {} THEN Idle ELSE [stage |-> "fire", now |-> now, todo |-> fires]]
        /\ decided' = decided \cup slots(skips)
        /\ UNCHANGED <<clock, lease, up, runs, lost, dropped, faults>>

\* Faulty variant: the entry written back is the one read before the queueing.
RecordFireStale(entry, item, run) == [cursor |-> item.slot - 1, pending |-> run]

record_scheduled_fire(entry, item, run) == [entry EXCEPT !.pending = run]

\* The list is in the order of the keys.
Before(k, l) == \E i, j \in DOMAIN Keys : Keys[i] = k /\ Keys[j] = l /\ i < j
IsHead(item, todo) == ~\E other \in todo : Before(other.key, item.key)

\* The first slot's run is submitted and becomes the entry's pending run; or a claim,
\* a guard or the runner refuses it.
Fire(h, item, submitted) ==
    LET run  == [host |-> h, key |-> item.key, slot |-> item.slot, at |-> tick[h].now]
    IN  /\ h \in up /\ tick[h].stage = "fire"
        /\ item \in tick[h].todo /\ IsHead(item, tick[h].todo)
        /\ tick' = [tick EXCEPT ![h].todo = @ \ {item}]
        /\ \/ /\ submitted
              /\ runs' = [r \in DOMAIN runs \cup {run} |-> IF r = run THEN "active" ELSE runs[r]]
              /\ mem' = [mem EXCEPT ![h][item.key] = record_scheduled_fire(@, item, run)]
           \/ /\ ~submitted
              /\ UNCHANGED <<runs, mem>>
        /\ decided' = decided \cup {item}
        /\ UNCHANGED <<clock, lease, up, disk, lost, dropped, faults>>

FireHead(h) ==
    tick[h].stage = "fire"
      /\ \E item \in tick[h].todo, submitted \in BOOLEAN : Fire(h, item, submitted)

\* The state is saved after the last fire.
Finish(h) ==
    /\ h \in up /\ tick[h].stage = "fire" /\ tick[h].todo = {}
    /\ tick' = [tick EXCEPT ![h] = Idle]
    /\ disk' = [disk EXCEPT ![h] = mem[h]]
    /\ UNCHANGED <<clock, lease, up, mem, runs, lost, history, faults>>

\* An unexpected exception (the claim query, the runner's store) ends the tick:
\* the loop logs it; the slots still on the list are gone.
TickFails(h) ==
    /\ h \in up /\ tick[h].stage = "fire" /\ faults < MaxFaults
    /\ faults' = faults + 1
    /\ tick' = [tick EXCEPT ![h] = Idle]
    /\ dropped' = dropped \cup tick[h].todo
    /\ UNCHANGED <<clock, lease, up, mem, disk, runs, lost, decided>>

\* status: reading the schedule reseeds cursors too (without the lock), and
\* saves the state when it did.
Status(h) ==
    /\ h \in up /\ Reseeded(h, clock) # {}
    /\ mem' = [mem EXCEPT ![h] = [k \in KeySet |->
                 IF k \in Reseeded(h, clock) THEN [mem[h][k] EXCEPT !.cursor = clock] ELSE mem[h][k]]]
    /\ disk' = [disk EXCEPT ![h] = mem'[h]]
    /\ UNCHANGED <<clock, lease, up, tick, runs, lost, history, faults>>

\* set_role_schedule_enabled, set_role_model_override: the state is saved.
SetRole(h) ==
    /\ h \in up /\ disk[h] # mem[h]
    /\ disk' = [disk EXCEPT ![h] = mem[h]]
    /\ UNCHANGED <<clock, lease, up, tick, mem, runs, lost, history, faults>>

-----------------------------------------------------------------------------
(* The rest of the system.                                                  *)

\* The runner ends a run (an answered question is a run of its own).
RunEnds ==
    /\ \E r \in DOMAIN runs, o \in Outcomes :
         runs[r] = "active" /\ runs' = [runs EXCEPT ![r] = o]
    /\ UNCHANGED <<clock, lease, up, tick, mem, disk, lost, history, faults>>

\* A host stops; its interrupted runs will be marked failed when it starts.
\* (Bound: the clock still has a lease's time to run.)
Crash(h) ==
    /\ h \in up /\ faults < MaxFaults /\ clock + LeaseTtl < MaxClock
    /\ faults' = faults + 1
    /\ up' = up \ {h}
    /\ tick' = [tick EXCEPT ![h] = Idle]
    /\ lost' = lost \cup {r \in DOMAIN runs : r.host = h /\ disk[h][r.key].cursor < r.at}
    /\ dropped' = IF tick[h].stage = "fire" THEN dropped \cup tick[h].todo ELSE dropped
    /\ UNCHANGED <<clock, lease, mem, disk, runs, decided>>

Start(h) ==
    /\ h \notin up
    /\ up' = up \cup {h}
    /\ mem' = [mem EXCEPT ![h] = disk[h]]
    /\ runs' = [r \in DOMAIN runs |-> IF r.host = h /\ runs[r] = "active" THEN "terminal" ELSE runs[r]]
    /\ UNCHANGED <<clock, lease, tick, disk, lost, history, faults>>

Time ==
    /\ clock < MaxClock
    /\ clock' = clock + 1
    /\ lease' = [lease EXCEPT !.left = TimeLeft]
    /\ UNCHANGED <<up, tick, mem, disk, runs, lost, history, faults>>

Tick(h) ==
    \/ \E heard \in BOOLEAN : TickGranted(h, heard)
    \/ TickDenied(h)
    \/ \E blocked \in SUBSET KeySet, heldback \in SUBSET Barbs : Queue(h, blocked, heldback)
    \/ FireHead(h)
    \/ Finish(h)

Next ==
    \/ \E h \in Hosts : \/ Tick(h) \/ TickFails(h) \/ Status(h) \/ SetRole(h)
                      \/ Crash(h) \/ Start(h)
    \/ RunEnds \/ Time

\* The threads of a running host make progress, requests for the lease are not
\* lost for ever, the startup grace ends, and the authority is restarted; no
\* other host has to come back.
Fairness ==
    /\ WF_vars(Time) /\ WF_vars(Start(Hub))
    /\ \A h \in Hosts :
         /\ SF_vars(TickGranted(h, TRUE))
         /\ SF_vars(\E blocked \in SUBSET KeySet : Queue(h, blocked, {}))
         /\ WF_vars(FireHead(h))
         /\ WF_vars(Finish(h))

Spec == Init /\ [][Next]_vars /\ Fairness

-----------------------------------------------------------------------------
(* Properties.                                                              *)

\* "the next fire is the next real slot rather than a stale one": whatever the
\* cursor a host wakes up with, a tick fires no slot but the latest.
FiresLatestSlot ==
    \A r \in DOMAIN runs : next_fire(r.slot) > r.at

\* A host fires one slot twice only when it crashed with the first of the two
\* submitted and the moved cursor not yet in the file.
RefiredOnlyIfUnsaved ==
    \A r, q \in DOMAIN runs :
        r.host = q.host /\ r.key = q.key /\ r.slot = q.slot /\ r.at < q.at => r \in lost

\* Gate 3, "the role has no queued/preparing/running run already": a host never
\* has two active scheduled runs of one role.
OneActiveRunPerRole ==
    \A r, q \in DOMAIN runs :
        r.host = q.host /\ RoleOf[r.key] = RoleOf[q.key] /\ runs[r] = "active" /\ runs[q] = "active"
            => r = q

\* The last slot within the bound: some host has skipped it, fired it or seen it refused.
LastSlot == next_fire(MaxClock) - Period
LastSlotDecided(k) == [key |-> k, slot |-> LastSlot] \in decided

\* A running host whose cursor stands just before the last slot.
Awaits(h, k) == h \in up /\ mem[h][k].cursor # NoCursor /\ next_fire(mem[h][k].cursor) = LastSlot

\* A host that outranks h has walked past the last slot: its cursor was missing, or too
\* old, and started over from now, so that no slot was queued.
PassedOver(h, k) == \E g \in Hosts : Outranks(g, h) /\ mem[g][k].cursor >= LastSlot

\* Nobody is left to decide the last slot: it is on no host's list, and no running host
\* waits for it except behind one that passed it over.
NobodyToDecide(k) ==
    /\ clock = MaxClock /\ Hub \in up
    /\ \A h \in Hosts : /\ Awaits(h, k) => PassedOver(h, k)
                        /\ tick[h].stage = "fire" =>
                             [key |-> k, slot |-> LastSlot] \notin tick[h].todo

\* Takeover: where a running host's cursor waits for the last slot, some host skips or
\* fires it, even if the leader went down for good with the lease in its hands.  Two
\* exceptions: the tick that has the slot on its list is cut short (an exception, a
\* crash), or a host that outranks the waiting one starts over from now.
TakeoverDecidesSlot ==
    <>(\A k \in KeySet : \/ LastSlotDecided(k)
                         \/ [key |-> k, slot |-> LastSlot] \in dropped
                         \/ NobodyToDecide(k))

\* Some host decides the last slot, whatever cursors the hosts have.
LastSlotIsDecided == <>(\A k \in KeySet : LastSlotDecided(k))

\* scheduler_leader_lease.py: "at most one host in STAFF_SCHEDULER_LEADER_CHAIN fires
\* scheduled slots at a time".
OneHostFires ==
    \A g, h \in Hosts : tick[g].stage = "fire" /\ tick[h].stage = "fire" => g = h
=============================================================================
