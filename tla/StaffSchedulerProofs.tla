------------------------ MODULE StaffSchedulerProofs ------------------------
(***************************************************************************)
(* StaffScheduler for every leader chain, every list of schedule keys and  *)
(* every period: a tick fires the latest slot only, and a slot is fired    *)
(* twice by a host only when a crash lost the moved cursor.                *)
(***************************************************************************)
EXTENDS StaffScheduler, TLAPS

Entry == [cursor : {NoCursor} \cup (0..MaxClock), pending : RunId \cup {NoRun}]
State == [Hosts -> [KeySet -> Entry]]
Ticking == [stage : {"queue", "fire"}, now : 0..MaxClock, todo : SUBSET Slot]

-----------------------------------------------------------------------------
(* The inductive invariant.                                                 *)

\* A run is of a slot that had come, the latest one; a later run of the key on the
\* host is of a slot after it, unless a crash lost it.
HistoryInOrder ==
    /\ \A r \in DOMAIN runs : r.slot <= r.at /\ r.at <= clock /\ next_fire(r.slot) > r.at
    /\ \A r, q \in DOMAIN runs :
          r.host = q.host /\ r.key = q.key /\ r.at < q.at /\ r \notin lost => r.at < q.slot

\* The cursor that a host has, or will wake up with, is past every run that no crash lost.
CursorsCover ==
    \A r \in DOMAIN runs \ lost :
        /\ r.host \in up => r.at <= mem[r.host][r.key].cursor
        /\ r.host \notin up => r.at <= disk[r.host][r.key].cursor

\* What a tick under way may rely on: no run of the host is later than its now, and the
\* slots on its list are the latest, their cursors moved, and not fired before.
TickInOrder(h) ==
    /\ h \notin up => tick[h] = Idle
    /\ tick[h] # Idle => /\ tick[h].now <= clock
                         /\ \A r \in DOMAIN runs : r.host = h => r.at <= tick[h].now
    /\ tick[h].stage = "fire" =>
         \A item \in tick[h].todo :
            /\ item.slot <= tick[h].now /\ next_fire(item.slot) > tick[h].now
            /\ tick[h].now <= mem[h][item.key].cursor
            /\ \A r \in DOMAIN runs \ lost :
                  r.host = h /\ r.key = item.key /\ r.at < tick[h].now => r.at < item.slot

IInv == TypeOK /\ HistoryInOrder /\ CursorsCover /\ \A h \in Hosts : TickInOrder(h)

-----------------------------------------------------------------------------
(* Slots and entries.                                                       *)

\* next_fire is a slot after t.
LEMMA NextFire ==
    ASSUME NEW t \in Int
    PROVE  next_fire(t) \in Int /\ next_fire(t) > t /\ next_fire(t) % Period = 0
<1> DEFINE q == t \div Period
           m == t % Period
<1>1. t = Period * q + m /\ m \in 0..(Period - 1) /\ q \in Int
  BY BoundsAssumption
<1>2. next_fire(t) = (q + 1) * Period
  BY DEF next_fire
<1> HIDE DEF q, m
<1>3. (q + 1) * Period = Period * q + Period /\ Period * q \in Int
  BY BoundsAssumption, <1>1
<1>4. ((q + 1) * Period) % Period = 0
  <2>1. \A x \in Int : (x * Period) % Period = 0
    BY BoundsAssumption
  <2> QED BY <1>1, <2>1
<1> QED BY <1>1, <1>2, <1>3, <1>4, BoundsAssumption

\* The parts of the type invariant that are used over and over.
LEMMA Types ==
    ASSUME TypeOK
    PROVE  /\ clock \in 0..MaxClock /\ clock \in Nat /\ MaxClock \in Nat
           /\ mem \in State /\ disk \in State /\ up \subseteq Hosts
           /\ tick \in [Hosts -> {Idle} \cup Ticking]
           /\ DOMAIN runs \subseteq RunId /\ lost \subseteq RunId
           /\ Hub \in Hosts
  BY ChainAssumption, BoundsAssumption DEF TypeOK, State, Entry, Ticking, Slot

\* A tick is idle or has a now and a list.
LEMMA TickShape ==
    ASSUME NEW x \in {Idle} \cup Ticking
    PROVE  \/ x = Idle /\ x.stage = "idle"
           \/ /\ x # Idle /\ x.stage \in {"queue", "fire"} /\ x.now \in 0..MaxClock
              /\ x.todo \subseteq Slot
  BY DEF Idle, Ticking

\* A run's fields.
LEMMA RunShape ==
    ASSUME NEW r \in RunId
    PROVE  r.host \in Hosts /\ r.key \in KeySet /\ r.slot \in Nat /\ r.at \in 0..MaxClock
  BY DEF RunId, Slots

\* Settling earlier fires moves no cursor.
LEMMA ReconciledState ==
    ASSUME TypeOK, NEW h \in Hosts
    PROVE  /\ Reconciled(h) \in State
           /\ \A g \in Hosts, k \in KeySet : Reconciled(h)[g][k].cursor = mem[g][k].cursor
<1>1. mem \in State
  BY Types
<1>2. \A e \in Entry : [e EXCEPT !.pending = NoRun] \in Entry
                       /\ [e EXCEPT !.pending = NoRun].cursor = e.cursor
  BY DEF Entry
<1> DEFINE row == [k \in KeySet |-> IF k \in Over(h) THEN [mem[h][k] EXCEPT !.pending = NoRun]
                                                    ELSE mem[h][k]]
<1>3. row \in [KeySet -> Entry] /\ \A k \in KeySet : row[k].cursor = mem[h][k].cursor
  BY <1>1, <1>2 DEF State
<1>4. Reconciled(h) = [mem EXCEPT ![h] = row]
  BY DEF Reconciled
<1> HIDE DEF row
<1> QED BY <1>1, <1>3, <1>4 DEF State

-----------------------------------------------------------------------------
(* Steps that fire nothing.                                                 *)

\* The runs are kept, no cursor goes back, no host stops or starts, and a tick at
\* most ends.
Quiet ==
    /\ TypeOK' /\ DOMAIN runs' = DOMAIN runs /\ lost' = lost /\ clock <= clock' /\ up' = up
    /\ \A h \in Hosts, k \in KeySet : mem[h][k].cursor <= mem'[h][k].cursor
    /\ \A h \in Hosts \ up : disk'[h] = disk[h]

\* The runs stay in order.
LEMMA HistoryKept ==
    ASSUME TypeOK, TypeOK', HistoryInOrder, DOMAIN runs' = DOMAIN runs, lost \subseteq lost',
           clock <= clock'
    PROVE  HistoryInOrder'
<1>1. clock \in Nat /\ clock' \in Nat /\ \A r \in DOMAIN runs : r.at \in Nat
  <2>1. \A r \in DOMAIN runs : r.at \in 0..MaxClock
    BY Types, RunShape
  <2>2. clock \in 0..MaxClock /\ clock' \in 0..MaxClock
    BY DEF TypeOK
  <2> QED BY <2>1, <2>2, BoundsAssumption
<1> QED BY <1>1 DEF HistoryInOrder

\* A cursor is a number.
LEMMA CursorInt ==
    ASSUME TypeOK, NEW h \in Hosts, NEW k \in KeySet
    PROVE  mem[h][k].cursor \in Int /\ disk[h][k].cursor \in Int
<1>1. mem[h][k] \in Entry /\ disk[h][k] \in Entry
  BY Types DEF State
<1> QED BY <1>1, BoundsAssumption DEF Entry, NoCursor

\* The cursors stay past the runs.
LEMMA CursorsKept ==
    ASSUME TypeOK, CursorsCover, Quiet
    PROVE  CursorsCover'
<1> SUFFICES ASSUME NEW r \in DOMAIN runs \ lost
             PROVE  /\ r.host \in up => r.at <= mem'[r.host][r.key].cursor
                    /\ r.host \notin up => r.at <= disk'[r.host][r.key].cursor
  BY DEF CursorsCover, Quiet
<1>1. r.host \in Hosts /\ r.key \in KeySet /\ r.at \in 0..MaxClock
  BY Types, RunShape
<1>2. mem[r.host][r.key].cursor \in Int
  BY <1>1, CursorInt
<1>3. mem'[r.host][r.key].cursor \in Int
  <2>1. TypeOK'
    BY DEF Quiet
  <2>2. mem'[r.host][r.key] \in Entry
    BY <1>1, <2>1 DEF TypeOK, Entry
  <2> QED BY <2>2, BoundsAssumption DEF Entry, NoCursor
<1>4. mem[r.host][r.key].cursor <= mem'[r.host][r.key].cursor
  BY <1>1 DEF Quiet
<1>5. r.host \notin up => disk'[r.host] = disk[r.host]
  BY <1>1 DEF Quiet
<1> QED BY <1>1, <1>2, <1>3, <1>4, <1>5, BoundsAssumption DEF CursorsCover

\* A tick that goes on, or ends, stays in order.
LEMMA TickKept ==
    ASSUME TypeOK, Quiet, NEW h \in Hosts, TickInOrder(h), tick'[h] \in {tick[h], Idle}
    PROVE  TickInOrder(h)'
<1>1. CASE tick'[h] = Idle
  BY <1>1 DEF TickInOrder, Idle
<1>2. CASE tick'[h] = tick[h] /\ tick[h] # Idle
  <2>1. tick[h].now \in 0..MaxClock /\ tick[h].todo \subseteq Slot
    BY <1>2, Types, TickShape
  <2>2. clock \in Nat /\ clock' \in Nat /\ clock <= clock' /\ tick[h].now \in Nat
    BY <2>1, BoundsAssumption DEF Quiet, TypeOK
  <2>3. \A item \in tick[h].todo : tick[h].now <= mem[h][item.key].cursor
                                     => tick[h].now <= mem'[h][item.key].cursor
    <3> SUFFICES ASSUME NEW item \in tick[h].todo, tick[h].now <= mem[h][item.key].cursor
                 PROVE  tick[h].now <= mem'[h][item.key].cursor
      OBVIOUS
    <3>1. item.key \in KeySet
      BY <2>1 DEF Slot
    <3>2. mem[h][item.key].cursor \in Int /\ mem'[h][item.key].cursor \in Int
      <4>1. TypeOK' /\ mem'[h][item.key] \in Entry
        BY <3>1 DEF Quiet, TypeOK, Entry
      <4> QED BY <3>1, <4>1, CursorInt, BoundsAssumption DEF Entry, NoCursor
    <3>3. mem[h][item.key].cursor <= mem'[h][item.key].cursor
      BY <3>1 DEF Quiet
    <3> QED BY <2>2, <3>2, <3>3
  <2> QED BY <1>2, <2>2, <2>3 DEF TickInOrder, Quiet
<1> QED BY <1>1, <1>2

\* All of it.
LEMMA QuietStep ==
    ASSUME IInv, Quiet, \A h \in Hosts : tick'[h] \in {tick[h], Idle}
    PROVE  IInv'
<1>1. HistoryInOrder'
  BY HistoryKept DEF IInv, Quiet
<1>2. CursorsCover'
  BY CursorsKept DEF IInv
<1>3. \A h \in Hosts : TickInOrder(h)'
  BY TickKept DEF IInv
<1> QED BY <1>1, <1>2, <1>3 DEF IInv, Quiet

\* A saved file is a state file.
LEMMA SavedState ==
    ASSUME TypeOK, NEW h \in Hosts, NEW m \in State, NEW saves
    PROVE  /\ SavedIf(saves, h, m) \in State
           /\ \A g \in Hosts \ {h} : SavedIf(saves, h, m)[g] = disk[g]
  BY Types DEF SavedIf, State

\* The state after a tick's reconciliation.
LEMMA ReconcileFacts ==
    ASSUME TypeOK, NEW h \in Hosts, Reconcile(h)
    PROVE  /\ h \in up /\ tick[h] = Idle /\ mem' \in State /\ mem' = Reconciled(h)
           /\ \A g \in Hosts, k \in KeySet : mem[g][k].cursor <= mem'[g][k].cursor
           /\ \A r \in DOMAIN runs : r.host = h => r.at < clock
           /\ UNCHANGED <<clock, up, runs, lost, decided, dropped, faults>>
<1>1. \A g \in Hosts, k \in KeySet : mem[g][k].cursor \in Int
  BY CursorInt
<1> QED BY <1>1, ReconciledState DEF Reconcile, history

\* A tick without the lease.
LEMMA TickDeniedStep == ASSUME IInv, NEW h \in Hosts, TickDenied(h) PROVE IInv'
<1>1. TypeOK
  BY DEF IInv
<1>2. /\ h \in up /\ mem' \in State /\ mem' = Reconciled(h)
      /\ \A g \in Hosts, k \in KeySet : mem[g][k].cursor <= mem'[g][k].cursor
      /\ UNCHANGED <<clock, up, runs, lost, decided, dropped, faults, lease, tick>>
  BY <1>1, ReconcileFacts DEF TickDenied
<1>3. disk' \in State /\ \A g \in Hosts \ {h} : disk'[g] = disk[g]
  BY <1>1, <1>2, ReconciledState, SavedState DEF TickDenied
<1>4. TypeOK'
  BY <1>1, <1>2, <1>3 DEF TypeOK, State, Entry
<1>5. Quiet
  BY <1>1, <1>2, <1>3, <1>4, Types DEF Quiet
<1> QED BY <1>2, <1>5, QuietStep

\* A tick that gets the lease: its now is later than every run of the host.
LEMMA TickGrantedStep ==
    ASSUME IInv, NEW h \in Hosts, NEW heard \in BOOLEAN, TickGranted(h, heard) PROVE IInv'
<1>1. TypeOK
  BY DEF IInv
<1>2. /\ h \in up /\ tick[h] = Idle /\ mem' \in State /\ mem' = Reconciled(h)
      /\ \A g \in Hosts, k \in KeySet : mem[g][k].cursor <= mem'[g][k].cursor
      /\ \A r \in DOMAIN runs : r.host = h => r.at < clock
      /\ UNCHANGED <<clock, up, runs, lost, decided, dropped, faults>>
  BY <1>1, ReconcileFacts DEF TickGranted
<1>3. /\ disk' \in State /\ Hub \in up
      /\ \A g \in Hosts \ {h, Hub} : disk'[g] = disk[g]
  <2> DEFINE d == SavedIf(Over(h) # {}, h, Reconciled(h))
  <2>1. d \in State /\ \A g \in Hosts \ {h} : d[g] = disk[g]
    BY <1>1, ReconciledState, SavedState
  <2>2. disk' = [d EXCEPT ![Hub] = Reconciled(h)[Hub]] /\ Hub \in up
    BY DEF TickGranted, Grant
  <2> HIDE DEF d
  <2> QED BY <1>2, <2>1, <2>2, ChainAssumption DEF State
<1> DEFINE new == [stage |-> "queue", now |-> clock, todo |-> {}]
<1>4. tick' = IF heard THEN [tick EXCEPT ![h] = new] ELSE tick
  BY DEF TickGranted
<1>5. new \in Ticking /\ new # Idle /\ new.stage = "queue" /\ new.now = clock
  BY <1>1, Types DEF Ticking, Idle
<1> HIDE DEF new
<1>6. tick' \in [Hosts -> {Idle} \cup Ticking]
  BY <1>1, <1>4, <1>5, Types
<1>7. lease' \in [holder : Hosts \cup {NoHost}, left : 0..LeaseTtl]
  BY BoundsAssumption DEF TickGranted, Grant
<1>8. TypeOK'
  BY <1>1, <1>2, <1>3, <1>6, <1>7 DEF TypeOK, State, Entry, Ticking, Slot
<1>9. Quiet
  BY <1>1, <1>2, <1>3, <1>8, Types DEF Quiet
<1>10. HistoryInOrder'
  BY <1>9, HistoryKept DEF IInv, Quiet
<1>11. CursorsCover'
  BY <1>9, CursorsKept DEF IInv
<1>12. ASSUME NEW g \in Hosts PROVE TickInOrder(g)'
  <2>1. CASE tick'[g] = tick[g]
    BY <1>9, <2>1, TickKept DEF IInv
  <2>2. CASE g = h /\ tick'[g] = new
    <3>1. \A r \in DOMAIN runs : r.host = h => r.at <= clock
      BY DEF IInv, HistoryInOrder
    <3>2. clock \in Nat
      BY <1>1, Types
    <3> QED BY <1>2, <1>5, <2>2, <3>1, <3>2 DEF TickInOrder
  <2> QED BY <1>1, <1>4, <2>1, <2>2, Types
<1> QED BY <1>8, <1>10, <1>11, <1>12 DEF IInv

\* The save at the end of a tick, and a tick cut short.
LEMMA FinishStep == ASSUME IInv, NEW h \in Hosts, Finish(h) \/ TickFails(h) PROVE IInv'
<1>1. TypeOK /\ mem \in State /\ disk \in State /\ tick \in [Hosts -> {Idle} \cup Ticking]
  BY Types DEF IInv
<1>2. /\ h \in up /\ tick' = [tick EXCEPT ![h] = Idle] /\ faults' \in 0..MaxFaults
      /\ UNCHANGED <<clock, lease, up, mem, runs, lost, decided>>
      /\ disk' = [disk EXCEPT ![h] = mem[h]] \/ disk' = disk
  BY <1>1, BoundsAssumption DEF Finish, TickFails, TypeOK, history
<1>3. disk' \in State /\ \A g \in Hosts \ up : disk'[g] = disk[g]
  BY <1>1, <1>2 DEF State
<1>4. TypeOK'
  <2>1. dropped' \subseteq Slot
    <3>1. tick[h].stage = "fire" => tick[h].todo \subseteq Slot
      BY <1>1, TickShape
    <3> QED BY <1>1, <3>1 DEF Finish, TickFails, TypeOK, history
  <2> QED BY <1>1, <1>2, <1>3, <2>1 DEF TypeOK, State, Entry
<1>5. Quiet
  BY <1>1, <1>2, <1>3, <1>4, Types, CursorInt DEF Quiet
<1> QED BY <1>1, <1>2, <1>5, QuietStep

\* A change of a role's settings saves the state.
LEMMA SetRoleStep == ASSUME IInv, NEW h \in Hosts, SetRole(h) PROVE IInv'
<1>1. TypeOK /\ mem \in State /\ disk \in State
  BY Types DEF IInv
<1>2. /\ h \in up /\ disk' = [disk EXCEPT ![h] = mem[h]]
      /\ UNCHANGED <<clock, lease, up, tick, mem, runs, lost, decided, dropped, faults>>
  BY DEF SetRole, history
<1>3. disk' \in State /\ \A g \in Hosts \ up : disk'[g] = disk[g]
  BY <1>1, <1>2 DEF State
<1>4. TypeOK'
  BY <1>1, <1>2, <1>3 DEF TypeOK, State, Entry
<1>5. Quiet
  BY <1>1, <1>2, <1>3, <1>4, Types, CursorInt DEF Quiet
<1> QED BY <1>2, <1>5, QuietStep

\* A run ends.
LEMMA RunEndsStep == ASSUME IInv, RunEnds PROVE IInv'
<1>1. TypeOK
  BY DEF IInv
<1>2. DOMAIN runs' = DOMAIN runs /\ \A r \in DOMAIN runs : runs'[r] \in {"active"} \cup Outcomes
  BY <1>1 DEF RunEnds, TypeOK
<1>3. UNCHANGED <<clock, lease, up, tick, mem, disk, lost, decided, dropped, faults>>
  BY DEF RunEnds, history
<1>4. TypeOK'
  BY <1>1, <1>2, <1>3 DEF TypeOK
<1>5. Quiet
  BY <1>1, <1>2, <1>3, <1>4, Types, CursorInt DEF Quiet
<1> QED BY <1>3, <1>5, QuietStep

\* Time passes.
LEMMA TimeStep == ASSUME IInv, Time PROVE IInv'
<1>1. TypeOK /\ clock \in Nat
  BY Types DEF IInv
<1>2. UNCHANGED <<up, tick, mem, disk, runs, lost, decided, dropped, faults>> /\ clock' = clock + 1
  BY DEF Time, history
<1>3. TypeOK'
  <2>1. lease' \in [holder : Hosts \cup {NoHost}, left : 0..LeaseTtl]
    <3>1. lease \in [holder : Hosts \cup {NoHost}, left : 0..LeaseTtl]
      BY <1>1 DEF TypeOK
    <3>2. lease.left \in 0..LeaseTtl
      BY <3>1
    <3>3. TimeLeft \in 0..LeaseTtl
      BY <3>2, BoundsAssumption DEF TimeLeft
    <3> QED BY <3>1, <3>3 DEF Time
  <2> QED BY <1>1, <1>2, <2>1, BoundsAssumption DEF TypeOK, Time
<1>4. Quiet
  BY <1>1, <1>2, <1>3, CursorInt DEF Quiet
<1> QED BY <1>2, <1>4, QuietStep

-----------------------------------------------------------------------------
(* Cursors are moved, slots are queued and fired.                           *)

\* A key that is reseeded or due is behind now, and a due slot is the latest one.
LEMMA Behind ==
    ASSUME TypeOK, NEW h \in Hosts, NEW now \in Nat, NEW k \in KeySet
    PROVE  /\ k \in Reseeded(h, now) \cup DueKeys(h, now) => mem[h][k].cursor <= now
           /\ k \in DueKeys(h, now) =>
                /\ mem[h][k].cursor \in Nat
                /\ next_fire(mem[h][k].cursor) <= now
                /\ next_fire(next_fire(mem[h][k].cursor)) > now
<1> DEFINE c == mem[h][k].cursor
<1>1. c \in Int
  BY CursorInt
<1>2. next_fire(c) \in Int /\ next_fire(c) > c
  BY <1>1, NextFire
<1>3. next_fire(next_fire(c)) \in Int /\ next_fire(next_fire(c)) > next_fire(c)
  BY <1>2, NextFire
<1>4. c = NoCursor \/ c \in Nat
  <2>1. mem[h][k] \in Entry
    BY Types DEF State
  <2> QED BY <2>1, BoundsAssumption DEF Entry
<1>5. /\ k \in Reseeded(h, now) <=> c = NoCursor \/ next_fire(next_fire(c)) <= now
      /\ k \in DueKeys(h, now) <=> k \notin Reseeded(h, now) /\ next_fire(c) <= now
  BY DEF Reseeded, DueKeys, is_stale
<1> HIDE DEF c
<1>6. k \in Reseeded(h, now) \cup DueKeys(h, now) => c <= now
  BY <1>1, <1>2, <1>3, <1>5 DEF NoCursor
<1>7. k \in DueKeys(h, now) => c \in Nat /\ next_fire(c) <= now /\ next_fire(next_fire(c)) > now
  BY <1>1, <1>2, <1>3, <1>4, <1>5
<1> QED BY <1>6, <1>7 DEF c

\* The entries of a host when the cursors of some keys are moved to now.
Moved(h, now, K) ==
    [k \in KeySet |-> IF k \in K THEN [mem[h][k] EXCEPT !.cursor = now] ELSE mem[h][k]]

\* They are entries, and the other cursors stay.
LEMMA MovedRow ==
    ASSUME TypeOK, NEW h \in Hosts, NEW now \in 0..MaxClock, NEW K
    PROVE  /\ Moved(h, now, K) \in [KeySet -> Entry]
           /\ \A k \in KeySet :
                 Moved(h, now, K)[k].cursor = IF k \in K THEN now ELSE mem[h][k].cursor
<1> DEFINE row == Moved(h, now, K)
<1>1. \A e \in Entry : [e EXCEPT !.cursor = now] \in Entry
                       /\ [e EXCEPT !.cursor = now].cursor = now
  BY DEF Entry
<1>2. \A k \in KeySet : mem[h][k] \in Entry
  BY Types DEF State
<1>3. \A k \in KeySet : row[k] = IF k \in K THEN [mem[h][k] EXCEPT !.cursor = now] ELSE mem[h][k]
  BY DEF Moved
<1>4. \A k \in KeySet : row[k] \in Entry
                        /\ row[k].cursor = IF k \in K THEN now ELSE mem[h][k].cursor
  BY <1>1, <1>2, <1>3
<1> QED BY <1>4 DEF Moved

\* Reading the schedule moves cursors too.
LEMMA StatusStep == ASSUME IInv, NEW h \in Hosts, Status(h) PROVE IInv'
<1>1. TypeOK /\ mem \in State /\ disk \in State /\ clock \in 0..MaxClock /\ clock \in Nat
  BY Types DEF IInv
<1> DEFINE row == Moved(h, clock, Reseeded(h, clock))
<1>2. /\ h \in up /\ mem' = [mem EXCEPT ![h] = row] /\ disk' = [disk EXCEPT ![h] = mem'[h]]
      /\ UNCHANGED <<clock, lease, up, tick, runs, lost, decided, dropped, faults>>
  BY DEF Status, Moved, history
<1>3. /\ row \in [KeySet -> Entry]
      /\ \A k \in KeySet : row[k].cursor = IF k \in Reseeded(h, clock) THEN clock
                                                                     ELSE mem[h][k].cursor
  BY <1>1, MovedRow
<1> HIDE DEF row
<1>4. mem' \in State /\ disk' \in State /\ \A g \in Hosts \ up : disk'[g] = disk[g]
  BY <1>1, <1>2, <1>3 DEF State
<1>5. TypeOK'
  BY <1>1, <1>2, <1>4 DEF TypeOK, State, Entry
<1>6. ASSUME NEW g \in Hosts, NEW k \in KeySet PROVE mem[g][k].cursor <= mem'[g][k].cursor
  <2>1. mem[g][k].cursor \in Int
    BY <1>1, CursorInt
  <2>2. CASE g # h
    BY <1>1, <1>2, <2>1, <2>2 DEF State
  <2>3. CASE g = h
    <3>1. mem'[h][k] = row[k]
      BY <1>1, <1>2 DEF State
    <3>2. k \in Reseeded(h, clock) => mem[h][k].cursor <= clock
      BY <1>1, Behind
    <3> QED BY <1>3, <2>1, <2>3, <3>1, <3>2
  <2> QED BY <2>2, <2>3
<1>7. Quiet
  BY <1>1, <1>2, <1>4, <1>5, <1>6 DEF Quiet
<1> QED BY <1>2, <1>7, QuietStep

\* The due slots are queued: each the latest, and later than every run of its key that
\* no crash lost, because the cursor it is computed from is.
LEMMA QueueStep ==
    ASSUME IInv, NEW h \in Hosts, NEW blocked, NEW heldback, Queue(h, blocked, heldback)
    PROVE  IInv'
<1> DEFINE now    == tick[h].now
           seeded == Reseeded(h, now)
           due    == DueKeys(h, now) \ heldback
           skips  == {k \in due : k \in blocked \/ ActiveRun(h, k)}
           slots(K) == {[key |-> k, slot |-> next_fire(mem[h][k].cursor)] : k \in K}
           fires  == slots(due \ skips)
           moved  == Moved(h, now, seeded \cup due)
           walked == {k \in KeySet : \E i, j \in DOMAIN Keys :
                                        k = Keys[i] /\ i <= j /\ Keys[j] \in seeded}
           part   == [k \in KeySet |-> IF k \in walked THEN moved[k] ELSE mem[h][k]]
           new    == IF fires = {} THEN Idle ELSE [stage |-> "fire", now |-> now, todo |-> fires]
<1>1. /\ TypeOK /\ mem \in State /\ disk \in State /\ clock \in Nat
      /\ tick \in [Hosts -> {Idle} \cup Ticking] /\ TickInOrder(h)
  BY Types DEF IInv
<1>2. /\ h \in up /\ tick[h].stage = "queue" /\ mem' = [mem EXCEPT ![h] = moved]
      /\ disk' \in {[disk EXCEPT ![h] = moved], [disk EXCEPT ![h] = part], disk}
      /\ tick' = [tick EXCEPT ![h] = new]
      /\ decided' = decided \cup slots(skips)
      /\ UNCHANGED <<clock, lease, up, runs, lost, dropped, faults>>
  BY DEF Queue, Moved
<1>3. tick[h] # Idle /\ now \in 0..MaxClock /\ now \in Nat /\ now <= clock
  <2>1. tick[h] # Idle /\ now \in 0..MaxClock
    BY <1>1, <1>2, TickShape
  <2> QED BY <1>1, <2>1, BoundsAssumption DEF TickInOrder
<1>4. \A r \in DOMAIN runs : r.host = h => r.at <= now
  BY <1>1, <1>3 DEF TickInOrder
<1>5. /\ moved \in [KeySet -> Entry]
      /\ \A k \in KeySet : moved[k].cursor = IF k \in seeded \cup due THEN now
                                                                   ELSE mem[h][k].cursor
  BY <1>1, <1>3, MovedRow
<1>6. \A k \in KeySet : /\ k \in seeded \cup due => mem[h][k].cursor <= now
                        /\ k \in due => /\ mem[h][k].cursor \in Nat
                                        /\ next_fire(mem[h][k].cursor) <= now
                                        /\ next_fire(next_fire(mem[h][k].cursor)) > now
  BY <1>1, <1>3, Behind
<1>7. \A item \in fires : \E k \in due : item = [key |-> k, slot |-> next_fire(mem[h][k].cursor)]
  OBVIOUS
<1>8. due \subseteq KeySet /\ skips \subseteq due
  BY DEF DueKeys
<1> HIDE DEF now, seeded, due, skips, moved, walked
<1>9. part \in [KeySet -> Entry]
  BY <1>1, <1>5 DEF State
<1> HIDE DEF part
<1>10. mem' \in State /\ disk' \in State /\ \A g \in Hosts \ up : disk'[g] = disk[g]
  BY <1>1, <1>2, <1>5, <1>9 DEF State
<1>11. /\ \A item \in fires : /\ item \in Slot /\ item.key \in due
                              /\ item.slot = next_fire(mem[h][item.key].cursor)
       /\ slots(skips) \subseteq Slot
  <2> SUFFICES ASSUME NEW k \in due
               PROVE  next_fire(mem[h][k].cursor) \in Slots
    BY <1>7, <1>8 DEF Slot
  <2>1. mem[h][k].cursor \in Nat /\ next_fire(mem[h][k].cursor) <= now
    BY <1>6, <1>8
  <2>2. /\ next_fire(mem[h][k].cursor) \in Int /\ next_fire(mem[h][k].cursor) % Period = 0
        /\ next_fire(mem[h][k].cursor) > mem[h][k].cursor
    BY <2>1, NextFire
  <2> QED BY <1>3, <2>1, <2>2, BoundsAssumption DEF Slots
<1>12. \/ new = Idle
       \/ new \in Ticking /\ new # Idle /\ new.stage = "fire" /\ new.now = now /\ new.todo = fires
  BY <1>3, <1>11 DEF Ticking, Idle
<1> HIDE DEF new, slots, fires
<1>13. TypeOK'
  <2>1. tick' \in [Hosts -> {Idle} \cup Ticking]
    BY <1>1, <1>2, <1>12
  <2>2. decided' \subseteq Slot
    BY <1>1, <1>2, <1>11 DEF TypeOK
  <2> QED BY <1>1, <1>2, <1>10, <2>1, <2>2 DEF TypeOK, State, Entry, Ticking
<1>14. ASSUME NEW g \in Hosts, NEW k \in KeySet PROVE mem[g][k].cursor <= mem'[g][k].cursor
  <2>1. mem[g][k].cursor \in Int
    BY <1>1, CursorInt
  <2>2. CASE g # h
    BY <1>1, <1>2, <2>1, <2>2 DEF State
  <2>3. CASE g = h
    <3>1. mem'[h][k] = moved[k]
      BY <1>1, <1>2 DEF State
    <3> QED BY <1>3, <1>5, <1>6, <2>1, <2>3, <3>1
  <2> QED BY <2>2, <2>3
<1>15. Quiet
  BY <1>1, <1>2, <1>10, <1>13, <1>14 DEF Quiet
<1>16. HistoryInOrder' /\ CursorsCover'
  BY <1>15, HistoryKept, CursorsKept DEF IInv, Quiet
<1>17. ASSUME NEW g \in Hosts PROVE TickInOrder(g)'
  <2>1. CASE tick'[g] \in {tick[g], Idle}
    BY <1>15, <2>1, TickKept DEF IInv
  <2>2. CASE g = h /\ tick'[g] = new /\ new # Idle
    <3>1. ASSUME NEW item \in fires
          PROVE  /\ item.slot <= now /\ next_fire(item.slot) > now
                 /\ now <= mem'[h][item.key].cursor
                 /\ \A r \in DOMAIN runs \ lost :
                       r.host = h /\ r.key = item.key /\ r.at < now => r.at < item.slot
      <4> DEFINE k == item.key
      <4>1. k \in due /\ k \in KeySet /\ item.slot = next_fire(mem[h][k].cursor)
        BY <1>8, <1>11
      <4>2. item.slot <= now /\ next_fire(item.slot) > now
        BY <1>6, <4>1
      <4>3. mem'[h][k] = moved[k] /\ moved[k].cursor = now
        BY <1>1, <1>2, <1>5, <4>1 DEF State
      <4>4. ASSUME NEW r \in DOMAIN runs \ lost, r.host = h, r.key = k
            PROVE  r.at < item.slot
        <5>1. r.at <= mem[h][k].cursor
          BY <1>2, <4>4 DEF IInv, CursorsCover
        <5>2. r.at \in Nat
          BY <1>1, Types, RunShape
        <5>3. /\ mem[h][k].cursor \in Nat /\ next_fire(mem[h][k].cursor) \in Int
              /\ next_fire(mem[h][k].cursor) > mem[h][k].cursor
          BY <1>6, <4>1, NextFire
        <5> QED BY <4>1, <5>1, <5>2, <5>3
      <4> QED BY <1>3, <4>2, <4>3, <4>4
    <3> QED BY <1>2, <1>3, <1>4, <1>12, <2>2, <3>1 DEF TickInOrder
  <2> QED BY <1>1, <1>2, <2>1, <2>2
<1> QED BY <1>13, <1>16, <1>17 DEF IInv

\* A slot is fired: its run is the latest of its key on the host.
LEMMA FireStep ==
    ASSUME IInv, NEW h \in Hosts, NEW item \in tick[h].todo, NEW submitted \in BOOLEAN,
           Fire(h, item, submitted)
    PROVE  IInv'
<1> DEFINE run == [host |-> h, key |-> item.key, slot |-> item.slot, at |-> tick[h].now]
           now == tick[h].now
           left == [tick[h] EXCEPT !.todo = @ \ {item}]
<1>1. /\ TypeOK /\ mem \in State /\ clock \in Nat /\ DOMAIN runs \subseteq RunId
      /\ tick \in [Hosts -> {Idle} \cup Ticking] /\ TickInOrder(h)
  BY Types DEF IInv
<1>2. /\ h \in up /\ tick[h].stage = "fire" /\ tick' = [tick EXCEPT ![h] = left]
      /\ \/ /\ runs' = [r \in DOMAIN runs \cup {run} |-> IF r = run THEN "active" ELSE runs[r]]
            /\ mem' = [mem EXCEPT ![h][item.key] = record_scheduled_fire(@, item, run)]
         \/ UNCHANGED <<runs, mem>>
      /\ decided' = decided \cup {item}
      /\ UNCHANGED <<clock, lease, up, disk, lost, dropped, faults>>
  BY <1>1 DEF Fire
<1>3. /\ tick[h] \in Ticking /\ tick[h] # Idle /\ now \in 0..MaxClock /\ now \in Nat
      /\ item \in Slot /\ item.key \in KeySet /\ item.slot \in Slots
  <2>1. tick[h] \in Ticking /\ tick[h] # Idle
    BY <1>1, <1>2 DEF Idle
  <2> QED BY <2>1, BoundsAssumption DEF Ticking, Slot
<1>4. /\ now <= clock /\ item.slot <= now /\ next_fire(item.slot) > now
      /\ now <= mem[h][item.key].cursor
      /\ \A r \in DOMAIN runs : r.host = h => r.at <= now
      /\ \A r \in DOMAIN runs \ lost :
            r.host = h /\ r.key = item.key /\ r.at < now => r.at < item.slot
  BY <1>1, <1>2, <1>3 DEF TickInOrder
<1>5. /\ run \in RunId /\ run.host = h /\ run.key = item.key /\ run.slot = item.slot
      /\ run.at = now
  BY <1>3 DEF RunId
<1>6. /\ left \in Ticking /\ left # Idle /\ left.stage = "fire" /\ left.now = now
      /\ left.todo \subseteq tick[h].todo
  BY <1>2, <1>3 DEF Ticking, Idle
<1> HIDE DEF run, now, left
<1>7. /\ DOMAIN runs' = DOMAIN runs \/ DOMAIN runs' = DOMAIN runs \cup {run}
      /\ \A r \in DOMAIN runs' : runs'[r] \in {"active"} \cup Outcomes
  BY <1>1, <1>2 DEF TypeOK
<1>8. mem' \in State /\ \A g \in Hosts, k \in KeySet : mem'[g][k].cursor = mem[g][k].cursor
  <2>1. CASE UNCHANGED mem
    BY <1>1, <2>1
  <2>2. CASE mem' = [mem EXCEPT ![h][item.key] = record_scheduled_fire(@, item, run)]
    <3> DEFINE e == [mem[h][item.key] EXCEPT !.pending = run]
    <3>1. mem[h][item.key] \in Entry
      BY <1>1, <1>3 DEF State
    <3>2. e \in Entry /\ e.cursor = mem[h][item.key].cursor
      BY <1>5, <3>1 DEF Entry
    <3>3. mem' = [mem EXCEPT ![h] = [mem[h] EXCEPT ![item.key] = e]]
      BY <1>1, <2>2 DEF record_scheduled_fire
    <3> HIDE DEF e
    <3> QED BY <1>1, <1>3, <3>2, <3>3 DEF State
  <2> QED BY <1>2, <2>1, <2>2
<1>9. TypeOK'
  <2>1. tick' \in [Hosts -> {Idle} \cup Ticking]
    BY <1>1, <1>2, <1>6
  <2>2. decided' \subseteq Slot
    BY <1>1, <1>2, <1>3 DEF TypeOK
  <2> QED BY <1>1, <1>2, <1>5, <1>7, <1>8, <2>1, <2>2 DEF TypeOK, State, Entry, Ticking
<1>10. HistoryInOrder'
  <2>1. ASSUME NEW r \in DOMAIN runs'
        PROVE  r.slot <= r.at /\ r.at <= clock /\ next_fire(r.slot) > r.at
    BY <1>4, <1>5, <1>7 DEF IInv, HistoryInOrder
  <2>2. ASSUME NEW r \in DOMAIN runs', NEW q \in DOMAIN runs',
               r.host = q.host, r.key = q.key, r.at < q.at, r \notin lost
        PROVE  r.at < q.slot
    <3>1. r.at \in Nat /\ q.at \in Nat
      BY <1>1, <1>5, <1>7, RunShape
    <3>2. CASE r \in DOMAIN runs /\ q \in DOMAIN runs
      BY <2>2, <3>2 DEF IInv, HistoryInOrder
    <3>3. CASE r \in DOMAIN runs /\ q = run
      BY <1>4, <1>5, <2>2, <3>3
    <3>4. CASE r = run
      BY <1>3, <1>4, <1>5, <1>7, <2>2, <3>1, <3>4
    <3> QED BY <1>7, <3>2, <3>3, <3>4
  <2> QED BY <1>2, <2>1, <2>2 DEF HistoryInOrder
<1>11. CursorsCover'
  <2> SUFFICES ASSUME NEW r \in DOMAIN runs' \ lost
               PROVE  /\ r.host \in up => r.at <= mem'[r.host][r.key].cursor
                      /\ r.host \notin up => r.at <= disk[r.host][r.key].cursor
    BY <1>2 DEF CursorsCover
  <2>1. r.host \in Hosts /\ r.key \in KeySet
    BY <1>1, <1>5, <1>7, RunShape
  <2>2. CASE r \in DOMAIN runs
    BY <1>8, <2>1, <2>2 DEF IInv, CursorsCover
  <2>3. CASE r = run
    BY <1>2, <1>3, <1>4, <1>5, <1>8, <2>3
  <2> QED BY <1>7, <2>2, <2>3
<1>12. ASSUME NEW g \in Hosts PROVE TickInOrder(g)'
  <2>1. TickInOrder(g)
    BY DEF IInv
  <2>2. CASE g = h
    <3>1. tick'[h] = left
      BY <1>1, <1>2
    <3>2. \A r \in DOMAIN runs' : r.host = h => r.at <= now
      BY <1>3, <1>4, <1>5, <1>7
    <3>3. ASSUME NEW i \in left.todo
          PROVE  /\ i.slot <= now /\ next_fire(i.slot) > now
                 /\ now <= mem'[h][i.key].cursor
                 /\ \A r \in DOMAIN runs' \ lost :
                       r.host = h /\ r.key = i.key /\ r.at < now => r.at < i.slot
      <4>1. i \in tick[h].todo /\ i.key \in KeySet
        BY <1>3, <1>6 DEF Ticking, Slot
      <4>2. /\ i.slot <= now /\ next_fire(i.slot) > now /\ now <= mem[h][i.key].cursor
            /\ \A r \in DOMAIN runs \ lost :
                  r.host = h /\ r.key = i.key /\ r.at < now => r.at < i.slot
        BY <1>2, <2>1, <2>2, <4>1 DEF TickInOrder, now
      <4> QED BY <1>3, <1>5, <1>7, <1>8, <4>1, <4>2
    <3> QED BY <1>2, <1>4, <1>6, <2>2, <3>1, <3>2, <3>3 DEF TickInOrder
  <2>3. CASE g # h
    <3>1. tick'[g] = tick[g] /\ \A r \in DOMAIN runs' : r.host = g => r \in DOMAIN runs
      BY <1>1, <1>2, <1>5, <1>7, <2>3
    <3>2. CASE tick[g] = Idle
      BY <3>1, <3>2 DEF TickInOrder, Idle
    <3>3. CASE tick[g] # Idle
      <4>1. \A i \in tick[g].todo : mem'[g][i.key].cursor = mem[g][i.key].cursor
        <5>1. tick[g].todo \subseteq Slot
          BY <1>1, <3>3, TickShape
        <5> QED BY <1>8, <5>1 DEF Slot
      <4> QED BY <1>2, <2>1, <3>1, <3>3, <4>1 DEF TickInOrder
    <3> QED BY <3>2, <3>3
  <2> QED BY <2>2, <2>3
<1> QED BY <1>9, <1>10, <1>11, <1>12 DEF IInv

-----------------------------------------------------------------------------
(* Hosts stop and start.                                                    *)

\* A host stops: the runs that its file does not show are lost.
LEMMA CrashStep == ASSUME IInv, NEW h \in Hosts, Crash(h) PROVE IInv'
<1>1. /\ TypeOK /\ disk \in State /\ clock \in Nat /\ DOMAIN runs \subseteq RunId
      /\ tick \in [Hosts -> {Idle} \cup Ticking]
  BY Types DEF IInv
<1>2. /\ up' = up \ {h} /\ tick' = [tick EXCEPT ![h] = Idle]
      /\ lost' = lost \cup {r \in DOMAIN runs : r.host = h /\ disk[h][r.key].cursor < r.at}
      /\ UNCHANGED <<clock, lease, mem, disk, runs, decided>>
      /\ faults' \in 0..MaxFaults
  BY <1>1, BoundsAssumption DEF Crash, TypeOK
<1>3. TypeOK'
  <2>1. dropped' \subseteq Slot
    <3>1. tick[h].stage = "fire" => tick[h].todo \subseteq Slot
      BY <1>1, TickShape
    <3> QED BY <1>1, <3>1 DEF Crash, TypeOK
  <2> QED BY <1>1, <1>2, <2>1 DEF TypeOK
<1>4. HistoryInOrder'
  BY <1>1, <1>2, <1>3, HistoryKept DEF IInv
<1>5. CursorsCover'
  <2> SUFFICES ASSUME NEW r \in DOMAIN runs \ lost'
               PROVE  /\ r.host \in up' => r.at <= mem[r.host][r.key].cursor
                      /\ r.host \notin up' => r.at <= disk[r.host][r.key].cursor
    BY <1>2 DEF CursorsCover
  <2>1. r.host \in Hosts /\ r.key \in KeySet /\ r.at \in Nat
    BY <1>1, RunShape
  <2>2. disk[r.host][r.key].cursor \in Int
    BY <1>1, <2>1, CursorInt
  <2>3. r.host = h => r.at <= disk[r.host][r.key].cursor
    BY <1>2, <2>1, <2>2
  <2> QED BY <1>2, <2>3 DEF IInv, CursorsCover
<1>6. ASSUME NEW g \in Hosts PROVE TickInOrder(g)'
  <2>1. CASE g = h
    BY <1>1, <1>2, <2>1 DEF TickInOrder, Idle
  <2>2. CASE g # h
    <3>1. TickInOrder(g) /\ tick'[g] = tick[g]
      BY <1>1, <1>2, <2>2 DEF IInv
    <3> QED BY <1>2, <2>2, <3>1 DEF TickInOrder
  <2> QED BY <2>1, <2>2
<1> QED BY <1>3, <1>4, <1>5, <1>6 DEF IInv

\* A host starts with the cursors of its file.
LEMMA StartStep == ASSUME IInv, NEW h \in Hosts, Start(h) PROVE IInv'
<1>1. /\ TypeOK /\ mem \in State /\ disk \in State /\ clock \in Nat
      /\ DOMAIN runs \subseteq RunId
  BY Types DEF IInv
<1>2. /\ h \notin up /\ up' = up \cup {h} /\ mem' = [mem EXCEPT ![h] = disk[h]]
      /\ UNCHANGED <<clock, lease, tick, disk, lost, decided, dropped, faults>>
      /\ DOMAIN runs' = DOMAIN runs
      /\ \A r \in DOMAIN runs' : runs'[r] \in {"active"} \cup Outcomes
  BY <1>1 DEF Start, TypeOK, Outcomes, history
<1>3. /\ mem' \in State /\ mem'[h] = disk[h] /\ \A g \in Hosts \ {h} : mem'[g] = mem[g]
  BY <1>1, <1>2 DEF State
<1>4. TypeOK'
  BY <1>1, <1>2, <1>3 DEF TypeOK, State, Entry
<1>5. HistoryInOrder'
  BY <1>1, <1>2, <1>4, HistoryKept DEF IInv
<1>6. CursorsCover'
  <2> SUFFICES ASSUME NEW r \in DOMAIN runs \ lost
               PROVE  /\ r.host \in up' => r.at <= mem'[r.host][r.key].cursor
                      /\ r.host \notin up' => r.at <= disk[r.host][r.key].cursor
    BY <1>2 DEF CursorsCover
  <2>1. r.host \in Hosts
    BY <1>1, RunShape
  <2> QED BY <1>2, <1>3, <2>1 DEF IInv, CursorsCover
<1>7. ASSUME NEW g \in Hosts PROVE TickInOrder(g)'
  <2>1. TickInOrder(g)
    BY DEF IInv
  <2>2. CASE g = h
    BY <1>2, <2>1, <2>2 DEF TickInOrder, Idle
  <2>3. CASE g # h
    BY <1>2, <1>3, <2>1, <2>3 DEF TickInOrder
  <2> QED BY <2>2, <2>3
<1> QED BY <1>4, <1>5, <1>6, <1>7 DEF IInv

-----------------------------------------------------------------------------
(* The theorems.                                                            *)

\* The schedulers start without cursors and without runs.
LEMMA InitIInv == Init => IInv
<1> SUFFICES ASSUME Init PROVE IInv
  OBVIOUS
<1>1. DOMAIN runs = {}
  BY DEF Init
<1>2. Fresh \in Entry
  BY DEF Fresh, Entry
<1>3. mem \in State /\ disk \in State
  BY <1>2 DEF Init, State
<1>4. TypeOK
  BY <1>1, <1>3, BoundsAssumption DEF Init, TypeOK, State, Entry
<1>5. \A h \in Hosts : TickInOrder(h)
  BY DEF Init, TickInOrder, Idle
<1> QED BY <1>1, <1>4, <1>5 DEF IInv, HistoryInOrder, CursorsCover

\* Every step keeps the schedulers in order.
LEMMA NextIInv == IInv /\ [Next]_vars => IInv'
<1> SUFFICES ASSUME IInv, [Next]_vars PROVE IInv'
  OBVIOUS
<1>1. ASSUME NEW h \in Hosts, Tick(h) PROVE IInv'
  BY <1>1, TickGrantedStep, TickDeniedStep, QueueStep, FireStep, FinishStep DEF Tick, FireHead
<1>2. ASSUME NEW h \in Hosts, TickFails(h) \/ Status(h) \/ SetRole(h) \/ Crash(h) \/ Start(h)
      PROVE  IInv'
  BY <1>2, FinishStep, StatusStep, SetRoleStep, CrashStep, StartStep
<1>3. CASE RunEnds \/ Time
  BY <1>3, RunEndsStep, TimeStep
<1>4. CASE UNCHANGED vars
  BY <1>4 DEF vars, history, IInv, TypeOK, HistoryInOrder, CursorsCover, TickInOrder
<1> QED BY <1>1, <1>2, <1>3, <1>4 DEF Next

\* The inductive invariant holds throughout.
THEOREM Invariance == Spec => []IInv
  BY InitIInv, NextIInv, PTL DEF Spec

\* Every variable keeps its type; the slots on a tick's list are cron slots (next_fire).
THEOREM TypeCorrect == Spec => []TypeOK
<1>1. IInv => TypeOK
  BY DEF IInv
<1> QED BY Invariance, <1>1, PTL

\* A tick fires no slot but the latest, whatever the cursor it finds (_is_stale).
THEOREM LatestSlotOnly == Spec => []FiresLatestSlot
<1>1. IInv => FiresLatestSlot
  BY DEF IInv, HistoryInOrder, FiresLatestSlot
<1> QED BY Invariance, <1>1, PTL

\* A host fires a slot again only after a crash that lost the moved cursor
\* (queue_due_slot moves it before the fire, _save_state writes it after).
THEOREM RefiresAreExplained == Spec => []RefiredOnlyIfUnsaved
<1>1. IInv => RefiredOnlyIfUnsaved
  <2> SUFFICES ASSUME IInv, NEW r \in DOMAIN runs, NEW q \in DOMAIN runs,
                      r.host = q.host, r.key = q.key, r.slot = q.slot, r.at < q.at,
                      r \notin lost
               PROVE  FALSE
    BY DEF RefiredOnlyIfUnsaved
  <2>1. r.slot <= r.at /\ r.at < q.slot
    BY DEF IInv, HistoryInOrder
  <2>2. r.slot \in Nat /\ r.at \in Nat
    <3>1. r \in RunId /\ MaxClock \in Nat
      BY Types DEF IInv
    <3> QED BY <3>1, RunShape
  <2> QED BY <2>1, <2>2
<1> QED BY Invariance, <1>1, PTL

=============================================================================
