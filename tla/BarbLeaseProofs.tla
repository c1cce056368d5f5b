-------------------------- MODULE BarbLeaseProofs --------------------------
(***************************************************************************)
(* BarbLease for every set of seats, every lease duration, clock and mode: *)
(* the epochs of the lease and of the task are fencing tokens, a claimed   *)
(* write is never overtaken, a live lease is never stolen, and the row     *)
(* implements the fenced lease of FencedLease.                             *)
(*                                                                         *)
(* All of it rests on the lock: either the script that applies relayed     *)
(* requests never runs between a SELECT and its UPDATE, or it has no       *)
(* sender to apply requests for.  The run MCBarbLeaseScript shows that     *)
(* without this the claims fail.                                           *)
(***************************************************************************)
EXTENDS BarbLease, TLAPS

\* The lock covers everybody who reads and writes the row.
LockCovers == CliOverlaps => RemoteHolders = {}

-----------------------------------------------------------------------------
(* The inductive invariant.                                                 *)

\* The types without the bounds that exist for TLC only.
LeaseRow == [holder : Holders \cup {NoHolder}, epoch : Nat, expires : Nat,
             released : BOOLEAN, turnover : Nat]
LeaseCall == [op : Ops, via : {"server", "cli"}, now : Nat,
              stage : {"waiting", "fenced", "read"}, epoch : Nat,
              opts : SUBSET {"force", "turnover", "holder", "relay"}, expected : Nat,
              row : LeaseRow, task : Nat]

Typed ==
    /\ clock \in Nat
    /\ row \in LeaseRow
    /\ task \in Nat
    /\ call \in [Holders -> LeaseCall \cup {Idle}]
    /\ claim \in [Holders -> Nat]
    /\ written \in Nat
    /\ grants \subseteq [epoch : Nat, holder : Holders]
    /\ winners \subseteq [epoch : Nat, holder : Holders]

\* The call holds the lock: it is between its check or SELECT and its answer.
Busy(h) == call[h] # Idle /\ call[h].stage # "waiting"

\* One call at a time holds the lock, and the script's only if it takes part in it.
Serialised ==
    /\ \A g, h \in Holders : Busy(g) /\ Busy(h) => g = h
    /\ \A h \in Holders : call[h] # Idle => ~CliOverlaps \/ call[h].via = "server"

\* What a SELECT returned is still what is stored, and "now" is past.
ReadsAreFresh ==
    \A h \in Holders : call[h] # Idle =>
        /\ call[h].now <= clock
        /\ call[h].stage = "read" => call[h].row = row /\ call[h].task = task

\* A row without an epoch, and a released one, has no holder.
RowShape == row.epoch = 0 \/ row.released => row.holder = NoHolder

\* No grant, claimed write or handoff is ahead of the stored epochs, and a grant
\* at the row's epoch is the holder's, or the lease is released since.
HistoryIsBehind ==
    /\ \A a \in grants : /\ a.epoch <= row.epoch
                         /\ a.epoch = row.epoch => row.holder \in {a.holder, NoHolder}
    /\ \A a \in winners : a.epoch < task
    /\ written <= row.epoch

\* Whoever holds the lease was granted its epoch.
HolderWasGranted ==
    row.holder # NoHolder => [epoch |-> row.epoch, holder |-> row.holder] \in grants

\* A write gets the lock at once: from its check on it is never waiting.
WritesHoldLock ==
    \A h \in Holders : call[h].op \in Writes => call[h].stage # "waiting"

IInv == /\ Typed /\ Serialised /\ WritesHoldLock /\ ReadsAreFresh /\ RowShape /\ HistoryIsBehind
        /\ HolderWasGranted /\ NoTakeoverDuringWrite /\ GrantedOnce

-----------------------------------------------------------------------------
(* Taking the lock and reading.                                             *)

\* The empty store satisfies the invariant.
LEMMA IInit == Init => IInv
<1> SUFFICES ASSUME Init PROVE IInv
  OBVIOUS
<1>1. Typed
  BY DEF Init, Typed, NoRow, NoTurnover, LeaseRow
<1>2. \A h \in Holders : call[h] = Idle
  BY DEF Init
<1>3. Serialised /\ ReadsAreFresh
  BY <1>2 DEF Serialised, ReadsAreFresh, Busy
<1>4. RowShape /\ HistoryIsBehind /\ HolderWasGranted /\ GrantedOnce
  BY DEF Init, RowShape, HistoryIsBehind, HolderWasGranted, GrantedOnce, NoRow
<1>5. NoTakeoverDuringWrite /\ WritesHoldLock
  BY <1>2 DEF NoTakeoverDuringWrite, WritesHoldLock, Idle, Writes
<1> QED BY <1>1, <1>3, <1>4, <1>5 DEF IInv

\* Where the lock covers everybody, a call that gets it finds nobody else in it.
LEMMA LockExcludes ==
    ASSUME Typed, Serialised, NEW h \in Holders, NEW via \in {"server", "cli"},
           ~CliOverlaps \/ via = "server", LockFree(h, via)
    PROVE  \A g \in Holders \ {h} : ~Busy(g)
  BY DEF Serialised, LockFree, Busy, Excludes

\* A request that gets the lock keeps the invariant, if a claimed write has
\* passed the fence.
LEMMA EnterKeeps ==
    ASSUME IInv, NEW h \in Holders, NEW op \in Ops, NEW via \in {"server", "cli"},
           NEW stage \in {"waiting", "fenced", "read"}, NEW now \in Nat, now <= clock,
           NEW epoch \in Nat, NEW opts \in SUBSET {"force", "turnover", "holder", "relay"},
           NEW expected \in Nat,
           ~CliOverlaps \/ via = "server",
           op \in Writes => stage # "waiting",
           op \in Writes /\ epoch # 0 =>
             /\ row.epoch = epoch
             /\ row.holder # NoHolder /\ CallerOf[row.holder] = CallerOf[h],
           Enter(h, op, via, stage, now, epoch, opts, expected)
    PROVE  IInv'
<1> DEFINE c == [op |-> op, via |-> via, stage |-> stage, now |-> now, epoch |-> epoch,
                 opts |-> opts, expected |-> expected,
                 row |-> IF stage = "read" THEN row ELSE NoRow,
                 task |-> IF stage = "read" THEN task ELSE 1]
<1>1. /\ call' = [call EXCEPT ![h] = c]
      /\ UNCHANGED <<clock, row, task, claim, written, grants, winners>>
  BY DEF Enter, history
<1>2. c \in LeaseCall
  BY DEF IInv, Typed, LeaseCall, LeaseRow, NoRow, NoTurnover
<1>3. \A g \in Holders : call'[g] = IF g = h THEN c ELSE call[g]
  BY <1>1 DEF IInv, Typed
<1>4. Typed'
  BY <1>1, <1>2 DEF IInv, Typed
<1>5. Serialised'
  <2>1. \A g \in Holders \ {h} : ~Busy(g)
    BY LockExcludes DEF Enter, IInv
  <2> QED BY <1>3, <2>1 DEF Serialised, Busy, IInv
<1>6. ReadsAreFresh'
  BY <1>1, <1>3 DEF ReadsAreFresh, IInv
<1>7. NoTakeoverDuringWrite' /\ WritesHoldLock'
  BY <1>1, <1>3 DEF NoTakeoverDuringWrite, WritesHoldLock, Claimed, IInv
<1>8. (RowShape /\ HistoryIsBehind /\ HolderWasGranted /\ GrantedOnce)'
  BY <1>1 DEF RowShape, HistoryIsBehind, HolderWasGranted, GrantedOnce, IInv
<1> QED BY <1>4, <1>5, <1>6, <1>7, <1>8 DEF IInv

\* So do the writes of the fence, with and without a claim.
LEMMA WriteArgsKeeps ==
    ASSUME IInv, NEW h \in Holders, NEW stage \in {"fenced", "read"}, NEW epoch \in Nat,
           NEW opts \in SUBSET {"force", "turnover", "holder", "relay"},
           epoch # 0 =>
             /\ row.epoch = epoch
             /\ row.holder # NoHolder /\ CallerOf[row.holder] = CallerOf[h],
           WriteArgs(h, stage, epoch, opts)
    PROVE  IInv'
<1>1. clock \in Nat /\ TaskEpochs \subseteq Nat /\ 0 \in Nat
  BY BoundsAssumption DEF IInv, Typed, TaskEpochs
<1>2. CASE \E op \in {"turnover", "upsert"} :
             Enter(h, op, "server", stage, clock, epoch, opts, 0)
  BY <1>1, <1>2, EnterKeeps DEF Ops, Writes
<1>3. CASE \E x \in TaskEpochs :
             Enter(h, "handoff", "server", stage, clock, epoch, opts, x)
  BY <1>1, <1>3, EnterKeeps DEF Ops, Writes
<1> QED BY <1>2, <1>3 DEF WriteArgs

\* Every request keeps the invariant when it gets the lock.
LEMMA RequestKeeps ==
    ASSUME IInv, LockCovers, NEW h \in Holders,
           \/ Checkout(h) \/ Heartbeat(h) \/ Release(h) \/ UnclaimedWrite(h)
           \/ Fence(h) \/ Ensure(h) \/ Send(h) \/ Remote(h)
    PROVE  IInv'
<1>1. /\ \A now \in Nows : now \in Nat /\ now <= clock
      /\ \A e \in Epochs : e \in Nat
      /\ row.epoch \in Nat
  BY BoundsAssumption DEF IInv, Typed, Nows, Epochs, LeaseRow
<1>2. {"checkout", "heartbeat", "release"} \subseteq Ops \ Writes
  BY DEF Ops, Writes
<1>3. CASE Checkout(h)
  BY <1>1, <1>2, <1>3, EnterKeeps DEF Checkout
<1>4. CASE Heartbeat(h)
  BY <1>1, <1>2, <1>4, EnterKeeps DEF Heartbeat
<1>5. CASE Release(h)
  BY <1>1, <1>2, <1>5, EnterKeeps DEF Release
<1>6. CASE UnclaimedWrite(h)
  BY <1>6, WriteArgsKeeps DEF UnclaimedWrite
<1>7. CASE Fence(h)
  <2>1. PICK e \in Epochs, opts \in SUBSET {"holder"} :
          AssertLeaseClaim(h, e, opts, clock) /\ WriteArgs(h, "fenced", e, opts)
    BY <1>7 DEF Fence
  <2>2. row.epoch = e /\ row.holder # NoHolder /\ CallerOf[row.holder] = CallerOf[h]
    BY <2>1 DEF AssertLeaseClaim
  <2> QED BY <1>1, <2>1, <2>2, WriteArgsKeeps
<1>8. CASE Ensure(h)
  <2>1. CASE UNCHANGED <<clock, row, task, call, history>> /\ claim' = [claim EXCEPT ![h] = 0]
    BY <2>1 DEF IInv, Typed, Serialised, Busy, ReadsAreFresh, RowShape, HistoryIsBehind,
                HolderWasGranted, WritesHoldLock, NoTakeoverDuringWrite, Claimed, GrantedOnce, history
  <2> QED BY <1>1, <1>2, <1>8, <2>1, EnterKeeps DEF Ensure
<1>10. CASE Send(h)
  <2>1. PICK now \in Nows : /\ AssertLeaseClaim(h, claim[h], {}, now)
                             /\ Enter(h, "send", "server", "read", clock, claim[h], {}, 0)
    BY <1>10 DEF Send
  <2>2. row.epoch = claim[h] /\ row.holder # NoHolder /\ CallerOf[row.holder] = CallerOf[h]
    BY <2>1 DEF AssertLeaseClaim
  <2>3. clock \in Nat /\ clock <= clock /\ claim[h] \in Nat /\ "send" \in Ops \cap Writes
    BY DEF IInv, Typed, Ops, Writes
  <2> QED BY <2>1, <2>2, <2>3, EnterKeeps
<1>9. CASE Remote(h)
  <2>1. ~CliOverlaps
    BY <1>9, ModeAssumption DEF Remote, LockCovers
  <2> QED BY <1>1, <1>2, <1>9, <2>1, EnterKeeps DEF Remote
<1> QED BY <1>3, <1>4, <1>5, <1>6, <1>7, <1>8, <1>9, <1>10

\* The SELECT under the lock keeps the invariant.
LEMMA SelectKeeps ==
    ASSUME IInv, NEW h \in Holders, Select(h)
    PROVE  IInv'
<1> DEFINE c == [call[h] EXCEPT !.stage = "read", !.row = row, !.task = task]
<1>1. /\ call' = [call EXCEPT ![h] = c]
      /\ UNCHANGED <<clock, row, task, claim, written, grants, winners>>
      /\ call[h] \in LeaseCall
  BY DEF Select, history, IInv, Typed
<1>2. /\ c \in LeaseCall /\ c # Idle
      /\ c.op = call[h].op /\ c.via = call[h].via /\ c.now = call[h].now
      /\ c.epoch = call[h].epoch /\ c.stage = "read" /\ c.row = row /\ c.task = task
  BY <1>1 DEF IInv, Typed, LeaseCall, Idle, Ops, Writes
<1>3. \A g \in Holders : call'[g] = IF g = h THEN c ELSE call[g]
  BY <1>1 DEF IInv, Typed
<1>4. Typed'
  BY <1>1, <1>2 DEF IInv, Typed
<1>5. Serialised'
  <2>1. call[h].via \in {"server", "cli"} /\ (~CliOverlaps \/ call[h].via = "server")
    BY <1>1 DEF LeaseCall, Select, IInv, Serialised
  <2>2. \A g \in Holders \ {h} : ~Busy(g)
    BY <2>1, LockExcludes DEF Select, IInv
  <2> QED BY <1>2, <1>3, <2>1, <2>2 DEF Serialised, Busy, IInv
<1>6. ReadsAreFresh'
  <2> HIDE DEF c
  <2>1. call[h].now <= clock
    BY DEF Select, IInv, ReadsAreFresh
  <2> QED BY <1>1, <1>2, <1>3, <2>1 DEF ReadsAreFresh, IInv
<1>7. NoTakeoverDuringWrite' /\ WritesHoldLock'
  BY <1>1, <1>2, <1>3 DEF NoTakeoverDuringWrite, WritesHoldLock, Claimed, IInv
<1>8. (RowShape /\ HistoryIsBehind /\ HolderWasGranted /\ GrantedOnce)'
  BY <1>1 DEF RowShape, HistoryIsBehind, HolderWasGranted, GrantedOnce, IInv
<1> QED BY <1>4, <1>5, <1>6, <1>7, <1>8 DEF IInv

-----------------------------------------------------------------------------
(* The UPDATE.                                                              *)

\* A call that commits is the one in the lock: it saw the stored row and task,
\* and nobody else is between a check and an answer.
LEMMA CommitterAlone ==
    ASSUME IInv, NEW h \in Holders, call[h].op # "idle", call[h].stage = "read"
    PROVE  /\ call[h] \in LeaseCall
           /\ call[h].row = row /\ call[h].task = task
           /\ call[h].now \in Nat /\ call[h].now <= clock
           /\ \A g \in Holders \ {h} : ~Busy(g)
  BY DEF IInv, Typed, Serialised, ReadsAreFresh, Busy, LeaseCall, Idle

\* Answering it leaves nobody in the lock: only the facts about the stored row,
\* the task and the histories are left to show.
LEMMA AnswerKeeps ==
    ASSUME IInv, NEW h \in Holders, call[h].op # "idle", call[h].stage = "read", Answered(h),
           UNCHANGED clock, row' \in LeaseRow, task' \in Nat, written' \in Nat,
           claim' \in [Holders -> Nat],
           grants' \subseteq [epoch : Nat, holder : Holders],
           winners' \subseteq [epoch : Nat, holder : Holders],
           RowShape', HistoryIsBehind', HolderWasGranted', GrantedOnce'
    PROVE  IInv'
<1>1. \A g \in Holders : call'[g] = IF g = h THEN Idle ELSE call[g]
  BY DEF Answered, IInv, Typed
<1>2. \A g \in Holders : ~Busy(g)'
  BY <1>1, CommitterAlone DEF Busy
<1>3. Typed'
  BY DEF IInv, Typed, Answered
<1>4. Serialised'
  BY <1>1, <1>2 DEF Serialised, IInv
<1>5. ReadsAreFresh'
  BY <1>1, <1>2 DEF ReadsAreFresh, IInv, Busy
<1>6. WritesHoldLock'
  BY <1>1 DEF WritesHoldLock, IInv, Idle, Writes
<1>7. NoTakeoverDuringWrite'
  BY <1>1, <1>2 DEF NoTakeoverDuringWrite, Busy, Idle, Writes
<1> QED BY <1>3, <1>4, <1>5, <1>6, <1>7 DEF IInv

\* What ensure_relay_lease tells a node is an epoch, or none.
LEMMA ToldTyped ==
    ASSUME IInv, NEW h \in Holders, NEW c, NEW epoch \in Nat, Told(h, c, epoch)
    PROVE  claim' \in [Holders -> Nat]
  BY DEF Told, IInv, Typed

\* A grant is a renewal of the same seat at the same epoch, or bumps the epoch.
LEMMA CheckoutKeeps ==
    ASSUME IInv, NEW h \in Holders, CommitCheckout(h)
    PROVE  IInv'
<1> DEFINE c == call[h]
           new == NextEpoch(h, row, c.now)
<1>1. /\ c.op = "checkout" /\ c.stage = "read" /\ Answered(h)
      /\ UNCHANGED <<clock, task, written, winners>>
  BY DEF CommitCheckout
<1>2. c.row = row /\ c.now \in Nat
  BY <1>1, CommitterAlone
<1>3. CASE UNCHANGED <<row, grants>> /\ Told(h, c, c.row.epoch)
  <2>1. (RowShape /\ HistoryIsBehind /\ HolderWasGranted /\ GrantedOnce)'
    BY <1>1, <1>3 DEF IInv, RowShape, HistoryIsBehind, HolderWasGranted, GrantedOnce
  <2>2. claim' \in [Holders -> Nat]
    BY <1>2, <1>3, ToldTyped DEF IInv, Typed, LeaseRow
  <2> QED BY <1>1, <1>3, <2>1, <2>2, AnswerKeeps DEF IInv, Typed
<1>4. CASE ~Refused(h, c)
  <2>1. /\ row'.holder = h /\ row'.epoch = new /\ row'.released = FALSE
        /\ row'.expires = c.now + Ttl /\ row'.turnover \in Nat
        /\ row' \in LeaseRow
        /\ grants' = grants \cup {[epoch |-> new, holder |-> h]}
        /\ new \in Nat /\ Told(h, c, new)
    <3>1. new \in Nat /\ row.turnover \in Nat /\ c.now + Ttl \in Nat
      BY <1>2, BoundsAssumption DEF NextEpoch, IInv, Typed, LeaseRow
    <3>2. PICK t \in Nat :
            row' = [holder |-> h, epoch |-> new, expires |-> c.now + Ttl,
                    released |-> FALSE, turnover |-> t]
      BY <1>2, <1>3, <1>4, <3>1 DEF CommitCheckout, NoTurnover
    <3> QED BY <1>2, <1>3, <1>4, <3>1, <3>2 DEF CommitCheckout, LeaseRow
  <2>2. \/ new = row.epoch /\ row.holder = h /\ row.epoch # 0
        \/ new = row.epoch + 1
    BY <1>2 DEF NextEpoch, Renews, Vacant
  <2>3. RowShape'
    BY <2>1, <2>2, HoldersAssumption DEF RowShape, IInv, Typed, LeaseRow
  <2>4. HistoryIsBehind'
    BY <1>1, <2>1, <2>2, HoldersAssumption DEF HistoryIsBehind, IInv, Typed, LeaseRow
  <2>5. GrantedOnce' /\ HolderWasGranted'
    BY <1>1, <2>1, <2>2, HoldersAssumption DEF GrantedOnce, HolderWasGranted, HistoryIsBehind, IInv, Typed, LeaseRow
  <2>6. grants' \subseteq [epoch : Nat, holder : Holders] /\ claim' \in [Holders -> Nat]
    BY <2>1, ToldTyped DEF IInv, Typed
  <2> QED BY <1>1, <2>1, <2>3, <2>4, <2>5, <2>6, AnswerKeeps DEF IInv, Typed
<1> QED BY <1>3, <1>4 DEF CommitCheckout

\* Heartbeats move only the expiry.
LEMMA HeartbeatKeeps ==
    ASSUME IInv, NEW h \in Holders, CommitHeartbeat(h)
    PROVE  IInv'
<1>1. /\ call[h].op = "heartbeat" /\ call[h].stage = "read" /\ Answered(h)
      /\ UNCHANGED <<clock, task, written, grants, winners>>
      /\ row' = row \/ row' = [row EXCEPT !.expires = RenewedUntil(call[h])]
      /\ \E e \in {0, call[h].epoch} : Told(h, call[h], e)
  BY DEF CommitHeartbeat, history
<1>2. RenewedUntil(call[h]) \in Nat
  BY <1>1, CommitterAlone, BoundsAssumption DEF RenewedUntil
<1>3. /\ row' \in LeaseRow /\ row'.holder = row.holder /\ row'.epoch = row.epoch
      /\ row'.released = row.released
  BY <1>1, <1>2 DEF IInv, Typed, LeaseRow
<1>4. (RowShape /\ HistoryIsBehind /\ HolderWasGranted /\ GrantedOnce)'
  BY <1>1, <1>3 DEF IInv, RowShape, HistoryIsBehind, HolderWasGranted, GrantedOnce
<1>5. claim' \in [Holders -> Nat]
  BY <1>1, CommitterAlone, ToldTyped DEF LeaseCall
<1> QED BY <1>1, <1>3, <1>4, <1>5, AnswerKeeps DEF IInv, Typed

\* A release empties the seat and leaves the epoch.
LEMMA ReleaseKeeps ==
    ASSUME IInv, NEW h \in Holders, CommitRelease(h)
    PROVE  IInv'
<1>1. /\ call[h].op = "release" /\ call[h].stage = "read" /\ Answered(h)
      /\ UNCHANGED <<clock, task, claim, written, grants, winners>>
  BY DEF CommitRelease, history
<1>2. call[h].row = row /\ call[h].now \in Nat
  BY <1>1, CommitterAlone
<1>3. CASE row' = row
  <2>1. (RowShape /\ HistoryIsBehind /\ HolderWasGranted /\ GrantedOnce)'
    BY <1>1, <1>3 DEF IInv, RowShape, HistoryIsBehind, HolderWasGranted, GrantedOnce
  <2> QED BY <1>1, <1>3, <2>1, AnswerKeeps DEF IInv, Typed
<1>4. CASE row' # row
  <2>1. PICK t \in Nat :
          row' = [row EXCEPT !.holder = NoHolder, !.released = TRUE,
                             !.expires = call[h].now, !.turnover = t]
    BY <1>2, <1>4 DEF CommitRelease, IInv, Typed, LeaseRow
  <2>2. row' \in LeaseRow /\ row'.holder = NoHolder /\ row'.epoch = row.epoch
    BY <1>2, <2>1 DEF IInv, Typed, LeaseRow
  <2>3. (RowShape /\ HistoryIsBehind /\ HolderWasGranted /\ GrantedOnce)'
    BY <1>1, <2>2 DEF IInv, RowShape, HistoryIsBehind, HolderWasGranted, GrantedOnce
  <2> QED BY <1>1, <2>2, <2>3, AnswerKeeps DEF IInv, Typed
<1> QED BY <1>3, <1>4

\* The claim of a write that commits is the row's epoch.
LEMMA WroteEpoch ==
    ASSUME IInv, NEW h \in Holders, call[h].op \in Writes, call[h].stage = "read",
           Wrote(call[h])
    PROVE  /\ written' \in Nat /\ written' <= row.epoch
           /\ \/ written' = written
              \/ /\ written' = row.epoch /\ row.holder # NoHolder
                 /\ CallerOf[row.holder] = CallerOf[h]
  BY DEF IInv, Typed, LeaseRow, Wrote, HistoryIsBehind, NoTakeoverDuringWrite, Claimed

\* A turnover entry moves only the mark of the last turnover.
LEMMA TurnoverKeeps ==
    ASSUME IInv, NEW h \in Holders, CommitTurnover(h)
    PROVE  IInv'
<1>1. /\ call[h].op = "turnover" /\ call[h].stage = "read" /\ Answered(h)
      /\ UNCHANGED <<clock, task, claim, grants, winners>> /\ Wrote(call[h])
      /\ row' = row \/ row' = [row EXCEPT !.turnover = call[h].row.epoch]
  BY DEF CommitTurnover
<1>2. call[h].row = row
  BY <1>1, CommitterAlone
<1>3. /\ row' \in LeaseRow /\ row'.holder = row.holder /\ row'.epoch = row.epoch
      /\ row'.released = row.released
  BY <1>1, <1>2 DEF IInv, Typed, LeaseRow
<1>4. written' \in Nat /\ written' <= row.epoch
  BY <1>1, WroteEpoch DEF Writes
<1>5. (RowShape /\ HistoryIsBehind /\ HolderWasGranted /\ GrantedOnce)'
  BY <1>1, <1>3, <1>4 DEF IInv, RowShape, HistoryIsBehind, HolderWasGranted, GrantedOnce
<1> QED BY <1>1, <1>3, <1>4, <1>5, AnswerKeeps DEF IInv, Typed

\* A handoff is from the task's epoch, which it leaves behind.
LEMMA HandoffKeeps ==
    ASSUME IInv, NEW h \in Holders, CommitHandoff(h)
    PROVE  IInv'
<1>1. /\ call[h].op = "handoff" /\ call[h].stage = "read" /\ Answered(h)
      /\ UNCHANGED <<clock, row, claim, grants>>
  BY DEF CommitHandoff
<1>2. call[h].task = task /\ task \in Nat
  BY <1>1, CommitterAlone DEF IInv, Typed
<1>3. CASE UNCHANGED <<task, written, winners>>
  <2>1. (RowShape /\ HistoryIsBehind /\ HolderWasGranted /\ GrantedOnce)'
    BY <1>1, <1>3 DEF IInv, RowShape, HistoryIsBehind, HolderWasGranted, GrantedOnce
  <2> QED BY <1>1, <1>3, <2>1, AnswerKeeps DEF IInv, Typed
<1>4. CASE /\ call[h].expected = call[h].task
           /\ task' = NextTask(call[h])
           /\ winners' = winners \cup {[epoch |-> call[h].expected, holder |-> h]}
           /\ Wrote(call[h])
  <2>1. /\ task' = task + 1
        /\ winners' = winners \cup {[epoch |-> task, holder |-> h]}
    BY <1>2, <1>4 DEF NextTask
  <2>2. written' \in Nat /\ written' <= row.epoch
    BY <1>1, <1>4, WroteEpoch DEF Writes
  <2>3. RowShape' /\ HistoryIsBehind'
    BY <1>1, <1>2, <2>1, <2>2 DEF IInv, Typed, RowShape, HistoryIsBehind
  <2>4. GrantedOnce' /\ HolderWasGranted'
    BY <1>1, <1>2, <2>1 DEF IInv, Typed, HistoryIsBehind, HolderWasGranted, GrantedOnce
  <2>5. winners' \subseteq [epoch : Nat, holder : Holders]
    BY <1>2, <2>1 DEF IInv, Typed
  <2> QED BY <1>1, <1>2, <2>1, <2>2, <2>3, <2>4, <2>5, AnswerKeeps DEF IInv, Typed
<1> QED BY <1>3, <1>4 DEF CommitHandoff

\* A task update writes back the epoch that is stored.
LEMMA UpsertKeeps ==
    ASSUME IInv, NEW h \in Holders, CommitUpsert(h)
    PROVE  IInv'
<1>1. /\ call[h].op = "upsert" /\ call[h].stage = "read" /\ Answered(h)
      /\ UNCHANGED <<clock, row, claim, grants, winners>> /\ Wrote(call[h])
      /\ task' = call[h].task
  BY DEF CommitUpsert
<1>2. task' = task
  BY <1>1, CommitterAlone
<1>3. written' \in Nat /\ written' <= row.epoch
  BY <1>1, WroteEpoch DEF Writes
<1>4. (RowShape /\ HistoryIsBehind /\ HolderWasGranted /\ GrantedOnce)'
  BY <1>1, <1>2, <1>3 DEF IInv, RowShape, HistoryIsBehind, HolderWasGranted, GrantedOnce
<1> QED BY <1>1, <1>2, <1>3, <1>4, AnswerKeeps DEF IInv, Typed

\* A delivery of a relay node changes nothing of the store.
LEMMA SendKeeps ==
    ASSUME IInv, NEW h \in Holders, CommitSend(h)
    PROVE  IInv'
<1>1. /\ call[h].op = "send" /\ call[h].stage = "read" /\ Answered(h)
      /\ UNCHANGED <<clock, row, task, claim, grants, winners>> /\ Wrote(call[h])
  BY DEF CommitSend
<1>2. written' \in Nat /\ written' <= row.epoch
  BY <1>1, WroteEpoch DEF Writes
<1>3. (RowShape /\ HistoryIsBehind /\ HolderWasGranted /\ GrantedOnce)'
  BY <1>1, <1>2 DEF IInv, RowShape, HistoryIsBehind, HolderWasGranted, GrantedOnce
<1> QED BY <1>1, <1>2, <1>3, AnswerKeeps DEF IInv, Typed

\* The clock moves alone.
LEMMA TickKeeps == IInv /\ Tick => IInv'
  BY DEF IInv, Tick, history, Typed, Serialised, Busy, ReadsAreFresh, RowShape, HistoryIsBehind,
         WritesHoldLock, HolderWasGranted, NoTakeoverDuringWrite, Claimed, GrantedOnce, LeaseCall

\* Every step keeps the invariant.
LEMMA IStep == LockCovers /\ IInv /\ [Next]_vars => IInv'
<1> SUFFICES ASSUME LockCovers, IInv, [Next]_vars PROVE IInv'
  OBVIOUS
<1>1. ASSUME NEW h \in Holders,
             \/ Checkout(h) \/ Heartbeat(h) \/ Release(h) \/ UnclaimedWrite(h)
             \/ Fence(h) \/ Ensure(h) \/ Send(h) \/ Remote(h)
      PROVE  IInv'
  BY <1>1, RequestKeeps
<1>2. ASSUME NEW h \in Holders,
             \/ Select(h) \/ CommitCheckout(h) \/ CommitHeartbeat(h) \/ CommitRelease(h)
             \/ CommitTurnover(h) \/ CommitHandoff(h) \/ CommitUpsert(h) \/ CommitSend(h)
      PROVE  IInv'
  BY <1>2, SelectKeeps, CheckoutKeeps, HeartbeatKeeps, ReleaseKeeps, TurnoverKeeps,
     HandoffKeeps, UpsertKeeps, SendKeeps
<1>3. CASE UNCHANGED vars
  BY <1>3 DEF vars, IInv, Typed, Serialised, Busy, ReadsAreFresh, RowShape, HistoryIsBehind,
              WritesHoldLock, HolderWasGranted, NoTakeoverDuringWrite, Claimed, GrantedOnce
<1> QED BY <1>1, <1>2, <1>3, TickKeeps DEF Next

\* The invariant holds throughout.
LEMMA Invariance == LockCovers /\ Spec => []IInv
<1> SUFFICES ASSUME LockCovers PROVE Spec => []IInv
  OBVIOUS
<1>1. IInv /\ [Next]_vars => IInv'
  BY IStep
<1> QED BY <1>1, IInit, PTL DEF Spec

-----------------------------------------------------------------------------
(* The results.                                                             *)

\* checkout_lease and transition_handoff never grant two seats the same epoch, and
\* only the seat's principal passes the fence with it, whatever epoch
\* ensure_relay_lease has told a node.
THEOREM EpochsAreFencingTokens == LockCovers /\ Spec => []OneHolderPerEpoch
<1>1. ASSUME IInv PROVE OneHolderPerEpoch
  <2>1. WritersWereGranted
    BY <1>1 DEF IInv, Typed, LeaseRow, WritersWereGranted, NoTakeoverDuringWrite, HolderWasGranted
  <2> QED BY <1>1, <2>1 DEF IInv, OneHolderPerEpoch
<1> QED BY <1>1, Invariance, PTL

\* barb_write_fence: from the check of its claim to its answer a write runs under
\* the epoch it claims, with the lease still its principal's.
THEOREM ClaimedWritesAreNotOvertaken == LockCovers /\ Spec => []NoTakeoverDuringWrite
<1>1. IInv => NoTakeoverDuringWrite
  BY DEF IInv
<1> QED BY <1>1, Invariance, PTL

-----------------------------------------------------------------------------
(* What one step does to the lease.                                         *)

\* The seat, the epoch and the last claimed write stay.
Untouched == row'.holder = row.holder /\ row'.epoch = row.epoch /\ written' = written

\* A seat gets the lease under the next epoch: vacant, its own, run out, or taken by force.
Granted(h) == /\ row'.holder = h /\ row'.epoch = row.epoch + 1 /\ written' = written
              /\ \/ row.holder \in {h, NoHolder}
                 \/ row.expires <= clock
                 \/ "force" \in call[h].opts

\* The seat is given back under its epoch.
Vacated == /\ row.holder # NoHolder /\ row'.holder = NoHolder
           /\ row'.epoch = row.epoch /\ written' = written

\* A write under the row's epoch, by the principal of the seat.
WrittenBy(h) == /\ row.holder # NoHolder /\ CallerOf[row.holder] = CallerOf[h]
                /\ written' = row.epoch
                /\ row'.holder = row.holder /\ row'.epoch = row.epoch

\* checkout_lease renews or grants.
LEMMA CheckoutStep ==
    ASSUME IInv, NEW h \in Holders, CommitCheckout(h)
    PROVE  Untouched \/ Granted(h)
<1> DEFINE c == call[h]
<1>1. c.op = "checkout" /\ c.stage = "read" /\ written' = written
  BY DEF CommitCheckout
<1>2. c.row = row /\ c.now \in Nat /\ c.now <= clock
  BY <1>1, CommitterAlone
<1>3. CASE row' = row
  BY <1>1, <1>3 DEF Untouched
<1>4. CASE row' # row
  <2>1. /\ row'.holder = h /\ row'.epoch = NextEpoch(h, row, c.now)
        /\ ~Refused(h, c)
    BY <1>2, <1>4 DEF CommitCheckout
  <2>2. CASE Renews(h, row, c.now)
    BY <1>1, <2>1, <2>2 DEF NextEpoch, Renews, Untouched
  <2>3. CASE ~Renews(h, row, c.now)
    <3>1. Vacant(row, c.now) \/ row.holder = h \/ "force" \in c.opts
      BY <1>2, <2>1 DEF Refused
    <3>2. row.holder \in {h, NoHolder} \/ row.expires <= clock \/ "force" \in c.opts
      BY <1>2, <3>1 DEF Vacant, IInv, RowShape, Typed, LeaseRow
    <3> QED BY <1>1, <2>1, <2>3, <3>2 DEF NextEpoch, Granted
  <2> QED BY <2>2, <2>3
<1> QED BY <1>3, <1>4

\* release_lease gives the seat back or changes nothing.
LEMMA ReleaseStep ==
    ASSUME IInv, NEW h \in Holders, CommitRelease(h)
    PROVE  Untouched \/ Vacated
<1>1. call[h].op = "release" /\ call[h].stage = "read" /\ written' = written
  BY DEF CommitRelease, history
<1>2. call[h].row = row
  BY <1>1, CommitterAlone
<1>3. CASE row' = row
  BY <1>1, <1>3 DEF Untouched
<1>4. CASE row' # row
  <2>1. row.holder = h /\ row'.holder = NoHolder /\ row'.epoch = row.epoch
    BY <1>2, <1>4 DEF CommitRelease, IInv, Typed, LeaseRow
  <2> QED BY <1>1, <2>1, HoldersAssumption DEF Vacated
<1> QED BY <1>3, <1>4

\* The writes of the fence write under the row's epoch, or claim nothing.
LEMMA WriteStep ==
    ASSUME IInv, NEW h \in Holders,
           CommitTurnover(h) \/ CommitHandoff(h) \/ CommitUpsert(h) \/ CommitSend(h)
    PROVE  Untouched \/ WrittenBy(h)
<1>1. call[h].op \in Writes /\ call[h].stage = "read"
  BY DEF CommitTurnover, CommitHandoff, CommitUpsert, CommitSend, Writes
<1>2. row'.holder = row.holder /\ row'.epoch = row.epoch
  BY DEF CommitTurnover, CommitHandoff, CommitUpsert, CommitSend, IInv, Typed, LeaseRow
<1>3. written' = written \/ Wrote(call[h])
  BY DEF CommitTurnover, CommitHandoff, CommitUpsert, CommitSend
<1> QED BY <1>1, <1>2, <1>3, WroteEpoch DEF Untouched, WrittenBy

\* Every step leaves the lease alone, grants it, vacates it or writes under it.
LEMMA LeaseStep ==
    ASSUME IInv, [Next]_vars
    PROVE  Untouched \/ Vacated \/ \E h \in Holders : Granted(h) \/ WrittenBy(h)
<1>1. ASSUME NEW h \in Holders,
             \/ Checkout(h) \/ Heartbeat(h) \/ Release(h) \/ UnclaimedWrite(h)
             \/ Fence(h) \/ Ensure(h) \/ Send(h) \/ Remote(h) \/ Select(h)
      PROVE  Untouched
  BY <1>1 DEF Checkout, Heartbeat, Release, UnclaimedWrite, Fence, WriteArgs, Ensure, Send,
              Remote, Select, Enter, history, Untouched
<1>2. ASSUME NEW h \in Holders, CommitHeartbeat(h)
      PROVE  Untouched
  BY <1>2 DEF CommitHeartbeat, history, Untouched, IInv, Typed, LeaseRow
<1>3. CASE Tick \/ UNCHANGED vars
  BY <1>3 DEF Tick, vars, history, Untouched
<1> QED BY <1>1, <1>2, <1>3, CheckoutStep, ReleaseStep, WriteStep DEF Next

\* checkout_lease never takes a live lease from another seat unless it is told
\* to, whatever "now" the request waited with.
THEOREM LiveLeasesAreNotStolen == LockCovers /\ Spec => NoTheft
<1>1. IInv /\ [Next]_vars =>
        [\A h \in Holders :
           row'.holder = h /\ row.holder \notin {h, NoHolder} /\ row.expires > clock
             => "force" \in call[h].opts]_vars
  <2> SUFFICES ASSUME IInv, [Next]_vars, NEW h \in Holders,
                      row'.holder = h, row.holder \notin {h, NoHolder}, row.expires > clock
               PROVE  "force" \in call[h].opts
    OBVIOUS
  <2>1. ~Untouched /\ ~Vacated /\ \A g \in Holders : ~WrittenBy(g)
    BY HoldersAssumption DEF Untouched, Vacated, WrittenBy
  <2>2. PICK g \in Holders : Granted(g)
    BY <2>1, LeaseStep
  <2>3. ~(row.expires <= clock)
    BY DEF IInv, Typed, LeaseRow
  <2> QED BY <2>2, <2>3 DEF Granted
<1> QED BY <1>1, Invariance, PTL DEF Spec, NoTheft

\* The stored row is a fenced lease: its steps are grants under the next epoch,
\* give-backs, and claimed writes under the epoch of the moment.
THEOREM LeaseRefinesFencedLease == LockCovers /\ Spec => ImplementsFencedLease
<1>1. Init => Lease!Init
  BY DEF Init, NoRow, Lease!Init
<1>2. IInv /\ [Next]_vars => [Lease!Next]_Lease!lease
  <2> SUFFICES ASSUME IInv, [Next]_vars PROVE [Lease!Next]_Lease!lease
    OBVIOUS
  <2>1. CASE Untouched
    BY <2>1 DEF Untouched, Lease!lease
  <2>2. CASE Vacated
    BY <2>2 DEF Vacated, Lease!Next, Lease!Vacate
  <2>3. ASSUME NEW h \in Holders, Granted(h) PROVE Lease!Next
    BY <2>3 DEF Granted, Lease!Next, Lease!Grant
  <2>4. ASSUME NEW h \in Holders, WrittenBy(h) PROVE Lease!Next
    BY <2>4 DEF WrittenBy, Lease!Next, Lease!Write
  <2> QED BY <2>1, <2>2, <2>3, <2>4, LeaseStep
<1> QED BY <1>1, <1>2, Invariance, PTL DEF Spec, ImplementsFencedLease, Lease!Spec

\* Claimed writes never go back to an older epoch, nor does the row's epoch: a
\* seat that lost the lease has written its last.
THEOREM EpochsOnlyRise ==
    LockCovers /\ Spec => [][row'.epoch >= row.epoch /\ written' >= written]_vars
<1>1. IInv /\ [Next]_vars => [row'.epoch >= row.epoch /\ written' >= written]_vars
  <2> SUFFICES ASSUME IInv, [Next]_vars
               PROVE  row'.epoch >= row.epoch /\ written' >= written
    OBVIOUS
  <2>1. row.epoch \in Nat /\ written \in Nat /\ written <= row.epoch
    BY DEF IInv, Typed, LeaseRow, HistoryIsBehind
  <2> QED BY <2>1, LeaseStep DEF Untouched, Vacated, Granted, WrittenBy
<1> QED BY <1>1, Invariance, PTL DEF Spec
=============================================================================
