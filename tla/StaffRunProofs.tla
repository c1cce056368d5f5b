--------------------------- MODULE StaffRunProofs ---------------------------
(***************************************************************************)
(* StaffRun for every set of roles, any number of attempts, restarts and   *)
(* slots, whichever processes resist being ended: an attempt gets one      *)
(* worker; an accepted cancel reaches the provider process; a process is   *)
(* left running for one of four reasons only; a success reaches the root;  *)
(* attempts are bounded.                                                   *)
(***************************************************************************)
EXTENDS StaffRun, WellFoundedInduction, TLAPS

\* The dashboard reconciles before it serves, and no store call fails beside a
\* running child: the instance of the MCStaffRun run.  Without the one or the other
\* the properties about processes do not hold.
Orderly == ~EarlyRequests /\ ~Faults

\* Roles whose fallbacks end: no provider named twice, one fallback provider at most.
ChainsEnd ==
    \A r \in Roles : /\ \A i, j \in DOMAIN r.providers : r.providers[i] = r.providers[j] => i = j
                     /\ Len(r.fallbacks) <= 1

-----------------------------------------------------------------------------
(* The inductive invariant.                                                 *)

Exists(n) == runs[n].status # NoStatus

\* Whoever works on an attempt, watches, cancels or reconciles it has seen its row; the
\* root's worker is taken on once, by the thread that admitted it.
Launched ==
    /\ \A n \in Ids : /\ launches[n] <= 1
                      /\ launches[n] = 1 => Exists(n)
                      /\ worker[n] = "admitted" => n = 1 /\ launches[n] = 0
                      /\ worker[n] # "none" \/ canceller[n] # "idle" \/ watchdog[n] # "idle"
                           => Exists(n)
    /\ \A r \in todo : Exists(r[1])

\* Before the dashboard serves, nobody works and nobody cancels.
QuietUntilUp ==
    /\ boot # "up" => \A n \in Ids : worker[n] = "none" /\ canceller[n] = "idle"
    /\ \A r \in todo : boot = "reconcile" /\ r[2] = runs[r[1]].pid /\ Active(r[1])

\* The outcome of the attempt is recorded, and its process is over or known not to be.
Over(n) ==
    /\ Exists(n) /\ (child[n] = "alive" => n \in unkilled \cup unreaped)
    /\ worker[n] \in {"recorded", "verified", "retry", "done", "none"}

\* A worker's step tells what its row may say, unless the watchdog has given the process
\* up; the row comes before the process, which is registered until its worker is done
\* with it; a failure that another attempt may follow is recorded at the end.
RowFollowsWorker(n) ==
    /\ ~Exists(n) => child[n] = "none" /\ runs[n].class = "none"
    /\ worker[n] \in {"admitted", "timer", "ready", "claimed"}
         => runs[n].status \in {"queued", "cancelled"}
    /\ worker[n] \in {"preparing", "setup", "spawned"}
         => runs[n].status \in {"preparing", "cancelled"}
    /\ worker[n] \in {"started", "pumping", "reaped"}
         => \/ runs[n].status \in {"running", "cancelled"}
            \/ runs[n].status = "failed" /\ runs[n].class = "other" /\ watchdog[n] = "over"
    /\ child[n] = "alive"
         => worker[n] \in {"spawned", "started", "pumping", "none"} \/ n \in unreaped
    /\ runs[n].status = "failed" /\ runs[n].class \in {"transient", "capacity", "stalled"}
         => Over(n)

\* The watchdog acts beside a worker that reads the output or is done with it; the
\* process it gives up survived, and one its worker gave up waiting for had started.
ProcessAccounted(n) ==
    /\ watchdog[n] # "idle"
         => worker[n] \in {"pumping", "reaped", "recorded", "verified", "retry", "done"}
    /\ watchdog[n] \in {"unkillable", "over"} => n \in unkilled
    /\ n \in unreaped
         => /\ worker[n] \in {"reaped", "recorded", "verified", "retry", "done", "none"}
            /\ runs[n].status \notin {NoStatus, "queued", "preparing"}

\* A cancel request acts on its flag; one that was accepted, or found no process, has a
\* process to care for only if the worker saw the flag; others are known to have survived.
CancelIsFlagged(n) ==
    /\ canceller[n] # "idle" \/ n \in accepted => n \in flags
    /\ canceller[n] = "write" => n \in accepted
    /\ child[n] = "alive" /\ \/ n \in accepted
                             \/ /\ canceller[n] = "noproc" /\ worker[n] # "none"
                                /\ n \notin unreaped
         => \/ worker[n] \in {"spawned", "started"} /\ saw[n]
            \/ n \in unkilled

\* A process without a worker, which neither survived being terminated nor was given up,
\* is one that a restart left, and the row it was left with is closed by the
\* reconciliation or was cancelled.
SurvivorReconciled(n) ==
    child[n] = "alive" /\ worker[n] = "none" /\ n \notin unkilled \cup unreaped =>
        /\ runs[n].status # "queued"
        /\ ~runs[n].pid \/ runs[n].status \in {"preparing", "running", "cancelled"}
        /\ runs[n].status \in {"preparing", "running"} =>
             \/ boot \in {"down", "scan"}
             \/ boot = "reconcile" /\ <<n, runs[n].pid>> \in todo

Attempt(n) ==
    RowFollowsWorker(n) /\ ProcessAccounted(n) /\ CancelIsFlagged(n) /\ SurvivorReconciled(n)

\* An attempt after the root: the root is over, and while the root's worker holds
\* its slot the attempt waits for it; its success is the root's.
AfterRoot(n) ==
    Exists(n) =>
        /\ Over(1)
        /\ 1 \in Holding => /\ n = 2 /\ runs[n].provider = runs[1].provider
                            /\ worker[n] = "ready"
        /\ runs[n].status = "succeeded" /\ worker[n] = "done"
             => runs[1].status = "succeeded" \/ 1 \in accepted \/ 1 \in unkilled

Running == /\ QuietUntilUp
           /\ \A n \in Ids : Attempt(n)
           /\ \A n \in Ids \ {1} : AfterRoot(n)

\* The provider after k fallbacks, and how many there can be.
Chain == IF role.fallbacks = <<>> THEN Len(role.providers) - 1 ELSE Len(role.fallbacks)
Rung(k) == IF k = 0 THEN role.providers[1]
           ELSE IF role.fallbacks = <<>> THEN role.providers[k + 1] ELSE role.fallbacks[k]

\* Every fallback adds one attempt and goes one provider further.
OnRung(n) == \E k \in 0..Chain : /\ runs[n].max = role.max + k /\ n <= runs[n].max
                                 /\ runs[n].provider = Rung(k)
Laddered == \A n \in Ids : n = 1 \/ Exists(n) => OnRung(n)

IInv == TypeOK /\ Launched /\ (Orderly => Running) /\ (ChainsEnd => Laddered)
-----------------------------------------------------------------------------
(* Facts about the roles and the rows.                                      *)

\* A set of natural numbers that is not empty has a least one.
LEMMA Least == ASSUME NEW S \in SUBSET Nat, S # {} PROVE \E i \in S : \A j \in S : i <= j
<1> DEFINE R == OpToRel(<, Nat)
<1>1. IsWellFoundedOn(R, Nat)
  BY NatLessThanWellFounded
<1>2. \E i \in S : \A j \in S : <<j, i>> \notin R
  <2> HIDE DEF R
  <2> QED BY <1>1, WFMin
<1>3. R = {ss \in Nat \X Nat : ss[1] < ss[2]}
  BY Zenon DEF OpToRel
<1> HIDE DEF R
<1>4. \A i, j \in Nat : j < i => <<j, i>> \in R
  BY <1>3
<1>5. \A i, j \in Nat : i <= j \/ j < i
  OBVIOUS
<1> QED BY <1>2, <1>4, <1>5

\* The assumptions on the constants, as the provers use them.
LEMMA Bounds ==
    /\ MaxIds \in Nat /\ 1 \in Ids /\ Ids \subseteq Nat
    /\ MaxCrashes \in Nat
  BY StaffRunBounds DEF Ids

\* What is assumed of a role.
LEMMA RoleShape ==
    ASSUME NEW r \in Roles
    PROVE  /\ r.providers \in Seq(Named(r)) /\ r.fallbacks \in Seq(Named(r))
           /\ Len(r.providers) \in Nat \ {0} /\ r.max \in Nat \ {0}
           /\ Named(r) \subseteq Providers
<1>1. /\ r.providers \in Seq(Named(r)) /\ r.fallbacks \in Seq(Named(r))
      /\ r.providers # <<>> /\ r.max \in Nat \ {0}
  BY StaffRunBounds
<1>2. Named(r) \subseteq Providers
  BY DEF Providers
<1> QED BY <1>1, <1>2

\* next_fallback_provider returns a provider of the role.
LEMMA FallbackNamed ==
    ASSUME role \in Roles, NEW current
    PROVE  next_fallback_provider(current) \subseteq Providers
<1> DEFINE S == Named(role)
           F == role.fallbacks
           P == role.providers
<1>1. P \in Seq(S) /\ F \in Seq(S) /\ S \subseteq Providers
  BY RoleShape
<1>2. next_fallback_provider(current) =
        IF F # <<>> THEN LET hits == {i \in DOMAIN F : F[i] # current}
                         IN  IF hits = {} THEN {}
                             ELSE {F[CHOOSE i \in hits : \A j \in hits : i <= j]}
        ELSE {P[i + 1] : i \in {j \in 1..(Len(P) - 1) : P[j] = current}}
  BY DEF next_fallback_provider, First
<1> DEFINE hits == {i \in DOMAIN F : F[i] # current}
<1> HIDE DEF S, F, P
<1>3. CASE F # <<>>
  <2>1. hits \in SUBSET Nat
    BY <1>1
  <2>2. ASSUME hits # {}
        PROVE  F[CHOOSE i \in hits : \A j \in hits : i <= j] \in S
    <3> DEFINE k == CHOOSE i \in hits : \A j \in hits : i <= j
    <3>1. \E i \in hits : \A j \in hits : i <= j
      BY <2>1, <2>2, Least
    <3>2. k \in hits
      BY <3>1
    <3> HIDE DEF k
    <3>3. F[k] \in S
      BY <1>1, <3>2
    <3> QED BY <3>3 DEF k
  <2> QED BY <1>1, <1>2, <1>3, <2>2
<1>4. CASE F = <<>>
  <2>1. \A i \in 1..(Len(P) - 1) : P[i + 1] \in S
    BY <1>1
  <2> QED BY <1>1, <1>2, <1>4, <2>1
<1> QED BY <1>3, <1>4

\* A row whose status (and failure class) is written, and no other field.
Written(n, s, c) ==
    /\ runs' \in [Ids -> Row]
    /\ runs'[n].status = s /\ runs'[n].class = c
    /\ runs'[n].provider = runs[n].provider /\ runs'[n].max = runs[n].max
    /\ runs'[n].next = runs[n].next /\ runs'[n].pid = runs[n].pid
    /\ \A m \in Ids \ {n} : runs'[m] = runs[m]

\* RunStore.update_run with a status.
LEMMA StatusWritten ==
    ASSUME TypeOK, NEW n \in Ids, NEW s \in RUN_STATUSES, SetStatus(n, s)
    PROVE  Written(n, s, runs[n].class)
<1>1. runs \in [Ids -> Row] /\ runs[n] \in Row
  BY DEF TypeOK
<1> DEFINE row == [runs[n] EXCEPT !.status = s]
<1>2. runs' = [runs EXCEPT ![n] = row]
  BY <1>1 DEF SetStatus
<1>3. /\ row \in Row /\ row.status = s /\ row.class = runs[n].class
      /\ row.provider = runs[n].provider /\ row.max = runs[n].max
      /\ row.next = runs[n].next /\ row.pid = runs[n].pid
  BY <1>1 DEF Row
<1> HIDE DEF row
<1> QED BY <1>1, <1>2, <1>3 DEF Written

\* RunStore.update_run with a status and a failure class.
LEMMA OutcomeWritten ==
    ASSUME TypeOK, NEW n \in Ids, NEW s \in RUN_STATUSES, NEW c \in Classes,
           runs' = [runs EXCEPT ![n].status = s, ![n].class = c]
    PROVE  Written(n, s, c)
<1>1. runs \in [Ids -> Row] /\ runs[n] \in Row
  BY DEF TypeOK
<1> DEFINE row == [runs[n] EXCEPT !.status = s, !.class = c]
<1>2. runs' = [runs EXCEPT ![n] = row]
  BY <1>1
<1>3. /\ row \in Row /\ row.status = s /\ row.class = c
      /\ row.provider = runs[n].provider /\ row.max = runs[n].max
      /\ row.next = runs[n].next /\ row.pid = runs[n].pid
  BY <1>1 DEF Row
<1> HIDE DEF row
<1> QED BY <1>1, <1>2, <1>3 DEF Written

\* ... with a failure class alone.
LEMMA ClassWritten ==
    ASSUME TypeOK, NEW n \in Ids, Exists(n), NEW c \in Classes,
           runs' = [runs EXCEPT ![n].class = c]
    PROVE  runs[n].status \in RUN_STATUSES /\ Written(n, runs[n].status, c)
<1>1. runs \in [Ids -> Row] /\ runs[n] \in Row
  BY DEF TypeOK
<1> DEFINE row == [runs[n] EXCEPT !.class = c]
<1>2. runs' = [runs EXCEPT ![n] = row]
  BY <1>1
<1>3. /\ row \in Row /\ row.status = runs[n].status /\ row.class = c
      /\ row.provider = runs[n].provider /\ row.max = runs[n].max
      /\ row.next = runs[n].next /\ row.pid = runs[n].pid
  BY <1>1 DEF Row
<1>4. runs[n].status \in RUN_STATUSES
  BY <1>1 DEF Row, Exists
<1> HIDE DEF row
<1> QED BY <1>1, <1>2, <1>3, <1>4 DEF Written

\* The row when the pid reaches the store.
LEMMA RunningWritten ==
    ASSUME TypeOK, NEW n \in Ids, SetRunning(n)
    PROVE  /\ runs' \in [Ids -> Row]
           /\ runs'[n].status = "running" /\ runs'[n].class = runs[n].class
           /\ runs'[n].provider = runs[n].provider /\ runs'[n].max = runs[n].max
           /\ \A m \in Ids \ {n} : runs'[m] = runs[m]
<1>1. runs \in [Ids -> Row] /\ runs[n] \in Row
  BY DEF TypeOK
<1> DEFINE row == [runs[n] EXCEPT !.status = "running", !.pid = TRUE]
<1>2. runs' = [runs EXCEPT ![n] = row]
  BY <1>1 DEF SetRunning
<1>3. /\ row \in Row /\ row.status = "running" /\ row.class = runs[n].class
      /\ row.provider = runs[n].provider /\ row.max = runs[n].max
  BY <1>1 DEF Row, RUN_STATUSES
<1> HIDE DEF row
<1> QED BY <1>1, <1>2, <1>3

\* Rows that agree in all but the time of the next attempt.
Same(x, y) == /\ x.status = y.status /\ x.class = y.class /\ x.provider = y.provider
              /\ x.max = y.max /\ x.pid = y.pid

\* The rows before the insert of _schedule_retry: the delay is noted.
LEMMA DueRows ==
    ASSUME TypeOK, NEW n \in Ids
    PROVE  LET due == [runs EXCEPT ![n].next = TRUE, ![1].next = TRUE]
           IN  due \in [Ids -> Row] /\ \A m \in Ids : Same(due[m], runs[m])
<1>1. runs \in [Ids -> Row] /\ 1 \in Ids
  BY Bounds DEF TypeOK
<1>2. ASSUME NEW f \in [Ids -> Row], NEW i \in Ids
      PROVE  /\ [f EXCEPT ![i].next = TRUE] \in [Ids -> Row]
             /\ \A m \in Ids : Same([f EXCEPT ![i].next = TRUE][m], f[m])
  <2> DEFINE row == [f[i] EXCEPT !.next = TRUE]
  <2>1. row \in Row /\ Same(row, f[i])
    BY DEF Row, Same
  <2>2. [f EXCEPT ![i].next = TRUE] = [f EXCEPT ![i] = row]
    OBVIOUS
  <2> HIDE DEF row
  <2> QED BY <2>1, <2>2 DEF Same
<1> DEFINE one == [runs EXCEPT ![n].next = TRUE]
           two == [one EXCEPT ![1].next = TRUE]
<1>3. one \in [Ids -> Row] /\ \A m \in Ids : Same(one[m], runs[m])
  BY <1>1, <1>2
<1>4. two = [runs EXCEPT ![n].next = TRUE, ![1].next = TRUE]
  OBVIOUS
<1> HIDE DEF one
<1>5. two \in [Ids -> Row] /\ \A m \in Ids : Same(two[m], one[m])
  BY <1>1, <1>2, <1>3
<1> HIDE DEF two
<1>6. \A m \in Ids : Same(two[m], runs[m])
  BY <1>3, <1>5 DEF Same
<1> QED BY <1>4, <1>5, <1>6

\* The insert of the next attempt's row.
LEMMA ScheduledRows ==
    ASSUME TypeOK, NEW n \in Ids, n + 1 \in Ids, NEW base \in [Ids -> Row],
           NEW p \in Providers, NEW max \in Nat, NEW d \in BOOLEAN,
           Schedule(n, base, p, max, d)
    PROVE  /\ runs' \in [Ids -> Row]
           /\ runs'[n + 1].status = "queued" /\ runs'[n + 1].class = "none"
           /\ runs'[n + 1].provider = p /\ runs'[n + 1].max = max
           /\ \A m \in Ids \ {n + 1} : runs'[m] = base[m]
<1> DEFINE row == [status |-> "queued", class |-> "none", provider |-> p,
                   max |-> max, next |-> d, pid |-> FALSE]
<1>1. row \in Row
  BY DEF Row, RUN_STATUSES, Classes
<1>2. runs' = [base EXCEPT ![n + 1] = row]
  BY DEF Schedule
<1>3. row.status = "queued" /\ row.class = "none" /\ row.provider = p /\ row.max = max
  OBVIOUS
<1> HIDE DEF row
<1> QED BY <1>1, <1>2, <1>3

-----------------------------------------------------------------------------
(* What a step does to the rows.                                            *)

\* No attempt is inserted but the root; provider and budget are never rewritten.
RowsKept ==
    /\ runs' \in [Ids -> Row] /\ role' = role
    /\ \A m \in Ids : /\ runs'[m].provider = runs[m].provider /\ runs'[m].max = runs[m].max
                      /\ Exists(m) => Exists(m)'
                      /\ m # 1 /\ Exists(m)' => Exists(m)

\* Attempt n + 1 is inserted, on the same provider within the budget or on the next
\* one with one attempt more, and every other row says what it said.
RowInserted(n) ==
    /\ runs' \in [Ids -> Row] /\ role' = role
    /\ n + 1 \in Ids /\ ~Exists(n + 1) /\ runs[n].status = "failed"
    /\ runs[n].class \in {"transient", "capacity", "stalled"}
    /\ runs'[n + 1].status = "queued" /\ runs'[n + 1].class = "none"
    /\ \/ runs'[n + 1].provider = runs[n].provider /\ runs'[n + 1].max = runs[n].max
          /\ n < runs[n].max
       \/ runs'[n + 1].provider \in next_fallback_provider(runs[n].provider)
          /\ runs'[n + 1].max = runs[n].max + 1
    /\ \A m \in Ids \ {n + 1} : Same(runs'[m], runs[m])
    /\ launches' = [launches EXCEPT ![n + 1] = @ + 1]
    /\ \E to \in {"timer", "ready"} :
         worker' = [worker EXCEPT ![n + 1] = to, ![n] = IF @ = "retry" THEN "done" ELSE @]

RowsStep == RowsKept \/ \E n \in Ids : RowInserted(n)

\* A written row is one of the rows kept.
LEMMA WrittenKept ==
    ASSUME TypeOK, NEW n \in Ids, NEW s \in RUN_STATUSES, NEW c, Written(n, s, c),
           Exists(n) \/ n = 1, role' = role
    PROVE  RowsKept
<1>1. s # NoStatus
  BY DEF RUN_STATUSES, TERMINAL_STATUSES, NoStatus
<1> QED BY <1>1 DEF Written, RowsKept, Exists

\* So is a table that is left alone.
LEMMA SameKept == ASSUME TypeOK, runs' = runs, role' = role PROVE RowsKept
  BY DEF TypeOK, RowsKept, Exists

\* The card's status stays a status.
LEMMA CardTyped ==
    ASSUME TypeOK, NEW n \in Ids, NEW s \in RUN_STATUSES \cup {NoStatus}, ShowCard(n, s)
    PROVE  card' \in [Ids -> RUN_STATUSES \cup {NoStatus}]
  BY DEF TypeOK, ShowCard

\* The scheduling of another attempt inserts its row.
LEMMA ScheduleInserts ==
    ASSUME TypeOK, NEW n \in Ids, n + 1 \in Ids, ~Exists(n + 1), runs[n].status = "failed",
           runs[n].class \in {"transient", "capacity", "stalled"}, role' = role,
           NEW base \in [Ids -> Row], \A m \in Ids : Same(base[m], runs[m]),
           NEW p, NEW max, NEW d \in BOOLEAN, Schedule(n, base, p, max, d),
           \/ p = runs[n].provider /\ max = runs[n].max /\ n < runs[n].max
           \/ p \in next_fallback_provider(runs[n].provider) /\ max = runs[n].max + 1
    PROVE  RowInserted(n)
<1>1. runs[n] \in Row /\ role \in Roles
  BY DEF TypeOK
<1>2. runs[n].provider \in Providers /\ runs[n].max \in Nat
  BY <1>1 DEF Row
<1>3. p \in Providers /\ max \in Nat
  BY <1>1, <1>2, FallbackNamed
<1>4. /\ runs' \in [Ids -> Row]
      /\ runs'[n + 1].status = "queued" /\ runs'[n + 1].class = "none"
      /\ runs'[n + 1].provider = p /\ runs'[n + 1].max = max
      /\ \A m \in Ids \ {n + 1} : runs'[m] = base[m]
  BY <1>3, ScheduledRows
<1>5. /\ launches' = [launches EXCEPT ![n + 1] = @ + 1]
      /\ \E to \in {"timer", "ready"} :
           worker' = [worker EXCEPT ![n + 1] = to, ![n] = IF @ = "retry" THEN "done" ELSE @]
  BY DEF Schedule
<1> QED BY <1>4, <1>5 DEF RowInserted

\* The worker ends and the rows say what they said, or the root takes its success.
EndsQuietly(n) ==
    /\ runs' \in [Ids -> Row] /\ \A m \in Ids : Same(runs'[m], runs[m])
    /\ runs[n].status = "succeeded" => n = 1
    /\ Finish(n)
SucceedsRoot(n) ==
    n # 1 /\ runs[n].status = "succeeded" /\ Written(1, "succeeded", runs[1].class) /\ Finish(n)

\* Another attempt follows, on the same provider ...
LEMMA RetryRows ==
    ASSUME TypeOK, NEW n \in Ids, role' = role, Retry(n)
    PROVE  RowInserted(n) \/ EndsQuietly(n)
<1> DEFINE due == [runs EXCEPT ![n].next = TRUE, ![1].next = TRUE]
<1>1. due \in [Ids -> Row] /\ \A m \in Ids : Same(due[m], runs[m])
  BY DueRows
<1>2. /\ runs[n].status = "failed" /\ runs[n].class = "transient" /\ n < runs[n].max
      /\ IF Unclaimed(n + 1)
           THEN Schedule(n, due, runs[n].provider, runs[n].max, TRUE)
           ELSE runs' = due /\ Finish(n)
  BY DEF Retry, should_retry
<1> HIDE DEF due
<1>3. CASE Unclaimed(n + 1)
  <2>1. n + 1 \in Ids /\ ~Exists(n + 1)
    BY <1>3 DEF Unclaimed, Exists
  <2> QED BY <1>1, <1>2, <1>3, <2>1, ScheduleInserts
<1>4. CASE ~Unclaimed(n + 1)
  BY <1>1, <1>2, <1>4 DEF EndsQuietly
<1> QED BY <1>3, <1>4

\* ... or on another.
LEMMA FallbackRows ==
    ASSUME TypeOK, NEW n \in Ids, role' = role, Fallback(n)
    PROVE  RowInserted(n)
<1>1. runs \in [Ids -> Row] /\ \A m \in Ids : Same(runs[m], runs[m])
  BY DEF TypeOK, Same
<1>2. /\ runs[n].status = "failed" /\ runs[n].class \in {"transient", "capacity"}
      /\ n + 1 \in Ids /\ ~Exists(n + 1)
  BY DEF Fallback, Unclaimed, Exists
<1>3. PICK p \in next_fallback_provider(runs[n].provider) :
          Schedule(n, runs, p, runs[n].max + 1, FALSE)
  BY DEF Fallback
<1> QED BY <1>1, <1>2, <1>3, ScheduleInserts

\* The follow-up sweep does the same.
LEMMA FollowUpRows ==
    ASSUME TypeOK, NEW n \in Ids, FollowUp(n)
    PROVE  RowInserted(n)
<1>1. runs \in [Ids -> Row] /\ \A m \in Ids : Same(runs[m], runs[m])
  BY DEF TypeOK, Same
<1>2. /\ runs[n].status = "failed" /\ runs[n].class \in {"transient", "stalled"}
      /\ n < runs[n].max /\ n + 1 \in Ids /\ ~Exists(n + 1) /\ role' = role
      /\ Schedule(n, runs, runs[n].provider, runs[n].max, FALSE)
  BY DEF FollowUp, should_retry, Unclaimed, Exists
<1> QED BY <1>1, <1>2, ScheduleInserts

\* handle_post_execution_retry: the four ways it ends.
LEMMA PostExecutionRows ==
    ASSUME TypeOK, NEW n \in Ids, PostExecution(n)
    PROVE  RowInserted(n) \/ EndsQuietly(n) \/ SucceedsRoot(n)
<1>1. role' = role /\ runs \in [Ids -> Row] /\ \A m \in Ids : Same(runs[m], runs[m])
  BY DEF TypeOK, Same, PostExecution
<1>2. CASE Succeeded(n) /\ n = 1
  BY <1>1, <1>2 DEF Succeeded, EndsQuietly
<1>3. CASE Succeeded(n) /\ n # 1
  <2>1. SetStatus(1, "succeeded") /\ Finish(n) /\ runs[n].status = "succeeded"
    BY <1>3 DEF Succeeded
  <2>2. "succeeded" \in RUN_STATUSES
    BY DEF RUN_STATUSES, TERMINAL_STATUSES
  <2> QED BY <1>3, <2>1, <2>2, Bounds, StatusWritten DEF SucceedsRoot
<1>4. CASE Retry(n)
  BY <1>1, <1>4, RetryRows
<1>5. CASE Fallback(n)
  BY <1>1, <1>5, FallbackRows
<1>6. CASE GiveUp(n)
  BY <1>1, <1>6 DEF GiveUp, EndsQuietly
<1> QED BY <1>2, <1>3, <1>4, <1>5, <1>6 DEF PostExecution


-----------------------------------------------------------------------------
(* Types, and one worker per attempt.                                       *)

\* No worker is taken on, and only an attempt that exists is cancelled.
WorkersKept ==
    /\ launches' = launches /\ todo' \subseteq todo
    /\ \A m \in Ids : /\ worker'[m] # "none" => worker[m] # "none"
                      /\ worker'[m] = "admitted" => worker[m] = "admitted"
                      /\ canceller'[m] # "idle" \/ watchdog'[m] # "idle" => Exists(m)

\* A step that inserts no attempt and takes on no worker.
LEMMA LaunchedKept ==
    ASSUME TypeOK, Launched, RowsKept, WorkersKept
    PROVE  Launched'
<1>1. \A r \in todo : r[1] \in Ids
  BY DEF TypeOK
<1> QED BY <1>1 DEF Launched, RowsKept, WorkersKept, Exists

\* The insert of an attempt's row takes on its only worker.
LEMMA LaunchedInserted ==
    ASSUME TypeOK, Launched, NEW n \in Ids, RowInserted(n),
           UNCHANGED <<watchdog, canceller, todo>>
    PROVE  Launched'
<1> USE DEF RowInserted
<1>1. n + 1 \in Ids /\ n \in Nat /\ n # n + 1 /\ n + 1 # 1 /\ "queued" # NoStatus
  BY StaffRunBounds DEF Ids, NoStatus
<1>2. launches \in [Ids -> Nat] /\ worker \in [Ids -> Steps]
  BY DEF TypeOK
<1>3. launches[n + 1] = 0
  BY <1>1, <1>2 DEF Launched
<1>4. /\ launches'[n + 1] = 1
      /\ \A m \in Ids \ {n + 1} : launches'[m] = launches[m]
  BY <1>1, <1>2, <1>3
<1>5. Exists(n + 1)' /\ \A m \in Ids \ {n + 1} : Exists(m)' <=> Exists(m)
  BY <1>1 DEF Exists, Same
<1>6. PICK to \in {"timer", "ready"} :
         worker' = [worker EXCEPT ![n + 1] = to, ![n] = IF @ = "retry" THEN "done" ELSE @]
  OBVIOUS
<1>7. /\ worker'[n + 1] = to
      /\ \A m \in Ids \ {n + 1} :
           worker'[m] = worker[m] \/ (worker'[m] = "done" /\ worker[m] = "retry")
  BY <1>1, <1>2, <1>6
<1>8. \A r \in todo' : Exists(r[1])'
  BY <1>5 DEF TypeOK, Launched
<1> HIDE DEF RowInserted
<1>9. ASSUME NEW m \in Ids
      PROVE  /\ launches'[m] <= 1
             /\ launches'[m] = 1 => Exists(m)'
             /\ worker'[m] = "admitted" => m = 1 /\ launches'[m] = 0
             /\ worker'[m] # "none" \/ canceller'[m] # "idle" \/ watchdog'[m] # "idle"
                  => Exists(m)'
  BY <1>1, <1>4, <1>5, <1>7 DEF Launched
<1> QED BY <1>8, <1>9 DEF Launched

\* The statuses and classes the code writes.
LEMMA Vocabulary ==
    /\ {"queued", "preparing", "running", "succeeded", "failed", "cancelled", "blocked",
        "needs_input"} \subseteq RUN_STATUSES
    /\ NoStatus \notin RUN_STATUSES
    /\ {"transient", "capacity", "stalled", "other", "none"} = Classes
  BY DEF RUN_STATUSES, TERMINAL_STATUSES, NoStatus, Classes

\* A step of the kind most steps are: the rows are kept and everything has its type.
Kept == TypeOK' /\ RowsKept /\ Launched'

\* The slots are taken.
LEMMA AcquireKept == ASSUME TypeOK, Launched, NEW n \in Ids, Acquire(n) PROVE Kept
<1>1. RowsKept
  BY SameKept DEF Acquire
<1>2. TypeOK'
  BY <1>1 DEF TypeOK, RowsKept, Acquire, Steps, locals, cancels, system, process
<1>3. WorkersKept
  BY DEF WorkersKept, TypeOK, Launched, Acquire, Steps, locals, cancels, system, process
<1> QED BY <1>1, <1>2, <1>3, LaunchedKept DEF Kept

\* The row says preparing.
LEMMA SetPreparingKept == ASSUME TypeOK, Launched, NEW n \in Ids, SetPreparing(n) PROVE Kept
<1>1. RowsKept
  <2>1. SetStatus(n, "preparing") /\ role' = role /\ Exists(n)
    BY DEF Launched, SetPreparing, Step, Steps, locals, cancels, system, process
  <2> QED BY <2>1, Vocabulary, StatusWritten, WrittenKept
<1>2. TypeOK'
  BY <1>1 DEF TypeOK, RowsKept, SetPreparing, Step, Steps, locals, cancels, system, process
<1>3. WorkersKept
  BY DEF WorkersKept, TypeOK, Launched, SetPreparing, Step, Steps, locals, cancels,
         system, process
<1> QED BY <1>1, <1>2, <1>3, LaunchedKept DEF Kept

\* The card says preparing.
LEMMA PostPreparingKept == ASSUME TypeOK, Launched, NEW n \in Ids, PostPreparing(n) PROVE Kept
<1>1. RowsKept
  BY SameKept DEF PostPreparing
<1>2. TypeOK'
  BY <1>1, CardTyped, Vocabulary
     DEF TypeOK, RowsKept, PostPreparing, Step, Steps, locals, cancels, system, process
<1>3. WorkersKept
  BY DEF WorkersKept, TypeOK, Launched, PostPreparing, Step, Steps, locals, cancels,
         system, process
<1> QED BY <1>1, <1>2, <1>3, LaunchedKept DEF Kept

\* Preparation fails.
LEMMA PrepareFailsKept == ASSUME TypeOK, Launched, NEW n \in Ids, PrepareFails(n) PROVE Kept
<1>1. RowsKept
  <2>1. PICK o \in {<<"failed", "transient">>, <<"failed", "other">>, <<"blocked", "other">>} :
             runs' = [runs EXCEPT ![n].status = o[1], ![n].class = o[2]]
    BY DEF PrepareFails, Step, Steps, locals, cancels, system, process
  <2>2. o[1] \in RUN_STATUSES /\ o[2] \in Classes /\ role' = role /\ Exists(n)
    BY <2>1, Vocabulary
       DEF Launched, Outcomes, PrepareFails, Step, Steps, locals, cancels, system, process
  <2> QED BY <2>1, <2>2, OutcomeWritten, WrittenKept
<1>2. TypeOK'
  BY <1>1 DEF TypeOK, RowsKept, PrepareFails, Step, Steps, locals, cancels, system, process
<1>3. WorkersKept
  BY DEF WorkersKept, TypeOK, Launched, PrepareFails, Step, Steps, locals, cancels,
         system, process
<1> QED BY <1>1, <1>2, <1>3, LaunchedKept DEF Kept

\* The launch is refused.
LEMMA LaunchRefusedKept == ASSUME TypeOK, Launched, NEW n \in Ids, LaunchRefused(n) PROVE Kept
<1>1. RowsKept
  <2>1. PICK o \in {<<"failed", "transient">>, <<"failed", "other">>, <<"blocked", "other">>} :
             runs' = [runs EXCEPT ![n].status = o[1], ![n].class = o[2]]
    BY DEF LaunchRefused, Step, Steps, locals, cancels, system, process
  <2>2. o[1] \in RUN_STATUSES /\ o[2] \in Classes /\ role' = role /\ Exists(n)
    BY <2>1, Vocabulary
       DEF Launched, Outcomes, LaunchRefused, Step, Steps, locals, cancels, system, process
  <2> QED BY <2>1, <2>2, OutcomeWritten, WrittenKept
<1>2. TypeOK'
  BY <1>1 DEF TypeOK, RowsKept, LaunchRefused, Step, Steps, locals, cancels, system, process
<1>3. WorkersKept
  BY DEF WorkersKept, TypeOK, Launched, LaunchRefused, Step, Steps, locals, cancels,
         system, process
<1> QED BY <1>1, <1>2, <1>3, LaunchedKept DEF Kept

\* The process is started and registered.
LEMMA SpawnKept == ASSUME TypeOK, Launched, NEW n \in Ids, Spawn(n) PROVE Kept
<1>1. RowsKept
  BY SameKept DEF Spawn
<1>2. TypeOK'
  BY <1>1 DEF TypeOK, RowsKept, Spawn, Step, Steps, locals, cancels, system, process
<1>3. WorkersKept
  BY DEF WorkersKept, TypeOK, Launched, Spawn, Step, Steps, locals, cancels, system, process
<1> QED BY <1>1, <1>2, <1>3, LaunchedKept DEF Kept

\* The card says running, and a process cancelled meanwhile is terminated.
LEMMA PostRunningKept == ASSUME TypeOK, Launched, NEW n \in Ids, PostRunning(n) PROVE Kept
<1>1. RowsKept
  BY SameKept DEF PostRunning
<1>2. TypeOK'
  BY <1>1, CardTyped, Vocabulary
     DEF TypeOK, RowsKept, PostRunning, terminate_process_group, Terminated, Survives,
          Step, Steps, locals, cancels, system, process
<1>3. WorkersKept
  BY DEF WorkersKept, TypeOK, Launched, PostRunning, Step, Steps, locals, cancels,
         system, process
<1> QED BY <1>1, <1>2, <1>3, LaunchedKept DEF Kept

\* The process is reaped.
LEMMA ReapKept == ASSUME TypeOK, Launched, NEW n \in Ids, Reap(n) PROVE Kept
<1>1. RowsKept
  BY SameKept DEF Reap
<1>2. TypeOK'
  BY <1>1 DEF TypeOK, RowsKept, Reap, Step, Steps, locals, cancels, system, process
<1>3. WorkersKept
  BY DEF WorkersKept, TypeOK, Launched, Reap, Step, Steps, locals, cancels, system, process
<1> QED BY <1>1, <1>2, <1>3, LaunchedKept DEF Kept

\* The worker gives up waiting for it.
LEMMA WaitExpiresKept == ASSUME TypeOK, Launched, NEW n \in Ids, WaitExpires(n) PROVE Kept
<1>1. RowsKept
  BY SameKept DEF WaitExpires
<1>2. TypeOK'
  BY <1>1 DEF TypeOK, RowsKept, WaitExpires, Step, Steps, locals, cancels, system, process
<1>3. WorkersKept
  BY DEF WorkersKept, TypeOK, Launched, WaitExpires, Step, Steps, locals, cancels, system,
         process
<1> QED BY <1>1, <1>2, <1>3, LaunchedKept DEF Kept

\* A time limit is over.
LEMMA ExpireKept == ASSUME TypeOK, Launched, NEW n \in Ids, Expire(n) PROVE Kept
<1>1. RowsKept
  BY SameKept DEF Expire
<1>2. TypeOK'
  BY <1>1 DEF TypeOK, RowsKept, Expire, Terminated, Survives, cancels, system
<1>3. WorkersKept
  BY DEF WorkersKept, TypeOK, Launched, Expire, cancels, system
<1> QED BY <1>1, <1>2, <1>3, LaunchedKept DEF Kept

\* The row says why.
LEMMA WatchdogWritesKept ==
    ASSUME TypeOK, Launched, NEW n \in Ids, WatchdogWrites(n) PROVE Kept
<1>0. Exists(n)
  BY DEF Launched, WatchdogWrites
<1>1. PICK s \in RUN_STATUSES, c \in Classes : Written(n, s, c)
  <2>1. CASE \E c \in {"stalled", "other"} : runs' = [runs EXCEPT ![n].class = c]
    BY <1>0, <2>1, Vocabulary, ClassWritten
  <2>2. CASE runs' = [runs EXCEPT ![n].status = "failed", ![n].class = "other"]
    BY <2>2, Vocabulary, OutcomeWritten
  <2> QED BY <2>1, <2>2 DEF WatchdogWrites
<1>2. RowsKept
  BY <1>0, <1>1, WrittenKept DEF WatchdogWrites
<1>3. TypeOK'
  BY <1>2 DEF TypeOK, RowsKept, WatchdogWrites, cancels, system, process
<1>4. WorkersKept
  BY DEF WorkersKept, TypeOK, Launched, WatchdogWrites, cancels, system
<1> QED BY <1>2, <1>3, <1>4, LaunchedKept DEF Kept

\* The outcome is recorded.
LEMMA RecordKept == ASSUME TypeOK, Launched, NEW n \in Ids, Record(n) PROVE Kept
<1>1. RowsKept
  <2>1. PICK o \in Outcomes(n) :
             runs' = [runs EXCEPT ![n].status = o[1], ![n].class = o[2]]
    BY DEF Record, Step, Steps, locals, cancels, system, process
  <2>2. o[1] \in RUN_STATUSES /\ o[2] \in Classes /\ role' = role /\ Exists(n)
    BY <2>1, Vocabulary DEF Launched, Outcomes, Record, Step, Steps, locals, cancels,
                            system, process
  <2> QED BY <2>1, <2>2, OutcomeWritten, WrittenKept
<1>2. TypeOK'
  <2>1. PICK o \in Outcomes(n) : classified' = [classified EXCEPT ![n] = o[1]]
    BY DEF Record
  <2>2. o[1] \in RUN_STATUSES
    BY <2>1, Vocabulary DEF Outcomes
  <2> QED BY <1>1, <2>1, <2>2 DEF TypeOK, RowsKept, Record, Step, Steps, locals, cancels,
                                  system, process
<1>3. WorkersKept
  BY DEF WorkersKept, TypeOK, Launched, Record, Step, Steps, locals, cancels, system, process
<1> QED BY <1>1, <1>2, <1>3, LaunchedKept DEF Kept

\* The card shows the outcome.
LEMMA PostOutcomeKept == ASSUME TypeOK, Launched, NEW n \in Ids, PostOutcome(n) PROVE Kept
<1>1. RowsKept
  BY SameKept DEF PostOutcome
<1>2. TypeOK'
  BY <1>1, CardTyped DEF TypeOK, RowsKept, PostOutcome, Step, Steps, locals, cancels,
                         system, process
<1>3. WorkersKept
  BY DEF WorkersKept, TypeOK, Launched, PostOutcome, Step, Steps, locals, cancels,
         system, process
<1> QED BY <1>1, <1>2, <1>3, LaunchedKept DEF Kept

\* An exception fails the run.
LEMMA WorkerErrorKept == ASSUME TypeOK, Launched, NEW n \in Ids, WorkerError(n) PROVE Kept
<1>1. RowsKept
  <2>1. SetStatus(n, "failed") /\ role' = role /\ Exists(n)
    BY DEF Launched, WorkerError, Holding, Steps, locals, cancels, system, process
  <2> QED BY <2>1, Vocabulary, StatusWritten, WrittenKept
<1>2. TypeOK'
  BY <1>1 DEF TypeOK, RowsKept, WorkerError, Holding, Steps, locals, cancels, system, process
<1>3. WorkersKept
  BY DEF WorkersKept, TypeOK, Launched, WorkerError, Holding, Steps, locals, cancels,
         system, process
<1> QED BY <1>1, <1>2, <1>3, LaunchedKept DEF Kept

\* The backoff is over.
LEMMA TimerFiresKept == ASSUME TypeOK, Launched, NEW n \in Ids, TimerFires(n) PROVE Kept
<1>1. RowsKept
  BY SameKept DEF TimerFires
<1>2. TypeOK'
  BY <1>1 DEF TypeOK, RowsKept, TimerFires, Step, Steps, locals, cancels, system, process
<1>3. WorkersKept
  BY DEF WorkersKept, TypeOK, Launched, TimerFires, Step, Steps, locals, cancels, system,
         process
<1> QED BY <1>1, <1>2, <1>3, LaunchedKept DEF Kept

\* The process ends.
LEMMA ChildExitsKept == ASSUME TypeOK, Launched, NEW n \in Ids, ChildExits(n) PROVE Kept
<1>1. RowsKept
  BY SameKept DEF ChildExits
<1>2. TypeOK'
  BY <1>1 DEF TypeOK, RowsKept, ChildExits, memory, locals, cancels, system, process
<1>3. WorkersKept
  BY DEF WorkersKept, TypeOK, Launched, ChildExits, memory, locals, cancels, system, process
<1> QED BY <1>1, <1>2, <1>3, LaunchedKept DEF Kept

\* A cancel request sets its flag.
LEMMA CancelFlagKept == ASSUME TypeOK, Launched, NEW n \in Ids, CancelFlag(n) PROVE Kept
<1>1. RowsKept
  BY SameKept DEF CancelFlag
<1>2. TypeOK'
  BY <1>1 DEF TypeOK, RowsKept, CancelFlag, Exists, locals, cancels, system, process
<1>3. WorkersKept
  BY DEF WorkersKept, TypeOK, Launched, CancelFlag, Exists, locals, cancels, system, process
<1> QED BY <1>1, <1>2, <1>3, LaunchedKept DEF Kept

\* It decides.
LEMMA CancelDecideKept == ASSUME TypeOK, Launched, NEW n \in Ids, CancelDecide(n) PROVE Kept
<1>1. RowsKept
  BY SameKept DEF CancelDecide
<1>2. TypeOK'
  BY <1>1 DEF TypeOK, RowsKept, CancelDecide, terminate_process_group, Terminated, Survives,
          locals, cancels, system, process
<1>3. WorkersKept
  BY DEF WorkersKept, TypeOK, Launched, CancelDecide, locals, cancels, system, process
<1> QED BY <1>1, <1>2, <1>3, LaunchedKept DEF Kept

\* It closes the row.
LEMMA CancelWriteKept == ASSUME TypeOK, Launched, NEW n \in Ids, CancelWrite(n) PROVE Kept
<1>1. RowsKept
  <2>1. SetStatus(n, "cancelled") /\ role' = role /\ Exists(n)
    BY DEF Launched, CancelWrite, locals, cancels, system, process
  <2> QED BY <2>1, Vocabulary, StatusWritten, WrittenKept
<1>2. TypeOK'
  BY <1>1 DEF TypeOK, RowsKept, CancelWrite, locals, cancels, system, process
<1>3. WorkersKept
  BY DEF WorkersKept, TypeOK, Launched, CancelWrite, locals, cancels, system, process
<1> QED BY <1>1, <1>2, <1>3, LaunchedKept DEF Kept

\* It closes the card.
LEMMA CancelPostKept == ASSUME TypeOK, Launched, NEW n \in Ids, CancelPost(n) PROVE Kept
<1>1. RowsKept
  BY SameKept DEF CancelPost
<1>2. TypeOK'
  BY <1>1, CardTyped, Vocabulary DEF TypeOK, RowsKept, CancelPost, locals, cancels,
                                     system, process
<1>3. WorkersKept
  BY DEF WorkersKept, TypeOK, Launched, CancelPost, locals, cancels, system, process
<1> QED BY <1>1, <1>2, <1>3, LaunchedKept DEF Kept

\* The dashboard stops.
LEMMA CrashKept == ASSUME TypeOK, Launched, Crash PROVE Kept
<1>1. RowsKept
  BY SameKept DEF Crash
<1>2. TypeOK'
  BY <1>1, Bounds, Vocabulary DEF TypeOK, RowsKept, Crash, Steps, locals, cancels,
                                  system, process
<1>3. WorkersKept
  BY DEF WorkersKept, TypeOK, Launched, Crash, Steps, locals, cancels, system, process
<1> QED BY <1>1, <1>2, <1>3, LaunchedKept DEF Kept

\* It starts.
LEMMA StartKept == ASSUME TypeOK, Launched, Start PROVE Kept
<1>1. RowsKept
  BY SameKept DEF Start
<1>2. TypeOK'
  BY <1>1 DEF TypeOK, RowsKept, Start, memory, locals, cancels, system, process
<1>3. WorkersKept
  BY DEF WorkersKept, TypeOK, Launched, Start, memory, locals, cancels, system, process
<1> QED BY <1>1, <1>2, <1>3, LaunchedKept DEF Kept

\* Reconciliation ends.
LEMMA ReconcileDoneKept == ASSUME TypeOK, Launched, ReconcileDone PROVE Kept
<1>1. RowsKept
  BY SameKept DEF ReconcileDone
<1>2. TypeOK'
  BY <1>1 DEF TypeOK, RowsKept, ReconcileDone, memory, locals, cancels, system, process
<1>3. WorkersKept
  BY DEF WorkersKept, TypeOK, Launched, ReconcileDone, memory, locals, cancels, system, process
<1> QED BY <1>1, <1>2, <1>3, LaunchedKept DEF Kept

\* The pid reaches the store.
LEMMA SetRunningKept == ASSUME TypeOK, Launched, NEW n \in Ids, SetRunning(n) PROVE Kept
<1>1. RowsKept
  <2>1. role' = role /\ Exists(n) /\ "running" # NoStatus
    BY DEF Launched, SetRunning, Step, NoStatus
  <2> QED BY <2>1, RunningWritten DEF RowsKept, Exists
<1>2. TypeOK'
  BY <1>1 DEF TypeOK, RowsKept, SetRunning, Step, Steps, locals, cancels, system, process
<1>3. WorkersKept
  BY DEF WorkersKept, TypeOK, Launched, SetRunning, Step, Steps, locals, cancels, system,
         process
<1> QED BY <1>1, <1>2, <1>3, LaunchedKept DEF Kept

\* The deliverables are verified.
LEMMA VerifyKept == ASSUME TypeOK, Launched, NEW n \in Ids, Verify(n) PROVE Kept
<1>1. RowsKept
  <2>1. role' = role /\ Exists(n)
    BY DEF Launched, Verify, Step
  <2>2. CASE UNCHANGED runs
    BY <2>1, <2>2, SameKept
  <2>3. CASE runs' = [runs EXCEPT ![n].status = "failed", ![n].class = "other"]
    BY <2>1, <2>3, Vocabulary, OutcomeWritten, WrittenKept
  <2> QED BY <2>2, <2>3 DEF Verify
<1>2. TypeOK'
  BY <1>1 DEF TypeOK, RowsKept, Verify, Step, Steps, locals, cancels, system, process
<1>3. WorkersKept
  BY DEF WorkersKept, TypeOK, Launched, Verify, Step, Steps, locals, cancels, system, process
<1> QED BY <1>1, <1>2, <1>3, LaunchedKept DEF Kept

\* The root is admitted, once.
LEMMA AdmitKept == ASSUME TypeOK, Launched, Admit PROVE Kept
<1>1. 1 \in Ids /\ ~Exists(1) /\ role' = role /\ launches[1] = 0
  <2>1. 1 \in Ids /\ ~Exists(1) /\ role' = role
    BY Bounds DEF Admit, Exists
  <2> QED BY <2>1 DEF Launched, TypeOK
<1>2. Written(1, "queued", runs[1].class)
  BY <1>1, Vocabulary, StatusWritten DEF Admit
<1>3. RowsKept
  BY <1>1, <1>2, Vocabulary, WrittenKept
<1>4. TypeOK'
  BY <1>3 DEF TypeOK, RowsKept, Admit, Step, Steps, locals, cancels, system, process
<1>5. Launched'
  <2>1. /\ Exists(1)' /\ launches' = launches /\ UNCHANGED <<watchdog, canceller, todo>>
        /\ worker'[1] = "admitted" /\ \A m \in Ids \ {1} : worker'[m] = worker[m]
    BY <1>1, <1>2, Vocabulary DEF Written, Exists, Admit, Step, TypeOK, locals, cancels,
                                  system, process
  <2>2. \A m \in Ids : Exists(m) => Exists(m)'
    BY <1>3 DEF RowsKept
  <2>3. \A r \in todo' : Exists(r[1])'
    BY <2>1, <2>2 DEF TypeOK, Launched
  <2> QED BY <1>1, <2>1, <2>2, <2>3 DEF Launched
<1> QED BY <1>3, <1>4, <1>5 DEF Kept

\* The root's worker is taken on, by the thread that admitted it.
LEMMA LaunchKept == ASSUME TypeOK, Launched, Launch PROVE Kept
<1>1. 1 \in Ids /\ Exists(1) /\ launches[1] = 0
  BY Bounds DEF Launched, Launch, Step
<1>2. RowsKept
  BY SameKept DEF Launch
<1>3. /\ launches'[1] = 1 /\ \A m \in Ids \ {1} : launches'[m] = launches[m]
      /\ launches' \in [Ids -> Nat]
  BY <1>1 DEF TypeOK, Launch
<1>4. TypeOK'
  BY <1>1, <1>2, <1>3, CardTyped, Vocabulary
     DEF TypeOK, RowsKept, Launch, Step, Steps, locals, cancels, system, process
<1>5. Launched'
  <2>1. /\ runs' = runs /\ UNCHANGED <<watchdog, canceller, todo>>
        /\ worker'[1] = "ready" /\ \A m \in Ids \ {1} : worker'[m] = worker[m]
    BY <1>1 DEF Launch, Step, TypeOK, locals, cancels, system
  <2> QED BY <1>1, <1>3, <2>1 DEF Launched, Exists
<1> QED BY <1>2, <1>4, <1>5 DEF Kept

\* The active rows are read.
LEMMA ReconcileScanKept == ASSUME TypeOK, Launched, ReconcileScan PROVE Kept
<1>1. RowsKept
  BY SameKept DEF ReconcileScan
<1>2. \A r \in todo' : /\ r \in Ids \X BOOLEAN /\ r[2] = runs[r[1]].pid /\ Active(r[1])
                       /\ Exists(r[1])
  <2>1. \A n \in Ids : runs[n].pid \in BOOLEAN /\ (Active(n) => Exists(n))
    BY DEF TypeOK, Row, Active, ACTIVE_STATUSES, Exists, NoStatus
  <2> QED BY <2>1 DEF ReconcileScan
<1>3. TypeOK'
  BY <1>1, <1>2 DEF TypeOK, RowsKept, ReconcileScan, memory, locals, cancels, process
<1>4. Launched'
  BY <1>2 DEF Launched, Exists, ReconcileScan, memory, locals, cancels, process
<1> QED BY <1>1, <1>3, <1>4 DEF Kept

\* A row is reconciled.
LEMMA ReconcileRunKept == ASSUME TypeOK, Launched, NEW r \in todo, ReconcileRun(r) PROVE Kept
<1> DEFINE n == r[1]
<1>1. n \in Ids /\ Exists(n) /\ role' = role
  BY DEF TypeOK, Launched, ReconcileRun
<1>2. runs' = [runs EXCEPT ![n].status = "failed", ![n].class = "other"]
  BY DEF ReconcileRun
<1>3. /\ child' \in [Ids -> {"none", "alive", "dead"}] /\ unkilled' \subseteq Ids
      /\ todo' = todo \ {r} /\ unreaped' = unreaped
  BY <1>1 DEF TypeOK, ReconcileRun, terminate_process_group, Terminated, Survives
<1> HIDE DEF n
<1>4. RowsKept
  BY <1>1, <1>2, Vocabulary, OutcomeWritten, WrittenKept
<1>5. TypeOK'
  BY <1>1, <1>3, <1>4 DEF TypeOK, RowsKept, ReconcileRun, memory, locals, cancels, process
<1>6. WorkersKept
  BY <1>3 DEF WorkersKept, TypeOK, Launched, ReconcileRun, memory, locals, cancels, process
<1> QED BY <1>4, <1>5, <1>6, LaunchedKept DEF Kept

\* An insert keeps the types.
LEMMA InsertedTyped ==
    ASSUME TypeOK, Launched, NEW n \in Ids, RowInserted(n),
           UNCHANGED <<card, process, locals, cancels, system>>
    PROVE  TypeOK' /\ Launched'
<1>1. Launched'
  BY LaunchedInserted DEF locals, cancels, system
<1>2. worker' \in [Ids -> Steps] /\ launches' \in [Ids -> Nat]
  BY DEF TypeOK, RowInserted, Steps
<1>3. TypeOK'
  BY <1>2 DEF TypeOK, RowInserted, locals, cancels, system, process
<1> QED BY <1>1, <1>3

\* What follows an attempt.
LEMMA PostExecutionKept ==
    ASSUME TypeOK, Launched, NEW n \in Ids, PostExecution(n)
    PROVE  Kept \/ (TypeOK' /\ Launched' /\ RowInserted(n))
<1> USE DEF PostExecution
<1>1. CASE RowInserted(n)
  BY <1>1, InsertedTyped
<1>2. ASSUME RowsKept, Finish(n) PROVE Kept
  <2>1. TypeOK'
    BY <1>2 DEF TypeOK, RowsKept, Finish, Steps, locals, cancels, system, process
  <2>2. WorkersKept
    BY <1>2 DEF WorkersKept, TypeOK, Launched, Finish, locals, cancels, system, process
  <2> QED BY <1>2, <2>1, <2>2, LaunchedKept DEF Kept
<1>3. CASE EndsQuietly(n)
  <2>1. RowsKept
    BY <1>3 DEF EndsQuietly, Same, RowsKept, Exists
  <2> QED BY <1>2, <1>3, <2>1 DEF EndsQuietly
<1>4. CASE SucceedsRoot(n)
  <2>1. RowsKept
    BY <1>4, Bounds, Vocabulary, WrittenKept DEF SucceedsRoot
  <2> QED BY <1>2, <1>4, <2>1 DEF SucceedsRoot
<1> QED BY <1>1, <1>3, <1>4, PostExecutionRows

\* A retry of the follow-up sweep.
LEMMA FollowUpKept ==
    ASSUME TypeOK, Launched, NEW n \in Ids, FollowUp(n)
    PROVE  TypeOK' /\ Launched' /\ RowInserted(n)
  BY FollowUpRows, InsertedTyped DEF FollowUp

\* Every step.
LEMMA StepTyped ==
    ASSUME TypeOK, Launched, [Next]_vars PROVE TypeOK' /\ Launched' /\ RowsStep
<1>1. CASE Next
  <2>1. CASE Admit \/ Launch \/ Crash
    BY <2>1, AdmitKept, LaunchKept, CrashKept DEF Kept, RowsStep
  <2>2. CASE Boot
    BY <2>2, StartKept, ReconcileScanKept, ReconcileRunKept, ReconcileDoneKept
       DEF Boot, Kept, RowsStep
  <2>3. ASSUME NEW n \in Ids, Work(n) PROVE TypeOK' /\ Launched' /\ RowsStep
    BY <2>3, AcquireKept, SetPreparingKept, PostPreparingKept, PrepareFailsKept,
       LaunchRefusedKept, SpawnKept, SetRunningKept, PostRunningKept, ReapKept, RecordKept,
       VerifyKept, PostOutcomeKept, WorkerErrorKept, PostExecutionKept, TimerFiresKept
       DEF Work, Kept, RowsStep
  <2>4. ASSUME NEW n \in Ids,
               \/ Watch(n) \/ ChildExits(n) \/ WaitExpires(n)
               \/ FollowUp(n) \/ CancelFlag(n) \/ Cancel(n)
        PROVE  TypeOK' /\ Launched' /\ RowsStep
    BY <2>4, ExpireKept, WatchdogWritesKept, ChildExitsKept, WaitExpiresKept, FollowUpKept,
       CancelFlagKept, CancelDecideKept, CancelWriteKept, CancelPostKept
       DEF Watch, Cancel, Kept, RowsStep
  <2> QED BY <1>1, <2>1, <2>2, <2>3, <2>4 DEF Next
<1>2. CASE UNCHANGED vars
  <2> USE <1>2 DEF vars, memory, locals, cancels, system, process
  <2>1. TypeOK'
    BY DEF TypeOK
  <2>2. Launched'
    BY DEF Launched, Exists
  <2>3. RowsKept
    BY SameKept
  <2> QED BY <2>1, <2>2, <2>3 DEF RowsStep
<1> QED BY <1>1, <1>2

-----------------------------------------------------------------------------
(* Attempts are bounded.                                                    *)

\* next_fallback_provider goes one provider further, or returns None.
LEMMA NextRung ==
    ASSUME role \in Roles, ChainsEnd, NEW k \in 0..Chain,
           NEW p \in next_fallback_provider(Rung(k))
    PROVE  k + 1 \in 0..Chain /\ p = Rung(k + 1)
<1> DEFINE P == role.providers
           F == role.fallbacks
<1>1. /\ P \in Seq(Named(role)) /\ F \in Seq(Named(role)) /\ Len(P) \in Nat \ {0}
      /\ Len(F) <= 1 /\ \A i, j \in DOMAIN P : P[i] = P[j] => i = j
  BY RoleShape DEF ChainsEnd
<1>2. /\ Chain = IF F = <<>> THEN Len(P) - 1 ELSE Len(F)
      /\ \A i : Rung(i) = IF i = 0 THEN P[1] ELSE IF F = <<>> THEN P[i + 1] ELSE F[i]
  BY DEF Chain, Rung
<1>3. p \in IF F # <<>> THEN LET hits == {i \in DOMAIN F : F[i] # Rung(k)}
                             IN  IF hits = {} THEN {}
                                 ELSE {F[CHOOSE i \in hits : \A j \in hits : i <= j]}
            ELSE {P[i + 1] : i \in {j \in 1..(Len(P) - 1) : P[j] = Rung(k)}}
  BY DEF next_fallback_provider, First
<1> HIDE DEF P, F
<1>4. CASE F = <<>>
  <2>1. PICK i \in 1..(Len(P) - 1) : P[i] = Rung(k) /\ p = P[i + 1]
    BY <1>3, <1>4
  <2>2. Rung(k) = P[k + 1] /\ k \in 0..(Len(P) - 1) /\ k + 1 \in DOMAIN P /\ i \in DOMAIN P
    BY <1>1, <1>2, <1>4
  <2>3. i = k + 1
    BY <1>1, <2>1, <2>2
  <2> QED BY <1>1, <1>2, <1>4, <2>1, <2>3
<1>5. CASE F # <<>>
  <2>1. Len(F) = 1 /\ DOMAIN F = {1} /\ Chain = 1
    BY <1>1, <1>2, <1>5
  <2> DEFINE hits == {i \in DOMAIN F : F[i] # Rung(k)}
  <2>2. hits # {} /\ p = F[CHOOSE i \in hits : \A j \in hits : i <= j]
    BY <1>3, <1>5
  <2>3. hits = {1} /\ F[1] # Rung(k)
    BY <2>1, <2>2
  <2>4. (CHOOSE i \in hits : \A j \in hits : i <= j) = 1
    BY <2>3
  <2>5. p = F[1]
    BY <2>2, <2>4
  <2>6. k = 0
    BY <1>2, <1>5, <2>1, <2>3
  <2> QED BY <1>2, <1>5, <2>1, <2>5, <2>6
<1> QED BY <1>4, <1>5

\* Every step stays on the ladder.
LEMMA LadderedStep ==
    ASSUME TypeOK, ChainsEnd, Laddered, RowsStep PROVE Laddered'
<1>1. role \in Roles /\ role.max \in Nat /\ role' = role /\ 1 \in Ids
  BY RoleShape, Bounds DEF TypeOK, RowsStep, RowsKept, RowInserted
<1>2. \A k : Rung(k)' = Rung(k) /\ Chain' = Chain
  BY <1>1 DEF Rung, Chain
<1>3. \A m \in Ids : OnRung(m) /\ runs'[m].provider = runs[m].provider
                               /\ runs'[m].max = runs[m].max => OnRung(m)'
  BY <1>1, <1>2 DEF OnRung
<1>4. CASE RowsKept
  BY <1>3, <1>4 DEF Laddered, RowsKept
<1>5. ASSUME NEW n \in Ids, RowInserted(n) PROVE Laddered'
  <2>1. /\ n + 1 \in Ids /\ n \in Nat /\ Exists(n)
        /\ \/ runs'[n + 1].provider = runs[n].provider /\ runs'[n + 1].max = runs[n].max
              /\ n < runs[n].max
           \/ runs'[n + 1].provider \in next_fallback_provider(runs[n].provider)
              /\ runs'[n + 1].max = runs[n].max + 1
    BY <1>5, Bounds DEF RowInserted, Exists, NoStatus
  <2>2. PICK k \in 0..Chain : /\ runs[n].max = role.max + k /\ n <= runs[n].max
                              /\ runs[n].provider = Rung(k)
    BY <2>1 DEF Laddered, OnRung
  <2>3. \E i \in 0..Chain : /\ runs'[n + 1].max = role.max + i /\ n + 1 <= runs'[n + 1].max
                            /\ runs'[n + 1].provider = Rung(i)
    <3>1. CASE runs'[n + 1].max = runs[n].max /\ n < runs[n].max
                 /\ runs'[n + 1].provider = runs[n].provider
      BY <1>1, <2>1, <2>2, <3>1
    <3>2. CASE runs'[n + 1].provider \in next_fallback_provider(runs[n].provider)
                 /\ runs'[n + 1].max = runs[n].max + 1
      <4>1. k + 1 \in 0..Chain /\ runs'[n + 1].provider = Rung(k + 1)
        BY <1>1, <2>2, <3>2, NextRung
      <4>2. runs'[n + 1].max = role.max + (k + 1) /\ n + 1 <= runs'[n + 1].max
        BY <1>1, <2>1, <2>2, <3>2
      <4> QED BY <4>1, <4>2
    <3> QED BY <2>1, <3>1, <3>2
  <2>4. OnRung(n + 1)'
    BY <1>1, <1>2, <2>3 DEF OnRung
  <2>5. \A m \in Ids \ {n + 1} : /\ runs'[m].provider = runs[m].provider
                                 /\ runs'[m].max = runs[m].max
                                 /\ Exists(m)' => Exists(m)
    BY <1>5 DEF RowInserted, Same, Exists
  <2> QED BY <1>3, <2>4, <2>5 DEF Laddered
<1> QED BY <1>4, <1>5 DEF RowsStep

-----------------------------------------------------------------------------
(* Processes, cancel requests and the root.                                 *)

\* A step leaves attempt m alone.
Untouched(m) ==
    /\ Same(runs'[m], runs[m])
    /\ worker'[m] = worker[m] /\ child'[m] = child[m] /\ saw'[m] = saw[m]
    /\ watchdog'[m] = watchdog[m] /\ canceller'[m] = canceller[m]
    /\ m \in unkilled' <=> m \in unkilled
    /\ m \in unreaped' <=> m \in unreaped
    /\ m \in flags' <=> m \in flags
    /\ m \in accepted' <=> m \in accepted
    /\ \A b : <<m, b>> \in todo => <<m, b>> \in todo'

OnlyOn(n) == boot' = boot /\ \A m \in Ids \ {n} : Untouched(m)

\* What a step on the root keeps for the attempts that follow it.
RootKept ==
    /\ runs'[1].provider = runs[1].provider
    /\ 1 \in accepted => 1 \in accepted'
    /\ 1 \in unkilled => 1 \in unkilled'
    /\ Over(1) => /\ Over(1)'
                  /\ 1 \in Holding' => 1 \in Holding
                  /\ \/ runs'[1].status = runs[1].status
                     \/ 1 \in accepted' \/ 1 \in unkilled' \/ 1 \in Holding \/ boot # "up"

\* What a step on an attempt after the root keeps.
LaterKept(n) ==
    /\ runs'[n].provider = runs[n].provider
    /\ Exists(n)' => Exists(n)
    /\ worker'[n] = worker[n] \/ 1 \notin Holding
    /\ \/ runs'[n].status = runs[n].status /\ worker'[n] = worker[n]
       \/ ~(runs'[n].status = "succeeded" /\ worker'[n] = "done")

\* An attempt that is left alone stays as it should be.
LEMMA UntouchedAttempt ==
    ASSUME NEW m \in Ids, Attempt(m), Untouched(m), boot' = boot
    PROVE  Attempt(m)'
<1> USE DEF Untouched, Same, Exists
<1>1. RowFollowsWorker(m)'
  BY DEF Attempt, RowFollowsWorker, Over
<1>2. ProcessAccounted(m)'
  BY DEF Attempt, ProcessAccounted
<1>3. CancelIsFlagged(m)'
  BY DEF Attempt, CancelIsFlagged
<1>4. SurvivorReconciled(m)'
  BY DEF Attempt, SurvivorReconciled
<1> QED BY <1>1, <1>2, <1>3, <1>4 DEF Attempt

\* A step on one attempt.
LEMMA RunningKept ==
    ASSUME TypeOK, Running, NEW n \in Ids, OnlyOn(n), QuietUntilUp', Attempt(n)',
           IF n = 1 THEN RootKept ELSE LaterKept(n)
    PROVE  Running'
<1>1. \A m \in Ids : Attempt(m)'
  BY UntouchedAttempt DEF OnlyOn, Running
<1>2. ASSUME NEW m \in Ids \ {1} PROVE AfterRoot(m)'
  <2>0. SUFFICES ASSUME Exists(m)'
                 PROVE  /\ Over(1)'
                        /\ 1 \in Holding' => /\ m = 2 /\ runs'[m].provider = runs'[1].provider
                                             /\ worker'[m] = "ready"
                        /\ runs'[m].status = "succeeded" /\ worker'[m] = "done"
                             => \/ runs'[1].status = "succeeded"
                                \/ 1 \in accepted' \/ 1 \in unkilled'
    BY DEF AfterRoot
  <2>1. 1 \in Ids /\ AfterRoot(m) /\ QuietUntilUp
    BY Bounds DEF Running
  <2>2. CASE n = 1
    <3>1. Untouched(m) /\ RootKept /\ Exists(m)
      BY <2>0, <2>2 DEF OnlyOn, Untouched, Same, Exists
    <3>2. /\ Over(1)
          /\ 1 \in Holding => /\ m = 2 /\ runs[m].provider = runs[1].provider
                              /\ worker[m] = "ready"
          /\ runs[m].status = "succeeded" /\ worker[m] = "done"
               => runs[1].status = "succeeded" \/ 1 \in accepted \/ 1 \in unkilled
      BY <2>1, <3>1 DEF AfterRoot
    <3>3. Over(1)' /\ (1 \in Holding' => 1 \in Holding)
      BY <3>1, <3>2 DEF RootKept
    <3>4. boot # "up" => worker[m] = "none"
      BY <2>1 DEF QuietUntilUp
    <3>5. runs'[m].status = "succeeded" /\ worker'[m] = "done"
             => runs'[1].status = "succeeded" \/ 1 \in accepted' \/ 1 \in unkilled'
      BY <3>1, <3>2, <3>4 DEF RootKept, Untouched, Same
    <3> QED BY <3>1, <3>2, <3>3, <3>5 DEF RootKept, Untouched, Same
  <2>3. CASE n # 1
    <3>1. Untouched(1)
      BY <2>1, <2>3 DEF OnlyOn
    <3>2. Over(1)' <=> Over(1)
      BY <3>1 DEF Untouched, Same, Over, Exists
    <3>3. 1 \in Holding' <=> 1 \in Holding
      BY <2>1, <3>1 DEF Untouched, Holding
    <3>4. CASE m = n
      BY <2>0, <2>1, <2>3, <3>1, <3>2, <3>3, <3>4 DEF LaterKept, Untouched, Same, AfterRoot
    <3>5. CASE m # n
      <4>1. Untouched(m) /\ Exists(m)
        BY <2>0, <3>5 DEF OnlyOn, Untouched, Same, Exists
      <4> QED BY <2>1, <3>1, <3>2, <3>3, <4>1 DEF Untouched, Same, AfterRoot
    <3> QED BY <3>4, <3>5
  <2> QED BY <2>2, <2>3
<1> QED BY <1>1, <1>2 DEF Running

\* Once the dashboard serves, nothing is left to reconcile.
LEMMA UpIsQuiet ==
    ASSUME Running, boot = "up", boot' = boot, todo' = todo PROVE QuietUntilUp'
  BY DEF Running, QuietUntilUp

\* Whoever works or cancels does so while the dashboard serves, and the root does not
\* hold its slot while another attempt does anything but wait.
LEMMA BusyIsUp ==
    ASSUME Running, Launched, NEW n \in Ids, worker[n] # "none" \/ canceller[n] # "idle"
    PROVE  /\ boot = "up" /\ Exists(n) /\ Attempt(n)
           /\ n # 1 /\ worker[n] # "ready" => 1 \notin Holding
           /\ n # 1 /\ 1 \in Holding => runs[n].provider = runs[1].provider
  BY DEF Running, Launched, QuietUntilUp, AfterRoot

\* Where a worker's step leaves its attempt.
At(n, w, k, s, c) ==
    /\ worker'[n] = w /\ child'[n] = k /\ runs'[n].status = s /\ runs'[n].class = c
    /\ runs'[n].provider = runs[n].provider
    /\ watchdog'[n] = watchdog[n] /\ canceller'[n] = canceller[n]
    /\ n \in flags' <=> n \in flags
    /\ n \in accepted' <=> n \in accepted
    /\ n \in unkilled => n \in unkilled'

\* A worker's step, with what it finds and what it leaves: the attempt is as it
\* should be and the root and the others are not disturbed.
LEMMA WorkerRuns ==
    ASSUME TypeOK, Launched, Orderly, Running, NEW n \in Ids,
           worker[n] # "none", worker[n] # "ready" \/ 1 \notin Holding,
           OnlyOn(n), todo' = todo,
           NEW w, NEW k, NEW s, NEW c, At(n, w, k, s, c), w # "none", s # NoStatus,
           RowFollowsWorker(n)', ProcessAccounted(n)', CancelIsFlagged(n)',
           w = "done" => s # "succeeded" \/ n = 1,
           Over(n) => /\ w \in {"recorded", "verified", "retry", "done"}
                      /\ n \in Holding' => n \in Holding
                      /\ s = runs[n].status \/ n \in Holding
    PROVE  Running'
<1>1. boot = "up" /\ Exists(n) /\ (n # 1 => 1 \notin Holding)
  BY BusyIsUp
<1>2. QuietUntilUp'
  BY <1>1, UpIsQuiet DEF OnlyOn
<1>3. Attempt(n)'
  BY DEF Attempt, SurvivorReconciled, At
<1>4. CASE n = 1
  <2>1. Over(1) => Over(1)'
    BY <1>4 DEF RowFollowsWorker, At, Over, Exists
  <2>2. RootKept
    BY <1>4, <2>1 DEF RootKept, At
  <2> QED BY <1>2, <1>3, <1>4, <2>2, RunningKept
<1>5. CASE n # 1
  <2>1. LaterKept(n)
    BY <1>1, <1>5 DEF LaterKept, At
  <2> QED BY <1>2, <1>3, <1>5, <2>1, RunningKept
<1> QED BY <1>4, <1>5

\* The row says preparing.
LEMMA SetPreparingRuns ==
    ASSUME TypeOK, Launched, Orderly, Running, NEW n \in Ids, SetPreparing(n) PROVE Running'
<1>1. /\ worker[n] # "none" /\ Exists(n)
      /\ RowFollowsWorker(n) /\ ProcessAccounted(n) /\ CancelIsFlagged(n)
  BY BusyIsUp DEF Attempt, SetPreparing, Step
<1>2. Written(n, "preparing", runs[n].class)
  BY Vocabulary, StatusWritten DEF SetPreparing
<1>3. At(n, "preparing", child[n], "preparing", runs[n].class)
  BY <1>2 DEF TypeOK, At, Written, SetPreparing, Step, locals, cancels, system, process
<1>4. OnlyOn(n) /\ todo' = todo
  BY <1>2
     DEF OnlyOn, Untouched, Same, Written, TypeOK, SetPreparing, Step, locals, cancels,
         system, process
<1>5. RowFollowsWorker(n)' /\ ProcessAccounted(n)' /\ CancelIsFlagged(n)'
  BY <1>1, <1>2, <1>3
     DEF RowFollowsWorker, ProcessAccounted, CancelIsFlagged, Over, Exists, At, NoStatus,
         SetPreparing, Step, locals, process
<1>6. worker[n] # "ready" /\ "preparing" # NoStatus /\ ~Over(n)
  BY <1>1 DEF Over, Exists, NoStatus, SetPreparing, Step
<1> QED BY <1>1, <1>3, <1>4, <1>5, <1>6, WorkerRuns

\* The card says preparing.
LEMMA PostPreparingRuns ==
    ASSUME TypeOK, Launched, Orderly, Running, NEW n \in Ids, PostPreparing(n) PROVE Running'
<1>1. /\ worker[n] # "none" /\ Exists(n)
      /\ RowFollowsWorker(n) /\ ProcessAccounted(n) /\ CancelIsFlagged(n)
  BY BusyIsUp DEF Attempt, PostPreparing, Step
<1>2. runs' = runs
  BY DEF PostPreparing
<1>3. At(n, "setup", child[n], runs[n].status, runs[n].class)
  BY <1>2 DEF TypeOK, At, PostPreparing, Step, locals, cancels, system, process
<1>4. OnlyOn(n) /\ todo' = todo
  BY <1>2
     DEF OnlyOn, Untouched, Same, TypeOK, PostPreparing, Step, locals, cancels, system, process
<1>5. RowFollowsWorker(n)' /\ ProcessAccounted(n)' /\ CancelIsFlagged(n)'
  BY <1>1, <1>2, <1>3
     DEF RowFollowsWorker, ProcessAccounted, CancelIsFlagged, Over, Exists, At, NoStatus,
         PostPreparing, Step, locals, process
<1>6. worker[n] # "ready" /\ runs[n].status # NoStatus /\ ~Over(n)
  BY <1>1 DEF Over, Exists, NoStatus, PostPreparing, Step
<1> QED BY <1>1, <1>3, <1>4, <1>5, <1>6, WorkerRuns

\* Preparation fails.
LEMMA PrepareFailsRuns ==
    ASSUME TypeOK, Launched, Orderly, Running, NEW n \in Ids, PrepareFails(n) PROVE Running'
<1>1. /\ worker[n] # "none" /\ Exists(n)
      /\ RowFollowsWorker(n) /\ ProcessAccounted(n) /\ CancelIsFlagged(n)
  BY BusyIsUp DEF Attempt, PrepareFails, Step
<1>2. PICK o \in {<<"failed", "transient">>, <<"failed", "other">>, <<"blocked", "other">>} :
          Written(n, o[1], o[2])
  <2>1. PICK o \in {<<"failed", "transient">>, <<"failed", "other">>, <<"blocked", "other">>} :
             runs' = [runs EXCEPT ![n].status = o[1], ![n].class = o[2]]
    BY DEF PrepareFails
  <2>2. o[1] \in RUN_STATUSES /\ o[2] \in Classes
    BY <2>1, Vocabulary DEF Outcomes
  <2> QED BY <2>1, <2>2, OutcomeWritten
<1>3. At(n, "done", child[n], o[1], o[2])
  BY <1>2 DEF TypeOK, At, Written, PrepareFails, Step, locals, cancels, system, process
<1>4. OnlyOn(n) /\ todo' = todo
  BY <1>2
     DEF OnlyOn, Untouched, Same, Written, TypeOK, PrepareFails, Step, locals, cancels,
         system, process
<1>5. RowFollowsWorker(n)' /\ ProcessAccounted(n)' /\ CancelIsFlagged(n)'
  BY <1>1, <1>2, <1>3
     DEF RowFollowsWorker, ProcessAccounted, CancelIsFlagged, Over, Exists, At, NoStatus,
         PrepareFails, Step, locals, process
<1>6. worker[n] # "ready" /\ o[1] # NoStatus /\ ~Over(n)
  BY <1>1, <1>2 DEF Over, Exists, NoStatus, PrepareFails, Step
<1> QED BY <1>1, <1>3, <1>4, <1>5, <1>6, WorkerRuns

\* The launch is refused.
LEMMA LaunchRefusedRuns ==
    ASSUME TypeOK, Launched, Orderly, Running, NEW n \in Ids, LaunchRefused(n) PROVE Running'
<1>1. /\ worker[n] # "none" /\ Exists(n)
      /\ RowFollowsWorker(n) /\ ProcessAccounted(n) /\ CancelIsFlagged(n)
  BY BusyIsUp DEF Attempt, LaunchRefused, Step
<1>2. PICK o \in {<<"failed", "transient">>, <<"failed", "other">>, <<"blocked", "other">>} :
          Written(n, o[1], o[2])
  <2>1. PICK o \in {<<"failed", "transient">>, <<"failed", "other">>, <<"blocked", "other">>} :
             runs' = [runs EXCEPT ![n].status = o[1], ![n].class = o[2]]
    BY DEF LaunchRefused
  <2>2. o[1] \in RUN_STATUSES /\ o[2] \in Classes
    BY <2>1, Vocabulary DEF Outcomes
  <2> QED BY <2>1, <2>2, OutcomeWritten
<1>3. At(n, "retry", child[n], o[1], o[2])
  BY <1>2 DEF TypeOK, At, Written, LaunchRefused, Step, locals, cancels, system, process
<1>4. OnlyOn(n) /\ todo' = todo
  BY <1>2
     DEF OnlyOn, Untouched, Same, Written, TypeOK, LaunchRefused, Step, locals, cancels,
         system, process
<1>5. RowFollowsWorker(n)' /\ ProcessAccounted(n)' /\ CancelIsFlagged(n)'
  BY <1>1, <1>2, <1>3
     DEF RowFollowsWorker, ProcessAccounted, CancelIsFlagged, Over, Exists, At, NoStatus,
         LaunchRefused, Step, locals, process
<1>6. worker[n] # "ready" /\ o[1] # NoStatus /\ ~Over(n)
  BY <1>1, <1>2 DEF Over, Exists, NoStatus, LaunchRefused, Step
<1> QED BY <1>1, <1>3, <1>4, <1>5, <1>6, WorkerRuns

\* The process is registered; a flag set before is seen now.
LEMMA SpawnRuns ==
    ASSUME TypeOK, Launched, Orderly, Running, NEW n \in Ids, Spawn(n) PROVE Running'
<1>1. /\ worker[n] # "none" /\ Exists(n)
      /\ RowFollowsWorker(n) /\ ProcessAccounted(n) /\ CancelIsFlagged(n)
  BY BusyIsUp DEF Attempt, Spawn, Step
<1>2. runs' = runs
  BY DEF Spawn
<1>3. At(n, "spawned", "alive", runs[n].status, runs[n].class)
  BY <1>2 DEF TypeOK, At, Spawn, Step, locals, cancels, system, process
<1>4. OnlyOn(n) /\ todo' = todo
  BY <1>2 DEF OnlyOn, Untouched, Same, TypeOK, Spawn, Step, locals, cancels, system, process
<1>5. RowFollowsWorker(n)' /\ ProcessAccounted(n)' /\ CancelIsFlagged(n)'
  BY <1>1, <1>2, <1>3
     DEF TypeOK, RowFollowsWorker, ProcessAccounted, CancelIsFlagged, Over, Exists, At,
         NoStatus, Spawn, Step, locals, process
<1>6. worker[n] # "ready" /\ runs[n].status # NoStatus /\ ~Over(n)
  BY <1>1 DEF Over, Exists, NoStatus, Spawn, Step
<1> QED BY <1>1, <1>3, <1>4, <1>5, <1>6, WorkerRuns

\* A process whose cancellation was seen at registration is terminated.
LEMMA PostRunningRuns ==
    ASSUME TypeOK, Launched, Orderly, Running, NEW n \in Ids, PostRunning(n) PROVE Running'
<1>1. /\ worker[n] # "none" /\ Exists(n)
      /\ RowFollowsWorker(n) /\ ProcessAccounted(n) /\ CancelIsFlagged(n)
  BY BusyIsUp DEF Attempt, PostRunning, Step
<1>2. runs' = runs
  BY DEF PostRunning
<1>3. At(n, "pumping", child'[n], runs[n].status, runs[n].class)
  BY <1>2 DEF TypeOK, At, PostRunning, terminate_process_group, Terminated, Survives, Step,
          locals, cancels, system, process
<1>4. OnlyOn(n) /\ todo' = todo
  BY <1>2
     DEF OnlyOn, Untouched, Same, TypeOK, PostRunning, terminate_process_group, Terminated,
         Survives, Step, locals, cancels, system, process
<1>5. RowFollowsWorker(n)' /\ ProcessAccounted(n)' /\ CancelIsFlagged(n)'
  BY <1>1, <1>2, <1>3
     DEF TypeOK, RowFollowsWorker, ProcessAccounted, CancelIsFlagged, Over, Exists, At,
         NoStatus, PostRunning, terminate_process_group, Terminated, Survives, Step, locals,
         process
<1>6. worker[n] # "ready" /\ runs[n].status # NoStatus /\ ~Over(n)
  BY <1>1 DEF Over, Exists, NoStatus, PostRunning, Step
<1> QED BY <1>1, <1>3, <1>4, <1>5, <1>6, WorkerRuns

\* The process is reaped.
LEMMA ReapRuns ==
    ASSUME TypeOK, Launched, Orderly, Running, NEW n \in Ids, Reap(n) PROVE Running'
<1>1. /\ worker[n] # "none" /\ Exists(n)
      /\ RowFollowsWorker(n) /\ ProcessAccounted(n) /\ CancelIsFlagged(n)
  BY BusyIsUp DEF Attempt, Reap, Step
<1>2. runs' = runs
  BY DEF Reap
<1>3. At(n, "reaped", "dead", runs[n].status, runs[n].class)
  BY <1>2 DEF TypeOK, At, Reap, Step, locals, cancels, system, process
<1>4. OnlyOn(n) /\ todo' = todo
  BY <1>2 DEF OnlyOn, Untouched, Same, TypeOK, Reap, Step, locals, cancels, system, process
<1>5. RowFollowsWorker(n)' /\ ProcessAccounted(n)' /\ CancelIsFlagged(n)'
  BY <1>1, <1>2, <1>3
     DEF TypeOK, RowFollowsWorker, ProcessAccounted, CancelIsFlagged, Over, Exists, At,
         NoStatus, Reap, Step, locals, process
<1>6. worker[n] # "ready" /\ runs[n].status # NoStatus /\ ~Over(n)
  BY <1>1 DEF Over, Exists, NoStatus, Reap, Step
<1> QED BY <1>1, <1>3, <1>4, <1>5, <1>6, WorkerRuns

\* The worker gives up waiting for the process, which is known from then on.
LEMMA WaitExpiresRuns ==
    ASSUME TypeOK, Launched, Orderly, Running, NEW n \in Ids, WaitExpires(n) PROVE Running'
<1>1. /\ worker[n] = "pumping" /\ child[n] = "alive" /\ Exists(n)
      /\ RowFollowsWorker(n) /\ ProcessAccounted(n) /\ CancelIsFlagged(n)
  BY BusyIsUp DEF Attempt, WaitExpires, Step
<1>2. runs' = runs /\ n \in unreaped'
  BY DEF WaitExpires
<1>3. At(n, "reaped", "alive", runs[n].status, runs[n].class)
  BY <1>2 DEF TypeOK, At, WaitExpires, Step, cancels
<1>4. OnlyOn(n) /\ todo' = todo
  BY <1>2 DEF OnlyOn, Untouched, Same, TypeOK, WaitExpires, Step, cancels, system
<1>5. RowFollowsWorker(n)' /\ ProcessAccounted(n)' /\ CancelIsFlagged(n)'
  BY <1>1, <1>2, <1>3
     DEF RowFollowsWorker, ProcessAccounted, CancelIsFlagged, Over, Exists, At, NoStatus
<1>6. runs[n].status # NoStatus /\ ~Over(n)
  BY <1>1 DEF Over, Exists
<1> QED BY <1>1, <1>3, <1>4, <1>5, <1>6, WorkerRuns

\* The outcome is recorded.
LEMMA RecordRuns ==
    ASSUME TypeOK, Launched, Orderly, Running, NEW n \in Ids, Record(n) PROVE Running'
<1>1. /\ worker[n] # "none" /\ Exists(n)
      /\ RowFollowsWorker(n) /\ ProcessAccounted(n) /\ CancelIsFlagged(n)
  BY BusyIsUp DEF Attempt, Record, Step
<1>2. PICK o \in Outcomes(n) : Written(n, o[1], o[2])
  <2>1. PICK o \in Outcomes(n) :
             runs' = [runs EXCEPT ![n].status = o[1], ![n].class = o[2]]
    BY DEF Record
  <2>2. o[1] \in RUN_STATUSES /\ o[2] \in Classes
    BY <2>1, Vocabulary DEF Outcomes
  <2> QED BY <2>1, <2>2, OutcomeWritten
<1>3. At(n, "recorded", child[n], o[1], o[2])
  BY <1>2 DEF TypeOK, At, Written, Record, Step, Outcomes, locals, cancels, system, process
<1>4. OnlyOn(n) /\ todo' = todo
  BY <1>2
     DEF OnlyOn, Untouched, Same, Written, TypeOK, Record, Step, Outcomes, locals, cancels,
         system, process
<1>5. RowFollowsWorker(n)' /\ ProcessAccounted(n)' /\ CancelIsFlagged(n)'
  BY <1>1, <1>2, <1>3
     DEF RowFollowsWorker, ProcessAccounted, CancelIsFlagged, Over, Exists, At, NoStatus,
         Record, Step, Outcomes, locals, process
<1>6. worker[n] # "ready" /\ o[1] # NoStatus /\ ~Over(n)
  BY <1>1, <1>2 DEF Over, Exists, NoStatus, Record, Step, Outcomes
<1> QED BY <1>1, <1>3, <1>4, <1>5, <1>6, WorkerRuns

\* The card shows the outcome and the slot is released.
LEMMA PostOutcomeRuns ==
    ASSUME TypeOK, Launched, Orderly, Running, NEW n \in Ids, PostOutcome(n) PROVE Running'
<1>1. /\ worker[n] # "none" /\ Exists(n)
      /\ RowFollowsWorker(n) /\ ProcessAccounted(n) /\ CancelIsFlagged(n)
  BY BusyIsUp DEF Attempt, PostOutcome, Step
<1>2. runs' = runs
  BY DEF PostOutcome
<1>3. At(n, "retry", child[n], runs[n].status, runs[n].class)
  BY <1>2 DEF TypeOK, At, PostOutcome, Step, locals, cancels, system, process
<1>4. OnlyOn(n) /\ todo' = todo
  BY <1>2
     DEF OnlyOn, Untouched, Same, TypeOK, PostOutcome, Step, locals, cancels, system, process
<1>5. RowFollowsWorker(n)' /\ ProcessAccounted(n)' /\ CancelIsFlagged(n)'
  BY <1>1, <1>2, <1>3
     DEF RowFollowsWorker, ProcessAccounted, CancelIsFlagged, Over, Exists, At, NoStatus,
         PostOutcome, Step, locals, process
<1>6. /\ worker[n] # "ready" /\ runs[n].status # NoStatus
      /\ Over(n) => /\ "retry" \in {"recorded", "verified", "retry", "done"}
                    /\ n \in Holding' => n \in Holding
                    /\ runs[n].status = runs[n].status \/ n \in Holding
  BY <1>1, <1>3 DEF Over, At, Exists, NoStatus, PostOutcome, Step, Holding, RowFollowsWorker
<1> QED BY <1>1, <1>3, <1>4, <1>5, <1>6, WorkerRuns

\* An exception: no process runs beside it.
LEMMA WorkerErrorRuns ==
    ASSUME TypeOK, Launched, Orderly, Running, NEW n \in Ids, WorkerError(n) PROVE Running'
<1>1. /\ worker[n] # "none" /\ Exists(n)
      /\ RowFollowsWorker(n) /\ ProcessAccounted(n) /\ CancelIsFlagged(n)
  BY BusyIsUp DEF Attempt, WorkerError, Holding
<1>2. Written(n, "failed", runs[n].class)
  BY Vocabulary, StatusWritten DEF WorkerError
<1>3. At(n, "retry", child[n], "failed", runs[n].class)
  BY <1>2
     DEF TypeOK, At, Written, WorkerError, Holding, Registered, Orderly, locals, cancels,
         system, process
<1>4. OnlyOn(n) /\ todo' = todo
  BY <1>2
     DEF OnlyOn, Untouched, Same, Written, TypeOK, WorkerError, Holding, Registered, Orderly,
         locals, cancels, system, process
<1>5. RowFollowsWorker(n)' /\ ProcessAccounted(n)' /\ CancelIsFlagged(n)'
  BY <1>1, <1>2, <1>3
     DEF RowFollowsWorker, ProcessAccounted, CancelIsFlagged, Over, Exists, At, NoStatus,
         WorkerError, Holding, Registered, Orderly, locals, process
<1>6. /\ worker[n] # "ready" /\ "failed" # NoStatus
      /\ Over(n) => /\ "retry" \in {"recorded", "verified", "retry", "done"}
                    /\ n \in Holding' => n \in Holding
                    /\ "failed" = runs[n].status \/ n \in Holding
  BY <1>1, <1>3 DEF Over, At, Exists, NoStatus, WorkerError, Holding, RowFollowsWorker,
                    Registered, Orderly
<1> QED BY <1>1, <1>3, <1>4, <1>5, <1>6, WorkerRuns

\* The backoff is over.
LEMMA TimerFiresRuns ==
    ASSUME TypeOK, Launched, Orderly, Running, NEW n \in Ids, TimerFires(n) PROVE Running'
<1>1. /\ worker[n] # "none" /\ Exists(n)
      /\ RowFollowsWorker(n) /\ ProcessAccounted(n) /\ CancelIsFlagged(n)
  BY BusyIsUp DEF Attempt, TimerFires, Step
<1>2. runs' = runs
  BY DEF TimerFires
<1>3. At(n, "ready", child[n], runs[n].status, runs[n].class)
  BY <1>2 DEF TypeOK, At, TimerFires, Step, locals, cancels, system, process
<1>4. OnlyOn(n) /\ todo' = todo
  BY <1>2
     DEF OnlyOn, Untouched, Same, TypeOK, TimerFires, Step, locals, cancels, system, process
<1>5. RowFollowsWorker(n)' /\ ProcessAccounted(n)' /\ CancelIsFlagged(n)'
  BY <1>1, <1>2, <1>3
     DEF RowFollowsWorker, ProcessAccounted, CancelIsFlagged, Over, Exists, At, NoStatus,
         TimerFires, Step, locals, process
<1>6. worker[n] # "ready" /\ runs[n].status # NoStatus /\ ~Over(n)
  BY <1>1 DEF Over, Exists, NoStatus, TimerFires, Step
<1> QED BY <1>1, <1>3, <1>4, <1>5, <1>6, WorkerRuns

\* The slots are taken: never while the root, on the same provider, still holds them.
LEMMA AcquireRuns ==
    ASSUME TypeOK, Launched, Orderly, Running, NEW n \in Ids, Acquire(n) PROVE Running'
<1>1. /\ worker[n] = "ready" /\ Exists(n)
      /\ RowFollowsWorker(n) /\ ProcessAccounted(n) /\ CancelIsFlagged(n)
      /\ n # 1 => 1 \notin Holding
  BY BusyIsUp DEF Attempt, Acquire
<1>2. \E w \in {"done", "claimed"} : At(n, w, child[n], runs[n].status, runs[n].class)
  BY DEF TypeOK, At, Acquire, locals, cancels, process
<1>3. OnlyOn(n) /\ todo' = todo
  BY DEF OnlyOn, Untouched, Same, TypeOK, Acquire, locals, cancels, system, process
<1>4. RowFollowsWorker(n)' /\ ProcessAccounted(n)' /\ CancelIsFlagged(n)'
  BY <1>1, <1>2
     DEF RowFollowsWorker, ProcessAccounted, CancelIsFlagged, Over, Exists, At, Acquire,
         locals, process
<1>5. ~Over(n) /\ runs[n].status # NoStatus /\ runs[n].status # "succeeded" /\ 1 \notin Holding
  BY <1>1 DEF Over, Exists, RowFollowsWorker, Holding
<1> QED BY <1>1, <1>2, <1>3, <1>4, <1>5, WorkerRuns

\* The pid reaches the store.
LEMMA SetRunningRuns ==
    ASSUME TypeOK, Launched, Orderly, Running, NEW n \in Ids, SetRunning(n) PROVE Running'
<1>1. /\ worker[n] = "spawned" /\ Exists(n)
      /\ RowFollowsWorker(n) /\ ProcessAccounted(n) /\ CancelIsFlagged(n)
  BY BusyIsUp DEF Attempt, SetRunning, Step
<1>2. At(n, "started", child[n], "running", runs[n].class)
  <2>1. /\ runs'[n].status = "running" /\ runs'[n].class = runs[n].class
        /\ runs'[n].provider = runs[n].provider
    BY RunningWritten
  <2>2. worker'[n] = "started" /\ UNCHANGED <<process, locals, cancels>>
    BY DEF SetRunning, Step, TypeOK
  <2> QED BY <2>1, <2>2 DEF At, locals, cancels, process
<1>3. OnlyOn(n) /\ todo' = todo
  BY RunningWritten
     DEF OnlyOn, Untouched, Same, TypeOK, SetRunning, Step, locals, cancels, system, process
<1>4. RowFollowsWorker(n)' /\ ProcessAccounted(n)' /\ CancelIsFlagged(n)'
  BY <1>1, <1>2
     DEF RowFollowsWorker, ProcessAccounted, CancelIsFlagged, Over, Exists, At, NoStatus,
         SetRunning, locals, process
<1>5. ~Over(n) /\ "running" # NoStatus
  BY <1>1 DEF Over, NoStatus
<1> QED BY <1>1, <1>2, <1>3, <1>4, <1>5, WorkerRuns

\* The deliverables are verified while the slot is held.
LEMMA VerifyRuns ==
    ASSUME TypeOK, Launched, Orderly, Running, NEW n \in Ids, Verify(n) PROVE Running'
<1>1. /\ worker[n] = "recorded" /\ Exists(n)
      /\ RowFollowsWorker(n) /\ ProcessAccounted(n) /\ CancelIsFlagged(n)
  BY BusyIsUp DEF Attempt, Verify, Step
<1>2. PICK s, c : /\ At(n, "verified", child[n], s, c) /\ s # NoStatus
                  /\ s = runs[n].status \/ s = "failed"
                  /\ \A m \in Ids \ {n} : runs'[m] = runs[m]
  <2>1. CASE UNCHANGED runs
    BY <1>1, <2>1 DEF TypeOK, At, Verify, Step, locals, cancels, Exists, process
  <2>2. CASE runs' = [runs EXCEPT ![n].status = "failed", ![n].class = "other"]
    <3>1. Written(n, "failed", "other")
      BY <2>2, Vocabulary, OutcomeWritten
    <3>2. "failed" # NoStatus
      BY DEF NoStatus
    <3> QED BY <3>1, <3>2 DEF Written, TypeOK, At, Verify, Step, locals, cancels, process
  <2> QED BY <2>1, <2>2 DEF Verify
<1>3. OnlyOn(n) /\ todo' = todo
  BY <1>2 DEF OnlyOn, Untouched, Same, TypeOK, Verify, Step, locals, cancels, system, process
<1>4. UNCHANGED <<saw, unreaped>> /\ worker'[n] = "verified"
  BY <1>2 DEF Verify, At, locals, process
<1>5. RowFollowsWorker(n)' /\ ProcessAccounted(n)' /\ CancelIsFlagged(n)'
  <2>1. RowFollowsWorker(n)'
    BY <1>1, <1>2, <1>4 DEF RowFollowsWorker, Over, Exists, At
  <2>2. ProcessAccounted(n)'
    BY <1>1, <1>2, <1>4 DEF ProcessAccounted, At, NoStatus
  <2>3. CancelIsFlagged(n)'
    BY <1>1, <1>2, <1>4 DEF CancelIsFlagged, At
  <2> QED BY <2>1, <2>2, <2>3
<1>6. n \in Holding
  BY <1>1 DEF Holding
<1> QED BY <1>1, <1>2, <1>3, <1>5, <1>6, WorkerRuns

\* The root's worker is taken on.
LEMMA LaunchRuns == ASSUME TypeOK, Launched, Orderly, Running, Launch PROVE Running'
<1>1. /\ 1 \in Ids /\ worker[1] = "admitted" /\ Exists(1)
      /\ RowFollowsWorker(1) /\ ProcessAccounted(1) /\ CancelIsFlagged(1)
  BY Bounds, BusyIsUp DEF Attempt, Launch, Step
<1>2. At(1, "ready", child[1], runs[1].status, runs[1].class)
  BY <1>1 DEF TypeOK, At, Launch, Step, locals, cancels, process
<1>3. OnlyOn(1) /\ todo' = todo
  BY DEF OnlyOn, Untouched, Same, TypeOK, Launch, Step, locals, cancels, system, process
<1>4. RowFollowsWorker(1)' /\ ProcessAccounted(1)' /\ CancelIsFlagged(1)'
  BY <1>1, <1>2
     DEF RowFollowsWorker, ProcessAccounted, CancelIsFlagged, Over, Exists, At, Launch,
         locals, process
<1>5. ~Over(1) /\ runs[1].status # NoStatus
  BY <1>1 DEF Over, Exists
<1> QED BY <1>1, <1>2, <1>3, <1>4, <1>5, WorkerRuns

\* The root is admitted: nobody knew of it.
LEMMA AdmitRuns == ASSUME TypeOK, Launched, Orderly, Running, Admit PROVE Running'
<1>1. 1 \in Ids /\ boot = "up" /\ ~Exists(1) /\ Attempt(1)
  BY Bounds DEF Admit, Serving, Orderly, Exists, Running
<1>2. Written(1, "queued", runs[1].class)
  BY <1>1, Vocabulary, StatusWritten DEF Admit
<1>3. /\ worker'[1] = "admitted" /\ todo' = todo
      /\ UNCHANGED <<child, unkilled, unreaped, watchdog, canceller, flags, accepted>>
  BY <1>1 DEF Admit, Step, TypeOK, locals, cancels, system, process
<1>4. OnlyOn(1)
  BY <1>2 DEF Written, OnlyOn, Untouched, Same, TypeOK, Admit, Step, locals, cancels,
              system, process
<1>5. Attempt(1)'
  BY <1>1, <1>2, <1>3 DEF Written, Attempt, RowFollowsWorker, ProcessAccounted, CancelIsFlagged,
                          SurvivorReconciled, Exists, Launched
<1>6. RootKept
  BY <1>1, <1>2, <1>3 DEF RootKept, Over, Written
<1> QED BY <1>1, <1>3, <1>4, <1>5, <1>6, UpIsQuiet, RunningKept DEF OnlyOn

\* Another attempt follows one that is over.
LEMMA InsertedRuns ==
    ASSUME TypeOK, Launched, Orderly, Running, NEW n \in Ids, RowInserted(n), boot = "up",
           UNCHANGED <<process, locals, cancels, system>>,
           \/ 1 \notin Holding
           \/ runs'[n + 1].provider = runs[n].provider /\ worker'[n + 1] = "ready"
           \/ worker[n] = "retry"
    PROVE  Running'
<1> DEFINE q == n + 1
<1>1. /\ q \in Ids /\ q # n /\ q # 1 /\ (q = 2 <=> n = 1) /\ 1 \in Ids
      /\ runs'[q].status = "queued" /\ runs'[q].class = "none" /\ ~Exists(q)
      /\ runs[n].status = "failed" /\ Over(n)
      /\ worker'[q] \in {"timer", "ready"}
      /\ worker'[n] = worker[n] \/ (worker[n] = "retry" /\ worker'[n] = "done")
      /\ \A m \in Ids \ {q, n} : worker'[m] = worker[m]
      /\ \A m \in Ids \ {q} : Same(runs'[m], runs[m])
  <2>1. q \in Ids /\ q # n /\ q # 1 /\ (q = 2 <=> n = 1) /\ 1 \in Ids
    BY StaffRunBounds DEF RowInserted, Ids
  <2>2. Over(n)
    BY DEF RowInserted, Running, Attempt, RowFollowsWorker
  <2>3. worker \in [Ids -> Steps]
    BY DEF TypeOK
  <2> QED BY <2>1, <2>2, <2>3 DEF RowInserted
<1>2. /\ child[q] = "none" /\ canceller[q] = "idle" /\ watchdog[q] = "idle"
      /\ q \notin unreaped /\ CancelIsFlagged(q)
  BY <1>1 DEF Running, Attempt, RowFollowsWorker, ProcessAccounted, Launched, Exists
<1>3. UNCHANGED <<child, unkilled, unreaped, saw, watchdog, flags, canceller, accepted, boot,
                todo>>
  BY DEF locals, cancels, system, process
<1>4. \A m \in Ids \ {n, q} : Untouched(m)
  BY <1>1, <1>3 DEF Untouched
<1>q. (q = n + 1) /\ (\/ 1 \notin Holding
                      \/ runs'[q].provider = runs[n].provider /\ worker'[q] = "ready"
                      \/ worker[n] = "retry")
  OBVIOUS
<1> HIDE DEF q
<1>5. Attempt(q)'
  BY <1>1, <1>2, <1>3 DEF Attempt, RowFollowsWorker, ProcessAccounted, CancelIsFlagged,
                          SurvivorReconciled, Exists, NoStatus
<1>6. Attempt(n)'
  <2>1. Attempt(n)
    BY DEF Running
  <2> QED BY <1>1, <1>3, <2>1 DEF Attempt, RowFollowsWorker, ProcessAccounted, CancelIsFlagged,
                                  SurvivorReconciled, Exists, Over, Same
<1>7. \A m \in Ids : Attempt(m)'
  BY <1>3, <1>4, <1>5, <1>6, UntouchedAttempt DEF Running
<1>8. Over(1) /\ Over(1)'
  <2>1. Over(1)
    BY <1>1 DEF Running, AfterRoot, Exists, NoStatus
  <2> QED BY <1>1, <1>3, <2>1 DEF Over, Exists, Same
<1>9. 1 \in Holding' => 1 \in Holding /\ n = 1 /\ worker'[q] = "ready"
                          /\ runs'[q].provider = runs'[1].provider
  <2>1. SUFFICES ASSUME 1 \in Holding' PROVE 1 \in Holding /\ n = 1 /\ worker'[q] = "ready"
                          /\ runs'[q].provider = runs'[1].provider
    OBVIOUS
  <2>2. 1 \in Holding /\ worker[1] # "retry"
    BY <1>1, <2>1 DEF Holding
  <2>3. n = 1
    BY <1>1, <2>2 DEF Running, AfterRoot, Exists, NoStatus, Over
  <2> QED BY <1>1, <1>q, <2>2, <2>3 DEF Same
<1>10. ASSUME NEW m \in Ids \ {1} PROVE AfterRoot(m)'
  <2>1. CASE m = q
    BY <1>1, <1>8, <1>9, <2>1 DEF AfterRoot
  <2>2. CASE m = n
    <3>1. n # 1 /\ 1 \notin Holding'
      BY <1>9, <2>2
    <3> QED BY <1>1, <1>8, <2>2, <3>1 DEF AfterRoot, Same
  <2>3. CASE m # q /\ m # n
    <3>1. Untouched(m) /\ AfterRoot(m) /\ runs'[1].status = runs[1].status
      BY <1>1, <1>4, <2>3 DEF Running, Same
    <3>2. Exists(m) => 1 \notin Holding'
      BY <1>1, <1>9, <2>3, <3>1 DEF AfterRoot
    <3> QED BY <1>3, <1>8, <3>1, <3>2 DEF AfterRoot, Untouched, Same, Exists
  <2> QED BY <2>1, <2>2, <2>3
<1>11. QuietUntilUp'
  BY <1>3, UpIsQuiet
<1> QED BY <1>7, <1>10, <1>11 DEF Running

\* What follows an attempt.
LEMMA PostExecutionRuns ==
    ASSUME TypeOK, Launched, Orderly, Running, NEW n \in Ids, PostExecution(n) PROVE Running'
<1>1. /\ worker[n] = "retry" /\ Exists(n)
      /\ RowFollowsWorker(n) /\ ProcessAccounted(n) /\ CancelIsFlagged(n)
      /\ boot = "up" /\ (n # 1 => 1 \notin Holding)
      /\ UNCHANGED <<process, locals, cancels, system>>
  BY BusyIsUp DEF Attempt, PostExecution
<1>2. CASE RowInserted(n)
  BY <1>1, <1>2, InsertedRuns
<1>3. UNCHANGED <<child, unkilled, unreaped, saw, watchdog, flags, canceller, accepted, boot,
                todo>>
  BY <1>1 DEF locals, cancels, system, process
<1>4. CASE EndsQuietly(n)
  <2>1. At(n, "done", child[n], runs[n].status, runs[n].class)
    BY <1>3, <1>4 DEF EndsQuietly, Finish, TypeOK, At, Same
  <2>2. OnlyOn(n)
    BY <1>3, <1>4 DEF EndsQuietly, Finish, OnlyOn, Untouched, TypeOK
  <2>3. RowFollowsWorker(n)' /\ ProcessAccounted(n)' /\ CancelIsFlagged(n)'
    BY <1>1, <1>3, <2>1 DEF RowFollowsWorker, ProcessAccounted, CancelIsFlagged, Over,
                            Exists, At
  <2>4. /\ runs[n].status # NoStatus /\ (runs[n].status # "succeeded" \/ n = 1)
        /\ n \notin Holding'
    BY <1>1, <1>4, <2>1 DEF Exists, EndsQuietly, Over, Holding, At
  <2> QED BY <1>1, <1>3, <2>1, <2>2, <2>3, <2>4, WorkerRuns
<1>5. CASE SucceedsRoot(n)
  <2>1. /\ n # 1 /\ 1 \in Ids /\ Over(1) /\ 1 \notin Holding /\ Attempt(1) /\ Attempt(n)
    BY <1>1, <1>5, Bounds DEF SucceedsRoot, Running, AfterRoot
  <2>2. /\ runs'[1].status = "succeeded" /\ runs'[1].class = runs[1].class
        /\ \A m \in Ids \ {1} : runs'[m] = runs[m]
        /\ worker'[n] = "done" /\ \A m \in Ids \ {n} : worker'[m] = worker[m]
    BY <1>5 DEF SucceedsRoot, Written, Finish, TypeOK
  <2>3. Attempt(1)'
    BY <1>3, <2>1, <2>2 DEF Attempt, RowFollowsWorker, ProcessAccounted, CancelIsFlagged,
                            SurvivorReconciled, Over, Exists, NoStatus
  <2>4. Attempt(n)'
    BY <1>1, <1>3, <2>1, <2>2 DEF Attempt, RowFollowsWorker, ProcessAccounted, CancelIsFlagged,
                                  SurvivorReconciled, Over, Exists
  <2>5. \A m \in Ids \ {1, n} : Untouched(m)
    BY <1>3, <2>2 DEF Untouched, Same
  <2>6. \A m \in Ids : Attempt(m)'
    BY <1>3, <2>3, <2>4, <2>5, UntouchedAttempt DEF Running
  <2>7. Over(1)' /\ 1 \notin Holding'
    BY <1>3, <2>1, <2>2 DEF Over, Exists, NoStatus, Holding
  <2> QED BY <1>1, <1>3, <2>2, <2>6, <2>7, UpIsQuiet DEF Running, AfterRoot
<1> QED BY <1>2, <1>4, <1>5, PostExecutionRows

\* A retry of the follow-up sweep.
LEMMA FollowUpRuns ==
    ASSUME TypeOK, Launched, Orderly, Running, NEW n \in Ids, FollowUp(n) PROVE Running'
<1>1. RowInserted(n) /\ boot = "up" /\ UNCHANGED <<process, locals, cancels, system>>
  BY FollowUpRows DEF FollowUp, Serving, Orderly
<1>2. n + 1 \in Ids /\ n + 1 # n
  BY <1>1, Bounds DEF RowInserted
<1>3. runs'[n + 1].provider = runs[n].provider /\ worker'[n + 1] = "ready"
  BY <1>2 DEF FollowUp, Schedule, TypeOK
<1> QED BY <1>1, <1>3, InsertedRuns

\* A cancel request sets its flag and looks for the process, under the lock.
LEMMA CancelFlagRuns ==
    ASSUME TypeOK, Launched, Orderly, Running, NEW n \in Ids, CancelFlag(n) PROVE Running'
<1>1. boot = "up" /\ Attempt(n) /\ n \notin flags
  BY DEF CancelFlag, Serving, Orderly, Running
<1>2. /\ UNCHANGED <<runs, child, unkilled, unreaped, worker, saw, watchdog, accepted, boot,
                     todo>>
      /\ n \in flags'
      /\ canceller'[n] = IF Registered(n) THEN "proc" ELSE "noproc"
  BY DEF CancelFlag, TypeOK, locals, system, process
<1>3. OnlyOn(n)
  BY <1>2 DEF OnlyOn, Untouched, Same, CancelFlag, TypeOK
<1>4. Attempt(n)'
  BY <1>1, <1>2 DEF Attempt, RowFollowsWorker, ProcessAccounted, CancelIsFlagged,
                    SurvivorReconciled, Over, Exists, Registered
<1>5. RootKept /\ LaterKept(n)
  BY <1>2 DEF RootKept, LaterKept, Over, Exists, Holding
<1> QED BY <1>1, <1>2, <1>3, <1>4, <1>5, UpIsQuiet, RunningKept

\* It terminates the process, or takes a row that nobody runs yet.
LEMMA CancelDecideRuns ==
    ASSUME TypeOK, Launched, Orderly, Running, NEW n \in Ids, CancelDecide(n) PROVE Running'
<1> DEFINE kill  == canceller[n] = "proc" /\ child[n] = "alive"
           write == ~kill /\ runs[n].status \in {"queued", "preparing"}
<1>1. boot = "up" /\ Attempt(n) /\ canceller[n] \in {"proc", "noproc"}
  BY BusyIsUp DEF CancelDecide
<1>2. /\ UNCHANGED <<runs, unreaped, worker, saw, watchdog, flags, boot, todo>>
      /\ canceller'[n] = IF kill THEN "post" ELSE IF write THEN "write" ELSE "idle"
      /\ accepted' = IF kill \/ write THEN accepted \cup {n} ELSE accepted
      /\ IF kill THEN terminate_process_group(n) ELSE UNCHANGED <<child, unkilled>>
      /\ \A m \in Ids \ {n} : canceller'[m] = canceller[m]
  BY DEF CancelDecide, TypeOK, locals, system, process
<1>3. OnlyOn(n) /\ (1 \in unkilled => 1 \in unkilled') /\ (1 \in accepted => 1 \in accepted')
  BY <1>2 DEF OnlyOn, Untouched, Same, terminate_process_group, Terminated, Survives, TypeOK
<1>4. CASE kill
  <2>0. \/ child'[n] = "dead" /\ unkilled' = unkilled
        \/ child'[n] = "alive" /\ unkilled' = unkilled \cup {n}
    BY <1>2, <1>4 DEF terminate_process_group, Terminated, Survives, TypeOK
  <2>1. Attempt(n)'
    BY <2>0, <1>1, <1>2, <1>4 DEF Attempt, RowFollowsWorker, ProcessAccounted,
                                  CancelIsFlagged, SurvivorReconciled, Over, Exists
  <2>2. (n = 1 => RootKept) /\ LaterKept(n)
    BY <2>0, <1>2, <1>3, <1>4 DEF RootKept, LaterKept, Over, Exists, Holding
  <2> QED BY <1>1, <1>2, <1>3, <2>1, <2>2, UpIsQuiet, RunningKept
<1>5. CASE ~kill
  <2>1. child' = child /\ unkilled' = unkilled
    BY <1>2, <1>5
  <2>2. write /\ child[n] = "alive" =>
          \/ worker[n] # "none" /\ n \notin unreaped
          \/ n \in unkilled
    BY <1>1 DEF Attempt, ProcessAccounted, SurvivorReconciled
  <2>3. Attempt(n)'
    BY <1>1, <1>2, <1>5, <2>1, <2>2 DEF Attempt, RowFollowsWorker, ProcessAccounted,
                                        CancelIsFlagged, SurvivorReconciled, Over, Exists
  <2>4. RootKept /\ LaterKept(n)
    BY <1>2, <1>3, <2>1 DEF RootKept, LaterKept, Over, Exists, Holding
  <2> QED BY <1>1, <1>2, <1>3, <2>3, <2>4, UpIsQuiet, RunningKept
<1> QED BY <1>4, <1>5

\* It closes the row.
LEMMA CancelWriteRuns ==
    ASSUME TypeOK, Launched, Orderly, Running, NEW n \in Ids, CancelWrite(n) PROVE Running'
<1>1. boot = "up" /\ Attempt(n) /\ canceller[n] = "write" /\ Exists(n) /\ n \in accepted
  BY BusyIsUp DEF CancelWrite, Attempt, CancelIsFlagged
<1>2. Written(n, "cancelled", runs[n].class)
  BY Vocabulary, StatusWritten DEF CancelWrite
<1>3. /\ UNCHANGED <<child, unkilled, unreaped, worker, saw, watchdog, flags, accepted, boot,
                     todo>>
      /\ canceller'[n] = "post"
  BY DEF CancelWrite, TypeOK, locals, system, process
<1>4. OnlyOn(n)
  BY <1>2, <1>3 DEF Written, OnlyOn, Untouched, Same, CancelWrite, TypeOK
<1>5. Attempt(n)'
  BY <1>1, <1>2, <1>3 DEF Written, Attempt, RowFollowsWorker, ProcessAccounted, CancelIsFlagged,
                          SurvivorReconciled, Over, Exists, NoStatus
<1>6. n = 1 => RootKept
  BY <1>1, <1>2, <1>3 DEF Written, RootKept, Over, Exists, NoStatus, Holding
<1>7. LaterKept(n)
  BY <1>1, <1>2, <1>3 DEF Written, LaterKept
<1> QED BY <1>1, <1>3, <1>4, <1>5, <1>6, <1>7, UpIsQuiet, RunningKept

\* It closes the card.
LEMMA CancelPostRuns ==
    ASSUME TypeOK, Launched, Orderly, Running, NEW n \in Ids, CancelPost(n) PROVE Running'
<1>1. boot = "up" /\ Attempt(n) /\ canceller[n] = "post"
  BY BusyIsUp DEF CancelPost
<1>2. /\ UNCHANGED <<runs, child, unkilled, unreaped, worker, saw, watchdog, flags, accepted,
                     boot, todo>>
      /\ canceller'[n] = "idle"
  BY DEF CancelPost, TypeOK, locals, system, process
<1>3. OnlyOn(n)
  BY <1>2 DEF OnlyOn, Untouched, Same, CancelPost, TypeOK
<1>4. Attempt(n)'
  BY <1>1, <1>2 DEF Attempt, RowFollowsWorker, ProcessAccounted, CancelIsFlagged,
                    SurvivorReconciled, Over, Exists
<1>5. RootKept /\ LaterKept(n)
  BY <1>2 DEF RootKept, LaterKept, Over, Exists, Holding
<1> QED BY <1>1, <1>2, <1>3, <1>4, <1>5, UpIsQuiet, RunningKept

\* A process ends, whether or not a dashboard watches it.
LEMMA ChildExitsRuns ==
    ASSUME TypeOK, Launched, Orderly, Running, NEW n \in Ids, ChildExits(n) PROVE Running'
<1>1. /\ UNCHANGED <<runs, unkilled, unreaped, worker, saw, watchdog, flags, canceller,
                     accepted, boot, todo>>
      /\ child[n] = "alive" /\ child'[n] = "dead" /\ \A m \in Ids \ {n} : child'[m] = child[m]
  BY DEF ChildExits, TypeOK, memory, locals, cancels, system, process
<1>2. QuietUntilUp' /\ Attempt(n)
  BY <1>1 DEF Running, QuietUntilUp, Active
<1>3. OnlyOn(n)
  BY <1>1 DEF OnlyOn, Untouched, Same
<1>4. Attempt(n)'
  BY <1>1, <1>2 DEF Attempt, RowFollowsWorker, ProcessAccounted, CancelIsFlagged,
                    SurvivorReconciled, Over, Exists
<1>5. (n = 1 => RootKept) /\ LaterKept(n)
  BY <1>1 DEF RootKept, LaterKept, Over, Exists, Holding
<1> QED BY <1>2, <1>3, <1>4, <1>5, RunningKept

\* A time limit is over: the process is terminated, or known to survive.
LEMMA ExpireRuns ==
    ASSUME TypeOK, Launched, Orderly, Running, NEW n \in Ids, Expire(n) PROVE Running'
<1>1. boot = "up" /\ Attempt(n) /\ worker[n] = "pumping" /\ child[n] = "alive"
  BY BusyIsUp DEF Expire
<1>2. /\ UNCHANGED <<runs, worker, saw, flags, canceller, accepted, unreaped, boot, todo>>
      /\ \/ child'[n] = "dead" /\ watchdog'[n] = "expired" /\ unkilled' = unkilled
         \/ child'[n] = "alive" /\ watchdog'[n] = "unkillable" /\ unkilled' = unkilled \cup {n}
  BY DEF Expire, Terminated, Survives, TypeOK, cancels, system
<1>3. OnlyOn(n)
  BY <1>2 DEF OnlyOn, Untouched, Same, Expire, Terminated, Survives, TypeOK
<1>4. Attempt(n)'
  <2>1. RowFollowsWorker(n)' /\ ProcessAccounted(n)'
    BY <1>1, <1>2 DEF Attempt, RowFollowsWorker, ProcessAccounted, Over, Exists, Expire
  <2>2. CancelIsFlagged(n)' /\ SurvivorReconciled(n)'
    BY <1>1, <1>2 DEF Attempt, CancelIsFlagged, SurvivorReconciled
  <2> QED BY <2>1, <2>2 DEF Attempt
<1>5. (n = 1 => RootKept) /\ LaterKept(n)
  BY <1>1, <1>2 DEF RootKept, LaterKept, Over, Exists, Holding
<1> QED BY <1>1, <1>2, <1>3, <1>4, <1>5, UpIsQuiet, RunningKept

\* The watchdog writes the row, the worker reading on or past it; it fails a run only
\* beside a process that survived.
LEMMA WatchdogWritesRuns ==
    ASSUME TypeOK, Launched, Orderly, Running, NEW n \in Ids, WatchdogWrites(n)
    PROVE  Running'
<1>1. Exists(n) /\ Attempt(n) /\ worker[n] # "none" /\ boot = "up"
  <2>1. Exists(n) /\ Attempt(n)
    BY DEF Launched, Running, WatchdogWrites
  <2>2. worker[n] # "none"
    BY <2>1 DEF Attempt, ProcessAccounted, WatchdogWrites
  <2> QED BY <2>1, <2>2, BusyIsUp
<1>2. /\ UNCHANGED <<child, unkilled, unreaped, worker, saw, flags, canceller, accepted,
                      boot, todo>>
      /\ \A m \in Ids \ {n} : watchdog'[m] = watchdog[m]
  BY DEF WatchdogWrites, TypeOK, process, cancels, system
<1>3. PICK s \in RUN_STATUSES, c \in Classes :
        /\ Written(n, s, c)
        /\ \/ s = runs[n].status /\ watchdog[n] = "expired" /\ watchdog'[n] = "idle"
           \/ /\ s = "failed" /\ c = "other"
              /\ watchdog[n] = "unkillable" /\ watchdog'[n] = "over"
  <2>1. CASE watchdog[n] = "expired"
    <3>1. PICK c \in Classes : runs' = [runs EXCEPT ![n].class = c]
      BY <2>1, Vocabulary DEF WatchdogWrites
    <3>2. runs[n].status \in RUN_STATUSES /\ Written(n, runs[n].status, c)
      BY <1>1, <3>1, ClassWritten
    <3>3. watchdog'[n] = "idle"
      BY <2>1 DEF WatchdogWrites, TypeOK
    <3> QED BY <2>1, <3>2, <3>3
  <2>2. CASE watchdog[n] = "unkillable"
    <3>1. Written(n, "failed", "other")
      BY <2>2, Vocabulary, OutcomeWritten DEF WatchdogWrites
    <3>2. watchdog'[n] = "over"
      BY <2>2 DEF WatchdogWrites, TypeOK
    <3> QED BY <2>2, <3>1, <3>2, Vocabulary
  <2> QED BY <2>1, <2>2 DEF WatchdogWrites
<1>4. OnlyOn(n)
  BY <1>2, <1>3 DEF Written, OnlyOn, Untouched, Same
<1>5. Attempt(n)'
  <2>1. RowFollowsWorker(n)' /\ ProcessAccounted(n)'
    BY <1>1, <1>2, <1>3
       DEF Written, Attempt, RowFollowsWorker, ProcessAccounted, Over, Exists, NoStatus
  <2>2. CancelIsFlagged(n)' /\ SurvivorReconciled(n)'
    BY <1>1, <1>2, <1>3 DEF Attempt, CancelIsFlagged, SurvivorReconciled
  <2> QED BY <2>1, <2>2 DEF Attempt
<1>6. n = 1 => RootKept
  BY <1>1, <1>2, <1>3
     DEF Written, RootKept, Attempt, ProcessAccounted, Over, Exists, NoStatus, Holding
<1>7. LaterKept(n)
  BY <1>1, <1>2, <1>3 DEF Written, LaterKept
<1> QED BY <1>1, <1>2, <1>4, <1>5, <1>6, <1>7, UpIsQuiet, RunningKept

\* The dashboard stops: the processes of its workers are left with the rows they had.
LEMMA CrashRuns == ASSUME TypeOK, Launched, Orderly, Running, Crash PROVE Running'
<1>1. /\ boot' = "down" /\ todo' = {} /\ flags' = {} /\ accepted' = {}
      /\ UNCHANGED <<runs, child, unkilled, unreaped>>
      /\ \A n \in Ids : worker'[n] = "none" /\ watchdog'[n] = "idle" /\ canceller'[n] = "idle"
  BY DEF Crash, process
<1>2. QuietUntilUp'
  BY <1>1 DEF QuietUntilUp
<1>3. ASSUME NEW n \in Ids PROVE Attempt(n)'
  <2>1. Attempt(n)
    BY DEF Running
  <2> QED BY <1>1, <2>1 DEF Attempt, RowFollowsWorker, ProcessAccounted, CancelIsFlagged,
                            SurvivorReconciled, Over, Exists
<1>4. ASSUME NEW n \in Ids \ {1} PROVE AfterRoot(n)'
  <2>1. AfterRoot(n) /\ 1 \in Ids
    BY Bounds DEF Running
  <2> QED BY <1>1, <2>1 DEF AfterRoot, Over, Exists, Holding
<1> QED BY <1>2, <1>3, <1>4 DEF Running

\* What a step of the startup leaves alone.
LEMMA StartupRuns ==
    ASSUME TypeOK, Running, boot # "up", UNCHANGED <<runs, process, memory>>, QuietUntilUp',
           \A n \in Ids : SurvivorReconciled(n)'
    PROVE  Running'
<1>1. UNCHANGED <<runs, child, unkilled, unreaped, worker, saw, watchdog, flags, canceller,
                accepted>>
  BY DEF memory, locals, cancels, process
<1>2. ASSUME NEW n \in Ids PROVE Attempt(n)'
  <2>1. Attempt(n)
    BY DEF Running
  <2> QED BY <1>1, <2>1 DEF Attempt, RowFollowsWorker, ProcessAccounted, CancelIsFlagged,
                            Over, Exists
<1>3. \A n \in Ids \ {1} : AfterRoot(n)'
  BY <1>1 DEF Running, AfterRoot, Over, Exists, Holding
<1> QED BY <1>2, <1>3 DEF Running

\* The dashboard starts.
LEMMA StartRuns == ASSUME TypeOK, Launched, Orderly, Running, Start PROVE Running'
<1>1. /\ boot = "down" /\ boot' = "scan" /\ UNCHANGED <<runs, process, memory, todo>>
      /\ UNCHANGED <<worker, canceller>>
  BY DEF Start, memory, cancels, process
<1>2. QuietUntilUp'
  BY <1>1 DEF Running, QuietUntilUp
<1>3. \A n \in Ids : SurvivorReconciled(n)'
  BY <1>1 DEF Running, Attempt, SurvivorReconciled, process
<1> QED BY <1>1, <1>2, <1>3, StartupRuns

\* The active rows are read; none that a surviving process has is passed over.
LEMMA ReconcileScanRuns ==
    ASSUME TypeOK, Launched, Orderly, Running, ReconcileScan PROVE Running'
<1>1. /\ boot = "scan" /\ boot' = "reconcile" /\ UNCHANGED <<runs, process, memory>>
      /\ UNCHANGED <<worker, canceller>>
  BY DEF ReconcileScan, memory, cancels, process
<1>2. \A r \in todo' : r[2] = runs[r[1]].pid /\ Active(r[1])
  BY DEF ReconcileScan
<1>3. QuietUntilUp'
  BY <1>1, <1>2 DEF Running, QuietUntilUp, Active
<1>4. \A n \in Ids : runs[n].status \in {"preparing", "running"}
                        => <<n, runs[n].pid>> \in todo'
  BY DEF ReconcileScan, Active, ACTIVE_STATUSES
<1>5. \A n \in Ids : SurvivorReconciled(n)'
  BY <1>1, <1>4 DEF Running, Attempt, SurvivorReconciled, process
<1> QED BY <1>1, <1>3, <1>5, StartupRuns

\* A row is closed and the process it names is terminated.
LEMMA ReconcileRunRuns ==
    ASSUME TypeOK, Launched, Orderly, Running, NEW r \in todo, ReconcileRun(r)
    PROVE  Running'
<1> DEFINE n == r[1]
<1>1. /\ n \in Ids /\ boot = "reconcile" /\ r[2] = runs[n].pid /\ r = <<n, r[2]>>
      /\ Attempt(n) /\ worker[n] = "none" /\ canceller[n] = "idle"
  BY DEF TypeOK, Running, QuietUntilUp
<1>2. runs' = [runs EXCEPT ![n].status = "failed", ![n].class = "other"]
  BY DEF ReconcileRun
<1>3. /\ UNCHANGED <<unreaped, worker, saw, watchdog, flags, canceller, accepted, boot>>
      /\ \/ ~r[2] /\ child'[n] = child[n] /\ unkilled' = unkilled
         \/ child'[n] = "dead" /\ unkilled' = unkilled
         \/ child'[n] = child[n] /\ unkilled' = unkilled \cup {n}
      /\ \A m \in Ids \ {n} : child'[m] = child[m]
      /\ todo' = todo \ {r}
  BY <1>1 DEF ReconcileRun, terminate_process_group, Terminated, Survives, TypeOK, memory,
              locals, cancels
<1> HIDE DEF n
<1>4. Written(n, "failed", "other")
  BY <1>1, <1>2, Vocabulary, OutcomeWritten
<1>5. OnlyOn(n)
  BY <1>1, <1>3, <1>4 DEF OnlyOn, Untouched, Same, Written
<1>6. Attempt(n)'
  BY <1>1, <1>3, <1>4 DEF Written, Attempt, RowFollowsWorker, ProcessAccounted, CancelIsFlagged,
                          SurvivorReconciled, Exists, NoStatus
<1>7. QuietUntilUp'
  <2>1. \A t \in todo' : /\ t \in todo /\ t[1] \in Ids /\ t = <<t[1], t[2]>>
                         /\ t[2] = runs[t[1]].pid
    BY <1>3 DEF Running, QuietUntilUp, TypeOK
  <2>2. \A t \in todo' : t[1] # n
    BY <1>1, <1>3, <2>1
  <2> QED BY <1>3, <1>4, <2>1, <2>2 DEF Running, QuietUntilUp, Active, Written
<1>8. n = 1 => RootKept
  BY <1>1, <1>3, <1>4 DEF Written, RootKept, Over, Exists, NoStatus, Holding
<1>9. LaterKept(n)
  <2>1. Exists(n)
    BY <1>1 DEF Launched, n
  <2> QED BY <1>3, <1>4, <2>1 DEF Written, LaterKept
<1> QED BY <1>1, <1>5, <1>6, <1>7, <1>8, <1>9, RunningKept

\* Reconciliation ends with no row left.
LEMMA ReconcileDoneRuns ==
    ASSUME TypeOK, Launched, Orderly, Running, ReconcileDone PROVE Running'
<1>1. /\ boot = "reconcile" /\ todo = {} /\ boot' = "up" /\ todo' = {}
      /\ UNCHANGED <<runs, process, memory>> /\ UNCHANGED <<worker, canceller>>
  BY DEF ReconcileDone, memory, cancels, process
<1>2. QuietUntilUp'
  BY <1>1 DEF Running, QuietUntilUp
<1>3. \A n \in Ids : SurvivorReconciled(n)'
  BY <1>1 DEF Running, Attempt, SurvivorReconciled, process
<1> QED BY <1>1, <1>2, <1>3, StartupRuns

\* Every step.
LEMMA RunningStep ==
    ASSUME TypeOK, Launched, Orderly, Running, [Next]_vars PROVE Running'
<1>1. CASE Next
  <2>1. CASE Admit \/ Launch \/ Crash
    BY <2>1, AdmitRuns, LaunchRuns, CrashRuns
  <2>2. CASE Boot
    BY <2>2, StartRuns, ReconcileScanRuns, ReconcileRunRuns, ReconcileDoneRuns DEF Boot
  <2>3. ASSUME NEW n \in Ids, Work(n) PROVE Running'
    BY <2>3, AcquireRuns, SetPreparingRuns, PostPreparingRuns, PrepareFailsRuns,
       LaunchRefusedRuns, SpawnRuns, SetRunningRuns, PostRunningRuns, ReapRuns, RecordRuns,
       VerifyRuns, PostOutcomeRuns, WorkerErrorRuns, PostExecutionRuns, TimerFiresRuns
       DEF Work
  <2>4. ASSUME NEW n \in Ids,
               \/ Watch(n) \/ ChildExits(n) \/ WaitExpires(n)
               \/ FollowUp(n) \/ CancelFlag(n) \/ Cancel(n)
        PROVE  Running'
    BY <2>4, ExpireRuns, WatchdogWritesRuns, ChildExitsRuns, WaitExpiresRuns, FollowUpRuns,
       CancelFlagRuns, CancelDecideRuns, CancelWriteRuns, CancelPostRuns DEF Watch, Cancel
  <2> QED BY <1>1, <2>1, <2>2, <2>3, <2>4 DEF Next
<1>2. CASE UNCHANGED vars
  <2> USE <1>2 DEF vars, memory, locals, cancels, system, process
  <2>1. QuietUntilUp'
    BY DEF Running, QuietUntilUp, Active
  <2>2. \A n \in Ids : Untouched(n) /\ boot' = boot
    BY DEF Untouched, Same
  <2>3. \A n \in Ids : Attempt(n)'
    BY <2>2, UntouchedAttempt DEF Running
  <2>4. \A n \in Ids \ {1} : AfterRoot(n)'
    BY DEF Running, AfterRoot, Over, Exists, Holding
  <2> QED BY <2>1, <2>3, <2>4 DEF Running
<1> QED BY <1>1, <1>2

-----------------------------------------------------------------------------
(* The theorems.                                                            *)

\* The dashboard starts with no run.
LEMMA InitIInv == Init => IInv
<1> SUFFICES ASSUME Init PROVE IInv
  OBVIOUS
<1>1. NoRow \in Row /\ NoRow.status = NoStatus /\ NoRow.class = "none"
      /\ NoRow.provider = role.providers[1] /\ NoRow.max = role.max
  <2>1. role \in Roles
    BY DEF Init
  <2>2. role.providers \in Seq(Named(role)) /\ Len(role.providers) \in Nat \ {0}
        /\ Named(role) \subseteq Providers /\ role.max \in Nat
    BY <2>1, RoleShape
  <2>3. role.providers[1] \in Providers
    BY <2>2
  <2> QED BY <2>2, <2>3 DEF NoRow, Row, Classes
<1> HIDE DEF NoRow
<1>2. TypeOK
  BY <1>1, Bounds DEF Init, TypeOK, Steps
<1>3. Launched
  BY <1>1 DEF Init, Launched, Exists
<1>4. Running
  <2>1. QuietUntilUp
    BY DEF Init, QuietUntilUp
  <2>2. \A n \in Ids : Attempt(n) /\ ~Exists(n)
    BY <1>1 DEF Init, Attempt, RowFollowsWorker, ProcessAccounted, CancelIsFlagged,
                SurvivorReconciled, Exists
  <2> QED BY <2>1, <2>2 DEF Running, AfterRoot
<1>5. Laddered
  <2>1. role \in Roles
    BY DEF Init
  <2>2. /\ Len(role.providers) \in Nat \ {0} /\ role.max \in Nat \ {0}
        /\ role.fallbacks \in Seq(Named(role))
    BY <2>1, RoleShape
  <2>3. Chain \in Nat /\ Rung(0) = role.providers[1]
    BY <2>2 DEF Chain, Rung
  <2>4. 1 \in Ids /\ \A n \in Ids : runs[n] = NoRow
    BY Bounds DEF Init
  <2>5. OnRung(1)
    BY <1>1, <2>2, <2>3, <2>4 DEF OnRung
  <2> QED BY <1>1, <2>4, <2>5 DEF Laddered, Exists
<1> QED BY <1>2, <1>3, <1>4, <1>5 DEF IInv

\* The inductive invariant holds throughout.
THEOREM Invariance == Spec => []IInv
<1>1. IInv /\ [Next]_vars => IInv'
  <2> SUFFICES ASSUME IInv, [Next]_vars PROVE IInv'
    OBVIOUS
  <2>1. TypeOK /\ Launched
    BY DEF IInv
  <2>2. TypeOK' /\ Launched' /\ RowsStep
    BY <2>1, StepTyped
  <2>3. Orderly' => Orderly
    BY DEF Orderly
  <2>4. ChainsEnd' => ChainsEnd
    BY DEF ChainsEnd
  <2>5. Orderly => Running'
    BY <2>1, RunningStep DEF IInv
  <2>6. ChainsEnd => Laddered'
    BY <2>1, <2>2, LadderedStep DEF IInv
  <2> QED BY <2>2, <2>3, <2>4, <2>5, <2>6 DEF IInv
<1> QED BY InitIInv, <1>1, PTL DEF Spec

\* Every variable keeps its type (StaffRunner and RunStore).
THEOREM TypeCorrect == Spec => []TypeOK
<1>1. IInv => TypeOK
  BY DEF IInv
<1> QED BY Invariance, <1>1, PTL

\* However retries, sweeps and restarts race, an attempt gets one worker (_claim).
THEOREM AttemptsLaunchOnce == Spec => []OneWorkerPerAttempt
<1>1. IInv => OneWorkerPerAttempt
  BY DEF IInv, Launched, OneWorkerPerAttempt
<1> QED BY Invariance, <1>1, PTL

\* A cancel request that was accepted leaves no process running unnoticed, but for one
\* that survived being terminated (cancel and _execute share the lock).
THEOREM CancelsReachTheProcess == ASSUME Orderly PROVE Spec => []CancelReachesChild
<1>1. IInv => CancelReachesChild
  BY DEF IInv, TypeOK, Running, Attempt, CancelIsFlagged, CancelReachesChild
<1> QED BY Invariance, <1>1, PTL

\* A process is left running without a worker because its pid was never stored, its row
\* was cancelled, its worker gave up waiting for it (_execute), or it survived being
\* terminated (terminate_process_group); reconcile_orphaned_runs ends all others.
THEOREM RestartsLeaveNoKnownProcess == ASSUME Orderly PROVE Spec => []LeaksOnlyUnrecorded
<1>1. IInv => LeaksOnlyUnrecorded
  BY DEF IInv, Running, Attempt, RowFollowsWorker, SurvivorReconciled, LeaksOnlyUnrecorded
<1> QED BY Invariance, <1>1, PTL

\* The success of any attempt is the success of the run, unless the root was cancelled
\* or its watchdog gave its process up (handle_post_execution_retry).
THEOREM SuccessesReachTheRoot == ASSUME Orderly PROVE Spec => []SuccessReachesRoot
<1>1. IInv => SuccessReachesRoot
  BY DEF IInv, Running, AfterRoot, Exists, NoStatus, SuccessReachesRoot
<1> QED BY Invariance, <1>1, PTL

\* Retries and fallbacks come to an end (should_retry, next_fallback_provider).
THEOREM AttemptsEnd == ASSUME ChainsEnd PROVE Spec => []AttemptsBounded
<1>1. IInv => AttemptsBounded
  <2> SUFFICES ASSUME IInv, NEW n \in Ids, runs[n].status # NoStatus
               PROVE  n <= role.max + Chain
    BY DEF AttemptsBounded, Chain
  <2>1. PICK k \in 0..Chain : runs[n].max = role.max + k /\ n <= runs[n].max
    BY DEF IInv, Laddered, OnRung, Exists
  <2>2. role.max \in Nat /\ Chain \in Int /\ n \in Nat
    <3>1. role \in Roles
      BY DEF IInv, TypeOK
    <3> QED BY <3>1, RoleShape, Bounds DEF Chain
  <2> QED BY <2>1, <2>2
<1> QED BY Invariance, <1>1, PTL

=============================================================================
