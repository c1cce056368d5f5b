------------------------------ MODULE StaffRun ------------------------------
(***************************************************************************)
(* One logical staff run and its attempts (backend/staff): admission and   *)
(* the worker thread of each attempt (runner.py), cancellation by the      *)
(* operator, bounded retries and provider fallback (retry.py,              *)
(* retry_policy.py), the follow-up sweep that retries failed runs          *)
(* (followup.py), and a restart of the dashboard with the reconciliation   *)
(* of what it left behind (reconcile.py).  Attempt n + 1 has an id derived *)
(* from the root and n + 1, so attempts are numbered.                      *)
(*                                                                         *)
(* One store call is one action; what a thread does between two of them is *)
(* interleaved with the other threads, the watchdog (watchdog.py) among    *)
(* them.  Failure classes are abstracted to what the retry policy tells    *)
(* apart, and the exit code and the transcript to the outcome the worker   *)
(* records.  A role without declarative fallback rules and failover chain  *)
(* is modelled (both return at once for it), on a node that is its own     *)
(* authority for run cards.                                                *)
(***************************************************************************)
EXTENDS RunCardGate, Sequences

CONSTANTS
    Roles,           \* the RoleSpecs a run may have: providers in order (the first
                     \* one is chosen), fallback_providers and max_attempts
    MaxConcurrent,   \* MAX_CONCURRENT_RUNS; a provider runs one at a time
    MaxIds,          \* bound: attempts explored
    MaxCrashes,      \* bound: restarts of the dashboard
    Stubborn,        \* bound: attempts whose process may be slow to end when it is
                     \* terminated or awaited, or survive that
    EarlyRequests,   \* whether requests arrive while startup still reconciles
    Faults           \* whether a store call may fail beside a running child

Named(r) == {r.providers[i] : i \in DOMAIN r.providers} \cup {r.fallbacks[i] : i \in DOMAIN r.fallbacks}
Providers == UNION {Named(r) : r \in Roles}

ASSUME StaffRunBounds ==
    /\ \A r \in Roles : /\ r.providers \in Seq(Named(r)) /\ r.fallbacks \in Seq(Named(r))
                        /\ r.providers # <<>> /\ r.max \in Nat \ {0}
    /\ MaxConcurrent \in Nat \ {0}
    /\ MaxIds \in Nat \ {0} /\ MaxCrashes \in Nat
    /\ Faults \in BOOLEAN /\ EarlyRequests \in BOOLEAN

Ids == 1..MaxIds

ACTIVE_STATUSES == {"queued", "preparing", "running"}

\* Failure classes: those retried on the same provider, those only another
\* provider takes over (provider_capacity, quota_exhausted), "stalled" (only the
\* follow-up sweep retries it), every other one, and none.
Classes == {"transient", "capacity", "stalled", "other", "none"}

VARIABLES
    role,        \* the run's RoleSpec (fixed)
    runs,        \* the runs table: attempt -> row (status NoStatus: no row)
    card,        \* the status each attempt's run card shows
    child,       \* the provider CLI's process: "none", "alive", "dead"
    worker,      \* where the attempt's thread (or timer) is; "none", "done"
    saw,         \* the thread's last reading of the cancel flag
    classified,  \* the status the thread classified its result as
    watchdog,    \* the attempt's watchdog: "idle" (or none), what it still has to
                 \* write ("expired", "unkillable"), "over" beside a process it gave up
    flags,       \* _cancel_flags
    canceller,   \* where the operator's cancel request of an attempt is
    boot,        \* the dashboard: "down", "scan", "reconcile" or "up"
    todo,        \* rows (as read) that reconcile_orphaned_runs still handles
    crashes,     \* restarts so far
    launches,    \* history: worker threads ever scheduled for each attempt
    accepted,    \* history: attempts whose cancel request was accepted
    unkilled,    \* history: attempts whose process survived terminate_process_group
    unreaped     \* history: attempts whose worker gave up waiting for the process

locals == <<saw, classified, watchdog>>
process == <<child, unkilled, unreaped>>
cancels == <<flags, canceller, accepted>>
system == <<boot, todo, crashes>>
memory == <<worker, locals, cancels>>
vars == <<role, runs, card, process, memory, system, launches>>

Row == [status : RUN_STATUSES \cup {NoStatus}, class : Classes,
        provider : Providers, max : Nat, next : BOOLEAN, pid : BOOLEAN]

Steps == {"none", "admitted", "timer", "ready", "claimed", "preparing", "setup",
          "spawned", "started", "pumping", "reaped", "recorded", "verified",
          "retry", "done"}

TypeOK ==
    /\ role \in Roles
    /\ runs \in [Ids -> Row]
    /\ card \in [Ids -> RUN_STATUSES \cup {NoStatus}]
    /\ child \in [Ids -> {"none", "alive", "dead"}]
    /\ worker \in [Ids -> Steps]
    /\ saw \in [Ids -> BOOLEAN]
    /\ classified \in [Ids -> RUN_STATUSES \cup {NoStatus}]
    /\ watchdog \in [Ids -> {"idle", "expired", "unkillable", "over"}]
    /\ flags \subseteq Ids
    /\ canceller \in [Ids -> {"idle", "noproc", "proc", "write", "post"}]
    /\ boot \in {"down", "scan", "reconcile", "up"}
    /\ todo \subseteq Ids \X BOOLEAN
    /\ crashes \in 0..MaxCrashes
    /\ launches \in [Ids -> Nat]
    /\ accepted \subseteq Ids
    /\ unkilled \subseteq Ids /\ unreaped \subseteq Ids

NoRow == [status |-> NoStatus, class |-> "none", provider |-> role.providers[1],
          max |-> role.max, next |-> FALSE, pid |-> FALSE]

Init ==
    /\ role \in Roles
    /\ runs = [n \in Ids |-> NoRow]
    /\ card = [n \in Ids |-> NoStatus]
    /\ child = [n \in Ids |-> "none"]
    /\ worker = [n \in Ids |-> "none"]
    /\ saw = [n \in Ids |-> FALSE]
    /\ classified = [n \in Ids |-> NoStatus]
    /\ watchdog = [n \in Ids |-> "idle"]
    /\ flags = {}
    /\ canceller = [n \in Ids |-> "idle"]
    /\ boot = "scan"
    /\ todo = {}
    /\ crashes = 0
    /\ launches = [n \in Ids |-> 0]
    /\ accepted = {}
    /\ unkilled = {} /\ unreaped = {}

\* The routes are served, and the sweeps run, from the start of the process.
Serving == boot = "up" \/ (EarlyRequests /\ boot # "down")
Active(n) == runs[n].status \in ACTIVE_STATUSES

\* handle_run_status_change: the version-gated upsert of the run's card.
ShowCard(n, s) ==
    card' = [card EXCEPT ![n] =
               IF decide([version |-> 1, status |-> @], 2, s) = "applied" THEN s ELSE @]

SetStatus(n, s) == runs' = [runs EXCEPT ![n].status = s]
Step(n, from, to) == worker[n] = from /\ worker' = [worker EXCEPT ![n] = to]

\* terminate_process_group ends the process, or reports that some of it survived.
Terminated(n) == child' = [child EXCEPT ![n] = "dead"] /\ UNCHANGED unkilled
Survives(n) ==
    /\ child[n] = "alive" /\ n \in Stubborn
    /\ unkilled' = unkilled \cup {n}
    /\ UNCHANGED child
terminate_process_group(n) == Terminated(n) \/ Survives(n)

-----------------------------------------------------------------------------
(* Admission.                                                               *)

\* StaffRunner.admit of the root run.
Admit ==
    /\ Serving
    /\ runs[1].status = NoStatus
    /\ SetStatus(1, "queued")
    /\ Step(1, "none", "admitted")
    /\ UNCHANGED <<role, card, process, locals, cancels, system, launches>>

\* Its queued card, and launch.
Launch ==
    /\ Step(1, "admitted", "ready")
    /\ ShowCard(1, "queued")
    /\ launches' = [launches EXCEPT ![1] = @ + 1]
    /\ UNCHANGED <<role, runs, process, locals, cancels, system>>

-----------------------------------------------------------------------------
(* StaffRunner._worker and _execute.                                        *)

Holding == {n \in Ids : worker[n] \in {"claimed", "preparing", "setup", "spawned",
                                       "started", "pumping", "reaped", "recorded",
                                       "verified"}}

\* A process is registered from Popen until its worker has done with it.
Registered(n) == child[n] = "alive" /\ worker[n] # "none" /\ n \notin unreaped

\* The provider's and the node's semaphore, and the one early flag check.
Acquire(n) ==
    /\ worker[n] = "ready"
    /\ Cardinality(Holding) < MaxConcurrent
    /\ ~ \E m \in Holding : runs[m].provider = runs[n].provider
    /\ worker' = [worker EXCEPT ![n] = IF n \in flags THEN "done" ELSE "claimed"]
    /\ UNCHANGED <<role, runs, card, process, locals, cancels, system, launches>>

SetPreparing(n) ==
    /\ Step(n, "claimed", "preparing")
    /\ SetStatus(n, "preparing")
    /\ UNCHANGED <<role, card, process, locals, cancels, system, launches>>

PostPreparing(n) ==
    /\ Step(n, "preparing", "setup")
    /\ ShowCard(n, "preparing")
    /\ UNCHANGED <<role, runs, process, locals, cancels, system, launches>>

\* An outdated CLI, the disk floor, the bootstrap preflight, a held issue claim:
\* the row is written and the worker returns, past the retry policy.
PrepareFails(n) ==
    /\ Step(n, "setup", "done")
    /\ \E o \in {<<"failed", "transient">>, <<"failed", "other">>, <<"blocked", "other">>} :
          runs' = [runs EXCEPT ![n].status = o[1], ![n].class = o[2]]
    /\ UNCHANGED <<role, card, process, locals, cancels, system, launches>>

\* No credential, run token or provider slot: _execute returns before Popen.
LaunchRefused(n) ==
    /\ Step(n, "setup", "retry")
    /\ \E o \in {<<"failed", "transient">>, <<"failed", "other">>, <<"blocked", "other">>} :
          runs' = [runs EXCEPT ![n].status = o[1], ![n].class = o[2]]
    /\ UNCHANGED <<role, card, process, locals, cancels, system, launches>>

\* A faulty variant, for mutation runs: the flag is not read at registration.
SpawnUnchecked(n) ==
    /\ Step(n, "setup", "spawned")
    /\ child' = [child EXCEPT ![n] = "alive"]
    /\ UNCHANGED <<role, runs, card, unkilled, unreaped, locals, cancels, system, launches>>

\* Popen, and the registration of the process under the lock.
Spawn(n) ==
    /\ Step(n, "setup", "spawned")
    /\ child' = [child EXCEPT ![n] = "alive"]
    /\ saw' = [saw EXCEPT ![n] = n \in flags]
    /\ UNCHANGED <<role, runs, card, unkilled, unreaped, classified, watchdog, cancels, system,
                   launches>>

SetRunning(n) ==
    /\ Step(n, "spawned", "started")
    /\ runs' = [runs EXCEPT ![n].status = "running", ![n].pid = TRUE]
    /\ UNCHANGED <<role, card, process, locals, cancels, system, launches>>

\* A process whose cancellation was seen is terminated, whatever comes of it.
PostRunning(n) ==
    /\ Step(n, "started", "pumping")
    /\ ShowCard(n, "running")
    /\ IF saw[n] THEN terminate_process_group(n) ELSE UNCHANGED <<child, unkilled>>
    /\ UNCHANGED <<role, runs, unreaped, locals, cancels, system, launches>>

\* The CLI ends by itself, or with its last descendant.
ChildExits(n) ==
    /\ child[n] = "alive"
    /\ child' = [child EXCEPT ![n] = "dead"]
    /\ UNCHANGED <<role, runs, card, unkilled, unreaped, memory, system, launches>>

\* The watchdog of a worker that reads the output: a time limit is over and the process
\* is terminated, or survives.
Expire(n) ==
    /\ worker[n] = "pumping" /\ child[n] = "alive" /\ watchdog[n] = "idle"
    /\ \/ Terminated(n) /\ watchdog' = [watchdog EXCEPT ![n] = "expired"]
       \/ Survives(n) /\ watchdog' = [watchdog EXCEPT ![n] = "unkillable"]
    /\ UNCHANGED <<role, runs, card, unreaped, worker, saw, classified, cancels, system, launches>>

\* Then it writes the row.
WatchdogWrites(n) ==
    /\ \/ /\ watchdog[n] = "expired"
          /\ \E class \in {"stalled", "other"} : runs' = [runs EXCEPT ![n].class = class]
          /\ watchdog' = [watchdog EXCEPT ![n] = "idle"]
       \/ /\ watchdog[n] = "unkillable"
          /\ runs' = [runs EXCEPT ![n].status = "failed", ![n].class = "other"]
          /\ watchdog' = [watchdog EXCEPT ![n] = "over"]
    /\ UNCHANGED <<role, card, process, worker, saw, classified, cancels, system, launches>>

\* The worker waits for its watchdog to stop, two seconds at most.
WatchdogStops(n) == watchdog[n] \in {"expired", "unkillable"} => n \in Stubborn

\* The output is drained and the process has ended: it is forgotten, the flag read again.
Reap(n) ==
    /\ child[n] = "dead" /\ WatchdogStops(n)
    /\ Step(n, "pumping", "reaped")
    /\ saw' = [saw EXCEPT ![n] = n \in flags]
    /\ UNCHANGED <<role, runs, card, process, classified, watchdog, cancels, system, launches>>

\* The same for a process that has closed its output and does not end: the worker gives
\* up after five seconds, with the exit code -1.
WaitExpires(n) ==
    /\ child[n] = "alive" /\ n \in Stubborn
    /\ Step(n, "pumping", "reaped")
    /\ saw' = [saw EXCEPT ![n] = n \in flags]
    /\ unreaped' = unreaped \cup {n}
    /\ UNCHANGED <<role, runs, card, child, unkilled, classified, watchdog, cancels, system,
                   launches>>

\* classify_execution_result: what a finished attempt may be recorded as.
Outcomes(n) ==
    IF saw[n] THEN {<<"cancelled", "none">>}
    ELSE {<<"needs_input", "other">>, <<"failed", "transient">>, <<"failed", "capacity">>,
          <<"failed", "stalled">>, <<"failed", "other">>}
         \cup (IF n \in unreaped THEN {} ELSE {<<"succeeded", "none">>})

Record(n) ==
    /\ Step(n, "reaped", "recorded")
    /\ \E o \in Outcomes(n) :
          /\ runs' = [runs EXCEPT ![n].status = o[1], ![n].class = o[2]]
          /\ classified' = [classified EXCEPT ![n] = o[1]]
    /\ UNCHANGED <<role, card, process, saw, watchdog, cancels, system, launches>>

\* Verification may turn a success that delivered nothing into a failure.
Verify(n) ==
    /\ Step(n, "recorded", "verified")
    /\ \/ UNCHANGED runs
       \/ /\ runs[n].status = "succeeded"
          /\ runs' = [runs EXCEPT ![n].status = "failed", ![n].class = "other"]
    /\ UNCHANGED <<role, card, process, locals, cancels, system, launches>>

\* The card is posted with the classified status; the semaphores are released.
PostOutcome(n) ==
    /\ Step(n, "verified", "retry")
    /\ ShowCard(n, classified[n])
    /\ UNCHANGED <<role, runs, process, locals, cancels, system, launches>>

\* An exception in preparation or execution (a git command, the prompt's pipe, a
\* store call); nothing terminates the child then.
WorkerError(n) ==
    /\ n \in Holding
    /\ Registered(n) => Faults
    /\ worker' = [worker EXCEPT ![n] = "retry"]
    /\ SetStatus(n, "failed")
    /\ UNCHANGED <<role, card, process, locals, cancels, system, launches>>

-----------------------------------------------------------------------------
(* Retries.                                                                 *)

\* retry_policy.next_fallback_provider, every provider being usable: the first
\* entry of a fallback chain that is not the current one, or else the next of
\* the role's providers.
First(s, Good(_)) ==
    LET hits == {i \in DOMAIN s : Good(s[i])}
    IN  IF hits = {} THEN {} ELSE {s[CHOOSE i \in hits : \A j \in hits : i <= j]}

next_fallback_provider(current) ==
    IF role.fallbacks # <<>>
      THEN First(role.fallbacks, LAMBDA p : p # current)
      ELSE {role.providers[i + 1] : i \in {j \in 1..(Len(role.providers) - 1) :
                                            role.providers[j] = current}}

\* Faulty variants: one attempt too many; an attempt that exists is claimed again.
should_retry_once_more(n, classes) == runs[n].class \in classes /\ n <= runs[n].max

UnclaimedAlways(n) == n \in Ids

\* should_retry, the budget guard apart.
should_retry(n, classes) == runs[n].class \in classes /\ n < runs[n].max

\* _claim: the insert of the attempt's row decides who launches it.
Unclaimed(n) == n \in Ids /\ runs[n].status = NoStatus

\* The row of attempt n + 1 and the thread or timer that will run it.
Schedule(n, base, provider, max, delayed) ==
    /\ runs' = [base EXCEPT ![n + 1] =
                  [status |-> "queued", class |-> "none", provider |-> provider,
                   max |-> max, next |-> delayed, pid |-> FALSE]]
    /\ worker' = [worker EXCEPT ![n + 1] = IF delayed THEN "timer" ELSE "ready",
                                ![n] = IF @ = "retry" THEN "done" ELSE @]
    /\ launches' = [launches EXCEPT ![n + 1] = @ + 1]

\* handle_post_execution_retry: a success is copied to the root; a failure is
\* retried after a delay, or else handed to another provider at once, unless the
\* budget refuses it or the next attempt is claimed (or past the bound MaxIds).
Finish(n) == worker' = [worker EXCEPT ![n] = "done"] /\ UNCHANGED launches

\* A faulty variant: the success of a retry is not copied to the root.
SucceededAlone(n) == runs[n].status = "succeeded" /\ Finish(n) /\ UNCHANGED runs

Succeeded(n) ==
    /\ runs[n].status = "succeeded"
    /\ IF n = 1 THEN UNCHANGED runs ELSE SetStatus(1, "succeeded")
    /\ Finish(n)

Retry(n) ==
    /\ runs[n].status = "failed" /\ n \notin flags
    /\ should_retry(n, {"transient"})
    /\ LET due == [runs EXCEPT ![n].next = TRUE, ![1].next = TRUE]
       IN  IF Unclaimed(n + 1)
             THEN Schedule(n, due, runs[n].provider, runs[n].max, TRUE)
             ELSE runs' = due /\ Finish(n)

Fallback(n) ==
    /\ runs[n].status = "failed" /\ n \notin flags
    /\ runs[n].class \in {"transient", "capacity"} /\ ~should_retry(n, {"transient"})
    /\ Unclaimed(n + 1)
    /\ \E p \in next_fallback_provider(runs[n].provider) :
          Schedule(n, runs, p, runs[n].max + 1, FALSE)

GiveUp(n) == runs[n].status # "succeeded" /\ Finish(n) /\ UNCHANGED runs

PostExecution(n) ==
    /\ worker[n] = "retry"
    /\ Succeeded(n) \/ Retry(n) \/ Fallback(n) \/ GiveUp(n)
    /\ UNCHANGED <<role, card, process, locals, cancels, system>>

TimerFires(n) ==
    /\ Step(n, "timer", "ready")
    /\ UNCHANGED <<role, runs, card, process, locals, cancels, system, launches>>

\* launch_retry, from the follow-up sweep.
FollowUp(n) ==
    /\ Serving
    /\ runs[n].status = "failed"
    /\ should_retry(n, {"transient", "stalled"})
    /\ Unclaimed(n + 1)
    /\ Schedule(n, runs, runs[n].provider, runs[n].max, FALSE)
    /\ UNCHANGED <<role, card, process, locals, cancels, system>>

-----------------------------------------------------------------------------
(* StaffRunner.cancel, in its own thread.                                   *)

CancelFlag(n) ==
    /\ Serving
    /\ runs[n].status # NoStatus /\ canceller[n] = "idle" /\ n \notin flags
    /\ flags' = flags \cup {n}
    /\ canceller' = [canceller EXCEPT ![n] = IF Registered(n) THEN "proc" ELSE "noproc"]
    /\ UNCHANGED <<role, runs, card, process, worker, locals, accepted, system, launches>>

\* A faulty variant: the row of a queued run is left to the worker.
CancelDecideNotQueued(n) ==
    /\ canceller[n] \in {"proc", "noproc"}
    /\ LET kill  == canceller[n] = "proc" /\ child[n] = "alive"
           write == ~kill /\ runs[n].status = "preparing"
       IN  /\ canceller' = [canceller EXCEPT ![n] = IF kill THEN "post"
                                                   ELSE IF write THEN "write" ELSE "idle"]
           /\ IF kill THEN terminate_process_group(n) ELSE UNCHANGED <<child, unkilled>>
           /\ accepted' = IF kill \/ write THEN accepted \cup {n} ELSE accepted
    /\ UNCHANGED <<role, runs, card, unreaped, worker, locals, flags, system, launches>>

\* Terminate a process that is still alive, or look at the row; whether the process
\* survived is not asked.
CancelDecide(n) ==
    /\ canceller[n] \in {"proc", "noproc"}
    /\ LET kill  == canceller[n] = "proc" /\ child[n] = "alive"
           write == ~kill /\ runs[n].status \in {"queued", "preparing"}
       IN  /\ canceller' = [canceller EXCEPT ![n] = IF kill THEN "post"
                                                   ELSE IF write THEN "write" ELSE "idle"]
           /\ IF kill THEN terminate_process_group(n) ELSE UNCHANGED <<child, unkilled>>
           /\ accepted' = IF kill \/ write THEN accepted \cup {n} ELSE accepted
    /\ UNCHANGED <<role, runs, card, unreaped, worker, locals, flags, system, launches>>

CancelWrite(n) ==
    /\ canceller[n] = "write"
    /\ SetStatus(n, "cancelled")
    /\ canceller' = [canceller EXCEPT ![n] = "post"]
    /\ UNCHANGED <<role, card, process, worker, locals, flags, accepted, system, launches>>

CancelPost(n) ==
    /\ canceller[n] = "post"
    /\ ShowCard(n, "cancelled")
    /\ canceller' = [canceller EXCEPT ![n] = "idle"]
    /\ UNCHANGED <<role, runs, process, worker, locals, flags, accepted, system, launches>>

-----------------------------------------------------------------------------
(* The dashboard stops and starts; provider processes survive it.           *)

Crash ==
    /\ boot # "down"
    /\ crashes < MaxCrashes
    /\ boot' = "down"
    /\ crashes' = crashes + 1
    /\ worker' = [n \in Ids |-> "none"]
    /\ saw' = [n \in Ids |-> FALSE]
    /\ classified' = [n \in Ids |-> NoStatus]
    /\ watchdog' = [n \in Ids |-> "idle"]
    /\ flags' = {}
    /\ canceller' = [n \in Ids |-> "idle"]
    /\ accepted' = {}
    /\ todo' = {}
    /\ UNCHANGED <<role, runs, card, process, launches>>

Start ==
    /\ boot = "down"
    /\ boot' = "scan"
    /\ UNCHANGED <<role, runs, card, process, memory, todo, crashes, launches>>

\* reconcile_orphaned_runs reads the active rows, beside the server it starts
\* with, and skips retries that wait for their backoff.
ReconcileScan ==
    /\ boot = "scan"
    /\ boot' = "reconcile"
    /\ todo' = {<<n, runs[n].pid>> : n \in
                  {m \in Ids : /\ Active(m)
                               /\ ~(runs[m].status = "queued" /\ runs[m].next)}}
    /\ UNCHANGED <<role, runs, card, process, memory, crashes, launches>>

\* A faulty variant: the row is closed and the process it names is left running.
ReconcileRunNoKill(r) ==
    /\ r \in todo
    /\ todo' = todo \ {r}
    /\ runs' = [runs EXCEPT ![r[1]].status = "failed", ![r[1]].class = "other"]
    /\ UNCHANGED <<role, card, process, memory, boot, crashes, launches>>

ReconcileRun(r) ==
    LET n == r[1]
    IN  /\ r \in todo
        /\ todo' = todo \ {r}
        /\ IF r[2] THEN terminate_process_group(n) ELSE UNCHANGED <<child, unkilled>>
        /\ runs' = [runs EXCEPT ![n].status = "failed", ![n].class = "other"]
        /\ UNCHANGED <<role, card, unreaped, memory, boot, crashes, launches>>

ReconcileDone ==
    /\ boot = "reconcile" /\ todo = {}
    /\ boot' = "up"
    /\ UNCHANGED <<role, runs, card, process, memory, todo, crashes, launches>>

-----------------------------------------------------------------------------
Work(n) ==
    \/ Acquire(n) \/ SetPreparing(n) \/ PostPreparing(n) \/ PrepareFails(n)
    \/ LaunchRefused(n) \/ Spawn(n) \/ SetRunning(n) \/ PostRunning(n) \/ Reap(n) \/ Record(n)
    \/ Verify(n) \/ PostOutcome(n) \/ WorkerError(n) \/ PostExecution(n) \/ TimerFires(n)

Watch(n) == Expire(n) \/ WatchdogWrites(n)

Cancel(n) == CancelDecide(n) \/ CancelWrite(n) \/ CancelPost(n)

Boot == Start \/ ReconcileScan \/ (\E r \in todo : ReconcileRun(r)) \/ ReconcileDone

Next ==
    \/ Admit \/ Launch
    \/ \E n \in Ids : \/ Work(n) \/ Watch(n) \/ ChildExits(n) \/ WaitExpires(n)
                      \/ FollowUp(n) \/ CancelFlag(n) \/ Cancel(n)
    \/ Crash \/ Boot

Spec == Init /\ [][Next]_vars

\* Threads and timers are scheduled, the watchdog's limits are reached, and a supervised
\* dashboard starts again; no process has to end.
Fairness ==
    /\ WF_vars(Launch)
    /\ \A n \in Ids : WF_vars(Work(n)) /\ WF_vars(Watch(n)) /\ WF_vars(Cancel(n))
    /\ WF_vars(Boot)
FairSpec == Spec /\ Fairness

-----------------------------------------------------------------------------
(* Properties.                                                              *)

\* An attempt gets one worker thread, however post-execution retries, follow-up
\* sweeps and restarts race for it: the insert of its row decides (_claim).
OneWorkerPerAttempt == \A n \in Ids : launches[n] <= 1

\* A cancel request that was accepted leaves no provider process running unnoticed:
\* the process is gone, or it survived being terminated, or its worker saw the flag at
\* registration and is about to terminate it (the lock shared by cancel and _execute).
CancelReachesChild ==
    \A n \in accepted :
        child[n] = "alive" => \/ worker[n] \in {"spawned", "started"} /\ saw[n]
                              \/ n \in unkilled

\* A provider process that outlives its worker, once a restart is reconciled, does so for
\* one of four reasons: its pid never reached the store; a cancel request had closed its
\* row already; its worker gave up waiting for it; it survived terminate_process_group.
\* reconcile_orphaned_runs ends all the others.
LeaksOnlyUnrecorded ==
    boot = "up" =>
        \A n \in Ids : child[n] = "alive" /\ worker[n] \in {"none", "retry", "done"}
                            => \/ ~runs[n].pid \/ runs[n].status = "cancelled"
                               \/ n \in unreaped \/ n \in unkilled

\* reconcile.py: a restart "terminates child processes (by PID) if still alive".
NoKnownProcessLeaks ==
    boot = "up" =>
        \A n \in Ids : child[n] = "alive" /\ worker[n] \in {"none", "retry", "done"}
                            => ~runs[n].pid \/ runs[n].status = "cancelled"

\* Attempts are bounded by the role's max_attempts and one more for each provider the
\* run may fall back to: next_fallback_provider returns "None if exhausted".
AttemptsBounded ==
    LET chain == IF role.fallbacks = <<>> THEN Len(role.providers) - 1 ELSE Len(role.fallbacks)
    IN  \A n \in Ids : runs[n].status # NoStatus => n <= role.max + chain

\* Only its own worker, or its watchdog, fails a run that has one: reconciliation is
\* for runs "left active across a dashboard restart".
FailedByItsWorker ==
    [][\A n \in Ids :
          (runs'[n].status = "failed" /\ runs[n].status # "failed")
            => \/ worker[n] \in {"none", "done"} \/ worker'[n] # worker[n]
               \/ n \in unkilled]_vars

\* When an attempt that succeeded ends, the logical run succeeded, and stays so unless
\* the operator cancelled it or the watchdog of the root's own attempt fails it late:
\* handle_post_execution_retry rewrites the root's row.
SuccessReachesRoot ==
    \A n \in Ids : runs[n].status = "succeeded" /\ worker[n] = "done"
                      => runs[1].status = "succeeded" \/ 1 \in accepted \/ 1 \in unkilled

\* Every queued, preparing or running attempt ends: "exactly one attempt launches",
\* a restart included.
QueuedRunsEnd == <>[](\A n \in Ids : ~Active(n))

\* The one exception is a retry whose backoff timer ended with the process: every
\* other attempt ends, whatever is cancelled and whenever the dashboard restarts.
LostBackoff(n) == runs[n].status = "queued" /\ runs[n].next /\ worker[n] = "none"
RunsEndUnlessBackoffLost ==
    <>[](\A n \in Ids : Active(n) => LostBackoff(n))
=============================================================================
