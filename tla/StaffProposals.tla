--------------------------- MODULE StaffProposals ---------------------------
(***************************************************************************)
(* Action proposals: created in a thread, decided by a person or, once the *)
(* decision deadline has passed, by Barb's default (decision_sla.py), and  *)
(* executed (actions.py, execute_proposal).  An execution reads the        *)
(* proposal once and then changes its state in separate transactions       *)
(* (conversation_proposals.py), so executions, decisions, the sweep and the *)
(* reconciliation that runs beside the served routes after a restart       *)
(* (reconcile.py) interleave between its steps.                            *)
(*                                                                         *)
(* Each proposal is in a thread of its own.  A thread's epoch moves on when *)
(* its seat is handed over, which fences the proposals made before.        *)
(***************************************************************************)
EXTENDS Naturals, Sequences

CONSTANTS
    Order,        \* the proposals, by decision deadline
    DefaultsOf,   \* the values default_if_silent of a proposal may have
    Callers,      \* concurrent API requests that execute a proposal
    Barb,         \* the follow-up sweep
    Asked,        \* bound: the proposals the API requests execute
    MaxApprovals, \* bound: approvals by a person, per proposal
    MaxFaults     \* bound: restarts, failed audit writes and store errors

Props == {Order[i] : i \in DOMAIN Order}
Execs == Callers \cup {Barb}

ASSUME PropsAssumption ==
    /\ Order \in Seq(Props) /\ \A i, j \in DOMAIN Order : Order[i] = Order[j] => i = j
    /\ Asked \subseteq Props /\ DOMAIN DefaultsOf = Props /\ \A p \in Props : DefaultsOf[p] \subseteq {"", "approve", "deny"}
ASSUME ExecsAssumption  == Barb \notin Callers
ASSUME BoundsAssumption == MaxApprovals \in Nat /\ MaxFaults \in Nat

VARIABLES
    default,    \* default_if_silent of each proposal (fixed)
    state,      \* the proposal's state; "none" before it is created
    age,        \* "open", "due" past decide_by, "old" past 24 hours
    fenced,     \* proposals whose thread has moved to a newer epoch
    ex,         \* per executor: where it is, for which proposal, and whether the
                \* proposal failed or ended under it since its last step (history)
    sweep,      \* the overdue proposals the sweep still has to go through, by position
    claimed,    \* proposals that the last sweep to see them claimed in the follow-up ledger
    listing,    \* the restarted process has not yet listed the executing proposals
    orphans,    \* those it listed and has not yet marked failed
    approvals, starts, stale,  \* counts per proposal: approvals, starts, and starts by
                               \* an executor that read it before it failed (history)
    stuck,      \* executing proposals whose executor was turned away, by the audit of
                \* its start or by a store error after the action (history)
    faults

vars == <<default, state, age, fenced, ex, sweep, claimed, listing, orphans, approvals, starts, stale, stuck, faults>>

Idle == [at |-> "idle", p |-> Order[1], over |-> FALSE]
Steps == {"idle", "expire", "refuse", "decide", "start", "run"}

TypeOK ==
    /\ default \in [Props -> {"", "approve", "deny"}]
    /\ state \in [Props -> {"none", "proposed", "approved", "denied", "executing", "done", "failed", "expired"}]
    /\ age \in [Props -> {"open", "due", "old"}]
    /\ fenced \subseteq Props
    /\ ex \in [Execs -> [at : Steps, p : Props, over : BOOLEAN]]
    /\ sweep \subseteq DOMAIN Order /\ claimed \subseteq Props
    /\ listing \in BOOLEAN /\ orphans \subseteq Props /\ stuck \subseteq Props
    /\ \A f \in {approvals, starts, stale} : f \in [Props -> Nat]
    /\ faults \in 0..MaxFaults

Init ==
    /\ default \in [Props -> {"", "approve", "deny"}] /\ \A p \in Props : default[p] \in DefaultsOf[p]
    /\ state = [p \in Props |-> "none"]
    /\ age = [p \in Props |-> "open"]
    /\ fenced = {}
    /\ ex = [e \in Execs |-> Idle]
    /\ sweep = {} /\ claimed = {}
    /\ listing = FALSE /\ orphans = {} /\ stuck = {}
    /\ approvals = [p \in Props |-> 0] /\ starts = [p \in Props |-> 0] /\ stale = [p \in Props |-> 0]
    /\ faults = 0

Fault == faults < MaxFaults /\ faults' = faults + 1

-----------------------------------------------------------------------------
(* The store's two transactions.                                            *)

\* Faulty variant: a running proposal may be decided.
DecidableRunning(p) == state[p] \in {"proposed", "failed", "executing"} /\ p \notin fenced

\* decide_proposal.
Decidable(p) == state[p] \in {"proposed", "failed"} /\ p \notin fenced

\* _VALID_PROPOSAL_TRANSITIONS.
Allowed(p) ==
    CASE state[p] = "proposed"  -> {"approved", "denied", "expired", "executing", "failed"}
      [] state[p] = "approved"  -> {"executing", "failed", "expired"}
      [] state[p] = "executing" -> {"done", "failed"}
      [] state[p] = "failed"    -> {"executing", "approved", "denied"}
      [] OTHER -> {}

\* transition_proposal_state: what the proposal's state becomes, and whether
\* the call raises.
Moved(p, new) == IF new \in Allowed(p) THEN [state EXCEPT ![p] = new] ELSE state

\* The executors, when e moves on to step at and its proposal has failed or ended.
Over(e, at) ==
    [d \in Execs |-> IF d = e THEN [Idle EXCEPT !.at = at]
                     ELSE IF ex[d].at # "idle" /\ ex[d].p = ex[e].p THEN [ex[d] EXCEPT !.over = TRUE]
                     ELSE ex[d]]

\* A proposal that left `executing` is stuck no longer.
Unstuck == stuck' = {p \in stuck : state'[p] = "executing"}

-----------------------------------------------------------------------------
(* Proposals and decisions.                                                 *)

\* create_proposal; an identical pending proposal is returned instead.
Create(p) ==
    /\ state[p] = "none"
    /\ state' = [state EXCEPT ![p] = "proposed"]
    /\ UNCHANGED <<default, age, fenced, ex, sweep, claimed, listing, orphans, approvals, starts, stale, stuck, faults>>

\* A person decides: a late approval is refused, a late denial is not.
Decide(p, verdict) ==
    /\ Decidable(p)
    /\ verdict = "approved" => age[p] # "old" /\ approvals[p] < MaxApprovals
    /\ state' = [state EXCEPT ![p] = verdict]
    /\ approvals' = IF verdict = "approved" THEN [approvals EXCEPT ![p] = @ + 1] ELSE approvals
    /\ Unstuck
    /\ UNCHANGED <<default, age, fenced, ex, sweep, claimed, listing, orphans, starts, stale, faults>>

\* advance_thread_epoch; create_proposal reads the epoch before it inserts, so
\* a proposal may be fenced from the start.
Advance(p) ==
    /\ p \notin fenced
    /\ fenced' = fenced \cup {p}
    /\ UNCHANGED <<default, state, age, ex, sweep, claimed, listing, orphans, approvals, starts, stale, stuck, faults>>

Grow(p) ==
    /\ state[p] # "none" /\ age[p] # "old"
    /\ age' = [age EXCEPT ![p] = IF @ = "open" THEN "due" ELSE "old"]
    /\ UNCHANGED <<default, state, fenced, ex, sweep, claimed, listing, orphans, approvals, starts, stale, stuck, faults>>

-----------------------------------------------------------------------------
(* execute_proposal.                                                        *)

Executable(p, approve) == state[p] = "approved" \/ (approve /\ state[p] = "proposed")

\* Where the checks on the proposal as it was read lead: an unknown action or
\* a role without permission fails the proposal; a policy refusal raises.
Checked(p, approve) ==
    IF state[p] = "none" \/ p \in fenced THEN {"idle"}
    ELSE IF age[p] = "old" THEN {IF state[p] = "proposed" THEN "expire" ELSE "idle"}
    ELSE IF Executable(p, approve) THEN {"idle", "refuse", IF state[p] = "proposed" THEN "decide" ELSE "start"}
    ELSE {"idle"}

ExecRead(e, p, approve, at) ==
    /\ e # Barb /\ ex[e].at = "idle" /\ at # "idle"
    /\ at \in Checked(p, approve)
    /\ ex' = [ex EXCEPT ![e] = [at |-> at, p |-> p, over |-> FALSE]]
    /\ UNCHANGED <<default, state, age, fenced, sweep, claimed, listing, orphans, approvals, starts, stale, stuck, faults>>

ExecExpire(e) ==
    /\ ex[e].at = "expire"
    /\ state' = Moved(ex[e].p, "expired")
    /\ ex' = [ex EXCEPT ![e] = Idle]
    /\ UNCHANGED <<default, age, fenced, sweep, claimed, listing, orphans, approvals, starts, stale, stuck, faults>>

ExecRefuse(e) ==
    /\ ex[e].at = "refuse"
    /\ state' = Moved(ex[e].p, "failed")
    /\ ex' = IF state' # state THEN Over(e, "idle") ELSE [ex EXCEPT ![e] = Idle]
    /\ Unstuck
    /\ UNCHANGED <<default, age, fenced, sweep, claimed, listing, orphans, approvals, starts, stale, faults>>

\* The approver's decision is recorded; an error, of the store or of the audit
\* (after the commit), ends the execution.
ExecDecide(e, audited) ==
    LET p == ex[e].p
    IN  /\ ex[e].at = "decide"
        /\ IF audited THEN UNCHANGED faults ELSE Decidable(p) /\ Fault
        /\ state' = IF Decidable(p) THEN [state EXCEPT ![p] = "approved"] ELSE state
        /\ approvals' = IF Decidable(p) THEN [approvals EXCEPT ![p] = @ + 1] ELSE approvals
        /\ ex' = [ex EXCEPT ![e] = IF Decidable(p) /\ audited THEN [@ EXCEPT !.at = "start"] ELSE Idle]
        /\ Unstuck
        /\ UNCHANGED <<default, age, fenced, sweep, claimed, listing, orphans, starts, stale>>

ExecStart(e, audited) ==
    LET p  == ex[e].p
        ok == "executing" \in Allowed(p)
    IN  /\ ex[e].at = "start"
        /\ IF audited THEN UNCHANGED faults ELSE ok /\ Fault
        /\ state' = Moved(p, "executing")
        /\ ex' = [ex EXCEPT ![e] = IF ok /\ audited THEN [at |-> "run", p |-> p, over |-> FALSE] ELSE Idle]
        /\ starts' = IF ok /\ audited THEN [starts EXCEPT ![p] = @ + 1] ELSE starts
        /\ stale' = IF ok /\ audited /\ state[p] = "failed" /\ ex[e].over THEN [stale EXCEPT ![p] = @ + 1] ELSE stale
        /\ stuck' = IF ok /\ ~audited THEN stuck \cup {p} ELSE stuck
        /\ UNCHANGED <<default, age, fenced, sweep, claimed, listing, orphans, approvals>>

\* The action ran and was verified, or failed; recording it raises when the
\* proposal is no longer executing.
ExecFinish(e, new) ==
    /\ ex[e].at = "run"
    /\ state' = Moved(ex[e].p, new)
    /\ ex' = IF state' # state THEN Over(e, "idle") ELSE [ex EXCEPT ![e] = Idle]
    /\ Unstuck
    /\ UNCHANGED <<default, age, fenced, sweep, claimed, listing, orphans, approvals, starts, stale, faults>>

\* The action ran, and the store fails before its result is recorded.
ExecUnrecorded(e) ==
    /\ ex[e].at = "run" /\ Fault
    /\ ex' = [ex EXCEPT ![e] = Idle]
    /\ stuck' = stuck \cup {p \in {ex[e].p} : state[p] = "executing"}
    /\ UNCHANGED <<default, state, age, fenced, sweep, claimed, listing, orphans, approvals, starts, stale>>

-----------------------------------------------------------------------------
(* apply_decision_defaults.                                                 *)

Expects(p) == state[p] = "proposed" /\ age[p] # "open" /\ default[p] # ""

\* Faulty variant: the scan sees a bounded number of deadlines.
OverdueFirst == {i \in DOMAIN Order : i = 1 /\ Expects(Order[i])}

\* The overdue proposals that expect a default, by position in the deadline order.
Overdue == {i \in DOMAIN Order : Expects(Order[i])}

\* A sweep an interval after the last: every claim on a proposal is over, and taken anew.
SweepList ==
    /\ sweep = {} /\ ex[Barb].at = "idle"
    /\ sweep' = Overdue
    /\ claimed' = {Order[i] : i \in Overdue}
    /\ UNCHANGED <<default, state, age, fenced, ex, listing, orphans, approvals, starts, stale, stuck, faults>>

\* An earlier one skips what a sweep has claimed less than an interval ago.  (Bound: one
\* early sweep skips a proposal between two that claim it.)
SweepEarly(skip) ==
    /\ sweep = {} /\ ex[Barb].at = "idle" /\ skip \subseteq claimed
    /\ sweep' = {i \in Overdue : Order[i] \notin skip}
    /\ claimed' = {Order[i] : i \in Overdue} \ skip
    /\ UNCHANGED <<default, state, age, fenced, ex, listing, orphans, approvals, starts, stale, stuck, faults>>

\* The sweep is between two proposals, and i is the one with the earliest deadline.
SweepAt(i) == i \in sweep /\ (\A j \in sweep : i <= j) /\ ex[Barb].at = "idle"

SweepApprove(at) ==
    \E i \in sweep :
        /\ SweepAt(i) /\ default[Order[i]] = "approve"
        /\ at \in Checked(Order[i], TRUE)
        /\ ex' = [ex EXCEPT ![Barb] = [at |-> at, p |-> Order[i], over |-> FALSE]]
        /\ sweep' = sweep \ {i}
        /\ UNCHANGED <<default, state, age, fenced, claimed, listing, orphans, approvals, starts, stale, stuck, faults>>

\* A denial that the store refuses ends the sweep.
SweepDeny ==
    \E i \in sweep :
        /\ SweepAt(i) /\ default[Order[i]] = "deny"
        /\ IF Decidable(Order[i]) THEN state' = [state EXCEPT ![Order[i]] = "denied"] /\ sweep' = sweep \ {i}
           ELSE state' = state /\ sweep' = {}
        /\ UNCHANGED <<default, age, fenced, ex, claimed, listing, orphans, approvals, starts, stale, stuck, faults>>

\* The audit entry of an applied default cannot be written, which ends the sweep.
SweepAbort ==
    /\ sweep # {} /\ ex[Barb].at = "idle" /\ Fault
    /\ sweep' = {}
    /\ UNCHANGED <<default, state, age, fenced, ex, claimed, listing, orphans, approvals, starts, stale, stuck>>

-----------------------------------------------------------------------------
(* Restart.                                                                 *)

Crash ==
    /\ Fault
    /\ ex' = [e \in Execs |-> Idle]
    /\ sweep' = {}
    /\ listing' = TRUE
    /\ orphans' = {}
    /\ UNCHANGED <<default, state, age, fenced, claimed, approvals, starts, stale, stuck>>

\* Faulty variant: the wrong state is looked for.
InterruptedApproved == {p \in Props : state[p] = "approved"}

Interrupted == {p \in Props : state[p] = "executing"}

\* The list is taken while the API is already served.
ListOrphans ==
    /\ listing
    /\ listing' = FALSE
    /\ orphans' = Interrupted
    /\ UNCHANGED <<default, state, age, fenced, ex, sweep, claimed, approvals, starts, stale, stuck, faults>>

\* Faulty variant: an interrupted proposal is put back to be executed again.
ReconciledRetry(p) == [state EXCEPT ![p] = "approved"]

Reconciled(p) == Moved(p, "failed")

Reconcile(p) ==
    /\ p \in orphans
    /\ orphans' = orphans \ {p}
    /\ state' = Reconciled(p)
    /\ ex' = [e \in Execs |-> IF state' # state /\ ex[e].at # "idle" /\ ex[e].p = p
                              THEN [ex[e] EXCEPT !.over = TRUE] ELSE ex[e]]
    /\ Unstuck
    /\ UNCHANGED <<default, age, fenced, sweep, claimed, listing, approvals, starts, stale, faults>>

ExecStep(e) ==
    \/ ExecExpire(e) \/ ExecRefuse(e) \/ ExecDecide(e, TRUE) \/ ExecStart(e, TRUE)
    \/ \E new \in {"done", "failed"} : ExecFinish(e, new)

Sweep == SweepList \/ SweepDeny \/ \E at \in Steps : SweepApprove(at)

Boot == ListOrphans \/ \E p \in Props : Reconcile(p)

Next ==
    \/ \E p \in Props : \/ Create(p) \/ Advance(p) \/ Grow(p)
                         \/ \E verdict \in {"approved", "denied"} : Decide(p, verdict)
    \/ \E e \in Callers, p \in Asked, approve \in BOOLEAN, at \in Steps : ExecRead(e, p, approve, at)
    \/ \E e \in Execs : ExecStep(e) \/ ExecDecide(e, FALSE) \/ ExecStart(e, FALSE) \/ ExecUnrecorded(e)
    \/ Sweep \/ SweepAbort \/ \E skip \in SUBSET Props \ {{}} : SweepEarly(skip)
    \/ Crash \/ Boot

\* Worker threads go on, actions end (their clients have timeouts), the
\* follow-up sweep is requested again and again, an interval or more after the
\* last one (check_watchdog alerts when it is not), and a restarted process reconciles.
Fairness == (\A e \in Execs : WF_vars(ExecStep(e))) /\ WF_vars(Sweep) /\ WF_vars(Boot)

Spec == Init /\ [][Next]_vars /\ Fairness

-----------------------------------------------------------------------------
(* Properties.                                                              *)

\* An executor that runs an action holds its proposal: the proposal is
\* executing, for it alone, so that nobody can deny, expire or start it
\* meanwhile, unless another one failed or ended the proposal under it (the
\* restart's reconciliation, a refusal from a stale read, a replaced executor).
RunnerHoldsProposal ==
    \A e \in Execs :
        ex[e].at = "run" /\ ~ex[e].over =>
            /\ state[ex[e].p] = "executing"
            /\ \A d \in Execs \ {e} : ex[d].at = "run" /\ ex[d].p = ex[e].p => ex[d].over

\* "never blind-retried to prevent duplicate remote side effects": an approval
\* starts the action once.  The exception is an execution that had read the
\* approved proposal before another one failed it.
NoBlindRetry == \A p \in Props : starts[p] <= approvals[p] + stale[p]

\* "A ``failed`` proposal needs an explicit retry decision first."
RetryNeedsDecision == \A p \in Props : starts[p] <= approvals[p]

\* An action that started ends as done or failed, through restarts too, unless its
\* executor was turned away after the proposal was marked executing: by the audit of
\* the start, or by a store error between the action and its result.
ExecutionEndsUnlessUnrecorded ==
    \A p \in Props : state[p] = "executing" ~> state[p] # "executing" \/ p \in stuck

\* "Apply default_if_silent to every overdue proposal that has one."
SilentDenialApplied ==
    \A p \in Props : (default[p] = "deny" /\ state[p] = "proposed" /\ age[p] # "open")
                     ~> (state[p] # "proposed" \/ p \in fenced)

\* A silent denial is applied, whatever other proposals the sweep meets, unless
\* a fenced proposal with an earlier deadline is to be denied as well.
SilentDenialAppliedUnlessFenced ==
    \A i \in DOMAIN Order :
        (default[Order[i]] = "deny" /\ state[Order[i]] = "proposed" /\ age[Order[i]] # "open")
        ~> (state[Order[i]] # "proposed"
            \/ \E j \in 1..i : Order[j] \in fenced /\ default[Order[j]] = "deny")
=============================================================================
