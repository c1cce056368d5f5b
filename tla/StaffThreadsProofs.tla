------------------------- MODULE StaffThreadsProofs -------------------------
(***************************************************************************)
(* What goes on in a thread.                                               *)
(*                                                                         *)
(* StaffProposals, for every list of proposals, every default and any      *)
(* number of concurrent executors: a running action holds its proposal, an *)
(* approval starts its action once, and a decision that ended a proposal   *)
(* is final.                                                               *)
(*                                                                         *)
(* ThreadConsole, for any number of writers and messages and all sizes of  *)
(* the queue and of the pages: a Console that nothing is on its way to     *)
(* shows the thread as it is stored, but for what the recorded causes took.*)
(***************************************************************************)
EXTENDS StaffProposals, ThreadConsole, TLAPS

-----------------------------------------------------------------------------
(* The inductive invariant.                                                 *)

States == {"none", "proposed", "approved", "denied", "executing", "done", "failed", "expired"}
Executor == [at : Steps, p : Props \cup {Order[1]}, over : BOOLEAN]

\* What of the types the argument needs; an executor under way is at a proposal.
Typed ==
    /\ state \in [Props -> States]
    /\ ex \in [Execs -> Executor]
    /\ \A e \in Execs : ex[e].at # "idle" => ex[e].p \in Props
    /\ sweep \subseteq DOMAIN Order
    /\ approvals \in [Props -> Nat] /\ starts \in [Props -> Nat] /\ stale \in [Props -> Nat]

\* An executor about to start has seen its proposal approved; if the proposal
\* is failed by now, it failed under the executor.
StartsFromApproved ==
    \A e \in Execs : ex[e].at = "start" =>
        /\ state[ex[e].p] \notin {"none", "proposed"}
        /\ state[ex[e].p] = "failed" => ex[e].over

\* An approved proposal has an approval that has not started anything yet.
ApprovalUnspent == \A p \in Props : state[p] = "approved" => starts[p] < approvals[p] + stale[p]

IInv == Typed /\ StartsFromApproved /\ ApprovalUnspent /\ RunnerHoldsProposal /\ NoBlindRetry

-----------------------------------------------------------------------------
(* Facts about the store's transactions.                                    *)

\* No proposal exists and nobody executes one at the start.
LEMMA IInit == Init => IInv
<1> SUFFICES ASSUME Init PROVE IInv
  OBVIOUS
<1>1. Idle \in Executor /\ Idle.at = "idle"
  BY DEF Idle, Executor, Steps
<1>2. \A e \in Execs : ex[e] = Idle
  BY DEF Init
<1>3. Typed
  BY <1>1, <1>2 DEF Init, Typed, States
<1>4. StartsFromApproved /\ RunnerHoldsProposal
  BY <1>1, <1>2 DEF StartsFromApproved, RunnerHoldsProposal
<1>5. ApprovalUnspent /\ NoBlindRetry
  <2>1. \A p \in Props : state[p] = "none" /\ starts[p] = 0 /\ approvals[p] = 0 /\ stale[p] = 0
    BY DEF Init
  <2> QED BY <2>1 DEF ApprovalUnspent, NoBlindRetry
<1> QED BY <1>3, <1>4, <1>5 DEF IInv

\* transition_proposal_state changes the one proposal, to an allowed state or
\* not at all; nothing is allowed to leave done, denied or expired.
LEMMA MovedState ==
    ASSUME Typed, NEW p \in Props, NEW new \in {"executing", "done", "failed", "expired"}
    PROVE  /\ Moved(p, new) \in [Props -> States]
           /\ \A q \in Props \ {p} : Moved(p, new)[q] = state[q]
           /\ \/ Moved(p, new) = state /\ new \notin Allowed(p)
              \/ /\ Moved(p, new)[p] = new /\ new \in Allowed(p) /\ state[p] # new
                 /\ state[p] \in {"proposed", "approved", "executing", "failed"}
                 /\ new = "executing" => state[p] # "executing"
                 /\ new = "expired" => state[p] \in {"proposed", "approved"}
                 /\ state[p] = "executing" => new \in {"done", "failed"}
<1>1. state[p] \in States
  BY DEF Typed
<1>2. new \in Allowed(p) =>
        /\ state[p] # new /\ state[p] \in {"proposed", "approved", "executing", "failed"}
        /\ new = "expired" => state[p] \in {"proposed", "approved"}
        /\ state[p] = "executing" => new \in {"done", "failed"}
  BY <1>1 DEF Allowed, States
<1>3. CASE new \in Allowed(p)
  BY <1>2, <1>3 DEF Moved, Typed, States
<1>4. CASE new \notin Allowed(p)
  BY <1>4 DEF Moved, Typed
<1> QED BY <1>3, <1>4

-----------------------------------------------------------------------------
(* Proposals and decisions.                                                 *)

\* A change of one proposal that is not executing, to something other than
\* failed, keeps the invariant if an approval pays for it.
LEMMA DecisionKeeps ==
    ASSUME IInv, NEW p \in Props, NEW new \in {"proposed", "approved", "denied", "expired"},
           state' = [state EXCEPT ![p] = new],
           new = "proposed" => state[p] = "none", new # "proposed" => state[p] # "none",
           state[p] # "executing",
           ex' \in [Execs -> Executor],
           \A e \in Execs : \/ ex'[e] = ex[e]
                            \/ ex'[e].at = "idle"
                            \/ /\ ex'[e].at = "start" /\ new = "approved"
                               /\ ex'[e].p = p,
           sweep' \subseteq DOMAIN Order, UNCHANGED <<starts, stale>>,
           approvals' = IF new = "approved" THEN [approvals EXCEPT ![p] = @ + 1] ELSE approvals
    PROVE  IInv'
<1>1. /\ state' \in [Props -> States] /\ state'[p] = new
      /\ \A q \in Props \ {p} : state'[q] = state[q]
  BY DEF IInv, Typed, States
<1>2. /\ approvals' \in [Props -> Nat]
      /\ \A q \in Props : approvals'[q] >= approvals[q]
      /\ new = "approved" => approvals'[p] = approvals[p] + 1
  BY DEF IInv, Typed
<1>3. \A e \in Execs : ex'[e].at \notin {"idle", "start"} => ex'[e] = ex[e]
  OBVIOUS
<1>4. Typed'
  BY <1>1, <1>2 DEF IInv, Typed
<1>5. StartsFromApproved'
  <2> SUFFICES ASSUME NEW e \in Execs, ex'[e].at = "start"
               PROVE  StartsFromApproved!(e)!2'
    BY DEF StartsFromApproved
  <2>1. CASE ex'[e] = ex[e]
    <3>1. ex[e].p \in Props /\ StartsFromApproved!(e)!2
      BY <2>1 DEF IInv, Typed, StartsFromApproved
    <3> QED BY <1>1, <2>1, <3>1
  <2>2. CASE ex'[e].p = p /\ new = "approved"
    BY <1>1, <2>2
  <2> QED BY <2>1, <2>2
<1>6. ApprovalUnspent' /\ NoBlindRetry'
  BY <1>1, <1>2 DEF IInv, Typed, ApprovalUnspent, NoBlindRetry
<1>7. RunnerHoldsProposal'
  <2>1. \A e \in Execs : ex'[e].at = "run" => ex'[e] = ex[e] /\ ex[e].p \in Props
    BY <1>3 DEF IInv, Typed
  <2>2. \A q \in Props : state[q] = "executing" => state'[q] = "executing"
    BY <1>1
  <2> QED BY <2>1, <2>2 DEF IInv, RunnerHoldsProposal
<1> QED BY <1>4, <1>5, <1>6, <1>7 DEF IInv

\* Steps that change neither a proposal, nor an executor, nor a count.
LEMMA BystanderKeeps ==
    ASSUME IInv, UNCHANGED <<state, ex, approvals, starts, stale>>, sweep' \subseteq DOMAIN Order
    PROVE  IInv'
  BY DEF IInv, Typed, StartsFromApproved, ApprovalUnspent, RunnerHoldsProposal, NoBlindRetry

\* A new read of a proposal.
LEMMA ReadKeeps ==
    ASSUME IInv, NEW e \in Execs, NEW p \in Props, NEW approve, NEW at \in Checked(p, approve),
           ex[e].at = "idle",
           ex' = [ex EXCEPT ![e] = [at |-> at, p |-> p, over |-> FALSE]],
           sweep' \subseteq DOMAIN Order, UNCHANGED <<state, approvals, starts, stale>>
    PROVE  IInv'
<1> DEFINE c == [at |-> at, p |-> p, over |-> FALSE]
<1>1. /\ at \in {"idle", "expire", "refuse", "decide", "start"}
      /\ at = "start" => state[p] = "approved"
  BY DEF Checked, Executable
<1>2. c \in Executor /\ c.at = at /\ c.p = p
  BY <1>1 DEF Executor, Steps
<1>3. ex' \in [Execs -> Executor] /\ \A d \in Execs : ex'[d] = IF d = e THEN c ELSE ex[d]
  BY <1>2 DEF IInv, Typed
<1> HIDE DEF c
<1>4. Typed'
  BY <1>2, <1>3 DEF IInv, Typed
<1>5. StartsFromApproved'
  BY <1>1, <1>2, <1>3 DEF IInv, StartsFromApproved
<1>6. ApprovalUnspent' /\ NoBlindRetry'
  BY DEF IInv, ApprovalUnspent, NoBlindRetry
<1>7. RunnerHoldsProposal'
  BY <1>1, <1>2, <1>3 DEF IInv, RunnerHoldsProposal
<1> QED BY <1>4, <1>5, <1>6, <1>7 DEF IInv

-----------------------------------------------------------------------------
(* The end of a proposal.                                                   *)

\* A proposal is failed or ended: everybody who is at it is told so.
LEMMA EndKeeps ==
    ASSUME IInv, NEW p \in Props, NEW new \in {"done", "failed"}, new \in Allowed(p),
           state' = Moved(p, new), ex' \in [Execs -> Executor],
           \A d \in Execs : \/ ex'[d].at = "idle"
                            \/ ex[d].at # "idle" /\ ex[d].p = p /\ ex'[d] = [ex[d] EXCEPT !.over = TRUE]
                            \/ ex[d].p # p /\ ex'[d] = ex[d],
           sweep' \subseteq DOMAIN Order, UNCHANGED <<approvals, starts, stale>>
    PROVE  IInv'
<1>1. /\ state' \in [Props -> States] /\ state'[p] = new
      /\ \A q \in Props \ {p} : state'[q] = state[q]
  BY MovedState DEF IInv
<1>2. \A d \in Execs : ex'[d].at # "idle" =>
         /\ ex'[d].at = ex[d].at /\ ex'[d].p = ex[d].p
         /\ \/ ex[d].p = p /\ ex'[d].over = TRUE
            \/ ex[d].p # p /\ ex'[d] = ex[d]
  BY DEF IInv, Typed, Executor
<1>3. Typed'
  BY <1>1, <1>2 DEF IInv, Typed
<1>4. StartsFromApproved'
  <2> SUFFICES ASSUME NEW d \in Execs, ex'[d].at = "start"
               PROVE  StartsFromApproved!(d)!2'
    BY DEF StartsFromApproved
  <2>1. ex[d].at = "start" /\ ex[d].p \in Props /\ ex'[d].p = ex[d].p
    BY <1>2 DEF IInv, Typed
  <2>2. CASE ex[d].p = p
    BY <1>1, <1>2, <2>1, <2>2
  <2>3. CASE ex[d].p # p
    BY <1>1, <1>2, <2>1, <2>3 DEF IInv, StartsFromApproved
  <2> QED BY <2>2, <2>3
<1>5. ApprovalUnspent' /\ NoBlindRetry'
  BY <1>1 DEF IInv, ApprovalUnspent, NoBlindRetry
<1>6. RunnerHoldsProposal'
  <2> SUFFICES ASSUME NEW e \in Execs, ex'[e].at = "run", ~ex'[e].over
               PROVE  RunnerHoldsProposal!(e)!2'
    BY DEF RunnerHoldsProposal
  <2>1. ex[e].at = "run" /\ ex'[e] = ex[e] /\ ex[e].p \in Props /\ ex[e].p # p
    BY <1>2 DEF IInv, Typed
  <2>2. RunnerHoldsProposal!(e)!2
    BY <2>1 DEF IInv, RunnerHoldsProposal
  <2>3. \A d \in Execs \ {e} : ex'[d].at = "run" /\ ex'[d].p = ex[e].p => ex'[d].over
    BY <1>2, <2>1, <2>2
  <2> QED BY <1>1, <2>1, <2>2, <2>3
<1> QED BY <1>3, <1>4, <1>5, <1>6 DEF IInv

\* An executor that goes back to idle and changes nothing else.
LEMMA GiveUpKeeps ==
    ASSUME IInv, NEW e \in Execs, ex' = [ex EXCEPT ![e] = Idle],
           sweep' \subseteq DOMAIN Order, UNCHANGED <<state, approvals, starts, stale>>
    PROVE  IInv'
<1>1. Idle \in Executor /\ Idle.at = "idle"
  BY DEF Idle, Executor, Steps
<1>2. ex' \in [Execs -> Executor] /\ \A d \in Execs : ex'[d] = IF d = e THEN Idle ELSE ex[d]
  BY <1>1 DEF IInv, Typed
<1>3. Typed'
  BY <1>1, <1>2 DEF IInv, Typed
<1>4. StartsFromApproved' /\ RunnerHoldsProposal'
  BY <1>1, <1>2 DEF IInv, StartsFromApproved, RunnerHoldsProposal
<1>5. ApprovalUnspent' /\ NoBlindRetry'
  BY DEF IInv, ApprovalUnspent, NoBlindRetry
<1> QED BY <1>3, <1>4, <1>5 DEF IInv

\* The refusal of a read proposal, and the end of an action.
LEMMA FinishKeeps ==
    ASSUME IInv, NEW e \in Execs, NEW new \in {"done", "failed"}, ex[e].at # "idle",
           state' = Moved(ex[e].p, new),
           ex' = IF state' # state THEN Over(e, "idle") ELSE [ex EXCEPT ![e] = Idle],
           UNCHANGED <<sweep, approvals, starts, stale>>
    PROVE  IInv'
<1> DEFINE p == ex[e].p
<1>1. p \in Props /\ sweep' \subseteq DOMAIN Order
  BY DEF IInv, Typed
<1>2. CASE new \in Allowed(p)
  <2>1. state' # state
    BY <1>1, <1>2, MovedState DEF IInv
  <2> DEFINE off == [Idle EXCEPT !.at = "idle"]
  <2>2. off \in Executor /\ off.at = "idle"
    BY DEF Idle, Executor, Steps
  <2> HIDE DEF off
  <2>3. ex' = [d \in Execs |-> IF d = e THEN off
                               ELSE IF ex[d].at # "idle" /\ ex[d].p = p THEN [ex[d] EXCEPT !.over = TRUE]
                               ELSE ex[d]]
    BY <2>1 DEF Over, off
  <2>4. \A d \in Execs : [ex[d] EXCEPT !.over = TRUE] \in Executor
    BY DEF IInv, Typed, Executor
  <2>5. ex' \in [Execs -> Executor]
    BY <2>2, <2>3, <2>4 DEF IInv, Typed
  <2>6. \A d \in Execs : \/ ex'[d].at = "idle"
                         \/ ex[d].at # "idle" /\ ex[d].p = p /\ ex'[d] = [ex[d] EXCEPT !.over = TRUE]
                         \/ ex[d].p # p /\ ex'[d] = ex[d]
    BY <2>2, <2>3
  <2> QED BY <1>1, <1>2, <2>5, <2>6, EndKeeps
<1>3. CASE new \notin Allowed(p)
  BY <1>1, <1>3, GiveUpKeeps DEF Moved
<1> QED BY <1>2, <1>3

\* The reconciliation after a restart.
LEMMA ReconcileKeeps ==
    ASSUME IInv, NEW p \in Props, Reconcile(p)
    PROVE  IInv'
<1>1. /\ state' = Moved(p, "failed") /\ UNCHANGED <<sweep, approvals, starts, stale>>
      /\ ex' = [e \in Execs |-> IF state' # state /\ ex[e].at # "idle" /\ ex[e].p = p
                                THEN [ex[e] EXCEPT !.over = TRUE] ELSE ex[e]]
      /\ sweep' \subseteq DOMAIN Order
  BY DEF Reconcile, Reconciled, IInv, Typed
<1>2. CASE "failed" \in Allowed(p)
  <2>1. state' # state
    BY <1>1, <1>2, MovedState DEF IInv
  <2>2. \A d \in Execs : [ex[d] EXCEPT !.over = TRUE] \in Executor
    BY DEF IInv, Typed, Executor
  <2>3. ex' \in [Execs -> Executor]
    BY <1>1, <2>2 DEF IInv, Typed
  <2>4. \A d \in Execs : \/ ex'[d].at = "idle"
                         \/ ex[d].at # "idle" /\ ex[d].p = p /\ ex'[d] = [ex[d] EXCEPT !.over = TRUE]
                         \/ ex[d].p # p /\ ex'[d] = ex[d]
    BY <1>1, <2>1
  <2> QED BY <1>1, <1>2, <2>3, <2>4, EndKeeps
<1>3. CASE "failed" \notin Allowed(p)
  <2>1. state' = state
    BY <1>1, <1>3 DEF Moved
  <2>2. ex' = ex
    BY <1>1, <2>1 DEF IInv, Typed
  <2> QED BY <1>1, <2>1, <2>2, BystanderKeeps
<1> QED BY <1>2, <1>3

-----------------------------------------------------------------------------
(* execute_proposal.                                                        *)

\* A start spends an approval, or is by an executor that read the proposal
\* before it failed.
LEMMA StartKeeps ==
    ASSUME IInv, NEW e \in Execs, NEW audited \in BOOLEAN, ExecStart(e, audited)
    PROVE  IInv'
<1> DEFINE p == ex[e].p
           c == [at |-> "run", p |-> p, over |-> FALSE]
<1>1. /\ ex[e].at = "start" /\ p \in Props /\ sweep' \subseteq DOMAIN Order
      /\ state' = Moved(p, "executing") /\ UNCHANGED approvals
      /\ state[p] \notin {"none", "proposed"} /\ (state[p] = "failed" => ex[e].over)
  BY DEF ExecStart, IInv, Typed, StartsFromApproved
<1>2. CASE "executing" \notin Allowed(p)
  <2>1. state' = state /\ ex' = [ex EXCEPT ![e] = Idle] /\ UNCHANGED <<starts, stale>>
    BY <1>1, <1>2 DEF ExecStart, Moved
  <2> QED BY <1>1, <2>1, GiveUpKeeps
<1>3. CASE "executing" \in Allowed(p)
  <2>1. /\ state' \in [Props -> States] /\ state'[p] = "executing" /\ state[p] # "executing"
        /\ \A q \in Props \ {p} : state'[q] = state[q]
        /\ state[p] \in {"approved", "failed"}
    BY <1>1, <1>3, MovedState DEF IInv
  <2>2. \A d \in Execs : ex[d].at = "run" /\ ex[d].p = p => ex[d].over
    BY <1>1, <2>1 DEF IInv, RunnerHoldsProposal
  <2>3. /\ Idle \in Executor /\ Idle.at = "idle" /\ c \in Executor
        /\ c.at = "run" /\ c.p = p /\ ~c.over
    BY <1>1 DEF Idle, Executor, Steps
  <2>4. PICK x \in {Idle, c} : ex' = [ex EXCEPT ![e] = x]
    BY <1>3 DEF ExecStart
  <2> HIDE DEF c
  <2>5. /\ ex' \in [Execs -> Executor] /\ \A d \in Execs : ex'[d] = IF d = e THEN x ELSE ex[d]
    BY <2>3, <2>4 DEF IInv, Typed
  <2>6. /\ starts' \in [Props -> Nat] /\ stale' \in [Props -> Nat]
        /\ \A q \in Props \ {p} : starts'[q] = starts[q] /\ stale'[q] = stale[q]
        /\ \/ starts'[p] = starts[p] /\ stale'[p] = stale[p]
           \/ starts'[p] = starts[p] + 1 /\ state[p] = "failed" /\ stale'[p] = stale[p] + 1
           \/ starts'[p] = starts[p] + 1 /\ state[p] = "approved" /\ stale'[p] = stale[p]
    <3>1. \/ UNCHANGED <<starts, stale>>
          \/ /\ starts' = [starts EXCEPT ![p] = @ + 1] /\ state[p] = "failed"
             /\ stale' = [stale EXCEPT ![p] = @ + 1]
          \/ starts' = [starts EXCEPT ![p] = @ + 1] /\ state[p] = "approved" /\ stale' = stale
      BY <1>1, <1>3, <2>1 DEF ExecStart
    <3> QED BY <1>1, <3>1 DEF IInv, Typed
  <2>7. Typed'
    BY <1>1, <2>1, <2>3, <2>5, <2>6 DEF IInv, Typed
  <2>8. StartsFromApproved'
    <3> SUFFICES ASSUME NEW d \in Execs, ex'[d].at = "start"
                 PROVE  StartsFromApproved!(d)!2'
      BY DEF StartsFromApproved
    <3>1. d # e /\ ex'[d] = ex[d] /\ ex[d].p \in Props
      BY <2>3, <2>5 DEF IInv, Typed
    <3> QED BY <2>1, <3>1 DEF IInv, StartsFromApproved
  <2>9. ApprovalUnspent' /\ NoBlindRetry'
    BY <1>1, <2>1, <2>6 DEF IInv, Typed, ApprovalUnspent, NoBlindRetry
  <2>10. RunnerHoldsProposal'
    <3> SUFFICES ASSUME NEW d \in Execs, ex'[d].at = "run", ~ex'[d].over
                 PROVE  RunnerHoldsProposal!(d)!2'
      BY DEF RunnerHoldsProposal
    <3>1. CASE d = e
      BY <2>1, <2>2, <2>3, <2>5, <3>1
    <3>2. CASE d # e
      <4>1. ex'[d] = ex[d] /\ ex[d].p \in Props /\ ex[d].p # p /\ RunnerHoldsProposal!(d)!2
        BY <2>2, <2>5, <3>2 DEF IInv, Typed, RunnerHoldsProposal
      <4> QED BY <2>1, <2>3, <2>5, <4>1
    <3> QED BY <3>1, <3>2
  <2> QED BY <2>7, <2>8, <2>9, <2>10 DEF IInv
<1> QED BY <1>2, <1>3

\* The approver's decision is an approval, or ends the execution.
LEMMA ExecDecideKeeps ==
    ASSUME IInv, NEW e \in Execs, NEW audited \in BOOLEAN, ExecDecide(e, audited)
    PROVE  IInv'
<1> DEFINE p == ex[e].p
<1>1. /\ ex[e].at = "decide" /\ p \in Props /\ sweep' \subseteq DOMAIN Order
      /\ UNCHANGED <<starts, stale>>
  BY DEF ExecDecide, IInv, Typed
<1>2. CASE ~Decidable(p)
  BY <1>1, <1>2, GiveUpKeeps DEF ExecDecide
<1>3. CASE Decidable(p)
  <2>1. /\ state' = [state EXCEPT ![p] = "approved"]
        /\ approvals' = [approvals EXCEPT ![p] = @ + 1]
        /\ state[p] \in {"proposed", "failed"}
    BY <1>3 DEF ExecDecide, Decidable
  <2> DEFINE c == [ex[e] EXCEPT !.at = "start"]
  <2>2. c \in Executor /\ c.at = "start" /\ c.p = p /\ Idle \in Executor /\ Idle.at = "idle"
    BY DEF IInv, Typed, Executor, Steps, Idle
  <2>3. PICK x \in {c, Idle} : ex' = [ex EXCEPT ![e] = x]
    BY <1>3 DEF ExecDecide
  <2> HIDE DEF c
  <2>4. ex' \in [Execs -> Executor] /\ \A d \in Execs : ex'[d] = IF d = e THEN x ELSE ex[d]
    BY <2>2, <2>3 DEF IInv, Typed
  <2>5. \A d \in Execs : \/ ex'[d] = ex[d]
                         \/ ex'[d].at = "idle"
                         \/ ex'[d].at = "start" /\ ex'[d].p = p
    BY <2>2, <2>4
  <2> QED BY <1>1, <2>1, <2>4, <2>5, DecisionKeeps
<1> QED BY <1>2, <1>3

\* An expired proposal ends the execution that found it so.
LEMMA ExpireKeeps ==
    ASSUME IInv, NEW e \in Execs, ExecExpire(e)
    PROVE  IInv'
<1> DEFINE p == ex[e].p
<1>1. /\ ex[e].at = "expire" /\ p \in Props /\ sweep' \subseteq DOMAIN Order
      /\ state' = Moved(p, "expired") /\ ex' = [ex EXCEPT ![e] = Idle]
      /\ UNCHANGED <<approvals, starts, stale>>
  BY DEF ExecExpire, IInv, Typed
<1>2. CASE "expired" \notin Allowed(p)
  BY <1>1, <1>2, GiveUpKeeps DEF Moved
<1>3. CASE "expired" \in Allowed(p)
  <2>1. state' = [state EXCEPT ![p] = "expired"] /\ state[p] \in {"proposed", "approved"}
    BY <1>1, <1>3, MovedState DEF Moved, IInv
  <2>2. Idle \in Executor /\ Idle.at = "idle"
    BY DEF Executor, Steps, Idle
  <2>3. ex' \in [Execs -> Executor] /\ \A d \in Execs : ex'[d] = ex[d] \/ ex'[d].at = "idle"
    BY <1>1, <2>2 DEF IInv, Typed
  <2> QED BY <1>1, <2>1, <2>3, DecisionKeeps
<1> QED BY <1>2, <1>3

-----------------------------------------------------------------------------
(* All steps.                                                               *)

\* A restart leaves nobody at a proposal.
LEMMA CrashKeeps == IInv /\ Crash => IInv'
<1> SUFFICES ASSUME IInv, Crash PROVE IInv'
  OBVIOUS
<1>1. Idle \in Executor /\ Idle.at = "idle"
  BY DEF Idle, Executor, Steps
<1>2. /\ ex' \in [Execs -> Executor] /\ \A e \in Execs : ex'[e].at = "idle"
      /\ sweep' \subseteq DOMAIN Order /\ UNCHANGED <<state, approvals, starts, stale>>
  BY <1>1 DEF Crash
<1>3. Typed'
  BY <1>2 DEF IInv, Typed
<1>4. StartsFromApproved' /\ RunnerHoldsProposal'
  BY <1>2 DEF StartsFromApproved, RunnerHoldsProposal
<1>5. ApprovalUnspent' /\ NoBlindRetry'
  BY <1>2 DEF IInv, ApprovalUnspent, NoBlindRetry
<1> QED BY <1>3, <1>4, <1>5 DEF IInv

\* Creation, the decisions of a person, a new epoch, time.
LEMMA ProposalStep ==
    ASSUME IInv, NEW p \in Props,
           \/ Create(p) \/ Advance(p) \/ Grow(p)
           \/ \E verdict \in {"approved", "denied"} : Decide(p, verdict)
    PROVE  IInv'
<1>1. ex \in [Execs -> Executor] /\ sweep \subseteq DOMAIN Order
  BY DEF IInv, Typed
<1>2. CASE Create(p)
  <2>1. /\ state[p] = "none" /\ state' = [state EXCEPT ![p] = "proposed"]
        /\ UNCHANGED <<ex, sweep, approvals, starts, stale>>
    BY <1>2 DEF Create
  <2> QED BY <1>1, <2>1, DecisionKeeps
<1>3. CASE Advance(p) \/ Grow(p)
  BY <1>1, <1>3, BystanderKeeps DEF Advance, Grow
<1>4. ASSUME NEW verdict \in {"approved", "denied"}, Decide(p, verdict) PROVE IInv'
  <2>1. /\ state[p] \in {"proposed", "failed"} /\ state' = [state EXCEPT ![p] = verdict]
        /\ UNCHANGED <<ex, sweep, starts, stale>>
        /\ approvals' = IF verdict = "approved" THEN [approvals EXCEPT ![p] = @ + 1] ELSE approvals
    BY <1>4 DEF Decide, Decidable
  <2> QED BY <1>1, <2>1, DecisionKeeps
<1> QED BY <1>2, <1>3, <1>4

\* The follow-up sweep.
LEMMA SweepStep ==
    ASSUME IInv, Sweep \/ SweepAbort \/ \E skip \in SUBSET Props \ {{}} : SweepEarly(skip)
    PROVE  IInv'
<1>1. ex \in [Execs -> Executor] /\ sweep \subseteq DOMAIN Order /\ Barb \in Execs
  BY DEF IInv, Typed, Execs
<1>2. CASE SweepList \/ SweepAbort \/ \E skip \in SUBSET Props \ {{}} : SweepEarly(skip)
  BY <1>2, BystanderKeeps DEF SweepList, SweepAbort, SweepEarly, Overdue
<1>3. CASE SweepDeny
  <2>1. PICK i \in sweep :
          /\ IF Decidable(Order[i])
               THEN state' = [state EXCEPT ![Order[i]] = "denied"] /\ sweep' = sweep \ {i}
               ELSE state' = state /\ sweep' = {}
          /\ UNCHANGED <<ex, approvals, starts, stale>>
    BY <1>3 DEF SweepDeny
  <2>2. Order[i] \in Props /\ sweep' \subseteq DOMAIN Order
    BY <1>1, <2>1 DEF Props
  <2>3. CASE Decidable(Order[i])
    BY <1>1, <2>1, <2>2, <2>3, DecisionKeeps DEF Decidable
  <2>4. CASE ~Decidable(Order[i])
    BY <2>1, <2>2, <2>4, BystanderKeeps
  <2> QED BY <2>3, <2>4
<1>4. ASSUME NEW at \in Steps, SweepApprove(at) PROVE IInv'
  <2>1. PICK i \in sweep :
          /\ at \in Checked(Order[i], TRUE) /\ ex[Barb].at = "idle"
          /\ ex' = [ex EXCEPT ![Barb] = [at |-> at, p |-> Order[i], over |-> FALSE]]
          /\ sweep' = sweep \ {i} /\ UNCHANGED <<state, approvals, starts, stale>>
    BY <1>4 DEF SweepApprove, SweepAt
  <2>2. Order[i] \in Props /\ sweep' \subseteq DOMAIN Order
    BY <1>1, <2>1 DEF Props
  <2> QED BY <1>1, <2>1, <2>2, ReadKeeps
<1> QED BY <1>2, <1>3, <1>4 DEF Sweep

\* Every step keeps the invariant.
LEMMA IStep == IInv /\ [Next]_vars => IInv'
<1> SUFFICES ASSUME IInv, [Next]_vars PROVE IInv'
  OBVIOUS
<1>1. ASSUME NEW e \in Callers, NEW p \in Asked, NEW approve \in BOOLEAN, NEW at \in Steps,
             ExecRead(e, p, approve, at)
      PROVE  IInv'
  <2>1. e \in Execs /\ p \in Props /\ sweep' \subseteq DOMAIN Order
    BY <1>1, PropsAssumption DEF Execs, ExecRead, IInv, Typed
  <2> QED BY <1>1, <2>1, ReadKeeps DEF ExecRead
<1>2. ASSUME NEW e \in Execs, ExecRefuse(e) \/ \E new \in {"done", "failed"} : ExecFinish(e, new)
      PROVE  IInv'
  BY <1>2, FinishKeeps DEF ExecRefuse, ExecFinish
<1>3. ASSUME NEW e \in Execs,
             ExecStep(e) \/ ExecDecide(e, FALSE) \/ ExecStart(e, FALSE) \/ ExecUnrecorded(e)
      PROVE  IInv'
  <2>1. CASE ExecUnrecorded(e)
    <3>1. ex[e].at = "run" /\ ex' = [ex EXCEPT ![e] = Idle]
          /\ UNCHANGED <<state, sweep, approvals, starts, stale>>
      BY <2>1 DEF ExecUnrecorded
    <3> QED BY <3>1, GiveUpKeeps DEF IInv, Typed
  <2> QED BY <1>2, <1>3, <2>1, ExpireKeeps, ExecDecideKeeps, StartKeeps DEF ExecStep
<1>4. CASE Boot
  <2>1. CASE ListOrphans
    <3>1. UNCHANGED <<state, ex, approvals, starts, stale>> /\ sweep' \subseteq DOMAIN Order
      BY <2>1 DEF ListOrphans, IInv, Typed
    <3> QED BY <3>1, BystanderKeeps
  <2> QED BY <1>4, <2>1, ReconcileKeeps DEF Boot
<1>5. CASE UNCHANGED vars
  <2>1. UNCHANGED <<state, ex, approvals, starts, stale>> /\ sweep' \subseteq DOMAIN Order
    BY <1>5 DEF vars, IInv, Typed
  <2> QED BY <2>1, BystanderKeeps
<1> QED BY <1>1, <1>3, <1>4, <1>5, ProposalStep, SweepStep, CrashKeeps DEF Next

\* The invariant holds throughout.
LEMMA Invariance == Spec => []IInv
  BY IInit, IStep, PTL DEF Spec

-----------------------------------------------------------------------------
(* The results.                                                             *)

\* While execute_proposal runs an action the proposal is executing, for it
\* alone, unless the proposal was failed or ended under it.
THEOREM RunnerHolds == Spec => []RunnerHoldsProposal
<1>1. IInv => RunnerHoldsProposal
  BY DEF IInv
<1> QED BY <1>1, Invariance, PTL

\* Each start of an action is paid for by an approval of its own, or is by an
\* execution that had read the proposal before it failed.
THEOREM ApprovalsStartOnce == Spec => []NoBlindRetry
<1>1. IInv => NoBlindRetry
  BY DEF IInv
<1> QED BY <1>1, Invariance, PTL

\* A proposal that is done, denied or expired stays so: no late executor, no
\* second decision, no sweep and no reconciliation reopens it.
THEOREM EndedStaysEnded ==
    Spec => [][\A p \in Props : state[p] \in {"done", "denied", "expired"} => state'[p] = state[p]]_vars
<1>1. IInv /\ [Next]_vars =>
        [\A p \in Props : state[p] \in {"done", "denied", "expired"} => state'[p] = state[p]]_vars
  <2> SUFFICES ASSUME IInv, [Next]_vars, NEW p \in Props, state[p] \in {"done", "denied", "expired"}
               PROVE  state'[p] = state[p]
    OBVIOUS
  <2>1. state \in [Props -> States]
    BY DEF IInv, Typed
  <2>2. ASSUME NEW q \in Props, NEW new \in {"executing", "done", "failed", "expired"},
               state' = Moved(q, new)
        PROVE  state'[p] = state[p]
    BY <2>2, MovedState DEF IInv
  <2>3. ASSUME NEW q \in Props, NEW new, Decidable(q) \/ state[q] = "none",
               state' = [state EXCEPT ![q] = new]
        PROVE  state'[p] = state[p]
    BY <2>1, <2>3 DEF Decidable
  <2>4. ASSUME NEW e \in Execs,
               ExecStep(e) \/ ExecDecide(e, FALSE) \/ ExecStart(e, FALSE) \/ ExecUnrecorded(e)
        PROVE  state'[p] = state[p]
    <3>1. ex[e].at # "idle" => ex[e].p \in Props
      BY DEF IInv, Typed
    <3>2. CASE \/ ExecExpire(e) \/ ExecRefuse(e) \/ \E new \in {"done", "failed"} : ExecFinish(e, new)
      BY <2>2, <3>1, <3>2 DEF ExecExpire, ExecRefuse, ExecFinish
    <3>3. ASSUME NEW audited \in BOOLEAN, ExecDecide(e, audited) PROVE state'[p] = state[p]
      BY <2>3, <3>1, <3>3 DEF ExecDecide
    <3>4. ASSUME NEW audited \in BOOLEAN, ExecStart(e, audited) PROVE state'[p] = state[p]
      BY <2>2, <3>1, <3>4 DEF ExecStart
    <3> QED BY <2>4, <3>2, <3>3, <3>4 DEF ExecStep, ExecUnrecorded
  <2>5. ASSUME NEW q \in Props,
               \/ Create(q) \/ Advance(q) \/ Grow(q) \/ Reconcile(q)
               \/ \E verdict \in {"approved", "denied"} : Decide(q, verdict)
        PROVE  state'[p] = state[p]
    BY <2>2, <2>3, <2>5 DEF Create, Advance, Grow, Reconcile, Reconciled, Decide
  <2>6. CASE SweepDeny
    <3>1. PICK i \in sweep :
            state' = state \/ (Decidable(Order[i]) /\ state' = [state EXCEPT ![Order[i]] = "denied"])
      BY <2>6 DEF SweepDeny
    <3>2. Order[i] \in Props
      BY <3>1 DEF IInv, Typed, Props
    <3> QED BY <2>3, <3>1, <3>2
  <2>7. CASE \/ SweepList \/ SweepAbort \/ Crash \/ ListOrphans \/ UNCHANGED vars
             \/ \E at \in Steps : SweepApprove(at)
             \/ \E skip \in SUBSET Props \ {{}} : SweepEarly(skip)
             \/ \E e \in Callers, q \in Asked, approve \in BOOLEAN, at \in Steps :
                  ExecRead(e, q, approve, at)
    BY <2>7 DEF SweepList, SweepAbort, Crash, ListOrphans, vars, SweepApprove, SweepEarly, ExecRead
  <2> QED BY <2>4, <2>5, <2>6, <2>7 DEF Next, Sweep, Boot
<1> QED BY <1>1, Invariance, PTL DEF Spec

-----------------------------------------------------------------------------
(* The Console: the inductive invariant.                                    *)

\* Where an event of message m can be.
Pending(m) == \E w \in Writers : pub[w].m = m
Newest(m)  == \E w \in Writers : pub[w].m = m /\ pub[w].v = store[m]
InWire(m)  == \E i \in DOMAIN wire : wire[i].m = m
InQueue(m) == \E i \in DOMAIN queue : queue[i].m = m
Carries(m) == InWire(m) \/ InQueue(m)
Lost       == late \cup dropped

\* What is on its way was stored, and what is shown is at or below the cursor.
OnTheWay ==
    /\ \A w \in Writers : pub[w].m > 0 => pub[w].m \in DOMAIN store /\ pub[w].v <= store[pub[w].m]
    /\ \A m \in Msgs : sent[m] > 0 => m \in DOMAIN store /\ sent[m] <= store[m]
    /\ \A i \in DOMAIN wire : wire[i].m \in DOMAIN store
    /\ \A i \in DOMAIN queue : queue[i].m > 0 => sent[queue[i].m] > 0
    /\ history.msgs \in Seq(1..MaxVersion)
    /\ \A m \in DOMAIN history.msgs : m \in DOMAIN store /\ history.msgs[m] <= store[m]
    /\ \A m \in Msgs : shown[m] > 0 => m <= cursor
    /\ link = "down" => queue = << >>
    /\ link # "live" => wire = << >>

\* The replay goes on where the cursor of its request was.
ReplayInOrder ==
    /\ \A i \in DOMAIN wire : wire[i].m = wire[1].m + i - 1
    /\ wire # << >> => since < wire[1].m /\ \A m \in Msgs : since < m /\ m < wire[1].m => shown[m] > 0
    /\ link = "subscribed" => \A m \in Msgs : since < m /\ m <= cursor => shown[m] > 0

\* The newest content of a message has its event pending or sent, unless a restart
\* took it; then no older event is left.
NewestComesLast ==
    \A m \in DOMAIN store : Newest(m) \/ sent[m] = store[m] \/ (~Pending(m) /\ ~InQueue(m))

\* The last event of a message in the queue is the last that was sent.
QueueInOrder ==
    \A i \in DOMAIN queue :
        /\ queue[i].m \notin Lost \cup {0}
        /\ \A j \in DOMAIN queue : j > i => queue[j].m # queue[i].m
        => queue[i].v = sent[queue[i].m]

\* What is to be shown last of a message is its newest content, or that is pending:
\* in the replay, on the screen, and in the history answer.
ReplayCurrent ==
    \A i \in DOMAIN wire :
        wire[i].m \notin Lost /\ ~InQueue(wire[i].m)
        => Newest(wire[i].m) \/ wire[i].v = store[wire[i].m]
ShownCurrent ==
    \A m \in DOMAIN store :
        m \notin Lost \cup missed /\ ~Carries(m) /\ shown[m] > 0 => Newest(m) \/ shown[m] = store[m]
HistoryCurrent ==
    \A m \in DOMAIN history.msgs :
        m \notin Lost \cup missed /\ ~Carries(m) /\ shown[m] = 0 => Newest(m) \/ history.msgs[m] = store[m]

\* A message that the cursor passed before it was shown has still to be sent, behind a
\* later one.
PassedUnsent ==
    \A m \in DOMAIN store :
        m <= cursor /\ shown[m] = 0 /\ m \notin Lost \cup skipped
        => sent[m] = 0 /\ Pending(m) /\ \E k \in Msgs : k > m /\ sent[k] > 0

\* A message that the cursor has not passed is on its way to an open stream, ahead of
\* every later one.
ArrivesInOrder ==
    link = "live" =>
        \A m \in DOMAIN store :
            m > cursor /\ m \notin Lost \cup skipped /\ ~InWire(m)
            => \/ sent[m] = 0 /\ Pending(m)
               \/ \E i \in DOMAIN queue : queue[i].m = m /\ \A j \in DOMAIN queue : j < i => queue[j].m <= m

ConsoleInv ==
    /\ ConsoleTypeOK /\ OnTheWay /\ ReplayInOrder /\ NewestComesLast /\ QueueInOrder
    /\ ReplayCurrent /\ ShownCurrent /\ HistoryCurrent /\ PassedUnsent /\ ArrivesInOrder

-----------------------------------------------------------------------------
(* Facts about numbers and sequences.                                       *)

\* The larger and the smaller of two numbers.
LEMMA MaxOfTwo ==
    ASSUME NEW a \in Int, NEW b \in Int
    PROVE  Max({a, b}) = IF a >= b THEN a ELSE b
<1>1. \E x \in {a, b} : \A y \in {a, b} : x >= y
  OBVIOUS
<1>2. /\ Max({a, b}) \in {a, b}
      /\ \A y \in {a, b} : Max({a, b}) >= y
  BY <1>1, Zenon DEF Max
<1> QED BY <1>2

LEMMA MinOfTwo ==
    ASSUME NEW a \in Int, NEW b \in Int
    PROVE  Min({a, b}) = IF a <= b THEN a ELSE b
<1>1. \E x \in {a, b} : \A y \in {a, b} : x =< y
  OBVIOUS
<1>2. /\ Min({a, b}) \in {a, b}
      /\ \A y \in {a, b} : Min({a, b}) =< y
  BY <1>1, Zenon DEF Min
<1> QED BY <1>2

\* A sequence that is appended to, and one that loses its head.
LEMMA Appended ==
    ASSUME NEW S, NEW s \in Seq(S), NEW e \in S
    PROVE  /\ Append(s, e) \in Seq(S) /\ Len(s) \in Nat
           /\ Len(Append(s, e)) = Len(s) + 1
           /\ DOMAIN s = 1..Len(s) /\ DOMAIN Append(s, e) = 1..(Len(s) + 1)
           /\ \A i \in 1..Len(s) : Append(s, e)[i] = s[i]
           /\ Append(s, e)[Len(s) + 1] = e
  OBVIOUS

LEMMA Beheaded ==
    ASSUME NEW S, NEW s \in Seq(S), s # << >>
    PROVE  /\ Len(s) \in Nat \ {0} /\ DOMAIN s = 1..Len(s)
           /\ Head(s) = s[1] /\ Head(s) \in S
           /\ Tail(s) \in Seq(S) /\ Len(Tail(s)) = Len(s) - 1
           /\ DOMAIN Tail(s) = 1..(Len(s) - 1)
           /\ \A i \in 1..(Len(s) - 1) : Tail(s)[i] = s[i + 1]
  OBVIOUS

LEMMA InSequence ==
    ASSUME NEW S, NEW s \in Seq(S)
    PROVE  Len(s) \in Nat /\ DOMAIN s = 1..Len(s) /\ \A i \in DOMAIN s : s[i] \in S
  OBVIOUS

LEMMA EmptySequence ==
    ASSUME NEW S
    PROVE  << >> \in Seq(S) /\ Len(<< >>) = 0 /\ DOMAIN << >> = {}
  OBVIOUS

\* The constants are numbers.
LEMMA ConsoleConstants ==
    /\ QueueSize \in Nat \ {0} /\ HistoryPage \in Nat \ {0} /\ ReplayPage \in Nat \ {0}
    /\ MaxMsgs \in Nat \ {0} /\ MaxVersion \in Nat \ {0} /\ MaxBreaks \in Nat
    /\ Cards \subseteq Msgs /\ Replies \subseteq Cards
  BY ConsoleAssumption

\* What the types say of each variable's parts.
LEMMA ConsoleParts ==
    ASSUME ConsoleTypeOK
    PROVE  /\ Len(store) \in Nat /\ Len(store) <= MaxMsgs /\ DOMAIN store = 1..Len(store)
           /\ \A m \in DOMAIN store : store[m] \in 1..MaxVersion /\ store[m] \in Nat /\ m \in Msgs
           /\ \A w \in Writers : /\ pub[w] = Nothing \/ pub[w] \in Event
                                 /\ pub[w].m \in Nat /\ pub[w].v \in Nat
                                 /\ pub[w].m > 0 => pub[w] \in Event /\ pub[w].m \in Msgs /\ pub[w].v \in 1..MaxVersion
                                 /\ pub[w].m = 0 => pub[w] = Nothing
           /\ Len(wire) \in Nat /\ DOMAIN wire = 1..Len(wire)
           /\ \A i \in DOMAIN wire : wire[i].m \in Msgs /\ wire[i].v \in 1..MaxVersion
           /\ Len(queue) \in Nat /\ DOMAIN queue = 1..Len(queue)
           /\ \A i \in DOMAIN queue : /\ queue[i].m \in Nat /\ queue[i].v \in 1..MaxVersion
                                      /\ queue[i].m > 0 => queue[i].m \in Msgs /\ queue[i] \in Event
                                      /\ queue[i].m = 0 => queue[i] = Resync
           /\ \A m \in Msgs : /\ shown[m] \in 0..MaxVersion /\ sent[m] \in 0..MaxVersion
                              /\ shown[m] \in Nat /\ sent[m] \in Nat
           /\ cursor \in Nat /\ since \in Nat /\ since <= cursor /\ cursor <= Len(store)
           /\ Msgs \subseteq Nat \ {0}
<1>1. \A e \in Event : e.m \in Msgs /\ e.v \in 1..MaxVersion /\ e.v \in Nat
  BY DEF Event
<1>2. Nothing.m = 0 /\ Nothing.v = 0 /\ Resync.m = 0 /\ Resync.v = 1 /\ 1 \in 1..MaxVersion
  BY ConsoleConstants DEF Nothing, Resync
<1>3. Msgs \subseteq Nat \ {0}
  BY ConsoleConstants DEF Msgs
<1>4. Len(store) \in Nat /\ DOMAIN store = 1..Len(store) /\ \A m \in DOMAIN store : store[m] \in 1..MaxVersion /\ store[m] \in Nat
  <2>1. store \in Seq(1..MaxVersion)
    BY DEF ConsoleTypeOK
  <2>2. \A v \in 1..MaxVersion : v \in Nat
    OBVIOUS
  <2> QED BY <2>1, <2>2, InSequence
<1>5. Len(store) <= MaxMsgs
  BY DEF ConsoleTypeOK
<1>6. \A m \in DOMAIN store : m \in Msgs
  BY <1>4, <1>5, ConsoleConstants DEF Msgs
<1>7. \A e \in Event \cup {Nothing, Resync} :
          /\ e.m \in Nat /\ e.v \in Nat
          /\ e.m > 0 => e \in Event /\ e.m \in Msgs /\ e.v \in 1..MaxVersion
          /\ e.m = 0 => e \in {Nothing, Resync} 
  <2>1. \A e \in Event : e.m \in Nat \ {0} /\ e.v \in Nat
    BY <1>1, <1>3
  <2> QED BY <1>1, <1>2, <2>1
<1>8. \A w \in Writers : pub[w] \in Event \cup {Nothing}
  BY DEF ConsoleTypeOK
<1>9. \A w \in Writers : /\ pub[w] = Nothing \/ pub[w] \in Event
                         /\ pub[w].m \in Nat /\ pub[w].v \in Nat
                         /\ pub[w].m > 0 => pub[w] \in Event /\ pub[w].m \in Msgs /\ pub[w].v \in 1..MaxVersion
                         /\ pub[w].m = 0 => pub[w] = Nothing
  <2>1. \A e \in Event \cup {Nothing} :
            /\ e = Nothing \/ e \in Event
            /\ e.m \in Nat /\ e.v \in Nat
            /\ e.m > 0 => e \in Event /\ e.m \in Msgs /\ e.v \in 1..MaxVersion
            /\ e.m = 0 => e = Nothing
    BY <1>1, <1>2, <1>3, <1>7
  <2> QED BY <1>8, <2>1
<1>10. Len(wire) \in Nat /\ DOMAIN wire = 1..Len(wire) /\ \A i \in DOMAIN wire : wire[i] \in Event
  BY InSequence DEF ConsoleTypeOK
<1>11. Len(queue) \in Nat /\ DOMAIN queue = 1..Len(queue) /\ \A i \in DOMAIN queue : queue[i] \in Event \cup {Resync}
  BY InSequence DEF ConsoleTypeOK
<1>12. \A i \in DOMAIN queue : /\ queue[i].m \in Nat /\ queue[i].v \in 1..MaxVersion
                               /\ queue[i].m > 0 => queue[i].m \in Msgs /\ queue[i] \in Event
                               /\ queue[i].m = 0 => queue[i] = Resync
  <2>1. \A e \in Event \cup {Resync} :
            /\ e.m \in Nat /\ e.v \in 1..MaxVersion
            /\ e.m > 0 => e.m \in Msgs /\ e \in Event
            /\ e.m = 0 => e = Resync
    BY <1>1, <1>2, <1>3, <1>7
  <2> QED BY <1>11, <2>1
<1>13. \A m \in Msgs : /\ shown[m] \in 0..MaxVersion /\ sent[m] \in 0..MaxVersion
                      /\ shown[m] \in Nat /\ sent[m] \in Nat
  BY DEF ConsoleTypeOK
<1>14. cursor \in Nat /\ since \in Nat /\ since <= cursor /\ cursor <= Len(store)
  BY <1>4 DEF ConsoleTypeOK
<1> QED BY <1>1, <1>3, <1>4, <1>5, <1>6, <1>9, <1>10, <1>12, <1>11, <1>13, <1>14

\* What was answered to the history request.
LEMMA HistoryParts ==
    ASSUME ConsoleTypeOK, OnTheWay
    PROVE  /\ Len(history.msgs) \in Nat /\ DOMAIN history.msgs = 1..Len(history.msgs)
           /\ Len(history.msgs) <= Len(store) /\ DOMAIN history.msgs \subseteq DOMAIN store
           /\ \A m \in DOMAIN history.msgs :
                  /\ m \in Msgs /\ history.msgs[m] \in 1..MaxVersion
                  /\ history.msgs[m] \in Nat \ {0} /\ history.msgs[m] <= store[m]
<1>1. /\ Len(history.msgs) \in Nat /\ DOMAIN history.msgs = 1..Len(history.msgs)
      /\ \A m \in DOMAIN history.msgs : history.msgs[m] \in 1..MaxVersion
  <2>1. history.msgs \in Seq(1..MaxVersion)
    BY DEF OnTheWay
  <2> QED BY <2>1, InSequence
<1>2. \A m \in DOMAIN history.msgs : m \in DOMAIN store /\ history.msgs[m] <= store[m]
  BY DEF OnTheWay
<1>3. Len(history.msgs) <= Len(store)
  <2>1. CASE Len(history.msgs) = 0
    BY <2>1, ConsoleParts
  <2>2. CASE Len(history.msgs) > 0
    <3>1. Len(history.msgs) \in DOMAIN history.msgs
      BY <1>1, <2>2
    <3> QED BY <1>2, <3>1, ConsoleParts
  <2> QED BY <1>1, <2>1, <2>2
<1> QED BY <1>1, <1>2, <1>3, ConsoleParts

-----------------------------------------------------------------------------
(* The Console: every step keeps the invariant.                             *)

\* A thread's first messages are stored and sent, and the Console shows nothing yet.
LEMMA ConsoleStarts == ConsoleInit => ConsoleInv
<1> SUFFICES ASSUME ConsoleInit PROVE ConsoleInv
  OBVIOUS
<1>1. PICK n \in 0..MaxMsgs : store \in [1..n -> {1}]
  BY DEF ConsoleInit
<1>2. /\ n \in Nat /\ n <= MaxMsgs /\ DOMAIN store = 1..n /\ Len(store) = n
      /\ store \in Seq(1..MaxVersion) /\ \A m \in DOMAIN store : store[m] = 1 /\ m \in Msgs
  BY <1>1, ConsoleConstants DEF Msgs
<1>3. /\ pub = [w \in Writers |-> Nothing] /\ \A w \in Writers : pub[w].m = 0
      /\ link = "down" /\ since = 0 /\ wire = << >> /\ queue = << >>
      /\ history = [at |-> "asked", msgs |-> << >>] /\ history.msgs = << >> /\ history.at = "asked"
      /\ shown = [m \in Msgs |-> 0] /\ cursor = 0 /\ breaks = 0
      /\ \A m \in Msgs : shown[m] = 0 /\ sent[m] = IF m \in DOMAIN store THEN 1 ELSE 0
      /\ missed = {} /\ dropped = {} /\ late = {} /\ skipped = {}
  BY DEF ConsoleInit, Nothing
<1>4. DOMAIN wire = {} /\ DOMAIN queue = {} /\ DOMAIN history.msgs = {} /\ Len(<< >>) = 0
  BY <1>3
<1>5. ConsoleTypeOK
  <2>1. sent \in [Msgs -> 0..MaxVersion] /\ shown \in [Msgs -> 0..MaxVersion]
    BY ConsoleConstants DEF ConsoleInit
  <2>2. pub \in [Writers -> Event \cup {Nothing}]
    BY <1>3
  <2>3. Len(wire) <= ReplayPage /\ Len(queue) <= QueueSize /\ Len(history.msgs) <= HistoryPage
    BY <1>3, <1>4, ConsoleConstants
  <2> QED BY <1>2, <1>3, <2>1, <2>2, <2>3, ConsoleConstants DEF ConsoleTypeOK
<1>6. OnTheWay
  <2>1. history.msgs \in Seq(1..MaxVersion)
    BY <1>3, EmptySequence
  <2> QED BY <1>2, <1>3, <1>4, <2>1 DEF OnTheWay
<1>7. ReplayInOrder
  BY <1>3, <1>4 DEF ReplayInOrder
<1>8. NewestComesLast /\ QueueInOrder /\ ReplayCurrent
  BY <1>2, <1>3, <1>4 DEF NewestComesLast, QueueInOrder, ReplayCurrent
<1>9. ShownCurrent /\ HistoryCurrent
  BY <1>2, <1>3, <1>4 DEF ShownCurrent, HistoryCurrent
<1>10. PassedUnsent /\ ArrivesInOrder
  BY <1>2, <1>3 DEF PassedUnsent, ArrivesInOrder, Msgs
<1> QED BY <1>5, <1>6, <1>7, <1>8, <1>9, <1>10 DEF ConsoleInv

\* A writer that stores a message, new or rewritten, has its newest content to publish.
LEMMA WritesKeep ==
    ASSUME ConsoleInv, NEW w \in Writers, NEW m \in Msgs,
           (Add(w) /\ m = Len(store) + 1) \/ Rewrite(w, m)
    PROVE  ConsoleInv'
<1>0. /\ ConsoleTypeOK /\ OnTheWay /\ ReplayInOrder /\ NewestComesLast /\ QueueInOrder
      /\ ReplayCurrent /\ ShownCurrent /\ HistoryCurrent /\ PassedUnsent /\ ArrivesInOrder
  BY DEF ConsoleInv
<1>1. /\ pub[w] = Nothing /\ pub' = [pub EXCEPT ![w] = [m |-> m, v |-> store'[m]]]
      /\ UNCHANGED <<link, since, wire, queue, history, shown, cursor, breaks, sent, missed, dropped, late, skipped>>
  <2>1. CASE Add(w) /\ m = Len(store) + 1
    <3>1. store' = Append(store, 1) /\ Len(store') = Len(store) + 1 /\ store'[Len(store) + 1] = 1
      BY <1>0, <2>1, ConsoleConstants, Appended DEF Add, ConsoleTypeOK
    <3> QED BY <2>1, <3>1 DEF Add, stream, client, causes
  <2>2. CASE Rewrite(w, m)
    BY <2>2 DEF Rewrite, stream, client, causes
  <2> QED BY <2>1, <2>2
<1>2. /\ store' \in Seq(1..MaxVersion) /\ Len(store') <= MaxMsgs
      /\ Len(store) <= Len(store') /\ Len(store') \in Nat /\ DOMAIN store' = 1..Len(store')
      /\ \A k \in DOMAIN store : k \in DOMAIN store' /\ store[k] <= store'[k] /\ (k # m => store'[k] = store[k])
      /\ \A k \in DOMAIN store' : k \in DOMAIN store \/ k = m
      /\ m \in DOMAIN store' /\ (m \notin DOMAIN store => m > cursor) /\ store'[m] \in 1..MaxVersion
  <2>1. CASE Add(w) /\ m = Len(store) + 1
    <3>1. 1 \in 1..MaxVersion /\ store \in Seq(1..MaxVersion) /\ store' = Append(store, 1) /\ Len(store) < MaxMsgs
      BY <1>0, <2>1, ConsoleConstants DEF Add, ConsoleTypeOK
    <3>2. /\ store' \in Seq(1..MaxVersion) /\ Len(store) \in Nat /\ Len(store') = Len(store) + 1
          /\ DOMAIN store = 1..Len(store) /\ DOMAIN store' = 1..(Len(store) + 1)
          /\ \A k \in 1..Len(store) : store'[k] = store[k]
          /\ store'[Len(store) + 1] = 1
      BY <3>1, Appended
    <3> QED BY <2>1, <3>1, <3>2, <1>0, ConsoleParts, ConsoleConstants
  <2>2. CASE Rewrite(w, m)
    <3>1. m \in DOMAIN store /\ store[m] < MaxVersion /\ store' = [store EXCEPT ![m] = store[m] + 1]
      BY <2>2 DEF Rewrite
    <3>2. store \in Seq(1..MaxVersion)
      BY <1>0 DEF ConsoleTypeOK
    <3>5. store[m] + 1 \in 1..MaxVersion /\ Len(store) <= MaxMsgs
      BY <1>0, <3>1, ConsoleParts, ConsoleConstants
    <3>3. store' \in Seq(1..MaxVersion) /\ Len(store') = Len(store) /\ DOMAIN store' = DOMAIN store
      BY <3>1, <3>2, <3>5
    <3>4. store'[m] = store[m] + 1 /\ \A k \in DOMAIN store : k # m => store'[k] = store[k]
      BY <3>1
    <3> QED BY <3>1, <3>3, <3>4, <3>5, <1>0, ConsoleParts
  <2> QED BY <2>1, <2>2
<1>3. /\ pub'[w].m = m /\ pub'[w].v = store'[m] /\ pub[w].m = 0 /\ m # 0
      /\ \A x \in Writers : x # w => pub'[x] = pub[x]
      /\ pub' \in [Writers -> Event \cup {Nothing}]
  <2>1. [m |-> m, v |-> store'[m]] \in Event
    BY <1>2 DEF Event
  <2>2. pub \in [Writers -> Event \cup {Nothing}]
    BY <1>0 DEF ConsoleTypeOK
  <2> QED BY <1>0, <1>1, <2>1, <2>2, ConsoleParts DEF Nothing
<1>4. /\ Newest(m)' /\ Pending(m)'
      /\ \A k \in DOMAIN store : Pending(k) => Pending(k)'
      /\ \A k \in DOMAIN store : k # m => (Pending(k)' => Pending(k)) /\ (Newest(k)' <=> Newest(k))
  BY <1>0, <1>1, <1>2, <1>3, ConsoleParts DEF Newest, Pending
<1>5. \A k : (InQueue(k)' <=> InQueue(k)) /\ (InWire(k)' <=> InWire(k)) /\ (Carries(k)' <=> Carries(k))
  BY <1>1 DEF InQueue, InWire, Carries
<1>6. Lost' = Lost
  BY <1>1 DEF Lost
<1>7. ConsoleTypeOK'
  <2>1. cursor' \in 0..Len(store')
    BY <1>1, <1>2, <1>0, ConsoleParts
  <2> QED BY <1>0, <1>1, <1>2, <1>3, <2>1 DEF ConsoleTypeOK
<1>8. OnTheWay'
  <2>1. \A x \in Writers : pub'[x].m > 0 => pub'[x].m \in DOMAIN store' /\ pub'[x].v <= store'[pub'[x].m]
    <3> SUFFICES ASSUME NEW x \in Writers, pub'[x].m > 0
                 PROVE  pub'[x].m \in DOMAIN store' /\ pub'[x].v <= store'[pub'[x].m]
      OBVIOUS
    <3>1. CASE x = w
      BY <1>2, <1>3, <3>1
    <3>2. CASE x # w
      <4>1. /\ pub'[x] = pub[x] /\ pub[x].m \in DOMAIN store /\ pub[x].v <= store[pub[x].m]
            /\ pub[x].v \in Nat /\ store[pub[x].m] \in Nat
        BY <1>0, <1>3, <3>2, ConsoleParts DEF OnTheWay
      <4> QED BY <1>2, <4>1
    <3> QED BY <3>1, <3>2
  <2>2. \A k \in Msgs : sent'[k] > 0 => k \in DOMAIN store' /\ sent'[k] <= store'[k]
    BY <1>0, <1>1, <1>2, ConsoleParts DEF OnTheWay
  <2>3. \A k \in DOMAIN history'.msgs : k \in DOMAIN store' /\ history'.msgs[k] <= store'[k]
    <3>1. \A k \in DOMAIN history.msgs :
              k \in DOMAIN store /\ history.msgs[k] \in Nat /\ store[k] \in Nat /\ history.msgs[k] <= store[k]
      BY <1>0, HistoryParts, ConsoleParts
    <3> QED BY <1>1, <1>2, <3>1
  <2> QED BY <1>0, <1>1, <1>2, <2>1, <2>2, <2>3 DEF OnTheWay
<1>9. ReplayInOrder'
  BY <1>0, <1>1 DEF ReplayInOrder
<1>10. NewestComesLast'
  BY <1>0, <1>1, <1>2, <1>4, <1>5 DEF NewestComesLast
<1>11. QueueInOrder'
  BY <1>0, <1>1, <1>6 DEF QueueInOrder
<1>12. ReplayCurrent'
  BY <1>0, <1>1, <1>2, <1>4, <1>5, <1>6 DEF ReplayCurrent, OnTheWay
<1>13. ShownCurrent'
  BY <1>0, <1>1, <1>2, <1>4, <1>5, <1>6 DEF ShownCurrent
<1>14. HistoryCurrent'
  BY <1>0, <1>1, <1>2, <1>4, <1>5, <1>6 DEF HistoryCurrent, OnTheWay
<1>15. PassedUnsent'
  <2>1. \A k \in DOMAIN store' : k <= cursor' => k \in DOMAIN store
    BY <1>0, <1>1, <1>2, ConsoleParts
  <2> QED BY <1>0, <1>1, <1>4, <1>6, <2>1 DEF PassedUnsent
<1>16. ArrivesInOrder'
  <2>1. ASSUME m \notin DOMAIN store PROVE sent[m] = 0
    BY <1>0, <2>1, ConsoleParts DEF OnTheWay
  <2> QED BY <1>0, <1>1, <1>2, <1>4, <1>5, <1>6, <2>1 DEF ArrivesInOrder
<1> QED BY <1>7, <1>8, <1>9, <1>10, <1>11, <1>12, <1>13, <1>14, <1>15, <1>16 DEF ConsoleInv

\* The event of a writer is handed to the bus.
Publishes(w) == PublishToNobody(w) \/ Publish(w) \/ PublishSyncFull(w) \/ PublishFull(w)

\* What is sent, and late, and what is still pending.
LEMMA PublishedParts ==
    ASSUME ConsoleTypeOK, OnTheWay, NEW w \in Writers, NEW e, e = pub[w], Published(w)
    PROVE  /\ e \in Event /\ e.m \in Msgs /\ e.m \in DOMAIN store
           /\ e.v \in 1..MaxVersion /\ e.v <= store[e.m]
           /\ pub' \in [Writers -> Event \cup {Nothing}]
           /\ pub'[w].m = 0 /\ \A x \in Writers : x # w => pub'[x] = pub[x]
           /\ sent' \in [Msgs -> 0..MaxVersion] /\ \A k \in Msgs : k # e.m => sent'[k] = sent[k]
           /\ sent'[e.m] = IF sent[e.m] >= e.v THEN sent[e.m] ELSE e.v
           /\ sent'[e.m] > 0
           /\ late \subseteq late' /\ late' \subseteq late \cup {e.m} /\ late' \subseteq Msgs
           /\ Overtaken(w) => e.m \in late'
           /\ \A k \in Msgs : k # e.m => (Pending(k)' <=> Pending(k))
           /\ \A k \in DOMAIN store : k # e.m => (Newest(k)' <=> Newest(k))
           /\ Pending(e.m)
           /\ Newest(e.m) => Newest(e.m)' \/ e.v = store[e.m]
           /\ UNCHANGED <<store, link, since, wire, history, shown, cursor, breaks, skipped>>
<1>1. /\ pub[w] # Nothing /\ pub' = [pub EXCEPT ![w] = Nothing]
      /\ sent' = [sent EXCEPT ![pub[w].m] = Max({sent[pub[w].m], pub[w].v})]
      /\ late' = late \cup {pub[x].m : x \in {y \in {w} : Overtaken(y)}}
      /\ UNCHANGED <<store, link, since, wire, history, shown, cursor, breaks, skipped>>
  BY DEF Published, stream, client
<1>2. /\ pub[w] \in Event /\ pub[w].m \in Msgs /\ pub[w].m \in DOMAIN store /\ pub[w].m # 0
      /\ pub[w].v \in 1..MaxVersion /\ pub[w].v \in Nat /\ pub[w].v <= store[pub[w].m]
  <2>1. pub[w].m > 0
    BY <1>1, ConsoleParts
  <2> QED BY <1>1, <2>1, ConsoleParts DEF OnTheWay
<1>3. /\ pub' \in [Writers -> Event \cup {Nothing}]
      /\ pub'[w].m = 0 /\ \A x \in Writers : x # w => pub'[x] = pub[x]
  <2>1. pub \in [Writers -> Event \cup {Nothing}]
    BY DEF ConsoleTypeOK
  <2>2. Nothing.m = 0
    BY DEF Nothing
  <2> QED BY <1>1, <2>1, <2>2
<1>4. /\ sent' \in [Msgs -> 0..MaxVersion] /\ \A k \in Msgs : k # pub[w].m => sent'[k] = sent[k]
      /\ sent'[pub[w].m] = IF sent[pub[w].m] >= pub[w].v THEN sent[pub[w].m] ELSE pub[w].v
      /\ sent'[pub[w].m] > 0
  <2>1. sent \in [Msgs -> 0..MaxVersion]
    BY DEF ConsoleTypeOK
  <2>2. sent[pub[w].m] \in 0..MaxVersion /\ sent[pub[w].m] \in Nat
    BY <1>2, ConsoleParts
  <2>3. Max({sent[pub[w].m], pub[w].v}) = IF sent[pub[w].m] >= pub[w].v THEN sent[pub[w].m] ELSE pub[w].v
    BY <1>2, <2>2, MaxOfTwo
  <2>4. Max({sent[pub[w].m], pub[w].v}) \in 0..MaxVersion /\ Max({sent[pub[w].m], pub[w].v}) > 0
    BY <1>2, <2>2, <2>3, ConsoleConstants
  <2> QED BY <1>1, <1>2, <2>1, <2>3, <2>4
<1>5. /\ late \subseteq late' /\ late' \subseteq late \cup {pub[w].m} /\ late' \subseteq Msgs
      /\ Overtaken(w) => pub[w].m \in late'
  <2>1. late \subseteq Msgs
    BY DEF ConsoleTypeOK
  <2>2. late' = IF Overtaken(w) THEN late \cup {pub[w].m} ELSE late
    BY <1>1
  <2> QED BY <1>2, <2>1, <2>2
<1>6. \A k \in Msgs : k # 0
  BY ConsoleParts
<1>7. \A k \in Msgs : k # pub[w].m => (Pending(k)' <=> Pending(k))
  BY <1>3, <1>6 DEF Pending
<1>8. \A k \in DOMAIN store : k # pub[w].m => (Newest(k)' <=> Newest(k))
  BY <1>1, <1>3, <1>6, ConsoleParts DEF Newest
<1>9. Pending(e.m) /\ (Newest(e.m) => Newest(e.m)' \/ e.v = store[e.m])
  <2>1. Pending(e.m)
    BY DEF Pending
  <2>2. ASSUME NEW x \in Writers, pub[x].m = e.m, pub[x].v = store[e.m], x # w
        PROVE  \E y \in Writers : pub'[y].m = e.m /\ pub'[y].v = store'[e.m]
    BY <1>1, <1>3, <2>2
  <2> QED BY <2>1, <2>2 DEF Newest
<1> QED BY <1>1, <1>2, <1>3, <1>4, <1>5, <1>7, <1>8, <1>9

\* Where the event goes: to the end of the queue, unless it is dropped, perhaps with
\* the oldest one, or no stream is open.
LEMMA PublishedQueue ==
    ASSUME ConsoleTypeOK, OnTheWay, NEW w \in Writers, NEW e, e = pub[w], e \in Event, e.m \in Msgs, Publishes(w)
    PROVE  /\ queue' \in Seq(Event \cup {Resync}) /\ Len(queue') <= QueueSize
           /\ dropped \subseteq dropped' /\ dropped' \subseteq Msgs
           /\ missed \subseteq missed' /\ missed' \subseteq Msgs
           /\ \/ /\ queue' = Append(queue, e)
                 /\ link # "down"
              \/ /\ queue' = queue
                 /\ e.m \in dropped'
              \/ /\ queue # << >> /\ queue' = Append(Tail(queue), Resync)
                 /\ e.m \in dropped' /\ Head(queue).m \in dropped' \cup {0}
              \/ /\ link = "down" /\ queue = << >> /\ queue' = << >>
                 /\ Passed(e.m) => e.m \in missed'
<1>1. queue \in Seq(Event \cup {Resync}) /\ Len(queue) <= QueueSize /\ missed \subseteq Msgs /\ dropped \subseteq Msgs
  BY DEF ConsoleTypeOK
<1>2. CASE PublishToNobody(w)
  <2>1. link = "down" /\ queue = << >> /\ queue' = queue /\ dropped' = dropped
    BY <1>2 DEF PublishToNobody, OnTheWay
  <2>2. missed' = IF Passed(e.m) THEN missed \cup {e.m} ELSE missed
    BY <1>2 DEF PublishToNobody
  <2> QED BY <1>1, <2>1, <2>2
<1>3. CASE Publish(w)
  <2>1. link # "down" /\ Len(queue) # QueueSize /\ queue' = Append(queue, e) /\ missed' = missed /\ dropped' = dropped
    BY <1>3 DEF Publish, Full
  <2>2. queue' \in Seq(Event \cup {Resync}) /\ Len(queue') = Len(queue) + 1 /\ Len(queue) \in Nat
    BY <1>1, <2>1, Appended
  <2> QED BY <1>1, <2>1, <2>2, ConsoleConstants
<1>4. CASE PublishSyncFull(w)
  <2>1. queue' = queue /\ missed' = missed /\ dropped' = dropped \cup {e.m}
    BY <1>4 DEF PublishSyncFull
  <2> QED BY <1>1, <2>1
<1>5. CASE PublishFull(w)
  <2>1. Len(queue) = QueueSize /\ queue' = Append(Tail(queue), Resync) /\ missed' = missed
    BY <1>5 DEF PublishFull, Full
  <2>2. dropped' = dropped \cup ({e.m, Head(queue).m} \ {0})
    BY <1>5 DEF PublishFull
  <2>3. queue # << >>
    BY <2>1, ConsoleConstants, EmptySequence
  <2>4. /\ Tail(queue) \in Seq(Event \cup {Resync}) /\ Len(Tail(queue)) = Len(queue) - 1 /\ Len(queue) \in Nat \ {0}
        /\ Head(queue) = queue[1] /\ DOMAIN queue = 1..Len(queue)
    BY <1>1, <2>3, Beheaded
  <2>5. Resync \in Event \cup {Resync}
    OBVIOUS
  <2>6. queue' \in Seq(Event \cup {Resync}) /\ Len(queue') = Len(queue)
    BY <2>1, <2>4, <2>5, Appended
  <2>7. Head(queue).m \in Msgs \cup {0} /\ e.m # 0
    <3>1. queue[1].m \in Nat /\ (queue[1].m > 0 => queue[1].m \in Msgs)
      BY <2>4, ConsoleParts
    <3>2. 0 \notin Msgs
      BY ConsoleParts
    <3> QED BY <2>4, <3>1, <3>2
  <2> QED BY <1>1, <2>1, <2>2, <2>3, <2>6, <2>7
<1> QED BY <1>2, <1>3, <1>4, <1>5 DEF Publishes

\* The queue's messages stay, but for those that are dropped; the event's is added.
LEMMA PublishedInQueue ==
    ASSUME ConsoleTypeOK, OnTheWay, NEW w \in Writers, NEW e, e = pub[w], e \in Event, e.m \in Msgs, Publishes(w)
    PROVE  /\ \A k \in Msgs : k # e.m /\ InQueue(k)' => InQueue(k)
           /\ \A k \in Msgs : k \notin dropped' /\ InQueue(k) => InQueue(k)'
           /\ \/ InQueue(e.m)' \/ e.m \in dropped'
              \/ link = "down" /\ (Passed(e.m) => e.m \in missed')
<1>1. queue \in Seq(Event \cup {Resync}) /\ e \in Event \cup {Resync} /\ Resync \in Event \cup {Resync} /\ Resync.m = 0
  BY DEF ConsoleTypeOK, Resync
<1>2. CASE queue' = Append(queue, e)
  <2>1. /\ Len(queue) \in Nat /\ DOMAIN queue = 1..Len(queue) /\ DOMAIN queue' = 1..(Len(queue) + 1)
        /\ \A i \in 1..Len(queue) : queue'[i] = queue[i]
        /\ queue'[Len(queue) + 1] = e
    BY <1>1, <1>2, Appended
  <2>2. \A k : InQueue(k)' <=> InQueue(k) \/ k = e.m
    BY <2>1 DEF InQueue
  <2> QED BY <2>2
<1>3. CASE queue' = queue /\ e.m \in dropped'
  BY <1>3 DEF InQueue
<1>4. CASE queue # << >> /\ queue' = Append(Tail(queue), Resync) /\ e.m \in dropped' /\ Head(queue).m \in dropped' \cup {0}
  <2>1. /\ Len(queue) \in Nat \ {0} /\ DOMAIN queue = 1..Len(queue) /\ Head(queue) = queue[1]
        /\ Tail(queue) \in Seq(Event \cup {Resync}) /\ Len(Tail(queue)) = Len(queue) - 1
        /\ \A i \in 1..(Len(queue) - 1) : Tail(queue)[i] = queue[i + 1]
    BY <1>1, <1>4, Beheaded
  <2>2. /\ DOMAIN queue' = 1..Len(queue) /\ queue'[Len(queue)] = Resync
        /\ \A i \in 1..(Len(queue) - 1) : queue'[i] = Tail(queue)[i]
    BY <1>1, <1>4, <2>1, Appended
  <2>3. \A i \in 1..(Len(queue) - 1) : queue'[i] = queue[i + 1]
    BY <2>1, <2>2
  <2>4. 0 \notin Msgs
    BY ConsoleParts
  <2>5. \A k \in Msgs : InQueue(k)' => InQueue(k)
    <3> SUFFICES ASSUME NEW k \in Msgs, NEW i \in DOMAIN queue', queue'[i].m = k
                 PROVE  \E j \in DOMAIN queue : queue[j].m = k
      BY DEF InQueue
    <3>1. i \in 1..(Len(queue) - 1)
      BY <1>1, <2>1, <2>2, <2>4
    <3>2. i + 1 \in DOMAIN queue /\ queue[i + 1].m = k
      BY <2>1, <2>3, <3>1
    <3> QED BY <3>2
  <2>6. \A k \in Msgs : k \notin dropped' /\ InQueue(k) => InQueue(k)'
    <3> SUFFICES ASSUME NEW k \in Msgs, k \notin dropped', NEW i \in DOMAIN queue, queue[i].m = k
                 PROVE  \E j \in DOMAIN queue' : queue'[j].m = k
      BY DEF InQueue
    <3>1. i # 1
      BY <1>4, <2>1, <2>4
    <3>2. i - 1 \in 1..(Len(queue) - 1) /\ queue'[i - 1] = queue[i - 1 + 1] /\ i - 1 + 1 = i
      BY <2>1, <2>3, <3>1
    <3> QED BY <2>1, <2>2, <3>2
  <2> QED BY <1>4, <2>5, <2>6
<1>5. CASE link = "down" /\ queue = << >> /\ queue' = << >> /\ (Passed(e.m) => e.m \in missed')
  BY <1>5 DEF InQueue
<1> QED BY <1>2, <1>3, <1>4, <1>5, PublishedQueue

\* An event that is sent, dropped or lost leaves every message accounted for.
LEMMA PublishesKeep ==
    ASSUME ConsoleInv, NEW w \in Writers, Publishes(w)
    PROVE  ConsoleInv'
<1>0. /\ ConsoleTypeOK /\ OnTheWay /\ ReplayInOrder /\ NewestComesLast /\ QueueInOrder
      /\ ReplayCurrent /\ ShownCurrent /\ HistoryCurrent /\ PassedUnsent /\ ArrivesInOrder
  BY DEF ConsoleInv
<1>1. Published(w)
  BY DEF Publishes, PublishToNobody, Publish, PublishSyncFull, PublishFull
<1>2. PICK e : e = pub[w]
  OBVIOUS
<1>3. /\ e \in Event /\ e.m \in Msgs /\ e.m \in DOMAIN store /\ e.m # 0
      /\ e.v \in Nat /\ e.v <= store[e.m]
      /\ pub' \in [Writers -> Event \cup {Nothing}]
      /\ pub'[w].m = 0 /\ \A x \in Writers : x # w => pub'[x] = pub[x]
  BY <1>0, <1>1, <1>2, PublishedParts, ConsoleParts
<1>4. /\ sent' \in [Msgs -> 0..MaxVersion] /\ \A k \in Msgs : k # e.m => sent'[k] = sent[k]
      /\ sent'[e.m] = IF sent[e.m] >= e.v THEN sent[e.m] ELSE e.v
      /\ sent'[e.m] > 0
  BY <1>0, <1>1, <1>2, PublishedParts
<1>5. /\ late \subseteq late' /\ late' \subseteq Msgs /\ (Overtaken(w) => e.m \in late')
      /\ dropped \subseteq dropped' /\ dropped' \subseteq Msgs
      /\ missed \subseteq missed' /\ missed' \subseteq Msgs
      /\ Lost \subseteq Lost' /\ late' \subseteq Lost' /\ dropped' \subseteq Lost'
  <2>1. late \subseteq late' /\ late' \subseteq Msgs /\ (Overtaken(w) => e.m \in late')
    BY <1>0, <1>1, <1>2, PublishedParts
  <2>2. dropped \subseteq dropped' /\ dropped' \subseteq Msgs /\ missed \subseteq missed' /\ missed' \subseteq Msgs
    BY <1>0, <1>2, <1>3, PublishedQueue
  <2> QED BY <2>1, <2>2 DEF Lost
<1>6. /\ \A k \in Msgs : k # e.m => (Pending(k)' <=> Pending(k))
      /\ \A k \in DOMAIN store : k # e.m => (Newest(k)' <=> Newest(k))
      /\ Pending(e.m)
      /\ Newest(e.m) => Newest(e.m)' \/ e.v = store[e.m]
  BY <1>0, <1>1, <1>2, PublishedParts
<1>7. UNCHANGED <<store, link, since, wire, history, shown, cursor, breaks, skipped>>
  BY <1>0, <1>1, <1>2, PublishedParts
<1>8. /\ \A k \in Msgs : k # e.m /\ InQueue(k)' => InQueue(k)
      /\ \A k \in Msgs : k \notin dropped' /\ InQueue(k) => InQueue(k)'
      /\ \/ InQueue(e.m)' \/ e.m \in dropped'
         \/ link = "down" /\ (Passed(e.m) => e.m \in missed')
  BY <1>0, <1>2, <1>3, PublishedInQueue
<1>9. \A k : InWire(k)' <=> InWire(k)
  BY <1>7 DEF InWire
<1>10. /\ queue' \in Seq(Event \cup {Resync}) /\ Len(queue') <= QueueSize
       /\ \/ queue' = Append(queue, e) /\ link # "down"
          \/ queue' = queue /\ e.m \in dropped'
          \/ /\ queue # << >> /\ queue' = Append(Tail(queue), Resync)
             /\ e.m \in dropped' /\ Head(queue).m \in dropped' \cup {0}
          \/ link = "down" /\ queue = << >> /\ queue' = << >>
  BY <1>0, <1>2, <1>3, PublishedQueue
<1>11. ConsoleTypeOK'
  <2>1. skipped' \subseteq Msgs /\ late' \subseteq Msgs /\ dropped' \subseteq Msgs /\ missed' \subseteq Msgs
    BY <1>0, <1>5, <1>7 DEF ConsoleTypeOK
  <2> QED BY <1>0, <1>3, <1>4, <1>7, <1>10, <2>1 DEF ConsoleTypeOK
<1>12. \A i \in DOMAIN queue' :
           queue'[i].m = 0 \/ queue'[i] = e \/ \E j \in DOMAIN queue : queue'[i] = queue[j]
  <2>1. queue \in Seq(Event \cup {Resync}) /\ e \in Event \cup {Resync} /\ Resync \in Event \cup {Resync} /\ Resync.m = 0
    BY <1>0, <1>3 DEF ConsoleTypeOK, Resync
  <2>2. CASE queue' = Append(queue, e)
    BY <2>1, <2>2, Appended
  <2>3. CASE queue' = queue
    BY <2>3
  <2>4. CASE queue # << >> /\ queue' = Append(Tail(queue), Resync)
    <3>1. /\ DOMAIN queue = 1..Len(queue) /\ Len(queue) \in Nat \ {0}
          /\ Tail(queue) \in Seq(Event \cup {Resync}) /\ Len(Tail(queue)) = Len(queue) - 1
          /\ \A i \in 1..(Len(queue) - 1) : Tail(queue)[i] = queue[i + 1]
      BY <2>1, <2>4, Beheaded
    <3>2. /\ DOMAIN queue' = 1..Len(queue) /\ queue'[Len(queue)] = Resync
          /\ \A i \in 1..(Len(queue) - 1) : queue'[i] = queue[i + 1]
      BY <2>1, <2>4, <3>1, Appended
    <3> SUFFICES ASSUME NEW i \in DOMAIN queue', i # Len(queue)
                 PROVE  \E j \in DOMAIN queue : queue'[i] = queue[j]
      BY <2>1, <3>2
    <3>3. i + 1 \in DOMAIN queue /\ queue'[i] = queue[i + 1]
      BY <3>1, <3>2
    <3> QED BY <3>3
  <2>5. CASE queue = << >> /\ queue' = << >>
    BY <2>5
  <2> QED BY <1>10, <2>2, <2>3, <2>4, <2>5
<1>13. OnTheWay'
  <2>1. \A x \in Writers : pub'[x].m > 0 => pub'[x].m \in DOMAIN store' /\ pub'[x].v <= store'[pub'[x].m]
    BY <1>0, <1>3, <1>7 DEF OnTheWay
  <2>2. \A k \in Msgs : sent'[k] > 0 => k \in DOMAIN store' /\ sent'[k] <= store'[k]
    BY <1>0, <1>3, <1>4, <1>7 DEF OnTheWay
  <2>3. \A i \in DOMAIN queue' : queue'[i].m > 0 => sent'[queue'[i].m] > 0
    <3>1. \A j \in DOMAIN queue : queue[j].m > 0 => queue[j].m \in Msgs /\ sent[queue[j].m] > 0
      BY <1>0, ConsoleParts DEF OnTheWay
    <3> QED BY <1>4, <1>12, <3>1
  <2>4. link' = "down" => queue' = << >>
    <3>1. link = "down" => queue = << >> /\ queue' # Append(queue, e)
      BY <1>0, <1>2, <1>3, PublishedQueue DEF OnTheWay
    <3> QED BY <1>7, <1>10, <3>1
  <2> QED BY <1>0, <1>7, <2>1, <2>2, <2>3, <2>4 DEF OnTheWay
<1>14. ReplayInOrder'
  BY <1>0, <1>7 DEF ReplayInOrder
<1>15. NewestComesLast'
  <2> SUFFICES ASSUME NEW k \in DOMAIN store
               PROVE  Newest(k)' \/ sent'[k] = store[k] \/ (~Pending(k)' /\ ~InQueue(k)')
    BY <1>7 DEF NewestComesLast
  <2>1. Newest(k) \/ sent[k] = store[k] \/ (~Pending(k) /\ ~InQueue(k))
    BY <1>0 DEF NewestComesLast
  <2>2. k \in Msgs /\ store[k] \in Nat /\ sent[k] \in Nat
    BY <1>0, ConsoleParts
  <2>3. CASE k = e.m
    <3>1. sent[k] = store[k] => sent'[k] = store[k]
      BY <1>3, <1>4, <2>2, <2>3
    <3>2. e.v = store[k] => sent'[k] = store[k]
      <4>1. sent[k] > 0 => sent[k] <= store[k]
        BY <1>0, <2>2 DEF OnTheWay
      <4> QED BY <1>3, <1>4, <2>2, <2>3, <4>1
    <3> QED BY <1>6, <2>1, <2>3, <3>1, <3>2
  <2>4. CASE k # e.m
    BY <1>4, <1>6, <1>8, <2>1, <2>2, <2>4
  <2> QED BY <2>3, <2>4
<1>16. ReplayCurrent'
  <2> SUFFICES ASSUME NEW i \in DOMAIN wire, NEW k, k = wire[i].m, k \notin Lost', ~InQueue(k)'
               PROVE  Newest(k)' \/ wire[i].v = store[k]
    BY <1>7 DEF ReplayCurrent
  <2>1. k \in Msgs /\ k \in DOMAIN store /\ wire # << >> /\ link # "down" /\ k \notin dropped'
    BY <1>0, <1>5, ConsoleParts DEF OnTheWay
  <2>2. k # e.m /\ ~InQueue(k)
    BY <1>8, <2>1
  <2>3. Newest(k) \/ wire[i].v = store[k]
    BY <1>0, <1>5, <2>2 DEF ReplayCurrent
  <2> QED BY <1>6, <2>1, <2>2, <2>3
<1>17. ShownCurrent'
  <2> SUFFICES ASSUME NEW k \in DOMAIN store, k \notin Lost' \cup missed', ~Carries(k)', shown[k] > 0
               PROVE  Newest(k)' \/ shown[k] = store[k]
    BY <1>7 DEF ShownCurrent
  <2>1. k \in Msgs /\ ~InQueue(k)' /\ ~InWire(k)' /\ k \notin dropped'
    BY <1>0, <1>5, ConsoleParts DEF Carries
  <2>2. Passed(k)
    BY <1>0, <2>1 DEF OnTheWay, Passed
  <2>3. k # e.m /\ ~Carries(k)
    BY <1>8, <1>9, <2>1, <2>2 DEF Carries
  <2>4. Newest(k) \/ shown[k] = store[k]
    BY <1>0, <1>5, <2>3 DEF ShownCurrent
  <2> QED BY <1>6, <2>3, <2>4
<1>18. HistoryCurrent'
  <2> SUFFICES ASSUME NEW k \in DOMAIN history.msgs, k \notin Lost' \cup missed', ~Carries(k)', shown[k] = 0
               PROVE  Newest(k)' \/ history.msgs[k] = store[k]
    BY <1>7 DEF HistoryCurrent
  <2>1. k \in Msgs /\ k \in DOMAIN store /\ ~InQueue(k)' /\ ~InWire(k)' /\ k \notin dropped'
    BY <1>0, <1>5, HistoryParts DEF Carries
  <2>2. k # e.m /\ ~Carries(k)
    BY <1>8, <1>9, <2>1 DEF Carries, Passed
  <2>3. Newest(k) \/ history.msgs[k] = store[k]
    BY <1>0, <1>5, <2>2 DEF HistoryCurrent
  <2> QED BY <1>6, <2>1, <2>2, <2>3
<1>19. \A k \in Msgs : sent[k] > 0 => sent'[k] > 0
  BY <1>3, <1>4
<1>20. PassedUnsent'
  <2> SUFFICES ASSUME NEW k \in DOMAIN store, k <= cursor, shown[k] = 0, k \notin Lost' \cup skipped
               PROVE  sent'[k] = 0 /\ Pending(k)' /\ \E j \in Msgs : j > k /\ sent'[j] > 0
    BY <1>7 DEF PassedUnsent
  <2>1. k \in Msgs
    BY <1>0, ConsoleParts
  <2>2. sent[k] = 0 /\ Pending(k) /\ \E j \in Msgs : j > k /\ sent[j] > 0
    BY <1>0, <1>5 DEF PassedUnsent
  <2>3. k # e.m
    <3>1. CASE k = e.m
      <4>1. pub[w] # Nothing /\ pub[w].m = k
        BY <1>1, <1>2, <3>1 DEF Published
      <4>2. Overtaken(w)
        BY <2>2, <4>1 DEF Overtaken
      <4> QED BY <1>5, <3>1, <4>2
    <3> QED BY <3>1
  <2> QED BY <1>4, <1>6, <1>19, <2>1, <2>2, <2>3
<1>21. QueueInOrder'
  <2> SUFFICES ASSUME NEW i \in DOMAIN queue', NEW k, k = queue'[i].m, k \notin Lost' \cup {0},
                      \A j \in DOMAIN queue' : j > i => queue'[j].m # k
               PROVE  queue'[i].v = sent'[k]
    BY DEF QueueInOrder
  <2>1. queue \in Seq(Event \cup {Resync}) /\ e \in Event \cup {Resync} /\ Resync \in Event \cup {Resync} /\ Resync.m = 0
    BY <1>0, <1>3 DEF ConsoleTypeOK, Resync
  <2>2. \A j \in DOMAIN queue : queue[j].m > 0 => queue[j].m \in Msgs
    BY <1>0, ConsoleParts
  <2>3. \A j \in DOMAIN queue : queue[j].m \in Nat
    BY <1>0, ConsoleParts
  <2>4. CASE queue' = Append(queue, e)
    <3>1. /\ Len(queue) \in Nat /\ DOMAIN queue = 1..Len(queue) /\ DOMAIN queue' = 1..(Len(queue) + 1)
          /\ \A j \in 1..Len(queue) : queue'[j] = queue[j]
          /\ queue'[Len(queue) + 1] = e
      BY <2>1, <2>4, Appended
    <3>2. CASE i = Len(queue) + 1
      <4>1. ~Overtaken(w) /\ pub[w] # Nothing /\ k = e.m /\ queue'[i].v = e.v
        BY <1>1, <1>5, <3>1, <3>2 DEF Published
      <4>2. ~(sent[e.m] > e.v)
        BY <1>2, <4>1 DEF Overtaken
      <4>3. sent[e.m] \in Nat
        BY <1>0, <1>3, ConsoleParts
      <4> QED BY <1>3, <1>4, <4>1, <4>2, <4>3
    <3>3. CASE i # Len(queue) + 1
      <4>1. i \in DOMAIN queue /\ queue'[i] = queue[i] /\ k # e.m
        BY <3>1, <3>3
      <4>2. \A j \in DOMAIN queue : j > i => queue[j].m # k
        BY <3>1
      <4>3. queue[i].v = sent[k]
        BY <1>0, <1>5, <4>1, <4>2 DEF QueueInOrder
      <4> QED BY <1>4, <2>2, <2>3, <4>1, <4>3
    <3> QED BY <3>2, <3>3
  <2>5. CASE queue' = queue /\ e.m \in dropped'
    <3>1. queue[i].v = sent[k] /\ k # e.m
      BY <1>0, <1>5, <2>5 DEF QueueInOrder
    <3> QED BY <1>4, <2>2, <2>3, <2>5, <3>1
  <2>6. CASE queue # << >> /\ queue' = Append(Tail(queue), Resync) /\ e.m \in dropped'
    <3>1. /\ DOMAIN queue = 1..Len(queue) /\ Len(queue) \in Nat \ {0}
          /\ Tail(queue) \in Seq(Event \cup {Resync}) /\ Len(Tail(queue)) = Len(queue) - 1
          /\ \A j \in 1..(Len(queue) - 1) : Tail(queue)[j] = queue[j + 1]
      BY <2>1, <2>6, Beheaded
    <3>2. /\ DOMAIN queue' = 1..Len(queue) /\ queue'[Len(queue)] = Resync
          /\ \A j \in 1..(Len(queue) - 1) : queue'[j] = queue[j + 1]
      BY <2>1, <2>6, <3>1, Appended
    <3>3. i \in 1..(Len(queue) - 1) /\ i + 1 \in DOMAIN queue /\ queue'[i] = queue[i + 1] /\ k # e.m
      BY <1>5, <2>1, <2>6, <3>1, <3>2
    <3>4. \A j \in DOMAIN queue : j > i + 1 => queue[j].m # k
      <4> SUFFICES ASSUME NEW j \in DOMAIN queue, j > i + 1
                   PROVE  queue[j].m # k
        OBVIOUS
      <4>1. j - 1 \in 1..(Len(queue) - 1) /\ j - 1 > i /\ queue'[j - 1] = queue[j - 1 + 1] /\ j - 1 + 1 = j
        BY <3>1, <3>2, <3>3
      <4> QED BY <3>2, <4>1
    <3>5. queue[i + 1].v = sent[k]
      BY <1>0, <1>5, <3>3, <3>4 DEF QueueInOrder
    <3> QED BY <1>4, <2>2, <2>3, <3>3, <3>5
  <2>7. CASE queue' = << >>
    BY <2>7
  <2> QED BY <1>10, <2>4, <2>5, <2>6, <2>7
<1>22. ArrivesInOrder'
  <2> SUFFICES ASSUME link = "live", NEW k \in DOMAIN store, k > cursor, k \notin Lost' \cup skipped, ~InWire(k)'
               PROVE  \/ sent'[k] = 0 /\ Pending(k)'
                      \/ \E i \in DOMAIN queue' : queue'[i].m = k /\ \A j \in DOMAIN queue' : j < i => queue'[j].m <= k
    BY <1>7 DEF ArrivesInOrder
  <2>1. k \in Msgs /\ k \in Nat /\ k # 0
    BY <1>0, ConsoleParts
  <2>2. \/ sent[k] = 0 /\ Pending(k)
        \/ \E i \in DOMAIN queue : queue[i].m = k /\ \A j \in DOMAIN queue : j < i => queue[j].m <= k
    BY <1>0, <1>5, <1>9 DEF ArrivesInOrder
  <2>3. queue \in Seq(Event \cup {Resync}) /\ e \in Event \cup {Resync} /\ Resync \in Event \cup {Resync} /\ Resync.m = 0
    BY <1>0, <1>3 DEF ConsoleTypeOK, Resync
  <2>4. CASE sent[k] = 0 /\ Pending(k) /\ k # e.m
    BY <1>4, <1>6, <2>1, <2>4
  <2>5. CASE sent[k] = 0 /\ k = e.m
    <3>1. queue' = Append(queue, e)
      BY <1>5, <1>10, <2>5
    <3>2. /\ Len(queue) \in Nat /\ DOMAIN queue = 1..Len(queue) /\ DOMAIN queue' = 1..(Len(queue) + 1)
          /\ \A j \in 1..Len(queue) : queue'[j] = queue[j]
          /\ queue'[Len(queue) + 1] = e
      BY <2>3, <3>1, Appended
    <3>3. ~Overtaken(w) /\ pub[w] # Nothing
      BY <1>1, <1>5, <2>5 DEF Published
    <3>4. \A j \in Msgs : j > k => ~(sent[j] > 0)
      BY <1>2, <2>5, <3>3 DEF Overtaken
    <3>5. \A j \in DOMAIN queue : queue[j].m <= k
      <4>1. \A j \in DOMAIN queue : queue[j].m \in Nat /\ (queue[j].m > 0 => queue[j].m \in Msgs /\ sent[queue[j].m] > 0)
        BY <1>0, ConsoleParts DEF OnTheWay
      <4> QED BY <2>1, <3>4, <4>1
    <3> QED BY <2>5, <3>2, <3>5
  <2>6. ASSUME NEW i \in DOMAIN queue, queue[i].m = k, \A j \in DOMAIN queue : j < i => queue[j].m <= k
        PROVE  \E h \in DOMAIN queue' : queue'[h].m = k /\ \A j \in DOMAIN queue' : j < h => queue'[j].m <= k
    <3>1. CASE queue' = Append(queue, e)
      <4>1. /\ Len(queue) \in Nat /\ DOMAIN queue = 1..Len(queue) /\ DOMAIN queue' = 1..(Len(queue) + 1)
            /\ \A j \in 1..Len(queue) : queue'[j] = queue[j]
        BY <2>3, <3>1, Appended
      <4>2. i \in DOMAIN queue' /\ queue'[i].m = k /\ \A j \in DOMAIN queue' : j < i => queue'[j].m <= k
        BY <2>6, <4>1
      <4> QED BY <4>2
    <3>2. CASE queue' = queue
      BY <2>6, <3>2
    <3>3. CASE queue # << >> /\ queue' = Append(Tail(queue), Resync) /\ Head(queue).m \in dropped' \cup {0}
      <4>1. /\ DOMAIN queue = 1..Len(queue) /\ Len(queue) \in Nat \ {0} /\ Head(queue) = queue[1]
            /\ Tail(queue) \in Seq(Event \cup {Resync}) /\ Len(Tail(queue)) = Len(queue) - 1
            /\ \A j \in 1..(Len(queue) - 1) : Tail(queue)[j] = queue[j + 1]
        BY <2>3, <3>3, Beheaded
      <4>2. /\ DOMAIN queue' = 1..Len(queue)
            /\ \A j \in 1..(Len(queue) - 1) : queue'[j] = queue[j + 1]
        BY <2>3, <3>3, <4>1, Appended
      <4>3. i # 1
        BY <1>5, <2>1, <2>6, <3>3, <4>1
      <4>4. i - 1 \in 1..(Len(queue) - 1) /\ queue'[i - 1] = queue[i - 1 + 1] /\ i - 1 + 1 = i
        BY <4>1, <4>2, <4>3
      <4>5. \A j \in DOMAIN queue' : j < i - 1 => queue'[j].m <= k
        <5> SUFFICES ASSUME NEW j \in DOMAIN queue', j < i - 1
                     PROVE  queue'[j].m <= k
          OBVIOUS
        <5>1. j \in 1..(Len(queue) - 1) /\ j + 1 \in DOMAIN queue /\ j + 1 < i
          BY <4>1, <4>2, <4>4
        <5> QED BY <2>6, <4>2, <5>1
      <4> QED BY <2>6, <4>2, <4>4, <4>5
    <3>4. CASE queue = << >>
      BY <3>4
    <3>5. \/ queue' = Append(queue, e) \/ queue' = queue \/ queue = << >>
          \/ queue # << >> /\ queue' = Append(Tail(queue), Resync) /\ Head(queue).m \in dropped' \cup {0}
      BY <1>10
    <3> QED BY <3>1, <3>2, <3>3, <3>4, <3>5
  <2> QED BY <2>2, <2>4, <2>5, <2>6
<1> QED BY <1>11, <1>13, <1>14, <1>15, <1>16, <1>17, <1>18, <1>20, <1>21, <1>22 DEF ConsoleInv

\* A new stream asks for what comes after the cursor.
LEMMA ConnectKeeps ==
    ASSUME ConsoleInv, Connect
    PROVE  ConsoleInv'
<1>0. /\ ConsoleTypeOK /\ OnTheWay /\ ReplayInOrder /\ NewestComesLast /\ QueueInOrder
      /\ ReplayCurrent /\ ShownCurrent /\ HistoryCurrent /\ PassedUnsent /\ ArrivesInOrder
  BY DEF ConsoleInv
<1>1. /\ link = "down" /\ link' = "subscribed" /\ since' = cursor
      /\ UNCHANGED <<store, pub, wire, queue, history, shown, cursor, breaks, sent, missed, dropped, late, skipped>>
  BY DEF Connect, Reconnects, client, causes
<1>2. \A k : /\ InQueue(k)' <=> InQueue(k)
             /\ Carries(k)' <=> Carries(k)
             /\ Pending(k)' <=> Pending(k)
             /\ Newest(k)' <=> Newest(k)
  BY <1>1 DEF InQueue, InWire, Carries, Pending, Newest
<1>3. Lost' = Lost
  BY <1>1 DEF Lost
<1>4. ConsoleTypeOK'
  BY <1>0, <1>1, ConsoleParts DEF ConsoleTypeOK
<1>5. OnTheWay'
  BY <1>0, <1>1 DEF OnTheWay
<1>6. ReplayInOrder'
  <2>1. wire' = << >>
    BY <1>0, <1>1 DEF OnTheWay
  <2> QED BY <1>0, <1>1, <2>1, ConsoleParts DEF ReplayInOrder
<1>7. NewestComesLast' /\ QueueInOrder' /\ ReplayCurrent'
  BY <1>0, <1>1, <1>2, <1>3 DEF NewestComesLast, QueueInOrder, ReplayCurrent
<1>8. ShownCurrent' /\ HistoryCurrent' /\ PassedUnsent' /\ ArrivesInOrder'
  BY <1>0, <1>1, <1>2, <1>3 DEF ShownCurrent, HistoryCurrent, PassedUnsent, ArrivesInOrder
<1> QED BY <1>4, <1>5, <1>6, <1>7, <1>8 DEF ConsoleInv

\* The replay holds what is stored after its cursor, and what it leaves out is skipped.
LEMMA ReadReplayKeeps ==
    ASSUME ConsoleInv, ReadReplay
    PROVE  ConsoleInv'
<1>0. /\ ConsoleTypeOK /\ OnTheWay /\ ReplayInOrder /\ NewestComesLast /\ QueueInOrder
      /\ ReplayCurrent /\ ShownCurrent /\ HistoryCurrent /\ PassedUnsent /\ ArrivesInOrder
  BY DEF ConsoleInv
<1>1. /\ link = "subscribed" /\ link' = "live" /\ wire' = list_messages(ReplayPage, since)
      /\ skipped' = (skipped \ {wire'[i].m : i \in DOMAIN wire'}) \cup {m \in DOMAIN store : m > since + ReplayPage}
      /\ UNCHANGED <<store, pub, since, queue, history, shown, cursor, breaks, sent, missed, dropped, late>>
  BY DEF ReadReplay, client
<1>2. PICK n \in Nat : /\ wire' = [i \in 1..n |-> [m |-> since + i, v |-> store[since + i]]]
                       /\ n <= ReplayPage /\ since + n <= Len(store)
                       /\ \A k \in DOMAIN store : k > since + n => k > since + ReplayPage
  <2>1. since \in Nat /\ Len(store) \in Nat /\ since <= Len(store) /\ DOMAIN store = 1..Len(store)
    BY <1>0, ConsoleParts
  <2>2. Len(store) - since \in Nat
    BY <2>1
  <2> DEFINE n == Min({ReplayPage, Len(store) - since})
  <2>3. n = IF ReplayPage <= Len(store) - since THEN ReplayPage ELSE Len(store) - since
    BY <2>2, MinOfTwo, ConsoleConstants
  <2>4. wire' = [i \in 1..n |-> [m |-> since + i, v |-> store[since + i]]]
    BY <1>1 DEF list_messages
  <2> HIDE DEF n
  <2>5. /\ n \in Nat /\ n <= ReplayPage /\ since + n <= Len(store)
        /\ \A k \in DOMAIN store : k > since + n => k > since + ReplayPage
    <3>1. CASE ReplayPage <= Len(store) - since
      BY <2>1, <2>3, <3>1, ConsoleConstants
    <3>2. CASE ~(ReplayPage <= Len(store) - since)
      <4>1. n = Len(store) - since
        BY <2>3, <3>2
      <4>2. since + n = Len(store) /\ n \in Nat /\ n <= ReplayPage
        BY <2>1, <2>2, <3>2, <4>1, ConsoleConstants
      <4> QED BY <2>1, <4>2
    <3> QED BY <3>1, <3>2
  <2> QED BY <2>4, <2>5
<1>3. since \in Nat /\ since <= cursor /\ cursor \in Nat /\ Len(store) \in Nat /\ DOMAIN store = 1..Len(store)
  BY <1>0, ConsoleParts
<1>4. /\ DOMAIN wire' = 1..n
      /\ \A i \in 1..n : /\ wire'[i].m = since + i /\ wire'[i].v = store[since + i]
                         /\ since + i \in DOMAIN store
  BY <1>2, <1>3
<1>5. wire' \in Seq(Event) /\ Len(wire') = n
  <2>1. \A i \in 1..n : [m |-> since + i, v |-> store[since + i]] \in Event
    <3> SUFFICES ASSUME NEW i \in 1..n
                 PROVE  [m |-> since + i, v |-> store[since + i]] \in Event
      OBVIOUS
    <3>1. since + i \in Msgs /\ store[since + i] \in 1..MaxVersion
      BY <1>0, <1>4, ConsoleParts
    <3> QED BY <3>1 DEF Event
  <2> QED BY <1>2, <2>1
<1>6. \A k \in DOMAIN store : InWire(k)' <=> since < k /\ k <= since + n
  <2>1. ASSUME NEW k \in DOMAIN store, since < k, k <= since + n
        PROVE  \E i \in DOMAIN wire' : wire'[i].m = k
    <3>1. k - since \in 1..n /\ since + (k - since) = k
      BY <1>3, <2>1
    <3> QED BY <1>4, <3>1
  <2>2. ASSUME NEW k \in DOMAIN store, NEW i \in DOMAIN wire', wire'[i].m = k
        PROVE  since < k /\ k <= since + n
    BY <1>3, <1>4, <2>2
  <2> QED BY <2>1, <2>2 DEF InWire
<1>7. /\ \A k \in DOMAIN store : since < k => InWire(k)' \/ k \in skipped'
      /\ \A k \in DOMAIN store : k \notin skipped' => k \notin skipped \/ InWire(k)'
  <2>1. \A k \in DOMAIN store : since < k => InWire(k)' \/ k \in skipped'
    BY <1>1, <1>2, <1>3, <1>6
  <2>2. \A k : k \in {wire'[i].m : i \in DOMAIN wire'} => InWire(k)'
    BY DEF InWire
  <2> QED BY <1>1, <2>1, <2>2
<1>8. wire = << >> /\ \A k : ~InWire(k)
  BY <1>0, <1>1 DEF OnTheWay, InWire
<1>9. \A k : /\ InQueue(k)' <=> InQueue(k)
             /\ ~Carries(k)' => ~Carries(k)
             /\ Pending(k)' <=> Pending(k)
             /\ Newest(k)' <=> Newest(k)
  BY <1>1, <1>8 DEF InQueue, Carries, Pending, Newest
<1>10. Lost' = Lost
  BY <1>1 DEF Lost
<1>11. ConsoleTypeOK'
  <2>1. skipped' \subseteq Msgs
    BY <1>0, <1>1, ConsoleParts DEF ConsoleTypeOK
  <2>2. wire' \in Seq(Event) /\ Len(wire') <= ReplayPage
    BY <1>2, <1>5
  <2>3. /\ link' = "live"
        /\ UNCHANGED <<store, pub, since, queue, history, shown, cursor, breaks, sent, missed, dropped, late>>
    BY <1>1
  <2> QED BY <1>0, <2>1, <2>2, <2>3 DEF ConsoleTypeOK
<1>12. OnTheWay'
  BY <1>0, <1>1, <1>4 DEF OnTheWay
<1>13. ReplayInOrder'
  <2>1. \A i \in DOMAIN wire' : wire'[i].m = wire'[1].m + i - 1
    BY <1>2, <1>3, <1>4
  <2>2. wire' # << >> => wire'[1].m = since + 1
    <3>1. wire' # << >> => n >= 1
      BY <1>2, <1>5
    <3> QED BY <1>2, <1>4, <3>1
  <2>3. wire' # << >> => since < wire'[1].m /\ \A m \in Msgs : ~(since < m /\ m < wire'[1].m)
    BY <1>3, <2>2 DEF Msgs
  <2> QED BY <1>1, <2>1, <2>3 DEF ReplayInOrder
<1>14. NewestComesLast' /\ QueueInOrder'
  BY <1>0, <1>1, <1>9, <1>10 DEF NewestComesLast, QueueInOrder
<1>15. ReplayCurrent'
  BY <1>1, <1>4 DEF ReplayCurrent
<1>16. ShownCurrent' /\ HistoryCurrent'
  BY <1>0, <1>1, <1>9, <1>10 DEF ShownCurrent, HistoryCurrent
<1>17. PassedUnsent'
  <2> SUFFICES ASSUME NEW k \in DOMAIN store, k <= cursor, shown[k] = 0, k \notin Lost, k \notin skipped'
               PROVE  sent[k] = 0 /\ Pending(k) /\ \E j \in Msgs : j > k /\ sent[j] > 0
    BY <1>1, <1>9, <1>10 DEF PassedUnsent
  <2>1. k \in Msgs
    BY <1>0, ConsoleParts
  <2>2. ~InWire(k)'
    <3>1. since < k => shown[k] > 0
      BY <1>0, <1>1, <2>1 DEF ReplayInOrder
    <3> QED BY <1>6, <3>1
  <2> QED BY <1>0, <1>7, <2>2 DEF PassedUnsent
<1>18. ArrivesInOrder'
  BY <1>1, <1>3, <1>7 DEF ArrivesInOrder
<1> QED BY <1>11, <1>12, <1>13, <1>14, <1>15, <1>16, <1>17, <1>18 DEF ConsoleInv

\* The listener shows the event's content under its message and raises the cursor.
LEMMA ShowsParts ==
    ASSUME ConsoleTypeOK, NEW e \in Event \cup {Resync}, Shows(e), e.m \in DOMAIN store \cup {0}
    PROVE  /\ shown' \in [Msgs -> 0..MaxVersion]
           /\ \A k \in Msgs : shown'[k] = IF k = e.m THEN e.v ELSE shown[k]
           /\ e.m \in Nat /\ e.v \in Nat \ {0} /\ (e.m > 0 => e.m \in Msgs)
           /\ cursor' = IF cursor >= e.m THEN cursor ELSE e.m
           /\ cursor' \in 0..Len(store) /\ cursor <= cursor'
<1>1. \A k \in Event : k.m \in Msgs /\ k.v \in 1..MaxVersion /\ k.v \in Nat \ {0}
  BY DEF Event
<1>2. Resync.m = 0 /\ Resync.v = 1 /\ Msgs \subseteq Nat \ {0} /\ 0 \notin Msgs
  BY ConsoleParts DEF Resync
<1>3. e.m \in Nat /\ e.v \in Nat \ {0} /\ (e.m > 0 => e.m \in Msgs)
  <2>1. CASE e \in Event
    <3>1. e.m \in Msgs /\ e.v \in Nat \ {0}
      BY <1>1, <2>1
    <3>2. e.m \in Nat
      BY <1>2, <3>1
    <3> QED BY <3>1, <3>2
  <2>2. CASE e = Resync
    BY <1>2, <2>2
  <2> QED BY <2>1, <2>2
<1>4. shown \in [Msgs -> 0..MaxVersion]
  BY DEF ConsoleTypeOK
<1>5. /\ shown' \in [Msgs -> 0..MaxVersion]
      /\ \A k \in Msgs : shown'[k] = IF k = e.m THEN e.v ELSE shown[k]
  <2>1. CASE e = Resync
    <3>1. shown' = shown
      BY <2>1 DEF Shows
    <3> QED BY <1>2, <1>4, <2>1, <3>1
  <2>2. CASE e # Resync
    <3>1. shown' = [shown EXCEPT ![e.m] = e.v] /\ e.m \in Msgs /\ e.v \in 1..MaxVersion
      BY <1>1, <2>2 DEF Shows
    <3>2. e.v \in 0..MaxVersion
      BY <3>1, ConsoleConstants
    <3> QED BY <1>4, <3>1, <3>2
  <2> QED BY <2>1, <2>2
<1>6. cursor \in Nat /\ Len(store) \in Nat /\ cursor <= Len(store) /\ e.m \in Nat /\ e.m <= Len(store)
  <2>1. DOMAIN store = 1..Len(store) /\ cursor \in Nat /\ Len(store) \in Nat /\ cursor <= Len(store)
    BY ConsoleParts
  <2>2. e.m = 0 \/ e.m \in 1..Len(store)
    BY <2>1
  <2> QED BY <1>3, <2>1, <2>2
<1>7. cursor' = IF cursor >= e.m THEN cursor ELSE e.m
  BY <1>6, MaxOfTwo DEF Shows
<1>8. cursor' \in 0..Len(store) /\ cursor <= cursor'
  BY <1>6, <1>7
<1> QED BY <1>3, <1>5, <1>7, <1>8

\* The replay is shown in order, so the cursor passes no message that was not shown.
LEMMA DeliverReplayKeeps ==
    ASSUME ConsoleInv, DeliverReplay
    PROVE  ConsoleInv'
<1>0. /\ ConsoleTypeOK /\ OnTheWay /\ ReplayInOrder /\ NewestComesLast /\ QueueInOrder
      /\ ReplayCurrent /\ ShownCurrent /\ HistoryCurrent /\ PassedUnsent /\ ArrivesInOrder
  BY DEF ConsoleInv
<1>1. /\ link = "live" /\ wire # << >> /\ Shows(Head(wire)) /\ wire' = Tail(wire)
      /\ UNCHANGED <<store, pub, link, since, queue, history, breaks, sent, missed, dropped, late, skipped>>
  BY DEF DeliverReplay, causes
<1>2. PICK e : e = Head(wire)
  OBVIOUS
<1>3. wire \in Seq(Event)
  BY <1>0 DEF ConsoleTypeOK
<1>4. /\ Len(wire) \in Nat \ {0} /\ DOMAIN wire = 1..Len(wire) /\ e = wire[1] /\ e \in Event
      /\ wire' \in Seq(Event) /\ Len(wire') = Len(wire) - 1 /\ DOMAIN wire' = 1..(Len(wire) - 1)
      /\ \A i \in 1..(Len(wire) - 1) : wire'[i] = wire[i + 1]
  BY <1>1, <1>2, <1>3, Beheaded
<1>5. 1 \in DOMAIN wire /\ e.m \in DOMAIN store /\ e.m \in Msgs /\ e.m \in Nat /\ e.m # 0
  <2>1. 1 \in DOMAIN wire
    BY <1>4
  <2>2. wire[1].m \in DOMAIN store
    BY <1>0, <2>1 DEF OnTheWay
  <2> QED BY <1>0, <1>4, <2>1, <2>2, ConsoleParts
<1>6. /\ shown' \in [Msgs -> 0..MaxVersion]
      /\ \A k \in Msgs : shown'[k] = IF k = e.m THEN e.v ELSE shown[k]
      /\ e.v \in Nat \ {0}
      /\ cursor' = IF cursor >= e.m THEN cursor ELSE e.m
      /\ cursor' \in 0..Len(store) /\ cursor <= cursor'
  BY <1>0, <1>1, <1>2, <1>4, <1>5, ShowsParts
<1>7. cursor \in Nat /\ since \in Nat /\ since <= cursor /\ cursor' \in Nat /\ e.m <= cursor'
  BY <1>0, <1>5, <1>6, ConsoleParts
<1>8. \A i \in DOMAIN wire : wire[i].m = e.m + i - 1
  BY <1>0, <1>4 DEF ReplayInOrder
<1>9. \A k : /\ InWire(k)' => InWire(k)
             /\ InWire(k) /\ k # e.m => InWire(k)'
  <2>1. ASSUME NEW k, NEW i \in DOMAIN wire', wire'[i].m = k
        PROVE  \E j \in DOMAIN wire : wire[j].m = k
    <3>1. i + 1 \in DOMAIN wire /\ wire[i + 1].m = k
      BY <1>4, <2>1
    <3> QED BY <3>1
  <2>2. ASSUME NEW k, k # e.m, NEW i \in DOMAIN wire, wire[i].m = k
        PROVE  \E j \in DOMAIN wire' : wire'[j].m = k
    <3>1. i # 1
      BY <1>4, <2>2
    <3>2. i - 1 \in DOMAIN wire' /\ wire'[i - 1] = wire[i - 1 + 1] /\ i - 1 + 1 = i
      BY <1>4, <3>1
    <3> QED BY <2>2, <3>2
  <2> QED BY <2>1, <2>2 DEF InWire
<1>10. \A k : /\ InQueue(k)' <=> InQueue(k)
              /\ Pending(k)' <=> Pending(k)
              /\ Newest(k)' <=> Newest(k)
              /\ k # e.m /\ ~Carries(k)' => ~Carries(k)
  BY <1>1, <1>9 DEF InQueue, Carries, Pending, Newest
<1>11. Lost' = Lost
  BY <1>1 DEF Lost
<1>12. ConsoleTypeOK'
  <2>1. since' \in 0..cursor'
    <3>1. since' = since /\ cursor <= cursor'
      BY <1>1, <1>6
    <3> QED BY <1>7, <3>1
  <2>3. Len(wire') <= ReplayPage
    <3>1. Len(wire) <= ReplayPage
      BY <1>0 DEF ConsoleTypeOK
    <3> QED BY <1>4, <3>1, ConsoleConstants
  <2>2. UNCHANGED <<store, pub, link, since, queue, history, breaks, sent, missed, dropped, late, skipped>>
    BY <1>1
  <2> QED BY <1>0, <1>4, <1>6, <2>1, <2>2, <2>3 DEF ConsoleTypeOK
<1>13. OnTheWay'
  <2>1. \A i \in DOMAIN wire' : wire'[i].m \in DOMAIN store
    <3>1. \A i \in DOMAIN wire' : i + 1 \in DOMAIN wire /\ wire'[i] = wire[i + 1]
      BY <1>4
    <3> QED BY <1>0, <3>1 DEF OnTheWay
  <2>2. \A m \in Msgs : shown'[m] > 0 => m <= cursor'
    <3>1. \A m \in Msgs : m \in Nat
      BY <1>0, ConsoleParts
    <3> QED BY <1>0, <1>6, <1>7, <3>1 DEF OnTheWay
  <2> QED BY <1>0, <1>1, <2>1, <2>2 DEF OnTheWay
<1>14. ReplayInOrder'
  <2>1. \A i \in DOMAIN wire' : wire'[i].m = e.m + i
    <3>1. \A i \in DOMAIN wire' : i \in Nat /\ i + 1 \in DOMAIN wire /\ wire'[i] = wire[i + 1]
      BY <1>4
    <3>2. \A i \in DOMAIN wire' : wire[i + 1].m = e.m + (i + 1) - 1
      BY <1>8, <3>1
    <3> QED BY <1>5, <3>1, <3>2
  <2>2. \A i \in DOMAIN wire' : 1 \in DOMAIN wire' /\ i \in Nat
    BY <1>4
  <2>3. \A i \in DOMAIN wire' : wire'[i].m = wire'[1].m + i - 1
    BY <1>5, <2>1, <2>2
  <2>4. wire' # << >> => wire'[1].m = e.m + 1
    <3>1. wire' # << >> => 1 \in DOMAIN wire'
      BY <1>4
    <3> QED BY <2>1, <3>1
  <2>5. since < e.m /\ \A m \in Msgs : since < m /\ m < e.m => shown[m] > 0
    BY <1>0, <1>1, <1>4 DEF ReplayInOrder
  <2>6. \A m \in Msgs : since < m /\ m < e.m + 1 => shown'[m] > 0
    <3>1. \A m \in Msgs : m \in Nat
      BY <1>0, ConsoleParts
    <3> QED BY <1>5, <1>6, <2>5, <3>1
  <2>7. since < e.m + 1
    BY <1>5, <1>7, <2>5
  <2> QED BY <1>1, <2>3, <2>4, <2>6, <2>7 DEF ReplayInOrder
<1>15. NewestComesLast' /\ QueueInOrder'
  BY <1>0, <1>1, <1>10, <1>11 DEF NewestComesLast, QueueInOrder
<1>16. ReplayCurrent'
  <2>1. \A i \in DOMAIN wire' : i + 1 \in DOMAIN wire /\ wire'[i] = wire[i + 1]
    BY <1>4
  <2> QED BY <1>0, <1>1, <1>10, <1>11, <2>1 DEF ReplayCurrent
<1>17. ShownCurrent'
  <2> SUFFICES ASSUME NEW k \in DOMAIN store, k \notin Lost \cup missed, ~Carries(k)', shown'[k] > 0
               PROVE  Newest(k)' \/ shown'[k] = store[k]
    BY <1>1, <1>11 DEF ShownCurrent
  <2>1. k \in Msgs
    BY <1>0, ConsoleParts
  <2>2. CASE k = e.m
    <3>1. ~InQueue(k)
      BY <1>10 DEF Carries
    <3>2. Newest(k) \/ e.v = store[k]
      BY <1>0, <1>4, <1>5, <2>2, <3>1 DEF ReplayCurrent
    <3> QED BY <1>6, <1>10, <2>1, <2>2, <3>2
  <2>3. CASE k # e.m
    BY <1>0, <1>6, <1>10, <2>1, <2>3 DEF ShownCurrent
  <2> QED BY <2>2, <2>3
<1>18. HistoryCurrent'
  <2> SUFFICES ASSUME NEW k \in DOMAIN history.msgs, k \notin Lost \cup missed, ~Carries(k)', shown'[k] = 0
               PROVE  Newest(k)' \/ history.msgs[k] = store[k]
    BY <1>1, <1>11 DEF HistoryCurrent
  <2>1. k \in Msgs
    BY <1>0, HistoryParts
  <2>2. k # e.m /\ shown[k] = 0
    BY <1>6, <2>1
  <2> QED BY <1>0, <1>10, <2>2 DEF HistoryCurrent
<1>19. PassedUnsent'
  <2> SUFFICES ASSUME NEW k \in DOMAIN store, k <= cursor', shown'[k] = 0, k \notin Lost \cup skipped
               PROVE  sent[k] = 0 /\ Pending(k) /\ \E j \in Msgs : j > k /\ sent[j] > 0
    BY <1>1, <1>10, <1>11 DEF PassedUnsent
  <2>1. k \in Msgs /\ k \in Nat
    BY <1>0, ConsoleParts
  <2>2. k # e.m /\ shown[k] = 0
    BY <1>6, <2>1
  <2>3. k <= cursor
    <3>1. since < k /\ k < e.m => shown[k] > 0
      BY <1>0, <1>1, <1>4, <2>1 DEF ReplayInOrder
    <3> QED BY <1>5, <1>6, <1>7, <2>1, <2>2, <3>1
  <2> QED BY <1>0, <2>2, <2>3 DEF PassedUnsent
<1>20. ArrivesInOrder'
  <2> SUFFICES ASSUME NEW k \in DOMAIN store, k > cursor', k \notin Lost \cup skipped, ~InWire(k)'
               PROVE  \/ sent[k] = 0 /\ Pending(k)
                      \/ \E i \in DOMAIN queue : queue[i].m = k /\ \A j \in DOMAIN queue : j < i => queue[j].m <= k
    BY <1>1, <1>10, <1>11 DEF ArrivesInOrder
  <2>1. k \in Nat
    BY <1>0, ConsoleParts
  <2>2. k > cursor /\ k # e.m
    BY <1>5, <1>6, <1>7, <2>1
  <2> QED BY <1>0, <1>1, <1>9, <2>2 DEF ArrivesInOrder
<1> QED BY <1>12, <1>13, <1>14, <1>15, <1>16, <1>17, <1>18, <1>19, <1>20 DEF ConsoleInv

\* The queue is shown after the replay, and a message's first event comes ahead of what
\* would pass it.
LEMMA DeliverLiveKeeps ==
    ASSUME ConsoleInv, DeliverLive
    PROVE  ConsoleInv'
<1>0. /\ ConsoleTypeOK /\ OnTheWay /\ ReplayInOrder /\ NewestComesLast /\ QueueInOrder
      /\ ReplayCurrent /\ ShownCurrent /\ HistoryCurrent /\ PassedUnsent /\ ArrivesInOrder
  BY DEF ConsoleInv
<1>1. /\ link = "live" /\ wire = << >> /\ queue # << >> /\ Shows(Head(queue)) /\ queue' = Tail(queue)
      /\ UNCHANGED <<store, pub, link, since, wire, history, breaks, sent, missed, dropped, late, skipped>>
  BY DEF DeliverLive, stream, causes
<1>2. PICK e : e = Head(queue)
  OBVIOUS
<1>3. queue \in Seq(Event \cup {Resync})
  BY <1>0 DEF ConsoleTypeOK
<1>4. /\ Len(queue) \in Nat \ {0} /\ DOMAIN queue = 1..Len(queue) /\ e = queue[1] /\ e \in Event \cup {Resync}
      /\ queue' \in Seq(Event \cup {Resync}) /\ Len(queue') = Len(queue) - 1 /\ DOMAIN queue' = 1..(Len(queue) - 1)
      /\ \A i \in 1..(Len(queue) - 1) : queue'[i] = queue[i + 1]
  BY <1>1, <1>2, <1>3, Beheaded
<1>5. /\ 1 \in DOMAIN queue /\ e.m \in DOMAIN store \cup {0} /\ e.m \in Nat
      /\ e.m > 0 => e.m \in Msgs /\ sent[e.m] > 0
  <2>1. 1 \in DOMAIN queue
    BY <1>4
  <2>2. queue[1].m \in Nat /\ (queue[1].m > 0 => queue[1].m \in Msgs)
    BY <1>0, <2>1, ConsoleParts
  <2>3. queue[1].m > 0 => sent[queue[1].m] > 0
    BY <1>0, <2>1 DEF OnTheWay
  <2>4. queue[1].m > 0 => queue[1].m \in DOMAIN store
    BY <1>0, <2>2, <2>3 DEF OnTheWay
  <2> QED BY <1>4, <2>1, <2>2, <2>3, <2>4
<1>6. /\ shown' \in [Msgs -> 0..MaxVersion]
      /\ \A k \in Msgs : shown'[k] = IF k = e.m THEN e.v ELSE shown[k]
      /\ e.v \in Nat \ {0}
      /\ cursor' = IF cursor >= e.m THEN cursor ELSE e.m
      /\ cursor' \in 0..Len(store) /\ cursor <= cursor'
  BY <1>0, <1>1, <1>2, <1>4, <1>5, ShowsParts
<1>7. cursor \in Nat /\ since \in Nat /\ since <= cursor /\ cursor' \in Nat /\ e.m <= cursor'
  BY <1>0, <1>5, <1>6, ConsoleParts
<1>8. \A i \in DOMAIN queue' : i \in Nat /\ i + 1 \in DOMAIN queue /\ queue'[i] = queue[i + 1]
  BY <1>4
<1>9. \A i \in DOMAIN queue : i # 1 => i \in Nat /\ i - 1 \in DOMAIN queue' /\ queue'[i - 1] = queue[i]
  <2> SUFFICES ASSUME NEW i \in DOMAIN queue, i # 1
               PROVE  i \in Nat /\ i - 1 \in DOMAIN queue' /\ queue'[i - 1] = queue[i]
    OBVIOUS
  <2>1. i \in Nat /\ i - 1 \in 1..(Len(queue) - 1) /\ i - 1 + 1 = i
    BY <1>4
  <2> QED BY <1>4, <2>1
<1>10. \A k : /\ InQueue(k)' => InQueue(k)
              /\ InQueue(k) /\ k # e.m => InQueue(k)'
  BY <1>4, <1>8, <1>9 DEF InQueue
<1>11. \A k : ~InWire(k) /\ ~InWire(k)'
  BY <1>1 DEF InWire
<1>12. \A k : /\ Pending(k)' <=> Pending(k)
              /\ Newest(k)' <=> Newest(k)
              /\ k # e.m /\ ~Carries(k)' => ~Carries(k)
  BY <1>1, <1>10, <1>11 DEF Carries, Pending, Newest
<1>13. Lost' = Lost
  BY <1>1 DEF Lost
<1>14. ConsoleTypeOK'
  <2>1. since' \in 0..cursor'
    <3>1. since' = since /\ cursor <= cursor'
      BY <1>1, <1>6
    <3> QED BY <1>7, <3>1
  <2>3. Len(queue') <= QueueSize
    <3>1. Len(queue) <= QueueSize
      BY <1>0 DEF ConsoleTypeOK
    <3> QED BY <1>4, <3>1, ConsoleConstants
  <2>2. UNCHANGED <<store, pub, link, since, wire, history, breaks, sent, missed, dropped, late, skipped>>
    BY <1>1
  <2> QED BY <1>0, <1>4, <1>6, <2>1, <2>2, <2>3 DEF ConsoleTypeOK
<1>15. OnTheWay'
  <2>1. \A i \in DOMAIN queue' : queue'[i].m > 0 => sent[queue'[i].m] > 0
    BY <1>0, <1>8 DEF OnTheWay
  <2>2. \A m \in Msgs : shown'[m] > 0 => m <= cursor'
    <3>1. \A m \in Msgs : m \in Nat
      BY <1>0, ConsoleParts
    <3> QED BY <1>0, <1>6, <1>7, <3>1 DEF OnTheWay
  <2> QED BY <1>0, <1>1, <2>1, <2>2 DEF OnTheWay
<1>16. ReplayInOrder'
  BY <1>1 DEF ReplayInOrder
<1>17. NewestComesLast'
  BY <1>0, <1>1, <1>10, <1>12 DEF NewestComesLast
<1>18. QueueInOrder'
  <2> SUFFICES ASSUME NEW i \in DOMAIN queue', NEW k, k = queue'[i].m, k \notin Lost \cup {0},
                      \A j \in DOMAIN queue' : j > i => queue'[j].m # k
               PROVE  queue'[i].v = sent[k]
    BY <1>1, <1>13 DEF QueueInOrder
  <2>1. i \in Nat /\ i + 1 \in DOMAIN queue /\ queue'[i] = queue[i + 1]
    BY <1>8
  <2>2. \A j \in DOMAIN queue : j > i + 1 => queue[j].m # k
    <3> SUFFICES ASSUME NEW j \in DOMAIN queue, j > i + 1
                 PROVE  queue[j].m # k
      OBVIOUS
    <3>1. j # 1
      BY <2>1
    <3>2. j \in Nat /\ j - 1 \in DOMAIN queue' /\ queue'[j - 1] = queue[j]
      BY <1>9, <3>1
    <3>3. j - 1 > i
      BY <2>1, <3>2
    <3> QED BY <3>2, <3>3
  <2> QED BY <1>0, <2>1, <2>2 DEF QueueInOrder
<1>19. ReplayCurrent'
  BY <1>1 DEF ReplayCurrent
<1>20. ShownCurrent'
  <2> SUFFICES ASSUME NEW k \in DOMAIN store, k \notin Lost \cup missed, ~Carries(k)', shown'[k] > 0
               PROVE  Newest(k)' \/ shown'[k] = store[k]
    BY <1>1, <1>13 DEF ShownCurrent
  <2>1. k \in Msgs /\ k # 0
    BY <1>0, ConsoleParts
  <2>2. CASE k = e.m
    <3>1. ~InQueue(k)' /\ InQueue(k)
      BY <1>4, <1>5, <2>2 DEF Carries, InQueue
    <3>2. \A j \in DOMAIN queue : j > 1 => queue[j].m # k
      <4>1. \A j \in DOMAIN queue : j > 1 => j # 1
        OBVIOUS
      <4> QED BY <1>9, <3>1, <4>1 DEF InQueue
    <3>3. e.v = sent[k]
      BY <1>0, <1>4, <1>5, <2>1, <2>2, <3>2 DEF QueueInOrder
    <3>4. Newest(k) \/ sent[k] = store[k]
      BY <1>0, <3>1 DEF NewestComesLast
    <3> QED BY <1>6, <1>12, <2>1, <2>2, <3>3, <3>4
  <2>3. CASE k # e.m
    BY <1>0, <1>6, <1>12, <2>1, <2>3 DEF ShownCurrent
  <2> QED BY <2>2, <2>3
<1>21. HistoryCurrent'
  <2> SUFFICES ASSUME NEW k \in DOMAIN history.msgs, k \notin Lost \cup missed, ~Carries(k)', shown'[k] = 0
               PROVE  Newest(k)' \/ history.msgs[k] = store[k]
    BY <1>1, <1>13 DEF HistoryCurrent
  <2>1. k \in Msgs
    BY <1>0, HistoryParts
  <2>2. k # e.m /\ shown[k] = 0
    BY <1>6, <2>1
  <2> QED BY <1>0, <1>12, <2>2 DEF HistoryCurrent
<1>22. PassedUnsent'
  <2> SUFFICES ASSUME NEW k \in DOMAIN store, k <= cursor', shown'[k] = 0, k \notin Lost \cup skipped
               PROVE  sent[k] = 0 /\ Pending(k) /\ \E j \in Msgs : j > k /\ sent[j] > 0
    BY <1>1, <1>12, <1>13 DEF PassedUnsent
  <2>1. k \in Msgs /\ k \in Nat
    BY <1>0, ConsoleParts
  <2>2. k # e.m /\ shown[k] = 0
    BY <1>6, <2>1
  <2>3. CASE k <= cursor
    BY <1>0, <2>2, <2>3 DEF PassedUnsent
  <2>4. CASE k > cursor
    <3>1. k < e.m
      BY <1>5, <1>6, <1>7, <2>1, <2>2, <2>4
    <3>2. e.m \in Msgs /\ e.m > k /\ sent[e.m] > 0
      BY <1>5, <2>1, <3>1
    <3>3. ~\E i \in DOMAIN queue : queue[i].m = k /\ \A j \in DOMAIN queue : j < i => queue[j].m <= k
      <4> SUFFICES ASSUME NEW i \in DOMAIN queue, queue[i].m = k
                   PROVE  \E j \in DOMAIN queue : j < i /\ ~(queue[j].m <= k)
        BY Zenon
      <4>1. i # 1
        BY <1>4, <2>2
      <4>2. 1 < i
        BY <1>4, <4>1
      <4>3. ~(queue[1].m <= k)
        BY <1>4, <1>5, <2>1, <3>1
      <4> QED BY <1>5, <4>2, <4>3
    <3>4. sent[k] = 0 /\ Pending(k)
      BY <1>0, <1>1, <1>11, <2>4, <3>3 DEF ArrivesInOrder
    <3> QED BY <3>2, <3>4
  <2> QED BY <1>7, <2>1, <2>3, <2>4
<1>23. ArrivesInOrder'
  <2> SUFFICES ASSUME NEW k \in DOMAIN store, k > cursor', k \notin Lost \cup skipped
               PROVE  \/ sent[k] = 0 /\ Pending(k)
                      \/ \E i \in DOMAIN queue' : queue'[i].m = k /\ \A j \in DOMAIN queue' : j < i => queue'[j].m <= k
    BY <1>1, <1>12, <1>13 DEF ArrivesInOrder
  <2>1. k \in Nat
    BY <1>0, ConsoleParts
  <2>2. k > cursor /\ k # e.m
    BY <1>5, <1>6, <1>7, <2>1
  <2>3. \/ sent[k] = 0 /\ Pending(k)
        \/ \E i \in DOMAIN queue : queue[i].m = k /\ \A j \in DOMAIN queue : j < i => queue[j].m <= k
    BY <1>0, <1>1, <1>11, <2>2 DEF ArrivesInOrder
  <2>4. ASSUME NEW i \in DOMAIN queue, queue[i].m = k, \A j \in DOMAIN queue : j < i => queue[j].m <= k
        PROVE  \E h \in DOMAIN queue' : queue'[h].m = k /\ \A j \in DOMAIN queue' : j < h => queue'[j].m <= k
    <3>1. i # 1
      BY <1>4, <2>2, <2>4
    <3>2. i \in Nat /\ i - 1 \in DOMAIN queue' /\ queue'[i - 1] = queue[i]
      BY <1>9, <3>1
    <3>3. \A j \in DOMAIN queue' : j < i - 1 => queue'[j].m <= k
      <4> SUFFICES ASSUME NEW j \in DOMAIN queue', j < i - 1
                   PROVE  queue'[j].m <= k
        OBVIOUS
      <4>1. j \in Nat /\ j + 1 \in DOMAIN queue /\ queue'[j] = queue[j + 1]
        BY <1>8
      <4>2. j + 1 < i
        BY <3>2, <4>1
      <4> QED BY <2>4, <4>1, <4>2
    <3> QED BY <2>4, <3>2, <3>3
  <2> QED BY <2>3, <2>4
<1> QED BY <1>14, <1>15, <1>16, <1>17, <1>18, <1>19, <1>20, <1>21, <1>22, <1>23 DEF ConsoleInv

\* What a stream carried for a message that no replay brings again is missed.
LEMMA DownParts ==
    ASSUME ConsoleInv, Down, Break \/ Restart
    PROVE  /\ link' = "down" /\ wire' = << >> /\ queue' = << >> /\ breaks' \in 0..MaxBreaks
           /\ missed \subseteq missed' /\ missed' \subseteq Msgs
           /\ \A k \in Msgs : Carries(k) /\ Passed(k) => k \in missed'
           /\ \A k : ~InWire(k)' /\ ~InQueue(k)' /\ ~Carries(k)'
           /\ UNCHANGED <<store, since, history, shown, cursor, sent, dropped, skipped>>
<1>0. ConsoleTypeOK /\ OnTheWay
  BY DEF ConsoleInv
<1>1. link' = "down" /\ wire' = << >> /\ queue' = << >> /\ breaks < MaxBreaks /\ breaks' = breaks + 1
  BY DEF Down
<1>2. breaks' \in 0..MaxBreaks
  <2>1. breaks \in 0..MaxBreaks
    BY <1>0 DEF ConsoleTypeOK
  <2> QED BY <1>1, <2>1, ConsoleConstants
<1>3. \A k : ~InWire(k)' /\ ~InQueue(k)' /\ ~Carries(k)'
  BY <1>1 DEF InWire, InQueue, Carries
<1>4. Carried \cup Unsent \subseteq Msgs
  <2>1. \A i \in DOMAIN wire : wire[i].m \in Msgs
    BY <1>0, ConsoleParts
  <2>2. \A i \in DOMAIN queue : queue[i].m \in Msgs \cup {0}
    <3>1. \A i \in DOMAIN queue : queue[i].m \in Nat /\ (queue[i].m > 0 => queue[i].m \in Msgs)
      BY <1>0, ConsoleParts
    <3> QED BY <3>1
  <2>3. \A w \in Writers : pub[w].m \in Msgs \cup {0}
    <3>1. \A w \in Writers : pub[w].m \in Nat /\ (pub[w].m > 0 => pub[w].m \in Msgs)
      BY <1>0, ConsoleParts
    <3> QED BY <3>1
  <2> QED BY <2>1, <2>2, <2>3 DEF Carried, Unsent
<1>5. \A k \in Msgs : Carries(k) => k \in Carried
  <2>1. 0 \notin Msgs
    BY <1>0, ConsoleParts
  <2> QED BY <2>1 DEF Carries, InWire, InQueue, Carried
<1>6. missed \subseteq Msgs
  BY <1>0 DEF ConsoleTypeOK
<1>7. CASE Break
  <2>1. /\ missed' = missed \cup {m \in Carried : Passed(m)}
        /\ UNCHANGED <<store, since, history, shown, cursor, sent, dropped, skipped>>
    BY <1>7 DEF Break, client
  <2> QED BY <1>1, <1>2, <1>3, <1>4, <1>5, <1>6, <2>1
<1>8. CASE Restart
  <2>1. /\ missed' = missed \cup {m \in Carried \cup Unsent : Passed(m)}
        /\ UNCHANGED <<store, since, history, shown, cursor, sent, dropped, skipped>>
    BY <1>8 DEF Restart, client
  <2> QED BY <1>1, <1>2, <1>3, <1>4, <1>5, <1>6, <2>1
<1> QED BY <1>7, <1>8

\* A stream that breaks takes what it carries with it.
LEMMA BreakKeeps ==
    ASSUME ConsoleInv, Break
    PROVE  ConsoleInv'
<1>0. /\ ConsoleTypeOK /\ OnTheWay /\ ReplayInOrder /\ NewestComesLast /\ QueueInOrder
      /\ ReplayCurrent /\ ShownCurrent /\ HistoryCurrent /\ PassedUnsent /\ ArrivesInOrder
  BY DEF ConsoleInv
<1>1. pub' = pub /\ late' = late /\ Down
  BY DEF Break
<1>2. /\ link' = "down" /\ wire' = << >> /\ queue' = << >> /\ breaks' \in 0..MaxBreaks
      /\ missed \subseteq missed' /\ missed' \subseteq Msgs
      /\ \A k \in Msgs : Carries(k) /\ Passed(k) => k \in missed'
      /\ \A k : ~InWire(k)' /\ ~InQueue(k)' /\ ~Carries(k)'
      /\ UNCHANGED <<store, since, history, shown, cursor, sent, dropped, skipped>>
  BY <1>1, DownParts
<1>3. \A k : /\ Pending(k)' <=> Pending(k)
             /\ Newest(k)' <=> Newest(k)
  BY <1>1, <1>2 DEF Pending, Newest
<1>4. Lost' = Lost
  BY <1>1, <1>2 DEF Lost
<1>5. ConsoleTypeOK'
  <2>1. Len(wire') <= ReplayPage /\ Len(queue') <= QueueSize /\ wire' \in Seq(Event) /\ queue' \in Seq(Event \cup {Resync})
    BY <1>2, EmptySequence, ConsoleConstants
  <2> QED BY <1>0, <1>1, <1>2, <2>1 DEF ConsoleTypeOK
<1>6. OnTheWay' /\ ReplayInOrder'
  BY <1>0, <1>1, <1>2 DEF OnTheWay, ReplayInOrder
<1>7. NewestComesLast' /\ QueueInOrder' /\ ReplayCurrent'
  BY <1>0, <1>2, <1>3 DEF NewestComesLast, QueueInOrder, ReplayCurrent
<1>8. ShownCurrent'
  <2>1. \A k \in DOMAIN store : shown[k] > 0 => k \in Msgs /\ Passed(k)
    BY <1>0, ConsoleParts DEF OnTheWay, Passed
  <2> QED BY <1>0, <1>2, <1>3, <1>4, <2>1 DEF ShownCurrent
<1>9. HistoryCurrent'
  <2>1. \A k \in DOMAIN history.msgs : k \in Msgs /\ Passed(k)
    BY <1>0, HistoryParts DEF Passed
  <2> QED BY <1>0, <1>2, <1>3, <1>4, <2>1 DEF HistoryCurrent
<1>10. PassedUnsent' /\ ArrivesInOrder'
  BY <1>0, <1>2, <1>3, <1>4 DEF PassedUnsent, ArrivesInOrder
<1> QED BY <1>5, <1>6, <1>7, <1>8, <1>9, <1>10 DEF ConsoleInv

\* A restart takes what the writers had to publish too.
LEMMA RestartKeeps ==
    ASSUME ConsoleInv, Restart
    PROVE  ConsoleInv'
<1>0. /\ ConsoleTypeOK /\ OnTheWay /\ ReplayInOrder /\ NewestComesLast /\ QueueInOrder
      /\ ReplayCurrent /\ ShownCurrent /\ HistoryCurrent /\ PassedUnsent /\ ArrivesInOrder
  BY DEF ConsoleInv
<1>1. /\ pub' = [w \in Writers |-> Nothing] /\ Down
      /\ missed' = missed \cup {m \in Carried \cup Unsent : Passed(m)}
      /\ late' = late \cup {pub[w].m : w \in {x \in Writers : Overtaken(x)}}
  BY DEF Restart
<1>2. /\ link' = "down" /\ wire' = << >> /\ queue' = << >> /\ breaks' \in 0..MaxBreaks
      /\ missed \subseteq missed' /\ missed' \subseteq Msgs
      /\ \A k \in Msgs : Carries(k) /\ Passed(k) => k \in missed'
      /\ \A k : ~InWire(k)' /\ ~InQueue(k)' /\ ~Carries(k)'
      /\ UNCHANGED <<store, since, history, shown, cursor, sent, dropped, skipped>>
  BY <1>1, DownParts
<1>3. Nothing.m = 0 /\ (\A k \in Msgs : k # 0) /\ \A w \in Writers : pub'[w].m = 0
  BY <1>0, <1>1, ConsoleParts DEF Nothing
<1>4. \A k \in Msgs : ~Pending(k)'
  BY <1>3 DEF Pending
<1>5. \A k \in Msgs : Newest(k) /\ Passed(k) => k \in missed'
  <2>1. \A k \in Msgs : Newest(k) => k \in Unsent
    BY <1>3 DEF Newest, Unsent
  <2> QED BY <1>1, <2>1
<1>6. /\ late \subseteq late' /\ late' \subseteq Msgs /\ Lost \subseteq Lost' /\ late' \subseteq Lost'
      /\ \A w \in Writers : Overtaken(w) => pub[w].m \in late'
  <2>1. late \subseteq Msgs
    BY <1>0 DEF ConsoleTypeOK
  <2>2. \A w \in Writers : Overtaken(w) => pub[w].m \in Msgs
    <3>1. \A w \in Writers : pub[w] # Nothing => pub[w].m \in Msgs
      <4>1. \A w \in Writers : /\ pub[w].m \in Nat /\ (pub[w].m > 0 => pub[w].m \in Msgs)
                               /\ pub[w].m = 0 => pub[w] = Nothing
        BY <1>0, ConsoleParts
      <4> QED BY <4>1
    <3> QED BY <3>1 DEF Overtaken
  <2> QED BY <1>1, <1>2, <2>1, <2>2 DEF Lost
<1>7. ConsoleTypeOK'
  <2>1. Len(wire') <= ReplayPage /\ Len(queue') <= QueueSize /\ wire' \in Seq(Event) /\ queue' \in Seq(Event \cup {Resync})
    BY <1>2, EmptySequence, ConsoleConstants
  <2>2. pub' \in [Writers -> Event \cup {Nothing}]
    BY <1>1
  <2> QED BY <1>0, <1>2, <1>6, <2>1, <2>2 DEF ConsoleTypeOK
<1>8. OnTheWay'
  BY <1>0, <1>2, <1>3 DEF OnTheWay
<1>9. ReplayInOrder' /\ QueueInOrder' /\ ReplayCurrent'
  BY <1>2 DEF ReplayInOrder, QueueInOrder, ReplayCurrent
<1>10. NewestComesLast'
  <2>1. \A k \in DOMAIN store : k \in Msgs
    BY <1>0, ConsoleParts
  <2> QED BY <1>2, <1>4, <2>1 DEF NewestComesLast
<1>11. ShownCurrent'
  <2>1. \A k \in DOMAIN store : shown[k] > 0 => k \in Msgs /\ Passed(k)
    BY <1>0, ConsoleParts DEF OnTheWay, Passed
  <2> QED BY <1>0, <1>2, <1>5, <1>6, <2>1 DEF ShownCurrent
<1>12. HistoryCurrent'
  <2>1. \A k \in DOMAIN history.msgs : k \in Msgs /\ Passed(k)
    BY <1>0, HistoryParts DEF Passed
  <2> QED BY <1>0, <1>2, <1>5, <1>6, <2>1 DEF HistoryCurrent
<1>13. PassedUnsent'
  <2> SUFFICES ASSUME NEW k \in DOMAIN store, k <= cursor, shown[k] = 0, k \notin Lost' \cup skipped
               PROVE  FALSE
    BY <1>2 DEF PassedUnsent
  <2>1. k \in Msgs
    BY <1>0, ConsoleParts
  <2>2. sent[k] = 0 /\ Pending(k) /\ \E j \in Msgs : j > k /\ sent[j] > 0
    BY <1>0, <1>6 DEF PassedUnsent
  <2>3. PICK w \in Writers : pub[w].m = k
    BY <2>2 DEF Pending
  <2>4. Overtaken(w)
    BY <1>3, <2>1, <2>2, <2>3 DEF Overtaken
  <2> QED BY <1>6, <2>3, <2>4
<1>14. ArrivesInOrder'
  BY <1>2 DEF ArrivesInOrder
<1> QED BY <1>7, <1>8, <1>9, <1>10, <1>11, <1>12, <1>13, <1>14 DEF ConsoleInv

\* A function on 1..k is a sequence of length k.
LEMMA FunctionIsSeq ==
    ASSUME NEW S, NEW k \in Nat, NEW f \in [1..k -> S]
    PROVE  f \in Seq(S) /\ Len(f) = k
<1>1. f \in Seq(S)
  OBVIOUS
<1>2. DOMAIN f = 1..Len(f) /\ Len(f) \in Nat /\ DOMAIN f = 1..k
  BY <1>1
<1>3. Len(f) = k
  BY <1>2
<1> QED BY <1>1, <1>3

\* The history answer holds the first messages as they are stored.
LEMMA ReadHistoryKeeps ==
    ASSUME ConsoleInv, ReadHistory
    PROVE  ConsoleInv'
<1>0. /\ ConsoleTypeOK /\ OnTheWay /\ ReplayInOrder /\ NewestComesLast /\ QueueInOrder
      /\ ReplayCurrent /\ ShownCurrent /\ HistoryCurrent /\ PassedUnsent /\ ArrivesInOrder
  BY DEF ConsoleInv
<1>1. /\ history' = [at |-> "read", msgs |-> [i \in DOMAIN list_messages(HistoryPage, 0) |-> store[i]]]
      /\ UNCHANGED <<store, pub, link, since, wire, queue, shown, cursor, breaks, sent, missed, dropped, late, skipped>>
  BY DEF ReadHistory, stream, client, causes
<1>2. PICK n \in Nat : n <= HistoryPage /\ n <= Len(store) /\ DOMAIN list_messages(HistoryPage, 0) = 1..n
  <2>1. Len(store) \in Nat /\ Len(store) - 0 = Len(store)
    BY <1>0, ConsoleParts
  <2>2. Min({HistoryPage, Len(store) - 0}) = IF HistoryPage <= Len(store) THEN HistoryPage ELSE Len(store)
    BY <2>1, MinOfTwo, ConsoleConstants
  <2>3. DOMAIN list_messages(HistoryPage, 0) = 1..Min({HistoryPage, Len(store) - 0})
    BY DEF list_messages
  <2> QED BY <2>1, <2>2, <2>3, ConsoleConstants
<1>3. history'.at = "read" /\ history'.msgs = [i \in 1..n |-> store[i]]
  BY <1>1, <1>2
<1>4. DOMAIN store = 1..Len(store) /\ Len(store) \in Nat /\ \A i \in DOMAIN store : store[i] \in 1..MaxVersion /\ store[i] \in Nat
  BY <1>0, ConsoleParts
<1>5. /\ history'.msgs \in Seq(1..MaxVersion) /\ Len(history'.msgs) = n /\ DOMAIN history'.msgs = 1..n
      /\ \A i \in 1..n : i \in DOMAIN store /\ history'.msgs[i] = store[i] /\ history'.msgs[i] <= store[i]
  <2>1. \A i \in 1..n : i \in DOMAIN store /\ store[i] \in 1..MaxVersion /\ store[i] <= store[i]
    <3> SUFFICES ASSUME NEW i \in 1..n
                 PROVE  i \in DOMAIN store /\ store[i] \in 1..MaxVersion /\ store[i] <= store[i]
      OBVIOUS
    <3>1. DOMAIN store = 1..Len(store) /\ Len(store) \in Nat
      BY <1>4
    <3>2. n \in Nat /\ n <= Len(store)
      BY <1>2
    <3>3. i \in 1..Len(store)
      BY <3>1, <3>2
    <3>4. i \in DOMAIN store
      BY <3>1, <3>3
    <3>5. store[i] \in 1..MaxVersion /\ store[i] \in Nat
      BY <1>4, <3>4
    <3>6. store[i] <= store[i]
      BY <3>5
    <3> QED BY <3>4, <3>5, <3>6
  <2>2. /\ history'.msgs \in [1..n -> 1..MaxVersion] /\ DOMAIN history'.msgs = 1..n
        /\ \A i \in 1..n : history'.msgs[i] = store[i]
    BY <1>3, <2>1
  <2>3. history'.msgs \in Seq(1..MaxVersion) /\ Len(history'.msgs) = n
    BY <1>2, <2>2, FunctionIsSeq
  <2> QED BY <2>1, <2>2, <2>3
<1>6. \A k : /\ InQueue(k)' <=> InQueue(k)
             /\ Carries(k)' <=> Carries(k)
             /\ Pending(k)' <=> Pending(k)
             /\ Newest(k)' <=> Newest(k)
  BY <1>1 DEF InQueue, InWire, Carries, Pending, Newest
<1>7. Lost' = Lost
  BY <1>1 DEF Lost
<1>8. ConsoleTypeOK'
  <2>1. UNCHANGED <<store, pub, link, since, wire, queue, shown, cursor, breaks, sent, missed, dropped, late, skipped>>
    BY <1>1
  <2>2. history'.at \in {"asked", "read", "applied"} /\ Len(history'.msgs) <= HistoryPage
    BY <1>2, <1>3, <1>5
  <2> QED BY <1>0, <2>1, <2>2 DEF ConsoleTypeOK
<1>9. OnTheWay' /\ ReplayInOrder'
  <2>1. UNCHANGED <<store, pub, link, since, wire, queue, shown, cursor, sent>>
    BY <1>1
  <2> QED BY <1>0, <1>5, <2>1 DEF OnTheWay, ReplayInOrder
<1>10. NewestComesLast' /\ QueueInOrder' /\ ReplayCurrent' /\ ShownCurrent'
  BY <1>0, <1>1, <1>6, <1>7 DEF NewestComesLast, QueueInOrder, ReplayCurrent, ShownCurrent
<1>11. HistoryCurrent'
  BY <1>1, <1>5 DEF HistoryCurrent
<1>12. PassedUnsent' /\ ArrivesInOrder'
  <2>1. \A k : InWire(k)' <=> InWire(k)
    BY <1>1 DEF InWire
  <2> QED BY <1>0, <1>1, <1>6, <1>7, <2>1 DEF PassedUnsent, ArrivesInOrder
<1> QED BY <1>8, <1>9, <1>10, <1>11, <1>12 DEF ConsoleInv

\* The history answer hides nothing newer than itself.
LEMMA ApplyHistoryKeeps ==
    ASSUME ConsoleInv, ApplyHistory
    PROVE  ConsoleInv'
<1>0. /\ ConsoleTypeOK /\ OnTheWay /\ ReplayInOrder /\ NewestComesLast /\ QueueInOrder
      /\ ReplayCurrent /\ ShownCurrent /\ HistoryCurrent /\ PassedUnsent /\ ArrivesInOrder
  BY DEF ConsoleInv
<1>1. /\ history' = [at |-> "applied", msgs |-> << >>]
      /\ shown' = [m \in Msgs |-> IF m \in DOMAIN history.msgs THEN Merged(m) ELSE shown[m]]
      /\ UNCHANGED <<store, pub, link, since, wire, queue, breaks, sent, missed, dropped, late, skipped>>
  BY DEF ApplyHistory, stream, causes
<1>2. history'.at = "applied" /\ history'.msgs = << >> /\ DOMAIN history'.msgs = {} /\ Len(history'.msgs) = 0
  BY <1>1
<1>3. /\ Len(history.msgs) \in Nat /\ DOMAIN history.msgs = 1..Len(history.msgs) /\ Len(history.msgs) <= Len(store)
      /\ DOMAIN history.msgs \subseteq DOMAIN store
      /\ \A m \in DOMAIN history.msgs : /\ m \in Msgs /\ history.msgs[m] \in 1..MaxVersion
                                        /\ history.msgs[m] \in Nat \ {0} /\ history.msgs[m] <= store[m]
  BY <1>0, HistoryParts
<1>4. /\ cursor \in Nat /\ cursor <= Len(store) /\ Len(store) \in Nat /\ since \in Nat /\ since <= cursor
      /\ \A m \in Msgs : shown[m] \in 0..MaxVersion /\ shown[m] \in Nat /\ m \in Nat
  BY <1>0, ConsoleParts
<1>5. /\ cursor' = IF cursor >= Len(history.msgs) THEN cursor ELSE Len(history.msgs)
      /\ cursor' \in 0..Len(store) /\ cursor <= cursor'
  <2>1. cursor' = Max({cursor, Len(history.msgs)})
    BY DEF ApplyHistory
  <2>2. cursor' = IF cursor >= Len(history.msgs) THEN cursor ELSE Len(history.msgs)
    BY <1>3, <1>4, <2>1, MaxOfTwo
  <2> QED BY <1>3, <1>4, <2>2
<1>6. \A m \in DOMAIN history.msgs :
          /\ shown'[m] \in {shown[m], history.msgs[m]} /\ shown'[m] > 0
          /\ shown'[m] # shown[m] => shown[m] \in {0, 1} /\ shown'[m] = history.msgs[m]
  <2> SUFFICES ASSUME NEW m \in DOMAIN history.msgs
               PROVE  /\ shown'[m] \in {shown[m], history.msgs[m]} /\ shown'[m] > 0
                      /\ shown'[m] # shown[m] => shown[m] \in {0, 1} /\ shown'[m] = history.msgs[m]
    OBVIOUS
  <2>1. m \in Msgs /\ history.msgs[m] \in Nat \ {0} /\ shown[m] \in Nat
    BY <1>3, <1>4
  <2>2. shown'[m] = IF shown[m] = 0 \/ (m \in Replies /\ shown[m] = 1) THEN history.msgs[m] ELSE shown[m]
    BY <1>1, <2>1 DEF Merged
  <2> QED BY <2>1, <2>2
<1>7. \A m \in Msgs : m \notin DOMAIN history.msgs => shown'[m] = shown[m]
  BY <1>1
<1>8. \A m \in Msgs : shown[m] > 0 => shown'[m] > 0
  BY <1>6, <1>7
<1>9. \A m \in Msgs : m <= cursor' => m <= cursor \/ shown'[m] > 0
  <2> SUFFICES ASSUME NEW m \in Msgs, m <= cursor', ~(m <= cursor)
               PROVE  shown'[m] > 0
    OBVIOUS
  <2>1. m \in Nat \ {0}
    BY <1>0, ConsoleParts
  <2>2. m \in DOMAIN history.msgs
    BY <1>3, <1>4, <1>5, <2>1
  <2> QED BY <1>6, <2>2
<1>10. \A k : /\ InQueue(k)' <=> InQueue(k)
              /\ InWire(k)' <=> InWire(k)
              /\ Carries(k)' <=> Carries(k)
              /\ Pending(k)' <=> Pending(k)
              /\ Newest(k)' <=> Newest(k)
  BY <1>1 DEF InQueue, InWire, Carries, Pending, Newest
<1>11. Lost' = Lost
  BY <1>1 DEF Lost
<1>12. ConsoleTypeOK'
  <2>1. UNCHANGED <<store, pub, link, since, wire, queue, breaks, sent, missed, dropped, late, skipped>>
    BY <1>1
  <2>2. shown' \in [Msgs -> 0..MaxVersion]
    <3>1. \A m \in Msgs : (IF m \in DOMAIN history.msgs THEN Merged(m) ELSE shown[m]) \in 0..MaxVersion
      <4>1. \A m \in DOMAIN history.msgs : history.msgs[m] \in 0..MaxVersion
        BY <1>3, ConsoleConstants
      <4> QED BY <1>4, <4>1 DEF Merged
    <3> QED BY <1>1, <3>1
  <2>3. since' \in 0..cursor'
    <3>1. since' = since /\ cursor <= cursor' /\ cursor' \in Nat
      BY <1>1, <1>4, <1>5
    <3> QED BY <1>4, <3>1
  <2>4. history'.at \in {"asked", "read", "applied"} /\ Len(history'.msgs) <= HistoryPage
    BY <1>2, ConsoleConstants
  <2> QED BY <1>0, <1>5, <2>1, <2>2, <2>3, <2>4 DEF ConsoleTypeOK
<1>13. OnTheWay'
  <2>1. \A m \in Msgs : shown'[m] > 0 => m <= cursor'
    <3> SUFFICES ASSUME NEW m \in Msgs, shown'[m] > 0
                 PROVE  m <= cursor'
      OBVIOUS
    <3>1. CASE m \in DOMAIN history.msgs
      BY <1>3, <1>4, <1>5, <3>1
    <3>2. CASE m \notin DOMAIN history.msgs
      <4>1. m <= cursor
        BY <1>0, <1>7, <3>2 DEF OnTheWay
      <4> QED BY <1>4, <1>5, <4>1
    <3> QED BY <3>1, <3>2
  <2>2. history'.msgs \in Seq(1..MaxVersion)
    BY <1>2, EmptySequence
  <2>3. UNCHANGED <<store, pub, link, since, wire, queue, sent>>
    BY <1>1
  <2> QED BY <1>0, <1>2, <2>1, <2>2, <2>3 DEF OnTheWay
<1>14. ReplayInOrder'
  <2>1. UNCHANGED <<link, since, wire>>
    BY <1>1
  <2> QED BY <1>0, <1>8, <1>9, <2>1 DEF ReplayInOrder
<1>15. NewestComesLast' /\ QueueInOrder' /\ ReplayCurrent'
  <2>1. UNCHANGED <<store, wire, queue, sent>>
    BY <1>1
  <2> QED BY <1>0, <1>10, <1>11, <2>1 DEF NewestComesLast, QueueInOrder, ReplayCurrent
<1>16. ShownCurrent'
  <2> SUFFICES ASSUME NEW k \in DOMAIN store, k \notin Lost \cup missed, ~Carries(k), shown'[k] > 0
               PROVE  Newest(k) \/ shown'[k] = store[k]
    BY <1>1, <1>10, <1>11 DEF ShownCurrent
  <2>1. k \in Msgs /\ store[k] \in Nat /\ shown[k] \in Nat
    BY <1>0, ConsoleParts
  <2>2. shown[k] > 0 => Newest(k) \/ shown[k] = store[k]
    BY <1>0 DEF ShownCurrent
  <2>3. CASE k \notin DOMAIN history.msgs
    BY <1>7, <2>1, <2>2, <2>3
  <2>4. CASE k \in DOMAIN history.msgs
    <3>1. CASE shown[k] = 0
      <4>1. shown'[k] = history.msgs[k]
        BY <1>6, <2>4, <3>1
      <4>2. Newest(k) \/ history.msgs[k] = store[k]
        BY <1>0, <2>4, <3>1 DEF HistoryCurrent
      <4> QED BY <4>1, <4>2
    <3>2. CASE shown[k] > 0 /\ shown'[k] = shown[k]
      BY <2>2, <3>2
    <3>3. CASE shown[k] > 0 /\ shown'[k] # shown[k]
      <4>1. shown[k] = 1 /\ shown'[k] = history.msgs[k]
        BY <1>6, <2>4, <3>3
      <4>2. history.msgs[k] \in Nat \ {0} /\ history.msgs[k] <= store[k]
        BY <1>3, <2>4
      <4> QED BY <2>1, <2>2, <4>1, <4>2
    <3> QED BY <2>1, <3>1, <3>2, <3>3
  <2> QED BY <2>3, <2>4
<1>17. HistoryCurrent'
  BY <1>2 DEF HistoryCurrent
<1>18. PassedUnsent'
  <2> SUFFICES ASSUME NEW k \in DOMAIN store, k <= cursor', shown'[k] = 0, k \notin Lost \cup skipped
               PROVE  sent[k] = 0 /\ Pending(k) /\ \E j \in Msgs : j > k /\ sent[j] > 0
    BY <1>1, <1>10, <1>11 DEF PassedUnsent
  <2>1. k \in Msgs
    BY <1>0, ConsoleParts
  <2>2. k <= cursor /\ k \notin DOMAIN history.msgs
    BY <1>6, <1>9, <2>1
  <2>3. shown[k] = 0
    BY <1>7, <2>1, <2>2
  <2> QED BY <1>0, <2>2, <2>3 DEF PassedUnsent
<1>19. ArrivesInOrder'
  <2> SUFFICES ASSUME link = "live", NEW k \in DOMAIN store, k > cursor', k \notin Lost \cup skipped, ~InWire(k)
               PROVE  \/ sent[k] = 0 /\ Pending(k)
                      \/ \E i \in DOMAIN queue : queue[i].m = k /\ \A j \in DOMAIN queue : j < i => queue[j].m <= k
    BY <1>1, <1>10, <1>11 DEF ArrivesInOrder
  <2>1. k > cursor
    <3>1. k \in Nat
      BY <1>0, ConsoleParts
    <3> QED BY <1>4, <1>5, <3>1
  <2> QED BY <1>0, <2>1 DEF ArrivesInOrder
<1> QED BY <1>12, <1>13, <1>14, <1>15, <1>16, <1>17, <1>18, <1>19 DEF ConsoleInv

\* The invariant reads nothing but the variables.
LEMMA ConsoleRests ==
    ASSUME ConsoleInv, UNCHANGED console
    PROVE  ConsoleInv'
<1>1. UNCHANGED <<store, pub, link, since, wire, queue, history, shown, cursor, breaks, sent, missed, dropped, late, skipped>>
  BY DEF console, stream, client, causes
<1>2. \A k : /\ InQueue(k)' <=> InQueue(k)
             /\ InWire(k)' <=> InWire(k)
             /\ Carries(k)' <=> Carries(k)
             /\ Pending(k)' <=> Pending(k)
             /\ Newest(k)' <=> Newest(k)
  BY <1>1 DEF InQueue, InWire, Carries, Pending, Newest
<1>3. Lost' = Lost
  BY <1>1 DEF Lost
<1>4. ConsoleTypeOK' /\ OnTheWay' /\ ReplayInOrder'
  BY <1>1 DEF ConsoleInv, ConsoleTypeOK, OnTheWay, ReplayInOrder
<1>5. NewestComesLast' /\ QueueInOrder' /\ ReplayCurrent'
  BY <1>1, <1>2, <1>3 DEF ConsoleInv, NewestComesLast, QueueInOrder, ReplayCurrent
<1>6. ShownCurrent' /\ HistoryCurrent' /\ PassedUnsent' /\ ArrivesInOrder'
  BY <1>1, <1>2, <1>3 DEF ConsoleInv, ShownCurrent, HistoryCurrent, PassedUnsent, ArrivesInOrder
<1> QED BY <1>4, <1>5, <1>6 DEF ConsoleInv

-----------------------------------------------------------------------------
(* The Console: the results.                                                *)

\* The invariant of the Console holds in every state.
THEOREM ConsoleInvariance == ConsoleSpec => []ConsoleInv
<1>1. ConsoleInv /\ [ConsoleNext]_console => ConsoleInv'
  <2> SUFFICES ASSUME ConsoleInv, [ConsoleNext]_console
               PROVE  ConsoleInv'
    OBVIOUS
  <2>1. ASSUME NEW w \in Writers, Add(w)
        PROVE  ConsoleInv'
    <3>1. Len(store) + 1 \in Msgs
      <4>1. Len(store) \in Nat /\ Len(store) < MaxMsgs
        <5>1. ConsoleTypeOK
          BY DEF ConsoleInv
        <5>2. Len(store) \in Nat
          BY <5>1, ConsoleParts
        <5> QED BY <2>1, <5>2 DEF Add
      <4> QED BY <4>1, ConsoleConstants DEF Msgs
    <3> QED BY <2>1, <3>1, WritesKeep
  <2>2. ASSUME NEW w \in Writers, NEW m \in Cards, Rewrite(w, m)
        PROVE  ConsoleInv'
    BY <2>2, WritesKeep, ConsoleConstants
  <2>3. ASSUME NEW w \in Writers, Publishes(w)
        PROVE  ConsoleInv'
    BY <2>3, PublishesKeep
  <2>4. ASSUME NEW w \in Writers,
               PublishToNobody(w) \/ Publish(w) \/ PublishSyncFull(w) \/ PublishFull(w)
        PROVE  ConsoleInv'
    BY <2>3, <2>4 DEF Publishes
  <2>5. CASE Connect
    BY <2>5, ConnectKeeps
  <2>6. CASE ReadReplay
    BY <2>6, ReadReplayKeeps
  <2>7. CASE DeliverReplay
    BY <2>7, DeliverReplayKeeps
  <2>8. CASE DeliverLive
    BY <2>8, DeliverLiveKeeps
  <2>9. CASE Break
    BY <2>9, BreakKeeps
  <2>10. CASE Restart
    BY <2>10, RestartKeeps
  <2>11. CASE ReadHistory
    BY <2>11, ReadHistoryKeeps
  <2>12. CASE ApplyHistory
    BY <2>12, ApplyHistoryKeeps
  <2>13. CASE UNCHANGED console
    BY <2>13, ConsoleRests
  <2> QED BY <2>1, <2>2, <2>4, <2>5, <2>6, <2>7, <2>8, <2>9, <2>10, <2>11, <2>12, <2>13 DEF ConsoleNext
<1> QED BY <1>1, ConsoleStarts, PTL DEF ConsoleSpec

\* Store, bus, stream and hook have their types, for any number of writers and messages.
THEOREM ConsoleTyped == ConsoleSpec => []ConsoleTypeOK
<1>1. ConsoleInv => ConsoleTypeOK
  BY DEF ConsoleInv
<1> QED BY <1>1, ConsoleInvariance, PTL

\* Once nothing is on its way to an open stream, the Console shows every message as it is
\* stored, except those that one of the recorded causes took.
THEOREM ConsoleShowsTheStore == ConsoleSpec => []ShownAsStored
<1>1. ASSUME ConsoleInv, Quiet
      PROVE  \A m \in DOMAIN store :
                 /\ shown[m] = 0 => m \in late \cup dropped \cup skipped
                 /\ shown[m] # 0 /\ shown[m] # store[m] => m \in late \cup dropped \cup missed
  <2>1. /\ ConsoleTypeOK /\ NewestComesLast /\ ShownCurrent /\ PassedUnsent /\ ArrivesInOrder
        /\ link = "live" /\ wire = << >> /\ queue = << >> /\ \A w \in Writers : pub[w] = Nothing
    BY <1>1 DEF ConsoleInv, Quiet
  <2>2. DOMAIN wire = {} /\ DOMAIN queue = {}
    BY <2>1
  <2> SUFFICES ASSUME NEW m \in DOMAIN store
               PROVE  /\ shown[m] = 0 => m \in late \cup dropped \cup skipped
                      /\ shown[m] # 0 /\ shown[m] # store[m] => m \in late \cup dropped \cup missed
    OBVIOUS
  <2>3. m \in Nat /\ m # 0 /\ shown[m] \in Nat /\ cursor \in Nat
    BY <2>1, ConsoleParts
  <2>4. ~Pending(m) /\ ~Newest(m) /\ ~InWire(m) /\ ~InQueue(m) /\ ~Carries(m)
    <3>1. Nothing.m = 0
      BY DEF Nothing
    <3> QED BY <2>1, <2>2, <2>3, <3>1 DEF Pending, Newest, InWire, InQueue, Carries
  <2>5. ASSUME shown[m] = 0
        PROVE  m \in Lost \cup skipped
    <3>1. CASE m <= cursor
      BY <2>1, <2>4, <2>5, <3>1 DEF PassedUnsent
    <3>2. CASE m > cursor
      BY <2>1, <2>2, <2>4, <3>2 DEF ArrivesInOrder
    <3> QED BY <2>3, <3>1, <3>2
  <2>6. ASSUME shown[m] # 0, shown[m] # store[m]
        PROVE  m \in Lost \cup missed
    <3>1. shown[m] > 0
      BY <2>3, <2>6
    <3> QED BY <2>1, <2>4, <2>6, <3>1 DEF ShownCurrent
  <2> QED BY <2>5, <2>6 DEF Lost
<1>2. ConsoleInv => ShownAsStored
  <2> SUFFICES ASSUME ConsoleInv, Quiet, NEW m \in DOMAIN store
               PROVE  CASE shown[m] = 0        -> m \in late \cup dropped \cup skipped
                        [] shown[m] = store[m] -> TRUE
                        [] OTHER               -> m \in late \cup dropped \cup missed
    BY Zenon DEF ShownAsStored
  <2>1. store[m] # 0
    BY ConsoleParts DEF ConsoleInv
  <2> QED BY <1>1, <2>1
<1> QED BY <1>2, ConsoleInvariance, PTL

=============================================================================
