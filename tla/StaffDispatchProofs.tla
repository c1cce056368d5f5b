------------------------ MODULE StaffDispatchProofs ------------------------
(***************************************************************************)
(* StaffDispatch for every set of keys, requests and payloads: an answer   *)
(* names the request's own launched run, a reservation has one live        *)
(* holder, a second run under a key has its reason on record, and a        *)
(* receipt is kept.                                                        *)
(***************************************************************************)
EXTENDS StaffDispatch, TLAPS

-----------------------------------------------------------------------------
(* The inductive invariant.                                                 *)

\* runs is a table from operations to statuses.
RunsTyped == runs \in [DOMAIN runs -> {"queued", "launched", "failed"}]

\* A request in flight carries an operation minted for its key and payload, and
\* nobody else carries it.
OpsAreOwn ==
    \A q \in Reqs : req[q].at \in InFlight =>
        /\ req[q].op \in DOMAIN ops
        /\ ops[req[q].op] = [key |-> KeyOf[q], payload |-> req[q].payload]
        /\ \A p \in Reqs \ {q} : req[p].at \in InFlight => req[p].op # req[q].op

\* A stored row names an operation of its key and payload, the newest one of
\* the key; a lapsed row's operation is on record as lapsed, an expired one's
\* as closed, and a receipt's run was launched.
RowsAreOwn ==
    \A k \in Keys : row[k].state # "none" =>
        /\ row[k].op \in DOMAIN ops
        /\ ops[row[k].op] = [key |-> k, payload |-> row[k].payload]
        /\ \A o \in DOMAIN ops : ops[o].key = k => o <= row[k].op
        /\ row[k].state = "pending" /\ row[k].age = "lapsed" => row[k].op \in lapsed
        /\ row[k].age = "expired" => row[k].op \in closed
        /\ row[k].state = "done" => row[k].op \in DOMAIN runs /\ runs[row[k].op] = "launched"

\* A request in flight holds the reservation of its key, or its lease ran out.
HoldsOrLapsed ==
    \A q \in Reqs : req[q].at \in InFlight =>
        \/ /\ row[KeyOf[q]].state = "pending" /\ row[KeyOf[q]].op = req[q].op
           /\ row[KeyOf[q]].age # "expired"
        \/ req[q].op \in lapsed

\* Where a handler is tells what has become of its run: nothing before the
\* dispatch, admitted only while it is launched, and launched by the peer or
\* here once there is something to record.
RunFollowsHandler ==
    \A q \in Reqs :
        /\ req[q].at = "dispatch" => req[q].op \notin sent /\ req[q].op \notin DOMAIN runs
        /\ req[q].at = "launch" => req[q].op \in DOMAIN runs /\ runs[req[q].op] = "queued"
        /\ req[q].at = "await" => (req[q].op \in DOMAIN runs => runs[req[q].op] = "launched")
        /\ req[q].at = "record" => req[q].op \in DOMAIN runs /\ runs[req[q].op] = "launched"

\* An operation is its key's current one, or there is a reason why it is not.
Explained(o) ==
    LET k == ops[o].key
    IN  \/ row[k].state # "none" /\ row[k].op = o
        \/ o \in closed
        \/ o \in lapsed /\ k \in safe

OpsExplained == \A o \in DOMAIN ops : Explained(o)

IInv == /\ TypeOK /\ RunsTyped /\ OpsAreOwn /\ RowsAreOwn /\ HoldsOrLapsed
        /\ RunFollowsHandler /\ OpsExplained /\ AnswerIsOwnRun

-----------------------------------------------------------------------------
(* Facts about the tables.                                                  *)

\* Minting an operation id adds the next number and keeps the older entries.
LEMMA MintedOps ==
    ASSUME NEW S, NEW s \in Seq(S), NEW e \in S
    PROVE  /\ Append(s, e) \in Seq(S) /\ Len(Append(s, e)) = Len(s) + 1
           /\ DOMAIN Append(s, e) = DOMAIN s \cup {Len(s) + 1}
           /\ Append(s, e)[Len(s) + 1] = e
           /\ \A o \in DOMAIN s : /\ o \in Nat /\ o <= Len(s) /\ s[o] \in S
                                  /\ Append(s, e)[o] = s[o]
  OBVIOUS

\* An operation has a key and a payload.
LEMMA OpsTyped ==
    ASSUME TypeOK
    PROVE  \A o \in DOMAIN ops : ops[o].key \in Keys /\ ops[o].payload \in Payloads
<1> DEFINE S == [key : Keys, payload : Payloads]
<1>1. ops \in Seq(S)
  BY DEF TypeOK
<1> HIDE DEF S
<1>2. \A o \in DOMAIN ops : ops[o] \in S
  BY <1>1
<1> QED BY <1>2 DEF S

\* Failures of the store are counted up to their bound.
LEMMA FaultsTyped ==
    ASSUME faults \in 0..MaxFaults, NEW stored, StoreAnswers(stored)
    PROVE  faults' \in 0..MaxFaults
<1>1. faults' = faults \/ (faults < MaxFaults /\ faults' = faults + 1)
  BY DEF StoreAnswers
<1> QED BY <1>1, BoundsAssumption

\* Nothing is stored and nobody is in flight at the start.
LEMMA IInit == Init => IInv
<1> SUFFICES ASSUME Init PROVE IInv
  OBVIOUS
<1>1. /\ \A q \in Reqs : req[q] = Waiting
      /\ \A k \in Keys : row[k] = NoRow
      /\ DOMAIN runs = {} /\ DOMAIN ops = {} /\ ops \in Seq([key : Keys, payload : Payloads])
      /\ Len(ops) = 0
  BY DEF Init
<1>2. TypeOK
  BY <1>1, BoundsAssumption DEF Init, TypeOK, Waiting, NoOp, InFlight, Answered
<1>3. RunsTyped
  BY DEF Init, RunsTyped
<1>4. OpsAreOwn /\ HoldsOrLapsed /\ RunFollowsHandler /\ AnswerIsOwnRun
  BY <1>1 DEF OpsAreOwn, HoldsOrLapsed, RunFollowsHandler, AnswerIsOwnRun, Waiting, InFlight
<1>5. RowsAreOwn /\ OpsExplained
  BY <1>1 DEF RowsAreOwn, OpsExplained, NoRow
<1> QED BY <1>2, <1>3, <1>4, <1>5 DEF IInv

\* The stages of a request's own state.
LEMMA ReqRecord ==
    ASSUME TypeOK, NEW q \in Reqs
    PROVE  /\ req[q] \in [at : {"new"} \cup InFlight \cup Answered, op : {NoOp} \cup Ops,
                          run : {NoOp} \cup Ops, payload : {NoOp} \cup Payloads]
           /\ KeyOf[q] \in Keys
           /\ \A p \in Payloads, o \in Ops, r \in {NoOp} \cup Ops,
                 at \in {"new"} \cup InFlight \cup Answered :
                 [at |-> at, op |-> o, run |-> r, payload |-> p] \in
                   [at : {"new"} \cup InFlight \cup Answered, op : {NoOp} \cup Ops,
                    run : {NoOp} \cup Ops, payload : {NoOp} \cup Payloads]
  BY ReqsAssumption DEF TypeOK

-----------------------------------------------------------------------------
(* dispatch_staff_run.                                                      *)

\* A step of a handler that changes no more than its own run and its own
\* message to the peer keeps the invariant.
LEMMA HandlerMoves ==
    ASSUME IInv, NEW q \in Reqs, NEW stage \in InFlight, req[q].at \in InFlight, At(q, stage),
           UNCHANGED <<safe, row, ops, lapsed, closed>>, faults' \in 0..MaxFaults,
           RunsTyped', DOMAIN runs' \subseteq DOMAIN ops, sent' \subseteq DOMAIN ops,
           \A o \in DOMAIN ops \ {req[q].op} :
              /\ o \in DOMAIN runs' <=> o \in DOMAIN runs
              /\ o \in DOMAIN runs => runs'[o] = runs[o]
              /\ o \in sent' <=> o \in sent,
           \A o \in DOMAIN runs : runs[o] = "launched" => o \in DOMAIN runs' /\ runs'[o] = "launched",
           stage # "dispatch",
           stage = "launch" => req[q].op \in DOMAIN runs' /\ runs'[req[q].op] = "queued",
           stage = "await" => (req[q].op \in DOMAIN runs' => runs'[req[q].op] = "launched"),
           stage = "record" => req[q].op \in DOMAIN runs' /\ runs'[req[q].op] = "launched"
    PROVE  IInv'
<1>1. /\ \A p \in Reqs \ {q} : req'[p] = req[p]
      /\ req'[q].at = stage /\ req'[q].op = req[q].op
      /\ req'[q].run = req[q].run /\ req'[q].payload = req[q].payload
  BY DEF IInv, TypeOK, At
<1>2. TypeOK'
  <2>1. req' \in [Reqs -> [at : {"new"} \cup InFlight \cup Answered, op : {NoOp} \cup Ops,
                           run : {NoOp} \cup Ops, payload : {NoOp} \cup Payloads]]
    BY DEF IInv, TypeOK, At
  <2> QED BY <2>1 DEF IInv, TypeOK, RunsTyped
<1>3. OpsAreOwn'
  BY <1>1 DEF IInv, OpsAreOwn
<1>4. RowsAreOwn'
  BY DEF IInv, RowsAreOwn
<1>5. HoldsOrLapsed'
  BY <1>1 DEF IInv, HoldsOrLapsed
<1>6. RunFollowsHandler'
  <2> SUFFICES ASSUME NEW p \in Reqs
               PROVE  RunFollowsHandler!(p)'
    BY DEF RunFollowsHandler
  <2>1. CASE p = q
    BY <1>1, <2>1
  <2>2. CASE p # q
    <3>1. req'[p] = req[p] /\ RunFollowsHandler!(p)
      BY <1>1, <2>2 DEF IInv, RunFollowsHandler
    <3>2. req[p].at \in {"dispatch", "launch", "await", "record"} =>
             req[p].op \in DOMAIN ops \ {req[q].op}
      BY <2>2 DEF IInv, OpsAreOwn, InFlight
    <3> QED BY <3>1, <3>2
  <2> QED BY <2>1, <2>2
<1>7. OpsExplained'
  BY DEF IInv, OpsExplained, Explained
<1>8. AnswerIsOwnRun'
  BY <1>1 DEF IInv, AnswerIsOwnRun, InFlight
<1> QED BY <1>2, <1>3, <1>4, <1>5, <1>6, <1>7, <1>8, RunsTyped' DEF IInv

\* Admitting a run keeps the runs there are.
LEMMA AdmittedRuns ==
    ASSUME RunsTyped, NEW o, NEW status \in {"queued", "launched"}
    PROVE  /\ DOMAIN Admitted(o, status) = DOMAIN runs \cup {o}
           /\ \A p \in DOMAIN runs : Admitted(o, status)[p] = runs[p]
           /\ o \notin DOMAIN runs => Admitted(o, status)[o] = status
           /\ Admitted(o, status) \in [DOMAIN Admitted(o, status) -> {"queued", "launched", "failed"}]
  BY DEF RunsTyped, Admitted

\* Every step of a dispatch keeps the invariant.
LEMMA DispatchKeeps ==
    ASSUME IInv, NEW q \in Reqs,
           \/ Refuse(q) \/ Admit(q) \/ Forward(q) \/ AdmittedOnly(q)
           \/ \E ok \in BOOLEAN : Launch(q, ok) \/ ForwardReturns(q, ok)
    PROVE  IInv'
<1> USE DEF InFlight
<1>1. /\ RunsTyped /\ DOMAIN runs \subseteq DOMAIN ops /\ sent \subseteq DOMAIN ops
      /\ faults \in 0..MaxFaults
      /\ req[q].at \in InFlight => req[q].op \in DOMAIN ops
      /\ RunFollowsHandler!(q)
  BY DEF IInv, TypeOK, OpsAreOwn, RunFollowsHandler
<1>2. CASE Refuse(q)
  BY <1>1, <1>2, HandlerMoves DEF Refuse, RunsTyped
<1>3. CASE Admit(q)
  <2>1. req[q].at = "dispatch" /\ runs' = Admitted(req[q].op, "queued") /\ At(q, "launch")
        /\ UNCHANGED <<safe, row, sent, ops, lapsed, closed, faults>>
    BY <1>3 DEF Admit
  <2>2. RunsTyped' /\ DOMAIN runs' = DOMAIN runs \cup {req[q].op}
        /\ (\A p \in DOMAIN runs : runs'[p] = runs[p]) /\ runs'[req[q].op] = "queued"
    <3> DEFINE R == Admitted(req[q].op, "queued")
    <3>1. /\ DOMAIN R = DOMAIN runs \cup {req[q].op}
          /\ \A p \in DOMAIN runs : R[p] = runs[p]
          /\ R[req[q].op] = "queued"
          /\ R \in [DOMAIN R -> {"queued", "launched", "failed"}]
      BY <1>1, <2>1, AdmittedRuns
    <3> QED BY <2>1, <3>1 DEF RunsTyped
  <2> QED BY <1>1, <2>1, <2>2, HandlerMoves
<1>4. CASE Forward(q)
  BY <1>1, <1>4, HandlerMoves DEF Forward, RunsTyped
<1>5. CASE AdmittedOnly(q)
  <2>1. faults' \in 0..MaxFaults
    BY <1>1, <1>5, BoundsAssumption DEF AdmittedOnly, StoreAnswers
  <2> QED BY <1>1, <1>5, <2>1, HandlerMoves DEF AdmittedOnly, RunsTyped
<1>6. ASSUME NEW ok \in BOOLEAN, Launch(q, ok) PROVE IInv'
  <2>1. req[q].at = "launch" /\ UNCHANGED <<safe, row, sent, ops, lapsed, closed, faults>>
        /\ req[q].op \in DOMAIN runs /\ runs[req[q].op] = "queued"
    BY <1>1, <1>6 DEF Launch
  <2>2. PICK status \in {"launched", "failed"}, stage \in {"record", "raise"} :
          /\ runs' = [runs EXCEPT ![req[q].op] = status] /\ At(q, stage)
          /\ stage = "record" => status = "launched"
    BY <1>6 DEF Launch
  <2>3. RunsTyped' /\ DOMAIN runs' = DOMAIN runs /\ runs'[req[q].op] = status
        /\ \A o \in DOMAIN runs \ {req[q].op} : runs'[o] = runs[o]
    BY <1>1, <2>1, <2>2 DEF RunsTyped
  <2> QED BY <1>1, <2>1, <2>2, <2>3, HandlerMoves
<1>7. ASSUME NEW ok \in BOOLEAN, ForwardReturns(q, ok) PROVE IInv'
  <2>1. PICK stage \in {"record", "raise"} :
          At(q, stage) /\ (stage = "record" => req[q].op \in DOMAIN runs)
    BY <1>7 DEF ForwardReturns
  <2> QED BY <1>1, <1>7, <2>1, HandlerMoves DEF ForwardReturns, RunsTyped
<1> QED BY <1>2, <1>3, <1>4, <1>5, <1>6, <1>7

\* So does the peer, whether or not the origin still waits for it.
LEMMA PeerKeeps ==
    ASSUME IInv, NEW o \in Ops, PeerRuns(o)
    PROVE  IInv'
<1>1. /\ o \in sent /\ o \in DOMAIN ops /\ sent' = sent \ {o}
      /\ runs' = Admitted(o, "launched")
      /\ UNCHANGED <<safe, row, req, ops, lapsed, closed, faults>>
  BY DEF PeerRuns, IInv, TypeOK
<1>2. /\ RunsTyped' /\ DOMAIN runs' = DOMAIN runs \cup {o}
      /\ \A p \in DOMAIN runs : runs'[p] = runs[p]
      /\ o \notin DOMAIN runs => runs'[o] = "launched"
  <2>1. RunsTyped
    BY DEF IInv
  <2>2. runs' = Admitted(o, "launched")
    BY <1>1
  <2>3. /\ DOMAIN runs' = DOMAIN runs \cup {o}
        /\ \A p \in DOMAIN runs : runs'[p] = runs[p]
        /\ o \notin DOMAIN runs => runs'[o] = "launched"
        /\ runs' \in [DOMAIN runs' -> {"queued", "launched", "failed"}]
    BY <2>1, <2>2, AdmittedRuns
  <2> QED BY <2>3 DEF RunsTyped
<1>3. TypeOK'
  BY <1>1, <1>2 DEF IInv, TypeOK, RunsTyped
<1>4. OpsAreOwn' /\ HoldsOrLapsed' /\ OpsExplained'
  BY <1>1 DEF IInv, OpsAreOwn, HoldsOrLapsed, OpsExplained, Explained
<1>5. RowsAreOwn'
  BY <1>1, <1>2 DEF IInv, RowsAreOwn
<1>6. RunFollowsHandler'
  BY <1>1, <1>2 DEF IInv, RunFollowsHandler
<1>7. AnswerIsOwnRun'
  BY <1>1, <1>2 DEF IInv, AnswerIsOwnRun
<1> QED BY <1>2, <1>3, <1>4, <1>5, <1>6, <1>7 DEF IInv

-----------------------------------------------------------------------------
(* reserve.                                                                 *)

\* A new reservation, of a free key or a lapsed one, makes its operation the
\* key's newest; the operation it replaces is closed, or lapsed and retaken.
LEMMA AcquireKeeps ==
    ASSUME IInv, NEW q \in Reqs, NEW payload \in PayloadsOf[q], Acquire(q, payload)
    PROVE  IInv'
<1> DEFINE k == KeyOf[q]
           o == Len(ops) + 1
           r == [state |-> "pending", op |-> o, payload |-> payload, age |-> "live"]
           c == [at |-> "dispatch", op |-> o, run |-> NoOp, payload |-> payload]
<1>1. /\ req[q].at = "new" /\ o <= MaxOps
      /\ ops' = Append(ops, [key |-> k, payload |-> payload])
      /\ row' = [row EXCEPT ![k] = r] /\ req' = [req EXCEPT ![q] = c]
      /\ UNCHANGED <<safe, runs, sent, lapsed, closed, faults>>
  BY DEF Acquire
<1>2. k \in Keys /\ payload \in Payloads /\ o \in Ops /\ o \in Nat
  <2>1. k \in Keys /\ payload \in Payloads
    BY ReqsAssumption DEF Payloads
  <2>2. Len(ops) \in Nat
    BY DEF IInv, TypeOK
  <2> QED BY <1>1, <2>1, <2>2, BoundsAssumption DEF Ops
<1>3. /\ ops' \in Seq([key : Keys, payload : Payloads]) /\ Len(ops') = o
      /\ DOMAIN ops' = DOMAIN ops \cup {o} /\ o \notin DOMAIN ops
      /\ ops'[o] = [key |-> k, payload |-> payload]
      /\ \A x \in DOMAIN ops : x \in Nat /\ x < o /\ ops'[x] = ops[x]
      /\ \A x \in DOMAIN ops : ops[x] \in [key : Keys, payload : Payloads]
  <2> DEFINE S == [key : Keys, payload : Payloads]
             e == [key |-> k, payload |-> payload]
  <2>1. ops \in Seq(S) /\ e \in S /\ Len(ops) \in Nat /\ ops' = Append(ops, e)
    BY <1>1, <1>2 DEF IInv, TypeOK
  <2> HIDE DEF S, e
  <2>2. /\ ops' \in Seq(S) /\ Len(ops') = o
        /\ DOMAIN ops' = DOMAIN ops \cup {o} /\ o \notin DOMAIN ops
        /\ ops'[o] = e
        /\ \A x \in DOMAIN ops : x \in Nat /\ x < o /\ ops'[x] = ops[x]
        /\ \A x \in DOMAIN ops : ops[x] \in S
    BY <2>1, MintedOps
  <2> QED BY <2>2 DEF S, e
<1>4. /\ \A j \in Keys : row'[j] = IF j = k THEN r ELSE row[j]
      /\ \A p \in Reqs : req'[p] = IF p = q THEN c ELSE req[p]
  BY <1>1, <1>2 DEF IInv, TypeOK
<1>5. TypeOK'
  <2>1. r \in Row /\ row' \in [Keys -> {NoRow} \cup Row]
    BY <1>1, <1>2 DEF IInv, TypeOK, Row
  <2>2. req' \in [Reqs -> [at : {"new"} \cup InFlight \cup Answered, op : {NoOp} \cup Ops,
                           run : {NoOp} \cup Ops, payload : {NoOp} \cup Payloads]]
    BY <1>1, <1>2 DEF IInv, TypeOK, InFlight, NoOp
  <2> QED BY <1>1, <1>3, <2>1, <2>2 DEF IInv, TypeOK
<1>6. RunsTyped'
  BY <1>1 DEF IInv, RunsTyped
<1>7. OpsAreOwn'
  <2> HIDE DEF o
  <2> SUFFICES ASSUME NEW p \in Reqs PROVE OpsAreOwn!(p)'
    BY DEF OpsAreOwn
  <2>1. OpsAreOwn!(p) /\ req'[q] = c /\ req'[p] = IF p = q THEN c ELSE req[p]
    BY <1>4 DEF IInv, OpsAreOwn
  <2>2. \A x \in Reqs \ {q} : req'[x].at \in InFlight => req'[x].op # o
    <3>1. \A x \in Reqs : req[x].at \in InFlight => req[x].op \in DOMAIN ops
      BY DEF IInv, OpsAreOwn
    <3>2. \A x \in Reqs \ {q} : req'[x] = req[x]
      BY <1>4
    <3> QED BY <1>3, <3>1, <3>2
  <2>3. CASE p = q
    BY <1>3, <2>1, <2>2, <2>3
  <2>4. CASE p # q
    <3>1. /\ req'[p] = req[p]
          /\ \A x \in Reqs \ {q} : req'[x] = req[x]
      BY <1>4, <2>1, <2>4
    <3> QED BY <1>3, <2>1, <2>2, <2>4, <3>1
  <2> QED BY <2>3, <2>4
<1>8. RowsAreOwn'
  BY <1>1, <1>2, <1>3, <1>4 DEF IInv, RowsAreOwn
<1>9. HoldsOrLapsed'
  <2>1. ASSUME NEW p \in Reqs \ {q}, req[p].at \in InFlight, KeyOf[p] = k
        PROVE  req[p].op \in lapsed
    BY <1>1, <1>2, <2>1
       DEF Acquire, Free, Lapsed, NoRow, IInv, HoldsOrLapsed, RowsAreOwn
  <2> QED BY <1>1, <1>2, <1>4, <2>1, ReqsAssumption DEF IInv, HoldsOrLapsed
<1>10. RunFollowsHandler'
  BY <1>1, <1>3, <1>4 DEF IInv, TypeOK, RunFollowsHandler
<1>11. OpsExplained'
  <2> SUFFICES ASSUME NEW x \in DOMAIN ops' PROVE Explained(x)'
    BY DEF OpsExplained
  <2>1. CASE x = o
    BY <1>2, <1>3, <1>4, <2>1 DEF Explained
  <2>2. CASE x \in DOMAIN ops
    <3>1. Explained(x) /\ ops'[x] = ops[x] /\ ops[x].key \in Keys
      BY <1>3, <2>2 DEF IInv, OpsExplained
    <3>2. CASE ops[x].key # k
      BY <1>1, <1>4, <3>1, <3>2 DEF Explained
    <3>3. CASE ops[x].key = k
      <4>1. row[k].state # "none" /\ row[k].op = x => x \in closed \/ (x \in lapsed /\ k \in safe)
        BY <1>2 DEF Acquire, Free, Lapsed, RetakeAllowed, IInv, RowsAreOwn
      <4> QED BY <1>1, <3>1, <3>3, <4>1 DEF Explained
    <3> QED BY <3>2, <3>3
  <2> QED BY <1>3, <2>1, <2>2
<1>12. AnswerIsOwnRun'
  BY <1>1, <1>3, <1>4 DEF IInv, TypeOK, AnswerIsOwnRun
<1> QED BY <1>5, <1>6, <1>7, <1>8, <1>9, <1>10, <1>11, <1>12 DEF IInv

\* A request that is told the outcome at once has read a receipt, or learns
\* that there is none.
LEMMA ReplayKeeps ==
    ASSUME IInv, NEW q \in Reqs, NEW payload \in PayloadsOf[q], Replay(q, payload)
    PROVE  IInv'
<1> DEFINE k == KeyOf[q]
<1>1. /\ req[q].at = "new" /\ k \in Keys /\ payload \in Payloads
      /\ UNCHANGED <<safe, row, runs, sent, ops, lapsed, closed, faults>>
  BY ReqsAssumption DEF Replay, Payloads
<1>2. PICK c \in [at : {"new"} \cup InFlight \cup Answered, op : {NoOp} \cup Ops,
                  run : {NoOp} \cup Ops, payload : {NoOp} \cup Payloads] :
        /\ req' = [req EXCEPT ![q] = c] /\ c.at \in Answered
        /\ c.at = "done" => /\ c.run \in DOMAIN runs /\ runs[c.run] = "launched"
                            /\ ops[c.run] = [key |-> k, payload |-> c.payload]
  <2>1. CASE At(q, "conflict") \/ At(q, "unknown")
    <3>1. PICK stage \in {"conflict", "unknown"} : At(q, stage)
      BY <2>1
    <3> DEFINE c == [req[q] EXCEPT !.at = stage]
    <3>2. /\ c \in [at : {"new"} \cup InFlight \cup Answered, op : {NoOp} \cup Ops,
                   run : {NoOp} \cup Ops, payload : {NoOp} \cup Payloads]
          /\ c.at = stage
      BY <3>1 DEF IInv, TypeOK, Answered
    <3>3. req' = [req EXCEPT ![q] = c]
      BY <3>1 DEF At, IInv, TypeOK
    <3> HIDE DEF c
    <3> QED BY <3>1, <3>2, <3>3 DEF Answered
  <2>2. CASE /\ ~Free(k) /\ ~Mismatched(k, payload) /\ row[k].state = "done"
             /\ req' = [req EXCEPT ![q] = [at |-> "done", op |-> NoOp, run |-> row[k].op, payload |-> payload]]
    <3>1. row[k] \in Row
      BY <1>1, <2>2 DEF IInv, TypeOK, NoRow
    <3> DEFINE d == [at |-> "done", op |-> NoOp, run |-> row[k].op, payload |-> payload]
    <3>2. d \in [at : {"new"} \cup InFlight \cup Answered, op : {NoOp} \cup Ops,
                 run : {NoOp} \cup Ops, payload : {NoOp} \cup Payloads]
      BY <1>1, <3>1 DEF Row, Answered
    <3>3. /\ row[k].op \in DOMAIN runs /\ runs[row[k].op] = "launched"
          /\ ops[row[k].op] = [key |-> k, payload |-> payload]
      BY <1>1, <2>2 DEF IInv, RowsAreOwn, Mismatched
    <3>4. /\ d.at = "done" /\ d.run = row[k].op /\ d.payload = payload
          /\ req' = [req EXCEPT ![q] = d]
      BY <2>2
    <3> HIDE DEF d
    <3> QED BY <3>2, <3>3, <3>4 DEF Answered
  <2> QED BY <2>1, <2>2 DEF Replay
<1>3. \A p \in Reqs : req'[p] = IF p = q THEN c ELSE req[p]
  BY <1>2 DEF IInv, TypeOK
<1>4. TypeOK' /\ RunsTyped' /\ RowsAreOwn' /\ OpsExplained'
  BY <1>1, <1>2 DEF IInv, TypeOK, RunsTyped, RowsAreOwn, OpsExplained, Explained
<1>5. OpsAreOwn' /\ HoldsOrLapsed' /\ RunFollowsHandler'
  BY <1>1, <1>2, <1>3 DEF IInv, OpsAreOwn, HoldsOrLapsed, RunFollowsHandler, InFlight, Answered
<1>6. AnswerIsOwnRun'
  BY <1>1, <1>2, <1>3 DEF IInv, AnswerIsOwnRun
<1> QED BY <1>4, <1>5, <1>6 DEF IInv

-----------------------------------------------------------------------------
(* The end of a request, the clock, a restart.                              *)

\* The receipt goes into the request's own row; the answer names its own run.
LEMMA RecordKeeps ==
    ASSUME IInv, NEW q \in Reqs, NEW stored \in BOOLEAN, Record(q, stored)
    PROVE  IInv'
<1> DEFINE k == KeyOf[q]
           c == [req[q] EXCEPT !.at = "done", !.op = NoOp, !.run = req[q].op]
<1>1. /\ req[q].at = "record" /\ k \in Keys /\ req' = [req EXCEPT ![q] = c]
      /\ UNCHANGED <<safe, runs, sent, ops, lapsed, closed>> /\ faults' \in 0..MaxFaults
  <2>1. k \in Keys
    BY ReqsAssumption
  <2>2. faults' \in 0..MaxFaults
    BY FaultsTyped DEF Record, IInv, TypeOK
  <2> QED BY <2>1, <2>2 DEF Record
<1>2. /\ c \in [at : {"new"} \cup InFlight \cup Answered, op : {NoOp} \cup Ops,
               run : {NoOp} \cup Ops, payload : {NoOp} \cup Payloads]
      /\ c.at = "done" /\ c.run = req[q].op /\ c.payload = req[q].payload
  BY DEF IInv, TypeOK, Answered
<1>3. /\ req[q].op \in DOMAIN runs /\ runs[req[q].op] = "launched"
      /\ ops[req[q].op] = [key |-> k, payload |-> req[q].payload]
  BY <1>1 DEF IInv, RunFollowsHandler, OpsAreOwn, InFlight
<1>4. /\ \A p \in Reqs : req'[p] = IF p = q THEN c ELSE req[p]
      /\ req' \in [Reqs -> [at : {"new"} \cup InFlight \cup Answered, op : {NoOp} \cup Ops,
                            run : {NoOp} \cup Ops, payload : {NoOp} \cup Payloads]]
  BY <1>1, <1>2 DEF IInv, TypeOK
<1> HIDE DEF c
<1>5. /\ row' \in [Keys -> {NoRow} \cup Row]
      /\ \A j \in Keys :
           \/ row'[j] = row[j]
           \/ /\ j = k /\ row[j].state = "pending" /\ row[j].op = req[q].op
              /\ row'[j].state = "done" /\ row'[j].age = "live"
              /\ row'[j].op = row[j].op /\ row'[j].payload = row[j].payload
  <2>1. CASE row' = row
    BY <2>1 DEF IInv, TypeOK
  <2>2. CASE row' # row
    <3>1. /\ row[k].state = "pending" /\ row[k].op = req[q].op
          /\ row' = [row EXCEPT ![k] = [row[k] EXCEPT !.state = "done", !.age = "live"]]
      BY <1>1, <2>2 DEF Record, complete, OwnsRow, IInv, TypeOK
    <3>2. row[k] \in Row
      BY <1>1, <3>1 DEF IInv, TypeOK, NoRow
    <3> QED BY <1>1, <3>1, <3>2 DEF IInv, TypeOK, Row
  <2> QED BY <2>1, <2>2
<1>6. TypeOK' /\ RunsTyped'
  BY <1>1, <1>4, <1>5 DEF IInv, TypeOK, RunsTyped
<1>7. OpsAreOwn' /\ RunFollowsHandler'
  BY <1>1, <1>2, <1>4 DEF IInv, OpsAreOwn, RunFollowsHandler, InFlight
<1>8. RowsAreOwn'
  BY <1>1, <1>3, <1>5 DEF IInv, RowsAreOwn
<1>9. HoldsOrLapsed'
  <2> SUFFICES ASSUME NEW p \in Reqs, req'[p].at \in InFlight
               PROVE  HoldsOrLapsed!(p)!2'
    BY DEF HoldsOrLapsed
  <2>1. p # q /\ req'[p] = req[p] /\ KeyOf[p] \in Keys
    BY <1>2, <1>4, ReqsAssumption DEF InFlight
  <2>2. HoldsOrLapsed!(p)!2 /\ req[p].op # req[q].op
    BY <1>1, <2>1 DEF IInv, HoldsOrLapsed, OpsAreOwn, InFlight
  <2>3. row'[KeyOf[p]] = row[KeyOf[p]] \/ row[KeyOf[p]].op = req[q].op
    BY <1>5, <2>1
  <2> QED BY <1>1, <2>1, <2>2, <2>3
<1>10. OpsExplained'
  <2>1. \A x \in DOMAIN ops : ops[x].key \in Keys
    BY OpsTyped DEF IInv
  <2> QED BY <1>1, <1>5, <2>1 DEF IInv, OpsExplained, Explained
<1>11. AnswerIsOwnRun'
  BY <1>1, <1>2, <1>3, <1>4 DEF IInv, AnswerIsOwnRun
<1> QED BY <1>6, <1>7, <1>8, <1>9, <1>10, <1>11 DEF IInv

\* A release frees the request's own row and no other.
LEMMA ReleaseKeeps ==
    ASSUME IInv, NEW q \in Reqs, NEW stored \in BOOLEAN, Release(q, stored)
    PROVE  IInv'
<1> DEFINE k == KeyOf[q]
           c == [Waiting EXCEPT !.at = "failed"]
<1>1. /\ req[q].at = "raise" /\ k \in Keys /\ req' = [req EXCEPT ![q] = c]
      /\ UNCHANGED <<safe, runs, sent, ops, lapsed>> /\ faults' \in 0..MaxFaults
  <2>1. k \in Keys
    BY ReqsAssumption
  <2>2. faults' \in 0..MaxFaults
    BY FaultsTyped DEF Release, IInv, TypeOK
  <2> QED BY <2>1, <2>2 DEF Release
<1>2. /\ c \in [at : {"new"} \cup InFlight \cup Answered, op : {NoOp} \cup Ops,
               run : {NoOp} \cup Ops, payload : {NoOp} \cup Payloads]
      /\ c.at = "failed"
  BY DEF Waiting, Answered, NoOp
<1>3. req[q].op \in DOMAIN ops
  BY <1>1 DEF IInv, OpsAreOwn, InFlight
<1>4. /\ \A p \in Reqs : req'[p] = IF p = q THEN c ELSE req[p]
      /\ req' \in [Reqs -> [at : {"new"} \cup InFlight \cup Answered, op : {NoOp} \cup Ops,
                            run : {NoOp} \cup Ops, payload : {NoOp} \cup Payloads]]
  BY <1>1, <1>2 DEF IInv, TypeOK
<1> HIDE DEF c
<1>5. /\ row' \in [Keys -> {NoRow} \cup Row]
      /\ closed \subseteq closed' /\ closed' \subseteq DOMAIN ops
      /\ \A j \in Keys :
           \/ row'[j] = row[j]
           \/ /\ j = k /\ row[j].state = "pending" /\ row[j].op = req[q].op
              /\ row'[j] = NoRow /\ row[j].op \in closed'
  <2>1. closed \subseteq closed' /\ closed' \subseteq DOMAIN ops
    BY <1>3 DEF Release, IInv, TypeOK
  <2>2. CASE row' = row
    BY <2>1, <2>2 DEF IInv, TypeOK
  <2>3. CASE row' # row
    <3>1. /\ row[k].state = "pending" /\ row[k].op = req[q].op
          /\ row' = [row EXCEPT ![k] = NoRow] /\ closed' = closed \cup {req[q].op}
      BY <1>1, <2>3 DEF Release, release, OwnsRow, IInv, TypeOK
    <3> QED BY <1>1, <2>1, <3>1 DEF IInv, TypeOK
  <2> QED BY <2>2, <2>3
<1>6. TypeOK' /\ RunsTyped'
  BY <1>1, <1>4, <1>5 DEF IInv, TypeOK, RunsTyped
<1>7. OpsAreOwn' /\ RunFollowsHandler'
  BY <1>1, <1>2, <1>4 DEF IInv, OpsAreOwn, RunFollowsHandler, InFlight
<1>8. RowsAreOwn'
  BY <1>1, <1>5 DEF IInv, RowsAreOwn, NoRow
<1>9. HoldsOrLapsed'
  <2> SUFFICES ASSUME NEW p \in Reqs, req'[p].at \in InFlight
               PROVE  HoldsOrLapsed!(p)!2'
    BY DEF HoldsOrLapsed
  <2>1. p # q /\ req'[p] = req[p] /\ KeyOf[p] \in Keys
    BY <1>2, <1>4, ReqsAssumption DEF InFlight
  <2>2. HoldsOrLapsed!(p)!2 /\ req[p].op # req[q].op
    BY <1>1, <2>1 DEF IInv, HoldsOrLapsed, OpsAreOwn, InFlight
  <2>3. row'[KeyOf[p]] = row[KeyOf[p]] \/ row[KeyOf[p]].op = req[q].op
    BY <1>5, <2>1
  <2> QED BY <1>1, <2>1, <2>2, <2>3
<1>10. OpsExplained'
  <2>1. \A x \in DOMAIN ops : ops[x].key \in Keys
    BY OpsTyped DEF IInv
  <2> QED BY <1>1, <1>5, <2>1 DEF IInv, OpsExplained, Explained
<1>11. AnswerIsOwnRun'
  BY <1>1, <1>2, <1>4 DEF IInv, AnswerIsOwnRun
<1> QED BY <1>6, <1>7, <1>8, <1>9, <1>10, <1>11 DEF IInv

\* Sending a request again starts it afresh.
LEMMA ResendKeeps ==
    ASSUME IInv, NEW q \in Reqs, Resend(q)
    PROVE  IInv'
<1>1. /\ req' = [req EXCEPT ![q] = Waiting]
      /\ UNCHANGED <<safe, row, runs, sent, ops, lapsed, closed, faults>>
  BY DEF Resend
<1>2. Waiting \in [at : {"new"} \cup InFlight \cup Answered, op : {NoOp} \cup Ops,
                   run : {NoOp} \cup Ops, payload : {NoOp} \cup Payloads]
  BY DEF Waiting, NoOp
<1>3. Waiting.at = "new" /\ \A p \in Reqs : req'[p] = IF p = q THEN Waiting ELSE req[p]
  BY <1>1 DEF IInv, TypeOK, Waiting
<1>4. TypeOK' /\ RunsTyped' /\ RowsAreOwn' /\ OpsExplained'
  BY <1>1, <1>2 DEF IInv, TypeOK, RunsTyped, RowsAreOwn, OpsExplained, Explained
<1>5. OpsAreOwn' /\ HoldsOrLapsed' /\ RunFollowsHandler'
  BY <1>1, <1>3 DEF IInv, OpsAreOwn, HoldsOrLapsed, RunFollowsHandler, InFlight
<1>6. AnswerIsOwnRun'
  BY <1>1, <1>3 DEF IInv, AnswerIsOwnRun
<1> QED BY <1>4, <1>5, <1>6 DEF IInv

\* A lapse changes the age of one row and puts its operation on record.
LEMMA LapseKeeps ==
    ASSUME IInv, NEW k \in Keys, Lapse(k)
    PROVE  IInv'
<1>1. /\ row[k].state = "pending" /\ row[k].age = "live"
      /\ row' = [row EXCEPT ![k].age = "lapsed"] /\ lapsed' = lapsed \cup {row[k].op}
      /\ UNCHANGED <<safe, req, runs, sent, ops, closed, faults>>
  BY DEF Lapse
<1>2. row[k] \in Row /\ row[k].op \in DOMAIN ops
  <2>1. row[k].op \in DOMAIN ops
    BY <1>1 DEF IInv, RowsAreOwn
  <2>2. row[k] \in Row
    BY <1>1 DEF IInv, TypeOK, NoRow
  <2> QED BY <2>1, <2>2
<1>3. /\ \A j \in Keys \ {k} : row'[j] = row[j]
      /\ row'[k].state = row[k].state /\ row'[k].op = row[k].op
      /\ row'[k].payload = row[k].payload /\ row'[k].age = "lapsed"
      /\ row' \in [Keys -> {NoRow} \cup Row]
  BY <1>1, <1>2 DEF IInv, TypeOK, Row
<1>4. TypeOK' /\ RunsTyped'
  BY <1>1, <1>2, <1>3 DEF IInv, TypeOK, RunsTyped
<1>5. OpsAreOwn' /\ RunFollowsHandler' /\ AnswerIsOwnRun'
  BY <1>1 DEF IInv, OpsAreOwn, RunFollowsHandler, AnswerIsOwnRun
<1>6. RowsAreOwn'
  BY <1>1, <1>3 DEF IInv, RowsAreOwn
<1>7. HoldsOrLapsed'
  BY <1>1, <1>3, ReqsAssumption DEF IInv, HoldsOrLapsed
<1>8. OpsExplained'
  BY <1>1, <1>3, OpsTyped DEF IInv, OpsExplained, Explained
<1> QED BY <1>4, <1>5, <1>6, <1>7, <1>8 DEF IInv

\* A row expires when no request of its key is in flight; its operation is closed.
LEMMA ExpireKeeps ==
    ASSUME IInv, NEW k \in Keys, Expire(k)
    PROVE  IInv'
<1>1. /\ row[k].state # "none"
      /\ \A q \in Reqs : KeyOf[q] = k => req[q].at \notin InFlight
      /\ row' = [row EXCEPT ![k].age = "expired"] /\ closed' = closed \cup {row[k].op}
      /\ UNCHANGED <<safe, req, runs, sent, ops, lapsed, faults>>
  BY DEF Expire
<1>2. row[k] \in Row /\ row[k].op \in DOMAIN ops
  <2>1. row[k].op \in DOMAIN ops
    BY <1>1 DEF IInv, RowsAreOwn
  <2>2. row[k] \in Row
    BY <1>1 DEF IInv, TypeOK, NoRow
  <2> QED BY <2>1, <2>2
<1>3. /\ \A j \in Keys \ {k} : row'[j] = row[j]
      /\ row'[k].state = row[k].state /\ row'[k].op = row[k].op
      /\ row'[k].payload = row[k].payload /\ row'[k].age = "expired"
      /\ row' \in [Keys -> {NoRow} \cup Row]
  BY <1>1, <1>2 DEF IInv, TypeOK, Row
<1>4. TypeOK' /\ RunsTyped'
  BY <1>1, <1>2, <1>3 DEF IInv, TypeOK, RunsTyped
<1>5. OpsAreOwn' /\ RunFollowsHandler' /\ AnswerIsOwnRun'
  BY <1>1 DEF IInv, OpsAreOwn, RunFollowsHandler, AnswerIsOwnRun
<1>6. RowsAreOwn'
  BY <1>1, <1>3 DEF IInv, RowsAreOwn
<1>7. HoldsOrLapsed'
  BY <1>1, <1>3, ReqsAssumption DEF IInv, HoldsOrLapsed
<1>8. OpsExplained'
  BY <1>1, <1>3, OpsTyped DEF IInv, OpsExplained, Explained
<1> QED BY <1>4, <1>5, <1>6, <1>7, <1>8 DEF IInv

\* A restart takes every request out of flight and no launched run back.
LEMMA CrashKeeps ==
    ASSUME IInv, Crash
    PROVE  IInv'
<1>1. /\ faults < MaxFaults /\ faults' = faults + 1
      /\ req' = [q \in Reqs |-> IF req[q].at \in InFlight THEN Waiting ELSE req[q]]
      /\ runs' = [o \in DOMAIN runs |-> IF runs[o] = "queued" THEN "failed" ELSE runs[o]]
      /\ UNCHANGED <<safe, row, sent, ops, lapsed, closed>>
  BY DEF Crash
<1>2. Waiting \in [at : {"new"} \cup InFlight \cup Answered, op : {NoOp} \cup Ops,
                   run : {NoOp} \cup Ops, payload : {NoOp} \cup Payloads]
      /\ Waiting.at = "new"
  BY DEF Waiting, NoOp
<1>3. \A q \in Reqs : req'[q].at \notin InFlight /\ (req'[q].at = "done" => req'[q] = req[q])
  BY <1>1, <1>2 DEF InFlight
<1>4. /\ DOMAIN runs' = DOMAIN runs /\ RunsTyped'
      /\ \A o \in DOMAIN runs : runs[o] = "launched" => runs'[o] = "launched"
  BY <1>1 DEF IInv, RunsTyped
<1>5. faults' \in 0..MaxFaults
  BY <1>1, BoundsAssumption DEF IInv, TypeOK
<1>6. req' \in [Reqs -> [at : {"new"} \cup InFlight \cup Answered, op : {NoOp} \cup Ops,
                         run : {NoOp} \cup Ops, payload : {NoOp} \cup Payloads]]
  BY <1>1, <1>2 DEF IInv, TypeOK
<1>7. TypeOK'
  BY <1>1, <1>4, <1>5, <1>6 DEF IInv, TypeOK, RunsTyped
<1>8. OpsAreOwn' /\ HoldsOrLapsed' /\ RunFollowsHandler'
  BY <1>3 DEF OpsAreOwn, HoldsOrLapsed, RunFollowsHandler, InFlight
<1>9. RowsAreOwn' /\ OpsExplained'
  BY <1>1, <1>4 DEF IInv, RowsAreOwn, OpsExplained, Explained
<1>10. AnswerIsOwnRun'
  BY <1>1, <1>3, <1>4 DEF IInv, AnswerIsOwnRun
<1> QED BY <1>4, <1>7, <1>8, <1>9, <1>10 DEF IInv

\* Every step keeps the invariant.
LEMMA IStep == IInv /\ [Next]_vars => IInv'
<1> SUFFICES ASSUME IInv, [Next]_vars PROVE IInv'
  OBVIOUS
<1>1. ASSUME NEW q \in Reqs,
             \/ Handle(q) \/ Refuse(q) \/ Launch(q, FALSE) \/ AdmittedOnly(q)
             \/ ForwardReturns(q, TRUE) \/ Record(q, FALSE) \/ Release(q, FALSE) \/ Resend(q)
      PROVE  IInv'
  BY <1>1, AcquireKeeps, ReplayKeeps, DispatchKeeps, RecordKeeps, ReleaseKeeps, ResendKeeps
     DEF Handle
<1>2. CASE UNCHANGED vars
  BY <1>2 DEF vars, IInv, TypeOK, RunsTyped, OpsAreOwn, RowsAreOwn, HoldsOrLapsed,
              RunFollowsHandler, OpsExplained, Explained, AnswerIsOwnRun
<1> QED BY <1>1, <1>2, PeerKeeps, LapseKeeps, ExpireKeeps, CrashKeeps DEF Next

\* The invariant holds throughout.
LEMMA Invariance == Spec => []IInv
  BY IInit, IStep, PTL DEF Spec

-----------------------------------------------------------------------------
(* The results.                                                             *)

\* The rows, the requests, the runs and the operation ids keep their types.
THEOREM TypeCorrect == Spec => []TypeOK
<1>1. IInv => TypeOK
  BY DEF IInv
<1> QED BY <1>1, Invariance, PTL

\* What _handle_idempotent_post answers, first hand or replayed from a receipt,
\* names a launched run of the request's own key and payload.
THEOREM AnswersNameOwnRun == Spec => []AnswerIsOwnRun
<1>1. IInv => AnswerIsOwnRun
  BY DEF IInv
<1> QED BY <1>1, Invariance, PTL

\* Two requests are in flight under one key only after a lease ran out: complete
\* and release never touch a successor's reservation.
THEOREM ReservationIsExclusive == Spec => []OneLiveHolder
<1>1. IInv => OneLiveHolder
  <2> SUFFICES ASSUME IInv, NEW p \in Reqs, NEW q \in Reqs, p # q, KeyOf[p] = KeyOf[q],
                      req[p].at \in InFlight, req[q].at \in InFlight
               PROVE  req[p].op \in lapsed \/ req[q].op \in lapsed
    BY DEF OneLiveHolder
  <2>1. req[p].op # req[q].op
    BY DEF IInv, OpsAreOwn
  <2>2. HoldsOrLapsed!(p)!2 /\ HoldsOrLapsed!(q)!2
    BY DEF IInv, HoldsOrLapsed
  <2> QED BY <2>1, <2>2
<1> QED BY <1>1, Invariance, PTL

\* A key starts a second run only after the first operation was released, is a
\* day old, or lapsed where the endpoint lets a lapsed reservation be retaken.
THEOREM SecondRunsHaveAReason == Spec => []SecondRunExplained
<1>1. IInv => SecondRunExplained
  <2> SUFFICES ASSUME IInv, NEW o \in DOMAIN runs, NEW p \in DOMAIN runs,
                      o < p, ops[o].key = ops[p].key
               PROVE  o \in closed \/ (o \in lapsed /\ ops[o].key \in safe)
    BY DEF SecondRunExplained
  <2>1. o \in DOMAIN ops /\ p \in DOMAIN ops /\ o \in Nat /\ p \in Nat
    BY DEF IInv, TypeOK
  <2>2. ~(row[ops[o].key].state # "none" /\ row[ops[o].key].op = o)
    <3> SUFFICES ASSUME row[ops[o].key].state # "none", row[ops[o].key].op = o PROVE FALSE
      OBVIOUS
    <3>1. ops[o].key \in Keys
      BY <2>1, OpsTyped DEF IInv
    <3>2. p <= o
      BY <2>1, <3>1 DEF IInv, RowsAreOwn
    <3> QED BY <2>1, <3>2
  <2> QED BY <2>1, <2>2 DEF IInv, OpsExplained, Explained
<1> QED BY <1>1, Invariance, PTL

\* A stored receipt is replayed unchanged until its 24 hours are over, whatever
\* late handlers of the same key do.
THEOREM ReceiptsAreKept == Spec => ReceiptKept
<1>1. IInv /\ [Next]_vars =>
        [\A k \in Keys : row[k].state = "done" /\ row[k].age = "live"
            => row'[k] \in {row[k], [row[k] EXCEPT !.age = "expired"]}]_vars
  <2> SUFFICES ASSUME IInv, [Next]_vars, NEW k \in Keys,
                      row[k].state = "done", row[k].age = "live"
               PROVE  row'[k] \in {row[k], [row[k] EXCEPT !.age = "expired"]}
    OBVIOUS
  <2>1. row \in [Keys -> {NoRow} \cup Row]
    BY DEF IInv, TypeOK
  <2>2. ASSUME NEW q \in Reqs, NEW payload \in PayloadsOf[q], Acquire(q, payload)
        PROVE  row'[k] = row[k]
    BY <2>1, <2>2 DEF Acquire, Free, Lapsed
  <2>3. ASSUME NEW q \in Reqs, NEW stored \in BOOLEAN,
               Record(q, stored) \/ Release(q, stored)
        PROVE  row'[k] = row[k]
    BY <2>1, <2>3 DEF Record, Release, complete, release, OwnsRow
  <2>4. ASSUME NEW j \in Keys, Lapse(j) \/ Expire(j)
        PROVE  row'[k] \in {row[k], [row[k] EXCEPT !.age = "expired"]}
    BY <2>1, <2>4 DEF Lapse, Expire
  <2>5. ASSUME row' = row
        PROVE  row'[k] = row[k]
    BY <2>5
  <2>6. ASSUME NEW q \in Reqs, Handle(q)
        PROVE  row'[k] = row[k]
    BY <2>2, <2>3, <2>6
       DEF Handle, Replay, Admit, Forward, Launch, ForwardReturns
  <2>7. ASSUME NEW q \in Reqs,
               \/ Refuse(q) \/ Launch(q, FALSE) \/ AdmittedOnly(q) \/ ForwardReturns(q, TRUE)
               \/ Resend(q)
        PROVE  row' = row
    BY <2>7 DEF Refuse, Launch, AdmittedOnly, ForwardReturns, Resend
  <2>8. ASSUME \/ Crash \/ UNCHANGED vars \/ \E o \in Ops : PeerRuns(o)
        PROVE  row' = row
    BY <2>8 DEF Crash, vars, PeerRuns
  <2> QED BY <2>3, <2>4, <2>5, <2>6, <2>7, <2>8 DEF Next
<1> QED BY <1>1, Invariance, PTL DEF Spec, ReceiptKept
=============================================================================
