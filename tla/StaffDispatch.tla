---------------------------- MODULE StaffDispatch ----------------------------
(***************************************************************************)
(* A staff run dispatched under an Idempotency-Key: the reservation store  *)
(* (idempotency.py), the gate around a mutating POST (staff_v1.py,         *)
(* _handle_idempotent_post; watch_tick.py follows the same steps) and the  *)
(* dispatch it guards (dispatch_service.py): refused, admitted here and    *)
(* then launched, or forwarded to a peer that admits it.                   *)
(*                                                                         *)
(* Operation ids are numbered as they are minted, and an operation's run   *)
(* has the operation's number (DispatchCommand.run_id).  The clock is left *)
(* out: a reservation may lapse, and a row expire, at any time a request   *)
(* can be that old.                                                        *)
(***************************************************************************)
EXTENDS Naturals, Sequences

CONSTANTS
    Keys,
    Reqs,          \* the clients' requests
    KeyOf,         \* a request's Idempotency-Key
    PayloadsOf,    \* the payloads a request may be sent with
    MaxOps,        \* bound: operation ids minted
    MaxFaults      \* bound: process stops and store failures

ASSUME ReqsAssumption   == KeyOf \in [Reqs -> Keys] /\ DOMAIN PayloadsOf = Reqs
ASSUME BoundsAssumption == MaxOps \in Nat /\ MaxFaults \in Nat

VARIABLES
    safe,     \* the keys of endpoints that pass takeover_safe (fixed)
    row,      \* per key: the idempotency_keys row
    req,      \* per request: where the handler is, its operation, the run it answered
    runs,     \* the admitted runs: operation -> status
    sent,     \* operations forwarded to the peer and not yet handled there
    ops,      \* the operations minted so far: key and payload
    lapsed,   \* operations whose lease ran out while pending (history)
    closed,   \* operations that were released or whose row expired (history)
    faults

vars == <<safe, row, req, runs, sent, ops, lapsed, closed, faults>>

NoOp  == 0
NoRow == [state |-> "none", age |-> "expired"]
Ops   == 1..MaxOps

InFlight == {"dispatch", "launch", "await", "record", "raise"}
Answered == {"done", "conflict", "unknown", "failed"}
Waiting  == [at |-> "new", op |-> NoOp, run |-> NoOp, payload |-> NoOp]

Payloads == UNION {PayloadsOf[q] : q \in Reqs}
Row == [state : {"pending", "done"}, op : Ops, payload : Payloads, age : {"live", "lapsed", "expired"}]

TypeOK ==
    /\ safe \subseteq Keys
    /\ row \in [Keys -> {NoRow} \cup Row]
    /\ req \in [Reqs -> [at : {"new"} \cup InFlight \cup Answered, op : {NoOp} \cup Ops,
                         run : {NoOp} \cup Ops, payload : {NoOp} \cup Payloads]]
    /\ ops \in Seq([key : Keys, payload : Payloads]) /\ Len(ops) <= MaxOps
    /\ DOMAIN runs \subseteq DOMAIN ops
    /\ \A o \in DOMAIN runs : runs[o] \in {"queued", "launched", "failed"}
    /\ sent \subseteq DOMAIN ops
    /\ lapsed \subseteq DOMAIN ops /\ closed \subseteq DOMAIN ops
    /\ faults \in 0..MaxFaults

Init ==
    /\ safe \in SUBSET Keys
    /\ row = [k \in Keys |-> NoRow]
    /\ req = [q \in Reqs |-> Waiting]
    /\ runs = << >>
    /\ sent = {}
    /\ ops = << >>
    /\ lapsed = {} /\ closed = {}
    /\ faults = 0

-----------------------------------------------------------------------------
(* reserve.                                                                 *)

At(q, stage) == req' = [req EXCEPT ![q].at = stage]

StoreAnswers(stored) ==
    IF stored THEN UNCHANGED faults ELSE faults < MaxFaults /\ faults' = faults + 1

\* Faulty variants: another payload under a used key is not noticed; a lapsed
\* reservation still counts as in progress; every endpoint lets a lapsed
\* reservation be taken over.
MismatchedNever(k, payload) == FALSE
LapsedNever(k) == FALSE
RetakeAllowedAlways(k) == TRUE

Free(k)   == row[k].age = "expired"  \* no row, or one that reserve deletes
Mismatched(k, payload) == row[k].payload # payload
Lapsed(k) == row[k].state = "pending" /\ row[k].age = "lapsed"
RetakeAllowed(k) == k \in safe

\* A new row, or a lapsed one taken over: with a fresh operation id either way.
Acquire(q, payload) ==
    LET k == KeyOf[q]
        o == Len(ops) + 1
    IN  /\ req[q].at = "new" /\ o <= MaxOps
        /\ \/ Free(k)
           \/ ~Free(k) /\ ~Mismatched(k, payload) /\ Lapsed(k) /\ RetakeAllowed(k)
        /\ ops' = Append(ops, [key |-> k, payload |-> payload])
        /\ row' = [row EXCEPT ![k] = [state |-> "pending", op |-> o, payload |-> payload, age |-> "live"]]
        /\ req' = [req EXCEPT ![q] = [at |-> "dispatch", op |-> o, run |-> NoOp, payload |-> payload]]
        /\ UNCHANGED <<safe, runs, sent, lapsed, closed, faults>>

\* The other answers of reserve: a replayed receipt, a reused key, an unknown
\* outcome.  A request told "in progress" is sent again, which changes nothing.
Replay(q, payload) ==
    LET k == KeyOf[q]
    IN  /\ req[q].at = "new" /\ ~Free(k)
        /\ \/ Mismatched(k, payload) /\ At(q, "conflict")
           \/ /\ ~Mismatched(k, payload) /\ row[k].state = "done"
              /\ req' = [req EXCEPT ![q] = [at |-> "done", op |-> NoOp, run |-> row[k].op, payload |-> payload]]
           \/ ~Mismatched(k, payload) /\ Lapsed(k) /\ ~RetakeAllowed(k) /\ At(q, "unknown")
        /\ UNCHANGED <<safe, row, runs, sent, ops, lapsed, closed, faults>>

-----------------------------------------------------------------------------
(* dispatch_staff_run.                                                      *)

\* A refusal: exclusion, claim, premise, budget, resources, audit, fence.
Refuse(q) ==
    /\ req[q].at = "dispatch"
    /\ At(q, "raise")
    /\ UNCHANGED <<safe, row, runs, sent, ops, lapsed, closed, faults>>

\* admit: a run with this id, unless the store has one.
Admitted(o, status) ==
    [p \in DOMAIN runs \cup {o} |-> IF p \in DOMAIN runs THEN runs[p] ELSE status]

Admit(q) ==
    /\ req[q].at = "dispatch"
    /\ runs' = Admitted(req[q].op, "queued")
    /\ At(q, "launch")
    /\ UNCHANGED <<safe, row, sent, ops, lapsed, closed, faults>>

\* The worker starts, or the run is left failed and named in the error.
Launch(q, ok) ==
    /\ req[q].at = "launch"
    /\ runs' = [runs EXCEPT ![req[q].op] = IF ok THEN "launched" ELSE "failed"]
    /\ At(q, IF ok THEN "record" ELSE "raise")
    /\ UNCHANGED <<safe, row, sent, ops, lapsed, closed, faults>>

\* The store fails between the two (a chain attempt, a claim label): the run
\* stays queued until the next start.
AdmittedOnly(q) ==
    /\ req[q].at = "launch" /\ StoreAnswers(FALSE)
    /\ At(q, "raise")
    /\ UNCHANGED <<safe, row, runs, sent, ops, lapsed, closed>>

Forward(q) ==
    /\ req[q].at = "dispatch"
    /\ sent' = sent \cup {req[q].op}
    /\ At(q, "await")
    /\ UNCHANGED <<safe, row, runs, ops, lapsed, closed, faults>>

\* The peer admits and launches the run of the operation it was sent,
\* whether or not the origin still waits.
PeerRuns(o) ==
    /\ o \in sent
    /\ sent' = sent \ {o}
    /\ runs' = Admitted(o, "launched")
    /\ UNCHANGED <<safe, row, req, ops, lapsed, closed, faults>>

\* The peer's answer arrives, or the call ends in an error or a timeout.
ForwardReturns(q, heard) ==
    /\ req[q].at = "await"
    /\ heard => req[q].op \in DOMAIN runs
    /\ At(q, IF heard THEN "record" ELSE "raise")
    /\ UNCHANGED <<safe, row, runs, sent, ops, lapsed, closed, faults>>

-----------------------------------------------------------------------------
(* The end of a request.                                                    *)

\* Faulty variants: the owner of the reservation is not checked (an upsert, as
\* save does; a delete by key).
completeAny(q) == IF row[KeyOf[q]].state = "none" THEN NoRow
                  ELSE [row[KeyOf[q]] EXCEPT !.state = "done", !.op = req[q].op, !.age = "live"]
releaseAny(q)  == NoRow

\* complete and release change only the pending row of their own operation.
OwnsRow(q)  == row[KeyOf[q]].state = "pending" /\ row[KeyOf[q]].op = req[q].op
complete(q) == IF OwnsRow(q) THEN [row[KeyOf[q]] EXCEPT !.state = "done", !.age = "live"] ELSE row[KeyOf[q]]
release(q)  == IF OwnsRow(q) THEN NoRow ELSE row[KeyOf[q]]

\* The receipt is stored, or the store fails and the answer goes out unrecorded.
Record(q, stored) ==
    /\ req[q].at = "record" /\ StoreAnswers(stored)
    /\ row' = IF stored THEN [row EXCEPT ![KeyOf[q]] = complete(q)] ELSE row
    /\ req' = [req EXCEPT ![q] = [@ EXCEPT !.at = "done", !.op = NoOp, !.run = req[q].op]]
    /\ UNCHANGED <<safe, runs, sent, ops, lapsed, closed>>

\* An action that raised frees the key, and the client is told of the error.
Release(q, stored) ==
    /\ req[q].at = "raise" /\ StoreAnswers(stored)
    /\ row' = IF stored THEN [row EXCEPT ![KeyOf[q]] = release(q)] ELSE row
    /\ closed' = IF stored /\ OwnsRow(q) THEN closed \cup {req[q].op} ELSE closed
    /\ req' = [req EXCEPT ![q] = [Waiting EXCEPT !.at = "failed"]]
    /\ UNCHANGED <<safe, runs, sent, ops, lapsed>>

\* A client that was told of an error, or that missed the answer, sends the
\* request again.
Resend(q) ==
    /\ req[q].at \in {"failed", "done"}
    /\ req' = [req EXCEPT ![q] = Waiting]
    /\ UNCHANGED <<safe, row, runs, sent, ops, lapsed, closed, faults>>

\* The lease of a pending reservation runs out (600 s), however busy its holder.
Lapse(k) ==
    /\ row[k].state = "pending" /\ row[k].age = "live"
    /\ row' = [row EXCEPT ![k].age = "lapsed"]
    /\ lapsed' = lapsed \cup {row[k].op}
    /\ UNCHANGED <<safe, req, runs, sent, ops, closed, faults>>

\* The row's 24 hours are over: no request is that old.
Expire(k) ==
    /\ row[k].state # "none" /\ row[k].age # "expired"
    /\ row[k].state = "pending" => row[k].age = "lapsed"
    /\ \A q \in Reqs : KeyOf[q] = k => req[q].at \notin InFlight
    /\ row' = [row EXCEPT ![k].age = "expired"]
    /\ closed' = closed \cup {row[k].op}
    /\ UNCHANGED <<safe, req, runs, sent, ops, lapsed, faults>>

\* The process stops and starts: the clients of the requests in flight send
\* them again, and runs that were admitted and not launched are marked failed.
Crash ==
    /\ faults < MaxFaults
    /\ faults' = faults + 1
    /\ req' = [q \in Reqs |-> IF req[q].at \in InFlight THEN Waiting ELSE req[q]]
    /\ runs' = [o \in DOMAIN runs |-> IF runs[o] = "queued" THEN "failed" ELSE runs[o]]
    /\ UNCHANGED <<safe, row, sent, ops, lapsed, closed>>

Handle(q) ==
    \/ \E payload \in PayloadsOf[q] : Acquire(q, payload) \/ Replay(q, payload)
    \/ Admit(q) \/ Forward(q)
    \/ Launch(q, TRUE) \/ ForwardReturns(q, FALSE)
    \/ Record(q, TRUE) \/ Release(q, TRUE)

Next ==
    \/ \E q \in Reqs : \/ Handle(q) \/ Refuse(q) \/ Launch(q, FALSE) \/ AdmittedOnly(q) \/ ForwardReturns(q, TRUE)
                        \/ Record(q, FALSE) \/ Release(q, FALSE) \/ Resend(q)
    \/ \E o \in Ops : PeerRuns(o)
    \/ \E k \in Keys : Lapse(k) \/ Expire(k)
    \/ Crash

\* Handlers make progress, an HTTP call ends in its timeout, a client whose
\* request is in progress or was cut off sends it again, and leases run out.
Fairness ==
    /\ \A q \in Reqs : WF_vars(Handle(q))
    /\ \A k \in Keys : WF_vars(Lapse(k))

Spec == Init /\ [][Next]_vars /\ Fairness

-----------------------------------------------------------------------------
(* Properties.                                                              *)

\* An answer names a launched run, of the request's own key and payload.
AnswerIsOwnRun ==
    \A q \in Reqs :
        req[q].at = "done" =>
            /\ req[q].run \in DOMAIN runs /\ runs[req[q].run] = "launched"
            /\ ops[req[q].run] = [key |-> KeyOf[q], payload |-> req[q].payload]

\* Of two requests in flight with one key, one outlived its lease: a holder
\* that was replaced neither frees nor fills its successor's reservation.
OneLiveHolder ==
    \A p, q \in Reqs :
        /\ p # q /\ KeyOf[p] = KeyOf[q]
        /\ req[p].at \in InFlight /\ req[q].at \in InFlight
        => req[p].op \in lapsed \/ req[q].op \in lapsed

\* "Execute action at most once per (key, endpoint, caller) for 24 h": a second
\* run starts only when the first operation lapsed, raised, or is a day old,
\* and never by a lapse alone where the endpoint does not allow it.
SecondRunExplained ==
    \A o, p \in DOMAIN runs :
        /\ o < p /\ ops[o].key = ops[p].key
        => o \in closed \/ (o \in lapsed /\ ops[o].key \in safe)

\* "a lapsed reservation can be retaken: the retry finds the admitted run
\* instead of starting a second one".
RetakeFindsRun ==
    \A o, p \in DOMAIN runs : o < p /\ ops[o].key = ops[p].key => o \in closed

\* "same key within 24 h returns the original result": a receipt is never
\* replaced or dropped before it expires.
ReceiptKept ==
    [][\A k \in Keys : row[k].state = "done" /\ row[k].age = "live"
          => row'[k] \in {row[k], [row[k] EXCEPT !.age = "expired"]}]_vars

\* No request waits for ever behind a reservation (MaxOps aside).
EveryRequestAnswered ==
    \A q \in Reqs : req[q].at = "new" ~> (req[q].at \in Answered \/ Len(ops) = MaxOps)
=============================================================================
