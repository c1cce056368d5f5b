---------------------------- MODULE BarbFailover ----------------------------
(***************************************************************************)
(* The manual failover of the Barb authority across nodes                  *)
(* (docs/operations/barb-authority-failover.md, scripts/barb_failover.py): *)
(* the old authority is stopped, its database is copied to the new one,    *)
(* the copy is promoted by raising its fence to the next epoch, every node *)
(* gets the new settings, and the old authority's own database is fenced   *)
(* before the node rejoins.  Meanwhile runs keep executing and post their  *)
(* cards the way handle_run_status_change routes them: committed locally   *)
(* by an authority, staged in the outbox by a replica and by an authority  *)
(* that finds itself fenced.                                               *)
(*                                                                         *)
(* One node has one database file: cards, fence, outbox and the per-run    *)
(* card counters are copied together.  The exchange between outbox and     *)
(* authority is atomic here; BarbDelivery models it in detail.             *)
(***************************************************************************)
EXTENDS RunCardGate

CONSTANTS
    Nodes,          \* node names
    Runs,           \* run ids
    Home,           \* [Runs -> Nodes]: where each run executes
    First,          \* the authority of epoch 1
    MaxCards,       \* bound: non-final cards a run posts before its final one
    MaxEpoch,       \* bound: failovers + 1
    Deviations      \* what may go differently from the plain procedure

\* The old authority cannot be stopped first; the node that is promoted still has
\* undelivered cards; the fence of an old authority is raised while it runs.
AllDeviations == {"unreachable", "undrained", "live_fence"}

ASSUME FailoverAssumption ==
    /\ First \in Nodes /\ NoNode \notin Nodes
    /\ Home \in [Runs -> Nodes]
    /\ MaxCards \in Nat /\ MaxEpoch \in Nat \ {0}
    /\ Deviations \subseteq AllDeviations

VARIABLES
    db,         \* [Nodes -> database]
    up,         \* nodes whose dashboard runs
    settings,   \* [Nodes -> [epoch, node]]: BARB_AUTHORITY_EPOCH and _NODE
    posted,     \* [Runs -> number of cards posted; Done: the run is over]
    current,    \* [epoch, node]: the authority the operator decided on last
    step,       \* the operator's place in the runbook
    deviated,   \* history: the deviations that happened
    writers,    \* history: the <<epoch, node>> pairs under which cards were committed
    final       \* history: runs that posted their final card

vars == <<db, up, settings, posted, current, step, deviated, writers, final>>

Done == MaxCards + 1

Entry == [run : Runs, version : Nat, status : RUN_STATUSES, delivered : BOOLEAN]
Database ==
    [fence : [epoch : Nat, node : Nodes \cup {NoNode}],
     cards : [Runs -> Card],
     counters : [Runs -> Nat],         \* runs.card_version
     outbox : SUBSET Entry]

Authority == [epoch : 1..MaxEpoch, node : Nodes]

TypeOK ==
    /\ \A n \in Nodes :
          /\ db[n].fence \in [epoch : Nat, node : Nodes \cup {NoNode}]
          /\ db[n].cards \in [Runs -> Card]
          /\ db[n].counters \in [Runs -> Nat]
          /\ db[n].outbox \subseteq Entry
    /\ up \subseteq Nodes
    /\ settings \in [Nodes -> Authority]
    /\ posted \in [Runs -> 0..Done]
    /\ current \in Authority
    /\ step \in {"normal", "stopped", "restored", "promoted"}
    /\ deviated \subseteq Deviations
    /\ writers \subseteq (1..MaxEpoch) \X Nodes
    /\ final \subseteq Runs

Init ==
    /\ db = [n \in Nodes |->
               [fence |-> NoFence,
                cards |-> [r \in Runs |-> [version |-> 0, status |-> NoStatus]],
                counters |-> [r \in Runs |-> 0],
                outbox |-> {}]]
    /\ up = Nodes
    /\ settings = [n \in Nodes |-> [epoch |-> 1, node |-> First]]
    /\ posted = [r \in Runs |-> 0]
    /\ current = [epoch |-> 1, node |-> First]
    /\ step = "normal"
    /\ deviated = {}
    /\ writers = {}
    /\ final = {}

IsAuthority(n) == settings[n].node = n
Epoch(n) == settings[n].epoch
Fenced(n) == ~check_fence(db[n].fence, Epoch(n), n)

Undelivered(n) == {x \in db[n].outbox : ~x.delivered}

\* Runs execute on threads of their node's dashboard: stopping it ends them
\* (reconcile_orphaned_runs marks them failed and posts no card).
Ended(n) ==
    [r \in Runs |-> IF Home[r] = n /\ posted[r] > 0 THEN Done ELSE posted[r]]

-----------------------------------------------------------------------------
(* A run's cards.                                                           *)

\* apply_run_card_update at an authority n that is not fenced.
Commit(d, n, r, v, s) ==
    [d EXCEPT !.fence = advance_fence(@, Epoch(n), n),
              !.cards[r] = IF decide(@, v, s) = "applied"
                             THEN [version |-> v, status |-> s] ELSE @]

\* Faulty variant, for a mutation run: the card counter is not saved.
StageSameVersion(d, r, s) ==
    [d EXCEPT !.outbox = @ \cup {[run |-> r, version |-> d.counters[r] + 1,
                                  status |-> s, delivered |-> FALSE]}]

\* enqueue_run_card: the next card version of the run's own counter.  A newer
\* card replaces the run's pending non-final ones.
Stage(d, r, s) ==
    LET v == d.counters[r] + 1
    IN  [d EXCEPT !.counters[r] = v,
                  !.outbox = {x \in @ : x.run # r \/ x.delivered
                                          \/ x.status \in TERMINAL_STATUSES}
                             \cup {[run |-> r, version |-> v, status |-> s,
                                    delivered |-> FALSE]}]

\* handle_run_status_change on the run's node.
PostCard(r) ==
    LET n == Home[r]
        s == IF posted[r] < MaxCards THEN "running" ELSE "succeeded"
        committed == IsAuthority(n) /\ ~Fenced(n)
    IN  /\ n \in up
        /\ posted[r] < Done
        /\ posted' = [posted EXCEPT ![r] = @ + 1]
        /\ final' = IF s \in TERMINAL_STATUSES THEN final \cup {r} ELSE final
        /\ \/ /\ committed
              /\ db' = [db EXCEPT ![n] = Commit(@, n, r, @.cards[r].version + 1, s)]
              /\ writers' = writers \cup {<<Epoch(n), n>>}
           \/ /\ ~committed
              /\ db' = [db EXCEPT ![n] = Stage(@, r, s)]
              /\ UNCHANGED writers
        /\ UNCHANGED <<up, settings, current, step, deviated>>

\* One delivery of a replica to the node its settings name, in version order:
\* applied, duplicate and stale all end the entry; a refusal leaves it.
Deliver(n, x) ==
    LET h == settings[n].node
    IN  /\ n \in up /\ h \in up /\ h # n
        /\ x \in db[n].outbox /\ ~x.delivered
        /\ ~ \E y \in db[n].outbox : /\ y.run = x.run /\ ~y.delivered
                                     /\ y.version < x.version
        /\ IsAuthority(h) /\ Epoch(h) = Epoch(n) /\ ~Fenced(h)
        /\ db' = [db EXCEPT
                    ![n].outbox = (@ \ {x}) \cup {[x EXCEPT !.delivered = TRUE]},
                    ![h] = Commit(@, h, x.run, x.version, x.status)]
        /\ writers' = writers \cup {<<Epoch(h), h>>}
        /\ UNCHANGED <<up, settings, posted, current, step, final, deviated>>

-----------------------------------------------------------------------------
(* The operator, step by step.                                              *)

Deviate(d) == d \in Deviations /\ deviated' = deviated \cup {d}

\* Step 1: stop the old authority (or not, when it cannot be reached).
StopOld ==
    /\ step = "normal"
    /\ current.epoch < MaxEpoch
    /\ \/ /\ up' = up \ {current.node}
          /\ posted' = Ended(current.node)
          /\ UNCHANGED deviated
       \/ /\ Deviate("unreachable")
          /\ UNCHANGED <<up, posted>>
    /\ step' = "stopped"
    /\ UNCHANGED <<db, settings, current, writers, final>>

\* Faulty variants of step 2, for mutation runs: nothing is copied; the
\* epoch is not raised.
RestoreNothing(new) ==
    /\ step = "stopped" /\ new # current.node
    /\ up' = up \ {new}
    /\ current' = [epoch |-> current.epoch + 1, node |-> new]
    /\ step' = "restored"
    /\ posted' = Ended(new)
    /\ UNCHANGED <<db, settings, writers, final, deviated>>

RestoreSameEpoch(new) ==
    /\ step = "stopped" /\ new # current.node
    /\ db' = [db EXCEPT ![new] = db[current.node]]
    /\ up' = up \ {new}
    /\ current' = [current EXCEPT !.node = new]
    /\ step' = "restored"
    /\ posted' = Ended(new)
    /\ UNCHANGED <<settings, writers, final, deviated>>

\* Step 2: copy the old authority's database to the new one, whose dashboard
\* is stopped; the file there is replaced.
Restore(new) ==
    /\ step = "stopped"
    /\ new # current.node
    /\ IF Undelivered(new) = {} THEN UNCHANGED deviated ELSE Deviate("undrained")
    /\ db' = [db EXCEPT ![new] = db[current.node]]
    /\ up' = up \ {new}
    /\ current' = [epoch |-> current.epoch + 1, node |-> new]
    /\ step' = "restored"
    /\ posted' = Ended(new)
    /\ UNCHANGED <<settings, writers, final>>

\* cmd_advance: raise a database's fence to the new authority.
Advance(n) ==
    /\ check_fence(db[n].fence, current.epoch, current.node)
    /\ db' = [db EXCEPT ![n].fence = advance_fence(@, current.epoch, current.node)]

\* Step 3: promote the copy.
Promote ==
    /\ step = "restored"
    /\ Advance(current.node)
    /\ step' = "promoted"
    /\ UNCHANGED <<up, settings, posted, current, writers, final, deviated>>

\* Steps 4 and 6: a node gets the new settings and restarts.  A former
\* authority is fenced first.
Reconfigure(n) ==
    /\ step = "promoted"
    /\ settings[n] # current
    /\ IF IsAuthority(n) /\ n # current.node
         THEN Advance(n) ELSE UNCHANGED db
    /\ settings' = [settings EXCEPT ![n] = current]
    /\ up' = up \cup {n}
    /\ posted' = Ended(n)
    /\ UNCHANGED <<current, step, writers, final, deviated>>

\* Faulty variant, for a mutation run: the old database is not fenced.
RejoinUnfenced(n) ==
    /\ step = "promoted"
    /\ n \notin up /\ IsAuthority(n) /\ n # current.node
    /\ up' = up \cup {n}
    /\ UNCHANGED <<db, settings, posted, current, step, writers, final, deviated>>

\* Step 6 with stale settings: a stopped old authority is fenced and started.
Rejoin(n) ==
    /\ step = "promoted"
    /\ n \notin up /\ IsAuthority(n) /\ n # current.node
    /\ up' = up \cup {n}
    /\ Advance(n)
    /\ UNCHANGED <<settings, posted, current, step, writers, final, deviated>>

\* cmd_advance on the database of an old authority that is still running.
FenceRunning(n) ==
    /\ Deviate("live_fence")
    /\ step = "promoted"
    /\ n \in up /\ IsAuthority(n) /\ n # current.node /\ ~Fenced(n)
    /\ Advance(n)
    /\ UNCHANGED <<up, settings, posted, current, step, writers, final>>

FailoverDone ==
    /\ step = "promoted"
    /\ \A n \in Nodes : n \in up /\ settings[n] = current
    /\ step' = "normal"
    /\ UNCHANGED <<db, up, settings, posted, current, writers, final, deviated>>

Next ==
    \/ \E r \in Runs : PostCard(r)
    \/ \E n \in Nodes : \E x \in db[n].outbox : Deliver(n, x)
    \/ StopOld
    \/ \E n \in Nodes : Restore(n) \/ Reconfigure(n) \/ Rejoin(n) \/ FenceRunning(n)
    \/ Promote
    \/ FailoverDone

Spec == Init /\ [][Next]_vars

-----------------------------------------------------------------------------
(* Properties.                                                              *)

\* A card is only ever committed by one node per epoch: the epoch names the
\* writer, across failovers, failbacks and nodes with stale settings.
OneWriterPerEpoch ==
    \A w1, w2 \in writers : w1[1] = w2[1] => w1[2] = w2[2]

\* "No split writes": when the old authority was stopped first in every failover, at
\* most one running node would accept a write, at every point of the procedure.
NoSplitWrites ==
    "unreachable" \notin deviated =>
        Cardinality({n \in up : IsAuthority(n) /\ ~Fenced(n)}) <= 1

\* I5 across failovers that went by the procedure: once nothing is waiting in any
\* outbox and the procedure is complete, a run that posted its final card has a final card at
\* the authority.
FinalCardsSurvive ==
    (deviated = {} /\ step = "normal" /\ \A n \in Nodes : Undelivered(n) = {})
      => \A r \in final : db[current.node].cards[r].status \in TERMINAL_STATUSES

\* Every final card whose delivery this step acknowledges is final at the authority.
AcknowledgedFinal ==
    \A n \in Nodes : \A x \in Undelivered(n) :
        /\ x.status \in TERMINAL_STATUSES
        /\ [x EXCEPT !.delivered = TRUE] \in db'[n].outbox
        => db'[settings[n].node].cards[x.run].status \in TERMINAL_STATUSES

\* run_link.post_run_card on a fenced authority: "the card is staged, not lost
\* (I5): it is delivered once the operator reconfigures this node as a replica
\* of the current authority".  The delivery of a staged final card leaves a
\* final card at the authority that acknowledged it.
StagedFinalCardDelivered == [][AcknowledgedFinal]_vars

\* That promise holds when no authority was fenced while it ran: the versions a
\* replica stages (RunStore.next_card_version) are then the only ones of its runs.
DeliveredUnlessFencedLive == []["live_fence" \notin deviated => AcknowledgedFinal]_vars
=============================================================================
