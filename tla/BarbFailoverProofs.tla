------------------------- MODULE BarbFailoverProofs -------------------------
(***************************************************************************)
(* BarbFailover for every set of nodes and runs, any number of cards and   *)
(* failovers and every choice of deviations: an epoch names its writer,    *)
(* writes are never split unless an old authority was left running, and    *)
(* no final card is lost by a failover that went by the procedure.         *)
(***************************************************************************)
EXTENDS BarbFailover, FiniteSetTheorems, TLAPS

-----------------------------------------------------------------------------
(* The inductive invariant.                                                 *)

Fence == [epoch : Nat, node : Nodes \cup {NoNode}]

\* The types; a failover is begun only with an epoch left.
Typed ==
    /\ db \in [Nodes -> Database]
    /\ up \subseteq Nodes
    /\ settings \in [Nodes -> Authority]
    /\ posted \in [Runs -> 0..Done]
    /\ current \in Authority
    /\ step \in {"normal", "stopped", "restored", "promoted"}
    /\ step = "stopped" => current.epoch < MaxEpoch
    /\ deviated \subseteq Deviations
    /\ writers \subseteq (1..MaxEpoch) \X Nodes
    /\ final \subseteq Runs

\* The authorities that somebody knows of: the operator's decision, the nodes'
\* settings and the writers of the past.
Known == {current} \cup {settings[n] : n \in Nodes}
             \cup {[epoch |-> w[1], node |-> w[2]] : w \in writers}

\* An epoch stands for one authority, and the operator's is the latest.
EpochNamesNode ==
    \A p, q \in Known : /\ p.epoch <= current.epoch
                        /\ p.epoch = q.epoch => p = q

\* No database is fenced against the current authority.
FencesBehind ==
    \A n \in Nodes : /\ db[n].fence.epoch <= current.epoch
                     /\ db[n].fence.epoch = current.epoch
                          => db[n].fence.node \in {current.node, NoNode}

\* The current authority runs with its own settings, not before its promotion,
\* and its database comes from authorities, which stage nothing.
AuthorityIsConfigured ==
    /\ current.node \in up => settings[current.node] = current
    /\ step = "restored" => current.node \notin up
    /\ db[current.node].outbox = {}

\* A node that would commit a card.
Writes(n) == IsAuthority(n) /\ ~Fenced(n)

\* With the old authority stopped first, nobody but the current one writes.
OnlyCurrentWrites ==
    "unreachable" \notin deviated =>
        /\ \A n \in up : Writes(n) => n = current.node
        /\ step = "stopped" => current.node \notin up

\* The cards of a run are numbered as they are posted: the last number and no
\* other is the final card's, at every node and in every outbox.
Numbered(d, p) ==
    /\ \A r \in Runs :
          /\ d.cards[r].version <= p[r] /\ d.counters[r] <= p[r]
          /\ d.cards[r].status \in TERMINAL_STATUSES <=> d.cards[r].version = Done
    /\ \A x \in d.outbox :
          /\ x.version <= p[x.run]
          /\ x.status \in TERMINAL_STATUSES <=> x.version = Done
    /\ \A x, y \in d.outbox : x.run = y.run /\ x.version = y.version => x = y

\* A run in progress is numbered by the card its node keeps if the node commits,
\* and by the counter if it stages.
CountedAtHome(r) ==
    posted[r] \in 1..MaxCards =>
        /\ Home[r] \in up
        /\ Writes(Home[r]) => db[Home[r]].cards[r].version = posted[r]
        /\ ~Writes(Home[r]) => db[Home[r]].counters[r] = posted[r]

CardsNumbered ==
    "live_fence" \notin deviated =>
        /\ \A n \in Nodes : Numbered(db[n], posted)
        /\ \A r \in Runs : CountedAtHome(r)

\* A final card is at the authority or waits in an outbox.
FinalAccounted ==
    deviated = {} =>
        \A r \in final :
            \/ db[current.node].cards[r].status \in TERMINAL_STATUSES
            \/ \E n \in Nodes : \E x \in Undelivered(n) :
                  x.run = r /\ x.status \in TERMINAL_STATUSES

IInv == /\ Typed /\ EpochNamesNode /\ FencesBehind /\ AuthorityIsConfigured
        /\ OnlyCurrentWrites /\ CardsNumbered /\ FinalAccounted
-----------------------------------------------------------------------------
(* What the steps do to a database.                                         *)

\* The assumptions on the constants, as the provers use them.
LEMMA Constants ==
    /\ First \in Nodes /\ NoNode \notin Nodes
    /\ \A r \in Runs : Home[r] \in Nodes
    /\ MaxCards \in Nat /\ MaxEpoch \in Nat /\ MaxEpoch >= 1
    /\ Done \in Nat /\ Done = MaxCards + 1
  BY FailoverAssumption DEF Done

\* advance_fence, for an authority that check_fence admits, names it, and
\* admits it again.
LEMMA AdvancedFence ==
    ASSUME NEW f \in Fence, NEW e \in Nat, NEW n \in Nodes, check_fence(f, e, n)
    PROVE  LET g == advance_fence(f, e, n)
           IN  g \in Fence /\ g.epoch = e /\ g.node = n /\ check_fence(g, e, n)
  BY Constants DEF Fence, check_fence, advance_fence

\* The transaction of apply_run_card_update changes the fence and one card.
LEMMA CommitFields ==
    ASSUME Typed, NEW d \in Database, NEW n \in Nodes, NEW r \in Runs, NEW v \in Nat,
           NEW s \in RUN_STATUSES, check_fence(d.fence, Epoch(n), n)
    PROVE  LET c == Commit(d, n, r, v, s)
           IN  /\ c \in Database
               /\ c.fence.epoch = Epoch(n) /\ c.fence.node = n
               /\ check_fence(c.fence, Epoch(n), n)
               /\ c.counters = d.counters /\ c.outbox = d.outbox
               /\ \A q \in Runs \ {r} : c.cards[q] = d.cards[q]
               /\ c.cards[r] = IF decide(d.cards[r], v, s) = "applied"
                                 THEN [version |-> v, status |-> s] ELSE d.cards[r]
<1> DEFINE g == advance_fence(d.fence, Epoch(n), n)
           k == IF decide(d.cards[r], v, s) = "applied"
                  THEN [version |-> v, status |-> s] ELSE d.cards[r]
           c == Commit(d, n, r, v, s)
<1>1. d.fence \in Fence /\ Epoch(n) \in Nat
  BY Constants DEF Typed, Database, Fence, Epoch, Authority
<1>2. g \in Fence /\ g.epoch = Epoch(n) /\ g.node = n /\ check_fence(g, Epoch(n), n)
  BY <1>1, AdvancedFence
<1>3. k \in Card
  BY DEF Database, Card
<1>4. c = [d EXCEPT !.fence = g, !.cards = [d.cards EXCEPT ![r] = k]]
  BY DEF Commit, Database
<1> HIDE DEF g, k
<1>5. c.fence = g /\ c.counters = d.counters /\ c.outbox = d.outbox
      /\ c.cards = [d.cards EXCEPT ![r] = k]
  BY <1>4 DEF Database
<1>6. c \in Database
  <2> DEFINE cs == [d.cards EXCEPT ![r] = k]
  <2>1. cs \in [Runs -> Card]
    BY <1>3 DEF Database
  <2>2. c = [d EXCEPT !.fence = g, !.cards = cs]
    BY <1>4
  <2> HIDE DEF cs, c
  <2> QED BY <1>2, <2>1, <2>2 DEF Database, Fence
<1>7. c.cards[r] = k /\ \A q \in Runs \ {r} : c.cards[q] = d.cards[q]
  BY <1>5 DEF Database
<1> HIDE DEF c
<1> QED BY <1>2, <1>5, <1>6, <1>7 DEF c, k

\* enqueue_run_card changes the run's counter and the outbox.
LEMMA StageFields ==
    ASSUME NEW d \in Database, NEW r \in Runs, NEW s \in RUN_STATUSES
    PROVE  LET c == Stage(d, r, s)
               e == [run |-> r, version |-> d.counters[r] + 1, status |-> s, delivered |-> FALSE]
           IN  /\ c \in Database
               /\ c.fence = d.fence /\ c.cards = d.cards
               /\ c.counters[r] = d.counters[r] + 1
               /\ \A q \in Runs \ {r} : c.counters[q] = d.counters[q]
               /\ c.outbox = {x \in d.outbox : x.run # r \/ x.delivered
                                                \/ x.status \in TERMINAL_STATUSES} \cup {e}
<1> DEFINE v == d.counters[r] + 1
           e == [run |-> r, version |-> v, status |-> s, delivered |-> FALSE]
           o == {x \in d.outbox : x.run # r \/ x.delivered
                                    \/ x.status \in TERMINAL_STATUSES} \cup {e}
           c == Stage(d, r, s)
<1>1. v \in Nat
  BY DEF Database
<1>2. c = [d EXCEPT !.counters = [d.counters EXCEPT ![r] = v], !.outbox = o]
  BY DEF Stage, Database
<1>3. o \subseteq Entry
  <2>1. e \in Entry
    BY <1>1 DEF Entry
  <2>2. d.outbox \subseteq Entry
    BY DEF Database
  <2> HIDE DEF e
  <2> QED BY <2>1, <2>2
<1> HIDE DEF v, o
<1>4. /\ c.fence = d.fence /\ c.cards = d.cards /\ c.outbox = o
      /\ c.counters = [d.counters EXCEPT ![r] = v]
  BY <1>2 DEF Database
<1>5. c \in Database
  BY <1>1, <1>2, <1>3 DEF Database
<1>6. c.counters[r] = v /\ \A q \in Runs \ {r} : c.counters[q] = d.counters[q]
  BY <1>4 DEF Database
<1> HIDE DEF c
<1> QED BY <1>4, <1>5, <1>6 DEF c, o, v, e

\* cmd_advance changes the fence of one database.
LEMMA AdvanceFields ==
    ASSUME Typed, NEW n \in Nodes, Advance(n)
    PROVE  /\ db' \in [Nodes -> Database]
           /\ \A m \in Nodes \ {n} : db'[m] = db[m]
           /\ db'[n].fence.epoch = current.epoch /\ db'[n].fence.node = current.node
           /\ db'[n].cards = db[n].cards /\ db'[n].counters = db[n].counters
           /\ db'[n].outbox = db[n].outbox
<1> DEFINE g == advance_fence(db[n].fence, current.epoch, current.node)
<1>1. db[n].fence \in Fence /\ current.epoch \in Nat /\ current.node \in Nodes
  BY Constants DEF Typed, Database, Fence, Authority
<1>2. g \in Fence /\ g.epoch = current.epoch /\ g.node = current.node
  BY <1>1, AdvancedFence DEF Advance
<1>3. db' = [db EXCEPT ![n] = [db[n] EXCEPT !.fence = g]]
  BY DEF Advance, Typed
<1> HIDE DEF g
<1>4. [db[n] EXCEPT !.fence = g] \in Database
  BY <1>2 DEF Typed, Database, Fence
<1>5. db'[n] = [db[n] EXCEPT !.fence = g] /\ \A m \in Nodes \ {n} : db'[m] = db[m]
  BY <1>3 DEF Typed
<1>6. db' \in [Nodes -> Database]
  BY <1>3, <1>4 DEF Typed
<1>7. db[n] \in Database
  BY DEF Typed
<1>8. /\ db'[n].fence = g /\ db'[n].cards = db[n].cards
      /\ db'[n].counters = db[n].counters /\ db'[n].outbox = db[n].outbox
  BY <1>5, <1>7 DEF Database
<1> QED BY <1>2, <1>5, <1>6, <1>8

\* A step that commits card (v, s) of run r at node n.
Committed(n, r, v, s) ==
    /\ db'[n].fence.epoch = Epoch(n) /\ db'[n].fence.node = n
    /\ check_fence(db'[n].fence, Epoch(n), n)
    /\ db'[n].counters = db[n].counters /\ db'[n].outbox = db[n].outbox
    /\ \A q \in Runs \ {r} : db'[n].cards[q] = db[n].cards[q]
    /\ db'[n].cards[r] = IF decide(db[n].cards[r], v, s) = "applied"
                           THEN [version |-> v, status |-> s] ELSE db[n].cards[r]

\* A step that stages a card with status s of run r at node n.
Staged(n, r, s) ==
    /\ db'[n].fence = db[n].fence /\ db'[n].cards = db[n].cards
    /\ db'[n].counters[r] = db[n].counters[r] + 1
    /\ \A q \in Runs \ {r} : db'[n].counters[q] = db[n].counters[q]
    /\ db'[n].outbox = {x \in db[n].outbox : x.run # r \/ x.delivered
                                               \/ x.status \in TERMINAL_STATUSES}
                        \cup {[run |-> r, version |-> db[n].counters[r] + 1,
                               status |-> s, delivered |-> FALSE]}

\* The status of the next card of a run.
NextStatus(r) == IF posted[r] < MaxCards THEN "running" ELSE "succeeded"

\* handle_run_status_change counts the card, and commits it or stages it.
LEMMA PostEffect ==
    ASSUME Typed, NEW r \in Runs, PostCard(r)
    PROVE  LET n == Home[r]
               s == NextStatus(r)
           IN  /\ n \in up /\ n \in Nodes /\ posted[r] < Done
               /\ posted' \in [Runs -> 0..Done]
               /\ posted'[r] = posted[r] + 1
               /\ \A q \in Runs \ {r} : posted'[q] = posted[q]
               /\ s \in RUN_STATUSES
               /\ s \in TERMINAL_STATUSES <=> posted'[r] = Done
               /\ final' = IF posted'[r] = Done THEN final \cup {r} ELSE final
               /\ db' \in [Nodes -> Database]
               /\ \A m \in Nodes \ {n} : db'[m] = db[m]
               /\ \/ /\ Writes(n)
                     /\ Committed(n, r, db[n].cards[r].version + 1, s)
                     /\ writers' = writers \cup {<<Epoch(n), n>>}
                  \/ ~Writes(n) /\ Staged(n, r, s) /\ writers' = writers
<1> DEFINE n == Home[r]
           s == NextStatus(r)
           v == db[n].cards[r].version + 1
<1>1. n \in up /\ n \in Nodes /\ posted[r] < Done
  BY Constants DEF PostCard
<1>2. /\ posted[r] \in Nat /\ posted' \in [Runs -> 0..Done] /\ posted'[r] = posted[r] + 1
      /\ \A q \in Runs \ {r} : posted'[q] = posted[q]
  BY <1>1, Constants DEF Typed, PostCard
<1>3. s \in RUN_STATUSES /\ (s \in TERMINAL_STATUSES <=> posted'[r] = Done)
  BY <1>1, <1>2, Constants DEF NextStatus, RUN_STATUSES, TERMINAL_STATUSES
<1>4. final' = IF posted'[r] = Done THEN final \cup {r} ELSE final
  BY <1>3 DEF PostCard, NextStatus
<1>5. db[n] \in Database /\ v \in Nat
  BY <1>1 DEF Typed, Database, Card
<1>6. \/ /\ Writes(n)
         /\ db' = [db EXCEPT ![n] = Commit(db[n], n, r, v, s)]
         /\ writers' = writers \cup {<<Epoch(n), n>>}
      \/ ~Writes(n) /\ db' = [db EXCEPT ![n] = Stage(db[n], r, s)] /\ writers' = writers
  <2>1. db \in [Nodes -> Database]
    BY DEF Typed
  <2> QED BY <1>1, <2>1 DEF PostCard, Writes, NextStatus
<1>7. Writes(n) =>
        /\ Commit(db[n], n, r, v, s) \in Database
        /\ db'[n] = Commit(db[n], n, r, v, s) => Committed(n, r, v, s)
  <2>1. Writes(n) => check_fence(db[n].fence, Epoch(n), n)
    BY DEF Writes, Fenced
  <2> QED BY <1>1, <1>3, <1>5, <2>1, CommitFields DEF Committed
<1>8. /\ Stage(db[n], r, s) \in Database
      /\ db'[n] = Stage(db[n], r, s) => Staged(n, r, s)
  BY <1>3, <1>5, StageFields DEF Staged
<1> HIDE DEF n, s, v
<1>9. \E d \in Database :
        /\ db' = [db EXCEPT ![n] = d]
        /\ \/ Writes(n) /\ d = Commit(db[n], n, r, v, s) /\ writers' = writers \cup {<<Epoch(n), n>>}
           \/ ~Writes(n) /\ d = Stage(db[n], r, s) /\ writers' = writers
  BY <1>6, <1>7, <1>8
<1>10. /\ db' \in [Nodes -> Database]
       /\ \A m \in Nodes \ {n} : db'[m] = db[m]
       /\ \/ /\ Writes(n) /\ Committed(n, r, v, s)
             /\ writers' = writers \cup {<<Epoch(n), n>>}
          \/ ~Writes(n) /\ Staged(n, r, s) /\ writers' = writers
  <2>1. PICK d \in Database : <1>9!(d)
    BY <1>9
  <2>2. db'[n] = d /\ db' \in [Nodes -> Database] /\ \A m \in Nodes \ {n} : db'[m] = db[m]
    BY <1>1, <2>1 DEF Typed
  <2> QED BY <1>7, <1>8, <2>1, <2>2
<1> QED BY <1>1, <1>2, <1>3, <1>4, <1>10 DEF n, s, v

\* A delivery marks the entry in one outbox and commits the card of another
\* node, which is entitled to write.
LEMMA DeliverEffect ==
    ASSUME Typed, NEW n \in Nodes, NEW x \in db[n].outbox, Deliver(n, x)
    PROVE  LET h == settings[n].node
               o == (db[n].outbox \ {x}) \cup {[x EXCEPT !.delivered = TRUE]}
           IN  /\ h \in up /\ h \in Nodes /\ h # n /\ Writes(h)
               /\ x \in Entry /\ ~x.delivered /\ x.run \in Runs /\ x.version \in Nat
               /\ x.status \in RUN_STATUSES
               /\ db' \in [Nodes -> Database]
               /\ \A m \in Nodes \ {n, h} : db'[m] = db[m]
               /\ db'[n].fence = db[n].fence /\ db'[n].cards = db[n].cards
               /\ db'[n].counters = db[n].counters /\ db'[n].outbox = o
               /\ Committed(h, x.run, x.version, x.status)
               /\ writers' = writers \cup {<<Epoch(h), h>>}
<1> DEFINE h == settings[n].node
           o == (db[n].outbox \ {x}) \cup {[x EXCEPT !.delivered = TRUE]}
           c == Commit(db[h], h, x.run, x.version, x.status)
<1>1. h \in up /\ h \in Nodes /\ h # n /\ Writes(h) /\ ~x.delivered
  BY DEF Deliver, Writes, Typed
<1>2. x \in Entry /\ x.run \in Runs /\ x.version \in Nat /\ x.status \in RUN_STATUSES
  BY DEF Typed, Database, Entry
<1>3. db[n] \in Database /\ db[h] \in Database
  BY <1>1 DEF Typed
<1>4. c \in Database /\ (db'[h] = c => Committed(h, x.run, x.version, x.status))
  <2>1. check_fence(db[h].fence, Epoch(h), h)
    BY <1>1 DEF Writes, Fenced
  <2> QED BY <1>1, <1>2, <1>3, <2>1, CommitFields DEF Committed
<1>5. o \subseteq Entry
  <2>1. [x EXCEPT !.delivered = TRUE] \in Entry
    BY <1>2 DEF Entry
  <2>2. db[n].outbox \subseteq Entry
    BY <1>3 DEF Database
  <2> QED BY <2>1, <2>2
<1>6. db' = [db EXCEPT ![n].outbox = o, ![h] = c]
  <2>1. db \in [Nodes -> Database]
    BY DEF Typed
  <2> QED BY <1>1, <2>1 DEF Deliver
<1>7. writers' = writers \cup {<<Epoch(h), h>>}
  BY DEF Deliver
<1> HIDE DEF h, o, c
<1>8. db'[n] = [db[n] EXCEPT !.outbox = o] /\ db'[h] = c
      /\ \A m \in Nodes \ {n, h} : db'[m] = db[m]
  BY <1>1, <1>6 DEF Typed
<1>9. [db[n] EXCEPT !.outbox = o] \in Database
  BY <1>3, <1>5 DEF Database
<1>10. db' \in [Nodes -> Database]
  BY <1>1, <1>4, <1>6, <1>9 DEF Typed
<1>11. /\ db'[n].fence = db[n].fence /\ db'[n].cards = db[n].cards
       /\ db'[n].counters = db[n].counters /\ db'[n].outbox = o
  BY <1>3, <1>8 DEF Database
<1> QED BY <1>1, <1>2, <1>4, <1>7, <1>8, <1>10, <1>11 DEF h, o

\* The dashboard of node n stops or restarts: its runs are over.
LEMMA EndedRuns ==
    ASSUME Typed, NEW n
    PROVE  /\ Ended(n) \in [Runs -> 0..Done]
           /\ \A r \in Runs : /\ Ended(n)[r] >= posted[r]
                              /\ Ended(n)[r] \in 1..MaxCards => Home[r] # n /\ Ended(n)[r] = posted[r]
  BY Constants DEF Ended, Typed

-----------------------------------------------------------------------------
(* The invariant at the start, and its types.                               *)

\* Every node starts with an empty database and the first authority's settings.
LEMMA IInit == Init => IInv
<1> SUFFICES ASSUME Init PROVE IInv
  OBVIOUS
<1> DEFINE card == [version |-> 0, status |-> NoStatus]
           d == [fence |-> NoFence, cards |-> [r \in Runs |-> card],
                 counters |-> [r \in Runs |-> 0], outbox |-> {}]
<1>1. d \in Database
  <2>1. [r \in Runs |-> card] \in [Runs -> Card]
    BY DEF Card
  <2> QED BY <2>1 DEF Database, NoFence
<1>2. /\ d.fence.epoch = 0 /\ d.outbox = {}
      /\ \A r \in Runs : /\ d.cards[r].version = 0 /\ d.counters[r] = 0
                         /\ d.cards[r].status = NoStatus
  BY DEF NoFence
<1>3. db = [n \in Nodes |-> d]
  BY DEF Init
<1> HIDE DEF d
<1>4. db \in [Nodes -> Database] /\ \A n \in Nodes : db[n] = d
  BY <1>1, <1>3
<1>5. /\ current \in Authority /\ current.epoch = 1 /\ current.node = First
      /\ settings \in [Nodes -> Authority] /\ \A n \in Nodes : settings[n] = current
  BY Constants DEF Init, Authority
<1>6. Typed
  <2>1. /\ up = Nodes /\ posted = [r \in Runs |-> 0] /\ step = "normal" /\ deviated = {}
        /\ writers = {} /\ final = {}
    BY DEF Init
  <2>2. posted \in [Runs -> 0..Done]
    BY <2>1, Constants
  <2> QED BY <1>4, <1>5, <2>1, <2>2 DEF Typed
<1>7. EpochNamesNode
  BY <1>5 DEF Init, EpochNamesNode, Known
<1>8. FencesBehind
  BY <1>2, <1>4, <1>5 DEF FencesBehind
<1>9. AuthorityIsConfigured
  BY <1>2, <1>4, <1>5, Constants DEF Init, AuthorityIsConfigured
<1>10. OnlyCurrentWrites
  BY <1>5 DEF Init, OnlyCurrentWrites, Writes, IsAuthority
<1>11. Numbered(d, posted)
  BY <1>2, Constants DEF Init, Numbered, NoStatus, TERMINAL_STATUSES
<1>12. CardsNumbered
  <2>1. \A r \in Runs : posted[r] = 0
    BY DEF Init
  <2>2. \A r \in Runs : CountedAtHome(r)
    BY <2>1, Constants DEF CountedAtHome
  <2>3. \A n \in Nodes : Numbered(db[n], posted)
    BY <1>4, <1>11
  <2> QED BY <2>2, <2>3 DEF CardsNumbered
<1>13. FinalAccounted
  BY DEF Init, FinalAccounted
<1> QED BY <1>6, <1>7, <1>8, <1>9, <1>10, <1>12, <1>13 DEF IInv

\* A node that is entitled to write does it under its own settings.
LEMMA WriterPair ==
    ASSUME Typed, NEW n \in Nodes, Writes(n)
    PROVE  /\ <<Epoch(n), n>> \in (1..MaxEpoch) \X Nodes
           /\ settings[n] = [epoch |-> Epoch(n), node |-> n]
  BY DEF Typed, Authority, Writes, IsAuthority, Epoch

\* Only such a node enters the history of writers.
LEMMA WritersGrow ==
    ASSUME Typed, Next
    PROVE  \/ writers' = writers
           \/ \E n \in Nodes : Writes(n) /\ writers' = writers \cup {<<Epoch(n), n>>}
<1> DEFINE Grow == \/ writers' = writers
                   \/ \E n \in Nodes : Writes(n) /\ writers' = writers \cup {<<Epoch(n), n>>}
<1>1. ASSUME NEW r \in Runs, PostCard(r) PROVE Grow
  BY <1>1, PostEffect
<1>2. ASSUME NEW n \in Nodes, NEW x \in db[n].outbox, Deliver(n, x) PROVE Grow
  BY <1>2, DeliverEffect
<1> QED BY <1>1, <1>2 DEF Next, StopOld, Restore, Reconfigure, Rejoin, FenceRunning,
                          Promote, FailoverDone

\* Every step keeps the types.
LEMMA TypedStep == Typed /\ Next => Typed'
<1> SUFFICES ASSUME Typed, Next PROVE Typed'
  OBVIOUS
<1>1. ASSUME NEW r \in Runs, PostCard(r) PROVE Typed'
  <2>1. /\ db' \in [Nodes -> Database] /\ posted' \in [Runs -> 0..Done] /\ final' \subseteq Runs
    BY <1>1, PostEffect DEF Typed
  <2>2. writers' \subseteq (1..MaxEpoch) \X Nodes
    BY <1>1, WritersGrow, WriterPair DEF Typed
  <2> QED BY <1>1, <2>1, <2>2 DEF Typed, PostCard
<1>2. ASSUME NEW n \in Nodes, NEW x \in db[n].outbox, Deliver(n, x) PROVE Typed'
  <2>1. db' \in [Nodes -> Database]
    BY <1>2, DeliverEffect
  <2>2. writers' \subseteq (1..MaxEpoch) \X Nodes
    BY <1>2, WritersGrow, WriterPair DEF Typed
  <2> QED BY <1>2, <2>1, <2>2 DEF Typed, Deliver
<1>3. CASE StopOld
  BY <1>3, EndedRuns DEF StopOld, Typed, Deviate
<1>4. ASSUME NEW n \in Nodes, Restore(n) PROVE Typed'
  <2>1. db' \in [Nodes -> Database] /\ up' \subseteq Nodes /\ deviated' \subseteq Deviations
    BY <1>4 DEF Restore, Typed, Deviate, Authority
  <2>2. current' \in Authority
    BY <1>4, Constants DEF Restore, Typed, Authority
  <2> QED BY <1>4, <2>1, <2>2, EndedRuns DEF Restore, Typed
<1>5. ASSUME NEW n \in Nodes, Reconfigure(n) PROVE Typed'
  <2>1. db' \in [Nodes -> Database]
    BY <1>5, AdvanceFields DEF Reconfigure, Typed
  <2> QED BY <1>5, <2>1, EndedRuns DEF Reconfigure, Typed
<1>6. ASSUME NEW n \in Nodes, Rejoin(n) PROVE Typed'
  BY <1>6, AdvanceFields DEF Rejoin, Typed
<1>7. ASSUME NEW n \in Nodes, FenceRunning(n) PROVE Typed'
  BY <1>7, AdvanceFields DEF FenceRunning, Typed, Deviate
<1>8. CASE Promote
  BY <1>8, AdvanceFields DEF Promote, Typed, Authority
<1>9. CASE FailoverDone
  BY <1>9 DEF FailoverDone, Typed
<1> QED BY <1>1, <1>2, <1>3, <1>4, <1>5, <1>6, <1>7, <1>8, <1>9 DEF Next

-----------------------------------------------------------------------------
(* Authorities and fences.                                                  *)

\* Settings and writers take their authority from what is known; only the
\* operator makes a new one, with the next epoch.
LEMMA EpochStep == Typed /\ EpochNamesNode /\ Next => EpochNamesNode'
<1> SUFFICES ASSUME Typed, EpochNamesNode, Next PROVE EpochNamesNode'
  OBVIOUS
<1>1. \A n \in Nodes : settings'[n] = settings[n] \/ settings'[n] = current'
  BY DEF Next, PostCard, Deliver, StopOld, Restore, Reconfigure, Rejoin, FenceRunning,
         Promote, FailoverDone, Typed
<1>2. \A w \in writers' : [epoch |-> w[1], node |-> w[2]] \in Known
  <2>1. \A w \in writers : [epoch |-> w[1], node |-> w[2]] \in Known
    BY DEF Known
  <2>2. ASSUME NEW n \in Nodes, Writes(n), writers' = writers \cup {<<Epoch(n), n>>}
        PROVE  \A w \in writers' : [epoch |-> w[1], node |-> w[2]] \in Known
    <3>1. settings[n] = [epoch |-> Epoch(n), node |-> n]
      BY <2>2, WriterPair
    <3>2. settings[n] \in Known
      BY DEF Known
    <3>3. ASSUME NEW w, w = <<Epoch(n), n>> PROVE [epoch |-> w[1], node |-> w[2]] \in Known
      <4>1. w[1] = Epoch(n) /\ w[2] = n
        BY <3>3
      <4> QED BY <3>1, <3>2, <4>1
    <3> QED BY <2>1, <2>2, <3>3
  <2> QED BY <2>1, <2>2, WritersGrow
<1>3. Known' \subseteq Known \cup {current'}
  BY <1>1, <1>2 DEF Known
<1>4. current' = current \/ current'.epoch = current.epoch + 1
  BY DEF Next, PostCard, Deliver, StopOld, Restore, Reconfigure, Rejoin, FenceRunning,
         Promote, FailoverDone
<1>5. current \in Known /\ current.epoch \in Nat
  BY Constants DEF Known, Typed, Authority
<1>6. \A p \in Known : p.epoch \in Nat /\ p.epoch <= current.epoch
  <2>1. \A p \in Known : p.epoch \in Nat
    <3>1. \A n \in Nodes : settings[n].epoch \in Nat
      BY Constants DEF Typed, Authority
    <3>2. \A w \in writers : w[1] \in Nat
      BY Constants DEF Typed
    <3> QED BY <1>5, <3>1, <3>2 DEF Known
  <2> QED BY <2>1 DEF EpochNamesNode
<1>7. \A p, q \in Known : p.epoch = q.epoch => p = q
  BY DEF EpochNamesNode
<1> SUFFICES ASSUME NEW p \in Known', NEW q \in Known'
             PROVE  p.epoch <= current'.epoch /\ (p.epoch = q.epoch => p = q)
  BY DEF EpochNamesNode
<1>8. p \in Known \cup {current'} /\ q \in Known \cup {current'}
  BY <1>3
<1> HIDE DEF Known
<1>9. CASE current' = current
  BY <1>5, <1>6, <1>7, <1>8, <1>9
<1>10. CASE current'.epoch = current.epoch + 1
  BY <1>5, <1>6, <1>7, <1>8, <1>10
<1> QED BY <1>4, <1>9, <1>10

\* The settings of a node are the current authority's, or of an older epoch.
LEMMA SettingsBehind ==
    ASSUME Typed, EpochNamesNode, NEW n \in Nodes
    PROVE  /\ Epoch(n) \in Nat /\ current.epoch \in Nat /\ Epoch(n) <= current.epoch
           /\ Epoch(n) = current.epoch => settings[n] = current
<1>1. settings[n] \in Known /\ current \in Known
  BY DEF Known
<1>2. Epoch(n) \in Nat /\ current.epoch \in Nat
  BY Constants DEF Typed, Authority, Epoch
<1> QED BY <1>1, <1>2 DEF EpochNamesNode, Epoch

\* A commit fences its database with the writer's settings.
LEMMA WriterFence ==
    ASSUME Typed, EpochNamesNode, NEW n \in Nodes, Writes(n), NEW d,
           d.fence.epoch = Epoch(n), d.fence.node = n
    PROVE  /\ d.fence.epoch <= current.epoch
           /\ d.fence.epoch = current.epoch => d.fence.node = current.node
  BY SettingsBehind DEF Writes, IsAuthority

\* A fence is left alone, set by a commit that its node is entitled to, raised to
\* the current authority, or copied with the file to the next authority.
FenceMoved(n) ==
    \/ current' = current /\ db'[n].fence = db[n].fence
    \/ /\ current' = current /\ Writes(n) /\ n \in up
       /\ settings'[n] = settings[n]
       /\ db'[n].fence.epoch = Epoch(n) /\ db'[n].fence.node = n
    \/ /\ current' = current
       /\ db'[n].fence.epoch = current.epoch /\ db'[n].fence.node = current.node
    \/ /\ current'.epoch = current.epoch + 1
       /\ \E m \in Nodes : db'[n].fence = db[m].fence

\* Every step moves the fences so.
LEMMA FenceStep == ASSUME Typed, Next, NEW n \in Nodes PROVE FenceMoved(n)
<1>1. ASSUME NEW r \in Runs, PostCard(r) PROVE FenceMoved(n)
  <2> DEFINE h == Home[r]
             s == NextStatus(r)
  <2>1. /\ h \in up /\ h \in Nodes /\ s \in RUN_STATUSES
        /\ \A m \in Nodes \ {h} : db'[m] = db[m]
        /\ \/ Writes(h) /\ Committed(h, r, db[h].cards[r].version + 1, s)
           \/ ~Writes(h) /\ Staged(h, r, s)
    BY <1>1, PostEffect
  <2>2. current' = current /\ settings' = settings
    BY <1>1 DEF PostCard
  <2>3. CASE n # h
    BY <2>1, <2>2, <2>3 DEF FenceMoved
  <2>4. CASE n = h
    BY <2>1, <2>2, <2>4 DEF FenceMoved, Committed, Staged
  <2> QED BY <2>3, <2>4
<1>2. ASSUME NEW m \in Nodes, NEW x \in db[m].outbox, Deliver(m, x) PROVE FenceMoved(n)
  <2> DEFINE h == settings[m].node
  <2>1. /\ h \in up /\ h \in Nodes /\ h # m /\ Writes(h)
        /\ x.run \in Runs /\ x.version \in Nat /\ x.status \in RUN_STATUSES
        /\ \A k \in Nodes \ {m, h} : db'[k] = db[k]
        /\ db'[m].fence = db[m].fence
        /\ Committed(h, x.run, x.version, x.status)
    BY <1>2, DeliverEffect
  <2>2. current' = current /\ settings' = settings
    BY <1>2 DEF Deliver
  <2>3. CASE n # h
    BY <2>1, <2>2, <2>3 DEF FenceMoved
  <2>4. CASE n = h
    BY <2>1, <2>2, <2>4 DEF FenceMoved, Committed
  <2> QED BY <2>3, <2>4
<1>3. ASSUME NEW m \in Nodes, Advance(m), current' = current PROVE FenceMoved(n)
  BY <1>3, AdvanceFields DEF FenceMoved
<1>4. ASSUME UNCHANGED <<db, current>> PROVE FenceMoved(n)
  BY <1>4 DEF FenceMoved
<1>5. ASSUME NEW m \in Nodes, Restore(m) PROVE FenceMoved(n)
  <2>1. /\ current'.epoch = current.epoch + 1 /\ current.node \in Nodes
        /\ \/ db'[n] = db[n] \/ db'[n] = db[current.node]
    BY <1>5 DEF Restore, Typed, Authority
  <2> QED BY <2>1 DEF FenceMoved
<1>6. current.node \in Nodes
  BY DEF Typed, Authority
<1> QED BY <1>1, <1>2, <1>3, <1>4, <1>5, <1>6
        DEF Next, StopOld, Reconfigure, Rejoin, FenceRunning, Promote, FailoverDone

\* No step fences a database against the current authority.
LEMMA FencesStep ==
    Typed /\ EpochNamesNode /\ FencesBehind /\ Next => FencesBehind'
<1> SUFFICES ASSUME Typed, EpochNamesNode, FencesBehind, Next, NEW n \in Nodes
             PROVE  FencesBehind!(n)'
  BY DEF FencesBehind
<1>1. current.epoch \in Nat /\ \A m \in Nodes : db[m].fence.epoch \in Nat
  BY Constants DEF Typed, Authority, Database
<1>2. \A m \in Nodes : FencesBehind!(m)
  BY DEF FencesBehind
<1>3. Writes(n) => /\ Epoch(n) <= current.epoch
                   /\ Epoch(n) = current.epoch => n = current.node
  BY SettingsBehind DEF Writes, IsAuthority
<1>4. FenceMoved(n)
  BY FenceStep
<1> QED BY <1>1, <1>2, <1>3, <1>4 DEF FenceMoved

\* The current authority, when it runs, is entitled to write.
LEMMA CurrentWrites ==
    ASSUME Typed, FencesBehind, AuthorityIsConfigured, current.node \in up
    PROVE  Writes(current.node)
<1>1. current.node \in Nodes /\ current.epoch \in Nat /\ settings[current.node] = current
  BY Constants DEF Typed, Authority, AuthorityIsConfigured
<1>2. db[current.node].fence.epoch \in Nat
  BY <1>1 DEF Typed, Database
<1> QED BY <1>1, <1>2 DEF FencesBehind, Writes, IsAuthority, Fenced, Epoch, check_fence

\* The current authority is started with its own settings, after its promotion,
\* and stages nothing.
LEMMA ConfiguredStep ==
    Typed /\ FencesBehind /\ AuthorityIsConfigured /\ Next => AuthorityIsConfigured'
<1> SUFFICES ASSUME Typed, FencesBehind, AuthorityIsConfigured, Next
             PROVE  AuthorityIsConfigured'
  OBVIOUS
<1>1. current.node \in Nodes
  BY DEF Typed, Authority
<1>2. ASSUME NEW r \in Runs, PostCard(r) PROVE AuthorityIsConfigured'
  <2> DEFINE h == Home[r]
             s == NextStatus(r)
  <2>1. /\ h \in up /\ h \in Nodes /\ s \in RUN_STATUSES
        /\ \A m \in Nodes \ {h} : db'[m] = db[m]
        /\ \/ Writes(h) /\ Committed(h, r, db[h].cards[r].version + 1, s)
           \/ ~Writes(h)
    BY <1>2, PostEffect
  <2>2. CASE current.node # h
    BY <1>1, <1>2, <2>1, <2>2 DEF AuthorityIsConfigured, PostCard
  <2>3. CASE current.node = h
    <3>1. Writes(h)
      BY <2>1, <2>3, CurrentWrites
    <3> QED BY <1>1, <1>2, <2>1, <2>3, <3>1 DEF AuthorityIsConfigured, PostCard, Committed
  <2> QED BY <2>2, <2>3
<1>3. ASSUME NEW m \in Nodes, NEW x \in db[m].outbox, Deliver(m, x)
      PROVE  AuthorityIsConfigured'
  <2> DEFINE h == settings[m].node
  <2>1. /\ h \in Nodes /\ Writes(h)
        /\ x.run \in Runs /\ x.version \in Nat /\ x.status \in RUN_STATUSES
        /\ \A k \in Nodes \ {m, h} : db'[k] = db[k]
        /\ Committed(h, x.run, x.version, x.status)
    BY <1>3, DeliverEffect
  <2>2. current.node # m
    BY DEF AuthorityIsConfigured
  <2>3. db'[current.node].outbox = db[current.node].outbox
    BY <1>1, <2>1, <2>2 DEF Committed
  <2> QED BY <1>3, <2>3 DEF AuthorityIsConfigured, Deliver
<1>4. ASSUME NEW m \in Nodes, Advance(m)
      PROVE  db'[current.node].outbox = db[current.node].outbox
  BY <1>1, <1>4, AdvanceFields
<1>5. CASE StopOld \/ FailoverDone
  BY <1>5 DEF StopOld, FailoverDone, AuthorityIsConfigured
<1>6. ASSUME NEW m \in Nodes, Restore(m) PROVE AuthorityIsConfigured'
  <2>1. current'.node = m /\ m \notin up' /\ db'[m] = db[current.node]
    BY <1>6 DEF Restore, Typed
  <2> QED BY <2>1 DEF AuthorityIsConfigured
<1>7. ASSUME NEW m \in Nodes, Reconfigure(m) PROVE AuthorityIsConfigured'
  <2>1. db'[current.node].outbox = db[current.node].outbox
    BY <1>4, <1>7 DEF Reconfigure
  <2> QED BY <1>1, <1>7, <2>1 DEF Reconfigure, AuthorityIsConfigured, Typed
<1>8. ASSUME NEW m \in Nodes, Rejoin(m) PROVE AuthorityIsConfigured'
  BY <1>1, <1>4, <1>8 DEF Rejoin, AuthorityIsConfigured
<1>9. ASSUME NEW m \in Nodes, FenceRunning(m) PROVE AuthorityIsConfigured'
  BY <1>1, <1>4, <1>9 DEF FenceRunning, AuthorityIsConfigured
<1>10. CASE Promote
  BY <1>1, <1>4, <1>10 DEF Promote, AuthorityIsConfigured
<1> QED BY <1>2, <1>3, <1>5, <1>6, <1>7, <1>8, <1>9, <1>10 DEF Next

-----------------------------------------------------------------------------
(* Who writes.                                                              *)

\* A node's entitlement depends on its settings and its fence.
LEMMA WritesStable ==
    ASSUME NEW n \in Nodes, settings'[n] = settings[n], db'[n].fence = db[n].fence
    PROVE  Writes(n)' <=> Writes(n)
  BY DEF Writes, IsAuthority, Fenced, Epoch

\* A card that is posted changes no node's entitlement.
LEMMA PostKeepsWriters ==
    ASSUME Typed, NEW r \in Runs, PostCard(r), NEW n \in Nodes
    PROVE  Writes(n)' <=> Writes(n)
<1> DEFINE h == Home[r]
           s == NextStatus(r)
<1>1. /\ h \in Nodes
      /\ \A m \in Nodes \ {h} : db'[m] = db[m]
      /\ \/ Writes(h) /\ Committed(h, r, db[h].cards[r].version + 1, s)
         \/ ~Writes(h) /\ Staged(h, r, s)
  BY PostEffect
<1>2. settings' = settings
  BY DEF PostCard
<1>3. CASE n # h \/ ~Writes(h)
  BY <1>1, <1>2, <1>3, WritesStable DEF Staged
<1>4. CASE n = h /\ Writes(h)
  BY <1>1, <1>2, <1>4 DEF Committed, Writes, IsAuthority, Fenced, Epoch
<1> QED BY <1>3, <1>4

\* Nor does a delivery.
LEMMA DeliverKeepsWriters ==
    ASSUME Typed, NEW m \in Nodes, NEW x \in db[m].outbox, Deliver(m, x), NEW n \in Nodes
    PROVE  Writes(n)' <=> Writes(n)
<1> DEFINE h == settings[m].node
<1>1. /\ h \in Nodes /\ Writes(h)
      /\ \A k \in Nodes \ {m, h} : db'[k] = db[k]
      /\ db'[m].fence = db[m].fence
      /\ Committed(h, x.run, x.version, x.status)
  BY DeliverEffect
<1>2. settings' = settings
  BY DEF Deliver
<1>3. CASE n # h
  BY <1>1, <1>2, <1>3, WritesStable
<1>4. CASE n = h
  BY <1>1, <1>2, <1>4 DEF Committed, Writes, IsAuthority, Fenced, Epoch
<1> QED BY <1>3, <1>4

\* Raising the fence of another node's database to the current authority ends
\* that node's entitlement, and no other.
LEMMA AdvanceEndsWriter ==
    ASSUME Typed, EpochNamesNode, NEW m \in Nodes, m # current.node, Advance(m),
           settings' = settings, NEW n \in Nodes
    PROVE  Writes(n)' => Writes(n) /\ n # m
<1>1. /\ \A k \in Nodes \ {m} : db'[k] = db[k]
      /\ db'[m].fence.epoch = current.epoch /\ db'[m].fence.node = current.node
  BY AdvanceFields
<1>2. CASE n # m
  BY <1>1, <1>2, WritesStable
<1>3. CASE n = m
  <2>1. /\ Epoch(m) \in Nat /\ current.epoch \in Nat /\ Epoch(m) <= current.epoch
        /\ current.node \in Nodes
    BY SettingsBehind DEF Typed, Authority
  <2>2. ~check_fence(db'[m].fence, Epoch(m), m)
    BY <1>1, <2>1, Constants DEF check_fence
  <2> QED BY <1>3, <2>2 DEF Writes, Fenced, Epoch
<1> QED BY <1>2, <1>3

\* The deviations of the past are remembered.
LEMMA DeviatedGrows == Next => deviated \subseteq deviated'
  BY DEF Next, PostCard, Deliver, StopOld, Restore, Reconfigure, Rejoin, FenceRunning,
         Promote, FailoverDone, Deviate

\* With every old authority stopped first, no step makes a second writer.
LEMMA WriterStep ==
    Typed /\ EpochNamesNode /\ OnlyCurrentWrites /\ Next => OnlyCurrentWrites'
<1> SUFFICES ASSUME Typed, EpochNamesNode, OnlyCurrentWrites, Next,
                    "unreachable" \notin deviated'
             PROVE  OnlyCurrentWrites!2'
  BY DEF OnlyCurrentWrites
<1>1. /\ \A n \in up : Writes(n) => n = current.node
      /\ step = "stopped" => current.node \notin up
  BY DeviatedGrows DEF OnlyCurrentWrites
<1>2. current.node \in Nodes /\ up \subseteq Nodes
  BY DEF Typed, Authority
<1>3. ASSUME \A n \in up : Writes(n)' => Writes(n), UNCHANGED <<up, current, step>>
      PROVE  OnlyCurrentWrites!2'
  BY <1>1, <1>3
<1>4. ASSUME NEW r \in Runs, PostCard(r) PROVE OnlyCurrentWrites!2'
  BY <1>2, <1>3, <1>4, PostKeepsWriters DEF PostCard
<1>5. ASSUME NEW m \in Nodes, NEW x \in db[m].outbox, Deliver(m, x)
      PROVE  OnlyCurrentWrites!2'
  BY <1>2, <1>3, <1>5, DeliverKeepsWriters DEF Deliver
<1>6. CASE StopOld
  <2>1. /\ up' = up \ {current.node} /\ current' = current
        /\ settings' = settings /\ db' = db
    BY <1>6 DEF StopOld, Deviate
  <2>2. \A n \in Nodes : Writes(n)' <=> Writes(n)
    BY <2>1, WritesStable
  <2> QED BY <1>1, <1>2, <2>1, <2>2
<1>7. ASSUME NEW m \in Nodes, Restore(m) PROVE OnlyCurrentWrites!2'
  <2>1. /\ step = "stopped" /\ step' = "restored" /\ up' = up \ {m} /\ settings' = settings
        /\ \A k \in Nodes \ {m} : db'[k] = db[k]
    BY <1>7 DEF Restore, Typed
  <2>2. \A n \in up' : Writes(n)' <=> Writes(n)
    BY <1>2, <2>1, WritesStable
  <2> QED BY <1>1, <2>1, <2>2
<1>8. ASSUME NEW m \in Nodes, Reconfigure(m) PROVE OnlyCurrentWrites!2'
  <2>1. /\ step' = "promoted" /\ up' = up \cup {m} /\ current' = current
        /\ settings'[m] = current /\ \A k \in Nodes \ {m} : settings'[k] = settings[k]
    BY <1>8 DEF Reconfigure, Typed
  <2>2. \A k \in Nodes \ {m} : db'[k] = db[k]
    BY <1>8, AdvanceFields DEF Reconfigure
  <2>3. \A n \in up \ {m} : Writes(n)' <=> Writes(n)
    BY <1>2, <2>1, <2>2, WritesStable
  <2>4. Writes(m)' => m = current.node
    BY <2>1 DEF Writes, IsAuthority
  <2> QED BY <1>1, <2>1, <2>3, <2>4
<1>9. ASSUME NEW m \in Nodes, Rejoin(m) PROVE OnlyCurrentWrites!2'
  <2>1. /\ step' = "promoted" /\ up' = up \cup {m} /\ current' = current
        /\ settings' = settings /\ Advance(m) /\ m # current.node
    BY <1>9 DEF Rejoin
  <2>2. \A n \in Nodes : Writes(n)' => Writes(n) /\ n # m
    BY <2>1, AdvanceEndsWriter
  <2> QED BY <1>1, <1>2, <2>1, <2>2
<1>10. ASSUME NEW m \in Nodes, FenceRunning(m) PROVE OnlyCurrentWrites!2'
  <2>1. /\ UNCHANGED <<up, current, step>>
        /\ settings' = settings /\ Advance(m) /\ m # current.node
    BY <1>10 DEF FenceRunning
  <2>2. \A n \in Nodes : Writes(n)' => Writes(n) /\ n # m
    BY <2>1, AdvanceEndsWriter
  <2> QED BY <1>2, <1>3, <2>1, <2>2
<1>11. CASE Promote
  <2>1. /\ step' = "promoted" /\ up' = up /\ current' = current /\ settings' = settings
        /\ Advance(current.node)
    BY <1>11 DEF Promote
  <2>2. \A n \in Nodes \ {current.node} : Writes(n)' <=> Writes(n)
    BY <1>2, <2>1, AdvanceFields, WritesStable
  <2> QED BY <1>1, <1>2, <2>1, <2>2
<1>12. CASE FailoverDone
  <2>1. step' = "normal" /\ UNCHANGED <<up, current, settings, db>>
    BY <1>12 DEF FailoverDone
  <2>2. \A n \in Nodes : Writes(n)' <=> Writes(n)
    BY <2>1, WritesStable
  <2> QED BY <1>1, <1>2, <2>1, <2>2
<1> QED BY <1>4, <1>5, <1>6, <1>7, <1>8, <1>9, <1>10, <1>11, <1>12 DEF Next

-----------------------------------------------------------------------------
(* The numbers of cards.                                                    *)

\* Numbers stay good when more cards are posted, or runs end.
LEMMA NumberedGrows ==
    ASSUME NEW d \in Database, NEW e \in Database,
           e.cards = d.cards, e.counters = d.counters, e.outbox = d.outbox,
           NEW p \in [Runs -> 0..Done], NEW q \in [Runs -> 0..Done],
           \A r \in Runs : p[r] <= q[r], Numbered(d, p)
    PROVE  Numbered(e, q)
<1>1. /\ \A r \in Runs : p[r] \in Nat /\ q[r] \in Nat
      /\ \A r \in Runs : d.cards[r].version \in Nat /\ d.counters[r] \in Nat
      /\ \A x \in d.outbox : x.run \in Runs /\ x.version \in Nat
  BY Constants DEF Database, Card, Entry
<1> QED BY <1>1 DEF Numbered

\* A node that posts a card gives it the next number of the run.
LEMMA PostNumber ==
    ASSUME Typed, NEW r \in Runs, posted[r] < Done, NEW d \in Database, d = db[Home[r]],
           Numbered(d, posted), CountedAtHome(r)
    PROVE  /\ Writes(Home[r]) => d.cards[r].version + 1 = posted[r] + 1
           /\ ~Writes(Home[r]) => d.counters[r] + 1 = posted[r] + 1
<1>1. /\ posted[r] \in Nat /\ d.cards[r].version \in Nat /\ d.counters[r] \in Nat
      /\ d.cards[r].version <= posted[r] /\ d.counters[r] <= posted[r]
  BY Constants DEF Typed, Database, Card, Numbered
<1>2. CASE posted[r] = 0
  BY <1>1, <1>2
<1>3. CASE posted[r] # 0
  <2>1. posted[r] \in 1..MaxCards
    BY <1>1, <1>3, Constants
  <2> QED BY <2>1 DEF CountedAtHome
<1> QED BY <1>2, <1>3

\* A commit of the next card, or of a card with a number in use, keeps the numbers.
LEMMA CommitNumbered ==
    ASSUME Typed, NEW n \in Nodes, db' \in [Nodes -> Database], NEW r \in Runs, NEW v \in Nat,
           NEW s \in RUN_STATUSES, Committed(n, r, v, s), posted' \in [Runs -> 0..Done],
           \A q \in Runs : posted[q] <= posted'[q],
           v <= posted'[r], s \in TERMINAL_STATUSES <=> v = Done,
           Numbered(db[n], posted)
    PROVE  Numbered(db'[n], posted')
<1>1. /\ \A q \in Runs : posted[q] \in Nat /\ posted'[q] \in Nat
      /\ \A q \in Runs : db[n].cards[q].version \in Nat /\ db[n].counters[q] \in Nat
      /\ \A x \in db[n].outbox : x.run \in Runs /\ x.version \in Nat
  BY Constants DEF Typed, Database, Card, Entry
<1>2. \/ db'[n].cards[r].version = v /\ db'[n].cards[r].status = s
      \/ db'[n].cards[r] = db[n].cards[r]
  BY DEF Committed
<1>3. /\ \A q \in Runs \ {r} : db'[n].cards[q] = db[n].cards[q]
      /\ db'[n].counters = db[n].counters /\ db'[n].outbox = db[n].outbox
  BY DEF Committed
<1> QED BY <1>1, <1>2, <1>3 DEF Numbered

\* Staging the next card keeps the numbers.
LEMMA StageNumbered ==
    ASSUME Typed, NEW n \in Nodes, db' \in [Nodes -> Database], NEW r \in Runs,
           NEW s \in RUN_STATUSES, Staged(n, r, s), posted' \in [Runs -> 0..Done],
           \A q \in Runs : posted[q] <= posted'[q], posted[r] < posted'[r],
           db[n].counters[r] + 1 = posted'[r],
           s \in TERMINAL_STATUSES <=> posted'[r] = Done,
           Numbered(db[n], posted)
    PROVE  Numbered(db'[n], posted')
<1> DEFINE e == [run |-> r, version |-> posted'[r], status |-> s, delivered |-> FALSE]
<1>1. /\ \A q \in Runs : posted[q] \in Nat /\ posted'[q] \in Nat
      /\ \A q \in Runs : db[n].cards[q].version \in Nat /\ db[n].counters[q] \in Nat
      /\ \A x \in db[n].outbox : x.run \in Runs /\ x.version \in Nat
  BY Constants DEF Typed, Database, Card, Entry
<1>2. e.run = r /\ e.version = posted'[r] /\ e.status = s
  OBVIOUS
<1>3. /\ db'[n].cards = db[n].cards /\ db'[n].counters[r] = posted'[r]
      /\ \A q \in Runs \ {r} : db'[n].counters[q] = db[n].counters[q]
      /\ \A x \in db'[n].outbox : x \in db[n].outbox \/ x = e
  BY DEF Staged
<1> HIDE DEF e
<1> QED BY <1>1, <1>2, <1>3 DEF Numbered

\* The numbers hold in all databases, and the runs in progress are counted.
GoodNumbers == /\ \A n \in Nodes : Numbered(db[n], posted)
               /\ \A r \in Runs : CountedAtHome(r)

\* A step after which the runs in progress are ones that were, at nodes whose
\* entitlement and numbers it leaves alone.
LEMMA CountedKept ==
    ASSUME NEW r \in Runs, CountedAtHome(r),
           posted'[r] \in 1..MaxCards =>
               /\ posted'[r] = posted[r] /\ (Home[r] \in up => Home[r] \in up')
               /\ Home[r] \in up => /\ Writes(Home[r])' <=> Writes(Home[r])
                                    /\ db'[Home[r]].cards = db[Home[r]].cards
                                    /\ db'[Home[r]].counters = db[Home[r]].counters
    PROVE  CountedAtHome(r)'
<1> SUFFICES ASSUME posted'[r] \in 1..MaxCards PROVE CountedAtHome(r)!2'
  BY DEF CountedAtHome
<1>1. posted'[r] = posted[r] /\ posted[r] \in 1..MaxCards
  OBVIOUS
<1>2. CountedAtHome(r)!2
  BY <1>1 DEF CountedAtHome
<1>3. /\ Home[r] \in up' /\ (Writes(Home[r])' <=> Writes(Home[r]))
      /\ db'[Home[r]].cards = db[Home[r]].cards
      /\ db'[Home[r]].counters = db[Home[r]].counters
  BY <1>2
<1> QED BY <1>1, <1>2, <1>3

\* The card that is posted gets the next number.
LEMMA PostNumbers ==
    ASSUME Typed, GoodNumbers, NEW r \in Runs, PostCard(r)
    PROVE  GoodNumbers'
<1> DEFINE h == Home[r]
           s == NextStatus(r)
<1>1. /\ h \in up /\ h \in Nodes /\ posted[r] < Done
      /\ posted' \in [Runs -> 0..Done] /\ posted'[r] = posted[r] + 1
      /\ \A q \in Runs \ {r} : posted'[q] = posted[q]
      /\ s \in RUN_STATUSES /\ (s \in TERMINAL_STATUSES <=> posted'[r] = Done)
      /\ db' \in [Nodes -> Database]
      /\ \A m \in Nodes \ {h} : db'[m] = db[m]
  BY PostEffect
<1>2. \/ Writes(h) /\ Committed(h, r, db[h].cards[r].version + 1, s)
      \/ ~Writes(h) /\ Staged(h, r, s)
  BY PostEffect
<1>3. /\ posted \in [Runs -> 0..Done] /\ db[h] \in Database
      /\ \A q \in Runs : posted[q] \in Nat /\ posted'[q] \in Nat
      /\ \A q \in Runs : posted[q] <= posted'[q]
  BY <1>1, Constants DEF Typed
<1>4. Numbered(db[h], posted) /\ CountedAtHome(r)
  BY <1>1 DEF GoodNumbers
<1>5. /\ Writes(h) => db[h].cards[r].version + 1 = posted'[r]
      /\ ~Writes(h) => db[h].counters[r] + 1 = posted'[r]
  BY <1>1, <1>3, <1>4, PostNumber
<1>6. Writes(h)' <=> Writes(h)
  BY <1>1, PostKeepsWriters
<1>7. up' = up
  BY DEF PostCard
<1> HIDE DEF h, s
<1>8. \A n \in Nodes : Numbered(db'[n], posted')
  <2>1. CASE Writes(h)
    <3>1. Committed(h, r, posted'[r], s)
      BY <1>2, <1>5, <2>1
    <3>2. Numbered(db'[h], posted')
      BY <1>1, <1>3, <1>4, <3>1, CommitNumbered
    <3>3. ASSUME NEW n \in Nodes \ {h} PROVE Numbered(db'[n], posted')
      BY <1>1, <1>3, NumberedGrows DEF GoodNumbers, Typed
    <3> QED BY <3>2, <3>3
  <2>2. CASE ~Writes(h)
    <3>1. Staged(h, r, s) /\ db[h].counters[r] + 1 = posted'[r] /\ posted[r] < posted'[r]
      BY <1>1, <1>2, <1>3, <1>5, <2>2
    <3>2. Numbered(db'[h], posted')
      BY <1>1, <1>3, <1>4, <3>1, StageNumbered
    <3>3. ASSUME NEW n \in Nodes \ {h} PROVE Numbered(db'[n], posted')
      BY <1>1, <1>3, NumberedGrows DEF GoodNumbers, Typed
    <3> QED BY <3>2, <3>3
  <2> QED BY <2>1, <2>2
<1>9. ASSUME NEW q \in Runs PROVE CountedAtHome(q)'
  <2>1. CASE q = r
    <3>1. Writes(h) => db'[h].cards[r].version = posted'[r]
      <4> SUFFICES ASSUME Writes(h) PROVE db'[h].cards[r].version = posted'[r]
        OBVIOUS
      <4>1. /\ Committed(h, r, posted'[r], s)
            /\ db[h].cards[r].version \in Nat /\ posted'[r] > db[h].cards[r].version
            /\ db[h].cards[r].version < Done
        BY <1>1, <1>2, <1>3, <1>5, Constants DEF Database, Card
      <4>2. db[h].cards[r].status \notin TERMINAL_STATUSES
        BY <1>4, <4>1, Constants DEF Numbered
      <4>3. decide(db[h].cards[r], posted'[r], s) = "applied"
        BY <1>3, <4>1, <4>2 DEF decide
      <4> QED BY <4>1, <4>3 DEF Committed
    <3>2. ~Writes(h) => db'[h].counters[r] = posted'[r]
      BY <1>2, <1>5 DEF Staged
    <3> QED BY <1>1, <1>6, <1>7, <2>1, <3>1, <3>2 DEF CountedAtHome, h
  <2>2. CASE q # r
    <3>1. Home[q] \in Nodes /\ CountedAtHome(q) /\ posted'[q] = posted[q]
      BY <1>1, <2>2, Constants DEF GoodNumbers
    <3>2. Writes(Home[q])' <=> Writes(Home[q])
      BY <3>1, PostKeepsWriters
    <3>3. /\ db'[Home[q]].cards[q] = db[Home[q]].cards[q]
          /\ db'[Home[q]].counters[q] = db[Home[q]].counters[q]
      BY <1>1, <1>2, <2>2, <3>1 DEF Committed, Staged
    <3> QED BY <1>7, <3>1, <3>2, <3>3 DEF CountedAtHome
  <2> QED BY <2>1, <2>2
<1> QED BY <1>8, <1>9 DEF GoodNumbers

\* A delivery brings a number that is in use.
LEMMA DeliverNumbers ==
    ASSUME Typed, GoodNumbers, NEW m \in Nodes, NEW x \in db[m].outbox, Deliver(m, x)
    PROVE  GoodNumbers'
<1> DEFINE h == settings[m].node
           y == [x EXCEPT !.delivered = TRUE]
<1>1. /\ h \in Nodes /\ h # m /\ Writes(h)
      /\ x \in Entry /\ x.run \in Runs /\ x.version \in Nat /\ x.status \in RUN_STATUSES
      /\ db' \in [Nodes -> Database]
      /\ \A n \in Nodes \ {m, h} : db'[n] = db[n]
      /\ db'[m].cards = db[m].cards /\ db'[m].counters = db[m].counters
      /\ db'[m].outbox = (db[m].outbox \ {x}) \cup {y}
      /\ Committed(h, x.run, x.version, x.status)
  BY DeliverEffect
<1>2. UNCHANGED <<up, posted, settings>>
  BY DEF Deliver
<1>3. /\ posted \in [Runs -> 0..Done] /\ \A q \in Runs : posted[q] \in Nat
      /\ \A n \in Nodes : db[n] \in Database
  BY Constants DEF Typed
<1>4. /\ \A n \in Nodes : Numbered(db[n], posted)
      /\ \A q \in Runs : CountedAtHome(q)
  BY DEF GoodNumbers
<1>5. /\ x.version <= posted[x.run]
      /\ x.status \in TERMINAL_STATUSES <=> x.version = Done
      /\ \A z \in db[m].outbox : z.run = x.run /\ z.version = x.version => z = x
  BY <1>4 DEF Numbered
<1>6. y.run = x.run /\ y.version = x.version /\ y.status = x.status
  BY <1>1 DEF Entry
<1> HIDE DEF h, y
<1>7. Numbered(db'[m], posted')
  <2>1. \A z \in db'[m].outbox : z = y \/ (z \in db[m].outbox /\ z # x)
    BY <1>1
  <2>2. Numbered(db[m], posted)
    BY <1>4
  <2> QED BY <1>1, <1>2, <1>5, <1>6, <2>1, <2>2 DEF Numbered
<1>8. Numbered(db'[h], posted')
  BY <1>1, <1>2, <1>3, <1>4, <1>5, CommitNumbered
<1>9. \A n \in Nodes : Numbered(db'[n], posted')
  BY <1>1, <1>2, <1>4, <1>7, <1>8
<1>10. ASSUME NEW q \in Runs PROVE CountedAtHome(q)'
  <2>1. Home[q] \in Nodes /\ CountedAtHome(q)
    BY <1>4, Constants
  <2>2. Writes(Home[q])' <=> Writes(Home[q])
    BY <2>1, DeliverKeepsWriters
  <2>3. db'[Home[q]].counters = db[Home[q]].counters
    BY <1>1, <2>1 DEF Committed
  <2>4. /\ posted[q] \in 1..MaxCards /\ Writes(Home[q])
        => db'[Home[q]].cards[q] = db[Home[q]].cards[q]
    <3> SUFFICES ASSUME posted[q] \in 1..MaxCards, Writes(Home[q])
                 PROVE  db'[Home[q]].cards[q] = db[Home[q]].cards[q]
      OBVIOUS
    <3>1. db[Home[q]].cards[q].version = posted[q]
      BY <2>1 DEF CountedAtHome
    <3>2. CASE Home[q] # h \/ q # x.run
      BY <1>1, <2>1, <3>2 DEF Committed
    <3>3. CASE Home[q] = h /\ q = x.run
      <4>1. decide(db[h].cards[q], x.version, x.status) # "applied"
        BY <1>1, <1>3, <1>5, <3>1, <3>3 DEF decide
      <4> QED BY <1>1, <3>3, <4>1 DEF Committed
    <3> QED BY <3>2, <3>3
  <2> QED BY <1>2, <2>1, <2>2, <2>3, <2>4 DEF CountedAtHome
<1> QED BY <1>9, <1>10 DEF GoodNumbers

\* Unless an authority is fenced while it runs, every step keeps the numbers:
\* what stops, restarts or replaces a node ends the runs it numbers.
LEMMA NumbersStep ==
    Typed /\ AuthorityIsConfigured /\ CardsNumbered /\ Next => CardsNumbered'
<1> SUFFICES ASSUME Typed, AuthorityIsConfigured, CardsNumbered, Next,
                    "live_fence" \notin deviated'
             PROVE  GoodNumbers'
  BY DEF CardsNumbered, GoodNumbers
<1>1. GoodNumbers
  BY DeviatedGrows DEF CardsNumbered, GoodNumbers
<1>2. /\ posted \in [Runs -> 0..Done] /\ \A q \in Runs : posted[q] \in Nat
      /\ \A n \in Nodes : db[n] \in Database
      /\ \A q \in Runs : Home[q] \in Nodes /\ CountedAtHome(q)
      /\ \A n \in Nodes : Numbered(db[n], posted)
      /\ current.node \in Nodes
  BY <1>1, Constants DEF Typed, GoodNumbers, Authority
<1>3. posted' \in [Runs -> 0..Done] /\ db' \in [Nodes -> Database]
  BY TypedStep DEF Typed
<1>4. ASSUME \A q \in Runs : posted[q] <= posted'[q],
             \A n \in Nodes : \E m \in Nodes :
                 /\ db'[n].cards = db[m].cards /\ db'[n].counters = db[m].counters
                 /\ db'[n].outbox = db[m].outbox,
             \A q \in Runs : posted'[q] \in 1..MaxCards =>
               /\ posted'[q] = posted[q] /\ (Home[q] \in up => Home[q] \in up')
               /\ Home[q] \in up => /\ Writes(Home[q])' <=> Writes(Home[q])
                                    /\ db'[Home[q]].cards = db[Home[q]].cards
                                    /\ db'[Home[q]].counters = db[Home[q]].counters
      PROVE  GoodNumbers'
  <2>1. ASSUME NEW n \in Nodes PROVE Numbered(db'[n], posted')
    <3>1. PICK m \in Nodes : /\ db'[n].cards = db[m].cards /\ db'[n].counters = db[m].counters
                             /\ db'[n].outbox = db[m].outbox
      BY <1>4
    <3>2. db'[n] \in Database /\ db[m] \in Database /\ Numbered(db[m], posted)
      BY <1>2, <1>3
    <3>3. /\ posted \in [Runs -> 0..Done] /\ posted' \in [Runs -> 0..Done]
          /\ \A q \in Runs : posted[q] <= posted'[q]
      BY <1>2, <1>3, <1>4
    <3> QED BY <3>1, <3>2, <3>3, NumberedGrows
  <2>2. ASSUME NEW q \in Runs PROVE CountedAtHome(q)'
    BY <1>2, <1>4, CountedKept
  <2> QED BY <2>1, <2>2 DEF GoodNumbers
<1>5. ASSUME NEW n \in Nodes
      PROVE  /\ \A q \in Runs : posted[q] <= Ended(n)[q]
             /\ \A q \in Runs : Ended(n)[q] \in 1..MaxCards =>
                                   Home[q] # n /\ Ended(n)[q] = posted[q]
  BY <1>2, EndedRuns, Constants DEF Typed
<1>6. ASSUME NEW r \in Runs, PostCard(r) PROVE GoodNumbers'
  BY <1>1, <1>6, PostNumbers
<1>7. ASSUME NEW m \in Nodes, NEW x \in db[m].outbox, Deliver(m, x) PROVE GoodNumbers'
  BY <1>1, <1>7, DeliverNumbers
<1>8. CASE StopOld
  <2>1. db' = db /\ \A n \in Nodes : Writes(n)' <=> Writes(n)
    BY <1>8, WritesStable DEF StopOld
  <2>2. CASE posted' = posted /\ up' = up
    BY <1>2, <1>4, <2>1, <2>2
  <2>3. CASE posted' = Ended(current.node) /\ up' = up \ {current.node}
    BY <1>2, <1>4, <1>5, <2>1, <2>3
  <2> QED BY <1>8, <2>2, <2>3 DEF StopOld
<1>9. ASSUME NEW m \in Nodes, Restore(m) PROVE GoodNumbers'
  <2>1. /\ db'[m] = db[current.node] /\ \A n \in Nodes \ {m} : db'[n] = db[n]
        /\ settings' = settings /\ up' = up \ {m} /\ posted' = Ended(m)
    BY <1>9 DEF Restore, Typed
  <2>2. \A n \in Nodes \ {m} : Writes(n)' <=> Writes(n)
    BY <2>1, WritesStable
  <2>3. \A n \in Nodes : db'[n] = db[n] \/ db'[n] = db[current.node]
    BY <2>1
  <2> QED BY <1>2, <1>4, <1>5, <2>1, <2>2, <2>3
<1>10. ASSUME NEW m \in Nodes, Advance(m)
       PROVE  /\ \A n \in Nodes : /\ db'[n].cards = db[n].cards
                                   /\ db'[n].counters = db[n].counters
                                   /\ db'[n].outbox = db[n].outbox
              /\ \A n \in Nodes \ {m} : db'[n] = db[n]
  BY <1>10, AdvanceFields
<1>11. ASSUME NEW m \in Nodes, Reconfigure(m) PROVE GoodNumbers'
  <2>1. /\ \A n \in Nodes \ {m} : settings'[n] = settings[n]
        /\ up' = up \cup {m} /\ posted' = Ended(m)
    BY <1>11 DEF Reconfigure, Typed
  <2>2. /\ \A n \in Nodes : /\ db'[n].cards = db[n].cards
                             /\ db'[n].counters = db[n].counters
                             /\ db'[n].outbox = db[n].outbox
        /\ \A n \in Nodes \ {m} : db'[n] = db[n]
    BY <1>10, <1>11 DEF Reconfigure
  <2>3. \A n \in Nodes \ {m} : Writes(n)' <=> Writes(n)
    BY <2>1, <2>2, WritesStable
  <2> QED BY <1>2, <1>4, <1>5, <2>1, <2>2, <2>3
<1>12. ASSUME NEW m \in Nodes, m \notin up, Advance(m), UNCHANGED <<settings, posted>>,
              up \subseteq up'
       PROVE  GoodNumbers'
  <2>1. \A n \in Nodes \ {m} : Writes(n)' <=> Writes(n)
    BY <1>10, <1>12, WritesStable
  <2>2. \A q \in Runs : Home[q] \in up => Home[q] \in Nodes \ {m}
    BY <1>2, <1>12
  <2> QED BY <1>2, <1>4, <1>10, <1>12, <2>1, <2>2
<1>13. ASSUME NEW m \in Nodes, Rejoin(m) PROVE GoodNumbers'
  BY <1>12, <1>13 DEF Rejoin
<1>14. ASSUME NEW m \in Nodes, FenceRunning(m) PROVE GoodNumbers'
  BY <1>14 DEF FenceRunning, Deviate
<1>15. CASE Promote
  BY <1>2, <1>12, <1>15 DEF Promote, AuthorityIsConfigured
<1>16. CASE FailoverDone
  <2>1. UNCHANGED <<db, up, posted, settings>>
    BY <1>16 DEF FailoverDone
  <2>2. \A n \in Nodes : Writes(n)' <=> Writes(n)
    BY <2>1, WritesStable
  <2> QED BY <1>2, <1>4, <2>1, <2>2
<1> QED BY <1>6, <1>7, <1>8, <1>9, <1>11, <1>13, <1>14, <1>15, <1>16 DEF Next

-----------------------------------------------------------------------------
(* Final cards.                                                             *)

\* A commit reopens no card.
LEMMA FinalStays ==
    ASSUME Typed, NEW n \in Nodes, NEW r \in Runs, NEW v \in Nat, NEW s \in RUN_STATUSES,
           Committed(n, r, v, s), NEW q \in Runs, db[n].cards[q].status \in TERMINAL_STATUSES
    PROVE  db'[n].cards[q].status \in TERMINAL_STATUSES
<1>1. db[n].cards[q] \in Card
  BY DEF Typed, Database
<1> QED BY <1>1 DEF Committed, decide

\* A commit of the final card leaves a final card, where the numbers hold.
LEMMA FinalArrives ==
    ASSUME Typed, NEW n \in Nodes, NEW r \in Runs, NEW s \in TERMINAL_STATUSES,
           Committed(n, r, Done, s), Numbered(db[n], posted)
    PROVE  db'[n].cards[r].status \in TERMINAL_STATUSES
<1>1. /\ db[n].cards[r].version \in Nat /\ db[n].cards[r].version <= Done
      /\ db[n].cards[r].version = Done => db[n].cards[r].status \in TERMINAL_STATUSES
  <2>1. db[n].cards[r].version \in Nat /\ posted[r] \in 0..Done
    BY DEF Typed, Database, Card
  <2> QED BY <2>1, Constants DEF Numbered
<1>2. CASE db[n].cards[r].version = Done
  BY <1>1, <1>2, Constants DEF Committed, decide
<1>3. CASE db[n].cards[r].version < Done
  <2>1. decide(db[n].cards[r], Done, s) = "applied"
    BY <1>1, <1>3, Constants DEF decide
  <2> QED BY <2>1 DEF Committed
<1> QED BY <1>1, <1>2, <1>3, Constants

\* In a failover that went by the procedure every step keeps a final card at the
\* authority, on its way there, or brings it there.
LEMMA FinalStep ==
    /\ Typed /\ OnlyCurrentWrites /\ CardsNumbered /\ FinalAccounted /\ Next
    => FinalAccounted'
<1> SUFFICES ASSUME Typed, OnlyCurrentWrites, CardsNumbered, FinalAccounted, Next,
                    deviated' = {}, NEW r \in final'
             PROVE  FinalAccounted!2!(r)'
  BY DEF FinalAccounted
<1>1. deviated = {}
  BY DeviatedGrows
<1>2. /\ \A n \in up : Writes(n) => n = current.node
      /\ \A n \in Nodes : Numbered(db[n], posted)
  BY <1>1 DEF OnlyCurrentWrites, CardsNumbered
<1>3. r \in final => FinalAccounted!2!(r)
  BY <1>1 DEF FinalAccounted
<1>4. current.node \in Nodes /\ final \subseteq Runs
  BY DEF Typed, Authority
<1>5. ASSUME r \in final, UNCHANGED current,
             \A n \in Nodes : db'[n].cards = db[n].cards /\ db'[n].outbox = db[n].outbox
      PROVE  FinalAccounted!2!(r)'
  BY <1>3, <1>4, <1>5 DEF Undelivered
<1>6. ASSUME NEW m \in Nodes, Advance(m)
      PROVE  \A n \in Nodes : db'[n].cards = db[n].cards /\ db'[n].outbox = db[n].outbox
  BY <1>6, AdvanceFields
<1>7. ASSUME NEW q \in Runs, PostCard(q) PROVE FinalAccounted!2!(r)'
  <2> DEFINE h == Home[q]
             s == NextStatus(q)
             v == db[h].cards[q].version + 1
             e == [run |-> q, version |-> db[h].counters[q] + 1, status |-> s,
                   delivered |-> FALSE]
  <2>1. /\ h \in up /\ h \in Nodes /\ s \in RUN_STATUSES
        /\ s \in TERMINAL_STATUSES <=> posted'[q] = Done
        /\ final' = IF posted'[q] = Done THEN final \cup {q} ELSE final
        /\ \A n \in Nodes \ {h} : db'[n] = db[n]
        /\ \/ Writes(h) /\ Committed(h, q, v, s)
           \/ ~Writes(h) /\ Staged(h, q, s)
    BY <1>7, PostEffect
  <2>2. current' = current
    BY <1>7 DEF PostCard
  <2>3. db[h].cards[q] \in Card /\ v \in Nat /\ v > db[h].cards[q].version
    BY <2>1 DEF Typed, Database, Card
  <2>4. CASE r \in final /\ db[current.node].cards[r].status \in TERMINAL_STATUSES
    <3>1. db'[current.node].cards[r].status \in TERMINAL_STATUSES
      <4>1. r \in Runs
        BY <1>4, <2>4
      <4>2. CASE current.node # h
        BY <1>4, <2>1, <2>4, <4>2
      <4>3. CASE current.node = h /\ Writes(h)
        BY <2>1, <2>3, <2>4, <4>1, <4>3, FinalStays
      <4>4. CASE current.node = h /\ ~Writes(h)
        BY <2>1, <2>4, <4>4 DEF Staged
      <4> QED BY <4>2, <4>3, <4>4
    <3> QED BY <2>2, <3>1
  <2>5. ASSUME r \in final, NEW n \in Nodes, NEW x \in Undelivered(n),
               x.run = r, x.status \in TERMINAL_STATUSES
        PROVE  FinalAccounted!2!(r)'
    <3>1. x \in db'[n].outbox /\ ~x.delivered
      BY <2>1, <2>5 DEF Undelivered, Committed, Staged
    <3> QED BY <2>5, <3>1 DEF Undelivered
  <2>6. CASE r = q /\ posted'[q] = Done /\ Writes(h)
    <3>1. h = current.node /\ s \in TERMINAL_STATUSES
      BY <1>2, <2>1, <2>6
    <3>2. decide(db[h].cards[q], v, s) = "applied"
      BY <2>3, <3>1 DEF decide, Card
    <3>3. db'[h].cards[q].status = s
      BY <2>1, <2>6, <3>2 DEF Committed
    <3> QED BY <2>2, <2>6, <3>1, <3>3
  <2>7. CASE r = q /\ posted'[q] = Done /\ ~Writes(h)
    <3>1. e \in db'[h].outbox /\ s \in TERMINAL_STATUSES
      BY <2>1, <2>7 DEF Staged
    <3>2. e.run = q /\ e.status = s /\ ~e.delivered
      OBVIOUS
    <3> HIDE DEF e
    <3>3. e \in Undelivered(h)'
      BY <3>1, <3>2 DEF Undelivered
    <3> QED BY <2>1, <2>7, <3>1, <3>2, <3>3
  <2> QED BY <1>3, <2>1, <2>4, <2>5, <2>6, <2>7
<1>8. ASSUME NEW m \in Nodes, NEW x \in db[m].outbox, Deliver(m, x)
      PROVE  FinalAccounted!2!(r)'
  <2> DEFINE h == settings[m].node
  <2>1. /\ h \in up /\ h \in Nodes /\ h # m /\ Writes(h)
        /\ x.run \in Runs /\ x.version \in Nat /\ x.status \in RUN_STATUSES
        /\ \A n \in Nodes \ {m, h} : db'[n] = db[n]
        /\ db'[m].cards = db[m].cards
        /\ db'[m].outbox = (db[m].outbox \ {x}) \cup {[x EXCEPT !.delivered = TRUE]}
        /\ Committed(h, x.run, x.version, x.status)
    BY <1>8, DeliverEffect
  <2>2. r \in final /\ r \in Runs /\ current' = current
    BY <1>4, <1>8 DEF Deliver
  <2>3. h = current.node
    BY <1>2, <2>1
  <2> HIDE DEF h
  <2>4. CASE db[current.node].cards[r].status \in TERMINAL_STATUSES
    BY <2>1, <2>2, <2>3, <2>4, FinalStays
  <2>5. ASSUME NEW n \in Nodes, NEW y \in Undelivered(n),
               y.run = r, y.status \in TERMINAL_STATUSES
        PROVE  FinalAccounted!2!(r)'
    <3>1. CASE n # m \/ y # x
      <4>1. y \in db'[n].outbox /\ ~y.delivered
        BY <2>1, <3>1 DEF Undelivered, Committed
      <4> QED BY <2>5, <4>1 DEF Undelivered
    <3>2. CASE n = m /\ y = x
      <4>1. x.version = Done
        BY <1>2, <2>5, <3>2 DEF Numbered
      <4>2. db'[h].cards[r].status \in TERMINAL_STATUSES
        BY <1>2, <2>1, <2>2, <2>5, <3>2, <4>1, FinalArrives
      <4> QED BY <2>2, <2>3, <4>2
    <3> QED BY <3>1, <3>2
  <2> QED BY <1>3, <2>2, <2>4, <2>5
<1>9. ASSUME NEW m \in Nodes, Restore(m) PROVE FinalAccounted!2!(r)'
  <2>1. /\ db'[m] = db[current.node] /\ \A n \in Nodes \ {m} : db'[n] = db[n]
        /\ current'.node = m /\ r \in final
    BY <1>9 DEF Restore, Typed
  <2>2. Undelivered(m) = {}
    BY <1>9 DEF Restore, Deviate
  <2>3. \A n \in Nodes : \A x \in Undelivered(n) : n # m /\ x \in Undelivered(n)'
    BY <2>1, <2>2 DEF Undelivered
  <2> QED BY <1>3, <2>1, <2>3
<1>10. CASE StopOld
  BY <1>5, <1>10 DEF StopOld
<1>11. ASSUME NEW m \in Nodes, Reconfigure(m) PROVE FinalAccounted!2!(r)'
  BY <1>5, <1>6, <1>11 DEF Reconfigure
<1>12. ASSUME NEW m \in Nodes, Rejoin(m) PROVE FinalAccounted!2!(r)'
  BY <1>5, <1>6, <1>12 DEF Rejoin
<1>13. ASSUME NEW m \in Nodes, FenceRunning(m) PROVE FinalAccounted!2!(r)'
  BY <1>5, <1>6, <1>13 DEF FenceRunning
<1>14. CASE Promote
  BY <1>4, <1>5, <1>6, <1>14 DEF Promote
<1>15. CASE FailoverDone
  BY <1>5, <1>15 DEF FailoverDone
<1> QED BY <1>7, <1>8, <1>9, <1>10, <1>11, <1>12, <1>13, <1>14, <1>15 DEF Next

-----------------------------------------------------------------------------
(* The theorems.                                                            *)

\* The invariant is inductive.
LEMMA IStep == IInv /\ [Next]_vars => IInv'
<1>1. IInv /\ Next => IInv'
  BY TypedStep, EpochStep, FencesStep, ConfiguredStep, WriterStep, NumbersStep, FinalStep
     DEF IInv
<1>2. IInv /\ UNCHANGED vars => IInv'
  BY DEF IInv, vars, Typed, EpochNamesNode, Known, FencesBehind, AuthorityIsConfigured,
         OnlyCurrentWrites, Writes, IsAuthority, Fenced, Epoch, CardsNumbered, CountedAtHome,
         FinalAccounted, Undelivered
<1> QED BY <1>1, <1>2

\* The invariant holds throughout every behaviour.
LEMMA Always == Spec => []IInv
  BY IInit, IStep, PTL DEF Spec

\* The databases, settings and histories are well typed.
THEOREM TypeCorrect == Spec => []TypeOK
<1>1. IInv => TypeOK
  <2> SUFFICES ASSUME IInv PROVE TypeOK
    OBVIOUS
  <2>1. Typed
    BY DEF IInv
  <2>2. \A n \in Nodes : db[n] \in Database
    BY <2>1 DEF Typed
  <2> QED BY <2>1, <2>2 DEF Typed, TypeOK, Database
<1> QED BY <1>1, Always, PTL

\* Across any number of failovers and failbacks, with nodes that cannot be
\* stopped, are not drained, or are fenced while they run, all cards committed
\* under one epoch were committed by one node (run_link.post_run_card).
THEOREM EpochNamesWriter == Spec => []OneWriterPerEpoch
<1>1. IInv => OneWriterPerEpoch
  <2> SUFFICES ASSUME IInv, NEW w1 \in writers, NEW w2 \in writers, w1[1] = w2[1]
               PROVE  w1[2] = w2[2]
    BY DEF OneWriterPerEpoch
  <2> DEFINE p == [epoch |-> w1[1], node |-> w1[2]]
             q == [epoch |-> w2[1], node |-> w2[2]]
  <2>1. p \in Known /\ q \in Known
    BY DEF Known
  <2>2. p = q
    BY <2>1 DEF IInv, EpochNamesNode
  <2> QED BY <2>2
<1> QED BY <1>1, Always, PTL

\* When the old authority is stopped first in every failover (the runbook's
\* step 1), at most one running node would accept a write, at every point.
THEOREM WritesAreNotSplit == Spec => []NoSplitWrites
<1>1. IInv => NoSplitWrites
  <2> SUFFICES ASSUME IInv, "unreachable" \notin deviated
               PROVE  Cardinality({n \in up : IsAuthority(n) /\ ~Fenced(n)}) <= 1
    BY DEF NoSplitWrites
  <2> DEFINE S == {n \in up : IsAuthority(n) /\ ~Fenced(n)}
  <2>1. S = {} \/ S = {current.node}
    BY DEF IInv, OnlyCurrentWrites, Writes
  <2>2. Cardinality({}) = 0 /\ Cardinality({current.node}) = 1
    BY FS_EmptySet, FS_Singleton
  <2> QED BY <2>1, <2>2
<1> QED BY <1>1, Always, PTL

\* I5 for failovers by the procedure: when it is complete and the outboxes are
\* empty, every run that posted its final card has a final one at the authority.
THEOREM FinalCardsAreKept == Spec => []FinalCardsSurvive
<1>1. IInv => FinalCardsSurvive
  BY DEF IInv, FinalAccounted, FinalCardsSurvive
<1> QED BY <1>1, Always, PTL

\* An acknowledged delivery of a final card left a final card at the node that
\* acknowledged it, whatever was unreachable or not drained, as long as no
\* authority was fenced while it ran.
THEOREM FinalCardsAreDelivered == Spec => DeliveredUnlessFencedLive
<1>1. IInv /\ Next /\ "live_fence" \notin deviated => AcknowledgedFinal
  <2> SUFFICES ASSUME IInv, Next, "live_fence" \notin deviated,
                      NEW n \in Nodes, NEW x \in Undelivered(n), x.status \in TERMINAL_STATUSES,
                      [x EXCEPT !.delivered = TRUE] \in db'[n].outbox
               PROVE  db'[settings[n].node].cards[x.run].status \in TERMINAL_STATUSES
    BY DEF AcknowledgedFinal
  <2> DEFINE y == [x EXCEPT !.delivered = TRUE]
  <2>1. Typed /\ AuthorityIsConfigured /\ \A m \in Nodes : Numbered(db[m], posted)
    BY DEF IInv, CardsNumbered
  <2>2. x \in db[n].outbox /\ x \in Entry /\ ~x.delivered
    BY <2>1 DEF Undelivered, Typed, Database
  <2>3. y.run = x.run /\ y.version = x.version /\ y.delivered /\ y # x
    BY <2>2 DEF Entry
  <2>4. y \notin db[n].outbox
    BY <2>1, <2>2, <2>3 DEF Numbered
  <2>5. db'[n].outbox # db[n].outbox
    BY <2>4
  <2> HIDE DEF y
  <2>6. ASSUME NEW m \in Nodes, Advance(m) PROVE FALSE
    BY <2>1, <2>5, <2>6, AdvanceFields
  <2>7. ASSUME NEW r \in Runs, PostCard(r) PROVE FALSE
    <3> DEFINE h == Home[r]
               s == NextStatus(r)
               e == [run |-> r, version |-> db[h].counters[r] + 1, status |-> s,
                     delivered |-> FALSE]
    <3>1. /\ h \in Nodes /\ \A m \in Nodes \ {h} : db'[m] = db[m]
          /\ \/ Committed(h, r, db[h].cards[r].version + 1, s)
             \/ Staged(h, r, s)
      BY <2>1, <2>7, PostEffect
    <3>2. ~e.delivered
      OBVIOUS
    <3>3. Staged(h, r, s) => \A z \in db'[h].outbox : z \in db[h].outbox \/ z = e
      BY DEF Staged
    <3> HIDE DEF e
    <3> QED BY <2>3, <2>4, <2>5, <3>1, <3>2, <3>3 DEF Committed, y
  <2>8. ASSUME NEW m \in Nodes, Restore(m) PROVE FALSE
    BY <2>1, <2>4, <2>5, <2>8 DEF Restore, Typed, AuthorityIsConfigured
  <2>9. ASSUME NEW m \in Nodes, NEW z \in db[m].outbox, Deliver(m, z)
        PROVE  db'[settings[n].node].cards[x.run].status \in TERMINAL_STATUSES
    <3> DEFINE h == settings[m].node
               w == [z EXCEPT !.delivered = TRUE]
    <3>1. /\ h \in Nodes /\ h # m
          /\ z \in Entry /\ ~z.delivered /\ z.run \in Runs
          /\ \A k \in Nodes \ {m, h} : db'[k] = db[k]
          /\ db'[m].outbox = (db[m].outbox \ {z}) \cup {w}
          /\ Committed(h, z.run, z.version, z.status)
      BY <2>1, <2>9, DeliverEffect
    <3>2. n = m /\ y = w
      BY <2>4, <2>5, <3>1 DEF Committed, y
    <3>3. z.run = x.run /\ z.version = x.version /\ z.status = x.status
      BY <2>2, <3>1, <3>2 DEF y, Entry
    <3>4. z.version = Done
      BY <2>1, <2>2, <3>3 DEF Numbered
    <3>5. db'[h].cards[z.run].status \in TERMINAL_STATUSES
      BY <2>1, <3>1, <3>3, <3>4, FinalArrives
    <3> QED BY <3>2, <3>3, <3>5
  <2>10. current.node \in Nodes
    BY <2>1 DEF Typed, Authority
  <2> QED BY <2>5, <2>6, <2>7, <2>8, <2>9, <2>10
          DEF Next, StopOld, Reconfigure, Rejoin, FenceRunning, Promote, FailoverDone
<1>2. IInv /\ [Next]_vars => ["live_fence" \notin deviated => AcknowledgedFinal]_vars
  BY <1>1
<1> QED BY <1>2, Always, PTL DEF Spec, DeliveredUnlessFencedLive
=============================================================================
