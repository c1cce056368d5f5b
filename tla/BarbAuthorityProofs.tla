------------------------ MODULE BarbAuthorityProofs ------------------------
(***************************************************************************)
(* BarbAuthority for every set of runs and nodes, every receipt bound and  *)
(* every prune schedule: its type invariant, the receipt and fence         *)
(* invariants of ADR 0008, the monotone fence, and the refinement of the   *)
(* abstract register.                                                      *)
(***************************************************************************)
EXTENDS BarbAuthority, TLAPS

\* No receipt lies in the future of the commit counter: a new receipt comes
\* after every stored one.
ReceiptsInOrder == \A x \in receipts : x.at <= commits

Safe ==
    /\ HeadReceiptKept
    /\ AppliedOnce
    /\ FenceCoversReceipts
    /\ EpochsNeverFallBack
    /\ ReceiptsInOrder

-----------------------------------------------------------------------------
(* The pure rules.                                                          *)

\* prune_receipts removes receipts, adds none, and keeps every receipt that
\* carries its run's stored version.
LEMMA PruneKeepsHeads ==
    ASSUME NEW S, NEW C, NEW cutoff, NEW rowBound, NEW batchBound
    PROVE  /\ prune_receipts(S, C, cutoff, rowBound, batchBound) \subseteq S
           /\ \A x \in S : x.version = C[x.run].version =>
                 x \in prune_receipts(S, C, cutoff, rowBound, batchBound)
  BY DEF prune_receipts, Superseded, Oldest

\* What decide applies is a higher version that does not reopen a final card.
LEMMA AppliedRaises ==
    ASSUME NEW c \in Card, NEW v \in Nat, NEW s,
           decide(c, v, s) = "applied"
    PROVE  /\ v > c.version
           /\ c.status \in TERMINAL_STATUSES => s \in TERMINAL_STATUSES
  BY DEF decide, Card

\* Advancing an admitted (epoch, node) never lowers the fence nor renames it
\* within an epoch.
LEMMA FenceAdvances ==
    ASSUME NEW f \in [epoch : Nat, node : Nodes \cup {NoNode}],
           NEW e \in Nat, NEW n \in Nodes, check_fence(f, e, n)
    PROVE  LET g == advance_fence(f, e, n)
           IN  /\ g \in [epoch : Nat, node : Nodes \cup {NoNode}]
               /\ g.epoch = e
               /\ e >= f.epoch
               /\ g.node = n
               /\ e = f.epoch => f.node \in {NoNode, n}
  BY NodesAssumption DEF check_fence, advance_fence

-----------------------------------------------------------------------------
(* Typing.                                                                  *)

\* A committing process is UNSET or the authority, under its own name.
LEMMA CommitterConfig ==
    ASSUME config \in Configs, config.role # "replica"
    PROVE  /\ config.epoch \in Nat
           /\ config.epoch >= 1 => config.node = Local
  BY BoundsAssumption DEF Configs, Unset

\* The empty conversation database is well typed.
LEMMA TypeInit == Init => TypeOK
  BY StatusesAssumption, BoundsAssumption DEF Init, TypeOK, NoFence, Card

\* The transaction of apply_run_card_update keeps the types, whatever version
\* and status a request carries.
LEMMA TypeApply ==
    ASSUME TypeOK, NEW r \in Runs, NEW v \in Nat, NEW s \in Statuses,
           config.role # "replica", ApplyRunCardUpdate(r, v, s)
    PROVE  TypeOK'
<1> DEFINE w == Asked(r, v)
<1>1. w \in Nat /\ s \in RUN_STATUSES
  BY StatusesAssumption DEF Asked, TypeOK, Card
<1>2. fence' \in [epoch : Nat, node : Nodes \cup {NoNode}]
  BY CommitterConfig, FenceAdvances, NodesAssumption
     DEF TypeOK, ApplyRunCardUpdate, Admitted
<1>3. CASE RecordApplied(r, w, s)
  <2> DEFINE newCards == [cards EXCEPT ![r] = [version |-> w, status |-> s]]
             grown == receipts \cup {[run |-> r, version |-> w,
                                      epoch |-> config.epoch, at |-> commits + 1]}
  <2>1. cards' \in [Runs -> Card] /\ commits' \in Nat
    BY <1>1, <1>3 DEF RecordApplied, TypeOK, Card
  <2>2. grown \in SUBSET Receipt
    BY <1>1, CommitterConfig DEF TypeOK, Receipt
  <2>3. receipts' \subseteq grown
    <3>1. CASE sincePrune + 1 >= PruneEvery
      <4>1. PICK cutoff \in 0..(commits + 1) :
              receipts' = prune_receipts(grown, newCards, cutoff, MaxRows, Batch)
        BY <1>3, <3>1 DEF RecordApplied
      <4> QED BY <4>1, PruneKeepsHeads
    <3>2. CASE ~(sincePrune + 1 >= PruneEvery)
      BY <1>3, <3>2 DEF RecordApplied
    <3> QED BY <3>1, <3>2
  <2>4. sincePrune' \in 0..(PruneEvery - 1)
    BY <1>3, BoundsAssumption DEF RecordApplied, TypeOK
  <2> QED BY <1>2, <2>1, <2>2, <2>3, <2>4 DEF TypeOK, ApplyRunCardUpdate
<1>4. CASE UNCHANGED <<cards, receipts, commits, sincePrune>>
  BY <1>2, <1>4 DEF TypeOK, ApplyRunCardUpdate
<1> QED BY <1>3, <1>4 DEF ApplyRunCardUpdate

\* Every request, restart and fence command keeps the types.
LEMMA TypeStep == TypeOK /\ [Next]_vars => TypeOK'
<1> SUFFICES ASSUME TypeOK, [Next]_vars PROVE TypeOK'
  OBVIOUS
<1>1. ASSUME NEW r \in Runs, NEW v \in 0..MaxVersion, NEW s \in Statuses,
             NEW e \in 0..MaxEpoch, IngestRelayedCard(r, v, s, e)
      PROVE  TypeOK'
  BY <1>1, TypeApply, BoundsAssumption DEF IngestRelayedCard
<1>2. ASSUME NEW r \in Runs, NEW s \in Statuses, PostRunCard(r, s)
      PROVE  TypeOK'
  BY <1>2, TypeApply DEF PostRunCard, None
<1>3. ASSUME NEW c \in Configs, Restart(c) PROVE TypeOK'
  BY <1>3, BoundsAssumption DEF Restart, TypeOK
<1>4. ASSUME NEW e \in 1..MaxEpoch, NEW n \in Nodes, AdvanceFence(e, n)
      PROVE  TypeOK'
  BY <1>4, FenceAdvances, BoundsAssumption DEF AdvanceFence, TypeOK
<1>5. CASE UNCHANGED vars
  BY <1>5 DEF TypeOK, vars
<1> QED BY <1>1, <1>2, <1>3, <1>4, <1>5 DEF Next

\* Every reachable state of the authority is well typed: cards carry known
\* statuses, the prune counter stays below its period, receipts name runs.
THEOREM TypeCorrect == Spec => []TypeOK
  BY TypeInit, TypeStep, PTL DEF Spec

-----------------------------------------------------------------------------
(* Safety.                                                                  *)

\* The empty database has no receipt, so nothing is out of order in it.
LEMMA SafeInit == Init => Safe
  BY DEF Init, Safe, HeadReceiptKept, AppliedOnce, FenceCoversReceipts,
         EpochsNeverFallBack, ReceiptsInOrder

\* An applied update, prune included: receipts' lies between the stored
\* receipts with the new one and the newest receipt of every run.
LEMMA AppliedReceipts ==
    ASSUME TypeOK, NEW r \in Runs, NEW w \in Nat, NEW s \in Statuses,
           RecordApplied(r, w, s)
    PROVE  LET new == [run |-> r, version |-> w, epoch |-> config.epoch,
                       at |-> commits + 1]
           IN  /\ receipts' \subseteq receipts \cup {new}
               /\ \A x \in receipts \cup {new} :
                     x.version = cards'[x.run].version => x \in receipts'
               /\ cards' = [cards EXCEPT ![r] = [version |-> w, status |-> s]]
               /\ commits' = commits + 1
<1> DEFINE newCards == [cards EXCEPT ![r] = [version |-> w, status |-> s]]
           grown == receipts \cup {[run |-> r, version |-> w,
                                    epoch |-> config.epoch, at |-> commits + 1]}
<1>1. CASE sincePrune + 1 >= PruneEvery
  <2>1. PICK cutoff \in 0..(commits + 1) :
          receipts' = prune_receipts(grown, newCards, cutoff, MaxRows, Batch)
    BY <1>1 DEF RecordApplied
  <2>2. cards' = newCards
    BY DEF RecordApplied
  <2>3. receipts' \subseteq grown
    BY <2>1, PruneKeepsHeads
  <2>4. \A x \in grown : x.version = newCards[x.run].version => x \in receipts'
    BY <2>1, PruneKeepsHeads
  <2> QED BY <2>2, <2>3, <2>4 DEF RecordApplied
<1>2. CASE ~(sincePrune + 1 >= PruneEvery)
  BY <1>2 DEF RecordApplied
<1> QED BY <1>1, <1>2

\* The fence after an admitted commit is at the process's own epoch and name,
\* or was never consulted (UNSET).
LEMMA CommitFence ==
    ASSUME TypeOK, NEW r \in Runs, NEW v \in Nat, NEW s \in Statuses,
           config.role # "replica", ApplyRunCardUpdate(r, v, s)
    PROVE  /\ config.epoch \in Nat
           /\ config.epoch = 0 => fence' = fence
           /\ config.epoch # 0 => /\ fence'.epoch = config.epoch
                                  /\ fence'.node = Local
                                  /\ fence.epoch <= config.epoch
  BY CommitterConfig, FenceAdvances, NodesAssumption
     DEF TypeOK, ApplyRunCardUpdate, Admitted

\* The transaction of apply_run_card_update, receipt, prune and fence
\* included, keeps every part of Safe.
LEMMA SafeApply ==
    ASSUME TypeOK, Safe, NEW r \in Runs, NEW v \in Nat, NEW s \in Statuses,
           config.role # "replica", ApplyRunCardUpdate(r, v, s)
    PROVE  Safe'
<1> DEFINE w == Asked(r, v)
           new == [run |-> r, version |-> w, epoch |-> config.epoch,
                   at |-> commits + 1]
<1>0. w \in Nat
  BY DEF Asked, TypeOK, Card
<1>t. receipts \subseteq Receipt /\ fence.epoch \in Nat /\ commits \in Nat
  BY DEF TypeOK
<1>f. /\ config.epoch \in Nat
      /\ config.epoch = 0 => fence' = fence
      /\ config.epoch # 0 => /\ fence'.epoch = config.epoch
                             /\ fence'.node = Local
                             /\ fence.epoch <= config.epoch
  BY CommitFence
<1>1. CASE decide(cards[r], w, s) = "applied" /\ RecordApplied(r, w, s)
  <2>1. /\ receipts' \subseteq receipts \cup {new}
        /\ \A x \in receipts \cup {new} :
              x.version = cards'[x.run].version => x \in receipts'
        /\ cards' = [cards EXCEPT ![r] = [version |-> w, status |-> s]]
        /\ commits' = commits + 1
    BY <1>0, <1>1, AppliedReceipts
  <2>2. cards[r] \in Card /\ w > cards[r].version
    BY <1>0, <1>1, AppliedRaises DEF TypeOK
  <2>3. \A q \in Runs : cards'[q] \in Card /\ cards'[q].version >= cards[q].version
    BY <1>0, <2>1, <2>2, StatusesAssumption DEF TypeOK, Card
  <2>4. cards'[r].version = w /\ \A q \in Runs \ {r} : cards'[q] = cards[q]
    BY <2>1 DEF TypeOK
  <2>5. HeadReceiptKept'
    <3> SUFFICES ASSUME NEW q \in Runs, cards'[q].version # 0
                 PROVE  \E x \in receipts' : x.run = q /\ x.version = cards'[q].version
      BY DEF HeadReceiptKept
    <3>1. CASE q = r
      <4>1. new.run = r /\ new.version = cards'[new.run].version
        BY <2>4
      <4>2. new \in receipts'
        BY <2>1, <4>1
      <4> QED BY <3>1, <4>1, <4>2
    <3>2. CASE q # r
      <4>1. PICK x \in receipts : x.run = q /\ x.version = cards[q].version
        BY <2>4, <3>2 DEF Safe, HeadReceiptKept
      <4> QED BY <2>1, <2>4, <3>2, <4>1
    <3> QED BY <3>1, <3>2
  <2>6. AppliedOnce'
    <3>1. \A x \in receipts : x.run = r => x.version # w
      BY <1>0, <1>t, <2>2 DEF Safe, AppliedOnce, Receipt, Card
    <3>2. \A x, y \in receipts' : x.run = y.run /\ x.version = y.version => x = y
      BY <2>1, <3>1 DEF Safe, AppliedOnce
    <3>3. \A x \in receipts' : x.version <= cards'[x.run].version
      <4> SUFFICES ASSUME NEW x \in receipts'
                   PROVE  x.version <= cards'[x.run].version
        OBVIOUS
      <4>1. CASE x = new
        BY <1>0, <2>4, <4>1
      <4>2. CASE x \in receipts
        <5>1. x.run \in Runs /\ x.version \in Nat /\ x.version <= cards[x.run].version
          BY <1>t, <4>2 DEF Safe, AppliedOnce, Receipt
        <5>2. /\ cards[x.run] \in Card
              /\ cards'[x.run] \in Card
              /\ cards'[x.run].version >= cards[x.run].version
          BY <2>3, <5>1 DEF TypeOK
        <5> QED BY <5>1, <5>2 DEF Card
      <4> QED BY <2>1, <4>1, <4>2
    <3> QED BY <3>2, <3>3 DEF AppliedOnce
  <2>7. FenceCoversReceipts'
    BY <1>f, <1>t, <2>1 DEF Safe, FenceCoversReceipts, Receipt
  <2>8. ReceiptsInOrder'
    BY <1>t, <2>1 DEF Safe, ReceiptsInOrder, Receipt
  <2>9. EpochsNeverFallBack'
    <3> SUFFICES ASSUME NEW x \in receipts', NEW y \in receipts',
                        x.epoch # 0, y.epoch # 0, x.at < y.at
                 PROVE  x.epoch <= y.epoch
      BY DEF EpochsNeverFallBack
    <3>1. CASE x = new
      BY <1>t, <2>1, <3>1 DEF Safe, ReceiptsInOrder, Receipt
    <3>2. CASE x \in receipts /\ y = new
      BY <1>t, <1>f, <3>2 DEF Safe, FenceCoversReceipts, Receipt
    <3>3. CASE x \in receipts /\ y \in receipts
      BY <3>3 DEF Safe, EpochsNeverFallBack
    <3> QED BY <2>1, <3>1, <3>2, <3>3
  <2> QED BY <2>5, <2>6, <2>7, <2>8, <2>9 DEF Safe
<1>2. CASE UNCHANGED <<cards, receipts, commits, sincePrune>>
  <2>1. FenceCoversReceipts'
    BY <1>2, <1>f, <1>t DEF Safe, FenceCoversReceipts, Receipt
  <2> QED BY <1>2, <2>1 DEF Safe, HeadReceiptKept, AppliedOnce,
                            EpochsNeverFallBack, ReceiptsInOrder
<1> QED BY <1>1, <1>2 DEF ApplyRunCardUpdate

\* Every request, restart and fence command keeps Safe.
LEMMA SafeStep == TypeOK /\ Safe /\ [Next]_vars => Safe'
<1> SUFFICES ASSUME TypeOK, Safe, [Next]_vars PROVE Safe'
  OBVIOUS
<1>1. ASSUME NEW r \in Runs, NEW v \in 0..MaxVersion, NEW s \in Statuses,
             NEW e \in 0..MaxEpoch, IngestRelayedCard(r, v, s, e)
      PROVE  Safe'
  BY <1>1, SafeApply, BoundsAssumption DEF IngestRelayedCard
<1>2. ASSUME NEW r \in Runs, NEW s \in Statuses, PostRunCard(r, s)
      PROVE  Safe'
  BY <1>2, SafeApply DEF PostRunCard, None
<1>3. ASSUME NEW c \in Configs, Restart(c) PROVE Safe'
  BY <1>3 DEF Restart, Safe, HeadReceiptKept, AppliedOnce, FenceCoversReceipts,
              EpochsNeverFallBack, ReceiptsInOrder
<1>4. ASSUME NEW e \in 1..MaxEpoch, NEW n \in Nodes, AdvanceFence(e, n)
      PROVE  Safe'
  <2>1. FenceCoversReceipts'
    <3>1. /\ fence'.epoch = e /\ fence'.node = n /\ e >= fence.epoch
          /\ e = fence.epoch => fence.node \in {NoNode, n}
      BY <1>4, FenceAdvances, BoundsAssumption DEF AdvanceFence, TypeOK
    <3> QED BY <1>4, <3>1, NodesAssumption, BoundsAssumption
            DEF AdvanceFence, TypeOK, Safe, FenceCoversReceipts, Receipt
  <2> QED BY <1>4, <2>1 DEF AdvanceFence, Safe, HeadReceiptKept, AppliedOnce,
                            EpochsNeverFallBack, ReceiptsInOrder
<1>5. CASE UNCHANGED vars
  BY <1>5 DEF vars, Safe, HeadReceiptKept, AppliedOnce, FenceCoversReceipts,
              EpochsNeverFallBack, ReceiptsInOrder
<1> QED BY <1>1, <1>2, <1>3, <1>4, <1>5 DEF Next

\* Safe is inductive together with the types.
LEMMA AlwaysSafe == Spec => [](TypeOK /\ Safe)
<1>1. Init => TypeOK /\ Safe
  BY TypeInit, SafeInit
<1>2. TypeOK /\ Safe /\ [Next]_vars => TypeOK' /\ Safe'
  BY TypeStep, SafeStep
<1> QED BY <1>1, <1>2, PTL DEF Spec

\* However receipts are pruned, the receipt a replay of a run's newest version
\* is answered with survives (prune_receipts never removes a head).
THEOREM ReplayIsAnswered == Spec => []HeadReceiptKept
<1>1. Safe => HeadReceiptKept
  BY DEF Safe
<1> QED BY <1>1, AlwaysSafe, PTL

\* apply_run_card_update never applies a (run, version) twice.
THEOREM NeverAppliedTwice == Spec => []AppliedOnce
<1>1. Safe => AppliedOnce
  BY DEF Safe
<1> QED BY <1>1, AlwaysSafe, PTL

\* Every epoch-aware commit was made under a fence this node was entitled to.
THEOREM CommitsAreFenced == Spec => []FenceCoversReceipts
<1>1. Safe => FenceCoversReceipts
  BY DEF Safe
<1> QED BY <1>1, AlwaysSafe, PTL

\* Commits of a database never return to an epoch older than one already used.
THEOREM DemotedStaysDemoted == Spec => []EpochsNeverFallBack
<1>1. Safe => EpochsNeverFallBack
  BY DEF Safe
<1> QED BY <1>1, AlwaysSafe, PTL

-----------------------------------------------------------------------------
(* Action properties and refinement.                                        *)

\* No step lowers the fence or renames it within its epoch.
LEMMA FenceStep ==
    ASSUME TypeOK, [Next]_vars
    PROVE  /\ fence'.epoch >= fence.epoch
           /\ fence'.epoch = fence.epoch /\ fence.node # NoNode
                => fence'.node = fence.node
<1> DEFINE P == /\ fence'.epoch >= fence.epoch
                /\ fence'.epoch = fence.epoch /\ fence.node # NoNode
                     => fence'.node = fence.node
<1>1. ASSUME NEW r \in Runs, NEW v \in Nat, NEW s \in Statuses,
             config.role # "replica", ApplyRunCardUpdate(r, v, s)
      PROVE  P
  BY <1>1, CommitterConfig, FenceAdvances, NodesAssumption
     DEF TypeOK, ApplyRunCardUpdate, Admitted
<1>2. ASSUME NEW e \in 1..MaxEpoch, NEW n \in Nodes, AdvanceFence(e, n)
      PROVE  P
  BY <1>2, FenceAdvances, BoundsAssumption DEF AdvanceFence, TypeOK
<1>3. CASE UNCHANGED fence
  BY <1>3 DEF TypeOK
<1>4. ASSUME NEW c \in Configs, Restart(c) PROVE UNCHANGED fence
  BY <1>4 DEF Restart
<1>5. ASSUME NEW r \in Runs, NEW v \in 0..MaxVersion, NEW s \in Statuses,
             NEW e \in 0..MaxEpoch, IngestRelayedCard(r, v, s, e)
      PROVE  P
  BY <1>1, <1>5, BoundsAssumption DEF IngestRelayedCard
<1>6. ASSUME NEW r \in Runs, NEW s \in Statuses, PostRunCard(r, s)
      PROVE  P
  BY <1>1, <1>6 DEF PostRunCard, None
<1>7. CASE UNCHANGED vars
  BY <1>3, <1>7 DEF vars
<1> QED BY <1>2, <1>3, <1>4, <1>5, <1>6, <1>7 DEF Next

\* No request, restart or operator command moves the persisted fence back.
THEOREM FenceNeverFallsBack == Spec => FenceMonotone
<1>1. TypeOK /\ [Next]_vars =>
        [ /\ fence'.epoch >= fence.epoch
          /\ fence'.epoch = fence.epoch /\ fence.node # NoNode
               => fence'.node = fence.node ]_vars
  BY FenceStep
<1> QED BY <1>1, TypeCorrect, PTL DEF Spec, FenceMonotone

\* An empty database maps to an empty register.
LEMMA RegisterInit == Init => Register!Init
  BY StatusesAssumption DEF Init, Register!Init

\* apply_run_card_update is a write of the register or leaves it alone.
LEMMA RegisterApply ==
    ASSUME TypeOK, NEW r \in Runs, NEW v \in Nat, NEW s \in Statuses,
           ApplyRunCardUpdate(r, v, s)
    PROVE  Register!Next \/ UNCHANGED cards
<1> DEFINE w == Asked(r, v)
<1>1. w \in Nat /\ s \in RUN_STATUSES /\ cards[r] \in Card
  BY StatusesAssumption DEF Asked, TypeOK, Card
<1>2. CASE decide(cards[r], w, s) = "applied" /\ RecordApplied(r, w, s)
  <2>1. cards' = [cards EXCEPT ![r] = [version |-> w, status |-> s]]
    BY <1>2 DEF RecordApplied
  <2>2. cards'[r] = [version |-> w, status |-> s]
    BY <2>1 DEF TypeOK
  <2>3. /\ w > cards[r].version
        /\ cards[r].status \in TERMINAL_STATUSES => s \in TERMINAL_STATUSES
    BY <1>1, <1>2, AppliedRaises
  <2>4. Register!Accept(r)
    <3>1. cards'[r] \in [version : Nat, status : RUN_STATUSES]
      BY <1>1, <2>2
    <3>2. cards'[r].version = w /\ cards'[r].status = s
      BY <2>2
    <3>3. cards' = [cards EXCEPT ![r] = cards'[r]]
      BY <2>1, <2>2, Zenon
    <3> QED BY <2>3, <3>1, <3>2, <3>3, Zenon DEF Register!Accept
  <2> QED BY <2>4 DEF Register!Next
<1>3. CASE UNCHANGED <<cards, receipts, commits, sincePrune>>
  BY <1>3
<1> QED BY <1>2, <1>3 DEF ApplyRunCardUpdate

\* Every step of the authority is a step of the register or a stutter.
LEMMA RegisterStep == TypeOK /\ [Next]_vars => [Register!Next]_cards
<1> SUFFICES ASSUME TypeOK, [Next]_vars PROVE Register!Next \/ UNCHANGED cards
  OBVIOUS
<1>1. ASSUME NEW r \in Runs, NEW v \in 0..MaxVersion, NEW s \in Statuses,
             NEW e \in 0..MaxEpoch, IngestRelayedCard(r, v, s, e)
      PROVE  Register!Next \/ UNCHANGED cards
  BY <1>1, RegisterApply, BoundsAssumption DEF IngestRelayedCard
<1>2. ASSUME NEW r \in Runs, NEW s \in Statuses, PostRunCard(r, s)
      PROVE  Register!Next \/ UNCHANGED cards
  BY <1>2, RegisterApply DEF PostRunCard, None
<1>3. ASSUME NEW c \in Configs, Restart(c) PROVE UNCHANGED cards
  BY <1>3 DEF Restart
<1>4. ASSUME NEW e \in 1..MaxEpoch, NEW n \in Nodes, AdvanceFence(e, n)
      PROVE  UNCHANGED cards
  BY <1>4 DEF AdvanceFence
<1>5. CASE UNCHANGED vars
  BY <1>5 DEF vars
<1> QED BY <1>1, <1>2, <1>3, <1>4, <1>5 DEF Next

\* The gated upsert implements the abstract register: versions only rise and a
\* final card is only replaced by a final one.
THEOREM AuthorityIsRegister == Spec => ImplementsRegister
  BY RegisterInit, RegisterStep, TypeCorrect, PTL
     DEF Spec, ImplementsRegister, Register!Spec
=============================================================================
