---------------------------- MODULE BarbDelivery ----------------------------
(***************************************************************************)
(* A replica delivering run cards to the authority: BarbOutbox on the      *)
(* replica, BarbAuthority on the other node, and between them the HTTP     *)
(* exchange of AuthorityClient.post (barb_authority.py), which may lose    *)
(* the request, lose the response, or give up on a request that arrives    *)
(* later.  Both nodes restart; a failover gives them new epochs one after  *)
(* the other, so for a while they disagree.                                *)
(***************************************************************************)
EXTENDS BarbOutbox

CONSTANTS
    NoNode, Nodes, Hub,                \* Hub: the authority's node name
    MaxEpoch,
    PruneEvery, MaxRows, Batch,        \* receipts at the authority
    MaxLate,        \* bound: requests that can be overdue at a time
    MaxRestarts     \* bound: restarts of the replica

Runs == CardKeys    \* a card's key names its run

ASSUME HubAssumption == Hub \in Nodes /\ NoNode \notin Nodes
ASSUME DeliveryBounds ==
    /\ MaxEpoch \in Nat \ {0} /\ PruneEvery \in Nat \ {0} /\ Batch \in Nat \ {0}
    /\ MaxRows \in Nat /\ MaxLate \in Nat /\ MaxRestarts \in Nat

VARIABLES           \* the replica's are those of BarbOutbox
    config, fence, cards, receipts, commits, sincePrune,        \* the authority
    senderEpoch,    \* the epoch of the replica's cached AuthorityConfig
    reply,          \* what the post under way returned, or Waiting
    late,           \* requests the replica gave up on that are still in transit
    restarts,       \* how often the replica restarted
    lost            \* runs whose thread the authority's database does not have (fixed)

Waiting == "waiting"

Auth == INSTANCE BarbAuthority WITH Local <- Hub, Statuses <- {"running", "succeeded"}

replica   == vars
authority == <<config, fence, cards, receipts, commits, sincePrune>>
link      == <<senderEpoch, reply, late, restarts, lost>>
system == <<replica, authority, link>>

AuthorityAt(e) == [role |-> "authority", epoch |-> e, node |-> Hub]

\* The body AuthorityClient.post sends; of the status only finality matters.
Request ==
    [run |-> Head.key, version |-> Head.version,
     status |-> IF Head.terminal THEN "succeeded" ELSE "running",
     epoch |-> senderEpoch]

DeliveryTypeOK ==
    /\ TypeOK /\ Auth!TypeOK
    /\ senderEpoch \in 1..MaxEpoch
    /\ reply \in Replies \cup {Waiting}
    /\ late \subseteq [run : Runs, version : 1..MaxVersion,
                       status : {"running", "succeeded"}, epoch : 1..MaxEpoch]
    /\ restarts \in 0..MaxRestarts
    /\ lost \subseteq Runs

DeliveryInit ==
    /\ Init
    /\ Auth!Init
    /\ config = AuthorityAt(1)
    /\ cards = [r \in Runs |-> [version |-> 0, status |-> Auth!NoStatus]]
    /\ senderEpoch = 1
    /\ reply = Waiting
    /\ late = {}
    /\ restarts = 0
    /\ lost \in SUBSET Runs

-----------------------------------------------------------------------------
(* The authority's handler (relay_thread_run_card and ingest_relayed_card): *)
(* an unknown thread is a 404, which the client treats as a rejection.      *)
Answer(q) ==
    IF q.run \in lost THEN "rejected"
    ELSE Auth!IngestReply(q.run, q.version, q.status, q.epoch)

Handle(q) ==
    \/ /\ Answer(q) \in {"delivered", "stale"}
       /\ Auth!IngestRelayedCard(q.run, q.version, q.status, q.epoch)
    \/ /\ Answer(q) \notin {"delivered", "stale"}
       /\ UNCHANGED authority

Posting == loop = "draining" /\ batch # {} /\ Routed /\ reply = Waiting

\* The request is handled and its response comes back.
Exchange ==
    /\ Posting
    /\ Handle(Request)
    /\ reply' = Answer(Request)
    /\ UNCHANGED <<replica, senderEpoch, late, restarts, lost>>

\* The request is handled but the response is lost (or the client timed out).
ResponseLost ==
    /\ Posting
    /\ Handle(Request)
    /\ reply' = "unavailable"
    /\ UNCHANGED <<replica, senderEpoch, late, restarts, lost>>

\* Connection refused, an overloaded authority (429, 5xx), or a timeout after
\* which the request is still on its way.
RequestLost ==
    /\ Posting
    /\ reply' = "unavailable"
    /\ \/ late' = late
       \/ Cardinality(late) < MaxLate /\ late' = late \cup {Request}
    /\ UNCHANGED <<replica, authority, senderEpoch, restarts, lost>>

LateArrival ==
    /\ \E q \in late : Handle(q) /\ late' = late \ {q}
    /\ UNCHANGED <<replica, senderEpoch, reply, restarts, lost>>

\* An entry of a kind without a route is refused before anything is sent.
Outcome == IF Routed THEN reply ELSE "error"

\* drain_once records the outcome of the post.
SettlePost ==
    /\ batch # {}
    /\ Outcome # Waiting
    /\ Post(Outcome)
    /\ reply' = Waiting
    /\ UNCHANGED <<authority, senderEpoch, late, restarts, lost>>

-----------------------------------------------------------------------------
Replica ==
    /\ \/ Produce
       \/ StartDrainLoop
       \/ ClaimDue
       \/ Release
    /\ UNCHANGED <<authority, link>>

\* The replica stops, perhaps in the middle of a post, and its settings may be
\* brought up to date before it starts again.
RestartReplica ==
    /\ restarts < MaxRestarts
    /\ Crash
    /\ restarts' = restarts + 1
    /\ senderEpoch' \in {senderEpoch, config.epoch}
    /\ reply' = Waiting
    /\ UNCHANGED <<authority, late, lost>>

\* The operator gives the replica the epoch the authority has.
UpdateSettings ==
    /\ senderEpoch # config.epoch
    /\ Crash
    /\ senderEpoch' = config.epoch
    /\ reply' = Waiting
    /\ UNCHANGED <<authority, late, restarts, lost>>

\* The authority restarts, under its epoch or (failover) the next ones.
RestartAuthority ==
    /\ \E e \in config.epoch..MaxEpoch : Auth!Restart(AuthorityAt(e))
    /\ UNCHANGED <<replica, link>>

DeliveryNext ==
    \/ Replica
    \/ Exchange \/ ResponseLost \/ RequestLost \/ LateArrival
    \/ SettlePost
    \/ RestartReplica \/ UpdateSettings
    \/ RestartAuthority

DeliverySpec == DeliveryInit /\ [][DeliveryNext]_system

\* The drain loop is scheduled by the event loop forever; the operator brings
\* a stale replica up to date; and a network that lets a post through again
\* and again eventually lets one through with its response.
Fairness ==
    /\ WF_system(StartDrainLoop /\ UNCHANGED <<authority, link>>)
    /\ WF_system((ClaimDue \/ Release) /\ UNCHANGED <<authority, link>>)
    /\ WF_system(SettlePost)
    /\ WF_system(Exchange \/ ResponseLost \/ RequestLost)
    /\ SF_system(Exchange)
    /\ WF_system(UpdateSettings)
FairSpec == DeliverySpec /\ Fairness

-----------------------------------------------------------------------------
(* Properties.                                                              *)

\* I1 and I5 end to end: a card the replica has marked delivered is committed.
\* The authority holds that version or a newer one, or a final status that the
\* card was not entitled to overwrite; and when the card was the last one its
\* run produced, a final card is final at the authority.
DeliveredIsCommitted ==
    \A x \in rows : x.status = "delivered" =>
        /\ \/ cards[x.key].version >= x.version
           \/ cards[x.key].status \in Auth!TERMINAL_STATUSES /\ ~x.terminal
        /\ x.terminal /\ x.version = issued[x.key]
             => cards[x.key].status \in Auth!TERMINAL_STATUSES

\* A final card that entered the outbox reaches the authority or the operator:
\* eventually it is delivered (and then committed) or dead-lettered.
FinalCardsArrive ==
    \A r \in Runs, v \in 1..MaxVersion :
        (\E x \in rows : x.key = r /\ x.version = v /\ x.terminal)
          ~> (\E x \in rows : x.key = r /\ x.version = v
                                /\ x.status \in {"delivered", "dead"})
=============================================================================
