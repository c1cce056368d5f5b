---------------------------- MODULE ThreadConsole ----------------------------
(***************************************************************************)
(* One Console that follows one thread: the thread's messages in the store *)
(* (conversations.py), the writers that change a message in a transaction  *)
(* and publish it afterwards (run_link.py, chat_turn_runner.py), the       *)
(* Console's bounded queue on the event bus (thread_bus.py), the SSE       *)
(* stream with its replay (staff_threads_stream.py) and the hook that      *)
(* shows what it receives (useThreadStream.ts).                            *)
(*                                                                         *)
(* A message is its sequence number; its content is the number of times it *)
(* was written.  Run cards and reply placeholders are rewritten in place,  *)
(* under their first sequence number, and published again.                 *)
(***************************************************************************)
EXTENDS Integers, Sequences, FiniteSetsExt

CONSTANTS
    Writers,
    Cards, Replies,   \* the messages rewritten in place; a reply is pending at first
    QueueSize,        \* maxsize of a subscriber's queue
    HistoryPage,      \* messages the history request returns at most
    ReplayPage,       \* messages a replay returns at most
    MaxMsgs, MaxVersion, MaxBreaks   \* bounds: messages, writes of one, broken streams

Msgs == 1..MaxMsgs

ASSUME ConsoleAssumption ==
    /\ Cards \subseteq Msgs /\ Replies \subseteq Cards
    /\ {QueueSize, HistoryPage, ReplayPage, MaxMsgs, MaxVersion} \subseteq Nat \ {0}
    /\ MaxBreaks \in Nat

VARIABLES
    store,     \* the messages' contents, by sequence number
    pub,       \* per writer: what it wrote and has still to publish
    link,      \* the stream: "down", "subscribed", or "live" once the replay was read
    since,     \* the cursor that the stream was opened with
    wire,      \* the replay on its way to the Console
    queue,     \* the subscriber's queue
    history,   \* the history request: not answered yet, answered, or applied
    shown,     \* what the Console shows; 0: not shown
    cursor,    \* lastEventIdRef
    breaks,
    sent,      \* per message: the newest content handed to the bus (history)
    missed,    \* messages at or below the cursor with an event no stream carried (history)
    dropped,   \* messages with an event that a full queue lost (history)
    late,      \* messages with an event behind a newer or a later one (history)
    skipped    \* messages that a full replay left out (history)

stream == <<link, since, wire>>
client == <<shown, cursor>>
causes == <<sent, missed, dropped, late, skipped>>
console == <<store, pub, stream, queue, history, client, breaks, causes>>

Nothing == [m |-> 0, v |-> 0]
Event   == [m : Msgs, v : 1..MaxVersion]
Resync  == [m |-> 0, v |-> 1]   \* resync_required, for which the Console has no listener

ConsoleTypeOK ==
    /\ store \in Seq(1..MaxVersion) /\ Len(store) <= MaxMsgs
    /\ pub \in [Writers -> Event \cup {Nothing}]
    /\ link \in {"down", "subscribed", "live"} /\ since \in 0..cursor
    /\ wire \in Seq(Event) /\ Len(wire) <= ReplayPage
    /\ queue \in Seq(Event \cup {Resync}) /\ Len(queue) <= QueueSize
    /\ history.at \in {"asked", "read", "applied"} /\ Len(history.msgs) <= HistoryPage
    /\ shown \in [Msgs -> 0..MaxVersion] /\ cursor \in 0..Len(store)
    /\ breaks \in 0..MaxBreaks
    /\ sent \in [Msgs -> 0..MaxVersion]
    /\ \A ms \in {missed, dropped, late, skipped} : ms \subseteq Msgs

\* The thread is opened with its first messages stored and published.
ConsoleInit ==
    /\ store \in UNION {[1..n -> {1}] : n \in 0..MaxMsgs}
    /\ pub = [w \in Writers |-> Nothing]
    /\ link = "down" /\ since = 0 /\ wire = << >> /\ queue = << >>
    /\ history = [at |-> "asked", msgs |-> << >>]
    /\ shown = [m \in Msgs |-> 0] /\ cursor = 0
    /\ breaks = 0
    /\ sent = [m \in Msgs |-> IF m \in DOMAIN store THEN 1 ELSE 0]
    /\ missed = {} /\ dropped = {} /\ late = {} /\ skipped = {}

-----------------------------------------------------------------------------
(* Writers: the store's transaction, then the bus.                          *)

Add(w) ==
    /\ pub[w] = Nothing /\ Len(store) < MaxMsgs
    /\ store' = Append(store, 1)
    /\ pub' = [pub EXCEPT ![w] = [m |-> Len(store'), v |-> 1]]
    /\ UNCHANGED <<stream, queue, history, client, breaks, causes>>

Rewrite(w, m) ==
    /\ pub[w] = Nothing /\ m \in DOMAIN store /\ store[m] < MaxVersion
    /\ store' = [store EXCEPT ![m] = @ + 1]
    /\ pub' = [pub EXCEPT ![w] = [m |-> m, v |-> store'[m]]]
    /\ UNCHANGED <<stream, queue, history, client, breaks, causes>>

\* The event of writer w comes behind a newer content of its message, or is its
\* message's first and comes behind a later message.
Overtaken(w) ==
    LET e == pub[w]
    IN  /\ e # Nothing
        /\ \/ sent[e.m] > e.v
           \/ sent[e.m] = 0 /\ \E k \in Msgs : k > e.m /\ sent[k] > 0

\* No later replay brings message m: it is at or below the cursor, or in a history
\* answer that will raise the cursor.
Passed(m) == m <= cursor \/ m \in DOMAIN history.msgs

Published(w) ==
    /\ pub[w] # Nothing
    /\ pub'  = [pub EXCEPT ![w] = Nothing]
    /\ sent' = [sent EXCEPT ![pub[w].m] = Max({@, pub[w].v})]
    /\ late' = late \cup {pub[x].m : x \in {y \in {w} : Overtaken(y)}}
    /\ UNCHANGED <<store, stream, history, client, breaks, skipped>>

Full == Len(queue) = QueueSize

\* No stream is open: the event goes nowhere.
PublishToNobody(w) ==
    /\ Published(w)
    /\ link = "down"
    /\ missed' = IF Passed(pub[w].m) THEN missed \cup {pub[w].m} ELSE missed
    /\ UNCHANGED <<queue, dropped>>

\* publish and publish_sync.
Publish(w) ==
    /\ Published(w)
    /\ link # "down" /\ ~Full
    /\ queue' = Append(queue, pub[w])
    /\ UNCHANGED <<missed, dropped>>

\* publish_sync to a full queue: _put_or_drop.
PublishSyncFull(w) ==
    /\ Published(w)
    /\ link # "down" /\ Full
    /\ dropped' = dropped \cup {pub[w].m}
    /\ UNCHANGED <<queue, missed>>

\* publish to a full queue: the oldest event and this one give way to a Resync.
PublishFull(w) ==
    /\ Published(w)
    /\ link # "down" /\ Full
    /\ queue' = Append(Tail(queue), Resync)
    /\ dropped' = dropped \cup ({pub[w].m, Head(queue).m} \ {0})
    /\ UNCHANGED missed

-----------------------------------------------------------------------------
(* The stream.                                                              *)

\* list_messages: the messages after `from`, in order, `limit` of them at most.
list_messages(limit, from) ==
    [i \in 1..Min({limit, Len(store) - from}) |-> [m |-> from + i, v |-> store[from + i]]]

\* Faulty variant: the Console gives up after an error.
ReconnectsNever == link = "down" /\ breaks = 0
\* connect, at first and three seconds after every onerror.
Reconnects == link = "down"

\* connect, and the handler up to the subscription.
Connect ==
    /\ Reconnects
    /\ link' = "subscribed" /\ since' = cursor
    /\ UNCHANGED <<store, pub, wire, queue, history, client, breaks, causes>>

\* The generator's start: the replay, of one page at most.
ReadReplay ==
    /\ link = "subscribed"
    /\ link' = "live"
    /\ wire' = list_messages(ReplayPage, since)
    /\ skipped' = (skipped \ {wire'[i].m : i \in DOMAIN wire'})
                   \cup {m \in DOMAIN store : m > since + ReplayPage}
    /\ UNCHANGED <<store, pub, since, queue, history, client, breaks, sent, missed, dropped, late>>

\* The Console's listener: what arrives last is shown.
Shows(e) ==
    /\ shown'  = IF e = Resync THEN shown ELSE [shown EXCEPT ![e.m] = e.v]
    /\ cursor' = Max({cursor, e.m})

DeliverReplay ==
    /\ link = "live" /\ wire # << >>
    /\ Shows(Head(wire)) /\ wire' = Tail(wire)
    /\ UNCHANGED <<store, pub, link, since, queue, history, breaks, causes>>

DeliverLive ==
    /\ link = "live" /\ wire = << >> /\ queue # << >>
    /\ Shows(Head(queue)) /\ queue' = Tail(queue)
    /\ UNCHANGED <<store, pub, stream, history, breaks, causes>>

\* The stream ends with what it carries, and the queue is unsubscribed.
Down ==
    /\ breaks < MaxBreaks /\ breaks' = breaks + 1
    /\ link' = "down" /\ wire' = << >> /\ queue' = << >>

Carried == ({wire[i].m : i \in DOMAIN wire} \cup {queue[i].m : i \in DOMAIN queue}) \ {0}
Unsent  == {pub[w].m : w \in Writers} \ {0}

\* onerror, and the generator's finally.
Break ==
    /\ link # "down" /\ Down
    /\ missed' = missed \cup {m \in Carried : Passed(m)}
    /\ UNCHANGED <<store, pub, since, history, client, sent, dropped, late, skipped>>

\* The dashboard's process restarts: what its writers had still to publish is lost too.
Restart ==
    /\ Down
    /\ pub' = [w \in Writers |-> Nothing]
    /\ missed' = missed \cup {m \in Carried \cup Unsent : Passed(m)}
    /\ late' = late \cup {pub[w].m : w \in {x \in Writers : Overtaken(x)}}
    /\ UNCHANGED <<store, since, history, client, sent, dropped, skipped>>

-----------------------------------------------------------------------------
(* The history request, asked for once when the thread is opened.           *)

\* get_thread_detail.
ReadHistory ==
    /\ history.at = "asked"
    /\ history' = [at |-> "read", msgs |-> [i \in DOMAIN list_messages(HistoryPage, 0) |-> store[i]]]
    /\ UNCHANGED <<store, pub, stream, queue, client, breaks, causes>>

\* Faulty variant: the history wins over what the stream showed.
MergedHistory(m) == history.msgs[m]
\* What is shown of a message that the history holds too: the stream's content, unless
\* that is a pending reply and the history's is not.
Merged(m) ==
    IF shown[m] = 0 \/ (m \in Replies /\ shown[m] = 1) THEN history.msgs[m] ELSE shown[m]

\* The effect on initialMessages; its cursor is the largest one seen.
ApplyHistory ==
    /\ history.at = "read"
    /\ history' = [at |-> "applied", msgs |-> << >>]
    /\ shown' = [m \in Msgs |-> IF m \in DOMAIN history.msgs THEN Merged(m) ELSE shown[m]]
    /\ cursor' = Max({cursor, Len(history.msgs)})
    /\ UNCHANGED <<store, pub, stream, queue, breaks, causes>>

-----------------------------------------------------------------------------
ConsoleNext ==
    \/ \E w \in Writers : \/ Add(w) \/ \E m \in Cards : Rewrite(w, m)
                          \/ PublishToNobody(w) \/ Publish(w)
                          \/ PublishSyncFull(w) \/ PublishFull(w)
    \/ Connect \/ ReadReplay \/ DeliverReplay \/ DeliverLive
    \/ Break \/ Restart
    \/ ReadHistory \/ ApplyHistory

\* A writer that wrote goes on to publish, the hook reconnects after every error, and a
\* stream is read as long as it is open.  The history request may never be answered.
ConsoleFairness ==
    /\ \A w \in Writers :
          WF_console(PublishToNobody(w) \/ Publish(w) \/ PublishSyncFull(w) \/ PublishFull(w))
    /\ WF_console(Connect) /\ WF_console(ReadReplay)
    /\ WF_console(DeliverReplay) /\ WF_console(DeliverLive)

ConsoleSpec == ConsoleInit /\ [][ConsoleNext]_console /\ ConsoleFairness

-----------------------------------------------------------------------------
(* Properties.                                                              *)

Quiet == link = "live" /\ wire = << >> /\ queue = << >> /\ \A w \in Writers : pub[w] = Nothing

\* Once nothing is on its way to an open stream, the Console shows every message as it is
\* stored.  An absent message was published behind a later one, dropped by a full queue, or
\* beyond the replay's page; a stale one has an event that came behind a newer one, was
\* dropped, or met no stream after the cursor had passed its message.  No order of the
\* replay, the queue and the history answer is a cause, and no break or restart alone
\* makes a message absent (useThreadStream.ts, staff_threads_stream.py, thread_bus.py).
ShownAsStored ==
    Quiet => \A m \in DOMAIN store :
        CASE shown[m] = 0        -> m \in late \cup dropped \cup skipped
          [] shown[m] = store[m] -> TRUE
          [] OTHER               -> m \in late \cup dropped \cup missed

\* Every stored message is eventually shown, whatever the breaks and restarts, unless one
\* of the three causes took it (useThreadStream.ts, thread_bus.py).
MessageArrives ==
    \A m \in Msgs :
        m \in DOMAIN store ~> (shown[m] > 0 \/ m \in late \cup dropped \cup skipped)
=============================================================================
