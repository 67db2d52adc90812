--------------------------- MODULE RedisSubClient ---------------------------
(***************************************************************************)
(* RedisSubClient (slurm_manager/redis_sub_client.py): the callback tables, *)
(* the acknowledgement events, the single listener thread and shutdown,     *)
(* over a redis-py PubSub connection to a Redis server (external).          *)
(*                                                                          *)
(* The client's lock makes each registration call one action.  The listener *)
(* takes the lock three times per reply (read it, look up its event or its  *)
(* callbacks) and runs callbacks without it, so it is split accordingly.    *)
(* A readiness Event is identified with the registration that created it.   *)
(***************************************************************************)
EXTENDS Integers, FiniteSets, SequencesExt

CONSTANTS
  Topics,     \* Redis channels
  Ids,        \* one identifier per subscribe() call
  TopicOf,    \* the channel of each call
  NoEvent,    \* no entry in _subscription_ready
  MaxEvents   \* bound: messages published and connections lost, together

ASSUME ClientAssumption ==
  /\ TopicOf \in [Ids -> Topics]
  /\ NoEvent \notin Ids
  /\ MaxEvents \in Nat

VARIABLES
  used,       \* identifiers whose subscribe() has run
  byTopic,    \* registrations in _subscriptions_by_topic
  byId,       \* keys of _topic_by_subscription_id
  event,      \* _subscription_ready: the Event of each topic
  fired,      \* Events that are set
  waiting,    \* Events wait_until_subscribed is waiting for
  listener,   \* the listener thread: off, polling, or holding a reply it read
  held,       \* the reply it holds
  batch,      \* callbacks it has still to run for a message
  stop,       \* _stop_listener
  phase,      \* progress of shutdown()
  channels,   \* PubSub.channels
  leaving,    \* PubSub.pending_unsubscribe_channels
  conn,       \* the connection: up or down
  wire,       \* commands on their way to the server
  server,     \* channels the server has subscribed for this connection
  inbox,      \* replies and messages on their way back
  published,  \* history: messages published
  drops,      \* history: connections lost
  owed,       \* history: messages the server took for a registration, less those
              \* its callback was run for
  strays,     \* history: calls of a callback after its unsubscription
  reused      \* history: topics subscribed again after their removal

tableVars  == <<used, byTopic, byId, event, reused>>
threadVars == <<listener, held, batch, stop>>
redisVars  == <<channels, leaving, conn, wire, server, inbox>>
countVars  == <<published, drops, owed, strays>>
vars == <<tableVars, fired, waiting, threadVars, phase, redisVars, countVars>>

Commands == [cmd : {"subscribe", "unsubscribe"}, topic : Topics]
Replies  == [cmd : {"subscribe", "unsubscribe", "message"}, topic : Topics]
NoReply  == [cmd |-> "none"]
Phases   == {"open", "stopping", "joined", "cleared", "closed"}

\* The values of the variables.
TypeOK ==
  /\ used \subseteq Ids /\ byTopic \subseteq Ids /\ byId \subseteq Ids
  /\ event \in [Topics -> Ids \cup {NoEvent}]
  /\ fired \subseteq Ids /\ waiting \subseteq Ids
  /\ listener \in {"off", "polling", "holding", "dispatching"}
  /\ held \in Replies \cup {NoReply}
  /\ batch \subseteq Ids
  /\ stop \in BOOLEAN
  /\ phase \in Phases
  /\ channels \subseteq Topics /\ leaving \subseteq Topics
  /\ conn \in {"up", "down"}
  /\ wire \in Seq(Commands)
  /\ server \subseteq Topics
  /\ inbox \in Seq(Replies)
  /\ published \in Nat /\ drops \in Nat
  /\ owed \in [Ids -> Int] /\ strays \in [Ids -> Nat]
  /\ reused \subseteq Topics

Init ==
  /\ used = {} /\ byTopic = {} /\ byId = {}
  /\ event = [t \in Topics |-> NoEvent]
  /\ fired = {} /\ waiting = {}
  /\ listener = "off" /\ held = NoReply /\ batch = {} /\ stop = FALSE
  /\ phase = "open"
  /\ channels = {} /\ leaving = {} /\ conn = "up"
  /\ wire = <<>> /\ server = {} /\ inbox = <<>>
  /\ published = 0 /\ drops = 0
  /\ owed = [i \in Ids |-> 0] /\ strays = [i \in Ids |-> 0]
  /\ reused = {}

On(ids, t) == {i \in ids : TopicOf[i] = t}

-----------------------------------------------------------------------------
(* Registration. *)

\* PubSub.subscribe and PubSub.unsubscribe on a live connection.
SendSubscribe(t) ==
  /\ conn = "up"
  /\ wire' = Append(wire, [cmd |-> "subscribe", topic |-> t])
  /\ channels' = channels \cup {t}
  /\ leaving' = leaving \ {t}
  /\ UNCHANGED <<conn, server, inbox>>

\* The channel is noted as pending before the command is sent, so also when
\* sending it raises.
SendUnsubscribe(t) ==
  /\ leaving' = leaving \cup {t}
  /\ wire' = IF conn = "up" THEN Append(wire, [cmd |-> "unsubscribe", topic |-> t]) ELSE wire
  /\ UNCHANGED <<channels, conn, server, inbox>>

\* _ensure_threads_started: a thread that is still alive is kept, with its stop flag.
EnsureThread ==
  IF listener = "off" THEN listener' = "polling" /\ stop' = FALSE /\ UNCHANGED <<held, batch>>
                      ELSE UNCHANGED threadVars

\* Fault: the Event is set when SUBSCRIBE is sent, not when it is confirmed.
SubscribeSetsEvent(i) ==
  LET t == TopicOf[i]
  IN  /\ i \notin used
      /\ used' = used \cup {i}
      /\ IF On(byTopic, t) = {}
         THEN event' = [event EXCEPT ![t] = i] /\ fired' = fired \cup {i} /\ SendSubscribe(t)
         ELSE UNCHANGED <<event, fired, redisVars>>
      /\ byTopic' = byTopic \cup {i} /\ byId' = byId \cup {i}
      /\ EnsureThread
      /\ UNCHANGED <<reused, waiting, phase, countVars>>

Subscribe(i) ==
  LET t == TopicOf[i]
  IN  /\ i \notin used
      /\ used' = used \cup {i}
      /\ IF On(byTopic, t) = {}
         THEN /\ event' = [event EXCEPT ![t] = i]
              /\ SendSubscribe(t)
              /\ reused' = IF On(used, t) = {} THEN reused ELSE reused \cup {t}
         ELSE UNCHANGED <<event, reused, redisVars>>
      /\ byTopic' = byTopic \cup {i}
      /\ byId' = byId \cup {i}
      /\ EnsureThread
      /\ UNCHANGED <<fired, waiting, phase, countVars>>

\* PubSub.subscribe raises: the fresh Event stays behind without a callback.
SubscribeRaises(i) ==
  LET t == TopicOf[i]
  IN  /\ i \notin used /\ conn = "down"
      /\ On(byTopic, t) = {}
      /\ used' = used \cup {i}
      /\ event' = [event EXCEPT ![t] = i]
      /\ UNCHANGED <<byTopic, byId, reused, fired, waiting, threadVars, phase, redisVars, countVars>>

\* Fault: UNSUBSCRIBE is sent although other callbacks own the topic.
UnsubscribeAlways(i) ==
  LET t == TopicOf[i]
  IN  /\ i \in byId
      /\ byId' = byId \ {i} /\ byTopic' = byTopic \ {i}
      /\ event' = IF On(byTopic, t) = {i} THEN [event EXCEPT ![t] = NoEvent] ELSE event
      /\ SendUnsubscribe(t)
      /\ UNCHANGED <<used, reused, fired, waiting, threadVars, phase, countVars>>

\* Fault: the topic's Event is discarded although other callbacks own the topic.
UnsubscribeForgetsEvent(i) ==
  LET t == TopicOf[i]
  IN  /\ i \in byId
      /\ byId' = byId \ {i} /\ byTopic' = byTopic \ {i}
      /\ event' = [event EXCEPT ![t] = NoEvent]
      /\ IF On(byTopic, t) = {i} THEN SendUnsubscribe(t) ELSE UNCHANGED redisVars
      /\ UNCHANGED <<used, reused, fired, waiting, threadVars, phase, countVars>>

Unsubscribe(i) ==
  LET t == TopicOf[i]
  IN  /\ i \in byId
      /\ byId' = byId \ {i}
      /\ byTopic' = byTopic \ {i}
      /\ IF On(byTopic, t) = {i}
         THEN event' = [event EXCEPT ![t] = NoEvent] /\ SendUnsubscribe(t)
         ELSE UNCHANGED <<event, redisVars>>
      /\ UNCHANGED <<used, reused, fired, waiting, threadVars, phase, countVars>>

UnsubscribeTopic(t) ==
  /\ On(byTopic, t) # {}
  /\ byTopic' = byTopic \ On(byTopic, t)
  /\ byId' = byId \ On(byTopic, t)
  /\ event' = [event EXCEPT ![t] = NoEvent]
  /\ SendUnsubscribe(t)
  /\ UNCHANGED <<used, reused, fired, waiting, threadVars, phase, countVars>>

-----------------------------------------------------------------------------
(* wait_until_subscribed. *)

\* The Events of the topics are looked up once, under the lock (KeyError when
\* one is missing).
BeginWait(T) ==
  /\ waiting = {}
  /\ \A t \in T : event[t] # NoEvent
  /\ waiting' = {event[t] : t \in T}
  /\ UNCHANGED <<tableVars, fired, threadVars, phase, redisVars, countVars>>

\* All of them are set in time.
WaitReturns ==
  /\ waiting # {} /\ waiting \subseteq fired
  /\ waiting' = {}
  /\ UNCHANGED <<tableVars, fired, threadVars, phase, redisVars, countVars>>

\* TimeoutError.
WaitTimesOut ==
  /\ waiting # {} /\ ~(waiting \subseteq fired)
  /\ waiting' = {}
  /\ UNCHANGED <<tableVars, fired, threadVars, phase, redisVars, countVars>>

-----------------------------------------------------------------------------
(* The listener thread. *)

\* get_message under the lock; redis-py drops a confirmed channel on the way.
ReadReply ==
  /\ listener = "polling" /\ ~stop /\ inbox # <<>>
  /\ held' = Head(inbox)
  /\ inbox' = Tail(inbox)
  /\ listener' = "holding"
  /\ IF held'.cmd = "unsubscribe" /\ held'.topic \in leaving
     THEN channels' = channels \ {held'.topic} /\ leaving' = leaving \ {held'.topic}
     ELSE UNCHANGED <<channels, leaving>>
  /\ UNCHANGED <<tableVars, fired, waiting, batch, stop, phase, conn, wire, server, countVars>>

\* Fault: a message is given to one of its callbacks only.
HandleReplyOneOnly ==
  /\ listener = "holding"
  /\ held' = NoReply
  /\ fired' = IF held.cmd = "subscribe" /\ event[held.topic] # NoEvent
              THEN fired \cup {event[held.topic]} ELSE fired
  /\ batch' = IF held.cmd = "message" /\ On(byTopic, held.topic) # {}
              THEN {CHOOSE i \in On(byTopic, held.topic) : TRUE} ELSE {}
  /\ listener' = IF batch' = {} THEN "polling" ELSE "dispatching"
  /\ UNCHANGED <<tableVars, waiting, stop, phase, redisVars, countVars>>

\* Fault: callbacks are taken from a table that unsubscribe() does not prune.
HandleReplyStaleTable ==
  /\ listener = "holding"
  /\ held' = NoReply
  /\ fired' = IF held.cmd = "subscribe" /\ event[held.topic] # NoEvent
              THEN fired \cup {event[held.topic]} ELSE fired
  /\ batch' = IF held.cmd = "message" THEN On(used, held.topic) ELSE {}
  /\ listener' = IF batch' = {} THEN "polling" ELSE "dispatching"
  /\ UNCHANGED <<tableVars, waiting, stop, phase, redisVars, countVars>>

\* The lock taken again: set the topic's Event, or copy the topic's callbacks.
HandleReply ==
  /\ listener = "holding"
  /\ held' = NoReply
  /\ fired' = IF held.cmd = "subscribe" /\ event[held.topic] # NoEvent
              THEN fired \cup {event[held.topic]} ELSE fired
  /\ batch' = IF held.cmd = "message" THEN On(byTopic, held.topic) ELSE {}
  /\ listener' = IF batch' = {} THEN "polling" ELSE "dispatching"
  /\ UNCHANGED <<tableVars, waiting, stop, phase, redisVars, countVars>>

\* One callback, outside the lock; its exceptions are logged.
RunCallback(i) ==
  /\ i \in batch
  /\ batch' = batch \ {i}
  /\ listener' = IF batch' = {} THEN "polling" ELSE "dispatching"
  /\ IF i \in byTopic
     THEN owed' = [owed EXCEPT ![i] = @ - 1] /\ UNCHANGED strays
     ELSE strays' = [strays EXCEPT ![i] = @ + 1] /\ UNCHANGED owed
  /\ UNCHANGED <<tableVars, fired, waiting, held, stop, phase, redisVars, published, drops>>

\* Fault: the stop flag is tested after a reply only.
ListenerExitsAfterReply ==
  /\ listener = "polling" /\ stop /\ inbox # <<>>
  /\ listener' = "off"
  /\ UNCHANGED <<tableVars, fired, waiting, held, batch, stop, phase, redisVars, countVars>>

\* The loop tests the stop flag only between replies.
ListenerExits ==
  /\ listener = "polling" /\ stop
  /\ listener' = "off"
  /\ UNCHANGED <<tableVars, fired, waiting, held, batch, stop, phase, redisVars, countVars>>

-----------------------------------------------------------------------------
(* shutdown(). *)

ShutdownStop ==
  /\ phase = "open"
  /\ phase' = "stopping"
  /\ stop' = TRUE
  /\ UNCHANGED <<tableVars, fired, waiting, listener, held, batch, redisVars, countVars>>

\* join() returns when the thread has ended or the timeout has passed.
ShutdownJoin ==
  /\ phase = "stopping"
  /\ phase' = "joined"
  /\ UNCHANGED <<tableVars, fired, waiting, threadVars, redisVars, countVars>>

ShutdownClear ==
  /\ phase = "joined"
  /\ phase' = "cleared"
  /\ byTopic' = {} /\ byId' = {}
  /\ event' = [t \in Topics |-> NoEvent]
  /\ UNCHANGED <<used, reused, fired, waiting, threadVars, redisVars, countVars>>

ShutdownClose ==
  /\ phase = "cleared"
  /\ phase' = "closed"
  /\ channels' = {} /\ leaving' = {}
  /\ wire' = <<>> /\ server' = {} /\ inbox' = <<>>
  /\ UNCHANGED <<conn, tableVars, fired, waiting, threadVars, countVars>>

-----------------------------------------------------------------------------
(* The Redis server and the connection (external). *)

ServerStep ==
  /\ wire # <<>>
  /\ wire' = Tail(wire)
  /\ inbox' = Append(inbox, Head(wire))
  /\ server' = IF Head(wire).cmd = "subscribe" THEN server \cup {Head(wire).topic}
                                               ELSE server \ {Head(wire).topic}
  /\ UNCHANGED <<tableVars, fired, waiting, threadVars, phase, channels, leaving, conn, countVars>>

\* What is published on a channel without a subscriber is lost at once.
Publish(t) ==
  /\ t \in server /\ published + drops < MaxEvents
  /\ published' = published + 1
  /\ inbox' = Append(inbox, [cmd |-> "message", topic |-> t])
  /\ owed' = [i \in Ids |-> IF i \in On(byTopic, t) THEN owed[i] + 1 ELSE owed[i]]
  /\ UNCHANGED <<tableVars, fired, waiting, threadVars, phase, channels, leaving, conn, wire,
                 server, drops, strays>>

\* Everything in transit is lost, and the server forgets the connection.
Drop ==
  /\ conn = "up" /\ published + drops < MaxEvents
  /\ conn' = "down"
  /\ drops' = drops + 1
  /\ wire' = <<>> /\ server' = {} /\ inbox' = <<>>
  /\ UNCHANGED <<tableVars, fired, waiting, threadVars, phase, channels, leaving, published, owed,
                 strays>>

\* The next poll or command reconnects, and redis-py subscribes its channels again.
Reconnect ==
  /\ conn = "down"
  /\ conn' = "up"
  /\ wire' = SetToSeq([cmd : {"subscribe"}, topic : channels])
  /\ leaving' = {}
  /\ UNCHANGED <<tableVars, fired, waiting, threadVars, phase, channels, server, inbox, countVars>>

-----------------------------------------------------------------------------
Call ==
  \/ \E i \in Ids : Subscribe(i) \/ SubscribeRaises(i) \/ Unsubscribe(i)
  \/ \E t \in Topics : UnsubscribeTopic(t)
  \/ \E T \in SUBSET Topics \ {{}} : BeginWait(T)
  \/ WaitReturns \/ WaitTimesOut

Listen == ReadReply \/ HandleReply \/ (\E i \in Ids : RunCallback(i)) \/ ListenerExits

Shutdown == ShutdownStop \/ ShutdownJoin \/ ShutdownClear \/ ShutdownClose

Redis == ServerStep \/ (\E t \in Topics : Publish(t)) \/ Drop \/ Reconnect

Next == Call \/ Listen \/ Shutdown \/ Redis

Spec == Init /\ [][Next]_vars

\* The listener loop never gives up before shutdown, the server answers, and a
\* lost connection is retried at every poll.  Callers owe nothing.
Fairness ==
  /\ WF_vars(ReadReply) /\ WF_vars(HandleReply) /\ WF_vars(ListenerExits)
  /\ \A i \in Ids : WF_vars(RunCallback(i))
  /\ WF_vars(ServerStep) /\ WF_vars(Reconnect)

FairSpec == Spec /\ Fairness

-----------------------------------------------------------------------------
(* Properties. *)

\* The server will have the channel once it has worked off the wire.
WillServe(t) ==
  LET cmds == {k \in DOMAIN wire : wire[k].topic = t}
  IN  IF cmds = {} THEN t \in server
      ELSE \E k \in cmds : wire[k].cmd = "subscribe" /\ \A m \in cmds : m <= k

\* Every registered callback's channel is subscribed, or the command that does
\* it is under way and no later command undoes it, however registrations,
\* removals and reconnections of the same channel alternate.
RegisteredIsServed ==
  phase = "open" /\ conn = "up" => \A i \in byTopic : WillServe(TopicOf[i])

\* An Event that is set means that the server has the channel, as submit_job
\* assumes when it releases the job: as long as the connection lasts and the
\* channel has not been given up before.  Acknowledgements are matched by name, so
\* that of an earlier subscription may set the Event of the next one (reused).
AckSound ==
  \A t \in Topics \ reused :
    phase = "open" /\ drops = 0 /\ event[t] \in fired => t \in server

\* How often m occurs in s.
Copies(s, m) == Cardinality({k \in DOMAIN s : s[k] = m})

\* A callback registered when the server took a message is run for it: the
\* message is waiting, held by the listener, or has reached the callback.
NoLoss ==
  \A i \in byTopic :
    phase = "open" /\ drops = 0 =>
      owed[i] <= Copies(inbox, [cmd |-> "message", topic |-> TopicOf[i]])
                 + (IF held = [cmd |-> "message", topic |-> TopicOf[i]] THEN 1 ELSE 0)
                 + (IF i \in batch THEN 1 ELSE 0)

\* After unsubscribe() or shutdown() has returned, a callback may run for the one
\* message the listener had already copied it for, and never again.
AtMostOneStray == \A i \in Ids : strays[i] <= 1

\* Every registration that stays is in the end acknowledged by the server,
\* through lost connections and repeated subscriptions of the same channel.
EventuallyAcknowledged ==
  \A i \in Ids :
    i \in byTopic ~> \/ i \notin byTopic \/ phase # "open"
                     \/ event[TopicOf[i]] \in fired /\ TopicOf[i] \in server

\* A listener that has been told to stop ends, whatever it was doing, on a dead or
\* closed connection too, unless a later subscribe() takes the order back.
StopIsObeyed == stop ~> listener = "off" \/ ~stop

-----------------------------------------------------------------------------
(* Why the safety properties hold: an inductive invariant. *)

\* The two tables list the same registrations, made by a call of subscribe();
\* callbacks and Events come from such calls too, and an Event is filed under the
\* topic it was created for.
TablesAgree ==
  /\ byId = byTopic /\ byTopic \subseteq used
  /\ fired \subseteq used /\ batch \subseteq used
  /\ \A t \in Topics : event[t] # NoEvent => event[t] \in used /\ TopicOf[event[t]] = t

\* The listener holds a reply or has callbacks left exactly in these two states.
ListenerState ==
  /\ held # NoReply <=> listener = "holding"
  /\ batch # {} <=> listener = "dispatching"

\* PubSub lists the channel of every registered callback and is not waiting to
\* drop it, so that a reconnection subscribes it.
ChannelsListed ==
  /\ IsFiniteSet(channels)
  /\ phase = "open" => \A i \in byTopic : TopicOf[i] \in channels \ leaving

\* A callback that is registered, waiting to run or not yet known has no stray call.
StraysComeLast == \A i \in Ids : i \in byTopic \cup batch \/ i \notin used => strays[i] = 0

\* A callback not yet known is owed no message.
OwedToKnown == \A i \in Ids \ used : owed[i] = 0

\* Only a lost connection takes the client off the server.
DownIsDropped == drops = 0 => conn = "up"

\* Nothing is on its way for a topic that nobody has subscribed.
Untouched ==
  \A t \in Topics :
    On(used, t) = {} =>
      /\ event[t] = NoEvent /\ t \notin server \cup channels
      /\ \A k \in DOMAIN wire : wire[k].topic # t
      /\ \A k \in DOMAIN inbox : inbox[k].topic # t
      /\ held # NoReply => held.topic # t

\* While a topic has its first Event, no UNSUBSCRIBE is on its way, and the server
\* has the topic from the moment it acknowledges it.
FirstEvent ==
  \A t \in Topics \ reused :
    phase = "open" /\ drops = 0 /\ event[t] # NoEvent =>
      /\ \A k \in DOMAIN wire : wire[k] # [cmd |-> "unsubscribe", topic |-> t]
      /\ \/ \E k \in DOMAIN inbox : inbox[k] = [cmd |-> "subscribe", topic |-> t]
         \/ held = [cmd |-> "subscribe", topic |-> t]
         \/ event[t] \in fired
         => t \in server

\* The safety properties with what makes them inductive.
ClientInv ==
  /\ TypeOK /\ TablesAgree /\ ListenerState
  /\ ChannelsListed /\ RegisteredIsServed
  /\ StraysComeLast /\ AtMostOneStray
  /\ DownIsDropped /\ Untouched /\ FirstEvent
  /\ OwedToKnown /\ NoLoss
=============================================================================
