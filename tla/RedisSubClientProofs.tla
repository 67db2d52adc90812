------------------------ MODULE RedisSubClientProofs ------------------------
(* The client keeps its promises for any number of topics, registrations,   *)
(* messages and lost connections.                                           *)
EXTENDS RedisSubClient, FiniteSetTheorems, TLAPS

-----------------------------------------------------------------------------
(* Operators of the model. *)

\* SetToSeq lists every element of a finite set once.
LEMMA ListsOnce ==
  ASSUME NEW S, IsFiniteSet(S)
  PROVE  /\ SetToSeq(S) \in Seq(S)
         /\ \A s \in S : \E k \in DOMAIN SetToSeq(S) : SetToSeq(S)[k] = s
         /\ \A k, m \in DOMAIN SetToSeq(S) : SetToSeq(S)[k] = SetToSeq(S)[m] => k = m
<1> DEFINE n == Cardinality(S)
<1>1. PICK f \in Bijection(1..n, S) : TRUE
  BY FS_CardinalityType DEF ExistsBijection
<1>2. n \in Nat
  BY FS_CardinalityType
<1>3. f \in [1..n -> S] /\ IsInjective(f)
  BY <1>1 DEF Bijection, Injection
<1>4. SetToSeq(S) \in [1..n -> S] /\ IsInjective(SetToSeq(S))
  BY <1>3 DEF SetToSeq
<1>5. SetToSeq(S) \in Injection(1..n, S)
  BY <1>4 DEF Injection
<1>6. IsFiniteSet(1..n) /\ Cardinality(1..n) = n
  BY <1>2, FS_Interval
<1>7. SetToSeq(S) \in Surjection(1..n, S)
  BY <1>5, <1>6, FS_Injection
<1>8. \A s \in S : \E k \in 1..n : SetToSeq(S)[k] = s
  BY <1>7 DEF Surjection
<1> QED BY <1>2, <1>4, <1>8 DEF IsInjective

\* Appending to a sequence of things of one kind.
LEMMA AppendTyped ==
  ASSUME NEW S, NEW s \in Seq(S), NEW e \in S
  PROVE  Append(s, e) \in Seq(S)
OBVIOUS

\* What is in a longer sequence was there or has been added.
LEMMA AppendItems ==
  ASSUME NEW S, NEW s \in Seq(S), NEW e \in S, NEW k \in DOMAIN Append(s, e)
  PROVE  Append(s, e)[k] = e \/ (k \in DOMAIN s /\ Append(s, e)[k] = s[k])
<1>1. CASE k = Len(s) + 1
  <2>1. Append(s, e)[Len(s) + 1] = e
    OBVIOUS
  <2> QED BY <1>1, <2>1
<1>2. CASE k # Len(s) + 1
  <2>1. k \in DOMAIN s
    BY <1>2
  <2> QED BY <2>1
<1> QED BY <1>1, <1>2

\* The copies of m in a sequence can be counted.
LEMMA CopiesCounted ==
  ASSUME NEW S, NEW s \in Seq(S), NEW m
  PROVE  /\ IsFiniteSet({k \in DOMAIN s : s[k] = m})
         /\ Copies(s, m) \in Nat
<1>1. IsFiniteSet(1..Len(s))
  BY FS_Interval
<1>2. {k \in DOMAIN s : s[k] = m} \in SUBSET (1..Len(s))
  OBVIOUS
<1>3. IsFiniteSet({k \in DOMAIN s : s[k] = m})
  BY <1>1, <1>2, FS_Subset
<1> QED BY <1>3, FS_CardinalityType DEF Copies

\* Appending adds a copy of what is appended.
LEMMA CopiesAppend ==
  ASSUME NEW S, NEW s \in Seq(S), NEW e \in S, NEW m
  PROVE  Copies(Append(s, e), m) = Copies(s, m) + (IF e = m THEN 1 ELSE 0)
<1> DEFINE old == {k \in DOMAIN s : s[k] = m}
           new == {k \in DOMAIN Append(s, e) : Append(s, e)[k] = m}
<1>1. new = IF e = m THEN old \cup {Len(s) + 1} ELSE old
  OBVIOUS
<1>2. Len(s) + 1 \notin old
  OBVIOUS
<1>3. IsFiniteSet(old) /\ Cardinality(old) \in Nat
  BY CopiesCounted DEF Copies
<1>4. Cardinality(old \cup {Len(s) + 1}) = Cardinality(old) + 1
  <2> HIDE DEF old
  <2> QED BY <1>2, <1>3, FS_AddElement
<1>5. Copies(s, m) = Cardinality(old) /\ Copies(Append(s, e), m) = Cardinality(new)
  BY DEF Copies
<1> HIDE DEF old, new
<1> QED BY <1>1, <1>3, <1>4, <1>5

\* Taking the first element takes away a copy of it.
LEMMA CopiesTail ==
  ASSUME NEW S, NEW s \in Seq(S), s # <<>>, NEW m
  PROVE  Copies(s, m) = Copies(Tail(s), m) + (IF Head(s) = m THEN 1 ELSE 0)
<1> DEFINE rest  == {k \in DOMAIN Tail(s) : Tail(s)[k] = m}
           all   == {k \in DOMAIN s : s[k] = m}
           later == all \ {1}
           shift == [k \in rest |-> k + 1]
<1>1. Tail(s) \in Seq(S) /\ Len(s) \in Nat \ {0}
  OBVIOUS
<1>2. shift \in Bijection(rest, later)
  <2>1. \A k \in rest : k + 1 \in later
    OBVIOUS
  <2>2. shift \in [rest -> later]
    <3> HIDE DEF rest, all, later
    <3> QED BY <2>1
  <2>3. IsInjective(shift)
    BY DEF IsInjective
  <2>4. \A n \in later : n - 1 \in rest /\ shift[n - 1] = n
    OBVIOUS
  <2>5. \A n \in later : \E k \in rest : shift[k] = n
    BY <2>4
  <2> HIDE DEF rest, all, later, shift
  <2> QED BY <2>2, <2>3, <2>5 DEF Bijection, Injection, Surjection
<1>3. IsFiniteSet(rest) /\ Cardinality(rest) \in Nat
  BY <1>1, CopiesCounted DEF Copies
<1>4. Cardinality(later) = Cardinality(rest)
  <2> HIDE DEF rest, all, later, shift
  <2> QED BY <1>2, <1>3, FS_Bijection DEF ExistsBijection
<1>5. IsFiniteSet(later)
  <2> HIDE DEF rest, all, later, shift
  <2> QED BY <1>2, <1>3, FS_Bijection DEF ExistsBijection
<1>6. 1 \notin later /\ all = IF Head(s) = m THEN later \cup {1} ELSE later
  BY <1>1
<1>7. Cardinality(later \cup {1}) = Cardinality(later) + 1
  <2> HIDE DEF all, later
  <2> QED BY <1>5, <1>6, FS_AddElement
<1>8. Copies(Tail(s), m) = Cardinality(rest) /\ Copies(s, m) = Cardinality(all)
  BY DEF Copies
<1> HIDE DEF rest, all, later
<1> QED BY <1>3, <1>4, <1>6, <1>7, <1>8

\* Appending a command: the last one about a channel decides.
LEMMA ServeAppend ==
  ASSUME TypeOK, NEW c \in Commands, wire' = Append(wire, c), server' = server
  PROVE  /\ c.cmd = "subscribe" => WillServe(c.topic)'
         /\ \A t \in Topics : t # c.topic /\ WillServe(t) => WillServe(t)'
<1>1. wire \in Seq(Commands)
  BY DEF TypeOK
<1>2. /\ wire' \in Seq(Commands) /\ Len(wire') = Len(wire) + 1 /\ wire'[Len(wire) + 1] = c
      /\ \A k \in DOMAIN wire : wire'[k] = wire[k]
      /\ DOMAIN wire' = 1..(Len(wire) + 1) /\ DOMAIN wire = 1..Len(wire)
  BY <1>1
<1>3. ASSUME c.cmd = "subscribe" PROVE WillServe(c.topic)'
  BY <1>1, <1>2, <1>3 DEF WillServe
<1>4. ASSUME NEW t \in Topics, t # c.topic, WillServe(t) PROVE WillServe(t)'
  <2> DEFINE cmds == {k \in DOMAIN wire : wire[k].topic = t}
  <2>1. {k \in DOMAIN wire' : wire'[k].topic = t} = cmds
    BY <1>1, <1>2, <1>4
  <2>2. \A k \in cmds : wire'[k] = wire[k]
    BY <1>2
  <2> QED BY <1>4, <2>1, <2>2 DEF WillServe
<1> QED BY <1>3, <1>4

\* The server carrying out a command.
LEMMA ServeNext ==
  ASSUME TypeOK, ServerStep, NEW t \in Topics, WillServe(t)
  PROVE  WillServe(t)'
<1>1. /\ wire \in Seq(Commands) /\ wire # <<>> /\ wire' = Tail(wire)
      /\ Head(wire) = wire[1]
  BY DEF TypeOK, ServerStep
<1>2. /\ DOMAIN wire = 1..Len(wire) /\ DOMAIN wire' = 1..(Len(wire) - 1) /\ Len(wire) \in Nat
      /\ \A k \in DOMAIN wire' : wire'[k] = wire[k + 1]
  BY <1>1
<1> DEFINE cmds == {k \in DOMAIN wire : wire[k].topic = t}
           rest == {k \in DOMAIN wire' : wire'[k].topic = t}
<1>3. \A k \in 1..(Len(wire) - 1) : k \in rest <=> k + 1 \in cmds
  BY <1>2
<1>4. CASE rest = {}
  <2>1. cmds \subseteq {1}
    <3> SUFFICES ASSUME NEW k \in cmds, k # 1 PROVE FALSE
      OBVIOUS
    <3>1. k - 1 \in 1..(Len(wire) - 1)
      BY <1>2
    <3> QED BY <1>3, <1>4, <3>1
  <2>2. t \in server'
    BY <1>1, <2>1 DEF WillServe, ServerStep
  <2> QED BY <1>4, <2>2 DEF WillServe
<1>5. CASE rest # {}
  <2>1. PICK k \in cmds : wire[k].cmd = "subscribe" /\ \A m \in cmds : m <= k
    BY <1>2, <1>5 DEF WillServe
  <2>2. k # 1
    <3>1. PICK m \in rest : TRUE
      BY <1>5
    <3>2. m \in Nat /\ m >= 1 /\ m + 1 \in cmds
      BY <1>2, <3>1
    <3> HIDE DEF cmds, rest
    <3>3. m + 1 <= k
      BY <2>1, <3>2
    <3> QED BY <3>2, <3>3
  <2>3. k - 1 \in rest /\ wire'[k - 1].cmd = "subscribe"
    BY <1>2, <2>1, <2>2
  <2>4. \A m \in rest : m <= k - 1
    BY <1>2, <2>1
  <2> QED BY <1>5, <2>3, <2>4 DEF WillServe
<1> QED BY <1>4, <1>5

\* redis-py subscribes all its channels on a new connection.
LEMMA Resubscribes ==
  ASSUME TypeOK, ChannelsListed, Reconnect
  PROVE  /\ wire' \in Seq([cmd : {"subscribe"}, topic : channels])
         /\ \A t \in channels : WillServe(t)'
<1> DEFINE cmds == [cmd : {"subscribe"}, topic : channels]
           f    == [t \in channels |-> [cmd |-> "subscribe", topic |-> t]]
<1>1. f \in Bijection(channels, cmds)
  <2>1. f \in [channels -> cmds]
    OBVIOUS
  <2>2. IsInjective(f)
    BY DEF IsInjective
  <2>3. \A c \in cmds : c.topic \in channels /\ f[c.topic] = c
    OBVIOUS
  <2>4. \A c \in cmds : \E t \in channels : f[t] = c
    BY <2>3
  <2> HIDE DEF f, cmds
  <2> QED BY <2>1, <2>2, <2>4 DEF Bijection, Injection, Surjection
<1>2. IsFiniteSet(cmds)
  <2> HIDE DEF f, cmds
  <2> QED BY <1>1, FS_Bijection DEF ExistsBijection, ChannelsListed
<1>3. wire' = SetToSeq(cmds)
  BY DEF Reconnect
<1>4. /\ wire' \in Seq(cmds)
      /\ \A c \in cmds : \E k \in DOMAIN wire' : wire'[k] = c
      /\ \A k, m \in DOMAIN wire' : wire'[k] = wire'[m] => k = m
  <2> HIDE DEF cmds
  <2> QED BY <1>2, <1>3, ListsOnce
<1>5. ASSUME NEW t \in channels PROVE WillServe(t)'
  <2>1. PICK k \in DOMAIN wire' : wire'[k] = [cmd |-> "subscribe", topic |-> t]
    BY <1>4
  <2>2. \A m \in DOMAIN wire' : wire'[m].topic = t => m = k
    <3>1. \A m \in DOMAIN wire' : wire'[m] \in cmds
      <4> HIDE DEF cmds
      <4> QED BY <1>4
    <3>2. \A m \in DOMAIN wire' : wire'[m].topic = t => wire'[m] = [cmd |-> "subscribe", topic |-> t]
      BY <3>1
    <3> QED BY <1>4, <2>1, <3>2
  <2>3. k \in Int
    BY <1>4, <2>1
  <2> QED BY <2>1, <2>2, <2>3 DEF WillServe
<1> QED BY <1>4, <1>5

-----------------------------------------------------------------------------
(* Registration. *)

\* The topic of a registration is one, and no registration is the missing event.
LEMMA TopicTyped == \A i \in Ids : TopicOf[i] \in Topics /\ i # NoEvent
BY ClientAssumption

\* The first registration of a topic sends SUBSCRIBE.
LEMMA SubscribeFirstStep ==
  ASSUME ClientInv, TypeOK', NEW i \in Ids, Subscribe(i), On(byTopic, TopicOf[i]) = {}
  PROVE  ClientInv'
<1> DEFINE t == TopicOf[i]
           c == [cmd |-> "subscribe", topic |-> t]
<1> USE DEF ClientInv
<1>1. /\ i \notin used /\ used' = used \cup {i} /\ byTopic' = byTopic \cup {i} /\ byId' = byId \cup {i}
      /\ event' = [event EXCEPT ![t] = i] /\ t \in Topics /\ c \in Commands
      /\ conn = "up" /\ wire' = Append(wire, c)
      /\ channels' = channels \cup {t} /\ leaving' = leaving \ {t}
      /\ reused' = IF On(used, t) = {} THEN reused ELSE reused \cup {t}
      /\ UNCHANGED <<conn, server, inbox, held, batch, fired, phase, published, drops, owed, strays>>
  BY TopicTyped DEF Subscribe, SendSubscribe, EnsureThread, threadVars, countVars, Commands
<1>2. TablesAgree'
  BY <1>1, TopicTyped DEF TablesAgree, TypeOK
<1>3. ListenerState'
  BY DEF ListenerState, Subscribe, EnsureThread, threadVars
<1>4. ChannelsListed'
  <2>1. IsFiniteSet(channels')
    BY <1>1, FS_AddElement DEF ChannelsListed
  <2> QED BY <1>1, <2>1 DEF ChannelsListed
<1>5. RegisteredIsServed'
  <2>1. WillServe(t)' /\ \A u \in Topics : u # t /\ WillServe(u) => WillServe(u)'
    BY <1>1, ServeAppend
  <2>2. \A j \in byTopic : TopicOf[j] \in Topics
    BY TopicTyped DEF TypeOK
  <2> QED BY <1>1, <2>1, <2>2 DEF RegisteredIsServed
<1>6. StraysComeLast' /\ AtMostOneStray'
  BY <1>1 DEF StraysComeLast, AtMostOneStray
<1>7. DownIsDropped' /\ OwedToKnown'
  BY <1>1 DEF DownIsDropped, OwedToKnown
<1>8. /\ DOMAIN wire' = 1..(Len(wire) + 1) /\ DOMAIN wire = 1..Len(wire) /\ Len(wire) \in Nat
      /\ wire'[Len(wire) + 1] = c /\ \A k \in DOMAIN wire : wire'[k] = wire[k]
  BY <1>1 DEF TypeOK
<1>9. Untouched'
  <2> SUFFICES ASSUME NEW u \in Topics, On(used', u) = {}
               PROVE  /\ event'[u] = NoEvent /\ u \notin server' \cup channels'
                      /\ \A k \in DOMAIN wire' : wire'[k].topic # u
                      /\ \A k \in DOMAIN inbox' : inbox'[k].topic # u
                      /\ held' # NoReply => held'.topic # u
    BY DEF Untouched, On
  <2>1. u # t /\ On(used, u) = {}
    BY <1>1 DEF On
  <2> QED BY <1>1, <1>8, <2>1 DEF Untouched, TypeOK
<1>10. FirstEvent'
  <2> SUFFICES ASSUME NEW u \in Topics \ reused', phase' = "open", drops' = 0, event'[u] # NoEvent
               PROVE  /\ \A k \in DOMAIN wire' : wire'[k] # [cmd |-> "unsubscribe", topic |-> u]
                      /\ \/ \E k \in DOMAIN inbox' : inbox'[k] = [cmd |-> "subscribe", topic |-> u]
                         \/ held' = [cmd |-> "subscribe", topic |-> u]
                         \/ event'[u] \in fired'
                         => u \in server'
    BY DEF FirstEvent
  <2>1. CASE u # t
    BY <1>1, <1>8, <2>1 DEF FirstEvent, TypeOK
  <2>2. CASE u = t
    <3>1. On(used, t) = {} /\ i \notin fired
      BY <1>1, <2>2 DEF TablesAgree
    <3>2. /\ held # [cmd |-> "subscribe", topic |-> t]
          /\ \A k \in DOMAIN inbox : inbox[k] # [cmd |-> "subscribe", topic |-> t]
          /\ \A k \in DOMAIN wire : wire[k] # [cmd |-> "unsubscribe", topic |-> t]
      BY <1>1, <3>1 DEF Untouched, NoReply
    <3>3. event'[t] = i /\ c # [cmd |-> "unsubscribe", topic |-> t]
      BY <1>1 DEF TypeOK
    <3> QED BY <1>1, <1>8, <2>2, <3>1, <3>2, <3>3
  <2> QED BY <2>1, <2>2
<1>11. NoLoss'
  <2>1. owed[i] = 0
    BY <1>1 DEF OwedToKnown
  <2>2. Copies(inbox, [cmd |-> "message", topic |-> t]) \in Nat
    BY CopiesCounted DEF TypeOK
  <2>3. owed[i] <= Copies(inbox, [cmd |-> "message", topic |-> t])
                     + (IF held = [cmd |-> "message", topic |-> t] THEN 1 ELSE 0)
                     + (IF i \in batch THEN 1 ELSE 0)
    BY <2>1, <2>2
  <2> QED BY <1>1, <2>3 DEF NoLoss
<1> QED BY <1>2, <1>3, <1>4, <1>5, <1>6, <1>7, <1>9, <1>10, <1>11

\* Another one leaves the connection alone.
LEMMA SubscribeAnotherStep ==
  ASSUME ClientInv, TypeOK', NEW i \in Ids,
         \/ Subscribe(i) /\ On(byTopic, TopicOf[i]) # {}
         \/ SubscribeRaises(i)
  PROVE  ClientInv'
<1> DEFINE t == TopicOf[i]
<1> USE DEF ClientInv
<1>1. /\ i \notin used /\ used' = used \cup {i} /\ t \in Topics
      /\ UNCHANGED <<held, batch, fired, phase, countVars, redisVars>>
  BY TopicTyped DEF Subscribe, SubscribeRaises, EnsureThread, threadVars
<1>2. /\ \/ byTopic' = byTopic \cup {i} /\ byId' = byId \cup {i} /\ (\E j \in byTopic : TopicOf[j] = t)
            /\ event' = event
         \/ UNCHANGED <<byTopic, byId>> /\ event' = [event EXCEPT ![t] = i] /\ conn = "down"
      /\ reused' = reused
  BY DEF Subscribe, SubscribeRaises, On
<1>3. TablesAgree'
  <2>1. byId' = byTopic' /\ byTopic' \subseteq used' /\ fired' \subseteq used' /\ batch' \subseteq used'
    BY <1>1, <1>2 DEF TablesAgree
  <2>2. ASSUME NEW u \in Topics, event'[u] # NoEvent
        PROVE  event'[u] \in used' /\ TopicOf[event'[u]] = u
    BY <1>1, <1>2, <2>2 DEF TablesAgree, TypeOK
  <2> QED BY <2>1, <2>2 DEF TablesAgree
<1>4. ListenerState'
  BY DEF ListenerState, Subscribe, SubscribeRaises, EnsureThread, threadVars
<1>5. ChannelsListed'
  BY <1>1, <1>2 DEF ChannelsListed, redisVars
<1>6. RegisteredIsServed'
  BY <1>1, <1>2 DEF RegisteredIsServed, WillServe, redisVars
<1>7. StraysComeLast' /\ AtMostOneStray'
  BY <1>1, <1>2 DEF StraysComeLast, AtMostOneStray, countVars
<1>8. DownIsDropped' /\ OwedToKnown'
  BY <1>1 DEF DownIsDropped, OwedToKnown, countVars, redisVars
<1>9. Untouched'
  <2>1. \A u \in Topics : On(used', u) = {} => On(used, u) = {} /\ event'[u] = event[u]
    BY <1>1, <1>2 DEF On, TypeOK
  <2> QED BY <1>1, <2>1 DEF Untouched, redisVars
<1>10. FirstEvent'
  BY <1>1, <1>2 DEF FirstEvent, DownIsDropped, redisVars, countVars
<1>11. NoLoss'
  <2>1. owed[i] = 0
    BY <1>1 DEF OwedToKnown
  <2>2. Copies(inbox, [cmd |-> "message", topic |-> t]) \in Nat
    BY CopiesCounted DEF TypeOK
  <2>3. owed[i] <= Copies(inbox, [cmd |-> "message", topic |-> t])
                     + (IF held = [cmd |-> "message", topic |-> t] THEN 1 ELSE 0)
                     + (IF i \in batch THEN 1 ELSE 0)
    BY <2>1, <2>2
  <2> QED BY <1>1, <1>2, <2>3 DEF NoLoss, countVars, redisVars
<1> QED BY <1>3, <1>4, <1>5, <1>6, <1>7, <1>8, <1>9, <1>10, <1>11

\* A registration that is not the last of its topic goes: the connection stays.
LEMMA UnsubscribeStep ==
  ASSUME ClientInv, TypeOK', NEW i \in Ids, Unsubscribe(i), On(byTopic, TopicOf[i]) # {i}
  PROVE  ClientInv'
<1> USE DEF ClientInv
<1>1. /\ byTopic' = byTopic \ {i} /\ byId' = byId \ {i}
      /\ UNCHANGED <<used, event, reused, fired, threadVars, phase, countVars, redisVars>>
  BY DEF Unsubscribe
<1>2. TablesAgree' /\ ListenerState'
  BY <1>1 DEF TablesAgree, ListenerState, threadVars
<1>3. ChannelsListed' /\ RegisteredIsServed'
  BY <1>1 DEF ChannelsListed, RegisteredIsServed, WillServe, redisVars
<1>4. StraysComeLast' /\ AtMostOneStray' /\ DownIsDropped' /\ OwedToKnown'
  BY <1>1 DEF StraysComeLast, AtMostOneStray, DownIsDropped, OwedToKnown, countVars, redisVars,
     threadVars
<1>5. Untouched' /\ FirstEvent'
  BY <1>1 DEF Untouched, FirstEvent, On, redisVars, countVars, threadVars
<1>6. NoLoss'
  BY <1>1 DEF NoLoss, redisVars, countVars, threadVars
<1> QED BY <1>2, <1>3, <1>4, <1>5, <1>6

\* The last registrations of a topic go, and UNSUBSCRIBE is sent.
LEMMA TopicGoesStep ==
  ASSUME ClientInv, TypeOK', NEW t \in Topics, SendUnsubscribe(t), On(byTopic, t) # {},
         byTopic' = byTopic \ On(byTopic, t), byId' = byId \ On(byTopic, t),
         event' = [event EXCEPT ![t] = NoEvent],
         UNCHANGED <<used, reused, fired, threadVars, phase, countVars>>
  PROVE  ClientInv'
<1> DEFINE c == [cmd |-> "unsubscribe", topic |-> t]
<1> USE DEF ClientInv
<1>1. /\ wire' = IF conn = "up" THEN Append(wire, c) ELSE wire
      /\ leaving' = leaving \cup {t} /\ c \in Commands
      /\ UNCHANGED <<channels, conn, server, inbox, held, batch, listener, published, drops, owed,
                     strays>>
  BY DEF SendUnsubscribe, threadVars, countVars, Commands
<1>2. \A i \in byTopic' : i \in byTopic /\ TopicOf[i] \in Topics /\ TopicOf[i] # t
  BY TopicTyped DEF On, TypeOK
<1>3. TablesAgree' /\ ListenerState'
  BY <1>1 DEF TablesAgree, ListenerState, TypeOK
<1>4. ChannelsListed'
  BY <1>1, <1>2 DEF ChannelsListed
<1>5. RegisteredIsServed'
  <2> SUFFICES ASSUME phase = "open", conn = "up", NEW i \in byTopic' PROVE WillServe(TopicOf[i])'
    BY <1>1 DEF RegisteredIsServed
  <2>1. \A u \in Topics : u # t /\ WillServe(u) => WillServe(u)'
    BY <1>1, ServeAppend
  <2> QED BY <1>2, <2>1 DEF RegisteredIsServed
<1>6. StraysComeLast' /\ AtMostOneStray' /\ DownIsDropped' /\ OwedToKnown'
  BY <1>1 DEF StraysComeLast, AtMostOneStray, DownIsDropped, OwedToKnown
<1>7. \A k \in DOMAIN wire' : wire'[k] = c \/ (k \in DOMAIN wire /\ wire'[k] = wire[k])
  <2>1. CASE conn = "up"
    <3>1. wire \in Seq(Commands) /\ c \in Commands /\ wire' = Append(wire, c)
      BY <1>1, <2>1 DEF TypeOK
    <3> HIDE DEF c
    <3> QED BY <3>1, AppendItems
  <2>2. CASE conn # "up"
    BY <1>1, <2>2
  <2> QED BY <2>1, <2>2
<1>8. Untouched'
  <2>1. On(used, t) # {}
    BY DEF On, TablesAgree
  <2> QED BY <1>1, <1>7, <2>1 DEF Untouched, On, TypeOK
<1>9. FirstEvent'
  BY <1>1, <1>7 DEF FirstEvent, TypeOK
<1>10. NoLoss'
  BY <1>1, <1>2 DEF NoLoss
<1> QED BY <1>3, <1>4, <1>5, <1>6, <1>8, <1>9, <1>10

\* Every call of the application preserves the invariant.
LEMMA CallStep ==
  ASSUME ClientInv, TypeOK', Call
  PROVE  ClientInv'
<1>1. CASE \E i \in Ids : Subscribe(i) \/ SubscribeRaises(i)
  BY <1>1, SubscribeFirstStep, SubscribeAnotherStep
<1>2. ASSUME NEW i \in Ids, Unsubscribe(i) PROVE ClientInv'
  <2>1. CASE On(byTopic, TopicOf[i]) = {i}
    <3>1. SendUnsubscribe(TopicOf[i]) /\ event' = [event EXCEPT ![TopicOf[i]] = NoEvent]
      BY <1>2, <2>1 DEF Unsubscribe
    <3>2. /\ byTopic' = byTopic \ On(byTopic, TopicOf[i]) /\ byId' = byId \ On(byTopic, TopicOf[i])
          /\ On(byTopic, TopicOf[i]) # {}
          /\ UNCHANGED <<used, reused, fired, threadVars, phase, countVars>>
      BY <1>2, <2>1 DEF Unsubscribe
    <3> QED BY <3>1, <3>2, TopicTyped, TopicGoesStep
  <2>2. CASE On(byTopic, TopicOf[i]) # {i}
    BY <1>2, <2>2, UnsubscribeStep
  <2> QED BY <2>1, <2>2
<1>3. ASSUME NEW t \in Topics, UnsubscribeTopic(t) PROVE ClientInv'
  BY <1>3, TopicGoesStep DEF UnsubscribeTopic
<1>4. CASE (\E T \in SUBSET Topics \ {{}} : BeginWait(T)) \/ WaitReturns \/ WaitTimesOut
  <2>1. UNCHANGED <<tableVars, fired, threadVars, phase, redisVars, countVars>>
    BY <1>4 DEF BeginWait, WaitReturns, WaitTimesOut
  <2> QED BY <2>1 DEF ClientInv, tableVars, threadVars, redisVars, countVars, TablesAgree,
             ListenerState, ChannelsListed, RegisteredIsServed, WillServe, StraysComeLast,
             AtMostOneStray, OwedToKnown, DownIsDropped, Untouched, FirstEvent, NoLoss, On
<1> QED BY <1>1, <1>2, <1>3, <1>4 DEF Call

-----------------------------------------------------------------------------
(* The listener. *)

\* Reading a reply takes it from the inbox into the listener's hand.
LEMMA ReadReplyStep ==
  ASSUME ClientInv, TypeOK', ReadReply
  PROVE  ClientInv'
<1> USE DEF ClientInv
<1>1. /\ inbox \in Seq(Replies) /\ inbox # <<>> /\ inbox' = Tail(inbox) /\ held' = Head(inbox)
      /\ held' \in Replies /\ held = NoReply /\ listener' = "holding" /\ batch = {}
      /\ UNCHANGED <<tableVars, fired, batch, phase, conn, wire, server, countVars>>
  BY DEF ReadReply, TypeOK, ListenerState
<1>2. held' # NoReply
  BY <1>1 DEF Replies, NoReply
<1>3. /\ DOMAIN inbox = 1..Len(inbox) /\ Len(inbox) \in Nat \ {0} /\ held' = inbox[1]
      /\ DOMAIN inbox' = 1..(Len(inbox) - 1) /\ \A k \in DOMAIN inbox' : inbox'[k] = inbox[k + 1]
  BY <1>1
<1>4. TablesAgree' /\ ListenerState'
  BY <1>1, <1>2 DEF TablesAgree, ListenerState, tableVars
<1>5. ChannelsListed'
  <2>1. CASE UNCHANGED <<channels, leaving>>
    BY <1>1, <2>1 DEF ChannelsListed, tableVars
  <2>2. CASE /\ held'.topic \in leaving
             /\ channels' = channels \ {held'.topic} /\ leaving' = leaving \ {held'.topic}
    BY <1>1, <2>2, FS_RemoveElement DEF ChannelsListed, tableVars
  <2> QED BY <2>1, <2>2 DEF ReadReply
<1>6. RegisteredIsServed'
  BY <1>1 DEF RegisteredIsServed, WillServe, tableVars
<1>7. StraysComeLast' /\ AtMostOneStray' /\ DownIsDropped' /\ OwedToKnown'
  BY <1>1 DEF StraysComeLast, AtMostOneStray, DownIsDropped, OwedToKnown, tableVars, countVars
<1>8. Untouched'
  <2> SUFFICES ASSUME NEW t \in Topics, On(used, t) = {}
               PROVE  /\ event[t] = NoEvent /\ t \notin server \cup channels'
                      /\ \A k \in DOMAIN wire : wire[k].topic # t
                      /\ \A k \in DOMAIN inbox' : inbox'[k].topic # t
                      /\ held'.topic # t
    BY <1>1 DEF Untouched, tableVars, On
  <2>1. channels' \subseteq channels
    BY DEF ReadReply
  <2> QED BY <1>1, <1>3, <2>1 DEF Untouched
<1>9. FirstEvent'
  BY <1>1, <1>3 DEF FirstEvent, tableVars, countVars
<1>10. NoLoss'
  <2> SUFFICES ASSUME NEW i \in byTopic, phase = "open", drops = 0, NEW m,
                      m = [cmd |-> "message", topic |-> TopicOf[i]]
               PROVE  owed[i] <= Copies(inbox', m) + (IF held' = m THEN 1 ELSE 0)
                                + (IF i \in batch THEN 1 ELSE 0)
    BY <1>1 DEF NoLoss, tableVars, countVars
  <2>1. Copies(inbox, m) = Copies(inbox', m) + (IF held' = m THEN 1 ELSE 0)
    BY <1>1, CopiesTail
  <2>2. Copies(inbox, m) \in Nat
    BY <1>1, CopiesCounted
  <2>3. owed[i] <= Copies(inbox, m) + 0 + (IF i \in batch THEN 1 ELSE 0)
    BY <1>1 DEF NoLoss, NoReply
  <2>4. owed[i] \in Int
    BY DEF TypeOK
  <2> QED BY <2>1, <2>2, <2>3, <2>4
<1> QED BY <1>4, <1>5, <1>6, <1>7, <1>8, <1>9, <1>10

\* Handling it sets the topic's Event, or copies the topic's callbacks.
LEMMA HandleReplyStep ==
  ASSUME ClientInv, TypeOK', HandleReply
  PROVE  ClientInv'
<1> USE DEF ClientInv
<1>1. /\ held \in Replies /\ held # NoReply /\ held' = NoReply /\ batch = {}
      /\ UNCHANGED <<tableVars, phase, redisVars, countVars>>
  BY DEF HandleReply, TypeOK, ListenerState
<1>2. batch' = IF held.cmd = "message" THEN On(byTopic, held.topic) ELSE {}
  BY DEF HandleReply
<1>3. fired' = IF held.cmd = "subscribe" /\ event[held.topic] # NoEvent
               THEN fired \cup {event[held.topic]} ELSE fired
  BY DEF HandleReply
<1>4. held.topic \in Topics
  BY <1>1 DEF Replies
<1>5. TablesAgree'
  BY <1>1, <1>2, <1>3, <1>4 DEF TablesAgree, tableVars, On
<1>6. ListenerState'
  BY <1>1 DEF ListenerState, HandleReply
<1>7. ChannelsListed' /\ RegisteredIsServed'
  BY <1>1 DEF ChannelsListed, RegisteredIsServed, WillServe, tableVars, redisVars
<1>8. StraysComeLast' /\ AtMostOneStray' /\ DownIsDropped' /\ OwedToKnown'
  BY <1>1, <1>2 DEF StraysComeLast, AtMostOneStray, DownIsDropped, OwedToKnown, On, tableVars,
         countVars,
     redisVars
<1>9. Untouched'
  BY <1>1 DEF Untouched, On, tableVars, redisVars
<1>10. FirstEvent'
  <2> SUFFICES ASSUME NEW t \in Topics \ reused, phase = "open", drops = 0, event[t] # NoEvent
               PROVE  /\ \A k \in DOMAIN wire : wire[k] # [cmd |-> "unsubscribe", topic |-> t]
                      /\ \/ \E k \in DOMAIN inbox : inbox[k] = [cmd |-> "subscribe", topic |-> t]
                         \/ event[t] \in fired'
                         => t \in server
    BY <1>1 DEF FirstEvent, tableVars, redisVars, countVars, NoReply
  <2>1. event[t] \in fired' => event[t] \in fired \/ held = [cmd |-> "subscribe", topic |-> t]
    <3> SUFFICES ASSUME event[t] \notin fired, held.cmd = "subscribe", event[held.topic] # NoEvent,
                        event[t] = event[held.topic]
                 PROVE  held = [cmd |-> "subscribe", topic |-> t]
      BY <1>3
    <3>1. held.topic = t
      BY <1>4 DEF TablesAgree
    <3> QED BY <1>1, <3>1 DEF Replies
  <2> QED BY <2>1 DEF FirstEvent
<1>11. NoLoss'
  <2> SUFFICES ASSUME NEW i \in byTopic, phase = "open", drops = 0, NEW m,
                      m = [cmd |-> "message", topic |-> TopicOf[i]]
               PROVE  owed[i] <= Copies(inbox, m) + (IF held' = m THEN 1 ELSE 0)
                                + (IF i \in batch' THEN 1 ELSE 0)
    BY <1>1 DEF NoLoss, tableVars, countVars, redisVars
  <2>1. owed[i] <= Copies(inbox, m) + (IF held = m THEN 1 ELSE 0)
    <3>1. Copies(inbox, m) \in Nat /\ owed[i] \in Int
      BY CopiesCounted DEF TypeOK
    <3> QED BY <1>1, <3>1 DEF NoLoss
  <2>2. held = m => i \in batch'
    BY <1>2 DEF On
  <2>3. held' # m
    BY <1>1 DEF NoReply
  <2>4. Copies(inbox, m) \in Nat /\ owed[i] \in Int
    BY CopiesCounted DEF TypeOK
  <2> QED BY <2>1, <2>2, <2>3, <2>4
<1> QED BY <1>5, <1>6, <1>7, <1>8, <1>9, <1>10, <1>11

\* Running a callback pays what is owed to it, or is its one stray call.
LEMMA RunCallbackStep ==
  ASSUME ClientInv, TypeOK', NEW i \in Ids, RunCallback(i)
  PROVE  ClientInv'
<1> USE DEF ClientInv
<1>1. /\ i \in batch /\ batch' = batch \ {i} /\ listener = "dispatching" /\ held = NoReply
      /\ UNCHANGED <<tableVars, fired, held, phase, redisVars, published, drops>>
  BY DEF RunCallback, ListenerState
<1>2. TablesAgree' /\ ChannelsListed' /\ RegisteredIsServed' /\ DownIsDropped' /\ Untouched' /\ FirstEvent'
  BY <1>1 DEF TablesAgree, ChannelsListed, RegisteredIsServed, WillServe, DownIsDropped, Untouched,
     FirstEvent, On, tableVars, redisVars
<1>3. ListenerState'
  BY <1>1 DEF ListenerState, RunCallback
<1>4. CASE i \in byTopic
  <2>1. owed' = [owed EXCEPT ![i] = @ - 1] /\ strays' = strays
    BY <1>4 DEF RunCallback
  <2>2. StraysComeLast' /\ AtMostOneStray' /\ OwedToKnown'
    BY <1>1, <1>4, <2>1 DEF StraysComeLast, AtMostOneStray, OwedToKnown, TablesAgree, tableVars, TypeOK
  <2>3. NoLoss'
    <3> SUFFICES ASSUME NEW j \in byTopic, phase = "open", drops = 0, NEW m,
                        m = [cmd |-> "message", topic |-> TopicOf[j]]
                 PROVE  owed'[j] <= Copies(inbox, m) + (IF held = m THEN 1 ELSE 0)
                                   + (IF j \in batch' THEN 1 ELSE 0)
      BY <1>1 DEF NoLoss, tableVars, redisVars
    <3>1. Copies(inbox,
        m) \in Nat /\ owed[j] \in Int /\ owed'[j] = IF j = i THEN owed[j] - 1 ELSE owed[j]
      BY CopiesCounted, <2>1 DEF TypeOK
    <3>2. owed[j] <= Copies(inbox, m) + (IF held = m THEN 1 ELSE 0) + (IF j \in batch THEN 1 ELSE 0)
      BY DEF NoLoss
    <3> QED BY <1>1, <3>1, <3>2
  <2> QED BY <1>2, <1>3, <2>2, <2>3
<1>5. CASE i \notin byTopic
  <2>1. strays' = [strays EXCEPT ![i] = @ + 1] /\ owed' = owed
    BY <1>5 DEF RunCallback
  <2>2. strays[i] = 0 /\ i \in used
    BY <1>1 DEF StraysComeLast, TablesAgree
  <2>3. StraysComeLast' /\ AtMostOneStray' /\ OwedToKnown'
    BY <1>1, <1>5, <2>1, <2>2 DEF StraysComeLast, AtMostOneStray, OwedToKnown, tableVars, TypeOK
  <2>4. NoLoss'
    BY <1>1, <1>5, <2>1 DEF NoLoss, tableVars, redisVars
  <2> QED BY <1>2, <1>3, <2>3, <2>4
<1> QED BY <1>4, <1>5

\* The end of the loop, and shutdown(), which takes callbacks away and no more.
LEMMA StopStep ==
  ASSUME ClientInv, TypeOK', ListenerExits \/ Shutdown
  PROVE  ClientInv'
<1> USE DEF ClientInv
<1>1. CASE ListenerExits \/ ShutdownStop \/ ShutdownJoin
  <2>1. /\ UNCHANGED <<tableVars, fired, held, batch, redisVars, countVars>>
        /\ phase' = "open" => phase = "open"
        /\ (listener' = listener) \/ (listener = "polling" /\ listener' = "off")
    <3>1. CASE ListenerExits
      BY <3>1 DEF ListenerExits
    <3>2. CASE ShutdownStop \/ ShutdownJoin
      BY <3>2 DEF ShutdownStop, ShutdownJoin, threadVars
    <3> QED BY <1>1, <3>1, <3>2
  <2> QED BY <2>1 DEF tableVars, redisVars, countVars, TablesAgree,
             ListenerState, ChannelsListed, RegisteredIsServed, WillServe, StraysComeLast,
             AtMostOneStray, OwedToKnown, DownIsDropped, Untouched, FirstEvent, NoLoss, On
<1>2. CASE ShutdownClear
  <2>1. /\ byTopic' = {} /\ byId' = {} /\ event' = [t \in Topics |-> NoEvent] /\ phase' = "cleared"
        /\ UNCHANGED <<used, fired, threadVars, redisVars, countVars>>
    BY <1>2 DEF ShutdownClear
  <2> QED BY <2>1 DEF threadVars, redisVars, countVars, TablesAgree,
             ListenerState, ChannelsListed, RegisteredIsServed, StraysComeLast,
             AtMostOneStray, OwedToKnown, DownIsDropped, Untouched, FirstEvent, NoLoss, On
<1>3. CASE ShutdownClose
  <2>1. /\ phase' = "closed" /\ channels' = {} /\ wire' = <<>> /\ server' = {} /\ inbox' = <<>>
        /\ UNCHANGED <<conn, tableVars, fired, threadVars, countVars>>
    BY <1>3 DEF ShutdownClose
  <2>2. IsFiniteSet(channels')
    BY <2>1, FS_EmptySet
  <2> QED BY <2>1, <2>2 DEF threadVars, tableVars, countVars, TablesAgree,
             ListenerState, ChannelsListed, RegisteredIsServed, StraysComeLast,
             AtMostOneStray, OwedToKnown, DownIsDropped, Untouched, FirstEvent, NoLoss, On
<1> QED BY <1>1, <1>2, <1>3 DEF Shutdown

-----------------------------------------------------------------------------
(* Redis and the connection. *)

\* A command carried out moves its effect to the server and its reply to the inbox.
LEMMA ServerStepStep ==
  ASSUME ClientInv, TypeOK', ServerStep
  PROVE  ClientInv'
<1> DEFINE c == Head(wire)
<1> USE DEF ClientInv
<1>1. /\ wire \in Seq(Commands) /\ wire # <<>> /\ c \in Commands /\ c = wire[1] /\ 1 \in DOMAIN wire
      /\ wire' = Tail(wire) /\ inbox \in Seq(Replies) /\ c \in Replies /\ inbox' = Append(inbox, c)
      /\ server' = IF c.cmd = "subscribe" THEN server \cup {c.topic} ELSE server \ {c.topic}
      /\ UNCHANGED <<tableVars, fired, threadVars, phase, channels, leaving, conn, countVars>>
  BY DEF ServerStep, TypeOK, Commands, Replies
<1>2. \A k \in DOMAIN wire' : k + 1 \in DOMAIN wire /\ wire'[k] = wire[k + 1]
  BY <1>1
<1>3. \A k \in DOMAIN inbox' : inbox'[k] = c \/ (k \in DOMAIN inbox /\ inbox'[k] = inbox[k])
  <2> HIDE DEF c
  <2> QED BY <1>1, AppendItems
<1>4. TablesAgree' /\ ListenerState' /\ ChannelsListed'
  BY <1>1 DEF TablesAgree, ListenerState, ChannelsListed, tableVars, threadVars
<1>5. RegisteredIsServed'
  <2>1. \A i \in byTopic : TopicOf[i] \in Topics
    BY TopicTyped DEF TypeOK
  <2> QED BY <1>1, <2>1, ServeNext DEF RegisteredIsServed, tableVars
<1>6. StraysComeLast' /\ AtMostOneStray' /\ DownIsDropped' /\ OwedToKnown'
  BY <1>1 DEF StraysComeLast, AtMostOneStray, DownIsDropped, OwedToKnown, tableVars, threadVars,
         countVars
<1>7. Untouched'
  <2> SUFFICES ASSUME NEW t \in Topics, On(used, t) = {}
               PROVE  /\ event[t] = NoEvent /\ t \notin server' \cup channels
                      /\ \A k \in DOMAIN wire' : wire'[k].topic # t
                      /\ \A k \in DOMAIN inbox' : inbox'[k].topic # t
                      /\ held # NoReply => held.topic # t
    BY <1>1 DEF Untouched, tableVars, threadVars, On
  <2>1. c.topic # t
    BY <1>1 DEF Untouched
  <2> HIDE DEF c
  <2> QED BY <1>1, <1>2, <1>3, <2>1 DEF Untouched
<1>8. FirstEvent'
  <2> SUFFICES ASSUME NEW t \in Topics \ reused, phase = "open", drops = 0, event[t] # NoEvent
               PROVE  /\ \A k \in DOMAIN wire' : wire'[k] # [cmd |-> "unsubscribe", topic |-> t]
                      /\ \/ \E k \in DOMAIN inbox' : inbox'[k] = [cmd |-> "subscribe", topic |-> t]
                         \/ held = [cmd |-> "subscribe", topic |-> t]
                         \/ event[t] \in fired
                         => t \in server'
    BY <1>1 DEF FirstEvent, tableVars, threadVars, countVars
  <2>1. c # [cmd |-> "unsubscribe", topic |-> t]
    BY <1>1 DEF FirstEvent
  <2>2. c.cmd = "subscribe" \/ c.topic # t
    BY <1>1, <2>1 DEF Commands
  <2>3. c = [cmd |-> "subscribe", topic |-> t] => t \in server'
    BY <1>1
  <2>4. t \in server => t \in server'
    BY <1>1, <2>2
  <2> HIDE DEF c
  <2> QED BY <1>2, <1>3, <2>3, <2>4 DEF FirstEvent
<1>9. NoLoss'
  <2> SUFFICES ASSUME NEW i \in byTopic, phase = "open", drops = 0, NEW m,
                      m = [cmd |-> "message", topic |-> TopicOf[i]]
               PROVE  owed[i] <= Copies(inbox', m) + (IF held = m THEN 1 ELSE 0)
                                + (IF i \in batch THEN 1 ELSE 0)
    BY <1>1 DEF NoLoss, tableVars, threadVars, countVars
  <2>1. c # m
    BY <1>1 DEF Commands
  <2>2. Copies(inbox', m) = Copies(inbox, m) + 0
    <3> HIDE DEF c
    <3> QED BY <1>1, <2>1, CopiesAppend
  <2>3. Copies(inbox, m) \in Nat
    BY <1>1, CopiesCounted
  <2> QED BY <2>2, <2>3 DEF NoLoss
<1> QED BY <1>4, <1>5, <1>6, <1>7, <1>8, <1>9

\* A message is owed to the callbacks registered when the server takes it.
LEMMA PublishStep ==
  ASSUME ClientInv, TypeOK', NEW t \in Topics, Publish(t)
  PROVE  ClientInv'
<1> DEFINE c == [cmd |-> "message", topic |-> t]
<1> USE DEF ClientInv
<1>1. /\ t \in server /\ inbox \in Seq(Replies) /\ c \in Replies /\ inbox' = Append(inbox, c)
      /\ owed' = [i \in Ids |-> IF i \in On(byTopic, t) THEN owed[i] + 1 ELSE owed[i]]
      /\ UNCHANGED <<tableVars, fired, threadVars, phase, channels, leaving, conn, wire, server,
                     drops, strays>>
  BY DEF Publish, TypeOK, Replies
<1>2. \A k \in DOMAIN inbox' : inbox'[k] = c \/ (k \in DOMAIN inbox /\ inbox'[k] = inbox[k])
  <2> HIDE DEF c
  <2> QED BY <1>1, AppendItems
<1>3. TablesAgree' /\ ListenerState' /\ ChannelsListed' /\ RegisteredIsServed'
  BY <1>1 DEF TablesAgree, ListenerState, ChannelsListed, RegisteredIsServed, WillServe,
         tableVars, threadVars
<1>4. StraysComeLast' /\ AtMostOneStray' /\ DownIsDropped'
  BY <1>1 DEF StraysComeLast, AtMostOneStray, DownIsDropped, tableVars, threadVars
<1>5. OwedToKnown'
  BY <1>1 DEF OwedToKnown, On, TablesAgree, tableVars
<1>6. Untouched'
  <2>1. On(used, t) # {}
    BY <1>1 DEF Untouched
  <2> QED BY <1>1, <1>2, <2>1 DEF Untouched, On, tableVars, threadVars
<1>7. FirstEvent'
  BY <1>1, <1>2 DEF FirstEvent, tableVars, threadVars
<1>8. NoLoss'
  <2> SUFFICES ASSUME NEW i \in byTopic, phase = "open", drops = 0, NEW m,
                      m = [cmd |-> "message", topic |-> TopicOf[i]]
               PROVE  owed'[i] <= Copies(inbox', m) + (IF held = m THEN 1 ELSE 0)
                                 + (IF i \in batch THEN 1 ELSE 0)
    BY <1>1 DEF NoLoss, tableVars, threadVars
  <2>1. Copies(inbox', m) = Copies(inbox, m) + (IF c = m THEN 1 ELSE 0)
    BY <1>1, CopiesAppend
  <2>2. Copies(inbox, m) \in Nat /\ i \in Ids /\ owed[i] \in Int
    BY <1>1, CopiesCounted DEF TypeOK
  <2>3. owed'[i] = IF c = m THEN owed[i] + 1 ELSE owed[i]
    BY <1>1, <2>2 DEF On
  <2>4. owed[i] <= Copies(inbox, m) + (IF held = m THEN 1 ELSE 0) + (IF i \in batch THEN 1 ELSE 0)
    BY DEF NoLoss
  <2> HIDE DEF c
  <2> QED BY <2>1, <2>2, <2>3, <2>4
<1> QED BY <1>3, <1>4, <1>5, <1>6, <1>7, <1>8

\* A lost connection ends every promise that depends on it; the channels stay listed.
LEMMA ConnectionStep ==
  ASSUME ClientInv, TypeOK', Drop \/ Reconnect
  PROVE  ClientInv'
<1> USE DEF ClientInv
<1>1. /\ drops' # 0
      /\ UNCHANGED <<tableVars, fired, threadVars, phase, channels, published, owed, strays>>
      /\ leaving' \subseteq leaving
  <2>1. CASE Drop
    BY <2>1 DEF Drop, TypeOK
  <2>2. CASE Reconnect
    BY <2>2 DEF Reconnect, DownIsDropped, countVars
  <2> QED BY <2>1, <2>2
<1>2. TablesAgree' /\ ListenerState' /\ ChannelsListed'
  BY <1>1 DEF TablesAgree, ListenerState, ChannelsListed, tableVars, threadVars
<1>3. RegisteredIsServed'
  <2>1. CASE Drop
    BY <2>1 DEF Drop, RegisteredIsServed
  <2>2. CASE Reconnect
    BY <1>1, <2>2, Resubscribes DEF RegisteredIsServed, ChannelsListed, tableVars
  <2> QED BY <2>1, <2>2
<1>4. StraysComeLast' /\ AtMostOneStray' /\ DownIsDropped' /\ OwedToKnown' /\ FirstEvent' /\ NoLoss'
  BY <1>1 DEF StraysComeLast, AtMostOneStray, DownIsDropped, OwedToKnown, FirstEvent, NoLoss,
     tableVars, threadVars
<1>5. Untouched'
  <2>1. CASE Drop
    BY <1>1, <2>1 DEF Drop, Untouched, On, tableVars, threadVars
  <2>2. CASE Reconnect
    <3>1. \A k \in DOMAIN wire' : wire'[k].topic \in channels
      <4>1. wire' \in Seq([cmd : {"subscribe"}, topic : channels])
        BY <2>2, Resubscribes
      <4>2. \A S : \A w \in Seq(S) : \A k \in DOMAIN w : w[k] \in S
        OBVIOUS
      <4>3. \A k \in DOMAIN wire' : wire'[k] \in [cmd : {"subscribe"}, topic : channels]
        BY <4>1, <4>2, Zenon
      <4> QED BY <4>3
    <3>2. UNCHANGED <<server, inbox>>
      BY <2>2 DEF Reconnect
    <3> QED BY <1>1, <3>1, <3>2 DEF Untouched, On, tableVars, threadVars
  <2> QED BY <2>1, <2>2
<1> QED BY <1>2, <1>3, <1>4, <1>5

-----------------------------------------------------------------------------
(* The invariant and what follows from it. *)

\* Commands are answered by replies of the same name.
LEMMA CommandTypes ==
  /\ \A t \in Topics : /\ [cmd |-> "subscribe", topic |-> t] \in Commands
                        /\ [cmd |-> "unsubscribe", topic |-> t] \in Commands
                        /\ [cmd |-> "message", topic |-> t] \in Replies
  /\ Commands \subseteq Replies
  /\ \A c \in Replies : c.topic \in Topics
BY DEF Commands, Replies

\* Calls keep the variables in their sets.
LEMMA CallTyped ==
  ASSUME TypeOK, Call
  PROVE  TypeOK'
<1>1. ASSUME NEW i \in Ids, Subscribe(i) PROVE TypeOK'
  <2> DEFINE t == TopicOf[i]
  <2>1. t \in Topics /\ [cmd |-> "subscribe", topic |-> t] \in Commands
    BY TopicTyped, CommandTypes
  <2>2. UNCHANGED redisVars \/ SendSubscribe(t)
    BY <1>1 DEF Subscribe
  <2>3. /\ channels' \subseteq Topics /\ leaving' \subseteq Topics /\ wire' \in Seq(Commands)
        /\ UNCHANGED <<conn, server, inbox>>
    <3>1. Append(wire, [cmd |-> "subscribe", topic |-> t]) \in Seq(Commands)
      BY <2>1, AppendTyped DEF TypeOK
    <3> HIDE DEF t
    <3> QED BY <2>1, <2>2, <3>1 DEF TypeOK, SendSubscribe, redisVars
  <2>4. used' \subseteq Ids /\ byTopic' \subseteq Ids /\ byId' \subseteq Ids /\ reused' \subseteq Topics
    BY <1>1, <2>1 DEF TypeOK, Subscribe
  <2>5. event' \in [Topics -> Ids \cup {NoEvent}]
    BY <1>1, <2>1 DEF TypeOK, Subscribe
  <2>6. /\ listener' \in {"off", "polling", "holding", "dispatching"} /\ stop' \in BOOLEAN
        /\ UNCHANGED <<held, batch, fired, waiting, phase, countVars>>
    BY <1>1 DEF TypeOK, Subscribe, EnsureThread, threadVars
  <2> QED BY <2>3, <2>4, <2>5, <2>6 DEF TypeOK, countVars
<1>2. ASSUME NEW i \in Ids, SubscribeRaises(i) PROVE TypeOK'
  BY <1>2, TopicTyped DEF TypeOK, SubscribeRaises, threadVars, redisVars, countVars
<1>3. ASSUME NEW t \in Topics, SendUnsubscribe(t) \/ UNCHANGED redisVars
      PROVE  /\ channels' \subseteq Topics /\ leaving' \subseteq Topics /\ wire' \in Seq(Commands)
             /\ UNCHANGED <<conn, server, inbox>>
  <2>1. [cmd |-> "unsubscribe", topic |-> t] \in Commands
    BY CommandTypes
  <2>2. Append(wire, [cmd |-> "unsubscribe", topic |-> t]) \in Seq(Commands)
    BY <2>1, AppendTyped DEF TypeOK
  <2> QED BY <1>3, <2>2 DEF TypeOK, SendUnsubscribe, redisVars
<1>4. ASSUME NEW i \in Ids, Unsubscribe(i) PROVE TypeOK'
  <2>1. TopicOf[i] \in Topics /\ (SendUnsubscribe(TopicOf[i]) \/ UNCHANGED redisVars)
    BY <1>4, TopicTyped DEF Unsubscribe
  <2>2. /\ byTopic' \subseteq Ids /\ byId' \subseteq Ids /\ event' \in [Topics -> Ids \cup {NoEvent}]
        /\ UNCHANGED <<used, reused, fired, waiting, threadVars, phase, countVars>>
    BY <1>4, <2>1 DEF TypeOK, Unsubscribe
  <2> QED BY <1>3, <2>1, <2>2 DEF TypeOK, threadVars, countVars
<1>5. ASSUME NEW t \in Topics, UnsubscribeTopic(t) PROVE TypeOK'
  <2>1. SendUnsubscribe(t)
    BY <1>5 DEF UnsubscribeTopic
  <2>2. /\ byTopic' \subseteq Ids /\ byId' \subseteq Ids /\ event' \in [Topics -> Ids \cup {NoEvent}]
        /\ UNCHANGED <<used, reused, fired, waiting, threadVars, phase, countVars>>
    BY <1>5 DEF TypeOK, UnsubscribeTopic
  <2> QED BY <1>3, <2>1, <2>2 DEF TypeOK, threadVars, countVars
<1>6. CASE (\E T \in SUBSET Topics \ {{}} : BeginWait(T)) \/ WaitReturns \/ WaitTimesOut
  <2>1. waiting' \subseteq Ids
    BY <1>6 DEF TypeOK, BeginWait, WaitReturns, WaitTimesOut
  <2>2. UNCHANGED <<tableVars, fired, threadVars, phase, redisVars, countVars>>
    BY <1>6 DEF BeginWait, WaitReturns, WaitTimesOut
  <2> QED BY <2>1, <2>2 DEF TypeOK, tableVars, threadVars, redisVars, countVars
<1> QED BY <1>1, <1>2, <1>4, <1>5, <1>6 DEF Call

\* So does the listener ...
LEMMA ListenTyped ==
  ASSUME TypeOK, Listen
  PROVE  TypeOK'
<1>1. CASE ReadReply
  <2>1. held' \in Replies /\ inbox' \in Seq(Replies)
    BY <1>1 DEF TypeOK, ReadReply
  <2>2. /\ channels' \subseteq Topics /\ leaving' \subseteq Topics /\ listener' = "holding"
        /\ UNCHANGED <<tableVars, fired, waiting, batch, stop, phase, conn, wire, server, countVars>>
    BY <1>1 DEF TypeOK, ReadReply
  <2> QED BY <2>1, <2>2 DEF TypeOK, tableVars, countVars
<1>2. CASE HandleReply
  <2>1. held \in Replies => held.topic \in Topics
    BY CommandTypes
  <2>2. /\ held' = NoReply /\ listener' \in {"polling", "dispatching"} /\ batch' \subseteq Ids
        /\ UNCHANGED <<tableVars, waiting, stop, phase, redisVars, countVars>>
    BY <1>2 DEF TypeOK, HandleReply, On
  <2>3. fired' \subseteq Ids
    BY <1>2, <2>1 DEF TypeOK, HandleReply, NoReply
  <2> QED BY <2>2, <2>3 DEF TypeOK, tableVars, redisVars, countVars
<1>3. ASSUME NEW i \in Ids, RunCallback(i) PROVE TypeOK'
  <2>1. /\ batch' \subseteq Ids /\ listener' \in {"polling", "dispatching"}
        /\ UNCHANGED <<tableVars, fired, waiting, held, stop, phase, redisVars, published, drops>>
    BY <1>3 DEF TypeOK, RunCallback
  <2>2. owed' \in [Ids -> Int] /\ strays' \in [Ids -> Nat]
    <3>1. CASE i \in byTopic
      BY <1>3, <3>1 DEF TypeOK, RunCallback
    <3>2. CASE i \notin byTopic
      BY <1>3, <3>2 DEF TypeOK, RunCallback
    <3> QED BY <3>1, <3>2
  <2> QED BY <2>1, <2>2 DEF TypeOK, tableVars, redisVars
<1>4. CASE ListenerExits
  BY <1>4 DEF TypeOK, ListenerExits, tableVars, redisVars, countVars
<1> QED BY <1>1, <1>2, <1>3, <1>4 DEF Listen

\* ... and shutdown() ...
LEMMA ShutdownTyped ==
  ASSUME TypeOK, Shutdown
  PROVE  TypeOK'
<1>1. CASE ShutdownStop \/ ShutdownJoin
  BY <1>1 DEF TypeOK, ShutdownStop, ShutdownJoin, tableVars, threadVars, redisVars, countVars, Phases
<1>2. CASE ShutdownClear
  BY <1>2 DEF TypeOK, ShutdownClear, threadVars, redisVars, countVars, Phases
<1>3. CASE ShutdownClose
  <2>1. /\ channels' = {} /\ leaving' = {} /\ server' = {} /\ phase' = "closed"
        /\ wire' \in Seq(Commands) /\ inbox' \in Seq(Replies)
        /\ UNCHANGED <<conn, tableVars, fired, waiting, threadVars, countVars>>
    BY <1>3 DEF ShutdownClose
  <2> QED BY <2>1 DEF TypeOK, tableVars, threadVars, countVars, Phases
<1> QED BY <1>1, <1>2, <1>3 DEF Shutdown

\* ... and Redis.
LEMMA RedisTyped ==
  ASSUME TypeOK, ChannelsListed, Redis
  PROVE  TypeOK'
<1>1. CASE ServerStep
  <2>1. /\ Head(wire) \in Commands /\ wire' \in Seq(Commands) /\ wire' = Tail(wire)
        /\ UNCHANGED <<tableVars, fired, waiting, threadVars, phase, channels, leaving, conn,
                       countVars>>
    BY <1>1 DEF TypeOK, ServerStep
  <2>2. inbox' \in Seq(Replies) /\ server' \subseteq Topics
    BY <1>1, <2>1, CommandTypes DEF TypeOK, ServerStep
  <2> QED BY <2>1, <2>2 DEF TypeOK, tableVars, threadVars, countVars
<1>2. ASSUME NEW t \in Topics, Publish(t) PROVE TypeOK'
  <2>1. inbox' \in Seq(Replies)
    <3>1. inbox' = Append(inbox, [cmd |-> "message", topic |-> t]) /\ [cmd |-> "message",
        topic |-> t] \in Replies
      BY <1>2, CommandTypes DEF Publish
    <3> QED BY <3>1, AppendTyped DEF TypeOK
  <2>2. owed' \in [Ids -> Int] /\ published' \in Nat
    BY <1>2 DEF TypeOK, Publish
  <2>3. UNCHANGED <<tableVars, fired, waiting, threadVars, phase, channels, leaving, conn, wire,
                    server, drops, strays>>
    BY <1>2 DEF Publish
  <2> QED BY <2>1, <2>2, <2>3 DEF TypeOK, tableVars, threadVars
<1>3. CASE Drop
  <2>1. wire' \in Seq(Commands) /\ inbox' \in Seq(Replies)
    BY <1>3 DEF Drop
  <2> QED BY <1>3, <2>1 DEF TypeOK, Drop, tableVars, threadVars
<1>4. CASE Reconnect
  <2>1. wire' \in Seq(Commands)
    <3>1. wire' \in Seq([cmd : {"subscribe"}, topic : channels])
      BY <1>4, Resubscribes
    <3>2. [cmd : {"subscribe"}, topic : channels] \subseteq Commands
      BY DEF TypeOK, Commands
    <3>3. \A S, T : S \subseteq T => Seq(S) \subseteq Seq(T)
      OBVIOUS
    <3> QED BY <3>1, <3>2, <3>3, Zenon
  <2> QED BY <1>4, <2>1 DEF TypeOK, Reconnect, tableVars, threadVars, countVars
<1> QED BY <1>1, <1>2, <1>3, <1>4 DEF Redis

\* The client's invariant: see ClientInv.
THEOREM ClientInvariant == Spec => []ClientInv
<1>1. Init => ClientInv
  <2> SUFFICES ASSUME Init PROVE ClientInv
    OBVIOUS
  <2>1. TypeOK
    <3>1. wire \in Seq(Commands) /\ inbox \in Seq(Replies)
      BY DEF Init
    <3>2. owed \in [Ids -> Int] /\ strays \in [Ids -> Nat] /\ event \in [Topics -> Ids \cup {NoEvent}]
      BY DEF Init
    <3> QED BY <3>1, <3>2 DEF Init, TypeOK, Phases
  <2>2. IsFiniteSet(channels)
    BY FS_EmptySet DEF Init
  <2> QED BY <2>1, <2>2 DEF Init, ClientInv, TablesAgree, ListenerState, ChannelsListed,
         RegisteredIsServed,
             StraysComeLast, AtMostOneStray, DownIsDropped, Untouched, FirstEvent, OwedToKnown, NoLoss
<1>2. ClientInv /\ [Next]_vars => ClientInv'
  <2> SUFFICES ASSUME ClientInv, [Next]_vars PROVE ClientInv'
    OBVIOUS
  <2>1. CASE Next
    <3>1. TypeOK'
      BY <2>1, CallTyped, ListenTyped, ShutdownTyped, RedisTyped DEF Next, ClientInv
    <3> QED BY <2>1, <3>1, CallStep, ReadReplyStep, HandleReplyStep, RunCallbackStep, StopStep,
           ServerStepStep,
               PublishStep, ConnectionStep DEF Next, Listen, Redis
  <2>2. CASE UNCHANGED vars
    <3>1. TypeOK'
      BY <2>2 DEF vars, tableVars, threadVars, redisVars, countVars, ClientInv, TypeOK
    <3>2. /\ TablesAgree' /\ ListenerState' /\ ChannelsListed' /\ RegisteredIsServed' /\ StraysComeLast'
          /\ AtMostOneStray' /\ DownIsDropped' /\ OwedToKnown'
      BY <2>2 DEF vars, tableVars, threadVars, redisVars, countVars, ClientInv, TablesAgree,
             ListenerState,
         ChannelsListed, RegisteredIsServed, WillServe, StraysComeLast, AtMostOneStray,
                DownIsDropped, OwedToKnown
    <3>3. Untouched' /\ FirstEvent' /\ NoLoss'
      BY <2>2 DEF vars, tableVars, threadVars, redisVars, countVars, ClientInv, Untouched,
             FirstEvent, NoLoss, On
    <3> QED BY <3>1, <3>2, <3>3 DEF ClientInv
  <2> QED BY <2>1, <2>2
<1> QED BY <1>1, <1>2, PTL DEF Spec

\* Every registered callback's channel is or will be subscribed, through lost
\* connections and repeated subscriptions: see RegisteredIsServed.
THEOREM CallbacksAreServed == Spec => []RegisteredIsServed
<1>1. ClientInv => RegisteredIsServed
  BY DEF ClientInv
<1> QED BY <1>1, ClientInvariant, PTL

\* A readiness Event that is set means that the server has the channel: see AckSound.
THEOREM EventsAreSound == Spec => []AckSound
<1>1. ClientInv => AckSound
  <2> SUFFICES ASSUME ClientInv, NEW t \in Topics \ reused, phase = "open", drops = 0,
                      event[t] \in fired
               PROVE  t \in server
    BY DEF AckSound
  <2>1. event[t] # NoEvent
    BY TopicTyped DEF ClientInv, TypeOK
  <2> QED BY <2>1 DEF ClientInv, FirstEvent
<1> QED BY <1>1, ClientInvariant, PTL

\* A message reaches the callbacks registered when the server took it: see NoLoss.
THEOREM MessagesReachCallbacks == Spec => []NoLoss
<1>1. ClientInv => NoLoss
  BY DEF ClientInv
<1> QED BY <1>1, ClientInvariant, PTL

\* A callback is called at most once after its removal: see AtMostOneStray.
THEOREM StraysAreBounded == Spec => []AtMostOneStray
<1>1. ClientInv => AtMostOneStray
  BY DEF ClientInv
<1> QED BY <1>1, ClientInvariant, PTL
=============================================================================
