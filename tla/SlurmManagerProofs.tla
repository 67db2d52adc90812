------------------------- MODULE SlurmManagerProofs -------------------------
(***************************************************************************)
(* Proofs about JobTracker, for every set of jobs, listeners and payloads, *)
(* and about SlurmManager, which extends it; at the end, about SlurmRest,  *)
(* the answers on which the manager's monitor acts.                        *)
(***************************************************************************)
EXTENDS SlurmManager, SlurmRest, TLAPS

-----------------------------------------------------------------------------
(* JobTracker: its operators. *)

\* Where a registration belongs: TopicInfo.topic is injective in job and event.
LEMMA TopicFacts ==
  /\ \A i \in SubIds : TopicOf(i) \in Topics /\ JobOf(i) \in Jobs
  /\ \A i \in SubIds, j \in Jobs : TopicOf(i) \in JobTopics(j) <=> JobOf(i) = j
  /\ \A t \in Topics : TopicOf(t) = t /\ JobOf(t) = t[1] /\ t \notin UserIds /\ t \in SubIds
  /\ \A j \in Jobs, e \in Events : <<j, e>> \in Topics /\ <<j, e>> \in JobTopics(j)
BY TrackerAssumption DEF TopicOf, JobOf, JobTopics, SubIds, Topics

\* Dropping topics keeps the three indexes well typed.
LEMMA DropTyped ==
  ASSUME NEW T, DropTopics(T), TypeOK
  PROVE  byTopic' \subseteq SubIds /\ byId' \subseteq SubIds /\ redis' \subseteq SubIds
BY DEF DropTopics, TypeOK, On

\* Every status apply_status works with is a JobStatus, and applying it keeps
\* the tracker's state well typed whether or not it raises.
LEMMA ApplyTyped ==
  ASSUME NEW j \in Jobs, NEW s \in Statuses, ApplyStatus(j, s), TypeOK
  PROVE  /\ status' \in [Jobs -> Statuses]
         /\ notices' \in [Listeners \X Jobs -> Nat]
         /\ registry' \subseteq Jobs /\ active' \subseteq Topics
         /\ byTopic' \subseteq SubIds /\ byId' \subseteq SubIds /\ redis' \subseteq SubIds
         /\ late' \subseteq Jobs /\ leaked' \subseteq Jobs
<1>1. CASE Done(j)
  BY <1>1 DEF ApplyStatus, ApplyReturns, ApplyRaises, lifeVars, TypeOK
<1>2. CASE ~Done(j)
  <2>1. status' \in [Jobs -> Statuses]
    BY <1>2 DEF ApplyStatus, ApplyReturns, ApplyRaises, TypeOK
  <2>2. notices' \in [Listeners \X Jobs -> Nat]
    BY <1>2 DEF ApplyStatus, ApplyReturns, ApplyRaises, TypeOK, Notify
  <2>3. byTopic' \subseteq SubIds /\ byId' \subseteq SubIds /\ redis' \subseteq SubIds
    BY <1>2, DropTyped DEF ApplyStatus, ApplyReturns, ApplyRaises, TypeOK, Cleanup, CleanupRaises
  <2>4. registry' \subseteq Jobs /\ active' \subseteq Topics
        /\ late' \subseteq Jobs /\ leaked' \subseteq Jobs
    BY <1>2 DEF ApplyStatus, ApplyReturns, ApplyRaises, TypeOK, Cleanup, CleanupRaises
  <2> QED BY <2>1, <2>2, <2>3, <2>4
<1> QED BY <1>1, <1>2

\* Every step keeps the variables in their types.
LEMMA TypeStep ==
  ASSUME TypeOK, [Next]_vars
  PROVE  TypeOK'
<1>1. ASSUME NEW j \in Jobs, JobStep(j)
      PROVE  TypeOK'
  <2>1. \A e \in Events : After[e] \in Stages /\ <<j, e>> \in Topics /\ <<j, e>> \in SubIds
    BY DEF After, Stages, Events, Topics, SubIds
  <2>2. CASE Track(j)
    BY <2>2 DEF Track, TypeOK, Stages, Events
  <2>3. CASE SubscribeInternal(j)
    BY <2>1, <2>3 DEF SubscribeInternal, TypeOK
  <2>4. CASE RegisterInternal(j)
    BY <2>1, <2>4 DEF RegisterInternal, TypeOK
  <2>5. CASE TrackFails(j)
    BY <2>5 DEF TrackFails, TypeOK, lifeVars, Stages
  <2>6. CASE \E s \in Terminal : CallApplyStatus(j, s)
    BY <2>6, ApplyTyped DEF CallApplyStatus, TypeOK, restVars, Terminal, Statuses
  <2>7. CASE \E skip \in BOOLEAN : RemoveJob(j, skip)
    <3>1. PICK skip \in BOOLEAN : RemoveJob(j, skip)
      BY <2>7
    <3>2. CASE Tracked(j) /\ ~skip
      BY <3>1, <3>2, ApplyTyped DEF RemoveJob, TypeOK, Statuses
    <3>3. CASE ~(Tracked(j) /\ ~skip)
      <4>1. byTopic' \subseteq SubIds /\ byId' \subseteq SubIds /\ redis' \subseteq SubIds
        BY <3>1, <3>3, DropTyped DEF RemoveJob, Cleanup, CleanupRaises
      <4>2. registry' \subseteq Jobs /\ active' \subseteq Topics
            /\ late' \subseteq Jobs /\ leaked' \subseteq Jobs
        BY <3>1, <3>3 DEF RemoveJob, Cleanup, CleanupRaises, TypeOK
      <4>3. withdrawn' \subseteq SubIds
        BY <3>1, <3>3 DEF RemoveJob, TypeOK, On
      <4> QED BY <3>1, <3>3, <4>1, <4>2, <4>3 DEF RemoveJob, TypeOK
    <3> QED BY <3>2, <3>3
  <2>8. CASE \E p \in Payloads : Receive(j, p)
    BY <2>8 DEF Receive, TypeOK, lifeVars
  <2>9. CASE \E p \in Payloads : RunStatusCallback(j, p)
    <3>1. PICK p \in Payloads : RunStatusCallback(j, p)
      BY <2>9
    <3>2. Parse(p) \in Statuses
      BY DEF Parse, Statuses
    <3> QED BY <3>1, <3>2, ApplyTyped DEF RunStatusCallback, TypeOK
  <2> QED BY <1>1, <2>2, <2>3, <2>4, <2>5, <2>6, <2>7, <2>8, <2>9 DEF JobStep
<1>2. ASSUME NEW i \in UserIds, UserStep(i)
      PROVE  TypeOK'
  <2>1. i \in SubIds /\ TopicOf(i) \in Topics
    BY TopicFacts DEF SubIds
  <2>2. CASE BeginListen(i)
    BY <2>2 DEF BeginListen, TypeOK, lifeVars, Calls
  <2>3. CASE SubscribeUser(i)
    BY <2>1, <2>3 DEF SubscribeUser, TypeOK, Calls
  <2>4. CASE SubscribeUserFails(i)
    BY <2>4 DEF SubscribeUserFails, TypeOK, lifeVars, Calls
  <2>5. CASE FinishListen(i)
    BY <2>1, <2>5 DEF FinishListen, TypeOK, Calls
  <2>6. CASE RemoveById(i)
    BY <2>1, <2>6 DEF RemoveById, TypeOK
  <2> QED BY <1>2, <2>2, <2>3, <2>4, <2>5, <2>6 DEF UserStep
<1>3. ASSUME NEW g \in GlobalIds, ListenGlobal(g) \/ UnlistenGlobal(g)
      PROVE  TypeOK'
  BY <1>3 DEF ListenGlobal, UnlistenGlobal, TypeOK, lifeVars
<1>4. ASSUME NEW t \in Topics, RemoveByTopic(t)
      PROVE  TypeOK'
  <2>1. byTopic' \subseteq SubIds /\ byId' \subseteq SubIds /\ redis' \subseteq SubIds
    BY <1>4, DropTyped DEF RemoveByTopic
  <2>2. withdrawn' \subseteq SubIds
    BY <1>4 DEF RemoveByTopic, TypeOK, On
  <2> QED BY <1>4, <2>1, <2>2 DEF RemoveByTopic, TypeOK
<1>5. CASE ShutdownClear \/ ShutdownRedis \/ ShutdownExecutor
  BY <1>5 DEF ShutdownClear, ShutdownRedis, ShutdownExecutor, TypeOK, lifeVars, Phases
<1>6. CASE UNCHANGED vars
  BY <1>6 DEF vars, lifeVars, restVars, TypeOK
<1> QED BY <1>1, <1>2, <1>3, <1>4, <1>5, <1>6 DEF Next

\* The state of the tracker stays well typed; in particular no status text
\* outside JobStatus is ever stored in a future.
THEOREM TypeCorrect == Spec => []TypeOK
<1>1. Init => TypeOK
  BY DEF Init, TypeOK, Statuses, Stages, Calls, Phases
<1>2. TypeOK /\ [Next]_vars => TypeOK'
  BY TypeStep
<1> QED BY <1>1, <1>2, PTL DEF Spec

(* JobTracker: the inductive invariant. *)

\* A future enters the registry with nothing known of its job yet.
LEMMA TrackStep ==
  ASSUME NEW j \in Jobs, TrackerInv, TypeOK', Track(j)
  PROVE  TrackerInv'
<1>1. IndexesAgree' /\ CleanupReaches' /\ RegisteredIsLive' /\ ToldOnce' /\ CompletionTold'
  BY DEF TrackerInv, Track, IndexesAgree, CleanupReaches, RegisteredIsLive, ToldOnce,
     CompletionTold, Done
<1>2. DoneIsUntracked'
  BY TopicFacts DEF TrackerInv, TypeOK, Track, DoneIsUntracked, UntrackedIsFresh, Done, Events,
     Terminal
<1>3. UntrackedIsFresh'
  BY TopicFacts DEF TrackerInv, TypeOK, Track, UntrackedIsFresh, Events
<1>4. CurrentIsOpen'
  BY TopicFacts DEF TrackerInv, TypeOK, Track, CurrentIsOpen, IndexedInOrder, Passed, Events
<1>5. IndexedInOrder'
  <2> SUFFICES ASSUME NEW k \in Jobs, NEW e \in Events, stage'[k] \in Events, <<k, e>> \in active
               PROVE  Passed(k, e)'
    BY DEF IndexedInOrder, Track
  <2>1. CASE k = j
    BY <2>1 DEF TrackerInv, UntrackedIsFresh, Track
  <2>2. CASE k # j
    BY <2>2 DEF TrackerInv, TypeOK, IndexedInOrder, Track, Passed
  <2> QED BY <2>1, <2>2
<1>6. LateIsRecorded'
  BY TopicFacts DEF TrackerInv, TypeOK, Track, LateIsRecorded, Events
<1>7. ListenInOrder'
  BY TopicFacts DEF TrackerInv, TypeOK, Track, ListenInOrder, Done, Events
<1>8. RedisCovered'
  BY TopicFacts DEF TrackerInv, TypeOK, Track, RedisCovered, ListenInOrder, CurrentIsOpen,
     Events
<1>9. UntrackedOwnsNothing'
  BY TopicFacts DEF TrackerInv, TypeOK, Track, UntrackedOwnsNothing, LateIsRecorded,
     ListenInOrder, Events
<1>10. PassedIsMonitored'
  BY TopicFacts DEF TrackerInv, TypeOK, Track, PassedIsMonitored, Passed, Done, IndexedInOrder,
     Events
<1> QED BY <1>1, <1>2, <1>3, <1>4, <1>5, <1>6, <1>7, <1>8, <1>9, <1>10 DEF TrackerInv

\* The current topic of track() enters the client.
LEMMA SubscribeInternalStep ==
  ASSUME NEW j \in Jobs, TrackerInv, TypeOK', SubscribeInternal(j)
  PROVE  TrackerInv'
<1>1. IndexesAgree' /\ CleanupReaches' /\ DoneIsUntracked' /\ ToldOnce' /\ CompletionTold'
      /\ IndexedInOrder' /\ LateIsRecorded' /\ UntrackedOwnsNothing' /\ PassedIsMonitored'
  BY DEF TrackerInv, SubscribeInternal, IndexesAgree, CleanupReaches, DoneIsUntracked,
     ToldOnce, CompletionTold, IndexedInOrder, LateIsRecorded, UntrackedOwnsNothing,
     PassedIsMonitored, Done, Passed
<1>2. RegisteredIsLive'
  BY TopicFacts DEF TrackerInv, TypeOK, SubscribeInternal, RegisteredIsLive, CurrentIsOpen,
     ListenInOrder
<1>3. UntrackedIsFresh'
  BY TopicFacts DEF TrackerInv, TypeOK, SubscribeInternal, UntrackedIsFresh, Events
<1>4. CurrentIsOpen'
  BY TopicFacts DEF TrackerInv, TypeOK, SubscribeInternal, CurrentIsOpen, IndexedInOrder, Passed
<1>5. ListenInOrder'
  BY TopicFacts DEF TrackerInv, TypeOK, SubscribeInternal, ListenInOrder, Done
<1>6. RedisCovered'
  BY TopicFacts DEF TrackerInv, TypeOK, SubscribeInternal, RedisCovered, ListenInOrder,
     CurrentIsOpen
<1> QED BY <1>1, <1>2, <1>3, <1>4, <1>5, <1>6 DEF TrackerInv

\* track() indexes its current topic and moves on.
LEMMA RegisterInternalStep ==
  ASSUME NEW j \in Jobs, TrackerInv, TypeOK', RegisterInternal(j)
  PROVE  TrackerInv'
<1>1. DoneIsUntracked' /\ ToldOnce' /\ CompletionTold'
  BY DEF TrackerInv, RegisterInternal, DoneIsUntracked, ToldOnce, CompletionTold, Done
<1>2. IndexesAgree'
  BY TopicFacts DEF TrackerInv, TypeOK, RegisterInternal, IndexesAgree, Events
<1>3. CleanupReaches'
  BY TopicFacts DEF TrackerInv, TypeOK, RegisterInternal, CleanupReaches, JobOf, Events
<1>4. RegisteredIsLive'
  BY TopicFacts DEF TrackerInv, TypeOK, RegisterInternal, RegisteredIsLive, CurrentIsOpen,
     ListenInOrder, Events
<1>5. UntrackedIsFresh'
  BY TopicFacts DEF TrackerInv, TypeOK, RegisterInternal, UntrackedIsFresh, Events, After
<1>6. CurrentIsOpen'
  BY TopicFacts DEF TrackerInv, TypeOK, RegisterInternal, CurrentIsOpen, IndexedInOrder,
     Passed, Events, After
<1>7. IndexedInOrder'
  <2> SUFFICES ASSUME NEW k \in Jobs, NEW e \in Events, stage'[k] \in Events, <<k, e>> \in active'
               PROVE  Passed(k, e)'
    BY DEF IndexedInOrder
  <2>1. CASE k = j
    <3>1. Passed(j, e) \/ e = stage[j]
      BY <2>1 DEF TrackerInv, IndexedInOrder, RegisterInternal
    <3> QED BY <2>1, <3>1 DEF TrackerInv, TypeOK, RegisterInternal, Passed, After, Events
  <2>2. CASE k # j
    BY <2>2 DEF TrackerInv, TypeOK, IndexedInOrder, RegisterInternal, Passed
  <2> QED BY <2>1, <2>2
<1>8. LateIsRecorded'
  BY TopicFacts DEF TrackerInv, TypeOK, RegisterInternal, LateIsRecorded, Events, After
<1>9. ListenInOrder'
  BY TopicFacts DEF TrackerInv, TypeOK, RegisterInternal, ListenInOrder, Done, Events, After
<1>10. RedisCovered'
  BY TopicFacts DEF TrackerInv, TypeOK, RegisterInternal, RedisCovered, ListenInOrder,
     CurrentIsOpen, Events, After
<1>11. UntrackedOwnsNothing'
  BY TopicFacts DEF TrackerInv, TypeOK, RegisterInternal, UntrackedOwnsNothing, LateIsRecorded,
     ListenInOrder, Events, After
<1>12. PassedIsMonitored'
  <2> SUFFICES ASSUME NEW k \in registry', NEW e \in Events, phase' = "open", ~Done(k)',
                      Passed(k, e)', <<k, e>> \notin withdrawn'
               PROVE  <<k, e>> \in active' \cap byTopic'
    BY DEF PassedIsMonitored
  <2>1. k \in registry /\ k \in Jobs /\ phase = "open" /\ ~Done(k) /\ <<k, e>> \notin withdrawn
    BY DEF RegisterInternal, TrackerInv, TypeOK, Done
  <2>2. Passed(k, e) \/ (k = j /\ e = stage[j])
    BY <2>1 DEF TrackerInv, TypeOK, RegisterInternal, Passed, After, Events
  <2> QED BY <2>1, <2>2 DEF TrackerInv, PassedIsMonitored, RegisterInternal
<1> QED BY <1>1, <1>2, <1>3, <1>4, <1>5, <1>6, <1>7, <1>8, <1>9, <1>10, <1>11, <1>12 DEF TrackerInv

\* track() gives up.
LEMMA TrackFailsStep ==
  ASSUME NEW j \in Jobs, TrackerInv, TypeOK', TrackFails(j)
  PROVE  TrackerInv'
<1>1. IndexesAgree' /\ CleanupReaches' /\ DoneIsUntracked' /\ RegisteredIsLive' /\ ToldOnce'
      /\ CompletionTold'
  BY DEF TrackerInv, TrackFails, lifeVars, IndexesAgree, CleanupReaches, DoneIsUntracked,
     RegisteredIsLive, ToldOnce, CompletionTold, Done
<1>2. UntrackedIsFresh'
  BY TopicFacts DEF TrackerInv, TypeOK, TrackFails, UntrackedIsFresh, lifeVars, Events
<1>3. CurrentIsOpen'
  BY TopicFacts DEF TrackerInv, TypeOK, TrackFails, CurrentIsOpen, lifeVars, IndexedInOrder,
     Passed, Events
<1>4. IndexedInOrder'
  BY TopicFacts DEF TrackerInv, TypeOK, TrackFails, IndexedInOrder, lifeVars, ListenInOrder,
     Passed, Events
<1>5. LateIsRecorded'
  BY TopicFacts DEF TrackerInv, TypeOK, TrackFails, LateIsRecorded, lifeVars, Events
<1>6. ListenInOrder'
  BY TopicFacts DEF TrackerInv, TypeOK, TrackFails, ListenInOrder, lifeVars, Done, Events
<1>7. RedisCovered'
  BY TopicFacts DEF TrackerInv, TypeOK, TrackFails, RedisCovered, lifeVars, ListenInOrder,
     CurrentIsOpen, Events
<1>8. UntrackedOwnsNothing'
  BY TopicFacts DEF TrackerInv, TypeOK, TrackFails, UntrackedOwnsNothing, lifeVars,
     LateIsRecorded, ListenInOrder, Events
<1>9. PassedIsMonitored'
  BY TopicFacts DEF TrackerInv, TypeOK, TrackFails, PassedIsMonitored, lifeVars, Passed, Done,
     IndexedInOrder, Events
<1> QED BY <1>1, <1>2, <1>3, <1>4, <1>5, <1>6, <1>7, <1>8, <1>9 DEF TrackerInv

\* The listener copies the callbacks of a status message.
LEMMA ReceiveStep ==
  ASSUME NEW j \in Jobs, NEW p \in Payloads, TrackerInv, TypeOK', Receive(j, p)
  PROVE  TrackerInv'
<1>1. IndexesAgree' /\ CleanupReaches' /\ DoneIsUntracked' /\ RegisteredIsLive' /\ ToldOnce'
      /\ CompletionTold' /\ CurrentIsOpen' /\ IndexedInOrder' /\ LateIsRecorded' /\ ListenInOrder'
      /\ RedisCovered' /\ UntrackedOwnsNothing' /\ PassedIsMonitored'
  BY DEF TrackerInv, Receive, lifeVars, IndexesAgree, CleanupReaches, DoneIsUntracked,
     RegisteredIsLive, ToldOnce, CompletionTold, CurrentIsOpen, IndexedInOrder, LateIsRecorded,
     ListenInOrder, RedisCovered, UntrackedOwnsNothing, PassedIsMonitored, Done, Passed
<1>2. UntrackedIsFresh'
  BY TopicFacts DEF TrackerInv, TypeOK, Receive, UntrackedIsFresh, lifeVars, Events
<1> QED BY <1>1, <1>2 DEF TrackerInv

\* A listen call passes or fails its first check.
LEMMA BeginListenStep ==
  ASSUME NEW i \in UserIds, TrackerInv, TypeOK', BeginListen(i)
  PROVE  TrackerInv'
<1>1. IndexesAgree' /\ CleanupReaches' /\ DoneIsUntracked' /\ RegisteredIsLive' /\ ToldOnce'
      /\ UntrackedIsFresh' /\ CurrentIsOpen' /\ IndexedInOrder' /\ LateIsRecorded'
      /\ UntrackedOwnsNothing' /\ PassedIsMonitored'
  BY DEF TrackerInv, BeginListen, lifeVars, IndexesAgree, CleanupReaches, DoneIsUntracked,
     RegisteredIsLive, ToldOnce, UntrackedIsFresh, CurrentIsOpen, IndexedInOrder,
     LateIsRecorded, UntrackedOwnsNothing, PassedIsMonitored, Done, Passed
<1>2. CompletionTold'
  BY TopicFacts DEF TrackerInv, TypeOK, BeginListen, CompletionTold, lifeVars, Tracked,
     ListenInOrder, ToldOnce, Done
<1>3. ListenInOrder'
  BY TopicFacts DEF TrackerInv, TypeOK, BeginListen, ListenInOrder, lifeVars, Tracked, Done
<1>4. RedisCovered'
  BY TopicFacts DEF TrackerInv, TypeOK, BeginListen, RedisCovered, lifeVars, Tracked,
     ListenInOrder, CurrentIsOpen
<1> QED BY <1>1, <1>2, <1>3, <1>4 DEF TrackerInv

\* A listen call has put its callback in the client.
LEMMA SubscribeUserStep ==
  ASSUME NEW i \in UserIds, TrackerInv, TypeOK', SubscribeUser(i)
  PROVE  TrackerInv'
<1>1. IndexesAgree' /\ CleanupReaches' /\ DoneIsUntracked' /\ ToldOnce' /\ IndexedInOrder'
      /\ LateIsRecorded' /\ UntrackedOwnsNothing' /\ PassedIsMonitored'
  BY DEF TrackerInv, SubscribeUser, IndexesAgree, CleanupReaches, DoneIsUntracked, ToldOnce,
     IndexedInOrder, LateIsRecorded, UntrackedOwnsNothing, PassedIsMonitored, Done, Passed
<1>2. RegisteredIsLive'
  BY TopicFacts DEF TrackerInv, TypeOK, SubscribeUser, RegisteredIsLive, CurrentIsOpen,
     ListenInOrder
<1>3. CompletionTold'
  BY TopicFacts DEF TrackerInv, TypeOK, SubscribeUser, CompletionTold, ListenInOrder, ToldOnce,
     Done
<1>4. UntrackedIsFresh'
  BY TopicFacts DEF TrackerInv, TypeOK, SubscribeUser, UntrackedIsFresh
<1>5. CurrentIsOpen'
  BY TopicFacts DEF TrackerInv, TypeOK, SubscribeUser, CurrentIsOpen, IndexedInOrder, Passed
<1>6. ListenInOrder'
  BY TopicFacts DEF TrackerInv, TypeOK, SubscribeUser, ListenInOrder, Done
<1>7. RedisCovered'
  BY TopicFacts DEF TrackerInv, TypeOK, SubscribeUser, RedisCovered, ListenInOrder,
     CurrentIsOpen
<1> QED BY <1>1, <1>2, <1>3, <1>4, <1>5, <1>6, <1>7 DEF TrackerInv

\* A listen call that Redis refuses leaves nothing.
LEMMA SubscribeUserFailsStep ==
  ASSUME NEW i \in UserIds, TrackerInv, TypeOK', SubscribeUserFails(i)
  PROVE  TrackerInv'
<1>1. IndexesAgree' /\ CleanupReaches' /\ DoneIsUntracked' /\ RegisteredIsLive' /\ ToldOnce'
      /\ UntrackedIsFresh' /\ CurrentIsOpen' /\ IndexedInOrder' /\ LateIsRecorded'
      /\ UntrackedOwnsNothing' /\ PassedIsMonitored'
  BY DEF TrackerInv, SubscribeUserFails, lifeVars, IndexesAgree, CleanupReaches,
     DoneIsUntracked, RegisteredIsLive, ToldOnce, UntrackedIsFresh, CurrentIsOpen,
     IndexedInOrder, LateIsRecorded, UntrackedOwnsNothing, PassedIsMonitored, Done, Passed
<1>2. CompletionTold'
  BY TopicFacts DEF TrackerInv, TypeOK, SubscribeUserFails, CompletionTold, lifeVars,
     ListenInOrder, ToldOnce, Done
<1>3. ListenInOrder'
  BY TopicFacts DEF TrackerInv, TypeOK, SubscribeUserFails, ListenInOrder, lifeVars, Done
<1>4. RedisCovered'
  BY TopicFacts DEF TrackerInv, TypeOK, SubscribeUserFails, RedisCovered, lifeVars,
     ListenInOrder, CurrentIsOpen
<1> QED BY <1>1, <1>2, <1>3, <1>4 DEF TrackerInv

\* A listen call validates the job and indexes or takes back.
LEMMA FinishListenStep ==
  ASSUME NEW i \in UserIds, TrackerInv, TypeOK', FinishListen(i)
  PROVE  TrackerInv'
<1>1. DoneIsUntracked' /\ ToldOnce' /\ LateIsRecorded'
  BY DEF TrackerInv, FinishListen, DoneIsUntracked, ToldOnce, LateIsRecorded, Done
<1>2. IndexesAgree'
  BY TopicFacts DEF TrackerInv, TypeOK, FinishListen, IndexesAgree, Tracked
<1>3. CleanupReaches'
  BY TopicFacts DEF TrackerInv, TypeOK, FinishListen, CleanupReaches, Tracked, JobOf
<1>4. RegisteredIsLive'
  BY TopicFacts DEF TrackerInv, TypeOK, FinishListen, RegisteredIsLive, Tracked, CurrentIsOpen,
     ListenInOrder
<1>5. CompletionTold'
  BY TopicFacts DEF TrackerInv, TypeOK, FinishListen, CompletionTold, Tracked, ListenInOrder,
     ToldOnce, Done
<1>6. UntrackedIsFresh'
  BY TopicFacts DEF TrackerInv, TypeOK, FinishListen, UntrackedIsFresh, Tracked, ListenInOrder,
     JobOf
<1>7. CurrentIsOpen'
  BY TopicFacts DEF TrackerInv, TypeOK, FinishListen, CurrentIsOpen, Tracked, IndexedInOrder,
     Passed
<1>8. IndexedInOrder'
  BY TopicFacts DEF TrackerInv, TypeOK, FinishListen, IndexedInOrder, Tracked, ListenInOrder,
     Passed
<1>9. ListenInOrder'
  BY TopicFacts DEF TrackerInv, TypeOK, FinishListen, ListenInOrder, Tracked, Done
<1>10. RedisCovered'
  BY TopicFacts DEF TrackerInv, TypeOK, FinishListen, RedisCovered, Tracked, ListenInOrder,
     CurrentIsOpen
<1>11. UntrackedOwnsNothing'
  BY TopicFacts DEF TrackerInv, TypeOK, FinishListen, UntrackedOwnsNothing, Tracked,
     LateIsRecorded, ListenInOrder
<1>12. PassedIsMonitored'
  BY TopicFacts DEF TrackerInv, TypeOK, FinishListen, PassedIsMonitored, Tracked, Passed, Done,
     IndexedInOrder
<1> QED BY <1>1, <1>2, <1>3, <1>4, <1>5, <1>6, <1>7, <1>8, <1>9, <1>10, <1>11, <1>12 DEF TrackerInv

\* Removing one identifier keeps the topic for the others.
LEMMA RemoveByIdStep ==
  ASSUME NEW i \in UserIds, TrackerInv, TypeOK', RemoveById(i)
  PROVE  TrackerInv'
<1>1. DoneIsUntracked' /\ ToldOnce' /\ LateIsRecorded'
  BY DEF TrackerInv, RemoveById, DoneIsUntracked, ToldOnce, LateIsRecorded, Done
<1>2. IndexesAgree'
  BY TopicFacts DEF TrackerInv, TypeOK, RemoveById, IndexesAgree, On
<1>3. CleanupReaches'
  BY TopicFacts DEF TrackerInv, TypeOK, RemoveById, CleanupReaches, On, JobOf
<1>4. RegisteredIsLive'
  BY TopicFacts DEF TrackerInv, TypeOK, RemoveById, RegisteredIsLive, On, CurrentIsOpen,
     ListenInOrder
<1>5. CompletionTold'
  BY TopicFacts DEF TrackerInv, TypeOK, RemoveById, CompletionTold, On, ListenInOrder,
     ToldOnce, Done
<1>6. UntrackedIsFresh'
  BY TopicFacts DEF TrackerInv, TypeOK, RemoveById, UntrackedIsFresh, On
<1>7. CurrentIsOpen'
  BY TopicFacts DEF TrackerInv, TypeOK, RemoveById, CurrentIsOpen, On, IndexedInOrder, Passed
<1>8. IndexedInOrder'
  BY TopicFacts DEF TrackerInv, TypeOK, RemoveById, IndexedInOrder, On, ListenInOrder, Passed
<1>9. ListenInOrder'
  BY TopicFacts DEF TrackerInv, TypeOK, RemoveById, ListenInOrder, On, Done
<1>10. RedisCovered'
  BY TopicFacts DEF TrackerInv, TypeOK, RemoveById, RedisCovered, On, ListenInOrder,
     CurrentIsOpen
<1>11. UntrackedOwnsNothing'
  BY TopicFacts DEF TrackerInv, TypeOK, RemoveById, UntrackedOwnsNothing, On, LateIsRecorded,
     ListenInOrder
<1>12. PassedIsMonitored'
  BY TopicFacts DEF TrackerInv, TypeOK, RemoveById, PassedIsMonitored, On, Passed, Done,
     IndexedInOrder
<1> QED BY <1>1, <1>2, <1>3, <1>4, <1>5, <1>6, <1>7, <1>8, <1>9, <1>10, <1>11, <1>12 DEF TrackerInv

\* Manager-wide callbacks are outside every index.
LEMMA ListenGlobalStep ==
  ASSUME NEW g \in GlobalIds, TrackerInv, TypeOK', ListenGlobal(g)
  PROVE  TrackerInv'
<1>1. IndexesAgree' /\ CleanupReaches' /\ DoneIsUntracked' /\ RegisteredIsLive' /\ ToldOnce'
      /\ CompletionTold' /\ UntrackedIsFresh' /\ CurrentIsOpen' /\ IndexedInOrder' /\ LateIsRecorded'
      /\ ListenInOrder' /\ RedisCovered' /\ UntrackedOwnsNothing' /\ PassedIsMonitored'
  BY DEF TrackerInv, ListenGlobal, lifeVars, IndexesAgree, CleanupReaches, DoneIsUntracked,
     RegisteredIsLive, ToldOnce, CompletionTold, UntrackedIsFresh, CurrentIsOpen,
     IndexedInOrder, LateIsRecorded, ListenInOrder, RedisCovered, UntrackedOwnsNothing,
     PassedIsMonitored, Done, Passed
<1> QED BY <1>1 DEF TrackerInv

\* Removing a manager-wide listener preserves the invariant.
LEMMA UnlistenGlobalStep ==
  ASSUME NEW g \in GlobalIds, TrackerInv, TypeOK', UnlistenGlobal(g)
  PROVE  TrackerInv'
<1>1. IndexesAgree' /\ CleanupReaches' /\ DoneIsUntracked' /\ RegisteredIsLive' /\ ToldOnce'
      /\ CompletionTold' /\ UntrackedIsFresh' /\ CurrentIsOpen' /\ IndexedInOrder' /\ LateIsRecorded'
      /\ ListenInOrder' /\ RedisCovered' /\ UntrackedOwnsNothing' /\ PassedIsMonitored'
  BY DEF TrackerInv, UnlistenGlobal, lifeVars, IndexesAgree, CleanupReaches, DoneIsUntracked,
     RegisteredIsLive, ToldOnce, CompletionTold, UntrackedIsFresh, CurrentIsOpen,
     IndexedInOrder, LateIsRecorded, ListenInOrder, RedisCovered, UntrackedOwnsNothing,
     PassedIsMonitored, Done, Passed
<1> QED BY <1>1 DEF TrackerInv

\* Removing a topic removes it from tracker and client alike.
LEMMA RemoveByTopicStep ==
  ASSUME NEW t \in Topics, TrackerInv, TypeOK', RemoveByTopic(t)
  PROVE  TrackerInv'
<1>1. DoneIsUntracked' /\ ToldOnce' /\ LateIsRecorded'
  BY DEF TrackerInv, RemoveByTopic, DoneIsUntracked, ToldOnce, LateIsRecorded, Done
<1>2. IndexesAgree'
  BY TopicFacts DEF TrackerInv, TypeOK, RemoveByTopic, IndexesAgree, On, DropTopics, Events
<1>3. CleanupReaches'
  BY TopicFacts DEF TrackerInv, TypeOK, RemoveByTopic, CleanupReaches, On, DropTopics, JobOf,
     Events
<1>4. RegisteredIsLive'
  BY TopicFacts DEF TrackerInv, TypeOK, RemoveByTopic, RegisteredIsLive, On, DropTopics,
     CurrentIsOpen, ListenInOrder, Events
<1>5. CompletionTold'
  BY TopicFacts DEF TrackerInv, TypeOK, RemoveByTopic, CompletionTold, On, DropTopics,
     ListenInOrder, ToldOnce, Done, Events
<1>6. UntrackedIsFresh'
  BY TopicFacts DEF TrackerInv, TypeOK, RemoveByTopic, UntrackedIsFresh, On, DropTopics, Events
<1>7. CurrentIsOpen'
  <2> SUFFICES ASSUME NEW j \in opened
               PROVE  /\ stage[j] \in Events
                      /\ phase = "open" => <<j, stage[j]>> \in redis'
    BY DEF RemoveByTopic, CurrentIsOpen
  <2>1. j \in Jobs /\ stage[j] \in Events /\ (phase = "open" => <<j, stage[j]>> \in redis)
    BY DEF TrackerInv, TypeOK, CurrentIsOpen
  <2>2. t[1] # j
    BY <2>1 DEF RemoveByTopic, Events
  <2>3. <<j, stage[j]>> \in Topics /\ TopicOf(<<j, stage[j]>>) = <<j, stage[j]>>
    BY <2>1, TopicFacts
  <2>4. <<j, stage[j]>> \notin On(redis, {t})
    BY <2>2, <2>3 DEF On
  <2> QED BY <2>1, <2>4 DEF RemoveByTopic, DropTopics
<1>8. IndexedInOrder'
  BY TopicFacts DEF TrackerInv, TypeOK, RemoveByTopic, IndexedInOrder, On, DropTopics,
     ListenInOrder, Passed, Events
<1>9. ListenInOrder'
  BY TopicFacts DEF TrackerInv, TypeOK, RemoveByTopic, ListenInOrder, On, DropTopics, Done,
     Events
<1>10. RedisCovered'
  BY TopicFacts DEF TrackerInv, TypeOK, RemoveByTopic, RedisCovered, On, DropTopics,
     ListenInOrder, CurrentIsOpen, Events
<1>11. UntrackedOwnsNothing'
  BY TopicFacts DEF TrackerInv, TypeOK, RemoveByTopic, UntrackedOwnsNothing, On, DropTopics,
     LateIsRecorded, ListenInOrder, Events
<1>12. PassedIsMonitored'
  BY TopicFacts DEF TrackerInv, TypeOK, RemoveByTopic, PassedIsMonitored, On, DropTopics,
     Passed, Done, IndexedInOrder, Events
<1> QED BY <1>1, <1>2, <1>3, <1>4, <1>5, <1>6, <1>7, <1>8, <1>9, <1>10, <1>11, <1>12 DEF TrackerInv

\* Shutdown ends the promises that hold while the manager is open.
LEMMA ShutdownClearStep ==
  ASSUME TrackerInv, TypeOK', ShutdownClear
  PROVE  TrackerInv'
<1>1. DoneIsUntracked' /\ ToldOnce' /\ IndexedInOrder' /\ LateIsRecorded' /\ UntrackedOwnsNothing'
  BY DEF TrackerInv, ShutdownClear, DoneIsUntracked, ToldOnce, IndexedInOrder, LateIsRecorded,
     UntrackedOwnsNothing, Done, Passed
<1>2. IndexesAgree'
  BY TopicFacts DEF TrackerInv, TypeOK, ShutdownClear, IndexesAgree
<1>3. CleanupReaches'
  BY TopicFacts DEF TrackerInv, TypeOK, ShutdownClear, CleanupReaches, JobOf
<1>4. RegisteredIsLive'
  BY TopicFacts DEF TrackerInv, TypeOK, ShutdownClear, RegisteredIsLive, CurrentIsOpen,
     ListenInOrder
<1>5. CompletionTold'
  BY TopicFacts DEF TrackerInv, TypeOK, ShutdownClear, CompletionTold, ListenInOrder, ToldOnce,
     Done
<1>6. UntrackedIsFresh'
  BY TopicFacts DEF TrackerInv, TypeOK, ShutdownClear, UntrackedIsFresh
<1>7. CurrentIsOpen'
  BY TopicFacts DEF TrackerInv, TypeOK, ShutdownClear, CurrentIsOpen, IndexedInOrder, Passed
<1>8. ListenInOrder'
  BY TopicFacts DEF TrackerInv, TypeOK, ShutdownClear, ListenInOrder, Done
<1>9. RedisCovered'
  BY TopicFacts DEF TrackerInv, TypeOK, ShutdownClear, RedisCovered, ListenInOrder,
     CurrentIsOpen
<1>10. PassedIsMonitored'
  BY TopicFacts DEF TrackerInv, TypeOK, ShutdownClear, PassedIsMonitored, Passed, Done,
     IndexedInOrder
<1> QED BY <1>1, <1>2, <1>3, <1>4, <1>5, <1>6, <1>7, <1>8, <1>9, <1>10 DEF TrackerInv

\* So does closing the Redis client,
LEMMA ShutdownRedisStep ==
  ASSUME TrackerInv, TypeOK', ShutdownRedis
  PROVE  TrackerInv'
<1>1. IndexesAgree' /\ CleanupReaches' /\ DoneIsUntracked' /\ ToldOnce' /\ IndexedInOrder'
      /\ LateIsRecorded' /\ UntrackedOwnsNothing'
  BY DEF TrackerInv, ShutdownRedis, IndexesAgree, CleanupReaches, DoneIsUntracked, ToldOnce,
     IndexedInOrder, LateIsRecorded, UntrackedOwnsNothing, Done, Passed
<1>2. RegisteredIsLive'
  BY TopicFacts DEF TrackerInv, TypeOK, ShutdownRedis, RegisteredIsLive, CurrentIsOpen,
     ListenInOrder
<1>3. CompletionTold'
  BY TopicFacts DEF TrackerInv, TypeOK, ShutdownRedis, CompletionTold, ListenInOrder, ToldOnce,
     Done
<1>4. UntrackedIsFresh'
  BY TopicFacts DEF TrackerInv, TypeOK, ShutdownRedis, UntrackedIsFresh
<1>5. CurrentIsOpen'
  BY TopicFacts DEF TrackerInv, TypeOK, ShutdownRedis, CurrentIsOpen, IndexedInOrder, Passed
<1>6. ListenInOrder'
  BY TopicFacts DEF TrackerInv, TypeOK, ShutdownRedis, ListenInOrder, Done
<1>7. RedisCovered'
  BY TopicFacts DEF TrackerInv, TypeOK, ShutdownRedis, RedisCovered, ListenInOrder,
     CurrentIsOpen
<1>8. PassedIsMonitored'
  BY TopicFacts DEF TrackerInv, TypeOK, ShutdownRedis, PassedIsMonitored, Passed, Done,
     IndexedInOrder
<1> QED BY <1>1, <1>2, <1>3, <1>4, <1>5, <1>6, <1>7, <1>8 DEF TrackerInv

\* and closing the executor.
LEMMA ShutdownExecutorStep ==
  ASSUME TrackerInv, TypeOK', ShutdownExecutor
  PROVE  TrackerInv'
<1>1. IndexesAgree' /\ CleanupReaches' /\ DoneIsUntracked' /\ ToldOnce' /\ UntrackedIsFresh'
      /\ IndexedInOrder' /\ LateIsRecorded' /\ UntrackedOwnsNothing'
  BY DEF TrackerInv, ShutdownExecutor, lifeVars, IndexesAgree, CleanupReaches, DoneIsUntracked,
     ToldOnce, UntrackedIsFresh, IndexedInOrder, LateIsRecorded, UntrackedOwnsNothing, Done,
     Passed
<1>2. RegisteredIsLive'
  BY TopicFacts DEF TrackerInv, TypeOK, ShutdownExecutor, RegisteredIsLive, lifeVars,
     CurrentIsOpen, ListenInOrder
<1>3. CompletionTold'
  BY TopicFacts DEF TrackerInv, TypeOK, ShutdownExecutor, CompletionTold, lifeVars,
     ListenInOrder, ToldOnce, Done
<1>4. CurrentIsOpen'
  BY TopicFacts DEF TrackerInv, TypeOK, ShutdownExecutor, CurrentIsOpen, lifeVars,
     IndexedInOrder, Passed
<1>5. ListenInOrder'
  BY TopicFacts DEF TrackerInv, TypeOK, ShutdownExecutor, ListenInOrder, lifeVars, Done
<1>6. RedisCovered'
  BY TopicFacts DEF TrackerInv, TypeOK, ShutdownExecutor, RedisCovered, lifeVars,
     ListenInOrder, CurrentIsOpen
<1>7. PassedIsMonitored'
  BY TopicFacts DEF TrackerInv, TypeOK, ShutdownExecutor, PassedIsMonitored, lifeVars, Passed,
     Done, IndexedInOrder
<1> QED BY <1>1, <1>2, <1>3, <1>4, <1>5, <1>6, <1>7 DEF TrackerInv

\* A status applied by whichever thread: ignored, merely recorded, refused by a
\* closed executor, or a completion with its notices and cleanup.
LEMMA ApplyStep ==
  ASSUME NEW j \in Jobs, NEW s \in Statuses, TrackerInv, TypeOK',
         stage[j] # "untracked", ApplyStatus(j, s), delivery' \subseteq delivery,
         UNCHANGED <<stage, opened, adding, globals, phase, withdrawn>>
  PROVE  TrackerInv'
<1>1. CASE Done(j) \/ (ApplyReturns(j, s) /\ s \notin Terminal)
  <2>1. /\ UNCHANGED <<notices, registry, active, byTopic, byId, redis, late, leaked>>
        /\ \A k \in Jobs : (Done(k) <=> Done(k)') /\ (k # j => status'[k] = status[k])
    BY <1>1 DEF ApplyStatus, ApplyReturns, ApplyRaises, lifeVars, Done, TrackerInv, TypeOK
  <2>2. IndexesAgree' /\ CleanupReaches' /\ RegisteredIsLive' /\ CurrentIsOpen'
        /\ IndexedInOrder' /\ LateIsRecorded' /\ RedisCovered' /\ UntrackedOwnsNothing'
    BY <2>1 DEF TrackerInv, IndexesAgree, CleanupReaches, RegisteredIsLive, CurrentIsOpen,
       IndexedInOrder, LateIsRecorded, RedisCovered, UntrackedOwnsNothing, Passed
  <2>3. DoneIsUntracked' /\ ToldOnce' /\ CompletionTold'
    BY <2>1, TopicFacts DEF TrackerInv, DoneIsUntracked, ToldOnce, CompletionTold, SubIds
  <2>4. UntrackedIsFresh'
    BY <2>1 DEF TrackerInv, UntrackedIsFresh
  <2>5. ListenInOrder'
    BY <2>1, TopicFacts DEF TrackerInv, ListenInOrder, SubIds
  <2>6. PassedIsMonitored'
    BY <2>1 DEF TrackerInv, TypeOK, PassedIsMonitored, Passed
  <2> QED BY <2>2, <2>3, <2>4, <2>5, <2>6 DEF TrackerInv
<1>2. CASE ~Done(j) /\ ExecutorRefuses(j) /\ ApplyRaises(j, s)
  <2>1. /\ phase = "closed" /\ phase' = "closed"
        /\ UNCHANGED <<notices, registry, active, byTopic, byId, redis, late>>
        /\ status' = [status EXCEPT ![j] = s]
        /\ leaked' = IF s \in Terminal THEN leaked \cup {j} ELSE leaked
    BY <1>2 DEF ApplyRaises, ExecutorRefuses
  <2>2. IndexesAgree' /\ CleanupReaches' /\ IndexedInOrder' /\ LateIsRecorded'
        /\ UntrackedOwnsNothing'
    BY <2>1 DEF TrackerInv, IndexesAgree, CleanupReaches, IndexedInOrder, LateIsRecorded,
       UntrackedOwnsNothing, Passed
  <2>3. DoneIsUntracked' /\ ToldOnce'
    BY <1>2, <2>1 DEF TrackerInv, TypeOK, DoneIsUntracked, ToldOnce, Done
  <2>4. RegisteredIsLive' /\ CompletionTold' /\ RedisCovered' /\ PassedIsMonitored'
    BY <2>1 DEF RegisteredIsLive, CompletionTold, RedisCovered, PassedIsMonitored
  <2>5. UntrackedIsFresh' /\ CurrentIsOpen' /\ ListenInOrder'
    BY <2>1 DEF TrackerInv, TypeOK, UntrackedIsFresh, CurrentIsOpen, ListenInOrder
  <2> QED BY <2>2, <2>3, <2>4, <2>5 DEF TrackerInv
<1>3. CASE ~Done(j) /\ s \in Terminal /\ ~ExecutorRefuses(j)
  <2>1. /\ status' = [status EXCEPT ![j] = s] /\ Done(j)'
        /\ Notify(j)
        /\ Cleanup(j) \/ CleanupRaises(j)
    BY <1>3 DEF ApplyStatus, ApplyReturns, ApplyRaises, Done, TrackerInv, TypeOK
  <2>2. IndexesAgree' /\ LateIsRecorded'
    BY <2>1 DEF TrackerInv, IndexesAgree, LateIsRecorded, Cleanup, CleanupRaises, DropTopics, On
  <2>3. CleanupReaches'
    BY <2>1, TopicFacts DEF TrackerInv, TypeOK, CleanupReaches, JobOf, Cleanup, CleanupRaises,
       DropTopics, On
  <2>4. DoneIsUntracked'
    BY <2>1 DEF TrackerInv, TypeOK, DoneIsUntracked, Done, Cleanup, CleanupRaises
  <2>5. RegisteredIsLive'
    BY <2>1 DEF TrackerInv, RegisteredIsLive, Cleanup, CleanupRaises, DropTopics, On
  <2>6. \A p \in Listeners \X Jobs : notices'[p] =
          IF p[2] = j /\ p[1] \in StatusListeners(j) THEN notices[p] + 1 ELSE notices[p]
    BY <2>1 DEF Notify
  <2>7. ToldOnce'
    BY <1>3, <2>1, <2>6 DEF TrackerInv, TypeOK, ToldOnce, Done
  <2>8. CompletionTold'
    <3> SUFFICES ASSUME NEW i \in UserIds \ withdrawn, phase = "open",
                        adding[i] = "registered", TopicOf(i)[2] = "status", Done(JobOf(i))'
                 PROVE  notices'[<<i, JobOf(i)>>] = 1
      BY DEF CompletionTold
    <3>1. i \in SubIds /\ JobOf(i) \in Jobs /\ <<i, JobOf(i)>> \in Listeners \X Jobs
      BY TopicFacts DEF SubIds, Listeners
    <3>2. CASE JobOf(i) # j
      BY <2>1, <2>6, <3>1, <3>2 DEF TrackerInv, TypeOK, CompletionTold, Done
    <3>3. CASE JobOf(i) = j
      <4>1. i \in byTopic
        BY <1>3, <3>3 DEF TrackerInv, ListenInOrder
      <4>2. TopicOf(i) = <<j, "status">>
        BY <3>1, <3>3, TopicFacts DEF JobOf, Topics
      <4>3. i \in StatusListeners(j)
        BY <4>1, <4>2 DEF StatusListeners, On
      <4>4. notices[<<i, j>>] = 0
        BY <1>3, <3>1, <3>3 DEF TrackerInv, TypeOK, ToldOnce
      <4> QED BY <2>6, <3>1, <3>3, <4>3, <4>4
    <3> QED BY <3>2, <3>3
  <2>9. UntrackedIsFresh'
    BY <2>1 DEF TrackerInv, TypeOK, UntrackedIsFresh, Cleanup, CleanupRaises, DropTopics, On
  <2>10. CurrentIsOpen'
    <3>1. \A k \in opened : <<k, stage[k]>> \notin active
      BY DEF TrackerInv, TypeOK, CurrentIsOpen, IndexedInOrder, Passed, Events
    <3> QED BY <2>1, <3>1, TopicFacts DEF TrackerInv, TypeOK, CurrentIsOpen, Cleanup,
       CleanupRaises, DropTopics, On
  <2>11. IndexedInOrder'
    BY <2>1 DEF TrackerInv, IndexedInOrder, Passed, Cleanup, CleanupRaises
  <2>12. ListenInOrder'
    BY <2>1, TopicFacts DEF TrackerInv, TypeOK, ListenInOrder, Done, Cleanup, CleanupRaises,
       DropTopics, On
  <2>13. RedisCovered'
    BY <2>1, TopicFacts DEF TrackerInv, TypeOK, RedisCovered, ListenInOrder, CurrentIsOpen,
       Cleanup, CleanupRaises, DropTopics, On
  <2>14. UntrackedOwnsNothing'
    BY <2>1 DEF TrackerInv, UntrackedOwnsNothing, Cleanup, CleanupRaises
  <2>15. PassedIsMonitored'
    BY <2>1, TopicFacts DEF TrackerInv, TypeOK, PassedIsMonitored, Passed, Done, Cleanup,
       CleanupRaises, DropTopics, On
  <2> QED BY <2>2, <2>3, <2>4, <2>5, <2>7, <2>8, <2>9, <2>10, <2>11, <2>12, <2>13, <2>14,
     <2>15 DEF TrackerInv
<1> QED BY <1>1, <1>2, <1>3 DEF ApplyStatus, ApplyReturns, ApplyRaises

\* Monitoring of a job dropped without completing it.
LEMMA DropMonitoringStep ==
  ASSUME NEW j \in Jobs, TrackerInv, TypeOK', stage[j] = "ready",
         Cleanup(j) \/ CleanupRaises(j),
         withdrawn' = withdrawn \cup On(byTopic \cup redis, JobTopics(j)),
         UNCHANGED <<status, notices, stage, opened, adding, globals, delivery, phase>>
  PROVE  TrackerInv'
<1> USE DEF Cleanup, CleanupRaises
<1>1. IndexesAgree' /\ LateIsRecorded' /\ UntrackedOwnsNothing'
  BY DEF TrackerInv, IndexesAgree, LateIsRecorded, UntrackedOwnsNothing, DropTopics, On, Events
<1>2. CleanupReaches'
  BY TopicFacts DEF TrackerInv, TypeOK, CleanupReaches, JobOf, DropTopics, On
<1>3. DoneIsUntracked' /\ ToldOnce' /\ CompletionTold'
  BY DEF TrackerInv, DoneIsUntracked, ToldOnce, CompletionTold, Done
<1>4. RegisteredIsLive'
  BY DEF TrackerInv, RegisteredIsLive, DropTopics, On
<1>5. UntrackedIsFresh' /\ IndexedInOrder'
  BY DEF TrackerInv, UntrackedIsFresh, IndexedInOrder, Passed, DropTopics, On
<1>6. CurrentIsOpen'
  <2>1. \A k \in opened : <<k, stage[k]>> \notin active
    BY DEF TrackerInv, TypeOK, CurrentIsOpen, IndexedInOrder, Passed, Events
  <2> QED BY <2>1, TopicFacts DEF TrackerInv, TypeOK, CurrentIsOpen, DropTopics, On
<1>7. ListenInOrder'
  BY TopicFacts DEF TrackerInv, TypeOK, ListenInOrder, Done, DropTopics, On
<1>8. RedisCovered'
  BY TopicFacts DEF TrackerInv, TypeOK, RedisCovered, ListenInOrder, DropTopics, On
<1>9. PassedIsMonitored'
  BY TopicFacts DEF TrackerInv, TypeOK, PassedIsMonitored, Passed, Done, DropTopics, On
<1> QED BY <1>1, <1>2, <1>3, <1>4, <1>5, <1>6, <1>7, <1>8, <1>9 DEF TrackerInv

\* Every step preserves the invariant: one lemma per action.
LEMMA InvariantStep ==
  ASSUME TrackerInv, [Next]_vars
  PROVE  TrackerInv'
<1>0. TypeOK'
  BY TypeStep DEF TrackerInv
<1>1. ASSUME NEW j \in Jobs, JobStep(j)
      PROVE  TrackerInv'
  <2>1. CASE Track(j) \/ SubscribeInternal(j) \/ RegisterInternal(j) \/ TrackFails(j)
    BY <1>0, <2>1, TrackStep, SubscribeInternalStep, RegisterInternalStep, TrackFailsStep
  <2>2. CASE \E s \in Terminal : CallApplyStatus(j, s)
    BY <1>0, <2>2, ApplyStep DEF CallApplyStatus, restVars, Terminal, Statuses
  <2>3. CASE \E skip \in BOOLEAN : RemoveJob(j, skip)
    <3>1. PICK skip \in BOOLEAN : RemoveJob(j, skip)
      BY <2>3
    <3>2. CASE Tracked(j) /\ ~skip
      BY <1>0, <3>1, <3>2, ApplyStep DEF RemoveJob, Statuses
    <3>3. CASE ~(Tracked(j) /\ ~skip)
      BY <1>0, <3>1, <3>3, DropMonitoringStep DEF RemoveJob
    <3> QED BY <3>2, <3>3
  <2>4. CASE \E p \in Payloads : Receive(j, p)
    BY <1>0, <2>4, ReceiveStep
  <2>5. CASE \E p \in Payloads : RunStatusCallback(j, p)
    <3>1. PICK p \in Payloads : RunStatusCallback(j, p)
      BY <2>5
    <3>2. stage[j] # "untracked" /\ Parse(p) \in Statuses
      BY <3>1 DEF RunStatusCallback, TrackerInv, UntrackedIsFresh, Parse, Statuses
    <3> QED BY <1>0, <3>1, <3>2, ApplyStep DEF RunStatusCallback
  <2> QED BY <1>1, <2>1, <2>2, <2>3, <2>4, <2>5 DEF JobStep
<1>2. ASSUME NEW i \in UserIds, UserStep(i)
      PROVE  TrackerInv'
  BY <1>0, <1>2, BeginListenStep, SubscribeUserStep, SubscribeUserFailsStep, FinishListenStep,
     RemoveByIdStep DEF UserStep
<1>3. ASSUME NEW g \in GlobalIds, ListenGlobal(g) \/ UnlistenGlobal(g)
      PROVE  TrackerInv'
  BY <1>0, <1>3, ListenGlobalStep, UnlistenGlobalStep
<1>4. ASSUME NEW t \in Topics, RemoveByTopic(t)
      PROVE  TrackerInv'
  BY <1>0, <1>4, RemoveByTopicStep
<1>5. CASE ShutdownClear \/ ShutdownRedis \/ ShutdownExecutor
  BY <1>0, <1>5, ShutdownClearStep, ShutdownRedisStep, ShutdownExecutorStep
<1>6. CASE UNCHANGED vars
  BY <1>0, <1>6 DEF TrackerInv, IndexesAgree, CleanupReaches, DoneIsUntracked, RegisteredIsLive,
     ToldOnce, CompletionTold, UntrackedIsFresh, CurrentIsOpen, IndexedInOrder, LateIsRecorded,
     ListenInOrder, RedisCovered, UntrackedOwnsNothing, PassedIsMonitored, Passed, Done, vars,
     lifeVars, restVars
<1> QED BY <1>1, <1>2, <1>3, <1>4, <1>5, <1>6 DEF Next

\* The tracker starts within its invariant.
LEMMA TrackerInit ==
  ASSUME Init
  PROVE  TrackerInv
<1>1. TypeOK
  BY DEF Init, TypeOK, Statuses, Stages, Calls, Phases
<1>2. IndexesAgree /\ CleanupReaches /\ DoneIsUntracked /\ RegisteredIsLive /\ CurrentIsOpen
      /\ IndexedInOrder /\ RedisCovered /\ PassedIsMonitored
  BY DEF Init, IndexesAgree, CleanupReaches, DoneIsUntracked, RegisteredIsLive, CurrentIsOpen,
     IndexedInOrder, RedisCovered, PassedIsMonitored
<1>3. UntrackedIsFresh /\ LateIsRecorded /\ ListenInOrder /\ UntrackedOwnsNothing
  BY DEF Init, UntrackedIsFresh, LateIsRecorded, ListenInOrder, UntrackedOwnsNothing, Events
<1>4. ToldOnce /\ CompletionTold
  BY DEF Init, ToldOnce, CompletionTold
<1> QED BY <1>1, <1>2, <1>3, <1>4 DEF TrackerInv

\* The tracker's indexes, the Redis client's callbacks and the progress of every
\* call in flight stay in step for any number of jobs, listeners and threads,
\* with Redis failing at any call and shutdown at any moment.  It contains
\* DoneIsUntracked, RegisteredIsLive, ToldOnce and CompletionTold.
THEOREM TrackerInvariant == Spec => []TrackerInv
<1>1. Init => TrackerInv
  BY TrackerInit
<1>2. TrackerInv /\ [Next]_vars => TrackerInv'
  BY InvariantStep
<1> QED BY <1>1, <1>2, PTL DEF Spec

\* No registration survives its job: see UntrackedIsClean.
THEOREM NothingLeftBehind == Spec => []UntrackedIsClean
<1>1. TrackerInv => UntrackedIsClean
  <2> SUFFICES ASSUME TrackerInv, NEW j \in Jobs, phase = "open",
                      stage[j] \in {"ready", "failed"}, j \notin registry \cup late \cup leaked
               PROVE  /\ active \cap JobTopics(j) = {}
                      /\ On(byTopic, JobTopics(j)) = {}
                      /\ \A i \in On(redis, JobTopics(j)) :
                           i \in UserIds /\ adding[i] = "subscribed"
    BY DEF UntrackedIsClean
  <2>1. active \cap JobTopics(j) = {}
    BY DEF TrackerInv, UntrackedOwnsNothing
  <2>2. On(byTopic, JobTopics(j)) = {}
    BY <2>1, TopicFacts DEF TrackerInv, TypeOK, CleanupReaches, On
  <2>3. ASSUME NEW i \in On(redis, JobTopics(j))
        PROVE  i \in UserIds /\ adding[i] = "subscribed"
    <3>1. i \in redis /\ JobOf(i) = j /\ i \notin byTopic
      BY <2>2, <2>3, TopicFacts DEF TrackerInv, TypeOK, On
    <3>2. j \notin opened
      BY DEF TrackerInv, CurrentIsOpen, Events
    <3> QED BY <3>1, <3>2 DEF TrackerInv, RedisCovered
  <2> QED BY <2>1, <2>2, <2>3
<1> QED BY <1>1, TrackerInvariant, PTL

\* A tracked job stays monitored whatever its users unsubscribe: see MonitoringIntact.
THEOREM MonitoringKept == Spec => []MonitoringIntact
<1>1. TrackerInv => MonitoringIntact
  <2> SUFFICES ASSUME TrackerInv, NEW j \in registry, phase = "open", stage[j] = "ready", ~Done(j),
                      NEW t \in JobTopics(j) \ withdrawn
               PROVE  t \in active \cap byTopic \cap redis
    BY DEF MonitoringIntact
  <2>1. PICK e \in Events : t = <<j, e>>
    BY DEF JobTopics
  <2>2. t \in active \cap byTopic
    BY <2>1 DEF TrackerInv, PassedIsMonitored, Passed
  <2> QED BY <2>2 DEF TrackerInv, RegisteredIsLive
<1> QED BY <1>1, TrackerInvariant, PTL

\* What a job ended with and what its listeners were told are never touched again.
LEMMA DoneIsStable ==
  ASSUME TypeOK, [Next]_vars, NEW j \in Jobs, Done(j)
  PROVE  /\ status'[j] = status[j]
         /\ \A l \in Listeners : notices'[<<l, j>>] = notices[<<l, j>>]
<1>1. ASSUME NEW k \in Jobs, NEW s, ApplyStatus(k, s)
      PROVE  /\ status'[j] = status[j]
             /\ \A l \in Listeners : notices'[<<l, j>>] = notices[<<l, j>>]
  <2>1. CASE Done(k)
    BY <1>1, <2>1 DEF ApplyStatus, ApplyReturns, ApplyRaises, lifeVars
  <2>2. CASE ~Done(k)
    <3>1. k # j
      BY <2>2
    <3>2. status' = [status EXCEPT ![k] = s] /\ (Notify(k) \/ UNCHANGED notices)
      BY <1>1, <2>2 DEF ApplyStatus, ApplyReturns, ApplyRaises
    <3> QED BY <3>1, <3>2 DEF Notify, TypeOK
  <2> QED BY <2>1, <2>2
<1>2. CASE UNCHANGED <<status, notices>>
  BY <1>2
<1>3. \/ \E k \in Jobs : \E s : ApplyStatus(k, s)
      \/ UNCHANGED <<status, notices>>
  BY DEF Next, JobStep, UserStep, Track, SubscribeInternal, RegisterInternal, TrackFails,
     CallApplyStatus, RemoveJob, Receive, RunStatusCallback, BeginListen, SubscribeUser,
     SubscribeUserFails, FinishListen, RemoveById, ListenGlobal, UnlistenGlobal, RemoveByTopic,
     ShutdownClear, ShutdownRedis, ShutdownExecutor, vars, lifeVars
<1> QED BY <1>1, <1>2, <1>3

\* A finished job is never finished again: see TerminalStable.
THEOREM FirstTerminalWins == Spec => TerminalStable
<1>1. TypeOK /\ [Next]_vars =>
        [\A j \in Jobs : Done(j) =>
           /\ status'[j] = status[j]
           /\ \A l \in Listeners : notices'[<<l, j>>] = notices[<<l, j>>]]_vars
  BY DoneIsStable
<1> QED BY <1>1, TypeCorrect, PTL DEF Spec, TerminalStable

\* One job's cleanup never reaches another job's registrations: see JobsAreIsolated.
THEOREM CleanupStaysInJob == Spec => JobsAreIsolated
<1> DEFINE Lost == (byTopic \ byTopic') \cup (redis \ redis')
<1>1. ASSUME TypeOK, Next, phase' = phase
      PROVE  \A i, k \in Lost : JobOf(i) = JobOf(k)
  <2>1. ASSUME NEW j \in Jobs, NEW T \in SUBSET JobTopics(j), DropTopics(T)
        PROVE  \A i, k \in Lost : JobOf(i) = JobOf(k)
    BY <1>1, <2>1, TopicFacts DEF DropTopics, On, TypeOK
  <2>2. ASSUME NEW i, byTopic \ {i} \subseteq byTopic', redis \ {i} \subseteq redis'
        PROVE  \A k, l \in Lost : JobOf(k) = JobOf(l)
    BY <2>2
  <2>3. \A j \in Jobs : Cleanup(j) \/ CleanupRaises(j) =>
          \E T \in SUBSET JobTopics(j) : DropTopics(T)
    BY DEF Cleanup, CleanupRaises
  <2>4. ASSUME NEW j \in Jobs, JobStep(j)
        PROVE  (\E T \in SUBSET JobTopics(j) : DropTopics(T))
                 \/ (byTopic \subseteq byTopic' /\ redis \subseteq redis')
    BY <2>3, <2>4 DEF JobStep, Track, SubscribeInternal, RegisterInternal, TrackFails,
       CallApplyStatus, RemoveJob, ApplyStatus, ApplyReturns, ApplyRaises, Receive,
       RunStatusCallback, lifeVars
  <2>5. ASSUME NEW i \in UserIds, UserStep(i)
        PROVE  byTopic \ {i} \subseteq byTopic' /\ redis \ {i} \subseteq redis'
    BY <2>5 DEF UserStep, BeginListen, SubscribeUser, SubscribeUserFails, FinishListen, RemoveById,
       lifeVars
  <2>6. ASSUME NEW t \in Topics, RemoveByTopic(t)
        PROVE  \E j \in Jobs : \E T \in SUBSET JobTopics(j) : DropTopics(T)
    BY <2>6 DEF RemoveByTopic, Topics, JobTopics
  <2>7. ASSUME NEW g \in GlobalIds, ListenGlobal(g) \/ UnlistenGlobal(g)
        PROVE  UNCHANGED <<byTopic, redis>>
    BY <2>7 DEF ListenGlobal, UnlistenGlobal, lifeVars
  <2>8. ~(ShutdownClear \/ ShutdownRedis \/ ShutdownExecutor)
    BY <1>1 DEF ShutdownClear, ShutdownRedis, ShutdownExecutor
  <2> QED BY <1>1, <2>1, <2>2, <2>4, <2>5, <2>6, <2>7, <2>8 DEF Next
<1>2. TypeOK /\ [Next]_vars =>
        [phase' = phase => \A i, k \in Lost : JobOf(i) = JobOf(k)]_vars
  BY <1>1
<1> QED BY <1>2, TypeCorrect, PTL DEF Spec, JobsAreIsolated

\* apply_status, whoever calls it and however it ends, is a step of the life of
\* a job: the status has been parsed before it is applied.
LEMMA ApplyIsLife ==
  ASSUME TypeOK, ToldOnce, NEW j \in Jobs, NEW s \in Statuses, ApplyStatus(j, s)
  PROVE  Lifecycle!Next \/ UNCHANGED <<status, notices>>
<1>1. CASE Done(j)
  BY <1>1 DEF ApplyStatus, ApplyReturns, ApplyRaises, lifeVars
<1>2. CASE ~Done(j)
  <2>1. /\ status[j] \in Lifecycle!Live
        /\ status' = [status EXCEPT ![j] = s]
        /\ \/ s \in Terminal /\ Notify(j)
           \/ UNCHANGED notices
    BY <1>2 DEF ApplyStatus, ApplyReturns, ApplyRaises, TypeOK, Done, Statuses, Terminal,
       Lifecycle!Live
  <2>2. CASE s \in Terminal /\ Notify(j)
    <3>1. \A l \in Listeners : notices[<<l, j>>] = 0
      BY <1>2 DEF ToldOnce, TypeOK
    <3>2. Lifecycle!Finish(j, s, StatusListeners(j) \cap Listeners)
      BY <2>1, <2>2, <3>1 DEF Lifecycle!Finish, Notify, TypeOK
    <3> QED BY <2>2, <3>2 DEF Lifecycle!Next, Lifecycle!Ends, Terminal
  <2>3. CASE UNCHANGED notices
    <3>1. notices' = [p \in Listeners \X Jobs |-> IF p \in {} \X {j} THEN 1 ELSE notices[p]]
      BY <2>3 DEF TypeOK
    <3>2. CASE s \in Terminal
      BY <2>1, <3>1, <3>2 DEF Lifecycle!Next, Lifecycle!Finish, Lifecycle!Ends, Terminal
    <3>3. CASE s \notin Terminal
      BY <2>1, <2>3, <3>3 DEF Lifecycle!Next, Lifecycle!Progress, Lifecycle!Live, Statuses, Terminal
    <3> QED BY <3>2, <3>3
  <2> QED BY <2>1, <2>2, <2>3
<1> QED BY <1>1, <1>2

\* The tracker implements the life of a job users are promised: see KeepsLifecycle.
THEOREM TrackerImplementsLifecycle == Spec => KeepsLifecycle
<1>1. Init => Lifecycle!Init
  BY DEF Init, Lifecycle!Init
<1>2. ASSUME TrackerInv, [Next]_vars
      PROVE  [Lifecycle!Next]_<<status, notices>>
  <2>1. \/ \E k \in Jobs : \E s \in Statuses : ApplyStatus(k, s)
        \/ UNCHANGED <<status, notices>>
    BY <1>2 DEF Next, JobStep, UserStep, Track, SubscribeInternal, RegisterInternal, TrackFails,
       CallApplyStatus, RemoveJob, Receive, RunStatusCallback, BeginListen, SubscribeUser,
       SubscribeUserFails, FinishListen, RemoveById, ListenGlobal, UnlistenGlobal, RemoveByTopic,
       ShutdownClear, ShutdownRedis, ShutdownExecutor, vars, lifeVars, Parse, Statuses, Terminal
  <2> QED BY <1>2, <2>1, ApplyIsLife DEF TrackerInv
<1> QED BY <1>1, <1>2, TrackerInvariant, PTL DEF Spec, KeepsLifecycle, Lifecycle!Spec

\* No completion is lost between listen() and apply_status: see CompletionTold.
THEOREM CompletionIsTold == Spec => []CompletionTold
<1>1. TrackerInv => CompletionTold
  BY DEF TrackerInv
<1> QED BY <1>1, TrackerInvariant, PTL

\* However many threads report the end of a job, a listener hears of it once: see
\* ToldOnce.
THEOREM NobodyToldTwice == Spec => []ToldOnce
<1>1. TrackerInv => ToldOnce
  BY DEF TrackerInv
<1> QED BY <1>1, TrackerInvariant, PTL

\* Per-id, per-topic and per-job removal keep the two lookups equal: see IndexesAgree.
THEOREM IndexesStayEqual == Spec => []IndexesAgree
<1>1. TrackerInv => IndexesAgree
  BY DEF TrackerInv
<1> QED BY <1>1, TrackerInvariant, PTL

\* Cleanup can find every registration of a job: see CleanupReaches.
THEOREM CleanupReachesAll == Spec => []CleanupReaches
<1>1. TrackerInv => CleanupReaches
  BY DEF TrackerInv
<1> QED BY <1>1, TrackerInvariant, PTL

\* Completion takes the job out of the registry: see DoneIsUntracked.
THEOREM CompletedIsUntracked == Spec => []DoneIsUntracked
<1>1. TrackerInv => DoneIsUntracked
  BY DEF TrackerInv
<1> QED BY <1>1, TrackerInvariant, PTL

\* What the tracker lists the client calls: see RegisteredIsLive.
THEOREM IndexedIsInstalled == Spec => []RegisteredIsLive
<1>1. TrackerInv => RegisteredIsLive
  BY DEF TrackerInv
<1> QED BY <1>1, TrackerInvariant, PTL

-----------------------------------------------------------------------------
(* SlurmManager: it drives the tracker only as the tracker's specification  *)
(* allows, the safety half of a refinement with the identity as mapping.    *)

\* Stages at which the heartbeat topic has been indexed or setup has failed.
Monitorable == {"status", "log", "ready", "failed"}

\* What the monitor thread relies on: the jobs of its round had their heartbeat
\* topic indexed and no check since they were selected, and the status it is
\* about to apply is a terminal one.
MonitorInv ==
  /\ missing \subseteq Jobs \cap due /\ target \subseteq Jobs
  /\ \A j \in missing \cup target : stage[j] \in Monitorable
  /\ monitor = "applying" => verdict \in Terminal

ManagerInv == TrackerInv /\ MonitorInv

\* Every step of the manager is a step of the tracker or leaves it alone.
LEMMA ManagerStepsTracker ==
  ASSUME ManagerInv, [ManagerNext]_allVars
  PROVE  [Next]_vars
<1>1. ASSUME NEW j \in Jobs, Submitting(j)
      PROVE  [Next]_vars
  <2>1. JobStep(j) \/ UNCHANGED vars
    BY <1>1 DEF Submitting, SubmitHeld, SubmitFails, StartTracking, OpenTopic, IndexTopic,
       SetupRaises, Acknowledged, Release, ReleaseFails, CancelHeld, FailSetup, JobStep, Terminal
  <2> QED BY <2>1 DEF Next
<1>2. ASSUME NEW j \in Jobs, Cancelling(j)
      PROVE  [Next]_vars
  <2>1. JobStep(j) \/ UNCHANGED vars
    BY <1>2 DEF Cancelling, CancelLookup, CancelRequest, CancelFails, CancelApply, JobStep,
       Terminal
  <2> QED BY <2>1 DEF Next
<1>3. ASSUME NEW j \in Jobs, World(j)
      PROVE  [Next]_vars
  <2>1. CASE Deliver(j)
    BY <2>1 DEF Deliver, JobStep, Next
  <2>2. CASE HandleDelivery(j)
    BY <2>2 DEF HandleDelivery, JobStep, Next
  <2>3. CASE ~Deliver(j) /\ ~HandleDelivery(j)
    BY <1>3, <2>3 DEF World, Lose, HeartbeatArrives, HeartbeatAges, CheckAges, SlurmStarts,
       WorkerCancelled, WorkerEnds, SlurmEnds, SlurmKills, Environment
  <2> QED BY <2>1, <2>2, <2>3
<1>4. ASSUME NEW j \in Jobs, MonitorApplies(j) \/ MonitorDies(j)
      PROVE  [Next]_vars
  <2>1. verdict \in Terminal /\ stage[j] \in Monitorable
    BY <1>4 DEF MonitorApplies, MonitorDies, ManagerInv, MonitorInv
  <2>2. CallApplyStatus(j, verdict)
    BY <1>4, <2>1 DEF MonitorApplies, MonitorDies, CallApplyStatus, ApplyStatus, Monitorable
  <2> QED BY <2>1, <2>2 DEF JobStep, Next
<1>5. CASE Monitoring /\ ~\E j \in Jobs : MonitorApplies(j) \/ MonitorDies(j)
  BY <1>5 DEF Monitoring, MonitorScan, MonitorUnresolved, MonitorStops, MonitorBegin,
     MonitorResolves
<1>6. CASE StopMonitor \/ ShutdownTracker
  BY <1>6 DEF StopMonitor, ShutdownTracker, Next
<1>7. CASE UNCHANGED allVars
  BY <1>7 DEF allVars
<1> QED BY <1>1, <1>2, <1>3, <1>4, <1>5, <1>6, <1>7 DEF ManagerNext

\* track() never goes back to a stage before its heartbeat topic was indexed.
LEMMA StageForward ==
  ASSUME TypeOK, [Next]_vars, NEW k \in Jobs, stage[k] \in Monitorable
  PROVE  stage'[k] \in Monitorable
<1>1. ASSUME NEW j \in Jobs, JobStep(j)
      PROVE  stage'[k] \in Monitorable
  <2>1. CASE Track(j)
    BY <2>1 DEF Track, TypeOK, Monitorable
  <2>2. CASE RegisterInternal(j)
    BY <2>2 DEF RegisterInternal, TypeOK, Monitorable, After, Events
  <2>3. CASE TrackFails(j)
    BY <2>3 DEF TrackFails, TypeOK, Monitorable
  <2>4. CASE stage' = stage
    BY <2>4
  <2> QED BY <1>1, <2>1, <2>2, <2>3, <2>4 DEF JobStep, SubscribeInternal, CallApplyStatus,
             RemoveJob, Receive, RunStatusCallback, restVars
<1>2. ASSUME NEW i \in UserIds, UserStep(i)
      PROVE  stage'[k] \in Monitorable
  BY <1>2 DEF UserStep, BeginListen, SubscribeUser, SubscribeUserFails, FinishListen, RemoveById
<1>3. ASSUME NEW g \in GlobalIds, ListenGlobal(g) \/ UnlistenGlobal(g)
      PROVE  stage'[k] \in Monitorable
  BY <1>3 DEF ListenGlobal, UnlistenGlobal
<1>4. ASSUME NEW t \in Topics, RemoveByTopic(t)
      PROVE  stage'[k] \in Monitorable
  BY <1>4 DEF RemoveByTopic
<1>5. CASE ShutdownClear \/ ShutdownRedis \/ ShutdownExecutor
  BY <1>5 DEF ShutdownClear, ShutdownRedis, ShutdownExecutor
<1>6. CASE UNCHANGED vars
  BY <1>6 DEF vars, restVars
<1> QED BY <1>1, <1>2, <1>3, <1>4, <1>5, <1>6 DEF Next

\* A job whose heartbeat topic its job owns has been taken past that topic.
LEMMA HeartbeatIndexed ==
  ASSUME TrackerInv, NEW j \in Jobs, <<j, "heartbeat">> \in active
  PROVE  stage[j] \in Monitorable
<1>1. stage[j] \in Stages
  BY DEF TrackerInv, TypeOK
<1>2. stage[j] # "untracked"
  BY DEF TrackerInv, UntrackedIsFresh, Events
<1>3. stage[j] \in Events => Passed(j, "heartbeat")
  BY DEF TrackerInv, IndexedInOrder, Events
<1> QED BY <1>1, <1>2, <1>3 DEF Stages, Events, Passed, Monitorable

\* The monitor's own bookkeeping survives every step of every thread.
LEMMA MonitorStep ==
  ASSUME ManagerInv, [ManagerNext]_allVars
  PROVE  MonitorInv'
<1>1. [Next]_vars
  BY ManagerStepsTracker
<1>2. \A k \in Jobs : stage[k] \in Monitorable => stage'[k] \in Monitorable
  BY <1>1, StageForward DEF ManagerInv, TrackerInv
<1>3. CASE UNCHANGED monVars /\ due \subseteq due'
  BY <1>2, <1>3 DEF ManagerInv, MonitorInv, monVars
<1>4. CASE MonitorScan
  <2>1. Missing \subseteq Jobs \cap due /\ \A j \in Missing : stage[j] \in Monitorable
    BY HeartbeatIndexed DEF Missing, ManagerInv
  <2> QED BY <1>2, <1>4, <2>1 DEF MonitorScan, ManagerInv, MonitorInv, timeVars
<1>5. CASE MonitorUnresolved \/ MonitorStops
  BY <1>2, <1>5 DEF MonitorUnresolved, MonitorStops, Resume, ManagerInv, MonitorInv,
     timeVars
<1>6. ASSUME NEW j \in Jobs, MonitorBegin(j)
      PROVE  MonitorInv'
  BY <1>2, <1>6 DEF MonitorBegin, ManagerInv, MonitorInv
<1>7. ASSUME NEW j \in Jobs, MonitorResolves(j)
      PROVE  MonitorInv'
  <2>1. verdict' \in Terminal
    BY <1>7 DEF MonitorResolves, Verdict, SlurmEnded, Terminal
  <2> QED BY <1>2, <1>7, <2>1 DEF MonitorResolves, ManagerInv, MonitorInv, timeVars
<1>8. ASSUME NEW j \in Jobs, MonitorApplies(j) \/ MonitorDies(j)
      PROVE  MonitorInv'
  BY <1>2, <1>8 DEF MonitorApplies, MonitorDies, Resume, ManagerInv, MonitorInv, timeVars
<1>9. ASSUME NEW j \in Jobs, Submitting(j) \/ Cancelling(j)
      PROVE  UNCHANGED monVars /\ due \subseteq due'
  BY <1>9 DEF Submitting, SubmitHeld, SubmitFails, StartTracking, OpenTopic, IndexTopic,
     SetupRaises, Acknowledged, Release, ReleaseFails, CancelHeld, FailSetup, Cancelling,
     CancelLookup, CancelRequest, CancelFails, CancelApply, mgrVars, timeVars
<1>10. ASSUME NEW j \in Jobs, World(j)
       PROVE  UNCHANGED monVars /\ due \subseteq due'
  BY <1>10 DEF World, Deliver, HandleDelivery, Lose, HeartbeatArrives, HeartbeatAges, CheckAges,
     SlurmStarts, WorkerCancelled, WorkerEnds, SlurmEnds, SlurmKills, Environment, mgrVars, timeVars
<1>11. StopMonitor \/ ShutdownTracker \/ UNCHANGED allVars
       => UNCHANGED monVars /\ due \subseteq due'
  BY DEF StopMonitor, ShutdownTracker, allVars, mgrVars, timeVars
<1> QED BY <1>3, <1>4, <1>5, <1>6, <1>7, <1>8, <1>9, <1>10, <1>11 DEF ManagerNext, Monitoring

\* The tracker's inductive invariant and the monitor's hold together inside the
\* manager: submissions, cancellations, the monitor and the worker's messages
\* never bring the tracker into a state its own specification excludes.
THEOREM ManagerInvariant == ManagerSpec => []ManagerInv
<1>1. ManagerInit => ManagerInv
  <2>1. Init => TrackerInv
    BY TrackerInit
  <2> QED BY <2>1 DEF ManagerInit, ManagerInv, MonitorInv
<1>2. ManagerInv /\ [ManagerNext]_allVars => ManagerInv'
  <2> SUFFICES ASSUME ManagerInv, [ManagerNext]_allVars
               PROVE  ManagerInv'
    OBVIOUS
  <2>1. TrackerInv'
    BY ManagerStepsTracker, InvariantStep DEF ManagerInv
  <2> QED BY <2>1, MonitorStep DEF ManagerInv
<1> QED BY <1>1, <1>2, PTL DEF ManagerSpec

\* SlurmManager implements JobTracker's specification: each of submit_job,
\* cancel_job, the heartbeat monitor and shutdown uses the tracker only in ways
\* the tracker's properties were established for.
THEOREM ManagerUsesTracker == ManagerSpec => UsesTracker
<1>1. ManagerInit => Init
  BY DEF ManagerInit
<1>2. ManagerInv /\ [ManagerNext]_allVars => [Next]_vars
  BY ManagerStepsTracker
<1> QED BY <1>1, <1>2, ManagerInvariant, PTL DEF ManagerSpec, UsesTracker, Spec

\* Slurm is queried about a job at most once per HEARTBEAT_TIMEOUT, with any number
\* of jobs in a round: begin_scheduler_check touches only the job it is called for,
\* and every job is in a round once.
THEOREM QueriesThrottled == ManagerSpec => QueriesAreDue
<1>1. ManagerInv /\ [ManagerNext]_allVars
      => [\A j \in target' \ target : j \in due]_allVars
  <2> SUFFICES ASSUME ManagerInv, ManagerNext, NEW j \in target' \ target
               PROVE  j \in due
    OBVIOUS
  <2>1. ASSUME NEW k \in Jobs, Submitting(k) \/ Cancelling(k)
        PROVE  target' = target
    BY <2>1 DEF Submitting, SubmitHeld, SubmitFails, StartTracking, OpenTopic, IndexTopic,
       SetupRaises, Acknowledged, Release, ReleaseFails, CancelHeld, FailSetup, Cancelling,
       CancelLookup, CancelRequest, CancelFails, CancelApply, mgrVars, monVars
  <2>2. ASSUME NEW k \in Jobs, World(k)
        PROVE  target' = target
    BY <2>2 DEF World, Deliver, HandleDelivery, Lose, HeartbeatArrives, HeartbeatAges, CheckAges,
       SlurmStarts, WorkerCancelled, WorkerEnds, SlurmEnds, SlurmKills, Environment, mgrVars,
       monVars
  <2>3. ASSUME NEW k \in Jobs, MonitorBegin(k)
        PROVE  j \in due
    BY <2>3 DEF MonitorBegin, ManagerInv, MonitorInv
  <2>4. ASSUME NEW k \in Jobs, MonitorResolves(k) \/ MonitorApplies(k) \/ MonitorDies(k)
        PROVE  target' \subseteq target
    BY <2>4 DEF MonitorResolves, MonitorApplies, MonitorDies
  <2>5. MonitorScan \/ MonitorUnresolved \/ MonitorStops \/ StopMonitor \/ ShutdownTracker
        => target' \subseteq target
    BY DEF MonitorScan, MonitorUnresolved, MonitorStops, StopMonitor, ShutdownTracker, mgrVars,
       monVars
  <2> QED BY <2>1, <2>2, <2>3, <2>4, <2>5 DEF ManagerNext, Monitoring
<1> QED BY <1>1, ManagerInvariant, PTL DEF ManagerSpec, QueriesAreDue

-----------------------------------------------------------------------------
(* What submit_job, slurmrestd and the worker may rely on. *)

\* The order of submit_job: nothing is tracked before the job is held, nothing
\* released before it is tracked, nothing left behind once it has raised.
SubmissionInv ==
  /\ withdrawn = {}
  /\ \A j \in Jobs :
       /\ submit[j] \in {"idle", "held"} => stage[j] = "untracked"
       /\ submit[j] = "idle" => slurm[j] = "absent"
       /\ cancel[j] # "idle" => submit[j] = "returned"
       /\ submit[j] \in {"acked", "returned"} => stage[j] = "ready"
       /\ submit[j] \in {"cleaning", "raised"} /\ j \notin excused
          => slurm[j] \in SlurmEnded \cup {"absent"}
       /\ submit[j] = "raised" => stage[j] = "untracked" \/ Done(j)
       /\ slurm[j] \in {"pending", "running"} => stage[j] = "ready"
       /\ stage[j] # "untracked" /\ ~Done(j) => j \in registry

\* Every claim of success, wherever it is on its way, is about a workload that
\* has succeeded: in the network, in the listener, in the monitor, in Slurm.
SuccessInv ==
  /\ \A j, k \in target : j = k
  /\ \A j \in Jobs :
       /\ slurm[j] \in {"absent", "held", "pending"} => outcome[j] = "none"
       /\ outcome[j] # "ok" =>
            /\ status[j] # "finished"
            /\ <<j, "finished">> \notin delivery
            /\ \A n \in 1..Len(net[j]) : net[j][n] # "finished"
            /\ slurm[j] # "completed"
            /\ monitor = "applying" /\ j \in target => verdict # "finished"

\* How a step of the manager moves one job in the tracker.
LEMMA TrackerMoves ==
  ASSUME ManagerInv, ManagerTypeOK, [ManagerNext]_allVars, NEW k \in Jobs
  PROVE  /\ withdrawn' = withdrawn
         /\ \/ stage'[k] = stage[k]
            \/ stage[k] = "untracked" /\ submit'[k] = "tracking" /\ k \in registry'
            \/ stage[k] \in Events /\ submit[k] = "tracking" /\ stage'[k] # "untracked"
         /\ Done(k) => Done(k)'
         /\ k \in registry /\ ~Done(k)' => k \in registry'
<1>0. TypeOK /\ [Next]_vars
  BY ManagerStepsTracker DEF ManagerInv, TrackerInv
<1>1. Done(k) => Done(k)'
  BY <1>0, DoneIsStable DEF Done
<1> DEFINE Moves == /\ withdrawn' = withdrawn
                    /\ \/ stage'[k] = stage[k]
                       \/ stage[k] = "untracked" /\ submit'[k] = "tracking" /\ k \in registry'
                       \/ stage[k] \in Events /\ submit[k] = "tracking" /\ stage'[k] # "untracked"
                    /\ k \in registry /\ ~Done(k)' => k \in registry'
<1>2. ASSUME NEW j \in Jobs, NEW s, ApplyStatus(j, s), UNCHANGED <<stage, withdrawn>>
      PROVE  Moves
  <2>1. CASE Done(j) \/ s \notin Terminal
    BY <1>2, <2>1 DEF ApplyStatus, ApplyReturns, ApplyRaises, lifeVars
  <2>2. CASE ~Done(j) /\ s \in Terminal
    <3>1. Done(j)' /\ registry \ {j} \subseteq registry'
      BY <1>0, <1>2, <2>2 DEF ApplyStatus, ApplyReturns, ApplyRaises, Cleanup, CleanupRaises,
         TypeOK, Done
    <3> QED BY <1>2, <3>1
  <2> QED BY <2>1, <2>2
<1>3. ASSUME NEW j \in Jobs, StartTracking(j)
      PROVE  Moves
  <2>1. CASE j = k
    BY <1>0, <1>3, <2>1 DEF StartTracking, Track, TypeOK, ManagerTypeOK
  <2>2. CASE j # k
    BY <1>0, <1>3, <2>2 DEF StartTracking, Track, TypeOK
  <2> QED BY <2>1, <2>2
<1>4. ASSUME NEW j \in Jobs, IndexTopic(j)
      PROVE  Moves
  BY <1>0, <1>4 DEF IndexTopic, RegisterInternal, TypeOK, After, Events
<1>5. ASSUME NEW j \in Jobs, SetupRaises(j)
      PROVE  Moves
  BY <1>0, <1>5 DEF SetupRaises, TrackFails, lifeVars, TypeOK, vars, restVars
<1>6. ASSUME NEW j \in Jobs, OpenTopic(j)
      PROVE  Moves
  BY <1>6 DEF OpenTopic, SubscribeInternal
<1>7. ASSUME NEW j \in Jobs, Deliver(j)
      PROVE  Moves
  BY <1>7 DEF Deliver, Receive, lifeVars
<1>8. CASE ShutdownTracker
  <2>1. withdrawn' = withdrawn /\ stage' = stage /\ registry' = registry
    BY <1>8 DEF ShutdownTracker, ShutdownClear, ShutdownRedis, ShutdownExecutor, lifeVars
  <2> QED BY <1>1, <2>1
<1>9. ASSUME UNCHANGED vars
      PROVE  Moves
  <2>1. withdrawn' = withdrawn /\ stage' = stage /\ registry' = registry
    BY <1>9 DEF vars, lifeVars, restVars
  <2> QED BY <2>1
<1>10. ASSUME NEW j \in Jobs, Submitting(j)
       PROVE  Moves
  <2>1. CASE FailSetup(j)
    BY <1>2, <2>1 DEF FailSetup, CallApplyStatus, restVars
  <2> QED BY <1>3, <1>4, <1>5, <1>6, <1>9, <1>10, <2>1 DEF Submitting, SubmitHeld, SubmitFails,
          Acknowledged, Release, ReleaseFails, CancelHeld
<1>11. ASSUME NEW j \in Jobs, Cancelling(j)
       PROVE  Moves
  <2>1. CASE CancelApply(j)
    BY <1>2, <2>1 DEF CancelApply, CallApplyStatus, restVars
  <2> QED BY <1>9, <1>11, <2>1 DEF Cancelling, CancelLookup, CancelRequest, CancelFails
<1>12. ASSUME NEW j \in Jobs, World(j)
       PROVE  Moves
  <2>1. CASE HandleDelivery(j)
    BY <1>2, <2>1 DEF HandleDelivery, RunStatusCallback
  <2> QED BY <1>7, <1>9, <1>12, <2>1 DEF World, Lose, HeartbeatArrives, HeartbeatAges, CheckAges,
          SlurmStarts, WorkerCancelled, WorkerEnds, SlurmEnds, SlurmKills, Environment
<1>13. CASE Monitoring
  <2>1. ASSUME NEW j \in Jobs, MonitorApplies(j) \/ MonitorDies(j)
        PROVE  Moves
    <3>1. ApplyStatus(j, verdict) /\ UNCHANGED <<stage, withdrawn>>
      BY <2>1 DEF MonitorApplies, MonitorDies, ApplyStatus, restVars
    <3> QED BY <1>2, <3>1
  <2> QED BY <1>1, <1>9, <1>13, <2>1 DEF Monitoring, MonitorScan, MonitorUnresolved, MonitorStops,
          MonitorBegin, MonitorResolves
<1>14. Moves
  BY <1>8, <1>9, <1>10, <1>11, <1>12, <1>13 DEF ManagerNext, StopMonitor, allVars
<1> QED BY <1>1, <1>14

\* Messages of a job are published and consumed one at a time.
LEMMA NetTyped ==
  ASSUME net \in [Jobs -> Seq(Payloads)], NEW j \in Jobs
  PROVE  /\ \A p \in Payloads : [net EXCEPT ![j] = Append(@, p)] \in [Jobs -> Seq(Payloads)]
         /\ net[j] # <<>> => [net EXCEPT ![j] = Tail(@)] \in [Jobs -> Seq(Payloads)]
<1>1. \A p \in Payloads : Append(net[j], p) \in Seq(Payloads)
  OBVIOUS
<1>2. net[j] # <<>> => Tail(net[j]) \in Seq(Payloads)
  OBVIOUS
<1> QED BY <1>1, <1>2

\* The manager's own state keeps its types.
LEMMA ManagerTypeStep ==
  ASSUME ManagerInv, ManagerTypeOK, [ManagerNext]_allVars
  PROVE  ManagerTypeOK'
<1>0. TypeOK'
  BY ManagerStepsTracker, TypeStep DEF ManagerInv, TrackerInv
<1>1. ASSUME NEW j \in Jobs, Submitting(j)
      PROVE  ManagerTypeOK'
  BY <1>0, <1>1 DEF ManagerTypeOK, SubmitSteps, SlurmStates, Submitting, SubmitHeld, SubmitFails,
     StartTracking, OpenTopic, IndexTopic, SetupRaises, Acknowledged, Release, ReleaseFails,
     CancelHeld, FailSetup, Cancelled, mgrVars, envVars, timeVars, monVars
<1>2. ASSUME NEW j \in Jobs, Cancelling(j)
      PROVE  ManagerTypeOK'
  BY <1>0, <1>2 DEF ManagerTypeOK, SlurmStates, Cancelling, CancelLookup, CancelRequest,
     CancelFails, CancelApply, Cancelled, envVars, timeVars, monVars
<1>3. ASSUME NEW j \in Jobs, World(j)
      PROVE  ManagerTypeOK'
  <2>1. CASE Deliver(j) \/ Lose(j)
    <3>1. net' \in [Jobs -> Seq(Payloads)]
      BY <2>1, NetTyped DEF ManagerTypeOK, Deliver, Lose
    <3> QED BY <1>0, <2>1, <3>1 DEF ManagerTypeOK, Deliver, Lose, timeVars, monVars
  <2>2. CASE \/ SlurmStarts(j) \/ WorkerCancelled(j)
             \/ \E o \in {"ok", "bad"} : WorkerEnds(j, o)
             \/ \E end \in {"completed", "failed"} : SlurmEnds(j, end)
             \/ \E end \in {"failed", "cancelled"} : SlurmKills(j, end)
    <3>0. /\ [net EXCEPT ![j] = Append(@, "running")] \in [Jobs -> Seq(Payloads)]
          /\ [net EXCEPT ![j] = Append(@, "finished")] \in [Jobs -> Seq(Payloads)]
          /\ [net EXCEPT ![j] = Append(@, "error")] \in [Jobs -> Seq(Payloads)]
          /\ [net EXCEPT ![j] = Append(@, "cancelled")] \in [Jobs -> Seq(Payloads)]
      BY NetTyped, WorkerAssumption DEF ManagerTypeOK
    <3>1. net' \in [Jobs -> Seq(Payloads)]
      BY <2>2, <3>0 DEF ManagerTypeOK, SlurmStarts, WorkerCancelled, WorkerEnds, SlurmEnds,
         SlurmKills, Environment
    <3>2. slurm' \in [Jobs -> SlurmStates]
      BY <2>2 DEF ManagerTypeOK, SlurmStarts, WorkerCancelled, WorkerEnds, SlurmEnds,
         SlurmKills, Environment, SlurmStates
    <3>3. outcome' \in [Jobs -> {"none", "working", "ok", "bad"}]
      BY <2>2 DEF ManagerTypeOK, SlurmStarts, WorkerCancelled, WorkerEnds, SlurmEnds,
         SlurmKills, Environment
    <3>4. UNCHANGED <<submit, cancel, timeVars, monVars, stop, excused>>
      BY <2>2 DEF SlurmStarts, WorkerCancelled, WorkerEnds, SlurmEnds, SlurmKills, Environment
    <3> QED BY <1>0, <3>1, <3>2, <3>3, <3>4 DEF ManagerTypeOK, timeVars, monVars
  <2>3. CASE HandleDelivery(j) \/ HeartbeatArrives(j) \/ HeartbeatAges(j) \/ CheckAges(j)
    BY <1>0, <2>3 DEF ManagerTypeOK, HandleDelivery, HeartbeatArrives, HeartbeatAges, CheckAges,
       mgrVars, envVars, timeVars, monVars
  <2> QED BY <1>3, <2>1, <2>2, <2>3 DEF World
<1>4. CASE Monitoring
  <2>1. ASSUME NEW j \in Jobs, MonitorBegin(j) \/ MonitorApplies(j) \/ MonitorDies(j)
        PROVE  ManagerTypeOK'
    BY <1>0, <2>1 DEF ManagerTypeOK, MonitorBegin, MonitorApplies, MonitorDies, Resume, envVars,
       timeVars
  <2>2. ASSUME NEW j \in Jobs, MonitorResolves(j)
        PROVE  ManagerTypeOK'
    <3>1. verdict' \in Statuses
      BY <2>2 DEF MonitorResolves, Verdict, SlurmEnded, Statuses
    <3> QED BY <1>0, <2>2, <3>1 DEF ManagerTypeOK, MonitorResolves, envVars, timeVars
  <2>3. CASE MonitorScan \/ MonitorUnresolved \/ MonitorStops
    BY <1>0, <2>3 DEF ManagerTypeOK, MonitorScan, Missing, MonitorUnresolved, MonitorStops, Resume,
       envVars, timeVars
  <2> QED BY <1>4, <2>1, <2>2, <2>3 DEF Monitoring
<1>5. CASE StopMonitor \/ ShutdownTracker \/ UNCHANGED allVars
  BY <1>0, <1>5 DEF ManagerTypeOK, StopMonitor, ShutdownTracker, allVars, mgrVars, envVars,
     timeVars, monVars
<1> QED BY <1>1, <1>2, <1>3, <1>4, <1>5 DEF ManagerNext
\* submit_job keeps its order whatever else happens to its job meanwhile.
LEMMA SubmissionStep ==
  ASSUME ManagerInv, ManagerTypeOK, SubmissionInv, [ManagerNext]_allVars
  PROVE  SubmissionInv'
<1>0. withdrawn' = {}
  <2>1. CASE Jobs = {}
    BY <2>1 DEF SubmissionInv, ManagerNext, Monitoring, MonitorScan, MonitorUnresolved,
       MonitorStops, StopMonitor, ShutdownTracker, ShutdownClear, ShutdownRedis,
       ShutdownExecutor, allVars, vars, restVars
  <2>2. CASE Jobs # {}
    BY <2>2, TrackerMoves DEF SubmissionInv
  <2> QED BY <2>1, <2>2
<1> SUFFICES ASSUME NEW k \in Jobs
             PROVE  /\ submit'[k] \in {"idle", "held"} => stage'[k] = "untracked"
                    /\ submit'[k] = "idle" => slurm'[k] = "absent"
                    /\ cancel'[k] # "idle" => submit'[k] = "returned"
                    /\ submit'[k] \in {"acked", "returned"} => stage'[k] = "ready"
                    /\ submit'[k] \in {"cleaning", "raised"} /\ k \notin excused'
                       => slurm'[k] \in SlurmEnded \cup {"absent"}
                    /\ submit'[k] = "raised" => stage'[k] = "untracked" \/ Done(k)'
                    /\ slurm'[k] \in {"pending", "running"} => stage'[k] = "ready"
                    /\ stage'[k] # "untracked" /\ ~Done(k)' => k \in registry'
  BY <1>0 DEF SubmissionInv
<1>1. /\ \/ stage'[k] = stage[k]
         \/ stage[k] = "untracked" /\ submit'[k] = "tracking" /\ k \in registry'
         \/ stage[k] \in Events /\ submit[k] = "tracking" /\ stage'[k] # "untracked"
      /\ Done(k) => Done(k)'
      /\ k \in registry /\ ~Done(k)' => k \in registry'
  BY TrackerMoves
\* How a step moves the job's submission and its allocation.
<1> DEFINE Moves ==
  \/ submit'[k] = submit[k] /\ slurm'[k] = slurm[k]
  \/ submit'[k] = submit[k] /\ submit[k] # "idle" /\ slurm'[k] \in SlurmEnded
  \/ submit'[k] = submit[k] /\ slurm[k] = "pending" /\ slurm'[k] = "running"
  \/ submit[k] = "idle" /\ submit'[k] = "held" /\ slurm'[k] = "held"
  \/ submit[k] = "idle" /\ submit'[k] = "raised" /\ k \in excused' /\ slurm'[k] \in {"absent", "held"}
  \/ submit[k] = "held" /\ submit'[k] = "tracking" /\ slurm'[k] = slurm[k]
  \/ submit[k] = "tracking" /\ submit'[k] = "failing" /\ slurm'[k] = slurm[k]
  \/ submit[k] = "tracking" /\ stage[k] = "ready" /\ submit'[k] = "acked" /\ slurm'[k] = slurm[k]
  \/ submit[k] = "acked" /\ submit'[k] \in {"returned", "failing"} /\ slurm'[k] \in {slurm[k], "pending"}
  \/ submit[k] = "failing" /\ submit'[k] = "cleaning"
       /\ (slurm'[k] \in SlurmEnded \/ (slurm'[k] = slurm[k] /\ k \in excused'))
  \/ submit[k] = "cleaning" /\ submit'[k] = "raised" /\ slurm'[k] = slurm[k] /\ Done(k)'
<1>2. Moves /\ excused \subseteq excused'
  <2>1. ASSUME NEW j \in Jobs, FailSetup(j)
        PROVE  Moves /\ excused \subseteq excused'
    <3>1. Done(j)'
      BY <2>1 DEF FailSetup, CallApplyStatus, ApplyStatus, ApplyReturns, ApplyRaises, Done,
         Terminal, ManagerTypeOK, TypeOK, lifeVars
    <3> QED BY <2>1, <3>1 DEF FailSetup, ManagerTypeOK, envVars
  <2>2. ASSUME NEW j \in Jobs, Submitting(j), ~FailSetup(j)
        PROVE  Moves /\ excused \subseteq excused'
    <3>1. CASE SubmitHeld(j) \/ SubmitFails(j)
      BY <3>1 DEF SubmitHeld, SubmitFails, ManagerTypeOK, SubmissionInv
    <3>2. CASE StartTracking(j) \/ OpenTopic(j) \/ IndexTopic(j)
      BY <3>2 DEF StartTracking, OpenTopic, IndexTopic, ManagerTypeOK, mgrVars, envVars
    <3>3. CASE SetupRaises(j) \/ Acknowledged(j)
      BY <3>3 DEF SetupRaises, Acknowledged, ManagerTypeOK, envVars
    <3>4. CASE Release(j) \/ ReleaseFails(j)
      BY <3>4 DEF Release, ReleaseFails, ManagerTypeOK
    <3>5. CASE CancelHeld(j)
      <4>1. \/ slurm' = Cancelled(j) /\ excused' = excused
            \/ slurm' = slurm /\ excused' = excused \cup {j}
        BY <3>5 DEF CancelHeld
      <4>2. Cancelled(j)[j] \in SlurmEnded /\ (j # k => Cancelled(j)[k] = slurm[k])
        BY DEF Cancelled, ManagerTypeOK, SlurmEnded
      <4>3. CASE j = k
        <5>1. submit[k] = "failing" /\ submit'[k] = "cleaning"
          BY <3>5, <4>3 DEF CancelHeld, ManagerTypeOK
        <5>2. slurm'[k] \in SlurmEnded \/ (slurm'[k] = slurm[k] /\ k \in excused')
          BY <4>1, <4>2, <4>3
        <5> QED BY <4>1, <5>1, <5>2
      <4>4. CASE j # k
        BY <3>5, <4>1, <4>2, <4>4 DEF CancelHeld, ManagerTypeOK
      <4> QED BY <4>3, <4>4
    <3> QED BY <2>2, <3>1, <3>2, <3>3, <3>4, <3>5 DEF Submitting
  <2>3. ASSUME NEW j \in Jobs, Cancelling(j)
        PROVE  Moves /\ excused \subseteq excused'
    BY <2>3 DEF Cancelling, CancelLookup, CancelRequest, CancelFails, CancelApply, Cancelled,
       ManagerTypeOK, SubmissionInv, SlurmEnded, envVars
  <2>4. ASSUME NEW j \in Jobs, World(j)
        PROVE  Moves /\ excused \subseteq excused'
    BY <2>4 DEF World, Deliver, HandleDelivery, Lose, HeartbeatArrives, HeartbeatAges, CheckAges,
       SlurmStarts, WorkerCancelled, WorkerEnds, SlurmEnds, SlurmKills, Environment,
       ManagerTypeOK, SubmissionInv, SlurmEnded, mgrVars, envVars
  <2>5. CASE Monitoring \/ StopMonitor \/ ShutdownTracker \/ UNCHANGED allVars
    BY <2>5 DEF Monitoring, MonitorScan, MonitorUnresolved, MonitorStops, MonitorBegin,
       MonitorResolves, MonitorApplies, MonitorDies, StopMonitor, ShutdownTracker, allVars,
       mgrVars, envVars
  <2> QED BY <2>1, <2>2, <2>3, <2>4, <2>5 DEF ManagerNext
<1>3. cancel'[k] # "idle" => submit'[k] = "returned"
  <2>1. ASSUME NEW j \in Jobs, Cancelling(j)
        PROVE  cancel'[k] # "idle" => submit'[k] = "returned"
    BY <2>1 DEF Cancelling, CancelLookup, CancelRequest, CancelFails, CancelApply, ManagerTypeOK,
       SubmissionInv
  <2>2. ASSUME NEW j \in Jobs, Submitting(j)
        PROVE  UNCHANGED cancel
    BY <2>2 DEF Submitting, SubmitHeld, SubmitFails, StartTracking, OpenTopic, IndexTopic,
       SetupRaises, Acknowledged, Release, ReleaseFails, CancelHeld, FailSetup, mgrVars
  <2>3. ASSUME NEW j \in Jobs, World(j)
        PROVE  UNCHANGED cancel
    BY <2>3 DEF World, Deliver, HandleDelivery, Lose, HeartbeatArrives, HeartbeatAges, CheckAges,
       SlurmStarts, WorkerCancelled, WorkerEnds, SlurmEnds, SlurmKills, Environment, mgrVars
  <2>4. Monitoring \/ StopMonitor \/ ShutdownTracker \/ UNCHANGED allVars => UNCHANGED cancel
    BY DEF Monitoring, MonitorScan, MonitorUnresolved, MonitorStops, MonitorBegin,
       MonitorResolves, MonitorApplies, MonitorDies, StopMonitor, ShutdownTracker, allVars,
       mgrVars
  <2>5. UNCHANGED cancel => (cancel'[k] # "idle" => submit'[k] = "returned")
    BY <1>2 DEF SubmissionInv
  <2> QED BY <2>1, <2>2, <2>3, <2>4, <2>5 DEF ManagerNext
<1> QED BY <1>1, <1>2, <1>3 DEF SubmissionInv, SlurmEnded, Events, ManagerTypeOK, SubmitSteps
\* No step makes a claim of success that its workload does not support.
LEMMA SuccessStep ==
  ASSUME ManagerInv, ManagerTypeOK, SubmissionInv, SuccessInv, [ManagerNext]_allVars
  PROVE  SuccessInv'
<1>1. \A j, k \in target' : j = k
  <2>1. ASSUME NEW j \in Jobs, Submitting(j) \/ Cancelling(j)
        PROVE  target' \subseteq target
    BY <2>1 DEF Submitting, SubmitHeld, SubmitFails, StartTracking, OpenTopic, IndexTopic,
       SetupRaises, Acknowledged, Release, ReleaseFails, CancelHeld, FailSetup, Cancelling,
       CancelLookup, CancelRequest, CancelFails, CancelApply, mgrVars, monVars
  <2>2. ASSUME NEW j \in Jobs, World(j)
        PROVE  target' \subseteq target
    BY <2>2 DEF World, Deliver, HandleDelivery, Lose, HeartbeatArrives, HeartbeatAges, CheckAges,
       SlurmStarts, WorkerCancelled, WorkerEnds, SlurmEnds, SlurmKills, Environment, mgrVars,
       monVars
  <2>3. Monitoring => target' \subseteq target \/ \E j \in Jobs : target' = {j}
    BY DEF Monitoring, MonitorScan, MonitorUnresolved, MonitorStops, MonitorBegin,
       MonitorResolves, MonitorApplies, MonitorDies
  <2>4. StopMonitor \/ ShutdownTracker \/ UNCHANGED allVars => target' \subseteq target
    BY DEF StopMonitor, ShutdownTracker, allVars, mgrVars, monVars
  <2> QED BY <2>1, <2>2, <2>3, <2>4 DEF ManagerNext, SuccessInv
<1> SUFFICES ASSUME NEW k \in Jobs
             PROVE  /\ slurm'[k] \in {"absent", "held", "pending"} => outcome'[k] = "none"
                    /\ outcome'[k] # "ok" =>
                         /\ status'[k] # "finished"
                         /\ <<k, "finished">> \notin delivery'
                         /\ \A n \in 1..Len(net'[k]) : net'[k][n] # "finished"
                         /\ slurm'[k] # "completed"
                         /\ monitor' = "applying" /\ k \in target' => verdict' # "finished"
  BY <1>1 DEF SuccessInv
\* What happens at Slurm and on the compute node.
<1>2. /\ slurm'[k] \in {"absent", "held", "pending"} => outcome'[k] = "none"
      /\ outcome'[k] # "ok" => outcome[k] # "ok" /\ slurm'[k] # "completed"
  <2> DEFINE Node == /\ slurm'[k] \in {"absent", "held", "pending"} => outcome'[k] = "none"
                     /\ outcome'[k] # "ok" => outcome[k] # "ok" /\ slurm'[k] # "completed"
  <2>1. ASSUME NEW j \in Jobs, Submitting(j) \/ CancelRequest(j)
        PROVE  Node
    <3>1. /\ outcome' = outcome
          /\ \/ slurm'[k] \in {slurm[k], "cancelled"}
             \/ slurm[k] = "held" /\ slurm'[k] = "pending"
             \/ submit[k] = "idle" /\ slurm'[k] = "held" /\ slurm[k] = "absent"
      BY <2>1 DEF Submitting, SubmitHeld, SubmitFails, StartTracking, OpenTopic, IndexTopic,
         SetupRaises, Acknowledged, Release, ReleaseFails, CancelHeld, FailSetup, CancelRequest,
         Cancelled, ManagerTypeOK, SubmissionInv, mgrVars, envVars
    <3> QED BY <3>1 DEF SuccessInv
  <2>2. ASSUME NEW j \in Jobs, SlurmStarts(j) \/ WorkerCancelled(j)
        PROVE  Node
    BY <2>2 DEF SlurmStarts, WorkerCancelled, Environment, ManagerTypeOK, SuccessInv
  <2>3. ASSUME NEW j \in Jobs, NEW o \in {"ok", "bad"}, WorkerEnds(j, o)
        PROVE  Node
    BY <2>3 DEF WorkerEnds, Environment, SlurmEnded, ManagerTypeOK, SuccessInv
  <2>4. ASSUME NEW j \in Jobs, NEW end \in {"completed", "failed"}, SlurmEnds(j, end)
        PROVE  Node
    BY <2>4 DEF SlurmEnds, Environment, ManagerTypeOK, SuccessInv
  <2>5. ASSUME NEW j \in Jobs, NEW end \in {"failed", "cancelled"}, SlurmKills(j, end)
        PROVE  Node
    BY <2>5 DEF SlurmKills, Environment, ManagerTypeOK, SuccessInv
  <2>6. ASSUME UNCHANGED <<slurm, outcome>>
        PROVE  Node
    BY <2>6 DEF SuccessInv
  <2>7. ASSUME NEW j \in Jobs, Cancelling(j), ~CancelRequest(j)
        PROVE  UNCHANGED <<slurm, outcome>>
    BY <2>7 DEF Cancelling, CancelLookup, CancelFails, CancelApply, envVars
  <2>8. ASSUME NEW j \in Jobs, World(j)
        PROVE  Node
    BY <2>2, <2>3, <2>4, <2>5, <2>6, <2>8 DEF World, Deliver, HandleDelivery, Lose,
       HeartbeatArrives, HeartbeatAges, CheckAges, mgrVars, envVars
  <2>9. Monitoring \/ StopMonitor \/ ShutdownTracker \/ UNCHANGED allVars
        => UNCHANGED <<slurm, outcome>>
    BY DEF Monitoring, MonitorScan, MonitorUnresolved, MonitorStops, MonitorBegin,
       MonitorResolves, MonitorApplies, MonitorDies, StopMonitor, ShutdownTracker, allVars,
       mgrVars, envVars
  <2> QED BY <2>1, <2>6, <2>7, <2>8, <2>9 DEF ManagerNext, Cancelling
\* What is published.
<1>3. outcome'[k] # "ok" => \A n \in 1..Len(net'[k]) : net'[k][n] # "finished"
  <2> DEFINE Honest == outcome'[k] # "ok" => \A n \in 1..Len(net'[k]) : net'[k][n] # "finished"
  <2>0. outcome'[k] # "ok" => \A n \in 1..Len(net[k]) : net[k][n] # "finished"
    BY <1>2 DEF SuccessInv
  <2>1. ASSUME NEW p \in Payloads, net'[k] = Append(net[k], p), p = "finished" => outcome'[k] = "ok"
        PROVE  Honest
    <3>1. net[k] \in Seq(Payloads)
      BY DEF ManagerTypeOK
    <3>2. /\ Len(net'[k]) = Len(net[k]) + 1 /\ net'[k][Len(net[k]) + 1] = p
          /\ \A n \in 1..Len(net[k]) : net'[k][n] = net[k][n]
      BY <2>1, <3>1
    <3>3. Len(net[k]) \in Nat
      BY <3>1
    <3> SUFFICES ASSUME outcome'[k] # "ok", NEW n \in 1..(Len(net[k]) + 1)
                 PROVE  net'[k][n] # "finished"
      BY <3>2
    <3> QED BY <2>0, <2>1, <3>2, <3>3
  <2>2. ASSUME net[k] # <<>>, net'[k] = Tail(net[k])
        PROVE  Honest
    <3>0. net[k] \in Seq(Payloads)
      BY DEF ManagerTypeOK
    <3>1. /\ Len(net[k]) \in Nat /\ Len(net'[k]) = Len(net[k]) - 1
          /\ \A n \in 1..Len(net'[k]) : net'[k][n] = net[k][n + 1]
      BY <2>2, <3>0
    <3> SUFFICES ASSUME outcome'[k] # "ok", NEW n \in 1..Len(net'[k])
                 PROVE  net'[k][n] # "finished"
      OBVIOUS
    <3>2. n + 1 \in 1..Len(net[k])
      BY <3>1
    <3> QED BY <2>0, <3>1, <3>2
  <2>3. ASSUME net'[k] = net[k]
        PROVE  Honest
    BY <1>2, <2>3 DEF SuccessInv
  <2>4. ASSUME NEW j \in Jobs, World(j)
        PROVE  Honest
    <3>1. CASE SlurmStarts(j) \/ WorkerCancelled(j)
      <4>1. \/ net'[k] = net[k]
            \/ net'[k] = Append(net[k], "running")
            \/ net'[k] = Append(net[k], "cancelled")
        BY <3>1 DEF SlurmStarts, WorkerCancelled, Environment, ManagerTypeOK
      <4> QED BY <2>1, <2>3, <4>1, WorkerAssumption
    <3>2. ASSUME NEW o \in {"ok", "bad"}, WorkerEnds(j, o)
          PROVE  Honest
      <4>1. CASE j # k
        BY <2>3, <3>2, <4>1 DEF WorkerEnds, Environment, ManagerTypeOK
      <4>2. CASE j = k
        <5>1. /\ net'[k] = Append(net[k], IF o = "ok" THEN "finished" ELSE "error")
              /\ outcome'[k] = o
          BY <3>2, <4>2 DEF WorkerEnds, Environment, ManagerTypeOK
        <5>2. CASE o = "ok"
          BY <2>1, <5>1, <5>2
        <5>3. CASE o = "bad"
          BY <2>1, <5>1, <5>3, WorkerAssumption
        <5> QED BY <5>2, <5>3
      <4> QED BY <4>1, <4>2
    <3>3. CASE Deliver(j) \/ Lose(j)
      BY <2>2, <2>3, <3>3 DEF Deliver, Lose, ManagerTypeOK
    <3> QED BY <2>3, <2>4, <3>1, <3>2, <3>3 DEF World, HandleDelivery, HeartbeatArrives,
            HeartbeatAges, CheckAges, SlurmEnds, SlurmKills, Environment, mgrVars, envVars
  <2>5. ASSUME NEW j \in Jobs, Submitting(j) \/ Cancelling(j)
        PROVE  net' = net
    BY <2>5 DEF Submitting, SubmitHeld, SubmitFails, StartTracking, OpenTopic, IndexTopic,
       SetupRaises, Acknowledged, Release, ReleaseFails, CancelHeld, FailSetup, Cancelling,
       CancelLookup, CancelRequest, CancelFails, CancelApply, mgrVars, envVars
  <2>6. Monitoring \/ StopMonitor \/ ShutdownTracker \/ UNCHANGED allVars => net' = net
    BY DEF Monitoring, MonitorScan, MonitorUnresolved, MonitorStops, MonitorBegin,
       MonitorResolves, MonitorApplies, MonitorDies, StopMonitor, ShutdownTracker, allVars,
       mgrVars, envVars
  <2> QED BY <2>3, <2>4, <2>5, <2>6 DEF ManagerNext
\* What the listener thread has picked up.
<1>4. outcome[k] # "ok" => <<k, "finished">> \notin delivery'
  <2>1. ASSUME NEW j \in Jobs, Deliver(j), outcome[k] # "ok"
        PROVE  <<k, "finished">> \notin delivery'
    <3>1. PICK p \in Payloads : p = Head(net[j]) /\ delivery' = {<<j, p>>}
      BY <2>1 DEF Deliver, Receive
    <3>2. CASE j = k
      <4>1. Head(net[k]) = net[k][1] /\ 1 \in 1..Len(net[k])
        BY <2>1, <3>2 DEF Deliver, ManagerTypeOK
      <4> QED BY <2>1, <3>1, <3>2, <4>1 DEF SuccessInv
    <3>3. CASE j # k
      BY <3>1, <3>3
    <3> QED BY <3>2, <3>3
  <2>2. ASSUME NEW j \in Jobs, World(j), ~Deliver(j)
        PROVE  delivery' \subseteq delivery
    BY <2>2 DEF World, HandleDelivery, RunStatusCallback, Lose, HeartbeatArrives, HeartbeatAges,
       CheckAges, SlurmStarts, WorkerCancelled, WorkerEnds, SlurmEnds, SlurmKills, Environment,
       vars, restVars
  <2>3. ASSUME NEW j \in Jobs, Submitting(j) \/ Cancelling(j)
        PROVE  delivery' = delivery
    BY <2>3 DEF Submitting, SubmitHeld, SubmitFails, StartTracking, Track, OpenTopic,
       SubscribeInternal, IndexTopic, RegisterInternal, SetupRaises, TrackFails, Acknowledged,
       Release, ReleaseFails, CancelHeld, FailSetup, Cancelling, CancelLookup, CancelRequest,
       CancelFails, CancelApply, CallApplyStatus, vars, restVars
  <2>4. Monitoring \/ StopMonitor \/ ShutdownTracker \/ UNCHANGED allVars => delivery' = delivery
    BY DEF Monitoring, MonitorScan, MonitorUnresolved, MonitorStops, MonitorBegin,
       MonitorResolves, MonitorApplies, MonitorDies, StopMonitor, ShutdownTracker, ShutdownClear,
       ShutdownRedis, ShutdownExecutor, allVars, vars, restVars
  <2> QED BY <2>1, <2>2, <2>3, <2>4 DEF ManagerNext, SuccessInv
\* What the monitor has read.
<1>5. outcome[k] # "ok" /\ monitor' = "applying" /\ k \in target' => verdict' # "finished"
  <2>1. ASSUME NEW j \in Jobs, MonitorResolves(j), outcome[k] # "ok", k \in target'
        PROVE  verdict' # "finished"
    <3>1. k = j
      BY <2>1 DEF MonitorResolves, SuccessInv
    <3>2. slurm[k] \in {"failed", "cancelled"} /\ verdict' = Verdict[slurm[k]]
      BY <2>1, <3>1 DEF MonitorResolves, SlurmEnded, SuccessInv
    <3> QED BY <3>2 DEF Verdict
  <2>2. Monitoring /\ (~\E j \in Jobs : MonitorResolves(j)) => monitor' # "applying"
    BY DEF Monitoring, MonitorScan, MonitorUnresolved, MonitorStops, MonitorBegin,
       MonitorApplies, MonitorDies, Resume
  <2>3. ASSUME NEW j \in Jobs, Submitting(j) \/ Cancelling(j)
        PROVE  UNCHANGED <<monitor, target, verdict>>
    BY <2>3 DEF Submitting, SubmitHeld, SubmitFails, StartTracking, OpenTopic, IndexTopic,
       SetupRaises, Acknowledged, Release, ReleaseFails, CancelHeld, FailSetup, Cancelling,
       CancelLookup, CancelRequest, CancelFails, CancelApply, mgrVars, monVars
  <2>4. ASSUME NEW j \in Jobs, World(j)
        PROVE  UNCHANGED <<monitor, target, verdict>>
    BY <2>4 DEF World, Deliver, HandleDelivery, Lose, HeartbeatArrives, HeartbeatAges, CheckAges,
       SlurmStarts, WorkerCancelled, WorkerEnds, SlurmEnds, SlurmKills, Environment, mgrVars,
       monVars
  <2>5. StopMonitor \/ ShutdownTracker \/ UNCHANGED allVars => UNCHANGED <<monitor, target, verdict>>
    BY DEF StopMonitor, ShutdownTracker, allVars, mgrVars, monVars
  <2> QED BY <2>1, <2>2, <2>3, <2>4, <2>5 DEF ManagerNext, SuccessInv
\* What reaches the future.
<1>6. outcome[k] # "ok" => status'[k] # "finished"
  <2> SUFFICES ASSUME outcome[k] # "ok"
               PROVE  status'[k] # "finished"
    OBVIOUS
  <2>1. ASSUME NEW j \in Jobs, NEW s, ApplyStatus(j, s), j = k => s # "finished"
        PROVE  status'[k] # "finished"
    <3>1. status' = status \/ status' = [status EXCEPT ![j] = s]
      BY <2>1 DEF ApplyStatus, ApplyReturns, ApplyRaises, lifeVars
    <3> QED BY <2>1, <3>1 DEF SuccessInv, ManagerTypeOK, TypeOK
  <2>2. ASSUME status' = status
        PROVE  status'[k] # "finished"
    BY <2>2 DEF SuccessInv
  <2>3. ASSUME NEW j \in Jobs, Submitting(j) \/ Cancelling(j)
        PROVE  status'[k] # "finished"
    <3>1. CASE FailSetup(j) \/ CancelApply(j)
      BY <2>1, <3>1 DEF FailSetup, CancelApply, CallApplyStatus
    <3> QED BY <2>2, <2>3, <3>1 DEF Submitting, SubmitHeld, SubmitFails, StartTracking, Track,
            OpenTopic, SubscribeInternal, IndexTopic, RegisterInternal, SetupRaises, TrackFails,
            Acknowledged, Release, ReleaseFails, CancelHeld, Cancelling, CancelLookup,
            CancelRequest, CancelFails, vars, lifeVars
  <2>4. ASSUME NEW j \in Jobs, World(j)
        PROVE  status'[k] # "finished"
    <3>1. CASE HandleDelivery(j)
      <4>1. PICK p \in Payloads : <<j, p>> \in delivery /\ ApplyStatus(j, Parse(p))
        BY <3>1 DEF HandleDelivery, RunStatusCallback
      <4>2. j = k => Parse(p) # "finished"
        BY <4>1 DEF Parse, SuccessInv
      <4> QED BY <2>1, <4>1, <4>2
    <3> QED BY <2>2, <2>4, <3>1 DEF World, Deliver, Receive, Lose, HeartbeatArrives, HeartbeatAges,
            CheckAges, SlurmStarts, WorkerCancelled, WorkerEnds, SlurmEnds, SlurmKills,
            Environment, vars, lifeVars
  <2>5. ASSUME NEW j \in Jobs, MonitorApplies(j) \/ MonitorDies(j)
        PROVE  status'[k] # "finished"
    <3>1. ApplyStatus(j, verdict) /\ monitor = "applying" /\ j \in target
      BY <2>5 DEF MonitorApplies, MonitorDies, ApplyStatus
    <3>2. j = k => verdict # "finished"
      BY <3>1 DEF SuccessInv
    <3> QED BY <2>1, <3>1, <3>2
  <2>6. Monitoring /\ (~\E j \in Jobs : MonitorApplies(j) \/ MonitorDies(j)) => status' = status
    BY DEF Monitoring, MonitorScan, MonitorUnresolved, MonitorStops, MonitorBegin,
       MonitorResolves, vars, lifeVars
  <2>7. StopMonitor \/ ShutdownTracker \/ UNCHANGED allVars => status' = status
    BY DEF StopMonitor, ShutdownTracker, ShutdownClear, ShutdownRedis, ShutdownExecutor,
       allVars, vars, lifeVars
  <2> QED BY <2>2, <2>3, <2>4, <2>5, <2>6, <2>7 DEF ManagerNext
<1> QED BY <1>2, <1>3, <1>4, <1>5, <1>6

\* All of it together.
FullInv == ManagerInv /\ ManagerTypeOK /\ SubmissionInv /\ SuccessInv

\* The manager with its whole environment, any number of jobs at once.
THEOREM FullInvariant == ManagerSpec => []FullInv
<1>1. ManagerInit => ManagerTypeOK /\ SubmissionInv /\ SuccessInv
  <2> SUFFICES ASSUME ManagerInit
               PROVE  ManagerTypeOK /\ SubmissionInv /\ SuccessInv
    OBVIOUS
  <2>1. TypeOK
    BY TrackerInit DEF ManagerInit, TrackerInv
  <2>2. net \in [Jobs -> Seq(Payloads)] /\ \A j \in Jobs : Len(net[j]) = 0
    BY DEF ManagerInit
  <2>3. ManagerTypeOK
    BY <2>1, <2>2 DEF ManagerInit, ManagerTypeOK, SubmitSteps, SlurmStates, Statuses
  <2>4. SubmissionInv
    BY DEF ManagerInit, Init, SubmissionInv
  <2>5. SuccessInv
    BY <2>2 DEF ManagerInit, Init, SuccessInv
  <2> QED BY <2>3, <2>4, <2>5
<1>2. ManagerInv /\ ManagerTypeOK /\ SubmissionInv /\ SuccessInv /\ [ManagerNext]_allVars
      => ManagerTypeOK' /\ SubmissionInv' /\ SuccessInv'
  BY ManagerTypeStep, SubmissionStep, SuccessStep
<1> QED BY <1>1, <1>2, ManagerInvariant, PTL DEF ManagerSpec, FullInv

\* The manager's state keeps its types.
THEOREM ManagerTypeCorrect == ManagerSpec => []ManagerTypeOK
<1>1. FullInv => ManagerTypeOK
  BY DEF FullInv
<1> QED BY <1>1, FullInvariant, PTL

\* A failed submission leaves no allocation behind that slurmrestd let it cancel:
\* see NoOrphanAllocation.
THEOREM NoOrphans == ManagerSpec => []NoOrphanAllocation
<1>1. FullInv => NoOrphanAllocation
  BY DEF FullInv, SubmissionInv, NoOrphanAllocation
<1> QED BY <1>1, FullInvariant, PTL

\* A failed submission leaves no pending future behind: see FailedSetupIsDone.
THEOREM FailedSetupEnds == ManagerSpec => []FailedSetupIsDone
<1>1. FullInv => FailedSetupIsDone
  BY DEF FullInv, SubmissionInv, FailedSetupIsDone
<1> QED BY <1>1, FullInvariant, PTL

\* No job is reported as finished whose workload did not succeed: see FinishedIsTrue.
THEOREM SuccessIsTrue == ManagerSpec => []FinishedIsTrue
<1>1. FullInv => FinishedIsTrue
  BY DEF FullInv, SuccessInv, FinishedIsTrue
<1> QED BY <1>1, FullInvariant, PTL

\* Slurm runs no job the manager does not listen to: see ReleasedIsMonitored.  The
\* order of submit_job gives a tracked job, MonitoringIntact its registrations.
THEOREM ReleasedJobsAreMonitored == ManagerSpec => []ReleasedIsMonitored
<1>1. MonitoringIntact /\ FullInv => ReleasedIsMonitored
  BY DEF FullInv, SubmissionInv, ReleasedIsMonitored, MonitoringIntact
<1> QED BY <1>1, FullInvariant, ManagerUsesTracker, MonitoringKept, PTL DEF UsesTracker

\* What users of the manager see of a job is the life JobLifecycle promises: the
\* two refinements compose.
THEOREM ManagerKeepsLifecycle == ManagerSpec => KeepsLifecycle
BY ManagerUsesTracker, TrackerImplementsLifecycle, PTL DEF UsesTracker

-----------------------------------------------------------------------------
(* SlurmRest: what the monitor makes of slurmrestd's answers.  Its variables *)
(* are those of one check, beside the state of the manager.                  *)

\* The Slurm job of the REST client as the manager's model sees it.
SlurmOf(t, e) ==
  CASE t = "COMPLETED" /\ e = "zero" -> "completed"
    [] t = "CANCELLED" -> "cancelled"
    [] t \in Live -> "running"
    [] OTHER -> "failed"

\* A record that slurmrestd may give resolves to nothing or to the truth.
LEMMA ResolveIsTrue ==
  ASSUME truth \in Live \cup Ends, exit \in Exits,
         truth = "COMPLETED" => exit # "signal",
         NEW r \in Records
  PROVE  /\ Resolve(r) \in {"unresolved", "finished", "cancelled", "error"}
         /\ Resolve(r) # "unresolved" =>
              truth \in Ends /\ Resolve(r) = Verdict[SlurmOf(truth, exit)]
         /\ truth \in Ends /\ IsComplete(r) => Resolve(r) # "unresolved"
<1> DEFINE names == r.state.names
           ended == {k \in DOMAIN names : names[k] \in TerminalStates}
           first == CHOOSE k \in ended : \A m \in ended : k <= m
           code  == ExitCode(r.exit_code)
<1>1. r.state \in StateForms(truth) /\ r.exit_code \in Reported(exit)
  BY DEF Records
<1>2. names \in {<<>>, <<truth>>, <<truth, "COMPLETING">>, <<"REQUEUED", truth>>}
  BY <1>1 DEF StateForms
<1>3. \A k \in DOMAIN names : names[k] \in {truth, "COMPLETING", "REQUEUED"}
  BY <1>2
<1>4. \A k \in ended : names[k] = truth /\ truth \in Ends
  BY <1>3 DEF TerminalStates, Live, Ends
<1>5. ended # {} => first \in ended
  <2>1. ended \subseteq 1..2
    BY <1>2
  <2>2. ended # {} => \E k \in ended : \A m \in ended : k <= m
    BY <2>1
  <2> QED BY <2>2
<1>6. code \in {"none", "zero", "nonzero", "signal"}
  BY <1>1 DEF Reported, Codes, ExitCode
<1>7. /\ code = "zero" => exit = "zero"
      /\ code = "nonzero" => exit # "zero"
      /\ code = "signal" => exit = "signal"
  BY <1>1 DEF Reported, Codes, ExitCode, Exits
<1>8. Resolve(r) =
        IF ended = {} THEN "unresolved"
        ELSE CASE names[first] = "CANCELLED" -> "cancelled"
               [] names[first] = "COMPLETED" /\ code = "zero" -> "finished"
               [] names[first] = "COMPLETED" /\ code = "none" -> "unresolved"
               [] OTHER -> "error"
  BY DEF Resolve
<1>11. ASSUME truth \in Ends, IsComplete(r)
       PROVE  ended # {} /\ (truth = "COMPLETED" => code # "none")
  <2>1. \E k \in DOMAIN names : names[k] = truth
    BY <1>1, <1>11 DEF StateForms, IsComplete
  <2>2. CarriesCode(r.exit_code) => code # "none"
    BY <1>1 DEF Reported, Codes, ExitCode, CarriesCode
  <2> QED BY <1>11, <2>1, <2>2 DEF Ends, TerminalStates, IsComplete
<1> HIDE DEF names, ended, first, code
<1>9. CASE ended = {}
  BY <1>8, <1>9, <1>11
<1>10. CASE ended # {}
  <2>1. names[first] = truth /\ truth \in Ends
    BY <1>4, <1>5, <1>10
  <2>2. Resolve(r) = CASE truth = "CANCELLED" -> "cancelled"
               [] truth = "COMPLETED" /\ code = "zero" -> "finished"
               [] truth = "COMPLETED" /\ code = "none" -> "unresolved"
               [] OTHER -> "error"
    BY <1>8, <1>10, <2>1
  <2> QED BY <1>6, <1>7, <1>11, <2>1, <2>2 DEF SlurmOf, Verdict, Ends, Live, Exits
<1> QED BY <1>9, <1>10

\* What get_job() may make of an answer of a service that knows the job, or does not.
Reading(known, a) ==
  \/ /\ GetJob(a) = Raised
     /\ a.body.kind = "object" => a.body.jobs = <<>>
  \/ /\ GetJob(a) # Raised /\ GetJob(a).jobs = <<>>
     /\ a.body.kind = "object" => a.body.jobs = <<>>
     /\ ~known \/ a \in [http : {200}, body : {NoBody, Body(<<>>, <<>>)}]
  \/ \E r \in Records :
       /\ a.body = Body(<<>>, <<r>>) /\ GetJob(a) = a.body
       /\ GetJob(a) # Raised

\* get_job() reads an answer as an error, as no record, or as the record in it; only
\* a service that does not know the job, or a 200 answer without record, is no record.
LEMMA AnswerIsRead ==
  ASSUME NEW known \in BOOLEAN, NEW a \in Answers(known)
  PROVE  Reading(known, a)
<1> DEFINE Told     == [http : {200},
                        body : {Body(<<>>, <<r>>) : r \in IF known THEN Records ELSE {}}]
           Unknown  == [http : {200, 400, 500},
                        body : {Body(<<2017>>, <<>>) : k \in IF known THEN {} ELSE {1}}]
           NotFound == [http : {404}, body : IF known THEN {} ELSE {NoBody}]
           Errors   == [http : {200, 400, 500},
                        body : {Body(<<2017, 1>>, <<>>), Body(<<1>>, <<>>)}]
           Failed   == [http : {0, 401, 500}, body : {NoBody}]
           Empty    == [http : {200},
                        body : {Body(<<>>, <<>>), NoBody, Garbled, Malformed}]
<1>1. ASSUME a \in Told PROVE Reading(known, a)
  <2>1. PICK r \in Records : a.http = 200 /\ a.body = Body(<<>>, <<r>>)
    <3>1. CASE known
      BY <1>1, <3>1
    <3>2. CASE ~known
      BY <1>1, <3>2
    <3> QED BY <3>1, <3>2
  <2> QED BY <2>1 DEF Reading, GetJob, Request, MissingJob, Raised, NoRecords, Body
<1>2. ASSUME a \in Unknown PROVE Reading(known, a)
  <2>1. ~known /\ a.http \in {200, 400, 500} /\ a.body = Body(<<2017>>, <<>>)
    <3>1. CASE known
      BY <1>2, <3>1
    <3>2. CASE ~known
      BY <1>2, <3>2
    <3> QED BY <3>1, <3>2
  <2> QED BY <2>1 DEF Reading, GetJob, Request, MissingJob, Raised, NoRecords, Body
<1>3. ASSUME a \in NotFound PROVE Reading(known, a)
  BY <1>3 DEF Reading, GetJob, Request, MissingJob, Raised, NoRecords, NoBody
<1>4. ASSUME a \in Errors PROVE Reading(known, a)
  BY <1>4 DEF Reading, GetJob, Request, MissingJob, Raised, NoRecords, Body
<1>5. ASSUME a \in Failed PROVE Reading(known, a)
  BY <1>5 DEF Reading, GetJob, Request, MissingJob, Raised, NoRecords, NoBody
<1>6. ASSUME a \in Empty PROVE Reading(known, a)
  <2>1. CASE a.body \in {Garbled, Malformed}
    BY <1>6, <2>1 DEF Reading, GetJob, Request, MissingJob, Raised, NoRecords, Garbled, Malformed
  <2>2. CASE a \in [http : {200}, body : {NoBody, Body(<<>>, <<>>)}]
    BY <2>2 DEF Reading, GetJob, Request, MissingJob, Raised, NoRecords, NoBody, Body
  <2> QED BY <1>6, <2>1, <2>2
<1>7. Answers(known) = Told \cup Unknown \cup NotFound \cup Errors \cup Failed \cup Empty
  BY Zenon DEF Answers
<1> HIDE DEF Told, Unknown, NotFound, Errors, Failed, Empty
<1> QED BY <1>1, <1>2, <1>3, <1>4, <1>5, <1>6, <1>7

\* What a check concludes is what MonitorResolves concludes from the job's state in
\* Slurm, and otherwise it concludes nothing, as in MonitorUnresolved.
ConcludesAsManager ==
  \/ conclusion = "unresolved"
  \/ SlurmOf(truth, exit) \in SlurmEnded /\ conclusion = Verdict[SlurmOf(truth, exit)]

\* The state of a check; a live job has no verdict and an accepted cancellation was
\* carried out.
RestInv ==
  /\ truth \in Live \cup Ends /\ exit \in Exits
  /\ truth = "COMPLETED" => exit # "signal"
  /\ purged \in BOOLEAN /\ killed \in BOOLEAN /\ accepted \in BOOLEAN
  /\ asking \in {"idle", "controller", "accounting"}
  /\ conclusion # "unresolved" => truth \in Ends
  /\ ConcludesAsManager
  /\ accepted => killed

\* An answer that is handled leaves a true verdict.
LEMMA HandleIsTrue ==
  ASSUME RestInv, NEW known \in BOOLEAN, NEW a \in Answers(known), NEW next,
         Handle(a, next)
  PROVE  /\ \/ conclusion' = "unresolved"
            \/ truth \in Ends /\ conclusion' = Verdict[SlurmOf(truth, exit)]
         /\ asking' \in {"idle", next}
         /\ asking' # "idle" => GetJob(a) # Raised /\ GetJob(a).jobs = <<>>
<1>1. CASE GetJob(a) = Raised
  BY <1>1 DEF Handle
<1>2. CASE GetJob(a) # Raised /\ GetJob(a).jobs = <<>>
  BY <1>2 DEF Handle
<1>3. CASE /\ GetJob(a) # Raised
           /\ \E r \in Records : a.body = Body(<<>>, <<r>>) /\ GetJob(a) = a.body
  <2>1. PICK r \in Records : a.body = Body(<<>>, <<r>>) /\ GetJob(a) = a.body
    BY <1>3
  <2>2. GetJob(a).jobs # <<>> /\ GetJob(a).jobs[1] = r
    BY <2>1 DEF Body
  <2>3. conclusion' = Resolve(r) /\ asking' = "idle"
    BY <1>3, <2>2 DEF Handle
  <2> QED BY <2>3, ResolveIsTrue DEF RestInv
<1> QED BY <1>1, <1>2, <1>3, AnswerIsRead DEF Reading

\* One step of the client, of the check or of Slurm.
LEMMA RestStep ==
  ASSUME RestInv, [RestNext]_checkVars
  PROVE  RestInv'
<1> USE DEF RestInv
<1>1. CASE Begin
  BY <1>1 DEF Begin, ConcludesAsManager
<1>2. CASE AskController
  <2>1. PICK a \in Answers(~purged) : Handle(a, "accounting")
    BY <1>2 DEF AskController
  <2>2. /\ \/ conclusion' = "unresolved"
           \/ truth \in Ends /\ conclusion' = Verdict[SlurmOf(truth, exit)]
        /\ asking' \in {"idle", "accounting"}
    BY <2>1, HandleIsTrue
  <2>3. UNCHANGED <<truth, exit, purged, killed, accepted>>
    BY <2>1 DEF Handle
  <2>4. truth \in Ends => SlurmOf(truth, exit) \in SlurmEnded
    BY DEF SlurmOf, SlurmEnded, Ends, Live, Exits
  <2> QED BY <2>2, <2>3, <2>4 DEF ConcludesAsManager, SlurmOf
<1>3. CASE AskAccounting
  <2> PICK known \in BOOLEAN : \E a \in Answers(known) : Handle(a, "idle")
    BY <1>3 DEF AskAccounting
  <2>1. PICK a \in Answers(known) : Handle(a, "idle")
    OBVIOUS
  <2>2. /\ \/ conclusion' = "unresolved"
           \/ truth \in Ends /\ conclusion' = Verdict[SlurmOf(truth, exit)]
        /\ asking' = "idle"
    BY <2>1, HandleIsTrue
  <2>3. UNCHANGED <<truth, exit, purged, killed, accepted>>
    BY <2>1 DEF Handle
  <2>4. truth \in Ends => SlurmOf(truth, exit) \in SlurmEnded
    BY DEF SlurmOf, SlurmEnded, Ends, Live, Exits
  <2> QED BY <2>2, <2>3, <2>4 DEF ConcludesAsManager, SlurmOf
<1>4. CASE Cancel
  <2>1. PICK a \in CarriedOut \cup Unanswered \cup Refused :
               /\ killed' \in IF a \in CarriedOut THEN {TRUE}
                             ELSE IF a \in Unanswered THEN {killed, TRUE} ELSE {killed}
               /\ accepted' = (Request(a, FALSE) # Raised)
    BY <1>4 DEF Cancel
  <2>2. UNCHANGED <<truth, exit, purged, asking, conclusion>>
    BY <1>4 DEF Cancel
  <2>3. accepted' = TRUE => killed' = TRUE
    <3>1. CASE a \in CarriedOut
      BY <2>1, <3>1
    <3>2. CASE a \in Unanswered \cup Refused
      <4>1. a.http # 200 \/ (a.body.kind = "object" /\ a.body.errors # <<>>)
        <5>1. CASE a \in Unanswered \/ a \in [http : {400, 401, 500}, body : {NoBody}]
          BY <5>1 DEF Unanswered
        <5>2. CASE a \in [http : {200, 500}, body : {Body(<<2017>>, <<>>), Body(<<1>>, <<>>)}]
          BY <5>2 DEF Body
        <5> QED BY <3>2, <5>1, <5>2 DEF Refused
      <4>2. Request(a, FALSE) = Raised
        BY <4>1 DEF Request
      <4> QED BY <2>1, <4>2
    <3> QED BY <2>1, <3>1, <3>2
  <2>4. killed' \in BOOLEAN /\ accepted' \in BOOLEAN
    BY <2>1
  <2> QED BY <2>2, <2>3, <2>4 DEF ConcludesAsManager, SlurmOf
<1>5. CASE JobStarts
  BY <1>5 DEF JobStarts, ConcludesAsManager, SlurmOf, SlurmEnded, Live, Ends
<1>6. CASE JobEnds
  <2>1. conclusion = "unresolved"
    BY <1>6 DEF JobEnds, Live, Ends
  <2> QED BY <1>6, <2>1 DEF JobEnds, ConcludesAsManager
<1>7. CASE JobPurged
  BY <1>7 DEF JobPurged, ConcludesAsManager, SlurmOf
<1>8. CASE UNCHANGED checkVars
  BY <1>8 DEF checkVars, ConcludesAsManager, SlurmOf
<1> QED BY <1>1, <1>2, <1>3, <1>4, <1>5, <1>6, <1>7, <1>8 DEF RestNext

\* The state of a check stays consistent with the job it is about.
THEOREM RestInvariant == RestSpec => []RestInv
<1>1. RestInit => RestInv
  BY DEF RestInit, RestInv, ConcludesAsManager, Live, Exits
<1>2. RestInv /\ [RestNext]_checkVars => RestInv'
  BY RestStep
<1> QED BY <1>1, <1>2, PTL DEF RestSpec

\* No answer, however partial, makes _check_slurm_job resolve a job wrongly, and
\* cancel() does not take a refusal for a cancellation.
THEOREM VerdictsAreTrue == RestSpec => []VerdictIsTrue
<1>1. RestInv => VerdictIsTrue
  BY DEF RestInv, ConcludesAsManager, VerdictIsTrue, SlurmOf, SlurmEnded, Verdict,
         Live, Ends
<1> QED BY <1>1, RestInvariant, PTL

\* SlurmManager's account of a query, MonitorResolves and MonitorUnresolved, covers
\* whatever _check_slurm_job makes of slurmrestd's answers.
THEOREM ChecksAreTheManagers == RestSpec => []ConcludesAsManager
<1>1. RestInv => ConcludesAsManager
  BY DEF RestInv
<1> QED BY <1>1, RestInvariant, PTL

\* A controller that fails is not taken for one that has forgotten the job: only the
\* latter sends get_job's question on to accounting.
THEOREM AccountingIsLast == RestSpec => AccountingIsFallback
<1>1. RestInv /\ [RestNext]_checkVars =>
        [(asking = "controller" /\ asking' = "accounting")
         => (reply' \in [http : {200}, body : {NoBody, Body(<<>>, <<>>)}] \/ purged)]_checkVars
  <2> SUFFICES ASSUME RestInv, RestNext, asking = "controller", asking' = "accounting", ~purged
               PROVE  reply' \in [http : {200}, body : {NoBody, Body(<<>>, <<>>)}]
    BY DEF checkVars
  <2>1. AskController
    BY DEF RestNext, Begin, AskAccounting, Cancel, JobStarts, JobEnds,
           JobPurged
  <2>2. PICK a \in Answers(TRUE) : Handle(a, "accounting")
    BY <2>1 DEF AskController, RestInv
  <2>3. GetJob(a) # Raised /\ GetJob(a).jobs = <<>> /\ reply' = a
    BY <2>2, HandleIsTrue DEF Handle
  <2>4. Reading(TRUE, a)
    BY AnswerIsRead
  <2>5. ASSUME NEW r \in Records, GetJob(a) = Body(<<>>, <<r>>) PROVE FALSE
    BY <2>3, <2>5 DEF Body
  <2> QED BY <2>3, <2>4, <2>5 DEF Reading
<1> QED BY <1>1, RestInvariant, PTL DEF RestSpec, AccountingIsFallback

\* A record with a terminal state and, of a completed job, an exit code settles the job
\* in that step, whether the code is a number or a structured status.
THEOREM CompleteRecordsResolve == RestSpec => CompleteRecordResolves
<1>1. RestInv /\ [RestNext]_checkVars =>
        [(asking # "idle" /\ asking' # asking /\ truth \in Ends /\ reply'.body.kind = "object")
         => \A k \in DOMAIN reply'.body.jobs :
              IsComplete(reply'.body.jobs[k]) => conclusion' # "unresolved"]_checkVars
  <2> SUFFICES ASSUME RestInv, RestNext, asking # "idle", asking' # asking, truth \in Ends,
                      reply'.body.kind = "object", NEW k \in DOMAIN reply'.body.jobs,
                      IsComplete(reply'.body.jobs[k])
               PROVE  conclusion' # "unresolved"
    BY DEF checkVars
  <2>1. AskController \/ AskAccounting
    <3>1. Begin \/ Cancel => asking = "idle"
      BY DEF Begin, Cancel
    <3>2. JobStarts \/ JobEnds \/ JobPurged => asking' = asking
      BY DEF JobStarts, JobEnds, JobPurged
    <3> QED BY <3>1, <3>2 DEF RestNext
  <2> PICK known \in BOOLEAN, next \in {"idle", "accounting"} :
              \E a \in Answers(known) : Handle(a, next)
    BY <2>1 DEF AskController, AskAccounting, RestInv
  <2>2. PICK a \in Answers(known) : Handle(a, next)
    OBVIOUS
  <2>3. reply' = a
    BY <2>2 DEF Handle
  <2>4. PICK r \in Records : a.body = Body(<<>>, <<r>>) /\ GetJob(a) = a.body
                                 /\ GetJob(a) # Raised
    <3>1. Reading(known, a)
      BY AnswerIsRead
    <3>2. a.body.kind = "object" /\ a.body.jobs # <<>>
      BY <2>3
    <3> QED BY <3>1, <3>2 DEF Reading
  <2>5. a.body.jobs = <<r>> /\ k = 1 /\ IsComplete(r)
    BY <2>3, <2>4 DEF Body
  <2>6. conclusion' = Resolve(r)
    BY <2>2, <2>4, <2>5 DEF Handle
  <2> QED BY <2>5, <2>6, ResolveIsTrue DEF RestInv
<1> QED BY <1>1, RestInvariant, PTL DEF RestSpec, CompleteRecordResolves
=============================================================================
