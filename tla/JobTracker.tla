----------------------------- MODULE JobTracker -----------------------------
(***************************************************************************)
(* JobTracker (slurm_manager/job_tracker.py) with the JobFuture objects it *)
(* owns and the callback table of the RedisSubClient it drives.            *)
(*                                                                         *)
(* Every operation that runs under the tracker's RLock is one action.      *)
(* Operations that leave the lock (track, add_subscription, the Redis      *)
(* listener's dispatch, shutdown) are split where they leave it, so that   *)
(* any other thread may run in between.  The callers are the most general  *)
(* ones: any thread may cancel, resolve, listen, unlisten or shut down at  *)
(* any moment at which it can know the identifiers it needs, and Redis may *)
(* deliver any message at any time.                                        *)
(***************************************************************************)
EXTENDS Naturals

CONSTANTS
  Jobs,          \* manager job identifiers (uuid4)
  UserIds,       \* one identifier per call of JobFuture.listen
  GlobalIds,     \* one identifier per manager-wide listen (job_id=None)
  ListenTopic,   \* the topic each listen call asks for
  GlobalEvent,   \* the event each manager-wide registration asks for
  Payloads,      \* status payloads that may arrive on a status topic
  RedisCanFail   \* may a SUBSCRIBE or UNSUBSCRIBE raise RedisError?

Events   == {"heartbeat", "status", "log"}
Statuses == {"pending", "running", "finished", "error", "cancelled"}
Terminal == {"finished", "error", "cancelled"}

\* TopicInfo(job).topic(event), and the registrations on topics.  The manager's
\* own registration on a topic is identified with the topic.
Topics       == Jobs \X Events
SubIds       == Topics \cup UserIds
Listeners    == UserIds \cup GlobalIds
TopicOf(i)   == IF i \in UserIds THEN ListenTopic[i] ELSE i
JobTopics(j) == {j} \X Events

ASSUME TrackerAssumption ==
  /\ ListenTopic \in [UserIds -> Topics]
  /\ GlobalEvent \in [GlobalIds -> Events]
  /\ UserIds \cap Topics = {}
  /\ UserIds \cap GlobalIds = {}
  /\ RedisCanFail \in BOOLEAN

VARIABLES
  status,     \* JobFuture._status; terminal iff the inner Future is done
  stage,      \* progress of track(): the topic being subscribed, or its outcome
  opened,     \* jobs whose track() has subscribed the topic but not indexed it
  registry,   \* keys of _future_registry
  active,     \* topics in _active_subscriptions
  byTopic,    \* registrations in _subscriptions_by_topic
  byId,       \* keys of _topic_by_subscription_id
  redis,      \* registrations held by the RedisSubClient
  adding,     \* progress of each listen call
  globals,    \* keys of _global_callbacks
  delivery,   \* status message whose internal callback the listener has yet to run
  phase,      \* progress of shutdown()
  notices,    \* history: terminal statuses queued per listener and job
  late,       \* history: jobs cleaned up while track() was still running
  leaked,     \* history: jobs whose cleanup was cut short by an exception
  withdrawn   \* history: registrations removed on request, not by completion

lifeVars == <<status, notices, registry, active, byTopic, byId, redis, late, leaked>>
restVars == <<stage, opened, adding, globals, delivery, phase, withdrawn>>
vars     == <<lifeVars, restVars>>

Stages == {"untracked", "ready", "failed"} \cup Events
Phases == {"open", "cleared", "disconnected", "closed"}
Calls  == {"unused", "checked", "subscribed", "registered", "refused"}

TypeOK ==
  /\ status \in [Jobs -> Statuses]
  /\ stage \in [Jobs -> Stages]
  /\ opened \subseteq Jobs
  /\ registry \subseteq Jobs
  /\ active \subseteq Topics
  /\ byTopic \subseteq SubIds
  /\ byId \subseteq SubIds
  /\ redis \subseteq SubIds
  /\ adding \in [UserIds -> Calls]
  /\ globals \subseteq GlobalIds
  /\ delivery \subseteq Jobs \X Payloads
  /\ phase \in Phases
  /\ notices \in [Listeners \X Jobs -> Nat]
  /\ late \subseteq Jobs
  /\ leaked \subseteq Jobs
  /\ withdrawn \subseteq SubIds

Init ==
  /\ status = [j \in Jobs |-> "pending"]
  /\ stage = [j \in Jobs |-> "untracked"]
  /\ opened = {}
  /\ registry = {}
  /\ active = {}
  /\ byTopic = {}
  /\ byId = {}
  /\ redis = {}
  /\ adding = [i \in UserIds |-> "unused"]
  /\ globals = {}
  /\ delivery = {}
  /\ phase = "open"
  /\ notices = [p \in Listeners \X Jobs |-> 0]
  /\ late = {}
  /\ leaked = {}
  /\ withdrawn = {}

Done(j) == status[j] \in Terminal

On(ids, T) == {i \in ids : TopicOf(i) \in T}

-----------------------------------------------------------------------------
(* Applying a status and cleaning up: the handler every path ends in. *)

\* JobStatus(info[0]); an unknown status is turned into an error.
Parse(p) == IF p \in Statuses THEN p ELSE "error"

\* Callbacks that apply_status queues for a job: the ones indexed under its
\* status topic, and the manager-wide ones for status messages.
StatusListeners(j) ==
  On(byTopic \cap UserIds, {<<j, "status">>})
    \cup {g \in globals : GlobalEvent[g] = "status"}

\* Every listener gets the message as a task of the executor.
Notify(j) ==
  notices' = [p \in Listeners \X Jobs |->
                IF p[2] = j /\ p[1] \in StatusListeners(j)
                THEN notices[p] + 1 ELSE notices[p]]

\* ThreadPoolExecutor.submit raises once the executor has been shut down.
ExecutorRefuses(j) == phase = "closed" /\ StatusListeners(j) # {}

\* Fault: the per-identifier lookup is not pruned.
DropTopicsKeepIds(T) ==
  /\ byTopic' = byTopic \ On(byTopic, T)
  /\ redis' = redis \ On(redis, T)
  /\ UNCHANGED byId

\* Fault: topics are matched by their event and not by their job.
DropTopicsByEvent(T) ==
  LET gone(ids) == {i \in ids : \E t \in T : TopicOf(i)[2] = t[2]}
  IN  /\ byTopic' = byTopic \ gone(byTopic)
      /\ byId' = byId \ gone(byTopic)
      /\ redis' = redis \ gone(redis)

\* The loop over topics: forget each topic's registrations in the tracker, then
\* let the client forget the topic, whoever registered on it.
DropTopics(T) ==
  /\ byTopic' = byTopic \ On(byTopic, T)
  /\ byId' = byId \ On(byTopic, T)
  /\ redis' = redis \ On(redis, T)

\* The removing half of remove_subscriptions_for_job, when every call succeeds.
Cleanup(j) ==
  LET mine == active \cap JobTopics(j)
  IN  /\ DropTopics(mine)
      /\ active' = active \ mine
      /\ registry' = registry \ {j}
      /\ late' = IF stage[j] \in Events THEN late \cup {j} ELSE late
      /\ UNCHANGED leaked

\* The same when UNSUBSCRIBE raises RedisError at one of the topics: the job's
\* topic set is already popped, the topics after the failing one are not
\* visited, and the future stays in the registry.
CleanupRaises(j) ==
  /\ RedisCanFail
  /\ \E T \in SUBSET (active \cap JobTopics(j)) :
       /\ On(redis, T) # {}
       /\ DropTopics(T)
  /\ active' = active \ JobTopics(j)
  /\ leaked' = leaked \cup {j}
  /\ UNCHANGED <<registry, late>>

\* Fault: a status arriving after completion is applied again.
ApplyAgain(j, s) ==
  /\ ~ExecutorRefuses(j)
  /\ status' = [status EXCEPT ![j] = s]
  /\ IF s \in Terminal
     THEN Notify(j) /\ Cleanup(j)
     ELSE UNCHANGED <<notices, registry, active, byTopic, byId, redis, late, leaked>>

\* apply_status returning normally.
ApplyReturns(j, s) ==
  IF Done(j) THEN UNCHANGED lifeVars
  ELSE /\ ~ExecutorRefuses(j)
       /\ status' = [status EXCEPT ![j] = s]
       /\ IF s \in Terminal
          THEN Notify(j) /\ Cleanup(j)
          ELSE UNCHANGED <<notices, registry, active, byTopic, byId, redis, late, leaked>>

\* apply_status leaving by an exception: the status has been applied, and
\* either no listener is told and nothing is cleaned up, or the cleanup raises.
ApplyRaises(j, s) ==
  /\ ~Done(j)
  /\ status' = [status EXCEPT ![j] = s]
  /\ IF ExecutorRefuses(j)
     THEN /\ leaked' = IF s \in Terminal THEN leaked \cup {j} ELSE leaked
          /\ UNCHANGED <<notices, registry, active, byTopic, byId, redis, late>>
     ELSE s \in Terminal /\ Notify(j) /\ CleanupRaises(j)

ApplyStatus(j, s) == ApplyReturns(j, s) \/ ApplyRaises(j, s)

\* Callers other than the Redis listener: the heartbeat monitor (once the
\* heartbeat topic is indexed), cancel_job, and submit_job after a failed setup.
CallApplyStatus(j, s) ==
  /\ stage[j] \in {"status", "log", "ready", "failed"}
  /\ ApplyStatus(j, s)
  /\ UNCHANGED restVars

-----------------------------------------------------------------------------
(* track(): register the future, then subscribe and index the three internal *)
(* topics in turn, each subscription outside the tracker's lock.             *)

After == [heartbeat |-> "status", status |-> "log", log |-> "ready"]

Track(j) ==
  /\ stage[j] = "untracked"
  /\ stage' = [stage EXCEPT ![j] = "heartbeat"]
  /\ registry' = registry \cup {j}
  /\ UNCHANGED <<status, notices, active, byTopic, byId, redis, late, leaked>>
  /\ UNCHANGED <<opened, adding, globals, delivery, phase, withdrawn>>

SubscribeInternal(j) ==
  /\ stage[j] \in Events /\ j \notin opened
  /\ redis' = redis \cup {<<j, stage[j]>>}
  /\ opened' = opened \cup {j}
  /\ UNCHANGED <<status, notices, registry, active, byTopic, byId, late, leaked>>
  /\ UNCHANGED <<stage, adding, globals, delivery, phase, withdrawn>>

\* _register_subscription_for_job: nothing checks that the job is still tracked.
RegisterInternal(j) ==
  LET t == <<j, stage[j]>>
  IN  /\ stage[j] \in Events /\ j \in opened
      /\ byTopic' = byTopic \cup {t}
      /\ byId' = byId \cup {t}
      /\ active' = active \cup {t}
      /\ opened' = opened \ {j}
      /\ stage' = [stage EXCEPT ![j] = After[stage[j]]]
      /\ UNCHANGED <<status, notices, registry, redis, late, leaked>>
      /\ UNCHANGED <<adding, globals, delivery, phase, withdrawn>>

\* SUBSCRIBE raises: no callback is stored, and track() ends with the error.
TrackFails(j) ==
  /\ RedisCanFail
  /\ stage[j] \in Events /\ j \notin opened
  /\ On(redis, {<<j, stage[j]>>}) = {}
  /\ stage' = [stage EXCEPT ![j] = "failed"]
  /\ UNCHANGED lifeVars
  /\ UNCHANGED <<opened, adding, globals, delivery, phase, withdrawn>>

-----------------------------------------------------------------------------
(* add_subscription(): check under the lock, subscribe outside it, then      *)
(* validate and index under the lock.                                        *)

JobOf(i) == TopicOf(i)[1]

Tracked(j) == j \in registry /\ ~Done(j)

BeginListen(i) ==
  /\ adding[i] = "unused" /\ stage[JobOf(i)] = "ready"
  /\ adding' = [adding EXCEPT ![i] = IF Tracked(JobOf(i)) THEN "checked" ELSE "refused"]
  /\ UNCHANGED lifeVars
  /\ UNCHANGED <<stage, opened, globals, delivery, phase, withdrawn>>

SubscribeUser(i) ==
  /\ adding[i] = "checked"
  /\ redis' = redis \cup {i}
  /\ adding' = [adding EXCEPT ![i] = "subscribed"]
  /\ UNCHANGED <<status, notices, registry, active, byTopic, byId, late, leaked>>
  /\ UNCHANGED <<stage, opened, globals, delivery, phase, withdrawn>>

\* Only the first callback on a topic sends SUBSCRIBE, so only it can raise.
SubscribeUserFails(i) ==
  /\ RedisCanFail
  /\ adding[i] = "checked"
  /\ On(redis, {TopicOf(i)}) = {}
  /\ adding' = [adding EXCEPT ![i] = "refused"]
  /\ UNCHANGED lifeVars
  /\ UNCHANGED <<stage, opened, globals, delivery, phase, withdrawn>>

\* Fault: the job is not looked up again after the Redis call.
FinishListenUnchecked(i) ==
  /\ adding[i] = "subscribed"
  /\ byTopic' = byTopic \cup {i}
  /\ byId' = byId \cup {i}
  /\ active' = active \cup {TopicOf(i)}
  /\ adding' = [adding EXCEPT ![i] = "registered"]
  /\ UNCHANGED <<redis, status, notices, registry, late, leaked>>
  /\ UNCHANGED <<stage, opened, globals, delivery, phase, withdrawn>>

FinishListen(i) ==
  /\ adding[i] = "subscribed"
  /\ IF Tracked(JobOf(i))
     THEN /\ byTopic' = byTopic \cup {i}
          /\ byId' = byId \cup {i}
          /\ active' = active \cup {TopicOf(i)}
          /\ adding' = [adding EXCEPT ![i] = "registered"]
          /\ UNCHANGED redis
     ELSE /\ redis' = redis \ {i}
          /\ adding' = [adding EXCEPT ![i] = "refused"]
          /\ UNCHANGED <<byTopic, byId, active>>
  /\ UNCHANGED <<status, notices, registry, late, leaked>>
  /\ UNCHANGED <<stage, opened, globals, delivery, phase, withdrawn>>

\* listen(job_id=None) only records the callback.
ListenGlobal(g) ==
  /\ globals' = globals \cup {g}
  /\ UNCHANGED lifeVars
  /\ UNCHANGED <<stage, opened, adding, delivery, phase, withdrawn>>

-----------------------------------------------------------------------------
(* Removal on request. *)

UnlistenGlobal(g) ==
  /\ g \in globals
  /\ globals' = globals \ {g}
  /\ UNCHANGED lifeVars
  /\ UNCHANGED <<stage, opened, adding, delivery, phase, withdrawn>>

\* Fault: the job gives up the topic although others still listen on it.
RemoveByIdGivesUpTopic(i) ==
  /\ adding[i] = "registered" /\ i \in byId
  /\ byId' = byId \ {i}
  /\ byTopic' = byTopic \ {i}
  /\ redis' = redis \ {i}
  /\ active' = active \ {TopicOf(i)}
  /\ withdrawn' = withdrawn \cup {i}
  /\ UNCHANGED <<status, notices, registry, late, leaked>>
  /\ UNCHANGED <<stage, opened, adding, globals, delivery, phase>>

\* remove_subscription_by_id with an identifier that listen returned.  The topic
\* stays the job's as long as another registration owns it.  When the client's
\* UNSUBSCRIBE raises, the tail that discards the topic is not reached.
RemoveById(i) ==
  LET rest == On(byTopic, {TopicOf(i)}) \ {i}
  IN  /\ adding[i] = "registered" /\ i \in byId
      /\ byId' = byId \ {i}
      /\ byTopic' = byTopic \ {i}
      /\ redis' = redis \ {i}
      /\ \/ active' = IF rest = {} /\ i \in byTopic THEN active \ {TopicOf(i)} ELSE active
         \/ RedisCanFail /\ On(redis, {TopicOf(i)}) = {i} /\ UNCHANGED active
      /\ withdrawn' = withdrawn \cup {i}
      /\ UNCHANGED <<status, notices, registry, late, leaked>>
      /\ UNCHANGED <<stage, opened, adding, globals, delivery, phase>>

\* remove_subscription_by_topic: also the manager's own registration goes.
RemoveByTopic(t) ==
  /\ stage[t[1]] = "ready"
  /\ DropTopics({t})
  /\ active' = IF On(byTopic, {t}) = {} THEN active ELSE active \ {t}
  /\ withdrawn' = withdrawn \cup On(byTopic \cup redis, {t})
  /\ UNCHANGED <<status, notices, registry, late, leaked>>
  /\ UNCHANGED <<stage, opened, adding, globals, delivery, phase>>

\* remove_subscriptions_for_job: an unfinished future fails first, unless the
\* caller asked for monitoring to be dropped silently.
RemoveJob(j, skip) ==
  /\ stage[j] = "ready"
  /\ IF Tracked(j) /\ ~skip
     THEN ApplyStatus(j, "error") /\ UNCHANGED withdrawn
     ELSE /\ Cleanup(j) \/ CleanupRaises(j)
          /\ withdrawn' = withdrawn \cup On(byTopic \cup redis, JobTopics(j))
          /\ UNCHANGED <<status, notices>>
  /\ UNCHANGED <<stage, opened, adding, globals, delivery, phase>>

-----------------------------------------------------------------------------
(* The Redis listener thread.  It copies the callbacks of a topic under the  *)
(* client's lock and runs them after releasing it.  Of the callbacks on a    *)
(* status topic only the manager's own changes the tracker.                  *)

Receive(j, p) ==
  /\ delivery = {}
  /\ <<j, "status">> \in redis
  /\ delivery' = {<<j, p>>}
  /\ UNCHANGED lifeVars
  /\ UNCHANGED <<stage, opened, adding, globals, phase, withdrawn>>

\* Exceptions of apply_status are logged and swallowed.
RunStatusCallback(j, p) ==
  /\ <<j, p>> \in delivery
  /\ delivery' = {}
  /\ ApplyStatus(j, Parse(p))
  /\ UNCHANGED <<stage, opened, adding, globals, phase, withdrawn>>

-----------------------------------------------------------------------------
(* shutdown(): three steps, of which only the first holds the lock.  Other   *)
(* threads may call in between, and afterwards.                              *)

ShutdownClear ==
  /\ phase = "open"
  /\ phase' = "cleared"
  /\ globals' = {}
  /\ byTopic' = {}
  /\ byId' = {}
  /\ UNCHANGED <<status, notices, registry, active, redis, late, leaked>>
  /\ UNCHANGED <<stage, opened, adding, delivery, withdrawn>>

ShutdownRedis ==
  /\ phase = "cleared"
  /\ phase' = "disconnected"
  /\ redis' = {}
  /\ UNCHANGED <<status, notices, registry, active, byTopic, byId, late, leaked>>
  /\ UNCHANGED <<stage, opened, adding, globals, delivery, withdrawn>>

ShutdownExecutor ==
  /\ phase = "disconnected"
  /\ phase' = "closed"
  /\ UNCHANGED lifeVars
  /\ UNCHANGED <<stage, opened, adding, globals, delivery, withdrawn>>

-----------------------------------------------------------------------------
JobStep(j) ==
  \/ Track(j) \/ SubscribeInternal(j) \/ RegisterInternal(j) \/ TrackFails(j)
  \/ \E s \in Terminal : CallApplyStatus(j, s)
  \/ \E skip \in BOOLEAN : RemoveJob(j, skip)
  \/ \E p \in Payloads : Receive(j, p) \/ RunStatusCallback(j, p)

UserStep(i) ==
  BeginListen(i) \/ SubscribeUser(i) \/ SubscribeUserFails(i) \/ FinishListen(i) \/ RemoveById(i)

Next ==
  \/ \E j \in Jobs : JobStep(j)
  \/ \E i \in UserIds : UserStep(i)
  \/ \E g \in GlobalIds : ListenGlobal(g) \/ UnlistenGlobal(g)
  \/ \E t \in Topics : RemoveByTopic(t)
  \/ ShutdownClear \/ ShutdownRedis \/ ShutdownExecutor

Spec == Init /\ [][Next]_vars
-----------------------------------------------------------------------------
(* Properties. *)

\* The two lookups of the tracker never disagree, whatever mixture of per-id,
\* per-topic and per-job removal interrupted by Redis errors has run
\* (_subscriptions_by_topic against _topic_by_subscription_id).
IndexesAgree == byTopic = byId

\* Every indexed registration is reachable from its job's topic set, the only
\* thing remove_subscriptions_for_job walks; otherwise it could never be
\* cleaned up.  A cleanup that Redis interrupted is the one exception.
CleanupReaches ==
  \A i \in byTopic : JobOf(i) \notin leaked => TopicOf(i) \in active

\* Once a job has left the registry nothing of it is left behind in the tracker
\* or in the Redis client, except what a listen call in flight is about to take
\* back.  Exempt are the jobs removed while track() was still adding topics and
\* those whose cleanup raised; apply_status promises no less for them, and they do
\* leave registrations behind.
UntrackedIsClean ==
  \A j \in Jobs :
    phase = "open" /\ stage[j] \in {"ready", "failed"}
      /\ j \notin registry \cup late \cup leaked
    => /\ active \cap JobTopics(j) = {}
       /\ On(byTopic, JobTopics(j)) = {}
       /\ \A i \in On(redis, JobTopics(j)) : i \in UserIds /\ adding[i] = "subscribed"

\* A completed job has left the registry, whichever of the worker, the monitor,
\* a cancellation or a removal completed it (apply_status then cleans up).
DoneIsUntracked ==
  \A j \in Jobs : Done(j) /\ j \notin leaked => j \notin registry

\* While the manager is open, a callback the tracker lists as registered really
\* is installed in the Redis client, unless its removal was requested.
RegisteredIsLive ==
  phase = "open" => \A i \in byTopic \ withdrawn : i \in redis

\* Whatever users listen to and unlisten from, a job that is still tracked and
\* unfinished keeps its own heartbeat, status and log registrations, unless
\* removal of that very topic was requested.
MonitoringIntact ==
  \A j \in registry :
    phase = "open" /\ stage[j] = "ready" /\ ~Done(j)
    => JobTopics(j) \ withdrawn \subseteq active \cap byTopic \cap redis

\* A status listener is told of a job's completion at most once, and never
\* before it, although worker, monitor and cancellation may all report it.
ToldOnce ==
  \A p \in Listeners \X Jobs : notices[p] <= (IF Done(p[2]) THEN 1 ELSE 0)

\* No lost completion: if listen("status") returned an identifier and nobody
\* asked for its removal, its callback is queued by the time the job is done,
\* however registration and completion were interleaved.
CompletionTold ==
  \A i \in UserIds \ withdrawn :
    phase = "open" /\ adding[i] = "registered" /\ TopicOf(i)[2] = "status" /\ Done(JobOf(i))
    => notices[<<i, JobOf(i)>>] = 1

\* The first terminal status wins: a late report changes neither the status of a
\* finished job nor what its listeners were told (the done() test of apply_status).
TerminalStable ==
  [][\A j \in Jobs : Done(j) =>
       /\ status'[j] = status[j]
       /\ \A l \in Listeners : notices'[<<l, j>>] = notices[<<l, j>>]]_vars

\* Whatever threads report a job's progress and its end, in whatever order, a
\* user sees the life of a job JobLifecycle describes: apply_status is the only
\* way to change a status, it changes nothing of a job that has ended, and whoever
\* it tells of the end is told once, in the step in which the future completes.
\* That no listener is passed over is CompletionTold.
Lifecycle == INSTANCE JobLifecycle WITH state <- status, told <- notices

KeepsLifecycle == Lifecycle!Spec

\* Removing registrations of one job never disturbs another job: outside
\* shutdown, the registrations lost in a step all belong to one job.
JobsAreIsolated ==
  [][phase' = phase =>
       \A i, k \in (byTopic \ byTopic') \cup (redis \ redis') : JobOf(i) = JobOf(k)]_vars

-----------------------------------------------------------------------------
(* What makes the properties inductive. *)

\* Topics that track() has already left behind.
Passed(j, e) ==
  \/ stage[j] = "ready"
  \/ <<e, stage[j]>> \in {<<"heartbeat", "status">>, <<"heartbeat", "log">>, <<"status", "log">>}

\* Nothing is known of a job before track().
UntrackedIsFresh ==
  \A j \in Jobs : stage[j] = "untracked" =>
    /\ status[j] = "pending"
    /\ \A e \in Events : <<j, e>> \notin active \cup byTopic \cup redis
    /\ \A p \in Payloads : <<j, p>> \notin delivery

\* track() has the current topic in the client before it indexes it ...
CurrentIsOpen ==
  \A j \in opened :
    /\ stage[j] \in Events
    /\ phase = "open" => <<j, stage[j]>> \in redis

\* ... and has neither it nor a later one in the indexes.
IndexedInOrder ==
  \A j \in Jobs, e \in Events :
    stage[j] \in Events /\ <<j, e>> \in active => Passed(j, e)

\* A job that loses its registry entry while track() runs is recorded as late.
LateIsRecorded ==
  \A j \in Jobs \ registry : stage[j] \in Events => j \in late

\* A listen call's identifier is only where the call has put it.
ListenInOrder ==
  \A i \in UserIds :
    /\ adding[i] # "unused" => stage[JobOf(i)] = "ready"
    /\ i \in redis => adding[i] \in {"subscribed", "registered"}
    /\ i \in byTopic => adding[i] = "registered"
    /\ phase = "open" /\ i \notin withdrawn /\ ~Done(JobOf(i))
       => /\ adding[i] = "subscribed" /\ JobOf(i) \in registry => i \in redis
          /\ adding[i] = "registered" => i \in byTopic

\* The client holds nothing the tracker does not know or is not about to index.
RedisCovered ==
  phase = "open" =>
    \A i \in redis :
      \/ JobOf(i) \in leaked
      \/ i \in byTopic
      \/ i \in UserIds /\ adding[i] = "subscribed"
      \/ i \notin UserIds /\ JobOf(i) \in opened /\ i = <<JobOf(i), stage[JobOf(i)]>>

\* A job that has left the registry owns no topic.
UntrackedOwnsNothing ==
  \A j \in Jobs :
    stage[j] \in {"ready", "failed"} /\ j \notin registry \cup late \cup leaked
    => active \cap JobTopics(j) = {}

\* MonitoringIntact for the topics track() has left behind.
PassedIsMonitored ==
  \A j \in registry : \A e \in Events :
    phase = "open" /\ ~Done(j) /\ Passed(j, e) /\ <<j, e>> \notin withdrawn
    => <<j, e>> \in active \cap byTopic

\* The inductive invariant: every interleaving of the tracker's callers keeps
\* the indexes, the client and the progress of each call in step.
TrackerInv ==
  /\ TypeOK
  /\ IndexesAgree
  /\ CleanupReaches
  /\ DoneIsUntracked
  /\ RegisteredIsLive
  /\ ToldOnce
  /\ CompletionTold
  /\ UntrackedIsFresh
  /\ CurrentIsOpen
  /\ IndexedInOrder
  /\ LateIsRecorded
  /\ ListenInOrder
  /\ RedisCovered
  /\ UntrackedOwnsNothing
  /\ PassedIsMonitored

=============================================================================
