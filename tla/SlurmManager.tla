---------------------------- MODULE SlurmManager ----------------------------
(***************************************************************************)
(* SlurmManager (slurm_manager/slurm_manager.py) over the JobTracker: job  *)
(* submission, cancellation, the heartbeat monitor thread and shutdown,    *)
(* with the Slurm controller behind slurmrestd, the worker on the compute  *)
(* node and its lossy Redis messages as environment.                       *)
(*                                                                         *)
(* Time is abstracted to what the monitor tests: whether a job's last      *)
(* heartbeat, and its last scheduler check, are more than                  *)
(* HEARTBEAT_TIMEOUT ago.                                                  *)
(***************************************************************************)
EXTENDS JobTracker, Sequences

VARIABLES
  submit,     \* progress of submit_job
  cancel,     \* progress of cancel_job
  slurm,      \* external: the controller's state of each job
  outcome,    \* external: how the workload ended
  net,        \* external: status messages published and not yet delivered
  quiet,      \* jobs whose last_heartbeat is too long ago
  due,        \* jobs whose last_scheduler_check is unset or too long ago
  monitor,    \* the heartbeat monitor thread
  missing,    \* jobs it has still to check in this round
  target,     \* the job it is checking
  verdict,    \* the status it is about to apply
  stop,       \* _stop_heartbeat_thread
  excused     \* history: jobs for which slurmrestd failed a submission or cancellation

envVars  == <<slurm, outcome, net>>
monVars  == <<monitor, missing, target, verdict>>
timeVars == <<quiet, due>>
mgrVars  == <<submit, cancel, envVars, timeVars, monVars, stop, excused>>
allVars  == <<vars, mgrVars>>

\* Redis may carry what the worker publishes.
ASSUME WorkerAssumption == {"running", "finished", "error", "cancelled"} \subseteq Payloads

SubmitSteps == {"idle", "held", "tracking", "acked", "returned", "failing", "cleaning", "raised"}
SlurmStates == {"absent", "held", "pending", "running", "completed", "failed", "cancelled"}
SlurmEnded  == {"completed", "failed", "cancelled"}

ManagerTypeOK ==
  /\ TypeOK
  /\ submit \in [Jobs -> SubmitSteps]
  /\ cancel \in [Jobs -> {"idle", "found", "unknown", "accepted"}]
  /\ slurm \in [Jobs -> SlurmStates]
  /\ outcome \in [Jobs -> {"none", "working", "ok", "bad"}]
  /\ net \in [Jobs -> Seq(Payloads)]
  /\ quiet \subseteq Jobs /\ due \subseteq Jobs
  /\ monitor \in {"waiting", "looping", "querying", "applying", "stopped", "dead"}
  /\ missing \subseteq Jobs /\ target \subseteq Jobs
  /\ verdict \in Statuses
  /\ stop \in BOOLEAN
  /\ excused \subseteq Jobs

ManagerInit ==
  /\ Init
  /\ submit = [j \in Jobs |-> "idle"]
  /\ cancel = [j \in Jobs |-> "idle"]
  /\ slurm = [j \in Jobs |-> "absent"]
  /\ outcome = [j \in Jobs |-> "none"]
  /\ net = [j \in Jobs |-> <<>>]
  /\ quiet = {} /\ due = Jobs
  /\ monitor = "waiting" /\ missing = {} /\ target = {} /\ verdict = "pending"
  /\ stop = FALSE
  /\ excused = {}

-----------------------------------------------------------------------------
(* submit_job: hold, track, wait for the acknowledgements, release. *)

\* rest_client.submit with "hold".
SubmitHeld(j) ==
  /\ submit[j] = "idle"
  /\ submit' = [submit EXCEPT ![j] = "held"]
  /\ slurm' = [slurm EXCEPT ![j] = "held"]
  /\ UNCHANGED <<vars, cancel, outcome, net, timeVars, monVars, stop, excused>>

\* The request fails; Slurm may have accepted the job all the same.
SubmitFails(j) ==
  /\ submit[j] = "idle"
  /\ submit' = [submit EXCEPT ![j] = "raised"]
  /\ slurm' \in {slurm, [slurm EXCEPT ![j] = "held"]}
  /\ excused' = excused \cup {j}
  /\ UNCHANGED <<vars, cancel, outcome, net, timeVars, monVars, stop>>

StartTracking(j) ==
  /\ submit[j] = "held"
  /\ Track(j)
  /\ submit' = [submit EXCEPT ![j] = "tracking"]
  /\ UNCHANGED <<cancel, envVars, timeVars, monVars, stop, excused>>

OpenTopic(j) ==
  /\ submit[j] = "tracking"
  /\ SubscribeInternal(j)
  /\ UNCHANGED mgrVars

\* Indexing the heartbeat topic starts its clock; no check has been made yet.
IndexTopic(j) ==
  /\ submit[j] = "tracking"
  /\ RegisterInternal(j)
  /\ quiet' = IF stage[j] = "heartbeat" THEN quiet \ {j} ELSE quiet
  /\ due' = IF stage[j] = "heartbeat" THEN due \cup {j} ELSE due
  /\ UNCHANGED <<submit, cancel, envVars, monVars, stop, excused>>

\* track() raises, or listen() and wait_until_ready() do once it has returned
\* (a job that is no longer active, a missing topic, a timeout).
SetupRaises(j) ==
  /\ submit[j] = "tracking"
  /\ TrackFails(j) \/ (stage[j] = "ready" /\ UNCHANGED vars)
  /\ submit' = [submit EXCEPT ![j] = "failing"]
  /\ UNCHANGED <<cancel, envVars, timeVars, monVars, stop, excused>>

\* Fault: the job is released without waiting for its subscriptions.
AcknowledgedEarly(j) ==
  /\ submit[j] = "tracking"
  /\ submit' = [submit EXCEPT ![j] = "acked"]
  /\ UNCHANGED <<vars, cancel, envVars, timeVars, monVars, stop, excused>>

\* wait_until_ready returns: the job's topics are subscribed and acknowledged.
Acknowledged(j) ==
  /\ submit[j] = "tracking" /\ stage[j] = "ready"
  /\ active \cap JobTopics(j) \subseteq redis
  /\ submit' = [submit EXCEPT ![j] = "acked"]
  /\ UNCHANGED <<vars, cancel, envVars, timeVars, monVars, stop, excused>>

Release(j) ==
  /\ submit[j] = "acked" /\ slurm[j] = "held"
  /\ slurm' = [slurm EXCEPT ![j] = "pending"]
  /\ submit' = [submit EXCEPT ![j] = "returned"]
  /\ UNCHANGED <<vars, cancel, outcome, net, timeVars, monVars, stop, excused>>

\* The request fails, or only its answer is lost.
ReleaseFails(j) ==
  /\ submit[j] = "acked"
  /\ \/ UNCHANGED slurm
     \/ slurm[j] = "held" /\ slurm' = [slurm EXCEPT ![j] = "pending"]
  /\ submit' = [submit EXCEPT ![j] = "failing"]
  /\ UNCHANGED <<vars, cancel, outcome, net, timeVars, monVars, stop, excused>>

\* What a cancellation does in Slurm.
Cancelled(j) == IF slurm[j] \in SlurmEnded THEN slurm ELSE [slurm EXCEPT ![j] = "cancelled"]

\* Fault: the held job is not cancelled.
CancelHeldSkipped(j) ==
  /\ submit[j] = "failing"
  /\ submit' = [submit EXCEPT ![j] = "cleaning"]
  /\ UNCHANGED <<vars, cancel, envVars, timeVars, monVars, stop, excused>>

\* The except branch: cancel the held job, which may fail and is then logged ...
CancelHeld(j) ==
  /\ submit[j] = "failing"
  /\ submit' = [submit EXCEPT ![j] = "cleaning"]
  /\ \/ slurm' = Cancelled(j) /\ UNCHANGED excused
     \/ UNCHANGED slurm /\ excused' = excused \cup {j}
  /\ UNCHANGED <<vars, cancel, outcome, net, timeVars, monVars, stop>>

\* Fault: the job's subscriptions are removed without failing its future.
FailSetupRemoves(j) ==
  /\ submit[j] = "cleaning"
  /\ Cleanup(j)
  /\ UNCHANGED <<status, notices, restVars>>
  /\ submit' = [submit EXCEPT ![j] = "raised"]
  /\ UNCHANGED <<cancel, envVars, timeVars, monVars, stop, excused>>

\* ... then fail the future, and raise.
FailSetup(j) ==
  /\ submit[j] = "cleaning"
  /\ CallApplyStatus(j, "error")
  /\ submit' = [submit EXCEPT ![j] = "raised"]
  /\ UNCHANGED <<cancel, envVars, timeVars, monVars, stop, excused>>

-----------------------------------------------------------------------------
(* cancel_job. *)

CancelLookup(j) ==
  /\ submit[j] = "returned" /\ cancel[j] = "idle"
  /\ cancel' = [cancel EXCEPT ![j] = IF j \in registry THEN "found" ELSE "unknown"]
  /\ UNCHANGED <<vars, submit, envVars, timeVars, monVars, stop, excused>>

CancelRequest(j) ==
  /\ cancel[j] \in {"found", "unknown"}
  /\ slurm' = Cancelled(j)
  /\ cancel' = [cancel EXCEPT ![j] = IF @ = "found" THEN "accepted" ELSE "idle"]
  /\ UNCHANGED <<vars, submit, outcome, net, timeVars, monVars, stop, excused>>

CancelFails(j) ==
  /\ cancel[j] \in {"found", "unknown"}
  /\ cancel' = [cancel EXCEPT ![j] = "idle"]
  /\ UNCHANGED <<vars, submit, envVars, timeVars, monVars, stop, excused>>

CancelApply(j) ==
  /\ cancel[j] = "accepted"
  /\ CallApplyStatus(j, "cancelled")
  /\ cancel' = [cancel EXCEPT ![j] = "idle"]
  /\ UNCHANGED <<submit, envVars, timeVars, monVars, stop, excused>>

-----------------------------------------------------------------------------
(* The heartbeat monitor thread. *)

\* Fault: the time of the last scheduler check is ignored.
MissingUnthrottled == {j \in Jobs : <<j, "heartbeat">> \in active \cap byTopic /\ j \in quiet}

\* Fault: only jobs known to be running are monitored.
MissingOnlyRunning ==
  {j \in Jobs : <<j, "heartbeat">> \in active \cap byTopic /\ j \in quiet \cap due
               /\ status[j] = "running"}

\* get_missing_heartbeats.
Missing == {j \in Jobs : <<j, "heartbeat">> \in active \cap byTopic /\ j \in quiet \cap due}

MonitorScan ==
  /\ monitor = "waiting" /\ ~stop
  /\ Missing # {}
  /\ missing' = Missing
  /\ monitor' = "looping"
  /\ UNCHANGED <<vars, submit, cancel, envVars, timeVars, target, verdict, stop, excused>>

\* Next element of the round, or the end of it.
Resume == IF missing = {} THEN "waiting" ELSE "looping"

\* begin_scheduler_check.
MonitorBegin(j) ==
  /\ monitor = "looping" /\ j \in missing
  /\ missing' = missing \ {j}
  /\ IF Tracked(j)
     THEN /\ target' = {j}
          /\ due' = IF <<j, "heartbeat">> \in byTopic THEN due \ {j} ELSE due
          /\ monitor' = "querying"
     ELSE /\ monitor' = IF missing' = {} THEN "waiting" ELSE "looping"
          /\ UNCHANGED <<target, due>>
  /\ UNCHANGED <<vars, submit, cancel, envVars, quiet, verdict, stop, excused>>

\* slurmrestd fails, has no record, or has one that settles nothing.
MonitorUnresolved ==
  /\ monitor = "querying"
  /\ monitor' = Resume
  /\ target' = {}
  /\ UNCHANGED <<vars, submit, cancel, envVars, timeVars, missing, verdict, stop, excused>>

\* A terminal record.
Verdict == [completed |-> "finished", cancelled |-> "cancelled", failed |-> "error"]

\* Fault: a job that has left the queue is taken to have succeeded.
MonitorResolvesAnyEnd(j) ==
  /\ monitor = "querying" /\ j \in target
  /\ slurm[j] \in SlurmEnded
  /\ verdict' = "finished"
  /\ monitor' = "applying"
  /\ UNCHANGED <<vars, submit, cancel, envVars, timeVars, missing, target, stop, excused>>

MonitorResolves(j) ==
  /\ monitor = "querying" /\ j \in target
  /\ slurm[j] \in SlurmEnded
  /\ verdict' = Verdict[slurm[j]]
  /\ monitor' = "applying"
  /\ UNCHANGED <<vars, submit, cancel, envVars, timeVars, missing, target, stop, excused>>

MonitorApplies(j) ==
  /\ monitor = "applying" /\ j \in target
  /\ ApplyReturns(j, verdict) /\ UNCHANGED restVars
  /\ monitor' = Resume
  /\ target' = {}
  /\ UNCHANGED <<submit, cancel, envVars, timeVars, missing, verdict, stop, excused>>

\* Nothing in the loop catches what apply_status raises.
MonitorDies(j) ==
  /\ monitor = "applying" /\ j \in target
  /\ ApplyRaises(j, verdict) /\ UNCHANGED restVars
  /\ monitor' = "dead"
  /\ UNCHANGED <<submit, cancel, envVars, timeVars, missing, target, verdict, stop, excused>>

-----------------------------------------------------------------------------
(* shutdown: the tracker is shut down only after the monitor has ended; a    *)
(* join that times out raises and leaves the stop flag set.                  *)

StopMonitor ==
  /\ ~stop
  /\ stop' = TRUE
  /\ UNCHANGED <<vars, submit, cancel, envVars, timeVars, monVars, excused>>

MonitorStops ==
  /\ monitor = "waiting" /\ stop
  /\ monitor' = "stopped"
  /\ UNCHANGED <<vars, submit, cancel, envVars, timeVars, missing, target, verdict, stop, excused>>

ShutdownTracker ==
  /\ stop /\ monitor \in {"stopped", "dead"}
  /\ ShutdownClear \/ ShutdownRedis \/ ShutdownExecutor
  /\ UNCHANGED mgrVars

-----------------------------------------------------------------------------
(* Environment: messages, time, Slurm and the worker. *)

Deliver(j) ==
  /\ net[j] # <<>>
  /\ \E p \in Payloads : p = Head(net[j]) /\ Receive(j, p)
  /\ net' = [net EXCEPT ![j] = Tail(@)]
  /\ UNCHANGED <<submit, cancel, slurm, outcome, timeVars, monVars, stop, excused>>

HandleDelivery(j) ==
  /\ \E p \in Payloads : RunStatusCallback(j, p)
  /\ UNCHANGED mgrVars

\* Redis pub/sub keeps nothing for a subscriber that is not there.
Lose(j) ==
  /\ net[j] # <<>>
  /\ net' = [net EXCEPT ![j] = Tail(@)]
  /\ UNCHANGED <<vars, submit, cancel, slurm, outcome, timeVars, monVars, stop, excused>>

\* _heartbeat_callback.
HeartbeatArrives(j) ==
  /\ slurm[j] = "running" /\ <<j, "heartbeat">> \in redis
  /\ quiet' = quiet \ {j}
  /\ UNCHANGED <<vars, submit, cancel, envVars, due, monVars, stop, excused>>

HeartbeatAges(j) ==
  /\ stage[j] # "untracked"
  /\ quiet' = quiet \cup {j}
  /\ UNCHANGED <<vars, submit, cancel, envVars, due, monVars, stop, excused>>

CheckAges(j) ==
  /\ due' = due \cup {j}
  /\ UNCHANGED <<vars, submit, cancel, envVars, quiet, monVars, stop, excused>>

Environment(slurm1, outcome1, net1) ==
  /\ slurm' = slurm1 /\ outcome' = outcome1 /\ net' = net1
  /\ UNCHANGED <<vars, submit, cancel, timeVars, monVars, stop, excused>>

\* The worker starts and says so.
SlurmStarts(j) ==
  /\ slurm[j] = "pending"
  /\ Environment([slurm EXCEPT ![j] = "running"], [outcome EXCEPT ![j] = "working"],
                 [net EXCEPT ![j] = Append(@, "running")])

\* The workload ends, perhaps while Slurm is already ending the job: the worker
\* publishes its terminal status before it exits.
WorkerEnds(j, o) ==
  /\ slurm[j] \in {"running"} \cup SlurmEnded /\ outcome[j] = "working"
  /\ Environment(slurm, [outcome EXCEPT ![j] = o],
                 [net EXCEPT ![j] = Append(@, IF o = "ok" THEN "finished" ELSE "error")])

\* The worker was sent SIGTERM, for a cancellation or at the time limit, and had
\* time to say so.
WorkerCancelled(j) ==
  /\ slurm[j] \in {"cancelled", "failed"} /\ outcome[j] = "working"
  /\ Environment(slurm, [outcome EXCEPT ![j] = "bad"],
                 [net EXCEPT ![j] = Append(@, "cancelled")])

\* The worker exits; it reports failure also when only its last message failed.
SlurmEnds(j, end) ==
  /\ slurm[j] = "running" /\ outcome[j] \in {"ok", "bad"}
  /\ end = "completed" => outcome[j] = "ok"
  /\ Environment([slurm EXCEPT ![j] = end], outcome, net)

\* Slurm ends the job itself: node failure, time limit, an administrator's scancel.
SlurmKills(j, end) ==
  /\ slurm[j] \in {"held", "pending", "running"}
  /\ Environment([slurm EXCEPT ![j] = end], outcome, net)

-----------------------------------------------------------------------------
Submitting(j) ==
  \/ SubmitHeld(j) \/ SubmitFails(j) \/ StartTracking(j) \/ OpenTopic(j) \/ IndexTopic(j)
  \/ SetupRaises(j) \/ Acknowledged(j) \/ Release(j) \/ ReleaseFails(j)
  \/ CancelHeld(j) \/ FailSetup(j)

Cancelling(j) == CancelLookup(j) \/ CancelRequest(j) \/ CancelFails(j) \/ CancelApply(j)

Monitoring ==
  \/ MonitorScan \/ MonitorUnresolved \/ MonitorStops
  \/ \E j \in Jobs : MonitorBegin(j) \/ MonitorResolves(j) \/ MonitorApplies(j) \/ MonitorDies(j)

World(j) ==
  \/ Deliver(j) \/ HandleDelivery(j) \/ Lose(j)
  \/ HeartbeatArrives(j) \/ HeartbeatAges(j) \/ CheckAges(j)
  \/ SlurmStarts(j) \/ WorkerCancelled(j)
  \/ \E o \in {"ok", "bad"} : WorkerEnds(j, o)
  \/ \E end \in {"completed", "failed"} : SlurmEnds(j, end)
  \/ \E end \in {"failed", "cancelled"} : SlurmKills(j, end)

ManagerNext ==
  \/ \E j \in Jobs : Submitting(j) \/ Cancelling(j) \/ World(j)
  \/ Monitoring
  \/ StopMonitor \/ ShutdownTracker

ManagerSpec == ManagerInit /\ [][ManagerNext]_allVars

\* The monitor loop runs until shutdown, time passes, a started setup and a
\* started cleanup go on, and slurmrestd answers again and again.
ManagerFairness ==
  /\ WF_allVars(MonitorScan)
  /\ \A j \in Jobs :
       /\ WF_allVars(MonitorBegin(j)) /\ WF_allVars(MonitorApplies(j))
       /\ SF_allVars(MonitorResolves(j))
       /\ WF_allVars(HeartbeatAges(j)) /\ WF_allVars(CheckAges(j))
  /\ WF_allVars(MonitorUnresolved)

FairManagerSpec == ManagerSpec /\ ManagerFairness

-----------------------------------------------------------------------------
(* Properties. *)

\* The manager drives the tracker only through steps the tracker's specification
\* allows, so everything proved of JobTracker holds inside the manager.
UsesTracker == Spec

\* A job that Slurm may run is being monitored on all three topics, or its
\* future has already completed: submit_job releases it last.
ReleasedIsMonitored ==
  \A j \in Jobs :
    slurm[j] \in {"pending", "running"} /\ phase = "open" /\ ~Done(j)
    => j \in registry /\ JobTopics(j) \subseteq active \cap byTopic \cap redis

\* "A setup failure must not leave a held allocation behind": once submit_job
\* has raised, Slurm neither holds nor runs the job, unless slurmrestd itself
\* failed the submission or the cancellation.
NoOrphanAllocation ==
  \A j \in Jobs :
    submit[j] = "raised" /\ j \notin excused => slurm[j] \in SlurmEnded \cup {"absent"}

\* A future that reports success belongs to a workload that did succeed, although
\* a Slurm record and a worker message may arrive in either order and late.
FinishedIsTrue ==
  \A j \in Jobs : status[j] = "finished" => outcome[j] = "ok"

\* A submission that fails after tracking began leaves no pending future behind.
FailedSetupIsDone ==
  \A j \in Jobs : submit[j] = "raised" /\ stage[j] # "untracked" => Done(j)

\* Slurm is asked about a job at most once per HEARTBEAT_TIMEOUT: when a query
\* begins no other has been made within that time, although the jobs to query
\* were selected at the start of the round and others are queried in between.
QueriesAreDue == [][\A j \in target' \ target : j \in due]_allVars

\* Whatever messages are lost, a job that has ended in Slurm is resolved by the
\* monitor, unless the manager is shut down or an exception has ended the monitor
\* thread (see MonitorSurvives).
EventuallyResolved ==
  \A j \in Jobs :
    submit[j] = "returned" /\ slurm[j] \in SlurmEnded ~> Done(j) \/ stop \/ monitor = "dead"

-----------------------------------------------------------------------------
(* A statement of the code's own documentation that its behaviour contradicts. *)

\* "Check missing heartbeats until shutdown".  Violated when apply_status raises
\* the RedisError of its cleanup in the monitor thread.
MonitorSurvives == monitor = "dead" => stop
=============================================================================
