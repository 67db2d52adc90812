------------------------------- MODULE Worker -------------------------------
(***************************************************************************)
(* bec-slurm-worker (worker/internal/worker/worker.go): Run with its       *)
(* goroutines (main, heartbeat, watcher, one copying goroutine per output  *)
(* stream), the process group of the workload, the grace period and the    *)
(* first publish error.                                                    *)
(*                                                                         *)
(* Processes may do what they like: ignore SIGTERM, fork, redirect their   *)
(* output, leave the process group, keep the output pipes open.  A publish *)
(* holds the publish lock until Redis answers or the request times out,    *)
(* and its message may have arrived in either case.                        *)
(*                                                                         *)
(* Each goroutine's actions say what they change of the variables that     *)
(* goroutine can change; the rest is left alone where they are combined.   *)
(***************************************************************************)
CONSTANTS
  Streams,    \* output streams of the workload, each with its lineWriter
  Children    \* processes the workload may fork

ASSUME WorkerAssumption == Streams \cap {"nobody", "status", "heartbeat"} = {}

VARIABLES
  main,          \* where Run is
  heart,         \* the heartbeat goroutine
  watcher,       \* the goroutine that watches for cancellation and for the end
  copier,        \* os/exec's goroutine that copies a stream into its lineWriter
  lock,          \* publishLock: the message being published, or "nobody"
  publishError,  \* is publishError set?
  ctxDone,       \* ctx: has the worker been sent SIGTERM?
  workDone,      \* workContext: cancelled with ctx or by a failure
  leader,        \* the workload's first process: its exit status once it ended
  group,         \* its descendants in the process group ...
  loose,         \* ... and those that have left it
  born,          \* descendants forked so far
  holding,       \* descendants that got the output pipes
  pipe,          \* streams with output that has not been read
  buffer,        \* streams whose lineWriter.buffer is not empty
  outputError,   \* streams whose lineWriter.err is set
  runError,      \* is runError set?
  timers,        \* expired timers: the grace period, WaitDelay
  verdict,       \* the status to report
  exit,          \* the code Run returned
  said,          \* history: the last status message that has reached Redis
  lost,          \* history: streams with output that will not reach Redis
  killed,        \* history: was the group sent SIGKILL, and when?
  orderly        \* history: did Wait return before any cancellation?

publishVars == <<lock, publishError, workDone, said, lost>>
processVars == <<leader, group, loose, born, holding>>
outputVars  == <<copier, pipe, buffer, outputError>>
mainVars    == <<main, runError, verdict, exit, orderly>>
watchVars   == <<watcher, killed>>
vars == <<mainVars, heart, watchVars, publishVars, outputVars, processVars, ctxDone, timers>>

MainSteps == {"staging", "announcing", "spawning", "waiting", "draining", "joining", "flushing",
              "stopping", "reporting", "leaving", "returned"}
Ends      == {"finished", "error", "cancelled"}
Code      == [finished |-> "success", error |-> "failure", cancelled |-> "cancelled"]

TypeOK ==
  /\ main \in MainSteps
  /\ heart \in {"off", "beating", "resting", "done"}
  /\ watcher \in {"off", "selecting", "terminating", "killing", "done"}
  /\ copier \in [Streams -> {"off", "copying", "sending", "done"}]
  /\ lock \in {"nobody", "status", "heartbeat"} \cup Streams
  /\ publishError \in BOOLEAN /\ ctxDone \in BOOLEAN /\ workDone \in BOOLEAN
  /\ runError \in BOOLEAN /\ orderly \in BOOLEAN
  /\ leader \in {"unborn", "alive", "ok", "bad"}
  /\ group \cup loose \cup born \cup holding \subseteq Children
  /\ pipe \cup buffer \cup outputError \cup lost \subseteq Streams
  /\ timers \subseteq {"grace", "delay"}
  /\ verdict \in Ends
  /\ exit \in {"none", "success", "failure", "cancelled"}
  /\ said \in {"nothing", "running"} \cup Ends
  /\ killed \in {"no", "after grace", "at once"}

Init ==
  /\ main = "staging" /\ heart = "off" /\ watcher = "off"
  /\ copier = [s \in Streams |-> "off"]
  /\ lock = "nobody" /\ publishError = FALSE /\ ctxDone = FALSE /\ workDone = FALSE
  /\ leader = "unborn" /\ group = {} /\ loose = {} /\ born = {} /\ holding = {}
  /\ pipe = {} /\ buffer = {} /\ outputError = {}
  /\ runError = FALSE /\ timers = {} /\ verdict = "error" /\ exit = "none"
  /\ said = "nothing" /\ lost = {} /\ killed = "no" /\ orderly = FALSE

-----------------------------------------------------------------------------
(* publish: one message at a time, and after the first failure only statuses. *)

Acquire(m) ==
  /\ lock = "nobody"
  /\ m = "status" \/ ~publishError
  /\ lock' = m
  /\ UNCHANGED <<publishError, workDone, said, lost>>

\* publisher.Publish ends.  It may fail although the message arrived; the first
\* failure is remembered and cancels the work.
Publish(m, word, failed) ==
  /\ lock = m
  /\ lock' = "nobody"
  /\ publishError' = IF failed THEN TRUE ELSE publishError
  /\ workDone' = IF failed THEN TRUE ELSE workDone
  /\ \E arrived \in {TRUE, ~failed} :
       /\ said' = IF arrived /\ m = "status" THEN word ELSE said
       /\ lost' = IF arrived THEN lost ELSE lost \cup (Streams \cap {m})

\* The early return of publish.
Refused(m) ==
  /\ lock = "nobody" /\ publishError
  /\ lost' = lost \cup (Streams \cap {m})
  /\ UNCHANGED <<lock, publishError, workDone, said>>

-----------------------------------------------------------------------------
(* Run, up to the start of the workload. *)

Stage ==
  /\ main = "staging"
  /\ Acquire("status")
  /\ main' = "announcing"
  /\ UNCHANGED <<runError, verdict, exit, orderly, heart, watcher, copier, leader>>

\* Invalid configuration, or staging the scripts or the HOME lookup failed.
StageFails ==
  /\ main = "staging"
  /\ main' = "leaving"
  /\ UNCHANGED <<runError, verdict, exit, orderly, publishVars, heart, watcher, copier, leader>>

Announce(failed) ==
  /\ main = "announcing"
  /\ Publish("status", "running", failed)
  /\ main' = IF failed THEN "leaving" ELSE "spawning"
  /\ heart' = IF failed THEN heart ELSE "beating"
  /\ UNCHANGED <<runError, verdict, exit, orderly, watcher, copier, leader>>

Spawn ==
  /\ main = "spawning" /\ ~workDone
  /\ main' = "waiting"
  /\ watcher' = "selecting" /\ leader' = "alive"
  /\ copier' = [s \in Streams |-> "copying"]
  /\ UNCHANGED <<runError, verdict, exit, orderly, publishVars, heart>>

\* The work was cancelled before it began, or command.Start fails.
SpawnFails ==
  /\ main = "spawning"
  /\ main' = "flushing" /\ runError' = TRUE
  /\ UNCHANGED <<verdict, exit, orderly, publishVars, heart, watcher, copier, leader>>

-----------------------------------------------------------------------------
(* command.Wait, and the end of Run. *)

\* The leader is reaped; WaitDelay begins.
Reap ==
  /\ main = "waiting" /\ leader \in {"ok", "bad"}
  /\ main' = "draining"
  /\ UNCHANGED <<runError, verdict, exit, orderly, publishVars, heart, watcher, copier, leader>>

\* Wait returns when the copying goroutines are done; processDone is closed.
WaitReturns ==
  /\ main = "draining" /\ \A s \in Streams : copier[s] = "done"
  /\ main' = "joining"
  /\ runError' = (leader = "bad" \/ outputError # {} \/ "delay" \in timers)
  /\ orderly' = ~workDone
  /\ UNCHANGED <<verdict, exit, publishVars, heart, watcher, copier, leader>>

\* <-watcherDone.
Join ==
  /\ main = "joining" /\ watcher = "done"
  /\ main' = "flushing"
  /\ UNCHANGED <<runError, verdict, exit, orderly, publishVars, heart, watcher, copier, leader>>

\* Fault: an unterminated last line is forgotten.
FlushedEarly ==
  /\ main = "flushing" /\ lock \notin Streams
  /\ main' = "stopping"
  /\ UNCHANGED <<runError, verdict, exit, orderly, publishVars, heart, watcher, copier, leader>>

\* Both flush calls are over: close(stopHeartbeat).
Flushed ==
  /\ main = "flushing" /\ buffer = {} /\ lock \notin Streams
  /\ main' = "stopping"
  /\ UNCHANGED <<runError, verdict, exit, orderly, publishVars, heart, watcher, copier, leader>>

Verdict ==
  IF publishError \/ outputError # {} THEN "error"
  ELSE IF ctxDone THEN "cancelled"
  ELSE IF runError THEN "error" ELSE "finished"

\* <-heartbeatDone, the verdict, and the final status.
Report ==
  /\ main = "stopping" /\ heart = "done"
  /\ Acquire("status")
  /\ main' = "reporting" /\ verdict' = Verdict
  /\ UNCHANGED <<runError, exit, orderly, heart, watcher, copier, leader>>

\* Fault: the error of the final publish is ignored.
ReportedAnyhow(failed) ==
  /\ main = "reporting"
  /\ Publish("status", verdict, failed)
  /\ main' = "leaving"
  /\ UNCHANGED <<runError, verdict, exit, orderly, heart, watcher, copier, leader>>

\* A final status that fails turns the result into a failure.
Reported(failed) ==
  /\ main = "reporting"
  /\ Publish("status", verdict, failed)
  /\ main' = "leaving" /\ verdict' = IF failed THEN "error" ELSE verdict
  /\ UNCHANGED <<runError, exit, orderly, heart, watcher, copier, leader>>

Return ==
  /\ main = "leaving"
  /\ main' = "returned" /\ exit' = Code[verdict]
  /\ UNCHANGED <<runError, verdict, orderly, publishVars, heart, watcher, copier, leader>>

Main ==
  /\ \/ Stage \/ StageFails \/ Spawn \/ SpawnFails \/ Reap \/ WaitReturns \/ Join \/ Flushed
     \/ Report \/ Return
     \/ \E failed \in BOOLEAN : Announce(failed) \/ Reported(failed)
  /\ UNCHANGED <<killed, pipe, buffer, outputError, group, loose, born, holding, ctxDone, timers>>

-----------------------------------------------------------------------------
(* The heartbeat goroutine. *)

Beat == heart = "beating" /\ Acquire("heartbeat") /\ UNCHANGED heart

BeatEnds(failed) ==
  /\ Publish("heartbeat", "beat", failed)
  /\ heart' = IF failed THEN "done" ELSE "resting"

BeatRefused == heart = "beating" /\ Refused("heartbeat") /\ heart' = "done"

\* The ticker may win although stopHeartbeat is closed as well.
Tick == heart = "resting" /\ heart' = "beating" /\ UNCHANGED publishVars

HeartStops ==
  /\ heart = "resting" /\ main = "stopping"
  /\ heart' = "done"
  /\ UNCHANGED publishVars

HeartLeaves == <<mainVars, watchVars, outputVars, processVars, ctxDone, timers>>

Heart ==
  /\ Beat \/ BeatRefused \/ Tick \/ HeartStops \/ \E failed \in BOOLEAN : BeatEnds(failed)
  /\ UNCHANGED HeartLeaves

-----------------------------------------------------------------------------
(* The copying goroutines and their lineWriters. *)

\* There is something to read, and the pipe is open at this end.
Readable(s) == copier[s] = "copying" /\ s \in pipe /\ "delay" \notin timers

\* A piece of output is archived, and sent if it ends a line.
Copy(s, line) ==
  /\ Readable(s)
  /\ pipe' = pipe \ {s}
  /\ buffer' = buffer \cup {s}
  /\ copier' = [copier EXCEPT ![s] = IF line THEN "sending" ELSE @]
  /\ UNCHANGED <<publishVars, outputError>>

\* The archive refuses it: onError cancels the work, and os/exec stops copying.
ArchiveFails(s) ==
  /\ Readable(s)
  /\ pipe' = pipe \ {s}
  /\ outputError' = outputError \cup {s}
  /\ copier' = [copier EXCEPT ![s] = "done"]
  /\ workDone' = TRUE /\ lost' = lost \cup {s}
  /\ UNCHANGED <<lock, publishError, said, buffer>>

\* A line is sent by Write, the unterminated rest by flush.
Sending(s) == copier[s] = "sending" \/ (main = "flushing" /\ s \in buffer)

Send(s) == Sending(s) /\ Acquire(s) /\ UNCHANGED outputVars

\* send ignores how publish ended.
SendEnds(s) ==
  /\ \/ Sending(s) /\ Refused(s)
     \/ \E failed \in BOOLEAN : Publish(s, "log", failed)
  /\ buffer' = buffer \ {s}
  /\ copier' = [copier EXCEPT ![s] = IF @ = "sending" THEN "copying" ELSE @]
  /\ UNCHANGED <<pipe, outputError>>

\* Some process can still write to the pipes.
PipesOpen == leader = "alive" \/ (group \cup loose) \cap holding # {}

EndOfFile(s) ==
  /\ copier[s] = "copying" /\ s \notin pipe /\ ~PipesOpen
  /\ copier' = [copier EXCEPT ![s] = "done"]
  /\ UNCHANGED <<publishVars, pipe, buffer, outputError>>

\* Fault: the command has no WaitDelay.
CutNever(s) == FALSE /\ UNCHANGED <<publishVars, outputVars>>

\* WaitDelay has passed: os/exec closes the pipes.
Cut(s) ==
  /\ copier[s] = "copying" /\ "delay" \in timers
  /\ copier' = [copier EXCEPT ![s] = "done"]
  /\ UNCHANGED <<publishVars, pipe, buffer, outputError>>

OutputLeaves == <<mainVars, heart, watchVars, processVars, ctxDone, timers>>

Output(s) ==
  /\ \/ ArchiveFails(s) \/ Send(s) \/ SendEnds(s) \/ EndOfFile(s) \/ Cut(s)
     \/ \E line \in BOOLEAN : Copy(s, line)
  /\ UNCHANGED OutputLeaves

-----------------------------------------------------------------------------
(* The watcher. *)

\* workContext.Done: SIGTERM to the group.
WatchCancelled ==
  /\ watcher = "selecting" /\ workDone
  /\ watcher' = "terminating"
  /\ UNCHANGED <<killed, leader, group>>

\* Fault: the context is not looked at again when the process has ended.
WatchEndedUnchecked ==
  /\ watcher = "selecting" /\ main = "joining"
  /\ watcher' = "killing"
  /\ UNCHANGED <<killed, leader, group>>

\* processDone, which select may prefer although the context is done as well.
WatchEnded ==
  /\ watcher = "selecting" /\ main = "joining"
  /\ watcher' = IF workDone THEN "terminating" ELSE "killing"
  /\ UNCHANGED <<killed, leader, group>>

\* SIGKILL to the group, at once or when the grace period is over.
Kill ==
  /\ watcher = "killing" \/ (watcher = "terminating" /\ "grace" \in timers)
  /\ killed' = IF watcher = "killing" THEN "at once" ELSE "after grace"
  /\ leader' = IF leader = "alive" THEN "bad" ELSE leader
  /\ group' = {}
  /\ watcher' = "done"

\* Fault: the watcher is content when the leader has ended.
PollLeader ==
  /\ watcher = "terminating"
  /\ leader \in {"ok", "bad"} /\ main # "waiting"
  /\ watcher' = "done"
  /\ UNCHANGED <<killed, leader, group>>

\* kill(-pid, 0) gives ESRCH: every member has ended and the leader is reaped.
Poll ==
  /\ watcher = "terminating"
  /\ leader \in {"ok", "bad"} /\ main # "waiting" /\ group = {}
  /\ watcher' = "done"
  /\ UNCHANGED <<killed, leader, group>>

Watch ==
  /\ WatchCancelled \/ WatchEnded \/ Kill \/ Poll
  /\ UNCHANGED <<mainVars, heart, publishVars, outputVars, loose, born, holding, ctxDone, timers>>

-----------------------------------------------------------------------------
(* The environment: signals, time and the workload's processes. *)

Signal ==
  /\ main # "returned"
  /\ ctxDone' = TRUE /\ workDone' = TRUE
  /\ UNCHANGED <<mainVars, heart, watchVars, lock, publishError, said, lost, outputVars,
                 processVars, timers>>

Expire(t) ==
  /\ t \in (IF watcher = "terminating" THEN {"grace"} ELSE {})
           \cup (IF main = "draining" THEN {"delay"} ELSE {})
  /\ timers' = timers \cup {t}
  /\ UNCHANGED <<mainVars, heart, watchVars, publishVars, outputVars, processVars, ctxDone>>

\* A member of the group forks, with or without redirecting the output.
Fork(c, redirected) ==
  /\ leader = "alive" \/ (IF redirected THEN group ELSE group \cap holding) # {}
  /\ c \notin born
  /\ born' = born \cup {c} /\ group' = group \cup {c}
  /\ holding' = IF redirected THEN holding ELSE holding \cup {c}
  /\ UNCHANGED <<leader, loose, pipe>>

\* setsid.
Escape(c) ==
  /\ c \in group
  /\ group' = group \ {c} /\ loose' = loose \cup {c}
  /\ UNCHANGED <<leader, born, holding, pipe>>

ChildEnds(c) ==
  /\ c \in group \cup loose
  /\ group' = group \ {c} /\ loose' = loose \ {c}
  /\ UNCHANGED <<leader, born, holding, pipe>>

LeaderEnds(how) ==
  /\ leader = "alive"
  /\ leader' = how
  /\ UNCHANGED <<group, loose, born, holding, pipe>>

Write(s) == PipesOpen /\ pipe' = pipe \cup {s} /\ UNCHANGED processVars

Workload ==
  /\ \/ \E c \in Children : Escape(c) \/ ChildEnds(c) \/ \E r \in BOOLEAN : Fork(c, r)
     \/ \E how \in {"ok", "bad"} : LeaderEnds(how)
     \/ \E s \in Streams : Write(s)
  /\ UNCHANGED <<mainVars, heart, watchVars, publishVars, copier, buffer, outputError, ctxDone, timers>>

-----------------------------------------------------------------------------
Next ==
  \/ Main \/ Heart \/ Watch \/ Workload \/ Signal
  \/ \E s \in Streams : Output(s)
  \/ \E t \in {"grace", "delay"} : Expire(t)

Spec == Init /\ [][Next]_vars

\* Goroutines run, a publish ends within three seconds, timers expire.  select
\* chooses at random among its ready cases, so a closed stopHeartbeat is noticed
\* although the ticker may win any number of times, and the publish lock is
\* handed to whoever keeps waiting for it.  The workload owes nothing.
Fairness ==
  /\ WF_vars(Main) /\ WF_vars(Watch)
  /\ \A t \in {"grace", "delay"} : WF_vars(Expire(t))
  /\ SF_vars(HeartStops /\ UNCHANGED HeartLeaves)
  /\ SF_vars(Heart /\ ~(heart = "resting"))
  /\ \A s \in Streams :
       /\ WF_vars(Output(s))
       /\ SF_vars(Send(s) /\ UNCHANGED OutputLeaves)
       /\ SF_vars(SendEnds(s) /\ UNCHANGED OutputLeaves)
       /\ WF_vars((EndOfFile(s) \/ Cut(s)) /\ UNCHANGED OutputLeaves)

FairSpec == Spec /\ Fairness

-----------------------------------------------------------------------------
(* Properties. *)

\* When the worker flushes, reports and returns, no process of the workload's
\* group is left: the watcher leaves only after ESRCH or SIGKILL, and Run waits
\* for it, whether the leader or a descendant ended last.
GroupIsGone ==
  main \in {"flushing", "stopping", "reporting", "leaving", "returned"}
  => leader # "alive" /\ group = {}

\* "terminateProcessGroup gives surviving descendants their grace period even
\* when the leader has exited": SIGKILL is sent without a grace period only if
\* the workload had ended before anything cancelled it, whichever of its two
\* ready cases the watcher's select picks.
GraceIsGiven == killed = "at once" => orderly

\* "finished" reaches Redis only for a workload that succeeded and all of whose
\* output has reached Redis before, an unterminated last line included.
FinishedIsEarned ==
  said = "finished" => leader = "ok" /\ lost \cup pipe \cup buffer = {}

\* After the first failure "drain buffered output without repeated network
\* waits": no goroutine starts another publication but the final status.
QuietAfterFailure ==
  [][publishError /\ lock = "nobody" /\ lock' # lock => main' = "reporting"]_vars

\* The terminal status is the last message of the worker: no heartbeat or log
\* message is begun after it (<-heartbeatDone, and Wait's waiting for the
\* copying goroutines).
LastWord ==
  [][(main \in {"reporting", "leaving", "returned"}) => (lock' \in {lock, "nobody"})]_vars

\* The worker implements what the manager relies on: one terminal status after
\* "running", and exit with success only if "finished" arrived.
Reports == INSTANCE WorkerReport WITH said <- said, exit <- exit

ReportsCorrectly == Reports!Spec

\* Once SIGTERM, a failed publish or a failed archive write has cancelled the
\* work, the worker returns, although processes may ignore SIGTERM, leave the
\* group or keep the output pipes open.
CancelledReturns == workDone ~> main = "returned"

-----------------------------------------------------------------------------
(* What makes the invariants inductive. *)

Started == {"waiting", "draining", "joining"}
Ending  == {"flushing", "stopping", "reporting", "leaving", "returned"}

\* Who exists where in Run.
InStep ==
  /\ leader = "unborn" <=> watcher = "off"
  /\ watcher = "off" => group = {} /\ loose = {} /\ main \notin Started
  /\ watcher = "done" => leader # "alive" /\ group = {}
  /\ main \in {"draining", "joining"} => leader # "alive"
  /\ main \in Ending => watcher \in {"off", "done"}
  /\ main \in {"staging", "announcing", "spawning"} => watcher = "off"
  /\ main \in {"staging", "announcing", "reporting", "leaving", "returned"}
       => heart \in {"off", "done"}
  /\ \A s \in Streams :
       /\ watcher = "off" <=> copier[s] = "off"
       /\ main \in {"joining"} \cup Ending => copier[s] \in {"off", "done"}

\* SIGKILL at once is only ever decided after an orderly end.
KillInv ==
  /\ main = "joining" /\ ~workDone => orderly
  /\ watcher = "killing" \/ killed = "at once" => orderly /\ main \notin {"waiting", "draining"}
  /\ killed = "at once" => watcher = "done"

\* Whose message is being published.
LockInv ==
  /\ lock = "status" <=> main \in {"announcing", "reporting"}
  /\ lock = "heartbeat" => heart = "beating"
  /\ \A s \in Streams :
       /\ lock = s => Sending(s)
       /\ copier[s] = "sending" => s \in buffer
  /\ main = "staging" => ~publishError

\* A stream whose copying ended well is empty for good.
OutputInv ==
  /\ holding \subseteq born
  /\ watcher = "off" => pipe = {} /\ buffer = {} /\ outputError = {} /\ timers = {}
  /\ \A s \in Streams :
       copier[s] = "done" /\ s \notin outputError /\ "delay" \notin timers
       => s \notin pipe /\ ~PipesOpen
  /\ main \in {"stopping", "reporting", "leaving", "returned"} => buffer = {}
  /\ lost # {} => publishError \/ outputError # {}
  /\ main \in {"joining"} \cup Ending /\ watcher # "off" /\ ~runError
       => leader = "ok" /\ outputError = {} /\ "delay" \notin timers
  /\ main \in Ending \ {"leaving", "returned"} /\ watcher = "off" => runError

Succeeded == leader = "ok" /\ lost \cup pipe \cup buffer = {} /\ (Streams # {} => ~PipesOpen)

\* What has been said at each point, and why.
SaidInv ==
  /\ main # "returned" => exit = "none"
  /\ main \in {"staging", "announcing"} => said = "nothing"
  /\ main \in {"spawning", "flushing", "stopping", "reporting"} \cup Started => said = "running"
  /\ main \in {"leaving", "returned"} =>
       /\ verdict # "error" => said = verdict
       /\ said = "finished" => Succeeded
  /\ main \notin {"reporting", "leaving", "returned"} => verdict = "error"
  /\ main = "reporting" /\ verdict = "finished" => Succeeded

\* The inductive invariant: goroutines, processes, publish lock and messages stay
\* in step however they are interleaved with signals, failures and time.
WorkerInv == TypeOK /\ InStep /\ KillInv /\ LockInv /\ OutputInv /\ SaidInv
=============================================================================
