------------------------------- MODULE Threads -------------------------------
(***************************************************************************)
(* The threads of one process and the locks they share: the RLocks of the  *)
(* JobTracker, the RedisSubClient and a JobFuture, the executor's queue of *)
(* user callbacks, and what shutdown waits for.  JobTracker and            *)
(* RedisSubClient take a stretch of code under a lock for one step; here   *)
(* the lock is taken, taken again by the same thread, and given back, so   *)
(* that what justifies those steps can be checked: no two threads complete *)
(* a job, and no threads wait for each other.                              *)
(*                                                                         *)
(* A call is the sequence of what it does with locks, queue and future.    *)
(* One tracked job is enough: every job has the same tracker and client.   *)
(***************************************************************************)
EXTENDS Naturals, Sequences

CONSTANTS
  Users,       \* threads of the application
  Pool,        \* threads of the callback executor
  NoOne,       \* owner of a free lock
  MaxMessages  \* bound: non-terminal messages the listener receives

Threads == Users \cup Pool \cup {"listener", "monitor"}
Locks   == {"tracker", "client", "future"}
Final   == {"listener", "global"}

ASSUME ThreadAssumption ==
  /\ Users \cap Pool = {} /\ {"listener", "monitor"} \cap (Users \cup Pool) = {}
  /\ NoOne \notin Threads
  /\ MaxMessages \in Nat

VARIABLES
  owner,     \* the thread that holds each RLock
  depth,     \* how often it has taken it
  todo,      \* what each thread has still to do in its current call
  done,      \* JobFuture.done()
  queue,     \* the executor's queue: the kind of message each callback is for
  told,      \* history: callbacks accepted for the completion of the job
  stop,      \* _stop_heartbeat_thread
  closed,    \* the executor accepts no callbacks
  messages   \* history: non-terminal messages received

vars == <<owner, depth, todo, done, queue, told, stop, closed, messages>>

-----------------------------------------------------------------------------
(* The calls.  "touch" takes and gives back a lock around a stretch that     *)
(* neither waits nor takes another lock.                                     *)

With(l, body) == <<<<"take", l>>>> \o body \o <<<<"drop", l>>>>
Touch(l)      == <<<<"touch", l>>>>
Submit(k)     == <<<<"submit", k>>>>

\* Every method of the client is one stretch under its lock; sending a command
\* or polling is part of it.
ClientCall == Touch("client")

\* _dispatch_global; _heartbeat_callback around it.
DispatchGlobal(k) == With("tracker", Submit(k))
Heartbeat == With("tracker", DispatchGlobal("other"))

\* The removing half of remove_subscriptions_for_job, with _remove_job_future.
Cleanup == With("tracker", ClientCall \o Touch("tracker"))

\* Fault: done() is tested before the tracker's lock is taken.
ApplyChecksEarly ==
  <<<<"return if done", "future">>>>
    \o With("tracker", <<<<"complete", "future">>>> \o Submit("listener") \o DispatchGlobal("global") \o Cleanup)

\* apply_status with a terminal status, and with another one.
ApplyFinal ==
  With("tracker", <<<<"return if done", "future">>, <<"complete", "future">>>>
                    \o Submit("listener") \o DispatchGlobal("global") \o Cleanup)

ApplyRunning ==
  With("tracker", <<<<"return if done", "future">>>> \o Touch("future")
                    \o Submit("other") \o DispatchGlobal("other"))

\* JobFuture.listen over add_subscription: registered, or refused and undone.
ListenReturns == Touch("tracker") \o ClientCall \o Touch("tracker") \o Touch("future")
ListenRaises  == Touch("tracker") \o ClientCall \o With("tracker", ClientCall)

\* Fault: the future's lock is held while the manager is called.
UnlistenHoldingLock == With("future", With("tracker", ClientCall))

\* JobFuture.unlisten: local ownership first, then the manager.
Unlisten == Touch("future") \o With("tracker", ClientCall)

\* remove_subscriptions_for_job of an unfinished job.
RemoveJob == With("tracker", ApplyFinal)

\* cancel_job: lookup, request to Slurm (external), apply.
CancelJob == Touch("tracker") \o ApplyFinal

\* submit_job after the job was accepted: three subscriptions, the wait for their
\* acknowledgements (which has a timeout), the release.
Track == Touch("tracker") \o ClientCall \o Touch("tracker") \o ClientCall \o Touch("tracker")
           \o ClientCall \o Touch("tracker")
SubmitJob == Track \o Touch("tracker") \o ClientCall

\* shutdown: stop and join the monitor; the tracker clears its tables, the client
\* stops its listener (joined with a timeout) and clears its own; drain the pool.
Shutdown ==
  <<<<"stop", "monitor">>, <<"join", "monitor">>>> \o Touch("tracker") \o ClientCall
    \o <<<<"close", "pool">>, <<"drain", "pool">>>>

\* One round of the monitor: get_missing_heartbeats, begin_scheduler_check, the
\* query (external), and apply_status when the job has ended.
MonitorRound == Touch("tracker") \o Touch("tracker") \o ApplyFinal

\* One round of the listener loop: poll, look up, run the callbacks.
ListenerRound(callback) == ClientCall \o ClientCall \o callback

\* What an application may call; a user callback may do the same, but to shut
\* down the manager it runs in, which the executor refuses.
UserCalls == {ListenReturns, ListenRaises, Unlisten, RemoveJob, Cleanup, CancelJob, SubmitJob}

-----------------------------------------------------------------------------
Init ==
  /\ owner = [l \in Locks |-> NoOne]
  /\ depth = [l \in Locks |-> 0]
  /\ todo = [t \in Threads |-> <<>>]
  /\ done = FALSE
  /\ queue = <<>>
  /\ told = [k \in Final |-> 0]
  /\ stop = FALSE /\ closed = FALSE
  /\ messages = 0

Idle(t)   == todo[t] = <<>>
At(t, a)  == ~Idle(t) /\ Head(todo[t])[1] = a
Arg(t)    == Head(todo[t])[2]
Free(t, l) == owner[l] \in {NoOne, t}

Advance(t) == todo' = [todo EXCEPT ![t] = Tail(@)]

\* Leaving a call by return or by an exception: the with statements give back
\* the locks.
Leave(t) ==
  /\ todo' = [todo EXCEPT ![t] = <<>>]
  /\ owner' = [l \in Locks |-> IF owner[l] = t THEN NoOne ELSE owner[l]]
  /\ depth' = [l \in Locks |-> IF owner[l] = t THEN 0 ELSE depth[l]]

Take(t) ==
  /\ At(t, "take") /\ Free(t, Arg(t))
  /\ owner' = [owner EXCEPT ![Arg(t)] = t]
  /\ depth' = [depth EXCEPT ![Arg(t)] = @ + 1]
  /\ Advance(t)
  /\ UNCHANGED <<done, queue, told, stop, closed, messages>>

Drop(t) ==
  /\ At(t, "drop")
  /\ depth' = [depth EXCEPT ![Arg(t)] = @ - 1]
  /\ owner' = IF depth[Arg(t)] = 1 THEN [owner EXCEPT ![Arg(t)] = NoOne] ELSE owner
  /\ Advance(t)
  /\ UNCHANGED <<done, queue, told, stop, closed, messages>>

TouchLock(t) ==
  /\ At(t, "touch") /\ Free(t, Arg(t))
  /\ Advance(t)
  /\ UNCHANGED <<owner, depth, done, queue, told, stop, closed, messages>>

\* RedisError.
RedisFails(t) ==
  /\ At(t, "touch") /\ Arg(t) = "client" /\ Free(t, "client")
  /\ Leave(t)
  /\ UNCHANGED <<done, queue, told, stop, closed, messages>>

ReturnIfDone(t) ==
  /\ At(t, "return if done")
  /\ IF done THEN Leave(t) ELSE Advance(t) /\ UNCHANGED <<owner, depth>>
  /\ UNCHANGED <<done, queue, told, stop, closed, messages>>

\* _update_status with a terminal status.
Complete(t) ==
  /\ At(t, "complete") /\ Free(t, "future")
  /\ done' = TRUE
  /\ Advance(t)
  /\ UNCHANGED <<owner, depth, queue, told, stop, closed, messages>>

\* executor.submit, which raises once the executor is shut down.
SubmitCallback(t) ==
  /\ At(t, "submit")
  /\ IF closed
     THEN Leave(t) /\ UNCHANGED <<queue, told>>
     ELSE /\ queue' = Append(queue, Arg(t))
          /\ told' = IF Arg(t) \in Final THEN [told EXCEPT ![Arg(t)] = @ + 1] ELSE told
          /\ Advance(t)
          /\ UNCHANGED <<owner, depth>>
  /\ UNCHANGED <<done, stop, closed, messages>>

\* The stop flag; joining the monitor, or a TimeoutError while it is at work.
StopMonitor(t) ==
  /\ At(t, "stop")
  /\ stop' = TRUE
  /\ Advance(t)
  /\ UNCHANGED <<owner, depth, done, queue, told, closed, messages>>

JoinMonitor(t) ==
  /\ At(t, "join")
  /\ IF Idle("monitor") THEN Advance(t) /\ UNCHANGED <<owner, depth>> ELSE Leave(t)
  /\ UNCHANGED <<done, queue, told, stop, closed, messages>>

\* executor.shutdown(wait=True): refuse new callbacks, then wait for the others.
ClosePool(t) ==
  /\ At(t, "close")
  /\ closed' = TRUE
  /\ Advance(t)
  /\ UNCHANGED <<owner, depth, done, queue, told, stop, messages>>

DrainPool(t) ==
  /\ At(t, "drain") /\ queue = <<>> /\ \A p \in Pool : Idle(p)
  /\ Advance(t)
  /\ UNCHANGED <<owner, depth, done, queue, told, stop, closed, messages>>

\* The one thing a thread in a call can do next.
Step(t) ==
  \/ Take(t) \/ Drop(t) \/ TouchLock(t) \/ ReturnIfDone(t) \/ Complete(t) \/ SubmitCallback(t)
  \/ StopMonitor(t) \/ JoinMonitor(t) \/ ClosePool(t) \/ DrainPool(t)

-----------------------------------------------------------------------------
(* Starting a call. *)

Start(t, call) ==
  /\ Idle(t)
  /\ todo' = [todo EXCEPT ![t] = call]
  /\ UNCHANGED <<owner, depth, done, told, closed>>

UserCall(t) ==
  /\ \E call \in UserCalls \cup {Shutdown} : Start(t, call)
  /\ UNCHANGED <<queue, stop, messages>>

\* A thread of the pool takes the oldest callback, which may use the manager.
RunCallback(t) ==
  /\ queue # <<>>
  /\ \E call \in UserCalls : Start(t, call)
  /\ queue' = Tail(queue)
  /\ UNCHANGED <<stop, messages>>

\* It may also do nothing.
RunPlainCallback(t) ==
  /\ queue # <<>> /\ Idle(t)
  /\ queue' = Tail(queue)
  /\ UNCHANGED <<owner, depth, todo, done, told, stop, closed, messages>>

Monitor ==
  /\ ~stop
  /\ Start("monitor", MonitorRound)
  /\ UNCHANGED <<queue, stop, messages>>

\* A late subscribe() restarts the listener, so it is not bound to end.
ListenFinal ==
  /\ Start("listener", ListenerRound(ApplyFinal))
  /\ UNCHANGED <<queue, stop, messages>>

ListenOther ==
  /\ messages < MaxMessages
  /\ messages' = messages + 1
  /\ \E callback \in {ApplyRunning, Heartbeat, Submit("other")} :
       Start("listener", ListenerRound(callback))
  /\ UNCHANGED <<queue, stop>>

Next ==
  \/ \E t \in Threads : Step(t) \/ RedisFails(t)
  \/ \E t \in Users : UserCall(t)
  \/ \E t \in Pool : RunCallback(t) \/ RunPlainCallback(t)
  \/ Monitor \/ ListenFinal \/ ListenOther

Spec == Init /\ [][Next]_vars

-----------------------------------------------------------------------------
(* Properties. *)

\* What keeps t from its next step until u has taken one.
WaitsFor(t, u) ==
  \/ /\ At(t, "take") \/ At(t, "touch") \/ At(t, "complete")
     /\ owner[Arg(t)] = u /\ u # t
  \/ At(t, "drain") /\ u \in Pool /\ ~Idle(u)

\* No threads wait for each other in a circle: unlisten() gives back the future's
\* lock before it calls the manager, cleanup takes the tracker's lock before the
\* client's, and shutdown() waits for callbacks holding no lock they may need.
NoCircularWait ==
  \A S \in (SUBSET Threads) \ {{}} : \E t \in S : \A u \in S : ~WaitsFor(t, u)

\* However listener, monitor, cancellation and removal race to report the end of a
\* job, one of them queues the callbacks: done() is tested and the future completed
\* under one hold of the tracker's lock.  Callbacks run on several threads and in no
\* particular order, but one told of the end of a job finds its future done.
QueuedOnce == \A k \in Final : told[k] <= (IF done THEN 1 ELSE 0)

-----------------------------------------------------------------------------
(* Why the safety properties hold: an inductive invariant.  It says of what  *)
(* a thread has still to do that, run from where it is, it never gives back  *)
(* a lock it does not hold, ends without locks, and reports the end of the   *)
(* job only after testing done() under the same hold of the tracker's lock.  *)

\* What the calls consist of: only the tracker's lock is held while something
\* else is done.  The others are for shutdown().
CallOps ==
  ({"take", "drop"} \X {"tracker"}) \cup ({"return if done", "complete"} \X {"future"})
    \cup ({"touch"} \X Locks) \cup ({"submit"} \X (Final \cup {"other"}))
Ops == CallOps \cup ({"stop", "join"} \X {"monitor"}) \cup ({"close", "drain"} \X {"pool"})

OpsOf(t) == IF t \in Users THEN Ops ELSE CallOps

TypeOK ==
  /\ owner \in [Locks -> Threads \cup {NoOne}]
  /\ depth \in [Locks -> Nat]
  /\ todo \in [Threads -> Seq(Ops)]
  /\ done \in BOOLEAN /\ stop \in BOOLEAN /\ closed \in BOOLEAN
  /\ queue \in Seq(Final \cup {"other"})
  /\ told \in [Final -> Nat]
  /\ messages \in 0..MaxMessages

\* Where a thread is in a call: how often it holds the tracker's lock, and what it
\* has done about the end of the job since it took the lock first.
Phases == {"nothing", "tested", "completed", "told listeners", "told all"}
Points == [held : Nat, phase : Phases]
Point(h, p) == [held |-> h, phase |-> p]
Outside == Point(0, "nothing")

\* The operation op leads from point a to point b.
Leads(op, a, b) ==
  /\ op[1] = "take" => b = Point(a.held + 1, a.phase)
  /\ op[1] = "drop" => /\ a.held > 0
                       /\ b = Point(a.held - 1, IF a.held = 1 THEN "nothing" ELSE a.phase)
  /\ op[1] = "return if done" => a.held > 0 /\ a.phase = "nothing" /\ b = Point(a.held, "tested")
  /\ op[1] = "complete" => a.phase = "tested" /\ b = Point(a.held, "completed")
  /\ op = <<"submit", "listener">> => a.phase = "completed" /\ b = Point(a.held, "told listeners")
  /\ op = <<"submit", "global">> => a.phase = "told listeners" /\ b = Point(a.held, "told all")
  /\ op = <<"submit", "other">> => b = a
  /\ op[1] \in {"touch", "stop", "join", "close", "drain"} => b = a
  /\ op[1] = "drain" => a.held = 0

\* The operations s, all of them in ops, lead from a to b.
Runs(ops, s, a, b) ==
  /\ s \in Seq(ops)
  /\ \E f \in [1..(Len(s) + 1) -> Points] :
       /\ f[1] = a /\ f[Len(s) + 1] = b
       /\ \A k \in 1..Len(s) : Leads(s[k], f[k], f[k + 1])

\* Where t is in its call, if its phase is p.
Now(t, p) == Point(IF owner["tracker"] = t THEN depth["tracker"] ELSE 0, p)

\* A phase says what has been reported; only the holder of the lock is in one.
Reported(t, p) ==
  /\ owner["tracker"] # t => p = "nothing"
  /\ p = "tested" => ~done
  /\ p \in {"completed", "told listeners"} => done /\ told["global"] = 0
  /\ p = "completed" => told["listener"] = 0

CallsEnd ==
  \A t \in Threads : \E p \in Phases :
    Reported(t, p) /\ Runs(OpsOf(t), todo[t], Now(t, p), Outside)

LocksInv ==
  /\ owner["client"] = NoOne /\ owner["future"] = NoOne
  /\ depth["tracker"] > 0 <=> owner["tracker"] # NoOne

ThreadsInv == TypeOK /\ LocksInv /\ CallsEnd /\ QueuedOnce

\* A call gives back every lock it takes, whichever way it ends: nobody waits for
\* a lock whose owner has nothing left to do.
LocksAreReturned == \A t \in Threads : Idle(t) => \A l \in Locks : owner[l] # t
=============================================================================
