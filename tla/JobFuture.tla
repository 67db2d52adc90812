------------------------------ MODULE JobFuture ------------------------------
(***************************************************************************)
(* One JobFuture (slurm_manager/job_future.py) between the threads that    *)
(* update it and those that use it.  Updates and the list of the future's  *)
(* own callbacks are protected by its lock; status, done() and wait() read *)
(* without it, in the middle of an update too.  The tracker and the        *)
(* manager, which own the other half of each callback, are external here.  *)
(***************************************************************************)
EXTENDS Naturals

CONSTANTS
  Threads,  \* threads that update the status or remove callbacks
  Waiters,  \* threads that wait for the job and then look at its status
  Ids,      \* callback ids, one per listen()
  EventOf,  \* the event each of them is for
  NoOne     \* the lock is free

Live == {"pending", "running"}
Ends == {"finished", "error", "cancelled"}
None == "none"

ASSUME FutureAssumption ==
  /\ NoOne \notin Threads
  /\ None \notin Ids

VARIABLES
  lock,      \* owner of the future's lock, between the two writes of an update
  status,    \* _status
  result,    \* the inner Future: none, ok or exception
  outcome,   \* what wait() told each waiter
  seen,      \* the status it read afterwards
  registry,  \* ids in _callback_registry
  adding,    \* ids listen() has from the tracker and has not yet noted
  removing,  \* the id each thread's unlisten() has taken out of the registry
  fresh,     \* ids not handed out yet
  tracked    \* ids the tracker knows

vars == <<lock, status, result, outcome, seen, registry, adding, removing, fresh, tracked>>
updateVars   == <<lock, status, result>>
waitVars     == <<outcome, seen>>
callbackVars == <<registry, adding, removing, fresh, tracked>>

TypeOK ==
  /\ lock \in Threads \cup {NoOne}
  /\ status \in Live \cup Ends
  /\ result \in {None, "ok", "exception"}
  /\ outcome \in [Waiters -> {"idle", "waiting", "returned", "raised", "timed out"}]
  /\ seen \in [Waiters -> Live \cup Ends \cup {None}]
  /\ registry \subseteq Ids /\ adding \subseteq Ids /\ fresh \subseteq Ids /\ tracked \subseteq Ids
  /\ removing \in [Threads -> Ids \cup {None}]

Init ==
  /\ lock = NoOne /\ status = "pending" /\ result = None
  /\ outcome = [w \in Waiters |-> "idle"] /\ seen = [w \in Waiters |-> None]
  /\ registry = {} /\ adding = {} /\ fresh = Ids /\ tracked = {}
  /\ removing = [t \in Threads |-> None]

-----------------------------------------------------------------------------
(* _update_status. *)

\* Fault: done() is not tested again under the lock.
BeginUpdateUnchecked(t, s) ==
  /\ lock = NoOne
  /\ lock' = t /\ status' = s
  /\ UNCHANGED <<result, waitVars, callbackVars>>

\* Fault: the inner future is completed before the status is written.
BeginUpdateCompletes(t, s) ==
  /\ lock = NoOne /\ result = None
  /\ lock' = t
  /\ result' = IF s = "finished" THEN "ok" ELSE IF s \in Ends THEN "exception" ELSE None
  /\ UNCHANGED <<status, waitVars, callbackVars>>

\* Under the lock an update of a completed future is ignored; any other one
\* writes the status first.
BeginUpdate(t, s) ==
  /\ lock = NoOne /\ result = None
  /\ lock' = t /\ status' = s
  /\ UNCHANGED <<result, waitVars, callbackVars>>

\* Then a terminal status completes the inner future.
EndUpdate(t) ==
  /\ lock = t /\ lock' = NoOne
  /\ result' = IF status = "finished" THEN "ok" ELSE IF status \in Ends THEN "exception" ELSE result
  /\ UNCHANGED <<status, waitVars, callbackVars>>

-----------------------------------------------------------------------------
(* wait(), then status. *)

Wait(w) ==
  /\ outcome[w] \in {"idle", "timed out"}
  /\ outcome' = [outcome EXCEPT ![w] = "waiting"] /\ seen' = [seen EXCEPT ![w] = None]
  /\ UNCHANGED <<updateVars, callbackVars>>

\* The inner future's result, its exception, or TimeoutError: the job goes on.
WaitEnds(w) ==
  /\ outcome[w] = "waiting"
  /\ outcome' = [outcome EXCEPT ![w] = CASE result = "ok"        -> "returned"
                                         [] result = "exception" -> "raised"
                                         [] OTHER                -> "timed out"]
  /\ UNCHANGED <<updateVars, seen, callbackVars>>

ReadStatus(w) ==
  /\ outcome[w] \in {"returned", "raised", "timed out"} /\ seen[w] = None
  /\ seen' = [seen EXCEPT ![w] = status]
  /\ UNCHANGED <<updateVars, outcome, callbackVars>>

-----------------------------------------------------------------------------
(* Callbacks. *)

\* listen(): the tracker registers the callback of an unfinished job, and then
\* the future notes its id.
ListenTracked(i) ==
  /\ result = None /\ i \in fresh
  /\ fresh' = fresh \ {i} /\ tracked' = tracked \cup {i} /\ adding' = adding \cup {i}
  /\ UNCHANGED <<updateVars, waitVars, registry, removing>>

ListenNoted(i) ==
  /\ lock = NoOne /\ i \in adding
  /\ adding' = adding \ {i} /\ registry' = registry \cup {i}
  /\ UNCHANGED <<updateVars, waitVars, removing, fresh, tracked>>

\* Fault: the whole list of the event is dropped, not the one callback.
RemoveCallbackDropsEvent(t, i) ==
  /\ lock = NoOne /\ removing[t] = None /\ i \in registry
  /\ registry' = {k \in registry : EventOf[k] # EventOf[i]}
  /\ removing' = [removing EXCEPT ![t] = i]
  /\ UNCHANGED <<updateVars, waitVars, adding, fresh, tracked>>

\* unlisten(): the future gives up the callback under its own lock, alone, and
\* only the thread that found it goes on to the manager.
RemoveCallback(t, i) ==
  /\ lock = NoOne /\ removing[t] = None /\ i \in registry
  /\ registry' = registry \ {i}
  /\ removing' = [removing EXCEPT ![t] = i]
  /\ UNCHANGED <<updateVars, waitVars, adding, fresh, tracked>>

RemoveTracked(t) ==
  /\ removing[t] # None
  /\ tracked' = tracked \ {removing[t]}
  /\ removing' = [removing EXCEPT ![t] = None]
  /\ UNCHANGED <<updateVars, waitVars, registry, adding, fresh>>

\* The manager removes callbacks by their ids or topic, or all of the job's.
ManagerRemoves ==
  /\ tracked' \in SUBSET tracked
  /\ UNCHANGED <<updateVars, waitVars, registry, adding, removing, fresh>>

-----------------------------------------------------------------------------
Next ==
  \/ \E t \in Threads : (\E s \in Live \cup Ends : BeginUpdate(t, s)) \/ EndUpdate(t)
  \/ \E w \in Waiters : Wait(w) \/ WaitEnds(w) \/ ReadStatus(w)
  \/ \E i \in Ids : ListenTracked(i) \/ ListenNoted(i) \/ \E t \in Threads : RemoveCallback(t, i)
  \/ \E t \in Threads : RemoveTracked(t)
  \/ ManagerRemoves

Spec == Init /\ [][Next]_vars

-----------------------------------------------------------------------------
(* Properties. *)

\* Whoever sees the future done, without any lock, sees the status it ended with:
\* the two writes of an update are in the right order, and done() is final.
DoneIsSettled ==
  result # None => (status \in Ends /\ (result = "ok" <=> status = "finished"))

\* What wait() told a thread and the status it reads next agree, although the
\* job may be updated between any two of its steps.
WaiterSeesOutcome ==
  \A w \in Waiters :
    seen[w] # None => /\ outcome[w] = "returned" => seen[w] = "finished"
                      /\ outcome[w] = "raised" => seen[w] \in {"error", "cancelled"}

\* A callback the tracker may still call can be removed through the future: it is
\* noted, or a listen() or an unlisten() is about to settle it.
CallbackIsOwned ==
  tracked \subseteq registry \cup adding \cup {removing[t] : t \in Threads}

\* Seen without its lock the future still lives the life of JobLifecycle: a
\* thread that reads the status twice never sees it leave a terminal one.
Life == INSTANCE JobLifecycle WITH
          Jobs <- {"job"}, Listeners <- {},
          state <- [j \in {"job"} |-> status], told <- [p \in {} \X {"job"} |-> 0]

ReadersSeeLifecycle == Life!Spec

\* Between the two writes the future is not complete, and with the lock free the
\* writes agree.
WritesAgree ==
  /\ status \in Ends => result # None \/ lock # NoOne
  /\ lock # NoOne => result = None

\* A waiter that was told an outcome was told the future's.
ToldResult ==
  \A w \in Waiters : /\ outcome[w] = "returned" => result = "ok"
                     /\ outcome[w] = "raised" => result = "exception"
                     /\ outcome[w] \in {"idle", "waiting"} => seen[w] = None

\* The inductive invariant of the proofs.
FutureInv ==
  TypeOK /\ DoneIsSettled /\ WritesAgree /\ ToldResult /\ WaiterSeesOutcome /\ CallbackIsOwned
=============================================================================
