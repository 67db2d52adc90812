------------------------------ MODULE Dispatch ------------------------------
(***************************************************************************)
(* What happens to one message of a job's worker: redis_sub_client.py      *)
(* decodes it and looks up its callbacks, job_tracker.py hands it to the   *)
(* executor for the job's own listeners and for the manager-wide ones.     *)
(* Status messages reach users on another path than heartbeats and logs:   *)
(* the callback of a status listener is called by apply_status only, and   *)
(* ignored when Redis calls it.                                            *)
(*                                                                         *)
(* Two locks matter: the tracker's, which guards completion, cleanup and   *)
(* registrations, and the client's, under which the listener copies the    *)
(* callbacks of a topic and nothing else is looked at.  One job, since     *)
(* jobs do not share topics (JobsAreIsolated in JobTracker); withdrawing a *)
(* topic from the manager itself is JobTracker's RemoveByTopic.            *)
(***************************************************************************)
EXTENDS Naturals, Sequences

CONSTANTS
  Users,       \* registrations of listen() on the job
  Globals,     \* registrations of listen() without a job
  EventOf,     \* the event each registration asks for
  NoMessage,
  Sent,        \* bound: what the worker publishes, of Kinds below
  MaxMessages  \* bound: messages it publishes

Regs   == Users \cup Globals
Events == {"heartbeat", "status", "log"}

\* The manager's own callback on each of the job's topics.
Own == "own"

\* What a payload on one of the job's channels decodes to.  The message type the
\* discriminated union selects is the event of the channel: the worker writes
\* no other.  A payload that is no such message decodes to nothing.
Kinds    == {"heartbeat", "log", "running", "end", "garbage"}
Event(k) == IF k \in {"running", "end"} THEN "status" ELSE k

Messages == [n : 0..MaxMessages, kind : Kinds]

\* The status message another thread makes up: the monitor, cancel_job, remove.
MadeUp == [n |-> 0, kind |-> "end"]

ASSUME DispatchAssumption ==
  /\ EventOf \in [Regs -> Events]
  /\ Users \cap Globals = {} /\ Own \notin Regs
  /\ NoMessage \notin Messages
  /\ Sent \subseteq Kinds /\ MaxMessages \in Nat

VARIABLES
  inbox,      \* messages Redis has delivered to the connection
  held,       \* message the listener thread is working on
  batch,      \* callbacks it has copied and not yet called
  open,       \* the client's table: topics with the manager's own callback
  installed,  \* the client's table: the users' callbacks
  users,      \* the tracker's tables: the job's registrations
  globals,    \* _global_callbacks
  calls,      \* how far each user's call of listen() has come
  done,       \* is the future done?
  cleaning,   \* thread that holds the tracker's lock to clean up
  endedBy,    \* history: the thread that completed the job
  submitted,  \* tasks given to the executor, per registration
  late,       \* history: of these, after the job was done
  owed,       \* history: registrations that must get the message in hand, until
              \* another thread completes the job
  published,  \* history: messages the worker has published
  final       \* history: has it published its terminal status?

tableVars  == <<open, installed>>
listenVars == <<users, globals, calls>>
endVars    == <<done, cleaning, endedBy>>
taskVars   == <<submitted, late, owed>>
histVars   == <<published, final>>
vars == <<inbox, held, batch, tableVars, listenVars, endVars, taskVars, histVars>>

Init ==
  /\ inbox = <<>> /\ held = NoMessage /\ batch = {}
  /\ open = Events /\ installed = {}
  /\ users = {} /\ globals = {} /\ calls = [u \in Users |-> "none"]
  /\ done = FALSE /\ cleaning = "nobody" /\ endedBy = "nobody"
  /\ submitted = [r \in Regs |-> <<>>] /\ late = [r \in Regs |-> 0]
  /\ owed = {}
  /\ published = 0 /\ final = FALSE

On(regs, e) == {r \in regs : EventOf[r] = e}

\* Users whose call of listen() is in progress.
Pending == {u \in Users : calls[u] # "none"}

\* The tracker's lock: held over several steps only to clean up.
Unlocked == cleaning = "nobody"

\* UNSUBSCRIBE raised during the cleanup: topics not reached keep their callbacks.
Leaked == done /\ Unlocked /\ open # {}

\* executor.submit for each of the registrations; what is handed to a callback whose
\* listen() has not returned yet is not counted.
Submit(regs, m) ==
  /\ submitted' = [r \in Regs |-> IF r \in regs THEN Append(submitted[r], m) ELSE submitted[r]]
  /\ late' = [r \in Regs |-> IF done /\ r \in regs \ Pending THEN late[r] + 1 ELSE late[r]]

-----------------------------------------------------------------------------
(* apply_status and the cleanup it ends with, under the tracker's lock. *)

\* The job is completed and its status listeners are told; from here on everybody
\* sees the future done, while the callbacks are still there.
Apply(m, who) ==
  \/ done /\ UNCHANGED <<taskVars, endVars>>
  \/ /\ ~done
     /\ Submit(On(users \cup globals, "status"), m)
     /\ owed' = IF who = "other" THEN {} ELSE owed \ On(users \cup globals, "status")
     /\ IF m.kind = "end" THEN done' = TRUE /\ cleaning' = who /\ endedBy' = who
                          ELSE UNCHANGED endVars

\* The monitor, a cancellation or a removal completes the job; what the listener
\* thread has not dispatched yet is owed to nobody any more.
EndByOther ==
  /\ ~done /\ Unlocked
  /\ Apply(MadeUp, "other")
  /\ UNCHANGED <<inbox, held, batch, tableVars, listenVars, histVars>>

\* Fault: the client keeps the users' callbacks of the topic.
DropOwnOnly(e) ==
  /\ cleaning # "nobody" /\ e \in open
  /\ open' = open \ {e} /\ installed' = installed
  /\ users' = users \ On(users, e)
  /\ UNCHANGED <<inbox, held, batch, globals, calls, done, endedBy, taskVars, histVars>>

\* One topic goes, in any order: first the tracker's registrations, then, under the
\* client's lock, all its callbacks in the client's table, those of calls of listen()
\* in progress included.
Drop(e) ==
  /\ cleaning # "nobody" /\ e \in open
  /\ open' = open \ {e} /\ installed' = installed \ On(installed, e)
  /\ users' = users \ On(users, e)
  /\ UNCHANGED <<inbox, held, batch, globals, calls, done, endedBy, taskVars, histVars>>

DropTopic(e) == Drop(e) /\ cleaning' = IF open' = {} THEN "nobody" ELSE cleaning

\* UNSUBSCRIBE raises, after the callbacks of this topic are gone: the cleanup ends
\* there and is never resumed, as the job's set of topics has been popped.
DropRaises(e) == Drop(e) /\ cleaning' = "nobody"

-----------------------------------------------------------------------------
(* The listener thread. *)

\* Fault: the next message is fetched before the callbacks of the last have run.
TakeEarly ==
  /\ cleaning # "listener" /\ inbox # <<>>
  /\ held' = Head(inbox) /\ inbox' = Tail(inbox) /\ batch' = {}
  /\ owed' = owed \cup (IF done THEN {} ELSE On(users \cup globals, Event(held'.kind)))
  /\ UNCHANGED <<tableVars, listenVars, endVars, submitted, late, histVars>>

Take ==
  /\ cleaning # "listener" /\ held = NoMessage /\ inbox # <<>>
  /\ held' = Head(inbox) /\ inbox' = Tail(inbox)
  /\ owed' = IF done THEN {} ELSE On(users \cup globals, Event(held'.kind))
  /\ UNCHANGED <<batch, tableVars, listenVars, endVars, submitted, late, histVars>>

\* Fault: nothing catches the error of a payload that does not decode.
SkipRaises ==
  /\ held # NoMessage /\ held.kind = "garbage" /\ batch = {}
  /\ batch' = {"raised"}
  /\ UNCHANGED <<inbox, held, tableVars, listenVars, endVars, taskVars, histVars>>

\* _normalize_message raises; the loop goes on with the next message.
Skip ==
  /\ held # NoMessage /\ held.kind = "garbage" /\ batch = {}
  /\ held' = NoMessage
  /\ UNCHANGED <<inbox, batch, tableVars, listenVars, endVars, taskVars, histVars>>

\* The callbacks of the channel are copied under the client's lock: the manager's
\* own, registered first, and the users'.  If there are none, the message is dropped.
Copy ==
  /\ held # NoMessage /\ held.kind # "garbage" /\ batch = {}
  /\ batch' = {c \in {Own} : Event(held.kind) \in open} \cup On(installed, Event(held.kind))
  /\ held' = IF batch' = {} THEN NoMessage ELSE held
  /\ UNCHANGED <<inbox, tableVars, listenVars, endVars, taskVars, histVars>>

\* The callback c has returned, or raised and was logged.
Called(c) ==
  /\ cleaning # "listener" /\ c \in batch
  /\ batch' = batch \ {c}
  /\ held' = IF batch' = {} THEN NoMessage ELSE held
  /\ UNCHANGED <<inbox, tableVars, listenVars, histVars>>

\* The manager's own callback, which waits for the tracker's lock: the job's status,
\* or the manager-wide listeners, whether the job is done or not.
CallOwn ==
  /\ Unlocked
  /\ Called(Own)
  /\ IF Event(held.kind) = "status"
     THEN Apply(held, "listener")
     ELSE /\ Submit(On(globals, Event(held.kind)), held)
          /\ owed' = owed \ On(globals, Event(held.kind))
          /\ UNCHANGED endVars

\* Fault: the callback of a status listener runs also when Redis calls it.
CallUserTwice(u) ==
  /\ Own \notin batch /\ Called(u)
  /\ Submit({u}, held) /\ owed' = owed \ {u}
  /\ UNCHANGED endVars

\* A user's callback: wrapped_callback submits it, without a lock or a look at the
\* future; of a status listener only _ignore_status_message is in the client's table.
CallUser(u) ==
  /\ Own \notin batch /\ Called(u)
  /\ IF EventOf[u] = "status" THEN UNCHANGED taskVars
     ELSE Submit({u}, held) /\ owed' = owed \ {u}
  /\ UNCHANGED endVars

-----------------------------------------------------------------------------
(* Users come and go; the worker publishes. *)

\* listen() on the job finds it active, under the tracker's lock ...
Check(u) ==
  /\ Unlocked /\ ~done
  /\ u \notin users /\ calls[u] = "none"
  /\ calls' = [calls EXCEPT ![u] = "checked"]
  /\ UNCHANGED <<inbox, held, batch, tableVars, users, globals, endVars, taskVars, histVars>>

\* ... puts the callback into the client's table without it, ...
Subscribe(u) ==
  /\ calls[u] = "checked"
  /\ installed' = installed \cup {u}
  /\ calls' = [calls EXCEPT ![u] = "subscribed"]
  /\ UNCHANGED <<inbox, held, batch, open, users, globals, endVars, taskVars, histVars>>

\* ... unless SUBSCRIBE raises, which is sent only for a topic without callbacks, ...
SubscribeRaises(u) ==
  /\ calls[u] = "checked"
  /\ EventOf[u] \notin open /\ On(installed, EventOf[u]) = {}
  /\ calls' = [calls EXCEPT ![u] = "none"]
  /\ UNCHANGED <<inbox, held, batch, tableVars, users, globals, endVars, taskVars, histVars>>

\* ... and, with the lock again, registers it, or takes it out and raises if the job
\* is done by now.
Register(u) ==
  /\ Unlocked /\ calls[u] = "subscribed"
  /\ calls' = [calls EXCEPT ![u] = "none"]
  /\ IF done THEN installed' = installed \ {u} /\ users' = users
             ELSE users' = users \cup {u} /\ installed' = installed
  /\ UNCHANGED <<inbox, held, batch, open, globals, endVars, taskVars, histVars>>

\* A registration is removed from both tables; the message in hand is not owed to it.
Unlisten(u) ==
  /\ Unlocked /\ u \in users
  /\ users' = users \ {u} /\ installed' = installed \ {u} /\ owed' = owed \ {u}
  /\ UNCHANGED <<inbox, held, batch, open, globals, calls, endVars, submitted, late, histVars>>

ListenGlobal(g) ==
  /\ Unlocked /\ g \notin globals
  /\ globals' = globals \cup {g}
  /\ UNCHANGED <<inbox, held, batch, tableVars, users, calls, endVars, taskVars, histVars>>

UnlistenGlobal(g) ==
  /\ Unlocked /\ g \in globals
  /\ globals' = globals \ {g} /\ owed' = owed \ {g}
  /\ UNCHANGED <<inbox, held, batch, tableVars, users, calls, endVars, submitted, late, histVars>>

\* The worker publishes nothing after its terminal status: StatusIsLast in
\* WorkerProofs.
Publish(k) ==
  /\ published < MaxMessages /\ ~final
  /\ published' = published + 1
  /\ final' = (k = "end")
  /\ inbox' = Append(inbox, [n |-> published + 1, kind |-> k])
  /\ UNCHANGED <<held, batch, tableVars, listenVars, endVars, taskVars>>

-----------------------------------------------------------------------------
Listener == Take \/ Skip \/ Copy \/ CallOwn \/ \E u \in Users : CallUser(u)
Cleanup  == \E e \in Events : DropTopic(e) \/ DropRaises(e)
Listen(u) == Check(u) \/ Subscribe(u) \/ SubscribeRaises(u) \/ Register(u)

Next ==
  \/ Listener \/ EndByOther \/ Cleanup
  \/ \E u \in Users : Listen(u) \/ Unlisten(u)
  \/ \E g \in Globals : ListenGlobal(g) \/ UnlistenGlobal(g)
  \/ \E k \in Sent : Publish(k)

Spec == Init /\ [][Next]_vars

\* The listener thread keeps running, and whoever cleans up comes to an end.
FairSpec == Spec /\ WF_vars(Listener) /\ WF_vars(Cleanup)

-----------------------------------------------------------------------------
(* Properties. *)

\* The values of the variables.
TypeOK ==
  /\ inbox \in Seq(Messages)
  /\ held \in Messages \cup {NoMessage}
  /\ batch \subseteq {Own} \cup Users
  /\ open \subseteq Events /\ installed \subseteq Users
  /\ users \subseteq Users /\ globals \subseteq Globals /\ owed \subseteq Regs
  /\ calls \in [Users -> {"none", "checked", "subscribed"}]
  /\ done \in BOOLEAN /\ final \in BOOLEAN
  /\ cleaning \in {"nobody", "listener", "other"}
  /\ endedBy \in {"nobody", "listener", "other"}
  /\ submitted \in [Regs -> Seq(Messages)]
  /\ late \in [Regs -> Nat]
  /\ published \in 0..MaxMessages

\* A registration gets the worker's messages in the order they were published,
\* each at most once, although status messages take two paths through the code
\* and registrations come and go while a message is being dispatched.
InOrderOnce ==
  \A r \in Regs : \A k, m \in DOMAIN submitted[r] :
    k < m /\ submitted[r][m] # MadeUp => submitted[r][k].n < submitted[r][m].n

\* A registration that is there when a message is taken from Redis, and stays,
\* has been handed the message when the listener is done with it, whatever other
\* registrations come and go, unless another thread completes the job meanwhile.
NobodyLeftOut == held = NoMessage => owed = {}

\* After the end of a job a status listener hears nothing, and nobody does if the
\* worker itself reported it.  If another thread completes the job while messages are
\* being dispatched, a manager-wide listener hears at most one more, the message that
\* waits for the tracker's lock, and a user's listener at most two: that in the
\* listener's hands and the next, copied before the cleanup reaches the topic.  A
\* cleanup that raises leaves callbacks for good: then there is no bound.
LateBound(r) ==
  IF EventOf[r] = "status" \/ endedBy # "other" THEN 0 ELSE IF r \in Globals THEN 1 ELSE 2

NothingAfterTheEnd ==
  \A r \in Regs : late[r] <= LateBound(r) \/ (Leaked /\ LateBound(r) # 0)

\* The listener never gets stuck: all that Redis has delivered is dispatched,
\* payloads that do not decode included.
KeepsDispatching ==
  inbox # <<>> ~> inbox = <<>> /\ held = NoMessage

-----------------------------------------------------------------------------
(* Why the safety properties hold: an inductive invariant. *)

\* Callbacks are left only of the message in hand, and of users who asked for its event.
BatchInv ==
  /\ held = NoMessage => batch = {}
  /\ \A u \in batch \ {Own} : EventOf[u] = Event(held.kind)

\* The two tables: a user's callback is installed if it is registered or its listen()
\* is about to register it, and is registered only with the manager's own beside it,
\* which is there until the cleanup.  A call of listen() begins before the end.
TableInv ==
  /\ done <=> endedBy # "nobody"
  /\ ~Unlocked => done /\ cleaning = endedBy /\ open # {}
  /\ ~done => open = Events /\ \A u \in Users : calls[u] = "subscribed" => u \in installed
  /\ \A u \in users : u \in installed /\ EventOf[u] \in open /\ calls[u] = "none"
  /\ \A u \in installed : u \in users \/ calls[u] = "subscribed"

\* The end the worker reports is the last message, and when the listener has completed
\* the job with it, nothing is left but status listeners who ignore it.
FinalInv ==
  /\ \A k \in DOMAIN inbox : inbox[k].kind = "end" => final /\ k = Len(inbox)
  /\ held # NoMessage /\ held.kind = "end" => final /\ inbox = <<>>
  /\ endedBy = "listener" =>
       /\ final /\ inbox = <<>> /\ Own \notin batch
       /\ held # NoMessage => held.kind = "end" /\ batch # {}

\* The message in hand may still be submitted for r.
MayGet(r) ==
  /\ held # NoMessage
  /\ \/ batch = {}
     \/ r \in batch /\ EventOf[r] # "status"
     \/ Own \in batch /\ EventOf[r] = Event(held.kind)

\* Messages are numbered in the order in which they were published, the one in hand
\* comes before those in the inbox ...
OrderInv ==
  /\ \A k \in DOMAIN inbox : /\ 0 < inbox[k].n /\ inbox[k].n <= published
                             /\ held # NoMessage => held.n < inbox[k].n
                             /\ \A m \in DOMAIN inbox : k < m => inbox[k].n < inbox[m].n
  /\ held # NoMessage => 0 < held.n /\ held.n <= published

\* ... and nobody has been given a message he may still get, or a later one.
SubmittedInv ==
  \A r \in Regs : \A k \in DOMAIN submitted[r] :
    /\ submitted[r][k].n <= published
    /\ \A m \in DOMAIN inbox : submitted[r][k].n < inbox[m].n
    /\ held # NoMessage => submitted[r][k].n <= held.n
    /\ MayGet(r) => submitted[r][k].n < held.n

\* A registration owed the message in hand is among those that will get it: with
\* the manager's own callback, or with a callback of its own.
OwedInv ==
  \A r \in owed :
    /\ ~done /\ held # NoMessage /\ r \in users \cup globals /\ EventOf[r] = Event(held.kind)
    /\ \/ batch = {}
       \/ Own \in batch /\ (Event(held.kind) = "status" \/ r \in globals)
       \/ r \in batch /\ Event(held.kind) # "status"

\* A user's listener: one message while the job is cleaned up, or one more if it is
\* among the callbacks copied then.
LateUser(u) ==
  /\ late[u] <= 2
  /\ u \in batch => late[u] <= 1
  /\ ~Unlocked => late[u] <= 1 /\ (late[u] = 1 /\ u \in batch => Own \in batch)

\* A manager-wide listener: the message waiting for the tracker's lock.
LateGlobal(g) ==
  /\ late[g] <= 1
  /\ ~Unlocked => late[g] = 0
  /\ Own \in batch /\ EventOf[g] = Event(held.kind) => late[g] = 0

\* How a bound on late messages is used up.  While another thread cleans up, a user's
\* listener gets only what was copied without the manager's own callback still to run;
\* after a cleanup that went through nothing is copied but for a listen() in progress,
\* which is not counted.
LateInv ==
  /\ \A r \in Regs : late[r] # 0 => endedBy = "other" /\ EventOf[r] # "status"
  /\ \A u \in Pending : late[u] = 0
  /\ ~Leaked => /\ \A u \in Users : LateUser(u)
                /\ \A g \in Globals : LateGlobal(g)

DispatchInv ==
  /\ TypeOK /\ BatchInv /\ TableInv /\ FinalInv /\ OrderInv /\ SubmittedInv /\ OwedInv
  /\ LateInv /\ InOrderOnce
=============================================================================
