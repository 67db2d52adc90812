---------------------------- MODULE ThreadsProofs ----------------------------
(* No threads wait for each other, and one of them reports the end of the    *)
(* job, for any number of application threads and pool threads.              *)
EXTENDS Threads, TLAPS

-----------------------------------------------------------------------------
(* Running a sequence of operations. *)

\* The points of a call are points, and the start and end of a call is one.
LEMMA PointTyped ==
  /\ \A h \in Nat : \A p \in Phases :
       Point(h, p) \in Points /\ Point(h, p).held = h /\ Point(h, p).phase = p
  /\ \A a \in Points : a.held \in Nat /\ a.phase \in Phases /\ a = Point(a.held, a.phase)
BY DEF Point, Points

\* What an operation works on is settled by what it is.
LEMMA OpTyped ==
  ASSUME NEW x \in Ops
  PROVE  /\ x[1] \in {"take", "drop"} => x[2] = "tracker"
         /\ x[1] \in {"return if done", "complete"} => x[2] = "future"
         /\ x[1] = "touch" => x[2] \in Locks
         /\ x[1] = "submit" => x = <<"submit", x[2]>> /\ x[2] \in Final \cup {"other"}
         /\ x[1] = "drain" => x \notin CallOps
<1>1. CASE x \in CallOps
  <2>1. /\ x[1] \in {"take", "drop"} => x[2] = "tracker"
        /\ x[1] \in {"return if done", "complete"} => x[2] = "future"
        /\ x[1] = "touch" => x[2] \in Locks
        /\ x[1] # "drain"
    BY <1>1 DEF CallOps
  <2>2. x[1] = "submit" => x = <<"submit", x[2]>> /\ x[2] \in Final \cup {"other"}
    <3>1. x[1] = "submit" => x \in {"submit"} \X (Final \cup {"other"})
      BY <1>1 DEF CallOps
    <3>2. x \in {"submit"} \X (Final \cup {"other"}) => x = <<"submit",
                                                              x[2]>> /\ x[2] \in Final \cup {"other"}
      OBVIOUS
    <3> QED BY <3>1, <3>2
  <2> QED BY <2>1, <2>2
<1>2. CASE x \in ({"stop", "join"} \X {"monitor"}) \cup ({"close", "drain"} \X {"pool"})
  <2>1. x[1] \in {"stop", "join", "close", "drain"}
    BY <1>2
  <2>2. \A y \in CallOps : y[1] # "drain"
    BY DEF CallOps
  <2> QED BY <2>1, <2>2
<1> QED BY <1>1, <1>2 DEF Ops

\* Doing nothing.
LEMMA RunsNothing ==
  ASSUME NEW ops, NEW a \in Points
  PROVE  Runs(ops, <<>>, a, a)
<1> DEFINE f == [k \in 1..1 |-> a]
<1>1. f \in [1..1 -> Points] /\ f[1] = a
  OBVIOUS
<1>2. <<>> \in Seq(ops) /\ Len(<<>>) = 0
  OBVIOUS
<1> HIDE DEF f
<1> QED BY <1>1, <1>2 DEF Runs

\* Where nothing is left to do, one is at the end.
LEMMA NothingRuns ==
  ASSUME NEW ops, NEW a, NEW b, Runs(ops, <<>>, a, b)
  PROVE  a = b
BY DEF Runs

\* One operation.
LEMMA RunsOne ==
  ASSUME NEW ops, NEW x \in ops, NEW a \in Points, NEW b \in Points, Leads(x, a, b)
  PROVE  Runs(ops, <<x>>, a, b)
<1> DEFINE f == [k \in 1..2 |-> IF k = 1 THEN a ELSE b]
<1>1. f \in [1..2 -> Points] /\ f[1] = a /\ f[2] = b
  OBVIOUS
<1>2. <<x>> \in Seq(ops) /\ Len(<<x>>) = 1 /\ <<x>>[1] = x
  OBVIOUS
<1> HIDE DEF f
<1>3. \A k \in 1..1 : Leads(<<x>>[k], f[k], f[k + 1])
  BY <1>1, <1>2
<1> QED BY <1>1, <1>2, <1>3 DEF Runs

\* One sequence after the other.
LEMMA RunsOn ==
  ASSUME NEW ops, NEW s, NEW t, NEW a, NEW b, NEW c, Runs(ops, s, a, b), Runs(ops, t, b, c)
  PROVE  Runs(ops, s \o t, a, c)
<1>1. s \in Seq(ops) /\ t \in Seq(ops)
  BY DEF Runs
<1>2. PICK f \in [1..(Len(s) + 1) -> Points] :
        /\ f[1] = a /\ f[Len(s) + 1] = b
        /\ \A k \in 1..Len(s) : Leads(s[k], f[k], f[k + 1])
  BY DEF Runs
<1>3. PICK g \in [1..(Len(t) + 1) -> Points] :
        /\ g[1] = b /\ g[Len(t) + 1] = c
        /\ \A k \in 1..Len(t) : Leads(t[k], g[k], g[k + 1])
  BY DEF Runs
<1> DEFINE n == Len(s)
           m == Len(t)
           h == [k \in 1..(n + m + 1) |-> IF k <= n THEN f[k] ELSE g[k - n]]
<1>4. /\ s \o t \in Seq(ops) /\ Len(s \o t) = n + m /\ n \in Nat /\ m \in Nat
      /\ \A k \in 1..n : (s \o t)[k] = s[k]
      /\ \A k \in 1..(n + m) : k > n => (s \o t)[k] = t[k - n]
  BY <1>1
<1>5. h \in [1..(n + m + 1) -> Points]
  BY <1>4
<1>6. h[n + m + 1] = c
  BY <1>3, <1>4
<1>7. h[1] = a
  BY <1>2, <1>3, <1>4
<1>8. ASSUME NEW k \in 1..(n + m) PROVE Leads((s \o t)[k], h[k], h[k + 1])
  <2>1. CASE k < n
    <3>1. h[k] = f[k] /\ h[k + 1] = f[k + 1] /\ k \in 1..n
      BY <1>4, <2>1
    <3> QED BY <1>2, <1>4, <3>1
  <2>2. CASE k = n
    <3>1. h[k] = f[k] /\ h[k + 1] = g[1] /\ k \in 1..n
      BY <1>4, <2>2
    <3> QED BY <1>2, <1>3, <1>4, <2>2, <3>1
  <2>3. CASE k > n
    <3>1. h[k] = g[k - n] /\ h[k + 1] = g[k - n + 1] /\ k - n \in 1..m /\ (s \o t)[k] = t[k - n]
      BY <1>4, <2>3
    <3> HIDE DEF h
    <3> QED BY <1>3, <3>1
  <2> QED BY <1>4, <2>1, <2>2, <2>3
<1> HIDE DEF h
<1> QED BY <1>4, <1>5, <1>6, <1>7, <1>8 DEF Runs

\* The first operation and the rest.
LEMMA RunsFirst ==
  ASSUME NEW ops, NEW s, NEW a, NEW b, Runs(ops, s, a, b), s # <<>>
  PROVE  /\ Head(s) \in ops /\ a \in Points
         /\ \E c \in Points : Leads(Head(s), a, c) /\ Runs(ops, Tail(s), c, b)
<1>1. s \in Seq(ops)
  BY DEF Runs
<1>2. PICK f \in [1..(Len(s) + 1) -> Points] :
        /\ f[1] = a /\ f[Len(s) + 1] = b
        /\ \A k \in 1..Len(s) : Leads(s[k], f[k], f[k + 1])
  BY DEF Runs
<1> DEFINE n == Len(s)
           g == [k \in 1..n |-> f[k + 1]]
<1>3. /\ n \in Nat /\ n > 0 /\ Head(s) = s[1] /\ Head(s) \in ops
      /\ Tail(s) \in Seq(ops) /\ Len(Tail(s)) + 1 = n
      /\ \A k \in 1..Len(Tail(s)) : Tail(s)[k] = s[k + 1] /\ k + 1 \in 1..n
  BY <1>1
<1>4. g \in [1..n -> Points] /\ g[1] = f[2] /\ g[n] = f[n + 1] /\ f[2] \in Points
  BY <1>3
<1>5. Leads(Head(s), a, f[2])
  BY <1>2, <1>3
<1>6. \A k \in 1..Len(Tail(s)) : g[k] = f[k + 1] /\ g[k + 1] = f[k + 2]
  BY <1>3
<1>7. \A k \in 1..Len(Tail(s)) : Leads(Tail(s)[k], g[k], g[k + 1])
  BY <1>2, <1>3, <1>6
<1> HIDE DEF g
<1>8. Runs(ops, Tail(s), f[2], b)
  BY <1>2, <1>3, <1>4, <1>7 DEF Runs
<1>9. a \in Points
  BY <1>2, <1>3
<1> QED BY <1>3, <1>4, <1>5, <1>8, <1>9

\* More operations may be allowed.
LEMMA RunsAmong ==
  ASSUME NEW s, NEW a, NEW b, Runs(CallOps, s, a, b)
  PROVE  Runs(Ops, s, a, b)
<1>1. \A r \in Seq(CallOps) : r \in Seq(Ops)
  BY DEF Ops
<1> QED BY <1>1 DEF Runs

-----------------------------------------------------------------------------
(* The calls. *)

\* Outside of every call no lock is held.
LEMMA OutsideTyped == Outside \in Points /\ Outside.held = 0 /\ Outside.phase = "nothing"
BY PointTyped DEF Outside, Phases

\* Taking a lock for a moment leads nowhere.
LEMMA RunsTouch ==
  ASSUME NEW l \in Locks, NEW a \in Points
  PROVE  Runs(CallOps, Touch(l), a, a)
<1>1. <<"touch", l>> \in CallOps
  BY DEF CallOps
<1>2. Leads(<<"touch", l>>, a, a)
  BY DEF Leads
<1> QED BY <1>1, <1>2, RunsOne DEF Touch

\* Nor do the calls of the client, and the other locks.
LEMMA RunsClient ==
  ASSUME NEW a \in Points
  PROVE  Runs(CallOps, ClientCall, a, a) /\ Runs(CallOps, Touch("tracker"), a, a)
         /\ Runs(CallOps, Touch("future"), a, a)
BY RunsTouch DEF ClientCall, Locks

\* Callbacks other than those for the end of the job lead nowhere either.
LEMMA RunsSubmit ==
  ASSUME NEW h \in Nat
  PROVE  /\ \A p \in Phases : Runs(CallOps, Submit("other"), Point(h, p), Point(h, p))
         /\ Runs(CallOps, Submit("listener"), Point(h, "completed"), Point(h, "told listeners"))
         /\ Runs(CallOps, Submit("global"), Point(h, "told listeners"), Point(h, "told all"))
<1>1. \A k \in Final \cup {"other"} : <<"submit", k>> \in CallOps
  BY DEF CallOps
<1>2. ASSUME NEW p \in Phases
      PROVE  Runs(CallOps, Submit("other"), Point(h, p), Point(h, p))
  <2>1. Point(h, p) \in Points
    BY PointTyped
  <2>2. Leads(<<"submit", "other">>, Point(h, p), Point(h, p))
    BY DEF Leads
  <2> QED BY <1>1, <2>1, <2>2, RunsOne DEF Submit
<1>3. /\ Point(h, "completed") \in Points /\ Point(h, "told listeners") \in Points
      /\ Point(h, "told all") \in Points
  BY PointTyped DEF Phases
<1>4. Leads(<<"submit", "listener">>, Point(h, "completed"), Point(h, "told listeners"))
  BY DEF Leads, Point
<1>5. Leads(<<"submit", "global">>, Point(h, "told listeners"), Point(h, "told all"))
  BY DEF Leads, Point
<1> QED BY <1>1, <1>2, <1>3, <1>4, <1>5, RunsOne DEF Submit, Final

\* With the tracker's lock: what has been done about the end is forgotten when the
\* lock is given back for good.
LEMMA RunsWith ==
  ASSUME NEW h \in Nat, NEW p \in Phases, NEW q \in Phases, NEW body,
         Runs(CallOps, body, Point(h + 1, p), Point(h + 1, q))
  PROVE  Runs(CallOps, With("tracker", body), Point(h, p), Point(h, IF h = 0 THEN "nothing" ELSE q))
<1> DEFINE r == IF h = 0 THEN "nothing" ELSE q
<1>1. <<"take", "tracker">> \in CallOps /\ <<"drop", "tracker">> \in CallOps
  BY DEF CallOps
<1>2. r \in Phases
  BY DEF Phases
<1>3. /\ Point(h, p) \in Points /\ Point(h + 1, p) \in Points /\ Point(h + 1, q) \in Points
      /\ Point(h, r) \in Points
  BY <1>2, PointTyped
<1>4. Leads(<<"take", "tracker">>, Point(h, p), Point(h + 1, p))
  BY DEF Leads, Point
<1>5. Leads(<<"drop", "tracker">>, Point(h + 1, q), Point(h, r))
  BY DEF Leads, Point
<1>6. Runs(CallOps, <<<<"take", "tracker">>>>, Point(h, p), Point(h + 1, p))
  BY <1>1, <1>3, <1>4, RunsOne
<1>7. Runs(CallOps, <<<<"drop", "tracker">>>>, Point(h + 1, q), Point(h, r))
  BY <1>1, <1>3, <1>5, RunsOne
<1>8. Runs(CallOps, <<<<"take", "tracker">>>> \o body, Point(h, p), Point(h + 1, q))
  BY <1>6, RunsOn
<1> HIDE DEF r
<1>9. Runs(CallOps, (<<<<"take", "tracker">>>> \o body) \o <<<<"drop", "tracker">>>>, Point(h, p),
           Point(h, r))
  BY <1>7, <1>8, RunsOn
<1> USE DEF r
<1> QED BY <1>9 DEF With

\* A call that takes the tracker's lock at its start ends where it began.
LEMMA RunsWithOutside ==
  ASSUME NEW q \in Phases, NEW body,
         Runs(CallOps, body, Point(1, "nothing"), Point(1, q))
  PROVE  Runs(CallOps, With("tracker", body), Outside, Outside)
<1>1. "nothing" \in Phases
  BY DEF Phases
<1>2. 0 \in Nat /\ 0 + 1 = 1
  OBVIOUS
<1>3. Runs(CallOps, With("tracker", body), Point(0, "nothing"), Point(0,
           IF 0 = 0 THEN "nothing" ELSE q))
  BY <1>1, <1>2, RunsWith
<1> QED BY <1>3 DEF Outside

\* Telling the manager-wide listeners of the end, or of something else.
LEMMA RunsGlobal ==
  /\ \A h \in Nat \ {0} :
       Runs(CallOps, DispatchGlobal("global"), Point(h, "told listeners"), Point(h, "told all"))
  /\ \A h \in Nat \ {0} : \A p \in Phases :
       Runs(CallOps, DispatchGlobal("other"), Point(h, p), Point(h, p))
<1>1. ASSUME NEW h \in Nat \ {0}
      PROVE  Runs(CallOps, DispatchGlobal("global"), Point(h, "told listeners"), Point(h, "told all"))
  <2>1. "told listeners" \in Phases /\ "told all" \in Phases /\ h + 1 \in Nat
    BY DEF Phases
  <2>2. Runs(CallOps, Submit("global"), Point(h + 1, "told listeners"), Point(h + 1, "told all"))
    BY <2>1, RunsSubmit
  <2> QED BY <2>1, <2>2, RunsWith DEF DispatchGlobal
<1>2. ASSUME NEW h \in Nat \ {0}, NEW p \in Phases
      PROVE  Runs(CallOps, DispatchGlobal("other"), Point(h, p), Point(h, p))
  <2>1. h + 1 \in Nat
    OBVIOUS
  <2>2. Runs(CallOps, Submit("other"), Point(h + 1, p), Point(h + 1, p))
    BY <2>1, RunsSubmit
  <2> QED BY <2>2, RunsWith DEF DispatchGlobal
<1> QED BY <1>1, <1>2

\* Cleaning up after a job.
LEMMA RunsCleanup ==
  ASSUME NEW h \in Nat, NEW p \in Phases, h = 0 => p = "nothing"
  PROVE  Runs(CallOps, Cleanup, Point(h, p), Point(h, p))
<1>1. Point(h + 1, p) \in Points
  BY PointTyped
<1>2. Runs(CallOps, ClientCall \o Touch("tracker"), Point(h + 1, p), Point(h + 1, p))
  BY <1>1, RunsClient, RunsOn
<1>3. Runs(CallOps, With("tracker", ClientCall \o Touch("tracker")),
           Point(h, p), Point(h, IF h = 0 THEN "nothing" ELSE p))
  BY <1>2, RunsWith
<1> QED BY <1>3 DEF Cleanup

\* apply_status tests done() before it completes the future and tells everybody.
LEMMA RunsTest ==
  ASSUME NEW h \in Nat \ {0}
  PROVE  /\ Runs(CallOps, <<<<"return if done", "future">>>>, Point(h, "nothing"), Point(h, "tested"))
         /\ Runs(CallOps, <<<<"complete", "future">>>>, Point(h, "tested"), Point(h, "completed"))
<1>1. <<"return if done", "future">> \in CallOps /\ <<"complete", "future">> \in CallOps
  BY DEF CallOps
<1>2. /\ Point(h, "nothing") \in Points /\ Point(h, "tested") \in Points
      /\ Point(h, "completed") \in Points
  BY PointTyped DEF Phases
<1>3. Leads(<<"return if done", "future">>, Point(h, "nothing"), Point(h, "tested"))
  BY DEF Leads, Point
<1>4. Leads(<<"complete", "future">>, Point(h, "tested"), Point(h, "completed"))
  BY DEF Leads, Point
<1> QED BY <1>1, <1>2, <1>3, <1>4, RunsOne

\* Two operations are one after the other.
LEMMA OneByOne ==
  ASSUME NEW x, NEW y
  PROVE  <<x, y>> = <<x>> \o <<y>>
<1> DEFINE s == <<x, y>>
           t == <<x>> \o <<y>>
<1>1. s \in Seq({x, y}) /\ Len(s) = 2 /\ s[1] = x /\ s[2] = y
  OBVIOUS
<1>2. <<x>> \in Seq({x, y}) /\ <<y>> \in Seq({x, y}) /\ Len(<<x>>) = 1 /\ Len(<<y>>) = 1
      /\ <<x>>[1] = x /\ <<y>>[1] = y
  OBVIOUS
<1>3. t \in Seq({x, y}) /\ Len(t) = 2 /\ t[1] = x /\ t[2] = y
  BY <1>2
<1>4. s \in [1..2 -> {x, y}] /\ t \in [1..2 -> {x, y}]
  <2>1. \A S : \A r \in Seq(S) : r \in [1..Len(r) -> S]
    OBVIOUS
  <2> HIDE DEF s, t
  <2> QED BY <1>1, <1>3, <2>1
<1>5. \A k \in 1..2 : s[k] = t[k]
  BY <1>1, <1>3
<1>6. s = t
  <2> HIDE DEF s, t
  <2> QED BY <1>4, <1>5
<1> QED BY <1>6

\* Applying a terminal status, with the lock held or not.
LEMMA RunsApplyFinal ==
  ASSUME NEW h \in Nat
  PROVE  Runs(CallOps, ApplyFinal, Point(h, "nothing"), Point(h,
              IF h = 0 THEN "nothing" ELSE "told all"))
<1> DEFINE n == h + 1
           Test == <<<<"return if done", "future">>, <<"complete", "future">>>>
<1>1. n \in Nat /\ n # 0 /\ n \in Nat \ {0}
  OBVIOUS
<1>2. "nothing" \in Phases /\ "told all" \in Phases
  BY DEF Phases
<1>3. Test = <<<<"return if done", "future">>>> \o <<<<"complete", "future">>>>
  BY OneByOne, Zenon
<1> HIDE DEF n, Test
<1>4. Runs(CallOps, Test, Point(n, "nothing"), Point(n, "completed"))
  BY <1>1, <1>3, RunsTest, RunsOn
<1>5. Runs(CallOps, Test \o Submit("listener"), Point(n, "nothing"), Point(n, "told listeners"))
  BY <1>1, <1>4, RunsSubmit, RunsOn
<1>6. Runs(CallOps, (Test \o Submit("listener")) \o DispatchGlobal("global"), Point(n, "nothing"),
           Point(n, "told all"))
  BY <1>1, <1>5, RunsGlobal, RunsOn
<1>7. Runs(CallOps, Cleanup, Point(n, "told all"), Point(n, "told all"))
  BY <1>1, <1>2, RunsCleanup
<1>8. Runs(CallOps, ((Test \o Submit("listener")) \o DispatchGlobal("global")) \o Cleanup,
           Point(n, "nothing"), Point(n, "told all"))
  BY <1>6, <1>7, RunsOn
<1> USE DEF n, Test
<1> QED BY <1>2, <1>8, RunsWith DEF ApplyFinal

\* Applying a terminal status as a call of its own.
LEMMA RunsApplyFinalOutside == Runs(CallOps, ApplyFinal, Outside, Outside)
<1>1. 0 \in Nat
  OBVIOUS
<1>2. Runs(CallOps, ApplyFinal, Point(0, "nothing"), Point(0, IF 0 = 0 THEN "nothing" ELSE "told all"))
  BY <1>1, RunsApplyFinal
<1> QED BY <1>2 DEF Outside

\* What the listener thread runs.
LEMMA RunsListener ==
  ASSUME NEW callback \in {ApplyFinal, ApplyRunning, Heartbeat, Submit("other")}
  PROVE  Runs(CallOps, ListenerRound(callback), Outside, Outside)
<1>1. 1 \in Nat \ {0} /\ 0 \in Nat /\ 1 \in Nat
  OBVIOUS
<1>2. "nothing" \in Phases /\ "tested" \in Phases
  BY DEF Phases
<1>3. Point(1, "tested") \in Points
  BY <1>1, <1>2, PointTyped
<1>4. Runs(CallOps, ApplyRunning, Outside, Outside)
  <2>1. Runs(CallOps, <<<<"return if done", "future">>>> \o Touch("future"), Point(1, "nothing"),
             Point(1, "tested"))
    BY <1>1, <1>3, RunsTest, RunsClient, RunsOn
  <2>2. Runs(CallOps, (<<<<"return if done", "future">>>> \o Touch("future")) \o Submit("other"),
             Point(1, "nothing"), Point(1, "tested"))
    BY <1>1, <1>2, <2>1, RunsSubmit, RunsOn
  <2>3. Runs(CallOps, ((<<<<"return if done", "future">>>> \o Touch("future")) \o Submit("other"))
                        \o DispatchGlobal("other"),
             Point(1, "nothing"), Point(1, "tested"))
    BY <1>1, <1>2, <2>2, RunsGlobal, RunsOn
  <2> QED BY <1>2, <2>3, RunsWithOutside DEF ApplyRunning
<1>5. Runs(CallOps, Heartbeat, Outside, Outside)
  <2>1. Runs(CallOps, DispatchGlobal("other"), Point(1, "nothing"), Point(1, "nothing"))
    BY <1>1, <1>2, RunsGlobal
  <2> QED BY <1>2, <2>1, RunsWithOutside DEF Heartbeat
<1>6. Runs(CallOps, Submit("other"), Outside, Outside)
  BY <1>1, <1>2, RunsSubmit DEF Outside
<1>7. Runs(CallOps, callback, Outside, Outside)
  BY <1>4, <1>5, <1>6, RunsApplyFinalOutside
<1>8. Runs(CallOps, ClientCall \o ClientCall, Outside, Outside)
  BY OutsideTyped, RunsClient, RunsOn
<1> QED BY <1>7, <1>8, RunsOn DEF ListenerRound

\* What the monitor runs.
LEMMA RunsMonitor == Runs(CallOps, MonitorRound, Outside, Outside)
<1>1. Runs(CallOps, Touch("tracker") \o Touch("tracker"), Outside, Outside)
  BY OutsideTyped, RunsClient, RunsOn
<1> QED BY <1>1, RunsApplyFinalOutside, RunsOn DEF MonitorRound

\* What the application and its callbacks call.
LEMMA RunsUserCall ==
  ASSUME NEW call \in UserCalls
  PROVE  Runs(CallOps, call, Outside, Outside)
<1>1. /\ Runs(CallOps, ClientCall, Outside, Outside)
      /\ Runs(CallOps, Touch("tracker"), Outside, Outside)
      /\ Runs(CallOps, Touch("future"), Outside, Outside)
  BY OutsideTyped, RunsClient
<1>2. 0 \in Nat /\ 1 \in Nat
  OBVIOUS
<1>3. "nothing" \in Phases /\ "told all" \in Phases
  BY DEF Phases
<1>4. Runs(CallOps, With("tracker", ClientCall), Outside, Outside)
  <2>1. Runs(CallOps, ClientCall, Point(1, "nothing"), Point(1, "nothing"))
    BY <1>2, <1>3, PointTyped, RunsClient
  <2> QED BY <1>3, <2>1, RunsWithOutside
<1>5. Runs(CallOps, Touch("tracker") \o ClientCall, Outside, Outside)
  BY <1>1, RunsOn
<1>6. Runs(CallOps, (Touch("tracker") \o ClientCall) \o Touch("tracker"), Outside, Outside)
  BY <1>1, <1>5, RunsOn
<1>7. Runs(CallOps, ListenReturns, Outside, Outside)
  BY <1>1, <1>6, RunsOn DEF ListenReturns
<1>8. Runs(CallOps, ListenRaises, Outside, Outside)
  BY <1>4, <1>5, RunsOn DEF ListenRaises
<1>9. Runs(CallOps, Unlisten, Outside, Outside)
  BY <1>1, <1>4, RunsOn DEF Unlisten
<1>10. Runs(CallOps, RemoveJob, Outside, Outside)
  <2>1. (IF 1 = 0 THEN "nothing" ELSE "told all") = "told all"
    OBVIOUS
  <2>2. Runs(CallOps, ApplyFinal, Point(1, "nothing"), Point(1, "told all"))
    BY <1>2, <2>1, RunsApplyFinal
  <2> QED BY <1>3, <2>2, RunsWithOutside DEF RemoveJob
<1>11. Runs(CallOps, Cleanup, Outside, Outside)
  BY <1>2, <1>3, RunsCleanup DEF Outside
<1>12. Runs(CallOps, CancelJob, Outside, Outside)
  BY <1>1, RunsApplyFinalOutside, RunsOn DEF CancelJob
<1>13. Runs(CallOps, SubmitJob, Outside, Outside)
  <2>1. Runs(CallOps, ((Touch("tracker") \o ClientCall) \o Touch("tracker")) \o ClientCall,
             Outside, Outside)
    BY <1>1, <1>6, RunsOn
  <2>2. Runs(CallOps,
             (((Touch("tracker") \o ClientCall) \o Touch("tracker")) \o ClientCall) \o Touch("tracker"),
             Outside, Outside)
    BY <1>1, <2>1, RunsOn
  <2>3. Runs(CallOps,
             ((((Touch("tracker") \o ClientCall) \o Touch("tracker")) \o ClientCall) \o Touch("tracker"))
                        \o ClientCall, Outside, Outside)
    BY <1>1, <2>2, RunsOn
  <2>4. Runs(CallOps, Track, Outside, Outside)
    BY <1>1, <2>3, RunsOn DEF Track
  <2>5. Runs(CallOps, Track \o Touch("tracker"), Outside, Outside)
    BY <1>1, <2>4, RunsOn
  <2> QED BY <1>1, <2>5, RunsOn DEF SubmitJob
<1> QED BY <1>7, <1>8, <1>9, <1>10, <1>11, <1>12, <1>13 DEF UserCalls

\* shutdown() holds no lock while it waits for the callbacks.
LEMMA RunsShutdown == Runs(Ops, Shutdown, Outside, Outside)
<1>1. /\ Runs(Ops, ClientCall, Outside, Outside)
      /\ Runs(Ops, Touch("tracker"), Outside, Outside)
  BY OutsideTyped, RunsClient, RunsAmong
<1>2. ASSUME NEW x \in ({"stop", "join"} \X {"monitor"}) \cup ({"close", "drain"} \X {"pool"})
      PROVE  Runs(Ops, <<x>>, Outside, Outside)
  <2>1. x \in Ops
    BY DEF Ops
  <2>2. x[1] \in {"stop", "join", "close", "drain"}
    OBVIOUS
  <2>3. \A k : x # <<"submit", k>>
    BY <2>2
  <2>4. Leads(x, Outside, Outside)
    BY <2>2, <2>3, OutsideTyped DEF Leads
  <2> QED BY <2>1, <2>4, OutsideTyped, RunsOne
<1> DEFINE Stop == <<<<"stop", "monitor">>, <<"join", "monitor">>>>
           Close == <<<<"close", "pool">>, <<"drain", "pool">>>>
<1>3. Stop = <<<<"stop", "monitor">>>> \o <<<<"join", "monitor">>>>
  BY OneByOne, Zenon
<1>4. Close = <<<<"close", "pool">>>> \o <<<<"drain", "pool">>>>
  BY OneByOne, Zenon
<1> HIDE DEF Stop, Close
<1>5. Runs(Ops, Stop, Outside, Outside) /\ Runs(Ops, Close, Outside, Outside)
  BY <1>2, <1>3, <1>4, RunsOn
<1>6. Runs(Ops, Stop \o Touch("tracker"), Outside, Outside)
  BY <1>1, <1>5, RunsOn
<1>7. Runs(Ops, (Stop \o Touch("tracker")) \o ClientCall, Outside, Outside)
  BY <1>1, <1>6, RunsOn
<1>8. Runs(Ops, ((Stop \o Touch("tracker")) \o ClientCall) \o Close, Outside, Outside)
  BY <1>5, <1>7, RunsOn
<1>9. Close = <<<<"close", "pool">>, <<"drain", "pool">>>>
  BY DEF Close
<1> USE DEF Stop
<1> QED BY <1>8, <1>9 DEF Shutdown

-----------------------------------------------------------------------------
(* The steps. *)

\* Where a thread is, is a point.
LEMMA NowTyped ==
  ASSUME TypeOK, NEW t \in Threads, NEW p \in Phases
  PROVE  /\ Now(t, p) \in Points /\ Now(t, p).phase = p
         /\ Now(t, p).held = IF owner["tracker"] = t THEN depth["tracker"] ELSE 0
<1>1. depth["tracker"] \in Nat
  BY DEF TypeOK, Locks
<1> QED BY <1>1, PointTyped DEF Now

\* What a thread in a call does next, and what is left of the call.
LEMMA NextOp ==
  ASSUME ThreadsInv, NEW t \in Threads, ~Idle(t)
  PROVE  /\ Head(todo[t]) \in Ops /\ Head(todo[t]) \in OpsOf(t)
         /\ \E p \in Phases : \E c \in Points :
              /\ Reported(t, p) /\ Leads(Head(todo[t]), Now(t, p), c)
              /\ Runs(OpsOf(t), Tail(todo[t]), c, Outside)
<1>1. PICK p \in Phases : Reported(t, p) /\ Runs(OpsOf(t), todo[t], Now(t, p), Outside)
  BY DEF ThreadsInv, CallsEnd
<1>2. todo[t] # <<>>
  BY DEF Idle
<1>3. Head(todo[t]) \in OpsOf(t)
  BY <1>1, <1>2, RunsFirst
<1>4. Head(todo[t]) \in Ops
  BY <1>3 DEF OpsOf, Ops
<1>5. \E c \in Points : Leads(Head(todo[t]), Now(t, p), c) /\ Runs(OpsOf(t), Tail(todo[t]), c, Outside)
  BY <1>1, <1>2, RunsFirst
<1> QED BY <1>1, <1>3, <1>4, <1>5

\* A thread with nothing to do holds no lock.
LEMMA IdleHoldsNothing ==
  ASSUME ThreadsInv, NEW t \in Threads, Idle(t)
  PROVE  owner["tracker"] # t
<1>1. PICK p \in Phases : Runs(OpsOf(t), <<>>, Now(t, p), Outside)
  BY DEF ThreadsInv, CallsEnd, Idle
<1>2. Now(t, p) = Outside
  BY <1>1, NothingRuns
<1>3. Now(t, p).held = 0
  BY <1>2, OutsideTyped
<1>4. owner["tracker"] = t => depth["tracker"] = 0
  BY <1>3, NowTyped DEF ThreadsInv
<1>5. owner["tracker"] = t => depth["tracker"] > 0
  BY ThreadAssumption DEF ThreadsInv, LocksInv
<1> QED BY <1>4, <1>5

\* A step of t keeps the calls in order if what is left for t fits where it is then,
\* and t has the lock when it reports something.
LEMMA CallsContinue ==
  ASSUME ThreadsInv, NEW t \in Threads, NEW s, NEW q \in Phases,
         todo' = [todo EXCEPT ![t] = s],
         Reported(t, q)', Runs(OpsOf(t), s, Now(t, q)', Outside),
         \A u \in Threads \ {t} : /\ owner'["tracker"] = u <=> owner["tracker"] = u
                                  /\ owner["tracker"] = u => depth'["tracker"] = depth["tracker"],
         UNCHANGED <<done, told>> \/ owner["tracker"] = t
  PROVE  CallsEnd' /\ todo' \in [Threads -> Seq(Ops)]
<1>1. s \in Seq(OpsOf(t)) /\ \A r \in Seq(OpsOf(t)) : r \in Seq(Ops)
  BY DEF Runs, OpsOf, Ops
<1>2. todo \in [Threads -> Seq(Ops)]
  BY DEF ThreadsInv, TypeOK
<1>3. todo' \in [Threads -> Seq(Ops)] /\ todo'[t] = s /\ \A u \in Threads \ {t} : todo'[u] = todo[u]
  BY <1>1, <1>2
<1>4. ASSUME NEW u \in Threads \ {t}
      PROVE  \E p \in Phases : Reported(u, p)' /\ Runs(OpsOf(u), todo'[u], Now(u, p)', Outside)
  <2>1. PICK p \in Phases : Reported(u, p) /\ Runs(OpsOf(u), todo[u], Now(u, p), Outside)
    BY DEF ThreadsInv, CallsEnd
  <2>2. Now(u, p)' = Now(u, p)
    BY DEF Now
  <2>3. Reported(u, p)'
    <3>1. CASE UNCHANGED <<done, told>>
      BY <2>1, <3>1 DEF Reported
    <3>2. CASE owner["tracker"] = t
      BY <2>1, <3>2 DEF Reported
    <3> QED BY <3>1, <3>2
  <2> QED BY <1>3, <2>1, <2>2, <2>3
<1>5. \E p \in Phases : Reported(t, p)' /\ Runs(OpsOf(t), todo'[t], Now(t, p)', Outside)
  BY <1>3
<1> QED BY <1>3, <1>4, <1>5 DEF CallsEnd

\* An operation that changes neither locks nor what has been reported.
LEMMA PlainStep ==
  ASSUME ThreadsInv, NEW t \in Threads, ~Idle(t), Advance(t),
         UNCHANGED <<owner, depth, done, told>>,
         \/ Head(todo[t])[1] \in {"touch", "stop", "join", "close", "drain"}
         \/ Head(todo[t]) = <<"submit", "other">>
  PROVE  CallsEnd' /\ LocksInv' /\ QueuedOnce' /\ todo' \in [Threads -> Seq(Ops)]
<1>1. PICK p \in Phases, c \in Points :
        /\ Reported(t, p) /\ Leads(Head(todo[t]), Now(t, p), c)
        /\ Runs(OpsOf(t), Tail(todo[t]), c, Outside)
  BY NextOp
<1>2. c = Now(t, p)
  BY <1>1 DEF Leads
<1>3. Now(t, p)' = Now(t, p) /\ Reported(t, p)'
  BY <1>1 DEF Now, Reported
<1>4. todo' = [todo EXCEPT ![t] = Tail(todo[t])]
  BY DEF Advance
<1>5. CallsEnd' /\ todo' \in [Threads -> Seq(Ops)]
  BY <1>1, <1>2, <1>3, <1>4, CallsContinue
<1> QED BY <1>5 DEF ThreadsInv, LocksInv, QueuedOnce

\* Leaving a call gives back the tracker's lock.
LEMMA LeaveStep ==
  ASSUME ThreadsInv, NEW t \in Threads, Leave(t), UNCHANGED <<done, told>>
  PROVE  /\ CallsEnd' /\ LocksInv' /\ QueuedOnce' /\ todo' \in [Threads -> Seq(Ops)]
         /\ owner' \in [Locks -> Threads \cup {NoOne}] /\ depth' \in [Locks -> Nat]
<1>1. /\ todo' = [todo EXCEPT ![t] = <<>>]
      /\ owner' = [l \in Locks |-> IF owner[l] = t THEN NoOne ELSE owner[l]]
      /\ depth' = [l \in Locks |-> IF owner[l] = t THEN 0 ELSE depth[l]]
  BY DEF Leave
<1>2. owner' \in [Locks -> Threads \cup {NoOne}] /\ depth' \in [Locks -> Nat]
  BY <1>1 DEF ThreadsInv, TypeOK
<1>3. {"tracker", "client", "future"} = Locks /\ t # NoOne
  BY ThreadAssumption DEF Locks
<1>4. owner'["tracker"] # t
  BY <1>1, <1>3
<1>5. LocksInv'
  BY <1>1, <1>3 DEF ThreadsInv, LocksInv
<1>6. "nothing" \in Phases /\ Reported(t, "nothing")' /\ Now(t, "nothing")' = Outside
  BY <1>4 DEF Phases, Reported, Now, Outside
<1>7. Runs(OpsOf(t), <<>>, Now(t, "nothing")', Outside)
  BY <1>6, OutsideTyped, RunsNothing
<1>8. \A u \in Threads \ {t} : /\ owner'["tracker"] = u <=> owner["tracker"] = u
                               /\ owner["tracker"] = u => depth'["tracker"] = depth["tracker"]
  BY <1>1, <1>3, ThreadAssumption
<1>9. CallsEnd' /\ todo' \in [Threads -> Seq(Ops)]
  BY <1>1, <1>6, <1>7, <1>8, CallsContinue
<1>10. QueuedOnce'
  BY DEF ThreadsInv, QueuedOnce
<1> QED BY <1>2, <1>5, <1>9, <1>10

\* The tracker's lock is taken, once more if it is taken already.
LEMMA TakeStep ==
  ASSUME ThreadsInv, NEW t \in Threads, Take(t) PROVE ThreadsInv'
<1>1. ~Idle(t) /\ Head(todo[t])[1] = "take" /\ Arg(t) = "tracker"
  BY NextOp, OpTyped DEF Take, At, Arg
<1>2. /\ owner["tracker"] \in {NoOne, t}
      /\ owner' = [owner EXCEPT !["tracker"] = t]
      /\ depth' = [depth EXCEPT !["tracker"] = depth["tracker"] + 1]
      /\ todo' = [todo EXCEPT ![t] = Tail(todo[t])]
      /\ UNCHANGED <<done, queue, told, stop, closed, messages>>
  BY <1>1 DEF Take, Free, Advance
<1>3. PICK p \in Phases, c \in Points :
        /\ Reported(t, p) /\ Leads(Head(todo[t]), Now(t, p), c)
        /\ Runs(OpsOf(t), Tail(todo[t]), c, Outside)
  BY <1>1, NextOp
<1>4. /\ owner \in [Locks -> Threads \cup {NoOne}] /\ depth \in [Locks -> Nat]
      /\ {"tracker", "client", "future"} = Locks /\ t # NoOne
  BY ThreadAssumption DEF ThreadsInv, TypeOK, Locks
<1>5. /\ owner' \in [Locks -> Threads \cup {NoOne}] /\ depth' \in [Locks -> Nat]
      /\ owner'["tracker"] = t /\ depth'["tracker"] = depth["tracker"] + 1
      /\ owner'["client"] = owner["client"] /\ owner'["future"] = owner["future"]
  BY <1>2, <1>4
<1>6. LocksInv'
  BY <1>4, <1>5 DEF ThreadsInv, LocksInv
<1>7. owner["tracker"] # t => depth["tracker"] = 0
  BY <1>2, <1>4 DEF ThreadsInv, LocksInv
<1>8. Now(t, p)' = c
  <2>1. c = Point(Now(t, p).held + 1, Now(t, p).phase)
    BY <1>1, <1>3 DEF Leads
  <2>2. Now(t, p).held = depth["tracker"] /\ Now(t, p).phase = p
    BY <1>7, NowTyped DEF ThreadsInv
  <2>3. Now(t, p)' = Point(depth["tracker"] + 1, p)
    BY <1>5 DEF Now
  <2> QED BY <2>1, <2>2, <2>3
<1>9. Reported(t, p)'
  BY <1>2, <1>3, <1>5 DEF Reported
<1>10. \A u \in Threads \ {t} : /\ owner'["tracker"] = u <=> owner["tracker"] = u
                                /\ owner["tracker"] = u => depth'["tracker"] = depth["tracker"]
  BY <1>2, <1>5, ThreadAssumption
<1>11. CallsEnd' /\ todo' \in [Threads -> Seq(Ops)]
  BY <1>2, <1>3, <1>8, <1>9, <1>10, CallsContinue
<1>12. TypeOK'
  BY <1>2, <1>5, <1>11 DEF ThreadsInv, TypeOK
<1> QED BY <1>2, <1>6, <1>11, <1>12 DEF ThreadsInv, QueuedOnce

\* A lock is only given back by its owner.
LEMMA DropStep ==
  ASSUME ThreadsInv, NEW t \in Threads, Drop(t) PROVE ThreadsInv'
<1>1. ~Idle(t) /\ Head(todo[t])[1] = "drop" /\ Arg(t) = "tracker"
  BY NextOp, OpTyped DEF Drop, At, Arg
<1>2. /\ owner' = IF depth["tracker"] = 1 THEN [owner EXCEPT !["tracker"] = NoOne] ELSE owner
      /\ depth' = [depth EXCEPT !["tracker"] = depth["tracker"] - 1]
      /\ todo' = [todo EXCEPT ![t] = Tail(todo[t])]
      /\ UNCHANGED <<done, queue, told, stop, closed, messages>>
  BY <1>1 DEF Drop, Advance
<1>3. PICK p \in Phases, c \in Points :
        /\ Reported(t, p) /\ Leads(Head(todo[t]), Now(t, p), c)
        /\ Runs(OpsOf(t), Tail(todo[t]), c, Outside)
  BY <1>1, NextOp
<1> PICK d : d = depth["tracker"]
  OBVIOUS
<1> PICK q \in Phases : q = IF d = 1 THEN "nothing" ELSE p
  BY DEF Phases
<1>4. /\ owner \in [Locks -> Threads \cup {NoOne}] /\ depth \in [Locks -> Nat]
      /\ {"tracker", "client", "future"} = Locks /\ t # NoOne /\ d \in Nat
  BY ThreadAssumption DEF ThreadsInv, TypeOK, Locks
<1>5. /\ Now(t, p).held > 0
      /\ c = Point(Now(t, p).held - 1, IF Now(t, p).held = 1 THEN "nothing" ELSE Now(t, p).phase)
  BY <1>1, <1>3 DEF Leads
<1>6. /\ Now(t, p).held = (IF owner["tracker"] = t THEN d ELSE 0) /\ Now(t, p).phase = p
  BY NowTyped DEF ThreadsInv
<1>7. owner["tracker"] = t /\ d > 0 /\ c = Point(d - 1, q)
  BY <1>5, <1>6
<1>8. /\ depth' \in [Locks -> Nat] /\ depth'["tracker"] = d - 1
  BY <1>2, <1>4, <1>7
<1>9. /\ owner' \in [Locks -> Threads \cup {NoOne}]
      /\ owner'["tracker"] = IF d = 1 THEN NoOne ELSE t
      /\ owner'["client"] = owner["client"] /\ owner'["future"] = owner["future"]
  BY <1>2, <1>4, <1>7
<1>10. LocksInv'
  BY <1>4, <1>7, <1>8, <1>9 DEF ThreadsInv, LocksInv
<1>11. Now(t, q)' = c
  BY <1>4, <1>7, <1>8, <1>9 DEF Now
<1>12. Reported(t, q)'
  BY <1>2, <1>3, <1>9 DEF Reported
<1>13. \A u \in Threads \ {t} : /\ owner'["tracker"] = u <=> owner["tracker"] = u
                                /\ owner["tracker"] = u => depth'["tracker"] = depth["tracker"]
  BY <1>7, <1>9, ThreadAssumption
<1>14. CallsEnd' /\ todo' \in [Threads -> Seq(Ops)]
  BY <1>2, <1>3, <1>11, <1>12, <1>13, CallsContinue
<1>15. TypeOK'
  BY <1>2, <1>8, <1>9, <1>14 DEF ThreadsInv, TypeOK
<1> QED BY <1>2, <1>10, <1>14, <1>15 DEF ThreadsInv, QueuedOnce

\* Done is tested with the tracker's lock held.
LEMMA ReturnIfDoneStep ==
  ASSUME ThreadsInv, NEW t \in Threads, ReturnIfDone(t) PROVE ThreadsInv'
<1>1. ~Idle(t) /\ Head(todo[t])[1] = "return if done"
      /\ UNCHANGED <<done, queue, told, stop, closed, messages>>
  BY DEF ReturnIfDone, At
<1>2. CASE done
  <2>1. Leave(t)
    BY <1>2 DEF ReturnIfDone
  <2>2. /\ CallsEnd' /\ LocksInv' /\ QueuedOnce' /\ todo' \in [Threads -> Seq(Ops)]
        /\ owner' \in [Locks -> Threads \cup {NoOne}] /\ depth' \in [Locks -> Nat]
    BY <1>1, <2>1, LeaveStep
  <2> QED BY <1>1, <2>2 DEF ThreadsInv, TypeOK
<1>3. CASE ~done
  <2>1. todo' = [todo EXCEPT ![t] = Tail(todo[t])] /\ UNCHANGED <<owner, depth>>
    BY <1>3 DEF ReturnIfDone, Advance
  <2>2. PICK p \in Phases, c \in Points :
          /\ Reported(t, p) /\ Leads(Head(todo[t]), Now(t, p), c)
          /\ Runs(OpsOf(t), Tail(todo[t]), c, Outside)
    BY <1>1, NextOp
  <2>3. Now(t, p).held > 0 /\ c = Point(Now(t, p).held, "tested")
    BY <1>1, <2>2 DEF Leads
  <2>4. Now(t, p).held = (IF owner["tracker"] = t THEN depth["tracker"] ELSE 0)
    BY NowTyped DEF ThreadsInv
  <2>5. owner["tracker"] = t /\ c = Now(t, "tested")
    BY <2>3, <2>4 DEF Now
  <2>6. Now(t, "tested")' = Now(t, "tested")
    BY <2>1 DEF Now
  <2>7. "tested" \in Phases /\ Reported(t, "tested")'
    BY <1>1, <1>3, <2>1, <2>5 DEF Phases, Reported
  <2>8. CallsEnd' /\ todo' \in [Threads -> Seq(Ops)]
    BY <1>1, <2>1, <2>2, <2>5, <2>6, <2>7, CallsContinue
  <2>9. TypeOK'
    BY <1>1, <2>1, <2>8 DEF ThreadsInv, TypeOK
  <2> QED BY <1>1, <2>1, <2>8, <2>9 DEF ThreadsInv, LocksInv, QueuedOnce
<1> QED BY <1>2, <1>3

\* The future is completed by the thread that has tested it.
LEMMA CompleteStep ==
  ASSUME ThreadsInv, NEW t \in Threads, Complete(t) PROVE ThreadsInv'
<1>1. ~Idle(t) /\ Head(todo[t])[1] = "complete" /\ done' = TRUE
      /\ UNCHANGED <<owner, depth, queue, told, stop, closed, messages>>
      /\ todo' = [todo EXCEPT ![t] = Tail(todo[t])]
  BY DEF Complete, At, Advance
<1>2. PICK p \in Phases, c \in Points :
        /\ Reported(t, p) /\ Leads(Head(todo[t]), Now(t, p), c)
        /\ Runs(OpsOf(t), Tail(todo[t]), c, Outside)
  BY <1>1, NextOp
<1>3. Now(t, p).phase = "tested" /\ c = Point(Now(t, p).held, "completed")
  BY <1>1, <1>2 DEF Leads
<1>4. Now(t, p).phase = p /\ Now(t, p).held = (IF owner["tracker"] = t THEN depth["tracker"] ELSE 0)
  BY NowTyped DEF ThreadsInv
<1>5. owner["tracker"] = t /\ ~done /\ c = Now(t, "completed")
  BY <1>2, <1>3, <1>4 DEF Reported, Now
<1>6. Now(t, "completed")' = Now(t, "completed")
  BY <1>1 DEF Now
<1>7. told["listener"] = 0 /\ told["global"] = 0
  <2>1. told["listener"] \in Nat /\ told["global"] \in Nat
    BY DEF ThreadsInv, TypeOK, Final
  <2>2. told["listener"] <= 0 /\ told["global"] <= 0
    BY <1>5 DEF ThreadsInv, QueuedOnce, Final
  <2> QED BY <2>1, <2>2
<1>8. "completed" \in Phases /\ Reported(t, "completed")'
  BY <1>1, <1>5, <1>7 DEF Phases, Reported
<1>9. CallsEnd' /\ todo' \in [Threads -> Seq(Ops)]
  BY <1>1, <1>2, <1>5, <1>6, <1>8, CallsContinue
<1>10. TypeOK'
  BY <1>1, <1>9 DEF ThreadsInv, TypeOK
<1>11. QueuedOnce'
  <2>1. \A k \in Final : told'[k] = 0
    BY <1>1, <1>7 DEF Final
  <2> QED BY <1>1, <2>1 DEF QueuedOnce
<1> QED BY <1>1, <1>9, <1>10, <1>11 DEF ThreadsInv, LocksInv

\* Appending to the executor's queue, and taking from it.
LEMMA QueueTyped ==
  ASSUME TypeOK
  PROVE  /\ \A k \in Final \cup {"other"} : Append(queue, k) \in Seq(Final \cup {"other"})
         /\ queue # <<>> => Tail(queue) \in Seq(Final \cup {"other"})
<1>1. queue \in Seq(Final \cup {"other"})
  BY DEF TypeOK
<1>2. \A S : \A s \in Seq(S) : \A e \in S : Append(s, e) \in Seq(S)
  OBVIOUS
<1>3. \A S : \A s \in Seq(S) : s # <<>> => Tail(s) \in Seq(S)
  OBVIOUS
<1> QED BY <1>1, <1>2, <1>3

\* Callbacks for the end of the job are queued by the thread that completed it, and
\* once.
LEMMA SubmitStep ==
  ASSUME ThreadsInv, NEW t \in Threads, SubmitCallback(t) PROVE ThreadsInv'
<1> PICK k : k = Arg(t)
  OBVIOUS
<1>1. ~Idle(t) /\ Head(todo[t]) = <<"submit", k>> /\ k \in Final \cup {"other"}
      /\ UNCHANGED <<done, stop, closed, messages>>
  BY NextOp, OpTyped DEF SubmitCallback, At, Arg
<1>2. CASE closed
  <2>1. Leave(t) /\ UNCHANGED <<queue, told>>
    BY <1>2 DEF SubmitCallback
  <2>2. /\ CallsEnd' /\ LocksInv' /\ QueuedOnce' /\ todo' \in [Threads -> Seq(Ops)]
        /\ owner' \in [Locks -> Threads \cup {NoOne}] /\ depth' \in [Locks -> Nat]
    BY <1>1, <2>1, LeaveStep
  <2> QED BY <1>1, <2>1, <2>2 DEF ThreadsInv, TypeOK
<1>3. CASE ~closed
  <2>1. /\ queue' = Append(queue, k) /\ todo' = [todo EXCEPT ![t] = Tail(todo[t])]
        /\ told' = IF k \in Final THEN [told EXCEPT ![k] = told[k] + 1] ELSE told
        /\ UNCHANGED <<owner, depth>>
    BY <1>3 DEF SubmitCallback, Advance
  <2>2. told \in [Final -> Nat] /\ Final = {"listener", "global"}
    BY DEF ThreadsInv, TypeOK, Final
  <2>3. queue' \in Seq(Final \cup {"other"})
    BY <1>1, <2>1, QueueTyped DEF ThreadsInv
  <2>4. told' \in [Final -> Nat]
    BY <2>1, <2>2
  <2>5. ASSUME CallsEnd', QueuedOnce', todo' \in [Threads -> Seq(Ops)]
        PROVE  ThreadsInv'
    <3>1. TypeOK'
      BY <1>1, <2>1, <2>3, <2>4, <2>5 DEF ThreadsInv, TypeOK
    <3> QED BY <2>1, <2>5, <3>1 DEF ThreadsInv, LocksInv
  <2>6. CASE k = "other"
    <3>1. UNCHANGED <<owner, depth, done, told>>
      BY <1>1, <2>1, <2>2, <2>6
    <3>2. Head(todo[t]) = <<"submit", "other">> /\ Advance(t)
      BY <1>1, <2>1, <2>6 DEF Advance
    <3> QED BY <1>1, <2>5, <3>1, <3>2, PlainStep
  <2> PICK p \in Phases, c \in Points :
        /\ Reported(t, p) /\ Leads(Head(todo[t]), Now(t, p), c)
        /\ Runs(OpsOf(t), Tail(todo[t]), c, Outside)
    BY <1>1, NextOp
  <2>7. /\ Now(t, p).phase = p
        /\ Now(t, p).held = (IF owner["tracker"] = t THEN depth["tracker"] ELSE 0)
    BY NowTyped DEF ThreadsInv
  <2>8. told["listener"] \in Nat /\ told["global"] \in Nat
    BY <2>2
  <2>9. CASE k = "listener"
    <3>1. p = "completed" /\ c = Point(Now(t, p).held, "told listeners")
      BY <1>1, <2>7, <2>9 DEF Leads
    <3>2. owner["tracker"] = t /\ done /\ told["listener"] = 0 /\ told["global"] = 0
          /\ c = Now(t, "told listeners")
      BY <2>7, <3>1 DEF Reported, Now
    <3>3. told'["listener"] = 1 /\ told'["global"] = 0
      <4>1. told' = [told EXCEPT !["listener"] = told["listener"] + 1]
        BY <2>1, <2>2, <2>9
      <4>2. "listener" \in DOMAIN told /\ "global" \in DOMAIN told
        BY <2>2
      <4>3. told["listener"] = 0 /\ told["global"] = 0
        BY <3>2
      <4> QED BY <4>1, <4>2, <4>3
    <3>4. Now(t, "told listeners")' = Now(t, "told listeners")
      BY <2>1 DEF Now
    <3>5. "told listeners" \in Phases /\ Reported(t, "told listeners")'
      BY <1>1, <2>1, <3>2, <3>3 DEF Phases, Reported
    <3>6. CallsEnd' /\ todo' \in [Threads -> Seq(Ops)]
      BY <2>1, <3>2, <3>4, <3>5, CallsContinue
    <3>7. QueuedOnce'
      <4>1. told'["listener"] <= 1 /\ told'["global"] <= 1
        BY <3>3
      <4>2. done'
        BY <1>1, <3>2
      <4> QED BY <2>2, <4>1, <4>2 DEF QueuedOnce
    <3> QED BY <2>5, <3>6, <3>7
  <2>10. CASE k = "global"
    <3>1. p = "told listeners" /\ c = Point(Now(t, p).held, "told all")
      BY <1>1, <2>7, <2>10 DEF Leads
    <3>2. owner["tracker"] = t /\ done /\ told["global"] = 0 /\ c = Now(t, "told all")
      BY <2>7, <3>1 DEF Reported, Now
    <3>3. told'["listener"] = told["listener"] /\ told'["global"] = 1
      <4>1. told' = [told EXCEPT !["global"] = told["global"] + 1]
        BY <2>1, <2>2, <2>10
      <4>2. "listener" \in DOMAIN told /\ "global" \in DOMAIN told
        BY <2>2
      <4>3. told["global"] = 0
        BY <3>2
      <4> QED BY <4>1, <4>2, <4>3
    <3>4. Now(t, "told all")' = Now(t, "told all")
      BY <2>1 DEF Now
    <3>5. "told all" \in Phases /\ Reported(t, "told all")'
      BY <2>1, <3>2 DEF Phases, Reported
    <3>6. CallsEnd' /\ todo' \in [Threads -> Seq(Ops)]
      BY <2>1, <3>2, <3>4, <3>5, CallsContinue
    <3>7. QueuedOnce'
      <4>1. told["listener"] <= 1
        BY <2>2, <3>2 DEF ThreadsInv, QueuedOnce
      <4>2. told'["listener"] <= 1 /\ told'["global"] <= 1
        BY <3>3, <4>1
      <4>3. done'
        BY <1>1, <3>2
      <4> QED BY <2>2, <4>2, <4>3 DEF QueuedOnce
    <3> QED BY <2>5, <3>6, <3>7
  <2> QED BY <1>1, <2>2, <2>6, <2>9, <2>10
<1> QED BY <1>2, <1>3

\* The other operations of a call, and the errors of Redis.
LEMMA OtherStep ==
  ASSUME ThreadsInv, NEW t \in Threads,
         \/ TouchLock(t) \/ RedisFails(t) \/ StopMonitor(t) \/ JoinMonitor(t)
         \/ ClosePool(t) \/ DrainPool(t)
  PROVE  ThreadsInv'
<1>1. /\ ~Idle(t) /\ UNCHANGED <<done, queue, told, messages>>
      /\ stop' \in BOOLEAN /\ closed' \in BOOLEAN
      /\ \/ Leave(t)
         \/ /\ Advance(t) /\ UNCHANGED <<owner, depth>>
            /\ Head(todo[t])[1] \in {"touch", "stop", "join", "close", "drain"}
  BY DEF TouchLock, RedisFails, StopMonitor, JoinMonitor, ClosePool, DrainPool, At, ThreadsInv, TypeOK
<1>2. CASE Leave(t)
  <2>1. /\ CallsEnd' /\ LocksInv' /\ QueuedOnce' /\ todo' \in [Threads -> Seq(Ops)]
        /\ owner' \in [Locks -> Threads \cup {NoOne}] /\ depth' \in [Locks -> Nat]
    BY <1>1, <1>2, LeaveStep
  <2> QED BY <1>1, <2>1 DEF ThreadsInv, TypeOK
<1>3. CASE /\ Advance(t) /\ UNCHANGED <<owner, depth>>
           /\ Head(todo[t])[1] \in {"touch", "stop", "join", "close", "drain"}
  <2>1. CallsEnd' /\ LocksInv' /\ QueuedOnce' /\ todo' \in [Threads -> Seq(Ops)]
    BY <1>1, <1>3, PlainStep
  <2> QED BY <1>1, <1>3, <2>1 DEF ThreadsInv, TypeOK
<1> QED BY <1>1, <1>2, <1>3

\* A call starts outside of everything.
LEMMA StartStep ==
  ASSUME ThreadsInv, NEW t \in Threads, NEW call, Start(t, call), Runs(OpsOf(t), call, Outside,
         Outside),
         queue' = queue \/ (queue # <<>> /\ queue' = Tail(queue)),
         stop' = stop, messages' \in 0..MaxMessages
  PROVE  ThreadsInv'
<1>1. Idle(t) /\ todo' = [todo EXCEPT ![t] = call] /\ UNCHANGED <<owner, depth, done, told, closed>>
  BY DEF Start
<1>2. owner["tracker"] # t
  BY <1>1, IdleHoldsNothing
<1>3. "nothing" \in Phases /\ Reported(t, "nothing")' /\ Now(t, "nothing")' = Outside
  BY <1>1, <1>2 DEF Phases, Reported, Now, Outside
<1>4. CallsEnd' /\ todo' \in [Threads -> Seq(Ops)]
  BY <1>1, <1>3, CallsContinue
<1>5. queue' \in Seq(Final \cup {"other"})
  BY QueueTyped DEF ThreadsInv, TypeOK
<1>6. TypeOK'
  BY <1>1, <1>4, <1>5 DEF ThreadsInv, TypeOK
<1> QED BY <1>1, <1>4, <1>6 DEF ThreadsInv, LocksInv, QueuedOnce

\* A call without a wait for the pool may be made by every thread.
LEMMA Allowed ==
  ASSUME NEW t, NEW call, Runs(CallOps, call, Outside, Outside)
  PROVE  Runs(OpsOf(t), call, Outside, Outside)
BY RunsAmong DEF OpsOf

\* A thread of the pool takes a callback that does not use the manager.
LEMMA PlainCallbackStep ==
  ASSUME ThreadsInv, NEW t \in Threads, RunPlainCallback(t) PROVE ThreadsInv'
<1>1. queue # <<>> /\ queue' = Tail(queue)
      /\ UNCHANGED <<owner, depth, todo, done, told, stop, closed, messages>>
  BY DEF RunPlainCallback
<1>2. queue' \in Seq(Final \cup {"other"})
  BY <1>1, QueueTyped DEF ThreadsInv
<1>3. TypeOK'
  BY <1>1, <1>2 DEF ThreadsInv, TypeOK
<1> QED BY <1>1, <1>3 DEF ThreadsInv, LocksInv, CallsEnd, Reported, Now, QueuedOnce

\* The calls that threads start.
LEMMA CallsStart ==
  ASSUME ThreadsInv,
         \/ \E t \in Users : UserCall(t)
         \/ \E t \in Pool : RunCallback(t)
         \/ Monitor \/ ListenFinal \/ ListenOther
  PROVE  ThreadsInv'
<1>1. messages \in 0..MaxMessages /\ MaxMessages \in Nat
  BY ThreadAssumption DEF ThreadsInv, TypeOK
<1>2. ASSUME NEW t \in Users, UserCall(t) PROVE ThreadsInv'
  <2>1. PICK call \in UserCalls \cup {Shutdown} : Start(t, call)
    BY <1>2 DEF UserCall
  <2>2. Runs(Ops, call, Outside, Outside)
    BY RunsUserCall, RunsAmong, RunsShutdown
  <2>3. t \in Threads /\ OpsOf(t) = Ops
    BY DEF Threads, OpsOf
  <2>4. UNCHANGED <<queue, stop, messages>>
    BY <1>2 DEF UserCall
  <2> QED BY <1>1, <2>1, <2>2, <2>3, <2>4, StartStep
<1>3. ASSUME NEW t \in Pool, RunCallback(t) PROVE ThreadsInv'
  <2>1. PICK call \in UserCalls : Start(t, call)
    BY <1>3 DEF RunCallback
  <2>2. t \in Threads /\ Runs(OpsOf(t), call, Outside, Outside)
    BY RunsUserCall, Allowed DEF Threads
  <2>3. queue # <<>> /\ queue' = Tail(queue) /\ UNCHANGED <<stop, messages>>
    BY <1>3 DEF RunCallback
  <2> QED BY <1>1, <2>1, <2>2, <2>3, StartStep
<1>4. ASSUME Monitor PROVE ThreadsInv'
  <2>1. Start("monitor", MonitorRound) /\ UNCHANGED <<queue, stop, messages>>
    BY <1>4 DEF Monitor
  <2>2. "monitor" \in Threads /\ Runs(OpsOf("monitor"), MonitorRound, Outside, Outside)
    BY RunsMonitor, Allowed DEF Threads
  <2> QED BY <1>1, <2>1, <2>2, StartStep
<1>5. ASSUME ListenFinal \/ ListenOther PROVE ThreadsInv'
  <2>1. PICK callback \in {ApplyFinal, ApplyRunning, Heartbeat, Submit("other")} :
          Start("listener", ListenerRound(callback))
    BY <1>5 DEF ListenFinal, ListenOther
  <2>2. "listener" \in Threads /\ Runs(OpsOf("listener"), ListenerRound(callback), Outside, Outside)
    BY RunsListener, Allowed DEF Threads
  <2>3. UNCHANGED <<queue, stop>> /\ messages' \in 0..MaxMessages
    BY <1>1, <1>5 DEF ListenFinal, ListenOther
  <2> QED BY <2>1, <2>2, <2>3, StartStep
<1> QED BY <1>2, <1>3, <1>4, <1>5

-----------------------------------------------------------------------------
(* The theorems. *)

\* Whatever calls the threads make, and however their operations are interleaved, the
\* inductive invariant of Threads holds.
THEOREM ThreadsInvariant == Spec => []ThreadsInv
<1>1. Init => ThreadsInv
  <2> SUFFICES ASSUME Init PROVE ThreadsInv
    OBVIOUS
  <2>1. {"tracker", "client", "future"} = Locks
    BY DEF Locks
  <2>2. TypeOK
    <3>1. owner \in [Locks -> Threads \cup {NoOne}] /\ depth \in [Locks -> Nat]
      BY DEF Init
    <3>2. todo \in [Threads -> Seq(Ops)] /\ queue \in Seq(Final \cup {"other"})
      BY DEF Init
    <3>3. told \in [Final -> Nat] /\ messages \in 0..MaxMessages
      BY ThreadAssumption DEF Init
    <3> QED BY <3>1, <3>2, <3>3 DEF Init, TypeOK
  <2>3. LocksInv
    BY <2>1 DEF Init, LocksInv
  <2>4. CallsEnd
    <3> SUFFICES ASSUME NEW t \in Threads
                 PROVE  /\ "nothing" \in Phases /\ Reported(t, "nothing")
                        /\ Runs(OpsOf(t), todo[t], Now(t, "nothing"), Outside)
      BY DEF CallsEnd
    <3>1. todo[t] = <<>> /\ Now(t, "nothing") = Outside
      BY <2>1, ThreadAssumption DEF Init, Now, Outside
    <3>2. Runs(OpsOf(t), <<>>, Outside, Outside)
      BY OutsideTyped, RunsNothing
    <3>3. "nothing" \in Phases /\ Reported(t, "nothing")
      BY DEF Phases, Reported
    <3> QED BY <3>1, <3>2, <3>3
  <2>5. QueuedOnce
    BY DEF Init, QueuedOnce
  <2> QED BY <2>2, <2>3, <2>4, <2>5 DEF ThreadsInv
<1>2. ThreadsInv /\ [Next]_vars => ThreadsInv'
  <2> SUFFICES ASSUME ThreadsInv, [Next]_vars PROVE ThreadsInv'
    OBVIOUS
  <2>1. ASSUME NEW t \in Threads, Step(t) \/ RedisFails(t) PROVE ThreadsInv'
    BY <2>1, TakeStep, DropStep, ReturnIfDoneStep, CompleteStep, SubmitStep, OtherStep DEF Step
  <2>2. ASSUME NEW t \in Pool, RunPlainCallback(t) PROVE ThreadsInv'
    <3>1. t \in Threads
      BY DEF Threads
    <3> QED BY <2>2, <3>1, PlainCallbackStep
  <2>3. CASE UNCHANGED vars
    BY <2>3 DEF vars, ThreadsInv, TypeOK, LocksInv, CallsEnd, Reported, Now, QueuedOnce
  <2> QED BY <2>1, <2>2, <2>3, CallsStart DEF Next
<1> QED BY <1>1, <1>2, PTL DEF Spec

\* Of any threads, one does not wait for the others: the owner of the tracker's lock,
\* else a thread of the pool, else anyone, as the other two locks are only held for
\* a moment and shutdown() waits for the pool without a lock.
THEOREM NoDeadlock == Spec => []NoCircularWait
<1>1. ThreadsInv => NoCircularWait
  <2> SUFFICES ASSUME ThreadsInv, NEW S \in (SUBSET Threads) \ {{}}
               PROVE  \E t \in S : \A u \in S : ~WaitsFor(t, u)
    BY DEF NoCircularWait
  <2>1. ASSUME NEW t \in S, NEW u \in S, At(t, "take") \/ At(t, "touch") \/ At(t, "complete"),
               owner[Arg(t)] = u
        PROVE  owner["tracker"] = u
    <3>1. ~Idle(t) /\ Head(todo[t])[1] \in {"take", "touch", "complete"}
      BY <2>1 DEF At
    <3>2. Arg(t) \in Locks
      BY <3>1, NextOp, OpTyped DEF Arg, Locks
    <3>3. u # NoOne
      BY ThreadAssumption
    <3> QED BY <2>1, <3>2, <3>3 DEF Locks, ThreadsInv, LocksInv
  <2>2. ASSUME NEW t \in S, At(t, "drain") PROVE t \notin Pool /\ owner["tracker"] # t
    <3>1. ~Idle(t) /\ Head(todo[t])[1] = "drain"
      BY <2>2 DEF At
    <3>2. Head(todo[t]) \notin CallOps
      BY <3>1, NextOp, OpTyped
    <3>3. t \in Users
      BY <3>1, <3>2, NextOp DEF OpsOf
    <3>4. PICK p \in Phases, c \in Points : Leads(Head(todo[t]), Now(t, p), c)
      BY <3>1, NextOp
    <3>5. Now(t, p).held = 0
      BY <3>1, <3>4 DEF Leads
    <3>6. owner["tracker"] = t => depth["tracker"] = 0
      BY <3>5, NowTyped DEF ThreadsInv
    <3>7. owner["tracker"] # t
      BY <3>6, ThreadAssumption DEF ThreadsInv, LocksInv
    <3> QED BY <3>3, <3>7, ThreadAssumption
  <2>3. CASE owner["tracker"] \in S
    <3>1. \A u \in S : ~WaitsFor(owner["tracker"], u)
      BY <2>1, <2>2, <2>3 DEF WaitsFor
    <3> QED BY <2>3, <3>1
  <2>4. CASE owner["tracker"] \notin S
    <3>1. \A t \in S : \A u \in S : WaitsFor(t, u) => At(t, "drain") /\ u \in Pool
      BY <2>1, <2>4 DEF WaitsFor
    <3>2. CASE \E t \in S : t \in Pool
      BY <2>2, <3>1, <3>2
    <3>3. CASE \A t \in S : t \notin Pool
      <4>1. PICK t \in S : TRUE
        OBVIOUS
      <4> QED BY <3>1, <3>3, <4>1
    <3> QED BY <3>2, <3>3
  <2> QED BY <2>3, <2>4
<1> QED BY <1>1, ThreadsInvariant, PTL

\* However listener, monitor, cancellation and removal race, the callbacks for the end
\* of the job are queued once, and only when its future is done.
THEOREM EndIsReportedOnce == Spec => []QueuedOnce
<1>1. ThreadsInv => QueuedOnce
  BY DEF ThreadsInv
<1> QED BY <1>1, ThreadsInvariant, PTL

\* A call that has returned or raised has given back its locks: nobody waits for a
\* thread that is not at work.
THEOREM LocksComeBack == Spec => []LocksAreReturned
<1>1. ThreadsInv => LocksAreReturned
  <2> SUFFICES ASSUME ThreadsInv, NEW t \in Threads, Idle(t), NEW l \in Locks
               PROVE  owner[l] # t
    BY DEF LocksAreReturned
  <2>1. owner["tracker"] # t
    BY IdleHoldsNothing
  <2>2. owner["client"] # t /\ owner["future"] # t
    BY ThreadAssumption DEF ThreadsInv, LocksInv
  <2> QED BY <2>1, <2>2 DEF Locks
<1> QED BY <1>1, ThreadsInvariant, PTL
=============================================================================
