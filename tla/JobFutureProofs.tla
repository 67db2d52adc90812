--------------------------- MODULE JobFutureProofs ---------------------------
(* The future's two views agree for any number of threads and callbacks. *)
EXTENDS JobFuture, TLAPS

\* The invariant holds for a new future.
LEMMA FutureStart == Init => FutureInv
<1> SUFFICES ASSUME Init PROVE FutureInv
  OBVIOUS
<1>1. TypeOK
  BY DEF Init, TypeOK, Live, Ends, None
<1> QED BY <1>1 DEF Init, FutureInv, DoneIsSettled, WritesAgree, ToldResult, WaiterSeesOutcome,
                     CallbackIsOwned, Ends, None

\* An update, in its two writes, preserves the invariant.
LEMMA UpdateStep ==
  ASSUME FutureInv, NEW t \in Threads,
         (\E s \in Live \cup Ends : BeginUpdate(t, s)) \/ EndUpdate(t)
  PROVE  FutureInv'
<1>1. UNCHANGED <<waitVars, callbackVars>>
  BY DEF BeginUpdate, EndUpdate
<1>2. lock' \in Threads \cup {NoOne} /\ status' \in Live \cup Ends /\ result' \in {None, "ok", "exception"}
  BY DEF FutureInv, TypeOK, BeginUpdate, EndUpdate
<1>3. TypeOK'
  BY <1>1, <1>2 DEF FutureInv, TypeOK, waitVars, callbackVars
<1>4. result = None /\ ~(\E w \in Waiters : outcome[w] \in {"returned", "raised"})
  <2>1. result = None
    BY FutureAssumption DEF FutureInv, WritesAgree, BeginUpdate, EndUpdate
  <2> QED BY <2>1 DEF FutureInv, TypeOK, ToldResult, None
<1>5. DoneIsSettled' /\ WritesAgree'
  BY <1>4, FutureAssumption
     DEF FutureInv, TypeOK, DoneIsSettled, WritesAgree, BeginUpdate, EndUpdate, Live, Ends, None
<1>6. CallbackIsOwned'
  BY <1>1 DEF FutureInv, CallbackIsOwned, callbackVars
<1>7. \A w \in Waiters : /\ outcome'[w] = outcome[w] /\ seen'[w] = seen[w]
                        /\ outcome[w] # "returned" /\ outcome[w] # "raised"
  BY <1>1, <1>4 DEF waitVars
<1>8. ToldResult' /\ WaiterSeesOutcome'
  BY <1>7 DEF FutureInv, ToldResult, WaiterSeesOutcome
<1> QED BY <1>3, <1>5, <1>6, <1>8 DEF FutureInv

\* A waiter's steps preserve the invariant.
LEMMA WaiterStep ==
  ASSUME FutureInv, NEW w \in Waiters, Wait(w) \/ WaitEnds(w) \/ ReadStatus(w)
  PROVE  FutureInv'
<1>1. UNCHANGED <<updateVars, callbackVars>>
  BY DEF Wait, WaitEnds, ReadStatus
<1>2. /\ outcome \in [Waiters -> {"idle", "waiting", "returned", "raised", "timed out"}]
      /\ seen \in [Waiters -> Live \cup Ends \cup {None}]
      /\ result \in {None, "ok", "exception"} /\ status \in Live \cup Ends
  BY DEF FutureInv, TypeOK
<1>3. /\ outcome' \in [Waiters -> {"idle", "waiting", "returned", "raised", "timed out"}]
      /\ seen' \in [Waiters -> Live \cup Ends \cup {None}]
  BY <1>2 DEF Wait, WaitEnds, ReadStatus
<1>4. TypeOK'
  BY <1>1, <1>3 DEF FutureInv, TypeOK, updateVars, callbackVars
<1>5. \A v \in Waiters : v # w => outcome'[v] = outcome[v] /\ seen'[v] = seen[v]
  BY <1>2 DEF Wait, WaitEnds, ReadStatus
<1>6. DoneIsSettled' /\ CallbackIsOwned' /\ WritesAgree'
  BY <1>1 DEF FutureInv, DoneIsSettled, WritesAgree, CallbackIsOwned, updateVars, callbackVars
<1>7. /\ outcome'[w] = "returned" => result = "ok"
      /\ outcome'[w] = "raised" => result = "exception"
      /\ outcome'[w] \in {"idle", "waiting"} => seen'[w] = None
  BY <1>2 DEF FutureInv, ToldResult, Wait, WaitEnds, ReadStatus, None
<1>8. seen'[w] # None => /\ outcome'[w] = "returned" => seen'[w] = "finished"
                         /\ outcome'[w] = "raised" => seen'[w] \in {"error", "cancelled"}
  <2>1. CASE Wait(w)
    BY <1>2, <2>1 DEF Wait
  <2>2. CASE WaitEnds(w)
    BY <1>2, <2>2 DEF WaitEnds, FutureInv, ToldResult
  <2>3. CASE ReadStatus(w)
    BY <1>2, <2>3 DEF ReadStatus, FutureInv, ToldResult, DoneIsSettled, Ends, None
  <2> QED BY <2>1, <2>2, <2>3
<1>9. ToldResult' /\ WaiterSeesOutcome'
  BY <1>1, <1>5, <1>7, <1>8 DEF FutureInv, ToldResult, WaiterSeesOutcome, updateVars
<1> QED BY <1>4, <1>6, <1>9 DEF FutureInv

\* Registration, removal and cleanup preserve the invariant.
LEMMA CallbackStep ==
  ASSUME FutureInv,
         \/ \E i \in Ids : ListenTracked(i) \/ ListenNoted(i) \/ \E t \in Threads : RemoveCallback(t, i)
         \/ \E t \in Threads : RemoveTracked(t)
         \/ ManagerRemoves
  PROVE  FutureInv'
<1>1. UNCHANGED <<updateVars, waitVars>>
  BY DEF ListenTracked, ListenNoted, RemoveCallback, RemoveTracked, ManagerRemoves
<1>2. /\ registry \subseteq Ids /\ adding \subseteq Ids /\ fresh \subseteq Ids /\ tracked \subseteq Ids
      /\ removing \in [Threads -> Ids \cup {None}] /\ CallbackIsOwned
  BY DEF FutureInv, TypeOK
<1>3. /\ registry' \subseteq Ids /\ adding' \subseteq Ids /\ fresh' \subseteq Ids /\ tracked' \subseteq Ids
      /\ removing' \in [Threads -> Ids \cup {None}]
  BY <1>2 DEF ListenTracked, ListenNoted, RemoveCallback, RemoveTracked, ManagerRemoves
<1>4. TypeOK'
  BY <1>1, <1>3 DEF FutureInv, TypeOK, updateVars, waitVars
<1>5. CallbackIsOwned'
  <2>1. ASSUME NEW i \in Ids, ListenTracked(i) \/ ListenNoted(i) PROVE CallbackIsOwned'
    BY <1>2, <2>1 DEF ListenTracked, ListenNoted, CallbackIsOwned
  <2>2. ASSUME NEW i \in Ids, NEW t \in Threads, RemoveCallback(t, i) PROVE CallbackIsOwned'
    <3>1. /\ removing'[t] = i /\ removing[t] = None /\ registry' = registry \ {i}
          /\ UNCHANGED <<tracked, adding>>
          /\ \A u \in Threads : u # t => removing'[u] = removing[u]
      BY <1>2, <2>2 DEF RemoveCallback
    <3> QED BY <1>2, <3>1, FutureAssumption DEF CallbackIsOwned
  <2>3. ASSUME NEW t \in Threads, RemoveTracked(t) PROVE CallbackIsOwned'
    <3>1. /\ tracked' = tracked \ {removing[t]} /\ UNCHANGED <<registry, adding>>
          /\ \A u \in Threads : u # t => removing'[u] = removing[u]
      BY <1>2, <2>3 DEF RemoveTracked
    <3> QED BY <1>2, <3>1 DEF CallbackIsOwned
  <2>4. CASE ManagerRemoves
    BY <1>2, <2>4 DEF ManagerRemoves, CallbackIsOwned
  <2> QED BY <2>1, <2>2, <2>3, <2>4
<1> QED BY <1>1, <1>4, <1>5 DEF FutureInv, DoneIsSettled, WritesAgree, ToldResult, WaiterSeesOutcome,
                                updateVars, waitVars

\* Every step preserves the invariant.
LEMMA FutureStep == FutureInv /\ [Next]_vars => FutureInv'
<1> SUFFICES ASSUME FutureInv, [Next]_vars PROVE FutureInv'
  OBVIOUS
<1>1. CASE UNCHANGED vars
  BY <1>1 DEF vars, FutureInv, TypeOK, DoneIsSettled, WritesAgree, ToldResult, WaiterSeesOutcome,
              CallbackIsOwned
<1> QED BY <1>1, UpdateStep, WaiterStep, CallbackStep DEF Next

-----------------------------------------------------------------------------
\* The inductive invariant holds whatever threads, waiters and callbacks there are.
THEOREM FutureInvariant == Spec => []FutureInv
BY FutureStart, FutureStep, PTL DEF Spec

\* A future that is done shows the status it ended with, to readers without the
\* lock too (_update_status writes the status first).
THEOREM DoneShowsStatus == Spec => []DoneIsSettled
<1>1. FutureInv => DoneIsSettled
  BY DEF FutureInv
<1> QED BY <1>1, FutureInvariant, PTL

\* wait() and the status read after it agree.
THEOREM WaitAgrees == Spec => []WaiterSeesOutcome
<1>1. FutureInv => WaiterSeesOutcome
  BY DEF FutureInv
<1> QED BY <1>1, FutureInvariant, PTL

\* Every callback the tracker may call can be removed through the future.
THEOREM CallbacksStayOwned == Spec => []CallbackIsOwned
<1>1. FutureInv => CallbackIsOwned
  BY DEF FutureInv
<1> QED BY <1>1, FutureInvariant, PTL

\* The future read without its lock implements JobLifecycle: only the first write
\* of an update changes what a reader sees, and it finds a live status.
THEOREM FutureImplementsLifecycle == Spec => ReadersSeeLifecycle
<1>1. Init => Life!Init
  BY DEF Init, Life!Init
<1>2. ASSUME FutureInv, [Next]_vars
      PROVE  [Life!Next]_<<[j \in {"job"} |-> status], [p \in {} \X {"job"} |-> 0]>>
  <2>1. ASSUME NEW t \in Threads, NEW s \in Live \cup Ends, BeginUpdate(t, s)
        PROVE  Life!Next
    <3>1. status \in Live /\ status' = s
      BY <1>2, <2>1 DEF BeginUpdate, FutureInv, TypeOK, WritesAgree
    <3>2. CASE s \in Live
      <4>1. Life!Progress("job", s)
        BY <3>1 DEF Life!Progress, Life!Live, Live
      <4> QED BY <3>2, <4>1 DEF Life!Next, Life!Live, Live
    <3>3. CASE s \in Ends
      <4>1. Life!Finish("job", s, {})
        BY <3>1 DEF Life!Finish, Life!Live, Live
      <4> QED BY <3>3, <4>1 DEF Life!Next, Life!Ends, Ends
    <3> QED BY <3>2, <3>3
  <2>2. CASE UNCHANGED status
    BY <2>2
  <2>3. \/ UNCHANGED status
        \/ \E t \in Threads, s \in Live \cup Ends : BeginUpdate(t, s)
    BY <1>2 DEF Next, vars, EndUpdate, Wait, WaitEnds, ReadStatus, ListenTracked, ListenNoted,
                RemoveCallback, RemoveTracked, ManagerRemoves, updateVars
  <2> QED BY <2>1, <2>2, <2>3
<1> QED BY <1>1, <1>2, FutureInvariant, PTL DEF Spec, ReadersSeeLifecycle, Life!Spec
=============================================================================
