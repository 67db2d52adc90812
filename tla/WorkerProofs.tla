---------------------------- MODULE WorkerProofs ----------------------------
(* The invariant of Worker for any streams and any workload, and what follows *)
(* from it: the worker keeps the promise of WorkerReport.                     *)
EXTENDS Worker, TLAPS

\* Every status has its exit code.
LEMMA CodeOK ==
  \A e \in Ends :
    /\ Code[e] \in {"success", "failure", "cancelled"}
    /\ Code[e] = "success" => e = "finished"
    /\ Code[e] = "cancelled" => e = "cancelled"
  BY DEF Ends, Code

\* Every step keeps the variables in their types.
LEMMA TypeStep ==
  ASSUME TypeOK, [Next]_vars
  PROVE  TypeOK'
<1> USE WorkerAssumption DEF TypeOK, Next, Signal, Expire, Main, Stage, Acquire, StageFails, Spawn, SpawnFails, Reap,
    WaitReturns, Join, Flushed, Report, Verdict, Return, Announce, Publish, Reported, Heart, Beat,
    BeatRefused, Refused, Tick, HeartStops, BeatEnds, Output, ArchiveFails, Readable, Send,
    Sending, SendEnds, EndOfFile, PipesOpen, Cut, Copy, Watch, WatchCancelled, WatchEnded, Kill,
    Poll, Workload, Fork, Escape, ChildEnds, LeaderEnds, Write, HeartLeaves, OutputLeaves,
    mainVars, watchVars, publishVars, outputVars, processVars, vars
<1>1. (main \in MainSteps)'
  BY DEF MainSteps
<1>2. (heart \in {"off", "beating", "resting", "done"})'
  OBVIOUS
<1>3. (watcher \in {"off", "selecting", "terminating", "killing", "done"})'
  OBVIOUS
<1>4. (copier \in [Streams -> {"off", "copying", "sending", "done"}])'
  OBVIOUS
<1>5. (lock \in {"nobody", "status", "heartbeat"} \cup Streams)'
  OBVIOUS
<1>6. (publishError \in BOOLEAN /\ ctxDone \in BOOLEAN /\ workDone \in BOOLEAN)'
  OBVIOUS
<1>7. (runError \in BOOLEAN /\ orderly \in BOOLEAN)'
  OBVIOUS
<1>8. (leader \in {"unborn", "alive", "ok", "bad"})'
  OBVIOUS
<1>9. (group \cup loose \cup born \cup holding \subseteq Children)'
  OBVIOUS
<1>10. (pipe \cup buffer \cup outputError \cup lost \subseteq Streams)'
  OBVIOUS
<1>11. (timers \subseteq {"grace", "delay"})'
  OBVIOUS
<1>12. (verdict \in Ends)'
  BY DEF Ends
<1>13. (exit \in {"none", "success", "failure", "cancelled"})'
  BY CodeOK
<1>14. (said \in {"nothing", "running"} \cup Ends)'
  OBVIOUS
<1>15. (killed \in {"no", "after grace", "at once"})'
  OBVIOUS
<1>16. QED
  BY <1>1, <1>2, <1>3, <1>4, <1>5, <1>6, <1>7, <1>8, <1>9, <1>10, <1>11, <1>12, <1>13, <1>14, <1>15 DEF TypeOK

\* The steps of Run itself preserve the invariant.
LEMMA MainStep ==
  ASSUME WorkerInv, Main
  PROVE  WorkerInv'
<1> USE WorkerAssumption DEF WorkerInv, mainVars, watchVars, publishVars, outputVars, processVars
<1>0. TypeOK'
  BY TypeStep DEF Next
<1>1. CASE Stage
  <2>1. InStep'
    BY <1>1 DEF Main, Stage, Acquire, InStep, Started, Ending
  <2>2. KillInv'
    BY <1>1 DEF Main, Stage, Acquire, KillInv, InStep, Started, Ending
  <2>3. LockInv'
    BY <1>1 DEF Main, Stage, Acquire, LockInv, InStep, Sending, Started, Ending
  <2>4. OutputInv'
    BY <1>1 DEF Main, Stage, Acquire, OutputInv, InStep, PipesOpen, Started, Ending
  <2>5. SaidInv'
    BY <1>1 DEF Main, Stage, Acquire, SaidInv, InStep, Succeeded, PipesOpen, Started, Ending, Ends
  <2>6. QED
    BY <1>0, <2>1, <2>2, <2>3, <2>4, <2>5
<1>2. CASE StageFails
  <2>1. InStep'
    BY <1>2 DEF Main, StageFails, InStep, Started, Ending
  <2>2. KillInv'
    BY <1>2 DEF Main, StageFails, KillInv, InStep, Started, Ending
  <2>3. LockInv'
    BY <1>2 DEF Main, StageFails, LockInv, InStep, Sending, Started, Ending
  <2>4. OutputInv'
    BY <1>2 DEF Main, StageFails, OutputInv, InStep, PipesOpen, Started, Ending
  <2>5. SaidInv'
    BY <1>2 DEF Main, StageFails, SaidInv, InStep, Succeeded, PipesOpen, Started, Ending, Ends
  <2>6. QED
    BY <1>0, <2>1, <2>2, <2>3, <2>4, <2>5
<1>3. CASE Spawn
  <2>1. InStep'
    BY <1>3 DEF Main, Spawn, InStep, Started, Ending
  <2>2. KillInv'
    BY <1>3 DEF Main, Spawn, KillInv, InStep, Started, Ending, TypeOK
  <2>3. LockInv'
    BY <1>3 DEF Main, Spawn, LockInv, InStep, Sending, Started, Ending
  <2>4. OutputInv'
    BY <1>3 DEF Main, Spawn, OutputInv, InStep, PipesOpen, Started, Ending
  <2>5. SaidInv'
    BY <1>3 DEF Main, Spawn, SaidInv, InStep, Succeeded, PipesOpen, Started, Ending, Ends
  <2>6. QED
    BY <1>0, <2>1, <2>2, <2>3, <2>4, <2>5
<1>4. CASE SpawnFails
  <2>1. InStep'
    BY <1>4 DEF Main, SpawnFails, InStep, Started, Ending
  <2>2. KillInv'
    BY <1>4 DEF Main, SpawnFails, KillInv, InStep, Started, Ending
  <2>3. LockInv'
    BY <1>4 DEF Main, SpawnFails, LockInv, InStep, Sending, Started, Ending
  <2>4. OutputInv'
    BY <1>4 DEF Main, SpawnFails, OutputInv, InStep, PipesOpen, Started, Ending
  <2>5. SaidInv'
    BY <1>4 DEF Main, SpawnFails, SaidInv, InStep, Succeeded, PipesOpen, Started, Ending, Ends
  <2>6. QED
    BY <1>0, <2>1, <2>2, <2>3, <2>4, <2>5
<1>5. CASE Reap
  <2>1. InStep'
    BY <1>5 DEF Main, Reap, InStep, Started, Ending
  <2>2. KillInv'
    BY <1>5 DEF Main, Reap, KillInv, InStep, Started, Ending
  <2>3. LockInv'
    BY <1>5 DEF Main, Reap, LockInv, InStep, Sending, Started, Ending
  <2>4. OutputInv'
    BY <1>5 DEF Main, Reap, OutputInv, InStep, PipesOpen, Started, Ending
  <2>5. SaidInv'
    BY <1>5 DEF Main, Reap, SaidInv, InStep, Succeeded, PipesOpen, Started, Ending, Ends
  <2>6. QED
    BY <1>0, <2>1, <2>2, <2>3, <2>4, <2>5
<1>6. CASE WaitReturns
  <2>1. InStep'
    BY <1>6 DEF Main, WaitReturns, InStep, Started, Ending
  <2>2. KillInv'
    BY <1>6 DEF Main, WaitReturns, KillInv, InStep, Started, Ending
  <2>3. LockInv'
    BY <1>6 DEF Main, WaitReturns, LockInv, InStep, Sending, Started, Ending
  <2>4. OutputInv'
    BY <1>6 DEF Main, WaitReturns, OutputInv, InStep, PipesOpen, Started, Ending, TypeOK, MainSteps
  <2>5. SaidInv'
    BY <1>6 DEF Main, WaitReturns, SaidInv, InStep, Succeeded, PipesOpen, Started, Ending, Ends
  <2>6. QED
    BY <1>0, <2>1, <2>2, <2>3, <2>4, <2>5
<1>7. CASE Join
  <2>1. InStep'
    BY <1>7 DEF Main, Join, InStep, Started, Ending
  <2>2. KillInv'
    BY <1>7 DEF Main, Join, KillInv, InStep, Started, Ending
  <2>3. LockInv'
    BY <1>7 DEF Main, Join, LockInv, InStep, Sending, Started, Ending
  <2>4. OutputInv'
    BY <1>7 DEF Main, Join, OutputInv, InStep, PipesOpen, Started, Ending
  <2>5. SaidInv'
    BY <1>7 DEF Main, Join, SaidInv, InStep, Succeeded, PipesOpen, Started, Ending, Ends
  <2>6. QED
    BY <1>0, <2>1, <2>2, <2>3, <2>4, <2>5
<1>8. CASE Flushed
  <2>1. InStep'
    BY <1>8 DEF Main, Flushed, InStep, Started, Ending
  <2>2. KillInv'
    BY <1>8 DEF Main, Flushed, KillInv, InStep, Started, Ending
  <2>3. LockInv'
    BY <1>8 DEF Main, Flushed, LockInv, InStep, Sending, Started, Ending
  <2>4. OutputInv'
    BY <1>8 DEF Main, Flushed, OutputInv, InStep, PipesOpen, Started, Ending
  <2>5. SaidInv'
    BY <1>8 DEF Main, Flushed, SaidInv, InStep, Succeeded, PipesOpen, Started, Ending, Ends
  <2>6. QED
    BY <1>0, <2>1, <2>2, <2>3, <2>4, <2>5
<1>9. CASE Report
  <2>1. InStep'
    BY <1>9 DEF Main, Report, Acquire, Verdict, InStep, Started, Ending
  <2>2. KillInv'
    BY <1>9 DEF Main, Report, Acquire, Verdict, KillInv, InStep, Started, Ending
  <2>3. LockInv'
    BY <1>9 DEF Main, Report, Acquire, Verdict, LockInv, InStep, Sending, Started, Ending
  <2>4. OutputInv'
    BY <1>9 DEF Main, Report, Acquire, Verdict, OutputInv, InStep, PipesOpen, Started, Ending
  <2>5. SaidInv'
    BY <1>9 DEF Main, Report, Acquire, Verdict, SaidInv, InStep, Succeeded, PipesOpen, Started, Ending, Ends, TypeOK, OutputInv
  <2>6. QED
    BY <1>0, <2>1, <2>2, <2>3, <2>4, <2>5
<1>10. CASE Return
  <2>1. InStep'
    BY <1>10 DEF Main, Return, InStep, Started, Ending
  <2>2. KillInv'
    BY <1>10 DEF Main, Return, KillInv, InStep, Started, Ending
  <2>3. LockInv'
    BY <1>10 DEF Main, Return, LockInv, InStep, Sending, Started, Ending
  <2>4. OutputInv'
    BY <1>10 DEF Main, Return, OutputInv, InStep, PipesOpen, Started, Ending
  <2>5. SaidInv'
    BY <1>10 DEF Main, Return, SaidInv, InStep, Succeeded, PipesOpen, Started, Ending, Ends
  <2>6. QED
    BY <1>0, <2>1, <2>2, <2>3, <2>4, <2>5
<1>11. ASSUME NEW failed \in BOOLEAN, Announce(failed)
      PROVE  WorkerInv'
  <2>1. InStep'
    BY <1>11 DEF Main, Announce, Publish, InStep, Started, Ending
  <2>2. KillInv'
    BY <1>11 DEF Main, Announce, Publish, KillInv, InStep, Started, Ending
  <2>3. LockInv'
    BY <1>11 DEF Main, Announce, Publish, LockInv, InStep, Sending, Started, Ending
  <2>4. OutputInv'
    BY <1>11 DEF Main, Announce, Publish, OutputInv, InStep, PipesOpen, Started, Ending
  <2>5. SaidInv'
    BY <1>11 DEF Main, Announce, Publish, SaidInv, InStep, Succeeded, PipesOpen, Started, Ending, Ends, TypeOK, LockInv
  <2>6. QED
    BY <1>0, <2>1, <2>2, <2>3, <2>4, <2>5
<1>12. ASSUME NEW failed \in BOOLEAN, Reported(failed)
      PROVE  WorkerInv'
  <2>1. InStep'
    BY <1>12 DEF Main, Reported, Publish, InStep, Started, Ending
  <2>2. KillInv'
    BY <1>12 DEF Main, Reported, Publish, KillInv, InStep, Started, Ending
  <2>3. LockInv'
    BY <1>12 DEF Main, Reported, Publish, LockInv, InStep, Sending, Started, Ending
  <2>4. OutputInv'
    BY <1>12 DEF Main, Reported, Publish, OutputInv, InStep, PipesOpen, Started, Ending
  <2>5. SaidInv'
    BY <1>12 DEF Main, Reported, Publish, SaidInv, InStep, Succeeded, PipesOpen, Started, Ending, Ends, TypeOK, LockInv
  <2>6. QED
    BY <1>0, <2>1, <2>2, <2>3, <2>4, <2>5
<1>13. QED
  BY <1>1, <1>2, <1>3, <1>4, <1>5, <1>6, <1>7, <1>8, <1>9, <1>10, <1>11, <1>12 DEF Main

\* The steps of the heartbeat goroutine preserve the invariant.
LEMMA HeartStep ==
  ASSUME WorkerInv, Heart
  PROVE  WorkerInv'
<1> USE WorkerAssumption DEF WorkerInv, mainVars, watchVars, publishVars, outputVars, processVars
<1>0. TypeOK'
  BY TypeStep DEF Next
<1>1. CASE Beat
  <2>1. InStep'
    BY <1>1 DEF Heart, HeartLeaves, Beat, Acquire, InStep, Started, Ending
  <2>2. KillInv'
    BY <1>1 DEF Heart, HeartLeaves, Beat, Acquire, KillInv, InStep, Started, Ending
  <2>3. LockInv'
    BY <1>1 DEF Heart, HeartLeaves, Beat, Acquire, LockInv, InStep, Sending, Started, Ending
  <2>4. OutputInv'
    BY <1>1 DEF Heart, HeartLeaves, Beat, Acquire, OutputInv, InStep, PipesOpen, Started, Ending
  <2>5. SaidInv'
    BY <1>1 DEF Heart, HeartLeaves, Beat, Acquire, SaidInv, InStep, Succeeded, PipesOpen, Started, Ending, Ends
  <2>6. QED
    BY <1>0, <2>1, <2>2, <2>3, <2>4, <2>5
<1>2. CASE BeatRefused
  <2>1. InStep'
    BY <1>2 DEF Heart, HeartLeaves, BeatRefused, Refused, InStep, Started, Ending
  <2>2. KillInv'
    BY <1>2 DEF Heart, HeartLeaves, BeatRefused, Refused, KillInv, InStep, Started, Ending
  <2>3. LockInv'
    BY <1>2 DEF Heart, HeartLeaves, BeatRefused, Refused, LockInv, InStep, Sending, Started, Ending
  <2>4. OutputInv'
    BY <1>2 DEF Heart, HeartLeaves, BeatRefused, Refused, OutputInv, InStep, PipesOpen, Started, Ending
  <2>5. SaidInv'
    BY <1>2 DEF Heart, HeartLeaves, BeatRefused, Refused, SaidInv, InStep, Succeeded, PipesOpen, Started, Ending, Ends
  <2>6. QED
    BY <1>0, <2>1, <2>2, <2>3, <2>4, <2>5
<1>3. CASE Tick
  <2>1. InStep'
    BY <1>3 DEF Heart, HeartLeaves, Tick, InStep, Started, Ending
  <2>2. KillInv'
    BY <1>3 DEF Heart, HeartLeaves, Tick, KillInv, InStep, Started, Ending
  <2>3. LockInv'
    BY <1>3 DEF Heart, HeartLeaves, Tick, LockInv, InStep, Sending, Started, Ending
  <2>4. OutputInv'
    BY <1>3 DEF Heart, HeartLeaves, Tick, OutputInv, InStep, PipesOpen, Started, Ending
  <2>5. SaidInv'
    BY <1>3 DEF Heart, HeartLeaves, Tick, SaidInv, InStep, Succeeded, PipesOpen, Started, Ending, Ends
  <2>6. QED
    BY <1>0, <2>1, <2>2, <2>3, <2>4, <2>5
<1>4. CASE HeartStops
  <2>1. InStep'
    BY <1>4 DEF Heart, HeartLeaves, HeartStops, InStep, Started, Ending
  <2>2. KillInv'
    BY <1>4 DEF Heart, HeartLeaves, HeartStops, KillInv, InStep, Started, Ending
  <2>3. LockInv'
    BY <1>4 DEF Heart, HeartLeaves, HeartStops, LockInv, InStep, Sending, Started, Ending
  <2>4. OutputInv'
    BY <1>4 DEF Heart, HeartLeaves, HeartStops, OutputInv, InStep, PipesOpen, Started, Ending
  <2>5. SaidInv'
    BY <1>4 DEF Heart, HeartLeaves, HeartStops, SaidInv, InStep, Succeeded, PipesOpen, Started, Ending, Ends
  <2>6. QED
    BY <1>0, <2>1, <2>2, <2>3, <2>4, <2>5
<1>5. ASSUME NEW failed \in BOOLEAN, BeatEnds(failed)
      PROVE  WorkerInv'
  <2>1. InStep'
    BY <1>5 DEF Heart, HeartLeaves, BeatEnds, Publish, InStep, Started, Ending, LockInv
  <2>2. KillInv'
    BY <1>5 DEF Heart, HeartLeaves, BeatEnds, Publish, KillInv, InStep, Started, Ending
  <2>3. LockInv'
    BY <1>5 DEF Heart, HeartLeaves, BeatEnds, Publish, LockInv, InStep, Sending, Started, Ending
  <2>4. OutputInv'
    BY <1>5 DEF Heart, HeartLeaves, BeatEnds, Publish, OutputInv, InStep, PipesOpen, Started, Ending
  <2>5. SaidInv'
    BY <1>5 DEF Heart, HeartLeaves, BeatEnds, Publish, SaidInv, InStep, Succeeded, PipesOpen, Started, Ending, Ends
  <2>6. QED
    BY <1>0, <2>1, <2>2, <2>3, <2>4, <2>5
<1>6. QED
  BY <1>1, <1>2, <1>3, <1>4, <1>5 DEF Heart

\* The steps of the two output copiers preserve the invariant.
LEMMA OutputStep ==
  ASSUME NEW s \in Streams, WorkerInv, Output(s)
  PROVE  WorkerInv'
<1> USE WorkerAssumption DEF WorkerInv, mainVars, watchVars, publishVars, outputVars, processVars
<1>0. TypeOK'
  BY TypeStep DEF Next
<1>1. CASE ArchiveFails(s)
  <2>1. InStep'
    BY <1>1 DEF Output, OutputLeaves, ArchiveFails, Readable, InStep, Started, Ending
  <2>2. KillInv'
    BY <1>1 DEF Output, OutputLeaves, ArchiveFails, Readable, KillInv, InStep, Started, Ending
  <2>3. LockInv'
    BY <1>1 DEF Output, OutputLeaves, ArchiveFails, Readable, LockInv, InStep, Sending, Started, Ending
  <2>4. OutputInv'
    BY <1>1 DEF Output, OutputLeaves, ArchiveFails, Readable, OutputInv, InStep, PipesOpen, Started, Ending
  <2>5. SaidInv'
    BY <1>1 DEF Output, OutputLeaves, ArchiveFails, Readable, SaidInv, InStep, Succeeded, PipesOpen, Started, Ending, Ends
  <2>6. QED
    BY <1>0, <2>1, <2>2, <2>3, <2>4, <2>5
<1>2. CASE Send(s)
  <2>1. InStep'
    BY <1>2 DEF Output, OutputLeaves, Send, Acquire, Sending, InStep, Started, Ending
  <2>2. KillInv'
    BY <1>2 DEF Output, OutputLeaves, Send, Acquire, Sending, KillInv, InStep, Started, Ending
  <2>3. LockInv'
    BY <1>2 DEF Output, OutputLeaves, Send, Acquire, Sending, LockInv, InStep, Started, Ending
  <2>4. OutputInv'
    BY <1>2 DEF Output, OutputLeaves, Send, Acquire, Sending, OutputInv, InStep, PipesOpen, Started, Ending
  <2>5. SaidInv'
    BY <1>2 DEF Output, OutputLeaves, Send, Acquire, Sending, SaidInv, InStep, Succeeded, PipesOpen, Started, Ending, Ends
  <2>6. QED
    BY <1>0, <2>1, <2>2, <2>3, <2>4, <2>5
<1>3. CASE SendEnds(s)
  <2>1. InStep'
    BY <1>3 DEF Output, OutputLeaves, SendEnds, Publish, Refused, Sending, InStep, Started, Ending
  <2>2. KillInv'
    BY <1>3 DEF Output, OutputLeaves, SendEnds, Publish, Refused, Sending, KillInv, InStep, Started, Ending
  <2>3. LockInv'
    BY <1>3 DEF Output, OutputLeaves, SendEnds, Publish, Refused, Sending, LockInv, InStep, Started, Ending, TypeOK
  <2>4. OutputInv'
    BY <1>3 DEF Output, OutputLeaves, SendEnds, Publish, Refused, Sending, OutputInv, InStep, PipesOpen, Started, Ending, LockInv, TypeOK
  <2>5. SaidInv'
    BY <1>3 DEF Output, OutputLeaves, SendEnds, Publish, Refused, Sending, SaidInv, InStep, Succeeded, PipesOpen, Started, Ending, Ends, LockInv, TypeOK
  <2>6. QED
    BY <1>0, <2>1, <2>2, <2>3, <2>4, <2>5
<1>4. CASE EndOfFile(s)
  <2>1. InStep'
    BY <1>4 DEF Output, OutputLeaves, EndOfFile, PipesOpen, InStep, Started, Ending
  <2>2. KillInv'
    BY <1>4 DEF Output, OutputLeaves, EndOfFile, PipesOpen, KillInv, InStep, Started, Ending
  <2>3. LockInv'
    BY <1>4 DEF Output, OutputLeaves, EndOfFile, PipesOpen, LockInv, InStep, Sending, Started, Ending
  <2>4. OutputInv'
    BY <1>4 DEF Output, OutputLeaves, EndOfFile, PipesOpen, OutputInv, InStep, Started, Ending
  <2>5. SaidInv'
    BY <1>4 DEF Output, OutputLeaves, EndOfFile, PipesOpen, SaidInv, InStep, Succeeded, Started, Ending, Ends
  <2>6. QED
    BY <1>0, <2>1, <2>2, <2>3, <2>4, <2>5
<1>5. CASE Cut(s)
  <2>1. InStep'
    BY <1>5 DEF Output, OutputLeaves, Cut, InStep, Started, Ending
  <2>2. KillInv'
    BY <1>5 DEF Output, OutputLeaves, Cut, KillInv, InStep, Started, Ending
  <2>3. LockInv'
    BY <1>5 DEF Output, OutputLeaves, Cut, LockInv, InStep, Sending, Started, Ending
  <2>4. OutputInv'
    BY <1>5 DEF Output, OutputLeaves, Cut, OutputInv, InStep, PipesOpen, Started, Ending
  <2>5. SaidInv'
    BY <1>5 DEF Output, OutputLeaves, Cut, SaidInv, InStep, Succeeded, PipesOpen, Started, Ending, Ends
  <2>6. QED
    BY <1>0, <2>1, <2>2, <2>3, <2>4, <2>5
<1>6. ASSUME NEW line \in BOOLEAN, Copy(s, line)
      PROVE  WorkerInv'
  <2>1. InStep'
    BY <1>6 DEF Output, OutputLeaves, Copy, Readable, InStep, Started, Ending
  <2>2. KillInv'
    BY <1>6 DEF Output, OutputLeaves, Copy, Readable, KillInv, InStep, Started, Ending
  <2>3. LockInv'
    BY <1>6 DEF Output, OutputLeaves, Copy, Readable, LockInv, InStep, Sending, Started, Ending
  <2>4. OutputInv'
    BY <1>6 DEF Output, OutputLeaves, Copy, Readable, OutputInv, InStep, PipesOpen, Started, Ending
  <2>5. SaidInv'
    BY <1>6 DEF Output, OutputLeaves, Copy, Readable, SaidInv, InStep, Succeeded, PipesOpen, Started, Ending, Ends
  <2>6. QED
    BY <1>0, <2>1, <2>2, <2>3, <2>4, <2>5
<1>7. QED
  BY <1>1, <1>2, <1>3, <1>4, <1>5, <1>6 DEF Output

\* The steps of the cancellation watcher preserve the invariant.
LEMMA WatchStep ==
  ASSUME WorkerInv, Watch
  PROVE  WorkerInv'
<1> USE WorkerAssumption DEF WorkerInv, mainVars, watchVars, publishVars, outputVars, processVars
<1>0. TypeOK'
  BY TypeStep DEF Next
<1>1. CASE WatchCancelled
  <2>1. InStep'
    BY <1>1 DEF Watch, WatchCancelled, InStep, Started, Ending
  <2>2. KillInv'
    BY <1>1 DEF Watch, WatchCancelled, KillInv, InStep, Started, Ending
  <2>3. LockInv'
    BY <1>1 DEF Watch, WatchCancelled, LockInv, InStep, Sending, Started, Ending
  <2>4. OutputInv'
    BY <1>1 DEF Watch, WatchCancelled, OutputInv, InStep, PipesOpen, Started, Ending
  <2>5. SaidInv'
    BY <1>1 DEF Watch, WatchCancelled, SaidInv, InStep, Succeeded, PipesOpen, Started, Ending, Ends
  <2>6. QED
    BY <1>0, <2>1, <2>2, <2>3, <2>4, <2>5
<1>2. CASE WatchEnded
  <2>1. InStep'
    BY <1>2 DEF Watch, WatchEnded, InStep, Started, Ending
  <2>2. KillInv'
    BY <1>2 DEF Watch, WatchEnded, KillInv, InStep, Started, Ending
  <2>3. LockInv'
    BY <1>2 DEF Watch, WatchEnded, LockInv, InStep, Sending, Started, Ending
  <2>4. OutputInv'
    BY <1>2 DEF Watch, WatchEnded, OutputInv, InStep, PipesOpen, Started, Ending
  <2>5. SaidInv'
    BY <1>2 DEF Watch, WatchEnded, SaidInv, InStep, Succeeded, PipesOpen, Started, Ending, Ends
  <2>6. QED
    BY <1>0, <2>1, <2>2, <2>3, <2>4, <2>5
<1>3. CASE Kill
  <2>1. InStep'
    BY <1>3 DEF Watch, Kill, InStep, Started, Ending
  <2>2. KillInv'
    BY <1>3 DEF Watch, Kill, KillInv, InStep, Started, Ending
  <2>3. LockInv'
    BY <1>3 DEF Watch, Kill, LockInv, InStep, Sending, Started, Ending
  <2>4. OutputInv'
    BY <1>3 DEF Watch, Kill, OutputInv, InStep, PipesOpen, Started, Ending
  <2>5. SaidInv'
    BY <1>3 DEF Watch, Kill, SaidInv, InStep, Succeeded, PipesOpen, Started, Ending, Ends
  <2>6. QED
    BY <1>0, <2>1, <2>2, <2>3, <2>4, <2>5
<1>4. CASE Poll
  <2>1. InStep'
    BY <1>4 DEF Watch, Poll, InStep, Started, Ending
  <2>2. KillInv'
    BY <1>4 DEF Watch, Poll, KillInv, InStep, Started, Ending
  <2>3. LockInv'
    BY <1>4 DEF Watch, Poll, LockInv, InStep, Sending, Started, Ending
  <2>4. OutputInv'
    BY <1>4 DEF Watch, Poll, OutputInv, InStep, PipesOpen, Started, Ending
  <2>5. SaidInv'
    BY <1>4 DEF Watch, Poll, SaidInv, InStep, Succeeded, PipesOpen, Started, Ending, Ends
  <2>6. QED
    BY <1>0, <2>1, <2>2, <2>3, <2>4, <2>5
<1>5. QED
  BY <1>1, <1>2, <1>3, <1>4 DEF Watch

\* The steps of the workload's processes preserve the invariant.
LEMMA WorkloadStep ==
  ASSUME WorkerInv, Workload
  PROVE  WorkerInv'
<1> USE WorkerAssumption DEF WorkerInv, mainVars, watchVars, publishVars, outputVars, processVars
<1>0. TypeOK'
  BY TypeStep DEF Next
<1>1. ASSUME NEW c \in Children, NEW r \in BOOLEAN, Fork(c, r)
      PROVE  WorkerInv'
  <2>1. InStep'
    BY <1>1 DEF Workload, Fork, InStep, Started, Ending
  <2>2. KillInv'
    BY <1>1 DEF Workload, Fork, KillInv, InStep, Started, Ending
  <2>3. LockInv'
    BY <1>1 DEF Workload, Fork, LockInv, InStep, Sending, Started, Ending
  <2>4. OutputInv'
    BY <1>1 DEF Workload, Fork, OutputInv, InStep, PipesOpen, Started, Ending, TypeOK
  <2>5. SaidInv'
    BY <1>1 DEF Workload, Fork, SaidInv, InStep, Succeeded, PipesOpen, Started, Ending, Ends
  <2>6. QED
    BY <1>0, <2>1, <2>2, <2>3, <2>4, <2>5
<1>2. ASSUME NEW c \in Children, Escape(c)
      PROVE  WorkerInv'
  <2>1. InStep'
    BY <1>2 DEF Workload, Escape, InStep, Started, Ending
  <2>2. KillInv'
    BY <1>2 DEF Workload, Escape, KillInv, InStep, Started, Ending
  <2>3. LockInv'
    BY <1>2 DEF Workload, Escape, LockInv, InStep, Sending, Started, Ending
  <2>4. OutputInv'
    BY <1>2 DEF Workload, Escape, OutputInv, InStep, PipesOpen, Started, Ending
  <2>5. SaidInv'
    BY <1>2 DEF Workload, Escape, SaidInv, InStep, Succeeded, PipesOpen, Started, Ending, Ends
  <2>6. QED
    BY <1>0, <2>1, <2>2, <2>3, <2>4, <2>5
<1>3. ASSUME NEW c \in Children, ChildEnds(c)
      PROVE  WorkerInv'
  <2>1. InStep'
    BY <1>3 DEF Workload, ChildEnds, InStep, Started, Ending
  <2>2. KillInv'
    BY <1>3 DEF Workload, ChildEnds, KillInv, InStep, Started, Ending
  <2>3. LockInv'
    BY <1>3 DEF Workload, ChildEnds, LockInv, InStep, Sending, Started, Ending
  <2>4. OutputInv'
    BY <1>3 DEF Workload, ChildEnds, OutputInv, InStep, PipesOpen, Started, Ending
  <2>5. SaidInv'
    BY <1>3 DEF Workload, ChildEnds, SaidInv, InStep, Succeeded, PipesOpen, Started, Ending, Ends
  <2>6. QED
    BY <1>0, <2>1, <2>2, <2>3, <2>4, <2>5
<1>4. ASSUME NEW how \in {"ok", "bad"}, LeaderEnds(how)
      PROVE  WorkerInv'
  <2>1. InStep'
    BY <1>4 DEF Workload, LeaderEnds, InStep, Started, Ending
  <2>2. KillInv'
    BY <1>4 DEF Workload, LeaderEnds, KillInv, InStep, Started, Ending
  <2>3. LockInv'
    BY <1>4 DEF Workload, LeaderEnds, LockInv, InStep, Sending, Started, Ending
  <2>4. OutputInv'
    BY <1>4 DEF Workload, LeaderEnds, OutputInv, InStep, PipesOpen, Started, Ending
  <2>5. SaidInv'
    BY <1>4 DEF Workload, LeaderEnds, SaidInv, InStep, Succeeded, PipesOpen, Started, Ending, Ends
  <2>6. QED
    BY <1>0, <2>1, <2>2, <2>3, <2>4, <2>5
<1>5. ASSUME NEW s \in Streams, Write(s)
      PROVE  WorkerInv'
  <2>1. InStep'
    BY <1>5 DEF Workload, Write, PipesOpen, InStep, Started, Ending
  <2>2. KillInv'
    BY <1>5 DEF Workload, Write, PipesOpen, KillInv, InStep, Started, Ending
  <2>3. LockInv'
    BY <1>5 DEF Workload, Write, PipesOpen, LockInv, InStep, Sending, Started, Ending
  <2>4. OutputInv'
    BY <1>5 DEF Workload, Write, PipesOpen, OutputInv, InStep, Started, Ending
  <2>5. SaidInv'
    BY <1>5 DEF Workload, Write, PipesOpen, SaidInv, InStep, Succeeded, Started, Ending, Ends
  <2>6. QED
    BY <1>0, <2>1, <2>2, <2>3, <2>4, <2>5
<1>6. QED
  BY <1>1, <1>2, <1>3, <1>4, <1>5 DEF Workload
\* A signal and an expiring timer.
LEMMA TimeStep ==
  ASSUME WorkerInv, Signal \/ \E t \in {"grace", "delay"} : Expire(t)
  PROVE  WorkerInv'
<1> USE DEF WorkerInv, mainVars, watchVars, publishVars, outputVars, processVars
<1>1. TypeOK'
  BY TypeStep DEF Next
<1>2. InStep'
  BY DEF Signal, Expire, InStep
<1>3. KillInv'
  BY DEF Signal, Expire, KillInv
<1>4. LockInv'
  BY DEF Signal, Expire, LockInv, Sending
<1>5. OutputInv'
  BY DEF Signal, Expire, OutputInv, InStep, PipesOpen, Started, Ending
<1>6. SaidInv'
  BY DEF Signal, Expire, SaidInv, Succeeded, PipesOpen, Started, Ending
<1>7. QED
  BY <1>1, <1>2, <1>3, <1>4, <1>5, <1>6

\* Stuttering preserves the invariant.
LEMMA WorkerStutter ==
  ASSUME WorkerInv, UNCHANGED vars
  PROVE  WorkerInv'
<1> USE DEF vars, mainVars, watchVars, publishVars, outputVars, processVars
<1>1. TypeOK'
  BY TypeStep DEF WorkerInv
<1>2. InStep' /\ KillInv' /\ LockInv'
  BY DEF WorkerInv, InStep, KillInv, LockInv, Sending
<1>3. OutputInv' /\ SaidInv'
  BY DEF WorkerInv, OutputInv, SaidInv, Succeeded, PipesOpen
<1>4. QED
  BY <1>1, <1>2, <1>3 DEF WorkerInv

\* The invariant holds when the worker starts.
LEMMA WorkerStart ==
  ASSUME Init
  PROVE  WorkerInv
<1> USE WorkerAssumption DEF Init
<1>1. TypeOK
  BY DEF TypeOK, MainSteps, Ends
<1>2. InStep /\ KillInv /\ LockInv
  BY DEF InStep, KillInv, LockInv, Sending, Started, Ending
<1>3. OutputInv /\ SaidInv
  BY DEF OutputInv, SaidInv, Succeeded, PipesOpen, Started, Ending
<1>4. QED
  BY <1>1, <1>2, <1>3 DEF WorkerInv

\* The invariant of Run, for any number of streams and of descendants: however
\* goroutines, processes, publish failures, signals and timers are interleaved,
\* they stay in step.
THEOREM WorkerInvariant == Spec => []WorkerInv
<1>1. WorkerInv /\ [Next]_vars => WorkerInv'
  BY MainStep, HeartStep, OutputStep, WatchStep, WorkloadStep, TimeStep, WorkerStutter DEF Next
<1>2. QED
  BY WorkerStart, <1>1, PTL DEF Spec

\* No process of the workload's group outlives the report of its end.
THEOREM NoSurvivors == Spec => []GroupIsGone
<1>1. WorkerInv => GroupIsGone
  BY DEF WorkerInv, InStep, GroupIsGone, Ending
<1>2. QED
  BY WorkerInvariant, <1>1, PTL

\* Descendants of a cancelled workload are never killed without grace period.
THEOREM GraceAlwaysGiven == Spec => []GraceIsGiven
<1>1. WorkerInv => GraceIsGiven
  BY DEF WorkerInv, KillInv, GraceIsGiven
<1>2. QED
  BY WorkerInvariant, <1>1, PTL

\* "finished" is told only of a successful workload with all its output told.
THEOREM SuccessIsEarned == Spec => []FinishedIsEarned
<1>1. WorkerInv => FinishedIsEarned
  BY DEF WorkerInv, TypeOK, MainSteps, SaidInv, Succeeded, FinishedIsEarned, Started, Ends
<1>2. QED
  BY WorkerInvariant, <1>1, PTL

\* After the first publish failure only the final status is attempted.
THEOREM FailureIsQuiet == Spec => QuietAfterFailure
<1>1. ASSUME WorkerInv, Next, publishError, lock = "nobody", lock' # lock
      PROVE  main' = "reporting"
  <2> USE WorkerAssumption, <1>1 DEF WorkerInv, LockInv, TypeOK, mainVars, publishVars
  <2>1. CASE Main
    BY <2>1 DEF Main, Stage, Acquire, StageFails, Spawn, SpawnFails, Reap, WaitReturns, Join, Flushed,
      Report, Return, Announce, Reported, Publish
  <2>2. CASE Heart
    BY <2>2 DEF Heart, HeartLeaves, Beat, Acquire, BeatRefused, Refused, Tick, HeartStops, BeatEnds,
      Publish
  <2>3. ASSUME NEW s \in Streams, Output(s)
        PROVE  FALSE
    BY <2>3 DEF Output, ArchiveFails, Send, Acquire, SendEnds, Publish, Refused, EndOfFile, Cut, Copy
  <2>4. CASE Watch \/ Workload \/ Signal \/ \E t \in {"grace", "delay"} : Expire(t)
    BY <2>4 DEF Watch, Workload, Signal, Expire
  <2>5. QED
    BY <2>1, <2>2, <2>3, <2>4 DEF Next
<1>2. WorkerInv /\ [Next]_vars
      => [publishError /\ lock = "nobody" /\ lock' # lock => main' = "reporting"]_vars
  BY <1>1 DEF vars
<1>3. QED
  BY WorkerInvariant, <1>2, PTL DEF Spec, QuietAfterFailure

\* Nothing is published after the terminal status.
THEOREM StatusIsLast == Spec => LastWord
<1> DEFINE Over == main \in {"reporting", "leaving", "returned"}
<1>1. ASSUME WorkerInv, Next, Over
      PROVE  lock' \in {lock, "nobody"}
  <2> USE WorkerAssumption, <1>1 DEF WorkerInv, TypeOK, InStep, LockInv, Ending, mainVars, publishVars
  <2>1. CASE Main
    BY <2>1 DEF Main, Stage, StageFails, Spawn, SpawnFails, Reap, WaitReturns, Join, Flushed, Report,
      Return, Announce, Reported, Publish
  <2>2. CASE Heart
    BY <2>2 DEF Heart, HeartLeaves, Beat, BeatRefused, Refused, Tick, HeartStops, BeatEnds, Publish
  <2>3. ASSUME NEW s \in Streams, Output(s)
        PROVE  lock' \in {lock, "nobody"}
    BY <2>3 DEF Output, ArchiveFails, Readable, Send, Sending, SendEnds, Publish, Refused, EndOfFile,
      Cut, Copy
  <2>4. CASE Watch \/ Workload \/ Signal \/ \E t \in {"grace", "delay"} : Expire(t)
    BY <2>4 DEF Watch, Workload, Signal, Expire
  <2>5. QED
    BY <2>1, <2>2, <2>3, <2>4 DEF Next
<1>2. WorkerInv /\ [Next]_vars => [Over => lock' \in {lock, "nobody"}]_vars
  BY <1>1 DEF vars, publishVars
<1>3. QED
  BY WorkerInvariant, <1>2, PTL DEF Spec, LastWord

\* The worker implements WorkerReport, all that the manager relies on.
THEOREM WorkerImplementsReport == Spec => ReportsCorrectly
<1>1. Init => Reports!Init
  BY DEF Init, Reports!Init
<1>2. ASSUME WorkerInv, [Next]_vars
      PROVE  [Reports!Next]_<<said, exit>>
  <2> USE WorkerAssumption, <1>2 DEF WorkerInv, TypeOK, SaidInv, LockInv, mainVars, publishVars
  <2>1. ASSUME NEW failed \in BOOLEAN, Main, Announce(failed)
        PROVE  [Reports!Next]_<<said, exit>>
    BY <2>1 DEF Announce, Publish, Reports!Next, Reports!Announce
  <2>2. ASSUME NEW failed \in BOOLEAN, Main, Reported(failed)
        PROVE  [Reports!Next]_<<said, exit>>
    BY <2>2 DEF Reported, Publish, Ends, Reports!Next, Reports!Tell, Reports!Ends
  <2>3. CASE Main /\ Return
    <3>1. exit = "none" /\ exit' = Code[verdict] /\ said' = said
      BY <2>3 DEF Return
    <3>2. /\ Code[verdict] \in {"success", "failure", "cancelled"}
          /\ Code[verdict] = "success" => said = "finished"
          /\ Code[verdict] = "cancelled" => said = "cancelled"
      BY <2>3, CodeOK DEF Return
    <3>3. QED
      BY <3>1, <3>2 DEF Reports!Next, Reports!Exit
  <2>4. CASE Main /\ (Stage \/ StageFails \/ Spawn \/ SpawnFails \/ Reap \/ WaitReturns \/ Join
                       \/ Flushed \/ Report)
    BY <2>4 DEF Stage, Acquire, StageFails, Spawn, SpawnFails, Reap, WaitReturns, Join, Flushed, Report
  <2>5. CASE Heart
    BY <2>5 DEF Heart, HeartLeaves, Beat, Acquire, BeatRefused, Refused, Tick, HeartStops, BeatEnds,
      Publish
  <2>6. ASSUME NEW s \in Streams, Output(s)
        PROVE  UNCHANGED <<said, exit>>
    BY <2>6 DEF Output, OutputLeaves, ArchiveFails, Send, Acquire, SendEnds, Publish, Refused,
      EndOfFile, Cut, Copy
  <2>7. CASE Watch \/ Workload \/ Signal \/ (\E t \in {"grace", "delay"} : Expire(t)) \/ UNCHANGED vars
    BY <2>7 DEF Watch, Workload, Signal, Expire, vars
  <2>8. QED
    BY <2>1, <2>2, <2>3, <2>4, <2>5, <2>6, <2>7 DEF Next, Main
<1>3. QED
  BY <1>1, <1>2, WorkerInvariant, PTL DEF Spec, ReportsCorrectly, Reports!Spec
=============================================================================
