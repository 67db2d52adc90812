---------------------------- MODULE WorkerReport ----------------------------
(***************************************************************************)
(* What a worker promises the manager: it says "running" first, then at    *)
(* most one terminal status, and it exits with success only after having   *)
(* said "finished".  The manager reads the messages over Redis and the     *)
(* exit status from Slurm's accounting, in either order, and relies on     *)
(* nothing else (SlurmStarts, WorkerEnds, WorkerCancelled and SlurmEnds of *)
(* SlurmManager).                                                          *)
(***************************************************************************)
VARIABLES
  said,   \* the last status message that has reached Redis
  exit    \* exit status of the worker process

Ends == {"finished", "error", "cancelled"}

Init == said = "nothing" /\ exit = "none"

Announce ==
  /\ said = "nothing" /\ exit = "none"
  /\ said' = "running"
  /\ UNCHANGED exit

Tell(s) ==
  /\ said = "running" /\ exit = "none"
  /\ said' = s
  /\ UNCHANGED exit

\* Code 143 is reserved for a cancellation that was told as such.
Exit(code) ==
  /\ exit = "none"
  /\ code = "success" => said = "finished"
  /\ code = "cancelled" => said = "cancelled"
  /\ exit' = code
  /\ UNCHANGED said

Next ==
  \/ Announce
  \/ \E s \in Ends : Tell(s)
  \/ \E code \in {"success", "failure", "cancelled"} : Exit(code)

Spec == Init /\ [][Next]_<<said, exit>>
=============================================================================
