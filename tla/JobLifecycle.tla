---------------------------- MODULE JobLifecycle ----------------------------
(***************************************************************************)
(* What the package promises a user about the life of a job: JobStatus and *)
(* JobFuture (slurm_manager/job_future.py) seen through a status listener. *)
(* A job that has not ended may change its live status at any time.  It    *)
(* ends once, and whoever is told of its end is told in that step, once.   *)
(***************************************************************************)
EXTENDS Naturals

CONSTANTS Jobs, Listeners

VARIABLES
  state,   \* what JobFuture.status shows
  told     \* how often each listener was told of the end of each job

Live == {"pending", "running"}
Ends == {"finished", "error", "cancelled"}

Init ==
  /\ state = [j \in Jobs |-> "pending"]
  /\ told = [p \in Listeners \X Jobs |-> 0]

Progress(j, s) ==
  /\ state[j] \in Live
  /\ state' = [state EXCEPT ![j] = s]
  /\ UNCHANGED told

\* Nobody has been told yet, so everybody in L has been told once afterwards.
Finish(j, s, L) ==
  /\ state[j] \in Live
  /\ state' = [state EXCEPT ![j] = s]
  /\ told' = [p \in Listeners \X Jobs |-> IF p \in L \X {j} THEN 1 ELSE told[p]]

Next ==
  \E j \in Jobs :
    \/ \E s \in Live : Progress(j, s)
    \/ \E s \in Ends, L \in SUBSET Listeners : Finish(j, s, L)

Spec == Init /\ [][Next]_<<state, told>>
=============================================================================
