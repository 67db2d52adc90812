----------------------------- MODULE MCJobFuture -----------------------------
(* Instances of JobFuture for TLC. *)
EXTENDS JobFuture, TLC

CONSTANTS t1, t2, w1, i1, i2

\* Both callbacks are for one event, so they share a list.
MCEventOf == i1 :> "status" @@ i2 :> "status"
=============================================================================
