----------------------------- MODULE MCDispatch -----------------------------
(* An instance of Dispatch for TLC: a log and a status listener of the job, and *)
(* a manager-wide log listener.                                                 *)
EXTENDS Dispatch, TLC

CONSTANTS ulog, ustatus, glog

MCEventOf == ulog :> "log" @@ ustatus :> "status" @@ glog :> "log"
=============================================================================
