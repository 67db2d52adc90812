------------------------------ MODULE MCThreads ------------------------------
(* An instance of Threads for TLC. *)
EXTENDS Threads

CONSTANTS u1, p1
=============================================================================
