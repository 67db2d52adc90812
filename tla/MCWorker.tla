------------------------------ MODULE MCWorker ------------------------------
(* An instance of Worker for TLC. *)
EXTENDS Worker

CONSTANT c1
=============================================================================
