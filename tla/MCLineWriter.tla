---------------------------- MODULE MCLineWriter ----------------------------
(* An instance of LineWriter for TLC. *)
EXTENDS LineWriter
=============================================================================
