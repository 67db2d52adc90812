--------------------------- MODULE MCSlurmManager ---------------------------
(* Instances of SlurmManager for TLC: no user listeners, which JobTracker's *)
(* own instances cover.                                                     *)
EXTENDS SlurmManager

CONSTANT j1

MCNone == [x \in {} |-> x]
=============================================================================
