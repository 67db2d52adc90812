---------------------------- MODULE MCJobTracker ----------------------------
(* Instances of JobTracker for TLC. *)
EXTENDS JobTracker, TLC

CONSTANTS j1, j2, u1, g1

\* A listener on the status topic of job j1, or none.
MCTopic   == u1 :> <<j1, "status">>
MCNoTopic == [u \in {} |-> <<j1, "status">>]

\* One manager-wide status listener, or none.
MCEvent   == g1 :> "status"
MCNoEvent == [g \in {} |-> "status"]

\* A payload that is a status and one that is not; or only a terminal one.
MCPayloads   == {"running", "garbled"}
MCOnePayload == {"finished"}
=============================================================================
