-------------------------- MODULE MCRedisSubClient --------------------------
(* Instances of RedisSubClient for TLC. *)
EXTENDS RedisSubClient, TLC

CONSTANTS a, i1, i2

\* Both registrations are on channel a, so that it is removed, kept by its other
\* owner, or subscribed again.
MCPair == i1 :> a @@ i2 :> a
=============================================================================
