-------------------------- MODULE MCRedisReporter --------------------------
(***************************************************************************)
(* RedisReporter for TLC: a plan of one job and one node, which is what    *)
(* the counters tell apart.                                                *)
(***************************************************************************)
EXTENDS RedisReporter

Plan  == {"job", "node"}
Nodes == {"node"}
=============================================================================
