---------------------------- MODULE MCThrottling ----------------------------
(* Throttling with requests for different scopes of one client. *)
EXTENDS Throttling, TLC

CONSTANT STRICT

MCStrictOf == [r \in Requests |-> STRICT]
MCFullOf   == [r \in Requests |-> r]
Symmetry   == Permutations(Requests)

\* Everything but the return value of the last call on the cache, which no
\* action and no property reads.
View == <<now, lastRefresh, order, value, dangling, pc, seen, history>>
=============================================================================
