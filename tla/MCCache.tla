------------------------------ MODULE MCCache ------------------------------
(* An instance of Cache for TLC: three keys, two of them of one group, in    *)
(* the first of two shards, which has room for two.                          *)
EXTENDS Cache

CONSTANTS a1, a2, b1, ga, gb

MCKeys == {a1, a2, b1}
MCGroups == {ga, gb}
MCGroupOf == [k \in MCKeys |-> IF k = b1 THEN gb ELSE ga]
MCShardFor == [k \in MCKeys |-> 0]

\* Idle goroutines are interchangeable (and numbered here): TLC follows the
\* calls of the least.
LeastFirst ==
    \A p, q \in Procs : p < q /\ pc[p] = "idle" /\ pc[q] = "idle" => pc'[q] = "idle"
=============================================================================
