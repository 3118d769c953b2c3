-------------------------- MODULE MCCachedResolver --------------------------
(* Instances of CachedResolver for TLC.                                      *)
EXTENDS CachedResolver, TLC

CONSTANTS l1, l2, w1, w2

\* A zone x with an empty non-terminal or a record at a.x and a leaf b.a.x.
Deep == {<<"x">>, <<"a", "x">>, <<"b", "a", "x">>}
\* A zone x and its child zone a.x.
Apex == {<<"x">>}
Nested == {<<"x">>, <<"a", "x">>}
\* QNames of one name.
Query1 == {<<"a", "x">>}

MCSymmetry == Permutations(Lookups) \cup Permutations(Writers)
=============================================================================
