------------------------------ MODULE MCStore ------------------------------
(* Instances of Store for TLC: one zone.                                     *)
EXTENDS Store, TLC

CONSTANTS p1, p2

Rec(name, type, rdata) == [zone |-> "x", name |-> name, type |-> type, rdata |-> rdata]

\* A name with two CNAMEs and two addresses to choose from, and a CNAME at
\* the apex, which is always refused.
MCKeys == {Rec("w.x", t, d) : t \in {"CNAME", "A"}, d \in {1, 2}} \cup {Rec("x", "CNAME", 1)}
\* An RRset of two.
Pair == {Rec("w.x", "A", 1), Rec("w.x", "A", 2)}

MCSymmetry == Permutations(Procs)
=============================================================================
