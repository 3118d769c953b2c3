----------------------------- MODULE MCHandler -----------------------------
(* Instances of Handler for TLC: two zones, x and y.                         *)
EXTENDS Handler

X == <<"x">>
Y == <<"y">>
A == <<"a", "x">>
B == <<"b", "a", "x">>
C == <<"c", "x">>
CA == <<"c", "a", "x">>

Rec(z, n, type, target) == [zone |-> z, name |-> n, type |-> type, target |-> target]

\* a.x is a host, a delegation with glue below it, an alias or a DNAME whose
\* target is below itself; it may exist for b.a.x or *.a.x only.
Below == {Rec(X, A, "A", Root), Rec(X, A, "NS", B), Rec(X, A, "DNAME", B),
          Rec(X, B, "A", Root), Rec(X, <<"*">> \o A, "CNAME", C)}

\* Aliases that loop, and one that leaves the zone.
Aliases == {Rec(X, A, "CNAME", C), Rec(X, C, "CNAME", A), Rec(X, C, "CNAME", Y)}

Others == {Rec(X, <<"*">> \o X, "A", Root), Rec(X, X, "NS", B), Rec(Y, Y, "A", Root)}

MCZones == {X, Y}
MCRecords == Below \cup Aliases \cup Others

Ask(names, types) == {[name |-> n, type |-> t] : n \in names, t \in types}

MCQuestions == Ask({B, CA}, {"A"}) \cup Ask({B}, {"ANY"}) \cup Ask({A}, {"NS", "DS"})
                 \cup Ask({X}, {"NS", "SOA"})
=============================================================================
