----------------------------- MODULE MCExchange -----------------------------
(* An instance of Exchange for TLC: the limits of the format scaled down.    *)
EXTENDS Exchange

a == <<97>>
ab == <<97, 98>>
a_b == <<97, Dot, 98>>
ab_a == <<97, 98, Dot, 97>>   \* as long as a name may be
bytes(n) == [i \in 1 .. n |-> i]

rec(name, type, fields) == [name |-> name, type |-> type, ttl |-> 7, fields |-> fields]

\* Each type as it should be, and what is wrong or at a limit.
MCOffered ==
    {rec(a, "A", <<Addr4(bytes(4))>>), rec(ab_a, "AAAA", <<Addr6(bytes(16))>>),
     rec(a, "NS", <<Word(ab_a)>>), rec(<<Star>>, "CNAME", <<Word(Append(a_b, Dot))>>),
     rec(a, "DNAME", <<Word(Root)>>),
     rec(a, "MX", <<Num(65535), Word(ab)>>), rec(a, "SRV", <<Num(0), Num(1), Num(256), Word(a)>>),
     rec(a, "CAA", <<Num(128), Word(ab), Quoted(<<>>)>>),
     rec(a, "NAPTR", <<Num(1), Num(2), Quoted(a), Quoted(<<>>), Quoted(bytes(3)), Word(Root)>>),
     rec(a, "HINFO", <<Quoted(bytes(3)), Quoted(a)>>),
     rec(a, "SSHFP", <<Num(1), Num(255), Digits(bytes(2)), Digits(a)>>),
     rec(a, "TLSA", <<Num(1), Num(2), Num(3), Digits(bytes(4))>>),
     rec(a, "DS", <<Num(256), Num(2), Num(3), Digits(bytes(1)), Digits(bytes(2))>>),
     rec(a, "DNSKEY", <<Num(257), Num(3), Num(8), Digits(bytes(6))>>),
     rec(a, "TXT", <<>>), rec(a, "TXT", <<Word(bytes(3))>>),
     rec(a, "TXT", <<Quoted(bytes(7)), Quoted(<<>>), Quoted(a)>>),
     rec(a, "TXT", <<Quoted(bytes(24))>>),           \* too long to be sent
     rec(<<98, 97>>, "A", <<Addr4(bytes(4))>>), rec(<<At>>, "MX", <<Num(1), Word(a)>>),
     rec(<<65, Dot>>, "PTR", <<Word(a)>>), rec(<<66, Dot, 65>>, "PTR", <<Word(a)>>),
     [rec(a, "A", <<Addr4(bytes(4))>>) EXCEPT !.ttl = 0]}
    \cup
    {rec(a, "A", <<Addr6(bytes(16))>>), rec(a, "AAAA", <<>>), rec(a, "SOA", <<Word(a)>>),
     rec(a, "NS", <<Word(Append(ab_a, 97))>>), rec(a, "PTR", <<Word(<<Dot, 97>>)>>),
     rec(a, "MX", <<Num(65536), Word(a)>>), rec(a, "MX", <<Word(a), Word(a)>>),
     rec(a, "SSHFP", <<Num(256), Num(1), Digits(a)>>), rec(a, "DS", <<Num(1), Num(1), Num(1)>>),
     rec(a, "TLSA", <<Num(1), Num(1), Num(1), Digits(<<>>)>>),
     rec(a, "HINFO", <<Quoted(bytes(4)), Quoted(a)>>), rec(a, "HINFO", <<Quoted(a), Word(a)>>),
     rec(a, "CAA", <<Num(0), Word(bytes(4)), Word(a)>>), rec(a, "TXT", <<Quoted(a), Word(a)>>),
     rec(<<>>, "A", <<Addr4(bytes(4))>>), rec(<<98, Dot, Dot>>, "A", <<Addr4(bytes(4))>>),
     rec(<<Hyphen, 97>>, "A", <<Addr4(bytes(4))>>), rec(<<97, Dot, Star>>, "A", <<Addr4(bytes(4))>>),
     [rec(a, "A", <<Addr4(bytes(4))>>) EXCEPT !.ttl = maxTTL + 1]}

MCns1 == <<110, Dot>>
MChostmaster == <<104, Dot>>

zoneOf(name, primary, admin, expire) ==
    [name |-> name, primary |-> primary, admin |-> admin, timers |-> <<0, 70000, expire, 7>>]

\* Two that can be made, and four with something wrong: the default name too
\* long, an empty label in the address or the name, a negative timer.
MCOfferedZones ==
    {zoneOf(<<65, Dot>>, <<>>, <<>>, 0), zoneOf(ab_a, Root, <<104, At, 97, Dot>>, 1),
     zoneOf(ab_a, <<>>, <<104, At, 97>>, 0), zoneOf(a, Root, <<At, 97>>, 0),
     zoneOf(a, <<>>, <<>>, -1), zoneOf(<<98, Dot, Dot>>, Root, Root, 0)}

question(name, type, class) == [name |-> name, type |-> type, class |-> class]

\* A client's query; size 0 stands for one without EDNS.
packed(qs, flags, size) ==
    Pack([Empty EXCEPT !.id = 258, !.flags = flags, !.questions = qs,
                       !.edns = size # 0, !.size = size, !.do = size = 100])

MCAsked ==
    {packed(<<question(<<65>>, 1, ClassIN)>>, FlagRD, size) : size \in {0, 40, 100}}
    \cup {packed(<<question(ab_a, 255, ClassANY)>>, 0, 0)}

\* Refused before the database is asked, or no query at all.
Refusals ==
    {packed(<<question(a, 1, ClassIN)>>, flags, 0) : flags \in {2048, FlagQR, 30976}}
    \cup {packed(qs, FlagRD, 40) :
            qs \in {<<>>, <<question(a, 1, 3)>>, <<question(a, TypeOPT, ClassIN)>>,
                    <<question(a, TypeAXFR, ClassIN)>>, <<question(Root, 1, ClassIN)>>,
                    <<question(a, 1, ClassIN), question(ab, 1, ClassIN)>>}}

\* Cut short anywhere, with records that do not belong in a query, and with
\* octets in the place of the name that may mean anything.
Whole == Pack([Empty EXCEPT !.id = 1, !.questions = <<question(a, 1, ClassIN)>>,
                            !.answers = <<[name |-> ab, type |-> 1, class |-> ClassIN,
                                           ttl |-> 1, rdata |-> a]>>,
                            !.edns = TRUE, !.size = 40])

Headed(count, octets) == <<1, 2, 121, 0, 0, count, 0, 0, 0, 0, 0, 0>> \o octets
AnyOctet == {0, 1, 2, 3, Dot, 64, 192, 12, 14}
AnyName ==
        {Headed(1, o \o <<0, 1, 0, 1>>) : o \in [1 .. 4 -> AnyOctet]}
        \cup {Headed(1, <<2, 97, 98>> \o o \o <<0, 1, 0, 1>>) : o \in [1 .. 3 -> AnyOctet]}
        \cup {Headed(2, <<1, 97, 0, 0, 1, 0, 1>> \o o) : o \in [1 .. 2 -> AnyOctet]}
        \cup {Headed(2, <<1, 97, 0, 0, 1, 0, 1, 2, 97, Dot, 0, 0, 1, 0, 1>>)}

MCGarbled == Refusals \cup AnyName \cup {SubSeq(Whole, 1, n) : n \in 0 .. Len(Whole)}
=============================================================================
