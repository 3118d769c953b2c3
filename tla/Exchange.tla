------------------------------ MODULE Exchange ------------------------------
(***************************************************************************)
(* One query and its reply, octet by octet: serveUDP and the body of        *)
(* tcpConnLoop (internal/dns/server.go), the checks at the head of Handle   *)
(* (internal/dns/handler.go) and the encoding of the records it answers     *)
(* with.  Zone and records came in through CreateZone and CreateRecord of   *)
(* the API (internal/api/service.go).  Which records go into which section  *)
(* is Handler's subject; here any may.                                      *)
(*                                                                         *)
(* A client whose reply is truncated asks again over TCP.                   *)
(***************************************************************************)
EXTENDS RData

CONSTANTS
    Offered,       \* records the API may be given: [name, type, ttl, fields]
    OfferedZones,  \* zones, likewise: [name, primary, admin, timers]
    ns1,           \* "ns1."
    hostmaster,    \* "hostmaster."
    Asked,         \* queries: octets
    Garbled,       \* queries sent before there is a zone
    maxTCPLen,     \* 65535
    maxTTL,        \* 2^31 - 1
    MaxRecords,    \* bound: records created
    None

MaxInt32 == 2147483647
Int32 == {n \in Int : -MaxInt32 - 1 <= n /\ n <= MaxInt32}

ASSUME ExchangeAssumption ==
    /\ maxTCPLen \in Width /\ maxTTL \in Nat /\ maxTTL <= MaxInt32 /\ MaxRecords \in Nat
    /\ Offered \subseteq [name : Seq(Octet), type : STRING, ttl : Int, fields : Seq(Fields)]
    /\ OfferedZones \subseteq [name : Seq(Octet), primary : Seq(Octet), admin : Seq(Octet),
                                timers : [1 .. 4 -> Int32]]
    /\ ns1 \in Seq(Octet) /\ hostmaster \in Seq(Octet)
    /\ Asked \subseteq Seq(Octet) /\ Garbled \subseteq Seq(Octet)
    /\ Fail \notin [labels : Seq(Seq(Octet)), hops : Nat]

VARIABLES
    zone,    \* the zone the API has made, or None: [name, soa]
    stored,  \* the records the API has taken
    at,      \* where the exchange is
    tcp,     \* the query came over TCP
    query,   \* its octets
    req,     \* what ParseMessage made of them
    resp,    \* what Handle answered
    reply    \* the octets sent, or None

vars == <<zone, stored, at, tcp, query, req, resp, reply>>

----------------------------------------------------------------------------
(* The API *)

\* strings.Replace(z.AdminEmail, "@", ".", 1)
At == 64

Address(email) ==
    LET ats == {i \in DOMAIN email : email[i] = At}
    IN  [i \in DOMAIN email |-> IF i \in ats /\ \A j \in ats : i <= j THEN Dot ELSE email[i]]

\* Blanks around a name are left out of the model.
Lower(name) == [i \in DOMAIN name |-> IF name[i] \in 65 .. 90 THEN name[i] + 32 ELSE name[i]]
NormalizeZone(name) == TrimDot(Lower(name))

\* strings.HasSuffix, and the same of labels.
IsSuffix(s, t) == Len(s) <= Len(t) /\ SubSeq(t, Len(t) - Len(s) + 1, Len(t)) = s

\* Mutant of NormalizeName: any name that ends like the zone is taken to be in it.
NormalizeNameAnyEnd(z, name) ==
    LET n == TrimDot(Lower(name))
    IN  IF n \in {<<>>, <<At>>, z} THEN z
        ELSE IF IsSuffix(z, n) THEN n ELSE n \o <<Dot>> \o z

\* Absolute if it lies in the zone, else relative to it.
NormalizeName(z, name) ==
    LET n == TrimDot(Lower(name))
    IN  IF n \in {<<>>, <<At>>, z} THEN z
        ELSE IF IsSuffix(<<Dot>> \o z, n) THEN n ELSE n \o <<Dot>> \o z

orString(v, def) == IF v = <<>> THEN def ELSE v
orInt(v, def) == IF v = 0 THEN def ELSE v
defaultTimers == <<3600, 900, 604800, 300>>

\* Mutant of validateSOA: the address is not looked at.
validateSOAPrimary(primary, admin, timers) ==
    /\ PackName(primary) # Fail
    /\ \A i \in DOMAIN timers : timers[i] >= 0

validateSOA(primary, admin, timers) ==
    /\ PackName(primary) # Fail /\ PackName(Address(admin)) # Fail
    /\ \A i \in DOMAIN timers : timers[i] >= 0

CreateZone(z) ==
    LET name    == NormalizeZone(z.name)
        primary == orString(z.primary, ns1 \o name \o <<Dot>>)
        admin   == orString(z.admin, hostmaster \o name \o <<Dot>>)
        timers  == [i \in 1 .. 4 |-> orInt(z.timers[i], defaultTimers[i])]
    IN  /\ at = "idle"
        /\ zone = None
        /\ ValidateName(name)
        /\ validateSOA(primary, admin, timers)
        /\ zone' = [name |-> name,
                    soa  |-> <<Word(primary), Word(Address(admin)), Num(1)>>
                               \o [i \in 1 .. 4 |-> Num(timers[i])]]
        /\ UNCHANGED <<stored, at, tcp, query, req, resp, reply>>

defaultTTL == 300

TTL(r) == IF r.ttl = 0 THEN defaultTTL ELSE r.ttl

\* Mutant of Accepts: a TTL of any size is taken.
AcceptsAnyTTL(r) ==
    /\ r.name # <<>>
    /\ r.type \in SupportedTypes
    /\ ValidateName(NormalizeName(zone.name, r.name))
    /\ BuildRData(r.type, r.fields) # Fail

Accepts(r) ==
    /\ r.name # <<>>
    /\ r.type \in SupportedTypes
    /\ ValidateName(NormalizeName(zone.name, r.name))
    /\ BuildRData(r.type, r.fields) # Fail
    /\ TTL(r) \in 1 .. maxTTL

\* The service normalises the name, and the store does once more.
CreateRecord(r) ==
    LET name == NormalizeName(zone.name, NormalizeName(zone.name, r.name))
    IN  /\ at = "idle"
        /\ zone # None
        /\ Len(stored) < MaxRecords
        /\ Accepts(r)
        /\ stored' = Append(stored, [r EXCEPT !.name = name, !.ttl = TTL(r)])
        /\ UNCHANGED <<zone, at, tcp, query, req, resp, reply>>

----------------------------------------------------------------------------
(* The client *)

Ask(q, overTCP) ==
    /\ at = "idle"
    /\ query' = q
    /\ tcp' = overTCP
    /\ at' = "arrived"
    /\ UNCHANGED <<zone, stored, req, resp, reply>>

Truncated == at = "answered" /\ Bit(Uint16(reply, 2), FlagTC)

AskAgain ==
    /\ Truncated /\ ~tcp
    /\ tcp' = TRUE
    /\ at' = "arrived"
    /\ req' = None /\ resp' = None /\ reply' = None
    /\ UNCHANGED <<zone, stored, query>>

----------------------------------------------------------------------------
(* The server *)

FORMERR == 1
SERVFAIL == 2
NXDOMAIN == 3
NOTIMP == 4
REFUSED == 5

\* The id, the opcode and RD of the query, and nothing else.
formErr(q) ==
    U16(Uint16(q, 0)) \o <<128 + ((q[3] % 128) \div 8) * 8 + (q[3] % 2), FORMERR>>
      \o [i \in 1 .. 8 |-> 0]

Send(out) == reply' = out /\ at' = "answered"

\* Nothing is sent; a TCP connection is closed.
Drop == reply' = None /\ at' = "dropped"

IsReply(q) == q[3] >= 128

\* Mutant of Receive: a query that cannot be parsed is passed over in silence.
ReceiveSilent ==
    /\ at = "arrived"
    /\ req' = IF tcp /\ Len(query) < 12 THEN Fail ELSE ParseMessage(query)
    /\ IF req' = Fail \/ IsReply(query) THEN Drop
       ELSE at' = "parsed" /\ UNCHANGED reply
    /\ UNCHANGED <<zone, stored, tcp, query, resp>>

\* As far as Handle.
Receive ==
    /\ at = "arrived"
    /\ req' = IF tcp /\ Len(query) < 12 THEN Fail ELSE ParseMessage(query)
    /\ IF req' = Fail
         THEN IF Len(query) >= 12 /\ ~IsReply(query) THEN Send(formErr(query)) ELSE Drop
       ELSE IF IsReply(query) THEN Drop
       ELSE at' = "parsed" /\ UNCHANGED reply
    /\ UNCHANGED <<zone, stored, tcp, query, resp>>

ClassIN == 1
ClassANY == 255
TypeIXFR == 251
TypeAXFR == 252

\* The question is refused before the database is asked: the rcode, or None.
Refusal(m) ==
    LET q == m.questions[1]
    IN  CASE Opcode(m) # 0                      -> NOTIMP
          [] Len(m.questions) # 1               -> FORMERR
          [] q.class \notin {ClassIN, ClassANY} -> REFUSED
          [] q.type = TypeOPT                   -> FORMERR
          [] q.type \in {TypeAXFR, TypeIXFR}    -> REFUSED
          [] TrimDot(q.name) = <<>>             -> REFUSED
          [] OTHER                              -> None

\* appendRR: what cannot be encoded is left out.
appendRR(rs) ==
    Flatten([i \in DOMAIN rs |->
               LET rdata == BuildRData(rs[i].type, rs[i].fields)
               IN  IF rdata = Fail THEN <<>>
                   ELSE <<[name |-> rs[i].name, type |-> TypeCode[rs[i].type],
                           class |-> ClassIN, ttl |-> rs[i].ttl, rdata |-> rdata]>>])

Refuse(rcode) == resp' = SetRcode(NewResponse(req), rcode)

\* The answers are the first a records, the authority section the next up to
\* n, the additional section the rest.  A referral clears AA again.
Positive(a, n, aa) ==
    resp' = [NewResponse(req) EXCEPT
               !.flags = IF aa THEN With(@, FlagAA) ELSE @,
               !.answers = appendRR(SubSeq(stored, 1, a)),
               !.authority = appendRR(SubSeq(stored, a + 1, n)),
               !.additional = appendRR(SubSeq(stored, n + 1, Len(stored)))]

soaRR == [name |-> zone.name, type |-> TypeCode["SOA"], class |-> ClassIN,
          ttl |-> Last(zone.soa).num, rdata |-> BuildSOA(zone.soa)]

\* No such name, or no such type.
Negative(rcode) ==
    resp' = SetRcode([NewResponse(req) EXCEPT
                        !.flags = With(@, FlagAA),
                        !.authority = IF soaRR.rdata = Fail THEN <<>> ELSE <<soaRR>>], rcode)

\* The database has the zone and answers, has not the zone, or fails.
Handle ==
    /\ at = "parsed"
    /\ \/ Refusal(req) # None /\ Refuse(Refusal(req))
       \/ Refusal(req) = None /\ \E rcode \in {REFUSED, SERVFAIL} : Refuse(rcode)
       \/ /\ Refusal(req) = None /\ zone # None
          /\ \E rcode \in {0, NXDOMAIN} : Negative(rcode)
       \/ /\ Refusal(req) = None /\ stored # <<>>
          /\ \E a, n \in 0 .. Len(stored), aa \in BOOLEAN : a <= n /\ Positive(a, n, aa)
    /\ at' = "handled"
    /\ UNCHANGED <<zone, stored, tcp, query, req, reply>>

Write ==
    LET out == IF tcp THEN Pack(resp) ELSE PackUDP(resp)
    IN  /\ at = "handled"
        /\ IF out = Fail \/ (tcp /\ Len(out) > maxTCPLen) THEN Drop ELSE Send(out)
        /\ UNCHANGED <<zone, stored, tcp, query, req, resp>>

Init ==
    /\ zone = None /\ stored = <<>> /\ at = "idle" /\ tcp = FALSE
    /\ query = <<>> /\ req = None /\ resp = None /\ reply = None

Next ==
    \/ \E z \in OfferedZones : CreateZone(z)
    \/ \E r \in Offered : CreateRecord(r)
    \/ \E q \in Asked, overTCP \in BOOLEAN : Ask(q, overTCP)
    \/ /\ at = "idle" /\ zone = None
       /\ \E q \in Garbled, overTCP \in BOOLEAN : Ask(q, overTCP)
    \/ AskAgain \/ Receive \/ Handle \/ Write

Spec == Init /\ [][Next]_vars

----------------------------------------------------------------------------
(* What a name on the wire means, whatever the limits: its labels and how    *)
(* many pointers lead to them, or Fail if it has no end.                    *)

Meaning(buf, off) ==
    LET from[n \in Nat] ==
          [o \in Nat |->
             LET b == buf[o + 1]
             IN  IF n = 0 \/ o >= Len(buf) THEN Fail
                 ELSE IF b = 0 THEN [labels |-> <<>>, hops |-> 0]
                 ELSE IF b < 64
                   THEN LET rest == from[n - 1][o + 1 + b]
                        IN  IF rest = Fail THEN Fail
                            ELSE [rest EXCEPT !.labels = <<Slice(buf, o + 1, o + 1 + b)>> \o @]
                 ELSE IF b >= 192 /\ o + 1 < Len(buf)
                   THEN LET rest == from[n - 1][(b % 64) * 256 + buf[o + 2]]
                        IN  IF rest = Fail THEN Fail ELSE [rest EXCEPT !.hops = @ + 1]
                 ELSE Fail]
    IN  from[maxTurns][off]

WithinLimits(m) ==
    /\ m # Fail
    /\ m.hops <= maxPointerHops
    /\ Len(Spell(m.labels)) <= maxNameLen
    /\ \A i \in DOMAIN m.labels : Len(m.labels[i]) <= maxLabelLen

Joined(labels) ==
    IF labels = <<>> THEN Root
    ELSE Tail(Flatten([i \in DOMAIN labels |-> <<Dot>> \o labels[i]]))

----------------------------------------------------------------------------
(* Properties *)

\* The type invariant: octets are octets, and what was parsed or answered has
\* fields that fit their width.
TypeOK ==
    /\ zone \in [name : Seq(Octet), soa : Seq(Fields)] \cup {None}
    /\ stored \in Seq([name : Seq(Octet), type : SupportedTypes, ttl : 1 .. maxTTL,
                        fields : Seq(Fields)])
    /\ Len(stored) <= MaxRecords
    /\ at \in {"idle", "arrived", "parsed", "handled", "answered", "dropped"}
    /\ tcp \in BOOLEAN
    /\ query \in Seq(Octet)
    /\ req \in Messages \cup {None, Fail}
    /\ resp \in Messages \cup {None}
    /\ reply \in Seq(Octet) \cup {None}

\* ParseName ends on every input, pointers that lead in circles included.  It
\* accepts a name exactly if it has an end within the limits, and then returns
\* its labels, joined by dots.
NameMeaning ==
    at = "arrived" =>
      LET s == ParseName(query, 12)
          m == Meaning(query, 12)
      IN  /\ s.done
          /\ s.err <=> ~WithinLimits(m)
          /\ ~s.err => s.text = Joined(m.labels)

\* A reply goes to every query of at least a header that is not itself a
\* reply, unless a record or the message is too long to be sent.  It carries
\* QR and the query's id, and can be parsed in its turn.
RepliesToQueries ==
    /\ at = "dropped" =>
         \/ Len(query) < 12
         \/ IsReply(query)
         \/ req # Fail /\ Pack(resp) = Fail
         \/ req # Fail /\ tcp /\ Len(Pack(resp)) > maxTCPLen
    /\ at = "answered" =>
         /\ ~IsReply(query) /\ IsReply(reply)
         /\ Uint16(reply, 0) = Uint16(query, 0)
         /\ ParseMessage(reply) # Fail

\* Whatever becomes of the records, the questions come back, every one in the
\* spelling it was asked in (if its name has no empty label, which only a dot
\* inside a label can make), and the first label for label (unless a label
\* holds a dot, which a name in memory cannot tell from the end of a label).
EchoesQuestion ==
    at = "answered" /\ req # Fail /\ req.questions # <<>> =>
      LET asked == Meaning(query, 12)
          dots  == \E i \in DOMAIN asked.labels : Dot \in Range(asked.labels[i])
          qs    == ParseMessage(reply).questions
          whole(name) == name = Root \/ <<>> \notin Range(Labels(name))
      IN  /\ Len(qs) = Len(req.questions)
          /\ \A i \in DOMAIN qs : whole(req.questions[i].name) => qs[i] = req.questions[i]
          /\ ~dots => Meaning(reply, 12) # Fail /\ Meaning(reply, 12).labels = asked.labels


\* The reply is whole, and Handle found the zone.
Served == /\ req # Fail /\ resp # None /\ ~Truncated
          /\ resp.flags % 16 \in {0, NXDOMAIN}

\* Handle said that there is nothing.
Denial == resp.answers = <<>> /\ resp.additional = <<>>
            /\ (resp.authority = <<>> \/ resp.authority[1].type = TypeCode["SOA"])

\* Record r reads back from the RR x.
ReadsBack(r, x) ==
    /\ x.name = r.name /\ x.ttl = r.ttl
    /\ Faithful(r.type, r.fields, x.rdata)
    /\ r.type \in {"NS", "CNAME", "DNAME", "PTR", "MX", "SRV"} =>
         RDataNames(r.type, x.rdata) = Last(Said(r.type, r.fields))


\* Whatever spelling the API was sent, a record is at a name of its zone, label
\* by label, where queries will look for it.
OwnersInZone ==
    \A i \in DOMAIN stored :
      /\ ValidateName(stored[i].name)
      /\ IsSuffix(Labels(zone.name), Labels(stored[i].name))

\* A zone the API made can always say no: a denial carries the zone's SOA, and
\* it reads back as the zone was made, defaults and address included.
DenialHasSOA ==
    at = "answered" /\ Served /\ Denial =>
      LET soa == ParseMessage(reply).authority
      IN  /\ Len(soa) = 1
          /\ soa[1].name = zone.name
          /\ Read("SOA", soa[1].rdata) = Said("SOA", zone.soa)
=============================================================================
