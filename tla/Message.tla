------------------------------ MODULE Message ------------------------------
(***************************************************************************)
(* The wire format of internal/dns/message.go: names, questions, resource   *)
(* records, the OPT pseudo-record and the packing of a message for UDP.     *)
(*                                                                         *)
(* A message on the wire is a sequence of octets.  A name in memory is a    *)
(* Go string: a sequence of octets in which Dot separates the labels.  The  *)
(* limits of the format are constants, so that an instance can be small;    *)
(* offsets count from 0, as in the code.                                    *)
(***************************************************************************)
EXTENDS Integers, Sequences, Functions

CONSTANTS
    maxNameLen,         \* 255
    maxLabelLen,        \* 63
    maxPointerHops,     \* 16
    MaxUDPMessageSize,  \* 512
    MaxEDNSUDPSize,     \* 1232
    maxRDLen,           \* 0xFFFF, what the length field of a record can say
    Fail                \* an error

Octet == 0 .. 255
Width == {n \in Nat : n < 65536}  \* uint16

Questions == [name : Seq(Octet), type : Width, class : Width]
RRs == [name : Seq(Octet), type : Width, class : Width, ttl : Nat, rdata : Seq(Octet)]

\* Message, with what its OPT record says: edns, do and size.
Messages ==
    [id : Width, flags : Width, questions : Seq(Questions), answers : Seq(RRs),
     authority : Seq(RRs), additional : Seq(RRs), edns : BOOLEAN, do : BOOLEAN, size : Width]

ASSUME MessageAssumption ==
    /\ maxNameLen \in Nat \ {0} /\ maxLabelLen \in 1 .. 63 /\ maxPointerHops \in Nat
    /\ maxRDLen \in Width
    /\ MaxUDPMessageSize \in Nat /\ MaxEDNSUDPSize \in Width
    /\ MaxUDPMessageSize <= MaxEDNSUDPSize
    \* header, one question and OPT always fit
    /\ 12 + (maxNameLen + 4) + 11 <= MaxUDPMessageSize

\* An error is not a value.
ASSUME FailAssumption ==
    /\ Fail \notin Nat /\ Fail \notin Seq(Octet) /\ Fail \notin Messages
    /\ Fail \notin [off : Nat]
    /\ Fail \notin [item : Questions \cup RRs, off : Nat]
    /\ Fail \notin [items : Seq(Questions) \cup Seq(RRs), off : Nat]

Dot == 46
TypeOPT == 41

\* binary.BigEndian
U16(n) == <<(n \div 256) % 256, n % 256>>
U32(n) == U16(n \div 65536) \o U16(n % 65536)
Uint16(buf, off) == buf[off + 1] * 256 + buf[off + 2]
Uint32(buf, off) == Uint16(buf, off) * 65536 + Uint16(buf, off + 2)

\* buf[from:to]
Slice(buf, from, to) == SubSeq(buf, from + 1, to)

Last(s) == s[Len(s)]

\* The sequences of ss, one after the other.
Flatten(ss) ==
    LET upto[n \in 0 .. Len(ss)] == IF n = 0 THEN <<>> ELSE upto[n - 1] \o ss[n]
    IN  upto[Len(ss)]

----------------------------------------------------------------------------
(* Flags *)

Bit(flags, b) == (flags \div b) % 2 = 1
FlagQR == 32768
FlagAA == 1024
FlagTC == 512
FlagRD == 256
FlagDO == 32768  \* in the TTL of OPT
With(flags, b) == IF Bit(flags, b) THEN flags ELSE flags + b

Opcode(m) == (m.flags \div 2048) % 16
SetRcode(m, rcode) == [m EXCEPT !.flags = @ - (@ % 16) + rcode]

Empty == [id |-> 0, flags |-> 0, questions |-> <<>>, answers |-> <<>>,
          authority |-> <<>>, additional |-> <<>>, edns |-> FALSE, do |-> FALSE, size |-> 0]

\* NewResponse, which sets the size this server advertises.
NewResponse(req) ==
    [Empty EXCEPT !.id = req.id,
                  !.flags = FlagQR + Opcode(req) * 2048
                              + (IF Bit(req.flags, FlagRD) THEN FlagRD ELSE 0),
                  !.questions = req.questions,
                  !.edns = req.edns,
                  !.size = IF req.edns THEN MaxEDNSUDPSize ELSE 0,
                  !.do = req.edns /\ req.do]

UDPSize(m) ==
    IF ~m.edns \/ m.size < MaxUDPMessageSize THEN MaxUDPMessageSize
    ELSE IF m.size > MaxEDNSUDPSize THEN MaxEDNSUDPSize ELSE m.size

----------------------------------------------------------------------------
(* Names *)

Root == <<Dot>>

\* strings.TrimSuffix(name, ".")
TrimDot(name) == IF name # <<>> /\ Last(name) = Dot THEN Slice(name, 0, Len(name) - 1) ELSE name

\* The labels, with octet c after them.
Cut(ls, c) == IF c = Dot THEN Append(ls, <<>>) ELSE [ls EXCEPT ![Len(ls)] = Append(@, c)]

\* What lies between the dots.
Labels(name) ==
    LET upto[n \in 0 .. Len(name)] == IF n = 0 THEN << <<>> >> ELSE Cut(upto[n - 1], name[n])
    IN  upto[Len(name)]

Spell(labels) == Flatten([i \in DOMAIN labels |-> <<Len(labels[i])>> \o labels[i]]) \o <<0>>

\* Mutant of PackName: one octet too many is set aside.
PackNameShort(name) ==
    LET n == TrimDot(name)
        ls == Labels(n)
    IN  IF n = <<>> THEN <<0>>
        ELSE IF \/ Len(n) + 2 >= maxNameLen
                \/ \E i \in DOMAIN ls : Len(ls[i]) \notin 1 .. maxLabelLen THEN Fail
        ELSE Spell(ls)

PackName(name) ==
    LET n == TrimDot(name)
        ls == Labels(n)
    IN  IF n = <<>> THEN <<0>>
        ELSE IF \/ Len(n) + 2 > maxNameLen
                \/ \E i \in DOMAIN ls : Len(ls[i]) \notin 1 .. maxLabelLen THEN Fail
        ELSE Spell(ls)

\* A name that cannot be packed is written as the root.
AppendName(name) == IF PackName(name) = Fail THEN <<0>> ELSE PackName(name)

\* The locals of ParseName.
NameAt(off) == [next |-> off, text |-> <<>>, followed |-> FALSE, endOff |-> 0,
                hops |-> 0, nameLen |-> 1, done |-> FALSE, err |-> FALSE]

Refused(s) == [s EXCEPT !.done = TRUE, !.err = TRUE]

ParseEnd(buf, s) ==
    [s EXCEPT !.done = TRUE,
              !.endOff = IF s.followed THEN @ ELSE s.next + 1,
              !.text = IF @ = <<>> THEN Root ELSE @]

ParseLabel(buf, s) ==
    LET b   == buf[s.next + 1]
        end == s.next + 1 + b
    IN  IF b > maxLabelLen \/ end > Len(buf) \/ s.nameLen + 1 + b > maxNameLen THEN Refused(s)
        ELSE [s EXCEPT !.next = end,
                       !.nameLen = @ + 1 + b,
                       !.text = (IF @ = <<>> THEN <<>> ELSE Append(@, Dot))
                                  \o Slice(buf, s.next + 1, end)]

\* Mutant of ParsePointer: the hops are not counted.
ParsePointerUncounted(buf, s) ==
    IF s.next + 1 >= Len(buf) THEN Refused(s)
    ELSE [s EXCEPT !.next = (buf[s.next + 1] % 64) * 256 + buf[s.next + 2],
                   !.endOff = IF s.followed THEN @ ELSE s.next + 2,
                   !.followed = TRUE]

\* A pointer may lead anywhere; where the name ends is fixed by the first one.
ParsePointer(buf, s) ==
    IF s.next + 1 >= Len(buf) \/ s.hops + 1 > maxPointerHops THEN Refused(s)
    ELSE [s EXCEPT !.next = (buf[s.next + 1] % 64) * 256 + buf[s.next + 2],
                   !.endOff = IF s.followed THEN @ ELSE s.next + 2,
                   !.followed = TRUE,
                   !.hops = @ + 1]

\* One turn of the loop of ParseName.
ParseTurn(buf, s) ==
    IF s.next >= Len(buf) THEN Refused(s)
    ELSE LET b == buf[s.next + 1]
         IN  CASE b = 0          -> ParseEnd(buf, s)
               [] b \in 1 .. 63  -> ParseLabel(buf, s)
               [] b \div 64 = 3  -> ParsePointer(buf, s)
               [] OTHER          -> Refused(s)

\* The loop, as far as maxTurns: each turn takes a label or a pointer, or ends it.
maxTurns == maxPointerHops + maxNameLen + 1

ParseName(buf, off) ==
    LET turn[n \in Nat] ==
          IF n = 0 THEN NameAt(off)
          ELSE LET s == turn[n - 1] IN IF s.done THEN s ELSE ParseTurn(buf, s)
    IN  turn[maxTurns]

----------------------------------------------------------------------------
(* Messages *)

ParseQuestion(buf, off) ==
    LET Rest(n) ==
          IF n.err \/ n.endOff + 4 > Len(buf) THEN Fail
          ELSE [item |-> [name |-> n.text, type |-> Uint16(buf, n.endOff),
                          class |-> Uint16(buf, n.endOff + 2)],
                off  |-> n.endOff + 4]
    IN  Rest(ParseName(buf, off))

ParseRR(buf, off) ==
    LET Rest(n, at, rdata) ==
          LET end == rdata + Uint16(buf, at + 8)
          IN  IF n.err \/ rdata > Len(buf) \/ end > Len(buf) THEN Fail
              ELSE [item |-> [name |-> n.text, type |-> Uint16(buf, at),
                              class |-> Uint16(buf, at + 2), ttl |-> Uint32(buf, at + 4),
                              rdata |-> Slice(buf, rdata, end)],
                    off  |-> end]
        Owner(n) == Rest(n, n.endOff, n.endOff + 10)
    IN  Owner(ParseName(buf, off))

\* An item of a section, and the fewest octets one takes.
ParseItem(kind, buf, off) == IF kind = "question" THEN ParseQuestion(buf, off) ELSE ParseRR(buf, off)
least(kind) == IF kind = "question" THEN 5 ELSE 11

\* count items from where the section before ended.
ParseSection(kind, buf, before, count) ==
    LET More(s, r) == IF s = Fail \/ r = Fail THEN Fail
                      ELSE [items |-> Append(s.items, r.item), off |-> r.off]
        upto[n \in Nat] ==
          IF n = 0 THEN [items |-> <<>>, off |-> before.off]
          ELSE LET s == upto[n - 1] IN More(s, ParseItem(kind, buf, s.off))
    IN  IF before = Fail \/ count * least(kind) > Len(buf) - before.off THEN Fail ELSE upto[count]

Pick(rrs, opt) ==
    Flatten([i \in DOMAIN rrs |-> IF (rrs[i].type = TypeOPT) = opt THEN <<rrs[i]>> ELSE <<>>])

\* OPT is taken out of the additional section; the last one counts.
Sections(buf, qs, an, ns, ar, opts) ==
    [id |-> Uint16(buf, 0), flags |-> Uint16(buf, 2),
     questions |-> qs.items, answers |-> an.items, authority |-> ns.items,
     additional |-> Pick(ar.items, FALSE),
     edns |-> opts # <<>>,
     do   |-> opts # <<>> /\ Bit(Last(opts).ttl, FlagDO),
     size |-> IF opts # <<>> THEN Last(opts).class ELSE 0]

ParseMessage(buf) ==
    LET qs == ParseSection("question", buf, [off |-> 12], Uint16(buf, 4))
        an == ParseSection("rr", buf, qs, Uint16(buf, 6))
        ns == ParseSection("rr", buf, an, Uint16(buf, 8))
        ar == ParseSection("rr", buf, ns, Uint16(buf, 10))
    IN  IF Len(buf) < 12 \/ ar = Fail THEN Fail
        ELSE Sections(buf, qs, an, ns, ar, Pick(ar.items, TRUE))

AppendQuestion(q) == AppendName(q.name) \o U16(q.type) \o U16(q.class)

AppendRR(r) ==
    AppendName(r.name) \o U16(r.type) \o U16(r.class) \o U32(r.ttl)
      \o U16(Len(r.rdata)) \o r.rdata

AppendOPT(size, do) ==
    <<0>> \o U16(TypeOPT) \o U16(IF size = 0 THEN MaxEDNSUDPSize ELSE size)
      \o U32(IF do THEN FlagDO ELSE 0) \o U16(0)

AppendQuestions(qs) == Flatten([i \in DOMAIN qs |-> AppendQuestion(qs[i])])
AppendRRs(rrs) == Flatten([i \in DOMAIN rrs |-> AppendRR(rrs[i])])

Pack(m) ==
    LET rrs == m.answers \o m.authority \o m.additional
    IN  IF \E i \in DOMAIN rrs : Len(rrs[i].rdata) > maxRDLen THEN Fail
        ELSE U16(m.id) \o U16(m.flags)
               \o U16(Len(m.questions)) \o U16(Len(m.answers)) \o U16(Len(m.authority))
               \o U16(Len(m.additional) + (IF m.edns THEN 1 ELSE 0))
               \o AppendQuestions(m.questions) \o AppendRRs(rrs)
               \o (IF m.edns THEN AppendOPT(m.size, m.do) ELSE <<>>)


\* First the additional section is given up, then all records.
PackUDP(m) ==
    LET trimmed == [m EXCEPT !.additional = <<>>]
        tc      == [trimmed EXCEPT !.flags = With(@, FlagTC),
                                   !.answers = <<>>, !.authority = <<>>]
    IN  IF Pack(m) = Fail \/ Len(Pack(m)) <= UDPSize(m) THEN Pack(m)
        ELSE IF m.additional # <<>> /\ Len(Pack(trimmed)) <= UDPSize(m) THEN Pack(trimmed)
        ELSE Pack(tc)
=============================================================================
