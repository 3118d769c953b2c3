------------------------------- MODULE RData -------------------------------
(***************************************************************************)
(* Record data: from its text in the database to its octets in a message   *)
(* (internal/dns/rdata.go).                                                *)
(*                                                                         *)
(* The text is a sequence of fields.  How a field is written (decimal      *)
(* digits, hexadecimal digits, quotes and escapes, blanks between fields)   *)
(* is abstracted to its kind and the value it stands for.  A word is text   *)
(* that is of no other kind; unquoted TXT is one word, blanks included.     *)
(* What can be read as several kinds (10 is a number, a label, two digits)  *)
(* is of the kind that its place asks for.                                  *)
(***************************************************************************)
EXTENDS Message, FiniteSets

CONSTANT maxString  \* 255, what the length octet of a string can say

ASSUME RDataAssumption == maxString \in 1 .. 255

Field(kind, num, val) == [kind |-> kind, num |-> num, val |-> val]
Forms == {"number", "word", "quoted", "digits", "addr4", "addr6"}
Fields == [kind : Forms, num : Nat, val : Seq(Octet)]
Num(n) == Field("number", n, <<>>)
Word(t) == Field("word", 0, t)
Quoted(t) == Field("quoted", 0, t)
Digits(t) == Field("digits", 0, t)   \* hexadecimal or base64
Addr4(t) == Field("addr4", 0, t)
Addr6(t) == Field("addr6", 0, t)

\* The fields of each supported type; "blob" takes all that are left.
Format ==
    [A      |-> <<"addr4">>,
     AAAA   |-> <<"addr6">>,
     NS     |-> <<"name">>,
     CNAME  |-> <<"name">>,
     DNAME  |-> <<"name">>,
     PTR    |-> <<"name">>,
     MX     |-> <<"u16", "name">>,
     TXT    |-> <<"texts">>,
     SRV    |-> <<"u16", "u16", "u16", "name">>,
     CAA    |-> <<"u8", "tag", "value">>,
     NAPTR  |-> <<"u16", "u16", "string", "string", "string", "name">>,
     HINFO  |-> <<"string", "string">>,
     SSHFP  |-> <<"u8", "u8", "blob">>,
     TLSA   |-> <<"u8", "u8", "u8", "blob">>,
     DS     |-> <<"u16", "u8", "u8", "blob">>,
     DNSKEY |-> <<"u16", "u8", "u8", "blob">>,
     SOA    |-> <<"name", "name", "u32", "u32", "u32", "u32", "u32">>]

Hyphen == 45
Star == 42

\* SOA is made from the zone, not from a record.
SupportedTypes == DOMAIN Format \ {"SOA"}

TypeCode == [A |-> 1, NS |-> 2, CNAME |-> 5, SOA |-> 6, PTR |-> 12, HINFO |-> 13, MX |-> 15, TXT |-> 16,
         AAAA |-> 28, SRV |-> 33, NAPTR |-> 35, DNAME |-> 39, DS |-> 43, SSHFP |-> 44,
         DNSKEY |-> 48, TLSA |-> 52, CAA |-> 257]

----------------------------------------------------------------------------
(* Building *)

\* Lower case letters, digits, hyphens inside, underscores, and a
\* wildcard to the left; a name of 253 characters at most.
Letters == (97 .. 122) \cup (48 .. 57) \cup {Hyphen, 95}

ValidateName(name) ==
    LET ls == Labels(name)
    IN  /\ name # <<>>
        /\ Len(name) <= maxNameLen - 2
        /\ \A i \in DOMAIN ls :
             /\ Len(ls[i]) \in 1 .. maxLabelLen
             /\ \/ ls[i] = <<Star>> /\ i = 1
                \/ Range(ls[i]) \subseteq Letters /\ Hyphen \notin {Head(ls[i]), Last(ls[i])}

Prefixed(t) == <<Len(t)>> \o t


\* A string of TXT longer than maxString becomes several.
Chunks(t) ==
    LET full == IF t = <<>> THEN 0 ELSE (Len(t) - 1) \div maxString
    IN  Flatten([i \in 1 .. full |->
                      Prefixed(SubSeq(t, (i - 1) * maxString + 1, i * maxString))])
          \o Prefixed(SubSeq(t, full * maxString + 1, Len(t)))

\* Text that begins with a quote is a list of quoted strings, else it is one.
buildTXT(fs) ==
    IF fs = <<>> THEN <<0>>
    ELSE IF fs[1].kind = "quoted" /\ \E i \in DOMAIN fs : fs[i].kind # "quoted" THEN Fail
    ELSE Flatten([i \in DOMAIN fs |-> Chunks(fs[i].val)])

parseUint(x, width) == IF x.kind = "number" /\ x.num \in width THEN x.num ELSE Fail

Encode(f, x) ==
    CASE f = "u8"  -> IF parseUint(x, Octet) = Fail THEN Fail ELSE <<parseUint(x, Octet)>>
      [] f = "u16" -> IF parseUint(x, Width) = Fail THEN Fail ELSE U16(parseUint(x, Width))
      [] f = "u32" -> U32(x.num)
      [] f = "name" -> IF x.kind = "word" THEN PackName(x.val) ELSE Fail
      [] f = "string" ->
           IF x.kind = "quoted" /\ Len(x.val) <= maxString THEN Prefixed(x.val) ELSE Fail
      [] f = "tag" ->
           IF x.kind = "word" /\ Len(x.val) \in 1 .. maxString THEN Prefixed(x.val) ELSE Fail
      [] f = "value" -> IF x.kind \in {"word", "quoted"} THEN x.val ELSE Fail
      [] f \in {"addr4", "addr6"} -> IF x.kind = f THEN x.val ELSE Fail

\* The last fields joined and decoded: they must stand for something.
Blob(fs) ==
    LET all == Flatten([i \in DOMAIN fs |-> fs[i].val])
    IN  IF (\E i \in DOMAIN fs : fs[i].kind # "digits") \/ all = <<>> THEN Fail ELSE all

\* The fields of fs, one after the other, as the format of the type says.
Build(type, fs) ==
    LET format == Format[type]
        n      == Len(format)
        count  == IF Last(format) = "blob" THEN Len(fs) >= n ELSE Len(fs) = n
        part(i) == IF format[i] = "blob" THEN Blob(SubSeq(fs, i, Len(fs)))
                   ELSE Encode(format[i], fs[i])
    IN  IF ~count \/ \E i \in 1 .. n : part(i) = Fail THEN Fail
        ELSE Flatten([i \in 1 .. n |-> part(i)])

BuildRData(type, fs) ==
    CASE type \notin SupportedTypes -> Fail
      [] type = "TXT"               -> buildTXT(fs)
      [] OTHER                      -> Build(type, fs)

BuildSOA(soa) == Build("SOA", soa)

\* The name a record points to: "" if there is none.
RDataNames(type, rdata) ==
    LET at == CASE type \in {"NS", "CNAME", "DNAME", "PTR"} -> 0
                [] type = "MX"  -> 2
                [] type = "SRV" -> 6
                [] OTHER        -> Len(rdata)
        s  == ParseName(rdata, at)
    IN  IF Len(rdata) <= at \/ s.err THEN <<>> ELSE s.text

----------------------------------------------------------------------------
(* Reading record data back, as its standard says: the reference *)

\* The strings, one after the other, from octet `at` to the end.
Strings(w) ==
    LET from[at \in Nat] ==
          IF at >= Len(w) THEN <<>>
          ELSE <<Slice(w, at + 1, at + 1 + w[at + 1])>> \o from[at + 1 + w[at + 1]]
    IN  from[0]

\* The value of field f at the head of w, and how many octets it takes.
ReadField(f, w) ==
    CASE f = "u8" -> [val |-> w[1], size |-> 1]
      [] f = "u16" -> [val |-> Uint16(w, 0), size |-> 2]
      [] f = "u32" -> [val |-> Uint32(w, 0), size |-> 4]
      [] f = "name" -> [val |-> ParseName(w, 0).text, size |-> ParseName(w, 0).endOff]
      [] f \in {"string", "tag"} -> [val |-> Slice(w, 1, 1 + w[1]), size |-> 1 + w[1]]
      [] OTHER -> [val |-> w, size |-> Len(w)]

Read(type, w) ==
    LET format == Format[type]
        at[i \in Nat] ==
          IF i = 1 THEN 0
          ELSE LET a == at[i - 1] IN a + ReadField(format[i - 1], Slice(w, a, Len(w))).size
    IN  [i \in DOMAIN format |-> ReadField(format[i], Slice(w, at[i], Len(w))).val]

\* What the fields of a record's text say.
Said(type, fs) ==
    LET format == Format[type]
    IN  [i \in DOMAIN format |->
           CASE format[i] = "blob" ->
                  Flatten([j \in 1 .. Len(fs) - i + 1 |-> fs[j + i - 1].val])
             [] format[i] = "name" -> IF TrimDot(fs[i].val) = <<>> THEN Root ELSE TrimDot(fs[i].val)
             [] format[i] \in {"u8", "u16", "u32"} -> fs[i].num
             [] OTHER -> fs[i].val]

\* The octets w say what the text fs says.
Faithful(type, fs, w) ==
    IF type = "TXT"
      THEN /\ Flatten(Strings(w)) = Flatten([i \in DOMAIN fs |-> fs[i].val])
           /\ \A i \in DOMAIN Strings(w) : Len(Strings(w)[i]) <= maxString
      ELSE Read(type, w) = Said(type, fs)
=============================================================================
