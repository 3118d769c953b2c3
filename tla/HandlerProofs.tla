---------------------------- MODULE HandlerProofs ----------------------------
(***************************************************************************)
(* Proofs about the answers: for any zones, records, questions and writes    *)
(* between the lookups.                                                    *)
(***************************************************************************)
EXTENDS Handler, FiniteSetTheorems, TLAPS

\* The provers that a leaf is given to, in this order, unless it names one.
USE ZenonT(60), SMTT(60)

----------------------------------------------------------------------------
(* The inductive invariant *)

Name == Seq(STRING)
Types == {r.type : r \in Records} \cup {"SOA", "NS", "CNAME", "DNAME"}
RCodes == {"NOERROR", "FORMERR", "SERVFAIL", "NXDOMAIN", "NOTIMP", "REFUSED"}
RRset == [owner : Name, type : Types, targets : SUBSET Name]
Response == [rcode : RCodes, aa : BOOLEAN, answers : Seq(RRset), authority : SUBSET RRset,
             additional : SUBSET [owner : Name, type : Types]]

\* The types, and what Store keeps true of the records.
TypeInv ==
    /\ zones \subseteq Zones /\ records \subseteq Records /\ CNAMEAlone(records)
    /\ writes \in Nat
    /\ pc \in {"idle", "findZone", "lookup", "climb", "wildcard", "zoneFor", "glue", "done"}
    /\ zone \in Name /\ name \in Name /\ encloser \in Name
    /\ todo \subseteq Name /\ seen \in Nat
    /\ resp \in Response

\* Where the lookup of a name is: in the zone of the name, at or below the apex.
Place ==
    /\ pc \in {"lookup", "climb", "wildcard"} => inZone(name, zone)
    /\ pc \in {"climb", "wildcard"} =>
         inZone(encloser, zone) /\ inZone(name, encloser) /\ name # zone
    /\ pc = "climb" => encloser # zone
    /\ pc = "wildcard" => encloser # name

\* Until the answer is there nothing of a response is but the chain to the name.
Pending ==
    /\ pc \in {"idle", "findZone"} => resp = Empty
    /\ pc \in {"lookup", "climb", "wildcard", "zoneFor"} =>
         /\ resp.rcode = "NOERROR" /\ resp.aa
         /\ resp.authority = {} /\ resp.additional = {}
         /\ resp.answers # <<>> =>
              Last(resp.answers).type = "CNAME" /\ Last(resp.answers).targets = {name}
    /\ pc = "glue" => resp.rcode = "NOERROR" /\ \A c \in resp.authority : c.type # "SOA"

\* The names from the one asked for up to where the climb is do not exist, as
\* long as nothing is written.
Climbed ==
    writes = 0 =>
      /\ pc = "climb" =>
           \A f \in Suffixes(name) : Exists(zone, f) => Len(f) < Len(encloser)
      /\ pc = "wildcard" =>
           /\ ~Exists(zone, name)
           /\ encloser = zone \/ Exists(zone, encloser)
           /\ \A f \in Suffixes(name) : Exists(zone, f) => Len(f) <= Len(encloser)

\* A referral names a cut, and the glue is of its servers.
IsCut(c) ==
    c.type = "NS" /\ inZone(name, c.owner) /\ inZone(c.owner, zone) /\ c.owner # zone

Cut ==
    pc \in {"glue", "done"} /\ resp.rcode = "NOERROR" /\ ~resp.aa =>
      \E c \in resp.authority :
        /\ IsCut(c)
        /\ \A a \in resp.additional : a.owner \in c.targets
        /\ pc = "glue" => todo \subseteq c.targets

\* What may follow a redirection x: data of its target, or a DNAME above it.
Continues(x, y) ==
    x.type = "CNAME" =>
      \A t \in x.targets : y.owner = t \/ (y.type = "DNAME" /\ inZone(t, y.owner))

Chained(a) == \A i \in 1 .. Len(a) - 1 : Continues(a[i], a[i + 1])

IInv ==
    /\ TypeInv /\ Place /\ Pending /\ Climbed /\ Cut
    /\ Chained(resp.answers) /\ FailuresEmpty /\ NegativeRight

----------------------------------------------------------------------------
(* Suffixes of names *)

(* Every name is a suffix of itself.                                        *)
LEMMA SuffixRefl ==
  ASSUME NEW L, NEW s \in Seq(L)
  PROVE  inZone(s, s)
<1>1. Len(s) \in Nat /\ \A i \in 1 .. Len(s) : (Len(s) - Len(s)) + i = i
  BY SMTT(60)
<1>2. Len(s) <= Len(s)
  BY <1>1, SMTT(60)
<1> QED BY <1>1, <1>2 DEF inZone

(* A suffix of a suffix is one.                                             *)
LEMMA SuffixTrans ==
  ASSUME NEW L, NEW s \in Seq(L), NEW t \in Seq(L), NEW u \in Seq(L),
         inZone(t, s), inZone(u, t)
  PROVE  inZone(u, s)
<1>1. /\ Len(s) <= Len(t) /\ \A i \in 1 .. Len(s) : s[i] = t[(Len(t) - Len(s)) + i]
      /\ Len(t) <= Len(u) /\ \A i \in 1 .. Len(t) : t[i] = u[(Len(u) - Len(t)) + i]
      /\ Len(s) \in Nat /\ Len(t) \in Nat /\ Len(u) \in Nat
  BY DEF inZone
<1>2. ASSUME NEW i \in 1 .. Len(s) PROVE s[i] = u[(Len(u) - Len(s)) + i]
  <2>1. (Len(t) - Len(s)) + i \in 1 .. Len(t)
    BY <1>1, SMTT(60)
  <2>2. (Len(u) - Len(t)) + ((Len(t) - Len(s)) + i) = (Len(u) - Len(s)) + i
    BY <1>1, SMTT(60)
  <2> QED BY <1>1, <2>1, <2>2
<1>3. Len(s) <= Len(u)
  BY <1>1, SMTT(60)
<1> QED BY <1>2, <1>3 DEF inZone

(* Suffixes of one length are the same.                                     *)
LEMMA SuffixSame ==
  ASSUME NEW L, NEW s \in Seq(L), NEW t \in Seq(L), NEW u \in Seq(L),
         inZone(u, s), inZone(u, t), Len(s) = Len(t)
  PROVE  s = t
<1>1. /\ \A i \in 1 .. Len(s) : s[i] = u[(Len(u) - Len(s)) + i]
      /\ \A i \in 1 .. Len(s) : t[i] = u[(Len(u) - Len(s)) + i]
  BY DEF inZone
<1>2. \A i \in 1 .. Len(s) : s[i] = t[i]
  BY <1>1
<1> QED BY <1>2, SMTT(60)

(* What is above a name: the suffixes of all but its first label.           *)
LEMMA SuffixTail ==
  ASSUME NEW L, NEW s \in Seq(L), NEW t \in Seq(L), inZone(t, s), s # t
  PROVE  /\ t # <<>> /\ Tail(t) \in Seq(L) /\ Len(Tail(t)) = Len(t) - 1
         /\ inZone(t, Tail(t)) /\ inZone(Tail(t), s)
<1>1. /\ Len(s) <= Len(t) /\ Len(s) \in Nat /\ Len(t) \in Nat
      /\ \A i \in 1 .. Len(s) : s[i] = t[(Len(t) - Len(s)) + i]
  BY DEF inZone
<1>2. Len(s) # Len(t)
  BY SuffixSame, SuffixRefl
<1>3. t # <<>>
  BY <1>1, <1>2, SMTT(60)
<1>4. /\ Tail(t) \in Seq(L) /\ Len(Tail(t)) = Len(t) - 1
      /\ \A i \in 1 .. Len(t) - 1 : Tail(t)[i] = t[i + 1]
  BY <1>3, SMTT(60)
<1> DEFINE u == Tail(t)
<1> HIDE DEF u
<1>5. /\ u \in Seq(L) /\ Len(u) = Len(t) - 1 /\ \A i \in 1 .. Len(t) - 1 : u[i] = t[i + 1]
  BY <1>4 DEF u
<1>6. Len(u) <= Len(t) /\ \A i \in 1 .. Len(u) : u[i] = t[(Len(t) - Len(u)) + i]
  <2>1. Len(u) <= Len(t)
    BY <1>1, <1>5, SMTT(60)
  <2>2. ASSUME NEW i \in 1 .. Len(u) PROVE i \in 1 .. Len(t) - 1 /\ (Len(t) - Len(u)) + i = i + 1
    BY <1>1, <1>5, SMTT(60)
  <2> QED BY <1>5, <2>1, <2>2
<1>7. Len(s) <= Len(u) /\ \A i \in 1 .. Len(s) : s[i] = u[(Len(u) - Len(s)) + i]
  <2>1. Len(s) <= Len(u)
    BY <1>1, <1>2, <1>5, SMTT(60)
  <2>2. ASSUME NEW i \in 1 .. Len(s)
        PROVE  (Len(u) - Len(s)) + i \in 1 .. Len(t) - 1 /\ ((Len(u) - Len(s)) + i) + 1 = (Len(t) - Len(s)) + i
    BY <1>1, <1>5, <2>1, SMTT(60)
  <2> QED BY <1>1, <1>5, <2>1, <2>2
<1>8. inZone(t, u) /\ inZone(u, s)
  BY <1>5, <1>6, <1>7 DEF inZone
<1> QED BY <1>3, <1>5, <1>8 DEF u

(* The suffixes of a name are the names it is in.                           *)
LEMMA SuffixesAre ==
  ASSUME NEW L, NEW u \in Seq(L)
  PROVE  /\ \A s \in Suffixes(u) : s \in Seq(L) /\ inZone(u, s)
         /\ \A s \in Seq(L) : inZone(u, s) => s \in Suffixes(u)
<1>1. Len(u) \in Nat
  BY SMTT(60)
<1>2. ASSUME NEW l \in 1 .. Len(u) + 1
      PROVE  SubSeq(u, l, Len(u)) \in Seq(L) /\ inZone(u, SubSeq(u, l, Len(u)))
  <2> DEFINE v == SubSeq(u, l, Len(u))
  <2>1. /\ v \in Seq(L) /\ Len(v) = (Len(u) - l) + 1
        /\ \A i \in 1 .. (Len(u) - l) + 1 : v[i] = u[(l + i) - 1]
    BY <1>1, SMTT(60)
  <2> HIDE DEF v
  <2>2. Len(v) <= Len(u)
    BY <1>1, <2>1, SMTT(60)
  <2>3. ASSUME NEW i \in 1 .. Len(v) PROVE (Len(u) - Len(v)) + i = (l + i) - 1
    BY <1>1, <2>1, SMTT(60)
  <2>4. inZone(u, v)
    BY <2>1, <2>2, <2>3 DEF inZone
  <2> QED BY <2>1, <2>4 DEF v
<1>3. ASSUME NEW s \in Seq(L), inZone(u, s) PROVE s \in Suffixes(u)
  <2>1. Len(s) \in Nat /\ Len(s) <= Len(u)
    BY <1>3, SMTT(60) DEF inZone
  <2> DEFINE l == (Len(u) - Len(s)) + 1
             v == SubSeq(u, l, Len(u))
  <2>2. l \in 1 .. Len(u) + 1 /\ (Len(u) - l) + 1 = Len(s)
    BY <1>1, <2>1, SMTT(60)
  <2>3. Len(v) = (Len(u) - l) + 1
    BY <1>1, <2>2, SMTT(60)
  <2>4. v \in Seq(L) /\ inZone(u, v)
    BY <1>2, <2>2
  <2> HIDE DEF l, v
  <2>5. s = v
    BY <1>3, <2>2, <2>3, <2>4, SuffixSame
  <2> QED BY <2>2, <2>5 DEF Suffixes, v
<1> QED BY <1>2, <1>3 DEF Suffixes

----------------------------------------------------------------------------
(* The zone of a name *)

(* Of the zones a name is in, one is the longest.                           *)
LEMMA LongestZone ==
  ASSUME NEW n \in Name, zones \subseteq Name, \E z \in zones : inZone(n, z)
  PROVE  \E z \in zones : /\ inZone(n, z)
                          /\ \A y \in zones : inZone(n, y) => Len(y) <= Len(z)
<1> DEFINE Z == {z \in zones : inZone(n, z)}
           T == {Len(n) - Len(z) : z \in Z}
<1>1. \A z \in Z : z \in Seq(STRING) /\ Len(z) \in Nat /\ Len(z) <= Len(n)
  BY SMTT(60) DEF Name, inZone
<1>2. Len(n) \in Nat
  BY DEF Name
<1> HIDE DEF Z
<1>3. T \subseteq Nat
  BY <1>1, <1>2, SMTT(60)
<1>4. T # {}
  BY DEF Z
<1>5. PICK x \in T : \A y \in T : ~(<<y, x>> \in OpToRel(<, Nat))
  <2> HIDE DEF T
  <2> QED BY <1>3, <1>4, NatLessThanWellFounded, WFMin
<1>6. \A y \in T : ~(y < x)
  <2> HIDE DEF T
  <2> QED BY <1>3, <1>5 DEF OpToRel
<1>7. PICK z \in Z : x = Len(n) - Len(z)
  OBVIOUS
<1>8. ASSUME NEW y \in Z PROVE Len(y) <= Len(z)
  <2>1. Len(n) - Len(y) \in T
    OBVIOUS
  <2>2. ~(Len(n) - Len(y) < Len(n) - Len(z))
    BY <1>6, <1>7, <2>1
  <2> QED BY <1>1, <1>2, <2>2, SMTT(60)
<1> QED BY <1>8 DEF Z

(* FindZone answers with a zone the name is in, unless it is in none.        *)
LEMMA FindZoneFacts ==
  ASSUME NEW n \in Name, zones \subseteq Name, FindZone(n) # Root
  PROVE  FindZone(n) \in zones /\ inZone(n, FindZone(n))
<1>1. \E z \in zones : inZone(n, z)
  BY DEF FindZone
<1>2. \E z \in zones : /\ inZone(n, z)
                       /\ \A y \in zones : inZone(n, y) => Len(y) <= Len(z)
  BY <1>1, LongestZone
<1> QED BY <1>1, <1>2 DEF FindZone

(* The closest encloser is the one the climb of lookup has come to.          *)
LEMMA EncloserFacts ==
  ASSUME NEW z \in Name, NEW n \in Name, NEW e \in Name,
         inZone(e, z), inZone(n, e), e # n, e = z \/ Exists(z, e),
         \A f \in Suffixes(n) : Exists(z, f) => Len(f) <= Len(e)
  PROVE  ClosestEncloser(z, n) = e
<1> DEFINE P(d) == /\ inZone(d, z) /\ d # n /\ (d = z \/ Exists(z, d))
                   /\ \A f \in Suffixes(n) \ {n} : inZone(f, z) /\ Exists(z, f) => Len(f) <= Len(d)
<1>1. e \in Suffixes(n) /\ P(e)
  BY SuffixesAre DEF Name
<1>2. ASSUME NEW d \in Suffixes(n), P(d) PROVE d = e
  <2>1. d \in Seq(STRING) /\ inZone(n, d) /\ Len(d) \in Nat /\ Len(e) \in Nat /\ Len(z) \in Nat
    BY SuffixesAre, SMTT(60) DEF Name
  <2>2. Len(z) <= Len(d) /\ Len(z) <= Len(e)
    BY <1>2, <2>1 DEF Name, inZone
  <2>3. d = z \/ Len(d) <= Len(e)
    BY <1>2
  <2>4. e = z \/ Len(e) <= Len(d)
    BY <1>1, <1>2
  <2>5. Len(d) = Len(e)
    BY <2>1, <2>2, <2>3, <2>4, SMTT(60)
  <2> QED BY <2>1, <2>5, SuffixSame DEF Name
<1>3. ClosestEncloser(z, n) = CHOOSE d \in Suffixes(n) : P(d)
  BY DEF ClosestEncloser
<1> HIDE DEF P
<1> QED BY <1>1, <1>2, <1>3

----------------------------------------------------------------------------
(* The answer section *)

(* AnswersChain, said of the answers.                                       *)
LEMMA ChainIff ==
  ASSUME resp.answers \in Seq(RRset)
  PROVE  AnswersChain <=> Chained(resp.answers)
<1> DEFINE a == resp.answers
<1>1. DOMAIN a = 1 .. Len(a) /\ Len(a) \in Nat
  BY SMTT(60)
<1>2. \A i \in 1 .. Len(a) : i < Len(a) <=> i \in 1 .. Len(a) - 1
  BY <1>1, SMTT(60)
<1>3. \A i \in 1 .. Len(a) - 1 : i \in 1 .. Len(a)
  BY <1>1, SMTT(60)
<1> QED BY <1>1, <1>2, <1>3 DEF AnswersChain, Redirects, Chained, Continues

(* One more RRset.                                                          *)
LEMMA ChainAppend ==
  ASSUME NEW a \in Seq(RRset), Chained(a), NEW x \in RRset,
         a # <<>> => Continues(Last(a), x)
  PROVE  /\ Append(a, x) \in Seq(RRset) /\ Append(a, x) # <<>>
         /\ Last(Append(a, x)) = x /\ Chained(Append(a, x))
<1> DEFINE b == Append(a, x)
<1>1. /\ Len(a) \in Nat /\ b \in Seq(RRset) /\ Len(b) = Len(a) + 1 /\ b[Len(a) + 1] = x
      /\ \A i \in 1 .. Len(a) : b[i] = a[i]
  BY SMTT(60)
<1>2. b # <<>>
  BY <1>1, SMTT(60)
<1> HIDE DEF b
<1>3. Last(b) = x
  BY <1>1 DEF Last
<1>4. ASSUME NEW i \in 1 .. Len(b) - 1 PROVE Continues(b[i], b[i + 1])
  <2>1. i \in 1 .. Len(a)
    BY <1>1, SMTT(60)
  <2>2. CASE i = Len(a)
    <3>1. a # <<>>
      BY <2>1, <2>2, SMTT(60)
    <3> QED BY <1>1, <2>1, <2>2, <3>1 DEF Last
  <2>3. CASE i # Len(a)
    <3>1. i \in 1 .. Len(a) - 1 /\ i + 1 \in 1 .. Len(a)
      BY <1>1, <2>1, <2>3, SMTT(60)
    <3> QED BY <1>1, <2>1, <3>1 DEF Chained
  <2> QED BY <2>2, <2>3
<1> QED BY <1>1, <1>2, <1>3, <1>4 DEF b, Chained

(* RRsets of one owner, of which none but the last is a redirection.         *)
LEMMA ChainConcat ==
  ASSUME NEW a \in Seq(RRset), Chained(a), NEW o \in Name, NEW b \in Seq(RRset),
         \A i \in 1 .. Len(b) : b[i].owner = o,
         \A i \in 1 .. Len(b) - 1 : b[i].type # "CNAME",
         a # <<>> /\ Last(a).type = "CNAME" => Last(a).targets = {o}
  PROVE  /\ a \o b \in Seq(RRset) /\ Chained(a \o b)
         /\ b # <<>> => a \o b # <<>> /\ Last(a \o b) = Last(b)
<1> DEFINE c == a \o b
           n == Len(a)
           m == Len(b)
<1>1. /\ n \in Nat /\ m \in Nat /\ c \in Seq(RRset) /\ Len(c) = n + m
      /\ \A i \in 1 .. n : c[i] = a[i]
      /\ \A i \in 1 .. m : c[n + i] = b[i]
  BY SMTT(60)
<1> HIDE DEF c
<1>2. ASSUME b # <<>> PROVE c # <<>> /\ Last(c) = Last(b)
  <2>1. m # 0
    BY <1>1, <1>2, SMTT(60)
  <2>2. Len(c) # 0 /\ m \in 1 .. m
    BY <1>1, <2>1, SMTT(60)
  <2> QED BY <1>1, <2>2, SMTT(60) DEF Last
<1>3. ASSUME NEW i \in 1 .. Len(c) - 1 PROVE Continues(c[i], c[i + 1])
  <2>1. CASE i < n
    <3>1. i \in 1 .. n - 1 /\ i \in 1 .. n /\ i + 1 \in 1 .. n
      BY <1>1, <2>1, SMTT(60)
    <3>2. c[i] = a[i] /\ c[i + 1] = a[i + 1]
      BY <1>1, <3>1
    <3> QED BY <3>1, <3>2 DEF Chained
  <2>2. CASE i = n
    <3>1. a # <<>> /\ i \in 1 .. n /\ 1 \in 1 .. m
      BY <1>1, <2>2, SMTT(60)
    <3>2. c[i] = Last(a) /\ c[i + 1] = b[1] /\ b[1].owner = o
      BY <1>1, <2>2, <3>1 DEF Last
    <3> QED BY <3>1, <3>2, SMTT(60) DEF Continues
  <2>3. CASE i > n
    <3>1. i - n \in 1 .. m - 1 /\ i - n \in 1 .. m /\ n + (i - n) = i
      BY <1>1, <2>3, SMTT(60)
    <3>2. c[i] = b[i - n]
      BY <1>1, <3>1
    <3>3. c[i].type # "CNAME"
      BY <3>1, <3>2
    <3> QED BY <3>3 DEF Continues
  <2> QED BY <1>1, <2>1, <2>2, <2>3, SMTT(60)
<1> QED BY <1>1, <1>2, <1>3 DEF c, Chained

(* A sequence of some elements, and its elements.                           *)
LEMMA SeqSubset ==
  ASSUME NEW S, NEW T, S \subseteq T, NEW s \in Seq(S)
  PROVE  /\ Len(s) \in Nat /\ s \in Seq(T)
         /\ \A i \in 1 .. Len(s) : s[i] \in S
<1>1. Len(s) \in Nat /\ s \in [1 .. Len(s) -> S]
  BY SMTT(60)
<1>2. s \in [1 .. Len(s) -> T]
  BY <1>1
<1> QED BY <1>1, <1>2, SMTT(60)

(* Listed of a finite set: its elements, and as many.                     *)
LEMMA ListedFacts ==
  ASSUME NEW S, IsFiniteSet(S)
  PROVE  /\ Listed(S) \in Seq(S)
         /\ Listed(S) = <<>> <=> S = {}
         /\ \A x : S = {x} => Len(Listed(S)) = 1
<1>1. Cardinality(S) \in Nat /\ ExistsBijection(1 .. Cardinality(S), S)
  BY FS_CardinalityType
<1>2. Listed(S) \in Bijection(1 .. Cardinality(S), S)
  BY <1>1 DEF ExistsBijection, Listed
<1>3. Listed(S) \in [1 .. Cardinality(S) -> S]
  BY <1>2 DEF Bijection, Injection
<1> DEFINE s == Listed(S)
<1> HIDE DEF s
<1>4. s \in Seq(S) /\ Len(s) = Cardinality(S)
  BY <1>1, <1>3, SMTT(60) DEF s
<1>5. s = <<>> <=> Cardinality(S) = 0
  BY <1>1, <1>4, SMTT(60)
<1>6. Cardinality(S) = 0 <=> S = {}
  BY FS_EmptySet
<1>7. \A x : S = {x} => Cardinality(S) = 1
  BY FS_Singleton
<1> QED BY <1>4, <1>5, <1>6, <1>7 DEF s

(* The records of one name: finitely many, and a CNAME among them alone.     *)
LEMMA RecordFacts ==
  ASSUME TypeInv, NEW z, NEW n, NEW rs, rs \subseteq At(z, n)
  PROVE  /\ rs \subseteq Records /\ IsFiniteSet(rs)
         /\ \A r \in rs : r.type \in Types /\ r.target \in Name
         /\ \A r, c \in rs : c.type = "CNAME" => r = c
<1>1. rs \subseteq Records /\ \A r \in rs : r \in records /\ r.zone = z /\ r.name = n
  BY DEF TypeInv, At
<1>2. IsFiniteSet(rs)
  BY <1>1, HandlerAssumption, FS_Subset
<1>3. \A r \in rs : r.type \in Types /\ r.target \in Name
  BY <1>1, HandlerAssumption DEF Name, Types
<1>4. \A r, c \in rs : c.type = "CNAME" => r = c
  BY <1>1 DEF TypeInv, CNAMEAlone
<1> QED BY <1>1, <1>2, <1>3, <1>4

\* The RRsets that appendSet makes of some records.
Sets(o, rs) ==
    {RRs(o, t, {r.target : r \in filterType(rs, t)}) : t \in {r.type : r \in rs}}

(* They are RRsets at the owner given, and a CNAME comes alone.             *)
LEMMA SetsFacts ==
  ASSUME NEW rs, IsFiniteSet(rs), NEW o \in Name,
         \A r \in rs : r.type \in Types /\ r.target \in Name,
         \A r, c \in rs : c.type = "CNAME" => r = c
  PROVE  /\ IsFiniteSet(Sets(o, rs)) /\ Sets(o, rs) \subseteq RRset
         /\ Sets(o, rs) = {} <=> rs = {}
         /\ \A x \in Sets(o, rs) : x.owner = o
         /\ \A c \in rs : c.type = "CNAME" => Sets(o, rs) = {RRs(o, "CNAME", {c.target})}
         /\ (\A c \in rs : c.type # "CNAME") => \A x \in Sets(o, rs) : x.type # "CNAME"
<1> DEFINE T == {r.type : r \in rs}
           F(t) == {r.target : r \in filterType(rs, t)}
           S == {RRs(o, t, F(t)) : t \in T}
<1>1. IsFiniteSet(T)
  <2> DEFINE f == [r \in rs |-> r.type]
  <2>1. f \in Surjection(rs, T)
    BY DEF Surjection
  <2> HIDE DEF f, T
  <2> QED BY <2>1, FS_Surjection
<1>2. IsFiniteSet(S)
  <2> HIDE DEF T, F
  <2> DEFINE g == [t \in T |-> RRs(o, t, F(t))]
  <2>1. g \in Surjection(T, S)
    BY DEF Surjection
  <2> HIDE DEF g, S
  <2> QED BY <1>1, <2>1, FS_Surjection
<1>3. T \subseteq Types /\ \A t \in T : F(t) \subseteq Name
  BY DEF filterType
<1>4. T = {} <=> rs = {}
  OBVIOUS
<1>5. ASSUME NEW c \in rs, c.type = "CNAME"
      PROVE  T = {"CNAME"} /\ F("CNAME") = {c.target}
  <2>1. rs = {c}
    BY <1>5
  <2> QED BY <1>5, <2>1 DEF filterType
<1>6. (\A c \in rs : c.type # "CNAME") => "CNAME" \notin T
  OBVIOUS
<1> HIDE DEF T, F
<1>8. /\ S \subseteq RRset /\ \A x \in S : x.owner = o
      /\ \A x \in S : x.type \in T
  <2>1. ASSUME NEW t \in T
        PROVE  /\ RRs(o, t, F(t)) \in RRset /\ RRs(o, t, F(t)).owner = o
               /\ RRs(o, t, F(t)).type \in T
    <3>1. t \in Types /\ F(t) \subseteq Name
      BY <1>3
    <3>2. RRs(o, t, F(t)) \in RRset
      BY <3>1 DEF RRs, RRset
    <3>3. RRs(o, t, F(t)).owner = o /\ RRs(o, t, F(t)).type = t
      BY DEF RRs
    <3> QED BY <3>2, <3>3
  <2>2. \A x \in S : \E t \in T : x = RRs(o, t, F(t))
    OBVIOUS
  <2> QED BY <2>1, <2>2
<1>9. S = {} <=> rs = {}
  BY <1>4
<1>10. ASSUME NEW c \in rs, c.type = "CNAME" PROVE S = {RRs(o, "CNAME", {c.target})}
  BY <1>5, <1>10
<1>11. (\A c \in rs : c.type # "CNAME") => \A x \in S : x.type # "CNAME"
  BY <1>6, <1>8
<1>12. Sets(o, rs) = S
  BY DEF Sets, T, F
<1> HIDE DEF S
<1> QED BY <1>2, <1>8, <1>9, <1>10, <1>11, <1>12

\* The answers a end with an alias of t.
Aliased(a, t) == a # <<>> /\ Last(a).type = "CNAME" /\ Last(a).targets = {t}

(* appendSet keeps the answers a chain.                                     *)
LEMMA AppendSetFacts ==
  ASSUME TypeInv, NEW z, NEW n, NEW rs, rs \subseteq At(z, n), NEW o \in Name,
         NEW a \in Seq(RRset), Chained(a),
         a # <<>> /\ Last(a).type = "CNAME" => Last(a).targets = {o}
  PROVE  /\ AppendSet(a, o, rs) \in Seq(RRset) /\ Chained(AppendSet(a, o, rs))
         /\ AppendSet(a, o, rs) = <<>> <=> a = <<>> /\ rs = {}
         /\ \A c \in rs : c.type = "CNAME" => Aliased(AppendSet(a, o, rs), c.target)
<1> DEFINE S == Sets(o, rs)
           b == Listed(S)
<1>1. AppendSet(a, o, rs) = a \o b
  BY DEF AppendSet, Sets
<1>2. /\ IsFiniteSet(S) /\ S \subseteq RRset /\ (S = {} <=> rs = {})
      /\ \A x \in S : x.owner = o
      /\ \A c \in rs : c.type = "CNAME" => S = {RRs(o, "CNAME", {c.target})}
      /\ (\A c \in rs : c.type # "CNAME") => \A x \in S : x.type # "CNAME"
  BY RecordFacts, SetsFacts
<1> HIDE DEF S
<1>3. b \in Seq(S) /\ (b = <<>> <=> S = {}) /\ \A x : S = {x} => Len(b) = 1
  BY <1>2, ListedFacts
<1> HIDE DEF b
<1>4. Len(b) \in Nat /\ b \in Seq(RRset) /\ \A i \in 1 .. Len(b) : b[i] \in S
  BY <1>2, <1>3, SeqSubset
<1>5. \A i \in 1 .. Len(b) - 1 : b[i].type # "CNAME"
  <2>1. CASE \A c \in rs : c.type # "CNAME"
    <3>1. \A i \in 1 .. Len(b) - 1 : i \in 1 .. Len(b)
      BY <1>4, SMTT(60)
    <3> QED BY <1>2, <1>4, <2>1, <3>1
  <2>2. CASE \E c \in rs : c.type = "CNAME"
    <3>1. Len(b) = 1
      BY <1>2, <1>3, <2>2
    <3>2. \A i \in 1 .. Len(b) - 1 : FALSE
      BY <3>1, SMTT(60)
    <3> QED BY <3>2
  <2> QED BY <2>1, <2>2
<1>6. \A i \in 1 .. Len(b) : b[i].owner = o
  BY <1>2, <1>4
<1>7. /\ a \o b \in Seq(RRset) /\ Chained(a \o b)
      /\ b # <<>> => a \o b # <<>> /\ Last(a \o b) = Last(b)
  BY <1>4, <1>5, <1>6, ChainConcat
<1>8. a \o b = <<>> <=> a = <<>> /\ b = <<>>
  BY <1>4, SMTT(60)
<1>9. ASSUME NEW c \in rs, c.type = "CNAME"
      PROVE  b # <<>> /\ Last(b).type = "CNAME" /\ Last(b).targets = {c.target}
  <2>1. S = {RRs(o, "CNAME", {c.target})}
    BY <1>2, <1>9
  <2>2. Len(b) = 1 /\ b # <<>>
    BY <1>3, <2>1
  <2>3. Last(b) \in S
    <3>1. Len(b) \in 1 .. Len(b)
      BY <2>2, SMTT(60)
    <3> QED BY <1>4, <3>1 DEF Last
  <2> QED BY <2>1, <2>2, <2>3, SMTT(60) DEF RRs
<1> QED BY <1>1, <1>2, <1>3, <1>7, <1>8, <1>9 DEF Aliased

----------------------------------------------------------------------------
(* The ways a step of the lookup ends *)

(* The step reads the database and leaves it.                               *)
LEMMA DataKept ==
  ASSUME UNCHANGED db
  PROVE  /\ zones' = zones /\ records' = records /\ writes' = writes
         /\ CNAMEAlone(records)' = CNAMEAlone(records)
BY DEF db, CNAMEAlone

(* Whether a name exists is a question about the records.                   *)
LEMMA NoSuchKept ==
  ASSUME records' = records, zone' = zone, name' = name
  PROVE  NoSuchName(zone, name)' = NoSuchName(zone, name)
BY SMTT(60) DEF NoSuchName, ClosestEncloser, Exists, At, HasChildren

\* What a response must be to be sent.
Sendable(r) ==
    /\ r \in Response /\ Chained(r.answers)
    /\ r.rcode = "SERVFAIL" =>
         \/ r = [Empty EXCEPT !.rcode = "SERVFAIL"]
         \/ r.answers # <<>> /\ Last(r.answers).type = "DNAME"
    /\ writes = 0 /\ SOA(zone) \in r.authority => (r.rcode = "NXDOMAIN" <=> NoSuchName(zone, name))
    /\ r.rcode = "NOERROR" /\ ~r.aa =>
         \E c \in r.authority : IsCut(c) /\ \A a \in r.additional : a.owner \in c.targets

(* The answer is there.                                                     *)
LEMMA DoneKeeps ==
  ASSUME IInv, UNCHANGED db, NEW r, Done(r), Sendable(r)
  PROVE  IInv'
<1>1. /\ resp' = r /\ pc' = "done" /\ zone' = zone /\ name' = name
      /\ encloser' = encloser /\ todo' = todo /\ seen' = seen
  BY DEF Done, locals
<1>2. TypeInv'
  BY <1>1, DataKept DEF IInv, TypeInv, Sendable
<1>3. Place' /\ Pending' /\ Climbed'
  BY <1>1 DEF Place, Pending, Climbed
<1>4. \A c : IsCut(c)' <=> IsCut(c)
  BY <1>1 DEF IsCut
<1>5. Cut'
  BY <1>1, <1>4 DEF Cut, Sendable
<1>6. Chained(resp'.answers)
  BY <1>1 DEF Sendable
<1>7. FailuresEmpty'
  BY <1>1 DEF FailuresEmpty, Sendable
<1>8. NoSuchName(zone, name)' = NoSuchName(zone, name) /\ SOA(zone)' = SOA(zone)
  BY <1>1, DataKept, NoSuchKept DEF SOA
<1>9. NegativeRight'
  BY <1>1, <1>8, DataKept DEF NegativeRight, Sendable
<1> QED BY <1>2, <1>3, <1>5, <1>6, <1>7, <1>9 DEF IInv

(* The answer is there but for the addresses of some targets.               *)
LEMMA AddGlueKeeps ==
  ASSUME IInv, UNCHANGED db, NEW rs, rs \subseteq Records, NEW r, AddGlue(rs, r),
         r \in Response, Chained(r.answers), r.rcode = "NOERROR", r.additional = {},
         \A c \in r.authority : c.type # "SOA",
         ~r.aa => \E c \in r.authority : IsCut(c) /\ \A x \in rs : x.target \in c.targets
  PROVE  IInv'
<1>1. /\ resp' = r /\ pc' = "glue" /\ zone' = zone /\ name' = name
      /\ encloser' = encloser /\ seen' = 0
      /\ todo' = {x.target : x \in {y \in rs : inZone(y.target, zone)}}
  BY DEF AddGlue
<1>2. \A t \in todo' : \E x \in rs : t = x.target
  BY <1>1
<1>3. todo' \subseteq Name
  BY <1>2, HandlerAssumption DEF Name
<1>4. 0 \in Nat
  OBVIOUS
<1>5. TypeInv'
  BY <1>1, <1>3, <1>4, DataKept DEF IInv, TypeInv
<1>6. Place' /\ Pending' /\ Climbed'
  BY <1>1 DEF Place, Pending, Climbed
<1>7. \A c : IsCut(c)' <=> IsCut(c)
  BY <1>1 DEF IsCut
<1>8. Cut'
  <2> SUFFICES ASSUME ~r.aa
               PROVE  \E c \in r.authority : /\ IsCut(c) /\ todo' \subseteq c.targets
                                             /\ \A a \in r.additional : a.owner \in c.targets
    BY <1>1, <1>7 DEF Cut
  <2> QED BY <1>2
<1>9. FailuresEmpty' /\ NegativeRight'
  BY <1>1 DEF FailuresEmpty, NegativeRight
<1> QED BY <1>1, <1>5, <1>6, <1>8, <1>9 DEF IInv

(* An RRset has the fields it is given.                                     *)
LEMMA RRsFacts ==
  ASSUME NEW o \in Name, NEW t \in Types, NEW ts \in SUBSET Name
  PROVE  /\ RRs(o, t, ts) \in RRset /\ RRs(o, t, ts).owner = o
         /\ RRs(o, t, ts).type = t /\ RRs(o, t, ts).targets = ts
BY DEF RRs, RRset

\* A response of these parts.
Resp(c, b, a, u, g) ==
    [rcode |-> c, aa |-> b, answers |-> a, authority |-> u, additional |-> g]

Glued == [owner : Name, type : Types]

(* Every response is one of its parts.                                      *)
LEMMA RespParts ==
  ASSUME NEW r \in Response
  PROVE  /\ r.rcode \in RCodes /\ r.aa \in BOOLEAN /\ r.answers \in Seq(RRset)
         /\ r.authority \in SUBSET RRset /\ r.additional \in SUBSET Glued
         /\ r = Resp(r.rcode, r.aa, r.answers, r.authority, r.additional)
<1>1. /\ r.rcode \in RCodes /\ r.aa \in BOOLEAN /\ r.answers \in Seq(RRset)
      /\ r.authority \in SUBSET RRset /\ r.additional \in SUBSET Glued
  BY DEF Response, Glued
<1>2. r = Resp(r.rcode, r.aa, r.answers, r.authority, r.additional)
  BY DEF Response, Resp
<1> QED BY <1>1, <1>2

\* What becomes of a response.
SetAnswers(r, x) == [r EXCEPT !.answers = x]
SetAnswersCode(r, x, d) == [r EXCEPT !.answers = x, !.rcode = d]
AddAuthority(r, x, d) == [r EXCEPT !.aa = d, !.authority = @ \cup {x}]
AddAuthorityCode(r, x, y, d) ==
    [r EXCEPT !.rcode = IF y THEN @ ELSE d, !.authority = @ \cup {x}]
SetCode(r, d) == [r EXCEPT !.rcode = d]
SetAA(r, d) == [r EXCEPT !.aa = d]
AddAdditional(r, x) == [r EXCEPT !.additional = @ \cup x]

(* The response there is at first.                                          *)
LEMMA EmptyFacts ==
  /\ Empty \in Response /\ Empty.rcode = "NOERROR" /\ Empty.answers = <<>>
  /\ Empty.authority = {} /\ Empty.additional = {}
<1>1. "NOERROR" \in RCodes /\ <<>> \in Seq(RRset)
  BY SMTT(60) DEF RCodes
<1> QED BY <1>1 DEF Empty, Response

(* No answer is a chain.                                                    *)
LEMMA NothingChained ==
  Chained(<<>>)
BY SMTT(60) DEF Chained

(* Other answers.                                                           *)
LEMMA SetAnswersFacts ==
  ASSUME NEW r \in Response, NEW x \in Seq(RRset)
  PROVE  /\ SetAnswers(r, x) \in Response
         /\ SetAnswers(r, x).rcode = r.rcode
         /\ SetAnswers(r, x).aa = r.aa
         /\ SetAnswers(r, x).answers = x
         /\ SetAnswers(r, x).authority = r.authority
         /\ SetAnswers(r, x).additional = r.additional
<1> DEFINE c == r.rcode
           b == r.aa
           a == r.answers
           u == r.authority
           g == r.additional
           q == SetAnswers(r, x)
<1>1. /\ c \in RCodes /\ b \in BOOLEAN /\ a \in Seq(RRset) /\ u \in SUBSET RRset
      /\ g \in SUBSET Glued /\ r = Resp(c, b, a, u, g)
  BY RespParts
<1> HIDE DEF c, b, a, u, g
<1>7. q = Resp(c, b, x, u, g)
  BY <1>1, SMTT(60) DEF Resp, SetAnswers
<1> HIDE DEF q
<1>8. q \in Response
  BY <1>1, <1>7 DEF Resp, Response, Glued
<1>9. /\ q.rcode = c /\ q.aa = b /\ q.answers = x
      /\ q.authority = u /\ q.additional = g
  BY <1>7 DEF Resp
<1> QED BY <1>8, <1>9 DEF q, c, b, a, u, g

(* The name is an alias: the loop goes on with its target.                  *)
LEMMA FollowKeeps ==
  ASSUME IInv, pc \in {"lookup", "climb", "wildcard"}, UNCHANGED db,
         NEW target \in Name, NEW answers \in Seq(RRset), Follow(target, answers),
         Chained(answers), answers # <<>>,
         Last(answers).type = "CNAME", Last(answers).targets = {target}
  PROVE  IInv'
<1>1. /\ resp' = [resp EXCEPT !.answers = answers] /\ pc' = "zoneFor" /\ name' = target
      /\ zone' = zone /\ encloser' = encloser /\ seen' = seen /\ todo' = todo
  BY DEF Follow
<1>2. resp \in Response
  BY DEF IInv, TypeInv
<1>3. /\ resp' \in Response /\ resp'.answers = answers /\ resp'.rcode = resp.rcode
      /\ resp'.aa = resp.aa /\ resp'.authority = resp.authority
      /\ resp'.additional = resp.additional
  BY <1>1, <1>2, SetAnswersFacts DEF SetAnswers
<1>4. TypeInv'
  BY <1>1, <1>3, DataKept DEF IInv, TypeInv
<1>5. Place' /\ Climbed' /\ Cut' /\ FailuresEmpty' /\ NegativeRight'
  BY <1>1 DEF Place, Climbed, Cut, FailuresEmpty, NegativeRight
<1>6. Pending'
  BY <1>1, <1>3 DEF IInv, Pending
<1> QED BY <1>3, <1>4, <1>5, <1>6 DEF IInv

(* Other answers, and another code.                                         *)
LEMMA SetAnswersCodeFacts ==
  ASSUME NEW r \in Response, NEW x \in Seq(RRset), NEW d \in RCodes
  PROVE  /\ SetAnswersCode(r, x, d) \in Response
         /\ SetAnswersCode(r, x, d).rcode = d
         /\ SetAnswersCode(r, x, d).aa = r.aa
         /\ SetAnswersCode(r, x, d).answers = x
         /\ SetAnswersCode(r, x, d).authority = r.authority
         /\ SetAnswersCode(r, x, d).additional = r.additional
<1> DEFINE c == r.rcode
           b == r.aa
           a == r.answers
           u == r.authority
           g == r.additional
           q == SetAnswersCode(r, x, d)
<1>1. /\ c \in RCodes /\ b \in BOOLEAN /\ a \in Seq(RRset) /\ u \in SUBSET RRset
      /\ g \in SUBSET Glued /\ r = Resp(c, b, a, u, g)
  BY RespParts
<1> HIDE DEF c, b, a, u, g
<1> DEFINE s == [r EXCEPT !.answers = x]
<1>2. s = Resp(c, b, x, u, g)
  BY <1>1, SMTT(60) DEF Resp
<1>3. q = [s EXCEPT !.rcode = d]
  BY DEF SetAnswersCode
<1> HIDE DEF s
<1>7. q = Resp(d, b, x, u, g)
  BY <1>2, <1>3, SMTT(60) DEF Resp
<1> HIDE DEF q
<1>8. q \in Response
  BY <1>1, <1>7 DEF Resp, Response, Glued
<1>9. /\ q.rcode = d /\ q.aa = b /\ q.answers = x
      /\ q.authority = u /\ q.additional = g
  BY <1>7 DEF Resp
<1> QED BY <1>8, <1>9 DEF q, c, b, a, u, g

(* An authority, and whether the answer is authoritative.                   *)
LEMMA AddAuthorityFacts ==
  ASSUME NEW r \in Response, NEW x \in RRset, NEW d \in BOOLEAN
  PROVE  /\ AddAuthority(r, x, d) \in Response
         /\ AddAuthority(r, x, d).rcode = r.rcode
         /\ AddAuthority(r, x, d).aa = d
         /\ AddAuthority(r, x, d).answers = r.answers
         /\ AddAuthority(r, x, d).authority = r.authority \cup {x}
         /\ AddAuthority(r, x, d).additional = r.additional
<1> DEFINE c == r.rcode
           b == r.aa
           a == r.answers
           u == r.authority
           g == r.additional
           q == AddAuthority(r, x, d)
<1>1. /\ c \in RCodes /\ b \in BOOLEAN /\ a \in Seq(RRset) /\ u \in SUBSET RRset
      /\ g \in SUBSET Glued /\ r = Resp(c, b, a, u, g)
  BY RespParts
<1> DEFINE v == u \cup {x}
<1>2. v \in SUBSET RRset /\ r.authority \cup {x} = v
  BY <1>1
<1> HIDE DEF c, b, a, u, g, v
<1> DEFINE s == [r EXCEPT !.aa = d]
<1>3. s = Resp(c, d, a, u, g)
  BY <1>1, SMTT(60) DEF Resp
<1>4. q = [s EXCEPT !.authority = v]
  BY <1>2 DEF AddAuthority
<1> HIDE DEF s
<1>7. q = Resp(c, d, a, v, g)
  BY <1>3, <1>4, SMTT(60) DEF Resp
<1> HIDE DEF q
<1>8. q \in Response
  BY <1>1, <1>7, <1>2 DEF Resp, Response, Glued
<1>9. /\ q.rcode = c /\ q.aa = d /\ q.answers = a
      /\ q.authority = v /\ q.additional = g
  BY <1>7 DEF Resp
<1> QED BY <1>8, <1>9 DEF q, c, b, a, u, g, v

(* An authority, and a code unless y.                                       *)
LEMMA AddAuthorityCodeFacts ==
  ASSUME NEW r \in Response, NEW x \in RRset, NEW y \in BOOLEAN, NEW d \in RCodes
  PROVE  /\ AddAuthorityCode(r, x, y, d) \in Response
         /\ AddAuthorityCode(r, x, y, d).rcode = (IF y THEN r.rcode ELSE d)
         /\ AddAuthorityCode(r, x, y, d).aa = r.aa
         /\ AddAuthorityCode(r, x, y, d).answers = r.answers
         /\ AddAuthorityCode(r, x, y, d).authority = r.authority \cup {x}
         /\ AddAuthorityCode(r, x, y, d).additional = r.additional
<1> DEFINE c == r.rcode
           b == r.aa
           a == r.answers
           u == r.authority
           g == r.additional
           q == AddAuthorityCode(r, x, y, d)
<1>1. /\ c \in RCodes /\ b \in BOOLEAN /\ a \in Seq(RRset) /\ u \in SUBSET RRset
      /\ g \in SUBSET Glued /\ r = Resp(c, b, a, u, g)
  BY RespParts
<1> DEFINE v == u \cup {x}
           k == IF y THEN c ELSE d
<1>2. v \in SUBSET RRset /\ r.authority \cup {x} = v /\ k \in RCodes
  BY <1>1
<1> DEFINE s == [r EXCEPT !.rcode = k]
<1>4. q = [s EXCEPT !.authority = v]
  BY DEF AddAuthorityCode
<1> HIDE DEF c, b, a, u, g, v, k
<1>3. s = Resp(k, b, a, u, g)
  BY <1>1, SMTT(60) DEF Resp
<1> HIDE DEF s
<1>7. q = Resp(k, b, a, v, g)
  BY <1>3, <1>4, SMTT(60) DEF Resp
<1> HIDE DEF q
<1>8. q \in Response
  BY <1>1, <1>7, <1>2 DEF Resp, Response, Glued
<1>9. /\ q.rcode = k /\ q.aa = b /\ q.answers = a
      /\ q.authority = v /\ q.additional = g
  BY <1>7 DEF Resp
<1> QED BY <1>8, <1>9 DEF q, c, b, a, u, g, v, k

(* More glue.                                                               *)
LEMMA AddAdditionalFacts ==
  ASSUME NEW r \in Response, NEW x \in SUBSET Glued
  PROVE  /\ AddAdditional(r, x) \in Response
         /\ AddAdditional(r, x).rcode = r.rcode
         /\ AddAdditional(r, x).aa = r.aa
         /\ AddAdditional(r, x).answers = r.answers
         /\ AddAdditional(r, x).authority = r.authority
         /\ AddAdditional(r, x).additional = r.additional \cup x
<1> DEFINE c == r.rcode
           b == r.aa
           a == r.answers
           u == r.authority
           g == r.additional
           q == AddAdditional(r, x)
<1>1. /\ c \in RCodes /\ b \in BOOLEAN /\ a \in Seq(RRset) /\ u \in SUBSET RRset
      /\ g \in SUBSET Glued /\ r = Resp(c, b, a, u, g)
  BY RespParts
<1> DEFINE h == g \cup x
<1>2. h \in SUBSET Glued /\ q = [r EXCEPT !.additional = h]
  BY <1>1 DEF AddAdditional
<1> HIDE DEF c, b, a, u, g, h
<1>7. q = Resp(c, b, a, u, h)
  BY <1>1, <1>2, SMTT(60) DEF Resp
<1> HIDE DEF q
<1>8. q \in Response
  BY <1>1, <1>7, <1>2 DEF Resp, Response, Glued
<1>9. /\ q.rcode = c /\ q.aa = b /\ q.answers = a
      /\ q.authority = u /\ q.additional = h
  BY <1>7 DEF Resp
<1> QED BY <1>8, <1>9 DEF q, c, b, a, u, g, h

(* Another code.                                                            *)
LEMMA SetCodeFacts ==
  ASSUME NEW r \in Response, NEW d \in RCodes
  PROVE  /\ SetCode(r, d) \in Response
         /\ SetCode(r, d).rcode = d
         /\ SetCode(r, d).aa = r.aa
         /\ SetCode(r, d).answers = r.answers
         /\ SetCode(r, d).authority = r.authority
         /\ SetCode(r, d).additional = r.additional
<1> DEFINE c == r.rcode
           b == r.aa
           a == r.answers
           u == r.authority
           g == r.additional
           q == SetCode(r, d)
<1>1. /\ c \in RCodes /\ b \in BOOLEAN /\ a \in Seq(RRset) /\ u \in SUBSET RRset
      /\ g \in SUBSET Glued /\ r = Resp(c, b, a, u, g)
  BY RespParts
<1> HIDE DEF c, b, a, u, g
<1>7. q = Resp(d, b, a, u, g)
  BY <1>1, SMTT(60) DEF Resp, SetCode
<1> HIDE DEF q
<1>8. q \in Response
  BY <1>1, <1>7 DEF Resp, Response, Glued
<1>9. /\ q.rcode = d /\ q.aa = b /\ q.answers = a
      /\ q.authority = u /\ q.additional = g
  BY <1>7 DEF Resp
<1> QED BY <1>8, <1>9 DEF q, c, b, a, u, g

(* Whether the answer is authoritative.                                     *)
LEMMA SetAAFacts ==
  ASSUME NEW r \in Response, NEW d \in BOOLEAN
  PROVE  /\ SetAA(r, d) \in Response
         /\ SetAA(r, d).rcode = r.rcode
         /\ SetAA(r, d).aa = d
         /\ SetAA(r, d).answers = r.answers
         /\ SetAA(r, d).authority = r.authority
         /\ SetAA(r, d).additional = r.additional
<1> DEFINE c == r.rcode
           b == r.aa
           a == r.answers
           u == r.authority
           g == r.additional
           q == SetAA(r, d)
<1>1. /\ c \in RCodes /\ b \in BOOLEAN /\ a \in Seq(RRset) /\ u \in SUBSET RRset
      /\ g \in SUBSET Glued /\ r = Resp(c, b, a, u, g)
  BY RespParts
<1> HIDE DEF c, b, a, u, g
<1>7. q = Resp(c, d, a, u, g)
  BY <1>1, SMTT(60) DEF Resp, SetAA
<1> HIDE DEF q
<1>8. q \in Response
  BY <1>1, <1>7 DEF Resp, Response, Glued
<1>9. /\ q.rcode = c /\ q.aa = d /\ q.answers = a
      /\ q.authority = u /\ q.additional = g
  BY <1>7 DEF Resp
<1> QED BY <1>8, <1>9 DEF q, c, b, a, u, g

\* The states in which a name is looked up.
Looking == pc \in {"lookup", "climb", "wildcard"}

(* What is known of the response while a name is looked up.                 *)
LEMMA LookingFacts ==
  ASSUME IInv, Looking
  PROVE  /\ resp \in Response /\ resp.answers \in Seq(RRset) /\ Chained(resp.answers)
         /\ resp.rcode = "NOERROR" /\ resp.aa = TRUE
         /\ resp.authority = {} /\ resp.additional = {}
         /\ resp.answers # <<>> =>
              Last(resp.answers).type = "CNAME" /\ Last(resp.answers).targets = {name}
         /\ zone \in Name /\ name \in Name
<1>1. resp \in Response /\ zone \in Name /\ name \in Name
  BY DEF IInv, TypeInv
<1>2. resp.answers \in Seq(RRset) /\ resp.aa \in BOOLEAN
  BY <1>1 DEF Response
<1> QED BY <1>1, <1>2 DEF IInv, Pending, Looking

(* A negative answer, if the name is there or not as it says.               *)
LEMMA NegativeKeeps ==
  ASSUME IInv, Looking, UNCHANGED db, NEW exists \in BOOLEAN, negative(exists),
         writes = 0 => (NoSuchName(zone, name) <=> ~exists)
  PROVE  IInv'
<1> DEFINE r == AddAuthorityCode(resp, SOA(zone), exists, "NXDOMAIN")
<1>1. Done(r)
  BY DEF negative, AddAuthorityCode
<1>2. SOA(zone) \in RRset
  <2>1. "SOA" \in Types /\ {} \in SUBSET Name
    BY DEF Types
  <2> QED BY <2>1, LookingFacts, RRsFacts DEF SOA
<1>3. "NXDOMAIN" \in RCodes
  BY DEF RCodes
<1>4. /\ r \in Response /\ r.answers = resp.answers /\ r.aa = resp.aa
      /\ r.rcode = (IF exists THEN resp.rcode ELSE "NXDOMAIN")
  BY <1>2, <1>3, LookingFacts, AddAuthorityCodeFacts, SMTT(60)
<1> HIDE DEF r
<1>5. r.aa = TRUE /\ r.rcode = (IF exists THEN "NOERROR" ELSE "NXDOMAIN")
  BY <1>4, LookingFacts
<1>6. Sendable(r)
  BY <1>4, <1>5, LookingFacts DEF Sendable
<1> QED BY <1>1, <1>6, DoneKeeps

(* An answer of the zone itself.                                            *)
LEMMA WithKeeps ==
  ASSUME IInv, Looking, NEW answers \in Seq(RRset), Chained(answers),
         NEW r, r = [resp EXCEPT !.answers = answers]
  PROVE  /\ r \in Response /\ r.answers = answers /\ r.rcode = "NOERROR" /\ r.aa = TRUE
         /\ r.authority = {} /\ r.additional = {} /\ Sendable(r)
<1>1. r = SetAnswers(resp, answers)
  BY DEF SetAnswers
<1>2. /\ r \in Response /\ r.answers = answers /\ r.rcode = resp.rcode /\ r.aa = resp.aa
      /\ r.authority = resp.authority /\ r.additional = resp.additional
  BY <1>1, LookingFacts, SetAnswersFacts, SMTT(60)
<1>3. /\ r.rcode = "NOERROR" /\ r.aa = TRUE /\ r.authority = {} /\ r.additional = {}
  BY <1>2, LookingFacts
<1>4. Sendable(r)
  BY <1>2, <1>3 DEF Sendable
<1> QED BY <1>2, <1>3, <1>4

(* A referral to a cut above the name or at it.                             *)
LEMMA ReferralKeeps ==
  ASSUME IInv, Looking, UNCHANGED db, NEW at \in Name, NEW ns, ns \subseteq At(zone, at),
         inZone(name, at), inZone(at, zone), at # zone, Referral(at, ns)
  PROVE  IInv'
<1> DEFINE c == RRs(at, "NS", {x.target : x \in ns})
           r == AddAuthority(resp, c, FALSE)
<1>1. AddGlue(ns, r)
  BY DEF Referral, AddAuthority
<1>2. ns \subseteq Records /\ \A x \in ns : x.target \in Name
  BY RecordFacts DEF IInv
<1>3. /\ c.owner = at /\ c.type = "NS" /\ c.targets = {x.target : x \in ns}
      /\ c \in RRset
  <2>1. "NS" \in Types /\ {x.target : x \in ns} \in SUBSET Name
    BY <1>2 DEF Types
  <2> QED BY <2>1, RRsFacts, SMTT(60)
<1>4. IsCut(c) /\ \A x \in ns : x.target \in c.targets
  BY <1>3 DEF IsCut
<1> HIDE DEF c
<1>5. /\ r \in Response /\ r.answers = resp.answers /\ r.rcode = resp.rcode
      /\ r.additional = resp.additional /\ r.authority = resp.authority \cup {c}
  BY <1>3, LookingFacts, AddAuthorityFacts
<1> HIDE DEF r
<1>6. r.rcode = "NOERROR" /\ r.additional = {} /\ r.authority = {c}
  BY <1>5, LookingFacts
<1>7. c.type # "SOA"
  BY <1>3
<1> QED BY <1>1, <1>2, <1>4, <1>5, <1>6, <1>7, LookingFacts, AddGlueKeeps

(* A DNAME above the name.                                                  *)
LEMMA RedirectKeeps ==
  ASSUME IInv, Looking, UNCHANGED db, NEW at \in Name, inZone(name, at),
         NEW d, d.target \in Name, Redirect(at, d)
  PROVE  IInv'
<1> DEFINE next == SubSeq(name, 1, Len(name) - Len(at)) \o d.target
           x == RRs(at, "DNAME", {d.target})
           with == Append(resp.answers, x)
           y == RRs(name, "CNAME", {next})
<1>1. next \in Name
  <2>1. Len(at) <= Len(name) /\ Len(at) \in Nat /\ Len(name) \in Nat
    BY LookingFacts, SMTT(60) DEF Name, inZone
  <2>2. SubSeq(name, 1, Len(name) - Len(at)) \in Seq(STRING)
    BY <2>1, LookingFacts, SMTT(60) DEF Name
  <2> QED BY <2>2, SMTT(60) DEF Name
<1>2. IF d.target = Root THEN Done([resp EXCEPT !.answers = with])
      ELSE IF Len(next) > maxLabels
        THEN Done([resp EXCEPT !.answers = with, !.rcode = "SERVFAIL"])
        ELSE Follow(next, Append(with, y))
  BY DEF Redirect
<1> HIDE DEF next
<1>3. x \in RRset /\ x.owner = at /\ x.type = "DNAME"
  <2>1. "DNAME" \in Types /\ {d.target} \in SUBSET Name
    BY DEF Types
  <2> QED BY <2>1, RRsFacts, SMTT(60)
<1>4. y \in RRset /\ y.type = "CNAME" /\ y.targets = {next}
  <2>1. "CNAME" \in Types /\ {next} \in SUBSET Name
    BY <1>1 DEF Types
  <2> QED BY <2>1, LookingFacts, RRsFacts, SMTT(60)
<1> HIDE DEF x, y
<1>5. resp.answers # <<>> => Continues(Last(resp.answers), x)
  BY <1>3, LookingFacts DEF Continues
<1>6. /\ with \in Seq(RRset) /\ with # <<>> /\ Last(with) = x /\ Chained(with)
  BY <1>3, <1>5, LookingFacts, ChainAppend
<1> HIDE DEF with
<1>7. Continues(Last(with), y)
  BY <1>3, <1>6 DEF Continues
<1> DEFINE all == Append(with, y)
<1>8. all \in Seq(RRset) /\ all # <<>> /\ Last(all) = y /\ Chained(all)
  BY <1>4, <1>6, <1>7, ChainAppend
<1> HIDE DEF all
<1>9. CASE Done([resp EXCEPT !.answers = with])
  <2> DEFINE r == [resp EXCEPT !.answers = with]
  <2>1. Sendable(r)
    BY <1>6, WithKeeps
  <2> HIDE DEF r
  <2> QED BY <1>9, <2>1, DoneKeeps DEF r
<1>10. CASE Done([resp EXCEPT !.answers = with, !.rcode = "SERVFAIL"])
  <2> DEFINE r == SetAnswersCode(resp, with, "SERVFAIL")
  <2>1. Done(r)
    BY <1>10 DEF SetAnswersCode
  <2>2. "SERVFAIL" \in RCodes
    BY DEF RCodes
  <2>3. /\ r \in Response /\ r.answers = with /\ r.rcode = "SERVFAIL"
        /\ r.authority = resp.authority
    BY <1>6, <2>2, LookingFacts, SetAnswersCodeFacts, SMTT(60)
  <2> HIDE DEF r
  <2>4. Sendable(r)
    BY <1>3, <1>6, <2>3, LookingFacts DEF Sendable
  <2> QED BY <2>1, <2>4, DoneKeeps
<1>11. CASE Follow(next, all)
  BY <1>1, <1>4, <1>8, <1>11, FollowKeeps DEF Looking
<1> QED BY <1>2, <1>9, <1>10, <1>11 DEF all

(* The records of the name, or of the wildcard above it, are there.         *)
LEMMA AnswerKeeps ==
  ASSUME IInv, Looking, UNCHANGED db, NEW n, NEW rs, rs \subseteq At(zone, n),
         NEW exists \in BOOLEAN, Answer(rs, exists),
         writes = 0 => (NoSuchName(zone, name) <=> ~(rs # {} \/ exists \/ name = zone))
  PROVE  IInv'
<1> DEFINE apex    == name = zone
           soa     == IF apex THEN Append(resp.answers, SOA(zone)) ELSE resp.answers
           any     == AppendSet(soa, name, rs)
           matched == filterType(rs, qtype)
           cnames  == filterType(rs, "CNAME")
           some    == AppendSet(resp.answers, name, matched)
           alias   == AppendSet(resp.answers, name, cnames)
           there   == rs # {} \/ exists \/ apex
<1>1. TypeInv /\ rs \subseteq Records
  BY RecordFacts DEF IInv
<1>2. /\ matched \subseteq rs /\ cnames \subseteq rs /\ \A c \in cnames : c.type = "CNAME"
      /\ matched \subseteq At(zone, n) /\ cnames \subseteq At(zone, n)
  BY DEF filterType
<1>3. /\ soa \in Seq(RRset) /\ Chained(soa)
      /\ soa # <<>> /\ Last(soa).type = "CNAME" => Last(soa).targets = {name}
      /\ apex => soa # <<>>
  <2>1. CASE apex
    <3> DEFINE x == SOA(zone)
    <3>1. x \in RRset /\ x.owner = name /\ x.type = "SOA"
      <4>1. "SOA" \in Types /\ {} \in SUBSET Name
        BY DEF Types
      <4> QED BY <2>1, <4>1, LookingFacts, RRsFacts, SMTT(60) DEF SOA
    <3> HIDE DEF x
    <3>2. resp.answers # <<>> => Continues(Last(resp.answers), x)
      BY <3>1, LookingFacts DEF Continues
    <3> DEFINE s == Append(resp.answers, x)
    <3>3. s \in Seq(RRset) /\ s # <<>> /\ Last(s) = x /\ Chained(s)
      BY <3>1, <3>2, LookingFacts, ChainAppend
    <3>4. soa = s
      BY <2>1 DEF x
    <3> HIDE DEF s, soa
    <3>5. "SOA" # "CNAME"
      OBVIOUS
    <3> QED BY <3>1, <3>3, <3>4, <3>5
  <2>2. CASE ~apex
    BY <2>2, LookingFacts
  <2> QED BY <2>1, <2>2
<1> HIDE DEF soa, matched, cnames
<1> DEFINE With(a, s) == AppendSet(a, name, s)
<1>a. ASSUME NEW a \in Seq(RRset), Chained(a), NEW s, s \subseteq At(zone, n),
             a # <<>> /\ Last(a).type = "CNAME" => Last(a).targets = {name}
      PROVE  /\ With(a, s) \in Seq(RRset) /\ Chained(With(a, s))
             /\ With(a, s) = <<>> <=> a = <<>> /\ s = {}
             /\ \A c \in s : c.type = "CNAME" => Aliased(With(a, s), c.target)
  <2>1. name \in Name
    BY LookingFacts
  <2>2. With(a, s) \in Seq(RRset) /\ Chained(With(a, s))
    BY <1>1, <1>a, <2>1, AppendSetFacts
  <2>3. With(a, s) = <<>> <=> a = <<>> /\ s = {}
    BY <1>1, <1>a, <2>1, AppendSetFacts
  <2>4. \A c \in s : c.type = "CNAME" => Aliased(With(a, s), c.target)
    BY <1>1, <1>a, <2>1, AppendSetFacts
  <2> QED BY <2>2, <2>3, <2>4
<1>b. any = With(soa, rs) /\ some = With(resp.answers, matched) /\ alias = With(resp.answers, cnames)
  OBVIOUS
<1> HIDE DEF With
<1>4. any \in Seq(RRset) /\ Chained(any) /\ (any = <<>> <=> soa = <<>> /\ rs = {})
  BY <1>3, <1>a, <1>b
<1>5. some \in Seq(RRset) /\ Chained(some)
  BY <1>2, <1>a, <1>b, LookingFacts, SMTT(60)
<1>6. /\ alias \in Seq(RRset) /\ Chained(alias)
      /\ \A c \in cnames : Aliased(alias, c.target)
  BY <1>2, <1>a, <1>b, LookingFacts, SMTT(60)
<1>7. \/ any = <<>> /\ negative(exists)
      \/ Done([resp EXCEPT !.answers = any])
      \/ Done([resp EXCEPT !.answers = soa])
      \/ AddGlue(IF qtype \in WithTarget THEN matched ELSE {}, [resp EXCEPT !.answers = some])
      \/ \E c \in cnames : Follow(c.target, alias)
      \/ negative(there)
  BY DEF Answer, soa, matched, cnames
<1> HIDE DEF any, some, alias
<1>8. CASE any = <<>> /\ negative(exists)
  <2>1. exists = there
    BY <1>3, <1>4, <1>8
  <2> QED BY <1>8, <2>1, NegativeKeeps
<1>9. ASSUME NEW a \in Seq(RRset), Chained(a), Done([resp EXCEPT !.answers = a])
      PROVE  IInv'
  <2> DEFINE r == [resp EXCEPT !.answers = a]
  <2>1. Sendable(r)
    BY <1>9, WithKeeps
  <2> HIDE DEF r
  <2> QED BY <1>9, <2>1, DoneKeeps DEF r
<1>10. CASE AddGlue(IF qtype \in WithTarget THEN matched ELSE {}, [resp EXCEPT !.answers = some])
  <2> DEFINE r == [resp EXCEPT !.answers = some]
             g == IF qtype \in WithTarget THEN matched ELSE {}
  <2>1. /\ r \in Response /\ r.answers = some /\ r.rcode = "NOERROR" /\ r.aa = TRUE
        /\ r.authority = {} /\ r.additional = {}
    BY <1>5, WithKeeps
  <2>2. g \subseteq Records
    BY <1>1, <1>2
  <2>3. AddGlue(g, r)
    BY <1>10
  <2> HIDE DEF r, g
  <2> QED BY <1>5, <2>1, <2>2, <2>3, AddGlueKeeps
<1>11. CASE \E c \in cnames : Follow(c.target, alias)
  <2>1. PICK c \in cnames : Follow(c.target, alias)
    BY <1>11
  <2>2. c.target \in Name
    BY <1>1, <1>2, RecordFacts
  <2> QED BY <1>6, <2>1, <2>2, FollowKeeps DEF Looking, Aliased
<1>12. CASE negative(there)
  <2>1. there \in BOOLEAN /\ (writes = 0 => (NoSuchName(zone, name) <=> ~there))
    OBVIOUS
  <2> HIDE DEF there
  <2> QED BY <1>12, <2>1, NegativeKeeps
<1> QED BY <1>3, <1>4, <1>7, <1>8, <1>9, <1>10, <1>11, <1>12

----------------------------------------------------------------------------
(* The steps *)

(* An answer that is only a code.                                           *)
LEMMA CodeKeeps ==
  ASSUME IInv, UNCHANGED db, NEW d \in RCodes, d # "NOERROR",
         Done([Empty EXCEPT !.rcode = d])
  PROVE  IInv'
<1> DEFINE r == SetCode(Empty, d)
<1>1. Done(r)
  BY DEF SetCode
<1>2. Empty \in Response /\ Empty.answers = <<>> /\ Empty.authority = {}
  BY EmptyFacts
<1>3. r \in Response /\ r.rcode = d /\ r.answers = <<>> /\ r.authority = {}
  BY <1>2, SetCodeFacts
<1>4. d = "SERVFAIL" => r = [Empty EXCEPT !.rcode = "SERVFAIL"]
  BY DEF SetCode
<1> HIDE DEF r
<1>5. Chained(r.answers)
  BY <1>3, NothingChained
<1>6. Sendable(r)
  BY <1>3, <1>4, <1>5 DEF Sendable
<1> QED BY <1>1, <1>6, DoneKeeps

(* A request that is refused.                                               *)
LEMMA RejectKeeps ==
  ASSUME IInv, NEW what \in DOMAIN Rejected, Reject(what)
  PROVE  IInv'
<1>1. Rejected[what] \in RCodes /\ Rejected[what] # "NOERROR"
  BY SMTT(60) DEF Rejected, RCodes
<1> DEFINE d == Rejected[what]
<1>2. Done([Empty EXCEPT !.rcode = d]) /\ UNCHANGED db
  BY DEF Reject
<1> HIDE DEF d
<1>3. d \in RCodes /\ d # "NOERROR"
  BY <1>1 DEF d
<1> QED BY <1>2, <1>3, CodeKeeps

(* A call of the resolver fails.                                            *)
LEMMA ResolverFailsKeeps ==
  ASSUME IInv, ResolverFails
  PROVE  IInv'
<1>1. "SERVFAIL" \in RCodes /\ "SERVFAIL" # "NOERROR"
  BY DEF RCodes
<1>2. Done([Empty EXCEPT !.rcode = "SERVFAIL"]) /\ UNCHANGED db
  BY DEF ResolverFails
<1> QED BY <1>1, <1>2, CodeKeeps

(* A query arrives.                                                         *)
LEMMA HandleKeeps ==
  ASSUME IInv, NEW q \in Questions, Handle(q)
  PROVE  IInv'
<1>1. /\ pc = "idle" /\ pc' = "findZone" /\ name' = q.name /\ zone' = zone
      /\ encloser' = encloser /\ todo' = todo /\ seen' = seen /\ resp' = resp /\ UNCHANGED db
  BY DEF Handle
<1>2. q.name \in Name
  BY HandlerAssumption DEF Name
<1>3. TypeInv'
  BY <1>1, <1>2, DataKept DEF IInv, TypeInv
<1>4. Place' /\ Climbed' /\ Cut' /\ FailuresEmpty' /\ NegativeRight'
  BY <1>1 DEF Place, Climbed, Cut, FailuresEmpty, NegativeRight
<1>5. Pending' /\ Chained(resp'.answers)
  BY <1>1 DEF IInv, Pending
<1> QED BY <1>1, <1>3, <1>4, <1>5 DEF IInv

(* The zone of the name is found, at first or for the target of an alias.    *)
LEMMA EntersKeeps ==
  ASSUME IInv, UNCHANGED db, FindZone(name) # Root, zone' = FindZone(name), pc' = "lookup",
         name' = name, encloser' = encloser, todo' = todo, seen' = seen,
         resp' \in Response, resp'.rcode = "NOERROR", resp'.aa = TRUE, resp'.authority = {},
         resp'.additional = {}, Chained(resp'.answers),
         resp'.answers # <<>> =>
           Last(resp'.answers).type = "CNAME" /\ Last(resp'.answers).targets = {name}
  PROVE  IInv'
<1>1. zones \subseteq Name /\ name \in Name
  BY HandlerAssumption DEF IInv, TypeInv, Name
<1>2. zone' \in Name /\ inZone(name, zone')
  BY <1>1, FindZoneFacts
<1>3. TypeInv'
  BY <1>2, DataKept DEF IInv, TypeInv
<1>4. Place' /\ Pending'
  BY <1>2 DEF Place, Pending
<1>5. Climbed' /\ Cut' /\ FailuresEmpty' /\ NegativeRight'
  BY DEF Climbed, Cut, FailuresEmpty, NegativeRight
<1> QED BY <1>3, <1>4, <1>5 DEF IInv

(* The zone of the name asked for.                                          *)
LEMMA FindFirstZoneKeeps ==
  ASSUME IInv, FindFirstZone
  PROVE  IInv'
<1>1. pc = "findZone" /\ resp = Empty /\ UNCHANGED db
  BY DEF FindFirstZone, IInv, Pending
<1>2. CASE FindZone(name) = Root
  <2>1. "REFUSED" \in RCodes /\ "REFUSED" # "NOERROR"
    BY DEF RCodes
  <2>2. Done([Empty EXCEPT !.rcode = "REFUSED"])
    BY <1>1, <1>2 DEF FindFirstZone
  <2> QED BY <1>1, <2>1, <2>2, CodeKeeps
<1>3. CASE FindZone(name) # Root
  <2>1. /\ resp' = SetAA(Empty, TRUE) /\ zone' = FindZone(name) /\ pc' = "lookup"
        /\ name' = name /\ encloser' = encloser /\ todo' = todo /\ seen' = seen
    BY <1>1, <1>3 DEF FindFirstZone, SetAA
  <2>2. TRUE \in BOOLEAN
    OBVIOUS
  <2>3. LET r == SetAA(Empty, TRUE)
        IN  /\ r \in Response /\ r.rcode = Empty.rcode /\ r.aa = TRUE /\ r.answers = Empty.answers
            /\ r.authority = Empty.authority /\ r.additional = Empty.additional
    BY <2>2, EmptyFacts, SetAAFacts
  <2>4. /\ resp' \in Response /\ resp'.rcode = "NOERROR" /\ resp'.aa = TRUE /\ resp'.answers = <<>>
        /\ resp'.authority = {} /\ resp'.additional = {}
    BY <2>1, <2>3, EmptyFacts
  <2> QED BY <1>1, <1>3, <2>1, <2>4, NothingChained, EntersKeeps
<1> QED BY <1>2, <1>3

(* The climb goes on.                                                       *)
LEMMA ClimbsKeeps ==
  ASSUME IInv, Looking, UNCHANGED db, encloser' \in Name, pc' \in {"climb", "wildcard"},
         zone' = zone, name' = name, todo' = todo, seen' = seen, resp' = resp,
         Place', Climbed'
  PROVE  IInv'
<1>1. TypeInv'
  BY DataKept DEF IInv, TypeInv
<1>2. Pending'
  BY DEF IInv, Pending, Looking
<1>3. Cut' /\ FailuresEmpty' /\ NegativeRight' /\ Chained(resp'.answers)
  BY DEF Cut, FailuresEmpty, NegativeRight, IInv
<1> QED BY <1>1, <1>2, <1>3 DEF IInv

(* What is known of a name and those above it.                              *)
LEMMA AboveFacts ==
  ASSUME IInv, inZone(name, zone)
  PROVE  /\ zone \in Name /\ name \in Name /\ encloser \in Name
         /\ inZone(name, name) /\ name \in Suffixes(name) /\ Len(name) \in Nat
         /\ \A f \in Suffixes(name) :
              f \in Name /\ inZone(name, f) /\ Len(f) \in Nat /\ Len(f) <= Len(name)
         /\ \A f \in Suffixes(name), e \in Name :
              inZone(name, e) /\ Len(f) = Len(e) => f = e
<1>1. zone \in Name /\ name \in Name /\ encloser \in Name
  BY DEF IInv, TypeInv
<1>2. inZone(name, name)
  BY <1>1, SuffixRefl DEF Name
<1>3. /\ \A f \in Suffixes(name) : f \in Name /\ inZone(name, f)
      /\ name \in Suffixes(name)
  BY <1>1, <1>2, SuffixesAre DEF Name
<1>4. \A f \in Suffixes(name) : Len(f) <= Len(name)
  BY <1>1, <1>3 DEF Name, inZone
<1>5. \A f \in Name : Len(f) \in Nat
  BY SMTT(60) DEF Name
<1>6. \A f \in Suffixes(name), e \in Name : inZone(name, e) /\ Len(f) = Len(e) => f = e
  BY <1>1, <1>3, SuffixSame DEF Name
<1> QED BY <1>1, <1>2, <1>3, <1>4, <1>5, <1>6

(* The name itself.                                                         *)
LEMMA LookupKeeps ==
  ASSUME IInv, Lookup
  PROVE  IInv'
<1> DEFINE rs == At(zone, name)
           ns == filterType(rs, "NS")
<1>1. Looking /\ pc = "lookup" /\ UNCHANGED db /\ inZone(name, zone)
  BY DEF Lookup, Looking, IInv, Place
<1>2. CASE name # zone /\ qtype # "DS" /\ ns # {}
  <2>1. Referral(name, ns)
    BY <1>2 DEF Lookup
  <2>2. ns \subseteq At(zone, name)
    BY DEF filterType
  <2> QED BY <1>1, <1>2, <2>1, <2>2, AboveFacts, ReferralKeeps
<1>3. CASE ~(name # zone /\ qtype # "DS" /\ ns # {}) /\ (Exists(zone, name) \/ name = zone)
  <2>1. Answer(rs, TRUE)
    BY <1>3 DEF Lookup
  <2>2. ~NoSuchName(zone, name)
    BY <1>3 DEF NoSuchName
  <2>3. rs \subseteq At(zone, name)
    OBVIOUS
  <2> HIDE DEF rs
  <2> QED BY <1>1, <2>1, <2>2, <2>3, AnswerKeeps
<1>4. CASE ~(name # zone /\ qtype # "DS" /\ ns # {}) /\ ~(Exists(zone, name) \/ name = zone)
  <2>1. /\ encloser' = name /\ pc' = "climb" /\ zone' = zone /\ name' = name /\ todo' = todo
        /\ seen' = seen /\ resp' = resp
    BY <1>4 DEF Lookup
  <2>2. Place'
    BY <1>1, <1>4, <2>1, AboveFacts DEF Place
  <2>3. \A f : Exists(zone, f)' <=> Exists(zone, f)
    BY <1>1, <2>1, DataKept DEF Exists, At, HasChildren
  <2>4. ASSUME NEW f \in Suffixes(name), Exists(zone, f)
        PROVE  Len(f) < Len(name)
    <3>1. Len(f) # Len(name)
      BY <1>1, <1>4, <2>4, AboveFacts
    <3>2. Len(f) \in Nat /\ Len(name) \in Nat /\ Len(f) <= Len(name)
      BY <1>1, AboveFacts
    <3> QED BY <3>1, <3>2, SMTT(60)
  <2>5. Climbed'
    BY <2>1, <2>3, <2>4 DEF Climbed
  <2>6. encloser' \in Name
    BY <1>1, <2>1, AboveFacts
  <2> QED BY <1>1, <2>1, <2>2, <2>5, <2>6, ClimbsKeeps
<1> QED BY <1>2, <1>3, <1>4

(* One name up.                                                             *)
LEMMA ClimbKeeps ==
  ASSUME IInv, Climb
  PROVE  IInv'
<1> DEFINE up == Tail(encloser)
           rs == At(zone, up)
           ns == filterType(rs, "NS")
           dn == filterType(rs, "DNAME")
<1>1. /\ Looking /\ pc = "climb" /\ UNCHANGED db /\ inZone(name, zone)
      /\ inZone(encloser, zone) /\ inZone(name, encloser) /\ name # zone /\ encloser # zone
  BY DEF Climb, Looking, IInv, Place
<1>2. zone \in Name /\ name \in Name /\ encloser \in Name
  BY <1>1, AboveFacts
<1>3. /\ up \in Name /\ Len(up) = Len(encloser) - 1
      /\ inZone(encloser, up) /\ inZone(up, zone)
  BY <1>1, <1>2, SuffixTail DEF Name
<1>4. ns \subseteq At(zone, up) /\ dn \subseteq At(zone, up)
  BY DEF filterType
<1>5. \/ up # zone /\ Referral(up, ns)
      \/ \E d \in dn : Redirect(up, d)
      \/ /\ encloser' = up /\ pc' = IF Exists(zone, up) \/ up = zone THEN "wildcard" ELSE "climb"
         /\ UNCHANGED <<qtype, zone, name, hops, todo, seen, resp>>
  BY DEF Climb
<1> HIDE DEF up, ns, dn
<1>6. inZone(name, up)
  BY <1>1, <1>2, <1>3, SuffixTrans DEF Name
<1>7. CASE up # zone /\ Referral(up, ns)
  BY <1>1, <1>3, <1>4, <1>6, <1>7, ReferralKeeps
<1>8. CASE \E d \in dn : Redirect(up, d)
  <2>1. PICK d \in dn : Redirect(up, d)
    BY <1>8
  <2>2. TypeInv
    BY DEF IInv
  <2>3. d.target \in Name
    BY <1>4, <2>2, RecordFacts
  <2> QED BY <1>1, <1>3, <1>6, <2>1, <2>3, RedirectKeeps
<1>9. CASE /\ encloser' = up /\ pc' = IF Exists(zone, up) \/ up = zone THEN "wildcard" ELSE "climb"
           /\ UNCHANGED <<qtype, zone, name, hops, todo, seen, resp>>
  <2>1. /\ encloser' = up /\ zone' = zone /\ name' = name /\ todo' = todo /\ seen' = seen
        /\ resp' = resp /\ pc' \in {"climb", "wildcard"}
        /\ pc' = "climb" => ~Exists(zone, up) /\ up # zone
        /\ pc' = "wildcard" => Exists(zone, up) \/ up = zone
    BY <1>9
  <2>2. /\ Len(up) \in Nat /\ Len(encloser) \in Nat /\ Len(name) \in Nat
        /\ Len(up) = Len(encloser) - 1 /\ Len(encloser) <= Len(name)
    <3>1. Len(encloser) <= Len(name)
      BY <1>1, <1>2 DEF Name, inZone
    <3>2. Len(up) \in Nat /\ Len(encloser) \in Nat /\ Len(name) \in Nat
      BY <1>2, <1>3, SMTT(60) DEF Name
    <3> QED BY <1>3, <3>1, <3>2
  <2>3. Len(up) # Len(name) /\ ~(Len(name) < Len(encloser))
    BY <2>2, SMTT(60)
  <2>4. Place'
    BY <1>1, <1>3, <1>6, <2>1, <2>3 DEF Place
  <2>5. \A f : Exists(zone, f)' <=> Exists(zone, f)
    BY <1>1, <2>1, DataKept DEF Exists, At, HasChildren
  <2>6. writes = 0 => \A f \in Suffixes(name) : Exists(zone, f) => Len(f) < Len(encloser)
    BY <1>1 DEF IInv, Climbed
  <2>7. writes = 0 => ~Exists(zone, name)
    BY <1>1, <2>3, <2>6, AboveFacts
  <2>8. writes = 0 => \A f \in Suffixes(name) : Exists(zone, f) => Len(f) <= Len(up)
    <3>1. \A f \in Suffixes(name) : Len(f) \in Nat
      BY <1>1, AboveFacts
    <3>2. \A n \in Nat : n < Len(encloser) => n <= Len(up)
      BY <2>2, SMTT(60)
    <3> QED BY <2>6, <3>1, <3>2
  <2>9. writes = 0 /\ pc' = "climb" => \A f \in Suffixes(name) : Exists(zone, f) => Len(f) < Len(up)
    <3>1. \A f \in Suffixes(name) : Len(f) \in Nat /\ (Len(f) = Len(up) => f = up)
      BY <1>1, <1>3, <1>6, AboveFacts
    <3>2. \A n \in Nat : n <= Len(up) /\ n # Len(up) => n < Len(up)
      BY <2>2, SMTT(60)
    <3> QED BY <2>1, <2>8, <3>1, <3>2
  <2>10. Climbed'
    BY <1>1, <2>1, <2>5, <2>7, <2>8, <2>9, DataKept DEF Climbed
  <2>11. encloser' \in Name
    BY <1>3, <2>1
  <2> QED BY <1>1, <2>1, <2>4, <2>10, <2>11, ClimbsKeeps
<1> QED BY <1>5, <1>7, <1>8, <1>9

(* The wildcard below the closest encloser.                                 *)
LEMMA WildcardKeeps ==
  ASSUME IInv, Wildcard
  PROVE  IInv'
<1> DEFINE n == <<"*">> \o encloser
           rs == At(zone, n)
<1>1. /\ Looking /\ pc = "wildcard" /\ UNCHANGED db /\ Answer(rs, rs # {})
      /\ inZone(name, zone) /\ inZone(encloser, zone) /\ inZone(name, encloser)
      /\ name # zone /\ encloser # name
  BY DEF Wildcard, Looking, IInv, Place
<1>2. writes = 0 => /\ ~Exists(zone, name) /\ (encloser = zone \/ Exists(zone, encloser))
                    /\ \A f \in Suffixes(name) : Exists(zone, f) => Len(f) <= Len(encloser)
  BY <1>1 DEF IInv, Climbed
<1>3. writes = 0 => ClosestEncloser(zone, name) = encloser
  BY <1>1, <1>2, AboveFacts, EncloserFacts
<1>4. writes = 0 => (NoSuchName(zone, name) <=> rs = {})
  BY <1>1, <1>2, <1>3 DEF NoSuchName
<1>5. rs \subseteq At(zone, n) /\ (rs # {}) \in BOOLEAN
  OBVIOUS
<1> HIDE DEF rs, n
<1> DEFINE exists == rs # {}
<1>6. exists \in BOOLEAN /\ Answer(rs, exists)
  BY <1>1
<1>7. writes = 0 => (NoSuchName(zone, name) <=> ~(rs # {} \/ exists \/ name = zone))
  BY <1>1, <1>4
<1> HIDE DEF exists
<1> QED BY <1>1, <1>5, <1>6, <1>7, AnswerKeeps

(* The zone of the target of an alias.                                      *)
LEMMA ZoneForKeeps ==
  ASSUME IInv, ZoneFor
  PROVE  IInv'
<1>1. /\ pc = "zoneFor" /\ UNCHANGED db /\ resp \in Response /\ Chained(resp.answers)
      /\ resp.rcode = "NOERROR" /\ resp.aa /\ resp.authority = {} /\ resp.additional = {}
      /\ resp.answers # <<>> =>
           Last(resp.answers).type = "CNAME" /\ Last(resp.answers).targets = {name}
  BY DEF ZoneFor, IInv, TypeInv, Pending
<1>2. CASE Done(resp)
  <2>1. Sendable(resp)
    BY <1>1 DEF Sendable
  <2> QED BY <1>1, <1>2, <2>1, DoneKeeps
<1>3. CASE ~Done(resp)
  <2>1. /\ FindZone(name) # Root /\ zone' = FindZone(name) /\ pc' = "lookup" /\ name' = name
        /\ encloser' = encloser /\ todo' = todo /\ seen' = seen /\ resp' = resp
    BY <1>3 DEF ZoneFor
  <2>2. resp.aa = TRUE
    BY <1>1, RespParts
  <2> QED BY <1>1, <2>1, <2>2, EntersKeeps
<1> QED BY <1>2, <1>3

(* The addresses of a target.                                               *)
LEMMA GlueKeeps ==
  ASSUME IInv, NEW t \in todo, Glue(t)
  PROVE  IInv'
<1> DEFINE found == {r \in At(zone, t) : r.type \in Addresses}
           X(got) == {[owner |-> t, type |-> r.type] : r \in got}
<1>1. PICK got \in {found, {}} : resp' = AddAdditional(resp, X(got))
  BY DEF Glue, AddAdditional
<1>2. /\ pc = "glue" /\ pc' = "glue" /\ todo' = todo \ {t} /\ seen' = seen + 1 /\ UNCHANGED db
      /\ zone' = zone /\ name' = name /\ encloser' = encloser
  BY DEF Glue
<1>3. TypeInv /\ t \in Name /\ resp \in Response
  BY DEF IInv, TypeInv
<1>4. got \subseteq At(zone, t)
  BY <1>1
<1> DEFINE x == X(got)
<1>5. x \in SUBSET Glued
  <2>1. \A r \in got : r.type \in Types
    BY <1>3, <1>4, RecordFacts
  <2> QED BY <1>3, <2>1, SMTT(60) DEF Glued
<1>6. \A a \in x : a.owner = t
  BY SMTT(60)
<1> HIDE DEF x, X
<1>7. /\ resp' \in Response /\ resp'.rcode = resp.rcode /\ resp'.aa = resp.aa
      /\ resp'.answers = resp.answers /\ resp'.authority = resp.authority
      /\ resp'.additional = resp.additional \cup x
  BY <1>1, <1>3, <1>5, AddAdditionalFacts DEF x
<1>8. TypeInv'
  <2>1. seen' \in Nat
    BY <1>2, <1>3, SMTT(60) DEF TypeInv
  <2> QED BY <1>2, <1>3, <1>7, <2>1, DataKept DEF TypeInv
<1>9. Place' /\ Climbed' /\ FailuresEmpty' /\ NegativeRight'
  BY <1>2 DEF Place, Climbed, FailuresEmpty, NegativeRight
<1>10. Pending' /\ Chained(resp'.answers)
  BY <1>2, <1>7 DEF IInv, Pending
<1>11. Cut'
  <2>1. \A c : IsCut(c)' <=> IsCut(c)
    BY <1>2 DEF IsCut
  <2> SUFFICES ASSUME resp.rcode = "NOERROR", ~resp.aa
               PROVE  \E c \in resp.authority :
                        /\ IsCut(c) /\ todo' \subseteq c.targets
                        /\ \A a \in resp'.additional : a.owner \in c.targets
    BY <1>2, <1>7, <2>1 DEF Cut
  <2>2. PICK c \in resp.authority : /\ IsCut(c) /\ todo \subseteq c.targets
                                    /\ \A a \in resp.additional : a.owner \in c.targets
    BY <1>2 DEF IInv, Cut
  <2>3. \A a \in resp'.additional : a.owner \in c.targets
    BY <1>6, <1>7, <2>2
  <2>4. todo' \subseteq c.targets
    BY <1>2, <2>2
  <2> QED BY <2>2, <2>3, <2>4
<1> QED BY <1>8, <1>9, <1>10, <1>11 DEF IInv

(* The glue is there.                                                       *)
LEMMA GlueDoneKeeps ==
  ASSUME IInv, GlueDone
  PROVE  IInv'
<1>1. /\ pc = "glue" /\ UNCHANGED db /\ Done(resp) /\ resp \in Response /\ Chained(resp.answers)
      /\ resp.rcode = "NOERROR" /\ \A c \in resp.authority : c.type # "SOA"
  BY DEF GlueDone, IInv, TypeInv, Pending
<1>2. SOA(zone) \notin resp.authority
  BY <1>1 DEF SOA, RRs
<1>3. ~resp.aa => \E c \in resp.authority : IsCut(c) /\ \A a \in resp.additional : a.owner \in c.targets
  BY <1>1 DEF IInv, Cut
<1>4. Sendable(resp)
  BY <1>1, <1>2, <1>3 DEF Sendable
<1> QED BY <1>1, <1>4, DoneKeeps

(* A write, while the handler is anywhere.                                  *)
LEMMA WriteKeeps ==
  ASSUME IInv, writes' = writes + 1, UNCHANGED <<pc, locals, resp>>,
         zones' \subseteq zones, records' \subseteq Records, CNAMEAlone(records')
  PROVE  IInv'
<1>1. /\ pc' = pc /\ zone' = zone /\ name' = name /\ encloser' = encloser /\ todo' = todo
      /\ seen' = seen /\ resp' = resp
  BY DEF locals
<1>2. writes' \in Nat /\ writes' # 0
  BY SMTT(60) DEF IInv, TypeInv
<1>3. CNAMEAlone(records)'
  BY DEF CNAMEAlone
<1>4. TypeInv'
  BY <1>1, <1>2, <1>3 DEF IInv, TypeInv
<1>5. Place' /\ Pending' /\ Chained(resp'.answers)
  BY <1>1 DEF IInv, Place, Pending
<1>6. Climbed' /\ NegativeRight'
  BY <1>2 DEF Climbed, NegativeRight
<1>7. Cut'
  <2>1. \A c : IsCut(c)' <=> IsCut(c)
    BY <1>1 DEF IsCut
  <2> QED BY <1>1, <2>1 DEF IInv, Cut
<1>8. FailuresEmpty'
  BY <1>1 DEF IInv, FailuresEmpty
<1> QED BY <1>4, <1>5, <1>6, <1>7, <1>8 DEF IInv

(* A record comes or goes.                                                  *)
LEMMA ChangeKeeps ==
  ASSUME IInv, NEW r \in Records, Change(r)
  PROVE  IInv'
<1>1. /\ writes' = writes + 1 /\ UNCHANGED <<pc, locals, resp>> /\ zones' \subseteq zones
      /\ CNAMEAlone(records')
  BY DEF Change
<1>2. records' \subseteq Records
  BY DEF Change, IInv, TypeInv
<1> QED BY <1>1, <1>2, WriteKeeps

(* A zone goes, with its records.                                           *)
LEMMA DropZoneKeeps ==
  ASSUME IInv, NEW z \in Zones, DropZone(z)
  PROVE  IInv'
<1>1. /\ writes' = writes + 1 /\ UNCHANGED <<pc, locals, resp>> /\ zones' \subseteq zones
      /\ records' \subseteq records
  BY DEF DropZone
<1>2. records' \subseteq Records /\ CNAMEAlone(records')
  BY <1>1 DEF IInv, TypeInv, CNAMEAlone
<1> QED BY <1>1, <1>2, WriteKeeps

----------------------------------------------------------------------------
(* The invariant *)

(* It holds at first.                                                       *)
LEMMA InitIInv ==
  Init => IInv
<1> SUFFICES ASSUME Init PROVE IInv
  OBVIOUS
<1>1. /\ pc = "idle" /\ zone = <<>> /\ name = <<>> /\ encloser = <<>> /\ todo = {} /\ seen = 0
      /\ resp = Empty /\ writes = 0 /\ zones \subseteq Zones /\ records \subseteq Records
      /\ CNAMEAlone(records)
  BY DEF Init, Root
<1>2. <<>> \in Name /\ 0 \in Nat
  BY SMTT(60) DEF Name
<1>3. TypeInv
  BY <1>1, <1>2, EmptyFacts DEF TypeInv
<1>4. Place /\ Pending /\ Climbed /\ Cut /\ FailuresEmpty /\ NegativeRight
  BY <1>1 DEF Place, Pending, Climbed, Cut, FailuresEmpty, NegativeRight
<1>5. Chained(resp.answers)
  BY <1>1, EmptyFacts, NothingChained
<1> QED BY <1>3, <1>4, <1>5 DEF IInv

(* Nothing happened.                                                        *)
LEMMA StutterKeeps ==
  ASSUME IInv, UNCHANGED vars
  PROVE  IInv'
<1>1. /\ UNCHANGED db /\ pc' = pc /\ zone' = zone /\ name' = name /\ encloser' = encloser
      /\ todo' = todo /\ seen' = seen /\ resp' = resp
  BY DEF vars, locals
<1>2. TypeInv' /\ Place' /\ Pending' /\ Chained(resp'.answers) /\ FailuresEmpty'
  BY <1>1, DataKept DEF IInv, TypeInv, Place, Pending, FailuresEmpty
<1>3. \A f : Exists(zone, f)' <=> Exists(zone, f)
  BY <1>1, DataKept DEF Exists, At, HasChildren
<1>4. Climbed'
  BY <1>1, <1>3, DataKept DEF IInv, Climbed
<1>5. Cut'
  <2>1. \A c : IsCut(c)' <=> IsCut(c)
    BY <1>1 DEF IsCut
  <2> QED BY <1>1, <2>1 DEF IInv, Cut
<1>6. NegativeRight'
  <2>1. NoSuchName(zone, name)' = NoSuchName(zone, name) /\ SOA(zone)' = SOA(zone)
    BY <1>1, DataKept, NoSuchKept DEF SOA
  <2> QED BY <1>1, <2>1, DataKept DEF IInv, NegativeRight
<1> QED BY <1>2, <1>4, <1>5, <1>6 DEF IInv

(* Every step keeps it.                                                     *)
LEMMA NextIInv ==
  IInv /\ [Next]_vars => IInv'
<1> SUFFICES ASSUME IInv, [Next]_vars PROVE IInv'
  OBVIOUS
<1>1. CASE \E what \in DOMAIN Rejected : Reject(what)
  BY <1>1, RejectKeeps
<1>2. CASE \E q \in Questions : Handle(q)
  BY <1>2, HandleKeeps
<1>3. CASE Step
  BY <1>3, FindFirstZoneKeeps, LookupKeeps, ClimbKeeps, WildcardKeeps, ZoneForKeeps,
     GlueDoneKeeps, GlueKeeps DEF Step
<1>4. CASE ResolverFails
  BY <1>4, ResolverFailsKeeps
<1>5. CASE \E r \in Records : Change(r)
  BY <1>5, ChangeKeeps
<1>6. CASE \E z \in Zones : DropZone(z)
  BY <1>6, DropZoneKeeps
<1>7. CASE UNCHANGED vars
  BY <1>7, StutterKeeps
<1> QED BY <1>1, <1>2, <1>3, <1>4, <1>5, <1>6, <1>7 DEF Next

(* It is an invariant.                                                      *)
LEMMA HandlerIInv ==
  Spec => []IInv
BY InitIInv, NextIInv, PTL DEF Spec

(* resolve builds one chain, whatever is written between its lookups, and    *)
(* Handle sends nothing of an answer that failed half-way: for any zones,    *)
(* records and questions, and any number of writes.                         *)
THEOREM HandlerAnswers ==
  Spec => []AnswersWhole
<1>1. IInv => AnswersWhole
  <2> SUFFICES ASSUME IInv PROVE AnswersWhole
    OBVIOUS
  <2>1. resp.answers \in Seq(RRset)
    BY RespParts DEF IInv, TypeInv
  <2> QED BY <2>1, ChainIff DEF IInv, AnswersWhole
<1> QED BY <1>1, HandlerIInv, PTL

(* lookup climbs to the closest encloser, so that a negative answer of       *)
(* unchanging data says NXDOMAIN exactly for the names that do not exist and *)
(* that no wildcard covers.                                                 *)
THEOREM HandlerNegative ==
  Spec => []NegativeRight
<1>1. IInv => NegativeRight
  BY DEF IInv
<1> QED BY <1>1, HandlerIInv, PTL

(* A response without the authoritative bit is a referral to a cut between   *)
(* the zone and the name, and its glue is of the servers it names.           *)
THEOREM HandlerReferrals ==
  Spec => []ReferralsNameCuts
<1>1. IInv => ReferralsNameCuts
  BY DEF IInv, Cut, IsCut, ReferralsNameCuts
<1> QED BY <1>1, HandlerIInv, PTL
=============================================================================
