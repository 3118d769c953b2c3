------------------------------- MODULE Handler -------------------------------
(***************************************************************************)
(* How a query is answered: Handle, resolve, lookup and addGlue of           *)
(* internal/dns/handler.go.  Every call of the resolver is a step, so that   *)
(* writes may fall between two of them.                                     *)
(*                                                                         *)
(* A name is its sequence of labels, leftmost first.  Records are as the     *)
(* API's validation leaves them: each can be encoded.  The order of the      *)
(* records of an RRset (appendSet rotates it) is left out: an RRset is a     *)
(* set.  The resolver is the database itself; CachedResolver says what the   *)
(* cache makes of it.                                                      *)
(***************************************************************************)
EXTENDS Integers, Sequences, FiniteSets, Functions

CONSTANTS
    Zones,          \* zone names that may exist
    Records,        \* the records that may exist: [zone, name, type, target]
    Questions,      \* what may be asked: [name, type]
    maxChain,       \* 8 in the code
    maxAdditional,  \* 16 in the code
    maxLabels,      \* the longest name, 253 characters in the code
    MaxWrites       \* bound: writes while the query is answered

(* Names *)

\* inZone: the zone's labels are the last of the name's.
inZone(n, z) ==
    /\ Len(z) <= Len(n)
    /\ \A i \in 1 .. Len(z) : z[i] = n[(Len(n) - Len(z)) + i]

\* A name and those above it, up to the root.
Suffixes(n) == {SubSeq(n, i, Len(n)) : i \in 1 .. Len(n) + 1}

----------------------------------------------------------------------------
(* Sequences *)

Last(s) == s[Len(s)]

\* The elements of a set, in some order.
Listed(S) == CHOOSE s \in Bijection(1 .. Cardinality(S), S) : TRUE

----------------------------------------------------------------------------
Addresses == {"A", "AAAA"}
WithTarget == {"NS", "MX", "SRV"}

ASSUME HandlerAssumption ==
    /\ Zones \subseteq Seq(STRING)
    /\ IsFiniteSet(Records)
    /\ \A r \in Records :
         /\ r.zone \in Zones /\ inZone(r.name, r.zone)
         /\ r.name \in Seq(STRING) /\ r.target \in Seq(STRING)
    /\ \A q \in Questions :
         q.name \in Seq(STRING) /\ q.name # <<>> /\ Len(q.name) <= maxLabels
    /\ maxChain \in Nat /\ maxAdditional \in Nat /\ maxLabels \in Nat /\ MaxWrites \in Nat

VARIABLES
    zones,    \* the zones there are
    records,  \* the records there are
    writes,   \* writes so far
    pc,       \* where Handle is
    qtype,    \* the type asked for
    zone,     \* the zone the name of this turn of resolve's loop is in
    name,     \* that name
    encloser, \* how far up lookup has got
    hops,     \* turns of resolve's loop
    todo,     \* targets addGlue has yet to look up
    seen,     \* how many it has looked up
    resp      \* the response

db == <<zones, records, writes>>
locals == <<qtype, zone, name, encloser, hops, todo, seen>>
vars == <<db, pc, locals, resp>>

----------------------------------------------------------------------------
(* What the resolver answers *)

Root == <<>>

\* Store.FindZone: the longest zone the name is in, or Root.
FindZone(n) ==
    IF \E z \in zones : inZone(n, z)
      THEN CHOOSE z \in zones : /\ inZone(n, z)
                                /\ \A y \in zones : inZone(n, y) => Len(y) <= Len(z)
      ELSE Root

\* Store.LookupName: the records of a name, and whether any name is below it.
At(z, n) == {r \in records : r.zone = z /\ r.name = n}

HasChildren(z, n) ==
    \E r \in records : r.zone = z /\ r.name # n /\ inZone(r.name, n)

Exists(z, n) == At(z, n) # {} \/ HasChildren(z, n)

filterType(rs, type) == {r \in rs : r.type = type}

----------------------------------------------------------------------------
(* The response *)

Empty == [rcode |-> "NOERROR", aa |-> FALSE, answers |-> <<>>, authority |-> {},
          additional |-> {}]

\* An RRset of the answer section, at the owner it is given there.
RRs(owner, type, targets) == [owner |-> owner, type |-> type, targets |-> targets]

SOA(z) == RRs(z, "SOA", {})

\* appendSet: the records go into the answer, type by type.
AppendSet(answers, owner, rs) ==
    answers \o Listed({RRs(owner, t, {r.target : r \in filterType(rs, t)})
                           : t \in {r.type : r \in rs}})

Done(r) == resp' = r /\ pc' = "done" /\ UNCHANGED locals

\* negative: NXDOMAIN unless the name exists, and the SOA.
negative(exists) ==
    Done([resp EXCEPT !.rcode = IF exists THEN @ ELSE "NXDOMAIN",
                      !.authority = @ \cup {SOA(zone)}])

\* addGlue: the targets in the zone are looked up, one by one.
AddGlue(rs, r) ==
    /\ resp' = r
    /\ todo' = {x.target : x \in {y \in rs : inZone(y.target, zone)}}
    /\ seen' = 0
    /\ pc' = "glue"
    /\ UNCHANGED <<qtype, zone, name, encloser, hops>>

\* A cut: a referral to those the zone below is delegated to.
Referral(at, ns) ==
    AddGlue(ns, [resp EXCEPT !.aa = FALSE,
                             !.authority = @ \cup {RRs(at, "NS", {r.target : r \in ns})}])

\* Mutant of Follow: the loop goes on with the name it had.
FollowNothing(target, answers) ==
    /\ resp' = [resp EXCEPT !.answers = answers]
    /\ pc' = "zoneFor"
    /\ UNCHANGED locals

\* The name is another's: resolve goes on there if it is in a zone of ours.
Follow(target, answers) ==
    /\ resp' = [resp EXCEPT !.answers = answers]
    /\ name' = target
    /\ pc' = "zoneFor"
    /\ UNCHANGED <<qtype, zone, encloser, hops, todo, seen>>

\* A DNAME above the name: what is below it is found below its target.
Redirect(at, d) ==
    LET next == SubSeq(name, 1, Len(name) - Len(at)) \o d.target
        with == Append(resp.answers, RRs(at, "DNAME", {d.target}))
    IN  IF d.target = Root THEN Done([resp EXCEPT !.answers = with])
        ELSE IF Len(next) > maxLabels
          THEN Done([resp EXCEPT !.answers = with, !.rcode = "SERVFAIL"])
          ELSE Follow(next, Append(with, RRs(name, "CNAME", {next})))

\* resolve, once lookup has found the records rs for the name.
Answer(rs, exists) ==
    LET apex    == name = zone
        soa     == IF apex THEN Append(resp.answers, SOA(zone)) ELSE resp.answers
        any     == AppendSet(soa, name, rs)
        matched == filterType(rs, qtype)
        cnames  == filterType(rs, "CNAME")
        With(answers) == [resp EXCEPT !.answers = answers]
    IN  IF qtype = "ANY" THEN IF any = <<>> THEN negative(exists) ELSE Done(With(any))
        ELSE IF qtype = "SOA" /\ apex THEN Done(With(soa))
        ELSE IF matched # {}
          THEN AddGlue(IF qtype \in WithTarget THEN matched ELSE {},
                       With(AppendSet(resp.answers, name, matched)))
        ELSE IF qtype # "CNAME" /\ cnames # {}
          THEN \E c \in cnames : Follow(c.target, AppendSet(resp.answers, name, cnames))
        ELSE negative(rs # {} \/ exists \/ apex)

----------------------------------------------------------------------------
(* The steps of Handle *)

\* Requests that are refused before anything is looked up.
Rejected == [opcode |-> "NOTIMP", questions |-> "FORMERR", class |-> "REFUSED",
             opt |-> "FORMERR", transfer |-> "REFUSED", root |-> "REFUSED"]

Reject(what) ==
    /\ pc = "idle"
    /\ Done([Empty EXCEPT !.rcode = Rejected[what]])
    /\ UNCHANGED db

Handle(q) ==
    /\ pc = "idle"
    /\ pc' = "findZone"
    /\ name' = q.name
    /\ qtype' = q.type
    /\ UNCHANGED <<db, zone, encloser, hops, todo, seen, resp>>

FindFirstZone ==
    /\ pc = "findZone"
    /\ IF FindZone(name) = Root
         THEN Done([resp EXCEPT !.rcode = "REFUSED"])
         ELSE /\ resp' = [resp EXCEPT !.aa = TRUE]
              /\ zone' = FindZone(name)
              /\ pc' = "lookup"
              /\ UNCHANGED <<qtype, name, encloser, hops, todo, seen>>
    /\ UNCHANGED db

\* Mutant of Lookup: the NS records of the apex are taken for a cut.
LookupCutsApex ==
    LET rs == At(zone, name)
        ns == filterType(rs, "NS")
    IN  /\ pc = "lookup"
        /\ IF qtype # "DS" /\ ns # {} THEN Referral(name, ns)
           ELSE IF Exists(zone, name) \/ name = zone THEN Answer(rs, TRUE)
           ELSE /\ encloser' = name
                /\ pc' = "climb"
                /\ UNCHANGED <<qtype, zone, name, hops, todo, seen, resp>>
        /\ UNCHANGED db

\* lookup: the name itself.
Lookup ==
    LET rs == At(zone, name)
        ns == filterType(rs, "NS")
    IN  /\ pc = "lookup"
        /\ IF name # zone /\ qtype # "DS" /\ ns # {} THEN Referral(name, ns)
           ELSE IF Exists(zone, name) \/ name = zone THEN Answer(rs, TRUE)
           ELSE /\ encloser' = name
                /\ pc' = "climb"
                /\ UNCHANGED <<qtype, zone, name, hops, todo, seen, resp>>
        /\ UNCHANGED db

\* Mutants of Climb: past an encloser that exists, and without an end.
ClimbToApex ==
    LET up == Tail(encloser)
        rs == At(zone, up)
        ns == filterType(rs, "NS")
        dn == filterType(rs, "DNAME")
    IN  /\ pc = "climb"
        /\ IF up # zone /\ ns # {} THEN Referral(up, ns)
           ELSE IF up # zone /\ dn # {} THEN \E d \in dn : Redirect(up, d)
           ELSE /\ encloser' = up
                /\ pc' = IF up = zone THEN "wildcard" ELSE "climb"
                /\ UNCHANGED <<qtype, zone, name, hops, todo, seen, resp>>
        /\ UNCHANGED db

ClimbInPlace ==
    /\ pc = "climb"
    /\ pc' = IF Exists(zone, encloser) \/ encloser = zone THEN "wildcard" ELSE "climb"
    /\ UNCHANGED <<db, locals, resp>>

\* lookup: one turn of the loop that looks for the closest encloser.
Climb ==
    LET up == Tail(encloser)
        rs == At(zone, up)
        ns == filterType(rs, "NS")
        dn == filterType(rs, "DNAME")
    IN  /\ pc = "climb"
        /\ IF up # zone /\ ns # {} THEN Referral(up, ns)
           ELSE IF up # zone /\ dn # {} THEN \E d \in dn : Redirect(up, d)
           ELSE /\ encloser' = up
                /\ pc' = IF Exists(zone, up) \/ up = zone THEN "wildcard" ELSE "climb"
                /\ UNCHANGED <<qtype, zone, name, hops, todo, seen, resp>>
        /\ UNCHANGED db

\* lookup: the wildcard below the closest encloser.
Wildcard ==
    LET rs == At(zone, <<"*">> \o encloser)
    IN  /\ pc = "wildcard"
        /\ Answer(rs, rs # {})
        /\ UNCHANGED db

\* zoneFor: a target outside our zones ends the answer, and so does the last hop.
ZoneFor ==
    /\ pc = "zoneFor"
    /\ IF FindZone(name) = Root \/ hops = maxChain
         THEN Done(resp)
         ELSE /\ zone' = FindZone(name)
              /\ hops' = hops + 1
              /\ pc' = "lookup"
              /\ UNCHANGED <<qtype, name, encloser, todo, seen, resp>>
    /\ UNCHANGED db

\* addGlue: the addresses of one target.
Glue(t) ==
    LET found == {r \in At(zone, t) : r.type \in Addresses}
    IN  /\ pc = "glue"
        /\ seen < maxAdditional
        /\ t \in todo
        /\ todo' = todo \ {t}
        /\ seen' = seen + 1
        /\ \E got \in {found, {}} :   \* {}: the lookup failed
             resp' = [resp EXCEPT !.additional = @ \cup {[owner |-> t, type |-> r.type] : r \in got}]
        /\ UNCHANGED <<db, pc, qtype, zone, name, encloser, hops>>

GlueDone ==
    /\ pc = "glue"
    /\ todo = {} \/ seen >= maxAdditional
    /\ Done(resp)
    /\ UNCHANGED db

\* Mutant of ResolverFails: what has been found so far is sent.
ResolverFailsHalfway ==
    /\ pc \in {"findZone", "lookup", "climb", "wildcard", "zoneFor"}
    /\ Done([resp EXCEPT !.rcode = "SERVFAIL"])
    /\ UNCHANGED db

\* A call of the resolver fails or the two seconds are over.
ResolverFails ==
    /\ pc \in {"findZone", "lookup", "climb", "wildcard", "zoneFor"}
    /\ Done([Empty EXCEPT !.rcode = "SERVFAIL"])
    /\ UNCHANGED db

----------------------------------------------------------------------------
(* What Store keeps true of the records, and the writes that do *)

CNAMEAlone(rs) ==
    \A r, s \in rs : r.type = "CNAME" /\ s.zone = r.zone /\ s.name = r.name => s = r

Change(r) ==
    /\ writes < MaxWrites
    /\ r.zone \in zones
    /\ \/ r \in records /\ records' = records \ {r}
       \/ r \notin records /\ records' = records \cup {r}
    /\ CNAMEAlone(records')
    /\ writes' = writes + 1
    /\ UNCHANGED <<zones, pc, locals, resp>>

DropZone(z) ==
    /\ writes < MaxWrites
    /\ z \in zones
    /\ zones' = zones \ {z}
    /\ records' = {r \in records : r.zone # z}
    /\ writes' = writes + 1
    /\ UNCHANGED <<pc, locals, resp>>

Init ==
    /\ zones \in SUBSET Zones
    /\ records \in {rs \in SUBSET {r \in Records : r.zone \in zones} : CNAMEAlone(rs)}
    /\ writes = 0
    /\ pc = "idle"
    /\ qtype = "A" /\ zone = Root /\ name = Root /\ encloser = Root
    /\ hops = 0 /\ todo = {} /\ seen = 0
    /\ resp = Empty

Step ==
    \/ FindFirstZone \/ Lookup \/ Climb \/ Wildcard \/ ZoneFor
    \/ GlueDone \/ \E t \in todo : Glue(t)

Next ==
    \/ \E what \in DOMAIN Rejected : Reject(what)
    \/ \E q \in Questions : Handle(q)
    \/ Step \/ ResolverFails
    \/ \E r \in Records : Change(r)
    \/ \E z \in Zones : DropZone(z)

Spec == Init /\ [][Next]_vars

(* The handler runs.  Nothing forces a query, a write or a failure.          *)
FairSpec == Spec /\ WF_vars(Step)

----------------------------------------------------------------------------
(* Properties *)

\* The redirection at place i of the answer: from its owner to its target.
Redirects(i) == resp.answers[i].type = "CNAME" /\ i < Len(resp.answers)

(* The answer section is one chain, however the data change while it is      *)
(* built: what follows a CNAME is at its target, or is the DNAME above it    *)
(* that was applied to it.                                                  *)
AnswersChain ==
    \A i \in DOMAIN resp.answers : Redirects(i) =>
      LET next == resp.answers[i + 1]
      IN  \A t \in resp.answers[i].targets :
            \/ next.owner = t
            \/ next.type = "DNAME" /\ inZone(t, next.owner)

(* Nothing of an answer that failed half-way is sent: a server failure is    *)
(* empty and not authoritative, unless a DNAME made the name too long.       *)
FailuresEmpty ==
    pc = "done" /\ resp.rcode = "SERVFAIL" =>
      \/ resp = [Empty EXCEPT !.rcode = "SERVFAIL"]
      \/ resp.answers # <<>> /\ Last(resp.answers).type = "DNAME"

(* An answer is whole, a chain, or a failure with nothing of one.            *)
AnswersWhole == AnswersChain /\ FailuresEmpty

\* The longest name above n that exists, or the apex: RFC 4592's closest
\* encloser.
ClosestEncloser(z, n) ==
    CHOOSE e \in Suffixes(n) :
      /\ inZone(e, z) /\ e # n /\ (e = z \/ Exists(z, e))
      /\ \A f \in Suffixes(n) \ {n} : inZone(f, z) /\ Exists(z, f) => Len(f) <= Len(e)

\* NXDOMAIN is what the data at hand call for.
NoSuchName(z, n) ==
    /\ n # z /\ ~Exists(z, n)
    /\ At(z, <<"*">> \o ClosestEncloser(z, n)) = {}

(* README: "Correct negative answers: NXDOMAIN vs NODATA (including empty    *)
(* non-terminals)": a negative answer of unchanging data says NXDOMAIN       *)
(* exactly if the name, which may be the end of a chain, neither exists nor  *)
(* is covered by a wildcard of its closest encloser.                         *)
NegativeRight ==
    writes = 0 /\ pc = "done" /\ SOA(zone) \in resp.authority =>
      (resp.rcode = "NXDOMAIN" <=> NoSuchName(zone, name))

(* A response that is neither a failure nor an authoritative one is a        *)
(* referral: it names a cut at or above the name and inside the zone, and    *)
(* the addresses it adds are of the servers it names.                        *)
ReferralsNameCuts ==
    pc = "done" /\ resp.rcode = "NOERROR" /\ ~resp.aa =>
      \E c \in resp.authority :
        /\ c.type = "NS" /\ inZone(name, c.owner)
        /\ inZone(c.owner, zone) /\ c.owner # zone
        /\ \A a \in resp.additional : a.owner \in c.targets

(* Every query is answered: chains that loop end after maxChain hops, names  *)
(* that grow at maxLabels.                                                  *)
Answered == pc # "idle" ~> pc = "done"
=============================================================================
