--------------------------- MODULE CachedResolver ---------------------------
(***************************************************************************)
(* One instance: lookups through CachedResolver (internal/store/cached.go)  *)
(* over the two queries of Store, against API writes that commit to the     *)
(* database and then invalidate (internal/api/service.go, the notify        *)
(* closure of cmd/sharddnsd/main.go).                                       *)
(*                                                                         *)
(* A name is its sequence of labels, leftmost first.  The database is a row *)
(* version per zone and the content of the records at each name of a zone.  *)
(* Store.tla has what happens inside a transaction; here a write takes      *)
(* effect in one step, its commit.  Cache.tla has the steps inside          *)
(* cache.Set; here the test under the lock and the store are two steps,     *)
(* and every key has a shard of its own.                                   *)
(***************************************************************************)
EXTENDS Integers, Sequences, FiniteSets

CONSTANTS
    Zones,       \* zone names that may be created
    Names,       \* names looked up and written
    QNames,      \* the names FindZone is called with
    Lookups,     \* goroutines that resolve queries
    Writers,     \* goroutines that serve API writes
    None,        \* "not in the cache"
    expiring,    \* CACHE_TTL > 0
    MaxContent,  \* bound: distinct contents of a name
    MaxWrites,   \* bound: commits in a behaviour
    MaxDots      \* bound: trailing dots a request spells a zone with

ASSUME ResolverAssumption ==
    /\ Zones \subseteq Names /\ QNames \subseteq Names
    /\ Names \subseteq Seq(STRING) \ {<<>>}
    /\ \A n \in Names : \A i \in 1 .. Len(n) : SubSeq(n, i, Len(n)) \in Names
    /\ QNames # {}
    /\ expiring \in BOOLEAN
    /\ MaxContent \in Nat /\ MaxWrites \in Nat /\ MaxDots \in Nat
    /\ Lookups \cap Writers = {}

----------------------------------------------------------------------------
(* Names and keys *)

\* The name and what is left of it as labels are stripped from the left, as
\* FindZone and Invalidate do: the candidates of FindZone.
Candidates == [n \in Names |-> {SubSeq(n, i, Len(n)) : i \in 1 .. Len(n)}]

\* The names from n up to the apex of its zone z.
PathToApex(z, n) == {a \in Candidates[n] : z \in Candidates[a]}

\* A cache key: which cache, the group it is stored under, and the name.
ZoneKey(q) == <<"zones", <<>>, q>>
NameKey(z, n) == <<"names", z, n>>

ZoneKeys == {ZoneKey(q) : q \in QNames}
NameKeys == {k \in {"names"} \X Zones \X Names : k[2] \in Candidates[k[3]]}
Keys == ZoneKeys \cup NameKeys
Caches == {"zones", "names"}
AnyKey == CHOOSE k \in Keys : TRUE

NoValue == <<0, FALSE>>

VARIABLES
    zones,    \* table zones: the version of each row, 0 = no such row
    records,  \* table records: the content at each name of each zone, 0 = none
    writes,   \* commits so far
    cache,    \* both caches: key -> value or None
    epoch,    \* the epoch of each cache
    lpc,      \* where each lookup is
    lkey,     \* the key it looks up
    lmark,    \* the epoch it read
    lval,     \* the value it loaded
    wpc,      \* where each writer is
    wev,      \* the change it notifies of
    wtodo     \* the keys its Clear or DeleteGroup has yet to visit

db == <<zones, records, writes>>
lookupVars == <<lpc, lkey, lmark, lval>>
writerVars == <<wpc, wev, wtodo>>
vars == <<db, cache, epoch, lookupVars, writerVars>>

----------------------------------------------------------------------------
(* What the database answers *)

\* Store.FindZone: the row of the longest candidate that is a zone.
FindZone(q) ==
    LET found == {z \in Zones \cap Candidates[q] : zones[z] # 0}
        best  == CHOOSE z \in found : \A y \in found : Len(y) <= Len(z)
    IN  IF found = {} THEN <<<<>>, 0>> ELSE <<best, zones[best]>>

\* The second query of Store.LookupName: are there records below the name?
HasChildren(z, n) ==
    \E c \in Names : /\ c # n /\ n \in Candidates[c]
                     /\ NameKey(z, c) \in NameKeys /\ records[NameKey(z, c)] # 0

\* Store.LookupName, if both queries see the same database.
LookupName(k) ==
    IF records[k] # 0 THEN <<records[k], FALSE>> ELSE <<0, HasChildren(k[2], k[3])>>

View(k) == IF k \in ZoneKeys THEN FindZone(k[3]) ELSE LookupName(k)

----------------------------------------------------------------------------
(* Lookups: CachedResolver.FindZone and LookupName *)

InFlight == {"lead", "query", "kids", "set", "put"}

Leads(l, k) == lpc[l] \in InFlight /\ lkey[l] = k

\* Mutant of Finish: those who joined the flight are not woken.
FinishAlone(l) ==
    /\ lpc' = [lpc EXCEPT ![l] = "idle"]
    /\ lkey' = [lkey EXCEPT ![l] = AnyKey]
    /\ lmark' = [lmark EXCEPT ![l] = 0]
    /\ lval' = [lval EXCEPT ![l] = NoValue]

\* singleflight.Do returns: to the leader and to all who joined it.
Finish(l) ==
    LET Done(x) == x = l \/ (lpc[x] = "wait" /\ lkey[x] = lkey[l])
    IN  /\ lpc' = [x \in Lookups |-> IF Done(x) THEN "idle" ELSE lpc[x]]
        /\ lkey' = [x \in Lookups |-> IF Done(x) THEN AnyKey ELSE lkey[x]]
        /\ lmark' = [lmark EXCEPT ![l] = 0]
        /\ lval' = [lval EXCEPT ![l] = NoValue]

\* Get finds the key: the lookup returns at once.
Hit(l, k) ==
    /\ lpc[l] = "idle"
    /\ cache[k] # None
    /\ UNCHANGED vars

Miss(l, k) ==
    /\ lpc[l] = "idle"
    /\ cache[k] = None
    /\ lpc' = [lpc EXCEPT ![l] = "do"]
    /\ lkey' = [lkey EXCEPT ![l] = k]
    /\ UNCHANGED <<db, cache, epoch, lmark, lval, writerVars>>

\* group.Do: join the flight for this key if there is one, else start it.
Do(l) ==
    /\ lpc[l] = "do"
    /\ lpc' = [lpc EXCEPT ![l] =
                 IF \E x \in Lookups : Leads(x, lkey[l]) THEN "wait" ELSE "lead"]
    /\ UNCHANGED <<db, cache, epoch, lkey, lmark, lval, writerVars>>

ReadEpoch(l) ==
    /\ lpc[l] = "lead"
    /\ lpc' = [lpc EXCEPT ![l] = "query"]
    /\ lmark' = [lmark EXCEPT ![l] = epoch[lkey[l][1]]]
    /\ UNCHANGED <<db, cache, epoch, lkey, lval, writerVars>>

\* c.next.FindZone, or the first query of c.next.LookupName.
Query(l) ==
    LET k == lkey[l]
        more == k \in NameKeys /\ records[k] = 0
    IN  /\ lpc[l] = "query"
        /\ lpc' = [lpc EXCEPT ![l] = IF more THEN "kids" ELSE "set"]
        /\ lval' = [lval EXCEPT ![l] = IF more THEN NoValue ELSE View(k)]
        /\ UNCHANGED <<db, cache, epoch, lkey, lmark, writerVars>>

\* The second query of LookupName: a statement, and a snapshot, of its own.
QueryChildren(l) ==
    LET k == lkey[l]
    IN  /\ lpc[l] = "kids"
        /\ lpc' = [lpc EXCEPT ![l] = "set"]
        /\ lval' = [lval EXCEPT ![l] = <<0, HasChildren(k[2], k[3])>>]
        /\ UNCHANGED <<db, cache, epoch, lkey, lmark, writerVars>>

\* A query fails or the 5 s of loadContext are over: nothing is cached.
QueryFails(l) ==
    /\ lpc[l] \in {"query", "kids"}
    /\ Finish(l)
    /\ UNCHANGED <<db, cache, epoch, writerVars>>

\* Mutant of SetCheck: whatever was loaded is stored.
SetCheckOmitted(l) ==
    /\ lpc[l] = "set"
    /\ lpc' = [lpc EXCEPT ![l] = "put"]
    /\ UNCHANGED <<db, cache, epoch, lkey, lmark, lval, writerVars>>

\* cache.Set: the epoch tests, the second of them under the shard's lock.
SetCheck(l) ==
    /\ lpc[l] = "set"
    /\ IF epoch[lkey[l][1]] = lmark[l]
         THEN /\ lpc' = [lpc EXCEPT ![l] = "put"]
              /\ UNCHANGED <<lkey, lmark, lval>>
         ELSE Finish(l)
    /\ UNCHANGED <<db, cache, epoch, writerVars>>

\* cache.Set: store, evicting another key of this cache or none.
Put(l) ==
    /\ lpc[l] = "put"
    /\ \E gone \in {{}} \cup {{k} : k \in Keys} :
         cache' = [k \in Keys |->
                     IF k = lkey[l] THEN lval[l]
                     ELSE IF k \in gone /\ k[1] = lkey[l][1] THEN None ELSE cache[k]]
    /\ Finish(l)
    /\ UNCHANGED <<db, epoch, writerVars>>

\* With CACHE_TTL set, an entry's time is over: Get no longer finds it.
Expire(k) ==
    /\ expiring
    /\ cache[k] # None
    /\ cache' = [cache EXCEPT ![k] = None]
    /\ UNCHANGED <<db, epoch, lookupVars, writerVars>>

\* The shard of key k is locked by a Set in progress.
Locked(k) == \E l \in Lookups : lpc[l] = "put" /\ lkey[l] = k

----------------------------------------------------------------------------
(* Writers: an API handler commits, then notify calls Invalidate *)

NoName == <<>>
NoEvent == [zone |-> <<>>, name |-> NoName, exact |-> TRUE]

(* A write commits.  `exact` says whether the zone name the handler passes   *)
(* to notify is the zone's: every handler normalises the name it was sent,   *)
(* NormalizeZone takes one trailing dot away, and Store normalises again     *)
(* what the handler passes to it.                                          *)
Commit(w, zone, name, exact) ==
    /\ wpc[w] = "idle"
    /\ writes < MaxWrites
    /\ writes' = writes + 1
    /\ wpc' = [wpc EXCEPT ![w] = "clear"]
    /\ wev' = [wev EXCEPT ![w] = [zone |-> zone, name |-> name, exact |-> exact]]
    /\ UNCHANGED <<cache, epoch, lookupVars, wtodo>>

\* Row z of table zones changes: a new version.
Touch(z) == zones' = [zones EXCEPT ![z] = writes + 1]

CreateZone(w, z) ==
    /\ zones[z] = 0
    /\ Touch(z)
    /\ UNCHANGED records
    /\ Commit(w, z, NoName, TRUE)

UpdateZone(w, z) ==
    /\ zones[z] # 0
    /\ Touch(z)
    /\ UNCHANGED records
    /\ Commit(w, z, NoName, TRUE)

\* Store.DeleteZone deletes the row and, by ON DELETE CASCADE, its records.
DeleteZone(w, z, dots) ==
    /\ zones[z] # 0
    /\ dots <= 2
    /\ zones' = [zones EXCEPT ![z] = 0]
    /\ records' = [k \in NameKeys |-> IF k[2] = z THEN 0 ELSE records[k]]
    /\ Commit(w, z, NoName, dots <= 1)

\* A record is added or its TTL changed; the name's content may be as before.
CreateRecord(w, k, content) ==
    /\ zones[k[2]] # 0
    /\ Touch(k[2])
    /\ records' = [records EXCEPT ![k] = content]
    /\ Commit(w, k[2], k[3], TRUE)

\* One record of the name goes; others may be left.
DeleteRecord(w, k, content, dots) ==
    /\ records[k] # 0 /\ content # records[k]
    /\ dots <= 2
    /\ Touch(k[2])
    /\ records' = [records EXCEPT ![k] = content]
    /\ Commit(w, k[2], k[3], dots <= 1)

(* The sweep of Clear or DeleteGroup over the shards goes on while there are *)
(* keys to visit; after Clear comes the zone's group, or the name.           *)
SweepOn(w, at, todo) ==
    LET ev   == wev[w]
        next == IF todo # {} THEN at
                ELSE IF at = "sweepNames" THEN "idle"
                ELSE IF ev.name = NoName THEN "group" ELSE "bump"
    IN  /\ wpc' = [wpc EXCEPT ![w] = next]
        /\ wtodo' = [wtodo EXCEPT ![w] = todo]
        /\ wev' = [wev EXCEPT ![w] = IF next = "idle" THEN NoEvent ELSE ev]

(* Invalidate: zones.Clear() adds to the epoch, then visits the shards.      *)
ClearZones(w) ==
    /\ wpc[w] = "clear"
    /\ epoch' = [epoch EXCEPT !["zones"] = @ + 1]
    /\ SweepOn(w, "sweepZones", ZoneKeys)
    /\ UNCHANGED <<db, cache, lookupVars>>

\* names.DeleteGroup(zone)
DeleteGroup(w) ==
    /\ wpc[w] = "group"
    /\ epoch' = [epoch EXCEPT !["names"] = @ + 1]
    /\ SweepOn(w, "sweepNames", {k \in NameKeys : wev[w].exact /\ k[2] = wev[w].zone})
    /\ UNCHANGED <<db, cache, lookupVars>>

\* One shard of Clear or DeleteGroup.
Sweep(w, k) ==
    /\ wpc[w] \in {"sweepZones", "sweepNames"}
    /\ k \in wtodo[w]
    /\ ~Locked(k)
    /\ cache' = [cache EXCEPT ![k] = None]
    /\ SweepOn(w, wpc[w], wtodo[w] \ {k})
    /\ UNCHANGED <<db, epoch, lookupVars>>

\* Mutant of DeleteName: the key is removed, the epoch left as it is.
DeleteNameQuietly(w) ==
    /\ wpc[w] = "bump"
    /\ wpc' = [wpc EXCEPT ![w] = "delete"]
    /\ UNCHANGED <<db, cache, epoch, lookupVars, wev, wtodo>>

\* One turn of the loop of Invalidate: names.Delete adds to the epoch...
DeleteName(w) ==
    /\ wpc[w] = "bump"
    /\ epoch' = [epoch EXCEPT !["names"] = @ + 1]
    /\ wpc' = [wpc EXCEPT ![w] = "delete"]
    /\ UNCHANGED <<db, cache, lookupVars, wev, wtodo>>

\* Mutant of NameDeleted: the names above are not visited.
NameDeletedOnly(w) ==
    LET k == NameKey(wev[w].zone, wev[w].name)
    IN  /\ wpc[w] = "delete"
        /\ ~Locked(k)
        /\ cache' = [cache EXCEPT ![k] = None]
        /\ wpc' = [wpc EXCEPT ![w] = "idle"]
        /\ wev' = [wev EXCEPT ![w] = NoEvent]
        /\ UNCHANGED <<db, epoch, lookupVars, wtodo>>

\* ...and removes the key; then the next label is stripped, up to the apex.
NameDeleted(w) ==
    LET z == wev[w].zone
        n == wev[w].name
        k == NameKey(z, n)
    IN  /\ wpc[w] = "delete"
        /\ wev[w].exact => ~Locked(k)
        /\ cache' = [cache EXCEPT ![k] = IF wev[w].exact THEN None ELSE @]
        /\ IF n = z \/ Len(n) = 1
             THEN /\ wpc' = [wpc EXCEPT ![w] = "idle"]
                  /\ wev' = [wev EXCEPT ![w] = NoEvent]
             ELSE /\ wpc' = [wpc EXCEPT ![w] = "bump"]
                  /\ wev' = [wev EXCEPT ![w] =
                                [zone |-> z, name |-> Tail(n), exact |-> wev[w].exact]]
        /\ UNCHANGED <<db, epoch, lookupVars, wtodo>>

----------------------------------------------------------------------------
\* The caches are empty when the daemon starts; the database need not be.
Init ==
    /\ zones \in [Zones -> {0, 1}]
    /\ records \in [NameKeys -> {0, 1}]
    /\ \A k \in NameKeys : records[k] # 0 => zones[k[2]] # 0
    /\ writes = 1
    /\ cache = [k \in Keys |-> None]
    /\ epoch = [c \in Caches |-> 0]
    /\ lpc = [l \in Lookups |-> "idle"]
    /\ lkey = [l \in Lookups |-> AnyKey]
    /\ lmark = [l \in Lookups |-> 0]
    /\ lval = [l \in Lookups |-> NoValue]
    /\ wpc = [w \in Writers |-> "idle"]
    /\ wev = [w \in Writers |-> NoEvent]
    /\ wtodo = [w \in Writers |-> {}]

LookupStep(l) ==
    Do(l) \/ ReadEpoch(l) \/ Query(l) \/ QueryChildren(l) \/ SetCheck(l) \/ Put(l)

Write(w) ==
    \/ \E z \in Zones : CreateZone(w, z) \/ UpdateZone(w, z)
    \/ \E z \in Zones, d \in 0 .. MaxDots : DeleteZone(w, z, d)
    \/ \E k \in NameKeys, c \in 1 .. MaxContent : CreateRecord(w, k, c)
    \/ \E k \in NameKeys, c \in 0 .. MaxContent, d \in 0 .. MaxDots : DeleteRecord(w, k, c, d)

InvalidateStep(w) ==
    \/ ClearZones(w)
    \/ \E k \in Keys : Sweep(w, k)
    \/ DeleteGroup(w)
    \/ DeleteName(w)
    \/ NameDeleted(w)

Next ==
    \/ \E l \in Lookups : LookupStep(l) \/ QueryFails(l)
    \/ \E l \in Lookups, k \in Keys : Hit(l, k) \/ Miss(l, k)
    \/ \E w \in Writers : Write(w) \/ InvalidateStep(w)
    \/ \E k \in Keys : Expire(k)

Spec == Init /\ [][Next]_vars

(* Goroutines run; a query ends, if only by the 5 s of loadContext; a mutex  *)
(* is not denied for ever to one that waits for it.  Nothing forces a        *)
(* lookup or a write to begin, or a query to fail.                           *)
FairSpec ==
    /\ Spec
    /\ \A l \in Lookups : WF_vars(LookupStep(l))
    /\ \A w \in Writers : SF_vars(InvalidateStep(w))

----------------------------------------------------------------------------
(* Properties *)

(* Every variable keeps its type; the loop of Invalidate that strips labels  *)
(* only ever visits names between the changed name and the apex.             *)
TypeOK ==
    /\ zones \in [Zones -> 0 .. MaxWrites]
    /\ records \in [NameKeys -> 0 .. MaxContent]
    /\ writes \in 1 .. MaxWrites
    /\ DOMAIN cache = Keys
    /\ epoch \in [Caches -> Nat]
    /\ lpc \in [Lookups -> {"idle", "do", "wait"} \cup InFlight]
    /\ lkey \in [Lookups -> Keys]
    /\ lmark \in [Lookups -> Nat]
    /\ DOMAIN lval = Lookups
    /\ wpc \in [Writers -> {"idle", "clear", "sweepZones", "group", "sweepNames",
                            "bump", "delete"}]
    /\ wev \in [Writers -> [zone : Zones \cup {<<>>}, name : Names \cup {NoName},
                            exact : BOOLEAN]]
    /\ wtodo \in [Writers -> SUBSET Keys]

\* The keys of the names cache that Invalidate(zone, name) deletes.
NamesAffected(ev) ==
    {k \in NameKeys : /\ ev.exact /\ k[2] = ev.zone
                      /\ ev.name = NoName \/ k[3] \in PathToApex(ev.zone, ev.name)}

\* What the invalidation writer w has begun, or must begin, will still remove.
Pending(w) ==
    wtodo[w]
      \cup (IF wpc[w] = "clear" THEN ZoneKeys ELSE {})
      \cup (IF wpc[w] \in {"clear", "sweepZones", "group", "bump", "delete"}
              THEN NamesAffected(wev[w]) ELSE {})

Stale(k) == cache[k] # None /\ cache[k] # View(k)

(* A cached answer that is no longer the database's is about to go: the      *)
(* write that changed it has committed and its Invalidate has yet to reach   *)
(* the key.  In particular, when no write is in progress the cache agrees    *)
(* with the database, whatever lookups were under way while it changed:      *)
(* names above a record up to the apex, whose answer is whether anything     *)
(* is below them, included.                                                 *)
Coherent ==
    \A k \in Keys : Stale(k) => \E w \in Writers : k \in Pending(w)

\* The abstract cache this instance implements: what the database would
\* answer, what the cache answers, and the keys still to be invalidated.
Abstract == INSTANCE CoherentCache WITH
    truth  <- [k \in Keys |-> View(k)],
    cached <- cache,
    dirty  <- UNION {Pending(w) : w \in Writers}

(* Lookups and writes together behave as the abstract cache does: nothing    *)
(* stale enters for a key that is not being invalidated, and invalidation of *)
(* a key ends only with the key gone or right.                              *)
ImplementsCoherentCache == Abstract!Spec

(* Every lookup returns: a leader that fails or gives up its Set still wakes *)
(* those who joined its flight.                                            *)
LookupsReturn ==
    \A l \in Lookups : lpc[l] # "idle" ~> lpc[l] = "idle"

(* A stale entry does not stay: writes that go through Invalidate leave the  *)
(* cache coherent in the end, even against lookups that keep coming.         *)
StaleEntriesGo ==
    \A k \in Keys : Stale(k) ~> ~Stale(k)
=============================================================================
