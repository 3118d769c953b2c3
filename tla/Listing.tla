------------------------------- MODULE Listing -------------------------------
(***************************************************************************)
(* Listings a page at a time while others write: ListRecords and ListZones  *)
(* of internal/store and internal/api/service.go, and the loops around      *)
(* them in `record list` and `zone list` of cmd/sharddns/main.go.           *)
(*                                                                         *)
(* A row is the key its listing is ordered by: the id of a record, given    *)
(* out by the sequence of the table, or the place of a zone's name in the   *)
(* order of names.  Of the transactions that write (see Store) there is     *)
(* what decides when a key is given out and when it can be seen.            *)
(***************************************************************************)
EXTENDS Integers, Sequences, FiniteSets, Functions

CONSTANTS
    Creators,         \* calls of CreateRecord under way
    Names,            \* zones that may exist, by their place in the order
    Sizes,            \* page sizes a client may ask for
    defaultPageSize,  \* 100
    maxPageSize,      \* 1000
    MaxID,            \* bound: ids given out
    MaxDeletes,       \* bound: deletions
    None

ASSUME ListingAssumption ==
    /\ None \notin Creators
    /\ Names \subseteq Nat \ {0} /\ Sizes \subseteq Int
    /\ defaultPageSize \in Nat \ {0} /\ maxPageSize \in Nat \ {0}
    /\ defaultPageSize <= maxPageSize
    /\ MaxID \in Nat /\ MaxDeletes \in Nat

VARIABLES
    kind,     \* "records" of one zone, or "zones"
    zone,     \* the zone is there
    zlock,    \* who has locked its row
    rows,     \* the committed keys
    lastID,   \* of the sequence
    cpc, cid, \* the creators, and the id each has inserted
    deletes,  \* so far
    lpc,      \* where the client's loop is
    limit,    \* the page size the service makes of what was asked
    token,    \* the page token, 0 for ""
    got,      \* what the client has been given
    stayed    \* ghost: keys that were there all the time since the loop began

writers == <<zone, zlock, rows, lastID, cpc, cid, deletes>>
client == <<lpc, limit, token, got>>
vars == <<kind, writers, client, stayed>>

----------------------------------------------------------------------------
(* Writers *)

\* Mutant of LockZone: the serial is raised last, as DeleteRecord does.
LockZoneLast(c) ==
    /\ kind = "records" /\ zone
    /\ cpc[c] = "idle"
    /\ cpc' = [cpc EXCEPT ![c] = "locked"]
    /\ UNCHANGED <<kind, zone, zlock, rows, lastID, cid, deletes, client, stayed>>

\* CreateRecord raises the serial of the zone, which locks its row ...
LockZone(c) ==
    /\ kind = "records" /\ zone
    /\ cpc[c] = "idle"
    /\ zlock = None
    /\ zlock' = c
    /\ cpc' = [cpc EXCEPT ![c] = "locked"]
    /\ UNCHANGED <<kind, zone, rows, lastID, cid, deletes, client, stayed>>

\* ... inserts, which takes an id even if the record is there already ...
Insert(c) ==
    /\ cpc[c] = "locked"
    /\ lastID < MaxID
    /\ lastID' = lastID + 1
    /\ \E id \in {lastID + 1} \cup rows : cid' = [cid EXCEPT ![c] = id]
    /\ cpc' = [cpc EXCEPT ![c] = "inserted"]
    /\ UNCHANGED <<kind, zone, zlock, rows, deletes, client, stayed>>

\* ... and commits or rolls back.
EndCreate(c) ==
    /\ cpc[c] # "idle"
    /\ \/ cpc[c] = "inserted" /\ rows' = rows \cup {cid[c]}
       \/ UNCHANGED rows
    /\ zlock' = IF zlock = c THEN None ELSE zlock
    /\ cpc' = [cpc EXCEPT ![c] = "idle"]
    /\ cid' = [cid EXCEPT ![c] = 0]
    /\ UNCHANGED <<kind, zone, lastID, deletes, client, stayed>>

\* DeleteRecord commits, having waited for the row of the zone.
DeleteRecord(r) ==
    /\ kind = "records" /\ zlock = None
    /\ deletes < MaxDeletes
    /\ deletes' = deletes + 1
    /\ rows' = rows \ {r}
    /\ stayed' = stayed \ {r}
    /\ UNCHANGED <<kind, zone, zlock, lastID, cpc, cid, client>>

\* DeleteZone of the zone that is listed, with its records, and CreateZone.
DropZone ==
    /\ kind = "records" /\ zone /\ zlock = None
    /\ deletes < MaxDeletes
    /\ deletes' = deletes + 1
    /\ zone' = FALSE /\ rows' = {} /\ stayed' = {}
    /\ UNCHANGED <<kind, zlock, lastID, cpc, cid, client>>

MakeZone ==
    /\ ~zone
    /\ zone' = TRUE
    /\ UNCHANGED <<kind, zlock, rows, lastID, cpc, cid, deletes, client, stayed>>

CreateZone(n) ==
    /\ kind = "zones" /\ n \notin rows
    /\ rows' = rows \cup {n}
    /\ UNCHANGED <<kind, zone, zlock, lastID, cpc, cid, deletes, client, stayed>>

DeleteZone(n) ==
    /\ kind = "zones" /\ n \in rows
    /\ deletes < MaxDeletes
    /\ deletes' = deletes + 1
    /\ rows' = rows \ {n}
    /\ stayed' = stayed \ {n}
    /\ UNCHANGED <<kind, zone, zlock, lastID, cpc, cid, client>>

----------------------------------------------------------------------------
(* The client and the service *)

\* Mutant of pageSize: no limit.
pageSizeAny(n) == IF n <= 0 THEN defaultPageSize ELSE n

pageSize(n) ==
    IF n <= 0 THEN defaultPageSize ELSE IF n > maxPageSize THEN maxPageSize ELSE n

\* The place of a key in the order of a set of keys.
Place(r, keys) == Cardinality({q \in keys : q <= r})

\* WHERE key > after ORDER BY key LIMIT n
Select(after, n) ==
    LET keys == {r \in rows : r > after}
        size == Cardinality(keys)
    IN  [i \in 1 .. (IF size < n THEN size ELSE n) |-> CHOOSE r \in keys : Place(r, keys) = i]

\* Mutants of Page: the token is the first key left out; the last key of the
\* page before is asked for again.
PageSkips(after, n) ==
    LET s == Select(after, n + 1)
    IN  IF Len(s) > n THEN [rows |-> SubSeq(s, 1, n), next |-> s[n + 1]]
        ELSE [rows |-> s, next |-> 0]

PageRepeats(after, n) ==
    LET s == Select(after - 1, n + 1)
    IN  IF Len(s) > n THEN [rows |-> SubSeq(s, 1, n), next |-> s[n]]
        ELSE [rows |-> s, next |-> 0]

\* One row more than the page tells whether there is a next page.
Page(after, n) ==
    LET s == Select(after, n + 1)
    IN  IF Len(s) > n THEN [rows |-> SubSeq(s, 1, n), next |-> s[n]]
        ELSE [rows |-> s, next |-> 0]

BeginList(n) ==
    /\ lpc = "idle"
    /\ lpc' = IF kind = "records" THEN "getZone" ELSE "page"
    /\ limit' = pageSize(n)
    /\ stayed' = rows
    /\ UNCHANGED <<kind, writers, token, got>>

\* Mutant of GetZone: the client asks again until the zone is there.
GetZoneAgain ==
    /\ lpc = "getZone"
    /\ lpc' = IF zone THEN "page" ELSE "getZone"
    /\ UNCHANGED <<kind, writers, limit, token, got, stayed>>

\* The service looks for the zone before each page; the client gives up if it
\* is not there.
GetZone ==
    /\ lpc = "getZone"
    /\ lpc' = IF zone THEN "page" ELSE "died"
    /\ UNCHANGED <<kind, writers, limit, token, got, stayed>>

ReadPage ==
    LET page == Page(token, limit)
    IN  /\ lpc = "page"
        /\ got' = got \o page.rows
        /\ token' = page.next
        /\ lpc' = IF page.next = 0 THEN "done"
                  ELSE IF kind = "records" THEN "getZone" ELSE "page"
        /\ UNCHANGED <<kind, writers, limit, stayed>>

Init ==
    /\ kind \in {"records", "zones"}
    /\ zone = TRUE /\ zlock = None
    /\ rows = {} /\ lastID = 0
    /\ cpc = [c \in Creators |-> "idle"] /\ cid = [c \in Creators |-> 0]
    /\ deletes = 0
    /\ lpc = "idle" /\ limit = 0 /\ token = 0 /\ got = <<>>
    /\ stayed = {}

Write ==
    \/ \E c \in Creators : LockZone(c) \/ Insert(c) \/ EndCreate(c)
    \/ \E r \in rows : DeleteRecord(r) \/ DeleteZone(r)
    \/ DropZone \/ MakeZone
    \/ \E n \in Names : CreateZone(n)

List == GetZone \/ ReadPage

Next == Write \/ List \/ \E n \in Sizes : BeginList(n)

\* The client goes on with its loop; nobody has to write.
Spec == Init /\ [][Next]_vars
FairSpec == Spec /\ WF_vars(List)

----------------------------------------------------------------------------
(* Properties *)

\* The type invariant; a page is never empty by its size, nor over the limit.
TypeOK ==
    /\ kind \in {"records", "zones"} /\ zone \in BOOLEAN
    /\ zlock \in Creators \cup {None}
    /\ rows \subseteq (1 .. MaxID) \cup Names /\ lastID \in 0 .. MaxID
    /\ cpc \in [Creators -> {"idle", "locked", "inserted"}]
    /\ cid \in [Creators -> 0 .. MaxID]
    /\ deletes \in 0 .. MaxDeletes
    /\ lpc \in {"idle", "getZone", "page", "done", "died"}
    /\ lpc # "idle" => limit \in 1 .. maxPageSize
    /\ token \in {0} \cup (1 .. MaxID) \cup Names
    /\ stayed \subseteq rows

\* Keys come in order and none twice, across pages and whatever is written
\* between two of them; and what was there from the first page to the last is
\* listed.
ListedOnce ==
    /\ \A i, j \in DOMAIN got : i < j => got[i] < got[j]
    /\ lpc = "done" => stayed \subseteq Range(got)

\* More is true of records: when the last page is read, all records there are
\* at that moment have been listed, those created meanwhile included.  It rests
\* on CreateRecord locking the zone's row before the insert takes an id: ids of
\* one zone become visible in their order.
EndsComplete == [][lpc' = "done" /\ lpc # "done" /\ kind = "records"
                     => rows \subseteq Range(got')]_vars

\* The loop of the client ends, whether the zone stays or goes, once no more is
\* created (MaxID): who creates for ever ahead of the token keeps it going.
ListingEnds == lpc \in {"getZone", "page"} ~> lpc \in {"done", "died"}
=============================================================================
