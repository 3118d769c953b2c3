------------------------------- MODULE Store -------------------------------
(***************************************************************************)
(* Concurrent API writes on the database: the handlers of                   *)
(* internal/api/service.go and the transactions of internal/store/zone.go   *)
(* and record.go, statement by statement, on PostgreSQL at its default      *)
(* isolation level, READ COMMITTED.                                         *)
(*                                                                         *)
(* A statement that writes a row locks it until its transaction ends and    *)
(* waits while another transaction has it; having waited, it looks at the   *)
(* row again.  A statement that only reads sees what has been committed.    *)
(* What a transaction writes is seen by others when it commits; since it    *)
(* holds the locks of the rows it writes, the new contents are computed     *)
(* here at the commit.                                                     *)
(*                                                                         *)
(* Requests are those the handlers' validation lets through.  A refusal     *)
(* that ends a call in its first statement without a lock (a zone that      *)
(* already exists, say) changes nothing and is no step.                     *)
(***************************************************************************)
EXTENDS Integers, FiniteSets

CONSTANTS
    Zones,      \* zone names
    Keys,       \* records: [zone, name, type, rdata], the unique index
    Fields,     \* SOA parameters of a zone
    Values,     \* their values; 0 in a request means "not set"
    TTLs,       \* times to live of records
    Times,      \* what now() may return
    Procs,      \* API calls under way, on any instance
    None,       \* "no such row", "not locked"
    MaxSerial   \* bound: no call that raises a serial begins once one is this high

SOA == [Fields -> Values]
Row == [soa : SOA, serial : Nat]

ASSUME StoreAssumption ==
    /\ Keys \subseteq [zone : Zones, name : STRING, type : STRING, rdata : Nat]
    /\ Values # {} /\ Values \subseteq Nat \ {0}
    /\ TTLs # {} /\ TTLs \subseteq Nat \ {0}
    /\ Times # {} /\ Times \subseteq Nat
    /\ MaxSerial \in Nat
    /\ None \notin Row /\ None \notin Procs

VARIABLES
    zones,    \* table zones
    records,  \* table records: the ttl of each record, 0 = no such row
    zlock,    \* who has locked each row of zones
    rlock,    \* who has locked each row of records, or is inserting it
    pc,       \* where each call is
    call      \* its arguments

vars == <<zones, records, zlock, rlock, pc, call>>
tables == <<zones, records>>

----------------------------------------------------------------------------
(* Rows *)

Larger(a, b) == IF a >= b THEN a ELSE b

\* Mutant of bumpSerial: the clock alone.
bumpSerialNow(serial, now) == now

\* serial = GREATEST(serial + 1, extract(epoch from now())::bigint)
bumpSerial(serial, now) == Larger(serial + 1, now)

\* Zero values keep the current setting.
orInt(v, def) == IF v = 0 THEN def ELSE v

\* UPDATE zones SET serial = ...: nothing happens to a row that is not there.
Bumped(z, now) ==
    IF zones[z] = None THEN None
    ELSE [soa |-> zones[z].soa, serial |-> bumpSerial(zones[z].serial, now)]

Present(k) == records[k] # 0

AtName(k) == {j \in Keys : j.zone = k.zone /\ j.name = k.name}
RRset(k) == {j \in AtName(k) : j.type = k.type}
OfZone(z) == {k \in Keys : k.zone = z}

----------------------------------------------------------------------------
(* Calls and transactions *)

PCs == {"idle", "createBump", "createCheck", "createInsert", "createTTL",
        "deleteRow", "deleteBump", "deleteCommit",
        "dropZone", "dropCascade", "updateZone"}

Args(zone, keys, ttl, now, set, soa) ==
    [zone |-> zone, keys |-> keys, ttl |-> ttl, now |-> now, set |-> set, soa |-> soa]

NoArgs == Args(None, {}, 0, 0, {}, {})

Begin(p, at, args) ==
    /\ pc[p] = "idle"
    /\ pc' = [pc EXCEPT ![p] = at]
    /\ call' = [call EXCEPT ![p] = args]
    /\ UNCHANGED <<tables, zlock, rlock>>

Goto(p, at) ==
    /\ pc' = [pc EXCEPT ![p] = at]
    /\ UNCHANGED call

\* The transaction ends, by Commit or by the deferred Rollback: its locks go,
\* and the handler returns.
End(p) ==
    /\ pc' = [pc EXCEPT ![p] = "idle"]
    /\ call' = [call EXCEPT ![p] = NoArgs]
    /\ zlock' = [z \in Zones |-> IF zlock[z] = p THEN None ELSE zlock[z]]
    /\ rlock' = [k \in Keys |-> IF rlock[k] = p THEN None ELSE rlock[k]]

Rollback(p) == End(p) /\ UNCHANGED tables

LockZone(p, z) ==
    /\ zlock' = [zlock EXCEPT ![z] = p]
    /\ UNCHANGED <<tables, rlock>>

LockRecord(p, k) ==
    /\ rlock' = [rlock EXCEPT ![k] = p]
    /\ UNCHANGED <<tables, zlock>>

\* The record of a call on records.
Key(p) == CHOOSE k \in call[p].keys : TRUE

----------------------------------------------------------------------------
(* CreateRecord *)

CreateRecord(p, k, ttl, now) ==
    Begin(p, "createBump", Args(k.zone, {k}, ttl, now, {}, {}))

\* Mutant of CreateBump: the serial is read and not yet written, so that the
\* row is not locked.
CreateBumpUnlocked(p) ==
    LET z == call[p].zone
    IN  /\ pc[p] = "createBump"
        /\ IF zones[z] = None
             THEN Rollback(p)
             ELSE Goto(p, "createCheck") /\ UNCHANGED <<tables, zlock, rlock>>

\* Mutant of CreateBump: a row that is not there is waited for.
CreateBumpWaits(p) ==
    LET z == call[p].zone
    IN  /\ pc[p] = "createBump"
        /\ zlock[z] = None /\ zones[z] # None
        /\ LockZone(p, z) /\ Goto(p, "createCheck")

\* UPDATE zones SET serial = ...; ErrNotFound if there is no such row.
CreateBump(p) ==
    LET z == call[p].zone
    IN  /\ pc[p] = "createBump"
        /\ zlock[z] = None
        /\ IF zones[z] = None
             THEN Rollback(p)
             ELSE LockZone(p, z) /\ Goto(p, "createCheck")

\* What CreateRecord refuses: a CNAME at the apex or beside other data, and
\* other data beside a CNAME.
Conflicts(k) ==
    LET there == {j \in AtName(k) : Present(j)}
    IN  IF k.type = "CNAME"
          THEN k.name = k.zone \/ \E j \in there : j.type # "CNAME" \/ j.rdata # k.rdata
          ELSE \E j \in there : j.type = "CNAME"

CreateCheck(p) ==
    /\ pc[p] = "createCheck"
    /\ IF Conflicts(Key(p))
         THEN Rollback(p)
         ELSE Goto(p, "createInsert") /\ UNCHANGED <<tables, zlock, rlock>>

\* INSERT ... ON CONFLICT DO UPDATE SET ttl
CreateInsert(p) ==
    /\ pc[p] = "createInsert"
    /\ rlock[Key(p)] = None
    /\ LockRecord(p, Key(p))
    /\ Goto(p, "createTTL")

\* Mutant of OtherTTL: the rest of the RRset is left alone.
OtherTTLNone(p) == {}

\* The rows UPDATE records SET ttl ... WHERE ttl <> $4 has yet to lock.
OtherTTL(p) ==
    {j \in RRset(Key(p)) : Present(j) /\ records[j] # call[p].ttl /\ rlock[j] # p}

CreateSetTTL(p, j) ==
    /\ pc[p] = "createTTL"
    /\ j \in OtherTTL(p)
    /\ rlock[j] = None
    /\ LockRecord(p, j)
    /\ UNCHANGED <<pc, call>>

CreateCommit(p) ==
    LET z == call[p].zone
    IN  /\ pc[p] = "createTTL"
        /\ OtherTTL(p) = {}
        /\ zones' = [zones EXCEPT ![z] = Bumped(z, call[p].now)]
        /\ records' = [k \in Keys |-> IF rlock[k] = p THEN call[p].ttl ELSE records[k]]
        /\ End(p)

----------------------------------------------------------------------------
(* DeleteRecord *)

DeleteRecord(p, k, now) ==
    Begin(p, "deleteRow", Args(k.zone, {k}, 0, now, {}, {}))

\* DELETE FROM records; ErrNotFound if no row matches.
DeleteRow(p) ==
    /\ pc[p] = "deleteRow"
    /\ \/ ~Present(Key(p)) /\ Rollback(p)
       \/ /\ Present(Key(p)) /\ rlock[Key(p)] = None
          /\ LockRecord(p, Key(p))
          /\ Goto(p, "deleteBump")

\* UPDATE zones SET serial = ...; the number of rows is not looked at.
DeleteBump(p) ==
    LET z == call[p].zone
    IN  /\ pc[p] = "deleteBump"
        /\ zlock[z] = None
        /\ zlock' = [zlock EXCEPT ![z] = IF zones[z] = None THEN None ELSE p]
        /\ Goto(p, "deleteCommit")
        /\ UNCHANGED <<tables, rlock>>

DeleteCommit(p) ==
    LET z == call[p].zone
    IN  /\ pc[p] = "deleteCommit"
        /\ zones' = [zones EXCEPT ![z] = IF zlock[z] = p THEN Bumped(z, call[p].now) ELSE @]
        /\ records' = [k \in Keys |-> IF rlock[k] = p THEN 0 ELSE records[k]]
        /\ End(p)

----------------------------------------------------------------------------
(* Zones *)

\* A single INSERT.
CreateZone(p, z, soa, now) ==
    /\ pc[p] = "idle"
    /\ zones[z] = None
    /\ zones' = [zones EXCEPT ![z] = [soa |-> soa, serial |-> now]]
    /\ UNCHANGED <<records, zlock, rlock, pc, call>>

\* UpdateZone of the service reads the row and fills in what the request set...
GetZone(p, z, set, req, now) ==
    /\ zones[z] # None
    /\ Begin(p, "updateZone",
             Args(z, {}, 0, now, set,
                  [f \in Fields |-> orInt(IF f \in set THEN req ELSE 0, zones[z].soa[f])]))

\* ...and then writes all of it with a single UPDATE.
UpdateZone(p) ==
    LET z == call[p].zone
    IN  /\ pc[p] = "updateZone"
        /\ zlock[z] = None
        /\ zones' = [zones EXCEPT ![z] =
                       IF zones[z] = None THEN None
                       ELSE [soa    |-> call[p].soa,
                             serial |-> bumpSerial(zones[z].serial, call[p].now)]]
        /\ UNCHANGED records
        /\ End(p)

DeleteZone(p, z) == Begin(p, "dropZone", Args(z, {}, 0, 0, {}, {}))

\* DELETE FROM zones locks the row; ErrNotFound if there is none.
DropZone(p) ==
    LET z == call[p].zone
    IN  /\ pc[p] = "dropZone"
        /\ zlock[z] = None
        /\ IF zones[z] = None
             THEN Rollback(p)
             ELSE LockZone(p, z) /\ Goto(p, "dropCascade")

\* Mutant of LeftToDrop: a schema without ON DELETE CASCADE.
LeftToDropNone(p) == {}

\* ON DELETE CASCADE goes on to the zone's records, row by row.
LeftToDrop(p) == {k \in OfZone(call[p].zone) : Present(k) /\ rlock[k] # p}

DropCascade(p, k) ==
    /\ pc[p] = "dropCascade"
    /\ k \in LeftToDrop(p)
    /\ rlock[k] = None
    /\ LockRecord(p, k)
    /\ UNCHANGED <<pc, call>>

DropCommit(p) ==
    /\ pc[p] = "dropCascade"
    /\ LeftToDrop(p) = {}
    /\ zones' = [zones EXCEPT ![call[p].zone] = None]
    /\ records' = [k \in Keys |-> IF rlock[k] = p THEN 0 ELSE records[k]]
    /\ End(p)

----------------------------------------------------------------------------
(* Failures *)

\* A statement fails, the caller goes away, or the instance crashes: the
\* transaction is rolled back.
Abort(p) == pc[p] # "idle" /\ Rollback(p)

\* p waits for a row that q has locked.
Waits(p, q) ==
    \/ /\ pc[p] \in {"createBump", "deleteBump", "dropZone", "updateZone"}
       /\ zlock[call[p].zone] = q
    \/ /\ pc[p] = "createInsert" /\ rlock[Key(p)] = q
    \/ /\ pc[p] = "deleteRow" /\ Present(Key(p)) /\ rlock[Key(p)] = q
    \/ /\ pc[p] = "createTTL" /\ \E j \in OtherTTL(p) : rlock[j] = q
    \/ /\ pc[p] = "dropCascade" /\ \E k \in LeftToDrop(p) : rlock[k] = q

\* PostgreSQL's deadlock detector fails one of a cycle of waiting transactions.
DeadlockDetected(p) ==
    /\ \E D \in SUBSET Procs :
         /\ p \in D
         /\ \A q \in D : (\E r \in D : Waits(q, r)) /\ (\E r \in D : Waits(r, q))
    /\ Rollback(p)

----------------------------------------------------------------------------
(* What the tables promise *)

(* README: "CNAME exclusivity is enforced".  Whatever calls run at once, a   *)
(* CNAME is never at an apex and never beside another record of its name:    *)
(* the check of CreateRecord reads committed rows only, and is right because *)
(* the zone's row is locked first.                                          *)
CNAMEExclusive ==
    \A k \in Keys : Present(k) /\ k.type = "CNAME" =>
      /\ k.name # k.zone
      /\ \A j \in AtName(k) : Present(j) => j = k

(* README: "RRset TTLs stay consistent": the records of one name and type    *)
(* have one TTL.                                                            *)
TTLsConsistent ==
    \A k \in Keys : \A j \in RRset(k) : Present(k) /\ Present(j) => records[j] = records[k]

(* No record outlives its zone or is created without it: CreateRecord's      *)
(* row count and lock do what the foreign key would otherwise refuse.        *)
NoOrphans ==
    \A k \in Keys : Present(k) => zones[k.zone] # None

(* README: "Validated writes: ... CNAME exclusivity is enforced, RRset TTLs  *)
(* stay consistent", and every record has its zone, after every commit.      *)
Consistent == CNAMEExclusive /\ TTLsConsistent /\ NoOrphans

----------------------------------------------------------------------------
\* The tables hold what earlier calls have left there.
Init ==
    /\ zones \in [Zones -> {None} \cup [soa : SOA, serial : {0}]]
    /\ records \in [Keys -> TTLs \cup {0}]
    /\ CNAMEExclusive /\ TTLsConsistent /\ NoOrphans
    /\ zlock = [z \in Zones |-> None]
    /\ rlock = [k \in Keys |-> None]
    /\ pc = [p \in Procs |-> "idle"]
    /\ call = [p \in Procs |-> NoArgs]

SerialsBounded == \A z \in Zones : zones[z] # None => zones[z].serial < MaxSerial

Call(p) ==
    \/ /\ SerialsBounded
       /\ \E now \in Times :
            \/ \E k \in Keys, ttl \in TTLs : CreateRecord(p, k, ttl, now)
            \/ \E k \in Keys : DeleteRecord(p, k, now)
            \/ \E z \in Zones, set \in SUBSET Fields, v \in Values : GetZone(p, z, set, v, now)
    \/ \E z \in Zones, soa \in SOA, now \in Times : CreateZone(p, z, soa, now)
    \/ \E z \in Zones : DeleteZone(p, z)

Step(p) ==
    \/ CreateBump(p) \/ CreateCheck(p) \/ CreateInsert(p) \/ CreateCommit(p)
    \/ DeleteRow(p) \/ DeleteBump(p) \/ DeleteCommit(p)
    \/ UpdateZone(p)
    \/ DropZone(p) \/ DropCommit(p)
    \/ \E k \in Keys : CreateSetTTL(p, k) \/ DropCascade(p, k)

Next == \E p \in Procs : Call(p) \/ Step(p) \/ Abort(p) \/ DeadlockDetected(p)

Spec == Init /\ [][Next]_vars

(* Statements complete, PostgreSQL hands a lock to those that wait for it in *)
(* turn, and its deadlock detector runs.  Nothing forces a call to begin or  *)
(* to fail.                                                                *)
FairSpec ==
    /\ Spec
    /\ \A p \in Procs : SF_vars(Step(p)) /\ WF_vars(DeadlockDetected(p))

----------------------------------------------------------------------------
(* Properties *)

(* Every variable keeps its type; in particular no SOA parameter of a zone   *)
(* becomes zero, the value of a request that leaves it unset.                *)
TypeOK ==
    /\ zones \in [Zones -> Row \cup {None}]
    /\ records \in [Keys -> TTLs \cup {0}]
    /\ zlock \in [Zones -> Procs \cup {None}]
    /\ rlock \in [Keys -> Procs \cup {None}]
    /\ pc \in [Procs -> PCs]
    /\ DOMAIN call = Procs

(* README: "the zone serial advances on every change": of the zone's SOA     *)
(* parameters or of any of its records, whatever the database's clock says.  *)
SerialAdvances ==
    [][\A z \in Zones :
         /\ zones[z] # None /\ zones'[z] # None
         /\ zones[z] # zones'[z] \/ \E k \in OfZone(z) : records'[k] # records[k]
         => zones'[z].serial > zones[z].serial]_vars

(* Every call returns, although DeleteRecord locks the record and then the   *)
(* zone, and CreateRecord and DeleteZone the zone and then records.          *)
CallsReturn == \A p \in Procs : pc[p] # "idle" ~> pc[p] = "idle"

(* README: UpdateZone: "zero values keep the current setting": what a        *)
(* request does not set is after the UPDATE as it was before it.             *)
UnsetFieldsKept ==
    [][\A p \in Procs : \A z \in Zones :
         pc[p] = "updateZone" /\ zones'[z] # zones[z] /\ pc'[p] = "idle" =>
           \A f \in Fields \ call[p].set : zones'[z].soa[f] = zones[z].soa[f]]_vars
=============================================================================
