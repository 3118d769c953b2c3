---------------------------- MODULE StoreProofs ----------------------------
(***************************************************************************)
(* Proofs about Store: for any zones, records and number of calls, what the *)
(* README promises of writes holds, because who checks or changes the       *)
(* records of a zone has locked the zone's row.                            *)
(***************************************************************************)
EXTENDS Store, TLAPS

\* The provers that every leaf is given to, in this order.
USE ZenonT(60), SMTT(60)

CreatePCs == {"createBump", "createCheck", "createInsert", "createTTL"}
DeletePCs == {"deleteRow", "deleteBump", "deleteCommit"}
ZonePCs == {"dropZone", "dropCascade", "updateZone"}
ZoneLocked == {"createCheck", "createInsert", "createTTL", "deleteCommit", "dropCascade"}
RecordLocked == {"createTTL", "deleteBump", "deleteCommit", "dropCascade"}

\* The arguments of a call are those it was made with.
CallInv ==
    \A p \in Procs :
      /\ pc[p] \in CreatePCs \cup DeletePCs =>
           Key(p) \in Keys /\ call[p].zone = Key(p).zone /\ call[p].now \in Times
      /\ pc[p] \in CreatePCs => call[p].ttl \in TTLs
      /\ pc[p] \in ZonePCs => call[p].zone \in Zones
      /\ pc[p] = "updateZone" => call[p].soa \in SOA /\ call[p].now \in Times

\* Who holds the row of a zone: a call past its UPDATE or DELETE of that row,
\* which found it there.
ZoneLocks ==
    /\ \A p \in Procs : pc[p] \in ZoneLocked => zlock[call[p].zone] = p
    /\ \A z \in Zones, p \in Procs :
         zlock[z] = p => pc[p] \in ZoneLocked /\ call[p].zone = z /\ zones[z] # None

\* Who holds the row of a record: the call that writes it, in its own zone.
HoldsOwn(p) ==
    /\ pc[p] \in {"createTTL", "deleteBump", "deleteCommit"} => rlock[Key(p)] = p
    /\ pc[p] \in {"deleteBump", "deleteCommit"} => Present(Key(p))

MayHold(p, k) ==
    /\ pc[p] \in RecordLocked /\ k.zone = call[p].zone
    /\ pc[p] = "createTTL" => k = Key(p) \/ (k \in RRset(Key(p)) /\ Present(k))

RecordLocks ==
    \A p \in Procs : HoldsOwn(p) /\ \A k \in Keys : rlock[k] = p => MayHold(p, k)

\* What CreateRecord has checked stays true until it commits.
Checked == \A p \in Procs : pc[p] \in {"createInsert", "createTTL"} => ~Conflicts(Key(p))

\* The inductive invariant.
IInv ==
    /\ TypeOK /\ CallInv /\ ZoneLocks /\ RecordLocks /\ Checked
    /\ CNAMEExclusive /\ TTLsConsistent /\ NoOrphans

(* "Not locked" is no call, and a record has a zone.                         *)
LEMMA Assumed == None \notin Procs /\ \A k \in Keys : k.zone \in Zones
BY StoreAssumption

(* A call whose arguments stay has the same record.                         *)
LEMMA KeyKept == ASSUME NEW p \in Procs, call'[p] = call[p] PROVE Key(p)' = Key(p)
BY DEF Key

(* What is recorded of a key tells it from every other.                     *)
LEMMA KeysDiffer ==
  ASSUME NEW j \in Keys, NEW k \in Keys, j.zone = k.zone, j.name = k.name, j.type = k.type,
         j.rdata = k.rdata
  PROVE  j = k
BY StoreAssumption, SMTT(60)

(* A serial that is raised is higher, and the zone stays.                   *)
LEMMA BumpedFacts ==
  ASSUME TypeOK, NEW z \in Zones, zones[z] # None, NEW now \in Times
  PROVE  Bumped(z, now) \in Row /\ Bumped(z, now) # None /\ Bumped(z, now).serial > zones[z].serial
<1>1. zones[z] \in Row /\ zones[z].soa \in SOA /\ zones[z].serial \in Nat
  BY DEF TypeOK, Row
<1>2. now \in Nat
  BY StoreAssumption
<1>3. bumpSerial(zones[z].serial, now) \in Nat /\ bumpSerial(zones[z].serial, now) > zones[z].serial
  BY <1>1, <1>2 DEF bumpSerial, Larger
<1>4. Bumped(z, now) = [soa |-> zones[z].soa, serial |-> bumpSerial(zones[z].serial, now)]
  BY DEF Bumped
<1>5. Bumped(z, now) \in Row /\ Bumped(z, now).serial = bumpSerial(zones[z].serial, now)
  BY <1>1, <1>3, <1>4 DEF Row
<1>6. Bumped(z, now) # None
  BY <1>5, StoreAssumption
<1> QED BY <1>3, <1>5, <1>6

(* The zone and the record of a call that holds locks on them exist.        *)
LEMMA ArgsType ==
  ASSUME CallInv, NEW p \in Procs
  PROVE  /\ pc[p] \in CreatePCs \cup DeletePCs => Key(p) \in Keys
         /\ pc[p] \in CreatePCs \cup DeletePCs \cup ZonePCs => call[p].zone \in Zones
BY StoreAssumption DEF CallInv

(* No call is under way at first, and the tables are as they should be.     *)
LEMMA InitIInv == Init => IInv
<1> SUFFICES ASSUME Init PROVE IInv
  OBVIOUS
<1>1. TypeOK
  BY StoreAssumption, SMTT(60) DEF Init, TypeOK, Row, PCs
<1>2. CallInv /\ Checked
  BY DEF Init, CallInv, Checked, CreatePCs, DeletePCs, ZonePCs
<1>3. ZoneLocks /\ RecordLocks
  BY Assumed DEF Init, ZoneLocks, RecordLocks, HoldsOwn, ZoneLocked
<1> QED BY <1>1, <1>2, <1>3 DEF IInv, Init

(* A call that begins touches no row.                                       *)
LEMMA BeginIInv ==
  ASSUME IInv, NEW p \in Procs, NEW at \in {"createBump", "deleteRow", "dropZone", "updateZone"},
         NEW args, Begin(p, at, args),
         at \in {"createBump", "deleteRow"} =>
           \E k \in Keys : args.keys = {k} /\ args.zone = k.zone /\ args.now \in Times,
         at = "createBump" => args.ttl \in TTLs,
         at \in {"dropZone", "updateZone"} => args.zone \in Zones,
         at = "updateZone" => args.soa \in SOA /\ args.now \in Times
  PROVE  IInv'
<1> USE DEF IInv, Begin, tables
<1>1. TypeOK'
  BY DEF TypeOK, PCs
<1>2. \A q \in Procs \ {p} : call'[q] = call[q] /\ pc'[q] = pc[q] /\ Key(q)' = Key(q)
  BY KeyKept DEF TypeOK
<1>3. /\ pc[p] = "idle" /\ pc'[p] = at /\ call'[p] = args
      /\ UNCHANGED <<zones, records, zlock, rlock>>
  BY DEF TypeOK
<1>4. ASSUME NEW k, args.keys = {k} PROVE Key(p)' = k
  BY <1>3, <1>4, SMTT(60) DEF Key
<1>5. CallInv'
  <2>1. ASSUME NEW q \in Procs \ {p} PROVE CallInv!(q)'
    BY <1>2, <2>1 DEF CallInv
  <2>2. CallInv!(p)'
    BY <1>3, <1>4 DEF CallInv, CreatePCs, DeletePCs, ZonePCs
  <2> QED BY <2>1, <2>2 DEF CallInv
<1>6. ZoneLocks'
  BY <1>2, <1>3, SMTT(60) DEF ZoneLocks, ZoneLocked, TypeOK
<1>7. RecordLocks'
  <2>1. ASSUME NEW q \in Procs PROVE HoldsOwn(q)'
    BY <1>2, <1>3, <2>1 DEF RecordLocks, HoldsOwn, Present
  <2>2. ASSUME NEW q \in Procs, NEW k \in Keys, rlock'[k] = q PROVE MayHold(q, k)'
    <3>1. q # p
      BY <1>3, <2>2 DEF RecordLocks, MayHold, RecordLocked
    <3> QED BY <1>2, <1>3, <2>2, <3>1, SMTT(60) DEF RecordLocks, MayHold, Present, RRset, AtName
  <2> QED BY <2>1, <2>2 DEF RecordLocks
<1>8. Checked'
  BY <1>2, <1>3, SMTT(60) DEF Checked, Conflicts, AtName, Present
<1>9. CNAMEExclusive' /\ TTLsConsistent' /\ NoOrphans'
  BY <1>3, SMTT(60) DEF CNAMEExclusive, TTLsConsistent, NoOrphans, Present, RRset, AtName
<1> QED BY <1>1, <1>5, <1>6, <1>7, <1>8, <1>9

(* A transaction that ends leaves to the others what they hold: the rows    *)
(* they have locked are as they were, and where they have locked the zone   *)
(* no record has come.                                                      *)
LEMMA EndKeeps ==
  ASSUME IInv, NEW p \in Procs, End(p),
         zones' \in [Zones -> Row \cup {None}], records' \in [Keys -> TTLs \cup {0}],
         \A z \in Zones : zlock[z] \notin {p, None} => zones'[z] # None,
         \A k \in Keys : rlock[k] \notin {p, None} => records'[k] = records[k],
         \A k \in Keys : Present(k)' /\ ~Present(k) => zlock[k.zone] = p
  PROVE  TypeOK' /\ CallInv' /\ ZoneLocks' /\ RecordLocks' /\ Checked'
<1> USE Assumed DEF IInv, End
<1>1. TypeOK'
  BY DEF TypeOK, PCs
<1>2. \A q \in Procs \ {p} : call'[q] = call[q] /\ pc'[q] = pc[q] /\ Key(q)' = Key(q)
  BY KeyKept DEF TypeOK
<1>3. pc'[p] = "idle"
  BY DEF TypeOK
<1>4. CallInv'
  BY <1>2, <1>3 DEF CallInv, CreatePCs, DeletePCs, ZonePCs
<1>5. ZoneLocks'
  <2>1. ASSUME NEW q \in Procs, pc'[q] \in ZoneLocked PROVE zlock'[call'[q].zone] = q
    <3>1. q # p /\ pc[q] \in ZoneLocked /\ call'[q] = call[q]
      BY <2>1, <1>2, <1>3 DEF ZoneLocked
    <3>2. call[q].zone \in Zones
      BY <3>1, ArgsType DEF ZoneLocked, CreatePCs, DeletePCs, ZonePCs
    <3>3. zlock[call[q].zone] = q
      BY <3>1 DEF ZoneLocks
    <3> QED BY <3>1, <3>2, <3>3
  <2>2. ASSUME NEW z \in Zones, NEW q \in Procs, zlock'[z] = q
        PROVE  pc'[q] \in ZoneLocked /\ call'[q].zone = z /\ zones'[z] # None
    <3>1. q # p /\ zlock[z] = q
      BY <2>2
    <3> QED BY <3>1, <1>2, SMTT(60) DEF ZoneLocks
  <2> QED BY <2>1, <2>2 DEF ZoneLocks
<1>6. RecordLocks'
  <2>1. ASSUME NEW q \in Procs, pc'[q] \in {"createTTL", "deleteBump", "deleteCommit"}
        PROVE  /\ rlock'[Key(q)'] = q
               /\ pc'[q] # "createTTL" => Present(Key(q))'
    <3>1. q # p /\ Key(q) \in Keys /\ rlock[Key(q)] = q /\ Key(q)' = Key(q)
      BY <1>2, <1>3, <2>1, ArgsType DEF RecordLocks, HoldsOwn, CreatePCs, DeletePCs
    <3> QED BY <1>2, <2>1, <3>1 DEF RecordLocks, HoldsOwn, Present
  <2>2. ASSUME NEW q \in Procs, NEW k \in Keys, rlock'[k] = q
        PROVE  /\ pc'[q] \in RecordLocked /\ k.zone = call'[q].zone
               /\ pc'[q] = "createTTL" =>
                    k = Key(q)' \/ (k \in RRset(Key(q))' /\ Present(k)')
    <3>1. q # p /\ rlock[k] = q /\ records'[k] = records[k]
      BY <2>2
    <3>2. Key(q)' = Key(q) /\ RRset(Key(q))' = RRset(Key(q)) /\ (Present(k)' <=> Present(k))
      BY <1>2, <3>1, SMTT(60) DEF RRset, AtName, Present
    <3> QED BY <1>2, <3>1, <3>2, SMTT(60) DEF RecordLocks, MayHold
  <2> QED BY <2>1, <2>2 DEF RecordLocks, HoldsOwn, MayHold
<1>7. ASSUME NEW q \in Procs, pc'[q] \in {"createInsert", "createTTL"} PROVE ~Conflicts(Key(q))'
  <2>1. q # p /\ ~Conflicts(Key(q)) /\ Key(q)' = Key(q) /\ Key(q) \in Keys
    BY <1>2, <1>3, <1>7 DEF Checked, CallInv, CreatePCs
  <2>2. zlock[Key(q).zone] # p
    BY <1>2, <1>7, <2>1, SMTT(60) DEF ZoneLocks, ZoneLocked, CallInv, CreatePCs
  <2>3. \A j \in AtName(Key(q)) : Present(j)' => Present(j)
    BY <2>2 DEF AtName
  <2> QED BY <2>1, <2>3 DEF Conflicts, AtName
<1> QED BY <1>1, <1>4, <1>5, <1>6, <1>7 DEF Checked

(* A rollback changes no row.                                               *)
LEMMA RollbackIInv ==
  ASSUME IInv, NEW p \in Procs, Rollback(p)
  PROVE  IInv'
<1>1. End(p) /\ zones' = zones /\ records' = records
  BY DEF Rollback, tables
<1>2. TypeOK' /\ CallInv' /\ ZoneLocks' /\ RecordLocks' /\ Checked'
  BY <1>1, EndKeeps, SMTT(60) DEF IInv, TypeOK, ZoneLocks, Present
<1>3. CNAMEExclusive' /\ TTLsConsistent' /\ NoOrphans'
  BY <1>1 DEF IInv, CNAMEExclusive, TTLsConsistent, NoOrphans, Present, RRset, AtName
<1> QED BY <1>2, <1>3 DEF IInv

(* A statement that locks a row changes no row and no argument.             *)
LEMMA NoWrite ==
  ASSUME UNCHANGED <<zones, records, call>>
  PROVE  /\ \A q \in Procs : Key(q)' = Key(q)
         /\ \A q \in Procs : (Conflicts(Key(q))' <=> Conflicts(Key(q)))
         /\ \A q \in Procs : RRset(Key(q))' = RRset(Key(q))
         /\ \A k \in Keys : (Present(k)' <=> Present(k))
         /\ \A q \in Procs : (Present(Key(q))' <=> Present(Key(q)))
         /\ CNAMEExclusive /\ TTLsConsistent /\ NoOrphans =>
              CNAMEExclusive' /\ TTLsConsistent' /\ NoOrphans'
<1>1. \A q \in Procs : Key(q)' = Key(q)
  BY DEF Key
<1>2. \A k \in Keys : (Present(k)' <=> Present(k))
  BY DEF Present
<1>3. \A q \in Procs : /\ (Conflicts(Key(q))' <=> Conflicts(Key(q)))
                       /\ RRset(Key(q))' = RRset(Key(q))
                       /\ (Present(Key(q))' <=> Present(Key(q)))
  BY <1>1 DEF Conflicts, RRset, AtName, Present
<1>4. CNAMEExclusive /\ TTLsConsistent /\ NoOrphans =>
        CNAMEExclusive' /\ TTLsConsistent' /\ NoOrphans'
  BY DEF CNAMEExclusive, TTLsConsistent, NoOrphans, RRset, AtName, Present
<1> QED BY <1>1, <1>2, <1>3, <1>4

(* Calls keep their arguments where they go on with what they were doing.    *)
LEMMA CallKept ==
  ASSUME CallInv, call' = call,
         \A q \in Procs : /\ pc'[q] \in CreatePCs => pc[q] \in CreatePCs
                          /\ pc'[q] \in DeletePCs => pc[q] \in DeletePCs
                          /\ pc'[q] \in ZonePCs => pc[q] \in ZonePCs
                          /\ pc'[q] = "updateZone" => pc[q] = "updateZone"
  PROVE  CallInv'
<1> SUFFICES ASSUME NEW q \in Procs
             PROVE  /\ pc'[q] \in CreatePCs \cup DeletePCs =>
                         Key(q)' \in Keys /\ call'[q].zone = Key(q)'.zone /\ call'[q].now \in Times
                    /\ pc'[q] \in CreatePCs => call'[q].ttl \in TTLs
                    /\ pc'[q] \in ZonePCs => call'[q].zone \in Zones
                    /\ pc'[q] = "updateZone" => call'[q].soa \in SOA /\ call'[q].now \in Times
  BY DEF CallInv
<1>1. Key(q)' = Key(q)
  BY KeyKept
<1> QED BY <1>1 DEF CallInv

(* A call that locks the row of its zone: CreateBump, DeleteBump, DropZone.   *)
LEMMA ZoneLockKeeps ==
  ASSUME IInv, NEW p \in Procs, NEW at \in {"createCheck", "deleteCommit", "dropCascade"},
         UNCHANGED <<zones, records, call, rlock>>,
         pc' = [pc EXCEPT ![p] = at],
         at = "createCheck" => pc[p] = "createBump",
         at = "deleteCommit" => pc[p] = "deleteBump",
         at = "dropCascade" => pc[p] = "dropZone",
         zlock[call[p].zone] = None, zones[call[p].zone] # None,
         zlock' = [zlock EXCEPT ![call[p].zone] = p]
  PROVE  IInv'
<1> DEFINE z == call[p].zone
<1>t. TypeOK /\ CallInv /\ ZoneLocks /\ RecordLocks /\ Checked
  BY DEF IInv
<1>1. z \in Zones
  BY <1>t, ArgsType DEF CreatePCs, DeletePCs, ZonePCs
<1>2. /\ pc'[p] = at /\ \A q \in Procs : q # p => pc'[q] = pc[q]
      /\ zlock'[z] = p /\ \A y \in Zones : y # z => zlock'[y] = zlock[y]
  BY <1>t, <1>1 DEF TypeOK
<1>3. TypeOK'
  BY <1>t, <1>1 DEF TypeOK, PCs
<1>4. CallInv'
  <2>1. \A q \in Procs : /\ pc'[q] \in CreatePCs => pc[q] \in CreatePCs
                         /\ pc'[q] \in DeletePCs => pc[q] \in DeletePCs
                         /\ pc'[q] \in ZonePCs => pc[q] \in ZonePCs
                         /\ pc'[q] = "updateZone" => pc[q] = "updateZone"
    BY <1>2 DEF CreatePCs, DeletePCs, ZonePCs
  <2> QED BY <2>1, <1>t, CallKept
<1>5. ZoneLocks'
  <2>1. ASSUME NEW q \in Procs, pc'[q] \in ZoneLocked PROVE zlock'[call[q].zone] = q
    <3>1. CASE q = p
      BY <3>1, <1>2
    <3>2. CASE q # p
      <4>1. pc[q] \in ZoneLocked /\ zlock[call[q].zone] = q
        BY <2>1, <3>2, <1>t, <1>2 DEF ZoneLocks
      <4>2. call[q].zone \in Zones /\ call[q].zone # z
        BY <4>1, <1>t, Assumed, ArgsType DEF ZoneLocked, CreatePCs, DeletePCs, ZonePCs
      <4> QED BY <4>1, <4>2, <1>2
    <3> QED BY <3>1, <3>2
  <2>2. ASSUME NEW y \in Zones, NEW q \in Procs, zlock'[y] = q
        PROVE  pc'[q] \in ZoneLocked /\ call[q].zone = y /\ zones[y] # None
    <3>1. CASE y = z
      BY <2>2, <3>1, <1>2 DEF ZoneLocked
    <3>2. CASE y # z
      <4>1. zlock[y] = q
        BY <2>2, <3>2, <1>2
      <4>2. q # p
        BY <4>1, <3>2, <1>t DEF ZoneLocks
      <4> QED BY <4>1, <4>2, <1>t, <1>2, SMTT(60) DEF ZoneLocks
    <3> QED BY <3>1, <3>2
  <2> QED BY <2>1, <2>2 DEF ZoneLocks
<1>6. RecordLocks'
  <2>1. ASSUME NEW q \in Procs PROVE HoldsOwn(q)'
    <3>1. HoldsOwn(q) /\ Key(q)' = Key(q) /\ (Present(Key(q))' <=> Present(Key(q)))
      BY <1>t, NoWrite DEF RecordLocks
    <3> QED BY <3>1, <1>2 DEF HoldsOwn
  <2>2. ASSUME NEW q \in Procs, NEW k \in Keys, rlock'[k] = q PROVE MayHold(q, k)'
    <3>1. MayHold(q, k)
      BY <2>2, <1>t DEF RecordLocks
    <3>2. /\ Key(q)' = Key(q) /\ RRset(Key(q))' = RRset(Key(q)) /\ (Present(k)' <=> Present(k))
      BY NoWrite
    <3> QED BY <3>1, <3>2, <1>2 DEF MayHold, RecordLocked
  <2> QED BY <2>1, <2>2 DEF RecordLocks
<1>7. Checked'
  <2>1. \A q \in Procs : (Conflicts(Key(q))' <=> Conflicts(Key(q)))
    BY NoWrite
  <2> QED BY <2>1, <1>t, <1>2 DEF Checked
<1>8. CNAMEExclusive' /\ TTLsConsistent' /\ NoOrphans'
  BY NoWrite DEF IInv
<1> QED BY <1>3, <1>4, <1>5, <1>6, <1>7, <1>8 DEF IInv

(* A call that locks the row of a record: CreateInsert, CreateSetTTL,         *)
(* DeleteRow, DropCascade.                                                   *)
LEMMA RecordLockKeeps ==
  ASSUME IInv, NEW p \in Procs, NEW k \in Keys,
         NEW at \in {"createTTL", "deleteBump", "dropCascade"},
         UNCHANGED <<zones, records, call, zlock>>,
         pc' = [pc EXCEPT ![p] = at],
         at = "createTTL" => \/ pc[p] = "createInsert" /\ k = Key(p)
                             \/ pc[p] = "createTTL" /\ k \in RRset(Key(p)) /\ Present(k),
         at = "deleteBump" => pc[p] = "deleteRow" /\ k = Key(p) /\ Present(k),
         at = "dropCascade" => pc[p] = "dropCascade",
         k.zone = call[p].zone,
         rlock[k] = None, rlock' = [rlock EXCEPT ![k] = p]
  PROVE  IInv'
<1>t. TypeOK /\ CallInv /\ ZoneLocks /\ RecordLocks /\ Checked
  BY DEF IInv
<1>1. pc[p] \in {"createInsert", "createTTL", "deleteRow", "dropCascade"}
  OBVIOUS
<1>2. /\ pc'[p] = at /\ \A q \in Procs : q # p => pc'[q] = pc[q]
      /\ rlock'[k] = p /\ \A j \in Keys : j # k => rlock'[j] = rlock[j]
  BY <1>t DEF TypeOK
<1>3. TypeOK'
  BY <1>t DEF TypeOK, PCs
<1>4. CallInv'
  <2>1. \A q \in Procs : /\ pc'[q] \in CreatePCs => pc[q] \in CreatePCs
                         /\ pc'[q] \in DeletePCs => pc[q] \in DeletePCs
                         /\ pc'[q] \in ZonePCs => pc[q] \in ZonePCs
                         /\ pc'[q] = "updateZone" => pc[q] = "updateZone"
    BY <1>2 DEF CreatePCs, DeletePCs, ZonePCs
  <2> QED BY <2>1, <1>t, CallKept
<1>5. ZoneLocks'
  <2>1. \A q \in Procs : pc'[q] \in ZoneLocked <=> pc[q] \in ZoneLocked
    BY <1>1, <1>2 DEF ZoneLocked
  <2> QED BY <2>1, <1>t DEF ZoneLocks
<1>6. RecordLocks'
  <2>1. ASSUME NEW q \in Procs PROVE HoldsOwn(q)'
    <3>1. HoldsOwn(q) /\ Key(q)' = Key(q) /\ (Present(Key(q))' <=> Present(Key(q)))
      BY <1>t, NoWrite DEF RecordLocks
    <3>2. ASSUME pc'[q] \in {"createTTL", "deleteBump", "deleteCommit"} PROVE rlock'[Key(q)] = q
      <4>1. CASE q = p /\ pc[p] \in {"createInsert", "deleteRow"}
        BY <4>1, <1>1, <1>2
      <4>2. CASE q # p \/ pc[p] \notin {"createInsert", "deleteRow"}
        <5>1. pc[q] \in {"createTTL", "deleteBump", "deleteCommit"}
          BY <3>2, <4>2, <1>1, <1>2
        <5>2. rlock[Key(q)] = q /\ Key(q) \in Keys
          BY <5>1, <3>1, <1>t, ArgsType DEF HoldsOwn, CreatePCs, DeletePCs
        <5> QED BY <5>2, <1>2, Assumed
      <4> QED BY <4>1, <4>2
    <3>3. ASSUME pc'[q] \in {"deleteBump", "deleteCommit"} PROVE Present(Key(q))
      BY <3>1, <3>3, <1>2 DEF HoldsOwn
    <3> QED BY <3>1, <3>2, <3>3 DEF HoldsOwn
  <2>2. ASSUME NEW q \in Procs, NEW j \in Keys, rlock'[j] = q PROVE MayHold(q, j)'
    <3>1. /\ Key(q)' = Key(q) /\ RRset(Key(q))' = RRset(Key(q)) /\ (Present(j)' <=> Present(j))
      BY NoWrite
    <3>2. CASE j = k
      <4>1. q = p
        BY <2>2, <3>2, <1>2
      <4> QED BY <3>1, <3>2, <4>1, <1>2 DEF MayHold, RecordLocked
    <3>3. CASE j # k
      <4>1. MayHold(q, j)
        BY <2>2, <3>3, <1>t, <1>2 DEF RecordLocks
      <4>2. pc'[q] = pc[q]
        BY <4>1, <1>1, <1>2 DEF MayHold, RecordLocked
      <4> QED BY <3>1, <4>1, <4>2 DEF MayHold
    <3> QED BY <3>2, <3>3
  <2> QED BY <2>1, <2>2 DEF RecordLocks
<1>7. Checked'
  <2>1. \A q \in Procs : (Conflicts(Key(q))' <=> Conflicts(Key(q)))
    BY NoWrite
  <2>2. \A q \in Procs : pc'[q] \in {"createInsert", "createTTL"} =>
                           pc[q] \in {"createInsert", "createTTL"}
    BY <1>1, <1>2
  <2> QED BY <2>1, <2>2, <1>t DEF Checked
<1>8. CNAMEExclusive' /\ TTLsConsistent' /\ NoOrphans'
  BY NoWrite DEF IInv
<1> QED BY <1>3, <1>4, <1>5, <1>6, <1>7, <1>8 DEF IInv

(* A step that leaves the calls where they are and changes no row of records  *)
(* and takes no zone away: CreateZone, and a step of nothing.                *)
LEMMA QuietKeeps ==
  ASSUME IInv, UNCHANGED <<records, zlock, rlock, pc, call>>,
         zones' \in [Zones -> Row \cup {None}],
         \A y \in Zones : zones[y] # None => zones'[y] # None
  PROVE  IInv'
<1>t. TypeOK /\ CallInv /\ ZoneLocks /\ RecordLocks /\ Checked
  BY DEF IInv
<1>1. \A q \in Procs : Key(q)' = Key(q)
  BY KeyKept
<1>2. \A k \in Keys : (Present(k)' <=> Present(k))
  BY DEF Present
<1>3. \A q \in Procs : /\ RRset(Key(q))' = RRset(Key(q))
                       /\ (Conflicts(Key(q))' <=> Conflicts(Key(q)))
                       /\ (Present(Key(q))' <=> Present(Key(q)))
  BY <1>1 DEF RRset, AtName, Conflicts, Present
<1>4. TypeOK'
  BY <1>t DEF TypeOK
<1>5. CallInv'
  BY <1>t, CallKept
<1>6. ZoneLocks'
  BY <1>t DEF ZoneLocks
<1>7. RecordLocks'
  <2>1. ASSUME NEW q \in Procs PROVE HoldsOwn(q)'
    BY <1>t, <1>1, <1>3 DEF RecordLocks, HoldsOwn
  <2>2. ASSUME NEW q \in Procs, NEW k \in Keys, rlock'[k] = q PROVE MayHold(q, k)'
    BY <2>2, <1>t, <1>1, <1>2, <1>3 DEF RecordLocks, MayHold
  <2> QED BY <2>1, <2>2 DEF RecordLocks
<1>8. Checked'
  BY <1>t, <1>3 DEF Checked
<1>9. CNAMEExclusive' /\ TTLsConsistent'
  BY DEF IInv, CNAMEExclusive, TTLsConsistent, Present, RRset, AtName
<1>10. NoOrphans'
  BY <1>2, Assumed DEF IInv, NoOrphans
<1> QED BY <1>4, <1>5, <1>6, <1>7, <1>8, <1>9, <1>10 DEF IInv

(* CreateBump, DeleteBump and DropZone lock the zone's row, or roll back.     *)
LEMMA ZoneLockIInv ==
  ASSUME IInv, NEW p \in Procs, CreateBump(p) \/ DeleteBump(p) \/ DropZone(p)
  PROVE  IInv'
<1>1. CASE CreateBump(p)
  <2>1. CASE zones[call[p].zone] = None
    BY <1>1, <2>1, RollbackIInv DEF CreateBump
  <2>2. CASE zones[call[p].zone] # None
    BY <1>1, <2>2, ZoneLockKeeps DEF CreateBump, LockZone, Goto, tables
  <2> QED BY <2>1, <2>2
<1>2. CASE DeleteBump(p)
  <2>1. pc[p] = "deleteBump"
    BY <1>2 DEF DeleteBump
  <2>2. Key(p) \in Keys /\ call[p].zone = Key(p).zone /\ Present(Key(p))
    BY <2>1 DEF IInv, CallInv, RecordLocks, HoldsOwn, DeletePCs
  <2>3. zones[call[p].zone] # None
    BY <2>2 DEF IInv, NoOrphans
  <2> QED BY <1>2, <2>3, ZoneLockKeeps DEF DeleteBump, Goto, tables
<1>3. CASE DropZone(p)
  <2>1. CASE zones[call[p].zone] = None
    BY <1>3, <2>1, RollbackIInv DEF DropZone
  <2>2. CASE zones[call[p].zone] # None
    BY <1>3, <2>2, ZoneLockKeeps DEF DropZone, LockZone, Goto, tables
  <2> QED BY <2>1, <2>2
<1> QED BY <1>1, <1>2, <1>3

(* CreateInsert and DeleteRow lock the row of their record.                  *)
LEMMA RowLockIInv ==
  ASSUME IInv, NEW p \in Procs, CreateInsert(p) \/ DeleteRow(p)
  PROVE  IInv'
<1>1. CASE CreateInsert(p)
  <2>1. /\ pc[p] = "createInsert" /\ rlock[Key(p)] = None /\ pc' = [pc EXCEPT ![p] = "createTTL"]
        /\ rlock' = [rlock EXCEPT ![Key(p)] = p] /\ UNCHANGED <<zones, records, call, zlock>>
    BY <1>1 DEF CreateInsert, LockRecord, Goto, tables
  <2>2. Key(p) \in Keys /\ call[p].zone = Key(p).zone
    BY <2>1 DEF IInv, CallInv, CreatePCs
  <2> QED BY <2>1, <2>2, RecordLockKeeps
<1>2. CASE DeleteRow(p)
  <2>1. CASE Rollback(p)
    BY <2>1, RollbackIInv
  <2>2. CASE ~Rollback(p)
    <3>1. /\ pc[p] = "deleteRow" /\ rlock[Key(p)] = None /\ Present(Key(p))
          /\ pc' = [pc EXCEPT ![p] = "deleteBump"]
          /\ rlock' = [rlock EXCEPT ![Key(p)] = p] /\ UNCHANGED <<zones, records, call, zlock>>
      BY <1>2, <2>2 DEF DeleteRow, LockRecord, Goto, tables
    <3>2. Key(p) \in Keys /\ call[p].zone = Key(p).zone
      BY <3>1 DEF IInv, CallInv, DeletePCs
    <3> QED BY <3>1, <3>2, RecordLockKeeps
  <2> QED BY <2>1, <2>2
<1> QED BY <1>1, <1>2

(* CreateSetTTL and DropCascade lock one more row.                           *)
LEMMA MoreLocksIInv ==
  ASSUME IInv, NEW p \in Procs, NEW k \in Keys, CreateSetTTL(p, k) \/ DropCascade(p, k)
  PROVE  IInv'
<1>1. /\ pc' = [pc EXCEPT ![p] = pc[p]] /\ rlock[k] = None /\ rlock' = [rlock EXCEPT ![k] = p]
      /\ UNCHANGED <<zones, records, call, zlock>>
  BY DEF CreateSetTTL, DropCascade, LockRecord, tables, IInv, TypeOK
<1>2. CASE CreateSetTTL(p, k)
  <2>1. pc[p] = "createTTL" /\ k \in RRset(Key(p)) /\ Present(k) /\ k.zone = Key(p).zone
    BY <1>2 DEF CreateSetTTL, OtherTTL, RRset, AtName
  <2>2. call[p].zone = Key(p).zone
    BY <2>1 DEF IInv, CallInv, CreatePCs
  <2> QED BY <1>1, <2>1, <2>2, RecordLockKeeps
<1>3. CASE DropCascade(p, k)
  <2>1. pc[p] = "dropCascade" /\ k.zone = call[p].zone
    BY <1>3 DEF DropCascade, LeftToDrop, OfZone
  <2> QED BY <1>1, <2>1, RecordLockKeeps
<1> QED BY <1>2, <1>3

(* CreateCheck looks at the records of the name.                             *)
LEMMA CreateCheckIInv ==
  ASSUME IInv, NEW p \in Procs, CreateCheck(p)
  PROVE  IInv'
<1>t. TypeOK /\ CallInv /\ ZoneLocks /\ RecordLocks /\ Checked
  BY DEF IInv
<1>1. CASE Conflicts(Key(p))
  BY <1>1, RollbackIInv DEF CreateCheck
<1>2. CASE ~Conflicts(Key(p))
  <2>1. /\ pc[p] = "createCheck" /\ pc' = [pc EXCEPT ![p] = "createInsert"]
        /\ UNCHANGED <<zones, records, call, zlock, rlock>>
    BY <1>2 DEF CreateCheck, Goto, tables
  <2>2. pc'[p] = "createInsert" /\ \A q \in Procs : q # p => pc'[q] = pc[q]
    BY <2>1, <1>t DEF TypeOK
  <2>3. TypeOK'
    BY <2>1, <1>t DEF TypeOK, PCs
  <2>4. CallInv'
    <3>1. \A q \in Procs : /\ pc'[q] \in CreatePCs => pc[q] \in CreatePCs
                           /\ pc'[q] \in DeletePCs => pc[q] \in DeletePCs
                           /\ pc'[q] \in ZonePCs => pc[q] \in ZonePCs
                           /\ pc'[q] = "updateZone" => pc[q] = "updateZone"
      BY <2>1, <2>2 DEF CreatePCs, DeletePCs, ZonePCs
    <3> QED BY <2>1, <3>1, <1>t, CallKept
  <2>5. ZoneLocks'
    <3>1. \A q \in Procs : pc'[q] \in ZoneLocked <=> pc[q] \in ZoneLocked
      BY <2>1, <2>2 DEF ZoneLocked
    <3> QED BY <3>1, <2>1, <1>t DEF ZoneLocks
  <2>6. /\ \A q \in Procs : /\ Key(q)' = Key(q) /\ RRset(Key(q))' = RRset(Key(q))
                            /\ (Present(Key(q))' <=> Present(Key(q)))
                            /\ (Conflicts(Key(q))' <=> Conflicts(Key(q)))
        /\ \A k \in Keys : (Present(k)' <=> Present(k))
    BY <2>1, NoWrite
  <2>7. RecordLocks'
    <3>1. ASSUME NEW q \in Procs PROVE HoldsOwn(q)'
      <4>1. HoldsOwn(q)
        BY <1>t DEF RecordLocks
      <4> QED BY <4>1, <2>1, <2>2, <2>6 DEF HoldsOwn
    <3>2. ASSUME NEW q \in Procs, NEW k \in Keys, rlock'[k] = q PROVE MayHold(q, k)'
      <4>1. MayHold(q, k)
        BY <3>2, <2>1, <1>t DEF RecordLocks
      <4>2. q # p
        BY <4>1, <2>1 DEF MayHold, RecordLocked
      <4> QED BY <4>1, <4>2, <2>1, <2>2, <2>6 DEF MayHold
    <3> QED BY <3>1, <3>2 DEF RecordLocks
  <2>8. Checked'
    BY <2>2, <2>6, <1>2, <1>t DEF Checked
  <2>9. CNAMEExclusive' /\ TTLsConsistent' /\ NoOrphans'
    BY <2>1, NoWrite DEF IInv
  <2> QED BY <2>3, <2>4, <2>5, <2>7, <2>8, <2>9 DEF IInv
<1> QED BY <1>1, <1>2

(* CreateRecord commits.  The check made under the lock of the zone still   *)
(* holds, and the rows of the RRset that have another TTL are locked.       *)
LEMMA CreateCommitIInv ==
  ASSUME IInv, NEW p \in Procs, CreateCommit(p)
  PROVE  IInv'
<1> USE DEF IInv
<1> DEFINE z == call[p].zone
           K == Key(p)
<1>1. /\ pc[p] = "createTTL" /\ End(p) /\ OtherTTL(p) = {}
      /\ zones' = [zones EXCEPT ![z] = Bumped(z, call[p].now)]
      /\ records' = [k \in Keys |-> IF rlock[k] = p THEN call[p].ttl ELSE records[k]]
  BY DEF CreateCommit
<1>2. K \in Keys /\ K.zone = z /\ z \in Zones /\ call[p].now \in Times /\ call[p].ttl \in TTLs
  BY <1>1, ArgsType DEF CallInv, CreatePCs
<1>3. zlock[z] = p /\ zones[z] # None /\ rlock[K] = p /\ ~Conflicts(K)
  <2>1. zlock[z] = p /\ zones[z] # None
    BY <1>1, <1>2 DEF ZoneLocks, ZoneLocked
  <2>2. rlock[K] = p
    BY <1>1 DEF RecordLocks, HoldsOwn
  <2>3. ~Conflicts(K)
    BY <1>1 DEF Checked
  <2> QED BY <2>1, <2>2, <2>3
<1>4. zones'[z] \in Row /\ zones'[z] # None /\ \A y \in Zones \ {z} : zones'[y] = zones[y]
  BY <1>1, <1>2, <1>3, BumpedFacts DEF TypeOK
<1>5. \A k \in Keys : rlock[k] = p => k = K \/ (k \in RRset(K) /\ Present(k))
  BY <1>1 DEF RecordLocks, MayHold
<1>6. 0 \notin TTLs
  BY StoreAssumption
<1>7. \A k \in Keys : Present(k)' <=> Present(k) \/ k = K
  BY <1>1, <1>2, <1>3, <1>5, <1>6 DEF Present
<1>8. TypeOK' /\ CallInv' /\ ZoneLocks' /\ RecordLocks' /\ Checked'
  <2>1. zones' \in [Zones -> Row \cup {None}] /\ records' \in [Keys -> TTLs \cup {0}]
    BY <1>1, <1>2, <1>4 DEF TypeOK
  <2>2. \A y \in Zones : zlock[y] \notin {p, None} => zones'[y] # None
    BY <1>4, SMTT(60) DEF ZoneLocks, TypeOK
  <2>3. \A k \in Keys : rlock[k] \notin {p, None} => records'[k] = records[k]
    BY <1>1
  <2>4. \A k \in Keys : Present(k)' /\ ~Present(k) => zlock[k.zone] = p
    BY <1>2, <1>3, <1>7
  <2> QED BY <1>1, <2>1, <2>2, <2>3, <2>4, EndKeeps
<1>9. CNAMEExclusive'
  <2> SUFFICES ASSUME NEW k \in Keys, Present(k)', k.type = "CNAME"
               PROVE  /\ k.name # k.zone
                      /\ \A j \in AtName(k) : Present(j)' => j = k
    BY DEF CNAMEExclusive, AtName
  <2>1. CASE k = K
    BY <1>2, <1>3, <1>7, <2>1, KeysDiffer DEF Conflicts, AtName
  <2>2. CASE k # K
    <3>1. Present(k)
      BY <1>7, <2>2
    <3>2. K \notin AtName(k)
      <4> SUFFICES ASSUME K \in AtName(k) PROVE FALSE
        OBVIOUS
      <4>1. k \in AtName(K)
        BY DEF AtName
      <4> QED BY <1>2, <1>3, <2>2, <3>1, <4>1, KeysDiffer DEF Conflicts, AtName
    <3> QED BY <1>7, <3>1, <3>2 DEF CNAMEExclusive, AtName
  <2> QED BY <2>1, <2>2
<1>10. TTLsConsistent'
  <2> SUFFICES ASSUME NEW k \in Keys, NEW j \in RRset(k), Present(k)', Present(j)'
               PROVE  records'[j] = records'[k]
    BY DEF TTLsConsistent, RRset, AtName
  <2>1. j \in Keys /\ k \in RRset(j)
    BY DEF RRset, AtName
  <2>2. ASSUME NEW a \in Keys, NEW b \in RRset(a), Present(b)', rlock[a] = p
        PROVE  records'[b] = call[p].ttl
    <3>1. b \in RRset(K) /\ b \in Keys
      BY <1>5, <2>2 DEF RRset, AtName
    <3> QED BY <1>1, <1>3, <1>7, <2>2, <3>1 DEF OtherTTL
  <2>3. CASE rlock[k] = p
    BY <1>1, <2>2, <2>3
  <2>4. CASE rlock[j] = p
    BY <1>1, <2>1, <2>2, <2>4
  <2>5. CASE rlock[k] # p /\ rlock[j] # p
    BY <1>1, <1>3, <1>7, <2>1, <2>5 DEF TTLsConsistent
  <2> QED BY <2>3, <2>4, <2>5
<1>11. NoOrphans'
  BY <1>2, <1>4, <1>7, StoreAssumption DEF NoOrphans
<1> QED BY <1>8, <1>9, <1>10, <1>11

(* Where records only go, and zones only with all their records, the tables *)
(* stay as they should be.                                                  *)
LEMMA RemovalKeeps ==
  ASSUME IInv, \A k \in Keys : records'[k] \in {records[k], 0},
         \A k \in Keys : records'[k] # 0 => zones'[k.zone] # None
  PROVE  CNAMEExclusive' /\ TTLsConsistent' /\ NoOrphans'
BY SMTT(60) DEF IInv, CNAMEExclusive, TTLsConsistent, NoOrphans, Present, RRset, AtName

(* DeleteRecord commits.                                                    *)
LEMMA DeleteCommitIInv ==
  ASSUME IInv, NEW p \in Procs, DeleteCommit(p)
  PROVE  IInv'
<1> USE DEF IInv
<1> DEFINE z == call[p].zone
<1>1. /\ pc[p] = "deleteCommit" /\ End(p)
      /\ zones' = [zones EXCEPT ![z] = IF zlock[z] = p THEN Bumped(z, call[p].now) ELSE @]
      /\ records' = [k \in Keys |-> IF rlock[k] = p THEN 0 ELSE records[k]]
  BY DEF DeleteCommit
<1>2. z \in Zones /\ call[p].now \in Times /\ zlock[z] = p /\ zones[z] # None
  BY <1>1, ArgsType DEF CallInv, ZoneLocks, ZoneLocked, DeletePCs
<1>3. zones'[z] \in Row /\ zones'[z] # None /\ \A y \in Zones \ {z} : zones'[y] = zones[y]
  BY <1>1, <1>2, BumpedFacts DEF TypeOK
<1>4. TypeOK' /\ CallInv' /\ ZoneLocks' /\ RecordLocks' /\ Checked'
  <2>1. zones' \in [Zones -> Row \cup {None}] /\ records' \in [Keys -> TTLs \cup {0}]
    BY <1>1, <1>2, <1>3 DEF TypeOK
  <2>2. \A y \in Zones : zlock[y] \notin {p, None} => zones'[y] # None
    BY <1>3 DEF ZoneLocks, TypeOK
  <2>3. /\ \A k \in Keys : rlock[k] \notin {p, None} => records'[k] = records[k]
        /\ \A k \in Keys : Present(k)' => Present(k)
    BY <1>1 DEF Present
  <2> QED BY <1>1, <2>1, <2>2, <2>3, EndKeeps
<1>5. CNAMEExclusive' /\ TTLsConsistent' /\ NoOrphans'
  <2>1. \A k \in Keys : records'[k] \in {records[k], 0}
    BY <1>1
  <2>2. \A k \in Keys : records'[k] # 0 => zones'[k.zone] # None
    BY <2>1, <1>3, Assumed DEF NoOrphans, Present
  <2> QED BY <2>1, <2>2, RemovalKeeps
<1> QED BY <1>4, <1>5

(* DeleteZone commits: the cascade has locked every record of the zone.     *)
LEMMA DropCommitIInv ==
  ASSUME IInv, NEW p \in Procs, DropCommit(p)
  PROVE  IInv'
<1> USE DEF IInv
<1> DEFINE z == call[p].zone
<1>1. /\ pc[p] = "dropCascade" /\ End(p) /\ LeftToDrop(p) = {}
      /\ zones' = [zones EXCEPT ![z] = None]
      /\ records' = [k \in Keys |-> IF rlock[k] = p THEN 0 ELSE records[k]]
  BY DEF DropCommit
<1>2. z \in Zones /\ zlock[z] = p
  BY <1>1, ArgsType DEF CallInv, ZoneLocks, ZoneLocked, ZonePCs
<1>3. TypeOK' /\ CallInv' /\ ZoneLocks' /\ RecordLocks' /\ Checked'
  <2>1. zones' \in [Zones -> Row \cup {None}] /\ records' \in [Keys -> TTLs \cup {0}]
    BY <1>1, <1>2 DEF TypeOK
  <2>2. \A y \in Zones : zlock[y] \notin {p, None} => zones'[y] # None
    BY <1>1, <1>2, SMTT(60) DEF ZoneLocks, TypeOK
  <2>3. /\ \A k \in Keys : rlock[k] \notin {p, None} => records'[k] = records[k]
        /\ \A k \in Keys : Present(k)' => Present(k)
    BY <1>1 DEF Present
  <2> QED BY <1>1, <2>1, <2>2, <2>3, EndKeeps
<1>4. \A k \in Keys : records'[k] # 0 => zones'[k.zone] # None
  <2> SUFFICES ASSUME NEW k \in Keys, records'[k] # 0 PROVE zones'[k.zone] # None
    OBVIOUS
  <2>1. Present(k) /\ rlock[k] # p
    BY <1>1 DEF Present
  <2>2. k.zone # z
    BY <1>1, <2>1 DEF LeftToDrop, OfZone
  <2> QED BY <1>1, <2>1, <2>2, Assumed DEF NoOrphans, TypeOK
<1>5. CNAMEExclusive' /\ TTLsConsistent' /\ NoOrphans'
  <2>1. \A k \in Keys : records'[k] \in {records[k], 0}
    BY <1>1
  <2> QED BY <2>1, <1>4, RemovalKeeps
<1> QED BY <1>3, <1>5

(* UpdateZone writes one row of zones, if it is there.                      *)
LEMMA UpdateZoneIInv ==
  ASSUME IInv, NEW p \in Procs, UpdateZone(p)
  PROVE  IInv'
<1> USE DEF IInv
<1> DEFINE z == call[p].zone
<1>1. /\ pc[p] = "updateZone" /\ End(p) /\ records' = records
      /\ zones' = [zones EXCEPT ![z] =
                     IF zones[z] = None THEN None
                     ELSE [soa    |-> call[p].soa,
                           serial |-> bumpSerial(zones[z].serial, call[p].now)]]
  BY DEF UpdateZone
<1>2. z \in Zones /\ call[p].soa \in SOA /\ call[p].now \in Times
  BY <1>1 DEF CallInv, ZonePCs
<1>3. zones' \in [Zones -> Row \cup {None}] /\ \A y \in Zones : zones'[y] = None <=> zones[y] = None
  <2>1. CASE zones[z] = None
    BY <1>1, <1>2, <2>1 DEF TypeOK
  <2>2. CASE zones[z] # None
    <3>1. bumpSerial(zones[z].serial, call[p].now) \in Nat
      <4>1. zones[z].serial \in Nat
        BY <1>2, <2>2 DEF TypeOK, Row
      <4>2. call[p].now \in Nat
        BY <1>2, StoreAssumption
      <4> QED BY <4>1, <4>2 DEF bumpSerial, Larger
    <3>2. zones'[z] \in Row
      BY <1>1, <1>2, <2>2, <3>1 DEF TypeOK, Row
    <3>3. zones'[z] # None
      BY <3>2, StoreAssumption
    <3> QED BY <1>1, <1>2, <2>2, <3>2, <3>3 DEF TypeOK
  <2> QED BY <2>1, <2>2
<1>4. TypeOK' /\ CallInv' /\ ZoneLocks' /\ RecordLocks' /\ Checked'
  <2>1. records' \in [Keys -> TTLs \cup {0}]
    BY <1>1 DEF TypeOK
  <2>2. \A y \in Zones : zlock[y] \notin {p, None} => zones'[y] # None
    BY <1>3, SMTT(60) DEF ZoneLocks, TypeOK
  <2>3. /\ \A k \in Keys : rlock[k] \notin {p, None} => records'[k] = records[k]
        /\ \A k \in Keys : Present(k)' => Present(k)
    BY <1>1 DEF Present
  <2> QED BY <1>1, <1>3, <2>1, <2>2, <2>3, EndKeeps
<1>5. CNAMEExclusive' /\ TTLsConsistent' /\ NoOrphans'
  <2>1. \A k \in Keys : records'[k] \in {records[k], 0}
    BY <1>1
  <2>2. \A k \in Keys : records'[k] # 0 => zones'[k.zone] # None
    BY <1>1, <1>3, Assumed DEF NoOrphans, Present
  <2> QED BY <2>1, <2>2, RemovalKeeps
<1> QED BY <1>4, <1>5

(* CreateZone inserts one.                                                  *)
LEMMA CreateZoneIInv ==
  ASSUME IInv, NEW p \in Procs, NEW z \in Zones, NEW soa \in SOA, NEW now \in Times,
         CreateZone(p, z, soa, now)
  PROVE  IInv'
<1>1. UNCHANGED <<records, zlock, rlock, pc, call>>
  BY DEF CreateZone
<1> DEFINE row == [soa |-> soa, serial |-> now]
<1>2. row \in Row /\ row # None
  BY StoreAssumption, SMTT(60) DEF Row
<1>3. zones' = [zones EXCEPT ![z] = row]
  BY DEF CreateZone
<1> HIDE DEF row
<1>4. /\ zones' \in [Zones -> Row \cup {None}]
      /\ \A y \in Zones : zones[y] # None => zones'[y] # None
  BY <1>2, <1>3 DEF IInv, TypeOK
<1> QED BY <1>1, <1>4, QuietKeeps

(* What UpdateZone fills in is a full set of SOA parameters.                *)
LEMMA GetZoneIInv ==
  ASSUME IInv, NEW p \in Procs, NEW z \in Zones, NEW set \in SUBSET Fields, NEW v \in Values,
         NEW now \in Times, GetZone(p, z, set, v, now)
  PROVE  IInv'
<1> DEFINE soa == [f \in Fields |-> orInt(IF f \in set THEN v ELSE 0, zones[z].soa[f])]
<1>1. zones[z] # None /\ Begin(p, "updateZone", Args(z, {}, 0, now, set, soa))
  BY DEF GetZone
<1>2. zones[z].soa \in SOA
  BY <1>1 DEF IInv, TypeOK, Row
<1>3. soa \in SOA
  BY <1>2 DEF SOA, orInt
<1> HIDE DEF soa
<1> QED BY <1>1, <1>3, BeginIInv DEF Args

(* Every step of every call keeps the invariant.                            *)
LEMMA NextIInv == IInv /\ [Next]_vars => IInv'
<1> SUFFICES ASSUME IInv, [Next]_vars PROVE IInv'
  OBVIOUS
<1>1. ASSUME NEW p \in Procs, NEW k \in Keys, NEW ttl \in TTLs, NEW now \in Times,
             CreateRecord(p, k, ttl, now)
      PROVE  IInv'
  BY <1>1, BeginIInv DEF CreateRecord, Args
<1>2. ASSUME NEW p \in Procs, NEW k \in Keys, NEW now \in Times, DeleteRecord(p, k, now)
      PROVE  IInv'
  BY <1>2, BeginIInv DEF DeleteRecord, Args
<1>3. ASSUME NEW p \in Procs, NEW z \in Zones, DeleteZone(p, z) PROVE IInv'
  BY <1>3, BeginIInv DEF DeleteZone, Args
<1>4. ASSUME NEW p \in Procs, Call(p) PROVE IInv'
  BY <1>1, <1>2, <1>3, <1>4, GetZoneIInv, CreateZoneIInv DEF Call
<1>5. ASSUME NEW p \in Procs, Step(p) PROVE IInv'
  BY <1>5, ZoneLockIInv, RowLockIInv, MoreLocksIInv, CreateCheckIInv, CreateCommitIInv,
     DeleteCommitIInv, DropCommitIInv, UpdateZoneIInv DEF Step
<1>6. ASSUME NEW p \in Procs, Abort(p) \/ DeadlockDetected(p) PROVE IInv'
  <2>1. Rollback(p)
    BY <1>6 DEF Abort, DeadlockDetected
  <2> QED BY <2>1, RollbackIInv
<1>7. ASSUME UNCHANGED vars PROVE IInv'
  BY <1>7, QuietKeeps DEF vars, IInv, TypeOK
<1> QED BY <1>4, <1>5, <1>6, <1>7 DEF Next

(* In every behaviour of the store the invariant holds throughout.          *)
LEMMA StoreIInv == Spec => []IInv
BY InitIInv, NextIInv, PTL DEF Spec

(* The README's "CNAME exclusivity is enforced, RRset TTLs stay consistent", *)
(* and no record without its zone: for any zones, records and calls at once. *)
THEOREM StoreConsistent == Spec => []Consistent
<1>1. IInv => Consistent
  BY DEF IInv, Consistent
<1> QED BY <1>1, StoreIInv, PTL

\* What SerialAdvances says of one step and one zone.
Advances(z) ==
    /\ zones[z] # None /\ zones'[z] # None
    /\ zones[z] # zones'[z] \/ \E k \in OfZone(z) : records'[k] # records[k]
    => zones'[z].serial > zones[z].serial

(* Who changes records has raised the serial of their zone, and of no other. *)
LEMMA CommitAdvances ==
  ASSUME IInv, NEW p \in Procs, CreateCommit(p) \/ DeleteCommit(p), NEW z \in Zones
  PROVE  Advances(z)
<1> DEFINE y == call[p].zone
<1>1. pc[p] \in {"createTTL", "deleteCommit"}
  BY DEF CreateCommit, DeleteCommit
<1>2. y \in Zones /\ call[p].now \in Times /\ zlock[y] = p /\ zones[y] # None
  BY <1>1, ArgsType DEF IInv, CallInv, ZoneLocks, ZoneLocked, CreatePCs, DeletePCs
<1>3. zones' = [zones EXCEPT ![y] = Bumped(y, call[p].now)]
  BY <1>2 DEF CreateCommit, DeleteCommit
<1>4. \A k \in Keys : records'[k] # records[k] => k.zone = y
  <2>1. \A k \in Keys : rlock[k] = p => k.zone = y
    BY DEF IInv, RecordLocks, MayHold
  <2> QED BY <2>1 DEF CreateCommit, DeleteCommit
<1>5. CASE z = y
  <2>1. zones'[z] = Bumped(y, call[p].now)
    BY <1>2, <1>3, <1>5 DEF IInv, TypeOK
  <2>2. Bumped(y, call[p].now).serial > zones[y].serial
    BY <1>2, BumpedFacts DEF IInv
  <2> QED BY <1>5, <2>1, <2>2 DEF Advances
<1>6. CASE z # y
  <2>1. zones'[z] = zones[z]
    BY <1>2, <1>3, <1>6 DEF IInv, TypeOK
  <2>2. \A k \in OfZone(z) : records'[k] = records[k]
    BY <1>4, <1>6 DEF OfZone
  <2> QED BY <2>1, <2>2 DEF Advances
<1> QED BY <1>5, <1>6

(* UpdateZone raises the serial of the row it writes.                       *)
LEMMA UpdateAdvances ==
  ASSUME IInv, NEW p \in Procs, UpdateZone(p), NEW z \in Zones
  PROVE  Advances(z)
<1> DEFINE y == call[p].zone
<1>1. y \in Zones /\ call[p].now \in Times
  BY DEF IInv, CallInv, UpdateZone, ZonePCs
<1>2. /\ records' = records
      /\ zones' = [zones EXCEPT ![y] =
                     IF zones[y] = None THEN None
                     ELSE [soa    |-> call[p].soa,
                           serial |-> bumpSerial(zones[y].serial, call[p].now)]]
  BY DEF UpdateZone
<1>3. CASE z = y /\ zones[y] # None
  <2>1. bumpSerial(zones[y].serial, call[p].now) > zones[y].serial
    <3>1. zones[y].serial \in Nat
      BY <1>1, <1>3 DEF IInv, TypeOK, Row
    <3>2. call[p].now \in Nat
      BY <1>1, StoreAssumption
    <3> QED BY <3>1, <3>2, SMTT(60) DEF bumpSerial, Larger
  <2> QED BY <1>1, <1>2, <1>3, <2>1 DEF IInv, TypeOK, Advances
<1>4. CASE z # y \/ zones[y] = None
  BY <1>1, <1>2, <1>4 DEF IInv, TypeOK, Advances, OfZone
<1> QED BY <1>3, <1>4

(* DeleteZone takes the records of its zone only, and the zone with them.   *)
LEMMA DropAdvances ==
  ASSUME IInv, NEW p \in Procs, DropCommit(p), NEW z \in Zones
  PROVE  Advances(z)
<1>1. call[p].zone \in Zones
  BY DEF IInv, CallInv, DropCommit, ZonePCs
<1>2. \A k \in Keys : records'[k] # records[k] => k.zone = call[p].zone
  <2>1. \A k \in Keys : rlock[k] = p => k.zone = call[p].zone
    BY DEF IInv, RecordLocks, MayHold
  <2> QED BY <2>1 DEF DropCommit
<1> QED BY <1>1, <1>2 DEF IInv, TypeOK, DropCommit, Advances, OfZone

(* "The zone serial advances on every change" (README), of the zone or of   *)
(* one of its records, whatever the clock of the database says.             *)
THEOREM StoreSerialAdvances == Spec => SerialAdvances
<1>1. IInv /\ [Next]_vars => [\A z \in Zones : Advances(z)]_vars
  <2> SUFFICES ASSUME IInv, Next, NEW z \in Zones PROVE Advances(z)
    OBVIOUS
  <2>1. ASSUME zones' = zones, records' = records PROVE Advances(z)
    BY <2>1 DEF Advances
  <2>2. ASSUME NEW p \in Procs, NEW y \in Zones, NEW soa \in SOA, NEW now \in Times,
               CreateZone(p, y, soa, now)
        PROVE  Advances(z)
    <3>1. records' = records /\ zones[y] = None /\ \A x \in Zones : x # y => zones'[x] = zones[x]
      BY <2>2 DEF CreateZone, IInv, TypeOK
    <3> QED BY <3>1 DEF Advances
  <2>3. ASSUME NEW p \in Procs, Call(p) PROVE Advances(z)
    BY <2>1, <2>2, <2>3 DEF Call, CreateRecord, DeleteRecord, GetZone, DeleteZone,
                                        Begin, tables
  <2>4. ASSUME NEW p \in Procs, Step(p) PROVE Advances(z)
    <3>1. ASSUME \/ CreateBump(p) \/ CreateCheck(p) \/ CreateInsert(p) \/ DeleteRow(p)
                 \/ DeleteBump(p) \/ DropZone(p)
                 \/ \E k \in Keys : CreateSetTTL(p, k) \/ DropCascade(p, k)
          PROVE  Advances(z)
      BY <2>1, <3>1 DEF CreateBump, CreateCheck, CreateInsert, CreateSetTTL,
                        DeleteRow, DeleteBump, DropZone, DropCascade, Goto, Rollback,
                        LockZone, LockRecord, tables
    <3> QED BY <2>4, <3>1, CommitAdvances, UpdateAdvances, DropAdvances DEF Step
  <2>5. ASSUME NEW p \in Procs, Abort(p) \/ DeadlockDetected(p) PROVE Advances(z)
    BY <2>1, <2>5 DEF Abort, DeadlockDetected, Rollback, tables
  <2> QED BY <2>3, <2>4, <2>5 DEF Next
<1> QED BY <1>1, StoreIInv, PTL DEF Spec, SerialAdvances, Advances
============================================================================
