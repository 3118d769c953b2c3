---------------------------- MODULE CacheProofs ----------------------------
(***************************************************************************)
(* Proofs about Cache: for any number of goroutines, keys, groups and       *)
(* shards, a finished invalidation is never undone, no shard grows past     *)
(* its capacity, and a live entry goes only for want of room.               *)
(***************************************************************************)
EXTENDS Cache, FiniteSetTheorems, TLAPS

\* The provers that every leaf is given to, in this order.
USE ZenonT(60), SMTT(60)

\* No goroutine, and no key, is marked with an epoch that is yet to come.
MarksPast ==
    /\ \A p \in Procs : loc[p].mark <= epoch
    /\ \A k \in Keys : flushed[k] <= epoch

\* A shard is locked exactly while a Set of one of its keys is between
\* Lock and Unlock.
LockInv ==
    /\ \A p \in Procs : pc[p] \in {"check", "put"} => mu[shardFor[loc[p].key]] = p
    /\ \A s \in Shards, p \in Procs :
         mu[s] = p => pc[p] \in {"check", "put"} /\ shardFor[loc[p].key] = s

\* A Set past its second test carries a value no finished invalidation of
\* its key has outdated: the lock it holds keeps them out.
PutFresh ==
    \A p \in Procs : pc[p] = "put" => loc[p].mark >= flushed[loc[p].key]

\* The inductive invariant.
IInv == TypeOK /\ MarksPast /\ LockInv /\ PutFresh /\ NoResurrection

(* The default values of the locals are locals.                             *)
LEMMA BlankType == Blank \in Locals /\ Blank.mark = 0 /\ Blank.next = 0
BY CacheAssumption, SMTT(60) DEF Blank, Frame, Locals, Shards

(* The expiry Set computes is a time.                                       *)
LEMMA ExpiresType == \A n \in Nat : expiresAt(n) \in Nat
BY CacheAssumption, SMTT(60) DEF expiresAt, MaxInt64

(* A new cache, with no goroutine inside, satisfies the invariant.          *)
LEMMA InitIInv == Init => IInv
<1> SUFFICES ASSUME Init PROVE IInv
  OBVIOUS
<1>1. TypeOK
  BY BlankType, CacheAssumption, SMTT(60) DEF Init, TypeOK, PCs, Locals, Shards
<1>2. MarksPast
  BY BlankType DEF Init, MarksPast
<1>3. LockInv
  BY CacheAssumption DEF Init, LockInv
<1>4. PutFresh /\ NoResurrection
  BY DEF Init, PutFresh, NoResurrection
<1> QED BY <1>1, <1>2, <1>3, <1>4 DEF IInv

(* Removing keys from the map keeps the types and only removes entries.     *)
LEMMA RemoveFacts ==
  ASSUME TypeOK, NEW K, NEW e \in Nat, e <= epoch, Remove(K, e),
         \A k \in Keys : flushed[k] <= epoch
  PROVE  /\ m' \in [Keys -> Entry \cup {None}]
         /\ flushed' \in [Keys -> Nat]
         /\ \A k \in Keys : flushed'[k] <= epoch
         /\ \A k \in Keys : k \notin K => m'[k] = m[k] /\ flushed'[k] = flushed[k]
         /\ \A k \in Keys : k \in K => m'[k] = None
BY DEF TypeOK, Remove

(* Every step of every call keeps the invariant.                            *)
LEMMA NextIInv == IInv /\ [Next]_vars => IInv'
<1> SUFFICES ASSUME IInv, [Next]_vars PROVE IInv'
  OBVIOUS
<1> USE CacheAssumption, BlankType
<1> USE DEF IInv
<1>type. m \in [Keys -> Entry \cup {None}] /\ epoch \in 0 .. MaxEpoch
         /\ epoch \in Nat /\ clock \in Nat /\ 0 \in Shards
         /\ mu \in [Shards -> Procs \cup {None}] /\ pc \in [Procs -> PCs]
         /\ loc \in [Procs -> Locals] /\ flushed \in [Keys -> Nat]
  BY SMTT(60) DEF TypeOK, Shards
<1>1. ASSUME NEW p \in Procs, NEW k \in Keys, Epoch(p, k) PROVE IInv'
  <2> USE <1>1, <1>type DEF Epoch, Frame
  <2>1. TypeOK'
    BY DEF TypeOK, PCs, Locals
  <2>2. MarksPast'
    BY SMTT(60) DEF MarksPast, Locals
  <2>3. LockInv'
    BY SMTT(60) DEF LockInv, Locals
  <2>4. PutFresh' /\ NoResurrection'
    BY DEF PutFresh, NoResurrection, Locals
  <2> QED BY <2>1, <2>2, <2>3, <2>4
<1>2. ASSUME NEW p \in Procs, SetEnter(p) PROVE IInv'
  <2>0. loc[p] \in Locals /\ loc[p].mark <= epoch /\ loc[p].mark \in Nat
    BY <1>type DEF MarksPast, Locals
  <2>1. PICK l \in Locals, c \in {"set", "idle"} :
          /\ loc' = [loc EXCEPT ![p] = l] /\ pc' = [pc EXCEPT ![p] = c]
          /\ l.mark <= epoch
    <3>1. CASE epochUnchanged(loc[p].mark)
      <4>1. Frame(loc[p].key, loc[p].mark, clock, {}, 0) \in Locals
        BY <2>0, <1>type DEF Frame, Locals
      <4> QED BY <1>2, <3>1, <4>1, <2>0 DEF SetEnter, Frame
    <3>2. CASE ~epochUnchanged(loc[p].mark)
      BY <1>2, <3>2, <1>type, SMTT(60) DEF SetEnter, Return
    <3> QED BY <3>1, <3>2
  <2> USE <1>type, <2>1
  <2>2. pc[p] = "load" /\ UNCHANGED <<m, epoch, mu, clock, flushed>>
    BY <1>2 DEF SetEnter
  <2>3. TypeOK' /\ MarksPast'
    BY <2>2 DEF TypeOK, PCs, MarksPast
  <2>4. LockInv'
    BY <2>2, SMTT(60) DEF LockInv
  <2>5. PutFresh' /\ NoResurrection'
    BY <2>2 DEF PutFresh, NoResurrection
  <2> QED BY <2>3, <2>4, <2>5
<1>3. ASSUME NEW p \in Procs, SetLock(p) PROVE IInv'
  <2> USE <1>3, <1>type DEF SetLock
  <2>0. loc[p].key \in Keys /\ shardFor[loc[p].key] \in Shards
    BY DEF Locals
  <2>1. TypeOK'
    BY <2>0 DEF TypeOK, PCs
  <2>2. MarksPast'
    BY DEF MarksPast
  <2>3. LockInv'
    BY <2>0, SMTT(60) DEF LockInv, Locals
  <2>4. PutFresh' /\ NoResurrection'
    BY DEF PutFresh, NoResurrection
  <2> QED BY <2>1, <2>2, <2>3, <2>4
<1>4. ASSUME NEW p \in Procs, SetCheck(p) PROVE IInv'
  <2> USE <1>4, <1>type DEF SetCheck, Return
  <2>0. loc[p].key \in Keys /\ shardFor[loc[p].key] \in Shards
    BY DEF Locals
  <2>1. TypeOK'
    <3>1. CASE epochUnchanged(loc[p].mark)
      BY <3>1 DEF TypeOK, PCs
    <3>2. CASE ~epochUnchanged(loc[p].mark)
      BY <3>2, <2>0, SMTT(60) DEF TypeOK, PCs
    <3> QED BY <3>1, <3>2
  <2>2. MarksPast'
    BY SMTT(60) DEF MarksPast, Locals
  <2>3. LockInv'
    <3>1. CASE epochUnchanged(loc[p].mark)
      BY <3>1, <2>0, SMTT(60) DEF LockInv
    <3>2. CASE ~epochUnchanged(loc[p].mark)
      <4>1. ASSUME NEW q \in Procs, pc'[q] \in {"check", "put"}
            PROVE  mu'[shardFor[loc'[q].key]] = q
        <5>1. q # p /\ pc'[q] = pc[q] /\ loc'[q] = loc[q]
          BY <3>2, <4>1
        <5>2. mu[shardFor[loc[q].key]] = q /\ mu[shardFor[loc[p].key]] = p
          BY <4>1, <5>1 DEF LockInv
        <5>3. shardFor[loc[q].key] \in Shards
          BY DEF Locals
        <5> QED BY <5>1, <5>2, <5>3, <2>0, <3>2, SMTT(60)
      <4>2. ASSUME NEW s \in Shards, NEW q \in Procs, mu'[s] = q
            PROVE  pc'[q] \in {"check", "put"} /\ shardFor[loc'[q].key] = s
        <5>1. s # shardFor[loc[p].key] /\ mu[s] = q
          BY <3>2, <4>2, <2>0
        <5>2. q # p /\ pc'[q] = pc[q] /\ loc'[q] = loc[q]
          BY <3>2, <5>1, SMTT(60) DEF LockInv
        <5> QED BY <5>1, <5>2, SMTT(60) DEF LockInv
      <4> QED BY <4>1, <4>2 DEF LockInv
    <3> QED BY <3>1, <3>2
  <2>4. PutFresh'
    BY <2>0, SMTT(60) DEF PutFresh, MarksPast, epochUnchanged, Locals
  <2>5. NoResurrection'
    BY DEF NoResurrection
  <2> QED BY <2>1, <2>2, <2>3, <2>4, <2>5
<1>5. ASSUME NEW p \in Procs, SetPut(p) PROVE IInv'
  <2> DEFINE k == loc[p].key
             new == [loaded |-> loc[p].mark, expires |-> expiresAt(loc[p].now)]
  <2>0. /\ k \in Keys /\ shardFor[k] \in Shards
        /\ loc[p].mark \in Nat /\ loc[p].now \in Nat /\ new \in Entry
    BY <1>type, ExpiresType DEF Locals, Entry
  <2>1. PICK gone : m' = [j \in Keys |-> IF j = k THEN new
                                         ELSE IF j \in gone THEN None ELSE m[j]]
    BY <1>5 DEF SetPut
  <2>2. TypeOK'
    BY <1>5, <1>type, <2>0, <2>1 DEF SetPut, Return, TypeOK, PCs, Shards
  <2>3. MarksPast'
    BY <1>5, <1>type, SMTT(60) DEF SetPut, Return, MarksPast
  <2>4. LockInv'
    BY <1>5, <1>type, <2>0, SMTT(60) DEF SetPut, Return, LockInv, Locals
  <2>5. PutFresh'
    BY <1>5, <1>type DEF SetPut, Return, PutFresh
  <2>6. loc[p].mark >= flushed[k]
    BY <1>5 DEF SetPut, PutFresh
  <2>7. NoResurrection'
    BY <1>5, <1>type, <2>0, <2>1, <2>6 DEF SetPut, NoResurrection
  <2> QED BY <2>2, <2>3, <2>4, <2>5, <2>7
<1>6. ASSUME NEW p \in Procs, NEW at \in {"delete", "sweep"}, NEW key \in Keys,
             NEW match \in SUBSET Keys, Bump(p, at, key, match) PROVE IInv'
  <2> USE <1>6, <1>type DEF Bump, Frame
  <2>1. TypeOK'
    BY SMTT(60) DEF TypeOK, PCs, Locals
  <2>2. MarksPast'
    BY SMTT(60) DEF MarksPast, Locals
  <2>3. LockInv'
    BY SMTT(60) DEF LockInv, Locals
  <2>4. PutFresh' /\ NoResurrection'
    BY DEF PutFresh, NoResurrection, Locals
  <2> QED BY <2>1, <2>2, <2>3, <2>4
<1>7. ASSUME NEW p \in Procs, DeleteKey(p) PROVE IInv'
  <2> DEFINE k == loc[p].key
  <2>0. k \in Keys /\ shardFor[k] \in Shards /\ loc[p].mark \in Nat
        /\ loc[p].mark <= epoch
    BY <1>type DEF Locals, MarksPast
  <2>1. /\ m' \in [Keys -> Entry \cup {None}] /\ flushed' \in [Keys -> Nat]
        /\ \A j \in Keys : flushed'[j] <= epoch
        /\ \A j \in Keys : j # k => m'[j] = m[j] /\ flushed'[j] = flushed[j]
        /\ m'[k] = None
    BY <1>7, <2>0, RemoveFacts, SMTT(60) DEF DeleteKey, MarksPast
  <2>2. TypeOK'
    BY <1>7, <1>type, <2>1 DEF DeleteKey, Return, TypeOK, PCs, Shards
  <2>3. MarksPast'
    BY <1>7, <1>type, <2>1, SMTT(60) DEF DeleteKey, Return, MarksPast
  <2>4. LockInv'
    BY <1>7, <1>type, SMTT(60) DEF DeleteKey, Return, LockInv, Locals
  <2>5. PutFresh'
    <3> SUFFICES ASSUME NEW q \in Procs, pc'[q] = "put"
                 PROVE  loc'[q].mark >= flushed'[loc'[q].key]
      BY DEF PutFresh
    <3>1. q # p /\ loc'[q] = loc[q] /\ pc[q] = "put" /\ loc[q].key \in Keys
      BY <1>7, <1>type DEF DeleteKey, Return, Locals
    <3>2. loc[q].key # k
      BY <1>7, <3>1, SMTT(60) DEF DeleteKey, LockInv
    <3> QED BY <2>1, <3>1, <3>2 DEF PutFresh
  <2>6. NoResurrection'
    BY <2>1 DEF NoResurrection
  <2> QED BY <2>2, <2>3, <2>4, <2>5, <2>6
<1>8. ASSUME NEW p \in Procs, SweepShard(p) PROVE IInv'
  <2> DEFINE s == loc[p].next
             K == KeysOf(s) \cap loc[p].match
  <2>0. s \in Shards /\ s + 1 \in Nat /\ loc[p].mark \in Nat /\ loc[p].mark <= epoch
    BY <1>type, SMTT(60) DEF Locals, MarksPast, Shards
  <2>1. /\ m' \in [Keys -> Entry \cup {None}] /\ flushed' \in [Keys -> Nat]
        /\ \A j \in Keys : flushed'[j] <= epoch
        /\ \A j \in Keys : j \notin K => m'[j] = m[j] /\ flushed'[j] = flushed[j]
        /\ \A j \in Keys : j \in K => m'[j] = None
    BY <1>8, <2>0, RemoveFacts DEF SweepShard, MarksPast
  <2>a. PICK l \in Locals, c \in {"sweep", "idle"} :
          /\ loc' = [loc EXCEPT ![p] = l] /\ pc' = [pc EXCEPT ![p] = c]
          /\ l.mark <= epoch
    <3>1. CASE s + 1 < shardCount
      <4>1. s + 1 \in Shards
        BY <2>0, <3>1, SMTT(60) DEF Shards
      <4>2. Frame(loc[p].key, loc[p].mark, 0, loc[p].match, s + 1) \in Locals
        BY <4>1, <1>type DEF Frame, Locals
      <4>3. pc' = [pc EXCEPT ![p] = "sweep"]
        BY <1>8, <3>1, <1>type DEF SweepShard
      <4> QED BY <1>8, <3>1, <4>2, <4>3, <2>0 DEF SweepShard, Frame
    <3>2. CASE ~(s + 1 < shardCount)
      BY <1>8, <3>2, <1>type, SMTT(60) DEF SweepShard, Return
    <3> QED BY <3>1, <3>2
  <2>b. pc[p] = "sweep" /\ UNCHANGED <<epoch, mu, clock>>
    BY <1>8 DEF SweepShard
  <2>2. TypeOK'
    BY <1>type, <2>1, <2>a, <2>b DEF TypeOK, PCs
  <2>3. MarksPast'
    BY <1>type, <2>1, <2>a, <2>b DEF MarksPast
  <2>4. LockInv'
    BY <1>type, <2>a, <2>b, SMTT(60) DEF LockInv
  <2>5. PutFresh'
    <3> SUFFICES ASSUME NEW q \in Procs, pc'[q] = "put"
                 PROVE  loc'[q].mark >= flushed'[loc'[q].key]
      BY DEF PutFresh
    <3>1. q # p /\ loc'[q] = loc[q] /\ pc[q] = "put" /\ loc[q].key \in Keys
      BY <1>8, <1>type DEF SweepShard, Return, Frame, Locals
    <3>2. loc[q].key \notin K
      BY <1>8, <3>1, SMTT(60) DEF SweepShard, LockInv, KeysOf
    <3> QED BY <2>1, <3>1, <3>2 DEF PutFresh
  <2>6. NoResurrection'
    BY <2>1 DEF NoResurrection
  <2> QED BY <2>2, <2>3, <2>4, <2>5, <2>6
<1>9. CASE Tick
  BY <1>9, SMTT(60) DEF Tick, TypeOK, MarksPast, LockInv, PutFresh, NoResurrection
<1>10. CASE UNCHANGED vars
  BY <1>10 DEF vars, TypeOK, MarksPast, LockInv, PutFresh, NoResurrection
<1>11. ASSUME NEW p \in Procs, Call(p) PROVE IInv'
  <2>1. Blank.key \in Keys
    BY DEF Locals
  <2>2. CASE \E k \in Keys : Epoch(p, k)
    BY <2>2, <1>1
  <2>3. ASSUME NEW k \in Keys, Delete(p, k) PROVE IInv'
    <3>1. Bump(p, "delete", k, {})
      BY <2>3 DEF Delete
    <3> QED BY ONLY <3>1, <1>6
  <2>4. ASSUME NEW g \in Groups, DeleteGroup(p, g) PROVE IInv'
    <3> DEFINE K == {k \in Keys : groupOf[k] = g}
    <3>1. Bump(p, "sweep", Blank.key, K)
      BY <2>4 DEF DeleteGroup
    <3>2. K \in SUBSET Keys
      OBVIOUS
    <3> HIDE DEF K
    <3> QED BY ONLY <3>1, <3>2, <2>1, <1>6
  <2>5. ASSUME Clear(p) PROVE IInv'
    <3>1. Bump(p, "sweep", Blank.key, Keys)
      BY <2>5 DEF Clear
    <3> QED BY ONLY <3>1, <2>1, <1>6
  <2> QED BY <1>11, <2>2, <2>3, <2>4, <2>5 DEF Call
<1>12. ASSUME NEW p \in Procs, Step(p) PROVE IInv'
  BY <1>12, <1>2, <1>3, <1>4, <1>5, <1>7, <1>8 DEF Step
<1> QED BY <1>9, <1>10, <1>11, <1>12 DEF Next

(* Cache's values stay in their types.                                      *)
THEOREM CacheTypeOK == Spec => []TypeOK
<1>1. IInv => TypeOK
  BY DEF IInv
<1> QED BY <1>1, InitIInv, NextIInv, PTL DEF Spec

(* A completed Delete, DeleteGroup or Clear is never undone by a Set whose   *)
(* value was loaded before it, for any number of goroutines and shards.     *)
THEOREM CacheNoResurrection == Spec => []NoResurrection
<1>1. IInv => NoResurrection
  BY DEF IInv
<1> QED BY <1>1, InitIInv, NextIInv, PTL DEF Spec

----------------------------------------------------------------------------
(* The capacity of a shard *)

(* The keys in a shard form a finite set.                                   *)
LEMMA StoredFinite ==
  ASSUME NEW s
  PROVE  /\ IsFiniteSet(Stored(s)) /\ Cardinality(Stored(s)) \in Nat
         /\ IsFiniteSet(Stored(s)') /\ Cardinality(Stored(s)') \in Nat
<1>1. Stored(s) \in SUBSET Keys /\ Stored(s)' \in SUBSET Keys
  BY DEF Stored, KeysOf
<1> QED BY <1>1, FS_Subset, FS_CardinalityType, CacheAssumption

(* There is room for at least one entry in every shard.                     *)
LEMMA PerShardType == perShard \in Nat /\ perShard >= 1
BY CacheAssumption, SMTT(60) DEF perShard

(* A set that only loses elements gets no larger.                           *)
LEMMA Shrinks ==
  ASSUME NEW s, Stored(s)' \subseteq Stored(s), Cardinality(Stored(s)) <= perShard
  PROVE  Cardinality(Stored(s)') <= perShard
BY StoredFinite, PerShardType, FS_Subset, SMTT(60)

(* evict leaves room for one more entry.                                    *)
LEMMA EvictMakesRoom ==
  ASSUME NEW s, NEW now, NEW gone \in evict(s, now)
  PROVE  Cardinality(Stored(s) \ gone) < perShard
<1> DEFINE alive == Stored(s) \ Expired(s, now)
           excess == Cardinality(alive) - perShard + 1
           n == IF excess > 0 THEN excess ELSE 0
<1>1. PICK D \in kSubset(n, alive) : gone = Expired(s, now) \cup D
  BY DEF evict
<1>2. IsFiniteSet(alive) /\ Cardinality(alive) \in Nat
  BY StoredFinite, FS_Difference, FS_CardinalityType
<1>3. D \in SUBSET alive /\ Cardinality(D) = n
  BY <1>1 DEF kSubset
<1>4. Stored(s) \ gone = alive \ D
  BY <1>1
<1>5. alive \cap D = D
  BY <1>3
<1>6. Cardinality(alive \ D) = Cardinality(alive) - Cardinality(alive \cap D)
  BY <1>2, FS_Difference
<1>7. n \in Nat /\ n >= Cardinality(alive) - perShard + 1
  BY <1>2, PerShardType, SMTT(60)
<1>8. Cardinality(Stored(s) \ gone) = Cardinality(alive) - n
  BY <1>3, <1>4, <1>5, <1>6
<1> HIDE DEF alive, n
<1> QED BY <1>2, <1>7, <1>8, PerShardType

(* Each step keeps every shard within its capacity.                         *)
LEMMA NextShardBound == IInv /\ ShardBound /\ [Next]_vars => ShardBound'
<1> SUFFICES ASSUME IInv, ShardBound, [Next]_vars, NEW s \in Shards
             PROVE  Cardinality(Stored(s)') <= perShard
  BY DEF ShardBound, Stored, KeysOf
<1>0. Cardinality(Stored(s)) <= perShard
  BY DEF ShardBound
<1>1. ASSUME NEW p \in Procs, SetPut(p) PROVE Cardinality(Stored(s)') <= perShard
  <2> DEFINE k == loc[p].key
             new == [loaded |-> loc[p].mark, expires |-> expiresAt(loc[p].now)]
             full == m[k] = None /\ Cardinality(Stored(shardFor[k])) >= perShard
  <2>1. k \in Keys /\ new \in Entry
    BY ExpiresType DEF IInv, TypeOK, Locals, Entry
  <2>2. PICK gone \in IF full THEN evict(shardFor[k], loc[p].now) ELSE {{}} :
          m' = [j \in Keys |-> IF j = k THEN new
                               ELSE IF j \in gone THEN None ELSE m[j]]
    BY <1>1 DEF SetPut
  <2>3. CASE shardFor[k] # s
    <3>1. Stored(s)' \subseteq Stored(s)
      BY <2>1, <2>2, <2>3 DEF Stored, KeysOf
    <3> QED BY <3>1, <1>0, Shrinks
  <2>4. CASE shardFor[k] = s /\ m[k] # None
    <3>1. Stored(s)' \subseteq Stored(s)
      BY <2>1, <2>2, <2>4 DEF Stored, KeysOf
    <3> QED BY <3>1, <1>0, Shrinks
  <2>5. CASE shardFor[k] = s /\ m[k] = None
    <3>1. Cardinality(Stored(s) \ gone) < perShard
      <4>1. CASE full
        BY <4>1, <2>2, <2>5, EvictMakesRoom
      <4>2. CASE ~full
        <5>1. Stored(s) \ gone = Stored(s)
          BY <4>2, <2>2
        <5> QED BY <4>2, <5>1, <2>5, StoredFinite, PerShardType, SMTT(60)
      <4> QED BY <4>1, <4>2
    <3>2. Stored(s)' = (Stored(s) \ gone) \cup {k}
      BY <2>1, <2>2, <2>5, CacheAssumption DEF Stored, KeysOf
    <3>3. /\ IsFiniteSet(Stored(s) \ gone) /\ Cardinality(Stored(s) \ gone) \in Nat
          /\ k \notin Stored(s) \ gone
      BY <2>5, StoredFinite, FS_Difference, FS_CardinalityType DEF Stored
    <3>4. Cardinality(Stored(s)') = Cardinality(Stored(s) \ gone) + 1
      BY <3>2, <3>3, FS_AddElement
    <3> QED BY <3>1, <3>3, <3>4, PerShardType, SMTT(60)
  <2> QED BY <2>3, <2>4, <2>5
<1>2. ASSUME NEW p \in Procs, DeleteKey(p) \/ SweepShard(p)
      PROVE Cardinality(Stored(s)') <= perShard
  <2>1. Stored(s)' \subseteq Stored(s)
    BY <1>2 DEF DeleteKey, SweepShard, Remove, Stored, KeysOf
  <2> QED BY <2>1, <1>0, Shrinks
<1>3. CASE UNCHANGED m
  BY <1>3, <1>0 DEF Stored, KeysOf
<1>4. ASSUME NEW p \in Procs, Call(p) PROVE UNCHANGED m
  BY <1>4 DEF Call, Epoch, Delete, DeleteGroup, Clear, Bump
<1>5. ASSUME NEW p \in Procs, SetEnter(p) \/ SetLock(p) \/ SetCheck(p)
      PROVE UNCHANGED m
  BY <1>5 DEF SetEnter, SetLock, SetCheck
<1>6. Tick \/ UNCHANGED vars => UNCHANGED m
  BY DEF Tick, vars
<1> QED BY <1>1, <1>2, <1>3, <1>4, <1>5, <1>6 DEF Next, Step

(* No shard ever holds more entries than its capacity, however many          *)
(* goroutines store at once.                                               *)
THEOREM CacheShardBound == Spec => []ShardBound
<1>1. Init => ShardBound
  <2> SUFFICES ASSUME Init, NEW s \in Shards PROVE Cardinality(Stored(s)) <= perShard
    BY DEF ShardBound
  <2>1. Stored(s) = {}
    BY DEF Init, Stored, KeysOf
  <2> QED BY <2>1, FS_EmptySet, PerShardType, SMTT(60)
<1> QED BY <1>1, InitIInv, NextIInv, NextShardBound, PTL DEF Spec

----------------------------------------------------------------------------
(* The order of eviction *)

(* evict takes expired entries only, or all of them and just enough others.  *)
LEMMA EvictExact ==
  ASSUME NEW s, NEW now, NEW gone \in evict(s, now)
  PROVE  \/ gone \subseteq Expired(s, now)
         \/ Expired(s, now) \subseteq gone /\ Cardinality(Stored(s) \ gone) = perShard - 1
<1> DEFINE alive == Stored(s) \ Expired(s, now)
           excess == Cardinality(alive) - perShard + 1
           n == IF excess > 0 THEN excess ELSE 0
<1>1. PICK D \in kSubset(n, alive) : gone = Expired(s, now) \cup D
  BY DEF evict
<1>2. IsFiniteSet(alive) /\ Cardinality(alive) \in Nat
  BY StoredFinite, FS_Difference, FS_CardinalityType
<1>3. D \in SUBSET alive /\ Cardinality(D) = n
  BY <1>1 DEF kSubset
<1>4. CASE n = 0
  <2>1. IsFiniteSet(D)
    BY <1>2, <1>3, FS_Subset
  <2>2. D = {}
    BY <1>3, <1>4, <2>1, FS_EmptySet
  <2> QED BY <1>1, <2>2
<1>5. CASE n # 0
  <2>1. Stored(s) \ gone = alive \ D /\ alive \cap D = D
    BY <1>1, <1>3
  <2>2. Cardinality(alive \ D) = Cardinality(alive) - Cardinality(alive \cap D)
    BY <1>2, FS_Difference
  <2>3. n = Cardinality(alive) - perShard + 1
    BY <1>5
  <2>4. Cardinality(Stored(s) \ gone) = Cardinality(alive) - n
    BY <1>3, <2>1, <2>2
  <2> HIDE DEF alive, n
  <2>5. Cardinality(Stored(s) \ gone) = perShard - 1
    BY <1>2, <2>3, <2>4, PerShardType, SMTT(60)
  <2> QED BY <1>1, <2>5
<1> QED BY <1>4, <1>5

(* A Set that stores evicts so.                                             *)
LEMMA PutDrops ==
  ASSUME IInv, NEW p \in Procs, SetPut(p)
  PROVE  Drops(p)
<1> DEFINE k == loc[p].key
           s == shardFor[k]
           now == loc[p].now
           new == [loaded |-> loc[p].mark, expires |-> expiresAt(loc[p].now)]
           full == m[k] = None /\ Cardinality(Stored(s)) >= perShard
           lost == {j \in Stored(s) : m'[j] = None}
           left == {j \in KeysOf(s) : m'[j] # None}
<1>1. k \in Keys /\ new \in Entry /\ new # None
  BY ExpiresType, CacheAssumption, SMTT(60) DEF IInv, TypeOK, Locals, Entry
<1>2. PICK gone \in IF full THEN evict(s, now) ELSE {{}} :
        m' = [j \in Keys |-> IF j = k THEN new ELSE IF j \in gone THEN None ELSE m[j]]
  BY DEF SetPut
<1>3. Stored(s) \subseteq Keys /\ \A j \in Stored(s) : m[j] # None
  BY DEF Stored, KeysOf
<1>4. lost \subseteq gone
  BY <1>1, <1>2, <1>3
<1>5. CASE ~full
  <2>1. lost = {}
    BY <1>2, <1>4, <1>5
  <2> QED BY <2>1 DEF Drops
<1>6. CASE full
  <2>1. gone \in evict(s, now) /\ k \notin Stored(s)
    BY <1>2, <1>3, <1>6
  <2>2. CASE gone \subseteq Expired(s, now)
    BY <1>4, <2>2 DEF Drops
  <2>3. CASE Expired(s, now) \subseteq gone /\ Cardinality(Stored(s) \ gone) = perShard - 1
    <3>1. Expired(s, now) \subseteq lost
      <4>1. ASSUME NEW j \in Expired(s, now) PROVE j \in lost
        <5>1. j \in Stored(s) /\ j \in gone
          BY <2>3 DEF Expired
        <5> QED BY <1>2, <1>3, <2>1, <5>1
      <4> QED BY <4>1
    <3>2. left = (Stored(s) \ gone) \cup {k}
      BY <1>1, <1>2, <1>6, CacheAssumption DEF Stored, KeysOf
    <3>3. /\ IsFiniteSet(Stored(s) \ gone) /\ Cardinality(Stored(s) \ gone) \in Nat
          /\ k \notin Stored(s) \ gone
      BY <2>1, StoredFinite, FS_Difference, FS_CardinalityType
    <3>4. Cardinality(left) = Cardinality(Stored(s) \ gone) + 1
      BY <3>2, <3>3, FS_AddElement
    <3>5. Cardinality(left) = perShard
      BY <2>3, <3>4, PerShardType, SMTT(60)
    <3> QED BY <3>1, <3>5 DEF Drops
  <2> QED BY <2>1, <2>2, <2>3, EvictExact
<1> QED BY <1>5, <1>6

(* evict of cache.go keeps live entries as long as it can, for any shards,   *)
(* keys and goroutines: what Set drops is expired, or all that is expired    *)
(* goes with it and the shard is left exactly full.                         *)
THEOREM CacheEvictsInOrder == Spec => EvictsInOrder
<1>1. IInv /\ [Next]_vars =>
        [\A p \in Procs : pc[p] = "put" /\ pc'[p] = "idle" => Drops(p)]_vars
  <2> SUFFICES ASSUME IInv, Next, NEW p \in Procs, pc[p] = "put", pc'[p] = "idle"
               PROVE  Drops(p)
    OBVIOUS
  <2>0. pc \in [Procs -> PCs]
    BY DEF IInv, TypeOK
  <2>1. ASSUME NEW q \in Procs, Call(q) PROVE FALSE
    BY <2>0, <2>1 DEF Call, Epoch, Delete, DeleteGroup, Clear, Bump
  <2>2. ASSUME NEW q \in Procs, SetPut(q) PROVE Drops(p)
    <3>1. pc' = [pc EXCEPT ![q] = "idle"]
      BY <2>2 DEF SetPut, Return
    <3>2. q = p
      BY <2>0, <3>1
    <3> QED BY <2>2, <3>2, PutDrops
  <2>3. ASSUME NEW q \in Procs, SetEnter(q) \/ SetLock(q) \/ SetCheck(q) \/ DeleteKey(q) \/ SweepShard(q)
        PROVE  FALSE
    BY <2>0, <2>3 DEF SetEnter, SetLock, SetCheck, DeleteKey, SweepShard, Return
  <2>4. ~Tick
    BY DEF Tick
  <2> QED BY <2>1, <2>2, <2>3, <2>4 DEF Next, Step
<1> QED BY <1>1, InitIInv, NextIInv, PTL DEF Spec, EvictsInOrder
=============================================================================
