---------------------------- MODULE ListingProofs ----------------------------
(***************************************************************************)
(* Proofs about the listings: for any clients, keys and page sizes a key is  *)
(* listed once and in order, what stays is listed, and a list of records is  *)
(* complete when it ends.                                                  *)
(***************************************************************************)
EXTENDS Listing, FiniteSetTheorems, TLAPS

\* The provers that a leaf is given to, in this order, unless it names one.
USE ZenonT(60), SMTT(60)

----------------------------------------------------------------------------
(* The inductive invariant *)

Increasing(s) == \A i, j \in DOMAIN s : i < j => s[i] < s[j]

\* The lock of the zone's row is had by the one creator that is under way.
Locked ==
    \A c \in Creators : cpc[c] # "idle" => kind = "records" /\ zlock = c

\* Ids come from the sequence.
Issued ==
    /\ IsFiniteSet(rows)
    /\ kind = "records" => rows \subseteq 1 .. lastID /\ token <= lastID
    /\ kind = "zones" => rows \subseteq Names

\* What a creator is about to commit is there already, or comes after all that
\* is there and after the page token.
Fresh ==
    \A c \in Creators : cpc[c] = "inserted" =>
      /\ cid[c] \in 1 .. lastID
      /\ \/ cid[c] \in rows
         \/ token < cid[c] /\ \A r \in rows : r < cid[c]

\* The client has all keys up to the page token, but those of zones that were
\* created after the loop began.
Listed ==
    /\ got \in Seq(Nat) /\ Increasing(got)
    /\ lpc = "idle" => token = 0 /\ got = <<>>
    /\ lpc \in {"getZone", "page"} =>
         /\ \A i \in DOMAIN got : got[i] <= token
         /\ \A r \in stayed : r <= token => r \in Range(got)
         /\ kind = "records" => \A r \in rows : r <= token => r \in Range(got)
    /\ lpc = "done" => stayed \subseteq Range(got)

IInv == TypeOK /\ Locked /\ Issued /\ Fresh /\ Listed

----------------------------------------------------------------------------
(* Places, Select and Page *)

(* The places of a finite set of keys: one for each key, in their order, and *)
(* a key for each.                                                          *)
LEMMA PlaceFacts ==
  ASSUME NEW K, K \subseteq Int, IsFiniteSet(K)
  PROVE  /\ Cardinality(K) \in Nat
         /\ \A r \in K : Place(r, K) \in 1 .. Cardinality(K)
         /\ \A q, r \in K : q < r => Place(q, K) < Place(r, K)
         /\ \A q, r \in K : Place(q, K) = Place(r, K) => q = r
         /\ \A i \in 1 .. Cardinality(K) : \E r \in K : Place(r, K) = i
<1> DEFINE Up(r) == {q \in K : q <= r}
<1>0. Cardinality(K) \in Nat
  BY FS_CardinalityType
<1>1. ASSUME NEW r \in K
      PROVE  IsFiniteSet(Up(r)) /\ Cardinality(Up(r)) \in 1 .. Cardinality(K)
  <2>1. IsFiniteSet(Up(r)) /\ Cardinality(Up(r)) <= Cardinality(K)
    BY FS_Subset
  <2>2. Cardinality(Up(r)) \in Nat
    BY <2>1, FS_CardinalityType
  <2>3. r \in Up(r)
    BY SMTT(60)
  <2>4. Cardinality(Up(r)) # 0
    BY <2>1, <2>3, FS_EmptySet
  <2> QED BY <1>0, <2>1, <2>2, <2>4, SMTT(60)
<1>2. ASSUME NEW q \in K, NEW r \in K, q < r
      PROVE  Cardinality(Up(q)) < Cardinality(Up(r))
  <2>0. \A x \in K : x \in Int
    OBVIOUS
  <2>1. Up(q) \subseteq Up(r) /\ r \in Up(r) /\ r \notin Up(q)
    <3>1. ASSUME NEW x \in K, x <= q PROVE x <= r
      BY <1>2, <2>0, <3>1, SMTT(60)
    <3>2. r <= r /\ ~(r <= q)
      BY <1>2, <2>0
    <3> QED BY <3>1, <3>2
  <2>2. /\ Cardinality(Up(q)) <= Cardinality(Up(r))
        /\ Cardinality(Up(r)) = Cardinality(Up(q)) => Up(r) = Up(q)
    BY <2>1, <1>1, FS_Subset
  <2> HIDE DEF Up
  <2> QED BY <2>1, <2>2, <1>1, SMTT(60)
<1>3. ASSUME NEW q \in K, NEW r \in K, Cardinality(Up(q)) = Cardinality(Up(r))
      PROVE  q = r
  <2>1. q \in Int /\ r \in Int
    OBVIOUS
  <2>2. ~(q < r)
    BY <1>1, <1>2, <1>3, SMTT(60)
  <2>3. ~(r < q)
    BY <1>1, <1>2, <1>3, SMTT(60)
  <2> QED BY <2>1, <2>2, <2>3, SMTT(60)
<1>4. \A i \in 1 .. Cardinality(K) : \E r \in K : Cardinality(Up(r)) = i
  <2> DEFINE f == [r \in K |-> Cardinality(Up(r))]
             T == 1 .. Cardinality(K)
  <2>1. f \in Injection(K, T)
    <3> HIDE DEF Up
    <3> QED BY <1>1, <1>3 DEF Injection, IsInjective
  <2>2. IsFiniteSet(T) /\ Cardinality(T) = Cardinality(K)
    BY <1>0, FS_Interval, SMTT(60)
  <2>3. f \in Surjection(K, T)
    <3> HIDE DEF f, T
    <3> QED BY <2>1, <2>2, FS_Injection
  <2> HIDE DEF Up
  <2> QED BY <2>3 DEF Surjection
<1> HIDE DEF Up
<1>5. \A r : Place(r, K) = Cardinality(Up(r))
  BY DEF Place, Up
<1> QED BY <1>0, <1>1, <1>2, <1>3, <1>4, <1>5, SMTT(60)

(* What Select returns: the first n keys after the token, in order.         *)
LEMMA SelectFacts ==
  ASSUME rows \subseteq Int, IsFiniteSet(rows), NEW after \in Int, NEW n \in Nat,
         NEW K, K = {r \in rows : r > after}
  PROVE  /\ Select(after, n) \in Seq(K)
         /\ Cardinality(K) \in Nat
         /\ Len(Select(after, n)) = IF Cardinality(K) < n THEN Cardinality(K) ELSE n
         /\ \A i \in 1 .. Len(Select(after, n)) :
              Select(after, n)[i] \in K /\ Place(Select(after, n)[i], K) = i
<1> DEFINE size == Cardinality(K)
           len == IF size < n THEN size ELSE n
<1>1. K \subseteq Int /\ IsFiniteSet(K)
  BY FS_Subset
<1>2. /\ size \in Nat
      /\ \A i \in 1 .. size : \E r \in K : Place(r, K) = i
  BY <1>1, PlaceFacts
<1> DEFINE key(i) == CHOOSE r \in K : Place(r, K) = i
<1>3. Select(after, n) = [i \in 1 .. len |-> key(i)]
  BY DEF Select
<1>4. len \in Nat /\ len <= size
  BY <1>2
<1> HIDE DEF size
<1>5. ASSUME NEW i \in 1 .. len
      PROVE  key(i) \in K /\ Place(key(i), K) = i
  <2>1. \E r \in K : Place(r, K) = i
    BY <1>2, <1>4, SMTT(60)
  <2> QED BY <2>1
<1> HIDE DEF len, key
<1>6. Select(after, n) \in [1 .. len -> K]
  BY <1>3, <1>5
<1>7. Select(after, n) \in Seq(K) /\ Len(Select(after, n)) = len
  BY <1>4, <1>6, SMTT(60)
<1>8. \A i \in 1 .. len : Select(after, n)[i] \in K /\ Place(Select(after, n)[i], K) = i
  BY <1>3, <1>5
<1> QED BY <1>2, <1>7, <1>8 DEF size, len

(* What Page returns: keys after the token in order, and either all of them  *)
(* and no token, or those up to the next token.                             *)
LEMMA PageFacts ==
  ASSUME rows \subseteq Int, IsFiniteSet(rows), NEW after \in Int, NEW n \in Nat \ {0},
         NEW K, K = {r \in rows : r > after},
         NEW p, p = Page(after, n)
  PROVE  /\ p.rows \in Seq(K) /\ Increasing(p.rows)
         /\ \/ p.next = 0 /\ K \subseteq Range(p.rows)
            \/ /\ p.next \in K
               /\ \A i \in DOMAIN p.rows : p.rows[i] <= p.next
               /\ \A r \in K : r <= p.next => r \in Range(p.rows)
<1> DEFINE s == Select(after, n + 1)
<1>1. K \subseteq Int /\ IsFiniteSet(K)
  BY FS_Subset
<1>2. /\ s \in Seq(K) /\ Cardinality(K) \in Nat
      /\ Len(s) = IF Cardinality(K) < n + 1 THEN Cardinality(K) ELSE n + 1
      /\ \A i \in 1 .. Len(s) : s[i] \in K /\ Place(s[i], K) = i
  <2> DEFINE m == n + 1
  <2>1. m \in Nat
    BY SMTT(60)
  <2> HIDE DEF m
  <2>2. /\ Select(after, m) \in Seq(K) /\ Cardinality(K) \in Nat
        /\ Len(Select(after, m)) = IF Cardinality(K) < m THEN Cardinality(K) ELSE m
        /\ \A i \in 1 .. Len(Select(after, m)) :
             Select(after, m)[i] \in K /\ Place(Select(after, m)[i], K) = i
    BY <2>1, SelectFacts
  <2> QED BY <2>2 DEF m
<1>3. p = IF Len(s) > n THEN [rows |-> SubSeq(s, 1, n), next |-> s[n]]
          ELSE [rows |-> s, next |-> 0]
  BY DEF Page
<1> HIDE DEF s
<1>4. /\ \A r \in K : Place(r, K) \in 1 .. Cardinality(K)
      /\ \A q, r \in K : q < r => Place(q, K) < Place(r, K)
      /\ \A q, r \in K : Place(q, K) = Place(r, K) => q = r
  BY <1>1, PlaceFacts
<1>5. \A i, j \in 1 .. Len(s) : i < j => s[i] < s[j]
  <2> SUFFICES ASSUME NEW i \in 1 .. Len(s), NEW j \in 1 .. Len(s), i < j, ~(s[i] < s[j])
               PROVE  FALSE
    OBVIOUS
  <2>1. s[i] \in K /\ s[j] \in K /\ s[i] \in Int /\ s[j] \in Int
    BY <1>1, <1>2
  <2>2. Place(s[i], K) = i /\ Place(s[j], K) = j
    BY <1>2
  <2>3. s[j] # s[i]
    BY <2>2, SMTT(60)
  <2>4. s[j] < s[i]
    BY <2>1, <2>3, SMTT(60)
  <2>5. j < i
    BY <2>1, <2>2, <2>4, <1>4, SMTT(60)
  <2> QED BY <2>5
<1>6. ASSUME NEW r \in K, Place(r, K) <= Len(s)
      PROVE  Place(r, K) \in 1 .. Len(s) /\ s[Place(r, K)] = r
  <2>1. Place(r, K) \in 1 .. Len(s)
    BY <1>2, <1>4, <1>6, SMTT(60)
  <2>2. s[Place(r, K)] \in K /\ Place(s[Place(r, K)], K) = Place(r, K)
    BY <1>2, <2>1
  <2> QED BY <1>4, <2>1, <2>2
<1>7. CASE Len(s) > n
  <2>1. Len(s) = n + 1 /\ p.rows = SubSeq(s, 1, n) /\ p.next = s[n]
    BY <1>2, <1>3, <1>7, SMTT(60)
  <2>2. p.rows \in Seq(K) /\ DOMAIN p.rows = 1 .. n /\ \A i \in 1 .. n : p.rows[i] = s[i]
    BY <1>2, <2>1, SMTT(60)
  <2>3. 1 .. n \subseteq 1 .. Len(s) /\ n \in 1 .. n /\ n \in 1 .. Len(s)
    BY <2>1, SMTT(60)
  <2>4. p.next \in K
    BY <1>2, <2>1, <2>3
  <2>5. Increasing(p.rows)
    BY <1>5, <2>2, <2>3 DEF Increasing
  <2>6. \A i \in DOMAIN p.rows : p.rows[i] <= p.next
    <3> SUFFICES ASSUME NEW i \in 1 .. n PROVE s[i] <= s[n]
      BY <2>1, <2>2
    <3>1. s[i] \in Int /\ s[n] \in Int
      BY <1>1, <1>2, <2>3
    <3>2. i < n => s[i] < s[n]
      BY <1>5, <2>3
    <3>3. i < n \/ i = n
      OBVIOUS
    <3> QED BY <3>1, <3>2, <3>3
  <2>7. ASSUME NEW r \in K, r <= p.next PROVE r \in Range(p.rows)
    <3>1. Place(s[n], K) = n /\ s[n] \in K /\ s[n] \in Int /\ r \in Int
      BY <1>1, <1>2, <2>3
    <3>2. Place(r, K) <= n
      <4>1. r < s[n] \/ r = s[n]
        BY <2>1, <2>7, <3>1, SMTT(60)
      <4>2. r < s[n] => Place(r, K) < n
        BY <1>4, <3>1, SMTT(60)
      <4> QED BY <1>4, <3>1, <4>1, <4>2, SMTT(60)
    <3>3. Place(r, K) \in 1 .. n /\ s[Place(r, K)] = r
      BY <1>4, <1>6, <2>1, <3>2, SMTT(60)
    <3> QED BY <2>2, <3>3 DEF Range
  <2> QED BY <2>2, <2>4, <2>5, <2>6, <2>7
<1>8. CASE ~(Len(s) > n)
  <2>1. Len(s) = Cardinality(K) /\ p.rows = s /\ p.next = 0
    BY <1>2, <1>3, <1>8, SMTT(60)
  <2>2. DOMAIN s = 1 .. Len(s)
    BY <1>2, SMTT(60)
  <2>3. Increasing(p.rows)
    BY <1>5, <2>1, <2>2 DEF Increasing
  <2>4. ASSUME NEW r \in K PROVE r \in Range(p.rows)
    <3>1. Place(r, K) \in 1 .. Len(s) /\ s[Place(r, K)] = r
      BY <1>4, <1>6, <2>1, SMTT(60)
    <3> QED BY <2>1, <2>2, <3>1 DEF Range
  <2> QED BY <1>2, <2>1, <2>3, <2>4
<1> QED BY <1>7, <1>8

----------------------------------------------------------------------------
(* The writers *)

(* Every key is a positive number.                                          *)
LEMMA KeyTypes ==
  ASSUME TypeOK
  PROVE  /\ rows \subseteq Nat \ {0} /\ token \in Nat /\ lastID \in Nat
         /\ stayed \subseteq rows
BY ListingAssumption, SMTT(60) DEF TypeOK

(* The client keeps what it has, whatever is deleted, and whatever record is  *)
(* created after the page token.                                            *)
LEMMA ListedKept ==
  ASSUME Listed, UNCHANGED <<kind, client>>, stayed' \subseteq stayed,
         rows' \subseteq Nat, token \in Nat,
         kind = "records" => \A r \in rows' : r \in rows \/ token < r
  PROVE  Listed'
<1>1. /\ kind' = kind /\ lpc' = lpc /\ token' = token /\ got' = got
  BY DEF client
<1>2. \A r \in rows' : r <= token /\ kind = "records" => r \in rows
  BY SMTT(60)
<1> QED BY <1>1, <1>2 DEF Listed

(* Keys are taken away while no creator is under way.                       *)
LEMMA RemovalKeeps ==
  ASSUME IInv, UNCHANGED <<kind, zlock, lastID, cpc, cid, client>>, zone' \in BOOLEAN,
         deletes' \in 0 .. MaxDeletes, \A c \in Creators : cpc[c] = "idle",
         rows' \subseteq rows, stayed' \subseteq stayed, stayed' \subseteq rows'
  PROVE  IInv'
<1> USE DEF IInv
<1>1. TypeOK'
  BY DEF TypeOK, client
<1>3. Locked' /\ Fresh'
  BY DEF Locked, Fresh
<1>4. IsFiniteSet(rows')
  BY FS_Subset DEF Issued
<1>5. Issued'
  BY <1>4 DEF Issued, client
<1>6. Listed'
  BY KeyTypes, ListedKept
<1> QED BY <1>1, <1>3, <1>5, <1>6

(* CreateRecord takes the lock, which nobody has.                           *)
LEMMA LockZoneKeeps ==
  ASSUME IInv, NEW c \in Creators, LockZone(c)
  PROVE  IInv'
<1> USE DEF IInv
<1>1. /\ UNCHANGED <<kind, zone, rows, lastID, cid, deletes, client, stayed>>
      /\ kind = "records" /\ zlock = None /\ zlock' = c
      /\ cpc' = [cpc EXCEPT ![c] = "locked"]
  BY DEF LockZone
<1>2. \A d \in Creators : cpc[d] = "idle"
  BY <1>1, ListingAssumption DEF Locked
<1>3. cpc \in [Creators -> {"idle", "locked", "inserted"}]
  BY DEF TypeOK
<1>4. \A d \in Creators : cpc'[d] = IF d = c THEN "locked" ELSE "idle"
  BY <1>1, <1>2, <1>3
<1>5. cpc' \in [Creators -> {"idle", "locked", "inserted"}]
  BY <1>1, <1>3
<1>6. TypeOK'
  BY <1>1, <1>5 DEF TypeOK, client
<1>7. Locked' /\ Fresh'
  BY <1>1, <1>4, SMTT(60) DEF Locked, Fresh
<1>8. Issued'
  BY <1>1 DEF Issued, client
<1>9. Listed'
  BY <1>1, KeyTypes, ListedKept
<1> QED BY <1>6, <1>7, <1>8, <1>9

(* Its insert takes an id after all that are there, or meets the record.    *)
LEMMA InsertKeeps ==
  ASSUME IInv, NEW c \in Creators, Insert(c)
  PROVE  IInv'
<1> USE DEF IInv
<1>1. /\ UNCHANGED <<kind, zone, zlock, rows, deletes, client, stayed>>
      /\ cpc[c] = "locked" /\ lastID < MaxID /\ lastID' = lastID + 1
      /\ cpc' = [cpc EXCEPT ![c] = "inserted"]
  BY DEF Insert
<1>2. PICK id \in {lastID + 1} \cup rows : cid' = [cid EXCEPT ![c] = id]
  BY DEF Insert
<1>3. kind = "records" /\ zlock = c
  BY <1>1 DEF Locked
<1>4. \A d \in Creators : d # c => cpc[d] = "idle"
  BY <1>3 DEF Locked
<1>5. /\ cpc \in [Creators -> {"idle", "locked", "inserted"}]
      /\ cid \in [Creators -> 0 .. MaxID] /\ lastID \in 0 .. MaxID /\ MaxID \in Nat
  BY ListingAssumption DEF TypeOK
<1>6. /\ \A d \in Creators : cpc'[d] = IF d = c THEN "inserted" ELSE "idle"
      /\ cid'[c] = id
  BY <1>1, <1>2, <1>4, <1>5
<1>7. rows \subseteq 1 .. lastID /\ token <= lastID /\ token \in Nat
  BY <1>3, KeyTypes DEF Issued
<1>8. /\ id \in 1 .. lastID' /\ lastID' \in 0 .. MaxID /\ 1 .. lastID \subseteq 1 .. lastID'
      /\ 1 .. lastID' \subseteq 0 .. MaxID
  BY <1>1, <1>5, <1>7, SMTT(60)
<1>9. id \in rows \/ (token < id /\ \A r \in rows : r < id)
  BY <1>5, <1>7, SMTT(60)
<1>10. /\ cpc' \in [Creators -> {"idle", "locked", "inserted"}]
       /\ cid' \in [Creators -> 0 .. MaxID]
  BY <1>1, <1>2, <1>5, <1>8
<1>11. TypeOK'
  BY <1>1, <1>8, <1>10 DEF TypeOK, client
<1>12. Locked'
  BY <1>1, <1>3, <1>6 DEF Locked
<1>13. Fresh'
  BY <1>1, <1>6, <1>8, <1>9, SMTT(60) DEF Fresh, client
<1>14. token <= lastID'
  BY <1>1, <1>5, <1>7, SMTT(60)
<1>15. Issued'
  BY <1>1, <1>3, <1>7, <1>8, <1>14 DEF Issued, client
<1>16. Listed'
  BY <1>1, KeyTypes, ListedKept
<1> QED BY <1>11, <1>12, <1>13, <1>15, <1>16

(* It commits that id, or rolls back.                                       *)
LEMMA EndCreateKeeps ==
  ASSUME IInv, NEW c \in Creators, EndCreate(c)
  PROVE  IInv'
<1> USE DEF IInv
<1>1. /\ UNCHANGED <<kind, zone, lastID, deletes, client, stayed>>
      /\ cpc[c] # "idle" /\ cpc' = [cpc EXCEPT ![c] = "idle"]
      /\ zlock' = IF zlock = c THEN None ELSE zlock
      /\ cid' = [cid EXCEPT ![c] = 0]
      /\ \/ cpc[c] = "inserted" /\ rows' = rows \cup {cid[c]}
         \/ rows' = rows
  BY DEF EndCreate
<1>3. kind = "records" /\ zlock = c /\ zlock' = None
  BY <1>1 DEF Locked
<1>4. \A d \in Creators : d # c => cpc[d] = "idle"
  BY <1>3 DEF Locked
<1>5. /\ cpc \in [Creators -> {"idle", "locked", "inserted"}]
      /\ cid \in [Creators -> 0 .. MaxID] /\ lastID \in 0 .. MaxID /\ MaxID \in Nat
  BY ListingAssumption DEF TypeOK
<1>6. \A d \in Creators : cpc'[d] = "idle"
  BY <1>1, <1>4, <1>5
<1>7. rows \subseteq 1 .. lastID /\ token <= lastID /\ token \in Nat
  BY <1>3, KeyTypes DEF Issued
<1>8. /\ rows' \subseteq 1 .. lastID /\ rows \subseteq rows'
      /\ \A r \in rows' : r \in rows \/ token < r
  BY <1>1, <1>7 DEF Fresh
<1>9. IsFiniteSet(rows')
  BY <1>1, FS_AddElement DEF Issued
<1>10. /\ cpc' \in [Creators -> {"idle", "locked", "inserted"}]
       /\ cid' \in [Creators -> 0 .. MaxID]
       /\ 1 .. lastID \subseteq 1 .. MaxID /\ 1 .. lastID \subseteq Nat
  BY <1>1, <1>5, SMTT(60)
<1>11. TypeOK'
  BY <1>1, <1>3, <1>8, <1>10 DEF TypeOK, client
<1>12. Locked' /\ Fresh'
  BY <1>6 DEF Locked, Fresh
<1>13. Issued'
  BY <1>1, <1>3, <1>7, <1>8, <1>9 DEF Issued, client
<1>14. Listed'
  BY <1>1, <1>7, <1>8, <1>10, ListedKept
<1> QED BY <1>11, <1>12, <1>13, <1>14

(* A zone is created: the names after the token are no matter, nor those     *)
(* before it, which were not there when the loop began.                     *)
LEMMA CreateZoneKeeps ==
  ASSUME IInv, NEW n \in Names, CreateZone(n)
  PROVE  IInv'
<1> USE DEF IInv
<1>1. /\ UNCHANGED <<kind, zone, zlock, lastID, cpc, cid, deletes, client, stayed>>
      /\ kind = "zones" /\ rows' = rows \cup {n}
  BY DEF CreateZone
<1>2. IsFiniteSet(rows')
  BY <1>1, FS_AddElement DEF Issued
<1>3. \A c \in Creators : cpc[c] = "idle"
  BY <1>1 DEF Locked
<1>4. TypeOK'
  BY <1>1 DEF TypeOK, client
<1>5. Locked' /\ Fresh'
  BY <1>1, <1>3 DEF Locked, Fresh
<1>6. Issued'
  BY <1>1, <1>2 DEF Issued, client
<1>7. n \in Nat
  BY ListingAssumption
<1>8. Listed'
  BY <1>1, <1>7, KeyTypes, ListedKept
<1> QED BY <1>4, <1>5, <1>6, <1>8

(* Every step of a writer keeps the invariant.                              *)
LEMMA WriteKeeps ==
  ASSUME IInv, Write
  PROVE  IInv'
<1>0. /\ deletes \in 0 .. MaxDeletes /\ MaxDeletes \in Nat /\ stayed \subseteq rows
      /\ zone \in BOOLEAN
  BY ListingAssumption DEF IInv, TypeOK
<1>1. deletes < MaxDeletes => deletes + 1 \in 0 .. MaxDeletes
  BY <1>0, SMTT(60)
<1>2. ASSUME NEW r \in rows, DeleteRecord(r) PROVE IInv'
  <2>1. /\ UNCHANGED <<kind, zone, zlock, lastID, cpc, cid, client>>
        /\ zlock = None /\ deletes' \in 0 .. MaxDeletes
        /\ rows' = rows \ {r} /\ stayed' = stayed \ {r}
    BY <1>1, <1>2 DEF DeleteRecord
  <2>2. \A c \in Creators : cpc[c] = "idle"
    BY <2>1, ListingAssumption DEF IInv, Locked
  <2> QED BY <1>0, <2>1, <2>2, RemovalKeeps
<1>3. ASSUME NEW r \in rows, DeleteZone(r) PROVE IInv'
  <2>1. /\ UNCHANGED <<kind, zone, zlock, lastID, cpc, cid, client>>
        /\ kind = "zones" /\ deletes' \in 0 .. MaxDeletes
        /\ rows' = rows \ {r} /\ stayed' = stayed \ {r}
    BY <1>1, <1>3 DEF DeleteZone
  <2>2. \A c \in Creators : cpc[c] = "idle"
    BY <2>1 DEF IInv, Locked
  <2> QED BY <1>0, <2>1, <2>2, RemovalKeeps
<1>4. CASE DropZone
  <2>1. /\ UNCHANGED <<kind, zlock, lastID, cpc, cid, client>>
        /\ zlock = None /\ deletes' \in 0 .. MaxDeletes
        /\ zone' = FALSE /\ rows' = {} /\ stayed' = {}
    BY <1>1, <1>4 DEF DropZone
  <2>2. \A c \in Creators : cpc[c] = "idle"
    BY <2>1, ListingAssumption DEF IInv, Locked
  <2> QED BY <2>1, <2>2, RemovalKeeps
<1>5. CASE MakeZone
  <2>1. /\ UNCHANGED <<kind, zlock, rows, lastID, cpc, cid, deletes, client, stayed>>
        /\ zone' = TRUE
    BY <1>5 DEF MakeZone
  <2>2. TypeOK'
    BY <2>1 DEF IInv, TypeOK, client
  <2>3. Locked' /\ Fresh' /\ Issued'
    BY <2>1 DEF IInv, Locked, Fresh, Issued, client
  <2>4. Listed'
    BY <2>1, KeyTypes, ListedKept DEF IInv
  <2> QED BY <2>2, <2>3, <2>4 DEF IInv
<1> QED
  BY <1>2, <1>3, <1>4, <1>5, LockZoneKeeps, InsertKeeps, EndCreateKeeps, CreateZoneKeeps DEF Write

----------------------------------------------------------------------------
(* The client *)

(* The size of a page is at least one and at most the limit.                *)
LEMMA PageSizeFacts == \A n \in Sizes : pageSize(n) \in 1 .. maxPageSize
BY ListingAssumption, SMTT(60) DEF pageSize

(* A list and more that comes after all of it.                              *)
LEMMA AppendIncreasing ==
  ASSUME NEW s \in Seq(Nat), NEW t \in Seq(Nat), Increasing(s), Increasing(t),
         \A i \in DOMAIN s, j \in DOMAIN t : s[i] < t[j]
  PROVE  Increasing(s \o t)
<1> DEFINE u == s \o t
<1>1. /\ Len(s) \in Nat /\ Len(t) \in Nat /\ DOMAIN u = 1 .. Len(s) + Len(t)
      /\ DOMAIN s = 1 .. Len(s) /\ DOMAIN t = 1 .. Len(t)
      /\ \A i \in DOMAIN u : u[i] = IF i <= Len(s) THEN s[i] ELSE t[i - Len(s)]
  BY SMTT(60)
<1> HIDE DEF u
<1> SUFFICES ASSUME NEW i \in DOMAIN u, NEW j \in DOMAIN u, i < j
             PROVE  u[i] < u[j]
  BY DEF Increasing, u
<1>2. CASE i <= Len(s) /\ j <= Len(s)
  BY <1>1, <1>2, SMTT(60) DEF Increasing
<1>3. CASE i <= Len(s) /\ ~(j <= Len(s))
  <2>1. i \in DOMAIN s /\ j - Len(s) \in DOMAIN t
    BY <1>1, <1>3, SMTT(60)
  <2>2. u[i] = s[i] /\ u[j] = t[j - Len(s)]
    BY <1>1, <1>3
  <2> QED BY <2>1, <2>2
<1>4. CASE ~(i <= Len(s))
  <2>1. ~(j <= Len(s)) /\ i - Len(s) \in DOMAIN t /\ j - Len(s) \in DOMAIN t
    BY <1>1, <1>4, SMTT(60)
  <2>2. u[i] = t[i - Len(s)] /\ u[j] = t[j - Len(s)] /\ i - Len(s) < j - Len(s)
    BY <1>1, <1>4, <2>1, SMTT(60)
  <2> QED BY <2>1, <2>2 DEF Increasing
<1> QED BY <1>2, <1>3, <1>4

(* The elements of a list and of what is appended to it.                    *)
LEMMA AppendSet ==
  ASSUME NEW s \in Seq(Nat), NEW t \in Seq(Nat)
  PROVE  s \o t \in Seq(Nat) /\ Range(s) \cup Range(t) \subseteq Range(s \o t)
<1>1. /\ Len(s) \in Nat /\ Len(t) \in Nat /\ DOMAIN (s \o t) = 1 .. Len(s) + Len(t)
      /\ DOMAIN s = 1 .. Len(s) /\ DOMAIN t = 1 .. Len(t) /\ s \o t \in Seq(Nat)
  BY SMTT(60)
<1>2. ASSUME NEW i \in DOMAIN s PROVE i \in DOMAIN (s \o t) /\ (s \o t)[i] = s[i]
  BY <1>1, SMTT(60)
<1>3. ASSUME NEW i \in DOMAIN t
      PROVE  i + Len(s) \in DOMAIN (s \o t) /\ (s \o t)[i + Len(s)] = t[i]
  BY <1>1, SMTT(60)
<1> QED BY <1>1, <1>2, <1>3, Zenon DEF Range

(* A list of some keys is a list of keys.                                   *)
LEMMA SeqSubset ==
  ASSUME NEW S, NEW T, S \subseteq T, NEW s \in Seq(S)
  PROVE  s \in Seq(T) /\ \A i \in DOMAIN s : s[i] \in S
<1>1. Len(s) \in Nat /\ s \in [1 .. Len(s) -> S] /\ DOMAIN s = 1 .. Len(s)
  BY SMTT(60)
<1>2. s \in [1 .. Len(s) -> T]
  BY <1>1
<1> QED BY <1>1, <1>2, SMTT(60)

(* A loop begins with nothing listed and no token.                          *)
LEMMA BeginListKeeps ==
  ASSUME IInv, NEW n \in Sizes, BeginList(n)
  PROVE  IInv'
<1> USE DEF IInv
<1>1. /\ UNCHANGED <<kind, writers, token, got>>
      /\ lpc = "idle" /\ lpc' \in {"getZone", "page"}
      /\ limit' = pageSize(n) /\ stayed' = rows
  BY DEF BeginList
<1>2. UNCHANGED <<zone, zlock, rows, lastID, cpc, cid, deletes>>
  BY <1>1 DEF writers
<1>3. TypeOK'
  BY <1>1, <1>2, PageSizeFacts DEF TypeOK
<1>4. Locked' /\ Fresh' /\ Issued'
  BY <1>1, <1>2 DEF Locked, Fresh, Issued
<1>5. /\ token = 0 /\ got = <<>> /\ DOMAIN got = {} /\ \A r \in rows : ~(r <= 0)
  BY <1>1, KeyTypes, SMTT(60) DEF Listed
<1>6. Listed'
  BY <1>1, <1>2, <1>5 DEF Listed
<1> QED BY <1>3, <1>4, <1>6

(* The service has looked for the zone; the client goes on or gives up.      *)
LEMMA GetZoneKeeps ==
  ASSUME IInv, GetZone
  PROVE  IInv'
<1> USE DEF IInv
<1>1. /\ UNCHANGED <<kind, writers, limit, token, got, stayed>>
      /\ lpc = "getZone" /\ lpc' \in {"page", "died"}
  BY DEF GetZone
<1>2. UNCHANGED <<zone, zlock, rows, lastID, cpc, cid, deletes>>
  BY <1>1 DEF writers
<1>3. TypeOK'
  BY <1>1, <1>2 DEF TypeOK
<1>4. Locked' /\ Fresh' /\ Issued'
  BY <1>1, <1>2 DEF Locked, Fresh, Issued
<1>5. Listed'
  BY <1>1, <1>2 DEF Listed
<1> QED BY <1>3, <1>4, <1>5

(* A page is read: what is listed goes up to the next token, or to the end.  *)
LEMMA ReadPageKeeps ==
  ASSUME IInv, ReadPage
  PROVE  /\ IInv'
         /\ lpc' = "done" /\ kind = "records" => rows \subseteq Range(got')
<1> USE DEF IInv
<1> DEFINE p == Page(token, limit)
           K == {r \in rows : r > token}
<1>1. /\ UNCHANGED <<kind, writers, limit, stayed>>
      /\ lpc = "page" /\ got' = got \o p.rows /\ token' = p.next
      /\ lpc' = IF p.next = 0 THEN "done" ELSE IF kind = "records" THEN "getZone" ELSE "page"
  BY DEF ReadPage
<1>2. UNCHANGED <<zone, zlock, rows, lastID, cpc, cid, deletes>>
  BY <1>1 DEF writers
<1>3. /\ rows \subseteq Nat \ {0} /\ token \in Nat /\ lastID \in Nat /\ stayed \subseteq rows
      /\ IsFiniteSet(rows) /\ limit \in Nat \ {0}
  BY <1>1, KeyTypes, ListingAssumption, SMTT(60) DEF TypeOK, Issued
<1>4. rows \subseteq Int /\ token \in Int
  BY <1>3, SMTT(60)
<1>5. /\ p.rows \in Seq(K) /\ Increasing(p.rows)
      /\ \/ p.next = 0 /\ K \subseteq Range(p.rows)
         \/ /\ p.next \in K
            /\ \A i \in DOMAIN p.rows : p.rows[i] <= p.next
            /\ \A r \in K : r <= p.next => r \in Range(p.rows)
  BY <1>3, <1>4, PageFacts
<1> HIDE DEF p
<1>6. /\ K \subseteq rows /\ K \subseteq Nat \ {0}
      /\ \A r \in rows : r <= token \/ r \in K
      /\ \A r \in K : token < r
  <2>1. \A r \in rows : r \in Nat \ {0}
    BY <1>3
  <2>2. \A r \in rows : r <= token \/ r > token
    BY <1>3, <2>1, SMTT(60)
  <2>3. \A r \in rows : r > token => token < r
    BY <1>3, <2>1
  <2> QED BY <2>1, <2>2, <2>3
<1> HIDE DEF K
<1>7. p.rows \in Seq(Nat) /\ \A j \in DOMAIN p.rows : p.rows[j] \in K
  BY <1>5, <1>6, SeqSubset
<1>8. /\ got \in Seq(Nat) /\ Increasing(got)
      /\ \A i \in DOMAIN got : got[i] <= token /\ got[i] \in Nat
  BY <1>1, SMTT(60) DEF Listed
<1>9. \A i \in DOMAIN got, j \in DOMAIN p.rows : got[i] < p.rows[j]
  <2> SUFFICES ASSUME NEW i \in DOMAIN got, NEW j \in DOMAIN p.rows
               PROVE  got[i] < p.rows[j]
    OBVIOUS
  <2>1. got[i] <= token /\ got[i] \in Nat /\ p.rows[j] \in Nat /\ token < p.rows[j]
    BY <1>6, <1>7, <1>8
  <2> QED BY <1>3, <2>1, SMTT(60)
<1>10. got' \in Seq(Nat) /\ Increasing(got') /\ Range(got) \cup Range(p.rows) \subseteq Range(got')
  BY <1>1, <1>5, <1>7, <1>8, <1>9, AppendIncreasing, AppendSet
<1>11. p.next = 0 \/ p.next \in rows
  BY <1>5, <1>6
<1>12. TypeOK'
  BY <1>1, <1>2, <1>11 DEF TypeOK
<1>13. Locked'
  BY <1>1, <1>2 DEF Locked
<1>14. Issued'
  <2>1. ASSUME kind = "records" PROVE rows \subseteq 1 .. lastID /\ p.next <= lastID
    <3>1. rows \subseteq 1 .. lastID
      BY <2>1 DEF Issued
    <3>2. 0 <= lastID /\ \A r \in 1 .. lastID : r <= lastID
      BY <1>3, SMTT(60)
    <3> QED BY <1>11, <3>1, <3>2
  <2> QED BY <1>1, <1>2, <2>1 DEF Issued
<1>15. Fresh'
  <2> SUFFICES ASSUME NEW c \in Creators, cpc[c] = "inserted", cid[c] \notin rows
               PROVE  p.next < cid[c]
    BY <1>1, <1>2 DEF Fresh
  <2>1. cid[c] \in 1 .. lastID /\ \A r \in rows : r < cid[c]
    BY DEF Fresh
  <2>2. 0 < cid[c]
    BY <1>3, <2>1, SMTT(60)
  <2> QED BY <1>11, <2>1, <2>2
<1>16. \A r \in rows : r <= token /\ (kind = "records" \/ r \in stayed) => r \in Range(got')
  BY <1>1, <1>10 DEF Listed
<1>17. CASE p.next = 0
  <2>1. \A r \in rows : kind = "records" \/ r \in stayed => r \in Range(got')
    BY <1>5, <1>6, <1>10, <1>16, <1>17
  <2>2. lpc' = "done"
    BY <1>1, <1>17
  <2>3. Listed'
    BY <1>1, <1>3, <1>10, <2>1, <2>2 DEF Listed
  <2> QED BY <1>12, <1>13, <1>14, <1>15, <2>1, <2>3
<1>18. CASE p.next # 0
  <2>1. /\ p.next \in K /\ p.next \in Nat /\ token < p.next
        /\ \A i \in DOMAIN p.rows : p.rows[i] <= p.next
        /\ \A r \in K : r <= p.next => r \in Range(got')
    BY <1>5, <1>6, <1>10, <1>18
  <2>2. lpc' \in {"getZone", "page"}
    BY <1>1, <1>18
  <2>3. \A i \in DOMAIN got' : got'[i] <= p.next
    <3>1. \A i \in DOMAIN got : got[i] <= p.next
      BY <1>3, <1>8, <2>1, SMTT(60)
    <3>2. /\ Len(got) \in Nat /\ Len(p.rows) \in Nat /\ DOMAIN got' = 1 .. Len(got) + Len(p.rows)
          /\ DOMAIN got = 1 .. Len(got) /\ DOMAIN p.rows = 1 .. Len(p.rows)
          /\ \A i \in DOMAIN got' : got'[i] = IF i <= Len(got) THEN got[i] ELSE p.rows[i - Len(got)]
      BY <1>1, <1>7, <1>8, SMTT(60)
    <3>3. ASSUME NEW i \in DOMAIN got' PROVE got'[i] <= p.next
      <4>1. IF i <= Len(got) THEN i \in DOMAIN got ELSE i - Len(got) \in DOMAIN p.rows
        BY <3>2, SMTT(60)
      <4> QED BY <2>1, <3>1, <3>2, <4>1
    <3> QED BY <3>3
  <2>4. \A r \in rows : r <= p.next /\ (kind = "records" \/ r \in stayed) => r \in Range(got')
    BY <1>6, <1>16, <2>1
  <2>5. Listed'
    BY <1>1, <1>2, <1>3, <1>10, <2>2, <2>3, <2>4 DEF Listed
  <2> QED BY <1>12, <1>13, <1>14, <1>15, <2>2, <2>5
<1> QED BY <1>17, <1>18

----------------------------------------------------------------------------
(* The theorems *)

(* The invariant holds at first: no row, no page.                           *)
LEMMA InitIInv == Init => IInv
<1> SUFFICES ASSUME Init PROVE IInv
  OBVIOUS
<1>1. TypeOK
  BY ListingAssumption, SMTT(60) DEF Init, TypeOK
<1>2. Locked /\ Fresh
  BY DEF Init, Locked, Fresh
<1>3. Issued
  BY FS_EmptySet, SMTT(60) DEF Init, Issued
<1>4. got = <<>> /\ DOMAIN got = {} /\ got \in Seq(Nat)
  BY SMTT(60) DEF Init
<1>5. Listed
  BY <1>4 DEF Init, Listed, Increasing
<1> QED BY <1>1, <1>2, <1>3, <1>5 DEF IInv

(* Every step keeps it, and one that ends a list of records ends it complete. *)
LEMMA NextIInv ==
  ASSUME IInv, [Next]_vars
  PROVE  /\ IInv'
         /\ lpc' = "done" /\ lpc # "done" /\ kind = "records" => rows \subseteq Range(got')
<1>1. CASE Write
  <2>1. lpc' = lpc
    BY <1>1 DEF Write, LockZone, Insert, EndCreate, DeleteRecord, DropZone, MakeZone, CreateZone,
                DeleteZone, client
  <2> QED BY <1>1, <2>1, WriteKeeps
<1>2. CASE GetZone
  <2>1. lpc' # "done"
    BY <1>2 DEF GetZone
  <2> QED BY <1>2, <2>1, GetZoneKeeps
<1>3. CASE ReadPage
  BY <1>3, ReadPageKeeps
<1>4. ASSUME NEW n \in Sizes, BeginList(n)
      PROVE  IInv' /\ lpc' # "done"
  <2>1. lpc' # "done"
    BY <1>4 DEF BeginList
  <2> QED BY <1>4, <2>1, BeginListKeeps
<1>5. CASE UNCHANGED vars
  <2>1. UNCHANGED <<kind, zone, zlock, rows, lastID, cpc, cid, deletes, lpc, limit, token, got, stayed>>
    BY <1>5 DEF vars, writers, client
  <2>2. TypeOK' = TypeOK /\ Locked' = Locked /\ Issued' = Issued /\ Fresh' = Fresh /\ Listed' = Listed
    BY <2>1 DEF TypeOK, Locked, Issued, Fresh, Listed, Increasing
  <2> QED BY <2>1, <2>2 DEF IInv
<1> QED BY <1>1, <1>2, <1>3, <1>4, <1>5 DEF Next, List

(* In every behaviour the invariant holds throughout.                       *)
LEMMA ListingIInv == Spec => []IInv
<1>1. IInv /\ [Next]_vars => IInv'
  BY NextIInv
<1> QED BY <1>1, InitIInv, PTL DEF Spec

(* The types of TypeOK, for any page sizes that clients ask for: a page has  *)
(* room for one key at least and for no more than the limit.                *)
THEOREM ListingTypeOK == Spec => []TypeOK
<1>1. IInv => TypeOK
  BY DEF IInv
<1> QED BY <1>1, ListingIInv, PTL

(* However the pages and the writes interleave, no key is listed twice or    *)
(* out of order, and what was there all the time is listed.                 *)
THEOREM ListingOnce == Spec => []ListedOnce
<1>1. IInv => ListedOnce
  BY DEF IInv, Listed, Increasing, ListedOnce
<1> QED BY <1>1, ListingIInv, PTL

(* CreateRecord locks the row of the zone before its insert takes an id, so  *)
(* that ids become visible in their order: when the last page of a list of   *)
(* records is read, no record there is has been left out.                   *)
THEOREM ListingComplete == Spec => EndsComplete
<1>1. IInv /\ [Next]_vars =>
        [lpc' = "done" /\ lpc # "done" /\ kind = "records" => rows \subseteq Range(got')]_vars
  BY NextIInv
<1> QED BY <1>1, ListingIInv, PTL DEF Spec, EndsComplete
=============================================================================
