------------------------ MODULE CachedResolverProofs ------------------------
(***************************************************************************)
(* Proof that an instance's cache stays coherent and implements the abstract *)
(* cache of CoherentCache: for any set of zones and names, any number of     *)
(* lookups and writers, and requests that spell the zone with at most one    *)
(* trailing dot.                                                           *)
(***************************************************************************)
EXTENDS CachedResolver, TLAPS

\* The provers that every leaf is given to, in this order.
USE ZenonT(60), SMTT(60)

\* The keys whose epoch writer w has committed to move and has not moved yet.
Unbumped(w) ==
    (IF wpc[w] = "clear" THEN ZoneKeys ELSE {})
      \cup (IF wpc[w] \in {"clear", "sweepZones", "group", "bump"}
              THEN NamesAffected(wev[w]) ELSE {})

\* What flight l has read is not what the database says now.
StaleLoad(l) ==
    IF lpc[l] = "kids" THEN records[lkey[l]] # 0 ELSE lval[l] # View(lkey[l])

\* A flight that would pass Set's test with a stale value has been overtaken
\* by a write that has not moved the epoch yet.
FlightInv ==
    \A l \in Lookups :
      lpc[l] \in {"kids", "set"} /\ lmark[l] = epoch[lkey[l][1]] /\ StaleLoad(l)
        => \E w \in Writers : lkey[l] \in Unbumped(w)

\* One that has passed it holds the lock, so the removal is yet to come.
PutInv ==
    \A l \in Lookups : lpc[l] = "put" /\ lval[l] # View(lkey[l])
        => \E w \in Writers : lkey[l] \in Pending(w)

KidsInv == \A l \in Lookups : lpc[l] = "kids" => lkey[l] \in NameKeys

MarkInv ==
    \A l \in Lookups :
      lpc[l] \in {"query", "kids", "set"} => lmark[l] <= epoch[lkey[l][1]]

\* What writer w is invalidating fits where it is in Invalidate.
EventAt(w) ==
    /\ wpc[w] # "idle" => wev[w].zone \in Zones /\ wev[w].exact
    /\ wev[w].name # NoName => wev[w].zone \in Candidates[wev[w].name]
    /\ wpc[w] = "group" => wev[w].name = NoName
    /\ wpc[w] \in {"bump", "delete"} => wev[w].name # NoName
    /\ wpc[w] \notin {"sweepZones", "sweepNames"} => wtodo[w] = {}
    /\ wpc[w] = "sweepZones" => wtodo[w] \subseteq ZoneKeys

EventInv == \A w \in Writers : EventAt(w)

\* The inductive invariant.
IInv == TypeOK /\ EventInv /\ MarkInv /\ KidsInv /\ FlightInv /\ PutInv /\ Coherent

----------------------------------------------------------------------------
(* Names and keys *)

(* A candidate of a name is a name.                                         *)
LEMMA CandidatesType ==
  /\ \A n \in Names : Candidates[n] \subseteq Names
  /\ \A n \in Names : Len(n) \in Nat /\ Len(n) >= 1 /\ n \in Seq(STRING)
<1>1. ASSUME NEW n \in Names, NEW a \in Candidates[n] PROVE a \in Names
  BY ResolverAssumption DEF Candidates
<1>2. ASSUME NEW n \in Names PROVE Len(n) \in Nat /\ Len(n) >= 1 /\ n \in Seq(STRING)
  <2>1. n \in Seq(STRING) /\ n # <<>>
    BY ResolverAssumption
  <2> QED BY <2>1
<1> QED BY <1>1, <1>2

(* A name is its own first candidate.                                       *)
LEMMA CandidatesSelf == \A n \in Names : n \in Candidates[n]
<1> SUFFICES ASSUME NEW n \in Names PROVE n \in Candidates[n]
  OBVIOUS
<1>1. n \in Seq(STRING) /\ Len(n) \in Nat /\ Len(n) >= 1
  BY CandidatesType
<1>2. SubSeq(n, 1, Len(n)) = n
  BY <1>1
<1>3. 1 \in 1 .. Len(n)
  BY <1>1
<1> QED BY <1>2, <1>3 DEF Candidates

(* The other candidates are those of the name without its first label.      *)
LEMMA CandidatesTail ==
  \A n \in Names : Len(n) > 1 =>
    Tail(n) \in Names /\ Candidates[n] \subseteq {n} \cup Candidates[Tail(n)]
<1> SUFFICES ASSUME NEW n \in Names, Len(n) > 1
             PROVE  Tail(n) \in Names /\ Candidates[n] \subseteq {n} \cup Candidates[Tail(n)]
  OBVIOUS
<1>1. n \in Seq(STRING) /\ Len(n) \in Nat /\ Len(n) >= 1
  BY CandidatesType
<1>2. Tail(n) = SubSeq(n, 2, Len(n))
  BY <1>1, SMTT(60)
<1>3. Tail(n) \in Names
  <2>1. 2 \in 1 .. Len(n)
    BY <1>1
  <2> QED BY <2>1, <1>2, ResolverAssumption
<1>4. ASSUME NEW i \in 2 .. Len(n)
      PROVE  SubSeq(n, i, Len(n)) = SubSeq(Tail(n), i - 1, Len(Tail(n)))
  BY <1>1
<1>5. ASSUME NEW i \in 2 .. Len(n) PROVE i - 1 \in 1 .. Len(Tail(n))
  BY <1>1
<1>6. SubSeq(n, 1, Len(n)) = n
  BY <1>1
<1>7. ASSUME NEW a \in Candidates[n] PROVE a = n \/ a \in Candidates[Tail(n)]
  <2>1. PICK i \in 1 .. Len(n) : a = SubSeq(n, i, Len(n))
    BY DEF Candidates
  <2>2. CASE i = 1
    BY <2>1, <2>2, <1>6
  <2>3. CASE i # 1
    <3>1. i \in 2 .. Len(n)
      BY <2>3, <1>1
    <3> QED BY <2>1, <3>1, <1>3, <1>4, <1>5 DEF Candidates
  <2> QED BY <2>2, <2>3
<1> QED BY <1>3, <1>7

(* A candidate is no longer than the name, and as long only if it is it.    *)
LEMMA CandidatesLength ==
  \A n \in Names : \A a \in Candidates[n] : Len(a) <= Len(n) /\ (Len(a) = Len(n) => a = n)
<1> SUFFICES ASSUME NEW n \in Names, NEW a \in Candidates[n]
             PROVE  Len(a) <= Len(n) /\ (Len(a) = Len(n) => a = n)
  OBVIOUS
<1>1. n \in Seq(STRING) /\ Len(n) \in Nat /\ Len(n) >= 1
  BY CandidatesType
<1>2. PICK i \in 1 .. Len(n) : a = SubSeq(n, i, Len(n))
  BY DEF Candidates
<1>3. Len(a) = Len(n) - i + 1
  BY <1>1, <1>2
<1>4. SubSeq(n, 1, Len(n)) = n
  BY <1>1
<1> QED BY <1>1, <1>2, <1>3, <1>4

(* What Invalidate's loop has left to do after deleting name n: nothing at   *)
(* the apex, and otherwise what a loop that begins at the parent does.       *)
LEMMA PathStep ==
  ASSUME NEW z \in Names, NEW n \in Names, z \in Candidates[n]
  PROVE  /\ n = z \/ Len(n) = 1 => PathToApex(z, n) \subseteq {n}
         /\ ~(n = z \/ Len(n) = 1) =>
              /\ Tail(n) \in Names /\ z \in Candidates[Tail(n)]
              /\ PathToApex(z, n) \subseteq {n} \cup PathToApex(z, Tail(n))
<1> USE CandidatesType
<1>1. CASE n = z
  BY <1>1, CandidatesLength, SMTT(60) DEF PathToApex
<1>2. CASE Len(n) = 1
  <2>1. \A a \in Candidates[n] : a = n
    BY <1>2, CandidatesLength, SMTT(60)
  <2> QED BY <1>2, <2>1 DEF PathToApex
<1>3. CASE ~(n = z \/ Len(n) = 1)
  <2>0. n \in Seq(STRING) /\ Len(n) >= 1
    BY CandidatesType
  <2>1. Len(n) > 1
    <3>1. Len(n) # 1
      BY <1>3
    <3> DEFINE len == Len(n)
    <3>2. len \in Nat /\ len >= 1 /\ len # 1
      BY <2>0, <3>1
    <3> HIDE DEF len
    <3>3. len > 1
      BY <3>2
    <3> QED BY <3>3 DEF len
  <2>2. Tail(n) \in Names /\ Candidates[n] \subseteq {n} \cup Candidates[Tail(n)]
    BY <2>1, CandidatesTail
  <2>3. z \in Candidates[Tail(n)]
    BY <2>2, <1>3
  <2> QED BY <1>3, <2>2, <2>3 DEF PathToApex
<1> QED BY <1>1, <1>2, <1>3

(* The two kinds of key are disjoint.                                       *)
LEMMA KeyFacts ==
  /\ \A k \in ZoneKeys : k[1] = "zones"
  /\ \A k \in NameKeys : /\ k[1] = "names" /\ k \notin ZoneKeys
                         /\ k[2] \in Zones /\ k[3] \in Names
                         /\ k[2] \in Candidates[k[3]] /\ k = NameKey(k[2], k[3])
  /\ \A k \in Keys : k[1] \in Caches
  /\ Keys = ZoneKeys \cup NameKeys /\ AnyKey \in Keys
<1>1. Keys # {}
  BY ResolverAssumption DEF Keys, ZoneKeys
<1> QED BY <1>1 DEF ZoneKeys, NameKeys, ZoneKey, NameKey, Keys, Caches, AnyKey

----------------------------------------------------------------------------
(* What a write changes *)

(* An answer about names depends on the records of its zone only.           *)
LEMMA ViewOfRecords ==
  ASSUME NEW k \in NameKeys, View(k)' # View(k)
  PROVE  \/ records'[k] # records[k]
         \/ \E c \in Names : /\ NameKey(k[2], c) \in NameKeys /\ k[3] \in Candidates[c]
                             /\ records'[NameKey(k[2], c)] # records[NameKey(k[2], c)]
<1> SUFFICES ASSUME records'[k] = records[k],
                    \A c \in Names : NameKey(k[2], c) \in NameKeys /\ k[3] \in Candidates[c] =>
                      records'[NameKey(k[2], c)] = records[NameKey(k[2], c)]
             PROVE  FALSE
  OBVIOUS
<1>1. HasChildren(k[2], k[3])' = HasChildren(k[2], k[3])
  BY DEF HasChildren
<1>2. LookupName(k)' = LookupName(k)
  BY <1>1 DEF LookupName
<1> QED BY <1>2, KeyFacts DEF View

(* Nothing the database answers changes unless it does.                      *)
LEMMA ViewStable == UNCHANGED db => \A k \in Keys : View(k)' = View(k)
BY DEF db, View, FindZone, LookupName, HasChildren

(* A step of writer w leaves the others where they are in Invalidate.        *)
LEMMA EventKeeps ==
  ASSUME EventInv, NEW w \in Writers, EventAt(w)',
         \A x \in Writers : x # w => wpc'[x] = wpc[x] /\ wev'[x] = wev[x] /\ wtodo'[x] = wtodo[x]
  PROVE  EventInv'
<1> SUFFICES ASSUME NEW x \in Writers, x # w PROVE EventAt(x)'
  BY DEF EventInv
<1>1. wpc'[x] = wpc[x] /\ wev'[x] = wev[x] /\ wtodo'[x] = wtodo[x] /\ EventAt(x)
  BY DEF EventInv
<1> QED BY <1>1 DEF EventAt

\* What a write of writer w has done when it has committed.
Committed(w) ==
    /\ wpc[w] = "idle"
    /\ wpc' = [wpc EXCEPT ![w] = "clear"]
    /\ \E e : /\ wev' = [wev EXCEPT ![w] = e]
              /\ e \in [zone : Zones, name : Names \cup {NoName}, exact : {TRUE}]
              /\ e.name # NoName => e.zone \in Candidates[e.name]
    /\ \A k \in Keys : View(k)' # View(k) => k \in ZoneKeys \cup NamesAffected(wev'[w])
    /\ \A k \in NameKeys : records'[k] # records[k] => k \in NamesAffected(wev'[w])
    /\ zones' \in [Zones -> 0 .. MaxWrites]
    /\ records' \in [NameKeys -> 0 .. MaxContent]
    /\ writes' \in 1 .. MaxWrites
    /\ UNCHANGED <<cache, epoch, lookupVars, wtodo>>

(* A write of the records of name n changes only answers Invalidate will     *)
(* drop: those about n, and about the names above it up to the apex.         *)
LEMMA RecordWrite ==
  ASSUME TypeOK, NEW w \in Writers, NEW k \in NameKeys, NEW c \in 0 .. MaxContent,
         Touch(k[2]), records' = [records EXCEPT ![k] = c],
         Commit(w, k[2], k[3], TRUE)
  PROVE  Committed(w)
<1> DEFINE e == [zone |-> k[2], name |-> k[3], exact |-> TRUE]
<1>1. /\ k[2] \in Zones /\ k[3] \in Names /\ k[2] \in Candidates[k[3]]
      /\ k = NameKey(k[2], k[3]) /\ k[3] # NoName /\ k[3] \in Candidates[k[3]]
  BY KeyFacts, CandidatesSelf, ResolverAssumption DEF NoName
<1>2. wev' = [wev EXCEPT ![w] = e] /\ wev'[w] = e
  BY DEF Commit, TypeOK
<1>3. k \in NamesAffected(e)
  BY <1>1 DEF NamesAffected, PathToApex
<1>4. ASSUME NEW j \in NameKeys, records'[j] # records[j] PROVE j = k
  BY <1>4 DEF TypeOK
<1>5. ASSUME NEW j \in NameKeys, View(j)' # View(j) PROVE j \in NamesAffected(e)
  <2>1. CASE records'[j] # records[j]
    BY <2>1, <1>3, <1>4
  <2>2. ASSUME NEW d \in Names, NameKey(j[2], d) \in NameKeys, j[3] \in Candidates[d],
               records'[NameKey(j[2], d)] # records[NameKey(j[2], d)]
        PROVE  j \in NamesAffected(e)
    <3>1. NameKey(j[2], d) = k
      BY <2>2, <1>4
    <3>2. j[2] = k[2] /\ d = k[3]
      BY <3>1, <1>1 DEF NameKey
    <3> QED BY <2>2, <3>2, KeyFacts DEF NamesAffected, PathToApex
  <2> QED BY <2>1, <2>2, <1>5, ViewOfRecords
<1>6. \A j \in Keys : View(j)' # View(j) => j \in ZoneKeys \cup NamesAffected(e)
  BY <1>5, KeyFacts
<1>7. e \in [zone : Zones, name : Names \cup {NoName}, exact : {TRUE}]
  BY <1>1
<1>8. zones' \in [Zones -> 0 .. MaxWrites] /\ writes' \in 1 .. MaxWrites
  BY <1>1, ResolverAssumption, SMTT(60) DEF Touch, Commit, TypeOK
<1>9. records' \in [NameKeys -> 0 .. MaxContent]
  BY DEF TypeOK
<1>10. wpc[w] = "idle" /\ wpc' = [wpc EXCEPT ![w] = "clear"]
       /\ UNCHANGED <<cache, epoch, lookupVars, wtodo>>
  BY DEF Commit
<1>11. \A j \in NameKeys : records'[j] # records[j] => j \in NamesAffected(e)
  BY <1>3, <1>4
<1> HIDE DEF e
<1>12. e.name # NoName => e.zone \in Candidates[e.name]
  BY <1>1 DEF e
<1> QED BY <1>2, <1>6, <1>7, <1>8, <1>9, <1>10, <1>11, <1>12 DEF Committed

(* A write of a zone row changes answers of FindZone, and when the zone is   *)
(* deleted those about all of its names.                                   *)
LEMMA ZoneWrite ==
  ASSUME TypeOK, NEW w \in Writers, NEW z \in Zones,
         zones' \in [Zones -> 0 .. MaxWrites],
         records' \in [NameKeys -> 0 .. MaxContent],
         \A k \in NameKeys : k[2] # z => records'[k] = records[k],
         Commit(w, z, NoName, TRUE)
  PROVE  Committed(w)
<1> DEFINE e == [zone |-> z, name |-> NoName, exact |-> TRUE]
<1>1. wev' = [wev EXCEPT ![w] = e] /\ wev'[w] = e
  BY DEF Commit, TypeOK
<1>2. \A k \in NameKeys : k[2] = z => k \in NamesAffected(e)
  BY DEF NamesAffected
<1>3. ASSUME NEW k \in NameKeys, View(k)' # View(k) PROVE k[2] = z
  <2>1. \A c \in Names : NameKey(k[2], c)[2] = k[2]
    BY DEF NameKey
  <2> QED BY <1>3, <2>1, ViewOfRecords
<1>4. \A k \in Keys : View(k)' # View(k) => k \in ZoneKeys \cup NamesAffected(e)
  BY <1>2, <1>3, KeyFacts
<1>5. e \in [zone : Zones, name : Names \cup {NoName}, exact : {TRUE}]
  OBVIOUS
<1>6. writes' \in 1 .. MaxWrites
  BY ResolverAssumption, SMTT(60) DEF Commit, TypeOK
<1>7. wpc[w] = "idle" /\ wpc' = [wpc EXCEPT ![w] = "clear"]
      /\ UNCHANGED <<cache, epoch, lookupVars, wtodo>>
  BY DEF Commit
<1>8. e.name = NoName
  OBVIOUS
<1>9. \A k \in NameKeys : records'[k] # records[k] => k \in NamesAffected(e)
  BY <1>2
<1> HIDE DEF e
<1> QED BY <1>1, <1>4, <1>5, <1>6, <1>7, <1>8, <1>9 DEF Committed

(* Every write commits a change that its Invalidate covers.                  *)
LEMMA WriteCommits ==
  ASSUME TypeOK, MaxDots <= 1, NEW w \in Writers, Write(w)
  PROVE  Committed(w)
<1> USE ResolverAssumption
<1>t. writes' = writes + 1 /\ writes' \in 1 .. MaxWrites
  BY SMTT(60) DEF Write, CreateZone, UpdateZone, DeleteZone, CreateRecord, DeleteRecord, Commit, TypeOK
<1>1. ASSUME NEW z \in Zones, CreateZone(w, z) \/ UpdateZone(w, z) PROVE Committed(w)
  <2>1. /\ zones' = [zones EXCEPT ![z] = writes + 1] /\ records' = records
        /\ Commit(w, z, NoName, TRUE)
    BY <1>1 DEF CreateZone, UpdateZone, Touch
  <2>2. zones' \in [Zones -> 0 .. MaxWrites] /\ records' \in [NameKeys -> 0 .. MaxContent]
    BY <2>1, <1>t, SMTT(60) DEF TypeOK
  <2> QED BY <2>1, <2>2, ZoneWrite
<1>2. ASSUME NEW z \in Zones, NEW d \in 0 .. MaxDots, DeleteZone(w, z, d) PROVE Committed(w)
  <2>1. d <= 1
    BY <1>2, SMTT(60)
  <2>2. /\ zones' = [zones EXCEPT ![z] = 0]
        /\ records' = [k \in NameKeys |-> IF k[2] = z THEN 0 ELSE records[k]]
        /\ Commit(w, z, NoName, TRUE)
    BY <1>2, <2>1 DEF DeleteZone
  <2>3. zones' \in [Zones -> 0 .. MaxWrites] /\ records' \in [NameKeys -> 0 .. MaxContent]
    BY <2>2, SMTT(60) DEF TypeOK
  <2> QED BY <2>2, <2>3, ZoneWrite
<1>3. ASSUME NEW k \in NameKeys, NEW c \in 1 .. MaxContent, CreateRecord(w, k, c)
      PROVE  Committed(w)
  <2>1. c \in 0 .. MaxContent
    BY SMTT(60)
  <2> QED BY <1>3, <2>1, RecordWrite DEF CreateRecord
<1>4. ASSUME NEW k \in NameKeys, NEW c \in 0 .. MaxContent, NEW d \in 0 .. MaxDots,
             DeleteRecord(w, k, c, d)
      PROVE  Committed(w)
  <2>1. d <= 1
    BY <1>4, SMTT(60)
  <2>2. Commit(w, k[2], k[3], TRUE)
    BY <1>4, <2>1 DEF DeleteRecord
  <2> QED BY <1>4, <2>2, RecordWrite DEF DeleteRecord
<1> QED BY <1>1, <1>2, <1>3, <1>4 DEF Write

----------------------------------------------------------------------------
(* The invariant, kind of step by kind of step *)

(* At the start the caches are empty and nothing is under way.               *)
LEMMA InitIInv == ASSUME MaxContent >= 1, MaxWrites >= 1, Init PROVE IInv
<1> USE ResolverAssumption, KeyFacts
<1>1. TypeOK
  <2>1. NoEvent \in [zone : Zones \cup {<<>>}, name : Names \cup {NoName}, exact : BOOLEAN]
    BY DEF NoEvent
  <2>2. zones \in [Zones -> 0 .. MaxWrites] /\ records \in [NameKeys -> 0 .. MaxContent]
        /\ writes \in 1 .. MaxWrites
    BY SMTT(60) DEF Init
  <2>3. epoch \in [Caches -> Nat] /\ DOMAIN cache = Keys /\ DOMAIN lval = Lookups
    BY DEF Init
  <2>4. /\ lpc \in [Lookups -> {"idle", "do", "wait"} \cup InFlight]
        /\ lkey \in [Lookups -> Keys] /\ lmark \in [Lookups -> Nat]
    BY DEF Init
  <2> QED BY <2>1, <2>2, <2>3, <2>4 DEF Init, TypeOK
<1>2. EventInv
  BY DEF Init, EventInv, EventAt, NoEvent
<1>3. MarkInv /\ KidsInv /\ FlightInv /\ PutInv
  BY DEF Init, MarkInv, KidsInv, FlightInv, PutInv
<1>4. Coherent
  BY DEF Init, Coherent, Stale
<1> QED BY <1>1, <1>2, <1>3, <1>4 DEF IInv

(* A commit: what becomes stale is about to be invalidated.                  *)
LEMMA CommitKeeps ==
  ASSUME IInv, NEW w \in Writers, Committed(w)
  PROVE  IInv'
<1>t. TypeOK /\ EventInv /\ wtodo[w] = {}
  BY DEF IInv, EventInv, EventAt, Committed
<1>e. PICK e : /\ wev' = [wev EXCEPT ![w] = e] /\ wev'[w] = e
               /\ e \in [zone : Zones, name : Names \cup {NoName}, exact : {TRUE}]
               /\ e.name # NoName => e.zone \in Candidates[e.name]
  BY <1>t DEF Committed, TypeOK
<1>c. wpc' = [wpc EXCEPT ![w] = "clear"] /\ wpc'[w] = "clear" /\ wpc[w] = "idle"
      /\ UNCHANGED <<cache, epoch, lpc, lkey, lmark, lval, wtodo>>
  BY <1>t DEF Committed, TypeOK, lookupVars
<1>1. TypeOK'
  <2>1. e \in [zone : Zones \cup {<<>>}, name : Names \cup {NoName}, exact : BOOLEAN]
    BY <1>e
  <2>2. wev' \in [Writers -> [zone : Zones \cup {<<>>}, name : Names \cup {NoName},
                              exact : BOOLEAN]]
    BY <1>t, <1>e, <2>1 DEF TypeOK
  <2>3. zones' \in [Zones -> 0 .. MaxWrites] /\ records' \in [NameKeys -> 0 .. MaxContent]
        /\ writes' \in 1 .. MaxWrites
    BY DEF Committed
  <2> QED BY <1>t, <1>c, <2>2, <2>3 DEF TypeOK
<1>2. EventInv'
  <2>1. \A x \in Writers : x # w => wpc'[x] = wpc[x] /\ wev'[x] = wev[x] /\ wtodo'[x] = wtodo[x]
    BY <1>t, <1>e, <1>c DEF TypeOK
  <2>2. wev'[w] = e /\ wtodo'[w] = {}
    BY <1>t, <1>e, <1>c DEF TypeOK, EventInv, EventAt
  <2>3. EventAt(w)'
    BY <2>2, <1>e, <1>c DEF EventAt
  <2> QED BY <2>1, <2>3, <1>t, EventKeeps
<1>3. MarkInv' /\ KidsInv'
  BY <1>c DEF IInv, MarkInv, KidsInv
<1>4. ASSUME NEW x \in Writers PROVE Pending(x) \subseteq Pending(x)' /\ Unbumped(x) \subseteq Unbumped(x)'
  BY <1>t, <1>e, <1>c DEF Pending, Unbumped, TypeOK
<1>5. Unbumped(w)' = ZoneKeys \cup NamesAffected(wev'[w])
      /\ ZoneKeys \cup NamesAffected(wev'[w]) \subseteq Pending(w)'
  BY <1>c DEF Unbumped, Pending
<1>6. \A k \in Keys : View(k)' # View(k) => k \in Unbumped(w)' /\ k \in Pending(w)'
  BY <1>5 DEF Committed
<1>7. \A k \in NameKeys : records'[k] # records[k] => k \in Unbumped(w)'
  BY <1>5 DEF Committed
<1>8. \A l \in Lookups : lkey[l] \in Keys
  BY <1>t DEF TypeOK
<1>9. FlightInv'
  <2> SUFFICES ASSUME NEW l \in Lookups, lpc[l] \in {"kids", "set"},
                      lmark[l] = epoch[lkey[l][1]], StaleLoad(l)'
               PROVE  \E x \in Writers : lkey[l] \in Unbumped(x)'
    BY <1>c DEF FlightInv
  <2>1. CASE StaleLoad(l)
    BY <2>1, <1>4 DEF IInv, FlightInv
  <2>2. CASE lpc[l] = "kids" /\ ~StaleLoad(l)
    BY <2>2, <1>7, <1>c DEF StaleLoad, IInv, KidsInv
  <2>3. CASE lpc[l] # "kids" /\ ~StaleLoad(l)
    BY <2>3, <1>6, <1>8, <1>c DEF StaleLoad
  <2> QED BY <2>1, <2>2, <2>3
<1>10. PutInv'
  <2> SUFFICES ASSUME NEW l \in Lookups, lpc[l] = "put", lval[l] # View(lkey[l])'
               PROVE  \E x \in Writers : lkey[l] \in Pending(x)'
    BY <1>c DEF PutInv
  <2>1. CASE View(lkey[l])' = View(lkey[l])
    BY <2>1, <1>4 DEF IInv, PutInv
  <2>2. CASE View(lkey[l])' # View(lkey[l])
    <3>1. lkey[l] \in Keys /\ lkey'[l] = lkey[l]
      BY <1>8, <1>c
    <3> QED BY <2>2, <3>1, <1>6, <1>c
  <2> QED BY <2>1, <2>2
<1>11. Coherent'
  <2> SUFFICES ASSUME NEW k \in Keys, cache[k] # None, cache[k] # View(k)'
               PROVE  \E x \in Writers : k \in Pending(x)'
    BY <1>c DEF Coherent, Stale
  <2>1. CASE View(k)' = View(k)
    BY <2>1, <1>4 DEF IInv, Coherent, Stale
  <2> QED BY <2>1, <1>6
<1> QED BY <1>1, <1>2, <1>3, <1>9, <1>10, <1>11 DEF IInv

(* The epoch of cache c moves: flights of that cache will not be stored.     *)
LEMMA BumpKeeps ==
  ASSUME IInv, TypeOK', EventInv', NEW c \in Caches,
         epoch' = [epoch EXCEPT ![c] = epoch[c] + 1],
         UNCHANGED <<db, cache, lookupVars>>,
         \A x \in Writers : Pending(x) \subseteq Pending(x)',
         \A x \in Writers : \A k \in Unbumped(x) : k[1] # c => k \in Unbumped(x)'
  PROVE  IInv'
<1> USE DEF lookupVars
<1>1. TypeOK /\ \A l \in Lookups : lkey[l] \in Keys /\ lkey[l][1] \in Caches /\ lmark[l] \in Nat
  BY KeyFacts DEF IInv, TypeOK
<1>2. epoch \in [Caches -> Nat]
  BY <1>1 DEF TypeOK
<1>3. MarkInv'
  BY <1>1, <1>2, SMTT(60) DEF IInv, MarkInv
<1>4. KidsInv'
  BY DEF IInv, KidsInv
<1>5. FlightInv'
  <2> SUFFICES ASSUME NEW l \in Lookups, lpc[l] \in {"kids", "set"},
                      lmark[l] = epoch'[lkey[l][1]], StaleLoad(l)'
               PROVE  \E x \in Writers : lkey[l] \in Unbumped(x)'
    BY DEF FlightInv
  <2>1. lmark[l] <= epoch[lkey[l][1]]
    BY DEF IInv, MarkInv
  <2>2. lkey[l][1] # c
    BY <2>1, <1>1, <1>2
  <2>3. lmark[l] = epoch[lkey[l][1]]
    BY <2>2, <1>1, <1>2
  <2>4. StaleLoad(l)
    BY <1>1, ViewStable DEF StaleLoad, db
  <2> QED BY <2>2, <2>3, <2>4 DEF IInv, FlightInv
<1>6. PutInv' /\ Coherent'
  BY <1>1, ViewStable DEF IInv, PutInv, Coherent, Stale
<1> QED BY <1>3, <1>4, <1>5, <1>6 DEF IInv

(* A key is removed under its shard's lock.                                  *)
LEMMA RemoveKeeps ==
  ASSUME IInv, TypeOK', EventInv', NEW k \in Keys, ~Locked(k),
         cache' = [cache EXCEPT ![k] = None],
         UNCHANGED <<db, epoch, lookupVars>>,
         \A x \in Writers : Pending(x) \subseteq Pending(x)' \cup {k},
         \A x \in Writers : Unbumped(x) \subseteq Unbumped(x)'
  PROVE  IInv'
<1> USE DEF lookupVars
<1>1. TypeOK /\ \A l \in Lookups : lkey[l] \in Keys
  BY DEF IInv, TypeOK
<1>2. MarkInv' /\ KidsInv'
  BY DEF IInv, MarkInv, KidsInv
<1>3. ASSUME NEW l \in Lookups PROVE StaleLoad(l)' <=> StaleLoad(l)
  BY <1>1, ViewStable DEF StaleLoad, db
<1>4. FlightInv'
  BY <1>3 DEF IInv, FlightInv
<1>5. PutInv'
  BY <1>1, ViewStable DEF IInv, PutInv, Locked
<1>6. Coherent'
  <2> SUFFICES ASSUME NEW j \in Keys, cache'[j] # None, cache'[j] # View(j)'
               PROVE  \E x \in Writers : j \in Pending(x)'
    BY DEF Coherent, Stale
  <2>1. j # k /\ cache'[j] = cache[j]
    BY <1>1 DEF TypeOK
  <2> QED BY <2>1, ViewStable DEF IInv, Coherent, Stale
<1> QED BY <1>2, <1>4, <1>5, <1>6 DEF IInv

\* The types of the variables a writer changes.
WPCs == {"idle", "clear", "sweepZones", "group", "sweepNames", "bump", "delete"}
Events == [zone : Zones \cup {<<>>}, name : Names \cup {NoName}, exact : BOOLEAN]

(* zones.Clear() begins.                                                    *)
LEMMA ClearZonesKeeps == ASSUME IInv, NEW w \in Writers, ClearZones(w) PROVE IInv'
<1>t. TypeOK /\ EventInv /\ wev[w] \in Events /\ wtodo[w] = {} /\ wpc[w] = "clear"
  BY DEF IInv, TypeOK, EventInv, EventAt, Events, ClearZones
<1>1. ZoneKeys # {} /\ ZoneKeys \in SUBSET Keys
  BY ResolverAssumption DEF ZoneKeys, Keys
<1>2. /\ wpc' = [wpc EXCEPT ![w] = "sweepZones"]
      /\ wev' = [wev EXCEPT ![w] = wev[w]]
      /\ wtodo' = [wtodo EXCEPT ![w] = ZoneKeys]
      /\ epoch' = [epoch EXCEPT !["zones"] = epoch["zones"] + 1]
      /\ UNCHANGED <<db, cache, lookupVars>>
  BY <1>1 DEF ClearZones, SweepOn
<1>3. epoch' \in [Caches -> Nat] /\ DOMAIN cache' = Keys /\ "zones" \in Caches
  BY <1>2, <1>t, SMTT(60) DEF TypeOK, Caches
<1>p. "sweepZones" \in WPCs
  BY DEF WPCs
<1>4. /\ TypeOK' /\ wpc'[w] = "sweepZones" /\ wev'[w] = wev[w] /\ wtodo'[w] = ZoneKeys
      /\ \A x \in Writers : x # w => wpc'[x] = wpc[x] /\ wev'[x] = wev[x] /\ wtodo'[x] = wtodo[x]
  <2>1. UNCHANGED <<db, lookupVars>> /\ TypeOK
    BY <1>2, <1>t
  <2>2. /\ wpc' = [wpc EXCEPT ![w] = "sweepZones"]
        /\ wev' = [wev EXCEPT ![w] = wev[w]]
        /\ wtodo' = [wtodo EXCEPT ![w] = ZoneKeys]
    BY <1>2
  <2> QED BY <1>p, <1>1, <1>t, <2>1, <2>2, <1>3 DEF TypeOK, WPCs, Events, db, lookupVars
<1>5. EventInv'
  BY <1>t, <1>4, SMTT(60) DEF EventInv, EventAt
<1>6. \A x \in Writers : Pending(x) \subseteq Pending(x)'
  BY <1>t, <1>4 DEF Pending
<1>7. \A x \in Writers : \A k \in Unbumped(x) : k[1] # "zones" => k \in Unbumped(x)'
  BY <1>t, <1>4, KeyFacts DEF Unbumped
<1> QED BY <1>2, <1>3, <1>4, <1>5, <1>6, <1>7, BumpKeeps

(* names.DeleteGroup(zone) begins.                                           *)
LEMMA DeleteGroupKeeps == ASSUME IInv, NEW w \in Writers, DeleteGroup(w) PROVE IInv'
<1> DEFINE todo == {k \in NameKeys : wev[w].exact /\ k[2] = wev[w].zone}
           p == IF todo # {} THEN "sweepNames" ELSE "idle"
           e == IF p = "idle" THEN NoEvent ELSE wev[w]
<1>t. /\ TypeOK /\ EventInv /\ wev[w] \in Events /\ wtodo[w] = {} /\ wpc[w] = "group"
      /\ wev[w].name = NoName /\ wev[w].exact /\ wev[w].zone \in Zones
  BY DEF IInv, TypeOK, EventInv, EventAt, Events, DeleteGroup
<1>1. todo \in SUBSET Keys /\ p \in WPCs /\ e \in Events
  BY <1>t, KeyFacts DEF WPCs, Events, NoEvent
<1>2. /\ wpc' = [wpc EXCEPT ![w] = p]
      /\ wev' = [wev EXCEPT ![w] = e]
      /\ wtodo' = [wtodo EXCEPT ![w] = todo]
      /\ epoch' = [epoch EXCEPT !["names"] = epoch["names"] + 1]
      /\ UNCHANGED <<db, cache, lookupVars>>
  BY DEF DeleteGroup, SweepOn
<1>3. epoch' \in [Caches -> Nat] /\ DOMAIN cache' = Keys /\ "names" \in Caches
  BY <1>2, <1>t, SMTT(60) DEF TypeOK, Caches
<1>a. todo = NamesAffected(wev[w])
  BY <1>t DEF NamesAffected
<1>b. p \in {"sweepNames", "idle"} /\ (p = "idle" => todo = {} /\ e = NoEvent)
      /\ (p = "sweepNames" => e = wev[w])
  OBVIOUS
<1> HIDE DEF todo, p, e
<1>4. /\ TypeOK' /\ wpc'[w] = p /\ wev'[w] = e /\ wtodo'[w] = todo
      /\ \A x \in Writers : x # w => wpc'[x] = wpc[x] /\ wev'[x] = wev[x] /\ wtodo'[x] = wtodo[x]
  <2>1. UNCHANGED <<db, lookupVars>> /\ TypeOK
    BY <1>2, <1>t
  <2>2. /\ wpc' = [wpc EXCEPT ![w] = p]
        /\ wev' = [wev EXCEPT ![w] = e]
        /\ wtodo' = [wtodo EXCEPT ![w] = todo]
    BY <1>2
  <2> QED BY <1>1, <2>1, <2>2, <1>3 DEF TypeOK, WPCs, Events, db, lookupVars
<1>5. EventInv'
  BY <1>t, <1>b, <1>4, SMTT(60) DEF EventInv, EventAt, NoEvent, NoName
<1>6. \A x \in Writers : Pending(x) \subseteq Pending(x)'
  BY <1>t, <1>a, <1>4 DEF Pending
<1>7. \A x \in Writers : \A k \in Unbumped(x) : k[1] # "names" => k \in Unbumped(x)'
  BY <1>t, <1>4, KeyFacts DEF Unbumped, NamesAffected
<1> QED BY <1>2, <1>3, <1>4, <1>5, <1>6, <1>7, BumpKeeps

(* names.Delete(key) begins.                                                *)
LEMMA DeleteNameKeeps == ASSUME IInv, NEW w \in Writers, DeleteName(w) PROVE IInv'
<1>t. TypeOK /\ EventInv /\ wev[w] \in Events /\ wtodo[w] = {} /\ wpc[w] = "bump"
  BY DEF IInv, TypeOK, EventInv, EventAt, Events, DeleteName
<1>1. wtodo[w] \in SUBSET Keys
  BY <1>t
<1>2. /\ wpc' = [wpc EXCEPT ![w] = "delete"]
      /\ wev' = [wev EXCEPT ![w] = wev[w]]
      /\ wtodo' = [wtodo EXCEPT ![w] = wtodo[w]]
      /\ epoch' = [epoch EXCEPT !["names"] = epoch["names"] + 1]
      /\ UNCHANGED <<db, cache, lookupVars>>
  BY <1>t DEF DeleteName, TypeOK
<1>3. epoch' \in [Caches -> Nat] /\ DOMAIN cache' = Keys /\ "names" \in Caches
  BY <1>2, <1>t, SMTT(60) DEF TypeOK, Caches
<1>p. "delete" \in WPCs
  BY DEF WPCs
<1>u. UNCHANGED <<db, lookupVars>> /\ TypeOK
  BY <1>2, <1>t
<1>v. /\ wpc' = [wpc EXCEPT ![w] = "delete"]
      /\ wev' = [wev EXCEPT ![w] = wev[w]]
      /\ wtodo' = [wtodo EXCEPT ![w] = wtodo[w]]
  BY <1>2
<1>w. wev[w] \in Events
  BY <1>t
<1>4. /\ TypeOK' /\ wpc'[w] = "delete" /\ wev'[w] = wev[w] /\ wtodo'[w] = wtodo[w]
      /\ \A x \in Writers : x # w => wpc'[x] = wpc[x] /\ wev'[x] = wev[x] /\ wtodo'[x] = wtodo[x]
  BY <1>p, <1>w, <1>1, <1>u, <1>v, <1>3 DEF TypeOK, WPCs, Events, db, lookupVars
<1>5. EventInv'
  BY <1>t, <1>4, SMTT(60) DEF EventInv, EventAt
<1>6. \A x \in Writers : Pending(x) \subseteq Pending(x)'
  BY <1>t, <1>4 DEF Pending
<1>7. \A x \in Writers : \A k \in Unbumped(x) : k[1] # "names" => k \in Unbumped(x)'
  BY <1>t, <1>4, KeyFacts DEF Unbumped, NamesAffected
<1> QED BY <1>2, <1>3, <1>4, <1>5, <1>6, <1>7, BumpKeeps

(* One shard of Clear or DeleteGroup.                                        *)
LEMMA SweepKeeps ==
  ASSUME IInv, NEW w \in Writers, NEW k \in Keys, Sweep(w, k) PROVE IInv'
<1> DEFINE todo == wtodo[w] \ {k}
           p == IF todo # {} THEN wpc[w]
                ELSE IF wpc[w] = "sweepNames" THEN "idle"
                ELSE IF wev[w].name = NoName THEN "group" ELSE "bump"
           e == IF p = "idle" THEN NoEvent ELSE wev[w]
<1>t. /\ TypeOK /\ EventInv /\ wev[w] \in Events /\ wtodo[w] \in SUBSET Keys
      /\ wpc[w] \in {"sweepZones", "sweepNames"} /\ ~Locked(k) /\ k \in wtodo[w]
      /\ wev[w].exact /\ wev[w].zone \in Zones
      /\ wpc[w] = "sweepZones" => wtodo[w] \subseteq ZoneKeys
  BY DEF IInv, TypeOK, EventInv, EventAt, Events, Sweep
<1>1. todo \in SUBSET Keys /\ p \in WPCs /\ e \in Events
  BY <1>t DEF WPCs, Events, NoEvent
<1>2. /\ wpc' = [wpc EXCEPT ![w] = p]
      /\ wev' = [wev EXCEPT ![w] = e]
      /\ wtodo' = [wtodo EXCEPT ![w] = todo]
      /\ cache' = [cache EXCEPT ![k] = None]
      /\ UNCHANGED <<db, epoch, lookupVars>>
  BY DEF Sweep, SweepOn
<1>3. epoch' \in [Caches -> Nat] /\ DOMAIN cache' = Keys
  BY <1>2, <1>t DEF TypeOK
<1>b. /\ todo # {} => p = wpc[w] /\ e = wev[w]
      /\ todo = {} /\ wpc[w] = "sweepNames" => p = "idle" /\ e = NoEvent
      /\ todo = {} /\ wpc[w] = "sweepZones" =>
           e = wev[w] /\ p = (IF wev[w].name = NoName THEN "group" ELSE "bump")
  BY <1>t
<1>c. wtodo[w] \subseteq todo \cup {k} /\ todo \subseteq wtodo[w]
  OBVIOUS
<1> HIDE DEF todo, p, e
<1>u. UNCHANGED <<db, lookupVars>> /\ TypeOK
  BY <1>2, <1>t
<1>v. /\ wpc' = [wpc EXCEPT ![w] = p]
      /\ wev' = [wev EXCEPT ![w] = e]
      /\ wtodo' = [wtodo EXCEPT ![w] = todo]
  BY <1>2
<1>4. /\ TypeOK' /\ wpc'[w] = p /\ wev'[w] = e /\ wtodo'[w] = todo
      /\ \A x \in Writers : x # w => wpc'[x] = wpc[x] /\ wev'[x] = wev[x] /\ wtodo'[x] = wtodo[x]
  BY <1>1, <1>u, <1>v, <1>3 DEF TypeOK, WPCs, Events, db, lookupVars
<1>5. EventInv'
  <2>1. EventAt(w)
    BY <1>t DEF EventInv
  <2>2. EventAt(w)'
    <3>1. CASE todo # {}
      BY <2>1, <3>1, <1>t, <1>b, <1>c, <1>4 DEF EventAt
    <3>2. CASE todo = {} /\ wpc[w] = "sweepNames"
      <4>1. wpc'[w] = "idle" /\ wev'[w] = NoEvent /\ wtodo'[w] = {} /\ NoEvent.name = NoName
        BY <3>2, <1>b, <1>4 DEF NoEvent
      <4> QED BY <4>1 DEF EventAt
    <3>3. CASE todo = {} /\ wpc[w] = "sweepZones"
      BY <2>1, <3>3, <1>t, <1>b, <1>4 DEF EventAt
    <3> QED BY <3>1, <3>2, <3>3, <1>t
  <2> QED BY <2>2, <1>4, <1>t, EventKeeps
<1>6. \A x \in Writers : Pending(x) \subseteq Pending(x)' \cup {k}
  BY <1>t, <1>b, <1>c, <1>4 DEF Pending
<1>7. \A x \in Writers : Unbumped(x) \subseteq Unbumped(x)'
  BY <1>t, <1>b, <1>4 DEF Unbumped
<1> QED BY <1>2, <1>4, <1>5, <1>6, <1>7, <1>t, RemoveKeeps

(* names.Delete(key) ends, and the loop of Invalidate goes on to the parent. *)
LEMMA NameDeletedKeeps == ASSUME IInv, NEW w \in Writers, NameDeleted(w) PROVE IInv'
<1> DEFINE z == wev[w].zone
           n == wev[w].name
           k == NameKey(z, n)
           last == n = z \/ Len(n) = 1
           p == IF last THEN "idle" ELSE "bump"
           e == IF last THEN NoEvent ELSE [zone |-> z, name |-> Tail(n), exact |-> TRUE]
<1>t. /\ TypeOK /\ EventInv /\ wev[w] \in Events /\ wtodo[w] = {} /\ wpc[w] = "delete"
      /\ wev[w].exact = TRUE /\ z \in Zones /\ n # NoName /\ z \in Candidates[n]
  BY DEF IInv, TypeOK, EventInv, EventAt, Events, NameDeleted
<1>a. n \in Names /\ z \in Names
  BY <1>t, ResolverAssumption DEF Events
<1>b. /\ last => PathToApex(z, n) \subseteq {n}
      /\ ~last => /\ Tail(n) \in Names /\ z \in Candidates[Tail(n)]
                  /\ PathToApex(z, n) \subseteq {n} \cup PathToApex(z, Tail(n))
  BY <1>a, <1>t, PathStep, SMTT(60)
<1>c. k \in NameKeys /\ k \in Keys
  BY <1>a, <1>t DEF NameKeys, NameKey, Keys
<1>d. ~last => Tail(n) # NoName
  BY <1>b, ResolverAssumption DEF NoName
<1>1. wtodo[w] \in SUBSET Keys /\ p \in WPCs /\ e \in Events
  BY <1>t, <1>b DEF WPCs, Events, NoEvent
<1>2. /\ wpc' = [wpc EXCEPT ![w] = p]
      /\ wev' = [wev EXCEPT ![w] = e]
      /\ wtodo' = [wtodo EXCEPT ![w] = wtodo[w]]
      /\ cache' = [cache EXCEPT ![k] = None]
      /\ ~Locked(k)
      /\ UNCHANGED <<db, epoch, lookupVars>>
  BY <1>t DEF NameDeleted, TypeOK
<1>3. epoch' \in [Caches -> Nat] /\ DOMAIN cache' = Keys
  BY <1>2, <1>t DEF TypeOK
<1>u. UNCHANGED <<db, lookupVars>> /\ TypeOK
  BY <1>2, <1>t
<1>v. /\ wpc' = [wpc EXCEPT ![w] = p]
      /\ wev' = [wev EXCEPT ![w] = e]
      /\ wtodo' = [wtodo EXCEPT ![w] = wtodo[w]]
  BY <1>2
<1>h. /\ last => p = "idle" /\ e = NoEvent
      /\ ~last => p = "bump" /\ e = [zone |-> z, name |-> Tail(n), exact |-> TRUE]
  OBVIOUS
<1> HIDE DEF p, e
<1>4. /\ TypeOK' /\ wpc'[w] = p /\ wev'[w] = e /\ wtodo'[w] = wtodo[w]
      /\ \A x \in Writers : x # w => wpc'[x] = wpc[x] /\ wev'[x] = wev[x] /\ wtodo'[x] = wtodo[x]
  BY <1>1, <1>u, <1>v, <1>3 DEF TypeOK, WPCs, Events, db, lookupVars
<1>5. EventInv'
  <2>1. EventAt(w)'
    <3>1. CASE last
      <4>1. wpc'[w] = "idle" /\ wev'[w] = NoEvent /\ wtodo'[w] = {} /\ NoEvent.name = NoName
        BY <3>1, <1>h, <1>t, <1>4 DEF NoEvent
      <4> QED BY <4>1 DEF EventAt
    <3>2. CASE ~last
      <4>1. /\ wpc'[w] = "bump" /\ wev'[w].zone = z /\ wev'[w].name = Tail(n)
            /\ wev'[w].exact = TRUE /\ wtodo'[w] = {}
        BY <3>2, <1>h, <1>t, <1>4, SMTT(60)
      <4>2. /\ z \in Zones /\ z \in Candidates[Tail(n)] /\ Tail(n) # NoName
        BY <3>2, <1>t, <1>b, <1>d
      <4> HIDE DEF z, n
      <4> QED BY <4>1, <4>2 DEF EventAt
    <3> QED BY <3>1, <3>2
  <2> QED BY <2>1, <1>4, <1>t, EventKeeps
<1>6. \A x \in Writers : Pending(x) \subseteq Pending(x)' \cup {k}
  <2>1. Pending(w) = NamesAffected(wev[w])
    BY <1>t DEF Pending
  <2>2. ASSUME NEW j \in NamesAffected(wev[w]), j # k PROVE j \in Pending(w)'
    <3>1. j \in NameKeys /\ j[2] = z /\ j[3] \in PathToApex(z, n) /\ j = NameKey(j[2], j[3])
      BY <2>2, <1>t, KeyFacts DEF NamesAffected
    <3>2. j[3] # n
      BY <2>2, <3>1
    <3>3. ~last /\ j[3] \in PathToApex(z, Tail(n))
      BY <3>1, <3>2, <1>b
    <3>4. e = [zone |-> z, name |-> Tail(n), exact |-> TRUE] /\ p = "bump"
      BY <3>3, <1>h
    <3>5. j \in NamesAffected(e)
      BY <3>1, <3>3, <3>4 DEF NamesAffected
    <3> QED BY <3>4, <3>5, <1>4 DEF Pending
  <2>3. ASSUME NEW x \in Writers, x # w PROVE Pending(x)' = Pending(x)
    BY <2>3, <1>4 DEF Pending
  <2> QED BY <2>1, <2>2, <2>3
<1>7. \A x \in Writers : Unbumped(x) \subseteq Unbumped(x)'
  BY <1>t, <1>h, <1>4 DEF Unbumped
<1> HIDE DEF k
<1> QED BY <1>2, <1>4, <1>5, <1>6, <1>7, <1>t, <1>c, RemoveKeeps

----------------------------------------------------------------------------
(* Lookups *)

\* What the inductive invariant says of one lookup.
LookupInv(l) ==
    /\ lpc[l] \in {"query", "kids", "set"} => lmark[l] <= epoch[lkey[l][1]]
    /\ lpc[l] = "kids" => lkey[l] \in NameKeys
    /\ lpc[l] \in {"kids", "set"} /\ lmark[l] = epoch[lkey[l][1]] /\ StaleLoad(l)
         => \E w \in Writers : lkey[l] \in Unbumped(w)
    /\ lpc[l] = "put" /\ lval[l] # View(lkey[l])
         => \E w \in Writers : lkey[l] \in Pending(w)

(* A step of one lookup leaves the others as they are or lets them return.   *)
LEMMA LookupKeeps ==
  ASSUME IInv, NEW l \in Lookups, TypeOK', LookupInv(l)', Coherent',
         UNCHANGED <<db, epoch, writerVars>>,
         \A x \in Lookups : x # l =>
            \/ lpc'[x] = "idle"
            \/ /\ lpc'[x] = lpc[x] /\ lkey'[x] = lkey[x]
               /\ lmark'[x] = lmark[x] /\ lval'[x] = lval[x]
  PROVE  IInv'
<1>1. EventInv' /\ \A w \in Writers : Pending(w)' = Pending(w) /\ Unbumped(w)' = Unbumped(w)
  BY DEF IInv, EventInv, EventAt, writerVars, Pending, Unbumped
<1>2. \A k \in Keys : View(k)' = View(k)
  BY ViewStable
<1>3. ASSUME NEW x \in Lookups PROVE LookupInv(x)
  <2>1. lpc[x] \in {"query", "kids", "set"} => lmark[x] <= epoch[lkey[x][1]]
    BY DEF IInv, MarkInv
  <2>2. lpc[x] = "kids" => lkey[x] \in NameKeys
    BY DEF IInv, KidsInv
  <2>3. lpc[x] \in {"kids", "set"} /\ lmark[x] = epoch[lkey[x][1]] /\ StaleLoad(x)
          => \E w \in Writers : lkey[x] \in Unbumped(w)
    BY DEF IInv, FlightInv
  <2>4. lpc[x] = "put" /\ lval[x] # View(lkey[x])
          => \E w \in Writers : lkey[x] \in Pending(w)
    BY DEF IInv, PutInv
  <2> QED BY <2>1, <2>2, <2>3, <2>4 DEF LookupInv
<1>4. ASSUME NEW x \in Lookups PROVE LookupInv(x)'
  <2>1. CASE x = l
    BY <2>1
  <2>2. CASE lpc'[x] = "idle"
    BY <2>2 DEF LookupInv
  <2>3. CASE /\ lpc'[x] = lpc[x] /\ lkey'[x] = lkey[x]
             /\ lmark'[x] = lmark[x] /\ lval'[x] = lval[x]
    <3>1. lkey[x] \in Keys /\ epoch' = epoch /\ records' = records
      <4>1. lkey[x] \in Keys
        BY DEF IInv, TypeOK
      <4>2. epoch' = epoch /\ records' = records
        BY DEF db
      <4> QED BY <4>1, <4>2
    <3>2. View(lkey[x])' = View(lkey[x])
      BY <3>1, <2>3, SMTT(60) DEF db, View, FindZone, LookupName, HasChildren
    <3>3. StaleLoad(x)' <=> StaleLoad(x)
      BY <3>1, <3>2, <2>3 DEF StaleLoad
    <3>4. LookupInv(x)
      BY <1>3
    <3> QED BY <3>1, <3>2, <3>3, <3>4, <2>3, <1>1 DEF LookupInv
  <2> QED BY <2>1, <2>2, <2>3
<1> QED BY <1>1, <1>4 DEF IInv, MarkInv, KidsInv, FlightInv, PutInv, LookupInv

(* A step that leaves the cache alone keeps it coherent.                     *)
LEMMA SameCache ==
  ASSUME IInv, UNCHANGED <<db, cache, writerVars>> PROVE Coherent'
<1>1. \A w \in Writers : Pending(w)' = Pending(w)
  BY DEF writerVars, Pending
<1> QED BY <1>1, ViewStable DEF IInv, Coherent, Stale

(* singleflight.Do returns.                                                 *)
LEMMA FinishFacts ==
  ASSUME TypeOK, NEW l \in Lookups, Finish(l)
  PROVE  /\ lpc' \in [Lookups -> {"idle", "do", "wait"} \cup InFlight]
         /\ lkey' \in [Lookups -> Keys] /\ lmark' \in [Lookups -> Nat]
         /\ DOMAIN lval' = Lookups /\ lpc'[l] = "idle"
         /\ \A x \in Lookups : x # l =>
              \/ lpc'[x] = "idle"
              \/ /\ lpc'[x] = lpc[x] /\ lkey'[x] = lkey[x]
                 /\ lmark'[x] = lmark[x] /\ lval'[x] = lval[x]
BY KeyFacts DEF TypeOK, Finish

LEMMA MissKeeps ==
  ASSUME IInv, NEW l \in Lookups, NEW k \in Keys, Miss(l, k) PROVE IInv'
<1>1. TypeOK' /\ LookupInv(l)'
  BY DEF IInv, TypeOK, Miss, LookupInv, db, writerVars
<1>2. /\ UNCHANGED <<db, cache, epoch, writerVars>>
      /\ \A x \in Lookups : x # l => /\ lpc'[x] = lpc[x] /\ lkey'[x] = lkey[x]
                                     /\ lmark'[x] = lmark[x] /\ lval'[x] = lval[x]
  BY DEF IInv, TypeOK, Miss
<1> QED BY <1>1, <1>2, SameCache, LookupKeeps

LEMMA DoKeeps == ASSUME IInv, NEW l \in Lookups, Do(l) PROVE IInv'
<1>1. PICK p \in {"wait", "lead"} : lpc' = [lpc EXCEPT ![l] = p]
  BY DEF Do
<1>2. TypeOK' /\ LookupInv(l)'
  BY <1>1 DEF IInv, TypeOK, Do, LookupInv, db, writerVars, InFlight
<1>3. /\ UNCHANGED <<db, cache, epoch, writerVars>>
      /\ \A x \in Lookups : x # l => /\ lpc'[x] = lpc[x] /\ lkey'[x] = lkey[x]
                                     /\ lmark'[x] = lmark[x] /\ lval'[x] = lval[x]
  BY <1>1 DEF IInv, TypeOK, Do
<1> QED BY <1>2, <1>3, SameCache, LookupKeeps

LEMMA ReadEpochKeeps == ASSUME IInv, NEW l \in Lookups, ReadEpoch(l) PROVE IInv'
<1>1. lkey[l] \in Keys /\ lkey[l][1] \in Caches /\ epoch[lkey[l][1]] \in Nat
  BY KeyFacts DEF IInv, TypeOK
<1>2. TypeOK'
  BY <1>1 DEF IInv, TypeOK, ReadEpoch, db, writerVars, InFlight
<1>4. LookupInv(l)'
  <2>1. lpc'[l] = "query" /\ lkey' = lkey /\ epoch' = epoch /\ lmark'[l] = epoch[lkey[l][1]]
    BY DEF IInv, TypeOK, ReadEpoch
  <2>2. lmark'[l] <= epoch'[lkey'[l][1]]
    <3> DEFINE now == epoch[lkey[l][1]]
    <3>1. lmark'[l] = now /\ epoch'[lkey'[l][1]] = now /\ now \in Nat
      BY <2>1, <1>1
    <3> HIDE DEF now
    <3> QED BY <3>1
  <2> QED BY <2>1, <2>2 DEF LookupInv
<1>3. /\ UNCHANGED <<db, cache, epoch, writerVars>>
      /\ \A x \in Lookups : x # l => /\ lpc'[x] = lpc[x] /\ lkey'[x] = lkey[x]
                                     /\ lmark'[x] = lmark[x] /\ lval'[x] = lval[x]
  BY DEF IInv, TypeOK, ReadEpoch
<1> QED BY <1>2, <1>3, <1>4, SameCache, LookupKeeps

LEMMA QueryKeeps == ASSUME IInv, NEW l \in Lookups, Query(l) PROVE IInv'
<1> DEFINE k == lkey[l]
           more == k \in NameKeys /\ records[k] = 0
           p == IF more THEN "kids" ELSE "set"
           v == IF more THEN NoValue ELSE View(k)
<1>1. /\ lpc' = [lpc EXCEPT ![l] = p] /\ lval' = [lval EXCEPT ![l] = v] /\ lpc[l] = "query"
      /\ UNCHANGED <<db, cache, epoch, lkey, lmark, writerVars>>
  BY DEF Query
<1>2. k \in Keys /\ View(k)' = View(k) /\ lmark[l] <= epoch[k[1]]
  BY <1>1, ViewStable DEF IInv, TypeOK, MarkInv
<1>3. /\ p \in {"kids", "set"} /\ (p = "kids" => k \in NameKeys /\ records[k] = 0)
      /\ p # "kids" => v = View(k)
  OBVIOUS
<1> HIDE DEF p, v
<1>4. lpc'[l] = p /\ lval'[l] = v /\ lkey'[l] = k /\ lmark'[l] = lmark[l] /\ epoch' = epoch
      /\ records' = records
  BY <1>1 DEF IInv, TypeOK, db
<1>5. LookupInv(l)'
  BY <1>2, <1>3, <1>4 DEF LookupInv, StaleLoad
<1>6. TypeOK'
  BY <1>1, <1>3 DEF IInv, TypeOK, db, writerVars, InFlight
<1>7. /\ UNCHANGED <<db, cache, epoch, writerVars>>
      /\ \A x \in Lookups : x # l => /\ lpc'[x] = lpc[x] /\ lkey'[x] = lkey[x]
                                     /\ lmark'[x] = lmark[x] /\ lval'[x] = lval[x]
  BY <1>1 DEF IInv, TypeOK
<1> QED BY <1>5, <1>6, <1>7, SameCache, LookupKeeps

LEMMA QueryChildrenKeeps == ASSUME IInv, NEW l \in Lookups, QueryChildren(l) PROVE IInv'
<1> DEFINE k == lkey[l]
           v == <<0, HasChildren(k[2], k[3])>>
<1>1. /\ lpc' = [lpc EXCEPT ![l] = "set"] /\ lval' = [lval EXCEPT ![l] = v] /\ lpc[l] = "kids"
      /\ UNCHANGED <<db, cache, epoch, lkey, lmark, writerVars>>
  BY DEF QueryChildren
<1>2. k \in NameKeys /\ k \in Keys /\ k \notin ZoneKeys /\ lmark[l] <= epoch[k[1]]
  <2>1. k \in NameKeys
    BY <1>1 DEF IInv, KidsInv
  <2>2. k \in Keys /\ k \notin ZoneKeys
    BY <2>1, KeyFacts
  <2>3. lmark[l] <= epoch[k[1]]
    BY <1>1 DEF IInv, MarkInv
  <2> QED BY <2>1, <2>2, <2>3
<1>3. v # View(k) => records[k] # 0
  BY <1>2 DEF View, LookupName
<1>4. lmark[l] = epoch[k[1]] /\ records[k] # 0 => \E w \in Writers : k \in Unbumped(w)
  BY <1>1 DEF IInv, FlightInv, StaleLoad
<1> HIDE DEF v
<1>5. lpc'[l] = "set" /\ lval'[l] = v /\ lkey'[l] = k /\ lmark'[l] = lmark[l] /\ epoch' = epoch
  BY <1>1 DEF IInv, TypeOK
<1>6. View(lkey[l])' = View(k)
  BY <1>1, <1>2, ViewStable
<1>7. \A w \in Writers : Unbumped(w)' = Unbumped(w)
  BY <1>1 DEF writerVars, Unbumped
<1>8. LookupInv(l)'
  BY <1>2, <1>3, <1>4, <1>5, <1>6, <1>7 DEF LookupInv, StaleLoad
<1>9. TypeOK'
  BY <1>1 DEF IInv, TypeOK, db, writerVars, InFlight
<1>10. /\ UNCHANGED <<db, cache, epoch, writerVars>>
       /\ \A x \in Lookups : x # l => /\ lpc'[x] = lpc[x] /\ lkey'[x] = lkey[x]
                                      /\ lmark'[x] = lmark[x] /\ lval'[x] = lval[x]
  BY <1>1 DEF IInv, TypeOK
<1> QED BY <1>8, <1>9, <1>10, SameCache, LookupKeeps

(* A flight that ends without storing.                                       *)
LEMMA GivesUpKeeps ==
  ASSUME IInv, NEW l \in Lookups, Finish(l), UNCHANGED <<db, cache, epoch, writerVars>>
  PROVE  IInv'
<1>1. TypeOK' /\ LookupInv(l)'
  BY FinishFacts DEF IInv, TypeOK, LookupInv, db, writerVars
<1> QED BY <1>1, FinishFacts, SameCache, LookupKeeps DEF IInv

LEMMA SetCheckKeeps == ASSUME IInv, NEW l \in Lookups, SetCheck(l) PROVE IInv'
<1>1. CASE epoch[lkey[l][1]] # lmark[l]
  BY <1>1, GivesUpKeeps DEF SetCheck
<1>2. CASE epoch[lkey[l][1]] = lmark[l]
  <2>1. /\ lpc' = [lpc EXCEPT ![l] = "put"] /\ lpc[l] = "set"
        /\ UNCHANGED <<lkey, lmark, lval>> /\ UNCHANGED <<db, cache, epoch, writerVars>>
    BY <1>2 DEF SetCheck
  <2>2. lval[l] # View(lkey[l]) => \E w \in Writers : lkey[l] \in Unbumped(w)
    BY <1>2, <2>1 DEF IInv, FlightInv, StaleLoad
  <2>3. \A w \in Writers : Unbumped(w) \subseteq Pending(w)'
    BY <2>1 DEF writerVars, Unbumped, Pending
  <2>4. View(lkey[l])' = View(lkey[l])
    BY <2>1, SMTT(60) DEF db, View, FindZone, LookupName, HasChildren
  <2>5. lpc'[l] = "put"
    BY <2>1 DEF IInv, TypeOK
  <2>6. LookupInv(l)'
    BY <2>1, <2>2, <2>3, <2>4, <2>5 DEF LookupInv
  <2>7. TypeOK'
    BY <2>1 DEF IInv, TypeOK, db, writerVars, InFlight
  <2>8. \A x \in Lookups : x # l => /\ lpc'[x] = lpc[x] /\ lkey'[x] = lkey[x]
                                    /\ lmark'[x] = lmark[x] /\ lval'[x] = lval[x]
    BY <2>1 DEF IInv, TypeOK
  <2> QED BY <2>1, <2>6, <2>7, <2>8, SameCache, LookupKeeps
<1> QED BY <1>1, <1>2

LEMMA PutKeeps == ASSUME IInv, NEW l \in Lookups, Put(l) PROVE IInv'
<1>1. lpc[l] = "put" /\ Finish(l) /\ UNCHANGED <<db, epoch, writerVars>>
  BY DEF Put
<1>2. /\ DOMAIN cache' = Keys
      /\ \A k \in Keys : IF k = lkey[l] THEN cache'[k] = lval[l]
                         ELSE cache'[k] = None \/ cache'[k] = cache[k]
  BY DEF Put
<1>3. TypeOK' /\ LookupInv(l)'
  BY <1>1, <1>2, FinishFacts DEF IInv, TypeOK, LookupInv, db, writerVars
<1>4. \A w \in Writers : Pending(w)' = Pending(w)
  BY <1>1 DEF writerVars, Pending
<1>5. \A k \in Keys : View(k)' = View(k)
  BY <1>1, ViewStable
<1>6. Coherent'
  <2> SUFFICES ASSUME NEW k \in Keys, cache'[k] # None, cache'[k] # View(k)'
               PROVE  \E w \in Writers : k \in Pending(w)
    BY <1>4 DEF Coherent, Stale
  <2>1. CASE k = lkey[l]
    BY <2>1, <1>1, <1>2, <1>5 DEF IInv, PutInv
  <2>2. CASE k # lkey[l]
    BY <2>2, <1>2, <1>5 DEF IInv, Coherent, Stale
  <2> QED BY <2>1, <2>2
<1> QED BY <1>1, <1>3, <1>6, FinishFacts, LookupKeeps DEF IInv

LEMMA ExpireKeeps == ASSUME IInv, NEW k \in Keys, Expire(k) PROVE IInv'
<1>1. /\ cache' = [cache EXCEPT ![k] = None] /\ UNCHANGED <<db, epoch, lookupVars, writerVars>>
      /\ TypeOK
  BY DEF Expire, IInv
<1>2. TypeOK' /\ EventInv' /\ MarkInv' /\ KidsInv'
  BY <1>1 DEF IInv, TypeOK, EventInv, EventAt, MarkInv, KidsInv, db, lookupVars, writerVars
<1>3. \A w \in Writers : Pending(w)' = Pending(w) /\ Unbumped(w)' = Unbumped(w)
  BY <1>1 DEF writerVars, Pending, Unbumped
<1>4. \A j \in Keys : View(j)' = View(j)
  BY <1>1, ViewStable
<1>5. ASSUME NEW l \in Lookups PROVE View(lkey[l])' = View(lkey[l]) /\ (StaleLoad(l)' <=> StaleLoad(l))
  BY <1>1, ViewStable DEF TypeOK, StaleLoad, lookupVars, db
<1>6. FlightInv' /\ PutInv'
  BY <1>1, <1>3, <1>5 DEF IInv, FlightInv, PutInv, lookupVars
<1>7. Coherent'
  <2> SUFFICES ASSUME NEW j \in Keys, cache'[j] # None, cache'[j] # View(j)'
               PROVE  \E w \in Writers : j \in Pending(w)
    BY <1>3 DEF Coherent, Stale
  <2>1. cache'[j] = cache[j]
    BY <1>1 DEF TypeOK
  <2> QED BY <2>1, <1>4 DEF IInv, Coherent, Stale
<1> QED BY <1>2, <1>6, <1>7 DEF IInv

LEMMA StutterKeeps == ASSUME IInv, UNCHANGED vars PROVE IInv'
<1> USE DEF vars, db, lookupVars, writerVars
<1>1. TypeOK' /\ EventInv' /\ MarkInv' /\ KidsInv'
  BY DEF IInv, TypeOK, EventInv, EventAt, MarkInv, KidsInv
<1>2. \A w \in Writers : Pending(w)' = Pending(w) /\ Unbumped(w)' = Unbumped(w)
  BY DEF Pending, Unbumped
<1>3. ASSUME NEW l \in Lookups PROVE View(lkey[l])' = View(lkey[l]) /\ (StaleLoad(l)' <=> StaleLoad(l))
  BY ViewStable DEF IInv, TypeOK, StaleLoad
<1>4. FlightInv' /\ PutInv'
  BY <1>2, <1>3 DEF IInv, FlightInv, PutInv
<1>5. Coherent'
  BY SameCache
<1> QED BY <1>1, <1>4, <1>5 DEF IInv

(* Every step keeps the inductive invariant.                                 *)
LEMMA NextIInv == ASSUME MaxDots <= 1, IInv, [Next]_vars PROVE IInv'
<1>1. ASSUME NEW l \in Lookups, LookupStep(l) \/ QueryFails(l) PROVE IInv'
  BY <1>1, DoKeeps, ReadEpochKeeps, QueryKeeps, QueryChildrenKeeps, SetCheckKeeps, PutKeeps,
     GivesUpKeeps DEF LookupStep, QueryFails
<1>2. ASSUME NEW l \in Lookups, NEW k \in Keys, Hit(l, k) \/ Miss(l, k) PROVE IInv'
  BY <1>2, MissKeeps, StutterKeeps DEF Hit
<1>3. ASSUME NEW w \in Writers, Write(w) PROVE IInv'
  BY <1>3, WriteCommits, CommitKeeps DEF IInv
<1>4. ASSUME NEW w \in Writers, InvalidateStep(w) PROVE IInv'
  BY <1>4, ClearZonesKeeps, SweepKeeps, DeleteGroupKeeps, DeleteNameKeeps, NameDeletedKeeps
     DEF InvalidateStep
<1>5. ASSUME NEW k \in Keys, Expire(k) PROVE IInv'
  BY <1>5, ExpireKeeps
<1> QED BY <1>1, <1>2, <1>3, <1>4, <1>5, StutterKeeps DEF Next

(* Every variable of the resolver keeps its type.                            *)
THEOREM ResolverTypeOK ==
  ASSUME MaxDots <= 1, MaxContent >= 1, MaxWrites >= 1 PROVE Spec => []TypeOK
<1>1. Init => IInv
  BY InitIInv
<1>2. IInv /\ [Next]_vars => IInv'
  BY NextIInv
<1>3. IInv => TypeOK
  BY DEF IInv
<1> QED BY <1>1, <1>2, <1>3, PTL DEF Spec

(* The cache of an instance is coherent with the database up to the         *)
(* invalidations under way, for any zones, names, lookups and writers:       *)
(* FindZone, LookupName and Invalidate of cached.go together.                *)
THEOREM ResolverCoherent ==
  ASSUME MaxDots <= 1, MaxContent >= 1, MaxWrites >= 1 PROVE Spec => []Coherent
<1>1. Init => IInv
  BY InitIInv
<1>2. IInv /\ [Next]_vars => IInv'
  BY NextIInv
<1>3. IInv => Coherent
  BY DEF IInv
<1> QED BY <1>1, <1>2, <1>3, PTL DEF Spec

----------------------------------------------------------------------------
(* Every step of a lookup, a write or an invalidation is, under the mapping  *)
(* Abstract, a step of the abstract cache or none.                         *)

\* The keys still to be invalidated: what Abstract maps to `dirty`.
Dirty == UNION {Pending(w) : w \in Writers}

(* Only keys are invalidated.                                               *)
LEMMA PendingKeys == ASSUME TypeOK PROVE \A w \in Writers : Pending(w) \subseteq Keys
BY DEF TypeOK, Pending, NamesAffected, Keys

(* The candidates of a parent are candidates of the name.                   *)
LEMMA ParentCandidates ==
  ASSUME NEW n \in Names, Tail(n) \in Names
  PROVE  Candidates[Tail(n)] \subseteq Candidates[n]
<1> SUFFICES ASSUME NEW a \in Candidates[Tail(n)] PROVE a \in Candidates[n]
  OBVIOUS
<1>1. n \in Seq(STRING) /\ Len(n) \in Nat
  BY CandidatesType
<1>2. PICK i \in 1 .. Len(Tail(n)) : a = SubSeq(Tail(n), i, Len(Tail(n)))
  BY DEF Candidates
<1>3. Len(Tail(n)) = Len(n) - 1
  BY <1>1, CandidatesType, SMTT(60)
<1>4. i + 1 \in 1 .. Len(n) /\ i + 1 >= 2
  BY <1>1, <1>3, SMTT(60)
<1>5. SubSeq(Tail(n), i, Len(Tail(n))) = SubSeq(n, i + 1, Len(n))
  BY <1>1, <1>3, <1>4
<1> QED BY <1>2, <1>4, <1>5 DEF Candidates

(* Nothing is added to what a writer has yet to remove by removing.          *)
LEMMA InvalidateShrinks ==
  ASSUME IInv, NEW w \in Writers, InvalidateStep(w)
  PROVE  \A x \in Writers : Pending(x)' \subseteq Pending(x)
<1>t. /\ TypeOK /\ EventAt(w)
  BY DEF IInv, EventInv
<1> DEFINE Others == \A x \in Writers : x # w =>
                       wpc'[x] = wpc[x] /\ wev'[x] = wev[x] /\ wtodo'[x] = wtodo[x]
<1>0. ASSUME Others, Pending(w)' \subseteq Pending(w)
      PROVE  \A x \in Writers : Pending(x)' \subseteq Pending(x)
  BY <1>0 DEF Pending
<1>1. CASE ClearZones(w)
  <2>1. Others
    BY <1>1, <1>t DEF ClearZones, SweepOn, TypeOK
  <2>2. /\ wtodo'[w] = ZoneKeys /\ wpc[w] = "clear" /\ wev'[w] = wev[w]
        /\ wpc'[w] = "sweepZones"
    BY <1>1, <1>t, ResolverAssumption, SMTT(60) DEF ClearZones, SweepOn, TypeOK, ZoneKeys
  <2>3. Pending(w)' \subseteq Pending(w)
    BY <2>2 DEF Pending
  <2> QED BY <2>1, <2>3, <1>0
<1>2. CASE DeleteGroup(w)
  <2>1. Others
    BY <1>2, <1>t DEF DeleteGroup, SweepOn, TypeOK
  <2>2. /\ wtodo'[w] = {k \in NameKeys : wev[w].exact /\ k[2] = wev[w].zone}
        /\ wpc[w] = "group" /\ wev[w].name = NoName
        /\ wpc'[w] \in {"sweepNames", "idle"}
    BY <1>2, <1>t DEF DeleteGroup, SweepOn, TypeOK, EventAt
  <2>3. wtodo'[w] \subseteq NamesAffected(wev[w])
    BY <2>2 DEF NamesAffected
  <2>4. Pending(w)' \subseteq Pending(w)
    BY <2>2, <2>3 DEF Pending
  <2> QED BY <2>1, <2>4, <1>0
<1>3. CASE DeleteName(w)
  <2>1. Others
    BY <1>3, <1>t DEF DeleteName, TypeOK
  <2>2. wpc[w] = "bump" /\ wpc'[w] = "delete" /\ wev' = wev /\ wtodo' = wtodo
    BY <1>3, <1>t DEF DeleteName, TypeOK
  <2>3. Pending(w)' \subseteq Pending(w)
    BY <2>2 DEF Pending
  <2> QED BY <2>1, <2>3, <1>0
<1>4. ASSUME NEW k \in Keys, Sweep(w, k)
      PROVE  \A x \in Writers : Pending(x)' \subseteq Pending(x)
  <2>1. Others
    BY <1>4, <1>t DEF Sweep, SweepOn, TypeOK
  <2>2. /\ wtodo'[w] \subseteq wtodo[w]
        /\ wpc[w] = "sweepNames" => wpc'[w] \in {"sweepNames", "idle"}
        /\ wpc[w] = "sweepZones" =>
             wpc'[w] \in {"sweepZones", "group", "bump"} /\ wev'[w] = wev[w]
        /\ wpc[w] \in {"sweepZones", "sweepNames"}
    BY <1>4, <1>t DEF Sweep, SweepOn, TypeOK
  <2>3. Pending(w)' \subseteq Pending(w)
    BY <2>2 DEF Pending
  <2> QED BY <2>1, <2>3, <1>0
<1>5. CASE NameDeleted(w)
  <2> DEFINE z == wev[w].zone
             n == wev[w].name
             last == n = z \/ Len(n) = 1
  <2>1. Others
    BY <1>5, <1>t DEF NameDeleted, TypeOK
  <2>2. /\ wpc[w] = "delete" /\ z \in Zones /\ n # NoName /\ z \in Candidates[n]
        /\ wev[w].exact /\ wtodo' = wtodo
    BY <1>5, <1>t DEF NameDeleted, EventAt
  <2>3. n \in Names /\ z \in Names
    BY <2>2, <1>t, ResolverAssumption DEF TypeOK
  <2>4. CASE last
    <3>1. wpc'[w] = "idle"
      BY <2>4, <1>5, <1>t DEF NameDeleted, TypeOK
    <3>2. Pending(w)' \subseteq Pending(w)
      BY <3>1, <2>2 DEF Pending
    <3> QED BY <2>1, <3>2, <1>0
  <2>5. CASE ~last
    <3>1. /\ wpc'[w] = "bump"
          /\ wev'[w] = [zone |-> z, name |-> Tail(n), exact |-> wev[w].exact]
      BY <2>5, <1>5, <1>t DEF NameDeleted, TypeOK
    <3>2. Tail(n) \in Names
      BY <2>5, <2>2, <2>3, PathStep, SMTT(60)
    <3>3. PathToApex(z, Tail(n)) \subseteq PathToApex(z, n)
      BY <3>2, <2>3, ParentCandidates DEF PathToApex
    <3>4. Tail(n) # NoName
      BY <3>2, ResolverAssumption DEF NoName
    <3>5. NamesAffected(wev'[w]) \subseteq NamesAffected(wev[w])
      BY <3>1, <3>3, <3>4, SMTT(60) DEF NamesAffected
    <3>6. Pending(w)' \subseteq Pending(w)
      BY <3>1, <3>5, <2>2 DEF Pending
    <3> QED BY <2>1, <3>6, <1>0
  <2> QED BY <2>4, <2>5
<1> QED BY <1>1, <1>2, <1>3, <1>4, <1>5 DEF InvalidateStep

(* What goes on without a write or a Set is, to the abstract cache, a Clean: *)
(* a key that ceases to be dirty is gone or right, since the invariant       *)
(* holds after the step.                                                   *)
LEMMA CleanStep ==
  ASSUME IInv, IInv', UNCHANGED db,
         \A k \in Keys : cache'[k] \in {cache[k], None},
         \A w \in Writers : Pending(w)' \subseteq Pending(w)
  PROVE  Abstract!Next
<1>1. \A k \in Keys : View(k)' = View(k)
  BY ViewStable
<1>2. [k \in Keys |-> View(k)]' = [k \in Keys |-> View(k)]
  BY <1>1
<1>3. Dirty' \subseteq Dirty /\ Dirty \subseteq Keys
  BY PendingKeys DEF Dirty, IInv
<1>4. ASSUME NEW k \in Dirty \ Dirty' PROVE cache'[k] \in {None, View(k)}
  <2>1. k \in Keys /\ \A w \in Writers : k \notin Pending(w)'
    BY <1>3, <1>4 DEF Dirty
  <2>2. ~Stale(k)'
    BY <2>1 DEF IInv, Coherent
  <2> QED BY <2>1, <2>2, <1>1 DEF Stale
<1>5. Abstract!Clean
  BY <1>2, <1>3, <1>4 DEF Abstract!Clean, Abstract!Fewer, Dirty
<1> QED BY <1>5 DEF Abstract!Next

(* A commit is a Write of the abstract cache.                               *)
LEMMA WriteStep ==
  ASSUME IInv, NEW w \in Writers, Committed(w), TypeOK' PROVE Abstract!Next
<1>1. cache' = cache /\ wtodo' = wtodo /\ wpc[w] = "idle" /\ wpc'[w] = "clear"
  BY DEF Committed, IInv, TypeOK
<1>e. wtodo[w] = {}
  BY <1>1 DEF IInv, EventInv, EventAt
<1>2. \A x \in Writers : x # w => wpc'[x] = wpc[x] /\ wev'[x] = wev[x]
  BY DEF Committed, IInv, TypeOK
<1>3. \A x \in Writers : Pending(x) \subseteq Pending(x)'
  BY <1>1, <1>2, <1>e DEF Pending
<1>4. Dirty \subseteq Dirty' /\ Dirty' \subseteq Keys
  <2>1. \A x \in Writers : Pending(x)' \subseteq Keys
    BY DEF TypeOK, Pending, NamesAffected, Keys
  <2> QED BY <1>3, <2>1 DEF Dirty
<1>5. ASSUME NEW k \in Keys, View(k)' # View(k) PROVE k \in Dirty'
  <2>1. k \in ZoneKeys \cup NamesAffected(wev'[w])
    BY <1>5 DEF Committed
  <2>2. k \in Pending(w)'
    BY <2>1, <1>1 DEF Pending
  <2> QED BY <2>2 DEF Dirty
<1>6. Abstract!Write
  BY <1>1, <1>4, <1>5 DEF Abstract!Write, Dirty
<1> QED BY <1>6 DEF Abstract!Next

(* A Set that stores is a Fill: by PutInv, of the true answer or of a key    *)
(* whose removal is to come.                                               *)
LEMMA FillStep == ASSUME IInv, NEW l \in Lookups, Put(l) PROVE Abstract!Next
<1>1. lkey[l] \in Keys /\ UNCHANGED db /\ UNCHANGED writerVars /\ lpc[l] = "put"
  BY DEF IInv, TypeOK, Put
<1>2. [k \in Keys |-> View(k)]' = [k \in Keys |-> View(k)] /\ Dirty' = Dirty
  BY <1>1, ViewStable DEF Dirty, Pending, writerVars
<1>3. cache'[lkey[l]] = lval[l] /\ \A k \in Keys \ {lkey[l]} : cache'[k] \in {cache[k], None}
  BY <1>1 DEF Put
<1>4. lkey[l] \in Dirty \/ lval[l] = View(lkey[l])
  BY <1>1 DEF IInv, PutInv, Dirty
<1>5. Abstract!Fill(lkey[l])
  BY <1>1, <1>2, <1>3, <1>4 DEF Abstract!Fill, Abstract!Fewer, Dirty
<1> QED BY <1>1, <1>5 DEF Abstract!Next

(* A step that changes neither database, cache nor writers is none of it.    *)
LEMMA NoStep == ASSUME UNCHANGED <<db, cache, writerVars>> PROVE UNCHANGED Abstract!vars
<1>1. [k \in Keys |-> View(k)]' = [k \in Keys |-> View(k)]
  BY ViewStable
<1>2. Dirty' = Dirty
  BY DEF Dirty, Pending, writerVars
<1> QED BY <1>1, <1>2 DEF Abstract!vars, Dirty

(* Every step of an instance is a step of the abstract cache, or none.       *)
LEMMA NextRefines ==
  ASSUME MaxDots <= 1, IInv, IInv', [Next]_vars PROVE [Abstract!Next]_Abstract!vars
<1>1. ASSUME NEW l \in Lookups, LookupStep(l) \/ QueryFails(l)
      PROVE  Abstract!Next \/ UNCHANGED Abstract!vars
  <2>1. CASE Put(l)
    BY <2>1, FillStep
  <2>2. CASE Do(l) \/ ReadEpoch(l) \/ Query(l) \/ QueryChildren(l) \/ SetCheck(l) \/ QueryFails(l)
    <3>1. UNCHANGED <<db, cache, writerVars>>
      BY <2>2 DEF Do, ReadEpoch, Query, QueryChildren, SetCheck, QueryFails
    <3> QED BY <3>1, NoStep
  <2> QED BY <1>1, <2>1, <2>2 DEF LookupStep
<1>2. ASSUME NEW l \in Lookups, NEW k \in Keys, Hit(l, k) \/ Miss(l, k)
      PROVE  UNCHANGED Abstract!vars
  <2>1. UNCHANGED <<db, cache, writerVars>>
    BY <1>2 DEF Hit, Miss, vars, db, writerVars
  <2> QED BY <2>1, NoStep
<1>3. ASSUME NEW w \in Writers, Write(w) PROVE Abstract!Next
  BY <1>3, WriteCommits, WriteStep DEF IInv
<1>4. ASSUME NEW w \in Writers, InvalidateStep(w) PROVE Abstract!Next
  <2>1. UNCHANGED db
    BY <1>4 DEF InvalidateStep, ClearZones, Sweep, DeleteGroup, DeleteName, NameDeleted
  <2>2. \A k \in Keys : cache'[k] \in {cache[k], None}
    <3>1. DOMAIN cache = Keys
      BY DEF IInv, TypeOK
    <3>2. CASE ClearZones(w) \/ DeleteGroup(w) \/ DeleteName(w)
      BY <3>2 DEF ClearZones, DeleteGroup, DeleteName
    <3>3. ASSUME NEW j \in Keys, Sweep(w, j) PROVE \A k \in Keys : cache'[k] \in {cache[k], None}
      BY <3>1, <3>3 DEF Sweep
    <3>4. CASE NameDeleted(w)
      <4>1. PICK j, v : v \in {cache[j], None} /\ cache' = [cache EXCEPT ![j] = v]
        BY <3>4 DEF NameDeleted
      <4> QED BY <3>1, <4>1
    <3> QED BY <1>4, <3>2, <3>3, <3>4 DEF InvalidateStep
  <2> QED BY <2>1, <2>2, <1>4, InvalidateShrinks, CleanStep
<1>5. ASSUME NEW k \in Keys, Expire(k) PROVE Abstract!Next
  <2>1. UNCHANGED <<db, writerVars>> /\ \A j \in Keys : cache'[j] \in {cache[j], None}
    BY <1>5 DEF Expire, IInv, TypeOK
  <2>2. \A w \in Writers : Pending(w)' \subseteq Pending(w)
    BY <2>1 DEF Pending, writerVars
  <2> QED BY <2>1, <2>2, CleanStep
<1>6. CASE UNCHANGED vars
  <2>1. UNCHANGED <<db, cache, writerVars>>
    BY <1>6 DEF vars, db, writerVars
  <2> QED BY <2>1, NoStep
<1> QED BY <1>1, <1>2, <1>3, <1>4, <1>5, <1>6 DEF Next

(* An instance starts as the abstract cache does: empty, nothing dirty.      *)
LEMMA InitRefines == ASSUME Init PROVE Abstract!Init
<1>1. \A k \in Keys : cache[k] = None
  BY DEF Init
<1>2. \A w \in Writers : Pending(w) = {}
  BY DEF Init, Pending
<1> QED BY <1>1, <1>2 DEF Abstract!Init

(* An instance's cache, with the lookups, writes and invalidations of        *)
(* cached.go interleaved as they may be, behaves as the abstract cache: for  *)
(* any zones, names, lookups and writers.                                  *)
THEOREM ResolverImplements ==
  ASSUME MaxDots <= 1, MaxContent >= 1, MaxWrites >= 1
  PROVE  Spec => ImplementsCoherentCache
<1>1. Init => IInv /\ Abstract!Init
  BY InitIInv, InitRefines
<1>2. IInv /\ [Next]_vars => IInv'
  BY NextIInv
<1>3. IInv /\ IInv' /\ [Next]_vars => [Abstract!Next]_Abstract!vars
  BY NextRefines
<1> QED BY <1>1, <1>2, <1>3, PTL DEF Spec, ImplementsCoherentCache, Abstract!Spec
=============================================================================
