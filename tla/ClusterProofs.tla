--------------------------- MODULE ClusterProofs ---------------------------
(***************************************************************************)
(* Proof that the caches of any number of instances are one coherent cache  *)
(* but for lost events, and that an instance sees its own writes, whatever   *)
(* is lost, crashes or comes late.                                         *)
(***************************************************************************)
EXTENDS Cluster, TLAPS

\* The provers that every leaf is given to, in this order.
USE ZenonT(60), SMTT(60)

ChangeEvents == [origin : Instances, key : Keys]

Types ==
    /\ db \in [Keys -> Nat]
    /\ cached \in [Instances -> [Keys -> Nat \cup {None}]]
    /\ flight \in [Instances -> [Keys -> Nat \cup {None}]]
    /\ own \in [Instances -> [Keys -> Nat]]
    /\ missed \in [Instances -> SUBSET Keys]
    /\ pc \in [Handlers -> {"idle", "invalidate", "publish"}]
    /\ hkey \in [Handlers -> Keys \cup {None}]
    /\ hver \in [Handlers -> Nat]
    /\ out \in [Instances -> Seq(ChangeEvents)]
    /\ inbox \in [Instances -> Seq(ChangeEvents)]
    /\ link \in [Instances -> BOOLEAN]
    /\ sub \in [Instances -> BOOLEAN]
    /\ recon \in [Instances -> BOOLEAN]

\* A handler that has committed knows the key, and what it wrote is there.
HandlerInv ==
    \A h \in Handlers :
      /\ pc[h] = "idle" => hkey[h] = None
      /\ pc[h] # "idle" => hkey[h] \in Keys /\ hver[h] <= db[hkey[h]]

\* An instance publishes events of its own.
OutInv == \A i \in Instances : \A e \in Range(out[i]) : e.origin = i

Basic == Types /\ HandlerInv /\ OutInv

\* Why key k of instance i is dirty: a handler has yet to invalidate or to
\* publish, the event is in its publisher's buffer, or on its way to i.
Held(i, k) ==
    \E h \in Handlers : hkey[h] = k /\ (pc[h] = "invalidate" \/ home[h] # i)
Sent(i, k) == \E j \in Instances \ {i} : Event(j, k) \in Range(out[j])
Due(i, k) == \E j \in Instances \ {i} : Event(j, k) \in Range(inbox[i])

Owed(i, k) ==
    ~link[i] \/ recon[i] \/ k \in missed[i] \/ Held(i, k) \/ Sent(i, k) \/ Due(i, k)

\* What is cached, or about to be, is true or owed an invalidation; and it is
\* no older than what the instance's own handlers have notified of.
EntryInv(i, k) ==
    /\ cached[i][k] \in {None, db[k]} \/ Owed(i, k)
    /\ flight[i][k] \in {None, db[k]} \/ Owed(i, k)
    /\ own[i][k] <= db[k]
    /\ cached[i][k] # None => cached[i][k] >= own[i][k]
    /\ flight[i][k] # None => flight[i][k] >= own[i][k]

EntriesInv == \A i \in Instances, k \in Keys : EntryInv(i, k)

\* The inductive invariant.
IInv == Basic /\ EntriesInv

\* What a step may do to an entry: leave it, with what it is owed, or drop it.
Same(i, k) ==
    /\ cached'[i][k] = cached[i][k] /\ flight'[i][k] = flight[i][k]
    /\ own'[i][k] = own[i][k]
    /\ Owed(i, k) => Owed(i, k)'

Gone(i, k) ==
    cached'[i][k] = None /\ flight'[i][k] = None /\ own'[i][k] <= db[k]

\* A step of neither the database nor a lookup, after which no more is owed.
Quiet ==
    /\ db' = db
    /\ \A i \in Instances, k \in Keys :
         (Same(i, k) \/ Gone(i, k)) /\ (Owed(i, k)' => Owed(i, k))

----------------------------------------------------------------------------
(* Sequences of events *)

(* An event is what it says.                                                *)
LEMMA EventFacts ==
  /\ \A i \in Instances, k \in Keys : /\ Event(i, k) \in ChangeEvents
                                      /\ Event(i, k).origin = i /\ Event(i, k).key = k
  /\ \A e \in ChangeEvents : e = Event(e.origin, e.key) /\ e.origin \in Instances /\ e.key \in Keys
BY DEF Event, ChangeEvents

(* What a sequence holds after one is put at its end.                        *)
LEMMA RangeAppend ==
  ASSUME NEW S, NEW s \in Seq(S), NEW e \in S
  PROVE  Append(s, e) \in Seq(S) /\ Range(Append(s, e)) = Range(s) \cup {e}
<1>1. Append(s, e) \in Seq(S) /\ Len(Append(s, e)) = Len(s) + 1 /\ Len(s) \in Nat
  OBVIOUS
<1>2. \A n \in 1 .. Len(s) : Append(s, e)[n] = s[n]
  OBVIOUS
<1>3. Append(s, e)[Len(s) + 1] = e
  OBVIOUS
<1>4. DOMAIN s = 1 .. Len(s) /\ DOMAIN Append(s, e) = 1 .. Len(s) + 1
  BY <1>1
<1>5. Range(Append(s, e)) \subseteq Range(s) \cup {e}
  BY <1>1, <1>2, <1>3, <1>4, SMTT(60) DEF Range
<1>6. Range(s) \cup {e} \subseteq Range(Append(s, e))
  <2>1. ASSUME NEW n \in DOMAIN s PROVE s[n] \in Range(Append(s, e))
    BY <1>1, <1>2, <1>4, SMTT(60) DEF Range
  <2>2. e \in Range(Append(s, e))
    BY <1>1, <1>3, <1>4 DEF Range
  <2> QED BY <2>1, <2>2 DEF Range
<1> QED BY <1>1, <1>5, <1>6

(* What a sequence holds: its first n, and what is behind them.              *)
LEMMA RangeSplit ==
  ASSUME NEW S, NEW s \in Seq(S), NEW n \in 0 .. Len(s)
  PROVE  /\ SubSeq(s, n + 1, Len(s)) \in Seq(S)
         /\ Range(s) = {s[m] : m \in 1 .. n} \cup Range(SubSeq(s, n + 1, Len(s)))
<1> DEFINE t == SubSeq(s, n + 1, Len(s))
<1>1. t \in Seq(S) /\ Len(t) = Len(s) - n /\ Len(s) \in Nat
  OBVIOUS
<1>2. \A m \in 1 .. Len(s) - n : t[m] = s[n + m]
  OBVIOUS
<1>3. DOMAIN s = 1 .. Len(s) /\ DOMAIN t = 1 .. Len(s) - n
  BY <1>1
<1> HIDE DEF t
<1>4. Range(s) \subseteq {s[m] : m \in 1 .. n} \cup Range(t)
  <2> SUFFICES ASSUME NEW m \in 1 .. Len(s), m \notin 1 .. n PROVE s[m] \in Range(t)
    BY <1>3 DEF Range
  <2>1. m - n \in 1 .. Len(s) - n /\ n + (m - n) = m
    BY <1>1
  <2>2. t[m - n] = s[m]
    BY <2>1, <1>2
  <2> QED BY <2>1, <2>2, <1>3 DEF Range
<1>5. {s[m] : m \in 1 .. n} \cup Range(t) \subseteq Range(s)
  <2>1. \A m \in 1 .. n : m \in 1 .. Len(s)
    BY <1>1
  <2>2. \A m \in 1 .. Len(s) - n : n + m \in 1 .. Len(s)
    BY <1>1
  <2> QED BY <2>1, <2>2, <1>2, <1>3 DEF Range
<1> QED BY <1>1, <1>4, <1>5 DEF t

(* What a sequence holds: its head, and its tail.                            *)
LEMMA RangeTail ==
  ASSUME NEW S, NEW s \in Seq(S), s # <<>>
  PROVE  /\ Head(s) \in S /\ Tail(s) \in Seq(S)
         /\ Range(s) = {Head(s)} \cup Range(Tail(s))
<1>1. Len(s) \in Nat /\ Len(s) >= 1
  OBVIOUS
<1>2. Head(s) = s[1] /\ Head(s) \in S /\ Tail(s) \in Seq(S)
  BY <1>1
<1>3. Tail(s) = SubSeq(s, 1 + 1, Len(s))
  BY <1>1
<1>4. 1 \in 0 .. Len(s)
  BY <1>1
<1>5. Range(s) = {s[m] : m \in 1 .. 1} \cup Range(SubSeq(s, 1 + 1, Len(s)))
  BY <1>4, RangeSplit
<1>6. {s[m] : m \in 1 .. 1} = {s[1]}
  OBVIOUS
<1>7. Range(s) = {Head(s)} \cup Range(Tail(s))
  BY <1>2, <1>3, <1>5, <1>6
<1> QED BY <1>2, <1>7

(* What a sequence of events holds are events.                               *)
LEMMA RangeType ==
  ASSUME NEW S, NEW s \in Seq(S) PROVE Range(s) \subseteq S
BY DEF Range

----------------------------------------------------------------------------
(* The invariant, kind of step by kind of step *)

(* At the start the caches are empty and nothing is under way.               *)
LEMMA InitIInv == ASSUME Init PROVE IInv
<1> USE ClusterAssumption
<1>1. Types
  <2>1. Nothing \in [Keys -> Nat \cup {None}]
    BY DEF Nothing
  <2>2. <<>> \in Seq(ChangeEvents)
    BY SMTT(60)
  <2> QED BY <2>1, <2>2 DEF Init, Types
<1>2. HandlerInv
  BY DEF Init, HandlerInv
<1>3. OutInv
  BY SMTT(60) DEF Init, OutInv, Range
<1>4. EntriesInv
  BY SMTT(60) DEF Init, EntriesInv, EntryInv, Nothing
<1> QED BY <1>1, <1>2, <1>3, <1>4 DEF IInv, Basic

(* Entries that are left alone or dropped are as they should be.             *)
LEMMA EntriesKept ==
  ASSUME IInv, Basic', db' = db,
         \A i \in Instances, k \in Keys : Same(i, k) \/ Gone(i, k)
  PROVE  IInv'
<1> SUFFICES ASSUME NEW i \in Instances, NEW k \in Keys PROVE EntryInv(i, k)'
  BY DEF IInv, EntriesInv
<1>1. EntryInv(i, k)
  BY DEF IInv, EntriesInv
<1>2. CASE Same(i, k)
  BY <1>1, <1>2 DEF Same, EntryInv
<1>3. CASE Gone(i, k)
  BY <1>3 DEF Gone, EntryInv
<1> QED BY <1>2, <1>3

(* The database answers a lookup.                                           *)
LEMMA LoadKeeps ==
  ASSUME IInv, NEW i \in Instances, NEW k \in Keys, Load(i, k)
  PROVE  IInv' /\ db' = db /\ cached' = cached
         /\ \A j \in Instances, x \in Keys : Owed(j, x)' <=> Owed(j, x)
<1>1. /\ UNCHANGED <<db, cached, own, missed, pc, hkey, hver, out, inbox, link, sub, recon>>
      /\ flight' = [flight EXCEPT ![i] = [flight[i] EXCEPT ![k] = db[k]]]
  BY DEF Load, handlers, nats, ghosts
<1>2. flight' \in [Instances -> [Keys -> Nat \cup {None}]]
  BY <1>1 DEF IInv, Basic, Types
<1>3. Basic'
  BY <1>1, <1>2 DEF IInv, Basic, Types, HandlerInv, OutInv
<1>4. \A j \in Instances, x \in Keys : Owed(j, x)' <=> Owed(j, x)
  BY <1>1 DEF Owed, Held, Sent, Due
<1>5. ASSUME NEW j \in Instances, NEW x \in Keys PROVE EntryInv(j, x)'
  <2>1. EntryInv(j, x)
    BY DEF IInv, EntriesInv
  <2>2. flight'[j][x] = IF j = i /\ x = k THEN db[k] ELSE flight[j][x]
    BY <1>1 DEF IInv, Basic, Types
  <2>3. db[x] \in Nat /\ own[j][x] \in Nat
    BY DEF IInv, Basic, Types
  <2> QED BY <2>1, <2>2, <2>3, <1>1, <1>4 DEF EntryInv
<1> QED BY <1>1, <1>3, <1>4, <1>5 DEF IInv, EntriesInv

(* What was loaded enters the cache.                                        *)
LEMMA FillKeeps ==
  ASSUME IInv, NEW i \in Instances, NEW k \in Keys, Fill(i, k)
  PROVE  /\ IInv' /\ db' = db
         /\ \A j \in Instances, x \in Keys : Owed(j, x)' <=> Owed(j, x)
         /\ \A j \in Instances, x \in Keys :
              cached'[j][x] = IF j = i /\ x = k THEN flight[i][k] ELSE cached[j][x]
<1>1. /\ UNCHANGED <<db, own, missed, pc, hkey, hver, out, inbox, link, sub, recon>>
      /\ cached' = [cached EXCEPT ![i] = [cached[i] EXCEPT ![k] = flight[i][k]]]
      /\ flight' = [flight EXCEPT ![i] = [flight[i] EXCEPT ![k] = None]]
  BY DEF Fill, handlers, nats, ghosts
<1>2. /\ flight' \in [Instances -> [Keys -> Nat \cup {None}]]
      /\ cached' \in [Instances -> [Keys -> Nat \cup {None}]]
  BY <1>1 DEF IInv, Basic, Types
<1>3. Basic'
  BY <1>1, <1>2 DEF IInv, Basic, Types, HandlerInv, OutInv
<1>4. \A j \in Instances, x \in Keys : Owed(j, x)' <=> Owed(j, x)
  BY <1>1 DEF Owed, Held, Sent, Due
<1>5. ASSUME NEW j \in Instances, NEW x \in Keys
      PROVE  /\ flight'[j][x] = IF j = i /\ x = k THEN None ELSE flight[j][x]
             /\ cached'[j][x] = IF j = i /\ x = k THEN flight[i][k] ELSE cached[j][x]
  BY <1>1 DEF IInv, Basic, Types
<1>6. ASSUME NEW j \in Instances, NEW x \in Keys PROVE EntryInv(j, x)'
  <2>1. EntryInv(j, x)
    BY DEF IInv, EntriesInv
  <2> QED BY <2>1, <1>1, <1>4, <1>5, SMTT(60) DEF EntryInv
<1> QED BY <1>1, <1>3, <1>4, <1>5, <1>6 DEF IInv, EntriesInv

\* A step of the database: who may now be wrong is owed an invalidation.
Touches ==
    /\ cached' = cached
    /\ \A j \in Instances, x \in Keys : /\ Owed(j, x) => Owed(j, x)'
                                        /\ db'[x] # db[x] => Owed(j, x)'

(* Such a step leaves the entries as they should be.                         *)
LEMMA TouchesKeeps ==
  ASSUME IInv, Basic', Touches, UNCHANGED <<flight, own>>, \A x \in Keys : db[x] <= db'[x]
  PROVE  IInv'
<1> SUFFICES ASSUME NEW i \in Instances, NEW k \in Keys PROVE EntryInv(i, k)'
  BY DEF IInv, EntriesInv
<1>1. EntryInv(i, k)
  BY DEF IInv, EntriesInv
<1>2. db[k] \in Nat /\ db'[k] \in Nat /\ own[i][k] \in Nat /\ db[k] <= db'[k]
  BY DEF IInv, Basic, Types
<1>3. own'[i][k] <= db'[k]
  BY <1>1, <1>2 DEF EntryInv
<1>4. (Owed(i, k) => Owed(i, k)') /\ (db'[k] # db[k] => Owed(i, k)')
  BY DEF Touches
<1> QED BY <1>1, <1>3, <1>4 DEF EntryInv, Touches

(* A write commits: every instance is owed an invalidation of its key.       *)
LEMMA CommitKeeps ==
  ASSUME IInv, NEW h \in Handlers, NEW k \in Keys, Commit(h, k) PROVE IInv' /\ Touches
<1>t. Types /\ HandlerInv /\ OutInv /\ hkey[h] = None /\ pc[h] = "idle"
  BY DEF IInv, Basic, HandlerInv, Commit
<1>1. /\ UNCHANGED <<cached, flight, own, missed, out, inbox, link, sub, recon>>
      /\ db' = [db EXCEPT ![k] = db[k] + 1]
      /\ pc' = [pc EXCEPT ![h] = "invalidate"]
      /\ hkey' = [hkey EXCEPT ![h] = k]
      /\ hver' = [hver EXCEPT ![h] = db[k] + 1]
  BY DEF Commit, caches, nats, ghosts
<1>2. /\ \A x \in Keys : db'[x] = IF x = k THEN db[k] + 1 ELSE db[x]
      /\ pc'[h] = "invalidate" /\ hkey'[h] = k /\ hver'[h] = db[k] + 1
      /\ \A g \in Handlers : g # h => pc'[g] = pc[g] /\ hkey'[g] = hkey[g] /\ hver'[g] = hver[g]
  BY <1>t, <1>1 DEF Types
<1>3. ASSUME NEW x \in Keys PROVE db[x] \in Nat /\ db[x] <= db'[x]
  <2>1. db[x] \in Nat /\ db[k] \in Nat
    BY <1>t DEF Types
  <2> QED BY <2>1, <1>2, SMTT(60)
<1>4. Types'
  BY <1>t, <1>1, SMTT(60) DEF Types
<1>5. HandlerInv'
  <2> SUFFICES ASSUME NEW g \in Handlers
               PROVE  /\ pc'[g] = "idle" => hkey'[g] = None
                      /\ pc'[g] # "idle" => hkey'[g] \in Keys /\ hver'[g] <= db'[hkey'[g]]
    BY DEF HandlerInv
  <2>1. CASE g = h
    BY <2>1, <1>2, <1>3, SMTT(60)
  <2>2. CASE g # h
    <3>1. hver[g] \in Nat
      BY <1>t DEF Types
    <3>2. pc'[g] = pc[g] /\ hkey'[g] = hkey[g] /\ hver'[g] = hver[g]
      BY <2>2, <1>2
    <3>3. ASSUME pc[g] # "idle" PROVE hkey[g] \in Keys /\ hver[g] <= db'[hkey[g]]
      <4>1. hkey[g] \in Keys /\ hver[g] <= db[hkey[g]]
        BY <3>3, <1>t DEF HandlerInv
      <4>2. db[hkey[g]] \in Nat /\ db'[hkey[g]] \in Nat /\ db[hkey[g]] <= db'[hkey[g]]
        BY <4>1, <1>3, <1>4 DEF Types
      <4> QED BY <3>1, <4>1, <4>2
    <3> QED BY <3>2, <3>3, <1>t DEF HandlerInv
  <2> QED BY <2>1, <2>2
<1>6. OutInv'
  BY <1>t, <1>1 DEF OutInv
<1>7. ASSUME NEW j \in Instances, NEW x \in Keys, Owed(j, x) PROVE Owed(j, x)'
  <2>1. Held(j, x) => Held(j, x)'
    BY <1>t, <1>2, ClusterAssumption DEF Held
  <2>2. Sent(j, x)' <=> Sent(j, x)
    BY <1>1 DEF Sent
  <2>3. Due(j, x)' <=> Due(j, x)
    BY <1>1 DEF Due
  <2> QED BY <1>7, <2>1, <2>2, <2>3, <1>1 DEF Owed
<1>8. \A j \in Instances : Owed(j, k)'
  BY <1>2 DEF Owed, Held
<1>9. Touches
  BY <1>1, <1>2, <1>7, <1>8 DEF Touches
<1> QED BY <1>1, <1>3, <1>4, <1>5, <1>6, <1>9, TouchesKeeps DEF Basic

(* A write commits and is not told of: every instance has missed it.         *)
LEMMA CommitUnknownKeeps ==
  ASSUME IInv, NEW h \in Handlers, NEW k \in Keys, CommitUnknown(h, k) PROVE IInv' /\ Touches
<1>t. Types /\ HandlerInv /\ OutInv
  BY DEF IInv, Basic
<1>1. /\ UNCHANGED <<cached, flight, own, pc, hkey, hver, out, inbox, link, sub, recon>>
      /\ db' = [db EXCEPT ![k] = db[k] + 1]
      /\ missed' = [i \in Instances |-> missed[i] \cup {k}]
  BY DEF CommitUnknown, caches, nats, handlers
<1>2. \A x \in Keys : db'[x] = IF x = k THEN db[k] + 1 ELSE db[x]
  BY <1>t, <1>1 DEF Types
<1>3. ASSUME NEW x \in Keys PROVE db[x] \in Nat /\ db'[x] \in Nat /\ db[x] <= db'[x]
  <2>1. db[x] \in Nat /\ db[k] \in Nat
    BY <1>t DEF Types
  <2> QED BY <2>1, <1>2
<1>4. Types'
  BY <1>t, <1>1, SMTT(60) DEF Types
<1>5. HandlerInv'
  <2> SUFFICES ASSUME NEW g \in Handlers, pc[g] # "idle" PROVE hver[g] <= db'[hkey[g]]
    BY <1>t, <1>1 DEF HandlerInv
  <2>1. hkey[g] \in Keys /\ hver[g] <= db[hkey[g]] /\ hver[g] \in Nat
    BY <1>t DEF HandlerInv, Types
  <2>2. db[hkey[g]] \in Nat /\ db'[hkey[g]] \in Nat /\ db[hkey[g]] <= db'[hkey[g]]
    BY <2>1, <1>3
  <2> QED BY <2>1, <2>2
<1>6. OutInv'
  BY <1>t, <1>1 DEF OutInv
<1>7. ASSUME NEW j \in Instances, NEW x \in Keys, Owed(j, x) PROVE Owed(j, x)'
  BY <1>7, <1>1 DEF Owed, Held, Sent, Due
<1>8. \A j \in Instances : Owed(j, k)'
  BY <1>1 DEF Owed
<1>9. Touches
  BY <1>1, <1>2, <1>7, <1>8 DEF Touches
<1> QED BY <1>1, <1>3, <1>4, <1>5, <1>6, <1>9, TouchesKeeps DEF Basic

(* A connection breaks: its instance is owed everything, and the others have *)
(* missed what it had published and is lost.                                *)
LEMMA DisconnectKeeps ==
  ASSUME IInv, NEW i \in Instances, Disconnect(i) PROVE IInv' /\ db' = db /\ Touches
<1>t. Types /\ HandlerInv /\ OutInv
  BY DEF IInv, Basic
<1>1. /\ UNCHANGED <<db, cached, flight, own, pc, hkey, hver, recon>>
      /\ link' = [link EXCEPT ![i] = FALSE]
      /\ sub' = [sub EXCEPT ![i] = FALSE]
  BY DEF Disconnect, caches, handlers
<1>2. PICK p \in 0 .. Len(inbox[i]) : inbox' = [inbox EXCEPT ![i] = SubSeq(inbox[i], 1, p)]
  BY DEF Disconnect
<1>3. PICK n \in 0 .. Len(out[i]) :
        /\ out' = [out EXCEPT ![i] = SubSeq(out[i], n + 1, Len(out[i]))]
        /\ missed' = Lose(i, {out[i][m].key : m \in 1 .. n})
  BY DEF Disconnect
<1> DEFINE lost == {out[i][m] : m \in 1 .. n}
<1>4. /\ out[i] \in Seq(ChangeEvents) /\ out'[i] \in Seq(ChangeEvents)
      /\ Range(out[i]) = lost \cup Range(out'[i])
      /\ \A j \in Instances : j # i => out'[j] = out[j]
  <2>1. out[i] \in Seq(ChangeEvents) /\ out'[i] = SubSeq(out[i], n + 1, Len(out[i]))
        /\ \A j \in Instances : j # i => out'[j] = out[j]
    BY <1>t, <1>3 DEF Types
  <2>2. /\ SubSeq(out[i], n + 1, Len(out[i])) \in Seq(ChangeEvents)
        /\ Range(out[i]) = {out[i][m] : m \in 1 .. n}
                            \cup Range(SubSeq(out[i], n + 1, Len(out[i])))
    BY <2>1, RangeSplit
  <2>3. out'[i] \in Seq(ChangeEvents) /\ Range(out[i]) = lost \cup Range(out'[i])
    BY <2>1, <2>2
  <2> QED BY <2>1, <2>3
<1>5. /\ SubSeq(inbox[i], 1, p) \in Seq(ChangeEvents)
      /\ \A j \in Instances : j # i => inbox'[j] = inbox[j]
  BY <1>t, <1>2, SMTT(60) DEF Types
<1>6. Range(out[i]) \subseteq ChangeEvents
  BY <1>4, RangeType
<1>7. /\ \A j \in Instances : j # i => missed'[j] = missed[j] \cup {e.key : e \in lost}
      /\ missed'[i] = missed[i] /\ DOMAIN missed' = Instances
  BY <1>3 DEF Lose
<1>8. \A e \in lost : e \in ChangeEvents /\ e.origin = i /\ e.key \in Keys
  BY <1>4, <1>6, <1>t, SMTT(60) DEF OutInv, ChangeEvents
<1> HIDE DEF lost
<1>9. Types'
  <2>1. missed' \in [Instances -> SUBSET Keys]
    <3>0. {e.key : e \in lost} \subseteq Keys
      BY <1>8
    <3>1. ASSUME NEW j \in Instances PROVE missed'[j] \in SUBSET Keys
      <4>1. missed[j] \in SUBSET Keys
        BY <1>t DEF Types
      <4> QED BY <4>1, <3>0, <1>7
    <3>2. missed' = [j \in Instances |-> missed'[j]]
      BY <1>3 DEF Lose
    <3> QED BY <3>1, <3>2
  <2>2. /\ out' \in [Instances -> Seq(ChangeEvents)] /\ inbox' \in [Instances -> Seq(ChangeEvents)]
    <3>1. SubSeq(out[i], n + 1, Len(out[i])) \in Seq(ChangeEvents)
      BY <1>4, RangeSplit
    <3> QED BY <3>1, <1>t, <1>2, <1>3, <1>5 DEF Types
  <2> QED BY <2>1, <2>2, <1>t, <1>1 DEF Types
<1>10. HandlerInv'
  BY <1>t, <1>1 DEF HandlerInv
<1>11. OutInv'
  BY <1>t, <1>4 DEF OutInv
<1>12. ASSUME NEW j \in Instances, NEW x \in Keys, Owed(j, x) PROVE Owed(j, x)'
  <2>1. CASE j = i
    BY <2>1, <1>1, <1>t DEF Owed, Types
  <2>2. CASE j # i
    <3>1. link'[j] = link[j] /\ recon'[j] = recon[j] /\ missed[j] \subseteq missed'[j]
      BY <2>2, <1>1, <1>7, <1>t DEF Types
    <3>2. Held(j, x)' <=> Held(j, x)
      BY <1>1 DEF Held
    <3>3. Due(j, x)' <=> Due(j, x)
      BY <2>2, <1>5 DEF Due
    <3>4. ASSUME Sent(j, x) PROVE Sent(j, x)' \/ x \in missed'[j]
      <4>1. PICK y \in Instances \ {j} : Event(y, x) \in Range(out[y])
        BY <3>4 DEF Sent
      <4>2. CASE Event(y, x) \in Range(out'[y])
        BY <4>2 DEF Sent
      <4>3. CASE Event(y, x) \notin Range(out'[y])
        <5>1. y = i /\ Event(y, x) \in lost
          BY <4>1, <4>3, <1>4
        <5>2. Event(y, x).key = x
          BY EventFacts
        <5> QED BY <5>1, <5>2, <1>7, <2>2
      <4> QED BY <4>2, <4>3
    <3> QED BY <1>12, <3>1, <3>2, <3>3, <3>4 DEF Owed
  <2> QED BY <2>1, <2>2
<1>13. Touches
  BY <1>1, <1>12 DEF Touches
<1>14. \A x \in Keys : db[x] <= db'[x]
  BY <1>1, <1>t DEF Types
<1> QED BY <1>1, <1>9, <1>10, <1>11, <1>13, <1>14, TouchesKeeps DEF Basic

(* What an invalidation of one key leaves.                                   *)
LEMMA InvalidateFacts ==
  ASSUME Types, NEW i \in Instances, NEW k \in Keys, Invalidate(i, k)
  PROVE  /\ cached' \in [Instances -> [Keys -> Nat \cup {None}]]
         /\ flight' \in [Instances -> [Keys -> Nat \cup {None}]]
         /\ missed' \in [Instances -> SUBSET Keys]
         /\ cached'[i][k] = None /\ flight'[i][k] = None /\ missed'[i] = missed[i] \ {k}
         /\ \A j \in Instances, x \in Keys : ~(j = i /\ x = k) =>
              cached'[j][x] = cached[j][x] /\ flight'[j][x] = flight[j][x]
         /\ \A j \in Instances : j # i => missed'[j] = missed[j]
BY DEF Types, Invalidate

(* What an invalidation of everything leaves.                                *)
LEMMA InvalidateAllFacts ==
  ASSUME Types, NEW i \in Instances, InvalidateAll(i)
  PROVE  /\ cached' \in [Instances -> [Keys -> Nat \cup {None}]]
         /\ flight' \in [Instances -> [Keys -> Nat \cup {None}]]
         /\ \A k \in Keys : cached'[i][k] = None /\ flight'[i][k] = None
         /\ \A j \in Instances : j # i => cached'[j] = cached[j] /\ flight'[j] = flight[j]
BY DEF Types, InvalidateAll, Nothing

(* notify invalidates the instance's own cache: only its own handler's debt  *)
(* to it is paid, the others are still owed the event.                       *)
LEMMA NotifyLocalQuiet ==
  ASSUME IInv, NEW h \in Handlers, NotifyLocal(h) PROVE Basic' /\ Quiet
<1> DEFINE i == home[h]
           k == hkey[h]
<1>t. Types /\ HandlerInv /\ OutInv /\ EntriesInv
  BY DEF IInv, Basic
<1>k. i \in Instances /\ k \in Keys /\ hver[h] <= db[k] /\ pc[h] = "invalidate"
  BY <1>t, ClusterAssumption DEF HandlerInv, NotifyLocal
<1>1. /\ UNCHANGED <<db, hkey, hver, out, inbox, link, sub, recon>>
      /\ pc' = [pc EXCEPT ![h] = "publish"] /\ Invalidate(i, k)
      /\ own' = [own EXCEPT ![i] = [own[i] EXCEPT ![k] = IF own[i][k] < hver[h] THEN hver[h] ELSE own[i][k]]]
  BY DEF NotifyLocal, nats
<1> HIDE DEF i, k
<1>2. /\ cached' \in [Instances -> [Keys -> Nat \cup {None}]]
      /\ flight' \in [Instances -> [Keys -> Nat \cup {None}]]
      /\ missed' \in [Instances -> SUBSET Keys]
      /\ cached'[i][k] = None /\ flight'[i][k] = None /\ missed'[i] = missed[i] \ {k}
      /\ \A j \in Instances, x \in Keys : ~(j = i /\ x = k) =>
           cached'[j][x] = cached[j][x] /\ flight'[j][x] = flight[j][x]
      /\ \A j \in Instances : j # i => missed'[j] = missed[j]
  BY <1>t, <1>k, <1>1, InvalidateFacts
<1>3. /\ own' \in [Instances -> [Keys -> Nat]]
      /\ own'[i][k] = (IF own[i][k] < hver[h] THEN hver[h] ELSE own[i][k])
      /\ \A j \in Instances, x \in Keys : ~(j = i /\ x = k) => own'[j][x] = own[j][x]
  <2>1. hver[h] \in Nat /\ own[i][k] \in Nat
    BY <1>t, <1>k DEF Types
  <2>2. (IF own[i][k] < hver[h] THEN hver[h] ELSE own[i][k]) \in Nat
    BY <2>1
  <2> QED BY <1>t, <1>k, <1>1, <2>2 DEF Types
<1>4. pc'[h] = "publish" /\ \A g \in Handlers : g # h => pc'[g] = pc[g]
  BY <1>t, <1>1 DEF Types
<1>5. Types'
  BY <1>t, <1>1, <1>2, <1>3 DEF Types
<1>6. HandlerInv'
  <2>1. hkey[h] \in Keys /\ hver[h] <= db[hkey[h]]
    BY <1>k DEF k
  <2> QED BY <1>t, <2>1, <1>1, <1>4 DEF HandlerInv
<1>7. OutInv'
  BY <1>t, <1>1 DEF OutInv
<1>8. ASSUME NEW j \in Instances, NEW x \in Keys
      PROVE  /\ Owed(j, x)' => Owed(j, x)
             /\ ~(j = i /\ x = k) /\ Owed(j, x) => Owed(j, x)'
  <2>1. Sent(j, x)' <=> Sent(j, x)
    BY <1>1 DEF Sent
  <2>2. Due(j, x)' <=> Due(j, x)
    BY <1>1 DEF Due
  <2>3. Held(j, x)' => Held(j, x)
    BY <1>1, <1>4 DEF Held
  <2>4. ~(j = i /\ x = k) /\ Held(j, x) => Held(j, x)'
    BY <1>1, <1>4 DEF Held, i, k
  <2>5. missed'[j] \subseteq missed[j] /\ (~(j = i /\ x = k) /\ x \in missed[j] => x \in missed'[j])
    BY <1>2
  <2> QED BY <2>1, <2>2, <2>3, <2>4, <2>5, <1>1 DEF Owed
<1>9. Gone(i, k)
  <2>1. own[i][k] <= db[k]
    BY <1>t, <1>k DEF EntriesInv, EntryInv
  <2> QED BY <2>1, <1>k, <1>2, <1>3 DEF Gone
<1>10. \A j \in Instances, x \in Keys : ~(j = i /\ x = k) => Same(j, x)
  BY <1>2, <1>3, <1>8 DEF Same
<1> QED BY <1>1, <1>5, <1>6, <1>7, <1>8, <1>9, <1>10 DEF Basic, Quiet

(* bus.Publish: what the handler owed to the others its buffer owes now.     *)
LEMMA PublishQuiet ==
  ASSUME IInv, NEW h \in Handlers, Publish(h) PROVE Basic' /\ Quiet
<1> DEFINE i == home[h]
           k == hkey[h]
<1>t. Types /\ HandlerInv /\ OutInv /\ EntriesInv
  BY DEF IInv, Basic
<1>k. i \in Instances /\ k \in Keys /\ pc[h] = "publish"
  BY <1>t, ClusterAssumption DEF HandlerInv, Publish
<1>1. /\ UNCHANGED <<db, cached, flight, own, missed, inbox, link, sub, recon>>
      /\ out' = [out EXCEPT ![i] = Append(out[i], Event(i, k))]
      /\ pc' = [pc EXCEPT ![h] = "idle"]
      /\ hkey' = [hkey EXCEPT ![h] = None]
      /\ hver' = [hver EXCEPT ![h] = 0]
  BY DEF Publish, caches, ghosts
<1> HIDE DEF i, k
<1>2. /\ pc'[h] = "idle" /\ hkey'[h] = None
      /\ \A g \in Handlers : g # h => pc'[g] = pc[g] /\ hkey'[g] = hkey[g] /\ hver'[g] = hver[g]
  BY <1>t, <1>1 DEF Types
<1>3. out[i] \in Seq(ChangeEvents) /\ Event(i, k) \in ChangeEvents
  BY <1>t, <1>k, EventFacts DEF Types
<1>4. /\ Append(out[i], Event(i, k)) \in Seq(ChangeEvents)
      /\ out'[i] = Append(out[i], Event(i, k))
      /\ Range(out'[i]) = Range(out[i]) \cup {Event(i, k)}
      /\ \A j \in Instances : j # i => out'[j] = out[j]
  BY <1>t, <1>k, <1>1, <1>3, RangeAppend, SMTT(60) DEF Types
<1>5. Types'
  BY <1>t, <1>1, <1>4 DEF Types
<1>6. HandlerInv'
  BY <1>t, <1>1, <1>2 DEF HandlerInv
<1>7. OutInv'
  <2>1. Event(i, k).origin = i
    BY <1>k, EventFacts
  <2> QED BY <1>t, <1>4, <2>1 DEF OutInv
<1>8. ASSUME NEW j \in Instances, NEW x \in Keys PROVE Owed(j, x)' <=> Owed(j, x)
  <2>1. Due(j, x)' <=> Due(j, x)
    BY <1>1 DEF Due
  <2>2. Held(j, x)' => Held(j, x)
    BY <1>2, ClusterAssumption DEF Held
  <2>3. Held(j, x) => Held(j, x)' \/ (x = k /\ j # i)
    BY <1>2, <1>k DEF Held, i, k
  <2>4. Sent(j, x) => Sent(j, x)'
    BY <1>4 DEF Sent
  <2>5. x = k /\ j # i => Sent(j, x)'
    BY <1>4, <1>k DEF Sent
  <2>6. ASSUME Sent(j, x)' PROVE Sent(j, x) \/ Held(j, x)
    <3>1. PICK y \in Instances \ {j} : Event(y, x) \in Range(out'[y])
      BY <2>6 DEF Sent
    <3>2. CASE Event(y, x) \in Range(out[y])
      BY <3>2 DEF Sent
    <3>3. CASE Event(y, x) \notin Range(out[y])
      <4>1. y = i /\ Event(y, x) = Event(i, k)
        BY <3>1, <3>3, <1>4
      <4>2. x = k
        BY <4>1, <1>k, EventFacts, SMTT(60)
      <4> QED BY <4>1, <4>2 DEF Held, i, k
    <3> QED BY <3>2, <3>3
  <2> QED BY <2>1, <2>2, <2>3, <2>4, <2>5, <2>6, <1>1 DEF Owed
<1>9. \A j \in Instances, x \in Keys : Same(j, x)
  BY <1>1, <1>8 DEF Same
<1> QED BY <1>1, <1>5, <1>6, <1>7, <1>8, <1>9 DEF Basic, Quiet

(* The server takes an event: each instance that was owed it has it on its   *)
(* way, is disconnected, or has missed it.                                  *)
LEMMA SendQuiet ==
  ASSUME IInv, NEW i \in Instances, Send(i) PROVE Basic' /\ Quiet
<1> DEFINE ev == Head(out[i])
<1>t. Types /\ HandlerInv /\ OutInv
  BY DEF IInv, Basic
<1>1. /\ UNCHANGED <<db, cached, flight, own, pc, hkey, hver, link, sub, recon>>
      /\ out[i] # <<>>
      /\ out' = [out EXCEPT ![i] = Tail(out[i])]
      /\ inbox' = [j \in Instances |->
                     IF link[j] /\ sub[j] THEN Append(inbox[j], ev) ELSE inbox[j]]
      /\ missed' = [j \in Instances |->
                      IF j # i /\ link[j] /\ ~sub[j] THEN missed[j] \cup {ev.key} ELSE missed[j]]
  BY DEF Send, caches, handlers
<1>2. /\ out[i] \in Seq(ChangeEvents) /\ ev \in ChangeEvents /\ Tail(out[i]) \in Seq(ChangeEvents)
      /\ Range(out[i]) = {ev} \cup Range(Tail(out[i]))
  BY <1>t, <1>1, RangeTail DEF Types
<1> HIDE DEF ev
<1>3. ev.origin = i /\ ev.key \in Keys /\ ev = Event(i, ev.key)
  BY <1>t, <1>2, EventFacts DEF OutInv
<1>4. /\ Range(out[i]) = {ev} \cup Range(out'[i])
      /\ \A j \in Instances : j # i => out'[j] = out[j]
  BY <1>t, <1>1, <1>2 DEF Types
<1>5. ASSUME NEW j \in Instances
      PROVE  /\ inbox'[j] \in Seq(ChangeEvents)
             /\ Range(inbox'[j]) = Range(inbox[j]) \cup (IF link[j] /\ sub[j] THEN {ev} ELSE {})
  <2>1. inbox[j] \in Seq(ChangeEvents)
    BY <1>t DEF Types
  <2>2. CASE link[j] /\ sub[j]
    <3>1. inbox'[j] = Append(inbox[j], ev)
      BY <2>2, <1>1
    <3> QED BY <2>1, <2>2, <3>1, <1>2, RangeAppend, SMTT(60)
  <2>3. CASE ~(link[j] /\ sub[j])
    <3>1. inbox'[j] = inbox[j]
      BY <2>3, <1>1
    <3> QED BY <2>1, <2>3, <3>1
  <2> QED BY <2>2, <2>3
<1>6. Types'
  <2>1. inbox' \in [Instances -> Seq(ChangeEvents)]
    <3>1. inbox' = [j \in Instances |-> inbox'[j]]
      BY <1>1
    <3> QED BY <3>1, <1>5
  <2>2. missed' \in [Instances -> SUBSET Keys]
    BY <1>t, <1>1, <1>3 DEF Types
  <2>3. out' \in [Instances -> Seq(ChangeEvents)]
    BY <1>t, <1>1, <1>2 DEF Types
  <2> QED BY <2>1, <2>2, <2>3, <1>t, <1>1 DEF Types
<1>7. HandlerInv'
  BY <1>t, <1>1 DEF HandlerInv
<1>8. OutInv'
  BY <1>t, <1>4 DEF OutInv
<1>9. ASSUME NEW j \in Instances, NEW x \in Keys PROVE Owed(j, x)' <=> Owed(j, x)
  <2>1. Held(j, x)' <=> Held(j, x)
    BY <1>1 DEF Held
  <2>2. Sent(j, x)' => Sent(j, x)
    BY <1>4 DEF Sent
  <2>3. Due(j, x) => Due(j, x)'
    BY <1>5 DEF Due
  <2>4. missed'[j] = IF j # i /\ link[j] /\ ~sub[j] THEN missed[j] \cup {ev.key} ELSE missed[j]
    BY <1>1
  <2>5. ASSUME x = ev.key, j # i PROVE Sent(j, x)
    BY <2>5, <1>2, <1>3 DEF Sent
  <2>6. ASSUME Due(j, x)', ~Due(j, x) PROVE Sent(j, x)
    <3>1. PICK y \in Instances \ {j} : Event(y, x) \in Range(inbox'[j])
      BY <2>6 DEF Due
    <3>2. Event(y, x) = ev
      BY <2>6, <3>1, <1>5 DEF Due
    <3>3. y = i /\ x = ev.key
      BY <3>2, <1>3, EventFacts
    <3> QED BY <3>3, <2>5
  <2>7. ASSUME Sent(j, x), ~Sent(j, x)' PROVE x = ev.key /\ j # i
    <3>1. PICK y \in Instances \ {j} : Event(y, x) \in Range(out[y])
      BY <2>7 DEF Sent
    <3>2. Event(y, x) \notin Range(out'[y])
      BY <2>7, <3>1 DEF Sent
    <3>3. y = i /\ Event(y, x) = ev
      BY <3>1, <3>2, <1>4
    <3> QED BY <3>1, <3>3, EventFacts
  <2>8. ASSUME x = ev.key, j # i, link[j], sub[j] PROVE Due(j, x)'
    <3>1. Event(i, x) \in Range(inbox'[j])
      BY <2>8, <1>3, <1>5
    <3> QED BY <2>8, <3>1 DEF Due
  <2> QED BY <2>1, <2>2, <2>3, <2>4, <2>5, <2>6, <2>7, <2>8, <1>1 DEF Owed
<1>10. \A j \in Instances, x \in Keys : Same(j, x)
  BY <1>1, <1>9 DEF Same
<1> QED BY <1>1, <1>6, <1>7, <1>8, <1>9, <1>10 DEF Basic, Quiet

(* The subscription's callback: the event has gone, and so has the entry;    *)
(* an event of the instance's own was never what it was owed.                *)
LEMMA ReceiveQuiet ==
  ASSUME IInv, NEW i \in Instances, Receive(i) PROVE Basic' /\ Quiet
<1> DEFINE ev == Head(inbox[i])
           k == ev.key
<1>t. Types /\ HandlerInv /\ OutInv /\ EntriesInv
  BY DEF IInv, Basic
<1>1. /\ UNCHANGED <<db, own, pc, hkey, hver, out, link, sub, recon>>
      /\ inbox[i] # <<>>
      /\ inbox' = [inbox EXCEPT ![i] = Tail(inbox[i])]
      /\ ev.origin = i => UNCHANGED <<cached, flight, missed>>
      /\ ev.origin # i => Invalidate(i, k)
  BY DEF Receive, caches, handlers
<1>2. /\ ev \in ChangeEvents /\ Tail(inbox[i]) \in Seq(ChangeEvents)
      /\ Range(inbox[i]) = {ev} \cup Range(Tail(inbox[i]))
  BY <1>t, <1>1, RangeTail DEF Types
<1> HIDE DEF ev
<1>3. k \in Keys /\ ev = Event(ev.origin, k) /\ ev.origin \in Instances
  BY <1>2, EventFacts
<1> HIDE DEF k
<1>4. /\ Range(inbox[i]) = {ev} \cup Range(inbox'[i])
      /\ \A j \in Instances : j # i => inbox'[j] = inbox[j]
      /\ inbox' \in [Instances -> Seq(ChangeEvents)]
  BY <1>t, <1>1, <1>2 DEF Types
<1>5. /\ cached' \in [Instances -> [Keys -> Nat \cup {None}]]
      /\ flight' \in [Instances -> [Keys -> Nat \cup {None}]]
      /\ missed' \in [Instances -> SUBSET Keys]
      /\ \A j \in Instances, x \in Keys : ~(j = i /\ x = k) =>
           /\ cached'[j][x] = cached[j][x] /\ flight'[j][x] = flight[j][x]
           /\ x \in missed[j] => x \in missed'[j]
      /\ \A j \in Instances : missed'[j] \subseteq missed[j]
      /\ ev.origin # i => cached'[i][k] = None /\ flight'[i][k] = None
  <2>1. CASE ev.origin = i
    BY <2>1, <1>t, <1>1 DEF Types
  <2>2. CASE ev.origin # i
    <3>1. Invalidate(i, k)
      BY <2>2, <1>1
    <3> QED BY <2>2, <3>1, <1>t, <1>3, InvalidateFacts, SMTT(60)
  <2> QED BY <2>1, <2>2
<1>6. Basic'
  BY <1>t, <1>1, <1>4, <1>5 DEF Basic, Types, HandlerInv, OutInv
<1>7. ASSUME NEW j \in Instances, NEW x \in Keys
      PROVE  /\ Owed(j, x)' => Owed(j, x)
             /\ (j = i /\ x = k => ev.origin = i) /\ Owed(j, x) => Owed(j, x)'
  <2>1. Held(j, x)' <=> Held(j, x)
    BY <1>1 DEF Held
  <2>2. Sent(j, x)' <=> Sent(j, x)
    BY <1>1 DEF Sent
  <2>3. Due(j, x)' => Due(j, x)
    BY <1>4 DEF Due
  <2>4. ASSUME Due(j, x), ~Due(j, x)' PROVE j = i /\ x = k /\ ev.origin # i
    <3>1. PICK y \in Instances \ {j} : Event(y, x) \in Range(inbox[j])
      BY <2>4 DEF Due
    <3>2. Event(y, x) \notin Range(inbox'[j])
      BY <2>4, <3>1 DEF Due
    <3>3. j = i /\ Event(y, x) = ev
      BY <3>1, <3>2, <1>4
    <3>4. Event(y, x).origin = y /\ Event(y, x).key = x
      BY <3>1, EventFacts
    <3> QED BY <3>1, <3>3, <3>4 DEF k
  <2>5. (j = i /\ x = k => ev.origin = i) /\ x \in missed[j] => x \in missed'[j]
    BY <1>1, <1>5
  <2> QED BY <2>1, <2>2, <2>3, <2>4, <2>5, <1>1, <1>5 DEF Owed
<1>8. ASSUME NEW j \in Instances, NEW x \in Keys PROVE Same(j, x) \/ Gone(j, x)
  <2>1. CASE ev.origin # i /\ j = i /\ x = k
    <3>1. own[i][k] <= db[k]
      BY <1>t, <1>3 DEF EntriesInv, EntryInv
    <3> QED BY <2>1, <3>1, <1>1, <1>5 DEF Gone
  <2>2. CASE ~(ev.origin # i /\ j = i /\ x = k)
    BY <2>2, <1>1, <1>5, <1>7 DEF Same
  <2> QED BY <2>1, <2>2
<1> QED BY <1>1, <1>6, <1>7, <1>8 DEF Quiet

(* The client is connected again: the reconnect handler is due, so the       *)
(* instance is still owed everything.                                       *)
LEMMA ReconnectQuiet ==
  ASSUME IInv, NEW i \in Instances, Reconnect(i) PROVE Basic' /\ Quiet
<1>t. Types
  BY DEF IInv, Basic
<1>1. /\ UNCHANGED <<db, cached, flight, own, missed, pc, hkey, hver, out, inbox, sub>>
      /\ ~link[i]
      /\ link' = [link EXCEPT ![i] = TRUE]
      /\ recon' = [recon EXCEPT ![i] = TRUE]
  BY DEF Reconnect, caches, handlers, ghosts
<1>2. Basic'
  BY <1>1 DEF IInv, Basic, Types, HandlerInv, OutInv
<1>3. recon'[i] /\ \A j \in Instances : j # i => link'[j] = link[j] /\ recon'[j] = recon[j]
  BY <1>t, <1>1 DEF Types
<1>4. ASSUME NEW j \in Instances, NEW x \in Keys PROVE Owed(j, x)' <=> Owed(j, x)
  <2>1. CASE j = i
    BY <2>1, <1>1, <1>3 DEF Owed
  <2>2. CASE j # i
    BY <2>2, <1>1, <1>3 DEF Owed, Held, Sent, Due
  <2> QED BY <2>1, <2>2
<1> QED BY <1>1, <1>2, <1>4 DEF Quiet, Same

(* The server reads the subscription: nothing is owed by that.               *)
LEMMA SubscribedQuiet ==
  ASSUME IInv, NEW i \in Instances, Subscribed(i) PROVE Basic' /\ Quiet
<1>1. /\ UNCHANGED <<db, cached, flight, own, missed, pc, hkey, hver, out, inbox, link, recon>>
      /\ sub' = [sub EXCEPT ![i] = TRUE]
  BY DEF Subscribed, caches, handlers, ghosts
<1>2. Basic'
  BY <1>1 DEF IInv, Basic, Types, HandlerInv, OutInv
<1>3. \A j \in Instances, x \in Keys : Owed(j, x)' <=> Owed(j, x)
  BY <1>1 DEF Owed, Held, Sent, Due
<1> QED BY <1>1, <1>2, <1>3 DEF Quiet, Same

(* The reconnect handler: the cache is empty, and the debt is paid.          *)
LEMMA ReconnectHandlerQuiet ==
  ASSUME IInv, NEW i \in Instances, ReconnectHandler(i) PROVE Basic' /\ Quiet
<1>t. Types /\ EntriesInv
  BY DEF IInv, Basic
<1>1. /\ UNCHANGED <<db, own, pc, hkey, hver, out, inbox, link, sub>>
      /\ recon[i] /\ InvalidateAll(i)
      /\ recon' = [recon EXCEPT ![i] = FALSE]
      /\ missed' = [missed EXCEPT ![i] = {}]
  BY DEF ReconnectHandler, handlers
<1>2. /\ cached' \in [Instances -> [Keys -> Nat \cup {None}]]
      /\ flight' \in [Instances -> [Keys -> Nat \cup {None}]]
      /\ \A k \in Keys : cached'[i][k] = None /\ flight'[i][k] = None
      /\ \A j \in Instances : j # i => cached'[j] = cached[j] /\ flight'[j] = flight[j]
  BY <1>t, <1>1, InvalidateAllFacts
<1>3. Basic'
  BY <1>1, <1>2 DEF IInv, Basic, Types, HandlerInv, OutInv
<1>4. \A j \in Instances : j # i => recon'[j] = recon[j] /\ missed'[j] = missed[j]
  BY <1>t, <1>1 DEF Types
<1>5. ASSUME NEW j \in Instances, NEW x \in Keys
      PROVE  (Same(j, x) \/ Gone(j, x)) /\ (Owed(j, x)' => Owed(j, x))
  <2>1. CASE j = i
    <3>1. own[i][x] <= db[x]
      BY <1>t DEF EntriesInv, EntryInv
    <3> QED BY <2>1, <3>1, <1>1, <1>2 DEF Gone, Owed
  <2>2. CASE j # i
    <3>1. Owed(j, x)' <=> Owed(j, x)
      BY <2>2, <1>1, <1>4 DEF Owed, Held, Sent, Due
    <3> QED BY <2>2, <3>1, <1>1, <1>2 DEF Same
  <2> QED BY <2>1, <2>2
<1> QED BY <1>1, <1>3, <1>5 DEF Quiet

(* An instance crashes: its cache is empty, and what it had to tell the      *)
(* others, they have missed.                                               *)
LEMMA CrashQuiet ==
  ASSUME IInv, NEW i \in Instances, Crash(i) PROVE Basic' /\ Quiet
<1> DEFINE mine == {h \in Handlers : home[h] = i}
           lost == {ev.key : ev \in Range(out[i])} \cup ({hkey[h] : h \in mine} \ {None})
<1>t. Types /\ HandlerInv /\ OutInv /\ EntriesInv
  BY DEF IInv, Basic
<1>1. /\ UNCHANGED <<db, own>> /\ InvalidateAll(i)
      /\ pc' = [h \in Handlers |-> IF h \in mine THEN "idle" ELSE pc[h]]
      /\ hkey' = [h \in Handlers |-> IF h \in mine THEN None ELSE hkey[h]]
      /\ hver' = [h \in Handlers |-> IF h \in mine THEN 0 ELSE hver[h]]
      /\ out' = [out EXCEPT ![i] = <<>>]
      /\ inbox' = [inbox EXCEPT ![i] = <<>>]
      /\ link' = [link EXCEPT ![i] = TRUE]
      /\ sub' = [sub EXCEPT ![i] = FALSE]
      /\ recon' = [recon EXCEPT ![i] = FALSE]
      /\ missed' = [Lose(i, lost) EXCEPT ![i] = {}]
  BY DEF Crash
<1>2. /\ cached' \in [Instances -> [Keys -> Nat \cup {None}]]
      /\ flight' \in [Instances -> [Keys -> Nat \cup {None}]]
      /\ \A k \in Keys : cached'[i][k] = None /\ flight'[i][k] = None
      /\ \A j \in Instances : j # i => cached'[j] = cached[j] /\ flight'[j] = flight[j]
  BY <1>t, <1>1, InvalidateAllFacts
<1>3. \A e \in Range(out[i]) : e.origin = i /\ e.key \in Keys /\ e = Event(i, e.key)
  <2>1. Range(out[i]) \subseteq ChangeEvents
    BY <1>t, RangeType DEF Types
  <2> QED BY <2>1, <1>t, EventFacts DEF OutInv
<1>4. lost \subseteq Keys
  BY <1>3, <1>t, SMTT(60) DEF Types
<1>5. missed'[i] = {} /\ \A j \in Instances : j # i => missed'[j] = missed[j] \cup lost
  BY <1>1 DEF Lose
<1>6. \A x \in Keys : x \in lost <=> \/ Event(i, x) \in Range(out[i])
                                     \/ \E h \in mine : hkey[h] = x
  <2> SUFFICES ASSUME NEW x \in Keys
               PROVE  (\E e \in Range(out[i]) : e.key = x) <=> Event(i, x) \in Range(out[i])
    BY ClusterAssumption
  <2>1. Event(i, x).key = x
    BY EventFacts
  <2> QED BY <2>1, <1>3
<1> HIDE DEF lost
<1>7. /\ link'[i] /\ ~recon'[i] /\ out'[i] = <<>> /\ inbox'[i] = <<>>
      /\ \A j \in Instances : j # i =>
           link'[j] = link[j] /\ recon'[j] = recon[j] /\ out'[j] = out[j] /\ inbox'[j] = inbox[j]
  BY <1>t, <1>1 DEF Types
<1>8. Range(<<>>) = {}
  BY DEF Range
<1>9. Types'
  <2>1. missed' \in [Instances -> SUBSET Keys]
    <3>1. Lose(i, lost) \in [Instances -> SUBSET Keys]
      BY <1>4, <1>t DEF Lose, Types
    <3> QED BY <3>1, <1>1
  <2>2. <<>> \in Seq(ChangeEvents)
    OBVIOUS
  <2>3. out' \in [Instances -> Seq(ChangeEvents)] /\ inbox' \in [Instances -> Seq(ChangeEvents)]
    BY <2>2, <1>t, <1>1 DEF Types
  <2>4. /\ pc' \in [Handlers -> {"idle", "invalidate", "publish"}]
        /\ hkey' \in [Handlers -> Keys \cup {None}]
        /\ hver' \in [Handlers -> Nat]
    BY <1>t, <1>1 DEF Types
  <2> QED BY <2>1, <2>3, <2>4, <1>t, <1>1, <1>2 DEF Types
<1>10. HandlerInv'
  BY <1>t, <1>1 DEF HandlerInv
<1>11. OutInv'
  BY <1>t, <1>7, <1>8 DEF OutInv
<1>12. ASSUME NEW j \in Instances, NEW x \in Keys PROVE Held(j, x)' => Held(j, x)
  BY <1>1, ClusterAssumption DEF Held
<1>13. ASSUME NEW j \in Instances, NEW x \in Keys PROVE Sent(j, x)' => Sent(j, x)
  BY <1>7, <1>8 DEF Sent
<1>14. ASSUME NEW x \in Keys PROVE Gone(i, x) /\ (Owed(i, x)' => Owed(i, x))
  <2>1. own[i][x] <= db[x]
    BY <1>t DEF EntriesInv, EntryInv
  <2>2. ~Due(i, x)'
    BY <1>7, <1>8 DEF Due
  <2>3. Owed(i, x)' => Owed(i, x)
    BY <2>2, <1>5, <1>7, <1>12, <1>13 DEF Owed
  <2> QED BY <2>1, <2>3, <1>1, <1>2 DEF Gone
<1>15. ASSUME NEW j \in Instances, j # i, NEW x \in Keys PROVE Owed(j, x)' <=> Owed(j, x)
  <2>1. Due(j, x)' <=> Due(j, x)
    BY <1>15, <1>7 DEF Due
  <2>2. x \in lost => Sent(j, x) \/ Held(j, x)
    BY <1>15, <1>6, SMTT(60) DEF Sent, Held
  <2>3. Sent(j, x) => Sent(j, x)' \/ x \in lost
    BY <1>15, <1>6, <1>7 DEF Sent
  <2>4. Held(j, x) => Held(j, x)' \/ x \in lost
    BY <1>15, <1>6, <1>1 DEF Held
  <2> QED BY <2>1, <2>2, <2>3, <2>4, <1>15, <1>5, <1>7, <1>12, <1>13 DEF Owed
<1>16. \A j \in Instances, x \in Keys : j # i => Same(j, x)
  BY <1>15, <1>1, <1>2 DEF Same
<1>17. ASSUME NEW j \in Instances, NEW x \in Keys
       PROVE  (Same(j, x) \/ Gone(j, x)) /\ (Owed(j, x)' => Owed(j, x))
  <2>1. CASE j = i
    BY <2>1, <1>14
  <2>2. CASE j # i
    BY <2>2, <1>15, <1>16
  <2> QED BY <2>1, <2>2
<1>18. Quiet
  BY <1>1, <1>17 DEF Quiet
<1> QED BY <1>9, <1>10, <1>11, <1>18 DEF Basic

(* A step that changes nothing keeps everything.                            *)
LEMMA StutterKeeps == ASSUME IInv, UNCHANGED vars PROVE Basic' /\ Quiet
<1>1. UNCHANGED <<db, cached, flight, own, missed, pc, hkey, hver, out, inbox, link, sub, recon>>
  BY DEF vars, caches, handlers, nats, ghosts
<1>2. Basic'
  BY <1>1 DEF IInv, Basic, Types, HandlerInv, OutInv
<1>3. \A j \in Instances, x \in Keys : Owed(j, x)' <=> Owed(j, x)
  BY <1>1 DEF Owed, Held, Sent, Due
<1> QED BY <1>1, <1>2, <1>3 DEF Quiet, Same

----------------------------------------------------------------------------
(* The abstract cache *)

\* What Abstract maps to its three variables.
Pairs == Instances \X Keys
Truth == [c \in Pairs |-> db[c[2]]]
Caches == [c \in Pairs |-> cached[c[1]][c[2]]]
Debts == {c \in Pairs : c[2] \in Dirty(c[1]) \cup missed[c[1]]}

(* What is dirty is what is owed.                                           *)
LEMMA DirtyIsOwed == \A c \in Pairs : c \in Debts <=> Owed(c[1], c[2])
BY DEF Pairs, Debts, Dirty, Owed, Held, Sent, Due

(* So it is after a step.                                                   *)
LEMMA DirtyIsOwedNext == \A c \in Pairs : c \in Debts' <=> Owed(c[1], c[2])'
BY DEF Pairs, Debts, Dirty, Owed, Held, Sent, Due

(* A pair is an instance and a key.                                         *)
LEMMA PairFacts ==
  /\ \A c \in Pairs : c[1] \in Instances /\ c[2] \in Keys /\ c = <<c[1], c[2]>>
  /\ \A i \in Instances, k \in Keys : /\ <<i, k>> \in Pairs
                                      /\ <<i, k>>[1] = i /\ <<i, k>>[2] = k
BY DEF Pairs

(* A quiet step is, to the abstract cache, a Clean.                          *)
LEMMA QuietRefines == ASSUME IInv, IInv', Quiet PROVE Abstract!Next
<1>1. Truth' = Truth
  BY DEF Quiet, Truth
<1>2. Debts' \subseteq Debts
  <2>1. ASSUME NEW c \in Debts' PROVE c \in Debts
    <3>1. c \in Pairs
      BY DEF Debts
    <3> QED BY <2>1, <3>1, DirtyIsOwed, DirtyIsOwedNext, PairFacts DEF Quiet
  <2> QED BY <2>1
<1>3. ASSUME NEW c \in Pairs PROVE Caches'[c] \in {Caches[c], None}
  <2>1. cached'[c[1]][c[2]] \in {cached[c[1]][c[2]], None}
    BY PairFacts DEF Quiet, Same, Gone
  <2> QED BY <2>1 DEF Caches
<1>4. ASSUME NEW c \in Debts \ Debts' PROVE Caches'[c] \in {None, Truth[c]}
  <2>1. c \in Pairs
    BY DEF Debts
  <2>2. ~Owed(c[1], c[2])'
    BY <1>4, <2>1, DirtyIsOwedNext
  <2>3. EntryInv(c[1], c[2])'
    BY <2>1, PairFacts DEF IInv, EntriesInv
  <2>4. cached'[c[1]][c[2]] \in {None, db'[c[2]]}
    BY <2>2, <2>3 DEF EntryInv
  <2> QED BY <2>1, <2>4 DEF Caches, Truth, Quiet
<1>5. Abstract!Clean
  BY <1>1, <1>2, <1>3, <1>4 DEF Abstract!Clean, Abstract!Fewer, Truth, Caches, Debts, Pairs
<1> QED BY <1>5 DEF Abstract!Next

(* A commit, or what makes more be owed, is a Write.                         *)
LEMMA TouchesRefines == ASSUME Touches PROVE Abstract!Next
<1>1. Caches' = Caches
  BY DEF Touches, Caches
<1>2. Debts \subseteq Debts' /\ Debts' \subseteq Pairs
  <2>1. ASSUME NEW c \in Debts PROVE c \in Debts'
    <3>1. c \in Pairs
      BY DEF Debts
    <3> QED BY <2>1, <3>1, DirtyIsOwed, DirtyIsOwedNext, PairFacts DEF Touches
  <2>2. Debts' \subseteq Pairs
    BY DEF Debts, Pairs
  <2> QED BY <2>1, <2>2
<1>3. ASSUME NEW c \in Pairs, Truth'[c] # Truth[c] PROVE c \in Debts'
  <2>1. db'[c[2]] # db[c[2]]
    BY <1>3 DEF Truth, Pairs
  <2> QED BY <2>1, DirtyIsOwedNext, PairFacts DEF Touches
<1>4. Abstract!Write
  BY <1>1, <1>2, <1>3 DEF Abstract!Write, Truth, Caches, Debts, Pairs
<1> QED BY <1>4 DEF Abstract!Next

(* A value that enters a cache is a Fill: of the truth, or of a dirty key.   *)
LEMMA FillRefines ==
  ASSUME IInv, NEW i \in Instances, NEW k \in Keys, Fill(i, k) PROVE Abstract!Next
<1> DEFINE d == <<i, k>>
<1>1. /\ db' = db
      /\ \A j \in Instances, x \in Keys : Owed(j, x)' <=> Owed(j, x)
      /\ \A j \in Instances, x \in Keys :
           cached'[j][x] = IF j = i /\ x = k THEN flight[i][k] ELSE cached[j][x]
  BY FillKeeps
<1>2. d \in Pairs /\ d[1] = i /\ d[2] = k
  BY PairFacts
<1>3. Truth' = Truth
  BY <1>1 DEF Truth
<1>4. Debts' = Debts
  <2>1. \A c \in Pairs : c \in Debts' <=> c \in Debts
    BY <1>1, DirtyIsOwed, DirtyIsOwedNext, PairFacts
  <2>2. Debts \subseteq Pairs /\ Debts' \subseteq Pairs
    BY DEF Debts, Pairs
  <2> QED BY <2>1, <2>2
<1>5. d \in Debts \/ Caches'[d] = Truth[d]
  <2>1. flight[i][k] # None /\ EntryInv(i, k)
    BY DEF Fill, IInv, EntriesInv
  <2>2. Owed(i, k) \/ cached'[i][k] = db[k]
    BY <2>1, <1>1 DEF EntryInv
  <2>3. Caches'[d] = cached'[i][k] /\ Truth[d] = db[k]
    BY <1>2 DEF Caches, Truth, Pairs
  <2> QED BY <2>2, <2>3, <1>2, DirtyIsOwed
<1>6. ASSUME NEW c \in Pairs \ {d} PROVE Caches'[c] \in {Caches[c], None}
  <2>1. c[1] \in Instances /\ c[2] \in Keys /\ ~(c[1] = i /\ c[2] = k)
    BY PairFacts
  <2>2. cached'[c[1]][c[2]] = cached[c[1]][c[2]]
    BY <2>1, <1>1
  <2> QED BY <2>2 DEF Caches
<1> HIDE DEF d
<1>7. Abstract!Fill(d)
  BY <1>3, <1>4, <1>5, <1>6 DEF Abstract!Fill, Abstract!Fewer, Truth, Caches, Debts, Pairs
<1> QED BY <1>2, <1>7 DEF Abstract!Next, Pairs

(* A lookup that has loaded a value is no step of the abstract cache.        *)
LEMMA LoadRefines ==
  ASSUME IInv, NEW i \in Instances, NEW k \in Keys, Load(i, k) PROVE UNCHANGED Abstract!vars
<1>1. /\ db' = db /\ cached' = cached
      /\ \A j \in Instances, x \in Keys : Owed(j, x)' <=> Owed(j, x)
  BY LoadKeeps
<1>2. Truth' = Truth /\ Caches' = Caches
  BY <1>1 DEF Truth, Caches
<1>3. Debts' = Debts
  <2>1. \A c \in Pairs : c \in Debts' <=> c \in Debts
    BY <1>1, DirtyIsOwed, DirtyIsOwedNext, PairFacts
  <2>2. Debts \subseteq Pairs /\ Debts' \subseteq Pairs
    BY DEF Debts, Pairs
  <2> QED BY <2>1, <2>2
<1> QED BY <1>2, <1>3 DEF Abstract!vars, Truth, Caches, Debts, Pairs

(* Every step of the cluster keeps the invariant and is a step of the        *)
(* abstract cache, or none.                                                *)
LEMMA NextRefines ==
  ASSUME IInv, [Next]_vars PROVE IInv' /\ [Abstract!Next]_Abstract!vars
<1>0. ASSUME Basic', Quiet PROVE IInv' /\ Abstract!Next
  <2>1. IInv'
    BY <1>0, EntriesKept DEF Quiet
  <2> QED BY <1>0, <2>1, QuietRefines
<1>1. ASSUME NEW i \in Instances, NEW k \in Keys, Load(i, k) PROVE IInv' /\ UNCHANGED Abstract!vars
  BY <1>1, LoadKeeps, LoadRefines
<1>2. ASSUME NEW i \in Instances, NEW k \in Keys, Fill(i, k) PROVE IInv' /\ Abstract!Next
  BY <1>2, FillKeeps, FillRefines
<1>3. ASSUME NEW h \in Handlers, NEW k \in Keys, Commit(h, k) PROVE IInv' /\ Abstract!Next
  BY <1>3, CommitKeeps, TouchesRefines
<1>4. ASSUME NEW h \in Handlers, NEW k \in Keys, CommitUnknown(h, k) PROVE IInv' /\ Abstract!Next
  BY <1>4, CommitUnknownKeeps, TouchesRefines
<1>5. ASSUME NEW h \in Handlers, NotifyLocal(h) PROVE IInv' /\ Abstract!Next
  BY <1>5, <1>0, NotifyLocalQuiet
<1>6. ASSUME NEW h \in Handlers, Publish(h) PROVE IInv' /\ Abstract!Next
  BY <1>6, <1>0, PublishQuiet
<1>7. ASSUME NEW i \in Instances, Send(i) PROVE IInv' /\ Abstract!Next
  BY <1>7, <1>0, SendQuiet
<1>8. ASSUME NEW i \in Instances, Receive(i) PROVE IInv' /\ Abstract!Next
  BY <1>8, <1>0, ReceiveQuiet
<1>9. ASSUME NEW i \in Instances, Disconnect(i) PROVE IInv' /\ Abstract!Next
  BY <1>9, DisconnectKeeps, TouchesRefines
<1>10. ASSUME NEW i \in Instances, Reconnect(i) PROVE IInv' /\ Abstract!Next
  BY <1>10, <1>0, ReconnectQuiet
<1>11. ASSUME NEW i \in Instances, Subscribed(i) PROVE IInv' /\ Abstract!Next
  BY <1>11, <1>0, SubscribedQuiet
<1>12. ASSUME NEW i \in Instances, ReconnectHandler(i) PROVE IInv' /\ Abstract!Next
  BY <1>12, <1>0, ReconnectHandlerQuiet
<1>13. ASSUME NEW i \in Instances, Crash(i) PROVE IInv' /\ Abstract!Next
  BY <1>13, <1>0, CrashQuiet
<1>14. CASE UNCHANGED vars
  BY <1>14, <1>0, StutterKeeps
<1> QED BY <1>1, <1>2, <1>3, <1>4, <1>5, <1>6, <1>7, <1>8, <1>9, <1>10, <1>11, <1>12,
           <1>13, <1>14 DEF Next

(* The cluster starts as the abstract cache does: empty, nothing dirty.      *)
LEMMA InitRefines == ASSUME Init PROVE Abstract!Init
<1>1. \A c \in Pairs : Caches[c] = None
  BY PairFacts DEF Init, Caches, Nothing
<1>2. Range(<<>>) = {}
  BY DEF Range
<1>3. \A i \in Instances, k \in Keys : ~Owed(i, k)
  BY <1>2, ClusterAssumption DEF Init, Owed, Held, Sent, Due
<1>4. Debts = {}
  <2>1. Debts \subseteq Pairs
    BY DEF Debts, Pairs
  <2> QED BY <2>1, <1>3, DirtyIsOwed, PairFacts
<1> QED BY <1>1, <1>4 DEF Abstract!Init, Caches, Debts, Pairs

----------------------------------------------------------------------------
(* The caches of any number of instances, told of each other's writes by     *)
(* notify and the subscription of main.go, behave as one abstract cache in   *)
(* which what is lost stays dirty, whatever breaks, crashes or is late.      *)
THEOREM ClusterImplements == Spec => ImplementsCoherentCache
<1>1. Init => IInv /\ Abstract!Init
  BY InitIInv, InitRefines
<1>2. IInv /\ [Next]_vars => IInv' /\ [Abstract!Next]_Abstract!vars
  BY NextRefines
<1> QED BY <1>1, <1>2, PTL DEF Spec, ImplementsCoherentCache, Abstract!Spec

(* An instance never answers with less than its own handlers have notified   *)
(* of: notify invalidates before the handler of the API replies.             *)
THEOREM ClusterOwnWrites == Spec => []OwnWritesVisible
<1>1. Init => IInv
  BY InitIInv
<1>2. IInv /\ [Next]_vars => IInv'
  BY NextRefines
<1>3. IInv => OwnWritesVisible
  BY DEF IInv, EntriesInv, EntryInv, OwnWritesVisible
<1> QED BY <1>1, <1>2, <1>3, PTL DEF Spec

(* What that is worth: an entry of a cache is what the database says, or its *)
(* invalidation is on its way, or the event is one of those that were lost   *)
(* (Consistent of CoherentCache, under the same mapping).                   *)
THEOREM ClusterConsistent == Spec => []Abstract!Consistent
<1>1. Init => IInv
  BY InitIInv
<1>2. IInv /\ [Next]_vars => IInv'
  BY NextRefines
<1>3. IInv => Abstract!Consistent
  <2> SUFFICES ASSUME IInv, NEW c \in Pairs
               PROVE  Caches[c] \in {None, Truth[c]} \/ c \in Debts
    BY DEF Abstract!Consistent, Pairs, Caches, Truth, Debts
  <2>1. EntryInv(c[1], c[2])
    BY PairFacts DEF IInv, EntriesInv
  <2>2. cached[c[1]][c[2]] \in {None, db[c[2]]} \/ c \in Debts
    BY <2>1, DirtyIsOwed DEF EntryInv
  <2> QED BY <2>2 DEF Caches, Truth
<1> QED BY <1>1, <1>2, <1>3, PTL DEF Spec
=============================================================================
