------------------------------ MODULE Cluster ------------------------------
(***************************************************************************)
(* Several instances on one database, told of each other's writes over      *)
(* NATS: the notify closure and the subscription of cmd/sharddnsd/main.go,  *)
(* the Bus of internal/events/bus.go, and InvalidateAll of                  *)
(* internal/store/cached.go.                                               *)
(*                                                                         *)
(* The cache of an instance is reduced to what CachedResolver shows of it:  *)
(* a value loaded from the database enters the cache unless the key is      *)
(* invalidated in between, and an invalidation takes a key out at once.     *)
(* A value is the version of the key in the database.                       *)
(*                                                                         *)
(* The NATS server and client are external: a publisher's buffer is sent in *)
(* order, a message goes once, to those subscribed at that moment, and a    *)
(* connection that breaks loses what is under way on it.                    *)
(***************************************************************************)
EXTENDS Integers, Sequences, Functions

CONSTANTS
    Instances,   \* sharddnsd processes
    Keys,        \* cache keys
    Handlers,    \* API handlers that serve writes
    home,        \* the instance each handler runs on
    None,        \* "not in the cache", "nothing loaded"
    MaxWrites,   \* bound: commits in a behaviour
    MaxDrops     \* bound: broken connections, crashes and commits with an
                 \* unknown outcome in a behaviour

ASSUME ClusterAssumption ==
    /\ home \in [Handlers -> Instances]
    /\ MaxWrites \in Nat /\ MaxDrops \in Nat
    /\ None \notin Nat /\ None \notin Keys

VARIABLES
    db,       \* version of each key in the database
    cached,   \* per instance and key: the version in the cache, or None
    flight,   \* per instance and key: a version loaded and to be cached
    pc,       \* where each handler is
    hkey,     \* the key its write changed
    hver,     \* the version it wrote
    out,      \* per instance: published, not yet read by the NATS server
    inbox,    \* per instance: sent to its subscription, not yet handled
    link,     \* per instance: connected to the NATS server?
    sub,      \* per instance: does the server know of its subscription?
    recon,    \* per instance: is the ReconnectHandler due?
    drops,    \* faults so far
    own,      \* ghost, per instance and key: the last write of its own handlers
              \*        that it has invalidated for
    missed    \* ghost, per instance: keys with a write it will not be told of

caches == <<cached, flight>>
handlers == <<pc, hkey, hver>>
nats == <<out, inbox, link, sub, recon>>
ghosts == <<own, missed>>
vars == <<db, caches, handlers, nats, drops, ghosts>>

\* A ChangeEvent of instance i about key k.
Event(i, k) == [origin |-> i, key |-> k]
Nothing == [k \in Keys |-> None]

----------------------------------------------------------------------------
(* The cache of an instance *)

Load(i, k) ==
    /\ cached[i][k] = None /\ flight[i][k] = None
    /\ flight' = [flight EXCEPT ![i] = [flight[i] EXCEPT ![k] = db[k]]]
    /\ UNCHANGED <<db, cached, handlers, nats, drops, ghosts>>

Fill(i, k) ==
    /\ flight[i][k] # None
    /\ cached' = [cached EXCEPT ![i] = [cached[i] EXCEPT ![k] = flight[i][k]]]
    /\ flight' = [flight EXCEPT ![i] = [flight[i] EXCEPT ![k] = None]]
    /\ UNCHANGED <<db, handlers, nats, drops, ghosts>>

\* Mutant of Invalidate: what is being loaded may still be stored.
InvalidateEntry(i, k) ==
    /\ cached' = [cached EXCEPT ![i] = [cached[i] EXCEPT ![k] = None]]
    /\ missed' = [missed EXCEPT ![i] = missed[i] \ {k}]
    /\ UNCHANGED flight

\* cached.Invalidate, as CachedResolver has it in detail.
Invalidate(i, k) ==
    /\ cached' = [cached EXCEPT ![i] = [cached[i] EXCEPT ![k] = None]]
    /\ flight' = [flight EXCEPT ![i] = [flight[i] EXCEPT ![k] = None]]
    /\ missed' = [missed EXCEPT ![i] = missed[i] \ {k}]

InvalidateAll(i) ==
    /\ cached' = [cached EXCEPT ![i] = Nothing]
    /\ flight' = [flight EXCEPT ![i] = Nothing]

----------------------------------------------------------------------------
(* API handlers *)

\* A write of key k has committed; the handler goes on to notify.
Commit(h, k) ==
    /\ pc[h] = "idle"
    /\ db[k] < MaxWrites
    /\ db' = [db EXCEPT ![k] = db[k] + 1]
    /\ pc' = [pc EXCEPT ![h] = "invalidate"]
    /\ hkey' = [hkey EXCEPT ![h] = k]
    /\ hver' = [hver EXCEPT ![h] = db[k] + 1]
    /\ UNCHANGED <<caches, nats, drops, ghosts>>

\* The database connection fails, or the caller goes away, while tx.Commit is
\* under way: the write has taken effect, Commit returns an error, and the
\* handler returns it without calling notify.
CommitUnknown(h, k) ==
    /\ pc[h] = "idle"
    /\ db[k] < MaxWrites
    /\ drops < MaxDrops
    /\ drops' = drops + 1
    /\ db' = [db EXCEPT ![k] = db[k] + 1]
    /\ missed' = [i \in Instances |-> missed[i] \cup {k}]
    /\ UNCHANGED <<caches, handlers, nats, own>>

\* Mutant of NotifyLocal: the own cache is left to the event.
NotifyBusOnly(h) ==
    /\ pc[h] = "invalidate"
    /\ pc' = [pc EXCEPT ![h] = "publish"]
    /\ own' = [own EXCEPT ![home[h]] =
                  [own[home[h]] EXCEPT ![hkey[h]] = IF @ < hver[h] THEN hver[h] ELSE @]]
    /\ UNCHANGED <<db, caches, hkey, hver, nats, drops, missed>>

\* Mutant of NotifyLocal: the event is not published.
NotifyLocalOnly(h) ==
    /\ pc[h] = "invalidate"
    /\ Invalidate(home[h], hkey[h])
    /\ pc' = [pc EXCEPT ![h] = "idle"]
    /\ hkey' = [hkey EXCEPT ![h] = None]
    /\ hver' = [hver EXCEPT ![h] = 0]
    /\ own' = [own EXCEPT ![home[h]] =
                  [own[home[h]] EXCEPT ![hkey[h]] = IF @ < hver[h] THEN hver[h] ELSE @]]
    /\ UNCHANGED <<db, nats, drops>>

\* notify: first the instance's own cache...
NotifyLocal(h) ==
    /\ pc[h] = "invalidate"
    /\ Invalidate(home[h], hkey[h])
    /\ pc' = [pc EXCEPT ![h] = "publish"]
    /\ own' = [own EXCEPT ![home[h]] =
                  [own[home[h]] EXCEPT ![hkey[h]] = IF @ < hver[h] THEN hver[h] ELSE @]]
    /\ UNCHANGED <<db, hkey, hver, nats, drops>>

\* ...then bus.Publish, which only puts the event into the client's buffer.
Publish(h) ==
    LET i == home[h]
    IN  /\ pc[h] = "publish"
        /\ out' = [out EXCEPT ![i] = Append(out[i], Event(i, hkey[h]))]
        /\ pc' = [pc EXCEPT ![h] = "idle"]
        /\ hkey' = [hkey EXCEPT ![h] = None]
        /\ hver' = [hver EXCEPT ![h] = 0]
        /\ UNCHANGED <<db, caches, inbox, link, sub, recon, drops, ghosts>>

----------------------------------------------------------------------------
(* NATS *)

\* The keys of K are lost to all instances but i.
Lose(i, K) == [j \in Instances |-> IF j = i THEN missed[i] ELSE missed[j] \cup K]

\* The server takes the next event of instance i and sends it to all
\* subscriptions it knows of, that of i included.
Send(i) ==
    LET ev == Head(out[i])
    IN  /\ link[i]
        /\ out[i] # <<>>
        /\ out' = [out EXCEPT ![i] = Tail(out[i])]
        /\ inbox' = [j \in Instances |->
                       IF link[j] /\ sub[j] THEN Append(inbox[j], ev) ELSE inbox[j]]
        /\ missed' = [j \in Instances |->
                        IF j # i /\ link[j] /\ ~sub[j] THEN missed[j] \cup {ev.key} ELSE missed[j]]
        /\ UNCHANGED <<db, caches, handlers, link, sub, recon, drops, own>>

\* The subscription's callback: an event of another instance invalidates.
Receive(i) ==
    /\ inbox[i] # <<>>
    /\ inbox' = [inbox EXCEPT ![i] = Tail(inbox[i])]
    /\ IF Head(inbox[i]).origin = i
         THEN UNCHANGED <<caches, missed>>
         ELSE Invalidate(i, Head(inbox[i]).key)
    /\ UNCHANGED <<db, handlers, out, link, sub, recon, drops, own>>

\* The connection of i breaks.  Of what was on its way to i only a part has
\* arrived; of what i has written to it a part may never arrive.
Disconnect(i) ==
    /\ link[i]
    /\ drops < MaxDrops
    /\ drops' = drops + 1
    /\ link' = [link EXCEPT ![i] = FALSE]
    /\ sub' = [sub EXCEPT ![i] = FALSE]
    /\ \E n \in 0 .. Len(inbox[i]) : inbox' = [inbox EXCEPT ![i] = SubSeq(inbox[i], 1, n)]
    /\ \E n \in 0 .. Len(out[i]) :
         /\ out' = [out EXCEPT ![i] = SubSeq(out[i], n + 1, Len(out[i]))]
         /\ missed' = Lose(i, {out[i][m].key : m \in 1 .. n})
    /\ UNCHANGED <<db, caches, handlers, recon, own>>

\* The client connects again and repeats its subscription; the
\* ReconnectHandler is called some time after.
Reconnect(i) ==
    /\ ~link[i]
    /\ link' = [link EXCEPT ![i] = TRUE]
    /\ recon' = [recon EXCEPT ![i] = TRUE]
    /\ UNCHANGED <<db, caches, handlers, out, inbox, sub, drops, ghosts>>

\* The server reads the subscription.
Subscribed(i) ==
    /\ link[i] /\ ~sub[i]
    /\ sub' = [sub EXCEPT ![i] = TRUE]
    /\ UNCHANGED <<db, caches, handlers, out, inbox, link, recon, drops, ghosts>>

\* Mutant of ReconnectHandler: the cache is kept.
ReconnectHandlerIdle(i) ==
    /\ recon[i]
    /\ recon' = [recon EXCEPT ![i] = FALSE]
    /\ UNCHANGED <<db, caches, handlers, out, inbox, link, sub, drops, ghosts>>

\* onReconnect: cached.InvalidateAll()
ReconnectHandler(i) ==
    /\ recon[i]
    /\ recon' = [recon EXCEPT ![i] = FALSE]
    /\ InvalidateAll(i)
    /\ missed' = [missed EXCEPT ![i] = {}]
    /\ UNCHANGED <<db, handlers, out, inbox, link, sub, drops, own>>

\* Instance i crashes and starts again, with an empty cache; a write it had
\* committed stays, the handler's notify does not happen.
Crash(i) ==
    LET mine == {h \in Handlers : home[h] = i}
        lost == {ev.key : ev \in Range(out[i])} \cup ({hkey[h] : h \in mine} \ {None})
    IN  /\ drops < MaxDrops
        /\ drops' = drops + 1
        /\ InvalidateAll(i)
        /\ pc' = [h \in Handlers |-> IF h \in mine THEN "idle" ELSE pc[h]]
        /\ hkey' = [h \in Handlers |-> IF h \in mine THEN None ELSE hkey[h]]
        /\ hver' = [h \in Handlers |-> IF h \in mine THEN 0 ELSE hver[h]]
        /\ out' = [out EXCEPT ![i] = <<>>]
        /\ inbox' = [inbox EXCEPT ![i] = <<>>]
        /\ link' = [link EXCEPT ![i] = TRUE]
        /\ sub' = [sub EXCEPT ![i] = FALSE]
        /\ recon' = [recon EXCEPT ![i] = FALSE]
        /\ missed' = [Lose(i, lost) EXCEPT ![i] = {}]
        /\ UNCHANGED <<db, own>>

----------------------------------------------------------------------------
\* run: connect, subscribe, serve.
Init ==
    /\ db = [k \in Keys |-> 0]
    /\ cached = [i \in Instances |-> Nothing]
    /\ flight = [i \in Instances |-> Nothing]
    /\ pc = [h \in Handlers |-> "idle"]
    /\ hkey = [h \in Handlers |-> None]
    /\ hver = [h \in Handlers |-> 0]
    /\ out = [i \in Instances |-> <<>>]
    /\ inbox = [i \in Instances |-> <<>>]
    /\ link = [i \in Instances |-> TRUE]
    /\ sub = [i \in Instances |-> FALSE]
    /\ recon = [i \in Instances |-> FALSE]
    /\ drops = 0
    /\ own = [i \in Instances |-> [k \in Keys |-> 0]]
    /\ missed = [i \in Instances |-> {}]

Next ==
    \/ \E i \in Instances, k \in Keys : Load(i, k) \/ Fill(i, k)
    \/ \E h \in Handlers, k \in Keys : Commit(h, k) \/ CommitUnknown(h, k)
    \/ \E h \in Handlers : NotifyLocal(h) \/ Publish(h)
    \/ \E i \in Instances :
         \/ Send(i) \/ Receive(i)
         \/ Disconnect(i) \/ Reconnect(i) \/ Subscribed(i) \/ ReconnectHandler(i)
         \/ Crash(i)

Spec == Init /\ [][Next]_vars

(* Handlers and callbacks run, and the client tries for ever to reach a      *)
(* server that is not gone for ever.  Nothing forces a lookup, a write or a  *)
(* broken connection.                                                      *)
FairSpec ==
    /\ Spec
    /\ \A h \in Handlers : WF_vars(NotifyLocal(h)) /\ WF_vars(Publish(h))
    /\ \A i \in Instances :
         /\ WF_vars(Receive(i)) /\ WF_vars(Reconnect(i))
         /\ WF_vars(ReconnectHandler(i)) /\ WF_vars(Subscribed(i))
         /\ SF_vars(Send(i))

----------------------------------------------------------------------------
(* Properties *)

\* The keys instance i is still going to invalidate.
Dirty(i) ==
    IF ~link[i] \/ recon[i] THEN Keys
    ELSE {k \in Keys :
            \/ \E h \in Handlers : /\ hkey[h] = k
                                   /\ pc[h] = "invalidate" \/ home[h] # i
            \/ \E j \in Instances \ {i} : Event(j, k) \in Range(out[j])
            \/ \E j \in Instances \ {i} : Event(j, k) \in Range(inbox[i])}

\* All the caches together, as one abstract cache with a key per instance.
Abstract == INSTANCE CoherentCache WITH
    Keys   <- Instances \X Keys,
    truth  <- [c \in Instances \X Keys |-> db[c[2]]],
    cached <- [c \in Instances \X Keys |-> cached[c[1]][c[2]]],
    dirty  <- {c \in Instances \X Keys : c[2] \in Dirty(c[1]) \cup missed[c[1]]}

(* The cluster is one coherent cache, but for the events a publisher or a    *)
(* subscription not yet known has lost: no event is taken off its way before *)
(* the entry it is about is gone, no old value enters behind it, and what an *)
(* instance misses while disconnected the reconnect handler makes good.      *)
ImplementsCoherentCache == Abstract!Spec

(* An instance never answers from its cache with less than the last write    *)
(* its own handlers have finished notifying of, whatever is lost or crashes: *)
(* notify invalidates before the handler replies, and does not leave that    *)
(* to the event that comes back over NATS.                                  *)
OwnWritesVisible ==
    \A i \in Instances, k \in Keys : cached[i][k] # None => cached[i][k] >= own[i][k]

(* No entry stays stale but for a lost event: change events reach every      *)
(* instance in the end, or the instance empties its cache when it has        *)
(* reconnected.                                                            *)
StaleEntriesGo ==
    \A i \in Instances, k \in Keys :
      cached[i][k] \notin {None, db[k]}
        ~> cached[i][k] \in {None, db[k]} \/ k \in missed[i]
=============================================================================
