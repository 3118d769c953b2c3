------------------------------- MODULE Cache -------------------------------
(***************************************************************************)
(* The sharded in-memory cache of internal/cache/cache.go, used by any      *)
(* number of goroutines at once.                                           *)
(*                                                                         *)
(* A goroutine that fills the cache first reads the epoch, loads a value   *)
(* from elsewhere, and then calls Set with the epoch it read.  Every       *)
(* invalidation adds one to the epoch before it removes anything, so that  *)
(* a Set whose value may predate the invalidation gives up.  Each atomic   *)
(* operation of the code (an atomic load or add, a critical section, a     *)
(* lock acquisition) is one step here.                                     *)
(*                                                                         *)
(* The value of an entry is abstracted to the epoch its loader had read    *)
(* before loading: that is all that decides whether it may be stale.       *)
(***************************************************************************)
EXTENDS Integers, FiniteSets, FiniteSetsExt

CONSTANTS
    Keys,        \* the keys in use
    Groups,      \* the groups of DeleteGroup
    groupOf,     \* the group each key is stored under
    Procs,       \* the goroutines that call into the cache
    shardCount,  \* 64 in the code
    shardFor,    \* the hash of each key, modulo shardCount
    maxEntries,  \* first argument of New
    ttl,         \* second argument of New; 0 = entries do not expire
    None,        \* "no such key in the map"
    MaxEpoch,    \* bound: invalidations started in a behaviour
    MaxTime      \* bound: the clock's last value

Shards == 0 .. shardCount - 1

Entry == [loaded : Nat, expires : Nat]

ASSUME CacheAssumption ==
    /\ Keys # {} /\ IsFiniteSet(Keys)
    /\ shardCount \in Nat \ {0}
    /\ groupOf \in [Keys -> Groups]
    /\ shardFor \in [Keys -> Shards]
    /\ maxEntries \in Nat /\ ttl \in Nat
    /\ MaxEpoch \in Nat /\ MaxTime \in Nat
    /\ None \notin Entry /\ None \notin Procs

VARIABLES
    m,        \* the maps of all shards: key -> entry, or None
    epoch,    \* c.epoch
    mu,       \* the write lock of each shard: its holder, or None
    clock,    \* time.Now().UnixNano(), in ticks
    pc,       \* where each goroutine is
    loc,      \* its locals
    flushed   \* ghost: key -> the epoch of the last invalidation that has
              \*        removed the key from the map

vars == <<m, epoch, mu, clock, pc, loc, flushed>>

----------------------------------------------------------------------------
(* Helpers *)

\* New: the capacity of one shard.
perShard ==
    IF maxEntries \div shardCount < 1 THEN 1 ELSE maxEntries \div shardCount

\* math.MaxInt64: later than the clock ever gets.
MaxInt64 == MaxTime + 1

expiresAt(now) == IF ttl > 0 THEN now + ttl ELSE MaxInt64

KeysOf(s) == {k \in Keys : shardFor[k] = s}

\* The keys in the map of shard s.
Stored(s) == {k \in KeysOf(s) : m[k] # None}

Expired(s, now) == {k \in Stored(s) : m[k].expires <= now}

\* Mutants of evict: one entry too few goes, one too many, or any at all.
evictShort(s, now) ==
    LET alive  == Stored(s) \ Expired(s, now)
        excess == Cardinality(alive) - perShard
    IN  {Expired(s, now) \cup D : D \in kSubset(IF excess > 0 THEN excess ELSE 0, alive)}

evictOneMore(s, now) ==
    LET alive  == Stored(s) \ Expired(s, now)
        excess == Cardinality(alive) - perShard + 2
    IN  {Expired(s, now) \cup D : D \in kSubset(IF excess > 0 THEN excess ELSE 0, alive)}

evictAny(s, now) == kSubset(Cardinality(Stored(s)) - perShard + 1, Stored(s))

(* evict: first every expired entry goes, then arbitrary ones (the order   *)
(* of a Go map range) until there is room.  The set of possible outcomes.  *)
evict(s, now) ==
    LET alive  == Stored(s) \ Expired(s, now)
        excess == Cardinality(alive) - perShard + 1
    IN  {Expired(s, now) \cup D : D \in kSubset(IF excess > 0 THEN excess ELSE 0, alive)}

\* The test Set makes twice: has nothing been invalidated since `e` was read?
epochUnchanged(e) == epoch = e

\* The locals of a goroutine: the key and epoch of a Set or Delete in
\* progress, the time Set took, and for DeleteGroup and Clear the keys they
\* match and the next shard of their loop.
Locals == [key : Keys, mark : Nat, now : Nat, match : SUBSET Keys, next : Shards]

Frame(key, mark, now, match, next) ==
    [key |-> key, mark |-> mark, now |-> now, match |-> match, next |-> next]

Blank == Frame(CHOOSE k \in Keys : TRUE, 0, 0, {}, 0)

PCs == {"idle", "load", "set", "check", "put", "delete", "sweep"}

Return(p) ==
    /\ pc' = [pc EXCEPT ![p] = "idle"]
    /\ loc' = [loc EXCEPT ![p] = Blank]

\* Remove the keys in K from the map; `e` is the invalidation's epoch.
Remove(K, e) ==
    /\ m' = [k \in Keys |-> IF k \in K THEN None ELSE m[k]]
    /\ flushed' = [k \in Keys |->
                     IF k \in K /\ flushed[k] < e THEN e ELSE flushed[k]]

----------------------------------------------------------------------------
Init ==
    /\ m = [k \in Keys |-> None]
    /\ epoch = 0
    /\ mu = [s \in Shards |-> None]
    /\ clock = 0
    /\ pc = [p \in Procs |-> "idle"]
    /\ loc = [p \in Procs |-> Blank]
    /\ flushed = [k \in Keys |-> 0]

(* Epoch(): a loader of key k reads the epoch; it then loads the value.     *)
Epoch(p, k) ==
    /\ pc[p] = "idle"
    /\ pc' = [pc EXCEPT ![p] = "load"]
    /\ loc' = [loc EXCEPT ![p] = Frame(k, epoch, 0, {}, 0)]
    /\ UNCHANGED <<m, epoch, mu, clock, flushed>>

(* Set, up to taking the shard's lock: the first look at the epoch.         *)
SetEnter(p) ==
    /\ pc[p] = "load"
    /\ IF epochUnchanged(loc[p].mark)
         THEN /\ pc' = [pc EXCEPT ![p] = "set"]
              /\ loc' = [loc EXCEPT ![p] = Frame(loc[p].key, loc[p].mark, clock, {}, 0)]
         ELSE Return(p)
    /\ UNCHANGED <<m, epoch, mu, clock, flushed>>

SetLock(p) ==
    LET s == shardFor[loc[p].key]
    IN  /\ pc[p] = "set"
        /\ mu[s] = None
        /\ mu' = [mu EXCEPT ![s] = p]
        /\ pc' = [pc EXCEPT ![p] = "check"]
        /\ UNCHANGED <<m, epoch, clock, loc, flushed>>

\* Mutants of SetCheck: no second look, or one that forgets to unlock.
SetCheckOmitted(p) ==
    /\ pc[p] = "check"
    /\ pc' = [pc EXCEPT ![p] = "put"]
    /\ UNCHANGED <<m, epoch, mu, clock, loc, flushed>>

SetCheckKeepsLock(p) ==
    /\ pc[p] = "check"
    /\ IF epochUnchanged(loc[p].mark)
         THEN pc' = [pc EXCEPT ![p] = "put"] /\ UNCHANGED loc
         ELSE Return(p)
    /\ UNCHANGED <<m, epoch, mu, clock, flushed>>

(* The second look, under the lock; giving up releases it.                  *)
SetCheck(p) ==
    LET s == shardFor[loc[p].key]
    IN  /\ pc[p] = "check"
        /\ IF epochUnchanged(loc[p].mark)
             THEN /\ pc' = [pc EXCEPT ![p] = "put"]
                  /\ UNCHANGED <<mu, loc>>
             ELSE /\ mu' = [mu EXCEPT ![s] = None]
                  /\ Return(p)
        /\ UNCHANGED <<m, epoch, clock, flushed>>

(* The rest of Set: make room if the key is new, store, unlock.  The epoch  *)
(* may have moved again since SetCheck.                                    *)
SetPut(p) ==
    LET k == loc[p].key
        s == shardFor[k]
        full == m[k] = None /\ Cardinality(Stored(s)) >= perShard
    IN  /\ pc[p] = "put"
        /\ \E gone \in IF full THEN evict(s, loc[p].now) ELSE {{}} :
             m' = [j \in Keys |->
                     IF j = k THEN [loaded  |-> loc[p].mark,
                                    expires |-> expiresAt(loc[p].now)]
                     ELSE IF j \in gone THEN None ELSE m[j]]
        /\ mu' = [mu EXCEPT ![s] = None]
        /\ Return(p)
        /\ UNCHANGED <<epoch, clock, flushed>>

\* What Delete, DeleteGroup and Clear do first: epoch.Add(1).
Bump(p, at, key, match) ==
    /\ pc[p] = "idle"
    /\ epoch < MaxEpoch
    /\ epoch' = epoch + 1
    /\ pc' = [pc EXCEPT ![p] = at]
    /\ loc' = [loc EXCEPT ![p] = Frame(key, epoch + 1, 0, match, 0)]
    /\ UNCHANGED <<m, mu, clock, flushed>>

Delete(p, k) == Bump(p, "delete", k, {})

(* The critical section of Delete.                                         *)
DeleteKey(p) ==
    LET k == loc[p].key
    IN  /\ pc[p] = "delete"
        /\ mu[shardFor[k]] = None
        /\ Remove({k}, loc[p].mark)
        /\ Return(p)
        /\ UNCHANGED <<epoch, mu, clock>>

DeleteGroup(p, g) == Bump(p, "sweep", Blank.key, {k \in Keys : groupOf[k] = g})

Clear(p) == Bump(p, "sweep", Blank.key, Keys)

(* One turn of the loop of DeleteGroup and Clear over the shards.           *)
SweepShard(p) ==
    LET s == loc[p].next
    IN  /\ pc[p] = "sweep"
        /\ mu[s] = None
        /\ Remove(KeysOf(s) \cap loc[p].match, loc[p].mark)
        /\ IF s + 1 < shardCount
             THEN /\ loc' = [loc EXCEPT ![p] =
                                Frame(loc[p].key, loc[p].mark, 0, loc[p].match, s + 1)]
                  /\ UNCHANGED pc
             ELSE Return(p)
        /\ UNCHANGED <<epoch, mu, clock>>

Tick ==
    /\ clock < MaxTime
    /\ clock' = clock + 1
    /\ UNCHANGED <<m, epoch, mu, pc, loc, flushed>>

\* A call begins: the environment's choice.
Call(p) ==
    \/ \E k \in Keys : Epoch(p, k) \/ Delete(p, k)
    \/ \E g \in Groups : DeleteGroup(p, g)
    \/ Clear(p)

\* A call that has begun goes on.
Step(p) ==
    \/ SetEnter(p)
    \/ SetLock(p)
    \/ SetCheck(p)
    \/ SetPut(p)
    \/ DeleteKey(p)
    \/ SweepShard(p)

Next ==
    \/ \E p \in Procs : Call(p) \/ Step(p)
    \/ Tick

Spec == Init /\ [][Next]_vars

(* Goroutines are scheduled, and Go's RWMutex admits a waiting writer after *)
(* finitely many others: a step of a call that is enabled again and again  *)
(* is taken.  Nothing forces a new call or the clock.                       *)
FairSpec == Spec /\ \A p \in Procs : SF_vars(Step(p))

----------------------------------------------------------------------------
(* Properties *)

(* Every variable keeps its type; the loops of DeleteGroup and Clear stay   *)
(* within the shards.                                                      *)
TypeOK ==
    /\ m \in [Keys -> Entry \cup {None}]
    /\ epoch \in 0 .. MaxEpoch
    /\ mu \in [Shards -> Procs \cup {None}]
    /\ clock \in 0 .. MaxTime
    /\ pc \in [Procs -> PCs]
    /\ loc \in [Procs -> Locals]
    /\ flushed \in [Keys -> Nat]

(* Once an invalidation has removed a key, no value loaded before that      *)
(* invalidation began is in the map again, however late the Set that        *)
(* carries it runs (the two epoch tests of Set against Delete, DeleteGroup *)
(* and Clear).                                                             *)
NoResurrection ==
    \A k \in Keys : m[k] # None => m[k].loaded >= flushed[k]

(* No shard ever holds more than perShard entries: Set evicts under the     *)
(* same lock it stores under.                                              *)
ShardBound ==
    \A s \in Shards : Cardinality(Stored(s)) <= perShard

\* What a Set that returns has dropped: expired entries only, or all of those
\* and as many others as leave the shard exactly full.
Drops(p) ==
    LET s       == shardFor[loc[p].key]
        lost    == {k \in Stored(s) : m'[k] = None}
        expired == Expired(s, loc[p].now)
    IN  \/ lost \subseteq expired
        \/ /\ expired \subseteq lost
           /\ Cardinality({k \in KeysOf(s) : m'[k] # None}) = perShard

(* Set drops a live entry only when no expired one is left in the shard     *)
(* (the two loops of evict; time of judgement is the one Set took before    *)
(* waiting for the lock), and only for want of room: after it the shard is  *)
(* exactly full.                                                           *)
EvictsInOrder ==
    [][\A p \in Procs : pc[p] = "put" /\ pc'[p] = "idle" => Drops(p)]_vars

(* Every call returns: no early return keeps a shard locked, no two calls   *)
(* wait for each other.                                                    *)
CallsReturn ==
    \A p \in Procs : pc[p] # "idle" ~> pc[p] = "idle"

=============================================================================
