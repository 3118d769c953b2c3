------------------------------- MODULE Daemon -------------------------------
(***************************************************************************)
(* The life of sharddnsd, from its configuration to its exit: run and       *)
(* connectStore of cmd/sharddnsd/main.go, Load of internal/config/config.go *)
(* and Migrate of internal/store/store.go.  Several instances start on one  *)
(* database, which may be empty.                                           *)
(*                                                                         *)
(* Of the DNS server and the API there is what start and stop depend on: a  *)
(* query that holds a connection of the pool, and calls that write and then *)
(* announce what they wrote.  The database, net/http and the NATS client    *)
(* are external; a call of the database may fail, but ends.                 *)
(***************************************************************************)
EXTENDS Integers, FiniteSets

CONSTANTS
    Instances,
    Asked,         \* bound: the instances that are sent queries and calls
    Calls,         \* API calls an instance may be serving at a time
    Environments,  \* what Load may find: [url, nats, cache, ttl, entries, workers, conns]
    NumCPU,
    maxAttempts,   \* 30
    errCap,        \* 2, the capacity of errCh
    MaxCrashes,    \* bound: crashes in a behaviour
    Unset,         \* a variable that is not set, or not a number
    Fail,
    None

ASSUME DaemonAssumption ==
    /\ Asked \subseteq Instances /\ None \notin Instances
    /\ Environments \subseteq [url : BOOLEAN, nats : BOOLEAN, cache : BOOLEAN, ttl : {0, Fail},
                               entries : Int \cup {Unset}, workers : Int \cup {Unset},
                               conns : Int \cup {Unset}]
    /\ NumCPU \in Nat \ {0} /\ maxAttempts \in Nat \ {0}
    /\ errCap \in Nat /\ MaxCrashes \in Nat

VARIABLES
    tables,   \* the tables are there
    lock,     \* who holds the advisory lock
    crashes,  \* so far
    pc,       \* where run is
    cfg,      \* what Load returned
    attempt,  \* of connectStore
    failed,   \* run is going to return an error
    ctxDone,  \* a signal has come, or stop was called
    pool, bus,
    dns,      \* the goroutine of dnsServer.Serve
    busy,     \* a query is being answered
    api,      \* the goroutine of httpSrv.Serve
    errCh,    \* errors in the channel
    call,     \* the API calls
    late,     \* Shutdown gave up waiting
    unheard   \* ghost: a committed write was not announced

shared == <<tables, lock, crashes>>
start == <<cfg, attempt>>
serving == <<dns, busy, api, errCh>>
calls == <<call, unheard>>
vars == <<shared, pc, start, failed, ctxDone, pool, bus, serving, calls, late>>

----------------------------------------------------------------------------
(* Configuration *)

getenvInt(v, def) == IF v = Unset THEN def ELSE v

PositiveOr(v, def) == IF v <= 0 THEN def ELSE v

\* ttl is Fail if it cannot be parsed or is negative.
Load(env) ==
    IF env.ttl = Fail \/ ~env.url \/ getenvInt(env.entries, 100000) <= 0 THEN Fail
    ELSE [nats |-> env.nats, cache |-> env.cache,
          workers |-> PositiveOr(getenvInt(env.workers, 0), 4 * NumCPU),
          conns   |-> PositiveOr(getenvInt(env.conns, 0),
                                 IF 2 * NumCPU > 8 THEN 2 * NumCPU ELSE 8),
          entries |-> getenvInt(env.entries, 100000)]

----------------------------------------------------------------------------
(* Start *)

Goto(i, l) == pc' = [pc EXCEPT ![i] = l]
Set(f, i, v) == [f EXCEPT ![i] = v]

\* run returns an error: what it has deferred so far is done.
Return(i, deferred) == Goto(i, deferred) /\ failed' = Set(failed, i, TRUE)

Configure(i, env) ==
    /\ pc[i] = "off"
    /\ cfg' = Set(cfg, i, Load(env))
    /\ attempt' = Set(attempt, i, 1)
    /\ IF cfg'[i] = Fail THEN Return(i, "exited") ELSE Goto(i, "connect") /\ UNCHANGED failed
    /\ UNCHANGED <<shared, ctxDone, pool, bus, serving, calls, late>>

\* store.Open: the pool answers a ping.
Open(i) ==
    /\ pc[i] = "connect"
    /\ \/ /\ ~ctxDone[i]
          /\ pool' = Set(pool, i, "open")
          /\ attempt' = Set(attempt, i, 0)
          /\ Goto(i, "lock")
       \/ /\ Goto(i, "pause")
          /\ UNCHANGED <<pool, attempt>>
    /\ UNCHANGED <<shared, cfg, failed, ctxDone, bus, serving, calls, late>>

\* Mutant of Pause: the attempts are not counted.
PauseUncounted(i) ==
    /\ pc[i] = "pause"
    /\ \/ Goto(i, "connect") /\ UNCHANGED failed
       \/ ctxDone[i] /\ Return(i, "exited")
    /\ UNCHANGED <<shared, cfg, attempt, ctxDone, pool, bus, serving, calls, late>>

\* A second later, or at the end of the context.
Pause(i) ==
    /\ pc[i] = "pause"
    /\ IF attempt[i] < maxAttempts
         THEN \/ /\ attempt' = Set(attempt, i, attempt[i] + 1)
                 /\ Goto(i, "connect") /\ UNCHANGED failed
              \/ ctxDone[i] /\ Return(i, "exited") /\ UNCHANGED attempt
         ELSE Return(i, "exited") /\ UNCHANGED attempt
    /\ UNCHANGED <<shared, cfg, ctxDone, pool, bus, serving, calls, late>>

\* Mutant of Lock: the lock is taken whoever has it.
LockShared(i) ==
    /\ pc[i] = "lock"
    /\ lock' = i
    /\ Goto(i, "check")
    /\ UNCHANGED <<tables, crashes, start, failed, ctxDone, pool, bus, serving, calls, late>>

\* Migrate, a statement a step.
Lock(i) ==
    /\ pc[i] = "lock"
    /\ lock = None
    /\ lock' = i
    /\ Goto(i, "check")
    /\ UNCHANGED <<tables, crashes, start, failed, ctxDone, pool, bus, serving, calls, late>>

LockFails(i) ==
    /\ pc[i] = "lock"
    /\ Return(i, "close")
    /\ UNCHANGED <<shared, start, ctxDone, pool, bus, serving, calls, late>>

Check(i) ==
    /\ pc[i] = "check"
    /\ ~ctxDone[i]
    /\ Goto(i, IF tables THEN "unlock" ELSE "apply")
    /\ UNCHANGED <<shared, start, failed, ctxDone, pool, bus, serving, calls, late>>

\* The schema is one simple query, so it is applied whole or not at all.
Apply(i) ==
    /\ pc[i] = "apply"
    /\ ~ctxDone[i]
    /\ tables' = TRUE
    /\ Goto(i, "unlock")
    /\ UNCHANGED <<lock, crashes, start, failed, ctxDone, pool, bus, serving, calls, late>>

\* An error, or the end of the context, that may come after the database is done.
MigrateFails(i) ==
    /\ pc[i] \in {"check", "apply"}
    /\ tables' \in {tables, tables \/ pc[i] = "apply"}
    /\ Return(i, "unlock")
    /\ UNCHANGED <<lock, crashes, start, ctxDone, pool, bus, serving, calls, late>>

\* Mutant of Unlock: an error of the migration does not end run.
UnlockGoesOn(i) ==
    /\ pc[i] = "unlock"
    /\ lock' = None
    /\ Goto(i, "bus")
    /\ UNCHANGED <<tables, crashes, start, failed, ctxDone, pool, bus, serving, calls, late>>

\* Deferred, and not cut short by the end of the context; a connection that is
\* broken gives the lock up by itself.
Unlock(i) ==
    /\ pc[i] = "unlock"
    /\ lock' = None
    /\ Goto(i, IF failed[i] THEN "close" ELSE "bus")
    /\ UNCHANGED <<tables, crashes, start, failed, ctxDone, pool, bus, serving, calls, late>>

\* events.Connect and, with a cache, Subscribe.
ConnectBus(i) ==
    /\ pc[i] = "bus"
    /\ \/ ~cfg[i].nats /\ Goto(i, "listen") /\ UNCHANGED <<bus, failed>>
       \/ cfg[i].nats /\ bus' = Set(bus, i, "up") /\ Goto(i, "listen") /\ UNCHANGED failed
       \/ cfg[i].nats /\ Return(i, "close") /\ UNCHANGED bus
       \/ cfg[i].nats /\ cfg[i].cache /\ bus' = Set(bus, i, "up") /\ Return(i, "drain")
    /\ UNCHANGED <<shared, start, ctxDone, pool, serving, calls, late>>

\* dnsServer.Listen, newAPIServer and the two goroutines.
Listen(i) ==
    /\ pc[i] = "listen"
    /\ \/ /\ dns' = Set(dns, i, "serving") /\ api' = Set(api, i, "serving")
          /\ Goto(i, "select") /\ UNCHANGED failed
       \/ Return(i, "drain") /\ UNCHANGED <<dns, api>>
    /\ UNCHANGED <<shared, start, ctxDone, pool, bus, busy, errCh, calls, late>>

----------------------------------------------------------------------------
(* Service *)

\* A query that asks the database.
Query(i) ==
    /\ i \in Asked
    /\ dns[i] = "serving" /\ ~busy[i] /\ ~ctxDone[i]
    /\ busy' = Set(busy, i, TRUE)
    /\ UNCHANGED <<shared, pc, start, failed, ctxDone, pool, bus, dns, api, errCh, calls, late>>

QueryDone(i) ==
    /\ busy[i]
    /\ busy' = Set(busy, i, FALSE)
    /\ UNCHANGED <<shared, pc, start, failed, ctxDone, pool, bus, dns, api, errCh, calls, late>>

\* dnsServer.Serve returns once its workers have.
DNSEnds(i) ==
    /\ dns[i] = "serving" /\ ctxDone[i] /\ ~busy[i]
    /\ dns' = Set(dns, i, "ended")
    /\ UNCHANGED <<shared, pc, start, failed, ctxDone, pool, bus, busy, api, errCh, calls, late>>

\* httpSrv.Serve returns an error.
APIFails(i) ==
    /\ api[i] = "serving"
    /\ api' = Set(api, i, "failed")
    /\ UNCHANGED <<shared, pc, start, failed, ctxDone, pool, bus, dns, busy, errCh, calls, late>>

\* Mutant of SendError: the channel has no buffer.
SendErrorUnbuffered(i) ==
    /\ api[i] = "failed"
    /\ pc[i] = "select"
    /\ errCh' = Set(errCh, i, errCh[i] + 1)
    /\ api' = Set(api, i, "ended")
    /\ UNCHANGED <<shared, pc, start, failed, ctxDone, pool, bus, dns, busy, calls, late>>

SendError(i) ==
    /\ api[i] = "failed"
    /\ errCh[i] < errCap
    /\ errCh' = Set(errCh, i, errCh[i] + 1)
    /\ api' = Set(api, i, "ended")
    /\ UNCHANGED <<shared, pc, start, failed, ctxDone, pool, bus, dns, busy, calls, late>>

SetCall(i, c, l) == call' = [call EXCEPT ![i][c] = l]

\* Connections stay open until Shutdown, even when no more are accepted.
Begin(i, c) ==
    /\ i \in Asked
    /\ pc[i] \in {"select", "shutdown"}
    /\ call[i][c] = "idle"
    /\ SetCall(i, c, "begun")
    /\ UNCHANGED <<shared, pc, start, failed, ctxDone, pool, bus, serving, unheard, late>>

\* The transaction ends, and gives its connection back.
Commit(i, c) ==
    /\ call[i][c] = "begun"
    /\ \E l \in {"committed", "idle"} : SetCall(i, c, l)
    /\ UNCHANGED <<shared, pc, start, failed, ctxDone, pool, bus, serving, unheard, late>>

\* notify.  A connection that is being drained may refuse the event.
Notify(i, c) ==
    /\ call[i][c] = "committed"
    /\ SetCall(i, c, "idle")
    /\ \/ UNCHANGED unheard
       \/ bus[i] = "draining" /\ unheard' = Set(unheard, i, TRUE)
    /\ UNCHANGED <<shared, pc, start, failed, ctxDone, pool, bus, serving, late>>

----------------------------------------------------------------------------
(* Stop *)

Signal(i) ==
    /\ pc[i] \notin {"off", "exited"} /\ ~ctxDone[i]
    /\ ctxDone' = Set(ctxDone, i, TRUE)
    /\ UNCHANGED <<shared, pc, start, failed, pool, bus, serving, calls, late>>

Select(i) ==
    /\ pc[i] = "select"
    /\ \/ ctxDone[i] /\ UNCHANGED <<errCh, failed, ctxDone>>
       \/ /\ errCh[i] > 0
          /\ errCh' = Set(errCh, i, errCh[i] - 1)
          /\ failed' = Set(failed, i, TRUE)
          /\ ctxDone' = Set(ctxDone, i, TRUE)
    /\ Goto(i, "shutdown")
    /\ UNCHANGED <<shared, start, pool, bus, dns, busy, api, calls, late>>

\* httpSrv.Shutdown closes the listener, and Serve returns ErrServerClosed.
Shutdown(i) ==
    /\ pc[i] = "shutdown"
    /\ api' = Set(api, i, IF api[i] = "serving" THEN "ended" ELSE api[i])
    /\ Goto(i, "idle")
    /\ UNCHANGED <<shared, start, failed, ctxDone, pool, bus, dns, busy, errCh, calls, late>>

Idle(i) == \A c \in Calls : call[i][c] = "idle"

\* Mutant of AllIdle: the calls in hand are not waited for.
AllIdleClose(i) ==
    /\ pc[i] = "idle"
    /\ Goto(i, "wait")
    /\ UNCHANGED <<shared, start, failed, ctxDone, pool, bus, serving, calls, late>>

AllIdle(i) ==
    /\ pc[i] = "idle"
    /\ Idle(i)
    /\ Goto(i, "wait")
    /\ UNCHANGED <<shared, start, failed, ctxDone, pool, bus, serving, calls, late>>

\* Five seconds are over.
Timeout(i) ==
    /\ pc[i] = "idle"
    /\ ~Idle(i)
    /\ late' = Set(late, i, TRUE)
    /\ Goto(i, "wait")
    /\ UNCHANGED <<shared, start, failed, ctxDone, pool, bus, serving, calls>>

\* Mutant of Wait: only the API's goroutine is waited for.
WaitAPI(i) ==
    /\ pc[i] = "wait"
    /\ api[i] = "ended"
    /\ Goto(i, "drain")
    /\ UNCHANGED <<shared, start, failed, ctxDone, pool, bus, serving, calls, late>>

\* wg.Wait
Wait(i) ==
    /\ pc[i] = "wait"
    /\ api[i] = "ended" /\ dns[i] = "ended"
    /\ Goto(i, "drain")
    /\ UNCHANGED <<shared, start, failed, ctxDone, pool, bus, serving, calls, late>>

\* bus.Close, which does not wait for the drain to be over.
Drain(i) ==
    /\ pc[i] = "drain"
    /\ bus' = Set(bus, i, IF bus[i] = "up" THEN "draining" ELSE bus[i])
    /\ Goto(i, "close")
    /\ UNCHANGED <<shared, start, failed, ctxDone, pool, serving, calls, late>>

\* st.Close: no more connections are given out ...
ClosePool(i) ==
    /\ pc[i] = "close"
    /\ pool' = Set(pool, i, "closed")
    /\ Goto(i, "closing")
    /\ UNCHANGED <<shared, start, failed, ctxDone, bus, serving, calls, late>>

\* The process is gone, and what it had in memory.
Gone(i) ==
    /\ cfg' = Set(cfg, i, None) /\ attempt' = Set(attempt, i, 0)
    /\ failed' = Set(failed, i, FALSE) /\ ctxDone' = Set(ctxDone, i, FALSE)
    /\ pool' = Set(pool, i, "none") /\ bus' = Set(bus, i, "none")
    /\ dns' = Set(dns, i, "off") /\ busy' = Set(busy, i, FALSE)
    /\ api' = Set(api, i, "off") /\ errCh' = Set(errCh, i, 0)
    /\ call' = Set(call, i, [c \in Calls |-> "idle"])

\* ... and those given out are waited for.  With run the process ends.
Exit(i) ==
    /\ pc[i] = "closing"
    /\ ~busy[i] /\ \A c \in Calls : call[i][c] # "begun"
    /\ unheard' = Set(unheard, i, unheard[i] \/ ~Idle(i))
    /\ Gone(i)
    /\ Goto(i, "exited")
    /\ UNCHANGED <<shared, late>>

\* The process is killed and started anew; the database frees its lock.
Crash(i) ==
    /\ pc[i] \notin {"off", "exited"} /\ crashes < MaxCrashes
    /\ crashes' = crashes + 1
    /\ lock' = IF lock = i THEN None ELSE lock
    /\ Gone(i)
    /\ Goto(i, "off")
    /\ late' = Set(late, i, FALSE) /\ unheard' = Set(unheard, i, FALSE)
    /\ UNCHANGED tables

----------------------------------------------------------------------------

Init ==
    /\ tables \in BOOLEAN /\ lock = None /\ crashes = 0
    /\ pc = [i \in Instances |-> "off"]
    /\ cfg = [i \in Instances |-> None] /\ attempt = [i \in Instances |-> 0]
    /\ failed = [i \in Instances |-> FALSE] /\ ctxDone = [i \in Instances |-> FALSE]
    /\ pool = [i \in Instances |-> "none"] /\ bus = [i \in Instances |-> "none"]
    /\ dns = [i \in Instances |-> "off"] /\ busy = [i \in Instances |-> FALSE]
    /\ api = [i \in Instances |-> "off"] /\ errCh = [i \in Instances |-> 0]
    /\ call = [i \in Instances |-> [c \in Calls |-> "idle"]]
    /\ late = [i \in Instances |-> FALSE] /\ unheard = [i \in Instances |-> FALSE]

\* What run itself does; what ends the work it waits for.
Main(i) ==
    \/ Open(i) \/ Pause(i)
    \/ Lock(i) \/ Check(i) \/ Apply(i) \/ MigrateFails(i) \/ Unlock(i)
    \/ ConnectBus(i) \/ Listen(i) \/ Select(i)
    \/ Shutdown(i) \/ AllIdle(i) \/ Timeout(i) \/ Wait(i)
    \/ Drain(i) \/ ClosePool(i) \/ Exit(i)

Work(i) ==
    \/ QueryDone(i) \/ DNSEnds(i) \/ SendError(i)
    \/ \E c \in Calls : Commit(i, c) \/ Notify(i, c)

Next == \E i \in Instances :
    \/ \E env \in Environments : Configure(i, env)
    \/ Main(i) \/ Work(i)
    \/ LockFails(i) \/ Query(i) \/ APIFails(i) \/ \E c \in Calls : Begin(i, c)
    \/ Signal(i) \/ Crash(i)

\* The goroutines run, the clock does, and the database answers.
Fairness ==
    \A i \in Instances :
      /\ WF_vars(Main(i))
      /\ WF_vars(QueryDone(i)) /\ WF_vars(DNSEnds(i)) /\ WF_vars(SendError(i))
      /\ \A c \in Calls : WF_vars(Commit(i, c) \/ Notify(i, c))

Spec == Init /\ [][Next]_vars
FairSpec == Spec /\ Fairness

----------------------------------------------------------------------------
(* Properties *)

Places == {"off", "connect", "pause", "lock", "check", "apply", "unlock", "bus", "listen",
           "select", "shutdown", "idle", "wait", "drain", "close", "closing", "exited"}

Config == [nats : BOOLEAN, cache : BOOLEAN,
           workers : Nat \ {0}, conns : Nat \ {0}, entries : Nat \ {0}]

\* The type invariant.  A configuration that Load returns has at least one
\* worker, one connection and one cache entry.
TypeOK ==
    /\ tables \in BOOLEAN /\ lock \in Instances \cup {None} /\ crashes \in 0 .. MaxCrashes
    /\ pc \in [Instances -> Places]
    /\ cfg \in [Instances -> Config \cup {Fail, None}]
    /\ attempt \in [Instances -> 0 .. maxAttempts]
    /\ failed \in [Instances -> BOOLEAN] /\ ctxDone \in [Instances -> BOOLEAN]
    /\ pool \in [Instances -> {"none", "open", "closed"}]
    /\ bus \in [Instances -> {"none", "up", "draining"}]
    /\ dns \in [Instances -> {"off", "serving", "ended"}] /\ busy \in [Instances -> BOOLEAN]
    /\ api \in [Instances -> {"off", "serving", "failed", "ended"}]
    /\ errCh \in [Instances -> 0 .. errCap]
    /\ call \in [Instances -> [Calls -> {"idle", "begun", "committed"}]]
    /\ late \in [Instances -> BOOLEAN] /\ unheard \in [Instances -> BOOLEAN]

\* "under an advisory lock so several instances can start at once"
\* (README.md:196): no two look for the tables and make them at the same time,
\* whoever crashes or is told to stop on the way.
MigratesAlone ==
    \A i, j \in Instances :
      pc[i] \in {"check", "apply", "unlock"} /\ pc[j] \in {"check", "apply", "unlock"} => i = j

\* Neither server runs before the tables are there: an instance whose
\* migration failed or was interrupted never gets as far.
ServesMigrated ==
    \A i \in Instances : dns[i] # "off" \/ api[i] # "off" \/ bus[i] # "none" => tables

\* Tables first: made by one instance at a time, and served only then.
MigratesFirst == MigratesAlone /\ ServesMigrated

\* No query is answered from a pool that has been closed under it: run closes
\* it only when both servers have returned.
PoolOutlivesQueries == \A i \in Instances : busy[i] => pool[i] = "open"

\* A write that was committed is announced before the process goes, unless
\* Shutdown gave up on the call after its five seconds.
WritesAnnounced == \A i \in Instances : unheard[i] => late[i]

\* An instance that starts comes to serve or ends, whatever the database, the
\* other instances and their crashes do.
StartsOrEnds ==
    \A i \in Instances : pc[i] = "connect" ~> pc[i] \in {"select", "exited", "off"}

\* An instance told to stop, or whose API fails, exits: nothing in its
\* shutdown waits for something that waits for it.
StopEnds ==
    \A i \in Instances :
      pc[i] # "off" /\ (ctxDone[i] \/ api[i] = "failed") ~> pc[i] \in {"exited", "off"}
=============================================================================
