---------------------------- MODULE DaemonProofs ----------------------------
(***************************************************************************)
(* Proofs about Daemon: for any number of instances, API calls and crashes, *)
(* instances migrate one at a time, serve only a migrated database, and     *)
(* stop in an order that leaves no query without its pool and no write      *)
(* unannounced.                                                            *)
(***************************************************************************)
EXTENDS Daemon, TLAPS

\* Who is in Migrate past its first statement holds the advisory lock.
Migrating ==
    \A i \in Instances : pc[i] \in {"check", "apply", "unlock"} => lock = i

\* Who left Migrate without an error, or is about to, has seen the tables.
Migrated ==
    \A i \in Instances :
      \/ pc[i] = "unlock" /\ ~failed[i]
      \/ pc[i] \in {"bus", "listen", "select", "shutdown", "idle", "wait", "drain"}
      => tables

\* The pool is open from Open to the deferred Close; the DNS server runs between
\* Listen and wg.Wait, and queries only in it.
Pooled ==
    \A i \in Instances :
      /\ pc[i] \in {"lock", "check", "apply", "unlock", "bus", "listen", "select",
                    "shutdown", "idle", "wait", "drain", "close"} => pool[i] = "open"
      /\ dns[i] = "serving" => pc[i] \in {"select", "shutdown", "idle", "wait"}
      /\ busy[i] => dns[i] = "serving"

\* Calls run only once the API is up; those that Shutdown leaves running are the
\* ones it gave up on; the bus is drained after that.
Called ==
    \A i \in Instances :
      /\ ~Idle(i) => pc[i] \in {"select", "shutdown", "idle", "wait", "drain", "close", "closing"}
      /\ ~Idle(i) /\ pc[i] \in {"wait", "drain", "close", "closing"} => late[i]
      /\ bus[i] = "draining" => pc[i] \in {"close", "closing"}

\* The inductive invariant.
IInv == TypeOK /\ Migrating /\ Migrated /\ ServesMigrated /\ Pooled /\ Called /\ WritesAnnounced

(* Load returns a configuration run can work with, or fails.                *)
LEMMA LoadType == \A env \in Environments : Load(env) \in Config \cup {Fail}
BY DaemonAssumption DEF Load, Config, PositiveOr, getenvInt

(* The program before it starts satisfies the invariant.                    *)
LEMMA InitIInv == Init => IInv
<1> SUFFICES ASSUME Init PROVE IInv
  OBVIOUS
<1>1. TypeOK
  BY DaemonAssumption DEF Init, TypeOK, Places
<1>2. Migrating /\ Migrated /\ ServesMigrated /\ Pooled
  BY DEF Init, Migrating, Migrated, ServesMigrated, Pooled
<1>3. Called /\ WritesAnnounced
  BY SMTT(60) DEF Init, Called, WritesAnnounced, Idle
<1> QED BY <1>1, <1>2, <1>3 DEF IInv

(* Every step of every instance keeps the invariant.                        *)
LEMMA NextIInv == IInv /\ [Next]_vars => IInv'
<1> SUFFICES ASSUME IInv, [Next]_vars PROVE IInv'
  OBVIOUS
<1> USE DaemonAssumption
<1> USE DEF IInv, Goto, Set, Return, shared, start, serving, calls
<1>1. ASSUME NEW i \in Instances, NEW env \in Environments, Configure(i, env) PROVE IInv'
  <2>0. /\ pc[i] = "off" /\ cfg' = [cfg EXCEPT ![i] = Load(env)]
        /\ attempt' = [attempt EXCEPT ![i] = 1]
        /\ UNCHANGED <<shared, ctxDone, pool, bus, serving, calls, late>>
    BY <1>1 DEF Configure
  <2>1. CASE Return(i, "exited")
    <3> USE <2>0, <2>1, LoadType
    <3>1. TypeOK'
      BY DEF TypeOK, Places
    <3>2. Migrating' /\ Migrated' /\ ServesMigrated' /\ Pooled'
      BY DEF TypeOK, Migrating, Migrated, ServesMigrated, Pooled
    <3>3. Called' /\ WritesAnnounced'
      BY DEF TypeOK, Called, WritesAnnounced, Idle
    <3> QED BY <3>1, <3>2, <3>3
  <2>2. CASE Goto(i, "connect") /\ UNCHANGED failed
    <3> USE <2>0, <2>2, LoadType
    <3>1. TypeOK'
      BY DEF TypeOK, Places
    <3>2. Migrating' /\ Migrated' /\ ServesMigrated' /\ Pooled'
      BY DEF TypeOK, Migrating, Migrated, ServesMigrated, Pooled
    <3>3. Called' /\ WritesAnnounced'
      BY DEF TypeOK, Called, WritesAnnounced, Idle
    <3> QED BY <3>1, <3>2, <3>3
  <2> QED BY <1>1, <2>1, <2>2 DEF Configure
<1>2. ASSUME NEW i \in Instances, Open(i) PROVE IInv'
  <2>0. /\ pc[i] = "connect"
        /\ UNCHANGED <<shared, cfg, failed, ctxDone, bus, serving, calls, late>>
    BY <1>2 DEF Open
  <2>1. CASE pool' = Set(pool, i, "open") /\ attempt' = Set(attempt, i, 0) /\ Goto(i, "lock")
    <3> USE <2>0, <2>1
    <3>1. TypeOK'
      BY DEF TypeOK, Places
    <3>2. Migrating' /\ Migrated' /\ ServesMigrated' /\ Pooled'
      BY DEF TypeOK, Migrating, Migrated, ServesMigrated, Pooled
    <3>3. Called' /\ WritesAnnounced'
      BY DEF TypeOK, Called, WritesAnnounced, Idle
    <3> QED BY <3>1, <3>2, <3>3
  <2>2. CASE Goto(i, "pause") /\ UNCHANGED <<pool, attempt>>
    <3> USE <2>0, <2>2
    <3>1. TypeOK'
      BY DEF TypeOK, Places
    <3>2. Migrating' /\ Migrated' /\ ServesMigrated' /\ Pooled'
      BY DEF TypeOK, Migrating, Migrated, ServesMigrated, Pooled
    <3>3. Called' /\ WritesAnnounced'
      BY DEF TypeOK, Called, WritesAnnounced, Idle
    <3> QED BY <3>1, <3>2, <3>3
  <2> QED BY <1>2, <2>1, <2>2 DEF Open
<1>3. ASSUME NEW i \in Instances, Pause(i) PROVE IInv'
  <2>0. /\ pc[i] = "pause"
        /\ UNCHANGED <<shared, cfg, ctxDone, pool, bus, serving, calls, late>>
    BY <1>3 DEF Pause
  <2>1. CASE /\ attempt[i] < maxAttempts /\ attempt' = Set(attempt, i, attempt[i] + 1)
            /\ Goto(i, "connect") /\ UNCHANGED failed
    <3> USE <2>0, <2>1
    <3>1. TypeOK'
      BY DEF TypeOK, Places
    <3>2. Migrating' /\ Migrated' /\ ServesMigrated' /\ Pooled'
      BY DEF TypeOK, Migrating, Migrated, ServesMigrated, Pooled
    <3>3. Called' /\ WritesAnnounced'
      BY DEF TypeOK, Called, WritesAnnounced, Idle
    <3> QED BY <3>1, <3>2, <3>3
  <2>2. CASE Return(i, "exited") /\ UNCHANGED attempt
    <3> USE <2>0, <2>2
    <3>1. TypeOK'
      BY DEF TypeOK, Places
    <3>2. Migrating' /\ Migrated' /\ ServesMigrated' /\ Pooled'
      BY DEF TypeOK, Migrating, Migrated, ServesMigrated, Pooled
    <3>3. Called' /\ WritesAnnounced'
      BY DEF TypeOK, Called, WritesAnnounced, Idle
    <3> QED BY <3>1, <3>2, <3>3
  <2> QED BY <1>3, <2>1, <2>2 DEF Pause
<1>4. ASSUME NEW i \in Instances, Lock(i) PROVE IInv'
  <2> USE <1>4 DEF Lock
  <2>1. TypeOK'
    BY DEF TypeOK, Places
  <2>2. Migrating' /\ Migrated' /\ ServesMigrated' /\ Pooled'
    BY DEF TypeOK, Migrating, Migrated, ServesMigrated, Pooled
  <2>3. Called' /\ WritesAnnounced'
    BY DEF TypeOK, Called, WritesAnnounced, Idle
  <2> QED BY <2>1, <2>2, <2>3
<1>5. ASSUME NEW i \in Instances, Check(i) PROVE IInv'
  <2> USE <1>5 DEF Check
  <2>1. TypeOK'
    BY DEF TypeOK, Places
  <2>2. Migrating' /\ Migrated' /\ ServesMigrated' /\ Pooled'
    BY DEF TypeOK, Migrating, Migrated, ServesMigrated, Pooled
  <2>3. Called' /\ WritesAnnounced'
    BY DEF TypeOK, Called, WritesAnnounced, Idle
  <2> QED BY <2>1, <2>2, <2>3
<1>6. ASSUME NEW i \in Instances, Apply(i) PROVE IInv'
  <2> USE <1>6 DEF Apply
  <2>1. TypeOK'
    BY DEF TypeOK, Places
  <2>2. Migrating' /\ Migrated' /\ ServesMigrated' /\ Pooled'
    BY DEF TypeOK, Migrating, Migrated, ServesMigrated, Pooled
  <2>3. Called' /\ WritesAnnounced'
    BY DEF TypeOK, Called, WritesAnnounced, Idle
  <2> QED BY <2>1, <2>2, <2>3
<1>7. ASSUME NEW i \in Instances, MigrateFails(i) PROVE IInv'
  <2> USE <1>7 DEF MigrateFails
  <2>1. TypeOK'
    BY ZenonT(60) DEF TypeOK, Places
  <2>2. Migrating' /\ Migrated' /\ ServesMigrated' /\ Pooled'
    BY DEF TypeOK, Migrating, Migrated, ServesMigrated, Pooled
  <2>3. Called' /\ WritesAnnounced'
    BY DEF TypeOK, Called, WritesAnnounced, Idle
  <2> QED BY <2>1, <2>2, <2>3
<1>8. ASSUME NEW i \in Instances, Unlock(i) PROVE IInv'
  <2> USE <1>8 DEF Unlock
  <2>1. TypeOK'
    BY DEF TypeOK, Places
  <2>2. Migrating' /\ Migrated' /\ ServesMigrated' /\ Pooled'
    BY DEF TypeOK, Migrating, Migrated, ServesMigrated, Pooled
  <2>3. Called' /\ WritesAnnounced'
    BY DEF TypeOK, Called, WritesAnnounced, Idle
  <2> QED BY <2>1, <2>2, <2>3
<1>9. ASSUME NEW i \in Instances, ConnectBus(i) PROVE IInv'
  <2>0. /\ pc[i] = "bus"
        /\ UNCHANGED <<shared, start, ctxDone, pool, serving, calls, late>>
    BY <1>9 DEF ConnectBus
  <2>1. CASE Goto(i, "listen") /\ UNCHANGED <<bus, failed>>
    <3> USE <2>0, <2>1
    <3>1. TypeOK'
      BY DEF TypeOK, Places
    <3>2. Migrating' /\ Migrated' /\ ServesMigrated' /\ Pooled'
      BY DEF TypeOK, Migrating, Migrated, ServesMigrated, Pooled
    <3>3. Called' /\ WritesAnnounced'
      BY DEF TypeOK, Called, WritesAnnounced, Idle
    <3> QED BY <3>1, <3>2, <3>3
  <2>2. CASE bus' = Set(bus, i, "up") /\ Goto(i, "listen") /\ UNCHANGED failed
    <3> USE <2>0, <2>2
    <3>1. TypeOK'
      BY DEF TypeOK, Places
    <3>2. Migrating' /\ Migrated' /\ ServesMigrated' /\ Pooled'
      BY DEF TypeOK, Migrating, Migrated, ServesMigrated, Pooled
    <3>3. Called' /\ WritesAnnounced'
      BY DEF TypeOK, Called, WritesAnnounced, Idle
    <3> QED BY <3>1, <3>2, <3>3
  <2>3. CASE Return(i, "close") /\ UNCHANGED bus
    <3> USE <2>0, <2>3
    <3>1. TypeOK'
      BY DEF TypeOK, Places
    <3>2. Migrating' /\ Migrated' /\ ServesMigrated' /\ Pooled'
      BY DEF TypeOK, Migrating, Migrated, ServesMigrated, Pooled
    <3>3. Called' /\ WritesAnnounced'
      BY DEF TypeOK, Called, WritesAnnounced, Idle
    <3> QED BY <3>1, <3>2, <3>3
  <2>4. CASE bus' = Set(bus, i, "up") /\ Return(i, "drain")
    <3> USE <2>0, <2>4
    <3>1. TypeOK'
      BY DEF TypeOK, Places
    <3>2. Migrating' /\ Migrated' /\ ServesMigrated' /\ Pooled'
      BY DEF TypeOK, Migrating, Migrated, ServesMigrated, Pooled
    <3>3. Called' /\ WritesAnnounced'
      BY DEF TypeOK, Called, WritesAnnounced, Idle
    <3> QED BY <3>1, <3>2, <3>3
  <2> QED BY <1>9, <2>1, <2>2, <2>3, <2>4 DEF ConnectBus
<1>10. ASSUME NEW i \in Instances, Listen(i) PROVE IInv'
  <2>0. /\ pc[i] = "listen"
        /\ UNCHANGED <<shared, start, ctxDone, pool, bus, busy, errCh, calls, late>>
    BY <1>10 DEF Listen
  <2>1. CASE /\ dns' = Set(dns, i, "serving") /\ api' = Set(api, i, "serving")
            /\ Goto(i, "select") /\ UNCHANGED failed
    <3> USE <2>0, <2>1
    <3>1. TypeOK'
      BY DEF TypeOK, Places
    <3>2. Migrating' /\ Migrated' /\ ServesMigrated' /\ Pooled'
      BY DEF TypeOK, Migrating, Migrated, ServesMigrated, Pooled
    <3>3. Called' /\ WritesAnnounced'
      BY DEF TypeOK, Called, WritesAnnounced, Idle
    <3> QED BY <3>1, <3>2, <3>3
  <2>2. CASE Return(i, "drain") /\ UNCHANGED <<dns, api>>
    <3> USE <2>0, <2>2
    <3>1. TypeOK'
      BY DEF TypeOK, Places
    <3>2. Migrating' /\ Migrated' /\ ServesMigrated' /\ Pooled'
      BY DEF TypeOK, Migrating, Migrated, ServesMigrated, Pooled
    <3>3. Called' /\ WritesAnnounced'
      BY DEF TypeOK, Called, WritesAnnounced, Idle
    <3> QED BY <3>1, <3>2, <3>3
  <2> QED BY <1>10, <2>1, <2>2 DEF Listen
<1>11. ASSUME NEW i \in Instances, Select(i) PROVE IInv'
  <2>0. /\ pc[i] = "select" /\ Goto(i, "shutdown")
        /\ UNCHANGED <<shared, start, pool, bus, dns, busy, api, calls, late>>
    BY <1>11 DEF Select
  <2>1. CASE UNCHANGED <<errCh, failed, ctxDone>>
    <3> USE <2>0, <2>1
    <3>1. TypeOK'
      BY DEF TypeOK, Places
    <3>2. Migrating' /\ Migrated' /\ ServesMigrated' /\ Pooled'
      BY DEF TypeOK, Migrating, Migrated, ServesMigrated, Pooled
    <3>3. Called' /\ WritesAnnounced'
      BY DEF TypeOK, Called, WritesAnnounced, Idle
    <3> QED BY <3>1, <3>2, <3>3
  <2>2. CASE /\ errCh[i] > 0 /\ errCh' = Set(errCh, i, errCh[i] - 1)
            /\ failed' = Set(failed, i, TRUE) /\ ctxDone' = Set(ctxDone, i, TRUE)
    <3> USE <2>0, <2>2
    <3>1. TypeOK'
      BY DEF TypeOK, Places
    <3>2. Migrating' /\ Migrated' /\ ServesMigrated' /\ Pooled'
      BY DEF TypeOK, Migrating, Migrated, ServesMigrated, Pooled
    <3>3. Called' /\ WritesAnnounced'
      BY DEF TypeOK, Called, WritesAnnounced, Idle
    <3> QED BY <3>1, <3>2, <3>3
  <2> QED BY <1>11, <2>1, <2>2 DEF Select
<1>12. ASSUME NEW i \in Instances, Shutdown(i) PROVE IInv'
  <2> USE <1>12 DEF Shutdown
  <2>1. TypeOK'
    BY DEF TypeOK, Places
  <2>2. Migrating' /\ Migrated' /\ ServesMigrated' /\ Pooled'
    BY DEF TypeOK, Migrating, Migrated, ServesMigrated, Pooled
  <2>3. Called' /\ WritesAnnounced'
    BY DEF TypeOK, Called, WritesAnnounced, Idle
  <2> QED BY <2>1, <2>2, <2>3
<1>13. ASSUME NEW i \in Instances, AllIdle(i) PROVE IInv'
  <2> USE <1>13 DEF AllIdle, Idle
  <2>1. TypeOK'
    BY DEF TypeOK, Places
  <2>2. Migrating' /\ Migrated' /\ ServesMigrated' /\ Pooled'
    BY DEF TypeOK, Migrating, Migrated, ServesMigrated, Pooled
  <2>3. Called' /\ WritesAnnounced'
    BY DEF TypeOK, Called, WritesAnnounced, Idle
  <2> QED BY <2>1, <2>2, <2>3
<1>14. ASSUME NEW i \in Instances, Timeout(i) PROVE IInv'
  <2> USE <1>14 DEF Timeout, Idle
  <2>1. TypeOK'
    BY DEF TypeOK, Places
  <2>2. Migrating' /\ Migrated' /\ ServesMigrated' /\ Pooled'
    BY DEF TypeOK, Migrating, Migrated, ServesMigrated, Pooled
  <2>3. Called' /\ WritesAnnounced'
    BY DEF TypeOK, Called, WritesAnnounced, Idle
  <2> QED BY <2>1, <2>2, <2>3
<1>15. ASSUME NEW i \in Instances, Wait(i) PROVE IInv'
  <2> USE <1>15 DEF Wait
  <2>1. TypeOK'
    BY DEF TypeOK, Places
  <2>2. Migrating' /\ Migrated' /\ ServesMigrated' /\ Pooled'
    BY DEF TypeOK, Migrating, Migrated, ServesMigrated, Pooled
  <2>3. Called' /\ WritesAnnounced'
    BY DEF TypeOK, Called, WritesAnnounced, Idle
  <2> QED BY <2>1, <2>2, <2>3
<1>16. ASSUME NEW i \in Instances, Drain(i) PROVE IInv'
  <2> USE <1>16 DEF Drain
  <2>1. TypeOK'
    BY DEF TypeOK, Places
  <2>2. Migrating' /\ Migrated' /\ ServesMigrated' /\ Pooled'
    BY DEF TypeOK, Migrating, Migrated, ServesMigrated, Pooled
  <2>3. Called' /\ WritesAnnounced'
    BY DEF TypeOK, Called, WritesAnnounced, Idle
  <2> QED BY <2>1, <2>2, <2>3
<1>17. ASSUME NEW i \in Instances, ClosePool(i) PROVE IInv'
  <2> USE <1>17 DEF ClosePool
  <2>1. TypeOK'
    BY DEF TypeOK, Places
  <2>2. Migrating' /\ Migrated' /\ ServesMigrated' /\ Pooled'
    BY DEF TypeOK, Migrating, Migrated, ServesMigrated, Pooled
  <2>3. Called' /\ WritesAnnounced'
    BY DEF TypeOK, Called, WritesAnnounced, Idle
  <2> QED BY <2>1, <2>2, <2>3
<1>18. ASSUME NEW i \in Instances, Exit(i) PROVE IInv'
  <2> USE <1>18 DEF Exit, Gone
  <2>1. TypeOK'
    BY SMTT(60) DEF TypeOK, Places
  <2>2. Migrating' /\ Migrated' /\ ServesMigrated' /\ Pooled'
    BY SMTT(60) DEF TypeOK, Migrating, Migrated, ServesMigrated, Pooled
  <2>3. Called' /\ WritesAnnounced'
    BY DEF TypeOK, Called, WritesAnnounced, Idle
  <2> QED BY <2>1, <2>2, <2>3, SMTT(60)
<1>19. ASSUME NEW i \in Instances, QueryDone(i) PROVE IInv'
  <2> USE <1>19 DEF QueryDone
  <2>1. TypeOK'
    BY DEF TypeOK, Places
  <2>2. Migrating' /\ Migrated' /\ ServesMigrated' /\ Pooled'
    BY DEF TypeOK, Migrating, Migrated, ServesMigrated, Pooled
  <2>3. Called' /\ WritesAnnounced'
    BY DEF TypeOK, Called, WritesAnnounced, Idle
  <2> QED BY <2>1, <2>2, <2>3
<1>20. ASSUME NEW i \in Instances, DNSEnds(i) PROVE IInv'
  <2> USE <1>20 DEF DNSEnds
  <2>1. TypeOK'
    BY DEF TypeOK, Places
  <2>2. Migrating' /\ Migrated' /\ ServesMigrated' /\ Pooled'
    BY DEF TypeOK, Migrating, Migrated, ServesMigrated, Pooled
  <2>3. Called' /\ WritesAnnounced'
    BY DEF TypeOK, Called, WritesAnnounced, Idle
  <2> QED BY <2>1, <2>2, <2>3
<1>21. ASSUME NEW i \in Instances, SendError(i) PROVE IInv'
  <2> USE <1>21 DEF SendError
  <2>1. TypeOK'
    BY DEF TypeOK, Places
  <2>2. Migrating' /\ Migrated' /\ ServesMigrated' /\ Pooled'
    BY DEF TypeOK, Migrating, Migrated, ServesMigrated, Pooled
  <2>3. Called' /\ WritesAnnounced'
    BY DEF TypeOK, Called, WritesAnnounced, Idle
  <2> QED BY <2>1, <2>2, <2>3
<1>22. ASSUME NEW i \in Instances, LockFails(i) PROVE IInv'
  <2> USE <1>22 DEF LockFails
  <2>1. TypeOK'
    BY DEF TypeOK, Places
  <2>2. Migrating' /\ Migrated' /\ ServesMigrated' /\ Pooled'
    BY DEF TypeOK, Migrating, Migrated, ServesMigrated, Pooled
  <2>3. Called' /\ WritesAnnounced'
    BY DEF TypeOK, Called, WritesAnnounced, Idle
  <2> QED BY <2>1, <2>2, <2>3
<1>23. ASSUME NEW i \in Instances, Query(i) PROVE IInv'
  <2> USE <1>23 DEF Query
  <2>1. TypeOK'
    BY DEF TypeOK, Places
  <2>2. Migrating' /\ Migrated' /\ ServesMigrated' /\ Pooled'
    BY DEF TypeOK, Migrating, Migrated, ServesMigrated, Pooled
  <2>3. Called' /\ WritesAnnounced'
    BY DEF TypeOK, Called, WritesAnnounced, Idle
  <2> QED BY <2>1, <2>2, <2>3
<1>24. ASSUME NEW i \in Instances, APIFails(i) PROVE IInv'
  <2> USE <1>24 DEF APIFails
  <2>1. TypeOK'
    BY DEF TypeOK, Places
  <2>2. Migrating' /\ Migrated' /\ ServesMigrated' /\ Pooled'
    BY DEF TypeOK, Migrating, Migrated, ServesMigrated, Pooled
  <2>3. Called' /\ WritesAnnounced'
    BY DEF TypeOK, Called, WritesAnnounced, Idle
  <2> QED BY <2>1, <2>2, <2>3
<1>25. ASSUME NEW i \in Instances, Signal(i) PROVE IInv'
  <2> USE <1>25 DEF Signal
  <2>1. TypeOK'
    BY DEF TypeOK, Places
  <2>2. Migrating' /\ Migrated' /\ ServesMigrated' /\ Pooled'
    BY DEF TypeOK, Migrating, Migrated, ServesMigrated, Pooled
  <2>3. Called' /\ WritesAnnounced'
    BY DEF TypeOK, Called, WritesAnnounced, Idle
  <2> QED BY <2>1, <2>2, <2>3
<1>26. ASSUME NEW i \in Instances, Crash(i) PROVE IInv'
  <2> USE <1>26 DEF Crash, Gone
  <2>1. TypeOK'
    BY SMTT(60) DEF TypeOK, Places
  <2>2. Migrating' /\ Migrated' /\ ServesMigrated' /\ Pooled'
    BY SMTT(60) DEF TypeOK, Migrating, Migrated, ServesMigrated, Pooled
  <2>3. Called' /\ WritesAnnounced'
    BY DEF TypeOK, Called, WritesAnnounced, Idle
  <2> QED BY <2>1, <2>2, <2>3, SMTT(60)
<1>27. ASSUME NEW i \in Instances, NEW c \in Calls, Commit(i, c) PROVE IInv'
  <2> USE <1>27 DEF Commit, SetCall
  <2>1. TypeOK'
    BY DEF TypeOK, Places
  <2>2. Migrating' /\ Migrated' /\ ServesMigrated' /\ Pooled'
    BY DEF TypeOK, Migrating, Migrated, ServesMigrated, Pooled
  <2>3. Called' /\ WritesAnnounced'
    BY DEF TypeOK, Called, WritesAnnounced, Idle
  <2> QED BY <2>1, <2>2, <2>3
<1>28. ASSUME NEW i \in Instances, NEW c \in Calls, Notify(i, c) PROVE IInv'
  <2>0. /\ call[i][c] = "committed" /\ call' = [call EXCEPT ![i][c] = "idle"]
        /\ UNCHANGED <<shared, pc, start, failed, ctxDone, pool, bus, serving, late>>
    BY <1>28 DEF Notify, SetCall
  <2>1. CASE UNCHANGED unheard
    <3> USE <2>0, <2>1
    <3>1. TypeOK'
      BY DEF TypeOK, Places
    <3>2. Migrating' /\ Migrated' /\ ServesMigrated' /\ Pooled'
      BY DEF TypeOK, Migrating, Migrated, ServesMigrated, Pooled
    <3>3. Called' /\ WritesAnnounced'
      BY DEF TypeOK, Called, WritesAnnounced, Idle
    <3> QED BY <3>1, <3>2, <3>3
  <2>2. CASE bus[i] = "draining" /\ unheard' = Set(unheard, i, TRUE)
    <3> USE <2>0, <2>2
    <3>1. TypeOK'
      BY DEF TypeOK, Places
    <3>2. Migrating' /\ Migrated' /\ ServesMigrated' /\ Pooled'
      BY DEF TypeOK, Migrating, Migrated, ServesMigrated, Pooled
    <3>3. Called' /\ WritesAnnounced'
      BY SMTT(60) DEF TypeOK, Called, WritesAnnounced, Idle
    <3> QED BY <3>1, <3>2, <3>3
  <2> QED BY <1>28, <2>1, <2>2 DEF Notify
<1>29. ASSUME NEW i \in Instances, NEW c \in Calls, Begin(i, c) PROVE IInv'
  <2> USE <1>29 DEF Begin, SetCall
  <2>1. TypeOK'
    BY DEF TypeOK, Places
  <2>2. Migrating' /\ Migrated' /\ ServesMigrated' /\ Pooled'
    BY DEF TypeOK, Migrating, Migrated, ServesMigrated, Pooled
  <2>3. Called' /\ WritesAnnounced'
    BY SMTT(60) DEF TypeOK, Called, WritesAnnounced, Idle
  <2> QED BY <2>1, <2>2, <2>3
<1>30. ASSUME UNCHANGED vars PROVE IInv'
  BY <1>30 DEF vars, TypeOK, Migrating, Migrated, ServesMigrated, Pooled, Called, WritesAnnounced, Idle
<1> QED
  BY <1>1, <1>2, <1>3, <1>4, <1>5, <1>6, <1>7, <1>8, <1>9, <1>10, <1>11, <1>12, <1>13, <1>14, <1>15, <1>16, <1>17, <1>18, <1>19, <1>20, <1>21, <1>22, <1>23, <1>24, <1>25, <1>26, <1>27, <1>28, <1>29, <1>30, ZenonT(60) DEF Next, Main, Work

(* In every behaviour of the daemon the invariant holds throughout.         *)
LEMMA DaemonIInv == Spec => []IInv
BY InitIInv, NextIInv, PTL DEF Spec

(* The types of TypeOK, for any environments Load may find: Load gives out  *)
(* no configuration without workers, connections or cache entries.          *)
THEOREM DaemonTypeOK == Spec => []TypeOK
<1>1. IInv => TypeOK
  BY DEF IInv
<1> QED BY <1>1, DaemonIInv, PTL

(* Migrate's advisory lock: however many instances start at once, one at a  *)
(* time looks for the tables and makes them, and none serves without them.  *)
THEOREM DaemonMigrates == Spec => []MigratesFirst
<1>1. IInv => MigratesFirst
  BY DEF IInv, Migrating, MigratesAlone, MigratesFirst
<1> QED BY <1>1, DaemonIInv, PTL

(* The order in which run stops: the pool is closed after the last query    *)
(* and the last call, so that none is left with a closed pool.              *)
THEOREM DaemonPool == Spec => []PoolOutlivesQueries
<1>1. IInv => PoolOutlivesQueries
  BY DEF IInv, Pooled, PoolOutlivesQueries
<1> QED BY <1>1, DaemonIInv, PTL

(* Only a write of a call that Shutdown gave up on can go unannounced:       *)
(* GracefulStop waits for the others.                                       *)
THEOREM DaemonAnnounces == Spec => []WritesAnnounced
<1>1. IInv => WritesAnnounced
  BY DEF IInv
<1> QED BY <1>1, DaemonIInv, PTL
============================================================================
