------------------------------ MODULE MCDaemon ------------------------------
EXTENDS Daemon

env(url, nats, ttl, entries, workers) ==
    [url |-> url, nats |-> nats, cache |-> nats, ttl |-> ttl, entries |-> entries,
     workers |-> workers, conns |-> workers]

MCEnvironments ==
    {env(TRUE, TRUE, 0, Unset, Unset), env(TRUE, FALSE, 0, 1, -1),
     env(TRUE, TRUE, Fail, 1, 1), env(FALSE, TRUE, 0, 1, 1), env(TRUE, TRUE, 0, 0, 1)}
=============================================================================
