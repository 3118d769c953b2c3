------------------------------- MODULE Server -------------------------------
(***************************************************************************)
(* The goroutines of internal/dns/server.go: the UDP reader, the workers it  *)
(* feeds through the channel `jobs`, the TCP accept loop and one goroutine  *)
(* per connection, and Serve, which starts them and, when its context ends, *)
(* stops them in order.                                                    *)
(*                                                                         *)
(* A datagram is its sender: what matters is that the answer built from a   *)
(* buffer goes to the one who sent what the buffer held.                    *)
(***************************************************************************)
EXTENDS Integers, Sequences, FiniteSets

CONSTANTS
    Queries,      \* datagrams that may be sent to the server
    Conns,        \* TCP connections that may be opened to it
    workers,      \* the worker goroutines
    Buffers,      \* what s.pool.Get may return
    jobsCap,      \* capacity of s.jobs, workers*16 in the code
    maxTCPConns,  \* capacity of s.tcpSlots
    None

ASSUME ServerAssumption ==
    /\ jobsCap \in Nat /\ maxTCPConns \in Nat /\ workers # {}
    /\ None \notin Queries \cup Buffers

VARIABLES
    ctxDone,     \* the context has ended
    spc,         \* where Serve is
    udpOpen,     \* s.udpConn
    tcpOpen,     \* s.tcpListener
    query,       \* where each datagram is
    replies,     \* answers sent: whom to, and whose question it answers
    pool,        \* the free buffers of s.pool
    content,     \* the datagram last read into each buffer
    rpc, rbuf,   \* udpReadLoop, and its buffer bp
    jobs,        \* the channel: [buf, addr]
    jobsClosed,
    wpc, wjob,   \* the workers, and the job each has
    wreq,        \* the question each has parsed
    apc,         \* tcpAcceptLoop
    tcpSlots,    \* how many slots are taken
    cpc, cbuf,   \* the goroutine of each connection, and its buffer bp
    conn         \* each connection

serveVars == <<ctxDone, spc, udpOpen, tcpOpen>>
readerVars == <<rpc, rbuf>>
workerVars == <<wpc, wjob, wreq>>
tcpVars == <<apc, tcpSlots, cpc, cbuf, conn>>
vars == <<serveVars, query, replies, pool, content, readerVars, jobs, jobsClosed,
          workerVars, tcpVars>>

NoJob == [buf |-> None, addr |-> None]

----------------------------------------------------------------------------
(* UDP *)

Arrive(q) ==
    /\ query[q] = "new"
    /\ udpOpen
    /\ query' = [query EXCEPT ![q] = "socket"]
    /\ UNCHANGED <<serveVars, replies, pool, content, readerVars, jobs, jobsClosed,
                   workerVars, tcpVars>>

ReadGet(b) ==
    /\ rpc = "get"
    /\ b \in pool
    /\ pool' = pool \ {b}
    /\ rbuf' = b
    /\ rpc' = "read"
    /\ UNCHANGED <<serveVars, query, replies, content, jobs, jobsClosed, workerVars, tcpVars>>

\* ReadFromUDPAddrPort returns a datagram.
Read(q) ==
    /\ rpc = "read"
    /\ udpOpen
    /\ query[q] = "socket"
    /\ query' = [query EXCEPT ![q] = "read"]
    /\ content' = [content EXCEPT ![rbuf] = q]
    /\ rpc' = "send"
    /\ UNCHANGED <<serveVars, replies, pool, rbuf, jobs, jobsClosed, workerVars, tcpVars>>

\* It returns an error: the loop ends, or goes on after a pause.
ReadFails ==
    /\ rpc = "read"
    /\ pool' = pool \cup {rbuf}
    /\ rbuf' = None
    /\ rpc' = IF ~udpOpen \/ ctxDone THEN "done" ELSE "get"
    /\ UNCHANGED <<serveVars, query, replies, content, jobs, jobsClosed, workerVars, tcpVars>>

\* Mutant of ReadSend: the buffer is given back in either case.
ReadSendReleases ==
    LET q == content[rbuf]
        room == Len(jobs) < jobsCap
    IN  /\ rpc = "send"
        /\ jobs' = IF room THEN Append(jobs, [buf |-> rbuf, addr |-> q]) ELSE jobs
        /\ pool' = pool \cup {rbuf}
        /\ query' = [query EXCEPT ![q] = IF room THEN "queued" ELSE "dropped"]
        /\ rbuf' = None
        /\ rpc' = "get"
        /\ UNCHANGED <<serveVars, replies, content, jobsClosed, workerVars, tcpVars>>

\* The datagram goes to the workers, or is dropped if the channel is full.
ReadSend ==
    LET q == content[rbuf]
        room == Len(jobs) < jobsCap
    IN  /\ rpc = "send"
        /\ jobs' = IF room THEN Append(jobs, [buf |-> rbuf, addr |-> q]) ELSE jobs
        /\ pool' = IF room THEN pool ELSE pool \cup {rbuf}
        /\ query' = [query EXCEPT ![q] = IF room THEN "queued" ELSE "dropped"]
        /\ rbuf' = None
        /\ rpc' = "get"
        /\ UNCHANGED <<serveVars, replies, content, jobsClosed, workerVars, tcpVars>>

\* Mutant of Take: the buffer is given back at once, not when serveUDP returns.
TakeReleases(w) ==
    /\ wpc[w] = "range"
    /\ jobs # <<>>
    /\ wjob' = [wjob EXCEPT ![w] = Head(jobs)]
    /\ jobs' = Tail(jobs)
    /\ pool' = pool \cup {Head(jobs).buf}
    /\ wpc' = [wpc EXCEPT ![w] = "parse"]
    /\ UNCHANGED <<serveVars, query, replies, content, readerVars, jobsClosed, wreq, tcpVars>>

Take(w) ==
    /\ wpc[w] = "range"
    /\ jobs # <<>>
    /\ wjob' = [wjob EXCEPT ![w] = Head(jobs)]
    /\ jobs' = Tail(jobs)
    /\ wpc' = [wpc EXCEPT ![w] = "parse"]
    /\ UNCHANGED <<serveVars, query, replies, pool, content, readerVars, jobsClosed, wreq, tcpVars>>

\* The channel is closed and empty: the worker's loop is over.
WorkerEnds(w) ==
    /\ wpc[w] = "range"
    /\ jobsClosed /\ jobs = <<>>
    /\ wpc' = [wpc EXCEPT ![w] = "done"]
    /\ UNCHANGED <<serveVars, query, replies, pool, content, readerVars, jobs, jobsClosed,
                   wjob, wreq, tcpVars>>

\* serveUDP up to Handle: the question, or the header for a FORMERR, is copied
\* out of the buffer.
Parse(w) ==
    /\ wpc[w] = "parse"
    /\ wreq' = [wreq EXCEPT ![w] = content[wjob[w].buf]]
    /\ wpc' = [wpc EXCEPT ![w] = "handle"]
    /\ UNCHANGED <<serveVars, query, replies, pool, content, readerVars, jobs, jobsClosed,
                   wjob, tcpVars>>

\* serveUDP returns: its deferred Put gives the buffer back.
ServeReturns(w, fate) ==
    /\ pool' = pool \cup {wjob[w].buf}
    /\ query' = [query EXCEPT ![wjob[w].addr] = fate]
    /\ wjob' = [wjob EXCEPT ![w] = NoJob]
    /\ wreq' = [wreq EXCEPT ![w] = None]
    /\ wpc' = [wpc EXCEPT ![w] = "range"]
    /\ UNCHANGED <<serveVars, readerVars, jobs, jobsClosed, tcpVars>>

\* No answer: a response was received, or the answer does not pack.
Discard(w) ==
    /\ wpc[w] = "handle"
    /\ ServeReturns(w, "dropped")
    /\ UNCHANGED <<replies, content>>

\* Handle, PackUDP into the job's buffer, and the write, which fails once the
\* socket is closed.
Reply(w) ==
    /\ wpc[w] = "handle"
    /\ content' = [content EXCEPT ![wjob[w].buf] = None]
    /\ IF udpOpen
         THEN /\ replies' = replies \cup {[to |-> wjob[w].addr, answers |-> wreq[w]]}
              /\ ServeReturns(w, "answered")
         ELSE /\ ServeReturns(w, "unanswered")
              /\ UNCHANGED replies

----------------------------------------------------------------------------
(* TCP *)

Connect(c) ==
    /\ conn[c] = "new"
    /\ tcpOpen
    /\ conn' = [conn EXCEPT ![c] = "backlog"]
    /\ UNCHANGED <<serveVars, query, replies, pool, content, readerVars, jobs, jobsClosed,
                   workerVars, apc, tcpSlots, cpc, cbuf>>

\* A connection gets a slot and a goroutine, or is closed at once.
Accept(c) ==
    LET free == tcpSlots < maxTCPConns
    IN  /\ apc = "accept"
        /\ tcpOpen
        /\ conn[c] = "backlog"
        /\ conn' = [conn EXCEPT ![c] = IF free THEN "open" ELSE "closed"]
        /\ tcpSlots' = IF free THEN tcpSlots + 1 ELSE tcpSlots
        /\ cpc' = [cpc EXCEPT ![c] = IF free THEN "get" ELSE "none"]
        /\ UNCHANGED <<serveVars, query, replies, pool, content, readerVars, jobs, jobsClosed,
                       workerVars, apc, cbuf>>

AcceptFails ==
    /\ apc = "accept"
    /\ ~tcpOpen \/ ctxDone
    /\ apc' = "done"
    /\ UNCHANGED <<serveVars, query, replies, pool, content, readerVars, jobs, jobsClosed,
                   workerVars, tcpSlots, cpc, cbuf, conn>>

ConnGet(c, b) ==
    /\ cpc[c] = "get"
    /\ b \in pool
    /\ pool' = pool \ {b}
    /\ cbuf' = [cbuf EXCEPT ![c] = b]
    /\ cpc' = [cpc EXCEPT ![c] = "read"]
    /\ UNCHANGED <<serveVars, query, replies, content, readerVars, jobs, jobsClosed,
                   workerVars, apc, tcpSlots, conn>>

\* A whole message has been read; it goes to the handler.
ConnRead(c) ==
    /\ cpc[c] = "read"
    /\ conn[c] = "open"
    /\ cpc' = [cpc EXCEPT ![c] = "handle"]
    /\ UNCHANGED <<serveVars, query, replies, pool, content, readerVars, jobs, jobsClosed,
                   workerVars, apc, tcpSlots, cbuf, conn>>

\* The answer is packed into bp and written; the loop goes on.
ConnReply(c) ==
    /\ cpc[c] = "handle"
    /\ conn[c] = "open"
    /\ content' = [content EXCEPT ![cbuf[c]] = None]
    /\ cpc' = [cpc EXCEPT ![c] = "read"]
    /\ UNCHANGED <<serveVars, query, replies, pool, readerVars, jobs, jobsClosed,
                   workerVars, apc, tcpSlots, cbuf, conn>>

\* Mutant of ConnEnds: the slot is kept.
ConnEndsKeepsSlot(c) ==
    /\ cpc[c] \in {"read", "handle"}
    /\ pool' = pool \cup {cbuf[c]}
    /\ cbuf' = [cbuf EXCEPT ![c] = None]
    /\ conn' = [conn EXCEPT ![c] = "closed"]
    /\ cpc' = [cpc EXCEPT ![c] = "done"]
    /\ UNCHANGED <<serveVars, query, replies, content, readerVars, jobs, jobsClosed,
                   workerVars, apc, tcpSlots>>

\* tcpConnLoop returns: the client is gone or silent for tcpIdle, the message
\* or the answer is no good, or the connection is closed.  The deferred calls
\* give the buffer back, close the connection and free the slot.
ConnEnds(c) ==
    /\ cpc[c] \in {"read", "handle"}
    /\ pool' = pool \cup {cbuf[c]}
    /\ cbuf' = [cbuf EXCEPT ![c] = None]
    /\ conn' = [conn EXCEPT ![c] = "closed"]
    /\ tcpSlots' = tcpSlots - 1
    /\ cpc' = [cpc EXCEPT ![c] = "done"]
    /\ UNCHANGED <<serveVars, query, replies, content, readerVars, jobs, jobsClosed,
                   workerVars, apc>>

\* Mutant of CloseConn: no AfterFunc.
CloseConnNever(c) == FALSE /\ UNCHANGED vars

\* context.AfterFunc: the end of the context closes the connection.
CloseConn(c) ==
    /\ ctxDone
    /\ cpc[c] \in {"get", "read", "handle"}
    /\ conn[c] = "open"
    /\ conn' = [conn EXCEPT ![c] = "closed"]
    /\ UNCHANGED <<serveVars, query, replies, pool, content, readerVars, jobs, jobsClosed,
                   workerVars, apc, tcpSlots, cpc, cbuf>>

----------------------------------------------------------------------------
(* Serve *)

others == <<query, replies, pool, content, readerVars, jobs, workerVars, tcpVars>>

Cancel ==
    /\ ~ctxDone
    /\ ctxDone' = TRUE
    /\ UNCHANGED <<spc, udpOpen, tcpOpen, jobsClosed, others>>

CloseUDP ==
    /\ spc = "serve" /\ ctxDone
    /\ udpOpen' = FALSE
    /\ spc' = "closeTCP"
    /\ UNCHANGED <<ctxDone, tcpOpen, jobsClosed, others>>

CloseTCP ==
    /\ spc = "closeTCP"
    /\ tcpOpen' = FALSE
    /\ spc' = "waitReaders"
    /\ UNCHANGED <<ctxDone, udpOpen, jobsClosed, others>>

\* Mutant of CloseJobs: without readers.Wait().
CloseJobsEarly ==
    /\ spc = "waitReaders"
    /\ jobsClosed' = TRUE
    /\ spc' = "waitWorkers"
    /\ UNCHANGED <<ctxDone, udpOpen, tcpOpen, others>>

\* readers.Wait(), then close(s.jobs)
CloseJobs ==
    /\ spc = "waitReaders"
    /\ rpc = "done" /\ apc = "done"
    /\ jobsClosed' = TRUE
    /\ spc' = "waitWorkers"
    /\ UNCHANGED <<ctxDone, udpOpen, tcpOpen, others>>

WorkersDone ==
    /\ spc = "waitWorkers"
    /\ \A w \in workers : wpc[w] = "done"
    /\ spc' = "waitConns"
    /\ UNCHANGED <<ctxDone, udpOpen, tcpOpen, jobsClosed, others>>

\* Mutant of ConnsDone: without conns.Wait().
ConnsDoneEarly ==
    /\ spc = "waitConns"
    /\ spc' = "returned"
    /\ UNCHANGED <<ctxDone, udpOpen, tcpOpen, jobsClosed, others>>

\* conns.Wait()
ConnsDone ==
    /\ spc = "waitConns"
    /\ \A c \in Conns : cpc[c] \in {"none", "done"}
    /\ spc' = "returned"
    /\ UNCHANGED <<ctxDone, udpOpen, tcpOpen, jobsClosed, others>>

----------------------------------------------------------------------------
Init ==
    /\ ctxDone = FALSE /\ spc = "serve" /\ udpOpen = TRUE /\ tcpOpen = TRUE
    /\ query = [q \in Queries |-> "new"]
    /\ replies = {}
    /\ pool = Buffers /\ content = [b \in Buffers |-> None]
    /\ rpc = "get" /\ rbuf = None
    /\ jobs = <<>> /\ jobsClosed = FALSE
    /\ wpc = [w \in workers |-> "range"] /\ wjob = [w \in workers |-> NoJob]
    /\ wreq = [w \in workers |-> None]
    /\ apc = "accept" /\ tcpSlots = 0
    /\ cpc = [c \in Conns |-> "none"] /\ cbuf = [c \in Conns |-> None]
    /\ conn = [c \in Conns |-> "new"]

Worker(w) == Take(w) \/ Parse(w) \/ Reply(w) \/ Discard(w) \/ WorkerEnds(w)

Reader == ReadSend \/ (\E b \in Buffers : ReadGet(b)) \/ (\E q \in Queries : Read(q))

TCPConn(c) ==
    \/ \E b \in Buffers : ConnGet(c, b)
    \/ ConnRead(c) \/ ConnReply(c)

Serve == CloseUDP \/ CloseTCP \/ CloseJobs \/ WorkersDone \/ ConnsDone

Next ==
    \/ \E q \in Queries : Arrive(q)
    \/ Reader \/ ReadFails
    \/ \E w \in workers : Worker(w)
    \/ \E c \in Conns : \/ Connect(c) \/ Accept(c)
                        \/ TCPConn(c) \/ ConnEnds(c) \/ CloseConn(c)
    \/ AcceptFails
    \/ Cancel \/ Serve

Spec == Init /\ [][Next]_vars

(* Goroutines run: reads and accepts on a closed socket fail, handlers       *)
(* return (each has two seconds), and a closed connection ends its loop.     *)
(* Nothing forces a client to send anything, or the server to be stopped.    *)
FairSpec ==
    /\ Spec
    /\ WF_vars(Reader) /\ WF_vars(~udpOpen /\ ReadFails)
    /\ \A w \in workers : WF_vars(Worker(w))
    /\ WF_vars(AcceptFails)
    /\ \A c \in Conns : /\ WF_vars(\E b \in Buffers : ConnGet(c, b))
                        /\ WF_vars(ConnReply(c)) /\ WF_vars(CloseConn(c))
                        /\ WF_vars(conn[c] = "closed" /\ ConnEnds(c))
    /\ WF_vars(Serve)

----------------------------------------------------------------------------
(* Properties *)

Jobs == [buf : Buffers, addr : Queries]

(* Every variable keeps its type; the channel never holds more than its      *)
(* capacity and no slot is released that was not taken.                      *)
TypeOK ==
    /\ ctxDone \in BOOLEAN /\ udpOpen \in BOOLEAN /\ tcpOpen \in BOOLEAN
    /\ spc \in {"serve", "closeTCP", "waitReaders", "waitWorkers", "waitConns", "returned"}
    /\ query \in [Queries -> {"new", "socket", "read", "queued", "answered", "unanswered",
                              "dropped"}]
    /\ replies \subseteq [to : Queries, answers : Queries]
    /\ pool \subseteq Buffers
    /\ content \in [Buffers -> Queries \cup {None}]
    /\ rpc \in {"get", "read", "send", "done"} /\ rbuf \in Buffers \cup {None}
    /\ jobs \in Seq(Jobs) /\ Len(jobs) <= jobsCap
    /\ jobsClosed \in BOOLEAN
    /\ wpc \in [workers -> {"range", "parse", "handle", "done"}]
    /\ wjob \in [workers -> Jobs \cup {NoJob}]
    /\ wreq \in [workers -> Queries \cup {None}]
    /\ apc \in {"accept", "done"} /\ tcpSlots \in Nat
    /\ cpc \in [Conns -> {"none", "get", "read", "handle", "done"}]
    /\ cbuf \in [Conns -> Buffers \cup {None}]
    /\ conn \in [Conns -> {"new", "backlog", "open", "closed"}]

\* The places a buffer is in use at.
Holders(b) ==
    {<<"reader", r>> : r \in {rbuf} \cap {b}}
      \cup {<<"job", i>> : i \in {i \in 1 .. Len(jobs) : jobs[i].buf = b}}
      \cup {<<"worker", w>> : w \in {w \in workers : wjob[w].buf = b}}
      \cup {<<"conn", c>> : c \in {c \in Conns : cbuf[c] = b}}

(* A buffer is in the pool or in one place, never in two: no goroutine gives *)
(* back a buffer that another still reads or writes, none is given back      *)
(* twice, and none leaks.                                                   *)
BuffersExclusive ==
    \A b \in Buffers : Cardinality(Holders(b)) = IF b \in pool THEN 0 ELSE 1

(* Every answer goes to the one who asked, although the reader, the workers  *)
(* and the TCP connections share the buffers.                               *)
RepliesMatch == \A r \in replies : r.to = r.answers

(* A slot is held by each connection being served and by nothing else, and   *)
(* there are at most maxTCPConns of them (README: "bounded TCP               *)
(* connections").                                                           *)
SlotsBounded ==
    /\ tcpSlots = Cardinality({c \in Conns : cpc[c] \in {"get", "read", "handle"}})
    /\ tcpSlots <= maxTCPConns

(* The reader never sends on a closed channel: Serve closes it only when the *)
(* readers have returned.                                                   *)
ClosedAfterReaders == jobsClosed => rpc = "done"

(* When Serve has returned nothing of it is left: no goroutine that could    *)
(* still use the resolver, no buffer in use, no connection open.             *)
NothingLeft ==
    spc = "returned" =>
      /\ rpc = "done" /\ apc = "done" /\ jobs = <<>>
      /\ \A w \in workers : wpc[w] = "done"
      /\ \A c \in Conns : cpc[c] \in {"none", "done"} /\ conn[c] # "open"
      /\ pool = Buffers

(* Serve stops its goroutines in the order of who depends on whom: the       *)
(* channel is closed after those that send, and it returns after all.        *)
StopsInOrder == ClosedAfterReaders /\ NothingLeft

(* Serve returns once its context has ended, whatever clients do.            *)
ServeStops == ctxDone ~> spc = "returned"
=============================================================================
