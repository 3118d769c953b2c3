---------------------------- MODULE ServerProofs ----------------------------
(***************************************************************************)
(* Proofs about Server: for any number of datagrams, connections, workers   *)
(* and buffers, no buffer is in two hands, every answer goes to its asker,  *)
(* slots are counted right, and Serve stops its goroutines in an order that *)
(* leaves nothing behind.                                                  *)
(***************************************************************************)
EXTENDS Server, FiniteSetTheorems, TLAPS

\* The provers that every leaf is given to, in this order.
USE ZenonT(60), SMTT(60)

\* Who holds a buffer: the reader between Get and the send or Put, a worker
\* with a job, a connection between Get and its return.
Held ==
    /\ rpc \in {"read", "send"} <=> rbuf # None
    /\ \A w \in workers : wpc[w] \in {"parse", "handle"} <=> wjob[w].buf # None
    /\ \A w \in workers : wpc[w] \in {"parse", "handle"} => wjob[w] \in Jobs
    /\ \A c \in Conns : cpc[c] \in {"read", "handle"} <=> cbuf[c] # None

\* No buffer that is held is in the pool, or held elsewhere.
DistinctJobs ==
    /\ rbuf \notin pool
    /\ \A i \in 1 .. Len(jobs) : jobs[i].buf \notin pool \cup {rbuf}
    /\ \A i, j \in 1 .. Len(jobs) : jobs[i].buf = jobs[j].buf => i = j
DistinctWorkers ==
    \A w \in workers : wjob[w].buf # None =>
      /\ wjob[w].buf \notin pool \cup {rbuf}
      /\ \A i \in 1 .. Len(jobs) : jobs[i].buf # wjob[w].buf
      /\ \A v \in workers : wjob[v].buf = wjob[w].buf => v = w
DistinctConns ==
    \A c \in Conns : cbuf[c] # None =>
      /\ cbuf[c] \notin pool \cup {rbuf}
      /\ \A i \in 1 .. Len(jobs) : jobs[i].buf # cbuf[c]
      /\ \A w \in workers : wjob[w].buf # cbuf[c]
      /\ \A d \in Conns : cbuf[d] = cbuf[c] => d = c
Distinct == DistinctJobs /\ DistinctWorkers /\ DistinctConns

\* A buffer that is not in the pool is held.
NoLeak ==
    \A b \in Buffers \ pool :
      \/ rbuf = b
      \/ \E i \in 1 .. Len(jobs) : jobs[i].buf = b
      \/ \E w \in workers : wjob[w].buf = b
      \/ \E c \in Conns : cbuf[c] = b

\* A buffer on its way from the reader to a worker holds its sender's datagram.
Contents ==
    /\ rpc = "send" => content[rbuf] \in Queries
    /\ \A i \in 1 .. Len(jobs) : content[jobs[i].buf] = jobs[i].addr
    /\ \A w \in workers :
         /\ wpc[w] = "parse" => content[wjob[w].buf] = wjob[w].addr
         /\ wpc[w] = "handle" => wreq[w] = wjob[w].addr

\* The connections that have a goroutine.
Open == {c \in Conns : cpc[c] \in {"get", "read", "handle"}}

Slots ==
    /\ IsFiniteSet(Open)
    /\ tcpSlots = Cardinality(Open) /\ tcpSlots <= maxTCPConns
    /\ \A c \in Conns : conn[c] \in {"new", "backlog"} => cpc[c] = "none"
    /\ \A c \in Conns : conn[c] = "open" => c \in Open

\* How far Serve has come, and what has ended by then.
Order ==
    /\ jobsClosed <=> spc \in {"waitWorkers", "waitConns", "returned"}
    /\ jobsClosed => rpc = "done" /\ apc = "done"
    /\ \A w \in workers : wpc[w] = "done" => jobsClosed /\ jobs = <<>>
    /\ spc \in {"waitConns", "returned"} => \A w \in workers : wpc[w] = "done"
    /\ spc = "returned" => \A c \in Conns : cpc[c] \in {"none", "done"}

\* The inductive invariant.
IInv == TypeOK /\ Held /\ Distinct /\ NoLeak /\ Contents /\ RepliesMatch /\ Slots /\ Order

(* What the types say of the buffers that are held.                         *)
LEMMA BufferTypes ==
  ASSUME TypeOK
  PROVE  /\ pool \subseteq Buffers /\ rbuf \in Buffers \cup {None} /\ None \notin Buffers
         /\ Len(jobs) \in Nat
         /\ \A i \in 1 .. Len(jobs) : /\ jobs[i] \in Jobs /\ jobs[i].buf \in Buffers
                                      /\ jobs[i].addr \in Queries
         /\ wjob \in [workers -> Jobs \cup {NoJob}]
         /\ \A w \in workers : wjob[w].buf \in Buffers \cup {None}
         /\ \A w \in workers : wjob[w] \in Jobs => wjob[w].addr \in Queries
         /\ cbuf \in [Conns -> Buffers \cup {None}]
<1>1. /\ pool \subseteq Buffers /\ rbuf \in Buffers \cup {None} /\ None \notin Buffers
      /\ Len(jobs) \in Nat
      /\ wjob \in [workers -> Jobs \cup {NoJob}]
      /\ cbuf \in [Conns -> Buffers \cup {None}]
  BY ServerAssumption, SMTT(60) DEF TypeOK
<1>2. \A i \in 1 .. Len(jobs) : jobs[i] \in Jobs
  BY SMTT(60) DEF TypeOK
<1>3. \A j \in Jobs : j.buf \in Buffers /\ j.addr \in Queries
  BY DEF Jobs
<1>4. NoJob.buf = None
  BY DEF NoJob
<1> QED BY <1>1, <1>2, <1>3, <1>4

(* A step that changes nobody's buffer or place keeps who holds what.        *)
LEMMA HeldKept ==
  ASSUME Held, UNCHANGED <<rpc, rbuf, wpc, wjob, cpc, cbuf>> PROVE Held'
BY DEF Held

(* A step that moves no buffer leaves them apart, and none leaks.           *)
LEMMA BuffersKept ==
  ASSUME Distinct, NoLeak, UNCHANGED <<pool, rbuf, jobs, wjob, cbuf>> PROVE Distinct' /\ NoLeak'
BY DEF Distinct, DistinctJobs, DistinctWorkers, DistinctConns, NoLeak

(* A step that neither moves nor writes a buffer leaves the contents right. *)
LEMMA ContentsKept ==
  ASSUME Contents, UNCHANGED <<rpc, rbuf, content, jobs, wpc, wjob, wreq>> PROVE Contents'
BY DEF Contents

(* A step that opens and ends no connection leaves the slots right.         *)
LEMMA SlotsKept ==
  ASSUME Slots, UNCHANGED <<tcpSlots, cpc, conn>> PROVE Slots'
<1>1. Open' = Open
  BY DEF Open
<1> QED BY <1>1 DEF Slots

(* A step that ends no goroutine leaves the order of the stop.              *)
LEMMA OrderKept ==
  ASSUME Order, UNCHANGED <<spc, jobsClosed, jobs, rpc, apc, wpc, cpc>> PROVE Order'
BY DEF Order

(* A step that answers nobody leaves the answers right.                     *)
LEMMA RepliesKept == ASSUME RepliesMatch, UNCHANGED replies PROVE RepliesMatch'
BY DEF RepliesMatch

(* Nothing runs yet and all buffers are free.                               *)
LEMMA InitIInv == Init => IInv
<1> SUFFICES ASSUME Init PROVE IInv
  OBVIOUS
<1> USE ServerAssumption DEF Init
<1>1. TypeOK
  <2>1. jobs \in Seq(Jobs) /\ Len(jobs) <= jobsCap
    BY SMTT(60)
  <2>2. wjob \in [workers -> Jobs \cup {NoJob}]
    OBVIOUS
  <2> QED BY <2>1, <2>2 DEF TypeOK
<1>2. Held /\ Distinct /\ NoLeak /\ Contents /\ RepliesMatch /\ Order
  BY DEF Held, Distinct, DistinctJobs, DistinctWorkers, DistinctConns, NoLeak, Contents, RepliesMatch, Order, NoJob
<1>3. Open = {}
  BY DEF Open
<1>4. Slots
  BY <1>3, FS_EmptySet, SMTT(60) DEF Slots
<1> QED BY <1>1, <1>2, <1>4 DEF IInv

----------------------------------------------------------------------------
(* The invariant, action by action *)

(* A datagram comes in.                                                     *)
LEMMA ArriveKeeps == ASSUME IInv, NEW q \in Queries, Arrive(q) PROVE IInv'
<1>1. /\ UNCHANGED <<ctxDone, spc, udpOpen, tcpOpen, replies, pool, content, rpc, rbuf, jobs,
                     jobsClosed, wpc, wjob, wreq, apc, tcpSlots, cpc, cbuf, conn>>
      /\ query' = [query EXCEPT ![q] = "socket"]
  BY DEF Arrive, serveVars, readerVars, workerVars, tcpVars
<1>2. TypeOK'
  BY <1>1, SMTT(60) DEF IInv, TypeOK
<1> QED BY <1>1, <1>2, HeldKept, BuffersKept, ContentsKept, SlotsKept, OrderKept, RepliesKept DEF IInv

(* The reader takes a buffer from the pool.                                 *)
LEMMA ReadGetKeeps == ASSUME IInv, NEW b \in Buffers, ReadGet(b) PROVE IInv'
<1>1. /\ UNCHANGED <<ctxDone, spc, udpOpen, tcpOpen, query, replies, content, jobs,
                     jobsClosed, wpc, wjob, wreq, apc, tcpSlots, cpc, cbuf, conn>>
      /\ rpc = "get" /\ b \in pool /\ pool' = pool \ {b} /\ rbuf' = b /\ rpc' = "read"
  BY DEF ReadGet, serveVars, readerVars, workerVars, tcpVars
<1>2. rbuf = None /\ b # None
  BY <1>1, ServerAssumption DEF IInv, Held
<1>3. TypeOK'
  BY <1>1 DEF IInv, TypeOK
<1>4. Held'
  BY <1>1, <1>2 DEF IInv, Held
<1>5. Distinct'
  <2>1. DistinctJobs'
    BY <1>1 DEF IInv, Distinct, DistinctJobs
  <2>2. DistinctWorkers'
    BY <1>1 DEF IInv, Distinct, DistinctWorkers
  <2>3. DistinctConns'
    BY <1>1 DEF IInv, Distinct, DistinctConns
  <2> QED BY <2>1, <2>2, <2>3 DEF Distinct
<1>6. NoLeak'
  BY <1>1, <1>2, ServerAssumption DEF IInv, NoLeak
<1>7. Contents'
  BY <1>1 DEF IInv, Contents
<1>8. Order'
  BY <1>1 DEF IInv, Order
<1> QED BY <1>1, <1>3, <1>4, <1>5, <1>6, <1>7, <1>8, SlotsKept, RepliesKept DEF IInv

(* The reader reads a datagram into its buffer, which nobody else has.       *)
LEMMA ReadKeeps == ASSUME IInv, NEW q \in Queries, Read(q) PROVE IInv'
<1>1. /\ UNCHANGED <<ctxDone, spc, udpOpen, tcpOpen, replies, pool, rbuf, jobs,
                     jobsClosed, wpc, wjob, wreq, apc, tcpSlots, cpc, cbuf, conn>>
      /\ rpc = "read" /\ rpc' = "send"
      /\ query' = [query EXCEPT ![q] = "read"] /\ content' = [content EXCEPT ![rbuf] = q]
  BY DEF Read, serveVars, readerVars, workerVars, tcpVars
<1>2. rbuf \in Buffers
  BY <1>1, BufferTypes DEF IInv, Held
<1>3. TypeOK'
  BY <1>1, <1>2 DEF IInv, TypeOK
<1>4. Held'
  BY <1>1 DEF IInv, Held
<1>5. content'[rbuf] = q /\ \A b \in Buffers : b # rbuf => content'[b] = content[b]
  BY <1>1, <1>2 DEF IInv, TypeOK
<1>6. Contents'
  <2>1. \A i \in 1 .. Len(jobs) : jobs[i].buf \in Buffers /\ jobs[i].buf # rbuf
    BY BufferTypes DEF IInv, Distinct, DistinctJobs
  <2>2. \A w \in workers : wpc[w] = "parse" => wjob[w].buf \in Buffers /\ wjob[w].buf # rbuf
    BY BufferTypes DEF IInv, Held, Distinct, DistinctWorkers
  <2> QED BY <1>1, <1>5, <2>1, <2>2 DEF IInv, Contents
<1>7. Order'
  BY <1>1 DEF IInv, Order
<1> QED BY <1>1, <1>3, <1>4, <1>6, <1>7, BuffersKept, SlotsKept, RepliesKept DEF IInv

(* The reader gives its buffer back: nothing was read, or nobody takes it.    *)
LEMMA ReaderPuts ==
  ASSUME IInv, rpc \in {"read", "send"}, rpc' \in {"get", "done"},
         pool' = pool \cup {rbuf}, rbuf' = None, TypeOK', Order',
         UNCHANGED <<replies, content, jobs, wpc, wjob, wreq, tcpSlots, cpc, cbuf, conn>>
  PROVE  IInv'
<1>1. rbuf \in Buffers /\ rbuf # None
  BY BufferTypes DEF IInv, Held
<1>2. Held'
  BY DEF IInv, Held
<1>3. Distinct'
  <2>1. DistinctJobs'
    BY <1>1, BufferTypes DEF IInv, Distinct, DistinctJobs
  <2>2. DistinctWorkers'
    BY <1>1 DEF IInv, Distinct, DistinctWorkers
  <2>3. DistinctConns'
    BY <1>1 DEF IInv, Distinct, DistinctConns
  <2> QED BY <2>1, <2>2, <2>3 DEF Distinct
<1>4. NoLeak'
  BY DEF IInv, NoLeak
<1>5. Contents'
  BY DEF IInv, Contents
<1> QED BY <1>2, <1>3, <1>4, <1>5, SlotsKept, RepliesKept DEF IInv

(* The read fails: the loop ends, or goes on.                                *)
LEMMA ReadFailsKeeps == ASSUME IInv, ReadFails PROVE IInv'
<1>1. /\ UNCHANGED <<ctxDone, spc, udpOpen, tcpOpen, query, replies, content, jobs,
                     jobsClosed, wpc, wjob, wreq, apc, tcpSlots, cpc, cbuf, conn>>
      /\ rpc = "read" /\ pool' = pool \cup {rbuf} /\ rbuf' = None /\ rpc' \in {"get", "done"}
  BY DEF ReadFails, serveVars, readerVars, workerVars, tcpVars
<1>2. rbuf \in Buffers
  BY <1>1, BufferTypes DEF IInv, Held
<1>3. TypeOK'
  BY <1>1, <1>2 DEF IInv, TypeOK
<1>4. Order'
  BY <1>1 DEF IInv, Order
<1> QED BY <1>1, <1>3, <1>4, ReaderPuts

(* The channel has room: the buffer goes into it, with its sender.            *)
LEMMA QueueKeeps ==
  ASSUME IInv, rpc = "send", Len(jobs) < jobsCap,
         jobs' = Append(jobs, [buf |-> rbuf, addr |-> content[rbuf]]),
         query' = [query EXCEPT ![content[rbuf]] = "queued"], rbuf' = None, rpc' = "get",
         UNCHANGED <<ctxDone, spc, udpOpen, tcpOpen, replies, pool, content, jobsClosed,
                     wpc, wjob, wreq, apc, tcpSlots, cpc, cbuf, conn>>
  PROVE  IInv'
<1> DEFINE q == content[rbuf]
           n == Len(jobs)
           job == [buf |-> rbuf, addr |-> q]
<1>1. /\ rbuf \in Buffers /\ rbuf # None /\ None \notin Buffers /\ pool \subseteq Buffers
      /\ q \in Queries /\ job \in Jobs /\ job.buf = rbuf /\ job.addr = q
  BY BufferTypes DEF IInv, Held, Contents, Jobs
<1>2. jobs \in Seq(Jobs) /\ n \in Nat
  BY SMTT(60) DEF IInv, TypeOK
<1>3. jobs' = Append(jobs, job)
  OBVIOUS
<1>q. query' = [query EXCEPT ![q] = "queued"]
  OBVIOUS
<1> HIDE DEF q, job
<1>4. /\ Len(jobs') = n + 1 /\ jobs' \in Seq(Jobs) /\ jobs'[n + 1] = job
      /\ \A i \in 1 .. n : jobs'[i] = jobs[i]
  BY <1>1, <1>2, <1>3
<1> HIDE DEF n
<1>5. \A i \in 1 .. Len(jobs') : \/ i \in 1 .. n /\ jobs'[i] = jobs[i]
                                 \/ i = n + 1 /\ jobs'[i] = job
  BY <1>2, <1>4, SMTT(60)
<1>6. TypeOK'
  <2>1. Len(jobs') <= jobsCap
    BY <1>2, <1>4, ServerAssumption DEF n
  <2>2. query' \in [Queries -> {"new", "socket", "read", "queued", "answered", "unanswered",
                                "dropped"}]
    BY <1>1, <1>q DEF IInv, TypeOK
  <2> QED BY <1>1, <1>4, <2>1, <2>2 DEF IInv, TypeOK
<1>7. Held'
  BY DEF IInv, Held
<1>8. Distinct'
  <2>1. DistinctJobs'
    <3>1. /\ rbuf \notin pool
          /\ \A i \in 1 .. n : jobs[i].buf \notin pool /\ jobs[i].buf # rbuf /\ jobs[i].buf # None
          /\ \A i, j \in 1 .. n : jobs[i].buf = jobs[j].buf => i = j
      BY <1>1, BufferTypes DEF IInv, Distinct, DistinctJobs, n
    <3>2. \A i \in 1 .. Len(jobs') : jobs'[i].buf \notin pool \cup {None}
      BY <1>1, <1>5, <3>1
    <3>3. \A i, j \in 1 .. Len(jobs') : jobs'[i].buf = jobs'[j].buf => i = j
      BY <1>1, <1>5, <3>1, SMTT(60)
    <3> QED BY <1>1, <3>2, <3>3 DEF DistinctJobs
  <2>2. DistinctWorkers'
    <3> SUFFICES ASSUME NEW w \in workers, wjob[w].buf # None
                 PROVE  /\ wjob[w].buf \notin pool
                        /\ \A i \in 1 .. Len(jobs') : jobs'[i].buf # wjob[w].buf
                        /\ \A v \in workers : wjob[v].buf = wjob[w].buf => v = w
      BY DEF DistinctWorkers
    <3>1. /\ wjob[w].buf \notin pool /\ wjob[w].buf # rbuf
          /\ \A i \in 1 .. n : jobs[i].buf # wjob[w].buf
          /\ \A v \in workers : wjob[v].buf = wjob[w].buf => v = w
      BY DEF IInv, Distinct, DistinctWorkers, n
    <3> QED BY <1>1, <1>5, <3>1
  <2>3. DistinctConns'
    <3> SUFFICES ASSUME NEW c \in Conns, cbuf[c] # None
                 PROVE  /\ cbuf[c] \notin pool
                        /\ \A i \in 1 .. Len(jobs') : jobs'[i].buf # cbuf[c]
                        /\ \A w \in workers : wjob[w].buf # cbuf[c]
                        /\ \A d \in Conns : cbuf[d] = cbuf[c] => d = c
      BY DEF DistinctConns
    <3>1. /\ cbuf[c] \notin pool /\ cbuf[c] # rbuf
          /\ \A i \in 1 .. n : jobs[i].buf # cbuf[c]
          /\ \A w \in workers : wjob[w].buf # cbuf[c]
          /\ \A d \in Conns : cbuf[d] = cbuf[c] => d = c
      BY DEF IInv, Distinct, DistinctConns, n
    <3> QED BY <1>1, <1>5, <3>1
  <2> QED BY <2>1, <2>2, <2>3 DEF Distinct
<1>9. NoLeak'
  <2> SUFFICES ASSUME NEW b \in Buffers \ pool
               PROVE  \/ \E i \in 1 .. Len(jobs') : jobs'[i].buf = b
                      \/ \E w \in workers : wjob[w].buf = b
                      \/ \E c \in Conns : cbuf[c] = b
    BY DEF NoLeak
  <2>1. CASE rbuf = b
    <3>1. n + 1 \in 1 .. Len(jobs') /\ jobs'[n + 1].buf = b
      BY <1>1, <1>2, <1>4, <2>1, SMTT(60) DEF n
    <3> QED BY <3>1
  <2>2. ASSUME NEW i \in 1 .. n, jobs[i].buf = b
        PROVE  \E j \in 1 .. Len(jobs') : jobs'[j].buf = b
    <3>1. i \in 1 .. Len(jobs') /\ jobs'[i].buf = b
      BY <1>2, <1>4, <2>2, SMTT(60) DEF n
    <3> QED BY <3>1
  <2> QED BY <2>1, <2>2 DEF IInv, NoLeak, n
<1>10. Contents'
  <2>1. \A i \in 1 .. Len(jobs') : content[jobs'[i].buf] = jobs'[i].addr
    BY <1>1, <1>5, SMTT(60) DEF IInv, Contents, q, n
  <2> QED BY <2>1 DEF IInv, Contents
<1>11. Order'
  BY DEF IInv, Order
<1> QED BY <1>6, <1>7, <1>8, <1>9, <1>10, <1>11, SlotsKept, RepliesKept DEF IInv

(* The datagram is queued, or dropped if the channel is full.                 *)
LEMMA ReadSendKeeps == ASSUME IInv, ReadSend PROVE IInv'
<1>1. /\ UNCHANGED <<ctxDone, spc, udpOpen, tcpOpen, replies, content, jobsClosed,
                     wpc, wjob, wreq, apc, tcpSlots, cpc, cbuf, conn>>
      /\ rpc = "send" /\ rbuf' = None /\ rpc' = "get"
  BY DEF ReadSend, serveVars, readerVars, workerVars, tcpVars
<1>2. CASE Len(jobs) < jobsCap
  <2>1. /\ jobs' = Append(jobs, [buf |-> rbuf, addr |-> content[rbuf]]) /\ pool' = pool
        /\ query' = [query EXCEPT ![content[rbuf]] = "queued"]
    BY <1>2 DEF ReadSend
  <2> QED BY <1>1, <1>2, <2>1, QueueKeeps
<1>3. CASE ~(Len(jobs) < jobsCap)
  <2>1. /\ jobs' = jobs /\ pool' = pool \cup {rbuf}
        /\ query' = [query EXCEPT ![content[rbuf]] = "dropped"]
    BY <1>3 DEF ReadSend
  <2>2. rbuf \in Buffers /\ content[rbuf] \in Queries
    BY <1>1, BufferTypes DEF IInv, Held, Contents
  <2>3. TypeOK'
    BY <1>1, <2>1, <2>2 DEF IInv, TypeOK
  <2>4. Order'
    BY <1>1, <2>1 DEF IInv, Order
  <2> QED BY <1>1, <2>1, <2>3, <2>4, ReaderPuts
<1> QED BY <1>2, <1>3

(* A worker takes the first job of the channel, with its buffer.              *)
LEMMA TakeKeeps == ASSUME IInv, NEW w \in workers, Take(w) PROVE IInv'
<1>1. /\ UNCHANGED <<ctxDone, spc, udpOpen, tcpOpen, query, replies, pool, content, rpc, rbuf,
                     jobsClosed, wreq, apc, tcpSlots, cpc, cbuf, conn>>
      /\ wpc[w] = "range" /\ wpc' = [wpc EXCEPT ![w] = "parse"]
      /\ jobs # <<>> /\ jobs' = Tail(jobs) /\ wjob' = [wjob EXCEPT ![w] = Head(jobs)]
  BY DEF Take, serveVars, readerVars, workerVars, tcpVars
<1> DEFINE n == Len(jobs)
           job == jobs[1]
<1>2. jobs \in Seq(Jobs) /\ n \in Nat /\ n >= 1 /\ Head(jobs) = job /\ n <= jobsCap
  BY <1>1, SMTT(60) DEF IInv, TypeOK
<1>3. /\ Len(jobs') = n - 1 /\ jobs' \in Seq(Jobs)
      /\ \A i \in 1 .. n - 1 : jobs'[i] = jobs[i + 1]
  BY <1>1, <1>2, SMTT(60)
<1>4. job \in Jobs /\ job.buf \in Buffers /\ job.buf # None
  BY <1>2, BufferTypes, SMTT(60) DEF IInv
<1> HIDE DEF n, job
<1>5. \A i \in 1 .. Len(jobs') : i + 1 \in 1 .. n /\ i + 1 # 1 /\ jobs'[i] = jobs[i + 1]
  BY <1>2, <1>3
<1>6. /\ wpc'[w] = "parse" /\ wjob'[w] = job
      /\ \A v \in workers : v # w => wpc'[v] = wpc[v] /\ wjob'[v] = wjob[v]
  BY <1>1, <1>2 DEF IInv, TypeOK
<1>7. TypeOK'
  <2>1. Len(jobs') <= jobsCap
    BY <1>2, <1>3, ServerAssumption, SMTT(60)
  <2>2. /\ wjob' \in [workers -> Jobs \cup {NoJob}]
        /\ wpc' \in [workers -> {"range", "parse", "handle", "done"}]
    BY <1>1, <1>2, <1>4 DEF IInv, TypeOK
  <2> QED BY <1>1, <1>3, <2>1, <2>2, SMTT(60) DEF IInv, TypeOK
<1>8. Held'
  BY <1>1, <1>4, <1>6 DEF IInv, Held
<1>9. Distinct'
  <2>0. /\ rbuf \notin pool
        /\ \A i \in 1 .. n : jobs[i].buf \notin pool \cup {rbuf}
        /\ \A i, j \in 1 .. n : jobs[i].buf = jobs[j].buf => i = j
        /\ 1 \in 1 .. n
    BY <1>2, SMTT(60) DEF IInv, Distinct, DistinctJobs, n
  <2>1. DistinctJobs'
    <3>1. \A i \in 1 .. Len(jobs') : jobs'[i].buf \notin pool \cup {rbuf}
      BY <1>5, <2>0
    <3>2. ASSUME NEW i \in 1 .. Len(jobs'), NEW j \in 1 .. Len(jobs'), jobs'[i].buf = jobs'[j].buf
          PROVE  i = j
      <4>1. i + 1 = j + 1
        BY <1>5, <2>0, <3>2, SMTT(60)
      <4> QED BY <4>1, SMTT(60)
    <3> QED BY <1>1, <2>0, <3>1, <3>2 DEF DistinctJobs
  <2>2. ASSUME NEW v \in workers, wjob'[v].buf # None
        PROVE  /\ wjob'[v].buf \notin pool \cup {rbuf}
               /\ \A i \in 1 .. Len(jobs') : jobs'[i].buf # wjob'[v].buf
               /\ \A u \in workers : wjob'[u].buf = wjob'[v].buf => u = v
    <3>0. \A u \in workers : wjob[u].buf # None =>
            /\ wjob[u].buf \notin pool \cup {rbuf}
            /\ \A i \in 1 .. n : jobs[i].buf # wjob[u].buf
            /\ \A x \in workers : wjob[x].buf = wjob[u].buf => x = u
      BY DEF IInv, Distinct, DistinctWorkers, n
    <3>1. CASE v = w
      <4>1. wjob'[v] = job
        BY <3>1, <1>6
      <4>2. job.buf \notin pool \cup {rbuf} /\ \A i \in 1 .. Len(jobs') : jobs'[i].buf # job.buf
        BY <1>5, <2>0, SMTT(60) DEF job
      <4>3. ASSUME NEW u \in workers, wjob'[u].buf = job.buf, u # w PROVE FALSE
        <5>1. wjob[u].buf = job.buf
          BY <4>3, <1>6
        <5> QED BY <5>1, <3>0, <2>0, <1>4 DEF job
      <4> QED BY <3>1, <4>1, <4>2, <4>3
    <3>2. CASE v # w
      <4>1. wjob'[v] = wjob[v]
        BY <3>2, <1>6
      <4>2. /\ wjob[v].buf \notin pool \cup {rbuf} /\ wjob[v].buf # job.buf
            /\ \A i \in 1 .. Len(jobs') : jobs'[i].buf # wjob[v].buf
        BY <2>2, <4>1, <3>0, <2>0, <1>5, SMTT(60) DEF job
      <4>3. \A u \in workers : wjob'[u].buf = wjob[v].buf => u = v
        BY <2>2, <4>1, <4>2, <3>0, <1>6
      <4> QED BY <4>1, <4>2, <4>3
    <3> QED BY <3>1, <3>2
  <2>3. DistinctWorkers'
    BY <2>2, <1>1 DEF DistinctWorkers
  <2>4. ASSUME NEW c \in Conns, cbuf[c] # None
        PROVE  /\ cbuf[c] \notin pool \cup {rbuf}
               /\ \A i \in 1 .. Len(jobs') : jobs'[i].buf # cbuf[c]
               /\ \A v \in workers : wjob'[v].buf # cbuf[c]
               /\ \A d \in Conns : cbuf[d] = cbuf[c] => d = c
    <3>1. /\ cbuf[c] \notin pool \cup {rbuf}
          /\ \A i \in 1 .. n : jobs[i].buf # cbuf[c]
          /\ \A v \in workers : wjob[v].buf # cbuf[c]
          /\ \A d \in Conns : cbuf[d] = cbuf[c] => d = c
      BY <2>4 DEF IInv, Distinct, DistinctConns, n
    <3> QED BY <3>1, <2>0, <1>5, <1>6, SMTT(60) DEF job
  <2>5. DistinctConns'
    BY <2>4, <1>1 DEF DistinctConns
  <2> QED BY <2>1, <2>3, <2>5 DEF Distinct
<1>10. NoLeak'
  <2> SUFFICES ASSUME NEW b \in Buffers \ pool
               PROVE  \/ rbuf = b
                      \/ \E i \in 1 .. Len(jobs') : jobs'[i].buf = b
                      \/ \E v \in workers : wjob'[v].buf = b
                      \/ \E c \in Conns : cbuf[c] = b
    BY <1>1 DEF NoLeak
  <2>1. ASSUME NEW i \in 1 .. n, jobs[i].buf = b
        PROVE  \/ \E j \in 1 .. Len(jobs') : jobs'[j].buf = b
               \/ \E v \in workers : wjob'[v].buf = b
    <3>1. CASE i = 1
      BY <3>1, <2>1, <1>6 DEF job
    <3>2. CASE i # 1
      <4>1. i - 1 \in 1 .. Len(jobs') /\ (i - 1) + 1 = i
        BY <3>2, <1>2, <1>3, SMTT(60)
      <4>2. jobs'[i - 1] = jobs[i]
        BY <4>1, <1>5
      <4> QED BY <4>1, <4>2, <2>1
    <3> QED BY <3>1, <3>2
  <2>2. ASSUME NEW v \in workers, wjob[v].buf = b
        PROVE  \E u \in workers : wjob'[u].buf = b
    <3>1. wjob[w].buf = None /\ b # None
      BY <1>1, ServerAssumption DEF IInv, Held
    <3> QED BY <3>1, <2>2, <1>6
  <2> QED BY <2>1, <2>2 DEF IInv, NoLeak, n
<1>11. Contents'
  <2>1. /\ rpc = "send" => content[rbuf] \in Queries
        /\ \A i \in 1 .. n : content[jobs[i].buf] = jobs[i].addr
        /\ \A v \in workers : /\ wpc[v] = "parse" => content[wjob[v].buf] = wjob[v].addr
                              /\ wpc[v] = "handle" => wreq[v] = wjob[v].addr
    BY DEF IInv, Contents, n
  <2>2. content[job.buf] = job.addr
    BY <2>1, <1>2, SMTT(60) DEF job
  <2> QED BY <1>1, <1>5, <1>6, <2>1, <2>2, SMTT(60) DEF Contents
<1>12. Order'
  BY <1>1, <1>6 DEF IInv, Order
<1> QED BY <1>1, <1>7, <1>8, <1>9, <1>10, <1>11, <1>12, SlotsKept, RepliesKept DEF IInv

(* A worker's loop is over: the channel is closed and empty.                  *)
LEMMA WorkerEndsKeeps == ASSUME IInv, NEW w \in workers, WorkerEnds(w) PROVE IInv'
<1>1. /\ UNCHANGED <<ctxDone, spc, udpOpen, tcpOpen, query, replies, pool, content, rpc, rbuf,
                     jobs, jobsClosed, wjob, wreq, apc, tcpSlots, cpc, cbuf, conn>>
      /\ wpc[w] = "range" /\ jobsClosed /\ jobs = <<>> /\ wpc' = [wpc EXCEPT ![w] = "done"]
  BY DEF WorkerEnds, serveVars, readerVars, workerVars, tcpVars
<1>2. wpc'[w] = "done" /\ \A v \in workers : v # w => wpc'[v] = wpc[v]
  BY <1>1 DEF IInv, TypeOK
<1>3. TypeOK'
  BY <1>1, SMTT(60) DEF IInv, TypeOK
<1>4. Held'
  BY <1>1, <1>2 DEF IInv, Held
<1>5. Contents'
  BY <1>1, <1>2 DEF IInv, Contents
<1>6. Order'
  BY <1>1, <1>2 DEF IInv, Order
<1> QED BY <1>1, <1>3, <1>4, <1>5, <1>6, BuffersKept, SlotsKept, RepliesKept DEF IInv

(* A worker has parsed: what it has is its sender's question.                 *)
LEMMA ParseKeeps == ASSUME IInv, NEW w \in workers, Parse(w) PROVE IInv'
<1>1. /\ UNCHANGED <<ctxDone, spc, udpOpen, tcpOpen, query, replies, pool, content, rpc, rbuf,
                     jobs, jobsClosed, wjob, apc, tcpSlots, cpc, cbuf, conn>>
      /\ wpc[w] = "parse" /\ wpc' = [wpc EXCEPT ![w] = "handle"]
      /\ wreq' = [wreq EXCEPT ![w] = content[wjob[w].buf]]
  BY DEF Parse, serveVars, readerVars, workerVars, tcpVars
<1>2. /\ wpc'[w] = "handle" /\ wreq'[w] = content[wjob[w].buf]
      /\ \A v \in workers : v # w => wpc'[v] = wpc[v] /\ wreq'[v] = wreq[v]
  BY <1>1 DEF IInv, TypeOK
<1>3. content[wjob[w].buf] = wjob[w].addr /\ wjob[w].addr \in Queries
  BY <1>1, BufferTypes DEF IInv, Held, Contents
<1>4. TypeOK'
  BY <1>1, <1>3, SMTT(60) DEF IInv, TypeOK
<1>5. Held'
  BY <1>1, <1>2 DEF IInv, Held
<1>6. Contents'
  BY <1>1, <1>2, <1>3, SMTT(60) DEF IInv, Contents
<1>7. Order'
  BY <1>1, <1>2 DEF IInv, Order
<1> QED BY <1>1, <1>4, <1>5, <1>6, <1>7, BuffersKept, SlotsKept, RepliesKept DEF IInv

(* serveUDP returns: the buffer is free, whatever it holds by now.             *)
LEMMA ServeReturnsKeeps ==
  ASSUME IInv, NEW w \in workers, NEW fate \in {"dropped", "answered", "unanswered"},
         wpc[w] = "handle", ServeReturns(w, fate),
         content' \in {content, [content EXCEPT ![wjob[w].buf] = None]},
         replies' \in {replies, replies \cup {[to |-> wjob[w].addr, answers |-> wreq[w]]}}
  PROVE  IInv'
<1> DEFINE a == wjob[w].addr
           f == wjob[w].buf
<1>1. /\ UNCHANGED <<ctxDone, spc, udpOpen, tcpOpen, rpc, rbuf, jobs, jobsClosed,
                     apc, tcpSlots, cpc, cbuf, conn>>
      /\ pool' = pool \cup {f} /\ query' = [query EXCEPT ![a] = fate]
      /\ wjob' = [wjob EXCEPT ![w] = NoJob] /\ wreq' = [wreq EXCEPT ![w] = None]
      /\ wpc' = [wpc EXCEPT ![w] = "range"]
  BY DEF ServeReturns, serveVars, readerVars, tcpVars
<1>2. a \in Queries /\ f \in Buffers /\ f # None /\ wreq[w] = a
  BY BufferTypes DEF IInv, Held, Contents
<1>3. content' \in {content, [content EXCEPT ![f] = None]}
      /\ replies' \in {replies, replies \cup {[to |-> a, answers |-> a]}}
  BY <1>2
<1> HIDE DEF a, f
<1>4. /\ wpc'[w] = "range" /\ wjob'[w] = NoJob /\ wjob'[w].buf = None
      /\ \A v \in workers : v # w => /\ wpc'[v] = wpc[v] /\ wreq'[v] = wreq[v]
                                     /\ wjob'[v] = wjob[v]
  BY <1>1 DEF IInv, TypeOK, NoJob
<1>5. \A b \in Buffers : b # f => content'[b] = content[b]
  BY <1>3 DEF IInv, TypeOK
<1>6. /\ rbuf # f /\ f \notin pool
      /\ \A i \in 1 .. Len(jobs) : jobs[i].buf # f
      /\ \A v \in workers : v # w => wjob[v].buf # f
      /\ \A c \in Conns : cbuf[c] # f
  BY <1>2 DEF IInv, Distinct, DistinctWorkers, DistinctConns, f
<1>7. TypeOK'
  <2>1. content' \in [Buffers -> Queries \cup {None}]
    BY <1>2, <1>3 DEF IInv, TypeOK
  <2>2. replies' \subseteq [to : Queries, answers : Queries]
    BY <1>2, <1>3, SMTT(60) DEF IInv, TypeOK
  <2>3. /\ wjob' \in [workers -> Jobs \cup {NoJob}] /\ wreq' \in [workers -> Queries \cup {None}]
        /\ wpc' \in [workers -> {"range", "parse", "handle", "done"}]
    BY <1>1 DEF IInv, TypeOK
  <2>4. query' \in [Queries -> {"new", "socket", "read", "queued", "answered", "unanswered",
                                "dropped"}]
    BY <1>1, <1>2 DEF IInv, TypeOK
  <2> QED BY <1>1, <1>2, <2>1, <2>2, <2>3, <2>4, SMTT(60) DEF IInv, TypeOK
<1>8. Held'
  BY <1>1, <1>4, SMTT(60) DEF IInv, Held
<1>9. Distinct'
  <2>1. DistinctJobs'
    BY <1>1, <1>6 DEF IInv, Distinct, DistinctJobs
  <2>2. DistinctWorkers'
    BY <1>1, <1>4, <1>6, SMTT(60) DEF IInv, Distinct, DistinctWorkers
  <2>3. DistinctConns'
    BY <1>1, <1>4, <1>6, SMTT(60) DEF IInv, Distinct, DistinctConns
  <2> QED BY <2>1, <2>2, <2>3 DEF Distinct
<1>10. NoLeak'
  <2> SUFFICES ASSUME NEW b \in Buffers \ pool, b # f
               PROVE  \/ rbuf = b
                      \/ \E i \in 1 .. Len(jobs) : jobs[i].buf = b
                      \/ \E v \in workers : wjob'[v].buf = b
                      \/ \E c \in Conns : cbuf[c] = b
    BY <1>1 DEF NoLeak
  <2>1. ASSUME NEW v \in workers, wjob[v].buf = b PROVE v # w /\ wjob'[v].buf = b
    BY <2>1, <1>4 DEF f
  <2> QED BY <2>1 DEF IInv, NoLeak
<1>11. Contents'
  <2>1. rpc = "send" => rbuf \in Buffers
    BY BufferTypes DEF IInv, Held
  <2>2. \A i \in 1 .. Len(jobs) : jobs[i].buf \in Buffers
    BY BufferTypes DEF IInv
  <2>3. \A v \in workers : wpc[v] = "parse" => wjob[v].buf \in Buffers
    BY BufferTypes DEF IInv, Held
  <2> QED BY <1>1, <1>4, <1>5, <1>6, <2>1, <2>2, <2>3, SMTT(60) DEF IInv, Contents
<1>12. RepliesMatch'
  BY <1>3, SMTT(60) DEF IInv, RepliesMatch
<1>13. Order'
  BY <1>1, <1>4 DEF IInv, Order
<1> QED BY <1>1, <1>7, <1>8, <1>9, <1>10, <1>11, <1>12, <1>13, SlotsKept DEF IInv

(* No answer is sent.                                                        *)
LEMMA DiscardKeeps == ASSUME IInv, NEW w \in workers, Discard(w) PROVE IInv'
BY ServeReturnsKeeps DEF Discard

(* The answer is packed into the job's buffer and sent, or cannot be.          *)
LEMMA ReplyKeeps == ASSUME IInv, NEW w \in workers, Reply(w) PROVE IInv'
<1>1. /\ wpc[w] = "handle" /\ content' = [content EXCEPT ![wjob[w].buf] = None]
      /\ \/ /\ replies' = replies \cup {[to |-> wjob[w].addr, answers |-> wreq[w]]}
            /\ ServeReturns(w, "answered")
         \/ replies' = replies /\ ServeReturns(w, "unanswered")
  BY DEF Reply
<1> QED BY <1>1, ServeReturnsKeeps

(* A client connects.                                                        *)
LEMMA ConnectKeeps == ASSUME IInv, NEW c \in Conns, Connect(c) PROVE IInv'
<1>1. /\ UNCHANGED <<ctxDone, spc, udpOpen, tcpOpen, query, replies, pool, content, rpc, rbuf,
                     jobs, jobsClosed, wpc, wjob, wreq, apc, tcpSlots, cpc, cbuf>>
      /\ conn[c] = "new" /\ conn' = [conn EXCEPT ![c] = "backlog"]
  BY DEF Connect, serveVars, readerVars, workerVars
<1>2. conn'[c] = "backlog" /\ \A d \in Conns : d # c => conn'[d] = conn[d]
  BY <1>1 DEF IInv, TypeOK
<1>3. TypeOK'
  BY <1>1, SMTT(60) DEF IInv, TypeOK
<1>4. Open' = Open
  BY <1>1 DEF Open
<1>5. Slots'
  BY <1>1, <1>2, <1>4 DEF IInv, Slots
<1> QED BY <1>1, <1>3, <1>5, HeldKept, BuffersKept, ContentsKept, OrderKept, RepliesKept DEF IInv

(* A connection is accepted: it takes a slot, or is closed if there is none.   *)
LEMMA AcceptKeeps == ASSUME IInv, NEW c \in Conns, Accept(c) PROVE IInv'
<1>1. /\ UNCHANGED <<ctxDone, spc, udpOpen, tcpOpen, query, replies, pool, content, rpc, rbuf,
                     jobs, jobsClosed, wpc, wjob, wreq, apc, cbuf>>
      /\ apc = "accept" /\ conn[c] = "backlog" /\ cpc[c] = "none"
  BY DEF Accept, serveVars, readerVars, workerVars, IInv, Slots
<1>2. ~jobsClosed /\ spc # "returned"
  BY <1>1 DEF IInv, Order
<1>3. CASE tcpSlots < maxTCPConns
  <2>1. /\ conn' = [conn EXCEPT ![c] = "open"] /\ cpc' = [cpc EXCEPT ![c] = "get"]
        /\ tcpSlots' = tcpSlots + 1
    BY <1>3 DEF Accept
  <2>2. /\ conn'[c] = "open" /\ cpc'[c] = "get"
        /\ \A d \in Conns : d # c => conn'[d] = conn[d] /\ cpc'[d] = cpc[d]
    BY <2>1 DEF IInv, TypeOK
  <2>3. TypeOK'
    BY <1>1, <2>1, SMTT(60) DEF IInv, TypeOK
  <2>4. Held'
    BY <1>1, <2>2 DEF IInv, Held
  <2>5. Open' = Open \cup {c} /\ c \notin Open
    BY <1>1, <2>2 DEF Open
  <2>6. IsFiniteSet(Open') /\ Cardinality(Open') = Cardinality(Open) + 1
    BY <2>5, FS_AddElement DEF IInv, Slots
  <2>7. tcpSlots \in Nat /\ tcpSlots = Cardinality(Open)
    BY DEF IInv, TypeOK, Slots
  <2>8. Slots'
    BY <1>3, <2>1, <2>2, <2>5, <2>6, <2>7, ServerAssumption, SMTT(60) DEF IInv, Slots
  <2>9. Order'
    BY <1>1, <1>2 DEF IInv, Order
  <2> QED BY <1>1, <2>3, <2>4, <2>8, <2>9, BuffersKept, ContentsKept, RepliesKept DEF IInv
<1>4. CASE ~(tcpSlots < maxTCPConns)
  <2>1. /\ conn' = [conn EXCEPT ![c] = "closed"] /\ cpc' = [cpc EXCEPT ![c] = "none"]
        /\ tcpSlots' = tcpSlots
    BY <1>4 DEF Accept
  <2>2. cpc' = cpc
    BY <1>1, <2>1 DEF IInv, TypeOK
  <2>3. conn'[c] = "closed" /\ \A d \in Conns : d # c => conn'[d] = conn[d]
    BY <2>1 DEF IInv, TypeOK
  <2>4. TypeOK'
    BY <1>1, <2>1, <2>2, SMTT(60) DEF IInv, TypeOK
  <2>5. Open' = Open
    BY <2>2 DEF Open
  <2>6. Slots'
    BY <2>1, <2>2, <2>3, <2>5 DEF IInv, Slots
  <2> QED BY <1>1, <2>2, <2>4, <2>6, HeldKept, BuffersKept, ContentsKept, OrderKept,
             RepliesKept DEF IInv
<1> QED BY <1>3, <1>4

(* The accept loop ends.                                                     *)
LEMMA AcceptFailsKeeps == ASSUME IInv, AcceptFails PROVE IInv'
<1>1. /\ UNCHANGED <<ctxDone, spc, udpOpen, tcpOpen, query, replies, pool, content, rpc, rbuf,
                     jobs, jobsClosed, wpc, wjob, wreq, tcpSlots, cpc, cbuf, conn>>
      /\ apc' = "done"
  BY DEF AcceptFails, serveVars, readerVars, workerVars
<1>2. TypeOK'
  BY <1>1, SMTT(60) DEF IInv, TypeOK
<1>3. Order'
  BY <1>1 DEF IInv, Order
<1> QED BY <1>1, <1>2, <1>3, HeldKept, BuffersKept, ContentsKept, SlotsKept, RepliesKept DEF IInv

(* A connection goes from one of its places to another and stays open.         *)
LEMMA ConnMoves ==
  ASSUME IInv, NEW c \in Conns, c \in Open, NEW p \in {"get", "read", "handle"},
         cpc' = [cpc EXCEPT ![c] = p],
         UNCHANGED <<spc, jobsClosed, jobs, rpc, apc, wpc, tcpSlots, conn>>
  PROVE  /\ cpc' \in [Conns -> {"none", "get", "read", "handle", "done"}] /\ cpc'[c] = p
         /\ \A d \in Conns : d # c => cpc'[d] = cpc[d]
         /\ Slots' /\ Order'
<1>1. /\ cpc' \in [Conns -> {"none", "get", "read", "handle", "done"}]
      /\ cpc'[c] = p /\ \A d \in Conns : d # c => cpc'[d] = cpc[d]
  BY DEF IInv, TypeOK
<1>2. cpc[c] \in {"get", "read", "handle"}
  BY DEF Open
<1>3. Open' = Open
  BY <1>1, <1>2 DEF Open
<1>4. Slots'
  BY <1>1, <1>2, <1>3 DEF IInv, Slots
<1>5. Order'
  BY <1>1, <1>2 DEF IInv, Order
<1> QED BY <1>1, <1>4, <1>5

(* A connection's goroutine takes a buffer from the pool.                     *)
LEMMA ConnGetKeeps == ASSUME IInv, NEW c \in Conns, NEW b \in Buffers, ConnGet(c, b) PROVE IInv'
<1>1. /\ UNCHANGED <<ctxDone, spc, udpOpen, tcpOpen, query, replies, content, rpc, rbuf,
                     jobs, jobsClosed, wpc, wjob, wreq, apc, tcpSlots, conn>>
      /\ cpc[c] = "get" /\ b \in pool /\ pool' = pool \ {b}
      /\ cbuf' = [cbuf EXCEPT ![c] = b] /\ cpc' = [cpc EXCEPT ![c] = "read"]
  BY DEF ConnGet, serveVars, readerVars, workerVars
<1>2. c \in Open
  BY <1>1 DEF Open
<1>3. /\ cpc' \in [Conns -> {"none", "get", "read", "handle", "done"}] /\ cpc'[c] = "read"
      /\ \A d \in Conns : d # c => cpc'[d] = cpc[d]
      /\ Slots' /\ Order'
  BY <1>1, <1>2, ConnMoves
<1>4. b # None /\ cbuf[c] = None
  BY <1>1, ServerAssumption DEF IInv, Held
<1>5. cbuf'[c] = b /\ \A d \in Conns : d # c => cbuf'[d] = cbuf[d]
  BY <1>1 DEF IInv, TypeOK
<1>6. TypeOK'
  BY <1>1, <1>3, SMTT(60) DEF IInv, TypeOK
<1>7. Held'
  BY <1>1, <1>3, <1>4, <1>5, SMTT(60) DEF IInv, Held
<1>8. Distinct'
  <2>1. DistinctJobs'
    BY <1>1 DEF IInv, Distinct, DistinctJobs
  <2>2. DistinctWorkers'
    BY <1>1 DEF IInv, Distinct, DistinctWorkers
  <2>3. DistinctConns'
    <3>1. /\ b # rbuf /\ \A i \in 1 .. Len(jobs) : jobs[i].buf # b
          /\ \A w \in workers : wjob[w].buf # b
          /\ \A d \in Conns : cbuf[d] # b
      BY <1>1, <1>4, SMTT(60) DEF IInv, Distinct, DistinctJobs, DistinctWorkers, DistinctConns
    <3> QED BY <1>1, <1>5, <3>1, SMTT(60) DEF IInv, Distinct, DistinctConns
  <2> QED BY <2>1, <2>2, <2>3 DEF Distinct
<1>9. NoLeak'
  <2> SUFFICES ASSUME NEW x \in Buffers \ pool'
               PROVE  \/ rbuf = x
                      \/ \E i \in 1 .. Len(jobs) : jobs[i].buf = x
                      \/ \E w \in workers : wjob[w].buf = x
                      \/ \E d \in Conns : cbuf'[d] = x
    BY <1>1 DEF NoLeak
  <2>1. CASE x = b
    BY <2>1, <1>5
  <2>2. CASE x # b
    <3>1. x \in Buffers \ pool /\ x # None
      BY <2>2, <1>1, ServerAssumption
    <3>2. ASSUME NEW d \in Conns, cbuf[d] = x PROVE cbuf'[d] = x
      BY <3>1, <3>2, <1>4, <1>5
    <3> QED BY <3>1, <3>2 DEF IInv, NoLeak
  <2> QED BY <2>1, <2>2
<1> QED BY <1>1, <1>3, <1>6, <1>7, <1>8, <1>9, ContentsKept, RepliesKept DEF IInv

(* A message has been read.                                                  *)
LEMMA ConnReadKeeps == ASSUME IInv, NEW c \in Conns, ConnRead(c) PROVE IInv'
<1>1. /\ UNCHANGED <<ctxDone, spc, udpOpen, tcpOpen, query, replies, pool, content, rpc, rbuf,
                     jobs, jobsClosed, wpc, wjob, wreq, apc, tcpSlots, cbuf, conn>>
      /\ cpc[c] = "read" /\ cpc' = [cpc EXCEPT ![c] = "handle"]
  BY DEF ConnRead, serveVars, readerVars, workerVars
<1>2. c \in Open
  BY <1>1 DEF Open
<1>3. /\ cpc' \in [Conns -> {"none", "get", "read", "handle", "done"}] /\ cpc'[c] = "handle"
      /\ \A d \in Conns : d # c => cpc'[d] = cpc[d]
      /\ Slots' /\ Order'
  BY <1>1, <1>2, ConnMoves
<1>4. TypeOK'
  BY <1>1, <1>3, SMTT(60) DEF IInv, TypeOK
<1>5. Held'
  BY <1>1, <1>3 DEF IInv, Held
<1> QED BY <1>1, <1>3, <1>4, <1>5, BuffersKept, ContentsKept, RepliesKept DEF IInv

(* The answer is packed into the connection's own buffer: no other's content   *)
(* changes.                                                                  *)
LEMMA ConnReplyKeeps == ASSUME IInv, NEW c \in Conns, ConnReply(c) PROVE IInv'
<1>1. /\ UNCHANGED <<ctxDone, spc, udpOpen, tcpOpen, query, replies, pool, rpc, rbuf,
                     jobs, jobsClosed, wpc, wjob, wreq, apc, tcpSlots, cbuf, conn>>
      /\ cpc[c] = "handle" /\ cpc' = [cpc EXCEPT ![c] = "read"]
      /\ content' = [content EXCEPT ![cbuf[c]] = None]
  BY DEF ConnReply, serveVars, readerVars, workerVars
<1>2. c \in Open
  BY <1>1 DEF Open
<1>3. /\ cpc' \in [Conns -> {"none", "get", "read", "handle", "done"}] /\ cpc'[c] = "read"
      /\ \A d \in Conns : d # c => cpc'[d] = cpc[d]
      /\ Slots' /\ Order'
  BY <1>1, <1>2, ConnMoves
<1>4. cbuf[c] \in Buffers /\ cbuf[c] # None
  BY <1>1, BufferTypes DEF IInv, Held
<1>5. \A b \in Buffers : b # cbuf[c] => content'[b] = content[b]
  BY <1>1 DEF IInv, TypeOK
<1>6. TypeOK'
  <2>1. content' \in [Buffers -> Queries \cup {None}]
    BY <1>1 DEF IInv, TypeOK
  <2> QED BY <1>1, <1>3, <2>1, SMTT(60) DEF IInv, TypeOK
<1>7. Held'
  BY <1>1, <1>3 DEF IInv, Held
<1>8. Contents'
  <2>1. /\ rbuf # cbuf[c] /\ \A i \in 1 .. Len(jobs) : jobs[i].buf # cbuf[c]
        /\ \A w \in workers : wjob[w].buf # cbuf[c]
    BY <1>4 DEF IInv, Distinct, DistinctConns
  <2>2. rpc = "send" => rbuf \in Buffers
    BY BufferTypes DEF IInv, Held
  <2>3. \A i \in 1 .. Len(jobs) : jobs[i].buf \in Buffers
    BY BufferTypes DEF IInv
  <2>4. \A w \in workers : wpc[w] = "parse" => wjob[w].buf \in Buffers
    BY BufferTypes DEF IInv, Held
  <2> QED BY <1>1, <1>5, <2>1, <2>2, <2>3, <2>4 DEF IInv, Contents
<1> QED BY <1>1, <1>3, <1>6, <1>7, <1>8, BuffersKept, RepliesKept DEF IInv

(* A connection's goroutine returns: buffer and slot are free again.          *)
LEMMA ConnEndsKeeps == ASSUME IInv, NEW c \in Conns, ConnEnds(c) PROVE IInv'
<1>1. /\ UNCHANGED <<ctxDone, spc, udpOpen, tcpOpen, query, replies, content, rpc, rbuf,
                     jobs, jobsClosed, wpc, wjob, wreq, apc>>
      /\ cpc[c] \in {"read", "handle"} /\ cpc' = [cpc EXCEPT ![c] = "done"]
      /\ pool' = pool \cup {cbuf[c]} /\ cbuf' = [cbuf EXCEPT ![c] = None]
      /\ conn' = [conn EXCEPT ![c] = "closed"] /\ tcpSlots' = tcpSlots - 1
  BY DEF ConnEnds, serveVars, readerVars, workerVars
<1> DEFINE f == cbuf[c]
<1>2. f \in Buffers /\ f # None
  BY <1>1, BufferTypes DEF IInv, Held
<1>3. /\ cpc'[c] = "done" /\ cbuf'[c] = None /\ conn'[c] = "closed"
      /\ \A d \in Conns : d # c => cpc'[d] = cpc[d] /\ cbuf'[d] = cbuf[d] /\ conn'[d] = conn[d]
  BY <1>1 DEF IInv, TypeOK
<1>4. /\ f \notin pool \cup {rbuf} /\ \A i \in 1 .. Len(jobs) : jobs[i].buf # f
      /\ \A w \in workers : wjob[w].buf # f
      /\ \A d \in Conns : d # c => cbuf[d] # f
  BY <1>2 DEF IInv, Distinct, DistinctConns
<1> HIDE DEF f
<1>5. Open' = Open \ {c} /\ c \in Open
  BY <1>1, <1>3 DEF Open
<1>6. IsFiniteSet(Open)
  BY DEF IInv, Slots
<1>7. IsFiniteSet(Open') /\ Cardinality(Open') = Cardinality(Open) - 1
  BY <1>5, <1>6, FS_RemoveElement
<1>8. Cardinality(Open') \in Nat
  BY <1>7, FS_CardinalityType
<1>9. /\ tcpSlots = Cardinality(Open) /\ tcpSlots \in Nat /\ tcpSlots <= maxTCPConns
      /\ maxTCPConns \in Nat
  BY ServerAssumption DEF IInv, TypeOK, Slots
<1>10. tcpSlots' = Cardinality(Open') /\ tcpSlots' <= maxTCPConns /\ tcpSlots' \in Nat
  BY <1>1, <1>7, <1>8, <1>9, SMTT(60)
<1>11. Slots'
  BY <1>3, <1>5, <1>7, <1>10 DEF IInv, Slots
<1>12. TypeOK'
  <2>1. pool' \subseteq Buffers
    BY <1>1, <1>2 DEF IInv, TypeOK, f
  <2>2. /\ cpc' \in [Conns -> {"none", "get", "read", "handle", "done"}]
        /\ cbuf' \in [Conns -> Buffers \cup {None}]
        /\ conn' \in [Conns -> {"new", "backlog", "open", "closed"}]
    BY <1>1 DEF IInv, TypeOK
  <2> QED BY <1>1, <1>10, <2>1, <2>2, SMTT(60) DEF IInv, TypeOK
<1>13. Held'
  BY <1>1, <1>3, SMTT(60) DEF IInv, Held
<1>14. Distinct'
  <2>1. DistinctJobs'
    BY <1>1, <1>4 DEF IInv, Distinct, DistinctJobs, f
  <2>2. DistinctWorkers'
    BY <1>1, <1>4 DEF IInv, Distinct, DistinctWorkers, f
  <2>3. DistinctConns'
    BY <1>1, <1>3, <1>4, SMTT(60) DEF IInv, Distinct, DistinctConns, f
  <2> QED BY <2>1, <2>2, <2>3 DEF Distinct
<1>15. NoLeak'
  <2> SUFFICES ASSUME NEW b \in Buffers \ pool, b # f
               PROVE  \/ rbuf = b
                      \/ \E i \in 1 .. Len(jobs) : jobs[i].buf = b
                      \/ \E w \in workers : wjob[w].buf = b
                      \/ \E d \in Conns : cbuf'[d] = b
    BY <1>1 DEF NoLeak, f
  <2>1. ASSUME NEW d \in Conns, cbuf[d] = b PROVE cbuf'[d] = b
    BY <2>1, <1>3 DEF f
  <2> QED BY <2>1 DEF IInv, NoLeak
<1>16. Order'
  BY <1>1, <1>3 DEF IInv, Order
<1> QED BY <1>1, <1>11, <1>12, <1>13, <1>14, <1>15, <1>16, ContentsKept, RepliesKept DEF IInv

(* The end of the context closes a connection.                               *)
LEMMA CloseConnKeeps == ASSUME IInv, NEW c \in Conns, CloseConn(c) PROVE IInv'
<1>1. /\ UNCHANGED <<ctxDone, spc, udpOpen, tcpOpen, query, replies, pool, content, rpc, rbuf,
                     jobs, jobsClosed, wpc, wjob, wreq, apc, tcpSlots, cpc, cbuf>>
      /\ conn' = [conn EXCEPT ![c] = "closed"]
  BY DEF CloseConn, serveVars, readerVars, workerVars
<1>2. conn'[c] = "closed" /\ \A d \in Conns : d # c => conn'[d] = conn[d]
  BY <1>1 DEF IInv, TypeOK
<1>3. TypeOK'
  BY <1>1, SMTT(60) DEF IInv, TypeOK
<1>4. Open' = Open
  BY <1>1 DEF Open
<1>5. Slots'
  BY <1>1, <1>2, <1>4 DEF IInv, Slots
<1> QED BY <1>1, <1>3, <1>5, HeldKept, BuffersKept, ContentsKept, OrderKept, RepliesKept DEF IInv

(* The steps of Serve itself, which leave the goroutines' state alone.         *)
LEMMA ServeKeeps == ASSUME IInv, Cancel \/ Serve PROVE IInv'
<1>1. UNCHANGED <<query, replies, pool, content, rpc, rbuf, jobs, wpc, wjob, wreq,
                  apc, tcpSlots, cpc, cbuf, conn>>
  BY DEF Cancel, Serve, CloseUDP, CloseTCP, CloseJobs, WorkersDone, ConnsDone, others,
         readerVars, workerVars, tcpVars
<1>2. /\ ctxDone' \in BOOLEAN /\ udpOpen' \in BOOLEAN /\ tcpOpen' \in BOOLEAN
      /\ jobsClosed' \in BOOLEAN
      /\ spc' \in {"serve", "closeTCP", "waitReaders", "waitWorkers", "waitConns", "returned"}
  BY DEF Cancel, Serve, CloseUDP, CloseTCP, CloseJobs, WorkersDone, ConnsDone, IInv, TypeOK
<1>3. TypeOK'
  BY <1>1, <1>2 DEF IInv, TypeOK
<1>4. Order'
  <2>1. CASE CloseJobs
    BY <2>1, <1>1 DEF CloseJobs, IInv, Order
  <2>2. CASE WorkersDone
    BY <2>2, <1>1 DEF WorkersDone, IInv, Order
  <2>3. CASE ConnsDone
    BY <2>3, <1>1 DEF ConnsDone, IInv, Order
  <2>4. CASE Cancel \/ CloseUDP \/ CloseTCP
    BY <2>4, <1>1, SMTT(60) DEF Cancel, CloseUDP, CloseTCP, IInv, Order
  <2> QED BY <2>1, <2>2, <2>3, <2>4 DEF Serve
<1> QED BY <1>1, <1>3, <1>4, HeldKept, BuffersKept, ContentsKept, SlotsKept, RepliesKept DEF IInv

(* Every step of every goroutine keeps the invariant.                       *)
LEMMA NextIInv == ASSUME IInv, [Next]_vars PROVE IInv'
<1>1. ASSUME Reader PROVE IInv'
  BY <1>1, ReadSendKeeps, ReadGetKeeps, ReadKeeps DEF Reader
<1>2. ASSUME NEW w \in workers, Worker(w) PROVE IInv'
  BY <1>2, TakeKeeps, ParseKeeps, ReplyKeeps, DiscardKeeps, WorkerEndsKeeps DEF Worker
<1>3. ASSUME NEW c \in Conns, TCPConn(c) PROVE IInv'
  BY <1>3, ConnGetKeeps, ConnReadKeeps, ConnReplyKeeps DEF TCPConn
<1>4. ASSUME UNCHANGED vars PROVE IInv'
  <2>1. UNCHANGED <<ctxDone, spc, udpOpen, tcpOpen, query, replies, pool, content, rpc, rbuf, jobs,
                    jobsClosed, wpc, wjob, wreq, apc, tcpSlots, cpc, cbuf, conn>>
    BY <1>4 DEF vars, serveVars, readerVars, workerVars, tcpVars
  <2>2. TypeOK'
    BY <2>1, SMTT(60) DEF IInv, TypeOK
  <2> QED BY <2>1, <2>2, HeldKept, BuffersKept, ContentsKept, SlotsKept, OrderKept,
             RepliesKept DEF IInv
<1> QED BY <1>1, <1>2, <1>3, <1>4, ArriveKeeps, ReadFailsKeeps, ConnectKeeps, AcceptKeeps,
           ConnEndsKeeps, CloseConnKeeps, AcceptFailsKeeps, ServeKeeps DEF Next

(* The inductive invariant holds in every state of every behaviour.          *)
LEMMA ServerIInv == Spec => []IInv
<1>1. IInv /\ [Next]_vars => IInv'
  BY NextIInv
<1> QED BY <1>1, InitIInv, PTL DEF Spec

----------------------------------------------------------------------------
(* Theorems *)

(* Every variable of the server keeps its type: the queue never grows past    *)
(* its capacity and the count of slots never goes below zero.                 *)
THEOREM ServerTypeOK == Spec => []TypeOK
<1>1. IInv => TypeOK
  BY DEF IInv
<1> QED BY <1>1, ServerIInv, PTL

(* Each holder of a buffer is the only one, and a free buffer has none.        *)
LEMMA OneHolder == IInv => BuffersExclusive
<1> SUFFICES ASSUME IInv, NEW b \in Buffers
             PROVE  Cardinality(Holders(b)) = IF b \in pool THEN 0 ELSE 1
  BY DEF BuffersExclusive
<1>0. b # None
  BY ServerAssumption
<1> USE DEF IInv
<1>1. CASE b \in pool
  <2>1. Holders(b) = {}
    <3>1. rbuf # b /\ (\A i \in 1 .. Len(jobs) : jobs[i].buf # b)
      BY <1>1 DEF Distinct, DistinctJobs
    <3>2. \A w \in workers : wjob[w].buf # b
      BY <1>0, <1>1 DEF Distinct, DistinctWorkers
    <3>3. \A c \in Conns : cbuf[c] # b
      BY <1>0, <1>1 DEF Distinct, DistinctConns
    <3> QED BY <3>1, <3>2, <3>3 DEF Holders
  <2> QED BY <1>1, <2>1, FS_EmptySet
<1>2. CASE b \notin pool
  <2>1. CASE rbuf = b
    <3>1. /\ \A i \in 1 .. Len(jobs) : jobs[i].buf # b
          /\ \A w \in workers : wjob[w].buf # b
          /\ \A c \in Conns : cbuf[c] # b
      BY <1>0, <2>1 DEF Distinct, DistinctJobs, DistinctWorkers, DistinctConns
    <3>2. Holders(b) = {<<"reader", b>>}
      BY <2>1, <3>1 DEF Holders
    <3> QED BY <1>2, <3>2, FS_Singleton
  <2>2. ASSUME NEW i \in 1 .. Len(jobs), jobs[i].buf = b
        PROVE  Cardinality(Holders(b)) = 1
    <3>1. /\ rbuf # b
          /\ \A j \in 1 .. Len(jobs) : jobs[j].buf = b => j = i
          /\ \A w \in workers : wjob[w].buf # b
          /\ \A c \in Conns : cbuf[c] # b
      BY <1>0, <2>2 DEF Distinct, DistinctJobs, DistinctWorkers, DistinctConns
    <3>2. Holders(b) = {<<"job", i>>}
      BY <2>2, <3>1 DEF Holders
    <3> QED BY <3>2, FS_Singleton
  <2>3. ASSUME NEW w \in workers, wjob[w].buf = b
        PROVE  Cardinality(Holders(b)) = 1
    <3>1. /\ rbuf # b
          /\ \A j \in 1 .. Len(jobs) : jobs[j].buf # b
          /\ \A v \in workers : wjob[v].buf = b => v = w
          /\ \A c \in Conns : cbuf[c] # b
      BY <1>0, <2>3 DEF Distinct, DistinctJobs, DistinctWorkers, DistinctConns
    <3>2. Holders(b) = {<<"worker", w>>}
      BY <2>3, <3>1 DEF Holders
    <3> QED BY <3>2, FS_Singleton
  <2>4. ASSUME NEW c \in Conns, cbuf[c] = b
        PROVE  Cardinality(Holders(b)) = 1
    <3>1. /\ rbuf # b
          /\ \A j \in 1 .. Len(jobs) : jobs[j].buf # b
          /\ \A w \in workers : wjob[w].buf # b
          /\ \A d \in Conns : cbuf[d] = b => d = c
      BY <1>0, <2>4 DEF Distinct, DistinctJobs, DistinctWorkers, DistinctConns
    <3>2. Holders(b) = {<<"conn", c>>}
      BY <2>4, <3>1 DEF Holders
    <3> QED BY <3>2, FS_Singleton
  <2> QED BY <1>2, <2>1, <2>2, <2>3, <2>4 DEF NoLeak
<1> QED BY <1>1, <1>2

(* For any number of workers, buffers, datagrams and connections, a buffer is  *)
(* in the pool or in exactly one place: the reader, a queued job, a worker or a *)
(* connection.                                                                *)
THEOREM ServerBuffers == Spec => []BuffersExclusive
BY OneHolder, ServerIInv, PTL

(* Every answer that workerLoop writes goes to the client that asked it, and    *)
(* answers that client's datagram.                                            *)
THEOREM ServerReplies == Spec => []RepliesMatch
<1>1. IInv => RepliesMatch
  BY DEF IInv
<1> QED BY <1>1, ServerIInv, PTL

(* The slots taken are exactly those of the connections being served, and no   *)
(* more than maxTCPConns.                                                     *)
THEOREM ServerSlots == Spec => []SlotsBounded
<1>1. IInv => SlotsBounded
  BY DEF IInv, Slots, Open, SlotsBounded
<1> QED BY <1>1, ServerIInv, PTL

(* Serve closes the channel after its readers only, and when it has returned    *)
(* no goroutine, open connection or buffer in use is left.                      *)
THEOREM ServerEnds == Spec => []StopsInOrder
<1>1. ASSUME IInv PROVE ClosedAfterReaders
  BY <1>1 DEF IInv, Order, ClosedAfterReaders
<1>2. ASSUME IInv, spc = "returned"
      PROVE  /\ rpc = "done" /\ apc = "done" /\ jobs = <<>>
             /\ \A w \in workers : wpc[w] = "done"
             /\ \A c \in Conns : cpc[c] \in {"none", "done"} /\ conn[c] # "open"
             /\ pool = Buffers
  <2> USE <1>2 DEF IInv
  <2>1. /\ rpc = "done" /\ apc = "done"
        /\ \A w \in workers : wpc[w] = "done"
        /\ \A c \in Conns : cpc[c] \in {"none", "done"}
    BY DEF Order
  <2>2. jobs = <<>>
    BY <2>1, ServerAssumption DEF Order
  <2>3. \A c \in Conns : conn[c] # "open"
    BY <2>1 DEF Slots, Open
  <2>4. Buffers \subseteq pool
    <3> SUFFICES ASSUME NEW b \in Buffers \ pool PROVE FALSE
      OBVIOUS
    <3>1. b # None
      BY ServerAssumption
    <3>2. rbuf # b /\ (\A w \in workers : wjob[w].buf # b) /\ (\A c \in Conns : cbuf[c] # b)
      BY <2>1, <3>1 DEF Held
    <3> QED BY <2>2, <3>2, SMTT(60) DEF NoLeak
  <2> QED BY <2>1, <2>2, <2>3, <2>4 DEF TypeOK
<1>3. IInv => StopsInOrder
  BY <1>1, <1>2 DEF StopsInOrder, NothingLeft
<1> QED BY <1>3, ServerIInv, PTL
============================================================================
