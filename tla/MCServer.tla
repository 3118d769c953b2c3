------------------------------ MODULE MCServer ------------------------------
(* An instance of Server for TLC.  Queries, connections, workers and buffers  *)
(* are numbers, to have an order.                                            *)
EXTENDS Server

\* Of what is interchangeable TLC follows the steps that take the least:
\* queries not sent or not read yet, connections not made or not accepted yet,
\* idle workers, and free buffers (what one held is never read again).
LeastFirst ==
    /\ \A q, r \in Queries :
         q < r /\ query[q] = query[r] /\ query[q] \in {"new", "socket"} => query'[r] = query[r]
    /\ \A c, d \in Conns :
         c < d /\ conn[c] = conn[d] /\ conn[c] \in {"new", "backlog"} => conn'[d] = conn[d]
    /\ \A v, w \in workers : v < w /\ wpc[v] = "range" /\ wpc[w] = "range" => wpc'[w] # "parse"
    /\ \A b \in pool \ pool' : \A c \in pool : b <= c
=============================================================================
