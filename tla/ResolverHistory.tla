-------------------------- MODULE ResolverHistory --------------------------
(***************************************************************************)
(* CachedResolver with a history variable: for each flight of LookupName,   *)
(* whether the name has existed at every moment since its first query.      *)
(***************************************************************************)
EXTENDS CachedResolver

VARIABLE lexisted

\* A name exists if it has records or something below it has.
Exists(k) == k \in NameKeys /\ LookupName(k) # <<0, FALSE>>

HInit == Init /\ lexisted = [l \in Lookups |-> FALSE]

HNext ==
    /\ Next
    /\ lexisted' = [l \in Lookups |->
                      IF lpc[l] = "query" /\ lpc'[l] = "kids" THEN Exists(lkey[l])
                      ELSE lexisted[l] /\ lpc'[l] # "idle" /\ Exists(lkey[l])']

HSpec == HInit /\ [][HNext]_<<vars, lexisted>>

(* README: "Correct negative answers: NXDOMAIN vs NODATA (including empty    *)
(* non-terminals)".  A lookup concludes that a name does not exist only if   *)
(* at some moment of the lookup it did not.                                 *)
NonexistenceWasTrue ==
    \A l \in Lookups :
      lpc[l] = "set" /\ lkey[l] \in NameKeys /\ lval[l] = <<0, FALSE>> => ~lexisted[l]
=============================================================================
