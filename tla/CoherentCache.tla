--------------------------- MODULE CoherentCache ---------------------------
(***************************************************************************)
(* What the cache of one instance promises: an abstraction of               *)
(* CachedResolver without epochs, locks, flights or the order of steps.     *)
(*                                                                         *)
(* `truth` is what the database would answer for each key, `cached` what    *)
(* the cache answers, and `dirty` the keys a committed write has touched    *)
(* and not yet invalidated.                                                *)
(***************************************************************************)
CONSTANTS Keys, None

VARIABLES truth, cached, dirty

vars == <<truth, cached, dirty>>

Init ==
    /\ \A k \in Keys : cached[k] = None
    /\ dirty = {}

\* Entries may vanish at any time: invalidated, evicted or expired.
Fewer(K) == \A k \in K : cached'[k] \in {cached[k], None}

(* A write commits: every key whose answer it changes becomes dirty.         *)
Write ==
    /\ UNCHANGED cached
    /\ dirty \subseteq dirty' /\ dirty' \subseteq Keys
    /\ \A k \in Keys : truth'[k] # truth[k] => k \in dirty'

(* A lookup stores an answer: the true one, unless the key is dirty.         *)
Fill(k) ==
    /\ UNCHANGED <<truth, dirty>>
    /\ k \in dirty \/ cached'[k] = truth[k]
    /\ Fewer(Keys \ {k})

(* Invalidation goes on: a key is clean again only when it is gone or right. *)
Clean ==
    /\ UNCHANGED truth
    /\ dirty' \subseteq dirty
    /\ Fewer(Keys)
    /\ \A k \in dirty \ dirty' : cached'[k] \in {None, truth[k]}

Next == Write \/ Clean \/ \E k \in Keys : Fill(k)

Spec == Init /\ [][Next]_vars

(* An answer in the cache is true, or its invalidation is under way.         *)
Consistent ==
    \A k \in Keys : cached[k] \in {None, truth[k]} \/ k \in dirty
=============================================================================
