------------------------- MODULE MCResolverHistory -------------------------
(* The instances of MCCachedResolver, with the history of ResolverHistory.   *)
EXTENDS MCCachedResolver, ResolverHistory
=============================================================================
