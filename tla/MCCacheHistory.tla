---------------------------- MODULE MCCacheHistory ----------------------------
(* Instances of CacheHistory: user keys a and b, their hashes. *)
EXTENDS CacheHistory, TLC

CONSTANTS a, b, h1, h2

\* Two keys with hashes of their own, or with the same hash
DistinctHash == (a :> h1) @@ (b :> h2)
SameHash == (a :> h1) @@ (b :> h1)
DistinctConflict == (a :> 1) @@ (b :> 2)

\* Config.Cost and Config.ShouldUpdate left nil
NilCoster(v) == 0
NilShouldUpdate(new, old) == TRUE

Symmetry == Permutations(Clients)
=============================================================================
