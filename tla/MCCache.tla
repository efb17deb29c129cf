------------------------------- MODULE MCCache -------------------------------
(* Instances of Cache: user keys a and b, their hashes, the callbacks. *)
EXTENDS Cache, TLC

CONSTANTS a, b, h1, h2

\* Two keys with hashes of their own
DistinctHash == (a :> h1) @@ (b :> h2)
DistinctConflict == (a :> 1) @@ (b :> 2)

\* A single key
OneHash == a :> h1
OneConflict == a :> 1

\* Config.Cost and Config.ShouldUpdate left nil
NilCoster(v) == 0
NilShouldUpdate(new, old) == TRUE

\* Config.Cost that finds every value to cost 2
TwoCoster(v) == 2

Symmetry == Permutations(Clients)
=============================================================================
