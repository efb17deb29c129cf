------------------------------- MODULE GoMap -------------------------------
(***************************************************************************)
(* Go maps as partial functions: a key is present when it is in the domain.*)
(***************************************************************************)

EmptyMap == [x \in {} |-> 0]

\* f is a map from keys in S to values in T.
IsMap(f, S, T) == /\ DOMAIN f \subseteq S
                  /\ f \in [DOMAIN f -> T]

\* m[k] = v
Put(f, k, v) == [x \in DOMAIN f \cup {k} |-> IF x = k THEN v ELSE f[x]]

\* delete(m, k)
Remove(f, k) == [x \in DOMAIN f \ {k} |-> f[x]]
=============================================================================
