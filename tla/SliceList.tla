----------------------------- MODULE SliceList -----------------------------
(***************************************************************************)
(* What a z.Buffer that is used for slices promises: it holds the slices   *)
(* that were written, in order, and sorts any run of them.                 *)
(***************************************************************************)
EXTENDS Integers, Sequences, FiniteSets

CONSTANTS
    Slices,         \* the slices
    less(_, _)      \* the order to sort by, a strict weak order

VARIABLE list

ListInit == list = <<>>

WriteSlice(s) == list' = Append(list, s)

\* t has the elements of s.
Permuted(s, t) ==
    LET Times(x, u) == Cardinality({i \in 1..Len(u) : u[i] = x})
    IN  Len(s) = Len(t) /\ \A i \in 1..Len(s) : Times(s[i], s) = Times(s[i], t)

\* The slices between the i-th and the j-th are put in order; equal ones may trade
\* places.
SortBetween(i, j) ==
    /\ Len(list') = Len(list)
    /\ Permuted(SubSeq(list, i, j), SubSeq(list', i, j))
    /\ \A p, q \in i..j : p < q => ~less(list'[q], list'[p])
    /\ \A p \in 1..Len(list) : p \in i..j \/ list'[p] = list[p]

Reset == list' = <<>>

ListNext ==
    \/ \E s \in Slices : WriteSlice(s)
    \/ \E j \in 1..Len(list) : \E i \in 1..j : SortBetween(i, j)
    \/ Reset

ListSpec == ListInit /\ [][ListNext]_list
=============================================================================
