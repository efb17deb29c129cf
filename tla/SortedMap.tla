------------------------------ MODULE SortedMap ------------------------------
(***************************************************************************)
(* What the B+ tree of z/btree.go promises: a map from keys to values, in  *)
(* which 0 stands for no value.  The tree shares out its keys among        *)
(* leaves; fences are the greatest keys of the leaves, which deletion may  *)
(* leave where they are.                                                   *)
(***************************************************************************)
EXTENDS Naturals

CONSTANTS Keys, absoluteMax, Vals, Limits
VARIABLES map, fences

Empty == [k \in Keys |-> 0]

MapInit == map = Empty /\ fences = {absoluteMax}

\* If a leaf is split, there is one more fence.
Set(k, v) ==
    /\ map' = [map EXCEPT ![k] = v]
    /\ UNCHANGED fences \/ \E f \in 1..absoluteMax : fences' = fences \cup {f}

\* Values below ts go, except for those of the fences that stay.
DeleteBelow(ts) ==
    /\ fences' \subseteq fences
    /\ map' = [k \in Keys |-> IF map[k] < ts /\ k \notin fences' THEN 0 ELSE map[k]]

\* Every value below v becomes v.
Raise(v) ==
    /\ map' = [k \in Keys |-> IF map[k] \in 1..(v - 1) THEN v ELSE map[k]]
    /\ UNCHANGED fences

Reset == map' = Empty /\ fences' = {absoluteMax}

MapNext ==
    \/ \E k \in Keys, v \in Vals : Set(k, v)
    \/ \E ts \in Limits : DeleteBelow(ts)
    \/ \E v \in Vals : Raise(v)
    \/ Reset

MapSpec == MapInit /\ [][MapNext]_<<map, fences>>
=============================================================================
