------------------------------ MODULE MCBuffer ------------------------------
(* A small instance of Buffer: slices of up to four cells, sorted by the first. *)
EXTENDS Buffer

MCSlices == {<<>>, <<1>>, <<2>>, <<1, 2, 2, 2>>}
MCless(s, t) == t # <<>> /\ (s = <<>> \/ s[1] < t[1])
=============================================================================
