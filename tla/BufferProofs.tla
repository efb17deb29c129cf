---------------------------- MODULE BufferProofs ----------------------------
(***************************************************************************)
(* A buffer for slices is a list.  The proofs go through one relation:     *)
(* the cells from lo to hi of some memory hold a list of slices.           *)
(***************************************************************************)
EXTENDS Buffer, SequenceTheorems, SumTheorems

\* Induction up to n
LEMMA UpTo ==
    ASSUME NEW n \in Nat, NEW S, 0 \in S, \A k \in 1..n : k - 1 \in S => k \in S
    PROVE  \A k \in 0..n : k \in S
<1>. DEFINE Bad == {k \in 0..n : k \notin S}
<1>. SUFFICES ASSUME Bad # {} PROVE FALSE
  OBVIOUS
<1>1. PICK k \in Bad : \A l \in Bad : k <= l
  <2>1. Bad \subseteq Nat
    OBVIOUS
  <2>. HIDE DEF Bad
  <2>. QED  BY <2>1, LeastNat
<1>2. k \in 1..n /\ k - 1 \in 0..n /\ k - 1 \notin S /\ ~(k <= k - 1)
  OBVIOUS
<1>. QED  BY <1>1, <1>2

Lists == Seq(Slices)
Cells == Seq(Nat)

\* The parts of a list of slices
LEMMA SliceType ==
    /\ \A s \in Slices : s \in Cells /\ Len(s) \in Nat
    /\ \A L \in Lists : \A i \in 1..Len(L) : L[i] \in Slices /\ L[i] \in Cells /\ Len(L[i]) \in Nat
<1>1. \A s \in Slices : s \in Seq(Nat) /\ Len(s) \in Nat
  BY BufferConstants
<1>. QED  BY <1>1 DEF Lists, Cells

-----------------------------------------------------------------------------
(* Cells that hold a list *)

\* The i-th slice of L is at o[i] in m, behind its length.
At(m, o, L) ==
    /\ o \in [1..(Len(L) + 1) -> Nat]
    /\ o[Len(L) + 1] <= Len(m)
    /\ \A i \in 1..Len(L) :
          /\ o[i + 1] = o[i] + 1 + Len(L[i])
          /\ m[o[i] + 1] = Len(L[i])
          /\ \A j \in 1..Len(L[i]) : m[o[i] + 1 + j] = L[i][j]

Holds(m, lo, hi, L) == \E o : At(m, o, L) /\ o[1] = lo /\ o[Len(L) + 1] = hi

\* The places of slices increase, by the cell of the length at least.
LEMMA AtIncreases ==
    ASSUME NEW m, NEW o, NEW L \in Lists, At(m, o, L),
           NEW i \in 1..(Len(L) + 1), NEW j \in 1..(Len(L) + 1), i <= j
    PROVE  o[i] + (j - i) <= o[j]
<1>. DEFINE S == {k \in 0..(Len(L) + 1 - i) : o[i] + k <= o[i + k]}
            n == Len(L) + 1 - i
<1>0. Len(L) \in Nat /\ n \in Nat
  BY DEF Lists
<1>a. \A x \in 1..(Len(L) + 1) : o[x] \in Nat
  BY DEF At
<1>1. 0 \in S
  <2>1. i + 0 = i /\ o[i] \in Nat /\ 0 \in 0..n
    BY <1>0, <1>a
  <2>. QED  BY <2>1
<1>2. ASSUME NEW k \in 1..n, k - 1 \in S PROVE k \in S
  <2>1. i + (k - 1) \in 1..Len(L) /\ i + (k - 1) + 1 = i + k
    BY <1>0
  <2>2. o[i + k] = o[i + (k - 1)] + 1 + Len(L[i + (k - 1)]) /\ Len(L[i + (k - 1)]) \in Nat
    BY <2>1, SliceType DEF At
  <2>3. o[i] \in Nat /\ o[i + (k - 1)] \in Nat /\ k \in 0..n
    BY <2>1, <1>0, <1>a
  <2>4. o[i] + (k - 1) <= o[i + (k - 1)]
    BY <1>2
  <2>5. o[i] + k <= o[i + k]
    BY <2>2, <2>3, <2>4, SMTT(40)
  <2>. QED  BY <2>3, <2>5
<1>3. \A k \in 0..n : k \in S
  <2>. HIDE DEF S, n
  <2>. QED  BY <1>0, <1>1, <1>2, UpTo
<1>4. j - i \in 0..n /\ i + (j - i) = j
  BY <1>0
<1>. QED  BY <1>3, <1>4

\* Where the slices are
LEMMA AtBounds ==
    ASSUME NEW m, NEW o, NEW L \in Lists, At(m, o, L), Len(m) \in Nat
    PROVE  /\ Len(L) \in Nat
           /\ \A i \in 1..(Len(L) + 1) : o[i] \in Nat /\ o[1] <= o[i] /\ o[i] <= o[Len(L) + 1] /\ o[i] <= Len(m)
           /\ \A i, j \in 1..(Len(L) + 1) : i < j => o[i] < o[j]
<1>1. Len(L) \in Nat
  BY DEF Lists
<1>2. \A i \in 1..(Len(L) + 1) : o[i] \in Nat
  BY DEF At
<1>3. ASSUME NEW i \in 1..(Len(L) + 1) PROVE o[1] <= o[i] /\ o[i] <= o[Len(L) + 1]
  <2>1. 1 \in 1..(Len(L) + 1) /\ Len(L) + 1 \in 1..(Len(L) + 1) /\ 1 <= i /\ i <= Len(L) + 1
    BY <1>1
  <2>2. o[1] + (i - 1) <= o[i]
    BY <2>1, AtIncreases
  <2>3. o[i] + (Len(L) + 1 - i) <= o[Len(L) + 1]
    BY <2>1, AtIncreases
  <2>. QED  BY <1>1, <1>2, <2>1, <2>2, <2>3
<1>4. o[Len(L) + 1] <= Len(m)
  BY DEF At
<1>5. ASSUME NEW i \in 1..(Len(L) + 1), NEW j \in 1..(Len(L) + 1), i < j PROVE o[i] < o[j]
  <2>1. o[i] + (j - i) <= o[j]
    BY <1>1, <1>5, AtIncreases
  <2>. QED  BY <1>1, <1>2, <1>5, <2>1
<1>6. \A i \in 1..(Len(L) + 1) : o[i] <= Len(m)
  <2>1. Len(L) + 1 \in 1..(Len(L) + 1)
    BY <1>1
  <2>. QED  BY <1>2, <1>3, <1>4, <2>1
<1>. QED  BY <1>1, <1>2, <1>3, <1>5, <1>6

\* The range that holds a list lies within the memory, and is empty if the list is.
LEMMA HoldsBounds ==
    ASSUME NEW m, Len(m) \in Nat, NEW lo, NEW hi, NEW L \in Lists, Holds(m, lo, hi, L)
    PROVE  lo \in Nat /\ hi \in Nat /\ lo <= hi /\ hi <= Len(m) /\ (lo = hi <=> L = <<>>) /\ Len(L) \in Nat
<1>1. PICK o : At(m, o, L) /\ o[1] = lo /\ o[Len(L) + 1] = hi
  BY DEF Holds
<1>2. Len(L) \in Nat /\ (Len(L) = 0 <=> L = <<>>)
  BY DEF Lists
<1>3. 1 \in 1..(Len(L) + 1) /\ Len(L) + 1 \in 1..(Len(L) + 1) /\ (1 < Len(L) + 1 <=> Len(L) # 0)
  BY <1>2
<1>. QED  BY <1>1, <1>2, <1>3, AtBounds

\* The cells of m from lo to hi are in w, moved by d.
Moves(m, lo, hi, w, d) == \A k \in Nat : lo < k /\ k <= hi => w[k + d] = m[k]

\* A copy of the cells holds the same list.
LEMMA HoldsShift ==
    ASSUME NEW m, Len(m) \in Nat, NEW lo, NEW hi, NEW L \in Lists, Holds(m, lo, hi, L),
           NEW w, NEW d \in Int, lo + d \in Nat, hi + d <= Len(w), Len(w) \in Nat,
           Moves(m, lo, hi, w, d)
    PROVE  Holds(w, lo + d, hi + d, L)
<1>1. PICK o : At(m, o, L) /\ o[1] = lo /\ o[Len(L) + 1] = hi
  BY DEF Holds
<1>. DEFINE p == [i \in 1..(Len(L) + 1) |-> o[i] + d]
<1>2. /\ Len(L) \in Nat
      /\ \A i \in 1..(Len(L) + 1) : o[i] \in Nat /\ lo <= o[i] /\ o[i] <= hi
      /\ 1 \in 1..(Len(L) + 1) /\ Len(L) + 1 \in 1..(Len(L) + 1)
  BY <1>1, AtBounds
<1>3. p \in [1..(Len(L) + 1) -> Nat] /\ p[1] = lo + d /\ p[Len(L) + 1] = hi + d
  BY <1>1, <1>2
<1>4. ASSUME NEW i \in 1..Len(L)
      PROVE  /\ p[i + 1] = p[i] + 1 + Len(L[i])
             /\ w[p[i] + 1] = Len(L[i])
             /\ \A j \in 1..Len(L[i]) : w[p[i] + 1 + j] = L[i][j]
  <2>1. /\ i \in 1..(Len(L) + 1) /\ i + 1 \in 1..(Len(L) + 1) /\ Len(L[i]) \in Nat
        /\ p[i] = o[i] + d /\ p[i + 1] = o[i + 1] + d
    BY <1>2, SliceType
  <2>2. o[i + 1] = o[i] + 1 + Len(L[i]) /\ m[o[i] + 1] = Len(L[i]) /\ \A j \in 1..Len(L[i]) : m[o[i] + 1 + j] = L[i][j]
    BY <1>1 DEF At
  <2>3. \A j \in 0..Len(L[i]) : o[i] + 1 + j \in Nat /\ lo < o[i] + 1 + j /\ o[i] + 1 + j <= hi /\ p[i] + 1 + j = (o[i] + 1 + j) + d
    <3>. HIDE DEF p
    <3>1. o[i] \in Nat /\ lo <= o[i] /\ o[i + 1] <= hi /\ lo \in Nat /\ hi \in Nat
      BY <1>1, <1>2, <2>1
    <3>2. o[i + 1] = o[i] + 1 + Len(L[i])
      BY <2>2
    <3>. SUFFICES ASSUME NEW j \in 0..Len(L[i])
                  PROVE  /\ o[i] + 1 + j \in Nat /\ lo < o[i] + 1 + j /\ o[i] + 1 + j <= hi
                         /\ p[i] + 1 + j = (o[i] + 1 + j) + d
      OBVIOUS
    <3>3. p[i] = o[i] + d /\ Len(L[i]) \in Nat
      BY <2>1
    <3>4. /\ o[i] + 1 + j \in Nat /\ lo < o[i] + 1 + j
      <4>1. j \in Nat
        BY <3>3
      <4>. QED  BY <3>1, <4>1, SMTT(40)
    <3>5. o[i] + 1 + j <= hi
      BY <3>1, <3>2, <3>3, SMTT(40)
    <3>6. p[i] + 1 + j = (o[i] + 1 + j) + d
      BY <3>1, <3>3
    <3>. QED  BY <3>4, <3>5, <3>6
  <2>. HIDE DEF p
  <2>4. \A j \in 0..Len(L[i]) : w[p[i] + 1 + j] = m[o[i] + 1 + j]
    BY <2>3 DEF Moves
  <2>5. w[p[i] + 1 + 0] = m[o[i] + 1 + 0] /\ p[i] + 1 + 0 = p[i] + 1 /\ o[i] + 1 + 0 = o[i] + 1
    BY <2>1, <2>4, <1>2, <1>3
  <2>6. \A j \in 1..Len(L[i]) : j \in 0..Len(L[i])
    BY <2>1
  <2>7. p[i + 1] = p[i] + 1 + Len(L[i])
    <3>1. o[i + 1] = o[i] + 1 + Len(L[i]) /\ o[i] \in Nat /\ Len(L[i]) \in Nat /\ p[i] = o[i] + d
      BY <1>2, <2>1, <2>2
    <3>. QED  BY <2>1, <3>1, SMTT(40)
  <2>8. \A j \in 1..Len(L[i]) : w[p[i] + 1 + j] = L[i][j]
    BY <2>2, <2>4, <2>6
  <2>. QED  BY <2>2, <2>5, <2>7, <2>8
<1>5. At(w, p, L)
  <2>. HIDE DEF p
  <2>. QED  BY <1>3, <1>4 DEF At
<1>. HIDE DEF p
<1>. QED  BY <1>3, <1>5 DEF Holds

\* A part of the memory, cell by cell
LEMMA BetweenCells ==
    ASSUME NEW m \in Cells, NEW lo \in Nat, NEW hi \in Nat, lo <= hi, hi <= Len(m)
    PROVE  /\ Between(m, lo, hi) \in Cells /\ Len(Between(m, lo, hi)) = hi - lo
           /\ \A k \in 1..(hi - lo) : Between(m, lo, hi)[k] = m[k + lo]
<1>. DEFINE w == SubSeq(m, lo + 1, hi)
<1>0. Len(m) \in Nat /\ m \in Seq(Nat)
  BY DEF Cells
<1>1. w = [k \in 1..(hi - lo) |-> m[k + lo]]
  <2>1. w = [k \in 1..(1 + hi - (lo + 1)) |-> m[k + (lo + 1) - 1]]
    OBVIOUS
  <2>2. 1 + hi - (lo + 1) = hi - lo /\ \A k \in 1..(hi - lo) : k + (lo + 1) - 1 = k + lo
    OBVIOUS
  <2>. HIDE DEF w
  <2>. QED  BY <2>1, <2>2
<1>2. \A k \in 1..(hi - lo) : m[k + lo] \in Nat
  <2>1. \A k \in 1..(hi - lo) : k + lo \in 1..Len(m)
    BY <1>0
  <2>. QED  BY <1>0, <2>1
<1>3. w \in Seq(Nat) /\ Len(w) = hi - lo /\ \A k \in 1..(hi - lo) : w[k] = m[k + lo]
  <2>1. hi - lo \in Nat
    OBVIOUS
  <2>. HIDE DEF w
  <2>. QED  BY <1>1, <1>2, <2>1, IsASeq
<1>. QED  BY <1>3 DEF Between, Cells

\* Copying changes the cells it writes to and no others.
LEMMA CopiedCells ==
    ASSUME NEW m \in Cells, NEW p \in Cells, NEW off \in Nat
    PROVE  /\ Copied(m, off, p) \in Cells /\ Len(Copied(m, off, p)) = Len(m)
           /\ \A k \in 1..Len(m) :
                 /\ k <= off \/ off + Len(p) < k => Copied(m, off, p)[k] = m[k]
                 /\ off < k /\ k <= off + Len(p) => Copied(m, off, p)[k] = p[k - off]
<1>. DEFINE w == Copied(m, off, p)
<1>1. Len(m) \in Nat /\ Len(p) \in Nat /\ DOMAIN m = 1..Len(m) /\ m \in Seq(Nat) /\ p \in Seq(Nat)
  BY DEF Cells
<1>2. w = [k \in 1..Len(m) |-> IF k - off \in 1..Len(p) THEN p[k - off] ELSE m[k]]
  BY <1>1 DEF Copied
<1>. HIDE DEF w
<1>3. \A k \in 1..Len(m) : w[k] = IF k - off \in 1..Len(p) THEN p[k - off] ELSE m[k]
  BY <1>2
<1>4. \A k \in 1..Len(m) : w[k] \in Nat
  <2>1. \A k \in 1..Len(m) : m[k] \in Nat
    BY <1>1
  <2>2. \A k \in 1..Len(p) : p[k] \in Nat
    BY <1>1
  <2>. QED  BY <1>3, <2>1, <2>2
<1>5. w \in Seq(Nat) /\ Len(w) = Len(m)
  BY <1>1, <1>2, <1>4, IsASeq
<1>6. ASSUME NEW k \in 1..Len(m)
      PROVE  /\ k <= off \/ off + Len(p) < k => w[k] = m[k]
             /\ off < k /\ k <= off + Len(p) => w[k] = p[k - off]
  BY <1>1, <1>3
<1>. QED  BY <1>5, <1>6 DEF w, Cells

\* Two parts of memory, one behind the other
LEMMA ConcatCells ==
    ASSUME NEW m \in Cells, NEW w \in Cells
    PROVE  /\ m \o w \in Cells /\ Len(m \o w) = Len(m) + Len(w)
           /\ \A k \in 1..Len(m) : (m \o w)[k] = m[k]
           /\ \A k \in 1..Len(w) : (m \o w)[k + Len(m)] = w[k]
           /\ Len(m) \in Nat /\ Len(w) \in Nat
<1>1. m \in Seq(Nat) /\ w \in Seq(Nat) /\ Len(m) \in Nat /\ Len(w) \in Nat
  BY DEF Cells
<1>2. \A k \in 1..Len(w) : k + Len(m) \in 1..(Len(m) + Len(w)) /\ k + Len(m) - Len(m) = k /\ ~(k + Len(m) <= Len(m))
  BY <1>1
<1>. QED  BY <1>1, <1>2, ConcatProperties DEF Cells

\* The length of a memory is a number.
LEMMA CellsLen == \A m \in Cells : Len(m) \in Nat
BY DEF Cells

\* A range that is cut out holds what it held.
LEMMA HoldsBetween ==
    ASSUME NEW m \in Cells, NEW lo, NEW hi, NEW L \in Lists, Holds(m, lo, hi, L)
    PROVE  Holds(Between(m, lo, hi), 0, hi - lo, L)
<1>. DEFINE w == Between(m, lo, hi)
            d == 0 - lo
<1>1. lo \in Nat /\ hi \in Nat /\ lo <= hi /\ hi <= Len(m) /\ Len(m) \in Nat
  BY CellsLen, HoldsBounds
<1>2. Len(w) = hi - lo /\ \A k \in 1..(hi - lo) : w[k] = m[k + lo]
  BY <1>1, BetweenCells
<1>3. /\ d \in Int /\ lo + d = 0 /\ hi + d = hi - lo /\ Len(w) \in Nat
      /\ lo + d \in Nat /\ hi + d <= Len(w)
  BY <1>1, <1>2
<1>4. Moves(m, lo, hi, w, d)
  <2>. HIDE DEF w
  <2>1. \A k \in Nat : lo < k /\ k <= hi => k - lo \in 1..(hi - lo) /\ (k - lo) + lo = k /\ k + d = k - lo
    BY <1>1
  <2>. QED  BY <1>2, <2>1 DEF Moves
<1>. HIDE DEF w, d
<1>5. Holds(w, lo + d, hi + d, L)
  BY <1>1, <1>2, <1>3, <1>4, HoldsShift
<1>. QED  BY <1>3, <1>5 DEF w

\* What copy has put at off
LEMMA HoldsCopied ==
    ASSUME NEW m \in Cells, NEW p \in Cells, NEW off \in Nat, off + Len(p) <= Len(m),
           NEW L \in Lists, Holds(p, 0, Len(p), L)
    PROVE  Holds(Copied(m, off, p), off, off + Len(p), L)
<1>. DEFINE w == Copied(m, off, p)
<1>1. /\ Len(w) = Len(m)
      /\ \A k \in 1..Len(m) : off < k /\ k <= off + Len(p) => w[k] = p[k - off]
  BY CopiedCells
<1>. HIDE DEF w
<1>2. Len(m) \in Nat /\ Len(p) \in Nat
  BY CellsLen
<1>3. Moves(p, 0, Len(p), w, off)
  <2>1. \A k \in Nat : 0 < k /\ k <= Len(p) => k + off \in 1..Len(m) /\ off < k + off /\ k + off <= off + Len(p) /\ (k + off) - off = k
    BY <1>2
  <2>. QED  BY <1>1, <2>1 DEF Moves
<1>4. 0 + off \in Nat /\ Len(p) + off <= Len(w) /\ Len(w) \in Nat /\ 0 + off = off /\ Len(p) + off = off + Len(p)
  BY <1>1, <1>2
<1>5. Holds(w, 0 + off, Len(p) + off, L)
  BY <1>2, <1>3, <1>4, HoldsShift
<1>. QED  BY <1>4, <1>5 DEF w

\* What copy has left alone
LEMMA HoldsBeside ==
    ASSUME NEW m \in Cells, NEW p \in Cells, NEW off \in Nat,
           NEW lo, NEW hi, NEW L \in Lists, Holds(m, lo, hi, L),
           hi <= off \/ off + Len(p) <= lo
    PROVE  Holds(Copied(m, off, p), lo, hi, L)
<1>. DEFINE w == Copied(m, off, p)
<1>1. /\ Len(w) = Len(m)
      /\ \A k \in 1..Len(m) : k <= off \/ off + Len(p) < k => w[k] = m[k]
  BY CopiedCells
<1>. HIDE DEF w
<1>2. Len(m) \in Nat /\ Len(p) \in Nat /\ lo \in Nat /\ hi \in Nat /\ hi <= Len(m)
  BY CellsLen, HoldsBounds
<1>3. Moves(m, lo, hi, w, 0)
  <2>1. \A k \in Nat : lo < k /\ k <= hi => k \in 1..Len(m) /\ k + 0 = k /\ (k <= off \/ off + Len(p) < k)
    BY <1>2
  <2>. QED  BY <1>1, <2>1 DEF Moves
<1>4. lo + 0 = lo /\ hi + 0 = hi /\ Len(w) \in Nat /\ hi <= Len(w)
  BY <1>1, <1>2
<1>5. Holds(w, lo + 0, hi + 0, L)
  BY <1>2, <1>3, <1>4, HoldsShift
<1>. QED  BY <1>4, <1>5 DEF w

\* What two memories hold, they hold side by side.
LEMMA HoldsConcat ==
    ASSUME NEW m \in Cells, NEW w \in Cells, NEW L \in Lists, NEW lo, NEW hi
    PROVE  /\ Holds(m, lo, hi, L) => Holds(m \o w, lo, hi, L)
           /\ Holds(w, lo, hi, L) => Holds(m \o w, Len(m) + lo, Len(m) + hi, L)
<1>. DEFINE c == m \o w
<1>1. /\ Len(c) = Len(m) + Len(w) /\ Len(m) \in Nat /\ Len(w) \in Nat
      /\ \A k \in 1..Len(m) : c[k] = m[k]
      /\ \A k \in 1..Len(w) : c[k + Len(m)] = w[k]
  BY ConcatCells
<1>. HIDE DEF c
<1>2. ASSUME Holds(m, lo, hi, L) PROVE Holds(c, lo, hi, L)
  <2>1. lo \in Nat /\ hi \in Nat /\ hi <= Len(m)
    BY <1>1, <1>2, HoldsBounds
  <2>2. Moves(m, lo, hi, c, 0)
    <3>1. \A k \in Nat : lo < k /\ k <= hi => k \in 1..Len(m) /\ k + 0 = k
      BY <1>1, <2>1
    <3>. QED  BY <1>1, <3>1 DEF Moves
  <2>3. lo + 0 = lo /\ hi + 0 = hi /\ Len(c) \in Nat /\ hi <= Len(c)
    BY <1>1, <2>1
  <2>4. Holds(c, lo + 0, hi + 0, L)
    BY <1>1, <1>2, <2>1, <2>2, <2>3, HoldsShift
  <2>. QED  BY <2>3, <2>4
<1>3. ASSUME Holds(w, lo, hi, L) PROVE Holds(c, Len(m) + lo, Len(m) + hi, L)
  <2>1. lo \in Nat /\ hi \in Nat /\ hi <= Len(w)
    BY <1>1, <1>3, HoldsBounds
  <2>2. Moves(w, lo, hi, c, Len(m))
    <3>1. \A k \in Nat : lo < k /\ k <= hi => k \in 1..Len(w)
      BY <1>1, <2>1
    <3>. QED  BY <1>1, <3>1 DEF Moves
  <2>3. /\ lo + Len(m) = Len(m) + lo /\ hi + Len(m) = Len(m) + hi /\ Len(c) \in Nat
        /\ hi + Len(m) <= Len(c) /\ lo + Len(m) \in Nat
    BY <1>1, <2>1
  <2>4. Holds(c, lo + Len(m), hi + Len(m), L)
    BY <1>1, <1>3, <2>2, <2>3, HoldsShift, SMTT(40)
  <2>. QED  BY <2>3, <2>4
<1>. QED  BY <1>2, <1>3 DEF c

\* The length of a list is a number.
LEMMA ListsLen == \A L \in Lists : Len(L) \in Nat /\ (Len(L) = 0 <=> L = <<>>)
BY DEF Lists

\* The slices of L from the i-th, before the j-th
Part(L, i, j) == SubSeq(L, i, j - 1)

\* A part of a list, slice by slice
LEMMA PartList ==
    ASSUME NEW L \in Lists, NEW i \in Nat, NEW j \in Nat, 1 <= i, i <= j, j <= Len(L) + 1
    PROVE  /\ Part(L, i, j) \in Lists /\ Len(Part(L, i, j)) = j - i
           /\ \A k \in 1..(j - i) : Part(L, i, j)[k] = L[k + (i - 1)]
<1>. DEFINE w == SubSeq(L, i, j - 1)
<1>0. Len(L) \in Nat /\ L \in Seq(Slices)
  BY DEF Lists
<1>1. w = [k \in 1..(j - i) |-> L[k + (i - 1)]]
  <2>1. w = [k \in 1..(1 + (j - 1) - i) |-> L[k + i - 1]]
    OBVIOUS
  <2>2. 1 + (j - 1) - i = j - i /\ \A k \in 1..(j - i) : k + i - 1 = k + (i - 1)
    OBVIOUS
  <2>. HIDE DEF w
  <2>. QED  BY <2>1, <2>2
<1>2. \A k \in 1..(j - i) : L[k + (i - 1)] \in Slices
  <2>1. \A k \in 1..(j - i) : k + (i - 1) \in 1..Len(L)
    BY <1>0
  <2>. QED  BY <1>0, <2>1
<1>3. w \in Seq(Slices) /\ Len(w) = j - i /\ \A k \in 1..(j - i) : w[k] = L[k + (i - 1)]
  <2>1. j - i \in Nat
    OBVIOUS
  <2>. HIDE DEF w
  <2>. QED  BY <1>1, <1>2, <2>1, IsASeq
<1>. QED  BY <1>3 DEF Part, Lists

\* Two lists, one behind the other
LEMMA ConcatLists ==
    ASSUME NEW A \in Lists, NEW B \in Lists
    PROVE  /\ A \o B \in Lists /\ Len(A \o B) = Len(A) + Len(B)
           /\ \A k \in 1..Len(A) : (A \o B)[k] = A[k]
           /\ \A k \in 1..Len(B) : (A \o B)[k + Len(A)] = B[k]
           /\ Len(A) \in Nat /\ Len(B) \in Nat
<1>1. A \in Seq(Slices) /\ B \in Seq(Slices) /\ Len(A) \in Nat /\ Len(B) \in Nat
  BY DEF Lists
<1>2. \A k \in 1..Len(B) : k + Len(A) \in 1..(Len(A) + Len(B)) /\ k + Len(A) - Len(A) = k /\ ~(k + Len(A) <= Len(A))
  BY <1>1
<1>. QED  BY <1>1, <1>2, ConcatProperties DEF Lists

\* An empty range holds the empty list.
LEMMA HoldsEmpty ==
    ASSUME NEW m \in Cells, NEW lo \in Nat, lo <= Len(m)
    PROVE  Holds(m, lo, lo, <<>>) /\ <<>> \in Lists
<1>. DEFINE o == [i \in 1..(Len(<<>>) + 1) |-> lo]
<1>1. Len(<<>>) = 0
  OBVIOUS
<1>2. At(m, o, <<>>) /\ o[1] = lo /\ o[Len(<<>>) + 1] = lo
  BY <1>1 DEF At
<1>. HIDE DEF o
<1>. QED  BY <1>2 DEF Holds, Lists

\* A length and a slice hold that slice.
LEMMA HoldsOne ==
    ASSUME NEW s \in Slices
    PROVE  /\ <<Len(s)>> \o s \in Cells /\ Len(<<Len(s)>> \o s) = 1 + Len(s)
           /\ Holds(<<Len(s)>> \o s, 0, 1 + Len(s), <<s>>)
           /\ <<s>> \in Lists /\ Len(<<s>>) = 1 /\ <<s>>[1] = s
<1>. DEFINE h == <<Len(s)>>
            m == h \o s
            L == <<s>>
            o == [i \in 1..2 |-> IF i = 1 THEN 0 ELSE 1 + Len(s)]
<1>1. s \in Cells /\ Len(s) \in Nat
  BY SliceType
<1>2. h \in Cells /\ Len(h) = 1 /\ h[1] = Len(s)
  BY <1>1 DEF Cells
<1>3. /\ m \in Cells /\ Len(m) = 1 + Len(s) /\ m[1] = Len(s)
      /\ \A k \in 1..Len(s) : m[k + 1] = s[k]
  <2>. HIDE DEF h
  <2>1. /\ m \in Cells /\ Len(m) = Len(h) + Len(s)
        /\ \A k \in 1..Len(h) : m[k] = h[k]
        /\ \A k \in 1..Len(s) : m[k + Len(h)] = s[k]
    BY <1>1, <1>2, ConcatCells
  <2>2. 1 \in 1..Len(h)
    BY <1>2
  <2>. HIDE DEF m
  <2>. QED  BY <1>1, <1>2, <2>1, <2>2
<1>. HIDE DEF m
<1>4. L \in Lists /\ Len(L) = 1 /\ L[1] = s
  BY DEF Lists
<1>. HIDE DEF L
<1>5. o \in [1..2 -> Nat] /\ o[1] = 0 /\ o[2] = 1 + Len(s)
  BY <1>1
<1>. HIDE DEF o
<1>6. At(m, o, L)
  <2>1. Len(L) + 1 = 2 /\ \A i \in 1..Len(L) : i = 1
    BY <1>4
  <2>2. /\ o[1 + 1] = o[1] + 1 + Len(s) /\ m[o[1] + 1] = Len(s)
        /\ \A j \in 1..Len(s) : o[1] + 1 + j = j + 1
    BY <1>1, <1>3, <1>5
  <2>3. \A j \in 1..Len(s) : m[o[1] + 1 + j] = s[j]
    BY <1>3, <2>2
  <2>4. o[2] <= Len(m)
    BY <1>1, <1>3, <1>5
  <2>. QED  BY <1>4, <1>5, <2>1, <2>2, <2>3, <2>4 DEF At
<1>7. Holds(m, 0, 1 + Len(s), L)
  BY <1>4, <1>5, <1>6 DEF Holds
<1>. QED  BY <1>3, <1>4, <1>7 DEF m, L

\* Adjoining ranges hold their lists, one behind the other.
LEMMA HoldsJoin ==
    ASSUME NEW m \in Cells, NEW lo, NEW mid, NEW hi, NEW A \in Lists, NEW B \in Lists,
           Holds(m, lo, mid, A), Holds(m, mid, hi, B)
    PROVE  Holds(m, lo, hi, A \o B) /\ A \o B \in Lists
<1>. DEFINE L == A \o B
<1>1. /\ L \in Lists /\ Len(L) = Len(A) + Len(B) /\ Len(A) \in Nat /\ Len(B) \in Nat
      /\ \A k \in 1..Len(A) : L[k] = A[k]
      /\ \A k \in 1..Len(B) : L[k + Len(A)] = B[k]
  BY ConcatLists
<1>. HIDE DEF L
<1>2. PICK p : At(m, p, A) /\ p[1] = lo /\ p[Len(A) + 1] = mid
  BY DEF Holds
<1>3. PICK q : At(m, q, B) /\ q[1] = mid /\ q[Len(B) + 1] = hi
  BY DEF Holds
<1>. DEFINE o == [i \in 1..(Len(L) + 1) |-> IF i <= Len(A) THEN p[i] ELSE q[i - Len(A)]]
<1>4. /\ \A i \in 1..(Len(A) + 1) : p[i] \in Nat
      /\ \A i \in 1..(Len(B) + 1) : q[i] \in Nat
  BY <1>2, <1>3 DEF At
<1>5. /\ \A i \in 1..(Len(A) + 1) : o[i] = p[i]
      /\ \A i \in 1..(Len(B) + 1) : o[i + Len(A)] = q[i]
  <2>1. ASSUME NEW i \in 1..(Len(A) + 1) PROVE o[i] = p[i]
    <3>1. i \in 1..(Len(L) + 1) /\ (i <= Len(A) \/ (i = Len(A) + 1 /\ i - Len(A) = 1 /\ ~(i <= Len(A))))
      BY <1>1
    <3>. QED  BY <1>2, <1>3, <3>1
  <2>2. ASSUME NEW i \in 1..(Len(B) + 1) PROVE o[i + Len(A)] = q[i]
    <3>1. i + Len(A) \in 1..(Len(L) + 1) /\ i + Len(A) - Len(A) = i /\ ~(i + Len(A) <= Len(A))
      BY <1>1
    <3>. QED  BY <3>1
  <2>. QED  BY <2>1, <2>2
<1>6. o \in [1..(Len(L) + 1) -> Nat]
  <2>1. \A i \in 1..(Len(L) + 1) : (i <= Len(A) => i \in 1..(Len(A) + 1)) /\ (~(i <= Len(A)) => i - Len(A) \in 1..(Len(B) + 1))
    BY <1>1
  <2>. QED  BY <1>4, <2>1
<1>. HIDE DEF o
<1>7. o[1] = lo /\ o[Len(L) + 1] = hi /\ o[Len(L) + 1] <= Len(m)
  <2>1. 1 \in 1..(Len(A) + 1) /\ Len(B) + 1 \in 1..(Len(B) + 1) /\ (Len(B) + 1) + Len(A) = Len(L) + 1
    BY <1>1
  <2>2. q[Len(B) + 1] <= Len(m)
    BY <1>3 DEF At
  <2>3. o[1] = p[1] /\ o[(Len(B) + 1) + Len(A)] = q[Len(B) + 1]
    BY <1>5, <2>1
  <2>. QED  BY <1>2, <1>3, <2>1, <2>2, <2>3
<1>. DEFINE Good(i) == /\ o[i + 1] = o[i] + 1 + Len(L[i])
                       /\ m[o[i] + 1] = Len(L[i])
                       /\ \A j \in 1..Len(L[i]) : m[o[i] + 1 + j] = L[i][j]
<1>8. ASSUME NEW i \in 1..Len(A) PROVE Good(i)
  <2>1. i \in 1..(Len(A) + 1) /\ i + 1 \in 1..(Len(A) + 1)
    BY <1>1
  <2>2. o[i] = p[i] /\ o[i + 1] = p[i + 1] /\ L[i] = A[i]
    BY <1>1, <1>5, <2>1
  <2>3. p[i + 1] = p[i] + 1 + Len(A[i]) /\ m[p[i] + 1] = Len(A[i]) /\ \A j \in 1..Len(A[i]) : m[p[i] + 1 + j] = A[i][j]
    BY <1>2 DEF At
  <2>. QED  BY <2>2, <2>3
<1>9. ASSUME NEW k \in 1..Len(B) PROVE Good(k + Len(A))
  <2>1. k \in 1..(Len(B) + 1) /\ k + 1 \in 1..(Len(B) + 1) /\ (k + Len(A)) + 1 = (k + 1) + Len(A)
    BY <1>1
  <2>2. o[k + Len(A)] = q[k] /\ o[(k + 1) + Len(A)] = q[k + 1] /\ L[k + Len(A)] = B[k]
    BY <1>1, <1>5, <2>1
  <2>3. q[k + 1] = q[k] + 1 + Len(B[k]) /\ m[q[k] + 1] = Len(B[k]) /\ \A j \in 1..Len(B[k]) : m[q[k] + 1 + j] = B[k][j]
    BY <1>3 DEF At
  <2>. QED  BY <2>1, <2>2, <2>3
<1>10. \A i \in 1..Len(L) : Good(i)
  <2>1. \A i \in 1..Len(L) : i \in 1..Len(A) \/ (i - Len(A) \in 1..Len(B) /\ (i - Len(A)) + Len(A) = i)
    BY <1>1
  <2>. HIDE DEF Good
  <2>. QED  BY <1>8, <1>9, <2>1
<1>11. At(m, o, L)
  BY <1>6, <1>7, <1>10 DEF At
<1>. QED  BY <1>1, <1>7, <1>11 DEF Holds, L

\* The range between two places holds the slices from one to the other.
LEMMA AtPart ==
    ASSUME NEW m \in Cells, NEW o, NEW L \in Lists, At(m, o, L),
           NEW i \in 1..(Len(L) + 1), NEW j \in 1..(Len(L) + 1), i <= j
    PROVE  Holds(m, o[i], o[j], Part(L, i, j)) /\ Part(L, i, j) \in Lists
<1>. DEFINE P == Part(L, i, j)
            p == [k \in 1..(Len(P) + 1) |-> o[k + (i - 1)]]
<1>0. Len(L) \in Nat /\ i \in Nat /\ j \in Nat /\ 1 <= i /\ j <= Len(L) + 1
  BY ListsLen
<1>1. P \in Lists /\ Len(P) = j - i /\ \A k \in 1..(j - i) : P[k] = L[k + (i - 1)]
  BY <1>0, PartList
<1>. HIDE DEF P
<1>2. /\ \A k \in 1..(Len(P) + 1) : k + (i - 1) \in 1..(Len(L) + 1) /\ p[k] = o[k + (i - 1)]
      /\ 1 \in 1..(Len(P) + 1) /\ Len(P) + 1 \in 1..(Len(P) + 1)
      /\ 1 + (i - 1) = i /\ (Len(P) + 1) + (i - 1) = j
  BY <1>0, <1>1
<1>3. p \in [1..(Len(P) + 1) -> Nat]
  BY <1>2 DEF At
<1>. HIDE DEF p
<1>4. p[1] = o[i] /\ p[Len(P) + 1] = o[j] /\ o[j] <= Len(m)
  <2>1. o[j] <= Len(m)
    BY CellsLen, AtBounds
  <2>2. p[1] = o[1 + (i - 1)] /\ p[Len(P) + 1] = o[(Len(P) + 1) + (i - 1)]
    BY <1>2
  <2>. QED  BY <1>2, <2>1, <2>2
<1>5. ASSUME NEW k \in 1..Len(P)
      PROVE  /\ p[k + 1] = p[k] + 1 + Len(P[k])
             /\ m[p[k] + 1] = Len(P[k])
             /\ \A l \in 1..Len(P[k]) : m[p[k] + 1 + l] = P[k][l]
  <2>. DEFINE x == k + (i - 1)
  <2>1. x \in 1..Len(L) /\ k \in 1..(Len(P) + 1) /\ k + 1 \in 1..(Len(P) + 1) /\ (k + 1) + (i - 1) = x + 1 /\ k \in 1..(j - i)
    BY <1>0, <1>1
  <2>2. p[k] = o[x] /\ p[k + 1] = o[(k + 1) + (i - 1)] /\ P[k] = L[x]
    BY <1>1, <1>2, <2>1
  <2>. HIDE DEF x
  <2>3. o[x + 1] = o[x] + 1 + Len(L[x]) /\ m[o[x] + 1] = Len(L[x]) /\ \A l \in 1..Len(L[x]) : m[o[x] + 1 + l] = L[x][l]
    BY <2>1 DEF At
  <2>. QED  BY <2>1, <2>2, <2>3
<1>6. At(m, p, P)
  BY <1>3, <1>4, <1>5 DEF At
<1>. QED  BY <1>1, <1>4, <1>6 DEF Holds, P

\* What is read at the offset of a slice
SliceIn(m, o, L, i) ==
    /\ o[i] \in Nat /\ o[i + 1] \in Nat /\ m[o[i] + 1] = Len(L[i])
    /\ o[i] + 1 + m[o[i] + 1] = o[i + 1] /\ o[i + 1] <= Len(m) /\ o[i] < o[i + 1]
    /\ Between(m, o[i] + 1, o[i + 1]) = L[i]
    /\ rawSlice(m, o[i]) = <<Len(L[i])>> \o L[i]

\* What is found at the place of a slice
LEMMA AtSlice ==
    ASSUME NEW m \in Cells, NEW o, NEW L \in Lists, At(m, o, L), NEW i \in 1..Len(L)
    PROVE  SliceIn(m, o, L, i)
<1>. DEFINE s == L[i]
<1>1. s \in Slices /\ s \in Cells /\ Len(s) \in Nat
  BY SliceType
<1>2. o[i + 1] = o[i] + 1 + Len(s) /\ m[o[i] + 1] = Len(s) /\ \A j \in 1..Len(s) : m[o[i] + 1 + j] = s[j]
  BY DEF At
<1>. HIDE DEF s
<1>3. o[i] \in Nat /\ o[i + 1] \in Nat /\ o[i + 1] <= Len(m) /\ Len(m) \in Nat
  <2>1. i \in 1..(Len(L) + 1) /\ i + 1 \in 1..(Len(L) + 1) /\ Len(m) \in Nat
    BY ListsLen, CellsLen
  <2>. QED  BY <2>1, AtBounds
<1>4. Between(m, o[i] + 1, o[i + 1]) = s
  <2>. DEFINE w == Between(m, o[i] + 1, o[i + 1])
  <2>1. o[i] + 1 \in Nat /\ o[i] + 1 <= o[i + 1] /\ o[i + 1] - (o[i] + 1) = Len(s)
    BY <1>1, <1>2, <1>3, SMTT(40)
  <2>2. w \in Cells /\ Len(w) = Len(s) /\ \A k \in 1..Len(s) : w[k] = m[k + (o[i] + 1)]
    <3>1. w \in Cells /\ Len(w) = o[i + 1] - (o[i] + 1) /\ \A k \in 1..(o[i + 1] - (o[i] + 1)) : w[k] = m[k + (o[i] + 1)]
      BY <1>3, <2>1, BetweenCells
    <3>. HIDE DEF w
    <3>. QED  BY <2>1, <3>1
  <2>. HIDE DEF w
  <2>3. \A k \in 1..Len(s) : k + (o[i] + 1) = o[i] + 1 + k
    BY <1>3
  <2>4. \A k \in 1..Len(s) : w[k] = s[k]
    BY <1>2, <2>2, <2>3
  <2>5. w \in Seq(Nat) /\ s \in Seq(Nat)
    BY <1>1, <2>2 DEF Cells
  <2>6. w = s
    BY <2>2, <2>4, <2>5, SeqEqual
  <2>. QED  BY <2>6 DEF w
<1>5. rawSlice(m, o[i]) = <<Len(s)>> \o s
  <2>. DEFINE w == Between(m, o[i], o[i + 1])
              v == <<Len(s)>> \o s
  <2>0. o[i] <= o[i + 1] /\ o[i + 1] - o[i] = 1 + Len(s) /\ o[i] + 1 + m[o[i] + 1] = o[i + 1]
    BY <1>1, <1>2, <1>3
  <2>1. w \in Cells /\ Len(w) = 1 + Len(s) /\ \A k \in 1..(1 + Len(s)) : w[k] = m[k + o[i]]
    <3>1. w \in Cells /\ Len(w) = o[i + 1] - o[i] /\ \A k \in 1..(o[i + 1] - o[i]) : w[k] = m[k + o[i]]
      BY <1>3, <2>0, BetweenCells
    <3>. HIDE DEF w
    <3>. QED  BY <2>0, <3>1
  <2>2. v \in Cells /\ Len(v) = 1 + Len(s) /\ v[1] = Len(s) /\ \A k \in 1..Len(s) : v[k + 1] = s[k]
    <3>. DEFINE h == <<Len(s)>>
    <3>1. h \in Cells /\ Len(h) = 1 /\ h[1] = Len(s)
      BY <1>1 DEF Cells
    <3>. HIDE DEF h
    <3>2. /\ h \o s \in Cells /\ Len(h \o s) = Len(h) + Len(s)
          /\ \A k \in 1..Len(h) : (h \o s)[k] = h[k]
          /\ \A k \in 1..Len(s) : (h \o s)[k + Len(h)] = s[k]
      BY <1>1, <3>1, ConcatCells
    <3>3. 1 \in 1..Len(h)
      BY <3>1
    <3>4. /\ h \o s \in Cells /\ Len(h \o s) = 1 + Len(s) /\ (h \o s)[1] = Len(s)
          /\ \A k \in 1..Len(s) : (h \o s)[k + 1] = s[k]
      BY <3>1, <3>2, <3>3
    <3>. QED  BY <3>4 DEF h
  <2>. HIDE DEF v
  <2>3. ASSUME NEW k \in 1..(1 + Len(s)) PROVE w[k] = v[k]
    <3>. HIDE DEF w
    <3>1. k = 1 \/ (k - 1 \in 1..Len(s) /\ (k - 1) + 1 = k /\ k + o[i] = o[i] + 1 + (k - 1))
      BY <1>1, <1>3
    <3>2. 1 + o[i] = o[i] + 1
      BY <1>3
    <3>. QED  BY <1>2, <2>1, <2>2, <3>1, <3>2
  <2>. HIDE DEF w
  <2>5. w \in Seq(Nat) /\ v \in Seq(Nat)
    BY <2>1, <2>2 DEF Cells
  <2>6. w = v
    BY <2>1, <2>2, <2>3, <2>5, SeqEqual
  <2>. QED  BY <2>0, <2>6 DEF w, v, rawSlice
<1>6. o[i] + 1 + m[o[i] + 1] = o[i + 1] /\ o[i] < o[i + 1]
  BY <1>1, <1>2, <1>3
<1>. QED  BY <1>2, <1>3, <1>4, <1>5, <1>6 DEF s, SliceIn

-----------------------------------------------------------------------------
(* Reading: the recursive functions of Contents, OffsetsFrom, SliceIterate   *)
(* and NonEmpty exist, and what they return.                                 *)

\* A sequence is its first element and the rest.
LEMMA Cons ==
    ASSUME NEW S, NEW s \in Seq(S), NEW t \in Seq(S), Len(s) = Len(t) + 1,
           \A k \in 1..Len(t) : s[k + 1] = t[k]
    PROVE  <<s[1]>> \o t = s
<1>. DEFINE h == <<s[1]>>
            c == h \o t
<1>1. Len(t) \in Nat /\ Len(s) \in Nat /\ 1 \in 1..Len(s)
  OBVIOUS
<1>2. h \in Seq(S) /\ Len(h) = 1 /\ h[1] = s[1]
  BY <1>1
<1>. HIDE DEF h
<1>3. c \in Seq(S) /\ Len(c) = Len(h) + Len(t) /\ \A k \in 1..(Len(h) + Len(t)) : c[k] = IF k <= Len(h) THEN h[k] ELSE t[k - Len(h)]
  BY <1>2, ConcatProperties
<1>. HIDE DEF c
<1>4. ASSUME NEW k \in 1..Len(s) PROVE c[k] = s[k]
  <2>1. k \in 1..(Len(h) + Len(t)) /\ (k <= 1 => k = 1) /\ (~(k <= 1) => k - 1 \in 1..Len(t) /\ (k - 1) + 1 = k)
    BY <1>1, <1>2
  <2>. QED  BY <1>2, <1>3, <2>1
<1>5. Len(c) = Len(s)
  BY <1>1, <1>2, <1>3
<1>6. c = s
  BY <1>3, <1>4, <1>5, SeqEqual
<1>. QED  BY <1>6 DEF c, h

IsReader(f, m, end) ==
    f = [off \in Nat |->
            IF off >= end THEN <<>>
            ELSE LET next == off + 1 + m[off + 1]
                 IN  <<Between(m, off + 1, next)>> \o f[next]]
Reader(m, end) == CHOOSE f : IsReader(f, m, end)

\* The recursion of Reader defines a function.
LEMMA ReaderExists ==
    ASSUME NEW m \in Cells, NEW end \in Nat, end <= Len(m)
    PROVE  IsReader(Reader(m, end), m, end)
<1>. DEFINE D == Nat
            next(off) == off + 1 + m[off + 1]
            U == {Between(m, off + 1, next(off)) : off \in Nat}
            V == Seq(U)
            w == [off \in D |-> IF off >= end THEN 0 ELSE end - off]
            G == [off \in D |-> [F \in [D -> V] |->
                    IF off >= end THEN <<>> ELSE <<Between(m, off + 1, next(off))>> \o F[next(off)]]]
<1>1. \A off \in D : off < end => m[off + 1] \in Nat /\ next(off) \in D /\ next(off) > off
  <2>1. \A off \in D : off < end => off + 1 \in 1..Len(m)
    BY CellsLen
  <2>2. \A off \in D : off < end => m[off + 1] \in Nat
    BY <2>1 DEF Cells
  <2>. QED  BY <2>2
<1>2. <<>> \in V
  OBVIOUS
<1>3. w \in [D -> Nat] /\ \A off \in D : w[off] <= end
  OBVIOUS
<1>4. G \in [D -> [[D -> V] -> V]]
  <2>. SUFFICES ASSUME NEW off \in D, NEW F \in [D -> V]
                PROVE  (IF off >= end THEN <<>> ELSE <<Between(m, off + 1, next(off))>> \o F[next(off)]) \in V
    BY Zenon
  <2>1. CASE off >= end
    BY <2>1, <1>2
  <2>2. CASE ~(off >= end)
    <3>1. F[next(off)] \in V
      <4>. HIDE DEF next, V
      <4>. QED  BY <1>1, <2>2
    <3>2. Between(m, off + 1, next(off)) \in U
      OBVIOUS
    <3>. HIDE DEF U, next
    <3>. QED  BY <2>2, <3>1, <3>2
  <2>. HIDE DEF next, V
  <2>. QED  BY <2>1, <2>2
<1>5. ASSUME NEW off \in D, NEW g \in [D -> V], NEW h \in [D -> V], \A y \in D : w[y] < w[off] => g[y] = h[y]
      PROVE  G[off][g] = G[off][h]
  <2>1. CASE off >= end
    <3>. HIDE DEF next, V
    <3>. QED  BY <2>1
  <2>2. CASE ~(off >= end)
    <3>1. next(off) \in D /\ w[next(off)] < w[off]
      <4>. HIDE DEF next
      <4>. QED  BY <1>1, <2>2
    <3>2. g[next(off)] = h[next(off)]
      <4>. HIDE DEF w, next, V
      <4>. QED  BY <1>5, <3>1
    <3>. HIDE DEF next, V
    <3>. QED  BY <2>2, <3>2
  <2>. QED  BY <2>1, <2>2
<1>6. \E F \in [D -> V] : \A off \in D : F[off] = G[off][F]
  <2>. HIDE DEF G, V, w, D
  <2>1. Recursion(D, V, w, end, G)
    BY <1>2, <1>3, <1>4, <1>5 DEF Recursion
  <2>. QED  BY <2>1, RecursionExists
<1>7. PICK F \in [D -> V] : \A off \in D : F[off] = G[off][F]
  BY <1>6
<1>8. \A off \in D : F[off] = IF off >= end THEN <<>> ELSE <<Between(m, off + 1, next(off))>> \o F[next(off)]
  <2>. HIDE DEF V, next
  <2>. QED  BY <1>7
<1>9. IsReader(F, m, end)
  <2>. HIDE DEF V
  <2>. QED  BY <1>8 DEF IsReader
<1>. QED  BY <1>9 DEF Reader

\* A part of a list is its first slice and the rest.
LEMMA PartStep ==
    ASSUME NEW L \in Lists, NEW i \in 1..Len(L), NEW j \in (i + 1)..(Len(L) + 1)
    PROVE  Part(L, i, j) = <<L[i]>> \o Part(L, i + 1, j)
<1>. DEFINE s == Part(L, i, j)
            t == Part(L, i + 1, j)
<1>1. i \in Nat /\ j \in Nat /\ i + 1 \in Nat /\ 1 <= i /\ i <= j /\ i + 1 <= j /\ j <= Len(L) + 1 /\ 1 <= i + 1 /\ Len(L) \in Nat
  BY ListsLen
<1>2. s \in Lists /\ Len(s) = j - i /\ \A k \in 1..(j - i) : s[k] = L[k + (i - 1)]
  BY <1>1, PartList
<1>3. t \in Lists /\ Len(t) = j - (i + 1) /\ \A k \in 1..(j - (i + 1)) : t[k] = L[k + ((i + 1) - 1)]
  BY <1>1, PartList
<1>. HIDE DEF s, t
<1>4. \A k \in 1..Len(t) : k + 1 \in 1..(j - i) /\ (k + 1) + (i - 1) = k + ((i + 1) - 1)
  BY <1>1, <1>3
<1>5. \A k \in 1..Len(t) : s[k + 1] = t[k]
  BY <1>2, <1>3, <1>4
<1>6. Len(s) = Len(t) + 1 /\ 1 \in 1..(j - i) /\ 1 + (i - 1) = i
  BY <1>1, <1>2, <1>3
<1>7. s[1] = L[i]
  BY <1>2, <1>6
<1>8. s \in Seq(Slices) /\ t \in Seq(Slices)
  BY <1>2, <1>3 DEF Lists
<1>9. <<s[1]>> \o t = s
  BY <1>5, <1>6, <1>8, Cons
<1>. QED  BY <1>7, <1>9 DEF s, t

\* The whole list and the empty parts of it
LEMMA PartEnds ==
    ASSUME NEW L \in Lists
    PROVE  /\ Part(L, 1, Len(L) + 1) = L
           /\ \A i \in 1..(Len(L) + 1) : Part(L, i, i) = <<>>
<1>1. /\ Len(L) \in Nat /\ Len(L) + 1 \in Nat /\ 1 <= Len(L) + 1 /\ (Len(L) + 1) - 1 = Len(L)
      /\ 1 \in Nat /\ 1 <= 1 /\ Len(L) + 1 <= Len(L) + 1
  BY ListsLen
<1>2. Part(L, 1, Len(L) + 1) = L
  <2>. DEFINE s == Part(L, 1, Len(L) + 1)
  <2>1. s \in Lists /\ Len(s) = (Len(L) + 1) - 1 /\ \A k \in 1..((Len(L) + 1) - 1) : s[k] = L[k + (1 - 1)]
    BY <1>1, PartList
  <2>. HIDE DEF s
  <2>2. \A k \in 1..Len(L) : s[k] = L[k]
    BY <1>1, <2>1
  <2>3. s = L
    BY <1>1, <2>1, <2>2, SeqEqual DEF Lists
  <2>. QED  BY <2>3 DEF s
<1>3. ASSUME NEW i \in 1..(Len(L) + 1) PROVE Part(L, i, i) = <<>>
  <2>1. i \in Nat /\ 1 <= i /\ i <= i /\ i <= Len(L) + 1 /\ i - i = 0
    BY <1>1
  <2>2. Part(L, i, i) \in Lists /\ Len(Part(L, i, i)) = i - i
    BY <2>1, PartList
  <2>. QED  BY <2>1, <2>2, ListsLen
<1>. QED  BY <1>2, <1>3

\* Contents is the list.
LEMMA ReaderIs ==
    ASSUME NEW m \in Cells, NEW lo, NEW end, NEW L \in Lists, Holds(m, lo, end, L)
    PROVE  Reader(m, end)[lo] = L
<1>. DEFINE f == Reader(m, end)
            N == Len(L)
<1>1. PICK o : At(m, o, L) /\ o[1] = lo /\ o[N + 1] = end
  BY DEF Holds
<1>2. N \in Nat /\ \A i \in 1..(N + 1) : o[i] \in Nat /\ o[i] <= Len(m)
  BY <1>1, CellsLen, AtBounds
<1>3. end \in Nat /\ end <= Len(m)
  <2>1. N + 1 \in 1..(N + 1)
    BY <1>2
  <2>. QED  BY <1>1, <1>2, <2>1
<1>4. IsReader(f, m, end)
  BY <1>3, ReaderExists
<1>. HIDE DEF f
<1>5. \A off \in Nat : f[off] = IF off >= end THEN <<>>
                                ELSE LET next == off + 1 + m[off + 1]
                                     IN  <<Between(m, off + 1, next)>> \o f[next]
  BY <1>4 DEF IsReader
<1>. DEFINE S == {k \in 0..N : f[o[N + 1 - k]] = Part(L, N + 1 - k, N + 1)}
<1>6. 0 \in S
  <2>1. N + 1 - 0 = N + 1 /\ N + 1 \in 1..(N + 1) /\ 0 \in 0..N
    BY <1>2
  <2>2. f[end] = <<>>
    <3>1. end >= end
      BY <1>3
    <3>. QED  BY <1>3, <1>5, <3>1
  <2>3. Part(L, N + 1, N + 1) = <<>>
    BY <2>1, PartEnds
  <2>. QED  BY <1>1, <2>1, <2>2, <2>3
<1>7. ASSUME NEW k \in 1..N, k - 1 \in S PROVE k \in S
  <2>0. PICK i \in 1..N : i = N + 1 - k
    BY <1>2, N + 1 - k \in 1..N
  <2>1. i \in 1..N /\ i + 1 = N + 1 - (k - 1) /\ k \in 0..N /\ N + 1 \in (i + 1)..(N + 1) /\ i \in 1..(N + 1) /\ i + 1 \in 1..(N + 1)
    BY <1>2, <2>0
  <2>2. f[o[i + 1]] = Part(L, i + 1, N + 1)
    BY <1>7, <2>1
  <2>3. /\ o[i] \in Nat /\ o[i + 1] \in Nat /\ o[i] + 1 + m[o[i] + 1] = o[i + 1] /\ o[i] < o[i + 1]
        /\ Between(m, o[i] + 1, o[i + 1]) = L[i]
    <3>1. i \in 1..Len(L) /\ At(m, o, L)
      BY <1>1, <2>1
    <3>2. SliceIn(m, o, L, i)
      BY <3>1, AtSlice
    <3>. QED  BY <3>2 DEF SliceIn
  <2>4. o[i + 1] <= end
    BY <1>1, <1>2, <2>1, CellsLen, AtBounds
  <2>5. ~(o[i] >= end)
    BY <1>3, <2>3, <2>4
  <2>6. f[o[i]] = <<L[i]>> \o f[o[i + 1]]
    BY <1>5, <2>3, <2>5
  <2>7. f[o[i]] = Part(L, i, N + 1)
    BY <2>1, <2>2, <2>6, PartStep
  <2>. QED  BY <2>0, <2>1, <2>7
<1>8. N \in S
  <2>1. \A k \in 0..N : k \in S
    <3>. HIDE DEF S, N
    <3>. QED  BY <1>2, <1>6, <1>7, UpTo
  <2>. QED  BY <1>2, <2>1
<1>9. N + 1 - N = 1
  BY <1>2
<1>10. f[o[1]] = Part(L, 1, N + 1)
  BY <1>8, <1>9
<1>. QED  BY <1>1, <1>10, PartEnds DEF f

Usable(b) == b.buf \in Cells /\ b.offset \in Nat /\ b.offset <= Len(b.buf)

\* Slice moves on within the used part, or says that it was the last.
LEMMA SliceNext ==
    ASSUME NEW b, Usable(b), NEW off \in Nat
    PROVE  /\ Slice(b, off).next \in Int
           /\ \/ Slice(b, off).next = -1
              \/ Slice(b, off).next > off /\ off < b.offset /\ Slice(b, off).next < b.offset
<1>1. CASE off >= b.offset
  BY <1>1 DEF Slice
<1>2. CASE ~(off >= b.offset)
  <2>1. off + 1 \in 1..Len(b.buf)
    BY <1>2, CellsLen DEF Usable
  <2>2. b.buf[off + 1] \in Nat
    BY <2>1 DEF Usable, Cells
  <2>. DEFINE next == off + 1 + b.buf[off + 1]
  <2>3. Slice(b, off).next = IF next >= b.offset THEN -1 ELSE next
    BY <1>2 DEF Slice
  <2>4. next \in Int /\ next > off /\ b.offset \in Nat
    BY <2>2 DEF Usable
  <2>. HIDE DEF next
  <2>. QED  BY <1>2, <2>3, <2>4
<1>. QED  BY <1>1, <1>2

IsOffsets(f, b, end) ==
    f = [off \in Int |-> IF off < 0 \/ off >= end THEN <<>> ELSE <<off>> \o f[Slice(b, off).next]]

\* The recursion of OffsetsFrom defines a function.
LEMMA OffsetsExist ==
    ASSUME NEW b, Usable(b), NEW end \in Nat
    PROVE  \E f : IsOffsets(f, b, end)
<1>. DEFINE D == Int
            V == Seq(Int)
            next(off) == Slice(b, off).next
            w == [off \in D |-> IF off < 0 \/ off >= end THEN 0 ELSE end - off]
            G == [off \in D |-> [F \in [D -> V] |->
                    IF off < 0 \/ off >= end THEN <<>> ELSE <<off>> \o F[next(off)]]]
<1>1. \A off \in D : ~(off < 0 \/ off >= end) => next(off) \in D /\ (next(off) = -1 \/ next(off) > off)
  BY SliceNext
<1>. HIDE DEF next
<1>2. <<>> \in V
  OBVIOUS
<1>3. w \in [D -> Nat] /\ \A off \in D : w[off] <= end
  OBVIOUS
<1>4. G \in [D -> [[D -> V] -> V]]
  <2>. SUFFICES ASSUME NEW off \in D, NEW F \in [D -> V]
                PROVE  (IF off < 0 \/ off >= end THEN <<>> ELSE <<off>> \o F[next(off)]) \in V
    BY Zenon
  <2>1. ASSUME ~(off < 0 \/ off >= end) PROVE F[next(off)] \in V
    <3>. HIDE DEF V
    <3>. QED  BY <1>1, <2>1
  <2>. QED  BY <1>2, <2>1
<1>a. ASSUME NEW off \in D, ~(off < 0 \/ off >= end)
      PROVE  next(off) \in D /\ w[next(off)] < w[off]
  BY <1>1, <1>a
<1>5. ASSUME NEW off \in D, NEW g \in [D -> V], NEW h \in [D -> V], \A y \in D : w[y] < w[off] => g[y] = h[y]
      PROVE  G[off][g] = G[off][h]
  <2>1. ASSUME ~(off < 0 \/ off >= end) PROVE g[next(off)] = h[next(off)]
    <3>1. next(off) \in D /\ w[next(off)] < w[off]
      BY <1>a, <2>1
    <3>. HIDE DEF w, V
    <3>. QED  BY <1>5, <3>1
  <2>. HIDE DEF V, w
  <2>. QED  BY <2>1
<1>6. \E F \in [D -> V] : \A off \in D : F[off] = G[off][F]
  <2>. HIDE DEF G, V, w, D
  <2>1. Recursion(D, V, w, end, G)
    BY <1>2, <1>3, <1>4, <1>5 DEF Recursion
  <2>. QED  BY <2>1, RecursionExists
<1>7. PICK F \in [D -> V] : \A off \in D : F[off] = G[off][F]
  BY <1>6
<1>8. \A off \in D : F[off] = IF off < 0 \/ off >= end THEN <<>> ELSE <<off>> \o F[next(off)]
  <2>. HIDE DEF V
  <2>. QED  BY <1>7
<1>9. IsOffsets(F, b, end)
  <2>. HIDE DEF V
  <2>. QED  BY <1>8 DEF IsOffsets, next
<1>. QED  BY <1>9

\* OffsetsFrom is a value of that function.
LEMMA OffsetsFromIs ==
    ASSUME NEW b, Usable(b), NEW start \in Int, NEW end \in Nat
    PROVE  \E f : IsOffsets(f, b, end) /\ OffsetsFrom(b, start, end) = f[start]
<1>. DEFINE f == CHOOSE g : IsOffsets(g, b, end)
<1>1. IsOffsets(f, b, end)
  BY OffsetsExist
<1>2. OffsetsFrom(b, start, end) = f[start]
  BY DEF OffsetsFrom, IsOffsets
<1>. HIDE DEF f
<1>. QED  BY <1>1, <1>2

\* The buffer holds slices L, at o.
Located(b, o, L) == Usable(b) /\ L \in Lists /\ At(b.buf, o, L) /\ o[Len(L) + 1] <= b.offset
\* They are all it holds.
Slicing(b, o, L) == Located(b, o, L) /\ o[1] = padding /\ o[Len(L) + 1] = b.offset

\* What is known of a buffer in which a range holds a list
LEMMA LocatedFacts ==
    ASSUME NEW b, NEW o, NEW L, Located(b, o, L)
    PROVE  /\ Usable(b) /\ b.buf \in Cells /\ L \in Lists /\ Len(L) \in Nat /\ At(b.buf, o, L)
           /\ b.offset \in Nat
           /\ \A i \in 1..(Len(L) + 1) : o[i] \in Nat /\ o[i] <= b.offset
           /\ \A i, j \in 1..(Len(L) + 1) : i < j => o[i] < o[j]
<1>1. /\ b.buf \in Cells /\ L \in Lists /\ At(b.buf, o, L) /\ Len(b.buf) \in Nat /\ o[Len(L) + 1] <= b.offset
      /\ Len(L) \in Nat /\ b.offset \in Nat
  BY CellsLen, ListsLen DEF Located, Usable
<1>2. /\ \A i \in 1..(Len(L) + 1) : o[i] \in Nat /\ o[i] <= o[Len(L) + 1]
      /\ \A i, j \in 1..(Len(L) + 1) : i < j => o[i] < o[j]
  BY <1>1, AtBounds
<1>3. Len(L) + 1 \in 1..(Len(L) + 1)
  BY <1>1
<1>4. \A i \in 1..(Len(L) + 1) : o[i] <= b.offset
  BY <1>1, <1>2, <1>3
<1>. QED  BY <1>1, <1>2, <1>4 DEF Located

\* What is known of a buffer that holds a list from the padding to its offset
LEMMA SlicingFacts ==
    ASSUME NEW b, NEW o, NEW L, Slicing(b, o, L)
    PROVE  /\ Usable(b) /\ b.buf \in Cells /\ L \in Lists /\ Len(L) \in Nat /\ At(b.buf, o, L)
           /\ b.offset = o[Len(L) + 1] /\ b.offset \in Nat
           /\ \A i \in 1..(Len(L) + 1) : o[i] \in Nat /\ o[i] <= b.offset
           /\ \A i, j \in 1..(Len(L) + 1) : i < j => o[i] < o[j]
           /\ Located(b, o, L)
<1>1. Located(b, o, L) /\ b.offset = o[Len(L) + 1]
  BY DEF Slicing
<1>. QED  BY <1>1, LocatedFacts

\* What Slice returns for the i-th slice
LEMMA SliceAt ==
    ASSUME NEW b, NEW o, NEW L, Located(b, o, L), NEW i \in 1..Len(L)
    PROVE  /\ Slice(b, o[i]).slice = L[i]
           /\ Slice(b, o[i]).next = IF o[i + 1] >= b.offset THEN -1 ELSE o[i + 1]
<1>0. b.buf \in Cells /\ L \in Lists /\ At(b.buf, o, L) /\ Len(L) \in Nat /\ b.offset \in Nat
  BY LocatedFacts
<1>1. SliceIn(b.buf, o, L, i)
  BY <1>0, AtSlice
<1>2. /\ o[i] \in Nat /\ o[i + 1] \in Nat /\ o[i] + 1 + b.buf[o[i] + 1] = o[i + 1] /\ o[i] < o[i + 1]
      /\ Between(b.buf, o[i] + 1, o[i + 1]) = L[i]
  BY <1>1 DEF SliceIn
<1>3. i + 1 \in 1..(Len(L) + 1)
  BY <1>0
<1>4. o[i + 1] <= b.offset
  BY <1>3, LocatedFacts
<1>5. ~(o[i] >= b.offset)
  BY <1>0, <1>2, <1>4
<1>. QED  BY <1>2, <1>5 DEF Slice

\* The offsets of the slices from the i-th, before the j-th
LEMMA OffsetsAre ==
    ASSUME NEW b, NEW o, NEW L, Located(b, o, L),
           NEW i \in 1..(Len(L) + 1), NEW j \in 1..(Len(L) + 1), i <= j
    PROVE  OffsetsFrom(b, o[i], o[j]) = [k \in 1..(j - i) |-> o[k + (i - 1)]]
<1>0. /\ Usable(b) /\ b.buf \in Cells /\ L \in Lists /\ Len(L) \in Nat /\ At(b.buf, o, L)
      /\ b.offset \in Nat
      /\ \A x \in 1..(Len(L) + 1) : o[x] \in Nat /\ o[x] <= b.offset
      /\ \A x, y \in 1..(Len(L) + 1) : x < y => o[x] < o[y]
  BY LocatedFacts
<1>. DEFINE end == o[j]
            part(x) == [k \in 1..(j - x) |-> o[k + (x - 1)]]
<1>1. end \in Nat /\ o[i] \in Int
  BY <1>0
<1>2. PICK f : IsOffsets(f, b, end) /\ OffsetsFrom(b, o[i], end) = f[o[i]]
  <2>. HIDE DEF end
  <2>. QED  BY <1>0, <1>1, OffsetsFromIs
<1>3. \A off \in Int : f[off] = IF off < 0 \/ off >= end THEN <<>> ELSE <<off>> \o f[Slice(b, off).next]
  BY <1>2 DEF IsOffsets
<1>. DEFINE n == j - i
            S == {k \in 0..n : f[o[j - k]] = part(j - k)}
<1>4. n \in Nat /\ i \in Nat /\ j \in Nat /\ 1 <= i /\ j <= Len(L) + 1
  BY <1>0
<1>5. 0 \in S
  <2>1. j - 0 = j /\ 0 \in 0..n /\ j - j = 0
    BY <1>4
  <2>2. f[o[j]] = <<>>
    <3>2. end \in Int /\ (end < 0 \/ end >= end)
      BY <1>1
    <3>3. f[end] = <<>>
      <4>. HIDE DEF end
      <4>. QED  BY <1>3, <3>2
    <3>. QED  BY <3>3
  <2>3. part(j) = <<>>
    BY <2>1
  <2>. HIDE DEF part
  <2>. QED  BY <2>1, <2>2, <2>3
<1>6. ASSUME NEW k \in 1..n, k - 1 \in S PROVE k \in S
  <2>0. PICK x \in 1..Len(L) : x = j - k
    BY <1>0, <1>4, j - k \in 1..Len(L)
  <2>1. x + 1 = j - (k - 1) /\ k \in 0..n /\ x < j /\ x \in 1..(Len(L) + 1) /\ x + 1 \in 1..(Len(L) + 1)
    BY <1>0, <1>4, <2>0
  <2>2. f[o[x + 1]] = part(x + 1)
    <3>. HIDE DEF part
    <3>. QED  BY <1>6, <2>1
  <2>3. o[x] \in Nat /\ o[x] < end /\ o[x] \in Int /\ ~(o[x] < 0 \/ o[x] >= end)
    BY <1>0, <1>1, <2>1
  <2>4. Slice(b, o[x]).next = IF o[x + 1] >= b.offset THEN -1 ELSE o[x + 1]
    BY SliceAt
  <2>5. f[Slice(b, o[x]).next] = part(x + 1)
    <3>1. CASE o[x + 1] >= b.offset
      <4>1. x + 1 = j /\ j - (x + 1) = 0
        <5>1. ~(x + 1 < j)
          BY <1>0, <2>1, <3>1
        <5>. QED  BY <1>4, <2>1, <5>1
      <4>2. f[-1] = <<>>
        <5>1. -1 \in Int /\ (-1 < 0 \/ -1 >= end)
          OBVIOUS
        <5>. HIDE DEF end
        <5>. QED  BY <1>3, <5>1
      <4>3. part(x + 1) = <<>>
        BY <4>1
      <4>. HIDE DEF part
      <4>. QED  BY <2>4, <3>1, <4>2, <4>3
    <3>2. CASE ~(o[x + 1] >= b.offset)
      <4>. HIDE DEF part
      <4>. QED  BY <2>2, <2>4, <3>2
    <3>. QED  BY <3>1, <3>2
  <2>6. f[o[x]] = <<o[x]>> \o part(x + 1)
    <3>. HIDE DEF part, end
    <3>. QED  BY <1>3, <2>3, <2>5
  <2>7. <<o[x]>> \o part(x + 1) = part(x)
    <3>1. \A y \in 1..(j - x) : y + (x - 1) \in 1..(Len(L) + 1)
      BY <1>0, <1>4, <2>1
    <3>2. \A y \in 1..(j - (x + 1)) : y + ((x + 1) - 1) \in 1..(Len(L) + 1) /\ y + 1 \in 1..(j - x) /\ (y + 1) + (x - 1) = y + ((x + 1) - 1)
      BY <1>0, <1>4, <2>1
    <3>3. j - x \in Nat /\ j - (x + 1) \in Nat /\ j - x = (j - (x + 1)) + 1 /\ 1 \in 1..(j - x) /\ 1 + (x - 1) = x
      BY <1>4, <2>1
    <3>4. /\ part(x) \in Seq(Nat) /\ Len(part(x)) = j - x /\ part(x)[1] = o[x]
          /\ \A y \in 1..(j - x) : part(x)[y] = o[y + (x - 1)]
      BY <1>0, <3>1, <3>3, IsASeq
    <3>5. /\ part(x + 1) \in Seq(Nat) /\ Len(part(x + 1)) = j - (x + 1)
          /\ \A y \in 1..(j - (x + 1)) : part(x + 1)[y] = o[y + ((x + 1) - 1)]
      BY <1>0, <3>2, <3>3, IsASeq
    <3>. HIDE DEF part
    <3>6. \A y \in 1..Len(part(x + 1)) : part(x)[y + 1] = part(x + 1)[y]
      BY <3>2, <3>4, <3>5
    <3>7. <<part(x)[1]>> \o part(x + 1) = part(x)
      BY <3>3, <3>4, <3>5, <3>6, Cons
    <3>. QED  BY <3>4, <3>7
  <2>. HIDE DEF part
  <2>. QED  BY <2>0, <2>1, <2>6, <2>7
<1>7. n \in S
  <2>1. \A k \in 0..n : k \in S
    <3>. HIDE DEF S, n
    <3>. QED  BY <1>4, <1>5, <1>6, UpTo
  <2>2. n \in 0..n
    BY <1>4
  <2>. HIDE DEF S, n
  <2>. QED  BY <2>1, <2>2
<1>8. j - n = i
  BY <1>4
<1>9. f[o[i]] = part(i)
  <2>. HIDE DEF part, n
  <2>. QED  BY <1>7, <1>8
<1>. QED  BY <1>2, <1>9

IsIteration(f, b) ==
    f = [off \in Int |-> IF off < 0 THEN <<>> ELSE Given(Slice(b, off).slice) \o f[Slice(b, off).next]]

\* The recursion of SliceIterate defines a function.
LEMMA IterationExists ==
    ASSUME NEW b, Usable(b)
    PROVE  \E f : IsIteration(f, b)
<1>. DEFINE D == Int
            U == {Slice(b, off).slice : off \in Int}
            V == Seq(U)
            next(off) == Slice(b, off).next
            given(off) == Given(Slice(b, off).slice)
            end == b.offset
            w == [off \in D |-> IF off < 0 THEN 0 ELSE IF off >= end THEN 1 ELSE end - off + 1]
            G == [off \in D |-> [F \in [D -> V] |->
                    IF off < 0 THEN <<>> ELSE given(off) \o F[next(off)]]]
<1>0. end \in Nat
  BY DEF Usable
<1>1. \A off \in D : ~(off < 0) => next(off) \in D /\ (next(off) = -1 \/ (next(off) > off /\ off < end /\ next(off) < end))
  BY SliceNext
<1>2. \A off \in D : given(off) \in V
  <2>. SUFFICES ASSUME NEW off \in D PROVE Given(Slice(b, off).slice) \in V
    OBVIOUS
  <2>. DEFINE x == Slice(b, off).slice
  <2>1. x \in U
    OBVIOUS
  <2>. HIDE DEF x, U
  <2>2. Given(x) \in V
    BY <2>1 DEF Given
  <2>. QED  BY <2>2 DEF x
<1>3. <<>> \in V
  OBVIOUS
<1>. HIDE DEF next, given, U, end
<1>4. w \in [D -> Nat] /\ \A off \in D : w[off] <= end + 1
  BY <1>0
<1>5. ASSUME NEW off \in D, ~(off < 0)
      PROVE  next(off) \in D /\ w[next(off)] < w[off]
  BY <1>0, <1>1, <1>5
<1>6. G \in [D -> [[D -> V] -> V]]
  <2>. SUFFICES ASSUME NEW off \in D, NEW F \in [D -> V]
                PROVE  (IF off < 0 THEN <<>> ELSE given(off) \o F[next(off)]) \in V
    BY Zenon
  <2>1. ASSUME ~(off < 0) PROVE F[next(off)] \in V
    <3>. HIDE DEF V
    <3>. QED  BY <1>1, <2>1
  <2>2. given(off) \in V
    BY <1>2
  <2>. QED  BY <1>3, <2>1, <2>2
<1>7. ASSUME NEW off \in D, NEW g \in [D -> V], NEW h \in [D -> V], \A y \in D : w[y] < w[off] => g[y] = h[y]
      PROVE  G[off][g] = G[off][h]
  <2>1. ASSUME ~(off < 0) PROVE g[next(off)] = h[next(off)]
    <3>1. next(off) \in D /\ w[next(off)] < w[off]
      BY <1>5, <2>1
    <3>. HIDE DEF w, V
    <3>. QED  BY <1>7, <3>1
  <2>. HIDE DEF V, w
  <2>. QED  BY <2>1
<1>8. \E F \in [D -> V] : \A off \in D : F[off] = G[off][F]
  <2>1. end + 1 \in Nat
    BY <1>0
  <2>. DEFINE N == end + 1
  <2>. HIDE DEF G, V, w, D, N
  <2>2. Recursion(D, V, w, N, G)
    BY <2>1, <1>3, <1>4, <1>6, <1>7 DEF Recursion, N
  <2>. QED  BY <2>2, RecursionExists
<1>9. PICK F \in [D -> V] : \A off \in D : F[off] = G[off][F]
  BY <1>8
<1>10. \A off \in D : F[off] = IF off < 0 THEN <<>> ELSE given(off) \o F[next(off)]
  <2>. HIDE DEF V
  <2>. QED  BY <1>9
<1>11. IsIteration(F, b)
  <2>. HIDE DEF V
  <2>. QED  BY <1>10 DEF IsIteration, next, given
<1>. QED  BY <1>11

IsNonEmpty(f, s) ==
    f = [i \in 1..(Len(s) + 1) |-> IF i > Len(s) THEN <<>> ELSE Given(s[i]) \o f[i + 1]]

\* The recursion that leaves out empty slices defines a function.
LEMMA NonEmptyExists ==
    ASSUME NEW L \in Lists
    PROVE  \E f : IsNonEmpty(f, L)
<1>. DEFINE n == Len(L)
            D == 1..(n + 1)
            V == Seq(Slices)
            given(i) == Given(L[i])
            w == [i \in D |-> n + 1 - i]
            G == [i \in D |-> [F \in [D -> V] |-> IF i > n THEN <<>> ELSE given(i) \o F[i + 1]]]
<1>0. n \in Nat
  BY ListsLen
<1>1. \A i \in D : ~(i > n) => given(i) \in V
  <2>. SUFFICES ASSUME NEW i \in D, ~(i > n) PROVE Given(L[i]) \in V
    OBVIOUS
  <2>1. L[i] \in Slices
    BY <1>0, SliceType
  <2>. QED  BY <2>1 DEF Given
<1>. HIDE DEF given, n
<1>2. <<>> \in V
  OBVIOUS
<1>3. w \in [D -> Nat] /\ \A i \in D : w[i] <= n + 1
  BY <1>0
<1>4. ASSUME NEW i \in D, ~(i > n) PROVE i + 1 \in D /\ w[i + 1] < w[i]
  BY <1>0, <1>4
<1>5. G \in [D -> [[D -> V] -> V]]
  <2>. SUFFICES ASSUME NEW i \in D, NEW F \in [D -> V]
                PROVE  (IF i > n THEN <<>> ELSE given(i) \o F[i + 1]) \in V
    BY Zenon
  <2>1. ASSUME ~(i > n) PROVE F[i + 1] \in V /\ given(i) \in V
    <3>. HIDE DEF V, D
    <3>. QED  BY <1>1, <1>4, <2>1
  <2>. QED  BY <1>2, <2>1
<1>6. ASSUME NEW i \in D, NEW g \in [D -> V], NEW h \in [D -> V], \A y \in D : w[y] < w[i] => g[y] = h[y]
      PROVE  G[i][g] = G[i][h]
  <2>1. ASSUME ~(i > n) PROVE g[i + 1] = h[i + 1]
    <3>1. i + 1 \in D /\ w[i + 1] < w[i]
      BY <1>4, <2>1
    <3>. HIDE DEF w, V, D
    <3>. QED  BY <1>6, <3>1
  <2>. HIDE DEF V, w, D
  <2>. QED  BY <2>1
<1>7. \E F \in [D -> V] : \A i \in D : F[i] = G[i][F]
  <2>1. n + 1 \in Nat
    BY <1>0
  <2>. DEFINE N == n + 1
  <2>. HIDE DEF G, V, w, D, N
  <2>2. Recursion(D, V, w, N, G)
    BY <2>1, <1>2, <1>3, <1>5, <1>6 DEF Recursion, N
  <2>. QED  BY <2>2, RecursionExists
<1>8. PICK F \in [D -> V] : \A i \in D : F[i] = G[i][F]
  BY <1>7
<1>9. \A i \in D : F[i] = IF i > n THEN <<>> ELSE given(i) \o F[i + 1]
  <2>. HIDE DEF V, D
  <2>. QED  BY <1>8
<1>10. IsNonEmpty(F, L)
  <2>. HIDE DEF V
  <2>. QED  BY <1>9 DEF IsNonEmpty, given, n
<1>. QED  BY <1>10

\* SliceIterate passes the slices that are not empty.
LEMMA IterateIs ==
    ASSUME NEW b, NEW o, NEW L, Slicing(b, o, L)
    PROVE  SliceIterate(b) = NonEmpty(L)
<1>0. /\ Usable(b) /\ b.buf \in Cells /\ L \in Lists /\ Len(L) \in Nat /\ At(b.buf, o, L)
      /\ b.offset = o[Len(L) + 1] /\ b.offset \in Nat
      /\ \A x \in 1..(Len(L) + 1) : o[x] \in Nat /\ o[x] <= b.offset
      /\ \A x, y \in 1..(Len(L) + 1) : x < y => o[x] < o[y]
      /\ o[1] = padding /\ Located(b, o, L)
  BY SlicingFacts DEF Slicing
<1>. DEFINE f == CHOOSE g : IsIteration(g, b)
            e == CHOOSE g : IsNonEmpty(g, L)
            n == Len(L)
<1>1. IsIteration(f, b) /\ IsNonEmpty(e, L)
  BY <1>0, IterationExists, NonEmptyExists
<1>2. SliceIterate(b) = IF b.offset = padding THEN <<>> ELSE f[padding]
  BY DEF SliceIterate, IsIteration
<1>3. NonEmpty(L) = e[1]
  BY DEF NonEmpty, IsNonEmpty
<1>. HIDE DEF f, e
<1>4. \A off \in Int : f[off] = IF off < 0 THEN <<>> ELSE Given(Slice(b, off).slice) \o f[Slice(b, off).next]
  BY <1>1 DEF IsIteration
<1>5. \A i \in 1..(n + 1) : e[i] = IF i > n THEN <<>> ELSE Given(L[i]) \o e[i + 1]
  BY <1>1 DEF IsNonEmpty
<1>6. f[-1] = <<>>
  <2>1. -1 \in Int /\ -1 < 0
    OBVIOUS
  <2>. QED  BY <1>4, <2>1
<1>7. e[n + 1] = <<>>
  <2>1. n + 1 \in 1..(n + 1) /\ n + 1 > n
    BY <1>0
  <2>. QED  BY <1>5, <2>1
\* The value of f behind the slice before the i-th
<1>. DEFINE F(i) == IF i = n + 1 THEN f[-1] ELSE f[o[i]]
            S == {k \in 0..n : F(n + 1 - k) = e[n + 1 - k]}
<1>8. 0 \in S
  <2>1. n + 1 - 0 = n + 1 /\ 0 \in 0..n
    BY <1>0
  <2>. QED  BY <1>6, <1>7, <2>1
<1>9. ASSUME NEW k \in 1..n, k - 1 \in S PROVE k \in S
  <2>0. PICK i \in 1..Len(L) : i = n + 1 - k
    BY <1>0, n + 1 - k \in 1..Len(L)
  <2>1. i + 1 = n + 1 - (k - 1) /\ k \in 0..n /\ i \in 1..(n + 1) /\ ~(i > n) /\ i # n + 1 /\ (i + 1 = n + 1 <=> i = Len(L))
    BY <1>0, <2>0
  <2>2. F(i + 1) = e[i + 1]
    <3>. HIDE DEF F
    <3>. QED  BY <1>9, <2>1
  <2>3. Slice(b, o[i]).slice = L[i] /\ Slice(b, o[i]).next = IF i = Len(L) THEN -1 ELSE o[i + 1]
    <3>1. Slice(b, o[i]).slice = L[i] /\ Slice(b, o[i]).next = IF o[i + 1] >= b.offset THEN -1 ELSE o[i + 1]
      BY <1>0, SliceAt
    <3>2. i = Len(L) \/ (i + 1 < n + 1 /\ i + 1 \in 1..(n + 1) /\ n + 1 \in 1..(n + 1))
      BY <1>0
    <3>3. i = Len(L) => o[i + 1] = b.offset
      BY <1>0
    <3>4. i # Len(L) => o[i + 1] < b.offset /\ o[i + 1] \in Nat
      BY <1>0, <3>2
    <3>. QED  BY <1>0, <3>1, <3>3, <3>4
  <2>4. o[i] \in Int /\ ~(o[i] < 0)
    BY <1>0, <2>1
  <2>5. f[o[i]] = Given(L[i]) \o f[Slice(b, o[i]).next]
    BY <1>4, <2>3, <2>4
  <2>6. f[Slice(b, o[i]).next] = F(i + 1)
    BY <2>1, <2>3
  <2>7. e[i] = Given(L[i]) \o e[i + 1]
    BY <1>5, <2>1
  <2>8. F(i) = f[o[i]]
    BY <2>1
  <2>. HIDE DEF F
  <2>. QED  BY <2>0, <2>1, <2>2, <2>5, <2>6, <2>7, <2>8
<1>10. n \in S
  <2>1. \A k \in 0..n : k \in S
    <3>. HIDE DEF S, n
    <3>1. n \in Nat
      BY <1>0 DEF n
    <3>. QED  BY <3>1, <1>8, <1>9, UpTo
  <2>2. n \in 0..n
    BY <1>0
  <2>. HIDE DEF S, n
  <2>. QED  BY <2>1, <2>2
<1>11. F(1) = e[1]
  <2>1. n + 1 - n = 1
    BY <1>0
  <2>. HIDE DEF F, n
  <2>. QED  BY <1>10, <2>1
<1>12. CASE n = 0
  BY <1>0, <1>2, <1>3, <1>7, <1>12
<1>13. CASE n # 0
  <2>1. 1 # n + 1 /\ 1 \in 1..(n + 1) /\ n + 1 \in 1..(n + 1) /\ 1 < n + 1
    BY <1>0, <1>13
  <2>2. b.offset # padding
    BY <1>0, <2>1
  <2>. QED  BY <1>0, <1>2, <1>3, <1>11, <2>1, <2>2
<1>. QED  BY <1>12, <1>13

\* The greater of two numbers
LEMMA MaxOfTwo ==
    ASSUME NEW x \in Nat, NEW y \in Nat
    PROVE  /\ Max({x, y}) \in Nat /\ Max({x, y}) >= x /\ Max({x, y}) >= y
           /\ x >= y => Max({x, y}) = x
<1>1. \E z \in {x, y} : \A u \in {x, y} : z >= u
  OBVIOUS
<1>2. Max({x, y}) \in {x, y} /\ \A u \in {x, y} : Max({x, y}) >= u
  BY <1>1 DEF Max
<1>. HIDE DEF Max
<1>. QED  BY <1>2

\* The lesser of two numbers
LEMMA MinOfTwo ==
    ASSUME NEW x \in Nat, NEW y \in Nat
    PROVE  Min({x, y}) \in Nat
<1>1. \E z \in {x, y} : \A u \in {x, y} : u >= z
  OBVIOUS
<1>2. Min({x, y}) \in {x, y}
  BY <1>1 DEF Min
<1>. QED  BY <1>2

\* SliceOffsets are the places of the slices.
LEMMA SliceOffsetsAre ==
    ASSUME NEW b, NEW o, NEW L, Slicing(b, o, L)
    PROVE  /\ L # <<>> => SliceOffsets(b) = [k \in 1..Len(L) |-> o[k]]
           /\ Range(SliceOffsets(b)) \subseteq {o[i] : i \in 1..(Len(L) + 1)}
<1>. DEFINE n == Len(L)
<1>0. /\ Usable(b) /\ b.buf \in Cells /\ L \in Lists /\ n \in Nat /\ At(b.buf, o, L)
      /\ b.offset = o[n + 1] /\ b.offset \in Nat
      /\ \A x \in 1..(n + 1) : o[x] \in Nat /\ o[x] <= b.offset
      /\ \A x, y \in 1..(n + 1) : x < y => o[x] < o[y]
      /\ o[1] = padding /\ (n = 0 <=> L = <<>>) /\ Located(b, o, L)
  BY SlicingFacts, ListsLen DEF Slicing
<1>1. padding = 1
  BY DEF padding
<1>2. ASSUME L # <<>>
      PROVE  SliceOffsets(b) = [k \in 1..n |-> o[k]]
  <2>1. 1 \in 1..(n + 1) /\ n + 1 \in 1..(n + 1) /\ 1 < n + 1 /\ 1 <= n + 1
    BY <1>0, <1>2
  <2>2. b.offset >= padding + 1 /\ padding + 1 \in Nat
    BY <1>0, <1>1, <2>1
  <2>3. Max({b.offset, padding + 1}) = b.offset
    BY <1>0, <2>2, MaxOfTwo
  <2>4. SliceOffsets(b) = OffsetsFrom(b, o[1], o[n + 1])
    BY <1>0, <2>3 DEF SliceOffsets
  <2>5. OffsetsFrom(b, o[1], o[n + 1]) = [k \in 1..((n + 1) - 1) |-> o[k + (1 - 1)]]
    BY <1>0, <2>1, OffsetsAre
  <2>6. (n + 1) - 1 = n /\ \A k \in 1..n : k + (1 - 1) = k
    BY <1>0
  <2>7. [k \in 1..((n + 1) - 1) |-> o[k + (1 - 1)]] = [k \in 1..n |-> o[k]]
    BY <2>6
  <2>. QED  BY <2>4, <2>5, <2>7
<1>3. ASSUME L = <<>> PROVE SliceOffsets(b) = <<1>>
  <2>1. b.offset = 1
    <3>1. n = 0 /\ n + 1 = 1
      BY <1>0, <1>3
    <3>. QED  BY <1>0, <1>1, <3>1
  <2>2. Max({b.offset, padding + 1}) = 2
    <3>. DEFINE M == Max({1, 2})
    <3>1. \E z \in {1, 2} : \A u \in {1, 2} : z >= u
      OBVIOUS
    <3>2. M \in {1, 2} /\ \A u \in {1, 2} : M >= u
      BY <3>1 DEF Max
    <3>. HIDE DEF M
    <3>3. M = 2
      BY <3>2
    <3>4. {b.offset, padding + 1} = {1, 2}
      BY <1>1, <2>1
    <3>. QED  BY <3>3, <3>4 DEF M
  <2>3. PICK f : IsOffsets(f, b, 2) /\ OffsetsFrom(b, 1, 2) = f[1]
    BY <1>0, OffsetsFromIs
  <2>4. Slice(b, 1).next = -1
    BY <2>1 DEF Slice
  <2>5. f[-1] = <<>> /\ f[1] = <<1>> \o f[Slice(b, 1).next]
    <3>1. -1 \in Int /\ 1 \in Int /\ -1 < 0 /\ ~(1 < 0 \/ 1 >= 2)
      OBVIOUS
    <3>. QED  BY <2>3, <3>1 DEF IsOffsets
  <2>6. f[1] = <<1>>
    <3>1. <<1>> \o <<>> = <<1>>
      BY <<1>> \in Seq(Nat), ConcatEmptySeq
    <3>. QED  BY <2>4, <2>5, <3>1
  <2>. QED  BY <1>1, <2>2, <2>3, <2>6 DEF SliceOffsets
<1>4. ASSUME NEW x \in Range(SliceOffsets(b)) PROVE x \in {o[i] : i \in 1..(n + 1)}
  <2>1. CASE L # <<>>
    <3>1. \E k \in 1..n : x = o[k]
      BY <1>2, <1>4, <2>1 DEF Range
    <3>2. \A k \in 1..n : k \in 1..(n + 1)
      BY <1>0
    <3>. QED  BY <3>1, <3>2
  <2>2. CASE L = <<>>
    <3>1. x = 1 /\ 1 \in 1..(n + 1)
      BY <1>0, <1>3, <1>4, <2>2 DEF Range
    <3>. QED  BY <1>0, <1>1, <3>1
  <2>. QED  BY <2>1, <2>2
<1>. QED  BY <1>2, <1>4

-----------------------------------------------------------------------------
(* Memory *)

Buffers == [type : {"UseCalloc", "UseMmap"}, buf : Cells, curSz : Nat, offset : Nat,
            held : {"UseCalloc", "UseMmap", "nothing"}]

\* A buffer in use has the memory it says it has, and room past what is written.
Sound(b) ==
    b \in Buffers /\ b.offset < b.curSz /\ Len(b.buf) = b.curSz /\ b.held = b.type

\* New memory
LEMMA ZeroCells ==
    ASSUME NEW n \in Nat
    PROVE  Zeros(n) \in Cells /\ Len(Zeros(n)) = n
<1>1. Zeros(n) = [i \in 1..n |-> 0]
  BY DEF Zeros
<1>2. Zeros(n) \in Seq(Nat) /\ Len(Zeros(n)) = n
  BY <1>1, IsASeq
<1>. QED  BY <1>2 DEF Cells

\* A new buffer is sound and empty.
LEMMA FreshSound ==
    ASSUME NEW type \in {"UseCalloc", "UseMmap"}, NEW capacity \in Nat
    PROVE  Sound(Fresh(type, capacity)) /\ Fresh(type, capacity).offset = padding
<1>. DEFINE sz == Max({capacity, defaultCapacity})
<1>1. sz \in Nat /\ sz >= defaultCapacity
  BY BufferConstants, MaxOfTwo
<1>2. Zeros(sz) \in Cells /\ Len(Zeros(sz)) = sz
  <2>. HIDE DEF sz
  <2>. QED  BY <1>1, ZeroCells
<1>3. padding < sz /\ padding \in Nat
  <2>. HIDE DEF sz
  <2>. QED  BY <1>1, BufferConstants DEF padding
<1>4. Fresh(type, capacity) = [type |-> type, buf |-> Zeros(sz), curSz |-> sz, offset |-> padding, held |-> type]
  BY DEF Fresh
<1>. HIDE DEF sz
<1>. QED  BY <1>1, <1>2, <1>3, <1>4 DEF Sound, Buffers

\* c has room for n cells more and holds what b holds.
Grown(b, n, c) ==
    /\ Sound(c) /\ c.offset = b.offset /\ c.offset + n < c.curSz
    /\ \A k \in 1..b.offset : c.buf[k] = b.buf[k]

\* Grow keeps the used part and makes room, in each of its branches.
LEMMA GrowIs ==
    ASSUME NEW b, Sound(b), NEW n \in Nat
    PROVE  Grown(b, n, Grow(b, n))
<1>0. b \in Buffers /\ b.offset < b.curSz /\ Len(b.buf) = b.curSz /\ b.held = b.type /\ b.buf \in Cells /\ b.curSz \in Nat /\ b.offset \in Nat
  BY DEF Sound, Buffers
<1>1. CASE HasRoom(b, n)
  BY <1>0, <1>1 DEF Grow, Grown, HasRoom, Sound
<1>2. CASE ~HasRoom(b, n)
  <2>. DEFINE sz == b.curSz + GrowBy(b, n)
              t == IF autoMmapAfter > 0 /\ sz > autoMmapAfter THEN "UseMmap" ELSE b.type
              kept == IF b.held = "UseMmap" THEN b.buf ELSE Between(b.buf, 0, b.offset)
              m == kept \o Zeros(sz - Len(kept))
              c == Grow(b, n)
  <2>1. GrowBy(b, n) \in Nat /\ GrowBy(b, n) >= n
    <3>1. b.curSz + n \in Nat /\ growLimit \in Nat
      BY <1>0, BufferConstants
    <3>2. Min({b.curSz + n, growLimit}) \in Nat
      BY <3>1, MinOfTwo
    <3>. QED  BY <3>2, MaxOfTwo DEF GrowBy
  <2>2. sz \in Nat /\ sz >= b.curSz + n
    <3>. QED  BY <1>0, <2>1
  <2>3. Noted(b, n) = [b EXCEPT !.curSz = sz, !.type = t]
    BY DEF Noted
  <2>. HIDE DEF sz
  <2>4. t \in {"UseCalloc", "UseMmap"}
    BY <1>0 DEF Buffers
  <2>. HIDE DEF t
  <2>5. /\ kept \in Cells /\ Len(kept) \in Nat /\ b.offset <= Len(kept) /\ Len(kept) <= b.curSz
        /\ \A k \in 1..b.offset : kept[k] = b.buf[k]
    <3>1. CASE b.held = "UseMmap"
      BY <1>0, <3>1
    <3>2. CASE b.held # "UseMmap"
      <4>1. 0 \in Nat /\ 0 <= b.offset /\ b.offset <= Len(b.buf) /\ b.offset - 0 = b.offset
        BY <1>0
      <4>2. /\ Between(b.buf, 0, b.offset) \in Cells /\ Len(Between(b.buf, 0, b.offset)) = b.offset - 0
            /\ \A k \in 1..(b.offset - 0) : Between(b.buf, 0, b.offset)[k] = b.buf[k + 0]
        BY <1>0, <4>1, BetweenCells
      <4>3. \A k \in 1..b.offset : k + 0 = k
        OBVIOUS
      <4>. QED  BY <1>0, <3>2, <4>1, <4>2, <4>3
    <3>. QED  BY <3>1, <3>2
  <2>6. c = [[b EXCEPT !.curSz = sz, !.type = t] EXCEPT !.buf = m, !.held = t]
    <3>. DEFINE d == [b EXCEPT !.curSz = sz, !.type = t]
    <3>1. d.curSz = sz /\ d.type = t
      BY <1>0 DEF Buffers
    <3>2. c = Moved(d, b)
      BY <1>2, <2>3 DEF Grow
    <3>. HIDE DEF d
    <3>3. Moved(d, b) = [d EXCEPT !.buf = m, !.held = t]
      BY <3>1 DEF Moved
    <3>. QED  BY <3>2, <3>3 DEF d
  <2>. HIDE DEF kept
  <2>7. /\ m \in Cells /\ Len(m) = sz
        /\ \A k \in 1..b.offset : m[k] = kept[k]
    <3>1. sz - Len(kept) \in Nat
      BY <1>0, <2>2, <2>5
    <3>2. Zeros(sz - Len(kept)) \in Cells /\ Len(Zeros(sz - Len(kept))) = sz - Len(kept)
      BY <3>1, ZeroCells
    <3>3. m \in Cells /\ Len(m) = Len(kept) + (sz - Len(kept)) /\ \A k \in 1..Len(kept) : m[k] = kept[k]
      BY <2>5, <3>2, ConcatCells
    <3>4. Len(kept) + (sz - Len(kept)) = sz /\ \A k \in 1..b.offset : k \in 1..Len(kept)
      BY <1>0, <2>2, <2>5
    <3>. QED  BY <3>3, <3>4
  <2>. HIDE DEF m, c
  <2>8. c \in Buffers /\ c.curSz = sz /\ c.offset = b.offset /\ c.buf = m /\ c.held = t /\ c.type = t
    BY <1>0, <2>2, <2>4, <2>6, <2>7 DEF Buffers
  <2>9. b.offset < sz /\ b.offset + n < sz
    BY <1>0, <2>2
  <2>10. \A k \in 1..b.offset : c.buf[k] = b.buf[k]
    BY <2>5, <2>7, <2>8
  <2>11. Grown(b, n, c)
    BY <2>7, <2>8, <2>9, <2>10 DEF Grown, Sound
  <2>. QED  BY <2>11 DEF c
<1>. QED  BY <1>1, <1>2

\* c is b with p written behind it.
Extended(b, p, c) ==
    /\ Sound(c) /\ c.offset = b.offset + Len(p)
    /\ \A k \in 1..b.offset : c.buf[k] = b.buf[k]
    /\ \A k \in 1..Len(p) : c.buf[k + b.offset] = p[k]

\* Write appends the cells.
LEMMA WriteIs ==
    ASSUME NEW b, Sound(b), NEW p \in Cells
    PROVE  Extended(b, p, Write(b, p))
<1>. DEFINE g == Grow(b, Len(p))
            m == Copied(g.buf, b.offset, p)
            c == Write(b, p)
<1>0. b.offset \in Nat /\ Len(p) \in Nat
  BY CellsLen DEF Sound, Buffers
<1>1. Grown(b, Len(p), g)
  BY <1>0, GrowIs
<1>2. c = [g EXCEPT !.buf = m, !.offset = @ + Len(p)]
  BY DEF Write
<1>. HIDE DEF g, c
<1>3. /\ g \in Buffers /\ g.offset = b.offset /\ g.offset + Len(p) < g.curSz /\ Len(g.buf) = g.curSz
      /\ g.held = g.type /\ g.buf \in Cells /\ g.curSz \in Nat
      /\ \A k \in 1..b.offset : g.buf[k] = b.buf[k]
  BY <1>1 DEF Grown, Sound, Buffers
<1>4. /\ m \in Cells /\ Len(m) = Len(g.buf)
      /\ \A k \in 1..Len(g.buf) :
            /\ k <= b.offset \/ b.offset + Len(p) < k => m[k] = g.buf[k]
            /\ b.offset < k /\ k <= b.offset + Len(p) => m[k] = p[k - b.offset]
  BY <1>0, <1>3, CopiedCells
<1>. HIDE DEF m
<1>5. c \in Buffers /\ c.offset = b.offset + Len(p) /\ c.buf = m /\ c.curSz = g.curSz /\ c.held = c.type
  <2>1. g.offset + Len(p) = b.offset + Len(p) /\ b.offset + Len(p) \in Nat
    BY <1>0, <1>3
  <2>2. c = [g EXCEPT !.buf = m, !.offset = b.offset + Len(p)]
    BY <1>2, <2>1
  <2>. QED  BY <1>3, <1>4, <2>1, <2>2 DEF Buffers
<1>6. \A k \in 1..b.offset : m[k] = b.buf[k]
  <2>1. \A k \in 1..b.offset : k \in 1..Len(g.buf) /\ k <= b.offset
    BY <1>0, <1>3
  <2>. QED  BY <1>3, <1>4, <2>1
<1>7. \A k \in 1..Len(p) : m[k + b.offset] = p[k]
  <2>1. \A k \in 1..Len(p) : k + b.offset \in 1..Len(g.buf) /\ b.offset < k + b.offset /\ k + b.offset <= b.offset + Len(p) /\ (k + b.offset) - b.offset = k
    BY <1>0, <1>3
  <2>. QED  BY <1>4, <2>1
<1>8. c.offset < c.curSz /\ Len(c.buf) = c.curSz
  BY <1>3, <1>4, <1>5
<1>9. Extended(b, p, c)
  BY <1>5, <1>6, <1>7, <1>8 DEF Extended, Sound
<1>. QED  BY <1>9 DEF c

\* Writing a slice appends its length and the slice.
LEMMA WrittenIs ==
    ASSUME NEW b, Sound(b), NEW s \in Slices
    PROVE  Extended(b, <<Len(s)>> \o s, Written(b, s))
<1>. DEFINE sz == Len(s)
            h == <<sz>>
            p == h \o s
            b1 == Grow(b, 1 + sz)
            b2 == Write(b1, h)
            b3 == Grow(b2, sz)
            b4 == [b3 EXCEPT !.offset = @ + sz]
            m == Copied(b4.buf, b4.offset - sz, s)
            c == Written(b, s)
<1>0. s \in Cells /\ sz \in Nat /\ 1 + sz \in Nat /\ b.offset \in Nat
  BY SliceType DEF Sound, Buffers
<1>1. h \in Cells /\ Len(h) = 1 /\ h[1] = sz
  BY <1>0 DEF Cells
<1>2. /\ Len(p) = 1 + sz /\ p[1] = sz
      /\ \A k \in 1..sz : p[k + 1] = s[k]
  <2>. HIDE DEF h
  <2>1. /\ Len(p) = Len(h) + sz /\ \A k \in 1..Len(h) : p[k] = h[k]
        /\ \A k \in 1..sz : p[k + Len(h)] = s[k]
    BY <1>0, <1>1, ConcatCells
  <2>2. 1 \in 1..Len(h)
    BY <1>1
  <2>. HIDE DEF p, sz
  <2>. QED  BY <1>0, <1>1, <2>1, <2>2
<1>3. c = [b4 EXCEPT !.buf = m]
  BY DEF Written, SliceAllocate, Allocate
<1>. HIDE DEF c, p
<1>4. Grown(b, 1 + sz, b1)
  BY <1>0, GrowIs
<1>. HIDE DEF b1
<1>5. Sound(b1) /\ b1.offset = b.offset /\ \A k \in 1..b.offset : b1.buf[k] = b.buf[k]
  BY <1>4 DEF Grown
<1>6. Extended(b1, h, b2)
  BY <1>1, <1>5, WriteIs
<1>. HIDE DEF b2, h
<1>7. /\ Sound(b2) /\ b2.offset = b.offset + 1
      /\ \A k \in 1..b.offset : b2.buf[k] = b1.buf[k]
      /\ \A k \in 1..1 : b2.buf[k + b.offset] = h[k]
  BY <1>1, <1>5, <1>6 DEF Extended
<1>8. Grown(b2, sz, b3)
  BY <1>0, <1>7, GrowIs
<1>. HIDE DEF b3
<1>9. /\ b3 \in Buffers /\ b3.offset = b.offset + 1 /\ b3.offset + sz < b3.curSz /\ Len(b3.buf) = b3.curSz /\ b3.held = b3.type
      /\ b3.buf \in Cells /\ b3.curSz \in Nat
      /\ \A k \in 1..(b.offset + 1) : b3.buf[k] = b2.buf[k]
  BY <1>7, <1>8 DEF Grown, Sound, Buffers
<1>10. /\ b4 \in Buffers /\ b4.offset = b.offset + 1 + sz /\ b4.offset - sz = b.offset + 1 /\ b4.buf = b3.buf
       /\ b4.curSz = b3.curSz /\ b4.held = b4.type
  <2>1. b3.offset + sz = b.offset + 1 + sz /\ b.offset + 1 + sz \in Nat /\ (b.offset + 1 + sz) - sz = b.offset + 1
    BY <1>0, <1>9
  <2>. HIDE DEF sz
  <2>2. b4 = [b3 EXCEPT !.offset = b.offset + 1 + sz]
    BY <2>1
  <2>. QED  BY <1>9, <2>1, <2>2 DEF Buffers
<1>. HIDE DEF b4
<1>11. /\ m \in Cells /\ Len(m) = b3.curSz
       /\ \A k \in 1..Len(b3.buf) :
            /\ k <= b.offset + 1 \/ (b.offset + 1) + sz < k => m[k] = b3.buf[k]
            /\ b.offset + 1 < k /\ k <= (b.offset + 1) + sz => m[k] = s[k - (b.offset + 1)]
  <2>1. b.offset + 1 \in Nat
    BY <1>0
  <2>2. m = Copied(b3.buf, b.offset + 1, s)
    BY <1>10
  <2>3. /\ Copied(b3.buf, b.offset + 1, s) \in Cells /\ Len(Copied(b3.buf, b.offset + 1, s)) = Len(b3.buf)
        /\ \A k \in 1..Len(b3.buf) :
            /\ k <= b.offset + 1 \/ (b.offset + 1) + Len(s) < k => Copied(b3.buf, b.offset + 1, s)[k] = b3.buf[k]
            /\ b.offset + 1 < k /\ k <= (b.offset + 1) + Len(s) => Copied(b3.buf, b.offset + 1, s)[k] = s[k - (b.offset + 1)]
    BY <1>0, <1>9, <2>1, CopiedCells
  <2>. HIDE DEF m
  <2>. QED  BY <1>9, <2>2, <2>3
<1>. HIDE DEF m
<1>12. c \in Buffers /\ c.offset = b.offset + 1 + sz /\ c.buf = m /\ c.curSz = b3.curSz /\ c.held = c.type
  BY <1>3, <1>10, <1>11 DEF Buffers
<1>13. c.offset < c.curSz /\ Len(c.buf) = c.curSz
  BY <1>0, <1>9, <1>11, <1>12
<1>14. c.offset = b.offset + Len(p)
  <2>1. b.offset + 1 + sz = b.offset + (1 + sz)
    BY <1>0
  <2>. HIDE DEF sz
  <2>. QED  BY <1>2, <1>12, <2>1
<1>15. ASSUME NEW k \in 1..b.offset PROVE c.buf[k] = b.buf[k]
  <2>1. k \in 1..Len(b3.buf) /\ k <= b.offset + 1 /\ k \in 1..(b.offset + 1)
    BY <1>0, <1>9
  <2>2. m[k] = b3.buf[k] /\ b3.buf[k] = b2.buf[k]
    BY <1>9, <1>11, <2>1
  <2>. QED  BY <1>5, <1>7, <1>12, <2>2
<1>16. ASSUME NEW k \in 1..Len(p) PROVE c.buf[k + b.offset] = p[k]
  <2>1. CASE k = 1
    <3>1. 1 + b.offset \in 1..Len(b3.buf) /\ 1 + b.offset <= b.offset + 1 /\ 1 + b.offset \in 1..(b.offset + 1)
      BY <1>0, <1>9
    <3>2. m[1 + b.offset] = b3.buf[1 + b.offset] /\ b3.buf[1 + b.offset] = b2.buf[1 + b.offset]
      BY <1>9, <1>11, <3>1
    <3>3. b2.buf[1 + b.offset] = h[1]
      BY <1>7
    <3>. QED  BY <1>1, <1>2, <1>12, <2>1, <3>2, <3>3
  <2>2. CASE k # 1
    <3>1. k - 1 \in 1..sz /\ (k - 1) + 1 = k
      BY <1>0, <1>2, <2>2
    <3>2. /\ k + b.offset \in 1..Len(b3.buf) /\ b.offset + 1 < k + b.offset /\ k + b.offset <= (b.offset + 1) + sz
          /\ (k + b.offset) - (b.offset + 1) = k - 1
      BY <1>0, <1>9, <3>1
    <3>3. m[k + b.offset] = s[k - 1]
      BY <1>11, <3>2
    <3>. QED  BY <1>2, <1>12, <3>1, <3>3
  <2>. QED  BY <2>1, <2>2
<1>17. Extended(b, p, c)
  BY <1>12, <1>13, <1>14, <1>15, <1>16 DEF Extended, Sound
<1>. QED  BY <1>17 DEF p, c, h

\* What is written joins the list.
LEMMA ExtendedHolds ==
    ASSUME NEW b, Sound(b), NEW p \in Cells, NEW c, Extended(b, p, c),
           NEW lo, NEW A \in Lists, Holds(b.buf, lo, b.offset, A),
           NEW B \in Lists, Holds(p, 0, Len(p), B)
    PROVE  Holds(c.buf, lo, c.offset, A \o B) /\ A \o B \in Lists
<1>0. /\ b.offset \in Nat /\ b.buf \in Cells /\ b.offset < Len(b.buf) /\ Len(b.buf) \in Nat /\ Len(p) \in Nat
      /\ c.offset = b.offset + Len(p) /\ c.buf \in Cells /\ c.offset < Len(c.buf) /\ Len(c.buf) \in Nat
      /\ \A k \in 1..b.offset : c.buf[k] = b.buf[k]
      /\ \A k \in 1..Len(p) : c.buf[k + b.offset] = p[k]
  BY CellsLen DEF Sound, Buffers, Extended
<1>1. lo \in Nat
  BY <1>0, HoldsBounds
<1>2. Holds(c.buf, lo, b.offset, A)
  <2>1. Moves(b.buf, lo, b.offset, c.buf, 0)
    <3>1. \A k \in Nat : lo < k /\ k <= b.offset => k \in 1..b.offset /\ k + 0 = k
      BY <1>0, <1>1
    <3>. QED  BY <1>0, <3>1 DEF Moves
  <2>2. lo + 0 = lo /\ b.offset + 0 = b.offset /\ b.offset + 0 <= Len(c.buf) /\ lo + 0 \in Nat
    BY <1>0, <1>1
  <2>3. Holds(c.buf, lo + 0, b.offset + 0, A)
    BY <1>0, <2>1, <2>2, HoldsShift
  <2>. QED  BY <2>2, <2>3
<1>3. Holds(c.buf, b.offset, c.offset, B)
  <2>1. Moves(p, 0, Len(p), c.buf, b.offset)
    <3>1. \A k \in Nat : 0 < k /\ k <= Len(p) => k \in 1..Len(p)
      BY <1>0
    <3>. QED  BY <1>0, <3>1 DEF Moves
  <2>2. 0 + b.offset = b.offset /\ Len(p) + b.offset = c.offset /\ Len(p) + b.offset <= Len(c.buf) /\ 0 + b.offset \in Nat
    BY <1>0
  <2>3. Holds(c.buf, 0 + b.offset, Len(p) + b.offset, B)
    BY <1>0, <2>1, <2>2, HoldsShift
  <2>. QED  BY <2>2, <2>3
<1>. QED  BY <1>0, <1>2, <1>3, HoldsJoin

\* WriteSlice appends.
LEMMA WrittenHolds ==
    ASSUME NEW b, Sound(b), NEW L \in Lists, Holds(b.buf, padding, b.offset, L), NEW s \in Slices
    PROVE  /\ Sound(Written(b, s)) /\ Append(L, s) \in Lists
           /\ Holds(Written(b, s).buf, padding, Written(b, s).offset, Append(L, s))
<1>. DEFINE p == <<Len(s)>> \o s
            c == Written(b, s)
<1>1. Extended(b, p, c) /\ Sound(c)
  BY WrittenIs DEF Extended
<1>2. p \in Cells /\ Len(p) = 1 + Len(s) /\ Holds(p, 0, 1 + Len(s), <<s>>) /\ <<s>> \in Lists
  BY HoldsOne
<1>. HIDE DEF p, c
<1>3. Holds(c.buf, padding, c.offset, L \o <<s>>) /\ L \o <<s>> \in Lists
  BY <1>1, <1>2, ExtendedHolds
<1>4. L \o <<s>> = Append(L, s)
  BY AppendIsConcat DEF Lists
<1>. QED  BY <1>1, <1>3, <1>4 DEF c

-----------------------------------------------------------------------------
(* Lists with the same slices, and sorted ones *)

Times(x, A) == Cardinality({i \in 1..Len(A) : A[i] = x})
Same(A, B) == Len(A) = Len(B) /\ \A x : Times(x, A) = Times(x, B)

\* How often a slice is in a list is a number.
LEMMA PlacesFinite ==
    ASSUME NEW A \in Lists, NEW x
    PROVE  IsFiniteSet({i \in 1..Len(A) : A[i] = x}) /\ Times(x, A) \in Nat
<1>1. IsFiniteSet(1..Len(A))
  BY ListsLen, FS_Interval
<1>2. IsFiniteSet({i \in 1..Len(A) : A[i] = x})
  BY <1>1, FS_Subset
<1>. QED  BY <1>2, FS_CardinalityType DEF Times

\* How often a slice is in two lists together
LEMMA TimesConcat ==
    ASSUME NEW A \in Lists, NEW B \in Lists, NEW x
    PROVE  Times(x, A \o B) = Times(x, A) + Times(x, B)
<1>. DEFINE L == A \o B
            P == {i \in 1..Len(A) : A[i] = x}
            Q == {i \in 1..Len(B) : B[i] = x}
            M == {i \in 1..Len(L) : L[i] = x}
            R == {i \in M : i > Len(A)}
            f == [i \in Q |-> i + Len(A)]
<1>1. /\ L \in Lists /\ Len(L) = Len(A) + Len(B) /\ Len(A) \in Nat /\ Len(B) \in Nat
      /\ \A k \in 1..Len(A) : L[k] = A[k]
      /\ \A k \in 1..Len(B) : L[k + Len(A)] = B[k]
  BY ConcatLists
<1>. HIDE DEF L
<1>2. IsFiniteSet(P) /\ IsFiniteSet(Q)
  BY PlacesFinite
<1>3. M = P \cup R /\ P \cap R = {}
  <2>1. \A i \in 1..Len(L) : i \in 1..Len(A) \/ i > Len(A)
    BY <1>1
  <2>2. \A i \in 1..Len(A) : i \in 1..Len(L) /\ ~(i > Len(A))
    BY <1>1
  <2>. QED  BY <1>1, <2>1, <2>2
<1>4. f \in Bijection(Q, R)
  <2>1. \A i \in Q : i + Len(A) \in R
    <3>1. \A i \in Q : i + Len(A) \in 1..Len(L) /\ i + Len(A) > Len(A)
      BY <1>1
    <3>. QED  BY <1>1, <3>1
  <2>2. \A i \in R : i - Len(A) \in Q /\ (i - Len(A)) + Len(A) = i
    <3>1. \A i \in R : i - Len(A) \in 1..Len(B) /\ (i - Len(A)) + Len(A) = i
      BY <1>1
    <3>. QED  BY <1>1, <3>1
  <2>3. \A i, j \in Q : i + Len(A) = j + Len(A) => i = j
    BY <1>1
  <2>. HIDE DEF Q, R
  <2>4. f \in [Q -> R] /\ \A i \in Q : f[i] = i + Len(A)
    BY <2>1
  <2>5. \A y \in R : \E i \in Q : f[i] = y
    BY <2>2, <2>4
  <2>6. IsInjective(f)
    BY <2>3, <2>4 DEF IsInjective
  <2>. QED  BY <2>4, <2>5, <2>6 DEF Bijection, Injection, Surjection
<1>. HIDE DEF P, Q, R, M, f
<1>5. IsFiniteSet(R) /\ Cardinality(R) = Cardinality(Q)
  <2>1. ExistsBijection(Q, R)
    BY <1>4 DEF ExistsBijection
  <2>. QED  BY <1>2, <2>1, FS_Bijection
<1>6. Cardinality(M) = Cardinality(P) + Cardinality(R) - Cardinality({})
  BY <1>2, <1>3, <1>5, FS_Union
<1>7. Cardinality(P) \in Nat /\ Cardinality(R) \in Nat /\ Cardinality({}) = 0
  BY <1>2, <1>5, FS_CardinalityType, FS_EmptySet
<1>8. Cardinality(M) = Cardinality(P) + Cardinality(Q)
  BY <1>5, <1>6, <1>7
<1>. QED  BY <1>8 DEF Times, M, P, Q, L

\* Both lists in another order
LEMMA SameRearranged ==
    ASSUME NEW A \in Lists, NEW B \in Lists, Len(A) = Len(B),
           NEW p \in Bijection(1..Len(A), 1..Len(A)), \A i \in 1..Len(A) : B[i] = A[p[i]]
    PROVE  Same(A, B)
<1>. DEFINE I == 1..Len(A)
<1>0. p \in [I -> I] /\ (\A x, y \in I : p[x] = p[y] => x = y) /\ \A y \in I : \E x \in I : p[x] = y
  BY DEF Bijection, Injection, Surjection, IsInjective
<1>1. ASSUME NEW x PROVE Times(x, A) = Times(x, B)
  <2>. DEFINE P == {i \in 1..Len(A) : A[i] = x}
              Q == {i \in 1..Len(B) : B[i] = x}
              f == [i \in Q |-> p[i]]
  <2>1. Q = {i \in I : A[p[i]] = x}
    OBVIOUS
  <2>2. f \in [Q -> P] /\ (\A i, j \in Q : f[i] = f[j] => i = j) /\ \A y \in P : \E i \in Q : f[i] = y
    <3>. HIDE DEF I
    <3>1. P = {i \in I : A[i] = x}
      BY DEF I
    <3>. HIDE DEF P, Q
    <3>. QED  BY <1>0, <2>1, <3>1
  <2>3. f \in Bijection(Q, P)
    <3>1. DOMAIN f = Q
      OBVIOUS
    <3>. HIDE DEF f, P, Q
    <3>. QED  BY <2>2, <3>1 DEF Bijection, Injection, Surjection, IsInjective
  <2>4. ExistsBijection(Q, P)
    BY <2>3 DEF ExistsBijection
  <2>5. IsFiniteSet(Q)
    BY PlacesFinite
  <2>. HIDE DEF P, Q
  <2>6. Cardinality(P) = Cardinality(Q)
    BY <2>4, <2>5, FS_Bijection
  <2>. QED  BY <2>6 DEF Times, P, Q
<1>. QED  BY <1>1 DEF Same

\* Rearrangements of two lists, side by side
LEMMA SameConcat ==
    ASSUME NEW A \in Lists, NEW B \in Lists, NEW C \in Lists, NEW D \in Lists, Same(A, C), Same(B, D)
    PROVE  Same(A \o B, C \o D)
<1>1. Len(A \o B) = Len(A) + Len(B) /\ Len(C \o D) = Len(C) + Len(D)
  BY ConcatLists
<1>2. \A x : Times(x, A \o B) = Times(x, C \o D)
  BY TimesConcat DEF Same
<1>. QED  BY <1>1, <1>2 DEF Same

\* Rearrangements compose, and go both ways.
LEMMA SameTransitive ==
    ASSUME NEW A, NEW B, NEW C, Same(A, B), Same(B, C)
    PROVE  Same(A, C) /\ Same(B, A)
BY DEF Same

InOrder(A) == \A i, j \in 1..Len(A) : i < j => ~less(A[j], A[i])
\* No slice of B is less than one of A.
Before(A, B) == \A i \in 1..Len(A), j \in 1..Len(B) : ~less(B[j], A[i])

\* Two sorted lists, one of which comes before the other, are sorted together.
LEMMA InOrderConcat ==
    ASSUME NEW A \in Lists, NEW B \in Lists, InOrder(A), InOrder(B), Before(A, B)
    PROVE  InOrder(A \o B)
<1>. DEFINE L == A \o B
<1>1. /\ L \in Lists /\ Len(L) = Len(A) + Len(B) /\ Len(A) \in Nat /\ Len(B) \in Nat
      /\ \A k \in 1..Len(A) : L[k] = A[k]
      /\ \A k \in 1..Len(B) : L[k + Len(A)] = B[k]
  BY ConcatLists
<1>. HIDE DEF L
<1>2. \A i \in 1..Len(L) : \/ i \in 1..Len(A) /\ L[i] = A[i]
                           \/ i - Len(A) \in 1..Len(B) /\ L[i] = B[i - Len(A)]
  <2>1. \A i \in 1..Len(L) : i \in 1..Len(A) \/ (i - Len(A) \in 1..Len(B) /\ (i - Len(A)) + Len(A) = i)
    BY <1>1
  <2>. QED  BY <1>1, <2>1
<1>3. ASSUME NEW i \in 1..Len(L), NEW j \in 1..Len(L), i < j PROVE ~less(L[j], L[i])
  <2>1. CASE i \in 1..Len(A) /\ j \in 1..Len(A)
    BY <1>1, <1>3, <2>1 DEF InOrder
  <2>2. CASE i \in 1..Len(A) /\ j - Len(A) \in 1..Len(B) /\ L[j] = B[j - Len(A)]
    BY <1>1, <2>2 DEF Before
  <2>3. CASE /\ i - Len(A) \in 1..Len(B) /\ L[i] = B[i - Len(A)]
             /\ j - Len(A) \in 1..Len(B) /\ L[j] = B[j - Len(A)]
    <3>1. i - Len(A) < j - Len(A)
      BY <1>1, <1>3
    <3>. QED  BY <2>3, <3>1 DEF InOrder
  <2>4. CASE i - Len(A) \in 1..Len(B) /\ j \in 1..Len(A)
    BY <1>1, <1>3, <2>4
  <2>. QED  BY <1>2, <2>1, <2>2, <2>3, <2>4
<1>. QED  BY <1>3 DEF InOrder, L

\* How many cells a list takes
LEMMA HoldsSize ==
    ASSUME NEW m \in Cells, NEW lo, NEW hi, NEW L \in Lists, Holds(m, lo, hi, L)
    PROVE  hi - lo = SumFunctionOnSet([i \in 1..Len(L) |-> 1 + Len(L[i])], 1..Len(L))
<1>. DEFINE n == Len(L)
            f == [i \in 1..n |-> 1 + Len(L[i])]
            T(k) == SumFunctionOnSet(f, 1..k)
<1>1. PICK o : At(m, o, L) /\ o[1] = lo /\ o[n + 1] = hi
  BY DEF Holds
<1>2. n \in Nat /\ \A i \in 1..(n + 1) : o[i] \in Nat
  BY <1>1, CellsLen, AtBounds
<1>3. \A i \in 1..n : f[i] = 1 + Len(L[i]) /\ f[i] \in Int
  BY SliceType
<1>. HIDE DEF f
<1>. DEFINE S == {k \in 0..n : o[k + 1] - o[1] = T(k)}
<1>4. 0 \in S
  <2>1. 1..0 = {} /\ o[0 + 1] - o[1] = 0 /\ 0 \in 0..n
    <3>1. 0 + 1 = 1 /\ o[1] \in Nat /\ o[1] - o[1] = 0
      BY <1>2
    <3>. QED  BY <1>2, <3>1
  <2>2. T(0) = 0
    BY <2>1, FS_EmptySet, SumStep
  <2>. HIDE DEF T
  <2>. QED  BY <2>1, <2>2
<1>5. ASSUME NEW k \in 1..n, k - 1 \in S PROVE k \in S
  <2>1. o[(k - 1) + 1] - o[1] = T(k - 1)
    <3>. HIDE DEF T
    <3>. QED  BY <1>5
  <2>2. T(k) = f[k] + T(k - 1)
    <3>1. IsFiniteSet(1..k) /\ k \in 1..k /\ (1..k) \ {k} = 1..(k - 1) /\ \A x \in 1..k : f[x] \in Int
      <4>1. k \in Nat /\ k >= 1 /\ k \in Int /\ 1 \in Int
        BY <1>2
      <4>2. IsFiniteSet(1..k)
        BY <4>1, FS_Interval
      <4>3. \A x \in 1..k : x \in 1..n
        BY <1>2
      <4>4. k \in 1..k /\ (1..k) \ {k} = 1..(k - 1)
        BY <4>1
      <4>. QED  BY <1>3, <4>2, <4>3, <4>4
    <3>2. SumFunctionOnSet(f, 1..k) = f[k] + SumFunctionOnSet(f, (1..k) \ {k})
      BY <3>1, SumTakeOut
    <3>. QED  BY <3>1, <3>2
  <2>. HIDE DEF T
  <2>3. (k - 1) + 1 = k /\ k \in 1..(n + 1) /\ k + 1 \in 1..(n + 1) /\ 1 \in 1..(n + 1) /\ k \in 0..n
    BY <1>2
  <2>4. o[k + 1] = o[k] + 1 + Len(L[k]) /\ Len(L[k]) \in Nat
    BY <1>1, SliceType DEF At
  <2>5. o[k] \in Nat /\ o[1] \in Nat /\ f[k] = 1 + Len(L[k])
    BY <1>2, <1>3, <2>3
  <2>6. o[k + 1] - o[1] = f[k] + (o[k] - o[1])
    BY <2>4, <2>5
  <2>. QED  BY <2>1, <2>2, <2>3, <2>6
<1>6. n \in S
  <2>1. \A k \in 0..n : k \in S
    <3>. HIDE DEF S, n
    <3>. QED  BY <1>2, <1>4, <1>5, UpTo
  <2>2. n \in 0..n
    BY <1>2
  <2>. HIDE DEF S, n
  <2>. QED  BY <2>1, <2>2
<1>7. hi - lo = T(n)
  BY <1>1, <1>6
<1>. QED  BY <1>7 DEF f

\* A rearranged list takes the same space.
LEMMA SizeRearranged ==
    ASSUME NEW m \in Cells, NEW lo, NEW hi, NEW A \in Lists, Holds(m, lo, hi, A),
           NEW w \in Cells, NEW lo2, NEW hi2, NEW B \in Lists, Holds(w, lo2, hi2, B), Len(A) = Len(B),
           NEW p \in Bijection(1..Len(A), 1..Len(A)), \A i \in 1..Len(A) : B[i] = A[p[i]]
    PROVE  hi2 - lo2 = hi - lo
<1>. DEFINE I == 1..Len(A)
            f == [i \in 1..Len(A) |-> 1 + Len(A[i])]
            g == [i \in 1..Len(B) |-> 1 + Len(B[i])]
<1>1. hi - lo = SumFunctionOnSet(f, 1..Len(A)) /\ hi2 - lo2 = SumFunctionOnSet(g, 1..Len(B))
  BY HoldsSize
<1>2. IsFiniteSet(I) /\ p \in Bijection(I, I)
  BY ListsLen, FS_Interval
<1>3. p \in [I -> I]
  BY DEF Bijection, Injection
<1>4. (\A y \in I : f[y] \in Int) /\ \A x \in I : g[x] = f[p[x]]
  <2>1. ASSUME NEW y \in I  PROVE f[y] = 1 + Len(A[y]) /\ g[y] = 1 + Len(B[y]) /\ Len(A[y]) \in Nat
    BY SliceType
  <2>2. ASSUME NEW x \in I  PROVE p[x] \in I /\ B[x] = A[p[x]]
    BY <1>3
  <2>. HIDE DEF I, f, g
  <2>3. \A y \in I : f[y] \in Int
    BY <2>1
  <2>. QED  BY <2>1, <2>2, <2>3
<1>. HIDE DEF f, g
<1>5. SumFunctionOnSet(g, I) = SumFunctionOnSet(f, I)
  <2>. HIDE DEF I
  <2>. QED  BY <1>2, <1>4, SumBijection
<1>. QED  BY <1>1, <1>5

-----------------------------------------------------------------------------
(* Merging *)

\* The first slice of L, at lo, is s, and R the rest.
First(m, lo, hi, L, s, R) ==
    /\ L = <<s>> \o R /\ Holds(m, lo + 1 + Len(s), hi, R)
    /\ rawSlice(m, lo) = <<Len(s)>> \o s

\* A range that holds a list begins with its first slice.
LEMMA HoldsFirst ==
    ASSUME NEW m \in Cells, NEW lo, NEW hi, NEW L \in Lists, Holds(m, lo, hi, L), L # <<>>
    PROVE  \E s \in Slices, R \in Lists : First(m, lo, hi, L, s, R)
<1>1. PICK o : At(m, o, L) /\ o[1] = lo /\ o[Len(L) + 1] = hi
  BY DEF Holds
<1>. DEFINE s == L[1]
            R == Part(L, 2, Len(L) + 1)
<1>2. /\ Len(L) \in Nat /\ 1 \in 1..Len(L) /\ 2 \in 1..(Len(L) + 1) /\ Len(L) + 1 \in 1..(Len(L) + 1)
      /\ 2 <= Len(L) + 1 /\ Len(L) + 1 \in (1 + 1)..(Len(L) + 1) /\ 1 + 1 = 2
  BY ListsLen
<1>3. s \in Slices /\ Len(s) \in Nat
  BY <1>2, SliceType
<1>4. SliceIn(m, o, L, 1)
  BY <1>1, <1>2, AtSlice
<1>5. o[2] = lo + 1 + Len(s) /\ rawSlice(m, lo) = <<Len(s)>> \o s
  BY <1>1, <1>2, <1>4 DEF SliceIn
<1>6. Holds(m, o[2], o[Len(L) + 1], R) /\ R \in Lists
  BY <1>1, <1>2, AtPart
<1>7. L = <<s>> \o R
  <2>1. Part(L, 1, Len(L) + 1) = <<L[1]>> \o Part(L, 1 + 1, Len(L) + 1)
    BY <1>2, PartStep
  <2>. QED  BY <1>2, <2>1, PartEnds
<1>. HIDE DEF s, R
<1>8. First(m, lo, hi, L, s, R)
  BY <1>1, <1>5, <1>6, <1>7 DEF First
<1>. QED  BY <1>3, <1>6, <1>8

\* The slice behind its length
LEMMA RawTail ==
    ASSUME NEW s \in Slices
    PROVE  Tail(<<Len(s)>> \o s) = s
<1>1. s \in Seq(Nat) /\ Len(s) \in Nat
  BY SliceType DEF Cells
<1>. QED  BY <1>1

\* C, A and B have the slices of Z.
Shared(C, A, B, Z) ==
    /\ Len(C) + Len(A) + Len(B) = Len(Z)
    /\ \A x : Times(x, C) + Times(x, A) + Times(x, B) = Times(x, Z)

\* A round of merge has a part that is done, C, and what is left of the runs, A and B.
MergeOf(m, C, A, B, Z) ==
    /\ Holds(m.mem, 0, m.start, C) /\ Holds(m.left, 0, Len(m.left), A)
    /\ Holds(m.mem, m.right, Len(m.mem), B)
    /\ Shared(C, A, B, Z)
    /\ InOrder(C) /\ InOrder(A) /\ InOrder(B) /\ Before(C, A) /\ Before(C, B)

MergeStates(n) ==
    {m \in [mem : Cells, left : Cells, right : Nat, start : Nat] :
        Len(m.mem) = n /\ m.start + Len(m.left) = m.right /\ m.right <= n}

Merging(n, Z) ==
    {m \in MergeStates(n) : \E C, A, B \in Lists : MergeOf(m, C, A, B, Z)}

\* A slice moves from a list to what is done.
LEMMA SharedTake ==
    ASSUME NEW C \in Lists, NEW A \in Lists, NEW B \in Lists, NEW Z, NEW s \in Slices, NEW R \in Lists,
           Shared(C, A, B, Z)
    PROVE  /\ A = <<s>> \o R => Shared(C \o <<s>>, R, B, Z)
           /\ B = <<s>> \o R => Shared(C \o <<s>>, A, R, Z)
           /\ Shared(C \o A, <<>>, B, Z)
<1>0. <<s>> \in Lists /\ <<>> \in Lists
  BY DEF Lists
<1>. DEFINE D == C \o <<s>>
            E == <<s>> \o R
            F == C \o A
<1>1. Len(D) = Len(C) + Len(<<s>>) /\ Len(E) = Len(<<s>>) + Len(R) /\ Len(F) = Len(C) + Len(A)
  BY <1>0, ConcatLists
<1>2. \A x : Times(x, D) = Times(x, C) + Times(x, <<s>>)
  BY <1>0, TimesConcat
<1>3. \A x : Times(x, E) = Times(x, <<s>>) + Times(x, R)
  BY <1>0, TimesConcat
<1>4. \A x : Times(x, F) = Times(x, C) + Times(x, A)
  BY TimesConcat
<1>5. \A x : Times(x, A) \in Nat /\ Times(x, B) \in Nat /\ Times(x, C) \in Nat /\ Times(x, R) \in Nat /\ Times(x, <<s>>) \in Nat
  BY <1>0, PlacesFinite
<1>6. Len(A) \in Nat /\ Len(B) \in Nat /\ Len(C) \in Nat /\ Len(R) \in Nat /\ Len(<<s>>) \in Nat /\ Len(<<>>) = 0
  BY <1>0, ListsLen
<1>7. \A x : Times(x, <<>>) = 0
  <2>1. \A x : {i \in 1..Len(<<>>) : <<>>[i] = x} = {}
    BY <1>6
  <2>. QED  BY <2>1, FS_EmptySet DEF Times
<1>. DEFINE one == <<s>>
            none == <<>>
<1>. HIDE DEF D, E, F, one, none
<1>8. Len(D) = Len(C) + Len(one) /\ Len(E) = Len(one) + Len(R) /\ Len(one) \in Nat /\ Len(none) = 0
  BY <1>1, <1>6 DEF one, none
<1>9. \A x : /\ Times(x, D) = Times(x, C) + Times(x, one) /\ Times(x, E) = Times(x, one) + Times(x, R)
             /\ Times(x, one) \in Nat /\ Times(x, none) = 0
  BY <1>2, <1>3, <1>5, <1>7 DEF one, none
<1>10. A = E => Shared(D, R, B, Z)
  BY <1>5, <1>6, <1>8, <1>9 DEF Shared
<1>11. B = E => Shared(D, A, R, Z)
  BY <1>5, <1>6, <1>8, <1>9, SMTT(40) DEF Shared
<1>12. Shared(F, none, B, Z)
  BY <1>1, <1>4, <1>5, <1>6, <1>8, <1>9 DEF Shared
<1>. QED  BY <1>10, <1>11, <1>12 DEF D, E, F, none

\* What is done stays before the rest when a least slice is added.
LEMMA BeforeOne ==
    ASSUME NEW C \in Lists, NEW s \in Slices, NEW A \in Lists, Before(C, A), \A j \in 1..Len(A) : ~less(A[j], s)
    PROVE  Before(C \o <<s>>, A)
<1>. DEFINE L == C \o <<s>>
<1>0. <<s>> \in Lists /\ Len(<<s>>) = 1 /\ <<s>>[1] = s
  BY DEF Lists
<1>1. /\ Len(L) = Len(C) + Len(<<s>>) /\ Len(C) \in Nat
      /\ \A k \in 1..Len(C) : L[k] = C[k]
      /\ \A k \in 1..Len(<<s>>) : L[k + Len(C)] = <<s>>[k]
  BY <1>0, ConcatLists
<1>2. Len(L) = Len(C) + 1 /\ L[1 + Len(C)] = s
  BY <1>0, <1>1
<1>. HIDE DEF L
<1>3. \A i \in 1..Len(L) : (i \in 1..Len(C) /\ L[i] = C[i]) \/ L[i] = s
  <2>1. \A i \in 1..Len(L) : i \in 1..Len(C) \/ i = 1 + Len(C)
    BY <1>1, <1>2
  <2>. QED  BY <1>1, <1>2, <2>1
<1>4. Before(L, A)
  BY <1>3 DEF Before
<1>. QED  BY <1>4 DEF L

\* The first slice of a sorted list comes before the rest.
LEMMA InOrderRest ==
    ASSUME NEW s \in Slices, NEW R \in Lists, InOrder(<<s>> \o R)
    PROVE  InOrder(R) /\ \A j \in 1..Len(R) : ~less(R[j], s)
<1>. DEFINE L == <<s>> \o R
<1>0. <<s>> \in Lists /\ Len(<<s>>) = 1 /\ <<s>>[1] = s
  BY DEF Lists
<1>1. /\ Len(L) = Len(<<s>>) + Len(R) /\ Len(R) \in Nat
      /\ \A k \in 1..Len(<<s>>) : L[k] = <<s>>[k]
      /\ \A k \in 1..Len(R) : L[k + Len(<<s>>)] = R[k]
  BY <1>0, ConcatLists
<1>2. Len(L) = 1 + Len(R) /\ L[1] = s /\ \A k \in 1..Len(R) : L[k + 1] = R[k]
  BY <1>0, <1>1
<1>3. InOrder(L)
  OBVIOUS
<1>. HIDE DEF L
<1>4. \A k \in 1..Len(R) : k + 1 \in 1..Len(L) /\ 1 \in 1..Len(L) /\ 1 < k + 1
  BY <1>1, <1>2
<1>5. \A i, j \in 1..Len(R) : i < j => i + 1 < j + 1
  OBVIOUS
<1>6. InOrder(R)
  BY <1>2, <1>3, <1>4, <1>5 DEF InOrder
<1>7. \A j \in 1..Len(R) : ~less(R[j], s)
  BY <1>2, <1>3, <1>4 DEF InOrder
<1>. QED  BY <1>6, <1>7

\* The order is strict and weak.
LEMMA OrderFacts ==
    ASSUME NEW s \in Slices, NEW t \in Slices, NEW u \in Slices
    PROVE  /\ less(s, t) /\ less(t, u) => less(s, u)
           /\ less(s, u) => less(s, t) \/ less(t, u)
           /\ ~less(s, s)
BY LessOrders

\* One of the runs is used up: the other is where it belongs, or is copied there.
LEMMA RoundLast ==
    ASSUME NEW n \in Nat, NEW Z, NEW m \in Merging(n, Z), m.left = <<>> \/ m.right = Len(m.mem)
    PROVE  mergeRound(m) \in Merging(n, Z) /\ mergeRound(m).left = <<>>
<1>0. /\ m \in MergeStates(n) /\ m \in [mem : Cells, left : Cells, right : Nat, start : Nat]
      /\ m.mem \in Cells /\ m.left \in Cells /\ m.right \in Nat /\ m.start \in Nat
      /\ Len(m.mem) = n /\ m.start + Len(m.left) = m.right /\ m.right <= n /\ Len(m.left) \in Nat
  BY CellsLen DEF Merging, MergeStates
<1>1. PICK C, A, B \in Lists : MergeOf(m, C, A, B, Z)
  BY DEF Merging
<1>2. /\ Holds(m.mem, 0, m.start, C) /\ Holds(m.left, 0, Len(m.left), A) /\ Holds(m.mem, m.right, n, B)
      /\ Shared(C, A, B, Z) /\ InOrder(C) /\ InOrder(A) /\ InOrder(B) /\ Before(C, A) /\ Before(C, B)
  BY <1>0, <1>1 DEF MergeOf
<1>. DEFINE r == mergeRound(m)
            w == Copied(m.mem, m.start, m.left)
<1>3. r = [m EXCEPT !.mem = w, !.left = <<>>, !.start = @ + Len(m.left)]
  BY DEF mergeRound
<1>4. w \in Cells /\ Len(w) = n
  BY <1>0, CopiedCells
<1>. HIDE DEF r
<1>5. <<>> \in Cells /\ Len(<<>>) = 0 /\ <<>> \in Lists
  BY DEF Cells, Lists
<1>6. r.mem = w /\ r.left = <<>> /\ r.start = m.right /\ r.right = m.right /\ r \in MergeStates(n)
  <2>1. m.right + Len(<<>>) = m.right
    BY <1>0, <1>5
  <2>2. r = [m EXCEPT !.mem = w, !.left = <<>>, !.start = m.right]
    BY <1>0, <1>3
  <2>3. r \in [mem : Cells, left : Cells, right : Nat, start : Nat] /\ r.mem = w /\ r.left = <<>> /\ r.start = m.right /\ r.right = m.right
    <3>. HIDE DEF w
    <3>. QED  BY <1>0, <1>4, <1>5, <2>2
  <2>. HIDE DEF w
  <2>. QED  BY <1>0, <1>4, <2>1, <2>3 DEF MergeStates
<1>7. Holds(w, 0, m.right, C \o A) /\ C \o A \in Lists
  <2>1. m.start <= m.start /\ m.start + Len(m.left) <= Len(m.mem)
    BY <1>0
  <2>2. Holds(w, 0, m.start, C)
    BY <1>0, <1>2, <2>1, HoldsBeside
  <2>3. Holds(w, m.start, m.start + Len(m.left), A)
    BY <1>0, <1>2, <2>1, HoldsCopied
  <2>. HIDE DEF w
  <2>. QED  BY <1>0, <1>4, <2>2, <2>3, HoldsJoin
<1>8. Holds(w, m.right, n, B)
  <2>1. m.start + Len(m.left) <= m.right
    BY <1>0
  <2>. QED  BY <1>0, <1>2, <2>1, HoldsBeside
<1>9. A = <<>> \/ B = <<>>
  <2>1. CASE m.left = <<>>
    <3>1. Len(m.left) = 0
      BY <1>5, <2>1
    <3>. QED  BY <1>0, <1>2, <3>1, HoldsBounds
  <2>2. CASE m.right = Len(m.mem)
    BY <1>0, <1>2, <2>2, HoldsBounds
  <2>. QED  BY <2>1, <2>2
<1>10. Before(C \o A, B) /\ Before(C \o A, <<>>) /\ InOrder(<<>>)
  <2>1. CASE A = <<>>
    <3>1. C \o A = C
      BY <2>1, ConcatEmptySeq DEF Lists
    <3>. QED  BY <1>2, <1>5, <3>1 DEF Before, InOrder
  <2>2. CASE B = <<>>
    BY <1>5, <2>2 DEF Before, InOrder
  <2>. QED  BY <1>9, <2>1, <2>2
<1>11. InOrder(C \o A)
  BY <1>2, InOrderConcat
<1>12. Shared(C \o A, <<>>, B, Z)
  <2>1. \A s \in Slices : Shared(C \o A, <<>>, B, Z)
    BY <1>2, <1>5, SharedTake
  <2>2. CASE Slices # {}
    BY <2>1, <2>2
  <2>3. CASE Slices = {}
    <3>1. C = <<>> /\ A = <<>>
      <4>1. Len(C) = 0 /\ Len(A) = 0
        <5>1. ASSUME Len(C) # 0 PROVE FALSE
          BY <2>3, <5>1, ListsLen, SliceType, 1 \in 1..Len(C)
        <5>2. ASSUME Len(A) # 0 PROVE FALSE
          BY <2>3, <5>2, ListsLen, SliceType, 1 \in 1..Len(A)
        <5>. QED  BY <5>1, <5>2
      <4>. QED  BY <4>1, ListsLen
    <3>2. C \o A = C
      BY <3>1, ConcatEmptySeq DEF Lists
    <3>. QED  BY <1>2, <3>1, <3>2
  <2>. QED  BY <2>2, <2>3
<1>13. Holds(r.left, 0, Len(r.left), <<>>)
  <2>1. 0 \in Nat /\ 0 <= Len(<<>>)
    BY <1>5
  <2>. QED  BY <1>5, <1>6, <2>1, HoldsEmpty
<1>. DEFINE D == C \o A
            E == <<>>
<1>. HIDE DEF w
<1>14. MergeOf(r, D, E, B, Z)
  BY <1>2, <1>4, <1>6, <1>7, <1>8, <1>10, <1>11, <1>12, <1>13 DEF MergeOf
<1>15. D \in Lists /\ E \in Lists
  BY <1>5, <1>7
<1>. HIDE DEF D, E
<1>16. r \in Merging(n, Z)
  BY <1>6, <1>14, <1>15 DEF Merging
<1>. QED  BY <1>6, <1>16 DEF r

\* A round of merge takes a slice and keeps what merge relies on.
LEMMA RoundTakes ==
    ASSUME NEW n \in Nat, NEW Z, NEW m \in Merging(n, Z), ~(m.left = <<>> \/ m.right = Len(m.mem))
    PROVE  mergeRound(m) \in Merging(n, Z) /\ mergeRound(m).start > m.start
<1>0. /\ m \in MergeStates(n) /\ m \in [mem : Cells, left : Cells, right : Nat, start : Nat]
      /\ m.mem \in Cells /\ m.left \in Cells /\ m.right \in Nat /\ m.start \in Nat
      /\ Len(m.mem) = n /\ m.start + Len(m.left) = m.right /\ m.right <= n /\ Len(m.left) \in Nat
  BY CellsLen DEF Merging, MergeStates
<1>1. PICK C, A, B \in Lists : MergeOf(m, C, A, B, Z)
  BY DEF Merging
<1>2. /\ Holds(m.mem, 0, m.start, C) /\ Holds(m.left, 0, Len(m.left), A) /\ Holds(m.mem, m.right, n, B)
      /\ Shared(C, A, B, Z) /\ InOrder(C) /\ InOrder(A) /\ InOrder(B) /\ Before(C, A) /\ Before(C, B)
  BY <1>0, <1>1 DEF MergeOf
<1>3. A # <<>> /\ B # <<>>
  <2>1. Len(m.left) # 0 /\ m.right # n
    <3>1. Len(m.left) = 0 => m.left = <<>>
      BY <1>0 DEF Cells
    <3>. QED  BY <1>0, <3>1
  <2>. QED  BY <1>0, <1>2, <2>1, HoldsBounds
<1>4. PICK a \in Slices, P \in Lists :
         A = <<a>> \o P /\ Holds(m.left, 0 + 1 + Len(a), Len(m.left), P) /\ rawSlice(m.left, 0) = <<Len(a)>> \o a
  <2>1. \E a \in Slices, P \in Lists : First(m.left, 0, Len(m.left), A, a, P)
    BY <1>0, <1>2, <1>3, HoldsFirst
  <2>. QED  BY <2>1 DEF First
<1>5. PICK b \in Slices, Q \in Lists :
         B = <<b>> \o Q /\ Holds(m.mem, m.right + 1 + Len(b), n, Q) /\ rawSlice(m.mem, m.right) = <<Len(b)>> \o b
  <2>1. \E b \in Slices, Q \in Lists : First(m.mem, m.right, n, B, b, Q)
    BY <1>0, <1>2, <1>3, HoldsFirst
  <2>. QED  BY <2>1 DEF First
<1>. DEFINE r == mergeRound(m)
            ls == <<Len(a)>> \o a
            rs == <<Len(b)>> \o b
<1>6. /\ ls \in Cells /\ Len(ls) = 1 + Len(a) /\ Holds(ls, 0, Len(ls), <<a>>) /\ Len(a) \in Nat
      /\ rs \in Cells /\ Len(rs) = 1 + Len(b) /\ Holds(rs, 0, Len(rs), <<b>>) /\ Len(b) \in Nat
      /\ <<a>> \in Lists /\ <<b>> \in Lists
  BY HoldsOne, SliceType
<1>7. r = IF less(a, b)
          THEN [m EXCEPT !.mem = Copied(@, m.start, ls), !.start = @ + Len(ls),
                         !.left = Between(@, Len(ls), Len(@))]
          ELSE [m EXCEPT !.mem = Copied(@, m.start, rs), !.start = @ + Len(rs), !.right = @ + Len(rs)]
  <2>1. Tail(rawSlice(m.left, 0)) = a /\ Tail(rawSlice(m.mem, m.right)) = b
    BY <1>4, <1>5, RawTail
  <2>. QED  BY <1>4, <1>5, <2>1 DEF mergeRound
<1>8. /\ InOrder(P) /\ \A j \in 1..Len(P) : ~less(P[j], a)
      /\ InOrder(Q) /\ \A j \in 1..Len(Q) : ~less(Q[j], b)
  BY <1>2, <1>4, <1>5, InOrderRest
<1>9. /\ \A i \in 1..Len(A) : A[i] \in Slices /\ (A[i] = a \/ ~less(A[i], a))
      /\ \A i \in 1..Len(B) : B[i] \in Slices /\ (B[i] = b \/ ~less(B[i], b))
      /\ 1 \in 1..Len(A) /\ A[1] = a /\ 1 \in 1..Len(B) /\ B[1] = b
  <2>1. \A s \in Slices, R \in Lists : InOrder(<<s>> \o R) =>
           /\ \A i \in 1..Len(<<s>> \o R) : (<<s>> \o R)[i] = s \/ ~less((<<s>> \o R)[i], s)
           /\ 1 \in 1..Len(<<s>> \o R) /\ (<<s>> \o R)[1] = s
    <3>. SUFFICES ASSUME NEW s \in Slices, NEW R \in Lists, InOrder(<<s>> \o R)
                  PROVE  /\ \A i \in 1..Len(<<s>> \o R) : (<<s>> \o R)[i] = s \/ ~less((<<s>> \o R)[i], s)
                         /\ 1 \in 1..Len(<<s>> \o R) /\ (<<s>> \o R)[1] = s
      OBVIOUS
    <3>. DEFINE one == <<s>>
                L == one \o R
    <3>1. one \in Lists /\ Len(one) = 1 /\ one[1] = s
      BY DEF Lists
    <3>a. InOrder(L)
      OBVIOUS
    <3>. HIDE DEF one
    <3>2. Len(L) = Len(one) + Len(R) /\ Len(R) \in Nat /\ \A k \in 1..Len(one) : L[k] = one[k]
      BY <3>1, ConcatLists
    <3>. HIDE DEF L
    <3>3. 1 \in 1..Len(L) /\ 1 \in 1..Len(one) /\ L[1] = s
      BY <3>1, <3>2
    <3>4. \A i \in 1..Len(L) : i = 1 \/ 1 < i
      OBVIOUS
    <3>5. \A i \in 1..Len(L) : L[i] = s \/ ~less(L[i], s)
      BY <3>a, <3>3, <3>4 DEF InOrder
    <3>. QED  BY <3>3, <3>5 DEF L, one
  <2>. QED  BY <1>2, <1>4, <1>5, <2>1, SliceType
<1>. HIDE DEF r, ls, rs
<1>10. CASE less(a, b)
  <2>. DEFINE w == Copied(m.mem, m.start, ls)
              l == Between(m.left, Len(ls), Len(m.left))
              D == C \o <<a>>
  <2>1. Len(ls) \in Nat /\ 0 + 1 + Len(a) = Len(ls) /\ Len(ls) <= Len(m.left) /\ Holds(m.left, Len(ls), Len(m.left), P)
    <3>1. 0 + 1 + Len(a) = Len(ls) /\ Len(ls) \in Nat
      BY <1>6
    <3>2. Holds(m.left, Len(ls), Len(m.left), P)
      BY <1>4, <3>1
    <3>. QED  BY <1>0, <3>1, <3>2, HoldsBounds
  <2>2. w \in Cells /\ Len(w) = n /\ l \in Cells /\ Len(l) = Len(m.left) - Len(ls)
    <3>1. w \in Cells /\ Len(w) = n
      BY <1>0, <1>6, CopiedCells
    <3>2. l \in Cells /\ Len(l) = Len(m.left) - Len(ls)
      <4>1. Len(m.left) <= Len(m.left)
        BY <1>0
      <4>. QED  BY <1>0, <2>1, <4>1, BetweenCells
    <3>. QED  BY <3>1, <3>2
  <2>3. m.start + Len(ls) \in Nat /\ (m.start + Len(ls)) + (Len(m.left) - Len(ls)) = m.right /\ m.start + Len(ls) > m.start
        /\ m.start + Len(ls) <= m.right /\ m.start + Len(ls) <= Len(m.mem)
    BY <1>0, <1>6, <2>1
  <2>4. r \in MergeStates(n) /\ r.mem = w /\ r.left = l /\ r.start = m.start + Len(ls) /\ r.right = m.right
    <3>1. r = [m EXCEPT !.mem = w, !.start = m.start + Len(ls), !.left = l]
      BY <1>7, <1>10
    <3>. HIDE DEF w, l
    <3>. QED  BY <1>0, <2>2, <2>3, <3>1 DEF MergeStates
  <2>5. Holds(w, 0, m.start + Len(ls), D) /\ D \in Lists
    <3>1. Holds(w, 0, m.start, C)
      <4>1. m.start <= m.start
        BY <1>0
      <4>. QED  BY <1>0, <1>2, <1>6, <4>1, HoldsBeside
    <3>2. Holds(w, m.start, m.start + Len(ls), <<a>>)
      BY <1>0, <1>6, <2>3, HoldsCopied
    <3>. HIDE DEF w
    <3>. QED  BY <1>6, <2>2, <3>1, <3>2, HoldsJoin
  <2>6. Holds(w, m.right, n, B)
    BY <1>0, <1>2, <1>6, <2>3, HoldsBeside
  <2>7. Holds(l, 0, Len(l), P)
    <3>1. Holds(l, 0, Len(m.left) - Len(ls), P)
      BY <1>0, <2>1, HoldsBetween
    <3>. QED  BY <2>2, <3>1
  <2>8. Shared(D, P, B, Z)
    BY <1>2, <1>4, SharedTake
  <2>9. Before(D, P)
    <3>1. Before(C, P)
      <4>1. \A j \in 1..Len(P) : \E i \in 1..Len(A) : P[j] = A[i]
        <5>1. /\ Len(A) = Len(<<a>>) + Len(P) /\ Len(P) \in Nat
              /\ \A k \in 1..Len(P) : A[k + Len(<<a>>)] = P[k]
          BY <1>4, <1>6, ConcatLists
        <5>2. Len(<<a>>) = 1
          OBVIOUS
        <5>3. \A k \in 1..Len(P) : k + 1 \in 1..Len(A) /\ A[k + 1] = P[k]
          BY <5>1, <5>2
        <5>. QED  BY <5>3
      <4>. QED  BY <1>2, <4>1 DEF Before
    <3>. QED  BY <1>8, <3>1, BeforeOne
  <2>10. Before(D, B)
    <3>1. \A j \in 1..Len(B) : ~less(B[j], a)
      <4>. SUFFICES ASSUME NEW j \in 1..Len(B), less(B[j], a) PROVE FALSE
        OBVIOUS
      <4>1. B[j] \in Slices /\ (B[j] = b \/ ~less(B[j], b))
        BY <1>9
      <4>2. less(B[j], b)
        BY <1>10, <4>1, OrderFacts
      <4>. QED  BY <4>1, <4>2, OrderFacts
    <3>. QED  BY <1>2, <3>1, BeforeOne
  <2>11. InOrder(D)
    <3>1. InOrder(<<a>>)
      BY DEF InOrder
    <3>2. Before(C, <<a>>)
      <4>1. Len(<<a>>) = 1 /\ <<a>>[1] = a
        OBVIOUS
      <4>. QED  BY <1>2, <1>9, <4>1 DEF Before
    <3>. QED  BY <1>2, <1>6, <3>1, <3>2, InOrderConcat
  <2>. HIDE DEF w, l, D
  <2>12. MergeOf(r, D, P, B, Z)
    BY <1>2, <1>8, <2>2, <2>4, <2>5, <2>6, <2>7, <2>8, <2>9, <2>10, <2>11 DEF MergeOf
  <2>13. r \in Merging(n, Z)
    BY <2>4, <2>5, <2>12 DEF Merging
  <2>. QED  BY <2>3, <2>4, <2>13 DEF r
<1>11. CASE ~less(a, b)
  <2>. DEFINE w == Copied(m.mem, m.start, rs)
              D == C \o <<b>>
  <2>1. Len(rs) \in Nat /\ m.right + 1 + Len(b) = m.right + Len(rs) /\ m.right + Len(rs) <= n /\ Holds(m.mem, m.right + Len(rs), n, Q)
    <3>1. m.right + 1 + Len(b) = m.right + Len(rs) /\ Len(rs) \in Nat
      BY <1>0, <1>6
    <3>2. Holds(m.mem, m.right + Len(rs), n, Q)
      BY <1>5, <3>1
    <3>. QED  BY <1>0, <3>1, <3>2, HoldsBounds
  <2>2. w \in Cells /\ Len(w) = n
    BY <1>0, <1>6, CopiedCells
  <2>3. /\ m.start + Len(rs) \in Nat /\ m.right + Len(rs) \in Nat /\ (m.start + Len(rs)) + Len(m.left) = m.right + Len(rs)
        /\ m.start + Len(rs) > m.start /\ m.start + Len(rs) <= m.right + Len(rs) /\ m.start + Len(rs) <= Len(m.mem)
    <3>1. Len(rs) \in Nat /\ Len(rs) > 0
      BY <1>6
    <3>2. m.right + Len(rs) <= n
      BY <2>1
    <3>. QED  BY <1>0, <3>1, <3>2
  <2>4. r \in MergeStates(n) /\ r.mem = w /\ r.left = m.left /\ r.start = m.start + Len(rs) /\ r.right = m.right + Len(rs)
    <3>1. r = [m EXCEPT !.mem = w, !.start = m.start + Len(rs), !.right = m.right + Len(rs)]
      BY <1>7, <1>11
    <3>. HIDE DEF w
    <3>. QED  BY <1>0, <2>1, <2>2, <2>3, <3>1 DEF MergeStates
  <2>5. Holds(w, 0, m.start + Len(rs), D) /\ D \in Lists
    <3>1. Holds(w, 0, m.start, C)
      <4>1. m.start <= m.start
        BY <1>0
      <4>. QED  BY <1>0, <1>2, <1>6, <4>1, HoldsBeside
    <3>2. Holds(w, m.start, m.start + Len(rs), <<b>>)
      BY <1>0, <1>6, <2>3, HoldsCopied
    <3>. HIDE DEF w
    <3>. QED  BY <1>6, <2>2, <3>1, <3>2, HoldsJoin
  <2>6. Holds(w, m.right + Len(rs), n, Q)
    BY <1>0, <1>6, <2>1, <2>3, HoldsBeside
  <2>7. Shared(D, A, Q, Z)
    BY <1>2, <1>5, SharedTake
  <2>8. Before(D, Q)
    <3>1. Before(C, Q)
      <4>1. \A j \in 1..Len(Q) : \E i \in 1..Len(B) : Q[j] = B[i]
        <5>1. /\ Len(B) = Len(<<b>>) + Len(Q) /\ Len(Q) \in Nat
              /\ \A k \in 1..Len(Q) : B[k + Len(<<b>>)] = Q[k]
          BY <1>5, <1>6, ConcatLists
        <5>2. Len(<<b>>) = 1
          OBVIOUS
        <5>3. \A k \in 1..Len(Q) : k + 1 \in 1..Len(B) /\ B[k + 1] = Q[k]
          BY <5>1, <5>2
        <5>. QED  BY <5>3
      <4>. QED  BY <1>2, <4>1 DEF Before
    <3>. QED  BY <1>8, <3>1, BeforeOne
  <2>9. Before(D, A)
    <3>1. \A j \in 1..Len(A) : ~less(A[j], b)
      <4>. SUFFICES ASSUME NEW j \in 1..Len(A), less(A[j], b) PROVE FALSE
        OBVIOUS
      <4>1. A[j] \in Slices /\ (A[j] = a \/ ~less(A[j], a))
        BY <1>9
      <4>2. less(A[j], a) \/ less(a, b)
        BY <4>1, OrderFacts
      <4>. QED  BY <1>11, <4>1, <4>2
    <3>. QED  BY <1>2, <3>1, BeforeOne
  <2>10. InOrder(D)
    <3>1. InOrder(<<b>>)
      BY DEF InOrder
    <3>2. Before(C, <<b>>)
      <4>1. Len(<<b>>) = 1 /\ <<b>>[1] = b
        OBVIOUS
      <4>. QED  BY <1>2, <1>9, <4>1 DEF Before
    <3>. QED  BY <1>2, <1>6, <3>1, <3>2, InOrderConcat
  <2>. HIDE DEF w, D
  <2>11. MergeOf(r, D, A, Q, Z)
    BY <1>2, <1>8, <2>2, <2>4, <2>5, <2>6, <2>7, <2>8, <2>9, <2>10 DEF MergeOf
  <2>12. r \in Merging(n, Z)
    BY <2>4, <2>5, <2>11 DEF Merging
  <2>. QED  BY <2>3, <2>4, <2>12 DEF r
<1>. QED  BY <1>10, <1>11

\* w is n cells that hold the slices of Z, sorted.
Run(w, n, Z) ==
    w \in Cells /\ Len(w) = n /\ \E R \in Lists : Holds(w, 0, n, R) /\ InOrder(R) /\ Same(R, Z)

IsMerge(f, left, right) ==
    f = [k \in 0..(Len(left) + Len(right)) |->
            IF k = 0 THEN [mem |-> left \o right, left |-> left, right |-> Len(left), start |-> 0]
            ELSE mergeRound(f[k - 1])]

\* Before the first round
LEMMA MergeStart ==
    ASSUME NEW left \in Cells, NEW right \in Cells, NEW A \in Lists, NEW B \in Lists,
           Holds(left, 0, Len(left), A), Holds(right, 0, Len(right), B), InOrder(A), InOrder(B)
    PROVE  [mem |-> left \o right, left |-> left, right |-> Len(left), start |-> 0]
              \in Merging(Len(left) + Len(right), A \o B)
<1>. DEFINE w == left \o right
            n == Len(left) + Len(right)
            m == [mem |-> w, left |-> left, right |-> Len(left), start |-> 0]
            E == <<>>
            Z == A \o B
<1>0. w \in Cells /\ Len(w) = n /\ Len(left) \in Nat /\ Len(right) \in Nat
  BY ConcatCells
<1>1. Holds(w, Len(left), n, B)
  <2>1. Holds(w, Len(left) + 0, n, B)
    BY HoldsConcat
  <2>2. Len(left) + 0 = Len(left)
    BY <1>0
  <2>. QED  BY <2>1, <2>2
<1>. HIDE DEF w
<1>2. Holds(w, 0, 0, E) /\ E \in Lists
  <2>1. 0 \in Nat /\ 0 <= Len(w)
    BY <1>0
  <2>. QED  BY <1>0, <2>1, HoldsEmpty
<1>3. Len(E) = 0 /\ \A x : Times(x, E) = 0
  <2>1. Len(E) = 0
    OBVIOUS
  <2>2. \A x : {i \in 1..Len(E) : E[i] = x} = {}
    BY <2>1
  <2>. QED  BY <2>1, <2>2, FS_EmptySet DEF Times
<1>. HIDE DEF E
<1>4. Shared(E, A, B, Z)
  <2>1. Len(Z) = Len(A) + Len(B) /\ Len(A) \in Nat /\ Len(B) \in Nat
    BY ConcatLists
  <2>2. \A x : Times(x, Z) = Times(x, A) + Times(x, B)
    BY TimesConcat
  <2>3. \A x : Times(x, A) \in Nat /\ Times(x, B) \in Nat
    BY PlacesFinite
  <2>. HIDE DEF Z
  <2>. QED  BY <1>3, <2>1, <2>2, <2>3 DEF Shared
<1>5. InOrder(E) /\ Before(E, A) /\ Before(E, B)
  BY <1>3 DEF InOrder, Before
<1>6. m \in MergeStates(n) /\ m.mem = w /\ m.left = left /\ m.right = Len(left) /\ m.start = 0
  BY <1>0 DEF MergeStates
<1>. HIDE DEF m, Z
<1>7. MergeOf(m, E, A, B, Z)
  BY <1>0, <1>1, <1>2, <1>4, <1>5, <1>6 DEF MergeOf
<1>8. m \in Merging(n, Z)
  BY <1>2, <1>6, <1>7 DEF Merging
<1>. QED  BY <1>8 DEF m, w, Z

\* Every round keeps it; after k rounds nothing is left of tmp, or k cells are done.
LEMMA RoundKeeps ==
    ASSUME NEW n \in Nat, NEW Z, NEW m \in Merging(n, Z), NEW k \in Nat, m.left = <<>> \/ m.start >= k
    PROVE  /\ mergeRound(m) \in Merging(n, Z)
           /\ mergeRound(m).left = <<>> \/ mergeRound(m).start >= k + 1
<1>1. CASE m.left = <<>> \/ m.right = Len(m.mem)
  BY <1>1, RoundLast
<1>2. CASE ~(m.left = <<>> \/ m.right = Len(m.mem))
  <2>1. mergeRound(m) \in Merging(n, Z) /\ mergeRound(m).start > m.start
    BY <1>2, RoundTakes
  <2>2. m.start \in Nat /\ mergeRound(m).start \in Nat
    BY <2>1 DEF Merging, MergeStates
  <2>. QED  BY <1>2, <2>1, <2>2
<1>. QED  BY <1>1, <1>2

\* Two runs become one.
LEMMA MergeIs ==
    ASSUME NEW left \in Cells, NEW right \in Cells, NEW A \in Lists, NEW B \in Lists,
           Holds(left, 0, Len(left), A), Holds(right, 0, Len(right), B), InOrder(A), InOrder(B)
    PROVE  Run(merge(left, right), Len(left) + Len(right), A \o B)
<1>. DEFINE n == Len(left) + Len(right)
            Z == A \o B
            V == Merging(n, Z)
            m0 == [mem |-> left \o right, left |-> left, right |-> Len(left), start |-> 0]
            g == [k \in 0..n |-> [v \in V |-> mergeRound(v)]]
            f == CHOOSE h : IsMerge(h, left, right)
<1>0. n \in Nat
  BY CellsLen
<1>1. m0 \in V
  BY MergeStart
<1>. HIDE DEF n, Z, m0
<1>2. \A v \in V : mergeRound(v) \in V
  <2>. SUFFICES ASSUME NEW v \in V PROVE mergeRound(v) \in V
    OBVIOUS
  <2>1. v.start >= 0
    BY DEF Merging, MergeStates
  <2>. QED  BY <1>0, <2>1, RoundKeeps
<1>3. \E h \in [0..n -> V] : \A k \in 0..n : h[k] = IF k = 0 THEN m0 ELSE mergeRound(h[k - 1])
  <2>1. g \in [0..n -> [V -> V]]
    <3>. HIDE DEF V
    <3>. QED  BY <1>2
  <2>2. 0 \in Nat
    OBVIOUS
  <2>. HIDE DEF g, V
  <2>3. PICK h \in [0..n -> V] : \A k \in 0..n : h[k] = IF k = 0 THEN m0 ELSE g[k][h[k - 1]]
    <3>1. Repeats(0, n, V, m0, g)
      BY <1>0, <1>1, <2>1, <2>2 DEF Repeats
    <3>. QED  BY <3>1, RepeatExists
  <2>4. \A k \in 0..n : k # 0 => h[k - 1] \in V
    <3>1. \A k \in 0..n : k # 0 => k - 1 \in 0..n
      BY <1>0
    <3>. QED  BY <3>1
  <2>5. \A k \in 0..n : k # 0 => g[k][h[k - 1]] = mergeRound(h[k - 1])
    BY <2>4 DEF g
  <2>. QED  BY <2>3, <2>5
<1>4. IsMerge(f, left, right)
  <2>1. PICK h \in [0..n -> V] : \A k \in 0..n : h[k] = IF k = 0 THEN m0 ELSE mergeRound(h[k - 1])
    BY <1>3
  <2>2. h = [k \in 0..n |-> IF k = 0 THEN m0 ELSE mergeRound(h[k - 1])]
    <3>. HIDE DEF V
    <3>. QED  BY <2>1
  <2>3. IsMerge(h, left, right)
    BY <2>2 DEF IsMerge, n, m0
  <2>. QED  BY <2>3
<1>5. merge(left, right) = f[n].mem
  BY DEF merge, IsMerge, n
<1>. HIDE DEF f
<1>6. \A k \in 0..n : f[k] = IF k = 0 THEN m0 ELSE mergeRound(f[k - 1])
  BY <1>4 DEF IsMerge, n, m0
<1>. DEFINE S == {k \in 0..n : f[k] \in V /\ (f[k].left = <<>> \/ f[k].start >= k)}
<1>7. 0 \in S
  <2>1. 0 \in 0..n /\ m0.start = 0 /\ 0 >= 0
    BY <1>0 DEF m0
  <2>. HIDE DEF V
  <2>. QED  BY <1>1, <1>6, <2>1
<1>8. ASSUME NEW k \in 1..n, k - 1 \in S PROVE k \in S
  <2>1. f[k - 1] \in V /\ (f[k - 1].left = <<>> \/ f[k - 1].start >= k - 1) /\ k - 1 \in Nat
    <3>. HIDE DEF V
    <3>. QED  BY <1>0, <1>8
  <2>2. mergeRound(f[k - 1]) \in V /\ (mergeRound(f[k - 1]).left = <<>> \/ mergeRound(f[k - 1]).start >= (k - 1) + 1)
    BY <1>0, <2>1, RoundKeeps
  <2>3. k \in 0..n /\ k # 0 /\ (k - 1) + 1 = k
    BY <1>0
  <2>4. f[k] = mergeRound(f[k - 1])
    BY <1>6, <2>3
  <2>. HIDE DEF V
  <2>. QED  BY <2>2, <2>3, <2>4
<1>9. f[n] \in V /\ (f[n].left = <<>> \/ f[n].start >= n)
  <2>1. \A k \in 0..n : k \in S
    <3>. HIDE DEF S
    <3>. QED  BY <1>0, <1>7, <1>8, UpTo
  <2>2. n \in 0..n
    BY <1>0
  <2>. HIDE DEF V
  <2>. QED  BY <2>1, <2>2
<1>. DEFINE m == f[n]
<1>10. /\ m \in MergeStates(n) /\ m.mem \in Cells /\ m.left \in Cells /\ m.right \in Nat /\ m.start \in Nat
       /\ Len(m.mem) = n /\ m.start + Len(m.left) = m.right /\ m.right <= n /\ Len(m.left) \in Nat
  BY <1>9, CellsLen DEF Merging, MergeStates
<1>11. PICK C, P, Q \in Lists : MergeOf(m, C, P, Q, Z)
  BY <1>9 DEF Merging
<1>. HIDE DEF m
<1>12. Len(m.left) = 0 /\ m.start = m.right
  <2>1. m.left = <<>> => Len(m.left) = 0
    OBVIOUS
  <2>. QED  BY <1>0, <1>9, <1>10, <2>1 DEF m
<1>13. /\ Holds(m.mem, 0, m.right, C) /\ Holds(m.left, 0, 0, P) /\ Holds(m.mem, m.right, n, Q)
       /\ Shared(C, P, Q, Z) /\ InOrder(C) /\ InOrder(Q) /\ Before(C, Q)
  BY <1>10, <1>11, <1>12 DEF MergeOf
<1>14. P = <<>>
  BY <1>10, <1>13, HoldsBounds
<1>15. Holds(m.mem, 0, n, C \o Q) /\ C \o Q \in Lists /\ InOrder(C \o Q)
  BY <1>10, <1>13, HoldsJoin, InOrderConcat
<1>16. Same(C \o Q, Z)
  <2>1. Len(P) = 0 /\ \A x : Times(x, P) = 0
    <3>1. Len(P) = 0
      BY <1>14
    <3>2. \A x : {i \in 1..Len(P) : P[i] = x} = {}
      BY <3>1
    <3>. QED  BY <3>1, <3>2, FS_EmptySet DEF Times
  <2>2. Len(C \o Q) = Len(C) + Len(Q) /\ Len(C) \in Nat /\ Len(Q) \in Nat
    BY ConcatLists
  <2>3. \A x : Times(x, C \o Q) = Times(x, C) + Times(x, Q)
    BY TimesConcat
  <2>4. \A x : Times(x, C) \in Nat /\ Times(x, Q) \in Nat
    BY PlacesFinite
  <2>5. Len(C) + Len(P) + Len(Q) = Len(Z) /\ \A x : Times(x, C) + Times(x, P) + Times(x, Q) = Times(x, Z)
    BY <1>13 DEF Shared
  <2>6. Len(C \o Q) = Len(Z)
    BY <2>1, <2>2, <2>5
  <2>7. ASSUME NEW x PROVE Times(x, C \o Q) = Times(x, Z)
    <3>1. /\ Times(x, P) = 0 /\ Times(x, C) \in Nat /\ Times(x, Q) \in Nat
          /\ Times(x, C) + Times(x, P) + Times(x, Q) = Times(x, Z) /\ Times(x, C \o Q) = Times(x, C) + Times(x, Q)
      BY <2>1, <2>3, <2>4, <2>5
    <3>. QED  BY <3>1
  <2>. QED  BY <2>6, <2>7 DEF Same
<1>. DEFINE R == C \o Q
<1>17. R \in Lists /\ Holds(m.mem, 0, n, R) /\ InOrder(R) /\ Same(R, Z)
  BY <1>15, <1>16
<1>. HIDE DEF R
<1>18. Run(m.mem, n, Z)
  BY <1>10, <1>17 DEF Run
<1>. QED  BY <1>5, <1>18 DEF m, n, Z

-----------------------------------------------------------------------------
(* Sorting a chunk *)

\* Adjoining parts of a list
LEMMA PartJoin ==
    ASSUME NEW L \in Lists, NEW i \in Nat, NEW j \in Nat, NEW k \in Nat,
           1 <= i, i <= j, j <= k, k <= Len(L) + 1
    PROVE  Part(L, i, j) \o Part(L, j, k) = Part(L, i, k)
<1>1. Len(L) \in Nat
  BY ListsLen
<1>2. /\ i \in 1..(Len(L) + 1) /\ j - 1 \in (i - 1)..Len(L) /\ k - 1 \in (j - 1)..Len(L)
      /\ (j - 1) + 1 = j
  BY <1>1
<1>3. SubSeq(L, i, j - 1) \o SubSeq(L, (j - 1) + 1, k - 1) = SubSeq(L, i, k - 1)
  BY <1>2, ConcatAdjacentSubSeq DEF Lists
<1>. QED  BY <1>2, <1>3 DEF Part

\* A part of a list with one slice more
LEMMA PartNext ==
    ASSUME NEW L \in Lists, NEW k \in 1..Len(L)
    PROVE  Part(L, 1, k + 1) = Part(L, 1, k) \o <<L[k]>>
<1>1. /\ Len(L) \in Nat /\ k \in Nat /\ k + 1 \in Nat /\ 1 \in Nat /\ 1 <= 1 /\ 1 <= k /\ k <= k + 1
      /\ k + 1 <= Len(L) + 1 /\ k + 1 \in (k + 1)..(Len(L) + 1) /\ k + 1 \in 1..(Len(L) + 1)
  BY ListsLen
<1>2. Part(L, k, k + 1) = <<L[k]>> \o Part(L, k + 1, k + 1)
  BY <1>1, PartStep
<1>3. Part(L, k + 1, k + 1) = <<>>
  BY <1>1, PartEnds
<1>4. <<L[k]>> \in Seq(Slices)
  BY SliceType
<1>5. <<L[k]>> \o <<>> = <<L[k]>>
  BY <1>4, ConcatEmptySeq
<1>6. Part(L, 1, k) \o Part(L, k, k + 1) = Part(L, 1, k + 1)
  BY <1>1, PartJoin
<1>. QED  BY <1>2, <1>3, <1>5, <1>6

\* A map of 1..n onto itself is a permutation.
LEMMA OntoIsBijection ==
    ASSUME NEW n \in Nat, NEW p \in [1..n -> 1..n], \A y \in 1..n : \E x \in 1..n : p[x] = y
    PROVE  p \in Bijection(1..n, 1..n)
<1>1. p \in Surjection(1..n, 1..n)
  BY DEF Surjection
<1>2. IsFiniteSet(1..n)
  BY FS_Interval
<1>3. p \in Injection(1..n, 1..n)
  BY <1>1, <1>2, FS_SurjSameCardinalityImpliesInj
<1>. QED  BY <1>1, <1>3 DEF Bijection

\* small leads to the slices of P, which are those of M in another order.
Reordered(small, o, M, p, P) ==
    /\ p \in Bijection(1..Len(M), 1..Len(M)) /\ P \in Lists /\ Len(P) = Len(M)
    /\ small \in [1..Len(M) -> Nat] /\ Len(small) = Len(M)
    /\ \A k \in 1..Len(M) : p[k] \in 1..Len(M) /\ P[k] = M[p[k]] /\ small[k] = o[p[k]]

\* The sorted offsets of a chunk are a sorted rearrangement of its slices.
LEMMA SortedIs ==
    ASSUME NEW b, NEW o, NEW M, Located(b, o, M),
           NEW small \in Sorted(b, OffsetsFrom(b, o[1], o[Len(M) + 1]))
    PROVE  \E p, P : Reordered(small, o, M, p, P) /\ InOrder(P)
<1>. DEFINE n == Len(M)
            offs == OffsetsFrom(b, o[1], o[Len(M) + 1])
            I == 1..n
<1>0. /\ M \in Lists /\ n \in Nat /\ n + 1 \in Nat /\ (\A i \in 1..(n + 1) : o[i] \in Nat)
      /\ \A i, j \in 1..(n + 1) : i < j => o[i] < o[j]
  BY LocatedFacts
<1>1. offs = [k \in I |-> o[k]]
  <2>1. 1 \in 1..(n + 1) /\ n + 1 \in 1..(n + 1) /\ 1 <= n + 1 /\ (n + 1) - 1 = n
    BY <1>0
  <2>2. offs = [k \in 1..((n + 1) - 1) |-> o[k + (1 - 1)]]
    BY <2>1, OffsetsAre
  <2>3. \A k \in 1..n : k + (1 - 1) = k
    BY <1>0
  <2>. QED  BY <2>1, <2>2, <2>3
<1>. DEFINE O == {o[k] : k \in I}
<1>2. DOMAIN offs = I /\ Range(offs) = O
  BY <1>1 DEF Range
<1>3. /\ small \in [I -> O] /\ Range(small) = O
      /\ \A i, j \in I : i < j => ~less(Slice(b, small[j]).slice, Slice(b, small[i]).slice)
  <2>. HIDE DEF offs, O, I
  <2>1. /\ small \in [DOMAIN offs -> Range(offs)] /\ Range(small) = Range(offs)
        /\ \A i, j \in DOMAIN small : i < j => ~less(Slice(b, small[j]).slice, Slice(b, small[i]).slice)
    BY DEF Sorted, offs
  <2>. QED  BY <1>2, <2>1
<1>. HIDE DEF offs
<1>. DEFINE p == [k \in I |-> CHOOSE i \in I : o[i] = small[k]]
            P == [k \in I |-> M[p[k]]]
<1>4. \A k \in I : p[k] \in I /\ o[p[k]] = small[k]
  <2>. SUFFICES ASSUME NEW k \in I PROVE p[k] \in I /\ o[p[k]] = small[k]
    OBVIOUS
  <2>1. small[k] \in O
    BY <1>3
  <2>2. \E i \in I : o[i] = small[k]
    BY <2>1
  <2>. QED  BY <2>2
<1>5. p \in [I -> I]
  <2>. HIDE DEF I
  <2>1. p = [k \in I |-> p[k]]
    OBVIOUS
  <2>. HIDE DEF p
  <2>. QED  BY <1>4, <2>1
<1>6. \A i, j \in I : o[i] = o[j] => i = j
  <2>1. \A i \in I : i \in 1..(n + 1) /\ i \in Nat
    BY <1>0
  <2>2. ASSUME NEW i \in I, NEW j \in I, o[i] = o[j] PROVE i = j
    <3>1. o[i] \in Nat /\ o[j] \in Nat /\ i \in Nat /\ j \in Nat
      BY <1>0, <2>1
    <3>2. CASE i < j
      BY <1>0, <2>1, <2>2, <3>1, <3>2
    <3>3. CASE j < i
      BY <1>0, <2>1, <2>2, <3>1, <3>3
    <3>. QED  BY <3>1, <3>2, <3>3
  <2>. QED  BY <2>2
<1>. HIDE DEF p
<1>7. \A y \in I : \E x \in I : p[x] = y
  <2>. SUFFICES ASSUME NEW y \in I PROVE \E x \in I : p[x] = y
    OBVIOUS
  <2>1. o[y] \in O
    OBVIOUS
  <2>2. PICK x \in I : small[x] = o[y]
    <3>. HIDE DEF O, I
    <3>. QED  BY <1>3, <2>1 DEF Range
  <2>. QED  BY <1>4, <1>6, <2>2
<1>8. p \in Bijection(I, I)
  BY <1>0, <1>5, <1>7, OntoIsBijection
<1>9. P \in Lists /\ Len(P) = n /\ \A k \in I : P[k] = M[p[k]]
  <2>1. \A k \in I : M[p[k]] \in Slices
    BY <1>0, <1>4, SliceType
  <2>2. P \in [1..n -> Slices]
    BY <2>1
  <2>3. P \in Seq(Slices)
    BY <1>0, <2>2, SeqDef
  <2>4. DOMAIN P = 1..n
    OBVIOUS
  <2>5. \A k \in I : P[k] = M[p[k]]
    OBVIOUS
  <2>. HIDE DEF P
  <2>. QED  BY <1>0, <2>3, <2>4, <2>5 DEF Lists
<1>. HIDE DEF P
<1>10. small \in [I -> Nat] /\ Len(small) = n
  <2>1. \A i \in I : i \in 1..(n + 1)
    BY <1>0
  <2>2. \A k \in I : small[k] \in Nat
    BY <1>0, <1>4, <2>1
  <2>3. small = [k \in I |-> small[k]]
    BY <1>3
  <2>4. small \in [1..n -> Nat]
    BY <2>2, <2>3
  <2>5. small \in Seq(Nat) /\ DOMAIN small = 1..n
    BY <1>0, <2>4, SeqDef
  <2>. QED  BY <1>0, <2>4, <2>5
<1>11. Reordered(small, o, M, p, P)
  BY <1>4, <1>8, <1>9, <1>10 DEF Reordered
<1>12. InOrder(P)
  <2>1. \A k \in I : Slice(b, small[k]).slice = P[k]
    <3>. SUFFICES ASSUME NEW k \in I PROVE Slice(b, small[k]).slice = P[k]
      OBVIOUS
    <3>1. p[k] \in 1..Len(M) /\ o[p[k]] = small[k] /\ P[k] = M[p[k]]
      BY <1>4, <1>9
    <3>2. Slice(b, o[p[k]]).slice = M[p[k]]
      BY <3>1, SliceAt
    <3>. QED  BY <3>1, <3>2
  <2>. QED  BY <1>3, <1>9, <2>1 DEF InOrder
<1>. QED  BY <1>11, <1>12

IsRewrite(f, b, small) ==
    f = [k \in 0..Len(small) |->
            IF k = 0 THEN NewBuffer(0) ELSE Write(f[k - 1], rawSlice(b.buf, small[k]))]

\* The recursion that writes a chunk anew defines a function.
LEMMA RewriteExists ==
    ASSUME NEW b, NEW small, Len(small) \in Nat,
           \A k \in 1..Len(small) : rawSlice(b.buf, small[k]) \in Cells
    PROVE  \E f : IsRewrite(f, b, small)
<1>. DEFINE n == Len(small)
            V == {c \in Buffers : Sound(c)}
            raw(k) == rawSlice(b.buf, small[k])
            next(k, v) == Write(v, raw(k))
            g == [k \in 0..n |-> [v \in V |-> IF k = 0 THEN v ELSE next(k, v)]]
            a == NewBuffer(0)
<1>1. a \in V
  <2>1. Sound(a)
    BY FreshSound DEF NewBuffer
  <2>. HIDE DEF a
  <2>. QED  BY <2>1 DEF Sound
<1>2. ASSUME NEW k \in 1..n, NEW v \in V PROVE next(k, v) \in V
  <2>1. raw(k) \in Cells /\ Sound(v)
    OBVIOUS
  <2>. HIDE DEF raw
  <2>2. Extended(v, raw(k), next(k, v))
    BY <2>1, WriteIs
  <2>3. Sound(next(k, v))
    BY <2>2 DEF Extended
  <2>. HIDE DEF next
  <2>. QED  BY <2>3 DEF Sound
<1>. HIDE DEF V, next, a
<1>3. g \in [0..n -> [V -> V]]
  <2>1. \A k \in 0..n : k = 0 \/ k \in 1..n
    OBVIOUS
  <2>. QED  BY <1>2, <2>1
<1>4. PICK f \in [0..n -> V] : \A k \in 0..n : f[k] = IF k = 0 THEN a ELSE g[k][f[k - 1]]
  <2>1. Repeats(0, n, V, a, g)
    BY <1>1, <1>3 DEF Repeats
  <2>. HIDE DEF g
  <2>. QED  BY <2>1, RepeatExists
<1>5. \A k \in 0..n : k # 0 => g[k][f[k - 1]] = next(k, f[k - 1])
  <2>1. \A k \in 0..n : k # 0 => k - 1 \in 0..n
    OBVIOUS
  <2>2. \A k \in 0..n : k # 0 => f[k - 1] \in V
    BY <2>1
  <2>. QED  BY <2>2
<1>. HIDE DEF g
<1>6. f = [k \in 0..n |-> IF k = 0 THEN a ELSE next(k, f[k - 1])]
  BY <1>4, <1>5
<1>7. IsRewrite(f, b, small)
  BY <1>6 DEF IsRewrite, a, next, raw, n
<1>. QED  BY <1>7

\* The slices at the offsets small are put one behind the other, in the space they had.
LEMMA RewrittenIs ==
    ASSUME NEW b, NEW o, NEW M, Located(b, o, M), NEW small, NEW p, NEW P,
           Reordered(small, o, M, p, P)
    PROVE  LET w == Rewritten(b, small)
           IN  w \in Cells /\ Len(w) = o[Len(M) + 1] - o[1] /\ Holds(w, 0, Len(w), P)
<1>. DEFINE n == Len(M)
            f == CHOOSE h : IsRewrite(h, b, small)
<1>0. /\ M \in Lists /\ n \in Nat /\ b.buf \in Cells /\ At(b.buf, o, M)
      /\ P \in Lists /\ Len(P) = n /\ Len(small) = n
      /\ \A k \in 1..n : p[k] \in 1..n /\ P[k] = M[p[k]] /\ small[k] = o[p[k]]
      /\ o[1] \in Nat /\ o[n + 1] \in Nat
  <2>1. 1 \in 1..(Len(M) + 1) /\ Len(M) + 1 \in 1..(Len(M) + 1)
    BY LocatedFacts
  <2>. QED  BY <2>1, LocatedFacts DEF Reordered
<1>1. ASSUME NEW k \in 1..n
      PROVE  rawSlice(b.buf, small[k]) = <<Len(P[k])>> \o P[k] /\ P[k] \in Slices
  <2>1. p[k] \in 1..Len(M) /\ P[k] = M[p[k]] /\ small[k] = o[p[k]]
    BY <1>0
  <2>2. SliceIn(b.buf, o, M, p[k])
    BY <1>0, <2>1, AtSlice
  <2>. QED  BY <1>0, <2>1, <2>2, SliceType DEF SliceIn
<1>2. IsRewrite(f, b, small) /\ Rewritten(b, small) = Bytes(f[n])
  <2>1. \A k \in 1..Len(small) : rawSlice(b.buf, small[k]) \in Cells
    <3>. SUFFICES ASSUME NEW k \in 1..n  PROVE rawSlice(b.buf, small[k]) \in Cells
      BY <1>0
    <3>1. rawSlice(b.buf, small[k]) = <<Len(P[k])>> \o P[k] /\ P[k] \in Slices
      BY <1>1
    <3>2. <<Len(P[k])>> \o P[k] \in Cells
      BY <3>1, HoldsOne
    <3>. QED  BY <3>1, <3>2
  <2>2. \E h : IsRewrite(h, b, small)
    BY <1>0, <2>1, RewriteExists
  <2>. QED  BY <1>0, <2>2 DEF Rewritten, IsRewrite
<1>. HIDE DEF f
<1>3. \A k \in 0..n : f[k] = IF k = 0 THEN NewBuffer(0) ELSE Write(f[k - 1], rawSlice(b.buf, small[k]))
  BY <1>0, <1>2 DEF IsRewrite
<1>. DEFINE S == {k \in 0..n : Sound(f[k]) /\ Holds(f[k].buf, padding, f[k].offset, Part(P, 1, k + 1))}
<1>4. 0 \in S
  <2>1. 0 \in 0..n /\ f[0] = NewBuffer(0) /\ 0 + 1 = 1 /\ 1 \in 1..(Len(P) + 1)
    BY <1>0, <1>3
  <2>2. Sound(f[0]) /\ f[0].offset = padding
    BY <2>1, FreshSound DEF NewBuffer
  <2>3. f[0].buf \in Cells /\ padding \in Nat /\ padding <= Len(f[0].buf)
    BY <2>2 DEF Sound, Buffers, padding
  <2>4. Part(P, 1, 0 + 1) = <<>>
    BY <1>0, <2>1, PartEnds
  <2>5. Holds(f[0].buf, padding, f[0].offset, Part(P, 1, 0 + 1))
    BY <2>2, <2>3, <2>4, HoldsEmpty
  <2>. QED  BY <2>1, <2>2, <2>5
<1>5. ASSUME NEW k \in 1..n, k - 1 \in S PROVE k \in S
  <2>. DEFINE c == f[k - 1]
              q == <<Len(P[k])>> \o P[k]
              A == Part(P, 1, k)
  <2>1. k \in 0..n /\ k # 0 /\ (k - 1) + 1 = k /\ k \in Nat /\ 1 <= k /\ k <= Len(P) + 1 /\ k \in 1..Len(P)
    BY <1>0
  <2>2. Sound(c) /\ Holds(c.buf, padding, c.offset, A)
    BY <1>5, <2>1
  <2>3. f[k] = Write(c, q)
    BY <1>1, <1>3, <2>1
  <2>4. q \in Cells /\ Len(q) = 1 + Len(P[k]) /\ Holds(q, 0, 1 + Len(P[k]), <<P[k]>>) /\ <<P[k]>> \in Lists
    BY <1>1, HoldsOne
  <2>5. A \in Lists
    <3>1. 1 \in Nat /\ 1 <= 1
      OBVIOUS
    <3>. QED  BY <1>0, <2>1, <3>1, PartList
  <2>6. Part(P, 1, k + 1) = A \o <<P[k]>>
    BY <1>0, <2>1, PartNext
  <2>. HIDE DEF c, q, A
  <2>7. Extended(c, q, f[k])
    BY <2>2, <2>3, <2>4, WriteIs
  <2>8. Holds(q, 0, Len(q), <<P[k]>>)
    BY <2>4
  <2>. DEFINE B == <<P[k]>>
  <2>9. B \in Lists /\ Holds(q, 0, Len(q), B)
    BY <2>4, <2>8
  <2>. HIDE DEF B
  <2>10. Holds(f[k].buf, padding, f[k].offset, A \o B)
    BY <2>2, <2>4, <2>5, <2>7, <2>9, ExtendedHolds
  <2>11. Sound(f[k])
    BY <2>7 DEF Extended
  <2>. QED  BY <2>1, <2>6, <2>10, <2>11 DEF B
<1>6. Sound(f[n]) /\ Holds(f[n].buf, padding, f[n].offset, P)
  <2>1. \A k \in 0..n : k \in S
    <3>. HIDE DEF S
    <3>. QED  BY <1>0, <1>4, <1>5, UpTo
  <2>2. n \in 0..n
    BY <1>0
  <2>3. Part(P, 1, n + 1) = P
    BY <1>0, PartEnds
  <2>. QED  BY <2>1, <2>2, <2>3
<1>. DEFINE c == f[n]
            w == Between(c.buf, padding, c.offset)
<1>. HIDE DEF c
<1>7. Sound(c) /\ Holds(c.buf, padding, c.offset, P) /\ Rewritten(b, small) = w
  BY <1>2, <1>6 DEF Bytes, c
<1>8. c.buf \in Cells /\ c.offset \in Nat /\ c.offset <= Len(c.buf) /\ Len(c.buf) \in Nat
  BY <1>7, CellsLen DEF Sound, Buffers
<1>9. padding \in Nat /\ padding <= c.offset
  BY <1>0, <1>7, <1>8, HoldsBounds
<1>10. w \in Cells /\ Len(w) = c.offset - padding /\ Holds(w, 0, c.offset - padding, P)
  BY <1>0, <1>7, <1>8, <1>9, BetweenCells, HoldsBetween
<1>11. Holds(b.buf, o[1], o[n + 1], M)
  BY <1>0 DEF Holds
<1>12. c.offset - padding = o[n + 1] - o[1]
  <2>1. p \in Bijection(1..Len(M), 1..Len(M)) /\ \A i \in 1..Len(M) : P[i] = M[p[i]]
    BY DEF Reordered
  <2>. QED  BY <1>0, <1>7, <1>8, <1>11, <2>1, SizeRearranged
<1>. HIDE DEF w
<1>. QED  BY <1>7, <1>10, <1>12

\* The cells from lo to hi hold the slices of Z, sorted.
Ordered(w, lo, hi, Z) == \E R \in Lists : Holds(w, lo, hi, R) /\ InOrder(R) /\ Same(R, Z)

\* w is m but for the cells between lo and hi.
Changed(m, w, lo, hi) ==
    /\ w \in Cells /\ Len(w) = Len(m)
    /\ \A k \in 1..Len(m) : k <= lo \/ hi < k => w[k] = m[k]

\* A range beside a change holds what it held.
LEMMA HoldsAside ==
    ASSUME NEW m \in Cells, NEW w, NEW a, NEW z, Changed(m, w, a, z),
           NEW lo, NEW hi, NEW L \in Lists, Holds(m, lo, hi, L), a \in Nat, z \in Nat, hi <= a \/ z <= lo
    PROVE  Holds(w, lo, hi, L)
<1>1. Len(m) \in Nat /\ Len(w) = Len(m)
  BY CellsLen DEF Changed
<1>2. lo \in Nat /\ hi \in Nat /\ hi <= Len(m) /\ 0 \in Int /\ lo + 0 = lo /\ hi + 0 = hi
  BY <1>1, HoldsBounds
<1>3. ASSUME NEW k \in Nat, lo < k /\ k <= hi PROVE w[k + 0] = m[k]
  <2>1. k \in 1..Len(m) /\ k + 0 = k /\ (k <= a \/ z < k)
    BY <1>1, <1>2, <1>3
  <2>. QED  BY <2>1 DEF Changed
<1>4. Moves(m, lo, hi, w, 0)
  BY <1>3 DEF Moves
<1>5. Holds(w, lo + 0, hi + 0, L)
  BY <1>1, <1>2, <1>4, HoldsShift
<1>. QED  BY <1>2, <1>5

\* A range beside a change is as sorted as it was.
LEMMA OrderedAside ==
    ASSUME NEW m \in Cells, NEW w, NEW a \in Nat, NEW z \in Nat, Changed(m, w, a, z),
           NEW lo, NEW hi, NEW Z, Ordered(m, lo, hi, Z), hi <= a \/ z <= lo
    PROVE  Ordered(w, lo, hi, Z)
<1>1. PICK R \in Lists : Holds(m, lo, hi, R) /\ InOrder(R) /\ Same(R, Z)
  BY DEF Ordered
<1>2. Holds(w, lo, hi, R)
  BY <1>1, HoldsAside
<1>. QED  BY <1>1, <1>2 DEF Ordered

\* Changes within a range are a change of that range.
LEMMA ChangedWider ==
    ASSUME NEW m \in Cells, NEW u, NEW w, NEW a \in Nat, NEW z \in Nat, NEW lo \in Nat, NEW hi \in Nat,
           Changed(m, u, lo, hi), Changed(u, w, a, z), lo <= a, z <= hi
    PROVE  Changed(m, w, lo, hi)
<1>1. Len(m) \in Nat
  BY CellsLen
<1>. QED  BY <1>1 DEF Changed

\* A chunk is sorted and the rest of the buffer left as it is.
LEMMA SmallIs ==
    ASSUME NEW b, NEW o, NEW M, Located(b, o, M), NEW c \in sortSmall(b, o[1], o[Len(M) + 1])
    PROVE  \E w : /\ c = [b EXCEPT !.buf = w] /\ Changed(b.buf, w, o[1], o[Len(M) + 1])
                  /\ Ordered(w, o[1], o[Len(M) + 1], M)
<1>. DEFINE n == Len(M)
            lo == o[1]
            hi == o[Len(M) + 1]
<1>0. /\ M \in Lists /\ n \in Nat /\ b.buf \in Cells /\ Len(b.buf) \in Nat
      /\ lo \in Nat /\ hi \in Nat /\ lo <= hi /\ hi <= Len(b.buf)
  <2>1. /\ 1 \in 1..(Len(M) + 1) /\ Len(M) + 1 \in 1..(Len(M) + 1) /\ Len(M) \in Nat /\ M \in Lists
        /\ b.buf \in Cells /\ At(b.buf, o, M)
    BY LocatedFacts
  <2>2. Len(b.buf) \in Nat
    BY <2>1, CellsLen
  <2>. QED  BY <2>1, <2>2, AtBounds
<1>1. PICK small \in Sorted(b, OffsetsFrom(b, lo, hi)) :
          c = [b EXCEPT !.buf = Copied(@, lo, Rewritten(b, small))]
  BY DEF sortSmall
<1>2. PICK p, P : Reordered(small, o, M, p, P) /\ InOrder(P)
  BY SortedIs
<1>. DEFINE q == Rewritten(b, small)
            w == Copied(b.buf, lo, q)
<1>3. q \in Cells /\ Len(q) = hi - lo /\ Holds(q, 0, Len(q), P)
  BY <1>2, RewrittenIs
<1>4. c = [b EXCEPT !.buf = w]
  BY <1>1
<1>. HIDE DEF q
<1>5. /\ w \in Cells /\ Len(w) = Len(b.buf) /\ lo + Len(q) = hi
      /\ \A k \in 1..Len(b.buf) : k <= lo \/ hi < k => w[k] = b.buf[k]
  <2>1. lo + Len(q) = hi
    BY <1>0, <1>3
  <2>2. /\ w \in Cells /\ Len(w) = Len(b.buf)
        /\ \A k \in 1..Len(b.buf) : k <= lo \/ lo + Len(q) < k => w[k] = b.buf[k]
    BY <1>0, <1>3, CopiedCells
  <2>. QED  BY <2>1, <2>2
<1>6. P \in Lists /\ Len(P) = n /\ p \in Bijection(1..n, 1..n) /\ \A i \in 1..n : P[i] = M[p[i]]
  BY <1>2 DEF Reordered
<1>7. Holds(w, lo, hi, P)
  <2>1. lo + Len(q) <= Len(b.buf)
    BY <1>0, <1>5
  <2>2. Holds(w, lo, lo + Len(q), P)
    BY <1>0, <1>3, <1>6, <2>1, HoldsCopied
  <2>. QED  BY <1>5, <2>2
<1>8. Same(M, P)
  BY <1>0, <1>6, SameRearranged
<1>9. Same(P, M)
  BY <1>8 DEF Same
<1>. HIDE DEF w
<1>10. Changed(b.buf, w, lo, hi) /\ Ordered(w, lo, hi, M)
  BY <1>2, <1>5, <1>6, <1>7, <1>9 DEF Changed, Ordered
<1>. QED  BY <1>4, <1>10

-----------------------------------------------------------------------------
(* Sorting a range: its chunks, and then sort *)

\* The offsets q cut the list M of a range into chunks: the i-th starts with the slice
\* x[i] of M, and the last offset is the end.
Chunks(b, o, M, q, x) ==
    /\ b \in Buffers /\ Located(b, o, M)
    /\ Len(q) \in Nat /\ 1 <= Len(q) /\ x \in [1..Len(q) -> 1..(Len(M) + 1)]
    /\ x[1] = 1 /\ x[Len(q)] = Len(M) + 1
    /\ \A i, j \in 1..Len(q) : i <= j => x[i] <= x[j]
    /\ \A i \in 1..Len(q) : q[i] = o[x[i]]

\* The list from the i-th offset to the j-th
Chunk(M, x, i, j) == Part(M, x[i], x[j])

\* The range between two bounds of chunks holds the slices between.
LEMMA ChunkFacts ==
    ASSUME NEW b, NEW o, NEW M, NEW q, NEW x, Chunks(b, o, M, q, x),
           NEW i \in 1..Len(q), NEW j \in 1..Len(q), i <= j
    PROVE  /\ q[i] \in Nat /\ q[j] \in Nat /\ q[i] <= q[j] /\ q[j] <= b.offset
           /\ Chunk(M, x, i, j) \in Lists /\ Holds(b.buf, q[i], q[j], Chunk(M, x, i, j))
<1>1. /\ Located(b, o, M) /\ x[i] \in 1..(Len(M) + 1) /\ x[j] \in 1..(Len(M) + 1) /\ x[i] <= x[j]
      /\ q[i] = o[x[i]] /\ q[j] = o[x[j]]
  BY DEF Chunks
<1>2. /\ b.buf \in Cells /\ At(b.buf, o, M) /\ M \in Lists /\ Len(M) \in Nat
      /\ q[i] \in Nat /\ q[j] \in Nat /\ q[j] <= b.offset
      /\ x[i] < x[j] => o[x[i]] < o[x[j]]
  BY <1>1, LocatedFacts
<1>3. x[i] \in Nat /\ x[j] \in Nat
  BY <1>1, <1>2
<1>4. q[i] <= q[j]
  <2>1. CASE x[i] = x[j]
    BY <1>1, <1>2, <2>1
  <2>2. CASE x[i] < x[j]
    BY <1>1, <1>2, <2>2
  <2>. QED  BY <1>1, <1>3, <2>1, <2>2
<1>5. Holds(b.buf, o[x[i]], o[x[j]], Part(M, x[i], x[j])) /\ Part(M, x[i], x[j]) \in Lists
  BY <1>1, <1>2, AtPart
<1>. QED  BY <1>1, <1>2, <1>4, <1>5 DEF Chunk

\* Adjoining chunks
LEMMA ChunkJoin ==
    ASSUME NEW b, NEW o, NEW M, NEW q, NEW x, Chunks(b, o, M, q, x),
           NEW i \in 1..Len(q), NEW j \in 1..Len(q), NEW k \in 1..Len(q), i <= j, j <= k
    PROVE  Chunk(M, x, i, j) \o Chunk(M, x, j, k) = Chunk(M, x, i, k)
<1>1. /\ Located(b, o, M) /\ x[i] \in 1..(Len(M) + 1) /\ x[j] \in 1..(Len(M) + 1) /\ x[k] \in 1..(Len(M) + 1)
      /\ x[i] <= x[j] /\ x[j] <= x[k]
  BY DEF Chunks
<1>2. M \in Lists /\ Len(M) \in Nat
  BY <1>1, LocatedFacts
<1>3. x[i] \in Nat /\ x[j] \in Nat /\ x[k] \in Nat /\ 1 <= x[i] /\ x[k] <= Len(M) + 1
  BY <1>1, <1>2
<1>. QED  BY <1>1, <1>2, <1>3, PartJoin DEF Chunk

\* The chunk j, in the memory w, once the first i - 1 are sorted
ChunkIs(w, M, q, x, i, j) ==
    IF j < i THEN Ordered(w, q[j], q[j + 1], Chunk(M, x, j, j + 1))
    ELSE Holds(w, q[j], q[j + 1], Chunk(M, x, j, j + 1))

ChunksDone(b, M, q, x, i, w) ==
    Changed(b.buf, w, q[1], q[Len(q)]) /\ \A j \in 1..(Len(q) - 1) : ChunkIs(w, M, q, x, i, j)

\* The buffers with the first i - 1 chunks of b sorted
HalfSorted(b, M, q, x, i) ==
    {c \in Buffers : \E w : c = [b EXCEPT !.buf = w] /\ ChunksDone(b, M, q, x, i, w)}

\* At first no chunk is sorted.
LEMMA ChunksStart ==
    ASSUME NEW b, NEW o, NEW M, NEW q, NEW x, Chunks(b, o, M, q, x)
    PROVE  b \in HalfSorted(b, M, q, x, 1)
<1>1. b \in Buffers /\ b = [b EXCEPT !.buf = b.buf] /\ b.buf \in Cells
  BY DEF Chunks, Buffers
<1>2. Changed(b.buf, b.buf, q[1], q[Len(q)])
  BY <1>1 DEF Changed
<1>3. ASSUME NEW j \in 1..(Len(q) - 1) PROVE ChunkIs(b.buf, M, q, x, 1, j)
  <2>1. j \in 1..Len(q) /\ j + 1 \in 1..Len(q) /\ j <= j + 1 /\ ~(j < 1)
    BY DEF Chunks
  <2>. QED  BY <2>1, ChunkFacts DEF ChunkIs
<1>4. ChunksDone(b, M, q, x, 1, b.buf)
  BY <1>2, <1>3 DEF ChunksDone
<1>. QED  BY <1>1, <1>4 DEF HalfSorted

\* sortSmall sorts one chunk more and leaves the others alone.
LEMMA ChunksStep ==
    ASSUME NEW b, NEW o, NEW M, NEW q, NEW x, Chunks(b, o, M, q, x),
           NEW i \in 1..(Len(q) - 1), NEW c \in HalfSorted(b, M, q, x, i),
           NEW d \in sortSmall(c, q[i], q[i + 1])
    PROVE  d \in HalfSorted(b, M, q, x, i + 1)
<1>. DEFINE N == Chunk(M, x, i, i + 1)
            n == Len(q)
<1>0. /\ b \in Buffers /\ n \in Nat /\ i \in Nat /\ i \in 1..n /\ i + 1 \in 1..n /\ i <= i + 1 /\ 1 \in 1..n /\ n \in 1..n
      /\ 1 <= i /\ i + 1 <= n
  BY DEF Chunks
<1>1. PICK u : c = [b EXCEPT !.buf = u] /\ ChunksDone(b, M, q, x, i, u)
  BY DEF HalfSorted
<1>2. Changed(b.buf, u, q[1], q[n]) /\ \A j \in 1..(n - 1) : ChunkIs(u, M, q, x, i, j)
  BY <1>1 DEF ChunksDone
<1>3. /\ q[i] \in Nat /\ q[i + 1] \in Nat /\ q[i] <= q[i + 1] /\ q[i + 1] <= b.offset /\ N \in Lists
      /\ q[1] \in Nat /\ q[n] \in Nat /\ q[1] <= q[i] /\ q[i + 1] <= q[n]
  BY <1>0, ChunkFacts
<1>4. u \in Cells /\ Len(u) = Len(b.buf) /\ Len(u) \in Nat
  BY <1>2, CellsLen DEF Changed
<1>5. c.buf = u /\ c.offset = b.offset /\ c \in Buffers /\ b.offset <= Len(b.buf) /\ b.offset \in Nat
  <2>1. b.offset <= Len(b.buf) /\ b.offset \in Nat
    BY DEF Chunks, Located, Usable
  <2>. QED  BY <1>0, <1>1, <1>4, <2>1 DEF Buffers
<1>6. Holds(u, q[i], q[i + 1], N)
  <2>1. ChunkIs(u, M, q, x, i, i)
    BY <1>2
  <2>2. ~(i < i)
    BY <1>0
  <2>. QED  BY <2>1, <2>2 DEF ChunkIs
<1>. HIDE DEF N
<1>7. PICK r : At(u, r, N) /\ r[1] = q[i] /\ r[Len(N) + 1] = q[i + 1]
  BY <1>6 DEF Holds
<1>8. Located(c, r, N)
  BY <1>3, <1>4, <1>5, <1>7 DEF Located, Usable
<1>9. PICK w : /\ d = [c EXCEPT !.buf = w] /\ Changed(c.buf, w, r[1], r[Len(N) + 1])
               /\ Ordered(w, r[1], r[Len(N) + 1], N)
  <2>1. d \in sortSmall(c, r[1], r[Len(N) + 1])
    BY <1>7
  <2>. QED  BY <1>8, <2>1, SmallIs
<1>10. Changed(u, w, q[i], q[i + 1]) /\ Ordered(w, q[i], q[i + 1], N)
  BY <1>5, <1>7, <1>9
<1>11. d = [b EXCEPT !.buf = w] /\ d \in Buffers
  <2>1. w \in Cells
    BY <1>10 DEF Changed
  <2>. QED  BY <1>0, <1>1, <1>9, <2>1 DEF Buffers
<1>12. Changed(b.buf, w, q[1], q[n])
  <2>1. b.buf \in Cells
    BY <1>0 DEF Buffers
  <2>. QED  BY <1>2, <1>3, <1>10, <2>1, ChangedWider
<1>13. ASSUME NEW j \in 1..(n - 1) PROVE ChunkIs(w, M, q, x, i + 1, j)
  <2>1. j \in Nat /\ j \in 1..n /\ j + 1 \in 1..n /\ j <= j + 1
    BY <1>0
  <2>2. ChunkIs(u, M, q, x, i, j)
    BY <1>2
  <2>3. /\ Chunk(M, x, j, j + 1) \in Lists
        /\ j < i => q[j + 1] <= q[i]
        /\ j > i => q[i + 1] <= q[j]
    <3>1. j < i => j + 1 <= i
      BY <1>0, <2>1
    <3>2. j > i => i + 1 <= j
      BY <1>0, <2>1
    <3>. QED  BY <1>0, <2>1, <3>1, <3>2, ChunkFacts
  <2>4. CASE j < i
    <3>1. Ordered(u, q[j], q[j + 1], Chunk(M, x, j, j + 1))
      BY <2>2, <2>4 DEF ChunkIs
    <3>2. Ordered(w, q[j], q[j + 1], Chunk(M, x, j, j + 1))
      BY <1>3, <1>4, <1>10, <2>3, <2>4, <3>1, OrderedAside
    <3>3. j < i + 1
      BY <1>0, <2>1, <2>4
    <3>. QED  BY <3>2, <3>3 DEF ChunkIs
  <2>5. CASE j = i
    <3>1. j < i + 1
      BY <1>0, <2>5
    <3>. QED  BY <1>10, <2>5, <3>1 DEF ChunkIs, N
  <2>6. CASE j > i
    <3>1. ~(j < i) /\ ~(j < i + 1)
      BY <1>0, <2>1, <2>6
    <3>2. Holds(u, q[j], q[j + 1], Chunk(M, x, j, j + 1))
      BY <2>2, <3>1 DEF ChunkIs
    <3>3. Holds(w, q[j], q[j + 1], Chunk(M, x, j, j + 1))
      BY <1>3, <1>4, <1>10, <2>3, <2>6, <3>2, HoldsAside
    <3>. QED  BY <3>1, <3>3 DEF ChunkIs
  <2>. QED  BY <1>0, <2>1, <2>4, <2>5, <2>6
<1>14. ChunksDone(b, M, q, x, i + 1, w)
  BY <1>12, <1>13 DEF ChunksDone
<1>. QED  BY <1>11, <1>14 DEF HalfSorted

\* What sortSmall makes of the chunk before the i-th offset, in each of the buffers X
NextChunk(q, i, X) == UNION {sortSmall(c, q[i - 1], q[i]) : c \in X}

\* So the first chunks are sorted, up to any number.
LEMMA ChunksUpTo ==
    ASSUME NEW b, NEW o, NEW M, NEW q, NEW x, Chunks(b, o, M, q, x), NEW f, f[1] = {b},
           \A i \in 1..Len(q) : i # 1 => f[i] \subseteq NextChunk(q, i, f[i - 1])
    PROVE  \A i \in 1..Len(q) : f[i] \subseteq HalfSorted(b, M, q, x, i)
<1>. DEFINE n == Len(q)
            S == {k \in 0..n : k = 0 \/ f[k] \subseteq HalfSorted(b, M, q, x, k)}
<1>0. n \in Nat
  BY DEF Chunks
<1>1. 0 \in S
  BY <1>0
<1>2. ASSUME NEW k \in 1..n, k - 1 \in S PROVE k \in S
  <2>1. CASE k = 1
    <3>1. b \in HalfSorted(b, M, q, x, 1)
      BY ChunksStart
    <3>. QED  BY <1>0, <2>1, <3>1
  <2>2. CASE k # 1
    <3>1. k - 1 # 0 /\ k - 1 \in 1..(n - 1) /\ (k - 1) + 1 = k /\ k \in 0..n
      BY <1>0, <2>2
    <3>2. f[k - 1] \subseteq HalfSorted(b, M, q, x, k - 1)
      BY <1>2, <3>1
    <3>3. ASSUME NEW d \in f[k] PROVE d \in HalfSorted(b, M, q, x, k)
      <4>1. PICK c \in f[k - 1] : d \in sortSmall(c, q[k - 1], q[k])
        BY <2>2, <3>3 DEF NextChunk
      <4>2. c \in HalfSorted(b, M, q, x, k - 1) /\ d \in sortSmall(c, q[k - 1], q[(k - 1) + 1])
        BY <3>1, <3>2, <4>1
      <4>3. d \in HalfSorted(b, M, q, x, (k - 1) + 1)
        BY <3>1, <4>2, ChunksStep
      <4>. QED  BY <3>1, <4>3
    <3>. QED  BY <3>1, <3>3
  <2>. QED  BY <2>1, <2>2
<1>3. \A k \in 0..n : k \in S
  <2>. HIDE DEF S
  <2>. QED  BY <1>0, <1>1, <1>2, UpTo
<1>4. \A k \in 1..n : k \in 0..n /\ k # 0
  BY <1>0
<1>. QED  BY <1>3, <1>4

IsUpTo(f, b, q) ==
    f = [i \in 1..Len(q) |->
            IF i = 1 THEN {b} ELSE UNION {sortSmall(c, q[i - 1], q[i]) : c \in f[i - 1]}]

\* The recursion over the chunks defines a function.
LEMMA UpToExists ==
    ASSUME NEW b, NEW o, NEW M, NEW q, NEW x, Chunks(b, o, M, q, x)
    PROVE  \E f : IsUpTo(f, b, q)
<1>. DEFINE n == Len(q)
            V == SUBSET Buffers
            next(i, X) == NextChunk(q, i, X)
            g == [i \in 1..n |-> [X \in V |-> next(i, X) \cap Buffers]]
            a == {b}
<1>0. n \in Nat /\ 1 \in Nat /\ 1 \in 1..n /\ b \in Buffers
  BY DEF Chunks
<1>1. a \in V
  BY <1>0
<1>2. g \in [1..n -> [V -> V]]
  <2>. HIDE DEF next
  <2>1. \A i \in 1..n : \A X \in V : next(i, X) \cap Buffers \in V
    OBVIOUS
  <2>. HIDE DEF V
  <2>. QED  BY <2>1
<1>. HIDE DEF V, a, next
<1>3. PICK f \in [1..n -> V] : \A k \in 1..n : f[k] = IF k = 1 THEN a ELSE g[k][f[k - 1]]
  <2>1. Repeats(1, n, V, a, g)
    BY <1>0, <1>1, <1>2 DEF Repeats
  <2>. HIDE DEF g
  <2>. QED  BY <2>1, RepeatExists
<1>4. \A k \in 1..n : k # 1 => k - 1 \in 1..n /\ f[k - 1] \in V
  <2>1. \A k \in 1..n : k # 1 => k - 1 \in 1..n
    BY <1>0
  <2>. QED  BY <2>1
<1>5. \A k \in 1..n : k # 1 => f[k] = next(k, f[k - 1]) \cap Buffers
  BY <1>3, <1>4
<1>6. \A k \in 1..n : f[k] \subseteq HalfSorted(b, M, q, x, k)
  <2>1. f[1] = {b}
    BY <1>0, <1>3 DEF a
  <2>2. \A k \in 1..n : k # 1 => f[k] \subseteq NextChunk(q, k, f[k - 1])
    BY <1>5 DEF next
  <2>. QED  BY <2>1, <2>2, ChunksUpTo
<1>7. ASSUME NEW k \in 1..n, k # 1 PROVE next(k, f[k - 1]) \subseteq Buffers
  <2>. SUFFICES ASSUME NEW d \in next(k, f[k - 1]) PROVE d \in Buffers
    OBVIOUS
  <2>0. k - 1 \in 1..n /\ k - 1 \in 1..(n - 1) /\ (k - 1) + 1 = k
    BY <1>0, <1>7
  <2>1. PICK c \in f[k - 1] : d \in sortSmall(c, q[k - 1], q[k])
    BY DEF next, NextChunk
  <2>2. c \in HalfSorted(b, M, q, x, k - 1) /\ d \in sortSmall(c, q[k - 1], q[(k - 1) + 1])
    BY <1>6, <2>0, <2>1
  <2>3. d \in HalfSorted(b, M, q, x, (k - 1) + 1)
    BY <2>0, <2>2, ChunksStep
  <2>. QED  BY <2>3 DEF HalfSorted
<1>8. \A k \in 1..n : k # 1 => f[k] = next(k, f[k - 1])
  BY <1>5, <1>7
<1>. HIDE DEF g
<1>9. f = [k \in 1..n |-> IF k = 1 THEN a ELSE next(k, f[k - 1])]
  BY <1>3, <1>8
<1>10. IsUpTo(f, b, q)
  BY <1>9 DEF IsUpTo, a, next, NextChunk, n
<1>. QED  BY <1>10

\* SortSliceBetween sorts every chunk before it merges any.
LEMMA SortedChunksAre ==
    ASSUME NEW b, NEW o, NEW M, NEW q, NEW x, Chunks(b, o, M, q, x), NEW c \in SortedChunks(b, q)
    PROVE  c \in HalfSorted(b, M, q, x, Len(q))
<1>. DEFINE f == CHOOSE h : IsUpTo(h, b, q)
<1>1. IsUpTo(f, b, q)
  BY UpToExists
<1>2. SortedChunks(b, q) = f[Len(q)]
  BY DEF SortedChunks, IsUpTo
<1>. HIDE DEF f
<1>3. 1 \in 1..Len(q) /\ Len(q) \in 1..Len(q)
  BY DEF Chunks
<1>4. f[1] = {b} /\ \A i \in 1..Len(q) : i # 1 => f[i] \subseteq NextChunk(q, i, f[i - 1])
  BY <1>1, <1>3 DEF IsUpTo, NextChunk
<1>5. f[Len(q)] \subseteq HalfSorted(b, M, q, x, Len(q))
  BY <1>3, <1>4, ChunksUpTo
<1>. QED  BY <1>2, <1>5

\* A run of slices is one of the rearranged slices.
LEMMA RunSame ==
    ASSUME NEW w, NEW n, NEW Z, NEW Y, Run(w, n, Z), Same(Z, Y)
    PROVE  Run(w, n, Y)
<1>1. PICK R \in Lists : Holds(w, 0, n, R) /\ InOrder(R) /\ Same(R, Z)
  BY DEF Run
<1>2. Same(R, Y)
  BY <1>1, SameTransitive
<1>. QED  BY <1>1, <1>2 DEF Run

\* A sorted range, cut out, is a run.
LEMMA OrderedRun ==
    ASSUME NEW w \in Cells, NEW lo, NEW hi, NEW Z, Ordered(w, lo, hi, Z)
    PROVE  Run(Between(w, lo, hi), hi - lo, Z)
<1>1. PICK R \in Lists : Holds(w, lo, hi, R) /\ InOrder(R) /\ Same(R, Z)
  BY DEF Ordered
<1>2. lo \in Nat /\ hi \in Nat /\ lo <= hi /\ hi <= Len(w)
  BY <1>1, CellsLen, HoldsBounds
<1>3. Between(w, lo, hi) \in Cells /\ Len(Between(w, lo, hi)) = hi - lo
  BY <1>2, BetweenCells
<1>4. Holds(Between(w, lo, hi), 0, hi - lo, R)
  BY <1>1, HoldsBetween
<1>. QED  BY <1>1, <1>3, <1>4 DEF Run

\* merge makes one run of two.
LEMMA RunsMerge ==
    ASSUME NEW u, NEW w, NEW m \in Nat, NEW n \in Nat, NEW A \in Lists, NEW B \in Lists,
           Run(u, m, A), Run(w, n, B)
    PROVE  Run(merge(u, w), m + n, A \o B)
<1>1. PICK P \in Lists : Holds(u, 0, m, P) /\ InOrder(P) /\ Same(P, A)
  BY DEF Run
<1>2. PICK Q \in Lists : Holds(w, 0, n, Q) /\ InOrder(Q) /\ Same(Q, B)
  BY DEF Run
<1>3. u \in Cells /\ w \in Cells /\ Len(u) = m /\ Len(w) = n
  BY DEF Run
<1>4. Run(merge(u, w), m + n, P \o Q)
  BY <1>1, <1>2, <1>3, MergeIs
<1>5. Same(P \o Q, A \o B)
  BY <1>1, <1>2, SameConcat
<1>. QED  BY <1>4, <1>5, RunSame

\* The step of sort for the arguments r
middle(r) == r[1] + (r[2] - r[1]) \div 2
sortStep(f, w, q, r) ==
    IF r[1] = middle(r) THEN Between(w, q[r[1]], q[r[2]])
    ELSE merge(f[<<r[1], middle(r)>>], f[<<middle(r), r[2]>>])

\* The middle of a range of chunks is inside it, unless there is at most one chunk.
LEMMA MiddleIs ==
    ASSUME NEW q, Len(q) \in Nat, NEW r \in SortArgs(q)
    PROVE  /\ r[1] \in Nat /\ r[2] \in Nat /\ middle(r) \in Nat /\ r[1] <= r[2]
           /\ r[1] \in 1..Len(q) /\ r[2] \in 1..Len(q)
           /\ r[1] = middle(r) => r[2] = r[1] \/ r[2] = r[1] + 1
           /\ r[1] # middle(r) =>
                 /\ r[1] < middle(r) /\ middle(r) < r[2] /\ middle(r) \in 1..Len(q)
                 /\ <<r[1], middle(r)>> \in SortArgs(q) /\ <<middle(r), r[2]>> \in SortArgs(q)
<1>1. r[1] \in 1..Len(q) /\ r[2] \in 1..Len(q) /\ r[1] <= r[2] /\ r[1] \in Nat /\ r[2] \in Nat
  BY DEF SortArgs
<1>. DEFINE d == r[2] - r[1]
<1>2. d \in Nat /\ r[2] = r[1] + d
  BY <1>1
<1>3. d \div 2 \in Nat /\ (d \div 2 = 0 => d = 0 \/ d = 1) /\ (d \div 2 # 0 => 0 < d \div 2 /\ d \div 2 < d)
  <2>. HIDE DEF d
  <2>. QED  BY <1>2
<1>. DEFINE h == d \div 2
<1>4. middle(r) = r[1] + h
  BY DEF middle
<1>. HIDE DEF d, h
<1>5. h \in Nat /\ (h = 0 => d = 0 \/ d = 1) /\ (h # 0 => 0 < h /\ h < d)
  BY <1>3 DEF h
<1>6. /\ middle(r) \in Nat /\ (r[1] = middle(r) => r[2] = r[1] \/ r[2] = r[1] + 1)
      /\ r[1] # middle(r) => r[1] < middle(r) /\ middle(r) < r[2] /\ middle(r) \in 1..Len(q)
  BY <1>1, <1>2, <1>4, <1>5
<1>7. ASSUME r[1] # middle(r)
      PROVE  <<r[1], middle(r)>> \in SortArgs(q) /\ <<middle(r), r[2]>> \in SortArgs(q)
  <2>. DEFINE m == middle(r)
  <2>1. m \in 1..Len(q) /\ r[1] <= m /\ m <= r[2]
    BY <1>1, <1>6, <1>7
  <2>. HIDE DEF m
  <2>2. <<r[1], m>> \in SortArgs(q) /\ <<m, r[2]>> \in SortArgs(q)
    BY <1>1, <2>1 DEF SortArgs
  <2>. QED  BY <2>2 DEF m
<1>. QED  BY <1>1, <1>6, <1>7

\* w is the memory of b with every chunk sorted.
ChunksReady(b, o, M, q, x, w) ==
    Chunks(b, o, M, q, x) /\ ChunksDone(b, M, q, x, Len(q), w)

\* sort leaves a single chunk as it is, a run.
LEMMA SortLeaf ==
    ASSUME NEW b, NEW o, NEW M, NEW q, NEW x, NEW w, ChunksReady(b, o, M, q, x, w),
           NEW i \in 1..Len(q), NEW j \in 1..Len(q), j = i \/ j = i + 1
    PROVE  Run(Between(w, q[i], q[j]), q[j] - q[i], Chunk(M, x, i, j))
<1>0. Chunks(b, o, M, q, x) /\ ChunksDone(b, M, q, x, Len(q), w) /\ Len(q) \in Nat
  BY DEF ChunksReady, Chunks
<1>1. w \in Cells /\ Len(w) = Len(b.buf)
  BY <1>0 DEF ChunksDone, Changed
<1>2. CASE j = i
  <2>1. q[i] \in Nat /\ q[i] <= b.offset /\ b.offset <= Len(b.buf) /\ b.offset \in Nat
    <3>1. i <= i
      BY <1>0
    <3>2. b.offset <= Len(b.buf) /\ b.offset \in Nat
      BY <1>0 DEF Chunks, Located, Usable
    <3>. QED  BY <1>0, <3>1, <3>2, ChunkFacts
  <2>. DEFINE E == <<>>
  <2>2. Holds(w, q[i], q[i], E) /\ E \in Lists
    <3>1. q[i] <= Len(w)
      BY <1>1, <2>1, CellsLen
    <3>. QED  BY <1>1, <2>1, <3>1, HoldsEmpty
  <2>3. Chunk(M, x, i, i) = E
    <3>1. M \in Lists /\ x[i] \in 1..(Len(M) + 1)
      BY <1>0 DEF Chunks, Located
    <3>. QED  BY <3>1, PartEnds DEF Chunk
  <2>4. InOrder(E) /\ Same(E, E)
    <3>1. Len(E) = 0
      OBVIOUS
    <3>. HIDE DEF E
    <3>. QED  BY <3>1 DEF InOrder, Same
  <2>. HIDE DEF E
  <2>5. Ordered(w, q[i], q[i], E)
    BY <2>2, <2>4 DEF Ordered
  <2>. QED  BY <1>1, <1>2, <2>3, <2>5, OrderedRun
<1>3. CASE j = i + 1
  <2>1. i \in 1..(Len(q) - 1) /\ i < Len(q)
    BY <1>0, <1>3
  <2>2. ChunkIs(w, M, q, x, Len(q), i)
    BY <1>0, <2>1 DEF ChunksDone
  <2>3. Ordered(w, q[i], q[i + 1], Chunk(M, x, i, i + 1))
    BY <2>1, <2>2 DEF ChunkIs
  <2>. QED  BY <1>1, <1>3, <2>3, OrderedRun
<1>. QED  BY <1>2, <1>3

SortRun(M, q, x, f, r) == Run(f[r], q[r[2]] - q[r[1]], Chunk(M, x, r[1], r[2]))

\* sort makes one run of a range if it does of both halves.
LEMMA SortStepRuns ==
    ASSUME NEW b, NEW o, NEW M, NEW q, NEW x, NEW w, ChunksReady(b, o, M, q, x, w), NEW f,
           NEW r \in SortArgs(q),
           r[1] # middle(r) => /\ SortRun(M, q, x, f, <<r[1], middle(r)>>)
                               /\ SortRun(M, q, x, f, <<middle(r), r[2]>>)
    PROVE  Run(sortStep(f, w, q, r), q[r[2]] - q[r[1]], Chunk(M, x, r[1], r[2]))
<1>. DEFINE i == r[1]
            j == r[2]
            m == middle(r)
<1>0. Chunks(b, o, M, q, x) /\ Len(q) \in Nat
  BY DEF ChunksReady, Chunks
<1>1. CASE i = m
  <2>1. i \in 1..Len(q) /\ j \in 1..Len(q) /\ (j = i \/ j = i + 1)
    BY <1>0, <1>1, MiddleIs
  <2>2. Run(Between(w, q[i], q[j]), q[j] - q[i], Chunk(M, x, i, j))
    <3>. HIDE DEF i, j
    <3>. QED  BY <2>1, SortLeaf
  <2>. QED  BY <1>1, <2>2 DEF sortStep
<1>2. CASE i # m
  <2>1. /\ i \in 1..Len(q) /\ j \in 1..Len(q) /\ m \in 1..Len(q) /\ i <= m /\ m <= j
    BY <1>0, <1>2, MiddleIs
  <2>2. /\ Run(f[<<i, m>>], q[m] - q[i], Chunk(M, x, i, m))
        /\ Run(f[<<m, j>>], q[j] - q[m], Chunk(M, x, m, j))
    BY <1>2 DEF SortRun
  <2>3. sortStep(f, w, q, r) = merge(f[<<i, m>>], f[<<m, j>>])
    BY <1>2 DEF sortStep
  <2>. HIDE DEF i, j, m
  <2>4. /\ q[i] \in Nat /\ q[j] \in Nat /\ q[m] \in Nat /\ q[i] <= q[m] /\ q[m] <= q[j]
        /\ Chunk(M, x, i, m) \in Lists /\ Chunk(M, x, m, j) \in Lists
    BY <1>0, <2>1, ChunkFacts
  <2>5. q[m] - q[i] \in Nat /\ q[j] - q[m] \in Nat /\ (q[m] - q[i]) + (q[j] - q[m]) = q[j] - q[i]
    BY <2>4
  <2>6. Chunk(M, x, i, m) \o Chunk(M, x, m, j) = Chunk(M, x, i, j)
    BY <1>0, <2>1, ChunkJoin
  <2>. DEFINE A == Chunk(M, x, i, m)
              B == Chunk(M, x, m, j)
              k == q[m] - q[i]
              l == q[j] - q[m]
  <2>. HIDE DEF A, B, k, l
  <2>7. Run(merge(f[<<i, m>>], f[<<m, j>>]), k + l, A \o B)
    BY <2>2, <2>4, <2>5, RunsMerge DEF A, B, k, l
  <2>8. Run(sortStep(f, w, q, r), q[j] - q[i], Chunk(M, x, i, j))
    BY <2>3, <2>5, <2>6, <2>7 DEF A, B, k, l
  <2>. QED  BY <2>8 DEF i, j
<1>. QED  BY <1>1, <1>2

\* By induction on the length of the range
LEMMA SortRuns ==
    ASSUME NEW b, NEW o, NEW M, NEW q, NEW x, NEW w, ChunksReady(b, o, M, q, x, w), NEW f,
           \A r \in SortArgs(q) : sortStep(f, w, q, r) \in Cells => f[r] = sortStep(f, w, q, r)
    PROVE  \A r \in SortArgs(q) : SortRun(M, q, x, f, r) /\ sortStep(f, w, q, r) \in Cells
<1>. DEFINE n == Len(q)
            Good(r) == SortRun(M, q, x, f, r) /\ sortStep(f, w, q, r) \in Cells
            S == {k \in 0..n : \A r \in SortArgs(q) : r[2] - r[1] < k => Good(r)}
<1>0. n \in Nat
  BY DEF ChunksReady, Chunks
<1>1. \A r \in SortArgs(q) : r[1] \in Nat /\ r[2] \in Nat /\ r[1] <= r[2] /\ r[2] - r[1] < n
  BY <1>0 DEF SortArgs
<1>2. 0 \in S
  <2>. HIDE DEF Good
  <2>. QED  BY <1>0, <1>1
<1>3. ASSUME NEW k \in 1..n, k - 1 \in S PROVE k \in S
  <2>1. k \in Nat /\ k \in 0..n /\ \A r \in SortArgs(q) : r[2] - r[1] < k - 1 => Good(r)
    <3>. HIDE DEF Good
    <3>. QED  BY <1>0, <1>3
  <2>2. ASSUME NEW r \in SortArgs(q), r[2] - r[1] < k PROVE Good(r)
    <3>. DEFINE u == <<r[1], middle(r)>>
                v == <<middle(r), r[2]>>
    <3>1. ASSUME r[1] # middle(r) PROVE SortRun(M, q, x, f, u) /\ SortRun(M, q, x, f, v)
      <4>1. /\ r[1] \in Nat /\ r[2] \in Nat /\ middle(r) \in Nat /\ r[1] < middle(r) /\ middle(r) < r[2]
            /\ u \in SortArgs(q) /\ v \in SortArgs(q)
        BY <1>0, <3>1, MiddleIs
      <4>2. u[2] - u[1] < k - 1 /\ v[2] - v[1] < k - 1
        BY <2>1, <2>2, <4>1
      <4>. HIDE DEF u, v
      <4>. QED  BY <2>1, <4>1, <4>2
    <3>2. Run(sortStep(f, w, q, r), q[r[2]] - q[r[1]], Chunk(M, x, r[1], r[2]))
      BY <3>1, SortStepRuns
    <3>3. sortStep(f, w, q, r) \in Cells
      BY <3>2 DEF Run
    <3>4. f[r] = sortStep(f, w, q, r)
      BY <3>3
    <3>. QED  BY <3>2, <3>3, <3>4 DEF SortRun
  <2>. HIDE DEF Good
  <2>. QED  BY <2>1, <2>2
<1>4. n \in S
  <2>1. \A k \in 0..n : k \in S
    <3>. HIDE DEF S
    <3>. QED  BY <1>0, <1>2, <1>3, UpTo
  <2>2. n \in 0..n
    BY <1>0
  <2>. HIDE DEF S
  <2>. QED  BY <2>1, <2>2
<1>5. \A r \in SortArgs(q) : Good(r)
  <2>. HIDE DEF Good
  <2>. QED  BY <1>1, <1>4
<1>. QED  BY <1>5

IsSort(f, w, q) == f = [r \in SortArgs(q) |-> sortStep(f, w, q, r)]

\* The recursion of sort defines a function.
LEMMA SortExists ==
    ASSUME NEW b, NEW o, NEW M, NEW q, NEW x, NEW w, ChunksReady(b, o, M, q, x, w)
    PROVE  \E f : IsSort(f, w, q)
<1>. DEFINE D == SortArgs(q)
            V == Cells
            N == Len(q)
            m == [r \in D |-> r[2] - r[1]]
            step(g, r) == sortStep(g, w, q, r)
            G == [r \in D |-> [g \in [D -> V] |-> IF step(g, r) \in V THEN step(g, r) ELSE <<>>]]
<1>0. N \in Nat
  BY DEF ChunksReady, Chunks
<1>1. <<>> \in V
  BY EmptySeq DEF Cells
<1>2. m \in [D -> Nat] /\ \A r \in D : m[r] <= N
  <2>1. \A r \in D : r[1] \in Nat /\ r[2] \in Nat /\ r[1] <= r[2] /\ r[2] - r[1] <= N
    BY <1>0 DEF SortArgs
  <2>2. \A r \in D : r[2] - r[1] \in Nat
    BY <2>1
  <2>. HIDE DEF D
  <2>. QED  BY <2>1, <2>2
<1>3. \A r \in D, g, h \in [D -> V] : (\A y \in D : m[y] < m[r] => g[y] = h[y]) => step(g, r) = step(h, r)
  <2>. SUFFICES ASSUME NEW r \in D, NEW g \in [D -> V], NEW h \in [D -> V],
                       \A y \in D : m[y] < m[r] => g[y] = h[y]
                PROVE  step(g, r) = step(h, r)
    OBVIOUS
  <2>. DEFINE u == <<r[1], middle(r)>>
              v == <<middle(r), r[2]>>
  <2>1. CASE r[1] = middle(r)
    BY <2>1 DEF sortStep
  <2>2. CASE r[1] # middle(r)
    <3>1. /\ r[1] \in Nat /\ r[2] \in Nat /\ middle(r) \in Nat /\ r[1] < middle(r) /\ middle(r) < r[2]
          /\ u \in D /\ v \in D
      BY <1>0, <2>2, MiddleIs
    <3>2. m[r] = r[2] - r[1] /\ m[u] = middle(r) - r[1] /\ m[v] = r[2] - middle(r)
      BY <3>1
    <3>3. m[u] < m[r] /\ m[v] < m[r]
      BY <3>1, <3>2
    <3>4. g[u] = h[u] /\ g[v] = h[v]
      <4>. HIDE DEF u, v, D, m
      <4>. QED  BY <3>1, <3>3
    <3>. QED  BY <2>2, <3>4 DEF sortStep
  <2>. QED  BY <2>1, <2>2
<1>. HIDE DEF D, V, m, step
<1>4. G \in [D -> [[D -> V] -> V]]
  BY <1>1
<1>5. \A r \in D : \A g, h \in [D -> V] :
          (\A y \in D : m[y] < m[r] => g[y] = h[y]) => G[r][g] = G[r][h]
  BY <1>3
<1>6. \A r \in D, g \in [D -> V] : step(g, r) \in V => G[r][g] = step(g, r)
  OBVIOUS
<1>. HIDE DEF G
<1>7. Recursion(D, V, m, N, G)
  BY <1>0, <1>1, <1>2, <1>4, <1>5 DEF Recursion
<1>8. PICK f \in [D -> V] : \A r \in D : f[r] = G[r][f]
  BY <1>7, RecursionExists
<1>9. \A r \in D : step(f, r) \in V => f[r] = step(f, r)
  BY <1>6, <1>8
<1>10. \A r \in D : step(f, r) \in V
  BY <1>9, SortRuns DEF D, V, step
<1>11. f = [r \in D |-> step(f, r)]
  BY <1>9, <1>10
<1>12. IsSort(f, w, q)
  BY <1>11 DEF IsSort, D, step
<1>. QED  BY <1>12

\* sort makes one run of the sorted chunks.
LEMMA SortIs ==
    ASSUME NEW b, NEW o, NEW M, NEW q, NEW x, NEW w, ChunksReady(b, o, M, q, x, w)
    PROVE  Run(sort(w, q), q[Len(q)] - q[1], M)
<1>. DEFINE f == CHOOSE h : IsSort(h, w, q)
            r == <<1, Len(q)>>
<1>0. /\ Chunks(b, o, M, q, x) /\ Len(q) \in Nat /\ 1 <= Len(q) /\ M \in Lists
      /\ x[1] = 1 /\ x[Len(q)] = Len(M) + 1
  BY DEF ChunksReady, Chunks, Located
<1>1. IsSort(f, w, q)
  BY SortExists
<1>2. sort(w, q) = f[<<1, Len(q)>>]
  BY DEF sort, IsSort, sortStep, middle
<1>. HIDE DEF f
<1>3. \A s \in SortArgs(q) : f[s] = sortStep(f, w, q, s)
  BY <1>1 DEF IsSort
<1>4. \A s \in SortArgs(q) : SortRun(M, q, x, f, s)
  BY <1>3, SortRuns
<1>5. r \in SortArgs(q) /\ r[1] = 1 /\ r[2] = Len(q)
  BY <1>0 DEF SortArgs
<1>6. Run(f[r], q[Len(q)] - q[1], Chunk(M, x, 1, Len(q)))
  <2>. HIDE DEF r
  <2>. QED  BY <1>4, <1>5 DEF SortRun
<1>7. Chunk(M, x, 1, Len(q)) = M
  BY <1>0, PartEnds DEF Chunk
<1>. QED  BY <1>2, <1>6, <1>7

\* Chunks of c slices: how many there are, and where they start
LEMMA ChunkCount ==
    ASSUME NEW N \in Nat, N > 0, NEW c \in Nat, c > 0, NEW n, n = (N + c - 1) \div c
    PROVE  /\ n \in Nat /\ n > 0
           /\ \A i \in 1..n : (i - 1) * c + 1 \in 1..N
           /\ \A i, j \in 1..n : i <= j => (i - 1) * c + 1 <= (j - 1) * c + 1
<1>. DEFINE a == N + c - 1
<1>1. a \in Nat /\ a >= c
  OBVIOUS
<1>2. n \in Nat /\ n * c <= a /\ a < n * c + c
  <2>. HIDE DEF a
  <2>1. a \div c \in Nat /\ (a \div c) * c <= a /\ a < (a \div c) * c + c
    BY <1>1
  <2>. QED  BY <2>1 DEF a
<1>3. n > 0
  <2>1. CASE n = 0
    <3>1. n * c = 0
      BY <2>1
    <3>. QED  BY <1>1, <1>2, <3>1
  <2>. QED  BY <1>2, <2>1
<1>4. ASSUME NEW i \in Nat, NEW j \in Nat, i <= j PROVE i * c \in Nat /\ j * c \in Nat /\ i * c <= j * c
  BY <1>4
<1>5. ASSUME NEW i \in 1..n PROVE (i - 1) * c + 1 \in 1..N
  <2>1. i - 1 \in Nat /\ n - 1 \in Nat /\ i - 1 <= n - 1
    BY <1>2
  <2>2. (i - 1) * c \in Nat /\ (n - 1) * c \in Nat /\ (i - 1) * c <= (n - 1) * c
    BY <1>4, <2>1
  <2>3. (n - 1) * c = n * c - c
    BY <1>2
  <2>4. n * c \in Nat
    BY <1>2
  <2>. QED  BY <1>2, <2>2, <2>3, <2>4
<1>6. ASSUME NEW i \in 1..n, NEW j \in 1..n, i <= j PROVE (i - 1) * c + 1 <= (j - 1) * c + 1
  <2>1. i - 1 \in Nat /\ j - 1 \in Nat /\ i - 1 <= j - 1
    BY <1>2, <1>6
  <2>2. (i - 1) * c \in Nat /\ (j - 1) * c \in Nat /\ (i - 1) * c <= (j - 1) * c
    BY <1>4, <2>1
  <2>. QED  BY <2>2
<1>. QED  BY <1>2, <1>3, <1>5, <1>6

\* ChunkOffsets are places of slices, from the first to the end.
LEMMA ChunkOffsetsAre ==
    ASSUME NEW b \in Buffers, NEW o, NEW M, Located(b, o, M), M # <<>>
    PROVE  \E x : Chunks(b, o, M, ChunkOffsets(b, o[1], o[Len(M) + 1]), x)
<1>. DEFINE N == Len(M)
            all == OffsetsFrom(b, o[1], o[N + 1])
            n == (N + chunk - 1) \div chunk
            first(i) == (i - 1) * chunk + 1
            x == [i \in 1..(n + 1) |-> IF i <= n THEN first(i) ELSE N + 1]
            q == ChunkOffsets(b, o[1], o[Len(M) + 1])
<1>0. /\ M \in Lists /\ N \in Nat /\ N > 0 /\ N + 1 \in Nat /\ chunk \in Nat /\ chunk > 0
      /\ \A i \in 1..(N + 1) : o[i] \in Nat
  BY LocatedFacts, ListsLen, BufferConstants
<1>1. all = [k \in 1..N |-> o[k]] /\ Len(all) = N
  <2>1. 1 \in 1..(N + 1) /\ N + 1 \in 1..(N + 1) /\ 1 <= N + 1 /\ (N + 1) - 1 = N
    BY <1>0
  <2>2. all = [k \in 1..((N + 1) - 1) |-> o[k + (1 - 1)]]
    BY <2>1, OffsetsAre
  <2>3. \A k \in 1..N : k + (1 - 1) = k
    BY <1>0
  <2>4. all = [k \in 1..N |-> o[k]]
    BY <2>1, <2>2, <2>3
  <2>5. \A k \in 1..N : o[k] \in Nat
    BY <1>0
  <2>6. all \in [1..N -> Nat]
    BY <2>4, <2>5
  <2>. HIDE DEF all
  <2>7. all \in Seq(Nat) /\ DOMAIN all = 1..N
    BY <1>0, <2>6, SeqDef
  <2>. QED  BY <1>0, <2>4, <2>7
<1>2. /\ n \in Nat /\ n > 0 /\ (\A i \in 1..n : first(i) \in 1..N)
      /\ \A i, j \in 1..n : i <= j => first(i) <= first(j)
  BY <1>0, ChunkCount
<1>3. q = [i \in 1..(n + 1) |-> IF i <= n THEN all[first(i)] ELSE o[N + 1]]
  BY <1>1 DEF ChunkOffsets
<1>a. first(1) = 1
  BY <1>0
<1>. HIDE DEF all, n, first, q
<1>4. x \in [1..(n + 1) -> 1..(N + 1)]
  <2>1. \A i \in 1..(n + 1) : (i <= n => i \in 1..n) /\ N + 1 \in 1..(N + 1)
    BY <1>0, <1>2
  <2>2. \A i \in 1..n : first(i) \in 1..(N + 1)
    BY <1>0, <1>2
  <2>. QED  BY <2>1, <2>2
<1>5. \A i \in 1..(n + 1) : q[i] = o[x[i]]
  <2>. SUFFICES ASSUME NEW i \in 1..(n + 1) PROVE q[i] = o[x[i]]
    OBVIOUS
  <2>1. CASE i <= n
    <3>1. i \in 1..n
      BY <1>2, <2>1
    <3>2. first(i) \in 1..N
      BY <1>2, <3>1
    <3>3. all[first(i)] = o[first(i)]
      BY <1>1, <3>2
    <3>. QED  BY <1>3, <2>1, <3>3
  <2>2. CASE ~(i <= n)
    BY <1>3, <2>2
  <2>. QED  BY <2>1, <2>2
<1>6. Len(q) = n + 1
  <2>1. \A i \in 1..(n + 1) : q[i] \in Nat
    BY <1>0, <1>4, <1>5
  <2>2. q \in [1..(n + 1) -> Nat]
    BY <1>3, <2>1
  <2>3. n + 1 \in Nat
    BY <1>2
  <2>4. q \in Seq(Nat) /\ DOMAIN q = 1..(n + 1)
    BY <2>2, <2>3, SeqDef
  <2>. QED  BY <2>3, <2>4
<1>7. x[1] = 1 /\ x[n + 1] = N + 1
  <2>1. 1 \in 1..(n + 1) /\ n + 1 \in 1..(n + 1) /\ 1 <= n /\ ~(n + 1 <= n)
    BY <1>2
  <2>. QED  BY <1>a, <2>1
<1>8. \A i, j \in 1..(n + 1) : i <= j => x[i] <= x[j]
  <2>. SUFFICES ASSUME NEW i \in 1..(n + 1), NEW j \in 1..(n + 1), i <= j PROVE x[i] <= x[j]
    OBVIOUS
  <2>1. CASE j <= n
    <3>1. i \in 1..n /\ j \in 1..n /\ i <= n
      BY <1>2, <2>1
    <3>. QED  BY <1>2, <2>1, <3>1
  <2>2. CASE ~(j <= n)
    <3>1. x[j] = N + 1
      BY <2>2
    <3>2. x[i] \in 1..(N + 1)
      BY <1>4
    <3>. HIDE DEF x
    <3>. QED  BY <1>0, <3>1, <3>2
  <2>. QED  BY <2>1, <2>2
<1>9. n + 1 \in Nat /\ 1 <= n + 1
  BY <1>2
<1>. HIDE DEF x
<1>10. Chunks(b, o, M, q, x)
  BY <1>4, <1>5, <1>6, <1>7, <1>8, <1>9 DEF Chunks
<1>. QED  BY <1>10 DEF q

\* SortSliceBetween sorts the slices of its range and leaves the rest of the buffer.
LEMMA SortBetweenIs ==
    ASSUME NEW b \in Buffers, NEW o, NEW M, Located(b, o, M), M # <<>>,
           NEW d \in SortSliceBetween(b, o[1], o[Len(M) + 1])
    PROVE  \E w : /\ d = [b EXCEPT !.buf = w] /\ Changed(b.buf, w, o[1], o[Len(M) + 1])
                  /\ Ordered(w, o[1], o[Len(M) + 1], M)
<1>. DEFINE N == Len(M)
            lo == o[1]
            hi == o[Len(M) + 1]
            q == ChunkOffsets(b, lo, hi)
<1>0. /\ M \in Lists /\ N \in Nat /\ N > 0 /\ b.buf \in Cells /\ b.offset \in Nat /\ b.offset <= Len(b.buf)
      /\ lo \in Nat /\ hi \in Nat /\ lo < hi /\ hi <= b.offset
  <2>1. M \in Lists /\ N \in Nat /\ N > 0
    BY LocatedFacts, ListsLen
  <2>2. 1 \in 1..(N + 1) /\ N + 1 \in 1..(N + 1) /\ 1 < N + 1
    BY <2>1
  <2>3. b.offset <= Len(b.buf)
    BY DEF Located, Usable
  <2>. QED  BY <2>1, <2>2, <2>3, LocatedFacts
<1>1. PICK c \in SortedChunks(b, q) : d = [c EXCEPT !.buf = Copied(@, lo, sort(@, q))]
  BY <1>0 DEF SortSliceBetween
<1>2. PICK x : Chunks(b, o, M, q, x)
  BY ChunkOffsetsAre
<1>3. q[1] = lo /\ q[Len(q)] = hi
  <2>1. 1 \in 1..Len(q) /\ Len(q) \in 1..Len(q)
    BY <1>2 DEF Chunks
  <2>. HIDE DEF q
  <2>. QED  BY <1>2, <2>1 DEF Chunks
<1>. HIDE DEF q
<1>4. c \in HalfSorted(b, M, q, x, Len(q))
  BY <1>2, SortedChunksAre
<1>5. PICK u : c = [b EXCEPT !.buf = u] /\ ChunksDone(b, M, q, x, Len(q), u)
  BY <1>4 DEF HalfSorted
<1>6. ChunksReady(b, o, M, q, x, u)
  BY <1>2, <1>5 DEF ChunksReady
<1>. DEFINE s == sort(u, q)
            w == Copied(u, lo, s)
<1>7. Run(s, hi - lo, M)
  BY <1>3, <1>6, SortIs
<1>8. c.buf = u /\ Changed(b.buf, u, lo, hi) /\ d = [b EXCEPT !.buf = w]
  <2>1. c.buf = u
    BY <1>5 DEF Buffers
  <2>. QED  BY <1>1, <1>3, <1>5, <2>1 DEF ChunksDone
<1>. HIDE DEF s
<1>9. u \in Cells /\ Len(u) = Len(b.buf) /\ Len(u) \in Nat
  BY <1>8, CellsLen DEF Changed
<1>10. s \in Cells /\ lo + Len(s) = hi /\ Len(s) = hi - lo
  BY <1>0, <1>7 DEF Run
<1>11. PICK R \in Lists : Holds(s, 0, hi - lo, R) /\ InOrder(R) /\ Same(R, M)
  BY <1>7 DEF Run
<1>12. Holds(w, lo, hi, R)
  <2>1. lo + Len(s) <= Len(u) /\ Holds(s, 0, Len(s), R)
    BY <1>0, <1>9, <1>10, <1>11
  <2>2. Holds(w, lo, lo + Len(s), R)
    BY <1>0, <1>9, <1>10, <2>1, HoldsCopied
  <2>. QED  BY <1>10, <2>2
<1>13. Changed(u, w, lo, hi)
  BY <1>0, <1>9, <1>10, CopiedCells DEF Changed
<1>. HIDE DEF w
<1>14. Changed(b.buf, w, lo, hi)
  <2>1. lo <= lo /\ hi <= hi
    BY <1>0
  <2>. QED  BY <1>0, <1>8, <1>13, <2>1, ChangedWider
<1>15. Ordered(w, lo, hi, M)
  BY <1>11, <1>12 DEF Ordered
<1>. QED  BY <1>8, <1>14, <1>15

-----------------------------------------------------------------------------
(* The steps of the buffer are steps of the list. *)

\* L2 is L with the slices from the i-th to the one before the j-th sorted.
SortsPart(L, L2, i, j) ==
    /\ L2 \in Lists /\ Len(L2) = Len(L)
    /\ InOrder(Part(L2, i, j)) /\ Same(Part(L2, i, j), Part(L, i, j))
    /\ \A p \in 1..Len(L) : p < i \/ j <= p => L2[p] = L[p]

\* A sorted part between what was before and behind it sorts that part of the list.
LEMMA PutTogether ==
    ASSUME NEW L \in Lists, NEW i \in 1..(Len(L) + 1), NEW j \in 1..(Len(L) + 1), i <= j,
           NEW R \in Lists, InOrder(R), Same(R, Part(L, i, j))
    PROVE  SortsPart(L, Part(L, 1, i) \o (R \o Part(L, j, Len(L) + 1)), i, j)
<1>. DEFINE A == Part(L, 1, i)
            Z == Part(L, j, Len(L) + 1)
            Q == R \o Z
            T == A \o Q
            n == Len(L)
<1>0. n \in Nat /\ i \in Nat /\ j \in Nat /\ 1 \in Nat /\ n + 1 \in Nat /\ 1 <= i /\ j <= n + 1 /\ i <= n + 1 /\ 1 <= j /\ 1 <= 1 /\ n + 1 <= n + 1
  BY ListsLen
<1>1. A \in Lists /\ Len(A) = i - 1 /\ \A k \in 1..(i - 1) : A[k] = L[k + (1 - 1)]
  BY <1>0, PartList
<1>2. Z \in Lists /\ Len(Z) = (n + 1) - j /\ \A k \in 1..((n + 1) - j) : Z[k] = L[k + (j - 1)]
  BY <1>0, PartList
<1>3. Len(Part(L, i, j)) = j - i
  BY <1>0, PartList
<1>4. Len(R) = j - i
  BY <1>3 DEF Same
<1>. HIDE DEF A, Z
<1>5. Q \in Lists /\ Len(Q) = Len(R) + Len(Z) /\ (\A k \in 1..Len(R) : Q[k] = R[k])
      /\ \A k \in 1..Len(Z) : Q[k + Len(R)] = Z[k]
  BY <1>2, ConcatLists
<1>. HIDE DEF Q
<1>6. T \in Lists /\ Len(T) = Len(A) + Len(Q) /\ (\A k \in 1..Len(A) : T[k] = A[k])
      /\ \A k \in 1..Len(Q) : T[k + Len(A)] = Q[k]
  BY <1>1, <1>5, ConcatLists
<1>. HIDE DEF T
<1>7. Len(T) = n
  BY <1>0, <1>1, <1>2, <1>4, <1>5, <1>6
<1>8. Part(T, i, j) = R
  <2>. DEFINE P == Part(T, i, j)
  <2>1. P \in Lists /\ Len(P) = j - i /\ \A k \in 1..(j - i) : P[k] = T[k + (i - 1)]
    BY <1>0, <1>6, <1>7, PartList
  <2>. HIDE DEF P
  <2>2. ASSUME NEW k \in 1..(j - i) PROVE P[k] = R[k]
    <3>1. k \in 1..Len(R) /\ k \in 1..Len(Q) /\ k + (i - 1) = k + Len(A)
      BY <1>0, <1>1, <1>2, <1>4, <1>5
    <3>2. P[k] = T[k + (i - 1)]
      BY <2>1
    <3>3. T[k + Len(A)] = Q[k] /\ Q[k] = R[k]
      BY <1>5, <1>6, <3>1
    <3>. QED  BY <3>1, <3>2, <3>3
  <2>3. P = R
    BY <1>0, <1>4, <2>1, <2>2, SeqEqual DEF Lists
  <2>. QED  BY <2>3 DEF P
<1>9. ASSUME NEW p \in 1..n, p < i \/ j <= p PROVE T[p] = L[p]
  <2>0. p \in Nat
    BY <1>0
  <2>1. CASE p < i
    <3>1. p \in 1..(i - 1) /\ p \in 1..Len(A) /\ p + (1 - 1) = p
      BY <1>0, <1>1, <2>0, <2>1
    <3>. QED  BY <1>1, <1>6, <3>1
  <2>2. CASE j <= p
    <3>. DEFINE l == p - (j - 1)
                k == l + Len(R)
    <3>1. l \in 1..Len(Z) /\ l \in 1..((n + 1) - j) /\ l + (j - 1) = p
      BY <1>0, <1>2, <2>0, <2>2
    <3>2. k \in 1..Len(Q) /\ k + Len(A) = p
      BY <1>0, <1>1, <1>2, <1>4, <1>5, <2>0, <3>1
    <3>3. T[k + Len(A)] = Q[k]
      BY <1>6, <3>2
    <3>4. Q[l + Len(R)] = Z[l] /\ Z[l] = L[l + (j - 1)]
      <4>. HIDE DEF l
      <4>. QED  BY <1>2, <1>5, <3>1
    <3>. QED  BY <3>1, <3>2, <3>3, <3>4
  <2>. QED  BY <1>9, <2>1, <2>2
<1>10. SortsPart(L, T, i, j)
  BY <1>6, <1>7, <1>8, <1>9 DEF SortsPart
<1>. QED  BY <1>10 DEF T, Q, A, Z

\* SortSliceBetween sorts the slices between its bounds and leaves the others in place.
LEMMA SortKeeps ==
    ASSUME NEW b, Sound(b), NEW o, NEW L, Slicing(b, o, L),
           NEW i \in 1..(Len(L) + 1), NEW j \in 1..(Len(L) + 1), i < j,
           NEW d \in SortSliceBetween(b, o[i], o[j])
    PROVE  /\ Sound(d) /\ d.offset = b.offset
           /\ \E L2 : SortsPart(L, L2, i, j) /\ Holds(d.buf, padding, d.offset, L2)
<1>. DEFINE M == Part(L, i, j)
            A == Part(L, 1, i)
            Z == Part(L, j, Len(L) + 1)
            lo == o[i]
            hi == o[j]
<1>0. /\ b \in Buffers /\ b.buf \in Cells /\ L \in Lists /\ Len(L) \in Nat /\ At(b.buf, o, L)
      /\ o[1] = padding /\ o[Len(L) + 1] = b.offset /\ b.offset \in Nat /\ b.offset <= Len(b.buf)
      /\ lo \in Nat /\ hi \in Nat /\ lo < hi /\ hi <= b.offset
  <2>1. b.offset <= Len(b.buf) /\ b \in Buffers /\ o[1] = padding
    BY DEF Slicing, Located, Usable, Sound
  <2>. QED  BY <2>1, SlicingFacts
<1>1. 1 \in 1..(Len(L) + 1) /\ Len(L) + 1 \in 1..(Len(L) + 1) /\ 1 <= i /\ j <= Len(L) + 1 /\ i <= j
  BY <1>0
<1>2. Holds(b.buf, lo, hi, M) /\ M \in Lists
  BY <1>0, <1>1, AtPart
<1>3. Holds(b.buf, padding, lo, A) /\ A \in Lists
  BY <1>0, <1>1, AtPart
<1>4. Holds(b.buf, hi, b.offset, Z) /\ Z \in Lists
  BY <1>0, <1>1, AtPart
<1>. HIDE DEF M, A, Z, lo, hi
<1>5. PICK r : At(b.buf, r, M) /\ r[1] = lo /\ r[Len(M) + 1] = hi
  BY <1>2 DEF Holds
<1>6. Located(b, r, M)
  BY <1>0, <1>2, <1>5 DEF Located, Usable
<1>7. M # <<>>
  <2>1. lo # hi
    BY <1>0
  <2>2. Len(b.buf) \in Nat
    BY <1>0, CellsLen
  <2>. QED  BY <1>2, <2>1, <2>2, HoldsBounds
<1>8. PICK w : /\ d = [b EXCEPT !.buf = w] /\ Changed(b.buf, w, r[1], r[Len(M) + 1])
               /\ Ordered(w, r[1], r[Len(M) + 1], M)
  <2>1. d \in SortSliceBetween(b, r[1], r[Len(M) + 1])
    BY <1>5 DEF lo, hi
  <2>. QED  BY <1>0, <1>6, <1>7, <2>1, SortBetweenIs
<1>9. Changed(b.buf, w, lo, hi) /\ Ordered(w, lo, hi, M)
  BY <1>5, <1>8
<1>10. w \in Cells /\ Len(w) = Len(b.buf)
  BY <1>9 DEF Changed
<1>11. Sound(d) /\ d.offset = b.offset /\ d.buf = w
  BY <1>0, <1>8, <1>10 DEF Sound, Buffers
<1>12. PICK R \in Lists : Holds(w, lo, hi, R) /\ InOrder(R) /\ Same(R, M)
  BY <1>9 DEF Ordered
<1>13. Holds(w, padding, lo, A) /\ Holds(w, hi, b.offset, Z)
  <2>1. lo <= lo /\ hi <= hi
    BY <1>0
  <2>. QED  BY <1>0, <1>3, <1>4, <1>9, <2>1, HoldsAside
<1>14. Holds(w, lo, b.offset, R \o Z) /\ R \o Z \in Lists
  BY <1>4, <1>10, <1>12, <1>13, HoldsJoin
<1>. DEFINE Q == R \o Z
<1>. HIDE DEF Q
<1>15. Holds(w, padding, b.offset, A \o Q)
  BY <1>3, <1>10, <1>13, <1>14, HoldsJoin DEF Q
<1>16. SortsPart(L, A \o Q, i, j)
  BY <1>0, <1>1, <1>12, PutTogether DEF A, Q, Z, M
<1>. QED  BY <1>11, <1>15, <1>16

\* Contents is the list that the memory holds, now and in the next state.
LEMMA ContentsIs ==
    /\ \A L \in Lists : buffer.buf \in Cells /\ Holds(buffer.buf, padding, buffer.offset, L) => Contents = L
    /\ \A L \in Lists : buffer'.buf \in Cells /\ Holds(buffer'.buf, padding, buffer'.offset, L) => Contents' = L
<1>1. Contents = Reader(buffer.buf, buffer.offset)[padding]
  BY DEF Contents, Reader, IsReader
<1>2. Contents' = Reader(buffer'.buf, buffer'.offset)[padding]
  BY DEF Contents, Reader, IsReader
<1>. QED  BY <1>1, <1>2, ReaderIs

\* What Grow has noted when it panics
LEMMA NotedIs ==
    ASSUME NEW b, Sound(b), NEW n \in Nat
    PROVE  Noted(b, n) \in Buffers /\ Noted(b, n).buf = b.buf /\ Noted(b, n).offset = b.offset
<1>. DEFINE sz == b.curSz + GrowBy(b, n)
            t == IF autoMmapAfter > 0 /\ sz > autoMmapAfter THEN "UseMmap" ELSE b.type
<1>0. b \in Buffers /\ b.curSz \in Nat
  BY DEF Sound, Buffers
<1>1. sz \in Nat
  <2>1. b.curSz + n \in Nat /\ growLimit \in Nat
    BY <1>0, BufferConstants
  <2>2. GrowBy(b, n) \in Nat
    BY <2>1, MaxOfTwo, MinOfTwo DEF GrowBy
  <2>. QED  BY <1>0, <2>2
<1>2. Noted(b, n) = [b EXCEPT !.curSz = sz, !.type = t]
  BY DEF Noted
<1>. HIDE DEF sz
<1>3. t \in {"UseCalloc", "UseMmap"}
  BY <1>0 DEF Buffers
<1>. HIDE DEF t
<1>. QED  BY <1>0, <1>1, <1>2, <1>3 DEF Buffers

\* A step of SliceList from the list L to the list L2
ListMoves(L, L2) ==
    \/ \E s \in Slices : L2 = Append(L, s)
    \/ \E j \in 1..(Len(L) + 1) : \E i \in 1..(Len(L) + 1) : i < j /\ SortsPart(L, L2, i, j)
    \/ L2 = <<>>
    \/ L2 = L

\* The moves of the list are steps of SliceList.
LEMMA MovesAreSteps ==
    ASSUME NEW L \in Lists, Contents = L, NEW L2, Contents' = L2, ListMoves(L, L2)
    PROVE  [List!ListNext]_Contents
<1>0. Len(L) \in Nat
  BY ListsLen
<1>1. ASSUME NEW s \in Slices, L2 = Append(L, s) PROVE List!ListNext
  BY <1>1 DEF List!ListNext, List!WriteSlice
<1>2. ASSUME NEW j \in 1..(Len(L) + 1), NEW i \in 1..(Len(L) + 1), i < j, SortsPart(L, L2, i, j)
      PROVE  List!ListNext
  <2>0. /\ i \in Nat /\ j \in Nat /\ j - 1 \in 1..Len(L) /\ i \in 1..(j - 1) /\ 1 <= i /\ i <= j /\ j <= Len(L) + 1
    BY <1>0, <1>2
  <2>1. /\ L2 \in Lists /\ Len(L2) = Len(L)
        /\ InOrder(Part(L2, i, j)) /\ Same(Part(L2, i, j), Part(L, i, j))
        /\ \A p \in 1..Len(L) : p < i \/ j <= p => L2[p] = L[p]
    BY <1>2 DEF SortsPart
  <2>. DEFINE A == Part(L, i, j)
              B == Part(L2, i, j)
  <2>2. /\ A \in Lists /\ Len(A) = j - i /\ B \in Lists /\ Len(B) = j - i
        /\ \A k \in 1..(j - i) : B[k] = L2[k + (i - 1)]
    BY <2>0, <2>1, PartList
  <2>3. A = SubSeq(L, i, j - 1) /\ B = SubSeq(L2, i, j - 1)
    BY DEF Part
  <2>. HIDE DEF A, B
  <2>4. List!Permuted(A, B)
    <3>1. Len(A) = Len(B) /\ \A x : Times(x, B) = Times(x, A)
      BY <2>1 DEF Same, A, B
    <3>2. \A x : Cardinality({k \in 1..Len(A) : A[k] = x}) = Cardinality({k \in 1..Len(B) : B[k] = x})
      BY <3>1 DEF Times
    <3>3. Len(A) = Len(B) /\ \A k \in 1..Len(A) :
              Cardinality({l \in 1..Len(A) : A[l] = A[k]}) = Cardinality({l \in 1..Len(B) : B[l] = A[k]})
      BY <3>1, <3>2
    <3>. QED  BY <3>3 DEF List!Permuted, List!Cardinality, Cardinality
  <2>5. ASSUME NEW p \in i..(j - 1), NEW q \in i..(j - 1), p < q PROVE ~less(L2[q], L2[p])
    <3>. DEFINE k == p - (i - 1)
                l == q - (i - 1)
    <3>1. k \in 1..Len(B) /\ l \in 1..Len(B) /\ k < l /\ k + (i - 1) = p /\ l + (i - 1) = q /\ k \in 1..(j - i) /\ l \in 1..(j - i)
      BY <2>0, <2>2, <2>5
    <3>. HIDE DEF k, l
    <3>2. B[k] = L2[p] /\ B[l] = L2[q]
      BY <2>2, <3>1
    <3>3. ~less(B[l], B[k])
      BY <2>1, <3>1 DEF InOrder, B
    <3>. QED  BY <3>2, <3>3
  <2>6. ASSUME NEW p \in 1..Len(L) PROVE p \in i..(j - 1) \/ L2[p] = L[p]
    <3>1. p \in Nat /\ (p \in i..(j - 1) \/ p < i \/ j <= p)
      BY <1>0, <2>0
    <3>. QED  BY <2>1, <3>1
  <2>7. List!SortBetween(i, j - 1)
    BY <2>1, <2>3, <2>4, <2>5, <2>6 DEF List!SortBetween
  <2>. QED  BY <2>0, <2>7 DEF List!ListNext
<1>3. ASSUME L2 = <<>> PROVE List!ListNext
  BY <1>3 DEF List!ListNext, List!Reset
<1>4. ASSUME L2 = L PROVE UNCHANGED Contents
  BY <1>4
<1>. QED  BY <1>1, <1>2, <1>3, <1>4 DEF ListMoves

-----------------------------------------------------------------------------
(* The invariant *)

\* What holds of the memory whatever has happened, a panic of Grow included: the used
\* part ends within it, and holds slices.
MemoryOK ==
    /\ buffer \in Buffers /\ buffer.offset < Len(buffer.buf)
    /\ \E L \in Lists : Holds(buffer.buf, padding, buffer.offset, L)

BufferInv == panicked \in BOOLEAN /\ released \in BOOLEAN /\ MemoryOK /\ RoomKept

\* A new buffer holds the empty list.
LEMMA InvInit == BufferInit => BufferInv /\ Contents = <<>>
<1>. SUFFICES ASSUME BufferInit PROVE BufferInv /\ Contents = <<>>
  OBVIOUS
<1>1. panicked = FALSE /\ released = FALSE
  BY DEF BufferInit
<1>2. PICK capacity \in Capacities : buffer = NewBuffer(capacity) \/ buffer = NewBufferTmp(capacity)
  BY DEF BufferInit
<1>3. capacity \in Nat
  BY BufferConstants
<1>4. Sound(buffer) /\ buffer.offset = padding
  BY <1>2, <1>3, FreshSound DEF NewBuffer, NewBufferTmp
<1>5. buffer \in Buffers /\ buffer.buf \in Cells /\ padding \in Nat /\ padding <= Len(buffer.buf) /\ buffer.offset < Len(buffer.buf)
  BY <1>4 DEF Sound, Buffers, padding
<1>6. Holds(buffer.buf, padding, buffer.offset, <<>>) /\ <<>> \in Lists
  BY <1>4, <1>5, HoldsEmpty
<1>7. Contents = <<>>
  BY <1>5, <1>6, ContentsIs
<1>8. RoomKept
  BY <1>1, <1>4 DEF RoomKept, Sound
<1>. QED  BY <1>1, <1>5, <1>6, <1>7, <1>8 DEF BufferInv, MemoryOK

\* In use, the buffer is sound, and its slices lie behind each other up to the offset.
LEMMA InUseIs ==
    ASSUME BufferInv, InUse
    PROVE  Sound(buffer) /\ released = FALSE /\ panicked = FALSE
BY DEF BufferInv, MemoryOK, InUse, RoomKept, Sound

\* The buffer after a step holds L2 and is sound, unless the step is the last.
After(L2) ==
    /\ Sound(buffer') /\ UNCHANGED <<panicked, released>>
    /\ L2 \in Lists /\ Holds(buffer'.buf, padding, buffer'.offset, L2)

\* The invariant holds of a buffer that holds a list again.
LEMMA NextInv ==
    ASSUME BufferInv, InUse, NEW L2, After(L2)
    PROVE  BufferInv' /\ Contents' = L2
<1>1. panicked = FALSE /\ released = FALSE /\ panicked' = FALSE /\ released' = FALSE
  BY InUseIs DEF After
<1>2. /\ Sound(buffer') /\ L2 \in Lists /\ Holds(buffer'.buf, padding, buffer'.offset, L2)
  BY DEF After
<1>3. /\ buffer' \in Buffers /\ buffer'.buf \in Cells /\ buffer'.offset < Len(buffer'.buf)
      /\ buffer'.offset < buffer'.curSz /\ Len(buffer'.buf) = buffer'.curSz /\ buffer'.held = buffer'.type
  BY <1>2 DEF Sound, Buffers
<1>4. Contents' = L2
  BY <1>2, <1>3, ContentsIs
<1>5. RoomKept'
  BY <1>1, <1>3 DEF RoomKept
<1>. QED  BY <1>1, <1>2, <1>3, <1>4, <1>5 DEF BufferInv, MemoryOK

\* The memory of the buffer stays as it is.
LEMMA SameMemory ==
    ASSUME BufferInv, panicked' \in BOOLEAN, released' \in BOOLEAN, RoomKept',
           buffer' \in Buffers, buffer'.buf = buffer.buf, buffer'.offset = buffer.offset,
           NEW L \in Lists, Holds(buffer.buf, padding, buffer.offset, L)
    PROVE  BufferInv' /\ Contents' = L
<1>1. buffer'.buf \in Cells
  BY DEF Buffers
<1>2. Holds(buffer'.buf, padding, buffer'.offset, L)
  OBVIOUS
<1>3. Contents' = L
  BY <1>1, <1>2, ContentsIs
<1>. QED  BY <1>2, <1>3 DEF BufferInv, MemoryOK

\* A sort of the buffer sorts a part of its list.
LEMMA SortKeepsList ==
    ASSUME BufferInv, InUse, NEW L \in Lists, Holds(buffer.buf, padding, buffer.offset, L),
           NEW start \in Range(SliceOffsets(buffer)),
           NEW end \in Range(SliceOffsets(buffer)) \cup {buffer.offset}, DoSort(start, end)
    PROVE  \E L2 : After(L2) /\ ListMoves(L, L2)
<1>0. Sound(buffer) /\ buffer' \in SortSliceBetween(buffer, start, end) /\ UNCHANGED <<panicked, released>>
  BY InUseIs DEF DoSort
<1>1. PICK o : At(buffer.buf, o, L) /\ o[1] = padding /\ o[Len(L) + 1] = buffer.offset
  BY DEF Holds
<1>2. Slicing(buffer, o, L)
  <2>1. buffer.buf \in Cells /\ buffer.offset \in Nat /\ buffer.offset <= Len(buffer.buf)
    BY <1>0 DEF Sound, Buffers
  <2>. QED  BY <1>1, <2>1 DEF Slicing, Located, Usable
<1>3. /\ Len(L) \in Nat /\ Range(SliceOffsets(buffer)) \subseteq {o[i] : i \in 1..(Len(L) + 1)}
      /\ (\A i \in 1..(Len(L) + 1) : o[i] \in Nat)
      /\ \A i, j \in 1..(Len(L) + 1) : i < j => o[i] < o[j]
  BY <1>2, SlicingFacts, SliceOffsetsAre
<1>4. PICK i \in 1..(Len(L) + 1) : start = o[i]
  BY <1>3
<1>5. PICK j \in 1..(Len(L) + 1) : end = o[j]
  <2>1. Len(L) + 1 \in 1..(Len(L) + 1)
    BY <1>3
  <2>. QED  BY <1>1, <1>3, <2>1
<1>6. CASE i < j
  <2>1. PICK L2 : SortsPart(L, L2, i, j) /\ Holds(buffer'.buf, padding, buffer'.offset, L2)
    BY <1>0, <1>2, <1>4, <1>5, <1>6, SortKeeps
  <2>2. Sound(buffer')
    BY <1>0, <1>2, <1>4, <1>5, <1>6, SortKeeps
  <2>3. After(L2)
    BY <1>0, <2>1, <2>2 DEF After, SortsPart
  <2>. QED  BY <1>6, <2>1, <2>3 DEF ListMoves
<1>7. CASE ~(i < j)
  <2>1. o[j] <= o[i]
    <3>1. i \in Nat /\ j \in Nat /\ (j = i \/ j < i)
      BY <1>3, <1>7
    <3>2. o[i] \in Nat /\ o[j] \in Nat
      BY <1>3
    <3>. QED  BY <1>3, <3>1, <3>2
  <2>2. start >= end
    BY <1>3, <1>4, <1>5, <2>1
  <2>3. buffer' = buffer
    BY <1>0, <2>2 DEF SortSliceBetween
  <2>4. After(L)
    BY <1>0, <2>3 DEF After
  <2>. QED  BY <2>4 DEF ListMoves
<1>. QED  BY <1>6, <1>7

\* Every step keeps the invariant and is a step of the list.
LEMMA InvStep ==
    ASSUME BufferInv, [BufferNext]_bufferVars
    PROVE  BufferInv' /\ [List!ListNext]_Contents
<1>0. PICK L \in Lists : Holds(buffer.buf, padding, buffer.offset, L)
  BY DEF BufferInv, MemoryOK
<1>1. Contents = L /\ buffer \in Buffers /\ buffer.buf \in Cells /\ panicked \in BOOLEAN /\ released \in BOOLEAN
  BY <1>0, ContentsIs DEF BufferInv, MemoryOK, Buffers
<1>. SUFFICES \E L2 : BufferInv' /\ Contents' = L2 /\ ListMoves(L, L2)
  BY <1>1, MovesAreSteps
<1>2. ASSUME InUse, NEW L2, After(L2), ListMoves(L, L2)
      PROVE  \E L3 : BufferInv' /\ Contents' = L3 /\ ListMoves(L, L3)
  BY <1>2, NextInv
<1>3. ASSUME NEW s \in Slices, WriteSlice(s) PROVE \E L2 : BufferInv' /\ Contents' = L2 /\ ListMoves(L, L2)
  <2>1. InUse /\ buffer' = Written(buffer, s) /\ UNCHANGED <<panicked, released>>
    BY <1>3 DEF WriteSlice
  <2>2. Sound(buffer)
    BY <2>1, InUseIs
  <2>3. After(Append(L, s))
    BY <1>0, <2>1, <2>2, WrittenHolds DEF After
  <2>4. ListMoves(L, Append(L, s))
    BY DEF ListMoves
  <2>. QED  BY <1>2, <2>1, <2>3, <2>4
<1>4. ASSUME buffer'.buf = buffer.buf, buffer'.offset = buffer.offset, buffer' \in Buffers,
             panicked' \in BOOLEAN, released' \in BOOLEAN, RoomKept'
      PROVE  \E L2 : BufferInv' /\ Contents' = L2 /\ ListMoves(L, L2)
  <2>1. BufferInv' /\ Contents' = L
    BY <1>0, <1>4, SameMemory
  <2>. QED  BY <2>1 DEF ListMoves
<1>5. ASSUME NEW s \in Slices, WritePanics(s) PROVE \E L2 : BufferInv' /\ Contents' = L2 /\ ListMoves(L, L2)
  <2>1. InUse /\ panicked' = TRUE /\ released' = released
    BY <1>5 DEF WritePanics
  <2>2. Sound(buffer) /\ 1 + Len(s) \in Nat
    BY <2>1, InUseIs, SliceType
  <2>3. buffer' = buffer \/ buffer' = Noted(buffer, 1 + Len(s))
    BY <1>5 DEF WritePanics
  <2>4. buffer' \in Buffers /\ buffer'.buf = buffer.buf /\ buffer'.offset = buffer.offset
    BY <1>1, <2>2, <2>3, NotedIs
  <2>5. RoomKept'
    BY <2>1 DEF RoomKept
  <2>. QED  BY <1>1, <1>4, <2>1, <2>4, <2>5
<1>6. ASSUME NEW start \in Range(SliceOffsets(buffer)),
             NEW end \in Range(SliceOffsets(buffer)) \cup {buffer.offset}, DoSort(start, end)
      PROVE  \E L2 : BufferInv' /\ Contents' = L2 /\ ListMoves(L, L2)
  <2>1. InUse
    BY <1>6 DEF DoSort
  <2>2. PICK L2 : After(L2) /\ ListMoves(L, L2)
    BY <1>0, <1>6, <2>1, SortKeepsList
  <2>. QED  BY <1>2, <2>1, <2>2
<1>7. ASSUME Reset PROVE \E L2 : BufferInv' /\ Contents' = L2 /\ ListMoves(L, L2)
  <2>1. InUse /\ buffer' = [buffer EXCEPT !.offset = padding] /\ UNCHANGED <<panicked, released>>
    BY <1>7 DEF Reset, Emptied
  <2>2. Sound(buffer) /\ padding <= buffer.offset /\ padding \in Nat
    <3>1. Len(buffer.buf) \in Nat
      BY <1>1, CellsLen
    <3>. QED  BY <1>0, <2>1, <3>1, InUseIs, HoldsBounds
  <2>3. Sound(buffer') /\ buffer'.buf = buffer.buf /\ buffer'.offset = padding /\ padding <= Len(buffer.buf)
    BY <2>1, <2>2 DEF Sound, Buffers
  <2>4. Holds(buffer'.buf, padding, buffer'.offset, <<>>) /\ <<>> \in Lists
    BY <1>1, <2>2, <2>3, HoldsEmpty
  <2>5. After(<<>>)
    BY <2>1, <2>3, <2>4 DEF After
  <2>6. ListMoves(L, <<>>)
    BY DEF ListMoves
  <2>. QED  BY <1>2, <2>1, <2>5, <2>6
<1>8. ASSUME Release PROVE \E L2 : BufferInv' /\ Contents' = L2 /\ ListMoves(L, L2)
  <2>1. /\ released = FALSE /\ released' = TRUE /\ panicked' = panicked
        /\ buffer' = [buffer EXCEPT !.held = IF @ = buffer.type THEN "nothing" ELSE @]
    BY <1>1, <1>8 DEF Release
  <2>2. /\ buffer' \in Buffers /\ buffer'.buf = buffer.buf /\ buffer'.offset = buffer.offset
        /\ buffer'.curSz = buffer.curSz /\ (buffer.held = buffer.type => buffer'.held = "nothing")
    BY <1>1, <2>1 DEF Buffers
  <2>3. RoomKept'
    BY <2>1, <2>2 DEF BufferInv, RoomKept
  <2>. QED  BY <1>1, <1>4, <2>1, <2>2, <2>3
<1>9. CASE UNCHANGED bufferVars
  <2>1. buffer' = buffer /\ panicked' = panicked /\ released' = released
    BY <1>9 DEF bufferVars
  <2>2. RoomKept'
    BY <2>1 DEF BufferInv, RoomKept
  <2>. QED  BY <1>1, <1>4, <2>1, <2>2
<1>. QED  BY <1>3, <1>5, <1>6, <1>7, <1>8, <1>9 DEF BufferNext

\* The invariant of the buffer holds throughout.
LEMMA BufferInvHolds == BufferSpec => []BufferInv
<1>1. BufferInit => BufferInv
  BY InvInit
<1>2. BufferInv /\ [BufferNext]_bufferVars => BufferInv'
  BY InvStep
<1>. QED  BY <1>1, <1>2, PTL DEF BufferSpec

\* The memory that the buffer has noted is there, with room past the last slice and of
\* the kind Release gives back, for every capacity, limit and sequence of calls: Grow
\* always makes room for what Write and SliceAllocate then use, and sorting in place
\* never writes past the range.
THEOREM BufferRoom == BufferSpec => []RoomKept
<1>1. BufferInv => RoomKept
  BY DEF BufferInv
<1>. QED  BY <1>1, BufferInvHolds, PTL

\* SliceIterate and SliceOffsets meet every slice of any list a buffer can hold, whatever
\* an earlier use of the memory has left behind it.
THEOREM BufferIterates == BufferSpec => []IterateMeetsAll
<1>1. BufferInv => IterateMeetsAll
  <2>. SUFFICES ASSUME BufferInv PROVE IterateMeetsAll
    OBVIOUS
  <2>1. PICK L \in Lists : Holds(buffer.buf, padding, buffer.offset, L)
    BY DEF BufferInv, MemoryOK
  <2>2. buffer.buf \in Cells /\ buffer.offset \in Nat /\ buffer.offset <= Len(buffer.buf)
    BY CellsLen DEF BufferInv, MemoryOK, Buffers
  <2>3. Contents = L
    BY <2>1, <2>2, ContentsIs
  <2>4. PICK o : At(buffer.buf, o, L) /\ o[1] = padding /\ o[Len(L) + 1] = buffer.offset
    BY <2>1 DEF Holds
  <2>5. Slicing(buffer, o, L)
    BY <2>2, <2>4 DEF Slicing, Located, Usable
  <2>6. SliceIterate(buffer) = NonEmpty(L)
    BY <2>5, IterateIs
  <2>7. ASSUME L # <<>>
        PROVE  L = [i \in DOMAIN SliceOffsets(buffer) |-> Slice(buffer, SliceOffsets(buffer)[i]).slice]
    <3>1. SliceOffsets(buffer) = [k \in 1..Len(L) |-> o[k]]
      BY <2>5, <2>7, SliceOffsetsAre
    <3>2. \A k \in 1..Len(L) : Slice(buffer, o[k]).slice = L[k]
      BY <2>5, SliceAt DEF Slicing
    <3>3. L = [k \in 1..Len(L) |-> L[k]]
      BY DEF Lists
    <3>. QED  BY <3>1, <3>2, <3>3
  <2>. QED  BY <2>3, <2>6, <2>7 DEF IterateMeetsAll
<1>. QED  BY <1>1, BufferInvHolds, PTL

\* A buffer is the list of the slices written to it: growth, the switch to a file, and the
\* rewriting of chunks and merging of runs in place by SortSliceBetween are steps of
\* SliceList, for any slices, any strict weak order and any chunk size.
THEOREM BufferIsList == BufferSpec => BufferImplementsList
<1>1. BufferInit => List!ListInit
  BY InvInit DEF List!ListInit
<1>2. BufferInv /\ [BufferNext]_bufferVars => [List!ListNext]_Contents
  BY InvStep
<1>. QED  BY <1>1, <1>2, BufferInvHolds, PTL DEF BufferSpec, BufferImplementsList, List!ListSpec
=============================================================================
