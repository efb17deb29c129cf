-------------------------- MODULE AllocatorProofs --------------------------
(***************************************************************************)
(* Allocators and their pool, for any number of goroutines, allocators and *)
(* buffers and any sizes that AllocatorConstants, PowerOfTwo and           *)
(* RequestsFit admit: no byte is handed out twice, none is freed under its *)
(* user, the position never overflows, and nothing leaks.                  *)
(***************************************************************************)
EXTENDS AllocatorPool, SequenceTheorems, SumTheorems, TLAPS

-----------------------------------------------------------------------------
(* The invariant *)

\* A goroutine that has added to compIdx and not yet got its slice
Claimed == {"look", "lock", "grow", "store"}
Growing == {"grow", "store"}

PoolTypeOK ==
    /\ compIdx \in [Refs -> [buf : BufIdx, pos : Nat]]
    /\ buffers \in [Refs -> [BufIdx -> 0..MaxAlloc]]
    /\ mutex \in [Refs -> Goroutines \cup {NoOne}]
    /\ allocRef \in 0..MaxRefs
    /\ allocs \subseteq 1..allocRef
    /\ held \subseteq allocs
    /\ pc \in [Goroutines -> Inside \cup {"idle", "get", "wait"}]
    /\ call \in [Goroutines -> [id : Nat, ref : Refs, sz : Nat, aligned : BOOLEAN,
                                buf : BufIdx, pos : Nat]]
    /\ given \subseteq [id : Nat, ref : Refs, buf : BufIdx, from : Nat, to : Nat]
    /\ live \in [Refs -> [BufIdx -> Int]]
    /\ calls \in Nat
    /\ allocCh \in Seq(Refs)

\* A call is on an allocator that its user holds, and what it claimed lies below
\* compIdx.  Whoever adds a buffer holds the lock, and nobody else goes on to
\* another buffer meanwhile.
CallOK(g) ==
    LET c == call[g] IN
    /\ pc[g] \in Inside =>
          c.ref \in held /\ c.sz \in 1..MaxRequest /\ (c.aligned => NodeAlign < c.sz)
    /\ pc[g] \in Claimed =>
          /\ c.sz <= c.pos
          /\ c.buf <= compIdx[c.ref].buf
          /\ c.buf = compIdx[c.ref].buf => c.pos <= compIdx[c.ref].pos
    /\ pc[g] \in Growing => mutex[c.ref] = g /\ c.buf = compIdx[c.ref].buf
    /\ pc[g] = "store" => c.buf + 1 \in BufIdx

CallsOK == \A g \in Goroutines : CallOK(g)

\* Slices that were handed out lie below compIdx too.
SlicesBelow ==
    \A r \in given :
        /\ r.buf <= compIdx[r.ref].buf
        /\ r.buf = compIdx[r.ref].buf => r.to <= compIdx[r.ref].pos

\* Claims that may still become slices have no byte in common, nor with slices.
ClaimsApart ==
    /\ \A g, h \in Goroutines :
          /\ g # h /\ pc[g] = "look" /\ pc[h] = "look"
          /\ call[g].ref = call[h].ref /\ call[g].buf = call[h].buf
          => \/ call[g].pos <= call[h].pos - call[h].sz
             \/ call[h].pos <= call[g].pos - call[g].sz
    /\ \A g \in Goroutines, r \in given :
          pc[g] = "look" /\ call[g].ref = r.ref /\ call[g].buf = r.buf
          => call[g].pos <= r.from \/ r.to <= call[g].pos - call[g].sz

\* Who has an allocator: its user, the channel or nobody
Owned ==
    /\ Range(allocCh) \subseteq allocs /\ Range(allocCh) \cap held = {}
    /\ IsInjective(allocCh)
    /\ ~panicked => allocs = held \cup Range(allocCh)
    /\ \A a \in Refs : a > allocRef => compIdx[a] = Zero
    /\ fp \in {"drain", "done"} => chClosed
    /\ fp = "done" => allocCh = <<>>

\* No buffer follows a nil one.
Prefix(bs) == \A i, j \in BufIdx : i < j /\ bs[i] = 0 => bs[j] = 0
Prefixes == \A a \in Refs : Prefix(buffers[a])

\* The calls that have added to the position of a and found no room.  Each of them
\* adds once, so that they bound the position.
Over(a) ==
    {g \in Goroutines :
        /\ pc[g] \in Claimed /\ call[g].ref = a /\ call[g].buf = compIdx[a].buf
        /\ call[g].pos > buffers[a][call[g].buf]}
PosBound ==
    \A a \in held :
        compIdx[a].pos <= buffers[a][compIdx[a].buf] + MaxRequest * Cardinality(Over(a))

\* The first half of NoLeak.  The second follows from Owned.  Each buffer that is there
\* was made once more often than freed, and the others as often.
Intact(mem, bs) == \A i \in BufIdx : mem[i] = IF bs[i] # 0 THEN 1 ELSE 0
GivenBack(mem) == \A i \in BufIdx : mem[i] = 0
Balanced ==
    \A a \in Refs :
        /\ a \in allocs => Intact(live[a], buffers[a])
        /\ a \notin allocs => GivenBack(live[a])

PoolInv ==
    /\ PoolTypeOK /\ CallsOK /\ Owned
    /\ SlicesBelow /\ ClaimsApart /\ NoOverlap /\ HeldIntact
    /\ Prefixes /\ Balanced
    /\ PosBound /\ NoCarry

-----------------------------------------------------------------------------
(* Powers of two, counted as subsets *)

\* Powers of two count subsets.
LEMMA PowerCounts ==
    ASSUME NEW n \in Nat
    PROVE  2^n = Cardinality(SUBSET (1..n)) /\ IsFiniteSet(SUBSET (1..n)) /\ 2^n \in Nat
<1>1. IsFiniteSet(1..n) /\ Cardinality(1..n) = n
  BY FS_Interval
<1>2. IsFiniteSet(SUBSET (1..n)) /\ Cardinality(SUBSET (1..n)) = 2^Cardinality(1..n)
  BY <1>1, FS_SUBSET
<1>. QED  BY <1>1, <1>2, FS_CardinalityType

\* They increase with the exponent.
LEMMA PowerMonotone ==
    ASSUME NEW n \in Nat, NEW m \in Nat, n < m
    PROVE  2^n < 2^m
<1>. DEFINE A == SUBSET (1..n)  B == SUBSET (1..m)
<1>1. A \subseteq B /\ m \in 1..m /\ m \notin 1..n
  OBVIOUS
<1>2. {m} \in B /\ {m} \notin A
  BY <1>1
<1>3. A # B
  BY <1>2
<1>4. IsFiniteSet(B) /\ 2^n = Cardinality(A) /\ 2^m = Cardinality(B) /\ 2^n \in Nat /\ 2^m \in Nat
  BY PowerCounts
<1>. HIDE DEF A, B
<1>5. Cardinality(A) <= Cardinality(B) /\ (Cardinality(B) = Cardinality(A) => B = A)
  BY <1>1, <1>4, FS_Subset
<1>. QED  BY <1>3, <1>4, <1>5

\* The first one is 1.
LEMMA PowerZero == 2^0 = 1
<1>1. SUBSET (1..0) = {{}}
  OBVIOUS
<1>. QED  BY <1>1, PowerCounts, FS_Singleton

-----------------------------------------------------------------------------
(* Page sizes *)

\* Every number is below some power of two.
LEMMA PowerExceeds == ASSUME NEW n \in Nat PROVE n < 2^n
<1>. DEFINE Bad == {k \in Nat : ~(k < 2^k)}
<1>. SUFFICES ASSUME Bad # {} PROVE FALSE
  BY PowerCounts
<1>1. PICK k \in Bad : \A l \in Bad : k <= l
  <2>1. Bad \subseteq Nat
    OBVIOUS
  <2>. HIDE DEF Bad
  <2>. QED  BY <2>1, LeastNat
<1>2. k \in Nat /\ ~(k < 2^k) /\ 2^k \in Nat
  BY PowerCounts
<1>3. k # 0
  <2>1. k = 0 => 2^k = 1
    BY PowerZero
  <2>. QED  BY <1>2, <2>1
<1>4. k - 1 \in Nat /\ k - 1 < k /\ k - 1 < 2^(k - 1) /\ 2^(k - 1) \in Nat
  <2>1. k - 1 \in Nat /\ k - 1 < k
    BY <1>2, <1>3
  <2>2. k - 1 \notin Bad
    BY <1>1, <1>2, <2>1
  <2>3. 2^(k - 1) \in Nat
    BY <2>1, PowerCounts
  <2>. QED  BY <2>1, <2>2, <2>3
<1>5. 2^(k - 1) < 2^k
  BY <1>2, <1>4, PowerMonotone
<1>. QED  BY <1>2, <1>4, <1>5

\* log2 is what its name says.
LEMMA LogBounds ==
    ASSUME NEW sz \in Nat \ {0}
    PROVE  log2(sz) \in Nat /\ 2^log2(sz) <= sz /\ sz < 2^(log2(sz) + 1)
<1>. DEFINE B == {l \in Nat : sz < 2^(l + 1)}
<1>1. PICK l \in B : \A m \in B : l <= m
  <2>1. sz < 2^sz /\ 2^sz < 2^(sz + 1) /\ 2^sz \in Nat /\ 2^(sz + 1) \in Nat
    BY PowerExceeds, PowerMonotone, PowerCounts
  <2>2. B \subseteq Nat /\ sz \in B
    BY <2>1
  <2>. HIDE DEF B
  <2>. QED  BY <2>2, LeastNat
<1>2. l \in Nat /\ sz < 2^(l + 1) /\ 2^l \in Nat /\ l < 2^l
  BY PowerCounts, PowerExceeds
<1>3. 2^l <= sz
  <2>1. CASE l = 0
    BY <2>1, PowerZero
  <2>2. CASE l # 0
    <3>1. l - 1 \in Nat /\ l - 1 \notin B /\ (l - 1) + 1 = l
      BY <1>1, <1>2, <2>2
    <3>. QED  BY <1>2, <3>1
  <2>. QED  BY <2>1, <2>2
<1>4. \E m \in 0..sz : 2^m <= sz /\ sz < 2^(m + 1)
  BY <1>2, <1>3
<1>. QED  BY <1>4 DEF log2

\* NewAllocator's first buffer is within maxAlloc.
LEMMA FirstPageFits ==
    ASSUME NEW sz \in NewSizes
    PROVE  FirstPage(sz) \in 1..MaxAlloc
<1>. DEFINE s == IF sz < MinPage THEN MinPage ELSE sz
            l == log2(s)
<1>1. s \in Nat \ {0} /\ s <= MaxAlloc
  BY AllocatorConstants, PowerOfTwo
<1>2. PICK n \in Nat : MaxAlloc = 2^n
  BY PowerOfTwo
<1>. HIDE DEF s
<1>3. l \in Nat /\ 2^l <= s /\ s < 2^(l + 1) /\ 2^l \in Nat /\ 2^(l + 1) \in Nat
  <2>1. l \in Nat /\ 2^l <= s /\ s < 2^(l + 1)
    BY <1>1, LogBounds
  <2>2. l + 1 \in Nat
    BY <2>1
  <2>. HIDE DEF l
  <2>. QED  BY <2>1, <2>2, PowerCounts
<1>. HIDE DEF l
<1>4. CASE 2^l = s
  <2>1. FirstPage(sz) = 2^l
    BY <1>4 DEF FirstPage, l, s
  <2>. QED  BY <1>1, <1>3, <1>4, <2>1, AllocatorConstants
<1>5. CASE 2^l # s
  <2>1. FirstPage(sz) = 2^(l + 1)
    BY <1>5 DEF FirstPage, l, s
  <2>2. l < n
    <3>1. SUFFICES ASSUME n < l \/ n = l PROVE FALSE
      BY <1>3
    <3>2. n < l => 2^n < 2^l
      BY <1>3, PowerMonotone
    <3>3. 2^n <= 2^l
      BY <1>3, <3>1, <3>2, PowerCounts
    <3>. QED  BY <1>1, <1>2, <1>3, <1>5, <3>3
  <2>3. l + 1 < n => 2^(l + 1) < 2^n
    BY <1>3, PowerMonotone
  <2>4. 2^(l + 1) <= MaxAlloc
    BY <1>2, <1>3, <2>2, <2>3
  <2>. QED  BY <1>1, <1>3, <2>1, <2>4, AllocatorConstants
<1>. QED  BY <1>4, <1>5

\* So is the buffer that addBufferAt adds.
LEMMA NextPageFits ==
    ASSUME NEW size \in Nat \ {0}, NEW minSz \in Nat \ {0}
    PROVE  NextPage(size, minSz) \in 1..MaxAlloc
<1>. DEFINE enough == {s \in {size * 2^k : k \in 1..(minSz + 1)} : minSz <= s}
<1>1. enough \subseteq Nat
  BY PowerCounts
<1>2. enough # {}
  <2>. DEFINE p == 2^(minSz + 1)
  <2>1. p \in Nat /\ minSz + 1 < p
    BY PowerCounts, PowerExceeds
  <2>2. size * p >= p
    <3>. HIDE DEF p
    <3>. QED  BY <2>1
  <2>3. minSz <= size * p /\ minSz + 1 \in 1..(minSz + 1)
    <3>. HIDE DEF p
    <3>. QED  BY <2>1, <2>2
  <2>4. size * p \in enough
    BY <2>3
  <2>. QED  BY <2>4
<1>3. \A s \in enough : minSz <= s
  OBVIOUS
<1>. DEFINE page == CHOOSE s \in enough : \A t \in enough : s <= t
<1>4. NextPage(size, minSz) = IF page > MaxAlloc THEN MaxAlloc ELSE page
  BY DEF NextPage
<1>5. page \in enough
  <2>. HIDE DEF enough
  <2>. QED  BY <1>1, <1>2, LeastNat
<1>. HIDE DEF page, enough
<1>. QED  BY <1>1, <1>3, <1>4, <1>5, AllocatorConstants

\* The aligned part of a claim lies inside it.
LEMMA AlignStays ==
    ASSUME NEW x \in Nat
    PROVE  AlignUp(x) \in Nat /\ x <= AlignUp(x) /\ AlignUp(x) <= x + NodeAlign
<1>. DEFINE d == NodeAlign + 1
            q == (x + NodeAlign) \div d
            r == (x + NodeAlign) % d
<1>1. d \in Nat \ {0} /\ x + NodeAlign \in Nat
  BY AllocatorConstants
<1>2. q \in Nat /\ r \in Nat /\ r < d /\ x + NodeAlign = d * q + r
  BY <1>1
<1>3. AlignUp(x) = q * d
  BY DEF AlignUp
<1>. HIDE DEF q, r, d
<1>4. q * d \in Nat /\ q * d = d * q
  BY <1>1, <1>2
<1>. USE DEF d
<1>. QED  BY <1>1, <1>2, <1>3, <1>4, AllocatorConstants

\* Release visits every buffer, since none follows a nil one.
LEMMA VisitedAll ==
    ASSUME NEW bs \in [BufIdx -> 0..MaxAlloc], Prefix(bs), NEW i \in BufIdx, bs[i] # 0
    PROVE  i \in Visited(bs)
<1>1. ASSUME NEW j \in 0..i PROVE bs[j] # 0
  <2>1. j \in BufIdx /\ (j = i \/ j < i)
    BY AllocatorConstants DEF BufIdx
  <2>. QED  BY <2>1 DEF Prefix
<1>. QED  BY <1>1 DEF Visited

\* What TrimTo leaves are buffers without a gap.
LEMMA TrimKeeps ==
    ASSUME NEW bs \in [BufIdx -> 0..MaxAlloc], Prefix(bs)
    PROVE  /\ TrimTo(bs, TrimMax) \in [BufIdx -> 0..MaxAlloc]
           /\ Prefix(TrimTo(bs, TrimMax))
<1>. DEFINE ts == TrimTo(bs, TrimMax)
<1>1. ts \in [BufIdx -> 0..MaxAlloc]
  BY AllocatorConstants DEF TrimTo
<1>2. ASSUME NEW i \in BufIdx, NEW j \in BufIdx, i < j, ts[i] = 0 PROVE ts[j] = 0
  <2>0. i \in Int /\ j \in Int /\ 0 \in Int
    BY AllocatorConstants DEF BufIdx
  <2>1. CASE bs[j] = 0
    BY <2>1 DEF TrimTo
  <2>2. CASE bs[j] # 0
    <3>1. bs[i] # 0
      BY <1>2, <2>2 DEF Prefix
    <3>2. i \in Visited(bs) /\ Cumulated(bs, i) >= TrimMax
      BY <1>2, <3>1 DEF TrimTo, Trimmed
    <3>3. j \in Visited(bs)
      BY <2>2, VisitedAll
    <3>4. Cumulated(bs, i) <= Cumulated(bs, j)
      <4>1. IsFiniteSet(0..j) /\ 0..i \in SUBSET (0..j)
        BY <1>2, <2>0, FS_Interval
      <4>2. \A x \in 0..j : bs[x] \in Nat
        BY AllocatorConstants DEF BufIdx
      <4>. QED  BY <4>1, <4>2, SumSubset DEF Cumulated
    <3>5. Cumulated(bs, i) \in Int /\ Cumulated(bs, j) \in Int
      <4>1. IsFiniteSet(0..i) /\ IsFiniteSet(0..j)
        BY <2>0, FS_Interval
      <4>2. \A x \in 0..i : bs[x] \in Int
        BY AllocatorConstants DEF BufIdx
      <4>3. \A x \in 0..j : bs[x] \in Int
        BY AllocatorConstants DEF BufIdx
      <4>. QED  BY <4>1, <4>2, <4>3, SumType DEF Cumulated
    <3>6. Cumulated(bs, j) >= TrimMax
      BY <3>2, <3>4, <3>5, PoolConstants
    <3>. QED  BY <3>3, <3>6 DEF TrimTo, Trimmed
  <2>. QED  BY <2>1, <2>2
<1>. QED  BY <1>1, <1>2 DEF Prefix

\* After that all is given back.
LEMMA FreeVisited ==
    ASSUME NEW bs \in [BufIdx -> 0..MaxAlloc], Prefix(bs),
           NEW mem \in [BufIdx -> Int], Intact(mem, bs)
    PROVE  Free(mem, Visited(bs)) \in [BufIdx -> Int] /\ GivenBack(Free(mem, Visited(bs)))
<1>1. ASSUME NEW i \in BufIdx PROVE i \in Visited(bs) <=> bs[i] # 0
  <2>1. i \in 0..i
    BY AllocatorConstants DEF BufIdx
  <2>. QED  BY <2>1, VisitedAll DEF Visited
<1>2. Free(mem, Visited(bs)) \in [BufIdx -> Int]
  BY DEF Free
<1>. QED  BY <1>1, <1>2 DEF Free, Intact, GivenBack

\* TrimTo frees what it sets to nil.
LEMMA FreeTrimmed ==
    ASSUME NEW bs \in [BufIdx -> 0..MaxAlloc],
           NEW mem \in [BufIdx -> Int], Intact(mem, bs)
    PROVE  LET left == Free(mem, Trimmed(bs, TrimMax))
           IN  left \in [BufIdx -> Int] /\ Intact(left, TrimTo(bs, TrimMax))
<1>. DEFINE left == Free(mem, Trimmed(bs, TrimMax))
            ts == TrimTo(bs, TrimMax)
<1>1. ASSUME NEW i \in BufIdx, i \in Trimmed(bs, TrimMax) PROVE bs[i] # 0
  <2>1. i \in 0..i
    BY AllocatorConstants DEF BufIdx
  <2>. QED  BY <1>1, <2>1 DEF Trimmed, Visited
<1>2. left \in [BufIdx -> Int]
  BY DEF Free
<1>3. ASSUME NEW i \in BufIdx PROVE left[i] = IF ts[i] # 0 THEN 1 ELSE 0
  BY <1>1 DEF Free, TrimTo, Intact
<1>. QED  BY <1>2, <1>3 DEF Intact

\* How far the position goes when the calls of os have found no room
LEMMA RoomForAll ==
    ASSUME RequestsFit, NEW p \in Nat, NEW b \in 0..MaxAlloc, NEW os \in SUBSET Goroutines,
           p <= b + MaxRequest * Cardinality(os)
    PROVE  p + MaxRequest < PosWord
<1>1. IsFiniteSet(os) /\ Cardinality(os) <= Cardinality(Goroutines)
  BY AllocatorConstants, FS_Subset
<1>2. Cardinality(os) \in Nat /\ Cardinality(Goroutines) \in Nat
  BY <1>1, AllocatorConstants, FS_CardinalityType
<1>. DEFINE c == Cardinality(os)  n == Cardinality(Goroutines)
<1>3. MaxRequest * c <= MaxRequest * n /\ (n + 1) * MaxRequest = MaxRequest * n + MaxRequest
  <2>1. c \in Nat /\ n \in Nat /\ c <= n /\ MaxRequest \in Nat
    BY <1>1, <1>2, AllocatorConstants
  <2>. HIDE DEF c, n
  <2>. QED  BY <2>1
<1>4. MaxAlloc + (n + 1) * MaxRequest < PosWord
  BY DEF RequestsFit
<1>5. MaxRequest * c \in Nat /\ MaxRequest * n \in Nat
  BY <1>2, AllocatorConstants
<1>. HIDE DEF c, n
<1>6. p <= b + MaxRequest * c
  BY DEF c
<1>. QED  BY <1>3, <1>4, <1>5, <1>6, AllocatorConstants

-----------------------------------------------------------------------------
(* Steps that leave the allocators alone *)

Labels == Inside \cup {"idle", "get", "wait"}

\* PosBound and NoCarry after a step are matters of the allocators that users hold.
LEMMA CarryStep ==
    ASSUME RequestsFit, NoCarry, PoolTypeOK', PosBound',
           \A a \in Refs : a \notin held' => compIdx'[a] = compIdx[a]
    PROVE  NoCarry'
<1>. SUFFICES ASSUME NEW a \in Refs PROVE compIdx'[a].pos + MaxRequest < PosWord
  BY DEF NoCarry
<1>1. CASE a \in held'
  <2>. DEFINE p == compIdx'[a].pos
              b == buffers'[a][compIdx'[a].buf]
              os == Over(a)'
  <2>1. p \in Nat /\ b \in 0..MaxAlloc
    BY DEF PoolTypeOK
  <2>2. os \in SUBSET Goroutines
    BY DEF Over
  <2>3. p <= b + MaxRequest * Cardinality(os)
    BY <1>1 DEF PosBound
  <2>. HIDE DEF p, b, os
  <2>4. p + MaxRequest < PosWord
    BY <2>1, <2>2, <2>3, RoomForAll
  <2>. QED  BY <2>4 DEF p
<1>2. CASE a \notin held'
  BY <1>2 DEF NoCarry
<1>. QED  BY <1>1, <1>2

\* Steps that touch neither memory nor claims keep the invariant.
LEMMA FrameStep ==
    ASSUME RequestsFit, PoolInv, UNCHANGED <<memVars, held, given, call, allocCh>>,
           pc' \in [Goroutines -> Labels], calls' \in Nat,
           \A g \in Goroutines : pc'[g] = pc[g] \/ (pc[g] \notin Inside /\ pc'[g] \notin Inside),
           Owned'
    PROVE  PoolInv'
<1>. USE DEF memVars
<1>0. /\ \A g \in Goroutines : pc'[g] \in Inside => pc'[g] = pc[g]
      /\ \A g \in Goroutines : pc[g] \in Inside => pc'[g] = pc[g]
      /\ Claimed \subseteq Inside /\ Growing \subseteq Inside /\ "look" \in Inside
      /\ "store" \in Inside
  BY DEF Claimed, Growing, Inside
<1>1. PoolTypeOK'
  BY DEF PoolInv, PoolTypeOK, Labels
<1>2. CallsOK'
  BY <1>0 DEF PoolInv, CallsOK, CallOK
<1>3. SlicesBelow' /\ NoOverlap' /\ HeldIntact' /\ Prefixes' /\ Balanced'
  BY DEF PoolInv, SlicesBelow, NoOverlap, Disjoint, HeldIntact, Prefixes, Balanced
<1>4. ClaimsApart'
  BY <1>0 DEF PoolInv, ClaimsApart
<1>5. PosBound'
  <2>1. \A a \in held : Over(a)' = Over(a)
    BY <1>0 DEF Over
  <2>. QED  BY <2>1 DEF PoolInv, PosBound
<1>6. NoCarry'
  BY DEF PoolInv, NoCarry
<1>. QED  BY <1>1, <1>2, <1>3, <1>4, <1>5, <1>6 DEF PoolInv

\* A call of Get only counts.
LEMMA GetCallStep ==
    ASSUME RequestsFit, PoolInv, NEW g \in Goroutines, GetCall(g)
    PROVE  PoolInv'
<1>1. UNCHANGED <<memVars, held, given, call, allocCh>> /\ Owned'
  BY DEF GetCall, PoolInv, Owned, memVars, Zero
<1>2. /\ pc' \in [Goroutines -> Labels] /\ calls' \in Nat
      /\ \A h \in Goroutines : pc'[h] = pc[h] \/ (pc[h] \notin Inside /\ pc'[h] \notin Inside)
  BY DEF GetCall, CallBy, Goto, PoolInv, PoolTypeOK, Labels, Inside
<1>. QED  BY <1>1, <1>2, FrameStep

\* The signal to freeupAllocators moves no allocator.
LEMMA PoolReleaseStep ==
    ASSUME RequestsFit, PoolInv, NEW g \in Goroutines, PoolRelease(g)
    PROVE  PoolInv'
<1>1. UNCHANGED <<memVars, held, given, call, allocCh>> /\ Owned'
  BY DEF PoolRelease, PoolInv, Owned, memVars, Zero
<1>2. /\ pc' \in [Goroutines -> Labels] /\ calls' \in Nat
      /\ \A h \in Goroutines : pc'[h] = pc[h] \/ (pc[h] \notin Inside /\ pc'[h] \notin Inside)
  BY DEF PoolRelease, CallBy, Goto, PoolInv, PoolTypeOK, Labels, Inside
<1>. QED  BY <1>1, <1>2, FrameStep

\* Neither does the end of the wait for freeupAllocators.
LEMMA WaitDoneStep ==
    ASSUME RequestsFit, PoolInv, NEW g \in Goroutines, WaitDone(g)
    PROVE  PoolInv'
<1>1. UNCHANGED <<memVars, held, given, call, allocCh>> /\ Owned'
  BY DEF WaitDone, PoolInv, Owned, memVars, poolVars, Zero
<1>2. /\ pc' \in [Goroutines -> Labels] /\ calls' \in Nat
      /\ \A h \in Goroutines : pc'[h] = pc[h] \/ (pc[h] \notin Inside /\ pc'[h] \notin Inside)
  BY DEF WaitDone, CallBy, Goto, PoolInv, PoolTypeOK, Labels, Inside
<1>. QED  BY <1>1, <1>2, FrameStep

\* A tick of freeupAllocators only looks at the counter.
LEMMA TickStep == ASSUME RequestsFit, PoolInv, Tick PROVE PoolInv'
<1>1. UNCHANGED <<memVars, held, given, call, allocCh, pc, calls>> /\ Owned'
  BY DEF Tick, PoolInv, Owned, memVars, allocatorVars, Zero
<1>2. pc \in [Goroutines -> Labels] /\ calls \in Nat
  BY DEF PoolInv, PoolTypeOK, Labels
<1>. QED  BY <1>1, <1>2, FrameStep

\* freeupAllocators notices the signal and closes the channel.
LEMMA HasBeenClosedStep == ASSUME RequestsFit, PoolInv, HasBeenClosed PROVE PoolInv'
<1>1. UNCHANGED <<memVars, held, given, call, allocCh, pc, calls>> /\ Owned'
  BY DEF HasBeenClosed, PoolInv, Owned, memVars, allocatorVars, Zero
<1>2. pc \in [Goroutines -> Labels] /\ calls \in Nat
  BY DEF PoolInv, PoolTypeOK, Labels
<1>. QED  BY <1>1, <1>2, FrameStep

-----------------------------------------------------------------------------
(* Allocators change hands *)

\* Allocators in use have been made.
LEMMA RefsInUse ==
    ASSUME PoolTypeOK
    PROVE  /\ \A a \in allocs : a \in Refs /\ a \in 1..allocRef /\ a <= allocRef
           /\ \A a \in held : a \in Refs /\ a \in allocs
           /\ allocRef \in Nat
BY AllocatorConstants DEF PoolTypeOK, Refs

\* An allocator that nobody uses is reset, by its user or by Get.
LEMMA ResetStep ==
    ASSUME RequestsFit, PoolInv, NEW a \in allocs, Quiet(a), Reset(a), held' = held \cup {a},
           UNCHANGED <<buffers, mutex, allocs, allocRef, live, call>>,
           pc' \in [Goroutines -> Labels], calls' \in Nat, allocCh' \in Seq(Refs),
           \A g \in Goroutines : pc'[g] = pc[g] \/ (pc[g] \notin Inside /\ pc'[g] \notin Inside),
           Owned'
    PROVE  PoolInv'
<1>0. /\ \A g \in Goroutines : pc'[g] \in Inside => pc'[g] = pc[g] /\ call[g].ref # a
      /\ \A g \in Goroutines : pc[g] \in Inside => pc'[g] = pc[g]
      /\ Claimed \subseteq Inside /\ Growing \subseteq Inside /\ "look" \in Inside
      /\ "store" \in Inside
  BY DEF Claimed, Growing, Inside, Quiet
<1>1. /\ a \in Refs /\ MaxBuffers \in Nat \ {0}
      /\ compIdx' \in [Refs -> [buf : BufIdx, pos : Nat]]
      /\ compIdx'[a] = Zero
      /\ \A b \in Refs : b # a => compIdx'[b] = compIdx[b]
  <2>1. a \in Refs /\ compIdx \in [Refs -> [buf : BufIdx, pos : Nat]]
    BY RefsInUse DEF PoolInv, PoolTypeOK
  <2>2. MaxBuffers \in Nat \ {0} /\ Zero \in [buf : BufIdx, pos : Nat]
    BY AllocatorConstants DEF Zero, BufIdx
  <2>3. compIdx' = [compIdx EXCEPT ![a] = Zero]
    BY DEF Reset
  <2>. HIDE DEF Zero
  <2>. QED  BY <2>1, <2>2, <2>3
<1>2. given' = {r \in given : r.ref # a}
  BY DEF Reset, GiveUp
<1>3. PoolTypeOK'
  BY <1>1, <1>2 DEF PoolInv, PoolTypeOK, Labels
<1>4. CallsOK'
  <2>. SUFFICES ASSUME NEW g \in Goroutines, pc'[g] \in Inside PROVE CallOK(g)'
    BY <1>0 DEF CallsOK, CallOK
  <2>1. CallOK(g) /\ pc'[g] = pc[g] /\ call[g].ref # a /\ call[g].ref \in Refs
    BY <1>0 DEF PoolInv, CallsOK, PoolTypeOK
  <2>. QED  BY <1>1, <2>1 DEF CallOK
<1>5. SlicesBelow' /\ NoOverlap' /\ HeldIntact' /\ Prefixes' /\ Balanced'
  <2>1. SlicesBelow'
    BY <1>1, <1>2 DEF PoolInv, PoolTypeOK, SlicesBelow
  <2>2. NoOverlap' /\ HeldIntact'
    BY <1>1, <1>2 DEF PoolInv, NoOverlap, Disjoint, HeldIntact
  <2>. QED  BY <2>1, <2>2 DEF PoolInv, Prefixes, Balanced
<1>6. ClaimsApart'
  BY <1>0, <1>2 DEF PoolInv, ClaimsApart
<1>7. PosBound'
  <2>. SUFFICES ASSUME NEW b \in held'
                PROVE compIdx'[b].pos <= buffers'[b][compIdx'[b].buf]
                                         + MaxRequest * Cardinality(Over(b)')
    BY DEF PosBound
  <2>1. CASE b = a
    <3>1. compIdx'[b].pos = 0 /\ buffers'[b][compIdx'[b].buf] \in Nat
      BY <1>1, <1>3, <2>1, AllocatorConstants DEF PoolTypeOK, Zero
    <3>2. Cardinality(Over(b)') \in Nat
      <4>1. Over(b)' \subseteq Goroutines
        BY DEF Over
      <4>. QED  BY <4>1, AllocatorConstants, FS_Subset, FS_CardinalityType
    <3>3. MaxRequest * Cardinality(Over(b)') \in Nat
      BY <3>2, AllocatorConstants
    <3>. QED  BY <3>1, <3>3
  <2>2. CASE b # a
    <3>1. b \in held /\ compIdx'[b] = compIdx[b]
      BY <1>1, <2>2, RefsInUse DEF PoolInv
    <3>2. Over(b)' = Over(b)
      BY <1>0, <3>1 DEF Over
    <3>. QED  BY <3>1, <3>2 DEF PoolInv, PosBound
  <2>. QED  BY <2>1, <2>2
<1>8. NoCarry'
  BY <1>1, <1>3, <1>7, CarryStep DEF PoolInv
<1>. QED  BY <1>3, <1>4, <1>5, <1>6, <1>7, <1>8 DEF PoolInv

\* Reset by the user, who forgets the slices
LEMMA UserResetStep ==
    ASSUME RequestsFit, PoolInv, NEW g \in Goroutines, NEW a \in held, UserReset(g, a),
           UNCHANGED poolVars
    PROVE  PoolInv'
<1>1. a \in allocs /\ held' = held \cup {a} /\ a \in 1..allocRef /\ a \in Refs
  BY RefsInUse DEF UserReset, PoolInv
<1>2. Quiet(a) /\ Reset(a) /\ UNCHANGED <<buffers, mutex, allocs, allocRef, live, call>>
  BY DEF UserReset
<1>3. /\ pc' \in [Goroutines -> Labels] /\ calls' \in Nat /\ allocCh' \in Seq(Refs)
      /\ \A h \in Goroutines : pc'[h] = pc[h]
  BY DEF UserReset, CallBy, PoolInv, PoolTypeOK, Labels, poolVars
<1>4. Owned'
  <2>1. \A b \in Refs : b > allocRef' => compIdx'[b] = Zero
    BY <1>1 DEF UserReset, Reset, PoolInv, PoolTypeOK, Owned
  <2>. QED  BY <2>1 DEF UserReset, poolVars, PoolInv, Owned
<1>. QED  BY <1>1, <1>2, <1>3, <1>4, ResetStep

\* A sequence without repetitions loses its head.
LEMMA HeadTail ==
    ASSUME NEW S, NEW s \in Seq(S), s # <<>>, IsInjective(s)
    PROVE  /\ Head(s) \in S /\ Head(s) \in Range(s) /\ Tail(s) \in Seq(S)
           /\ Range(Tail(s)) = Range(s) \ {Head(s)}
           /\ IsInjective(Tail(s))
<1>1. /\ Tail(s) \in Seq(S) /\ Len(Tail(s)) = Len(s) - 1 /\ Len(s) \in Nat \ {0}
      /\ \A i \in 1..Len(Tail(s)) : Tail(s)[i] = s[i + 1]
      /\ DOMAIN s = 1..Len(s) /\ DOMAIN Tail(s) = 1..Len(Tail(s)) /\ Head(s) = s[1]
  BY HeadTailProperties
<1>2. \A i, j \in 1..Len(s) : s[i] = s[j] => i = j
  BY <1>1 DEF IsInjective
<1>3. Head(s) \in S /\ Head(s) \in Range(s)
  BY <1>1 DEF Range
<1>4. Range(Tail(s)) = Range(s) \ {Head(s)}
  <2>1. ASSUME NEW x \in Range(Tail(s)) PROVE x \in Range(s) /\ x # Head(s)
    <3>1. PICK i \in 1..Len(Tail(s)) : x = Tail(s)[i]
      BY <1>1 DEF Range
    <3>2. i + 1 \in 1..Len(s) /\ i + 1 # 1 /\ 1 \in 1..Len(s)
      BY <1>1
    <3>. QED  BY <1>1, <1>2, <3>1, <3>2 DEF Range
  <2>2. ASSUME NEW x \in Range(s), x # Head(s) PROVE x \in Range(Tail(s))
    <3>1. PICK i \in 1..Len(s) : x = s[i]
      BY <1>1 DEF Range
    <3>2. i - 1 \in 1..Len(Tail(s)) /\ (i - 1) + 1 = i
      BY <1>1, <2>2, <3>1
    <3>3. Tail(s)[i - 1] = x
      BY <1>1, <3>1, <3>2
    <3>. QED  BY <1>1, <3>2, <3>3 DEF Range
  <2>. QED  BY <2>1, <2>2
<1>5. IsInjective(Tail(s))
  <2>. SUFFICES ASSUME NEW i \in 1..Len(Tail(s)), NEW j \in 1..Len(Tail(s)),
                       Tail(s)[i] = Tail(s)[j]
                PROVE  i = j
    BY <1>1 DEF IsInjective
  <2>1. i + 1 \in 1..Len(s) /\ j + 1 \in 1..Len(s) /\ s[i + 1] = s[j + 1]
    BY <1>1
  <2>. QED  BY <1>2, <2>1
<1>. QED  BY <1>1, <1>3, <1>4, <1>5

\* Get takes an allocator from the channel.
LEMMA GetPooledStep ==
    ASSUME RequestsFit, PoolInv, NEW g \in Goroutines, GetTake(g), allocCh # <<>>
    PROVE  PoolInv'
<1>. DEFINE a == Head(allocCh)
<1>1. /\ a \in Refs /\ a \in Range(allocCh) /\ Tail(allocCh) \in Seq(Refs)
      /\ Range(Tail(allocCh)) = Range(allocCh) \ {a}
      /\ IsInjective(Tail(allocCh))
  BY HeadTail DEF PoolInv, PoolTypeOK, Owned
<1>2. /\ pc[g] = "get" /\ Reset(a) /\ held' = held \cup {a} /\ allocCh' = Tail(allocCh)
      /\ Goto(g, "idle") /\ UNCHANGED <<buffers, mutex, allocs, allocRef, live, panicked>>
      /\ UNCHANGED <<call, calls, chClosed, numGets, last, signalled, waiting, fp>>
  BY DEF GetTake
<1>. HIDE DEF a
<1>3. a \in allocs /\ a \notin held /\ a <= allocRef
  BY <1>1, RefsInUse DEF PoolInv, Owned
<1>4. Quiet(a)
  BY <1>3 DEF Quiet, PoolInv, CallsOK, CallOK
<1>5. /\ pc' \in [Goroutines -> Labels] /\ calls' \in Nat /\ allocCh' \in Seq(Refs)
      /\ \A h \in Goroutines : pc'[h] = pc[h] \/ (pc[h] \notin Inside /\ pc'[h] \notin Inside)
  BY <1>1, <1>2 DEF Goto, PoolInv, PoolTypeOK, Labels, Inside
<1>6. Owned'
  <2>1. \A b \in Refs : b > allocRef' => compIdx'[b] = Zero
    BY <1>2, <1>3 DEF Reset, PoolInv, PoolTypeOK, Owned
  <2>2. Range(allocCh') \subseteq allocs' /\ Range(allocCh') \cap held' = {} /\ IsInjective(allocCh')
    BY <1>1, <1>2 DEF PoolInv, Owned
  <2>3. ~panicked' => allocs' = held' \cup Range(allocCh')
    BY <1>1, <1>2 DEF PoolInv, Owned
  <2>4. /\ fp' \in {"drain", "done"} => chClosed'
        /\ fp' = "done" => allocCh' = <<>>
    BY <1>2 DEF PoolInv, Owned
  <2>. QED  BY <2>1, <2>2, <2>3, <2>4 DEF Owned
<1>. QED  BY <1>2, <1>3, <1>4, <1>5, <1>6, ResetStep

\* Get makes an allocator.
LEMMA GetNewStep ==
    ASSUME RequestsFit, PoolInv, NEW g \in Goroutines, GetTake(g), allocCh = <<>>, ~chClosed
    PROVE  PoolInv'
<1>. DEFINE ref == allocRef + 1
            first(sz) == [i \in BufIdx |-> IF i = 0 THEN FirstPage(sz) ELSE 0]
<1>1. PICK sz \in NewSizes : NewAllocator(sz)
  BY DEF GetTake
<1>2. /\ ref \in Refs /\ allocRef' = ref
      /\ buffers' = [buffers EXCEPT ![ref] = first(sz)]
      /\ allocs' = allocs \cup {ref} /\ held' = held \cup {ref}
      /\ live' = [live EXCEPT ![ref][0] = @ + 1]
      /\ UNCHANGED <<compIdx, mutex>>
  BY <1>1 DEF NewAllocator
<1>3. /\ pc[g] = "get" /\ Goto(g, "idle")
      /\ UNCHANGED <<given, allocCh, panicked, call, calls, chClosed, numGets, last,
                     signalled, waiting, fp>>
  BY DEF GetTake
<1>4. first(sz) \in [BufIdx -> 0..MaxAlloc] /\ Prefix(first(sz))
  BY FirstPageFits, AllocatorConstants DEF Prefix, BufIdx
<1>. HIDE DEF first
<1>5. /\ \A a \in allocs : a \in Refs /\ a # ref
      /\ \A a \in held : a \in Refs /\ a # ref
      /\ \A a \in Refs : a # ref => buffers'[a] = buffers[a] /\ live'[a] = live[a]
      /\ buffers'[ref] = first(sz)
      /\ live' \in [Refs -> [BufIdx -> Int]]
      /\ \A i \in BufIdx : live'[ref][i] = live[ref][i] + (IF i = 0 THEN 1 ELSE 0)
      /\ compIdx[ref] = Zero
      /\ allocRef \in Nat /\ ref > allocRef
  <2>1. PoolTypeOK /\ Owned
    BY DEF PoolInv
  <2>2. allocRef \in Nat /\ ref > allocRef /\ compIdx[ref] = Zero
    BY <1>2, <2>1, RefsInUse DEF Owned
  <2>3. \A a \in allocs : a \in Refs /\ a # ref
    BY <2>1, <2>2, RefsInUse
  <2>4. \A a \in held : a \in Refs /\ a # ref
    BY <2>1, <2>3, RefsInUse
  <2>5. /\ live' \in [Refs -> [BufIdx -> Int]]
        /\ \A a \in Refs : a # ref => live'[a] = live[a]
        /\ \A i \in BufIdx : live'[ref][i] = live[ref][i] + (IF i = 0 THEN 1 ELSE 0)
    <3>1. live \in [Refs -> [BufIdx -> Int]] /\ 0 \in BufIdx
      BY <2>1, AllocatorConstants DEF PoolTypeOK, BufIdx
    <3>. HIDE DEF ref
    <3>. QED  BY <1>2, <3>1
  <2>6. (\A a \in Refs : a # ref => buffers'[a] = buffers[a]) /\ buffers'[ref] = first(sz)
    <3>. HIDE DEF ref
    <3>. QED  BY <1>2, <2>1 DEF PoolTypeOK
  <2>. QED  BY <2>2, <2>3, <2>4, <2>5, <2>6
<1>6. /\ pc' \in [Goroutines -> Labels]
      /\ \A h \in Goroutines : pc'[h] \in Inside => pc'[h] = pc[h]
      /\ \A h \in Goroutines : pc[h] \in Inside => pc'[h] = pc[h]
      /\ Claimed \subseteq Inside /\ Growing \subseteq Inside /\ "look" \in Inside
      /\ "store" \in Inside
  BY <1>3 DEF Goto, PoolInv, PoolTypeOK, Labels, Inside, Claimed, Growing
<1>7. PoolTypeOK'
  <2>1. buffers' \in [Refs -> [BufIdx -> 0..MaxAlloc]]
    BY <1>2, <1>4 DEF PoolInv, PoolTypeOK
  <2>2. allocRef' \in 0..MaxRefs /\ allocs' \subseteq 1..allocRef' /\ held' \subseteq allocs'
    <3>1. ref \in 0..MaxRefs /\ ref \in 1..ref /\ 1..allocRef \subseteq 1..ref
      BY <1>2, <1>5, AllocatorConstants DEF Refs
    <3>. HIDE DEF ref
    <3>. QED  BY <1>2, <3>1 DEF PoolInv, PoolTypeOK
  <2>. QED  BY <1>2, <1>3, <1>5, <1>6, <2>1, <2>2 DEF PoolInv, PoolTypeOK, Labels
<1>8. CallsOK'
  BY <1>2, <1>3, <1>6 DEF PoolInv, CallsOK, CallOK
<1>9. Owned'
  <2>1. Range(allocCh) = {} /\ UNCHANGED allocCh /\ IsInjective(allocCh)
    BY <1>3 DEF Range, PoolInv, Owned
  <2>3. \A b \in Refs : b > allocRef' => compIdx'[b] = Zero
    <3>1. \A b \in Refs : b > ref => b > allocRef
      BY <1>5, AllocatorConstants DEF Refs
    <3>. HIDE DEF ref
    <3>. QED  BY <1>2, <3>1 DEF PoolInv, Owned
  <2>4. ~panicked' => allocs' = held' \cup Range(allocCh')
    BY <1>2, <1>3, <2>1 DEF PoolInv, Owned
  <2>5. (fp' \in {"drain", "done"} => chClosed') /\ (fp' = "done" => allocCh' = <<>>)
    BY <1>3 DEF PoolInv, Owned
  <2>. QED  BY <1>2, <2>1, <2>3, <2>4, <2>5 DEF Owned
<1>10. SlicesBelow' /\ NoOverlap'
  BY <1>2, <1>3 DEF PoolInv, SlicesBelow, NoOverlap, Disjoint
<1>11. HeldIntact'
  BY <1>2, <1>3, <1>5 DEF PoolInv, HeldIntact
<1>12. ClaimsApart'
  BY <1>3, <1>6 DEF PoolInv, ClaimsApart
<1>13. Prefixes'
  <2>. SUFFICES ASSUME NEW a \in Refs PROVE Prefix(buffers'[a])
    BY DEF Prefixes
  <2>1. CASE a = ref
    BY <1>4, <1>5, <2>1
  <2>2. CASE a # ref
    BY <1>5, <2>2 DEF PoolInv, Prefixes
  <2>. QED  BY <2>1, <2>2
<1>14. Balanced'
  <2>. SUFFICES ASSUME NEW a \in Refs
                PROVE  /\ a \in allocs' => Intact(live'[a], buffers'[a])
                       /\ a \notin allocs' => GivenBack(live'[a])
    BY DEF Balanced
  <2>1. CASE a = ref
    <3>1. GivenBack(live[ref])
      BY <1>2, <1>5 DEF PoolInv, Balanced
    <3>2. FirstPage(sz) # 0
      BY FirstPageFits, AllocatorConstants
    <3>. HIDE DEF ref
    <3>3. ASSUME NEW i \in BufIdx
          PROVE  live'[ref][i] = IF first(sz)[i] # 0 THEN 1 ELSE 0
      <4>1. live'[ref][i] = IF i = 0 THEN 1 ELSE 0
        BY <1>5, <3>1 DEF GivenBack
      <4>2. first(sz)[i] = IF i = 0 THEN FirstPage(sz) ELSE 0
        BY DEF first
      <4>. QED  BY <3>2, <4>1, <4>2
    <3>4. Intact(live'[ref], first(sz))
      BY <3>3 DEF Intact
    <3>. QED  BY <1>2, <1>5, <2>1, <3>4
  <2>2. CASE a # ref
    <3>1. a \in allocs' <=> a \in allocs
      BY <1>2, <2>2
    <3>. QED  BY <1>5, <2>2, <3>1 DEF PoolInv, Balanced
  <2>. QED  BY <2>1, <2>2
<1>15. PosBound'
  <2>. SUFFICES ASSUME NEW b \in held'
                PROVE compIdx'[b].pos <= buffers'[b][compIdx'[b].buf]
                                         + MaxRequest * Cardinality(Over(b)')
    BY DEF PosBound
  <2>1. CASE b = ref
    <3>1. compIdx'[b].pos = 0 /\ buffers'[b][compIdx'[b].buf] \in Nat
      BY <1>2, <1>5, <1>7, <2>1, AllocatorConstants DEF PoolTypeOK, Zero
    <3>2. Cardinality(Over(b)') \in Nat
      <4>1. Over(b)' \subseteq Goroutines
        BY DEF Over
      <4>. QED  BY <4>1, AllocatorConstants, FS_Subset, FS_CardinalityType
    <3>3. MaxRequest * Cardinality(Over(b)') \in Nat
      BY <3>2, AllocatorConstants
    <3>. QED  BY <3>1, <3>3
  <2>2. CASE b # ref
    <3>1. b \in held /\ compIdx'[b] = compIdx[b] /\ buffers'[b] = buffers[b]
      BY <1>2, <1>5, <2>2
    <3>2. Over(b)' = Over(b)
      BY <1>2, <1>3, <1>6, <3>1 DEF Over
    <3>. QED  BY <3>1, <3>2 DEF PoolInv, PosBound
  <2>. QED  BY <2>1, <2>2
<1>16. NoCarry'
  BY <1>2 DEF PoolInv, NoCarry
<1>. QED  BY <1>7, <1>8, <1>9, <1>10, <1>11, <1>12, <1>13, <1>14, <1>15, <1>16 DEF PoolInv

\* Both cases of Get, and the panic on a closed channel
LEMMA GetTakeStep ==
    ASSUME RequestsFit, PoolInv, NEW g \in Goroutines, GetTake(g)
    PROVE  PoolInv'
<1>1. CASE allocCh = <<>> /\ chClosed
  <2>1. UNCHANGED <<memVars, held, given, call, allocCh, pc, calls>> /\ panicked'
    BY <1>1 DEF GetTake, Panic
  <2>2. Owned'
    BY <1>1, <2>1 DEF GetTake, PoolInv, Owned, memVars, Zero
  <2>3. pc \in [Goroutines -> Labels] /\ calls \in Nat
    BY DEF PoolInv, PoolTypeOK, Labels
  <2>. QED  BY <2>1, <2>2, <2>3, FrameStep
<1>. QED  BY <1>1, GetPooledStep, GetNewStep

\* An allocator that nobody uses leaves its user's hands or the channel, with the
\* buffers bs of the memory mem, and is released or not.
LEMMA LetGoStep ==
    ASSUME RequestsFit, PoolInv, NEW a \in allocs, Quiet(a),
           held' = held \ {a}, given' = {r \in given : r.ref # a},
           NEW bs \in [BufIdx -> 0..MaxAlloc], Prefix(bs), NEW mem \in [BufIdx -> Int],
           buffers' = [buffers EXCEPT ![a] = bs], live' = [live EXCEPT ![a] = mem],
           UNCHANGED <<compIdx, mutex, allocRef, call, pc>>,
           calls' \in Nat, allocCh' \in Seq(Refs),
           \/ UNCHANGED allocs /\ Intact(mem, bs)
           \/ allocs' = allocs \ {a} /\ GivenBack(mem),
           Owned'
    PROVE  PoolInv'
<1>1. /\ a \in Refs
      /\ \A b \in Refs : b # a => buffers'[b] = buffers[b] /\ live'[b] = live[b]
      /\ buffers'[a] = bs /\ live'[a] = mem
      /\ buffers' \in [Refs -> [BufIdx -> 0..MaxAlloc]] /\ live' \in [Refs -> [BufIdx -> Int]]
  <2>1. /\ a \in Refs /\ buffers \in [Refs -> [BufIdx -> 0..MaxAlloc]]
        /\ live \in [Refs -> [BufIdx -> Int]]
    BY RefsInUse DEF PoolInv, PoolTypeOK
  <2>. QED  BY <2>1
<1>2. PoolTypeOK'
  <2>1. allocs' \subseteq 1..allocRef' /\ held' \subseteq allocs'
    BY DEF PoolInv, PoolTypeOK
  <2>. QED  BY <1>1, <2>1 DEF PoolInv, PoolTypeOK, Labels
<1>3. CallsOK'
  BY DEF PoolInv, CallsOK, CallOK, Quiet
<1>4. SlicesBelow' /\ NoOverlap'
  BY DEF PoolInv, SlicesBelow, NoOverlap, Disjoint
<1>5. HeldIntact'
  <2>. SUFFICES ASSUME NEW r \in given, r.ref # a
                PROVE /\ r.ref \in held' \cap allocs' /\ live'[r.ref][r.buf] = 1
                      /\ 0 <= r.from /\ r.from < r.to /\ r.to <= buffers'[r.ref][r.buf]
    BY DEF HeldIntact
  <2>1. /\ r.ref \in held \cap allocs /\ live[r.ref][r.buf] = 1
        /\ 0 <= r.from /\ r.from < r.to /\ r.to <= buffers[r.ref][r.buf]
    BY DEF PoolInv, HeldIntact
  <2>2. r.ref \in Refs
    BY <2>1, RefsInUse DEF PoolInv
  <2>. QED  BY <1>1, <2>1, <2>2
<1>6. ClaimsApart'
  BY DEF PoolInv, ClaimsApart
<1>7. Prefixes'
  BY <1>1 DEF PoolInv, Prefixes
<1>8. Balanced'
  <2>. SUFFICES ASSUME NEW b \in Refs
                PROVE  /\ b \in allocs' => Intact(live'[b], buffers'[b])
                       /\ b \notin allocs' => GivenBack(live'[b])
    BY DEF Balanced
  <2>1. CASE b = a
    BY <1>1, <2>1
  <2>2. CASE b # a
    BY <1>1, <2>2 DEF PoolInv, Balanced
  <2>. QED  BY <2>1, <2>2
<1>9. PosBound'
  <2>. SUFFICES ASSUME NEW b \in held, b # a
                PROVE compIdx'[b].pos <= buffers'[b][compIdx'[b].buf]
                                         + MaxRequest * Cardinality(Over(b)')
    BY DEF PosBound
  <2>1. b \in held /\ compIdx'[b] = compIdx[b] /\ buffers'[b] = buffers[b]
    BY <1>1, RefsInUse DEF PoolInv
  <2>2. Over(b)' = Over(b)
    BY <2>1 DEF Over
  <2>. QED  BY <2>1, <2>2 DEF PoolInv, PosBound
<1>10. NoCarry'
  BY DEF PoolInv, NoCarry
<1>. QED  BY <1>2, <1>3, <1>4, <1>5, <1>6, <1>7, <1>8, <1>9, <1>10 DEF PoolInv

\* Return trims the allocator and sends it, or releases it.
LEMMA ReturnStep ==
    ASSUME RequestsFit, PoolInv, NEW g \in Goroutines, NEW a \in held, Return(g, a), ~panicked
    PROVE  PoolInv'
<1>. DEFINE ts == TrimTo(buffers[a], TrimMax)
            mem == Free(live[a], Trimmed(buffers[a], TrimMax))
<1>1. /\ a \in Refs /\ a \in allocs /\ a \notin Range(allocCh) /\ a <= allocRef
      /\ buffers \in [Refs -> [BufIdx -> 0..MaxAlloc]]
      /\ buffers[a] \in [BufIdx -> 0..MaxAlloc] /\ Prefix(buffers[a])
      /\ live[a] \in [BufIdx -> Int] /\ Intact(live[a], buffers[a])
  BY RefsInUse DEF PoolInv, PoolTypeOK, Prefixes, Owned, Balanced
<1>2. ts \in [BufIdx -> 0..MaxAlloc] /\ Prefix(ts) /\ mem \in [BufIdx -> Int] /\ Intact(mem, ts)
  BY <1>1, TrimKeeps, FreeTrimmed
<1>3. /\ Quiet(a) /\ held' = held \ {a} /\ given' = {r \in given : r.ref # a}
      /\ calls' \in Nat /\ UNCHANGED <<pc, call, chClosed, fp>>
  BY DEF Return, CallBy, GiveUp, PoolInv, PoolTypeOK
<1>. HIDE DEF ts, mem
<1>4. CASE chClosed
  <2>1. /\ buffers' = [buffers EXCEPT ![a] = ts] /\ live' = [live EXCEPT ![a] = mem]
        /\ panicked' /\ UNCHANGED <<compIdx, mutex, allocs, allocRef, allocCh>>
    BY <1>4 DEF Return, Panic, ts, mem
  <2>2. allocCh' \in Seq(Refs)
    BY <2>1 DEF PoolInv, PoolTypeOK
  <2>3. Owned'
    BY <1>3, <2>1 DEF PoolInv, Owned, Zero
  <2>. QED  BY <1>1, <1>2, <1>3, <2>1, <2>2, <2>3, LetGoStep
<1>5. CASE ~chClosed /\ Len(allocCh) < PoolSize
  <2>1. /\ buffers' = [buffers EXCEPT ![a] = ts] /\ live' = [live EXCEPT ![a] = mem]
        /\ allocCh' = Append(allocCh, a)
        /\ UNCHANGED <<compIdx, mutex, allocs, allocRef, panicked>>
    <3>1. ~(Len(allocCh) >= PoolSize)
      BY <1>5, PoolConstants DEF PoolInv, PoolTypeOK
    <3>. QED  BY <1>5, <3>1 DEF Return, ts, mem
  <2>2. /\ allocCh \in Seq(Refs) /\ IsInjective(allocCh)
        /\ Append(allocCh, a) \in Seq(Refs) /\ Append(allocCh, a) # <<>>
        /\ Len(allocCh) \in Nat /\ Len(Append(allocCh, a)) = Len(allocCh) + 1
        /\ \A i \in 1..Len(allocCh) : Append(allocCh, a)[i] = allocCh[i]
        /\ Append(allocCh, a)[Len(allocCh) + 1] = a
        /\ DOMAIN allocCh = 1..Len(allocCh)
        /\ DOMAIN Append(allocCh, a) = 1..Len(allocCh) + 1
    <3>1. allocCh \in Seq(Refs) /\ IsInjective(allocCh)
      BY DEF PoolInv, PoolTypeOK, Owned
    <3>2. a \in Refs
      BY <1>1
    <3>3. /\ Append(allocCh, a) \in Seq(Refs) /\ Append(allocCh, a) # <<>>
          /\ Len(Append(allocCh, a)) = Len(allocCh) + 1
          /\ \A i \in 1..Len(allocCh) : Append(allocCh, a)[i] = allocCh[i]
          /\ Append(allocCh, a)[Len(allocCh) + 1] = a
      BY <3>1, <3>2, AppendProperties
    <3>4. Len(allocCh) \in Nat /\ DOMAIN allocCh = 1..Len(allocCh)
      BY <3>1
    <3>5. DOMAIN Append(allocCh, a) = 1..Len(allocCh) + 1
      BY <3>3
    <3>. QED  BY <3>1, <3>3, <3>4, <3>5
  <2>3. Range(allocCh') = Range(allocCh) \cup {a}
    BY <2>1, <2>2 DEF Range
  <2>4. IsInjective(allocCh')
    <3>1. \A i \in 1..Len(allocCh) : allocCh[i] # a
      BY <1>1, <2>2 DEF Range
    <3>2. \A i, j \in 1..Len(allocCh) : allocCh[i] = allocCh[j] => i = j
      BY <2>2 DEF IsInjective
    <3>. QED  BY <2>1, <2>2, <3>1, <3>2 DEF IsInjective
  <2>5. Owned'
    BY <1>1, <1>3, <1>5, <2>1, <2>3, <2>4 DEF PoolInv, Owned, Zero
  <2>. QED  BY <1>1, <1>2, <1>3, <2>1, <2>2, <2>5, LetGoStep
<1>6. CASE ~chClosed /\ ~(Len(allocCh) < PoolSize)
  <2>. DEFINE rest == Free(mem, Visited(ts))
  <2>0. rest \in [BufIdx -> Int] /\ GivenBack(rest)
    BY <1>2, FreeVisited
  <2>1. Release(a, ts, mem) /\ UNCHANGED <<allocCh, panicked>>
    BY <1>6 DEF Return, ts, mem
  <2>2. /\ buffers' = [buffers EXCEPT ![a] = ts] /\ allocs' = allocs \ {a}
        /\ live' = [live EXCEPT ![a] = rest]
        /\ UNCHANGED <<compIdx, mutex, allocRef>>
    BY <2>1 DEF Release
  <2>. HIDE DEF rest
  <2>3. Owned'
    BY <1>1, <1>3, <1>6, <2>1, <2>2, RefsInUse DEF PoolInv, Owned, Zero
  <2>4. allocCh' \in Seq(Refs)
    BY <2>1 DEF PoolInv, PoolTypeOK
  <2>. QED  BY <1>1, <1>2, <1>3, <2>0, <2>2, <2>3, <2>4, LetGoStep
<1>. QED  BY <1>4, <1>5, <1>6

\* freeupAllocators releases an allocator from the channel.
LEMMA TakeAndReleaseStep ==
    ASSUME RequestsFit, PoolInv, TakeAndRelease, fp # "done", fp' \in {"select", fp},
           UNCHANGED <<held, pc, call, given, calls, panicked, chClosed>>
    PROVE  PoolInv'
<1>. DEFINE a == Head(allocCh)
<1>1. /\ a \in Refs /\ a \in Range(allocCh) /\ Tail(allocCh) \in Seq(Refs)
      /\ Range(Tail(allocCh)) = Range(allocCh) \ {a}
      /\ IsInjective(Tail(allocCh))
  BY HeadTail DEF PoolInv, PoolTypeOK, Owned, TakeAndRelease
<1>2. allocCh' = Tail(allocCh) /\ Release(a, buffers[a], live[a])
  BY DEF TakeAndRelease
<1>. HIDE DEF a
<1>3. a \in allocs /\ a \notin held /\ a \in 1..allocRef
  BY <1>1, RefsInUse DEF PoolInv, Owned
<1>4. Quiet(a)
  BY <1>3 DEF Quiet, PoolInv, CallsOK, CallOK
<1>5. held' = held \ {a} /\ given' = {r \in given : r.ref # a} /\ calls' \in Nat
  BY <1>3 DEF PoolInv, HeldIntact, PoolTypeOK
<1>. DEFINE rest == Free(live[a], Visited(buffers[a]))
<1>6. /\ buffers' = [buffers EXCEPT ![a] = buffers[a]] /\ allocs' = allocs \ {a}
      /\ live' = [live EXCEPT ![a] = rest]
      /\ UNCHANGED <<compIdx, mutex, allocRef>>
  BY <1>2 DEF Release
<1>7. /\ buffers[a] \in [BufIdx -> 0..MaxAlloc] /\ Prefix(buffers[a]) /\ allocCh' \in Seq(Refs)
      /\ rest \in [BufIdx -> Int] /\ GivenBack(rest)
  <2>1. /\ buffers[a] \in [BufIdx -> 0..MaxAlloc] /\ Prefix(buffers[a]) /\ allocCh' \in Seq(Refs)
        /\ live[a] \in [BufIdx -> Int] /\ Intact(live[a], buffers[a])
    BY <1>1, <1>2, <1>3 DEF PoolInv, PoolTypeOK, Prefixes, Balanced
  <2>. QED  BY <2>1, FreeVisited
<1>. HIDE DEF rest
<1>8. Owned'
  <2>2. /\ Range(allocCh') \subseteq allocs' /\ Range(allocCh') \cap held' = {}
        /\ IsInjective(allocCh') /\ (~panicked' => allocs' = held' \cup Range(allocCh'))
    BY <1>1, <1>2, <1>3, <1>6 DEF PoolInv, Owned
  <2>3. /\ \A b \in Refs : b > allocRef' => compIdx'[b] = Zero
        /\ fp' \in {"drain", "done"} => chClosed'
        /\ fp' = "done" => allocCh' = <<>>
    BY <1>6 DEF PoolInv, Owned
  <2>. QED  BY <2>2, <2>3 DEF Owned
<1>. QED  BY <1>3, <1>4, <1>5, <1>6, <1>7, <1>8, LetGoStep

\* An idle allocator is released on a tick.
LEMMA ReleaseOneStep == ASSUME RequestsFit, PoolInv, ReleaseOne PROVE PoolInv'
<1>1. CASE TakeAndRelease
  BY <1>1, TakeAndReleaseStep DEF ReleaseOne
<1>2. CASE allocCh = <<>> /\ UNCHANGED <<allocCh, memVars>>
  <2>1. UNCHANGED <<memVars, held, given, call, allocCh, pc, calls>> /\ Owned'
    BY <1>2 DEF ReleaseOne, PoolInv, Owned, memVars, Zero
  <2>2. pc \in [Goroutines -> Labels] /\ calls \in Nat
    BY DEF PoolInv, PoolTypeOK, Labels
  <2>. QED  BY <2>1, <2>2, FrameStep
<1>. QED  BY <1>1, <1>2 DEF ReleaseOne

\* What is left in the channel is released after the close.
LEMMA DrainStep == ASSUME RequestsFit, PoolInv, Drain PROVE PoolInv'
<1>1. CASE TakeAndRelease /\ UNCHANGED <<fp, waiting>>
  BY <1>1, TakeAndReleaseStep DEF Drain
<1>2. CASE allocCh = <<>> /\ Done /\ fp' = "done" /\ UNCHANGED <<allocCh, memVars>>
  <2>1. UNCHANGED <<memVars, held, given, call, allocCh, pc, calls>> /\ Owned'
    BY <1>2 DEF Drain, PoolInv, Owned, memVars, Zero
  <2>2. pc \in [Goroutines -> Labels] /\ calls \in Nat
    BY DEF PoolInv, PoolTypeOK, Labels
  <2>. QED  BY <2>1, <2>2, FrameStep
<1>. QED  BY <1>1, <1>2 DEF Drain

-----------------------------------------------------------------------------
(* Allocate *)

\* The goroutines that have overshot the buffer are finitely many.
LEMMA OverFinite ==
    ASSUME NEW a
    PROVE  /\ Over(a) \subseteq Goroutines /\ IsFiniteSet(Over(a))
           /\ Cardinality(Over(a)) \in Nat /\ MaxRequest * Cardinality(Over(a)) \in Nat
<1>1. Over(a) \subseteq Goroutines
  BY DEF Over
<1>2. IsFiniteSet(Over(a)) /\ Cardinality(Over(a)) \in Nat
  BY <1>1, AllocatorConstants, FS_Subset, FS_CardinalityType
<1>. QED  BY <1>1, <1>2, AllocatorConstants

\* The same for the goroutines beyond the buffer after the step
LEMMA OverFiniteNext ==
    ASSUME NEW a
    PROVE  /\ Over(a)' \subseteq Goroutines /\ IsFiniteSet(Over(a)')
           /\ Cardinality(Over(a)') \in Nat /\ MaxRequest * Cardinality(Over(a)') \in Nat
<1>1. Over(a)' \subseteq Goroutines
  BY DEF Over
<1>2. IsFiniteSet(Over(a)') /\ Cardinality(Over(a)') \in Nat
  BY <1>1, AllocatorConstants, FS_Subset, FS_CardinalityType
<1>. QED  BY <1>1, <1>2, AllocatorConstants

\* A claim starts where the position was, above all that was claimed before.
LEMMA ClaimStep ==
    ASSUME RequestsFit, PoolInv, NEW g \in Goroutines, pc[g] \notin Claimed,
           NEW id \in Nat, NEW a \in held, NEW sz \in 1..MaxRequest, NEW aligned \in BOOLEAN,
           aligned => NodeAlign < sz,
           Claim(g, id, a, sz, aligned), calls' \in Nat, UNCHANGED poolVars
    PROVE  PoolInv'
<1>. DEFINE c == [buf |-> compIdx[a].buf, pos |-> compIdx[a].pos + sz]
            rec == [id |-> id, ref |-> a, sz |-> sz, aligned |-> aligned,
                    buf |-> c.buf, pos |-> c.pos]
<1>0. PoolTypeOK /\ a \in Refs /\ a \in allocs /\ a <= allocRef /\ sz \in Nat \ {0} /\ MaxRequest \in Nat
  BY RefsInUse, AllocatorConstants DEF PoolInv
<1>1. /\ compIdx[a] \in [buf : BufIdx, pos : Nat]
      /\ compIdx[a].pos + sz < PosWord
      /\ Advanced(compIdx[a], sz) = c
  <2>1. compIdx[a] \in [buf : BufIdx, pos : Nat]
    BY <1>0 DEF PoolTypeOK
  <2>2. compIdx[a].pos + MaxRequest < PosWord
    BY <1>0 DEF PoolInv, NoCarry
  <2>3. compIdx[a].pos + sz < PosWord
    BY <1>0, <2>1, <2>2, AllocatorConstants
  <2>. QED  BY <2>1, <2>3 DEF Advanced
<1>2. /\ compIdx' = [compIdx EXCEPT ![a] = c]
      /\ call' = [call EXCEPT ![g] = rec]
      /\ pc' = [pc EXCEPT ![g] = "look"]
      /\ UNCHANGED <<buffers, mutex, allocs, allocRef, live, held, given, panicked>>
      /\ UNCHANGED <<allocCh, chClosed, fp>>
  BY <1>1 DEF Claim, Goto, poolVars
<1>3. /\ c \in [buf : BufIdx, pos : Nat]
      /\ rec \in [id : Nat, ref : Refs, sz : Nat, aligned : BOOLEAN, buf : BufIdx, pos : Nat]
      /\ rec.id = id /\ rec.ref = a /\ rec.sz = sz /\ rec.aligned = aligned
      /\ rec.buf = compIdx[a].buf /\ rec.pos = compIdx[a].pos + sz
      /\ c.buf = compIdx[a].buf /\ c.pos = compIdx[a].pos + sz
  BY <1>0, <1>1
<1>. HIDE DEF c, rec
<1>4. /\ compIdx'[a] = c /\ \A b \in Refs : b # a => compIdx'[b] = compIdx[b]
      /\ call'[g] = rec /\ \A h \in Goroutines : h # g => call'[h] = call[h]
      /\ pc'[g] = "look" /\ \A h \in Goroutines : h # g => pc'[h] = pc[h]
  BY <1>0, <1>2 DEF PoolTypeOK
<1>5. PoolTypeOK'
  BY <1>0, <1>2, <1>3 DEF PoolTypeOK, Inside
<1>6. /\ \A b \in Refs : compIdx'[b].buf = compIdx[b].buf /\ compIdx[b].pos <= compIdx'[b].pos
      /\ \A b \in Refs : compIdx[b].pos \in Nat /\ compIdx'[b].pos \in Nat
  <2>. SUFFICES ASSUME NEW b \in Refs
                PROVE  /\ compIdx'[b].buf = compIdx[b].buf /\ compIdx[b].pos <= compIdx'[b].pos
                       /\ compIdx[b].pos \in Nat /\ compIdx'[b].pos \in Nat
    OBVIOUS
  <2>1. compIdx[b].pos \in Nat /\ compIdx'[b].pos \in Nat
    BY <1>0, <1>5 DEF PoolTypeOK
  <2>2. CASE b = a
    BY <1>0, <1>3, <1>4, <2>1, <2>2
  <2>3. CASE b # a
    BY <1>4, <2>1, <2>3
  <2>. QED  BY <2>2, <2>3, <2>1
<1>7. CallsOK'
  <2>. SUFFICES ASSUME NEW h \in Goroutines PROVE CallOK(h)'
    BY DEF CallsOK
  <2>1. CASE h = g
    <3>1. /\ a \in held' /\ rec.sz <= rec.pos /\ compIdx'[a].buf = rec.buf /\ compIdx'[a].pos = rec.pos
          /\ rec.pos \in Nat /\ compIdx'[a].buf \in Nat
      BY <1>0, <1>1, <1>2, <1>3, <1>4, AllocatorConstants DEF BufIdx
    <3>. QED  BY <1>3, <1>4, <2>1, <3>1 DEF CallOK, Claimed, Growing
  <2>2. CASE h # g
    <3>1. CallOK(h) /\ call[h].ref \in Refs /\ call[h].pos \in Nat
      BY <1>0 DEF PoolInv, CallsOK, PoolTypeOK
    <3>. QED  BY <1>2, <1>4, <1>6, <2>2, <3>1 DEF CallOK
  <2>. QED  BY <2>1, <2>2
<1>8. SlicesBelow'
  <2>. SUFFICES ASSUME NEW r \in given
                PROVE  /\ r.buf <= compIdx'[r.ref].buf
                       /\ r.buf = compIdx'[r.ref].buf => r.to <= compIdx'[r.ref].pos
    BY <1>2 DEF SlicesBelow
  <2>1. r.ref \in Refs /\ r.to \in Nat
    BY <1>0 DEF PoolTypeOK
  <2>. QED  BY <1>6, <2>1 DEF PoolInv, SlicesBelow
<1>9. NoOverlap' /\ HeldIntact' /\ Prefixes' /\ Balanced'
  BY <1>2 DEF PoolInv, NoOverlap, Disjoint, HeldIntact, Prefixes, Balanced
<1>10. ClaimsApart'
  <2>1. ASSUME NEW h \in Goroutines, h # g, pc[h] = "look",
               call[h].ref = a, call[h].buf = rec.buf
        PROVE  call[h].pos <= rec.pos - rec.sz
    <3>1. call[h].pos <= compIdx[a].pos
      BY <1>3, <2>1 DEF PoolInv, CallsOK, CallOK, Claimed
    <3>. QED  BY <1>0, <1>1, <1>3, <3>1
  <2>2. ASSUME NEW r \in given, r.ref = a, r.buf = rec.buf
        PROVE  r.to <= rec.pos - rec.sz
    <3>1. r.to <= compIdx[a].pos
      BY <1>3, <2>2 DEF PoolInv, SlicesBelow
    <3>. QED  BY <1>0, <1>1, <1>3, <3>1
  <2>3. \A h, k \in Goroutines :
          /\ h # k /\ pc'[h] = "look" /\ pc'[k] = "look"
          /\ call'[h].ref = call'[k].ref /\ call'[h].buf = call'[k].buf
          => \/ call'[h].pos <= call'[k].pos - call'[k].sz
             \/ call'[k].pos <= call'[h].pos - call'[h].sz
    <3>. SUFFICES ASSUME NEW h \in Goroutines, NEW k \in Goroutines, h # k,
                         pc'[h] = "look", pc'[k] = "look",
                         call'[h].ref = call'[k].ref, call'[h].buf = call'[k].buf
                  PROVE  \/ call'[h].pos <= call'[k].pos - call'[k].sz
                         \/ call'[k].pos <= call'[h].pos - call'[h].sz
      OBVIOUS
    <3>1. CASE h = g
      BY <1>3, <1>4, <2>1, <3>1
    <3>2. CASE k = g
      BY <1>3, <1>4, <2>1, <3>2
    <3>3. CASE h # g /\ k # g
      BY <1>4, <3>3 DEF PoolInv, ClaimsApart
    <3>. QED  BY <3>1, <3>2, <3>3
  <2>4. \A h \in Goroutines, r \in given' :
          pc'[h] = "look" /\ call'[h].ref = r.ref /\ call'[h].buf = r.buf
          => call'[h].pos <= r.from \/ r.to <= call'[h].pos - call'[h].sz
    <3>. SUFFICES ASSUME NEW h \in Goroutines, NEW r \in given, pc'[h] = "look",
                         call'[h].ref = r.ref, call'[h].buf = r.buf
                  PROVE  call'[h].pos <= r.from \/ r.to <= call'[h].pos - call'[h].sz
      BY <1>2
    <3>1. CASE h = g
      BY <1>3, <1>4, <2>2, <3>1
    <3>2. CASE h # g
      BY <1>4, <3>2 DEF PoolInv, ClaimsApart
    <3>. QED  BY <3>1, <3>2
  <2>. QED  BY <2>3, <2>4 DEF ClaimsApart
<1>11. Owned'
  <2>1. \A b \in Refs : b > allocRef' => compIdx'[b] = Zero
    <3>1. \A b \in Refs : b > allocRef => b # a
      BY <1>0, RefsInUse DEF Refs
    <3>. QED  BY <1>2, <1>4, <3>1 DEF PoolInv, Owned
  <2>. QED  BY <1>2, <2>1 DEF PoolInv, Owned
<1>12. PosBound'
  <2>. SUFFICES ASSUME NEW b \in held
                PROVE compIdx'[b].pos <= buffers[b][compIdx[b].buf]
                                         + MaxRequest * Cardinality(Over(b)')
    BY <1>2, <1>6, RefsInUse DEF PosBound, PoolInv
  <2>1. /\ b \in Refs /\ buffers[b][compIdx[b].buf] \in Nat /\ compIdx[b].pos \in Nat
        /\ compIdx[b].pos <= buffers[b][compIdx[b].buf] + MaxRequest * Cardinality(Over(b))
    <3>1. b \in Refs /\ compIdx[b] \in [buf : BufIdx, pos : Nat] /\ buffers[b] \in [BufIdx -> 0..MaxAlloc]
      BY <1>0, RefsInUse DEF PoolTypeOK
    <3>2. buffers[b][compIdx[b].buf] \in Nat /\ compIdx[b].pos \in Nat
      BY <3>1, AllocatorConstants
    <3>. QED  BY <3>1, <3>2 DEF PoolInv, PosBound
  <2>2. CASE b # a
    <3>1. Over(b)' = Over(b)
      BY <1>2, <1>3, <1>4, <2>1, <2>2 DEF Over
    <3>. QED  BY <1>4, <2>1, <2>2, <3>1
  <2>3. CASE b = a /\ rec.pos <= buffers[a][compIdx[a].buf]
    BY <1>3, <1>4, <2>1, <2>3, OverFiniteNext
  <2>4. CASE b = a /\ rec.pos > buffers[a][compIdx[a].buf]
    <3>1. Over(a)' = Over(a) \cup {g} /\ g \notin Over(a)
      BY <1>0, <1>2, <1>3, <1>4, <2>4 DEF Over, Claimed
    <3>2. Cardinality(Over(a)') = Cardinality(Over(a)) + 1
      BY <3>1, OverFinite, FS_AddElement
    <3>3. MaxRequest * Cardinality(Over(a)') = MaxRequest * Cardinality(Over(a)) + MaxRequest
      BY <1>0, <3>2, OverFinite
    <3>. QED  BY <1>0, <1>3, <1>4, <2>1, <2>4, <3>3, OverFinite
  <2>. QED
    <3>1. rec.pos \in Nat
      BY <1>0, <1>3
    <3>. QED  BY <2>1, <2>2, <2>3, <2>4, <3>1
<1>13. NoCarry'
  BY <1>2, <1>4, <1>5, <1>12, CarryStep DEF PoolInv
<1>. QED  BY <1>5, <1>7, <1>8, <1>9, <1>10, <1>11, <1>12, <1>13 DEF PoolInv

\* The first claim of a call
LEMMA AllocateCallStep ==
    ASSUME RequestsFit, PoolInv, NEW g \in Goroutines, NEW a \in held,
           \/ \E sz \in Sizes : AllocateCall(g, a, sz, FALSE)
           \/ \E sz \in AlignedSizes : AllocateCall(g, a, sz, TRUE),
           UNCHANGED poolVars
    PROVE  PoolInv'
<1>1. calls \in Nat
  BY DEF PoolInv, PoolTypeOK
<1>2. CASE \E sz \in Sizes : AllocateCall(g, a, sz, FALSE)
  <2>1. PICK sz \in Sizes : AllocateCall(g, a, sz, FALSE)
    BY <1>2
  <2>2. sz \in 1..MaxRequest /\ sz + (IF FALSE THEN NodeAlign ELSE 0) = sz
    BY AllocatorConstants
  <2>3. pc[g] \notin Claimed /\ calls' \in Nat /\ Claim(g, calls', a, sz, FALSE)
    <3>1. pc[g] \notin Claimed /\ calls' \in Nat
      BY <1>1, <2>1 DEF AllocateCall, CallBy, Claimed
    <3>2. Claim(g, calls', a, sz + (IF FALSE THEN NodeAlign ELSE 0), FALSE)
      BY <2>1, Zenon DEF AllocateCall
    <3>. QED  BY <2>2, <3>1, <3>2, Zenon
  <2>. QED  BY <2>2, <2>3, ClaimStep
<1>3. CASE \E sz \in AlignedSizes : AllocateCall(g, a, sz, TRUE)
  <2>1. PICK sz \in AlignedSizes : AllocateCall(g, a, sz, TRUE)
    BY <1>3
  <2>. DEFINE tsz == sz + NodeAlign
  <2>2. tsz \in 1..MaxRequest /\ NodeAlign < tsz
    BY AllocatorConstants
  <2>3. pc[g] \notin Claimed /\ calls' \in Nat /\ Claim(g, calls', a, tsz, TRUE)
    <3>1. pc[g] \notin Claimed /\ calls' \in Nat
      BY <1>1, <2>1 DEF AllocateCall, CallBy, Claimed
    <3>2. Claim(g, calls', a, sz + (IF TRUE THEN NodeAlign ELSE 0), TRUE)
      BY <2>1, Zenon DEF AllocateCall
    <3>3. sz + (IF TRUE THEN NodeAlign ELSE 0) = tsz
      OBVIOUS
    <3>. QED  BY <3>1, <3>2, <3>3, Zenon
  <2>. HIDE DEF tsz
  <2>. QED  BY <2>2, <2>3, ClaimStep
<1>. QED  BY <1>2, <1>3

\* A further claim of a call that starts over
LEMMA AddIdxStep ==
    ASSUME RequestsFit, PoolInv, NEW g \in Goroutines, AddIdx(g), UNCHANGED poolVars
    PROVE  PoolInv'
<1>. DEFINE c == call[g]
<1>1. /\ pc[g] \notin Claimed /\ c.ref \in held /\ c.sz \in 1..MaxRequest
      /\ c.aligned => NodeAlign < c.sz
  BY DEF AddIdx, PoolInv, CallsOK, CallOK, Inside, Claimed
<1>2. c.id \in Nat /\ c.aligned \in BOOLEAN /\ calls' \in Nat
  BY DEF AddIdx, PoolInv, PoolTypeOK
<1>3. Claim(g, c.id, c.ref, c.sz, c.aligned)
  BY DEF AddIdx
<1>. QED  BY <1>1, <1>2, <1>3, ClaimStep

\* The slice lies inside what the call claimed.
LEMMA SliceInClaim ==
    ASSUME RequestsFit, PoolInv, NEW g \in Goroutines, pc[g] = "look"
    PROVE  /\ Slice(g).id = call[g].id /\ Slice(g).ref = call[g].ref /\ Slice(g).buf = call[g].buf
           /\ Slice(g) \in [id : Nat, ref : Refs, buf : BufIdx, from : Nat, to : Nat]
           /\ call[g].pos - call[g].sz <= Slice(g).from
           /\ Slice(g).from < Slice(g).to /\ Slice(g).to <= call[g].pos
<1>. DEFINE from == call[g].pos - call[g].sz
            start == IF call[g].aligned THEN AlignUp(from) ELSE from
            len == IF call[g].aligned THEN call[g].sz - NodeAlign ELSE call[g].sz
<1>1. /\ call[g] \in [id : Nat, ref : Refs, sz : Nat, aligned : BOOLEAN, buf : BufIdx, pos : Nat]
      /\ call[g].sz \in 1..MaxRequest /\ call[g].sz <= call[g].pos
      /\ call[g].aligned => NodeAlign < call[g].sz
  BY DEF PoolInv, PoolTypeOK, CallsOK, CallOK, Inside, Claimed
<1>2. from \in Nat /\ NodeAlign \in Nat
  BY <1>1, AllocatorConstants
<1>3. AlignUp(from) \in Nat /\ from <= AlignUp(from) /\ AlignUp(from) <= from + NodeAlign
  <2>. HIDE DEF from
  <2>. QED  BY <1>2, AlignStays
<1>4. start \in Nat /\ len \in Nat \ {0} /\ from <= start /\ start + len <= call[g].pos
  <2>1. CASE call[g].aligned
    BY <1>1, <1>2, <1>3, <2>1
  <2>2. CASE ~call[g].aligned
    BY <1>1, <1>2, <2>2
  <2>. QED  BY <2>1, <2>2
<1>5. Slice(g) = [id |-> call[g].id, ref |-> call[g].ref, buf |-> call[g].buf,
                  from |-> start, to |-> start + len]
  BY DEF Slice
<1>. HIDE DEF from, start, len
<1>6. /\ Slice(g).id = call[g].id /\ Slice(g).ref = call[g].ref /\ Slice(g).buf = call[g].buf
      /\ Slice(g).from = start /\ Slice(g).to = start + len
  BY <1>5
<1>7. start + len \in Nat /\ start < start + len
  BY <1>4
<1>8. Slice(g) \in [id : Nat, ref : Refs, buf : BufIdx, from : Nat, to : Nat]
  BY <1>1, <1>4, <1>5, <1>7
<1>9. call[g].pos - call[g].sz <= Slice(g).from
  BY <1>4, <1>6 DEF from
<1>. QED  BY <1>4, <1>6, <1>7, <1>8, <1>9

\* A claim that fits becomes a slice.
LEMMA LookFoundStep ==
    ASSUME RequestsFit, PoolInv, NEW g \in Goroutines, pc[g] = "look", Fits(g),
           Goto(g, "idle"), given' = given \cup {Slice(g)},
           UNCHANGED <<memVars, held, call, calls, panicked>>, UNCHANGED poolVars
    PROVE  PoolInv'
<1>. USE DEF memVars, poolVars
<1>. DEFINE s == Slice(g)
<1>0. PoolTypeOK /\ CallOK(g) /\ call[g].ref \in held /\ call[g].ref \in Refs
      /\ call[g].pos \in Nat /\ call[g].sz \in Nat /\ call[g].buf \in BufIdx
  BY DEF PoolInv, PoolTypeOK, CallsOK, CallOK, Inside
<1>1. /\ s.ref = call[g].ref /\ s.buf = call[g].buf
      /\ s \in [id : Nat, ref : Refs, buf : BufIdx, from : Nat, to : Nat]
      /\ s.from \in Nat /\ s.to \in Nat
      /\ call[g].pos - call[g].sz <= s.from /\ s.from < s.to /\ s.to <= call[g].pos
  BY SliceInClaim
<1>. HIDE DEF s
<1>2. /\ pc'[g] = "idle" /\ \A h \in Goroutines : h # g => pc'[h] = pc[h]
      /\ pc' \in [Goroutines -> Labels]
      /\ \A h \in Goroutines : pc'[h] \in Inside => pc'[h] = pc[h] /\ h # g
      /\ Claimed \subseteq Inside /\ Growing \subseteq Inside /\ "look" \in Inside
      /\ "store" \in Inside
  BY <1>0 DEF Goto, PoolTypeOK, Labels, Inside, Claimed, Growing
<1>3. given' = given \cup {s}
  BY DEF s
<1>4. PoolTypeOK'
  BY <1>0, <1>1, <1>2, <1>3 DEF PoolTypeOK, Labels
<1>5. CallsOK'
  BY <1>2 DEF PoolInv, CallsOK, CallOK
<1>6. Owned' /\ Prefixes' /\ Balanced'
  BY DEF PoolInv, Owned, Prefixes, Balanced, Zero
<1>7. SlicesBelow'
  <2>1. /\ s.buf <= compIdx[s.ref].buf
        /\ s.buf = compIdx[s.ref].buf => s.to <= compIdx[s.ref].pos
    <3>1. /\ call[g].buf <= compIdx[s.ref].buf
          /\ call[g].buf = compIdx[s.ref].buf => call[g].pos <= compIdx[s.ref].pos
      BY <1>0, <1>1 DEF CallOK, Claimed
    <3>2. compIdx[s.ref].pos \in Nat
      BY <1>0, <1>1 DEF PoolTypeOK
    <3>. QED  BY <1>0, <1>1, <3>1, <3>2
  <2>. QED  BY <1>3, <2>1 DEF PoolInv, SlicesBelow
<1>8. \A r \in given : Disjoint(r, s) /\ Disjoint(s, r)
  <2>. SUFFICES ASSUME NEW r \in given, r.ref = s.ref, r.buf = s.buf
                PROVE  r.to <= s.from \/ s.to <= r.from
    BY DEF Disjoint
  <2>1. call[g].pos <= r.from \/ r.to <= call[g].pos - call[g].sz
    BY <1>1 DEF PoolInv, ClaimsApart
  <2>2. r.from \in Nat /\ r.to \in Nat
    BY <1>0 DEF PoolTypeOK
  <2>. QED  BY <1>0, <1>1, <2>1, <2>2
<1>9. NoOverlap'
  BY <1>3, <1>8 DEF PoolInv, NoOverlap
<1>10. HeldIntact'
  <2>1. s.ref \in held /\ s.ref \in allocs
    BY <1>0, <1>1, RefsInUse
  <2>2. s.to <= buffers[s.ref][s.buf]
    <3>1. call[g].pos <= buffers[s.ref][s.buf]
      BY <1>1 DEF Fits
    <3>2. buffers[s.ref][s.buf] \in Nat
      BY <1>0, <1>1, AllocatorConstants DEF PoolTypeOK
    <3>. QED  BY <1>0, <1>1, <3>1, <3>2
  <2>3. 0 <= s.from /\ s.from < s.to
    BY <1>1
  <2>4. live[s.ref][s.buf] = 1
    <3>1. buffers[s.ref][s.buf] # 0
      BY <1>1, <2>2
    <3>2. Intact(live[s.ref], buffers[s.ref])
      BY <1>1, <2>1 DEF PoolInv, Balanced
    <3>. QED  BY <1>1, <3>1, <3>2 DEF Intact
  <2>. QED  BY <1>3, <2>1, <2>2, <2>3, <2>4 DEF PoolInv, HeldIntact
<1>11. ClaimsApart'
  <2>1. ASSUME NEW h \in Goroutines, h # g, pc[h] = "look", call[h].ref = s.ref, call[h].buf = s.buf
        PROVE  call[h].pos <= s.from \/ s.to <= call[h].pos - call[h].sz
    <3>1. call[g].pos <= call[h].pos - call[h].sz \/ call[h].pos <= call[g].pos - call[g].sz
      BY <1>1, <2>1 DEF PoolInv, ClaimsApart
    <3>2. call[h].pos \in Nat /\ call[h].sz \in Nat
      BY <1>0 DEF PoolTypeOK
    <3>. QED  BY <1>0, <1>1, <3>1, <3>2
  <2>2. \A h \in Goroutines : pc'[h] = "look" => pc[h] = "look" /\ h # g
    BY <1>2
  <2>3. \A h \in Goroutines, r \in given' :
          pc'[h] = "look" /\ call'[h].ref = r.ref /\ call'[h].buf = r.buf
          => call'[h].pos <= r.from \/ r.to <= call'[h].pos - call'[h].sz
    <3>. SUFFICES ASSUME NEW h \in Goroutines, NEW r \in given', pc'[h] = "look",
                         call[h].ref = r.ref, call[h].buf = r.buf
                  PROVE  call[h].pos <= r.from \/ r.to <= call[h].pos - call[h].sz
      OBVIOUS
    <3>1. CASE r \in given
      BY <2>2, <3>1 DEF PoolInv, ClaimsApart
    <3>2. CASE r = s
      BY <2>1, <2>2, <3>2
    <3>. QED  BY <1>3, <3>1, <3>2
  <2>. QED  BY <2>2, <2>3 DEF PoolInv, ClaimsApart
<1>12. PosBound' /\ NoCarry'
  <2>1. ASSUME NEW a \in held PROVE Over(a)' = Over(a)
    <3>1. g \notin Over(a)'
      BY <1>2 DEF Over, Claimed
    <3>2. g \notin Over(a)
      <4>1. ~(call[g].pos > buffers[call[g].ref][call[g].buf])
        <5>1. buffers[call[g].ref][call[g].buf] \in Nat
          BY <1>0, AllocatorConstants DEF PoolTypeOK
        <5>. QED  BY <1>0, <5>1 DEF Fits
      <4>. QED  BY <4>1 DEF Over
    <3>3. \A h \in Goroutines : h # g => (h \in Over(a)' <=> h \in Over(a))
      BY <1>2 DEF Over
    <3>4. Over(a) \subseteq Goroutines /\ Over(a)' \subseteq Goroutines
      BY DEF Over
    <3>. QED  BY <3>1, <3>2, <3>3, <3>4
  <2>. QED  BY <2>1 DEF PoolInv, PosBound, NoCarry
<1>. QED  BY <1>4, <1>5, <1>6, <1>7, <1>9, <1>10, <1>11, <1>12 DEF PoolInv

\* A look at the claim, whether it fits or not
LEMMA LookStep ==
    ASSUME RequestsFit, PoolInv, NEW g \in Goroutines, Look(g), UNCHANGED poolVars
    PROVE  PoolInv'
<1>1. CASE Fits(g) /\ Goto(g, "idle") /\ given' = given \cup {Slice(g)}
  BY <1>1, LookFoundStep DEF Look
<1>2. CASE ~Fits(g) /\ Goto(g, "lock") /\ UNCHANGED given
  <2>. USE DEF memVars, poolVars
  <2>0. pc[g] = "look" /\ UNCHANGED <<memVars, held, call, calls, panicked>> /\ UNCHANGED given
    BY <1>2 DEF Look
  <2>1. /\ pc'[g] = "lock" /\ pc' \in [Goroutines -> Labels]
        /\ \A h \in Goroutines : h # g => pc'[h] = pc[h]
        /\ \A h \in Goroutines : pc'[h] = "look" => pc[h] = "look"
        /\ \A h \in Goroutines : pc'[h] \in Claimed <=> pc[h] \in Claimed
    BY <1>2, <2>0 DEF Goto, PoolInv, PoolTypeOK, Labels, Inside, Claimed
  <2>2. PoolTypeOK'
    BY <2>0, <2>1 DEF PoolInv, PoolTypeOK, Labels
  <2>3. CallsOK'
    <3>. SUFFICES ASSUME NEW h \in Goroutines PROVE CallOK(h)'
      BY DEF CallsOK
    <3>1. CallOK(h)
      BY DEF PoolInv, CallsOK
    <3>2. CASE h = g
      BY <2>0, <2>1, <3>1, <3>2 DEF CallOK, Inside, Claimed, Growing
    <3>3. CASE h # g
      BY <2>0, <2>1, <3>1, <3>3 DEF CallOK
    <3>. QED  BY <3>2, <3>3
  <2>4. Owned' /\ SlicesBelow' /\ NoOverlap' /\ HeldIntact' /\ Prefixes' /\ Balanced' /\ NoCarry'
    BY <2>0 DEF PoolInv, Owned, SlicesBelow, NoOverlap, Disjoint, HeldIntact, Prefixes,
                Balanced, NoCarry, Zero
  <2>5. ClaimsApart'
    BY <2>0, <2>1 DEF PoolInv, ClaimsApart
  <2>6. PosBound'
    <3>1. \A a \in held : Over(a)' = Over(a)
      BY <2>0, <2>1 DEF Over
    <3>. QED  BY <2>0, <3>1 DEF PoolInv, PosBound
  <2>. QED  BY <2>2, <2>3, <2>4, <2>5, <2>6 DEF PoolInv
<1>. QED  BY <1>1, <1>2 DEF Look

\* Taking the lock, with the index the same or another
LEMMA LockStep ==
    ASSUME RequestsFit, PoolInv, NEW g \in Goroutines, Lock(g), UNCHANGED poolVars
    PROVE  PoolInv'
<1>. USE DEF poolVars
<1>. DEFINE a == call[g].ref
<1>0. /\ pc[g] = "lock" /\ mutex[a] = NoOne /\ a \in Refs /\ a \in held /\ PoolTypeOK /\ CallOK(g)
      /\ UNCHANGED <<compIdx, buffers, allocs, allocRef, live, held, call, given, calls, panicked>>
  BY DEF Lock, PoolInv, PoolTypeOK, CallsOK, CallOK, Inside
<1>. HIDE DEF a
<1>1. /\ pc'[g] \in {"grow", "add"} /\ pc' \in [Goroutines -> Labels]
      /\ \A h \in Goroutines : h # g => pc'[h] = pc[h]
      /\ mutex' \in [Refs -> Goroutines \cup {NoOne}]
      /\ pc'[g] = "grow" => StillCurrent(g) /\ mutex'[a] = g
      /\ pc'[g] = "add" => ~StillCurrent(g)
      /\ \A b \in Refs : b # a => mutex'[b] = mutex[b]
  <2>1. mutex \in [Refs -> Goroutines \cup {NoOne}] /\ pc \in [Goroutines -> Labels]
    BY <1>0 DEF PoolTypeOK, Labels
  <2>2. CASE StillCurrent(g) /\ mutex' = [mutex EXCEPT ![a] = g] /\ Goto(g, "grow")
    <3>1. pc' = [pc EXCEPT ![g] = "grow"] /\ "grow" \in Labels /\ "grow" # "add"
      BY <2>2 DEF Goto, Labels, Inside
    <3>. QED  BY <1>0, <2>1, <2>2, <3>1
  <2>3. CASE ~StillCurrent(g) /\ UNCHANGED mutex /\ Goto(g, "add")
    <3>1. pc' = [pc EXCEPT ![g] = "add"] /\ "add" \in Labels /\ "grow" # "add"
      BY <2>3 DEF Goto, Labels, Inside
    <3>. QED  BY <1>0, <2>1, <2>3, <3>1
  <2>. QED  BY <2>2, <2>3 DEF Lock, a
<1>2. PoolTypeOK'
  BY <1>0, <1>1 DEF PoolTypeOK, Labels
<1>3. CallsOK'
  <2>. SUFFICES ASSUME NEW h \in Goroutines PROVE CallOK(h)'
    BY DEF CallsOK
  <2>1. CallOK(h) /\ call[h].ref \in Refs
    BY <1>0 DEF PoolInv, CallsOK, PoolTypeOK
  <2>2. CASE h = g
    BY <1>0, <1>1, <2>1, <2>2 DEF CallOK, Inside, Claimed, Growing, StillCurrent, a
  <2>3. CASE h # g
    <3>1. pc[h] \in Growing => call[h].ref # a
      BY <1>0, <2>1, AllocatorConstants DEF CallOK
    <3>. QED  BY <1>0, <1>1, <2>1, <2>3, <3>1 DEF CallOK
  <2>. QED  BY <2>2, <2>3
<1>4. Owned' /\ SlicesBelow' /\ NoOverlap' /\ HeldIntact' /\ Prefixes' /\ Balanced' /\ NoCarry'
  BY <1>0 DEF PoolInv, Owned, SlicesBelow, NoOverlap, Disjoint, HeldIntact, Prefixes,
              Balanced, NoCarry, Zero
<1>5. ClaimsApart'
  <2>1. \A h \in Goroutines : pc'[h] = "look" => pc[h] = "look"
    BY <1>1
  <2>. QED  BY <1>0, <2>1 DEF PoolInv, ClaimsApart
<1>6. PosBound'
  <2>1. ASSUME NEW b \in held PROVE Over(b)' = Over(b)
    <3>1. g \in Over(b)' <=> g \in Over(b)
      BY <1>0, <1>1 DEF Over, Claimed, StillCurrent
    <3>2. \A h \in Goroutines : h # g => (h \in Over(b)' <=> h \in Over(b))
      BY <1>0, <1>1 DEF Over
    <3>3. Over(b) \subseteq Goroutines /\ Over(b)' \subseteq Goroutines
      BY DEF Over
    <3>. QED  BY <3>1, <3>2, <3>3
  <2>. QED  BY <1>0, <2>1 DEF PoolInv, PosBound
<1>. QED  BY <1>2, <1>3, <1>4, <1>5, <1>6 DEF PoolInv

\* A buffer is added behind the one in use, where nothing is claimed yet.
LEMMA GrowStep ==
    ASSUME RequestsFit, PoolInv, NEW g \in Goroutines, Grow(g), UNCHANGED poolVars
    PROVE  PoolInv'
<1>. USE DEF poolVars
<1>. DEFINE a == call[g].ref
            found == Candidates(a, call[g].buf + 1, call[g].sz)
<1>0. /\ pc[g] = "grow" /\ a \in Refs /\ a \in held /\ a \in allocs /\ PoolTypeOK /\ CallOK(g)
      /\ call[g].buf = compIdx[a].buf /\ call[g].buf \in BufIdx /\ call[g].sz \in Nat \ {0}
      /\ UNCHANGED <<compIdx, mutex, allocs, allocRef, held, call, given, calls>>
  <2>1. pc[g] = "grow" /\ UNCHANGED <<compIdx, mutex, allocs, allocRef, held, call, given, calls>>
    BY DEF Grow
  <2>2. PoolTypeOK /\ CallOK(g) /\ "grow" \in Inside /\ "grow" \in Growing
    BY DEF PoolInv, CallsOK, Inside, Growing
  <2>3. call[g].buf = compIdx[a].buf /\ a \in held /\ call[g].sz \in 1..MaxRequest
    BY <2>1, <2>2 DEF CallOK
  <2>4. call[g].buf \in BufIdx
    BY <2>2 DEF PoolTypeOK
  <2>. QED  BY <2>1, <2>2, <2>3, <2>4, RefsInUse, AllocatorConstants
<1>1. CASE found = {} /\ Panic /\ UNCHANGED <<buffers, live, pc>>
  <2>1. UNCHANGED <<memVars, held, given, call, allocCh, pc, calls>> /\ panicked'
    BY <1>0, <1>1 DEF memVars, Panic
  <2>2. Owned'
    BY <2>1 DEF PoolInv, Owned, memVars, Zero
  <2>3. pc \in [Goroutines -> Labels] /\ calls \in Nat
    BY DEF PoolInv, PoolTypeOK, Labels
  <2>. QED  BY <2>1, <2>2, <2>3, FrameStep
<1>2. CASE \E i \in found :
              /\ \/ buffers[a][i] # 0 /\ UNCHANGED <<buffers, live>>
                 \/ /\ buffers[a][i] = 0 /\ buffers[a][i - 1] # 0
                    /\ buffers' = [buffers EXCEPT ![a][i] =
                                      NextPage(buffers[a][i - 1], call[g].sz)]
                    /\ live' = [live EXCEPT ![a][i] = @ + 1]
              /\ Goto(g, "store")
              /\ UNCHANGED panicked
  <2>1. PICK i \in found :
              /\ \/ buffers[a][i] # 0 /\ UNCHANGED <<buffers, live>>
                 \/ /\ buffers[a][i] = 0 /\ buffers[a][i - 1] # 0
                    /\ buffers' = [buffers EXCEPT ![a][i] =
                                      NextPage(buffers[a][i - 1], call[g].sz)]
                    /\ live' = [live EXCEPT ![a][i] = @ + 1]
              /\ Goto(g, "store")
              /\ UNCHANGED panicked
    BY <1>2
  <2>2. /\ i \in BufIdx /\ i \in Nat /\ i > call[g].buf /\ call[g].buf \in Nat
        /\ i - 1 \in BufIdx /\ call[g].buf + 1 \in BufIdx
    BY <1>0, AllocatorConstants DEF Candidates, BufIdx
  <2>. HIDE DEF a, found
  <2>3. /\ buffers' \in [Refs -> [BufIdx -> 0..MaxAlloc]]
        /\ live' \in [Refs -> [BufIdx -> Int]]
        /\ \A b \in Refs : b # a => buffers'[b] = buffers[b] /\ live'[b] = live[b]
        /\ \A j \in BufIdx : j # i => buffers'[a][j] = buffers[a][j] /\ live'[a][j] = live[a][j]
        /\ Prefix(buffers'[a]) /\ Intact(live'[a], buffers'[a])
    <3>1. /\ buffers \in [Refs -> [BufIdx -> 0..MaxAlloc]] /\ Prefix(buffers[a])
          /\ live \in [Refs -> [BufIdx -> Int]] /\ Intact(live[a], buffers[a])
      BY <1>0 DEF PoolInv, PoolTypeOK, Prefixes, Balanced
    <3>2. CASE UNCHANGED <<buffers, live>>
      BY <3>1, <3>2
    <3>3. CASE /\ buffers[a][i] = 0 /\ buffers[a][i - 1] # 0
               /\ live' = [live EXCEPT ![a][i] = @ + 1]
               /\ buffers' = [buffers EXCEPT ![a][i] = NextPage(buffers[a][i - 1], call[g].sz)]
      <4>. DEFINE page == NextPage(buffers[a][i - 1], call[g].sz)
      <4>1. buffers[a][i - 1] \in Nat \ {0}
        BY <1>0, <2>2, <3>1, <3>3, AllocatorConstants
      <4>2. page \in 1..MaxAlloc
        BY <1>0, <4>1, NextPageFits
      <4>3. page \in 0..MaxAlloc /\ page # 0
        BY <4>2, AllocatorConstants
      <4>. HIDE DEF page
      <4>4. buffers' = [buffers EXCEPT ![a][i] = page]
        BY <3>3 DEF page
      <4>5. /\ buffers' \in [Refs -> [BufIdx -> 0..MaxAlloc]]
            /\ \A b \in Refs : b # a => buffers'[b] = buffers[b]
            /\ \A j \in BufIdx : j # i => buffers'[a][j] = buffers[a][j]
            /\ buffers'[a][i] = page
        BY <1>0, <2>2, <3>1, <4>3, <4>4
      <4>6. ASSUME NEW j \in BufIdx, NEW k \in BufIdx, j < k, buffers'[a][j] = 0
            PROVE  buffers'[a][k] = 0
        <5>1. j # i /\ buffers[a][j] = 0
          BY <4>3, <4>5, <4>6
        <5>2. j \in Nat /\ k \in Nat
          BY AllocatorConstants DEF BufIdx
        <5>3. j >= i - 1
          BY <2>2, <3>1, <3>3, <5>1, <5>2 DEF Prefix
        <5>4. j # i - 1
          BY <3>3, <5>1
        <5>5. k # i
          BY <2>2, <4>6, <5>1, <5>2, <5>3, <5>4
        <5>6. buffers[a][k] = 0
          BY <3>1, <4>6, <5>1 DEF Prefix
        <5>. QED  BY <4>5, <5>5, <5>6
      <4>7. /\ live' \in [Refs -> [BufIdx -> Int]]
            /\ \A b \in Refs : b # a => live'[b] = live[b]
            /\ \A j \in BufIdx : j # i => live'[a][j] = live[a][j]
            /\ live'[a][i] = live[a][i] + 1 /\ live[a][i] = 0
        <5>1. live[a][i] = 0
          BY <2>2, <3>1, <3>3 DEF Intact
        <5>. QED  BY <1>0, <2>2, <3>1, <3>3, <5>1
      <4>8. Intact(live'[a], buffers'[a])
        BY <2>2, <3>1, <4>3, <4>5, <4>7 DEF Intact
      <4>. QED  BY <4>5, <4>6, <4>7, <4>8 DEF Prefix
    <3>. QED  BY <2>1, <3>2, <3>3
  <2>4. /\ pc'[g] = "store" /\ pc' \in [Goroutines -> Labels]
        /\ \A h \in Goroutines : h # g => pc'[h] = pc[h]
        /\ \A h \in Goroutines : pc'[h] = "look" => pc[h] = "look"
        /\ \A h \in Goroutines : pc'[h] \in Claimed <=> pc[h] \in Claimed
    BY <1>0, <2>1 DEF Goto, PoolTypeOK, Labels, Inside, Claimed
  <2>5. PoolTypeOK'
    BY <1>0, <2>3, <2>4 DEF PoolTypeOK, Labels
  <2>6. CallsOK'
    <3>. SUFFICES ASSUME NEW h \in Goroutines PROVE CallOK(h)'
      BY DEF CallsOK
    <3>1. CallOK(h)
      BY DEF PoolInv, CallsOK
    <3>2. CASE h = g
      BY <1>0, <2>2, <2>4, <3>1, <3>2 DEF CallOK, Inside, Claimed, Growing
    <3>3. CASE h # g
      BY <1>0, <2>4, <3>1, <3>3 DEF CallOK
    <3>. QED  BY <3>2, <3>3
  <2>7. Owned' /\ SlicesBelow' /\ NoOverlap' /\ NoCarry'
    BY <1>0, <2>1 DEF PoolInv, Owned, SlicesBelow, NoOverlap, Disjoint, NoCarry, Zero
  <2>8. HeldIntact'
    <3>. SUFFICES ASSUME NEW r \in given
                  PROVE  /\ buffers'[r.ref][r.buf] = buffers[r.ref][r.buf]
                         /\ live'[r.ref][r.buf] = live[r.ref][r.buf]
      BY <1>0 DEF PoolInv, HeldIntact
    <3>1. r.ref \in Refs /\ r.buf \in BufIdx /\ r.buf \in Nat
      <4>1. r.ref \in Refs /\ r.buf \in BufIdx
        BY <1>0 DEF PoolTypeOK
      <4>. QED  BY <4>1, AllocatorConstants DEF BufIdx
    <3>2. r.ref = a => r.buf # i
      BY <1>0, <2>2, <3>1 DEF PoolInv, SlicesBelow
    <3>. QED  BY <2>3, <3>1, <3>2
  <2>9. Prefixes'
    BY <2>3 DEF PoolInv, Prefixes
  <2>10. Balanced'
    <3>. SUFFICES ASSUME NEW b \in Refs
                  PROVE  /\ b \in allocs => Intact(live'[b], buffers'[b])
                         /\ b \notin allocs => GivenBack(live'[b])
      BY <1>0 DEF Balanced
    <3>1. CASE b = a
      BY <1>0, <2>3, <3>1
    <3>2. CASE b # a
      BY <2>3, <3>2 DEF PoolInv, Balanced
    <3>. QED  BY <3>1, <3>2
  <2>11. ClaimsApart'
    BY <1>0, <2>4 DEF PoolInv, ClaimsApart
  <2>12. PosBound'
    <3>. SUFFICES ASSUME NEW b \in held
                  PROVE  /\ buffers'[b][compIdx[b].buf] = buffers[b][compIdx[b].buf]
                         /\ Over(b)' = Over(b)
      BY <1>0 DEF PoolInv, PosBound
    <3>1. b \in Refs /\ compIdx[b].buf \in BufIdx
      BY <1>0, RefsInUse DEF PoolTypeOK
    <3>2. buffers'[b][compIdx[b].buf] = buffers[b][compIdx[b].buf]
      BY <1>0, <2>2, <2>3, <3>1
    <3>3. Over(b)' = Over(b)
      BY <1>0, <2>4, <3>2 DEF Over
    <3>. QED  BY <3>2, <3>3
  <2>. QED  BY <2>5, <2>6, <2>7, <2>8, <2>9, <2>10, <2>11, <2>12 DEF PoolInv
<1>. QED  BY <1>1, <1>2 DEF Grow

\* The next buffer comes into use, empty; only the holder of the lock does that.
LEMMA StoreStep ==
    ASSUME RequestsFit, PoolInv, NEW g \in Goroutines, Store(g), UNCHANGED poolVars
    PROVE  PoolInv'
<1>. USE DEF poolVars
<1>. DEFINE a == call[g].ref
            c == [buf |-> call[g].buf + 1, pos |-> 0]
<1>0. /\ pc[g] = "store" /\ a \in Refs /\ a \in held /\ a <= allocRef /\ PoolTypeOK /\ CallOK(g)
      /\ mutex[a] = g /\ call[g].buf = compIdx[a].buf /\ call[g].buf + 1 \in BufIdx
      /\ call[g].buf \in Nat
      /\ UNCHANGED <<buffers, allocs, allocRef, live, held, call, given, calls, panicked>>
  <2>1. /\ pc[g] = "store"
        /\ UNCHANGED <<buffers, allocs, allocRef, live, held, call, given, calls, panicked>>
    BY DEF Store
  <2>2. PoolTypeOK /\ CallOK(g) /\ "store" \in Inside /\ "store" \in Growing
    BY DEF PoolInv, CallsOK, Inside, Growing
  <2>3. /\ call[g].buf = compIdx[a].buf /\ mutex[a] = g /\ a \in held
        /\ call[g].buf + 1 \in BufIdx
    BY <2>1, <2>2 DEF CallOK
  <2>4. call[g].buf \in Nat
    BY <2>2, AllocatorConstants DEF PoolTypeOK, BufIdx
  <2>. QED  BY <2>1, <2>2, <2>3, <2>4, RefsInUse
<1>1. /\ compIdx' = [compIdx EXCEPT ![a] = c] /\ mutex' = [mutex EXCEPT ![a] = NoOne]
      /\ pc' = [pc EXCEPT ![g] = "add"]
  BY DEF Store, Goto
<1>2. c \in [buf : BufIdx, pos : Nat] /\ c.buf = compIdx[a].buf + 1 /\ c.pos = 0
  BY <1>0
<1>. HIDE DEF a, c
<1>3. /\ compIdx'[a] = c /\ \A b \in Refs : b # a => compIdx'[b] = compIdx[b]
      /\ \A b \in Refs : b # a => mutex'[b] = mutex[b]
      /\ pc'[g] = "add" /\ \A h \in Goroutines : h # g => pc'[h] = pc[h]
      /\ \A h \in Goroutines : pc'[h] = "look" => pc[h] = "look"
  BY <1>0, <1>1 DEF PoolTypeOK
<1>4. PoolTypeOK'
  BY <1>0, <1>1, <1>2 DEF PoolTypeOK, Inside
<1>5. CallsOK'
  <2>. SUFFICES ASSUME NEW h \in Goroutines PROVE CallOK(h)'
    BY DEF CallsOK
  <2>1. CallOK(h) /\ call[h].ref \in Refs /\ call[h].buf \in Nat /\ compIdx[a].buf \in Nat
    BY <1>0, AllocatorConstants DEF PoolInv, CallsOK, PoolTypeOK, BufIdx
  <2>2. CASE h = g
    BY <1>0, <1>3, <2>1, <2>2 DEF CallOK, Inside, Claimed, Growing
  <2>3. CASE h # g /\ call[h].ref # a
    BY <1>0, <1>3, <2>1, <2>3 DEF CallOK
  <2>4. CASE h # g /\ call[h].ref = a
    <3>1. pc[h] \notin Growing /\ pc[h] # "store"
      BY <1>0, <2>1, <2>4 DEF CallOK, Growing
    <3>2. pc[h] \in Claimed => call[h].sz <= call[h].pos /\ call[h].buf <= compIdx[a].buf
      BY <2>1, <2>4 DEF CallOK
    <3>3. pc[h] \in Claimed => call[h].buf <= c.buf /\ call[h].buf # c.buf
      BY <1>2, <2>1, <3>2
    <3>4. pc'[h] = pc[h]
      BY <1>3, <2>4
    <3>. QED  BY <1>0, <1>3, <2>1, <2>4, <3>1, <3>2, <3>3, <3>4 DEF CallOK
  <2>. QED  BY <2>2, <2>3, <2>4
<1>6. SlicesBelow'
  <2>. SUFFICES ASSUME NEW r \in given
                PROVE  /\ r.buf <= compIdx'[r.ref].buf
                       /\ r.buf = compIdx'[r.ref].buf => r.to <= compIdx'[r.ref].pos
    BY <1>0 DEF SlicesBelow
  <2>1. r.ref \in Refs /\ r.buf \in Nat /\ compIdx[a].buf \in Nat
    <3>1. BufIdx \subseteq Nat
      BY AllocatorConstants DEF BufIdx
    <3>2. r.ref \in Refs /\ r.buf \in BufIdx
      BY <1>0 DEF PoolTypeOK
    <3>3. compIdx[a].buf \in BufIdx
      BY <1>0 DEF PoolTypeOK
    <3>. QED  BY <3>1, <3>2, <3>3
  <2>2. CASE r.ref = a
    <3>1. r.buf <= compIdx[a].buf
      BY <2>2 DEF PoolInv, SlicesBelow
    <3>. QED  BY <1>2, <1>3, <2>1, <2>2, <3>1
  <2>3. CASE r.ref # a
    BY <1>3, <2>1, <2>3 DEF PoolInv, SlicesBelow
  <2>. QED  BY <2>2, <2>3
<1>7. NoOverlap' /\ HeldIntact' /\ Prefixes' /\ Balanced'
  BY <1>0 DEF PoolInv, NoOverlap, Disjoint, HeldIntact, Prefixes, Balanced
<1>8. ClaimsApart'
  BY <1>0, <1>3 DEF PoolInv, ClaimsApart
<1>9. Owned'
  <2>1. \A b \in Refs : b > allocRef' => compIdx'[b] = Zero
    <3>1. \A b \in Refs : b > allocRef => b # a
      BY <1>0, RefsInUse DEF Refs
    <3>. QED  BY <1>0, <1>3, <3>1 DEF PoolInv, Owned
  <2>. QED  BY <1>0, <2>1 DEF PoolInv, Owned
<1>10. PosBound'
  <2>. SUFFICES ASSUME NEW b \in held
                PROVE compIdx'[b].pos <= buffers'[b][compIdx'[b].buf]
                                         + MaxRequest * Cardinality(Over(b)')
    BY <1>0 DEF PosBound
  <2>1. CASE b = a
    <3>1. compIdx'[b].pos = 0 /\ buffers'[b][compIdx'[b].buf] \in Nat
      BY <1>0, <1>2, <1>3, <1>4, <2>1, AllocatorConstants DEF PoolTypeOK
    <3>. QED  BY <3>1, OverFiniteNext
  <2>2. CASE b # a
    <3>1. b \in held /\ b \in Refs /\ compIdx'[b] = compIdx[b] /\ buffers' = buffers
      BY <1>0, <1>3, <2>2, RefsInUse
    <3>2. Over(b)' = Over(b)
      <4>1. g \notin Over(b) /\ g \notin Over(b)'
        BY <1>0, <1>3, <2>2 DEF Over, a
      <4>2. \A h \in Goroutines : h # g => (h \in Over(b)' <=> h \in Over(b))
        BY <1>0, <1>3, <3>1 DEF Over
      <4>3. Over(b) \subseteq Goroutines /\ Over(b)' \subseteq Goroutines
        BY DEF Over
      <4>. QED  BY <4>1, <4>2, <4>3
    <3>. QED  BY <3>1, <3>2 DEF PoolInv, PosBound
  <2>. QED  BY <2>1, <2>2
<1>11. NoCarry'
  BY <1>0, <1>3, <1>4, <1>10, CarryStep DEF PoolInv
<1>. QED  BY <1>4, <1>5, <1>6, <1>7, <1>8, <1>9, <1>10, <1>11 DEF PoolInv

-----------------------------------------------------------------------------
(* The theorems *)

\* The invariant holds initially.
LEMMA PoolInitOK == ASSUME RequestsFit, PoolInit PROVE PoolInv
<1>. USE DEF PoolInit, AllocatorInit
<1>1. 0 \in BufIdx /\ 1 \in Refs /\ 0 \in 0..MaxAlloc /\ 0 \in 0..MaxRefs
  BY AllocatorConstants DEF BufIdx, Refs
<1>2. PoolTypeOK
  BY <1>1 DEF PoolTypeOK, Zero
<1>3. CallsOK /\ SlicesBelow /\ ClaimsApart /\ NoOverlap /\ HeldIntact /\ PosBound
  BY DEF CallsOK, CallOK, Inside, Claimed, Growing, SlicesBelow, ClaimsApart, NoOverlap,
         HeldIntact, PosBound
<1>4. Owned
  <2>1. Range(allocCh) = {} /\ IsInjective(allocCh)
    BY DEF Range, IsInjective
  <2>. QED  BY <2>1 DEF Owned
<1>5. Prefixes /\ Balanced
  BY DEF Prefixes, Prefix, Balanced, GivenBack
<1>6. NoCarry
  <2>1. MaxRequest < PosWord
    <3>1. IsFiniteSet({}) /\ Cardinality({}) = 0
      BY FS_EmptySet
    <3>2. 0 <= 0 + MaxRequest * Cardinality({})
      BY <3>1, AllocatorConstants
    <3>3. 0 + MaxRequest < PosWord
      BY <1>1, <3>2, RoomForAll
    <3>. QED  BY <3>3, AllocatorConstants
  <2>. QED  BY <2>1, AllocatorConstants DEF NoCarry, Zero
<1>. QED  BY <1>2, <1>3, <1>4, <1>5, <1>6 DEF PoolInv

\* Every step keeps it.
LEMMA PoolNextOK == ASSUME RequestsFit, PoolInv, [PoolNext]_vars PROVE PoolInv'
<1>1. CASE UNCHANGED vars
  <2>1. UNCHANGED <<memVars, held, given, call, allocCh, pc, calls>> /\ Owned'
    BY <1>1 DEF vars, allocatorVars, poolVars, PoolInv, Owned, memVars, Zero
  <2>2. pc \in [Goroutines -> Labels] /\ calls \in Nat
    BY DEF PoolInv, PoolTypeOK, Labels
  <2>. QED  BY <2>1, <2>2, FrameStep
<1>2. ASSUME NEW g \in Goroutines, UseAllocator(g), UNCHANGED poolVars PROVE PoolInv'
  BY <1>2, UserResetStep, AllocateCallStep DEF UseAllocator
<1>3. ASSUME NEW g \in Goroutines, AllocateStep(g), UNCHANGED poolVars PROVE PoolInv'
  BY <1>3, AddIdxStep, LookStep, LockStep, GrowStep, StoreStep DEF AllocateStep
<1>4. ASSUME NEW g \in Goroutines, GetCall(g) \/ PoolRelease(g) \/ PoolStep(g) PROVE PoolInv'
  BY <1>4, GetCallStep, PoolReleaseStep, GetTakeStep, WaitDoneStep DEF PoolStep
<1>5. ASSUME NEW g \in Goroutines, NEW a \in held, Return(g, a), ~panicked PROVE PoolInv'
  BY <1>5, ReturnStep
<1>6. CASE FreeupStep
  BY <1>6, TickStep, ReleaseOneStep, HasBeenClosedStep, DrainStep DEF FreeupStep
<1>. QED  BY <1>1, <1>2, <1>3, <1>4, <1>5, <1>6 DEF PoolNext

\* The invariant of allocators and pool holds throughout.
LEMMA PoolInvHolds ==
    ASSUME RequestsFit PROVE PoolSpec => []PoolInv
<1>1. PoolInit => PoolInv
  BY PoolInitOK
<1>2. PoolInv /\ [PoolNext]_vars => PoolInv'
  BY PoolNextOK
<1>. QED  BY <1>1, <1>2, PTL DEF PoolSpec

\* Allocate never hands out a byte twice, provided that one request of every goroutine
\* fits above the largest buffer (RequestsFit), which the code does not check: two
\* slices that users may still access have no byte in common.
THEOREM AllocatorNoOverlap ==
    ASSUME RequestsFit PROVE PoolSpec => []NoOverlap
<1>1. PoolInv => NoOverlap
  BY DEF PoolInv
<1>. QED  BY <1>1, PoolInvHolds, PTL

\* Under the same condition, a slice lies inside a buffer that is neither freed nor
\* trimmed away, of an allocator that is registered and held, until its user gives the
\* allocator up.
THEOREM AllocatorHeldIntact ==
    ASSUME RequestsFit PROVE PoolSpec => []HeldIntact
<1>1. PoolInv => HeldIntact
  BY DEF PoolInv
<1>. QED  BY <1>1, PoolInvHolds, PTL

\* The atomic add to compIdx never carries into the index of the buffer, provided
\* that one request of every goroutine fits above the largest buffer (RequestsFit).
THEOREM AllocatorNoCarry ==
    ASSUME RequestsFit PROVE PoolSpec => []NoCarry
<1>1. PoolInv => NoCarry
  BY DEF PoolInv
<1>. QED  BY <1>1, PoolInvHolds, PTL

\* Under the same condition, every buffer is freed once, by TrimTo or by Release, and
\* the Release of a pool leaves no allocator registered but those that users still hold.
THEOREM PoolNoLeak ==
    ASSUME RequestsFit PROVE PoolSpec => []NoLeak
<1>1. PoolInv => NoLeak
  <2>. SUFFICES ASSUME PoolInv PROVE NoLeak
    OBVIOUS
  <2>1. fp = "done" => Range(allocCh) = {}
    BY DEF PoolInv, Owned, Range
  <2>2. fp = "done" /\ ~panicked => allocs = held
    BY <2>1 DEF PoolInv, Owned
  <2>. QED  BY <2>2 DEF NoLeak, PoolInv, Balanced, Intact, GivenBack
<1>. QED  BY <1>1, PoolInvHolds, PTL
=============================================================================
