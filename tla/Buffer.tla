------------------------------- MODULE Buffer -------------------------------
(***************************************************************************)
(* The buffer of z/buffer.go, used for slices: memory that grows, in the   *)
(* heap or in a mapped file, into which slices are written one after the   *)
(* other, each behind its length, and sorted in place.                     *)
(*                                                                         *)
(* A cell of buf stands for 8 bytes, so that a length takes one; offsets   *)
(* count cells from 0.  A buffer is a value b that the operators take and  *)
(* return.                                                                 *)
(***************************************************************************)
EXTENDS Integers, Sequences, FiniteSetsExt

CONSTANTS
    Slices,             \* the slices that are written: sequences of cells
    less(_, _),         \* the order to sort by
    Capacities,         \* the capacities asked for
    defaultCapacity,    \* the least capacity
    growLimit,          \* most that is allocated at a time, 1 GB
    autoMmapAfter,      \* size past which the heap is left for a file; 0 is never
    maxSz,              \* limit of WithMaxSize; 0 is none
    chunk,              \* number of slices sorted at once, 1024
    MaxSlices           \* bound on the number of slices

ASSUME BufferConstants ==
    /\ \A s \in Slices : s \in Seq(Nat)
    /\ Capacities \subseteq Nat
    /\ defaultCapacity \in Nat /\ defaultCapacity > 1
    /\ growLimit \in Nat \ {0} /\ autoMmapAfter \in Nat /\ maxSz \in Nat
    /\ chunk \in Nat \ {0} /\ MaxSlices \in Nat

\* What sort.Slice and merge ask of a LessFunc: a strict weak order.
ASSUME LessOrders ==
    \A s, t, u \in Slices :
        /\ less(s, t) \in BOOLEAN
        /\ ~less(s, s)
        /\ less(s, t) /\ less(t, u) => less(s, u)
        /\ less(s, u) => less(s, t) \/ less(t, u)

VARIABLES
    buffer,             \* the buffer
    panicked,           \* a call of it has panicked
    released            \* Release was called

bufferVars == <<buffer, panicked, released>>

padding == 1
Zeros(n) == [i \in 1..n |-> 0]

\* Go's copy of p into buf from offset off on
Copied(buf, off, p) ==
    [i \in DOMAIN buf |-> IF i - off \in 1..Len(p) THEN p[i - off] ELSE buf[i]]
\* Go's buf[lo:hi]
Between(buf, lo, hi) == SubSeq(buf, lo + 1, hi)

-----------------------------------------------------------------------------
(* Memory *)

\* held is what Release has to give back: heap memory or a file.
Fresh(type, capacity) ==
    LET sz == Max({capacity, defaultCapacity})
    IN  [type |-> type, buf |-> Zeros(sz), curSz |-> sz, offset |-> padding, held |-> type]
NewBuffer(capacity) == Fresh("UseCalloc", capacity)
NewBufferTmp(capacity) == Fresh("UseMmap", capacity)

TooLarge(b, n) == maxSz > 0 /\ b.offset + n > maxSz

\* Mutant: the padding is left out.
HasRoomNoPadding(b, n) == b.offset - padding + n < b.curSz
HasRoom(b, n) == b.offset + n < b.curSz

\* At most growLimit, but enough for n
GrowBy(b, n) == Max({Min({b.curSz + n, growLimit}), n})

\* The new size is noted before anything is done to reach it.
Noted(b, n) ==
    LET sz == b.curSz + GrowBy(b, n)
    IN  [b EXCEPT !.curSz = sz,
                  !.type = IF autoMmapAfter > 0 /\ sz > autoMmapAfter THEN "UseMmap" ELSE @]

\* The used part is copied to new memory or a new file, or the file is extended.
Moved(b, old) ==
    LET kept == IF old.held = "UseMmap" THEN old.buf ELSE Between(old.buf, 0, old.offset)
    IN  [b EXCEPT !.buf = kept \o Zeros(b.curSz - Len(kept)), !.held = b.type]

Grow(b, n) == IF HasRoom(b, n) THEN b ELSE Moved(Noted(b, n), b)

\* The calls that fail are those that create, truncate or map a file.
GrowMayFail(b, n) == ~HasRoom(b, n) /\ Noted(b, n).type = "UseMmap"

Allocate(b, n) == [Grow(b, n) EXCEPT !.offset = @ + n]

Write(b, p) ==
    LET c == Grow(b, Len(p))
    IN  [c EXCEPT !.buf = Copied(@, b.offset, p), !.offset = @ + Len(p)]

Emptied(b) == [b EXCEPT !.offset = padding]
Bytes(b) == Between(b.buf, padding, b.offset)

-----------------------------------------------------------------------------
(* Slices *)

SliceAllocate(b, sz) == Allocate(Write(Grow(b, 1 + sz), <<sz>>), sz)

Written(b, s) ==
    LET c == SliceAllocate(b, Len(s))
    IN  [c EXCEPT !.buf = Copied(@, c.offset - Len(s), s)]

\* The slice at an offset, and the offset of the next, -1 behind the last
Slice(b, off) ==
    IF off >= b.offset THEN [slice |-> <<>>, next |-> -1]
    ELSE LET next == off + 1 + b.buf[off + 1]
         IN  [slice |-> Between(b.buf, off + 1, next),
              next |-> IF next >= b.offset THEN -1 ELSE next]

\* The offsets of the slices from start on, as far as end
OffsetsFrom(b, start, end) ==
    LET from[off \in Int] ==
            IF off < 0 \/ off >= end THEN <<>> ELSE <<off>> \o from[Slice(b, off).next]
    IN  from[start]

\* An empty buffer has one offset.
SliceOffsets(b) == OffsetsFrom(b, padding, Max({b.offset, padding + 1}))

\* Mutant: an empty slice ends the iteration.
SliceIterateStops(b) ==
    LET from[off \in Int] ==
            IF off < 0 \/ Slice(b, off).slice = <<>> THEN <<>>
            ELSE <<Slice(b, off).slice>> \o from[Slice(b, off).next]
    IN  from[padding]

\* s as a part of a sequence, unless it is empty
Given(s) == IF s = <<>> THEN <<>> ELSE <<s>>

\* The slices that SliceIterate calls its function with, if that returns no error;
\* the first error would end the iteration
SliceIterate(b) ==
    LET from[off \in Int] ==
            IF off < 0 THEN <<>>
            ELSE Given(Slice(b, off).slice) \o from[Slice(b, off).next]
    IN  IF b.offset = padding THEN <<>> ELSE from[padding]

-----------------------------------------------------------------------------
(* Sorting: the slices of a chunk are sorted by their offsets and rewritten  *)
(* through tmp; sorted runs are then merged, in place, two by two.           *)

rawSlice(buf, off) == Between(buf, off, off + 1 + buf[off + 1])

\* The orders of the offsets that sort.Slice may produce
Sorted(b, offsets) ==
    LET SliceAt(off) == Slice(b, off).slice
    IN  {small \in [DOMAIN offsets -> Range(offsets)] :
            /\ Range(small) = Range(offsets)
            /\ \A i, j \in DOMAIN small :
                  i < j => ~less(SliceAt(small[j]), SliceAt(small[i]))}

\* The slices at the offsets small, one behind the other.  tmp is reset before, so it
\* is as good as new.
Rewritten(b, small) ==
    LET tmp[k \in 0..Len(small)] ==
            IF k = 0 THEN NewBuffer(0) ELSE Write(tmp[k - 1], rawSlice(b.buf, small[k]))
    IN  Bytes(tmp[Len(small)])

\* The buffers that sortSmall(start, end) may leave
sortSmall(b, start, end) ==
    {[b EXCEPT !.buf = Copied(@, start, Rewritten(b, small))] :
        small \in Sorted(b, OffsetsFrom(b, start, end))}

\* A round of merge's loop: mem is the memory between start and end of the code, of which
\* the part before m.start is done and the part from m.right on still to be merged;
\* m.left is the rest of tmp.  Equal slices are taken from the right.
mergeRound(m) ==
    IF m.left = <<>> \/ m.right = Len(m.mem)
    THEN [m EXCEPT !.mem = Copied(@, m.start, m.left), !.left = <<>>,
                   !.start = @ + Len(m.left)]
    ELSE LET ls == rawSlice(m.left, 0)
             rs == rawSlice(m.mem, m.right)
         IN  IF less(Tail(ls), Tail(rs))
             THEN [m EXCEPT !.mem = Copied(@, m.start, ls), !.start = @ + Len(ls),
                            !.left = Between(@, Len(ls), Len(@))]
             ELSE [m EXCEPT !.mem = Copied(@, m.start, rs), !.start = @ + Len(rs),
                            !.right = @ + Len(rs)]

\* What merge makes of two runs side by side, of which only the left one is copied to
\* tmp.  Every round but the last takes a slice, which has at least one cell.
merge(left, right) ==
    LET n == Len(left) + Len(right)
        after[k \in 0..n] ==
            IF k = 0 THEN [mem |-> left \o right, left |-> left, right |-> Len(left), start |-> 0]
            ELSE mergeRound(after[k - 1])
    IN  after[n].mem

\* sort(lo, hi) for indices of offsets
SortArgs(offsets) ==
    {r \in (1..Len(offsets)) \X (1..Len(offsets)) : r[1] <= r[2]}

\* Mutant: as in a sort of elements, the right part starts behind mid.
sortPastMid(buf, offsets) ==
    LET run[r \in SortArgs(offsets)] ==
            LET mid == r[1] + (r[2] - r[1]) \div 2
            IN  IF r[1] = mid THEN Between(buf, offsets[r[1]], offsets[r[2]])
                ELSE merge(run[<<r[1], mid>>], run[<<mid + 1, r[2]>>])
    IN  run[<<1, Len(offsets)>>]

\* The cells from the first to the last of the offsets, after sort: each call leaves its
\* own range sorted, and returns it.
sort(buf, offsets) ==
    LET run[r \in SortArgs(offsets)] ==
            LET mid == r[1] + (r[2] - r[1]) \div 2
            IN  IF r[1] = mid THEN Between(buf, offsets[r[1]], offsets[r[2]])
                ELSE merge(run[<<r[1], mid>>], run[<<mid, r[2]>>])
    IN  run[<<1, Len(offsets)>>]

\* The offset of every chunk, and the end
ChunkOffsets(b, start, end) ==
    LET all == OffsetsFrom(b, start, end)
        n == (Len(all) + chunk - 1) \div chunk
    IN  [i \in 1..(n + 1) |-> IF i <= n THEN all[(i - 1) * chunk + 1] ELSE end]

\* The buffers with each chunk sorted
SortedChunks(b, offsets) ==
    LET upTo[i \in 1..Len(offsets)] ==
            IF i = 1 THEN {b}
            ELSE UNION {sortSmall(c, offsets[i - 1], offsets[i]) : c \in upTo[i - 1]}
    IN  upTo[Len(offsets)]

\* The buffers that SortSliceBetween(start, end) may leave
SortSliceBetween(b, start, end) ==
    IF start >= end THEN {b}
    ELSE LET offsets == ChunkOffsets(b, start, end)
         IN  {[c EXCEPT !.buf = Copied(@, start, sort(@, offsets))] :
                 c \in SortedChunks(b, offsets)}

-----------------------------------------------------------------------------
BufferInit ==
    /\ \E capacity \in Capacities :
          \/ buffer = NewBuffer(capacity)
          \/ buffer = NewBufferTmp(capacity)
    /\ panicked = FALSE
    /\ released = FALSE

InUse == ~panicked /\ ~released

\* The slices in the buffer, in order
Contents ==
    LET from[off \in Nat] ==
            IF off >= buffer.offset THEN <<>>
            ELSE LET next == off + 1 + buffer.buf[off + 1]
                 IN  <<Between(buffer.buf, off + 1, next)>> \o from[next]
    IN  from[padding]

WriteSlice(s) ==
    /\ InUse
    /\ Len(Contents) < MaxSlices
    /\ ~TooLarge(buffer, 1 + Len(s))
    /\ buffer' = Written(buffer, s)
    /\ UNCHANGED <<panicked, released>>

\* Grow panics: at the limit of WithMaxSize, or when there is no file to grow into.
WritePanics(s) ==
    /\ InUse
    /\ \/ TooLarge(buffer, 1 + Len(s)) /\ UNCHANGED buffer
       \/ /\ ~TooLarge(buffer, 1 + Len(s))
          /\ GrowMayFail(buffer, 1 + Len(s))
          /\ buffer' = Noted(buffer, 1 + Len(s))
    /\ panicked' = TRUE
    /\ UNCHANGED released

\* SortSliceBetween for offsets of slices, SortSlice for the whole
DoSort(start, end) ==
    /\ InUse
    /\ buffer' \in SortSliceBetween(buffer, start, end)
    /\ UNCHANGED <<panicked, released>>

Reset ==
    /\ InUse
    /\ buffer' = Emptied(buffer)
    /\ UNCHANGED <<panicked, released>>

\* Heap memory is freed if the type says so; a file is closed if there is one.
Release ==
    /\ ~released
    /\ released' = TRUE
    /\ buffer' = [buffer EXCEPT !.held = IF @ = buffer.type THEN "nothing" ELSE @]
    /\ UNCHANGED panicked

BufferNext ==
    \/ \E s \in Slices : WriteSlice(s) \/ WritePanics(s)
    \/ \E start \in Range(SliceOffsets(buffer)),
          end \in Range(SliceOffsets(buffer)) \cup {buffer.offset} : DoSort(start, end)
    \/ Reset
    \/ Release

BufferSpec == BufferInit /\ [][BufferNext]_bufferVars

-----------------------------------------------------------------------------
(* Properties *)

List == INSTANCE SliceList WITH list <- Contents

\* A buffer holds the slices written since the last Reset, in order and unchanged,
\* through growth, the switch to a file and the rewriting in place of sorts, which
\* leave a sorted permutation of the range and nothing else moved.
BufferImplementsList == List!ListSpec

\* s without the empty slices
NonEmpty(s) ==
    LET from[i \in 1..(Len(s) + 1)] ==
            IF i > Len(s) THEN <<>> ELSE Given(s[i]) \o from[i + 1]
    IN  from[1]

\* SliceIterate passes every slice that is not empty once, in order, and the offsets
\* of SliceOffsets lead to all of them: neither ends at an empty slice, nor goes on
\* into what an earlier use of the memory has left.
IterateMeetsAll ==
    /\ SliceIterate(buffer) = NonEmpty(Contents)
    /\ Contents # <<>> =>
          Contents = [i \in DOMAIN SliceOffsets(buffer) |->
                         Slice(buffer, SliceOffsets(buffer)[i]).slice]

\* Unless Grow has panicked, there is memory for the size that the buffer has noted,
\* with room past the last slice, of the kind that Release will give back.
RoomKept ==
    ~panicked =>
        /\ buffer.offset < buffer.curSz
        /\ Len(buffer.buf) = buffer.curSz
        /\ buffer.held = IF released THEN "nothing" ELSE buffer.type

\* Release gives back what the buffer holds, after a panic too.
NothingHeld == released => buffer.held = "nothing"
=============================================================================
