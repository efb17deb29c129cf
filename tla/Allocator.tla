------------------------------ MODULE Allocator ------------------------------
(***************************************************************************)
(* Allocator (z/allocator.go): goroutines that cut slices off the buffers  *)
(* of shared allocators.  A slice is claimed by one atomic add to compIdx; *)
(* the mutex is taken only to go on to the next buffer.                    *)
(*                                                                         *)
(* A buffer is its length, 0 for nil; a slice is an interval of a buffer.  *)
(***************************************************************************)
EXTENDS Integers, FiniteSets, Functions

CONSTANTS
    Goroutines,     \* goroutines that use allocators
    MaxRefs,        \* bound on the number of allocators created
    NewSizes,       \* the sizes asked of NewAllocator
    Sizes,          \* the sizes asked of Allocate
    AlignedSizes,   \* the sizes asked of AllocateAligned
    MaxRequest,     \* the largest of these, with the padding of AllocateAligned
    MinPage,        \* 512, the least size of a first buffer
    MaxAlloc,       \* maxAlloc
    MaxBuffers,     \* len(a.buffers)
    PosWord,        \* 2^32: posIdx is the lower half of compIdx
    NodeAlign,      \* nodeAlign
    MaxCalls,       \* bound on the number of calls
    NoOne           \* nobody holds the mutex

ASSUME AllocatorConstants ==
    /\ IsFiniteSet(Goroutines) /\ NoOne \notin Goroutines
    /\ MaxRefs \in Nat \ {0}
    /\ MaxAlloc \in Nat \ {0} /\ MinPage \in Nat \ {0}
    /\ NewSizes \subseteq 1..MaxAlloc
    /\ Sizes \subseteq 1..MaxRequest
    /\ MaxRequest \in Nat /\ \A sz \in AlignedSizes : sz \in Nat \ {0} /\ sz + NodeAlign <= MaxRequest
    /\ MaxBuffers \in Nat \ {0}
    /\ PosWord \in Nat \ {0}
    /\ NodeAlign \in Nat
    /\ MaxCalls \in Nat

\* maxAlloc is a power of two, and the first buffer is no larger.
ASSUME PowerOfTwo ==
    /\ \E n \in 0..MaxAlloc : MaxAlloc = 2^n
    /\ MinPage <= MaxAlloc

\* What the code relies on and does not check: the largest buffer and one request
\* of every goroutine, and one more, fit into posIdx.  With 1 GB of 4 taken by the
\* buffer, a thousand goroutines may ask for 3 MB each; three that ask for 1 GB at
\* once may not.
RequestsFit == MaxAlloc + (Cardinality(Goroutines) + 1) * MaxRequest < PosWord

Refs == 1..MaxRefs
BufIdx == 0..(MaxBuffers - 1)

VARIABLES
    compIdx,        \* compIdx[a]: the buffer in use, and how much of it
    buffers,        \* buffers[a][i]: length of the buffer
    mutex,          \* mutex[a]: who holds the lock
    allocs,         \* the registry of allocators
    allocRef,       \* number of allocators created so far
    held,           \* allocators in the hands of users
    pc,             \* pc[g]: what goroutine g does next
    call,           \* call[g]: the call it is in
    given,          \* slices that users may still access
    live,           \* live[a][i]: how often Calloc made the buffer, less how often it was freed
    calls,          \* number of calls so far
    panicked        \* a goroutine panicked, which ends the program

memVars == <<compIdx, buffers, mutex, allocs, allocRef, live>>
allocatorVars == <<memVars, held, pc, call, given, calls, panicked>>

Inside == {"add", "look", "lock", "grow", "store"}

\* No goroutine is in a call on allocator a: what its user sees to before the
\* allocator is reset, returned or released.
Quiet(a) == \A g \in Goroutines : pc[g] \in Inside => call[g].ref # a

Goto(g, label) == pc' = [pc EXCEPT ![g] = label]
CallBy(g) == pc[g] = "idle" /\ calls < MaxCalls /\ calls' = calls + 1
Panic == panicked' = TRUE
GiveUp(a) == given' = {r \in given : r.ref # a}

-----------------------------------------------------------------------------
(* Creation and release *)

\* The exponent of the greatest power of two that is at most sz
log2(sz) == CHOOSE l \in 0..sz : 2^l <= sz /\ sz < 2^(l + 1)

\* The first buffer: sz rounded up to a power of two
FirstPage(sz) ==
    LET s == IF sz < MinPage THEN MinPage ELSE sz
        l2 == log2(s)
    IN  2^(IF 2^l2 # s THEN l2 + 1 ELSE l2)

NewAllocator(sz) ==
    LET ref == allocRef + 1 IN
    /\ ref \in Refs
    /\ allocRef' = ref
    /\ buffers' = [buffers EXCEPT ![ref] =
                      [i \in BufIdx |-> IF i = 0 THEN FirstPage(sz) ELSE 0]]
    /\ allocs' = allocs \cup {ref}
    /\ held' = held \cup {ref}
    /\ live' = [live EXCEPT ![ref][0] = @ + 1]
    /\ UNCHANGED <<compIdx, mutex>>

\* The buffers bs that a loop which stops at the first nil buffer visits
Visited(bs) == {i \in BufIdx : \A j \in 0..i : bs[j] # 0}

\* Free of the buffers in is, of an allocator whose memory is mem
Free(mem, is) == [i \in BufIdx |-> IF i \in is THEN mem[i] - 1 ELSE mem[i]]

\* The memory mem of allocator a, whose buffers are bs, goes back.  a.buffers keeps
\* its slices.
Release(a, bs, mem) ==
    /\ live' = [live EXCEPT ![a] = Free(mem, Visited(bs))]
    /\ buffers' = [buffers EXCEPT ![a] = bs]
    /\ allocs' = allocs \ {a}
    /\ UNCHANGED <<compIdx, mutex, allocRef>>

\* The lengths of the buffers up to number i
Cumulated(bs, i) == SumFunctionOnSet(bs, 0..i)

\* Buffers that take the total to max or above are freed and set to nil.
Trimmed(bs, max) == {i \in Visited(bs) : Cumulated(bs, i) >= max}

\* Mutant: the buffers that were freed stay in a.buffers.
TrimToDangling(bs, max) == bs
TrimTo(bs, max) == [i \in BufIdx |-> IF i \in Trimmed(bs, max) THEN 0 ELSE bs[i]]

Zero == [buf |-> 0, pos |-> 0]
Reset(a) == compIdx' = [compIdx EXCEPT ![a] = Zero] /\ GiveUp(a)

\* A user resets an allocator it owns, and forgets the slices.
UserReset(g, a) ==
    /\ CallBy(g)
    /\ a \in held /\ Quiet(a)
    /\ Reset(a)
    /\ UNCHANGED <<buffers, mutex, allocs, allocRef, live, held, pc, call, panicked>>

-----------------------------------------------------------------------------
(* Allocate, and AllocateAligned, which allocates NodeAlign bytes more and   *)
(* returns the part that starts at a multiple of NodeAlign + 1.  A size of   *)
(* zero returns nil and one above MaxAlloc panics, both at once.             *)

\* atomic.AddUint64: an overflow of the position would be carried into the index.
\* NoCarry says that this does not happen.
Advanced(c, sz) ==
    IF c.pos + sz < PosWord THEN [buf |-> c.buf, pos |-> c.pos + sz]
    ELSE [buf |-> c.buf + 1, pos |-> c.pos + sz - PosWord]

\* Goroutine g claims sz bytes of allocator a for the call with this number.
Claim(g, id, a, sz, aligned) ==
    LET c == Advanced(compIdx[a], sz) IN
    /\ compIdx' = [compIdx EXCEPT ![a] = c]
    /\ call' = [call EXCEPT ![g] = [id |-> id, ref |-> a, sz |-> sz, aligned |-> aligned,
                                    buf |-> c.buf, pos |-> c.pos]]
    /\ Goto(g, "look")
    /\ UNCHANGED <<buffers, mutex, allocs, allocRef, live, held, given, panicked>>

AllocateCall(g, a, sz, aligned) ==
    LET tsz == sz + (IF aligned THEN NodeAlign ELSE 0) IN
    /\ CallBy(g)
    /\ a \in held
    /\ tsz <= MaxAlloc
    /\ Claim(g, calls', a, tsz, aligned)

AddIdx(g) ==
    /\ pc[g] = "add"
    /\ Claim(g, call[g].id, call[g].ref, call[g].sz, call[g].aligned)
    /\ UNCHANGED calls

\* Mutant: a claim that ends one byte behind the buffer is accepted.
FitsLate(g) == call[g].pos <= buffers[call[g].ref][call[g].buf] + 1
Fits(g) == call[g].pos <= buffers[call[g].ref][call[g].buf]

\* The slice that the call returns
AlignUp(addr) == ((addr + NodeAlign) \div (NodeAlign + 1)) * (NodeAlign + 1)
Slice(g) ==
    LET from == call[g].pos - call[g].sz
        start == IF call[g].aligned THEN AlignUp(from) ELSE from
        len == IF call[g].aligned THEN call[g].sz - NodeAlign ELSE call[g].sz
    IN  [id |-> call[g].id, ref |-> call[g].ref, buf |-> call[g].buf,
         from |-> start, to |-> start + len]

\* Mutant: a call that finds no room claims again at once.
LookAndSpin(g) ==
    /\ pc[g] = "look"
    /\ \/ ~Fits(g) /\ Goto(g, "add") /\ UNCHANGED given
       \/ Fits(g) /\ Goto(g, "idle") /\ given' = given \cup {Slice(g)}
    /\ UNCHANGED <<memVars, held, call, calls, panicked>>

\* a.buffers[bufIdx] is read without the lock.
Look(g) ==
    /\ pc[g] = "look"
    /\ \/ ~Fits(g) /\ Goto(g, "lock") /\ UNCHANGED given
       \/ Fits(g) /\ Goto(g, "idle") /\ given' = given \cup {Slice(g)}
    /\ UNCHANGED <<memVars, held, call, calls, panicked>>

\* Mutant: the index is not compared again under the lock.
StillAssumed(g) == TRUE
StillCurrent(g) == compIdx[call[g].ref].buf = call[g].buf

\* a.Lock(); somebody else may have gone on to another buffer meanwhile.
Lock(g) ==
    LET a == call[g].ref IN
    /\ pc[g] = "lock"
    /\ mutex[a] = NoOne
    /\ \/ StillCurrent(g) /\ mutex' = [mutex EXCEPT ![a] = g] /\ Goto(g, "grow")
       \/ ~StillCurrent(g) /\ UNCHANGED mutex /\ Goto(g, "add")
    /\ UNCHANGED <<compIdx, buffers, allocs, allocRef, live, held, call, given, calls, panicked>>

\* addBufferAt, first half: the buffers from number i on that end its search
Candidates(a, i, minSz) ==
    {j \in BufIdx : j >= i /\ (buffers[a][j] = 0 \/ minSz <= buffers[a][j])}

\* Second half: the length of the buffer to add behind one of length last,
\* which is not 0
NextPage(last, minSz) ==
    LET enough == {s \in {last * 2^k : k \in 1..(minSz + 1)} : minSz <= s}
        size == CHOOSE s \in enough : \A t \in enough : s <= t
    IN  IF size > MaxAlloc THEN MaxAlloc ELSE size

\* With a nil buffer before it, the doubling of pageSize would never end: then
\* no step is possible and the lock is kept.
Grow(g) ==
    LET a == call[g].ref
        found == Candidates(a, call[g].buf + 1, call[g].sz)
    IN  /\ pc[g] = "grow"
        /\ \/ /\ found = {}
              /\ Panic
              /\ UNCHANGED <<buffers, live, pc>>
           \/ \E i \in found :
                 /\ \A j \in found : i <= j
                 /\ \/ buffers[a][i] # 0 /\ UNCHANGED <<buffers, live>>
                    \/ /\ buffers[a][i] = 0 /\ buffers[a][i - 1] # 0
                       /\ buffers' = [buffers EXCEPT ![a][i] =
                                         NextPage(buffers[a][i - 1], call[g].sz)]
                       /\ live' = [live EXCEPT ![a][i] = @ + 1]
                 /\ Goto(g, "store")
                 /\ UNCHANGED panicked
        /\ UNCHANGED <<compIdx, mutex, allocs, allocRef, held, call, given, calls>>

\* compIdx is set to the next buffer even if it is too small; Unlock
Store(g) ==
    LET a == call[g].ref IN
    /\ pc[g] = "store"
    /\ compIdx' = [compIdx EXCEPT ![a] = [buf |-> call[g].buf + 1, pos |-> 0]]
    /\ mutex' = [mutex EXCEPT ![a] = NoOne]
    /\ Goto(g, "add")
    /\ UNCHANGED <<buffers, allocs, allocRef, live, held, call, given, calls, panicked>>

AllocateStep(g) == AddIdx(g) \/ Look(g) \/ Lock(g) \/ Grow(g) \/ Store(g)

AllocatorInit ==
    /\ compIdx = [a \in Refs |-> Zero]
    /\ buffers = [a \in Refs |-> [i \in BufIdx |-> 0]]
    /\ mutex = [a \in Refs |-> NoOne]
    /\ allocRef = 0
    /\ live = [a \in Refs |-> [i \in BufIdx |-> 0]]
    /\ allocs = {} /\ held = {} /\ given = {}
    /\ pc = [g \in Goroutines |-> "idle"]
    /\ call = [g \in Goroutines |-> [id |-> 0, ref |-> 1, aligned |-> FALSE,
                                     buf |-> 0, pos |-> 0, sz |-> 0]]
    /\ calls = 0
    /\ panicked = FALSE

-----------------------------------------------------------------------------
(* Properties *)

\* Two slices of one buffer have no byte in common.
Disjoint(r, s) ==
    r.ref = s.ref /\ r.buf = s.buf => r.to <= s.from \/ s.to <= r.from

\* Concurrent calls of Allocate never hand out the same byte twice, whatever
\* happens between the add to compIdx and the change to another buffer.
NoOverlap == \A r, s \in given : r # s => Disjoint(r, s)

\* The next request never overflows the position into the index of the buffer:
\* goroutines that find the buffer full add to it once each before they take the
\* lock, and not again before somebody has gone on to another buffer.
NoCarry == \A a \in Refs : compIdx[a].pos + MaxRequest < PosWord

\* A slice that was handed out lies inside a buffer that is still there, and its
\* allocator is registered and neither in the pool nor in anybody else's hands,
\* until its user returns, resets or releases the allocator.
HeldIntact ==
    \A r \in given :
        /\ r.ref \in held \cap allocs
        /\ live[r.ref][r.buf] = 1
        /\ 0 <= r.from /\ r.from < r.to /\ r.to <= buffers[r.ref][r.buf]
=============================================================================
