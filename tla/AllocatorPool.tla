---------------------------- MODULE AllocatorPool ----------------------------
(***************************************************************************)
(* AllocatorPool (z/allocator.go): a channel of allocators that users Get  *)
(* and Return, and the goroutine freeupAllocators that releases them one   *)
(* by one while the pool is idle.  Release stops it through a Closer       *)
(* (z/z.go): a context that is cancelled, and a wait group.                *)
(***************************************************************************)
EXTENDS Allocator, Sequences

CONSTANTS
    PoolSize,       \* capacity of allocCh
    TrimMax,        \* 400 << 20
    MaxGets         \* bound on the number of Gets

ASSUME PoolConstants == PoolSize \in Nat /\ TrimMax \in Nat /\ MaxGets \in Nat

VARIABLES
    allocCh,        \* the channel
    chClosed,       \* it is closed
    numGets,        \* number of Gets
    last,           \* freeupAllocators: numGets at the last tick
    signalled,      \* Closer: the context is cancelled
    waiting,        \* Closer: count of the wait group
    fp              \* what freeupAllocators does next

poolVars == <<allocCh, chClosed, numGets, last, signalled, waiting, fp>>
vars == <<allocatorVars, poolVars>>

-----------------------------------------------------------------------------
(* Get *)

\* numGets is counted first.
GetCall(g) ==
    /\ CallBy(g)
    /\ numGets < MaxGets
    /\ numGets' = numGets + 1
    /\ Goto(g, "get")
    /\ UNCHANGED <<memVars, held, call, given, panicked, allocCh, chClosed, last,
                   signalled, waiting, fp>>

\* The select: a pooled allocator is reset; a closed and empty channel delivers
\* nil, on which Reset panics; otherwise a new allocator
GetTake(g) ==
    /\ pc[g] = "get"
    /\ \/ /\ allocCh # <<>>
          /\ Reset(Head(allocCh))
          /\ held' = held \cup {Head(allocCh)}
          /\ allocCh' = Tail(allocCh)
          /\ Goto(g, "idle")
          /\ UNCHANGED <<buffers, mutex, allocs, allocRef, live, panicked>>
       \/ /\ allocCh = <<>> /\ chClosed
          /\ Panic
          /\ UNCHANGED <<memVars, held, given, allocCh, pc>>
       \/ /\ allocCh = <<>> /\ ~chClosed
          /\ \E sz \in NewSizes : NewAllocator(sz)
          /\ Goto(g, "idle")
          /\ UNCHANGED <<given, allocCh, panicked>>
    /\ UNCHANGED <<call, calls, chClosed, numGets, last, signalled, waiting, fp>>

-----------------------------------------------------------------------------
(* Return *)

\* TrimTo, and the select: back into the channel, or away with it when the
\* channel is full.  The allocator is nobody else's meanwhile.
Return(g, a) ==
    /\ CallBy(g)
    /\ a \in held /\ Quiet(a)
    /\ held' = held \ {a}
    /\ GiveUp(a)
    /\ LET bs == TrimTo(buffers[a], TrimMax)
           mem == Free(live[a], Trimmed(buffers[a], TrimMax))
           Trim == /\ buffers' = [buffers EXCEPT ![a] = bs]
                   /\ live' = [live EXCEPT ![a] = mem]
                   /\ UNCHANGED <<compIdx, mutex, allocs, allocRef>>
       IN  \/ /\ chClosed
              /\ Trim
              /\ Panic
              /\ UNCHANGED allocCh
           \/ /\ ~chClosed /\ Len(allocCh) < PoolSize
              /\ Trim
              /\ allocCh' = Append(allocCh, a)
              /\ UNCHANGED panicked
           \/ /\ ~chClosed /\ Len(allocCh) >= PoolSize
              /\ Release(a, bs, mem)
              /\ UNCHANGED <<allocCh, panicked>>
    /\ UNCHANGED <<pc, call, chClosed, numGets, last, signalled, waiting, fp>>

-----------------------------------------------------------------------------
(* Release: closer.SignalAndWait() *)

PoolRelease(g) ==
    /\ CallBy(g)
    /\ signalled' = TRUE
    /\ Goto(g, "wait")
    /\ UNCHANGED <<memVars, held, call, given, panicked, allocCh, chClosed, numGets,
                   last, waiting, fp>>

WaitDone(g) ==
    /\ pc[g] = "wait"
    /\ waiting = 0
    /\ Goto(g, "idle")
    /\ UNCHANGED <<memVars, held, call, given, calls, panicked, poolVars>>

-----------------------------------------------------------------------------
(* freeupAllocators *)

\* A tick: an allocator is let go only if there was no Get since the last tick.
Tick ==
    /\ fp = "select"
    /\ IF numGets # last THEN last' = numGets /\ UNCHANGED fp
       ELSE fp' = "releaseOne" /\ UNCHANGED last
    /\ UNCHANGED <<allocatorVars, allocCh, chClosed, numGets, signalled, waiting>>

\* The allocator at the head of the channel is received and released.
TakeAndRelease ==
    /\ allocCh # <<>>
    /\ allocCh' = Tail(allocCh)
    /\ Release(Head(allocCh), buffers[Head(allocCh)], live[Head(allocCh)])

ReleaseOne ==
    /\ fp = "releaseOne"
    /\ \/ TakeAndRelease
       \/ allocCh = <<>> /\ UNCHANGED <<allocCh, memVars>>
    /\ fp' = "select"
    /\ UNCHANGED <<held, pc, call, given, calls, panicked, chClosed, numGets, last,
                   signalled, waiting>>

HasBeenClosed ==
    /\ fp = "select"
    /\ signalled
    /\ chClosed' = TRUE
    /\ fp' = "drain"
    /\ UNCHANGED <<allocatorVars, allocCh, numGets, last, signalled, waiting>>

\* Mutant: the wait group is not told.
DoneSilently == UNCHANGED waiting
Done == waiting' = waiting - 1

\* The rest of the channel, and the deferred closer.Done()
Drain ==
    /\ fp = "drain"
    /\ \/ TakeAndRelease /\ UNCHANGED <<fp, waiting>>
       \/ allocCh = <<>> /\ Done /\ fp' = "done" /\ UNCHANGED <<allocCh, memVars>>
    /\ UNCHANGED <<held, pc, call, given, calls, panicked, chClosed, numGets, last,
                   signalled>>

-----------------------------------------------------------------------------
PoolInit ==
    /\ AllocatorInit
    /\ allocCh = <<>>
    /\ chClosed = FALSE
    /\ numGets = 0 /\ last = 0
    /\ signalled = FALSE
    /\ waiting = 1
    /\ fp = "select"

\* What an allocator's user calls
UseAllocator(g) ==
    \E a \in held :
        \/ UserReset(g, a)
        \/ \E sz \in Sizes : AllocateCall(g, a, sz, FALSE)
        \/ \E sz \in AlignedSizes : AllocateCall(g, a, sz, TRUE)

FreeupStep == Tick \/ ReleaseOne \/ HasBeenClosed \/ Drain
PoolStep(g) == GetTake(g) \/ WaitDone(g)
PoolNext ==
    /\ ~panicked
    /\ \/ \E g \in Goroutines :
             \/ (UseAllocator(g) \/ AllocateStep(g)) /\ UNCHANGED poolVars
             \/ GetCall(g) \/ PoolRelease(g) \/ PoolStep(g)
             \/ \E a \in held : Return(g, a)
       \/ FreeupStep

PoolSpec == PoolInit /\ [][PoolNext]_vars

\* Goroutines go on.  sync.Mutex hands the lock to a waiter that has been
\* starved, and a select picks at random among what is ready.
PoolFairness ==
    /\ \A g \in Goroutines :
          /\ WF_vars(~panicked /\ (AddIdx(g) \/ Look(g) \/ Grow(g) \/ Store(g))
                     /\ UNCHANGED poolVars)
          /\ SF_vars(~panicked /\ Lock(g) /\ UNCHANGED poolVars)
          /\ WF_vars(~panicked /\ PoolStep(g))
    /\ WF_vars(~panicked /\ (ReleaseOne \/ Drain))
    /\ SF_vars(~panicked /\ HasBeenClosed)
PoolFairSpec == PoolSpec /\ PoolFairness

-----------------------------------------------------------------------------
(* Properties *)

\* The memory of a buffer is given back once, by TrimTo or by Release, and nothing of
\* it is left in a.buffers of an allocator in use; once Release of the pool is
\* through, only allocators that users still hold are registered.
NoLeak ==
    /\ \A a \in Refs, i \in BufIdx :
          live[a][i] = IF a \in allocs /\ buffers[a][i] # 0 THEN 1 ELSE 0
    /\ fp = "done" /\ ~panicked => allocs = held

\* Every call returns, in particular Allocate, which starts over as long as others
\* take the room it looked for, and Release of the pool, which waits for
\* freeupAllocators.
PoolCallsReturn == \A g \in Goroutines : pc[g] # "idle" ~> pc[g] = "idle" \/ panicked
=============================================================================
