------------------------------ MODULE GetPath ------------------------------
(***************************************************************************)
(* The way of a Get to the admission policy: Cache.Get pushes the hash to  *)
(* a stripe of the ring buffer (ring.go); a full stripe hands its slice to *)
(* defaultPolicy.Push (policy.go), which puts it into the channel itemsCh  *)
(* or drops it; the policy's goroutine counts the hashes of each batch.    *)
(* Close ends that goroutine while Gets may still be under way.            *)
(*                                                                         *)
(* Slices share backing arrays, so the arrays are explicit: heap[a] is one,*)
(* and a slice is an array and a length.  A Get's hash is represented by   *)
(* the number of the Get, which tells every two of them apart.             *)
(***************************************************************************)
EXTENDS Naturals, Sequences, FiniteSets, Functions

CONSTANTS Clients,       \* goroutines that call Get
          BufferItems,   \* Config.BufferItems: capacity of a stripe
          ItemsChSize,   \* capacity of itemsCh (3)
          MaxGets        \* bound on the number of Gets

ASSUME GetPathConstants ==
  /\ IsFiniteSet(Clients)
  /\ BufferItems \in Nat \ {0}
  /\ ItemsChSize \in Nat
  /\ MaxGets \in Nat

VARIABLES heap,       \* backing arrays, in the order they were made
          pool,       \* slices of the stripes in the sync.Pool
          pc,         \* pc[c]: what client c does next
          stripe,     \* stripe[c]: data of the stripe client c has taken
          itemsCh,    \* the channel: a sequence of slices
          chClosed,   \* itemsCh is closed
          isClosed,   \* defaultPolicy.isClosed
          reader,     \* what the policy's processItems does next
          batch,      \* the slice it counts
          pos,        \* how many of its hashes it has counted
          closer,     \* what Close does next
          panicked,   \* a goroutine panicked, which ends the program
          keepGets,   \* the two metrics
          dropGets,
          gets,       \* number of Gets so far
          counted     \* what tinyLFU was given, in order

clientVars == <<pool, pc, stripe>>
chanVars == <<itemsCh, chClosed, isClosed, panicked>>
readerVars == <<reader, batch, pos, counted>>
metricVars == <<keepGets, dropGets>>
getVars == <<heap, clientVars, chanVars, readerVars, closer, metricVars, gets>>

Slices == [arr : Nat, len : 0..BufferItems]
Nil == [arr |-> 0, len |-> 0]

-----------------------------------------------------------------------------
(* Slices and stripes *)

\* make([]uint64, 0, capa): a new array, at the end of the heap
NewArray == [i \in 1..BufferItems |-> 0]
NewSlice == [arr |-> Len(heap) + 1, len |-> 0]

\* append(s.data, item), where h is the heap and the capacity is not reached
Appended(h, s, item) == [h EXCEPT ![s.arr][s.len + 1] = item]

FullLater(s) == s.len > BufferItems \* mutant
Full(s) == s.len >= BufferItems

Taken(s) == pool \ {s}

-----------------------------------------------------------------------------
(* Get *)

\* Client c's Get appends to a stripe.  sync.Pool may return any stripe it has,
\* or make a new one even if it has some.  Before Close has finished, Cache.Get
\* finds the cache open; afterwards it pushes nothing.
PushTo(c, s, h, rest) ==
  /\ heap' = Appended(h, s, gets + 1)
  /\ stripe' = [stripe EXCEPT ![c] = [s EXCEPT !.len = @ + 1]]
  /\ pool' = rest
  /\ pc' = [pc EXCEPT ![c] = "pushed"]

Get(c) ==
  /\ pc[c] = "idle"
  /\ closer # "finished"
  /\ gets < MaxGets
  /\ gets' = gets + 1
  /\ \/ \E s \in pool : PushTo(c, s, heap, Taken(s))
     \/ PushTo(c, NewSlice, Append(heap, NewArray), pool)
  /\ UNCHANGED <<chanVars, readerVars, closer, metricVars>>

\* pool.Put(stripe), with s as the stripe's data
PutBack(c, s) ==
  /\ pool' = pool \cup {s}
  /\ stripe' = [stripe EXCEPT ![c] = Nil]
  /\ pc' = [pc EXCEPT ![c] = "idle"]

PutNotFull(c) ==
  /\ pc[c] = "pushed" /\ ~Full(stripe[c])
  /\ PutBack(c, stripe[c])
  /\ UNCHANGED <<heap, chanVars, readerVars, closer, metricVars, gets>>

\* defaultPolicy.Push looks at isClosed without a lock: while Close sets it, the
\* old value may be read.
ConsPush(c) ==
  /\ pc[c] = "pushed" /\ Full(stripe[c])
  /\ \/ isClosed /\ pc' = [pc EXCEPT ![c] = "refused"]
     \/ pc' = [pc EXCEPT ![c] = "send"]
  /\ UNCHANGED <<heap, pool, stripe, chanVars, readerVars, closer, metricVars, gets>>

\* The select with a default: send if the channel has room, else drop.
Send(c) ==
  /\ pc[c] = "send"
  /\ \/ /\ chClosed
        /\ panicked' = TRUE
        /\ UNCHANGED <<itemsCh, pc>>
     \/ /\ ~chClosed
        /\ IF Len(itemsCh) < ItemsChSize
           THEN /\ itemsCh' = Append(itemsCh, stripe[c])
                /\ pc' = [pc EXCEPT ![c] = "kept"]
           ELSE /\ pc' = [pc EXCEPT ![c] = "dropped"]
                /\ UNCHANGED itemsCh
        /\ UNCHANGED panicked
  /\ UNCHANGED <<heap, pool, stripe, chClosed, isClosed, readerVars, closer,
                 metricVars, gets>>

\* Mutant: a batch is counted as one Get.
CountBatch(c) ==
  \/ /\ pc[c] = "kept"
     /\ keepGets' = keepGets + 1
     /\ pc' = [pc EXCEPT ![c] = "sent"]
     /\ UNCHANGED dropGets
  \/ /\ pc[c] = "dropped"
     /\ dropGets' = dropGets + 1
     /\ pc' = [pc EXCEPT ![c] = "refused"]
     /\ UNCHANGED keepGets

\* p.metrics.add
Count(c) ==
  \/ /\ pc[c] = "kept"
     /\ keepGets' = keepGets + stripe[c].len
     /\ pc' = [pc EXCEPT ![c] = "sent"]
     /\ UNCHANGED dropGets
  \/ /\ pc[c] = "dropped"
     /\ dropGets' = dropGets + stripe[c].len
     /\ pc' = [pc EXCEPT ![c] = "refused"]
     /\ UNCHANGED keepGets

CountGets(c) ==
  /\ Count(c)
  /\ UNCHANGED <<heap, pool, stripe, chanVars, readerVars, closer, gets>>

\* Mutant: s.data = s.data[:0] although the slice was sent.
ReplaceReused(c) ==
  /\ pc[c] = "sent"
  /\ PutBack(c, [stripe[c] EXCEPT !.len = 0])
  /\ UNCHANGED heap

\* The slice was sent: the stripe gets a new array.
Replace(c) ==
  /\ pc[c] = "sent"
  /\ heap' = Append(heap, NewArray)
  /\ PutBack(c, NewSlice)

\* It was not: the stripe starts over in its array.
Truncate(c) ==
  /\ pc[c] = "refused"
  /\ PutBack(c, [stripe[c] EXCEPT !.len = 0])
  /\ UNCHANGED heap

PutDrained(c) ==
  /\ Replace(c) \/ Truncate(c)
  /\ UNCHANGED <<chanVars, readerVars, closer, metricVars, gets>>

\* A garbage collection may empty the pool; what its stripes held is lost.
Collect(s) ==
  /\ pool' = pool \ {s}
  /\ UNCHANGED <<heap, pc, stripe, chanVars, readerVars, closer, metricVars, gets>>

-----------------------------------------------------------------------------
(* processItems of the policy *)

Receive ==
  /\ reader = "select" /\ itemsCh # <<>>
  /\ batch' = Head(itemsCh)
  /\ itemsCh' = Tail(itemsCh)
  /\ pos' = 0
  /\ reader' = "count"
  /\ UNCHANGED <<heap, clientVars, chClosed, isClosed, panicked, counted, closer,
                 metricVars, gets>>

\* Mutant: the goroutine ends with its first batch.
CountedOnce == reader' = IF pos' = batch.len THEN "stopped" ELSE "count"
CountedBatch == reader' = IF pos' = batch.len THEN "select" ELSE "count"

\* tinyLFU.Push reads the slice hash by hash.
CountItem ==
  /\ reader = "count"
  /\ counted' = Append(counted, heap[batch.arr][pos + 1])
  /\ pos' = pos + 1
  /\ CountedBatch
  /\ UNCHANGED <<heap, clientVars, chanVars, batch, closer, metricVars, gets>>

\* <-p.stop meets Close's send, and p.done <- its receive.
StopReader ==
  /\ reader = "select" /\ closer = "stop"
  /\ reader' = "done"
  /\ closer' = "wait"
  /\ UNCHANGED <<heap, clientVars, chanVars, batch, pos, counted, metricVars, gets>>

\* Mutant: processItems returns without a word.
DoneSilently == reader' = "stopped" /\ UNCHANGED closer
Done == reader' = "stopped" /\ closer' = "chans"

ReaderDone ==
  /\ reader = "done" /\ closer = "wait"
  /\ Done
  /\ UNCHANGED <<heap, clientVars, chanVars, batch, pos, counted, metricVars, gets>>

-----------------------------------------------------------------------------
(* Close of the policy, called by Close of the cache, which then marks the   *)
(* cache as closed.                                                         *)

CloseCall ==
  /\ closer = "open"
  /\ closer' = "stop"
  /\ UNCHANGED <<heap, clientVars, chanVars, readerVars, metricVars, gets>>

CloseChans ==
  /\ closer = "chans"
  /\ chClosed' = TRUE
  /\ closer' = "mark"
  /\ UNCHANGED <<heap, clientVars, itemsCh, isClosed, panicked, readerVars,
                 metricVars, gets>>

CloseMark ==
  /\ closer = "mark"
  /\ isClosed' = TRUE
  /\ closer' = "marked"
  /\ UNCHANGED <<heap, clientVars, itemsCh, chClosed, panicked, readerVars,
                 metricVars, gets>>

CacheMark ==
  /\ closer = "marked"
  /\ closer' = "finished"
  /\ UNCHANGED <<heap, clientVars, chanVars, readerVars, metricVars, gets>>

-----------------------------------------------------------------------------

GetInit ==
  /\ heap = <<>>
  /\ pool = {}
  /\ pc = [c \in Clients |-> "idle"]
  /\ stripe = [c \in Clients |-> Nil]
  /\ itemsCh = <<>>
  /\ chClosed = FALSE /\ isClosed = FALSE /\ panicked = FALSE
  /\ reader = "select" /\ batch = Nil /\ pos = 0
  /\ closer = "open"
  /\ keepGets = 0 /\ dropGets = 0
  /\ gets = 0 /\ counted = <<>>

GoOn(c) ==
  PutNotFull(c) \/ ConsPush(c) \/ Send(c) \/ CountGets(c) \/ PutDrained(c)

CloseStep == ReaderDone \/ CloseChans \/ CloseMark \/ CacheMark

GetNext ==
  /\ ~panicked
  /\ \/ \E c \in Clients : Get(c) \/ GoOn(c)
     \/ \E s \in pool : Collect(s)
     \/ Receive \/ CountItem \/ StopReader
     \/ CloseCall \/ CloseStep

GetSpec == GetInit /\ [][GetNext]_getVars

\* A goroutine that can run does, and a select takes each of its cases at some
\* time if it is ready again and again.  No Get and no Close has to be called.
GetFairSpec ==
  /\ GetSpec
  /\ \A c \in Clients : WF_getVars(GoOn(c))
  /\ WF_getVars(CountItem) /\ WF_getVars(CloseStep)
  /\ SF_getVars(Receive) /\ SF_getVars(StopReader)

-----------------------------------------------------------------------------
(* Properties *)

\* A stripe never outgrows its array, nor itemsCh its capacity.
GetTypeOK ==
  /\ heap \in Seq([1..BufferItems -> 0..MaxGets])
  /\ pool \subseteq Slices
  /\ pc \in [Clients -> {"idle", "pushed", "send", "kept", "dropped", "sent",
                         "refused"}]
  /\ stripe \in [Clients -> Slices]
  /\ itemsCh \in Seq(Slices) /\ Len(itemsCh) <= ItemsChSize
  /\ chClosed \in BOOLEAN /\ isClosed \in BOOLEAN /\ panicked \in BOOLEAN
  /\ reader \in {"select", "count", "done", "stopped"}
  /\ batch \in Slices /\ pos \in 0..BufferItems
  /\ closer \in {"open", "stop", "wait", "chans", "mark", "marked", "finished"}
  /\ keepGets \in Nat /\ dropGets \in Nat
  /\ gets \in 0..MaxGets /\ counted \in Seq(0..MaxGets)

\* The slices the policy has been handed and not finished with
Reading == reader = "count"
InFlight == Range(itemsCh) \cup (IF Reading THEN {batch} ELSE {})

\* The positions of the heap it has yet to read
Unread ==
  {<<s.arr, i>> : s \in Range(itemsCh), i \in 1..BufferItems}
    \cup {<<batch.arr, i>> : i \in {j \in 1..batch.len : Reading /\ j > pos}}

\* A batch handed to the policy is not written to until the policy has read it,
\* though the stripes go on being used and their arrays are recycled.
BatchStable ==
  [][\A s \in InFlight : heap'[s.arr] = heap[s.arr]]_getVars

\* No Get is counted twice: those the sketch was given and those it will be given
\* are all different, and none of them waits in a stripe besides.
NoGetCountedTwice ==
  /\ IsInjective(counted)
  /\ \A p, q \in Unread : heap[p[1]][p[2]] = heap[q[1]][q[2]] => p = q
  /\ \A p \in Unread : heap[p[1]][p[2]] \notin Range(counted)
  /\ \A s \in pool : \A i \in 1..s.len :
       /\ heap[s.arr][i] \notin Range(counted)
       /\ <<s.arr, i>> \notin Unread

\* GetsKept is what the sketch was given or will be given, batches whose client
\* has yet to add them to the counter excepted; and no Get is in both counters.
GetsAccounted ==
  /\ keepGets + BufferItems * Cardinality({c \in Clients : pc[c] = "kept"})
       = Len(counted) + Cardinality(Unread)
  /\ keepGets + dropGets <= gets

\* A batch that was accepted is counted, unless the goroutine is stopped first.
KeptCounted ==
  \A n \in 1..MaxGets :
    (\E p \in Unread : heap[p[1]][p[2]] = n)
      ~> (n \in Range(counted) \/ closer \notin {"open", "stop"} \/ panicked)

\* Close returns, whatever the Gets under way do, unless one of them panics.
CloseReturns == closer # "open" ~> (closer = "finished" \/ panicked)

(* What makes BatchStable hold: who may write to an array *)

Busy(c) == pc[c] # "idle"
HandedOver(c) == pc[c] \in {"kept", "sent"}

\* Every slice in use lies in the heap, stripes are never full between two Gets,
\* and batches always are.
SlicesOK ==
  /\ \A s \in pool : s.arr \in DOMAIN heap /\ s.len < BufferItems
  /\ \A c \in Clients :
       /\ Busy(c) => stripe[c].arr \in DOMAIN heap
       /\ pc[c] = "send" => Full(stripe[c])
  /\ \A s \in InFlight : s.arr \in DOMAIN heap /\ Full(s)
  /\ Reading => pos < batch.len

\* Two stripes never share an array, and a stripe shares one with a batch only
\* while the client that sent it has yet to replace it.
ArraysOwned ==
  /\ \A s, t \in pool : s.arr = t.arr => s = t
  /\ \A s \in pool, c \in Clients : Busy(c) => s.arr # stripe[c].arr
  /\ \A c, d \in Clients :
       Busy(c) /\ Busy(d) /\ stripe[c].arr = stripe[d].arr => c = d
  /\ \A s \in pool, t \in InFlight : s.arr # t.arr
  /\ \A c \in Clients, t \in InFlight :
       Busy(c) /\ ~HandedOver(c) => stripe[c].arr # t.arr
=============================================================================
