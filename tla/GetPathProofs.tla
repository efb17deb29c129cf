--------------------------- MODULE GetPathProofs ---------------------------
(***************************************************************************)
(* For any number of goroutines and Gets and any size of stripes and       *)
(* channel: no batch is written to while the policy reads it, no Get is    *)
(* counted twice, and the metrics account for every batch.                 *)
(***************************************************************************)
EXTENDS GetPath, SequenceTheorems, FiniteSetTheorems, TLAPS

Arrays == [1..BufferItems -> 0..MaxGets]
GetInv == GetTypeOK /\ SlicesOK /\ ArraysOwned

(* Appending to a slice writes to one array and leaves the others alone.    *)
LEMMA AppendedHeap ==
  ASSUME NEW h \in Seq(Arrays), NEW s \in Slices, NEW item \in 0..MaxGets,
         s.arr \in DOMAIN h, s.len < BufferItems
  PROVE  /\ Appended(h, s, item) \in Seq(Arrays)
         /\ DOMAIN Appended(h, s, item) = DOMAIN h
         /\ \A a \in DOMAIN h \ {s.arr} : Appended(h, s, item)[a] = h[a]
<1>1. DOMAIN h = 1..Len(h) /\ s.arr \in 1..Len(h)
  OBVIOUS
<1>. DEFINE e == [h[s.arr] EXCEPT ![s.len + 1] = item]
<1>2. e \in Arrays
  <2>1. h[s.arr] \in Arrays
    BY <1>1, ElementOfSeq
  <2>2. s.len + 1 \in 1..BufferItems
    BY GetPathConstants DEF Slices
  <2>. QED  BY <2>1, <2>2 DEF Arrays
<1>3. Appended(h, s, item) = [h EXCEPT ![s.arr] = e]
  BY DEF Appended
<1>. HIDE DEF e
<1>. QED  BY <1>1, <1>2, <1>3, ExceptSeq

(* make([]uint64, 0, capa) extends the heap and changes no array of it.     *)
LEMMA NewArrayHeap ==
  ASSUME NEW h \in Seq(Arrays)
  PROVE  /\ Append(h, NewArray) \in Seq(Arrays)
         /\ DOMAIN Append(h, NewArray) = DOMAIN h \cup {Len(h) + 1}
         /\ \A a \in DOMAIN h : Append(h, NewArray)[a] = h[a]
         /\ Len(h) + 1 \notin DOMAIN h /\ Len(h) \in Nat
<1>1. NewArray \in Arrays
  BY GetPathConstants DEF NewArray, Arrays
<1>2. DOMAIN h = 1..Len(h) /\ Len(h) \in Nat
  OBVIOUS
<1>3. /\ Append(h, NewArray) \in Seq(Arrays)
      /\ Len(Append(h, NewArray)) = Len(h) + 1
      /\ \A a \in 1..Len(h) : Append(h, NewArray)[a] = h[a]
  BY <1>1, AppendProperties
<1>4. DOMAIN Append(h, NewArray) = 1..(Len(h) + 1)
  BY <1>3
<1>. QED  BY <1>2, <1>3, <1>4

(* What a step leaves of the batches when it touches neither the channel    *)
(* nor the reader.                                                          *)
LEMMA SameBatches ==
  ASSUME itemsCh' = itemsCh, reader' = reader, batch' = batch
  PROVE  InFlight' = InFlight /\ Reading' = Reading
BY DEF InFlight, Reading

(* A slice enters the channel at its end and leaves it at its head.         *)
LEMMA RangeOfChannel ==
  ASSUME NEW q \in Seq(Slices)
  PROVE  /\ \A s \in Slices : Range(Append(q, s)) = Range(q) \cup {s}
         /\ q # <<>> => Range(Tail(q)) \subseteq Range(q) /\ Head(q) \in Range(q)
         /\ Range(q) \subseteq Slices
<1>1. DOMAIN q = 1..Len(q) /\ Len(q) \in Nat /\ \A i \in 1..Len(q) : q[i] \in Slices
  BY ElementOfSeq
<1>2. ASSUME NEW s \in Slices PROVE Range(Append(q, s)) = Range(q) \cup {s}
  <2>1. /\ Append(q, s) \in Seq(Slices) /\ Len(Append(q, s)) = Len(q) + 1
        /\ \A i \in 1..Len(q) : Append(q, s)[i] = q[i]
        /\ Append(q, s)[Len(q) + 1] = s
    BY AppendProperties
  <2>2. DOMAIN Append(q, s) = 1..(Len(q) + 1)
    BY <2>1
  <2>3. Range(Append(q, s)) \subseteq Range(q) \cup {s}
    BY <1>1, <2>1, <2>2 DEF Range
  <2>4. Range(q) \subseteq Range(Append(q, s)) /\ s \in Range(Append(q, s))
    BY <1>1, <2>1, <2>2 DEF Range
  <2>. QED  BY <2>3, <2>4
<1>3. ASSUME q # <<>> PROVE Range(Tail(q)) \subseteq Range(q) /\ Head(q) \in Range(q)
  <2>1. /\ Tail(q) \in Seq(Slices) /\ Len(Tail(q)) = Len(q) - 1
        /\ \A i \in 1..Len(Tail(q)) : Tail(q)[i] = q[i + 1]
    BY <1>3, HeadTailProperties
  <2>2. DOMAIN Tail(q) = 1..(Len(q) - 1) /\ Len(q) > 0
    BY <1>1, <1>3, <2>1
  <2>3. Head(q) = q[1]
    BY <1>3
  <2>. QED  BY <1>1, <2>1, <2>2, <2>3 DEF Range
<1>. QED  BY <1>1, <1>2, <1>3 DEF Range

-----------------------------------------------------------------------------
(* One lemma per action                                                     *)

(* A Get writes to the array of the stripe it has taken, which is no        *)
(* batch's, or to a new one.                                                *)
LEMMA PushToKeeps ==
  ASSUME GetInv, NEW c \in Clients, pc[c] = "idle", gets < MaxGets, gets' = gets + 1,
         NEW s \in Slices, NEW h \in Seq(Arrays), NEW rest \in SUBSET pool,
         s.arr \in DOMAIN h, s.len < BufferItems,
         DOMAIN heap \subseteq DOMAIN h, \A a \in DOMAIN heap : h[a] = heap[a],
         \A t \in rest : t.arr # s.arr,
         \A t \in InFlight : t.arr # s.arr,
         \A d \in Clients : Busy(d) => stripe[d].arr # s.arr,
         PushTo(c, s, h, rest),
         UNCHANGED <<chanVars, readerVars, closer, metricVars>>
  PROVE  GetInv' /\ \A t \in InFlight : heap'[t.arr] = heap[t.arr]
<1>. USE DEF GetInv
<1>. DEFINE s1 == [s EXCEPT !.len = @ + 1]
<1>0. s1 \in Slices /\ s1.arr = s.arr
  BY GetPathConstants DEF Slices
<1>1. /\ heap' = Appended(h, s, gets + 1)
      /\ stripe' = [stripe EXCEPT ![c] = s1]
      /\ pool' = rest
      /\ pc' = [pc EXCEPT ![c] = "pushed"]
  BY DEF PushTo
<1>. HIDE DEF s1
<1>2. gets + 1 \in 0..MaxGets
  BY GetPathConstants DEF GetTypeOK
<1>3. /\ heap' \in Seq(Arrays) /\ DOMAIN heap' = DOMAIN h
      /\ \A a \in DOMAIN h \ {s.arr} : heap'[a] = h[a]
  BY <1>1, <1>2, AppendedHeap
<1>4. InFlight' = InFlight /\ Reading' = Reading
  BY SameBatches DEF chanVars, readerVars
<1>5. GetTypeOK'
  BY <1>0, <1>1, <1>2, <1>3 DEF GetTypeOK, Arrays, chanVars, readerVars, metricVars
<1>6. SlicesOK'
  <2>1. \A t \in pool' : t.arr \in DOMAIN heap' /\ t.len < BufferItems
    BY <1>1, <1>3 DEF SlicesOK
  <2>2. \A d \in Clients : /\ Busy(d)' => stripe'[d].arr \in DOMAIN heap'
                           /\ pc'[d] = "send" => Full(stripe'[d])
    BY <1>0, <1>1, <1>3 DEF SlicesOK, Busy, GetTypeOK
  <2>3. \A t \in InFlight' : t.arr \in DOMAIN heap' /\ Full(t)
    BY <1>3, <1>4 DEF SlicesOK
  <2>4. Reading' => pos' < batch'.len
    BY <1>4 DEF SlicesOK, readerVars
  <2>. QED  BY <2>1, <2>2, <2>3, <2>4 DEF SlicesOK, Full
<1>7. ArraysOwned'
  <2>1. \A d \in Clients : /\ d # c => stripe'[d] = stripe[d] /\ pc'[d] = pc[d]
                           /\ d = c => stripe'[d].arr = s.arr /\ pc'[d] = "pushed"
    BY <1>0, <1>1 DEF GetTypeOK
  <2>. QED  BY <1>1, <1>4, <2>1 DEF ArraysOwned, Busy, HandedOver
<1>8. \A t \in InFlight : heap'[t.arr] = heap[t.arr]
  BY <1>3 DEF SlicesOK
<1>. QED  BY <1>5, <1>6, <1>7, <1>8

(* Both kinds of stripe a Get may take, a pooled one and a new one, will do. *)
LEMMA GetKeeps ==
  ASSUME GetInv, NEW c \in Clients, Get(c)
  PROVE  GetInv' /\ \A t \in InFlight : heap'[t.arr] = heap[t.arr]
<1>. USE DEF GetInv
<1>0. heap \in Seq(Arrays) /\ pool \subseteq Slices
  BY DEF GetTypeOK, Arrays
<1>1. ASSUME NEW s \in pool, PushTo(c, s, heap, Taken(s))
      PROVE  GetInv' /\ \A t \in InFlight : heap'[t.arr] = heap[t.arr]
  <2>1. s \in Slices /\ s.arr \in DOMAIN heap /\ s.len < BufferItems
    BY <1>0 DEF SlicesOK
  <2>2. /\ Taken(s) \in SUBSET pool
        /\ \A t \in Taken(s) : t.arr # s.arr
        /\ \A t \in InFlight : t.arr # s.arr
        /\ \A d \in Clients : Busy(d) => stripe[d].arr # s.arr
    BY DEF ArraysOwned, Taken
  <2>3. /\ pc[c] = "idle" /\ gets < MaxGets /\ gets' = gets + 1
        /\ UNCHANGED <<chanVars, readerVars, closer, metricVars>>
    BY DEF Get
  <2>. QED  BY <1>0, <1>1, <2>1, <2>2, <2>3, PushToKeeps
<1>2. ASSUME PushTo(c, NewSlice, Append(heap, NewArray), pool)
      PROVE  GetInv' /\ \A t \in InFlight : heap'[t.arr] = heap[t.arr]
  <2>1. /\ Append(heap, NewArray) \in Seq(Arrays)
        /\ DOMAIN Append(heap, NewArray) = DOMAIN heap \cup {Len(heap) + 1}
        /\ \A a \in DOMAIN heap : Append(heap, NewArray)[a] = heap[a]
        /\ Len(heap) + 1 \notin DOMAIN heap /\ Len(heap) \in Nat
    BY <1>0, NewArrayHeap
  <2>2. /\ NewSlice \in Slices /\ NewSlice.arr = Len(heap) + 1
        /\ NewSlice.len = 0 /\ 0 < BufferItems
    BY <2>1, GetPathConstants DEF NewSlice, Slices
  <2>3. /\ \A t \in pool : t.arr # NewSlice.arr
        /\ \A t \in InFlight : t.arr # NewSlice.arr
        /\ \A d \in Clients : Busy(d) => stripe[d].arr # NewSlice.arr
    BY <2>1, <2>2 DEF SlicesOK
  <2>4. /\ pc[c] = "idle" /\ gets < MaxGets /\ gets' = gets + 1
        /\ UNCHANGED <<chanVars, readerVars, closer, metricVars>>
    BY DEF Get
  <2>. QED  BY <1>2, <2>1, <2>2, <2>3, <2>4, PushToKeeps
<1>. QED  BY <1>1, <1>2 DEF Get

(* A stripe goes back to the pool with a slice that no other stripe and no  *)
(* batch shares.                                                            *)
LEMMA PutBackKeeps ==
  ASSUME GetInv, NEW c \in Clients, Busy(c), NEW s \in Slices, PutBack(c, s),
         s.len < BufferItems, heap' \in Seq(Arrays),
         s.arr \in DOMAIN heap', DOMAIN heap \subseteq DOMAIN heap',
         \A t \in pool : t.arr # s.arr,
         \A t \in InFlight : t.arr # s.arr,
         \A d \in Clients \ {c} : Busy(d) => stripe[d].arr # s.arr,
         UNCHANGED <<chanVars, readerVars, closer, metricVars, gets>>
  PROVE  GetInv'
<1>. USE DEF GetInv
<1>1. /\ pool' = pool \cup {s}
      /\ stripe' = [stripe EXCEPT ![c] = Nil]
      /\ pc' = [pc EXCEPT ![c] = "idle"]
  BY DEF PutBack
<1>2. InFlight' = InFlight /\ Reading' = Reading
  BY SameBatches DEF chanVars, readerVars
<1>3. Nil \in Slices
  BY GetPathConstants DEF Nil, Slices
<1>4. GetTypeOK'
  BY <1>1, <1>3 DEF GetTypeOK, Arrays, chanVars, readerVars, metricVars
<1>5. \A d \in Clients : /\ d # c => stripe'[d] = stripe[d] /\ pc'[d] = pc[d]
                         /\ d = c => pc'[d] = "idle"
  BY <1>1 DEF GetTypeOK
<1>6. SlicesOK'
  BY <1>1, <1>2, <1>5 DEF SlicesOK, Busy, Full, readerVars
<1>7. ArraysOwned'
  BY <1>1, <1>2, <1>5 DEF ArraysOwned, Busy, HandedOver
<1>. QED  BY <1>4, <1>6, <1>7

(* The steps of a Get after its push.                                       *)
LEMMA GoOnKeeps ==
  ASSUME GetInv, NEW c \in Clients, GoOn(c)
  PROVE  GetInv' /\ \A t \in InFlight : heap'[t.arr] = heap[t.arr]
<1>. USE DEF GetInv
<1>0. heap \in Seq(Arrays) /\ pool \subseteq Slices /\ stripe[c] \in Slices
  BY DEF GetTypeOK, Arrays
<1>1. CASE PutNotFull(c)
  <2>1. /\ Busy(c) /\ ~HandedOver(c) /\ heap' = heap /\ PutBack(c, stripe[c])
        /\ stripe[c].len < BufferItems
        /\ UNCHANGED <<chanVars, readerVars, closer, metricVars, gets>>
    BY <1>0, <1>1, GetPathConstants DEF PutNotFull, Busy, HandedOver, Full, Slices
  <2>2. /\ stripe[c].arr \in DOMAIN heap
        /\ \A t \in pool : t.arr # stripe[c].arr
        /\ \A t \in InFlight : t.arr # stripe[c].arr
        /\ \A d \in Clients \ {c} : Busy(d) => stripe[d].arr # stripe[c].arr
    BY <2>1 DEF SlicesOK, ArraysOwned
  <2>3. GetInv'
    BY <1>0, <2>1, <2>2, PutBackKeeps
  <2>. QED  BY <2>1, <2>3
<1>2. CASE ConsPush(c)
  <2>1. /\ UNCHANGED <<heap, pool, stripe, chanVars, readerVars, closer, metricVars, gets>>
        /\ \/ pc' = [pc EXCEPT ![c] = "refused"]
           \/ pc' = [pc EXCEPT ![c] = "send"] /\ Full(stripe[c])
        /\ pc[c] = "pushed"
    BY <1>2 DEF ConsPush
  <2>2. InFlight' = InFlight /\ Reading' = Reading
    BY <2>1, SameBatches DEF chanVars, readerVars
  <2>3. GetTypeOK'
    BY <2>1 DEF GetTypeOK, chanVars, readerVars, metricVars
  <2>4. \A d \in Clients :
          /\ Busy(d)' = Busy(d) /\ HandedOver(d)' = HandedOver(d)
          /\ pc'[d] = "send" => pc[d] = "send" \/ Full(stripe[d])
    BY <2>1 DEF GetTypeOK, Busy, HandedOver
  <2>5. SlicesOK'
    BY <2>1, <2>2, <2>4 DEF SlicesOK, Full, readerVars
  <2>6. ArraysOwned'
    BY <2>1, <2>2, <2>4 DEF ArraysOwned
  <2>. QED  BY <2>1, <2>3, <2>5, <2>6
<1>3. CASE Send(c)
  <2>0. /\ UNCHANGED <<heap, pool, stripe, chClosed, isClosed, readerVars, closer,
                       metricVars, gets>>
        /\ pc[c] = "send"
    BY <1>3 DEF Send
  <2>1. CASE chClosed
    <3>1. panicked' = TRUE /\ itemsCh' = itemsCh /\ pc' = pc
      BY <1>3, <2>1 DEF Send
    <3>2. InFlight' = InFlight /\ Reading' = Reading
      BY <2>0, <3>1, SameBatches DEF readerVars
    <3>. QED  BY <2>0, <3>1, <3>2
              DEF GetTypeOK, SlicesOK, ArraysOwned, Busy, HandedOver, Full,
                  readerVars, metricVars
  <2>2. CASE ~chClosed /\ Len(itemsCh) < ItemsChSize
    <3>1. /\ itemsCh' = Append(itemsCh, stripe[c])
          /\ pc' = [pc EXCEPT ![c] = "kept"] /\ panicked' = panicked
      BY <1>3, <2>2 DEF Send
    <3>2. /\ itemsCh \in Seq(Slices) /\ itemsCh' \in Seq(Slices)
          /\ Len(itemsCh') = Len(itemsCh) + 1 /\ Len(itemsCh) \in Nat
      BY <1>0, <3>1, AppendProperties DEF GetTypeOK
    <3>3. InFlight' = InFlight \cup {stripe[c]} /\ Reading' = Reading
      BY <1>0, <2>0, <3>1, <3>2, RangeOfChannel DEF InFlight, Reading, readerVars
    <3>4. GetTypeOK'
      BY <2>0, <2>2, <3>1, <3>2, GetPathConstants DEF GetTypeOK, readerVars, metricVars
    <3>5. \A d \in Clients :
            /\ Busy(d)' = Busy(d) /\ (d # c => HandedOver(d)' = HandedOver(d))
            /\ HandedOver(c)' /\ (pc'[d] = "send" => pc[d] = "send")
      BY <2>0, <3>1 DEF GetTypeOK, Busy, HandedOver
    <3>6. Busy(c) /\ Full(stripe[c]) /\ stripe[c].arr \in DOMAIN heap
      BY <2>0 DEF SlicesOK, Busy
    <3>7. SlicesOK'
      BY <2>0, <3>3, <3>5, <3>6 DEF SlicesOK, Full, readerVars
    <3>8. ArraysOwned'
      BY <2>0, <3>3, <3>5, <3>6 DEF ArraysOwned
    <3>. QED  BY <2>0, <3>4, <3>7, <3>8
  <2>3. CASE ~chClosed /\ ~(Len(itemsCh) < ItemsChSize)
    <3>1. /\ itemsCh' = itemsCh
          /\ pc' = [pc EXCEPT ![c] = "dropped"] /\ panicked' = panicked
      BY <1>3, <2>3 DEF Send
    <3>2. InFlight' = InFlight /\ Reading' = Reading
      BY <2>0, <3>1, SameBatches DEF readerVars
    <3>3. GetTypeOK'
      BY <2>0, <3>1 DEF GetTypeOK, readerVars, metricVars
    <3>4. \A d \in Clients :
            /\ Busy(d)' = Busy(d) /\ HandedOver(d)' = HandedOver(d)
            /\ pc'[d] = "send" => pc[d] = "send"
      BY <2>0, <3>1 DEF GetTypeOK, Busy, HandedOver
    <3>5. SlicesOK'
      BY <2>0, <3>2, <3>4 DEF SlicesOK, Full, readerVars
    <3>6. ArraysOwned'
      BY <2>0, <3>2, <3>4 DEF ArraysOwned
    <3>. QED  BY <2>0, <3>3, <3>5, <3>6
  <2>. QED  BY <2>1, <2>2, <2>3
<1>4. CASE CountGets(c)
  <2>1. UNCHANGED <<heap, pool, stripe, chanVars, readerVars, closer, gets>>
    BY <1>4 DEF CountGets
  <2>2. \/ pc[c] = "kept" /\ pc' = [pc EXCEPT ![c] = "sent"]
        \/ pc[c] = "dropped" /\ pc' = [pc EXCEPT ![c] = "refused"]
    BY <1>4 DEF CountGets, Count
  <2>3. keepGets' \in Nat /\ dropGets' \in Nat
    BY <1>0, <1>4 DEF CountGets, Count, GetTypeOK, Slices
  <2>4. InFlight' = InFlight /\ Reading' = Reading
    BY <2>1, SameBatches DEF chanVars, readerVars
  <2>5. GetTypeOK'
    BY <2>1, <2>2, <2>3 DEF GetTypeOK, chanVars, readerVars
  <2>6. \A d \in Clients :
          /\ Busy(d)' = Busy(d) /\ HandedOver(d)' = HandedOver(d)
          /\ pc'[d] = "send" => pc[d] = "send"
    BY <2>2 DEF GetTypeOK, Busy, HandedOver
  <2>7. SlicesOK'
    BY <2>1, <2>4, <2>6 DEF SlicesOK, Full, readerVars
  <2>8. ArraysOwned'
    BY <2>1, <2>4, <2>6 DEF ArraysOwned
  <2>. QED  BY <2>1, <2>5, <2>7, <2>8
<1>5. CASE PutDrained(c)
  <2>0. UNCHANGED <<chanVars, readerVars, closer, metricVars, gets>>
    BY <1>5 DEF PutDrained
  <2>1. CASE Replace(c)
    <3>1. /\ Busy(c) /\ heap' = Append(heap, NewArray) /\ PutBack(c, NewSlice)
      BY <2>1 DEF Replace, Busy
    <3>2. /\ heap' \in Seq(Arrays) /\ DOMAIN heap' = DOMAIN heap \cup {Len(heap) + 1}
          /\ \A a \in DOMAIN heap : heap'[a] = heap[a]
          /\ Len(heap) + 1 \notin DOMAIN heap /\ Len(heap) \in Nat
      BY <1>0, <3>1, NewArrayHeap
    <3>3. /\ NewSlice \in Slices /\ NewSlice.arr = Len(heap) + 1
          /\ NewSlice.len < BufferItems
      BY <3>2, GetPathConstants DEF NewSlice, Slices
    <3>4. /\ \A t \in pool : t.arr # NewSlice.arr
          /\ \A t \in InFlight : t.arr # NewSlice.arr
          /\ \A d \in Clients \ {c} : Busy(d) => stripe[d].arr # NewSlice.arr
      BY <3>2, <3>3 DEF SlicesOK
    <3>5. GetInv'
      BY <2>0, <3>1, <3>2, <3>3, <3>4, PutBackKeeps
    <3>. QED  BY <3>2, <3>5 DEF SlicesOK
  <2>2. CASE Truncate(c)
    <3>. DEFINE s == [stripe[c] EXCEPT !.len = 0]
    <3>1. /\ Busy(c) /\ ~HandedOver(c) /\ heap' = heap /\ PutBack(c, s)
      BY <2>2 DEF Truncate, Busy, HandedOver
    <3>2. s \in Slices /\ s.arr = stripe[c].arr /\ s.len < BufferItems
      BY <1>0, GetPathConstants DEF Slices
    <3>. HIDE DEF s
    <3>3. /\ s.arr \in DOMAIN heap
          /\ \A t \in pool : t.arr # s.arr
          /\ \A t \in InFlight : t.arr # s.arr
          /\ \A d \in Clients \ {c} : Busy(d) => stripe[d].arr # s.arr
      BY <3>1, <3>2 DEF SlicesOK, ArraysOwned
    <3>4. GetInv'
      BY <1>0, <2>0, <3>1, <3>2, <3>3, PutBackKeeps
    <3>. QED  BY <3>1, <3>4
  <2>. QED  BY <1>5, <2>1, <2>2 DEF PutDrained
<1>. QED  BY <1>1, <1>2, <1>3, <1>4, <1>5 DEF GoOn

(* The policy's goroutine takes a batch from the channel and reads it; it   *)
(* never has a batch that was not in flight before.                         *)
LEMMA ReaderKeeps ==
  ASSUME GetInv, Receive \/ CountItem
  PROVE  GetInv' /\ heap' = heap
<1>. USE DEF GetInv
<1>0. /\ UNCHANGED <<heap, clientVars, chClosed, isClosed, panicked, closer, metricVars, gets>>
  BY DEF Receive, CountItem, chanVars
<1>1. /\ InFlight' \subseteq InFlight
      /\ batch' \in Slices /\ itemsCh' \in Seq(Slices) /\ Len(itemsCh') <= ItemsChSize
      /\ reader' \in {"select", "count"} /\ pos' \in 0..BufferItems
      /\ counted' \in Seq(0..MaxGets)
      /\ Reading' => pos' < batch'.len
  <2>1. CASE Receive
    <3>1. /\ reader = "select" /\ itemsCh # <<>> /\ batch' = Head(itemsCh)
          /\ itemsCh' = Tail(itemsCh) /\ pos' = 0 /\ reader' = "count" /\ counted' = counted
      BY <2>1 DEF Receive
    <3>2. itemsCh \in Seq(Slices)
      BY DEF GetTypeOK
    <3>3. /\ Range(Tail(itemsCh)) \subseteq Range(itemsCh) /\ Head(itemsCh) \in Range(itemsCh)
          /\ Head(itemsCh) \in Slices /\ Tail(itemsCh) \in Seq(Slices)
          /\ Len(Tail(itemsCh)) = Len(itemsCh) - 1 /\ Len(itemsCh) \in Nat
      BY <3>1, <3>2, RangeOfChannel, HeadTailProperties
    <3>4. InFlight' \subseteq InFlight /\ batch' \in InFlight
      BY <3>1, <3>3 DEF InFlight, Reading
    <3>5. Full(batch') /\ batch' \in Slices
      BY <3>1, <3>3, <3>4 DEF SlicesOK
    <3>6. 0 < batch'.len
      BY <3>5, GetPathConstants DEF Full, Slices
    <3>. QED  BY <3>1, <3>3, <3>4, <3>5, <3>6, GetPathConstants DEF GetTypeOK
  <2>2. CASE CountItem
    <3>1. /\ reader = "count" /\ pos' = pos + 1 /\ batch' = batch /\ itemsCh' = itemsCh
          /\ reader' = (IF pos + 1 = batch.len THEN "select" ELSE "count")
          /\ counted' = Append(counted, heap[batch.arr][pos + 1])
      BY <2>2 DEF CountItem, CountedBatch, chanVars
    <3>2. /\ batch \in Slices /\ batch \in InFlight /\ batch.arr \in DOMAIN heap
          /\ pos \in Nat /\ pos < batch.len
      BY <3>1 DEF GetTypeOK, SlicesOK, InFlight, Reading
    <3>3. pos + 1 \in 1..BufferItems /\ pos + 1 \in 0..BufferItems /\ pos + 1 <= batch.len
      BY <3>2, GetPathConstants DEF Slices
    <3>4. heap[batch.arr] \in Arrays
      BY <3>2 DEF GetTypeOK, Arrays
    <3>5. heap[batch.arr][pos + 1] \in 0..MaxGets
      BY <3>3, <3>4 DEF Arrays
    <3>6. counted' \in Seq(0..MaxGets)
      BY <3>1, <3>5, AppendProperties DEF GetTypeOK
    <3>7. InFlight' \subseteq InFlight
      BY <3>1 DEF InFlight, Reading
    <3>8. Reading' => pos' < batch'.len
      BY <3>1, <3>2, <3>3 DEF Reading, Slices
    <3>. QED  BY <3>1, <3>2, <3>3, <3>6, <3>7, <3>8 DEF GetTypeOK
  <2>. QED  BY <2>1, <2>2
<1>2. GetTypeOK'
  BY <1>0, <1>1 DEF GetTypeOK, clientVars, metricVars
<1>3. SlicesOK'
  BY <1>0, <1>1 DEF SlicesOK, Busy, Full, clientVars
<1>4. ArraysOwned'
  BY <1>0, <1>1 DEF ArraysOwned, Busy, HandedOver, clientVars
<1>. QED  BY <1>0, <1>2, <1>3, <1>4

(* Close, the garbage collector and the goroutine's end touch no slice in   *)
(* use.                                                                     *)
LEMMA OthersKeep ==
  ASSUME GetInv,
         \/ \E s \in pool : Collect(s)
         \/ StopReader \/ CloseCall \/ CloseStep
         \/ UNCHANGED getVars
  PROVE  GetInv' /\ heap' = heap
<1>. USE DEF GetInv
<1>1. /\ UNCHANGED <<heap, pc, stripe, itemsCh, batch, pos, counted, metricVars, gets>>
      /\ pool' \subseteq pool
      /\ Reading' = Reading
      /\ reader' \in {reader, "done", "stopped"}
      /\ closer' \in {closer, "stop", "wait", "chans", "mark", "marked", "finished"}
      /\ chClosed' \in {chClosed, TRUE} /\ isClosed' \in {isClosed, TRUE}
      /\ panicked' = panicked
  BY DEF Collect, StopReader, CloseCall, CloseStep, ReaderDone, Done, CloseChans,
         CloseMark, CacheMark, getVars, clientVars, chanVars, readerVars, Reading
<1>2. InFlight' = InFlight
  BY <1>1 DEF InFlight
<1>3. GetTypeOK'
  BY <1>1 DEF GetTypeOK, metricVars
<1>4. SlicesOK' /\ ArraysOwned'
  BY <1>1, <1>2 DEF SlicesOK, ArraysOwned, Busy, HandedOver, Full
<1>. QED  BY <1>1, <1>3, <1>4

-----------------------------------------------------------------------------
(* Theorems                                                                 *)

(* The invariant holds at first.                                            *)
LEMMA GetInitially == GetInit => GetInv
<1>. SUFFICES ASSUME GetInit PROVE GetInv
  OBVIOUS
<1>1. InFlight = {} /\ ~Reading
  BY DEF GetInit, InFlight, Reading, Range
<1>2. GetTypeOK
  <2>1. Nil \in Slices
    BY GetPathConstants DEF Nil, Slices
  <2>2. /\ heap \in Seq([1..BufferItems -> 0..MaxGets])
        /\ itemsCh \in Seq(Slices) /\ Len(itemsCh) <= ItemsChSize
        /\ counted \in Seq(0..MaxGets)
    BY GetPathConstants DEF GetInit
  <2>3. chClosed \in BOOLEAN /\ isClosed \in BOOLEAN /\ panicked \in BOOLEAN
    BY DEF GetInit
  <2>4. /\ pc \in [Clients -> {"idle", "pushed", "send", "kept", "dropped", "sent",
                               "refused"}]
        /\ stripe \in [Clients -> Slices] /\ pool \subseteq Slices
    BY <2>1 DEF GetInit
  <2>5. /\ batch \in Slices /\ pos \in 0..BufferItems /\ gets \in 0..MaxGets
        /\ keepGets \in Nat /\ dropGets \in Nat
    BY <2>1, GetPathConstants DEF GetInit
  <2>6. /\ reader \in {"select", "count", "done", "stopped"}
        /\ closer \in {"open", "stop", "wait", "chans", "mark", "marked", "finished"}
    BY DEF GetInit
  <2>. QED  BY <2>2, <2>3, <2>4, <2>5, <2>6 DEF GetTypeOK
<1>. QED  BY <1>1, <1>2 DEF GetInit, GetInv, SlicesOK, ArraysOwned, Busy

(* Every step keeps the invariant and changes no batch.                     *)
LEMMA GetStep ==
  GetInv /\ [GetNext]_getVars =>
    GetInv' /\ \A s \in InFlight : heap'[s.arr] = heap[s.arr]
<1>. SUFFICES ASSUME GetInv, [GetNext]_getVars
              PROVE  GetInv' /\ \A s \in InFlight : heap'[s.arr] = heap[s.arr]
  OBVIOUS
<1>1. ASSUME NEW c \in Clients, Get(c) \/ GoOn(c)
      PROVE  GetInv' /\ \A s \in InFlight : heap'[s.arr] = heap[s.arr]
  BY <1>1, GetKeeps, GoOnKeeps
<1>2. CASE Receive \/ CountItem
  BY <1>2, ReaderKeeps
<1>3. CASE \/ \E s \in pool : Collect(s)
           \/ StopReader \/ CloseCall \/ CloseStep
           \/ UNCHANGED getVars
  BY <1>3, OthersKeep
<1>. QED  BY <1>1, <1>2, <1>3 DEF GetNext

(* The get path's state stays well typed: a stripe never outgrows its       *)
(* array, nor itemsCh its capacity.                                         *)
THEOREM GetPathTyped == GetSpec => []GetTypeOK
<1>. QED  BY GetInitially, GetStep, PTL DEF GetSpec, GetInv

(* A batch that ringStripe.Push has handed to the policy is not written to  *)
(* until the policy's goroutine has read it.                                *)
THEOREM BatchesStable == GetSpec => BatchStable
<1>1. GetInv /\ [GetNext]_getVars =>
        [\A s \in InFlight : heap'[s.arr] = heap[s.arr]]_getVars
  BY GetStep
<1>. QED  BY <1>1, GetInitially, GetStep, PTL DEF GetSpec, BatchStable

-----------------------------------------------------------------------------
(* What is counted.  A cell is a position of an array.  Pending cells hold   *)
(* Gets on their way to the policy; unaccounted ones are in no metric yet.   *)

CellsOf(S) == {p \in Nat \X Nat : \E s \in S : p[1] = s.arr /\ p[2] \in 1..s.len}

PendingSlices ==
  pool \cup {stripe[c] : c \in {d \in Clients : pc[d] \in {"pushed", "send"}}}
OwedSlices == {stripe[c] : c \in {d \in Clients : pc[d] \in {"kept", "dropped"}}}

Pending == CellsOf(PendingSlices)
Unaccounted == CellsOf(PendingSlices \cup OwedSlices)
Live == Unread \cup Pending
Val(p) == heap[p[1]][p[2]]

BatchesApart ==
  /\ \A i, j \in DOMAIN itemsCh : itemsCh[i].arr = itemsCh[j].arr => i = j
  /\ Reading => \A s \in Range(itemsCh) : s.arr # batch.arr
  /\ \A c \in Clients : pc[c] \in {"kept", "dropped"} => Full(stripe[c])

\* The Gets in pending and unread cells are all different, and none was counted.
Fresh ==
  /\ IsInjective(counted) /\ Range(counted) \subseteq 1..gets
  /\ \A p \in Live : Val(p) \in 1..gets /\ Val(p) \notin Range(counted)
  /\ \A p, q \in Live : Val(p) = Val(q) => p = q

Kept == {c \in Clients : pc[c] = "kept"}
AccountsKept ==
  keepGets + BufferItems * Cardinality(Kept) = Len(counted) + Cardinality(Unread)
AccountsAll == keepGets + dropGets + Cardinality(Unaccounted) <= gets

CountInv == GetInv /\ BatchesApart /\ Fresh /\ AccountsKept /\ AccountsAll

\* Numbers: what one counter gains, the unaccounted part loses.
LEMMA MoveAcross ==
  ASSUME NEW m \in Nat, NEW n \in Nat, NEW a \in Nat, NEW u \in Nat, NEW b \in Nat, NEW g \in Nat,
         n = m + b, a + b <= u, m + u <= g
  PROVE  n + a <= g
OBVIOUS

\* Numbers: both sides gain the same.
LEMMA AddBoth ==
  ASSUME NEW m \in Nat, NEW k \in Nat, NEW n \in Nat, NEW u \in Nat, NEW b \in Nat, m + k = n + u
  PROVE  m + (k + b) = n + (u + b)
OBVIOUS

\* The cells of two sets of slices
LEMMA CellsUnion ==
  ASSUME NEW S, NEW T
  PROVE  CellsOf(S \cup T) = CellsOf(S) \cup CellsOf(T)
BY DEF CellsOf

\* The cells of fewer slices are fewer.
LEMMA CellsSubset ==
  ASSUME NEW S, NEW T, S \subseteq T
  PROVE  CellsOf(S) \subseteq CellsOf(T)
BY DEF CellsOf

\* A slice has as many cells as it is long.
LEMMA CellsOne ==
  ASSUME NEW s \in Slices
  PROVE  /\ CellsOf({s}) = {s.arr} \X (1..s.len)
         /\ IsFiniteSet(CellsOf({s})) /\ Cardinality(CellsOf({s})) = s.len
<1>1. s.arr \in Nat /\ s.len \in Nat
  BY GetPathConstants DEF Slices
<1>2. CellsOf({s}) = {s.arr} \X (1..s.len)
  BY <1>1 DEF CellsOf
<1>. DEFINE n == s.len  a == s.arr
<1>3. /\ IsFiniteSet({a}) /\ Cardinality({a}) = 1
      /\ IsFiniteSet(1..n) /\ Cardinality(1..n) = n
  <2>1. n \in Nat /\ n \in Int /\ 1 \in Int
    BY <1>1
  <2>. HIDE DEF n, a
  <2>2. IsFiniteSet({a}) /\ Cardinality({a}) = 1
    BY FS_Singleton, Zenon
  <2>3. IsFiniteSet(1..n) /\ Cardinality(1..n) = IF 1 > n THEN 0 ELSE n - 1 + 1
    BY <2>1, FS_Interval
  <2>. QED  BY <2>1, <2>2, <2>3
<1>4. IsFiniteSet({a} \X (1..n)) /\ Cardinality({a} \X (1..n)) = 1 * n
  <2>. HIDE DEF n, a
  <2>1. /\ IsFiniteSet({a} \X (1..n))
        /\ Cardinality({a} \X (1..n)) = Cardinality({a}) * Cardinality(1..n)
    BY <1>3, FS_Product, Zenon
  <2>. QED  BY <1>3, <2>1
<1>5. 1 * n = n /\ CellsOf({s}) = {a} \X (1..n)
  BY <1>1, <1>2
<1>. QED  BY <1>2, <1>4, <1>5

\* Slices of different arrays share no cell.
LEMMA CellsApart ==
  ASSUME NEW S, NEW T, \A s \in S, t \in T : s.arr # t.arr
  PROVE  CellsOf(S) \cap CellsOf(T) = {}
BY DEF CellsOf

\* Slices of the heap have finitely many cells.
LEMMA CellsFinite ==
  ASSUME NEW h \in Seq(Arrays), NEW S \in SUBSET Slices, \A s \in S : s.arr \in DOMAIN h
  PROVE  IsFiniteSet(CellsOf(S)) /\ Cardinality(CellsOf(S)) \in Nat
<1>. DEFINE n == Len(h)  G == (1..n) \X (1..BufferItems)
<1>1. n \in Nat /\ DOMAIN h = 1..n /\ BufferItems \in Nat
  BY GetPathConstants
<1>. HIDE DEF n
<1>2. IsFiniteSet(1..n) /\ IsFiniteSet(1..BufferItems)
  BY <1>1, FS_Interval
<1>3. IsFiniteSet(G)
  BY <1>2, FS_Product
<1>4. CellsOf(S) \subseteq G
  <2>. SUFFICES ASSUME NEW p \in CellsOf(S) PROVE p \in G
    OBVIOUS
  <2>1. PICK s \in S : p[1] = s.arr /\ p[2] \in 1..s.len
    BY DEF CellsOf
  <2>2. p = <<p[1], p[2]>> /\ p[1] \in Nat /\ p[2] \in Nat
    BY DEF CellsOf
  <2>3. p[1] \in 1..n /\ p[2] \in 1..BufferItems
    BY <1>1, <2>1, <2>2 DEF Slices
  <2>. QED  BY <2>2, <2>3
<1>. HIDE DEF G
<1>. QED  BY <1>3, <1>4, FS_Subset, FS_CardinalityType

\* The cells of the batch that the policy reads
BatchCells ==
  {p \in Nat \X Nat : Reading /\ p[1] = batch.arr /\ p[2] \in 1..batch.len /\ p[2] > pos}

\* What is not yet counted is in the channel or in the reader's batch.
LEMMA UnreadIs == GetInv => Unread = CellsOf(Range(itemsCh)) \cup BatchCells
<1>. SUFFICES ASSUME GetInv PROVE Unread = CellsOf(Range(itemsCh)) \cup BatchCells
  OBVIOUS
<1>1. \A s \in Range(itemsCh) : s \in Slices /\ s.len = BufferItems /\ s.arr \in Nat
  <2>1. \A s \in Range(itemsCh) : s \in Slices /\ Full(s)
    BY RangeOfChannel DEF GetInv, GetTypeOK, SlicesOK, InFlight
  <2>. QED  BY <2>1, GetPathConstants DEF Slices, Full
<1>2. batch.arr \in Nat /\ batch.len \in Nat /\ BufferItems \in Nat
  BY GetPathConstants DEF GetInv, GetTypeOK, Slices
<1>3. {<<s.arr, i>> : s \in Range(itemsCh), i \in 1..BufferItems} = CellsOf(Range(itemsCh))
  BY <1>1, <1>2 DEF CellsOf
<1>4. {<<batch.arr, i>> : i \in {j \in 1..batch.len : Reading /\ j > pos}} = BatchCells
  BY <1>2 DEF BatchCells
<1>. QED  BY <1>3, <1>4 DEF Unread

\* The sets that are counted are finite.
LEMMA FiniteCells ==
  GetInv => /\ PendingSlices \cup OwedSlices \subseteq Slices
            /\ \A s \in PendingSlices \cup OwedSlices : s.arr \in DOMAIN heap
            /\ IsFiniteSet(Unaccounted) /\ Cardinality(Unaccounted) \in Nat
            /\ IsFiniteSet(Unread) /\ Cardinality(Unread) \in Nat
            /\ IsFiniteSet(Kept) /\ Cardinality(Kept) \in Nat
            /\ \A p \in Unread : \E s \in InFlight : p[1] = s.arr
<1>. SUFFICES ASSUME GetInv
              PROVE  /\ PendingSlices \cup OwedSlices \subseteq Slices
                     /\ \A s \in PendingSlices \cup OwedSlices : s.arr \in DOMAIN heap
                     /\ IsFiniteSet(Unaccounted) /\ Cardinality(Unaccounted) \in Nat
                     /\ IsFiniteSet(Unread) /\ Cardinality(Unread) \in Nat
                     /\ IsFiniteSet(Kept) /\ Cardinality(Kept) \in Nat
                     /\ \A p \in Unread : \E s \in InFlight : p[1] = s.arr
  OBVIOUS
<1>0. heap \in Seq(Arrays)
  BY DEF GetInv, GetTypeOK, Arrays
<1>1. /\ PendingSlices \cup OwedSlices \subseteq Slices
      /\ \A s \in PendingSlices \cup OwedSlices : s.arr \in DOMAIN heap
  BY DEF GetInv, GetTypeOK, SlicesOK, Busy, PendingSlices, OwedSlices
<1>2. IsFiniteSet(Unaccounted) /\ Cardinality(Unaccounted) \in Nat
  BY <1>0, <1>1, CellsFinite DEF Unaccounted
<1>3. Unread \subseteq CellsOf(InFlight)
  <2>1. Unread = CellsOf(Range(itemsCh)) \cup BatchCells
    BY UnreadIs
  <2>2. CellsOf(Range(itemsCh)) \subseteq CellsOf(InFlight)
    BY CellsSubset DEF InFlight
  <2>3. BatchCells \subseteq CellsOf(InFlight)
    BY DEF BatchCells, CellsOf, InFlight
  <2>. QED  BY <2>1, <2>2, <2>3
<1>4. IsFiniteSet(CellsOf(InFlight))
  <2>1. InFlight \subseteq Slices /\ \A s \in InFlight : s.arr \in DOMAIN heap
    BY RangeOfChannel DEF GetInv, GetTypeOK, SlicesOK, InFlight
  <2>. QED  BY <1>0, <2>1, CellsFinite
<1>5. IsFiniteSet(Unread) /\ Cardinality(Unread) \in Nat
  BY <1>3, <1>4, FS_Subset, FS_CardinalityType
<1>6. IsFiniteSet(Kept) /\ Cardinality(Kept) \in Nat
  <2>1. Kept \subseteq Clients
    BY DEF Kept
  <2>. QED  BY <2>1, GetPathConstants, FS_Subset, FS_CardinalityType
<1>7. \A p \in Unread : \E s \in InFlight : p[1] = s.arr
  BY <1>3 DEF CellsOf
<1>. QED  BY <1>1, <1>2, <1>5, <1>6, <1>7

\* Cells may be lost.
LEMMA FreshShrinks ==
  ASSUME Fresh, Live' \subseteq Live, \A p \in Live' : Val(p)' = Val(p),
         UNCHANGED <<counted, gets>>
  PROVE  Fresh'
<1>. HIDE DEF Live, Val
<1>. QED  BY DEF Fresh

\* A Get writes its number, the greatest so far, to a new cell.
LEMMA FreshPush ==
  ASSUME Fresh, NEW q, Live' \subseteq Live \cup {q}, q \notin Live,
         \A p \in Live : Val(p)' = Val(p), Val(q)' = gets + 1,
         UNCHANGED counted, gets \in Nat, gets' = gets + 1
  PROVE  Fresh'
<1>1. 1..gets \subseteq 1..(gets + 1) /\ gets + 1 \in 1..(gets + 1) /\ gets + 1 \notin 1..gets
  OBVIOUS
<1>2. \A p \in Live' : p = q \/ (p \in Live /\ Val(p)' = Val(p) /\ Val(p)' \in 1..gets)
  BY DEF Fresh
<1>3. \A p \in Live' : Val(p)' \in 1..gets' /\ Val(p)' \notin Range(counted')
  BY <1>1, <1>2 DEF Fresh
<1>4. \A p, r \in Live' : Val(p)' = Val(r)' => p = r
  BY <1>1, <1>2 DEF Fresh
<1>5. IsInjective(counted') /\ Range(counted') \subseteq 1..gets'
  BY <1>1 DEF Fresh
<1>. QED  BY <1>3, <1>4, <1>5 DEF Fresh

\* A cell is read and counted.
LEMMA FreshCount ==
  ASSUME Fresh, NEW q \in Live, Live' \subseteq Live \ {q},
         \A p \in Live' : Val(p)' = Val(p),
         NEW S, counted \in Seq(S), Val(q) \in S, counted' = Append(counted, Val(q)), gets' = gets
  PROVE  Fresh'
<1>1. /\ Len(counted) \in Nat /\ Len(counted') = Len(counted) + 1
      /\ \A i \in 1..Len(counted) : counted'[i] = counted[i]
      /\ counted'[Len(counted) + 1] = Val(q)
      /\ DOMAIN counted = 1..Len(counted) /\ DOMAIN counted' = 1..(Len(counted) + 1)
  BY AppendProperties
<1>2. Range(counted') = Range(counted) \cup {Val(q)}
  BY <1>1 DEF Range
<1>3. IsInjective(counted')
  <2>1. \A i \in 1..Len(counted) : counted[i] # Val(q)
    BY <1>1 DEF Fresh, Range
  <2>2. \A i, j \in 1..Len(counted) : counted[i] = counted[j] => i = j
    BY <1>1 DEF Fresh, IsInjective
  <2>. QED  BY <1>1, <2>1, <2>2 DEF IsInjective
<1>4. \A p \in Live' : Val(p)' = Val(p) /\ p \in Live /\ p # q /\ Val(p) # Val(q)
  BY DEF Fresh
<1>. QED  BY <1>2, <1>3, <1>4 DEF Fresh

\* A step that counts nothing and adds no cell.
LEMMA LoseCells ==
  ASSUME CountInv, Unread' = Unread, Kept' = Kept, Pending' \subseteq Pending,
         Unaccounted' \subseteq Unaccounted, \A a \in DOMAIN heap : heap'[a] = heap[a],
         UNCHANGED <<counted, gets, keepGets, dropGets>>
  PROVE  Fresh' /\ AccountsKept' /\ AccountsAll'
<1>0. GetInv
  BY DEF CountInv
<1>1. Live' \subseteq Live
  BY DEF Live
<1>2. \A p \in Live : p[1] \in DOMAIN heap
  <2>1. \A p \in Unread : p[1] \in DOMAIN heap
    BY <1>0, FiniteCells DEF GetInv, SlicesOK
  <2>2. \A p \in Pending : p[1] \in DOMAIN heap
    BY <1>0, FiniteCells DEF Pending, CellsOf
  <2>. QED  BY <2>1, <2>2 DEF Live
<1>3. Fresh'
  <2>1. \A p \in Live' : Val(p)' = Val(p)
    BY <1>1, <1>2 DEF Val
  <2>. QED  BY <1>1, <2>1, FreshShrinks DEF CountInv
<1>4. AccountsKept'
  BY DEF CountInv, AccountsKept
<1>5. AccountsAll'
  <2>1. Cardinality(Unaccounted') <= Cardinality(Unaccounted) /\ Cardinality(Unaccounted') \in Nat
    BY <1>0, FiniteCells, FS_Subset, FS_CardinalityType
  <2>2. keepGets \in Nat /\ dropGets \in Nat /\ gets \in Nat /\ Cardinality(Unaccounted) \in Nat
    BY <1>0, FiniteCells, GetPathConstants DEF GetInv, GetTypeOK
  <2>. QED  BY <2>1, <2>2 DEF CountInv, AccountsAll
<1>. QED  BY <1>3, <1>4, <1>5

\* append writes one cell behind the slice.
LEMMA AppendedCell ==
  ASSUME NEW h \in Seq(Arrays), NEW s \in Slices, NEW item,
         s.arr \in DOMAIN h, s.len < BufferItems
  PROVE  /\ Appended(h, s, item)[s.arr][s.len + 1] = item
         /\ \A i \in 1..s.len : Appended(h, s, item)[s.arr][i] = h[s.arr][i]
<1>1. h[s.arr] \in Arrays /\ s.len \in Nat
  BY ElementOfSeq, GetPathConstants DEF Slices
<1>2. s.len + 1 \in 1..BufferItems /\ 1..s.len \subseteq 1..BufferItems /\ s.len + 1 \notin 1..s.len
  BY <1>1, GetPathConstants
<1>3. Appended(h, s, item)[s.arr] = [h[s.arr] EXCEPT ![s.len + 1] = item]
  BY DEF Appended
<1>. QED  BY <1>1, <1>2, <1>3 DEF Arrays

\* A Get that is pushed to a stripe is in no other place.
LEMMA PushCounts ==
  ASSUME CountInv, NEW c \in Clients, pc[c] = "idle", gets < MaxGets, gets' = gets + 1,
         NEW s \in Slices, NEW h \in Seq(Arrays), NEW rest \in SUBSET pool,
         s.arr \in DOMAIN h, s.len < BufferItems,
         DOMAIN heap \subseteq DOMAIN h, \A a \in DOMAIN heap : h[a] = heap[a],
         s \in pool \/ s.len = 0, \A t \in pool : t.arr = s.arr => t = s,
         \A t \in InFlight : t.arr # s.arr,
         \A d \in Clients : Busy(d) => stripe[d].arr # s.arr,
         PushTo(c, s, h, rest),
         UNCHANGED <<chanVars, readerVars, closer, metricVars>>
  PROVE  BatchesApart' /\ Fresh' /\ AccountsKept' /\ AccountsAll'
<1>. USE DEF chanVars, readerVars, metricVars
<1>. DEFINE s1 == [s EXCEPT !.len = @ + 1]
            q == <<s.arr, s.len + 1>>
<1>0. /\ GetInv /\ s1 \in Slices /\ s1.arr = s.arr /\ s1.len = s.len + 1
      /\ s.arr \in Nat /\ s.len \in Nat /\ gets \in Nat
  <2>1. s.arr \in Nat /\ s.len \in Nat /\ s.len + 1 \in 0..BufferItems
    BY GetPathConstants DEF Slices
  <2>2. s1 \in Slices /\ s1.arr = s.arr /\ s1.len = s.len + 1
    BY <2>1 DEF Slices
  <2>3. GetInv /\ gets \in Nat
    BY GetPathConstants DEF CountInv, GetInv, GetTypeOK
  <2>. QED  BY <2>1, <2>2, <2>3
<1>1. /\ heap' = Appended(h, s, gets + 1)
      /\ stripe' = [stripe EXCEPT ![c] = s1]
      /\ pool' = rest
      /\ pc' = [pc EXCEPT ![c] = "pushed"]
  BY DEF PushTo
<1>. HIDE DEF s1
<1>2. /\ stripe'[c] = s1 /\ pc'[c] = "pushed"
      /\ \A d \in Clients : d # c => stripe'[d] = stripe[d] /\ pc'[d] = pc[d]
  BY <1>0, <1>1 DEF GetInv, GetTypeOK
<1>3. InFlight' = InFlight /\ Reading' = Reading /\ Unread' = Unread /\ Kept' = Kept
  BY <1>2, SameBatches DEF Unread, Kept
<1>4. BatchesApart'
  <2>1. \A d \in Clients : pc'[d] \in {"kept", "dropped"} => Full(stripe'[d])
    BY <1>2 DEF CountInv, BatchesApart
  <2>. QED  BY <1>3, <2>1 DEF CountInv, BatchesApart, Full
<1>5. PendingSlices' \subseteq PendingSlices \cup {s1} /\ OwedSlices' \subseteq OwedSlices
  BY <1>1, <1>2 DEF PendingSlices, OwedSlices
<1>6. CellsOf({s1}) \subseteq CellsOf(PendingSlices) \cup {q}
  <2>. SUFFICES ASSUME NEW p \in CellsOf({s1}), p # q PROVE p \in CellsOf(PendingSlices)
    OBVIOUS
  <2>1. p \in Nat \X Nat /\ p[1] = s.arr /\ p[2] \in 1..(s.len + 1) /\ p = <<p[1], p[2]>>
    BY <1>0 DEF CellsOf
  <2>2. p[2] \in 1..s.len /\ s.len # 0
    BY <1>0, <2>1
  <2>3. s \in PendingSlices
    BY <2>2 DEF PendingSlices
  <2>. QED  BY <2>1, <2>2, <2>3 DEF CellsOf
<1>7. \A p \in Live : p[1] \in DOMAIN heap /\ (p[1] = s.arr => p[2] \in 1..s.len)
  <2>1. \A p \in Unread : p[1] \in DOMAIN heap /\ p[1] # s.arr
    BY <1>0, FiniteCells DEF GetInv, SlicesOK
  <2>2. ASSUME NEW p \in Pending PROVE p[1] \in DOMAIN heap /\ (p[1] = s.arr => p[2] \in 1..s.len)
    <3>1. PICK t \in PendingSlices : p[1] = t.arr /\ p[2] \in 1..t.len
      BY DEF Pending, CellsOf
    <3>2. t.arr \in DOMAIN heap
      BY <1>0, FiniteCells
    <3>3. t.arr = s.arr => t = s
      BY DEF PendingSlices, Busy
    <3>. QED  BY <3>1, <3>2, <3>3
  <2>. QED  BY <2>1, <2>2 DEF Live
<1>8. q \notin Live
  BY <1>0, <1>7
<1>9. Pending' \subseteq Pending \cup {q} /\ Unaccounted' \subseteq Unaccounted \cup {q}
  <2>1. CellsOf(PendingSlices') \subseteq CellsOf(PendingSlices) \cup CellsOf({s1})
    <3>1. CellsOf(PendingSlices') \subseteq CellsOf(PendingSlices \cup {s1})
      BY <1>5, CellsSubset
    <3>2. CellsOf(PendingSlices \cup {s1}) = CellsOf(PendingSlices) \cup CellsOf({s1})
      BY CellsUnion
    <3>. QED  BY <3>1, <3>2
  <2>2. CellsOf(OwedSlices') \subseteq CellsOf(OwedSlices)
    BY <1>5, CellsSubset
  <2>3. /\ Unaccounted' = CellsOf(PendingSlices') \cup CellsOf(OwedSlices')
        /\ Unaccounted = CellsOf(PendingSlices) \cup CellsOf(OwedSlices)
    BY CellsUnion DEF Unaccounted
  <2>4. Pending' = CellsOf(PendingSlices') /\ Pending = CellsOf(PendingSlices)
    BY DEF Pending
  <2>. QED  BY <1>6, <2>1, <2>2, <2>3, <2>4
<1>10. Fresh'
  <2>1. Live' \subseteq Live \cup {q}
    BY <1>3, <1>9 DEF Live
  <2>2. Val(q)' = gets + 1
    BY <1>1, AppendedCell DEF Val
  <2>3. ASSUME NEW p \in Live PROVE Val(p)' = Val(p)
    <3>1. CASE p[1] = s.arr
      <4>1. heap'[s.arr][p[2]] = h[s.arr][p[2]] /\ h[s.arr] = heap[s.arr]
        BY <1>1, <1>7, <3>1, AppendedCell
      <4>. QED  BY <3>1, <4>1 DEF Val
    <3>2. CASE p[1] # s.arr
      <4>1. gets + 1 \in 0..MaxGets
        BY <1>0, GetPathConstants
      <4>2. heap'[p[1]] = h[p[1]] /\ h[p[1]] = heap[p[1]]
        BY <1>1, <1>7, <3>2, <4>1, AppendedHeap
      <4>. QED  BY <4>2 DEF Val
    <3>. QED  BY <3>1, <3>2
  <2>. HIDE DEF q
  <2>. QED  BY <1>0, <1>8, <2>1, <2>2, <2>3, FreshPush DEF CountInv
<1>11. AccountsKept'
  BY <1>3 DEF CountInv, AccountsKept
<1>12. AccountsAll'
  <2>. HIDE DEF q
  <2>1. IsFiniteSet(Unaccounted) /\ Cardinality(Unaccounted) \in Nat
    BY <1>0, FiniteCells
  <2>2. /\ IsFiniteSet(Unaccounted \cup {q})
        /\ Cardinality(Unaccounted \cup {q}) <= Cardinality(Unaccounted) + 1
    <3>1. /\ IsFiniteSet(Unaccounted \cup {q})
          /\ Cardinality(Unaccounted \cup {q})
               = IF q \in Unaccounted THEN Cardinality(Unaccounted) ELSE Cardinality(Unaccounted) + 1
      BY <2>1, FS_AddElement, Zenon
    <3>. QED  BY <2>1, <3>1
  <2>3. Cardinality(Unaccounted') <= Cardinality(Unaccounted \cup {q})
        /\ Cardinality(Unaccounted') \in Nat /\ Cardinality(Unaccounted \cup {q}) \in Nat
    BY <1>9, <2>2, FS_Subset, FS_CardinalityType
  <2>4. keepGets \in Nat /\ dropGets \in Nat
    BY <1>0 DEF GetInv, GetTypeOK
  <2>. QED  BY <1>0, <2>1, <2>2, <2>3, <2>4 DEF CountInv, AccountsAll
<1>. QED  BY <1>4, <1>10, <1>11, <1>12

\* So every branch of Get keeps the accounts.
LEMMA GetCounts ==
  ASSUME CountInv, NEW c \in Clients, Get(c)
  PROVE  BatchesApart' /\ Fresh' /\ AccountsKept' /\ AccountsAll'
<1>0. heap \in Seq(Arrays) /\ pool \subseteq Slices /\ GetInv
  BY DEF CountInv, GetInv, GetTypeOK, Arrays
<1>3. /\ pc[c] = "idle" /\ gets < MaxGets /\ gets' = gets + 1
      /\ UNCHANGED <<chanVars, readerVars, closer, metricVars>>
  BY DEF Get
<1>1. ASSUME NEW s \in pool, PushTo(c, s, heap, Taken(s))
      PROVE  BatchesApart' /\ Fresh' /\ AccountsKept' /\ AccountsAll'
  <2>1. s \in Slices /\ s.arr \in DOMAIN heap /\ s.len < BufferItems
    BY <1>0 DEF SlicesOK, GetInv
  <2>2. /\ Taken(s) \in SUBSET pool
        /\ \A t \in pool : t.arr = s.arr => t = s
        /\ \A t \in InFlight : t.arr # s.arr
        /\ \A d \in Clients : Busy(d) => stripe[d].arr # s.arr
    BY <1>0 DEF ArraysOwned, Taken, GetInv
  <2>. QED  BY <1>0, <1>1, <1>3, <2>1, <2>2, PushCounts
<1>2. ASSUME PushTo(c, NewSlice, Append(heap, NewArray), pool)
      PROVE  BatchesApart' /\ Fresh' /\ AccountsKept' /\ AccountsAll'
  <2>1. /\ Append(heap, NewArray) \in Seq(Arrays)
        /\ DOMAIN Append(heap, NewArray) = DOMAIN heap \cup {Len(heap) + 1}
        /\ \A a \in DOMAIN heap : Append(heap, NewArray)[a] = heap[a]
        /\ Len(heap) + 1 \notin DOMAIN heap /\ Len(heap) \in Nat
    BY <1>0, NewArrayHeap
  <2>2. /\ NewSlice \in Slices /\ NewSlice.arr = Len(heap) + 1
        /\ NewSlice.len = 0 /\ NewSlice.len < BufferItems
    BY <2>1, GetPathConstants DEF NewSlice, Slices
  <2>3. /\ \A t \in pool : t.arr # NewSlice.arr
        /\ \A t \in InFlight : t.arr # NewSlice.arr
        /\ \A d \in Clients : Busy(d) => stripe[d].arr # NewSlice.arr
    BY <1>0, <2>1, <2>2 DEF SlicesOK, GetInv
  <2>4. pool \in SUBSET pool
    OBVIOUS
  <2>. QED  BY <1>2, <1>3, <2>1, <2>2, <2>3, <2>4, PushCounts
<1>. QED  BY <1>1, <1>2 DEF Get

\* Putting a stripe back to the pool keeps them too.
LEMMA PutBackCounts ==
  ASSUME CountInv, NEW c \in Clients, NEW s \in Slices, PutBack(c, s),
         \/ pc[c] = "pushed" /\ s = stripe[c]
         \/ pc[c] \in {"sent", "refused"} /\ s.len = 0,
         \A a \in DOMAIN heap : heap'[a] = heap[a],
         UNCHANGED <<chanVars, readerVars, closer, metricVars, gets>>
  PROVE  BatchesApart' /\ Fresh' /\ AccountsKept' /\ AccountsAll'
<1>. USE DEF chanVars, readerVars, metricVars
<1>0. GetInv
  BY DEF CountInv
<1>1. /\ pool' = pool \cup {s}
      /\ stripe' = [stripe EXCEPT ![c] = Nil]
      /\ pc' = [pc EXCEPT ![c] = "idle"]
  BY DEF PutBack
<1>2. /\ pc'[c] = "idle"
      /\ \A d \in Clients : d # c => stripe'[d] = stripe[d] /\ pc'[d] = pc[d]
  BY <1>0, <1>1 DEF GetInv, GetTypeOK
<1>3. InFlight' = InFlight /\ Reading' = Reading /\ Unread' = Unread /\ Kept' = Kept
  BY <1>2, SameBatches DEF Unread, Kept
<1>4. BatchesApart'
  <2>1. \A d \in Clients : pc'[d] \in {"kept", "dropped"} => Full(stripe'[d])
    BY <1>2 DEF CountInv, BatchesApart
  <2>. QED  BY <1>3, <2>1 DEF CountInv, BatchesApart, Full
<1>5. PendingSlices' \subseteq PendingSlices \cup {s} /\ OwedSlices' \subseteq OwedSlices
  BY <1>1, <1>2 DEF PendingSlices, OwedSlices
<1>6. CellsOf({s}) \subseteq CellsOf(PendingSlices)
  <2>1. CASE s.len = 0
    BY <2>1 DEF CellsOf
  <2>2. CASE pc[c] = "pushed" /\ s = stripe[c]
    BY <2>2, CellsSubset DEF PendingSlices
  <2>. QED  BY <2>1, <2>2
<1>7. CellsOf(PendingSlices') \subseteq CellsOf(PendingSlices)
  <2>1. CellsOf(PendingSlices') \subseteq CellsOf(PendingSlices \cup {s})
    BY <1>5, CellsSubset
  <2>2. CellsOf(PendingSlices \cup {s}) = CellsOf(PendingSlices) \cup CellsOf({s})
    BY CellsUnion
  <2>. QED  BY <1>6, <2>1, <2>2
<1>8. Pending' \subseteq Pending /\ Unaccounted' \subseteq Unaccounted
  <2>1. CellsOf(OwedSlices') \subseteq CellsOf(OwedSlices)
    BY <1>5, CellsSubset
  <2>2. /\ Unaccounted' = CellsOf(PendingSlices') \cup CellsOf(OwedSlices')
        /\ Unaccounted = CellsOf(PendingSlices) \cup CellsOf(OwedSlices)
    BY CellsUnion DEF Unaccounted
  <2>3. Pending' = CellsOf(PendingSlices') /\ Pending = CellsOf(PendingSlices)
    BY DEF Pending
  <2>. QED  BY <1>7, <2>1, <2>2, <2>3
<1>. QED  BY <1>3, <1>4, <1>8, LoseCells

\* A batch is accepted by the channel.
LEMMA KeptCounts ==
  ASSUME CountInv, NEW c \in Clients, pc[c] = "send",
         itemsCh' = Append(itemsCh, stripe[c]), pc' = [pc EXCEPT ![c] = "kept"],
         GetInv', UNCHANGED <<heap, pool, stripe, readerVars, metricVars, gets>>
  PROVE  BatchesApart' /\ Fresh' /\ AccountsKept' /\ AccountsAll'
<1>. USE DEF readerVars, metricVars
<1>. DEFINE s == stripe[c]
<1>0. /\ GetInv /\ s \in Slices /\ Full(s) /\ s.len = BufferItems /\ Busy(c) /\ ~HandedOver(c)
      /\ itemsCh \in Seq(Slices) /\ BufferItems \in Nat \ {0}
  <2>1. GetInv /\ s \in Slices /\ Full(s)
    BY DEF CountInv, GetInv, GetTypeOK, SlicesOK
  <2>2. s.len = BufferItems
    BY <2>1, GetPathConstants DEF Slices, Full
  <2>. QED  BY <2>1, <2>2, GetPathConstants DEF Busy, HandedOver, GetInv, GetTypeOK
<1>1. \A t \in InFlight : s.arr # t.arr
  BY <1>0 DEF GetInv, ArraysOwned
<1>2. /\ pc'[c] = "kept" /\ \A d \in Clients : d # c => pc'[d] = pc[d]
  BY <1>0 DEF GetInv, GetTypeOK
<1>. HIDE DEF s
<1>3. /\ Range(itemsCh') = Range(itemsCh) \cup {s}
      /\ Len(itemsCh) \in Nat /\ DOMAIN itemsCh = 1..Len(itemsCh)
      /\ DOMAIN itemsCh' = 1..(Len(itemsCh) + 1)
      /\ \A i \in 1..Len(itemsCh) : itemsCh'[i] = itemsCh[i]
      /\ itemsCh'[Len(itemsCh) + 1] = s
  BY <1>0, RangeOfChannel, AppendProperties DEF s
<1>4. Unread' = Unread \cup CellsOf({s}) /\ Unread \cap CellsOf({s}) = {}
  <2>1. Unread = CellsOf(Range(itemsCh)) \cup BatchCells
    BY <1>0, UnreadIs
  <2>2. (GetInv => Unread = CellsOf(Range(itemsCh)) \cup BatchCells)'
    BY UnreadIs, PTL
  <2>3. BatchCells' = BatchCells
    BY DEF BatchCells, Reading
  <2>4. CellsOf(Range(itemsCh')) = CellsOf(Range(itemsCh)) \cup CellsOf({s})
    BY <1>3, CellsUnion
  <2>5. Unread \cap CellsOf({s}) = {}
    BY <1>0, <1>1, FiniteCells DEF CellsOf
  <2>. QED  BY <2>1, <2>2, <2>3, <2>4, <2>5
<1>5. BatchesApart'
  <2>1. Range(itemsCh) \subseteq InFlight /\ (Reading => batch \in InFlight) /\ Reading' = Reading
    BY DEF InFlight, Reading
  <2>2. \A i \in 1..Len(itemsCh) : itemsCh[i].arr # s.arr
    BY <1>1, <1>3, <2>1 DEF Range
  <2>3. \A i, j \in 1..Len(itemsCh) : itemsCh[i].arr = itemsCh[j].arr => i = j
    BY <1>3 DEF CountInv, BatchesApart
  <2>4. \A i, j \in DOMAIN itemsCh' : itemsCh'[i].arr = itemsCh'[j].arr => i = j
    BY <1>3, <2>2, <2>3
  <2>5. Reading' => \A t \in Range(itemsCh') : t.arr # batch'.arr
    BY <1>1, <1>3, <2>1 DEF CountInv, BatchesApart
  <2>6. \A d \in Clients : pc'[d] \in {"kept", "dropped"} => Full(stripe'[d])
    BY <1>0, <1>2 DEF CountInv, BatchesApart, s
  <2>. QED  BY <2>4, <2>5, <2>6 DEF BatchesApart, Full
<1>6. /\ PendingSlices' \subseteq PendingSlices /\ s \in PendingSlices
      /\ PendingSlices' \cup OwedSlices' \subseteq PendingSlices \cup OwedSlices
  BY <1>2 DEF PendingSlices, OwedSlices, s
<1>7. Fresh'
  <2>1. Pending' \subseteq Pending /\ CellsOf({s}) \subseteq Pending
    BY <1>6, CellsSubset DEF Pending
  <2>2. Live' \subseteq Live
    BY <1>4, <2>1 DEF Live
  <2>3. \A p \in Live' : Val(p)' = Val(p)
    BY DEF Val
  <2>. QED  BY <2>2, <2>3, FreshShrinks DEF CountInv
<1>8. AccountsKept'
  <2>1. Kept' = Kept \cup {c} /\ c \notin Kept
    BY <1>2 DEF Kept
  <2>2. Cardinality(Kept') = Cardinality(Kept) + 1 /\ Cardinality(Kept) \in Nat
    BY <1>0, <2>1, FiniteCells, FS_AddElement
  <2>3. Cardinality(Unread') = Cardinality(Unread) + BufferItems /\ Cardinality(Unread) \in Nat
    <3>1. IsFiniteSet(Unread) /\ Cardinality(Unread) \in Nat
      BY <1>0, FiniteCells
    <3>2. IsFiniteSet(CellsOf({s})) /\ Cardinality(CellsOf({s})) = BufferItems
      BY <1>0, CellsOne
    <3>. DEFINE B == CellsOf({s})
    <3>3. IsFiniteSet(B) /\ Cardinality(B) = BufferItems /\ Unread \cap B = {} /\ Unread' = Unread \cup B
      BY <1>4, <3>2
    <3>. HIDE DEF B
    <3>4. Cardinality(Unread \cup B) = Cardinality(Unread) + Cardinality(B) - Cardinality(Unread \cap B)
      BY <3>1, <3>3, FS_Union
    <3>5. Cardinality(Unread \cap B) = 0
      BY <3>3, FS_EmptySet
    <3>6. Cardinality(Unread \cup B) = Cardinality(Unread) + BufferItems
      BY <1>0, <3>1, <3>3, <3>4, <3>5
    <3>. QED  BY <3>1, <3>3, <3>6
  <2>4. BufferItems * (Cardinality(Kept) + 1) = BufferItems * Cardinality(Kept) + BufferItems
        /\ BufferItems * Cardinality(Kept) \in Nat
    BY <1>0, <2>2
  <2>5. keepGets \in Nat /\ Len(counted) \in Nat
    BY <1>0 DEF GetInv, GetTypeOK
  <2>6. keepGets + BufferItems * Cardinality(Kept) = Len(counted) + Cardinality(Unread)
    BY DEF CountInv, AccountsKept
  <2>. DEFINE k == BufferItems * Cardinality(Kept)
  <2>7. keepGets + BufferItems * Cardinality(Kept') = Len(counted) + Cardinality(Unread')
    <3>1. BufferItems * Cardinality(Kept') = k + BufferItems
      BY <2>2, <2>4
    <3>2. k \in Nat /\ keepGets + k = Len(counted) + Cardinality(Unread)
      BY <2>4, <2>6
    <3>. HIDE DEF k
    <3>3. keepGets + (k + BufferItems) = Len(counted) + (Cardinality(Unread) + BufferItems)
      <4>1. BufferItems \in Nat
        BY <1>0
      <4>2. Cardinality(Unread) \in Nat
        BY <2>3
      <4>. QED  BY ONLY <2>5, <3>2, <4>1, <4>2, AddBoth
    <3>. QED  BY <2>3, <3>1, <3>3
  <2>. QED  BY <2>7 DEF AccountsKept
<1>9. AccountsAll'
  <2>1. Unaccounted' \subseteq Unaccounted
    BY <1>6, CellsSubset DEF Unaccounted
  <2>2. /\ Cardinality(Unaccounted') <= Cardinality(Unaccounted)
        /\ Cardinality(Unaccounted') \in Nat /\ Cardinality(Unaccounted) \in Nat
    BY <1>0, <2>1, FiniteCells, FS_Subset, FS_CardinalityType
  <2>3. keepGets \in Nat /\ dropGets \in Nat /\ gets \in Nat
    BY <1>0, GetPathConstants DEF GetInv, GetTypeOK
  <2>. QED  BY <2>2, <2>3 DEF CountInv, AccountsAll
<1>. QED  BY <1>5, <1>7, <1>8, <1>9

\* The client of a batch adds it to one of the metrics.
LEMMA MetricCounts ==
  ASSUME CountInv, NEW c \in Clients, CountGets(c)
  PROVE  BatchesApart' /\ Fresh' /\ AccountsKept' /\ AccountsAll'
<1>. USE DEF chanVars, readerVars
<1>. DEFINE s == stripe[c]
<1>0. UNCHANGED <<heap, pool, stripe, chanVars, readerVars, closer, gets>> /\ Count(c)
  BY DEF CountGets
<1>1. /\ GetInv /\ s \in Slices /\ s.len = BufferItems /\ Busy(c)
      /\ BufferItems \in Nat /\ pc[c] \in {"kept", "dropped"}
  <2>1. pc[c] \in {"kept", "dropped"}
    BY <1>0 DEF Count
  <2>2. GetInv /\ s \in Slices /\ Full(s)
    BY <2>1 DEF CountInv, GetInv, GetTypeOK, BatchesApart
  <2>. QED  BY <2>1, <2>2, GetPathConstants DEF Full, Slices, Busy
<1>2. /\ \/ /\ pc[c] = "kept" /\ pc'[c] = "sent"
            /\ keepGets' = keepGets + BufferItems /\ dropGets' = dropGets
         \/ /\ pc[c] = "dropped" /\ pc'[c] = "refused"
            /\ dropGets' = dropGets + BufferItems /\ keepGets' = keepGets
      /\ \A d \in Clients : d # c => pc'[d] = pc[d]
  BY <1>0, <1>1 DEF Count, GetInv, GetTypeOK
<1>. HIDE DEF s
<1>3. InFlight' = InFlight /\ Reading' = Reading /\ Unread' = Unread
  BY <1>0, SameBatches DEF Unread
<1>4. BatchesApart'
  BY <1>0, <1>2, <1>3 DEF CountInv, BatchesApart, Full
<1>5. PendingSlices' = PendingSlices
  BY <1>0, <1>2 DEF PendingSlices
<1>6. Fresh'
  <2>1. Live' = Live
    BY <1>3, <1>5 DEF Live, Pending
  <2>2. \A p \in Live' : Val(p)' = Val(p)
    BY <1>0 DEF Val
  <2>. QED  BY <1>0, <2>1, <2>2, FreshShrinks DEF CountInv
<1>7. keepGets \in Nat /\ dropGets \in Nat /\ gets \in Nat /\ Len(counted) \in Nat
  BY <1>1, GetPathConstants DEF GetInv, GetTypeOK
<1>8. AccountsKept'
  <2>0. /\ keepGets + BufferItems * Cardinality(Kept) = Len(counted) + Cardinality(Unread)
        /\ Cardinality(Kept) \in Nat /\ IsFiniteSet(Kept) /\ Cardinality(Unread) \in Nat
    BY <1>1, FiniteCells DEF CountInv, AccountsKept
  <2>1. CASE pc[c] = "kept"
    <3>1. Kept' = Kept \ {c} /\ c \in Kept /\ keepGets' = keepGets + BufferItems
      BY <1>2, <2>1 DEF Kept
    <3>2. Cardinality(Kept') = Cardinality(Kept) - 1
      BY <2>0, <3>1, FS_RemoveElement
    <3>3. Kept # {}
      BY <3>1
    <3>4. Cardinality(Kept) - 1 \in Nat
      BY <2>0, <3>3, FS_EmptySet
    <3>5. BufferItems * Cardinality(Kept) = BufferItems * (Cardinality(Kept) - 1) + BufferItems
      BY <1>1, <2>0
    <3>6. BufferItems * (Cardinality(Kept) - 1) \in Nat
      BY <1>1, <3>4
    <3>7. keepGets' + BufferItems * Cardinality(Kept') = Len(counted) + Cardinality(Unread)
      BY <1>1, <1>7, <2>0, <3>1, <3>2, <3>5, <3>6
    <3>. QED  BY <1>0, <1>3, <3>7 DEF AccountsKept
  <2>2. CASE pc[c] = "dropped"
    <3>1. Kept' = Kept /\ keepGets' = keepGets
      BY <1>2, <2>2 DEF Kept
    <3>. QED  BY <1>0, <1>3, <2>0, <3>1 DEF AccountsKept
  <2>. QED  BY <1>1, <2>1, <2>2
<1>9. AccountsAll'
  <2>. DEFINE Rest == PendingSlices' \cup OwedSlices'
  <2>1. /\ Rest \subseteq PendingSlices \cup OwedSlices
        /\ \A t \in Rest : t.arr # s.arr
        /\ s \in PendingSlices \cup OwedSlices
    <3>1. \A t \in PendingSlices : t.arr # s.arr
      BY <1>1 DEF PendingSlices, GetInv, ArraysOwned, Busy, s
    <3>2. \A t \in OwedSlices' : t.arr # s.arr /\ t \in OwedSlices
      BY <1>0, <1>1, <1>2 DEF OwedSlices, GetInv, ArraysOwned, Busy, s
    <3>3. s \in OwedSlices
      BY <1>1 DEF OwedSlices, s
    <3>. QED  BY <1>5, <3>1, <3>2, <3>3
  <2>2. /\ CellsOf(Rest) \subseteq Unaccounted /\ CellsOf({s}) \subseteq Unaccounted
        /\ CellsOf(Rest) \cap CellsOf({s}) = {}
    <3>. HIDE DEF Rest
    <3>. QED  BY <2>1, CellsSubset, CellsApart DEF Unaccounted
  <2>3. IsFiniteSet(Unaccounted) /\ Cardinality(Unaccounted) \in Nat
    BY <1>1, FiniteCells
  <2>4. IsFiniteSet(CellsOf({s})) /\ Cardinality(CellsOf({s})) = BufferItems
    BY <1>1, CellsOne
  <2>. DEFINE A == CellsOf(Rest)  B == CellsOf({s})
  <2>5. Unaccounted' = A
    BY DEF Unaccounted
  <2>. HIDE DEF A, B
  <2>6. IsFiniteSet(A) /\ Cardinality(A) \in Nat /\ IsFiniteSet(B) /\ Cardinality(B) = BufferItems
        /\ A \cap B = {} /\ A \cup B \subseteq Unaccounted
    BY <2>2, <2>3, <2>4, FS_Subset, FS_CardinalityType DEF A, B
  <2>7. Cardinality(A \cup B) = Cardinality(A) + BufferItems - 0
    BY <2>6, FS_Union, FS_EmptySet
  <2>8. Cardinality(A \cup B) <= Cardinality(Unaccounted)
    BY <2>3, <2>6, FS_Subset
  <2>9. keepGets' + dropGets' = keepGets + dropGets + BufferItems
    BY <1>1, <1>2, <1>7
  <2>10. keepGets + dropGets + Cardinality(Unaccounted) <= gets
    BY DEF CountInv, AccountsAll
  <2>11. keepGets' \in Nat /\ dropGets' \in Nat
    BY <1>1, <1>2, <1>7
  <2>12. keepGets' + dropGets' + Cardinality(A) <= gets
    <3>. DEFINE a == Cardinality(A)  u == Cardinality(Unaccounted)
    <3>1. a \in Nat /\ u \in Nat /\ a + BufferItems <= u
      BY <1>1, <2>3, <2>6, <2>7, <2>8
    <3>2. keepGets + dropGets + u <= gets
      BY <2>10
    <3>. HIDE DEF a, u
    <3>. DEFINE m == keepGets + dropGets  n == keepGets' + dropGets'
    <3>4. m \in Nat /\ n \in Nat /\ n = m + BufferItems /\ m + u <= gets
      <4>1. m \in Nat
        BY <1>7
      <4>3. n = m + BufferItems
        BY <2>9
      <4>2. n \in Nat
        <5>. HIDE DEF m, n
        <5>. QED  BY <1>1, <4>1, <4>3
      <4>4. m + u <= gets
        BY <3>2
      <4>. QED  BY <4>1, <4>2, <4>3, <4>4
    <3>3. n + a <= gets
      <4>. HIDE DEF m, n
      <4>. QED  BY <1>1, <1>7, <3>1, <3>4, MoveAcross
    <3>. QED  BY <3>3 DEF a
  <2>. QED  BY <1>0, <2>5, <2>12 DEF AccountsAll
<1>. QED  BY <1>4, <1>6, <1>8, <1>9

\* The steps of a Get after its push
LEMMA GoOnCounts ==
  ASSUME CountInv, NEW c \in Clients, GoOn(c), GetInv'
  PROVE  BatchesApart' /\ Fresh' /\ AccountsKept' /\ AccountsAll'
<1>0. /\ GetInv /\ heap \in Seq(Arrays) /\ stripe[c] \in Slices
      /\ pc[c] = "send" => Full(stripe[c])
  BY DEF CountInv, GetInv, GetTypeOK, SlicesOK, Arrays
<1>1. CASE PutNotFull(c)
  <2>1. /\ PutBack(c, stripe[c]) /\ pc[c] = "pushed"
        /\ \A a \in DOMAIN heap : heap'[a] = heap[a]
        /\ UNCHANGED <<chanVars, readerVars, closer, metricVars, gets>>
    BY <1>1 DEF PutNotFull
  <2>. QED  BY <1>0, <2>1, PutBackCounts
<1>2. CASE PutDrained(c)
  <2>0. /\ Replace(c) \/ Truncate(c)
        /\ UNCHANGED <<chanVars, readerVars, closer, metricVars, gets>>
    BY <1>2 DEF PutDrained
  <2>1. CASE Replace(c)
    <3>1. pc[c] = "sent" /\ PutBack(c, NewSlice) /\ heap' = Append(heap, NewArray)
      BY <2>1 DEF Replace
    <3>2. \A a \in DOMAIN heap : heap'[a] = heap[a]
      BY <1>0, <3>1, NewArrayHeap
    <3>3. NewSlice \in Slices /\ NewSlice.len = 0
      BY <1>0, GetPathConstants DEF NewSlice, Slices
    <3>. QED  BY <2>0, <3>1, <3>2, <3>3, PutBackCounts
  <2>2. CASE Truncate(c)
    <3>. DEFINE s == [stripe[c] EXCEPT !.len = 0]
    <3>1. pc[c] = "refused" /\ PutBack(c, s) /\ heap' = heap
      BY <2>2 DEF Truncate
    <3>2. s \in Slices /\ s.len = 0
      BY <1>0, GetPathConstants DEF Slices
    <3>3. \A a \in DOMAIN heap : heap'[a] = heap[a]
      BY <3>1
    <3>. HIDE DEF s
    <3>. QED  BY <2>0, <3>1, <3>2, <3>3, PutBackCounts
  <2>. QED  BY <2>0, <2>1, <2>2
<1>3. CASE CountGets(c)
  BY <1>3, MetricCounts
<1>4. ASSUME ConsPush(c) \/ Send(c), itemsCh' = itemsCh
      PROVE  BatchesApart' /\ Fresh' /\ AccountsKept' /\ AccountsAll'
  <2>1. /\ UNCHANGED <<heap, pool, stripe, readerVars, metricVars, gets>>
        /\ pc[c] \in {"pushed", "send"} /\ pc'[c] \in {"send", "refused", "dropped"}
        /\ pc'[c] = "dropped" => Full(stripe[c])
        /\ \A d \in Clients : d # c => pc'[d] = pc[d]
    <3>1. pc \in [Clients -> {"idle", "pushed", "send", "kept", "dropped", "sent", "refused"}]
      BY <1>0 DEF GetInv, GetTypeOK
    <3>2. CASE ConsPush(c)
      BY <3>1, <3>2 DEF ConsPush
    <3>3. CASE Send(c)
      <4>1. Len(itemsCh) \in Nat /\ itemsCh' # Append(itemsCh, stripe[c])
        <5>1. itemsCh \in Seq(Slices)
          BY <1>0 DEF GetInv, GetTypeOK
        <5>2. Len(Append(itemsCh, stripe[c])) = Len(itemsCh) + 1 /\ Len(itemsCh) \in Nat
          BY <1>0, <5>1, AppendProperties
        <5>. QED  BY <1>4, <5>2
      <4>. QED  BY <1>0, <3>1, <3>3, <4>1 DEF Send
    <3>. QED  BY <1>4, <3>2, <3>3
  <2>2. InFlight' = InFlight /\ Reading' = Reading /\ Unread' = Unread /\ Kept' = Kept
    <3>1. InFlight' = InFlight /\ Reading' = Reading
      BY <1>4, <2>1, SameBatches DEF readerVars
    <3>. QED  BY <1>4, <2>1, <3>1 DEF Unread, Kept, readerVars
  <2>3. BatchesApart'
    BY <1>4, <2>1, <2>2 DEF CountInv, BatchesApart, Full, readerVars
  <2>4. /\ PendingSlices' \subseteq PendingSlices
        /\ PendingSlices' \cup OwedSlices' \subseteq PendingSlices \cup OwedSlices
    BY <2>1 DEF PendingSlices, OwedSlices
  <2>5. Pending' \subseteq Pending /\ Unaccounted' \subseteq Unaccounted
    BY <2>4, CellsSubset DEF Pending, Unaccounted
  <2>6. /\ \A a \in DOMAIN heap : heap'[a] = heap[a]
        /\ UNCHANGED <<counted, gets, keepGets, dropGets>>
    BY <2>1 DEF readerVars, metricVars
  <2>. QED  BY <2>2, <2>3, <2>5, <2>6, LoseCells
<1>5. ASSUME Send(c), itemsCh' # itemsCh
      PROVE  BatchesApart' /\ Fresh' /\ AccountsKept' /\ AccountsAll'
  <2>1. /\ pc[c] = "send" /\ itemsCh' = Append(itemsCh, stripe[c])
        /\ pc' = [pc EXCEPT ![c] = "kept"]
        /\ UNCHANGED <<heap, pool, stripe, readerVars, metricVars, gets>>
    BY <1>5 DEF Send
  <2>. QED  BY <2>1, KeptCounts
<1>6. CASE ConsPush(c)
  BY <1>4, <1>6 DEF ConsPush, chanVars
<1>. QED  BY <1>1, <1>2, <1>3, <1>4, <1>5, <1>6 DEF GoOn

\* The head of the channel becomes the batch: no cell is read or lost.
LEMMA ReceiveCounts ==
  ASSUME CountInv, Receive, GetInv'
  PROVE  BatchesApart' /\ Fresh' /\ AccountsKept' /\ AccountsAll'
<1>. DEFINE b == Head(itemsCh)  n == Len(itemsCh)
<1>1. /\ reader = "select" /\ itemsCh # <<>> /\ batch' = b
      /\ itemsCh' = Tail(itemsCh) /\ pos' = 0 /\ reader' = "count"
      /\ UNCHANGED <<heap, clientVars, counted, metricVars, gets>>
  BY DEF Receive
<1>2. GetInv /\ itemsCh \in Seq(Slices) /\ ~Reading /\ Reading'
  BY <1>1 DEF CountInv, GetInv, GetTypeOK, Reading
<1>3. /\ n \in Nat \ {0} /\ DOMAIN itemsCh = 1..n /\ DOMAIN itemsCh' = 1..(n - 1)
      /\ \A i \in 1..(n - 1) : itemsCh'[i] = itemsCh[i + 1] /\ i + 1 \in 1..n /\ i + 1 # 1
      /\ b = itemsCh[1] /\ 1 \in 1..n
  <2>1. n \in Nat /\ n # 0 /\ DOMAIN itemsCh = 1..n /\ b = itemsCh[1]
    BY <1>1, <1>2
  <2>2. /\ Tail(itemsCh) \in Seq(Slices) /\ Len(Tail(itemsCh)) = n - 1
        /\ \A i \in 1..Len(Tail(itemsCh)) : Tail(itemsCh)[i] = itemsCh[i + 1]
    BY <1>1, <1>2, HeadTailProperties
  <2>. HIDE DEF n, b
  <2>. QED  BY <1>1, <2>1, <2>2
<1>. HIDE DEF b, n
<1>4. Range(itemsCh) = Range(itemsCh') \cup {b}
  <2>1. Range(itemsCh') \cup {b} \subseteq Range(itemsCh)
    BY <1>3 DEF Range
  <2>2. ASSUME NEW i \in 1..n PROVE itemsCh[i] \in Range(itemsCh') \cup {b}
    <3>1. CASE i = 1
      BY <1>3, <3>1
    <3>2. CASE i # 1
      <4>1. i - 1 \in 1..(n - 1) /\ (i - 1) + 1 = i
        BY <1>3, <3>2
      <4>. QED  BY <1>3, <4>1 DEF Range
    <3>. QED  BY <3>1, <3>2
  <2>. QED  BY <1>3, <2>1, <2>2 DEF Range
<1>5. \A i, j \in 1..n : itemsCh[i].arr = itemsCh[j].arr => i = j
  BY <1>3 DEF CountInv, BatchesApart
<1>6. BatchesApart'
  <2>1. \A i, j \in DOMAIN itemsCh' : itemsCh'[i].arr = itemsCh'[j].arr => i = j
    <3>. SUFFICES ASSUME NEW i \in 1..(n - 1), NEW j \in 1..(n - 1),
                         itemsCh[i + 1].arr = itemsCh[j + 1].arr
                  PROVE  i = j
      BY <1>3
    <3>1. i + 1 = j + 1
      BY <1>3, <1>5
    <3>. QED  BY <3>1, <1>3
  <2>2. \A i \in 1..(n - 1) : itemsCh'[i].arr # b.arr
    BY <1>3, <1>5
  <2>3. \A s \in Range(itemsCh') : s.arr # batch'.arr
    BY <1>1, <1>3, <2>2 DEF Range
  <2>4. \A c \in Clients : pc'[c] \in {"kept", "dropped"} => Full(stripe'[c])
    BY <1>1 DEF CountInv, BatchesApart, clientVars
  <2>. QED  BY <2>1, <2>3, <2>4 DEF BatchesApart, Full
<1>7. Unread' = Unread
  <2>1. Unread = CellsOf(Range(itemsCh)) /\ BatchCells = {}
    BY <1>2, UnreadIs DEF BatchCells
  <2>2. (GetInv => Unread = CellsOf(Range(itemsCh)) \cup BatchCells)'
    BY UnreadIs, PTL
  <2>3. BatchCells' = CellsOf({b})
    BY <1>1, <1>2 DEF BatchCells, CellsOf
  <2>4. CellsOf(Range(itemsCh)) = CellsOf(Range(itemsCh')) \cup CellsOf({b})
    BY <1>4, CellsUnion
  <2>. QED  BY <2>1, <2>2, <2>3, <2>4
<1>8. /\ Kept' = Kept /\ Pending' = Pending /\ Unaccounted' = Unaccounted
      /\ \A a \in DOMAIN heap : heap'[a] = heap[a]
      /\ UNCHANGED <<counted, gets, keepGets, dropGets>>
  BY <1>1 DEF Kept, Pending, Unaccounted, PendingSlices, OwedSlices, clientVars, metricVars
<1>. QED  BY <1>6, <1>7, <1>8, LoseCells

\* A cell of the batch is read, and its Get counted.
LEMMA ItemCounts ==
  ASSUME CountInv, CountItem, GetInv'
  PROVE  BatchesApart' /\ Fresh' /\ AccountsKept' /\ AccountsAll'
<1>. DEFINE q == <<batch.arr, pos + 1>>
<1>1. /\ reader = "count" /\ pos' = pos + 1 /\ batch' = batch /\ itemsCh' = itemsCh
      /\ reader' = (IF pos + 1 = batch.len THEN "select" ELSE "count")
      /\ counted' = Append(counted, Val(q))
      /\ UNCHANGED <<heap, clientVars, metricVars, gets>>
  BY DEF CountItem, CountedBatch, chanVars, Val
<1>2. /\ GetInv /\ Reading /\ batch \in Slices /\ batch \in InFlight
      /\ batch.arr \in DOMAIN heap /\ batch.arr \in Nat /\ batch.len \in Nat
      /\ pos \in Nat /\ pos < batch.len
  <2>1. GetInv /\ Reading /\ batch \in Slices /\ batch \in InFlight /\ pos \in 0..BufferItems
    BY <1>1 DEF CountInv, GetInv, GetTypeOK, InFlight, Reading
  <2>2. batch.arr \in DOMAIN heap /\ pos < batch.len
    BY <2>1 DEF GetInv, SlicesOK
  <2>. QED  BY <2>1, <2>2, GetPathConstants DEF Slices
<1>3. BatchCells' = BatchCells \ {q} /\ q \in BatchCells
  <2>1. q \in BatchCells
    BY <1>2 DEF BatchCells
  <2>2. \A p \in Nat \X Nat : p[1] = batch.arr /\ p # q => p[2] # pos + 1
    OBVIOUS
  <2>3. \A k \in Nat : k # pos + 1 => (k > pos <=> k > pos + 1)
    BY <1>2
  <2>4. BatchCells \ {q} \subseteq BatchCells'
    <3>. SUFFICES ASSUME NEW p \in BatchCells, p # q PROVE p \in BatchCells'
      OBVIOUS
    <3>1. /\ p \in Nat \X Nat /\ p[1] = batch.arr /\ p[2] \in 1..batch.len /\ p[2] > pos
          /\ p[2] # pos + 1 /\ p[2] \in Nat
      BY <2>2 DEF BatchCells
    <3>2. p[2] > pos + 1 /\ pos + 1 # batch.len
      BY <1>2, <2>3, <3>1
    <3>. QED  BY <1>1, <3>1, <3>2 DEF BatchCells, Reading
  <2>5. BatchCells' \subseteq BatchCells \ {q}
    <3>. SUFFICES ASSUME NEW p \in BatchCells' PROVE p \in BatchCells /\ p # q
      OBVIOUS
    <3>1. /\ p \in Nat \X Nat /\ p[1] = batch.arr /\ p[2] \in 1..batch.len /\ p[2] > pos + 1
          /\ p[2] \in Nat
      BY <1>1 DEF BatchCells
    <3>2. p[2] > pos /\ p[2] # pos + 1
      BY <1>2, <3>1
    <3>. QED  BY <1>2, <3>1, <3>2 DEF BatchCells
  <2>. QED  BY <2>1, <2>4, <2>5
<1>4. q \notin CellsOf(Range(itemsCh)) /\ q \notin Pending
  <2>1. q \notin CellsOf(Range(itemsCh))
    BY <1>2 DEF CountInv, BatchesApart, CellsOf
  <2>2. \A s \in PendingSlices : s.arr # batch.arr
    BY <1>2 DEF PendingSlices, GetInv, ArraysOwned, Busy, HandedOver
  <2>. QED  BY <2>1, <2>2 DEF Pending, CellsOf
<1>. HIDE DEF q
<1>5. Unread' = Unread \ {q} /\ q \in Unread
  <2>1. Unread = CellsOf(Range(itemsCh)) \cup BatchCells
    BY <1>2, UnreadIs
  <2>2. (GetInv => Unread = CellsOf(Range(itemsCh)) \cup BatchCells)'
    BY UnreadIs, PTL
  <2>3. CellsOf(Range(itemsCh')) = CellsOf(Range(itemsCh))
    BY <1>1
  <2>. QED  BY <1>3, <1>4, <2>1, <2>2, <2>3
<1>6. Kept' = Kept /\ Pending' = Pending /\ Unaccounted' = Unaccounted
  BY <1>1 DEF Kept, Pending, Unaccounted, PendingSlices, OwedSlices, clientVars
<1>7. BatchesApart'
  <2>1. Reading' => Reading
    BY <1>2
  <2>. QED  BY <1>1, <2>1 DEF CountInv, BatchesApart, Full, clientVars
<1>8. counted \in Seq(0..MaxGets) /\ Len(counted) \in Nat /\ Val(q) \in 0..MaxGets
  <2>1. counted \in Seq(0..MaxGets) /\ gets \in 0..MaxGets
    BY <1>2 DEF GetInv, GetTypeOK
  <2>2. Val(q) \in 1..gets
    BY <1>5 DEF CountInv, Fresh, Live
  <2>. QED  BY <2>1, <2>2, GetPathConstants
<1>9. Fresh'
  <2>1. Live' \subseteq Live \ {q} /\ q \in Live
    BY <1>4, <1>5, <1>6 DEF Live
  <2>2. \A p \in Live' : Val(p)' = Val(p)
    BY <1>1 DEF Val
  <2>. HIDE DEF Live, Val
  <2>. QED  BY <1>1, <1>8, <2>1, <2>2, FreshCount DEF CountInv
<1>10. AccountsKept'
  <2>1. /\ IsFiniteSet(Unread) /\ Cardinality(Unread) \in Nat
        /\ Cardinality(Unread') = Cardinality(Unread) - 1
    BY <1>2, <1>5, FiniteCells, FS_RemoveElement
  <2>2. Len(counted') = Len(counted) + 1
    BY <1>1, <1>8, AppendProperties
  <2>3. Len(counted') + Cardinality(Unread') = Len(counted) + Cardinality(Unread)
    BY <1>8, <2>1, <2>2
  <2>. QED  BY <1>1, <1>6, <2>3 DEF CountInv, AccountsKept, metricVars
<1>11. AccountsAll'
  BY <1>1, <1>6 DEF CountInv, AccountsAll, metricVars
<1>. QED  BY <1>7, <1>9, <1>10, <1>11

\* Close, the garbage collector and the goroutine's end
LEMMA OthersCount ==
  ASSUME CountInv,
         \/ \E s \in pool : Collect(s)
         \/ StopReader \/ CloseCall \/ CloseStep
         \/ UNCHANGED getVars
  PROVE  BatchesApart' /\ Fresh' /\ AccountsKept' /\ AccountsAll'
<1>1. /\ UNCHANGED <<heap, pc, stripe, itemsCh, batch, pos, counted, keepGets, dropGets, gets>>
      /\ pool' \subseteq pool
      /\ Reading' = Reading
  BY DEF Collect, StopReader, CloseCall, CloseStep, ReaderDone, Done, CloseChans,
         CloseMark, CacheMark, getVars, clientVars, chanVars, readerVars, metricVars, Reading
<1>2. Unread' = Unread /\ Kept' = Kept /\ BatchesApart'
  BY <1>1 DEF Unread, Kept, CountInv, BatchesApart, Full
<1>3. PendingSlices' \subseteq PendingSlices /\ OwedSlices' = OwedSlices
  BY <1>1 DEF PendingSlices, OwedSlices
<1>4. Pending' \subseteq Pending /\ Unaccounted' \subseteq Unaccounted
  <2>1. PendingSlices' \cup OwedSlices' \subseteq PendingSlices \cup OwedSlices
    BY <1>3
  <2>. QED  BY <1>3, <2>1, CellsSubset DEF Pending, Unaccounted
<1>5. \A a \in DOMAIN heap : heap'[a] = heap[a]
  BY <1>1
<1>. QED  BY <1>1, <1>2, <1>4, <1>5, LoseCells

\* The invariant holds initially.
LEMMA CountInitially == GetInit => CountInv
<1>. SUFFICES ASSUME GetInit PROVE CountInv
  OBVIOUS
<1>1. GetInv
  BY GetInitially
<1>2. /\ Range(itemsCh) = {} /\ ~Reading /\ PendingSlices = {} /\ OwedSlices = {} /\ Kept = {}
      /\ Range(counted) = {} /\ IsInjective(counted) /\ Len(counted) = 0 /\ gets = 0
      /\ keepGets = 0 /\ dropGets = 0
  BY DEF GetInit, Range, Reading, PendingSlices, OwedSlices, Kept, IsInjective
<1>3. Unread = {} /\ Pending = {} /\ Unaccounted = {}
  BY <1>2 DEF Unread, Pending, Unaccounted, CellsOf
<1>4. Cardinality({}) = 0 /\ BufferItems * 0 = 0
  BY FS_EmptySet, GetPathConstants
<1>5. BatchesApart
  BY <1>2 DEF BatchesApart, GetInit
<1>6. Fresh
  BY <1>2, <1>3 DEF Fresh, Live
<1>7. AccountsKept /\ AccountsAll
  BY <1>2, <1>3, <1>4 DEF AccountsKept, AccountsAll
<1>. QED  BY <1>1, <1>5, <1>6, <1>7 DEF CountInv

\* Every step keeps it.
LEMMA CountStep == CountInv /\ [GetNext]_getVars => CountInv'
<1>. SUFFICES ASSUME CountInv, [GetNext]_getVars PROVE CountInv'
  OBVIOUS
<1>0. GetInv'
  BY GetStep DEF CountInv
<1>1. ASSUME NEW c \in Clients, Get(c) \/ GoOn(c)
      PROVE  BatchesApart' /\ Fresh' /\ AccountsKept' /\ AccountsAll'
  BY <1>0, <1>1, GetCounts, GoOnCounts
<1>2. ASSUME Receive \/ CountItem
      PROVE  BatchesApart' /\ Fresh' /\ AccountsKept' /\ AccountsAll'
  BY <1>0, <1>2, ReceiveCounts, ItemCounts
<1>3. ASSUME \/ \E s \in pool : Collect(s)
             \/ StopReader \/ CloseCall \/ CloseStep
             \/ UNCHANGED getVars
      PROVE  BatchesApart' /\ Fresh' /\ AccountsKept' /\ AccountsAll'
  BY <1>3, OthersCount
<1>4. BatchesApart' /\ Fresh' /\ AccountsKept' /\ AccountsAll'
  BY <1>1, <1>2, <1>3 DEF GetNext
<1>. QED  BY <1>0, <1>4 DEF CountInv

(* No Get is counted twice, though stripes and their arrays are recycled:    *)
(* the sketch gets every pushed hash at most once, and nothing that waits in *)
(* a stripe was counted or is about to be.                                   *)
THEOREM GetsCountedOnce == GetSpec => []NoGetCountedTwice
<1>1. CountInv => NoGetCountedTwice
  <2>. SUFFICES ASSUME CountInv PROVE NoGetCountedTwice
    OBVIOUS
  <2>1. /\ IsInjective(counted)
        /\ \A p, q \in Unread : Val(p) = Val(q) => p = q
        /\ \A p \in Unread : Val(p) \notin Range(counted)
    BY DEF CountInv, Fresh, Live
  <2>2. ASSUME NEW s \in pool, NEW i \in 1..s.len
        PROVE  heap[s.arr][i] \notin Range(counted) /\ <<s.arr, i>> \notin Unread
    <3>1. s \in Slices /\ s.arr \in Nat /\ s.len \in Nat
      BY GetPathConstants DEF CountInv, GetInv, GetTypeOK, Slices
    <3>2. <<s.arr, i>> \in Pending
      BY <3>1 DEF Pending, PendingSlices, CellsOf
    <3>3. Val(<<s.arr, i>>) \notin Range(counted)
      BY <3>2 DEF CountInv, Fresh, Live
    <3>4. <<s.arr, i>> \notin Unread
      BY FiniteCells DEF CountInv, GetInv, ArraysOwned
    <3>. QED  BY <3>3, <3>4 DEF Val
  <2>. QED  BY <2>1, <2>2 DEF NoGetCountedTwice, Val
<1>. QED  BY <1>1, CountInitially, CountStep, PTL DEF GetSpec

(* The metrics of the get path: GetsKept is what the sketch was given or     *)
(* will be given, as long as every accepted batch was added; and no Get is   *)
(* in both counters.                                                         *)
THEOREM GetsAreAccounted == GetSpec => []GetsAccounted
<1>1. CountInv => GetsAccounted
  <2>. SUFFICES ASSUME CountInv PROVE GetsAccounted
    OBVIOUS
  <2>1. /\ keepGets \in Nat /\ dropGets \in Nat /\ gets \in Nat
        /\ Cardinality(Unaccounted) \in Nat
    BY FiniteCells, GetPathConstants DEF CountInv, GetInv, GetTypeOK
  <2>2. keepGets + dropGets <= gets
    BY <2>1 DEF CountInv, AccountsAll
  <2>. QED  BY <2>2 DEF CountInv, AccountsKept, GetsAccounted, Kept
<1>. QED  BY <1>1, CountInitially, CountStep, PTL DEF GetSpec
=============================================================================
