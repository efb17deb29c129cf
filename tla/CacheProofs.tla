----------------------------- MODULE CacheProofs -----------------------------
(* Theorems about the cache, for any number of clients, keys and calls.    *)
EXTENDS CacheHistory, PolicyProofs

-----------------------------------------------------------------------------
(* Items *)

\* Items built by the API are well typed.
LEMMA NewItemType ==
    ASSUME NEW f \in {"new", "update", "delete"}, NEW k \in Keys,
           NEW v \in Values \cup {ZeroValue}, NEW cost \in Nat, NEW exp \in Times,
           NEW wg \in Clients \cup {NoClient}, f = "delete" => wg = NoClient
    PROVE  NewItem(f, k, v, cost, exp, wg) \in Items
<1>1. /\ KeyHash[k] \in Hashes /\ ConflictHash[k] \in Conflicts
      /\ KnownPair(KeyHash[k], ConflictHash[k])
  BY CacheConstants DEF Conflicts, KnownPair
<1>. QED  BY <1>1 DEF NewItem, Items

\* The zero time is an instant.
LEMMA ZeroTimeType == ZeroTime \in Times
  BY DEF Times

\* The item of Wait carries the caller's wait group.
LEMMA WaitItemType ==
    ASSUME NEW wg \in Clients \cup {NoClient}
    PROVE  WaitItem(wg) \in Items /\ WaitItem(wg).wg = wg
<1>1. (CHOOSE k \in Keys : TRUE) \in Keys
  BY CacheConstants
<1>2. WaitItem(wg) \in Items
  BY <1>1, ZeroTimeType, NewItemType DEF WaitItem
<1>. QED  BY <1>2 DEF WaitItem, NewItem

\* The fields of an item
LEMMA ItemFields ==
    ASSUME NEW i \in Items
    PROVE  /\ i.key \in Hashes /\ i.conflict \in Conflicts
           /\ KnownPair(i.key, i.conflict)
           /\ i.value \in Values \cup {ZeroValue} /\ i.exp \in Times
           /\ i.cost \in Nat /\ i.wg \in Clients \cup {NoClient}
           /\ i.flag = "delete" => i.wg = NoClient
  BY DEF Items

\* The cost the processor charges is a natural number.
LEMMA ItemCostType ==
    ASSUME NEW i \in Items
    PROVE  ItemCost(i) \in Nat
<1>1. i.value \in 0..MaxCalls /\ i.cost \in Nat
  BY ItemFields, CacheConstants DEF Values, ZeroValue
<1>2. Coster(i.value) \in Nat
  BY <1>1, CacheConstants
<1>. QED  BY <1>1, <1>2, CacheConstants DEF ItemCost

-----------------------------------------------------------------------------
(* The store *)

\* The expiration map keeps its shape.
LEMMA EmDelType ==
    ASSUME NEW b, BucketsOK(b), NEW key, NEW exp
    PROVE  BucketsOK(emDel(b, key, exp))
  BY DEF BucketsOK, emDel, IsMap, Remove

\* expirationMap.add, which may create the bucket, keeps the shape of the map.
LEMMA EmAddType ==
    ASSUME NEW b, BucketsOK(b), NEW key \in Hashes, NEW conflict \in Conflicts,
           KnownPair(key, conflict), NEW exp
    PROVE  BucketsOK(emAdd(b, key, conflict, exp))
<1>. DEFINE n == storageBucket(exp)
            old == IF n \in DOMAIN b THEN b[n] ELSE EmptyMap
            new == Put(old, key, conflict)
<1>1. /\ IsMap(old, Hashes, Conflicts)
      /\ \A h \in DOMAIN old : KnownPair(h, old[h])
  BY DEF BucketsOK, IsMap, EmptyMap
<1>. HIDE DEF old
<1>2. /\ IsMap(new, Hashes, Conflicts)
      /\ \A h \in DOMAIN new : KnownPair(h, new[h])
  BY <1>1 DEF IsMap, Put
<1>. HIDE DEF new, n
<1>3. BucketsOK(Put(b, n, new))
  BY <1>2 DEF BucketsOK, Put
<1>4. emAdd(b, key, conflict, exp) \in {b, Put(b, n, new)}
  BY DEF emAdd, n, new, old
<1>. QED  BY <1>3, <1>4

\* Set, Update and Del keep the store well typed.  Only Set adds a key.
LEMMA ReplaceType ==
    ASSUME StoreTypeOK, UNCHANGED now, NEW i \in Items, i.key \in DOMAIN data,
           Replace(i)
    PROVE  StoreTypeOK' /\ DOMAIN data' = DOMAIN data
<1>1. BucketsOK(buckets')
  BY ItemFields, EmDelType, EmAddType DEF StoreTypeOK, Replace, emUpdate
<1>2. /\ IsMap(data', Hashes, [conflict : Conflicts, value : Values \cup {ZeroValue},
                               exp : Times])
      /\ DOMAIN data' = DOMAIN data
      /\ \A h \in DOMAIN data' : KnownPair(h, data'[h].conflict)
  BY ItemFields DEF StoreTypeOK, Replace, Entry, Put, IsMap
<1>. QED  BY <1>1, <1>2 DEF StoreTypeOK, Replace

\* Update adds no key to the store.
LEMMA StoreUpdateType ==
    ASSUME StoreTypeOK, UNCHANGED now, NEW i \in Items, StoreUpdate(i)
    PROVE  StoreTypeOK' /\ DOMAIN data' = DOMAIN data
<1>1. CASE Replaceable(i)
  BY <1>1, ReplaceType DEF StoreUpdate, Replaceable, Held
<1>2. CASE ~Replaceable(i)
  BY <1>2 DEF StoreUpdate, StoreTypeOK, storeVars
<1>. QED  BY <1>1, <1>2

\* Set leaves its key in the store, whether it stores the item or not.
LEMMA StoreSetType ==
    ASSUME StoreTypeOK, UNCHANGED now, NEW i \in Items, StoreSet(i)
    PROVE  StoreTypeOK' /\ DOMAIN data' = DOMAIN data \cup {i.key}
<1>1. CASE i.key \notin DOMAIN data
  <2>1. BucketsOK(buckets')
    BY <1>1, ItemFields, EmAddType DEF StoreTypeOK, StoreSet
  <2>2. /\ IsMap(data', Hashes, [conflict : Conflicts, value : Values \cup {ZeroValue},
                                 exp : Times])
        /\ DOMAIN data' = DOMAIN data \cup {i.key}
        /\ \A h \in DOMAIN data' : KnownPair(h, data'[h].conflict)
    BY <1>1, ItemFields DEF StoreTypeOK, StoreSet, Entry, Put, IsMap
  <2>. QED  BY <1>1, <2>1, <2>2 DEF StoreTypeOK, StoreSet
<1>2. CASE i.key \in DOMAIN data
  <2>1. DOMAIN data \cup {i.key} = DOMAIN data
    BY <1>2
  <2>2. CASE Replaceable(i)
    BY <1>2, <2>1, <2>2, ReplaceType DEF StoreSet
  <2>3. CASE ~Replaceable(i)
    BY <1>2, <2>1, <2>3 DEF StoreSet, StoreTypeOK, storeVars
  <2>. QED  BY <2>2, <2>3
<1>. QED  BY <1>1, <1>2

\* Del removes its key if the conflict hash matches, and adds none.
LEMMA StoreDelType ==
    ASSUME StoreTypeOK, UNCHANGED now, NEW key, NEW conflict, StoreDel(key, conflict)
    PROVE  /\ StoreTypeOK' /\ DOMAIN data' \subseteq DOMAIN data
           /\ Held(key, conflict) => DOMAIN data' = DOMAIN data \ {key}
<1>1. CASE Held(key, conflict)
  <2>1. BucketsOK(buckets')
    BY <1>1, EmDelType DEF StoreTypeOK, StoreDel
  <2>2. /\ IsMap(data', Hashes, [conflict : Conflicts, value : Values \cup {ZeroValue},
                                 exp : Times])
        /\ DOMAIN data' = DOMAIN data \ {key}
        /\ \A h \in DOMAIN data' : KnownPair(h, data'[h].conflict)
    BY <1>1 DEF StoreTypeOK, StoreDel, Remove, IsMap
  <2>. QED  BY <1>1, <2>1, <2>2 DEF StoreTypeOK, StoreDel
<1>2. CASE ~Held(key, conflict)
  BY <1>2 DEF StoreDel, StoreTypeOK, storeVars
<1>. QED  BY <1>1, <1>2

\* Clearing a shard removes its key.
LEMMA ClearShardType ==
    ASSUME StoreTypeOK, UNCHANGED now, NEW key, ClearShard(key)
    PROVE  StoreTypeOK' /\ DOMAIN data' = DOMAIN data \ {key}
  BY DEF StoreTypeOK, ClearShard, Remove, IsMap

\* Buckets are numbered by integers.
LEMMA CleanupBucketType ==
    ASSUME NEW t \in Int
    PROVE  cleanupBucket(t) \in Int
  BY StoreConstants DEF cleanupBucket, storageBucket

\* A value passed to onExit leaves the counters of exits well typed.
LEMMA OnExitType ==
    ASSUME GhostTypeOK, NEW v, OnExit(v), UNCHANGED <<calls, refused>>
    PROVE  GhostTypeOK'
  BY DEF GhostTypeOK, OnExit, ExitsAfter, IsMap

-----------------------------------------------------------------------------
(* Types: the steps of clients *)

\* The call of SetWithTTL
LEMMA SetInvokeType ==
    ASSUME CacheTypeOK, NEW c \in Clients, NEW k \in Keys, NEW cost \in Costs,
           NEW ttl \in TTLs, SetInvoke(c, k, cost, ttl)
    PROVE  CacheTypeOK'
<1>. USE DEF SetInvoke, Call, Goto
<1>1. ExpirationOf(ttl) \in Times /\ cost \in Nat
  BY ZeroTimeType, CacheConstants, PolicyConstants
     DEF ExpirationOf, Times, CacheTypeOK, StoreTypeOK
<1>2. calls + 1 \in Values /\ calls + 1 \in 0..MaxCalls
  BY CacheConstants DEF CacheTypeOK, GhostTypeOK, Values
<1>3. NewItem("new", k, calls + 1, cost, ExpirationOf(ttl), NoClient) \in Items
  BY <1>1, <1>2, NewItemType
<1>4. ClientTypeOK'
  BY <1>3 DEF CacheTypeOK, ClientTypeOK, ClientPcs
<1>5. GhostTypeOK'
  BY <1>2 DEF CacheTypeOK, GhostTypeOK, IsMap, Put
<1>6. StoreTypeOK' /\ ProcTypeOK' /\ ChanTypeOK'
  BY DEF CacheTypeOK, StoreTypeOK, ProcTypeOK, ChanTypeOK, storeVars, procVars, chanVars
<1>7. PolicyTypeOK'
  BY DEF CacheTypeOK, PolicyTypeOK, policyVars
<1>. QED  BY <1>4, <1>5, <1>6, <1>7 DEF CacheTypeOK

\* SetWithTTL's storedItems.Update
LEMMA SetUpdateType ==
    ASSUME CacheTypeOK, NEW c \in Clients, SetUpdate(c)
    PROVE  CacheTypeOK'
<1>. USE DEF SetUpdate, Goto
<1>1. cur[c] \in Items
  BY DEF CacheTypeOK, ClientTypeOK
<1>2. StoreTypeOK'
  BY <1>1, StoreUpdateType DEF CacheTypeOK
<1>3. [cur EXCEPT ![c].flag = "update"] \in [Clients -> Items]
  BY <1>1 DEF CacheTypeOK, ClientTypeOK, Items
<1>4. ClientTypeOK'
  BY <1>3 DEF CacheTypeOK, ClientTypeOK, ClientPcs
<1>5. GhostTypeOK'
  BY OnExitType DEF CacheTypeOK, GhostTypeOK
<1>6. ProcTypeOK' /\ ChanTypeOK' /\ PolicyTypeOK'
  BY DEF CacheTypeOK, ProcTypeOK, ChanTypeOK, PolicyTypeOK, procVars, chanVars, policyVars
<1>. QED  BY <1>2, <1>4, <1>5, <1>6 DEF CacheTypeOK

\* A send keeps setBuf within its capacity.
LEMMA SendType ==
    ASSUME ChanTypeOK, NEW i \in Items, CanSend, Send(i),
           UNCHANGED <<setBufClosed, isClosed, wgDone>>
    PROVE  ChanTypeOK'
<1>1. Append(setBuf, i) \in Seq(Items) /\ Len(Append(setBuf, i)) = Len(setBuf) + 1
  BY DEF ChanTypeOK
<1>2. Len(setBuf) \in Nat /\ SetBufSize \in Nat
  BY CacheConstants DEF ChanTypeOK
<1>. QED  BY <1>1, <1>2 DEF ChanTypeOK, Send, CanSend

\* The return of a call
LEMMA ReturnType ==
    ASSUME ClientTypeOK, NEW c \in Clients, Return(c), UNCHANGED <<closing, shards>>
    PROVE  ClientTypeOK'
<1>1. WaitItem(NoClient) \in Items
  BY WaitItemType
<1>. QED  BY <1>1 DEF ClientTypeOK, Return, Goto, ClientPcs

\* SetWithTTL's select on setBuf
LEMMA SetSendType ==
    ASSUME CacheTypeOK, NEW c \in Clients, SetSend(c)
    PROVE  CacheTypeOK'
<1>1. cur[c] \in Items
  BY DEF CacheTypeOK, ClientTypeOK
<1>2. /\ StoreTypeOK' /\ ProcTypeOK'
      /\ UNCHANGED <<keyCosts, used, maxCost, addVars, closing, shards>>
      /\ UNCHANGED <<calls, exits, setBufClosed, isClosed, wgDone>>
  BY DEF SetSend, CacheTypeOK, StoreTypeOK, ProcTypeOK, storeVars, procVars
<1>3. CASE setBufClosed /\ Panic /\ UNCHANGED <<setBuf, metrics, refused, pc, cur>>
  BY <1>2, <1>3 DEF CacheTypeOK, ClientTypeOK, ChanTypeOK, GhostTypeOK, PolicyTypeOK,
                    addVars, Panic
<1>4. CASE CanSend /\ Send(cur[c]) /\ Return(c) /\ UNCHANGED <<metrics, refused>>
  <2>1. ChanTypeOK'
    BY <1>1, <1>2, <1>4, SendType DEF CacheTypeOK
  <2>2. ClientTypeOK'
    BY <1>2, <1>4, ReturnType DEF CacheTypeOK
  <2>. QED  BY <1>2, <1>4, <2>1, <2>2 DEF CacheTypeOK, GhostTypeOK, PolicyTypeOK, addVars
<1>5. CASE /\ Return(c)
           /\ IF cur[c].flag = "update" THEN UNCHANGED <<metrics, refused>>
              ELSE /\ metrics' = Bump(metrics, "dropSets", 1)
                   /\ refused' = refused \cup {cur[c].value}
           /\ UNCHANGED <<setBuf, panicked>>
  <2>1. metrics' \in [MetricTypes -> Nat]
    <3>1. "dropSets" \in MetricTypes /\ metrics \in [MetricTypes -> Nat]
      BY DEF MetricTypes, CacheTypeOK, PolicyTypeOK
    <3>. QED  BY <1>5, <3>1, BumpType
  <2>2. refused' \subseteq Values \cup {ZeroValue}
    BY <1>1, <1>5, ItemFields DEF CacheTypeOK, GhostTypeOK
  <2>3. ClientTypeOK'
    BY <1>2, <1>5, ReturnType DEF CacheTypeOK
  <2>4. PolicyTypeOK'
    BY <1>2, <2>1 DEF CacheTypeOK, PolicyTypeOK, addVars
  <2>5. ChanTypeOK' /\ GhostTypeOK'
    BY <1>2, <1>5, <2>2 DEF CacheTypeOK, ChanTypeOK, GhostTypeOK
  <2>. QED  BY <1>2, <2>3, <2>4, <2>5 DEF CacheTypeOK
<1>. QED  BY <1>3, <1>4, <1>5 DEF SetSend

\* The call of Del
LEMMA DelInvokeType ==
    ASSUME CacheTypeOK, NEW c \in Clients, NEW k \in Keys, DelInvoke(c, k)
    PROVE  CacheTypeOK'
<1>. USE DEF DelInvoke, Call, Goto
<1>1. NewItem("delete", k, ZeroValue, 0, ZeroTime, NoClient) \in Items
  BY NewItemType, ZeroTimeType
<1>2. ClientTypeOK'
  BY <1>1 DEF CacheTypeOK, ClientTypeOK, ClientPcs
<1>3. GhostTypeOK'
  BY CacheConstants DEF CacheTypeOK, GhostTypeOK
<1>4. StoreTypeOK' /\ ProcTypeOK' /\ ChanTypeOK' /\ PolicyTypeOK'
  BY DEF CacheTypeOK, StoreTypeOK, ProcTypeOK, ChanTypeOK, PolicyTypeOK, storeVars,
         procVars, chanVars, policyVars
<1>. QED  BY <1>2, <1>3, <1>4 DEF CacheTypeOK

\* Del's storedItems.Del
LEMMA DelStoreType ==
    ASSUME CacheTypeOK, NEW c \in Clients, DelStore(c)
    PROVE  CacheTypeOK'
<1>. USE DEF DelStore, Goto
<1>1. StoreTypeOK'
  BY StoreDelType DEF CacheTypeOK
<1>2. ClientTypeOK'
  BY DEF CacheTypeOK, ClientTypeOK, ClientPcs
<1>3. GhostTypeOK'
  BY OnExitType DEF CacheTypeOK
<1>4. ProcTypeOK' /\ ChanTypeOK' /\ PolicyTypeOK'
  BY DEF CacheTypeOK, ProcTypeOK, ChanTypeOK, PolicyTypeOK, procVars, chanVars, policyVars
<1>. QED  BY <1>1, <1>2, <1>3, <1>4 DEF CacheTypeOK

\* The two blocking sends
LEMMA BlockingSendType ==
    ASSUME CacheTypeOK, NEW c \in Clients, DelSend(c) \/ WaitSend(c)
    PROVE  CacheTypeOK'
<1>. USE DEF DelSend, WaitSend, SendItem
<1>1. cur[c] \in Items
  BY DEF CacheTypeOK, ClientTypeOK
<1>2. /\ StoreTypeOK' /\ ProcTypeOK' /\ PolicyTypeOK' /\ GhostTypeOK'
      /\ UNCHANGED <<closing, shards, setBufClosed, isClosed, wgDone>>
  BY DEF CacheTypeOK, StoreTypeOK, ProcTypeOK, PolicyTypeOK, GhostTypeOK, storeVars,
         procVars, policyVars, ghostVars
<1>3. CASE Panic /\ UNCHANGED <<setBuf, pc, cur>>
  BY <1>2, <1>3 DEF CacheTypeOK, ClientTypeOK, ChanTypeOK, Panic
<1>4. CASE CanSend /\ Send(cur[c]) /\ (Return(c) \/ Block(c))
  <2>1. ChanTypeOK'
    BY <1>1, <1>2, <1>4, SendType DEF CacheTypeOK
  <2>2. CASE Return(c)
    BY <1>2, <2>1, <2>2, ReturnType DEF CacheTypeOK
  <2>3. CASE Block(c)
    <3>1. ClientTypeOK'
      BY <1>2, <2>3 DEF CacheTypeOK, ClientTypeOK, Block, Goto, ClientPcs
    <3>. QED  BY <1>2, <2>1, <3>1 DEF CacheTypeOK
  <2>. QED  BY <1>4, <2>2, <2>3
<1>. QED  BY <1>3, <1>4

\* The call and the return of Wait
LEMMA WaitType ==
    ASSUME CacheTypeOK, NEW c \in Clients, WaitInvoke(c) \/ WaitReturn(c)
    PROVE  CacheTypeOK'
<1>1. /\ StoreTypeOK' /\ ProcTypeOK' /\ PolicyTypeOK'
      /\ UNCHANGED <<closing, shards, setBuf, setBufClosed, isClosed, panicked,
                     exits, refused>>
  BY DEF WaitInvoke, WaitReturn, CacheTypeOK, StoreTypeOK, ProcTypeOK, PolicyTypeOK,
         storeVars, procVars, policyVars, chanVars, ghostVars
<1>2. CASE WaitInvoke(c)
  <2>1. WaitItem(c) \in Items
    BY WaitItemType
  <2>2. ClientTypeOK'
    BY <1>1, <1>2, <2>1 DEF CacheTypeOK, ClientTypeOK, WaitInvoke, Goto, ClientPcs
  <2>3. GhostTypeOK'
    BY <1>1, <1>2, CacheConstants DEF CacheTypeOK, GhostTypeOK, WaitInvoke, Call
  <2>4. ChanTypeOK'
    BY <1>1, <1>2 DEF CacheTypeOK, ChanTypeOK, WaitInvoke, chanVars
  <2>. QED  BY <1>1, <2>2, <2>3, <2>4 DEF CacheTypeOK
<1>3. CASE WaitReturn(c)
  <2>1. ClientTypeOK'
    BY <1>1, <1>3, ReturnType DEF CacheTypeOK, WaitReturn
  <2>2. GhostTypeOK' /\ ChanTypeOK'
    BY <1>1, <1>3 DEF CacheTypeOK, GhostTypeOK, ChanTypeOK, WaitReturn, ghostVars
  <2>. QED  BY <1>1, <2>1, <2>2 DEF CacheTypeOK
<1>. QED  BY <1>2, <1>3

\* Get, and the first look of GetTTL
LEMMA GetType ==
    ASSUME CacheTypeOK, NEW c \in Clients, NEW k \in Keys,
           Get(c, k) \/ GetTTLInvoke(c, k)
    PROVE  CacheTypeOK'
<1>1. /\ StoreTypeOK' /\ ProcTypeOK' /\ ChanTypeOK'
      /\ UNCHANGED <<closing, shards, exits, refused>>
  BY DEF Get, GetTTLInvoke, CacheTypeOK, StoreTypeOK, ProcTypeOK, ChanTypeOK, storeVars,
         procVars, chanVars
<1>2. GhostTypeOK'
  BY <1>1, CacheConstants DEF CacheTypeOK, GhostTypeOK, Get, GetTTLInvoke, Call
<1>3. CASE Get(c, k)
  <2>1. "hit" \in MetricTypes /\ "miss" \in MetricTypes /\ metrics \in [MetricTypes -> Nat]
    BY DEF MetricTypes, CacheTypeOK, PolicyTypeOK
  <2>2. metrics' \in [MetricTypes -> Nat]
    <3>. DEFINE m == IF Found(KeyHash[k], ConflictHash[k]) THEN "hit" ELSE "miss"
    <3>1. m \in MetricTypes
      BY <2>1
    <3>2. metrics' = Bump(metrics, m, 1)
      BY <1>3 DEF Get
    <3>. HIDE DEF m
    <3>. QED  BY <2>1, <3>1, <3>2, BumpType
  <2>3. PolicyTypeOK'
    BY <1>3, <2>2 DEF Get, CacheTypeOK, PolicyTypeOK, addVars
  <2>4. ClientTypeOK'
    BY <1>3 DEF Get, CacheTypeOK, ClientTypeOK
  <2>. QED  BY <1>1, <1>2, <2>3, <2>4 DEF CacheTypeOK
<1>4. CASE GetTTLInvoke(c, k)
  <2>1. NewItem("new", k, ZeroValue, 0, ZeroTime, NoClient) \in Items
    BY NewItemType, ZeroTimeType
  <2>2. ClientTypeOK'
    BY <1>1, <1>4, <2>1 DEF GetTTLInvoke, Goto, CacheTypeOK, ClientTypeOK, ClientPcs
  <2>3. PolicyTypeOK'
    BY <1>4 DEF GetTTLInvoke, CacheTypeOK, PolicyTypeOK, policyVars
  <2>. QED  BY <1>1, <1>2, <2>2, <2>3 DEF CacheTypeOK
<1>. QED  BY <1>3, <1>4

\* The second look of GetTTL
LEMMA GetTTLReadType ==
    ASSUME CacheTypeOK, NEW c \in Clients, GetTTLRead(c)
    PROVE  CacheTypeOK'
<1>1. ClientTypeOK'
  BY ReturnType DEF GetTTLRead, CacheTypeOK
<1>. QED  BY <1>1 DEF GetTTLRead, CacheTypeOK, StoreTypeOK, ProcTypeOK, ChanTypeOK,
                      GhostTypeOK, PolicyTypeOK, storeVars, procVars, chanVars, ghostVars,
                      policyVars

-----------------------------------------------------------------------------
(* Types: Clear and Close *)

\* The calls, and the steps that change only program counters and flags
LEMMA ClearControlType ==
    ASSUME CacheTypeOK, NEW c \in Clients,
           \/ ClearInvoke(c) \/ CloseInvoke(c) \/ CloseClear(c) \/ ClearStop(c)
           \/ CloseStop(c) \/ CloseChans(c) \/ CloseDone(c)
    PROVE  /\ CacheTypeOK'
           /\ UNCHANGED <<data, keyCosts>>
<1>. USE DEF ClearInvoke, CloseInvoke, CloseClear, ClearStop, CloseStop, CloseChans,
             CloseDone, StopProcessor, Call, Goto
<1>1. /\ StoreTypeOK' /\ PolicyTypeOK' /\ UNCHANGED <<data, keyCosts>>
  BY DEF CacheTypeOK, StoreTypeOK, PolicyTypeOK, storeVars, policyVars
<1>2. ClientTypeOK'
  BY DEF CacheTypeOK, ClientTypeOK, ClientPcs
<1>3. ProcTypeOK'
  BY DEF CacheTypeOK, ProcTypeOK, ProcPcs, procVars
<1>4. ChanTypeOK'
  BY DEF CacheTypeOK, ChanTypeOK, chanVars, Panic
<1>5. GhostTypeOK'
  BY CacheConstants DEF CacheTypeOK, GhostTypeOK, ghostVars
<1>. QED  BY <1>1, <1>2, <1>3, <1>4, <1>5 DEF CacheTypeOK

\* Taking an item from setBuf
LEMMA TailType ==
    ASSUME ChanTypeOK, setBuf # <<>>
    PROVE  /\ Head(setBuf) \in Items
           /\ Tail(setBuf) \in Seq(Items) /\ Len(Tail(setBuf)) <= SetBufSize
<1>1. setBuf \in Seq(Items) /\ Len(setBuf) <= SetBufSize
  BY DEF ChanTypeOK
<1>2. /\ Head(setBuf) \in Items /\ Tail(setBuf) \in Seq(Items)
      /\ Len(Tail(setBuf)) = Len(setBuf) - 1
  BY <1>1, HeadTailProperties
<1>. QED  BY <1>1, <1>2, CacheConstants

\* Clear takes an item out of setBuf, or finds it empty.
LEMMA DrainType ==
    ASSUME CacheTypeOK, NEW c \in Clients, Drain(c)
    PROVE  CacheTypeOK'
<1>1. /\ StoreTypeOK' /\ PolicyTypeOK' /\ ProcTypeOK'
      /\ UNCHANGED <<cur, closing, calls, refused, setBufClosed, isClosed, panicked, shards>>
  BY DEF Drain, CacheTypeOK, StoreTypeOK, PolicyTypeOK, ProcTypeOK, storeVars, policyVars,
         procVars
<1>2. ClientTypeOK'
  BY <1>1 DEF Drain, Goto, CacheTypeOK, ClientTypeOK, ClientPcs
<1>3. CASE UNCHANGED <<setBuf, wgDone, exits>>
  BY <1>1, <1>2, <1>3 DEF CacheTypeOK, ChanTypeOK, GhostTypeOK
<1>4. CASE setBuf # <<>> /\ setBuf' = Tail(setBuf) /\ Drained(Head(setBuf))
  <2>1. Head(setBuf) \in Items /\ setBuf' \in Seq(Items) /\ Len(setBuf') <= SetBufSize
    BY <1>4, TailType DEF CacheTypeOK
  <2>2. Head(setBuf).wg \in Clients \cup {NoClient}
    BY <2>1, ItemFields
  <2>3. wgDone' \subseteq Clients
    BY <1>4, <2>2 DEF Drained, CacheTypeOK, ChanTypeOK
  <2>4. GhostTypeOK'
    BY <1>1, <1>4, OnExitType DEF Drained, CacheTypeOK, GhostTypeOK
  <2>. QED  BY <1>1, <1>2, <2>1, <2>3, <2>4 DEF CacheTypeOK, ChanTypeOK
<1>. QED  BY <1>3, <1>4 DEF Drain

\* The steps of Clear that reset the policy, the shards, the expiration map and
\* the metrics
LEMMA ClearStateType ==
    ASSUME CacheTypeOK, NEW c \in Clients,
           \/ ClearPolicy(c) \/ ClearShards(c) \/ ClearExpiry(c) \/ ClearRestart(c)
    PROVE  CacheTypeOK'
<1>1. CASE ClearPolicy(c)
  <2>1. PolicyTypeOK'
    BY <1>1, PolicyClearType DEF ClearPolicy, CacheTypeOK
  <2>. QED  BY <1>1, <2>1 DEF ClearPolicy, Goto, CacheTypeOK, StoreTypeOK, ClientTypeOK,
              ClientPcs, ProcTypeOK, ChanTypeOK, GhostTypeOK, storeVars, procVars,
              ghostVars, chanVars
<1>2. CASE ClearShards(c)
  <2>1. PICK h \in shards : /\ ClearShard(h) /\ OnExit(DelValue(h, 0))
                            /\ shards' = shards \ {h}
    BY <1>2 DEF ClearShards
  <2>2. StoreTypeOK'
    BY <1>2, <2>1, ClearShardType DEF ClearShards, CacheTypeOK
  <2>3. GhostTypeOK'
    BY <1>2, <2>1, OnExitType DEF ClearShards, CacheTypeOK
  <2>4. ClientTypeOK'
    BY <1>2, <2>1 DEF ClearShards, Goto, CacheTypeOK, ClientTypeOK, ClientPcs
  <2>5. PolicyTypeOK' /\ ProcTypeOK' /\ ChanTypeOK'
    BY <1>2 DEF ClearShards, CacheTypeOK, PolicyTypeOK, ProcTypeOK, ChanTypeOK, policyVars,
                procVars, chanVars
  <2>. QED  BY <2>2, <2>3, <2>4, <2>5 DEF CacheTypeOK
<1>3. CASE ClearExpiry(c)
  <2>1. cleanupBucket(now) \in Int
    BY CleanupBucketType DEF CacheTypeOK, StoreTypeOK
  <2>2. BucketsOK(EmptyMap)
    BY DEF BucketsOK, EmptyMap
  <2>3. StoreTypeOK'
    BY <1>3, <2>1, <2>2 DEF ClearExpiry, emClear, CacheTypeOK, StoreTypeOK
  <2>. QED  BY <1>3, <2>3 DEF ClearExpiry, Goto, CacheTypeOK, PolicyTypeOK, ClientTypeOK,
              ClientPcs, ProcTypeOK, ChanTypeOK, GhostTypeOK, policyVars, procVars,
              ghostVars, chanVars
<1>4. CASE ClearRestart(c)
  <2>1. NoMetrics \in [MetricTypes -> Nat]
    BY DEF NoMetrics
  <2>2. PolicyTypeOK'
    BY <1>4, <2>1 DEF ClearRestart, CacheTypeOK, PolicyTypeOK, addVars
  <2>. QED  BY <1>4, <2>2 DEF ClearRestart, Goto, CacheTypeOK, StoreTypeOK, ClientTypeOK,
              ClientPcs, ProcTypeOK, ProcPcs, ChanTypeOK, GhostTypeOK, storeVars,
              ghostVars, chanVars
<1>. QED  BY <1>1, <1>2, <1>3, <1>4

\* UpdateMaxCost
LEMMA ChangeMaxCostType ==
    ASSUME CacheTypeOK, NEW c \in Clients, NEW cost \in MaxCosts, ChangeMaxCost(c, cost)
    PROVE  CacheTypeOK'
<1>1. PolicyTypeOK'
  BY UpdateMaxCostType DEF ChangeMaxCost, CacheTypeOK
<1>2. GhostTypeOK'
  BY CacheConstants DEF ChangeMaxCost, CacheTypeOK, GhostTypeOK
<1>. QED  BY <1>1, <1>2 DEF ChangeMaxCost, CacheTypeOK, StoreTypeOK, ClientTypeOK,
            ProcTypeOK, ChanTypeOK, storeVars, clientVars, procVars, chanVars

-----------------------------------------------------------------------------
(* Types: the processor *)

\* What a step of the processor leaves alone
LEMMA ClientsUnchangedType ==
    ASSUME CacheTypeOK, ClientsUnchanged
    PROVE  /\ ClientTypeOK'
           /\ UNCHANGED <<calls, refused, setBufClosed, isClosed, panicked, shards, pc, cur>>
  BY DEF ClientsUnchanged, CacheTypeOK, ClientTypeOK, clientVars

\* The processor receives an item from setBuf.
LEMMA ReceiveType ==
    ASSUME CacheTypeOK, ReceiveItem
    PROVE  CacheTypeOK'
<1>1. /\ ClientTypeOK' /\ StoreTypeOK'
      /\ UNCHANGED <<calls, refused, exits, setBufClosed, isClosed, panicked>>
  BY ClientsUnchangedType DEF ReceiveItem, ReceiveWait, ReceiveNew, ReceiveUpdate,
     ReceiveDelete, CacheTypeOK, StoreTypeOK, storeVars
<1>2. /\ Head(setBuf) \in Items
      /\ setBuf' \in Seq(Items) /\ Len(setBuf') <= SetBufSize
  BY TailType DEF ReceiveItem, ReceiveWait, ReceiveNew, ReceiveUpdate, ReceiveDelete,
     ReceiveFlag, Receive, CacheTypeOK
<1>3. /\ Head(setBuf).key \in Hashes /\ ItemCost(Head(setBuf)) \in Nat
      /\ Head(setBuf).wg \in Clients \cup {NoClient}
  BY <1>2, ItemFields, ItemCostType
<1>4. GhostTypeOK'
  BY <1>1 DEF CacheTypeOK, GhostTypeOK
<1>5. ChanTypeOK'
  BY <1>1, <1>2, <1>3 DEF ReceiveItem, ReceiveWait, ReceiveNew, ReceiveUpdate,
     ReceiveDelete, CacheTypeOK, ChanTypeOK
<1>6. ProcTypeOK'
  BY <1>2 DEF ReceiveItem, ReceiveWait, ReceiveNew, ReceiveUpdate, ReceiveDelete,
     CacheTypeOK, ProcTypeOK, ProcPcs, procVars
<1>7. PolicyTypeOK'
  <2>1. CASE ReceiveWait
    BY <2>1 DEF ReceiveWait, CacheTypeOK, PolicyTypeOK, policyVars
  <2>2. CASE ReceiveNew
    BY <1>3, <2>2, AddCallType DEF ReceiveNew, CacheTypeOK
  <2>3. CASE ReceiveUpdate
    BY <1>3, <2>3, PolicyUpdateType DEF ReceiveUpdate, CacheTypeOK
  <2>4. CASE ReceiveDelete
    BY <2>4, PolicyDelType DEF ReceiveDelete, CacheTypeOK
  <2>. QED  BY <2>1, <2>2, <2>3, <2>4 DEF ReceiveItem
<1>. QED  BY <1>1, <1>4, <1>5, <1>6, <1>7 DEF CacheTypeOK

\* A step of cachePolicy.Add
LEMMA AdmitType ==
    ASSUME CacheTypeOK, Admit
    PROVE  CacheTypeOK'
<1>1. PolicyTypeOK'
  BY AddStepType DEF Admit, CacheTypeOK
<1>. QED  BY <1>1, ClientsUnchangedType DEF Admit, CacheTypeOK, StoreTypeOK, ProcTypeOK,
            ChanTypeOK, GhostTypeOK, storeVars, procVars

\* The processor stores or rejects the item.
LEMMA LeaveAddType ==
    ASSUME CacheTypeOK, Added \/ Rejected
    PROVE  CacheTypeOK'
<1>. USE DEF Added, Rejected, LeaveAdd
<1>0. pitem \in Items /\ WaitItem(NoClient) \in Items
  BY WaitItemType DEF CacheTypeOK, ProcTypeOK
<1>1. ProcTypeOK'
  BY <1>0 DEF CacheTypeOK, ProcTypeOK, ProcPcs
<1>2. StoreTypeOK'
  <2>1. CASE Added
    BY <1>0, <2>1, StoreSetType DEF CacheTypeOK
  <2>2. CASE Rejected
    BY <2>2 DEF CacheTypeOK, StoreTypeOK, storeVars
  <2>. QED  BY <2>1, <2>2
<1>3. PolicyTypeOK'
  <2>1. "keyAdd" \in MetricTypes /\ metrics \in [MetricTypes -> Nat]
    BY DEF MetricTypes, CacheTypeOK, PolicyTypeOK
  <2>2. metrics' \in [MetricTypes -> Nat]
    BY <2>1, BumpType
  <2>. QED  BY <2>2 DEF CacheTypeOK, PolicyTypeOK, AddPcs
<1>4. GhostTypeOK'
  BY OnExitType, ClientsUnchangedType DEF CacheTypeOK, GhostTypeOK
<1>. QED  BY <1>1, <1>2, <1>3, <1>4, ClientsUnchangedType DEF CacheTypeOK, ChanTypeOK

\* The processor removes a victim from the store.
LEMMA EvictVictimType ==
    ASSUME CacheTypeOK, victims # <<>>, EvictVictim
    PROVE  CacheTypeOK'
<1>. USE DEF EvictVictim
<1>1. StoreTypeOK'
  BY StoreDelType DEF CacheTypeOK
<1>2. GhostTypeOK'
  BY OnExitType, ClientsUnchangedType DEF CacheTypeOK
<1>3. victims' \in Seq(Pairs(Nat))
  BY HeadTailProperties DEF CacheTypeOK, PolicyTypeOK
<1>4. PolicyTypeOK'
  BY <1>3 DEF CacheTypeOK, PolicyTypeOK
<1>5. ProcTypeOK'
  BY DEF CacheTypeOK, ProcTypeOK, ProcPcs
<1>. QED  BY <1>1, <1>2, <1>4, <1>5, ClientsUnchangedType DEF CacheTypeOK, ChanTypeOK

\* The two deletions of pitem from the store
LEMMA DeleteItemType ==
    ASSUME CacheTypeOK, DeleteStored \/ CleanupDel
    PROVE  CacheTypeOK'
<1>. USE DEF DeleteStored, CleanupDel
<1>1. StoreTypeOK'
  BY StoreDelType DEF CacheTypeOK
<1>2. GhostTypeOK'
  BY OnExitType, ClientsUnchangedType DEF CacheTypeOK
<1>3. PolicyTypeOK'
  BY DEF CacheTypeOK, PolicyTypeOK, policyVars
<1>4. ProcTypeOK'
  BY WaitItemType DEF CacheTypeOK, ProcTypeOK, ProcPcs
<1>. QED  BY <1>1, <1>2, <1>3, <1>4, ClientsUnchangedType DEF CacheTypeOK, ChanTypeOK

\* cleanup takes the due buckets out of the expiration map.
LEMMA CleanupStartType ==
    ASSUME CacheTypeOK, CleanupStart
    PROVE  CacheTypeOK'
<1>. USE DEF CleanupStart
<1>1. cleanupBucket(now) \in Int /\ lastCleaned \in Int /\ now \in Nat
  BY CleanupBucketType DEF CacheTypeOK, StoreTypeOK
<1>2. BucketsOK(buckets')
  BY DEF CacheTypeOK, StoreTypeOK, BucketsOK, emExtract
<1>3. StoreTypeOK'
  BY <1>1, <1>2 DEF CacheTypeOK, StoreTypeOK, emExtract
<1>4. DueBuckets(now) \subseteq DOMAIN buckets \cap Int
  BY <1>1 DEF DueBuckets
<1>5. ASSUME NEW w \in DueEntries(now)
      PROVE  /\ w \in [bucket : Int, key : Hashes, conflict : Conflicts]
             /\ KnownPair(w.key, w.conflict)
  <2>1. PICK n \in DueBuckets(now) :
           w \in {[bucket |-> n, key |-> k, conflict |-> buckets[n][k]] :
                     k \in DOMAIN buckets[n]}
    BY <1>5 DEF DueEntries
  <2>2. PICK k \in DOMAIN buckets[n] :
           w = [bucket |-> n, key |-> k, conflict |-> buckets[n][k]]
    BY <2>1
  <2>3. n \in Int /\ k \in Hashes /\ buckets[n][k] \in Conflicts
        /\ KnownPair(k, buckets[n][k])
    BY <1>4 DEF CacheTypeOK, StoreTypeOK, BucketsOK, IsMap
  <2>. QED  BY <2>2, <2>3
<1>6. ProcTypeOK'
  BY <1>1, <1>5 DEF CacheTypeOK, ProcTypeOK, ProcPcs
<1>. QED  BY <1>3, <1>6, ClientsUnchangedType DEF CacheTypeOK, ChanTypeOK, GhostTypeOK,
            PolicyTypeOK, policyVars

\* cleanup looks an entry up and decides whether to delete it.
LEMMA CleanupCheckType ==
    ASSUME CacheTypeOK, CleanupCheck
    PROVE  CacheTypeOK'
<1>1. PICK w \in work : /\ work' = work \ {w}
          /\ IF Expiration(w.key) > cleanNow
             THEN /\ pp' = IF work = {w} THEN "select" ELSE "clean"
                  /\ UNCHANGED <<policyVars, pitem>>
             ELSE /\ pp' = "cleanDel"
                  /\ pitem' = [WaitItem(NoClient) EXCEPT !.key = w.key,
                                                        !.conflict = w.conflict]
                  /\ PolicyDel(w.key)
  BY DEF CleanupCheck
<1>2. w.key \in Hashes /\ w.conflict \in Conflicts /\ KnownPair(w.key, w.conflict)
  BY DEF CacheTypeOK, ProcTypeOK
<1>3. [WaitItem(NoClient) EXCEPT !.key = w.key, !.conflict = w.conflict] \in Items
  <2>. DEFINE i == WaitItem(NoClient)
  <2>1. i \in Items
    BY WaitItemType
  <2>. HIDE DEF i
  <2>2. [i EXCEPT !.key = w.key, !.conflict = w.conflict] \in Items
    BY <1>2, <2>1 DEF Items
  <2>. QED  BY <2>2 DEF i
<1>4. ProcTypeOK'
  BY <1>1, <1>3 DEF CleanupCheck, CacheTypeOK, ProcTypeOK, ProcPcs
<1>5. PolicyTypeOK'
  <2>1. CASE Expiration(w.key) > cleanNow
    BY <1>1, <2>1 DEF CacheTypeOK, PolicyTypeOK, policyVars
  <2>2. CASE ~(Expiration(w.key) > cleanNow)
    BY <1>1, <2>2, PolicyDelType DEF CacheTypeOK
  <2>. QED  BY <2>1, <2>2
<1>. QED  BY <1>4, <1>5, ClientsUnchangedType DEF CleanupCheck, CacheTypeOK, StoreTypeOK,
            ChanTypeOK, GhostTypeOK, storeVars

\* The clock
LEMMA AdvanceTimeType ==
    ASSUME CacheTypeOK, AdvanceTime
    PROVE  CacheTypeOK'
  BY DEF AdvanceTime, CacheTypeOK, StoreTypeOK, PolicyTypeOK, ClientTypeOK, ProcTypeOK,
     ChanTypeOK, GhostTypeOK, storeVars, policyVars, clientVars, procVars, ghostVars,
     chanVars

\* A new cache is well typed.
LEMMA InitType ==
    ASSUME Init
    PROVE  CacheTypeOK
<1>. USE DEF Init
<1>1. WaitItem(NoClient) \in Items
  BY WaitItemType
<1>2. 0 \in Int /\ lastCleaned \in Int
  BY CleanupBucketType
<1>3. StoreTypeOK
  BY <1>2 DEF StoreTypeOK, BucketsOK, IsMap, EmptyMap
<1>4. ClientTypeOK /\ ProcTypeOK
  BY <1>1 DEF ClientTypeOK, ClientPcs, ProcTypeOK, ProcPcs
<1>5. setBuf \in Seq(Items) /\ Len(setBuf) = 0
  OBVIOUS
<1>6. ChanTypeOK
  <2>1. Len(setBuf) <= SetBufSize
    BY <1>5, CacheConstants
  <2>2. setBufClosed \in BOOLEAN /\ isClosed \in BOOLEAN /\ panicked \in BOOLEAN
    OBVIOUS
  <2>3. wgDone \subseteq Clients
    OBVIOUS
  <2>. QED  BY <1>5, <2>1, <2>2, <2>3 DEF ChanTypeOK
<1>7. GhostTypeOK
  BY CacheConstants DEF GhostTypeOK, IsMap, EmptyMap
<1>. QED  BY <1>3, <1>4, <1>6, <1>7, PolicyInitType DEF CacheTypeOK

-----------------------------------------------------------------------------
(* The processor and the clients' control *)

\* Next without the guard on panicked, by kind of step
LEMMA NextCases ==
    ASSUME Next
    PROVE  \/ \E c \in Clients : Invoke(c) \/ Continue(c)
           \/ ReceiveItem \/ Process \/ CleanupStart \/ AdvanceTime
  BY DEF Next

\* Steps of a client leave the processor alone, except to stop or to restart it;
\* and only Clear touches the keys of the policy.
LEMMA ClientStepControl ==
    ASSUME NEW c \in Clients, Invoke(c) \/ Continue(c)
    PROVE  /\ UNCHANGED <<addPc, addArg, victims, pitem>>
           /\ \/ UNCHANGED pp
              \/ pp = "select" /\ pp' = "dead"
              \/ pc[c] = "restart" /\ pp' = "select"
           /\ \/ UNCHANGED keyCosts
              \/ pc[c] = "policyClear" /\ addPc = "none"
<1>1. CASE Invoke(c)
  BY <1>1 DEF Invoke, SetInvoke, DelInvoke, Get, GetTTLInvoke, WaitInvoke, ClearInvoke,
     CloseInvoke, ChangeMaxCost, UpdateMaxCost, policyVars, addVars, procVars
<1>2. CASE Continue(c)
  BY <1>2 DEF Continue, SetUpdate, SetSend, DelStore, DelSend, WaitSend, SendItem,
     WaitReturn, GetTTLRead, CloseClear, ClearStop, CloseStop, StopProcessor, Drain,
     ClearPolicy, PolicyClear, AddIdle, ClearShards, ClearExpiry, ClearRestart, CloseChans,
     CloseDone, policyVars, addVars, procVars
<1>. QED  BY <1>1, <1>2

\* The program counter of a client moves within Stopped, outside of it, out of it,
\* or into it by stopping the processor.
LEMMA ClientStepPc ==
    ASSUME CacheTypeOK, NEW c \in Clients, Invoke(c) \/ Continue(c)
    PROVE  /\ \A d \in Clients \ {c} : pc'[d] = pc[d]
           /\ pc'[c] \in Stopped => \/ pc[c] \in Stopped /\ UNCHANGED pp
                                    \/ pp = "select" /\ pp' = "dead"
<1>. USE DEF Goto, Stopped
<1>0. pc \in [Clients -> ClientPcs]
  BY DEF CacheTypeOK, ClientTypeOK
<1>1. CASE Invoke(c)
  BY <1>0, <1>1 DEF Invoke, SetInvoke, DelInvoke, Get, GetTTLInvoke, WaitInvoke, ClearInvoke,
     CloseInvoke, ChangeMaxCost, Call, procVars, clientVars
<1>2. CASE Continue(c)
  <2>1. CASE SetUpdate(c) \/ SetSend(c) \/ DelStore(c) \/ DelSend(c) \/ WaitSend(c)
              \/ WaitReturn(c) \/ GetTTLRead(c)
    BY <1>0, <2>1 DEF SetUpdate, SetSend, DelStore, DelSend, WaitSend, SendItem, WaitReturn,
       GetTTLRead, Return, Block, procVars
  <2>2. CASE CloseClear(c) \/ ClearStop(c) \/ CloseStop(c) \/ CloseChans(c) \/ CloseDone(c)
    BY <1>0, <2>2 DEF CloseClear, ClearStop, CloseStop, StopProcessor, CloseChans, CloseDone,
       procVars
  <2>3. CASE Drain(c) \/ ClearPolicy(c) \/ ClearShards(c) \/ ClearExpiry(c)
              \/ ClearRestart(c)
    BY <1>0, <2>3 DEF Drain, ClearPolicy, ClearShards, ClearExpiry, ClearRestart, procVars
  <2>. QED  BY <1>2, <2>1, <2>2, <2>3 DEF Continue
<1>. QED  BY <1>1, <1>2

\* A step of the processor leaves the clients' program counters alone, and is not
\* taken when it is dead.
LEMMA ProcessorControl ==
    ASSUME ReceiveItem \/ Process \/ CleanupStart
    PROVE  UNCHANGED <<pc, shards>> /\ pp # "dead"
<1>. USE DEF ClientsUnchanged, clientVars
<1>1. CASE ReceiveItem
  BY <1>1 DEF ReceiveItem, ReceiveWait, ReceiveNew, ReceiveUpdate, ReceiveDelete,
     ReceiveFlag, Receive
<1>2. CASE Process \/ CleanupStart
  BY <1>2 DEF Process, Admit, Added, Rejected, LeaveAdd, EvictVictim, DeleteStored,
     CleanupCheck, CleanupDel, CleanupStart
<1>. QED  BY <1>1, <1>2

\* StopInv is inductive.
LEMMA StopInvStep ==
    ASSUME CacheTypeOK, StopInv, Next
    PROVE  StopInv'
<1>1. CASE ReceiveItem \/ Process \/ CleanupStart
  BY <1>1, ProcessorControl DEF StopInv
<1>2. CASE AdvanceTime
  BY <1>2 DEF AdvanceTime, clientVars, procVars, StopInv
<1>3. ASSUME NEW c \in Clients, Invoke(c) \/ Continue(c)
      PROVE  StopInv'
  <2>1. \A d \in Clients \ {c} : pc'[d] = pc[d]
    BY <1>3, ClientStepPc
  <2>2. CASE pc'[c] \in Stopped
    <3>1. CASE pc[c] \in Stopped /\ UNCHANGED pp
      BY <2>1, <2>2, <3>1 DEF StopInv
    <3>2. CASE pp = "select" /\ pp' = "dead"
      BY <2>1, <2>2, <3>2 DEF StopInv
    <3>. QED  BY <1>3, <2>2, <3>1, <3>2, ClientStepPc
  <2>3. CASE pc'[c] \notin Stopped
    <3>1. ASSUME NEW d \in Clients, pc[d] \in Stopped, d # c
          PROVE  pp' = "dead"
      <4>1. pp = "dead" /\ (pc[c] \in Stopped => c = d)
        BY <3>1 DEF StopInv
      <4>2. pc[c] # "restart"
        BY <3>1, <4>1 DEF Stopped
      <4>. QED  BY <1>3, <4>1, <4>2, ClientStepControl
    <3>. QED  BY <2>1, <2>3, <3>1 DEF StopInv
  <2>. QED  BY <2>2, <2>3
<1>. QED  BY <1>1, <1>2, <1>3, NextCases

\* AddInv is inductive, given that a Clear finds no Add in progress.
LEMMA AddInvStep ==
    ASSUME CacheTypeOK, AddInv, StopInv, Next
    PROVE  AddInv'
<1>0. PolicyTypeOK /\ ChanTypeOK /\ ProcTypeOK
  BY DEF CacheTypeOK
<1>1. CASE ReceiveItem
  <2>1. CASE ReceiveWait
    BY <2>1 DEF ReceiveWait, AddInv, policyVars, procVars
  <2>2. CASE ReceiveNew
    BY <2>2 DEF ReceiveNew, AddCall, AddInv
  <2>3. CASE ReceiveUpdate
    <3>1. PolicyUpdate(Head(setBuf).key, ItemCost(Head(setBuf))) /\ pp = "select"
      BY <2>3 DEF ReceiveUpdate, ReceiveFlag, Receive
    <3>. QED  BY <2>3, <3>1 DEF ReceiveUpdate, PolicyUpdate, addVars, procVars, AddInv
  <2>4. CASE ReceiveDelete
    <3>1. pp = "select" /\ addPc = "none"
      BY <2>4 DEF ReceiveDelete, ReceiveFlag, Receive, AddInv
    <3>. QED  BY <2>4, <3>1 DEF ReceiveDelete, PolicyDel, addVars, AddInv
  <2>. QED  BY <1>1, <2>1, <2>2, <2>3, <2>4 DEF ReceiveItem
<1>2. CASE Process
  <2>1. CASE Admit
    <3>1. UNCHANGED <<addArg, pp, pitem>> /\ pp = "add" /\ AddStep
      BY <1>0, <2>1, AddStepType DEF Admit, procVars
    <3>2. addPc' # "none"
      BY <3>1 DEF AddStep, AddFits, AddNoRoom, AddReject, AddEvict, EvictMin, AddDone
    <3>3. addPc' = "added" => addArg.key \in DOMAIN keyCosts'
      BY <3>1 DEF AddStep, AddFits, evictAdd, Put, AddNoRoom, AddReject, AddEvict, EvictMin,
         AddDone
    <3>. QED  BY <3>1, <3>2, <3>3 DEF AddInv
  <2>2. CASE Added \/ Rejected
    BY <2>2 DEF Added, Rejected, LeaveAdd, AddInv
  <2>3. CASE EvictVictim
    <3>1. victims # <<>> /\ victims \in Seq(Pairs(Nat))
      BY <1>0, <2>3 DEF EvictVictim, AddInv, PolicyTypeOK
    <3>2. Len(Tail(victims)) = Len(victims) - 1 /\ Len(victims) \in Nat
      BY <3>1, HeadTailProperties, LenProperties
    <3>3. Len(victims) # 1 => Tail(victims) # <<>>
      <4>1. Len(<<>>) = 0
        OBVIOUS
      <4>2. Tail(victims) = <<>> => Len(Tail(victims)) = 0
        BY <4>1, Zenon
      <4>3. Len(Tail(victims)) = 0 => Len(victims) = 1
        BY <3>2
      <4>. QED  BY <4>2, <4>3, Zenon
    <3>. QED  BY <2>3, <3>3 DEF EvictVictim, AddInv
  <2>4. CASE DeleteStored \/ CleanupDel
    BY <2>4 DEF DeleteStored, CleanupDel, policyVars, AddInv
  <2>5. CASE CleanupCheck
    BY <2>5 DEF CleanupCheck, PolicyDel, AddIdle, policyVars, addVars, AddInv
  <2>. QED  BY <1>2, <2>1, <2>2, <2>3, <2>4, <2>5 DEF Process
<1>3. CASE CleanupStart
  BY <1>3 DEF CleanupStart, policyVars, AddInv
<1>4. CASE AdvanceTime
  BY <1>4 DEF AdvanceTime, policyVars, procVars, AddInv
<1>5. ASSUME NEW c \in Clients, Invoke(c) \/ Continue(c)
      PROVE  AddInv'
  <2>1. pc[c] = "restart" => pp = "dead"
    BY DEF StopInv, Stopped
  <2>. QED  BY <1>5, <2>1, ClientStepControl DEF AddInv
<1>. QED  BY <1>1, <1>2, <1>3, <1>4, <1>5, NextCases

-----------------------------------------------------------------------------
(* The types *)

\* A step keeps the types.
LEMMA TypeStep ==
    ASSUME CacheTypeOK, AddInv, Next
    PROVE  CacheTypeOK'
<1>1. CASE ReceiveItem
  BY <1>1, ReceiveType
<1>2. CASE Process
  <2>1. EvictVictim => victims # <<>>
    BY DEF EvictVictim, AddInv
  <2>. QED  BY <1>2, <2>1, AdmitType, LeaveAddType, EvictVictimType, DeleteItemType,
              CleanupCheckType DEF Process
<1>3. CASE CleanupStart
  BY <1>3, CleanupStartType
<1>4. CASE AdvanceTime
  BY <1>4, AdvanceTimeType
<1>5. ASSUME NEW c \in Clients, Invoke(c)
      PROVE  CacheTypeOK'
  BY <1>5, SetInvokeType, DelInvokeType, GetType, WaitType, ClearControlType,
     ChangeMaxCostType DEF Invoke
<1>6. ASSUME NEW c \in Clients, Continue(c)
      PROVE  CacheTypeOK'
  BY <1>6, SetUpdateType, SetSendType, DelStoreType, BlockingSendType, WaitType,
     GetTTLReadType, ClearControlType, DrainType, ClearStateType DEF Continue
<1>. QED  BY <1>1, <1>2, <1>3, <1>4, <1>5, <1>6, NextCases

\* The types, the control of the processor and the exclusion of two Clears hold of
\* every state: the part of the invariant that needs no assumption on the keys.
LEMMA ControlStep ==
    ASSUME CacheTypeOK, AddInv, StopInv, [Next]_cacheVars
    PROVE  CacheTypeOK' /\ AddInv' /\ StopInv'
<1>1. CASE Next
  BY <1>1, TypeStep, AddInvStep, StopInvStep
<1>2. CASE UNCHANGED cacheVars
  BY <1>2 DEF cacheVars, storeVars, policyVars, clientVars, procVars, ghostVars, chanVars,
     CacheTypeOK, StoreTypeOK, PolicyTypeOK, ClientTypeOK, ProcTypeOK, ChanTypeOK,
     GhostTypeOK, AddInv, StopInv
<1>. QED  BY <1>1, <1>2

\* A new cache satisfies the whole invariant.
LEMMA ControlInit ==
    ASSUME Init
    PROVE  CacheTypeOK /\ AddInv /\ StopInv /\ CoverInv
<1>1. pp = "select" /\ addPc = "none" /\ pc = [c \in Clients |-> "idle"] /\ data = EmptyMap
  BY DEF Init, PolicyInit
<1>2. DOMAIN data = {}
  BY <1>1 DEF EmptyMap
<1>. QED  BY <1>1, <1>2, InitType DEF AddInv, StopInv, Stopped, CoverInv

\* Whatever the clients call and however their steps interleave with those of the
\* processor, every variable keeps its type: setBuf never holds more than its
\* capacity, and a key hash and a conflict hash found together, in the store, in
\* an item or in the expiration map, come from one user key.
THEOREM CacheTyped == Spec => []CacheTypeOK
<1>1. Init => CacheTypeOK /\ AddInv /\ StopInv
  BY ControlInit
<1>2. CacheTypeOK /\ AddInv /\ StopInv /\ [Next]_cacheVars =>
          CacheTypeOK' /\ AddInv' /\ StopInv'
  BY ControlStep
<1>. QED  BY <1>1, <1>2, PTL DEF Spec

\* Two clients are never both between stopping and restarting the processor, and
\* the processor is gone while one is: Clear and Close exclude each other.
THEOREM ClearsExclude == Spec => []StopInv
<1>1. Init => CacheTypeOK /\ AddInv /\ StopInv
  BY ControlInit
<1>2. CacheTypeOK /\ AddInv /\ StopInv /\ [Next]_cacheVars =>
          CacheTypeOK' /\ AddInv' /\ StopInv'
  BY ControlStep
<1>. QED  BY <1>1, <1>2, PTL DEF Spec

-----------------------------------------------------------------------------
(* The store stays within the policy *)

\* A stored entry that has the key of an item or of a cleaned entry has its conflict
\* hash too, when there is no collision.
LEMMA SameKeyHeld ==
    ASSUME NoCollision, StoreTypeOK, NEW key, NEW conflict, KnownPair(key, conflict),
           key \in DOMAIN data
    PROVE  Held(key, conflict)
<1>1. KnownPair(key, data[key].conflict)
  BY DEF StoreTypeOK
<1>2. PICK k \in Keys : KeyHash[k] = key /\ ConflictHash[k] = conflict
  BY DEF KnownPair
<1>3. PICK l \in Keys : KeyHash[l] = key /\ ConflictHash[l] = data[key].conflict
  BY <1>1 DEF KnownPair
<1>. QED  BY <1>2, <1>3 DEF NoCollision, Held, Matches

\* The steps of a client add no key to the store.
LEMMA ClientStepData ==
    ASSUME CacheTypeOK, NEW c \in Clients, Invoke(c) \/ Continue(c)
    PROVE  DOMAIN data' \subseteq DOMAIN data
<1>0. cur[c] \in Items /\ StoreTypeOK
  BY DEF CacheTypeOK, ClientTypeOK
<1>1. CASE UNCHANGED data
  BY <1>1
<1>2. CASE SetUpdate(c)
  BY <1>0, <1>2, StoreUpdateType DEF SetUpdate
<1>3. CASE DelStore(c)
  BY <1>0, <1>3, StoreDelType DEF DelStore
<1>4. CASE ClearShards(c)
  <2>1. PICK h \in shards : ClearShard(h)
    BY <1>4 DEF ClearShards
  <2>. QED  BY <1>0, <1>4, <2>1, ClearShardType DEF ClearShards
<1>5. Invoke(c) => UNCHANGED data
  BY DEF Invoke, SetInvoke, DelInvoke, Get, GetTTLInvoke, WaitInvoke, ClearInvoke,
     CloseInvoke, ChangeMaxCost, storeVars
<1>6. Continue(c) => UNCHANGED data \/ SetUpdate(c) \/ DelStore(c) \/ ClearShards(c)
  BY DEF Continue, SetSend, DelSend, WaitSend, SendItem, WaitReturn, GetTTLRead, CloseClear,
     ClearStop, CloseStop, StopProcessor, Drain, ClearPolicy, ClearExpiry, emClear,
     ClearRestart, CloseChans, CloseDone, storeVars
<1>. QED  BY <1>1, <1>2, <1>3, <1>4, <1>5, <1>6

\* The shards Clear has yet to empty hold all that is left, and nothing is left at
\* the end: no other client adds a key meanwhile, nor a second Clear resets shards.
LEMMA ClearCoverStep ==
    ASSUME CacheTypeOK, StopInv, CoverInv, NEW c \in Clients, Invoke(c) \/ Continue(c),
           NEW d \in Clients
    PROVE  /\ pc'[d] = "clearShards" => DOMAIN data' \subseteq shards'
           /\ pc'[d] \in {"emClear", "restart"} => DOMAIN data' = {}
<1>0. /\ DOMAIN data' \subseteq DOMAIN data
      /\ pc \in [Clients -> ClientPcs] /\ StoreTypeOK
  BY ClientStepData DEF CacheTypeOK, ClientTypeOK
<1>. SUFFICES ASSUME pc'[d] \in {"clearShards", "emClear", "restart"}
              PROVE  /\ pc'[d] = "clearShards" => DOMAIN data' \subseteq shards'
                     /\ pc'[d] \in {"emClear", "restart"} => DOMAIN data' = {}
  OBVIOUS
<1>1. CASE ClearPolicy(c)
  <2>1. d = c
    <3>1. pc'[d] # pc[d] \/ (pc[d] \in Stopped /\ pc[c] \in Stopped)
      BY <1>1 DEF ClearPolicy, Stopped
    <3>. QED  BY <1>1, <3>1, ClientStepPc DEF StopInv
  <2>2. DOMAIN data \subseteq Hashes
    BY <1>0 DEF StoreTypeOK, IsMap
  <2>. QED  BY <1>0, <1>1, <2>1, <2>2 DEF ClearPolicy, Goto
<1>2. CASE ClearShards(c)
  <2>1. d = c
    <3>1. pc'[d] # pc[d] \/ (pc[d] \in Stopped /\ pc[c] \in Stopped)
      BY <1>2 DEF ClearShards, Stopped
    <3>. QED  BY <1>2, <3>1, ClientStepPc DEF StopInv
  <2>2. PICK h \in shards : /\ ClearShard(h) /\ shards' = shards \ {h}
                            /\ IF shards = {h} THEN Goto(c, "emClear") ELSE UNCHANGED pc
    BY <1>2 DEF ClearShards
  <2>3. DOMAIN data' = DOMAIN data \ {h}
    BY <1>0, <1>2, <2>2, ClearShardType DEF ClearShards
  <2>4. pc[c] = "clearShards" /\ DOMAIN data \subseteq shards
    BY <1>2 DEF ClearShards, CoverInv
  <2>. QED  BY <1>0, <2>1, <2>2, <2>3, <2>4 DEF Goto
<1>3. CASE ~ClearPolicy(c) /\ ~ClearShards(c)
  <2>1. UNCHANGED shards
    <3>1. CASE Invoke(c)
      BY <3>1 DEF Invoke, SetInvoke, DelInvoke, Get, GetTTLInvoke, WaitInvoke, ClearInvoke,
         CloseInvoke, ChangeMaxCost
    <3>2. CASE Continue(c)
      BY <1>3, <3>2 DEF Continue, SetUpdate, SetSend, DelStore, DelSend, WaitSend, SendItem,
         WaitReturn, GetTTLRead, CloseClear, ClearStop, CloseStop, StopProcessor, Drain,
         ClearExpiry, ClearRestart, CloseChans, CloseDone
    <3>. QED  BY <3>1, <3>2
  <2>2. CASE pc'[d] = pc[d]
    BY <1>0, <2>1, <2>2 DEF CoverInv
  <2>3. CASE pc'[d] # pc[d]
    <3>1. d = c
      BY <2>3, ClientStepPc
    <3>2. pc'[c] = "restart" /\ pc[c] = "emClear"
      <4>1. CASE Invoke(c)
        BY <1>0, <2>3, <3>1, <4>1 DEF Invoke, SetInvoke, DelInvoke, Get, GetTTLInvoke,
           WaitInvoke, ClearInvoke, CloseInvoke, ChangeMaxCost, Goto, clientVars
      <4>2. CASE Continue(c)
        BY <1>0, <1>3, <2>3, <3>1, <4>2 DEF Continue, SetUpdate, SetSend, DelStore, DelSend,
           WaitSend, SendItem, WaitReturn, Return, Block, GetTTLRead, CloseClear, ClearStop,
           CloseStop, StopProcessor, Drain, ClearExpiry, ClearRestart, CloseChans,
           CloseDone, Goto
      <4>. QED  BY <4>1, <4>2
    <3>. QED  BY <1>0, <3>1, <3>2 DEF CoverInv
  <2>. QED  BY <2>2, <2>3
<1>. QED  BY <1>1, <1>2, <1>3

\* The keys of the victims once one more is recorded
LEMMA VictimKeysAppend ==
    ASSUME PolicyTypeOK, NEW v \in Pairs(Nat), victims' = Append(victims, v)
    PROVE  VictimKeys' = VictimKeys \cup {v.key}
<1>1. victims \in Seq(Pairs(Nat))
  BY DEF PolicyTypeOK
<1>2. /\ DOMAIN victims = 1..Len(victims) /\ Len(victims) \in Nat
      /\ DOMAIN victims' = 1..(Len(victims) + 1)
      /\ \A i \in 1..Len(victims) : victims'[i] = victims[i]
      /\ victims'[Len(victims) + 1] = v
  BY <1>1
<1>3. \A i \in DOMAIN victims' : victims'[i].key \in VictimKeys \cup {v.key}
  BY <1>2 DEF VictimKeys
<1>4. \A i \in DOMAIN victims : victims[i].key \in VictimKeys'
  BY <1>2 DEF VictimKeys
<1>5. v.key \in VictimKeys'
  BY <1>2 DEF VictimKeys
<1>. QED  BY <1>3, <1>4, <1>5 DEF VictimKeys

\* The keys of the victims that remain once the first is gone
LEMMA VictimKeysTail ==
    ASSUME PolicyTypeOK, victims # <<>>, victims' = Tail(victims)
    PROVE  /\ VictimKeys \subseteq VictimKeys' \cup {Head(victims).key}
           /\ Len(victims) = 1 => VictimKeys = {Head(victims).key}
<1>1. victims \in Seq(Pairs(Nat))
  BY DEF PolicyTypeOK
<1>2. /\ DOMAIN victims = 1..Len(victims) /\ Len(victims) \in Nat \ {0}
      /\ DOMAIN victims' = 1..(Len(victims) - 1)
      /\ \A i \in 1..(Len(victims) - 1) : victims'[i] = victims[i + 1]
      /\ Head(victims) = victims[1]
  BY <1>1
<1>3. ASSUME NEW i \in DOMAIN victims, i # 1
      PROVE  victims[i].key \in VictimKeys'
  <2>1. i - 1 \in DOMAIN victims' /\ victims'[i - 1] = victims[i]
    BY <1>2, <1>3
  <2>. QED  BY <2>1 DEF VictimKeys
<1>. QED  BY <1>2, <1>3 DEF VictimKeys

\* The stored keys the policy does not know are those the processor still has to
\* delete, after each of its steps.
LEMMA ProcessorCoverStep ==
    ASSUME NoCollision, CacheTypeOK, AddInv, CoverInv,
           ReceiveItem \/ Process \/ CleanupStart
    PROVE  DOMAIN data' \subseteq DOMAIN keyCosts' \cup Uncovered'
<1>0. /\ PolicyTypeOK /\ StoreTypeOK /\ ChanTypeOK /\ pitem \in Items
      /\ DOMAIN data \subseteq DOMAIN keyCosts \cup Uncovered
  BY ProcessorControl DEF CacheTypeOK, ProcTypeOK, CoverInv
<1>. USE DEF Uncovered
<1>1. CASE ReceiveItem
  <2>1. /\ UNCHANGED data /\ pp = "select" /\ Head(setBuf) \in Items
    BY <1>0, <1>1, TailType DEF ReceiveItem, ReceiveWait, ReceiveNew, ReceiveUpdate,
       ReceiveDelete, ReceiveFlag, Receive, storeVars
  <2>2. Head(setBuf).key \in Hashes /\ ItemCost(Head(setBuf)) \in Nat
    BY <2>1, ItemFields, ItemCostType
  <2>3. CASE ReceiveWait
    BY <1>0, <2>1, <2>3 DEF ReceiveWait, policyVars, procVars
  <2>4. CASE ReceiveNew
    BY <1>0, <2>1, <2>2, <2>4, AddCallType DEF ReceiveNew
  <2>5. CASE ReceiveUpdate
    BY <1>0, <2>1, <2>2, <2>5, PolicyUpdateType DEF ReceiveUpdate, procVars
  <2>6. CASE ReceiveDelete
    <3>1. DOMAIN keyCosts' = DOMAIN keyCosts \ {Head(setBuf).key}
      BY <1>0, <2>6, PolicyDelType DEF ReceiveDelete
    <3>. QED  BY <1>0, <2>1, <2>6, <3>1 DEF ReceiveDelete
  <2>. QED  BY <1>1, <2>3, <2>4, <2>5, <2>6 DEF ReceiveItem
<1>2. CASE Admit
  <2>1. /\ pp = "add" /\ UNCHANGED <<data, pp>> /\ AddStep
    BY <1>2 DEF Admit, storeVars, procVars
  <2>2. CASE UNCHANGED <<keyCosts, victims>>
    BY <1>0, <2>1, <2>2 DEF VictimKeys
  <2>3. CASE DOMAIN keyCosts' = DOMAIN keyCosts \cup {addArg.key} /\ UNCHANGED victims
    BY <1>0, <2>1, <2>3 DEF VictimKeys
  <2>4. CASE \E v \in Pairs(Nat) : /\ DOMAIN keyCosts' = DOMAIN keyCosts \ {v.key}
                                   /\ victims' = Append(victims, v)
    BY <1>0, <2>1, <2>4, VictimKeysAppend
  <2>. QED  BY <1>0, <2>1, <2>2, <2>3, <2>4, AddStepType
<1>3. CASE Added \/ Rejected
  <2>1. /\ pp = "add" /\ UNCHANGED <<keyCosts, victims>>
        /\ pp' = IF victims = <<>> THEN "select" ELSE "victims"
    BY <1>3 DEF Added, Rejected, LeaveAdd
  <2>2. DOMAIN data' \subseteq DOMAIN keyCosts \cup VictimKeys
    <3>1. CASE Added
      <4>1. DOMAIN data' = DOMAIN data \cup {pitem.key}
        BY <1>0, <3>1, StoreSetType DEF Added, LeaveAdd
      <4>2. pitem.key \in DOMAIN keyCosts
        BY <3>1 DEF Added, LeaveAdd, AddInv
      <4>. QED  BY <1>0, <2>1, <4>1, <4>2
    <3>2. CASE Rejected
      BY <1>0, <2>1, <3>2 DEF Rejected, storeVars
    <3>. QED  BY <1>3, <3>1, <3>2
  <2>3. victims = <<>> => VictimKeys = {}
    BY DEF VictimKeys
  <2>4. VictimKeys' = VictimKeys
    BY <2>1 DEF VictimKeys
  <2>. QED  BY <2>1, <2>2, <2>3, <2>4
<1>4. CASE EvictVictim
  <2>1. /\ pp = "victims" /\ victims # <<>> /\ victims' = Tail(victims) /\ UNCHANGED keyCosts
        /\ pp' = IF Len(victims) = 1 THEN "select" ELSE "victims"
    BY <1>4 DEF EvictVictim, AddInv
  <2>2. DOMAIN data' \subseteq DOMAIN data \ {Head(victims).key}
    <3>1. Head(victims).key \in DOMAIN data => Held(Head(victims).key, 0)
      BY DEF Held, Matches
    <3>2. /\ DOMAIN data' \subseteq DOMAIN data
          /\ Held(Head(victims).key, 0) => DOMAIN data' = DOMAIN data \ {Head(victims).key}
      BY <1>0, <1>4, StoreDelType DEF EvictVictim
    <3>. QED  BY <3>1, <3>2
  <2>3. DOMAIN data \subseteq DOMAIN keyCosts \cup VictimKeys
    BY <1>0, <2>1
  <2>4. /\ VictimKeys \subseteq VictimKeys' \cup {Head(victims).key}
        /\ Len(victims) = 1 => VictimKeys = {Head(victims).key}
    BY <1>0, <2>1, VictimKeysTail
  <2>. QED  BY <2>1, <2>2, <2>3, <2>4
<1>5. CASE DeleteStored \/ CleanupDel
  <2>1. /\ pp \in {"delStore", "cleanDel"} /\ UNCHANGED keyCosts
        /\ pp' \in {"select", "clean"}
    BY <1>5 DEF DeleteStored, CleanupDel, policyVars
  <2>2. DOMAIN data' \subseteq DOMAIN data \ {pitem.key}
    <3>1. pitem.key \in DOMAIN data => Held(pitem.key, pitem.conflict)
      BY <1>0, ItemFields, SameKeyHeld
    <3>2. /\ DOMAIN data' \subseteq DOMAIN data
          /\ Held(pitem.key, pitem.conflict) => DOMAIN data' = DOMAIN data \ {pitem.key}
      BY <1>0, <1>5, StoreDelType DEF DeleteStored, CleanupDel
    <3>. QED  BY <3>1, <3>2
  <2>. QED  BY <1>0, <2>1, <2>2
<1>6. CASE CleanupCheck
  <2>1. pp = "clean" /\ UNCHANGED data
    BY <1>6 DEF CleanupCheck, storeVars
  <2>2. CASE pp' \in {"select", "clean"} /\ UNCHANGED keyCosts
    BY <1>0, <2>1, <2>2
  <2>3. CASE \E w \in work : pp' = "cleanDel" /\ pitem'.key = w.key /\ PolicyDel(w.key)
    <3>1. PICK w \in work : pp' = "cleanDel" /\ pitem'.key = w.key /\ PolicyDel(w.key)
      BY <2>3
    <3>2. DOMAIN keyCosts' = DOMAIN keyCosts \ {w.key}
      BY <1>0, <3>1, PolicyDelType
    <3>. QED  BY <1>0, <2>1, <3>1, <3>2
  <2>4. ASSUME NEW w
        PROVE  [WaitItem(NoClient) EXCEPT !.key = w.key, !.conflict = w.conflict].key = w.key
    BY DEF WaitItem, NewItem
  <2>. QED  BY <1>6, <2>2, <2>3, <2>4 DEF CleanupCheck, policyVars
<1>7. CASE CleanupStart
  BY <1>0, <1>7 DEF CleanupStart, emExtract, policyVars
<1>. QED  BY <1>1, <1>2, <1>3, <1>4, <1>5, <1>6, <1>7 DEF Process

\* CoverInv is inductive.
LEMMA CoverStep ==
    ASSUME NoCollision, CacheTypeOK, AddInv, StopInv, CoverInv, [Next]_cacheVars
    PROVE  CoverInv'
<1>1. CASE ReceiveItem \/ Process \/ CleanupStart
  <2>1. UNCHANGED <<pc, shards>> /\ pp # "dead"
    BY <1>1, ProcessorControl
  <2>2. \A c \in Clients : pc[c] \notin Stopped
    BY <2>1 DEF StopInv
  <2>3. DOMAIN data' \subseteq DOMAIN keyCosts' \cup Uncovered'
    BY <1>1, ProcessorCoverStep
  <2>. QED  BY <2>1, <2>2, <2>3 DEF CoverInv, Stopped
<1>2. CASE AdvanceTime \/ UNCHANGED cacheVars
  <2>1. UNCHANGED <<data, keyCosts, pp, pitem, victims, pc, shards>>
    BY <1>2 DEF AdvanceTime, cacheVars, storeVars, policyVars, procVars, clientVars
  <2>. QED  BY <2>1 DEF CoverInv, Uncovered, VictimKeys
<1>3. ASSUME NEW c \in Clients, Invoke(c) \/ Continue(c)
      PROVE  CoverInv'
  <2>1. DOMAIN data' \subseteq DOMAIN data
    BY <1>3, ClientStepData
  <2>2. UNCHANGED <<victims, pitem>>
    BY <1>3, ClientStepControl
  <2>3. ASSUME pp' # "dead"
        PROVE  DOMAIN data' \subseteq DOMAIN keyCosts' \cup Uncovered'
    <3>1. CASE pc[c] = "restart" /\ pp' = "select"
      <4>1. DOMAIN data = {}
        BY <3>1 DEF CoverInv
      <4>. QED  BY <2>1, <4>1
    <3>2. CASE UNCHANGED pp
      <4>1. pc[c] # "policyClear"
        BY <2>3, <3>2 DEF StopInv, Stopped
      <4>2. UNCHANGED keyCosts
        BY <1>3, <4>1, ClientStepControl
      <4>3. Uncovered' = Uncovered
        BY <2>2, <3>2 DEF Uncovered, VictimKeys
      <4>4. DOMAIN data \subseteq DOMAIN keyCosts \cup Uncovered
        BY <2>3, <3>2 DEF CoverInv
      <4>. QED  BY <2>1, <4>2, <4>3, <4>4
    <3>. QED  BY <1>3, <2>3, <3>1, <3>2, ClientStepControl
  <2>. QED  BY <1>3, <2>3, ClearCoverStep DEF CoverInv
<1>. QED  BY <1>1, <1>2, <1>3, NextCases

\* As long as no two keys collide in their first hash, every stored entry is known
\* to the policy whenever the processor is at its select: for any clients, calls,
\* costs and times to live, and however Set, Del, Clear, Close, eviction and the
\* cleanup of expired entries interleave.
THEOREM StoreCovered == NoCollision => (Spec => []StoreWithinPolicy)
<1>. SUFFICES ASSUME NoCollision PROVE Spec => []StoreWithinPolicy
  OBVIOUS
<1>. DEFINE IInv == CacheTypeOK /\ AddInv /\ StopInv /\ CoverInv
<1>1. Init => IInv
  BY ControlInit
<1>2. IInv /\ [Next]_cacheVars => IInv'
  BY ControlStep, CoverStep
<1>3. IInv => StoreWithinPolicy
  BY DEF CoverInv, Uncovered, StoreWithinPolicy, Quiet
<1>. QED  BY <1>1, <1>2, <1>3, PTL DEF Spec

\* What is said of the cover while a Clear runs: the shards it has yet to empty hold
\* all that is left of the store.
THEOREM ClearCovers == NoCollision => (Spec => []CoverInv)
<1>. SUFFICES ASSUME NoCollision PROVE Spec => []CoverInv
  OBVIOUS
<1>. DEFINE IInv == CacheTypeOK /\ AddInv /\ StopInv /\ CoverInv
<1>1. Init => IInv
  BY ControlInit
<1>2. IInv /\ [Next]_cacheVars => IInv'
  BY ControlStep, CoverStep
<1>. QED  BY <1>1, <1>2, PTL DEF Spec

-----------------------------------------------------------------------------
(* No cost is charged for an absent key *)

\* Add never evicts the key it adds: the key is not tracked until it is admitted,
\* so that no sample names it; and a victim is not tracked.
AddApart ==
    /\ addPc \in {"room", "evict"} =>
          /\ addArg.key \notin DOMAIN keyCosts \cup VictimKeys
          /\ \A i \in DOMAIN sample : sample[i].key # addArg.key
    /\ addPc \notin {"room", "evict"} => sample = <<>>
    /\ pp \in {"add", "victims"} => VictimKeys \cap DOMAIN keyCosts = {}

\* A tracked key is stored, unless its deletion is on its way or Add has just
\* admitted it; what the processor is about to delete from the store it has taken out
\* of the policy.
GhostInv ==
    /\ AddApart
    /\ pp \in {"delStore", "cleanDel"} => pitem.key \notin DOMAIN keyCosts
    /\ \A c \in Clients :
          /\ pc[c] \in {"clearShards", "emClear", "restart"} => DOMAIN keyCosts = {}
          /\ pc[c] \in {"del", "sendDel"} => cur[c].flag = "delete"
    /\ pp # "dead" => \A h \in DOMAIN keyCosts \ DOMAIN data :
                          DeletePending(h) \/ (addPc = "added" /\ h = addArg.key)

\* fillSample adds tracked keys to the sample.
LEMMA FillSampleKeys ==
    ASSUME PolicyTypeOK, NEW s \in fillSample, NEW i \in DOMAIN s
    PROVE  s[i].key \in DOMAIN keyCosts \/ \E j \in DOMAIN sample : s[i] = sample[j]
<1>. DEFINE free == LfuSample - Len(sample)
<1>1. sample \in Seq(Pairs(Nat)) /\ Len(sample) \in Nat
  BY DEF PolicyTypeOK
<1>2. PICK r \in UNION {KeyOrders(n) : n \in 0..free} :
         s = sample \o [j \in DOMAIN r |-> [key |-> r[j], cost |-> keyCosts[r[j]]]]
  BY DEF fillSample
<1>3. PICK n \in 0..free : r \in [1..n -> DOMAIN keyCosts]
  BY <1>2 DEF KeyOrders
<1>4. n \in Nat
  BY <1>1, <1>3, PolicyConstants DEF PolicyTypeOK
<1>. DEFINE new == [j \in 1..n |-> [key |-> r[j], cost |-> keyCosts[r[j]]]]
<1>5. s = sample \o new
  BY <1>2, <1>3
<1>6. new \in [1..n -> Pairs(Nat)]
  BY <1>3 DEF PolicyTypeOK, IsMap, Pairs
<1>7. new \in Seq(Pairs(Nat)) /\ Len(new) = n
  <2>. HIDE DEF new
  <2>. QED  BY <1>4, <1>6
<1>8. \A j \in 1..n : new[j].key \in DOMAIN keyCosts
  BY <1>3
<1>. HIDE DEF new
<1>9. DOMAIN s = 1..(Len(sample) + n)
  <2>1. s \in Seq(Pairs(Nat)) /\ Len(s) = Len(sample) + n
    BY <1>1, <1>5, <1>7, ConcatProperties
  <2>. QED  BY <2>1, LenProperties
<1>10. CASE i <= Len(sample)
  <2>1. s[i] = sample[i] /\ i \in DOMAIN sample
    BY <1>1, <1>4, <1>5, <1>7, <1>9, <1>10
  <2>. QED  BY <2>1
<1>11. CASE i > Len(sample)
  <2>. DEFINE j == i - Len(sample)
  <2>1. s[i] = new[j] /\ j \in 1..n
    BY <1>1, <1>4, <1>5, <1>7, <1>9, <1>11
  <2>. QED  BY <1>8, <2>1
<1>12. i \in Int
  BY <1>9
<1>. QED  BY <1>1, <1>10, <1>11, <1>12

\* The steps of Add
LEMMA AdmitApart ==
    ASSUME PolicyTypeOK, AddApart, pp = "add", pp' = "add", AddStep
    PROVE  AddApart'
<1>0. UNCHANGED addArg /\ VictimKeys \cap DOMAIN keyCosts = {}
  BY AddStepType DEF AddApart
<1>1. CASE AddFits
  <2>1. /\ addPc = "room" /\ addPc' = "added" /\ sample' = <<>> /\ victims' = victims
        /\ DOMAIN keyCosts' = DOMAIN keyCosts \cup {addArg.key}
    BY <1>1 DEF AddFits, AddDone, evictAdd, Put
  <2>. QED  BY <1>0, <2>1 DEF AddApart, VictimKeys
<1>2. CASE AddNoRoom
  BY <1>0, <1>2 DEF AddNoRoom, AddApart, VictimKeys
<1>3. CASE AddReject
  BY <1>0, <1>3 DEF AddReject, AddDone, AddApart, VictimKeys
<1>4. CASE AddEvict
  <2>1. PICK s \in fillSample : \E i \in DOMAIN s : EvictMin(s, i)
    BY <1>4 DEF AddEvict
  <2>2. PICK i \in DOMAIN s : EvictMin(s, i)
    BY <2>1
  <2>3. s \in Seq(Pairs(Nat))
    BY FillSampleType
  <2>4. \A j \in DOMAIN s : s[j].key # addArg.key
    BY <1>4, FillSampleKeys DEF AddApart, AddEvict
  <2>5. /\ addPc = "evict" /\ addPc' = "room" /\ evictDel(s[i].key)
        /\ sample' = DropFromSample(s, i) /\ victims' = Append(victims, s[i])
    BY <1>4, <2>2 DEF AddEvict, EvictMin
  <2>6. s[i] \in Pairs(Nat)
    BY <2>3
  <2>7. VictimKeys' = VictimKeys \cup {s[i].key}
    BY <2>5, <2>6, VictimKeysAppend
  <2>8. DOMAIN keyCosts' = DOMAIN keyCosts \ {s[i].key}
    BY <2>5, EvictDelType
  <2>9. \A j \in DOMAIN sample' : sample'[j].key # addArg.key
    <3>1. DOMAIN s = 1..Len(s) /\ Len(s) \in Nat \ {0}
      BY <2>3
    <3>2. \A j \in DOMAIN sample' : \E l \in DOMAIN s : sample'[j] = s[l]
      BY <2>5, <3>1 DEF DropFromSample
    <3>. QED  BY <2>4, <3>2
  <2>. QED  BY <1>0, <2>4, <2>5, <2>7, <2>8, <2>9 DEF AddApart
<1>. QED  BY <1>1, <1>2, <1>3, <1>4 DEF AddStep

\* A send keeps the deletions in the buffer, and adds one if it sends one.
LEMMA SendPending ==
    ASSUME ChanTypeOK, NEW i \in Items, setBuf' = Append(setBuf, i)
    PROVE  /\ \A j \in DOMAIN setBuf : j \in DOMAIN setBuf' /\ setBuf'[j] = setBuf[j]
           /\ \E j \in DOMAIN setBuf' : setBuf'[j] = i
<1>1. setBuf \in Seq(Items)
  BY DEF ChanTypeOK
<1>2. /\ DOMAIN setBuf = 1..Len(setBuf) /\ Len(setBuf) \in Nat
      /\ DOMAIN setBuf' = 1..(Len(setBuf) + 1)
      /\ \A j \in 1..Len(setBuf) : setBuf'[j] = setBuf[j]
      /\ setBuf'[Len(setBuf) + 1] = i
  BY <1>1
<1>3. Len(setBuf) + 1 \in DOMAIN setBuf'
  BY <1>2
<1>. QED  BY <1>2, <1>3

\* A client deletes from the store only what it is going to tell the processor, and
\* takes no deletion back, unless the processor is stopped.
LEMMA ClientPending ==
    ASSUME CacheTypeOK, StopInv, NEW c \in Clients, Invoke(c) \/ Continue(c),
           pc[c] = "sendDel" => cur[c].flag = "delete", pp # "dead"
    PROVE  /\ \A h : DeletePending(h) => DeletePending(h)'
           /\ \A h \in DOMAIN data \ DOMAIN data' : DeletePending(h)'
<1>0. /\ pc \in [Clients -> ClientPcs] /\ cur \in [Clients -> Items] /\ cur[c] \in Items
      /\ ChanTypeOK /\ StoreTypeOK /\ pc[c] \notin Stopped
  BY DEF CacheTypeOK, ClientTypeOK, StopInv
<1>2. CASE Invoke(c)
  <2>1. /\ UNCHANGED <<data, setBuf>> /\ pc[c] = "idle"
        /\ \A d \in Clients \ {c} : pc'[d] = pc[d] /\ cur'[d] = cur[d]
    BY <1>0, <1>2 DEF Invoke, SetInvoke, DelInvoke, Get, GetTTLInvoke, WaitInvoke,
       ClearInvoke, CloseInvoke, ChangeMaxCost, Call, Goto, clientVars, chanVars, storeVars
  <2>2. \A d \in Clients : pc[d] = "sendDel" => pc'[d] = pc[d] /\ cur'[d] = cur[d]
    BY <2>1
  <2>. QED  BY <2>1, <2>2 DEF DeletePending
<1>3. CASE SetUpdate(c)
  <2>1. DOMAIN data' = DOMAIN data
    BY <1>0, <1>3, StoreUpdateType DEF SetUpdate
  <2>2. /\ UNCHANGED setBuf /\ pc[c] = "update"
        /\ \A d \in Clients \ {c} : pc'[d] = pc[d] /\ cur'[d] = cur[d]
    BY <1>0, <1>3 DEF SetUpdate, Goto, chanVars
  <2>3. \A d \in Clients : pc[d] = "sendDel" => pc'[d] = pc[d] /\ cur'[d] = cur[d]
    BY <2>2
  <2>. QED  BY <2>1, <2>2, <2>3 DEF DeletePending
<1>4. CASE DelStore(c)
  <2>1. /\ UNCHANGED setBuf /\ pc[c] = "del" /\ pc'[c] = "sendDel" /\ UNCHANGED cur
        /\ \A d \in Clients \ {c} : pc'[d] = pc[d]
    BY <1>0, <1>4 DEF DelStore, Goto, chanVars
  <2>2. \A h \in DOMAIN data \ DOMAIN data' : h = cur[c].key
    BY <1>4 DEF DelStore, StoreDel, Remove, storeVars
  <2>3. \A d \in Clients : pc[d] = "sendDel" => pc'[d] = pc[d] /\ cur'[d] = cur[d]
    BY <2>1
  <2>. QED  BY <2>1, <2>2, <2>3 DEF DeletePending
<1>5. CASE SetSend(c) \/ DelSend(c) \/ WaitSend(c)
  <2>1. /\ UNCHANGED data
        /\ pc[c] \in {"send", "sendDel", "sendWait"}
        /\ \A d \in Clients \ {c} : pc'[d] = pc[d] /\ cur'[d] = cur[d]
        /\ \/ UNCHANGED <<setBuf, pc, cur>>
           \/ setBuf' = Append(setBuf, cur[c])
           \/ UNCHANGED setBuf /\ pc[c] = "send"
    BY <1>0, <1>5 DEF SetSend, DelSend, WaitSend, SendItem, Send, Return, Block, Goto,
       storeVars
  <2>2. CASE setBuf' = Append(setBuf, cur[c])
    <3>1. /\ \A j \in DOMAIN setBuf : j \in DOMAIN setBuf' /\ setBuf'[j] = setBuf[j]
          /\ \E j \in DOMAIN setBuf' : setBuf'[j] = cur[c]
      BY <1>0, <2>2, SendPending
    <3>. QED  BY <2>1, <3>1 DEF DeletePending
  <2>3. CASE UNCHANGED setBuf /\ (pc[c] = "send" \/ UNCHANGED <<pc, cur>>)
    <3>1. \A d \in Clients : pc[d] = "sendDel" => pc'[d] = pc[d] /\ cur'[d] = cur[d]
      BY <2>1, <2>3
    <3>. QED  BY <2>1, <2>3, <3>1 DEF DeletePending
  <2>. QED  BY <2>1, <2>2, <2>3
<1>6. CASE WaitReturn(c) \/ GetTTLRead(c)
  <2>1. /\ UNCHANGED <<data, setBuf>> /\ pc[c] \in {"waiting", "ttl"}
        /\ \A d \in Clients \ {c} : pc'[d] = pc[d] /\ cur'[d] = cur[d]
    BY <1>0, <1>6 DEF WaitReturn, GetTTLRead, Return, Goto, chanVars, storeVars
  <2>2. \A d \in Clients : pc[d] = "sendDel" => pc'[d] = pc[d] /\ cur'[d] = cur[d]
    BY <2>1
  <2>. QED  BY <2>1, <2>2 DEF DeletePending
<1>7. CASE CloseClear(c) \/ ClearStop(c) \/ CloseStop(c)
  <2>1. /\ UNCHANGED <<data, setBuf, cur>> /\ pc[c] \in {"closeClear", "stop", "closeStop"}
        /\ \A d \in Clients \ {c} : pc'[d] = pc[d]
    BY <1>0, <1>7 DEF CloseClear, ClearStop, CloseStop, StopProcessor, Goto, chanVars,
       storeVars
  <2>2. \A d \in Clients : pc[d] = "sendDel" => pc'[d] = pc[d] /\ cur'[d] = cur[d]
    BY <2>1
  <2>. QED  BY <2>1, <2>2 DEF DeletePending
<1>8. ~Drain(c) /\ ~ClearPolicy(c) /\ ~ClearShards(c) /\ ~ClearExpiry(c) /\ ~ClearRestart(c)
      /\ ~CloseChans(c) /\ ~CloseDone(c)
  BY <1>0 DEF Drain, ClearPolicy, ClearShards, ClearExpiry, ClearRestart, CloseChans,
     CloseDone, Stopped
<1>. QED  BY <1>2, <1>3, <1>4, <1>5, <1>6, <1>7, <1>8 DEF Continue

\* The deletions the processor has not received stay pending.
LEMMA TailPending ==
    ASSUME ChanTypeOK, setBuf # <<>>, setBuf' = Tail(setBuf), UNCHANGED <<pc, cur>>,
           NEW h, DeletePending(h), ~(Head(setBuf).flag = "delete" /\ Head(setBuf).key = h)
    PROVE  DeletePending(h)'
<1>1. setBuf \in Seq(Items)
  BY DEF ChanTypeOK
<1>2. /\ DOMAIN setBuf = 1..Len(setBuf) /\ Len(setBuf) \in Nat \ {0}
      /\ DOMAIN setBuf' = 1..(Len(setBuf) - 1)
      /\ \A i \in 1..(Len(setBuf) - 1) : setBuf'[i] = setBuf[i + 1]
      /\ Head(setBuf) = setBuf[1]
  BY <1>1
<1>3. ASSUME NEW i \in DOMAIN setBuf, setBuf[i].flag = "delete", setBuf[i].key = h
      PROVE  \E j \in DOMAIN setBuf' : setBuf'[j].flag = "delete" /\ setBuf'[j].key = h
  <2>1. i # 1
    BY <1>2, <1>3
  <2>2. i - 1 \in DOMAIN setBuf' /\ setBuf'[i - 1] = setBuf[i]
    BY <1>2, <2>1
  <2>. QED  BY <1>3, <2>2
<1>. QED  BY <1>3 DEF DeletePending

\* A step of a client keeps GhostInv.
LEMMA ClientGhost ==
    ASSUME CacheTypeOK, AddInv, StopInv, GhostInv, NEW c \in Clients, Invoke(c) \/ Continue(c)
    PROVE  GhostInv'
<1>0. /\ pc \in [Clients -> ClientPcs] /\ cur \in [Clients -> Items]
      /\ UNCHANGED <<addPc, addArg, victims, pitem>>
      /\ \A d \in Clients \ {c} : pc'[d] = pc[d]
  BY ClientStepControl, ClientStepPc DEF CacheTypeOK, ClientTypeOK
<1>1. UNCHANGED sample
  <2>1. CASE Invoke(c)
    BY <2>1 DEF Invoke, SetInvoke, DelInvoke, Get, GetTTLInvoke, WaitInvoke, ClearInvoke,
       CloseInvoke, ChangeMaxCost, UpdateMaxCost, policyVars, addVars
  <2>2. CASE Continue(c)
    BY <2>2 DEF Continue, SetUpdate, SetSend, DelStore, DelSend, WaitSend, SendItem,
       WaitReturn, GetTTLRead, CloseClear, ClearStop, CloseStop, StopProcessor, Drain,
       ClearPolicy, PolicyClear, ClearShards, ClearExpiry, ClearRestart, CloseChans,
       CloseDone, policyVars, addVars
  <2>. QED  BY <2>1, <2>2
<1>2. /\ \A d \in Clients \ {c} : cur'[d] = cur[d]
      /\ pc'[c] \in {"del", "sendDel"} => cur'[c].flag = "delete"
      /\ pc'[c] \in {"clearShards", "emClear", "restart"} =>
            \/ DOMAIN keyCosts' = {}
            \/ pc[c] \in {"clearShards", "emClear", "restart"}
  <2>1. CASE Invoke(c)
    BY <1>0, <2>1 DEF Invoke, SetInvoke, DelInvoke, Get, GetTTLInvoke, WaitInvoke,
       ClearInvoke, CloseInvoke, ChangeMaxCost, Call, Goto, NewItem, clientVars
  <2>2. CASE SetUpdate(c) \/ SetSend(c) \/ DelStore(c) \/ DelSend(c) \/ WaitSend(c)
             \/ WaitReturn(c) \/ GetTTLRead(c)
    BY <1>0, <2>2 DEF SetUpdate, SetSend, DelStore, DelSend, WaitSend, SendItem, WaitReturn,
       GetTTLRead, Return, Block, Goto, GhostInv
  <2>3. CASE CloseClear(c) \/ ClearStop(c) \/ CloseStop(c) \/ CloseChans(c) \/ CloseDone(c)
    BY <1>0, <2>3 DEF CloseClear, ClearStop, CloseStop, StopProcessor, CloseChans, CloseDone,
       Goto
  <2>4. CASE Drain(c) \/ ClearShards(c) \/ ClearExpiry(c) \/ ClearRestart(c)
    BY <1>0, <2>4 DEF Drain, ClearShards, ClearExpiry, ClearRestart, Goto
  <2>5. CASE ClearPolicy(c)
    BY <1>0, <2>5 DEF ClearPolicy, PolicyClear, EmptyMap, Goto
  <2>. QED  BY <2>1, <2>2, <2>3, <2>4, <2>5 DEF Continue
<1>3. UNCHANGED keyCosts \/ DOMAIN keyCosts' = {}
  <2>1. CASE ClearPolicy(c)
    BY <2>1 DEF ClearPolicy, PolicyClear, EmptyMap
  <2>2. CASE ~ClearPolicy(c)
    <3>1. CASE Invoke(c)
      BY <3>1 DEF Invoke, SetInvoke, DelInvoke, Get, GetTTLInvoke, WaitInvoke, ClearInvoke,
         CloseInvoke, ChangeMaxCost, UpdateMaxCost, policyVars
    <3>2. CASE Continue(c)
      BY <2>2, <3>2 DEF Continue, SetUpdate, SetSend, DelStore, DelSend, WaitSend, SendItem,
         WaitReturn, GetTTLRead, CloseClear, ClearStop, CloseStop, StopProcessor, Drain,
         ClearShards, ClearExpiry, ClearRestart, CloseChans, CloseDone, policyVars
    <3>. QED  BY <3>1, <3>2
  <2>. QED  BY <2>1, <2>2
<1>4. \/ UNCHANGED pp
      \/ pp = "select" /\ pp' = "dead"
      \/ pc[c] = "restart" /\ pp' = "select" /\ pp = "dead"
  BY ClientStepControl DEF StopInv, Stopped
<1>5. AddApart'
  BY <1>0, <1>1, <1>3, <1>4 DEF GhostInv, AddApart, VictimKeys
<1>6. pp' \in {"delStore", "cleanDel"} => pitem'.key \notin DOMAIN keyCosts'
  BY <1>0, <1>3, <1>4 DEF GhostInv
<1>7. \A d \in Clients :
         /\ pc'[d] \in {"clearShards", "emClear", "restart"} => DOMAIN keyCosts' = {}
         /\ pc'[d] \in {"del", "sendDel"} => cur'[d].flag = "delete"
  BY <1>0, <1>2, <1>3 DEF GhostInv
<1>8. ASSUME pp' # "dead", NEW h \in DOMAIN keyCosts' \ DOMAIN data'
      PROVE  DeletePending(h)' \/ (addPc' = "added" /\ h = addArg'.key)
  <2>1. h \in DOMAIN keyCosts /\ UNCHANGED keyCosts
    BY <1>3, <1>8
  <2>2. CASE pc[c] = "restart"
    BY <2>1, <2>2 DEF GhostInv
  <2>3. CASE pp # "dead"
    <3>1. /\ \A g : DeletePending(g) => DeletePending(g)'
          /\ \A g \in DOMAIN data \ DOMAIN data' : DeletePending(g)'
      BY <2>3, ClientPending DEF GhostInv
    <3>2. CASE h \in DOMAIN data
      BY <1>8, <3>1, <3>2
    <3>3. CASE h \notin DOMAIN data
      BY <1>0, <2>1, <2>3, <3>1, <3>3 DEF GhostInv
    <3>. QED  BY <3>2, <3>3
  <2>. QED  BY <1>4, <1>8, <2>2, <2>3
<1>. QED  BY <1>5, <1>6, <1>7, <1>8 DEF GhostInv

\* A step of the processor keeps GhostInv.
LEMMA ProcessorGhost ==
    ASSUME CacheTypeOK, AddInv, StopInv, GhostInv, ReceiveItem \/ Process \/ CleanupStart
    PROVE  GhostInv'
<1>0. /\ UNCHANGED <<pc, shards>> /\ pp # "dead"
      /\ PolicyTypeOK /\ StoreTypeOK /\ ChanTypeOK /\ pitem \in Items
      /\ \A h \in DOMAIN keyCosts \ DOMAIN data :
            DeletePending(h) \/ (addPc = "added" /\ h = addArg.key)
  BY ProcessorControl DEF CacheTypeOK, ProcTypeOK, GhostInv
<1>1. \A c \in Clients : pc[c] \notin Stopped
  BY <1>0 DEF StopInv
<1>2. UNCHANGED cur
  BY DEF ReceiveItem, ReceiveWait, ReceiveNew, ReceiveUpdate, ReceiveDelete, Process, Admit,
     Added, Rejected, LeaveAdd, EvictVictim, DeleteStored, CleanupCheck, CleanupDel,
     CleanupStart, ClientsUnchanged, clientVars
<1>3. \A c \in Clients :
         /\ pc'[c] \in {"clearShards", "emClear", "restart"} => DOMAIN keyCosts' = {}
         /\ pc'[c] \in {"del", "sendDel"} => cur'[c].flag = "delete"
  BY <1>0, <1>1, <1>2 DEF GhostInv, Stopped
<1>4. ASSUME UNCHANGED setBuf, NEW h, DeletePending(h)
      PROVE  DeletePending(h)'
  BY <1>0, <1>2, <1>4 DEF DeletePending
<1>5. CASE ReceiveItem
  <2>1. /\ UNCHANGED data /\ pp = "select" /\ setBuf # <<>> /\ setBuf' = Tail(setBuf)
        /\ Head(setBuf) \in Items /\ addPc = "none"
    BY <1>0, <1>5, TailType DEF ReceiveItem, ReceiveWait, ReceiveNew, ReceiveUpdate,
       ReceiveDelete, ReceiveFlag, Receive, storeVars, AddInv
  <2>2. Head(setBuf).key \in Hashes /\ ItemCost(Head(setBuf)) \in Nat
    BY <2>1, ItemFields, ItemCostType
  <2>3. \A h \in DOMAIN keyCosts \ DOMAIN data :
           (Head(setBuf).flag = "delete" /\ Head(setBuf).key = h) \/ DeletePending(h)'
    BY <1>0, <1>2, <2>1, TailPending
  <2>4. sample = <<>> /\ addPc' = "none" => sample' = <<>>
    BY <1>5, <2>1 DEF GhostInv, AddApart, ReceiveItem, ReceiveWait, ReceiveNew, AddCall,
       ReceiveUpdate, PolicyUpdate, ReceiveDelete, PolicyDel, policyVars, addVars
  <2>5. sample = <<>>
    BY <2>1 DEF GhostInv, AddApart
  <2>6. CASE ReceiveWait
    <3>1. UNCHANGED <<keyCosts, addPc, addArg, victims, sample, pp, pitem>>
      BY <2>6 DEF ReceiveWait, policyVars, procVars
    <3>2. Head(setBuf).flag # "delete"
      BY <2>1, <2>6, ItemFields DEF ReceiveWait
    <3>. QED  BY <1>3, <2>1, <2>3, <2>5, <3>1, <3>2 DEF GhostInv, AddApart
  <2>7. CASE ReceiveNew
    <3>1. /\ DOMAIN keyCosts' = DOMAIN keyCosts /\ pp' = "add" /\ sample' = <<>>
          /\ victims' = <<>> /\ addArg'.key = Head(setBuf).key
          /\ addPc' \in {"rejected", "room"}
          /\ addPc' = "room" => Head(setBuf).key \notin DOMAIN keyCosts
          /\ Head(setBuf).flag = "new"
      BY <1>0, <2>2, <2>5, <2>7, AddCallType DEF ReceiveNew, ReceiveFlag, AddCall
    <3>2. VictimKeys' = {}
      BY <3>1 DEF VictimKeys
    <3>3. AddApart'
      BY <3>1, <3>2 DEF AddApart
    <3>. QED  BY <1>3, <2>1, <2>3, <3>1, <3>3 DEF GhostInv
  <2>8. CASE ReceiveUpdate
    <3>1. /\ DOMAIN keyCosts' = DOMAIN keyCosts
          /\ UNCHANGED <<addPc, addArg, victims, sample, pp, pitem>>
          /\ Head(setBuf).flag = "update"
      BY <1>0, <2>2, <2>8, PolicyUpdateType DEF ReceiveUpdate, ReceiveFlag, PolicyUpdate,
         addVars, procVars
    <3>. QED  BY <1>3, <2>1, <2>3, <2>5, <3>1 DEF GhostInv, AddApart
  <2>9. CASE ReceiveDelete
    <3>1. /\ DOMAIN keyCosts' = DOMAIN keyCosts \ {Head(setBuf).key}
          /\ UNCHANGED <<addPc, sample>> /\ pp' = "delStore" /\ pitem' = Head(setBuf)
      BY <1>0, <2>9, PolicyDelType DEF ReceiveDelete, PolicyDel, addVars
    <3>. QED  BY <1>3, <2>1, <2>3, <2>5, <3>1 DEF GhostInv, AddApart
  <2>. QED  BY <1>5, <2>6, <2>7, <2>8, <2>9 DEF ReceiveItem
<1>6. CASE Admit
  <2>1. /\ pp = "add" /\ pp' = "add" /\ UNCHANGED <<data, setBuf, addArg>> /\ AddStep
    BY <1>0, <1>6, AddStepType DEF Admit, storeVars, procVars
  <2>2. AddApart'
    BY <1>0, <2>1, AdmitApart DEF GhostInv
  <2>3. addPc # "added"
    BY <2>1 DEF AddStep, AddFits, AddNoRoom, AddReject, AddEvict
  <2>4. ASSUME NEW h \in DOMAIN keyCosts' \ DOMAIN data'
        PROVE  DeletePending(h)' \/ (addPc' = "added" /\ h = addArg'.key)
    <3>1. h \in DOMAIN keyCosts \/ (addPc' = "added" /\ h = addArg.key)
      <4>1. \/ DOMAIN keyCosts' \subseteq DOMAIN keyCosts
            \/ DOMAIN keyCosts' = DOMAIN keyCosts \cup {addArg.key} /\ addPc' = "added"
        BY <1>0, <2>1, AddStepType
      <4>. QED  BY <4>1
    <3>. QED  BY <1>0, <1>4, <2>1, <2>3, <3>1
  <2>. QED  BY <1>3, <2>1, <2>2, <2>4 DEF GhostInv
<1>7. CASE Added \/ Rejected
  <2>1. /\ pp = "add" /\ addPc \in {"added", "rejected"} /\ addPc' = "none"
        /\ UNCHANGED <<keyCosts, victims, sample, addArg, setBuf>>
        /\ pp' \in {"select", "victims"}
        /\ addArg.key = pitem.key
    BY <1>7 DEF Added, Rejected, LeaveAdd, AddInv
  <2>2. CASE Added
    <3>1. DOMAIN data' = DOMAIN data \cup {pitem.key}
      BY <1>0, <2>2, StoreSetType DEF Added, LeaveAdd
    <3>. QED  BY <1>0, <1>3, <1>4, <2>1, <3>1 DEF GhostInv, AddApart, VictimKeys
  <2>3. CASE Rejected
    <3>1. UNCHANGED data /\ addPc = "rejected"
      BY <2>3 DEF Rejected, LeaveAdd, storeVars
    <3>. QED  BY <1>0, <1>3, <1>4, <2>1, <3>1 DEF GhostInv, AddApart, VictimKeys
  <2>. QED  BY <1>7, <2>2, <2>3
<1>8. CASE EvictVictim
  <2>1. /\ pp = "victims" /\ victims # <<>> /\ victims' = Tail(victims)
        /\ UNCHANGED <<keyCosts, sample, addArg, addPc, setBuf>> /\ addPc = "none"
        /\ pp' \in {"select", "victims"}
    BY <1>8 DEF EvictVictim, AddInv
  <2>2. \A h \in DOMAIN data \ DOMAIN data' : h = Head(victims).key
    BY <1>8 DEF EvictVictim, StoreDel, Remove, storeVars
  <2>3. Head(victims).key \in VictimKeys /\ VictimKeys' \subseteq VictimKeys
    <3>1. victims \in Seq(Pairs(Nat))
      BY <1>0 DEF PolicyTypeOK
    <3>2. /\ DOMAIN victims = 1..Len(victims) /\ Len(victims) \in Nat \ {0}
          /\ DOMAIN victims' = 1..(Len(victims) - 1)
          /\ \A i \in 1..(Len(victims) - 1) : victims'[i] = victims[i + 1]
          /\ Head(victims) = victims[1]
      BY <2>1, <3>1
    <3>3. Head(victims).key \in VictimKeys
      BY <3>2 DEF VictimKeys
    <3>4. ASSUME NEW i \in DOMAIN victims' PROVE victims'[i].key \in VictimKeys
      <4>1. i + 1 \in DOMAIN victims /\ victims'[i] = victims[i + 1]
        BY <3>2
      <4>. QED  BY <4>1 DEF VictimKeys
    <3>. QED  BY <3>3, <3>4 DEF VictimKeys
  <2>. QED  BY <1>0, <1>3, <1>4, <2>1, <2>2, <2>3 DEF GhostInv, AddApart
<1>9. CASE DeleteStored \/ CleanupDel
  <2>1. /\ pp \in {"delStore", "cleanDel"} /\ UNCHANGED <<keyCosts, addPc, sample, victims,
                                                          addArg, setBuf>>
        /\ pp' \in {"select", "clean"} /\ addPc = "none"
    BY <1>9 DEF DeleteStored, CleanupDel, policyVars, AddInv
  <2>2. \A h \in DOMAIN data \ DOMAIN data' : h = pitem.key
    BY <1>9 DEF DeleteStored, CleanupDel, StoreDel, Remove, storeVars
  <2>. QED  BY <1>0, <1>3, <1>4, <2>1, <2>2 DEF GhostInv, AddApart
<1>10. CASE CleanupCheck
  <2>1. pp = "clean" /\ UNCHANGED <<data, setBuf>> /\ addPc = "none" /\ sample = <<>>
    BY <1>10 DEF CleanupCheck, storeVars, AddInv, GhostInv, AddApart
  <2>2. CASE /\ pp' \in {"select", "clean"}
             /\ UNCHANGED <<keyCosts, addPc, sample, victims, addArg>>
    BY <1>0, <1>3, <1>4, <2>1, <2>2 DEF GhostInv, AddApart
  <2>3. CASE \E w \in work : pp' = "cleanDel" /\ pitem'.key = w.key /\ PolicyDel(w.key)
    <3>1. PICK w \in work : pp' = "cleanDel" /\ pitem'.key = w.key /\ PolicyDel(w.key)
      BY <2>3
    <3>2. DOMAIN keyCosts' = DOMAIN keyCosts \ {w.key} /\ UNCHANGED <<addPc, sample>>
      BY <1>0, <3>1, PolicyDelType DEF PolicyDel, addVars
    <3>. QED  BY <1>0, <1>3, <1>4, <2>1, <3>1, <3>2 DEF GhostInv, AddApart
  <2>4. ASSUME NEW w
        PROVE  [WaitItem(NoClient) EXCEPT !.key = w.key, !.conflict = w.conflict].key = w.key
    BY DEF WaitItem, NewItem
  <2>. QED  BY <1>10, <2>2, <2>3, <2>4 DEF CleanupCheck, policyVars
<1>11. CASE CleanupStart
  <2>1. /\ pp = "select" /\ pp' \in {"select", "clean"} /\ UNCHANGED <<data, setBuf>>
        /\ UNCHANGED <<keyCosts, addPc, sample, victims, addArg>> /\ addPc = "none"
    BY <1>11 DEF CleanupStart, emExtract, policyVars, AddInv
  <2>. QED  BY <1>0, <1>3, <1>4, <2>1 DEF GhostInv, AddApart
<1>. QED  BY <1>5, <1>6, <1>7, <1>8, <1>9, <1>10, <1>11 DEF Process

\* The cost of a key that is not stored is given back: whenever the processor is
\* between two items, such a key has a deletion on its way to it.  Collisions do no
\* harm here.
THEOREM GhostCostsGoAway == Spec => []NoGhostCost
<1>. DEFINE IInv == CacheTypeOK /\ AddInv /\ StopInv /\ GhostInv
<1>1. Init => IInv
  <2>. SUFFICES ASSUME Init PROVE GhostInv
    BY ControlInit
  <2>. QED  BY DEF Init, PolicyInit, EmptyMap, GhostInv, AddApart
<1>2. IInv /\ [Next]_cacheVars => IInv'
  <2>. SUFFICES ASSUME IInv, [Next]_cacheVars PROVE GhostInv'
    BY ControlStep
  <2>1. CASE ReceiveItem \/ Process \/ CleanupStart
    BY <2>1, ProcessorGhost
  <2>2. CASE AdvanceTime \/ UNCHANGED cacheVars
    BY <2>2 DEF AdvanceTime, cacheVars, storeVars, policyVars, procVars, clientVars,
       chanVars, GhostInv, AddApart, VictimKeys, DeletePending
  <2>3. ASSUME NEW c \in Clients, Invoke(c) \/ Continue(c)
        PROVE  GhostInv'
    BY <2>3, ClientGhost
  <2>. QED  BY <2>1, <2>2, <2>3, NextCases
<1>3. IInv => NoGhostCost
  BY DEF GhostInv, NoGhostCost, Quiet, AddInv
<1>. QED  BY <1>1, <1>2, <1>3, PTL DEF Spec

-----------------------------------------------------------------------------
(* The index of expirations *)

In(b, n, h) == n \in DOMAIN b /\ h \in DOMAIN b[n]

Indexed(h) ==
    LET n == storageBucket(data[h].exp)
    IN  In(buckets, n, h) /\ buckets[n][h] = data[h].conflict

\* Nothing is indexed but stored entries that expire, in their bucket.
NoStaleIndex ==
    \A n, h : In(buckets, n, h) =>
        h \in DOMAIN data /\ data[h].exp # ZeroTime /\ storageBucket(data[h].exp) = n

\* The cleanup that is under way has the entry in hand.
Due(h) == \/ \E w \in work : w.key = h /\ w.bucket = storageBucket(data[h].exp)
          \/ pp = "cleanDel" /\ pitem.key = h

IndexInv ==
    /\ pp # "dead" =>
          /\ \A h \in DOMAIN data : data[h].exp # ZeroTime => Indexed(h) \/ Due(h)
          /\ NoStaleIndex
    /\ \A w \in work : w.bucket <= cleanupBucket(cleanNow)
    /\ pp \notin {"clean", "cleanDel"} => work = {}
    /\ \A c \in Clients : pc[c] = "restart" => DOMAIN buckets = {}

\* What expirationMap.del and add do to an entry
LEMMA EmDelIn ==
    ASSUME NEW b, NEW key, NEW exp, NEW n, NEW h
    PROVE  /\ In(emDel(b, key, exp), n, h) <=>
                 In(b, n, h) /\ ~(n = storageBucket(exp) /\ h = key)
           /\ In(emDel(b, key, exp), n, h) => emDel(b, key, exp)[n][h] = b[n][h]
  BY DEF In, emDel, Remove

\* What the expiration map holds after add
LEMMA EmAddIn ==
    ASSUME NEW b, NEW key, NEW conflict, NEW exp, exp # ZeroTime, NEW n, NEW h
    PROVE  /\ In(emAdd(b, key, conflict, exp), n, h) <=>
                 In(b, n, h) \/ (n = storageBucket(exp) /\ h = key)
           /\ In(emAdd(b, key, conflict, exp), n, h) =>
                 emAdd(b, key, conflict, exp)[n][h] =
                     IF n = storageBucket(exp) /\ h = key THEN conflict ELSE b[n][h]
<1>. DEFINE m == storageBucket(exp)
            old == IF m \in DOMAIN b THEN b[m] ELSE EmptyMap
            new == Put(old, key, conflict)
<1>1. emAdd(b, key, conflict, exp) = Put(b, m, new)
  BY DEF emAdd
<1>2. /\ DOMAIN new = DOMAIN old \cup {key} /\ new[key] = conflict
      /\ \A x \in DOMAIN old : x # key => new[x] = old[x]
  BY DEF Put
<1>3. /\ DOMAIN Put(b, m, new) = DOMAIN b \cup {m} /\ Put(b, m, new)[m] = new
      /\ \A x \in DOMAIN b : x # m => Put(b, m, new)[x] = b[x]
  BY DEF Put
<1>4. /\ m \in DOMAIN b => old = b[m]
      /\ m \notin DOMAIN b => DOMAIN old = {}
  BY DEF EmptyMap
<1>. HIDE DEF m, old, new
<1>5. In(Put(b, m, new), n, h) <=> In(b, n, h) \/ (n = m /\ h = key)
  BY <1>2, <1>3, <1>4 DEF In
<1>6. In(Put(b, m, new), n, h) =>
         Put(b, m, new)[n][h] = IF n = m /\ h = key THEN conflict ELSE b[n][h]
  BY <1>2, <1>3, <1>4 DEF In
<1>. QED  BY <1>1, <1>5, <1>6 DEF m

\* After an operation on the store, an entry is as it was and indexed as it was, or
\* it is new and indexed.
IndexKept ==
    /\ NoStaleIndex'
    /\ \A h \in DOMAIN data' : data'[h].exp # ZeroTime =>
          \/ Indexed(h)'
          \/ h \in DOMAIN data /\ data'[h] = data[h] /\ ~Indexed(h)

\* An entry that is stored and indexed together leaves nothing stale.
LEMMA AddIndex ==
    ASSUME NoStaleIndex, NEW i \in Items, data' = Put(data, i.key, Entry(i)),
           \A n, h : /\ In(buckets', n, h) <=>
                          \/ In(buckets, n, h) /\ h # i.key
                          \/ i.exp # ZeroTime /\ n = storageBucket(i.exp) /\ h = i.key
                     /\ In(buckets', n, h) =>
                          buckets'[n][h] = IF h = i.key THEN i.conflict ELSE buckets[n][h]
    PROVE  IndexKept
<1>1. /\ DOMAIN data' = DOMAIN data \cup {i.key} /\ data'[i.key] = Entry(i)
      /\ \A h \in DOMAIN data : h # i.key => data'[h] = data[h]
      /\ Entry(i).exp = i.exp /\ Entry(i).conflict = i.conflict
  BY DEF Put, Entry
<1>2. NoStaleIndex'
  <2>. SUFFICES ASSUME NEW n, NEW h, In(buckets', n, h)
                PROVE  /\ h \in DOMAIN data' /\ data'[h].exp # ZeroTime
                       /\ storageBucket(data'[h].exp) = n
    BY DEF NoStaleIndex, storageBucket, In, ZeroTime
  <2>1. CASE h = i.key
    BY <1>1, <2>1
  <2>2. CASE h # i.key
    <3>1. In(buckets, n, h)
      BY <2>2
    <3>. QED  BY <1>1, <2>2, <3>1 DEF NoStaleIndex
  <2>. QED  BY <2>1, <2>2
<1>3. ASSUME NEW h \in DOMAIN data', data'[h].exp # ZeroTime
      PROVE  Indexed(h)' \/ (h \in DOMAIN data /\ data'[h] = data[h] /\ ~Indexed(h))
  <2>1. CASE h = i.key
    <3>1. /\ In(buckets', storageBucket(i.exp), h)
          /\ buckets'[storageBucket(i.exp)][h] = i.conflict
      BY <1>1, <1>3, <2>1
    <3>2. Indexed(h)'
      BY <1>1, <2>1, <3>1 DEF Indexed, In, storageBucket
    <3>. QED  BY <3>2
  <2>2. CASE h # i.key
    <3>1. h \in DOMAIN data /\ data'[h] = data[h]
      BY <1>1, <2>2
    <3>. DEFINE n == storageBucket(data[h].exp)
    <3>2. ASSUME Indexed(h) PROVE Indexed(h)'
      <4>1. In(buckets, n, h) /\ buckets[n][h] = data[h].conflict
        BY <3>2 DEF Indexed
      <4>2. In(buckets', n, h) /\ buckets'[n][h] = buckets[n][h]
        BY <2>2, <4>1
      <4>. QED  BY <3>1, <4>1, <4>2 DEF Indexed, In, storageBucket
    <3>. QED  BY <3>1, <3>2
  <2>. QED  BY <2>1, <2>2
<1>. QED  BY <1>2, <1>3 DEF IndexKept

\* A step that leaves the store alone
LEMMA SameIndex ==
    ASSUME NoStaleIndex, UNCHANGED <<data, buckets>>
    PROVE  IndexKept
<1>1. NoStaleIndex'
  BY DEF NoStaleIndex, In, storageBucket, ZeroTime
<1>2. \A h : Indexed(h)' <=> Indexed(h)
  BY DEF Indexed, In, storageBucket
<1>. QED  BY <1>1, <1>2 DEF IndexKept

\* The assignment to an entry that exists
LEMMA ReplaceIndex ==
    ASSUME NoStaleIndex, NEW i \in Items, i.key \in DOMAIN data, Replace(i)
    PROVE  IndexKept
<1>. DEFINE old == emDel(buckets, i.key, data[i.key].exp)
<1>1. \A n, h : /\ In(old, n, h) <=> In(buckets, n, h) /\ h # i.key
                /\ In(old, n, h) => old[n][h] = buckets[n][h]
  BY EmDelIn DEF NoStaleIndex
<1>2. buckets' = emAdd(old, i.key, i.conflict, i.exp) /\ data' = Put(data, i.key, Entry(i))
  BY DEF Replace, emUpdate
<1>. HIDE DEF old
<1>3. ASSUME NEW n, NEW h
      PROVE  /\ In(buckets', n, h) <=>
                   \/ In(buckets, n, h) /\ h # i.key
                   \/ i.exp # ZeroTime /\ n = storageBucket(i.exp) /\ h = i.key
             /\ In(buckets', n, h) =>
                   buckets'[n][h] = IF h = i.key THEN i.conflict ELSE buckets[n][h]
  <2>1. CASE i.exp = ZeroTime
    <3>1. buckets' = old
      BY <1>2, <2>1 DEF emAdd
    <3>. QED  BY <1>1, <2>1, <3>1
  <2>2. CASE i.exp # ZeroTime
    <3>1. /\ In(buckets', n, h) <=> In(old, n, h) \/ (n = storageBucket(i.exp) /\ h = i.key)
          /\ In(buckets', n, h) =>
                buckets'[n][h] = IF n = storageBucket(i.exp) /\ h = i.key
                                 THEN i.conflict ELSE old[n][h]
      BY <1>2, <2>2, EmAddIn
    <3>. QED  BY <1>1, <2>2, <3>1
  <2>. QED  BY <2>1, <2>2
<1>. QED  BY <1>2, <1>3, AddIndex

\* Update
LEMMA StoreUpdateIndex ==
    ASSUME NoStaleIndex, NEW i \in Items, StoreUpdate(i)
    PROVE  IndexKept
<1>1. CASE Replaceable(i)
  BY <1>1, ReplaceIndex DEF StoreUpdate, Replaceable, Held
<1>2. CASE ~Replaceable(i)
  BY <1>2, SameIndex DEF StoreUpdate, storeVars
<1>. QED  BY <1>1, <1>2

\* Set
LEMMA StoreSetIndex ==
    ASSUME NoStaleIndex, NEW i \in Items, StoreSet(i)
    PROVE  IndexKept
<1>1. CASE i.key \notin DOMAIN data
  <2>1. /\ buckets' = emAdd(buckets, i.key, i.conflict, i.exp)
        /\ data' = Put(data, i.key, Entry(i))
    BY <1>1 DEF StoreSet
  <2>2. \A n : ~In(buckets, n, i.key)
    BY <1>1 DEF NoStaleIndex
  <2>3. ASSUME NEW n, NEW h
        PROVE  /\ In(buckets', n, h) <=>
                     \/ In(buckets, n, h) /\ h # i.key
                     \/ i.exp # ZeroTime /\ n = storageBucket(i.exp) /\ h = i.key
               /\ In(buckets', n, h) =>
                     buckets'[n][h] = IF h = i.key THEN i.conflict ELSE buckets[n][h]
    <3>1. CASE i.exp = ZeroTime
      <4>1. buckets' = buckets
        BY <2>1, <3>1 DEF emAdd
      <4>. QED  BY <2>2, <3>1, <4>1
    <3>2. CASE i.exp # ZeroTime
      <4>1. /\ In(buckets', n, h) <=>
                  In(buckets, n, h) \/ (n = storageBucket(i.exp) /\ h = i.key)
            /\ In(buckets', n, h) =>
                  buckets'[n][h] = IF n = storageBucket(i.exp) /\ h = i.key
                                   THEN i.conflict ELSE buckets[n][h]
        BY <2>1, <3>2, EmAddIn
      <4>. QED  BY <2>2, <3>2, <4>1
    <3>. QED  BY <3>1, <3>2
  <2>. QED  BY <2>1, <2>3, AddIndex
<1>2. CASE i.key \in DOMAIN data /\ Replaceable(i)
  BY <1>2, ReplaceIndex DEF StoreSet
<1>3. CASE i.key \in DOMAIN data /\ ~Replaceable(i)
  BY <1>3, SameIndex DEF StoreSet, storeVars
<1>. QED  BY <1>1, <1>2, <1>3

\* Del
LEMMA StoreDelIndex ==
    ASSUME NoStaleIndex, NEW key, NEW conflict, StoreDel(key, conflict)
    PROVE  IndexKept
<1>1. CASE Held(key, conflict)
  <2>1. /\ DOMAIN data' = DOMAIN data \ {key}
        /\ \A h \in DOMAIN data' : data'[h] = data[h]
        /\ key \in DOMAIN data
    BY <1>1 DEF StoreDel, Held, Remove
  <2>2. \A n, h : /\ In(buckets', n, h) <=> In(buckets, n, h) /\ h # key
                  /\ In(buckets', n, h) => buckets'[n][h] = buckets[n][h]
    <3>1. CASE data[key].exp = ZeroTime
      BY <1>1, <3>1 DEF StoreDel, NoStaleIndex
    <3>2. CASE data[key].exp # ZeroTime
      <4>1. buckets' = emDel(buckets, key, data[key].exp)
        BY <1>1, <3>2 DEF StoreDel
      <4>. QED  BY <4>1, EmDelIn DEF NoStaleIndex
    <3>. QED  BY <3>1, <3>2
  <2>3. NoStaleIndex'
    <3>. SUFFICES ASSUME NEW n, NEW h, In(buckets', n, h)
                  PROVE  /\ h \in DOMAIN data' /\ data'[h].exp # ZeroTime
                         /\ storageBucket(data'[h].exp) = n
      BY DEF NoStaleIndex, storageBucket, In, ZeroTime
    <3>. QED  BY <2>1, <2>2 DEF NoStaleIndex
  <2>4. ASSUME NEW h \in DOMAIN data', Indexed(h)
        PROVE  Indexed(h)'
    <3>. DEFINE n == storageBucket(data[h].exp)
    <3>1. In(buckets, n, h) /\ buckets[n][h] = data[h].conflict
      BY <2>4 DEF Indexed
    <3>2. In(buckets', n, h) /\ buckets'[n][h] = buckets[n][h]
      BY <2>1, <2>2, <3>1
    <3>. QED  BY <2>1, <3>1, <3>2 DEF Indexed, In, storageBucket
  <2>. QED  BY <2>1, <2>3, <2>4 DEF IndexKept
<1>2. CASE ~Held(key, conflict)
  BY <1>2, SameIndex DEF StoreDel, storeVars
<1>. QED  BY <1>1, <1>2

\* Later instants are in later buckets.
LEMMA BucketsInOrder ==
    ASSUME NEW s \in Int, NEW t \in Int, s <= t
    PROVE  storageBucket(s) <= storageBucket(t)
<1>. DEFINE B == BucketDuration
            p == s \div B
            q == t \div B
<1>1. B \in Nat \ {0}
  BY StoreConstants
<1>2. p \in Int /\ q \in Int
  BY <1>1
<1>3. B * p <= s /\ t < B * q + B
  BY <1>1, Z3T(30)
<1>. HIDE DEF p, q, B
<1>4. B * p < B * q + B
  BY <1>1, <1>2, <1>3
<1>5. ASSUME q < p PROVE FALSE
  <2>1. PICK d \in Nat : p = q + 1 + d
    <3>1. p - q - 1 \in Nat /\ p = q + 1 + (p - q - 1)
      BY <1>2, <1>5
    <3>. QED  BY <3>1
  <2>2. B * p = B * q + B + B * d /\ B * d >= 0
    BY <1>1, <1>2, <2>1, Z3T(30)
  <2>3. B * p \in Int /\ B * q \in Int /\ B * d \in Int
    BY <1>1, <1>2, <2>1
  <2>. QED  BY <1>1, <1>4, <2>2, <2>3
<1>6. p <= q
  BY <1>2, <1>5
<1>. QED  BY <1>2, <1>6 DEF storageBucket, p, q, B

\* The entries that expire are indexed or in the hands of a cleanup.
IndexOK ==
    /\ \A h \in DOMAIN data : data[h].exp # ZeroTime => Indexed(h) \/ Due(h)
    /\ NoStaleIndex

\* An operation on the store keeps them so, if the cleanup's share remains.
LEMMA IndexMoves ==
    ASSUME IndexOK, IndexKept,
           \A h \in DOMAIN data \cap DOMAIN data' :
               Due(h) /\ data'[h] = data[h] => Due(h)'
    PROVE  IndexOK'
  BY DEF IndexOK, IndexKept

\* An entry stays due as long as the cleanup does not move.
LEMMA StaysDue ==
    ASSUME UNCHANGED <<work, pp, pitem>>, NEW h, data'[h] = data[h], Due(h)
    PROVE  Due(h)'
  BY DEF Due, storageBucket

\* Steps of clients
LEMMA ClientIndex ==
    ASSUME CacheTypeOK, StopInv, CoverInv, IndexInv, NEW c \in Clients,
           Invoke(c) \/ Continue(c)
    PROVE  IndexInv'
<1>0. /\ pc \in [Clients -> ClientPcs] /\ cur[c] \in Items /\ UNCHANGED pitem
      /\ \A d \in Clients \ {c} : pc'[d] = pc[d]
  BY ClientStepControl, ClientStepPc DEF CacheTypeOK, ClientTypeOK
<1>1. UNCHANGED <<work, cleanNow>>
  <2>1. CASE Invoke(c)
    BY <2>1 DEF Invoke, SetInvoke, DelInvoke, Get, GetTTLInvoke, WaitInvoke, ClearInvoke,
       CloseInvoke, ChangeMaxCost, procVars
  <2>2. CASE Continue(c)
    BY <2>2 DEF Continue, SetUpdate, SetSend, DelStore, DelSend, WaitSend, SendItem,
       WaitReturn, GetTTLRead, CloseClear, ClearStop, CloseStop, StopProcessor, Drain,
       ClearPolicy, ClearShards, ClearExpiry, ClearRestart, CloseChans, CloseDone, procVars
  <2>. QED  BY <2>1, <2>2
<1>2. \/ UNCHANGED pp
      \/ pp = "select" /\ pp' = "dead"
      \/ pc[c] = "restart" /\ pp' = "select" /\ pp = "dead"
  BY ClientStepControl DEF StopInv, Stopped
<1>3. \A w \in work' : w.bucket <= cleanupBucket(cleanNow')
  BY <1>1 DEF IndexInv
<1>4. pp' \notin {"clean", "cleanDel"} => work' = {}
  BY <1>1, <1>2 DEF IndexInv
<1>5. Invoke(c) => UNCHANGED <<data, buckets>> /\ pc'[c] # "restart"
  BY <1>0 DEF Invoke, SetInvoke, DelInvoke, Get, GetTTLInvoke, WaitInvoke, ClearInvoke,
     CloseInvoke, ChangeMaxCost, Call, Goto, clientVars, storeVars
<1>6. Continue(c) => \/ UNCHANGED <<data, buckets>> /\ pc'[c] # "restart"
                     \/ UNCHANGED <<data, buckets>> /\ UNCHANGED pc
                     \/ SetUpdate(c) \/ DelStore(c) \/ ClearShards(c) \/ ClearExpiry(c)
  BY <1>0 DEF Continue, SetSend, DelSend, WaitSend, SendItem, WaitReturn, Return, Block,
     GetTTLRead, CloseClear, ClearStop, CloseStop, StopProcessor, Drain, ClearPolicy,
     ClearRestart, CloseChans, CloseDone, Goto, storeVars
<1>7. CASE UNCHANGED <<data, buckets>> /\ (pc'[c] # "restart" \/ UNCHANGED pc)
  <2>1. \A d \in Clients : pc'[d] = "restart" => pc[d] = "restart"
    BY <1>0, <1>7
  <2>2. \A d \in Clients : pc'[d] = "restart" => DOMAIN buckets' = {}
    BY <1>7, <2>1 DEF IndexInv
  <2>3. ASSUME pp' # "dead" PROVE IndexOK'
    <3>1. CASE pc[c] = "restart"
      <4>1. DOMAIN data = {} /\ DOMAIN buckets = {}
        BY <3>1 DEF CoverInv, IndexInv
      <4>. QED  BY <1>7, <4>1 DEF IndexOK, NoStaleIndex, In
    <3>2. CASE UNCHANGED pp
      <4>1. IndexOK
        BY <2>3, <3>2 DEF IndexInv, IndexOK
      <4>2. IndexKept
        BY <1>7, <4>1, SameIndex DEF IndexOK
      <4>3. \A h : Due(h) => Due(h)'
        BY <1>0, <1>1, <1>7, <3>2, StaysDue
      <4>. QED  BY <4>1, <4>2, <4>3, IndexMoves
    <3>. QED  BY <1>2, <2>3, <3>1, <3>2
  <2>. QED  BY <1>3, <1>4, <2>2, <2>3 DEF IndexInv, IndexOK, cleanupBucket, storageBucket
<1>8. CASE SetUpdate(c) \/ DelStore(c)
  <2>1. /\ UNCHANGED pp /\ pc'[c] # "restart"
        /\ StoreUpdate(cur[c]) \/ StoreDel(cur[c].key, cur[c].conflict)
    BY <1>0, <1>8 DEF SetUpdate, DelStore, Goto, procVars
  <2>2. \A d \in Clients : pc'[d] = "restart" => DOMAIN buckets' = {}
    <3>1. ASSUME DOMAIN buckets = {}, DOMAIN data = {}
          PROVE  DOMAIN buckets' = {}
      BY <2>1, <3>1 DEF StoreUpdate, StoreDel, Replaceable, Held, storeVars
    <3>2. \A d \in Clients : pc'[d] = "restart" => pc[d] = "restart"
      BY <1>0, <2>1
    <3>. QED  BY <3>1, <3>2 DEF IndexInv, CoverInv
  <2>3. ASSUME pp' # "dead" PROVE IndexOK'
    <3>1. IndexOK
      BY <2>1, <2>3 DEF IndexInv, IndexOK
    <3>2. IndexKept
      BY <1>0, <2>1, <3>1, StoreUpdateIndex, StoreDelIndex DEF IndexOK
    <3>3. \A h : Due(h) /\ data'[h] = data[h] => Due(h)'
      BY <1>0, <1>1, <2>1, StaysDue
    <3>. QED  BY <3>1, <3>2, <3>3, IndexMoves
  <2>. QED  BY <1>3, <1>4, <2>2, <2>3 DEF IndexInv, IndexOK, cleanupBucket, storageBucket
<1>9. CASE ClearShards(c) \/ ClearExpiry(c)
  <2>1. /\ pc[c] \in {"clearShards", "emClear"} /\ UNCHANGED pp
        /\ pc'[c] = "restart" => DOMAIN buckets' = {}
    BY <1>0, <1>9 DEF ClearShards, ClearExpiry, emClear, EmptyMap, Goto, procVars
  <2>2. pp' = "dead"
    BY <2>1 DEF StopInv, Stopped
  <2>3. \A d \in Clients : pc'[d] = "restart" => d = c
    BY <1>0, <2>1 DEF StopInv, Stopped
  <2>. QED  BY <1>3, <1>4, <2>1, <2>2, <2>3 DEF IndexInv, cleanupBucket, storageBucket
<1>. QED  BY <1>5, <1>6, <1>7, <1>8, <1>9

\* Steps of the processor
LEMMA ProcessorIndex ==
    ASSUME NoCollision, CacheTypeOK, AddInv, StopInv, IndexInv,
           ReceiveItem \/ Process \/ CleanupStart
    PROVE  IndexInv'
<1>0. /\ UNCHANGED <<pc, shards>> /\ pp # "dead" /\ IndexOK
      /\ StoreTypeOK /\ ChanTypeOK /\ ProcTypeOK /\ pitem \in Items
  BY ProcessorControl DEF CacheTypeOK, ProcTypeOK, IndexInv, IndexOK
<1>1. \A c \in Clients : pc'[c] # "restart"
  BY <1>0 DEF StopInv, Stopped
<1>2. SUFFICES /\ IndexOK'
               /\ \A w \in work' : w.bucket <= cleanupBucket(cleanNow')
               /\ pp' \notin {"clean", "cleanDel"} => work' = {}
  BY <1>1 DEF IndexInv, IndexOK, cleanupBucket, storageBucket
<1>3. ASSUME work = {}, pp # "cleanDel", IndexKept
      PROVE  IndexOK'
  <2>1. \A h : ~Due(h)
    BY <1>3 DEF Due
  <2>. QED  BY <1>0, <1>3, <2>1, IndexMoves
<1>4. CASE ReceiveItem \/ Admit \/ Rejected
  <2>1. /\ UNCHANGED <<data, buckets, work, cleanNow>>
        /\ pp \in {"select", "add"} /\ pp' # "cleanDel"
    BY <1>4 DEF ReceiveItem, ReceiveWait, ReceiveNew, ReceiveUpdate, ReceiveDelete,
       ReceiveFlag, Receive, Admit, Rejected, LeaveAdd, storeVars, procVars
  <2>2. work = {}
    BY <2>1 DEF IndexInv
  <2>3. IndexKept
    BY <1>0, <2>1, SameIndex DEF IndexOK
  <2>. QED  BY <1>3, <2>1, <2>2, <2>3
<1>5. CASE Added \/ EvictVictim \/ DeleteStored
  <2>1. /\ UNCHANGED <<work, cleanNow>> /\ pp \in {"add", "victims", "delStore"}
        /\ \/ StoreSet(pitem)
           \/ StoreDel(Head(victims).key, 0)
           \/ StoreDel(pitem.key, pitem.conflict)
    BY <1>5 DEF Added, LeaveAdd, EvictVictim, DeleteStored
  <2>2. work = {}
    BY <2>1 DEF IndexInv
  <2>3. IndexKept
    BY <1>0, <2>1, StoreSetIndex, StoreDelIndex DEF IndexOK
  <2>. QED  BY <1>3, <2>1, <2>2, <2>3
<1>6. CASE CleanupDel
  <2>1. /\ pp = "cleanDel" /\ StoreDel(pitem.key, pitem.conflict)
        /\ UNCHANGED <<work, cleanNow>> /\ pp' = IF work = {} THEN "select" ELSE "clean"
    BY <1>6 DEF CleanupDel
  <2>2. IndexKept
    BY <1>0, <2>1, StoreDelIndex DEF IndexOK
  <2>3. pitem.key \notin DOMAIN data'
    <3>1. pitem.key \in DOMAIN data => Held(pitem.key, pitem.conflict)
      BY <1>0, ItemFields, SameKeyHeld
    <3>2. UNCHANGED now
      BY <1>6 DEF CleanupDel
    <3>. QED  BY <1>0, <2>1, <3>1, <3>2, StoreDelType
  <2>4. ASSUME NEW h \in DOMAIN data', Due(h), data'[h] = data[h]
        PROVE  Due(h)'
    BY <2>1, <2>3, <2>4 DEF Due, storageBucket
  <2>5. IndexOK'
    BY <1>0, <2>2, <2>4, IndexMoves
  <2>. QED  BY <2>1, <2>5 DEF IndexInv
<1>7. CASE CleanupCheck
  <2>1. PICK w \in work :
           /\ work' = work \ {w}
           /\ IF Expiration(w.key) > cleanNow
              THEN pp' = IF work = {w} THEN "select" ELSE "clean"
              ELSE /\ pp' = "cleanDel"
                   /\ pitem' = [WaitItem(NoClient) EXCEPT !.key = w.key,
                                                         !.conflict = w.conflict]
    BY <1>7 DEF CleanupCheck
  <2>2. pp = "clean" /\ UNCHANGED <<data, buckets, cleanNow>>
    BY <1>7 DEF CleanupCheck, storeVars
  <2>3. IndexKept
    BY <1>0, <2>2, SameIndex DEF IndexOK
  <2>4. ASSUME NEW h \in DOMAIN data, Due(h)
        PROVE  Due(h)'
    <3>1. PICK x \in work : x.key = h /\ x.bucket = storageBucket(data[h].exp)
      BY <2>2, <2>4 DEF Due
    <3>2. CASE x # w
      BY <2>1, <2>2, <3>1, <3>2 DEF Due, storageBucket
    <3>3. CASE x = w /\ Expiration(w.key) > cleanNow
      <4>1. data[h].exp > cleanNow
        BY <3>1, <3>3 DEF Expiration
      <4>2. data[h].exp \in Int /\ cleanNow \in Int /\ x.bucket \in Int
        BY <1>0, StoreConstants DEF StoreTypeOK, ProcTypeOK, IsMap, Times, ZeroTime
      <4>3. storageBucket(cleanNow) <= storageBucket(data[h].exp)
        BY <4>1, <4>2, BucketsInOrder
      <4>4. x.bucket <= storageBucket(cleanNow) - 1
        BY <1>2 DEF IndexInv, cleanupBucket
      <4>5. storageBucket(cleanNow) \in Int
        BY <4>2, StoreConstants DEF storageBucket
      <4>. QED  BY <3>1, <4>2, <4>3, <4>4, <4>5
    <3>4. CASE x = w /\ ~(Expiration(w.key) > cleanNow)
      <4>1. pitem'.key = w.key /\ pp' = "cleanDel"
        BY <2>1, <3>4 DEF WaitItem, NewItem
      <4>. QED  BY <3>1, <3>4, <4>1 DEF Due
    <3>. QED  BY <3>2, <3>3, <3>4
  <2>5. IndexOK'
    BY <1>0, <2>2, <2>3, <2>4, IndexMoves
  <2>6. pp' \notin {"clean", "cleanDel"} => work' = {}
    BY <2>1
  <2>. QED  BY <2>1, <2>2, <2>5, <2>6 DEF IndexInv
<1>8. CASE CleanupStart
  <2>1. /\ pp = "select" /\ UNCHANGED data /\ work' = DueEntries(now) /\ cleanNow' = now
        /\ buckets' = [n \in DOMAIN buckets \ DueBuckets(now) |-> buckets[n]]
        /\ pp' = IF DueEntries(now) = {} THEN "select" ELSE "clean"
    BY <1>8 DEF CleanupStart, emExtract
  <2>2. work = {}
    BY <2>1 DEF IndexInv
  <2>3. \A n, h : /\ In(buckets', n, h) <=> In(buckets, n, h) /\ n \notin DueBuckets(now)
                  /\ In(buckets', n, h) => buckets'[n][h] = buckets[n][h]
    BY <2>1 DEF In
  <2>4. NoStaleIndex'
    <3>. SUFFICES ASSUME NEW n, NEW h, In(buckets', n, h)
                  PROVE  /\ h \in DOMAIN data' /\ data'[h].exp # ZeroTime
                         /\ storageBucket(data'[h].exp) = n
      BY DEF NoStaleIndex, storageBucket, In, ZeroTime
    <3>. QED  BY <1>0, <2>1, <2>3 DEF IndexOK, NoStaleIndex
  <2>5. ASSUME NEW h \in DOMAIN data', data'[h].exp # ZeroTime
        PROVE  Indexed(h)' \/ Due(h)'
    <3>. DEFINE n == storageBucket(data[h].exp)
    <3>1. Indexed(h)
      BY <1>0, <2>1, <2>2, <2>5 DEF IndexOK, Due
    <3>2. In(buckets, n, h) /\ buckets[n][h] = data[h].conflict
      BY <3>1 DEF Indexed
    <3>3. CASE n \in DueBuckets(now)
      <4>1. [bucket |-> n, key |-> h, conflict |-> buckets[n][h]] \in DueEntries(now)
        BY <3>2, <3>3 DEF DueEntries, In
      <4>2. Due(h)'
        BY <2>1, <4>1 DEF Due, storageBucket
      <4>. QED  BY <4>2
    <3>4. CASE n \notin DueBuckets(now)
      <4>1. In(buckets', n, h) /\ buckets'[n][h] = buckets[n][h]
        BY <2>3, <3>2, <3>4
      <4>2. Indexed(h)'
        BY <2>1, <3>2, <4>1 DEF Indexed, In, storageBucket
      <4>. QED  BY <4>2
    <3>. QED  BY <3>3, <3>4
  <2>6. \A w \in DueEntries(now) : w.bucket \in DueBuckets(now)
    BY DEF DueEntries
  <2>7. \A w \in work' : w.bucket <= cleanupBucket(cleanNow')
    <3>1. lastCleaned \in Int /\ cleanupBucket(now) \in Int
      BY <1>0, CleanupBucketType DEF StoreTypeOK
    <3>. QED  BY <2>1, <2>6, <3>1 DEF DueBuckets
  <2>8. IndexOK'
    BY <2>4, <2>5 DEF IndexOK
  <2>. QED  BY <2>1, <2>7, <2>8
<1>. QED  BY <1>4, <1>5, <1>6, <1>7, <1>8 DEF Process

\* The expiration map indexes exactly the entries that expire, each in the bucket of
\* its current expiration, whenever the processor is between two items: although
\* clients move entries between buckets while a cleanup holds the buckets it has
\* taken out of the map.
THEOREM ExpiryIndexExact == NoCollision => (Spec => []ExpiryIndexed)
<1>. SUFFICES ASSUME NoCollision PROVE Spec => []ExpiryIndexed
  OBVIOUS
<1>. DEFINE IInv == CacheTypeOK /\ AddInv /\ StopInv /\ CoverInv /\ IndexInv
<1>1. Init => IInv
  <2>. SUFFICES ASSUME Init PROVE IndexInv
    BY ControlInit
  <2>. QED  BY DEF Init, EmptyMap, IndexInv, NoStaleIndex, In
<1>2. IInv /\ [Next]_cacheVars => IInv'
  <2>. SUFFICES ASSUME IInv, [Next]_cacheVars PROVE IndexInv'
    BY ControlStep, CoverStep
  <2>1. CASE ReceiveItem \/ Process \/ CleanupStart
    BY <2>1, ProcessorIndex
  <2>2. CASE AdvanceTime \/ UNCHANGED cacheVars
    BY <2>2 DEF AdvanceTime, cacheVars, storeVars, procVars, clientVars, IndexInv,
       NoStaleIndex, Indexed, Due, In, storageBucket, cleanupBucket, ZeroTime
  <2>3. ASSUME NEW c \in Clients, Invoke(c) \/ Continue(c)
        PROVE  IndexInv'
    BY <2>3, ClientIndex
  <2>. QED  BY <2>1, <2>2, <2>3, NextCases
<1>3. IInv => ExpiryIndexed
  <2>. SUFFICES ASSUME IInv, Quiet PROVE ExpiryIndexed
    BY DEF ExpiryIndexed
  <2>1. pp = "select" /\ \A h : ~Due(h)
    BY DEF IndexInv, Due, Quiet
  <2>. QED  BY <2>1 DEF IndexInv, ExpiryIndexed, Indexed, NoStaleIndex, In
<1>. QED  BY <1>1, <1>2, <1>3, PTL DEF Spec

-----------------------------------------------------------------------------
(* Metrics *)

Multiple(x) == \E k \in Int : x = k * MetricsWord

\* The remainder is zero exactly for multiples of the word.
LEMMA MultipleMod ==
    ASSUME NEW x \in Int
    PROVE  Multiple(x) => x % MetricsWord = 0
<1>. SUFFICES ASSUME NEW k \in Int, x = k * MetricsWord PROVE x % MetricsWord = 0
  BY DEF Multiple
<1>. DEFINE W == MetricsWord
            q == x \div W
            r == x % W
<1>1. W \in Nat \ {0}
  BY PolicyConstants
<1>2. q \in Int /\ r \in Int /\ 0 <= r /\ r < W /\ x = W * q + r
  BY <1>1, Z3T(30)
<1>. HIDE DEF W, q, r
<1>3. x = k * W
  BY DEF W
<1>4. r = W * (k - q) /\ k - q \in Int
  BY <1>1, <1>2, <1>3
<1>5. ASSUME NEW d \in Int, r = W * d PROVE d = 0
  <2>1. ASSUME d >= 1 PROVE FALSE
    <3>1. W * d >= W
      BY <1>1, <2>1
    <3>. QED  BY <1>1, <1>2, <1>5, <3>1
  <2>2. ASSUME d <= -1 PROVE FALSE
    <3>1. W * d <= -W
      BY <1>1, <2>2
    <3>. QED  BY <1>1, <1>2, <1>5, <3>1
  <2>. QED  BY <2>1, <2>2
<1>6. r = 0
  BY <1>1, <1>4, <1>5
<1>. QED  BY <1>6 DEF r, W

\* Metrics.add changes its counter by delta, up to a multiple of the word.
LEMMA BumpBy ==
    ASSUME NEW m \in [MetricTypes -> Nat], NEW t \in MetricTypes, NEW d \in Int, WithMetrics
    PROVE  /\ \E q \in Int : Bump(m, t, d)[t] = m[t] + d + q * MetricsWord
           /\ \A u \in MetricTypes \ {t} : Bump(m, t, d)[u] = m[u]
<1>1. Bump(m, t, d) = [m EXCEPT ![t] = (m[t] + d) % MetricsWord]
  BY DEF Bump
<1>. DEFINE x == m[t] + d
            W == MetricsWord
            p == x \div W
            r == x % W
<1>2. x \in Int /\ W \in Nat \ {0}
  BY PolicyConstants
<1>3. Bump(m, t, d)[t] = r /\ \A u \in MetricTypes \ {t} : Bump(m, t, d)[u] = m[u]
  BY <1>1
<1>. HIDE DEF x, W
<1>4. p \in Int /\ r = x + (-p) * W
  BY <1>2, Z3T(30)
<1>. QED  BY <1>3, <1>4 DEF x, W

\* The counters of keys and costs
LEMMA CounterNames ==
    /\ {"costAdd", "costEvict", "keyAdd", "keyEvict", "keyUpdate"} \subseteq MetricTypes
    /\ "costAdd" \in MetricTypes /\ "costEvict" \in MetricTypes /\ "keyAdd" \in MetricTypes
    /\ "keyEvict" \in MetricTypes /\ "keyUpdate" \in MetricTypes
BY DEF MetricTypes

\* Multiples are closed under the changes above.
LEMMA MultipleShift ==
    ASSUME NEW x \in Int, NEW p \in Int, NEW q \in Int, Multiple(x)
    PROVE  Multiple(x + p * MetricsWord + q * MetricsWord)
<1>. DEFINE W == MetricsWord
<1>1. PICK k \in Int : x = k * W
  BY DEF Multiple
<1>2. W \in Int
  BY PolicyConstants
<1>3. x + p * W + q * W = (k + p + q) * W /\ k + p + q \in Int
  BY <1>1, <1>2
<1>. QED  BY <1>3 DEF Multiple

\* What the counters say of the tracked cost and of the tracked keys, less what is so;
\* the key Add has just admitted is counted when it is stored.
CostGap == metrics["costAdd"] - metrics["costEvict"] - used
KeyGap == metrics["keyAdd"] - metrics["keyEvict"] - Cardinality(DOMAIN keyCosts)
              + (IF addPc = "added" THEN 1 ELSE 0)

Balanced ==
    /\ IsFiniteSet(DOMAIN keyCosts)
    /\ WithMetrics => Multiple(CostGap) /\ Multiple(KeyGap)

\* The gaps change by multiples of the word only.
GapsShift ==
    /\ \E p, q \in Int : CostGap' = CostGap + p * MetricsWord + q * MetricsWord
    /\ \E p, q \in Int : KeyGap' = KeyGap + p * MetricsWord + q * MetricsWord

\* The terms of the gaps are integers.
LEMMA GapTypes ==
    ASSUME PolicyTypeOK, IsFiniteSet(DOMAIN keyCosts)
    PROVE  /\ CostGap \in Int /\ KeyGap \in Int /\ used \in Int
           /\ metrics \in [MetricTypes -> Nat]
           /\ metrics["costAdd"] \in Int /\ metrics["costEvict"] \in Int
           /\ metrics["keyAdd"] \in Int /\ metrics["keyEvict"] \in Int
           /\ Cardinality(DOMAIN keyCosts) \in Nat
<1>1. Cardinality(DOMAIN keyCosts) \in Nat
  BY FS_CardinalityType
<1>2. /\ metrics \in [MetricTypes -> Nat] /\ used \in Int
      /\ metrics["costAdd"] \in Nat /\ metrics["costEvict"] \in Nat
      /\ metrics["keyAdd"] \in Nat /\ metrics["keyEvict"] \in Nat
  BY DEF PolicyTypeOK, MetricTypes
<1>. QED  BY <1>1, <1>2 DEF CostGap, KeyGap

\* The counters stay balanced if both gaps move by multiples of the word.
LEMMA BalancedShift ==
    ASSUME PolicyTypeOK, Balanced, IsFiniteSet(DOMAIN keyCosts'), WithMetrics => GapsShift
    PROVE  Balanced'
<1>. SUFFICES ASSUME WithMetrics PROVE Multiple(CostGap') /\ Multiple(KeyGap')
  BY DEF Balanced, Multiple
<1>1. CostGap \in Int /\ KeyGap \in Int /\ Multiple(CostGap) /\ Multiple(KeyGap)
  BY GapTypes DEF Balanced
<1>. QED  BY <1>1, MultipleShift DEF GapsShift

\* A step that changes none of the terms
LEMMA BalancedSame ==
    ASSUME PolicyTypeOK, Balanced, UNCHANGED used, DOMAIN keyCosts' = DOMAIN keyCosts,
           addPc = "added" <=> addPc' = "added",
           \A t \in {"costAdd", "costEvict", "keyAdd", "keyEvict"} : metrics'[t] = metrics[t]
    PROVE  Balanced'
<1>1. CostGap' = CostGap /\ KeyGap' = KeyGap
  BY DEF CostGap, KeyGap
<1>. QED  BY <1>1 DEF Balanced, Multiple

\* sampledLFU.add of an untracked key
LEMMA EvictAddBalance ==
    ASSUME PolicyTypeOK, Balanced, NEW k \in Hashes, NEW cost \in Nat,
           k \notin DOMAIN keyCosts, evictAdd(k, cost), addPc # "added", addPc' = "added"
    PROVE  Balanced'
<1>0. IsFiniteSet(DOMAIN keyCosts)
  BY DEF Balanced
<1>. DEFINE D == DOMAIN keyCosts
<1>3. DOMAIN keyCosts' = D \cup {k}
  BY EvictAddType
<1>4. k \notin D /\ IsFiniteSet(D)
  BY <1>0
<1>. HIDE DEF D
<1>5. IsFiniteSet(D \cup {k}) /\ Cardinality(D \cup {k}) = Cardinality(D) + 1
  BY <1>4, FS_AddElement
<1>1. /\ IsFiniteSet(DOMAIN keyCosts')
      /\ Cardinality(DOMAIN keyCosts') = Cardinality(DOMAIN keyCosts) + 1
  BY <1>3, <1>5 DEF D
<1>2. ASSUME WithMetrics PROVE GapsShift
  <2>1. /\ \E q \in Int : metrics'["costAdd"] = metrics["costAdd"] + cost + q * MetricsWord
        /\ \A u \in MetricTypes \ {"costAdd"} : metrics'[u] = metrics[u]
    <3>1. metrics \in [MetricTypes -> Nat] /\ cost \in Int
      BY <1>0, GapTypes
    <3>2. metrics' = Bump(metrics, "costAdd", cost)
      BY DEF evictAdd
    <3>3. "costAdd" \in MetricTypes
      BY CounterNames
    <3>4. /\ \E q \in Int : Bump(metrics, "costAdd", cost)["costAdd"]
                              = metrics["costAdd"] + cost + q * MetricsWord
          /\ \A u \in MetricTypes \ {"costAdd"} :
                Bump(metrics, "costAdd", cost)[u] = metrics[u]
      BY ONLY <1>2, <3>1, <3>3, BumpBy
    <3>. QED  BY <3>2, <3>4
  <2>2. PICK q \in Int : metrics'["costAdd"] = metrics["costAdd"] + cost + q * MetricsWord
    BY <2>1
  <2>3. /\ metrics'["costEvict"] = metrics["costEvict"] /\ metrics'["keyAdd"] = metrics["keyAdd"]
        /\ metrics'["keyEvict"] = metrics["keyEvict"]
    BY <2>1 DEF MetricTypes
  <2>4. used' = used + cost
    BY DEF evictAdd
  <2>. DEFINE W == MetricsWord
  <2>5. W \in Int
    BY PolicyConstants
  <2>. HIDE DEF W
  <2>6. CostGap' = CostGap + q * W + 0 * W
    BY <1>0, <2>2, <2>3, <2>4, <2>5, GapTypes DEF CostGap, W
  <2>7. KeyGap' = KeyGap + 0 * W + 0 * W
    BY <1>0, <1>1, <2>3, <2>5, GapTypes DEF KeyGap
  <2>. QED  BY <2>6, <2>7 DEF GapsShift, W
<1>. QED  BY <1>1, <1>2, BalancedShift

\* sampledLFU.del, also of a key that is gone already
LEMMA EvictDelBalance ==
    ASSUME PolicyTypeOK, Balanced, NEW k, evictDel(k), addPc # "added", addPc' # "added"
    PROVE  Balanced'
<1>1. CASE k \notin DOMAIN keyCosts
  BY <1>1, BalancedSame DEF evictDel
<1>2. CASE k \in DOMAIN keyCosts
  <2>0. IsFiniteSet(DOMAIN keyCosts) /\ keyCosts[k] \in Nat
    BY <1>2 DEF Balanced, PolicyTypeOK, IsMap
  <2>. DEFINE D == DOMAIN keyCosts
  <2>3. DOMAIN keyCosts' = D \ {k}
    BY <1>2, EvictDelType
  <2>4. k \in D /\ IsFiniteSet(D)
    BY <1>2, <2>0
  <2>. HIDE DEF D
  <2>5. IsFiniteSet(D \ {k}) /\ Cardinality(D \ {k}) = Cardinality(D) - 1
    BY <2>4, FS_RemoveElement
  <2>1. /\ IsFiniteSet(DOMAIN keyCosts')
        /\ Cardinality(DOMAIN keyCosts') = Cardinality(DOMAIN keyCosts) - 1
    BY <2>3, <2>5 DEF D
  <2>2. ASSUME WithMetrics PROVE GapsShift
    <3>. DEFINE m == Bump(metrics, "costEvict", keyCosts[k])
                W == MetricsWord
    <3>1. /\ metrics \in [MetricTypes -> Nat] /\ m \in [MetricTypes -> Nat]
          /\ "costEvict" \in MetricTypes /\ "keyEvict" \in MetricTypes
      <4>1. metrics \in [MetricTypes -> Nat] /\ keyCosts[k] \in Int
        BY <2>0, GapTypes
      <4>. QED  BY <4>1, BumpType, CounterNames
    <3>11. /\ \E p \in Int : m["costEvict"] = metrics["costEvict"] + keyCosts[k] + p * W
           /\ \A u \in MetricTypes \ {"costEvict"} : m[u] = metrics[u]
      <4>1. keyCosts[k] \in Int
        BY <2>0
      <4>. QED  BY <2>2, <3>1, <4>1, BumpBy
    <3>2. PICK p \in Int : m["costEvict"] = metrics["costEvict"] + keyCosts[k] + p * W
      BY <3>11
    <3>3. \A u \in MetricTypes \ {"costEvict"} : m[u] = metrics[u]
      BY <3>11
    <3>4. metrics' = Bump(m, "keyEvict", 1) /\ used' = used - keyCosts[k]
      BY <1>2 DEF evictDel
    <3>. HIDE DEF m
    <3>12. /\ \E q \in Int : metrics'["keyEvict"] = m["keyEvict"] + 1 + q * W
           /\ \A u \in MetricTypes \ {"keyEvict"} : metrics'[u] = m[u]
      <4>1. 1 \in Int
        OBVIOUS
      <4>. QED  BY <2>2, <3>1, <3>4, <4>1, BumpBy
    <3>5. PICK q \in Int : metrics'["keyEvict"] = m["keyEvict"] + 1 + q * W
      BY <3>12
    <3>6. \A u \in MetricTypes \ {"keyEvict"} : metrics'[u] = m[u]
      BY <3>12
    <3>7. /\ metrics'["costAdd"] = metrics["costAdd"] /\ metrics'["keyAdd"] = metrics["keyAdd"]
          /\ metrics'["costEvict"] = metrics["costEvict"] + keyCosts[k] + p * W
          /\ metrics'["keyEvict"] = metrics["keyEvict"] + 1 + q * W
      BY <3>2, <3>3, <3>5, <3>6 DEF MetricTypes
    <3>8. W \in Int /\ p * W \in Int /\ q * W \in Int /\ (-p) * W = -(p * W)
          /\ (-q) * W = -(q * W)
      BY PolicyConstants
    <3>. HIDE DEF W
    <3>9. CostGap' = CostGap + (-p) * W + 0 * W
      BY <2>0, <3>4, <3>7, <3>8, GapTypes DEF CostGap
    <3>10. KeyGap' = KeyGap + (-q) * W + 0 * W
      <4>. DEFINE n == Cardinality(DOMAIN keyCosts)
                  n1 == Cardinality(DOMAIN keyCosts')
      <4>1. n \in Nat /\ n1 = n - 1
        BY <2>0, <2>1, GapTypes
      <4>2. KeyGap = metrics["keyAdd"] - metrics["keyEvict"] - n + 0
        BY DEF KeyGap
      <4>3. KeyGap' = metrics'["keyAdd"] - metrics'["keyEvict"] - n1 + 0
        BY DEF KeyGap
      <4>4. metrics["keyAdd"] \in Int /\ metrics["keyEvict"] \in Int
        BY <2>0, GapTypes
      <4>. HIDE DEF n, n1
      <4>. QED  BY <3>7, <3>8, <4>1, <4>2, <4>3, <4>4
    <3>. QED  BY <3>9, <3>10 DEF GapsShift, W
  <2>. QED  BY <2>1, <2>2, BalancedShift
<1>. QED  BY <1>1, <1>2

\* sampledLFU.updateIfHas, which may lower a cost
LEMMA UpdateBalance ==
    ASSUME PolicyTypeOK, Balanced, NEW k, NEW cost \in Nat, updateIfHas(k, cost),
           addPc # "added", addPc' # "added"
    PROVE  Balanced'
<1>1. CASE k \notin DOMAIN keyCosts
  BY <1>1, BalancedSame DEF updateIfHas
<1>2. CASE k \in DOMAIN keyCosts
  <2>0. IsFiniteSet(DOMAIN keyCosts) /\ keyCosts[k] \in Nat
    BY <1>2 DEF Balanced, PolicyTypeOK, IsMap
  <2>1. DOMAIN keyCosts' = DOMAIN keyCosts
    BY UpdateType
  <2>2. ASSUME WithMetrics PROVE GapsShift
    <3>. DEFINE m == Bump(metrics, "keyUpdate", 1)
                W == MetricsWord
                d == cost - keyCosts[k]
    <3>1. /\ metrics \in [MetricTypes -> Nat] /\ m \in [MetricTypes -> Nat] /\ d \in Int
          /\ "costAdd" \in MetricTypes /\ "keyUpdate" \in MetricTypes
      <4>1. metrics \in [MetricTypes -> Nat] /\ keyCosts[k] \in Int /\ 1 \in Int
        BY <2>0, GapTypes
      <4>2. m \in [MetricTypes -> Nat]
        BY <4>1, BumpType, CounterNames
      <4>3. d \in Int
        BY <4>1
      <4>. QED  BY <4>1, <4>2, <4>3, CounterNames
    <3>2. \A u \in MetricTypes \ {"keyUpdate"} : m[u] = metrics[u]
      <4>1. 1 \in Int
        OBVIOUS
      <4>. QED  BY <2>2, <3>1, <4>1, BumpBy
    <3>3. metrics' = Bump(m, "costAdd", d) /\ used' = used + d
      BY <1>2 DEF updateIfHas
    <3>. HIDE DEF m, d
    <3>10. /\ \E q \in Int : metrics'["costAdd"] = m["costAdd"] + d + q * W
           /\ \A u \in MetricTypes \ {"costAdd"} : metrics'[u] = m[u]
      BY <2>2, <3>1, <3>3, BumpBy
    <3>4. PICK q \in Int : metrics'["costAdd"] = m["costAdd"] + d + q * W
      BY <3>10
    <3>5. \A u \in MetricTypes \ {"costAdd"} : metrics'[u] = m[u]
      BY <3>10
    <3>6. /\ metrics'["costAdd"] = metrics["costAdd"] + d + q * W
          /\ metrics'["keyAdd"] = metrics["keyAdd"] /\ metrics'["keyEvict"] = metrics["keyEvict"]
          /\ metrics'["costEvict"] = metrics["costEvict"]
      BY <3>2, <3>4, <3>5 DEF MetricTypes
    <3>7. W \in Int /\ q * W \in Int
      BY PolicyConstants
    <3>. HIDE DEF W
    <3>8. CostGap' = CostGap + q * W + 0 * W
      BY <2>0, <3>1, <3>3, <3>6, <3>7, GapTypes DEF CostGap
    <3>9. KeyGap' = KeyGap + 0 * W + 0 * W
      BY <2>0, <2>1, <3>6, <3>7, GapTypes DEF KeyGap
    <3>. QED  BY <3>8, <3>9 DEF GapsShift, W
  <2>. QED  BY <2>0, <2>1, <2>2, BalancedShift
<1>. QED  BY <1>1, <1>2

\* Storing the key Add has admitted counts it.
LEMMA AddedBalance ==
    ASSUME PolicyTypeOK, Balanced, metrics' = Bump(metrics, "keyAdd", 1),
           UNCHANGED <<keyCosts, used>>, addPc = "added", addPc' # "added"
    PROVE  Balanced'
<1>0. IsFiniteSet(DOMAIN keyCosts)
  BY DEF Balanced
<1>1. ASSUME WithMetrics PROVE GapsShift
  <2>. DEFINE W == MetricsWord
  <2>1. metrics \in [MetricTypes -> Nat] /\ "keyAdd" \in MetricTypes
    BY <1>0, GapTypes DEF MetricTypes
  <2>8. /\ \E q \in Int : metrics'["keyAdd"] = metrics["keyAdd"] + 1 + q * W
        /\ \A u \in MetricTypes \ {"keyAdd"} : metrics'[u] = metrics[u]
    <3>1. 1 \in Int
      OBVIOUS
    <3>. QED  BY <1>1, <2>1, <3>1, BumpBy
  <2>2. PICK q \in Int : metrics'["keyAdd"] = metrics["keyAdd"] + 1 + q * W
    BY <2>8
  <2>3. \A u \in MetricTypes \ {"keyAdd"} : metrics'[u] = metrics[u]
    BY <2>8
  <2>4. /\ metrics'["costAdd"] = metrics["costAdd"] /\ metrics'["keyEvict"] = metrics["keyEvict"]
        /\ metrics'["costEvict"] = metrics["costEvict"]
    BY <2>3 DEF MetricTypes
  <2>5. W \in Int /\ q * W \in Int
    BY PolicyConstants
  <2>. HIDE DEF W
  <2>6. CostGap' = CostGap + 0 * W + 0 * W
    BY <1>0, <2>4, <2>5, GapTypes DEF CostGap
  <2>7. KeyGap' = KeyGap + q * W + 0 * W
    BY <1>0, <2>2, <2>4, <2>5, GapTypes DEF KeyGap
  <2>. QED  BY <2>6, <2>7 DEF GapsShift, W
<1>. QED  BY <1>0, <1>1, BalancedShift

\* A counter that takes no part
LEMMA OtherCounters ==
    ASSUME PolicyTypeOK, Balanced, NEW t \in {"dropSets", "rejectSets", "hit", "miss"},
           metrics' = Bump(metrics, t, 1), UNCHANGED <<keyCosts, used>>,
           addPc = "added" <=> addPc' = "added"
    PROVE  Balanced'
<1>1. \A u \in {"costAdd", "costEvict", "keyAdd", "keyEvict"} : metrics'[u] = metrics[u]
  BY DEF Bump, PolicyTypeOK, MetricTypes
<1>. QED  BY <1>1, BalancedSame

\* The counters balance while the processor lives.  Clear resets the policy before it
\* resets the counters, with the processor stopped.
BalanceInv ==
    /\ IsFiniteSet(DOMAIN keyCosts)
    /\ pp # "dead" => Balanced
    /\ \A c \in Clients : pc[c] \in {"clearShards", "emClear", "restart"} => used = 0

\* A client counts hits, misses and dropped sets; only Clear does more.
LEMMA ClientCounters ==
    ASSUME CacheTypeOK, NEW c \in Clients, Invoke(c) \/ Continue(c),
           ~ClearPolicy(c), ~ClearRestart(c)
    PROVE  /\ UNCHANGED <<keyCosts, used>>
           /\ \/ UNCHANGED metrics
              \/ \E t \in {"dropSets", "rejectSets", "hit", "miss"} :
                    metrics' = Bump(metrics, t, 1)
           /\ pp' # "dead" => pp # "dead"
           /\ pc'[c] \in {"clearShards", "emClear", "restart"} =>
                 pc[c] \in {"clearShards", "emClear", "restart"}
<1>. USE DEF Goto
<1>0. pc \in [Clients -> ClientPcs]
  BY DEF CacheTypeOK, ClientTypeOK
<1>1. CASE Invoke(c)
  <2>1. CASE \E k \in Keys : Get(c, k)
    BY <2>1 DEF Get, Call, procVars
  <2>2. CASE ~\E k \in Keys : Get(c, k)
    BY <1>0, <1>1, <2>2 DEF Invoke, SetInvoke, DelInvoke, GetTTLInvoke, WaitInvoke,
       ClearInvoke, CloseInvoke, ChangeMaxCost, UpdateMaxCost, policyVars, procVars, clientVars
  <2>. QED  BY <2>1, <2>2
<1>2. CASE Continue(c)
  <2>1. CASE SetSend(c)
    BY <1>0, <2>1 DEF SetSend, Return, procVars
  <2>2. CASE SetUpdate(c) \/ DelStore(c) \/ DelSend(c) \/ WaitSend(c) \/ WaitReturn(c)
              \/ GetTTLRead(c)
    BY <1>0, <2>2 DEF SetUpdate, DelStore, DelSend, WaitSend, SendItem, WaitReturn,
       GetTTLRead, Return, Block, policyVars, procVars
  <2>3. CASE CloseClear(c) \/ ClearStop(c) \/ CloseStop(c) \/ CloseChans(c) \/ CloseDone(c)
    BY <1>0, <2>3 DEF CloseClear, ClearStop, CloseStop, StopProcessor, CloseChans, CloseDone,
       policyVars, procVars
  <2>4. CASE Drain(c) \/ ClearShards(c) \/ ClearExpiry(c)
    BY <1>0, <2>4 DEF Drain, ClearShards, ClearExpiry, policyVars, procVars
  <2>. QED  BY <1>2, <2>1, <2>2, <2>3, <2>4 DEF Continue
<1>. QED  BY <1>1, <1>2

\* A step of a client keeps the balance.
LEMMA ClientBalance ==
    ASSUME CacheTypeOK, AddInv, StopInv, GhostInv, BalanceInv, NEW c \in Clients,
           Invoke(c) \/ Continue(c)
    PROVE  BalanceInv'
<1>0. /\ PolicyTypeOK /\ pc \in [Clients -> ClientPcs]
      /\ UNCHANGED addPc
      /\ \A d \in Clients \ {c} : pc'[d] = pc[d]
  BY ClientStepControl, ClientStepPc DEF CacheTypeOK, ClientTypeOK
<1>1. CASE ClearPolicy(c)
  <2>1. pp = "dead" /\ pp' = "dead" /\ used' = 0 /\ keyCosts' = EmptyMap
    BY <1>1 DEF ClearPolicy, PolicyClear, StopInv, Stopped, procVars
  <2>2. DOMAIN keyCosts' = {}
    BY <2>1 DEF EmptyMap
  <2>. QED  BY <2>1, <2>2, FS_EmptySet DEF BalanceInv
<1>2. CASE ClearRestart(c)
  <2>1. /\ pc[c] = "restart" /\ pp = "dead" /\ used = 0 /\ DOMAIN keyCosts = {}
        /\ UNCHANGED <<used, keyCosts>> /\ metrics' = NoMetrics
    BY <1>2 DEF ClearRestart, StopInv, Stopped, BalanceInv, GhostInv
  <2>2. addPc' = "none"
    BY <1>0, <2>1 DEF AddInv, PolicyTypeOK, AddPcs
  <2>3. /\ metrics'["costAdd"] = 0 /\ metrics'["costEvict"] = 0 /\ metrics'["keyAdd"] = 0
        /\ metrics'["keyEvict"] = 0
    BY <2>1 DEF NoMetrics, MetricTypes
  <2>4. Cardinality(DOMAIN keyCosts') = 0 /\ IsFiniteSet(DOMAIN keyCosts')
    BY <2>1, FS_EmptySet
  <2>5. CostGap' = 0 /\ KeyGap' = 0
    BY <2>1, <2>2, <2>3, <2>4 DEF CostGap, KeyGap
  <2>6. Multiple(0)
    BY PolicyConstants DEF Multiple
  <2>. QED  BY <2>1, <2>4, <2>5, <2>6 DEF BalanceInv, Balanced, Multiple
<1>3. CASE ~ClearPolicy(c) /\ ~ClearRestart(c)
  <2>1. /\ UNCHANGED <<keyCosts, used>>
        /\ \/ UNCHANGED metrics
           \/ \E t \in {"dropSets", "rejectSets", "hit", "miss"} :
                 metrics' = Bump(metrics, t, 1)
        /\ pp' # "dead" => pp # "dead"
        /\ pc'[c] \in {"clearShards", "emClear", "restart"} =>
              pc[c] \in {"clearShards", "emClear", "restart"}
    BY <1>3, ClientCounters
  <2>2. ASSUME Balanced PROVE Balanced'
    <3>1. CASE UNCHANGED metrics
      BY <1>0, <2>1, <2>2, <3>1, BalancedSame
    <3>2. CASE \E t \in {"dropSets", "rejectSets", "hit", "miss"} :
                  metrics' = Bump(metrics, t, 1)
      BY <1>0, <2>1, <2>2, <3>2, OtherCounters
    <3>. QED  BY <2>1, <3>1, <3>2
  <2>3. \A d \in Clients : pc'[d] \in {"clearShards", "emClear", "restart"} => used' = 0
    BY <1>0, <2>1 DEF BalanceInv
  <2>. QED  BY <2>1, <2>2, <2>3 DEF BalanceInv
<1>. QED  BY <1>1, <1>2, <1>3

\* The steps of Add: a victim or the new key, once each
LEMMA AdmitBalance ==
    ASSUME PolicyTypeOK, AddApart, Balanced, AddStep
    PROVE  Balanced'
<1>0. addArg.key \in Hashes /\ addArg.cost \in Nat
  BY DEF PolicyTypeOK, Pairs
<1>1. CASE AddFits
  <2>1. /\ addPc = "room" /\ addPc' = "added" /\ evictAdd(addArg.key, addArg.cost)
        /\ addArg.key \notin DOMAIN keyCosts
    BY <1>1 DEF AddFits, AddDone, AddApart
  <2>. QED  BY <1>0, <2>1, EvictAddBalance
<1>2. CASE AddNoRoom
  <2>1. UNCHANGED <<keyCosts, used, metrics>> /\ addPc = "room" /\ addPc' = "evict"
    BY <1>2 DEF AddNoRoom
  <2>. QED  BY <2>1, BalancedSame
<1>3. CASE AddReject
  <2>1. /\ UNCHANGED <<keyCosts, used>> /\ addPc = "evict" /\ addPc' = "rejected"
        /\ metrics' = Bump(metrics, "rejectSets", 1)
    BY <1>3 DEF AddReject, AddDone
  <2>. QED  BY <2>1, OtherCounters
<1>4. CASE AddEvict
  <2>1. PICK s, i : EvictMin(s, i)
    BY <1>4 DEF AddEvict
  <2>2. evictDel(s[i].key) /\ addPc = "evict" /\ addPc' = "room"
    BY <1>4, <2>1 DEF AddEvict, EvictMin
  <2>. QED  BY <2>2, EvictDelBalance
<1>. QED  BY <1>1, <1>2, <1>3, <1>4 DEF AddStep

\* A step of the processor keeps the balance.
LEMMA ProcessorBalance ==
    ASSUME CacheTypeOK, AddInv, StopInv, GhostInv, BalanceInv,
           ReceiveItem \/ Process \/ CleanupStart
    PROVE  BalanceInv'
<1>0. /\ UNCHANGED pc /\ pp # "dead" /\ PolicyTypeOK /\ ChanTypeOK /\ Balanced /\ AddApart
      /\ \A c \in Clients : pc'[c] \notin Stopped
  BY ProcessorControl DEF CacheTypeOK, BalanceInv, StopInv, GhostInv
<1>. SUFFICES Balanced'
  BY <1>0 DEF BalanceInv, Balanced, Stopped
<1>1. CASE ReceiveItem
  <2>1. setBuf # <<>> /\ Head(setBuf) \in Items /\ addPc = "none"
    BY <1>0, <1>1, TailType DEF ReceiveItem, ReceiveWait, ReceiveNew, ReceiveUpdate,
       ReceiveDelete, ReceiveFlag, Receive, AddInv
  <2>. DEFINE i == Head(setBuf)
  <2>2. ItemCost(i) \in Nat
    BY <2>1, ItemCostType
  <2>3. CASE ReceiveWait
    BY <1>0, <2>3, BalancedSame DEF ReceiveWait, policyVars
  <2>4. CASE ReceiveNew
    <3>1. /\ AddCall(i.key, ItemCost(i)) /\ addPc' \in {"rejected", "room"}
      BY <2>4 DEF ReceiveNew, AddCall
    <3>2. CASE UNCHANGED <<keyCosts, used, metrics>>
      BY <1>0, <2>1, <3>1, <3>2, BalancedSame
    <3>3. CASE updateIfHas(i.key, ItemCost(i))
      <4>. HIDE DEF i
      <4>. QED  BY <1>0, <2>1, <2>2, <3>1, <3>3, UpdateBalance
    <3>. QED  BY <3>1, <3>2, <3>3 DEF AddCall
  <2>5. CASE ReceiveUpdate
    <3>1. updateIfHas(i.key, ItemCost(i)) /\ UNCHANGED addPc
      BY <2>5 DEF ReceiveUpdate, PolicyUpdate, addVars
    <3>. HIDE DEF i
    <3>. QED  BY <1>0, <2>1, <2>2, <3>1, UpdateBalance
  <2>6. CASE ReceiveDelete
    <3>1. evictDel(i.key) /\ UNCHANGED addPc
      BY <2>6 DEF ReceiveDelete, PolicyDel, addVars
    <3>. QED  BY <1>0, <2>1, <3>1, EvictDelBalance
  <2>. QED  BY <1>1, <2>3, <2>4, <2>5, <2>6 DEF ReceiveItem
<1>2. CASE Admit
  BY <1>0, <1>2, AdmitBalance DEF Admit
<1>3. CASE Added
  <2>1. /\ addPc = "added" /\ addPc' = "none" /\ UNCHANGED <<keyCosts, used>>
        /\ metrics' = Bump(metrics, "keyAdd", 1)
    BY <1>3 DEF Added, LeaveAdd
  <2>. QED  BY <1>0, <2>1, AddedBalance
<1>4. CASE Rejected
  <2>1. /\ addPc = "rejected" /\ addPc' = "none" /\ UNCHANGED <<keyCosts, used, metrics>>
    BY <1>4 DEF Rejected, LeaveAdd
  <2>. QED  BY <1>0, <2>1, BalancedSame
<1>5. CASE CleanupCheck
  <2>0. addPc = "none"
    BY <1>5 DEF CleanupCheck, AddInv
  <2>1. CASE UNCHANGED policyVars
    BY <1>0, <2>1, BalancedSame DEF policyVars
  <2>2. CASE \E w \in work : PolicyDel(w.key)
    <3>1. PICK w \in work : evictDel(w.key) /\ UNCHANGED addPc
      BY <2>2 DEF PolicyDel, addVars
    <3>. QED  BY <1>0, <2>0, <3>1, EvictDelBalance
  <2>. QED  BY <1>5, <2>1, <2>2 DEF CleanupCheck
<1>6. CASE EvictVictim \/ DeleteStored \/ CleanupDel \/ CleanupStart
  <2>1. UNCHANGED <<keyCosts, used, metrics, addPc>>
    BY <1>6 DEF EvictVictim, DeleteStored, CleanupDel, CleanupStart, policyVars
  <2>. QED  BY <1>0, <2>1, BalancedSame
<1>. QED  BY <1>1, <1>2, <1>3, <1>4, <1>5, <1>6 DEF Process

\* Whenever the processor is between two items, the counters of added and evicted keys
\* and costs differ by what the policy tracks, modulo their width: a key is counted by
\* one goroutine's steps in two places (Add and processItems), is evicted at most once
\* however often it is sampled, and Clear resets both sides.
THEOREM CountersBalance == Spec => []MetricsBalance
<1>. DEFINE IInv == CacheTypeOK /\ AddInv /\ StopInv /\ GhostInv /\ BalanceInv
<1>1. Init => IInv
  <2>. SUFFICES ASSUME Init PROVE GhostInv /\ BalanceInv
    BY ControlInit
  <2>1. GhostInv
    BY DEF Init, PolicyInit, EmptyMap, GhostInv, AddApart
  <2>2. DOMAIN keyCosts = {} /\ used = 0 /\ addPc = "none" /\ metrics = NoMetrics
    BY DEF Init, PolicyInit, EmptyMap
  <2>3. /\ metrics["costAdd"] = 0 /\ metrics["costEvict"] = 0 /\ metrics["keyAdd"] = 0
        /\ metrics["keyEvict"] = 0
    BY <2>2 DEF NoMetrics, MetricTypes
  <2>4. Cardinality(DOMAIN keyCosts) = 0 /\ IsFiniteSet(DOMAIN keyCosts)
    BY <2>2, FS_EmptySet
  <2>5. CostGap = 0 /\ KeyGap = 0
    BY <2>2, <2>3, <2>4 DEF CostGap, KeyGap
  <2>6. Multiple(0)
    BY PolicyConstants DEF Multiple
  <2>. QED  BY <2>1, <2>2, <2>4, <2>5, <2>6 DEF BalanceInv, Balanced
<1>2. IInv /\ [Next]_cacheVars => IInv'
  <2>. SUFFICES ASSUME IInv, [Next]_cacheVars PROVE GhostInv' /\ BalanceInv'
    BY ControlStep
  <2>1. CASE ReceiveItem \/ Process \/ CleanupStart
    BY <2>1, ProcessorGhost, ProcessorBalance
  <2>2. CASE AdvanceTime \/ UNCHANGED cacheVars
    <3>1. UNCHANGED <<keyCosts, used, metrics, addPc, pp, pc>>
      BY <2>2 DEF AdvanceTime, cacheVars, policyVars, procVars, clientVars
    <3>2. BalanceInv'
      BY <3>1 DEF BalanceInv, Balanced, CostGap, KeyGap, Multiple
    <3>. QED  BY <2>2, <3>2 DEF AdvanceTime, cacheVars, storeVars, policyVars, procVars,
              clientVars, chanVars, GhostInv, AddApart, VictimKeys, DeletePending
  <2>3. ASSUME NEW c \in Clients, Invoke(c) \/ Continue(c)
        PROVE  GhostInv' /\ BalanceInv'
    BY <2>3, ClientGhost, ClientBalance
  <2>. QED  BY <2>1, <2>2, <2>3, NextCases
<1>3. IInv => MetricsBalance
  <2>. SUFFICES ASSUME IInv, WithMetrics, Quiet
                PROVE  /\ (metrics["costAdd"] - metrics["costEvict"] - used) % MetricsWord = 0
                       /\ (metrics["keyAdd"] - metrics["keyEvict"]
                             - Cardinality(DOMAIN keyCosts)) % MetricsWord = 0
    BY DEF MetricsBalance
  <2>1. Balanced /\ addPc # "added" /\ PolicyTypeOK
    BY DEF Quiet, BalanceInv, AddInv, CacheTypeOK
  <2>2. /\ CostGap \in Int /\ KeyGap \in Int /\ Multiple(CostGap) /\ Multiple(KeyGap)
    BY <2>1, GapTypes DEF Balanced
  <2>3. CostGap % MetricsWord = 0 /\ KeyGap % MetricsWord = 0
    BY <2>2, MultipleMod
  <2>4. KeyGap = metrics["keyAdd"] - metrics["keyEvict"] - Cardinality(DOMAIN keyCosts)
    <3>1. /\ metrics["keyAdd"] \in Int /\ metrics["keyEvict"] \in Int
          /\ Cardinality(DOMAIN keyCosts) \in Nat
      BY <2>1, GapTypes DEF Balanced
    <3>. QED  BY <2>1, <3>1 DEF KeyGap
  <2>. QED  BY <2>3, <2>4 DEF CostGap
<1>. QED  BY <1>1, <1>2, <1>3, PTL DEF Spec

-----------------------------------------------------------------------------
(***************************************************************************)
(* Where the values are.  A value that Set brings is in one place at a     *)
(* time, and each step of the cache moves it to another one: from the      *)
(* client's hand to the channel, to the processor, to the store, and out.  *)
(* The second half is what a client may rely on once its calls have        *)
(* returned.  Collisions of hashes are allowed throughout.                 *)
(***************************************************************************)

-----------------------------------------------------------------------------
(* The inductive invariant *)

\* Add admits only keys that are not in the store.
Fresh == pp = "add" /\ addPc # "rejected" => pitem.key \notin DOMAIN data

\* What an item carries: a new item a value of its own, a Wait or a deletion none
ItemOK(i) ==
    /\ i.wg # NoClient \/ i.flag = "delete" => i.value = ZeroValue
    /\ i.wg = NoClient /\ i.flag = "new" => i.value \in DOMAIN exits

HandOK(c) ==
    /\ pc[c] \in {"update", "send", "del", "sendDel", "sendWait"} => ItemOK(cur[c])
    /\ pc[c] = "update" => cur[c].flag = "new" /\ cur[c].wg = NoClient
    /\ pc[c] = "send" => cur[c].flag \in {"new", "update"} /\ cur[c].wg = NoClient
    /\ pc[c] \in {"del", "sendDel"} => cur[c].flag = "delete"
    /\ pc[c] = "sendWait" => cur[c].wg # NoClient

ItemsOK ==
    /\ \A c \in Clients : HandOK(c)
    /\ \A i \in DOMAIN setBuf : ItemOK(setBuf[i])

\* Only values that Set brought are anywhere.
Known ==
    /\ pp = "add" => pitem.value \in DOMAIN exits
    /\ \A h \in DOMAIN data : data[h].value \in DOMAIN exits
    /\ refused \subseteq DOMAIN exits
    /\ DOMAIN exits \subseteq 1..calls

Holds(c) == pc[c] \in {"update", "send"} /\ cur[c].flag = "new"

\* No value is twice in the same place.
HandsApart ==
    \A c, d \in Clients : Holds(c) /\ Holds(d) /\ cur[c].value = cur[d].value => c = d
BufferApart ==
    \A i, j \in DOMAIN setBuf :
        /\ setBuf[i].flag = "new" /\ setBuf[j].flag = "new"
        /\ setBuf[i].value = setBuf[j].value /\ setBuf[i].value # ZeroValue
        => i = j
StoreApart == \A g, h \in DOMAIN data : data[g].value = data[h].value => g = h

\* Nor is it in two places, and it is somewhere.
OnePlace(v) ==
    /\ exits[v] \in {0, 1}
    /\ InHand(v) => /\ ~Buffered(v) /\ ~Admitting(v) /\ ~Stored(v) /\ v \notin refused
                    /\ exits[v] = 0
    /\ Buffered(v) => ~Admitting(v) /\ ~Stored(v) /\ v \notin refused /\ exits[v] = 0
    /\ Admitting(v) => ~Stored(v) /\ v \notin refused /\ exits[v] = 0
    /\ Stored(v) => v \notin refused /\ exits[v] = 0
    /\ v \in refused => exits[v] = 0
    /\ InHand(v) \/ Buffered(v) \/ Admitting(v) \/ Stored(v) \/ v \in refused
          \/ exits[v] = 1

Places == \A v \in DOMAIN exits : OnePlace(v)

ValueInv == /\ Fresh /\ ItemsOK /\ Known
            /\ HandsApart /\ BufferApart /\ StoreApart /\ Places

-----------------------------------------------------------------------------
(* What a step does to one place *)

\* A step that concerns other values leaves this one where it is.
Same(v) ==
    /\ (InHand(v) <=> InHand(v)') /\ (Buffered(v) <=> Buffered(v)')
    /\ (Admitting(v) <=> Admitting(v)') /\ (Stored(v) <=> Stored(v)')
    /\ (v \in refused <=> v \in refused') /\ exits'[v] = exits[v]

\* A value that no part of the step touches stays in its one place.
LEMMA SamePlace ==
    ASSUME NEW v, OnePlace(v), Same(v)
    PROVE  OnePlace(v)'
  BY DEF OnePlace, Same

\* The zero value is no value that Set brought.
LEMMA ZeroUnknown ==
    ASSUME GhostTypeOK
    PROVE  ZeroValue \notin DOMAIN exits
  BY CacheConstants DEF GhostTypeOK, IsMap, Values, ZeroValue

\* onExit counts its value.
LEMMA ExitsOf ==
    ASSUME GhostTypeOK, NEW o, OnExit(o)
    PROVE  /\ DOMAIN exits' = DOMAIN exits
           /\ \A v \in DOMAIN exits :
                 exits'[v] = IF v = o THEN exits[v] + 1 ELSE exits[v]
  BY DEF OnExit, ExitsAfter, GhostTypeOK, IsMap

\* The buffer after a send
LEMMA BufferedAfterSend ==
    ASSUME ChanTypeOK, NEW i \in Items, setBuf' = Append(setBuf, i)
    PROVE  /\ \A v : Buffered(v)' <=> Buffered(v) \/ (i.flag = "new" /\ i.value = v)
           /\ BufferApart /\ (i.flag = "new" => i.value = ZeroValue \/ ~Buffered(i.value))
                 => BufferApart'
           /\ \A j \in DOMAIN setBuf' :
                 setBuf'[j] = i \/ \E k \in DOMAIN setBuf : setBuf'[j] = setBuf[k]
<1>1. setBuf \in Seq(Items)
  BY DEF ChanTypeOK
<1>. DEFINE n == Len(setBuf)
<1>2. /\ DOMAIN setBuf = 1..n /\ n \in Nat /\ DOMAIN setBuf' = 1..(n + 1)
      /\ \A j \in 1..n : setBuf'[j] = setBuf[j]
      /\ setBuf'[n + 1] = i
  BY <1>1
<1>. HIDE DEF n
<1>3. \A j \in DOMAIN setBuf' : j = n + 1 \/ j \in DOMAIN setBuf
  BY <1>2
<1>4. \A j \in DOMAIN setBuf : j \in DOMAIN setBuf' /\ j # n + 1
  BY <1>2
<1>5. n + 1 \in DOMAIN setBuf'
  BY <1>2
<1>6. ASSUME NEW v PROVE Buffered(v)' <=> Buffered(v) \/ (i.flag = "new" /\ i.value = v)
  BY <1>2, <1>3, <1>4, <1>5 DEF Buffered
<1>7. ASSUME BufferApart, i.flag = "new" => i.value = ZeroValue \/ ~Buffered(i.value)
      PROVE  BufferApart'
  BY <1>2, <1>3, <1>4, <1>7 DEF BufferApart, Buffered, ZeroValue
<1>. QED  BY <1>2, <1>3, <1>6, <1>7

\* The buffer after a receive
LEMMA BufferedAfterReceive ==
    ASSUME ChanTypeOK, setBuf # <<>>, setBuf' = Tail(setBuf), BufferApart
    PROVE  /\ \A v : v # ZeroValue =>
                 (Buffered(v)' <=> Buffered(v) /\ ~(Head(setBuf).flag = "new"
                                                    /\ Head(setBuf).value = v))
           /\ Head(setBuf).flag = "new" => Buffered(Head(setBuf).value)
           /\ BufferApart'
           /\ \A j \in DOMAIN setBuf' : \E k \in DOMAIN setBuf : setBuf'[j] = setBuf[k]
           /\ \E k \in DOMAIN setBuf : Head(setBuf) = setBuf[k]
<1>1. setBuf \in Seq(Items)
  BY DEF ChanTypeOK
<1>. DEFINE n == Len(setBuf)
<1>2. /\ DOMAIN setBuf = 1..n /\ n \in Nat \ {0} /\ DOMAIN setBuf' = 1..(n - 1)
      /\ \A j \in 1..(n - 1) : setBuf'[j] = setBuf[j + 1]
      /\ Head(setBuf) = setBuf[1]
  BY <1>1
<1>. HIDE DEF n
<1>3. \A j \in DOMAIN setBuf' : /\ j + 1 \in DOMAIN setBuf /\ j + 1 # 1
                                /\ setBuf'[j] = setBuf[j + 1]
  BY <1>2
<1>4. \A j \in DOMAIN setBuf : j # 1 => j - 1 \in DOMAIN setBuf' /\ (j - 1) + 1 = j
  BY <1>2
<1>5. 1 \in DOMAIN setBuf
  BY <1>2
<1>6. ASSUME NEW v, v # ZeroValue
      PROVE  Buffered(v)' <=> Buffered(v) /\ ~(Head(setBuf).flag = "new"
                                               /\ Head(setBuf).value = v)
  <2>1. ASSUME Buffered(v)'
        PROVE  Buffered(v) /\ ~(Head(setBuf).flag = "new" /\ Head(setBuf).value = v)
    <3>1. PICK j \in DOMAIN setBuf' : setBuf'[j].flag = "new" /\ setBuf'[j].value = v
      BY <2>1 DEF Buffered
    <3>2. j + 1 \in DOMAIN setBuf /\ j + 1 # 1 /\ setBuf'[j] = setBuf[j + 1]
      BY <1>3
    <3>. QED  BY <1>2, <1>5, <1>6, <3>1, <3>2 DEF Buffered, BufferApart
  <2>2. ASSUME Buffered(v), ~(Head(setBuf).flag = "new" /\ Head(setBuf).value = v)
        PROVE  Buffered(v)'
    <3>1. PICK j \in DOMAIN setBuf : setBuf[j].flag = "new" /\ setBuf[j].value = v
      BY <2>2 DEF Buffered
    <3>2. j # 1
      BY <1>2, <2>2, <3>1
    <3>3. j - 1 \in DOMAIN setBuf' /\ setBuf'[j - 1] = setBuf[j]
      BY <1>3, <1>4, <3>2
    <3>. QED  BY <3>1, <3>3 DEF Buffered
  <2>. QED  BY <2>1, <2>2
<1>7. Head(setBuf).flag = "new" => Buffered(Head(setBuf).value)
  BY <1>2, <1>5 DEF Buffered
<1>8. BufferApart'
  <2>. SUFFICES ASSUME NEW i \in DOMAIN setBuf', NEW j \in DOMAIN setBuf',
                       setBuf'[i].flag = "new", setBuf'[j].flag = "new",
                       setBuf'[i].value = setBuf'[j].value, setBuf'[i].value # ZeroValue
                PROVE  i = j
    BY DEF BufferApart, ZeroValue
  <2>1. i + 1 = j + 1
    BY <1>3 DEF BufferApart
  <2>2. i \in Int /\ j \in Int
    BY <1>2
  <2>. QED  BY <2>1, <2>2
<1>9. \A j \in DOMAIN setBuf' : \E k \in DOMAIN setBuf : setBuf'[j] = setBuf[k]
  BY <1>3
<1>. QED  BY <1>2, <1>5, <1>6, <1>7, <1>8, <1>9

\* The store gives up the entry of value o, and no other; none if o is not stored.
Dropped(o) ==
    /\ \A h \in DOMAIN data' : h \in DOMAIN data /\ data'[h] = data[h]
    /\ \A h \in DOMAIN data : h \in DOMAIN data' <=> data[h].value # o
    /\ o = ZeroValue \/ Stored(o)

\* Del
LEMMA StoreDelDrops ==
    ASSUME GhostTypeOK, Known, StoreApart, NEW key, NEW conflict, StoreDel(key, conflict)
    PROVE  Dropped(DelValue(key, conflict))
<1>1. CASE Held(key, conflict)
  <2>1. /\ key \in DOMAIN data /\ data' = Remove(data, key)
        /\ DelValue(key, conflict) = data[key].value
    BY <1>1 DEF Held, StoreDel, DelValue
  <2>. QED  BY <2>1 DEF Dropped, Remove, Stored, StoreApart
<1>2. CASE ~Held(key, conflict)
  <2>1. UNCHANGED data /\ DelValue(key, conflict) = ZeroValue
    BY <1>2 DEF StoreDel, storeVars, DelValue
  <2>. QED  BY <2>1, ZeroUnknown DEF Dropped, Known
<1>. QED  BY <1>1, <1>2

\* Clear, for one shard
LEMMA ClearShardDrops ==
    ASSUME GhostTypeOK, Known, StoreApart, NEW key, ClearShard(key)
    PROVE  Dropped(DelValue(key, 0))
<1>1. data' = Remove(data, key)
  BY DEF ClearShard
<1>2. CASE key \in DOMAIN data
  <2>1. DelValue(key, 0) = data[key].value
    BY <1>2 DEF Held, Matches, DelValue
  <2>. QED  BY <1>1, <1>2, <2>1 DEF Dropped, Remove, Stored, StoreApart
<1>3. CASE key \notin DOMAIN data
  <2>1. DelValue(key, 0) = ZeroValue
    BY <1>3 DEF Held, DelValue
  <2>. QED  BY <1>1, <1>3, <2>1, ZeroUnknown DEF Dropped, Remove, Known
<1>. QED  BY <1>2, <1>3

\* The places outside the store are as they were.
Elsewhere(v) ==
    /\ (InHand(v) <=> InHand(v)') /\ (Buffered(v) <=> Buffered(v)')
    /\ (Admitting(v) <=> Admitting(v)') /\ (v \in refused <=> v \in refused')

\* A value that leaves the store and is passed to onExit
LEMMA Freed ==
    ASSUME GhostTypeOK, StoreApart, Places, Known, NEW o, Dropped(o), OnExit(o),
           \A v \in DOMAIN exits : Elsewhere(v)
    PROVE  /\ StoreApart' /\ Places' /\ DOMAIN exits' = DOMAIN exits
           /\ \A h \in DOMAIN data' : data'[h].value \in DOMAIN exits'
<1>1. /\ DOMAIN exits' = DOMAIN exits
      /\ \A v \in DOMAIN exits : exits'[v] = IF v = o THEN exits[v] + 1 ELSE exits[v]
  BY ExitsOf
<1>2. StoreApart'
  BY DEF StoreApart, Dropped
<1>3. \A h \in DOMAIN data' : data'[h].value \in DOMAIN exits'
  BY <1>1 DEF Dropped, Known
<1>4. \A v : Stored(v)' <=> Stored(v) /\ v # o
  BY DEF Stored, Dropped
<1>5. ASSUME NEW v \in DOMAIN exits PROVE OnePlace(v)'
  <2>1. OnePlace(v) /\ Elsewhere(v)
    BY DEF Places
  <2>2. CASE v # o
    <3>1. Same(v)
      BY <1>1, <1>4, <2>1, <2>2 DEF Same, Elsewhere
    <3>. QED  BY <2>1, <3>1, SamePlace
  <2>3. CASE v = o
    <3>1. Stored(v)
      BY <2>3, ZeroUnknown DEF Dropped
    <3>2. exits[v] = 0 /\ exits'[v] = 1 /\ ~Stored(v)'
      BY <1>1, <1>4, <2>1, <2>3, <3>1 DEF OnePlace
    <3>. QED  BY <2>1, <3>1, <3>2 DEF OnePlace, Elsewhere
  <2>. QED  BY <2>2, <2>3
<1>6. Places'
  BY <1>1, <1>5 DEF Places
<1>. QED  BY <1>1, <1>2, <1>3, <1>6

\* The store takes value i.value under a key: what was there, if anything, is gone.
LEMMA StoredAfterPut ==
    ASSUME StoreApart, NEW i, data' = Put(data, i.key, Entry(i)), ~Stored(i.value)
    PROVE  /\ StoreApart'
           /\ \A v : Stored(v)' <=>
                 \/ v = i.value
                 \/ Stored(v) /\ ~(i.key \in DOMAIN data /\ data[i.key].value = v)
           /\ \A h \in DOMAIN data' :
                 data'[h].value = i.value \/ (h \in DOMAIN data /\ data'[h] = data[h])
<1>1. /\ DOMAIN data' = DOMAIN data \cup {i.key} /\ data'[i.key].value = i.value
      /\ \A h \in DOMAIN data : h # i.key => data'[h] = data[h]
  BY DEF Put, Entry
<1>2. \A h \in DOMAIN data : data[h].value # i.value
  BY DEF Stored
<1>3. StoreApart'
  BY <1>1, <1>2 DEF StoreApart
<1>4. ASSUME NEW v
      PROVE Stored(v)' <=>
                 \/ v = i.value
                 \/ Stored(v) /\ ~(i.key \in DOMAIN data /\ data[i.key].value = v)
  BY <1>1 DEF Stored, StoreApart
<1>. QED  BY <1>1, <1>3, <1>4

-----------------------------------------------------------------------------
(* Steps of the processor *)

\* What the clients have in hand is not touched.
LEMMA HandsKept ==
    ASSUME ItemsOK, HandsApart, UNCHANGED <<pc, cur>>, DOMAIN exits \subseteq DOMAIN exits'
    PROVE  /\ \A c \in Clients : HandOK(c)'
           /\ HandsApart'
           /\ \A v : InHand(v) <=> InHand(v)'
<1>1. \A c \in Clients : HandOK(c)'
  BY DEF ItemsOK, HandOK, ItemOK, ZeroValue
<1>2. HandsApart'
  BY DEF HandsApart, Holds
<1>3. \A v : InHand(v) <=> InHand(v)'
  BY DEF InHand
<1>. QED  BY <1>1, <1>2, <1>3

\* The items of the buffer remain, or some of them.
LEMMA BufferKept ==
    ASSUME ItemsOK, DOMAIN exits \subseteq DOMAIN exits',
           \A j \in DOMAIN setBuf' : \E k \in DOMAIN setBuf : setBuf'[j] = setBuf[k]
    PROVE  \A j \in DOMAIN setBuf' : ItemOK(setBuf[j])'
<1>. TAKE j \in DOMAIN setBuf'
<1>1. PICK k \in DOMAIN setBuf : setBuf'[j] = setBuf[k]
  OBVIOUS
<1>. QED  BY <1>1 DEF ItemsOK, ItemOK, ZeroValue

\* Receiving an item: a new value goes from the buffer to the processor.
LEMMA ReceiveValues ==
    ASSUME CacheTypeOK, AddInv, CoverInv, ValueInv, ReceiveItem
    PROVE  ValueInv'
<1>0. /\ ChanTypeOK /\ GhostTypeOK /\ PolicyTypeOK
      /\ UNCHANGED <<pc, cur, calls, refused, exits, data>>
      /\ pp = "select" /\ setBuf # <<>> /\ setBuf' = Tail(setBuf)
  BY DEF ReceiveItem, ReceiveWait, ReceiveNew, ReceiveUpdate, ReceiveDelete, ReceiveFlag,
     Receive, ClientsUnchanged, clientVars, storeVars, CacheTypeOK
<1>1. /\ \A c \in Clients : HandOK(c)'
      /\ HandsApart' /\ \A v : InHand(v) <=> InHand(v)'
  BY <1>0, HandsKept DEF ValueInv
<1>. DEFINE i == Head(setBuf)
<1>2. /\ \A v : v # ZeroValue =>
            (Buffered(v)' <=> Buffered(v) /\ ~(i.flag = "new" /\ i.value = v))
      /\ i.flag = "new" => Buffered(i.value)
      /\ BufferApart'
      /\ \A j \in DOMAIN setBuf' : \E k \in DOMAIN setBuf : setBuf'[j] = setBuf[k]
      /\ \E k \in DOMAIN setBuf : i = setBuf[k]
  BY <1>0, BufferedAfterReceive DEF ValueInv
<1>3. ItemOK(i) /\ i \in Items
  BY <1>0, <1>2, TailType DEF ValueInv, ItemsOK
<1>. HIDE DEF i
<1>4. ItemsOK'
  BY <1>0, <1>1, <1>2, BufferKept DEF ValueInv, ItemsOK
<1>5. StoreApart'
  BY <1>0 DEF ValueInv, StoreApart
<1>6. \A v : (Stored(v) <=> Stored(v)') /\ ~Admitting(v)
  BY <1>0 DEF Stored, Admitting
<1>7. ZeroValue \notin DOMAIN exits
  BY <1>0, ZeroUnknown
<1>8. CASE ReceiveNew
  <2>1. /\ i.wg = NoClient /\ i.flag = "new" /\ pitem' = i /\ pp' = "add"
        /\ AddCall(i.key, ItemCost(i))
    BY <1>8 DEF ReceiveNew, ReceiveFlag, i
  <2>2. i.value \in DOMAIN exits
    BY <1>3, <2>1 DEF ItemOK
  <2>3. Known'
    BY <1>0, <2>1, <2>2 DEF ValueInv, Known
  <2>4. Fresh'
    <3>1. i.key \in Hashes /\ ItemCost(i) \in Nat
      BY <1>3, ItemFields, ItemCostType
    <3>2. addPc' # "rejected" => i.key \notin DOMAIN keyCosts
      BY <1>0, <2>1, <3>1, AddCallType DEF AddCall
    <3>3. DOMAIN data \subseteq DOMAIN keyCosts
      BY <1>0 DEF CoverInv, Uncovered
    <3>. QED  BY <1>0, <2>1, <3>2, <3>3 DEF Fresh
  <2>5. \A v : Admitting(v)' <=> v = i.value
    BY <2>1 DEF Admitting
  <2>6. ASSUME NEW v \in DOMAIN exits PROVE OnePlace(v)'
    <3>1. OnePlace(v)
      BY DEF ValueInv, Places
    <3>2. CASE v # i.value
      <4>1. Same(v)
        BY <1>0, <1>1, <1>2, <1>6, <1>7, <2>5, <3>2 DEF Same
      <4>. QED  BY <3>1, <4>1, SamePlace
    <3>3. CASE v = i.value
      <4>1. Buffered(v) /\ ~Buffered(v)' /\ Admitting(v)'
        BY <1>2, <1>7, <2>1, <2>5, <3>3
      <4>. QED  BY <1>0, <1>1, <1>6, <3>1, <4>1 DEF OnePlace
    <3>. QED  BY <3>2, <3>3
  <2>7. Places'
    BY <1>0, <2>6 DEF Places
  <2>. QED  BY <1>1, <1>2, <1>4, <1>5, <2>3, <2>4, <2>7 DEF ValueInv
<1>9. CASE ReceiveWait \/ ReceiveUpdate \/ ReceiveDelete
  <2>1. pp' # "add" /\ (i.flag = "new" => i.value = ZeroValue)
    BY <1>0, <1>3, <1>9 DEF ReceiveWait, ReceiveUpdate, ReceiveDelete, ReceiveFlag, procVars,
       i, ItemOK
  <2>2. Known' /\ Fresh'
    BY <1>0, <2>1 DEF ValueInv, Known, Fresh
  <2>3. \A v \in DOMAIN exits : Same(v)
    BY <1>0, <1>1, <1>2, <1>6, <1>7, <2>1 DEF Same, Admitting
  <2>4. Places'
    BY <1>0, <2>3, SamePlace DEF ValueInv, Places
  <2>. QED  BY <1>1, <1>2, <1>4, <1>5, <2>2, <2>4 DEF ValueInv
<1>. QED  BY <1>8, <1>9 DEF ReceiveItem

\* Leaving Add: the value goes from the processor to the store or out.
LEMMA AddedValues ==
    ASSUME CacheTypeOK, AddInv, ValueInv, Added \/ Rejected
    PROVE  ValueInv'
<1>0. /\ GhostTypeOK /\ pitem \in Items
      /\ UNCHANGED <<pc, cur, calls, refused, setBuf>>
      /\ pp = "add" /\ pp' # "add"
  BY DEF Added, Rejected, LeaveAdd, ClientsUnchanged, clientVars, CacheTypeOK, ProcTypeOK
<1>1. ZeroValue \notin DOMAIN exits /\ pitem.value \in DOMAIN exits
  BY <1>0, ZeroUnknown DEF ValueInv, Known
<1>2. DOMAIN exits' = DOMAIN exits
  BY <1>0, ExitsOf DEF Added, Rejected
<1>3. /\ \A c \in Clients : HandOK(c)'
      /\ HandsApart' /\ \A v : InHand(v) <=> InHand(v)'
  BY <1>0, <1>2, HandsKept DEF ValueInv
<1>4. /\ ItemsOK' /\ BufferApart' /\ \A v : Buffered(v) <=> Buffered(v)'
  BY <1>0, <1>2, <1>3, BufferKept DEF ValueInv, ItemsOK, BufferApart, Buffered, ZeroValue
<1>5. \A v : (Admitting(v) <=> v = pitem.value) /\ ~Admitting(v)'
  BY <1>0 DEF Admitting
<1>6. Fresh'
  BY <1>0 DEF Fresh
<1>. DEFINE a == pitem.value
<1>7. OnePlace(a) /\ Admitting(a)
  BY <1>1, <1>5 DEF ValueInv, Places
<1>8. CASE Added
  <2>1. /\ StoreSet(pitem) /\ UNCHANGED exits /\ pitem.key \notin DOMAIN data
    BY <1>0, <1>8 DEF Added, LeaveAdd, ValueInv, Fresh
  <2>2. data' = Put(data, pitem.key, Entry(pitem)) /\ ~Stored(a)
    BY <1>7, <2>1 DEF StoreSet, OnePlace
  <2>3. /\ StoreApart'
        /\ \A v : Stored(v)' <=> v = a \/ Stored(v)
        /\ \A h \in DOMAIN data' :
              data'[h].value = a \/ (h \in DOMAIN data /\ data'[h] = data[h])
    BY <2>1, <2>2, StoredAfterPut DEF ValueInv
  <2>4. Known'
    BY <1>0, <1>1, <2>1, <2>3 DEF ValueInv, Known
  <2>. HIDE DEF a
  <2>5. ASSUME NEW v \in DOMAIN exits PROVE OnePlace(v)'
    <3>1. OnePlace(v)
      BY DEF ValueInv, Places
    <3>2. CASE v # a
      <4>1. Same(v)
        BY <1>0, <1>3, <1>4, <1>5, <2>1, <2>3, <3>2 DEF Same, a
      <4>. QED  BY <3>1, <4>1, SamePlace
    <3>3. CASE v = a
      BY <1>0, <1>3, <1>4, <1>5, <1>7, <2>1, <2>3, <3>1, <3>3 DEF OnePlace
    <3>. QED  BY <3>2, <3>3
  <2>6. Places'
    BY <1>2, <2>5 DEF Places
  <2>. QED  BY <1>3, <1>4, <1>6, <2>3, <2>4, <2>6 DEF ValueInv
<1>9. CASE Rejected
  <2>1. UNCHANGED data /\ OnExit(a)
    BY <1>9 DEF Rejected, storeVars
  <2>2. \A v \in DOMAIN exits : exits'[v] = IF v = a THEN exits[v] + 1 ELSE exits[v]
    BY <1>0, <2>1, ExitsOf
  <2>3. StoreApart' /\ \A v : Stored(v) <=> Stored(v)'
    BY <2>1 DEF ValueInv, StoreApart, Stored
  <2>4. Known'
    BY <1>0, <1>2, <2>1 DEF ValueInv, Known
  <2>. HIDE DEF a
  <2>5. ASSUME NEW v \in DOMAIN exits PROVE OnePlace(v)'
    <3>1. OnePlace(v)
      BY DEF ValueInv, Places
    <3>2. CASE v # a
      <4>1. Same(v)
        BY <1>0, <1>3, <1>4, <1>5, <2>2, <2>3, <3>2 DEF Same, a
      <4>. QED  BY <3>1, <4>1, SamePlace
    <3>3. CASE v = a
      <4>1. exits[v] = 0 /\ exits'[v] = 1
        BY <1>7, <2>2, <3>1, <3>3 DEF OnePlace
      <4>. QED  BY <1>0, <1>3, <1>4, <1>5, <1>7, <2>3, <3>1, <3>3, <4>1 DEF OnePlace
    <3>. QED  BY <3>2, <3>3
  <2>6. Places'
    BY <1>2, <2>5 DEF Places
  <2>. QED  BY <1>3, <1>4, <1>6, <2>3, <2>4, <2>6 DEF ValueInv
<1>. QED  BY <1>8, <1>9

\* The deletions: victims, deleted and expired entries leave the store and the cache.
LEMMA DeletedValues ==
    ASSUME CacheTypeOK, ValueInv, EvictVictim \/ DeleteStored \/ CleanupDel
    PROVE  ValueInv'
<1>0. /\ GhostTypeOK
      /\ UNCHANGED <<pc, cur, calls, refused, setBuf>>
      /\ pp # "add" /\ pp' # "add"
  BY DEF EvictVictim, DeleteStored, CleanupDel, ClientsUnchanged, clientVars, CacheTypeOK
<1>1. PICK key, conflict : /\ StoreDel(key, conflict) /\ OnExit(DelValue(key, conflict))
  BY DEF EvictVictim, DeleteStored, CleanupDel
<1>. DEFINE o == DelValue(key, conflict)
<1>2. Dropped(o) /\ OnExit(o)
  BY <1>0, <1>1, StoreDelDrops DEF ValueInv
<1>3. DOMAIN exits' = DOMAIN exits
  BY <1>0, <1>1, ExitsOf
<1>. HIDE DEF o
<1>4. /\ \A c \in Clients : HandOK(c)'
      /\ HandsApart' /\ \A v : InHand(v) <=> InHand(v)'
  BY <1>0, <1>3, HandsKept DEF ValueInv
<1>5. /\ ItemsOK' /\ BufferApart' /\ \A v : Buffered(v) <=> Buffered(v)'
  BY <1>0, <1>3, <1>4, BufferKept DEF ValueInv, ItemsOK, BufferApart, Buffered, ZeroValue
<1>6. \A v : Elsewhere(v)
  BY <1>0, <1>4, <1>5 DEF Elsewhere, Admitting
<1>7. /\ StoreApart' /\ Places'
      /\ \A h \in DOMAIN data' : data'[h].value \in DOMAIN exits'
  BY <1>0, <1>2, <1>6, Freed DEF ValueInv
<1>8. Known' /\ Fresh'
  BY <1>0, <1>3, <1>7 DEF ValueInv, Known, Fresh
<1>. QED  BY <1>4, <1>5, <1>7, <1>8 DEF ValueInv

\* A step that moves no value
LEMMA NothingMoves ==
    ASSUME ValueInv, UNCHANGED <<data, setBuf, pc, cur, calls, refused, exits>>,
           pp = "add" <=> pp' = "add",
           pp = "add" => UNCHANGED pitem /\ (addPc' # "rejected" => addPc # "rejected")
    PROVE  ValueInv'
<1>1. Fresh' /\ Known'
  BY DEF ValueInv, Fresh, Known
<1>2. ItemsOK' /\ HandsApart'
  BY HandsKept, BufferKept DEF ValueInv, ItemsOK
<1>3. BufferApart' /\ StoreApart'
  BY DEF ValueInv, BufferApart, StoreApart, ZeroValue
<1>4. \A v : Same(v)
  BY DEF Same, InHand, Buffered, Admitting, Stored
<1>5. Places'
  BY <1>4, SamePlace DEF ValueInv, Places
<1>. QED  BY <1>1, <1>2, <1>3, <1>5 DEF ValueInv

\* Steps of the processor
LEMMA ProcessorValues ==
    ASSUME CacheTypeOK, AddInv, CoverInv, ValueInv, ReceiveItem \/ Process \/ CleanupStart
    PROVE  ValueInv'
<1>1. CASE ReceiveItem
  BY <1>1, ReceiveValues
<1>2. CASE Admit
  <2>1. /\ UNCHANGED <<data, setBuf, pc, cur, calls, refused, exits, pp, pitem>>
        /\ addPc # "rejected"
    BY <1>2 DEF Admit, AddStep, AddFits, AddNoRoom, AddReject, AddEvict, ClientsUnchanged,
       clientVars, storeVars, procVars
  <2>. QED  BY <2>1, NothingMoves
<1>3. CASE Added \/ Rejected
  BY <1>3, AddedValues
<1>4. CASE EvictVictim \/ DeleteStored \/ CleanupDel
  BY <1>4, DeletedValues
<1>5. CASE CleanupCheck \/ CleanupStart
  <2>1. /\ UNCHANGED <<data, setBuf, pc, cur, calls, refused, exits>>
        /\ pp # "add" /\ pp' # "add"
    BY <1>5 DEF CleanupCheck, CleanupStart, emExtract, ClientsUnchanged, clientVars, storeVars
  <2>. QED  BY <2>1, NothingMoves
<1>. QED  BY <1>1, <1>2, <1>3, <1>4, <1>5 DEF Process

-----------------------------------------------------------------------------
(* Steps of the clients *)

\* A step of client c leaves the others' hands alone.
OthersKept(c) == \A d \in Clients \ {c} : pc'[d] = pc[d] /\ cur'[d] = cur[d]

\* The hands of the other clients hold what they held.
LEMMA OthersHands ==
    ASSUME ItemsOK, HandsApart, NEW c \in Clients, OthersKept(c), HandOK(c)',
           DOMAIN exits \subseteq DOMAIN exits'
    PROVE  \A d \in Clients : HandOK(d)'
<1>1. ASSUME NEW d \in Clients \ {c} PROVE HandOK(d)'
  BY DEF ItemsOK, HandOK, ItemOK, ZeroValue, OthersKept
<1>. QED  BY <1>1

\* The client holds nothing after the step.
LEMMA HandEmptied ==
    ASSUME HandsApart, NEW c \in Clients, OthersKept(c), ~Holds(c)'
    PROVE  /\ HandsApart'
           /\ \A v : InHand(v)' <=> InHand(v) /\ ~(Holds(c) /\ cur[c].value = v)
<1>1. \A d \in Clients \ {c} : /\ Holds(d)' <=> Holds(d)
                               /\ cur'[d] = cur[d]
  BY DEF Holds, OthersKept
<1>2. \A v : /\ InHand(v) <=> \E d \in Clients : Holds(d) /\ cur[d].value = v
             /\ InHand(v)' <=> \E d \in Clients : Holds(d)' /\ cur'[d].value = v
  BY DEF InHand, Holds
<1>3. HandsApart'
  <2>. SUFFICES ASSUME NEW d \in Clients, NEW e \in Clients, Holds(d)', Holds(e)',
                       cur'[d].value = cur'[e].value
                PROVE  d = e
    BY DEF HandsApart
  <2>. QED  BY <1>1 DEF HandsApart
<1>4. ASSUME NEW v
      PROVE  InHand(v)' <=> InHand(v) /\ ~(Holds(c) /\ cur[c].value = v)
  BY <1>1, <1>2 DEF HandsApart
<1>. QED  BY <1>3, <1>4

\* The processor keeps what it is adding.
LEMMA AdmittingKept ==
    ASSUME CacheTypeOK, StopInv, NEW c \in Clients, Invoke(c) \/ Continue(c)
    PROVE  /\ pp = "add" <=> pp' = "add"
           /\ UNCHANGED <<pitem, addPc>>
           /\ \A v : Admitting(v) <=> Admitting(v)'
<1>1. /\ pp = "add" <=> pp' = "add"
      /\ UNCHANGED <<pitem, addPc>>
  BY ClientStepControl DEF StopInv, Stopped
<1>. QED  BY <1>1 DEF Admitting

\* No client makes a key that is being added appear in the store.
LEMMA FreshKept ==
    ASSUME CacheTypeOK, StopInv, Fresh, NEW c \in Clients, Invoke(c) \/ Continue(c)
    PROVE  Fresh'
  BY AdmittingKept, ClientStepData DEF Fresh

\* The call of Set brings a value.
LEMMA SetInvokeValues ==
    ASSUME CacheTypeOK, StopInv, ValueInv, NEW c \in Clients, NEW k \in Keys,
           NEW cost, NEW ttl, SetInvoke(c, k, cost, ttl), Invoke(c) \/ Continue(c)
    PROVE  ValueInv'
<1>. PICK n : n = calls + 1
  OBVIOUS
<1>0. /\ GhostTypeOK /\ pc \in [Clients -> ClientPcs] /\ cur \in [Clients -> Items]
      /\ UNCHANGED <<setBuf, data, refused>> /\ pc[c] = "idle" /\ calls' = n
      /\ pc' = [pc EXCEPT ![c] = "update"]
      /\ cur' = [cur EXCEPT ![c] = NewItem("new", k, n, cost, ExpirationOf(ttl), NoClient)]
      /\ exits' = Put(exits, n, 0)
  BY DEF SetInvoke, Call, Goto, CacheTypeOK, ClientTypeOK, chanVars, storeVars
<1>1. /\ calls \in Nat /\ n \notin DOMAIN exits
      /\ DOMAIN exits' = DOMAIN exits \cup {n} /\ exits'[n] = 0
      /\ \A v \in DOMAIN exits : exits'[v] = exits[v]
  BY <1>0 DEF GhostTypeOK, ValueInv, Known, Put
<1>2. /\ OthersKept(c) /\ pc'[c] = "update" /\ ~Holds(c)
      /\ cur'[c].flag = "new" /\ cur'[c].wg = NoClient /\ cur'[c].value = n
  BY <1>0 DEF OthersKept, NewItem, Holds
<1>3. HandOK(c)'
  BY <1>1, <1>2 DEF HandOK, ItemOK, ZeroValue
<1>4. ItemsOK'
  BY <1>0, <1>1, <1>2, <1>3, OthersHands, BufferKept DEF ValueInv, ItemsOK
<1>5. Known' /\ Fresh'
  <2>1. DOMAIN exits' \subseteq 1..calls'
    BY <1>0, <1>1 DEF ValueInv, Known
  <2>2. pp' = "add" => pitem'.value \in DOMAIN exits'
    BY <1>1, AdmittingKept DEF ValueInv, Known
  <2>. QED  BY <1>0, <1>1, <2>1, <2>2, FreshKept DEF ValueInv, Known
<1>6. BufferApart' /\ StoreApart'
  BY <1>0 DEF ValueInv, BufferApart, StoreApart, ZeroValue
<1>7. ASSUME NEW d \in Clients, Holds(d) PROVE cur[d].value \in DOMAIN exits
  BY <1>7 DEF ValueInv, ItemsOK, HandOK, ItemOK, Holds
<1>8. \A d \in Clients \ {c} : (Holds(d)' <=> Holds(d)) /\ cur'[d] = cur[d]
  BY <1>2 DEF Holds, OthersKept
<1>9. HandsApart'
  <2>. SUFFICES ASSUME NEW d \in Clients, NEW e \in Clients, Holds(d)', Holds(e)',
                       cur'[d].value = cur'[e].value
                PROVE  d = e
    BY DEF HandsApart
  <2>. QED  BY <1>1, <1>2, <1>7, <1>8 DEF ValueInv, HandsApart
<1>10. \A v : InHand(v)' <=> InHand(v) \/ v = n
  <2>1. \A v : /\ InHand(v) <=> \E d \in Clients : Holds(d) /\ cur[d].value = v
               /\ InHand(v)' <=> \E d \in Clients : Holds(d)' /\ cur'[d].value = v
    BY DEF InHand, Holds
  <2>2. Holds(c)'
    BY <1>2 DEF Holds
  <2>. QED  BY <1>2, <1>8, <2>1, <2>2
<1>11. \A v : /\ Buffered(v) <=> Buffered(v)'
              /\ Stored(v) <=> Stored(v)'
              /\ Admitting(v) <=> Admitting(v)'
  BY <1>0, AdmittingKept DEF Buffered, Stored
<1>12. ASSUME NEW v \in DOMAIN exits PROVE OnePlace(v)'
  <2>1. Same(v)
    BY <1>0, <1>1, <1>10, <1>11 DEF Same
  <2>. QED  BY <2>1, SamePlace DEF ValueInv, Places
<1>13. OnePlace(n)'
  <2>1. ~Buffered(n) /\ ~Stored(n) /\ ~Admitting(n) /\ n \notin refused
    <3>1. ~Stored(n) /\ ~Admitting(n) /\ n \notin refused
      BY <1>1 DEF ValueInv, Known, Stored, Admitting
    <3>2. n # ZeroValue
      BY <1>1 DEF ZeroValue
    <3>3. ~Buffered(n)
      BY <1>1, <3>2 DEF ValueInv, ItemsOK, ItemOK, Buffered
    <3>. QED  BY <3>1, <3>3
  <2>. QED  BY <1>0, <1>1, <1>10, <1>11, <2>1 DEF OnePlace
<1>14. Places'
  BY <1>1, <1>12, <1>13 DEF Places
<1>. QED  BY <1>4, <1>5, <1>6, <1>9, <1>14 DEF ValueInv

\* storedItems.Update: the value goes from the client's hand to the store if the key is
\* there, and the value it replaces goes out.
LEMMA SetUpdateValues ==
    ASSUME CacheTypeOK, StopInv, ValueInv, NEW c \in Clients, SetUpdate(c),
           Invoke(c) \/ Continue(c)
    PROVE  ValueInv'
<1>0. /\ GhostTypeOK /\ pc \in [Clients -> ClientPcs] /\ cur \in [Clients -> Items]
      /\ UNCHANGED <<setBuf, refused, calls>> /\ pc[c] = "update"
      /\ pc' = [pc EXCEPT ![c] = "send"] /\ cur[c] \in Items
  BY DEF SetUpdate, Goto, CacheTypeOK, ClientTypeOK, chanVars
<1>1. /\ cur[c].flag = "new" /\ cur[c].wg = NoClient /\ cur[c].value \in DOMAIN exits
      /\ Holds(c) /\ InHand(cur[c].value)
  BY <1>0 DEF ValueInv, ItemsOK, HandOK, ItemOK, Holds, InHand
<1>2. /\ BufferApart' /\ \A v : Buffered(v) <=> Buffered(v)'
      /\ \A v : Admitting(v) <=> Admitting(v)'
      /\ UNCHANGED pitem /\ pp = "add" <=> pp' = "add"
  BY <1>0, AdmittingKept DEF ValueInv, BufferApart, Buffered, ZeroValue
<1>3. CASE Replaceable(cur[c])
  <2>. PICK a, o : a = cur[c].value /\ o = data[cur[c].key].value
    OBVIOUS
  <2>1. /\ data' = Put(data, cur[c].key, Entry(cur[c])) /\ OnExit(o)
        /\ cur' = [cur EXCEPT ![c].flag = "update"] /\ cur[c].key \in DOMAIN data
    BY <1>3 DEF SetUpdate, StoreUpdate, Replace, Replaceable, Held
  <2>2. /\ DOMAIN exits' = DOMAIN exits
        /\ \A v \in DOMAIN exits : exits'[v] = IF v = o THEN exits[v] + 1 ELSE exits[v]
    BY <1>0, <2>1, ExitsOf
  <2>3. /\ OthersKept(c) /\ pc'[c] = "send" /\ ~Holds(c)'
        /\ cur'[c].flag = "update" /\ cur'[c].wg = NoClient
    BY <1>0, <1>1, <2>1 DEF OthersKept, Holds, Items
  <2>4. HandOK(c)'
    BY <2>3 DEF HandOK, ItemOK, ZeroValue
  <2>5. ItemsOK'
    BY <1>0, <2>2, <2>3, <2>4, OthersHands, BufferKept DEF ValueInv, ItemsOK
  <2>6. HandsApart' /\ \A v : InHand(v)' <=> InHand(v) /\ v # a
    BY <1>1, <2>3, HandEmptied DEF ValueInv
  <2>7. OnePlace(a) /\ Stored(o) /\ o \in DOMAIN exits /\ OnePlace(o)
    BY <1>1, <2>1 DEF ValueInv, Places, Stored, Known
  <2>8. ~Stored(a) /\ a # o
    BY <1>1, <2>7 DEF OnePlace
  <2>9. /\ StoreApart'
        /\ \A v : Stored(v)' <=> v = a \/ (Stored(v) /\ v # o)
        /\ \A h \in DOMAIN data' :
              data'[h].value = a \/ (h \in DOMAIN data /\ data'[h] = data[h])
    BY <2>1, <2>8, StoredAfterPut DEF ValueInv
  <2>10. Known' /\ Fresh'
    BY <1>0, <1>1, <1>2, <2>2, <2>9, FreshKept DEF ValueInv, Known
  <2>11. ASSUME NEW v \in DOMAIN exits PROVE OnePlace(v)'
    <3>1. OnePlace(v)
      BY DEF ValueInv, Places
    <3>2. CASE v # a /\ v # o
      <4>1. Same(v)
        BY <1>0, <1>2, <2>2, <2>6, <2>9, <3>2 DEF Same
      <4>. QED  BY <3>1, <4>1, SamePlace
    <3>3. CASE v = a
      <4>1. exits'[v] = exits[v] /\ InHand(v) /\ ~InHand(v)' /\ Stored(v)'
        BY <1>1, <2>2, <2>6, <2>8, <2>9, <3>3
      <4>. QED  BY <1>0, <1>2, <3>1, <4>1 DEF OnePlace
    <3>4. CASE v = o
      <4>1. Stored(v) /\ ~Stored(v)' /\ (InHand(v) <=> InHand(v)')
        BY <2>6, <2>7, <2>8, <2>9, <3>4
      <4>2. exits[v] = 0 /\ exits'[v] = 1
        BY <2>2, <3>1, <3>4, <4>1 DEF OnePlace
      <4>. QED  BY <1>0, <1>2, <3>1, <4>1, <4>2 DEF OnePlace
    <3>. QED  BY <3>2, <3>3, <3>4
  <2>12. Places'
    BY <2>2, <2>11 DEF Places
  <2>. QED  BY <1>2, <2>5, <2>6, <2>9, <2>10, <2>12 DEF ValueInv
<1>4. CASE ~Replaceable(cur[c])
  <2>1. UNCHANGED <<data, cur, exits>>
    BY <1>4 DEF SetUpdate, StoreUpdate, storeVars
  <2>2. OthersKept(c) /\ pc'[c] = "send"
    BY <1>0, <2>1 DEF OthersKept
  <2>3. HandOK(c)'
    BY <1>1, <2>1, <2>2 DEF HandOK, ItemOK, ZeroValue
  <2>4. ItemsOK'
    BY <1>0, <2>1, <2>2, <2>3, OthersHands, BufferKept DEF ValueInv, ItemsOK
  <2>5. \A d \in Clients : Holds(d)' <=> Holds(d)
    BY <1>0, <1>1, <2>1, <2>2 DEF Holds, OthersKept
  <2>6. HandsApart' /\ \A v : InHand(v) <=> InHand(v)'
    <3>1. \A v : /\ InHand(v) <=> \E d \in Clients : Holds(d) /\ cur[d].value = v
                 /\ InHand(v)' <=> \E d \in Clients : Holds(d)' /\ cur'[d].value = v
      BY DEF InHand, Holds
    <3>2. HandsApart'
      BY <2>1, <2>5 DEF ValueInv, HandsApart
    <3>. QED  BY <2>1, <2>5, <3>1, <3>2
  <2>7. StoreApart' /\ \A v : Stored(v) <=> Stored(v)'
    BY <2>1 DEF ValueInv, StoreApart, Stored
  <2>8. Known' /\ Fresh'
    BY <1>0, <1>2, <2>1, FreshKept DEF ValueInv, Known
  <2>9. \A v : Same(v)
    BY <1>0, <1>2, <2>1, <2>6, <2>7 DEF Same
  <2>10. Places'
    BY <2>1, <2>9, SamePlace DEF ValueInv, Places
  <2>. QED  BY <1>2, <2>4, <2>6, <2>7, <2>8, <2>10 DEF ValueInv
<1>. QED  BY <1>3, <1>4

\* The send of a Set: the value goes to the buffer, or back to the caller.
LEMMA SetSendValues ==
    ASSUME CacheTypeOK, StopInv, ValueInv, NEW c \in Clients, SetSend(c),
           Invoke(c) \/ Continue(c), pc' # pc
    PROVE  ValueInv'
<1>0. /\ GhostTypeOK /\ pc \in [Clients -> ClientPcs] /\ cur \in [Clients -> Items]
      /\ UNCHANGED <<data, exits, calls>> /\ pc[c] = "send"
      /\ pc' = [pc EXCEPT ![c] = "idle"]
      /\ cur' = [cur EXCEPT ![c] = WaitItem(NoClient)] /\ cur[c] \in Items /\ ChanTypeOK
  BY DEF SetSend, Return, Goto, CacheTypeOK, ClientTypeOK, storeVars
<1>. PICK a : a = cur[c].value
  OBVIOUS
<1>1. /\ cur[c].flag \in {"new", "update"} /\ cur[c].wg = NoClient /\ ItemOK(cur[c])
      /\ cur[c].flag = "new" => Holds(c) /\ InHand(a) /\ a \in DOMAIN exits
  BY <1>0 DEF ValueInv, ItemsOK, HandOK, ItemOK, Holds, InHand
<1>2. /\ \A v : Admitting(v) <=> Admitting(v)'
      /\ UNCHANGED pitem /\ pp = "add" <=> pp' = "add"
  BY AdmittingKept
<1>3. StoreApart' /\ \A v : Stored(v) <=> Stored(v)'
  BY <1>0 DEF ValueInv, StoreApart, Stored
<1>4. /\ OthersKept(c) /\ ~Holds(c)' /\ HandOK(c)'
  BY <1>0 DEF OthersKept, Holds, HandOK
<1>5. /\ \A d \in Clients : HandOK(d)'
      /\ HandsApart'
      /\ \A v : InHand(v)' <=> InHand(v) /\ ~(cur[c].flag = "new" /\ v = a)
  <2>1. Holds(c) <=> cur[c].flag = "new"
    BY <1>0 DEF Holds
  <2>. QED  BY <1>0, <1>4, <2>1, OthersHands, HandEmptied DEF ValueInv
<1>6. Fresh'
  BY FreshKept DEF ValueInv
<1>7. CASE setBuf' = Append(setBuf, cur[c]) /\ UNCHANGED refused
  <2>1. cur[c].flag = "new" => ~Buffered(a) /\ OnePlace(a)
    BY <1>1 DEF ValueInv, Places, OnePlace
  <2>2. /\ \A v : Buffered(v)' <=> Buffered(v) \/ (cur[c].flag = "new" /\ v = a)
        /\ BufferApart'
        /\ \A j \in DOMAIN setBuf' :
              setBuf'[j] = cur[c] \/ \E k \in DOMAIN setBuf : setBuf'[j] = setBuf[k]
    BY <1>0, <1>7, <2>1, BufferedAfterSend DEF ValueInv
  <2>3. \A j \in DOMAIN setBuf' : ItemOK(setBuf[j])'
    BY <1>0, <1>1, <2>2 DEF ValueInv, ItemsOK, ItemOK, ZeroValue
  <2>4. Known'
    BY <1>0, <1>2, <1>7 DEF ValueInv, Known
  <2>5. ASSUME NEW v \in DOMAIN exits PROVE OnePlace(v)'
    <3>1. OnePlace(v)
      BY DEF ValueInv, Places
    <3>2. CASE ~(cur[c].flag = "new" /\ v = a)
      <4>1. Same(v)
        BY <1>0, <1>2, <1>3, <1>5, <1>7, <2>2, <3>2 DEF Same
      <4>. QED  BY <3>1, <4>1, SamePlace
    <3>3. CASE cur[c].flag = "new" /\ v = a
      <4>1. InHand(v) /\ ~InHand(v)' /\ Buffered(v)'
        BY <1>1, <1>5, <2>2, <3>3
      <4>. QED  BY <1>0, <1>2, <1>3, <1>7, <3>1, <4>1 DEF OnePlace
    <3>. QED  BY <3>2, <3>3
  <2>6. Places'
    BY <1>0, <2>5 DEF Places
  <2>. QED  BY <1>3, <1>5, <1>6, <2>2, <2>3, <2>4, <2>6 DEF ValueInv, ItemsOK
<1>8. CASE /\ UNCHANGED setBuf
           /\ refused' = IF cur[c].flag = "update" THEN refused ELSE refused \cup {a}
  <2>1. BufferApart' /\ \A v : Buffered(v) <=> Buffered(v)'
    BY <1>8 DEF ValueInv, BufferApart, Buffered, ZeroValue
  <2>2. \A j \in DOMAIN setBuf' : ItemOK(setBuf[j])'
    BY <1>0, <1>8, BufferKept DEF ValueInv, ItemsOK
  <2>3. Known'
    BY <1>0, <1>1, <1>2, <1>8 DEF ValueInv, Known
  <2>4. ASSUME NEW v \in DOMAIN exits PROVE OnePlace(v)'
    <3>1. OnePlace(v)
      BY DEF ValueInv, Places
    <3>2. CASE ~(cur[c].flag = "new" /\ v = a)
      <4>1. Same(v)
        BY <1>0, <1>1, <1>2, <1>3, <1>5, <1>8, <2>1, <3>2 DEF Same
      <4>. QED  BY <3>1, <4>1, SamePlace
    <3>3. CASE cur[c].flag = "new" /\ v = a
      <4>1. InHand(v) /\ ~InHand(v)' /\ v \in refused'
        BY <1>1, <1>5, <1>8, <3>3
      <4>. QED  BY <1>0, <1>2, <1>3, <2>1, <3>1, <4>1 DEF OnePlace
    <3>. QED  BY <3>2, <3>3
  <2>5. Places'
    BY <1>0, <2>4 DEF Places
  <2>. QED  BY <1>3, <1>5, <1>6, <2>1, <2>2, <2>3, <2>5 DEF ValueInv, ItemsOK
<1>. QED  BY <1>7, <1>8 DEF SetSend, Send

\* Del, for its client, and Clear, for one shard: an entry leaves the store.
LEMMA ClientDelValues ==
    ASSUME CacheTypeOK, StopInv, ValueInv, NEW c \in Clients, DelStore(c) \/ ClearShards(c),
           Invoke(c) \/ Continue(c)
    PROVE  ValueInv'
<1>0. /\ GhostTypeOK /\ pc \in [Clients -> ClientPcs]
      /\ UNCHANGED <<setBuf, refused, calls, cur>> /\ pc[c] \in {"del", "clearShards"}
      /\ pc'[c] \in {"sendDel", "clearShards", "emClear"}
      /\ pc'[c] = "sendDel" => pc[c] = "del"
      /\ \A d \in Clients \ {c} : pc'[d] = pc[d]
  BY ClientStepPc DEF DelStore, ClearShards, Goto, CacheTypeOK, ClientTypeOK, chanVars
<1>1. \E o : Dropped(o) /\ OnExit(o)
  <2>1. CASE DelStore(c)
    BY <1>0, <2>1, StoreDelDrops DEF DelStore, ValueInv
  <2>2. CASE ClearShards(c)
    <3>1. PICK h \in shards : ClearShard(h) /\ OnExit(DelValue(h, 0))
      BY <2>2 DEF ClearShards
    <3>. QED  BY <1>0, <3>1, ClearShardDrops DEF ValueInv
  <2>. QED  BY <2>1, <2>2
<1>2. PICK o : Dropped(o) /\ OnExit(o)
  BY <1>1
<1>3. DOMAIN exits' = DOMAIN exits
  BY <1>0, <1>2, ExitsOf
<1>4. OthersKept(c) /\ ~Holds(c) /\ ~Holds(c)'
  BY <1>0 DEF OthersKept, Holds
<1>5. HandOK(c)'
  BY <1>0, <1>3 DEF ValueInv, ItemsOK, HandOK, ItemOK, ZeroValue
<1>6. /\ HandsApart' /\ \A v : InHand(v) <=> InHand(v)'
  BY <1>4, HandEmptied DEF ValueInv
<1>7. /\ ItemsOK' /\ BufferApart' /\ \A v : Buffered(v) <=> Buffered(v)'
  <2>1. \A d \in Clients : HandOK(d)'
    BY <1>3, <1>4, <1>5, OthersHands DEF ValueInv
  <2>. QED  BY <1>0, <1>3, <2>1, BufferKept DEF ValueInv, ItemsOK, BufferApart, Buffered,
              ZeroValue
<1>8. \A v : Elsewhere(v)
  BY <1>0, <1>6, <1>7, AdmittingKept DEF Elsewhere
<1>9. /\ StoreApart' /\ Places'
      /\ \A h \in DOMAIN data' : data'[h].value \in DOMAIN exits'
  BY <1>0, <1>2, <1>8, Freed DEF ValueInv
<1>10. Known' /\ Fresh'
  BY <1>0, <1>3, <1>9, AdmittingKept, FreshKept DEF ValueInv, Known
<1>. QED  BY <1>6, <1>7, <1>9, <1>10 DEF ValueInv

\* Clear takes an item out of the buffer, and the value of a new item out of the cache.
LEMMA DrainValues ==
    ASSUME CacheTypeOK, StopInv, ValueInv, NEW c \in Clients, Drain(c), setBuf # <<>>,
           Invoke(c) \/ Continue(c)
    PROVE  ValueInv'
<1>0. /\ GhostTypeOK /\ ChanTypeOK /\ UNCHANGED <<pc, cur, data, refused, calls>>
      /\ setBuf' = Tail(setBuf) /\ Drained(Head(setBuf))
  BY DEF Drain, CacheTypeOK, storeVars
<1>. PICK i : i = Head(setBuf)
  OBVIOUS
<1>1. /\ \A v : v # ZeroValue =>
            (Buffered(v)' <=> Buffered(v) /\ ~(i.flag = "new" /\ i.value = v))
      /\ i.flag = "new" => Buffered(i.value)
      /\ BufferApart'
      /\ \A j \in DOMAIN setBuf' : \E k \in DOMAIN setBuf : setBuf'[j] = setBuf[k]
      /\ \E k \in DOMAIN setBuf : i = setBuf[k]
  BY <1>0, BufferedAfterReceive DEF ValueInv
<1>2. ItemOK(i) /\ i \in Items
  BY <1>0, <1>1, TailType DEF ValueInv, ItemsOK
<1>3. ZeroValue \notin DOMAIN exits
  BY <1>0, ZeroUnknown
<1>4. /\ DOMAIN exits' = DOMAIN exits
      /\ \A v \in DOMAIN exits :
            exits'[v] = IF i.flag = "new" /\ i.value = v THEN exits[v] + 1 ELSE exits[v]
  <2>1. CASE i.wg # NoClient \/ i.flag = "update"
    <3>1. UNCHANGED exits
      BY <1>0, <2>1 DEF Drained
    <3>2. i.flag = "new" => i.value = ZeroValue
      BY <1>2, <2>1 DEF ItemOK
    <3>. QED  BY <1>3, <3>1, <3>2
  <2>2. CASE i.wg = NoClient /\ i.flag # "update"
    <3>1. OnExit(i.value)
      BY <1>0, <2>2 DEF Drained
    <3>2. i.flag # "new" => i.value = ZeroValue
      BY <1>2, <2>2 DEF ItemOK, Items
    <3>. QED  BY <1>0, <1>3, <3>1, <3>2, ExitsOf
  <2>. QED  BY <2>1, <2>2
<1>5. /\ \A d \in Clients : HandOK(d)'
      /\ HandsApart' /\ \A v : InHand(v) <=> InHand(v)'
  BY <1>0, <1>4, HandsKept DEF ValueInv
<1>6. ItemsOK'
  BY <1>1, <1>4, <1>5, BufferKept DEF ValueInv, ItemsOK
<1>7. StoreApart' /\ \A v : Stored(v) <=> Stored(v)'
  BY <1>0 DEF ValueInv, StoreApart, Stored
<1>8. Known' /\ Fresh' /\ \A v : Admitting(v) <=> Admitting(v)'
  BY <1>0, <1>4, AdmittingKept, FreshKept DEF ValueInv, Known
<1>9. ASSUME NEW v \in DOMAIN exits PROVE OnePlace(v)'
  <2>1. OnePlace(v)
    BY DEF ValueInv, Places
  <2>2. CASE ~(i.flag = "new" /\ i.value = v)
    <3>1. Same(v)
      BY <1>0, <1>1, <1>3, <1>4, <1>5, <1>7, <1>8, <2>2 DEF Same
    <3>. QED  BY <2>1, <3>1, SamePlace
  <2>3. CASE i.flag = "new" /\ i.value = v
    <3>1. Buffered(v) /\ ~Buffered(v)' /\ exits'[v] = exits[v] + 1
      BY <1>1, <1>3, <1>4, <2>3
    <3>2. exits[v] = 0 /\ exits'[v] = 1
      BY <2>1, <3>1 DEF OnePlace
    <3>. QED  BY <1>0, <1>5, <1>7, <1>8, <2>1, <3>1, <3>2 DEF OnePlace
  <2>. QED  BY <2>2, <2>3
<1>10. Places'
  BY <1>4, <1>9 DEF Places
<1>. QED  BY <1>1, <1>5, <1>6, <1>7, <1>8, <1>10 DEF ValueInv

\* The other steps of a client move no value, and send none.
LEMMA QuietValues ==
    ASSUME CacheTypeOK, StopInv, ValueInv, NEW c \in Clients, Invoke(c) \/ Continue(c),
           UNCHANGED <<data, refused, exits>>, calls' \in {calls, calls + 1},
           OthersKept(c), ~Holds(c), ~Holds(c)', HandOK(c)',
           \/ UNCHANGED setBuf
           \/ /\ setBuf' = Append(setBuf, cur[c])
              /\ pc[c] \in {"sendDel", "sendWait"}
    PROVE  ValueInv'
<1>0. GhostTypeOK /\ ChanTypeOK /\ cur[c] \in Items
  BY DEF CacheTypeOK, ClientTypeOK
<1>1. /\ \A d \in Clients : HandOK(d)'
      /\ HandsApart' /\ \A v : InHand(v) <=> InHand(v)'
  BY OthersHands, HandEmptied DEF ValueInv
<1>2. ZeroValue \notin DOMAIN exits
  BY <1>0, ZeroUnknown
<1>3. /\ \A j \in DOMAIN setBuf' : ItemOK(setBuf[j])'
      /\ BufferApart' /\ \A v \in DOMAIN exits : Buffered(v) <=> Buffered(v)'
  <2>1. CASE UNCHANGED setBuf
    BY <2>1, BufferKept DEF ValueInv, BufferApart, Buffered, ZeroValue
  <2>2. CASE setBuf' = Append(setBuf, cur[c]) /\ pc[c] \in {"sendDel", "sendWait"}
    <3>1. ItemOK(cur[c]) /\ cur[c].value = ZeroValue
      BY <2>2 DEF ValueInv, ItemsOK, HandOK, ItemOK
    <3>2. /\ \A v : Buffered(v)' <=> Buffered(v) \/ (cur[c].flag = "new" /\ cur[c].value = v)
          /\ BufferApart'
          /\ \A j \in DOMAIN setBuf' :
                setBuf'[j] = cur[c] \/ \E k \in DOMAIN setBuf : setBuf'[j] = setBuf[k]
      BY <1>0, <2>2, <3>1, BufferedAfterSend DEF ValueInv
    <3>3. \A j \in DOMAIN setBuf' : ItemOK(setBuf[j])'
      BY <3>1, <3>2 DEF ValueInv, ItemsOK, ItemOK, ZeroValue
    <3>. QED  BY <1>2, <3>1, <3>2, <3>3
  <2>. QED  BY <2>1, <2>2
<1>4. StoreApart' /\ \A v : Stored(v) <=> Stored(v)'
  BY DEF ValueInv, StoreApart, Stored
<1>5. DOMAIN exits' \subseteq 1..calls'
  BY <1>0 DEF ValueInv, Known, GhostTypeOK
<1>6. Known' /\ Fresh' /\ \A v : Admitting(v) <=> Admitting(v)'
  BY <1>5, AdmittingKept, FreshKept DEF ValueInv, Known
<1>7. \A v \in DOMAIN exits : Same(v)
  BY <1>1, <1>3, <1>4, <1>6 DEF Same
<1>8. Places'
  BY <1>7, SamePlace DEF ValueInv, Places
<1>. QED  BY <1>1, <1>3, <1>4, <1>6, <1>8 DEF ValueInv, ItemsOK

\* Steps of the clients
LEMMA ClientValues ==
    ASSUME CacheTypeOK, StopInv, ValueInv, NEW c \in Clients, Invoke(c) \/ Continue(c)
    PROVE  ValueInv'
<1>0. /\ pc \in [Clients -> ClientPcs] /\ cur \in [Clients -> Items] /\ cur[c] \in Items
      /\ HandOK(c) /\ NoClient \notin Clients
  BY CacheConstants DEF CacheTypeOK, ClientTypeOK, ValueInv, ItemsOK
<1>1. CASE \E k \in Keys, cost \in Costs, ttl \in TTLs : SetInvoke(c, k, cost, ttl)
  BY <1>1, SetInvokeValues
<1>2. CASE SetUpdate(c)
  BY <1>2, SetUpdateValues
<1>3. CASE DelStore(c) \/ ClearShards(c)
  BY <1>3, ClientDelValues
<1>4. CASE Drain(c)
  <2>1. CASE setBuf = <<>>
    <3>1. /\ UNCHANGED <<data, refused, exits, calls, setBuf, cur>> /\ pc[c] = "drain"
          /\ pc' = [pc EXCEPT ![c] = "policyClear"]
      BY <1>4, <2>1 DEF Drain, Goto, storeVars
    <3>2. OthersKept(c) /\ ~Holds(c) /\ ~Holds(c)' /\ HandOK(c)'
      BY <1>0, <3>1 DEF OthersKept, Holds, HandOK
    <3>. QED  BY <3>1, <3>2, QuietValues
  <2>. QED  BY <1>4, <2>1, DrainValues
<1>5. CASE SetSend(c)
  <2>1. CASE pc' = pc
    <3>1. UNCHANGED <<data, refused, exits, calls, setBuf, cur, pc>>
      BY <1>0, <1>5, <2>1 DEF SetSend, Return, Goto, storeVars
    <3>. QED  BY <2>1, <3>1, AdmittingKept, NothingMoves
  <2>. QED  BY <1>5, <2>1, SetSendValues
<1>6. CASE DelSend(c) \/ WaitSend(c)
  <2>1. /\ UNCHANGED <<data, refused, exits, calls>> /\ pc[c] \in {"sendDel", "sendWait"}
        /\ \/ UNCHANGED <<setBuf, pc, cur>>
           \/ /\ setBuf' = Append(setBuf, cur[c])
              /\ \/ /\ pc' = [pc EXCEPT ![c] = "idle"]
                    /\ cur' = [cur EXCEPT ![c] = WaitItem(NoClient)]
                 \/ pc' = [pc EXCEPT ![c] = "waiting"] /\ UNCHANGED cur
    BY <1>6 DEF DelSend, WaitSend, SendItem, Send, Return, Block, Goto, ghostVars, storeVars
  <2>2. CASE UNCHANGED <<setBuf, pc, cur>>
    BY <2>1, <2>2, AdmittingKept, NothingMoves
  <2>3. CASE setBuf' = Append(setBuf, cur[c]) /\ pc'[c] \in {"idle", "waiting"}
    <3>1. OthersKept(c) /\ ~Holds(c) /\ ~Holds(c)' /\ HandOK(c)'
      BY <1>0, <2>1, <2>3 DEF OthersKept, Holds, HandOK
    <3>. QED  BY <2>1, <2>3, <3>1, QuietValues
  <2>. QED  BY <1>0, <2>1, <2>2, <2>3
<1>7. CASE \/ \E k \in Keys : DelInvoke(c, k) \/ Get(c, k) \/ GetTTLInvoke(c, k)
           \/ WaitInvoke(c) \/ ClearInvoke(c) \/ CloseInvoke(c)
           \/ \E cost \in MaxCosts : ChangeMaxCost(c, cost)
  <2>1. /\ UNCHANGED <<data, refused, exits, setBuf>> /\ calls' = calls + 1 /\ pc[c] = "idle"
        /\ OthersKept(c)
        /\ \/ pc'[c] \in {"idle", "ttl", "stop", "closeClear"}
           \/ /\ pc'[c] = "del" /\ cur'[c].flag = "delete" /\ cur'[c].wg = NoClient
              /\ cur'[c].value = ZeroValue
           \/ /\ pc'[c] = "sendWait" /\ cur'[c].wg = c
              /\ cur'[c].value = ZeroValue
    BY <1>0, <1>7 DEF DelInvoke, Get, GetTTLInvoke, WaitInvoke, ClearInvoke, CloseInvoke,
       ChangeMaxCost, Call, Goto, NewItem, WaitItem, clientVars, storeVars, chanVars, OthersKept
  <2>2. ~Holds(c) /\ ~Holds(c)' /\ HandOK(c)'
    BY <1>0, <2>1 DEF Holds, HandOK, ItemOK, ZeroValue
  <2>. QED  BY <2>1, <2>2, QuietValues
<1>8. CASE \/ WaitReturn(c) \/ GetTTLRead(c) \/ CloseClear(c) \/ ClearStop(c)
           \/ CloseStop(c)
  <2>1. /\ UNCHANGED <<data, refused, exits, setBuf, calls>>
        /\ pc[c] \in {"waiting", "ttl", "closeClear", "stop", "closeStop"}
        /\ OthersKept(c)
        /\ pc'[c] \in {"idle", "closeStop", "stop", "drain", "closeChans"}
    BY <1>0, <1>8 DEF WaitReturn, GetTTLRead, CloseClear, ClearStop, CloseStop, StopProcessor,
       Return, Goto, storeVars, ghostVars, chanVars, OthersKept
  <2>2. ~Holds(c) /\ ~Holds(c)' /\ HandOK(c)'
    BY <2>1 DEF Holds, HandOK
  <2>. QED  BY <2>1, <2>2, QuietValues
<1>9. CASE ClearPolicy(c) \/ ClearExpiry(c) \/ ClearRestart(c) \/ CloseChans(c) \/ CloseDone(c)
  <2>1. /\ UNCHANGED <<data, refused, exits, setBuf, calls>>
        /\ pc[c] \in {"policyClear", "emClear", "restart", "closeChans", "closeDone"}
        /\ OthersKept(c)
        /\ pc'[c] \in {"clearShards", "restart", "closeStop", "idle", "closeDone"}
    BY <1>0, <1>9 DEF ClearPolicy, ClearExpiry, emClear, ClearRestart, CloseChans, CloseDone,
       Goto, storeVars, ghostVars, chanVars, OthersKept
  <2>2. ~Holds(c) /\ ~Holds(c)' /\ HandOK(c)'
    BY <2>1 DEF Holds, HandOK
  <2>. QED  BY <2>1, <2>2, QuietValues
<1>. QED  BY <1>1, <1>2, <1>3, <1>4, <1>5, <1>6, <1>7, <1>8, <1>9 DEF Invoke, Continue

-----------------------------------------------------------------------------
(* Theorems *)

\* A new cache has no value.
LEMMA ValueInit ==
    ASSUME Init
    PROVE  ValueInv
<1>. USE DEF Init, EmptyMap
<1>1. Fresh /\ Known
  BY CacheConstants DEF Fresh, Known
<1>2. ItemsOK /\ HandsApart /\ BufferApart /\ StoreApart
  BY DEF ItemsOK, HandOK, HandsApart, Holds, BufferApart, StoreApart
<1>3. Places
  BY DEF Places
<1>. QED  BY <1>1, <1>2, <1>3 DEF ValueInv

\* ValueInv is inductive, given the cover of the store by the policy.
LEMMA ValueStep ==
    ASSUME CacheTypeOK, AddInv, StopInv, CoverInv, ValueInv, [Next]_cacheVars
    PROVE  ValueInv'
<1>1. CASE ReceiveItem \/ Process \/ CleanupStart
  BY <1>1, ProcessorValues
<1>2. CASE AdvanceTime \/ UNCHANGED cacheVars
  <2>1. UNCHANGED <<data, setBuf, pc, cur, calls, refused, exits, pp, pitem, addPc>>
    BY <1>2 DEF AdvanceTime, cacheVars, storeVars, policyVars, addVars, procVars, clientVars,
       ghostVars, chanVars
  <2>. QED  BY <2>1, NothingMoves
<1>3. ASSUME NEW c \in Clients, Invoke(c) \/ Continue(c)
      PROVE  ValueInv'
  BY <1>3, ClientValues
<1>. QED  BY <1>1, <1>2, <1>3, NextCases

\* As long as no two keys collide in their first hash, every value a Set brought leaves
\* the cache once: it is passed to onExit at most once, cannot be reached afterwards, and
\* is never lost; for any clients and calls, however Set, Del, Clear, Close, admission,
\* eviction and expiry interleave.
THEOREM EveryValueFreedOnce == NoCollision => (Spec => []ValuesFreedOnce)
<1>. SUFFICES ASSUME NoCollision PROVE Spec => []ValuesFreedOnce
  OBVIOUS
<1>. DEFINE IInv == CacheTypeOK /\ AddInv /\ StopInv /\ CoverInv /\ ValueInv
<1>1. Init => IInv
  BY ControlInit, ValueInit
<1>2. IInv /\ [Next]_cacheVars => IInv'
  BY ControlStep, CoverStep, ValueStep
<1>3. IInv => ValuesFreedOnce
  BY DEF ValueInv, Places, OnePlace, ValuesFreedOnce, ExitIsFinal, NoValueLost
<1>. QED  BY <1>1, <1>2, <1>3, PTL DEF Spec

-----------------------------------------------------------------------------
(* Close *)

\* The program uses the cache from one goroutine only.
SingleClient == \A c, d \in Clients : c = d

\* The goroutine that closes the channels is the only one, and makes no call that
\* sends on them afterwards.
CloseInv ==
    /\ ~panicked
    /\ setBufClosed => \A c \in Clients : \/ pc[c] = "closeDone"
                                          \/ isClosed /\ pc[c] \in {"idle", "ttl"}
    /\ isClosed \/ (\E c \in Clients : pc[c] = "closeDone") => setBufClosed

\* Steps of the client, when it is the only one
LEMMA SingleCloseStep ==
    ASSUME CacheTypeOK, SingleClient, CloseInv, NEW c \in Clients, Invoke(c) \/ Continue(c)
    PROVE  CloseInv'
<1>0. /\ pc \in [Clients -> ClientPcs] /\ \A d \in Clients : d = c
      /\ isClosed \in BOOLEAN /\ setBufClosed \in BOOLEAN
  BY DEF CacheTypeOK, ClientTypeOK, ChanTypeOK, SingleClient
<1>1. CASE Invoke(c)
  <2>1. /\ UNCHANGED <<panicked, setBufClosed, isClosed>> /\ pc[c] = "idle"
        /\ isClosed => pc'[c] \in {"idle", "ttl"}
        /\ pc'[c] # "closeDone"
    BY <1>0, <1>1 DEF Invoke, SetInvoke, DelInvoke, Get, GetTTLInvoke, WaitInvoke, ClearInvoke,
       CloseInvoke, ChangeMaxCost, Call, Goto, chanVars, clientVars
  <2>. QED  BY <1>0, <2>1 DEF CloseInv
<1>2. CASE SetSend(c) \/ DelSend(c) \/ WaitSend(c) \/ ClearStop(c) \/ CloseStop(c)
  <2>1. /\ pc[c] \in {"send", "sendDel", "sendWait", "stop", "closeStop"}
    BY <1>2 DEF SetSend, DelSend, WaitSend, SendItem, ClearStop, CloseStop, StopProcessor
  <2>2. ~setBufClosed
    BY <1>0, <2>1 DEF CloseInv
  <2>3. UNCHANGED <<panicked, setBufClosed, isClosed>> /\ pc'[c] # "closeDone"
    BY <1>0, <1>2, <2>2 DEF SetSend, DelSend, WaitSend, SendItem, ClearStop, CloseStop,
       StopProcessor, Send, Return, Block, Goto
  <2>. QED  BY <1>0, <2>2, <2>3 DEF CloseInv
<1>3. CASE CloseChans(c) \/ CloseDone(c)
  BY <1>0, <1>3 DEF CloseChans, CloseDone, CloseInv, Goto
<1>4. CASE \/ SetUpdate(c) \/ DelStore(c) \/ WaitReturn(c) \/ GetTTLRead(c) \/ CloseClear(c)
           \/ Drain(c) \/ ClearPolicy(c) \/ ClearShards(c) \/ ClearExpiry(c)
           \/ ClearRestart(c)
  <2>1. /\ UNCHANGED <<panicked, setBufClosed, isClosed>> /\ pc[c] \notin {"idle", "closeDone"}
        /\ pc[c] = "ttl" => pc'[c] = "idle"
        /\ pc'[c] # "closeDone"
    BY <1>0, <1>4 DEF SetUpdate, DelStore, WaitReturn, GetTTLRead, CloseClear, Drain,
       ClearPolicy, ClearShards, ClearExpiry, ClearRestart, Return, Goto, chanVars
  <2>. QED  BY <1>0, <2>1 DEF CloseInv
<1>. QED  BY <1>1, <1>2, <1>3, <1>4 DEF Continue

\* Nobody closes the cache.
OpenInv ==
    /\ ~panicked /\ ~setBufClosed
    /\ \A c \in Clients : /\ ~closing[c]
                          /\ pc[c] \notin {"closeClear", "closeStop", "closeChans",
                                           "closeDone"}

\* Steps of any client, when no client calls Close
LEMMA OpenStep ==
    ASSUME CacheTypeOK, "Close" \notin Ops, OpenInv, NEW c \in Clients,
           Invoke(c) \/ Continue(c)
    PROVE  OpenInv'
<1>0. /\ pc \in [Clients -> ClientPcs] /\ closing \in [Clients -> BOOLEAN]
      /\ ~panicked /\ ~setBufClosed /\ ~closing[c]
      /\ pc[c] \notin {"closeClear", "closeStop", "closeChans", "closeDone"}
  BY DEF CacheTypeOK, ClientTypeOK, OpenInv
<1>. DEFINE Open == /\ ~panicked' /\ ~setBufClosed' /\ UNCHANGED closing
                    /\ pc'[c] \notin {"closeClear", "closeStop", "closeChans", "closeDone"}
<1>1. CASE Invoke(c)
  <2>1. Open
    BY <1>0, <1>1 DEF Invoke, SetInvoke, DelInvoke, Get, GetTTLInvoke, WaitInvoke,
       ClearInvoke, CloseInvoke, ChangeMaxCost, Call, Goto, chanVars, clientVars
  <2>. QED  BY <1>1, <2>1, ClientStepPc DEF OpenInv
<1>2. CASE Continue(c)
  <2>1. ASSUME SetSend(c) \/ DelSend(c) \/ WaitSend(c) \/ ClearStop(c)
        PROVE  Open
    BY <1>0, <2>1 DEF SetSend, DelSend, WaitSend, SendItem, ClearStop, StopProcessor, Send,
       Return, Block, Goto
  <2>2. ASSUME SetUpdate(c) \/ DelStore(c) \/ WaitReturn(c) \/ GetTTLRead(c)
        PROVE  Open
    BY <1>0, <2>2 DEF SetUpdate, DelStore, WaitReturn, GetTTLRead, Return, Goto, chanVars
  <2>3. ASSUME Drain(c) \/ ClearPolicy(c) \/ ClearShards(c) \/ ClearExpiry(c) \/ ClearRestart(c)
        PROVE  Open
    BY <1>0, <2>3 DEF Drain, ClearPolicy, ClearShards, ClearExpiry, ClearRestart, Goto,
       chanVars
  <2>4. ~CloseClear(c) /\ ~CloseStop(c) /\ ~CloseChans(c) /\ ~CloseDone(c)
    BY <1>0 DEF CloseClear, CloseStop, StopProcessor, CloseChans, CloseDone
  <2>5. Open
    BY <1>2, <2>1, <2>2, <2>3, <2>4 DEF Continue
  <2>. QED  BY <1>2, <2>5, ClientStepPc DEF OpenInv
<1>. QED  BY <1>1, <1>2

\* The processor and the clock do not close channels, and do not panic.
LEMMA ProcessorOpen ==
    ASSUME ReceiveItem \/ Process \/ CleanupStart \/ AdvanceTime \/ UNCHANGED cacheVars
    PROVE  UNCHANGED <<pc, cur, closing, panicked, setBufClosed, isClosed>>
<1>. USE DEF ClientsUnchanged, clientVars, chanVars
<1>1. CASE ReceiveItem
  BY <1>1 DEF ReceiveItem, ReceiveWait, ReceiveNew, ReceiveUpdate, ReceiveDelete
<1>2. CASE Process \/ CleanupStart
  BY <1>2 DEF Process, Admit, Added, Rejected, LeaveAdd, EvictVictim, DeleteStored,
     CleanupCheck, CleanupDel, CleanupStart
<1>3. CASE AdvanceTime \/ UNCHANGED cacheVars
  BY <1>3 DEF AdvanceTime, cacheVars
<1>. QED  BY <1>1, <1>2, <1>3

\* No goroutine panics, whatever their number, as long as none of them closes the
\* cache; nor does a program of a single goroutine, Close included.
THEOREM NeverPanics ==
    "Close" \notin Ops \/ SingleClient => (Spec => []NoPanic)
<1>1. ASSUME SingleClient PROVE Spec => []NoPanic
  <2>. DEFINE IInv == CacheTypeOK /\ AddInv /\ StopInv /\ CloseInv
  <2>1. Init => IInv
    BY ControlInit DEF Init, CloseInv
  <2>2. IInv /\ [Next]_cacheVars => IInv'
    <3>. SUFFICES ASSUME IInv, [Next]_cacheVars PROVE CloseInv'
      BY ControlStep
    <3>1. CASE ReceiveItem \/ Process \/ CleanupStart \/ AdvanceTime \/ UNCHANGED cacheVars
      BY <3>1, ProcessorOpen DEF CloseInv
    <3>. QED  BY <1>1, <3>1, NextCases, SingleCloseStep
  <2>3. IInv => NoPanic
    BY DEF CloseInv, NoPanic
  <2>. QED  BY <2>1, <2>2, <2>3, PTL DEF Spec
<1>2. ASSUME "Close" \notin Ops PROVE Spec => []NoPanic
  <2>. DEFINE IInv == CacheTypeOK /\ AddInv /\ StopInv /\ OpenInv
  <2>1. Init => IInv
    BY ControlInit DEF Init, OpenInv
  <2>2. IInv /\ [Next]_cacheVars => IInv'
    <3>. SUFFICES ASSUME IInv, [Next]_cacheVars PROVE OpenInv'
      BY ControlStep
    <3>1. CASE ReceiveItem \/ Process \/ CleanupStart \/ AdvanceTime \/ UNCHANGED cacheVars
      BY <3>1, ProcessorOpen DEF OpenInv
    <3>. QED  BY <1>2, <3>1, NextCases, OpenStep
  <2>3. IInv => NoPanic
    BY DEF OpenInv, NoPanic
  <2>. QED  BY <2>1, <2>2, <2>3, PTL DEF Spec
<1>. QED  BY <1>1, <1>2

\* Between the Clear that Close calls and its end there is nothing left in the cache,
\* nor afterwards.
EmptyInv ==
    /\ \A c \in Clients :
          /\ pc[c] \in {"policyClear", "clearShards", "emClear", "restart"} => setBuf = <<>>
          /\ pc[c] \in {"closeStop", "closeChans", "closeDone"} =>
                setBuf = <<>> /\ DOMAIN data = {} /\ pp # "add"
    /\ isClosed => setBuf = <<>> /\ DOMAIN data = {} /\ pp # "add"

\* The processor fills neither an empty channel nor an empty store.
LEMMA ProcessorEmpty ==
    ASSUME CacheTypeOK, setBuf = <<>>, DOMAIN data = {}, pp # "add",
           ReceiveItem \/ Process \/ CleanupStart
    PROVE  setBuf' = <<>> /\ DOMAIN data' = {} /\ pp' # "add"
<1>1. ~ReceiveItem /\ ~Admit /\ ~Added /\ ~Rejected
  BY DEF ReceiveItem, ReceiveWait, ReceiveNew, ReceiveUpdate, ReceiveDelete, ReceiveFlag,
     Receive, Admit, Added, Rejected, LeaveAdd
<1>2. \A key, conflict : StoreDel(key, conflict) => UNCHANGED data
  BY DEF StoreDel, Held, storeVars
<1>. QED  BY <1>1, <1>2 DEF Process, EvictVictim, DeleteStored, CleanupCheck, CleanupDel,
            CleanupStart, emExtract, storeVars

\* Steps of the client, when it is the only one
LEMMA SingleEmptyStep ==
    ASSUME CacheTypeOK, StopInv, CoverInv, SingleClient, CloseInv, EmptyInv,
           NEW c \in Clients, Invoke(c) \/ Continue(c)
    PROVE  EmptyInv'
<1>0. /\ pc \in [Clients -> ClientPcs] /\ \A d \in Clients : d = c
      /\ DOMAIN data' \subseteq DOMAIN data
      /\ pp = "add" <=> pp' = "add"
  BY ClientStepData, AdmittingKept DEF CacheTypeOK, ClientTypeOK, SingleClient
<1>1. isClosed => pc[c] \in {"idle", "ttl", "closeDone"}
  BY DEF CloseInv
<1>2. CASE Invoke(c) \/ WaitReturn(c) \/ GetTTLRead(c)
  <2>1. /\ UNCHANGED <<setBuf, isClosed>>
        /\ pc'[c] \in {"idle", "update", "del", "sendWait", "ttl", "stop", "closeClear"}
    BY <1>0, <1>2 DEF Invoke, SetInvoke, DelInvoke, Get, GetTTLInvoke, WaitInvoke,
       ClearInvoke, CloseInvoke, ChangeMaxCost, WaitReturn, GetTTLRead, Return, Call, Goto,
       chanVars, clientVars
  <2>. QED  BY <1>0, <2>1 DEF EmptyInv
<1>3. CASE \/ SetUpdate(c) \/ SetSend(c) \/ DelStore(c) \/ DelSend(c) \/ WaitSend(c)
  <2>1. /\ UNCHANGED isClosed /\ pc[c] \in {"update", "send", "del", "sendDel", "sendWait"}
        /\ pc'[c] \in {"idle", "send", "sendDel", "sendWait", "waiting"}
    BY <1>0, <1>3 DEF SetUpdate, SetSend, DelStore, DelSend, WaitSend, SendItem, Return, Block,
       Goto, chanVars
  <2>. QED  BY <1>0, <1>1, <2>1 DEF EmptyInv
<1>4. CASE CloseClear(c) \/ ClearStop(c) \/ CloseStop(c) \/ CloseChans(c)
  <2>1. /\ UNCHANGED <<setBuf, isClosed>>
        /\ pc[c] \in {"closeClear", "stop", "closeStop", "closeChans"}
        /\ pc'[c] \notin {"policyClear", "clearShards", "emClear", "restart"}
        /\ pc'[c] \in {"closeStop", "closeChans", "closeDone"} =>
              pc[c] \in {"closeStop", "closeChans", "closeDone"} \/ isClosed
    BY <1>0, <1>4 DEF CloseClear, ClearStop, CloseStop, StopProcessor, CloseChans, Goto,
       chanVars
  <2>. QED  BY <1>0, <2>1 DEF EmptyInv
<1>5. CASE CloseDone(c)
  <2>1. UNCHANGED setBuf /\ pc[c] = "closeDone" /\ pc'[c] = "idle"
    BY <1>0, <1>5 DEF CloseDone, Goto
  <2>. QED  BY <1>0, <2>1 DEF EmptyInv
<1>6. CASE Drain(c)
  <2>1. /\ UNCHANGED isClosed /\ pc[c] = "drain"
        /\ \/ setBuf' = <<>> /\ pc'[c] = "policyClear"
           \/ UNCHANGED pc
    BY <1>0, <1>6 DEF Drain, Goto
  <2>. QED  BY <1>0, <1>1, <2>1 DEF EmptyInv
<1>7. CASE ClearPolicy(c) \/ ClearShards(c) \/ ClearExpiry(c) \/ ClearRestart(c)
  <2>1. /\ UNCHANGED <<setBuf, isClosed>>
        /\ pc[c] \in {"policyClear", "clearShards", "emClear", "restart"}
        /\ pc'[c] \in {"clearShards", "emClear", "restart", "closeStop", "idle"}
        /\ pc'[c] = "closeStop" => pc[c] = "restart" /\ pp' = "select"
    BY <1>0, <1>7 DEF ClearPolicy, ClearShards, ClearExpiry, ClearRestart, Goto, chanVars
  <2>2. pc[c] = "restart" => DOMAIN data = {}
    BY DEF CoverInv
  <2>. QED  BY <1>0, <1>1, <2>1, <2>2 DEF EmptyInv
<1>. QED  BY <1>2, <1>3, <1>4, <1>5, <1>6, <1>7 DEF Continue

\* Close hands every value back, when no other goroutine uses the cache: once isClosed
\* is set, every value has been passed to onExit, once, or was refused by its Set.
THEOREM CloseGivesBack ==
    NoCollision /\ SingleClient => (Spec => []CloseFreesAll)
<1>. SUFFICES ASSUME NoCollision, SingleClient PROVE Spec => []CloseFreesAll
  OBVIOUS
<1>. DEFINE IInv == /\ CacheTypeOK /\ AddInv /\ StopInv /\ CoverInv /\ ValueInv
                    /\ CloseInv /\ EmptyInv
<1>1. Init => IInv
  <2>. SUFFICES ASSUME Init PROVE CloseInv /\ EmptyInv
    BY ControlInit, ValueInit
  <2>. QED  BY DEF Init, CloseInv, EmptyInv
<1>2. IInv /\ [Next]_cacheVars => IInv'
  <2>. SUFFICES ASSUME IInv, [Next]_cacheVars PROVE CloseInv' /\ EmptyInv'
    BY ControlStep, CoverStep, ValueStep
  <2>1. CASE ReceiveItem \/ Process \/ CleanupStart
    <3>1. UNCHANGED <<pc, cur, closing, panicked, setBufClosed, isClosed>>
      BY <2>1, ProcessorOpen
    <3>2. \A c \in Clients : pc[c] \notin Stopped
      BY <2>1, ProcessorControl DEF StopInv
    <3>3. ASSUME setBuf = <<>>, DOMAIN data = {}, pp # "add"
          PROVE  setBuf' = <<>> /\ DOMAIN data' = {} /\ pp' # "add"
      BY <2>1, <3>3, ProcessorEmpty
    <3>. QED  BY <3>1, <3>2, <3>3 DEF CloseInv, EmptyInv, Stopped
  <2>2. CASE AdvanceTime \/ UNCHANGED cacheVars
    BY <2>2, ProcessorOpen DEF AdvanceTime, cacheVars, storeVars, procVars, chanVars,
       CloseInv, EmptyInv
  <2>3. ASSUME NEW c \in Clients, Invoke(c) \/ Continue(c)
        PROVE  CloseInv' /\ EmptyInv'
    BY <2>3, SingleCloseStep, SingleEmptyStep
  <2>. QED  BY <2>1, <2>2, <2>3, NextCases
<1>3. IInv => CloseFreesAll
  <2>. SUFFICES ASSUME IInv, isClosed, NEW v \in DOMAIN exits
                PROVE  exits[v] = 1 \/ v \in refused
    BY DEF CloseFreesAll
  <2>1. ~InHand(v)
    BY DEF CloseInv, InHand
  <2>2. ~Buffered(v) /\ ~Admitting(v) /\ ~Stored(v)
    BY DEF EmptyInv, Buffered, Admitting, Stored
  <2>. QED  BY <2>1, <2>2 DEF ValueInv, Places, OnePlace
<1>. QED  BY <1>1, <1>2, <1>3, PTL DEF Spec

-----------------------------------------------------------------------------
(* Items in the clients' hands, and waiting *)

Setting == {"update", "send"}

\* What a client is about to send
HandInv ==
    \A c \in Clients :
        /\ pc[c] \in Setting => cur[c].wg = NoClient /\ cur[c].value \in 1..calls
        /\ pc[c] \in {"del", "sendDel"} => cur[c].flag = "delete"
        /\ pc[c] = "sendWait" => cur[c] = WaitItem(c)

\* The item of a Wait is in the buffer once, until its client is released.
WaitInv ==
    /\ \A c \in wgDone : pc[c] = "waiting" /\ \A i \in DOMAIN setBuf : setBuf[i].wg # c
    /\ \A i \in DOMAIN setBuf :
          setBuf[i].wg # NoClient =>
             /\ pc[setBuf[i].wg] = "waiting"
             /\ \A j \in DOMAIN setBuf : setBuf[i].wg = setBuf[j].wg => i = j

-----------------------------------------------------------------------------
(* Whose value it is *)

Handed(v) == \E c \in Clients : pc[c] \in Setting /\ cur[c].value = v

\* Value v is somewhere with the key and conflict hashes i.
Tagged(v, i) ==
    \/ \E c \in Clients : cur[c].value = v /\ Id(cur[c]) = i
    \/ \E n \in DOMAIN setBuf : setBuf[n].value = v /\ Id(setBuf[n]) = i
    \/ pitem.value = v /\ Id(pitem) = i
    \/ \E h \in DOMAIN data :
          data[h].value = v /\ i = [key |-> h, conflict |-> data[h].conflict]
    \/ v \in DOMAIN acked /\ acked[v] = i

TagInv ==
    /\ \A v, i : v # ZeroValue /\ Tagged(v, i) => v \in 1..calls
    /\ \A v, i, j : v # ZeroValue /\ Tagged(v, i) /\ Tagged(v, j) => i = j
    /\ DOMAIN acked \subseteq 1..calls
    /\ \A v \in DOMAIN acked : ~Handed(v)
    /\ \A c, d \in Clients :
          /\ pc[c] \in Setting /\ pc[d] \in Setting /\ cur[c].value = cur[d].value
          => c = d

-----------------------------------------------------------------------------
(* What erases a value *)

\* Neither the processor nor the buffer holds v, nor does the store, save for a Clear
\* that is about to empty it.
Clean(v) ==
    /\ ~Buffered(v) /\ ~Admitting(v)
    /\ Stored(v) => \E d \in Clients :
                       \/ pc[d] = "policyClear"
                       \/ pc[d] = "clearShards" /\ acked[v].key \in shards

Draining == \E d \in Clients : pc[d] = "drain"

Safe(v) == Clean(v) \/ Draining

\* A deletion of v's key is in the buffer, behind v and before any Wait of client c.
Queued(c, v) ==
    \E j \in DOMAIN setBuf :
        /\ setBuf[j].flag = "delete" /\ Id(setBuf[j]) = acked[v]
        /\ \A i \in DOMAIN setBuf :
              /\ setBuf[i].flag = "new" /\ setBuf[i].value = v => i < j
              /\ setBuf[i].wg = c => j < i

Erasing(c, v) ==
    \/ pc[c] \in {"del", "sendDel"} /\ Id(cur[c]) = acked[v]
    \/ pc[c] = "stop"
    \/ Queued(c, v)
    \/ pp = "delStore" /\ Id(pitem) = acked[v] /\ ~Buffered(v)
    \/ Safe(v)

DoomInv ==
    /\ gone \subseteq DOMAIN acked
    /\ \A v \in gone : Safe(v)
    /\ \A c \in Clients :
          /\ doomed[c] \subseteq DOMAIN acked
          /\ \A v \in doomed[c] : Erasing(c, v)
          /\ c \in wgDone \/ pc[c] \in {"drain", "policyClear", "clearShards", "emClear",
                                        "restart"}
             => \A v \in doomed[c] : Safe(v)

-----------------------------------------------------------------------------
(* What a step does to the places a value may be in *)

Shrinks == \A h \in DOMAIN data' : h \in DOMAIN data /\ data'[h] = data[h]
placeVars == <<setBuf, data, wgDone, shards, pp, calls>>

EInvoke(c) ==
    /\ pc[c] = "idle" /\ UNCHANGED <<setBuf, data, wgDone, shards, pp>>
    /\ calls' \in {calls, calls + 1}
    /\ \/ /\ pc'[c] = "update" /\ calls' = calls + 1
          /\ cur'[c].value = calls + 1 /\ cur'[c].wg = NoClient
       \/ pc'[c] = "del" /\ cur'[c].flag = "delete" /\ cur'[c].value = ZeroValue
       \/ pc'[c] = "sendWait" /\ cur'[c] = WaitItem(c)
       \/ /\ pc'[c] \in {"idle", "ttl", "stop", "closeClear"}
          /\ cur'[c] = cur[c] \/ cur'[c].value = ZeroValue

EUpdate(c) ==
    /\ pc[c] = "update" /\ pc'[c] = "send"
    /\ cur'[c].value = cur[c].value /\ cur'[c].wg = cur[c].wg /\ Id(cur'[c]) = Id(cur[c])
    /\ data' = data \/ data' = Put(data, cur[c].key, Entry(cur[c]))
    /\ UNCHANGED <<setBuf, wgDone, shards, pp, calls>>

ESend(c) ==
    /\ \/ pc[c] \in {"send", "sendDel"} /\ pc'[c] = "idle" /\ cur'[c] = WaitItem(NoClient)
       \/ pc[c] = "sendWait" /\ pc'[c] = "waiting" /\ UNCHANGED cur
    /\ setBuf' = Append(setBuf, cur[c])
    /\ UNCHANGED <<data, wgDone, shards, pp, calls>>

EDrop(c) ==
    /\ pc[c] = "send" /\ pc'[c] = "idle" /\ cur'[c] = WaitItem(NoClient)
    /\ UNCHANGED placeVars

EDel(c) ==
    /\ pc[c] = "del" /\ pc'[c] = "sendDel" /\ UNCHANGED cur
    /\ Shrinks
    /\ UNCHANGED <<setBuf, wgDone, shards, pp, calls>>

EReturn(c) ==
    /\ pc[c] = "waiting" /\ pc'[c] = "idle" /\ cur'[c] = WaitItem(NoClient)
    /\ c \in wgDone /\ wgDone' = wgDone \ {c}
    /\ UNCHANGED <<setBuf, data, shards, pp, calls>>

EControl(c) ==
    /\ \/ pc[c] = "ttl" /\ pc'[c] = "idle" /\ UNCHANGED pp
       \/ pc[c] = "closeClear" /\ pc'[c] \in {"closeStop", "stop"} /\ UNCHANGED pp
       \/ pc[c] = "stop" /\ pc'[c] = "drain" /\ pp = "select" /\ pp' = "dead"
       \/ pc[c] = "closeStop" /\ pc'[c] = "closeChans" /\ pp = "select" /\ pp' = "dead"
       \/ pc[c] = "closeChans" /\ pc'[c] = "closeDone" /\ UNCHANGED pp
       \/ pc[c] = "closeDone" /\ pc'[c] = "idle" /\ UNCHANGED pp
       \/ pc[c] = "emClear" /\ pc'[c] = "restart" /\ UNCHANGED pp
       \/ pc[c] = "restart" /\ pc'[c] \in {"closeStop", "idle"} /\ pp' = "select"
    /\ cur'[c] = cur[c] \/ cur'[c] = WaitItem(NoClient)
    /\ UNCHANGED <<setBuf, data, wgDone, shards, calls>>

EPolicy(c) ==
    /\ pc[c] = "policyClear" /\ pc'[c] = "clearShards" /\ UNCHANGED cur
    /\ shards' = Hashes
    /\ UNCHANGED <<setBuf, data, wgDone, pp, calls>>

EDrain(c) ==
    /\ pc[c] = "drain" /\ UNCHANGED cur
    /\ \/ setBuf = <<>> /\ pc'[c] = "policyClear" /\ UNCHANGED <<setBuf, wgDone>>
       \/ /\ setBuf # <<>> /\ setBuf' = Tail(setBuf) /\ UNCHANGED pc
          /\ wgDone' = IF Head(setBuf).wg # NoClient THEN wgDone \cup {Head(setBuf).wg}
                       ELSE wgDone
    /\ UNCHANGED <<data, shards, pp, calls>>

EShard(c) ==
    /\ pc[c] = "clearShards" /\ UNCHANGED cur
    /\ \E h \in shards : /\ data' = Remove(data, h) /\ shards' = shards \ {h}
                         /\ pc'[c] = IF shards = {h} THEN "emClear" ELSE "clearShards"
    /\ UNCHANGED <<setBuf, wgDone, pp, calls>>

Effect(c) ==
    \/ EInvoke(c) \/ EUpdate(c) \/ ESend(c) \/ EDrop(c) \/ EDel(c) \/ EReturn(c)
    \/ EControl(c) \/ EPolicy(c) \/ EDrain(c) \/ EShard(c)
    \/ UNCHANGED <<pc, cur, placeVars>>

\* The processor
PReceive ==
    /\ pp = "select" /\ setBuf # <<>> /\ setBuf' = Tail(setBuf) /\ UNCHANGED data
    /\ \/ /\ Head(setBuf).wg # NoClient /\ wgDone' = wgDone \cup {Head(setBuf).wg}
          /\ UNCHANGED <<pp, pitem>>
       \/ /\ Head(setBuf).wg = NoClient /\ UNCHANGED wgDone
          /\ \/ Head(setBuf).flag = "new" /\ pp' = "add" /\ pitem' = Head(setBuf)
             \/ Head(setBuf).flag = "update" /\ UNCHANGED <<pp, pitem>>
             \/ Head(setBuf).flag = "delete" /\ pp' = "delStore" /\ pitem' = Head(setBuf)

PAdded ==
    /\ pp = "add" /\ pp' \in {"select", "victims"} /\ pitem' = WaitItem(NoClient)
    /\ data' = data \/ data' = Put(data, pitem.key, Entry(pitem))
    /\ UNCHANGED <<setBuf, wgDone>>

PDelete ==
    /\ pp = "delStore" /\ pp' = "select" /\ pitem' = WaitItem(NoClient)
    /\ Shrinks
    /\ pitem.key \in DOMAIN data' => data'[pitem.key].conflict # pitem.conflict
    /\ UNCHANGED <<setBuf, wgDone>>

PQuiet ==
    /\ pp # "delStore" /\ pp' \notin {"delStore", "dead"} /\ (pp' = "add" => pp = "add")
    /\ pitem' = pitem \/ pitem'.value = ZeroValue
    /\ Shrinks
    /\ UNCHANGED <<setBuf, wgDone>>

PEffect == /\ pp # "dead" /\ pp' # "dead"
           /\ UNCHANGED <<pc, cur, shards, calls>>
           /\ PReceive \/ PAdded \/ PDelete \/ PQuiet

\* The step of a client has one of these effects, and leaves the other clients and the
\* processor's item alone.
LEMMA ClientEffect ==
    ASSUME CacheTypeOK, NEW c \in Clients, Invoke(c) \/ Continue(c)
    PROVE  /\ Effect(c) /\ UNCHANGED pitem
           /\ \A d \in Clients \ {c} : pc'[d] = pc[d] /\ cur'[d] = cur[d]
<1>0. /\ pc \in [Clients -> ClientPcs] /\ cur \in [Clients -> Items] /\ cur[c] \in Items
  BY DEF CacheTypeOK, ClientTypeOK
<1>. USE DEF Goto, Return, placeVars, storeVars, procVars, clientVars, chanVars, ghostVars
<1>1. CASE Invoke(c)
  <2>1. ASSUME NEW k \in Keys, NEW cost \in Costs, NEW ttl \in TTLs, SetInvoke(c, k, cost, ttl)
        PROVE  /\ EInvoke(c) /\ UNCHANGED pitem
               /\ \A d \in Clients \ {c} : pc'[d] = pc[d] /\ cur'[d] = cur[d]
    BY <1>0, <2>1 DEF SetInvoke, Call, NewItem, EInvoke
  <2>2. ASSUME NEW k \in Keys, DelInvoke(c, k) \/ Get(c, k) \/ GetTTLInvoke(c, k)
        PROVE  /\ EInvoke(c) /\ UNCHANGED pitem
               /\ \A d \in Clients \ {c} : pc'[d] = pc[d] /\ cur'[d] = cur[d]
    BY <1>0, <2>2 DEF DelInvoke, Get, GetTTLInvoke, Call, NewItem, EInvoke
  <2>3. ASSUME \/ WaitInvoke(c) \/ ClearInvoke(c) \/ CloseInvoke(c)
               \/ \E cost \in MaxCosts : ChangeMaxCost(c, cost)
        PROVE  /\ EInvoke(c) /\ UNCHANGED pitem
               /\ \A d \in Clients \ {c} : pc'[d] = pc[d] /\ cur'[d] = cur[d]
    BY <1>0, <2>3 DEF WaitInvoke, ClearInvoke, CloseInvoke, ChangeMaxCost, Call, EInvoke
  <2>. QED  BY <1>1, <2>1, <2>2, <2>3 DEF Invoke, Effect
<1>2. CASE SetUpdate(c)
  <2>1. UNCHANGED <<setBuf, wgDone, shards, pp, calls, pitem>> /\ pc[c] = "update"
    BY <1>2 DEF SetUpdate
  <2>2. pc'[c] = "send" /\ \A d \in Clients \ {c} : pc'[d] = pc[d] /\ cur'[d] = cur[d]
    BY <1>0, <1>2 DEF SetUpdate
  <2>3. cur'[c].value = cur[c].value /\ cur'[c].wg = cur[c].wg /\ Id(cur'[c]) = Id(cur[c])
    BY <1>0, <1>2 DEF SetUpdate, Id, Items
  <2>4. data' = data \/ data' = Put(data, cur[c].key, Entry(cur[c]))
    BY <1>2 DEF SetUpdate, StoreUpdate, Replace
  <2>. QED  BY <2>1, <2>2, <2>3, <2>4 DEF Effect, EUpdate
<1>3. CASE SetSend(c)
  <2>1. UNCHANGED <<data, wgDone, shards, pp, calls, pitem>> /\ pc[c] = "send"
    BY <1>3 DEF SetSend
  <2>. QED  BY <1>0, <1>3, <2>1 DEF SetSend, Send, Effect, ESend, EDrop
<1>4. CASE DelSend(c) \/ WaitSend(c)
  <2>1. UNCHANGED <<data, wgDone, shards, pp, calls, pitem>>
    BY <1>4 DEF DelSend, WaitSend, SendItem
  <2>. QED  BY <1>0, <1>4, <2>1 DEF DelSend, WaitSend, SendItem, Send, Block, Effect, ESend
<1>5. CASE DelStore(c)
  BY <1>0, <1>5 DEF DelStore, StoreDel, Remove, Effect, EDel, Shrinks
<1>6. CASE WaitReturn(c)
  BY <1>0, <1>6 DEF WaitReturn, Effect, EReturn
<1>7. CASE GetTTLRead(c) \/ CloseClear(c) \/ CloseChans(c) \/ CloseDone(c) \/ ClearExpiry(c)
              \/ ClearRestart(c)
  BY <1>0, <1>7 DEF GetTTLRead, CloseClear, CloseChans, CloseDone, ClearExpiry, emClear,
     ClearRestart, Effect, EControl
<1>8. CASE ClearStop(c) \/ CloseStop(c)
  BY <1>0, <1>8 DEF ClearStop, CloseStop, StopProcessor, Effect, EControl
<1>9. CASE Drain(c)
  BY <1>0, <1>9 DEF Drain, Drained, Effect, EDrain
<1>10. CASE ClearPolicy(c)
  BY <1>0, <1>10 DEF ClearPolicy, Effect, EPolicy
<1>11. CASE ClearShards(c)
  BY <1>0, <1>11 DEF ClearShards, ClearShard, Effect, EShard
<1>. QED  BY <1>1, <1>2, <1>3, <1>4, <1>5, <1>6, <1>7, <1>8, <1>9, <1>10, <1>11 DEF Continue

\* So has the step of the processor.
LEMMA ProcessorEffect ==
    ASSUME CacheTypeOK, ReceiveItem \/ Process \/ CleanupStart
    PROVE  PEffect
<1>0. UNCHANGED <<pc, cur, shards, calls>> /\ pp # "dead" /\ pitem \in Items
  BY ProcessorControl DEF ReceiveItem, ReceiveWait, ReceiveNew, ReceiveUpdate, ReceiveDelete,
     Process, Admit, Added, Rejected, LeaveAdd, EvictVictim, DeleteStored, CleanupCheck,
     CleanupDel, CleanupStart, ClientsUnchanged, clientVars, CacheTypeOK, ProcTypeOK
<1>. SUFFICES pp' # "dead" /\ (PReceive \/ PAdded \/ PDelete \/ PQuiet)
  BY <1>0 DEF PEffect
<1>. USE DEF storeVars, procVars
<1>1. CASE ReceiveItem
  BY <1>1, <1>0 DEF ReceiveItem, ReceiveWait, ReceiveNew, ReceiveUpdate, ReceiveDelete,
     ReceiveFlag, Receive, PReceive
<1>2. CASE Admit
  BY <1>2 DEF Admit, PQuiet, Shrinks
<1>3. CASE Added
  BY <1>3 DEF Added, LeaveAdd, StoreSet, Replace, PAdded
<1>4. CASE Rejected
  BY <1>4 DEF Rejected, LeaveAdd, PAdded
<1>5. CASE EvictVictim
  BY <1>5 DEF EvictVictim, StoreDel, Remove, PQuiet, Shrinks
<1>6. CASE DeleteStored
  BY <1>6 DEF DeleteStored, StoreDel, Held, Matches, Remove, PDelete, Shrinks
<1>7. CASE CleanupCheck
  <2>1. ASSUME NEW w
        PROVE  [WaitItem(NoClient) EXCEPT !.key = w.key, !.conflict = w.conflict].value
                   = ZeroValue
    BY DEF WaitItem, NewItem
  <2>. QED  BY <1>7, <2>1 DEF CleanupCheck, PQuiet, Shrinks
<1>8. CASE CleanupDel
  <2>1. WaitItem(NoClient).value = ZeroValue
    BY DEF WaitItem, NewItem
  <2>. QED  BY <1>8, <2>1 DEF CleanupDel, StoreDel, Remove, PQuiet, Shrinks
<1>9. CASE CleanupStart
  BY <1>9 DEF CleanupStart, emExtract, PQuiet, Shrinks
<1>. QED  BY <1>1, <1>2, <1>3, <1>4, <1>5, <1>6, <1>7, <1>8, <1>9 DEF Process

-----------------------------------------------------------------------------
(* The buffer after a send and after a receive *)

\* The buffer after a send, item by item
LEMMA AfterSend ==
    ASSUME ChanTypeOK, NEW i \in Items, setBuf' = Append(setBuf, i)
    PROVE  \E n \in Nat : /\ DOMAIN setBuf = 1..n /\ DOMAIN setBuf' = 1..(n + 1)
                          /\ \A j \in 1..n : setBuf'[j] = setBuf[j]
                          /\ setBuf'[n + 1] = i
<1>1. setBuf \in Seq(Items)
  BY DEF ChanTypeOK
<1>2. Len(setBuf) \in Nat
  BY <1>1
<1>. QED  BY <1>1, <1>2

\* The buffer after a receive, item by item
LEMMA AfterReceive ==
    ASSUME ChanTypeOK, setBuf # <<>>, setBuf' = Tail(setBuf)
    PROVE  /\ Head(setBuf) \in Items
           /\ \E n \in Nat \ {0} : /\ DOMAIN setBuf = 1..n /\ DOMAIN setBuf' = 1..(n - 1)
                                   /\ \A j \in 1..(n - 1) : setBuf'[j] = setBuf[j + 1]
                                   /\ Head(setBuf) = setBuf[1]
<1>1. setBuf \in Seq(Items)
  BY DEF ChanTypeOK
<1>2. Len(setBuf) \in Nat \ {0}
  BY <1>1
<1>3. /\ DOMAIN setBuf = 1..Len(setBuf) /\ DOMAIN setBuf' = 1..(Len(setBuf) - 1)
      /\ \A j \in 1..(Len(setBuf) - 1) : setBuf'[j] = setBuf[j + 1]
      /\ Head(setBuf) = setBuf[1]
  BY <1>1
<1>. QED  BY <1>2, <1>3, TailType

\* Every item left in the buffer was there, in the same order.
LEMMA Received ==
    ASSUME ChanTypeOK, setBuf # <<>>, setBuf' = Tail(setBuf)
    PROVE  /\ Head(setBuf) = setBuf[1] /\ 1 \in DOMAIN setBuf /\ DOMAIN setBuf \subseteq Nat \ {0}
           /\ \A j \in DOMAIN setBuf' : j + 1 \in DOMAIN setBuf /\ setBuf'[j] = setBuf[j + 1]
           /\ \A j \in DOMAIN setBuf \ {1} : j - 1 \in DOMAIN setBuf'
                                             /\ setBuf'[j - 1] = setBuf[j]
           /\ DOMAIN setBuf' \subseteq Nat \ {0}
<1>1. PICK n \in Nat \ {0} : /\ DOMAIN setBuf = 1..n /\ DOMAIN setBuf' = 1..(n - 1)
                             /\ \A j \in 1..(n - 1) : setBuf'[j] = setBuf[j + 1]
                             /\ Head(setBuf) = setBuf[1]
  BY AfterReceive
<1>2. \A j \in DOMAIN setBuf' : j + 1 \in DOMAIN setBuf /\ setBuf'[j] = setBuf[j + 1]
  BY <1>1
<1>3. ASSUME NEW j \in DOMAIN setBuf \ {1}
      PROVE  j - 1 \in DOMAIN setBuf' /\ setBuf'[j - 1] = setBuf[j]
  <2>1. j \in Nat /\ j > 1 /\ j <= n
    BY <1>1
  <2>2. j - 1 \in 1..(n - 1) /\ (j - 1) + 1 = j
    BY <2>1
  <2>. QED  BY <1>1, <2>2
<1>. QED  BY <1>1, <1>2, <1>3

-----------------------------------------------------------------------------
(* HandInv and WaitInv are inductive *)

\* The item of Wait carries no value.
LEMMA WaitItemEmpty ==
    ASSUME NEW w
    PROVE  WaitItem(w).value = ZeroValue /\ WaitItem(w).wg = w /\ WaitItem(w).flag = "new"
  BY DEF WaitItem, NewItem

\* A client's step keeps what clients are about to send.
LEMMA HandStep ==
    ASSUME CacheTypeOK, HandInv, NEW c \in Clients, Effect(c),
           \A d \in Clients \ {c} : pc'[d] = pc[d] /\ cur'[d] = cur[d]
    PROVE  HandInv'
<1>0. calls \in Nat /\ calls' \in Nat /\ calls <= calls'
  BY CacheConstants DEF CacheTypeOK, GhostTypeOK, Effect, EInvoke, EUpdate, ESend, EDrop,
     EDel, EReturn, EControl, EPolicy, EDrain, EShard, placeVars
<1>. DEFINE P(d) == /\ pc[d] \in Setting => cur[d].wg = NoClient /\ cur[d].value \in 1..calls
                    /\ pc[d] \in {"del", "sendDel"} => cur[d].flag = "delete"
                    /\ pc[d] = "sendWait" => cur[d] = WaitItem(d)
            Q(d) == /\ pc'[d] \in Setting => cur'[d].wg = NoClient /\ cur'[d].value \in 1..calls'
                    /\ pc'[d] \in {"del", "sendDel"} => cur'[d].flag = "delete"
                    /\ pc'[d] = "sendWait" => cur'[d] = WaitItem(d)
<1>1. \A d \in Clients : P(d)
  BY DEF HandInv
<1>2. \A d \in Clients \ {c} : Q(d)
  BY <1>0, <1>1
<1>3. Q(c)
  <2>1. CASE EInvoke(c)
    BY <1>0, <2>1 DEF EInvoke, Setting
  <2>2. CASE EUpdate(c)
    BY <1>0, <1>1, <2>2 DEF EUpdate, Setting
  <2>3. CASE EDel(c)
    BY <1>1, <2>3 DEF EDel, Setting
  <2>4. CASE ESend(c) \/ EDrop(c) \/ EReturn(c) \/ EControl(c) \/ EPolicy(c) \/ EShard(c)
    BY <2>4 DEF ESend, EDrop, EReturn, EControl, EPolicy, EShard, Setting
  <2>5. CASE EDrain(c)
    BY <2>5 DEF EDrain, Setting
  <2>6. CASE UNCHANGED <<pc, cur, placeVars>>
    BY <1>1, <2>6 DEF placeVars
  <2>. QED  BY <2>1, <2>2, <2>3, <2>4, <2>5, <2>6 DEF Effect
<1>4. \A d \in Clients : Q(d)
  BY <1>2, <1>3
<1>. QED  BY <1>4 DEF HandInv

\* A client is released by the one who takes its item out of the buffer.
LEMMA WaitReceived ==
    ASSUME CacheTypeOK, WaitInv, UNCHANGED pc, setBuf # <<>>, setBuf' = Tail(setBuf),
           wgDone' = IF Head(setBuf).wg # NoClient THEN wgDone \cup {Head(setBuf).wg}
                     ELSE wgDone
    PROVE  WaitInv'
<1>0. ChanTypeOK
  BY DEF CacheTypeOK
<1>1. /\ Head(setBuf) = setBuf[1] /\ 1 \in DOMAIN setBuf /\ DOMAIN setBuf \subseteq Nat \ {0}
      /\ \A j \in DOMAIN setBuf' : j + 1 \in DOMAIN setBuf /\ setBuf'[j] = setBuf[j + 1]
      /\ DOMAIN setBuf' \subseteq Nat \ {0}
  BY <1>0, Received
<1>2. ASSUME NEW d \in wgDone'
      PROVE  pc'[d] = "waiting" /\ \A i \in DOMAIN setBuf' : setBuf'[i].wg # d
  <2>1. CASE d \in wgDone
    BY <1>1, <2>1 DEF WaitInv
  <2>2. CASE d = Head(setBuf).wg /\ d # NoClient
    <3>1. \A i \in DOMAIN setBuf' : i + 1 # 1
      BY <1>1
    <3>. QED  BY <1>1, <2>2, <3>1 DEF WaitInv
  <2>. QED  BY <1>2, <2>1, <2>2
<1>3. ASSUME NEW i \in DOMAIN setBuf', setBuf'[i].wg # NoClient
      PROVE  /\ pc'[setBuf'[i].wg] = "waiting"
             /\ \A j \in DOMAIN setBuf' : setBuf'[i].wg = setBuf'[j].wg => i = j
  <2>1. pc'[setBuf'[i].wg] = "waiting"
    BY <1>1, <1>3 DEF WaitInv
  <2>2. ASSUME NEW j \in DOMAIN setBuf', setBuf'[i].wg = setBuf'[j].wg PROVE i = j
    <3>1. i + 1 = j + 1
      BY <1>1, <1>3, <2>2 DEF WaitInv
    <3>2. i \in Nat /\ j \in Nat
      BY <1>1
    <3>. QED  BY <3>1, <3>2
  <2>. QED  BY <2>1, <2>2
<1>. QED  BY <1>2, <1>3 DEF WaitInv

\* A client's step keeps the item of each Wait in the buffer once.
LEMMA WaitStep ==
    ASSUME CacheTypeOK, HandInv, WaitInv, NEW c \in Clients, Effect(c),
           \A d \in Clients \ {c} : pc'[d] = pc[d] /\ cur'[d] = cur[d]
    PROVE  WaitInv'
<1>0. ChanTypeOK /\ cur[c] \in Items /\ NoClient \notin Clients
  BY CacheConstants DEF CacheTypeOK, ClientTypeOK
<1>1. CASE UNCHANGED <<setBuf, wgDone>> /\ (pc[c] = "waiting" => pc'[c] = "waiting")
  <2>1. \A d \in wgDone : d \in Clients
    BY <1>0 DEF ChanTypeOK
  <2>2. \A i \in DOMAIN setBuf : setBuf[i].wg # NoClient => setBuf[i].wg \in Clients
    <3>1. \A i \in DOMAIN setBuf : setBuf[i] \in Items
      BY <1>0 DEF ChanTypeOK
    <3>. QED  BY <3>1, ItemFields
  <2>. QED  BY <1>1, <2>1, <2>2 DEF WaitInv
<1>2. CASE ESend(c)
  <2>1. PICK n \in Nat : /\ DOMAIN setBuf = 1..n /\ DOMAIN setBuf' = 1..(n + 1)
                         /\ \A j \in 1..n : setBuf'[j] = setBuf[j]
                         /\ setBuf'[n + 1] = cur[c]
    BY <1>0, <1>2, AfterSend DEF ESend
  <2>2. \A j \in DOMAIN setBuf' : j = n + 1 \/ j \in DOMAIN setBuf
    BY <2>1
  <2>3. \A i \in DOMAIN setBuf : setBuf[i].wg # c /\ c \notin wgDone
    BY <1>0, <1>2 DEF ESend, WaitInv
  <2>4. c \notin wgDone
    BY <1>2 DEF ESend, WaitInv
  <2>5. \A i \in DOMAIN setBuf : setBuf[i].wg # NoClient => setBuf[i].wg \in Clients
    <3>1. \A i \in DOMAIN setBuf : setBuf[i] \in Items
      BY <1>0 DEF ChanTypeOK
    <3>. QED  BY <3>1, ItemFields
  <2>6. cur[c].wg # NoClient => cur[c].wg = c /\ pc'[c] = "waiting"
    BY <1>0, <1>2, ItemFields, WaitItemEmpty DEF ESend, HandInv, Setting
  <2>7. UNCHANGED wgDone /\ wgDone \subseteq Clients
    BY <1>0, <1>2 DEF ESend, ChanTypeOK
  <2>8. \A d \in wgDone' : pc'[d] = "waiting" /\ \A i \in DOMAIN setBuf' : setBuf'[i].wg # d
    <3>1. \A d \in wgDone : d # c /\ d # NoClient
      BY <1>0, <2>4, <2>7
    <3>. QED  BY <2>1, <2>2, <2>6, <2>7, <3>1 DEF WaitInv
  <2>9. ASSUME NEW i \in DOMAIN setBuf', setBuf'[i].wg # NoClient
        PROVE  /\ pc'[setBuf'[i].wg] = "waiting"
               /\ \A j \in DOMAIN setBuf' : setBuf'[i].wg = setBuf'[j].wg => i = j
    <3>1. CASE i = n + 1
      BY <2>1, <2>2, <2>3, <2>6, <2>9, <3>1
    <3>2. CASE i \in DOMAIN setBuf
      <4>1. setBuf'[i] = setBuf[i] /\ setBuf[i].wg \in Clients \ {c}
        BY <2>1, <2>3, <2>5, <2>9, <3>2
      <4>2. pc'[setBuf[i].wg] = "waiting"
        BY <2>9, <3>2, <4>1 DEF WaitInv
      <4>3. ASSUME NEW j \in DOMAIN setBuf', setBuf'[i].wg = setBuf'[j].wg PROVE i = j
        <5>1. j # n + 1
          BY <2>1, <2>6, <2>9, <4>1, <4>3
        <5>2. j \in DOMAIN setBuf /\ setBuf'[j] = setBuf[j]
          BY <2>1, <2>2, <5>1
        <5>. QED  BY <2>9, <3>2, <4>1, <4>3, <5>2 DEF WaitInv
      <4>. QED  BY <4>1, <4>2, <4>3
    <3>. QED  BY <2>2, <2>9, <3>1, <3>2
  <2>. QED  BY <2>8, <2>9 DEF WaitInv
<1>3. CASE EReturn(c)
  <2>1. UNCHANGED setBuf /\ wgDone' = wgDone \ {c} /\ \A i \in DOMAIN setBuf : setBuf[i].wg # c
    BY <1>3 DEF EReturn, WaitInv
  <2>2. wgDone \subseteq Clients
    BY <1>0 DEF ChanTypeOK
  <2>3. \A i \in DOMAIN setBuf : setBuf[i].wg # NoClient => setBuf[i].wg \in Clients \ {c}
    <3>1. \A i \in DOMAIN setBuf : setBuf[i] \in Items
      BY <1>0 DEF ChanTypeOK
    <3>. QED  BY <2>1, <3>1, ItemFields
  <2>. QED  BY <2>1, <2>2, <2>3 DEF WaitInv
<1>4. CASE EDrain(c)
  <2>1. CASE setBuf # <<>> /\ UNCHANGED pc
    BY <1>4, <2>1, WaitReceived DEF EDrain
  <2>. QED  BY <1>1, <1>4, <2>1 DEF EDrain
<1>5. CASE EInvoke(c) \/ EUpdate(c) \/ EDrop(c) \/ EDel(c)
  BY <1>1, <1>5 DEF EInvoke, EUpdate, EDrop, EDel, placeVars
<1>6. CASE EControl(c) \/ EPolicy(c) \/ EShard(c) \/ UNCHANGED <<pc, cur, placeVars>>
  BY <1>1, <1>6 DEF EControl, EPolicy, EShard, placeVars
<1>. QED  BY <1>2, <1>3, <1>4, <1>5, <1>6 DEF Effect

\* So does a step of the processor, which answers the Wait it takes out.
LEMMA ProcessorWait ==
    ASSUME CacheTypeOK, HandInv, WaitInv, PEffect
    PROVE  HandInv' /\ WaitInv'
<1>1. HandInv'
  BY DEF PEffect, HandInv
<1>2. CASE PReceive
  BY <1>1, <1>2, WaitReceived DEF PReceive, PEffect
<1>3. CASE PAdded \/ PDelete \/ PQuiet
  BY <1>1, <1>3 DEF PAdded, PDelete, PQuiet, PEffect, WaitInv
<1>. QED  BY <1>1, <1>2, <1>3 DEF PEffect

-----------------------------------------------------------------------------
(* The history *)

\* What a step of client c adds to the history
LEMMA ObserveClient ==
    ASSUME NEW c \in Clients, \A d \in Clients \ {c} : pc'[d] = pc[d], Observe
    PROVE  /\ DOMAIN acked \subseteq DOMAIN acked'
           /\ \A v \in DOMAIN acked : acked'[v] = acked[v]
           /\ \A v \in DOMAIN acked' \ DOMAIN acked :
                 /\ pc[c] = "send" /\ pc'[c] = "idle"
                 /\ v = cur[c].value /\ acked'[v] = Id(cur[c])
           /\ \A d \in Clients \ {c} : doomed'[d] = doomed[d]
           /\ doomed'[c] = DoomedAfter(c)
           /\ \A v \in gone' \ gone :
                 /\ v \in doomed[c]
                 /\ Moves(c, "waiting", "idle") \/ Moves(c, "restart", "idle")
           /\ gone \subseteq gone'
<1>1. \A d \in Clients \ {c} : ~SetAcked(d) /\ DoomedAfter(d) = doomed[d]
  BY DEF SetAcked, SetRefused, Moves, DoomedAfter
<1>2. \A d \in Clients \ {c} : ~Moves(d, "waiting", "idle") /\ ~Moves(d, "restart", "idle")
  BY DEF Moves
<1>. DEFINE D == {cur[d].value : d \in {x \in Clients : SetAcked(x)}}
<1>3. /\ DOMAIN acked' = DOMAIN acked \cup D
      /\ \A v \in DOMAIN acked' :
            acked'[v] = IF v \in DOMAIN acked THEN acked[v]
                        ELSE Id(cur[CHOOSE d \in Clients : SetAcked(d)])
  BY DEF Observe
<1>4. ASSUME NEW v \in DOMAIN acked' \ DOMAIN acked
      PROVE  /\ pc[c] = "send" /\ pc'[c] = "idle"
             /\ v = cur[c].value /\ acked'[v] = Id(cur[c])
  <2>1. SetAcked(c) /\ v = cur[c].value
    BY <1>1, <1>3, <1>4
  <2>2. (CHOOSE d \in Clients : SetAcked(d)) = c
    BY <1>1, <2>1
  <2>. QED  BY <1>3, <1>4, <2>1, <2>2 DEF SetAcked, Moves
<1>5. ASSUME NEW v \in gone' \ gone
      PROVE  v \in doomed[c] /\ (Moves(c, "waiting", "idle") \/ Moves(c, "restart", "idle"))
  <2>1. PICK d \in Clients : /\ v \in doomed[d]
                             /\ Moves(d, "waiting", "idle") \/ Moves(d, "restart", "idle")
    BY <1>5 DEF Observe
  <2>2. d = c
    BY <1>2, <2>1
  <2>. QED  BY <2>1, <2>2
<1>. QED  BY <1>1, <1>3, <1>4, <1>5 DEF Observe

\* A step of another goroutine adds nothing.
LEMMA ObserveOther ==
    ASSUME UNCHANGED pc, Observe
    PROVE  /\ DOMAIN acked' = DOMAIN acked
           /\ \A v \in DOMAIN acked : acked'[v] = acked[v]
           /\ \A d \in Clients : doomed'[d] = doomed[d]
           /\ gone' = gone
<1>1. \A d \in Clients : ~SetAcked(d) /\ DoomedAfter(d) = doomed[d]
  BY DEF SetAcked, SetRefused, Moves, DoomedAfter
<1>2. \A d \in Clients : ~Moves(d, "waiting", "idle") /\ ~Moves(d, "restart", "idle")
  BY DEF Moves
<1>3. {cur[d].value : d \in {x \in Clients : SetAcked(x)}} = {}
  BY <1>1
<1>4. UNION {doomed[d] : d \in {x \in Clients : \/ Moves(x, "waiting", "idle")
                                               \/ Moves(x, "restart", "idle")}} = {}
  BY <1>2
<1>. QED  BY <1>1, <1>3, <1>4 DEF Observe

-----------------------------------------------------------------------------
(* TagInv is inductive *)

\* A step of a client moves tags, and brings one for a value of its own.
LEMMA ClientTags ==
    ASSUME CacheTypeOK, NEW c \in Clients, Effect(c), UNCHANGED pitem, Observe,
           \A d \in Clients \ {c} : pc'[d] = pc[d] /\ cur'[d] = cur[d],
           NEW v, v # ZeroValue, NEW i, Tagged(v, i)'
    PROVE  \/ Tagged(v, i)
           \/ /\ EInvoke(c) /\ pc'[c] = "update" /\ v = calls + 1 /\ calls' = calls + 1
              /\ i = Id(cur'[c])
<1>0. ChanTypeOK /\ cur[c] \in Items
  BY DEF CacheTypeOK, ClientTypeOK
<1>1. CASE v \in DOMAIN acked' /\ acked'[v] = i
  <2>1. CASE v \in DOMAIN acked
    BY <1>1, <2>1, ObserveClient DEF Tagged
  <2>2. CASE v \notin DOMAIN acked
    BY <1>1, <2>2, ObserveClient DEF Tagged
  <2>. QED  BY <2>1, <2>2
<1>2. CASE pitem'.value = v /\ Id(pitem') = i
  BY <1>2 DEF Tagged, Id
<1>3. ASSUME NEW n \in DOMAIN setBuf', setBuf'[n].value = v, Id(setBuf'[n]) = i
      PROVE  Tagged(v, i)
  <2>1. CASE UNCHANGED setBuf
    BY <1>3, <2>1 DEF Tagged
  <2>2. CASE ESend(c)
    <3>1. PICK m \in Nat : /\ DOMAIN setBuf = 1..m /\ DOMAIN setBuf' = 1..(m + 1)
                           /\ \A j \in 1..m : setBuf'[j] = setBuf[j]
                           /\ setBuf'[m + 1] = cur[c]
      BY <1>0, <2>2, AfterSend DEF ESend
    <3>2. n = m + 1 \/ n \in DOMAIN setBuf
      BY <3>1
    <3>. QED  BY <1>3, <3>1, <3>2 DEF Tagged
  <2>3. CASE setBuf # <<>> /\ setBuf' = Tail(setBuf)
    <3>1. n + 1 \in DOMAIN setBuf /\ setBuf'[n] = setBuf[n + 1]
      BY <1>0, <2>3, Received
    <3>. QED  BY <1>3, <3>1 DEF Tagged
  <2>. QED  BY <2>1, <2>2, <2>3 DEF Effect, EInvoke, EUpdate, EDrop, EDel, EReturn, EControl,
                                    EPolicy, EDrain, EShard, placeVars
<1>4. ASSUME NEW h \in DOMAIN data', data'[h].value = v,
             i = [key |-> h, conflict |-> data'[h].conflict]
      PROVE  Tagged(v, i)
  <2>1. CASE h \in DOMAIN data /\ data'[h] = data[h]
    BY <1>4, <2>1 DEF Tagged
  <2>2. CASE EUpdate(c) /\ data' # data
    <3>1. \/ h \in DOMAIN data /\ data'[h] = data[h]
          \/ h = cur[c].key /\ data'[h] = Entry(cur[c])
      BY <2>2 DEF EUpdate, Put
    <3>2. CASE h = cur[c].key /\ data'[h] = Entry(cur[c])
      <4>1. v = cur[c].value /\ i = Id(cur[c])
        BY <1>4, <3>2 DEF Entry, Id
      <4>. QED  BY <4>1 DEF Tagged
    <3>. QED  BY <2>1, <3>1, <3>2
  <2>3. CASE EShard(c)
    BY <1>4, <2>1, <2>3 DEF EShard, Remove
  <2>4. CASE EDel(c)
    BY <1>4, <2>1, <2>4 DEF EDel, Shrinks
  <2>5. CASE UNCHANGED data
    BY <1>4, <2>1, <2>5
  <2>. QED  BY <2>2, <2>3, <2>4, <2>5 DEF Effect, EInvoke, EUpdate, ESend, EDrop, EReturn,
                                         EControl, EPolicy, EDrain, placeVars
<1>5. ASSUME NEW d \in Clients, cur'[d].value = v, Id(cur'[d]) = i
      PROVE  \/ Tagged(v, i)
             \/ /\ EInvoke(c) /\ pc'[c] = "update" /\ v = calls + 1 /\ calls' = calls + 1
                /\ i = Id(cur'[c])
  <2>1. CASE cur'[d] = cur[d]
    BY <1>5, <2>1 DEF Tagged
  <2>2. CASE cur'[d] # cur[d]
    <3>1. d = c
      BY <2>2
    <3>2. cur'[c].value # ZeroValue
      BY <1>5, <3>1
    <3>3. CASE EInvoke(c)
      BY <1>5, <2>2, <3>1, <3>2, <3>3, WaitItemEmpty DEF EInvoke
    <3>4. CASE EUpdate(c)
      <4>1. v = cur[c].value /\ i = Id(cur[c])
        BY <1>5, <3>1, <3>4 DEF EUpdate
      <4>. QED  BY <4>1 DEF Tagged
    <3>5. ~(ESend(c) \/ EDrop(c) \/ EReturn(c) \/ EControl(c))
      BY <2>2, <3>1, <3>2, WaitItemEmpty DEF ESend, EDrop, EReturn, EControl
    <3>6. ~(EDel(c) \/ EPolicy(c) \/ EDrain(c) \/ EShard(c) \/ UNCHANGED <<pc, cur, placeVars>>)
      BY <2>2 DEF EDel, EPolicy, EDrain, EShard
    <3>. QED  BY <3>3, <3>4, <3>5, <3>6 DEF Effect
  <2>. QED  BY <2>1, <2>2
<1>. QED  BY <1>1, <1>2, <1>3, <1>4, <1>5 DEF Tagged

\* What client c holds after its step it held before, or has just got.
LEMMA ClientHand ==
    ASSUME NEW c \in Clients, Effect(c), pc'[c] \in Setting
    PROVE  \/ pc[c] \in Setting /\ cur'[c].value = cur[c].value /\ calls' = calls
           \/ pc[c] = "idle" /\ cur'[c].value = calls + 1 /\ calls' = calls + 1
<1>. USE DEF Setting
<1>1. CASE EInvoke(c) \/ EUpdate(c) \/ UNCHANGED <<pc, cur, placeVars>>
  BY <1>1 DEF EInvoke, EUpdate, placeVars
<1>2. CASE EDrain(c)
  BY <1>2 DEF EDrain
<1>3. CASE ESend(c) \/ EDrop(c) \/ EDel(c) \/ EReturn(c) \/ EControl(c) \/ EPolicy(c)
             \/ EShard(c)
  BY <1>3 DEF ESend, EDrop, EDel, EReturn, EControl, EPolicy, EShard
<1>. QED  BY <1>1, <1>2, <1>3 DEF Effect

\* A client's step keeps the hashes of every value.
LEMMA TagStep ==
    ASSUME CacheTypeOK, HandInv, TagInv, NEW c \in Clients, Effect(c), UNCHANGED pitem,
           Observe, \A d \in Clients \ {c} : pc'[d] = pc[d] /\ cur'[d] = cur[d]
    PROVE  TagInv'
<1>0. calls \in Nat /\ calls' \in Nat /\ calls <= calls'
  BY CacheConstants DEF CacheTypeOK, GhostTypeOK, Effect, EInvoke, EUpdate, ESend, EDrop,
     EDel, EReturn, EControl, EPolicy, EDrain, EShard, placeVars
<1>1. /\ \A v, i : v # ZeroValue /\ Tagged(v, i) => v \in 1..calls
      /\ \A v, i, j : v # ZeroValue /\ Tagged(v, i) /\ Tagged(v, j) => i = j
      /\ DOMAIN acked \subseteq 1..calls
      /\ \A v \in DOMAIN acked : ~Handed(v)
      /\ \A d, e \in Clients :
            pc[d] \in Setting /\ pc[e] \in Setting /\ cur[d].value = cur[e].value => d = e
  BY DEF TagInv
<1>2. ASSUME NEW v, NEW i, v # ZeroValue, Tagged(v, i)' PROVE v \in 1..calls'
  <2>1. CASE Tagged(v, i)
    BY <1>0, <1>1, <1>2, <2>1
  <2>2. CASE v = calls + 1 /\ calls' = calls + 1
    BY <1>0, <2>2
  <2>. QED  BY <1>2, <2>1, <2>2, ClientTags
<1>3. ASSUME NEW v, NEW i, NEW j, v # ZeroValue, Tagged(v, i)', Tagged(v, j)' PROVE i = j
  <2>1. Tagged(v, i) \/ (v = calls + 1 /\ i = Id(cur'[c]))
    BY <1>3, ClientTags
  <2>2. Tagged(v, j) \/ (v = calls + 1 /\ j = Id(cur'[c]))
    BY <1>3, ClientTags
  <2>3. v = calls + 1 => ~Tagged(v, i) /\ ~Tagged(v, j)
    BY <1>0, <1>1, <1>3
  <2>. QED  BY <1>1, <1>3, <2>1, <2>2, <2>3
<1>4. ASSUME NEW v \in DOMAIN acked' PROVE v \in 1..calls'
  <2>1. CASE v \in DOMAIN acked
    BY <1>0, <1>1, <2>1
  <2>2. CASE v \notin DOMAIN acked
    <3>1. pc[c] = "send" /\ v = cur[c].value
      BY <1>4, <2>2, ObserveClient
    <3>. QED  BY <1>0, <3>1 DEF HandInv, Setting
  <2>. QED  BY <2>1, <2>2
<1>5. ASSUME NEW v \in DOMAIN acked', NEW d \in Clients, pc'[d] \in Setting,
             cur'[d].value = v
      PROVE  FALSE
  <2>1. CASE v \in DOMAIN acked
    <3>1. ~Handed(v) /\ v # calls + 1
      BY <1>0, <1>1, <2>1
    <3>2. d = c
      BY <1>5, <3>1 DEF Handed
    <3>. QED  BY <1>5, <3>1, <3>2, ClientHand DEF Handed
  <2>2. CASE v \notin DOMAIN acked
    <3>1. pc[c] = "send" /\ pc'[c] = "idle" /\ v = cur[c].value
      BY <1>5, <2>2, ObserveClient
    <3>2. d # c
      BY <1>5, <3>1 DEF Setting
    <3>. QED  BY <1>1, <1>5, <3>1, <3>2 DEF Setting
  <2>. QED  BY <2>1, <2>2
<1>6. ASSUME NEW d \in Clients, pc'[d] \in Setting, pc'[c] \in Setting,
             cur'[d].value = cur'[c].value
      PROVE  d = c
  <2>. SUFFICES ASSUME d # c PROVE FALSE
    OBVIOUS
  <2>1. pc[d] \in Setting /\ cur'[d].value = cur[d].value
    BY <1>6
  <2>2. cur[d].value # calls + 1
    BY <1>0, <2>1 DEF HandInv
  <2>3. pc[c] \in Setting /\ cur'[c].value = cur[c].value
    BY <1>6, <2>1, <2>2, ClientHand
  <2>. QED  BY <1>1, <1>6, <2>1, <2>3
<1>7. ASSUME NEW d \in Clients, NEW e \in Clients, pc'[d] \in Setting, pc'[e] \in Setting,
             cur'[d].value = cur'[e].value
      PROVE  d = e
  <2>1. CASE d = c \/ e = c
    BY <1>6, <1>7, <2>1
  <2>2. CASE d # c /\ e # c
    BY <1>1, <1>7, <2>2
  <2>. QED  BY <2>1, <2>2
<1>. QED  BY <1>2, <1>3, <1>4, <1>5, <1>7 DEF TagInv, Handed

\* The processor only moves tags.
LEMMA ProcessorTags ==
    ASSUME CacheTypeOK, TagInv, PEffect, Observe
    PROVE  TagInv'
<1>0. ChanTypeOK /\ UNCHANGED <<pc, cur, calls>>
  BY DEF CacheTypeOK, PEffect
<1>1. ASSUME NEW v, v # ZeroValue, NEW i, Tagged(v, i)'
      PROVE  Tagged(v, i)
  <2>1. CASE v \in DOMAIN acked' /\ acked'[v] = i
    BY <1>0, <2>1, ObserveOther DEF Tagged
  <2>2. CASE pitem'.value = v /\ Id(pitem') = i
    <3>1. CASE pitem' = pitem
      BY <2>2, <3>1 DEF Tagged
    <3>2. CASE pitem' = Head(setBuf) /\ setBuf # <<>> /\ setBuf' = Tail(setBuf)
      <4>1. pitem' = setBuf[1] /\ 1 \in DOMAIN setBuf
        BY <1>0, <3>2, Received
      <4>. QED  BY <2>2, <4>1 DEF Tagged
    <3>3. CASE pitem'.value = ZeroValue
      BY <1>1, <2>2, <3>3
    <3>. QED  BY <3>1, <3>2, <3>3, WaitItemEmpty DEF PEffect, PReceive, PAdded, PDelete, PQuiet
  <2>3. ASSUME NEW n \in DOMAIN setBuf', setBuf'[n].value = v, Id(setBuf'[n]) = i
        PROVE  Tagged(v, i)
    <3>1. CASE UNCHANGED setBuf
      BY <2>3, <3>1 DEF Tagged
    <3>2. CASE setBuf # <<>> /\ setBuf' = Tail(setBuf)
      <4>1. n + 1 \in DOMAIN setBuf /\ setBuf'[n] = setBuf[n + 1]
        BY <1>0, <3>2, Received
      <4>. QED  BY <2>3, <4>1 DEF Tagged
    <3>. QED  BY <3>1, <3>2 DEF PEffect, PReceive, PAdded, PDelete, PQuiet
  <2>4. ASSUME NEW h \in DOMAIN data', data'[h].value = v,
               i = [key |-> h, conflict |-> data'[h].conflict]
        PROVE  Tagged(v, i)
    <3>1. CASE h \in DOMAIN data /\ data'[h] = data[h]
      BY <2>4, <3>1 DEF Tagged
    <3>2. CASE h = pitem.key /\ data'[h] = Entry(pitem)
      <4>1. v = pitem.value /\ i = Id(pitem)
        BY <2>4, <3>2 DEF Entry, Id
      <4>. QED  BY <4>1 DEF Tagged
    <3>. QED  BY <3>1, <3>2 DEF PEffect, PReceive, PAdded, PDelete, PQuiet, Shrinks, Put
  <2>5. ASSUME NEW d \in Clients, cur'[d].value = v, Id(cur'[d]) = i
        PROVE  Tagged(v, i)
    BY <1>0, <2>5 DEF Tagged
  <2>. QED  BY <1>1, <2>1, <2>2, <2>3, <2>4, <2>5 DEF Tagged
<1>2. DOMAIN acked' = DOMAIN acked
  BY <1>0, ObserveOther
<1>3. \A v : Handed(v)' <=> Handed(v)
  BY <1>0 DEF Handed
<1>. QED  BY <1>0, <1>1, <1>2, <1>3 DEF TagInv

\* A step that moves nothing: the clock, or stuttering
Still ==
    /\ UNCHANGED <<pc, cur, placeVars, pitem>>
    /\ DOMAIN acked' = DOMAIN acked /\ \A v \in DOMAIN acked : acked'[v] = acked[v]
    /\ \A d \in Clients : doomed'[d] = doomed[d]
    /\ gone' = gone

\* Steps that move no item keep all three.
LEMMA StillTags ==
    ASSUME HandInv, WaitInv, TagInv, Still
    PROVE  HandInv' /\ WaitInv' /\ TagInv'
<1>. USE DEF Still, placeVars
<1>1. HandInv' /\ WaitInv'
  BY DEF HandInv, WaitInv
<1>2. \A v, i : Tagged(v, i)' <=> Tagged(v, i)
  BY DEF Tagged
<1>3. \A v : Handed(v)' <=> Handed(v)
  BY DEF Handed
<1>. QED  BY <1>1, <1>2, <1>3 DEF TagInv

historyAll == <<cacheVars, historyVars>>

\* The steps of the system with its history
LEMMA HistoryCases ==
    ASSUME CacheTypeOK, [HNext]_historyAll
    PROVE  \/ Still
           \/ PEffect /\ Observe
           \/ \E c \in Clients :
                 /\ Effect(c) /\ UNCHANGED pitem /\ Observe
                 /\ \A d \in Clients \ {c} : pc'[d] = pc[d] /\ cur'[d] = cur[d]
<1>1. CASE UNCHANGED historyAll
  BY <1>1 DEF historyAll, cacheVars, historyVars, clientVars, chanVars, storeVars, procVars,
     ghostVars, Still, placeVars
<1>2. CASE HNext
  <2>1. Next /\ Observe
    BY <1>2 DEF HNext
  <2>2. CASE ReceiveItem \/ Process \/ CleanupStart
    BY <2>1, <2>2, ProcessorEffect
  <2>3. CASE AdvanceTime
    <3>1. UNCHANGED <<pc, cur, placeVars, pitem>>
      BY <2>3 DEF AdvanceTime, clientVars, chanVars, storeVars, procVars, ghostVars, placeVars
    <3>2. UNCHANGED pc
      BY <3>1
    <3>. QED  BY <2>1, <3>1, <3>2, ObserveOther DEF Still
  <2>4. ASSUME NEW c \in Clients, Invoke(c) \/ Continue(c)
        PROVE  /\ Effect(c) /\ UNCHANGED pitem
               /\ \A d \in Clients \ {c} : pc'[d] = pc[d] /\ cur'[d] = cur[d]
    BY <2>4, ClientEffect
  <2>. QED  BY <2>1, <2>2, <2>3, <2>4, NextCases
<1>. QED  BY <1>1, <1>2

TagsInv == CacheTypeOK /\ AddInv /\ StopInv /\ HandInv /\ WaitInv /\ TagInv

\* The invariant holds initially.
LEMMA TagsInit ==
    ASSUME HInit
    PROVE  TagsInv
<1>1. CacheTypeOK /\ AddInv /\ StopInv
  BY ControlInit DEF HInit
<1>2. /\ \A c \in Clients : pc[c] = "idle" /\ cur[c] = WaitItem(NoClient)
      /\ setBuf = <<>> /\ wgDone = {} /\ pitem = WaitItem(NoClient) /\ DOMAIN data = {}
      /\ DOMAIN acked = {}
  BY DEF HInit, Init, EmptyMap
<1>3. HandInv /\ WaitInv
  BY <1>2 DEF HandInv, WaitInv, Setting
<1>4. \A v, i : v # ZeroValue => ~Tagged(v, i)
  BY <1>2, WaitItemEmpty DEF Tagged
<1>5. TagInv
  BY <1>2, <1>4 DEF TagInv, Setting
<1>. QED  BY <1>1, <1>3, <1>5 DEF TagsInv

\* Every step keeps it.
LEMMA TagsStep ==
    ASSUME TagsInv, [HNext]_historyAll
    PROVE  TagsInv'
<1>0. CacheTypeOK /\ AddInv /\ StopInv /\ HandInv /\ WaitInv /\ TagInv
  BY DEF TagsInv
<1>1. CacheTypeOK' /\ AddInv' /\ StopInv'
  <2>1. [Next]_cacheVars
    BY DEF HNext, historyAll
  <2>. QED  BY <1>0, <2>1, ControlStep
<1>2. HandInv' /\ WaitInv' /\ TagInv'
  <2>1. CASE Still
    BY <1>0, <2>1, StillTags
  <2>2. CASE PEffect /\ Observe
    BY <1>0, <2>2, ProcessorWait, ProcessorTags
  <2>3. CASE \E c \in Clients :
                 /\ Effect(c) /\ UNCHANGED pitem /\ Observe
                 /\ \A d \in Clients \ {c} : pc'[d] = pc[d] /\ cur'[d] = cur[d]
    BY <1>0, <2>3, HandStep, WaitStep, TagStep
  <2>. QED  BY <1>0, <2>1, <2>2, <2>3, HistoryCases
<1>. QED  BY <1>1, <1>2 DEF TagsInv

\* A zero conflict hash turns the check of it off.  keyToHash gives one to integer keys,
\* whose hash is the key itself: no key with another conflict hash shares it.
ConflictsUnmixed ==
    \A k, l \in Keys : KeyHash[k] = KeyHash[l] /\ ConflictHash[k] = 0 => ConflictHash[l] = 0

\* Get never returns the value of another key, even of one with the same hash: what it
\* finds was set for the two hashes it asks for.
THEOREM GetsOwnValue == ConflictsUnmixed => (HSpec => []NoAliasing)
<1>. SUFFICES ASSUME ConflictsUnmixed PROVE HSpec => []NoAliasing
  OBVIOUS
<1>1. HInit => TagsInv
  BY TagsInit
<1>2. TagsInv /\ [HNext]_historyAll => TagsInv'
  BY TagsStep
<1>3. TagsInv => NoAliasing
  <2>. SUFFICES ASSUME TagsInv, NEW k \in Keys, Found(KeyHash[k], ConflictHash[k]),
                       data[KeyHash[k]].value \in DOMAIN acked
                PROVE  acked[data[KeyHash[k]].value]
                           = [key |-> KeyHash[k], conflict |-> ConflictHash[k]]
    BY DEF NoAliasing
  <2>. DEFINE h == KeyHash[k]
              v == data[h].value
  <2>1. h \in DOMAIN data /\ (ConflictHash[k] = 0 \/ ConflictHash[k] = data[h].conflict)
    BY DEF Found, Held, Matches
  <2>2. PICK l \in Keys : KeyHash[l] = h /\ ConflictHash[l] = data[h].conflict
    BY <2>1 DEF TagsInv, CacheTypeOK, StoreTypeOK, KnownPair
  <2>3. data[h].conflict = ConflictHash[k]
    BY <2>1, <2>2 DEF ConflictsUnmixed
  <2>4. Tagged(v, [key |-> h, conflict |-> data[h].conflict]) /\ Tagged(v, acked[v])
    BY <2>1 DEF Tagged
  <2>5. v # ZeroValue
    BY DEF TagsInv, TagInv, ZeroValue
  <2>. QED  BY <2>3, <2>4, <2>5 DEF TagsInv, TagInv
<1>. QED  BY <1>1, <1>2, <1>3, PTL DEF HSpec, historyAll

-----------------------------------------------------------------------------
(* Where an acknowledged value goes *)

\* It is stored under its own hashes.
LEMMA StoredAt ==
    ASSUME TagInv, NEW v \in DOMAIN acked, NEW h \in DOMAIN data, data[h].value = v
    PROVE  h = acked[v].key /\ data[h].conflict = acked[v].conflict /\ v # ZeroValue
<1>1. v # ZeroValue
  BY DEF TagInv, ZeroValue
<1>2. Tagged(v, acked[v]) /\ Tagged(v, [key |-> h, conflict |-> data[h].conflict])
  BY DEF Tagged
<1>. QED  BY <1>1, <1>2 DEF TagInv

\* No client brings it back.
LEMMA ClientFlow ==
    ASSUME CacheTypeOK, HandInv, TagInv, NEW c \in Clients, Effect(c), UNCHANGED pitem,
           NEW v \in DOMAIN acked
    PROVE  /\ Buffered(v)' => Buffered(v)
           /\ Admitting(v)' => Admitting(v)
           /\ Stored(v)' => Stored(v)
<1>0. ChanTypeOK /\ cur[c] \in Items /\ ~Handed(v) /\ v # ZeroValue
  BY DEF CacheTypeOK, ClientTypeOK, TagInv, ZeroValue
<1>1. ASSUME NEW i \in DOMAIN setBuf', setBuf'[i].flag = "new", setBuf'[i].value = v
      PROVE  Buffered(v)
  <2>1. CASE UNCHANGED setBuf
    BY <1>1, <2>1 DEF Buffered
  <2>2. CASE ESend(c)
    <3>1. PICK n \in Nat : /\ DOMAIN setBuf = 1..n /\ DOMAIN setBuf' = 1..(n + 1)
                           /\ \A j \in 1..n : setBuf'[j] = setBuf[j]
                           /\ setBuf'[n + 1] = cur[c]
      BY <1>0, <2>2, AfterSend DEF ESend
    <3>2. i = n + 1 \/ (i \in DOMAIN setBuf /\ setBuf'[i] = setBuf[i])
      BY <3>1
    <3>3. ~(cur[c].flag = "new" /\ cur[c].value = v)
      <4>1. CASE pc[c] = "send"
        BY <1>0, <4>1 DEF Handed, Setting
      <4>2. CASE pc[c] \in {"sendDel", "sendWait"}
        BY <1>0, <4>2, WaitItemEmpty DEF HandInv
      <4>. QED  BY <2>2, <4>1, <4>2 DEF ESend
    <3>. QED  BY <1>1, <3>1, <3>2, <3>3 DEF Buffered
  <2>3. CASE setBuf # <<>> /\ setBuf' = Tail(setBuf)
    <3>1. i + 1 \in DOMAIN setBuf /\ setBuf'[i] = setBuf[i + 1]
      BY <1>0, <2>3, Received
    <3>. QED  BY <1>1, <3>1 DEF Buffered
  <2>. QED  BY <2>1, <2>2, <2>3 DEF Effect, EInvoke, EUpdate, EDrop, EDel, EReturn, EControl,
                                    EPolicy, EDrain, EShard, placeVars
<1>2. pp' = "add" => pp = "add"
  BY DEF Effect, EInvoke, EUpdate, ESend, EDrop, EDel, EReturn, EControl, EPolicy, EDrain,
     EShard, placeVars
<1>3. ASSUME NEW h \in DOMAIN data', data'[h].value = v
      PROVE  Stored(v)
  <2>1. CASE h \in DOMAIN data /\ data'[h] = data[h]
    BY <1>3, <2>1 DEF Stored
  <2>2. CASE EUpdate(c)
    <3>1. cur[c].value # v
      BY <1>0, <2>2 DEF EUpdate, Handed, Setting
    <3>2. \/ h \in DOMAIN data /\ data'[h] = data[h]
          \/ h = cur[c].key /\ data'[h] = Entry(cur[c])
      BY <1>3, <2>2 DEF EUpdate, Put
    <3>. QED  BY <1>3, <2>1, <3>1, <3>2 DEF Entry
  <2>3. CASE EShard(c)
    BY <1>3, <2>1, <2>3 DEF EShard, Remove
  <2>4. CASE EDel(c)
    BY <1>3, <2>1, <2>4 DEF EDel, Shrinks
  <2>5. CASE UNCHANGED data
    BY <1>3, <2>1, <2>5
  <2>. QED  BY <2>2, <2>3, <2>4, <2>5 DEF Effect, EInvoke, ESend, EDrop, EReturn,
                                         EControl, EPolicy, EDrain, placeVars
<1>. QED  BY <1>1, <1>2, <1>3 DEF Buffered, Admitting, Stored

\* The processor takes it from the buffer, and puts it into the store.
LEMMA ProcessorFlow ==
    ASSUME CacheTypeOK, TagInv, PEffect, NEW v \in DOMAIN acked
    PROVE  /\ Buffered(v)' => Buffered(v)
           /\ Admitting(v)' => Admitting(v) \/ Buffered(v)
           /\ Stored(v)' => Stored(v) \/ Admitting(v)
<1>0. ChanTypeOK /\ v # ZeroValue
  BY DEF CacheTypeOK, TagInv, ZeroValue
<1>1. CASE PReceive
  <2>1. /\ Head(setBuf) = setBuf[1] /\ 1 \in DOMAIN setBuf
        /\ \A j \in DOMAIN setBuf' : j + 1 \in DOMAIN setBuf /\ setBuf'[j] = setBuf[j + 1]
    BY <1>0, <1>1, Received DEF PReceive
  <2>. QED  BY <1>1, <2>1 DEF PReceive, Buffered, Admitting, Stored
<1>2. CASE PAdded
  <2>1. UNCHANGED setBuf /\ pp' # "add" /\ pp = "add"
    BY <1>2 DEF PAdded
  <2>2. ASSUME NEW h \in DOMAIN data', data'[h].value = v
        PROVE  Stored(v) \/ Admitting(v)
    <3>1. \/ h \in DOMAIN data /\ data'[h] = data[h]
          \/ h = pitem.key /\ data'[h] = Entry(pitem)
      BY <1>2, <2>2 DEF PAdded, Put
    <3>. QED  BY <2>1, <2>2, <3>1 DEF Stored, Admitting, Entry
  <2>. QED  BY <2>1, <2>2 DEF Stored, Admitting, Buffered
<1>3. CASE PDelete \/ PQuiet
  BY <1>0, <1>3 DEF PDelete, PQuiet, Shrinks, Stored, Admitting, Buffered
<1>. QED  BY <1>1, <1>2, <1>3 DEF PEffect

\* A value that nothing but a Clear has to erase stays so.
LEMMA ClientSafe ==
    ASSUME CacheTypeOK, StopInv, HandInv, TagInv, NEW c \in Clients, Effect(c),
           UNCHANGED pitem, Observe,
           \A d \in Clients \ {c} : pc'[d] = pc[d] /\ cur'[d] = cur[d],
           NEW v \in DOMAIN acked, Safe(v)
    PROVE  Safe(v)'
<1>0. /\ Buffered(v)' => Buffered(v)
      /\ Admitting(v)' => Admitting(v)
      /\ Stored(v)' => Stored(v)
      /\ acked'[v] = acked[v]
  BY ClientFlow, ObserveClient
<1>1. CASE Clean(v)
  <2>. SUFFICES ASSUME Stored(v)'
                PROVE  \E d \in Clients : \/ pc'[d] = "policyClear"
                                          \/ pc'[d] = "clearShards" /\ acked'[v].key \in shards'
    BY <1>0, <1>1 DEF Safe, Clean
  <2>1. PICK d \in Clients : \/ pc[d] = "policyClear"
                             \/ pc[d] = "clearShards" /\ acked[v].key \in shards
    BY <1>0, <1>1 DEF Clean
  <2>2. PICK g \in DOMAIN data' : data'[g].value = v
    BY DEF Stored
  <2>3. CASE pc'[d] = pc[d] /\ UNCHANGED shards
    BY <1>0, <2>1, <2>3
  <2>4. CASE d # c
    <3>1. pc[c] \notin Stopped
      BY <2>1, <2>4 DEF StopInv, Stopped
    <3>2. UNCHANGED shards
      BY <3>1 DEF Stopped, Effect, EInvoke, EUpdate, ESend, EDrop, EDel, EReturn, EControl,
         EPolicy, EDrain, EShard, placeVars
    <3>. QED  BY <2>3, <2>4, <3>2
  <2>5. CASE d = c /\ EPolicy(c)
    <3>1. g \in DOMAIN data /\ data[g].value = v
      BY <2>2, <2>5 DEF EPolicy
    <3>2. g = acked[v].key /\ g \in Hashes
      BY <3>1, StoredAt DEF CacheTypeOK, StoreTypeOK, IsMap
    <3>. QED  BY <1>0, <2>5, <3>2 DEF EPolicy
  <2>6. CASE d = c /\ EShard(c)
    <3>1. PICK h \in shards : /\ data' = Remove(data, h) /\ shards' = shards \ {h}
                              /\ pc'[c] = IF shards = {h} THEN "emClear" ELSE "clearShards"
      BY <2>6 DEF EShard
    <3>2. g \in DOMAIN data /\ data[g].value = v /\ g # h
      BY <2>2, <3>1 DEF Remove
    <3>3. g = acked[v].key /\ pc[c] = "clearShards"
      BY <2>6, <3>2, StoredAt DEF EShard
    <3>4. g \in shards /\ shards # {h}
      BY <2>1, <2>6, <3>2, <3>3
    <3>. QED  BY <1>0, <2>6, <3>1, <3>2, <3>3, <3>4
  <2>. QED  BY <2>1, <2>3, <2>4, <2>5, <2>6 DEF Effect, EInvoke, EUpdate, ESend, EDrop, EDel,
                                               EReturn, EControl, EDrain, placeVars
<1>2. CASE Draining
  <2>1. PICK d \in Clients : pc[d] = "drain"
    BY <1>2 DEF Draining
  <2>2. CASE pc'[d] = "drain"
    BY <2>2 DEF Safe, Draining
  <2>3. CASE pc'[d] # "drain"
    <3>1. EDrain(c) /\ d = c /\ setBuf = <<>> /\ pc'[c] = "policyClear" /\ UNCHANGED setBuf
      BY <2>1, <2>3 DEF Effect, EInvoke, EUpdate, ESend, EDrop, EDel, EReturn, EControl,
         EPolicy, EDrain, EShard, placeVars
    <3>2. pp' # "add"
      BY <2>1, <3>1 DEF StopInv, Stopped, EDrain
    <3>3. ~Buffered(v)' /\ ~Admitting(v)'
      BY <3>1, <3>2 DEF Buffered, Admitting
    <3>. QED  BY <3>1, <3>3 DEF Safe, Clean
  <2>. QED  BY <2>2, <2>3
<1>. QED  BY <1>1, <1>2 DEF Safe

\* A value that is safe stays safe in the processor's steps.
LEMMA ProcessorSafe ==
    ASSUME CacheTypeOK, StopInv, TagInv, PEffect, Observe, NEW v \in DOMAIN acked, Safe(v)
    PROVE  Safe(v)'
<1>0. /\ Buffered(v)' => Buffered(v)
      /\ Admitting(v)' => Admitting(v) \/ Buffered(v)
      /\ Stored(v)' => Stored(v) \/ Admitting(v)
  BY ProcessorFlow
<1>1. UNCHANGED <<pc, shards>>
  BY DEF PEffect
<1>2. acked'[v] = acked[v]
  BY <1>1, ObserveOther
<1>. QED  BY <1>0, <1>1, <1>2 DEF Safe, Clean, Draining

-----------------------------------------------------------------------------
(* DoomInv is inductive *)

\* What is to erase a value stays on its way, whoever takes a step.
LEMMA ClientErasing ==
    ASSUME TagsInv, NEW c \in Clients, Effect(c), UNCHANGED pitem, Observe,
           \A d \in Clients \ {c} : pc'[d] = pc[d] /\ cur'[d] = cur[d],
           NEW e \in Clients, NEW v \in DOMAIN acked, Erasing(e, v)
    PROVE  Erasing(e, v)'
<1>0. /\ CacheTypeOK /\ StopInv /\ HandInv /\ WaitInv /\ TagInv /\ ChanTypeOK
      /\ cur[c] \in Items /\ NoClient \notin Clients
  BY CacheConstants DEF TagsInv, CacheTypeOK, ClientTypeOK
<1>1. acked'[v] = acked[v] /\ (Buffered(v)' => Buffered(v))
  BY <1>0, ClientFlow, ObserveClient
<1>2. CASE Safe(v)
  BY <1>0, <1>2, ClientSafe DEF Erasing
<1>3. CASE pc[e] \in {"del", "sendDel"} /\ Id(cur[e]) = acked[v]
  <2>1. CASE pc'[e] \in {"del", "sendDel"} /\ cur'[e] = cur[e]
    BY <1>1, <1>3, <2>1 DEF Erasing
  <2>2. CASE ESend(c) /\ e = c
    <3>1. PICK n \in Nat : /\ DOMAIN setBuf = 1..n /\ DOMAIN setBuf' = 1..(n + 1)
                           /\ \A j \in 1..n : setBuf'[j] = setBuf[j]
                           /\ setBuf'[n + 1] = cur[c]
      BY <1>0, <2>2, AfterSend DEF ESend
    <3>2. cur[c].flag = "delete" /\ cur[c].wg = NoClient
      BY <1>0, <1>3, <2>2, ItemFields DEF HandInv
    <3>3. n + 1 \in DOMAIN setBuf' /\ Id(setBuf'[n + 1]) = acked'[v]
      BY <1>1, <1>3, <2>2, <3>1
    <3>4. ASSUME NEW i \in DOMAIN setBuf'
          PROVE  /\ setBuf'[i].flag = "new" /\ setBuf'[i].value = v => i < n + 1
                 /\ setBuf'[i].wg # c
      <4>1. CASE i = n + 1
        BY <1>0, <3>1, <3>2, <4>1
      <4>2. CASE i \in 1..n
        BY <1>0, <1>3, <2>2, <3>1, <4>2 DEF WaitInv
      <4>. QED  BY <3>1, <4>1, <4>2
    <3>5. Queued(e, v)'
      BY <2>2, <3>1, <3>2, <3>3, <3>4 DEF Queued
    <3>. QED  BY <3>5 DEF Erasing
  <2>. QED  BY <1>3, <2>1, <2>2 DEF Effect, EInvoke, EUpdate, ESend, EDrop, EDel, EReturn,
                                   EControl, EPolicy, EDrain, EShard
<1>4. CASE pc[e] = "stop"
  <2>1. pc'[e] = "stop" \/ pc'[e] = "drain"
    BY <1>4 DEF Effect, EInvoke, EUpdate, ESend, EDrop, EDel, EReturn, EControl, EPolicy,
       EDrain, EShard
  <2>. QED  BY <2>1 DEF Erasing, Safe, Draining
<1>5. CASE Queued(e, v)
  <2>1. PICK j \in DOMAIN setBuf :
                /\ setBuf[j].flag = "delete" /\ Id(setBuf[j]) = acked[v]
                /\ \A i \in DOMAIN setBuf :
                      /\ setBuf[i].flag = "new" /\ setBuf[i].value = v => i < j
                      /\ setBuf[i].wg = e => j < i
    BY <1>5 DEF Queued
  <2>2. CASE UNCHANGED setBuf
    BY <1>1, <2>1, <2>2 DEF Erasing, Queued
  <2>3. CASE ESend(c)
    <3>1. PICK n \in Nat : /\ DOMAIN setBuf = 1..n /\ DOMAIN setBuf' = 1..(n + 1)
                           /\ \A i \in 1..n : setBuf'[i] = setBuf[i]
                           /\ setBuf'[n + 1] = cur[c]
      BY <1>0, <2>3, AfterSend DEF ESend
    <3>2. ~(cur[c].flag = "new" /\ cur[c].value = v)
      <4>1. ~Handed(v) /\ v # ZeroValue
        BY <1>0 DEF TagInv, ZeroValue
      <4>2. CASE pc[c] = "send"
        BY <4>1, <4>2 DEF Handed, Setting
      <4>3. CASE pc[c] \in {"sendDel", "sendWait"}
        BY <1>0, <4>1, <4>3, WaitItemEmpty DEF HandInv
      <4>. QED  BY <2>3, <4>2, <4>3 DEF ESend
    <3>3. /\ j \in DOMAIN setBuf' /\ setBuf'[j] = setBuf[j] /\ j \in Nat /\ j < n + 1
      BY <2>1, <3>1
    <3>4. ASSUME NEW i \in DOMAIN setBuf'
          PROVE  /\ setBuf'[i].flag = "new" /\ setBuf'[i].value = v => i < j
                 /\ setBuf'[i].wg = e => j < i
      <4>1. CASE i = n + 1
        BY <3>1, <3>2, <3>3, <4>1
      <4>2. CASE i \in 1..n
        BY <2>1, <3>1, <4>2
      <4>. QED  BY <3>1, <4>1, <4>2
    <3>5. Queued(e, v)'
      BY <1>1, <2>1, <3>3, <3>4 DEF Queued
    <3>. QED  BY <3>5 DEF Erasing
  <2>4. CASE EDrain(c)
    <3>1. Safe(v)
      BY <2>4 DEF EDrain, Safe, Draining
    <3>. QED  BY <1>2, <3>1
  <2>. QED  BY <2>2, <2>3, <2>4 DEF Effect, EInvoke, EUpdate, EDrop, EDel, EReturn, EControl,
                                    EPolicy, EShard, placeVars
<1>6. CASE pp = "delStore" /\ Id(pitem) = acked[v] /\ ~Buffered(v)
  <2>1. UNCHANGED pp
    <3>1. pc[c] # "restart"
      BY <1>0, <1>6 DEF StopInv, Stopped
    <3>. QED  BY <1>6, <3>1 DEF Effect, EInvoke, EUpdate, ESend, EDrop, EDel, EReturn,
                               EControl, EPolicy, EDrain, EShard, placeVars
  <2>2. Id(pitem') = acked'[v]
    BY <1>1, <1>6 DEF Id
  <2>. QED  BY <1>1, <1>6, <2>1, <2>2 DEF Erasing
<1>. QED  BY <1>2, <1>3, <1>4, <1>5, <1>6 DEF Erasing

\* A deletion that is under way in the buffer comes nearer, in order.
LEMMA ProcessorErasing ==
    ASSUME TagsInv, PEffect, Observe, NEW e \in Clients, NEW v \in DOMAIN acked,
           Erasing(e, v)
    PROVE  Erasing(e, v)'
<1>0. CacheTypeOK /\ StopInv /\ TagInv /\ ChanTypeOK /\ UNCHANGED <<pc, cur>>
  BY DEF TagsInv, CacheTypeOK, PEffect
<1>1. acked'[v] = acked[v] /\ (Buffered(v)' => Buffered(v))
  BY <1>0, ProcessorFlow, ObserveOther
<1>2. CASE Safe(v)
  BY <1>0, <1>2, ProcessorSafe DEF Erasing
<1>3. CASE (pc[e] \in {"del", "sendDel"} /\ Id(cur[e]) = acked[v]) \/ pc[e] = "stop"
  BY <1>0, <1>1, <1>3 DEF Erasing
<1>4. CASE Queued(e, v)
  <2>1. PICK j \in DOMAIN setBuf :
                /\ setBuf[j].flag = "delete" /\ Id(setBuf[j]) = acked[v]
                /\ \A i \in DOMAIN setBuf :
                      /\ setBuf[i].flag = "new" /\ setBuf[i].value = v => i < j
                      /\ setBuf[i].wg = e => j < i
    BY <1>4 DEF Queued
  <2>2. CASE UNCHANGED setBuf
    BY <1>1, <2>1, <2>2 DEF Erasing, Queued
  <2>3. CASE PReceive
    <3>1. /\ Head(setBuf) = setBuf[1] /\ DOMAIN setBuf \subseteq Nat \ {0}
          /\ \A i \in DOMAIN setBuf' : i + 1 \in DOMAIN setBuf /\ setBuf'[i] = setBuf[i + 1]
          /\ \A i \in DOMAIN setBuf \ {1} : i - 1 \in DOMAIN setBuf' /\ setBuf'[i - 1] = setBuf[i]
          /\ DOMAIN setBuf' \subseteq Nat \ {0}
      BY <1>0, <2>3, Received DEF PReceive
    <3>2. ASSUME NEW i \in DOMAIN setBuf'
          PROVE  /\ setBuf'[i].flag = "new" /\ setBuf'[i].value = v => i + 1 < j
                 /\ setBuf'[i].wg = e => j < i + 1
      BY <2>1, <3>1
    <3>3. CASE j = 1
      <4>1. Head(setBuf).flag = "delete" /\ Head(setBuf).wg = NoClient
        <5>1. Head(setBuf) \in Items
          BY <1>0, <2>3, AfterReceive DEF PReceive
        <5>. QED  BY <2>1, <3>1, <3>3, <5>1, ItemFields
      <4>2. pp' = "delStore" /\ pitem' = Head(setBuf)
        BY <2>3, <4>1 DEF PReceive
      <4>3. ~Buffered(v)'
        <5>1. \A i \in DOMAIN setBuf' : ~(i + 1 < 1)
          BY <3>1
        <5>. QED  BY <3>2, <3>3, <5>1 DEF Buffered
      <4>4. Id(pitem') = acked'[v]
        BY <1>1, <2>1, <3>1, <3>3, <4>2
      <4>. QED  BY <4>2, <4>3, <4>4 DEF Erasing
    <3>4. CASE j # 1
      <4>1. j - 1 \in DOMAIN setBuf' /\ setBuf'[j - 1] = setBuf[j] /\ j \in Nat
        BY <2>1, <3>1, <3>4
      <4>2. ASSUME NEW i \in DOMAIN setBuf'
            PROVE  /\ setBuf'[i].flag = "new" /\ setBuf'[i].value = v => i < j - 1
                   /\ setBuf'[i].wg = e => j - 1 < i
        <5>1. i \in Nat
          BY <3>1
        <5>. QED  BY <3>2, <4>1, <5>1
      <4>3. Queued(e, v)'
        BY <1>1, <2>1, <4>1, <4>2 DEF Queued
      <4>. QED  BY <4>3 DEF Erasing
    <3>. QED  BY <3>3, <3>4
  <2>. QED  BY <2>2, <2>3 DEF PEffect, PAdded, PDelete, PQuiet
<1>5. CASE pp = "delStore" /\ Id(pitem) = acked[v] /\ ~Buffered(v)
  <2>1. PDelete
    BY <1>5 DEF PEffect, PReceive, PAdded, PQuiet
  <2>2. ASSUME NEW h \in DOMAIN data', data'[h].value = v PROVE FALSE
    <3>1. h \in DOMAIN data /\ data'[h] = data[h]
      BY <2>1, <2>2 DEF PDelete, Shrinks
    <3>2. h = acked[v].key /\ data[h].conflict = acked[v].conflict
      BY <1>0, <2>2, <3>1, StoredAt
    <3>3. acked[v].key = pitem.key /\ acked[v].conflict = pitem.conflict
      BY <1>5 DEF Id
    <3>. QED  BY <2>1, <2>2, <3>1, <3>2, <3>3 DEF PDelete
  <2>3. ~Stored(v)' /\ ~Admitting(v)' /\ ~Buffered(v)'
    BY <1>1, <1>5, <2>1, <2>2 DEF Stored, Admitting, PDelete
  <2>. QED  BY <2>3 DEF Erasing, Safe, Clean
<1>. QED  BY <1>2, <1>3, <1>4, <1>5 DEF Erasing

\* The values the calls of client c are to erase grow at the call of Del or of Clear.
LEMMA DoomedGrows ==
    ASSUME "Set" \notin Erasers, NEW c, NEW v \in DoomedAfter(c)
    PROVE  \/ v \in doomed[c]
           \/ pc'[c] = "del" /\ v \in DOMAIN acked /\ acked[v] = Id(cur'[c])
           \/ pc'[c] = "stop" /\ v \in DOMAIN acked
  BY DEF DoomedAfter, AckedFor, Moves

Clearing == {"drain", "policyClear", "clearShards", "emClear", "restart"}

\* A client's step keeps the fate of doomed values.
LEMMA ClientDoom ==
    ASSUME "Set" \notin Erasers, TagsInv, DoomInv, NEW c \in Clients, Effect(c),
           UNCHANGED pitem, Observe,
           \A d \in Clients \ {c} : pc'[d] = pc[d] /\ cur'[d] = cur[d]
    PROVE  DoomInv'
<1>. USE DEF Clearing
<1>0. CacheTypeOK /\ StopInv /\ HandInv /\ WaitInv /\ TagInv
  BY DEF TagsInv
<1>1. /\ gone \subseteq DOMAIN acked
      /\ \A v \in gone : Safe(v)
      /\ \A e \in Clients :
            /\ doomed[e] \subseteq DOMAIN acked
            /\ \A v \in doomed[e] : Erasing(e, v)
            /\ e \in wgDone \/ pc[e] \in Clearing => \A v \in doomed[e] : Safe(v)
  BY DEF DoomInv
<1>2. /\ DOMAIN acked \subseteq DOMAIN acked'
      /\ \A v \in DOMAIN acked : acked'[v] = acked[v]
      /\ \A e \in Clients \ {c} : doomed'[e] = doomed[e]
      /\ doomed'[c] = DoomedAfter(c)
      /\ \A v \in gone' \ gone :
            /\ v \in doomed[c]
            /\ Moves(c, "waiting", "idle") \/ Moves(c, "restart", "idle")
  BY ObserveClient
<1>3. \A v \in DOMAIN acked : Safe(v) => Safe(v)'
  BY <1>0, ClientSafe
<1>4. \A e \in Clients, v \in DOMAIN acked : Erasing(e, v) => Erasing(e, v)'
  BY ClientErasing
<1>5. Moves(c, "waiting", "idle") => c \in wgDone
  BY DEF Moves, Effect, EInvoke, EUpdate, ESend, EDrop, EDel, EReturn, EControl, EPolicy,
     EDrain, EShard
<1>6. ASSUME NEW v \in gone' PROVE v \in DOMAIN acked /\ Safe(v)
  <2>1. CASE v \in gone
    BY <1>1, <2>1
  <2>2. CASE v \notin gone
    <3>1. v \in doomed[c] /\ (c \in wgDone \/ pc[c] = "restart")
      BY <1>2, <1>5, <1>6, <2>2 DEF Moves
    <3>. QED  BY <1>1, <3>1
  <2>. QED  BY <2>1, <2>2
<1>7. ASSUME NEW e \in Clients, NEW v \in doomed'[e]
      PROVE  v \in DOMAIN acked /\ Erasing(e, v)'
  <2>1. CASE v \in doomed[e]
    BY <1>1, <1>4, <2>1
  <2>2. CASE v \notin doomed[e]
    <3>1. e = c
      BY <1>2, <1>7, <2>2
    <3>2. \/ pc'[c] = "del" /\ v \in DOMAIN acked /\ acked[v] = Id(cur'[c])
          \/ pc'[c] = "stop" /\ v \in DOMAIN acked
      BY <1>2, <1>7, <2>2, <3>1, DoomedGrows
    <3>. QED  BY <1>2, <3>1, <3>2 DEF Erasing
  <2>. QED  BY <2>1, <2>2
<1>8. ASSUME NEW e \in Clients, e \in wgDone' \/ pc'[e] \in Clearing, NEW v \in doomed'[e]
      PROVE  Safe(v)'
  <2>1. CASE Draining'
    BY <2>1 DEF Safe
  <2>2. CASE ~Draining'
    <3>1. /\ pc'[e] \in Clearing => pc[e] \in Clearing
          /\ e \in wgDone' => e \in wgDone
      <4>1. CASE e # c
        <5>1. pc'[e] = pc[e]
          BY <4>1
        <5>2. e \in wgDone' => e \in wgDone
          BY <2>2 DEF Draining, Effect, EInvoke, EUpdate, ESend, EDrop, EDel, EReturn, EControl,
             EPolicy, EDrain, EShard, placeVars
        <5>. QED  BY <5>1, <5>2
      <4>2. CASE e = c
        BY <2>2, <4>2 DEF Draining, Effect, EInvoke, EUpdate, ESend, EDrop, EDel, EReturn,
           EControl, EPolicy, EDrain, EShard, placeVars
      <4>. QED  BY <4>1, <4>2
    <3>2. v \in doomed[e]
      <4>. SUFFICES ASSUME v \notin doomed[e] PROVE FALSE
        OBVIOUS
      <4>1. e = c
        BY <1>2, <1>8
      <4>2. pc'[c] \in {"del", "stop"}
        BY <1>2, <1>8, <4>1, DoomedGrows
      <4>3. c \in wgDone
        BY <1>8, <3>1, <4>1, <4>2
      <4>4. pc[c] = "waiting"
        BY <1>0, <4>3 DEF WaitInv
      <4>. QED  BY <4>2, <4>4 DEF Effect, EInvoke, EUpdate, ESend, EDrop, EDel, EReturn,
                                  EControl, EPolicy, EDrain, EShard
    <3>. QED  BY <1>1, <1>3, <1>8, <3>1, <3>2
  <2>. QED  BY <2>1, <2>2
<1>. QED  BY <1>2, <1>3, <1>6, <1>7, <1>8 DEF DoomInv

\* So does a step of the processor.
LEMMA ProcessorDoom ==
    ASSUME TagsInv, DoomInv, PEffect, Observe
    PROVE  DoomInv'
<1>. USE DEF Clearing
<1>0. CacheTypeOK /\ StopInv /\ WaitInv /\ TagInv /\ ChanTypeOK /\ UNCHANGED pc
  BY DEF TagsInv, CacheTypeOK, PEffect
<1>1. /\ gone \subseteq DOMAIN acked
      /\ \A v \in gone : Safe(v)
      /\ \A e \in Clients :
            /\ doomed[e] \subseteq DOMAIN acked
            /\ \A v \in doomed[e] : Erasing(e, v)
            /\ e \in wgDone \/ pc[e] \in Clearing => \A v \in doomed[e] : Safe(v)
  BY DEF DoomInv
<1>2. /\ DOMAIN acked' = DOMAIN acked
      /\ \A e \in Clients : doomed'[e] = doomed[e]
      /\ gone' = gone
  BY <1>0, ObserveOther
<1>3. \A v \in DOMAIN acked : Safe(v) => Safe(v)'
  BY <1>0, ProcessorSafe
<1>4. \A e \in Clients, v \in DOMAIN acked : Erasing(e, v) => Erasing(e, v)'
  BY ProcessorErasing
<1>5. ASSUME NEW e \in Clients, e \in wgDone', e \notin wgDone, NEW v \in doomed[e]
      PROVE  Safe(v)
  <2>1. PReceive /\ Head(setBuf).wg = e /\ e # NoClient
    BY <1>5, CacheConstants DEF PEffect, PReceive, PAdded, PDelete, PQuiet
  <2>2. Head(setBuf) = setBuf[1] /\ 1 \in DOMAIN setBuf /\ DOMAIN setBuf \subseteq Nat \ {0}
    BY <1>0, <2>1, Received DEF PReceive
  <2>3. pc[e] = "waiting" /\ pp = "select"
    BY <1>0, <2>1, <2>2 DEF WaitInv, PReceive
  <2>4. ~Queued(e, v)
    <3>1. \A j \in DOMAIN setBuf : ~(j < 1)
      BY <2>2
    <3>. QED  BY <2>1, <2>2, <3>1 DEF Queued
  <2>. QED  BY <1>1, <1>5, <2>3, <2>4 DEF Erasing
<1>. QED  BY <1>0, <1>1, <1>2, <1>3, <1>4, <1>5 DEF DoomInv

\* So does a step that moves no item.
LEMMA StillDoom ==
    ASSUME DoomInv, Still
    PROVE  DoomInv'
<1>1. \A v \in DOMAIN acked : Safe(v) => Safe(v)'
  BY DEF Still, placeVars, Safe, Clean, Draining, Buffered, Admitting, Stored
<1>2. \A e \in Clients, v \in DOMAIN acked : Erasing(e, v) => Erasing(e, v)'
  BY <1>1 DEF Still, placeVars, Erasing, Queued, Buffered, Id
<1>. QED  BY <1>1, <1>2 DEF DoomInv, Still, placeVars

\* Once a client's Del and then its Wait have returned, or its Clear, no value whose Set
\* had returned before is in the store ever again, though any number of goroutines set,
\* delete and clear meanwhile: the deletion follows the value through setBuf, and a Clear
\* that swallows it takes the value too.
THEOREM DeletedForGood == "Set" \notin Erasers => (HSpec => []ErasedStaysErased)
<1>. SUFFICES ASSUME "Set" \notin Erasers PROVE HSpec => []ErasedStaysErased
  OBVIOUS
<1>1. HInit => TagsInv /\ DoomInv
  <2>. SUFFICES ASSUME HInit PROVE DoomInv
    BY TagsInit
  <2>1. gone = {} /\ \A c \in Clients : doomed[c] = {}
    BY DEF HInit
  <2>. QED  BY <2>1 DEF DoomInv
<1>2. TagsInv /\ DoomInv /\ [HNext]_historyAll => TagsInv' /\ DoomInv'
  <2>. SUFFICES ASSUME TagsInv, DoomInv, [HNext]_historyAll PROVE DoomInv'
    BY TagsStep
  <2>1. CacheTypeOK
    BY DEF TagsInv
  <2>. QED  BY <2>1, HistoryCases, StillDoom, ProcessorDoom, ClientDoom
<1>3. TagsInv /\ DoomInv => ErasedStaysErased
  <2>. SUFFICES ASSUME TagsInv, DoomInv, pp # "dead", NEW h \in DOMAIN data,
                       data[h].value \in gone
                PROVE  FALSE
    BY DEF ErasedStaysErased, NoneVisible
  <2>1. \A d \in Clients : pc[d] \notin Stopped
    BY DEF TagsInv, StopInv
  <2>2. Safe(data[h].value) /\ Stored(data[h].value)
    BY DEF DoomInv, Stored
  <2>. QED  BY <2>1, <2>2 DEF Safe, Clean, Draining, Stopped
<1>. QED  BY <1>1, <1>2, <1>3, PTL DEF HSpec, historyAll
=============================================================================
