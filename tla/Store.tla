-------------------------------- MODULE Store --------------------------------
(***************************************************************************)
(* shardedMap and expirationMap (store.go, ttl.go): the hash map that holds*)
(* the values and the index of its entries by expiration bucket.           *)
(*                                                                         *)
(* An operation runs under the lock of one shard and takes the lock of the *)
(* expiration map inside it, so each is one step here.  Cleanup is split   *)
(* by its caller (Cache.tla), as it holds no lock across its parts.        *)
(***************************************************************************)
EXTENDS Integers, GoMap

CONSTANTS
    BucketDuration,     \* bucketDurationSecs
    ShouldUpdate(_, _)  \* Config.ShouldUpdate(cur, prev); TRUE when it is nil

ASSUME StoreConstants == BucketDuration \in Nat \ {0}

VARIABLES
    data,           \* hash -> [conflict, value, exp]
    buckets,        \* expirationMap.buckets: bucket number -> (hash -> conflict)
    lastCleaned,    \* expirationMap.lastCleanedBucketNum
    now             \* the clock, in seconds

storeVars == <<data, buckets, lastCleaned>>

\* time.Time{}: an instant long before every other, hence in a bucket of its own
ZeroTime == -BucketDuration

\* The zero value of V
ZeroValue == 0

-----------------------------------------------------------------------------
(* expirationMap *)

storageBucket(t) == (t \div BucketDuration) + 1

\* Behind the storage bucket, so that the bucket holds only expired items
cleanupBucket(t) == storageBucket(t) - 1

\* expirationMap.add
emAdd(b, key, conflict, exp) ==
    IF exp = ZeroTime THEN b
    ELSE LET n == storageBucket(exp)
         IN  Put(b, n, Put(IF n \in DOMAIN b THEN b[n] ELSE EmptyMap,
                           key, conflict))

\* expirationMap.del
emDel(b, key, exp) ==
    LET n == storageBucket(exp)
    IN  IF n \in DOMAIN b THEN [b EXCEPT ![n] = Remove(b[n], key)] ELSE b

\* Mutant: the entry of the old expiration stays.
emUpdateKeepsOld(b, key, conflict, oldExp, newExp) ==
    emAdd(b, key, conflict, newExp)

\* expirationMap.update
emUpdate(b, key, conflict, oldExp, newExp) ==
    emAdd(emDel(b, key, oldExp), key, conflict, newExp)

\* What cleanup at time t takes out of the map: the entries of the buckets it
\* has not cleaned yet, up to the one that was just completed.
DueBuckets(t) == DOMAIN buckets \cap (lastCleaned + 1)..cleanupBucket(t)

DueEntries(t) ==
    UNION {{[bucket |-> n, key |-> k, conflict |-> buckets[n][k]] :
                k \in DOMAIN buckets[n]} : n \in DueBuckets(t)}

\* The locked part of expirationMap.cleanup
emExtract(t) ==
    /\ buckets' = [n \in DOMAIN buckets \ DueBuckets(t) |-> buckets[n]]
    /\ lastCleaned' = cleanupBucket(t)
    /\ UNCHANGED data

\* expirationMap.clear
emClear ==
    /\ buckets' = EmptyMap
    /\ lastCleaned' = cleanupBucket(now)
    /\ UNCHANGED data

-----------------------------------------------------------------------------
(* lockedMap *)

\* Mutant: the conflict hash is not compared.
MatchesAny(conflict, key) == TRUE

\* The conflict check; a zero conflict matches every entry.
Matches(conflict, key) == conflict = 0 \/ conflict = data[key].conflict

Held(key, conflict) == key \in DOMAIN data /\ Matches(conflict, key)

Expired(exp) == exp # ZeroTime /\ now > exp

\* get, whose result is data[key].value when it holds and zero otherwise
Found(key, conflict) == Held(key, conflict) /\ ~Expired(data[key].exp)

\* Expiration
Expiration(key) == IF key \in DOMAIN data THEN data[key].exp ELSE ZeroTime

Entry(i) == [conflict |-> i.conflict, value |-> i.value, exp |-> i.exp]

\* em.update and the assignment to m.data[key], for an entry that exists
Replace(i) ==
    /\ data' = Put(data, i.key, Entry(i))
    /\ buckets' = emUpdate(buckets, i.key, i.conflict, data[i.key].exp, i.exp)
    /\ UNCHANGED lastCleaned

Replaceable(i) ==
    Held(i.key, i.conflict) /\ ShouldUpdate(i.value, data[i.key].value)

\* Set
StoreSet(i) ==
    IF i.key \notin DOMAIN data
    THEN /\ data' = Put(data, i.key, Entry(i))
         /\ buckets' = emAdd(buckets, i.key, i.conflict, i.exp)
         /\ UNCHANGED lastCleaned
    ELSE IF Replaceable(i) THEN Replace(i) ELSE UNCHANGED storeVars

\* Update, which returns the previous value and Replaceable(i)
StoreUpdate(i) == IF Replaceable(i) THEN Replace(i) ELSE UNCHANGED storeVars

\* The value Del returns
DelValue(key, conflict) ==
    IF Held(key, conflict) THEN data[key].value ELSE ZeroValue

\* Mutant: only the expiration map forgets the key.
StoreDelKeepsEntry(key, conflict) ==
    /\ buckets' = IF Held(key, conflict) THEN emDel(buckets, key, data[key].exp)
                  ELSE buckets
    /\ UNCHANGED <<data, lastCleaned>>

\* Del
StoreDel(key, conflict) ==
    IF Held(key, conflict)
    THEN /\ data' = Remove(data, key)
         /\ buckets' = IF data[key].exp = ZeroTime THEN buckets
                       ELSE emDel(buckets, key, data[key].exp)
         /\ UNCHANGED lastCleaned
    ELSE UNCHANGED storeVars

\* Clear, for the shard of one key: no bucket is touched, emClear follows
ClearShard(key) ==
    /\ data' = Remove(data, key)
    /\ UNCHANGED <<buckets, lastCleaned>>
=============================================================================
