# A TLA+ model of Ristretto

Ristretto is a concurrent, in-memory Go cache with an admission policy (TinyLFU) and an eviction policy
(sampled LFU). This directory holds TLA+ modules translated from its source, TLC configurations that check
them on small instances, and theorems about them that TLAPS checks for all instances.
`PROJECT.json` maps every definition to the lines it models and lists components, runs, findings, hazards
and theorems.

    tlc -workers 2 -config MCCachePipeline.cfg MCCache      # a run
    tlapm CacheProofs.tla                                   # a proof module

## The system

| component | state | operations | who calls it |
|---|---|---|---|
| `Cache` (cache.go) | `setBuf` (bounded channel), `stop`, `isClosed`, callbacks | Get, Set/SetWithTTL, Del, GetTTL, Wait, Clear, Close, UpdateMaxCost | any number of goroutines |
| `processItems` (cache.go) | the item in hand, the victims of one Add | receive an item, clean up on a tick, stop | one goroutine, started by NewCache and again by Clear |
| store (store.go) | 256 shards: hash → conflict, value, expiration, each with a lock | Get, Expiration, Set, Update, Del, Cleanup, Clear | clients and `processItems` |
| expiration map (ttl.go) | bucket number → hash → conflict, one lock, `lastCleanedBucketNum` | add, update, del, cleanup, clear | the store, under a shard's lock; cleanup from `processItems` |
| policy (policy.go) | `sampledLFU`: hash → cost, `used`, `maxCost` (atomic); `tinyLFU`; one lock | Add, Update, Del, Has, Cap, Cost, Clear, Push, Close | `processItems`, Clear, Close; Push from the get path |
| TinyLFU (policy.go, sketch.go, z/bbloom.go) | four rows of 4-bit counters, a Bloom filter, `incrs` | Increment, Estimate, reset, clear | the policy, under its lock |
| get path (ring.go, policy.go) | striped buffers in a `sync.Pool`, `itemsCh` | Push of hashes, lossy | every Get; drained by the policy's goroutine |
| metrics (cache.go) | striped uint64 counters | add, read, Clear | everyone |
| Allocator (z/allocator.go) | up to 64 buffers, `compIdx` (buffer and position in one word), a lock | Allocate, AllocateAligned, Reset, TrimTo, Release | any number of goroutines of Badger and Dgraph |
| AllocatorPool (z/allocator.go) | a channel of allocators, `numGets`, a Closer (z/z.go) | Get, Return, Release | the same; `freeupAllocators` in a goroutine of its own |
| Buffer (z/buffer.go, z/file.go) | memory in the heap or in a mapped file, `offset`, `curSz` | Allocate, Write, slices, SortSlice, Reset, Release | one goroutine |
| B+ tree (z/btree.go, z/simd) | pages in a Buffer, `nextPage`, `freePage`, statistics | Set, Get, DeleteBelow, IterateKV, Reset, Close, opening a file | one goroutine |
| rest of z/ | Histogram, calloc, SuperFlag, runtime bindings | – | Badger and Dgraph; the cache uses only `KeyToHash`, the Bloom filter and the histogram |

**How the parts interact.** A Set of a key that is stored replaces the value at once, under the shard's lock,
and then tries to send an *update* item; a Set of an absent key only tries to send a *new* item, and is refused
when `setBuf` is full. Del removes the value at once and then sends a *delete* item, blocking if it must, so
that a *new* item that is still in the buffer is deleted too. `processItems` receives the items in order: a new
one is offered to the policy, which may evict others; the store and the policy are changed one after the other,
while clients go on changing the store. Wait sends an item with a wait group and blocks until it is released.
Clear stops the processor, releases or frees what is in `setBuf`, empties policy, store and expiration map, and
starts a new processor. Close does a Clear, stops the processor again, closes the channels and only then sets
`isClosed`. A value leaves through `onExit`, on which users rely for manual memory management.

An Allocate is one atomic add to `compIdx`; only the goroutines whose claim ends behind the buffer take the lock, and
the first of them moves on to the next buffer. Users of a pool share an allocator, and give it back when all are done
with it. The tree asks its buffer for room and must look up its pages anew whenever the buffer may have moved; what
it keeps outside the file is found again from the pages when the file is opened.

**What is hard**, and tests reach only by luck: values replaced, deleted or evicted between the steps of their
own Set (a double free or a leak); the store and the policy drifting apart; a delete overtaking a set; cleanup
racing with updates of the entries it visits; Clear taking items from waiting clients; Close racing with
everything; a sample with duplicates in Add; capacity changes in the middle of an Add; counters and half-bytes
at their limits; claims of memory that overshoot a buffer while another goroutine replaces it; pages that are dropped,
reused and found again after reopening; runs merged over the memory they are read from. The list with line numbers is `hazards` in `PROJECT.json`.

## Modules

| module | models | state and actions |
|---|---|---|
| `GoMap` | Go maps | `Put`, `Remove`, `IsMap` on functions with finite domains |
| `Policy` | `defaultPolicy`, `sampledLFU`, the metrics counters | `keyCosts`, `used`, `maxCost`; `Add` in steps (`AddCall`, `AddFits`/`AddNoRoom`, `AddEvict`/`AddReject`, `AddReturn`) because `maxCost` is atomic and may change between its reads; one action for each of the other operations |
| `Store` | `lockedMap`, `expirationMap` | `data`, `buckets`, `lastCleaned`; one operator per critical section |
| `Cache` (extends both) | `Cache`, `processItems`, `expirationMap.cleanup` | each API call is a client's sequence of steps (`pc[c]`), split at its accesses to shared state; the processor's steps (`pp`) between the select and its calls into policy and store |
| `CacheHistory` | – | history variables over `Cache`: which Sets were acknowledged, which values later calls of a client erase for good |
| `TinyLFU` | `tinyLFU`, `cmSketch`, `cmRow`, the doorkeeper | bytes with two counters each, seeds, set bits of the Bloom filter, `incrs`; `Increment` and `Clear` |
| `TinyLFUExact` | – | history variables over `TinyLFU`: the same bookkeeping without collisions |
| `GetPath` | ring.go, `Push`, `processItems` and `Close` of the policy | `heap` of backing arrays, stripes in a `sync.Pool` and in clients' hands, `itemsCh`, the reader, the closer; one action per access to shared state |
| `Allocator` | z/allocator.go up to `Allocate` | per allocator `compIdx`, `buffers`, `mutex`; a call goes through `AllocateCall`/`AddIdx` (the add), `Look` (the unlocked read), `Lock`, `Grow`, `Store`; `given` holds the slices that users may still touch, `live` how often each buffer was made, less how often it was freed |
| `AllocatorPool` (extends `Allocator`) | the pool and `Closer` | `allocCh`, `numGets`, `waiting`; `GetCall`, `GetTake`, `Return`, `PoolRelease`, and the steps of `freeupAllocators` (`fp`) |
| `SortedMap` | what the tree promises | a map, and `fences`, the greatest keys of the leaves, which DeleteBelow may leave; `Set`, `DeleteBelow`, `Raise`, `Reset` |
| `Tree` | z/btree.go over its file | the tree as one value: pages, `nextPage`, `freePage`, the counts, the sizes of data and file; `DoSet`, `DoDeleteBelow`, `DoIterateKV`, `DoReset`, `Reopen` |
| `SliceList` | what a buffer of slices promises | a sequence; `WriteSlice`, `SortBetween`, `Reset` |
| `Buffer` | z/buffer.go | the cells, `offset`, `curSz`, `type`, and what Release has to give back; `WriteSlice`, `WritePanics`, `DoSort`, `Reset`, `Release` |
| `MCPolicy`, `MCCache`, `MCCacheHistory`, `MCTinyLFU`, `MCGetPath`, `MCAllocatorPool`, `MCTree`, `MCBuffer` | – | constants for TLC; `MCTinyLFU` also has `next2Power` and the XOR of the slots, bit by bit |
| `PolicyProofs`, `TinyLFUProofs`, `GetPathProofs`, `AllocatorProofs`, `TreeProofs`, `BufferProofs` | – | theorems about the module of that name, `AllocatorProofs` about `AllocatorPool` |
| `CacheProofs` | – | theorems about `Cache`: store, policy, expiration map and counters; then values, Close, and what `CacheHistory` records |
| `SumTheorems` | – | lemmas that the proofs share: induction, functions defined by recursion, sums over finite sets |

Abstractions that are worth knowing:

- A user key is a model value with two hashes, `KeyHash` and `ConflictHash`. Runs choose them distinct or equal.
- A value is the number of the call that brought it, so every value has one origin and `exits` can count how
  often it was freed. The zero value that `Del` and `Cleanup` also hand to callbacks is not counted.
- Each hash has a shard of its own: no property depends on two hashes sharing a lock.
- `lfuSample` keys are taken from `keyCosts` in any order, as Go's map iteration does. In `Policy` an estimate is
  *any* number up to `MaxHits`, fixed for one Add; so what is shown of the policy holds with every sketch, and
  the sketch is modelled on its own.
- `Get` in `Cache` is the look at the store; its push to the ring buffer, which shares nothing with the store, is in
  `GetPath`. There a hash is the number of its Get. `sync.Pool` is external: Get returns any stripe it has, or a new
  one, and a collection may take any. `isClosed` of the policy is read without a lock while Close writes it, so a read
  after the write may still return the old value. Metrics.Clear is not an action of `GetPath`.
- Costs and `used` are integers without a width; metrics are taken modulo `MetricsWord`.
- Time is a counter; a bucket is `BucketDuration` ticks long. The ticker may fire at any select.
- A send on a closed channel sets `panicked`, after which nothing happens.
- A call that finds `isClosed` set returns at once; it is no step of the model.
- In `Allocator` a buffer is its length and a slice an interval; addresses start at a multiple of the alignment, as
  calloc's do. A user resets, returns or releases an allocator only when no call on it is in progress, which is the
  contract of its users, and then forgets its slices.
- In `Tree` a page is its id, its leaf bit and its pairs. A search is what all variants of z/simd compute, the first
  key that is not less. Growth of the file may move the mapping, so an access through an old slice may crash.
  A process that stops between two calls leaves the same file as Close, since the mapping is shared.
- In `Buffer` a cell is eight bytes; `sort.Slice` may leave equal slices in any order. `sort` and `merge` work on the memory
  of their own range, which is what each call reads, writes and returns: `merge` is its loop, round by round, over the
  range with its two parts in place and `tmp` beside it. `Tree` and `Buffer` are used by one goroutine at a time, so an operation is one step.

Operators named as mutants in comments are not part of the model. Each is a plausible mistake, and is put in the
place of the operator below it to see that a property notices.

## Runs

`CHECK_DEADLOCK FALSE` stands in the cache runs, in `get_path` and in `allocator_pool` because clients make at most `MaxCalls` calls and the clock ends
at `MaxTime`: the system comes to rest when these are used up. In `btree` and `buffer` a crash, or Release, ends the behaviour. The liveness property says that no call is stuck
there. `MCPolicy` and `MCTinyLFU` check deadlock. Symmetry over `Clients` is used in the safety runs only.

| run | instance | what it shows |
|---|---|---|
| `policy` | 4 keys, costs 1 and 3, capacity 3 lowered to 2, sample of 5 | `UsedIsTotal`: `used` is the sum of the tracked costs at every step. `NoNeedlessEviction`: no victim is taken when there was room. `CapacityKept`: an admission ends within the capacity it checked; only an update or a lower capacity exceeds it. `AddReturns`: the eviction loop ends although a sample may hold a key several times |
| `cache_pipeline` | 2 clients, 2 keys, costs 1 and 2, capacity 2, buffer of 1, 4 calls | `ValuesFreedOnce` (`ExitIsFinal` and `NoValueLost`): each value is freed exactly once or given back, through replacement, deletion, eviction, rejection and refusal. `StoreWithinPolicy` and `NoGhostCost`: between two items the store holds only what the policy tracks, and the policy charges only for what is stored or about to be deleted |
| `cache_clear` | 2 clients, 1 key, buffer of 2, Set, Del, Wait, Clear, 4 calls, with fairness | the same across Clear, also with two Clears at once, the inductive invariant `CoverInv` of the proof, and `CallsReturn` |
| `cache_ttl` | 2 clients, 2 keys, TTL 0, 1, 2, clock up to 3, 3 calls | `ExpiryIndexed`: the expiration map indexes exactly the entries that expire, in the right bucket, whatever races with cleanup; `NoGhostCost`: no cost stays behind for what cleanup removes |
| `cache_close` | 1 client: Set, Get, Del, Wait, Clear, UpdateMaxCost, Close without a time to live; counters modulo 4, costs from `Config.Cost`, 4 calls | `MetricsBalance` through wrap-around and two's complement; `CloseFreesAll`, with the processor running beside |
| `cache_history` | 2 clients, 2 keys with one hash, buffer of 2, 4 calls | `ErasedStaysErased`: after Del and Wait, or after Clear, an older acknowledged value never comes back. `NoAliasing`: a Get never returns the other key's value |
| `tinylfu` | 3 keys colliding in slot, byte and Bloom bit; 11 counters rounded to 16; 512 Bloom bits; 16 choices of seeds | `RowsAgree`, `AgingBound`, `NeverUnderestimates`, with saturated counters and repeated aging |
| `get_path` | 2 clients, stripes of 2, `itemsCh` of 1, 5 Gets, one Close, with fairness | `BatchStable`: a batch is not written to while the policy has it. `NoGetCountedTwice`. `GetsAccounted`: GetsKept is what the sketch was or will be given. `KeptCounted` and `CloseReturns`: accepted batches are counted and Close returns, unless Close, or a Get's panic beside Close, comes first |
| `allocator_pool` | 2 goroutines, 2 allocators, first buffers of 2, at most 3, requests of 5 and of 2 aligned to 2 (`MaxRequest` is 5), a pool of 1, 5 calls, with fairness | `NoOverlap`: no byte is handed out twice. `HeldIntact`: a slice stays inside a buffer that is there until its allocator is given up. `NoCarry`: the position does not overflow into the index. `NoLeak`: each buffer is freed once, by TrimTo or by Release, and none that was freed is left in an allocator in use; a released pool has none left. `PoolCallsReturn`: every call ends, also Allocate, which starts over, and Release |
| `btree` | 5 keys and the key that is always there, values 1 and 2, pages of 2 pairs, at most 14 pages, files from 20 words that grow by at most 28 at a time | `TreeImplementsMap`: the tree implements `SortedMap` under `map[k] = get(k)`, with the greatest keys of the leaves as `fences`; so DeleteBelow removes every value under its limit but those of leaves' greatest keys. `SearchTreeOK`: all leaves at one depth, keys in order and bounded by the parents' keys, no page full between calls. `PagesAccounted`: every page is in the tree or in the free list, once, also after reopening. `StatsExact` |
| `buffer` | up to 5 slices of 0, 1 and 4 cells, capacity from 2, growth by at most 4, a file above 8, a limit of 10, chunks of 2 | `BufferImplementsList`: the buffer implements `SliceList`, through growth and in-place sorts of any range. `IterateMeetsAll`: SliceIterate and SliceOffsets meet every slice and nothing left from before a Reset. `RoomKept`: size, memory and kind of memory agree |

Bounds. Two clients suffice for every pairwise race and, with the processor, give three actors; three or four
calls allow the sequences the properties are about (set, set again, delete, wait; set, clear, set). A buffer of
one makes *full* common; with two, items can overtake nothing but can be taken together by Clear. Capacity is
below the total cost of the keys in `policy` and `cache_pipeline`, so that eviction and rejection both happen. In
`policy` the sample of 5 exceeds the number of keys, as happens in small caches; this is when duplicates arise.
In `allocator_pool` a first buffer of 2 and requests of 5 make every goroutine overshoot and grow, pass over a buffer that
is too small, and reach the limit of buffers; `PosWord` is four times `MaxAlloc`, as in the code, which leaves room for one request of each (`RequestsFit`). Five keys in pages of two
pairs make a tree of depth 3, with two free pages at once in an order that is not that of their numbers, and root splits
during which the file grows. A Set is made only while `2 * nextPage <= MaxPages` (`Room`), since it may take a page for each level and two for a
new root: 14 pages are enough for all of this. Five slices in chunks of two are three runs, the least for which the recursion of the
merge is not even.
In `tinylfu` a period of 11 lets counters reach 15 and stay there for several increments. Every action fires in
some passing run.

`NoNeedlessEviction` is checked with a capacity that is only lowered: if `UpdateMaxCost` raises it during an Add,
a victim may be evicted that need not have been. `ErasedStaysErased` leaves out states in which the processor is
stopped, since Clear drops buffered deletions before it empties the store, which the comment at cache.go:448
allows.

**Fairness** (`FairSpec`). A goroutine that can take a step does so eventually: weak fairness of each client's call
in progress and of the processor's steps. Go's select picks at random among ready cases, so a processor that is
again and again at its select with `setBuf` ready does not for ever prefer the ticker: strong fairness of
`ReceiveItem`, and likewise of `ClearStop`, the rendezvous on `stop`. Goroutines blocked in a channel send are
queued first-in first-out by the runtime, so a blocked Del or Wait gets its place: strong fairness of `DelSend` and
`WaitSend`. No fairness is assumed of invocations, of the clock or of the ticker. In `policy` only the steps of an
Add in progress are fair. `GetFairSpec` follows the same rules for the policy's goroutine and its select. `PoolFairSpec` too: weak fairness of
the steps of a call, strong fairness of `Lock`, as `sync.Mutex` hands the lock to a waiter that has been starved for a
millisecond, and of `HasBeenClosed`, which competes with the ticker in a select. The ticker itself is not fair.

### Where code and comments disagree

One run, `cache_panic`, ends with a violation; `findings` in `PROJECT.json` quotes the lines. Further configurations
show what else the code does differently from its comments, each in seconds:

| `tlc -config` | property | what TLC shows |
|---|---|---|
| `MCCachePanic.cfg MCCache` | `NoPanic` | Close closes `setBuf` before it sets `isClosed`; a Set beside it sends on a closed channel (cache.go:441). The same order in the policy's Close lets a Get panic on `itemsCh` |
| `MCPolicyVictims.cfg MCPolicy` | `DistinctVictims` | `fillSample` does not skip keys that the sample holds, so one Add can return the same victim twice, and `OnEvict` is called again for a key that is gone (policy.go:290; cache.go:140: "OnEvict is called for every eviction with the evicted item.") |
| `MCCacheStranded.cfg MCCache` | `NoStrandedItem` | an item that stays in `setBuf` until its bucket has been cleaned is put into a bucket that no cleanup visits again. It is not returned by Get, but keeps its cost until it is evicted, replaced or deleted (ttl.go:66; store.go:54: "Cleanup removes items that have an expired TTL.") |
| `MCHistoryReplace.cfg MCCacheHistory` | `ReplacedStaysReplaced` | two Sets of an absent key that are buffered together: the second is rejected as present already, and Get returns the first value after Wait (cache.go:551; cache.go:278: "This ensures a call to Set() will be visible to future calls to Get().") |
| `MCPoolHang.cfg MCAllocatorPool` | `PoolCallsReturn` | Return trims an allocator whose first buffer has 400 MB or more to nothing; after the next Get, Allocate doubles a page size of 0 for ever, with the lock held (allocator.go:265; allocator.go:69: "We should not allow a zero sized page because addBufferWithMinSize will run into an infinite loop trying to double the pagesize.") |
| `MCTreeCrash.cfg MCTree` | `NoCrash` | two causes. Opening a file panics when its first unused page is cut by the end of the data, which lies 8 bytes before a page boundary: for a new file of 1 MB with 254 pages in use (btree.go:103). And Set reads `root` after `split(1)`, and `right` after `newNode`, from a mapping that growth may have moved (btree.go:265; btree.go:266 re-reads only the root, and only then) |
| `MCTreeStale.cfg MCTree` | `DeleteBelowDeletesAll` | node.compact keeps the last key of a page whatever its value, so the greatest key of a leaf that is not dropped stays, and Get still returns its value under `ts` (btree.go:629; btree.go:352: "DeleteBelow deletes all keys with value under ts."). What the code does instead is what `SortedMap` says |
| `MCAllocatorCarry.cfg MCAllocatorPool` | `HeldIntact` | three goroutines that each ask for `maxAlloc`, as the code allows, carry the position into the index of the buffer, and one of them slices a buffer that is not there (allocator.go:289) |
| `MCHistoryCollide.cfg MCCacheHistory` | `ValuesFreedOnce` | with two keys of one hash, Del of one takes their common hash out of the policy while the store keeps the entry of the other; the next new item is then admitted, and store.Set overwrites the value without `onExit` (store.go:184; cache.go:146: "OnExit is called whenever a value is removed from cache.") |
| `MCBufferLeak.cfg MCBuffer` | `NothingHeld` | Grow sets the type to `UseMmap` before it has a file; if that fails and the panic is recovered, Release finds no file and does not free the memory (buffer.go:200; buffer.go:522: "it is important to call Release, otherwise a memory leak can happen.") |

After Release of a pool, Get receives nil from the closed channel and Return sends on it:
both panic, which is modelled, and users must not do it.

## Proofs

All theorems hold for any constants that satisfy the named assumptions `PolicyConstants`, `StoreConstants`,
`CacheConstants`, `TinyLFUConstants`, `GetPathConstants`, for the allocator `AllocatorConstants` and `PowerOfTwo`, for the buffer `BufferConstants` and `LessOrders` (the order is a strict weak one, as sort.Slice asks), and for the tree `TreeConstants`
(a page has room for three pairs, and a new file for more than three pages, as 256 pages of 4096 bytes have). TLC evaluates them in the runs of their modules. Further hypotheses stand in the theorems themselves: `RequestsFit` in those of the allocator, `NoCollision`, `ConflictsUnmixed` and who calls Close in some of the cache. Sets of goroutines are finite where they are counted;
the bounds on calls and time are arbitrary. Every invariant, action property and refinement of a passing run is proved. Below is why each needs more than itself. The strengthenings were checked by TLC as invariants before they
were proved, those of `Buffer` and `Tree`, which quantify over all lists and tables, in the form of the run's properties.

**Policy** (`PolicyProofs`).

- `PolicyTyped`, `PolicyCapacity`. The type invariant is inductive. `CapacityKept` is an action
  property that follows from it: `Add` can only end as added in the step that found room, and every other step
  leaves `used` or lowers it, updates excepted.
- `PolicyUsedIsTotal`. `TotalInv` adds that `keyCosts` has a finite domain and that the key of an Add is not tracked
  until it is added; the rest is how a sum changes when a map gains, loses or changes one entry.
- `PolicyEvictsNeeded`. `EvictInv` says that in the loop of an Add the item does not fit, and would not fit if the last
  victim were given back; and that the sample shows the present cost of every key in it that is still tracked, so that
  a victim taken twice frees nothing twice. The theorem assumes that `UpdateMaxCost`
  only lowers the capacity, since raising it in the middle of an Add makes the last eviction unneeded.

**Sketch** (`TinyLFUProofs`).

- `SketchRowsAgree`, `SketchNeverUnderestimates`. Lemmas on a byte show that increment and the masked
  shift act on the two halves separately; they lift to rows. The rows agree since XOR with a seed permutes slots:
  two keys collide in all rows or in none (an assumption on `Slot`, evaluated by TLC for the real XOR). The
  minimum over the rows is then any row's counter. `ExactInv` is the strengthening for the second: the doorkeeper
  has every key it was shown, and no counter is below the key's own exact count; both survive
  saturation and halving because these are monotone.
- `SketchForgets`. Halving every counter at least halves their sum, and an increment adds at most one to it.

**Get path** (`GetPathProofs`).

- `GetPathTyped`, `BatchesStable`. `BatchStable` follows from `ArraysOwned`: no two stripes share an array, and
  a stripe shares one with a batch only from the send until the sender replaces it. This is inductive together with
  `SlicesOK` (slices lie in the heap, pooled stripes are not full, batches are) and the types.
- `GetsCountedOnce`, `GetsAreAccounted`. `CountInv` says that the Gets in stripes, in batches on their way and in `counted`
  are all different; that batches have arrays of their own; and that GetsKept and GetsDropped leave out the Gets that are still in a
  stripe or whose client has yet to count them. The counters then follow from the sizes of these sets, batch by batch.

**Allocator** (`AllocatorProofs`). `PoolInv` has all four properties and: every slice, and every claim that a call has
added, lies below `compIdx`, and the claims that may still become slices are disjoint from each other and from the slices; a call
that adds a buffer holds the lock, and the index is still the one it found full; no buffer follows a nil one; an
allocator is with its users or in the channel, once; every buffer that a registered allocator has was made once more often than freed, and all others as often (`Balanced`).
`AllocatorNoOverlap`, `AllocatorHeldIntact` and `PoolNoLeak` follow; in Return, what TrimTo freed is what it set to nil (`FreeTrimmed`), so that Release does not free it again; `PowerOfTwo` is needed since doubling must end at
`maxAlloc`. For `AllocatorNoCarry`, `PosBound` counts: the position exceeds the buffer's length by at most one
request for each goroutine that has claimed and found no room. Whether that fits into 32 bits is up to the callers: the code
checks a single request and never the sum, so `RequestsFit` is a hypothesis of all four theorems: it is what the code relies on, and not something it ensures.
With 1 GB of 4 taken by the largest buffer, a thousand goroutines may ask for 3 MB each; three that ask for 1 GB at once may not, and then `MCAllocatorCarry.cfg` shows what happens.

**Cache, store and policy** (`CacheProofs`).

- `CacheTyped`. Apart from types, it says that a key hash and a conflict hash found together anywhere
  come from one user key. This part is what lets the next proofs speak of entries by their hash alone.
- `ClearsExclude`: at most one client is between stopping and restarting the processor, which is gone meanwhile.
- `StoreCovered`, `ClearCovers`: if no two keys collide (`NoCollision`), every stored entry is tracked by the policy whenever the
  processor is at its select. `StoreWithinPolicy` is not inductive, as it is silent about the steps in between. The
  inductive invariant is `CacheTypeOK /\ AddInv /\ StopInv /\ CoverInv`: `CoverInv` names for each position of
  the processor the keys it has taken from the policy and has yet to delete from the store (the item in hand, the
  victims), and for each position of Clear the shards that may still hold entries; `AddInv` ties the processor's
  position to the policy's Add; `StopInv` says that Clear has the policy for itself. Collisions are
  excluded because a deletion that finds the other key's entry leaves it in the store while the policy has
  forgotten their common hash.
- `GhostCostsGoAway`. `GhostInv` is the converse of `CoverInv`: while there is a processor, a tracked hash is stored, or has a
  deletion in the buffer or in a client's hand, or has just been admitted; and what the processor is about to delete from
  the store, victims included, it has taken out of the policy. It needs no hypothesis on collisions.
- `ExpiryIndexExact`. `IndexInv` says that, while there is a processor, every entry that expires is in the bucket of its
  time or, that bucket being taken out by cleanup, still in cleanup's hands; and that the map holds nothing else. It assumes `NoCollision`, since the map
  has one entry per hash.
- `CountersBalance`. `BalanceInv` keeps the two differences multiples of `MetricsWord` through all steps of an Add, between
  the victims too, and says that the policy is empty from Clear's reset of it until the counters are reset. The proof reasons about multiples instead of remainders; a cost decrease
  is an addition modulo the word, as in the code.

**Values and Close** (also in `CacheProofs`).

- `EveryValueFreedOnce`. `ValueInv` says that a value is in exactly one place and there once: in a client's hand before it
  is sent, in the buffer as a new item, with the processor, in the store, refused, or freed; and that its count in `exits` is 1
  in the last case and 0 in the others. It assumes `NoCollision` and rests on `CoverInv`: a new item is stored only under a hash
  that the store does not hold, or its value would be overwritten without being freed.
- `NeverPanics`. `OpenInv`: without Close the channels stay open. `CloseInv`: with one client, nobody is about to send
  once they are closed. The hypothesis (nobody calls Close, or one goroutine makes all the calls) is needed: with two
  clients and Close, `MCCachePanic.cfg` refutes `NoPanic`.
- `CloseGivesBack`. `EmptyInv`: from the end of Close's Clear on, buffer and store stay empty, because the only
  client is the one in Close. With `ValueInv` every value has then been freed or handed back.

**Histories** (the last part of `CacheProofs`), with collisions allowed.

- `GetsOwnValue`. `TagInv`: a value carries the same pair of hashes wherever it is, in hands, buffer, processor, store and record.
  The hypothesis `ConflictsUnmixed` says that a zero conflict hash, with which the store does not check, is not
  shared by a hash with a key of another conflict hash. `KeyToHash` gives zero to integer keys, whose hash is the key itself, and
  a cache has keys of one type.
- `DeletedForGood`. `DoomInv`: a value that a Del has doomed has the deletion behind it, in the client's hand or in the buffer,
  after the value and before the client's Wait, or in the processor's hand; or the client is about to stop the processor for a Clear. Once it is
  gone, or Wait is answered, it is *safe*: not in the buffer, nor with the processor, nor in the store, unless a Clear is about to take it from there. `WaitInv` (the item of a Wait is in the buffer once) and
  `HandInv` (what a client is about to send) make the order of the buffer count. The theorem is about the erasers Del and Clear:
  for Set the property is false, as `MCHistoryReplace.cfg` shows.

**Buffer** (`BufferProofs`). Everything goes through one relation, `Holds(m, lo, hi, L)`: the cells of `m` from `lo` to `hi` are
the slices of the list `L`, each behind its length. It moves with the cells, survives what is written beside it, splits and
joins with the list, and determines what is read: `Contents`, `SliceIterate` and `SliceOffsets` follow from `L`
(`ReaderIs`, `IterateIs`, `SliceOffsetsAre`). The invariant `BufferInv` says that the used part of the memory lies within
it and holds some list, after a panic too, and has `RoomKept`.

- `BufferRoom`, `BufferIterates` follow from `BufferInv`.
- `BufferIsList`: every step is a step of `SliceList`. Writing appends to the list (`WrittenHolds`), through `Grow` in all its
  branches. For sorting there are three arguments. The offsets that `sort.Slice` permutes are a bijection of the chunk's places,
  so that the chunk is rewritten in exactly the space it had (`RewrittenIs`; the sum of the lengths does not depend on their order).
  `merge` keeps an invariant over its rounds (`MergeOf`): what is done, what is left in `tmp` and what is left on the right
  are sorted and share out the slices, nothing done is to come after what is left, and the gap between the part that is done and the rest on the right is
  just as long as the rest of `tmp`, so no slice is overwritten before it is taken; each round but the last takes one. And `sort`, by induction on the length of the range, makes one
  run of the chunks (`SortRuns`), which holds the same slices as many times.

**B+ tree** (`TreeProofs`). Everything is said of a table `M`, which gives each key up to `absoluteMax` its value or says that it is not there.
`Shape(page, T, lv, lo, M, z, full)` says that the pages `T`, with their levels `lv` and the keys `lo` above which they lie, are a search
tree whose leaves hold `M`: a page at level 0 is a leaf, its pairs are those of `M` between its lower bound and its last key; the pairs of
another page lead to pages one level down that share out its range, each ending with the key of its pair; every page but the root
has such a place, and only one since the ranges of a level are apart (`Apart`). Two exceptions are for the middle of an operation: page `z` may have pairs without a child, and page `full` may be full.
`Store(t, T, F)` says that `T` and the free list `F` share out the pages below `nextPage`, that these and no others have ids, and that the file has
room for them. The invariant `TreeInv`: for some `M` the tree has this shape and store, and `leafKeys` is the number of keys in `M`.

The properties alone are not inductive: `SearchTreeOK` does not say that a page has one place, so that a Set below one page might
change another, and `PagesAccounted` does not say that children cover their parent's range. Each operation has one lemma
that says what it does to the table:

- `GetIs`: get returns what `M` has for the key. The child that `search` finds covers the key (`ChildIs`), level by level.
- `TreeSetIs`: Set gives a tree for `M` with the new pair. `newNode` takes a page that is nowhere in the tree, off the free list or from the end of
  the file (`NewNode`). A full child is split, and the two calls of node.set put the left half before the right one, which keeps the old
  key (`SplitShape`, `LinkIs`); so at most the page that set returns to its parent is full, in the end the root, whose pages all move down a level
  (`PushShape`, `SplitRootIs`). There is room since a tree has fewer levels than pages.
- `DeleteBelowIs`: DeleteBelow lowers `M`: keys with a value of at least `ts` stay, no value changes, and a key with a value below `ts` stays only if it is the greatest key
  of a leaf, before and after. The greatest keys of the leaves (`Fen`) are followed through all operations: a Set adds at most one, when a leaf is split (`Fenced`), and DeleteBelow adds none. `LoopStep` is the heart:
  after child `i`, the keys up to that child's are lowered and counted, and the dropped leaves are in the free list; a leaf is dropped when its only key is
  the one in its parent. The child behind dropped ones takes over their range, in which no key is left (`ChildGains`), so that compacting the parent restores the
  shape (`PageCompacts`). An internal page is never dropped, as it keeps its last child.
- `IterateKVIs`, `NewTreeIs`, `ResetIs`. `iterate` meets the pages `T` exactly.
- `ReinitIs`: the ids give `nextPage` back, the pages that iterate does not meet are `F`, its head is the page that no other
  free page names, and the counts are right; the table stays as it is.

`TreeIsSearchTree`, `TreePagesAccounted` and `TreeStatsExact` follow from `TreeInv`. For `TreeIsMap`, the refinement mapping shows `M`, with 0 for keys that are
not there, and the fences, which are those that the module defines by `iterate` (`FencesAre`); what each operation does to both is a step of `SortedMap`.

**Induction, recursion and sums** (`SumTheorems`). The library's induction theorems cannot be used here. Instead a set of numbers has a least
member (`LeastNat`), and a collection of subsets of a finite set a minimal one (`MinimalSubset`); taken of the set where
a statement fails, that is induction. By the same argument there is a function for every recursive definition whose
arguments decrease in a bounded measure (`RecursionExists`), which is what the recursive functions of `Buffer` and `Tree` need before anything
can be said of their values. For sums there are the equations of `SumFunctionOnSet` for adding and removing an element,
changing one value, comparing two functions, halving, and permuting.

**Only model-checked.** The liveness properties `CallsReturn`, `AddReturns`, `KeptCounted`, `CloseReturns` and `PoolCallsReturn`:
fairness and ENABLED are outside the prover's reach. And `next2Power` of `MCTinyLFU`, which is
written with bitwise operators, about which the prover knows nothing: TLC evaluates it for arguments up to 70.

## Not modelled

Histogram: sequential statistics over floating-point bounds that only reports read. Of z/file.go the mapping is modelled as
Buffer and Tree use it; its own slices serve other programs. The bindings of jemalloc (`Calloc` gives zeroed memory, and `Free` takes it back), `SuperFlag` (parsing of
flags), runtime bindings, the assembly of z/simd, the simulator, the contrib programs, the sizing of the Bloom filter (floating
point) and its JSON form, and everything that only formats are left out for good. So is a process that dies in the
middle of a Tree's Set: the code has no recovery for it. Overflow of int64 costs and `NumCounters = 1`, which leaves a
sketch without a byte, are listed as hazards.

## Plan

What is left: an abstract specification of a lossy cache that `Cache` implements, and the proof of it.
