------------------------------- MODULE Policy -------------------------------
(***************************************************************************)
(* defaultPolicy (policy.go): the sampledLFU that holds the cost of every  *)
(* key of the cache, and Add, the admission and eviction loop.             *)
(*                                                                         *)
(* Every method of the policy runs under p.Mutex except UpdateMaxCost and  *)
(* MaxCost, which are atomic accesses to maxCost.  Add reads maxCost once  *)
(* to bound the item's cost and once more for each evaluation of roomLeft, *)
(* so Add is split at those reads: UpdateMaxCost may run between any two.  *)
(*                                                                         *)
(* The TinyLFU estimates Add compares are some function of the access      *)
(* history.  Here they are any function into 0..MaxHits, chosen when Add   *)
(* first needs them and fixed until it returns, as the mutex keeps         *)
(* admit.Push out meanwhile.                                               *)
(***************************************************************************)
EXTENDS Integers, Sequences, Functions, GoMap

CONSTANTS
    Hashes,         \* the key hashes the policy is called with
    Costs,          \* the costs it is called with
    MaxCosts,       \* the capacities UpdateMaxCost may install
    InitMaxCost,    \* Config.MaxCost
    LfuSample,      \* lfuSample
    MaxHits,        \* bound on a TinyLFU estimate
    WithMetrics,    \* Config.Metrics
    MetricsWord     \* 2^64, the modulus of a metrics counter

ASSUME PolicyConstants ==
    /\ Costs \subseteq Nat
    /\ MaxCosts \subseteq Nat
    /\ InitMaxCost \in Nat \ {0}
    /\ LfuSample \in Nat \ {0}
    /\ MaxHits \in Nat
    /\ WithMetrics \in BOOLEAN
    /\ MetricsWord \in Nat \ {0}

VARIABLES
    keyCosts,   \* sampledLFU.keyCosts
    used,       \* sampledLFU.used
    maxCost,    \* sampledLFU.maxCost
    metrics,    \* the counters of Metrics.all, each summed over its stripes
    addPc,      \* where Add is: "none" when no call is in progress
    addArg,     \* [key, cost]: Add's parameters
    est,        \* admit.Estimate, during the eviction loop of Add
    sample,     \* Add's sample: a sequence of [key, cost]
    victims     \* Add's victims: a sequence of [key, cost]

policyVars == <<keyCosts, used, maxCost, metrics, addPc, addArg, est, sample,
                victims>>
addVars == <<addPc, addArg, est, sample, victims>>

AddPcs == {"none", "room", "evict", "added", "rejected"}
MetricTypes == {"keyAdd", "keyUpdate", "keyEvict", "costAdd", "costEvict",
                "dropSets", "rejectSets", "hit", "miss"}
Pairs(C) == [key : Hashes, cost : C]

-----------------------------------------------------------------------------
(* Metrics.  Adding the two's complement of a difference subtracts it, so a *)
(* negative delta stands for ^(uint64(diff) - 1).                           *)

\* Metrics.add, a no-op when metrics are off (p == nil)
Bump(m, t, delta) ==
    IF WithMetrics THEN [m EXCEPT ![t] = (@ + delta) % MetricsWord] ELSE m

NoMetrics == [t \in MetricTypes |-> 0]

-----------------------------------------------------------------------------
(* sampledLFU *)

\* Mutants: the incoming cost is forgotten; the last unit is not used.
roomLeftNow(cost) == maxCost - used
roomLeftOffByOne(cost) == maxCost - (used + cost) - 1

roomLeft(cost) == maxCost - (used + cost)

\* sampledLFU.add followed by the costAdd metric, as Add does it twice
evictAdd(key, cost) ==
    /\ keyCosts' = Put(keyCosts, key, cost)
    /\ used' = used + cost
    /\ metrics' = Bump(metrics, "costAdd", cost)

\* Mutant: the cost of the evicted key is not counted.
evictDelUncounted(key) ==
    IF key \in DOMAIN keyCosts
    THEN /\ used' = used - keyCosts[key]
         /\ keyCosts' = Remove(keyCosts, key)
         /\ metrics' = Bump(metrics, "keyEvict", 1)
    ELSE UNCHANGED <<used, keyCosts, metrics>>

\* sampledLFU.del
evictDel(key) ==
    IF key \in DOMAIN keyCosts
    THEN /\ used' = used - keyCosts[key]
         /\ keyCosts' = Remove(keyCosts, key)
         /\ metrics' = Bump(Bump(metrics, "costEvict", keyCosts[key]),
                            "keyEvict", 1)
    ELSE UNCHANGED <<used, keyCosts, metrics>>

\* Mutant: the previous cost stays charged.
updateForgetsPrev(key, cost) ==
    IF key \in DOMAIN keyCosts
    THEN /\ used' = used + cost
         /\ keyCosts' = [keyCosts EXCEPT ![key] = cost]
         /\ UNCHANGED metrics
    ELSE UNCHANGED <<used, keyCosts, metrics>>

\* Mutant: the difference is stored in place of the cost.
updateStoresDiff(key, cost) ==
    IF key \in DOMAIN keyCosts
    THEN /\ used' = used + (cost - keyCosts[key])
         /\ keyCosts' = [keyCosts EXCEPT ![key] = cost - @]
         /\ UNCHANGED metrics
    ELSE UNCHANGED <<used, keyCosts, metrics>>

\* sampledLFU.updateIfHas; it returns key \in DOMAIN keyCosts.  It never
\* evicts, so an update may take used above maxCost.
updateIfHas(key, cost) ==
    IF key \in DOMAIN keyCosts
    THEN /\ used' = used + (cost - keyCosts[key])
         /\ keyCosts' = [keyCosts EXCEPT ![key] = cost]
         /\ metrics' = Bump(Bump(metrics, "keyUpdate", 1),
                            "costAdd", cost - keyCosts[key])
    ELSE UNCHANGED <<used, keyCosts, metrics>>

KeyOrders(n) == {s \in [1..n -> DOMAIN keyCosts] : IsInjective(s)}

\* The samples fillSample may return: pairs of keyCosts, each at most once and
\* in any order (map iteration), appended until the sample is full or the map
\* is exhausted.  Keys already in the sample are not skipped.
fillSample ==
    LET free == LfuSample - Len(sample)
        seen == {s \in UNION {KeyOrders(n) : n \in 0..free} :
                    Len(s) = free \/ Range(s) = DOMAIN keyCosts}
    IN  {sample \o [j \in DOMAIN s |-> [key |-> s[j], cost |-> keyCosts[s[j]]]] :
            s \in seen}

\* The first entry of s with the fewest hits.
IsMin(s, i) == \A j \in DOMAIN s : /\ est[s[i].key] <= est[s[j].key]
                                   /\ j < i => est[s[i].key] < est[s[j].key]

\* sample[minId] = sample[len(sample)-1]; sample = sample[:len(sample)-1]
DropFromSample(s, i) ==
    [j \in 1..(Len(s) - 1) |-> IF j = i THEN s[Len(s)] ELSE s[j]]

-----------------------------------------------------------------------------
(* defaultPolicy.Add *)

AddIdle == addPc = "none"

\* One of the returns of Add behind its first look for room: the sample and the
\* estimates were local.
AddDone(result) ==
    /\ addPc' = result
    /\ est' = EmptyMap
    /\ sample' = <<>>

\* Add up to its first evaluation of roomLeft
AddCall(key, cost) ==
    /\ AddIdle
    /\ addArg' = [key |-> key, cost |-> cost]
    /\ victims' = <<>>
    /\ UNCHANGED <<maxCost, est, sample>>
    /\ \/ /\ cost > maxCost
          /\ addPc' = "rejected"
          /\ UNCHANGED <<keyCosts, used, metrics>>
       \/ /\ cost <= maxCost
          /\ addPc' = IF key \in DOMAIN keyCosts THEN "rejected" ELSE "room"
          /\ updateIfHas(key, cost)

\* roomLeft(cost) >= 0: before the loop, or after an iteration of it
AddFits ==
    /\ addPc = "room"
    /\ roomLeft(addArg.cost) >= 0
    /\ evictAdd(addArg.key, addArg.cost)
    /\ AddDone("added")
    /\ UNCHANGED <<maxCost, addArg, victims>>

\* roomLeft(cost) < 0: enter the loop body; the first time also Estimate(key)
AddNoRoom ==
    /\ addPc = "room"
    /\ roomLeft(addArg.cost) < 0
    /\ addPc' = "evict"
    /\ est' \in IF victims = <<>> THEN [Hashes -> 0..MaxHits] ELSE {est}
    /\ UNCHANGED <<keyCosts, used, maxCost, metrics, addArg, sample, victims>>

\* incHits < minHits, where minHits is MaxInt64 when the sample is empty
AddReject ==
    /\ addPc = "evict"
    /\ \E s \in fillSample :
          \A i \in DOMAIN s : est[addArg.key] < est[s[i].key]
    /\ metrics' = Bump(metrics, "rejectSets", 1)
    /\ AddDone("rejected")
    /\ UNCHANGED <<keyCosts, used, maxCost, addArg, victims>>

\* Mutants: the victim is only taken out of the sample; it is not recorded.
EvictFromSample(s, i) ==
    /\ sample' = DropFromSample(s, i)
    /\ addPc' = "room"
    /\ UNCHANGED <<keyCosts, used, metrics, victims>>

EvictUnrecorded(s, i) ==
    /\ evictDel(s[i].key)
    /\ sample' = DropFromSample(s, i)
    /\ addPc' = "room"
    /\ UNCHANGED victims

\* The rest of the loop body, with sample s and minId i
EvictMin(s, i) ==
    /\ evictDel(s[i].key)
    /\ sample' = DropFromSample(s, i)
    /\ victims' = Append(victims, s[i])
    /\ addPc' = "room"

AddEvict ==
    /\ addPc = "evict"
    /\ \E s \in fillSample : \E i \in DOMAIN s :
          /\ IsMin(s, i)
          /\ est[addArg.key] >= est[s[i].key]
          /\ EvictMin(s, i)
    /\ UNCHANGED <<maxCost, addArg, est>>

AddStep == AddFits \/ AddNoRoom \/ AddReject \/ AddEvict

-----------------------------------------------------------------------------
(* The other methods of defaultPolicy, each one critical section *)

\* Update
PolicyUpdate(key, cost) ==
    /\ AddIdle
    /\ updateIfHas(key, cost)
    /\ UNCHANGED <<maxCost, addVars>>

\* Mutant: the policy keeps the key.
PolicyDelNothing(key) == AddIdle /\ UNCHANGED policyVars

\* Del
PolicyDel(key) ==
    /\ AddIdle
    /\ evictDel(key)
    /\ UNCHANGED <<maxCost, addVars>>

\* Clear; clearing the admission counters is not visible here
PolicyClear ==
    /\ AddIdle
    /\ keyCosts' = EmptyMap
    /\ used' = 0
    /\ UNCHANGED <<maxCost, metrics, addVars>>

\* updateMaxCost, outside the mutex
UpdateMaxCost(cost) ==
    /\ maxCost' = cost
    /\ UNCHANGED <<keyCosts, used, metrics, addVars>>

\* Add returns to its caller, which takes the victims
AddReturn ==
    /\ addPc \in {"added", "rejected"}
    /\ addPc' = "none"
    /\ victims' = <<>>
    /\ UNCHANGED <<keyCosts, used, maxCost, metrics, addArg, est, sample>>

-----------------------------------------------------------------------------
(* The policy by itself, called in any way its interface allows *)

PolicyInit ==
    /\ keyCosts = EmptyMap
    /\ used = 0
    /\ maxCost = InitMaxCost
    /\ metrics = NoMetrics
    /\ addPc = "none"
    /\ addArg \in Pairs({0})
    /\ est = EmptyMap
    /\ sample = <<>>
    /\ victims = <<>>

PolicyCall ==
    \/ \E key \in Hashes, cost \in Costs :
          AddCall(key, cost) \/ PolicyUpdate(key, cost)
    \/ \E key \in Hashes : PolicyDel(key)
    \/ PolicyClear
    \/ \E cost \in MaxCosts : UpdateMaxCost(cost)

PolicyNext == PolicyCall \/ AddStep \/ AddReturn

PolicySpec == PolicyInit /\ [][PolicyNext]_policyVars

\* A goroutine inside Add is scheduled until Add returns.
FairPolicySpec == PolicySpec /\ WF_policyVars(AddStep \/ AddReturn)

-----------------------------------------------------------------------------
(* Properties *)

PolicyTypeOK ==
    /\ IsMap(keyCosts, Hashes, Nat)
    /\ used \in Int
    /\ maxCost \in Nat
    /\ metrics \in [MetricTypes -> Nat]
    /\ addPc \in AddPcs
    /\ addArg \in Pairs(Nat)
    /\ est = EmptyMap \/ est \in [Hashes -> 0..MaxHits]
    /\ sample \in Seq(Pairs(Nat)) /\ Len(sample) <= LfuSample
    /\ victims \in Seq(Pairs(Nat))

\* used is the total cost of the tracked keys, whatever sequence of additions,
\* updates, deletions and (possibly duplicate) evictions led here.
UsedIsTotal == used = SumFunctionOnSet(keyCosts, DOMAIN keyCosts)

\* Add does not evict more than it must: giving the last victim back would
\* overflow the cache again.  Holds while UpdateMaxCost only lowers the capacity,
\* even though fillSample may put the same key in the sample twice.
NoNeedlessEviction ==
    addPc = "added" /\ victims # <<>> =>
        used + victims[Len(victims)].cost > maxCost

\* The total cost exceeds the capacity only by the update of a tracked key or
\* by lowering the capacity; every admission, on the contrary, leaves the cache
\* within the capacity it was checked against, whatever overshoot it met.
CapacityStep ==
    /\ used <= maxCost /\ used' > maxCost' =>
          maxCost' < maxCost \/ DOMAIN keyCosts' = DOMAIN keyCosts
    /\ DOMAIN keyCosts' \ DOMAIN keyCosts # {} => used' <= maxCost'

CapacityKept == [][CapacityStep]_policyVars

\* The eviction loop terminates: a call of Add returns, even though each
\* iteration may evict a key that is no longer tracked and free nothing.
AddReturns == ~AddIdle ~> AddIdle

\* OnEvict "is called for every eviction" (cache.go:140): the victims of one
\* Add are distinct keys.
DistinctVictims == IsInjective([i \in DOMAIN victims |-> victims[i].key])
=============================================================================
