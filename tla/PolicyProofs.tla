---------------------------- MODULE PolicyProofs ----------------------------
(* Theorems about the policy, for any set of keys, costs and capacities.   *)
EXTENDS Policy, SequenceTheorems, SumTheorems, TLAPS

-----------------------------------------------------------------------------
(* Types *)

\* Metrics.add leaves counters of the right type, whatever the sign of delta.
LEMMA BumpType ==
    ASSUME NEW m \in [MetricTypes -> Nat], NEW t \in MetricTypes, NEW d \in Int
    PROVE  Bump(m, t, d) \in [MetricTypes -> Nat]
<1>1. (m[t] + d) % MetricsWord \in Nat
  BY PolicyConstants
<1>. QED  BY <1>1 DEF Bump

\* The helpers of sampledLFU keep its state well typed, and change the tracked
\* keys and their total cost in the way their names say.
LEMMA EvictAddType ==
    ASSUME PolicyTypeOK, NEW k \in Hashes, NEW cost \in Nat, evictAdd(k, cost)
    PROVE  /\ IsMap(keyCosts', Hashes, Nat)
           /\ DOMAIN keyCosts' = DOMAIN keyCosts \cup {k}
           /\ used' = used + cost /\ used' \in Int
           /\ metrics' \in [MetricTypes -> Nat]
<1>1. "costAdd" \in MetricTypes
  BY DEF MetricTypes
<1>2. metrics' \in [MetricTypes -> Nat]
  BY <1>1, BumpType DEF evictAdd, PolicyTypeOK
<1>3. keyCosts' = Put(keyCosts, k, cost) /\ IsMap(keyCosts, Hashes, Nat)
  BY DEF evictAdd, PolicyTypeOK
<1>4. IsMap(keyCosts', Hashes, Nat) /\ DOMAIN keyCosts' = DOMAIN keyCosts \cup {k}
  BY <1>3 DEF IsMap, Put
<1>5. used' = used + cost /\ used' \in Int
  BY DEF evictAdd, PolicyTypeOK
<1>. QED  BY <1>2, <1>4, <1>5

\* Forgetting a key (sampledLFU.del) never raises the total.
LEMMA EvictDelType ==
    ASSUME PolicyTypeOK, NEW k, evictDel(k)
    PROVE  /\ IsMap(keyCosts', Hashes, Nat)
           /\ DOMAIN keyCosts' = DOMAIN keyCosts \ {k}
           /\ used' \in Int /\ used' <= used
           /\ metrics' \in [MetricTypes -> Nat]
<1>1. CASE k \notin DOMAIN keyCosts
  <2>1. DOMAIN keyCosts \ {k} = DOMAIN keyCosts
    BY <1>1
  <2>2. used' = used /\ keyCosts' = keyCosts /\ metrics' = metrics
    BY <1>1 DEF evictDel
  <2>. QED  BY <2>1, <2>2 DEF PolicyTypeOK
<1>2. CASE k \in DOMAIN keyCosts
  <2>1. keyCosts[k] \in Nat /\ keyCosts[k] \in Int
    BY <1>2 DEF PolicyTypeOK, IsMap
  <2>2. "costEvict" \in MetricTypes /\ "keyEvict" \in MetricTypes
    BY DEF MetricTypes
  <2>3. Bump(metrics, "costEvict", keyCosts[k]) \in [MetricTypes -> Nat]
    BY <2>1, <2>2, BumpType DEF PolicyTypeOK
  <2>4. metrics' \in [MetricTypes -> Nat]
    BY <1>2, <2>2, <2>3, BumpType DEF evictDel
  <2>5. used' \in Int /\ used' <= used
    BY <1>2, <2>1 DEF evictDel, PolicyTypeOK
  <2>6. keyCosts' = Remove(keyCosts, k) /\ IsMap(keyCosts, Hashes, Nat)
    BY <1>2 DEF evictDel, PolicyTypeOK
  <2>7. IsMap(keyCosts', Hashes, Nat) /\ DOMAIN keyCosts' = DOMAIN keyCosts \ {k}
    BY <2>6 DEF IsMap, Remove
  <2>. QED  BY <2>4, <2>5, <2>7
<1>. QED  BY <1>1, <1>2

\* A cost update (sampledLFU.updateIfHas) tracks no new key.
LEMMA UpdateType ==
    ASSUME PolicyTypeOK, NEW k, NEW cost \in Nat, updateIfHas(k, cost)
    PROVE  /\ IsMap(keyCosts', Hashes, Nat)
           /\ DOMAIN keyCosts' = DOMAIN keyCosts
           /\ used' \in Int
           /\ metrics' \in [MetricTypes -> Nat]
<1>1. CASE k \notin DOMAIN keyCosts
  BY <1>1 DEF updateIfHas, PolicyTypeOK
<1>2. CASE k \in DOMAIN keyCosts
  <2>1. keyCosts[k] \in Nat /\ cost - keyCosts[k] \in Int
    BY <1>2 DEF PolicyTypeOK, IsMap
  <2>2. "costAdd" \in MetricTypes /\ "keyUpdate" \in MetricTypes
    BY DEF MetricTypes
  <2>3. Bump(metrics, "keyUpdate", 1) \in [MetricTypes -> Nat]
    BY <2>2, BumpType DEF PolicyTypeOK
  <2>4. metrics' \in [MetricTypes -> Nat]
    BY <1>2, <2>1, <2>2, <2>3, BumpType DEF updateIfHas
  <2>5. used' \in Int
    BY <1>2, <2>1 DEF updateIfHas, PolicyTypeOK
  <2>. QED  BY <1>2, <2>4, <2>5 DEF updateIfHas, PolicyTypeOK, IsMap
<1>. QED  BY <1>1, <1>2

\* What fillSample returns is a sample no longer than lfuSample.
LEMMA FillSampleType ==
    ASSUME PolicyTypeOK, NEW s \in fillSample
    PROVE  s \in Seq(Pairs(Nat)) /\ Len(s) <= LfuSample
<1>. DEFINE free == LfuSample - Len(sample)
<1>1. /\ sample \in Seq(Pairs(Nat)) /\ Len(sample) \in Nat /\ Len(sample) <= LfuSample
      /\ free \in Nat
  BY PolicyConstants DEF PolicyTypeOK
<1>2. PICK r \in UNION {KeyOrders(n) : n \in 0..free} :
         s = sample \o [j \in DOMAIN r |-> [key |-> r[j], cost |-> keyCosts[r[j]]]]
  BY DEF fillSample
<1>2a. PICK n \in 0..free : r \in KeyOrders(n)
  BY <1>2
<1>. DEFINE new == [j \in DOMAIN r |-> [key |-> r[j], cost |-> keyCosts[r[j]]]]
<1>3. r \in [1..n -> DOMAIN keyCosts] /\ n \in Nat /\ n <= free
  BY <1>1, <1>2a DEF KeyOrders
<1>4. \A j \in 1..n : [key |-> r[j], cost |-> keyCosts[r[j]]] \in Pairs(Nat)
  BY <1>3 DEF PolicyTypeOK, IsMap, Pairs
<1>5. new \in [1..n -> Pairs(Nat)]
  BY <1>3, <1>4
<1>6. new \in Seq(Pairs(Nat)) /\ Len(new) = n
  BY <1>3, <1>5
<1>7. s \in Seq(Pairs(Nat)) /\ Len(s) = Len(sample) + n
  BY <1>1, <1>2, <1>6, ConcatProperties
<1>. QED  BY <1>1, <1>3, <1>7, PolicyConstants

\* Taking one entry out of a sample leaves a shorter sample.
LEMMA DropFromSampleType ==
    ASSUME NEW s \in Seq(Pairs(Nat)), NEW i \in DOMAIN s
    PROVE  /\ DropFromSample(s, i) \in Seq(Pairs(Nat))
           /\ Len(DropFromSample(s, i)) = Len(s) - 1
<1>1. Len(s) \in Nat \ {0} /\ DOMAIN s = 1..Len(s)
  OBVIOUS
<1>1a. Len(s) - 1 \in Nat
  BY <1>1
<1>2. PICK m \in Nat : m = Len(s) - 1
  BY <1>1a, Zenon
<1>3. \A j \in 1..m : (IF j = i THEN s[Len(s)] ELSE s[j]) \in Pairs(Nat)
  BY <1>1, <1>2
<1>4. DropFromSample(s, i) = [j \in 1..m |-> IF j = i THEN s[Len(s)] ELSE s[j]]
  BY <1>2 DEF DropFromSample
<1>. DEFINE d == [j \in 1..m |-> IF j = i THEN s[Len(s)] ELSE s[j]]
<1>5. d \in [1..m -> Pairs(Nat)]
  BY <1>3
<1>6. d \in Seq(Pairs(Nat)) /\ Len(d) = m
  <2>. HIDE DEF d
  <2>. QED  BY <1>5
<1>. QED  BY <1>2, <1>4, <1>6

-----------------------------------------------------------------------------
(* The steps of the policy *)

\* A caller of Add passes a tracked hash and a cost.
LEMMA AddCallType ==
    ASSUME PolicyTypeOK, NEW k \in Hashes, NEW cost \in Nat, AddCall(k, cost)
    PROVE  PolicyTypeOK' /\ DOMAIN keyCosts' = DOMAIN keyCosts
<1>1. addArg' \in Pairs(Nat) /\ victims' \in Seq(Pairs(Nat)) /\ addPc' \in AddPcs
  BY DEF AddCall, Pairs, AddPcs
<1>2. UNCHANGED <<maxCost, est, sample>>
  BY DEF AddCall
<1>3. CASE cost > maxCost /\ UNCHANGED <<keyCosts, used, metrics>>
  BY <1>1, <1>2, <1>3 DEF PolicyTypeOK
<1>4. CASE updateIfHas(k, cost)
  BY <1>1, <1>2, <1>4, UpdateType DEF PolicyTypeOK
<1>. QED  BY <1>3, <1>4 DEF AddCall

\* A step of Add keeps the types.  It takes a key out of keyCosts only as the
\* victim it appends, and puts one in only when the total stays within maxCost.
LEMMA AddStepType ==
    ASSUME PolicyTypeOK, AddStep
    PROVE  /\ PolicyTypeOK'
           /\ UNCHANGED <<addArg, maxCost>>
           /\ \/ UNCHANGED <<keyCosts, used, victims>>
              \/ /\ DOMAIN keyCosts' = DOMAIN keyCosts \cup {addArg.key}
                 /\ used' <= maxCost /\ UNCHANGED victims /\ addPc' = "added"
              \/ \E v \in Pairs(Nat) :
                    /\ DOMAIN keyCosts' = DOMAIN keyCosts \ {v.key}
                    /\ victims' = Append(victims, v)
                    /\ used' <= used /\ addPc' = "room"
<1>1. CASE AddFits
  <2>1. addArg.key \in Hashes /\ addArg.cost \in Nat
    BY DEF PolicyTypeOK, Pairs
  <2>2. /\ IsMap(keyCosts', Hashes, Nat)
        /\ DOMAIN keyCosts' = DOMAIN keyCosts \cup {addArg.key}
        /\ used' = used + addArg.cost /\ used' \in Int
        /\ metrics' \in [MetricTypes -> Nat]
    BY <1>1, <2>1, EvictAddType DEF AddFits
  <2>3. used' <= maxCost
    BY <1>1, <2>1, <2>2 DEF AddFits, roomLeft, PolicyTypeOK
  <2>4. /\ UNCHANGED <<maxCost, addArg, victims>>
        /\ addPc' = "added" /\ est' = EmptyMap /\ sample' = <<>>
    BY <1>1 DEF AddFits, AddDone
  <2>. QED  BY <2>2, <2>3, <2>4, PolicyConstants DEF PolicyTypeOK, AddPcs
<1>2. CASE AddNoRoom
  <2>1. est' = EmptyMap \/ est' \in [Hashes -> 0..MaxHits]
    BY <1>2 DEF AddNoRoom, PolicyTypeOK
  <2>. QED  BY <1>2, <2>1 DEF AddNoRoom, PolicyTypeOK, AddPcs
<1>3. CASE AddReject
  <2>1. "rejectSets" \in MetricTypes
    BY DEF MetricTypes
  <2>2. metrics' \in [MetricTypes -> Nat]
    BY <1>3, <2>1, BumpType DEF AddReject, PolicyTypeOK
  <2>3. /\ UNCHANGED <<keyCosts, used, maxCost, addArg, victims>>
        /\ addPc' = "rejected" /\ est' = EmptyMap /\ sample' = <<>>
    BY <1>3 DEF AddReject, AddDone
  <2>. QED  BY <2>2, <2>3, PolicyConstants DEF PolicyTypeOK, AddPcs
<1>4. CASE AddEvict
  <2>1. PICK s \in fillSample : \E i \in DOMAIN s : EvictMin(s, i)
    BY <1>4 DEF AddEvict
  <2>2. PICK i \in DOMAIN s : EvictMin(s, i)
    BY <2>1
  <2>3. s \in Seq(Pairs(Nat)) /\ Len(s) <= LfuSample /\ Len(s) \in Nat
    BY FillSampleType
  <2>4. s[i] \in Pairs(Nat)
    BY <2>3
  <2>5. /\ IsMap(keyCosts', Hashes, Nat)
        /\ DOMAIN keyCosts' = DOMAIN keyCosts \ {s[i].key}
        /\ used' \in Int /\ used' <= used
        /\ metrics' \in [MetricTypes -> Nat]
    BY <2>2, EvictDelType DEF EvictMin
  <2>6. victims' = Append(victims, s[i]) /\ victims' \in Seq(Pairs(Nat))
    BY <2>2, <2>4 DEF EvictMin, PolicyTypeOK
  <2>7. sample' \in Seq(Pairs(Nat)) /\ Len(sample') = Len(s) - 1
    BY <2>2, <2>3, DropFromSampleType DEF EvictMin
  <2>8. UNCHANGED <<maxCost, addArg, est>> /\ addPc' = "room"
    BY <1>4, <2>2 DEF AddEvict, EvictMin
  <2>9. Len(sample') <= LfuSample
    BY <2>3, <2>7, PolicyConstants
  <2>10. PolicyTypeOK'
    BY <2>5, <2>6, <2>7, <2>8, <2>9 DEF PolicyTypeOK, AddPcs
  <2>. QED  BY <2>4, <2>5, <2>6, <2>8, <2>10
<1>. QED  BY <1>1, <1>2, <1>3, <1>4 DEF AddStep

\* The other operations keep the types too.
LEMMA PolicyUpdateType ==
    ASSUME PolicyTypeOK, NEW k, NEW cost \in Nat, PolicyUpdate(k, cost)
    PROVE  PolicyTypeOK' /\ DOMAIN keyCosts' = DOMAIN keyCosts
<1>1. UNCHANGED <<maxCost, addVars>> /\ updateIfHas(k, cost)
  BY DEF PolicyUpdate
<1>. QED  BY <1>1, UpdateType DEF PolicyTypeOK, addVars

\* Del takes one key out of keyCosts.
LEMMA PolicyDelType ==
    ASSUME PolicyTypeOK, NEW k, PolicyDel(k)
    PROVE  /\ PolicyTypeOK'
           /\ DOMAIN keyCosts' = DOMAIN keyCosts \ {k}
           /\ used' <= used
<1>1. UNCHANGED <<maxCost, addVars>> /\ evictDel(k)
  BY DEF PolicyDel
<1>. QED  BY <1>1, EvictDelType DEF PolicyTypeOK, addVars

\* Clear resets the total.
LEMMA PolicyClearType ==
    ASSUME PolicyTypeOK, PolicyClear
    PROVE  PolicyTypeOK' /\ used' = 0
<1>1. IsMap(EmptyMap, Hashes, Nat)
  BY DEF IsMap, EmptyMap
<1>. QED  BY <1>1 DEF PolicyClear, PolicyTypeOK, addVars

\* UpdateMaxCost leaves the tracked keys alone.
LEMMA UpdateMaxCostType ==
    ASSUME PolicyTypeOK, NEW cost \in MaxCosts, UpdateMaxCost(cost)
    PROVE  PolicyTypeOK' /\ UNCHANGED keyCosts
  BY PolicyConstants DEF UpdateMaxCost, PolicyTypeOK, addVars

\* The return of Add changes no cost.
LEMMA AddReturnType ==
    ASSUME PolicyTypeOK, AddReturn
    PROVE  PolicyTypeOK' /\ UNCHANGED <<keyCosts, used, maxCost>>
  BY DEF AddReturn, PolicyTypeOK, AddPcs

\* A new policy is well typed.
LEMMA PolicyInitType ==
    ASSUME PolicyInit
    PROVE  PolicyTypeOK
<1>1. IsMap(EmptyMap, Hashes, Nat)
  BY DEF IsMap, EmptyMap
<1>2. NoMetrics \in [MetricTypes -> Nat]
  BY DEF NoMetrics
<1>. QED  BY <1>1, <1>2, PolicyConstants DEF PolicyInit, PolicyTypeOK, AddPcs, Pairs

\* One step of the policy: the types and the capacity rule.
LEMMA PolicyStep ==
    ASSUME PolicyTypeOK, [PolicyNext]_policyVars
    PROVE  PolicyTypeOK' /\ (CapacityStep \/ UNCHANGED policyVars)
<1>. USE DEF CapacityStep
<1>0. used \in Int /\ maxCost \in Nat
  BY DEF PolicyTypeOK
<1>1. ASSUME NEW k \in Hashes, NEW cost \in Costs, AddCall(k, cost)
      PROVE  PolicyTypeOK' /\ CapacityStep
  <2>1. cost \in Nat
    BY PolicyConstants
  <2>. QED  BY <1>1, <2>1, AddCallType
<1>2. ASSUME NEW k \in Hashes, NEW cost \in Costs, PolicyUpdate(k, cost)
      PROVE  PolicyTypeOK' /\ CapacityStep
  <2>1. cost \in Nat
    BY PolicyConstants
  <2>. QED  BY <1>2, <2>1, PolicyUpdateType
<1>3. ASSUME NEW k \in Hashes, PolicyDel(k)
      PROVE  PolicyTypeOK' /\ CapacityStep
  <2>1. PolicyTypeOK' /\ used' <= used /\ DOMAIN keyCosts' \subseteq DOMAIN keyCosts
    BY <1>3, PolicyDelType
  <2>2. maxCost' = maxCost
    BY <1>3 DEF PolicyDel
  <2>3. used' \in Int
    BY <2>1 DEF PolicyTypeOK
  <2>. QED  BY <1>0, <2>1, <2>2, <2>3
<1>4. CASE PolicyClear
  <2>1. PolicyTypeOK' /\ used' = 0 /\ DOMAIN keyCosts' = {} /\ maxCost' = maxCost
    BY <1>4, PolicyClearType DEF PolicyClear, EmptyMap
  <2>. QED  BY <1>0, <2>1
<1>5. ASSUME NEW cost \in MaxCosts, UpdateMaxCost(cost)
      PROVE  PolicyTypeOK' /\ CapacityStep
  BY <1>5, UpdateMaxCostType
<1>6. CASE AddStep
  <2>1. PolicyTypeOK' /\ maxCost' = maxCost /\ used' \in Int
    BY <1>6, AddStepType DEF PolicyTypeOK
  <2>2. CASE UNCHANGED <<keyCosts, used, victims>>
    BY <2>1, <2>2
  <2>3. CASE used' <= maxCost
    BY <1>0, <2>1, <2>3
  <2>4. CASE \E v \in Pairs(Nat) : /\ DOMAIN keyCosts' = DOMAIN keyCosts \ {v.key}
                                   /\ used' <= used
    <3>1. DOMAIN keyCosts' \subseteq DOMAIN keyCosts /\ used' <= used
      BY <2>4
    <3>. QED  BY <1>0, <2>1, <3>1
  <2>. QED  BY <1>6, <2>2, <2>3, <2>4, AddStepType
<1>7. CASE AddReturn
  BY <1>7, AddReturnType
<1>8. CASE UNCHANGED policyVars
  BY <1>8 DEF policyVars, PolicyTypeOK
<1>. QED  BY <1>1, <1>2, <1>3, <1>4, <1>5, <1>6, <1>7, <1>8 DEF PolicyNext, PolicyCall

-----------------------------------------------------------------------------

\* Whatever is asked of the policy, its state stays well typed: costs never
\* become negative and the eviction sample never outgrows lfuSample.
THEOREM PolicyTyped == PolicySpec => []PolicyTypeOK
<1>1. PolicyInit => PolicyTypeOK
  BY PolicyInitType
<1>2. PolicyTypeOK /\ [PolicyNext]_policyVars => PolicyTypeOK'
  BY PolicyStep
<1>. QED  BY <1>1, <1>2, PTL DEF PolicySpec

\* Add never admits a key beyond the capacity it checked, although UpdateMaxCost
\* may change the capacity between any two of its steps.
THEOREM PolicyCapacity == PolicySpec => CapacityKept
<1>1. PolicyTypeOK /\ [PolicyNext]_policyVars => [CapacityStep]_policyVars
  BY PolicyStep
<1>. QED  BY <1>1, PolicyTyped, PTL DEF PolicySpec, CapacityKept

-----------------------------------------------------------------------------
(* used is the total of the tracked costs *)

\* The map of costs stays finite, and Add is never between its check and its
\* admission with a key that is tracked: that would charge its cost twice.
TotalInv ==
    /\ IsFiniteSet(DOMAIN keyCosts)
    /\ UsedIsTotal
    /\ addPc \in {"room", "evict"} => addArg.key \notin DOMAIN keyCosts

\* sampledLFU.add of an untracked key keeps used exact.
LEMMA EvictAddTotal ==
    ASSUME PolicyTypeOK, IsFiniteSet(DOMAIN keyCosts), UsedIsTotal,
           NEW k \in Hashes, NEW cost \in Nat, k \notin DOMAIN keyCosts, evictAdd(k, cost)
    PROVE  IsFiniteSet(DOMAIN keyCosts') /\ UsedIsTotal'
<1>. DEFINE D == DOMAIN keyCosts
<1>1. /\ DOMAIN keyCosts' = D \cup {k} /\ keyCosts'[k] = cost
      /\ \A x \in D : keyCosts'[x] = keyCosts[x] /\ keyCosts[x] \in Int
  BY DEF evictAdd, Put, PolicyTypeOK, IsMap
<1>2. IsFiniteSet(D \cup {k}) /\ (D \cup {k}) \ {k} = D
  BY FS_AddElement
<1>. HIDE DEF D
<1>3. IsFiniteSet(D)
  BY DEF D
<1>4. SumFunctionOnSet(keyCosts', D) = SumFunctionOnSet(keyCosts, D)
  BY <1>1, <1>3, SumSame
<1>5. \A x \in D \cup {k} : keyCosts'[x] \in Int
  BY <1>1
<1>6. SumFunctionOnSet(keyCosts', D \cup {k}) = cost + SumFunctionOnSet(keyCosts', D)
  BY <1>1, <1>2, <1>5, SumTakeOut
<1>7. used \in Int /\ used = SumFunctionOnSet(keyCosts, D) /\ used' = used + cost
  BY DEF UsedIsTotal, PolicyTypeOK, evictAdd, D
<1>. QED  BY <1>1, <1>2, <1>4, <1>6, <1>7 DEF UsedIsTotal

\* sampledLFU.del keeps used exact, also for a key that is gone already.
LEMMA EvictDelTotal ==
    ASSUME PolicyTypeOK, IsFiniteSet(DOMAIN keyCosts), UsedIsTotal, NEW k, evictDel(k)
    PROVE  IsFiniteSet(DOMAIN keyCosts') /\ UsedIsTotal'
<1>1. CASE k \notin DOMAIN keyCosts
  BY <1>1 DEF evictDel, UsedIsTotal
<1>2. CASE k \in DOMAIN keyCosts
  <2>. DEFINE D == DOMAIN keyCosts
  <2>1. /\ DOMAIN keyCosts' = D \ {k}
        /\ \A x \in D \ {k} : keyCosts'[x] = keyCosts[x]
        /\ \A x \in D : keyCosts[x] \in Int
        /\ used' = used - keyCosts[k]
    BY <1>2 DEF evictDel, Remove, PolicyTypeOK, IsMap
  <2>2. IsFiniteSet(D \ {k})
    BY FS_RemoveElement
  <2>. HIDE DEF D
  <2>3. IsFiniteSet(D) /\ k \in D
    BY <1>2 DEF D
  <2>4. SumFunctionOnSet(keyCosts', D \ {k}) = SumFunctionOnSet(keyCosts, D \ {k})
    BY <2>1, <2>2, SumSame
  <2>5. SumFunctionOnSet(keyCosts, D) = keyCosts[k] + SumFunctionOnSet(keyCosts, D \ {k})
    BY <2>1, <2>3, SumTakeOut
  <2>6. SumFunctionOnSet(keyCosts, D \ {k}) \in Int /\ keyCosts[k] \in Int
    BY <2>1, <2>2, <2>3, SumType
  <2>7. used = SumFunctionOnSet(keyCosts, D)
    BY DEF UsedIsTotal, D
  <2>8. used' = SumFunctionOnSet(keyCosts', D \ {k})
    BY <2>1, <2>4, <2>5, <2>6, <2>7
  <2>. QED  BY <2>1, <2>2, <2>8 DEF UsedIsTotal
<1>. QED  BY <1>1, <1>2

\* sampledLFU.updateIfHas keeps used exact, whether it finds the key or not.
LEMMA UpdateTotal ==
    ASSUME PolicyTypeOK, IsFiniteSet(DOMAIN keyCosts), UsedIsTotal, NEW k,
           NEW cost \in Nat, updateIfHas(k, cost)
    PROVE  IsFiniteSet(DOMAIN keyCosts') /\ UsedIsTotal'
<1>1. CASE k \notin DOMAIN keyCosts
  BY <1>1 DEF updateIfHas, UsedIsTotal
<1>2. CASE k \in DOMAIN keyCosts
  <2>. DEFINE D == DOMAIN keyCosts
  <2>1. /\ DOMAIN keyCosts' = D /\ keyCosts'[k] = cost
        /\ \A x \in D \ {k} : keyCosts'[x] = keyCosts[x]
        /\ \A x \in D : keyCosts[x] \in Int /\ keyCosts'[x] \in Int
        /\ used' = used + (cost - keyCosts[k])
    BY <1>2 DEF updateIfHas, PolicyTypeOK, IsMap
  <2>. HIDE DEF D
  <2>2. IsFiniteSet(D) /\ k \in D
    BY <1>2 DEF D
  <2>3. SumFunctionOnSet(keyCosts', D)
          = SumFunctionOnSet(keyCosts, D) + (keyCosts'[k] - keyCosts[k])
    BY <2>1, <2>2, SumChange
  <2>4. used = SumFunctionOnSet(keyCosts, D)
    BY DEF UsedIsTotal, D
  <2>. QED  BY <2>1, <2>2, <2>3, <2>4 DEF UsedIsTotal
<1>. QED  BY <1>1, <1>2

\* Every step of the policy keeps the total exact.
LEMMA TotalStep ==
    ASSUME PolicyTypeOK, TotalInv, [PolicyNext]_policyVars
    PROVE  TotalInv'
<1>. USE DEF TotalInv
<1>1. ASSUME NEW k \in Hashes, NEW cost \in Costs, AddCall(k, cost)
      PROVE  TotalInv'
  <2>1. cost \in Nat
    BY PolicyConstants
  <2>2. CASE addPc' = "rejected" /\ UNCHANGED <<keyCosts, used, metrics>>
    BY <2>2 DEF UsedIsTotal
  <2>3. CASE /\ addPc' = IF k \in DOMAIN keyCosts THEN "rejected" ELSE "room"
             /\ updateIfHas(k, cost)
    <3>1. IsFiniteSet(DOMAIN keyCosts') /\ UsedIsTotal'
      BY <2>1, <2>3, UpdateTotal
    <3>2. DOMAIN keyCosts' = DOMAIN keyCosts
      BY <2>1, <2>3, UpdateType
    <3>3. addArg'.key = k
      BY <1>1 DEF AddCall
    <3>. QED  BY <2>3, <3>1, <3>2, <3>3
  <2>. QED  BY <1>1, <2>2, <2>3 DEF AddCall
<1>2. ASSUME NEW k \in Hashes, NEW cost \in Costs, PolicyUpdate(k, cost)
      PROVE  TotalInv'
  <2>1. cost \in Nat
    BY PolicyConstants
  <2>2. IsFiniteSet(DOMAIN keyCosts') /\ UsedIsTotal'
    BY <1>2, <2>1, UpdateTotal DEF PolicyUpdate
  <2>. QED  BY <1>2, <2>2 DEF PolicyUpdate, AddIdle, addVars
<1>3. ASSUME NEW k \in Hashes, PolicyDel(k)
      PROVE  TotalInv'
  <2>1. IsFiniteSet(DOMAIN keyCosts') /\ UsedIsTotal'
    BY <1>3, EvictDelTotal DEF PolicyDel
  <2>. QED  BY <1>3, <2>1 DEF PolicyDel, AddIdle, addVars
<1>4. CASE PolicyClear
  <2>1. DOMAIN keyCosts' = {} /\ used' = 0 /\ IsFiniteSet({})
    BY <1>4, FS_EmptySet DEF PolicyClear, EmptyMap
  <2>2. SumFunctionOnSet(keyCosts', {}) = 0
    BY <2>1, SumStep
  <2>. QED  BY <1>4, <2>1, <2>2 DEF PolicyClear, AddIdle, addVars, UsedIsTotal
<1>5. ASSUME NEW cost \in MaxCosts, UpdateMaxCost(cost)
      PROVE  TotalInv'
  BY <1>5 DEF UpdateMaxCost, addVars, UsedIsTotal
<1>6. CASE AddFits
  <2>1. addArg.key \in Hashes /\ addArg.cost \in Nat
    BY DEF PolicyTypeOK, Pairs
  <2>2. addArg.key \notin DOMAIN keyCosts
    BY <1>6 DEF AddFits
  <2>3. IsFiniteSet(DOMAIN keyCosts') /\ UsedIsTotal'
    BY <1>6, <2>1, <2>2, EvictAddTotal DEF AddFits
  <2>. QED  BY <1>6, <2>3 DEF AddFits, AddDone
<1>7. CASE AddNoRoom
  BY <1>7 DEF AddNoRoom, UsedIsTotal
<1>8. CASE AddReject
  BY <1>8 DEF AddReject, AddDone, UsedIsTotal
<1>9. CASE AddEvict
  <2>1. PICK s \in fillSample : \E i \in DOMAIN s : EvictMin(s, i)
    BY <1>9 DEF AddEvict
  <2>2. PICK i \in DOMAIN s : EvictMin(s, i)
    BY <2>1
  <2>3. evictDel(s[i].key)
    BY <2>2 DEF EvictMin
  <2>4. IsFiniteSet(DOMAIN keyCosts') /\ UsedIsTotal'
    BY <2>3, EvictDelTotal
  <2>5. DOMAIN keyCosts' \subseteq DOMAIN keyCosts
    BY <2>3, EvictDelType
  <2>6. UNCHANGED addArg /\ addPc = "evict"
    BY <1>9 DEF AddEvict
  <2>. QED  BY <2>4, <2>5, <2>6
<1>10. CASE AddReturn
  BY <1>10 DEF AddReturn, UsedIsTotal
<1>11. CASE UNCHANGED policyVars
  BY <1>11 DEF policyVars, UsedIsTotal
<1>. QED  BY <1>1, <1>2, <1>3, <1>4, <1>5, <1>6, <1>7, <1>8, <1>9, <1>10, <1>11
          DEF PolicyNext, PolicyCall, AddStep

\* used never drifts from the sum of keyCosts, for any keys and costs and any order
\* of the operations, a key evicted twice by one Add included.
THEOREM PolicyUsedIsTotal == PolicySpec => []UsedIsTotal
<1>1. PolicyInit => TotalInv
  <2>1. SumFunctionOnSet(EmptyMap, {}) = 0 /\ DOMAIN EmptyMap = {} /\ IsFiniteSet({})
    BY FS_EmptySet, SumStep DEF EmptyMap
  <2>. QED  BY <2>1 DEF PolicyInit, TotalInv, UsedIsTotal
<1>2. PolicyTypeOK /\ TotalInv /\ [PolicyNext]_policyVars => TotalInv'
  BY TotalStep
<1>3. TotalInv => UsedIsTotal
  BY DEF TotalInv
<1>. QED  BY <1>1, <1>2, <1>3, PolicyTyped, PTL DEF PolicySpec

-----------------------------------------------------------------------------
(* Add evicts no more than it must *)

\* Entries of a sample s show the present cost of each key that is still tracked.
CostsCurrent(s) ==
    \A i \in DOMAIN s :
        s[i].key \in DOMAIN keyCosts => s[i].cost = keyCosts[s[i].key]

\* In the loop the item does not fit, and would not fit if the last victim were
\* given back.  There is no sample outside of the loop.
EvictInv ==
    /\ CostsCurrent(sample)
    /\ addPc \notin {"room", "evict"} => sample = <<>>
    /\ addPc = "evict" => used + addArg.cost > maxCost
    /\ addPc = "room" /\ victims # <<>> =>
          used + addArg.cost + victims[Len(victims)].cost > maxCost
    /\ NoNeedlessEviction

\* What fillSample appends is read from keyCosts.
LEMMA FillSampleCosts ==
    ASSUME PolicyTypeOK, CostsCurrent(sample), NEW s \in fillSample
    PROVE  CostsCurrent(s)
<1>. DEFINE free == LfuSample - Len(sample)
<1>1. sample \in Seq(Pairs(Nat)) /\ Len(sample) \in Nat
  BY DEF PolicyTypeOK
<1>2. PICK r \in UNION {KeyOrders(n) : n \in 0..free} :
         s = sample \o [j \in DOMAIN r |-> [key |-> r[j], cost |-> keyCosts[r[j]]]]
  BY DEF fillSample
<1>3. PICK n \in 0..free : r \in [1..n -> DOMAIN keyCosts]
  BY <1>2 DEF KeyOrders
<1>4. n \in Nat
  BY <1>1, <1>3, PolicyConstants DEF PolicyTypeOK
<1>. DEFINE new == [j \in 1..n |-> [key |-> r[j], cost |-> keyCosts[r[j]]]]
<1>5. s = sample \o new
  BY <1>2, <1>3
<1>6. new \in [1..n -> Pairs(Nat)]
  BY <1>3 DEF PolicyTypeOK, IsMap, Pairs
<1>7. new \in Seq(Pairs(Nat)) /\ Len(new) = n
  <2>. HIDE DEF new
  <2>. QED  BY <1>4, <1>6
<1>8. \A j \in 1..n : new[j].key = r[j] /\ new[j].cost = keyCosts[r[j]]
  BY <1>3
<1>. HIDE DEF new
<1>9. DOMAIN s = 1..(Len(sample) + n)
  <2>1. s \in Seq(Pairs(Nat)) /\ Len(s) = Len(sample) + n
    BY <1>1, <1>5, <1>7, ConcatProperties
  <2>. QED  BY <2>1, LenProperties
<1>10. ASSUME NEW i \in DOMAIN s, s[i].key \in DOMAIN keyCosts
       PROVE  s[i].cost = keyCosts[s[i].key]
  <2>1. CASE i <= Len(sample)
    <3>1. s[i] = sample[i] /\ i \in DOMAIN sample
      BY <1>1, <1>4, <1>5, <1>7, <1>9, <2>1
    <3>. QED  BY <1>10, <3>1 DEF CostsCurrent
  <2>2. CASE i > Len(sample)
    <3>. DEFINE j == i - Len(sample)
    <3>1. s[i] = new[j] /\ j \in 1..n
      BY <1>1, <1>4, <1>5, <1>7, <1>9, <2>2
    <3>. QED  BY <1>8, <3>1
  <2>3. i \in Int
    BY <1>9
  <2>. QED  BY <1>1, <2>1, <2>2, <2>3
<1>. QED  BY <1>10 DEF CostsCurrent

\* Every step keeps it, unless it raises the capacity.
LEMMA EvictStep ==
    ASSUME PolicyTypeOK, EvictInv, [PolicyNext]_policyVars, maxCost' <= maxCost
    PROVE  EvictInv'
<1>. USE DEF EvictInv
<1>0. used \in Int /\ maxCost \in Nat /\ addArg.cost \in Nat /\ victims \in Seq(Pairs(Nat))
  BY DEF PolicyTypeOK, Pairs
<1>1. ASSUME NEW k \in Hashes, NEW cost \in Costs, AddCall(k, cost)
      PROVE  EvictInv'
  <2>1. sample = <<>> /\ sample' = <<>> /\ victims' = <<>> /\ addPc' \in {"rejected", "room"}
    BY <1>1 DEF AddCall, AddIdle
  <2>. QED  BY <2>1 DEF CostsCurrent, NoNeedlessEviction
<1>2. ASSUME NEW k \in Hashes, NEW cost \in Costs, PolicyUpdate(k, cost)
      PROVE  EvictInv'
  <2>1. sample' = <<>> /\ addPc' = "none"
    BY <1>2 DEF PolicyUpdate, AddIdle, addVars
  <2>. QED  BY <2>1 DEF CostsCurrent, NoNeedlessEviction
<1>3. ASSUME NEW k \in Hashes, PolicyDel(k)
      PROVE  EvictInv'
  <2>1. sample' = <<>> /\ addPc' = "none"
    BY <1>3 DEF PolicyDel, AddIdle, addVars
  <2>. QED  BY <2>1 DEF CostsCurrent, NoNeedlessEviction
<1>4. CASE PolicyClear
  <2>1. sample' = <<>> /\ addPc' = "none"
    BY <1>4 DEF PolicyClear, AddIdle, addVars
  <2>. QED  BY <2>1 DEF CostsCurrent, NoNeedlessEviction
<1>5. ASSUME NEW cost \in MaxCosts, UpdateMaxCost(cost)
      PROVE  EvictInv'
  <2>1. UNCHANGED <<keyCosts, used, addPc, addArg, sample, victims>> /\ maxCost' \in Nat
    BY <1>5, PolicyConstants DEF UpdateMaxCost, addVars
  <2>2. CostsCurrent(sample)'
    BY <2>1 DEF CostsCurrent
  <2>3. victims # <<>> => victims[Len(victims)].cost \in Nat
    <3>1. victims # <<>> => victims[Len(victims)] \in Pairs(Nat)
      BY <1>0, EmptySeq, ElementOfSeq
    <3>. QED  BY <3>1 DEF Pairs
  <2>. QED  BY <1>0, <2>1, <2>2, <2>3 DEF NoNeedlessEviction
<1>6. CASE AddFits
  <2>1. /\ addPc = "room" /\ addPc' = "added" /\ sample' = <<>>
        /\ used' = used + addArg.cost /\ UNCHANGED <<maxCost, victims>>
    BY <1>6 DEF AddFits, AddDone, evictAdd
  <2>. QED  BY <1>0, <2>1 DEF CostsCurrent, NoNeedlessEviction
<1>7. CASE AddNoRoom
  <2>1. /\ addPc' = "evict" /\ used + addArg.cost > maxCost
        /\ UNCHANGED <<keyCosts, used, maxCost, addArg, sample, victims>>
    BY <1>0, <1>7 DEF AddNoRoom, roomLeft
  <2>. QED  BY <2>1 DEF CostsCurrent, NoNeedlessEviction
<1>8. CASE AddReject
  <2>1. addPc' = "rejected" /\ sample' = <<>>
    BY <1>8 DEF AddReject, AddDone
  <2>. QED  BY <2>1 DEF CostsCurrent, NoNeedlessEviction
<1>9. CASE AddEvict
  <2>1. PICK s \in fillSample : \E i \in DOMAIN s : EvictMin(s, i)
    BY <1>9 DEF AddEvict
  <2>2. PICK i \in DOMAIN s : EvictMin(s, i)
    BY <2>1
  <2>3. /\ evictDel(s[i].key) /\ sample' = DropFromSample(s, i)
        /\ victims' = Append(victims, s[i]) /\ addPc' = "room"
        /\ addPc = "evict" /\ UNCHANGED <<maxCost, addArg>>
    BY <1>9, <2>2 DEF EvictMin, AddEvict
  <2>4. s \in Seq(Pairs(Nat)) /\ CostsCurrent(s)
    BY FillSampleType, FillSampleCosts
  <2>5. s[i] \in Pairs(Nat) /\ s[i].cost \in Nat
    <3>1. s[i] \in Pairs(Nat)
      BY <2>4
    <3>. QED  BY <3>1 DEF Pairs
  <2>6. used' + s[i].cost >= used /\ used' \in Int
    <3>1. CASE s[i].key \in DOMAIN keyCosts
      <4>1. used' = used - keyCosts[s[i].key] /\ s[i].cost = keyCosts[s[i].key]
        BY <2>3, <2>4, <3>1 DEF evictDel, CostsCurrent
      <4>. QED  BY <1>0, <2>5, <4>1
    <3>2. CASE s[i].key \notin DOMAIN keyCosts
      <4>1. used' = used
        BY <2>3, <3>2 DEF evictDel
      <4>. QED  BY <1>0, <2>5, <4>1
    <3>. QED  BY <3>1, <3>2
  <2>7. victims' # <<>> /\ victims'[Len(victims')] = s[i]
    BY <1>0, <2>3, <2>5
  <2>8. used' + addArg'.cost + victims'[Len(victims')].cost > maxCost'
    BY <1>0, <2>3, <2>5, <2>6, <2>7
  <2>9. CostsCurrent(sample)'
    <3>1. \A x \in DOMAIN keyCosts' : x \in DOMAIN keyCosts /\ keyCosts'[x] = keyCosts[x]
      BY <2>3 DEF evictDel, Remove
    <3>2. DOMAIN s = 1..Len(s) /\ Len(s) \in Nat \ {0}
      BY <2>4
    <3>3. \A j \in DOMAIN sample' : \E l \in DOMAIN s : sample'[j] = s[l]
      BY <2>3, <3>2 DEF DropFromSample
    <3>. QED  BY <2>4, <3>1, <3>3 DEF CostsCurrent
  <2>. QED  BY <2>3, <2>8, <2>9 DEF NoNeedlessEviction
<1>10. CASE AddReturn
  BY <1>10 DEF AddReturn, CostsCurrent, NoNeedlessEviction
<1>11. CASE UNCHANGED policyVars
  BY <1>11 DEF policyVars, CostsCurrent, NoNeedlessEviction
<1>. QED  BY <1>1, <1>2, <1>3, <1>4, <1>5, <1>6, <1>7, <1>8, <1>9, <1>10, <1>11
          DEF PolicyNext, PolicyCall, AddStep

\* Add gives up no key without need, although its sample may name a key twice and
\* UpdateMaxCost may lower the capacity, to one value m, in the midst of an Add.
THEOREM PolicyEvictsNeeded ==
    ASSUME NEW m \in Nat, MaxCosts \subseteq {m}, m <= InitMaxCost
    PROVE  PolicySpec => []NoNeedlessEviction
<1>. DEFINE Inv == EvictInv /\ maxCost \in {m, InitMaxCost}
<1>1. PolicyInit => Inv
  BY DEF PolicyInit, EvictInv, CostsCurrent, NoNeedlessEviction
<1>2. PolicyTypeOK /\ Inv /\ [PolicyNext]_policyVars => Inv'
  <2>. SUFFICES ASSUME PolicyTypeOK, Inv, [PolicyNext]_policyVars PROVE Inv'
    OBVIOUS
  <2>1. UNCHANGED maxCost \/ maxCost' = m
    BY DEF PolicyNext, PolicyCall, AddCall, PolicyUpdate, PolicyDel, PolicyClear,
           UpdateMaxCost, AddStep, AddFits, AddNoRoom, AddReject, AddEvict, AddReturn,
           policyVars
  <2>2. maxCost' <= maxCost
    BY <2>1, PolicyConstants
  <2>. QED  BY <2>1, <2>2, EvictStep
<1>3. Inv => NoNeedlessEviction
  BY DEF EvictInv
<1>. QED  BY <1>1, <1>2, <1>3, PolicyTyped, PTL DEF PolicySpec
=============================================================================
