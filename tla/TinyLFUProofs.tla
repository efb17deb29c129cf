--------------------------- MODULE TinyLFUProofs ---------------------------
(***************************************************************************)
(* Proofs about TinyLFU for every number of counters, every size of the    *)
(* doorkeeper and every set of hashes: the rows agree, no key is           *)
(* underrated, and aging bounds what is remembered.                        *)
(***************************************************************************)
EXTENDS TinyLFUExact, SumTheorems, TLAPS

(* The two halves of a byte are counters of four bits.                      *)
LEMMA ByteHalves ==
  ASSUME NEW b \in Bytes
  PROVE  b % 16 \in 0..15 /\ (b \div 16) % 16 \in 0..15
BY DEF Bytes

(* Adding 1 to a byte changes its low half only, if that is not 15.         *)
LEMMA ByteIncrementLow ==
  ASSUME NEW b \in Bytes, b % 16 < 15
  PROVE  /\ (b + 1) % 256 \in Bytes
         /\ ((b + 1) % 256) % 16 = (b % 16) + 1
         /\ (((b + 1) % 256) \div 16) % 16 = (b \div 16) % 16
BY DEF Bytes

(* Adding 16 changes its high half only, if that is not 15.                 *)
LEMMA ByteIncrementHigh ==
  ASSUME NEW b \in Bytes, (b \div 16) % 16 < 15
  PROVE  /\ (b + 16) % 256 \in Bytes
         /\ ((b + 16) % 256) % 16 = b % 16
         /\ (((b + 16) % 256) \div 16) % 16 = ((b \div 16) % 16) + 1
BY DEF Bytes

(* The masked shift of cmRow.reset halves both halves.                      *)
LEMMA ByteHalved ==
  ASSUME NEW b \in Bytes
  PROVE  /\ And77(b \div 2) \in Bytes
         /\ And77(b \div 2) % 16 = (b % 16) \div 2
         /\ (And77(b \div 2) \div 16) % 16 = ((b \div 16) % 16) \div 2
BY DEF Bytes, And77

-----------------------------------------------------------------------------
(* Rows of counters.                                                        *)

(* A slot's byte is in the row.                                             *)
LEMMA SlotByte ==
  ASSUME NEW n \in Slots
  PROVE  n \in Nat /\ n \div 2 \in 0..(Width \div 2) - 1
BY TinyLFUConstants DEF Slots

(* Two slots of one byte are its two halves.                                *)
LEMMA SameByte ==
  ASSUME NEW n \in Slots, NEW m \in Slots, n # m, n \div 2 = m \div 2
  PROVE  (n % 2 = 0 /\ m % 2 = 1) \/ (n % 2 = 1 /\ m % 2 = 0)
BY SlotByte

(* A counter is one half of its byte and has four bits.                     *)
LEMMA GetHalf ==
  ASSUME NEW r \in Row, NEW n \in Slots
  PROVE  /\ r[n \div 2] \in Bytes
         /\ n % 2 = 0 => get(r, n) = r[n \div 2] % 16
         /\ n % 2 # 0 => get(r, n) = (r[n \div 2] \div 16) % 16
         /\ get(r, n) \in 0..15
<1>1. r[n \div 2] \in Bytes
  BY SlotByte DEF Row
<1>2. n % 2 = 0 => get(r, n) = r[n \div 2] % 16
  BY <1>1 DEF get, Unit, Bytes
<1>3. n % 2 # 0 => get(r, n) = (r[n \div 2] \div 16) % 16
  BY DEF get, Unit
<1>. QED  BY <1>1, <1>2, <1>3, ByteHalves

(* cmRow.increment adds one to its counter up to 15 and touches no other.   *)
LEMMA IncrementRow ==
  ASSUME NEW r \in Row, NEW n \in Slots
  PROVE  /\ increment(r, n) \in Row
         /\ get(increment(r, n), n) = Least(get(r, n) + 1, 15)
         /\ \A m \in Slots \ {n} : get(increment(r, n), m) = get(r, m)
<1>. DEFINE b == r[n \div 2]
            c == (b + Unit(n)) % 256
<1>1. b \in Bytes /\ get(r, n) \in 0..15 /\ n \div 2 \in 0..(Width \div 2) - 1
  BY GetHalf, SlotByte
<1>2. CASE get(r, n) < 15
  <2>1. increment(r, n) = [r EXCEPT ![n \div 2] = c]
    BY <1>2 DEF increment
  <2>2. /\ c \in Bytes
        /\ n % 2 = 0 => c % 16 = (b % 16) + 1 /\ (c \div 16) % 16 = (b \div 16) % 16
        /\ n % 2 # 0 => c % 16 = b % 16 /\ (c \div 16) % 16 = ((b \div 16) % 16) + 1
    <3>1. CASE n % 2 = 0
      <4>1. c = (b + 1) % 256 /\ b % 16 < 15
        BY <3>1, <1>2, GetHalf DEF Unit
      <4>. HIDE DEF c, b
      <4>. QED  BY <4>1, <3>1, <1>1, ByteIncrementLow
    <3>2. CASE n % 2 # 0
      <4>1. c = (b + 16) % 256 /\ (b \div 16) % 16 < 15
        BY <3>2, <1>2, GetHalf DEF Unit
      <4>. HIDE DEF c, b
      <4>. QED  BY <4>1, <3>2, <1>1, ByteIncrementHigh
    <3>. QED  BY <3>1, <3>2
  <2>. HIDE DEF c
  <2>3. increment(r, n) \in Row
    BY <2>1, <2>2 DEF Row
  <2>4. increment(r, n)[n \div 2] = c
    BY <2>1, <1>1 DEF Row
  <2>5. get(increment(r, n), n) = get(r, n) + 1
    BY <2>2, <2>3, <2>4, GetHalf, SlotByte
  <2>6. ASSUME NEW m \in Slots \ {n} PROVE get(increment(r, n), m) = get(r, m)
    <3>1. CASE m \div 2 = n \div 2
      BY <3>1, <2>2, <2>3, <2>4, GetHalf, SameByte
    <3>2. CASE m \div 2 # n \div 2
      <4>1. increment(r, n)[m \div 2] = r[m \div 2]
        BY <3>2, <2>1, SlotByte DEF Row
      <4>. QED  BY <4>1 DEF get
    <3>. QED  BY <3>1, <3>2
  <2>. QED  BY <1>1, <1>2, <2>3, <2>5, <2>6 DEF Least
<1>3. CASE ~(get(r, n) < 15)
  <2>1. increment(r, n) = r /\ get(r, n) = 15
    BY <1>1, <1>3 DEF increment
  <2>. QED  BY <2>1 DEF Least
<1>. QED  BY <1>2, <1>3

(* cmRow.reset halves every counter of the row.                             *)
LEMMA ResetRow ==
  ASSUME NEW r \in Row
  PROVE  /\ reset(r) \in Row
         /\ \A n \in Slots : get(reset(r), n) = get(r, n) \div 2
<1>1. reset(r) \in Row
  BY ByteHalved DEF reset, Row
<1>2. ASSUME NEW n \in Slots PROVE get(reset(r), n) = get(r, n) \div 2
  <2>1. reset(r)[n \div 2] = And77(r[n \div 2] \div 2)
    BY SlotByte DEF reset, Row
  <2>2. r[n \div 2] \in Bytes
    BY GetHalf
  <2>. QED  BY <1>1, <2>1, <2>2, GetHalf, ByteHalved
<1>. QED  BY <1>1, <1>2

-----------------------------------------------------------------------------
(* The sketch keeps its type and its rows agree.                            *)

(* The locations of a hash are bits of the doorkeeper.                      *)
LEMMA LocationsInDoor ==
  ASSUME NEW hash \in Hashes
  PROVE  Locations(hash) \subseteq 0..DoorBits - 1
<1>. DEFINE u == HashSpace \div DoorBits
            h == hash \div u
            l == hash % DoorBits
<1>1. hash \in Nat /\ DoorBits \in Nat /\ DoorBits > 0 /\ HashSpace \in Nat
  BY TinyLFUConstants
<1>2. u \in Nat /\ u > 0
  BY TinyLFUConstants
<1>3. h \in Int /\ l \in Int
  <2>. HIDE DEF u
  <2>. QED  BY <1>1, <1>2
<1>4. ASSUME NEW i \in 0..SetLocs - 1 PROVE (h + i * l) % DoorBits \in 0..DoorBits - 1
  <2>. HIDE DEF h, l
  <2>1. h + i * l \in Int
    BY <1>3
  <2>. DEFINE x == h + i * l
  <2>2. x \in Int
    BY <2>1
  <2>. HIDE DEF x
  <2>3. x % DoorBits \in 0..DoorBits - 1
    BY <1>1, <2>2
  <2>. QED  BY <2>3 DEF x
<1>. QED  BY <1>4 DEF Locations

(* Counting a key raises the counters of the slot it falls in, up to 15.    *)
LEMMA CountedRows ==
  ASSUME LFUTypeOK, NEW key \in Hashes
  PROVE  /\ Counted(key) \in [Rows -> Row]
         /\ \A i \in Rows, k \in Hashes :
              get(Counted(key)[i], Slot(k, seed[i])) =
                IF Slot(k, seed[i]) = Slot(key, seed[i])
                THEN Least(Counter(i, k) + 1, 15) ELSE Counter(i, k)
<1>1. ASSUME NEW i \in Rows, NEW k \in Hashes
      PROVE  rows[i] \in Row /\ Slot(k, seed[i]) \in Slots
  BY TinyLFUConstants DEF LFUTypeOK
<1>2. ASSUME NEW i \in Rows PROVE Counted(key)[i] = increment(rows[i], Slot(key, seed[i]))
  BY DEF Counted
<1>3. Counted(key) \in [Rows -> Row]
  BY <1>1, IncrementRow DEF Counted
<1>4. ASSUME NEW i \in Rows, NEW k \in Hashes
      PROVE  get(Counted(key)[i], Slot(k, seed[i])) =
               IF Slot(k, seed[i]) = Slot(key, seed[i])
               THEN Least(Counter(i, k) + 1, 15) ELSE Counter(i, k)
  BY <1>1, <1>2, IncrementRow DEF Counter
<1>. QED  BY <1>3, <1>4

(* Aging halves every counter of every row.                                 *)
LEMMA AgedRows ==
  ASSUME NEW rs \in [Rows -> Row]
  PROVE  /\ Aged(rs) \in [Rows -> Row]
         /\ \A i \in Rows, n \in Slots : get(Aged(rs)[i], n) = get(rs[i], n) \div 2
BY ResetRow DEF Aged

(* A cleared sketch counts nothing.                                         *)
LEMMA ClearedRow ==
  ASSUME NEW r \in Row
  PROVE  clear(r) \in Row /\ \A n \in Slots : get(clear(r), n) = 0
<1>1. clear(r) \in Row
  BY DEF clear, Row, Bytes
<1>2. ASSUME NEW n \in Slots PROVE get(clear(r), n) = 0
  <2>1. clear(r)[n \div 2] = 0
    BY SlotByte DEF clear, Row
  <2>. QED  BY <2>1, <1>1, GetHalf
<1>. QED  BY <1>1, <1>2

(* What an Increment does to the counter of any key in any row: if the      *)
(* doorkeeper had the incremented key, the counters of its slot go up, and  *)
(* then aging halves them all when it is due.                               *)
LEMMA IncrementCounters ==
  ASSUME LFUTypeOK, NEW key \in Hashes, Increment(key)
  PROVE  /\ rows' \in [Rows -> Row]
         /\ \A i \in Rows, k \in Hashes :
              LET c == IF Has(key) /\ Slot(k, seed[i]) = Slot(key, seed[i])
                       THEN Least(Counter(i, k) + 1, 15) ELSE Counter(i, k)
              IN  Counter(i, k)' = IF AgingDue THEN c \div 2 ELSE c
<1>. DEFINE rs == IF Has(key) THEN Counted(key) ELSE rows
            c(i, k) == IF Has(key) /\ Slot(k, seed[i]) = Slot(key, seed[i])
                       THEN Least(Counter(i, k) + 1, 15) ELSE Counter(i, k)
<1>1. rs \in [Rows -> Row]
  BY CountedRows DEF LFUTypeOK
<1>2. ASSUME NEW i \in Rows, NEW k \in Hashes
      PROVE  get(rs[i], Slot(k, seed[i])) = c(i, k)
  <2>1. CASE Has(key)
    BY <2>1, CountedRows
  <2>2. CASE ~Has(key)
    BY <2>2 DEF Counter
  <2>. QED  BY <2>1, <2>2
<1>3. rows' = (IF AgingDue THEN Aged(rs) ELSE rs) /\ seed' = seed
  BY DEF Increment
<1>4. ASSUME NEW i \in Rows, NEW k \in Hashes
      PROVE  Counter(i, k)' = IF AgingDue THEN c(i, k) \div 2 ELSE c(i, k)
  <2>. HIDE DEF rs, c
  <2>1. Slot(k, seed[i]) \in Slots
    BY TinyLFUConstants DEF LFUTypeOK
  <2>2. Counter(i, k)' = get(rows'[i], Slot(k, seed[i]))
    BY <1>3 DEF Counter
  <2>. QED  BY <1>1, <1>2, <1>3, <2>1, <2>2, AgedRows
<1>5. rows' \in [Rows -> Row]
  BY <1>1, <1>3, AgedRows
<1>. QED  BY <1>4, <1>5

LFUInv == LFUTypeOK /\ RowsAgree

(* The code's initial sketch satisfies the invariant.                       *)
LEMMA LFUInitially == LFUInit => LFUInv
<1>. SUFFICES ASSUME LFUInit PROVE LFUInv
  OBVIOUS
<1>1. LFUTypeOK
  BY TinyLFUConstants DEF LFUInit, LFUTypeOK, Row, Bytes
<1>2. ASSUME NEW i \in Rows, NEW k \in Hashes PROVE Counter(i, k) = 0
  <2>1. Slot(k, seed[i]) \in Slots /\ rows[i] \in Row
    BY <1>1, TinyLFUConstants DEF LFUTypeOK
  <2>2. rows[i][Slot(k, seed[i]) \div 2] = 0
    BY <2>1, SlotByte DEF LFUInit
  <2>. QED  BY <2>1, <2>2, GetHalf DEF Counter
<1>. QED  BY <1>1, <1>2 DEF LFUInv, RowsAgree

(* Every step keeps it.  The rows go on agreeing because two keys that      *)
(* share a slot in one row share one in every row.                          *)
LEMMA LFUStep == LFUInv /\ [LFUNext]_lfuVars => LFUInv'
<1>. SUFFICES ASSUME LFUInv, [LFUNext]_lfuVars PROVE LFUInv'
  OBVIOUS
<1>. USE DEF LFUInv
<1>1. ASSUME NEW key \in Hashes, Increment(key) PROVE LFUInv'
  <2>1. LFUTypeOK'
    <3>1. rows' \in [Rows -> Row] /\ seed' \in [Rows -> Seeds]
      BY <1>1, IncrementCounters DEF LFUTypeOK, Increment
    <3>2. door' \subseteq 0..DoorBits - 1
      BY <1>1, LocationsInDoor DEF LFUTypeOK, Increment
    <3>3. incrs' \in 0..NumCounters - 1
      BY <1>1, TinyLFUConstants DEF LFUTypeOK, Increment, AgingDue
    <3>. QED  BY <3>1, <3>2, <3>3 DEF LFUTypeOK
  <2>2. ASSUME NEW k \in Hashes, NEW i \in Rows, NEW j \in Rows
        PROVE  Counter(i, k)' = Counter(j, k)'
    <3>1. Slot(k, seed[i]) = Slot(key, seed[i]) <=> Slot(k, seed[j]) = Slot(key, seed[j])
      BY TinyLFUConstants DEF LFUTypeOK
    <3>2. Counter(i, k) = Counter(j, k)
      BY DEF RowsAgree
    <3>. QED  BY <1>1, <3>1, <3>2, IncrementCounters
  <2>. QED  BY <2>1, <2>2 DEF RowsAgree
<1>2. CASE Clear
  <2>1. LFUTypeOK'
    BY <1>2, ClearedRow, TinyLFUConstants DEF LFUTypeOK, Clear
  <2>2. ASSUME NEW k \in Hashes, NEW i \in Rows PROVE Counter(i, k)' = 0
    <3>1. Slot(k, seed[i]) \in Slots /\ rows[i] \in Row
      BY TinyLFUConstants DEF LFUTypeOK
    <3>. QED  BY <1>2, <3>1, ClearedRow DEF Clear, Counter
  <2>. QED  BY <2>1, <2>2 DEF RowsAgree
<1>3. CASE UNCHANGED lfuVars
  BY <1>3 DEF lfuVars, LFUTypeOK, RowsAgree, Counter
<1>. QED  BY <1>1, <1>2, <1>3 DEF LFUNext

(* tinyLFU keeps its bytes, its doorkeeper and its period in bounds, and    *)
(* the four rows of cmSketch always agree on every key.                     *)
THEOREM SketchRowsAgree == LFUSpec => [](LFUTypeOK /\ RowsAgree)
<1>. QED  BY LFUInitially, LFUStep, PTL DEF LFUSpec, LFUInv

-----------------------------------------------------------------------------
(* No key is underrated.                                                    *)

(* The rows agree, so the least of a key's counters is any of them.         *)
LEMMA EstimateIsCounter ==
  ASSUME LFUInv, NEW key \in Hashes, NEW i \in Rows
  PROVE  /\ Counter(i, key) \in 0..15
         /\ Estimate(key) = Counter(i, key) + (IF Has(key) THEN 1 ELSE 0)
<1>. DEFINE S == {Counter(j, key) : j \in Rows}
            v == Counter(i, key)
<1>1. v \in 0..15
  <2>1. Slot(key, seed[i]) \in Slots /\ rows[i] \in Row
    BY TinyLFUConstants DEF LFUInv, LFUTypeOK
  <2>. QED  BY <2>1, GetHalf DEF Counter
<1>2. S = {v}
  BY DEF LFUInv, RowsAgree
<1>3. Min(S) = v
  <2>. HIDE DEF S, v
  <2>. QED  BY <1>1, <1>2 DEF Min
<1>. QED  BY <1>1, <1>3 DEF Estimate

(* Halving and saturating addition keep the order of counters.              *)
LEMMA CountersMonotone ==
  ASSUME NEW a \in 0..15, NEW b \in 0..15, a <= b
  PROVE  /\ a \div 2 \in 0..15 /\ b \div 2 \in 0..15 /\ a \div 2 <= b \div 2
         /\ Least(a + 1, 15) \in 0..15 /\ Least(b + 1, 15) \in 0..15
         /\ Least(a + 1, 15) <= Least(b + 1, 15)
         /\ a <= Least(b + 1, 15)
BY DEF Least

ExactIndInv == LFUInv /\ ExactInv

(* An Increment keeps the exact counts below the sketch's.  A key that the  *)
(* exact doorkeeper has is one the doorkeeper has, so whenever the exact    *)
(* count goes up the key's counters do.                                     *)
LEMMA ExactIncrementKeeps ==
  ASSUME ExactIndInv, NEW key \in Hashes, ExactIncrement(key)
  PROVE  ExactInv'
<1>. USE DEF ExactIndInv
<1>1. /\ Increment(key) /\ LFUTypeOK /\ (incrs' = 0 <=> AgingDue)
  BY DEF ExactIncrement, Increment, LFUInv, LFUTypeOK
<1>. DEFINE e(k) == ExactCounted(key)[k]
            c(i, k) == IF Has(key) /\ Slot(k, seed[i]) = Slot(key, seed[i])
                       THEN Least(Counter(i, k) + 1, 15) ELSE Counter(i, k)
<1>2. ASSUME NEW k \in Hashes, NEW i \in Rows
      PROVE  e(k) \in 0..15 /\ c(i, k) \in 0..15 /\ e(k) <= c(i, k)
  <2>1. exactFreq[k] \in 0..15 /\ Counter(i, k) \in 0..15 /\ exactFreq[k] <= Counter(i, k)
    BY EstimateIsCounter DEF ExactInv
  <2>2. CASE k = key /\ key \in exactDoor
    <3>1. e(k) = Least(exactFreq[k] + 1, 15)
      BY <2>2 DEF ExactCounted, ExactInv
    <3>2. c(i, k) = Least(Counter(i, k) + 1, 15)
      BY <2>2 DEF ExactInv
    <3>. QED  BY <2>1, <3>1, <3>2, CountersMonotone
  <2>3. CASE ~(k = key /\ key \in exactDoor)
    <3>1. e(k) = exactFreq[k]
      BY <2>3 DEF ExactCounted, ExactInv
    <3>2. c(i, k) \in {Least(Counter(i, k) + 1, 15), Counter(i, k)}
      OBVIOUS
    <3>. QED  BY <2>1, <3>1, <3>2, CountersMonotone
  <2>. QED  BY <2>2, <2>3
<1>3. ASSUME NEW k \in Hashes, NEW i \in Rows
      PROVE  exactFreq'[k] \in 0..15 /\ exactFreq'[k] <= Counter(i, k)'
  <2>1. Counter(i, k)' = IF AgingDue THEN c(i, k) \div 2 ELSE c(i, k)
    BY <1>1, IncrementCounters
  <2>2. exactFreq'[k] = IF AgingDue THEN e(k) \div 2 ELSE e(k)
    BY <1>1 DEF ExactIncrement
  <2>. HIDE DEF e, c
  <2>. QED  BY <1>2, <2>1, <2>2, CountersMonotone
<1>4. exactFreq' \in [Hashes -> 0..15]
  <2>1. DOMAIN exactFreq' = Hashes /\ exactFreq' = [k \in Hashes |-> exactFreq'[k]]
    BY DEF ExactIncrement, ExactCounted, ExactInv
  <2>2. \E i \in Rows : TRUE
    BY DEF Rows, cmDepth
  <2>3. \A k \in Hashes : exactFreq'[k] \in 0..15
    BY <1>3, <2>2
  <2>. QED  BY <2>1, <2>3
<1>5. exactDoor' \subseteq Hashes
  BY DEF ExactIncrement, ExactInv
<1>6. ASSUME NEW k \in exactDoor' PROVE Has(k)'
  <2>1. ~AgingDue /\ k \in exactDoor \cup {key} /\ door' = door \cup Locations(key)
    BY <1>1, <1>6 DEF ExactIncrement, Increment
  <2>. QED  BY <2>1 DEF Has, ExactInv
<1>. QED  BY <1>3, <1>4, <1>5, <1>6 DEF ExactInv

(* The invariant holds at first.                                            *)
LEMMA ExactInitially == ExactInit => ExactIndInv
<1>. SUFFICES ASSUME ExactInit PROVE ExactIndInv
  OBVIOUS
<1>1. LFUInv
  BY LFUInitially DEF ExactInit
<1>2. ASSUME NEW key \in Hashes, NEW i \in Rows PROVE exactFreq[key] <= Counter(i, key)
  BY <1>1, EstimateIsCounter DEF ExactInit
<1>. QED  BY <1>1, <1>2 DEF ExactIndInv, ExactInv, ExactInit

(* Every Increment and every clear keeps the invariant.                     *)
LEMMA ExactStep == ExactIndInv /\ [ExactNext]_exactVars => ExactIndInv'
<1>. SUFFICES ASSUME ExactIndInv, [ExactNext]_exactVars PROVE ExactIndInv'
  OBVIOUS
<1>1. LFUInv'
  BY LFUStep DEF ExactIndInv, ExactNext, ExactIncrement, ExactClear, LFUNext, exactVars
<1>2. ASSUME NEW key \in Hashes, ExactIncrement(key) PROVE ExactInv'
  BY <1>2, ExactIncrementKeeps
<1>3. CASE ExactClear
  <2>1. ASSUME NEW key \in Hashes, NEW i \in Rows PROVE Counter(i, key)' >= 0
    <3>1. Slot(key, seed'[i]) \in Slots /\ rows'[i] \in Row
      BY <1>1, TinyLFUConstants DEF LFUInv, LFUTypeOK
    <3>. QED  BY <3>1, GetHalf DEF Counter
  <2>. QED  BY <1>1, <1>3, <2>1 DEF ExactClear, ExactInv, ExactIndInv
<1>4. CASE UNCHANGED exactVars
  BY <1>1, <1>4 DEF exactVars, lfuVars, ExactIndInv, ExactInv, Has, Counter
<1>. QED  BY <1>1, <1>2, <1>3, <1>4 DEF ExactNext, ExactIndInv

(* tinyLFU.Estimate never gives a key less than exact bookkeeping with the  *)
(* same doorkeeper rule, saturation and aging would, whatever collides.     *)
THEOREM SketchNeverUnderestimates == ExactSpec => []NeverUnderestimates
<1>1. ExactIndInv => NeverUnderestimates
  <2>. SUFFICES ASSUME ExactIndInv, NEW key \in Hashes
                PROVE  Estimate(key) >= ExactEstimate(key)
    BY DEF NeverUnderestimates
  <2>1. 1 \in Rows
    BY DEF Rows, cmDepth
  <2>2. /\ Counter(1, key) \in 0..15
        /\ Estimate(key) = Counter(1, key) + (IF Has(key) THEN 1 ELSE 0)
    BY <2>1, EstimateIsCounter DEF ExactIndInv
  <2>3. /\ exactFreq[key] \in 0..15 /\ exactFreq[key] <= Counter(1, key)
        /\ key \in exactDoor => Has(key)
    BY <2>1 DEF ExactIndInv, ExactInv
  <2>. QED  BY <2>2, <2>3 DEF ExactEstimate
<1>. QED  BY <1>1, ExactInitially, ExactStep, PTL DEF ExactSpec

-----------------------------------------------------------------------------
(* Aging bounds what a row remembers.                                       *)

(* All counters of row r together                                           *)
Total(r) == SumFunctionOnSet(CountersOf(r), Slots)

\* The counters of a row are numbers up to 15.
LEMMA CountersTyped ==
  ASSUME NEW r \in Row
  PROVE  /\ IsFiniteSet(Slots)
         /\ \A n \in Slots : CountersOf(r)[n] = get(r, n) /\ get(r, n) \in 0..15
         /\ \A n \in Slots : CountersOf(r)[n] \in Int
         /\ Total(r) \in Int
<1>1. Slots = 0..Width - 1 /\ Width - 1 \in Int
  BY TinyLFUConstants DEF Slots
<1>2. IsFiniteSet(Slots)
  BY <1>1, FS_Interval
<1>3. \A n \in Slots : CountersOf(r)[n] = get(r, n) /\ get(r, n) \in 0..15
  BY GetHalf DEF CountersOf
<1>. QED  BY <1>2, <1>3, SumType DEF Total

(* cmRow.increment adds at most one to the total.                           *)
LEMMA IncrementTotal ==
  ASSUME NEW r \in Row, NEW n \in Slots
  PROVE  increment(r, n) \in Row /\ Total(increment(r, n)) <= Total(r) + 1
<1>. DEFINE q == increment(r, n)
<1>1. q \in Row
  BY IncrementRow
<1>2. \A m \in Slots \ {n} : CountersOf(q)[m] = CountersOf(r)[m]
  BY <1>1, IncrementRow, CountersTyped
<1>3. CountersOf(q)[n] - CountersOf(r)[n] <= 1
  <2>1. get(q, n) = Least(get(r, n) + 1, 15) /\ get(r, n) \in 0..15
    BY IncrementRow, CountersTyped
  <2>2. CountersOf(q)[n] = get(q, n) /\ CountersOf(r)[n] = get(r, n)
    BY <1>1, CountersTyped
  <2>. QED  BY <2>1, <2>2 DEF Least
<1>. HIDE DEF q
<1>4. Total(q) = Total(r) + (CountersOf(q)[n] - CountersOf(r)[n])
  <2>1. /\ IsFiniteSet(Slots)
        /\ \A m \in Slots : CountersOf(r)[m] \in Int /\ CountersOf(q)[m] \in Int
    BY <1>1, CountersTyped
  <2>. QED  BY <1>2, <2>1, SumChange DEF Total
<1>5. Total(q) \in Int /\ Total(r) \in Int
      /\ CountersOf(q)[n] \in Int /\ CountersOf(r)[n] \in Int
  BY <1>1, CountersTyped
<1>6. Total(q) <= Total(r) + 1
  BY <1>3, <1>4, <1>5
<1>. QED  BY <1>1, <1>6 DEF q

(* cmRow.reset halves the total, at least.                                  *)
LEMMA ResetTotal ==
  ASSUME NEW r \in Row
  PROVE  2 * Total(reset(r)) <= Total(r)
<1>. DEFINE q == reset(r)
<1>1. q \in Row
  BY ResetRow
<1>2. ASSUME NEW n \in Slots PROVE 2 * CountersOf(q)[n] <= CountersOf(r)[n]
  <2>1. CountersOf(q)[n] = get(r, n) \div 2 /\ CountersOf(r)[n] = get(r, n)
    BY <1>1, ResetRow, CountersTyped
  <2>2. get(r, n) \in 0..15
    BY CountersTyped
  <2>. QED  BY <2>1, <2>2
<1>. HIDE DEF q
<1>3. \A n \in Slots : /\ CountersOf(q)[n] \in Int /\ CountersOf(r)[n] \in Int
                       /\ 2 * CountersOf(q)[n] <= CountersOf(r)[n]
  BY <1>1, <1>2, CountersTyped
<1>4. IsFiniteSet(Slots) /\ 2 \in Nat
  BY CountersTyped
<1>5. 2 * Total(q) <= Total(r)
  BY <1>3, <1>4, SumLeq DEF Total
<1>. QED  BY <1>5 DEF q

(* A row whose counters are all zero                                        *)
LEMMA ZeroTotal ==
  ASSUME NEW r \in Row, \A n \in Slots : get(r, n) = 0
  PROVE  Total(r) <= 0
<1>1. \A n \in Slots : CountersOf(r)[n] \in Int /\ 2 * CountersOf(r)[n] <= CountersOf(r)[n]
  BY CountersTyped
<1>2. IsFiniteSet(Slots) /\ Total(r) \in Int /\ 2 \in Nat
  BY CountersTyped
<1>3. 2 * Total(r) <= Total(r)
  BY <1>1, <1>2, SumLeq DEF Total
<1>. QED  BY <1>2, <1>3

(* A period's increments and those of the current one bound each row.       *)
LEMMA AgingBoundStep ==
  ASSUME LFUTypeOK, AgingBound, [LFUNext]_lfuVars
  PROVE  AgingBound'
<1>. USE DEF LFUTypeOK
<1>0. ASSUME NEW i \in Rows
      PROVE  /\ rows[i] \in Row /\ Total(rows[i]) \in Int
             /\ Total(rows[i]) <= NumCounters + incrs
             /\ NumCounters \in Nat /\ incrs \in Nat /\ incrs < NumCounters
  BY CountersTyped, TinyLFUConstants DEF AgingBound, Total
<1>1. ASSUME NEW key \in Hashes, Increment(key), NEW i \in Rows
      PROVE  Total(rows'[i]) <= NumCounters + incrs'
  <2>. DEFINE rs == IF Has(key) THEN Counted(key) ELSE rows
  <2>1. rs[i] \in Row /\ Total(rs[i]) <= Total(rows[i]) + 1
    <3>1. CASE Has(key)
      <4>1. rs[i] = increment(rows[i], Slot(key, seed[i]))
        BY <3>1 DEF Counted
      <4>2. Slot(key, seed[i]) \in Slots
        BY TinyLFUConstants
      <4>. QED  BY <1>0, <4>1, <4>2, IncrementTotal
    <3>2. CASE ~Has(key)
      BY <1>0, <3>2
    <3>. QED  BY <3>1, <3>2
  <2>. HIDE DEF rs
  <2>2. Total(rs[i]) \in Int
    BY <2>1, CountersTyped
  <2>3. CASE AgingDue
    <3>1. rows'[i] = reset(rs[i]) /\ incrs' = 0
      BY <1>1, <2>3 DEF Increment, Aged, rs
    <3>2. 2 * Total(rows'[i]) <= Total(rs[i]) /\ Total(rows'[i]) \in Int
      BY <2>1, <3>1, ResetTotal, ResetRow, CountersTyped
    <3>. QED  BY <1>0, <2>1, <2>2, <3>1, <3>2
  <2>4. CASE ~AgingDue
    <3>1. rows'[i] = rs[i] /\ incrs' = incrs + 1
      BY <1>1, <2>4 DEF Increment, rs
    <3>. QED  BY <1>0, <2>1, <2>2, <3>1
  <2>. QED  BY <2>3, <2>4
<1>2. ASSUME Clear, NEW i \in Rows
      PROVE  Total(rows'[i]) <= NumCounters + incrs'
  <2>1. rows'[i] = clear(rows[i]) /\ incrs' = 0
    BY <1>2 DEF Clear
  <2>2. rows'[i] \in Row /\ Total(rows'[i]) <= 0
    BY <1>0, <2>1, ClearedRow, ZeroTotal
  <2>. QED  BY <1>0, <2>1, <2>2, CountersTyped
<1>3. CASE UNCHANGED lfuVars
  BY <1>3 DEF lfuVars, AgingBound
<1>. QED  BY <1>1, <1>2, <1>3 DEF LFUNext, AgingBound, Total

(* However many keys are counted, a row never remembers more than a period  *)
(* and the current one: what AgingDue and cmRow.reset are for.              *)
THEOREM SketchForgets == LFUSpec => []AgingBound
<1>1. LFUInit => AgingBound
  <2>. SUFFICES ASSUME LFUInit, NEW i \in Rows
                PROVE  Total(rows[i]) <= NumCounters + incrs
    BY DEF AgingBound, Total
  <2>1. rows[i] \in Row
    BY LFUInitially DEF LFUInv, LFUTypeOK
  <2>2. \A n \in Slots : get(rows[i], n) = 0
    <3>1. ASSUME NEW n \in Slots PROVE get(rows[i], n) = 0
      <4>1. rows[i][n \div 2] = 0
        BY SlotByte DEF LFUInit
      <4>. QED  BY <2>1, <4>1, GetHalf
    <3>. QED  BY <3>1
  <2>3. Total(rows[i]) <= 0 /\ Total(rows[i]) \in Int
    BY <2>1, <2>2, ZeroTotal, CountersTyped
  <2>. QED  BY <2>3, TinyLFUConstants DEF LFUInit
<1>2. LFUTypeOK /\ AgingBound /\ [LFUNext]_lfuVars => AgingBound'
  BY AgingBoundStep
<1>3. LFUSpec => []LFUTypeOK
  BY SketchRowsAgree, PTL
<1>. QED  BY <1>1, <1>2, <1>3, PTL DEF LFUSpec
=============================================================================
