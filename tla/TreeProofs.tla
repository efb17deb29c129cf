----------------------------- MODULE TreeProofs -----------------------------
(***************************************************************************)
(* Theorems about Tree, for all keys, values, page sizes and file sizes.   *)
(*                                                                         *)
(* Everything is said of a table M, a function from keys to values:  the   *)
(* tree holds M if its pages form a search tree whose leaves are the pairs *)
(* of M, and the other pages are the free list.  Each operation takes a    *)
(* tree that holds a table to one that holds the table it should.          *)
(***************************************************************************)
EXTENDS Tree, SequenceTheorems, SumTheorems

\* Induction up to n, as the recursive functions of Tree need it
LEMMA UpTo ==
    ASSUME NEW n \in Nat, NEW S, 0 \in S, \A k \in 1..n : k - 1 \in S => k \in S
    PROVE  \A k \in 0..n : k \in S
<1>. DEFINE Bad == {k \in 0..n : k \notin S}
<1>. SUFFICES ASSUME Bad # {} PROVE FALSE
  OBVIOUS
<1>1. PICK k \in Bad : \A l \in Bad : k <= l
  <2>1. Bad \subseteq Nat
    OBVIOUS
  <2>. HIDE DEF Bad
  <2>. QED  BY <2>1, LeastNat
<1>2. k \in 1..n /\ k - 1 \in 0..n /\ k - 1 \notin S /\ ~(k <= k - 1)
  OBVIOUS
<1>. QED  BY <1>1, <1>2

-----------------------------------------------------------------------------
(* Pairs of a page *)

Pairs == [key : Nat, val : Nat]
KVs == Seq(Pairs)
Page == [id : Nat, leaf : BOOLEAN, kv : KVs]

\* The keys are in order.
Up(kv) == \A i, j \in 1..Len(kv) : i < j => kv[i].key < kv[j].key

\* The pairs of a page, by number
LEMMA KVType ==
    ASSUME NEW kv \in KVs
    PROVE  /\ Len(kv) \in Nat
           /\ \A i \in 1..Len(kv) : kv[i] \in Pairs /\ kv[i].key \in Nat /\ kv[i].val \in Nat
           /\ DOMAIN kv = 1..Len(kv)
<1>1. Len(kv) \in Nat /\ \A i \in 1..Len(kv) : kv[i] \in Pairs
  BY DEF KVs
<1>2. \A e \in Pairs : e.key \in Nat /\ e.val \in Nat
  BY DEF Pairs
<1>3. DOMAIN kv = 1..Len(kv)
  BY DEF KVs
<1>. QED  BY <1>1, <1>2, <1>3

\* The parts of a pair
LEMMA PairType ==
    ASSUME NEW k \in Nat, NEW v \in Nat
    PROVE  Pair(k, v) \in Pairs /\ Pair(k, v).key = k /\ Pair(k, v).val = v
BY DEF Pair, Pairs

\* s is where search finds k.
Found(kv, k, s) ==
    /\ s \in 1..(Len(kv) + 1)
    /\ \A i \in 1..Len(kv) : i < s => kv[i].key < k
    /\ s <= Len(kv) => k <= kv[s].key

\* search returns the first pair whose key is not less.
LEMMA SearchFinds ==
    ASSUME NEW n, n.kv \in KVs, NEW k \in Nat
    PROVE  Found(n.kv, k, search(n, k))
<1>. DEFINE kv == n.kv
            found == {i \in 1..Len(kv) : kv[i].key >= k}
<1>1. Len(kv) \in Nat /\ \A i \in 1..Len(kv) : kv[i].key \in Nat
  BY KVType
<1>2. CASE found = {}
  <2>1. search(n, k) = Len(kv) + 1
    BY <1>2 DEF search
  <2>2. \A i \in 1..Len(kv) : kv[i].key < k
    BY <1>1, <1>2
  <2>. QED  BY <1>1, <2>1, <2>2 DEF Found
<1>3. CASE found # {}
  <2>1. search(n, k) = Min(found)
    BY <1>3 DEF search
  <2>2. found \subseteq Nat
    OBVIOUS
  <2>3. Min(found) \in found /\ \A y \in found : Min(found) <= y
    <3>1. \E m \in found : \A y \in found : m <= y
      <4>. HIDE DEF found
      <4>. QED  BY <1>3, <2>2, LeastNat
    <3>. HIDE DEF found
    <3>. QED  BY <3>1 DEF Min
  <2>4. \A i \in 1..Len(kv) : i < Min(found) => kv[i].key < k
    <3>. SUFFICES ASSUME NEW i \in 1..Len(kv), i < Min(found)  PROVE kv[i].key < k
      OBVIOUS
    <3>1. i \notin found
      <4>1. Min(found) \in Nat /\ i \in Nat
        BY <1>1, <2>3
      <4>. HIDE DEF found
      <4>. QED  BY <2>3, <4>1
    <3>. QED  BY <1>1, <3>1
  <2>5. Min(found) \in 1..Len(kv) /\ kv[Min(found)].key >= k
    BY <2>3
  <2>. HIDE DEF found
  <2>. QED  BY <1>1, <2>1, <2>4, <2>5 DEF Found
<1>. QED  BY <1>2, <1>3

\* There is one place.
LEMMA FoundUnique ==
    ASSUME NEW kv \in KVs, Up(kv), NEW k \in Nat, NEW s, Found(kv, k, s), NEW i \in 1..Len(kv),
           k <= kv[i].key, i > 1 => kv[i - 1].key < k
    PROVE  s = i
<1>1. Len(kv) \in Nat /\ \A j \in 1..Len(kv) : kv[j].key \in Nat
  BY KVType
<1>2. s \in 1..(Len(kv) + 1) /\ (\A j \in 1..Len(kv) : j < s => kv[j].key < k) /\ (s <= Len(kv) => k <= kv[s].key)
  BY DEF Found
<1>3. ~(i < s)
  BY <1>1, <1>2
<1>4. CASE s < i
  <2>1. s \in 1..Len(kv) /\ i - 1 \in 1..Len(kv) /\ s <= i - 1 /\ i > 1
    BY <1>1, <1>2, <1>4
  <2>2. kv[s].key <= kv[i - 1].key
    <3>1. CASE s = i - 1
      BY <1>1, <2>1, <3>1
    <3>2. CASE s < i - 1
      BY <1>1, <2>1, <3>2 DEF Up
    <3>. QED  BY <1>1, <2>1, <3>1, <3>2
  <2>3. kv[s].key \in Nat /\ kv[i - 1].key \in Nat /\ k <= kv[s].key /\ kv[i - 1].key < k
    BY <1>1, <1>2, <2>1
  <2>. QED  BY <2>2, <2>3
<1>. QED  BY <1>2, <1>3, <1>4

\* nodeGet returns the value of a key, 0 if there is none.
LEMMA NodeGetIs ==
    ASSUME NEW n, n.kv \in KVs, Up(n.kv), NEW k \in Nat
    PROVE  /\ \A i \in 1..Len(n.kv) : n.kv[i].key = k => nodeGet(n, k) = n.kv[i].val
           /\ (\A i \in 1..Len(n.kv) : n.kv[i].key # k) => nodeGet(n, k) = 0
<1>. DEFINE s == search(n, k)
<1>1. Len(n.kv) \in Nat /\ \A j \in 1..Len(n.kv) : n.kv[j].key \in Nat
  BY KVType
<1>2. Found(n.kv, k, s)
  BY SearchFinds
<1>3. ASSUME NEW i \in 1..Len(n.kv), n.kv[i].key = k  PROVE nodeGet(n, k) = n.kv[i].val
  <2>1. i > 1 => n.kv[i - 1].key < k
    BY <1>1, <1>3 DEF Up
  <2>2. s = i
    <3>. HIDE DEF s
    <3>. QED  BY <1>1, <1>2, <1>3, <2>1, FoundUnique
  <2>3. Has(n, k)
    BY <1>1, <1>3, <2>2 DEF Has
  <2>. QED  BY <2>2, <2>3 DEF nodeGet
<1>4. ASSUME \A i \in 1..Len(n.kv) : n.kv[i].key # k  PROVE nodeGet(n, k) = 0
  <2>1. ~Has(n, k)
    BY <1>1, <1>2, <1>4 DEF Has, Found
  <2>. QED  BY <2>1 DEF nodeGet
<1>. QED  BY <1>3, <1>4

\* e is put into kv at place s.
Inserted(kv, s, e, r) ==
    /\ r \in KVs /\ Len(r) = Len(kv) + 1
    /\ \A j \in 1..(Len(kv) + 1) : r[j] = IF j < s THEN kv[j] ELSE IF j = s THEN e ELSE kv[j - 1]

\* The value of the pair at place s changes.
Replaced(kv, s, e, r) ==
    /\ r \in KVs /\ Len(r) = Len(kv)
    /\ \A j \in 1..Len(kv) : r[j] = IF j = s THEN e ELSE kv[j]

\* InsertAt moves the pairs from s on by one.
LEMMA InsertAtIs ==
    ASSUME NEW kv \in KVs, NEW s \in 1..(Len(kv) + 1), NEW e \in Pairs
    PROVE  Inserted(kv, s, e, InsertAt(kv, s, e))
<1>. DEFINE a == SubSeq(kv, 1, s - 1)
            b == SubSeq(kv, s, Len(kv))
            r == (a \o <<e>>) \o b
<1>0. kv \in Seq(Pairs) /\ Len(kv) \in Nat /\ s - 1 \in 0..Len(kv)
  BY KVType DEF KVs
<1>1. /\ a \in Seq(Pairs) /\ Len(a) = s - 1 /\ \A j \in 1..(s - 1) : a[j] = kv[j]
  BY <1>0
<1>2. /\ b \in Seq(Pairs) /\ Len(b) = Len(kv) + 1 - s
      /\ \A j \in 1..(Len(kv) + 1 - s) : b[j] = kv[s + j - 1]
  BY <1>0
<1>3. <<e>> \in Seq(Pairs) /\ Len(<<e>>) = 1 /\ <<e>>[1] = e
  OBVIOUS
<1>. HIDE DEF a, b
<1>. DEFINE c == a \o <<e>>
<1>4. /\ c \in Seq(Pairs) /\ Len(c) = s
      /\ \A j \in 1..s : c[j] = IF j < s THEN kv[j] ELSE e
  BY <1>0, <1>1, <1>3
<1>5. /\ r \in Seq(Pairs) /\ Len(r) = Len(kv) + 1
      /\ \A j \in 1..(Len(kv) + 1) : r[j] = IF j <= s THEN c[j] ELSE b[j - s]
  <2>. HIDE DEF c
  <2>1. Len(c) + Len(b) = Len(kv) + 1
    BY <1>0, <1>2, <1>4
  <2>2. c \o b \in Seq(Pairs) /\ Len(c \o b) = Len(c) + Len(b)
        /\ \A j \in 1..(Len(c) + Len(b)) : (c \o b)[j] = IF j <= Len(c) THEN c[j] ELSE b[j - Len(c)]
    BY <1>2, <1>4
  <2>3. r = c \o b
    BY DEF c
  <2>. HIDE DEF r
  <2>. QED  BY <1>4, <2>1, <2>2, <2>3
<1>7. InsertAt(kv, s, e) = r
  BY DEF InsertAt, a, b
<1>. HIDE DEF c, r
<1>6. ASSUME NEW j \in 1..(Len(kv) + 1)
      PROVE  r[j] = IF j < s THEN kv[j] ELSE IF j = s THEN e ELSE kv[j - 1]
  <2>1. CASE j <= s
    BY <1>0, <1>4, <1>5, <2>1
  <2>2. CASE j > s
    <3>1. j - s \in 1..(Len(kv) + 1 - s) /\ s + (j - s) - 1 = j - 1
      BY <1>0, <2>2
    <3>2. r[j] = b[j - s] /\ b[j - s] = kv[s + (j - s) - 1] /\ ~(j < s) /\ j # s
      BY <1>0, <1>2, <1>5, <2>2, <3>1
    <3>. QED  BY <3>1, <3>2
  <2>3. j \in Int /\ s \in Int
    BY <1>0
  <2>. QED  BY <2>1, <2>2, <2>3
<1>. QED  BY <1>5, <1>6, <1>7 DEF Inserted, KVs

\* ReplaceAt changes pair s only.
LEMMA ReplaceAtIs ==
    ASSUME NEW kv \in KVs, NEW s \in 1..Len(kv), NEW e \in Pairs
    PROVE  Replaced(kv, s, e, ReplaceAt(kv, s, e))
BY KVType DEF Replaced, ReplaceAt, KVs

\* A pair that goes where search finds its key leaves the keys in order.
LEMMA InsertedUp ==
    ASSUME NEW kv \in KVs, Up(kv), NEW s, NEW e \in Pairs, Found(kv, e.key, s),
           s <= Len(kv) => kv[s].key # e.key, NEW r, Inserted(kv, s, e, r)
    PROVE  Up(r)
<1>1. Len(kv) \in Nat /\ \A j \in 1..Len(kv) : kv[j].key \in Nat
  BY KVType
<1>2. /\ s \in 1..(Len(kv) + 1) /\ e.key \in Nat /\ s \in Nat
      /\ \A i \in 1..Len(kv) : i < s => kv[i].key < e.key
      /\ s <= Len(kv) => e.key < kv[s].key
  BY <1>1 DEF Found, Pairs
<1>3. \A i \in 1..Len(kv) : s <= i => e.key < kv[i].key
  <2>. SUFFICES ASSUME NEW i \in 1..Len(kv), s <= i  PROVE e.key < kv[i].key
    OBVIOUS
  <2>1. s \in 1..Len(kv)
    BY <1>1, <1>2
  <2>2. CASE s = i
    BY <1>2, <2>1, <2>2
  <2>3. CASE s < i
    <3>1. kv[s].key < kv[i].key /\ e.key < kv[s].key /\ kv[s].key \in Nat /\ kv[i].key \in Nat
      BY <1>1, <1>2, <2>1, <2>3 DEF Up
    <3>. QED  BY <1>2, <3>1
  <2>. QED  BY <1>1, <1>2, <2>2, <2>3
<1>. SUFFICES ASSUME NEW i \in 1..Len(r), NEW j \in 1..Len(r), i < j  PROVE r[i].key < r[j].key
  BY DEF Up
<1>4. /\ i \in 1..(Len(kv) + 1) /\ j \in 1..(Len(kv) + 1) /\ i \in Nat /\ j \in Nat
      /\ r[i] = IF i < s THEN kv[i] ELSE IF i = s THEN e ELSE kv[i - 1]
      /\ r[j] = IF j < s THEN kv[j] ELSE IF j = s THEN e ELSE kv[j - 1]
  BY <1>1 DEF Inserted
<1>5. CASE j < s
  <2>1. i \in 1..Len(kv) /\ j \in 1..Len(kv) /\ r[i] = kv[i] /\ r[j] = kv[j]
    BY <1>1, <1>2, <1>4, <1>5
  <2>. QED  BY <2>1 DEF Up
<1>6. CASE j = s
  <2>1. i \in 1..Len(kv) /\ r[i] = kv[i] /\ r[j] = e
    BY <1>1, <1>2, <1>4, <1>6
  <2>. QED  BY <1>2, <1>6, <2>1
<1>7. CASE j > s /\ i < s
  <2>1. i \in 1..Len(kv) /\ j - 1 \in 1..Len(kv) /\ i < j - 1 /\ r[i] = kv[i] /\ r[j] = kv[j - 1]
    BY <1>1, <1>2, <1>4, <1>7
  <2>. QED  BY <2>1 DEF Up
<1>8. CASE j > s /\ i = s
  <2>1. j - 1 \in 1..Len(kv) /\ s <= j - 1 /\ r[i] = e /\ r[j] = kv[j - 1]
    BY <1>1, <1>2, <1>4, <1>8
  <2>. QED  BY <1>3, <2>1
<1>9. CASE j > s /\ i > s
  <2>1. i - 1 \in 1..Len(kv) /\ j - 1 \in 1..Len(kv) /\ i - 1 < j - 1 /\ r[i] = kv[i - 1] /\ r[j] = kv[j - 1]
    BY <1>1, <1>2, <1>4, <1>9
  <2>. QED  BY <2>1 DEF Up
<1>. QED  BY <1>2, <1>4, <1>5, <1>6, <1>7, <1>8, <1>9

\* nodeSet replaces the pair of a key or inserts one.
NodeSets(n, k, v, s, r) ==
    /\ r \in Page /\ r.id = n.id /\ r.leaf = n.leaf /\ Up(r.kv)
    /\ Has(n, k) => s \in 1..Len(n.kv) /\ n.kv[s].key = k /\ Replaced(n.kv, s, Pair(k, v), r.kv)
    /\ ~Has(n, k) => (\A i \in 1..Len(n.kv) : n.kv[i].key # k) /\ Inserted(n.kv, s, Pair(k, v), r.kv)

\* node.set changes the value of a key that is there, and inserts one that is not.
LEMMA NodeSetIs ==
    ASSUME NEW n \in Page, Up(n.kv), NEW k \in Nat, NEW v \in Nat
    PROVE  NodeSets(n, k, v, search(n, k), nodeSet(n, k, v))
<1>. DEFINE s == search(n, k)
            r == nodeSet(n, k, v)
<1>1. n.kv \in KVs /\ Len(n.kv) \in Nat /\ n.leaf \in BOOLEAN /\ n.id \in Nat
  BY KVType DEF Page
<1>2. Found(n.kv, k, s) /\ s \in 1..(Len(n.kv) + 1)
  BY <1>1, SearchFinds DEF Found
<1>3. Pair(k, v) \in Pairs /\ Pair(k, v).key = k
  BY PairType
<1>4. CASE Has(n, k)
  <2>1. s \in 1..Len(n.kv) /\ n.kv[s].key = k
    BY <1>1, <1>2, <1>4 DEF Has
  <2>2. Replaced(n.kv, s, Pair(k, v), ReplaceAt(n.kv, s, Pair(k, v)))
    <3>. HIDE DEF s
    <3>. QED  BY <1>1, <1>3, <2>1, ReplaceAtIs
  <2>3. r = [n EXCEPT !.kv = ReplaceAt(n.kv, s, Pair(k, v))]
    BY <1>4 DEF nodeSet
  <2>4. r \in Page /\ r.id = n.id /\ r.leaf = n.leaf /\ r.kv = ReplaceAt(n.kv, s, Pair(k, v))
    <3>1. ReplaceAt(n.kv, s, Pair(k, v)) \in KVs
      BY <2>2 DEF Replaced
    <3>. HIDE DEF s, r
    <3>. QED  BY <1>1, <2>3, <3>1 DEF Page
  <2>5. Up(r.kv)
    <3>1. \A j \in 1..Len(n.kv) : r.kv[j].key = n.kv[j].key
      BY <1>3, <2>1, <2>2, <2>4 DEF Replaced
    <3>2. Len(r.kv) = Len(n.kv)
      BY <2>2, <2>4 DEF Replaced
    <3>. HIDE DEF r
    <3>. QED  BY <3>1, <3>2 DEF Up
  <2>. QED  BY <1>4, <2>1, <2>2, <2>4, <2>5 DEF NodeSets
<1>5. CASE ~Has(n, k)
  <2>1. s <= Len(n.kv) => n.kv[s].key # k
    BY <1>5 DEF Has
  <2>2. Inserted(n.kv, s, Pair(k, v), InsertAt(n.kv, s, Pair(k, v)))
    <3>. HIDE DEF s
    <3>. QED  BY <1>1, <1>2, <1>3, InsertAtIs
  <2>3. r = [n EXCEPT !.kv = InsertAt(n.kv, s, Pair(k, v))]
    BY <1>5 DEF nodeSet
  <2>4. r \in Page /\ r.id = n.id /\ r.leaf = n.leaf /\ r.kv = InsertAt(n.kv, s, Pair(k, v))
    <3>1. InsertAt(n.kv, s, Pair(k, v)) \in KVs
      BY <2>2 DEF Inserted
    <3>. HIDE DEF s, r
    <3>. QED  BY <1>1, <2>3, <3>1 DEF Page
  <2>5. Up(r.kv)
    <3>. HIDE DEF s, r
    <3>. QED  BY <1>1, <1>2, <1>3, <2>1, <2>2, <2>4, InsertedUp
  <2>6. \A i \in 1..Len(n.kv) : n.kv[i].key # k
    <3>. SUFFICES ASSUME NEW i \in 1..Len(n.kv), n.kv[i].key = k  PROVE FALSE
      OBVIOUS
    <3>1. i > 1 => n.kv[i - 1].key < k
      BY <1>1 DEF Up
    <3>2. s = i
      <4>. HIDE DEF s
      <4>. QED  BY <1>1, <1>2, <3>1, FoundUnique
    <3>. QED  BY <1>1, <2>1, <3>2
  <2>. QED  BY <1>5, <2>2, <2>4, <2>5, <2>6 DEF NodeSets
<1>. QED  BY <1>4, <1>5

\* r has the pairs of kv whose places are in P, in their order; e says where they were.
Kept(kv, P, r, e) ==
    /\ r \in KVs /\ e \in [1..Len(r) -> P]
    /\ \A i, j \in 1..Len(r) : i < j => e[i] < e[j]
    /\ \A j \in 1..Len(r) : r[j] = kv[e[j]]
    /\ \A i \in P : \E j \in 1..Len(r) : e[j] = i

\* Keeping one more pair, behind those kept so far
LEMMA KeptAppend ==
    ASSUME NEW kv \in KVs, NEW i \in 1..Len(kv), NEW P \in SUBSET (1..(i - 1)), NEW r, NEW e, Kept(kv, P, r, e)
    PROVE  \E f : Kept(kv, P \cup {i}, Append(r, kv[i]), f)
<1>. DEFINE R == Append(r, kv[i])
            f == [j \in 1..Len(R) |-> IF j <= Len(r) THEN e[j] ELSE i]
            Q == P \cup {i}
<1>1. r \in KVs /\ Len(r) \in Nat /\ kv[i] \in Pairs /\ i \in Nat /\ Len(kv) \in Nat
  BY KVType DEF Kept
<1>2. /\ e \in [1..Len(r) -> P]
      /\ \A a, b \in 1..Len(r) : a < b => e[a] < e[b]
      /\ \A j \in 1..Len(r) : r[j] = kv[e[j]]
      /\ \A a \in P : \E j \in 1..Len(r) : e[j] = a
  BY DEF Kept
<1>3. R \in KVs /\ Len(R) = Len(r) + 1 /\ R[Len(r) + 1] = kv[i] /\ \A j \in 1..Len(r) : R[j] = r[j]
  BY <1>1 DEF KVs
<1>. HIDE DEF R
<1>4. /\ f[Len(r) + 1] = i /\ \A j \in 1..Len(r) : f[j] = e[j] /\ e[j] \in P /\ e[j] < i
  <2>1. f[Len(r) + 1] = i
    BY <1>1, <1>3
  <2>2. ASSUME NEW j \in 1..Len(r)  PROVE f[j] = e[j]
    BY <1>1, <1>3
  <2>3. ASSUME NEW j \in 1..Len(r)  PROVE e[j] \in P /\ e[j] < i
    <3>1. e[j] \in P
      BY <1>2
    <3>2. e[j] \in 1..(i - 1)
      BY <3>1
    <3>. QED  BY <1>1, <3>1, <3>2
  <2>. QED  BY <2>1, <2>2, <2>3
<1>5. \A j \in 1..Len(R) : j \in 1..Len(r) \/ j = Len(r) + 1
  BY <1>1, <1>3
<1>6. f \in [1..Len(R) -> Q]
  <2>1. \A j \in 1..Len(R) : f[j] \in Q
    <3>. HIDE DEF f
    <3>. QED  BY <1>4, <1>5
  <2>. QED  BY <2>1
<1>. HIDE DEF f
<1>7. ASSUME NEW a \in 1..Len(R), NEW b \in 1..Len(R), a < b  PROVE f[a] < f[b]
  <2>1. a \in 1..Len(r)
    BY <1>1, <1>3, <1>7
  <2>2. CASE b \in 1..Len(r)
    BY <1>2, <1>4, <1>7, <2>1, <2>2
  <2>3. CASE b = Len(r) + 1
    BY <1>4, <2>1, <2>3
  <2>. QED  BY <1>5, <2>2, <2>3
<1>8. \A j \in 1..Len(R) : R[j] = kv[f[j]]
  BY <1>2, <1>3, <1>4, <1>5
<1>9. \A a \in Q : \E j \in 1..Len(R) : f[j] = a
  <2>. SUFFICES ASSUME NEW a \in Q  PROVE \E j \in 1..Len(R) : f[j] = a
    OBVIOUS
  <2>1. CASE a = i
    <3>1. Len(r) + 1 \in 1..Len(R)
      BY <1>1, <1>3
    <3>. QED  BY <1>4, <2>1, <3>1
  <2>2. CASE a \in P
    <3>1. PICK j \in 1..Len(r) : e[j] = a
      BY <1>2, <2>2
    <3>2. j \in 1..Len(R)
      BY <1>1, <1>3
    <3>. QED  BY <1>4, <3>1, <3>2
  <2>. QED  BY <2>1, <2>2
<1>10. Kept(kv, Q, R, f)
  BY <1>3, <1>6, <1>7, <1>8, <1>9 DEF Kept
<1>. QED  BY <1>10 DEF R

\* The places of the pairs that node.compact keeps
Stay(kv, lo, m) == {i \in 1..Len(kv) : ~(kv[i].val < lo /\ kv[i].key < m)}

IsLeft(f, kv, lo, m) ==
    f = [i \in 0..Len(kv) |->
            IF i = 0 THEN <<>>
            ELSE IF kv[i].val < lo /\ kv[i].key < m THEN f[i - 1]
            ELSE Append(f[i - 1], kv[i])]

\* The recursion of nodeCompact defines a function.
LEMMA LeftExists ==
    ASSUME NEW kv \in KVs, NEW lo, NEW m
    PROVE  \E f : IsLeft(f, kv, lo, m)
<1>. DEFINE n == Len(kv)
            g == [i \in 0..n |-> [x \in KVs |-> IF i = 0 \/ (kv[i].val < lo /\ kv[i].key < m) THEN x ELSE Append(x, kv[i])]]
            a == <<>>
<1>1. n \in Nat /\ \A i \in 1..n : kv[i] \in Pairs
  BY KVType
<1>2. a \in KVs /\ 0 \in Nat
  BY DEF KVs
<1>3. g \in [0..n -> [KVs -> KVs]]
  <2>1. ASSUME NEW i \in 0..n, NEW x \in KVs
        PROVE  (IF i = 0 \/ (kv[i].val < lo /\ kv[i].key < m) THEN x ELSE Append(x, kv[i])) \in KVs
    <3>1. i # 0 => i \in 1..n
      BY <1>1
    <3>. QED  BY <1>1, <3>1 DEF KVs
  <2>. HIDE DEF n
  <2>. QED  BY <2>1
<1>4. Repeats(0, n, KVs, a, g)
  <2>. HIDE DEF n, a, g
  <2>. QED  BY <1>1, <1>2, <1>3 DEF Repeats
<1>5. PICK f \in [0..n -> KVs] : \A k \in 0..n : f[k] = IF k = 0 THEN a ELSE g[k][f[k - 1]]
  <2>. HIDE DEF n, a, g
  <2>. QED  BY <1>4, RepeatExists
<1>6. ASSUME NEW i \in 0..n
      PROVE  f[i] = IF i = 0 THEN <<>> ELSE IF kv[i].val < lo /\ kv[i].key < m THEN f[i - 1]
                    ELSE Append(f[i - 1], kv[i])
  <2>1. CASE i = 0
    BY <1>5, <2>1
  <2>2. CASE i # 0
    <3>1. i - 1 \in 0..n
      BY <1>1, <2>2
    <3>2. f[i - 1] \in KVs /\ f[i] = g[i][f[i - 1]]
      BY <1>5, <2>2, <3>1
    <3>. QED  BY <2>2, <3>2
  <2>. QED  BY <2>1, <2>2
<1>7. IsLeft(f, kv, lo, m)
  <2>. HIDE DEF g, a
  <2>. QED  BY <1>6 DEF IsLeft
<1>. QED  BY <1>7

\* nodeCompact keeps the pairs that stay, in their order.
LEMMA CompactKeeps ==
    ASSUME NEW n \in Page, NEW lo \in Nat
    PROVE  LET r == nodeCompact(n, lo)
           IN  /\ r \in Page /\ r.id = n.id /\ r.leaf = n.leaf
               /\ \E e : Kept(n.kv, Stay(n.kv, lo, maxKey(n)), r.kv, e)
<1>. DEFINE kv == n.kv
            m == maxKey(n)
            f == CHOOSE h : IsLeft(h, kv, lo, m)
            N == Len(kv)
            P(i) == {j \in 1..i : ~(kv[j].val < lo /\ kv[j].key < m)}
            S == {i \in 0..N : \E e : Kept(kv, P(i), f[i], e)}
<1>0. kv \in KVs /\ N \in Nat /\ n.leaf \in BOOLEAN /\ n.id \in Nat
  BY KVType DEF Page
<1>1. nodeCompact(n, lo) = [n EXCEPT !.kv = f[N]]
  BY DEF nodeCompact, IsLeft
<1>2. IsLeft(f, kv, lo, m)
  <2>1. \E h : IsLeft(h, kv, lo, m)
    <3>. HIDE DEF m
    <3>. QED  BY <1>0, LeftExists
  <2>. QED  BY <2>1
<1>. HIDE DEF f, m
<1>3. \A i \in 0..N : f[i] = IF i = 0 THEN <<>> ELSE IF kv[i].val < lo /\ kv[i].key < m THEN f[i - 1]
                      ELSE Append(f[i - 1], kv[i])
  BY <1>2 DEF IsLeft
<1>4. 0 \in S
  <2>1. f[0] = <<>> /\ 0 \in 0..N
    BY <1>0, <1>3
  <2>2. P(0) = {}
    OBVIOUS
  <2>3. Kept(kv, {}, <<>>, <<>>)
    BY DEF Kept, KVs
  <2>. QED  BY <2>1, <2>2, <2>3
<1>5. ASSUME NEW i \in 1..N, i - 1 \in S  PROVE i \in S
  <2>1. PICK e : Kept(kv, P(i - 1), f[i - 1], e)
    BY <1>5
  <2>2. i \in 0..N /\ i # 0 /\ i \in Nat
    BY <1>0
  <2>3. CASE kv[i].val < lo /\ kv[i].key < m
    <3>1. f[i] = f[i - 1]
      BY <1>3, <2>2, <2>3
    <3>2. P(i) = P(i - 1)
      BY <2>2, <2>3
    <3>. QED  BY <2>1, <2>2, <3>1, <3>2
  <2>4. CASE ~(kv[i].val < lo /\ kv[i].key < m)
    <3>1. f[i] = Append(f[i - 1], kv[i])
      BY <1>3, <2>2, <2>4
    <3>2. P(i) = P(i - 1) \cup {i}
      BY <2>2, <2>4
    <3>3. P(i - 1) \in SUBSET (1..(i - 1))
      OBVIOUS
    <3>4. \E g : Kept(kv, P(i - 1) \cup {i}, Append(f[i - 1], kv[i]), g)
      <4>. HIDE DEF P, kv
      <4>. QED  BY <1>0, <2>1, <3>3, KeptAppend
    <3>5. \E g : Kept(kv, P(i), f[i], g)
      <4>. HIDE DEF P
      <4>. QED  BY <3>1, <3>2, <3>4
    <3>. QED  BY <2>2, <3>5
  <2>. QED  BY <2>3, <2>4
<1>6. N \in S
  <2>1. \A k \in 0..N : k \in S
    <3>. HIDE DEF S
    <3>. QED  BY <1>0, <1>4, <1>5, UpTo
  <2>2. N \in 0..N
    BY <1>0
  <2>. HIDE DEF S
  <2>. QED  BY <2>1, <2>2
<1>7. P(N) = Stay(kv, lo, m)
  BY DEF Stay
<1>8. PICK e : Kept(kv, Stay(kv, lo, m), f[N], e)
  BY <1>6, <1>7
<1>9. f[N] \in KVs
  BY <1>8 DEF Kept
<1>10. nodeCompact(n, lo) \in Page /\ nodeCompact(n, lo).kv = f[N] /\ nodeCompact(n, lo).id = n.id
       /\ nodeCompact(n, lo).leaf = n.leaf
  <2>. HIDE DEF N
  <2>. QED  BY <1>0, <1>1, <1>9 DEF Page
<1>. QED  BY <1>8, <1>10 DEF m

-----------------------------------------------------------------------------
(* The shape of a tree *)

PageMaps == [Pids -> Page]

\* What keys map to; -1 if a key is in no leaf
Tables == [1..absoluteMax -> Vals \cup {0, -1}]

Top(kv) == kv[Len(kv)].key

\* Pairs with keys in order, above l
Ordered(kv, l) ==
    Len(kv) >= 1 /\ Up(kv) /\ l < kv[1].key /\ Top(kv) <= absoluteMax

\* The pairs are those of M from l to the greatest key.
Contents(kv, l, M) ==
    /\ \A i \in 1..Len(kv) : M[kv[i].key] = kv[i].val
    /\ \A k \in (l + 1)..Top(kv) : M[k] # -1 => \E i \in 1..Len(kv) : kv[i].key = k

\* Pages T are the tree.  Page p is lv[p] levels above the leaves, and what is below it
\* is above lo[p].  Entries of page z without a page stand for leaves that were dropped.
Entry(pg, T, lv, lo, M, z, p, i) ==
    LET kv == pg[p].kv
        c == kv[i].val
        l == Above(kv, lo[p], i)
    IN  \/ c \in T /\ lv[c] = lv[p] - 1 /\ Top(pg[c].kv) = kv[i].key /\ lo[c] = l
        \/ c = 0 /\ p = z /\ lv[p] = 1 /\ i < Len(kv) /\ \A k \in (l + 1)..kv[i].key : M[k] = -1

Node(pg, T, lv, lo, M, z, p) ==
    /\ Ordered(pg[p].kv, lo[p])
    /\ pg[p].leaf <=> lv[p] = 0
    /\ lv[p] # 0 => \A i \in 1..Len(pg[p].kv) : Entry(pg, T, lv, lo, M, z, p, i)
    /\ lv[p] = 0 => Contents(pg[p].kv, lo[p], M)

Apart(pg, T, lv, lo) ==
    \A p, q \in T : p # q /\ lv[p] = lv[q] => Top(pg[p].kv) <= lo[q] \/ Top(pg[q].kv) <= lo[p]

HasParent(pg, T, lv, p) ==
    \E q \in T : lv[q] # 0 /\ \E i \in 1..Len(pg[q].kv) : pg[q].kv[i].val = p

Rooted(pg, T, lv, lo) ==
    /\ 1 \in T /\ lo[1] = 0 /\ Top(pg[1].kv) = absoluteMax /\ lv[1] # 0
    /\ \A p \in T : lv[p] <= lv[1]

Sizes(pg, T, full) ==
    \A p \in T : Len(pg[p].kv) < maxKeys \/ (p = full /\ Len(pg[p].kv) = maxKeys)

ShapeType(pg, T, lv, lo, M) ==
    pg \in PageMaps /\ T \in SUBSET Pids /\ lv \in [T -> Nat] /\ lo \in [T -> Nat] /\ M \in Tables

Shape(pg, T, lv, lo, M, z, full) ==
    /\ ShapeType(pg, T, lv, lo, M)
    /\ \A p \in T : Node(pg, T, lv, lo, M, z, p)
    /\ Apart(pg, T, lv, lo)
    /\ \A p \in T : p # 1 => HasParent(pg, T, lv, p)
    /\ Rooted(pg, T, lv, lo)
    /\ Sizes(pg, T, full)

\* The keys of a page that is in order above l, by number
LEMMA OrderedFacts ==
    ASSUME NEW kv \in KVs, NEW l \in Nat, Ordered(kv, l)
    PROVE  /\ Len(kv) \in Nat /\ Len(kv) >= 1 /\ 1 \in 1..Len(kv) /\ Len(kv) \in 1..Len(kv)
           /\ Top(kv) \in Nat /\ Top(kv) <= absoluteMax /\ l < Top(kv) /\ Up(kv)
           /\ \A i \in 1..Len(kv) :
                 /\ kv[i] \in Pairs /\ kv[i].key \in Nat /\ kv[i].val \in Nat
                 /\ l < kv[i].key /\ kv[i].key <= Top(kv) /\ kv[i].key \in 1..absoluteMax
                 /\ Above(kv, l, i) \in Nat /\ l <= Above(kv, l, i) /\ Above(kv, l, i) < kv[i].key
<1>1. Len(kv) \in Nat /\ Len(kv) >= 1 /\ 1 \in 1..Len(kv) /\ Len(kv) \in 1..Len(kv)
  BY KVType DEF Ordered
<1>2. \A i \in 1..Len(kv) : kv[i] \in Pairs /\ kv[i].key \in Nat /\ kv[i].val \in Nat
  BY KVType
<1>3. Up(kv) /\ l < kv[1].key /\ Top(kv) <= absoluteMax /\ Top(kv) \in Nat /\ absoluteMax \in Nat
  BY <1>1, <1>2, TreeConstants DEF Ordered, Top
<1>4. ASSUME NEW i \in 1..Len(kv)
      PROVE  l < kv[i].key /\ kv[i].key <= Top(kv)
  <2>1. i = 1 \/ kv[1].key < kv[i].key
    BY <1>1, <1>3 DEF Up
  <2>2. i = Len(kv) \/ kv[i].key < kv[Len(kv)].key
    BY <1>1, <1>3 DEF Up
  <2>3. kv[i].key \in Nat /\ kv[1].key \in Nat /\ kv[Len(kv)].key \in Nat
    BY <1>1, <1>2
  <2>4. l < kv[i].key
    BY <1>3, <2>1, <2>3
  <2>5. kv[i].key <= Top(kv)
    BY <2>2, <2>3 DEF Top
  <2>. QED  BY <2>4, <2>5
<1>5. l < Top(kv)
  BY <1>1, <1>4 DEF Top
<1>6. ASSUME NEW i \in 1..Len(kv)
      PROVE  Above(kv, l, i) \in Nat /\ l <= Above(kv, l, i) /\ Above(kv, l, i) < kv[i].key
  <2>1. CASE i = 1
    BY <1>3, <2>1 DEF Above
  <2>2. CASE i # 1
    <3>1. i - 1 \in 1..Len(kv) /\ i - 1 < i
      BY <1>1, <2>2
    <3>2. kv[i - 1].key < kv[i].key /\ kv[i - 1].key \in Nat /\ l < kv[i - 1].key
      BY <1>2, <1>3, <1>4, <3>1 DEF Up
    <3>. QED  BY <2>2, <3>2 DEF Above
  <2>. QED  BY <2>1, <2>2
<1>7. \A i \in 1..Len(kv) : kv[i].key \in 1..absoluteMax
  BY <1>2, <1>3, <1>4
<1>. QED  BY <1>1, <1>2, <1>3, <1>4, <1>5, <1>6, <1>7

\* What the shape of a tree says of one page
LEMMA NodeFacts ==
    ASSUME NEW pg, NEW T, NEW lv, NEW lo, NEW M, NEW z, ShapeType(pg, T, lv, lo, M),
           NEW p \in T, Node(pg, T, lv, lo, M, z, p)
    PROVE  LET kv == pg[p].kv
           IN  /\ p \in Pids /\ pg[p] \in Page /\ kv \in KVs /\ lv[p] \in Nat /\ lo[p] \in Nat
               /\ Ordered(kv, lo[p]) /\ maxKey(pg[p]) = Top(kv)
               /\ Len(kv) \in Nat /\ Len(kv) >= 1 /\ 1 \in 1..Len(kv) /\ Len(kv) \in 1..Len(kv)
               /\ Top(kv) \in Nat /\ Top(kv) <= absoluteMax /\ lo[p] < Top(kv) /\ Up(kv)
               /\ \A i \in 1..Len(kv) :
                     /\ kv[i] \in Pairs /\ kv[i].key \in Nat /\ kv[i].val \in Nat
                     /\ lo[p] < kv[i].key /\ kv[i].key <= Top(kv) /\ kv[i].key \in 1..absoluteMax
                     /\ Above(kv, lo[p], i) \in Nat /\ lo[p] <= Above(kv, lo[p], i)
                     /\ Above(kv, lo[p], i) < kv[i].key
<1>1. p \in Pids /\ pg[p] \in Page /\ pg[p].kv \in KVs /\ lv[p] \in Nat /\ lo[p] \in Nat
  BY DEF ShapeType, PageMaps, Page
<1>2. Ordered(pg[p].kv, lo[p])
  BY DEF Node
<1>3. maxKey(pg[p]) = Top(pg[p].kv)
  <2>1. pg[p].kv # <<>>
    BY <1>2 DEF Ordered
  <2>. QED  BY <2>1 DEF maxKey, Top, Last
<1>. QED  BY <1>1, <1>2, <1>3, OrderedFacts

\* Each page of a tree is a node of its shape.
LEMMA ShapeNode ==
    ASSUME NEW pg, NEW T, NEW lv, NEW lo, NEW M, NEW z, NEW full, Shape(pg, T, lv, lo, M, z, full)
    PROVE  ShapeType(pg, T, lv, lo, M) /\ \A p \in T : Node(pg, T, lv, lo, M, z, p)
BY DEF Shape

\* A page has one place.
LEMMA OnePlace ==
    ASSUME NEW pg, NEW T, NEW lv, NEW lo, NEW M, NEW z, NEW full, Shape(pg, T, lv, lo, M, z, full),
           NEW p \in T, lv[p] # 0, NEW i \in 1..Len(pg[p].kv), NEW q \in T, lv[q] # 0, NEW j \in 1..Len(pg[q].kv),
           pg[p].kv[i].val = pg[q].kv[j].val, pg[p].kv[i].val # 0
    PROVE  p = q /\ i = j
<1>. DEFINE c == pg[p].kv[i].val
<1>1. Node(pg, T, lv, lo, M, z, p) /\ Node(pg, T, lv, lo, M, z, q) /\ ShapeType(pg, T, lv, lo, M)
  BY ShapeNode
<1>2. Entry(pg, T, lv, lo, M, z, p, i) /\ Entry(pg, T, lv, lo, M, z, q, j)
  BY <1>1 DEF Node
<1>3. /\ lv[c] = lv[p] - 1 /\ Top(pg[c].kv) = pg[p].kv[i].key
      /\ lv[c] = lv[q] - 1 /\ Top(pg[c].kv) = pg[q].kv[j].key
  BY <1>2 DEF Entry
<1>4. lv[p] \in Nat /\ lv[q] \in Nat
  BY <1>1, NodeFacts
<1>5. lv[p] = lv[q]
  BY <1>3, <1>4
<1>6. /\ lo[p] \in Nat /\ lo[q] \in Nat /\ Top(pg[p].kv) \in Nat /\ Top(pg[q].kv) \in Nat
      /\ pg[p].kv[i].key \in Nat /\ lo[p] < pg[p].kv[i].key /\ pg[p].kv[i].key <= Top(pg[p].kv)
      /\ pg[q].kv[j].key \in Nat /\ lo[q] < pg[q].kv[j].key /\ pg[q].kv[j].key <= Top(pg[q].kv)
  BY <1>1, NodeFacts
<1>7. p = q
  <2>. SUFFICES ASSUME p # q  PROVE FALSE
    OBVIOUS
  <2>1. Top(pg[p].kv) <= lo[q] \/ Top(pg[q].kv) <= lo[p]
    BY <1>5 DEF Shape, Apart
  <2>. QED  BY <1>3, <1>6, <2>1
<1>8. Up(pg[p].kv) /\ i \in Nat /\ j \in Nat /\ Len(pg[p].kv) \in Nat
  <2>1. Up(pg[p].kv) /\ Len(pg[p].kv) \in Nat /\ Len(pg[q].kv) \in Nat
    BY <1>1, NodeFacts
  <2>. QED  BY <2>1
<1>9. i = j
  <2>. SUFFICES ASSUME i # j  PROVE FALSE
    OBVIOUS
  <2>1. i < j \/ j < i
    BY <1>8
  <2>2. pg[p].kv[i].key < pg[p].kv[j].key \/ pg[p].kv[j].key < pg[p].kv[i].key
    BY <1>7, <1>8, <2>1 DEF Up
  <2>. QED  BY <1>3, <1>6, <1>7, <2>2
<1>. QED  BY <1>7, <1>9

-----------------------------------------------------------------------------
(* Get *)

IsGet(f, t, k) ==
    f = [n \in 0..MaxPages |-> [pid \in Pids |->
            IF n = 0 \/ t.page[pid].leaf THEN nodeGet(t.page[pid], k)
            ELSE IF search(t.page[pid], k) > Len(t.page[pid].kv) THEN 0
            ELSE f[n - 1][Child(t, pid, k)]]]

\* The recursion of get defines a function.
LEMMA GetExists ==
    ASSUME NEW t, NEW k
    PROVE  \E f : IsGet(f, t, k)
<1>. DEFINE N == MaxPages
            B(n, h) == [pid \in Pids |->
                           IF n = 0 \/ t.page[pid].leaf THEN nodeGet(t.page[pid], k)
                           ELSE IF search(t.page[pid], k) > Len(t.page[pid].kv) THEN 0
                           ELSE h[Child(t, pid, k)]]
            On(f, m) == f[0] = B(0, 0) /\ \A n \in 1..m : f[n] = B(n, f[n - 1])
            S == {m \in 0..N : \E f : On(f, m)}
<1>0. N \in Nat
  BY TreeConstants
<1>1. \A h : B(0, h) = B(0, 0)
  OBVIOUS
<1>. HIDE DEF B, N
<1>2. 0 \in S
  <2>1. On([n \in 0..0 |-> B(0, 0)], 0)
    OBVIOUS
  <2>2. 0 \in 0..N
    BY <1>0
  <2>. QED  BY <2>1, <2>2
<1>3. ASSUME NEW m \in 1..N, m - 1 \in S  PROVE m \in S
  <2>1. PICK f : On(f, m - 1)
    BY <1>3
  <2>. DEFINE g == [n \in 0..m |-> IF n = m THEN B(m, f[m - 1]) ELSE f[n]]
  <2>2. g[m] = B(m, f[m - 1]) /\ \A n \in 0..(m - 1) : g[n] = f[n]
    BY <1>0
  <2>3. f[0] = B(0, 0) /\ \A n \in 1..(m - 1) : f[n] = B(n, f[n - 1])
    BY <2>1
  <2>4. g[0] = B(0, 0)
    <3>1. 0 \in 0..(m - 1)
      BY <1>0
    <3>. QED  BY <2>2, <2>3, <3>1
  <2>5. ASSUME NEW n \in 1..m  PROVE g[n] = B(n, g[n - 1])
    <3>1. n - 1 \in 0..(m - 1)
      BY <1>0
    <3>2. g[n - 1] = f[n - 1]
      BY <2>2, <3>1
    <3>3. CASE n = m
      BY <2>2, <3>2, <3>3
    <3>4. CASE n # m
      <4>1. n \in 0..(m - 1) /\ n \in 1..(m - 1)
        BY <1>0, <3>4
      <4>2. g[n] = f[n] /\ f[n] = B(n, f[n - 1])
        BY <2>2, <2>3, <4>1
      <4>. QED  BY <3>2, <4>2
    <3>. QED  BY <3>3, <3>4
  <2>6. m \in 0..N
    BY <1>0
  <2>. HIDE DEF g
  <2>. QED  BY <2>4, <2>5, <2>6
<1>4. N \in S
  <2>1. \A j \in 0..N : j \in S
    <3>. HIDE DEF S
    <3>. QED  BY <1>0, <1>2, <1>3, UpTo
  <2>2. N \in 0..N
    BY <1>0
  <2>. HIDE DEF S
  <2>. QED  BY <2>1, <2>2
<1>5. PICK f : f[0] = B(0, 0) /\ \A n \in 1..N : f[n] = B(n, f[n - 1])
  BY <1>4
<1>. DEFINE g == [n \in 0..N |-> f[n]]
<1>6. ASSUME NEW n \in 0..N  PROVE g[n] = B(n, g[n - 1])
  <2>1. CASE n = 0
    <3>1. g[0] = f[0]
      BY <1>0
    <3>. QED  BY <1>1, <1>5, <2>1, <3>1
  <2>2. CASE n # 0
    <3>1. n - 1 \in 0..N /\ n \in 1..N
      BY <1>0, <2>2
    <3>2. g[n - 1] = f[n - 1] /\ g[n] = f[n]
      BY <3>1
    <3>. QED  BY <1>5, <3>1, <3>2
  <2>. QED  BY <2>1, <2>2
<1>7. g = [n \in 0..N |-> B(n, g[n - 1])]
  <2>1. g = [n \in 0..N |-> g[n]]
    OBVIOUS
  <2>. HIDE DEF g
  <2>. QED  BY <1>6, <2>1
<1>8. IsGet(g, t, k)
  <2>. HIDE DEF g
  <2>. QED  BY <1>7 DEF IsGet, B, N
<1>. QED  BY <1>8

\* In a page that covers a key, search finds a pair, and the key lies between the one
\* before and its own.
LEMMA SearchIn ==
    ASSUME NEW n \in Page, NEW l \in Nat, Ordered(n.kv, l), NEW k \in Nat, l < k, k <= Top(n.kv)
    PROVE  /\ search(n, k) \in 1..Len(n.kv)
           /\ Above(n.kv, l, search(n, k)) < k /\ k <= n.kv[search(n, k)].key
<1>. DEFINE s == search(n, k)
            kv == n.kv
<1>0. kv \in KVs
  BY DEF Page
<1>1. Found(kv, k, s)
  BY <1>0, SearchFinds
<1>. HIDE DEF s
<1>2. /\ Len(kv) \in Nat /\ Len(kv) \in 1..Len(kv) /\ Top(kv) \in Nat
  BY <1>0, OrderedFacts
<1>3. s \in 1..(Len(kv) + 1) /\ (\A i \in 1..Len(kv) : i < s => kv[i].key < k) /\ (s <= Len(kv) => k <= kv[s].key)
  BY <1>1 DEF Found
<1>4. s \in 1..Len(kv)
  <2>. SUFFICES ASSUME Len(kv) < s  PROVE FALSE
    BY <1>2, <1>3
  <2>1. Top(kv) < k
    BY <1>2, <1>3 DEF Top
  <2>. QED  BY <1>2, <2>1
<1>5. k <= kv[s].key
  BY <1>2, <1>3, <1>4
<1>6. Above(kv, l, s) < k
  <2>1. CASE s = 1
    BY <2>1 DEF Above
  <2>2. CASE s # 1
    <3>1. s - 1 \in 1..Len(kv) /\ s - 1 < s
      BY <1>2, <1>4, <2>2
    <3>. QED  BY <1>3, <2>2, <3>1 DEF Above
  <2>. QED  BY <2>1, <2>2
<1>. QED  BY <1>4, <1>5, <1>6 DEF s

\* set and get of k go on from page p to c, its s-th child.
GoesOn(pg, T, lv, lo, p, k, s, c) ==
    /\ s \in 1..Len(pg[p].kv) /\ c = pg[p].kv[s].val
    /\ Above(pg[p].kv, lo[p], s) < k /\ k <= pg[p].kv[s].key
    /\ c \in T /\ lv[c] = lv[p] - 1 /\ Top(pg[c].kv) = pg[p].kv[s].key
    /\ lo[c] = Above(pg[p].kv, lo[p], s)

\* Below an internal page, the child that search finds covers the key.
LEMMA ChildIs ==
    ASSUME NEW t, NEW T, NEW lv, NEW lo, NEW M, NEW full, Shape(t.page, T, lv, lo, M, 0, full),
           NEW p \in T, lv[p] # 0, NEW k \in Nat, lo[p] < k, k <= Top(t.page[p].kv)
    PROVE  GoesOn(t.page, T, lv, lo, p, k, search(t.page[p], k), Child(t, p, k))
<1>. DEFINE s == search(t.page[p], k)
<1>1. Node(t.page, T, lv, lo, M, 0, p) /\ ShapeType(t.page, T, lv, lo, M)
  BY ShapeNode
<1>2. t.page[p] \in Page /\ lo[p] \in Nat /\ Ordered(t.page[p].kv, lo[p]) /\ p \in Pids
  BY <1>1, NodeFacts
<1>3. s \in 1..Len(t.page[p].kv) /\ Above(t.page[p].kv, lo[p], s) < k /\ k <= t.page[p].kv[s].key
  BY <1>2, SearchIn
<1>. HIDE DEF s
<1>4. Entry(t.page, T, lv, lo, M, 0, p, s)
  BY <1>1, <1>3 DEF Node
<1>5. p # 0
  BY <1>2 DEF Pids
<1>6. /\ t.page[p].kv[s].val \in T /\ lv[t.page[p].kv[s].val] = lv[p] - 1
      /\ Top(t.page[t.page[p].kv[s].val].kv) = t.page[p].kv[s].key
      /\ lo[t.page[p].kv[s].val] = Above(t.page[p].kv, lo[p], s)
  BY <1>4, <1>5 DEF Entry
<1>. QED  BY <1>3, <1>6 DEF Child, s, GoesOn

Value(M, k) == IF M[k] = -1 THEN 0 ELSE M[k]

\* Get returns the value in the table.
LEMMA GetIs ==
    ASSUME NEW t, NEW T, NEW lv, NEW lo, NEW M, NEW full, Shape(t.page, T, lv, lo, M, 0, full), lv[1] <= MaxPages,
           NEW k \in 1..absoluteMax
    PROVE  get(t, k) = Value(M, k)
<1>. DEFINE f == CHOOSE h : IsGet(h, t, k)
            S == {n \in 0..MaxPages : \A p \in T : lv[p] <= n /\ lo[p] < k /\ k <= Top(t.page[p].kv) => f[n][p] = Value(M, k)}
<1>0. MaxPages \in Nat /\ absoluteMax \in Nat /\ k \in Nat /\ k <= absoluteMax /\ k > 0
  BY TreeConstants
<1>1. get(t, k) = f[MaxPages][1]
  BY DEF get, IsGet
<1>2. IsGet(f, t, k)
  <2>1. \E h : IsGet(h, t, k)
    BY GetExists
  <2>. QED  BY <2>1
<1>. HIDE DEF f
<1>3. ASSUME NEW n \in 0..MaxPages, NEW p \in Pids
      PROVE  f[n][p] = IF n = 0 \/ t.page[p].leaf THEN nodeGet(t.page[p], k)
                       ELSE IF search(t.page[p], k) > Len(t.page[p].kv) THEN 0
                       ELSE f[n - 1][Child(t, p, k)]
  <2>. DEFINE E(m) == [pid \in Pids |->
                           IF m = 0 \/ t.page[pid].leaf THEN nodeGet(t.page[pid], k)
                           ELSE IF search(t.page[pid], k) > Len(t.page[pid].kv) THEN 0
                           ELSE f[m - 1][Child(t, pid, k)]]
  <2>1. f = [m \in 0..MaxPages |-> E(m)]
    BY <1>2 DEF IsGet
  <2>2. f[n] = E(n)
    <3>. HIDE DEF E
    <3>. QED  BY <2>1
  <2>3. E(n)[p] = IF n = 0 \/ t.page[p].leaf THEN nodeGet(t.page[p], k)
                  ELSE IF search(t.page[p], k) > Len(t.page[p].kv) THEN 0
                  ELSE f[n - 1][Child(t, p, k)]
    OBVIOUS
  <2>. HIDE DEF E
  <2>. QED  BY <2>2, <2>3
<1>4. ASSUME NEW p \in T  PROVE Node(t.page, T, lv, lo, M, 0, p) /\ ShapeType(t.page, T, lv, lo, M)
  BY ShapeNode
<1>5. ASSUME NEW p \in T, lv[p] = 0, lo[p] < k, k <= Top(t.page[p].kv)
      PROVE  nodeGet(t.page[p], k) = Value(M, k)
  <2>. DEFINE kv == t.page[p].kv
  <2>1. kv \in KVs /\ Up(kv) /\ lo[p] \in Nat /\ Top(kv) \in Nat /\ \A i \in 1..Len(kv) : kv[i].val \in Nat
    BY <1>4, NodeFacts
  <2>2. /\ \A i \in 1..Len(kv) : M[kv[i].key] = kv[i].val
        /\ \A j \in (lo[p] + 1)..Top(kv) : M[j] # -1 => \E i \in 1..Len(kv) : kv[i].key = j
    BY <1>4, <1>5 DEF Node, Contents
  <2>3. CASE \E i \in 1..Len(kv) : kv[i].key = k
    <3>1. PICK i \in 1..Len(kv) : kv[i].key = k
      BY <2>3
    <3>2. nodeGet(t.page[p], k) = kv[i].val
      BY <1>0, <2>1, <3>1, NodeGetIs
    <3>3. M[k] = kv[i].val /\ kv[i].val \in Nat
      BY <2>1, <2>2, <3>1
    <3>. QED  BY <3>2, <3>3 DEF Value
  <2>4. CASE \A i \in 1..Len(kv) : kv[i].key # k
    <3>1. nodeGet(t.page[p], k) = 0
      BY <1>0, <2>1, <2>4, NodeGetIs
    <3>2. k \in (lo[p] + 1)..Top(kv)
      BY <1>0, <1>5, <2>1
    <3>3. M[k] = -1
      BY <2>2, <2>4, <3>2
    <3>. QED  BY <3>1, <3>3 DEF Value
  <2>. QED  BY <2>3, <2>4
<1>6. 0 \in S
  <2>. SUFFICES ASSUME NEW p \in T, lv[p] <= 0, lo[p] < k, k <= Top(t.page[p].kv)  PROVE f[0][p] = Value(M, k)
    BY <1>0
  <2>a. lv[p] \in Nat /\ p \in Pids
    BY <1>4, NodeFacts
  <2>1. lv[p] = 0 /\ p \in Pids /\ 0 \in 0..MaxPages
    BY <1>0, <2>a
  <2>. QED  BY <1>3, <1>5, <2>1
<1>7. ASSUME NEW n \in 1..MaxPages, n - 1 \in S  PROVE n \in S
  <2>0. n \in 0..MaxPages /\ n # 0 /\ n \in Nat
    BY <1>0
  <2>. SUFFICES ASSUME NEW p \in T, lv[p] <= n, lo[p] < k, k <= Top(t.page[p].kv)  PROVE f[n][p] = Value(M, k)
    BY <2>0
  <2>1. p \in Pids /\ lv[p] \in Nat /\ (t.page[p].leaf <=> lv[p] = 0) /\ Len(t.page[p].kv) \in Nat
    <3>1. Node(t.page, T, lv, lo, M, 0, p) /\ ShapeType(t.page, T, lv, lo, M)
      BY <1>4
    <3>2. p \in Pids /\ lv[p] \in Nat /\ Len(t.page[p].kv) \in Nat
      BY <3>1, NodeFacts
    <3>3. t.page[p].leaf <=> lv[p] = 0
      BY <3>1 DEF Node
    <3>. QED  BY <3>2, <3>3
  <2>2. CASE lv[p] = 0
    BY <1>3, <1>5, <2>0, <2>1, <2>2
  <2>3. CASE lv[p] # 0
    <3>. DEFINE c == Child(t, p, k)
    <3>1. /\ search(t.page[p], k) \in 1..Len(t.page[p].kv) /\ c \in T /\ lv[c] = lv[p] - 1
          /\ lo[c] < k /\ k <= Top(t.page[c].kv)
      <4>. DEFINE s == search(t.page[p], k)
      <4>1. /\ s \in 1..Len(t.page[p].kv) /\ k <= t.page[p].kv[s].key
            /\ Above(t.page[p].kv, lo[p], s) < k
            /\ c \in T /\ lv[c] = lv[p] - 1 /\ Top(t.page[c].kv) = t.page[p].kv[s].key
            /\ lo[c] = Above(t.page[p].kv, lo[p], s)
        <5>1. GoesOn(t.page, T, lv, lo, p, k, s, c)
          BY <1>0, <2>3, ChildIs
        <5>. QED  BY <5>1 DEF GoesOn
      <4>. HIDE DEF s, c
      <4>2. lo[c] < k /\ k <= Top(t.page[c].kv)
        BY <4>1
      <4>. QED  BY <4>1, <4>2 DEF s
    <3>2. ~(search(t.page[p], k) > Len(t.page[p].kv))
      BY <2>1, <3>1
    <3>3. f[n][p] = f[n - 1][c]
      BY <1>3, <2>0, <2>1, <2>3, <3>2
    <3>4. lv[c] <= n - 1
      BY <2>0, <2>1, <3>1
    <3>. HIDE DEF c
    <3>. QED  BY <1>7, <3>1, <3>3, <3>4
  <2>. QED  BY <2>2, <2>3
<1>8. MaxPages \in S
  <2>1. \A m \in 0..MaxPages : m \in S
    <3>. HIDE DEF S
    <3>. QED  BY <1>0, <1>6, <1>7, UpTo
  <2>2. MaxPages \in 0..MaxPages
    BY <1>0
  <2>. HIDE DEF S
  <2>. QED  BY <2>1, <2>2
<1>9. 1 \in T /\ lo[1] = 0 /\ Top(t.page[1].kv) = absoluteMax
  BY DEF Shape, Rooted
<1>. QED  BY <1>0, <1>1, <1>8, <1>9

-----------------------------------------------------------------------------
(* Changes of a leaf *)

\* Leaf p of pg changes, and M with it.
LeafChanges(pg, T, lv, lo, M, z, p, pg2, M2) ==
    /\ p \in T /\ lv[p] = 0 /\ pg2 \in PageMaps /\ M2 \in Tables
    /\ \A q \in T : q # p => pg2[q] = pg[q]
    /\ pg2[p].leaf = pg[p].leaf /\ Top(pg2[p].kv) = Top(pg[p].kv)
    /\ Ordered(pg2[p].kv, lo[p]) /\ Contents(pg2[p].kv, lo[p], M2)
    /\ \A k \in 1..absoluteMax : M2[k] # M[k] => lo[p] < k /\ k <= Top(pg[p].kv) /\ (z = 0 \/ M2[k] = -1)

\* Other pairs in a leaf, with the same bounds, are the shape of the table that has
\* them.
LEMMA LeafChange ==
    ASSUME NEW pg, NEW T, NEW lv, NEW lo, NEW M, NEW z, NEW full, NEW full2, Shape(pg, T, lv, lo, M, z, full),
           NEW p, NEW pg2, NEW M2, LeafChanges(pg, T, lv, lo, M, z, p, pg2, M2), Sizes(pg2, T, full2)
    PROVE  Shape(pg2, T, lv, lo, M2, z, full2)
<1>0. ShapeType(pg, T, lv, lo, M) /\ \A q \in T : Node(pg, T, lv, lo, M, z, q)
  BY ShapeNode
<1>1. /\ p \in T /\ lv[p] = 0 /\ pg2 \in PageMaps /\ M2 \in Tables
      /\ \A q \in T : q # p => pg2[q] = pg[q]
      /\ pg2[p].leaf = pg[p].leaf /\ Top(pg2[p].kv) = Top(pg[p].kv)
      /\ Ordered(pg2[p].kv, lo[p]) /\ Contents(pg2[p].kv, lo[p], M2)
      /\ \A k \in 1..absoluteMax : M2[k] # M[k] => lo[p] < k /\ k <= Top(pg[p].kv) /\ (z = 0 \/ M2[k] = -1)
  BY DEF LeafChanges
<1>2. ShapeType(pg2, T, lv, lo, M2)
  BY <1>0, <1>1 DEF ShapeType
<1>3. \A q \in T : Top(pg2[q].kv) = Top(pg[q].kv)
  BY <1>1
<1>4. ASSUME NEW q \in T  PROVE Node(pg2, T, lv, lo, M2, z, q)
  <2>0. Node(pg, T, lv, lo, M, z, q)
    BY <1>0
  <2>1. CASE q = p
    <3>1. pg2[p].leaf <=> lv[p] = 0
      BY <1>1, <2>0, <2>1 DEF Node
    <3>. QED  BY <1>1, <2>1, <3>1 DEF Node
  <2>2. CASE q # p
    <3>0. pg2[q] = pg[q]
      BY <1>1, <2>2
    <3>1. Ordered(pg2[q].kv, lo[q]) /\ (pg2[q].leaf <=> lv[q] = 0)
      BY <2>0, <3>0 DEF Node
    <3>2. ASSUME lv[q] # 0, NEW i \in 1..Len(pg2[q].kv)  PROVE Entry(pg2, T, lv, lo, M2, z, q, i)
      <4>1. Entry(pg, T, lv, lo, M, z, q, i)
        BY <2>0, <3>0, <3>2 DEF Node
      <4>. DEFINE kv == pg[q].kv
                  c == kv[i].val
                  l == Above(kv, lo[q], i)
      <4>2. CASE c \in T /\ lv[c] = lv[q] - 1 /\ Top(pg[c].kv) = kv[i].key /\ lo[c] = l
        BY <1>3, <3>0, <4>2 DEF Entry
      <4>3. CASE c = 0 /\ q = z /\ lv[q] = 1 /\ i < Len(kv) /\ \A k \in (l + 1)..kv[i].key : M[k] = -1
        <5>1. \A k \in (l + 1)..kv[i].key : k \in 1..absoluteMax
          <6>1. kv[i].key \in 1..absoluteMax /\ l \in Nat /\ absoluteMax \in Nat
            BY <1>0, <3>0, NodeFacts, TreeConstants
          <6>. HIDE DEF l, kv
          <6>. QED  BY <6>1
        <5>2. z # 0
          BY <1>0, <4>3 DEF ShapeType, Pids
        <5>3. \A k \in (l + 1)..kv[i].key : M2[k] = -1
          <6>. HIDE DEF l, kv
          <6>. QED  BY <1>1, <4>3, <5>1, <5>2
        <5>. QED  BY <3>0, <4>3, <5>3 DEF Entry
      <4>. QED  BY <4>1, <4>2, <4>3 DEF Entry
    <3>3. ASSUME lv[q] = 0  PROVE Contents(pg2[q].kv, lo[q], M2)
      <4>. DEFINE kv == pg[q].kv
      <4>1. Contents(kv, lo[q], M)
        BY <2>0, <3>3 DEF Node
      <4>2. Top(kv) <= lo[p] \/ Top(pg[p].kv) <= lo[q]
        BY <1>1, <2>2, <3>3 DEF Shape, Apart
      <4>3. /\ lo[q] \in Nat /\ lo[p] \in Nat /\ Top(kv) \in Nat /\ Top(kv) <= absoluteMax /\ Top(pg[p].kv) \in Nat
            /\ absoluteMax \in Nat
            /\ \A i \in 1..Len(kv) : kv[i].key \in 1..absoluteMax /\ lo[q] < kv[i].key /\ kv[i].key <= Top(kv)
        <5>1. /\ lo[q] \in Nat /\ Top(kv) \in Nat /\ Top(kv) <= absoluteMax
              /\ \A i \in 1..Len(kv) : kv[i].key \in 1..absoluteMax /\ lo[q] < kv[i].key /\ kv[i].key <= Top(kv)
          BY <1>0, NodeFacts
        <5>2. lo[p] \in Nat /\ Top(pg[p].kv) \in Nat
          BY <1>0, <1>1, NodeFacts
        <5>. QED  BY <5>1, <5>2, TreeConstants
      <4>4. \A k \in 1..absoluteMax : lo[q] < k /\ k <= Top(kv) => M2[k] = M[k]
        <5>. HIDE DEF kv
        <5>. QED  BY <1>1, <4>2, <4>3
      <4>5. \A k \in (lo[q] + 1)..Top(kv) : k \in 1..absoluteMax /\ lo[q] < k /\ k <= Top(kv)
        <5>. HIDE DEF kv
        <5>. QED  BY <4>3
      <4>6. Contents(kv, lo[q], M2)
        <5>. HIDE DEF kv
        <5>. QED  BY <4>1, <4>3, <4>4, <4>5 DEF Contents
      <4>. QED  BY <3>0, <4>6
    <3>. QED  BY <3>1, <3>2, <3>3 DEF Node
  <2>. QED  BY <2>1, <2>2
<1>5. Apart(pg2, T, lv, lo)
  BY <1>3 DEF Shape, Apart
<1>6. ASSUME NEW q \in T, q # 1  PROVE HasParent(pg2, T, lv, q)
  <2>1. PICK r \in T : lv[r] # 0 /\ \E i \in 1..Len(pg[r].kv) : pg[r].kv[i].val = q
    BY <1>6 DEF Shape, HasParent
  <2>2. pg2[r] = pg[r]
    BY <1>1, <2>1
  <2>. QED  BY <2>1, <2>2 DEF HasParent
<1>7. Rooted(pg2, T, lv, lo)
  BY <1>3 DEF Shape, Rooted
<1>. QED  BY <1>2, <1>4, <1>5, <1>6, <1>7 DEF Shape

\* set in a leaf
LEMMA LeafSet ==
    ASSUME NEW pg, NEW T, NEW lv, NEW lo, NEW M, Shape(pg, T, lv, lo, M, 0, 0),
           NEW p \in T, lv[p] = 0, NEW k \in 1..absoluteMax, lo[p] < k, k <= Top(pg[p].kv), NEW v \in Vals \cup {0},
           NEW pg2, pg2 = [pg EXCEPT ![p] = nodeSet(pg[p], k, v)],
           NEW M2, M2 = [M EXCEPT ![k] = v]
    PROVE  /\ Shape(pg2, T, lv, lo, M2, 0, p) /\ Top(pg2[p].kv) = Top(pg[p].kv)
           /\ Has(pg[p], k) <=> M[k] # -1
<1>. DEFINE n == pg[p]
            r == nodeSet(n, k, v)
            kv == n.kv
            s == search(n, k)
            e == Pair(k, v)
<1>0. ShapeType(pg, T, lv, lo, M) /\ Node(pg, T, lv, lo, M, 0, p)
  BY ShapeNode
<1>1. /\ p \in Pids /\ n \in Page /\ kv \in KVs /\ Len(kv) \in Nat /\ Len(kv) \in 1..Len(kv) /\ lo[p] \in Nat
      /\ Ordered(kv, lo[p]) /\ Up(kv) /\ Top(kv) \in Nat /\ Top(kv) <= absoluteMax
      /\ \A i \in 1..Len(kv) : kv[i].key \in Nat /\ lo[p] < kv[i].key /\ kv[i].key <= Top(kv) /\ kv[i].val \in Nat
  BY <1>0, NodeFacts
<1>2. Contents(kv, lo[p], M)
  BY <1>0 DEF Node
<1>3. k \in Nat /\ v \in Nat /\ v # -1 /\ absoluteMax \in Nat
  BY TreeConstants
<1>4. /\ r \in Page /\ r.id = n.id /\ r.leaf = n.leaf /\ Up(r.kv)
      /\ Has(n, k) => s \in 1..Len(kv) /\ kv[s].key = k /\ Replaced(kv, s, e, r.kv)
      /\ ~Has(n, k) => (\A i \in 1..Len(kv) : kv[i].key # k) /\ Inserted(kv, s, e, r.kv)
  <2>1. NodeSets(n, k, v, s, r)
    BY <1>1, <1>3, NodeSetIs
  <2>. QED  BY <2>1 DEF NodeSets
<1>5. s \in 1..Len(kv) /\ k <= kv[s].key
  BY <1>1, <1>3, SearchIn
<1>6. e.key = k /\ e.val = v
  BY <1>3, PairType
<1>. HIDE DEF r, s, e
<1>7. /\ \A j \in 1..Len(r.kv) : r.kv[j] = e \/ \E i \in 1..Len(kv) : kv[i].key # k /\ r.kv[j] = kv[i]
      /\ \A i \in 1..Len(kv) : kv[i].key # k => \E j \in 1..Len(r.kv) : r.kv[j] = kv[i]
      /\ \E j \in 1..Len(r.kv) : r.kv[j] = e
      /\ Len(r.kv) \in Nat /\ Len(r.kv) >= Len(kv) /\ Len(r.kv) <= Len(kv) + 1
      /\ Top(r.kv) = Top(kv)
  <2>. HIDE DEF kv, n
  <2>1. CASE Has(n, k)
    <3>1. /\ s \in 1..Len(kv) /\ kv[s].key = k /\ Len(r.kv) = Len(kv)
          /\ \A j \in 1..Len(kv) : r.kv[j] = IF j = s THEN e ELSE kv[j]
      BY <1>4, <2>1 DEF Replaced
    <3>2. \A j \in 1..Len(kv) : j # s => kv[j].key # k
      <4>. SUFFICES ASSUME NEW j \in 1..Len(kv), j # s, kv[j].key = k  PROVE FALSE
        OBVIOUS
      <4>1. j < s \/ s < j
        BY <1>1, <3>1
      <4>. QED  BY <1>1, <3>1, <4>1 DEF Up
    <3>3. Top(r.kv) = Top(kv)
      <4>1. r.kv[Len(kv)] = IF Len(kv) = s THEN e ELSE kv[Len(kv)]
        BY <1>1, <3>1
      <4>. QED  BY <1>6, <3>1, <4>1 DEF Top
    <3>. QED  BY <1>1, <3>1, <3>2, <3>3
  <2>2. CASE ~Has(n, k)
    <3>1. /\ \A i \in 1..Len(kv) : kv[i].key # k
          /\ Len(r.kv) = Len(kv) + 1
          /\ \A j \in 1..(Len(kv) + 1) : r.kv[j] = IF j < s THEN kv[j] ELSE IF j = s THEN e ELSE kv[j - 1]
      BY <1>4, <2>2 DEF Inserted
    <3>2. ASSUME NEW j \in 1..Len(r.kv)  PROVE r.kv[j] = e \/ \E i \in 1..Len(kv) : kv[i].key # k /\ r.kv[j] = kv[i]
      <4>1. CASE j < s
        <5>1. j \in 1..Len(kv) /\ r.kv[j] = kv[j]
          BY <1>1, <1>5, <3>1, <4>1
        <5>. QED  BY <3>1, <5>1
      <4>2. CASE j = s
        BY <1>1, <3>1, <4>2
      <4>3. CASE j > s
        <5>1. j - 1 \in 1..Len(kv) /\ r.kv[j] = kv[j - 1]
          BY <1>1, <1>5, <3>1, <4>3
        <5>. QED  BY <3>1, <5>1
      <4>. QED  BY <1>1, <1>5, <3>1, <4>1, <4>2, <4>3
    <3>3. ASSUME NEW i \in 1..Len(kv)  PROVE \E j \in 1..Len(r.kv) : r.kv[j] = kv[i]
      <4>1. CASE i < s
        BY <1>1, <1>5, <3>1, <4>1
      <4>2. CASE i >= s
        <5>1. i + 1 \in 1..Len(r.kv) /\ i + 1 - 1 = i /\ ~(i + 1 < s) /\ i + 1 # s
          BY <1>1, <1>5, <3>1, <4>2
        <5>2. r.kv[i + 1] = kv[i]
          BY <3>1, <5>1
        <5>. QED  BY <5>1, <5>2
      <4>. QED  BY <1>1, <1>5, <4>1, <4>2
    <3>4. s \in 1..Len(r.kv) /\ r.kv[s] = e
      BY <1>1, <1>5, <3>1
    <3>5. Top(r.kv) = Top(kv)
      <4>1. Len(kv) + 1 \in 1..(Len(kv) + 1) /\ ~(Len(kv) + 1 < s) /\ Len(kv) + 1 # s /\ Len(kv) + 1 - 1 = Len(kv)
        BY <1>1, <1>5
      <4>2. r.kv[Len(kv) + 1] = kv[Len(kv)]
        BY <3>1, <4>1
      <4>. QED  BY <3>1, <4>2 DEF Top
    <3>6. Len(r.kv) \in Nat /\ Len(r.kv) >= Len(kv) /\ Len(r.kv) <= Len(kv) + 1
      BY <1>1, <3>1
    <3>. QED  BY <3>2, <3>3, <3>4, <3>5, <3>6
  <2>. QED  BY <2>1, <2>2
<1>8. pg2[p] = r /\ pg2 \in PageMaps /\ \A q \in T : q # p => pg2[q] = pg[q]
  BY <1>0, <1>1, <1>4 DEF ShapeType, PageMaps, r
<1>9. M2 \in Tables /\ M2[k] = v /\ \A j \in 1..absoluteMax : j # k => M2[j] = M[j]
  BY <1>0 DEF ShapeType, Tables
<1>10. Ordered(r.kv, lo[p])
  <2>1. 1 \in 1..Len(r.kv)
    BY <1>1, <1>7
  <2>2. lo[p] < r.kv[1].key
    BY <1>1, <1>6, <1>7, <2>1
  <2>. QED  BY <1>1, <1>4, <1>7, <2>2 DEF Ordered
<1>11. Contents(r.kv, lo[p], M2)
  <2>. HIDE DEF kv, n
  <2>1. \A i \in 1..Len(kv) : kv[i].key \in 1..absoluteMax /\ M[kv[i].key] = kv[i].val
    <3>1. \A i \in 1..Len(kv) : M[kv[i].key] = kv[i].val
      BY <1>2 DEF Contents
    <3>2. \A i \in 1..Len(kv) : kv[i].key \in 1..absoluteMax
      BY <1>1, <1>3
    <3>. QED  BY <3>1, <3>2
  <2>2. ASSUME NEW j \in 1..Len(r.kv)  PROVE M2[r.kv[j].key] = r.kv[j].val
    <3>1. CASE r.kv[j] = e
      BY <1>6, <1>9, <3>1
    <3>2. CASE r.kv[j] # e
      <4>1. PICK i \in 1..Len(kv) : kv[i].key # k /\ r.kv[j] = kv[i]
        BY <1>7, <3>2
      <4>. QED  BY <1>9, <2>1, <4>1
    <3>. QED  BY <3>1, <3>2
  <2>3. ASSUME NEW j \in (lo[p] + 1)..Top(r.kv), M2[j] # -1  PROVE \E i \in 1..Len(r.kv) : r.kv[i].key = j
    <3>1. j \in (lo[p] + 1)..Top(kv) /\ j \in 1..absoluteMax
      BY <1>1, <1>3, <1>7
    <3>2. CASE j = k
      BY <1>6, <1>7, <3>2
    <3>3. CASE j # k
      <4>1. M[j] # -1
        BY <1>9, <2>3, <3>1, <3>3
      <4>2. PICK i \in 1..Len(kv) : kv[i].key = j
        BY <1>2, <3>1, <4>1 DEF Contents
      <4>. QED  BY <1>7, <3>3, <4>2
    <3>. QED  BY <3>2, <3>3
  <2>. QED  BY <2>2, <2>3 DEF Contents
<1>12. LeafChanges(pg, T, lv, lo, M, 0, p, pg2, M2)
  BY <1>4, <1>7, <1>8, <1>9, <1>10, <1>11 DEF LeafChanges
<1>13. Sizes(pg2, T, p)
  <2>1. maxKeys \in Nat
    BY TreeConstants
  <2>2. Sizes(pg, T, 0) /\ p # 0
    BY <1>1 DEF Shape, Pids
  <2>3. Len(kv) < maxKeys
    BY <2>2 DEF Sizes
  <2>4. Len(r.kv) < maxKeys \/ Len(r.kv) = maxKeys
    BY <1>1, <1>7, <2>1, <2>3
  <2>5. \A q \in T : q # p => Len(pg2[q].kv) < maxKeys
    BY <1>0, <1>8, <2>2 DEF Sizes, ShapeType, Pids
  <2>. QED  BY <1>8, <2>4, <2>5 DEF Sizes
<1>14. Shape(pg2, T, lv, lo, M2, 0, p)
  BY <1>12, <1>13, LeafChange
<1>15. Has(pg[p], k) <=> M[k] # -1
  <2>1. CASE Has(n, k)
    <3>1. s \in 1..Len(kv) /\ kv[s].key = k /\ kv[s].val \in Nat
      BY <1>1, <1>4, <2>1
    <3>2. M[k] = kv[s].val
      BY <1>2, <3>1 DEF Contents
    <3>. QED  BY <2>1, <3>1, <3>2
  <2>2. CASE ~Has(n, k)
    <3>1. \A i \in 1..Len(kv) : kv[i].key # k
      BY <1>4, <2>2
    <3>2. k \in (lo[p] + 1)..Top(kv)
      BY <1>1, <1>3
    <3>3. M[k] = -1
      BY <1>2, <3>1, <3>2 DEF Contents
    <3>. QED  BY <2>2, <3>3
  <2>. QED  BY <2>1, <2>2
<1>. QED  BY <1>7, <1>8, <1>14, <1>15

-----------------------------------------------------------------------------
(* Splits *)

half == maxKeys \div 2

\* Each half of a full page has a pair.
LEMMA HalfIs == half \in Nat /\ maxKeys \in Nat /\ half >= 1 /\ half + 1 <= maxKeys /\ maxKeys - half >= 1
BY TreeConstants DEF half

\* L and R are the halves of kv.
Halves(kv, L, R) ==
    /\ L \in KVs /\ Len(L) = half /\ \A j \in 1..half : L[j] = kv[j]
    /\ R \in KVs /\ Len(R) = maxKeys - half /\ \A j \in 1..(maxKeys - half) : R[j] = kv[half + j]

\* The two parts that split makes are the halves.
LEMMA HalvesAre ==
    ASSUME NEW kv \in KVs, Len(kv) = maxKeys
    PROVE  Halves(kv, SubSeq(kv, 1, half), SubSeq(kv, half + 1, maxKeys))
<1>. DEFINE L == SubSeq(kv, 1, half)
            R == SubSeq(kv, half + 1, maxKeys)
<1>0. half \in Nat /\ maxKeys \in Nat /\ half >= 1 /\ half + 1 <= maxKeys /\ kv \in Seq(Pairs)
  BY HalfIs DEF KVs
<1>1. L \in Seq(Pairs) /\ Len(L) = half /\ \A j \in 1..half : L[j] = kv[j]
  BY <1>0
<1>2. R \in Seq(Pairs) /\ Len(R) = maxKeys - half
  BY <1>0
<1>3. ASSUME NEW j \in 1..(maxKeys - half)  PROVE R[j] = kv[half + j]
  <2>1. R[j] = kv[half + 1 + j - 1] /\ half + 1 + j - 1 = half + j
    BY <1>0
  <2>. QED  BY <2>1
<1>. QED  BY <1>1, <1>2, <1>3 DEF Halves, KVs

HalvesOK(kv, l, L, R, m) ==
    /\ Top(L) = m /\ m \in Nat /\ l < m /\ m < Top(kv) /\ Top(R) = Top(kv)
    /\ Ordered(L, l) /\ Ordered(R, m)
    /\ \A j \in 1..half : L[j] = kv[j] /\ j \in 1..Len(kv) /\ Above(L, l, j) = Above(kv, l, j)
    /\ \A j \in 1..(maxKeys - half) :
          R[j] = kv[half + j] /\ half + j \in 1..Len(kv) /\ Above(R, m, j) = Above(kv, l, half + j)

\* Both halves are in order; the left one ends where the right one begins.
LEMMA HalvesFacts ==
    ASSUME NEW kv \in KVs, NEW l \in Nat, Ordered(kv, l), Len(kv) = maxKeys, NEW L, NEW R, Halves(kv, L, R)
    PROVE  HalvesOK(kv, l, L, R, kv[half].key)
<1>0. half \in Nat /\ maxKeys \in Nat /\ half >= 1 /\ half + 1 <= maxKeys
  BY HalfIs
<1>1. /\ L \in KVs /\ Len(L) = half /\ \A j \in 1..half : L[j] = kv[j]
      /\ R \in KVs /\ Len(R) = maxKeys - half /\ \A j \in 1..(maxKeys - half) : R[j] = kv[half + j]
  BY DEF Halves
<1>2. /\ Up(kv) /\ Top(kv) = kv[maxKeys].key /\ Top(kv) <= absoluteMax /\ absoluteMax \in Nat
      /\ \A i \in 1..Len(kv) : kv[i].key \in Nat /\ l < kv[i].key /\ kv[i].key <= Top(kv)
  BY OrderedFacts, TreeConstants DEF Top
<1>3. half \in 1..half /\ half \in 1..Len(kv) /\ maxKeys \in 1..Len(kv) /\ maxKeys - half \in 1..(maxKeys - half)
      /\ half + (maxKeys - half) = maxKeys /\ 1 \in 1..half /\ 1 \in 1..(maxKeys - half)
  BY <1>0
<1>4. Top(L) = kv[half].key /\ Top(R) = Top(kv)
  BY <1>1, <1>2, <1>3 DEF Top
<1>5. Top(L) \in Nat /\ l < Top(L) /\ Top(L) < Top(kv)
  <2>1. half < maxKeys
    BY <1>0
  <2>. QED  BY <1>2, <1>3, <1>4, <2>1 DEF Up
<1>6. \A j \in 1..half : j \in 1..Len(kv)
  BY <1>0
<1>7. \A j \in 1..(maxKeys - half) : half + j \in 1..Len(kv)
  BY <1>0
<1>8. Ordered(L, l)
  <2>1. Up(L)
    BY <1>1, <1>2, <1>6 DEF Up
  <2>2. Len(L) >= 1 /\ L[1] = kv[1] /\ 1 \in 1..Len(kv)
    BY <1>0, <1>1, <1>3, <1>6
  <2>3. Top(L) <= absoluteMax /\ Top(kv) \in Nat
    BY <1>2, <1>3, <1>4, <1>5
  <2>. QED  BY <1>2, <2>1, <2>2, <2>3 DEF Ordered
<1>9. Ordered(R, Top(L))
  <2>1. ASSUME NEW i \in 1..Len(R), NEW j \in 1..Len(R), i < j  PROVE R[i].key < R[j].key
    <3>1. half + i \in 1..Len(kv) /\ half + j \in 1..Len(kv) /\ half + i < half + j
      BY <1>0, <1>1, <1>7, <2>1
    <3>. QED  BY <1>1, <1>2, <3>1 DEF Up
  <2>2. R[1] = kv[half + 1] /\ half + 1 \in 1..Len(kv) /\ half < half + 1 /\ Len(R) >= 1
    BY <1>0, <1>1, <1>3, <1>7
  <2>3. Top(L) < R[1].key
    BY <1>2, <1>3, <1>4, <2>2 DEF Up
  <2>. QED  BY <1>2, <1>4, <2>1, <2>2, <2>3 DEF Ordered, Up
<1>10. ASSUME NEW j \in 1..half  PROVE Above(L, l, j) = Above(kv, l, j)
  <2>1. j # 1 => j - 1 \in 1..half
    BY <1>0
  <2>. QED  BY <1>1, <2>1 DEF Above
<1>11. ASSUME NEW j \in 1..(maxKeys - half)  PROVE Above(R, Top(L), j) = Above(kv, l, half + j)
  <2>1. CASE j = 1
    <3>1. half + j - 1 = half /\ half + j # 1
      BY <1>0, <2>1
    <3>2. Above(kv, l, half + j) = kv[half + j - 1].key
      BY <1>0, <3>1 DEF Above
    <3>3. Above(R, Top(L), j) = Top(L)
      BY <2>1 DEF Above
    <3>. QED  BY <1>4, <3>1, <3>2, <3>3
  <2>2. CASE j # 1
    <3>1. j - 1 \in 1..(maxKeys - half) /\ half + j # 1 /\ half + (j - 1) = half + j - 1
      BY <1>0, <2>2
    <3>. QED  BY <1>1, <2>2, <3>1 DEF Above
  <2>. QED  BY <2>1, <2>2
<1>. QED  BY <1>1, <1>4, <1>5, <1>6, <1>7, <1>8, <1>9, <1>10, <1>11 DEF HalvesOK

\* The halves of a leaf hold what the leaf held.
LEMMA HalvesContents ==
    ASSUME NEW kv \in KVs, NEW l \in Nat, Ordered(kv, l), Len(kv) = maxKeys, NEW L, NEW R, Halves(kv, L, R),
           NEW M, Contents(kv, l, M)
    PROVE  Contents(L, l, M) /\ Contents(R, Top(L), M)
<1>0. half \in Nat /\ maxKeys \in Nat /\ half >= 1 /\ half + 1 <= maxKeys
  BY HalfIs
<1>1. Len(L) = half /\ Len(R) = maxKeys - half
  BY DEF Halves
<1>2. /\ Top(L) = kv[half].key /\ Top(L) \in Nat /\ l < Top(L) /\ Top(L) < Top(kv) /\ Top(R) = Top(kv)
      /\ \A j \in 1..half : L[j] = kv[j] /\ j \in 1..Len(kv)
      /\ \A j \in 1..(maxKeys - half) : R[j] = kv[half + j] /\ half + j \in 1..Len(kv)
  BY HalvesFacts DEF HalvesOK
<1>3. /\ \A i \in 1..Len(kv) : M[kv[i].key] = kv[i].val
      /\ \A k \in (l + 1)..Top(kv) : M[k] # -1 => \E i \in 1..Len(kv) : kv[i].key = k
  BY DEF Contents
<1>4. Up(kv) /\ Top(kv) \in Nat /\ \A i \in 1..Len(kv) : kv[i].key \in Nat
  BY OrderedFacts
<1>5. ASSUME NEW k \in (l + 1)..Top(L), M[k] # -1  PROVE \E i \in 1..Len(L) : L[i].key = k
  <2>1. k \in (l + 1)..Top(kv)
    BY <1>2, <1>4
  <2>2. PICK i \in 1..Len(kv) : kv[i].key = k
    BY <1>3, <1>5, <2>1
  <2>3. ~(half < i)
    <3>. SUFFICES ASSUME half < i  PROVE FALSE
      OBVIOUS
    <3>1. half \in 1..Len(kv)
      BY <1>0
    <3>2. kv[half].key < kv[i].key
      BY <1>4, <3>1 DEF Up
    <3>. QED  BY <1>2, <1>4, <2>2, <3>2
  <2>4. i \in 1..half
    BY <1>0, <2>3
  <2>. QED  BY <1>1, <1>2, <2>2, <2>4
<1>6. ASSUME NEW k \in (Top(L) + 1)..Top(R), M[k] # -1  PROVE \E i \in 1..Len(R) : R[i].key = k
  <2>1. k \in (l + 1)..Top(kv) /\ k \in Nat /\ Top(L) < k
    BY <1>2, <1>4
  <2>2. PICK i \in 1..Len(kv) : kv[i].key = k
    BY <1>3, <1>6, <2>1
  <2>3. half < i
    <3>. SUFFICES ASSUME ~(half < i)  PROVE FALSE
      OBVIOUS
    <3>1. half \in 1..Len(kv) /\ (i = half \/ i < half)
      BY <1>0
    <3>2. kv[i].key <= kv[half].key
      BY <1>4, <3>1 DEF Up
    <3>. QED  BY <1>2, <2>1, <2>2, <3>2
  <2>4. i - half \in 1..(maxKeys - half) /\ half + (i - half) = i
    BY <1>0, <2>3
  <2>. QED  BY <1>1, <1>2, <2>2, <2>4
<1>. QED  BY <1>1, <1>2, <1>3, <1>5, <1>6 DEF Contents

\* Entry i of kv becomes two, for pages c and nn.
Linked(kv, i, m, c, nn, r) ==
    /\ r \in KVs /\ Len(r) = Len(kv) + 1
    /\ \A j \in 1..(Len(kv) + 1) :
          r[j] = IF j < i THEN kv[j] ELSE IF j = i THEN Pair(m, c)
                 ELSE IF j = i + 1 THEN Pair(kv[i].key, nn) ELSE kv[j - 1]

\* The two calls of node.set in Link put the left half before the right one, which
\* takes the old pair.
LEMMA LinkIs ==
    ASSUME NEW n \in Page, Up(n.kv), NEW i \in 1..Len(n.kv), NEW m \in Nat, m < n.kv[i].key,
           i > 1 => n.kv[i - 1].key < m, NEW c \in Nat, NEW nn \in Nat
    PROVE  LET r == nodeSet(nodeSet(n, m, c), n.kv[i].key, nn)
           IN  r \in Page /\ r.id = n.id /\ r.leaf = n.leaf /\ Linked(n.kv, i, m, c, nn, r.kv)
<1>. DEFINE kv == n.kv
            u == nodeSet(n, m, c)
            k == kv[i].key
            r == nodeSet(u, k, nn)
            s == search(n, m)
            s2 == search(u, k)
<1>0. /\ kv \in KVs /\ Len(kv) \in Nat /\ k \in Nat /\ \A j \in 1..Len(kv) : kv[j].key \in Nat
      /\ i \in 1..Len(kv) /\ i \in Nat /\ m < k
  BY KVType DEF Page
<1>1. s = i
  <2>1. Found(kv, m, s)
    BY <1>0, SearchFinds
  <2>2. m <= kv[i].key
    BY <1>0
  <2>. HIDE DEF s
  <2>. QED  BY <1>0, <2>1, <2>2, FoundUnique
<1>2. ~Has(n, m)
  BY <1>0, <1>1 DEF Has
<1>3. u \in Page /\ u.id = n.id /\ u.leaf = n.leaf /\ Up(u.kv) /\ Inserted(kv, i, Pair(m, c), u.kv)
  BY <1>1, <1>2, NodeSetIs DEF NodeSets
<1>. HIDE DEF u, kv
<1>4. /\ u.kv \in KVs /\ Len(u.kv) = Len(kv) + 1
      /\ \A j \in 1..(Len(kv) + 1) : u.kv[j] = IF j < i THEN kv[j] ELSE IF j = i THEN Pair(m, c) ELSE kv[j - 1]
  BY <1>3 DEF Inserted
<1>5. i + 1 \in 1..Len(u.kv) /\ u.kv[i + 1] = kv[i] /\ i \in 1..Len(u.kv) /\ u.kv[i] = Pair(m, c) /\ Pair(m, c).key = m
  <2>1. i + 1 \in 1..(Len(kv) + 1) /\ i \in 1..(Len(kv) + 1) /\ ~(i + 1 < i) /\ i + 1 # i /\ i + 1 - 1 = i /\ ~(i < i)
    BY <1>0
  <2>. QED  BY <1>4, <2>1, PairType
<1>6. s2 = i + 1
  <2>1. Found(u.kv, k, s2)
    BY <1>0, <1>4, SearchFinds
  <2>2. k <= u.kv[i + 1].key /\ i + 1 - 1 = i /\ u.kv[i].key < k
    BY <1>0, <1>5
  <2>. HIDE DEF s2, k
  <2>. QED  BY <1>0, <1>3, <1>4, <1>5, <2>1, <2>2, FoundUnique
<1>7. Has(u, k)
  BY <1>0, <1>4, <1>5, <1>6 DEF Has
<1>8. r \in Page /\ r.id = u.id /\ r.leaf = u.leaf /\ Replaced(u.kv, i + 1, Pair(k, nn), r.kv)
  <2>1. r \in Page /\ r.id = u.id /\ r.leaf = u.leaf /\ Replaced(u.kv, s2, Pair(k, nn), r.kv)
    <3>1. u \in Page /\ Up(u.kv) /\ k \in Nat
      BY <1>0, <1>3
    <3>. HIDE DEF k
    <3>2. NodeSets(u, k, nn, s2, r)
      BY <3>1, NodeSetIs
    <3>. HIDE DEF s2, r
    <3>. QED  BY <1>7, <3>2 DEF NodeSets
  <2>. HIDE DEF s2, r
  <2>. QED  BY <1>6, <2>1
<1>. HIDE DEF r, k
<1>9. /\ r.kv \in KVs /\ Len(r.kv) = Len(kv) + 1
      /\ \A j \in 1..(Len(kv) + 1) : r.kv[j] = IF j = i + 1 THEN Pair(k, nn) ELSE u.kv[j]
  BY <1>4, <1>8 DEF Replaced
<1>10. Linked(kv, i, m, c, nn, r.kv)
  <2>1. ASSUME NEW j \in 1..(Len(kv) + 1)
        PROVE  r.kv[j] = IF j < i THEN kv[j] ELSE IF j = i THEN Pair(m, c)
                         ELSE IF j = i + 1 THEN Pair(k, nn) ELSE kv[j - 1]
    <3>1. CASE j = i + 1
      BY <1>0, <1>9, <3>1
    <3>2. CASE j # i + 1
      BY <1>4, <1>9, <3>2
    <3>. QED  BY <3>1, <3>2
  <2>. QED  BY <1>9, <2>1 DEF Linked, k
<1>. QED  BY <1>3, <1>8, <1>10 DEF r, u, k, kv

\* Full page c, entry i of page q, shares with page nn.
Splits(pg, T, c, q, i, nn, pg2) ==
    /\ pg2 \in PageMaps /\ nn \in Pids \ T
    /\ Halves(pg[c].kv, pg2[c].kv, pg2[nn].kv)
    /\ pg2[c].leaf = pg[c].leaf /\ pg2[nn].leaf = pg[c].leaf /\ pg2[q].leaf = pg[q].leaf
    /\ Linked(pg[q].kv, i, pg[c].kv[half].key, c, nn, pg2[q].kv)
    /\ \A p \in T : p # c /\ p # q => pg2[p] = pg[p]

\* A full page that is the i-th child of page q
FullChild(pg, T, lv, lo, M, c, q, i) ==
    /\ Shape(pg, T, lv, lo, M, 0, c) /\ c \in T /\ Len(pg[c].kv) = maxKeys
    /\ q \in T /\ lv[q] # 0 /\ i \in 1..Len(pg[q].kv) /\ pg[q].kv[i].val = c

\* What is known of a full child and of its parent
LEMMA FullChildFacts ==
    ASSUME NEW pg, NEW T, NEW lv, NEW lo, NEW M, NEW c, NEW q, NEW i, FullChild(pg, T, lv, lo, M, c, q, i)
    PROVE  /\ c \in T /\ c \in Pids /\ c \in Nat /\ q \in T /\ q \in Pids /\ c # 0 /\ q # c
           /\ pg \in PageMaps /\ pg[c] \in Page /\ pg[q] \in Page /\ pg[c].kv \in KVs /\ pg[q].kv \in KVs
           /\ Len(pg[c].kv) = maxKeys /\ Len(pg[q].kv) \in Nat /\ Len(pg[q].kv) < maxKeys /\ Up(pg[q].kv)
           /\ lo[c] \in Nat /\ lo[q] \in Nat /\ lv[c] \in Nat /\ lv[q] \in Nat /\ lv[c] = lv[q] - 1
           /\ Ordered(pg[c].kv, lo[c]) /\ Ordered(pg[q].kv, lo[q])
           /\ Top(pg[c].kv) = pg[q].kv[i].key /\ lo[c] = Above(pg[q].kv, lo[q], i)
           /\ i \in 1..Len(pg[q].kv) /\ i \in Nat /\ pg[q].kv[i].val = c
<1>0. /\ Shape(pg, T, lv, lo, M, 0, c) /\ c \in T /\ Len(pg[c].kv) = maxKeys
      /\ q \in T /\ lv[q] # 0 /\ i \in 1..Len(pg[q].kv) /\ pg[q].kv[i].val = c
  BY DEF FullChild
<1>1. ShapeType(pg, T, lv, lo, M) /\ \A p \in T : Node(pg, T, lv, lo, M, 0, p)
  BY <1>0, ShapeNode
<1>2. /\ c \in Pids /\ pg[c] \in Page /\ pg[c].kv \in KVs /\ lo[c] \in Nat /\ lv[c] \in Nat /\ Ordered(pg[c].kv, lo[c])
  BY <1>0, <1>1, NodeFacts, ZenonT(40)
<1>3. /\ q \in Pids /\ pg[q] \in Page /\ pg[q].kv \in KVs /\ lo[q] \in Nat /\ lv[q] \in Nat /\ Ordered(pg[q].kv, lo[q])
      /\ Len(pg[q].kv) \in Nat /\ Up(pg[q].kv)
  BY <1>0, <1>1, NodeFacts
<1>4. Entry(pg, T, lv, lo, M, 0, q, i)
  BY <1>0, <1>1 DEF Node
<1>5. c # 0 /\ q # 0 /\ c \in Nat
  BY <1>2, <1>3 DEF Pids
<1>6. lv[c] = lv[q] - 1 /\ Top(pg[c].kv) = pg[q].kv[i].key /\ lo[c] = Above(pg[q].kv, lo[q], i)
  BY <1>0, <1>4, <1>5 DEF Entry
<1>7. q # c
  BY <1>2, <1>3, <1>6
<1>8. Len(pg[q].kv) < maxKeys
  BY <1>0, <1>7 DEF Shape, Sizes
<1>9. pg \in PageMaps /\ i \in Nat
  BY <1>0, <1>1 DEF ShapeType
<1>. QED  BY <1>0, <1>2, <1>3, <1>5, <1>6, <1>7, <1>8, <1>9

\* The new entries of page q, and where they come from
LinkedOK(kv, l, i, m, c, nn, r) ==
    /\ r \in KVs /\ Len(r) = Len(kv) + 1 /\ Top(r) = Top(kv) /\ Ordered(r, l)
    /\ i \in 1..Len(r) /\ i + 1 \in 1..Len(r)
    /\ r[i].key = m /\ r[i].val = c /\ Above(r, l, i) = Above(kv, l, i)
    /\ r[i + 1].key = kv[i].key /\ r[i + 1].val = nn /\ Above(r, l, i + 1) = m
    /\ \A j \in 1..Len(r) : j = i \/ j = i + 1 \/
          \E a \in 1..Len(kv) : a # i /\ r[j] = kv[a] /\ Above(r, l, j) = Above(kv, l, a)
    /\ \A a \in 1..Len(kv) : a # i => \E j \in 1..Len(r) : r[j] = kv[a]

\* The parent's keys stay in order, with one key more.
LEMMA LinkedFacts ==
    ASSUME NEW kv \in KVs, NEW l \in Nat, Ordered(kv, l), NEW i \in 1..Len(kv), NEW m \in Nat,
           Above(kv, l, i) < m, m < kv[i].key, NEW c \in Nat, NEW nn \in Nat, NEW r, Linked(kv, i, m, c, nn, r)
    PROVE  LinkedOK(kv, l, i, m, c, nn, r)
<1>0. /\ Len(kv) \in Nat /\ Len(kv) \in 1..Len(kv) /\ 1 \in 1..Len(kv) /\ Up(kv) /\ Top(kv) <= absoluteMax
      /\ \A j \in 1..Len(kv) : kv[j].key \in Nat /\ l < kv[j].key /\ Above(kv, l, j) \in Nat /\ l <= Above(kv, l, j)
      /\ i \in Nat
  BY OrderedFacts
<1>1. /\ r \in KVs /\ Len(r) = Len(kv) + 1
      /\ \A j \in 1..(Len(kv) + 1) :
            r[j] = IF j < i THEN kv[j] ELSE IF j = i THEN Pair(m, c)
                   ELSE IF j = i + 1 THEN Pair(kv[i].key, nn) ELSE kv[j - 1]
  BY DEF Linked
<1>2. i \in 1..Len(r) /\ i + 1 \in 1..Len(r)
  BY <1>0, <1>1
<1>3. r[i] = Pair(m, c) /\ r[i + 1] = Pair(kv[i].key, nn)
  BY <1>0, <1>1, <1>2
<1>4. r[i].key = m /\ r[i].val = c /\ r[i + 1].key = kv[i].key /\ r[i + 1].val = nn
  <2>1. kv[i].key \in Nat
    BY <1>0
  <2>. QED  BY <1>3, <2>1, PairType
<1>5. \A j \in 1..Len(kv) : j < i => j \in 1..Len(r) /\ r[j] = kv[j]
  BY <1>0, <1>1
<1>6. \A j \in 1..Len(kv) : i < j => j + 1 \in 1..Len(r) /\ r[j + 1] = kv[j]
  <2>. SUFFICES ASSUME NEW j \in 1..Len(kv), i < j  PROVE j + 1 \in 1..Len(r) /\ r[j + 1] = kv[j]
    OBVIOUS
  <2>1. j + 1 \in 1..(Len(kv) + 1) /\ ~(j + 1 < i) /\ j + 1 # i /\ j + 1 # i + 1 /\ j + 1 - 1 = j
    BY <1>0
  <2>. QED  BY <1>1, <2>1
<1>7. Above(r, l, i) = Above(kv, l, i) /\ Above(r, l, i + 1) = m
  <2>1. i # 1 => i - 1 \in 1..Len(kv) /\ i - 1 < i
    BY <1>0
  <2>2. i + 1 # 1 /\ i + 1 - 1 = i
    BY <1>0
  <2>. QED  BY <1>4, <1>5, <2>1, <2>2 DEF Above
<1>8. ASSUME NEW a \in 1..Len(kv), a < i  PROVE Above(r, l, a) = Above(kv, l, a)
  <2>1. a # 1 => a - 1 \in 1..Len(kv) /\ a - 1 < i
    BY <1>0, <1>8
  <2>. QED  BY <1>5, <2>1 DEF Above
<1>9. ASSUME NEW a \in 1..Len(kv), i < a  PROVE Above(r, l, a + 1) = Above(kv, l, a)
  <2>0. a + 1 # 1 /\ a + 1 - 1 = a /\ a # 1 /\ a - 1 \in 1..Len(kv)
    BY <1>0, <1>9
  <2>1. Above(r, l, a + 1) = r[a].key /\ Above(kv, l, a) = kv[a - 1].key
    BY <2>0 DEF Above
  <2>2. CASE a = i + 1
    <3>1. a - 1 = i
      BY <1>0, <2>2
    <3>. QED  BY <1>4, <2>1, <2>2, <3>1
  <2>3. CASE a # i + 1
    <3>1. i < a - 1 /\ a - 1 + 1 = a
      BY <1>0, <1>9, <2>3
    <3>2. r[a - 1 + 1] = kv[a - 1]
      BY <1>6, <2>0, <3>1
    <3>. QED  BY <2>1, <3>1, <3>2
  <2>. QED  BY <2>2, <2>3
<1>10. ASSUME NEW j \in 1..Len(r), j # i, j # i + 1
       PROVE  \E a \in 1..Len(kv) : a # i /\ r[j] = kv[a] /\ Above(r, l, j) = Above(kv, l, a)
  <2>1. CASE j < i
    <3>1. j \in 1..Len(kv) /\ j # i
      BY <1>0, <1>1, <2>1
    <3>. QED  BY <1>5, <1>8, <2>1, <3>1
  <2>2. CASE j > i
    <3>1. j - 1 \in 1..Len(kv) /\ i < j - 1 /\ j - 1 # i /\ j - 1 + 1 = j
      BY <1>0, <1>1, <1>10, <2>2
    <3>2. r[j] = kv[j - 1] /\ Above(r, l, j) = Above(kv, l, j - 1)
      <4>1. r[j - 1 + 1] = kv[j - 1] /\ Above(r, l, j - 1 + 1) = Above(kv, l, j - 1)
        BY <1>6, <1>9, <3>1
      <4>. QED  BY <3>1, <4>1
    <3>. QED  BY <3>1, <3>2
  <2>. QED  BY <1>0, <1>1, <1>10, <2>1, <2>2
<1>11. ASSUME NEW a \in 1..Len(kv), a # i  PROVE \E j \in 1..Len(r) : r[j] = kv[a]
  <2>1. a < i \/ i < a
    BY <1>0, <1>11
  <2>. QED  BY <1>5, <1>6, <2>1
<1>12. Top(r) = Top(kv)
  <2>1. CASE i = Len(kv)
    BY <1>1, <1>4, <2>1 DEF Top
  <2>2. CASE i # Len(kv)
    <3>1. i < Len(kv)
      BY <1>0, <2>2
    <3>. QED  BY <1>0, <1>1, <1>6, <3>1 DEF Top
  <2>. QED  BY <2>1, <2>2
<1>13. ASSUME NEW j \in 1..Len(r)  PROVE r[j].key \in Nat /\ Above(r, l, j) \in Nat /\ Above(r, l, j) < r[j].key
  <2>0. \A a \in 1..Len(kv) : Above(kv, l, a) < kv[a].key
    BY OrderedFacts
  <2>1. CASE j = i
    BY <1>0, <1>4, <1>7, <2>1
  <2>2. CASE j = i + 1
    BY <1>0, <1>4, <1>7, <2>2
  <2>3. CASE j # i /\ j # i + 1
    <3>1. PICK a \in 1..Len(kv) : r[j] = kv[a] /\ Above(r, l, j) = Above(kv, l, a)
      BY <1>10, <2>3
    <3>. QED  BY <1>0, <2>0, <3>1
  <2>. QED  BY <2>1, <2>2, <2>3
<1>14. Ordered(r, l)
  <2>1. Up(r)
    <3>. DEFINE S == {n \in 0..Len(r) : \A b \in 1..n : \A a \in 1..b : a < b => r[a].key < r[b].key}
    <3>0. Len(r) \in Nat
      BY <1>0, <1>1
    <3>1. 0 \in S
      BY <3>0
    <3>2. ASSUME NEW n \in 1..Len(r), n - 1 \in S  PROVE n \in S
      <4>. SUFFICES ASSUME NEW b \in 1..n, NEW a \in 1..b, a < b  PROVE r[a].key < r[b].key
        BY <3>0
      <4>1. CASE b < n
        <5>1. b \in 1..(n - 1)
          BY <3>0, <4>1
        <5>. QED  BY <3>2, <5>1
      <4>2. CASE b = n
        <5>1. b - 1 \in 1..Len(r) /\ b # 1 /\ a \in 1..Len(r) /\ b \in 1..Len(r) /\ b - 1 = n - 1 /\ (a = b - 1 \/ a < b - 1)
              /\ a \in 1..(b - 1) /\ b - 1 \in 1..(n - 1)
          BY <3>0, <4>2
        <5>2. r[b - 1].key < r[b].key /\ r[a].key \in Nat /\ r[b - 1].key \in Nat /\ r[b].key \in Nat
          BY <1>13, <5>1 DEF Above
        <5>3. a < b - 1 => r[a].key < r[b - 1].key
          BY <3>2, <5>1
        <5>4. CASE a = b - 1
          BY <5>2, <5>4
        <5>5. CASE a < b - 1
          <6>1. r[a].key < r[b - 1].key
            BY <5>3, <5>5
          <6>. QED  BY ONLY <5>2, <6>1
        <5>. QED  BY <5>1, <5>4, <5>5
      <4>. QED  BY <3>0, <4>1, <4>2
    <3>3. \A n \in 0..Len(r) : n \in S
      <4>. HIDE DEF S
      <4>. QED  BY <3>0, <3>1, <3>2, UpTo
    <3>4. Len(r) \in S
      <4>1. Len(r) \in 0..Len(r)
        BY <3>0
      <4>. HIDE DEF S
      <4>. QED  BY <3>3, <4>1
    <3>5. ASSUME NEW a \in 1..Len(r), NEW b \in 1..Len(r), a < b  PROVE r[a].key < r[b].key
      <4>1. a \in 1..b
        BY <3>0, <3>5
      <4>. QED  BY <3>4, <3>5, <4>1
    <3>. QED  BY <3>5 DEF Up
  <2>2. l < r[1].key /\ Len(r) >= 1
    <3>1. 1 \in 1..Len(r)
      BY <1>0, <1>1
    <3>2. Above(r, l, 1) = l
      BY DEF Above
    <3>. QED  BY <1>0, <1>1, <1>13, <3>1, <3>2
  <2>. QED  BY <1>0, <1>12, <2>1, <2>2 DEF Ordered
<1>. QED  BY <1>1, <1>2, <1>4, <1>7, <1>10, <1>11, <1>12, <1>14 DEF LinkedOK

SplitLevels(T, lv, c, nn) == [p \in T \cup {nn} |-> IF p = nn THEN lv[c] ELSE lv[p]]
SplitLows(T, lo, nn, m) == [p \in T \cup {nn} |-> IF p = nn THEN m ELSE lo[p]]

\* Splitting a full child and linking the halves leaves the table as it was.
LEMMA SplitShape ==
    ASSUME NEW pg, NEW T, NEW lv, NEW lo, NEW M, NEW c, NEW q, NEW i, FullChild(pg, T, lv, lo, M, c, q, i),
           NEW nn, NEW pg2, Splits(pg, T, c, q, i, nn, pg2)
    PROVE  /\ Shape(pg2, T \cup {nn}, SplitLevels(T, lv, c, nn), SplitLows(T, lo, nn, pg[c].kv[half].key), M, 0, q)
           /\ Top(pg2[q].kv) = Top(pg[q].kv)
<1>. DEFINE kv == pg[c].kv
            kq == pg[q].kv
            L == pg2[c].kv
            R == pg2[nn].kv
            r == pg2[q].kv
            m == kv[half].key
            T2 == T \cup {nn}
            lv2 == SplitLevels(T, lv, c, nn)
            lo2 == SplitLows(T, lo, nn, m)
<1>0. /\ c \in T /\ c \in Pids /\ c \in Nat /\ q \in T /\ q \in Pids /\ c # 0 /\ q # c
      /\ pg \in PageMaps /\ pg[c] \in Page /\ pg[q] \in Page /\ kv \in KVs /\ kq \in KVs
      /\ Len(kv) = maxKeys /\ Len(kq) \in Nat /\ Len(kq) < maxKeys
      /\ lo[c] \in Nat /\ lo[q] \in Nat /\ lv[c] \in Nat /\ lv[q] \in Nat /\ lv[c] = lv[q] - 1
      /\ Ordered(kv, lo[c]) /\ Ordered(kq, lo[q])
      /\ Top(kv) = kq[i].key /\ lo[c] = Above(kq, lo[q], i) /\ i \in 1..Len(kq) /\ i \in Nat /\ kq[i].val = c
  BY FullChildFacts
<1>1. /\ pg2 \in PageMaps /\ nn \in Pids /\ nn \notin T
      /\ Halves(kv, L, R)
      /\ pg2[c].leaf = pg[c].leaf /\ pg2[nn].leaf = pg[c].leaf /\ pg2[q].leaf = pg[q].leaf
      /\ Linked(kq, i, m, c, nn, r)
      /\ \A p \in T : p # c /\ p # q => pg2[p] = pg[p]
  BY DEF Splits
<1>2. Shape(pg, T, lv, lo, M, 0, c) /\ lv[q] # 0
  BY DEF FullChild
<1>3. ShapeType(pg, T, lv, lo, M) /\ \A p \in T : Node(pg, T, lv, lo, M, 0, p)
  BY <1>2, ShapeNode
<1>4. /\ Top(L) = m /\ m \in Nat /\ lo[c] < m /\ m < Top(kv) /\ Top(R) = Top(kv)
      /\ Ordered(L, lo[c]) /\ Ordered(R, m)
      /\ \A j \in 1..half : L[j] = kv[j] /\ j \in 1..Len(kv) /\ Above(L, lo[c], j) = Above(kv, lo[c], j)
      /\ \A j \in 1..(maxKeys - half) :
            R[j] = kv[half + j] /\ half + j \in 1..Len(kv) /\ Above(R, m, j) = Above(kv, lo[c], half + j)
  <2>1. HalvesOK(kv, lo[c], L, R, m)
    <3>. HIDE DEF L, R
    <3>. QED  BY <1>0, <1>1, HalvesFacts
  <2>. HIDE DEF L, R, m, kv
  <2>. QED  BY <2>1 DEF HalvesOK
<1>5. Len(L) = half /\ Len(R) = maxKeys - half /\ L \in KVs /\ R \in KVs
  BY <1>1 DEF Halves
<1>6. nn \in Nat /\ nn # 0 /\ nn # c /\ nn # q /\ T2 \subseteq Pids
  <2>1. nn \in Nat /\ nn # 0
    BY <1>1, TreeConstants DEF Pids
  <2>2. T \subseteq Pids
    BY <1>3 DEF ShapeType
  <2>. QED  BY <1>0, <1>1, <2>1, <2>2
<1>7. /\ r \in KVs /\ Len(r) = Len(kq) + 1 /\ Top(r) = Top(kq) /\ Ordered(r, lo[q])
      /\ i \in 1..Len(r) /\ i + 1 \in 1..Len(r)
      /\ r[i].key = m /\ r[i].val = c /\ Above(r, lo[q], i) = lo[c]
      /\ r[i + 1].key = kq[i].key /\ r[i + 1].val = nn /\ Above(r, lo[q], i + 1) = m
      /\ \A j \in 1..Len(r) : j = i \/ j = i + 1 \/
            \E a \in 1..Len(kq) : a # i /\ r[j] = kq[a] /\ Above(r, lo[q], j) = Above(kq, lo[q], a)
      /\ \A a \in 1..Len(kq) : a # i => \E j \in 1..Len(r) : r[j] = kq[a]
  <2>1. Above(kq, lo[q], i) < m /\ m < kq[i].key
    BY <1>0, <1>4
  <2>. HIDE DEF kq, r, m, kv
  <2>2. m \in Nat
    BY <1>4
  <2>3. LinkedOK(kq, lo[q], i, m, c, nn, r)
    BY <1>0, <1>1, <1>6, <2>1, <2>2, LinkedFacts
  <2>. QED  BY <1>0, <2>3 DEF LinkedOK
<1>8. /\ lv2 \in [T2 -> Nat] /\ lo2 \in [T2 -> Nat] /\ lv2[nn] = lv[c] /\ lo2[nn] = m
      /\ \A p \in T : lv2[p] = lv[p] /\ lo2[p] = lo[p] /\ p \in T2 /\ p # nn
  <2>1. lv \in [T -> Nat] /\ lo \in [T -> Nat]
    BY <1>3 DEF ShapeType
  <2>. HIDE DEF m
  <2>. QED  BY <1>0, <1>1, <1>4, <2>1 DEF SplitLevels, SplitLows
<1>9. \A p \in T : p # c => Top(pg2[p].kv) = Top(pg[p].kv)
  BY <1>1, <1>7
\* What child a of page p was, apart from c, it is.
<1>10. ASSUME NEW p \in T, lv[p] # 0, NEW a \in 1..Len(pg[p].kv), ~(p = q /\ a = i)
       PROVE  LET d == pg[p].kv[a].val
              IN  /\ d \in T /\ d # c /\ lv[d] = lv[p] - 1 /\ Top(pg2[d].kv) = pg[p].kv[a].key
                  /\ lo[d] = Above(pg[p].kv, lo[p], a)
  <2>. DEFINE d == pg[p].kv[a].val
  <2>1. Entry(pg, T, lv, lo, M, 0, p, a) /\ p # 0
    BY <1>3, <1>10 DEF Node, ShapeType, Pids
  <2>2. d \in T /\ lv[d] = lv[p] - 1 /\ Top(pg[d].kv) = pg[p].kv[a].key /\ lo[d] = Above(pg[p].kv, lo[p], a)
    BY <2>1 DEF Entry
  <2>3. d # c
    <3>. SUFFICES ASSUME d = c  PROVE FALSE
      OBVIOUS
    <3>0. /\ p \in T /\ lv[p] # 0 /\ a \in 1..Len(pg[p].kv) /\ q \in T /\ lv[q] # 0 /\ i \in 1..Len(pg[q].kv)
          /\ pg[p].kv[a].val = pg[q].kv[i].val /\ pg[p].kv[a].val # 0
      BY <1>0, <1>2, <1>10
    <3>1. p = q /\ a = i
      <4>. HIDE DEF d, kv, kq, L, R, r, m, T2, lv2, lo2
      <4>. QED  BY <1>2, <3>0, OnePlace
    <3>. QED  BY <1>10, <3>1
  <2>. HIDE DEF d
  <2>. QED  BY <1>9, <2>2, <2>3 DEF d
<1>. HIDE DEF lv2, lo2
<1>11. Node(pg2, T2, lv2, lo2, M, 0, c)
  <2>1. (pg2[c].leaf <=> lv2[c] = 0) /\ Ordered(L, lo2[c])
    BY <1>0, <1>1, <1>3, <1>4, <1>8 DEF Node
  <2>2. ASSUME lv2[c] # 0, NEW j \in 1..Len(L)  PROVE Entry(pg2, T2, lv2, lo2, M, 0, c, j)
    <3>1. lv[c] # 0 /\ j \in 1..half /\ j \in 1..Len(kv) /\ L[j] = kv[j] /\ Above(L, lo[c], j) = Above(kv, lo[c], j)
      BY <1>0, <1>4, <1>5, <1>8, <2>2
    <3>. DEFINE d == kv[j].val
    <3>2. d \in T /\ d # c /\ lv[d] = lv[c] - 1 /\ Top(pg2[d].kv) = kv[j].key /\ lo[d] = Above(kv, lo[c], j)
      BY <1>0, <1>10, <3>1
    <3>. QED  BY <1>0, <1>8, <3>1, <3>2 DEF Entry
  <2>3. ASSUME lv2[c] = 0  PROVE Contents(L, lo2[c], M)
    <3>1. Contents(kv, lo[c], M)
      BY <1>0, <1>3, <1>8, <2>3 DEF Node
    <3>. QED  BY <1>0, <1>1, <1>8, <3>1, HalvesContents
  <2>. QED  BY <2>1, <2>2, <2>3 DEF Node
<1>12. Node(pg2, T2, lv2, lo2, M, 0, nn)
  <2>1. (pg2[nn].leaf <=> lv2[nn] = 0) /\ Ordered(R, lo2[nn])
    BY <1>0, <1>1, <1>3, <1>4, <1>8 DEF Node
  <2>2. ASSUME lv2[nn] # 0, NEW j \in 1..Len(R)  PROVE Entry(pg2, T2, lv2, lo2, M, 0, nn, j)
    <3>1. /\ lv[c] # 0 /\ j \in 1..(maxKeys - half) /\ half + j \in 1..Len(kv) /\ R[j] = kv[half + j]
          /\ Above(R, m, j) = Above(kv, lo[c], half + j)
      BY <1>0, <1>4, <1>5, <1>8, <2>2
    <3>. DEFINE d == kv[half + j].val
    <3>2. d \in T /\ d # c /\ lv[d] = lv[c] - 1 /\ Top(pg2[d].kv) = kv[half + j].key /\ lo[d] = Above(kv, lo[c], half + j)
      BY <1>0, <1>10, <3>1
    <3>. QED  BY <1>0, <1>8, <3>1, <3>2 DEF Entry
  <2>3. ASSUME lv2[nn] = 0  PROVE Contents(R, lo2[nn], M)
    <3>1. Contents(kv, lo[c], M)
      BY <1>0, <1>3, <1>8, <2>3 DEF Node
    <3>2. Contents(R, Top(L), M)
      BY <1>0, <1>1, <3>1, HalvesContents
    <3>. QED  BY <1>4, <1>8, <3>2
  <2>. QED  BY <2>1, <2>2, <2>3 DEF Node
<1>13. Node(pg2, T2, lv2, lo2, M, 0, q)
  <2>1. (pg2[q].leaf <=> lv2[q] = 0) /\ Ordered(r, lo2[q]) /\ lv2[q] # 0
    BY <1>0, <1>1, <1>2, <1>3, <1>7, <1>8 DEF Node
  <2>2. ASSUME NEW j \in 1..Len(r)  PROVE Entry(pg2, T2, lv2, lo2, M, 0, q, j)
    <3>1. CASE j = i
      <4>1. c \in T2 /\ lv2[c] = lv2[q] - 1 /\ Top(pg2[c].kv) = r[i].key /\ lo2[c] = Above(r, lo2[q], i) /\ r[i].val = c
        BY <1>0, <1>4, <1>7, <1>8
      <4>. QED  BY <3>1, <4>1 DEF Entry
    <3>2. CASE j = i + 1
      <4>1. /\ nn \in T2 /\ lv2[nn] = lv2[q] - 1 /\ Top(pg2[nn].kv) = r[i + 1].key
            /\ lo2[nn] = Above(r, lo2[q], i + 1) /\ r[i + 1].val = nn
        BY <1>0, <1>4, <1>7, <1>8
      <4>. QED  BY <3>2, <4>1 DEF Entry
    <3>3. CASE j # i /\ j # i + 1
      <4>1. PICK a \in 1..Len(kq) : a # i /\ r[j] = kq[a] /\ Above(r, lo[q], j) = Above(kq, lo[q], a)
        BY <1>7, <3>3
      <4>. DEFINE d == kq[a].val
      <4>2. d \in T /\ d # c /\ lv[d] = lv[q] - 1 /\ Top(pg2[d].kv) = kq[a].key /\ lo[d] = Above(kq, lo[q], a)
        BY <1>0, <1>2, <1>10, <4>1
      <4>3. r[j].val = d /\ r[j].key = kq[a].key
        BY <4>1
      <4>. HIDE DEF d
      <4>. QED  BY <1>0, <1>8, <4>1, <4>2, <4>3 DEF Entry
    <3>. QED  BY <3>1, <3>2, <3>3
  <2>. QED  BY <2>1, <2>2 DEF Node
<1>14. ASSUME NEW p \in T, p # c, p # q  PROVE Node(pg2, T2, lv2, lo2, M, 0, p)
  <2>0. pg2[p] = pg[p] /\ lv2[p] = lv[p] /\ lo2[p] = lo[p] /\ Node(pg, T, lv, lo, M, 0, p)
    BY <1>1, <1>3, <1>8, <1>14
  <2>1. (pg2[p].leaf <=> lv2[p] = 0) /\ Ordered(pg2[p].kv, lo2[p]) /\ (lv2[p] = 0 => Contents(pg2[p].kv, lo2[p], M))
    BY <2>0 DEF Node
  <2>2. ASSUME lv2[p] # 0, NEW j \in 1..Len(pg2[p].kv)  PROVE Entry(pg2, T2, lv2, lo2, M, 0, p, j)
    <3>. DEFINE d == pg[p].kv[j].val
    <3>1. /\ d \in T /\ d # c /\ lv[d] = lv[p] - 1 /\ Top(pg2[d].kv) = pg[p].kv[j].key
          /\ lo[d] = Above(pg[p].kv, lo[p], j)
      BY <1>10, <1>14, <2>0, <2>2
    <3>. QED  BY <1>8, <2>0, <3>1 DEF Entry
  <2>. QED  BY <2>1, <2>2 DEF Node
<1>15. \A p \in T2 : Node(pg2, T2, lv2, lo2, M, 0, p)
  BY <1>11, <1>12, <1>13, <1>14
<1>16. Apart(pg2, T2, lv2, lo2)
  <2>1. \A p \in T : lo[p] \in Nat /\ Top(pg[p].kv) \in Nat
    BY <1>3, NodeFacts
  <2>2. \A p, s \in T : p # s /\ lv[p] = lv[s] => Top(pg[p].kv) <= lo[s] \/ Top(pg[s].kv) <= lo[p]
    BY <1>2 DEF Shape, Apart
  <2>3. ASSUME NEW p \in T, p # c, lv[p] = lv[c]
        PROVE  /\ Top(pg2[p].kv) <= lo2[c] \/ Top(pg2[c].kv) <= lo2[p]
               /\ Top(pg2[p].kv) <= lo2[nn] \/ Top(pg2[nn].kv) <= lo2[p]
    <3>1. Top(pg[p].kv) <= lo[c] \/ Top(kv) <= lo[p]
      BY <1>0, <2>2, <2>3
    <3>2. Top(pg2[p].kv) = Top(pg[p].kv) /\ lo2[p] = lo[p] /\ lo2[c] = lo[c] /\ lo2[nn] = m /\ Top(pg2[c].kv) = m /\ Top(pg2[nn].kv) = Top(kv)
      BY <1>0, <1>4, <1>8, <1>9, <2>3
    <3>3. lo[p] \in Nat /\ Top(pg[p].kv) \in Nat /\ Top(kv) \in Nat
      BY <1>0, <2>1
    <3>. HIDE DEF m, kv
    <3>4. lo[c] \in Nat /\ m \in Nat /\ lo[c] <= m /\ m <= Top(kv)
      <4>1. lo[c] \in Nat
        BY <1>0
      <4>2. m \in Nat /\ lo[c] < m /\ m < Top(kv)
        BY <1>4
      <4>. QED  BY ONLY <3>3, <4>1, <4>2
    <3>5. Top(pg[p].kv) <= m \/ Top(kv) <= lo[p]
      BY ONLY <3>1, <3>3, <3>4
    <3>6. Top(pg[p].kv) <= lo[c] \/ m <= lo[p]
      BY ONLY <3>1, <3>3, <3>4
    <3>. QED  BY ONLY <3>2, <3>5, <3>6
  <2>4. Top(pg2[c].kv) <= lo2[nn]
    BY <1>4, <1>8
  <2>5. ASSUME NEW p \in T, NEW s \in T, p # c, s # c, p # s, lv[p] = lv[s]
        PROVE  Top(pg2[p].kv) <= lo2[s] \/ Top(pg2[s].kv) <= lo2[p]
    BY <1>8, <1>9, <2>2, <2>5
  <2>. SUFFICES ASSUME NEW p \in T2, NEW s \in T2, p # s, lv2[p] = lv2[s]
                PROVE  Top(pg2[p].kv) <= lo2[s] \/ Top(pg2[s].kv) <= lo2[p]
    BY DEF Apart
  <2>6. CASE p \in T /\ s \in T
    <3>1. lv[p] = lv[s]
      BY <1>8, <2>6
    <3>. QED  BY <2>3, <2>5, <2>6, <3>1
  <2>7. CASE p = nn
    <3>1. s \in T /\ lv[s] = lv[c]
      BY <1>8, <2>7
    <3>. QED  BY <2>3, <2>4, <2>7, <3>1
  <2>8. CASE s = nn
    <3>1. p \in T /\ lv[p] = lv[c]
      BY <1>8, <2>8
    <3>. QED  BY <2>3, <2>4, <2>8, <3>1
  <2>. QED  BY <2>6, <2>7, <2>8
<1>17. ASSUME NEW p \in T2, p # 1  PROVE HasParent(pg2, T2, lv2, p)
  <2>0. lv2[q] # 0 /\ q \in T2
    BY <1>0, <1>2, <1>8
  <2>1. CASE p = nn
    BY <1>7, <2>0, <2>1 DEF HasParent
  <2>2. CASE p \in T
    <3>1. PICK s \in T : lv[s] # 0 /\ \E a \in 1..Len(pg[s].kv) : pg[s].kv[a].val = p
      BY <1>2, <1>17, <2>2 DEF Shape, HasParent
    <3>2. PICK a \in 1..Len(pg[s].kv) : pg[s].kv[a].val = p
      BY <3>1
    <3>3. lv2[s] # 0 /\ s \in T2
      BY <1>8, <3>1
    <3>4. CASE s = q /\ a = i
      BY <1>0, <1>7, <2>0, <3>2, <3>4 DEF HasParent
    <3>5. CASE s = q /\ a # i
      <4>1. PICK j \in 1..Len(r) : r[j] = kq[a]
        BY <1>7, <3>2, <3>5
      <4>. QED  BY <2>0, <3>2, <3>5, <4>1 DEF HasParent
    <3>6. CASE s = c
      <4>0. half \in Nat /\ maxKeys \in Nat /\ a \in 1..maxKeys
        BY <1>0, <3>2, <3>6, HalfIs
      <4>1. CASE a <= half
        <5>1. a \in 1..half /\ a \in 1..Len(L)
          BY <1>5, <4>0, <4>1
        <5>2. L[a] = kv[a]
          BY <1>4, <5>1
        <5>. QED  BY <3>2, <3>3, <3>6, <5>1, <5>2 DEF HasParent
      <4>2. CASE a > half
        <5>1. a - half \in 1..(maxKeys - half) /\ a - half \in 1..Len(R) /\ half + (a - half) = a
          BY <1>5, <4>0, <4>2
        <5>2. R[a - half] = kv[a]
          BY <1>4, <5>1
        <5>3. lv2[nn] # 0 /\ nn \in T2
          BY <1>8, <3>1, <3>6
        <5>. QED  BY <3>2, <3>6, <5>1, <5>2, <5>3 DEF HasParent
      <4>. QED  BY <4>0, <4>1, <4>2
    <3>7. CASE s # q /\ s # c
      <4>1. pg2[s] = pg[s]
        BY <1>1, <3>7
      <4>. QED  BY <3>2, <3>3, <4>1 DEF HasParent
    <3>. QED  BY <3>4, <3>5, <3>6, <3>7
  <2>. QED  BY <2>1, <2>2
<1>18. Rooted(pg2, T2, lv2, lo2)
  <2>1. 1 \in T /\ lo[1] = 0 /\ Top(pg[1].kv) = absoluteMax /\ lv[1] # 0 /\ \A p \in T : lv[p] <= lv[1]
    BY <1>2 DEF Shape, Rooted
  <2>2. 1 # c
    <3>1. lv[q] <= lv[1]
      BY <1>0, <2>1
    <3>. QED  BY <1>0, <3>1
  <2>. QED  BY <1>0, <1>8, <1>9, <2>1, <2>2 DEF Rooted
<1>19. Sizes(pg2, T2, q)
  <2>1. half \in Nat /\ maxKeys \in Nat /\ half < maxKeys /\ maxKeys - half < maxKeys
    BY HalfIs
  <2>2. Sizes(pg, T, c)
    BY <1>2 DEF Shape
  <2>3. Len(r) < maxKeys \/ Len(r) = maxKeys
    BY <1>0, <1>7, <2>1, SMTT(30)
  <2>4. \A p \in T : p # c /\ p # q => Len(pg2[p].kv) < maxKeys
    BY <1>1, <2>2 DEF Sizes
  <2>. QED  BY <1>5, <2>1, <2>3, <2>4 DEF Sizes
<1>20. ShapeType(pg2, T2, lv2, lo2, M)
  BY <1>1, <1>3, <1>6, <1>8 DEF ShapeType
<1>. QED  BY <1>7, <1>15, <1>16, <1>17, <1>18, <1>19, <1>20 DEF Shape, lv2, lo2

-----------------------------------------------------------------------------
(* Fences *)

\* The greatest keys of the leaves
Fen(pg, T, lv) == {Top(pg[p].kv) : p \in {q \in T : lv[q] = 0}}

\* E2 has the fences of E and at most one more.
Fenced(E, E2) == E2 = E \/ \E f \in 1..absoluteMax : E2 = E \cup {f}

\* The fences are as before if no leaf has another greatest key.
LEMMA FenSame ==
    ASSUME NEW pg, NEW pg2, NEW T, NEW lv, \A p \in T : lv[p] = 0 => Top(pg2[p].kv) = Top(pg[p].kv)
    PROVE  Fen(pg2, T, lv) = Fen(pg, T, lv)
BY DEF Fen

\* Splitting a leaf adds a fence between its halves; splitting another page adds none.
LEMMA SplitFences ==
    ASSUME NEW pg, NEW T, NEW lv, NEW lo, NEW M, NEW c, NEW q, NEW i, FullChild(pg, T, lv, lo, M, c, q, i),
           NEW nn, NEW pg2, Splits(pg, T, c, q, i, nn, pg2)
    PROVE  LET E == Fen(pg, T, lv)
               E2 == Fen(pg2, T \cup {nn}, SplitLevels(T, lv, c, nn))
           IN  Fenced(E, E2) /\ (lv[c] # 0 => E2 = E)
<1>. DEFINE m == pg[c].kv[half].key
            lv2 == SplitLevels(T, lv, c, nn)
            E == Fen(pg, T, lv)
            E2 == Fen(pg2, T \cup {nn}, lv2)
<1>0. /\ c \in T /\ q \in T /\ q # c /\ lv[q] # 0 /\ nn \notin T /\ lo[c] \in Nat /\ Ordered(pg[c].kv, lo[c])
      /\ pg[c].kv \in KVs /\ Len(pg[c].kv) = maxKeys /\ Halves(pg[c].kv, pg2[c].kv, pg2[nn].kv)
      /\ \A p \in T : p # c /\ p # q => pg2[p] = pg[p]
  <2>1. /\ c \in T /\ q \in T /\ q # c /\ lo[c] \in Nat /\ Ordered(pg[c].kv, lo[c])
        /\ pg[c].kv \in KVs
    BY FullChildFacts
  <2>2. lv[q] # 0 /\ Len(pg[c].kv) = maxKeys
    BY DEF FullChild
  <2>3. /\ nn \notin T /\ Halves(pg[c].kv, pg2[c].kv, pg2[nn].kv)
        /\ \A p \in T : p # c /\ p # q => pg2[p] = pg[p]
    BY DEF Splits
  <2>. QED  BY <2>1, <2>2, <2>3
<1>1. /\ Top(pg2[c].kv) = m /\ Top(pg2[nn].kv) = Top(pg[c].kv) /\ m \in Nat /\ lo[c] < m /\ m < Top(pg[c].kv)
  <2>1. HalvesOK(pg[c].kv, lo[c], pg2[c].kv, pg2[nn].kv, m)
    BY <1>0, HalvesFacts
  <2>. QED  BY <2>1 DEF HalvesOK
<1>2. m \in 1..absoluteMax
  <2>1. Top(pg[c].kv) \in Nat /\ Top(pg[c].kv) <= absoluteMax
    BY <1>0, OrderedFacts
  <2>. HIDE DEF m
  <2>. QED  BY <1>0, <1>1, <2>1, TreeConstants
<1>3. lv2[nn] = lv[c] /\ \A p \in T : lv2[p] = lv[p]
  BY <1>0 DEF SplitLevels
<1>. HIDE DEF m, lv2
<1>4. CASE lv[c] # 0
  <2>1. \A p \in T : lv[p] = 0 => pg2[p] = pg[p]
    BY <1>0, <1>4
  <2>2. {x \in T \cup {nn} : lv2[x] = 0} = {x \in T : lv[x] = 0}
    BY <1>3, <1>4
  <2>3. E2 = E
    BY <2>1, <2>2 DEF Fen
  <2>. QED  BY <2>3 DEF Fenced, lv2
<1>5. CASE lv[c] = 0
  <2>1. \A p \in T : lv[p] = 0 /\ p # c => pg2[p] = pg[p]
    BY <1>0
  <2>2. E2 \subseteq E \cup {m}
    <3>. SUFFICES ASSUME NEW p \in T \cup {nn}, lv2[p] = 0  PROVE Top(pg2[p].kv) \in E \cup {m}
      BY DEF Fen
    <3>1. CASE p = nn
      BY <1>0, <1>1, <1>5, <3>1 DEF Fen
    <3>2. CASE p = c
      BY <1>1, <3>2
    <3>3. CASE p # nn /\ p # c
      BY <1>3, <2>1, <3>3 DEF Fen
    <3>. QED  BY <3>1, <3>2, <3>3
  <2>3. m \in E2
    BY <1>0, <1>1, <1>3, <1>5 DEF Fen
  <2>4. E \subseteq E2
    <3>. SUFFICES ASSUME NEW p \in T, lv[p] = 0  PROVE Top(pg[p].kv) \in E2
      BY DEF Fen
    <3>1. CASE p = c
      BY <1>1, <1>3, <1>5, <3>1 DEF Fen
    <3>2. CASE p # c
      BY <1>3, <2>1, <3>2 DEF Fen
    <3>. QED  BY <3>1, <3>2
  <2>5. E2 = E \cup {m}
    BY <2>2, <2>3, <2>4
  <2>. HIDE DEF E, E2
  <2>. QED  BY <1>2, <1>5, <2>5 DEF Fenced, lv2, E, E2
<1>. QED  BY <1>4, <1>5

-----------------------------------------------------------------------------
(* The pages of the file *)

Nth(F, i) == IF i <= Len(F) THEN F[i] ELSE 0
Ran(F) == {F[i] : i \in 1..Len(F)}

\* F is the free list.
FreeIs(t, F) ==
    /\ F \in Seq(Pids) /\ \A i, j \in 1..Len(F) : F[i] = F[j] => i = j
    /\ t.freePage = Nth(F, 1) /\ t.pagesFree = Len(F)
    /\ \A i \in 1..Len(F) : Len(t.page[F[i]].kv) >= 1 /\ t.page[F[i]].kv[1].key = Nth(F, i + 1)

\* The pages in use are T and those of F.
Owned(t, T, F) ==
    /\ T \subseteq Pids /\ T \cap Ran(F) = {} /\ T \cup Ran(F) = 1..(t.nextPage - 1)
    /\ \A p \in Pids : t.page[p].id = IF p < t.nextPage THEN p ELSE 0

\* The file has room for the pages in use, and the next one.
Sized(t) == t.nextPage \in Pids /\ t.nextPage * pageSize <= t.data /\ padding + t.data <= t.file

Store(t, T, F) == t \in Trees /\ FreeIs(t, F) /\ Owned(t, T, F) /\ Sized(t)

SameStore(t, u) ==
    /\ u \in Trees /\ u.nextPage = t.nextPage /\ u.freePage = t.freePage /\ u.pagesFree = t.pagesFree
    /\ u.data = t.data /\ u.file = t.file

\* The parts of a tree, by name
LEMMA TreeFields ==
    ASSUME NEW t \in Trees
    PROVE  /\ t.page \in PageMaps /\ t.nextPage \in Nat /\ t.freePage \in Nat /\ t.leafKeys \in Int
           /\ t.pagesFree \in Int /\ t.data \in Nat /\ t.file \in Nat
           /\ \A p \in Pids : t.page[p] \in Page /\ t.page[p].kv \in KVs
<1>1. /\ t.page \in PageMaps /\ t.nextPage \in Nat /\ t.freePage \in Nat /\ t.leafKeys \in Int
      /\ t.pagesFree \in Int /\ t.data \in Nat /\ t.file \in Nat
  BY DEF Trees, PageMaps, Page, KVs, Pairs
<1>2. \A p \in Pids : t.page[p] \in Page
  BY <1>1 DEF PageMaps
<1>. QED  BY <1>1, <1>2 DEF Page

PagesSet(t, pg, lk, u) == SameStore(t, u) /\ u.page = pg /\ u.leafKeys = lk

\* A tree with other pages and another count of keys
LEMMA WithPages ==
    ASSUME NEW t \in Trees, NEW pg \in PageMaps, NEW lk \in Int
    PROVE  PagesSet(t, pg, lk, [t EXCEPT !.page = pg, !.leafKeys = lk])
BY DEF Trees, SameStore, PageMaps, Page, KVs, Pairs, PagesSet

\* A tree with other pages
LEMMA WithPage ==
    ASSUME NEW t \in Trees, NEW pg \in PageMaps,
           NEW u, u = [t EXCEPT !.page = pg]
    PROVE  SameStore(t, u) /\ u.page = pg /\ u.leafKeys = t.leafKeys
BY DEF Trees, SameStore, PageMaps, Page, KVs, Pairs

\* A tree with another nextPage
LEMMA WithNext ==
    ASSUME NEW t \in Trees, NEW n \in Nat,
           NEW u, u = [t EXCEPT !.nextPage = n]
    PROVE  /\ u \in Trees /\ u.page = t.page /\ u.nextPage = n /\ u.freePage = t.freePage
           /\ u.pagesFree = t.pagesFree /\ u.leafKeys = t.leafKeys /\ u.data = t.data /\ u.file = t.file
BY DEF Trees

DataSet(t, d, f, u) ==
    /\ u \in Trees /\ u.page = t.page /\ u.nextPage = t.nextPage /\ u.freePage = t.freePage
    /\ u.pagesFree = t.pagesFree /\ u.leafKeys = t.leafKeys /\ u.data = d /\ u.file = f

\* A tree with other sizes
LEMMA WithData ==
    ASSUME NEW t \in Trees, NEW d \in Nat, NEW f \in Nat
    PROVE  DataSet(t, d, f, [t EXCEPT !.data = d, !.file = f])
BY DEF Trees, DataSet

\* The free list and the ids are as before if no free page and no id changes.
LEMMA StoreKeeps ==
    ASSUME NEW t, NEW T, NEW F, Store(t, T, F), NEW u, SameStore(t, u),
           \A p \in Pids : u.page[p].id = t.page[p].id, \A p \in Ran(F) : u.page[p] = t.page[p]
    PROVE  Store(u, T, F)
<1>1. FreeIs(u, F)
  <2>1. /\ F \in Seq(Pids) /\ \A i, j \in 1..Len(F) : F[i] = F[j] => i = j
        /\ t.freePage = Nth(F, 1) /\ t.pagesFree = Len(F)
        /\ \A i \in 1..Len(F) : Len(t.page[F[i]].kv) >= 1 /\ t.page[F[i]].kv[1].key = Nth(F, i + 1)
    BY DEF Store, FreeIs
  <2>2. \A i \in 1..Len(F) : u.page[F[i]] = t.page[F[i]]
    BY DEF Ran
  <2>. QED  BY <2>1, <2>2 DEF FreeIs, SameStore
<1>2. Owned(u, T, F)
  BY DEF Store, Owned, SameStore
<1>3. Sized(u)
  BY DEF Store, Sized, SameStore
<1>. QED  BY <1>1, <1>2, <1>3 DEF Store, SameStore

\* Where pages are: those in the tree and those in the free list are different, and
\* are all up to nextPage
LEMMA StoreFacts ==
    ASSUME NEW t, NEW T, NEW F, Store(t, T, F)
    PROVE  /\ t \in Trees /\ F \in Seq(Pids) /\ Len(F) \in Nat /\ \A i \in 1..Len(F) : F[i] \in Pids /\ F[i] \in Ran(F)
           /\ \A p \in Ran(F) : \E i \in 1..Len(F) : p = F[i]
           /\ t.nextPage \in Pids /\ t.nextPage \in Nat /\ t.nextPage >= 1 /\ t.nextPage <= MaxPages
           /\ T \subseteq Pids /\ T \cap Ran(F) = {} /\ T \cup Ran(F) = 1..(t.nextPage - 1)
<1>1. t.nextPage \in Pids /\ t.nextPage \in Nat /\ t.nextPage >= 1 /\ t.nextPage <= MaxPages
  BY TreeConstants DEF Store, Sized, Pids
<1>2. F \in Seq(Pids) /\ Len(F) \in Nat /\ \A i \in 1..Len(F) : F[i] \in Pids
  BY DEF Store, FreeIs
<1>. QED  BY <1>1, <1>2 DEF Store, Owned, Ran

\* newNode takes page nn.
Takes(t, T, u, nn, leaf) ==
    /\ nn \in Pids \ T /\ u \in Trees /\ u.page = [t.page EXCEPT ![nn] = [id |-> nn, leaf |-> leaf, kv |-> <<>>]]
    /\ u.leafKeys = t.leafKeys /\ u.nextPage <= t.nextPage + 1
    /\ \E F : Store(u, T \cup {nn}, F)

\* newNode's page is a page.
LEMMA EmptyPage ==
    ASSUME NEW p \in Pids, NEW leaf \in BOOLEAN
    PROVE  /\ [id |-> p, leaf |-> leaf, kv |-> <<>>] \in Page
           /\ \A pg \in PageMaps : [pg EXCEPT ![p] = [id |-> p, leaf |-> leaf, kv |-> <<>>]] \in PageMaps
<1>1. [id |-> p, leaf |-> leaf, kv |-> <<>>] \in Page
  <2>1. p \in Nat /\ <<>> \in KVs
    BY TreeConstants DEF Pids, KVs
  <2>. QED  BY <2>1 DEF Page
<1>. HIDE DEF Page
<1>. QED  BY <1>1 DEF PageMaps

\* newNode takes the head of the free list if there is one.
LEMMA NewNodeFree ==
    ASSUME NEW t, NEW T, NEW F, Store(t, T, F), t.freePage > 0, NEW leaf \in BOOLEAN
    PROVE  Takes(t, T, newNode(t, leaf), NewPid(t), leaf)
<1>. DEFINE u == newNode(t, leaf)
            n == [id |-> NewPid(t), leaf |-> leaf, kv |-> <<>>]
            G == Tail(F)
<1>0. /\ t \in Trees /\ F \in Seq(Pids) /\ Len(F) \in Nat /\ \A i \in 1..Len(F) : F[i] \in Pids /\ F[i] \in Ran(F)
      /\ t.nextPage \in Nat
      /\ T \subseteq Pids /\ T \cap Ran(F) = {} /\ T \cup Ran(F) = 1..(t.nextPage - 1)
  BY StoreFacts
<1>1. Len(F) >= 1 /\ t.freePage = F[1] /\ NewPid(t) = F[1] /\ 1 \in 1..Len(F)
  BY <1>0 DEF Store, FreeIs, Nth, NewPid
<1>2. F[1] \in Pids /\ F[1] \in Ran(F) /\ F[1] \notin T /\ F[1] < t.nextPage
  <2>1. F[1] \in Pids /\ F[1] \in Ran(F) /\ F[1] \notin T
    BY <1>0, <1>1
  <2>. QED  BY <1>0, <2>1
<1>3. t.page[F[1]].kv[1].key = Nth(F, 2) /\ Nth(F, 2) \in Nat
  <2>1. t.page[F[1]].kv[1].key = Nth(F, 1 + 1)
    BY <1>1 DEF Store, FreeIs
  <2>2. Nth(F, 2) \in Pids \cup {0}
    BY <1>0, <1>1 DEF Nth
  <2>. QED  BY <2>1, <2>2, TreeConstants DEF Pids
<1>4. /\ u.page = [t.page EXCEPT ![F[1]] = n] /\ u.nextPage = t.nextPage /\ u.freePage = Nth(F, 2)
      /\ u.pagesFree = t.pagesFree - 1 /\ u.leafKeys = t.leafKeys /\ u.data = t.data /\ u.file = t.file /\ u \in Trees
  <2>1. n \in Page /\ [t.page EXCEPT ![F[1]] = n] \in PageMaps
    BY <1>0, <1>1, <1>2, EmptyPage, TreeFields
  <2>. DEFINE nf == Nth(F, 2)
              pf == t.pagesFree - 1
              m == [t.page EXCEPT ![F[1]] = n]
  <2>2. nf \in Nat /\ pf \in Int
    BY <1>0, <1>3, TreeFields
  <2>3. u = [t EXCEPT !.freePage = nf, !.pagesFree = pf, !.page = m]
    <3>1. TakeFree(t) = [t EXCEPT !.freePage = nf, !.pagesFree = pf]
      BY <1>0, <1>1, <1>3 DEF TakeFree, Trees
    <3>2. u = [TakeFree(t) EXCEPT !.page = [@ EXCEPT ![NewPid(t)] = n]]
      BY DEF newNode
    <3>3. TakeFree(t).page = t.page
      BY <1>0, <3>1 DEF Trees
    <3>. HIDE DEF n, u, nf, pf
    <3>. QED  BY <1>0, <1>1, <3>1, <3>2, <3>3 DEF Trees
  <2>4. m \in [Pids -> [id : Nat, leaf : BOOLEAN, kv : Seq([key : Nat, val : Nat])]]
    BY <2>1 DEF PageMaps, Page, KVs, Pairs
  <2>. HIDE DEF n, u, nf, pf, m
  <2>5. /\ u.page = m /\ u.nextPage = t.nextPage /\ u.freePage = nf
        /\ u.pagesFree = pf /\ u.leafKeys = t.leafKeys /\ u.data = t.data /\ u.file = t.file /\ u \in Trees
    BY <1>0, <2>2, <2>3, <2>4 DEF Trees
  <2>. QED  BY <2>5 DEF nf, pf, m
<1>. HIDE DEF u
<1>5. /\ G \in Seq(Pids) /\ Len(G) = Len(F) - 1 /\ \A i \in 1..Len(G) : G[i] = F[i + 1] /\ i + 1 \in 1..Len(F)
  BY <1>0, <1>1
<1>6. Ran(G) = Ran(F) \ {F[1]}
  <2>0. \A i, j \in 1..Len(F) : F[i] = F[j] => i = j
    BY DEF Store, FreeIs
  <2>1. ASSUME NEW i \in 1..Len(G)  PROVE G[i] \in Ran(F) /\ G[i] # F[1]
    <3>1. i + 1 \in 1..Len(F) /\ i + 1 # 1 /\ G[i] = F[i + 1]
      BY <1>0, <1>5
    <3>. QED  BY <1>0, <1>1, <2>0, <3>1
  <2>2. ASSUME NEW j \in 1..Len(F), F[j] # F[1]  PROVE F[j] \in Ran(G)
    <3>1. j # 1 /\ j - 1 \in 1..Len(G) /\ j - 1 + 1 = j
      BY <1>0, <1>5, <2>2
    <3>2. G[j - 1] = F[j]
      BY <1>5, <3>1
    <3>. QED  BY <3>1, <3>2 DEF Ran
  <2>3. Ran(G) \subseteq Ran(F) \ {F[1]}
    BY <2>1 DEF Ran
  <2>4. Ran(F) \ {F[1]} \subseteq Ran(G)
    BY <2>2 DEF Ran
  <2>. QED  BY <2>3, <2>4
<1>7. FreeIs(u, G)
  <2>0. /\ \A i, j \in 1..Len(F) : F[i] = F[j] => i = j
        /\ t.pagesFree = Len(F)
        /\ \A i \in 1..Len(F) : Len(t.page[F[i]].kv) >= 1 /\ t.page[F[i]].kv[1].key = Nth(F, i + 1)
    BY DEF Store, FreeIs
  <2>1. \A i, j \in 1..Len(G) : G[i] = G[j] => i = j
    <3>. SUFFICES ASSUME NEW i \in 1..Len(G), NEW j \in 1..Len(G), G[i] = G[j]  PROVE i = j
      OBVIOUS
    <3>1. i + 1 = j + 1
      BY <1>5, <2>0
    <3>. QED  BY <1>0, <1>5, <3>1
  <2>2. u.freePage = Nth(G, 1)
    BY <1>0, <1>1, <1>4, <1>5 DEF Nth
  <2>3. ASSUME NEW i \in 1..Len(G)  PROVE Len(u.page[G[i]].kv) >= 1 /\ u.page[G[i]].kv[1].key = Nth(G, i + 1)
    <3>1. G[i] = F[i + 1] /\ i + 1 \in 1..Len(F) /\ i \in Nat
      BY <1>0, <1>5
    <3>2. G[i] # F[1]
      <4>1. G[i] \in Ran(G)
        BY DEF Ran
      <4>. QED  BY <1>6, <4>1
    <3>3. u.page[G[i]] = t.page[G[i]]
      <4>1. G[i] \in Pids
        BY <1>0, <3>1
      <4>2. t.page \in PageMaps
        BY <1>0, TreeFields
      <4>. QED  BY <1>4, <3>2, <4>1, <4>2 DEF PageMaps
    <3>4. Nth(G, i + 1) = Nth(F, (i + 1) + 1)
      <4>1. CASE i + 1 <= Len(G)
        <5>1. i + 1 \in 1..Len(G) /\ i + 1 + 1 <= Len(F)
          BY <1>0, <1>5, <3>1, <4>1
        <5>. QED  BY <1>5, <4>1, <5>1 DEF Nth
      <4>2. CASE ~(i + 1 <= Len(G))
        <5>1. ~(i + 1 + 1 <= Len(F))
          BY <1>0, <1>5, <3>1, <4>2
        <5>. QED  BY <4>2, <5>1 DEF Nth
      <4>. QED  BY <4>1, <4>2
    <3>. QED  BY <2>0, <3>1, <3>3, <3>4
  <2>4. u.pagesFree = Len(G)
    BY <1>4, <1>5, <2>0
  <2>. QED  BY <1>5, <2>1, <2>2, <2>3, <2>4 DEF FreeIs
<1>8. Owned(u, T \cup {F[1]}, G)
  <2>1. \A p \in Pids : t.page[p].id = IF p < t.nextPage THEN p ELSE 0
    BY DEF Store, Owned
  <2>2. n.id = F[1]
    BY <1>1
  <2>3. t.page \in PageMaps
    BY <1>0, TreeFields
  <2>. HIDE DEF n, G
  <2>4. \A p \in Pids : u.page[p].id = IF p < u.nextPage THEN p ELSE 0
    BY <1>2, <1>4, <2>1, <2>2, <2>3 DEF PageMaps
  <2>5. T \cup {F[1]} \subseteq Pids /\ (T \cup {F[1]}) \cap Ran(G) = {} /\ (T \cup {F[1]}) \cup Ran(G) = 1..(u.nextPage - 1)
    BY <1>0, <1>2, <1>4, <1>6
  <2>. QED  BY <2>4, <2>5 DEF Owned
<1>9. Sized(u)
  BY <1>4 DEF Store, Sized
<1>10. Store(u, T \cup {F[1]}, G)
  BY <1>4, <1>7, <1>8, <1>9 DEF Store
<1>11. u.nextPage <= t.nextPage + 1
  BY <1>0, <1>4
<1>. QED  BY <1>1, <1>2, <1>4, <1>10, <1>11 DEF Takes, u

\* The file grows by enough.
LEMMA GrowByIs ==
    ASSUME NEW t, t.file \in Nat, NEW n \in Nat
    PROVE  GrowBy(t, n) \in Nat /\ GrowBy(t, n) >= n
<1>. DEFINE a == t.file + n
            b == Min({a, growLimit})
<1>1. a \in Nat /\ growLimit \in Nat
  BY TreeConstants
<1>. HIDE DEF a
<1>2. b \in Nat
  BY <1>1 DEF Min
<1>. HIDE DEF b
<1>3. Max({b, n}) \in Nat /\ Max({b, n}) >= n
  BY <1>2 DEF Max
<1>. QED  BY <1>3 DEF GrowBy, a, b

\* newNode takes the next page of the file if no page is free; the file grows if it
\* must.
LEMMA NewNodeNext ==
    ASSUME NEW t, NEW T, NEW F, Store(t, T, F), ~(t.freePage > 0), t.nextPage < MaxPages, NEW leaf \in BOOLEAN
    PROVE  Takes(t, T, newNode(t, leaf), NewPid(t), leaf)
<1>. DEFINE u == newNode(t, leaf)
            nn == t.nextPage
            n == [id |-> nn, leaf |-> leaf, kv |-> <<>>]
            m == [t.page EXCEPT ![nn] = n]
            w == TakeNext(t)
            a == nn * pageSize
            b == (nn + 1) * pageSize
<1>0. /\ t \in Trees /\ F \in Seq(Pids) /\ Len(F) \in Nat /\ \A i \in 1..Len(F) : F[i] \in Pids
      /\ nn \in Nat /\ nn >= 1 /\ nn <= MaxPages /\ nn \in Pids
      /\ T \subseteq Pids /\ T \cap Ran(F) = {} /\ T \cup Ran(F) = 1..(nn - 1)
  BY StoreFacts
<1>1. NewPid(t) = nn
  BY DEF NewPid
<1>2. F = <<>> /\ Len(F) = 0 /\ Ran(F) = {}
  <2>1. Len(F) = 0
    <3>. SUFFICES ASSUME Len(F) # 0  PROVE FALSE
      OBVIOUS
    <3>1. t.freePage = F[1] /\ F[1] \in Pids
      BY <1>0 DEF Store, FreeIs, Nth
    <3>. QED  BY <3>1, TreeConstants DEF Pids
  <2>2. F = <<>>
    BY <1>0, <2>1, EmptySeq
  <2>. QED  BY <2>1, <2>2 DEF Ran
<1>3. a \in Nat /\ b \in Nat /\ b = a + pageSize /\ pageSize \in Nat /\ padding \in Nat /\ MaxPages \in Nat
  BY <1>0, TreeConstants
<1>4. t.data \in Nat /\ t.file \in Nat /\ a <= t.data /\ padding + t.data <= t.file /\ t.page \in PageMaps
  BY <1>0, TreeFields DEF Store, Sized
<1>5. /\ w.page = t.page /\ w.nextPage = nn + 1 /\ w.freePage = t.freePage /\ w.pagesFree = t.pagesFree
      /\ w.leafKeys = t.leafKeys /\ w \in Trees /\ b <= w.data /\ padding + w.data <= w.file
  <2>. DEFINE missing == b - t.data
              v == [t EXCEPT !.nextPage = @ + 1]
  <2>1. w = IF missing > 0 THEN AllocateOffset(v, missing) ELSE v
    BY DEF TakeNext
  <2>2. /\ v.page = t.page /\ v.nextPage = nn + 1 /\ v.freePage = t.freePage /\ v.pagesFree = t.pagesFree
        /\ v.leafKeys = t.leafKeys /\ v \in Trees /\ v.data = t.data /\ v.file = t.file
    <3>1. v = [t EXCEPT !.nextPage = nn + 1] /\ nn + 1 \in Nat
      BY <1>0 DEF Trees
    <3>. HIDE DEF v, nn
    <3>. QED  BY <1>0, <3>1, WithNext
  <2>3. CASE missing > 0
    <3>. DEFINE fl == IF padding + t.data + missing < t.file THEN t.file ELSE t.file + GrowBy(v, missing)
                dt == t.data + missing
    <3>1. dt = b /\ fl \in Nat /\ padding + dt <= fl /\ missing \in Nat
      <4>1. missing \in Nat
        BY <1>3, <1>4, <2>3
      <4>2. GrowBy(v, missing) \in Nat /\ GrowBy(v, missing) >= missing
        BY <1>4, <2>2, <4>1, GrowByIs
      <4>. HIDE DEF v
      <4>. QED  BY <1>3, <1>4, <2>3, <4>1, <4>2
    <3>2. AllocateOffset(v, missing) = [v EXCEPT !.data = dt, !.file = fl]
      BY <2>2 DEF AllocateOffset, Trees
    <3>3. w = [v EXCEPT !.data = dt, !.file = fl]
      BY <2>1, <2>3, <3>2
    <3>4. dt \in Nat
      BY <1>3, <3>1
    <3>. HIDE DEF fl, dt, v, w, missing, a, b
    <3>5. /\ w \in Trees /\ w.page = v.page /\ w.nextPage = v.nextPage /\ w.freePage = v.freePage
          /\ w.pagesFree = v.pagesFree /\ w.leafKeys = v.leafKeys /\ w.data = dt /\ w.file = fl
      <4>1. v \in Trees /\ dt \in Nat /\ fl \in Nat
        BY <2>2, <3>1, <3>4
      <4>2. DataSet(v, dt, fl, w)
        BY <3>3, <4>1, WithData
      <4>. QED  BY <4>2 DEF DataSet
    <3>6. b <= w.data /\ padding + w.data <= w.file
      BY <1>3, <3>1, <3>5
    <3>. QED  BY <2>2, <3>5, <3>6
  <2>4. CASE ~(missing > 0)
    BY <1>3, <1>4, <2>1, <2>2, <2>4
  <2>. QED  BY <2>3, <2>4
<1>6. /\ u.page = m /\ u.nextPage = nn + 1 /\ u.freePage = t.freePage
      /\ u.pagesFree = t.pagesFree /\ u.leafKeys = t.leafKeys /\ b <= u.data /\ padding + u.data <= u.file /\ u \in Trees
  <2>1. m \in PageMaps
    BY <1>0, <1>4, EmptyPage
  <2>2. u = [w EXCEPT !.page = [@ EXCEPT ![nn] = n]]
    BY <1>1 DEF newNode
  <2>3. u = [w EXCEPT !.page = m]
    <3>. HIDE DEF n, u, w
    <3>. QED  BY <1>5, <2>2 DEF Trees
  <2>4. m \in [Pids -> [id : Nat, leaf : BOOLEAN, kv : Seq([key : Nat, val : Nat])]]
    BY <2>1 DEF PageMaps, Page, KVs, Pairs
  <2>. HIDE DEF u, w, m, b
  <2>. QED  BY <1>5, <2>3, <2>4 DEF Trees
<1>. HIDE DEF u, w
<1>7. FreeIs(u, F)
  BY <1>2, <1>6 DEF Store, FreeIs
<1>8. Owned(u, T \cup {nn}, F)
  <2>1. \A p \in Pids : t.page[p].id = IF p < nn THEN p ELSE 0
    BY DEF Store, Owned
  <2>2. n.id = nn
    OBVIOUS
  <2>3. \A p \in Pids : p \in Nat
    BY TreeConstants DEF Pids
  <2>. HIDE DEF n, nn
  <2>4. \A p \in Pids : u.page[p].id = IF p < u.nextPage THEN p ELSE 0
    <3>. SUFFICES ASSUME NEW p \in Pids  PROVE u.page[p].id = IF p < nn + 1 THEN p ELSE 0
      BY <1>6
    <3>1. CASE p = nn
      <4>1. u.page[p] = n
        BY <1>0, <1>4, <1>6, <3>1 DEF PageMaps
      <4>. QED  BY <1>0, <2>2, <3>1, <4>1
    <3>2. CASE p # nn
      <4>1. u.page[p] = t.page[p]
        BY <1>0, <1>4, <1>6, <3>2 DEF PageMaps
      <4>2. p < nn + 1 <=> p < nn
        BY <1>0, <2>3, <3>2
      <4>. QED  BY <2>1, <4>1, <4>2
    <3>. QED  BY <3>1, <3>2
  <2>5. T \cup {nn} \subseteq Pids /\ (T \cup {nn}) \cap Ran(F) = {}
    BY <1>0, <1>2
  <2>6. T \cup {nn} = 1..(u.nextPage - 1)
    BY <1>0, <1>2, <1>6
  <2>. QED  BY <1>2, <2>4, <2>5, <2>6 DEF Owned
<1>9. Sized(u)
  <2>1. nn + 1 \in Pids
    BY <1>0, <1>3 DEF Pids
  <2>. QED  BY <1>6, <2>1 DEF Sized
<1>10. Store(u, T \cup {nn}, F)
  BY <1>6, <1>7, <1>8, <1>9 DEF Store
<1>11. nn \notin T /\ nn \in Pids
  BY <1>0, <1>2
<1>12. u.nextPage <= t.nextPage + 1
  BY <1>0, <1>6
<1>. QED  BY <1>1, <1>6, <1>10, <1>11, <1>12 DEF Takes, u

\* newNode takes a page that is not in the tree, and the rest of the file is accounted
\* for as before.
LEMMA NewNode ==
    ASSUME NEW t, NEW T, NEW F, Store(t, T, F), t.nextPage < MaxPages, NEW leaf \in BOOLEAN
    PROVE  Takes(t, T, newNode(t, leaf), NewPid(t), leaf)
BY NewNodeFree, NewNodeNext

\* split shares the pairs of page c with a new page.
Shares(t, T, c, u, nn) ==
    /\ nn \in Pids \ T /\ u \in Trees /\ u.leafKeys = t.leafKeys /\ u.nextPage <= t.nextPage + 1
    /\ \A p \in Pids : p # c /\ p # nn => u.page[p] = t.page[p]
    /\ u.page[c].leaf = t.page[c].leaf /\ u.page[nn].leaf = t.page[c].leaf
    /\ Halves(t.page[c].kv, u.page[c].kv, u.page[nn].kv)
    /\ \E F : Store(u, T \cup {nn}, F)

\* split leaves the left half in its page and puts the right one in a new page.
LEMMA SplitIs ==
    ASSUME NEW t, NEW T, NEW F, Store(t, T, F), t.nextPage < MaxPages, NEW c \in T, Len(t.page[c].kv) = maxKeys
    PROVE  Shares(t, T, c, split(t, c), NewPid(t))
<1>. DEFINE n == t.page[c]
            nn == NewPid(t)
            w == newNode(t, n.leaf)
            u == split(t, c)
            L == SubSeq(n.kv, 1, half)
            R == SubSeq(n.kv, half + 1, maxKeys)
<1>0. t \in Trees /\ c \in Pids /\ t.page \in PageMaps /\ n \in Page /\ n.kv \in KVs
  BY StoreFacts, TreeFields
<1>1. n.leaf \in BOOLEAN
  BY <1>0 DEF Page
<1>2. Takes(t, T, w, nn, n.leaf)
  BY <1>1, NewNode
<1>. HIDE DEF w, nn
<1>3. /\ nn \in Pids /\ nn \notin T /\ w \in Trees /\ w.page = [t.page EXCEPT ![nn] = [id |-> nn, leaf |-> n.leaf, kv |-> <<>>]]
      /\ w.leafKeys = t.leafKeys /\ w.nextPage <= t.nextPage + 1
  BY <1>2 DEF Takes
<1>4. PICK G : Store(w, T \cup {nn}, G)
  BY <1>2 DEF Takes
<1>5. Halves(n.kv, L, R)
  BY <1>0, HalvesAre
<1>6. L \in KVs /\ R \in KVs
  BY <1>5 DEF Halves
<1>7. c # nn
  BY <1>3
<1>. DEFINE pg == [[w.page EXCEPT ![nn].kv = R] EXCEPT ![c].kv = L]
<1>8. w.page \in PageMaps /\ w.leafKeys \in Int
  BY <1>3, TreeFields
<1>9. /\ pg \in PageMaps /\ \A p \in Pids : p # c /\ p # nn => pg[p] = t.page[p]
      /\ pg[c] = [n EXCEPT !.kv = L] /\ pg[nn] = [id |-> nn, leaf |-> n.leaf, kv |-> R]
  <2>. HIDE DEF L, R
  <2>1. w.page[nn] = [id |-> nn, leaf |-> n.leaf, kv |-> <<>>] /\ \A p \in Pids : p # nn => w.page[p] = t.page[p]
    BY <1>0, <1>3 DEF PageMaps
  <2>2. pg[nn] = [w.page[nn] EXCEPT !.kv = R] /\ pg[c] = [w.page[c] EXCEPT !.kv = L]
    BY <1>0, <1>3, <1>7, <1>8 DEF PageMaps
  <2>3. \A p \in Pids : p # c /\ p # nn => pg[p] = w.page[p]
    BY <1>8 DEF PageMaps
  <2>4. pg[nn] = [id |-> nn, leaf |-> n.leaf, kv |-> R] /\ pg[c] = [n EXCEPT !.kv = L]
    BY <1>0, <1>7, <2>1, <2>2
  <2>5. pg[nn] \in Page /\ pg[c] \in Page
    <3>1. nn \in Nat
      BY <1>3, TreeConstants DEF Pids
    <3>. HIDE DEF pg
    <3>. QED  BY <1>0, <1>1, <1>6, <2>4, <3>1 DEF Page
  <2>6. pg \in PageMaps
    <3>1. pg = [p \in Pids |-> pg[p]]
      BY <1>8 DEF PageMaps
    <3>2. \A p \in Pids : pg[p] \in Page
      <4>1. \A p \in Pids : w.page[p] \in Page
        BY <1>8 DEF PageMaps
      <4>. HIDE DEF pg
      <4>. QED  BY <2>3, <2>5, <4>1
    <3>. HIDE DEF pg
    <3>. QED  BY <3>1, <3>2 DEF PageMaps
  <2>. HIDE DEF pg
  <2>. QED  BY <2>1, <2>3, <2>4, <2>6
<1>. HIDE DEF L, R
<1>10. SameStore(w, u) /\ u.page = pg /\ u.leafKeys = w.leafKeys
  <2>. DEFINE w1 == [w EXCEPT !.page = [@ EXCEPT ![nn].kv = R]]
              pg1 == [w.page EXCEPT ![nn].kv = R]
  <2>1. u = [w1 EXCEPT !.page = [@ EXCEPT ![c].kv = L]]
    BY DEF split, w, nn, half, L, R
  <2>2. pg1 \in PageMaps
    <3>1. w.page[nn] \in Page
      BY <1>3, <1>8 DEF PageMaps
    <3>2. [w.page[nn] EXCEPT !.kv = R] \in Page
      BY <1>6, <3>1 DEF Page
    <3>. QED  BY <1>3, <1>8, <3>2 DEF PageMaps
  <2>3. w1 = [w EXCEPT !.page = pg1]
    BY <1>3 DEF Trees
  <2>. HIDE DEF w1, pg1, u, pg
  <2>4. SameStore(w, w1) /\ w1.page = pg1 /\ w1.leafKeys = w.leafKeys
    BY <1>3, <2>2, <2>3, WithPage
  <2>5. w1 \in Trees
    BY <2>4 DEF SameStore
  <2>6. u = [w1 EXCEPT !.page = pg]
    BY <2>1, <2>4, <2>5 DEF Trees, pg, pg1
  <2>7. SameStore(w1, u) /\ u.page = pg /\ u.leafKeys = w1.leafKeys
    BY <1>9, <2>5, <2>6, WithPage
  <2>. QED  BY <2>4, <2>7 DEF SameStore
<1>. HIDE DEF pg, u
<1>11. SameStore(w, u) /\ u.page = pg /\ u.leafKeys = w.leafKeys
  BY <1>10
<1>12. \A p \in Pids : u.page[p].id = w.page[p].id
  <2>1. pg[c].id = n.id /\ pg[nn].id = nn
    BY <1>0, <1>9 DEF Page
  <2>2. w.page[nn].id = nn /\ \A p \in Pids : p # nn => w.page[p] = t.page[p]
    BY <1>0, <1>3 DEF PageMaps
  <2>. QED  BY <1>0, <1>9, <1>11, <2>1, <2>2
<1>13. \A p \in Ran(G) : u.page[p] = w.page[p]
  <2>1. (T \cup {nn}) \cap Ran(G) = {} /\ Ran(G) \subseteq Pids
    BY <1>4, StoreFacts
  <2>2. \A p \in Pids : p # nn => w.page[p] = t.page[p]
    BY <1>0, <1>3 DEF PageMaps
  <2>. QED  BY <1>9, <1>11, <2>1, <2>2
<1>14. Store(u, T \cup {nn}, G)
  BY <1>4, <1>11, <1>12, <1>13, StoreKeeps
<1>15. /\ \A p \in Pids : p # c /\ p # nn => u.page[p] = t.page[p]
       /\ u.page[c].leaf = n.leaf /\ u.page[nn].leaf = n.leaf /\ u.page[c].kv = L /\ u.page[nn].kv = R
  <2>1. pg[c].leaf = n.leaf /\ pg[c].kv = L
    BY <1>0, <1>9 DEF Page
  <2>2. pg[nn].leaf = n.leaf /\ pg[nn].kv = R
    <3>. HIDE DEF R, n
    <3>. QED  BY <1>9
  <2>. QED  BY <1>9, <1>11, <2>1, <2>2
<1>. HIDE DEF L, R, n
<1>16. u \in Trees /\ u.nextPage = w.nextPage
  BY <1>11 DEF SameStore
<1>17. Shares(t, T, c, u, nn)
  BY <1>3, <1>5, <1>11, <1>14, <1>15, <1>16 DEF Shares, n
<1>. QED  BY <1>17 DEF u, nn

-----------------------------------------------------------------------------
(* Set *)

\* Set may go to page p for key k.
SetReady(u, T, lv, lo, M, F, p, k) ==
    /\ Shape(u.page, T, lv, lo, M, 0, 0) /\ Store(u, T, F) /\ p \in T
    /\ k \in 1..absoluteMax /\ lo[p] < k /\ k <= Top(u.page[p].kv)
    /\ u.nextPage + lv[p] <= MaxPages

\* A Set of k below page p of tree u gives tree w, with pages T2.
Sets(u, T, lv, lo, M, k, v, p, w, T2, lv2, lo2, F2) ==
    /\ Shape(w.page, T2, lv2, lo2, [M EXCEPT ![k] = v], 0, p) /\ Store(w, T2, F2)
    /\ T \subseteq T2 /\ \A q \in T : lv2[q] = lv[q] /\ lo2[q] = lo[q]
    /\ \A q \in T : lv[q] > lv[p] => w.page[q] = u.page[q]
    /\ w.nextPage <= u.nextPage + lv[p]
    /\ w.leafKeys = u.leafKeys + IF M[k] = -1 THEN 1 ELSE 0
    /\ Fenced(Fen(u.page, T, lv), Fen(w.page, T2, lv2))
    /\ lv[p] = 0 => Fen(w.page, T2, lv2) = Fen(u.page, T, lv)

SetsBelow(u, T, lv, lo, M, k, v, p, w) ==
    \E T2, lv2, lo2, F2 : Sets(u, T, lv, lo, M, k, v, p, w, T2, lv2, lo2, F2)

\* The last key of a page is its greatest.
LEMMA MaxKeyTop ==
    ASSUME NEW n, Len(n.kv) >= 1
    PROVE  maxKey(n) = Top(n.kv)
<1>1. n.kv # <<>>
  OBVIOUS
<1>. QED  BY <1>1 DEF maxKey, Top, Last

\* A page that is not full need not be excepted.
LEMMA ShapeFull ==
    ASSUME NEW pg, NEW T, NEW lv, NEW lo, NEW M, NEW z, NEW full, NEW full2, Shape(pg, T, lv, lo, M, z, full),
           full \in T => Len(pg[full].kv) # maxKeys
    PROVE  Shape(pg, T, lv, lo, M, z, full2)
<1>1. Sizes(pg, T, full2)
  BY DEF Shape, Sizes
<1>. QED  BY <1>1 DEF Shape

\* set on a leaf
LEMMA LeafSets ==
    ASSUME NEW u, NEW T, NEW lv, NEW lo, NEW M, NEW F, NEW p, NEW k, SetReady(u, T, lv, lo, M, F, p, k),
           lv[p] = 0, NEW v \in Vals \cup {0}
    PROVE  SetsBelow(u, T, lv, lo, M, k, v, p, SetLeaf(u, p, k, v))
<1>. DEFINE w == SetLeaf(u, p, k, v)
            r == nodeSet(u.page[p], k, v)
            pg2 == [u.page EXCEPT ![p] = r]
            lk == IF Has(u.page[p], k) THEN u.leafKeys ELSE u.leafKeys + 1
            M2 == [M EXCEPT ![k] = v]
<1>0. /\ Shape(u.page, T, lv, lo, M, 0, 0) /\ Store(u, T, F) /\ p \in T
      /\ k \in 1..absoluteMax /\ lo[p] < k /\ k <= Top(u.page[p].kv)
  BY DEF SetReady
<1>1. u \in Trees /\ p \in Pids /\ u.page \in PageMaps /\ u.page[p] \in Page /\ u.leafKeys \in Int /\ u.nextPage \in Nat /\ T \subseteq Pids
  BY <1>0, StoreFacts, TreeFields
<1>2. /\ Shape(pg2, T, lv, lo, M2, 0, p) /\ (Has(u.page[p], k) <=> M[k] # -1)
      /\ Top(pg2[p].kv) = Top(u.page[p].kv)
  <2>. HIDE DEF pg2, M2
  <2>. QED  BY <1>0, LeafSet DEF pg2, M2
<1>3. r \in Page /\ r.id = u.page[p].id
  <2>1. NodeSets(u.page[p], k, v, search(u.page[p], k), r)
    <3>1. Up(u.page[p].kv)
      <4>1. ShapeType(u.page, T, lv, lo, M) /\ Node(u.page, T, lv, lo, M, 0, p)
        BY <1>0, ShapeNode
      <4>. QED  BY <1>0, <4>1, NodeFacts
    <3>2. k \in Nat /\ v \in Nat
      BY <1>0, TreeConstants
    <3>. QED  BY <1>1, <3>1, <3>2, NodeSetIs
  <2>. QED  BY <2>1 DEF NodeSets
<1>4. pg2 \in PageMaps
  <2>. HIDE DEF r
  <2>. QED  BY <1>1, <1>3 DEF PageMaps
<1>5. lk \in Int
  BY <1>1
<1>6. w = [u EXCEPT !.page = pg2, !.leafKeys = lk]
  BY <1>1 DEF SetLeaf, Trees
<1>. HIDE DEF w, pg2, lk, M2, r
<1>7. SameStore(u, w) /\ w.page = pg2 /\ w.leafKeys = lk
  <2>1. PagesSet(u, pg2, lk, w)
    BY <1>1, <1>4, <1>5, <1>6, WithPages
  <2>. QED  BY <2>1 DEF PagesSet
<1>8. \A q \in Pids : pg2[q].id = u.page[q].id /\ (q # p => pg2[q] = u.page[q])
  BY <1>1, <1>3 DEF PageMaps, pg2
<1>9. Store(w, T, F)
  <2>1. \A q \in Ran(F) : q \in Pids /\ q # p
    BY <1>0, StoreFacts
  <2>. QED  BY <1>0, <1>7, <1>8, <2>1, StoreKeeps
<1>10. w.leafKeys = u.leafKeys + IF M[k] = -1 THEN 1 ELSE 0
  BY <1>1, <1>2, <1>7 DEF lk
<1>11. w.nextPage <= u.nextPage + lv[p]
  <2>1. w.nextPage = u.nextPage
    BY <1>7 DEF SameStore
  <2>. QED  BY <1>1, <2>1
<1>12. \A q \in T : lv[q] > lv[p] => w.page[q] = u.page[q]
  <2>1. ~(lv[p] > lv[p])
    OBVIOUS
  <2>. QED  BY <1>1, <1>7, <1>8, <2>1
<1>13. Fen(w.page, T, lv) = Fen(u.page, T, lv)
  <2>1. \A q \in T : Top(w.page[q].kv) = Top(u.page[q].kv)
    BY <1>1, <1>2, <1>7, <1>8
  <2>. QED  BY <2>1, FenSame
<1>14. Sets(u, T, lv, lo, M, k, v, p, w, T, lv, lo, F)
  BY <1>2, <1>7, <1>9, <1>10, <1>11, <1>12, <1>13 DEF Sets, Fenced, M2
<1>. QED  BY <1>14 DEF SetsBelow, w

\* A split of page c, and the links of page q to the halves
LinksTo(t, T, c, q, i, nn, w) ==
    /\ Splits(t.page, T, c, q, i, nn, w.page) /\ (\E F : Store(w, T \cup {nn}, F))
    /\ w.leafKeys = t.leafKeys /\ w.nextPage <= t.nextPage + 1

\* Splitting a child and linking the halves, as pages of the file
LEMMA SplitLink ==
    ASSUME NEW t, NEW T, NEW lv, NEW lo, NEW M, NEW F, NEW c, NEW q, NEW i, FullChild(t.page, T, lv, lo, M, c, q, i),
           Store(t, T, F), t.nextPage < MaxPages
    PROVE  LinksTo(t, T, c, q, i, NewPid(t), Link(split(t, c), q, c, NewPid(t)))
<1>. DEFINE nn == NewPid(t)
            u == split(t, c)
            w == Link(u, q, c, nn)
            kv == t.page[c].kv
            kq == t.page[q].kv
            m == kv[half].key
            r == nodeSet(nodeSet(t.page[q], m, c), kq[i].key, nn)
            pg == [u.page EXCEPT ![q] = r]
<1>0. /\ c \in T /\ c \in Pids /\ c \in Nat /\ q \in T /\ q \in Pids /\ c # 0 /\ q # c
      /\ t.page \in PageMaps /\ t.page[q] \in Page /\ kv \in KVs /\ kq \in KVs
      /\ Len(kv) = maxKeys /\ Len(kq) \in Nat /\ Up(kq)
      /\ lo[c] \in Nat /\ lo[q] \in Nat
      /\ Ordered(kv, lo[c]) /\ Ordered(kq, lo[q])
      /\ Top(kv) = kq[i].key /\ lo[c] = Above(kq, lo[q], i) /\ i \in 1..Len(kq) /\ i \in Nat
  BY FullChildFacts
<1>1. Shares(t, T, c, u, nn)
  BY <1>0, SplitIs
<1>. HIDE DEF u, nn
<1>2. /\ nn \in Pids /\ nn \notin T /\ u \in Trees /\ u.leafKeys = t.leafKeys /\ u.nextPage <= t.nextPage + 1
      /\ \A p \in Pids : p # c /\ p # nn => u.page[p] = t.page[p]
      /\ u.page[c].leaf = t.page[c].leaf /\ u.page[nn].leaf = t.page[c].leaf
      /\ Halves(kv, u.page[c].kv, u.page[nn].kv)
  BY <1>1 DEF Shares
<1>3. PICK G : Store(u, T \cup {nn}, G)
  BY <1>1 DEF Shares
<1>4. /\ Top(u.page[c].kv) = m /\ m \in Nat /\ lo[c] < m /\ m < Top(kv) /\ Top(u.page[nn].kv) = Top(kv)
      /\ Len(u.page[c].kv) >= 1 /\ Len(u.page[nn].kv) >= 1
  <2>1. HalvesOK(kv, lo[c], u.page[c].kv, u.page[nn].kv, m)
    BY <1>0, <1>2, HalvesFacts
  <2>. HIDE DEF m, kv
  <2>. QED  BY <2>1 DEF HalvesOK, Ordered
<1>5. maxKey(u.page[c]) = m /\ maxKey(u.page[nn]) = kq[i].key
  BY <1>0, <1>4, MaxKeyTop
<1>6. u.page[q] = t.page[q] /\ q # nn
  BY <1>0, <1>2
<1>7. r \in Page /\ r.id = t.page[q].id /\ r.leaf = t.page[q].leaf /\ Linked(kq, i, m, c, nn, r.kv)
  <2>1. m < kq[i].key
    BY <1>0, <1>4
  <2>2. i > 1 => kq[i - 1].key < m
    <3>1. i > 1 => lo[c] = kq[i - 1].key
      BY <1>0 DEF Above
    <3>. QED  BY <1>4, <3>1
  <2>3. nn \in Nat
    BY <1>2, TreeConstants DEF Pids
  <2>4. m \in Nat
    BY <1>4
  <2>. HIDE DEF m
  <2>. QED  BY <1>0, <2>1, <2>2, <2>3, <2>4, LinkIs
<1>8. u.page \in PageMaps
  BY <1>2, TreeFields
<1>9. /\ pg \in PageMaps /\ pg[q] = r /\ \A p \in Pids : p # q => pg[p] = u.page[p]
  <2>. HIDE DEF r
  <2>. QED  BY <1>0, <1>7, <1>8 DEF PageMaps
<1>10. w = [u EXCEPT !.page = pg]
  <2>1. w = [u EXCEPT !.page[q] = nodeSet(nodeSet(@, m, c), kq[i].key, nn)]
    BY <1>5 DEF Link
  <2>2. w = [u EXCEPT !.page = [u.page EXCEPT ![q] = nodeSet(nodeSet(u.page[q], m, c), kq[i].key, nn)]]
    BY <2>1
  <2>. QED  BY <1>6, <2>2
<1>. HIDE DEF w, pg, r, m
<1>11. SameStore(u, w) /\ w.page = pg /\ w.leafKeys = u.leafKeys
  BY <1>2, <1>9, <1>10, WithPage
<1>12. Store(w, T \cup {nn}, G)
  <2>1. \A p \in Ran(G) : p \in Pids /\ p # q
    <3>1. (T \cup {nn}) \cap Ran(G) = {} /\ \A p \in Ran(G) : p \in Pids
      BY <1>3, StoreFacts
    <3>. QED  BY <1>0, <3>1
  <2>2. \A p \in Pids : w.page[p].id = u.page[p].id
    BY <1>6, <1>7, <1>9, <1>11
  <2>3. \A p \in Ran(G) : w.page[p] = u.page[p]
    BY <1>9, <1>11, <2>1
  <2>. QED  BY <1>3, <1>11, <2>2, <2>3, StoreKeeps
<1>13. Splits(t.page, T, c, q, i, nn, w.page)
  <2>1. w.page[c] = u.page[c] /\ w.page[nn] = u.page[nn] /\ w.page[q] = r
    BY <1>0, <1>2, <1>6, <1>9, <1>11
  <2>2. T \subseteq Pids
    BY StoreFacts
  <2>3. \A p \in T : p # c /\ p # q => w.page[p] = t.page[p]
    BY <1>2, <1>9, <1>11, <2>2
  <2>4. w.page \in PageMaps /\ nn \in Pids \ T
    BY <1>2, <1>9, <1>11
  <2>. QED  BY <1>2, <1>7, <2>1, <2>3, <2>4 DEF Splits, m
<1>14. w.leafKeys = t.leafKeys /\ w.nextPage <= t.nextPage + 1
  BY <1>2, <1>11 DEF SameStore
<1>15. LinksTo(t, T, c, q, i, nn, w)
  BY <1>12, <1>13, <1>14 DEF LinksTo
<1>. QED  BY <1>15 DEF w, u, nn

\* set on an internal page, if set works on the pages below
LEMMA SetGoesOn ==
    ASSUME NEW u, NEW T, NEW lv, NEW lo, NEW M, NEW F, NEW p, NEW k, SetReady(u, T, lv, lo, M, F, p, k),
           lv[p] # 0, NEW v \in Vals \cup {0}, NEW below,
           \A c \in T : lv[c] = lv[p] - 1 /\ SetReady(u, T, lv, lo, M, F, c, k)
                           => SetsBelow(u, T, lv, lo, M, k, v, c, below[c][u])
    PROVE  SetsBelow(u, T, lv, lo, M, k, v, p, SetBelow(u, p, k, below))
<1>. DEFINE c == Child(u, p, k)
            s == search(u.page[p], k)
            w == below[c][u]
            nn == NewPid(w)
            x == Link(split(w, c), p, c, nn)
            y == SetBelow(u, p, k, below)
            M2 == [M EXCEPT ![k] = v]
<1>0. /\ Shape(u.page, T, lv, lo, M, 0, 0) /\ Store(u, T, F) /\ p \in T
      /\ k \in 1..absoluteMax /\ lo[p] < k /\ k <= Top(u.page[p].kv) /\ u.nextPage + lv[p] <= MaxPages
  BY DEF SetReady
<1>1. GoesOn(u.page, T, lv, lo, p, k, s, c)
  <2>1. k \in Nat
    BY <1>0
  <2>. QED  BY <1>0, <2>1, ChildIs
<1>2. /\ s \in 1..Len(u.page[p].kv) /\ c = u.page[p].kv[s].val
      /\ lo[c] < k /\ k <= Top(u.page[c].kv) /\ c \in T /\ lv[c] = lv[p] - 1
  <2>. HIDE DEF s, c
  <2>. QED  BY <1>1 DEF GoesOn
<1>3. u \in Trees /\ T \subseteq Pids /\ u.nextPage \in Nat /\ MaxPages \in Nat
  BY <1>0, StoreFacts, TreeConstants
<1>4. Len(u.page[p].kv) \in Nat /\ lv[p] \in Nat /\ lv[c] \in Nat
  <2>1. ShapeType(u.page, T, lv, lo, M) /\ Node(u.page, T, lv, lo, M, 0, p) /\ Node(u.page, T, lv, lo, M, 0, c)
    BY <1>0, <1>2, ShapeNode
  <2>. HIDE DEF c
  <2>2. p \in T /\ c \in T
    BY <1>0, <1>2
  <2>3. Len(u.page[p].kv) \in Nat /\ lv[p] \in Nat
    BY ONLY <2>1, <2>2, NodeFacts
  <2>4. lv[c] \in Nat
    BY <2>1, <2>2 DEF ShapeType
  <2>. QED  BY <2>3, <2>4
<1>5. c # 0 /\ c \in Pids
  <2>. HIDE DEF c
  <2>. QED  BY <1>2, <1>3, TreeConstants DEF Pids
<1>6. y = IF isFull(w.page[c]) THEN x ELSE w
  <2>1. WithKey(u, p, k) = u
    BY <1>2, <1>4 DEF WithKey
  <2>2. WithChild(u, p, k) = u
    BY <1>2, <1>5, <2>1 DEF WithChild
  <2>. QED  BY <2>2 DEF SetBelow
<1>7. SetsBelow(u, T, lv, lo, M, k, v, c, w)
  <2>1. u.nextPage + lv[c] <= MaxPages
    <3>. HIDE DEF c
    <3>. QED  BY <1>0, <1>2, <1>3, <1>4
  <2>2. SetReady(u, T, lv, lo, M, F, c, k)
    <3>. HIDE DEF c
    <3>. QED  BY <1>0, <1>2, <2>1 DEF SetReady
  <2>. HIDE DEF c
  <2>. QED  BY <1>2, <2>2
<1>. HIDE DEF c, s, w, nn, x, y
<1>8. PICK T2, lv2, lo2, F2 : Sets(u, T, lv, lo, M, k, v, c, w, T2, lv2, lo2, F2)
  BY <1>7 DEF SetsBelow
<1>9. /\ Shape(w.page, T2, lv2, lo2, M2, 0, c) /\ Store(w, T2, F2)
      /\ T \subseteq T2 /\ \A q \in T : lv2[q] = lv[q] /\ lo2[q] = lo[q]
      /\ \A q \in T : lv[q] > lv[c] => w.page[q] = u.page[q]
      /\ w.nextPage <= u.nextPage + lv[c]
      /\ w.leafKeys = u.leafKeys + IF M[k] = -1 THEN 1 ELSE 0
      /\ Fenced(Fen(u.page, T, lv), Fen(w.page, T2, lv2))
      /\ lv[c] = 0 => Fen(w.page, T2, lv2) = Fen(u.page, T, lv)
  BY <1>8 DEF Sets
<1>. HIDE DEF M2
<1>10. w.page[p] = u.page[p]
  <2>1. lv[p] > lv[c]
    BY <1>2, <1>4
  <2>. QED  BY <1>0, <1>9, <2>1
<1>11. \A q \in T : lv[q] > lv[p] => lv[q] > lv[c] /\ q # p /\ q # c
  <2>1. lv \in [T -> Nat]
    BY <1>0 DEF Shape, ShapeType
  <2>. QED  BY <1>2, <1>4, <2>1
<1>12. w.nextPage \in Nat /\ w.nextPage <= u.nextPage + lv[p] - 1 /\ w.nextPage < MaxPages
  <2>1. w.nextPage \in Nat
    BY <1>9, StoreFacts
  <2>. QED  BY <1>0, <1>2, <1>3, <1>4, <1>9, <2>1
<1>13. CASE ~isFull(w.page[c])
  <2>1. Shape(w.page, T2, lv2, lo2, M2, 0, p)
    BY <1>9, <1>13, ShapeFull DEF isFull
  <2>2. \A q \in T : lv[q] > lv[p] => w.page[q] = u.page[q]
    BY <1>9, <1>11
  <2>3. w.nextPage <= u.nextPage + lv[p]
    BY <1>3, <1>4, <1>12
  <2>4. Sets(u, T, lv, lo, M, k, v, p, w, T2, lv2, lo2, F2)
    BY <1>9, <2>1, <2>2, <2>3 DEF Sets, M2
  <2>5. y = w
    BY <1>6, <1>13
  <2>. QED  BY <2>4, <2>5 DEF SetsBelow, y
<1>14. CASE isFull(w.page[c])
  <2>1. FullChild(w.page, T2, lv2, lo2, M2, c, p, s)
    BY <1>0, <1>2, <1>9, <1>10, <1>14 DEF FullChild, isFull
  <2>2. LinksTo(w, T2, c, p, s, nn, x)
    <3>. HIDE DEF nn
    <3>. QED  BY <1>9, <1>12, <2>1, SplitLink DEF x, nn
  <2>3. /\ Splits(w.page, T2, c, p, s, nn, x.page) /\ x.leafKeys = w.leafKeys /\ x.nextPage <= w.nextPage + 1
    BY <2>2 DEF LinksTo
  <2>4. PICK F3 : Store(x, T2 \cup {nn}, F3)
    BY <2>2 DEF LinksTo
  <2>. DEFINE lv3 == SplitLevels(T2, lv2, c, nn)
              lo3 == SplitLows(T2, lo2, nn, w.page[c].kv[half].key)
  <2>5. Shape(x.page, T2 \cup {nn}, lv3, lo3, M2, 0, p)
    BY <2>1, <2>3, SplitShape
  <2>6. nn \notin T2 /\ \A q \in T2 : q # c /\ q # p => x.page[q] = w.page[q]
    BY <2>3 DEF Splits
  <2>7. \A q \in T : q \in T2 \cup {nn} /\ lv3[q] = lv[q] /\ lo3[q] = lo[q]
    BY <1>9, <2>6 DEF SplitLevels, SplitLows
  <2>8. \A q \in T : lv[q] > lv[p] => x.page[q] = u.page[q]
    BY <1>9, <1>11, <2>6
  <2>9. x.nextPage <= u.nextPage + lv[p]
    <3>1. x.nextPage \in Nat
      BY <2>4, StoreFacts
    <3>. QED  BY <1>3, <1>4, <1>12, <2>3, <3>1
  <2>10. Fenced(Fen(u.page, T, lv), Fen(x.page, T2 \cup {nn}, lv3))
    <3>1. /\ Fenced(Fen(w.page, T2, lv2), Fen(x.page, T2 \cup {nn}, lv3))
          /\ lv2[c] # 0 => Fen(x.page, T2 \cup {nn}, lv3) = Fen(w.page, T2, lv2)
      BY <2>1, <2>3, SplitFences
    <3>2. lv2[c] = lv[c]
      BY <1>2, <1>9
    <3>. HIDE DEF lv3
    <3>. QED  BY <1>9, <3>1, <3>2
  <2>. HIDE DEF lv3, lo3
  <2>11. Sets(u, T, lv, lo, M, k, v, p, x, T2 \cup {nn}, lv3, lo3, F3)
    BY <1>9, <2>3, <2>4, <2>5, <2>7, <2>8, <2>9, <2>10 DEF Sets, M2
  <2>12. y = x
    BY <1>6, <1>14
  <2>. QED  BY <2>11, <2>12 DEF SetsBelow, y
<1>. QED  BY <1>13, <1>14

IsSet(f, k, v) ==
    f = [n \in 0..MaxPages |-> [pid \in Pids |-> [u \in Trees |->
            IF n = 0 \/ u.page[pid].leaf THEN SetLeaf(u, pid, k, v)
            ELSE SetBelow(u, pid, k, f[n - 1])]]]

\* The recursion of set defines a function.
LEMMA SetExists ==
    ASSUME NEW k, NEW v
    PROVE  \E f : IsSet(f, k, v)
<1>. DEFINE N == MaxPages
            B(n, h) == [pid \in Pids |-> [u \in Trees |->
                IF n = 0 \/ u.page[pid].leaf THEN SetLeaf(u, pid, k, v)
                ELSE SetBelow(u, pid, k, h)]]
            On(f, m) == f[0] = B(0, 0) /\ \A n \in 1..m : f[n] = B(n, f[n - 1])
            S == {m \in 0..N : \E f : On(f, m)}
<1>0. N \in Nat
  BY TreeConstants
<1>1. \A h : B(0, h) = B(0, 0)
  OBVIOUS
<1>. HIDE DEF B, N
<1>2. 0 \in S
  <2>1. On([n \in 0..0 |-> B(0, 0)], 0)
    OBVIOUS
  <2>2. 0 \in 0..N
    BY <1>0
  <2>. QED  BY <2>1, <2>2
<1>3. ASSUME NEW m \in 1..N, m - 1 \in S  PROVE m \in S
  <2>1. PICK f : On(f, m - 1)
    BY <1>3
  <2>. DEFINE g == [n \in 0..m |-> IF n = m THEN B(m, f[m - 1]) ELSE f[n]]
  <2>2. g[m] = B(m, f[m - 1]) /\ \A n \in 0..(m - 1) : g[n] = f[n]
    BY <1>0
  <2>3. f[0] = B(0, 0) /\ \A n \in 1..(m - 1) : f[n] = B(n, f[n - 1])
    BY <2>1
  <2>4. g[0] = B(0, 0)
    <3>1. 0 \in 0..(m - 1)
      BY <1>0
    <3>. QED  BY <2>2, <2>3, <3>1
  <2>5. ASSUME NEW n \in 1..m  PROVE g[n] = B(n, g[n - 1])
    <3>1. n - 1 \in 0..(m - 1)
      BY <1>0
    <3>2. g[n - 1] = f[n - 1]
      BY <2>2, <3>1
    <3>3. CASE n = m
      BY <2>2, <3>2, <3>3
    <3>4. CASE n # m
      <4>1. n \in 0..(m - 1) /\ n \in 1..(m - 1)
        BY <1>0, <3>4
      <4>2. g[n] = f[n] /\ f[n] = B(n, f[n - 1])
        BY <2>2, <2>3, <4>1
      <4>. QED  BY <3>2, <4>2
    <3>. QED  BY <3>3, <3>4
  <2>6. m \in 0..N
    BY <1>0
  <2>. HIDE DEF g
  <2>. QED  BY <2>4, <2>5, <2>6
<1>4. N \in S
  <2>1. \A j \in 0..N : j \in S
    <3>. HIDE DEF S
    <3>. QED  BY <1>0, <1>2, <1>3, UpTo
  <2>2. N \in 0..N
    BY <1>0
  <2>. HIDE DEF S
  <2>. QED  BY <2>1, <2>2
<1>5. PICK f : f[0] = B(0, 0) /\ \A n \in 1..N : f[n] = B(n, f[n - 1])
  BY <1>4
<1>. DEFINE g == [n \in 0..N |-> f[n]]
<1>6. ASSUME NEW n \in 0..N  PROVE g[n] = B(n, g[n - 1])
  <2>1. CASE n = 0
    <3>1. g[0] = f[0]
      BY <1>0
    <3>. QED  BY <1>1, <1>5, <2>1, <3>1
  <2>2. CASE n # 0
    <3>1. n - 1 \in 0..N /\ n \in 1..N
      BY <1>0, <2>2
    <3>2. g[n - 1] = f[n - 1] /\ g[n] = f[n]
      BY <3>1
    <3>. QED  BY <1>5, <3>1, <3>2
  <2>. QED  BY <2>1, <2>2
<1>7. g = [n \in 0..N |-> B(n, g[n - 1])]
  <2>1. g = [n \in 0..N |-> g[n]]
    OBVIOUS
  <2>. HIDE DEF g
  <2>. QED  BY <1>6, <2>1
<1>8. IsSet(g, k, v)
  <2>. HIDE DEF g
  <2>. QED  BY <1>7 DEF IsSet, B, N
<1>. QED  BY <1>8

\* One step of that recursion
LEMMA SetStep ==
    ASSUME NEW f, NEW k, NEW v, IsSet(f, k, v), NEW n \in 0..MaxPages, NEW p \in Pids, NEW t \in Trees
    PROVE  f[n][p][t] = IF n = 0 \/ t.page[p].leaf THEN SetLeaf(t, p, k, v) ELSE SetBelow(t, p, k, f[n - 1])
<1>. DEFINE E(m) == [pid \in Pids |-> [u \in Trees |->
                        IF m = 0 \/ u.page[pid].leaf THEN SetLeaf(u, pid, k, v)
                        ELSE SetBelow(u, pid, k, f[m - 1])]]
<1>1. f = [m \in 0..MaxPages |-> E(m)]
  BY DEF IsSet
<1>2. f[n] = E(n)
  <2>. HIDE DEF E
  <2>. QED  BY <1>1
<1>3. E(n)[p][t] = IF n = 0 \/ t.page[p].leaf THEN SetLeaf(t, p, k, v) ELSE SetBelow(t, p, k, f[n - 1])
  OBVIOUS
<1>. HIDE DEF E
<1>. QED  BY <1>2, <1>3

\* set on page p, with at least as many levels to go as there are below it
LEMMA SetDown ==
    ASSUME NEW f, NEW k, NEW v \in Vals \cup {0}, IsSet(f, k, v), NEW N \in 0..MaxPages
    PROVE  \A u, T, lv, lo, M, F, p : SetReady(u, T, lv, lo, M, F, p, k) /\ lv[p] <= N
                                        => SetsBelow(u, T, lv, lo, M, k, v, p, f[N][p][u])
<1>. DEFINE Good(n) == \A u, T, lv, lo, M, F, p : SetReady(u, T, lv, lo, M, F, p, k) /\ lv[p] <= n
                                                    => SetsBelow(u, T, lv, lo, M, k, v, p, f[n][p][u])
            S == {n \in 0..MaxPages : Good(n)}
<1>0. MaxPages \in Nat /\ N \in Nat
  BY TreeConstants
<1>1. ASSUME NEW u, NEW T, NEW lv, NEW lo, NEW M, NEW F, NEW p, SetReady(u, T, lv, lo, M, F, p, k)
      PROVE  u \in Trees /\ p \in Pids /\ p \in T /\ lv[p] \in Nat /\ (u.page[p].leaf <=> lv[p] = 0)
  <2>1. Shape(u.page, T, lv, lo, M, 0, 0) /\ Store(u, T, F) /\ p \in T
    BY <1>1 DEF SetReady
  <2>2. u \in Trees /\ T \subseteq Pids
    BY <2>1, StoreFacts
  <2>3. ShapeType(u.page, T, lv, lo, M) /\ Node(u.page, T, lv, lo, M, 0, p)
    BY <2>1, ShapeNode
  <2>4. lv[p] \in Nat
    BY <2>1, <2>3, NodeFacts
  <2>5. u.page[p].leaf <=> lv[p] = 0
    BY <2>3 DEF Node
  <2>. QED  BY <2>1, <2>2, <2>4, <2>5
<1>2. 0 \in S
  <2>1. ASSUME NEW u, NEW T, NEW lv, NEW lo, NEW M, NEW F, NEW p, SetReady(u, T, lv, lo, M, F, p, k), lv[p] <= 0
        PROVE  SetsBelow(u, T, lv, lo, M, k, v, p, f[0][p][u])
    <3>1. u \in Trees /\ p \in Pids /\ lv[p] = 0 /\ 0 \in 0..MaxPages
      <4>1. u \in Trees /\ p \in Pids /\ lv[p] \in Nat
        BY <1>1, <2>1
      <4>. QED  BY <1>0, <2>1, <4>1
    <3>2. f[0][p][u] = SetLeaf(u, p, k, v)
      BY <3>1, SetStep
    <3>. QED  BY <2>1, <3>1, <3>2, LeafSets
  <2>2. Good(0)
    BY <2>1
  <2>. HIDE DEF Good
  <2>. QED  BY <1>0, <2>2
<1>3. ASSUME NEW n \in 1..MaxPages, n - 1 \in S  PROVE n \in S
  <2>0. n \in 0..MaxPages /\ n # 0 /\ n \in Nat
    BY <1>0
  <2>a. Good(n - 1)
    <3>. HIDE DEF Good
    <3>. QED  BY <1>3
  <2>1. ASSUME NEW u, NEW T, NEW lv, NEW lo, NEW M, NEW F, NEW p, SetReady(u, T, lv, lo, M, F, p, k), lv[p] <= n
        PROVE  SetsBelow(u, T, lv, lo, M, k, v, p, f[n][p][u])
    <3>1. u \in Trees /\ p \in Pids /\ p \in T /\ lv[p] \in Nat /\ (u.page[p].leaf <=> lv[p] = 0)
      BY <1>1, <2>1
    <3>2. CASE lv[p] = 0
      <4>1. f[n][p][u] = SetLeaf(u, p, k, v)
        BY <2>0, <3>1, <3>2, SetStep
      <4>. QED  BY <2>1, <3>2, <4>1, LeafSets
    <3>3. CASE lv[p] # 0
      <4>1. f[n][p][u] = SetBelow(u, p, k, f[n - 1])
        BY <2>0, <3>1, <3>3, SetStep
      <4>2. ASSUME NEW c \in T, lv[c] = lv[p] - 1, SetReady(u, T, lv, lo, M, F, c, k)
            PROVE  SetsBelow(u, T, lv, lo, M, k, v, c, f[n - 1][c][u])
        <5>1. lv[c] <= n - 1
          BY <2>0, <2>1, <3>1, <4>2
        <5>. QED  BY <2>a, <4>2, <5>1
      <4>. HIDE DEF Good, S
      <4>3. SetsBelow(u, T, lv, lo, M, k, v, p, SetBelow(u, p, k, f[n - 1]))
        BY <2>1, <3>3, <4>2, SetGoesOn
      <4>. QED  BY <4>1, <4>3
    <3>. QED  BY <3>2, <3>3
  <2>2. Good(n)
    BY <2>1
  <2>. HIDE DEF Good
  <2>. QED  BY <2>0, <2>2
<1>4. N \in S
  <2>. HIDE DEF S
  <2>. QED  BY <1>0, <1>2, <1>3, UpTo
<1>. QED  BY <1>4

\* set stores the pair; at most the root is full then.
LEMMA SetIs ==
    ASSUME NEW u, NEW T, NEW lv, NEW lo, NEW M, NEW F, NEW k, SetReady(u, T, lv, lo, M, F, 1, k),
           NEW v \in Vals \cup {0}
    PROVE  SetsBelow(u, T, lv, lo, M, k, v, 1, set(u, k, v))
<1>. DEFINE f == CHOOSE h : IsSet(h, k, v)
<1>1. set(u, k, v) = f[MaxPages][1][u]
  BY DEF set, IsSet
<1>2. IsSet(f, k, v)
  <2>1. \E h : IsSet(h, k, v)
    BY SetExists
  <2>. QED  BY <2>1
<1>. HIDE DEF f
<1>3. lv[1] <= MaxPages /\ MaxPages \in 0..MaxPages
  <2>1. u.nextPage \in Nat /\ lv[1] \in Nat /\ MaxPages \in Nat /\ u.nextPage + lv[1] <= MaxPages
    <3>1. u.nextPage \in Nat /\ u.nextPage + lv[1] <= MaxPages
      BY StoreFacts DEF SetReady
    <3>2. lv[1] \in Nat
      BY DEF SetReady, Shape, ShapeType
    <3>. QED  BY <3>1, <3>2, TreeConstants
  <2>. QED  BY <2>1
<1>. QED  BY <1>1, <1>2, <1>3, SetDown

Appended(kv, e, r) ==
    r \in KVs /\ Len(r) = Len(kv) + 1 /\ r[Len(kv) + 1] = e /\ \A j \in 1..Len(kv) : r[j] = kv[j]

\* A key behind all others becomes the last one.
LEMMA NodeSetAppend ==
    ASSUME NEW n \in Page, Up(n.kv), NEW k \in Nat, \A i \in 1..Len(n.kv) : n.kv[i].key < k, NEW v \in Nat,
           NEW r, r = nodeSet(n, k, v)
    PROVE  r \in Page /\ r.id = n.id /\ r.leaf = n.leaf /\ Up(r.kv) /\ Appended(n.kv, Pair(k, v), r.kv)
<1>. DEFINE s == search(n, k)
<1>0. n.kv \in KVs /\ Len(n.kv) \in Nat /\ \A i \in 1..Len(n.kv) : n.kv[i].key \in Nat
  BY KVType DEF Page
<1>1. NodeSets(n, k, v, s, r)
  BY NodeSetIs
<1>2. Found(n.kv, k, s)
  BY <1>0, SearchFinds
<1>3. s = Len(n.kv) + 1
  <2>. HIDE DEF s
  <2>. QED  BY <1>0, <1>2 DEF Found
<1>4. ~Has(n, k)
  BY <1>0, <1>3 DEF Has
<1>. HIDE DEF s
<1>5. Inserted(n.kv, s, Pair(k, v), r.kv) /\ r \in Page /\ r.id = n.id /\ r.leaf = n.leaf /\ Up(r.kv)
  BY <1>1, <1>4 DEF NodeSets
<1>6. Appended(n.kv, Pair(k, v), r.kv)
  <2>1. Len(n.kv) + 1 \in 1..(Len(n.kv) + 1) /\ \A j \in 1..Len(n.kv) : j \in 1..(Len(n.kv) + 1) /\ j < s
    BY <1>0, <1>3
  <2>. QED  BY <1>3, <1>5, <2>1 DEF Inserted, Appended
<1>. QED  BY <1>5, <1>6

\* The pairs of the root go to page l, its only child.
Pushed(pg, T, l, pg2) ==
    /\ pg2 \in PageMaps /\ l \in Pids \ T /\ pg2[l].leaf = pg[1].leaf /\ pg2[l].kv = pg[1].kv
    /\ pg2[1].leaf = pg[1].leaf /\ Len(pg2[1].kv) = 1 /\ pg2[1].kv[1] = Pair(absoluteMax, l)
    /\ \A p \in T : p # 1 => pg2[p] = pg[p]

PushLevels(T, lv, l) == [p \in T \cup {l} |-> IF p = l THEN lv[1] ELSE IF p = 1 THEN lv[1] + 1 ELSE lv[p]]
PushLows(T, lo, l) == [p \in T \cup {l} |-> IF p = l THEN 0 ELSE lo[p]]

\* The pages below a root are those below an only child of it.
LEMMA PushShape ==
    ASSUME NEW pg, NEW T, NEW lv, NEW lo, NEW M, Shape(pg, T, lv, lo, M, 0, 1), NEW l, NEW pg2, Pushed(pg, T, l, pg2)
    PROVE  Shape(pg2, T \cup {l}, PushLevels(T, lv, l), PushLows(T, lo, l), M, 0, l)
<1>. DEFINE T2 == T \cup {l}
            lv2 == PushLevels(T, lv, l)
            lo2 == PushLows(T, lo, l)
<1>0. ShapeType(pg, T, lv, lo, M) /\ \A p \in T : Node(pg, T, lv, lo, M, 0, p)
  BY ShapeNode
<1>1. 1 \in T /\ lo[1] = 0 /\ Top(pg[1].kv) = absoluteMax /\ lv[1] # 0 /\ \A p \in T : lv[p] <= lv[1]
  BY DEF Shape, Rooted
<1>2. /\ pg2 \in PageMaps /\ l \in Pids /\ l \notin T /\ pg2[l].leaf = pg[1].leaf /\ pg2[l].kv = pg[1].kv
      /\ pg2[1].leaf = pg[1].leaf /\ Len(pg2[1].kv) = 1 /\ pg2[1].kv[1] = Pair(absoluteMax, l)
      /\ \A p \in T : p # 1 => pg2[p] = pg[p]
  BY DEF Pushed
<1>3. lv \in [T -> Nat] /\ lo \in [T -> Nat] /\ M \in Tables /\ T \subseteq Pids /\ \A p \in T : p # 0
  BY <1>0, TreeConstants DEF ShapeType, Pids
<1>4. /\ lv2 \in [T2 -> Nat] /\ lo2 \in [T2 -> Nat] /\ lv2[l] = lv[1] /\ lo2[l] = 0 /\ lv2[1] = lv[1] + 1 /\ lo2[1] = 0
      /\ \A p \in T : p # 1 => lv2[p] = lv[p] /\ lo2[p] = lo[p]
      /\ \A p \in T : p # l
  BY <1>1, <1>2, <1>3 DEF PushLevels, PushLows
<1>. HIDE DEF lv2, lo2
<1>5. l \in Nat /\ l # 0 /\ absoluteMax \in Nat /\ absoluteMax # 0 /\ pg2[1].kv[1].key = absoluteMax /\ pg2[1].kv[1].val = l
  <2>1. l \in Nat /\ l # 0 /\ absoluteMax \in Nat /\ absoluteMax # 0
    BY <1>2, TreeConstants DEF Pids
  <2>. QED  BY <1>2, <2>1, PairType
<1>6. Top(pg2[1].kv) = absoluteMax /\ Top(pg2[l].kv) = absoluteMax /\ \A p \in T : Top(pg2[p].kv) = Top(pg[p].kv)
  <2>1. Top(pg2[1].kv) = absoluteMax /\ Top(pg2[l].kv) = absoluteMax
    BY <1>1, <1>2, <1>5 DEF Top
  <2>. QED  BY <1>1, <1>2, <2>1
\* The children of a page are where they were.
<1>7. ASSUME NEW p \in T, lv[p] # 0, NEW i \in 1..Len(pg[p].kv)
      PROVE  LET d == pg[p].kv[i].val
             IN  /\ d \in T2 /\ lv2[d] = lv[p] - 1 /\ Top(pg2[d].kv) = pg[p].kv[i].key
                 /\ lo2[d] = Above(pg[p].kv, lo[p], i)
  <2>. DEFINE d == pg[p].kv[i].val
  <2>1. Entry(pg, T, lv, lo, M, 0, p, i)
    BY <1>0, <1>7 DEF Node
  <2>2. d \in T /\ lv[d] = lv[p] - 1 /\ Top(pg[d].kv) = pg[p].kv[i].key /\ lo[d] = Above(pg[p].kv, lo[p], i)
    BY <1>3, <2>1 DEF Entry
  <2>. HIDE DEF d
  <2>3. d # 1
    <3>1. lv[p] <= lv[1] /\ lv[p] \in Nat /\ lv[d] \in Nat
      BY <1>1, <1>3, <2>2
    <3>. QED  BY <2>2, <3>1
  <2>. QED  BY <1>4, <1>6, <2>2, <2>3 DEF d
<1>8. Node(pg2, T2, lv2, lo2, M, 0, 1)
  <2>1. Ordered(pg2[1].kv, lo2[1])
    <3>1. Up(pg2[1].kv)
      BY <1>2 DEF Up
    <3>. QED  BY <1>2, <1>4, <1>5, <1>6, <3>1 DEF Ordered
  <2>2. (pg2[1].leaf <=> lv2[1] = 0) /\ lv2[1] # 0
    <3>1. lv2[1] # 0 /\ ~pg[1].leaf
      BY <1>0, <1>1, <1>3, <1>4 DEF Node
    <3>. QED  BY <1>2, <3>1
  <2>3. ASSUME NEW i \in 1..Len(pg2[1].kv)  PROVE Entry(pg2, T2, lv2, lo2, M, 0, 1, i)
    <3>1. i = 1
      BY <1>2
    <3>2. Above(pg2[1].kv, lo2[1], 1) = 0
      BY <1>4 DEF Above
    <3>3. lv2[l] = lv2[1] - 1
      BY <1>1, <1>3, <1>4
    <3>. QED  BY <1>4, <1>5, <1>6, <3>1, <3>2, <3>3 DEF Entry
  <2>. QED  BY <2>1, <2>2, <2>3 DEF Node
<1>9. Node(pg2, T2, lv2, lo2, M, 0, l)
  <2>1. Node(pg, T, lv, lo, M, 0, 1)
    BY <1>0, <1>1
  <2>2. Ordered(pg2[l].kv, lo2[l]) /\ (pg2[l].leaf <=> lv2[l] = 0) /\ lv2[l] # 0
    BY <1>1, <1>2, <1>4, <2>1 DEF Node
  <2>3. ASSUME NEW i \in 1..Len(pg2[l].kv)  PROVE Entry(pg2, T2, lv2, lo2, M, 0, l, i)
    <3>1. i \in 1..Len(pg[1].kv) /\ pg2[l].kv[i] = pg[1].kv[i] /\ Above(pg2[l].kv, lo2[l], i) = Above(pg[1].kv, lo[1], i)
      BY <1>1, <1>2, <1>4
    <3>. DEFINE d == pg[1].kv[i].val
    <3>2. d \in T2 /\ lv2[d] = lv[1] - 1 /\ Top(pg2[d].kv) = pg[1].kv[i].key /\ lo2[d] = Above(pg[1].kv, lo[1], i)
      BY <1>1, <1>7, <3>1
    <3>. QED  BY <1>4, <3>1, <3>2 DEF Entry
  <2>. QED  BY <2>2, <2>3 DEF Node
<1>10. ASSUME NEW p \in T, p # 1  PROVE Node(pg2, T2, lv2, lo2, M, 0, p)
  <2>1. pg2[p] = pg[p] /\ lv2[p] = lv[p] /\ lo2[p] = lo[p] /\ Node(pg, T, lv, lo, M, 0, p)
    BY <1>0, <1>2, <1>4, <1>10
  <2>2. (pg2[p].leaf <=> lv2[p] = 0) /\ Ordered(pg2[p].kv, lo2[p]) /\ (lv2[p] = 0 => Contents(pg2[p].kv, lo2[p], M))
    BY <2>1 DEF Node
  <2>3. ASSUME lv2[p] # 0, NEW i \in 1..Len(pg2[p].kv)  PROVE Entry(pg2, T2, lv2, lo2, M, 0, p, i)
    <3>. DEFINE d == pg[p].kv[i].val
    <3>1. d \in T2 /\ lv2[d] = lv[p] - 1 /\ Top(pg2[d].kv) = pg[p].kv[i].key /\ lo2[d] = Above(pg[p].kv, lo[p], i)
      BY <1>7, <2>1, <2>3
    <3>. QED  BY <2>1, <3>1 DEF Entry
  <2>. QED  BY <2>2, <2>3 DEF Node
<1>11. \A p \in T2 : Node(pg2, T2, lv2, lo2, M, 0, p)
  BY <1>8, <1>9, <1>10
<1>12. Apart(pg2, T2, lv2, lo2)
  <2>1. \A p, q \in T : p # q /\ lv[p] = lv[q] => Top(pg[p].kv) <= lo[q] \/ Top(pg[q].kv) <= lo[p]
    BY DEF Shape, Apart
  <2>. SUFFICES ASSUME NEW p \in T2, NEW q \in T2, p # q, lv2[p] = lv2[q]
                PROVE  Top(pg2[p].kv) <= lo2[q] \/ Top(pg2[q].kv) <= lo2[p]
    BY DEF Apart
  <2>2. p # 1 /\ q # 1
    <3>1. \A x \in T2 : x # 1 => lv2[x] # lv2[1]
      BY <1>1, <1>3, <1>4
    <3>. QED  BY <3>1
  <2>. DEFINE a == IF p = l THEN 1 ELSE p
              b == IF q = l THEN 1 ELSE q
  <2>3. a \in T /\ b \in T /\ a # b /\ lv[a] = lv[b]
    BY <1>1, <1>4, <2>2
  <2>4. lo2[p] = lo[a] /\ lo2[q] = lo[b] /\ Top(pg2[p].kv) = Top(pg[a].kv) /\ Top(pg2[q].kv) = Top(pg[b].kv)
    BY <1>1, <1>4, <1>6, <2>2
  <2>. HIDE DEF a, b
  <2>. QED  BY <2>1, <2>3, <2>4
<1>13. ASSUME NEW p \in T2, p # 1  PROVE HasParent(pg2, T2, lv2, p)
  <2>1. CASE p = l
    <3>1. lv2[1] # 0 /\ 1 \in T2 /\ 1 \in 1..Len(pg2[1].kv)
      BY <1>1, <1>2, <1>3, <1>4
    <3>. QED  BY <1>5, <2>1, <3>1 DEF HasParent
  <2>2. CASE p \in T
    <3>1. PICK s \in T : lv[s] # 0 /\ \E i \in 1..Len(pg[s].kv) : pg[s].kv[i].val = p
      BY <1>13, <2>2 DEF Shape, HasParent
    <3>. DEFINE x == IF s = 1 THEN l ELSE s
    <3>2. x \in T2 /\ lv2[x] # 0 /\ pg2[x].kv = pg[s].kv
      BY <1>2, <1>4, <3>1
    <3>. HIDE DEF x
    <3>. QED  BY <3>1, <3>2 DEF HasParent
  <2>. QED  BY <2>1, <2>2
<1>14. Rooted(pg2, T2, lv2, lo2)
  <2>1. \A p \in T2 : lv2[p] <= lv2[1]
    BY <1>1, <1>3, <1>4
  <2>2. lv2[1] # 0
    BY <1>1, <1>3, <1>4
  <2>. QED  BY <1>1, <1>4, <1>6, <2>1, <2>2 DEF Rooted
<1>15. Sizes(pg2, T2, l)
  <2>1. \A p \in T : Len(pg[p].kv) < maxKeys \/ (p = 1 /\ Len(pg[p].kv) = maxKeys)
    BY DEF Shape, Sizes
  <2>2. 1 < maxKeys
    BY TreeConstants
  <2>. QED  BY <1>1, <1>2, <2>1, <2>2 DEF Sizes
<1>16. ShapeType(pg2, T2, lv2, lo2, M)
  <2>1. T2 \subseteq Pids
    BY <1>2, <1>3
  <2>. QED  BY <1>2, <1>3, <1>4, <2>1 DEF ShapeType
<1>. QED  BY <1>11, <1>12, <1>13, <1>14, <1>15, <1>16 DEF Shape, lv2, lo2

\* A pushed root leaves the leaves as they were.
LEMMA PushFences ==
    ASSUME NEW pg, NEW T, NEW lv, NEW lo, NEW M, Shape(pg, T, lv, lo, M, 0, 1), NEW l, NEW pg2, Pushed(pg, T, l, pg2)
    PROVE  Fen(pg2, T \cup {l}, PushLevels(T, lv, l)) = Fen(pg, T, lv)
<1>. DEFINE lv2 == PushLevels(T, lv, l)
<1>1. 1 \in T /\ lv[1] # 0 /\ lv[1] \in Nat /\ l \notin T /\ \A p \in T : p # 1 => pg2[p] = pg[p]
  BY DEF Shape, ShapeType, Rooted, Pushed
<1>2. lv2[l] = lv[1] /\ lv2[1] = lv[1] + 1 /\ \A p \in T : p # 1 => lv2[p] = lv[p]
  BY <1>1 DEF PushLevels
<1>. HIDE DEF lv2
<1>3. {x \in T \cup {l} : lv2[x] = 0} = {x \in T : lv[x] = 0}
  <2>1. lv[1] + 1 # 0
    BY <1>1
  <2>. QED  BY <1>1, <1>2, <2>1
<1>4. Fen(pg2, T \cup {l}, lv2) = Fen(pg, T, lv)
  BY <1>1, <1>3 DEF Fen
<1>. QED  BY <1>4 DEF lv2

\* t holds the pairs of M, and the greatest keys of its leaves are E.
IsTree(t, M, E) ==
    \E T, lv, lo, F : Shape(t.page, T, lv, lo, M, 0, 0) /\ Store(t, T, F) /\ E = Fen(t.page, T, lv)

\* A full root gets two children, and the table stays as it was.
LEMMA SplitRootIs ==
    ASSUME NEW t, NEW T, NEW lv, NEW lo, NEW M, NEW F, Shape(t.page, T, lv, lo, M, 0, 1), Store(t, T, F),
           Len(t.page[1].kv) = maxKeys, t.nextPage + 2 <= MaxPages
    PROVE  IsTree(SplitRoot(t), M, Fen(t.page, T, lv)) /\ SplitRoot(t).leafKeys = t.leafKeys
<1>. DEFINE right == NewPid(t)
            u == split(t, 1)
            left == NewPid(u)
            n == t.page[1]
            w == newNode(u, n.leaf)
            moved == [w EXCEPT !.page[left].kv = u.page[1].kv, !.page[1].kv = <<>>]
            y == SplitRoot(t)
            L == u.page[1].kv
            R == u.page[right].kv
            m == n.kv[half].key
<1>0. 1 \in T /\ lo[1] = 0 /\ Top(n.kv) = absoluteMax /\ lv[1] # 0
  BY DEF Shape, Rooted
<1>1. /\ t \in Trees /\ t.nextPage \in Nat /\ MaxPages \in Nat /\ T \subseteq Pids /\ t.page \in PageMaps
      /\ n \in Page /\ n.kv \in KVs /\ 1 \in Pids
  BY <1>0, StoreFacts, TreeFields, TreeConstants
<1>2. Ordered(n.kv, 0)
  BY <1>0, ShapeNode DEF Node
<1>3. n.leaf \in BOOLEAN /\ n.id \in Nat
  BY <1>1 DEF Page
<1>4. Shares(t, T, 1, u, right)
  <2>1. t.nextPage < MaxPages
    BY <1>1
  <2>. QED  BY <1>0, <2>1, SplitIs
<1>5. y = Link(moved, 1, left, right)
  BY DEF SplitRoot
<1>. HIDE DEF u, right
<1>6. /\ right \in Pids /\ right \notin T /\ u \in Trees /\ u.leafKeys = t.leafKeys /\ u.nextPage <= t.nextPage + 1
      /\ \A p \in Pids : p # 1 /\ p # right => u.page[p] = t.page[p]
      /\ u.page[1].leaf = n.leaf /\ u.page[right].leaf = n.leaf
      /\ Halves(n.kv, L, R)
  BY <1>4 DEF Shares
<1>7. PICK G : Store(u, T \cup {right}, G)
  BY <1>4 DEF Shares
<1>8. Takes(u, T \cup {right}, w, left, n.leaf)
  <2>1. u.nextPage < MaxPages
    <3>1. u.nextPage \in Nat
      BY <1>7, StoreFacts
    <3>. QED  BY <1>1, <1>6, <3>1
  <2>. QED  BY <1>3, <1>7, <2>1, NewNode
<1>. HIDE DEF left, w
<1>9. /\ left \in Pids /\ left \notin T /\ left # right /\ w \in Trees /\ w.leafKeys = t.leafKeys
      /\ w.page = [u.page EXCEPT ![left] = [id |-> left, leaf |-> n.leaf, kv |-> <<>>]]
  BY <1>6, <1>8 DEF Takes
<1>10. PICK H : Store(w, T \cup {right} \cup {left}, H)
  BY <1>8 DEF Takes
<1>11. left # 1 /\ right # 1 /\ left \in Nat /\ right \in Nat
  BY <1>0, <1>6, <1>9, TreeConstants DEF Pids
<1>12. /\ Top(L) = m /\ m \in Nat /\ m < absoluteMax /\ Top(R) = absoluteMax /\ Len(L) >= 1 /\ Len(R) >= 1
       /\ L \in KVs /\ R \in KVs
  <2>1. HalvesOK(n.kv, 0, L, R, m)
    BY <1>1, <1>2, <1>6, HalvesFacts
  <2>2. L \in KVs /\ R \in KVs
    BY <1>6 DEF Halves
  <2>. HIDE DEF m, L, R, n
  <2>. QED  BY <1>0, <2>1, <2>2 DEF HalvesOK, Ordered
<1>13. u.page \in PageMaps /\ w.page \in PageMaps /\ u.page[1] \in Page
  BY <1>1, <1>6, <1>9, TreeFields
<1>14. /\ w.page[left] = [id |-> left, leaf |-> n.leaf, kv |-> <<>>] /\ w.page[1] = u.page[1] /\ w.page[right] = u.page[right]
       /\ \A p \in Pids : p # left => w.page[p] = u.page[p]
  BY <1>1, <1>6, <1>9, <1>11, <1>13 DEF PageMaps
<1>. DEFINE pl == [id |-> left, leaf |-> n.leaf, kv |-> L]
            p1 == [w.page[1] EXCEPT !.kv = <<>>]
            pm == [w.page EXCEPT ![left] = pl, ![1] = p1]
<1>15. pl \in Page /\ p1 \in Page /\ p1.kv = <<>> /\ p1.leaf = n.leaf /\ p1.id = u.page[1].id
  <2>1. pl \in Page
    BY <1>3, <1>11, <1>12 DEF Page
  <2>2. w.page[1] \in Page /\ w.page[1].leaf = n.leaf /\ w.page[1].id = u.page[1].id
    BY <1>6, <1>13, <1>14
  <2>3. <<>> \in KVs
    BY DEF KVs
  <2>. QED  BY <2>1, <2>2, <2>3 DEF Page
<1>16. pm \in PageMaps /\ pm[left] = pl /\ pm[1] = p1 /\ \A p \in Pids : p # left /\ p # 1 => pm[p] = u.page[p]
  <2>. HIDE DEF pl, p1
  <2>. QED  BY <1>1, <1>9, <1>11, <1>13, <1>14, <1>15 DEF PageMaps
<1>17. moved = [w EXCEPT !.page = pm]
  <2>1. moved = [[w EXCEPT !.page = [w.page EXCEPT ![left] = [w.page[left] EXCEPT !.kv = L]]] EXCEPT !.page[1].kv = <<>>]
    OBVIOUS
  <2>2. [w.page[left] EXCEPT !.kv = L] = pl
    BY <1>14
  <2>. DEFINE w1 == [w EXCEPT !.page = [w.page EXCEPT ![left] = pl]]
  <2>3. moved = [w1 EXCEPT !.page[1].kv = <<>>]
    BY <2>1, <2>2
  <2>4. w1.page = [w.page EXCEPT ![left] = pl]
    BY <1>9 DEF Trees
  <2>5. w1.page[1] = w.page[1]
    BY <1>1, <1>9, <1>11, <1>13, <2>4 DEF PageMaps
  <2>6. moved = [w1 EXCEPT !.page = [w1.page EXCEPT ![1] = [w1.page[1] EXCEPT !.kv = <<>>]]]
    <3>. HIDE DEF w1, moved
    <3>. QED  BY <2>3
  <2>7. moved = [w1 EXCEPT !.page = pm]
    <3>. HIDE DEF w1, moved, pl
    <3>. QED  BY <2>4, <2>5, <2>6
  <2>. HIDE DEF moved, pl, p1, pm
  <2>. QED  BY <1>9, <2>7 DEF Trees
<1>. HIDE DEF moved
<1>18. SameStore(w, moved) /\ moved.page = pm /\ moved.leafKeys = w.leafKeys
  <2>. HIDE DEF pm
  <2>. QED  BY <1>9, <1>16, <1>17, WithPage
<1>. DEFINE r1 == nodeSet(p1, m, left)
            r2 == nodeSet(r1, absoluteMax, right)
            pf == [pm EXCEPT ![1] = r2]
<1>19. maxKey(moved.page[left]) = m /\ maxKey(moved.page[right]) = absoluteMax
  <2>1. moved.page[left].kv = L
    BY <1>16, <1>18
  <2>2. moved.page[right] = u.page[right]
    BY <1>6, <1>9, <1>11, <1>16, <1>18
  <2>3. Len(moved.page[left].kv) >= 1 /\ Len(moved.page[right].kv) >= 1
    BY <1>12, <2>1, <2>2
  <2>4. maxKey(moved.page[left]) = Top(moved.page[left].kv) /\ maxKey(moved.page[right]) = Top(moved.page[right].kv)
    BY <2>3, MaxKeyTop
  <2>. QED  BY <1>12, <2>1, <2>2, <2>4
<1>20. y = [moved EXCEPT !.page = pf]
  <2>1. y = [moved EXCEPT !.page[1] = nodeSet(nodeSet(@, m, left), absoluteMax, right)]
    BY <1>5, <1>19 DEF Link
  <2>2. y = [moved EXCEPT !.page = [moved.page EXCEPT ![1] = nodeSet(nodeSet(moved.page[1], m, left), absoluteMax, right)]]
    BY <2>1
  <2>3. moved.page[1] = p1
    BY <1>16, <1>18
  <2>. HIDE DEF pm, p1
  <2>. QED  BY <1>18, <2>2, <2>3
<1>21. /\ r2 \in Page /\ r2.leaf = n.leaf /\ r2.id = u.page[1].id /\ r2.kv \in KVs /\ Len(r2.kv) = 2
       /\ r2.kv[1] = Pair(m, left) /\ r2.kv[2] = Pair(absoluteMax, right)
  <2>0. m \in Nat /\ absoluteMax \in Nat /\ m < absoluteMax
    BY <1>12, TreeConstants
  <2>. HIDE DEF p1, m
  <2>1. Up(p1.kv) /\ Len(p1.kv) = 0 /\ \A i \in 1..Len(p1.kv) : p1.kv[i].key < m
    BY <1>15 DEF Up
  <2>2. r1 \in Page /\ r1.id = p1.id /\ r1.leaf = p1.leaf /\ Up(r1.kv) /\ Appended(p1.kv, Pair(m, left), r1.kv)
    <3>. HIDE DEF r1
    <3>. QED  BY <1>11, <1>15, <2>0, <2>1, NodeSetAppend DEF r1
  <2>3. Len(r1.kv) = 1 /\ r1.kv[1] = Pair(m, left)
    BY <2>1, <2>2 DEF Appended
  <2>. HIDE DEF r1
  <2>4. \A i \in 1..Len(r1.kv) : r1.kv[i].key < absoluteMax
    <3>1. Pair(m, left).key = m
      BY <1>11, <2>0, PairType
    <3>. QED  BY <2>0, <2>3, <3>1
  <2>5. r2 \in Page /\ r2.id = r1.id /\ r2.leaf = r1.leaf /\ Appended(r1.kv, Pair(absoluteMax, right), r2.kv)
    <3>. HIDE DEF r2
    <3>. QED  BY <1>11, <2>0, <2>2, <2>4, NodeSetAppend DEF r2
  <2>. HIDE DEF r2
  <2>6. r2.kv \in KVs /\ Len(r2.kv) = 2 /\ r2.kv[2] = Pair(absoluteMax, right) /\ r2.kv[1] = r1.kv[1]
    <3>1. 1 \in 1..Len(r1.kv) /\ Len(r1.kv) + 1 = 2
      BY <2>3
    <3>. QED  BY <2>5, <3>1 DEF Appended
  <2>. QED  BY <1>15, <2>2, <2>3, <2>5, <2>6
<1>. HIDE DEF r1, r2, pm
<1>22. pf \in PageMaps /\ pf[1] = r2 /\ pf[left] = pl /\ \A p \in Pids : p # left /\ p # 1 => pf[p] = u.page[p]
  <2>. HIDE DEF pl
  <2>. QED  BY <1>1, <1>9, <1>11, <1>16, <1>21 DEF PageMaps
<1>. HIDE DEF pf, y
<1>23. SameStore(moved, y) /\ y.page = pf /\ y.leafKeys = moved.leafKeys
  <2>1. moved \in Trees
    BY <1>18 DEF SameStore
  <2>. QED  BY <1>20, <1>22, <2>1, WithPage
<1>24. Store(y, T \cup {right} \cup {left}, H)
  <2>1. SameStore(w, y)
    BY <1>18, <1>23 DEF SameStore
  <2>2. \A p \in Pids : y.page[p].id = w.page[p].id
    <3>1. pl.id = left
      OBVIOUS
    <3>. HIDE DEF pl
    <3>. QED  BY <1>14, <1>21, <1>22, <1>23, <3>1
  <2>3. \A p \in Ran(H) : y.page[p] = w.page[p]
    <3>1. \A p \in Ran(H) : p \in Pids /\ p # 1 /\ p # left
      <4>1. (T \cup {right} \cup {left}) \cap Ran(H) = {} /\ \A p \in Ran(H) : p \in Pids
        BY <1>10, StoreFacts
      <4>. QED  BY <1>0, <4>1
    <3>. QED  BY <1>14, <1>22, <1>23, <3>1
  <2>. QED  BY <1>10, <2>1, <2>2, <2>3, StoreKeeps
\* The root is pushed down, then split.
<1>. DEFINE q1 == [n EXCEPT !.kv = <<Pair(absoluteMax, left)>>]
            ql == [id |-> left, leaf |-> n.leaf, kv |-> n.kv]
            pg1 == [t.page EXCEPT ![left] = ql, ![1] = q1]
            T1 == T \cup {left}
            lv1 == PushLevels(T, lv, left)
            lo1 == PushLows(T, lo, left)
<1>25. /\ pg1 \in PageMaps /\ pg1[left] = ql /\ pg1[1] = q1 /\ \A p \in Pids : p # left /\ p # 1 => pg1[p] = t.page[p]
       /\ q1.leaf = n.leaf /\ q1.kv = <<Pair(absoluteMax, left)>> /\ ql.leaf = n.leaf /\ ql.kv = n.kv
  <2>1. <<Pair(absoluteMax, left)>> \in KVs
    <3>1. Pair(absoluteMax, left) \in Pairs
      BY <1>11, TreeConstants, PairType
    <3>. QED  BY <3>1 DEF KVs
  <2>2. q1 \in Page /\ q1.leaf = n.leaf /\ q1.kv = <<Pair(absoluteMax, left)>>
    <3>. HIDE DEF n
    <3>. QED  BY <1>1, <2>1 DEF Page
  <2>3. ql \in Page /\ ql.leaf = n.leaf /\ ql.kv = n.kv
    <3>. HIDE DEF n
    <3>. QED  BY <1>1, <1>3, <1>11 DEF Page
  <2>. HIDE DEF q1, ql, n
  <2>. QED  BY <1>1, <1>9, <1>11, <2>2, <2>3 DEF PageMaps
<1>. HIDE DEF q1, ql, pg1
<1>26. Pushed(t.page, T, left, pg1)
  <2>1. Len(q1.kv) = 1 /\ q1.kv[1] = Pair(absoluteMax, left)
    BY <1>25
  <2>. QED  BY <1>1, <1>9, <1>25, <2>1 DEF Pushed
<1>27. Shape(pg1, T1, lv1, lo1, M, 0, left)
  BY <1>26, PushShape
<1>28. FullChild(pg1, T1, lv1, lo1, M, left, 1, 1)
  <2>1. lv1[1] # 0
    BY <1>27 DEF Shape, Rooted
  <2>2. Len(pg1[left].kv) = maxKeys /\ 1 \in 1..Len(pg1[1].kv) /\ pg1[1].kv[1].val = left
    <3>1. Pair(absoluteMax, left).val = left
      BY <1>11, TreeConstants, PairType
    <3>. QED  BY <1>25, <3>1
  <2>. HIDE DEF lv1, lo1
  <2>. QED  BY <1>0, <1>27, <2>1, <2>2 DEF FullChild
<1>29. Splits(pg1, T1, left, 1, 1, right, y.page)
  <2>1. /\ y.page[left].kv = L /\ y.page[left].leaf = n.leaf /\ y.page[right].kv = R /\ y.page[right].leaf = n.leaf
        /\ y.page[1] = r2
    BY <1>6, <1>9, <1>11, <1>22, <1>23
  <2>2. Linked(pg1[1].kv, 1, m, left, right, r2.kv)
    <3>1. Len(pg1[1].kv) = 1 /\ pg1[1].kv[1].key = absoluteMax
      <4>1. Pair(absoluteMax, left).key = absoluteMax
        BY <1>11, TreeConstants, PairType
      <4>. QED  BY <1>25, <4>1
    <3>2. \A j \in 1..(1 + 1) : j = 1 \/ j = 2
      OBVIOUS
    <3>. HIDE DEF m
    <3>. QED  BY <1>21, <3>1, <3>2 DEF Linked
  <2>3. \A p \in T1 : p # left /\ p # 1 => y.page[p] = pg1[p]
    <3>. SUFFICES ASSUME NEW p \in T, p # left, p # 1  PROVE y.page[p] = pg1[p]
      OBVIOUS
    <3>1. p \in Pids /\ p # right
      BY <1>1, <1>6
    <3>. QED  BY <1>6, <1>22, <1>23, <1>25, <3>1
  <2>4. right \in Pids \ T1 /\ y.page \in PageMaps
    BY <1>6, <1>9, <1>22, <1>23
  <2>. HIDE DEF L, R, n
  <2>. QED  BY <1>6, <1>21, <1>25, <2>1, <2>2, <2>3, <2>4 DEF Splits, m
<1>. DEFINE T2 == T1 \cup {right}
            lv2 == SplitLevels(T1, lv1, left, right)
            lo2 == SplitLows(T1, lo1, right, pg1[left].kv[half].key)
<1>30. Shape(y.page, T2, lv2, lo2, M, 0, 1)
  <2>. HIDE DEF T1, lv1, lo1
  <2>. QED  BY <1>28, <1>29, SplitShape
<1>31. Shape(y.page, T2, lv2, lo2, M, 0, 0)
  <2>1. Len(y.page[1].kv) # maxKeys
    <3>1. y.page[1] = r2 /\ Len(r2.kv) = 2
      BY <1>21, <1>22, <1>23
    <3>2. 2 # maxKeys
      BY TreeConstants
    <3>. QED  BY <3>1, <3>2
  <2>. HIDE DEF T2, lv2, lo2
  <2>. QED  BY <1>30, <2>1, ShapeFull
<1>32. T2 = T \cup {right} \cup {left}
  OBVIOUS
<1>33. Fen(y.page, T2, lv2) = Fen(t.page, T, lv)
  <2>1. Fen(pg1, T1, lv1) = Fen(t.page, T, lv)
    BY <1>26, PushFences
  <2>2. lv1[left] # 0
    BY <1>0, <1>9 DEF PushLevels
  <2>. HIDE DEF T1, lv1, lo1
  <2>3. Fen(y.page, T2, lv2) = Fen(pg1, T1, lv1)
    BY <1>28, <1>29, <2>2, SplitFences
  <2>. QED  BY <2>1, <2>3
<1>. HIDE DEF T2, lv2, lo2
<1>34. IsTree(y, M, Fen(t.page, T, lv))
  BY <1>24, <1>31, <1>32, <1>33 DEF IsTree
<1>35. y.leafKeys = t.leafKeys
  BY <1>9, <1>18, <1>23
<1>. QED  BY <1>34, <1>35 DEF y

\* There is a page on each level.
LEMMA LevelsUsed ==
    ASSUME NEW pg, NEW T, NEW lv, NEW lo, NEW M, NEW full, Shape(pg, T, lv, lo, M, 0, full), NEW j \in 0..lv[1]
    PROVE  \E p \in T : lv[p] = j
<1>. DEFINE N == lv[1]
            S == {n \in 0..N : \E p \in T : lv[p] = N - n}
<1>0. 1 \in T /\ N \in Nat /\ lv \in [T -> Nat] /\ \A p \in T : p # 0
  BY TreeConstants DEF Shape, Rooted, ShapeType, Pids
<1>. HIDE DEF N
<1>1. 0 \in S
  <2>1. lv[1] = N - 0 /\ 0 \in 0..N
    BY <1>0 DEF N
  <2>. QED  BY <1>0, <2>1
<1>2. ASSUME NEW n \in 1..N, n - 1 \in S  PROVE n \in S
  <2>1. PICK p \in T : lv[p] = N - (n - 1)
    BY <1>2
  <2>2. lv[p] # 0 /\ n \in 0..N
    BY <1>0, <2>1
  <2>3. ShapeType(pg, T, lv, lo, M) /\ Node(pg, T, lv, lo, M, 0, p)
    BY ShapeNode
  <2>4. 1 \in 1..Len(pg[p].kv)
    BY <2>3, NodeFacts
  <2>5. Entry(pg, T, lv, lo, M, 0, p, 1)
    BY <2>2, <2>3, <2>4 DEF Node
  <2>. DEFINE c == pg[p].kv[1].val
  <2>6. c \in T /\ lv[c] = lv[p] - 1
    BY <1>0, <2>5 DEF Entry
  <2>. HIDE DEF c
  <2>7. lv[c] = N - n
    BY <1>0, <2>1, <2>6
  <2>. QED  BY <2>2, <2>6, <2>7
<1>3. N - j \in S
  <2>1. N - j \in 0..N
    BY <1>0 DEF N
  <2>. HIDE DEF S
  <2>. QED  BY <1>0, <1>1, <1>2, <2>1, UpTo
<1>4. N - (N - j) = j
  BY <1>0 DEF N
<1>. QED  BY <1>3, <1>4

\* There are more pages than levels.
LEMMA LevelsBound ==
    ASSUME NEW t, NEW T, NEW lv, NEW lo, NEW M, NEW full, NEW F, Shape(t.page, T, lv, lo, M, 0, full), Store(t, T, F)
    PROVE  lv[1] \in Nat /\ lv[1] >= 1 /\ lv[1] + 2 <= t.nextPage /\ lv[1] <= MaxPages
<1>. DEFINE N == lv[1]
            B == t.nextPage - 1
            g == [j \in 0..N |-> CHOOSE p \in T : lv[p] = j]
<1>0. N \in Nat /\ N # 0
  BY DEF Shape, Rooted, ShapeType
<1>1. t.nextPage \in Nat /\ t.nextPage >= 1 /\ t.nextPage <= MaxPages /\ T \subseteq 1..B /\ MaxPages \in Nat
  BY StoreFacts, TreeConstants
<1>2. \A j \in 0..N : g[j] \in T /\ lv[g[j]] = j
  BY LevelsUsed
<1>. HIDE DEF N, B
<1>3. g \in Injection(0..N, 1..B)
  <2>1. g \in [0..N -> 1..B]
    <3>1. g = [j \in 0..N |-> g[j]]
      OBVIOUS
    <3>. HIDE DEF g
    <3>. QED  BY <1>1, <1>2, <3>1
  <2>2. \A i, j \in 0..N : g[i] = g[j] => i = j
    <3>. HIDE DEF g
    <3>. QED  BY <1>2
  <2>3. DOMAIN g = 0..N
    OBVIOUS
  <2>. HIDE DEF g
  <2>. QED  BY <2>1, <2>2, <2>3 DEF Injection, IsInjective
<1>4. B \in Nat
  BY <1>1 DEF B
<1>5. Cardinality(0..N) <= Cardinality(1..B)
  <2>1. IsFiniteSet(1..B)
    BY <1>4, FS_Interval
  <2>. HIDE DEF g
  <2>. QED  BY <1>3, <2>1, FS_Injection
<1>6. Cardinality(0..N) = N + 1 /\ Cardinality(1..B) = B
  <2>1. N \in Int /\ B \in Int /\ 0 \in Int /\ 1 \in Int
    BY <1>0, <1>4
  <2>2. Cardinality(0..N) = IF 0 > N THEN 0 ELSE N - 0 + 1
    BY <2>1, FS_Interval
  <2>3. Cardinality(1..B) = IF 1 > B THEN 0 ELSE B - 1 + 1
    BY <2>1, FS_Interval
  <2>. QED  BY <1>0, <1>4, <2>2, <2>3
<1>7. N + 1 <= B
  BY <1>5, <1>6
<1>. QED  BY <1>0, <1>1, <1>7 DEF N, B

\* Tree u is tree t with fences E after a Set.
SetGives(t, M, E, k, v, u) ==
    /\ \E E2 : IsTree(u, [M EXCEPT ![k] = v], E2) /\ Fenced(E, E2)
    /\ u.leafKeys = t.leafKeys + IF M[k] = -1 THEN 1 ELSE 0

\* Set takes a tree that holds M to one that holds M with the pair.
LEMMA TreeSetIs ==
    ASSUME NEW t, NEW T, NEW lv, NEW lo, NEW M, NEW F, Shape(t.page, T, lv, lo, M, 0, 0), Store(t, T, F),
           2 * t.nextPage <= MaxPages, NEW k \in 1..absoluteMax, NEW v \in Vals \cup {0}
    PROVE  SetGives(t, M, Fen(t.page, T, lv), k, v, TreeSet(t, k, v))
<1>. DEFINE u == set(t, k, v)
            E == Fen(t.page, T, lv)
            M2 == [M EXCEPT ![k] = v]
<1>0. t.nextPage \in Nat /\ MaxPages \in Nat /\ absoluteMax \in Nat
  BY StoreFacts, TreeConstants
<1>1. lv[1] \in Nat /\ lv[1] + 2 <= t.nextPage
  BY LevelsBound
<1>2. 1 \in T /\ lo[1] = 0 /\ Top(t.page[1].kv) = absoluteMax
  BY DEF Shape, Rooted
<1>3. SetReady(t, T, lv, lo, M, F, 1, k)
  <2>1. t.nextPage + lv[1] <= MaxPages /\ lo[1] < k /\ k <= Top(t.page[1].kv)
    BY <1>0, <1>1, <1>2
  <2>. QED  BY <1>2, <2>1 DEF SetReady
<1>4. SetsBelow(t, T, lv, lo, M, k, v, 1, u)
  BY <1>3, SetIs
<1>. HIDE DEF u
<1>5. PICK T2, lv2, lo2, F2 : Sets(t, T, lv, lo, M, k, v, 1, u, T2, lv2, lo2, F2)
  BY <1>4 DEF SetsBelow
<1>6. /\ Shape(u.page, T2, lv2, lo2, M2, 0, 1) /\ Store(u, T2, F2) /\ u.nextPage <= t.nextPage + lv[1]
      /\ u.leafKeys = t.leafKeys + (IF M[k] = -1 THEN 1 ELSE 0) /\ Fenced(E, Fen(u.page, T2, lv2))
  BY <1>5 DEF Sets
<1>. HIDE DEF M2, E
<1>7. CASE isFull(u.page[1])
  <2>1. Len(u.page[1].kv) = maxKeys
    BY <1>7 DEF isFull
  <2>2. u.nextPage + 2 <= MaxPages
    <3>1. u.nextPage \in Nat
      BY <1>6, StoreFacts
    <3>. QED  BY <1>0, <1>1, <1>6, <3>1
  <2>3. IsTree(SplitRoot(u), M2, Fen(u.page, T2, lv2)) /\ SplitRoot(u).leafKeys = u.leafKeys
    BY <1>6, <2>1, <2>2, SplitRootIs
  <2>4. TreeSet(t, k, v) = SplitRoot(u)
    BY <1>7 DEF TreeSet, u
  <2>. QED  BY <1>6, <2>3, <2>4 DEF M2, E, SetGives
<1>8. CASE ~isFull(u.page[1])
  <2>1. Shape(u.page, T2, lv2, lo2, M2, 0, 0)
    BY <1>6, <1>8, ShapeFull DEF isFull
  <2>2. IsTree(u, M2, Fen(u.page, T2, lv2))
    BY <1>6, <2>1 DEF IsTree
  <2>3. TreeSet(t, k, v) = u
    BY <1>8 DEF TreeSet, u
  <2>. QED  BY <1>6, <2>2, <2>3 DEF M2, E, SetGives
<1>. QED  BY <1>7, <1>8

-----------------------------------------------------------------------------
(* Counting keys *)

\* The number of keys above a and up to b
Cnt(M, a, b) == Cardinality({k \in (a + 1)..b : M[k] # -1})

\* The number of keys in a range
LEMMA CntType ==
    ASSUME NEW M, NEW a \in Nat, NEW b \in Nat
    PROVE  Cnt(M, a, b) \in Nat /\ IsFiniteSet({k \in (a + 1)..b : M[k] # -1})
<1>1. IsFiniteSet((a + 1)..b)
  BY FS_Interval
<1>2. IsFiniteSet({k \in (a + 1)..b : M[k] # -1})
  BY <1>1, FS_Subset
<1>. QED  BY <1>2, FS_CardinalityType DEF Cnt

\* The numbers from 1 to n are n numbers.
LEMMA CardUpTo ==
    ASSUME NEW n \in Nat
    PROVE  IsFiniteSet(1..n) /\ Cardinality(1..n) = n
<1>1. 1 \in Int /\ n \in Int
  OBVIOUS
<1>2. IsFiniteSet(1..n) /\ Cardinality(1..n) = IF 1 > n THEN 0 ELSE n - 1 + 1
  BY <1>1, FS_Interval
<1>. QED  BY <1>2

\* The count depends on which keys there are, not on their values.
LEMMA CntSame ==
    ASSUME NEW M, NEW M2, NEW a \in Nat, NEW b \in Nat, \A k \in (a + 1)..b : M2[k] # -1 <=> M[k] # -1
    PROVE  Cnt(M2, a, b) = Cnt(M, a, b)
<1>1. {k \in (a + 1)..b : M2[k] # -1} = {k \in (a + 1)..b : M[k] # -1}
  OBVIOUS
<1>. QED  BY <1>1 DEF Cnt

\* There is no key in an empty range.
LEMMA CntNone ==
    ASSUME NEW M, NEW a \in Nat
    PROVE  Cnt(M, a, a) = 0
<1>1. {k \in (a + 1)..a : M[k] # -1} = {}
  OBVIOUS
<1>. QED  BY <1>1, FS_EmptySet DEF Cnt

\* The count over two adjoining ranges
LEMMA CntSplit ==
    ASSUME NEW M, NEW a \in Nat, NEW b \in Nat, NEW c \in Nat, a <= b, b <= c
    PROVE  Cnt(M, a, c) = Cnt(M, a, b) + Cnt(M, b, c)
<1>. DEFINE A == {k \in (a + 1)..b : M[k] # -1}
            B == {k \in (b + 1)..c : M[k] # -1}
            C == {k \in (a + 1)..c : M[k] # -1}
<1>1. C = A \cup B /\ A \cap B = {}
  OBVIOUS
<1>2. IsFiniteSet(A) /\ IsFiniteSet(B)
  BY CntType
<1>3. Cardinality(A) \in Nat /\ Cardinality(B) \in Nat
  BY CntType DEF Cnt
<1>4. Cardinality(C) = Cardinality(A) + Cardinality(B)
  <2>. HIDE DEF A, B, C
  <2>1. Cardinality(A \cup B) = Cardinality(A) + Cardinality(B) - Cardinality(A \cap B)
    BY <1>2, FS_Union
  <2>2. Cardinality(A \cap B) = 0
    BY <1>1, FS_EmptySet
  <2>. QED  BY <1>1, <1>3, <2>1, <2>2
<1>. QED  BY <1>4 DEF Cnt

\* The count with one more key
LEMMA CntSet ==
    ASSUME NEW M, NEW M2, NEW a \in Nat, NEW b \in Nat, NEW k \in (a + 1)..b, M2[k] # -1,
           \A j \in (a + 1)..b : j # k => M2[j] = M[j]
    PROVE  Cnt(M2, a, b) = Cnt(M, a, b) + IF M[k] = -1 THEN 1 ELSE 0
<1>. DEFINE A == {j \in (a + 1)..b : M[j] # -1}
            B == {j \in (a + 1)..b : M2[j] # -1}
<1>1. IsFiniteSet(A) /\ Cardinality(A) \in Nat
  BY CntType DEF Cnt
<1>2. B = A \cup {k} /\ (k \in A <=> M[k] # -1)
  OBVIOUS
<1>3. Cardinality(B) = Cardinality(A) + IF M[k] = -1 THEN 1 ELSE 0
  <2>. HIDE DEF A, B
  <2>. QED  BY <1>1, <1>2, FS_AddElement
<1>. QED  BY <1>3 DEF Cnt

\* The count with one key less
LEMMA CntLess ==
    ASSUME NEW M, NEW M2, NEW a \in Nat, NEW b \in Nat, NEW k \in (a + 1)..b, M[k] # -1, M2[k] = -1,
           \A j \in (a + 1)..b : j # k => M2[j] = M[j]
    PROVE  Cnt(M2, a, b) = Cnt(M, a, b) - 1
<1>. DEFINE A == {j \in (a + 1)..b : M[j] # -1}
            B == {j \in (a + 1)..b : M2[j] # -1}
<1>1. IsFiniteSet(A) /\ Cardinality(A) \in Nat
  BY CntType DEF Cnt
<1>2. B = A \ {k} /\ k \in A
  OBVIOUS
<1>3. Cardinality(B) = Cardinality(A) - 1
  <2>. HIDE DEF A, B
  <2>. QED  BY <1>1, <1>2, FS_RemoveElement
<1>. QED  BY <1>3 DEF Cnt

\* A leaf has as many pairs as there are keys in its range.
LEMMA CntLeaf ==
    ASSUME NEW kv \in KVs, NEW l \in Nat, Ordered(kv, l), NEW M, Contents(kv, l, M)
    PROVE  Cnt(M, l, Top(kv)) = Len(kv)
<1>. DEFINE N == Len(kv)
            A == {k \in (l + 1)..Top(kv) : M[k] # -1}
            f == [i \in 1..N |-> kv[i].key]
<1>0. /\ N \in Nat /\ Top(kv) \in Nat /\ Up(kv)
      /\ \A i \in 1..N : kv[i].key \in Nat /\ kv[i].val \in Nat /\ l < kv[i].key /\ kv[i].key <= Top(kv)
  BY OrderedFacts
<1>1. /\ \A i \in 1..N : M[kv[i].key] = kv[i].val
      /\ \A k \in A : \E i \in 1..N : kv[i].key = k
  BY DEF Contents
<1>2. \A i \in 1..N : f[i] \in A
  <2>. SUFFICES ASSUME NEW i \in 1..N  PROVE kv[i].key \in A
    OBVIOUS
  <2>1. M[kv[i].key] \in Nat
    BY <1>0, <1>1
  <2>2. M[kv[i].key] # -1
    BY <2>1
  <2>. QED  BY <1>0, <2>2
<1>3. f \in Bijection(1..N, A)
  <2>. HIDE DEF A
  <2>1. f \in [1..N -> A] /\ DOMAIN f = 1..N
    BY <1>2
  <2>2. ASSUME NEW i \in 1..N, NEW j \in 1..N, f[i] = f[j]  PROVE i = j
    <3>1. ~(i < j) /\ ~(j < i)
      BY <1>0, <2>2 DEF Up
    <3>. QED  BY <1>0, <3>1
  <2>3. \A k \in A : \E i \in 1..N : f[i] = k
    BY <1>1
  <2>. HIDE DEF f, N
  <2>. QED  BY <2>1, <2>2, <2>3 DEF Bijection, Injection, Surjection, IsInjective
<1>4. Cardinality(A) = Cardinality(1..N)
  <2>1. ExistsBijection(1..N, A)
    BY <1>3 DEF ExistsBijection
  <2>2. IsFiniteSet(1..N)
    BY <1>0, FS_Interval
  <2>. HIDE DEF A, N
  <2>. QED  BY <2>1, <2>2, FS_Bijection
<1>5. Cardinality(1..N) = N
  BY <1>0, CardUpTo
<1>. QED  BY <1>4, <1>5 DEF Cnt

-----------------------------------------------------------------------------
(* DeleteBelow *)

\* M2 is M without some keys above a and up to b with values below ts.
Lowers(M, M2, ts, a, b) ==
    /\ M2 \in Tables
    /\ \A k \in 1..absoluteMax : M2[k] = M[k] \/ (a < k /\ k <= b /\ M2[k] = -1 /\ M[k] < ts)

\* The fences that are left when keys above a and up to b are taken away: keys there that
\* stay in spite of values below ts are fences, and elsewhere the fences are as before.
FencesLower(M2, ts, E, E2, a, b) ==
    /\ E2 \subseteq E
    /\ \A k \in 1..absoluteMax : a < k /\ k <= b /\ M2[k] # -1 /\ M2[k] < ts => k \in E2
    /\ \A f \in 1..absoluteMax : f \in E /\ ~(a < f /\ f <= b) => f \in E2

\* Compaction below page p of tree u gives tree w, with pages T2.
Compacts(u, T, lv, lo, M, z, ts, p, x, T2, lv2, lo2, M2, F2) ==
    LET w == x.tree
        top == Top(u.page[p].kv)
    IN  /\ Shape(w.page, T2, lv2, lo2, M2, z, 0) /\ Store(w, T2, F2)
        /\ T2 \subseteq T /\ \A q \in T2 : lv2[q] = lv[q]
        /\ \A q \in T : lv[q] >= lv[p] => q \in T2 /\ lo2[q] = lo[q] /\ (q # p => w.page[q] = u.page[q])
        /\ Lowers(M, M2, ts, lo[p], top) /\ Top(w.page[p].kv) = top
        /\ w.leafKeys = u.leafKeys + Cnt(M2, lo[p], top)
        /\ FencesLower(M2, ts, Fen(u.page, T, lv), Fen(w.page, T2, lv2), lo[p], top)
        /\ x.rem = 0 => lv[p] = 0 /\ Len(w.page[p].kv) = 1 /\ w.page[p].kv[1].val < ts

CompactsBelow(u, T, lv, lo, M, z, ts, p, x) ==
    \E T2, lv2, lo2, M2, F2 : Compacts(u, T, lv, lo, M, z, ts, p, x, T2, lv2, lo2, M2, F2)

\* What is left of the pairs of a page
LEMMA CompactOrdered ==
    ASSUME NEW n \in Page, NEW l \in Nat, Ordered(n.kv, l), NEW lim \in Nat, NEW r, r = nodeCompact(n, lim)
    PROVE  /\ r \in Page /\ r.id = n.id /\ r.leaf = n.leaf /\ Ordered(r.kv, l) /\ Top(r.kv) = Top(n.kv)
           /\ Len(r.kv) <= Len(n.kv)
           /\ \E e : Kept(n.kv, Stay(n.kv, lim, Top(n.kv)), r.kv, e)
<1>. DEFINE kv == n.kv
            P == Stay(kv, lim, Top(kv))
            N == Len(kv)
<1>0. kv \in KVs
  BY DEF Page
<1>1. /\ N \in Nat /\ N >= 1 /\ N \in 1..N /\ Top(kv) \in Nat /\ Up(kv) /\ Top(kv) <= absoluteMax
      /\ \A i \in 1..N : kv[i].key \in Nat /\ l < kv[i].key
  BY <1>0, OrderedFacts
<1>2. maxKey(n) = Top(kv)
  BY <1>1, MaxKeyTop
<1>3. r \in Page /\ r.id = n.id /\ r.leaf = n.leaf /\ \E e : Kept(kv, P, r.kv, e)
  BY <1>2, CompactKeeps
<1>4. PICK e : Kept(kv, P, r.kv, e)
  BY <1>3
<1>. DEFINE R == Len(r.kv)
<1>5. /\ r.kv \in KVs /\ e \in [1..R -> P]
      /\ \A i, j \in 1..R : i < j => e[i] < e[j]
      /\ \A j \in 1..R : r.kv[j] = kv[e[j]]
      /\ \A i \in P : \E j \in 1..R : e[j] = i
  BY <1>4 DEF Kept
<1>6. R \in Nat /\ P \subseteq 1..N /\ N \in P
  <2>1. R \in Nat
    BY <1>5, KVType
  <2>2. ~(kv[N].key < Top(kv))
    BY <1>1 DEF Top
  <2>. QED  BY <1>1, <2>1, <2>2 DEF Stay
<1>. HIDE DEF P, R
<1>7. PICK a \in 1..R : e[a] = N
  BY <1>5, <1>6
<1>8. R \in 1..R /\ 1 \in 1..R /\ R >= 1
  BY <1>6, <1>7
<1>9. a = R
  <2>. SUFFICES ASSUME a # R  PROVE FALSE
    OBVIOUS
  <2>1. a < R
    BY <1>6, <1>7
  <2>2. e[a] < e[R] /\ e[R] \in 1..N
    BY <1>5, <1>6, <1>8, <2>1
  <2>. QED  BY <1>1, <1>7, <2>2
<1>10. Top(r.kv) = Top(kv)
  BY <1>5, <1>7, <1>8, <1>9 DEF Top, R
<1>11. Up(r.kv)
  <2>. SUFFICES ASSUME NEW i \in 1..R, NEW j \in 1..R, i < j  PROVE r.kv[i].key < r.kv[j].key
    BY DEF Up, R
  <2>1. e[i] \in 1..N /\ e[j] \in 1..N /\ e[i] < e[j]
    BY <1>5, <1>6
  <2>. QED  BY <1>1, <1>5, <2>1 DEF Up
<1>12. l < r.kv[1].key
  <2>1. e[1] \in 1..N
    BY <1>5, <1>6, <1>8
  <2>. QED  BY <1>1, <1>5, <1>8, <2>1
<1>13. Ordered(r.kv, l)
  BY <1>1, <1>8, <1>10, <1>11, <1>12 DEF Ordered, R
<1>14. R <= N
  <2>1. e \in Injection(1..R, 1..N)
    <3>1. e \in [1..R -> 1..N] /\ DOMAIN e = 1..R
      BY <1>5, <1>6
    <3>2. ASSUME NEW i \in 1..R, NEW j \in 1..R, e[i] = e[j]  PROVE i = j
      <4>0. e[i] \in 1..N /\ e[i] \in Int
        <5>1. e[i] \in P
          BY <1>5
        <5>2. e[i] \in 1..N
          BY <1>6, <5>1
        <5>. QED  BY <1>1, <5>2
      <4>1. ~(e[i] < e[j]) /\ ~(e[j] < e[i])
        BY <3>2, <4>0
      <4>2. ~(i < j) /\ ~(j < i)
        BY <1>5, <4>1
      <4>. QED  BY <1>6, <4>2
    <3>. QED  BY <3>1, <3>2 DEF Injection, IsInjective
  <2>2. IsFiniteSet(1..N) /\ Cardinality(1..N) = N /\ Cardinality(1..R) = R
    BY <1>1, <1>6, CardUpTo
  <2>3. Cardinality(1..R) <= Cardinality(1..N)
    <3>. HIDE DEF N
    <3>. QED  BY <2>1, <2>2, FS_Injection
  <2>. QED  BY <2>2, <2>3
<1>. QED  BY <1>3, <1>10, <1>13, <1>14 DEF P, R

\* A page with new pairs, and another number of keys
PageStored(u, T, F, p, r, lk, w) ==
    /\ Store(w, T, F) /\ SameStore(u, w) /\ w.leafKeys = lk /\ w.page \in PageMaps /\ w.page[p] = r
    /\ \A q \in Pids : q # p => w.page[q] = u.page[q]

\* A page of the tree changes, and the free list does not.
LEMMA PageStore ==
    ASSUME NEW u, NEW T, NEW F, Store(u, T, F), NEW p \in T, NEW r \in Page, r.id = u.page[p].id, NEW lk \in Int
    PROVE  PageStored(u, T, F, p, r, lk, [u EXCEPT !.page[p] = r, !.leafKeys = lk])
<1>. DEFINE pg == [u.page EXCEPT ![p] = r]
            w == [u EXCEPT !.page[p] = r, !.leafKeys = lk]
<1>1. u \in Trees /\ p \in Pids /\ u.page \in PageMaps
  BY StoreFacts, TreeFields
<1>2. pg \in PageMaps /\ pg[p] = r /\ \A q \in Pids : q # p => pg[q] = u.page[q]
  BY <1>1 DEF PageMaps
<1>3. w = [u EXCEPT !.page = pg, !.leafKeys = lk]
  OBVIOUS
<1>. HIDE DEF pg, w
<1>4. PagesSet(u, pg, lk, w)
  <2>1. PagesSet(u, pg, lk, [u EXCEPT !.page = pg, !.leafKeys = lk])
    BY <1>1, <1>2, WithPages
  <2>. QED  BY <1>3, <2>1
<1>5. SameStore(u, w) /\ w.page = pg /\ w.leafKeys = lk
  BY <1>4 DEF PagesSet
<1>6. \A q \in Ran(F) : q \in Pids /\ q # p
  BY StoreFacts
<1>7. Store(w, T, F)
  <2>1. \A q \in Pids : w.page[q].id = u.page[q].id
    BY <1>2, <1>5
  <2>2. \A q \in Ran(F) : w.page[q] = u.page[q]
    BY <1>2, <1>5, <1>6
  <2>. QED  BY <1>5, <2>1, <2>2, StoreKeeps
<1>8. PageStored(u, T, F, p, r, lk, w)
  BY <1>2, <1>5, <1>7 DEF PageStored
<1>. QED  BY <1>8 DEF w

\* compact on a leaf
LEMMA LeafCompacts ==
    ASSUME NEW u, NEW T, NEW lv, NEW lo, NEW M, NEW z, NEW F, Shape(u.page, T, lv, lo, M, z, 0), Store(u, T, F),
           NEW p \in T, lv[p] = 0, NEW ts \in Nat
    PROVE  CompactsBelow(u, T, lv, lo, M, z, ts, p, Compacted(u, p, ts))
<1>. DEFINE n == u.page[p]
            kv == n.kv
            r == nodeCompact(n, ts)
            top == Top(kv)
            x == Compacted(u, p, ts)
            w == x.tree
            l == lo[p]
            gone == {k \in 1..absoluteMax : l < k /\ k <= top /\ \A j \in 1..Len(r.kv) : r.kv[j].key # k}
            M2 == [k \in 1..absoluteMax |-> IF k \in gone THEN -1 ELSE M[k]]
<1>0. ShapeType(u.page, T, lv, lo, M) /\ \A q \in T : Node(u.page, T, lv, lo, M, z, q)
  BY ShapeNode
<1>1. /\ n \in Page /\ kv \in KVs /\ l \in Nat /\ Ordered(kv, l) /\ top \in Nat /\ top <= absoluteMax /\ p \in Pids /\ l < top
      /\ Up(kv) /\ Len(kv) \in Nat /\ \A i \in 1..Len(kv) : kv[i].key \in Nat /\ l < kv[i].key /\ kv[i].key <= top /\ kv[i].key \in 1..absoluteMax
  <2>1. Node(u.page, T, lv, lo, M, z, p)
    BY <1>0
  <2>. QED  BY <1>0, <2>1, NodeFacts
<1>2. n.leaf /\ Contents(kv, l, M)
  BY <1>0 DEF Node
<1>3. M \in Tables /\ absoluteMax \in Nat /\ lv \in [T -> Nat] /\ lo \in [T -> Nat]
  BY <1>0, TreeConstants DEF ShapeType
<1>. HIDE DEF r
<1>4. /\ r \in Page /\ r.id = n.id /\ r.leaf = n.leaf /\ Ordered(r.kv, l) /\ Top(r.kv) = top /\ Len(r.kv) <= Len(kv)
      /\ \E e : Kept(kv, Stay(kv, ts, top), r.kv, e)
  BY <1>1, CompactOrdered DEF r
<1>5. PICK e : Kept(kv, Stay(kv, ts, top), r.kv, e)
  BY <1>4
<1>. DEFINE P == Stay(kv, ts, top)
<1>6. /\ r.kv \in KVs /\ e \in [1..Len(r.kv) -> P]
      /\ \A j \in 1..Len(r.kv) : r.kv[j] = kv[e[j]]
      /\ \A i \in P : \E j \in 1..Len(r.kv) : e[j] = i
  BY <1>5 DEF Kept
<1>7. P = {i \in 1..Len(kv) : ~(kv[i].val < ts /\ kv[i].key < top)}
  BY DEF Stay
<1>. HIDE DEF P
<1>8. \A j \in 1..Len(r.kv) : \E i \in 1..Len(kv) : r.kv[j] = kv[i]
  BY <1>6, <1>7
<1>9. \A i \in 1..Len(kv) : (kv[i].val < ts /\ kv[i].key < top) \/ \E j \in 1..Len(r.kv) : r.kv[j] = kv[i]
  BY <1>6, <1>7
<1>10. M2 \in Tables
  BY <1>3 DEF Tables
<1>11. /\ \A i \in 1..Len(kv) : M[kv[i].key] = kv[i].val
       /\ \A k \in (l + 1)..top : M[k] # -1 => \E i \in 1..Len(kv) : kv[i].key = k
  BY <1>2 DEF Contents
<1>12. \A k \in 1..absoluteMax : M2[k] = IF k \in gone THEN -1 ELSE M[k]
  OBVIOUS
<1>. HIDE DEF M2
<1>13. Contents(r.kv, l, M2)
  <2>1. ASSUME NEW j \in 1..Len(r.kv)  PROVE M2[r.kv[j].key] = r.kv[j].val
    <3>1. PICK i \in 1..Len(kv) : r.kv[j] = kv[i]
      BY <1>8
    <3>2. r.kv[j].key \in 1..absoluteMax /\ r.kv[j].key \notin gone
      BY <1>1, <3>1
    <3>3. M[kv[i].key] = kv[i].val
      BY <1>11
    <3>4. M2[r.kv[j].key] = M[r.kv[j].key]
      BY <1>12, <3>2
    <3>. QED  BY ONLY <3>1, <3>3, <3>4
  <2>2. ASSUME NEW k \in (l + 1)..Top(r.kv), M2[k] # -1  PROVE \E j \in 1..Len(r.kv) : r.kv[j].key = k
    <3>1. k \in 1..absoluteMax /\ l < k /\ k <= top
      BY <1>1, <1>3, <1>4
    <3>2. k \notin gone
      BY <1>12, <2>2, <3>1
    <3>. QED  BY <3>1, <3>2
  <2>. QED  BY <2>1, <2>2 DEF Contents
<1>14. ASSUME NEW k \in 1..absoluteMax, M2[k] # M[k]
       PROVE  l < k /\ k <= top /\ M2[k] = -1 /\ M[k] < ts
  <2>1. k \in gone /\ M2[k] = -1 /\ M[k] # -1 /\ k \in (l + 1)..top /\ l < k /\ k <= top
    BY <1>1, <1>12, <1>14
  <2>2. PICK i \in 1..Len(kv) : kv[i].key = k
    BY <1>11, <2>1
  <2>3. \A j \in 1..Len(r.kv) : r.kv[j] # kv[i]
    BY <2>1, <2>2
  <2>4. kv[i].val < ts
    BY <1>9, <2>3
  <2>. QED  BY <1>11, <2>1, <2>2, <2>4
<1>15. Lowers(M, M2, ts, l, top)
  BY <1>10, <1>14 DEF Lowers
<1>. DEFINE lk == u.leafKeys + Len(r.kv)
<1>16. lk \in Int
  <2>1. u.leafKeys \in Int /\ Len(r.kv) \in Nat
    BY <1>6, StoreFacts, TreeFields, KVType
  <2>. QED  BY <2>1
<1>17. x = [tree |-> [u EXCEPT !.page[p] = r, !.leafKeys = lk], rem |-> Remaining(r, ts)]
  BY <1>2, <1>4 DEF Compacted, r
<1>18. w = [u EXCEPT !.page[p] = r, !.leafKeys = lk] /\ x.rem = Remaining(r, ts)
  BY <1>17
<1>. HIDE DEF x, w, lk
<1>19. /\ Store(w, T, F) /\ w.leafKeys = lk /\ w.page \in PageMaps /\ w.page[p] = r
       /\ \A q \in Pids : q # p => w.page[q] = u.page[q]
  <2>1. PageStored(u, T, F, p, r, lk, w)
    BY <1>4, <1>16, <1>18, PageStore
  <2>. QED  BY <2>1 DEF PageStored
<1>20. T \subseteq Pids
  BY StoreFacts
<1>21. LeafChanges(u.page, T, lv, lo, M, z, p, w.page, M2)
  <2>1. \A q \in T : q # p => w.page[q] = u.page[q]
    BY <1>19, <1>20
  <2>. QED  BY <1>4, <1>10, <1>13, <1>14, <1>19, <2>1 DEF LeafChanges
<1>22. Sizes(w.page, T, 0)
  <2>1. \A q \in T : q # 0 /\ Len(u.page[q].kv) < maxKeys
    <3>1. \A q \in T : q # 0
      BY <1>20, TreeConstants DEF Pids
    <3>. QED  BY <3>1 DEF Shape, Sizes
  <2>2. Len(r.kv) < maxKeys
    <3>1. Len(r.kv) \in Nat /\ Len(kv) < maxKeys /\ maxKeys \in Nat
      BY <1>6, <2>1, KVType, TreeConstants
    <3>. QED  BY <1>1, <1>4, <3>1
  <2>. QED  BY <1>19, <1>20, <2>1, <2>2 DEF Sizes
<1>23. Shape(w.page, T, lv, lo, M2, z, 0)
  BY <1>21, <1>22, LeafChange
<1>24. w.leafKeys = u.leafKeys + Cnt(M2, l, top)
  <2>1. Cnt(M2, l, Top(r.kv)) = Len(r.kv)
    BY <1>1, <1>4, <1>6, <1>13, CntLeaf
  <2>. QED  BY <1>4, <1>19, <2>1 DEF lk
<1>25. x.rem = 0 => Len(r.kv) = 1 /\ r.kv[1].val < ts
  <2>1. Len(r.kv) # 0
    BY <1>4 DEF Ordered
  <2>. QED  BY <1>18, <2>1 DEF Remaining
<1>27. Fen(w.page, T, lv) = Fen(u.page, T, lv) /\ top \in Fen(u.page, T, lv)
  <2>1. \A q \in T : Top(w.page[q].kv) = Top(u.page[q].kv)
    BY <1>4, <1>19, <1>20
  <2>2. Fen(w.page, T, lv) = Fen(u.page, T, lv)
    BY <2>1, FenSame
  <2>. QED  BY <2>2 DEF Fen
<1>28. ASSUME NEW k \in 1..absoluteMax, l < k, k <= top, M2[k] # -1, M2[k] < ts  PROVE k = top
  <2>1. k \in (l + 1)..Top(r.kv)
    BY <1>1, <1>4, <1>28
  <2>2. PICK j \in 1..Len(r.kv) : r.kv[j].key = k
    BY <1>13, <1>28, <2>1 DEF Contents
  <2>3. M2[k] = r.kv[j].val
    BY <1>13, <2>2 DEF Contents
  <2>4. r.kv[j] = kv[e[j]] /\ e[j] \in P
    BY <1>6
  <2>5. ~(r.kv[j].val < ts /\ k < top)
    BY <1>7, <2>2, <2>4
  <2>6. k \in Nat /\ ~(k < top)
    BY <1>3, <1>28, <2>3, <2>5
  <2>. QED  BY <1>1, <1>28, <2>6
<1>29. FencesLower(M2, ts, Fen(u.page, T, lv), Fen(w.page, T, lv), l, top)
  BY <1>27, <1>28 DEF FencesLower
<1>26. Compacts(u, T, lv, lo, M, z, ts, p, x, T, lv, lo, M2, F)
  <2>1. \A q \in T : lv[q] >= lv[p] => q \in T /\ lo[q] = lo[q] /\ (q # p => w.page[q] = u.page[q])
    BY <1>19, <1>20
  <2>2. Top(w.page[p].kv) = Top(u.page[p].kv)
    BY <1>4, <1>19
  <2>3. w = x.tree
    BY DEF w
  <2>. HIDE DEF kv, n, top, l
  <2>. QED  BY <1>15, <1>19, <1>23, <1>24, <1>25, <1>29, <2>1, <2>2, <2>3 DEF Compacts, top, l, kv, n
<1>. QED  BY <1>26 DEF CompactsBelow, x

\* Leaf c, entry i of page q, leaves the tree.
Drops(pg, T, c, q, i, pg2) ==
    /\ pg2 \in PageMaps /\ \A p \in T : p # c /\ p # q => pg2[p] = pg[p]
    /\ pg2[q].leaf = pg[q].leaf /\ Len(pg2[q].kv) = Len(pg[q].kv) /\ pg2[q].kv[i].val = 0
    /\ \A j \in 1..Len(pg[q].kv) : pg2[q].kv[j].key = pg[q].kv[j].key /\ (j # i => pg2[q].kv[j] = pg[q].kv[j])

\* Leaf c has one pair and is the i-th child, but not the last, of page q.
LastPair(pg, T, lv, lo, M, c, q, i) ==
    /\ Shape(pg, T, lv, lo, M, q, 0) /\ c \in T /\ Len(pg[c].kv) = 1
    /\ q \in T /\ lv[q] = 1 /\ i \in 1..Len(pg[q].kv) /\ i < Len(pg[q].kv) /\ pg[q].kv[i].val = c

Without(f, T, c) == [p \in T \ {c} |-> f[p]]

\* What is known of a leaf that is to be dropped: its only key is the one in its
\* parent
LEMMA LastPairFacts ==
    ASSUME NEW pg, NEW T, NEW lv, NEW lo, NEW M, NEW c, NEW q, NEW i, LastPair(pg, T, lv, lo, M, c, q, i)
    PROVE  /\ c \in Pids /\ c \in Nat /\ c # 0 /\ q \in Pids /\ c # q /\ lv[c] = 0 /\ lo[c] \in Nat /\ lo[q] \in Nat
           /\ Top(pg[c].kv) = pg[q].kv[i].key /\ lo[c] = Above(pg[q].kv, lo[q], i)
           /\ pg[q].kv[i].key \in 1..absoluteMax /\ pg[c].kv[1].key = pg[q].kv[i].key
           /\ M[pg[q].kv[i].key] = pg[c].kv[1].val /\ pg[c].kv[1].val \in Nat
           /\ \A k \in (lo[c] + 1)..(pg[q].kv[i].key) : M[k] # -1 => k = pg[q].kv[i].key
           /\ pg[q].kv \in KVs /\ Len(pg[q].kv) \in Nat /\ i \in Nat /\ pg[c] \in Page /\ pg[q] \in Page
<1>0. /\ Shape(pg, T, lv, lo, M, q, 0) /\ c \in T /\ Len(pg[c].kv) = 1
      /\ q \in T /\ lv[q] = 1 /\ i \in 1..Len(pg[q].kv) /\ pg[q].kv[i].val = c
  BY DEF LastPair
<1>1. ShapeType(pg, T, lv, lo, M) /\ Node(pg, T, lv, lo, M, q, c) /\ Node(pg, T, lv, lo, M, q, q)
  BY <1>0, ShapeNode
<1>2. c \in Pids /\ lo[c] \in Nat /\ pg[c] \in Page /\ 1 \in 1..Len(pg[c].kv) /\ \A j \in 1..Len(pg[c].kv) : pg[c].kv[j].val \in Nat
  BY <1>0, <1>1, NodeFacts
<1>3. /\ q \in Pids /\ lo[q] \in Nat /\ pg[q] \in Page /\ pg[q].kv \in KVs /\ Len(pg[q].kv) \in Nat
      /\ \A j \in 1..Len(pg[q].kv) : pg[q].kv[j].key \in 1..absoluteMax
  BY <1>0, <1>1, NodeFacts
<1>4. c # 0 /\ c \in Nat /\ i \in Nat
  BY <1>0, <1>2, <1>3, TreeConstants DEF Pids
<1>5. Entry(pg, T, lv, lo, M, q, q, i)
  <2>1. lv[q] # 0
    BY <1>0
  <2>. QED  BY <1>0, <1>1, <2>1 DEF Node
<1>6. lv[c] = lv[q] - 1 /\ Top(pg[c].kv) = pg[q].kv[i].key /\ lo[c] = Above(pg[q].kv, lo[q], i)
  BY <1>0, <1>4, <1>5 DEF Entry
<1>7. lv[c] = 0 /\ c # q
  BY <1>0, <1>6
<1>8. pg[c].kv[1].key = pg[q].kv[i].key
  BY <1>0, <1>6 DEF Top
<1>9. Contents(pg[c].kv, lo[c], M)
  BY <1>1, <1>7 DEF Node
<1>10. M[pg[q].kv[i].key] = pg[c].kv[1].val
  BY <1>2, <1>8, <1>9 DEF Contents
<1>11. \A k \in (lo[c] + 1)..(pg[q].kv[i].key) : M[k] # -1 => k = pg[q].kv[i].key
  <2>1. \A j \in 1..Len(pg[c].kv) : j = 1
    BY <1>0
  <2>. QED  BY <1>6, <1>8, <1>9, <2>1 DEF Contents
<1>. QED  BY <1>0, <1>2, <1>3, <1>4, <1>6, <1>7, <1>8, <1>10, <1>11

\* The tree without the dropped leaf has the table without its key; page q has a pair
\* without a child.
LEMMA DropShape ==
    ASSUME NEW pg, NEW T, NEW lv, NEW lo, NEW M, NEW c, NEW q, NEW i, LastPair(pg, T, lv, lo, M, c, q, i),
           NEW pg2, Drops(pg, T, c, q, i, pg2), NEW M2, M2 = [M EXCEPT ![pg[q].kv[i].key] = -1]
    PROVE  Shape(pg2, T \ {c}, Without(lv, T, c), Without(lo, T, c), M2, q, 0)
<1>. DEFINE kq == pg[q].kv
            key == kq[i].key
            T2 == T \ {c}
            lv2 == Without(lv, T, c)
            lo2 == Without(lo, T, c)
<1>0. /\ Shape(pg, T, lv, lo, M, q, 0) /\ c \in T /\ Len(pg[c].kv) = 1
      /\ q \in T /\ lv[q] = 1 /\ i \in 1..Len(kq) /\ i < Len(kq) /\ kq[i].val = c
  BY DEF LastPair
<1>1. ShapeType(pg, T, lv, lo, M) /\ \A p \in T : Node(pg, T, lv, lo, M, q, p)
  BY <1>0, ShapeNode
<1>2. /\ c \in Pids /\ c # 0 /\ q \in Pids /\ c # q /\ lv[c] = 0 /\ lo[c] \in Nat
      /\ Top(pg[c].kv) = key /\ lo[c] = Above(kq, lo[q], i) /\ key \in 1..absoluteMax
      /\ \A k \in (lo[c] + 1)..key : M[k] # -1 => k = key
      /\ kq \in KVs /\ Len(kq) \in Nat /\ i \in Nat /\ lo[q] \in Nat
  BY LastPairFacts
<1>3. /\ pg2 \in PageMaps /\ \A p \in T : p # c /\ p # q => pg2[p] = pg[p]
      /\ pg2[q].leaf = pg[q].leaf /\ Len(pg2[q].kv) = Len(kq) /\ pg2[q].kv[i].val = 0
      /\ \A j \in 1..Len(kq) : pg2[q].kv[j].key = kq[j].key /\ (j # i => pg2[q].kv[j] = kq[j])
  BY DEF Drops
<1>4. M \in Tables /\ lv \in [T -> Nat] /\ lo \in [T -> Nat] /\ T \subseteq Pids
  BY <1>1 DEF ShapeType
<1>5. /\ lv2 \in [T2 -> Nat] /\ lo2 \in [T2 -> Nat] /\ \A p \in T2 : lv2[p] = lv[p] /\ lo2[p] = lo[p] /\ p \in T /\ p # c
  BY <1>4 DEF Without
<1>6. /\ M2 \in Tables /\ M2[key] = -1 /\ \A k \in 1..absoluteMax : k # key => M2[k] = M[k]
  <2>. HIDE DEF key
  <2>. QED  BY <1>2, <1>4 DEF Tables, key
<1>. HIDE DEF lv2, lo2
<1>7. q \in T2 /\ lv2[q] = 1 /\ lo2[q] = lo[q]
  BY <1>0, <1>2, <1>5
<1>8. Ordered(kq, lo[q]) /\ \A j \in 1..Len(kq) : Above(kq, lo[q], j) \in Nat /\ kq[j].key \in Nat /\ kq[j].key <= absoluteMax
  <2>1. Node(pg, T, lv, lo, M, q, q)
    BY <1>0, <1>1
  <2>2. Ordered(kq, lo[q])
    BY <2>1 DEF Node
  <2>. QED  BY <1>2, <2>2, OrderedFacts
<1>9. Top(pg2[q].kv) = Top(kq) /\ \A j \in 1..Len(kq) : Above(pg2[q].kv, lo[q], j) = Above(kq, lo[q], j)
  <2>1. Len(kq) \in 1..Len(kq) /\ \A j \in 1..Len(kq) : j # 1 => j - 1 \in 1..Len(kq)
    BY <1>0, <1>2
  <2>. QED  BY <1>3, <2>1 DEF Top, Above
<1>10. \A p \in T2 : Top(pg2[p].kv) = Top(pg[p].kv)
  BY <1>3, <1>5, <1>9
\* The other children are where they were.
<1>11. ASSUME NEW p \in T2, lv[p] # 0, NEW j \in 1..Len(pg[p].kv), ~(p = q /\ j = i), pg[p].kv[j].val # 0
       PROVE  LET d == pg[p].kv[j].val
              IN  /\ d \in T2 /\ lv2[d] = lv2[p] - 1 /\ Top(pg2[d].kv) = pg[p].kv[j].key
                  /\ lo2[d] = Above(pg[p].kv, lo[p], j)
  <2>. DEFINE d == pg[p].kv[j].val
  <2>1. Entry(pg, T, lv, lo, M, q, p, j)
    BY <1>1, <1>11 DEF Node
  <2>2. d \in T /\ lv[d] = lv[p] - 1 /\ Top(pg[d].kv) = pg[p].kv[j].key /\ lo[d] = Above(pg[p].kv, lo[p], j)
    BY <1>11, <2>1 DEF Entry
  <2>3. d # c
    <3>. SUFFICES ASSUME d = c  PROVE FALSE
      OBVIOUS
    <3>0. /\ p \in T /\ lv[p] # 0 /\ j \in 1..Len(pg[p].kv) /\ q \in T /\ lv[q] # 0 /\ i \in 1..Len(pg[q].kv)
          /\ pg[p].kv[j].val = pg[q].kv[i].val /\ pg[p].kv[j].val # 0
      BY <1>0, <1>11
    <3>1. p = q /\ j = i
      <4>. HIDE DEF d, kq, key, T2, lv2, lo2
      <4>. QED  BY <1>0, <3>0, OnePlace
    <3>. QED  BY <1>11, <3>1
  <2>. HIDE DEF d
  <2>. QED  BY <1>5, <1>10, <2>2, <2>3 DEF d
<1>12. Node(pg2, T2, lv2, lo2, M2, q, q)
  <2>0. lv2[q] # 0 /\ lv[q] # 0
    BY <1>0, <1>7
  <2>1. pg2[q].leaf <=> lv2[q] = 0
    BY <1>0, <1>1, <1>3, <2>0 DEF Node
  <2>2. Ordered(pg2[q].kv, lo2[q])
    <3>1. Up(pg2[q].kv)
      <4>1. Up(kq)
        BY <1>8 DEF Ordered
      <4>2. Len(pg2[q].kv) = Len(kq) /\ \A j \in 1..Len(kq) : pg2[q].kv[j].key = kq[j].key
        BY <1>3
      <4>. HIDE DEF kq
      <4>. QED  BY ONLY <4>1, <4>2 DEF Up
    <3>2. 1 \in 1..Len(kq)
      BY <1>0, <1>2
    <3>. QED  BY <1>3, <1>7, <1>8, <1>9, <3>1, <3>2 DEF Ordered
  <2>3. ASSUME NEW j \in 1..Len(pg2[q].kv)  PROVE Entry(pg2, T2, lv2, lo2, M2, q, q, j)
    <3>0. j \in 1..Len(kq) /\ pg2[q].kv[j].key = kq[j].key /\ Above(pg2[q].kv, lo2[q], j) = Above(kq, lo[q], j)
      BY <1>3, <1>7, <1>9
    <3>1. CASE j = i
      <4>1. \A k \in (Above(kq, lo[q], i) + 1)..key : M2[k] = -1
        <5>. SUFFICES ASSUME NEW k \in (lo[c] + 1)..key  PROVE M2[k] = -1
          BY <1>2
        <5>1. k \in 1..absoluteMax
          BY <1>2, TreeConstants
        <5>. HIDE DEF key
        <5>. QED  BY <1>2, <1>6, <5>1
      <4>. QED  BY <1>0, <1>3, <1>7, <3>0, <3>1, <4>1 DEF Entry
    <3>2. CASE j # i /\ kq[j].val # 0
      <4>. DEFINE d == kq[j].val
      <4>1. d \in T2 /\ lv2[d] = lv2[q] - 1 /\ Top(pg2[d].kv) = kq[j].key /\ lo2[d] = Above(kq, lo[q], j)
        BY <1>7, <1>11, <2>0, <3>0, <3>2
      <4>2. pg2[q].kv[j].val = d
        BY <1>3, <3>0, <3>2
      <4>. HIDE DEF d
      <4>. QED  BY <3>0, <4>1, <4>2 DEF Entry
    <3>3. CASE j # i /\ kq[j].val = 0
      <4>1. Entry(pg, T, lv, lo, M, q, q, j)
        BY <1>0, <1>1, <2>0, <3>0 DEF Node
      <4>2. 0 \notin T
        BY <1>4, TreeConstants DEF Pids
      <4>3. j < Len(kq) /\ \A k \in (Above(kq, lo[q], j) + 1)..kq[j].key : M[k] = -1
        BY <3>3, <4>1, <4>2 DEF Entry
      <4>4. \A k \in (Above(kq, lo[q], j) + 1)..kq[j].key : M2[k] = -1
        <5>. SUFFICES ASSUME NEW k \in (Above(kq, lo[q], j) + 1)..kq[j].key  PROVE M2[k] = -1
          OBVIOUS
        <5>1. k \in 1..absoluteMax
          BY <1>8, <3>0, TreeConstants
        <5>. HIDE DEF key
        <5>. QED  BY <1>6, <4>3, <5>1
      <4>5. pg2[q].kv[j].val = 0
        BY <1>3, <3>0, <3>3
      <4>. QED  BY <1>3, <1>7, <3>0, <4>3, <4>4, <4>5 DEF Entry
    <3>. QED  BY <3>1, <3>2, <3>3
  <2>. QED  BY <2>0, <2>1, <2>2, <2>3 DEF Node
<1>13. ASSUME NEW p \in T2, p # q  PROVE Node(pg2, T2, lv2, lo2, M2, q, p)
  <2>1. pg2[p] = pg[p] /\ lv2[p] = lv[p] /\ lo2[p] = lo[p] /\ Node(pg, T, lv, lo, M, q, p) /\ p \in T /\ p # c
    BY <1>1, <1>3, <1>5, <1>13
  <2>2. (pg2[p].leaf <=> lv2[p] = 0) /\ Ordered(pg2[p].kv, lo2[p])
    BY <2>1 DEF Node
  <2>3. ASSUME lv2[p] # 0, NEW j \in 1..Len(pg2[p].kv)  PROVE Entry(pg2, T2, lv2, lo2, M2, q, p, j)
    <3>0. Entry(pg, T, lv, lo, M, q, p, j)
      BY <2>1, <2>3 DEF Node
    <3>1. pg[p].kv[j].val # 0
      <4>1. 0 \notin T
        BY <1>4, TreeConstants DEF Pids
      <4>. QED  BY <1>13, <3>0, <4>1 DEF Entry
    <3>. DEFINE d == pg[p].kv[j].val
    <3>2. d \in T2 /\ lv2[d] = lv2[p] - 1 /\ Top(pg2[d].kv) = pg[p].kv[j].key /\ lo2[d] = Above(pg[p].kv, lo[p], j)
      BY <1>11, <1>13, <2>1, <2>3, <3>1
    <3>. QED  BY <2>1, <3>2 DEF Entry
  <2>4. ASSUME lv2[p] = 0  PROVE Contents(pg2[p].kv, lo2[p], M2)
    <3>1. Contents(pg[p].kv, lo[p], M)
      BY <2>1, <2>4 DEF Node
    <3>2. Top(pg[p].kv) <= lo[c] \/ key <= lo[p]
      BY <1>0, <1>2, <2>1, <2>4 DEF Shape, Apart
    <3>3. lo[c] < key
      <4>1. Node(pg, T, lv, lo, M, q, c)
        BY <1>0, <1>1
      <4>2. lo[c] < Top(pg[c].kv)
        BY <1>0, <1>1, <4>1, NodeFacts
      <4>. QED  BY <1>2, <4>2
    <3>4. /\ lo[p] \in Nat /\ Top(pg[p].kv) \in Nat /\ Top(pg[p].kv) <= absoluteMax
          /\ \A j \in 1..Len(pg[p].kv) : pg[p].kv[j].key \in 1..absoluteMax /\ lo[p] < pg[p].kv[j].key /\ pg[p].kv[j].key <= Top(pg[p].kv)
      BY <1>1, <2>1, NodeFacts
    <3>5. \A k \in (lo[p] + 1)..Top(pg[p].kv) : k \in 1..absoluteMax /\ k # key
      <4>. HIDE DEF key
      <4>. QED  BY <1>2, <3>2, <3>3, <3>4, TreeConstants
    <3>6. \A k \in (lo[p] + 1)..Top(pg[p].kv) : M2[k] = M[k]
      <4>. HIDE DEF key
      <4>. QED  BY <1>6, <3>5
    <3>7. \A j \in 1..Len(pg[p].kv) : pg[p].kv[j].key \in (lo[p] + 1)..Top(pg[p].kv)
      BY <3>4
    <3>. QED  BY <2>1, <3>1, <3>6, <3>7 DEF Contents
  <2>. QED  BY <2>2, <2>3, <2>4 DEF Node
<1>14. Apart(pg2, T2, lv2, lo2)
  <2>1. \A p, s \in T : p # s /\ lv[p] = lv[s] => Top(pg[p].kv) <= lo[s] \/ Top(pg[s].kv) <= lo[p]
    BY <1>0 DEF Shape, Apart
  <2>. QED  BY <1>5, <1>10, <2>1 DEF Apart
<1>15. ASSUME NEW p \in T2, p # 1  PROVE HasParent(pg2, T2, lv2, p)
  <2>1. p \in T /\ p # c
    BY <1>5
  <2>2. PICK s \in T : lv[s] # 0 /\ \E a \in 1..Len(pg[s].kv) : pg[s].kv[a].val = p
    BY <1>0, <1>15, <2>1 DEF Shape, HasParent
  <2>3. PICK a \in 1..Len(pg[s].kv) : pg[s].kv[a].val = p
    BY <2>2
  <2>4. s \in T2 /\ lv2[s] # 0
    BY <1>2, <1>5, <2>2
  <2>5. CASE s = q
    <3>1. a # i
      BY <1>0, <2>1, <2>3, <2>5
    <3>2. a \in 1..Len(pg2[q].kv) /\ pg2[q].kv[a] = kq[a]
      BY <1>3, <2>3, <2>5, <3>1
    <3>. QED  BY <2>3, <2>4, <2>5, <3>2 DEF HasParent
  <2>6. CASE s # q
    <3>1. pg2[s] = pg[s]
      BY <1>3, <1>5, <2>4, <2>6
    <3>. QED  BY <2>3, <2>4, <3>1 DEF HasParent
  <2>. QED  BY <2>5, <2>6
<1>16. Rooted(pg2, T2, lv2, lo2)
  <2>1. 1 \in T /\ lo[1] = 0 /\ Top(pg[1].kv) = absoluteMax /\ lv[1] # 0 /\ \A p \in T : lv[p] <= lv[1]
    BY <1>0 DEF Shape, Rooted
  <2>2. 1 \in T2
    BY <1>2, <2>1
  <2>. QED  BY <1>5, <1>10, <2>1, <2>2 DEF Rooted
<1>17. Sizes(pg2, T2, 0)
  <2>1. \A p \in T2 : Len(pg2[p].kv) = Len(pg[p].kv)
    BY <1>3, <1>5
  <2>2. Sizes(pg, T, 0)
    BY <1>0 DEF Shape
  <2>. QED  BY <1>5, <2>1, <2>2 DEF Sizes
<1>18. ShapeType(pg2, T2, lv2, lo2, M2)
  BY <1>3, <1>4, <1>5, <1>6 DEF ShapeType
<1>19. \A p \in T2 : Node(pg2, T2, lv2, lo2, M2, q, p)
  BY <1>12, <1>13
<1>. QED  BY <1>14, <1>15, <1>16, <1>17, <1>18, <1>19 DEF Shape, lv2, lo2

\* The fence of the dropped leaf goes, unless another leaf has it; the others stay.
LEMMA DropFences ==
    ASSUME NEW pg, NEW T, NEW lv, NEW lo, NEW M, NEW c, NEW q, NEW i, LastPair(pg, T, lv, lo, M, c, q, i),
           NEW pg2, Drops(pg, T, c, q, i, pg2)
    PROVE  LET E == Fen(pg, T, lv)
               E2 == Fen(pg2, T \ {c}, Without(lv, T, c))
           IN  E2 \subseteq E /\ \A f \in E : f # pg[q].kv[i].key => f \in E2
<1>. DEFINE E == Fen(pg, T, lv)
            E2 == Fen(pg2, T \ {c}, Without(lv, T, c))
<1>1. lv[q] # 0 /\ Top(pg[c].kv) = pg[q].kv[i].key
  <2>1. Top(pg[c].kv) = pg[q].kv[i].key
    BY LastPairFacts
  <2>. QED  BY <2>1 DEF LastPair
<1>2. ASSUME NEW p \in T, p # c, lv[p] = 0
      PROVE  Top(pg2[p].kv) = Top(pg[p].kv)
  BY <1>1, <1>2 DEF Drops
<1>3. \A p \in T \ {c} : Without(lv, T, c)[p] = lv[p]
  BY DEF Without
<1>4. ASSUME NEW f \in E2  PROVE f \in E
  <2>1. PICK p \in T \ {c} : Without(lv, T, c)[p] = 0 /\ f = Top(pg2[p].kv)
    BY DEF Fen
  <2>2. lv[p] = 0 /\ f = Top(pg[p].kv)
    BY <1>2, <1>3, <2>1
  <2>. QED  BY <2>2 DEF Fen
<1>5. ASSUME NEW f \in E, f # pg[q].kv[i].key  PROVE f \in E2
  <2>1. PICK p \in T : lv[p] = 0 /\ f = Top(pg[p].kv)
    BY DEF Fen
  <2>2. p # c
    BY <1>1, <1>5, <2>1
  <2>3. Without(lv, T, c)[p] = 0 /\ f = Top(pg2[p].kv)
    BY <1>2, <1>3, <2>1, <2>2
  <2>. QED  BY <2>2, <2>3 DEF Fen
<1>. HIDE DEF E, E2
<1>6. E2 \subseteq E /\ \A f \in E : f # pg[q].kv[i].key => f \in E2
  BY <1>4, <1>5
<1>. QED  BY <1>6 DEF E, E2

PairSet(n, i, e, r) ==
    /\ r \in Page /\ r.id = n.id /\ r.leaf = n.leaf /\ Len(r.kv) = Len(n.kv) /\ r.kv[i] = e
    /\ \A j \in 1..Len(n.kv) : j # i => r.kv[j] = n.kv[j]

\* One key of a page changes.
LEMMA PageKey ==
    ASSUME NEW n \in Page, NEW i \in 1..Len(n.kv), NEW k \in Nat
    PROVE  PairSet(n, i, [key |-> k, val |-> n.kv[i].val], [n EXCEPT !.kv[i].key = k])
<1>. DEFINE kv == n.kv
            e == [key |-> k, val |-> n.kv[i].val]
            kv2 == [kv EXCEPT ![i] = e]
<1>1. kv \in KVs /\ Len(kv) \in Nat /\ kv[i] \in Pairs /\ kv[i].val \in Nat /\ n.id \in Nat /\ n.leaf \in BOOLEAN
  BY KVType DEF Page
<1>2. [kv[i] EXCEPT !.key = k] = e /\ e \in Pairs
  BY <1>1 DEF Pairs
<1>3. kv2 \in KVs /\ Len(kv2) = Len(kv) /\ kv2[i] = e /\ \A j \in 1..Len(kv) : j # i => kv2[j] = kv[j]
  <2>1. i \in 1..Len(kv) /\ kv \in Seq(Pairs)
    BY <1>1 DEF KVs
  <2>. HIDE DEF e, kv
  <2>2. /\ [kv EXCEPT ![i] = e] \in Seq(Pairs) /\ Len([kv EXCEPT ![i] = e]) = Len(kv)
        /\ \A j \in 1..Len(kv) : [kv EXCEPT ![i] = e][j] = IF j = i THEN e ELSE kv[j]
    BY <1>2, <2>1, ExceptSeq
  <2>. QED  BY <2>1, <2>2 DEF KVs, kv2
<1>4. [n EXCEPT !.kv[i].key = k] = [n EXCEPT !.kv = kv2]
  <2>1. [n.kv EXCEPT ![i].key = k] = kv2
    BY <1>2
  <2>. QED  BY <2>1
<1>. HIDE DEF kv2
<1>5. [n EXCEPT !.kv = kv2] \in Page /\ [n EXCEPT !.kv = kv2].id = n.id /\ [n EXCEPT !.kv = kv2].leaf = n.leaf /\ [n EXCEPT !.kv = kv2].kv = kv2
  BY <1>3 DEF Page
<1>. QED  BY <1>3, <1>4, <1>5 DEF PairSet

\* One value of a page changes.
LEMMA PageVal ==
    ASSUME NEW n \in Page, NEW i \in 1..Len(n.kv), NEW v \in Nat
    PROVE  PairSet(n, i, [key |-> n.kv[i].key, val |-> v], [n EXCEPT !.kv[i].val = v])
<1>. DEFINE kv == n.kv
            e == [key |-> n.kv[i].key, val |-> v]
            kv2 == [kv EXCEPT ![i] = e]
<1>1. kv \in KVs /\ Len(kv) \in Nat /\ kv[i] \in Pairs /\ kv[i].key \in Nat /\ n.id \in Nat /\ n.leaf \in BOOLEAN
  BY KVType DEF Page
<1>2. [kv[i] EXCEPT !.val = v] = e /\ e \in Pairs
  BY <1>1 DEF Pairs
<1>3. kv2 \in KVs /\ Len(kv2) = Len(kv) /\ kv2[i] = e /\ \A j \in 1..Len(kv) : j # i => kv2[j] = kv[j]
  <2>1. i \in 1..Len(kv) /\ kv \in Seq(Pairs)
    BY <1>1 DEF KVs
  <2>. HIDE DEF e, kv
  <2>2. /\ [kv EXCEPT ![i] = e] \in Seq(Pairs) /\ Len([kv EXCEPT ![i] = e]) = Len(kv)
        /\ \A j \in 1..Len(kv) : [kv EXCEPT ![i] = e][j] = IF j = i THEN e ELSE kv[j]
    BY <1>2, <2>1, ExceptSeq
  <2>. QED  BY <2>1, <2>2 DEF KVs, kv2
<1>4. [n EXCEPT !.kv[i].val = v] = [n EXCEPT !.kv = kv2]
  <2>1. [n.kv EXCEPT ![i].val = v] = kv2
    BY <1>2
  <2>. QED  BY <2>1
<1>. HIDE DEF kv2
<1>5. [n EXCEPT !.kv = kv2] \in Page /\ [n EXCEPT !.kv = kv2].id = n.id /\ [n EXCEPT !.kv = kv2].leaf = n.leaf /\ [n EXCEPT !.kv = kv2].kv = kv2
  BY <1>3 DEF Page
<1>. QED  BY <1>3, <1>4, <1>5 DEF PairSet

FreeSet(t, pg, lk, f, n, u) ==
    /\ u \in Trees /\ u.page = pg /\ u.nextPage = t.nextPage /\ u.freePage = f
    /\ u.pagesFree = n /\ u.leafKeys = lk /\ u.data = t.data /\ u.file = t.file

\* A tree with other pages and another free list
LEMMA WithFree ==
    ASSUME NEW t \in Trees, NEW pg \in PageMaps, NEW lk \in Int, NEW f \in Nat, NEW n \in Int
    PROVE  FreeSet(t, pg, lk, f, n, [t EXCEPT !.leafKeys = lk, !.page = pg, !.freePage = f, !.pagesFree = n])
BY DEF Trees, PageMaps, Page, KVs, Pairs, FreeSet

\* Page c goes to the free list.
LEMMA FreeMore ==
    ASSUME NEW t, NEW T, NEW F, Store(t, T, F), NEW c \in T, NEW u, NEW pg \in PageMaps, NEW lk,
           FreeSet(t, pg, lk, c, t.pagesFree + 1, u),
           Len(pg[c].kv) >= 1, pg[c].kv[1].key = t.freePage,
           \A p \in Pids : pg[p].id = t.page[p].id, \A p \in Ran(F) : pg[p] = t.page[p]
    PROVE  Store(u, T \ {c}, <<c>> \o F)
<1>. DEFINE G == <<c>> \o F
<1>0. /\ t \in Trees /\ F \in Seq(Pids) /\ Len(F) \in Nat /\ \A i \in 1..Len(F) : F[i] \in Pids /\ F[i] \in Ran(F)
      /\ t.nextPage \in Nat /\ T \subseteq Pids /\ T \cap Ran(F) = {} /\ T \cup Ran(F) = 1..(t.nextPage - 1)
  BY StoreFacts
<1>1. /\ \A i, j \in 1..Len(F) : F[i] = F[j] => i = j
      /\ t.freePage = Nth(F, 1) /\ t.pagesFree = Len(F)
      /\ \A i \in 1..Len(F) : Len(t.page[F[i]].kv) >= 1 /\ t.page[F[i]].kv[1].key = Nth(F, i + 1)
  BY DEF Store, FreeIs
<1>2. /\ u \in Trees /\ u.page = pg /\ u.nextPage = t.nextPage /\ u.freePage = c
      /\ u.pagesFree = Len(F) + 1 /\ u.data = t.data /\ u.file = t.file
  BY <1>1 DEF FreeSet
<1>3. G \in Seq(Pids) /\ Len(G) = Len(F) + 1 /\ G[1] = c /\ \A i \in 2..(Len(F) + 1) : G[i] = F[i - 1]
  BY <1>0
<1>. HIDE DEF G
<1>4. ASSUME NEW i \in 1..Len(G)  PROVE i \in Nat /\ (i = 1 \/ (i \in 2..(Len(F) + 1) /\ i - 1 \in 1..Len(F)))
  BY <1>0, <1>3
<1>5. \A i \in 1..(Len(G)) : Nth(G, i + 1) = Nth(F, i)
  <2>. SUFFICES ASSUME NEW i \in 1..Len(G)  PROVE Nth(G, i + 1) = Nth(F, i)
    OBVIOUS
  <2>1. CASE i <= Len(F)
    <3>1. i + 1 \in 2..(Len(F) + 1) /\ i + 1 <= Len(G) /\ i + 1 - 1 = i
      BY <1>0, <1>3, <2>1
    <3>2. G[i + 1] = F[i]
      BY <1>3, <3>1
    <3>. QED  BY <2>1, <3>1, <3>2 DEF Nth
  <2>2. CASE ~(i <= Len(F))
    <3>1. ~(i + 1 <= Len(G))
      BY <1>0, <1>3, <2>2
    <3>. QED  BY <2>2, <3>1 DEF Nth
  <2>. QED  BY <2>1, <2>2
<1>6. FreeIs(u, G)
  <2>1. ASSUME NEW i \in 1..Len(G), NEW j \in 1..Len(G), G[i] = G[j]  PROVE i = j
    <3>1. CASE i = 1 /\ j = 1
      BY <3>1
    <3>2. CASE i = 1 /\ j # 1
      <4>1. j \in 2..(Len(F) + 1) /\ j - 1 \in 1..Len(F)
        BY <1>4, <3>2
      <4>2. F[j - 1] = c
        BY <1>3, <2>1, <3>2, <4>1
      <4>. QED  BY <1>0, <4>1, <4>2
    <3>3. CASE i # 1 /\ j = 1
      <4>1. i \in 2..(Len(F) + 1) /\ i - 1 \in 1..Len(F)
        BY <1>4, <3>3
      <4>2. F[i - 1] = c
        BY <1>3, <2>1, <3>3, <4>1
      <4>. QED  BY <1>0, <4>1, <4>2
    <3>4. CASE i # 1 /\ j # 1
      <4>1. i \in 2..(Len(F) + 1) /\ i - 1 \in 1..Len(F) /\ j \in 2..(Len(F) + 1) /\ j - 1 \in 1..Len(F) /\ i \in Nat /\ j \in Nat
        BY <1>4, <3>4
      <4>2. F[i - 1] = F[j - 1]
        BY <1>3, <2>1, <4>1
      <4>3. i - 1 = j - 1
        BY <1>1, <4>1, <4>2
      <4>. QED  BY <4>1, <4>3
    <3>. QED  BY <3>1, <3>2, <3>3, <3>4
  <2>2. ASSUME NEW i \in 1..Len(G)  PROVE Len(pg[G[i]].kv) >= 1 /\ pg[G[i]].kv[1].key = Nth(G, i + 1)
    <3>0. Nth(G, i + 1) = Nth(F, i)
      BY <1>5
    <3>1. CASE i = 1
      BY <1>1, <1>3, <3>0, <3>1
    <3>2. CASE i # 1
      <4>1. i \in Nat /\ i \in 2..(Len(F) + 1) /\ i - 1 \in 1..Len(F) /\ i - 1 + 1 = i
        BY <1>4, <3>2
      <4>2. G[i] = F[i - 1] /\ pg[F[i - 1]] = t.page[F[i - 1]]
        BY <1>0, <1>3, <4>1
      <4>3. Len(t.page[F[i - 1]].kv) >= 1 /\ t.page[F[i - 1]].kv[1].key = Nth(F, i - 1 + 1)
        BY <1>1, <4>1
      <4>. QED  BY <3>0, <4>1, <4>2, <4>3
    <3>. QED  BY <3>1, <3>2
  <2>3. Nth(G, 1) = c
    BY <1>0, <1>3 DEF Nth
  <2>. QED  BY <1>2, <1>3, <2>1, <2>2, <2>3 DEF FreeIs
<1>7. Ran(G) = Ran(F) \cup {c}
  <2>1. \A i \in 1..Len(G) : G[i] = c \/ \E j \in 1..Len(F) : G[i] = F[j]
    BY <1>3, <1>4
  <2>2. ASSUME NEW j \in 1..Len(F)  PROVE \E i \in 1..Len(G) : G[i] = F[j]
    <3>1. j + 1 \in 1..Len(G) /\ j + 1 \in 2..(Len(F) + 1) /\ j + 1 - 1 = j
      BY <1>0, <1>3
    <3>. QED  BY <1>3, <3>1
  <2>3. 1 \in 1..Len(G)
    BY <1>0, <1>3
  <2>. QED  BY <1>3, <2>1, <2>2, <2>3 DEF Ran
<1>8. Owned(u, T \ {c}, G)
  <2>1. \A p \in Pids : t.page[p].id = IF p < t.nextPage THEN p ELSE 0
    BY DEF Store, Owned
  <2>. QED  BY <1>0, <1>2, <1>7, <2>1 DEF Owned
<1>9. Sized(u)
  BY <1>2 DEF Store, Sized
<1>. QED  BY <1>2, <1>6, <1>8, <1>9 DEF Store, G

Dropped(t, T, F, c, q, i, u) ==
    /\ Drops(t.page, T, c, q, i, u.page) /\ Store(u, T \ {c}, <<c>> \o F) /\ u.leafKeys = t.leafKeys - 1

\* Drop puts the leaf at the head of the free list.
LEMMA DropStore ==
    ASSUME NEW t, NEW T, NEW lv, NEW lo, NEW M, NEW F, NEW c, NEW q, NEW i,
           LastPair(t.page, T, lv, lo, M, c, q, i), Store(t, T, F)
    PROVE  Dropped(t, T, F, c, q, i, Drop(t, q, i))
<1>. DEFINE rc == [t.page[c] EXCEPT !.kv[1].key = t.freePage]
            rq == [t.page[q] EXCEPT !.kv[i].val = 0]
            pg1 == [t.page EXCEPT ![c] = rc]
            pg == [pg1 EXCEPT ![q] = rq]
            lk == t.leafKeys - 1
            u == Drop(t, q, i)
<1>0. /\ c \in T /\ q \in T /\ Len(t.page[c].kv) = 1 /\ t.page[q].kv[i].val = c /\ i \in 1..Len(t.page[q].kv)
      /\ c \in Pids /\ c \in Nat /\ q \in Pids /\ c # q /\ t.page[c] \in Page /\ t.page[q] \in Page
  <2>1. /\ c \in T /\ q \in T /\ Len(t.page[c].kv) = 1 /\ t.page[q].kv[i].val = c /\ i \in 1..Len(t.page[q].kv)
    BY DEF LastPair
  <2>2. c \in Pids /\ c \in Nat /\ q \in Pids /\ c # q /\ t.page[c] \in Page /\ t.page[q] \in Page
    BY LastPairFacts
  <2>. QED  BY <2>1, <2>2
<1>1. t \in Trees /\ t.page \in PageMaps /\ t.freePage \in Nat /\ t.leafKeys \in Int /\ t.pagesFree \in Int
  BY StoreFacts, TreeFields
<1>2. PairSet(t.page[c], 1, [key |-> t.freePage, val |-> t.page[c].kv[1].val], rc)
  <2>1. 1 \in 1..Len(t.page[c].kv)
    BY <1>0
  <2>. HIDE DEF rc
  <2>. QED  BY <1>0, <1>1, <2>1, PageKey DEF rc
<1>3. PairSet(t.page[q], i, [key |-> t.page[q].kv[i].key, val |-> 0], rq)
  <2>. HIDE DEF rq
  <2>. QED  BY <1>0, PageVal DEF rq
<1>4. u = [t EXCEPT !.leafKeys = lk, !.page = pg, !.freePage = c, !.pagesFree = t.pagesFree + 1]
  <2>1. u = [t EXCEPT !.leafKeys = lk, !.page = [t.page EXCEPT ![c].kv[1].key = t.freePage, ![q].kv[i].val = 0],
                      !.freePage = c, !.pagesFree = t.pagesFree + 1]
    BY <1>0 DEF Drop
  <2>2. [t.page EXCEPT ![c].kv[1].key = t.freePage, ![q].kv[i].val = 0] = [[t.page EXCEPT ![c].kv[1].key = t.freePage] EXCEPT ![q].kv[i].val = 0]
    OBVIOUS
  <2>3. pg1[q] = t.page[q]
    BY <1>0, <1>1 DEF PageMaps
  <2>4. [t.page EXCEPT ![c].kv[1].key = t.freePage] = pg1 /\ [pg1 EXCEPT ![q].kv[i].val = 0] = pg
    BY <2>3
  <2>. QED  BY <2>1, <2>2, <2>4
<1>. HIDE DEF rc, rq
<1>5. /\ rc \in Page /\ rc.id = t.page[c].id /\ Len(rc.kv) = 1 /\ rc.kv[1].key = t.freePage
  BY <1>0, <1>2 DEF PairSet
<1>6. /\ rq \in Page /\ rq.id = t.page[q].id /\ rq.leaf = t.page[q].leaf /\ Len(rq.kv) = Len(t.page[q].kv)
      /\ rq.kv[i].val = 0 /\ rq.kv[i].key = t.page[q].kv[i].key
      /\ \A j \in 1..Len(t.page[q].kv) : j # i => rq.kv[j] = t.page[q].kv[j]
  BY <1>3 DEF PairSet
<1>7. pg \in PageMaps /\ pg[c] = rc /\ pg[q] = rq /\ \A p \in Pids : p # c /\ p # q => pg[p] = t.page[p]
  BY <1>0, <1>1, <1>5, <1>6 DEF PageMaps
<1>. HIDE DEF pg, u
<1>8. FreeSet(t, pg, lk, c, t.pagesFree + 1, u)
  <2>1. lk \in Int /\ t.pagesFree + 1 \in Int
    BY <1>1
  <2>. HIDE DEF lk
  <2>2. FreeSet(t, pg, lk, c, t.pagesFree + 1, [t EXCEPT !.leafKeys = lk, !.page = pg, !.freePage = c, !.pagesFree = t.pagesFree + 1])
    BY <1>0, <1>1, <1>7, <2>1, WithFree
  <2>. QED  BY <1>4, <2>2
<1>9. Store(u, T \ {c}, <<c>> \o F)
  <2>1. \A p \in Pids : pg[p].id = t.page[p].id
    BY <1>5, <1>6, <1>7
  <2>2. \A p \in Ran(F) : pg[p] = t.page[p]
    <3>1. \A p \in Ran(F) : p \in Pids /\ p \notin T
      BY StoreFacts
    <3>. QED  BY <1>0, <1>7, <3>1
  <2>3. Len(pg[c].kv) >= 1 /\ pg[c].kv[1].key = t.freePage
    BY <1>5, <1>7
  <2>. HIDE DEF lk
  <2>. QED  BY <1>0, <1>7, <1>8, <2>1, <2>2, <2>3, FreeMore
<1>10. u.page = pg /\ u.leafKeys = lk
  BY <1>8 DEF FreeSet
<1>11. Drops(t.page, T, c, q, i, pg)
  <2>1. T \subseteq Pids
    BY StoreFacts
  <2>. QED  BY <1>6, <1>7, <2>1 DEF Drops
<1>. QED  BY <1>9, <1>10, <1>11 DEF Dropped, u

\* A tree without missing children may be taken as one in which page z lacks some.
LEMMA ShapeZ ==
    ASSUME NEW pg, NEW T, NEW lv, NEW lo, NEW M, NEW z, NEW full, Shape(pg, T, lv, lo, M, 0, full)
    PROVE  Shape(pg, T, lv, lo, M, z, full)
<1>1. 0 \notin T
  BY TreeConstants DEF Shape, ShapeType, Pids
<1>2. ASSUME NEW p \in T  PROVE Node(pg, T, lv, lo, M, z, p)
  <2>1. Node(pg, T, lv, lo, M, 0, p) /\ p # 0
    BY <1>1 DEF Shape
  <2>2. \A i : Entry(pg, T, lv, lo, M, 0, p, i) => Entry(pg, T, lv, lo, M, z, p, i)
    BY <2>1 DEF Entry
  <2>. QED  BY <2>1, <2>2 DEF Node
<1>. QED  BY <1>2 DEF Shape

\* A page all of whose values are valid stays as it is.
LEMMA CompactSame ==
    ASSUME NEW n \in Page, NEW lim \in Nat, \A i \in 1..Len(n.kv) : n.kv[i].val >= lim
    PROVE  nodeCompact(n, lim) = n
<1>. DEFINE kv == n.kv
            m == maxKey(n)
            f == CHOOSE h : IsLeft(h, kv, lim, m)
            N == Len(kv)
            S == {i \in 0..N : f[i] \in KVs /\ Len(f[i]) = i /\ \A j \in 1..i : f[i][j] = kv[j]}
<1>0. kv \in KVs /\ N \in Nat /\ \A i \in 1..N : kv[i] \in Pairs /\ kv[i].val \in Nat
  BY KVType DEF Page
<1>1. nodeCompact(n, lim) = [n EXCEPT !.kv = f[N]]
  BY DEF nodeCompact, IsLeft
<1>2. IsLeft(f, kv, lim, m)
  <2>1. \E h : IsLeft(h, kv, lim, m)
    <3>. HIDE DEF m
    <3>. QED  BY <1>0, LeftExists
  <2>. QED  BY <2>1
<1>. HIDE DEF f, m
<1>3. \A i \in 0..N : f[i] = IF i = 0 THEN <<>> ELSE IF kv[i].val < lim /\ kv[i].key < m THEN f[i - 1]
                      ELSE Append(f[i - 1], kv[i])
  BY <1>2 DEF IsLeft
<1>4. 0 \in S
  <2>1. f[0] = <<>> /\ 0 \in 0..N
    BY <1>0, <1>3
  <2>2. <<>> \in KVs /\ Len(<<>>) = 0
    BY DEF KVs
  <2>3. \A j \in 1..0 : f[0][j] = kv[j]
    OBVIOUS
  <2>. QED  BY <2>1, <2>2, <2>3
<1>5. ASSUME NEW i \in 1..N, i - 1 \in S  PROVE i \in S
  <2>1. f[i - 1] \in KVs /\ Len(f[i - 1]) = i - 1 /\ \A j \in 1..(i - 1) : f[i - 1][j] = kv[j]
    BY <1>5
  <2>2. i \in 0..N /\ i # 0 /\ i \in Nat
    BY <1>0
  <2>3. kv[i] \in Pairs /\ ~(kv[i].val < lim)
    <3>1. kv[i].val \in Nat /\ kv[i].val >= lim /\ kv[i] \in Pairs
      BY <1>0
    <3>. QED  BY <3>1
  <2>4. f[i] = Append(f[i - 1], kv[i])
    BY <1>3, <2>2, <2>3
  <2>. DEFINE g == f[i - 1]
  <2>5. g \in Seq(Pairs) /\ Len(g) = i - 1 /\ \A j \in 1..(i - 1) : g[j] = kv[j]
    BY <2>1 DEF KVs
  <2>. HIDE DEF g
  <2>6. Append(g, kv[i]) \in Seq(Pairs) /\ Len(Append(g, kv[i])) = i /\ \A j \in 1..i : Append(g, kv[i])[j] = kv[j]
    <3>. HIDE DEF kv
    <3>. QED  BY <2>2, <2>3, <2>5
  <2>. QED  BY <2>2, <2>4, <2>6 DEF g, KVs
<1>6. N \in S
  <2>1. \A k \in 0..N : k \in S
    <3>. HIDE DEF S
    <3>. QED  BY <1>0, <1>4, <1>5, UpTo
  <2>2. N \in 0..N
    BY <1>0
  <2>. HIDE DEF S
  <2>. QED  BY <2>1, <2>2
<1>7. f[N] = kv
  <2>1. f[N] \in Seq(Pairs) /\ Len(f[N]) = Len(kv) /\ kv \in Seq(Pairs) /\ \A j \in 1..Len(f[N]) : f[N][j] = kv[j]
    BY <1>0, <1>6 DEF KVs
  <2>. HIDE DEF kv, N
  <2>. QED  BY <2>1, SeqEqual
<1>. QED  BY <1>1, <1>7 DEF Page

\* An earlier key is at most the key before a later one.
LEMMA AboveUp ==
    ASSUME NEW kv \in KVs, Up(kv), NEW a \in 1..Len(kv), NEW b \in 1..Len(kv), a < b, NEW l
    PROVE  kv[a].key <= Above(kv, l, b) /\ Above(kv, l, b) \in Nat
<1>1. Len(kv) \in Nat /\ \A i \in 1..Len(kv) : kv[i].key \in Nat
  BY KVType
<1>2. b # 1 /\ b - 1 \in 1..Len(kv) /\ (a = b - 1 \/ a < b - 1)
  BY <1>1
<1>3. Above(kv, l, b) = kv[b - 1].key
  BY <1>2 DEF Above
<1>4. a = b - 1 \/ kv[a].key < kv[b - 1].key
  BY <1>2 DEF Up
<1>. QED  BY <1>1, <1>2, <1>3, <1>4

\* The j-th child left of page p, and the keys that its range gains
Gains(pg, T, lv, lo, M, p, r, j) ==
    LET c == r[j].val
        l == Above(r, lo[p], j)
    IN  /\ c \in T /\ c # 0 /\ lv[c] = 0 /\ Top(pg[c].kv) = r[j].key
        /\ l \in Nat /\ lo[c] \in Nat /\ l <= lo[c] /\ \A k \in (l + 1)..lo[c] : M[k] = -1

\* The child that stays behind dropped ones takes over their range, in which no key is
\* left.
LEMMA ChildGains ==
    ASSUME NEW pg, NEW T, NEW lv, NEW lo, NEW M, NEW p, Shape(pg, T, lv, lo, M, p, 0), p \in T, lv[p] = 1,
           NEW r, NEW e, Kept(pg[p].kv, Stay(pg[p].kv, 1, Top(pg[p].kv)), r, e), NEW j \in 1..Len(r)
    PROVE  Gains(pg, T, lv, lo, M, p, r, j)
<1>. DEFINE kv == pg[p].kv
            N == Len(kv)
            R == Len(r)
            P == Stay(kv, 1, Top(kv))
            i == e[j]
            c == r[j].val
            l == Above(r, lo[p], j)
<1>0. ShapeType(pg, T, lv, lo, M) /\ \A q \in T : Node(pg, T, lv, lo, M, p, q)
  BY ShapeNode
<1>1. /\ pg[p] \in Page /\ kv \in KVs /\ lo[p] \in Nat /\ Ordered(kv, lo[p]) /\ Up(kv) /\ N \in Nat /\ N \in 1..N /\ Top(kv) \in Nat
      /\ \A a \in 1..N : /\ kv[a].key \in Nat /\ kv[a].val \in Nat /\ lo[p] < kv[a].key /\ kv[a].key <= Top(kv)
                         /\ Above(kv, lo[p], a) \in Nat /\ lo[p] <= Above(kv, lo[p], a)
  <2>1. Node(pg, T, lv, lo, M, p, p)
    BY <1>0
  <2>. QED  BY <1>0, <2>1, NodeFacts
<1>2. /\ r \in KVs /\ e \in [1..R -> P]
      /\ \A a, b \in 1..R : a < b => e[a] < e[b]
      /\ \A a \in 1..R : r[a] = kv[e[a]]
      /\ \A a \in P : \E b \in 1..R : e[b] = a
  BY DEF Kept
<1>3. R \in Nat /\ j \in Nat /\ P \subseteq 1..N /\ \A a \in 1..N : a \in P <=> ~(kv[a].val < 1 /\ kv[a].key < Top(kv))
  <2>1. R \in Nat
    BY <1>2, KVType
  <2>. QED  BY <2>1 DEF Stay
<1>. HIDE DEF P, kv, N, R
<1>4. \A a \in 1..R : e[a] \in P /\ e[a] \in 1..N /\ e[a] \in Nat
  <2>1. \A a \in 1..R : e[a] \in P
    BY <1>2
  <2>2. \A a \in 1..R : e[a] \in 1..N
    BY <1>3, <2>1
  <2>. QED  BY <1>1, <2>1, <2>2
<1>5. j \in 1..R
  BY DEF R
<1>6. i \in P /\ i \in 1..N /\ i \in Nat /\ r[j] = kv[i] /\ c = kv[i].val
  BY <1>2, <1>4, <1>5
<1>. HIDE DEF i
<1>7. 0 \notin T
  BY <1>0, TreeConstants DEF ShapeType, Pids
<1>8. \A a \in 1..N : Entry(pg, T, lv, lo, M, p, p, a)
  <2>1. lv[p] # 0
    OBVIOUS
  <2>. QED  BY <1>0, <2>1 DEF Node, kv, N
<1>9. \A a \in 1..N : /\ kv[a].val # 0 => /\ kv[a].val \in T /\ lv[kv[a].val] = lv[p] - 1
                                          /\ Top(pg[kv[a].val].kv) = kv[a].key /\ lo[kv[a].val] = Above(kv, lo[p], a)
                      /\ kv[a].val = 0 => a < N /\ \A k \in (Above(kv, lo[p], a) + 1)..kv[a].key : M[k] = -1
  <2>. SUFFICES ASSUME NEW a \in 1..N
                PROVE  /\ kv[a].val # 0 => /\ kv[a].val \in T /\ lv[kv[a].val] = lv[p] - 1
                                          /\ Top(pg[kv[a].val].kv) = kv[a].key /\ lo[kv[a].val] = Above(kv, lo[p], a)
                       /\ kv[a].val = 0 => a < N /\ \A k \in (Above(kv, lo[p], a) + 1)..kv[a].key : M[k] = -1
    OBVIOUS
  <2>1. Entry(pg, T, lv, lo, M, p, p, a)
    BY <1>8
  <2>. QED  BY <1>7, <2>1 DEF Entry, kv, N
<1>10. c # 0
  <2>. SUFFICES ASSUME c = 0  PROVE FALSE
    OBVIOUS
  <2>1. i < N /\ ~(kv[i].key < Top(kv))
    BY <1>3, <1>6, <1>9
  <2>2. kv[i].key < kv[N].key
    BY <1>1, <1>6, <2>1 DEF Up, N
  <2>3. Top(kv) = kv[N].key
    BY DEF Top, N
  <2>. QED  BY <2>1, <2>2, <2>3
<1>11. c \in T /\ lv[c] = 0 /\ Top(pg[c].kv) = r[j].key /\ lo[c] = Above(kv, lo[p], i) /\ lo[c] \in Nat
  BY <1>1, <1>6, <1>9, <1>10
<1>12. l \in Nat /\ l <= lo[c]
  <2>1. CASE j = 1
    <3>1. l = lo[p]
      BY <2>1 DEF Above
    <3>. QED  BY <1>1, <1>6, <1>11, <3>1
  <2>2. CASE j # 1
    <3>1. j - 1 \in 1..R /\ j - 1 < j
      BY <1>3, <1>5, <2>2
    <3>2. l = kv[e[j - 1]].key /\ e[j - 1] \in 1..N /\ e[j - 1] < i
      BY <1>2, <1>4, <1>5, <2>2, <3>1 DEF Above, i
    <3>3. kv[e[j - 1]].key <= Above(kv, lo[p], i)
      BY <1>1, <1>6, <3>2, AboveUp DEF N
    <3>. QED  BY <1>1, <1>11, <3>2, <3>3
  <2>. QED  BY <2>1, <2>2
<1>. HIDE DEF l
<1>13. ASSUME NEW k \in (l + 1)..lo[c]  PROVE M[k] = -1
  <2>. DEFINE s == search(pg[p], k)
  <2>1. k \in Nat /\ l < k /\ k <= lo[c]
    BY <1>11, <1>12
  <2>2. lo[p] <= l
    <3>1. CASE j = 1
      BY <1>1, <3>1 DEF Above, l
    <3>2. CASE j # 1
      <4>1. j - 1 \in 1..R
        BY <1>3, <1>5, <3>2
      <4>2. l = kv[e[j - 1]].key /\ e[j - 1] \in 1..N
        BY <1>2, <1>4, <3>2, <4>1 DEF Above, l
      <4>3. lo[p] < kv[e[j - 1]].key /\ lo[p] \in Nat /\ kv[e[j - 1]].key \in Nat
        BY <1>1, <4>2
      <4>. QED  BY ONLY <4>2, <4>3
    <3>. QED  BY <3>1, <3>2
  <2>3. lo[p] < k /\ k <= Top(kv)
    <3>1. Above(kv, lo[p], i) < kv[i].key /\ kv[i].key <= Top(kv)
      BY <1>1, <1>6, OrderedFacts DEF N
    <3>2. kv[i].key \in Nat
      BY <1>1, <1>6
    <3>. QED  BY <1>1, <1>11, <1>12, <2>1, <2>2, <3>1, <3>2
  <2>4. s \in 1..N /\ Above(kv, lo[p], s) < k /\ k <= kv[s].key
    BY <1>1, <2>1, <2>3, SearchIn DEF kv, N
  <2>. HIDE DEF s
  <2>5. s \in Nat /\ s < i
    <3>1. s \in Nat
      BY <1>1, <2>4
    <3>2. s # i
      BY <1>11, <2>1, <2>4
    <3>3. ~(i < s)
      <4>. SUFFICES ASSUME i < s  PROVE FALSE
        OBVIOUS
      <4>1. kv[i].key <= Above(kv, lo[p], s) /\ Above(kv, lo[p], s) \in Nat
        BY <1>1, <1>6, <2>4, AboveUp DEF N
      <4>2. Above(kv, lo[p], i) < kv[i].key /\ kv[i].key \in Nat
        BY <1>1, <1>6, OrderedFacts DEF N
      <4>. QED  BY <1>11, <2>1, <2>4, <4>1, <4>2
    <3>. QED  BY <1>6, <3>1, <3>2, <3>3
  <2>6. s \notin P
    <3>. SUFFICES ASSUME s \in P  PROVE FALSE
      OBVIOUS
    <3>1. PICK a \in 1..R : e[a] = s
      BY <1>2
    <3>2. a \in Nat /\ a < j
      <4>1. ~(j < a)
        <5>. SUFFICES ASSUME j < a  PROVE FALSE
          OBVIOUS
        <5>1. e[j] < e[a]
          BY <1>2, <1>5, <3>1
        <5>. QED  BY <1>6, <2>5, <3>1, <5>1 DEF i
      <4>2. a # j
        BY <1>6, <2>5, <3>1 DEF i
      <4>. QED  BY <1>3, <1>5, <3>1, <4>1, <4>2
    <3>3. j # 1 /\ j - 1 \in 1..R /\ (a = j - 1 \/ a < j - 1)
      BY <1>3, <1>5, <3>1, <3>2
    <3>4. l = kv[e[j - 1]].key /\ e[j - 1] \in 1..N
      BY <1>2, <1>4, <3>3 DEF Above, l
    <3>5. s = e[j - 1] \/ s < e[j - 1]
      BY <1>2, <3>1, <3>3
    <3>6. s = e[j - 1] \/ kv[s].key < kv[e[j - 1]].key
      BY <1>1, <2>4, <3>4, <3>5 DEF Up, N
    <3>7. kv[s].key <= l /\ kv[s].key \in Nat
      BY <1>1, <1>12, <2>4, <3>4, <3>6
    <3>. QED  BY <1>12, <2>1, <2>4, <3>7
  <2>7. kv[s].val = 0
    <3>1. kv[s].val < 1 /\ kv[s].val \in Nat
      BY <1>1, <1>3, <2>4, <2>6
    <3>. QED  BY <3>1
  <2>8. k \in (Above(kv, lo[p], s) + 1)..kv[s].key
    <3>1. Above(kv, lo[p], s) \in Nat /\ kv[s].key \in Nat
      BY <1>1, <2>4
    <3>. QED  BY <2>1, <2>4, <3>1
  <2>. QED  BY <1>9, <2>4, <2>7, <2>8
<1>. QED  BY <1>10, <1>11, <1>12, <1>13 DEF Gains, l

\* Where the ranges of the children begin once page p has pairs r
NewLows(T, lo, r, l) ==
    [c \in T |-> IF \E j \in 1..Len(r) : r[j].val = c
                 THEN Above(r, l, CHOOSE j \in 1..Len(r) : r[j].val = c) ELSE lo[c]]

\* Compacting the parent removes the pairs of dropped children, and the shape is whole
\* again.
LEMMA PageCompacts ==
    ASSUME NEW pg, NEW T, NEW lv, NEW lo, NEW M, NEW p, Shape(pg, T, lv, lo, M, p, 0), p \in T, lv[p] = 1,
           NEW pg2 \in PageMaps, pg2[p] = nodeCompact(pg[p], 1), \A q \in T : q # p => pg2[q] = pg[q]
    PROVE  \E lo2 : Shape(pg2, T, lv, lo2, M, 0, 0) /\ \A q \in T : lv[q] # 0 => lo2[q] = lo[q]
<1>. DEFINE kv == pg[p].kv
            N == Len(kv)
            r == pg2[p].kv
            R == Len(r)
            P == Stay(kv, 1, Top(kv))
            lo2 == NewLows(T, lo, r, lo[p])
<1>0. ShapeType(pg, T, lv, lo, M) /\ \A q \in T : Node(pg, T, lv, lo, M, p, q)
  BY ShapeNode
<1>1. /\ pg[p] \in Page /\ kv \in KVs /\ lo[p] \in Nat /\ Ordered(kv, lo[p]) /\ N \in Nat /\ p \in Pids
  <2>1. Node(pg, T, lv, lo, M, p, p)
    BY <1>0
  <2>. QED  BY <1>0, <2>1, NodeFacts
<1>2. /\ pg2[p] \in Page /\ pg2[p].leaf = pg[p].leaf /\ Ordered(r, lo[p]) /\ Top(r) = Top(kv) /\ R <= N
      /\ \E e : Kept(kv, P, r, e)
  <2>. DEFINE n2 == pg2[p]
  <2>1. 1 \in Nat /\ n2 = nodeCompact(pg[p], 1)
    OBVIOUS
  <2>. HIDE DEF n2
  <2>2. /\ n2 \in Page /\ n2.leaf = pg[p].leaf /\ Ordered(n2.kv, lo[p]) /\ Top(n2.kv) = Top(kv) /\ Len(n2.kv) <= N
        /\ \E e : Kept(kv, P, n2.kv, e)
    BY <1>1, <2>1, CompactOrdered
  <2>. QED  BY <2>2 DEF n2
<1>3. PICK e : Kept(kv, P, r, e)
  BY <1>2
<1>4. \A j \in 1..R : Gains(pg, T, lv, lo, M, p, r, j)
  BY <1>3, ChildGains
<1>5. \A j \in 1..R : /\ r[j].val \in T /\ r[j].val # 0 /\ lv[r[j].val] = 0 /\ Top(pg[r[j].val].kv) = r[j].key
                      /\ Above(r, lo[p], j) \in Nat /\ lo[r[j].val] \in Nat /\ Above(r, lo[p], j) <= lo[r[j].val]
                      /\ \A k \in (Above(r, lo[p], j) + 1)..lo[r[j].val] : M[k] = -1
  BY <1>4 DEF Gains
<1>6. /\ r \in KVs /\ e \in [1..R -> P]
      /\ \A a, b \in 1..R : a < b => e[a] < e[b]
      /\ \A a \in 1..R : r[a] = kv[e[a]]
      /\ \A a \in P : \E b \in 1..R : e[b] = a
  BY <1>3 DEF Kept
<1>7. P \subseteq 1..N /\ \A a \in 1..N : a \in P <=> ~(kv[a].val < 1 /\ kv[a].key < Top(kv))
  BY DEF Stay
<1>8. R \in Nat /\ lv[p] # 0 /\ T \subseteq Pids /\ lv \in [T -> Nat] /\ lo \in [T -> Nat] /\ M \in Tables /\ 0 \notin T
  BY <1>0, <1>6, KVType, TreeConstants DEF ShapeType, Pids
<1>. HIDE DEF P
<1>9. ASSUME NEW q \in T, lv[q] # 0, NEW a \in 1..Len(pg[q].kv), NEW j \in 1..R, r[j].val = pg[q].kv[a].val
      PROVE  q = p /\ a = e[j]
  <2>1. e[j] \in 1..N /\ r[j] = kv[e[j]] /\ r[j].val # 0
    BY <1>5, <1>6, <1>7
  <2>2. /\ q \in T /\ lv[q] # 0 /\ a \in 1..Len(pg[q].kv) /\ p \in T /\ lv[p] # 0 /\ e[j] \in 1..Len(pg[p].kv)
        /\ pg[q].kv[a].val = pg[p].kv[e[j]].val /\ pg[q].kv[a].val # 0
    BY <1>8, <1>9, <2>1
  <2>. HIDE DEF kv, r, R, N, lo2
  <2>. QED  BY <2>2, OnePlace
<1>10. ASSUME NEW j \in 1..R  PROVE lo2[r[j].val] = Above(r, lo[p], j)
  <2>. DEFINE c == r[j].val
              J == CHOOSE b \in 1..Len(r) : r[b].val = c
  <2>1. J \in 1..R /\ r[J].val = c
    OBVIOUS
  <2>. HIDE DEF J
  <2>2. lo2[c] = Above(r, lo[p], J)
    BY <1>5 DEF NewLows, J
  <2>3. e[j] = e[J]
    <3>1. e[J] \in 1..N /\ r[J] = kv[e[J]]
      BY <1>6, <1>7, <2>1
    <3>2. p \in T /\ e[J] \in 1..Len(pg[p].kv) /\ r[j].val = pg[p].kv[e[J]].val
      BY <2>1, <3>1
    <3>. HIDE DEF kv, r, R, N, lo2, c
    <3>. QED  BY <1>8, <1>9, <3>2
  <2>4. e[j] \in Int /\ j \in Int /\ J \in Int
    <3>1. e[j] \in P
      BY <1>6
    <3>2. e[j] \in 1..N
      BY <1>7, <3>1
    <3>. QED  BY <1>1, <1>8, <2>1, <3>2
  <2>5. ~(j < J) /\ ~(J < j)
    BY <1>6, <2>1, <2>3, <2>4
  <2>6. j = J
    BY <2>4, <2>5
  <2>. QED  BY <2>2, <2>6
<1>11. ASSUME NEW c \in T, \A j \in 1..R : r[j].val # c  PROVE lo2[c] = lo[c]
  BY <1>11 DEF NewLows
<1>12. lo2 = [c \in T |-> lo2[c]]
  BY DEF NewLows
<1>. HIDE DEF lo2
<1>13. ASSUME NEW c \in T
       PROVE  /\ lo2[c] \in Nat /\ lo[c] \in Nat /\ lo2[c] <= lo[c] /\ (\A k \in (lo2[c] + 1)..lo[c] : M[k] = -1)
              /\ lv[c] # 0 => lo2[c] = lo[c]
  <2>1. CASE \A j \in 1..R : r[j].val # c
    <3>1. lo2[c] = lo[c] /\ lo[c] \in Nat
      BY <1>8, <1>11, <2>1
    <3>2. (lo[c] + 1)..lo[c] = {}
      BY <3>1
    <3>. QED  BY <3>1, <3>2
  <2>2. CASE \E j \in 1..R : r[j].val = c
    <3>1. PICK j \in 1..R : r[j].val = c
      BY <2>2
    <3>. HIDE DEF r, R
    <3>. QED  BY <1>5, <1>10, <3>1
  <2>. QED  BY <2>1, <2>2
<1>14. lo2 \in [T -> Nat]
  BY <1>12, <1>13
<1>15. \A q \in T : Top(pg2[q].kv) = Top(pg[q].kv) /\ pg2[q].leaf = pg[q].leaf /\ Len(pg2[q].kv) <= Len(pg[q].kv)
  <2>. SUFFICES ASSUME NEW q \in T  PROVE Top(pg2[q].kv) = Top(pg[q].kv) /\ pg2[q].leaf = pg[q].leaf /\ Len(pg2[q].kv) <= Len(pg[q].kv)
    OBVIOUS
  <2>1. CASE q = p
    BY <1>2, <2>1
  <2>2. CASE q # p
    <3>1. Node(pg, T, lv, lo, M, p, q)
      BY <1>0
    <3>2. Len(pg[q].kv) \in Nat
      BY <1>0, <3>1, NodeFacts
    <3>. QED  BY <2>2, <3>2
  <2>. QED  BY <2>1, <2>2
<1>16. ASSUME NEW q \in T  PROVE Node(pg2, T, lv, lo2, M, 0, q)
  <2>0. Node(pg, T, lv, lo, M, p, q)
    BY <1>0
  <2>1. CASE q = p
    <3>1. lo2[p] = lo[p]
      BY <1>8, <1>13
    <3>2. pg2[p].leaf <=> lv[p] = 0
      BY <1>2, <2>0, <2>1 DEF Node
    <3>3. ASSUME NEW j \in 1..R  PROVE Entry(pg2, T, lv, lo2, M, 0, p, j)
      <4>. DEFINE c == r[j].val
      <4>1. c \in T /\ lv[c] = 0 /\ Top(pg[c].kv) = r[j].key
        BY <1>5
      <4>2. lo2[c] = Above(r, lo2[p], j)
        BY <1>10, <3>1
      <4>3. Top(pg2[c].kv) = r[j].key /\ lv[c] = lv[p] - 1
        BY <1>15, <4>1
      <4>. QED  BY <4>1, <4>2, <4>3 DEF Entry
    <3>. QED  BY <1>2, <1>8, <2>1, <3>1, <3>2, <3>3 DEF Node
  <2>2. CASE q # p /\ lv[q] # 0
    <3>1. pg2[q] = pg[q] /\ lo2[q] = lo[q]
      BY <1>13, <2>2
    <3>2. Ordered(pg[q].kv, lo[q]) /\ (pg[q].leaf <=> lv[q] = 0)
      BY <2>0 DEF Node
    <3>3. ASSUME NEW a \in 1..Len(pg[q].kv)  PROVE Entry(pg2, T, lv, lo2, M, 0, q, a)
      <4>. DEFINE c == pg[q].kv[a].val
      <4>1. Entry(pg, T, lv, lo, M, p, q, a)
        BY <2>0, <2>2 DEF Node
      <4>2. c \in T /\ lv[c] = lv[q] - 1 /\ Top(pg[c].kv) = pg[q].kv[a].key /\ lo[c] = Above(pg[q].kv, lo[q], a)
        BY <2>2, <4>1 DEF Entry
      <4>3. \A j \in 1..R : r[j].val # c
        BY <1>9, <2>2
      <4>4. lo2[c] = lo[c]
        BY <1>11, <4>2, <4>3
      <4>5. Top(pg2[c].kv) = Top(pg[c].kv)
        BY <1>15, <4>2
      <4>. QED  BY <3>1, <4>2, <4>4, <4>5 DEF Entry
    <3>. QED  BY <2>2, <3>1, <3>2, <3>3 DEF Node
  <2>3. CASE q # p /\ lv[q] = 0
    <3>0. pg2[q] = pg[q] /\ (pg[q].leaf <=> lv[q] = 0) /\ Ordered(pg[q].kv, lo[q]) /\ Contents(pg[q].kv, lo[q], M)
      BY <2>0, <2>3 DEF Node
    <3>1. lo2[q] \in Nat /\ lo[q] \in Nat /\ lo2[q] <= lo[q] /\ (\A k \in (lo2[q] + 1)..lo[q] : M[k] = -1)
      BY <1>13
    <3>2. Top(pg[q].kv) \in Nat /\ 1 \in 1..Len(pg[q].kv) /\ pg[q].kv[1].key \in Nat
      <4>1. /\ Top(pg[q].kv) \in Nat /\ 1 \in 1..Len(pg[q].kv) /\ \A a \in 1..Len(pg[q].kv) : pg[q].kv[a].key \in Nat
        BY <1>0, <2>0, NodeFacts
      <4>. QED  BY <4>1
    <3>3. Ordered(pg[q].kv, lo2[q])
      BY <3>0, <3>1, <3>2 DEF Ordered
    <3>4. \A k \in (lo2[q] + 1)..Top(pg[q].kv) : k \in (lo2[q] + 1)..lo[q] \/ k \in (lo[q] + 1)..Top(pg[q].kv)
      BY <3>1, <3>2
    <3>5. Contents(pg[q].kv, lo2[q], M)
      BY <3>0, <3>1, <3>4 DEF Contents
    <3>. QED  BY <2>3, <3>0, <3>3, <3>5 DEF Node
  <2>. QED  BY <2>1, <2>2, <2>3
<1>17. Apart(pg2, T, lv, lo2)
  <2>. SUFFICES ASSUME NEW a \in T, NEW b \in T, a # b, lv[a] = lv[b]
                PROVE  Top(pg[a].kv) <= lo2[b] \/ Top(pg[b].kv) <= lo2[a]
    BY <1>15 DEF Apart
  <2>1. Top(pg[a].kv) <= lo[b] \/ Top(pg[b].kv) <= lo[a]
    BY DEF Shape, Apart
  <2>2. CASE lv[a] # 0
    BY <1>13, <2>1, <2>2
  <2>3. ASSUME NEW x \in T, NEW y \in T, lv[x] = 0, Top(pg[x].kv) <= lo[y]  PROVE Top(pg[x].kv) <= lo2[y]
    <3>. DEFINE k == Top(pg[x].kv)
    <3>1. Node(pg, T, lv, lo, M, p, x)
      BY <1>0
    <3>2. k \in Nat /\ Len(pg[x].kv) \in 1..Len(pg[x].kv) /\ \A i \in 1..Len(pg[x].kv) : pg[x].kv[i].val \in Nat
      BY <1>0, <3>1, NodeFacts
    <3>3. M[k] \in Nat
      BY <2>3, <3>1, <3>2 DEF Node, Contents, Top
    <3>4. M[k] # -1
      BY <3>3
    <3>5. k \notin (lo2[y] + 1)..lo[y]
      BY <1>13, <3>4
    <3>6. lo2[y] \in Nat /\ lo[y] \in Nat
      BY <1>13
    <3>. HIDE DEF k
    <3>7. k <= lo[y]
      BY <2>3 DEF k
    <3>8. k <= lo2[y]
      BY <3>2, <3>5, <3>6, <3>7
    <3>. QED  BY <3>8 DEF k
  <2>4. CASE lv[a] = 0
    BY <2>1, <2>3, <2>4
  <2>. QED  BY <2>2, <2>4
<1>18. ASSUME NEW c \in T, c # 1  PROVE HasParent(pg2, T, lv, c)
  <2>1. PICK s \in T : lv[s] # 0 /\ \E a \in 1..Len(pg[s].kv) : pg[s].kv[a].val = c
    BY <1>18 DEF Shape, HasParent
  <2>2. CASE s = p
    <3>1. PICK a \in 1..N : kv[a].val = c
      BY <2>1, <2>2
    <3>2. c \in Nat /\ ~(c < 1)
      BY <1>8, TreeConstants DEF Pids
    <3>3. a \in P
      BY <1>7, <3>1, <3>2
    <3>4. PICK b \in 1..R : e[b] = a
      BY <1>6, <3>3
    <3>5. r[b].val = c
      BY <1>6, <3>1, <3>4
    <3>. QED  BY <1>8, <2>2, <3>4, <3>5 DEF HasParent
  <2>3. CASE s # p
    BY <2>1, <2>3 DEF HasParent
  <2>. QED  BY <2>2, <2>3
<1>19. Rooted(pg2, T, lv, lo2)
  <2>1. 1 \in T /\ lo[1] = 0 /\ Top(pg[1].kv) = absoluteMax /\ lv[1] # 0 /\ \A q \in T : lv[q] <= lv[1]
    BY DEF Shape, Rooted
  <2>. QED  BY <1>13, <1>15, <2>1 DEF Rooted
<1>20. Sizes(pg2, T, 0)
  <2>1. ASSUME NEW q \in T  PROVE Len(pg2[q].kv) < maxKeys
    <3>1. Len(pg[q].kv) < maxKeys
      BY <1>8 DEF Shape, Sizes
    <3>2. Len(pg2[q].kv) \in Nat /\ Len(pg[q].kv) \in Nat /\ maxKeys \in Nat
      <4>1. q \in Pids /\ pg \in PageMaps
        BY <1>0, <1>8 DEF ShapeType
      <4>2. pg[q].kv \in KVs /\ pg2[q].kv \in KVs
        BY <4>1 DEF PageMaps, Page
      <4>. QED  BY <4>2, KVType, TreeConstants
    <3>. QED  BY <1>15, <3>1, <3>2
  <2>. QED  BY <2>1 DEF Sizes
<1>21. ShapeType(pg2, T, lv, lo2, M)
  BY <1>8, <1>14 DEF ShapeType
<1>22. Shape(pg2, T, lv, lo2, M, 0, 0)
  BY <1>16, <1>17, <1>18, <1>19, <1>20, <1>21 DEF Shape
<1>. QED  BY <1>13, <1>22

\* The greatest key of the first i pairs
Bound(kv, l, i) == IF i = 0 THEN l ELSE kv[i].key

\* The bounds between the children of a page
LEMMA BoundFacts ==
    ASSUME NEW kv \in KVs, NEW l \in Nat, Ordered(kv, l)
    PROVE  /\ Bound(kv, l, 0) = l /\ Bound(kv, l, Len(kv)) = Top(kv)
           /\ \A i \in 0..Len(kv) : Bound(kv, l, i) \in Nat /\ l <= Bound(kv, l, i) /\ Bound(kv, l, i) <= absoluteMax
           /\ \A i \in 1..Len(kv) : /\ Bound(kv, l, i - 1) = Above(kv, l, i) /\ Bound(kv, l, i) = kv[i].key
                                    /\ Bound(kv, l, i - 1) < Bound(kv, l, i)
<1>1. /\ Len(kv) \in Nat /\ Len(kv) >= 1 /\ Top(kv) \in Nat /\ Top(kv) <= absoluteMax /\ l < Top(kv)
      /\ \A i \in 1..Len(kv) : /\ kv[i].key \in Nat /\ l < kv[i].key /\ kv[i].key <= Top(kv)
                               /\ Above(kv, l, i) < kv[i].key
  BY OrderedFacts
<1>2. absoluteMax \in Nat
  BY TreeConstants
<1>3. ASSUME NEW i \in 1..Len(kv)
      PROVE  /\ Bound(kv, l, i - 1) = Above(kv, l, i) /\ Bound(kv, l, i) = kv[i].key
             /\ Bound(kv, l, i - 1) < Bound(kv, l, i)
  <2>1. i # 0 /\ (i - 1 = 0 <=> i = 1)
    BY <1>1
  <2>2. Bound(kv, l, i - 1) = Above(kv, l, i) /\ Bound(kv, l, i) = kv[i].key
    BY <2>1 DEF Bound, Above
  <2>. QED  BY <1>1, <2>2
<1>4. ASSUME NEW i \in 0..Len(kv)  PROVE Bound(kv, l, i) \in Nat /\ l <= Bound(kv, l, i) /\ Bound(kv, l, i) <= absoluteMax
  <2>1. CASE i = 0
    BY <1>1, <1>2, <2>1 DEF Bound
  <2>2. CASE i # 0
    <3>1. i \in 1..Len(kv)
      BY <1>1, <2>2
    <3>2. Bound(kv, l, i) = kv[i].key /\ kv[i].key \in Nat /\ l < kv[i].key /\ kv[i].key <= Top(kv)
      BY <1>1, <1>3, <3>1
    <3>. QED  BY <1>1, <1>2, <3>2
  <2>. QED  BY <2>1, <2>2
<1>5. Bound(kv, l, 0) = l /\ Bound(kv, l, Len(kv)) = Top(kv)
  BY <1>1 DEF Bound, Top
<1>. QED  BY <1>3, <1>4, <1>5

\* DeleteBelow on two adjoining ranges, one after the other
LEMMA LowersTwice ==
    ASSUME NEW M, NEW M2, NEW M3, NEW ts, NEW l \in Nat, NEW a \in Nat, NEW b \in Nat, l <= a, a <= b,
           Lowers(M, M2, ts, l, a), Lowers(M2, M3, ts, a, b)
    PROVE  /\ Lowers(M, M3, ts, l, b)
           /\ b <= absoluteMax => Cnt(M3, l, b) = Cnt(M2, l, a) + Cnt(M3, a, b)
<1>1. M3 \in Tables
  BY DEF Lowers
<1>2. \A k \in 1..absoluteMax : M2[k] = M[k] \/ (l < k /\ k <= a /\ M2[k] = -1 /\ M[k] < ts)
  BY DEF Lowers
<1>3. \A k \in 1..absoluteMax : M3[k] = M2[k] \/ (a < k /\ k <= b /\ M3[k] = -1 /\ M2[k] < ts)
  BY DEF Lowers
<1>4. absoluteMax \in Nat
  BY TreeConstants
<1>5. ASSUME NEW k \in 1..absoluteMax  PROVE M3[k] = M[k] \/ (l < k /\ k <= b /\ M3[k] = -1 /\ M[k] < ts)
  <2>1. k \in Nat
    BY <1>4
  <2>2. M2[k] = M[k] \/ (l < k /\ k <= a /\ M2[k] = -1 /\ M[k] < ts)
    BY <1>2
  <2>3. M3[k] = M2[k] \/ (a < k /\ k <= b /\ M3[k] = -1 /\ M2[k] < ts)
    BY <1>3
  <2>. QED  BY <2>1, <2>2, <2>3
<1>6. ASSUME b <= absoluteMax  PROVE Cnt(M3, l, b) = Cnt(M2, l, a) + Cnt(M3, a, b)
  <2>1. \A k \in (l + 1)..a : k \in 1..absoluteMax /\ ~(a < k)
    BY <1>4, <1>6
  <2>2. \A k \in (l + 1)..a : M3[k] # -1 <=> M2[k] # -1
    BY <1>3, <2>1
  <2>3. Cnt(M3, l, a) = Cnt(M2, l, a)
    BY <2>2, CntSame
  <2>4. Cnt(M3, l, b) = Cnt(M3, l, a) + Cnt(M3, a, b)
    BY CntSplit
  <2>. QED  BY <2>3, <2>4
<1>. QED  BY <1>1, <1>5, <1>6 DEF Lowers

\* The fences that are left on two adjoining ranges
LEMMA FencesTwice ==
    ASSUME NEW M2, NEW M3, NEW ts, NEW l \in Nat, NEW a \in Nat, NEW b \in Nat, l <= a, a <= b,
           NEW E, NEW E2, NEW E3, FencesLower(M2, ts, E, E2, l, a), Lowers(M2, M3, ts, a, b),
           FencesLower(M3, ts, E2, E3, a, b)
    PROVE  FencesLower(M3, ts, E, E3, l, b)
<1>1. /\ E2 \subseteq E
      /\ \A k \in 1..absoluteMax : l < k /\ k <= a /\ M2[k] # -1 /\ M2[k] < ts => k \in E2
      /\ \A f \in 1..absoluteMax : f \in E /\ ~(l < f /\ f <= a) => f \in E2
  BY DEF FencesLower
<1>2. /\ E3 \subseteq E2
      /\ \A k \in 1..absoluteMax : a < k /\ k <= b /\ M3[k] # -1 /\ M3[k] < ts => k \in E3
      /\ \A f \in 1..absoluteMax : f \in E2 /\ ~(a < f /\ f <= b) => f \in E3
  BY DEF FencesLower
<1>3. \A k \in 1..absoluteMax : k \in Nat
  BY TreeConstants
<1>4. ASSUME NEW k \in 1..absoluteMax, l < k, k <= b, M3[k] # -1, M3[k] < ts  PROVE k \in E3
  <2>1. CASE a < k
    BY <1>2, <1>4, <2>1
  <2>2. CASE ~(a < k)
    <3>1. M3[k] = M2[k]
      BY <2>2 DEF Lowers
    <3>2. k <= a
      BY <1>3, <2>2
    <3>. QED  BY <1>1, <1>2, <1>4, <2>2, <3>1, <3>2
  <2>. QED  BY <2>1, <2>2
<1>5. ASSUME NEW f \in 1..absoluteMax, f \in E, ~(l < f /\ f <= b)  PROVE f \in E3
  <2>1. ~(l < f /\ f <= a) /\ ~(a < f /\ f <= b)
    BY <1>3, <1>5
  <2>. QED  BY <1>1, <1>2, <1>5, <2>1
<1>. QED  BY <1>1, <1>2, <1>4, <1>5 DEF FencesLower

\* The first i children of page p are done.
Loops(u, T, lv, lo, M, ts, p, i, a, T2, lv2, lo2, M2, F2) ==
    LET kv == u.page[p].kv
        b == Bound(kv, lo[p], i)
    IN  /\ Shape(a.page, T2, lv2, lo2, M2, IF lv[p] = 1 THEN p ELSE 0, 0) /\ Store(a, T2, F2)
        /\ T2 \subseteq T /\ \A q \in T2 : lv2[q] = lv[q]
        /\ \A q \in T : lv[q] >= lv[p] => q \in T2 /\ lo2[q] = lo[q] /\ (q # p => a.page[q] = u.page[q])
        /\ Len(a.page[p].kv) = Len(kv)
        /\ \A j \in 1..Len(kv) : a.page[p].kv[j].key = kv[j].key /\ (j > i \/ j = Len(kv) => a.page[p].kv[j] = kv[j])
        /\ Lowers(M, M2, ts, lo[p], b) /\ a.leafKeys = u.leafKeys + Cnt(M2, lo[p], b)
        /\ FencesLower(M2, ts, Fen(u.page, T, lv), Fen(a.page, T2, lv2), lo[p], b)

LoopsTo(u, T, lv, lo, M, ts, p, i, a) ==
    \E T2, lv2, lo2, M2, F2 : Loops(u, T, lv, lo, M, ts, p, i, a, T2, lv2, lo2, M2, F2)

\* Before the loop of compact nothing has changed.
LEMMA LoopStart ==
    ASSUME NEW u, NEW T, NEW lv, NEW lo, NEW M, NEW F, Shape(u.page, T, lv, lo, M, 0, 0), Store(u, T, F),
           NEW p \in T, NEW ts \in Nat
    PROVE  LoopsTo(u, T, lv, lo, M, ts, p, 0, u)
<1>. DEFINE kv == u.page[p].kv
            z == IF lv[p] = 1 THEN p ELSE 0
<1>1. ShapeType(u.page, T, lv, lo, M) /\ Node(u.page, T, lv, lo, M, 0, p)
  BY ShapeNode
<1>2. lo[p] \in Nat /\ M \in Tables /\ u.leafKeys \in Int
  BY <1>1, StoreFacts, TreeFields DEF ShapeType
<1>3. Shape(u.page, T, lv, lo, M, z, 0)
  BY ShapeZ
<1>4. Bound(kv, lo[p], 0) = lo[p]
  BY DEF Bound
<1>5. Lowers(M, M, ts, lo[p], lo[p])
  BY <1>2 DEF Lowers
<1>6. u.leafKeys = u.leafKeys + Cnt(M, lo[p], lo[p])
  BY <1>2, CntNone
<1>8. FencesLower(M, ts, Fen(u.page, T, lv), Fen(u.page, T, lv), lo[p], lo[p])
  <2>1. \A k \in 1..absoluteMax : ~(lo[p] < k /\ k <= lo[p])
    BY <1>2, TreeConstants
  <2>. QED  BY <2>1 DEF FencesLower
<1>7. Loops(u, T, lv, lo, M, ts, p, 0, u, T, lv, lo, M, F)
  BY <1>3, <1>4, <1>5, <1>6, <1>8 DEF Loops
<1>. QED  BY <1>7 DEF LoopsTo

CompactReady(u, T, lv, lo, M, z, F, p, n) ==
    Shape(u.page, T, lv, lo, M, z, 0) /\ Store(u, T, F) /\ p \in T /\ lv[p] <= n /\ (lv[p] = 0 \/ z = 0)

\* An operator can compact pages up to n levels above the leaves.
Can(below, n, ts) ==
    \A u, T, lv, lo, M, z, F, p :
        CompactReady(u, T, lv, lo, M, z, F, p, n) => CompactsBelow(u, T, lv, lo, M, z, ts, p, below[p][u])

\* The loop of compact goes on to the next child.
LEMMA LoopStep ==
    ASSUME NEW u, NEW T, NEW lv, NEW lo, NEW M, NEW F, Shape(u.page, T, lv, lo, M, 0, 0), Store(u, T, F),
           NEW p \in T, lv[p] # 0, NEW ts \in Nat, NEW i \in 1..Len(u.page[p].kv), NEW a,
           LoopsTo(u, T, lv, lo, M, ts, p, i - 1, a), NEW below, Can(below, lv[p] - 1, ts)
    PROVE  LoopsTo(u, T, lv, lo, M, ts, p, i, DropIfEmpty(below[a.page[p].kv[i].val][a], p, i))
<1>. DEFINE kv == u.page[p].kv
            N == Len(kv)
            l == lo[p]
            z == IF lv[p] = 1 THEN p ELSE 0
            c == a.page[p].kv[i].val
            x == below[c][a]
            w == x.tree
            b0 == Bound(kv, l, i - 1)
            b == Bound(kv, l, i)
<1>0. ShapeType(u.page, T, lv, lo, M) /\ Node(u.page, T, lv, lo, M, 0, p)
  BY ShapeNode
<1>1. /\ p \in Pids /\ kv \in KVs /\ l \in Nat /\ Ordered(kv, l) /\ N \in Nat /\ lv[p] \in Nat /\ lv[p] >= 1
      /\ T \subseteq Pids /\ 0 \notin T /\ lv \in [T -> Nat] /\ i \in Nat
  <2>1. /\ p \in Pids /\ kv \in KVs /\ l \in Nat /\ Ordered(kv, l) /\ N \in Nat /\ lv[p] \in Nat
    BY <1>0, NodeFacts
  <2>. QED  BY <1>0, <2>1, TreeConstants DEF ShapeType, Pids
<1>2. PICK T2, lv2, lo2, M2, F2 : Loops(u, T, lv, lo, M, ts, p, i - 1, a, T2, lv2, lo2, M2, F2)
  BY DEF LoopsTo
<1>3. /\ Shape(a.page, T2, lv2, lo2, M2, z, 0) /\ Store(a, T2, F2)
      /\ T2 \subseteq T /\ \A q \in T2 : lv2[q] = lv[q]
      /\ \A q \in T : lv[q] >= lv[p] => q \in T2 /\ lo2[q] = lo[q] /\ (q # p => a.page[q] = u.page[q])
      /\ Len(a.page[p].kv) = N
      /\ \A j \in 1..N : a.page[p].kv[j].key = kv[j].key /\ (j > i - 1 \/ j = N => a.page[p].kv[j] = kv[j])
      /\ Lowers(M, M2, ts, l, b0) /\ a.leafKeys = u.leafKeys + Cnt(M2, l, b0)
      /\ FencesLower(M2, ts, Fen(u.page, T, lv), Fen(a.page, T2, lv2), l, b0)
  BY <1>2 DEF Loops
<1>4. b0 \in Nat /\ b \in Nat /\ l <= b0 /\ b0 < b /\ b <= absoluteMax /\ b = kv[i].key /\ b0 = Above(kv, l, i) /\ absoluteMax \in Nat
  <2>1. i \in 0..Len(kv) /\ i - 1 \in 0..Len(kv)
    BY <1>1
  <2>. HIDE DEF kv, l
  <2>. QED  BY <1>1, <2>1, BoundFacts, TreeConstants DEF kv
<1>5. c = kv[i].val /\ c # 0
  <2>1. i > i - 1 /\ i \in 1..N
    BY <1>1
  <2>2. c = kv[i].val
    BY <1>3, <2>1
  <2>3. Entry(u.page, T, lv, lo, M, 0, p, i)
    BY <1>0, <2>1 DEF Node
  <2>4. c \in T
    BY <1>1, <2>2, <2>3 DEF Entry
  <2>. QED  BY <1>1, <2>2, <2>4
<1>6. p \in T2 /\ lv2[p] = lv[p] /\ lo2[p] = l
  BY <1>1, <1>3
<1>7. c \in T2 /\ lv2[c] = lv[p] - 1 /\ Top(a.page[c].kv) = b /\ lo2[c] = b0
  <2>1. Node(a.page, T2, lv2, lo2, M2, z, p)
    BY <1>3, <1>6, ShapeNode
  <2>2. Entry(a.page, T2, lv2, lo2, M2, z, p, i)
    BY <1>3, <1>6, <2>1 DEF Node
  <2>3. c \in T2 /\ lv2[c] = lv2[p] - 1 /\ Top(a.page[c].kv) = a.page[p].kv[i].key /\ lo2[c] = Above(a.page[p].kv, lo2[p], i)
    BY <1>5, <2>2 DEF Entry
  <2>4. a.page[p].kv[i].key = kv[i].key
    BY <1>3
  <2>5. Above(a.page[p].kv, l, i) = Above(kv, l, i)
    <3>1. i = 1 \/ i - 1 \in 1..N
      BY <1>1
    <3>. QED  BY <1>3, <3>1 DEF Above
  <2>. QED  BY <1>4, <1>6, <2>3, <2>4, <2>5
<1>8. CompactsBelow(a, T2, lv2, lo2, M2, z, ts, c, x)
  <2>1. lv2[c] <= lv[p] - 1 /\ (lv2[c] = 0 \/ z = 0)
    BY <1>1, <1>7
  <2>. HIDE DEF c, z
  <2>2. CompactReady(a, T2, lv2, lo2, M2, z, F2, c, lv[p] - 1)
    BY <1>3, <1>7, <2>1 DEF CompactReady
  <2>. QED  BY <2>2 DEF Can
<1>9. PICK T3, lv3, lo3, M3, F3 : Compacts(a, T2, lv2, lo2, M2, z, ts, c, x, T3, lv3, lo3, M3, F3)
  BY <1>8 DEF CompactsBelow
<1>. HIDE DEF x, c
<1>10. /\ Shape(w.page, T3, lv3, lo3, M3, z, 0) /\ Store(w, T3, F3)
       /\ T3 \subseteq T2 /\ \A q \in T3 : lv3[q] = lv2[q]
       /\ \A q \in T2 : lv2[q] >= lv2[c] => q \in T3 /\ lo3[q] = lo2[q] /\ (q # c => w.page[q] = a.page[q])
       /\ Lowers(M2, M3, ts, b0, b)
       /\ w.leafKeys = a.leafKeys + Cnt(M3, b0, b)
       /\ FencesLower(M3, ts, Fen(a.page, T2, lv2), Fen(w.page, T3, lv3), b0, b)
       /\ x.rem = 0 => lv2[c] = 0 /\ Len(w.page[c].kv) = 1 /\ w.page[c].kv[1].val < ts
  BY <1>7, <1>9 DEF Compacts
<1>. HIDE DEF w, b0, b, z
<1>11. T3 \subseteq T /\ \A q \in T3 : lv3[q] = lv[q]
  BY <1>3, <1>10
<1>12. \A q \in T : lv[q] >= lv[p] => q \in T3 /\ lo3[q] = lo[q] /\ q # c /\ w.page[q] = a.page[q]
  <2>. SUFFICES ASSUME NEW q \in T, lv[q] >= lv[p]  PROVE q \in T3 /\ lo3[q] = lo[q] /\ q # c /\ w.page[q] = a.page[q]
    OBVIOUS
  <2>1. q \in T2 /\ lo2[q] = lo[q] /\ lv2[q] = lv[q] /\ lv[q] \in Nat
    BY <1>1, <1>3
  <2>2. lv2[q] >= lv2[c] /\ lv2[q] # lv2[c]
    BY <1>1, <1>7, <2>1
  <2>. QED  BY <1>10, <2>1, <2>2
<1>13. p \in T3 /\ lo3[p] = l /\ lv3[p] = lv[p] /\ w.page[p] = a.page[p] /\ p # c
  BY <1>1, <1>11, <1>12
<1>14. Lowers(M, M3, ts, l, b) /\ Cnt(M3, l, b) = Cnt(M2, l, b0) + Cnt(M3, b0, b)
  <2>1. b0 <= b
    BY <1>4
  <2>2. l \in Nat /\ b0 \in Nat /\ b \in Nat /\ l <= b0 /\ b <= absoluteMax
    BY <1>1, <1>4
  <2>3. Lowers(M, M2, ts, l, b0)
    BY <1>3
  <2>4. Lowers(M2, M3, ts, b0, b)
    BY <1>10
  <2>. HIDE DEF l
  <2>. QED  BY ONLY <2>1, <2>2, <2>3, <2>4, LowersTwice
<1>19. FencesLower(M3, ts, Fen(u.page, T, lv), Fen(w.page, T3, lv3), l, b)
  <2>. DEFINE E == Fen(u.page, T, lv)
              E2 == Fen(a.page, T2, lv2)
              E3 == Fen(w.page, T3, lv3)
  <2>1. l \in Nat /\ b0 \in Nat /\ b \in Nat /\ l <= b0 /\ b0 <= b
    BY <1>1, <1>4
  <2>2. FencesLower(M2, ts, E, E2, l, b0) /\ Lowers(M2, M3, ts, b0, b) /\ FencesLower(M3, ts, E2, E3, b0, b)
    BY <1>3, <1>10
  <2>. HIDE DEF l, E, E2, E3
  <2>3. FencesLower(M3, ts, E, E3, l, b)
    BY ONLY <2>1, <2>2, FencesTwice
  <2>. QED  BY <2>3 DEF E, E3
<1>15. w.leafKeys = u.leafKeys + Cnt(M3, l, b) /\ u.leafKeys \in Int /\ Cnt(M3, l, b) \in Nat
  <2>1. Cnt(M2, l, b0) \in Nat /\ Cnt(M3, b0, b) \in Nat /\ Cnt(M3, l, b) \in Nat
    BY <1>1, <1>4, CntType
  <2>2. u.leafKeys \in Int
    BY StoreFacts, TreeFields
  <2>. QED  BY <1>3, <1>10, <1>14, <2>1, <2>2
<1>16. Len(w.page[p].kv) = N /\ \A j \in 1..N : w.page[p].kv[j].key = kv[j].key /\ (j > i \/ j = N => w.page[p].kv[j] = kv[j])
  <2>1. \A j \in 1..N : j > i => j > i - 1
    BY <1>1
  <2>. QED  BY <1>3, <1>13, <2>1
<1>17. CASE ~(x.rem = 0 /\ i < N)
  <2>1. DropIfEmpty(x, p, i) = w
    BY <1>16, <1>17 DEF DropIfEmpty, w
  <2>2. \A q \in T : lv[q] >= lv[p] => q \in T3 /\ lo3[q] = lo[q] /\ (q # p => w.page[q] = u.page[q])
    BY <1>3, <1>12
  <2>3. Loops(u, T, lv, lo, M, ts, p, i, w, T3, lv3, lo3, M3, F3)
    BY <1>10, <1>11, <1>14, <1>15, <1>16, <1>19, <2>2 DEF Loops, z, b
  <2>. QED  BY <2>1, <2>3 DEF LoopsTo, x, c
<1>18. CASE x.rem = 0 /\ i < N
  <2>. DEFINE y == Drop(w, p, i)
              T4 == T3 \ {c}
              lv4 == Without(lv3, T3, c)
              lo4 == Without(lo3, T3, c)
              M4 == [M3 EXCEPT ![b] = -1]
  <2>1. DropIfEmpty(x, p, i) = y
    BY <1>16, <1>18 DEF DropIfEmpty, w
  <2>2. lv2[c] = 0 /\ Len(w.page[c].kv) = 1 /\ w.page[c].kv[1].val < ts /\ lv[p] = 1 /\ z = p
    BY <1>1, <1>7, <1>10, <1>18 DEF z
  <2>3. w.page[p].kv[i].val = c /\ w.page[p].kv[i].key = b
    BY <1>4, <1>13, <1>16 DEF c
  <2>4. LastPair(w.page, T3, lv3, lo3, M3, c, p, i)
    <3>1. c \in T3
      BY <1>7, <1>10, <2>2
    <3>. QED  BY <1>10, <1>13, <1>16, <1>18, <2>2, <2>3, <3>1 DEF LastPair
  <2>5. Dropped(w, T3, F3, c, p, i, y)
    BY <1>10, <2>4, DropStore
  <2>. HIDE DEF y
  <2>6. Drops(w.page, T3, c, p, i, y.page) /\ Store(y, T4, <<c>> \o F3) /\ y.leafKeys = w.leafKeys - 1
    BY <2>5 DEF Dropped
  <2>7. M4 = [M3 EXCEPT ![w.page[p].kv[i].key] = -1]
    BY <2>3
  <2>. HIDE DEF M4
  <2>8. Shape(y.page, T4, lv4, lo4, M4, p, 0)
    BY <2>4, <2>6, <2>7, DropShape
  <2>9. M3[b] = w.page[c].kv[1].val /\ M3[b] \in Nat /\ M3[b] # -1 /\ M3[b] < ts
    <3>0. M3[w.page[p].kv[i].key] = w.page[c].kv[1].val /\ w.page[c].kv[1].val \in Nat
      BY ONLY <2>4, LastPairFacts
    <3>1. M3[b] = w.page[c].kv[1].val /\ w.page[c].kv[1].val \in Nat
      BY <2>3, <3>0
    <3>. QED  BY <2>2, <3>1
  <2>a. l \in Nat /\ b0 \in Nat /\ b \in Nat /\ l <= b0 /\ b0 < b /\ b <= absoluteMax /\ absoluteMax \in Nat
    BY <1>1, <1>4
  <2>b. l < b
    BY ONLY <2>a
  <2>10. M3 \in Tables /\ b \in 1..absoluteMax
    <3>1. M3 \in Tables
      BY <1>10 DEF Lowers
    <3>2. b \in 1..absoluteMax
      BY ONLY <2>a, <2>b
    <3>. QED  BY <3>1, <3>2
  <2>11. M4 \in Tables /\ \A k \in 1..absoluteMax : M4[k] = IF k = b THEN -1 ELSE M3[k]
    BY <2>10 DEF M4, Tables
  <2>12. Lowers(M, M4, ts, l, b)
    <3>1. \A k \in 1..absoluteMax : M3[k] = M[k] \/ (l < k /\ k <= b /\ M3[k] = -1 /\ M[k] < ts)
      BY <1>14 DEF Lowers
    <3>2. M[b] < ts /\ l < b /\ b <= b
      <4>1. M3[b] = M[b]
        BY <2>9, <2>10, <3>1
      <4>2. M3[b] < ts
        BY <2>9
      <4>3. b <= b
        BY ONLY <2>a
      <4>. QED  BY ONLY <2>b, <4>1, <4>2, <4>3
    <3>. QED  BY <2>11, <3>1, <3>2 DEF Lowers
  <2>13. Cnt(M4, l, b) = Cnt(M3, l, b) - 1
    <3>0. l \in Nat /\ b \in Nat /\ l < b /\ b <= absoluteMax /\ absoluteMax \in Nat
      BY <2>a, <2>b
    <3>. HIDE DEF l
    <3>1. b \in (l + 1)..b
      BY <3>0
    <3>2. \A j \in (l + 1)..b : j \in 1..absoluteMax
      BY <3>0
    <3>3. M4[b] = -1 /\ \A j \in (l + 1)..b : j # b => M4[j] = M3[j]
      BY <2>10, <2>11, <3>2
    <3>4. M3[b] # -1
      BY <2>9
    <3>. QED  BY ONLY <3>0, <3>1, <3>3, <3>4, CntLess
  <2>14. y.leafKeys = u.leafKeys + Cnt(M4, l, b)
    BY <1>15, <2>6, <2>13
  <2>15. T4 \subseteq T /\ \A q \in T4 : lv4[q] = lv[q]
    BY <1>11 DEF Without
  <2>16. \A q \in T : lv[q] >= lv[p] => q \in T4 /\ lo4[q] = lo[q] /\ (q # p => y.page[q] = u.page[q])
    <3>. SUFFICES ASSUME NEW q \in T, lv[q] >= lv[p]  PROVE q \in T4 /\ lo4[q] = lo[q] /\ (q # p => y.page[q] = u.page[q])
      OBVIOUS
    <3>1. q \in T3 /\ lo3[q] = lo[q] /\ q # c /\ w.page[q] = a.page[q]
      BY <1>12
    <3>2. q # p => y.page[q] = w.page[q]
      BY <2>6, <3>1 DEF Drops
    <3>. QED  BY <1>3, <3>1, <3>2 DEF Without
  <2>17. Len(y.page[p].kv) = N /\ \A j \in 1..N : y.page[p].kv[j].key = kv[j].key /\ (j > i \/ j = N => y.page[p].kv[j] = kv[j])
    <3>1. Len(y.page[p].kv) = N /\ \A j \in 1..N : y.page[p].kv[j].key = w.page[p].kv[j].key /\ (j # i => y.page[p].kv[j] = w.page[p].kv[j])
      BY <1>16, <2>6 DEF Drops
    <3>2. \A j \in 1..N : j > i \/ j = N => j # i
      BY <1>1, <1>18
    <3>. QED  BY <1>16, <3>1, <3>2
  <2>19. FencesLower(M4, ts, Fen(u.page, T, lv), Fen(y.page, T4, lv4), l, b)
    <3>. DEFINE E == Fen(u.page, T, lv)
                E3 == Fen(w.page, T3, lv3)
                E4 == Fen(y.page, T4, lv4)
    <3>1. E4 \subseteq E3 /\ \A g \in E3 : g # b => g \in E4
      BY <2>3, <2>4, <2>6, DropFences
    <3>2. /\ E3 \subseteq E
          /\ \A k \in 1..absoluteMax : l < k /\ k <= b /\ M3[k] # -1 /\ M3[k] < ts => k \in E3
          /\ \A g \in 1..absoluteMax : g \in E /\ ~(l < g /\ g <= b) => g \in E3
      BY <1>19 DEF FencesLower
    <3>. HIDE DEF E, E3, E4
    <3>3. ASSUME NEW k \in 1..absoluteMax, l < k, k <= b, M4[k] # -1, M4[k] < ts  PROVE k \in E4
      <4>1. k # b /\ M4[k] = M3[k]
        BY <2>11, <3>3
      <4>. QED  BY <3>1, <3>2, <3>3, <4>1
    <3>4. ASSUME NEW g \in 1..absoluteMax, g \in E, ~(l < g /\ g <= b)  PROVE g \in E4
      <4>1. g # b
        BY <2>a, <2>b, <3>4
      <4>. QED  BY <3>1, <3>2, <3>4, <4>1
    <3>5. FencesLower(M4, ts, E, E4, l, b)
      BY <3>1, <3>2, <3>3, <3>4 DEF FencesLower
    <3>. QED  BY <3>5 DEF E, E4
  <2>18. Loops(u, T, lv, lo, M, ts, p, i, y, T4, lv4, lo4, M4, <<c>> \o F3)
    BY <2>2, <2>6, <2>8, <2>12, <2>14, <2>15, <2>16, <2>17, <2>19 DEF Loops, b
  <2>. QED  BY <2>1, <2>18 DEF LoopsTo, x, c
<1>. QED  BY <1>17, <1>18

\* After the loop of compact the page itself is compacted.
LEMMA LoopEnd ==
    ASSUME NEW u, NEW T, NEW lv, NEW lo, NEW M, NEW F, Shape(u.page, T, lv, lo, M, 0, 0), Store(u, T, F),
           NEW p \in T, lv[p] # 0, NEW ts \in Nat, NEW a, LoopsTo(u, T, lv, lo, M, ts, p, Len(u.page[p].kv), a)
    PROVE  CompactsBelow(u, T, lv, lo, M, 0, ts, p, Compacted(a, p, 1))
<1>. DEFINE kv == u.page[p].kv
            N == Len(kv)
            l == lo[p]
            z == IF lv[p] = 1 THEN p ELSE 0
            n == a.page[p]
            r == nodeCompact(n, 1)
            x == Compacted(a, p, 1)
            w == x.tree
            b == Bound(kv, l, N)
<1>0. ShapeType(u.page, T, lv, lo, M) /\ Node(u.page, T, lv, lo, M, 0, p)
  BY ShapeNode
<1>1. /\ p \in Pids /\ kv \in KVs /\ l \in Nat /\ Ordered(kv, l) /\ N \in Nat /\ N \in 1..N /\ lv[p] \in Nat /\ lv[p] >= 1
      /\ T \subseteq Pids /\ 0 \notin T
  <2>1. /\ p \in Pids /\ kv \in KVs /\ l \in Nat /\ Ordered(kv, l) /\ N \in Nat /\ N \in 1..N /\ lv[p] \in Nat
    BY <1>0, NodeFacts
  <2>. QED  BY <1>0, <2>1, TreeConstants DEF ShapeType, Pids
<1>2. PICK T2, lv2, lo2, M2, F2 : Loops(u, T, lv, lo, M, ts, p, N, a, T2, lv2, lo2, M2, F2)
  BY DEF LoopsTo
<1>3. /\ Shape(a.page, T2, lv2, lo2, M2, z, 0) /\ Store(a, T2, F2)
      /\ T2 \subseteq T /\ \A q \in T2 : lv2[q] = lv[q]
      /\ \A q \in T : lv[q] >= lv[p] => q \in T2 /\ lo2[q] = lo[q] /\ (q # p => a.page[q] = u.page[q])
      /\ Len(n.kv) = N
      /\ \A j \in 1..N : n.kv[j].key = kv[j].key
      /\ Lowers(M, M2, ts, l, b) /\ a.leafKeys = u.leafKeys + Cnt(M2, l, b)
      /\ FencesLower(M2, ts, Fen(u.page, T, lv), Fen(a.page, T2, lv2), l, b)
  BY <1>2 DEF Loops
<1>4. b = Top(kv) /\ Top(n.kv) = Top(kv)
  <2>1. b = Top(kv)
    <3>. HIDE DEF kv, l
    <3>. QED  BY <1>1, BoundFacts
  <2>2. Top(n.kv) = Top(kv)
    BY <1>1, <1>3 DEF Top
  <2>. QED  BY <2>1, <2>2
<1>. HIDE DEF b
<1>5. p \in T2 /\ lv2[p] = lv[p] /\ lo2[p] = l
  BY <1>1, <1>3
<1>6. ShapeType(a.page, T2, lv2, lo2, M2) /\ Node(a.page, T2, lv2, lo2, M2, z, p)
  BY <1>3, <1>5, ShapeNode
<1>7. n \in Page /\ Ordered(n.kv, l) /\ ~n.leaf
  <2>1. n \in Page /\ Ordered(n.kv, lo2[p])
    BY <1>5, <1>6, NodeFacts
  <2>2. n.leaf <=> lv2[p] = 0
    BY <1>6 DEF Node
  <2>. QED  BY <1>5, <2>1, <2>2
<1>. HIDE DEF r
<1>8. r \in Page /\ r.id = n.id /\ r.leaf = n.leaf /\ Ordered(r.kv, l) /\ Top(r.kv) = Top(n.kv)
  <2>1. 1 \in Nat
    OBVIOUS
  <2>. HIDE DEF n, l
  <2>. QED  BY <1>1, <1>7, <2>1, CompactOrdered DEF r
<1>9. x = [tree |-> [a EXCEPT !.page[p] = r, !.leafKeys = a.leafKeys], rem |-> Remaining(r, 1)]
  BY <1>7, <1>8 DEF Compacted, r
<1>10. w = [a EXCEPT !.page[p] = r, !.leafKeys = a.leafKeys] /\ x.rem = Remaining(r, 1)
  BY <1>9
<1>. HIDE DEF x, w
<1>11. /\ Store(w, T2, F2) /\ w.leafKeys = a.leafKeys /\ w.page \in PageMaps /\ w.page[p] = r
       /\ \A q \in Pids : q # p => w.page[q] = a.page[q]
  <2>1. a.leafKeys \in Int
    BY <1>3, StoreFacts, TreeFields
  <2>2. PageStored(a, T2, F2, p, r, a.leafKeys, [a EXCEPT !.page[p] = r, !.leafKeys = a.leafKeys])
    BY <1>3, <1>5, <1>8, <2>1, PageStore
  <2>3. PageStored(a, T2, F2, p, r, a.leafKeys, w)
    BY <1>10, <2>2
  <2>. QED  BY <2>3 DEF PageStored
<1>12. T2 \subseteq Pids
  BY <1>1, <1>3
<1>13. \E lo3 : Shape(w.page, T2, lv2, lo3, M2, 0, 0) /\ \A q \in T2 : lv2[q] # 0 => lo3[q] = lo2[q]
  <2>1. CASE lv[p] = 1
    <3>1. z = p
      BY <2>1
    <3>2. Shape(a.page, T2, lv2, lo2, M2, p, 0) /\ lv2[p] = 1
      BY <1>3, <1>5, <2>1, <3>1
    <3>3. w.page[p] = nodeCompact(a.page[p], 1) /\ \A q \in T2 : q # p => w.page[q] = a.page[q]
      BY <1>11, <1>12 DEF r
    <3>. QED  BY <1>5, <1>11, <3>2, <3>3, PageCompacts
  <2>2. CASE lv[p] # 1
    <3>1. Shape(a.page, T2, lv2, lo2, M2, 0, 0)
      BY <1>3, <2>2
    <3>2. \A i \in 1..Len(n.kv) : n.kv[i].val >= 1
      <4>. SUFFICES ASSUME NEW i \in 1..Len(n.kv)  PROVE n.kv[i].val >= 1
        OBVIOUS
      <4>1. Node(a.page, T2, lv2, lo2, M2, 0, p)
        BY <1>5, <3>1, ShapeNode
      <4>2. Entry(a.page, T2, lv2, lo2, M2, 0, p, i)
        BY <1>5, <4>1 DEF Node
      <4>3. n.kv[i].val \in T2
        BY <1>1, <4>2 DEF Entry
      <4>4. n.kv[i].val \in Pids
        BY <1>12, <4>3
      <4>. QED  BY ONLY <4>4, TreeConstants DEF Pids
    <3>3. r = n
      <4>1. 1 \in Nat
        OBVIOUS
      <4>. HIDE DEF n
      <4>. QED  BY <1>7, <3>2, <4>1, CompactSame DEF r
    <3>4. w.page = a.page
      <4>1. a.page \in PageMaps
        BY <1>6 DEF ShapeType
      <4>2. \A q \in Pids : w.page[q] = a.page[q]
        BY <1>11, <3>3
      <4>. QED  BY <1>11, <4>1, <4>2 DEF PageMaps
    <3>. QED  BY <3>1, <3>4
  <2>. QED  BY <2>1, <2>2
<1>14. PICK lo3 : Shape(w.page, T2, lv2, lo3, M2, 0, 0) /\ \A q \in T2 : lv2[q] # 0 => lo3[q] = lo2[q]
  BY <1>13
<1>15. x.rem # 0
  <2>1. Node(w.page, T2, lv2, lo3, M2, 0, p) /\ ShapeType(w.page, T2, lv2, lo3, M2)
    BY <1>5, <1>14, ShapeNode
  <2>2. 1 \in 1..Len(r.kv) /\ Len(r.kv) \in Nat
    BY <1>5, <1>11, <2>1, NodeFacts
  <2>3. Entry(w.page, T2, lv2, lo3, M2, 0, p, 1)
    BY <1>5, <1>11, <2>1, <2>2 DEF Node
  <2>4. r.kv[1].val \in T2
    BY <1>1, <1>11, <2>3 DEF Entry
  <2>5. r.kv[1].val \in Nat /\ ~(r.kv[1].val < 1)
    <3>1. r.kv[1].val \in Pids
      BY <1>12, <2>4
    <3>. QED  BY <3>1, TreeConstants DEF Pids
  <2>6. Len(r.kv) # 0
    BY <2>2
  <2>. QED  BY <1>10, <2>5, <2>6 DEF Remaining
<1>16. \A q \in T : lv[q] >= lv[p] => q \in T2 /\ lo3[q] = lo[q] /\ (q # p => w.page[q] = u.page[q])
  <2>. SUFFICES ASSUME NEW q \in T, lv[q] >= lv[p]  PROVE q \in T2 /\ lo3[q] = lo[q] /\ (q # p => w.page[q] = u.page[q])
    OBVIOUS
  <2>1. q \in T2 /\ lo2[q] = lo[q] /\ (q # p => a.page[q] = u.page[q]) /\ lv2[q] = lv[q] /\ q \in Pids
    BY <1>1, <1>3
  <2>2. lv2[q] # 0
    <3>1. lv[q] \in Nat
      BY <1>0 DEF ShapeType
    <3>. QED  BY <1>1, <2>1, <3>1
  <2>. QED  BY <1>11, <1>14, <2>1, <2>2
<1>18. FencesLower(M2, ts, Fen(u.page, T, lv), Fen(w.page, T2, lv2), l, Top(kv))
  <2>1. \A q \in T2 : lv2[q] = 0 => Top(w.page[q].kv) = Top(a.page[q].kv)
    BY <1>1, <1>5, <1>11, <1>12
  <2>2. Fen(w.page, T2, lv2) = Fen(a.page, T2, lv2)
    BY <2>1, FenSame
  <2>. QED  BY <1>3, <1>4, <2>2
<1>17. Compacts(u, T, lv, lo, M, 0, ts, p, x, T2, lv2, lo3, M2, F2)
  <2>1. Top(w.page[p].kv) = Top(kv)
    BY <1>4, <1>8, <1>11
  <2>2. w = x.tree
    BY DEF w
  <2>3. Lowers(M, M2, ts, l, Top(kv)) /\ w.leafKeys = u.leafKeys + Cnt(M2, l, Top(kv))
    BY <1>3, <1>4, <1>11
  <2>. QED  BY <1>3, <1>11, <1>14, <1>15, <1>16, <1>18, <2>1, <2>2, <2>3 DEF Compacts
<1>. QED  BY <1>17 DEF CompactsBelow, x

IsAfter(f, t, pid, below) ==
    f = [i \in 0..Len(t.page[pid].kv) |->
            IF i = 0 THEN t
            ELSE DropIfEmpty(below[f[i - 1].page[pid].kv[i].val][f[i - 1]], pid, i)]

\* The recursion over the children of a page defines a function.
LEMMA AfterExists ==
    ASSUME NEW t, NEW pid, NEW below, t.page[pid].kv \in KVs
    PROVE  \E f : IsAfter(f, t, pid, below)
<1>. DEFINE N == Len(t.page[pid].kv)
            B(n, h) == IF n = 0 THEN t ELSE DropIfEmpty(below[h.page[pid].kv[n].val][h], pid, n)
            On(f, m) == f[0] = B(0, 0) /\ \A n \in 1..m : f[n] = B(n, f[n - 1])
            S == {m \in 0..N : \E f : On(f, m)}
<1>0. N \in Nat
  BY KVType
<1>1. \A h : B(0, h) = B(0, 0)
  OBVIOUS
<1>. HIDE DEF B, N
<1>2. 0 \in S
  <2>1. On([n \in 0..0 |-> B(0, 0)], 0)
    OBVIOUS
  <2>2. 0 \in 0..N
    BY <1>0
  <2>. QED  BY <2>1, <2>2
<1>3. ASSUME NEW m \in 1..N, m - 1 \in S  PROVE m \in S
  <2>1. PICK f : On(f, m - 1)
    BY <1>3
  <2>. DEFINE g == [n \in 0..m |-> IF n = m THEN B(m, f[m - 1]) ELSE f[n]]
  <2>2. g[m] = B(m, f[m - 1]) /\ \A n \in 0..(m - 1) : g[n] = f[n]
    BY <1>0
  <2>3. f[0] = B(0, 0) /\ \A n \in 1..(m - 1) : f[n] = B(n, f[n - 1])
    BY <2>1
  <2>4. g[0] = B(0, 0)
    <3>1. 0 \in 0..(m - 1)
      BY <1>0
    <3>. QED  BY <2>2, <2>3, <3>1
  <2>5. ASSUME NEW n \in 1..m  PROVE g[n] = B(n, g[n - 1])
    <3>1. n - 1 \in 0..(m - 1)
      BY <1>0
    <3>2. g[n - 1] = f[n - 1]
      BY <2>2, <3>1
    <3>3. CASE n = m
      BY <2>2, <3>2, <3>3
    <3>4. CASE n # m
      <4>1. n \in 0..(m - 1) /\ n \in 1..(m - 1)
        BY <1>0, <3>4
      <4>2. g[n] = f[n] /\ f[n] = B(n, f[n - 1])
        BY <2>2, <2>3, <4>1
      <4>. QED  BY <3>2, <4>2
    <3>. QED  BY <3>3, <3>4
  <2>6. m \in 0..N
    BY <1>0
  <2>. HIDE DEF g
  <2>. QED  BY <2>4, <2>5, <2>6
<1>4. N \in S
  <2>1. \A k \in 0..N : k \in S
    <3>. HIDE DEF S
    <3>. QED  BY <1>0, <1>2, <1>3, UpTo
  <2>2. N \in 0..N
    BY <1>0
  <2>. HIDE DEF S
  <2>. QED  BY <2>1, <2>2
<1>5. PICK f : f[0] = B(0, 0) /\ \A n \in 1..N : f[n] = B(n, f[n - 1])
  BY <1>4
<1>. DEFINE g == [n \in 0..N |-> f[n]]
<1>6. ASSUME NEW n \in 0..N  PROVE g[n] = B(n, g[n - 1])
  <2>1. CASE n = 0
    <3>1. g[0] = f[0]
      BY <1>0
    <3>. QED  BY <1>1, <1>5, <2>1, <3>1
  <2>2. CASE n # 0
    <3>1. n - 1 \in 0..N /\ n \in 1..N
      BY <1>0, <2>2
    <3>2. g[n - 1] = f[n - 1] /\ g[n] = f[n]
      BY <3>1
    <3>. QED  BY <1>5, <3>1, <3>2
  <2>. QED  BY <2>1, <2>2
<1>7. g = [n \in 0..N |-> B(n, g[n - 1])]
  <2>1. g = [n \in 0..N |-> g[n]]
    OBVIOUS
  <2>. HIDE DEF g
  <2>. QED  BY <1>6, <2>1
<1>8. IsAfter(g, t, pid, below)
  <2>. HIDE DEF g
  <2>. QED  BY <1>7 DEF IsAfter, B, N
<1>. QED  BY <1>8

\* compact on an internal page, if compact works on the pages below
LEMMA CompactLoop ==
    ASSUME NEW u, NEW T, NEW lv, NEW lo, NEW M, NEW F, Shape(u.page, T, lv, lo, M, 0, 0), Store(u, T, F),
           NEW p \in T, lv[p] # 0, NEW ts \in Nat, NEW below, Can(below, lv[p] - 1, ts)
    PROVE  CompactsBelow(u, T, lv, lo, M, 0, ts, p, CompactBelow(u, p, below))
<1>. DEFINE f == CHOOSE h : IsAfter(h, u, p, below)
            N == Len(u.page[p].kv)
            S == {i \in 0..N : LoopsTo(u, T, lv, lo, M, ts, p, i, f[i])}
<1>0. ShapeType(u.page, T, lv, lo, M) /\ Node(u.page, T, lv, lo, M, 0, p)
  BY ShapeNode
<1>1. u.page[p].kv \in KVs /\ N \in Nat
  BY <1>0, NodeFacts
<1>2. CompactBelow(u, p, below) = Compacted(f[N], p, 1)
  BY DEF CompactBelow, IsAfter
<1>3. IsAfter(f, u, p, below)
  <2>1. \E h : IsAfter(h, u, p, below)
    BY <1>1, AfterExists
  <2>. QED  BY <2>1
<1>. HIDE DEF f
<1>4. ASSUME NEW i \in 0..N
      PROVE  f[i] = IF i = 0 THEN u ELSE DropIfEmpty(below[f[i - 1].page[p].kv[i].val][f[i - 1]], p, i)
  <2>. DEFINE E(m) == IF m = 0 THEN u ELSE DropIfEmpty(below[f[m - 1].page[p].kv[m].val][f[m - 1]], p, m)
  <2>1. f = [m \in 0..N |-> E(m)]
    BY <1>3 DEF IsAfter
  <2>2. f[i] = E(i)
    <3>. HIDE DEF E, N
    <3>. QED  BY <2>1
  <2>. QED  BY <2>2
<1>5. 0 \in S
  <2>1. f[0] = u /\ 0 \in 0..N
    BY <1>1, <1>4
  <2>2. LoopsTo(u, T, lv, lo, M, ts, p, 0, u)
    BY LoopStart
  <2>. QED  BY <2>1, <2>2
<1>6. ASSUME NEW i \in 1..N, i - 1 \in S  PROVE i \in S
  <2>1. i \in 0..N /\ i # 0
    BY <1>1
  <2>2. f[i] = DropIfEmpty(below[f[i - 1].page[p].kv[i].val][f[i - 1]], p, i)
    BY <1>4, <2>1
  <2>3. LoopsTo(u, T, lv, lo, M, ts, p, i - 1, f[i - 1])
    BY <1>6
  <2>. DEFINE a == f[i - 1]
  <2>. HIDE DEF a
  <2>4. LoopsTo(u, T, lv, lo, M, ts, p, i, DropIfEmpty(below[a.page[p].kv[i].val][a], p, i))
    BY <2>3, LoopStep DEF a
  <2>. QED  BY <2>1, <2>2, <2>4 DEF a
<1>7. N \in S
  <2>1. \A k \in 0..N : k \in S
    <3>. HIDE DEF S
    <3>. QED  BY <1>1, <1>5, <1>6, UpTo
  <2>2. N \in 0..N
    BY <1>1
  <2>. HIDE DEF S
  <2>. QED  BY <2>1, <2>2
<1>8. LoopsTo(u, T, lv, lo, M, ts, p, N, f[N])
  BY <1>7
<1>9. CompactsBelow(u, T, lv, lo, M, 0, ts, p, Compacted(f[N], p, 1))
  <2>. DEFINE a == f[N]
  <2>1. LoopsTo(u, T, lv, lo, M, ts, p, Len(u.page[p].kv), a)
    BY <1>8
  <2>. HIDE DEF a
  <2>2. CompactsBelow(u, T, lv, lo, M, 0, ts, p, Compacted(a, p, 1))
    BY <2>1, LoopEnd
  <2>. QED  BY <2>2 DEF a
<1>. QED  BY <1>2, <1>9

IsCompact(f, ts) ==
    f = [n \in 0..MaxPages |-> [pid \in Pids |-> [u \in Trees |->
            IF n = 0 \/ u.page[pid].leaf THEN Compacted(u, pid, ts)
            ELSE CompactBelow(u, pid, f[n - 1])]]]

\* The recursion of compact defines a function.
LEMMA CompactExists ==
    ASSUME NEW ts
    PROVE  \E f : IsCompact(f, ts)
<1>. DEFINE N == MaxPages
            B(n, h) == [pid \in Pids |-> [u \in Trees |->
                           IF n = 0 \/ u.page[pid].leaf THEN Compacted(u, pid, ts)
                           ELSE CompactBelow(u, pid, h)]]
            On(f, m) == f[0] = B(0, 0) /\ \A n \in 1..m : f[n] = B(n, f[n - 1])
            S == {m \in 0..N : \E f : On(f, m)}
<1>0. N \in Nat
  BY TreeConstants
<1>1. \A h : B(0, h) = B(0, 0)
  OBVIOUS
<1>. HIDE DEF B, N
<1>2. 0 \in S
  <2>1. On([n \in 0..0 |-> B(0, 0)], 0)
    OBVIOUS
  <2>2. 0 \in 0..N
    BY <1>0
  <2>. QED  BY <2>1, <2>2
<1>3. ASSUME NEW m \in 1..N, m - 1 \in S  PROVE m \in S
  <2>1. PICK f : On(f, m - 1)
    BY <1>3
  <2>. DEFINE g == [n \in 0..m |-> IF n = m THEN B(m, f[m - 1]) ELSE f[n]]
  <2>2. g[m] = B(m, f[m - 1]) /\ \A n \in 0..(m - 1) : g[n] = f[n]
    BY <1>0
  <2>3. f[0] = B(0, 0) /\ \A n \in 1..(m - 1) : f[n] = B(n, f[n - 1])
    BY <2>1
  <2>4. g[0] = B(0, 0)
    <3>1. 0 \in 0..(m - 1)
      BY <1>0
    <3>. QED  BY <2>2, <2>3, <3>1
  <2>5. ASSUME NEW n \in 1..m  PROVE g[n] = B(n, g[n - 1])
    <3>1. n - 1 \in 0..(m - 1)
      BY <1>0
    <3>2. g[n - 1] = f[n - 1]
      BY <2>2, <3>1
    <3>3. CASE n = m
      BY <2>2, <3>2, <3>3
    <3>4. CASE n # m
      <4>1. n \in 0..(m - 1) /\ n \in 1..(m - 1)
        BY <1>0, <3>4
      <4>2. g[n] = f[n] /\ f[n] = B(n, f[n - 1])
        BY <2>2, <2>3, <4>1
      <4>. QED  BY <3>2, <4>2
    <3>. QED  BY <3>3, <3>4
  <2>6. m \in 0..N
    BY <1>0
  <2>. HIDE DEF g
  <2>. QED  BY <2>4, <2>5, <2>6
<1>4. N \in S
  <2>1. \A k \in 0..N : k \in S
    <3>. HIDE DEF S
    <3>. QED  BY <1>0, <1>2, <1>3, UpTo
  <2>2. N \in 0..N
    BY <1>0
  <2>. HIDE DEF S
  <2>. QED  BY <2>1, <2>2
<1>5. PICK f : f[0] = B(0, 0) /\ \A n \in 1..N : f[n] = B(n, f[n - 1])
  BY <1>4
<1>. DEFINE g == [n \in 0..N |-> f[n]]
<1>6. ASSUME NEW n \in 0..N  PROVE g[n] = B(n, g[n - 1])
  <2>1. CASE n = 0
    <3>1. g[0] = f[0]
      BY <1>0
    <3>. QED  BY <1>1, <1>5, <2>1, <3>1
  <2>2. CASE n # 0
    <3>1. n - 1 \in 0..N /\ n \in 1..N
      BY <1>0, <2>2
    <3>2. g[n - 1] = f[n - 1] /\ g[n] = f[n]
      BY <3>1
    <3>. QED  BY <1>5, <3>1, <3>2
  <2>. QED  BY <2>1, <2>2
<1>7. g = [n \in 0..N |-> B(n, g[n - 1])]
  <2>1. g = [n \in 0..N |-> g[n]]
    OBVIOUS
  <2>. HIDE DEF g
  <2>. QED  BY <1>6, <2>1
<1>8. IsCompact(g, ts)
  <2>. HIDE DEF g
  <2>. QED  BY <1>7 DEF IsCompact, B, N
<1>. QED  BY <1>8

\* One step of that recursion
LEMMA CompactStep ==
    ASSUME NEW f, NEW ts, IsCompact(f, ts), NEW n \in 0..MaxPages, NEW p \in Pids, NEW t \in Trees
    PROVE  f[n][p][t] = IF n = 0 \/ t.page[p].leaf THEN Compacted(t, p, ts) ELSE CompactBelow(t, p, f[n - 1])
<1>. DEFINE E(m) == [pid \in Pids |-> [u \in Trees |->
                        IF m = 0 \/ u.page[pid].leaf THEN Compacted(u, pid, ts)
                        ELSE CompactBelow(u, pid, f[m - 1])]]
<1>1. f = [m \in 0..MaxPages |-> E(m)]
  BY DEF IsCompact
<1>2. f[n] = E(n)
  <2>. HIDE DEF E
  <2>. QED  BY <1>1
<1>3. E(n)[p][t] = IF n = 0 \/ t.page[p].leaf THEN Compacted(t, p, ts) ELSE CompactBelow(t, p, f[n - 1])
  OBVIOUS
<1>. HIDE DEF E
<1>. QED  BY <1>2, <1>3

\* compact works on every page, by induction on its level.
LEMMA CompactDown ==
    ASSUME NEW f, NEW ts \in Nat, IsCompact(f, ts), NEW N \in 0..MaxPages
    PROVE  Can(f[N], N, ts)
<1>. DEFINE S == {n \in 0..MaxPages : Can(f[n], n, ts)}
<1>0. MaxPages \in Nat /\ N \in Nat
  BY TreeConstants
<1>1. ASSUME NEW u, NEW T, NEW lv, NEW lo, NEW M, NEW z, NEW F, NEW p \in T, Shape(u.page, T, lv, lo, M, z, 0), Store(u, T, F)
      PROVE  u \in Trees /\ p \in Pids /\ lv[p] \in Nat /\ (u.page[p].leaf <=> lv[p] = 0)
  <2>1. u \in Trees /\ T \subseteq Pids
    BY <1>1, StoreFacts
  <2>2. ShapeType(u.page, T, lv, lo, M) /\ Node(u.page, T, lv, lo, M, z, p)
    BY <1>1, ShapeNode
  <2>3. lv[p] \in Nat
    BY <2>2, NodeFacts
  <2>4. u.page[p].leaf <=> lv[p] = 0
    BY <2>2 DEF Node
  <2>. QED  BY <2>1, <2>3, <2>4
<1>2. ASSUME NEW n \in 0..MaxPages, n # 0 => Can(f[n - 1], n - 1, ts)  PROVE Can(f[n], n, ts)
  <2>. SUFFICES ASSUME NEW u, NEW T, NEW lv, NEW lo, NEW M, NEW z, NEW F, NEW p, CompactReady(u, T, lv, lo, M, z, F, p, n)
                PROVE  CompactsBelow(u, T, lv, lo, M, z, ts, p, f[n][p][u])
    BY Zenon DEF Can
  <2>a. Shape(u.page, T, lv, lo, M, z, 0) /\ Store(u, T, F) /\ p \in T /\ lv[p] <= n /\ (lv[p] = 0 \/ z = 0)
    BY DEF CompactReady
  <2>0. n \in Nat
    BY <1>0
  <2>1. u \in Trees /\ p \in Pids /\ lv[p] \in Nat /\ (u.page[p].leaf <=> lv[p] = 0)
    BY <1>1, <2>a
  <2>2. CASE lv[p] = 0
    <3>1. f[n][p][u] = Compacted(u, p, ts)
      BY <2>1, <2>2, CompactStep
    <3>. QED  BY <2>2, <2>a, <3>1, LeafCompacts
  <2>3. CASE lv[p] # 0
    <3>1. n # 0 /\ z = 0
      BY <2>0, <2>1, <2>3, <2>a
    <3>2. f[n][p][u] = CompactBelow(u, p, f[n - 1])
      BY <2>1, <2>3, <3>1, CompactStep
    <3>3. Can(f[n - 1], n - 1, ts)
      BY <1>2, <3>1
    <3>. DEFINE below == f[n - 1]
    <3>4. Can(below, lv[p] - 1, ts)
      <4>. SUFFICES ASSUME NEW u2, NEW T2, NEW lv2, NEW lo2, NEW M2, NEW z2, NEW F2, NEW q,
                           CompactReady(u2, T2, lv2, lo2, M2, z2, F2, q, lv[p] - 1)
                    PROVE  CompactsBelow(u2, T2, lv2, lo2, M2, z2, ts, q, below[q][u2])
        BY Zenon DEF Can
      <4>0. /\ Shape(u2.page, T2, lv2, lo2, M2, z2, 0) /\ Store(u2, T2, F2) /\ q \in T2 /\ lv2[q] <= lv[p] - 1
            /\ (lv2[q] = 0 \/ z2 = 0)
        BY DEF CompactReady
      <4>1. lv2[q] \in Nat
        BY <1>1, <4>0
      <4>2. lv2[q] <= n - 1
        BY <2>0, <2>1, <2>a, <4>0, <4>1
      <4>3. CompactReady(u2, T2, lv2, lo2, M2, z2, F2, q, n - 1)
        BY <4>0, <4>2 DEF CompactReady
      <4>. QED  BY <3>3, <4>3 DEF Can
    <3>. HIDE DEF below
    <3>5. Shape(u.page, T, lv, lo, M, 0, 0)
      BY <2>a, <3>1
    <3>6. CompactsBelow(u, T, lv, lo, M, 0, ts, p, CompactBelow(u, p, below))
      BY <2>3, <2>a, <3>4, <3>5, CompactLoop
    <3>. QED  BY <3>1, <3>2, <3>6 DEF below
  <2>. QED  BY <2>2, <2>3
<1>3. 0 \in S
  BY <1>0, <1>2
<1>4. ASSUME NEW n \in 1..MaxPages, n - 1 \in S  PROVE n \in S
  <2>1. n \in 0..MaxPages
    BY <1>0
  <2>. QED  BY <1>2, <1>4, <2>1
<1>5. N \in S
  <2>. HIDE DEF S
  <2>. QED  BY <1>0, <1>3, <1>4, UpTo
<1>. QED  BY <1>5

\* DeleteBelow takes away every key with a value below ts that is not a fence of the
\* tree it leaves, and counts those that are left.
LEMMA DeleteBelowIs ==
    ASSUME NEW t, NEW M, NEW E, IsTree(t, M, E), NEW ts \in Nat
    PROVE  \E M2, E2 : /\ IsTree(DeleteBelow(t, ts), M2, E2) /\ Lowers(M, M2, ts, 0, absoluteMax)
                       /\ FencesLower(M2, ts, E, E2, 0, absoluteMax)
                       /\ DeleteBelow(t, ts).leafKeys = Cnt(M2, 0, absoluteMax)
<1>. DEFINE f == CHOOSE h : IsCompact(h, ts)
            u == [t EXCEPT !.leafKeys = 0]
            x == f[MaxPages][1][u]
            w == x.tree
<1>1. compact(u, ts) = x
  BY DEF compact, IsCompact
<1>2. DeleteBelow(t, ts) = w
  BY <1>1 DEF DeleteBelow
<1>3. IsCompact(f, ts)
  <2>1. \E h : IsCompact(h, ts)
    BY CompactExists
  <2>. QED  BY <2>1
<1>. HIDE DEF f
<1>4. PICK T, lv, lo, F : Shape(t.page, T, lv, lo, M, 0, 0) /\ Store(t, T, F) /\ E = Fen(t.page, T, lv)
  BY DEF IsTree
<1>5. t \in Trees /\ t.page \in PageMaps
  BY <1>4, StoreFacts, TreeFields
<1>6. PagesSet(t, t.page, 0, u)
  <2>. DEFINE pg == t.page
              lk == 0
  <2>0. pg \in PageMaps /\ lk \in Int
    BY <1>5
  <2>2. u = [t EXCEPT !.page = pg, !.leafKeys = lk]
    BY <1>5 DEF Trees
  <2>. HIDE DEF pg, lk, u
  <2>1. PagesSet(t, pg, lk, [t EXCEPT !.page = pg, !.leafKeys = lk])
    BY <1>5, <2>0, WithPages
  <2>3. PagesSet(t, pg, lk, u)
    BY <2>1, <2>2
  <2>. QED  BY <2>3 DEF pg, lk
<1>. HIDE DEF u
<1>7. SameStore(t, u) /\ u.page = t.page /\ u.leafKeys = 0
  BY <1>6 DEF PagesSet
<1>8. Store(u, T, F) /\ Shape(u.page, T, lv, lo, M, 0, 0)
  BY <1>4, <1>7, StoreKeeps
<1>9. 1 \in T /\ lo[1] = 0 /\ Top(u.page[1].kv) = absoluteMax /\ lv[1] <= MaxPages /\ MaxPages \in 0..MaxPages
  <2>1. 1 \in T /\ lo[1] = 0 /\ Top(u.page[1].kv) = absoluteMax
    BY <1>8 DEF Shape, Rooted
  <2>2. lv[1] <= MaxPages
    BY <1>8, LevelsBound
  <2>. QED  BY <2>1, <2>2, TreeConstants
<1>10. CompactsBelow(u, T, lv, lo, M, 0, ts, 1, x)
  <2>1. Can(f[MaxPages], MaxPages, ts)
    BY <1>3, <1>9, CompactDown
  <2>2. CompactReady(u, T, lv, lo, M, 0, F, 1, MaxPages)
    BY <1>8, <1>9 DEF CompactReady
  <2>. QED  BY <2>1, <2>2 DEF Can
<1>. HIDE DEF x, w
<1>11. PICK T2, lv2, lo2, M2, F2 : Compacts(u, T, lv, lo, M, 0, ts, 1, x, T2, lv2, lo2, M2, F2)
  BY <1>10 DEF CompactsBelow
<1>12. /\ Shape(w.page, T2, lv2, lo2, M2, 0, 0) /\ Store(w, T2, F2) /\ Lowers(M, M2, ts, 0, absoluteMax)
       /\ w.leafKeys = 0 + Cnt(M2, 0, absoluteMax)
       /\ FencesLower(M2, ts, E, Fen(w.page, T2, lv2), 0, absoluteMax)
  BY <1>4, <1>7, <1>9, <1>11 DEF Compacts, w
<1>13. Cnt(M2, 0, absoluteMax) \in Nat
  BY CntType, TreeConstants
<1>14. IsTree(w, M2, Fen(w.page, T2, lv2)) /\ w.leafKeys = Cnt(M2, 0, absoluteMax)
  BY <1>12, <1>13 DEF IsTree
<1>. QED  BY <1>2, <1>12, <1>14

-----------------------------------------------------------------------------
(* Iterate *)

\* Page c is the i-th child of page q.
ChildOf(pg, T, lv, c, q, i) ==
    q \in T /\ lv[q] # 0 /\ i \in 1..Len(pg[q].kv) /\ pg[q].kv[i].val = c /\ lv[c] = lv[q] - 1

\* Every page but the root has a place in a page one level up.
LEMMA ParentIs ==
    ASSUME NEW pg, NEW T, NEW lv, NEW lo, NEW M, NEW full, Shape(pg, T, lv, lo, M, 0, full), NEW c \in T, c # 1
    PROVE  \E q, i : ChildOf(pg, T, lv, c, q, i)
<1>1. PICK q \in T : lv[q] # 0 /\ \E i \in 1..Len(pg[q].kv) : pg[q].kv[i].val = c
  BY DEF Shape, HasParent
<1>2. PICK i \in 1..Len(pg[q].kv) : pg[q].kv[i].val = c
  BY <1>1
<1>3. Node(pg, T, lv, lo, M, 0, q)
  BY ShapeNode
<1>4. Entry(pg, T, lv, lo, M, 0, q, i)
  BY <1>1, <1>3 DEF Node
<1>5. c # 0
  BY TreeConstants DEF Shape, ShapeType, Pids
<1>6. lv[c] = lv[q] - 1
  BY <1>2, <1>4, <1>5 DEF Entry
<1>7. ChildOf(pg, T, lv, c, q, i)
  BY <1>1, <1>2, <1>6 DEF ChildOf
<1>. QED  BY <1>7

\* Every pair of an internal page leads to a page one level down.
LEMMA ChildrenAre ==
    ASSUME NEW pg, NEW T, NEW lv, NEW lo, NEW M, NEW full, Shape(pg, T, lv, lo, M, 0, full), NEW q \in T, lv[q] # 0,
           NEW i \in 1..Len(pg[q].kv)
    PROVE  /\ pg[q].kv[i].val \in T /\ lv[pg[q].kv[i].val] = lv[q] - 1
           /\ Top(pg[pg[q].kv[i].val].kv) = pg[q].kv[i].key /\ lo[pg[q].kv[i].val] = Above(pg[q].kv, lo[q], i)
<1>1. Node(pg, T, lv, lo, M, 0, q)
  BY ShapeNode
<1>2. Entry(pg, T, lv, lo, M, 0, q, i)
  BY <1>1 DEF Node
<1>3. q # 0
  BY TreeConstants DEF Shape, ShapeType, Pids
<1>. QED  BY <1>2, <1>3 DEF Entry

IsLevel(f, t) == f = [n \in 0..MaxPages |-> IF n = 0 THEN {1} ELSE Below(t, f[n - 1])]

\* The recursion of iterate defines a function.
LEMMA LevelExists ==
    ASSUME NEW t
    PROVE  \E f : IsLevel(f, t)
<1>. DEFINE N == MaxPages
            B(n, h) == IF n = 0 THEN {1} ELSE Below(t, h)
            On(f, m) == f[0] = B(0, 0) /\ \A n \in 1..m : f[n] = B(n, f[n - 1])
            S == {m \in 0..N : \E f : On(f, m)}
<1>0. N \in Nat
  BY TreeConstants
<1>1. \A h : B(0, h) = B(0, 0)
  OBVIOUS
<1>. HIDE DEF B, N
<1>2. 0 \in S
  <2>1. On([n \in 0..0 |-> B(0, 0)], 0)
    OBVIOUS
  <2>2. 0 \in 0..N
    BY <1>0
  <2>. QED  BY <2>1, <2>2
<1>3. ASSUME NEW m \in 1..N, m - 1 \in S  PROVE m \in S
  <2>1. PICK f : On(f, m - 1)
    BY <1>3
  <2>. DEFINE g == [n \in 0..m |-> IF n = m THEN B(m, f[m - 1]) ELSE f[n]]
  <2>2. g[m] = B(m, f[m - 1]) /\ \A n \in 0..(m - 1) : g[n] = f[n]
    BY <1>0
  <2>3. f[0] = B(0, 0) /\ \A n \in 1..(m - 1) : f[n] = B(n, f[n - 1])
    BY <2>1
  <2>4. g[0] = B(0, 0)
    <3>1. 0 \in 0..(m - 1)
      BY <1>0
    <3>. QED  BY <2>2, <2>3, <3>1
  <2>5. ASSUME NEW n \in 1..m  PROVE g[n] = B(n, g[n - 1])
    <3>1. n - 1 \in 0..(m - 1)
      BY <1>0
    <3>2. g[n - 1] = f[n - 1]
      BY <2>2, <3>1
    <3>3. CASE n = m
      BY <2>2, <3>2, <3>3
    <3>4. CASE n # m
      <4>1. n \in 0..(m - 1) /\ n \in 1..(m - 1)
        BY <1>0, <3>4
      <4>2. g[n] = f[n] /\ f[n] = B(n, f[n - 1])
        BY <2>2, <2>3, <4>1
      <4>. QED  BY <3>2, <4>2
    <3>. QED  BY <3>3, <3>4
  <2>6. m \in 0..N
    BY <1>0
  <2>. HIDE DEF g
  <2>. QED  BY <2>4, <2>5, <2>6
<1>4. N \in S
  <2>1. \A k \in 0..N : k \in S
    <3>. HIDE DEF S
    <3>. QED  BY <1>0, <1>2, <1>3, UpTo
  <2>2. N \in 0..N
    BY <1>0
  <2>. HIDE DEF S
  <2>. QED  BY <2>1, <2>2
<1>5. PICK f : f[0] = B(0, 0) /\ \A n \in 1..N : f[n] = B(n, f[n - 1])
  BY <1>4
<1>. DEFINE g == [n \in 0..N |-> f[n]]
<1>6. ASSUME NEW n \in 0..N  PROVE g[n] = B(n, g[n - 1])
  <2>1. CASE n = 0
    <3>1. g[0] = f[0]
      BY <1>0
    <3>. QED  BY <1>1, <1>5, <2>1, <3>1
  <2>2. CASE n # 0
    <3>1. n - 1 \in 0..N /\ n \in 1..N
      BY <1>0, <2>2
    <3>2. g[n - 1] = f[n - 1] /\ g[n] = f[n]
      BY <3>1
    <3>. QED  BY <1>5, <3>1, <3>2
  <2>. QED  BY <2>1, <2>2
<1>7. g = [n \in 0..N |-> B(n, g[n - 1])]
  <2>1. g = [n \in 0..N |-> g[n]]
    OBVIOUS
  <2>. HIDE DEF g
  <2>. QED  BY <1>6, <2>1
<1>8. IsLevel(g, t)
  <2>. HIDE DEF g
  <2>. QED  BY <1>7 DEF IsLevel, B, N
<1>. QED  BY <1>8

\* Iterate visits the pages of the tree.
LEMMA IterateIs ==
    ASSUME NEW t, NEW T, NEW lv, NEW lo, NEW M, NEW full, Shape(t.page, T, lv, lo, M, 0, full), lv[1] <= MaxPages
    PROVE  /\ iterate(t) = T
           /\ Leaves(t) = {p \in T : lv[p] = 0}
           /\ \A p \in T : t.page[p].leaf <=> lv[p] = 0
<1>. DEFINE f == CHOOSE h : IsLevel(h, t)
            L(n) == {p \in T : lv[p] = lv[1] - n}
            S == {n \in 0..MaxPages : f[n] = L(n)}
<1>0. MaxPages \in Nat /\ 1 \in T /\ lv[1] \in Nat /\ lv \in [T -> Nat] /\ \A p \in T : lv[p] \in Nat /\ lv[p] <= lv[1]
  BY TreeConstants DEF Shape, ShapeType, Rooted
<1>1. \A p \in T : t.page[p].leaf <=> lv[p] = 0
  BY ShapeNode DEF Node
<1>2. iterate(t) = UNION {f[n] : n \in 0..MaxPages}
  BY DEF iterate, IsLevel
<1>3. IsLevel(f, t)
  <2>1. \E h : IsLevel(h, t)
    BY LevelExists
  <2>. QED  BY <2>1
<1>. HIDE DEF f
<1>4. ASSUME NEW n \in 0..MaxPages  PROVE f[n] = IF n = 0 THEN {1} ELSE Below(t, f[n - 1])
  BY <1>3 DEF IsLevel
<1>5. 0 \in S
  <2>1. f[0] = {1} /\ 0 \in 0..MaxPages
    BY <1>0, <1>4
  <2>2. ASSUME NEW p \in T, lv[p] = lv[1] - 0  PROVE p = 1
    <3>. SUFFICES ASSUME p # 1  PROVE FALSE
      OBVIOUS
    <3>1. PICK q, i : ChildOf(t.page, T, lv, p, q, i)
      BY ParentIs
    <3>2. q \in T /\ lv[p] = lv[q] - 1
      BY <3>1 DEF ChildOf
    <3>3. lv[q] \in Nat /\ lv[q] <= lv[1]
      BY <1>0, <3>2
    <3>. QED  BY <1>0, <2>2, <3>2, <3>3
  <2>3. L(0) = {1}
    <3>1. lv[1] = lv[1] - 0
      BY <1>0
    <3>. QED  BY <1>0, <2>2, <3>1
  <2>. HIDE DEF L
  <2>. QED  BY <2>1, <2>3
<1>6. ASSUME NEW n \in 1..MaxPages, n - 1 \in S  PROVE n \in S
  <2>0. n \in 0..MaxPages /\ n # 0 /\ n \in Nat
    BY <1>0
  <2>1. f[n] = Below(t, L(n - 1))
    <3>1. f[n] = Below(t, f[n - 1])
      BY <1>4, <2>0
    <3>2. f[n - 1] = L(n - 1)
      BY <1>6
    <3>. HIDE DEF L
    <3>. QED  BY <3>1, <3>2
  <2>. DEFINE I == {p \in L(n - 1) : ~t.page[p].leaf}
  <2>2. Below(t, L(n - 1)) = UNION {{t.page[p].kv[i].val : i \in 1..Len(t.page[p].kv)} : p \in I}
    BY DEF Below
  <2>3. \A p : p \in I <=> p \in T /\ lv[p] = lv[1] - (n - 1) /\ lv[p] # 0
    BY <1>1
  <2>. HIDE DEF I
  <2>4. ASSUME NEW p \in I, NEW i \in 1..Len(t.page[p].kv)  PROVE t.page[p].kv[i].val \in L(n)
    <3>. DEFINE c == t.page[p].kv[i].val
    <3>1. p \in T /\ lv[p] # 0 /\ lv[p] = lv[1] - (n - 1)
      BY <2>3
    <3>2. c \in T /\ lv[c] = lv[p] - 1
      BY <3>1, ChildrenAre
    <3>3. lv[c] = lv[1] - n
      BY <1>0, <2>0, <3>1, <3>2
    <3>. HIDE DEF c
    <3>4. c \in L(n)
      BY <3>2, <3>3
    <3>. QED  BY <3>4 DEF c
  <2>5. ASSUME NEW c \in L(n)  PROVE \E p \in I : \E i \in 1..Len(t.page[p].kv) : c = t.page[p].kv[i].val
    <3>1. c \in T /\ lv[c] = lv[1] - n
      OBVIOUS
    <3>2. c # 1
      BY <1>0, <2>0, <3>1
    <3>3. PICK q, i : ChildOf(t.page, T, lv, c, q, i)
      BY <3>1, <3>2, ParentIs
    <3>4. q \in T /\ lv[q] # 0 /\ i \in 1..Len(t.page[q].kv) /\ t.page[q].kv[i].val = c /\ lv[c] = lv[q] - 1
      BY <3>3 DEF ChildOf
    <3>5. lv[q] = lv[1] - (n - 1)
      <4>1. lv[q] \in Nat
        BY <1>0, <3>4
      <4>. QED  BY <1>0, <2>0, <3>1, <3>4, <4>1
    <3>6. q \in I
      BY <2>3, <3>4, <3>5
    <3>. QED  BY <3>4, <3>6
  <2>6. UNION {{t.page[p].kv[i].val : i \in 1..Len(t.page[p].kv)} : p \in I} = L(n)
    <3>. HIDE DEF L
    <3>. QED  BY <2>4, <2>5
  <2>. HIDE DEF L
  <2>. QED  BY <2>0, <2>1, <2>2, <2>6
<1>7. \A n \in 0..MaxPages : n \in S
  <2>. HIDE DEF S
  <2>. QED  BY <1>0, <1>5, <1>6, UpTo
<1>8. \A n \in 0..MaxPages : f[n] = L(n)
  BY <1>7
<1>9. \A p \in T : \E n \in 0..MaxPages : p \in L(n)
  <2>. SUFFICES ASSUME NEW p \in T  PROVE \E n \in 0..MaxPages : p \in L(n)
    OBVIOUS
  <2>1. lv[p] \in Nat /\ lv[p] <= lv[1]
    BY <1>0
  <2>2. lv[1] - lv[p] \in 0..MaxPages /\ lv[p] = lv[1] - (lv[1] - lv[p])
    BY <1>0, <2>1
  <2>. QED  BY <2>2
<1>10. \A n : L(n) \subseteq T
  OBVIOUS
<1>11. iterate(t) = T
  <2>. HIDE DEF L
  <2>. QED  BY <1>2, <1>8, <1>9, <1>10
<1>. QED  BY <1>1, <1>11 DEF Leaves

\* Every key is in the range of a leaf.
LEMMA LeafOf ==
    ASSUME NEW t, NEW T, NEW lv, NEW lo, NEW M, NEW full, Shape(t.page, T, lv, lo, M, 0, full), NEW k \in 1..absoluteMax
    PROVE  \E p \in T : lv[p] = 0 /\ lo[p] < k /\ k <= Top(t.page[p].kv)
<1>. DEFINE N == lv[1]
            S == {n \in 0..N : \E p \in T : lv[p] = N - n /\ lo[p] < k /\ k <= Top(t.page[p].kv)}
<1>0. 1 \in T /\ N \in Nat /\ lv \in [T -> Nat] /\ lo[1] = 0 /\ Top(t.page[1].kv) = absoluteMax /\ absoluteMax \in Nat /\ k \in Nat
  BY TreeConstants DEF Shape, ShapeType, Rooted
<1>1. 0 \in S
  <2>1. lv[1] = N - 0 /\ lo[1] < k /\ k <= Top(t.page[1].kv) /\ 0 \in 0..N
    BY <1>0
  <2>. QED  BY <1>0, <2>1
<1>. HIDE DEF N
<1>2. ASSUME NEW n \in 1..N, n - 1 \in S  PROVE n \in S
  <2>1. PICK p \in T : lv[p] = N - (n - 1) /\ lo[p] < k /\ k <= Top(t.page[p].kv)
    BY <1>2
  <2>2. lv[p] # 0 /\ n \in 0..N /\ n \in Nat
    BY <1>0, <2>1
  <2>. DEFINE c == Child(t, p, k)
              s == search(t.page[p], k)
  <2>3. GoesOn(t.page, T, lv, lo, p, k, s, c)
    BY <1>0, <2>1, <2>2, ChildIs
  <2>. HIDE DEF c, s
  <2>4. c \in T /\ lv[c] = lv[p] - 1 /\ lo[c] < k /\ k <= Top(t.page[c].kv)
    BY <2>3 DEF GoesOn
  <2>5. lv[c] = N - n
    BY <1>0, <2>1, <2>2, <2>4
  <2>. QED  BY <2>2, <2>4, <2>5
<1>3. N \in S
  <2>1. \A m \in 0..N : m \in S
    <3>. HIDE DEF S
    <3>. QED  BY <1>0, <1>1, <1>2, UpTo
  <2>2. N \in 0..N
    BY <1>0
  <2>. HIDE DEF S
  <2>. QED  BY <2>1, <2>2
<1>4. N - N = 0
  BY <1>0
<1>. QED  BY <1>3, <1>4

\* The leaves have as many pairs as there are keys.
LEMMA KeysInIs ==
    ASSUME NEW t, NEW T, NEW lv, NEW lo, NEW M, NEW full, Shape(t.page, T, lv, lo, M, 0, full), lv[1] <= MaxPages
    PROVE  KeysIn(t, Leaves(t)) = Cnt(M, 0, absoluteMax)
<1>. DEFINE L == {p \in T : lv[p] = 0}
            U == UNION {{p} \X (1..Len(t.page[p].kv)) : p \in L}
            A == {k \in (0 + 1)..absoluteMax : M[k] # -1}
            Key(p, i) == t.page[p].kv[i].key
            g == [k \in A |-> CHOOSE x \in U : Key(x[1], x[2]) = k]
<1>0. absoluteMax \in Nat /\ ShapeType(t.page, T, lv, lo, M) /\ \A p \in T : Node(t.page, T, lv, lo, M, 0, p)
  BY ShapeNode, TreeConstants
<1>1. KeysIn(t, Leaves(t)) = Cardinality(U)
  <2>1. Leaves(t) = L
    BY IterateIs
  <2>. HIDE DEF L
  <2>. QED  BY <2>1 DEF KeysIn
<1>2. \A x \in U : \E p \in L : \E i \in 1..Len(t.page[p].kv) : x = <<p, i>>
  OBVIOUS
<1>3. \A p \in L : \A i \in 1..Len(t.page[p].kv) : <<p, i>> \in U
  OBVIOUS
<1>4. \A p \in L : \A i \in 1..Len(t.page[p].kv) : Key(p, i) \in A
  <2>. SUFFICES ASSUME NEW p \in L, NEW i \in 1..Len(t.page[p].kv)  PROVE Key(p, i) \in A
    OBVIOUS
  <2>1. p \in T /\ lv[p] = 0 /\ Node(t.page, T, lv, lo, M, 0, p)
    BY <1>0
  <2>2. Key(p, i) \in 1..absoluteMax /\ t.page[p].kv[i].val \in Nat
    BY <1>0, <2>1, NodeFacts
  <2>3. M[Key(p, i)] = t.page[p].kv[i].val
    BY <2>1 DEF Node, Contents
  <2>4. M[Key(p, i)] # -1
    BY <2>2, <2>3
  <2>5. 0 + 1 = 1
    OBVIOUS
  <2>. QED  BY <2>2, <2>4, <2>5
<1>5. \A k \in A : \E p \in L : \E i \in 1..Len(t.page[p].kv) : Key(p, i) = k
  <2>. SUFFICES ASSUME NEW k \in A  PROVE \E p \in L : \E i \in 1..Len(t.page[p].kv) : Key(p, i) = k
    OBVIOUS
  <2>0. k \in 1..absoluteMax /\ M[k] # -1 /\ k \in Nat
    BY <1>0
  <2>1. PICK p \in T : lv[p] = 0 /\ lo[p] < k /\ k <= Top(t.page[p].kv)
    BY <2>0, LeafOf
  <2>2. Node(t.page, T, lv, lo, M, 0, p)
    BY <1>0
  <2>3. lo[p] \in Nat /\ Top(t.page[p].kv) \in Nat
    BY <1>0, <2>2, NodeFacts
  <2>4. k \in (lo[p] + 1)..Top(t.page[p].kv)
    BY <2>0, <2>1, <2>3
  <2>5. \E i \in 1..Len(t.page[p].kv) : t.page[p].kv[i].key = k
    BY <2>0, <2>1, <2>2, <2>4 DEF Node, Contents
  <2>. QED  BY <2>1, <2>5
<1>6. ASSUME NEW p \in L, NEW i \in 1..Len(t.page[p].kv), NEW q \in L, NEW j \in 1..Len(t.page[q].kv), Key(p, i) = Key(q, j)
      PROVE  p = q /\ i = j
  <2>1. p \in T /\ q \in T /\ lv[p] = 0 /\ lv[q] = 0 /\ Node(t.page, T, lv, lo, M, 0, p) /\ Node(t.page, T, lv, lo, M, 0, q)
    BY <1>0
  <2>2. /\ Top(t.page[p].kv) \in Nat /\ lo[p] \in Nat /\ Key(p, i) \in Nat /\ lo[p] < Key(p, i) /\ Key(p, i) <= Top(t.page[p].kv)
        /\ Up(t.page[p].kv) /\ Len(t.page[p].kv) \in Nat
    BY <1>0, <2>1, NodeFacts
  <2>3. /\ Top(t.page[q].kv) \in Nat /\ lo[q] \in Nat /\ Key(q, j) \in Nat /\ lo[q] < Key(q, j) /\ Key(q, j) <= Top(t.page[q].kv)
    BY <1>0, <2>1, NodeFacts
  <2>4. p = q
    <3>. SUFFICES ASSUME p # q  PROVE FALSE
      OBVIOUS
    <3>1. Top(t.page[p].kv) <= lo[q] \/ Top(t.page[q].kv) <= lo[p]
      BY <2>1 DEF Shape, Apart
    <3>. HIDE DEF Key
    <3>. QED  BY <1>6, <2>2, <2>3, <3>1
  <2>5. ~(i < j) /\ ~(j < i)
    <3>1. j \in 1..Len(t.page[p].kv) /\ t.page[p].kv[i].key = t.page[p].kv[j].key
      BY <1>6, <2>4
    <3>. QED  BY <2>2, <3>1 DEF Up
  <2>6. i \in Int /\ j \in Int
    BY <2>2, <2>4
  <2>. QED  BY <2>4, <2>5, <2>6
<1>. HIDE DEF L, U, Key
<1>7. \A k \in A : g[k] \in U /\ Key(g[k][1], g[k][2]) = k
  <2>. SUFFICES ASSUME NEW k \in A  PROVE g[k] \in U /\ Key(g[k][1], g[k][2]) = k
    OBVIOUS
  <2>. HIDE DEF A
  <2>1. PICK p \in L : \E i \in 1..Len(t.page[p].kv) : Key(p, i) = k
    BY <1>5
  <2>2. PICK i \in 1..Len(t.page[p].kv) : Key(p, i) = k
    BY <2>1
  <2>3. <<p, i>> \in U /\ <<p, i>>[1] = p /\ <<p, i>>[2] = i
    BY <1>3
  <2>. DEFINE x == <<p, i>>
  <2>4. x \in U /\ Key(x[1], x[2]) = k
    BY <2>2, <2>3
  <2>. HIDE DEF x
  <2>5. \E y \in U : Key(y[1], y[2]) = k
    BY <2>4
  <2>. QED  BY <2>5
<1>8. g \in Bijection(A, U)
  <2>. HIDE DEF A
  <2>1. g = [k \in A |-> g[k]] /\ DOMAIN g = A
    OBVIOUS
  <2>. HIDE DEF g
  <2>2. g \in [A -> U]
    BY <1>7, <2>1
  <2>3. \A k, m \in A : g[k] = g[m] => k = m
    BY <1>7
  <2>4. ASSUME NEW x \in U  PROVE \E k \in A : g[k] = x
    <3>1. PICK p \in L : \E i \in 1..Len(t.page[p].kv) : x = <<p, i>>
      BY <1>2
    <3>2. PICK i \in 1..Len(t.page[p].kv) : x = <<p, i>>
      BY <3>1
    <3>. DEFINE k == Key(p, i)
    <3>3. k \in A
      BY <1>4
    <3>. HIDE DEF k
    <3>4. g[k] \in U /\ Key(g[k][1], g[k][2]) = k
      BY <1>7, <3>3
    <3>5. PICK q \in L : \E j \in 1..Len(t.page[q].kv) : g[k] = <<q, j>>
      BY <1>2, <3>4
    <3>6. PICK j \in 1..Len(t.page[q].kv) : g[k] = <<q, j>>
      BY <3>5
    <3>7. Key(q, j) = Key(p, i)
      BY <3>4, <3>6 DEF k
    <3>8. q = p /\ j = i
      BY <1>6, <3>7
    <3>. QED  BY <3>2, <3>3, <3>6, <3>8
  <2>. QED  BY <2>1, <2>2, <2>3, <2>4 DEF Bijection, Injection, Surjection, IsInjective
<1>9. IsFiniteSet(A) /\ Cnt(M, 0, absoluteMax) = Cardinality(A)
  BY <1>0, CntType DEF Cnt
<1>10. Cardinality(A) = Cardinality(U)
  <2>1. ExistsBijection(A, U)
    BY <1>8 DEF ExistsBijection
  <2>. HIDE DEF A
  <2>. QED  BY <1>9, <2>1, FS_Bijection
<1>. QED  BY <1>1, <1>9, <1>10

-----------------------------------------------------------------------------
(* IterateKV *)

\* What IterateKV makes of a value
Higher(x, v) == IF x = -1 \/ x = 0 \/ ~(x < v) THEN x ELSE v

\* The values of pairs kv are raised.
Iterates(n, v, r) ==
    /\ r \in Page /\ r.id = n.id /\ r.leaf = n.leaf /\ Len(r.kv) = Len(n.kv)
    /\ \A i \in 1..Len(n.kv) : r.kv[i].key = n.kv[i].key /\ r.kv[i].val = Higher(n.kv[i].val, v)

\* What IterateKV does to a leaf: values below v are raised, and zeros left alone
LEMMA IteratedIs ==
    ASSUME NEW n \in Page, NEW v \in Nat, v # 0
    PROVE  Iterates(n, v, IteratedPage(n, v))
<1>. DEFINE kv == n.kv
            r == [i \in DOMAIN kv |-> IteratedPair(kv[i], v)]
<1>0. kv \in KVs /\ Len(kv) \in Nat /\ DOMAIN kv = 1..Len(kv) /\ \A i \in 1..Len(kv) : kv[i] \in Pairs /\ kv[i].key \in Nat /\ kv[i].val \in Nat
  BY KVType DEF Page
<1>1. ASSUME NEW e \in Pairs
      PROVE  IteratedPair(e, v) \in Pairs /\ IteratedPair(e, v).key = e.key /\ IteratedPair(e, v).val = Higher(e.val, v)
  <2>1. e.key \in Nat /\ e.val \in Nat
    BY DEF Pairs
  <2>2. CASE e.val = 0 \/ ~(e.val < v)
    <3>1. IteratedPair(e, v) = e
      BY <2>2 DEF IteratedPair, Raised
    <3>2. Higher(e.val, v) = e.val
      BY <2>2 DEF Higher
    <3>. QED  BY <3>1, <3>2
  <2>3. CASE ~(e.val = 0 \/ ~(e.val < v))
    <3>1. IteratedPair(e, v) = Pair(e.key, v)
      BY <2>3 DEF IteratedPair, Raised
    <3>2. Higher(e.val, v) = v
      BY <2>1, <2>3 DEF Higher
    <3>. QED  BY <2>1, <3>1, <3>2, PairType
  <2>. QED  BY <2>2, <2>3
<1>2. \A i \in 1..Len(kv) : r[i] \in Pairs /\ r[i].key = kv[i].key /\ r[i].val = Higher(kv[i].val, v)
  BY <1>0, <1>1
<1>3. r \in KVs /\ Len(r) = Len(kv)
  <2>1. r = [i \in 1..Len(kv) |-> r[i]]
    BY <1>0
  <2>. HIDE DEF r
  <2>2. r \in [1..Len(kv) -> Pairs]
    BY <1>2, <2>1
  <2>. QED  BY <1>0, <2>2 DEF KVs
<1>4. IteratedPage(n, v) = [n EXCEPT !.kv = r]
  BY DEF IteratedPage
<1>. HIDE DEF r
<1>5. [n EXCEPT !.kv = r] \in Page /\ [n EXCEPT !.kv = r].id = n.id /\ [n EXCEPT !.kv = r].leaf = n.leaf /\ [n EXCEPT !.kv = r].kv = r
  BY <1>3 DEF Page
<1>. QED  BY <1>2, <1>3, <1>4, <1>5 DEF Iterates

HigherTable(M, v) == [k \in 1..absoluteMax |-> Higher(M[k], v)]

\* With each leaf iterated, the tree has the table in which values below v are raised.
LEMMA IterateShape ==
    ASSUME NEW pg, NEW T, NEW lv, NEW lo, NEW M, Shape(pg, T, lv, lo, M, 0, 0), NEW v \in Vals, NEW pg2 \in PageMaps,
           \A p \in T : IF lv[p] = 0 THEN Iterates(pg[p], v, pg2[p]) ELSE pg2[p] = pg[p]
    PROVE  Shape(pg2, T, lv, lo, HigherTable(M, v), 0, 0)
<1>. DEFINE M2 == HigherTable(M, v)
<1>0. ShapeType(pg, T, lv, lo, M) /\ \A q \in T : Node(pg, T, lv, lo, M, 0, q)
  BY ShapeNode
<1>1. M \in Tables /\ v \in Nat /\ v # 0 /\ absoluteMax \in Nat
  BY <1>0, TreeConstants DEF ShapeType
<1>2. M2 \in Tables /\ \A k \in 1..absoluteMax : M2[k] = Higher(M[k], v) /\ (M2[k] = -1 <=> M[k] = -1)
  <2>1. \A k \in 1..absoluteMax : M2[k] = Higher(M[k], v)
    BY DEF HigherTable
  <2>2. \A k \in 1..absoluteMax : M[k] \in Vals \cup {0, -1}
    BY <1>1 DEF Tables
  <2>3. \A k \in 1..absoluteMax : Higher(M[k], v) \in Vals \cup {0, -1} /\ (Higher(M[k], v) = -1 <=> M[k] = -1)
    <3>1. v # -1
      BY <1>1
    <3>. QED  BY <2>2, <3>1 DEF Higher
  <2>4. M2 \in Tables
    BY <2>1, <2>3 DEF Tables, HigherTable
  <2>. QED  BY <2>1, <2>3, <2>4
<1>. HIDE DEF M2
<1>3. ASSUME NEW p \in T
      PROVE  /\ Len(pg2[p].kv) = Len(pg[p].kv) /\ pg2[p].leaf = pg[p].leaf
             /\ \A i \in 1..Len(pg[p].kv) : pg2[p].kv[i].key = pg[p].kv[i].key
             /\ lv[p] # 0 => pg2[p] = pg[p]
             /\ lv[p] = 0 => \A i \in 1..Len(pg[p].kv) : pg2[p].kv[i].val = Higher(pg[p].kv[i].val, v)
  <2>1. CASE lv[p] = 0
    BY <2>1 DEF Iterates
  <2>2. CASE lv[p] # 0
    BY <2>2
  <2>. QED  BY <2>1, <2>2
<1>4. \A p \in T : Top(pg2[p].kv) = Top(pg[p].kv)
  <2>. SUFFICES ASSUME NEW p \in T  PROVE Top(pg2[p].kv) = Top(pg[p].kv)
    OBVIOUS
  <2>1. Node(pg, T, lv, lo, M, 0, p)
    BY <1>0
  <2>2. Len(pg[p].kv) \in 1..Len(pg[p].kv)
    BY <1>0, <2>1, NodeFacts
  <2>. QED  BY <1>3, <2>2 DEF Top
<1>5. ASSUME NEW p \in T  PROVE Node(pg2, T, lv, lo, M2, 0, p)
  <2>0. Node(pg, T, lv, lo, M, 0, p)
    BY <1>0
  <2>1. pg2[p].leaf <=> lv[p] = 0
    BY <1>3, <2>0 DEF Node
  <2>2. CASE lv[p] # 0
    <3>1. pg2[p] = pg[p] /\ Ordered(pg[p].kv, lo[p])
      BY <1>3, <2>0, <2>2 DEF Node
    <3>2. ASSUME NEW i \in 1..Len(pg[p].kv)  PROVE Entry(pg2, T, lv, lo, M2, 0, p, i)
      <4>. DEFINE c == pg[p].kv[i].val
      <4>1. c \in T /\ lv[c] = lv[p] - 1 /\ Top(pg[c].kv) = pg[p].kv[i].key /\ lo[c] = Above(pg[p].kv, lo[p], i)
        BY <2>2, ChildrenAre
      <4>2. Top(pg2[c].kv) = Top(pg[c].kv)
        BY <1>4, <4>1
      <4>. QED  BY <3>1, <4>1, <4>2 DEF Entry
    <3>. QED  BY <2>1, <2>2, <3>1, <3>2 DEF Node
  <2>3. CASE lv[p] = 0
    <3>0. Ordered(pg[p].kv, lo[p]) /\ Contents(pg[p].kv, lo[p], M)
      BY <2>0, <2>3 DEF Node
    <3>1. /\ lo[p] \in Nat /\ Top(pg[p].kv) \in Nat /\ Top(pg[p].kv) <= absoluteMax /\ 1 \in 1..Len(pg[p].kv)
          /\ \A i \in 1..Len(pg[p].kv) : pg[p].kv[i].key \in 1..absoluteMax
      BY <1>0, <2>0, NodeFacts
    <3>2. Ordered(pg2[p].kv, lo[p])
      <4>1. Up(pg2[p].kv)
        BY <1>3, <3>0 DEF Ordered, Up
      <4>. QED  BY <1>3, <1>4, <3>0, <3>1, <4>1 DEF Ordered
    <3>3. \A i \in 1..Len(pg2[p].kv) : M2[pg2[p].kv[i].key] = pg2[p].kv[i].val
      <4>. SUFFICES ASSUME NEW i \in 1..Len(pg2[p].kv)  PROVE M2[pg2[p].kv[i].key] = pg2[p].kv[i].val
        OBVIOUS
      <4>1. /\ i \in 1..Len(pg[p].kv) /\ pg2[p].kv[i].key = pg[p].kv[i].key
            /\ pg2[p].kv[i].val = Higher(pg[p].kv[i].val, v)
        BY <1>3, <2>3
      <4>2. M[pg[p].kv[i].key] = pg[p].kv[i].val
        BY <3>0, <4>1 DEF Contents
      <4>3. M2[pg[p].kv[i].key] = Higher(M[pg[p].kv[i].key], v)
        BY <1>2, <3>1, <4>1
      <4>. QED  BY ONLY <4>1, <4>2, <4>3
    <3>4. ASSUME NEW k \in (lo[p] + 1)..Top(pg2[p].kv), M2[k] # -1  PROVE \E i \in 1..Len(pg2[p].kv) : pg2[p].kv[i].key = k
      <4>1. k \in (lo[p] + 1)..Top(pg[p].kv) /\ k \in 1..absoluteMax
        BY <1>1, <1>4, <3>1
      <4>2. M[k] # -1
        BY <1>2, <3>4, <4>1
      <4>3. \E i \in 1..Len(pg[p].kv) : pg[p].kv[i].key = k
        BY <3>0, <4>1, <4>2 DEF Contents
      <4>. QED  BY <1>3, <4>3
    <3>5. Contents(pg2[p].kv, lo[p], M2)
      BY <3>3, <3>4 DEF Contents
    <3>. QED  BY <2>1, <2>3, <3>2, <3>5 DEF Node
  <2>. QED  BY <2>2, <2>3
<1>6. Apart(pg2, T, lv, lo)
  BY <1>4 DEF Shape, Apart
<1>7. ASSUME NEW c \in T, c # 1  PROVE HasParent(pg2, T, lv, c)
  <2>1. PICK q \in T : lv[q] # 0 /\ \E i \in 1..Len(pg[q].kv) : pg[q].kv[i].val = c
    BY <1>7 DEF Shape, HasParent
  <2>. QED  BY <1>3, <2>1 DEF HasParent
<1>8. Rooted(pg2, T, lv, lo)
  BY <1>4 DEF Shape, Rooted
<1>9. Sizes(pg2, T, 0)
  <2>1. Sizes(pg, T, 0)
    BY DEF Shape
  <2>. QED  BY <1>3, <2>1 DEF Sizes
<1>10. ShapeType(pg2, T, lv, lo, M2)
  BY <1>0, <1>2 DEF ShapeType
<1>. QED  BY <1>5, <1>6, <1>7, <1>8, <1>9, <1>10 DEF Shape, M2

\* IterateKV takes a tree that holds M to one that holds M with its values raised.
LEMMA IterateKVIs ==
    ASSUME NEW t, NEW M, NEW E, IsTree(t, M, E), NEW v \in Vals
    PROVE  /\ IsTree(IterateKV(t, v), HigherTable(M, v), E) /\ IterateKV(t, v).leafKeys = t.leafKeys
           /\ M \in Tables /\ Cnt(HigherTable(M, v), 0, absoluteMax) = Cnt(M, 0, absoluteMax)
<1>1. PICK T, lv, lo, F : Shape(t.page, T, lv, lo, M, 0, 0) /\ Store(t, T, F) /\ E = Fen(t.page, T, lv)
  BY DEF IsTree
<1>. DEFINE L == {p \in T : lv[p] = 0}
            pg == [p \in Pids |-> IF p \in L THEN IteratedPage(t.page[p], v) ELSE t.page[p]]
            u == IterateKV(t, v)
            M2 == HigherTable(M, v)
<1>2. lv[1] <= MaxPages
  BY <1>1, LevelsBound
<1>3. Leaves(t) = L
  BY <1>1, <1>2, IterateIs
<1>4. t \in Trees /\ t.page \in PageMaps /\ T \subseteq Pids /\ T \cap Ran(F) = {} /\ Ran(F) \subseteq Pids
      /\ \A p \in Pids : t.page[p] \in Page
  <2>1. t \in Trees /\ T \subseteq Pids /\ T \cap Ran(F) = {}
    BY <1>1, StoreFacts
  <2>2. Ran(F) \subseteq Pids
    BY <1>1, StoreFacts
  <2>. QED  BY <2>1, <2>2, TreeFields
<1>5. v \in Nat /\ v # 0 /\ v # -1 /\ M \in Tables /\ absoluteMax \in Nat
  BY <1>1, TreeConstants DEF Shape, ShapeType
<1>6. u = [t EXCEPT !.page = pg]
  BY <1>3 DEF IterateKV
<1>7. \A p \in Pids : Iterates(t.page[p], v, IteratedPage(t.page[p], v))
  BY <1>4, <1>5, IteratedIs
<1>8. \A p \in Pids : pg[p] = IF p \in L THEN IteratedPage(t.page[p], v) ELSE t.page[p]
  OBVIOUS
<1>9. pg \in PageMaps
  <2>1. \A p \in Pids : pg[p] \in Page
    <3>. HIDE DEF pg
    <3>. QED  BY <1>4, <1>7, <1>8 DEF Iterates
  <2>2. pg = [p \in Pids |-> pg[p]]
    OBVIOUS
  <2>. HIDE DEF pg
  <2>. QED  BY <2>1, <2>2 DEF PageMaps
<1>. HIDE DEF pg, u, L
<1>10. SameStore(t, u) /\ u.page = pg /\ u.leafKeys = t.leafKeys
  BY <1>4, <1>6, <1>9, WithPage
<1>11. \A p \in T : IF lv[p] = 0 THEN Iterates(t.page[p], v, pg[p]) ELSE pg[p] = t.page[p]
  BY <1>4, <1>7, <1>8 DEF L
<1>12. Shape(u.page, T, lv, lo, M2, 0, 0)
  BY <1>1, <1>9, <1>10, <1>11, IterateShape
<1>13. Store(u, T, F)
  <2>1. \A p \in Pids : u.page[p].id = t.page[p].id
    BY <1>7, <1>8, <1>10 DEF Iterates
  <2>2. \A p \in Ran(F) : u.page[p] = t.page[p]
    BY <1>4, <1>8, <1>10 DEF L
  <2>. QED  BY <1>1, <1>10, <2>1, <2>2, StoreKeeps
<1>16. Fen(u.page, T, lv) = E
  <2>1. ASSUME NEW p \in T, lv[p] = 0  PROVE Top(u.page[p].kv) = Top(t.page[p].kv)
    <3>1. Iterates(t.page[p], v, u.page[p])
      BY <1>10, <1>11, <2>1
    <3>2. Len(t.page[p].kv) \in 1..Len(t.page[p].kv)
      BY <1>1, ShapeNode, NodeFacts
    <3>. QED  BY <3>1, <3>2 DEF Iterates, Top
  <2>. QED  BY <1>1, <2>1, FenSame
<1>14. IsTree(u, M2, E)
  BY <1>12, <1>13, <1>16 DEF IsTree
<1>15. Cnt(M2, 0, absoluteMax) = Cnt(M, 0, absoluteMax)
  <2>1. \A k \in (0 + 1)..absoluteMax : k \in 1..absoluteMax
    BY <1>5
  <2>2. \A k \in 1..absoluteMax : M2[k] # -1 <=> M[k] # -1
    BY <1>5 DEF HigherTable, Higher
  <2>3. \A k \in (0 + 1)..absoluteMax : M2[k] # -1 <=> M[k] # -1
    BY <2>1, <2>2
  <2>. HIDE DEF M2
  <2>. QED  BY <1>5, <2>3, CntSame
<1>. QED  BY <1>5, <1>10, <1>14, <1>15 DEF u

-----------------------------------------------------------------------------
(* Opening a file, and the free list *)

\* A free list without repetition has as many pages as entries.
LEMMA RanCard ==
    ASSUME NEW F \in Seq(Pids), \A i, j \in 1..Len(F) : F[i] = F[j] => i = j
    PROVE  Cardinality(Ran(F)) = Len(F) /\ Len(F) \in Nat /\ Len(F) <= MaxPages
<1>. DEFINE N == Len(F)
            R == Ran(F)
<1>0. N \in Nat /\ F \in [1..N -> Pids] /\ DOMAIN F = 1..N /\ MaxPages \in Nat
  BY TreeConstants
<1>1. R = {F[i] : i \in 1..N} /\ R \subseteq Pids
  BY <1>0 DEF Ran
<1>2. F \in Bijection(1..N, R)
  <2>1. F = [i \in 1..N |-> F[i]]
    BY <1>0
  <2>2. F \in [1..N -> R]
    <3>. HIDE DEF R
    <3>. QED  BY <1>1, <2>1
  <2>3. \A r \in R : \E i \in 1..N : F[i] = r
    BY <1>1
  <2>. HIDE DEF N, R
  <2>. QED  BY <1>0, <2>2, <2>3 DEF N, Bijection, Injection, Surjection, IsInjective
<1>3. IsFiniteSet(1..N) /\ Cardinality(1..N) = N /\ IsFiniteSet(Pids) /\ Cardinality(Pids) = MaxPages
  BY <1>0, CardUpTo DEF Pids
<1>4. Cardinality(R) = N
  <2>1. ExistsBijection(1..N, R)
    BY <1>2 DEF ExistsBijection
  <2>. HIDE DEF N, R
  <2>. QED  BY <1>3, <2>1, FS_Bijection
<1>5. Cardinality(R) <= Cardinality(Pids)
  <2>. HIDE DEF R
  <2>. QED  BY <1>1, <1>3, FS_Subset
<1>. QED  BY <1>0, <1>3, <1>4, <1>5

\* Opening the file changes the size of the data only.
LEMMA OpenedIs ==
    ASSUME NEW t, NEW T, NEW F, Store(t, T, F)
    PROVE  /\ Store(Opened(t), T, F) /\ Opened(t).page = t.page
<1>. DEFINE d == t.file - padding
            u == Opened(t)
<1>1. t \in Trees /\ t.data \in Nat /\ t.file \in Nat /\ padding \in Nat /\ pageSize \in Nat
  BY StoreFacts, TreeFields, TreeConstants
<1>2. t.nextPage * pageSize <= t.data /\ padding + t.data <= t.file /\ t.nextPage \in Nat
  BY StoreFacts DEF Store, Sized
<1>. DEFINE m == t.nextPage * pageSize
<1>3. m \in Nat
  BY <1>1, <1>2
<1>. HIDE DEF m
<1>4. d \in Nat /\ m <= d /\ padding + d <= t.file
  BY <1>1, <1>2, <1>3 DEF m
<1>. HIDE DEF d
<1>5. /\ u \in Trees /\ u.page = t.page /\ u.nextPage = t.nextPage /\ u.freePage = t.freePage
      /\ u.pagesFree = t.pagesFree /\ u.data = d /\ u.file = t.file
  BY <1>1, <1>4 DEF Opened, Trees, d
<1>. HIDE DEF u
<1>6. FreeIs(u, F) /\ Owned(u, T, F)
  BY <1>5 DEF Store, FreeIs, Owned
<1>7. Sized(u)
  BY <1>4, <1>5 DEF Store, Sized, m
<1>. QED  BY <1>5, <1>6, <1>7 DEF Store, u

\* reinit finds nextPage again: ids are set up to it, and the data reach it.
LEMMA PastLastIs ==
    ASSUME NEW t, NEW T, NEW F, Store(t, T, F)
    PROVE  PastLast(t) = t.nextPage
<1>. DEFINE n == t.nextPage
            S == {p \in 1..MaxPages : p * pageSize >= t.data \/ t.page[p].id = 0}
<1>0. n \in Pids /\ n \in Nat /\ n >= 1 /\ n <= MaxPages /\ MaxPages \in Nat /\ t.data \in Nat /\ pageSize \in Nat /\ pageSize > 0
      /\ n * pageSize <= t.data /\ \A p \in Pids : t.page[p].id = IF p < n THEN p ELSE 0
  <2>1. t \in Trees /\ n \in Pids /\ n \in Nat /\ n >= 1 /\ n <= MaxPages
    BY StoreFacts
  <2>2. t.data \in Nat
    BY <2>1, TreeFields
  <2>3. MaxPages \in Nat /\ pageSize \in Nat /\ pageSize > 0
    BY TreeConstants
  <2>4. n * pageSize <= t.data
    BY DEF Store, Sized
  <2>5. \A p \in Pids : t.page[p].id = IF p < n THEN p ELSE 0
    BY DEF Store, Owned
  <2>. QED  BY <2>1, <2>2, <2>3, <2>4, <2>5
<1>1. n \in S
  BY <1>0 DEF Pids
<1>2. ASSUME NEW p \in S  PROVE n <= p
  <2>. SUFFICES ASSUME p < n  PROVE FALSE
    BY <1>0
  <2>1. p \in Nat /\ p >= 1 /\ p \in Pids /\ (p * pageSize >= t.data \/ t.page[p].id = 0)
    BY <1>0 DEF Pids
  <2>2. t.page[p].id = p
    BY <1>0, <2>1
  <2>3. p * pageSize >= t.data
    BY <2>1, <2>2
  <2>. DEFINE d == n - p
  <2>4. d \in Nat /\ d >= 1 /\ n = p + d
    BY <1>0, <2>1
  <2>. HIDE DEF d
  <2>5. n * pageSize = p * pageSize + d * pageSize
    BY <1>0, <2>1, <2>4
  <2>6. d * pageSize >= 1 /\ p * pageSize \in Nat /\ d * pageSize \in Nat
    BY <1>0, <2>1, <2>4
  <2>. QED  BY <1>0, <2>3, <2>5, <2>6
<1>3. \A x \in S : (\A y \in S : x <= y) => x = n
  <2>. SUFFICES ASSUME NEW x \in S, \A y \in S : x <= y  PROVE x = n
    OBVIOUS
  <2>1. x <= n /\ n <= x /\ x \in Nat
    BY <1>0, <1>1, <1>2
  <2>. QED  BY <1>0, <2>1
<1>4. Min(S) = n
  <2>. HIDE DEF S
  <2>1. \E x \in S : \A y \in S : x <= y
    BY <1>1, <1>2
  <2>. QED  BY <1>3, <2>1 DEF Min
<1>. QED  BY <1>4 DEF PastLast

\* The first page of the free list is the one that no other points to.
LEMMA FreeHeadIs ==
    ASSUME NEW t, NEW T, NEW F, Store(t, T, F), NEW free, free = Ran(F), NEW pointed,
           pointed = {t.page[p].kv[1].key : p \in free}
    PROVE  FreeHead(t, free, pointed) = t.freePage
<1>0. /\ F \in Seq(Pids) /\ Len(F) \in Nat /\ \A i \in 1..Len(F) : F[i] \in Pids /\ F[i] \in free
      /\ \A p \in free : \E i \in 1..Len(F) : p = F[i]
  BY StoreFacts
<1>1. /\ \A i, j \in 1..Len(F) : F[i] = F[j] => i = j
      /\ t.freePage = Nth(F, 1)
      /\ \A i \in 1..Len(F) : t.page[F[i]].kv[1].key = Nth(F, i + 1)
  BY DEF Store, FreeIs
<1>2. CASE Len(F) = 0
  <2>1. free = {} /\ free \ pointed = {}
    BY <1>0, <1>2
  <2>. QED  BY <1>1, <1>2, <2>1 DEF FreeHead, Nth
<1>3. CASE Len(F) # 0
  <2>1. 1 \in 1..Len(F) /\ t.freePage = F[1]
    BY <1>0, <1>1, <1>3 DEF Nth
  <2>2. F[1] \notin pointed
    <3>. SUFFICES ASSUME F[1] \in pointed  PROVE FALSE
      OBVIOUS
    <3>1. PICK i \in 1..Len(F) : F[1] = Nth(F, i + 1)
      BY <1>0, <1>1
    <3>2. F[1] # 0
      BY <1>0, <2>1, TreeConstants DEF Pids
    <3>3. i + 1 \in 1..Len(F) /\ F[1] = F[i + 1] /\ 1 # i + 1
      BY <1>0, <3>1, <3>2 DEF Nth
    <3>. QED  BY <1>1, <2>1, <3>3
  <2>3. ASSUME NEW p \in free, p # F[1]  PROVE p \in pointed
    <3>1. PICK i \in 1..Len(F) : p = F[i]
      BY <1>0
    <3>2. i \in Nat /\ i # 1 /\ i - 1 \in 1..Len(F) /\ i - 1 + 1 = i
      BY <1>0, <2>3, <3>1
    <3>3. t.page[F[i - 1]].kv[1].key = Nth(F, i)
      BY <1>1, <3>2
    <3>4. Nth(F, i) = p
      BY <1>0, <3>1 DEF Nth
    <3>. QED  BY <1>0, <3>2, <3>3, <3>4
  <2>4. free \ pointed = {F[1]}
    BY <1>0, <2>1, <2>2, <2>3
  <2>5. F[1] \in Nat
    BY <1>0, <2>1, TreeConstants DEF Pids
  <2>6. Min({F[1]}) = F[1]
    BY <2>5 DEF Min
  <2>. QED  BY <2>1, <2>4, <2>6 DEF FreeHead
<1>. QED  BY <1>2, <1>3

\* Opening a file finds the tree, the free list and the counts as they were.
LEMMA ReinitIs ==
    ASSUME NEW t, NEW M, NEW E, IsTree(t, M, E)
    PROVE  IsTree(reinit(Opened(t)), M, E) /\ reinit(Opened(t)).leafKeys = Cnt(M, 0, absoluteMax)
<1>1. PICK T, lv, lo, F : Shape(t.page, T, lv, lo, M, 0, 0) /\ Store(t, T, F) /\ E = Fen(t.page, T, lv)
  BY DEF IsTree
<1>. DEFINE o == Opened(t)
            u == reinit(o)
            free == (1..(PastLast(o) - 1)) \ iterate(o)
            pointed == {o.page[p].kv[1].key : p \in free}
            lk == KeysIn(o, Leaves(o))
<1>2. Store(o, T, F) /\ o.page = t.page
  BY <1>1, OpenedIs
<1>. HIDE DEF o
<1>3. Shape(o.page, T, lv, lo, M, 0, 0)
  BY <1>1, <1>2
<1>4. lv[1] <= MaxPages
  BY <1>2, <1>3, LevelsBound
<1>5. iterate(o) = T /\ lk = Cnt(M, 0, absoluteMax)
  BY <1>3, <1>4, IterateIs, KeysInIs
<1>6. PastLast(o) = o.nextPage
  BY <1>2, PastLastIs
<1>7. free = Ran(F)
  BY <1>2, <1>5, <1>6, StoreFacts
<1>8. u = [o EXCEPT !.nextPage = PastLast(o), !.freePage = FreeHead(o, free, pointed), !.leafKeys = lk,
                    !.pagesFree = Cardinality(free)]
  BY DEF reinit
<1>9. FreeHead(o, free, pointed) = o.freePage
  <2>. DEFINE pt == pointed
              fr == free
  <2>1. pt = {o.page[p].kv[1].key : p \in fr} /\ fr = Ran(F)
    BY <1>7
  <2>. HIDE DEF free, pointed, pt, fr
  <2>2. FreeHead(o, fr, pt) = o.freePage
    BY <1>2, <2>1, FreeHeadIs
  <2>. QED  BY <2>2 DEF pt, fr
<1>10. Cardinality(free) = o.pagesFree
  <2>1. F \in Seq(Pids) /\ (\A i, j \in 1..Len(F) : F[i] = F[j] => i = j) /\ o.pagesFree = Len(F)
    BY <1>2 DEF Store, FreeIs
  <2>2. Cardinality(Ran(F)) = Len(F)
    BY <2>1, RanCard
  <2>. QED  BY <1>7, <2>1, <2>2
<1>. HIDE DEF free, pointed, lk, u
<1>11. o \in Trees /\ lk \in Int
  <2>1. o \in Trees
    BY <1>2, StoreFacts
  <2>2. 0 \in Nat /\ absoluteMax \in Nat
    BY TreeConstants
  <2>3. Cnt(M, 0, absoluteMax) \in Nat
    BY <2>2, CntType
  <2>. QED  BY <1>5, <2>1, <2>3
<1>12. SameStore(o, u) /\ u.page = o.page /\ u.leafKeys = lk
  <2>1. u = [o EXCEPT !.nextPage = o.nextPage, !.freePage = o.freePage, !.leafKeys = lk, !.pagesFree = o.pagesFree]
    BY <1>6, <1>8, <1>9, <1>10
  <2>. QED  BY <1>11, <2>1 DEF Trees, SameStore
<1>13. Store(u, T, F)
  BY <1>2, <1>12, StoreKeeps
<1>14. IsTree(u, M, E) /\ u.leafKeys = Cnt(M, 0, absoluteMax)
  BY <1>1, <1>2, <1>3, <1>5, <1>12, <1>13 DEF IsTree
<1>. QED  BY <1>14 DEF u, o

IsList(f, t) ==
    f = [i \in 0..MaxPages |->
            IF i = 0 THEN t.freePage
            ELSE IF f[i - 1] = 0 THEN 0 ELSE t.page[f[i - 1]].kv[1].key]

\* The recursion of FreeList defines a function.
LEMMA ListExists ==
    ASSUME NEW t
    PROVE  \E f : IsList(f, t)
<1>. DEFINE N == MaxPages
            B(n, h) == IF n = 0 THEN t.freePage ELSE IF h = 0 THEN 0 ELSE t.page[h].kv[1].key
            On(f, m) == f[0] = B(0, 0) /\ \A n \in 1..m : f[n] = B(n, f[n - 1])
            S == {m \in 0..N : \E f : On(f, m)}
<1>0. N \in Nat
  BY TreeConstants
<1>1. \A h : B(0, h) = B(0, 0)
  OBVIOUS
<1>. HIDE DEF B, N
<1>2. 0 \in S
  <2>1. On([n \in 0..0 |-> B(0, 0)], 0)
    OBVIOUS
  <2>2. 0 \in 0..N
    BY <1>0
  <2>. QED  BY <2>1, <2>2
<1>3. ASSUME NEW m \in 1..N, m - 1 \in S  PROVE m \in S
  <2>1. PICK f : On(f, m - 1)
    BY <1>3
  <2>. DEFINE g == [n \in 0..m |-> IF n = m THEN B(m, f[m - 1]) ELSE f[n]]
  <2>2. g[m] = B(m, f[m - 1]) /\ \A n \in 0..(m - 1) : g[n] = f[n]
    BY <1>0
  <2>3. f[0] = B(0, 0) /\ \A n \in 1..(m - 1) : f[n] = B(n, f[n - 1])
    BY <2>1
  <2>4. g[0] = B(0, 0)
    <3>1. 0 \in 0..(m - 1)
      BY <1>0
    <3>. QED  BY <2>2, <2>3, <3>1
  <2>5. ASSUME NEW n \in 1..m  PROVE g[n] = B(n, g[n - 1])
    <3>1. n - 1 \in 0..(m - 1)
      BY <1>0
    <3>2. g[n - 1] = f[n - 1]
      BY <2>2, <3>1
    <3>3. CASE n = m
      BY <2>2, <3>2, <3>3
    <3>4. CASE n # m
      <4>1. n \in 0..(m - 1) /\ n \in 1..(m - 1)
        BY <1>0, <3>4
      <4>2. g[n] = f[n] /\ f[n] = B(n, f[n - 1])
        BY <2>2, <2>3, <4>1
      <4>. QED  BY <3>2, <4>2
    <3>. QED  BY <3>3, <3>4
  <2>6. m \in 0..N
    BY <1>0
  <2>. HIDE DEF g
  <2>. QED  BY <2>4, <2>5, <2>6
<1>4. N \in S
  <2>1. \A k \in 0..N : k \in S
    <3>. HIDE DEF S
    <3>. QED  BY <1>0, <1>2, <1>3, UpTo
  <2>2. N \in 0..N
    BY <1>0
  <2>. HIDE DEF S
  <2>. QED  BY <2>1, <2>2
<1>5. PICK f : f[0] = B(0, 0) /\ \A n \in 1..N : f[n] = B(n, f[n - 1])
  BY <1>4
<1>. DEFINE g == [n \in 0..N |-> f[n]]
<1>6. ASSUME NEW n \in 0..N  PROVE g[n] = B(n, g[n - 1])
  <2>1. CASE n = 0
    <3>1. g[0] = f[0]
      BY <1>0
    <3>. QED  BY <1>1, <1>5, <2>1, <3>1
  <2>2. CASE n # 0
    <3>1. n - 1 \in 0..N /\ n \in 1..N
      BY <1>0, <2>2
    <3>2. g[n - 1] = f[n - 1] /\ g[n] = f[n]
      BY <3>1
    <3>. QED  BY <1>5, <3>1, <3>2
  <2>. QED  BY <2>1, <2>2
<1>7. g = [n \in 0..N |-> B(n, g[n - 1])]
  <2>1. g = [n \in 0..N |-> g[n]]
    OBVIOUS
  <2>. HIDE DEF g
  <2>. QED  BY <1>6, <2>1
<1>8. IsList(g, t)
  <2>. HIDE DEF g
  <2>. QED  BY <1>7 DEF IsList, B, N
<1>. QED  BY <1>8

\* FreeList is the list that the invariant speaks of.
LEMMA FreeListIs ==
    ASSUME NEW t, NEW T, NEW F, Store(t, T, F)
    PROVE  /\ \A i \in 0..MaxPages : FreeList(t)[i] = Nth(F, i + 1)
           /\ Listed(t) = 0..(Len(F) - 1)
<1>. DEFINE f == CHOOSE h : IsList(h, t)
            S == {i \in 0..MaxPages : f[i] = Nth(F, i + 1)}
<1>0. /\ F \in Seq(Pids) /\ Len(F) \in Nat /\ MaxPages \in Nat /\ \A i \in 1..Len(F) : F[i] \in Pids /\ F[i] # 0
      /\ t.freePage = Nth(F, 1)
      /\ \A i \in 1..Len(F) : t.page[F[i]].kv[1].key = Nth(F, i + 1)
      /\ \A i, j \in 1..Len(F) : F[i] = F[j] => i = j
  <2>1. /\ F \in Seq(Pids) /\ Len(F) \in Nat /\ \A i \in 1..Len(F) : F[i] \in Pids
    BY StoreFacts
  <2>2. 0 \notin Pids
    BY TreeConstants DEF Pids
  <2>. QED  BY <2>1, <2>2, TreeConstants DEF Store, FreeIs
<1>1. FreeList(t) = f
  BY DEF FreeList, IsList
<1>2. IsList(f, t)
  <2>1. \E h : IsList(h, t)
    BY ListExists
  <2>. QED  BY <2>1
<1>. HIDE DEF f
<1>3. ASSUME NEW i \in 0..MaxPages
      PROVE  f[i] = IF i = 0 THEN t.freePage ELSE IF f[i - 1] = 0 THEN 0 ELSE t.page[f[i - 1]].kv[1].key
  <2>. DEFINE E(m) == IF m = 0 THEN t.freePage ELSE IF f[m - 1] = 0 THEN 0 ELSE t.page[f[m - 1]].kv[1].key
  <2>1. f = [m \in 0..MaxPages |-> E(m)]
    BY <1>2 DEF IsList
  <2>2. f[i] = E(i)
    <3>. HIDE DEF E
    <3>. QED  BY <2>1
  <2>. QED  BY <2>2
<1>4. 0 \in S
  <2>1. f[0] = Nth(F, 1) /\ 0 \in 0..MaxPages
    BY <1>0, <1>3
  <2>. QED  BY <2>1
<1>5. ASSUME NEW i \in 1..MaxPages, i - 1 \in S  PROVE i \in S
  <2>1. i \in 0..MaxPages /\ i # 0 /\ i \in Nat
    BY <1>0
  <2>2. f[i - 1] = Nth(F, i)
    BY <1>5, <2>1
  <2>3. CASE i <= Len(F)
    <3>1. i \in 1..Len(F) /\ f[i - 1] = F[i]
      BY <1>0, <2>1, <2>2, <2>3 DEF Nth
    <3>2. f[i] = t.page[F[i]].kv[1].key
      BY <1>0, <1>3, <2>1, <3>1
    <3>. QED  BY <1>0, <2>1, <3>1, <3>2
  <2>4. CASE ~(i <= Len(F))
    <3>1. f[i - 1] = 0 /\ Nth(F, i + 1) = 0
      <4>1. ~(i + 1 <= Len(F))
        BY <1>0, <2>1, <2>4
      <4>. QED  BY <2>2, <2>4, <4>1 DEF Nth
    <3>2. f[i] = 0
      BY <1>3, <2>1, <3>1
    <3>. QED  BY <2>1, <3>1, <3>2
  <2>. QED  BY <2>3, <2>4
<1>6. \A i \in 0..MaxPages : i \in S
  <2>. HIDE DEF S
  <2>. QED  BY <1>0, <1>4, <1>5, UpTo
<1>7. \A i \in 0..MaxPages : f[i] = Nth(F, i + 1)
  BY <1>6
<1>8. Len(F) <= MaxPages
  BY <1>0, RanCard
<1>9. ASSUME NEW i \in 0..MaxPages  PROVE f[i] # 0 <=> i \in 0..(Len(F) - 1)
  <2>1. i + 1 <= Len(F) <=> i \in 0..(Len(F) - 1)
    BY <1>0
  <2>2. i + 1 <= Len(F) => i + 1 \in 1..Len(F)
    BY <1>0
  <2>. QED  BY <1>0, <1>7, <2>1, <2>2 DEF Nth
<1>10. 0..(Len(F) - 1) \subseteq 0..MaxPages
  BY <1>0, <1>8
<1>. QED  BY <1>1, <1>7, <1>9, <1>10 DEF Listed

-----------------------------------------------------------------------------
(* A new tree *)

\* The only pair of page n
One(n, k, v) == n \in Page /\ Len(n.kv) = 1 /\ n.kv[1] = Pair(k, v)

\* A page with one pair
LEMMA OneFacts ==
    ASSUME NEW n, NEW k \in Nat, NEW v \in Nat, One(n, k, v)
    PROVE  /\ search(n, k) = 1 /\ Top(n.kv) = k /\ Up(n.kv) /\ n.kv \in KVs /\ 1 \in 1..Len(n.kv)
           /\ n.kv[1].key = k /\ n.kv[1].val = v
<1>1. n.kv \in KVs /\ Len(n.kv) = 1 /\ n.kv[1] = Pair(k, v) /\ Pair(k, v).key = k /\ Pair(k, v).val = v
  BY PairType DEF One, Page
<1>2. Found(n.kv, k, search(n, k))
  BY <1>1, SearchFinds
<1>. DEFINE s == search(n, k)
<1>3. s \in 1..2 /\ ~(1 < s)
  <2>1. s \in 1..(Len(n.kv) + 1) /\ \A i \in 1..Len(n.kv) : i < s => n.kv[i].key < k
    BY <1>2 DEF Found
  <2>. HIDE DEF s
  <2>. QED  BY <1>1, <2>1
<1>4. s = 1
  <2>. HIDE DEF s
  <2>. QED  BY <1>3
<1>5. Up(n.kv)
  <2>1. \A i, j \in 1..1 : ~(i < j)
    OBVIOUS
  <2>. QED  BY <1>1, <2>1 DEF Up
<1>6. Top(n.kv) = k
  BY <1>1 DEF Top
<1>. QED  BY <1>1, <1>4, <1>5, <1>6

\* A page without a pair, and the first pair in it
LEMMA EmptyFacts ==
    ASSUME NEW n \in Page, n.kv = <<>>, NEW k \in Nat, NEW v \in Nat
    PROVE  /\ Len(n.kv) = 0 /\ search(n, k) = 1 /\ ~Has(n, k) /\ Up(n.kv)
           /\ One(nodeSet(n, k, v), k, v) /\ nodeSet(n, k, v).id = n.id /\ nodeSet(n, k, v).leaf = n.leaf
<1>1. Len(n.kv) = 0 /\ n.kv \in KVs /\ 1..0 = {}
  BY DEF Page
<1>2. search(n, k) = 1
  <2>1. {i \in 1..Len(n.kv) : n.kv[i].key >= k} = {}
    BY <1>1
  <2>. QED  BY <1>1, <2>1 DEF search
<1>3. ~Has(n, k)
  BY <1>1, <1>2 DEF Has
<1>4. Up(n.kv)
  BY <1>1 DEF Up
<1>. DEFINE r == nodeSet(n, k, v)
<1>5. r \in Page /\ r.id = n.id /\ r.leaf = n.leaf /\ Appended(n.kv, Pair(k, v), r.kv)
  <2>1. \A i \in 1..Len(n.kv) : n.kv[i].key < k
    BY <1>1
  <2>. HIDE DEF r
  <2>. QED  BY <1>4, <2>1, NodeSetAppend DEF r
<1>6. One(r, k, v)
  <2>. HIDE DEF r
  <2>. QED  BY <1>1, <1>5 DEF Appended, One
<1>. QED  BY <1>1, <1>2, <1>3, <1>4, <1>5, <1>6

\* No key, and no key but the greatest
NoKeys == [k \in 1..absoluteMax |-> -1]
FirstTable == [NoKeys EXCEPT ![absoluteMax] = 0]

\* The table of a new tree has only absoluteMax, with value 0.
LEMMA FirstTableIs ==
    /\ NoKeys \in Tables /\ FirstTable \in Tables /\ Cnt(FirstTable, 0, absoluteMax) = 1
    /\ \A k \in 1..absoluteMax : FirstTable[k] = IF k = absoluteMax THEN 0 ELSE -1
<1>0. absoluteMax \in Nat /\ absoluteMax \in 1..absoluteMax /\ 0 \in Nat /\ absoluteMax \in (0 + 1)..absoluteMax
  BY TreeConstants
<1>1. NoKeys \in Tables /\ FirstTable \in Tables
  BY <1>0 DEF Tables, NoKeys, FirstTable
<1>2. \A k \in 1..absoluteMax : NoKeys[k] = -1 /\ FirstTable[k] = IF k = absoluteMax THEN 0 ELSE -1
  BY <1>0 DEF NoKeys, FirstTable
<1>4. {k \in (0 + 1)..absoluteMax : FirstTable[k] # -1} = {absoluteMax}
  BY <1>0, <1>2
<1>. QED  BY <1>1, <1>2, <1>4, FS_Singleton DEF Cnt

FirstLevels(c) == [p \in {1, c} |-> IF p = 1 THEN 1 ELSE 0]
FirstLows(c) == [p \in {1, c} |-> 0]

\* A root with one leaf that holds absoluteMax has the shape of that table.
LEMMA FirstShape ==
    ASSUME NEW pg \in PageMaps, NEW c \in Pids, c # 1, One(pg[1], absoluteMax, c), ~pg[1].leaf,
           One(pg[c], absoluteMax, 0), pg[c].leaf
    PROVE  /\ Shape(pg, {1, c}, FirstLevels(c), FirstLows(c), FirstTable, 0, 0)
           /\ Fen(pg, {1, c}, FirstLevels(c)) = {absoluteMax}
<1>. DEFINE K == absoluteMax
            T == {1, c}
            lv == FirstLevels(c)
            lo == FirstLows(c)
            M == FirstTable
<1>0. K \in Nat /\ K >= 1 /\ c \in Nat /\ 1 \in Pids /\ maxKeys \in Nat /\ maxKeys > 2 /\ K \in 1..K
  BY TreeConstants DEF Pids
<1>1. /\ Top(pg[1].kv) = K /\ Up(pg[1].kv) /\ pg[1].kv \in KVs /\ Len(pg[1].kv) = 1
      /\ pg[1].kv[1].key = K /\ pg[1].kv[1].val = c
  <2>. DEFINE n == pg[1]
  <2>1. One(n, K, c)
    OBVIOUS
  <2>a. Len(n.kv) = 1
    BY DEF One
  <2>b. K \in Nat /\ c \in Nat
    BY <1>0
  <2>. HIDE DEF n, K
  <2>2. Top(n.kv) = K /\ Up(n.kv) /\ n.kv \in KVs /\ n.kv[1].key = K /\ n.kv[1].val = c
    BY ONLY <2>1, <2>b, OneFacts
  <2>. QED  BY <2>a, <2>2 DEF n
<1>2. /\ Top(pg[c].kv) = K /\ Up(pg[c].kv) /\ pg[c].kv \in KVs /\ Len(pg[c].kv) = 1
      /\ pg[c].kv[1].key = K /\ pg[c].kv[1].val = 0
  BY <1>0, OneFacts DEF One
<1>3. lv[1] = 1 /\ lv[c] = 0 /\ lo[1] = 0 /\ lo[c] = 0 /\ lv \in [T -> Nat] /\ lo \in [T -> Nat]
  BY <1>0 DEF FirstLevels, FirstLows
<1>4. M \in Tables /\ \A k \in 1..K : M[k] = IF k = K THEN 0 ELSE -1
  BY FirstTableIs
<1>5. ShapeType(pg, T, lv, lo, M)
  <2>1. T \in SUBSET Pids
    BY <1>0
  <2>. HIDE DEF T, lv, lo, M
  <2>. QED  BY <1>3, <1>4, <2>1 DEF ShapeType
<1>. HIDE DEF lv, lo, M
<1>6. Node(pg, T, lv, lo, M, 0, 1)
  <2>1. Ordered(pg[1].kv, lo[1])
    BY <1>0, <1>1, <1>3 DEF Ordered
  <2>2. \A i \in 1..Len(pg[1].kv) : Entry(pg, T, lv, lo, M, 0, 1, i)
    <3>. SUFFICES ASSUME NEW i \in 1..1  PROVE Entry(pg, T, lv, lo, M, 0, 1, i)
      BY <1>1
    <3>1. i = 1
      OBVIOUS
    <3>2. Above(pg[1].kv, lo[1], 1) = 0
      BY <1>3 DEF Above
    <3>3. lv[c] = lv[1] - 1
      BY <1>3
    <3>. QED  BY <1>1, <1>2, <1>3, <3>1, <3>2, <3>3 DEF Entry
  <2>3. lv[1] # 0 /\ (pg[1].leaf <=> lv[1] = 0)
    BY <1>3
  <2>. HIDE DEF T
  <2>. QED  BY <2>1, <2>2, <2>3 DEF Node
<1>7. Node(pg, T, lv, lo, M, 0, c)
  <2>1. Ordered(pg[c].kv, lo[c])
    BY <1>0, <1>2, <1>3 DEF Ordered
  <2>2. Contents(pg[c].kv, lo[c], M)
    <3>1. \A i \in 1..Len(pg[c].kv) : M[pg[c].kv[i].key] = pg[c].kv[i].val
      <4>1. \A i \in 1..1 : i = 1
        OBVIOUS
      <4>2. M[K] = 0
        BY <1>0, <1>4
      <4>. QED  BY <1>2, <4>1, <4>2
    <3>2. ASSUME NEW k \in (lo[c] + 1)..Top(pg[c].kv), M[k] # -1  PROVE \E i \in 1..Len(pg[c].kv) : pg[c].kv[i].key = k
      <4>1. k \in 1..K
        BY <1>0, <1>2, <1>3, <3>2
      <4>2. k = K
        BY <1>4, <3>2, <4>1
      <4>3. 1 \in 1..1
        OBVIOUS
      <4>. QED  BY <1>2, <4>2, <4>3
    <3>. QED  BY <3>1, <3>2 DEF Contents
  <2>. QED  BY <1>3, <2>1, <2>2 DEF Node
<1>8. Apart(pg, T, lv, lo)
  BY <1>3 DEF Apart
<1>9. HasParent(pg, T, lv, c)
  <2>1. 1 \in 1..1 /\ lv[1] # 0 /\ 1 \in T
    BY <1>3
  <2>. QED  BY <1>1, <2>1 DEF HasParent
<1>10. Rooted(pg, T, lv, lo)
  BY <1>1, <1>3 DEF Rooted
<1>11. Sizes(pg, T, 0)
  <2>1. Len(pg[1].kv) < maxKeys /\ Len(pg[c].kv) < maxKeys
    BY <1>0, <1>1, <1>2
  <2>. QED  BY <2>1 DEF Sizes
<1>12. Shape(pg, T, lv, lo, M, 0, 0)
  BY <1>5, <1>6, <1>7, <1>8, <1>9, <1>10, <1>11 DEF Shape
<1>13. Fen(pg, T, lv) = {K}
  <2>1. {p \in T : lv[p] = 0} = {c}
    BY <1>3
  <2>. QED  BY <1>2, <2>1 DEF Fen
<1>. QED  BY <1>12, <1>13 DEF lv, lo, M

\* NewTree and Reset make a tree that has only the greatest key.
LEMMA InitIs ==
    ASSUME NEW z, Store(z, {}, <<>>), z.leafKeys = 0, z.nextPage = 1
    PROVE  IsTree(initRootNode(z), FirstTable, {absoluteMax}) /\ initRootNode(z).leafKeys = 1
<1>. DEFINE K == absoluteMax
            u == newNode(z, FALSE)
            a == WithKey(u, 1, K)
            nn == NewPid(a)
            b == newNode(a, TRUE)
            c == WithChild(u, 1, K)
            d == SetLeaf(c, nn, K, 0)
<1>0. K \in Nat /\ K >= 1 /\ MaxPages \in Nat /\ MaxPages >= 3 /\ 1 \in Pids /\ maxKeys \in Nat /\ maxKeys > 2
  BY TreeConstants DEF Pids
<1>1. Takes(z, {}, u, 1, FALSE)
  <2>1. z.freePage = 0
    BY DEF Store, FreeIs, Nth
  <2>2. NewPid(z) = 1 /\ z.nextPage < MaxPages /\ FALSE \in BOOLEAN
    BY <1>0, <2>1 DEF NewPid
  <2>3. Takes(z, {}, newNode(z, FALSE), NewPid(z), FALSE)
    BY <2>2, NewNode
  <2>. QED  BY <2>2, <2>3
<1>. HIDE DEF u
<1>. DEFINE e1 == [id |-> 1, leaf |-> FALSE, kv |-> <<>>]
<1>2. u \in Trees /\ u.leafKeys = 0 /\ u.nextPage <= 2 /\ u.page = [z.page EXCEPT ![1] = e1] /\ \E F : Store(u, {} \cup {1}, F)
  BY <1>1 DEF Takes
<1>3. PICK F : Store(u, {1}, F)
  <2>1. {} \cup {1} = {1}
    OBVIOUS
  <2>. QED  BY <1>2, <2>1
<1>4. u.page[1] = e1 /\ e1 \in Page
  <2>1. z \in Trees
    BY DEF Store
  <2>2. z.page \in PageMaps
    BY <2>1, TreeFields
  <2>3. e1 \in Page
    BY <1>0, EmptyPage
  <2>. HIDE DEF e1
  <2>. QED  BY <1>0, <1>2, <2>2, <2>3 DEF PageMaps
<1>5. u.page[1] \in Page /\ u.page[1].kv = <<>> /\ u.page[1].leaf = FALSE /\ u.page[1].id = 1
  BY <1>4
<1>6. search(u.page[1], K) = 1 /\ Len(u.page[1].kv) = 0
  BY <1>0, <1>5, EmptyFacts
<1>. DEFINE p1 == [u.page[1] EXCEPT !.kv = Append(<<>>, Pair(K, 0))]
<1>7. One(p1, K, 0) /\ p1.leaf = FALSE /\ p1.id = 1
  <2>. DEFINE s == Append(<<>>, Pair(K, 0))
  <2>1. s \in KVs /\ Len(s) = 1 /\ s[1] = Pair(K, 0)
    <3>1. Pair(K, 0) \in Pairs
      BY <1>0, PairType
    <3>. HIDE DEF K
    <3>. QED  BY <3>1 DEF KVs
  <2>. HIDE DEF s, e1
  <2>2. p1 = [u.page[1] EXCEPT !.kv = s]
    BY DEF s
  <2>3. p1 \in Page /\ p1.kv = s /\ p1.leaf = FALSE /\ p1.id = 1
    <3>. HIDE DEF p1
    <3>. QED  BY <1>5, <2>1, <2>2 DEF Page
  <2>. HIDE DEF p1
  <2>. QED  BY <2>1, <2>3 DEF One
<1>. DEFINE pa == [u.page EXCEPT ![1] = p1]
<1>8. a = [u EXCEPT !.page = pa]
  <2>1. ~(1 <= 0)
    OBVIOUS
  <2>2. a = [u EXCEPT !.page[1].kv = Append(@, Pair(K, 0))]
    BY <1>6, <2>1 DEF WithKey
  <2>. QED  BY <1>5, <2>2
<1>. HIDE DEF p1, e1
<1>9. u.page \in PageMaps
  BY <1>2, TreeFields
<1>10. pa \in PageMaps /\ pa[1] = p1 /\ \A p \in Pids : p # 1 => pa[p] = u.page[p]
  BY <1>0, <1>7, <1>9 DEF PageMaps, One
<1>. HIDE DEF a, pa
<1>11. SameStore(u, a) /\ a.page = pa /\ a.leafKeys = 0
  BY <1>2, <1>8, <1>10, WithPage
<1>12. Store(a, {1}, F)
  <2>1. \A p \in Pids : pa[p].id = u.page[p].id
    BY <1>5, <1>7, <1>10
  <2>2. \A p \in Ran(F) : p \in Pids /\ p # 1
    BY <1>3, StoreFacts
  <2>. QED  BY <1>3, <1>10, <1>11, <2>1, <2>2, StoreKeeps
<1>13. Takes(a, {1}, b, nn, TRUE)
  <2>1. a.nextPage < MaxPages /\ TRUE \in BOOLEAN
    <3>1. a.nextPage = u.nextPage /\ u.nextPage \in Nat
      BY <1>2, <1>11, TreeFields DEF SameStore
    <3>. QED  BY <1>0, <1>2, <3>1
  <2>. QED  BY <1>12, <2>1, NewNode
<1>. HIDE DEF b, nn
<1>. DEFINE e2 == [id |-> nn, leaf |-> TRUE, kv |-> <<>>]
<1>14. nn \in Pids /\ nn # 1 /\ nn \in Nat /\ b \in Trees /\ b.leafKeys = 0 /\ b.page = [a.page EXCEPT ![nn] = e2]
  <2>1. nn \in Pids \ {1} /\ b \in Trees /\ b.leafKeys = a.leafKeys /\ b.page = [a.page EXCEPT ![nn] = e2]
    BY <1>13 DEF Takes
  <2>2. nn \in Nat
    BY <2>1, TreeConstants DEF Pids
  <2>. QED  BY <1>11, <2>1, <2>2
<1>15. PICK G : Store(b, {1, nn}, G)
  <2>1. {1} \cup {nn} = {1, nn}
    OBVIOUS
  <2>2. \E G : Store(b, {1} \cup {nn}, G)
    BY ONLY <1>13 DEF Takes
  <2>. QED  BY ONLY <2>1, <2>2
<1>16. e2 \in Page
  BY <1>14, EmptyPage
<1>17. e2.kv = <<>> /\ e2.leaf = TRUE /\ e2.id = nn
  OBVIOUS
<1>. HIDE DEF e2
<1>18. b.page \in PageMaps /\ b.page[1] = p1 /\ b.page[nn] = e2
  BY <1>0, <1>10, <1>11, <1>14, <1>16 DEF PageMaps
<1>. DEFINE p2 == [p1 EXCEPT !.kv[1].val = nn]
            pc == [b.page EXCEPT ![1] = p2]
<1>19. One(p2, K, nn) /\ p2.leaf = FALSE /\ p2.id = 1
  <2>. DEFINE e == [key |-> p1.kv[1].key, val |-> nn]
  <2>1. p1 \in Page /\ Len(p1.kv) = 1 /\ 1 \in 1..Len(p1.kv) /\ p1.kv[1].key = K
    <3>. HIDE DEF K
    <3>1. K \in Nat /\ 0 \in Nat /\ One(p1, K, 0)
      BY <1>0, <1>7
    <3>2. 1 \in 1..Len(p1.kv) /\ p1.kv[1].key = K
      BY ONLY <3>1, OneFacts
    <3>. QED  BY <3>1, <3>2 DEF One
  <2>2. PairSet(p1, 1, e, p2)
    BY <1>14, <2>1, PageVal
  <2>3. e = Pair(K, nn)
    BY <2>1 DEF Pair
  <2>. HIDE DEF p2, e
  <2>. QED  BY <1>7, <2>1, <2>2, <2>3 DEF PairSet, One
<1>20. c = [b EXCEPT !.page = pc]
  <2>1. search(a.page[1], K) = 1 /\ a.page[1].kv[1].val = 0
    <3>. HIDE DEF K
    <3>. QED  BY <1>0, <1>7, <1>10, <1>11, OneFacts, SMTT(30)
  <2>2. c = [b EXCEPT !.page[1].kv[1].val = nn]
    BY <2>1 DEF WithChild, a, b, nn
  <2>. QED  BY <1>18, <2>2
<1>. HIDE DEF p2
<1>21. pc \in PageMaps /\ pc[1] = p2 /\ pc[nn] = e2 /\ \A p \in Pids : p # 1 => pc[p] = b.page[p]
  BY <1>0, <1>14, <1>18, <1>19 DEF PageMaps, One
<1>. HIDE DEF pc, c
<1>22. SameStore(b, c) /\ c.page = pc /\ c.leafKeys = 0
  BY <1>14, <1>20, <1>21, WithPage
<1>23. \A p \in Ran(G) : p \in Pids /\ p # 1 /\ p # nn
  BY <1>15, StoreFacts
<1>24. Store(c, {1, nn}, G)
  <2>1. \A p \in Pids : pc[p].id = b.page[p].id
    BY <1>7, <1>18, <1>19, <1>21
  <2>. QED  BY <1>15, <1>21, <1>22, <1>23, <2>1, StoreKeeps
<1>25. Child(c, 1, K) = nn
  <2>1. search(p2, K) = 1 /\ p2.kv[1].val = nn
    <3>. HIDE DEF K
    <3>. QED  BY <1>0, <1>14, <1>19, OneFacts
  <2>. QED  BY <1>21, <1>22, <2>1 DEF Child
<1>. DEFINE p3 == nodeSet(e2, K, 0)
            pd == [pc EXCEPT ![nn] = p3]
<1>26. ~Has(e2, K) /\ One(p3, K, 0) /\ p3.id = nn /\ p3.leaf = TRUE
  <2>. HIDE DEF K
  <2>. QED  BY <1>0, <1>16, <1>17, EmptyFacts
<1>27. d = [c EXCEPT !.page = pd, !.leafKeys = 1]
  <2>1. c.page[nn] = e2 /\ 0 + 1 = 1
    BY <1>21, <1>22
  <2>. QED  BY <1>22, <1>26, <2>1 DEF SetLeaf
<1>. HIDE DEF p3
<1>28. pd \in PageMaps /\ pd[1] = p2 /\ pd[nn] = p3 /\ \A p \in Pids : p # nn => pd[p] = pc[p]
  BY <1>0, <1>14, <1>21, <1>26 DEF PageMaps, One
<1>. HIDE DEF pd, d
<1>29. SameStore(c, d) /\ d.page = pd /\ d.leafKeys = 1
  <2>1. c \in Trees
    BY <1>22 DEF SameStore
  <2>2. PagesSet(c, pd, 1, d)
    <3>1. pd \in PageMaps /\ 1 \in Int
      BY <1>28
    <3>. QED  BY ONLY <1>27, <2>1, <3>1, WithPages
  <2>. QED  BY <2>2 DEF PagesSet
<1>30. Store(d, {1, nn}, G)
  <2>1. \A p \in Pids : pd[p].id = pc[p].id
    BY <1>17, <1>21, <1>26, <1>28
  <2>. QED  BY <1>22, <1>23, <1>24, <1>28, <1>29, <2>1, StoreKeeps
<1>31. /\ Shape(pd, {1, nn}, FirstLevels(nn), FirstLows(nn), FirstTable, 0, 0)
       /\ Fen(pd, {1, nn}, FirstLevels(nn)) = {absoluteMax}
  BY <1>14, <1>19, <1>26, <1>28, FirstShape, ZenonT(40)
<1>32. IsTree(d, FirstTable, {absoluteMax})
  <2>. HIDE DEF nn, pd, K
  <2>. QED  BY <1>29, <1>30, <1>31 DEF IsTree
<1>33. set(u, K, 0) = d
  <2>. DEFINE f == CHOOSE h : IsSet(h, K, 0)
  <2>1. set(u, K, 0) = f[MaxPages][1][u]
    BY DEF set, IsSet
  <2>2. IsSet(f, K, 0)
    <3>1. \E h : IsSet(h, K, 0)
      BY SetExists
    <3>. QED  BY <3>1
  <2>. HIDE DEF f, K
  <2>3. MaxPages \in 0..MaxPages /\ MaxPages # 0 /\ MaxPages - 1 \in 0..MaxPages
    BY <1>0
  <2>4. f[MaxPages][1][u] = SetBelow(u, 1, K, f[MaxPages - 1])
    <3>1. MaxPages \in 0..MaxPages /\ 1 \in Pids /\ u \in Trees
      BY <1>0, <1>2, <2>3
    <3>2. f[MaxPages][1][u] = IF MaxPages = 0 \/ u.page[1].leaf THEN SetLeaf(u, 1, K, 0)
                              ELSE SetBelow(u, 1, K, f[MaxPages - 1])
      BY ONLY <2>2, <3>1, SetStep
    <3>3. ~(MaxPages = 0 \/ u.page[1].leaf)
      BY <1>5, <2>3
    <3>. QED  BY <3>2, <3>3
  <2>5. f[MaxPages - 1][nn][c] = d
    <3>1. c \in Trees /\ c.page[nn].leaf
      BY <1>17, <1>21, <1>22 DEF SameStore
    <3>2. f[MaxPages - 1][nn][c] = SetLeaf(c, nn, K, 0)
      BY <1>14, <2>2, <2>3, <3>1, SetStep
    <3>. QED  BY <3>2 DEF d
  <2>6. ~isFull(d.page[nn])
    <3>1. d.page[nn] = p3 /\ Len(p3.kv) = 1 /\ 1 # maxKeys
      BY <1>0, <1>26, <1>28, <1>29 DEF One
    <3>. QED  BY <3>1 DEF isFull
  <2>7. SetBelow(u, 1, K, f[MaxPages - 1]) = d
    <3>1. WithChild(u, 1, K) = c
      BY DEF c
    <3>. QED  BY <1>25, <2>5, <2>6, <3>1 DEF SetBelow
  <2>. QED  BY <2>1, <2>4, <2>7
<1>34. ~isFull(d.page[1])
  <2>1. d.page[1] = p2 /\ Len(p2.kv) = 1 /\ 1 # maxKeys
    BY <1>0, <1>19, <1>28, <1>29 DEF One
  <2>. QED  BY <2>1 DEF isFull
<1>35. initRootNode(z) = d
  BY <1>33, <1>34 DEF initRootNode, TreeSet, u
<1>. QED  BY <1>29, <1>32, <1>35

\* An empty file has no page in the tree, and none that is free.
LEMMA ZeroStore ==
    ASSUME NEW d \in Nat, NEW f \in Nat, pageSize <= d, padding + d <= f
    PROVE  Store(ZeroTree(d, f), {}, <<>>) /\ ZeroTree(d, f).leafKeys = 0 /\ ZeroTree(d, f).nextPage = 1
<1>. DEFINE z == ZeroTree(d, f)
            pg == [p \in Pids |-> NoPage]
<1>0. MaxPages \in Nat /\ MaxPages >= 3 /\ 1 \in Pids /\ pageSize \in Nat /\ \A p \in Pids : p \in Nat /\ ~(p < 1)
  BY TreeConstants DEF Pids
<1>1. pg \in PageMaps /\ \A p \in Pids : pg[p].id = 0
  <2>1. NoPage \in Page /\ NoPage.id = 0
    <3>1. <<>> \in KVs
      BY DEF KVs
    <3>. QED  BY <3>1 DEF NoPage, Page
  <2>. HIDE DEF Page
  <2>. QED  BY <2>1 DEF PageMaps
<1>2. /\ z.page = pg /\ z.nextPage = 1 /\ z.freePage = 0 /\ z.leafKeys = 0 /\ z.pagesFree = 0 /\ z.data = d /\ z.file = f
  BY DEF ZeroTree, Pids
<1>3. z \in Trees
  <2>1. z = [page |-> pg, nextPage |-> 1, freePage |-> 0, leafKeys |-> 0, pagesFree |-> 0, data |-> d, file |-> f]
    BY DEF ZeroTree, Pids
  <2>2. pg \in [Pids -> [id : Nat, leaf : BOOLEAN, kv : Seq([key : Nat, val : Nat])]]
    BY <1>1 DEF PageMaps, Page, KVs, Pairs
  <2>. HIDE DEF pg, z
  <2>. QED  BY <2>1, <2>2 DEF Trees
<1>. HIDE DEF z, pg
<1>4. Len(<<>>) = 0 /\ <<>> \in Seq(Pids) /\ Ran(<<>>) = {} /\ Nth(<<>>, 1) = 0
  BY DEF Ran, Nth
<1>5. FreeIs(z, <<>>)
  BY <1>2, <1>4 DEF FreeIs
<1>6. Owned(z, {}, <<>>)
  <2>1. 1..(1 - 1) = {}
    OBVIOUS
  <2>2. \A p \in Pids : z.page[p].id = IF p < 1 THEN p ELSE 0
    BY <1>0, <1>1, <1>2
  <2>. QED  BY <1>2, <1>4, <2>1, <2>2 DEF Owned
<1>7. Sized(z)
  BY <1>0, <1>2 DEF Sized
<1>. QED  BY <1>2, <1>3, <1>5, <1>6, <1>7 DEF Store, z

-----------------------------------------------------------------------------
(* The tree is a search tree. *)

IsSearch(f, t) ==
    f = [n \in 0..MaxPages |-> [pid \in Pids |-> [l \in Nat |->
            IF n = 0 THEN SearchTreeBelow(t, pid, l, n, <<>>)
            ELSE SearchTreeBelow(t, pid, l, n, f[n - 1])]]]

\* The recursion of SearchTree defines a function.
LEMMA SearchExists ==
    ASSUME NEW t
    PROVE  \E f : IsSearch(f, t)
<1>. DEFINE N == MaxPages
            B(n, h) == [pid \in Pids |-> [l \in Nat |->
                            IF n = 0 THEN SearchTreeBelow(t, pid, l, n, <<>>)
                            ELSE SearchTreeBelow(t, pid, l, n, h)]]
            On(f, m) == f[0] = B(0, 0) /\ \A n \in 1..m : f[n] = B(n, f[n - 1])
            S == {m \in 0..N : \E f : On(f, m)}
<1>0. N \in Nat
  BY TreeConstants
<1>1. \A h : B(0, h) = B(0, 0)
  OBVIOUS
<1>. HIDE DEF B, N
<1>2. 0 \in S
  <2>1. On([n \in 0..0 |-> B(0, 0)], 0)
    OBVIOUS
  <2>2. 0 \in 0..N
    BY <1>0
  <2>. QED  BY <2>1, <2>2
<1>3. ASSUME NEW m \in 1..N, m - 1 \in S  PROVE m \in S
  <2>1. PICK f : On(f, m - 1)
    BY <1>3
  <2>. DEFINE g == [n \in 0..m |-> IF n = m THEN B(m, f[m - 1]) ELSE f[n]]
  <2>2. g[m] = B(m, f[m - 1]) /\ \A n \in 0..(m - 1) : g[n] = f[n]
    BY <1>0
  <2>3. f[0] = B(0, 0) /\ \A n \in 1..(m - 1) : f[n] = B(n, f[n - 1])
    BY <2>1
  <2>4. g[0] = B(0, 0)
    <3>1. 0 \in 0..(m - 1)
      BY <1>0
    <3>. QED  BY <2>2, <2>3, <3>1
  <2>5. ASSUME NEW n \in 1..m  PROVE g[n] = B(n, g[n - 1])
    <3>1. n - 1 \in 0..(m - 1)
      BY <1>0
    <3>2. g[n - 1] = f[n - 1]
      BY <2>2, <3>1
    <3>3. CASE n = m
      BY <2>2, <3>2, <3>3
    <3>4. CASE n # m
      <4>1. n \in 0..(m - 1) /\ n \in 1..(m - 1)
        BY <1>0, <3>4
      <4>2. g[n] = f[n] /\ f[n] = B(n, f[n - 1])
        BY <2>2, <2>3, <4>1
      <4>. QED  BY <3>2, <4>2
    <3>. QED  BY <3>3, <3>4
  <2>6. m \in 0..N
    BY <1>0
  <2>. HIDE DEF g
  <2>. QED  BY <2>4, <2>5, <2>6
<1>4. N \in S
  <2>1. \A k \in 0..N : k \in S
    <3>. HIDE DEF S
    <3>. QED  BY <1>0, <1>2, <1>3, UpTo
  <2>2. N \in 0..N
    BY <1>0
  <2>. HIDE DEF S
  <2>. QED  BY <2>1, <2>2
<1>5. PICK f : f[0] = B(0, 0) /\ \A n \in 1..N : f[n] = B(n, f[n - 1])
  BY <1>4
<1>. DEFINE g == [n \in 0..N |-> f[n]]
<1>6. ASSUME NEW n \in 0..N  PROVE g[n] = B(n, g[n - 1])
  <2>1. CASE n = 0
    <3>1. g[0] = f[0]
      BY <1>0
    <3>. QED  BY <1>1, <1>5, <2>1, <3>1
  <2>2. CASE n # 0
    <3>1. n - 1 \in 0..N /\ n \in 1..N
      BY <1>0, <2>2
    <3>2. g[n - 1] = f[n - 1] /\ g[n] = f[n]
      BY <3>1
    <3>. QED  BY <1>5, <3>1, <3>2
  <2>. QED  BY <2>1, <2>2
<1>7. g = [n \in 0..N |-> B(n, g[n - 1])]
  <2>1. g = [n \in 0..N |-> g[n]]
    OBVIOUS
  <2>. HIDE DEF g
  <2>. QED  BY <1>6, <2>1
<1>8. IsSearch(g, t)
  <2>. HIDE DEF g
  <2>. QED  BY <1>7 DEF IsSearch, B, N
<1>. QED  BY <1>8

\* One step of that recursion
LEMMA SearchStep ==
    ASSUME NEW f, NEW t, IsSearch(f, t), NEW n \in 0..MaxPages, NEW p \in Pids, NEW l \in Nat
    PROVE  f[n][p][l] = IF n = 0 THEN SearchTreeBelow(t, p, l, n, <<>>) ELSE SearchTreeBelow(t, p, l, n, f[n - 1])
<1>. DEFINE E(m) == [pid \in Pids |-> [x \in Nat |->
                        IF m = 0 THEN SearchTreeBelow(t, pid, x, m, <<>>)
                        ELSE SearchTreeBelow(t, pid, x, m, f[m - 1])]]
<1>1. f = [m \in 0..MaxPages |-> E(m)]
  BY DEF IsSearch
<1>2. f[n] = E(n)
  <2>. HIDE DEF E
  <2>. QED  BY <1>1
<1>3. E(n)[p][l] = IF n = 0 THEN SearchTreeBelow(t, p, l, n, <<>>) ELSE SearchTreeBelow(t, p, l, n, f[n - 1])
  OBVIOUS
<1>. HIDE DEF E
<1>. QED  BY <1>2, <1>3

\* The conditions of SearchTreeBelow hold on each page.
LEMMA SearchBelow ==
    ASSUME NEW t, NEW T, NEW lv, NEW lo, NEW M, Shape(t.page, T, lv, lo, M, 0, 0), NEW p \in T, NEW n \in Nat, lv[p] = n,
           NEW below, n > 0 => \A c \in T : lv[c] = n - 1 => below[c][lo[c]] = TRUE
    PROVE  SearchTreeBelow(t, p, lo[p], n, below)
<1>. DEFINE kv == t.page[p].kv
<1>1. ShapeType(t.page, T, lv, lo, M) /\ Node(t.page, T, lv, lo, M, 0, p)
  BY ShapeNode
<1>2. /\ p \in Pids /\ Len(kv) \in Nat /\ Len(kv) >= 1 /\ \A i \in 1..Len(kv) : Above(kv, lo[p], i) < kv[i].key
  BY <1>1, NodeFacts
<1>3. p # 0 /\ maxKeys \in Nat
  BY <1>2, TreeConstants DEF Pids
<1>4. Len(kv) \in 1..(maxKeys - 1)
  <2>1. Len(kv) < maxKeys
    BY <1>3 DEF Shape, Sizes
  <2>. QED  BY <1>2, <1>3, <2>1
<1>5. t.page[p].leaf <=> n = 0
  BY <1>1 DEF Node
<1>6. ASSUME n > 0, NEW i \in 1..Len(kv)
      PROVE  kv[i].key = maxKey(t.page[kv[i].val]) /\ below[kv[i].val][Above(kv, lo[p], i)] = TRUE
  <2>. DEFINE c == kv[i].val
  <2>1. lv[p] # 0
    BY <1>6
  <2>2. Entry(t.page, T, lv, lo, M, 0, p, i)
    BY <1>1, <2>1 DEF Node
  <2>3. c \in T /\ lv[c] = lv[p] - 1 /\ Top(t.page[c].kv) = kv[i].key /\ lo[c] = Above(kv, lo[p], i)
    BY <1>3, <2>2 DEF Entry
  <2>4. below[c][lo[c]] = TRUE
    BY <1>6, <2>3
  <2>5. Node(t.page, T, lv, lo, M, 0, c)
    BY <2>3, ShapeNode
  <2>. HIDE DEF c
  <2>6. maxKey(t.page[c]) = Top(t.page[c].kv)
    <3>1. Len(t.page[c].kv) >= 1
      BY <2>5 DEF Node, Ordered
    <3>. QED  BY <3>1, MaxKeyTop
  <2>7. kv[i].key = maxKey(t.page[c]) /\ below[c][Above(kv, lo[p], i)] = TRUE
    BY <2>3, <2>4, <2>6
  <2>. QED  BY <2>7 DEF c
<1>7. n > 0 => \A i \in 1..Len(kv) : /\ kv[i].key = maxKey(t.page[kv[i].val])
                                    /\ below[kv[i].val][Above(kv, lo[p], i)]
  BY <1>6
<1>. QED  BY <1>2, <1>4, <1>5, <1>7 DEF SearchTreeBelow

\* A tree of this shape is a search tree in the sense of SearchTreeOK.
LEMMA SearchTreeIs ==
    ASSUME NEW t, NEW T, NEW lv, NEW lo, NEW M, Shape(t.page, T, lv, lo, M, 0, 0), lv[1] <= MaxPages
    PROVE  SearchTree(t, lv[1]) /\ lv[1] \in 1..MaxPages /\ maxKey(t.page[1]) = absoluteMax
<1>. DEFINE f == CHOOSE h : IsSearch(h, t)
            Good(n) == \A p \in T : lv[p] = n => f[n][p][lo[p]] = TRUE
            S == {n \in 0..MaxPages : Good(n)}
<1>0. /\ MaxPages \in Nat /\ 1 \in T /\ lv[1] \in Nat /\ lv[1] # 0 /\ lo[1] = 0 /\ Top(t.page[1].kv) = absoluteMax
      /\ T \subseteq Pids /\ \A p \in T : lo[p] \in Nat
  BY TreeConstants DEF Shape, ShapeType, Rooted
<1>1. SearchTree(t, lv[1]) = f[lv[1]][1][0]
  BY DEF SearchTree, IsSearch
<1>2. IsSearch(f, t)
  <2>1. \E h : IsSearch(h, t)
    BY SearchExists
  <2>. QED  BY <2>1
<1>. HIDE DEF f
<1>3. 0 \in S
  <2>1. ASSUME NEW p \in T, lv[p] = 0  PROVE f[0][p][lo[p]] = TRUE
    <3>1. 0 \in 0..MaxPages /\ p \in Pids /\ lo[p] \in Nat /\ 0 \in Nat
      BY <1>0
    <3>2. f[0][p][lo[p]] = SearchTreeBelow(t, p, lo[p], 0, <<>>)
      BY <1>2, <3>1, SearchStep
    <3>3. ~(0 > 0)
      OBVIOUS
    <3>4. SearchTreeBelow(t, p, lo[p], 0, <<>>)
      BY <2>1, <3>1, <3>3, SearchBelow
    <3>. QED  BY <3>2, <3>4
  <2>2. Good(0)
    BY <2>1
  <2>3. 0 \in 0..MaxPages
    BY <1>0
  <2>. HIDE DEF Good
  <2>. QED  BY <2>2, <2>3
<1>4. ASSUME NEW n \in 1..MaxPages, n - 1 \in S  PROVE n \in S
  <2>0. n \in 0..MaxPages /\ n # 0 /\ n \in Nat /\ n > 0
    BY <1>0
  <2>1. Good(n - 1)
    <3>. HIDE DEF Good
    <3>. QED  BY <1>4
  <2>2. ASSUME NEW p \in T, lv[p] = n  PROVE f[n][p][lo[p]] = TRUE
    <3>. DEFINE below == f[n - 1]
    <3>1. p \in Pids /\ lo[p] \in Nat
      BY <1>0
    <3>2. f[n][p][lo[p]] = SearchTreeBelow(t, p, lo[p], n, below)
      BY <1>2, <2>0, <3>1, SearchStep
    <3>3. \A c \in T : lv[c] = n - 1 => below[c][lo[c]] = TRUE
      BY <2>1
    <3>. HIDE DEF below
    <3>4. SearchTreeBelow(t, p, lo[p], n, below)
      BY <2>0, <2>2, <3>3, SearchBelow
    <3>. QED  BY <3>2, <3>4
  <2>3. Good(n)
    BY <2>2
  <2>. HIDE DEF Good
  <2>. QED  BY <2>0, <2>3
<1>5. lv[1] \in S
  <2>1. \A n \in 0..MaxPages : n \in S
    <3>. HIDE DEF S
    <3>. QED  BY <1>0, <1>3, <1>4, UpTo
  <2>2. lv[1] \in 0..MaxPages
    BY <1>0
  <2>. HIDE DEF S
  <2>. QED  BY <2>1, <2>2
<1>6. f[lv[1]][1][lo[1]] = TRUE
  BY <1>0, <1>5
<1>7. SearchTree(t, lv[1])
  BY <1>0, <1>1, <1>6
<1>8. lv[1] \in 1..MaxPages
  BY <1>0
<1>9. maxKey(t.page[1]) = absoluteMax
  <2>1. ShapeType(t.page, T, lv, lo, M) /\ Node(t.page, T, lv, lo, M, 0, 1)
    BY <1>0, ShapeNode
  <2>2. 1 \in T
    BY <1>0
  <2>3. maxKey(t.page[1]) = Top(t.page[1].kv)
    <3>1. Len(t.page[1].kv) >= 1
      BY <2>1 DEF Node, Ordered
    <3>. QED  BY <3>1, MaxKeyTop
  <2>. QED  BY <1>0, <2>3
<1>. QED  BY <1>7, <1>8, <1>9

-----------------------------------------------------------------------------
(* NewTree and Reset *)

\* NewTree makes a tree that holds absoluteMax only.
LEMMA NewTreeIs ==
    LET t == initRootNode(Opened(ZeroTree(0, minSize)))
    IN  IsTree(t, FirstTable, {absoluteMax}) /\ t.leafKeys = Cnt(FirstTable, 0, absoluteMax)
<1>. DEFINE d == minSize - padding
<1>1. d \in Nat /\ minSize \in Nat /\ pageSize <= d /\ padding + d <= minSize
  BY TreeConstants
<1>2. Opened(ZeroTree(0, minSize)) = ZeroTree(d, minSize)
  <2>. DEFINE pg == [p \in 1..MaxPages |-> NoPage]
  <2>1. \A x, f : ZeroTree(x, f) = [page |-> pg, nextPage |-> 1, freePage |-> 0, leafKeys |-> 0, pagesFree |-> 0,
                                    data |-> x, file |-> f]
    BY DEF ZeroTree
  <2>. HIDE DEF pg
  <2>2. ZeroTree(0, minSize).file = minSize
    BY <2>1
  <2>3. Opened(ZeroTree(0, minSize)) = [ZeroTree(0, minSize) EXCEPT !.data = d]
    BY <2>2 DEF Opened
  <2>. HIDE DEF d
  <2>. QED  BY <2>1, <2>3
<1>. HIDE DEF d
<1>. DEFINE z == ZeroTree(d, minSize)
<1>3. Store(z, {}, <<>>) /\ z.leafKeys = 0 /\ z.nextPage = 1
  BY <1>1, ZeroStore
<1>. HIDE DEF z
<1>4. IsTree(initRootNode(z), FirstTable, {absoluteMax}) /\ initRootNode(z).leafKeys = 1
  BY <1>3, InitIs
<1>. QED  BY <1>2, <1>4, FirstTableIs DEF z

\* Reset does too, whatever was in the file.
LEMMA ResetIs ==
    ASSUME NEW t, NEW M, NEW E, IsTree(t, M, E)
    PROVE  IsTree(Reset(t), FirstTable, {absoluteMax}) /\ Reset(t).leafKeys = Cnt(FirstTable, 0, absoluteMax)
<1>. DEFINE f == IF padding + 0 + minSize < t.file THEN t.file ELSE t.file + GrowBy(ZeroTree(0, t.file), minSize)
<1>1. t.file \in Nat /\ padding <= t.file
  <2>1. PICK T, F : Store(t, T, F)
    BY DEF IsTree
  <2>2. t \in Trees /\ padding + t.data <= t.file
    BY <2>1 DEF Store, Sized
  <2>3. t.data \in Nat /\ t.file \in Nat /\ padding \in Nat
    BY <2>2, TreeFields, TreeConstants
  <2>. QED  BY <2>2, <2>3
<1>2. minSize \in Nat /\ padding \in Nat /\ pageSize \in Nat /\ pageSize <= minSize
  BY TreeConstants
<1>3. f \in Nat /\ padding + minSize <= f
  <2>1. ZeroTree(0, t.file).file = t.file
    BY DEF ZeroTree
  <2>2. GrowBy(ZeroTree(0, t.file), minSize) \in Nat /\ GrowBy(ZeroTree(0, t.file), minSize) >= minSize
    BY <1>1, <1>2, <2>1, GrowByIs
  <2>. QED  BY <1>1, <1>2, <2>2
<1>4. AllocateOffset(ZeroTree(0, t.file), minSize) = ZeroTree(minSize, f)
  <2>. DEFINE pg == [p \in 1..MaxPages |-> NoPage]
  <2>1. \A x, y : ZeroTree(x, y) = [page |-> pg, nextPage |-> 1, freePage |-> 0, leafKeys |-> 0, pagesFree |-> 0,
                                    data |-> x, file |-> y]
    BY DEF ZeroTree
  <2>. HIDE DEF pg
  <2>2. ZeroTree(0, t.file).file = t.file /\ ZeroTree(0, t.file).data = 0
    BY <2>1
  <2>3. AllocateOffset(ZeroTree(0, t.file), minSize) = [ZeroTree(0, t.file) EXCEPT !.data = 0 + minSize, !.file = f]
    BY <2>1, <2>2 DEF AllocateOffset
  <2>4. 0 + minSize = minSize
    BY <1>2
  <2>. HIDE DEF f
  <2>. QED  BY <2>1, <2>3, <2>4
<1>. HIDE DEF f
<1>. DEFINE z == ZeroTree(minSize, f)
<1>5. Store(z, {}, <<>>) /\ z.leafKeys = 0 /\ z.nextPage = 1
  BY <1>2, <1>3, ZeroStore
<1>. HIDE DEF z
<1>6. IsTree(initRootNode(z), FirstTable, {absoluteMax}) /\ initRootNode(z).leafKeys = 1
  BY <1>5, InitIs
<1>. QED  BY <1>4, <1>6, FirstTableIs DEF z, Reset

-----------------------------------------------------------------------------
(* The properties of Tree *)

\* Page p of T is in one place; lists of the pages, and of the free ones
LEMMA AccountedIs ==
    ASSUME NEW M, NEW E, IsTree(tree, M, E)
    PROVE  PagesAccounted
<1>1. PICK T, lv, lo, F : Shape(tree.page, T, lv, lo, M, 0, 0) /\ Store(tree, T, F)
  BY DEF IsTree
<1>2. lv[1] <= MaxPages
  BY <1>1, LevelsBound
<1>3. iterate(tree) = T /\ \A p \in T : tree.page[p].leaf <=> lv[p] = 0
  BY <1>1, <1>2, IterateIs
<1>. DEFINE free == FreeList(tree)
            L == Listed(tree)
            Pointed(p) == IF tree.page[p].leaf THEN {} ELSE 1..Len(tree.page[p].kv)
<1>4. (\A i \in 0..MaxPages : free[i] = Nth(F, i + 1)) /\ L = 0..(Len(F) - 1)
  BY <1>1, FreeListIs
<1>5. /\ F \in Seq(Pids) /\ Len(F) \in Nat /\ (\A i, j \in 1..Len(F) : F[i] = F[j] => i = j) /\ Len(F) <= MaxPages
      /\ MaxPages \in Nat
  <2>1. F \in Seq(Pids) /\ (\A i, j \in 1..Len(F) : F[i] = F[j] => i = j)
    BY <1>1 DEF Store, FreeIs
  <2>. QED  BY <2>1, RanCard, TreeConstants
<1>. HIDE DEF free, L
<1>6. ASSUME NEW i \in L  PROVE i \in Nat /\ i + 1 \in 1..Len(F) /\ free[i] = F[i + 1]
  <2>1. i \in 0..MaxPages /\ i + 1 \in 1..Len(F) /\ i + 1 <= Len(F)
    BY <1>4, <1>5
  <2>. QED  BY <1>4, <2>1 DEF Nth
<1>7. \A p \in T : \A i \in Pointed(p) : lv[p] # 0 /\ i \in 1..Len(tree.page[p].kv)
  BY <1>3
<1>8. ASSUME NEW p \in T, NEW i \in Pointed(p)
      PROVE  tree.page[p].kv[i].val # 1 /\ tree.page[p].kv[i].val # 0
  <2>. DEFINE c == tree.page[p].kv[i].val
  <2>1. lv[p] # 0 /\ i \in 1..Len(tree.page[p].kv)
    BY <1>7
  <2>2. c \in T /\ lv[c] = lv[p] - 1
    BY <1>1, <2>1, ChildrenAre
  <2>3. lv[p] \in Nat /\ lv[1] \in Nat /\ lv[p] <= lv[1] /\ T \subseteq Pids
    BY <1>1 DEF Shape, ShapeType, Rooted
  <2>. HIDE DEF c
  <2>4. c # 1
    BY <2>2, <2>3
  <2>5. c # 0
    BY <2>2, <2>3, TreeConstants DEF Pids
  <2>. QED  BY <2>4, <2>5 DEF c
<1>9. ASSUME NEW p \in T, NEW q \in T, NEW i \in Pointed(p), NEW j \in Pointed(q),
             tree.page[p].kv[i].val = tree.page[q].kv[j].val
      PROVE  p = q /\ i = j
  <2>1. lv[p] # 0 /\ i \in 1..Len(tree.page[p].kv) /\ lv[q] # 0 /\ j \in 1..Len(tree.page[q].kv)
    BY <1>7
  <2>2. tree.page[p].kv[i].val # 0
    BY <1>8
  <2>. QED  BY <1>1, <1>9, <2>1, <2>2, OnePlace, SMTT(30)
<1>10. \A i, j \in L : free[i] = free[j] => i = j
  <2>. SUFFICES ASSUME NEW i \in L, NEW j \in L, free[i] = free[j]  PROVE i = j
    OBVIOUS
  <2>1. i \in Nat /\ j \in Nat /\ i + 1 = j + 1
    BY <1>5, <1>6
  <2>. QED  BY <2>1
<1>11. {free[i] : i \in L} = Ran(F)
  <2>1. \A i \in L : free[i] \in Ran(F)
    BY <1>6 DEF Ran
  <2>2. ASSUME NEW i \in 1..Len(F)  PROVE \E j \in L : F[i] = free[j]
    <3>1. i - 1 \in L /\ i - 1 + 1 = i
      BY <1>4, <1>5
    <3>2. free[i - 1] = F[i]
      BY <1>6, <3>1
    <3>. QED  BY <3>1, <3>2
  <2>. QED  BY <2>1, <2>2 DEF Ran
<1>12. /\ T \cap Ran(F) = {} /\ T \cup Ran(F) = 1..(tree.nextPage - 1)
       /\ \A p \in Pids : tree.page[p].id = IF p < tree.nextPage THEN p ELSE 0
  BY <1>1 DEF Store, Owned
<1>. DEFINE Acc(pids) ==
              /\ \A p, q \in pids : \A i \in Pointed(p), j \in Pointed(q) :
                    tree.page[p].kv[i].val = tree.page[q].kv[j].val => p = q /\ i = j
              /\ \A p \in pids : \A i \in Pointed(p) : tree.page[p].kv[i].val # 1
              /\ \A i, j \in L : free[i] = free[j] => i = j
              /\ pids \cap {free[i] : i \in L} = {}
              /\ pids \cup {free[i] : i \in L} = 1..(tree.nextPage - 1)
              /\ \A p \in Pids : tree.page[p].id = IF p < tree.nextPage THEN p ELSE 0
<1>13. Acc(T)
  <2>. HIDE DEF Pointed
  <2>. QED  BY <1>8, <1>9, <1>10, <1>11, <1>12
<1>14. PagesAccounted <=> Acc(iterate(tree))
  BY DEF PagesAccounted, free, L
<1>. HIDE DEF Acc
<1>. QED  BY <1>3, <1>13, <1>14

\* The counts are exact in a tree that holds a table and counts its keys.
LEMMA StatsIs ==
    ASSUME NEW M, NEW E, IsTree(tree, M, E), tree.leafKeys = Cnt(M, 0, absoluteMax)
    PROVE  StatsExact
<1>1. PICK T, lv, lo, F : Shape(tree.page, T, lv, lo, M, 0, 0) /\ Store(tree, T, F)
  BY DEF IsTree
<1>2. lv[1] <= MaxPages
  BY <1>1, LevelsBound
<1>3. KeysIn(tree, Leaves(tree)) = Cnt(M, 0, absoluteMax)
  BY <1>1, <1>2, KeysInIs
<1>4. Listed(tree) = 0..(Len(F) - 1) /\ Len(F) \in Nat /\ tree.pagesFree = Len(F)
  <2>1. Listed(tree) = 0..(Len(F) - 1)
    BY <1>1, FreeListIs
  <2>2. Len(F) \in Nat /\ tree.pagesFree = Len(F)
    BY <1>1, StoreFacts DEF Store, FreeIs
  <2>. QED  BY <2>1, <2>2
<1>5. Cardinality(0..(Len(F) - 1)) = Len(F)
  <2>1. 0 \in Int /\ Len(F) - 1 \in Int
    BY <1>4
  <2>2. Cardinality(0..(Len(F) - 1)) = IF 0 > Len(F) - 1 THEN 0 ELSE Len(F) - 1 - 0 + 1
    BY <2>1, FS_Interval
  <2>. QED  BY <1>4, <2>2
<1>. QED  BY <1>3, <1>4, <1>5 DEF StatsExact

\* The first property, of the current tree
LEMMA SearchIs ==
    ASSUME NEW M, NEW E, IsTree(tree, M, E)
    PROVE  SearchTreeOK
<1>1. PICK T, lv, lo, F : Shape(tree.page, T, lv, lo, M, 0, 0) /\ Store(tree, T, F)
  BY DEF IsTree
<1>2. lv[1] <= MaxPages
  BY <1>1, LevelsBound
<1>3. SearchTree(tree, lv[1]) /\ lv[1] \in 1..MaxPages /\ maxKey(tree.page[1]) = absoluteMax
  BY <1>1, <1>2, SearchTreeIs
<1>. QED  BY <1>3 DEF SearchTreeOK

\* The fences of a tree are keys it has.
LEMMA FencesAre ==
    ASSUME NEW t, NEW M, NEW E, IsTree(t, M, E)
    PROVE  Fences(t) = E /\ \A f \in E : M[f] # -1
<1>1. PICK T, lv, lo, F : Shape(t.page, T, lv, lo, M, 0, 0) /\ Store(t, T, F) /\ E = Fen(t.page, T, lv)
  BY DEF IsTree
<1>2. lv[1] <= MaxPages
  BY <1>1, LevelsBound
<1>3. Leaves(t) = {p \in T : lv[p] = 0}
  BY <1>1, <1>2, IterateIs
<1>4. ASSUME NEW p \in T
      PROVE  /\ maxKey(t.page[p]) = Top(t.page[p].kv) /\ Len(t.page[p].kv) \in 1..Len(t.page[p].kv)
             /\ t.page[p].kv[Len(t.page[p].kv)].val \in Nat
  <2>1. ShapeType(t.page, T, lv, lo, M) /\ Node(t.page, T, lv, lo, M, 0, p)
    BY <1>1, ShapeNode
  <2>. QED  BY <2>1, NodeFacts
<1>5. Fences(t) = E
  BY <1>1, <1>3, <1>4 DEF Fences, Fen
<1>6. ASSUME NEW f \in E  PROVE M[f] # -1
  <2>1. PICK p \in T : lv[p] = 0 /\ f = Top(t.page[p].kv)
    BY <1>1 DEF Fen
  <2>2. Contents(t.page[p].kv, lo[p], M)
    BY <1>1, <2>1, ShapeNode DEF Node
  <2>. DEFINE x == t.page[p].kv[Len(t.page[p].kv)].val
  <2>3. M[f] = x /\ x \in Nat
    BY <1>4, <2>1, <2>2 DEF Contents, Top
  <2>. HIDE DEF x
  <2>. QED  BY <2>3
<1>. QED  BY <1>5, <1>6

\* get returns the value of the table, and 0 for a key that is not in it.
LEMMA MapIs ==
    ASSUME NEW t, NEW M, NEW E, IsTree(t, M, E)
    PROVE  /\ M \in Tables
           /\ \A k \in Keys : k \in 1..absoluteMax /\ get(t, k) = Value(M, k)
           /\ [k \in Keys |-> get(t, k)] = [k \in Keys |-> Value(M, k)]
<1>1. PICK T, lv, lo, F : Shape(t.page, T, lv, lo, M, 0, 0) /\ Store(t, T, F)
  BY DEF IsTree
<1>2. lv[1] <= MaxPages
  BY <1>1, LevelsBound
<1>3. M \in Tables
  BY <1>1 DEF Shape, ShapeType
<1>4. \A k \in Keys : k \in 1..absoluteMax
  BY TreeConstants
<1>5. \A k \in Keys : get(t, k) = Value(M, k)
  BY <1>1, <1>2, <1>4, GetIs
<1>. QED  BY <1>3, <1>4, <1>5

-----------------------------------------------------------------------------
(* The inductive invariant *)

\* Tree t maps keys to what M says, counts the keys it has, and has leaves up to the
\* keys of E.
Holds(t, M, E) == IsTree(t, M, E) /\ t.leafKeys = Cnt(M, 0, absoluteMax)

\* The pages of the tree are the shape of some table, and the pages of the file are
\* those of the tree and of the free list.
TreeInv == \E M, E : Holds(tree, M, E)

\* What DeleteBelow does to the table and the fences
Deletes(M, E, N, D, ts) == Lowers(M, N, ts, 0, absoluteMax) /\ FencesLower(N, ts, E, D, 0, absoluteMax)

\* What a step does to the table and the fences
Changes(M, E, N, D) ==
    \/ N = M /\ D = E
    \/ \E k \in Keys, v \in Vals : N = [M EXCEPT ![k] = v] /\ Fenced(E, D)
    \/ \E ts \in Limits : Deletes(M, E, N, D, ts)
    \/ \E v \in Vals : N = HigherTable(M, v) /\ D = E
    \/ N = FirstTable /\ D = {absoluteMax}

\* Set keeps the invariant.
LEMMA SetHolds ==
    ASSUME NEW t, NEW M, NEW E, Holds(t, M, E), 2 * t.nextPage <= MaxPages, NEW k \in Keys, NEW v \in Vals
    PROVE  \E D : Holds(TreeSet(t, k, v), [M EXCEPT ![k] = v], D) /\ Fenced(E, D)
<1>1. PICK T, lv, lo, F : Shape(t.page, T, lv, lo, M, 0, 0) /\ Store(t, T, F) /\ E = Fen(t.page, T, lv)
  BY DEF Holds, IsTree
<1>2. k \in 1..absoluteMax /\ v \in Vals \cup {0} /\ absoluteMax \in Nat /\ v # -1
  BY TreeConstants
<1>. DEFINE N == [M EXCEPT ![k] = v]
            u == TreeSet(t, k, v)
<1>3. u.leafKeys = t.leafKeys + (IF M[k] = -1 THEN 1 ELSE 0) /\ \E D : IsTree(u, N, D) /\ Fenced(E, D)
  <2>1. SetGives(t, M, E, k, v, u)
    BY <1>1, <1>2, TreeSetIs
  <2>. HIDE DEF u
  <2>. QED  BY <2>1 DEF SetGives
<1>4. M \in Tables
  BY <1>1 DEF Shape, ShapeType
<1>5. Cnt(N, 0, absoluteMax) = Cnt(M, 0, absoluteMax) + IF M[k] = -1 THEN 1 ELSE 0
  <2>1. k \in (0 + 1)..absoluteMax /\ 0 \in Nat
    BY <1>2
  <2>2. N[k] # -1 /\ \A j \in (0 + 1)..absoluteMax : j # k => N[j] = M[j]
    BY <1>2, <1>4 DEF Tables
  <2>. HIDE DEF N
  <2>. QED  BY <1>2, <2>1, <2>2, CntSet
<1>6. t.leafKeys = Cnt(M, 0, absoluteMax)
  BY DEF Holds
<1>. HIDE DEF N, u
<1>7. u.leafKeys = Cnt(N, 0, absoluteMax)
  BY <1>3, <1>5, <1>6
<1>8. \E D : Holds(u, N, D) /\ Fenced(E, D)
  BY <1>3, <1>7 DEF Holds
<1>. QED  BY <1>8 DEF u, N

\* IterateKV keeps the invariant.
LEMMA IterateHolds ==
    ASSUME NEW t, NEW M, NEW E, Holds(t, M, E), NEW v \in Vals
    PROVE  Holds(IterateKV(t, v), HigherTable(M, v), E)
BY IterateKVIs DEF Holds

\* Every step keeps the invariant, for a table that it changes as the map may change.
LEMMA StepHolds ==
    ASSUME NEW M, NEW E, Holds(tree, M, E), [TreeNext]_treeVars
    PROVE  \E N, D : Holds(tree', N, D) /\ Changes(M, E, N, D)
<1>0. IsTree(tree, M, E)
  BY DEF Holds
<1>1. CASE UNCHANGED tree
  BY <1>1 DEF Changes
<1>2. ASSUME NEW k \in Keys, NEW v \in Vals, DoSet(k, v)
      PROVE  \E N, D : Holds(tree', N, D) /\ Changes(M, E, N, D)
  <2>1. CASE tree' = TreeSet(tree, k, v)
    <3>1. 2 * tree.nextPage <= MaxPages
      BY <1>2 DEF DoSet, Room
    <3>2. PICK D : Holds(TreeSet(tree, k, v), [M EXCEPT ![k] = v], D) /\ Fenced(E, D)
      BY <3>1, SetHolds
    <3>3. Changes(M, E, [M EXCEPT ![k] = v], D)
      BY <3>2 DEF Changes
    <3>. QED  BY <2>1, <3>2, <3>3
  <2>2. tree' = TreeSet(tree, k, v) \/ UNCHANGED tree
    BY <1>2 DEF DoSet
  <2>. QED  BY <1>1, <2>1, <2>2
<1>3. ASSUME NEW ts \in Limits, DoDeleteBelow(ts)
      PROVE  \E N, D : Holds(tree', N, D) /\ Changes(M, E, N, D)
  <2>1. ts \in Nat /\ tree' = DeleteBelow(tree, ts)
    BY <1>3, TreeConstants DEF DoDeleteBelow
  <2>2. PICK N, D : /\ IsTree(DeleteBelow(tree, ts), N, D) /\ Lowers(M, N, ts, 0, absoluteMax)
                    /\ FencesLower(N, ts, E, D, 0, absoluteMax)
                    /\ DeleteBelow(tree, ts).leafKeys = Cnt(N, 0, absoluteMax)
    BY <1>0, <2>1, DeleteBelowIs
  <2>3. Holds(tree', N, D) /\ Deletes(M, E, N, D, ts)
    BY <2>1, <2>2 DEF Holds, Deletes
  <2>. QED  BY <2>3 DEF Changes
<1>4. ASSUME NEW v \in Vals, DoIterateKV(v)
      PROVE  \E N, D : Holds(tree', N, D) /\ Changes(M, E, N, D)
  <2>1. tree' = IterateKV(tree, v)
    BY <1>4 DEF DoIterateKV
  <2>2. Holds(tree', HigherTable(M, v), E)
    BY <2>1, IterateHolds
  <2>3. Changes(M, E, HigherTable(M, v), E)
    BY DEF Changes
  <2>. QED  BY <2>2, <2>3
<1>5. CASE DoReset
  <2>1. tree' = Reset(tree)
    BY <1>5 DEF DoReset
  <2>2. Holds(tree', FirstTable, {absoluteMax})
    BY <1>0, <2>1, ResetIs DEF Holds
  <2>3. Changes(M, E, FirstTable, {absoluteMax})
    BY DEF Changes
  <2>. QED  BY <2>2, <2>3
<1>6. CASE Reopen
  <2>1. tree' = reinit(Opened(tree)) \/ UNCHANGED tree
    BY <1>6 DEF Reopen
  <2>2. CASE tree' = reinit(Opened(tree))
    <3>1. Holds(tree', M, E)
      BY <1>0, <2>2, ReinitIs DEF Holds
    <3>2. Changes(M, E, M, E)
      BY DEF Changes
    <3>. QED  BY <3>1, <3>2
  <2>. QED  BY <1>1, <2>1, <2>2
<1>7. CASE TreeNext
  <2>1. \/ \E k \in Keys, v \in Vals : DoSet(k, v)
        \/ \E ts \in Limits : DoDeleteBelow(ts)
        \/ \E v \in Vals : DoIterateKV(v)
        \/ DoReset
        \/ Reopen
    BY <1>7 DEF TreeNext
  <2>. QED  BY <1>2, <1>3, <1>4, <1>5, <1>6, <2>1
<1>. QED  BY <1>1, <1>7 DEF treeVars

\* The invariant: the pages that the tree reaches from its root are the shape of a
\* table, with its keys in order and every leaf on one level, and the pages of the file
\* that are not in the tree are the free list, once each, through every Set,
\* DeleteBelow, IterateKV, Reset and reopening.
THEOREM TreeInvHolds == TreeSpec => []TreeInv
<1>1. TreeInit => TreeInv
  <2>. SUFFICES ASSUME TreeInit  PROVE TreeInv
    OBVIOUS
  <2>1. Holds(tree, FirstTable, {absoluteMax})
    BY NewTreeIs DEF TreeInit, Holds
  <2>. QED  BY <2>1 DEF TreeInv
<1>2. TreeInv /\ [TreeNext]_treeVars => TreeInv'
  <2>. SUFFICES ASSUME TreeInv, [TreeNext]_treeVars  PROVE TreeInv'
    OBVIOUS
  <2>1. PICK M, E : Holds(tree, M, E)
    BY DEF TreeInv
  <2>2. \E N, D : Holds(tree', N, D)
    BY <2>1, StepHolds
  <2>. QED  BY <2>2 DEF TreeInv
<1>. QED  BY <1>1, <1>2, PTL DEF TreeSpec

\* The tree is a search tree of one depth, and no page is full: after every operation,
\* Set finds room in the leaf and in each parent above it.
THEOREM TreeIsSearchTree == TreeSpec => []SearchTreeOK
<1>1. TreeInv => SearchTreeOK
  BY SearchIs DEF TreeInv, Holds
<1>. QED  BY <1>1, TreeInvHolds, PTL

\* Every page in use is in the tree, in one place, or in the free list, once: what
\* DeleteBelow drops and newNode takes is neither lost nor shared.
THEOREM TreePagesAccounted == TreeSpec => []PagesAccounted
<1>1. TreeInv => PagesAccounted
  BY AccountedIs DEF TreeInv, Holds
<1>. QED  BY <1>1, TreeInvHolds, PTL

\* The counts that Stats returns are exact, those that Set and compact keep as well as
\* those that reinit counts anew.
THEOREM TreeStatsExact == TreeSpec => []StatsExact
<1>1. TreeInv => StatsExact
  BY StatsIs DEF TreeInv, Holds
<1>. QED  BY <1>1, TreeInvHolds, PTL

-----------------------------------------------------------------------------
(* The tree implements the map. *)

MapOf(M) == [k \in Keys |-> Value(M, k)]

\* The value of a key that the map shows
LEMMA ValueType ==
    ASSUME NEW M \in Tables, NEW k \in Keys
    PROVE  M[k] \in Int /\ Value(M, k) \in Vals \cup {0} /\ Value(M, k) \in Nat
<1>1. k \in 1..absoluteMax /\ Vals \subseteq Nat
  BY TreeConstants
<1>2. M[k] \in Vals \cup {0, -1}
  BY <1>1 DEF Tables
<1>3. M[k] = -1 \/ M[k] \in Vals \cup {0}
  BY <1>2
<1>4. 0 \in Nat /\ -1 \in Int /\ \A x \in Vals \cup {0} : x \in Nat /\ x \in Int
  BY <1>1
<1>. QED  BY <1>3, <1>4 DEF Value

\* What DeleteBelow does to the values that get returns: it takes every value below ts
\* that is not a fence's.
LEMMA DeletesValues ==
    ASSUME NEW M \in Tables, NEW N \in Tables, NEW E, NEW D, NEW ts \in Nat, Deletes(M, E, N, D, ts),
           \A f \in D : N[f] # -1, NEW k \in Keys
    PROVE  Value(N, k) = IF Value(M, k) < ts /\ k \notin D THEN 0 ELSE Value(M, k)
<1>1. k \in 1..absoluteMax /\ 0 < k /\ k <= absoluteMax
  BY TreeConstants
<1>2. N[k] = M[k] \/ (N[k] = -1 /\ M[k] < ts)
  BY <1>1 DEF Deletes, Lowers
<1>3. N[k] # -1 /\ N[k] < ts => k \in D
  BY <1>1 DEF Deletes, FencesLower
<1>4. k \in D => N[k] # -1
  OBVIOUS
<1>5. M[k] \in Int /\ N[k] \in Int
  BY ValueType
<1>6. CASE M[k] = -1
  BY <1>2, <1>6 DEF Value
<1>7. CASE M[k] # -1 /\ N[k] = -1
  <2>1. Value(M, k) = M[k] /\ Value(N, k) = 0 /\ M[k] < ts /\ k \notin D
    BY <1>2, <1>4, <1>7 DEF Value
  <2>. QED  BY <2>1
<1>8. CASE M[k] # -1 /\ N[k] # -1
  <2>1. Value(M, k) = M[k] /\ Value(N, k) = M[k] /\ (M[k] < ts => k \in D)
    BY <1>2, <1>3, <1>8 DEF Value
  <2>. QED  BY <2>1
<1>. QED  BY <1>6, <1>7, <1>8

\* The map before and after a step, for the tables before and after it
LEMMA MapSteps ==
    ASSUME NEW M \in Tables, NEW N \in Tables, NEW E, NEW D, Changes(M, E, N, D), \A f \in D : N[f] # -1,
           [k \in Keys |-> get(tree, k)] = MapOf(M), [k \in Keys |-> get(tree, k)]' = MapOf(N),
           Fences(tree) = E, Fences(tree)' = D
    PROVE  [Map!MapNext]_<<[k \in Keys |-> get(tree, k)], Fences(tree)>>
<1>. DEFINE m == [k \in Keys |-> get(tree, k)]
            e == Fences(tree)
<1>1. m = MapOf(M) /\ m' = MapOf(N) /\ e = E /\ e' = D
  OBVIOUS
<1>. HIDE DEF m, e
<1>2. CASE N = M /\ D = E
  BY <1>1, <1>2 DEF m, e
<1>3. ASSUME NEW k \in Keys, NEW v \in Vals, N = [M EXCEPT ![k] = v], Fenced(E, D)  PROVE Map!MapNext
  <2>1. k \in 1..absoluteMax /\ v # -1 /\ Keys \subseteq 1..absoluteMax
    BY TreeConstants
  <2>2. \A j \in Keys : Value(N, j) = IF j = k THEN v ELSE Value(M, j)
    BY <1>3, <2>1 DEF Tables, Value
  <2>3. MapOf(N) = [MapOf(M) EXCEPT ![k] = v]
    BY <2>2 DEF MapOf
  <2>4. e' = e \/ \E f \in 1..absoluteMax : e' = e \cup {f}
    BY <1>1, <1>3 DEF Fenced
  <2>5. Map!Set(k, v)
    BY <1>1, <2>3, <2>4 DEF Map!Set, m, e
  <2>. QED  BY <2>5 DEF Map!MapNext
<1>4. ASSUME NEW ts \in Limits, Deletes(M, E, N, D, ts)  PROVE Map!MapNext
  <2>0. ts \in Nat
    BY TreeConstants
  <2>1. \A k \in Keys : Value(N, k) = IF Value(M, k) < ts /\ k \notin D THEN 0 ELSE Value(M, k)
    BY <1>4, <2>0, DeletesValues
  <2>2. MapOf(N) = [k \in Keys |-> IF MapOf(M)[k] < ts /\ k \notin D THEN 0 ELSE MapOf(M)[k]]
    BY <2>1 DEF MapOf
  <2>3. D \subseteq E
    BY <1>4 DEF Deletes, FencesLower
  <2>4. Map!DeleteBelow(ts)
    BY <1>1, <2>2, <2>3 DEF Map!DeleteBelow, m, e
  <2>. QED  BY <2>4 DEF Map!MapNext
<1>5. ASSUME NEW v \in Vals, N = HigherTable(M, v), D = E  PROVE Map!MapNext
  <2>1. ASSUME NEW k \in Keys
        PROVE  Value(N, k) = IF Value(M, k) \in 1..(v - 1) THEN v ELSE Value(M, k)
    <3>1. k \in 1..absoluteMax /\ v \in Nat /\ v # 0 /\ 0 \notin Vals
      BY TreeConstants
    <3>2. N[k] = Higher(M[k], v)
      BY <1>5, <3>1 DEF HigherTable
    <3>3. M[k] = -1 \/ M[k] \in Nat
      <4>1. M[k] \in Vals \cup {0, -1}
        BY <3>1 DEF Tables
      <4>2. \A x \in Vals \cup {0} : x \in Nat
        BY TreeConstants
      <4>. QED  BY <4>1, <4>2
    <3>4. CASE M[k] = -1
      BY <3>1, <3>2, <3>4 DEF Value, Higher
    <3>5. CASE M[k] \in Nat
      BY <3>1, <3>2, <3>5 DEF Value, Higher
    <3>. QED  BY <3>3, <3>4, <3>5
  <2>2. MapOf(N) = [k \in Keys |-> IF MapOf(M)[k] \in 1..(v - 1) THEN v ELSE MapOf(M)[k]]
    BY <2>1 DEF MapOf
  <2>3. Map!Raise(v)
    BY <1>1, <1>5, <2>2 DEF Map!Raise, m, e
  <2>. QED  BY <2>3 DEF Map!MapNext
<1>6. ASSUME N = FirstTable, D = {absoluteMax}  PROVE Map!MapNext
  <2>1. \A k \in Keys : Value(N, k) = 0
    <3>1. Keys \subseteq 1..absoluteMax
      BY TreeConstants
    <3>. QED  BY <1>6, <3>1, FirstTableIs DEF Value
  <2>2. MapOf(N) = [k \in Keys |-> 0]
    BY <2>1 DEF MapOf
  <2>3. Map!Reset
    BY <1>1, <1>6, <2>2 DEF Map!Reset, Map!Empty, m, e
  <2>. QED  BY <2>3 DEF Map!MapNext
<1>. QED  BY <1>2, <1>3, <1>4, <1>5, <1>6 DEF Changes, m, e

\* Get returns what the last Set, DeleteBelow, IterateKV or Reset left of a key, through
\* splits, pages dropped and reused, and files closed and opened: every step of the
\* tree is a step of the map, or leaves it alone.  DeleteBelow takes every value below
\* its limit but those of the greatest keys of leaves.
THEOREM TreeIsMap == TreeSpec => TreeImplementsMap
<1>1. TreeInit => Map!MapInit
  <2>. SUFFICES ASSUME TreeInit  PROVE Map!MapInit
    OBVIOUS
  <2>1. IsTree(tree, FirstTable, {absoluteMax})
    BY NewTreeIs DEF TreeInit
  <2>2. [k \in Keys |-> get(tree, k)] = [k \in Keys |-> Value(FirstTable, k)] /\ Fences(tree) = {absoluteMax}
    BY <2>1, MapIs, FencesAre
  <2>3. \A k \in Keys : Value(FirstTable, k) = 0
    <3>1. Keys \subseteq 1..absoluteMax
      BY TreeConstants
    <3>. QED  BY <3>1, FirstTableIs DEF Value
  <2>. QED  BY <2>2, <2>3 DEF Map!MapInit, Map!Empty
<1>2. TreeInv /\ [TreeNext]_treeVars => [Map!MapNext]_<<[k \in Keys |-> get(tree, k)], Fences(tree)>>
  <2>. SUFFICES ASSUME TreeInv, [TreeNext]_treeVars
                PROVE  [Map!MapNext]_<<[k \in Keys |-> get(tree, k)], Fences(tree)>>
    OBVIOUS
  <2>1. PICK M, E : Holds(tree, M, E)
    BY DEF TreeInv
  <2>2. PICK N, D : Holds(tree', N, D) /\ Changes(M, E, N, D)
    BY <2>1, StepHolds
  <2>3. M \in Tables /\ [k \in Keys |-> get(tree, k)] = MapOf(M) /\ Fences(tree) = E
    BY <2>1, MapIs, FencesAre DEF Holds, MapOf
  <2>4. /\ N \in Tables /\ [k \in Keys |-> get(tree', k)] = MapOf(N) /\ Fences(tree') = D
        /\ \A f \in D : N[f] # -1
    BY <2>2, MapIs, FencesAre DEF Holds, MapOf
  <2>. QED  BY <2>2, <2>3, <2>4, MapSteps
<1>. QED  BY <1>1, <1>2, TreeInvHolds, PTL DEF TreeSpec, TreeImplementsMap, Map!MapSpec
=============================================================================
