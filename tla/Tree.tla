-------------------------------- MODULE Tree --------------------------------
(***************************************************************************)
(* The B+ tree of z/btree.go in its memory-mapped file (z/buffer.go).      *)
(*                                                                         *)
(* A page is its page id (0 if it was never used), its leaf bit and its    *)
(* key-value pairs; numKeys is their number, since the code keeps the rest *)
(* of a page zero.  An internal page has <key, page> pairs.  A free page   *)
(* keeps the next free page in the place of its first key.                 *)
(*                                                                         *)
(* The tree is a value t that the operators below take and return, as the  *)
(* methods change the receiver.  A method that calls itself for the pages  *)
(* below is a recursive function of the number of levels it may go down,   *)
(* at most MaxPages: more than there are levels in a tree of that many     *)
(* pages.                                                                  *)
(***************************************************************************)
EXTENDS Integers, SequencesExt

CONSTANTS
    Keys,           \* the keys that users set, up to absoluteMax
    absoluteMax,    \* the key that is always present
    Vals,           \* the values that users set, above 0
    Limits,         \* the arguments of DeleteBelow
    maxKeys,        \* number of pairs of a full page
    MaxPages,       \* bound on the number of pages
    pageSize,       \* size of a page, in words
    padding,        \* unused words at the start of the file
    minSize,        \* initial size of the file, in words
    growLimit       \* most that the file grows at a time, 1 GB

ASSUME TreeConstants ==
    /\ absoluteMax \in Nat \ {0} /\ Keys \subseteq 1..absoluteMax
    /\ Vals \subseteq Nat \ {0} /\ Limits \subseteq Nat
    /\ maxKeys \in Nat /\ maxKeys > 2
    /\ MaxPages \in Nat /\ MaxPages >= 3 /\ pageSize \in Nat \ {0} /\ padding \in Nat
    /\ minSize \in Nat /\ minSize > 3 * pageSize + padding /\ growLimit \in Nat

VARIABLES
    tree,           \* the tree
    crashed         \* an access outside the mapped file ended the program

treeVars == <<tree, crashed>>

Pids == 1..MaxPages
Trees == [page : [Pids -> [id : Nat, leaf : BOOLEAN, kv : Seq([key : Nat, val : Nat])]],
          nextPage : Nat, freePage : Nat, leafKeys : Int, pagesFree : Int, data : Nat, file : Nat]

NoPage == [id |-> 0, leaf |-> FALSE, kv |-> <<>>]
Pair(k, v) == [key |-> k, val |-> v]

-----------------------------------------------------------------------------
(* A page *)

isFull(n) == Len(n.kv) = maxKeys
maxKey(n) == IF n.kv = <<>> THEN 0 ELSE Last(n.kv).key

\* The index of the smallest key >= k, one past the last when there is none
search(n, k) ==
    LET found == {i \in 1..Len(n.kv) : n.kv[i].key >= k}
    IN  IF found = {} THEN Len(n.kv) + 1 ELSE Min(found)

Has(n, k) == search(n, k) <= Len(n.kv) /\ n.kv[search(n, k)].key = k

\* node.get: 0 if there is no such key
nodeGet(n, k) == IF Has(n, k) THEN n.kv[search(n, k)].val ELSE 0

\* node.set: the pairs behind a new key move right.
nodeSet(n, k, v) ==
    [n EXCEPT !.kv = IF Has(n, k) THEN ReplaceAt(@, search(n, k), Pair(k, v))
                     ELSE InsertAt(@, search(n, k), Pair(k, v))]

\* Mutant: the greatest key goes like any other.
nodeCompactAll(n, lo) == [n EXCEPT !.kv = SelectSeq(@, LAMBDA e : e.val >= lo)]

\* node.compact: pairs with a value below lo go, but never the greatest key.
nodeCompact(n, lo) ==
    LET left[i \in 0..Len(n.kv)] ==
            IF i = 0 THEN <<>>
            ELSE IF n.kv[i].val < lo /\ n.kv[i].key < maxKey(n) THEN left[i - 1]
            ELSE Append(left[i - 1], n.kv[i])
    IN  [n EXCEPT !.kv = left[Len(n.kv)]]

\* What node.compact returns: 0 if only the greatest key is left, and is to go
Remaining(n, lo) == IF Len(n.kv) = 1 /\ n.kv[1].val < lo THEN 0 ELSE Len(n.kv)

-----------------------------------------------------------------------------
(* Pages of the file *)

\* What Grow adds to the file: at most growLimit, but enough for n
GrowBy(t, n) == Max({Min({t.file + n, growLimit}), n})

\* Buffer.AllocateOffset(n), with Grow when the file is full.  A tree's buffer has no
\* maxSz.
AllocateOffset(t, n) ==
    [t EXCEPT !.data = @ + n,
              !.file = IF padding + t.data + n < @ THEN @ ELSE @ + GrowBy(t, n)]

TakeFree(t) == [t EXCEPT !.freePage = t.page[t.freePage].kv[1].key, !.pagesFree = @ - 1]

TakeNext(t) ==
    LET missing == (t.nextPage + 1) * pageSize - t.data
        u == [t EXCEPT !.nextPage = @ + 1]
    IN  IF missing > 0 THEN AllocateOffset(u, missing) ELSE u

\* The page that newNode returns
NewPid(t) == IF t.freePage > 0 THEN t.freePage ELSE t.nextPage

newNode(t, leaf) ==
    LET u == IF t.freePage > 0 THEN TakeFree(t) ELSE TakeNext(t)
    IN  [u EXCEPT !.page[NewPid(t)] = [id |-> NewPid(t), leaf |-> leaf, kv |-> <<>>]]

\* The right half moves to a new page, NewPid(t).
split(t, pid) ==
    LET n == t.page[pid]
        half == maxKeys \div 2
        u == newNode(t, n.leaf)
    IN  [u EXCEPT !.page[NewPid(t)].kv = SubSeq(n.kv, half + 1, maxKeys),
                  !.page[pid].kv = SubSeq(n.kv, 1, half)]

-----------------------------------------------------------------------------
(* Set *)

\* Page pid with an entry and a child for key k.  Only the root of a new tree lacks
\* them.
WithKey(t, pid, k) ==
    IF search(t.page[pid], k) <= Len(t.page[pid].kv) THEN t
    ELSE [t EXCEPT !.page[pid].kv = Append(@, Pair(k, 0))]
WithChild(t, pid, k) ==
    LET u == WithKey(t, pid, k)
        idx == search(u.page[pid], k)
    IN  IF u.page[pid].kv[idx].val # 0 THEN u
        ELSE [newNode(u, TRUE) EXCEPT !.page[pid].kv[idx].val = NewPid(u)]

\* Mutant: the parent is not told of the left half's greatest key.
LinkRightOnly(t, pid, child, nn) ==
    [t EXCEPT !.page[pid] = nodeSet(@, maxKey(t.page[nn]), nn)]

\* The two halves of a child under their greatest keys; the one of the right half
\* is there already.
Link(t, pid, child, nn) ==
    [t EXCEPT !.page[pid] =
        nodeSet(nodeSet(@, maxKey(t.page[child]), child), maxKey(t.page[nn]), nn)]

Child(t, pid, k) == t.page[pid].kv[search(t.page[pid], k)].val

SetLeaf(t, pid, k, v) ==
    [t EXCEPT !.page[pid] = nodeSet(@, k, v),
              !.leafKeys = IF Has(t.page[pid], k) THEN @ ELSE @ + 1]

\* set on an internal page, with below[p][u] for set on page p of tree u
SetBelow(t, pid, k, below) ==
    LET u == WithChild(t, pid, k)
        child == Child(u, pid, k)
        w == below[child][u]
    IN  IF isFull(w.page[child]) THEN Link(split(w, child), pid, child, NewPid(w)) ELSE w

set(t, k, v) ==
    LET at[n \in 0..MaxPages] == [pid \in Pids |-> [u \in Trees |->
            IF n = 0 \/ u.page[pid].leaf THEN SetLeaf(u, pid, k, v)
            ELSE SetBelow(u, pid, k, at[n - 1])]]
    IN  at[MaxPages][1][t]

\* A full root: its halves become the children of an empty root.
SplitRoot(t) ==
    LET right == NewPid(t)
        u == split(t, 1)
        left == NewPid(u)
        w == newNode(u, t.page[1].leaf)
        moved == [w EXCEPT !.page[left].kv = u.page[1].kv, !.page[1].kv = <<>>]
    IN  Link(moved, 1, left, right)

TreeSet(t, k, v) ==
    LET u == set(t, k, v) IN IF isFull(u.page[1]) THEN SplitRoot(u) ELSE u

\* Set reads the bits of root after split(1), and right after newNode, from slices
\* of the mapping that these calls may have replaced.
ReadsStale(t, k, v) ==
    LET u == set(t, k, v) IN isFull(u.page[1]) /\ SplitRoot(u).file # u.file

-----------------------------------------------------------------------------
(* Get, DeleteBelow, Iterate *)

get(t, k) ==
    LET at[n \in 0..MaxPages] == [pid \in Pids |->
            IF n = 0 \/ t.page[pid].leaf THEN nodeGet(t.page[pid], k)
            ELSE IF search(t.page[pid], k) > Len(t.page[pid].kv) THEN 0
            ELSE at[n - 1][Child(t, pid, k)]]
    IN  at[MaxPages][1]

\* Mutant: the keys of the leaf stay counted.
DropCounted(t, pid, i) ==
    LET child == t.page[pid].kv[i].val IN
    [t EXCEPT !.page = [@ EXCEPT ![child].kv[1].key = t.freePage, ![pid].kv[i].val = 0],
              !.freePage = child,
              !.pagesFree = @ + 1]

\* Child number i of page pid, a leaf without a valid key, goes to the free list.
\* Its first key is overwritten; it keeps its number of keys.
Drop(t, pid, i) ==
    LET child == t.page[pid].kv[i].val IN
    [t EXCEPT !.leafKeys = @ - Len(t.page[child].kv),
              !.page = [@ EXCEPT ![child].kv[1].key = t.freePage, ![pid].kv[i].val = 0],
              !.freePage = child,
              !.pagesFree = @ + 1]

\* Mutant: off by one, a leaf keeps the values just below lo.
CompactedLater(t, pid, lo) ==
    LET n == nodeCompact(t.page[pid], IF t.page[pid].leaf THEN lo - 1 ELSE lo)
    IN  [tree |-> [t EXCEPT !.page[pid] = n,
                            !.leafKeys = IF n.leaf THEN @ + Len(n.kv) ELSE @],
         rem |-> Remaining(n, lo)]

\* node.compact on page pid, with what compact returns
Compacted(t, pid, lo) ==
    LET n == nodeCompact(t.page[pid], lo)
    IN  [tree |-> [t EXCEPT !.page[pid] = n,
                            !.leafKeys = IF n.leaf THEN @ + Len(n.kv) ELSE @],
         rem |-> Remaining(n, lo)]

\* Child i of page pid is done, with result w.
DropIfEmpty(w, pid, i) ==
    IF w.rem = 0 /\ i < Len(w.tree.page[pid].kv) THEN Drop(w.tree, pid, i) ELSE w.tree

\* compact on an internal page, with below[p][u] for compact on page p of tree u
CompactBelow(t, pid, below) ==
    LET after[i \in 0..Len(t.page[pid].kv)] ==
            IF i = 0 THEN t
            ELSE DropIfEmpty(below[after[i - 1].page[pid].kv[i].val][after[i - 1]], pid, i)
    IN  Compacted(after[Len(t.page[pid].kv)], pid, 1)

compact(t, ts) ==
    LET at[n \in 0..MaxPages] == [pid \in Pids |-> [u \in Trees |->
            IF n = 0 \/ u.page[pid].leaf THEN Compacted(u, pid, ts)
            ELSE CompactBelow(u, pid, at[n - 1])]]
    IN  at[MaxPages][1][t]

DeleteBelow(t, ts) == compact([t EXCEPT !.leafKeys = 0], ts).tree

\* The pages that Iterate visits, level by level; the order makes no difference here.
Below(t, pids) ==
    UNION {{t.page[p].kv[i].val : i \in 1..Len(t.page[p].kv)} :
              p \in {p \in pids : ~t.page[p].leaf}}
iterate(t) ==
    LET level[n \in 0..MaxPages] == IF n = 0 THEN {1} ELSE Below(t, level[n - 1])
    IN  UNION {level[n] : n \in 0..MaxPages}

Leaves(t) == {p \in iterate(t) : t.page[p].leaf}

\* The number of keys in these pages
KeysIn(t, pids) == Cardinality(UNION {{p} \X (1..Len(t.page[p].kv)) : p \in pids})

\* The function that users pass to IterateKV here raises values below v to v, and
\* returns 0 for others.
Raised(val, v) == IF val < v THEN v ELSE 0

\* IterateKV passes over a pair without a value, and leaves one alone for which the
\* function returns 0.
IteratedPair(e, v) ==
    IF e.val = 0 \/ Raised(e.val, v) = 0 THEN e ELSE Pair(e.key, Raised(e.val, v))
IteratedPage(n, v) == [n EXCEPT !.kv = [i \in DOMAIN n.kv |-> IteratedPair(n.kv[i], v)]]
IterateKV(t, v) ==
    LET leaves == Leaves(t)
    IN  [t EXCEPT !.page = [p \in Pids |-> IF p \in leaves THEN IteratedPage(t.page[p], v)
                                           ELSE t.page[p]]]

-----------------------------------------------------------------------------
(* Creation, Reset, and opening a file *)

initRootNode(t) == TreeSet(newNode(t, FALSE), absoluteMax, 0)

ZeroTree(data, file) ==
    [page |-> [p \in 1..MaxPages |-> NoPage], nextPage |-> 1, freePage |-> 0,
     leafKeys |-> 0, pagesFree |-> 0, data |-> data, file |-> file]

\* Reset, which NewTree calls too: the buffer is cleared and minSize allocated.
Reset(t) == initRootNode(AllocateOffset(ZeroTree(0, t.file), minSize))

\* NewTreePersistent: all of the file but the padding is data.
Opened(t) == [t EXCEPT !.data = t.file - padding]

\* reinit looks for the first page without an id, and slices each page it looks
\* at; a page that the end of the file cuts cannot be sliced.
PastLast(t) ==
    Min({p \in 1..MaxPages : p * pageSize >= t.data \/ t.page[p].id = 0})
Cut(t) == PastLast(t) * pageSize < t.data /\ t.data < (PastLast(t) + 1) * pageSize

\* Mutant: the last page found is taken for the head.
HeadLast(t, free, pointed) == IF free = {} THEN 0 ELSE Max(free)

\* The head of the free list: the free page that no free page points to
FreeHead(t, free, pointed) == IF free \ pointed = {} THEN 0 ELSE Min(free \ pointed)

reinit(t) ==
    LET free == (1..(PastLast(t) - 1)) \ iterate(t)
        pointed == {t.page[p].kv[1].key : p \in free}
    IN  [t EXCEPT !.nextPage = PastLast(t),
                  !.freePage = FreeHead(t, free, pointed),
                  !.leafKeys = KeysIn(t, Leaves(t)),
                  !.pagesFree = Cardinality(free)]

-----------------------------------------------------------------------------
TreeInit ==
    /\ tree = initRootNode(Opened(ZeroTree(0, minSize)))
    /\ crashed = FALSE

\* The bound on the number of pages: a Set takes at most one page for each level and
\* two for a new root, and there are more pages than levels.
Room == 2 * tree.nextPage <= MaxPages

DoSet(k, v) ==
    /\ Room
    /\ \/ tree' = TreeSet(tree, k, v) /\ UNCHANGED crashed
       \/ ReadsStale(tree, k, v) /\ crashed' = TRUE /\ UNCHANGED tree

DoDeleteBelow(ts) == tree' = DeleteBelow(tree, ts) /\ UNCHANGED crashed

DoIterateKV(v) == tree' = IterateKV(tree, v) /\ UNCHANGED crashed

DoReset == tree' = Reset(tree) /\ UNCHANGED crashed

\* Close, and NewTreePersistent on the same file
Reopen ==
    LET t == Opened(tree) IN
    \/ Cut(t) /\ crashed' = TRUE /\ UNCHANGED tree
    \/ ~Cut(t) /\ tree' = reinit(t) /\ UNCHANGED crashed

TreeNext ==
    /\ ~crashed
    /\ \/ \E k \in Keys, v \in Vals : DoSet(k, v)
       \/ \E ts \in Limits : DoDeleteBelow(ts)
       \/ \E v \in Vals : DoIterateKV(v)
       \/ DoReset
       \/ Reopen

TreeSpec == TreeInit /\ [][TreeNext]_treeVars

-----------------------------------------------------------------------------
(* Properties *)

\* The greatest keys of the leaves
Fences(t) == {maxKey(t.page[p]) : p \in Leaves(t)}

Map == INSTANCE SortedMap WITH map <- [k \in Keys |-> get(tree, k)], fences <- Fences(tree)

\* Get returns what the last Set, DeleteBelow, IterateKV or Reset left of a key,
\* through splits, dropped and reused pages and reopening of the file, and DeleteBelow
\* leaves no key below its limit but the greatest of a leaf: the tree implements the map.
TreeImplementsMap == Map!MapSpec

Above(kv, lo, i) == IF i = 1 THEN lo ELSE kv[i - 1].key

\* The keys of page pid and below it are above lo and in order, and each key of an
\* internal page is the greatest one of its child; the leaves are n levels below.
SearchTreeBelow(t, pid, lo, n, below) ==
    LET kv == t.page[pid].kv IN
    /\ Len(kv) \in 1..(maxKeys - 1)
    /\ \A i \in 1..Len(kv) : Above(kv, lo, i) < kv[i].key
    /\ t.page[pid].leaf <=> n = 0
    /\ n > 0 => \A i \in 1..Len(kv) : /\ kv[i].key = maxKey(t.page[kv[i].val])
                                     /\ below[kv[i].val][Above(kv, lo, i)]

SearchTree(t, depth) ==
    LET at[n \in 0..MaxPages] == [pid \in Pids |-> [lo \in Nat |->
            IF n = 0 THEN SearchTreeBelow(t, pid, lo, n, <<>>)
            ELSE SearchTreeBelow(t, pid, lo, n, at[n - 1])]]
    IN  at[depth][1][0]

\* The tree is a search tree of one depth, and no page is full: every Set finds room
\* in its leaf, and the key that a split adds to the parent has its place.
SearchTreeOK ==
    /\ \E depth \in 1..MaxPages : SearchTree(tree, depth)
    /\ maxKey(tree.page[1]) = absoluteMax

\* The free list, ending with zeros
FreeList(t) ==
    LET list[i \in 0..MaxPages] ==
            IF i = 0 THEN t.freePage
            ELSE IF list[i - 1] = 0 THEN 0 ELSE t.page[list[i - 1]].kv[1].key
    IN  list

Listed(t) == {i \in 0..MaxPages : FreeList(t)[i] # 0}

\* Every page in use is either in the tree, in one place, or in the free list, once.
\* Pages that DeleteBelow drops and Set reuses are neither lost nor shared, and
\* reinit finds the same again.
PagesAccounted ==
    LET pids == iterate(tree)
        free == FreeList(tree)
        Pointed(p) == IF tree.page[p].leaf THEN {} ELSE 1..Len(tree.page[p].kv)
    IN  /\ \A p, q \in pids : \A i \in Pointed(p), j \in Pointed(q) :
              tree.page[p].kv[i].val = tree.page[q].kv[j].val => p = q /\ i = j
        /\ \A p \in pids : \A i \in Pointed(p) : tree.page[p].kv[i].val # 1
        /\ \A i, j \in Listed(tree) : free[i] = free[j] => i = j
        /\ pids \cap {free[i] : i \in Listed(tree)} = {}
        /\ pids \cup {free[i] : i \in Listed(tree)} = 1..(tree.nextPage - 1)
        /\ \A p \in Pids : tree.page[p].id = IF p < tree.nextPage THEN p ELSE 0

\* The running counts of Stats are exact, also those that reinit counts anew.
StatsExact ==
    /\ tree.pagesFree = Cardinality(Listed(tree))
    /\ tree.leafKeys = KeysIn(tree, Leaves(tree))

\* DeleteBelow deletes all keys with a value below ts, as its comment says
\* (btree.go:352).  It does not: it keeps the greatest key of a leaf.
DeleteBelowDeletesAll ==
    [][\A ts \in Limits : DoDeleteBelow(ts) =>
          \A k \in Keys : get(tree', k) = 0 \/ get(tree', k) >= ts]_treeVars

\* A file that was closed can be opened again, and no Set reads a mapping that is
\* gone.
NoCrash == ~crashed
=============================================================================
