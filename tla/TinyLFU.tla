------------------------------ MODULE TinyLFU ------------------------------
(***************************************************************************)
(* The admission helper of the policy (policy.go, tinyLFU): a count-min    *)
(* sketch of 4-bit counters (sketch.go) behind a Bloom filter, the         *)
(* doorkeeper (z/bbloom.go).  All of it runs under the policy's lock, so   *)
(* each call is one step.  A batch that Push takes is a run of Increments. *)
(*                                                                         *)
(* The bits are the code's: two counters to a byte, halved together by one *)
(* shift and one mask; the doorkeeper's locations come from the high and   *)
(* the low bits of the hash.  Bytes and bit patterns are numbers, the      *)
(* bitset of the doorkeeper is the set of the indices of its ones.         *)
(***************************************************************************)
EXTENDS Integers, FiniteSetsExt

CONSTANTS Hashes,       \* the key hashes that are counted
          Seeds,        \* values a row's seed may have
          NumCounters,  \* Config.NumCounters: also the aging period
          Width,        \* counters in a row: NumCounters rounded to a power of 2
          Slot(_, _),   \* (hash ^ seed) & mask
          HashSpace,    \* number of hashes (2^64)
          DoorBits,     \* bits of the doorkeeper, a power of 2
          SetLocs       \* bits set for a hash (7 at the 1% the code asks for)

cmDepth == 4
Rows == 1..cmDepth
Slots == 0..Width - 1

(* XOR with a seed permutes the slots, so whether two hashes collide does   *)
(* not depend on the seed.  Width is even: a single counter would leave a   *)
(* row without a byte, and its first use would be out of range.             *)
ASSUME TinyLFUConstants ==
  /\ NumCounters \in Nat \ {0}
  /\ Width \in Nat \ {0} /\ Width % 2 = 0
  /\ HashSpace \in Nat /\ DoorBits \in 1..HashSpace /\ SetLocs \in Nat
  /\ Hashes \subseteq 0..HashSpace - 1
  /\ \A h \in Hashes, s \in Seeds : Slot(h, s) \in Slots
  /\ \A h, k \in Hashes, s, t \in Seeds :
       Slot(h, s) = Slot(k, s) => Slot(h, t) = Slot(k, t)

VARIABLES rows,    \* rows[i]: the bytes of row i
          seed,    \* seed[i]: drawn at random when the sketch is made
          door,    \* indices of the doorkeeper's ones
          incrs    \* increments since the last aging

lfuVars == <<rows, seed, door, incrs>>

-----------------------------------------------------------------------------
(* Rows of counters.                                                        *)

Bytes == 0..255
Row == [0..(Width \div 2) - 1 -> Bytes]

(* 1 << ((n & 1) * 4) *)
Unit(n) == IF n % 2 = 0 THEN 1 ELSE 16

get(r, n) == (r[n \div 2] \div Unit(n)) % 16

\* Mutant: the guard against overflow is missing.
incrementWraps(r, n) == [r EXCEPT ![n \div 2] = (@ + Unit(n)) % 256]

(* A counter stops at 15. *)
increment(r, n) ==
  IF get(r, n) < 15 THEN [r EXCEPT ![n \div 2] = (@ + Unit(n)) % 256] ELSE r

(* b & 0x77: bits 3 and 7, which the shift brought over, are dropped.       *)
And77(b) == b - 8 * ((b \div 8) % 2) - 128 * ((b \div 128) % 2)

\* Mutant: the mask is forgotten.
resetUnmasked(r) == [i \in DOMAIN r |-> r[i] \div 2]

reset(r) == [i \in DOMAIN r |-> And77(r[i] \div 2)]

clear(r) == [i \in DOMAIN r |-> 0]

-----------------------------------------------------------------------------
(* The doorkeeper.                                                          *)

Locations(hash) ==
  LET h == hash \div (HashSpace \div DoorBits)
      l == hash % DoorBits
  IN  {(h + i * l) % DoorBits : i \in 0..SetLocs - 1}

Has(hash) == Locations(hash) \subseteq door

-----------------------------------------------------------------------------
(* The sketch and the helper.                                               *)

Counter(i, hash) == get(rows[i], Slot(hash, seed[i]))

(* The least of the key's counters, and one more if the doorkeeper has it.  *)
Estimate(key) ==
  Min({Counter(i, key) : i \in Rows}) + (IF Has(key) THEN 1 ELSE 0)

Counted(key) ==
  [i \in Rows |-> increment(rows[i], Slot(key, seed[i]))]

\* Mutant: the loop over the rows ends one early.
AgedButLast(rs) == [i \in Rows |-> IF i = cmDepth THEN rs[i] ELSE reset(rs[i])]

Aged(rs) == [i \in Rows |-> reset(rs[i])]

AgingDue == incrs + 1 >= NumCounters

(* A key the doorkeeper has not seen is only shown to the doorkeeper.  The  *)
(* increment that completes a period forgets the doorkeeper and halves the  *)
(* counters, its own mark included.                                         *)
Increment(key) ==
  LET rs == IF Has(key) THEN Counted(key) ELSE rows
  IN  /\ rows' = IF AgingDue THEN Aged(rs) ELSE rs
      /\ door' = IF AgingDue THEN {} ELSE door \cup Locations(key)
      /\ incrs' = IF AgingDue THEN 0 ELSE incrs + 1
      /\ UNCHANGED seed

Clear ==
  /\ rows' = [i \in Rows |-> clear(rows[i])]
  /\ door' = {}
  /\ incrs' = 0
  /\ UNCHANGED seed

LFUInit ==
  /\ rows = [i \in Rows |-> [b \in 0..(Width \div 2) - 1 |-> 0]]
  /\ seed \in [Rows -> Seeds]
  /\ door = {}
  /\ incrs = 0

LFUNext == (\E key \in Hashes : Increment(key)) \/ Clear

LFUSpec == LFUInit /\ [][LFUNext]_lfuVars

-----------------------------------------------------------------------------
(* Properties.                                                              *)

(* Every byte stays a byte, and a period never runs over its length.        *)
LFUTypeOK ==
  /\ rows \in [Rows -> Row]
  /\ seed \in [Rows -> Seeds]
  /\ door \subseteq 0..DoorBits - 1
  /\ incrs \in 0..NumCounters - 1

(* The four copies of a counter never differ, whatever the seeds and         *)
(* however keys collide: the neighbour in the byte never bleeds into a      *)
(* counter, on overflow or when it is halved, and aging reaches all rows.   *)
RowsAgree ==
  \A key \in Hashes, i, j \in Rows : Counter(i, key) = Counter(j, key)

CountersOf(r) == [n \in Slots |-> get(r, n)]

(* Aging bounds what a row remembers: all its counters together never hold  *)
(* more than one period's increments and those of the current one.          *)
AgingBound ==
  \A i \in Rows :
    SumFunctionOnSet(CountersOf(rows[i]), Slots) <= NumCounters + incrs

=============================================================================
