----------------------------- MODULE MCTinyLFU -----------------------------
(* A small instance of TinyLFU with the bit operations of the code.         *)
EXTENDS TinyLFUExact, Bitwise

(* x-- ; x |= x >> 1 ; x |= x >> 2 ; ... ; x++, up to a shift of 16, which   *)
(* is enough for the 31-bit numbers of the instance.                        *)
Smear(x, k) == x | shiftR(x, k)
next2Power(x) ==
  Smear(Smear(Smear(Smear(Smear(x - 1, 1), 2), 4), 8), 16) + 1

ASSUME next2Power(NumCounters) = Width

(* next2Power is the least power of two that is not below its argument.     *)
ASSUME \A x \in 1..70 :
  \E e \in 0..7 : next2Power(x) = 2^e /\ x <= 2^e /\ (e > 0 => x > 2^(e - 1))

(* 18-bit hashes, 512 bits in the doorkeeper, the least the code ever makes. *)
Bits18 == 2^18

(* Three keys: the first two share a slot of every row and the third is in  *)
(* the other half of the same byte; the doorkeeper's only bit of the first  *)
(* is also one of the second.                                               *)
First == 5 * 512
Second == 5 * 512 + 16
Third == 9 * 512 + 1
ThreeKeys == {First, Second, Third}

(* The slots as a table, which TLC computes once.                           *)
SlotTable == [h \in ThreeKeys, s \in Seeds |-> (h ^^ s) & (Width - 1)]
XorMask(h, s) == SlotTable[h, s]
=============================================================================
