---------------------------- MODULE TinyLFUExact ----------------------------
(***************************************************************************)
(* TinyLFU beside what it approximates: the same admission rule with a     *)
(* doorkeeper that is an exact set and with a saturating counter for each  *)
(* key of its own.  The two variables are history variables: they record   *)
(* the calls and restrict none.                                            *)
(***************************************************************************)
EXTENDS TinyLFU

VARIABLES exactDoor,   \* keys shown since the last aging
          exactFreq    \* exactFreq[key]: aged count of its other appearances

exactVars == <<lfuVars, exactDoor, exactFreq>>

Least(a, b) == IF a < b THEN a ELSE b

ExactEstimate(key) ==
  exactFreq[key] + (IF key \in exactDoor THEN 1 ELSE 0)

ExactCounted(key) ==
  IF key \in exactDoor THEN [exactFreq EXCEPT ![key] = Least(@ + 1, 15)]
                       ELSE exactFreq

ExactIncrement(key) ==
  /\ Increment(key)
  /\ exactDoor' = IF incrs' = 0 THEN {} ELSE exactDoor \cup {key}
  /\ exactFreq' = IF incrs' = 0
                  THEN [k \in Hashes |-> ExactCounted(key)[k] \div 2]
                  ELSE ExactCounted(key)

ExactClear ==
  /\ Clear
  /\ exactDoor' = {}
  /\ exactFreq' = [k \in Hashes |-> 0]

ExactInit ==
  /\ LFUInit
  /\ exactDoor = {}
  /\ exactFreq = [k \in Hashes |-> 0]

ExactNext == (\E key \in Hashes : ExactIncrement(key)) \/ ExactClear

ExactSpec == ExactInit /\ [][ExactNext]_exactVars

(* TinyLFU may overrate a key that collides with others but never underrates *)
(* one: its estimate is at least what exact bookkeeping would have given.   *)
NeverUnderestimates ==
  \A key \in Hashes : Estimate(key) >= ExactEstimate(key)

(* What keeps it so: the doorkeeper has every key it was shown, and no row   *)
(* counts less than the key's own appearances.                              *)
ExactInv ==
  /\ exactDoor \subseteq Hashes
  /\ exactFreq \in [Hashes -> 0..15]
  /\ \A key \in exactDoor : Has(key)
  /\ \A key \in Hashes, i \in Rows : exactFreq[key] <= Counter(i, key)
=============================================================================
