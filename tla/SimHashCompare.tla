--------------------------- MODULE SimHashCompare ---------------------------
(***************************************************************************)
(* simhash_compare of src/simhash.c: how alike two hashes of               *)
(* simhash_compute are.  The text of a hash is the sequence of the bytes   *)
(* its pairs of digits spell; "(null)", which a hash file has for an       *)
(* executable that got no hash, spells three bytes that are 0.             *)
(***************************************************************************)
EXTENDS Naturals, Sequences, FiniteSetsExt

CONSTANTS
  SIM_HASH_SIZE,   (* The bytes of a hash, 16.                             *)
  Junk             (* What the memory that malloc returns may hold:        *)
                   (* arrays of that many bytes.                           *)

Byte == 0 .. 255

SimHashArray == [1 .. SIM_HASH_SIZE -> Byte]

ASSUME SimHashCompareAssumption ==
  /\ SIM_HASH_SIZE \in Nat \ {0}
  /\ Junk # {}
  /\ \A array \in Junk : array \in SimHashArray

(* The arrays that the parsing of a text may give: only the bytes the text *)
(* has are written.                                                        *)
simhash_string_to_uint(text) ==
  {[k \in 1 .. SIM_HASH_SIZE |-> IF k <= Len(text) THEN text[k] ELSE junk[k]] :
     junk \in Junk}

BitOf(byte, n) == (byte \div 2 ^ n) % 2

(* The Hamming distance.                                                   *)
Hamming(hash_1, hash_2) ==
  Cardinality({p \in (1 .. SIM_HASH_SIZE) \X (0 .. 7) :
                 BitOf(hash_1[p[1]], p[2]) # BitOf(hash_2[p[1]], p[2])})

(* Percentages are counted in steps of 1/32 percent, so that those of 128  *)
(* bits are whole numbers.                                                 *)
Percent == 32

(* Mutant: a distance of more than half of the bits is not cut off.        *)
NotCutOff(hash_1, hash_2) ==
  LET bits == 8 * SIM_HASH_SIZE
      res  == (100 * Percent * (bits - Hamming(hash_1, hash_2))) \div bits
  IN IF res >= 50 * Percent THEN 2 * (res - 50 * Percent) ELSE res

(* The share of equal bits, rescaled so that half of them is 0.            *)
Rescaled(distance) ==
  LET bits == 8 * SIM_HASH_SIZE
      res  == (100 * Percent * (bits - distance)) \div bits
  IN 2 * (Max({res, 50 * Percent}) - 50 * Percent)

compare_hash(hash_1, hash_2) == Rescaled(Hamming(hash_1, hash_2))

(* What the comparison of two texts may give; malloc succeeds.             *)
simhash_compare(text_1, text_2) ==
  {compare_hash(hash_1, hash_2) :
     hash_1 \in simhash_string_to_uint(text_1),
     hash_2 \in simhash_string_to_uint(text_2)}

=============================================================================
