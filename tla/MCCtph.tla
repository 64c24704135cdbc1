------------------------------- MODULE MCCtph -------------------------------
(***************************************************************************)
(* Small instances of Ctph.  The values of the rolling hash are 1, a       *)
(* multiple of no block size but 1, then 2, 4 and 0, which is one of all.  *)
(* The bytes of a file can give any of them anywhere: a byte adds what it  *)
(* likes to the low byte of the hash.                                      *)
(***************************************************************************)
EXTENDS Ctph

MCBit == [k \in 0 .. UINT64_WIDTH |-> 2 ^ k]

SequencesOf(n, values) == [1 .. n -> values]

(* A start followed by a value repeated up to length n.                    *)
Long(n, m, values) ==
  {[p \in 1 .. n |-> IF p <= m THEN s[p] ELSE v] :
     s \in SequencesOf(m, values), v \in values}

(* SIGN_LENGTH - MIN_BLOCK_SIZE goes 0, 1, 2, 3 and 4 times into the       *)
(* lengths: the first block sizes are 0, 2, 4, 2 or 4, and 8.              *)
MCData ==
  UNION {SequencesOf(n, {1, 2, 0}) : n \in {3, 4, 5}} \cup
  Long(8, 5, {1, 2, 0}) \cup Long(12, 4, {1, 2, 0}) \cup
  Long(16, 3, {1, 2, 4, 0})

=============================================================================
