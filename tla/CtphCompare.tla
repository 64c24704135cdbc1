---------------------------- MODULE CtphCompare -----------------------------
(***************************************************************************)
(* ctph_compare of src/ctph.c: how alike two hashes of ctph_hash are.  A   *)
(* hash is its block size and two texts; what does not parse is Null: a    *)
(* NULL pointer, or the "(null)" a hash file has for a file that got no    *)
(* hash.  A hash that ends before its second text has none, Null.          *)
(*                                                                         *)
(* The comparison picks the texts the two hashes have for the same block   *)
(* size, takes out repeated characters, and turns the edit distance of the *)
(* texts, computed by EditDist, into a score.                              *)
(***************************************************************************)
EXTENDS EditDist, SequencesExt

CONSTANTS
  SIGN_LENGTH,
  WINDOW_SIZE,
  MIN_BLOCK_SIZE,
  ULONG_MAX,
  Hashes,          (* The hashes: [block_size, hash, hash_prec].           *)
  Null

(* ctph_hash makes texts of 1 to SIGN_LENGTH - 1 characters.               *)
Text(t) == t \in Seq(STRING) /\ Len(t) \in 1 .. SIGN_LENGTH - 1

ASSUME CompareAssumption ==
  /\ SIGN_LENGTH \in Nat \ {0}
  /\ WINDOW_SIZE \in Nat \ {0}
  /\ MIN_BLOCK_SIZE \in Nat \ {0}
  /\ ULONG_MAX \in Nat
  /\ Null \notin STRING
  /\ \A h \in Hashes : /\ h.block_size \in 0 .. ULONG_MAX
                       /\ Text(h.hash)
                       /\ h.hash_prec = Null \/ Text(h.hash_prec)

VARIABLES
  str1, str2,    (* The hashes.                                            *)
  pc,
  calls,         (* The calls of score_strings that are left to make.      *)
  score,
  result

compareVars == <<str1, str2>>
vars == <<editVars, compareVars, pc, calls, score, result>>

-----------------------------------------------------------------------------

(* Mutant: repeated characters are all taken out.                          *)
CopyNoRepeats(copy, curr) ==
  IF curr = copy.prev
    THEN copy
    ELSE [out |-> Append(copy.out, curr), prev |-> curr, seq |-> 0]

(* One character of copy_eliminate_sequences.                              *)
CopyChar(copy, curr) ==
  IF curr # copy.prev
    THEN [out |-> Append(copy.out, curr), prev |-> curr, seq |-> 0]
    ELSE IF copy.seq + 1 >= 3
      THEN [out |-> copy.out, prev |-> curr, seq |-> 3]
      ELSE [out |-> Append(copy.out, curr), prev |-> curr, seq |-> copy.seq + 1]

copy_eliminate_sequences(text) ==
  LET copied[n \in 0 .. Len(text)] ==
        IF n = 0 THEN [out |-> <<>>, prev |-> Null, seq |-> 0]
                 ELSE CopyChar(copied[n - 1], text[n])
  IN copied[Len(text)].out

(* The copies of a hash, the texts it is compared by.                      *)
Copy(h) ==
  [block_size |-> h.block_size,
   hash       |-> copy_eliminate_sequences(h.hash),
   hash_prec  |-> copy_eliminate_sequences(h.hash_prec)]

BlockSizesMatch(b1, b2) ==
  \/ b1 = b2
  \/ b1 <= ULONG_MAX \div 2 /\ b1 * 2 = b2
  \/ b1 % 2 = 0 /\ b1 \div 2 = b2

(* Mutant: the texts of the wrong block sizes.                             *)
CallsSwapped(h1, h2) ==
  LET b1 == h1.block_size  b2 == h2.block_size IN
  CASE b1 = b2     -> <<[s1 |-> h1.hash, s2 |-> h2.hash, block_size |-> b1]>>
    [] b1 * 2 = b2 -> <<[s1 |-> h1.hash, s2 |-> h2.hash_prec, block_size |-> b2]>>
    [] OTHER       -> <<[s1 |-> h2.hash, s2 |-> h1.hash_prec, block_size |-> b1]>>

(* The calls of score_strings for two hashes.                              *)
Calls(h1, h2) ==
  LET b1   == h1.block_size
      b2   == h2.block_size
      both == [s1 |-> h1.hash, s2 |-> h2.hash, block_size |-> b1]
  IN CASE b1 = b2 /\ b1 <= ULONG_MAX \div 2 ->
            <<both, [s1 |-> h1.hash_prec, s2 |-> h2.hash_prec,
                     block_size |-> b1 * 2]>>
       [] b1 = b2 /\ b1 > ULONG_MAX \div 2 -> <<both>>
       [] b1 # b2 /\ b1 <= ULONG_MAX \div 2 /\ b1 * 2 = b2 ->
            <<[s1 |-> h2.hash, s2 |-> h1.hash_prec, block_size |-> b2]>>
       [] OTHER ->
            <<[s1 |-> h1.hash, s2 |-> h2.hash_prec, block_size |-> b1]>>

(* Mutant: the distance is scaled by the shorter text.                     *)
ScaledByShorter(d, len1, len2) ==
  (100 * ((d * SIGN_LENGTH) \div Least(len1, len2))) \div SIGN_LENGTH

(* The distance as a share of the lengths, in percent.                     *)
Scaled(d, len1, len2) ==
  (100 * ((d * SIGN_LENGTH) \div (len1 + len2))) \div SIGN_LENGTH

(* The score of score_strings, the distance being known.                   *)
score_strings(d, len1, len2, block_size) ==
  LET share == Scaled(d, len1, len2)
      most  == (block_size \div MIN_BLOCK_SIZE) * Least(len1, len2)
  IN IF block_size >= ((99 + WINDOW_SIZE) \div WINDOW_SIZE) * MIN_BLOCK_SIZE
       THEN share
       ELSE 100 - Least(share, most)

-----------------------------------------------------------------------------

Init ==
  /\ str1 \in Hashes \cup {Null}
  /\ str2 \in Hashes \cup {Null}
  /\ pc = "read"
  /\ calls = <<>>
  /\ score = 0
  /\ result = Null
  /\ EditInit

Return(answer) ==
  /\ result' = answer
  /\ pc' = "done"
  /\ UNCHANGED <<editVars, compareVars, calls, score>>

Parsed == str1 # Null /\ str2 # Null

Comparable == Parsed /\ BlockSizesMatch(str1.block_size, str2.block_size)

WellFormed == str1.hash_prec # Null /\ str2.hash_prec # Null

ReadNothing == pc = "read" /\ ~Parsed /\ Return(-1)

ReadOtherSizes == pc = "read" /\ Parsed /\ ~Comparable /\ Return(0)

ReadMalformed == pc = "read" /\ Comparable /\ ~WellFormed /\ Return(-1)

ReadSame ==
  /\ pc = "read"
  /\ Comparable
  /\ WellFormed
  /\ Copy(str1) = Copy(str2)
  /\ Return(100)

ReadDifferent ==
  /\ pc = "read"
  /\ Comparable
  /\ WellFormed
  /\ Copy(str1) # Copy(str2)
  /\ calls' = Calls(Copy(str1), Copy(str2))
  /\ pc' = "score"
  /\ UNCHANGED <<editVars, compareVars, score, result>>

CallEdit ==
  /\ pc = "score"
  /\ calls # <<>>
  /\ edit_distn(Head(calls).s1, Head(calls).s2)
  /\ UNCHANGED <<compareVars, pc, calls, score, result>>

RunEdit ==
  /\ pc = "score"
  /\ EditStep
  /\ UNCHANGED <<compareVars, pc, calls, score, result>>

(* score_strings returns, and the better of the scores is kept.            *)
ScoreStrings ==
  /\ pc = "score"
  /\ EditEnds
  /\ score' = Max({score, score_strings(distance, Len(s1), Len(s2),
                                        Head(calls).block_size)})
  /\ calls' = Tail(calls)
  /\ step' = "idle"
  /\ UNCHANGED <<s1, s2, t1, t2, i1, i2, compareVars, pc, result>>

ReturnScore == pc = "score" /\ calls = <<>> /\ Return(score)

Done == pc = "done" /\ UNCHANGED vars

Next ==
  \/ ReadNothing
  \/ ReadOtherSizes
  \/ ReadMalformed
  \/ ReadSame
  \/ ReadDifferent
  \/ CallEdit
  \/ RunEdit
  \/ ScoreStrings
  \/ ReturnScore
  \/ Done

Spec == Init /\ [][Next]_vars

(* The program is one thread that runs on: a step that can be taken is.    *)
FairSpec == Spec /\ WF_vars(Next)

-----------------------------------------------------------------------------
(***************************************************************************)
(* Properties.                                                             *)
(***************************************************************************)

(* A score is a percentage, and -1 is kept for what cannot be compared:    *)
(* the unsigned difference of ctph.c:325 is never taken below 0, which     *)
(* rests on the edit distance being at most the sum of the lengths.        *)
ScoreInRange ==
  pc = "done" => /\ result \in -1 .. 100
                 /\ result = -1 <=> ~Parsed \/ (Comparable /\ ~WellFormed)

(* The text of hash h without the characters that follow three of their    *)
(* kind.                                                                   *)
Short(text) ==
  LET kept == {p \in 1 .. Len(text) :
                 ~(p > 3 /\ \A r \in p - 3 .. p : text[r] = text[p])}
  IN [k \in 1 .. Cardinality(kept) |->
        text[CHOOSE p \in kept : Cardinality({q \in kept : q <= p}) = k]]

(* The texts of a hash by their block sizes.                               *)
Texts(h) ==
  [b \in {h.block_size, 2 * h.block_size} \cap (0 .. ULONG_MAX) |->
     Short(IF b = h.block_size THEN h.hash ELSE h.hash_prec)]

(* The score of two texts that were made with block size b.                *)
Score(t, u, b) == score_strings(Distance(t, u), Len(t), Len(u), b)

(* Two hashes are compared by every block size both have a text for, so    *)
(* that it makes no difference which is the first: the case analysis of    *)
(* ctph.c:456-476 picks the texts that belong together.                    *)
ComparesCommonSizes ==
  pc = "done" /\ Comparable /\ WellFormed /\ Copy(str1) # Copy(str2) =>
    result = Max({Score(Texts(str1)[b], Texts(str2)[b], b) :
                    b \in DOMAIN Texts(str1) \cap DOMAIN Texts(str2)})

(* The comparison ends: the rows of the edit distance are all filled.      *)
Terminates == <>(pc = "done")

(* "scores them on a scale of 0-100 where 0 is a terrible match and 100 is *)
(* a great match" (ctph.c:285): texts without a common character score 0.  *)
NothingInCommonScoresZero ==
  /\ pc = "done"
  /\ Comparable
  /\ WellFormed
  /\ ToSet(str1.hash \o str1.hash_prec) \cap ToSet(str2.hash \o str2.hash_prec) = {}
  => result = 0

=============================================================================
