-------------------------------- MODULE Ctph --------------------------------
(***************************************************************************)
(* ctph_hash of src/ctph.c and the engine it calls.  The engine walks over *)
(* the bytes of the sections, closes a piece of the data where the rolling *)
(* hash is a multiple of the block size, and gives every piece one         *)
(* character.  ctph_hash starts from a block size it takes from the length *)
(* of the data and halves it until the text is long enough, keeping the    *)
(* text of the block size before.                                          *)
(*                                                                         *)
(* The engine chains its two hashes from one section to the next, so the   *)
(* sections are one sequence here; its elements are the values the rolling *)
(* hash has after each byte, all the engine looks at.  A character stands  *)
(* for its piece, as the positions of its first and last byte: the FNV     *)
(* hash of a piece that is not empty is taken to differ from the initial   *)
(* value, which is how the code tells the empty piece (ctph.c:172).        *)
(***************************************************************************)
EXTENDS Integers, Sequences, FiniteSets

CONSTANTS
  SIGN_LENGTH,     (* Desired signature length.                            *)
  MIN_BLOCK_SIZE,
  WINDOW_SIZE,
  HALF_LENGTH,     (* The length a text must have, 32 in the code.         *)
  UINT64_WIDTH,
  UINT16_WIDTH,
  UINT8_WIDTH,
  Bit,             (* The value of each bit of an integer.                 *)
  Data,            (* The data: sequences of values of the rolling hash.   *)
  Null,
  MallocFails      (* Whether malloc may return NULL.                      *)

ASSUME CtphAssumption ==
  /\ SIGN_LENGTH \in Nat
  /\ MIN_BLOCK_SIZE \in Nat \ {0}
  /\ WINDOW_SIZE \in Nat \ {0}
  /\ HALF_LENGTH \in Nat \ {0}
  /\ MIN_BLOCK_SIZE + WINDOW_SIZE + HALF_LENGTH <= SIGN_LENGTH
  /\ UINT64_WIDTH \in Nat
  /\ UINT16_WIDTH \in 1 .. UINT64_WIDTH
  /\ UINT8_WIDTH \in Nat \ {0}
  /\ Bit \in [0 .. UINT64_WIDTH -> Nat]
  /\ Bit[0] = 1
  /\ \A k \in 1 .. UINT64_WIDTH : Bit[k] = 2 * Bit[k - 1]
  /\ Data \subseteq Seq(Nat)
  /\ Null \notin Seq(Nat)
  /\ Null \notin Nat
  /\ MallocFails \in BOOLEAN

VARIABLES
  data,              (* The argument of ctph_hash.                         *)
  pc,
  B,                 (* The first block size tried.                        *)
  coef,
  true_B,            (* The block size of this round.                      *)
  hash, hash_prec,   (* Pointers to texts, blocks of the heap.             *)
  hash_length, hash_length_prec,
  heap,              (* block -> text, for the blocks not freed yet.       *)
  blocks,            (* How many blocks malloc has granted.                *)
  result             (* What ctph_hash returned.                           *)

(* The locals of ctph_hash_engine.                                         *)
VARIABLES
  caller,            (* The variable its result goes to.                   *)
  block,             (* Its argument B.                                    *)
  byte,              (* How many bytes it has read.                        *)
  from,              (* How many were read at the last trigger.            *)
  signature

dataVars   == <<data, B>>
roundVars  == <<coef, true_B>>
hashVars   == <<hash, hash_prec, hash_length, hash_length_prec>>
heapVars   == <<heap, blocks>>
engineVars == <<caller, block, byte, from, signature>>
vars == <<dataVars, roundVars, hashVars, heapVars, engineVars, pc, result>>

-----------------------------------------------------------------------------

PowersOfTwo == {Bit[k] : k \in 0 .. UINT64_WIDTH}

(* MIN_BLOCK_SIZE * pow(2, log2(q)) cut to an integer: the product, or one *)
(* less when pow comes out below q.  Powers of two are exact.              *)
Rounded(q) ==
  {MIN_BLOCK_SIZE * q} \cup
    (IF q = 0 \/ q \in PowersOfTwo THEN {} ELSE {MIN_BLOCK_SIZE * q - 1})

Ones(v) == {k \in 0 .. UINT64_WIDTH - 1 : (v \div Bit[k]) % 2 = 1}

(* The 1 of v that v & -v finds between two byte swaps: the lowest of the  *)
(* top byte that has any.  There is none for 0.                            *)
leftmost(v) ==
  {k \in Ones(v) : \A l \in Ones(v) :
     LET byte_of(m) == m \div UINT8_WIDTH IN
       byte_of(l) < byte_of(k) \/ (byte_of(l) = byte_of(k) /\ k <= l)}

Init ==
  /\ data \in Data \cup {Null}
  /\ pc = "start"
  /\ B = 0
  /\ coef = 1
  /\ true_B = 0
  /\ hash = Null
  /\ hash_prec = Null
  /\ hash_length = 0
  /\ hash_length_prec = 0
  /\ heap = [x \in {} |-> <<>>]
  /\ blocks = 0
  /\ result = Null
  /\ caller = "hash"
  /\ block = 0
  /\ byte = 0
  /\ from = 0
  /\ signature = <<>>

Start ==
  /\ pc = "start"
  /\ \/ /\ data = Null
        /\ pc' = "done"
        /\ UNCHANGED B
     \/ /\ data # Null
        /\ \E v \in Rounded(Len(data) \div (SIGN_LENGTH - MIN_BLOCK_SIZE)) :
             \/ v = 0 /\ B' = 0
             \/ \E k \in leftmost(v) : B' = (2 * Bit[k]) % Bit[UINT64_WIDTH]
        /\ pc' = "adjust"
  /\ UNCHANGED <<data, roundVars, hashVars, heapVars, engineVars, result>>

(* ctph_hash_engine(data, ..., b) is called for variable v.                *)
Call(v, b) ==
  /\ pc' = "engine"
  /\ caller' = v
  /\ block' = b
  /\ byte' = 0
  /\ from' = 0
  /\ signature' = <<>>

(* The head of the loop.                                                   *)
Adjust ==
  /\ pc = "adjust"
  /\ coef # 0
  /\ true_B' = B \div coef
  /\ Call("hash", true_B')
  /\ UNCHANGED <<dataVars, coef, hashVars, heapVars, result>>

(* coef has gone round to 0.                                               *)
DivideByZero ==
  /\ pc = "adjust"
  /\ coef = 0
  /\ pc' = "crashed"
  /\ UNCHANGED <<dataVars, roundVars, hashVars, heapVars, engineVars, result>>

-----------------------------------------------------------------------------
(***************************************************************************)
(* The engine.                                                             *)
(***************************************************************************)

Scanning ==
  /\ pc = "engine"
  /\ block # 0
  /\ byte < Len(data)
  /\ Len(signature) < SIGN_LENGTH - 1

(* Byte p closes a piece: the window is full and the rolling hash a        *)
(* multiple of the block size.                                             *)
Trigger(d, p, b) == p >= WINDOW_SIZE /\ d[p] % b = 0

(* Mutant: the FNV hash is not reset after a trigger.                      *)
EngineByteNoReset ==
  /\ Scanning
  /\ byte' = byte + 1
  /\ signature' = IF Trigger(data, byte', block)
                    THEN Append(signature, [first |-> from + 1, last |-> byte'])
                    ELSE signature
  /\ UNCHANGED <<dataVars, roundVars, hashVars, heapVars, caller, block, from,
                 pc, result>>

EngineByte ==
  /\ Scanning
  /\ byte' = byte + 1
  /\ IF Trigger(data, byte', block)
       THEN /\ signature' =
                 Append(signature, [first |-> from + 1, last |-> byte'])
            /\ from' = byte'
       ELSE UNCHANGED <<signature, from>>
  /\ UNCHANGED <<dataVars, roundVars, hashVars, heapVars, caller, block, pc,
                 result>>

(* The hash since the last trigger is added when it is not the initial     *)
(* value.                                                                  *)
FinalHash ==
  IF from = byte
    THEN signature
    ELSE Append(signature, [first |-> from + 1, last |-> byte])

Allocated(text) ==
  [x \in DOMAIN heap \cup {blocks} |-> IF x = blocks THEN text ELSE heap[x]]

Freed(h, freed) == [x \in DOMAIN h \ freed |-> h[x]]

EngineReturn ==
  /\ pc = "engine"
  /\ block # 0
  /\ ~Scanning
  /\ heap' = Allocated(FinalHash)
  /\ blocks' = blocks + 1
  /\ \/ /\ caller = "hash"
        /\ hash' = blocks
        /\ hash_length' = Len(FinalHash) - 1
        /\ pc' = "check"
        /\ UNCHANGED <<hash_prec, hash_length_prec>>
     \/ /\ caller = "hash_prec"
        /\ hash_prec' = blocks
        /\ hash_length_prec' = Len(FinalHash) - 1
        /\ pc' = "concat"
        /\ UNCHANGED <<hash, hash_length>>
  /\ UNCHANGED <<dataVars, roundVars, engineVars, result>>

(* Mutant: a NULL from the engine is tried again.                          *)
EngineFailsAgain ==
  /\ pc = "engine"
  /\ block = 0 \/ (~Scanning /\ MallocFails)
  /\ pc' = "adjust"
  /\ UNCHANGED <<dataVars, roundVars, hashVars, heapVars, engineVars, result>>

(* The engine returns NULL, and so does ctph_hash, which frees hash if it  *)
(* has it and hash_prec never.                                             *)
EngineFails ==
  /\ pc = "engine"
  /\ block = 0 \/ (~Scanning /\ MallocFails)
  /\ IF caller = "hash"
       THEN hash' = Null /\ UNCHANGED heap
       ELSE heap' = Freed(heap, {hash}) /\ UNCHANGED hash
  /\ pc' = "done"
  /\ UNCHANGED <<dataVars, roundVars, hash_prec, hash_length, hash_length_prec,
                 blocks, engineVars, result>>

-----------------------------------------------------------------------------
(***************************************************************************)
(* What ctph_hash makes of the text.                                       *)
(***************************************************************************)

(* Mutant: coef is one bit narrower.                                       *)
NarrowCoef(c) == (2 * c) % Bit[UINT16_WIDTH - 1]

(* Mutant: coef is wider than its type.                                    *)
WideCoef(c) == 2 * c

Doubled(c) == (2 * c) % Bit[UINT16_WIDTH]

(* Mutant: the length of hash_prec is not kept up.                         *)
TooShortKeepsLength ==
  /\ pc = "check"
  /\ hash_length < HALF_LENGTH
  /\ heap' = IF hash_prec = Null THEN heap ELSE Freed(heap, {hash_prec})
  /\ hash_prec' = hash
  /\ coef' = Doubled(coef)
  /\ pc' = "adjust"
  /\ UNCHANGED <<dataVars, true_B, hash, hash_length, hash_length_prec, blocks,
                 engineVars, result>>

(* Mutant: the text is freed that is to be kept.                           *)
TooShortFreesHash ==
  /\ pc = "check"
  /\ hash_length < HALF_LENGTH
  /\ heap' = IF hash_prec = Null THEN heap ELSE Freed(heap, {hash})
  /\ hash_prec' = hash
  /\ hash_length_prec' = hash_length
  /\ coef' = Doubled(coef)
  /\ pc' = "adjust"
  /\ UNCHANGED <<dataVars, true_B, hash, hash_length, blocks, engineVars, result>>

(* Mutant: the text of the block size before is not freed.                 *)
TooShortKeepsOld ==
  /\ pc = "check"
  /\ hash_length < HALF_LENGTH
  /\ hash_prec' = hash
  /\ hash_length_prec' = hash_length
  /\ coef' = Doubled(coef)
  /\ pc' = "adjust"
  /\ UNCHANGED <<dataVars, true_B, hash, hash_length, heapVars, engineVars,
                 result>>

(* The block size is halved for the next round, and the text is the one of *)
(* the block size before.                                                  *)
TooShort ==
  /\ pc = "check"
  /\ hash_length < HALF_LENGTH
  /\ heap' = IF hash_prec = Null THEN heap ELSE Freed(heap, {hash_prec})
  /\ hash_prec' = hash
  /\ hash_length_prec' = hash_length
  /\ coef' = Doubled(coef)
  /\ pc' = "adjust"
  /\ UNCHANGED <<dataVars, true_B, hash, hash_length, blocks, engineVars, result>>

(* Mutant: the loop ends one character too early.                          *)
LongEnoughTooSoon ==
  /\ pc = "check"
  /\ hash_length >= HALF_LENGTH - 1
  /\ IF hash_prec = Null THEN Call("hash_prec", true_B * 2)
                         ELSE pc' = "concat" /\ UNCHANGED engineVars
  /\ UNCHANGED <<dataVars, roundVars, hashVars, heapVars, result>>

(* The loop ends.  The first text tried has no text before it, and the     *)
(* engine is called for twice its block size.  A text of SIGN_LENGTH is    *)
(* freed, and used.                                                        *)
LongEnough ==
  /\ pc = "check"
  /\ hash_length >= HALF_LENGTH
  /\ IF hash_length >= SIGN_LENGTH
       THEN heap' = Freed(heap, {hash}) /\ coef' = coef \div 2
       ELSE UNCHANGED <<heap, coef>>
  /\ IF hash_prec = Null
       THEN Call("hash_prec", IF coef' < 1 THEN true_B \div 2 ELSE true_B * 2)
       ELSE pc' = "concat" /\ UNCHANGED engineVars
  /\ UNCHANGED <<dataVars, true_B, hashVars, blocks, result>>

(* The two texts are copied behind the block size, and freed; but not when *)
(* there is no memory for the copy.                                        *)
Concatenate ==
  /\ pc = "concat"
  /\ \/ /\ result' = [block_size |-> true_B,
                      hash       |-> heap[hash],
                      hash_prec  |-> heap[hash_prec]]
        /\ heap' = Freed(heap, {hash, hash_prec})
     \/ /\ MallocFails
        /\ UNCHANGED <<result, heap>>
  /\ pc' = "done"
  /\ UNCHANGED <<dataVars, roundVars, hashVars, blocks, engineVars>>

Stopped ==
  /\ pc \in {"done", "crashed"}
  /\ UNCHANGED vars

Next ==
  \/ Start
  \/ Adjust
  \/ DivideByZero
  \/ EngineByte
  \/ EngineReturn
  \/ EngineFails
  \/ TooShort
  \/ LongEnough
  \/ Concatenate
  \/ Stopped

Spec == Init /\ [][Next]_vars

(* The program is one thread that runs on: a step that can be taken is.    *)
FairSpec == Spec /\ WF_vars(Next)

-----------------------------------------------------------------------------
(***************************************************************************)
(* Properties.                                                             *)
(***************************************************************************)

Position == 1 .. Len(data)

Pieces == [first : Nat \ {0}, last : Nat \ {0}]

(* The type invariant.                                                     *)
TypeOK ==
  /\ data = Null \/ data \in Seq(Nat)
  /\ pc \in {"start", "adjust", "engine", "check", "concat", "done", "crashed"}
  /\ pc \in {"adjust", "engine", "check", "concat"} => data # Null
  /\ B \in Nat
  /\ coef \in 0 .. Bit[UINT16_WIDTH] - 1
  /\ true_B \in Nat
  /\ blocks \in Nat
  /\ DOMAIN heap \subseteq 0 .. blocks - 1
  /\ \A p \in DOMAIN heap : heap[p] \in Seq(Pieces)
  /\ hash \in (0 .. blocks - 1) \cup {Null}
  /\ hash_prec \in (0 .. blocks - 1) \cup {Null}
  /\ hash_length \in Int
  /\ hash_length_prec \in Int
  /\ caller \in {"hash", "hash_prec"}
  /\ block \in Nat
  /\ byte \in Nat
  /\ from \in 0 .. byte
  /\ signature \in Seq(Pieces)

(* The text of block size b, told without the engine: pieces that follow   *)
(* one another from the first byte on, ending at triggers and at no other  *)
(* places, up to the end of the data or for as long as there is room.      *)
IsText(d, text, b) ==
  LET n == Len(text) IN
  /\ n \in 1 .. SIGN_LENGTH - 1
  /\ text[1].first = 1
  /\ \A k \in 1 .. n - 1 : text[k + 1].first = text[k].last + 1
  /\ \A k \in 1 .. n :
       /\ text[k].first <= text[k].last
       /\ text[k].last <= Len(d)
       /\ \A p \in text[k].first .. text[k].last - 1 : ~Trigger(d, p, b)
       /\ ~Trigger(d, text[k].last, b) => k = n /\ text[k].last = Len(d)
  /\ n < SIGN_LENGTH - 1 => text[n].last = Len(d)

(* How many characters that text has, less one, as the code counts them.   *)
TextLength(b) ==
  LET triggers == Cardinality({p \in Position : Trigger(data, p, b)})
      pieces   == IF Trigger(data, Len(data), b) THEN triggers ELSE triggers + 1
  IN (IF pieces < SIGN_LENGTH THEN pieces ELSE SIGN_LENGTH - 1) - 1

BlockSizes == {B \div c : c \in PowersOfTwo}

(* The answer is what CTPH promises: the text of its block size and the    *)
(* text of twice that size, which is the one that compares with a file     *)
(* half or twice as long, whichever of the two ways the second was made.   *)
TextsOfBothSizes ==
  result # Null => /\ IsText(data, result.hash, result.block_size)
                   /\ IsText(data, result.hash_prec, 2 * result.block_size)

(* The block size is the largest tried whose text is long enough, so that  *)
(* like files get like block sizes.                                        *)
LargestBlockSize ==
  result # Null =>
    /\ result.block_size \in BlockSizes
    /\ TextLength(result.block_size) >= HALF_LENGTH
    /\ \A b \in BlockSizes :
         b > result.block_size => TextLength(b) < HALF_LENGTH

(* Pointers that will be freed or printed point to blocks that are         *)
(* allocated, and to two different ones: the free of ctph.c:253, whose     *)
(* block is used again at line 275, is never reached.                      *)
PointersAreLive ==
  /\ pc \in {"check", "concat"} => hash \in DOMAIN heap
  /\ pc \in {"adjust", "engine", "check"} /\ hash_prec # Null =>
       hash_prec \in DOMAIN heap
  /\ pc = "engine" /\ caller = "hash_prec" => hash \in DOMAIN heap
  /\ pc = "concat" => hash_prec \in DOMAIN heap /\ hash # hash_prec

(* The length of the answer is computed from the lengths of the texts that *)
(* are copied into it, over the rounds that made them (ctph.c:270).        *)
LengthsOfTheTexts ==
  pc = "concat" =>
    /\ Len(heap[hash]) = hash_length + 1
    /\ Len(heap[hash_prec]) = hash_length_prec + 1

(* No block is lost on the way to an answer, however many rounds it takes; *)
(* and when malloc fails at most the two texts are.                        *)
LeakOnlyWithoutAnswer ==
  pc = "done" =>
    /\ result # Null => heap = [x \in {} |-> <<>>]
    /\ DOMAIN heap \subseteq {hash, hash_prec}

(* coef only goes round to 0 for data so long that the first block size is *)
(* beyond its range.                                                       *)
CrashOnlyOnLongData == pc = "crashed" => B >= Bit[UINT16_WIDTH]

(* A block size small enough is always found: ctph_hash returns, unless    *)
(* coef runs out of range first.                                           *)
Terminates == <>(pc = "done" \/ (pc = "crashed" /\ B >= Bit[UINT16_WIDTH]))

(* "Return: the hash in Base64, NULL otherwise" (ctph.c:219).              *)
Returns == pc # "crashed"

=============================================================================
