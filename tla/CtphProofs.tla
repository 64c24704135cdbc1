----------------------------- MODULE CtphProofs -----------------------------
(***************************************************************************)
(* Proofs about ctph_hash, for data of any length, any width of coef and   *)
(* any lengths of the texts that CtphAssumption allows.                    *)
(***************************************************************************)
EXTENDS Ctph, NaturalFacts, TLAPS

-----------------------------------------------------------------------------
(***************************************************************************)
(* Block sizes.                                                            *)
(***************************************************************************)

(* The values of the bits grow.                                            *)
LEMMA BitsGrow ==
  \A k \in 0 .. UINT64_WIDTH :
    Bit[k] \in Nat /\ Bit[k] >= 1 /\ \A j \in 0 .. k - 1 : Bit[j] < Bit[k]
<1> DEFINE Grows(k) == Bit[k] >= 1 /\ \A j \in 0 .. k - 1 : Bit[j] < Bit[k]
           Wrong == {k \in 0 .. UINT64_WIDTH : ~Grows(k)}
<1>1. \A k \in 0 .. UINT64_WIDTH : Bit[k] \in Nat
  BY CtphAssumption
<1>2. Wrong = {}
  <2>1. SUFFICES ASSUME Wrong # {} PROVE FALSE
    OBVIOUS
  <2>2. Wrong \subseteq Nat
    BY CtphAssumption
  <2>3. PICK k \in Wrong : \A l \in Wrong : k <= l
    <3> HIDE DEF Wrong
    <3> QED  BY <2>1, <2>2, LeastNatural, Zenon
  <2>4. k # 0
    <3>1. Grows(0)
      BY CtphAssumption
    <3> QED  BY <3>1
  <2>5. k \in 1 .. UINT64_WIDTH /\ k - 1 \in 0 .. UINT64_WIDTH /\ k - 1 \notin Wrong
    <3>1. k \in 0 .. UINT64_WIDTH
      OBVIOUS
    <3>2. k - 1 \notin Wrong
      <4> HIDE DEF Wrong
      <4> QED  BY <2>3, <3>1, CtphAssumption
    <3> QED  BY <2>4, <3>1, <3>2, CtphAssumption
  <2>6. Grows(k - 1)
    BY <2>5
  <2>7. Bit[k] = 2 * Bit[k - 1]
    BY <2>5, CtphAssumption
  <2>8. ASSUME NEW j \in 0 .. k - 1 PROVE Bit[j] < Bit[k]
    <3>1. j \in 0 .. UINT64_WIDTH /\ (j = k - 1 \/ j \in 0 .. (k - 1) - 1)
      BY <2>5, CtphAssumption
    <3>2. Bit[j] <= Bit[k - 1]
      BY <1>1, <2>5, <2>6, <3>1
    <3> QED  BY <1>1, <2>5, <2>6, <2>7, <3>1, <3>2
  <2>9. Grows(k)
    BY <1>1, <2>5, <2>6, <2>7, <2>8
  <2> QED  BY <2>3, <2>9
<1> QED  BY <1>1, <1>2

(* What is left of a smaller number, or of the modulus itself.             *)
LEMMA Remainder ==
  ASSUME NEW a \in Nat, NEW m \in Nat \ {0}
  PROVE  /\ a % m \in 0 .. m - 1
         /\ a < m => a % m = a
         /\ a = m => a % m = 0
OBVIOUS

(* Twice a bit, in w bits, is the next bit, or 0 for the last.             *)
LEMMA NextBit ==
  ASSUME NEW w \in 1 .. UINT64_WIDTH, NEW k \in 0 .. w - 1
  PROVE  /\ k + 1 < w => (2 * Bit[k]) % Bit[w] = Bit[k + 1]
         /\ k + 1 = w => (2 * Bit[k]) % Bit[w] = 0
<1>1. UINT64_WIDTH \in Nat /\ k \in Nat /\ w \in Nat /\ k + 1 \in 1 .. UINT64_WIDTH
  BY CtphAssumption
<1>2. Bit[k + 1] = 2 * Bit[k]
  <2>1. (k + 1) - 1 = k
    BY <1>1
  <2> QED  BY <1>1, <2>1, CtphAssumption
<1>3. Bit[k + 1] \in Nat /\ Bit[w] \in Nat /\ Bit[w] # 0
  BY <1>1, BitsGrow
<1>4. k + 1 < w => Bit[k + 1] < Bit[w]
  BY <1>1, BitsGrow
<1>5. PICK a \in Nat, m \in Nat : a = Bit[k + 1] /\ m = Bit[w] /\ m # 0
  BY <1>3
<1>6. (a < m => a % m = a) /\ (a = m => a % m = 0)
  BY <1>5, Remainder
<1>7. 2 * Bit[k] = a /\ (k + 1 < w => a < m) /\ (k + 1 = w => a = m)
  BY <1>2, <1>4, <1>5
<1> QED  BY <1>5, <1>6, <1>7

(* Numbers whose product is divided by one of them.                        *)
LEMMA ProductDivided ==
  ASSUME NEW a \in Int, NEW c \in Int, c >= 1
  PROVE  (a * c) \div c = a
OBVIOUS

(* The product of a block size and its coef, doubled and halved.           *)
LEMMA ProductMoved ==
  ASSUME NEW a \in Nat, NEW c \in Nat
  PROVE  /\ (2 * a) * c = a * (2 * c)
         /\ a * c \in Nat
         /\ a >= 1 => a * c >= c
<1>1. (2 * a) * c = a * (2 * c) /\ a * c \in Int /\ a * c >= 0
  OBVIOUS
<1>2. ASSUME a >= 1 PROVE a * c >= c
  BY <1>2
<1> QED  BY <1>1, <1>2

(* The product of two bits is a bit.                                       *)
LEMMA BitProduct ==
  ASSUME NEW i \in Nat, NEW j \in Nat, i + j <= UINT64_WIDTH
  PROVE  Bit[i + j] = Bit[i] * Bit[j]
<1> DEFINE S == {n \in Nat : n + j <= UINT64_WIDTH => Bit[n + j] = Bit[n] * Bit[j]}
<1>1. UINT64_WIDTH \in Nat /\ j \in 0 .. UINT64_WIDTH
  BY CtphAssumption
<1>2. 0 \in S
  <2>1. Bit[0] = 1 /\ Bit[j] \in Nat /\ 0 + j = j
    BY <1>1, BitsGrow, CtphAssumption
  <2>2. 1 * Bit[j] = Bit[j]
    BY <2>1
  <2> QED  BY <2>1, <2>2
<1>3. ASSUME NEW n \in Nat, n \in S PROVE n + 1 \in S
  <2>1. SUFFICES ASSUME (n + 1) + j <= UINT64_WIDTH
                 PROVE  Bit[(n + 1) + j] = Bit[n + 1] * Bit[j]
    BY <1>3
  <2>2. /\ n + 1 \in 1 .. UINT64_WIDTH /\ (n + 1) - 1 = n
        /\ (n + 1) + j \in 1 .. UINT64_WIDTH /\ ((n + 1) + j) - 1 = n + j
        /\ n + j <= UINT64_WIDTH /\ n \in 0 .. UINT64_WIDTH
    BY <1>1, <2>1
  <2>3. Bit[n + 1] = 2 * Bit[n] /\ Bit[(n + 1) + j] = 2 * Bit[n + j]
    BY <2>2, CtphAssumption
  <2>4. Bit[n + j] = Bit[n] * Bit[j]
    BY <1>3, <2>2
  <2>5. Bit[n] \in Nat /\ Bit[j] \in Nat
    BY <1>1, <2>2, BitsGrow
  <2>6. 2 * (Bit[n] * Bit[j]) = (2 * Bit[n]) * Bit[j]
    BY <2>5
  <2> QED  BY <2>3, <2>4, <2>6
<1>4. i \in S
  <2> HIDE DEF S
  <2> QED  BY <1>2, <1>3, SetInduction
<1> QED  BY <1>4

(* A bit divided by a bit is a bit, or nothing.                            *)
LEMMA BitDivided ==
  ASSUME NEW m \in 0 .. UINT64_WIDTH, NEW c \in 0 .. UINT64_WIDTH
  PROVE  Bit[m] \div Bit[c] = IF c <= m THEN Bit[m - c] ELSE 0
<1>1. UINT64_WIDTH \in Nat /\ Bit[m] \in Nat /\ Bit[c] \in Nat /\ Bit[c] >= 1
  BY BitsGrow, CtphAssumption
<1>2. CASE c <= m
  <2>1. m - c \in Nat /\ m - c \in 0 .. UINT64_WIDTH /\ (m - c) + c = m
    BY <1>1, <1>2
  <2>2. Bit[m] = Bit[m - c] * Bit[c]
    <3>1. c \in Nat /\ (m - c) + c <= UINT64_WIDTH
      BY <1>1, <2>1
    <3>2. Bit[(m - c) + c] = Bit[m - c] * Bit[c]
      BY <2>1, <3>1, BitProduct
    <3> QED  BY <2>1, <3>2
  <2>3. Bit[m - c] \in Nat
    BY <2>1, BitsGrow
  <2> QED  BY <1>1, <1>2, <2>2, <2>3, ProductDivided
<1>3. CASE ~(c <= m)
  <2>1. Bit[m] < Bit[c]
    <3>1. m \in 0 .. c - 1
      BY <1>1, <1>3
    <3> QED  BY <3>1, BitsGrow
  <2> QED  BY <1>1, <1>3, <2>1
<1> QED  BY <1>2, <1>3

(* Between a block size and half of it there is none.                      *)
LEMMA NoSizeBetween ==
  ASSUME NEW m \in 0 .. UINT64_WIDTH, NEW c \in 0 .. UINT64_WIDTH,
         NEW k \in 1 .. UINT64_WIDTH, Bit[m] \div Bit[c] > Bit[k - 1]
  PROVE  Bit[m] \div Bit[c] >= Bit[k]
<1>1. UINT64_WIDTH \in Nat
  BY CtphAssumption
<1>2. k - 1 \in 0 .. UINT64_WIDTH /\ k \in 0 .. UINT64_WIDTH
  BY <1>1
<1>3. Bit[k - 1] \in Nat /\ Bit[k - 1] >= 1 /\ Bit[k] \in Nat
  BY <1>2, BitsGrow
<1>4. c <= m /\ Bit[m] \div Bit[c] = Bit[m - c]
  BY <1>3, BitDivided
<1>5. m - c \in 0 .. UINT64_WIDTH
  BY <1>1, <1>4
<1>6. ~(m - c <= k - 1)
  <2>1. ASSUME m - c <= k - 1 PROVE FALSE
    <3>1. m - c \in 0 .. (k - 1) - 1 \/ m - c = k - 1
      BY <1>1, <1>5, <2>1
    <3>2. \A j \in 0 .. (k - 1) - 1 : Bit[j] < Bit[k - 1]
      BY <1>2, BitsGrow
    <3>3. Bit[m - c] \in Nat
      BY <1>5, BitsGrow
    <3> QED  BY <1>3, <1>4, <3>1, <3>2, <3>3
  <2> QED  BY <2>1
<1>7. m - c = k \/ k \in 0 .. (m - c) - 1
  BY <1>1, <1>5, <1>6
<1> QED  BY <1>3, <1>4, <1>5, <1>7, BitsGrow

(* The block size of the first round is 0, as it is for data shorter than  *)
(* one unit of it, or a bit.                                               *)
LEMMA FirstBlockSize ==
  ASSUME NEW n \in Nat, NEW v \in Rounded(n \div (SIGN_LENGTH - MIN_BLOCK_SIZE)),
         NEW k \in leftmost(v)
  PROVE  /\ k \in 0 .. UINT64_WIDTH - 1
         /\ n >= SIGN_LENGTH - MIN_BLOCK_SIZE
<1>1. k \in Ones(v)
  BY DEF leftmost
<1>2. k \in 0 .. UINT64_WIDTH - 1
  BY <1>1 DEF Ones
<1>3. ASSUME n < SIGN_LENGTH - MIN_BLOCK_SIZE PROVE FALSE
  <2>1. n \div (SIGN_LENGTH - MIN_BLOCK_SIZE) = 0
    <3>1. PICK u \in Int : u = SIGN_LENGTH - MIN_BLOCK_SIZE
      BY CtphAssumption
    <3>2. u >= 1 /\ 0 <= n /\ n < u
      BY <1>3, <3>1, CtphAssumption
    <3>3. n \div u = 0
      BY <3>2
    <3> QED  BY <3>1, <3>3
  <2>2. v = 0
    BY <2>1, CtphAssumption DEF Rounded
  <2>3. Bit[k] \in Nat \ {0}
    BY <1>2, BitsGrow, CtphAssumption
  <2>4. (0 \div Bit[k]) % 2 = 0
    BY <2>3
  <2> QED  BY <1>1, <2>2, <2>4 DEF Ones
<1> QED  BY <1>2, <1>3, CtphAssumption

-----------------------------------------------------------------------------
(***************************************************************************)
(* The engine.                                                             *)
(***************************************************************************)

(* Where the engine is after n bytes of d, f of them before the last       *)
(* trigger, with the pieces s up to there.                                 *)
Place(d, b, n, f, s) ==
  /\ d \in Seq(Nat) /\ b \in Nat /\ b # 0
  /\ n \in 0 .. Len(d)
  /\ f \in 0 .. n
  /\ s \in Seq(Pieces)
  /\ Len(s) <= SIGN_LENGTH - 1
  /\ Len(s) = SIGN_LENGTH - 1 => f = n

(* The pieces follow one another from the first byte to the f-th.          *)
Chain(f, s) ==
  /\ Len(s) = 0 => f = 0
  /\ Len(s) > 0 => s[1].first = 1 /\ s[Len(s)].last = f
  /\ \A k \in 1 .. Len(s) - 1 : s[k + 1].first = s[k].last + 1

NoTrigger(d, b, first, last) == \A p \in first .. last : ~Trigger(d, p, b)

(* A piece ends at a trigger, and has no other.                            *)
Closed(d, b, n, piece) ==
  /\ piece.first <= piece.last
  /\ piece.last <= n
  /\ Trigger(d, piece.last, b)
  /\ NoTrigger(d, b, piece.first, piece.last - 1)

(* At block size 1 every full window has closed a piece.                   *)
AllAtOne(b, n, s) ==
  /\ b = 1 /\ n < WINDOW_SIZE => Len(s) = 0
  /\ b = 1 /\ n >= WINDOW_SIZE => Len(s) = n - WINDOW_SIZE + 1

Scanned(d, b, n, f, s) ==
  /\ Place(d, b, n, f, s)
  /\ Chain(f, s)
  /\ \A k \in 1 .. Len(s) : Closed(d, b, n, s[k])
  /\ NoTrigger(d, b, f + 1, n)
  /\ AllAtOne(b, n, s)

(* What the assumptions say of the lengths.                                *)
LEMMA Lengths ==
  /\ SIGN_LENGTH \in Nat /\ WINDOW_SIZE \in Nat /\ HALF_LENGTH \in Nat
  /\ MIN_BLOCK_SIZE \in Nat
  /\ WINDOW_SIZE >= 1 /\ HALF_LENGTH >= 1 /\ MIN_BLOCK_SIZE >= 1
  /\ MIN_BLOCK_SIZE + WINDOW_SIZE + HALF_LENGTH <= SIGN_LENGTH
BY CtphAssumption

LEMMA PieceType ==
  ASSUME NEW s \in Seq(Pieces), NEW k \in 1 .. Len(s)
  PROVE  s[k].first \in Nat /\ s[k].last \in Nat
<1>1. s[k] \in Pieces
  OBVIOUS
<1> QED  BY <1>1 DEF Pieces

LEMMA ScannedNothing ==
  ASSUME NEW d \in Seq(Nat), NEW b \in Nat, b # 0
  PROVE  Scanned(d, b, 0, 0, <<>>)
<1>1. Place(d, b, 0, 0, <<>>)
  BY Lengths DEF Place
<1> QED  BY <1>1, Lengths DEF Scanned, Chain, NoTrigger, AllAtOne

(* At block size 1 a full window is a trigger.                             *)
LEMMA TriggersAtOne ==
  ASSUME NEW d \in Seq(Nat), NEW p \in 1 .. Len(d)
  PROVE  Trigger(d, p, 1) <=> p >= WINDOW_SIZE
BY DEF Trigger

(* A piece that is added is one more element, behind the others.           *)
LEMMA PieceAdded ==
  ASSUME NEW s \in Seq(Pieces), NEW f \in Nat, NEW l \in Nat, f < l
  PROVE  LET piece == [first |-> f + 1, last |-> l]
             t     == Append(s, piece)
         IN /\ t \in Seq(Pieces)
            /\ Len(t) = Len(s) + 1
            /\ t[Len(t)].first = f + 1 /\ t[Len(t)].last = l
            /\ \A k \in 1 .. Len(s) : t[k] = s[k]
<1>1. [first |-> f + 1, last |-> l] \in Pieces
  BY DEF Pieces
<1> QED  BY <1>1

(* The chain with a piece more.                                            *)
LEMMA ChainAdded ==
  ASSUME NEW s \in Seq(Pieces), NEW f \in Nat, NEW l \in Nat, f < l, Chain(f, s)
  PROVE  Chain(l, Append(s, [first |-> f + 1, last |-> l]))
<1> DEFINE t == Append(s, [first |-> f + 1, last |-> l])
<1>1. /\ t \in Seq(Pieces)
      /\ Len(t) = Len(s) + 1
      /\ t[Len(t)].first = f + 1 /\ t[Len(t)].last = l
      /\ \A k \in 1 .. Len(s) : t[k] = s[k]
  BY PieceAdded
<1> HIDE DEF t
<1>2. Len(s) \in Nat
  OBVIOUS
<1>3. t[1].first = 1
  <2>1. CASE Len(s) = 0
    BY <1>1, <2>1 DEF Chain
  <2>2. CASE Len(s) > 0
    <3>1. t[1] = s[1]
      BY <1>1, <1>2, <2>2
    <3> QED  BY <2>2, <3>1 DEF Chain
  <2> QED  BY <1>2, <2>1, <2>2
<1>4. ASSUME NEW k \in 1 .. Len(t) - 1 PROVE t[k + 1].first = t[k].last + 1
  <2>1. CASE k \in 1 .. Len(s) - 1
    <3>1. t[k] = s[k] /\ t[k + 1] = s[k + 1]
      BY <1>1, <1>2, <2>1
    <3> QED  BY <2>1, <3>1 DEF Chain
  <2>2. CASE k = Len(s) /\ k > 0
    <3>1. t[k] = s[k] /\ s[k].last = f /\ t[k + 1].first = f + 1
      BY <1>1, <1>2, <2>2 DEF Chain
    <3> QED  BY <3>1
  <2> QED  BY <1>1, <1>2, <2>1, <2>2
<1>5. Chain(l, t)
  BY <1>1, <1>2, <1>3, <1>4 DEF Chain
<1> QED  BY <1>5 DEF t

LEMMA ScannedTrigger ==
  ASSUME NEW d, NEW b, NEW n, NEW f, NEW s, Scanned(d, b, n, f, s),
         n < Len(d), Len(s) < SIGN_LENGTH - 1, Trigger(d, n + 1, b)
  PROVE  Scanned(d, b, n + 1, n + 1,
                 Append(s, [first |-> f + 1, last |-> n + 1]))
<1> DEFINE t == Append(s, [first |-> f + 1, last |-> n + 1])
<1>1. /\ d \in Seq(Nat) /\ b \in Nat /\ b # 0 /\ n \in Nat /\ f \in Nat
      /\ s \in Seq(Pieces) /\ Len(s) \in Nat /\ Len(d) \in Nat
      /\ f <= n
  BY DEF Scanned, Place
<1>2. /\ t \in Seq(Pieces)
      /\ Len(t) = Len(s) + 1
      /\ t[Len(t)].first = f + 1 /\ t[Len(t)].last = n + 1
      /\ \A k \in 1 .. Len(s) : t[k] = s[k]
  BY <1>1, PieceAdded
<1>3. Chain(n + 1, t)
  BY <1>1, ChainAdded DEF Scanned
<1> HIDE DEF t
<1>4. Place(d, b, n + 1, n + 1, t)
  BY <1>1, <1>2, Lengths DEF Place
<1>5. ASSUME NEW k \in 1 .. Len(t) PROVE Closed(d, b, n + 1, t[k])
  <2>1. CASE k \in 1 .. Len(s)
    <3>1. t[k] = s[k]
      BY <1>2, <2>1
    <3>2. Closed(d, b, n, s[k])
      BY <2>1 DEF Scanned
    <3>3. s[k].last \in Nat
      BY <1>1, <2>1, PieceType
    <3> QED  BY <1>1, <3>1, <3>2, <3>3 DEF Closed
  <2>2. CASE k = Len(t)
    <3>1. (n + 1) - 1 = n
      BY <1>1
    <3>2. NoTrigger(d, b, f + 1, n)
      BY DEF Scanned
    <3>3. NoTrigger(d, b, t[k].first, t[k].last - 1)
      BY <1>2, <2>2, <3>1, <3>2
    <3> QED  BY <1>1, <1>2, <2>2, <3>3 DEF Closed
  <2> QED  BY <1>1, <1>2, <2>1, <2>2
<1>6. NoTrigger(d, b, n + 1 + 1, n + 1)
  BY <1>1 DEF NoTrigger
<1>7. AllAtOne(b, n + 1, t)
  <2>1. b = 1 => n + 1 >= WINDOW_SIZE
    BY <1>1, TriggersAtOne
  <2>2. AllAtOne(b, n, s)
    BY DEF Scanned
  <2> QED  BY <1>1, <1>2, <2>1, <2>2, Lengths DEF AllAtOne
<1>8. Scanned(d, b, n + 1, n + 1, t)
  BY <1>3, <1>4, <1>5, <1>6, <1>7 DEF Scanned
<1> QED  BY <1>8 DEF t

LEMMA ScannedNoTrigger ==
  ASSUME NEW d, NEW b, NEW n, NEW f, NEW s, Scanned(d, b, n, f, s),
         n < Len(d), Len(s) < SIGN_LENGTH - 1, ~Trigger(d, n + 1, b)
  PROVE  Scanned(d, b, n + 1, f, s)
<1>1. /\ d \in Seq(Nat) /\ b \in Nat /\ b # 0 /\ n \in Nat /\ f \in Nat
      /\ s \in Seq(Pieces) /\ Len(s) \in Nat /\ Len(d) \in Nat
      /\ f <= n
  BY DEF Scanned, Place
<1>2. NoTrigger(d, b, f + 1, n + 1)
  <2>1. NoTrigger(d, b, f + 1, n)
    BY DEF Scanned
  <2>2. ASSUME NEW p \in f + 1 .. n + 1 PROVE ~Trigger(d, p, b)
    <3>1. p \in f + 1 .. n \/ p = n + 1
      BY <1>1
    <3> QED  BY <2>1, <3>1 DEF NoTrigger
  <2> QED  BY <2>2 DEF NoTrigger
<1>3. AllAtOne(b, n + 1, s)
  <2>1. b = 1 => n + 1 < WINDOW_SIZE
    BY <1>1, TriggersAtOne, Lengths
  <2>2. AllAtOne(b, n, s)
    BY DEF Scanned
  <2> QED  BY <1>1, <2>1, <2>2, Lengths DEF AllAtOne
<1>4. ASSUME NEW k \in 1 .. Len(s) PROVE Closed(d, b, n + 1, s[k])
  <2>1. Closed(d, b, n, s[k])
    BY DEF Scanned
  <2>2. s[k].last \in Nat
    BY <1>1, PieceType
  <2> QED  BY <1>1, <2>1, <2>2 DEF Closed
<1>5. Place(d, b, n + 1, f, s)
  <2>1. Place(d, b, n, f, s)
    BY DEF Scanned
  <2> QED  BY <1>1, <2>1, Lengths DEF Place
<1> QED  BY <1>2, <1>3, <1>4, <1>5 DEF Scanned

(* When the engine stops, the pieces and the last hash are the text; at    *)
(* block size 1 it is long enough.                                         *)
LEMMA ScannedAll ==
  ASSUME NEW d, NEW b, NEW n, NEW f, NEW s, Scanned(d, b, n, f, s),
         n >= Len(d) \/ Len(s) >= SIGN_LENGTH - 1,
         Len(d) >= SIGN_LENGTH - MIN_BLOCK_SIZE,
         NEW t, t = IF f = n THEN s ELSE Append(s, [first |-> f + 1, last |-> n])
  PROVE  /\ t \in Seq(Pieces)
         /\ Len(t) \in 1 .. SIGN_LENGTH - 1
         /\ IsText(d, t, b)
         /\ b = 1 => Len(t) - 1 >= HALF_LENGTH
<1>1. /\ d \in Seq(Nat) /\ b \in Nat /\ b # 0 /\ n \in Nat /\ f \in Nat
      /\ s \in Seq(Pieces) /\ Len(s) \in Nat /\ Len(d) \in Nat
      /\ f <= n /\ n <= Len(d) /\ Len(s) <= SIGN_LENGTH - 1
      /\ Len(s) = SIGN_LENGTH - 1 => f = n
  BY DEF Scanned, Place
<1>3. b = 1 => Len(s) >= HALF_LENGTH + 1
  <2>1. AllAtOne(b, n, s)
    BY DEF Scanned
  <2> QED  BY SMTT(30), <1>1, Lengths, <2>1 DEF AllAtOne
<1>4. ASSUME NEW k \in 1 .. Len(s)
      PROVE  /\ s[k].first <= s[k].last
             /\ s[k].last <= Len(d)
             /\ Trigger(d, s[k].last, b)
             /\ \A p \in s[k].first .. s[k].last - 1 : ~Trigger(d, p, b)
  <2>1. Closed(d, b, n, s[k])
    BY DEF Scanned
  <2>2. s[k].last \in Nat
    BY <1>1, PieceType
  <2> QED  BY <1>1, <2>1, <2>2 DEF Closed, NoTrigger
<1>5. CASE f = n
  <2>1. t = s
    BY <1>5
  <2>2. Len(s) > 0
    <3>1. Len(s) = 0 => f = 0
      BY DEF Scanned, Chain
    <3> QED  BY <1>1, Lengths, <1>5, <3>1
  <2>3. s[1].first = 1 /\ s[Len(s)].last = n
    BY <1>5, <2>2 DEF Scanned, Chain
  <2>4. \A k \in 1 .. Len(s) - 1 : s[k + 1].first = s[k].last + 1
    BY DEF Scanned, Chain
  <2>5. Len(s) < SIGN_LENGTH - 1 => s[Len(s)].last = Len(d)
    BY <1>1, Lengths, <2>3
  <2>6. IsText(d, s, b)
    BY SMTT(30), <1>1, Lengths, <1>4, <2>2, <2>3, <2>4, <2>5 DEF IsText
  <2> QED  BY <1>1, <1>3, <2>1, <2>2, <2>6, Lengths
<1>6. CASE f # n
  <2>1. Len(s) < SIGN_LENGTH - 1 /\ n = Len(d) /\ f < n
    BY <1>1, Lengths, <1>6
  <2>2. t = Append(s, [first |-> f + 1, last |-> n])
    BY <1>6
  <2>3. /\ t \in Seq(Pieces)
        /\ Len(t) = Len(s) + 1
        /\ t[Len(t)].first = f + 1 /\ t[Len(t)].last = n
        /\ \A k \in 1 .. Len(s) : t[k] = s[k]
    BY <1>1, <2>1, <2>2, PieceAdded
  <2>4. Chain(n, t)
    BY <1>1, <2>1, <2>2, ChainAdded DEF Scanned
  <2>5. t[1].first = 1 /\ \A k \in 1 .. Len(t) - 1 : t[k + 1].first = t[k].last + 1
    BY <1>1, <2>3, <2>4 DEF Chain
  <2>6. ASSUME NEW k \in 1 .. Len(t)
        PROVE  /\ t[k].first <= t[k].last
               /\ t[k].last <= Len(d)
               /\ \A p \in t[k].first .. t[k].last - 1 : ~Trigger(d, p, b)
               /\ ~Trigger(d, t[k].last, b) => k = Len(t) /\ t[k].last = Len(d)
    <3>1. CASE k \in 1 .. Len(s)
      <4>1. t[k] = s[k]
        BY <2>3, <3>1
      <4> QED  BY <1>4, <3>1, <4>1
    <3>2. CASE k = Len(t)
      <4>1. NoTrigger(d, b, f + 1, n)
        BY DEF Scanned
      <4>2. t[k].first = f + 1 /\ t[k].last = n
        BY <2>3, <3>2
      <4>3. \A p \in f + 1 .. n - 1 : p \in f + 1 .. n
        BY <1>1
      <4> QED  BY <1>1, <2>1, <3>2, <4>1, <4>2, <4>3 DEF NoTrigger
    <3> QED  BY SMTT(30), <1>1, <2>3, <3>1, <3>2
  <2>7. Len(t) \in 1 .. SIGN_LENGTH - 1
    BY <1>1, <2>1, <2>3, Lengths
  <2>8. t[Len(t)].last = Len(d)
    BY <2>1, <2>3
  <2>9. IsText(d, t, b)
    BY <2>5, <2>6, <2>7, <2>8, Zenon DEF IsText
  <2> QED  BY SMTT(30), <1>1, <1>3, <2>1, <2>3, <2>7, <2>9, Lengths
<1> QED  BY <1>5, <1>6

-----------------------------------------------------------------------------
(***************************************************************************)
(* How long the text of a block size is.                                   *)
(***************************************************************************)

(* The pieces end further and further on, and leave no byte out.           *)
LEMMA PiecesFollow ==
  ASSUME NEW d \in Seq(Nat), NEW b, NEW text \in Seq(Pieces), IsText(d, text, b)
  PROVE  \A j \in 1 .. Len(text) :
           /\ \A k \in 1 .. j - 1 : text[k].last < text[j].last
           /\ \A p \in 1 .. text[j].last :
                \E k \in 1 .. j : p \in text[k].first .. text[k].last
<1> DEFINE Grows(j) == \A k \in 1 .. j - 1 : text[k].last < text[j].last
           Covers(j) == \A p \in 1 .. text[j].last :
                          \E k \in 1 .. j : p \in text[k].first .. text[k].last
           S == {j \in Nat : j \in 1 .. Len(text) => Grows(j) /\ Covers(j)}
<1>1. /\ text[1].first = 1
      /\ \A k \in 1 .. Len(text) - 1 : text[k + 1].first = text[k].last + 1
      /\ \A k \in 1 .. Len(text) : text[k].first <= text[k].last
  BY DEF IsText
<1>2. \A k \in 1 .. Len(text) : text[k].first \in Nat /\ text[k].last \in Nat
  BY PieceType
<1>3. Len(text) \in Nat
  OBVIOUS
<1>4. 0 \in S
  OBVIOUS
<1>5. ASSUME NEW n \in Nat, n \in S PROVE n + 1 \in S
  <2>1. SUFFICES ASSUME n + 1 \in 1 .. Len(text)
                 PROVE  Grows(n + 1) /\ Covers(n + 1)
    BY <1>5
  <2>2. CASE n = 0
    <3>1. Grows(1)
      OBVIOUS
    <3>2. Covers(1)
      BY <1>1
    <3> QED  BY <2>2, <3>1, <3>2
  <2>3. CASE n # 0
    <3>1. n \in 1 .. Len(text) - 1 /\ n \in 1 .. Len(text)
      BY <1>3, <2>1, <2>3
    <3>2. Grows(n) /\ Covers(n)
      BY <1>5, <3>1
    <3>3. text[n + 1].first = text[n].last + 1 /\ text[n].last < text[n + 1].last
      BY <1>1, <1>2, <2>1, <3>1
    <3>4. ASSUME NEW k \in 1 .. (n + 1) - 1 PROVE text[k].last < text[n + 1].last
      <4>1. k = n \/ k \in 1 .. n - 1
        BY <3>1
      <4>2. k \in 1 .. Len(text)
        BY <1>3, <3>1
      <4>3. text[k].last \in Nat /\ text[n].last \in Nat /\ text[n + 1].last \in Nat
        BY <1>2, <2>1, <3>1, <4>2
      <4>4. k = n \/ text[k].last < text[n].last
        BY <3>2, <4>1
      <4> QED  BY <3>3, <4>3, <4>4
    <3>5. ASSUME NEW p \in 1 .. text[n + 1].last
          PROVE  \E k \in 1 .. n + 1 : p \in text[k].first .. text[k].last
      <4>1. text[n].last \in Nat /\ text[n + 1].last \in Nat
        BY <1>2, <2>1, <3>1
      <4>2. CASE p <= text[n].last
        <5>1. p \in 1 .. text[n].last
          BY <4>1, <4>2
        <5>2. PICK k \in 1 .. n : p \in text[k].first .. text[k].last
          BY <3>2, <5>1
        <5>3. k \in 1 .. n + 1
          BY <3>1
        <5> QED  BY <5>2, <5>3
      <4>3. CASE ~(p <= text[n].last)
        <5>1. p \in text[n + 1].first .. text[n + 1].last /\ n + 1 \in 1 .. n + 1
          BY <3>3, <4>1, <4>3
        <5> QED  BY <5>1
      <4> QED  BY <4>2, <4>3
    <3> QED  BY <3>4, <3>5
  <2> QED  BY <2>2, <2>3
<1>6. \A j \in Nat : j \in S
  <2> HIDE DEF S
  <2> QED  BY <1>4, <1>5, SetInduction
<1>7. ASSUME NEW j \in 1 .. Len(text)  PROVE Grows(j) /\ Covers(j)
  <2>1. j \in Nat
    BY <1>3
  <2>2. j \in S
    BY <1>6, <2>1
  <2> QED  BY <2>2
<1> QED  BY <1>7

(* As many places are the ends of pieces as there are pieces.              *)
LEMMA EndsCounted ==
  ASSUME NEW d \in Seq(Nat), NEW b, NEW text \in Seq(Pieces), IsText(d, text, b)
  PROVE  LET Ends == {text[k].last : k \in 1 .. Len(text)} IN
           IsFiniteSet(Ends) /\ Cardinality(Ends) = Len(text)
<1> DEFINE Ends == {text[k].last : k \in 1 .. Len(text)}
           End  == [k \in 1 .. Len(text) |-> text[k].last]
<1>1. Len(text) \in Nat
  OBVIOUS
<1>2. IsFiniteSet(1 .. Len(text)) /\ Cardinality(1 .. Len(text)) = Len(text)
  <2>1. PICK n \in Nat : n = Len(text)
    BY <1>1
  <2>2. IsFiniteSet(1 .. n) /\ Cardinality(1 .. n) = IF 1 > n THEN 0 ELSE n - 1 + 1
    BY FS_Interval
  <2> QED  BY <2>1, <2>2
<1>3. ASSUME NEW k \in 1 .. Len(text), NEW j \in 1 .. Len(text), k # j
      PROVE  End[k] # End[j]
  <2>1. k \in 1 .. j - 1 \/ j \in 1 .. k - 1
    BY <1>1, <1>3
  <2>2. text[k].last \in Nat /\ text[j].last \in Nat
    BY PieceType
  <2>3. text[k].last < text[j].last \/ text[j].last < text[k].last
    BY <2>1, PiecesFollow
  <2> QED  BY <2>2, <2>3
<1>4. End \in Injection(1 .. Len(text), Ends) /\ End \in Surjection(1 .. Len(text), Ends)
  <2>1. End \in [1 .. Len(text) -> Ends]
    OBVIOUS
  <2>2. \A e \in Ends : \E k \in 1 .. Len(text) : End[k] = e
    OBVIOUS
  <2> HIDE DEF End, Ends
  <2> QED  BY <1>3, <2>1, <2>2 DEF Injection, Surjection, IsInjective
<1> HIDE DEF End, Ends
<1>5. IsFiniteSet(Ends) /\ Cardinality(Ends) = Cardinality(1 .. Len(text))
  BY <1>2, <1>4, FS_Surjection
<1>6. IsFiniteSet(Ends) /\ Cardinality(Ends) = Len(text)
  BY <1>2, <1>5
<1> QED  BY <1>6 DEF Ends

(* A text has a piece for every trigger and one for what is left behind    *)
(* them, or as many as there is room for.                                  *)
LEMMA LengthOfText ==
  ASSUME data \in Seq(Nat), NEW b, NEW text \in Seq(Pieces), IsText(data, text, b)
  PROVE  TextLength(b) = Len(text) - 1
<1> DEFINE Ends     == {text[k].last : k \in 1 .. Len(text)}
           Triggers == {p \in Position : Trigger(data, p, b)}
           Places   == Triggers \cup {Len(data)}
           pieces   == IF Trigger(data, Len(data), b) THEN Cardinality(Triggers)
                                                      ELSE Cardinality(Triggers) + 1
<1>1. Len(text) \in 1 .. SIGN_LENGTH - 1 /\ Len(data) \in Nat /\ Len(text) \in Nat
  BY DEF IsText
<1>2. \A k \in 1 .. Len(text) :
        /\ text[k].first \in Nat /\ text[k].last \in Nat /\ text[k].last >= 1
        /\ text[k].first <= text[k].last /\ text[k].last <= Len(data)
        /\ \A p \in text[k].first .. text[k].last - 1 : ~Trigger(data, p, b)
        /\ ~Trigger(data, text[k].last, b) => text[k].last = Len(data)
  <2>1. \A k \in 1 .. Len(text) : text[k] \in Pieces
    OBVIOUS
  <2>2. \A k \in 1 .. Len(text) : text[k].first \in Nat \ {0} /\ text[k].last \in Nat \ {0}
    BY <2>1 DEF Pieces
  <2> QED  BY <2>2 DEF IsText
<1>3. IsFiniteSet(Ends) /\ Cardinality(Ends) = Len(text)
  BY EndsCounted
<1>4. Len(data) \in Position
  <2>1. 1 \in 1 .. Len(text)
    BY <1>1
  <2> QED  BY <1>1, <1>2, <2>1 DEF Position
<1>5. IsFiniteSet(Triggers) /\ IsFiniteSet(Places) /\ Cardinality(Places) = pieces
      /\ Cardinality(Triggers) \in Nat
  <2>1. IsFiniteSet(Position)
    <3>1. PICK n \in Nat : n = Len(data)
      BY <1>1
    <3> QED  BY <3>1, FS_Interval DEF Position
  <2>2. Triggers \in SUBSET Position
    OBVIOUS
  <2>3. Len(data) \in Triggers <=> Trigger(data, Len(data), b)
    BY <1>4
  <2> HIDE DEF Triggers
  <2>4. IsFiniteSet(Triggers) /\ Cardinality(Triggers) \in Nat
    BY <2>1, <2>2, FS_Subset, FS_CardinalityType
  <2>5. /\ IsFiniteSet(Places)
        /\ Cardinality(Places) = IF Len(data) \in Triggers THEN Cardinality(Triggers)
                                                           ELSE Cardinality(Triggers) + 1
    BY <2>4, FS_AddElement
  <2> QED  BY <2>3, <2>4, <2>5
<1>6. Ends \subseteq Places
  BY <1>1, <1>2 DEF Position
<1>7. CASE Len(text) < SIGN_LENGTH - 1
  <2>1. text[Len(text)].last = Len(data) /\ Len(text) \in 1 .. Len(text)
    BY <1>1, <1>7 DEF IsText
  <2>2. ASSUME NEW p \in Position, Trigger(data, p, b) PROVE p \in Ends
    <3>1. p \in 1 .. text[Len(text)].last
      BY <2>1 DEF Position
    <3>2. PICK k \in 1 .. Len(text) : p \in text[k].first .. text[k].last
      BY <2>1, <3>1, PiecesFollow
    <3>3. p = text[k].last
      BY <1>2, <2>2, <3>2
    <3> QED  BY <3>3
  <2>3. Places = Ends
    BY <1>6, <2>1, <2>2
  <2>4. pieces = Len(text)
    BY <1>3, <1>5, <2>3
  <2> QED  BY <1>1, <1>7, <2>4, Lengths DEF TextLength
<1>8. CASE Len(text) = SIGN_LENGTH - 1
  <2>1. Cardinality(Ends) <= Cardinality(Places)
    <3> HIDE DEF Ends, Places
    <3> QED  BY <1>5, <1>6, FS_Subset
  <2>2. pieces \in Nat /\ pieces >= SIGN_LENGTH - 1
    BY <1>3, <1>5, <1>8, <2>1
  <2>3. TextLength(b) = (IF pieces < SIGN_LENGTH THEN pieces ELSE SIGN_LENGTH - 1) - 1
    BY DEF TextLength
  <2> HIDE DEF pieces
  <2> QED  BY <1>8, <2>2, <2>3, Lengths
<1> QED  BY <1>1, <1>7, <1>8, Lengths

-----------------------------------------------------------------------------
(***************************************************************************)
(* The invariant.                                                          *)
(***************************************************************************)

(* Block p of heap h is the text of block size b, of that length.          *)
Kept(d, h, p, length, b) ==
  /\ p \in DOMAIN h
  /\ IsText(d, h[p], b)
  /\ Len(h[p]) = length + 1

(* Which blocks have not been freed.                                       *)
BlocksInv ==
  /\ pc = "start" => hash_prec = Null /\ DOMAIN heap = {}
  /\ pc = "adjust" => DOMAIN heap = {hash_prec} \ {Null}
  /\ pc = "engine" /\ caller = "hash" => DOMAIN heap = {hash_prec} \ {Null}
  /\ pc = "engine" /\ caller = "hash_prec" =>
       hash_prec = Null /\ hash # Null /\ DOMAIN heap = {hash}
  /\ pc = "check" =>
       /\ hash # Null /\ hash # hash_prec
       /\ DOMAIN heap = {hash} \cup ({hash_prec} \ {Null})
  /\ pc = "concat" =>
       /\ hash # Null /\ hash_prec # Null /\ hash # hash_prec
       /\ DOMAIN heap = {hash, hash_prec}
  /\ LeakOnlyWithoutAnswer
  /\ pc # "done" => result = Null

(* In a round, B is the block size times coef, both of them powers of two. *)
RoundOf(b, c, size) ==
  \E j \in 0 .. UINT16_WIDTH - 1, k \in 0 .. UINT64_WIDTH :
    c = Bit[j] /\ size = Bit[k] /\ b = size * c

SizesInv ==
  /\ pc = "start" => coef = 1
  /\ pc \in {"adjust", "engine", "check", "concat"} /\ B # 0 =>
       Len(data) >= SIGN_LENGTH - MIN_BLOCK_SIZE
  /\ pc = "adjust" =>
       \/ coef = 0 /\ B >= Bit[UINT16_WIDTH]
       \/ coef = 1 /\ B = 0 /\ hash_prec = Null
       \/ \E size \in Nat : RoundOf(B, coef, size)
  /\ pc = "engine" =>
       \/ B = 0 /\ block = 0 /\ caller = "hash"
       \/ B # 0 /\ RoundOf(B, coef, true_B)
  /\ pc \in {"check", "concat"} => B # 0 /\ RoundOf(B, coef, true_B)
  /\ CrashOnlyOnLongData

EngineInv ==
  pc = "engine" =>
    /\ block # 0 => Scanned(data, block, byte, from, signature)
    /\ caller = "hash" => block = true_B
    /\ caller = "hash_prec" => block = 2 * true_B

TextsInv ==
  /\ pc = "adjust" /\ coef # 0 /\ hash_prec # Null =>
       Kept(data, heap, hash_prec, hash_length_prec, 2 * (B \div coef))
  /\ pc = "engine" /\ caller = "hash" /\ hash_prec # Null =>
       Kept(data, heap, hash_prec, hash_length_prec, 2 * true_B)
  /\ pc = "engine" /\ caller = "hash_prec" =>
       Kept(data, heap, hash, hash_length, true_B)
  /\ pc = "check" =>
       /\ Kept(data, heap, hash, hash_length, true_B)
       /\ hash_prec # Null =>
            Kept(data, heap, hash_prec, hash_length_prec, 2 * true_B)
       /\ hash_length < SIGN_LENGTH
       /\ true_B = 1 => hash_length >= HALF_LENGTH
  /\ pc = "concat" =>
       /\ Kept(data, heap, hash, hash_length, true_B)
       /\ Kept(data, heap, hash_prec, hash_length_prec, 2 * true_B)
  /\ TextsOfBothSizes

CtphInv == TypeOK /\ BlocksInv /\ SizesInv /\ EngineInv /\ TextsInv

LEMMA CtphInvInit == Init => CtphInv
<1> SUFFICES ASSUME Init PROVE CtphInv
  OBVIOUS
<1>1. 1 \in 0 .. Bit[UINT16_WIDTH] - 1
  <2>1. /\ UINT16_WIDTH \in 0 .. UINT64_WIDTH /\ 0 \in 0 .. UINT16_WIDTH - 1
        /\ 0 \in 0 .. UINT64_WIDTH
    BY CtphAssumption
  <2>2. Bit[0] < Bit[UINT16_WIDTH] /\ Bit[UINT16_WIDTH] \in Nat
    BY <2>1, BitsGrow
  <2> QED  BY <2>2, CtphAssumption
<1>2. data = Null \/ data \in Seq(Nat)
  BY CtphAssumption DEF Init
<1>3. TypeOK
  BY <1>1, <1>2 DEF Init, TypeOK
<1>4. BlocksInv
  BY DEF Init, BlocksInv, LeakOnlyWithoutAnswer
<1>5. SizesInv
  BY DEF Init, SizesInv, CrashOnlyOnLongData
<1>6. EngineInv
  BY DEF Init, EngineInv
<1>7. TextsInv
  BY DEF Init, TextsInv, TextsOfBothSizes
<1> QED  BY <1>3, <1>4, <1>5, <1>6, <1>7 DEF CtphInv

(* The first block size is 0 or a power of two.                            *)
LEMMA FirstSize ==
  ASSUME TypeOK, Start, pc' = "adjust"
  PROVE  /\ data \in Seq(Nat) /\ data # Null
         /\ \/ B' = 0
            \/ /\ Len(data) >= SIGN_LENGTH - MIN_BLOCK_SIZE
               /\ \E k \in 0 .. UINT64_WIDTH : B' = Bit[k]
<1>1. data \in Seq(Nat) /\ data # Null
  BY DEF Start, TypeOK
<1>2. PICK v \in Rounded(Len(data) \div (SIGN_LENGTH - MIN_BLOCK_SIZE)) :
        \/ v = 0 /\ B' = 0
        \/ \E k \in leftmost(v) : B' = (2 * Bit[k]) % Bit[UINT64_WIDTH]
  BY DEF Start
<1>3. ASSUME NEW k \in leftmost(v), B' = (2 * Bit[k]) % Bit[UINT64_WIDTH]
      PROVE  /\ Len(data) >= SIGN_LENGTH - MIN_BLOCK_SIZE
             /\ B' = 0 \/ \E l \in 0 .. UINT64_WIDTH : B' = Bit[l]
  <2>1. /\ Len(data) >= SIGN_LENGTH - MIN_BLOCK_SIZE
        /\ k \in 0 .. UINT64_WIDTH - 1
    <3>1. Len(data) \in Nat
      BY <1>1
    <3> QED  BY <1>2, <3>1, FirstBlockSize
  <2>2. UINT64_WIDTH \in 1 .. UINT64_WIDTH
    BY CtphAssumption
  <2>3. CASE k + 1 < UINT64_WIDTH
    <3>1. B' = Bit[k + 1]
      BY <1>3, <2>1, <2>2, <2>3, NextBit
    <3>2. k + 1 \in 0 .. UINT64_WIDTH
      BY <2>1, <2>3, CtphAssumption
    <3> QED  BY <2>1, <3>1, <3>2
  <2>4. CASE k + 1 = UINT64_WIDTH
    BY <1>3, <2>1, <2>2, <2>4, NextBit
  <2> QED  BY <2>1, <2>3, <2>4, CtphAssumption
<1> QED  BY <1>1, <1>2, <1>3

LEMMA StartInv == CtphInv /\ Start => CtphInv'
<1> SUFFICES ASSUME CtphInv, Start PROVE CtphInv'
  OBVIOUS
<1>1. TypeOK /\ BlocksInv /\ SizesInv /\ TextsInv
  BY DEF CtphInv
<1>2. pc = "start" /\ pc' \in {"done", "adjust"} /\ coef = 1 /\ hash_prec = Null
  BY <1>1 DEF Start, BlocksInv, SizesInv
<1>3. UNCHANGED <<data, coef, true_B, hash, hash_prec, hash_length,
                  hash_length_prec, heap, blocks, caller, block, byte, from,
                  signature, result>>
  BY DEF Start, roundVars, hashVars, heapVars, engineVars
<1>4. ASSUME pc' = "adjust"
      PROVE  /\ data \in Seq(Nat) /\ data # Null
             /\ \/ B' = 0
                \/ /\ Len(data) >= SIGN_LENGTH - MIN_BLOCK_SIZE
                   /\ \E k \in 0 .. UINT64_WIDTH : B' = Bit[k]
  BY <1>1, <1>4, FirstSize
<1>5. B' \in Nat
  <2>1. CASE pc' = "adjust"
    BY <1>4, <2>1, BitsGrow
  <2>2. CASE pc' = "done"
    BY <1>1, <2>2 DEF Start, TypeOK
  <2> QED  BY <1>2, <2>1, <2>2
<1>6. TypeOK'
  BY <1>1, <1>2, <1>3, <1>4, <1>5 DEF TypeOK
<1>7. BlocksInv'
  <2>1. DOMAIN heap = {} /\ result = Null
    BY <1>1, <1>2 DEF BlocksInv
  <2> QED  BY <1>2, <1>3, <2>1 DEF BlocksInv, LeakOnlyWithoutAnswer
<1>8. SizesInv'
  <2>1. ASSUME NEW k \in 0 .. UINT64_WIDTH, B' = Bit[k]
        PROVE  \E size \in Nat : RoundOf(B', coef', size)
    <3>1. Bit[k] \in Nat /\ Bit[k] = Bit[k] * 1 /\ Bit[0] = 1
      BY BitsGrow, CtphAssumption
    <3>2. 0 \in 0 .. UINT16_WIDTH - 1
      BY CtphAssumption
    <3> QED  BY <1>2, <1>3, <2>1, <3>1, <3>2 DEF RoundOf
  <2> QED  BY <1>2, <1>3, <1>4, <2>1 DEF SizesInv, CrashOnlyOnLongData
<1>9. EngineInv'
  BY <1>2 DEF EngineInv
<1>10. TextsInv'
  BY <1>1, <1>2, <1>3 DEF BlocksInv, TextsInv, TextsOfBothSizes
<1> QED  BY <1>6, <1>7, <1>8, <1>9, <1>10 DEF CtphInv

LEMMA AdjustInv == CtphInv /\ Adjust => CtphInv'
<1> SUFFICES ASSUME CtphInv, Adjust PROVE CtphInv'
  OBVIOUS
<1>1. TypeOK /\ BlocksInv /\ SizesInv /\ TextsInv
  BY DEF CtphInv
<1>2. /\ pc = "adjust" /\ coef # 0
      /\ true_B' = B \div coef
      /\ pc' = "engine" /\ caller' = "hash" /\ block' = true_B'
      /\ byte' = 0 /\ from' = 0 /\ signature' = <<>>
  BY DEF Adjust, Call
<1>3. UNCHANGED <<data, B, coef, hash, hash_prec, hash_length,
                  hash_length_prec, heap, blocks, result>>
  BY DEF Adjust, dataVars, hashVars, heapVars
<1>4. data \in Seq(Nat) /\ data # Null
  BY <1>1, <1>2 DEF TypeOK
<1>5. \/ B = 0 /\ true_B' = 0 /\ hash_prec = Null
      \/ B # 0 /\ true_B' \in Nat \ {0} /\ RoundOf(B, coef, true_B')
  <2>1. CASE coef = 1 /\ B = 0 /\ hash_prec = Null
    BY <1>2, <2>1
  <2>2. CASE \E size \in Nat : RoundOf(B, coef, size)
    <3>1. PICK j \in 0 .. UINT16_WIDTH - 1, k \in 0 .. UINT64_WIDTH :
            coef = Bit[j] /\ B = Bit[k] * coef
      BY <2>2 DEF RoundOf
    <3>2. j \in 0 .. UINT64_WIDTH
      BY CtphAssumption
    <3>3. coef \in Nat /\ coef >= 1 /\ Bit[k] \in Nat /\ Bit[k] >= 1
      BY <3>1, <3>2, BitsGrow
    <3>4. B \div coef = Bit[k]
      BY SMTT(30), <3>1, <3>3, ProductDivided
    <3>5. B # 0
      BY <3>1, <3>3, ProductMoved
    <3>6. RoundOf(B, coef, true_B')
      BY <1>2, <3>1, <3>4 DEF RoundOf
    <3> QED  BY <1>2, <3>3, <3>4, <3>5, <3>6
  <2> QED  BY <1>1, <1>2, <2>1, <2>2 DEF SizesInv
<1>6. TypeOK'
  BY <1>1, <1>2, <1>3, <1>4, <1>5 DEF TypeOK
<1>7. BlocksInv'
  BY <1>1, <1>2, <1>3 DEF BlocksInv, LeakOnlyWithoutAnswer
<1>8. SizesInv'
  BY <1>1, <1>2, <1>3, <1>5 DEF SizesInv, CrashOnlyOnLongData
<1>9. EngineInv'
  BY <1>2, <1>3, <1>4, <1>5, ScannedNothing DEF EngineInv
<1>10. TextsInv'
  BY <1>1, <1>2, <1>3 DEF BlocksInv, TextsInv, TextsOfBothSizes
<1> QED  BY <1>6, <1>7, <1>8, <1>9, <1>10 DEF CtphInv

LEMMA DivideByZeroInv == CtphInv /\ DivideByZero => CtphInv'
<1> SUFFICES ASSUME CtphInv, DivideByZero PROVE CtphInv'
  OBVIOUS
<1>1. TypeOK /\ BlocksInv /\ SizesInv /\ TextsInv
  BY DEF CtphInv
<1>2. pc = "adjust" /\ coef = 0 /\ pc' = "crashed" /\ result = Null
  BY <1>1 DEF DivideByZero, BlocksInv
<1>3. UNCHANGED <<data, B, coef, true_B, hash, hash_prec, hash_length,
                  hash_length_prec, heap, blocks, caller, block, byte, from,
                  signature, result>>
  BY DEF DivideByZero, dataVars, roundVars, hashVars, heapVars, engineVars
<1>4. TypeOK'
  BY <1>1, <1>2, <1>3 DEF TypeOK
<1>5. BlocksInv'
  BY <1>2, <1>3 DEF BlocksInv, LeakOnlyWithoutAnswer
<1>6. SizesInv'
  <2>1. ~\E size \in Nat : RoundOf(B, coef, size)
    <3>1. \A j \in 0 .. UINT16_WIDTH - 1 : j \in 0 .. UINT64_WIDTH
      BY CtphAssumption
    <3> QED  BY <1>2, <3>1, BitsGrow DEF RoundOf
  <2>2. B >= Bit[UINT16_WIDTH]
    BY <1>1, <1>2, <2>1 DEF SizesInv
  <2> QED  BY <1>2, <1>3, <2>2 DEF SizesInv, CrashOnlyOnLongData
<1>7. EngineInv' /\ TextsInv'
  BY <1>2, <1>3 DEF EngineInv, TextsInv, TextsOfBothSizes
<1> QED  BY <1>4, <1>5, <1>6, <1>7 DEF CtphInv

LEMMA EngineByteInv == CtphInv /\ EngineByte => CtphInv'
<1> SUFFICES ASSUME CtphInv, EngineByte PROVE CtphInv'
  OBVIOUS
<1>1. TypeOK /\ BlocksInv /\ SizesInv /\ EngineInv /\ TextsInv
  BY DEF CtphInv
<1>2. /\ pc = "engine" /\ block # 0 /\ byte < Len(data)
      /\ Len(signature) < SIGN_LENGTH - 1
      /\ byte' = byte + 1
      /\ result = Null
  BY <1>1 DEF EngineByte, Scanning, BlocksInv
<1>3. UNCHANGED <<data, B, coef, true_B, hash, hash_prec, hash_length,
                  hash_length_prec, heap, blocks, caller, block, pc, result>>
  BY DEF EngineByte, dataVars, roundVars, hashVars, heapVars
<1>4. Scanned(data, block, byte, from, signature)
  BY <1>1, <1>2 DEF EngineInv
<1>5. Scanned(data, block, byte', from', signature')
  <2>1. CASE Trigger(data, byte + 1, block)
    <3>1. from' = byte + 1
          /\ signature' = Append(signature, [first |-> from + 1, last |-> byte + 1])
      BY <1>2, <2>1 DEF EngineByte
    <3> QED  BY <1>2, <1>4, <2>1, <3>1, ScannedTrigger
  <2>2. CASE ~Trigger(data, byte + 1, block)
    <3>1. from' = from /\ signature' = signature
      BY <1>2, <2>2 DEF EngineByte
    <3> QED  BY <1>2, <1>4, <2>2, <3>1, ScannedNoTrigger
  <2> QED  BY <2>1, <2>2
<1>6. byte' \in Nat /\ from' \in 0 .. byte' /\ signature' \in Seq(Pieces)
  BY <1>5 DEF Scanned, Place
<1>7. TypeOK'
  BY <1>1, <1>3, <1>6 DEF TypeOK
<1>8. BlocksInv'
  BY <1>1, <1>2, <1>3 DEF BlocksInv, LeakOnlyWithoutAnswer
<1>9. SizesInv'
  BY <1>1, <1>2, <1>3 DEF SizesInv, CrashOnlyOnLongData
<1>10. EngineInv'
  BY <1>1, <1>3, <1>5 DEF EngineInv
<1>11. TextsInv'
  BY <1>1, <1>2, <1>3 DEF TextsInv, TextsOfBothSizes
<1> QED  BY <1>7, <1>8, <1>9, <1>10, <1>11 DEF CtphInv

(* A block that is allocated or freed leaves the others as they were.      *)
LEMMA KeptElsewhere ==
  ASSUME NEW d, NEW h, NEW p, NEW length, NEW b, Kept(d, h, p, length, b),
         NEW g, p \in DOMAIN g, g[p] = h[p]
  PROVE  Kept(d, g, p, length, b)
BY DEF Kept

LEMMA EngineReturnInv == CtphInv /\ EngineReturn => CtphInv'
<1> SUFFICES ASSUME CtphInv, EngineReturn PROVE CtphInv'
  OBVIOUS
<1>1. TypeOK /\ BlocksInv /\ SizesInv /\ EngineInv /\ TextsInv
  BY DEF CtphInv
<1>2. /\ pc = "engine" /\ block # 0
      /\ byte >= Len(data) \/ Len(signature) >= SIGN_LENGTH - 1
      /\ data \in Seq(Nat)
      /\ result = Null
  <2>1. /\ pc = "engine" /\ block # 0 /\ ~Scanning /\ result = Null
        /\ data \in Seq(Nat) /\ byte \in Nat /\ signature \in Seq(Pieces)
    BY <1>1 DEF EngineReturn, BlocksInv, TypeOK
  <2>2. Len(data) \in Nat /\ Len(signature) \in Nat
    BY <2>1
  <2> QED  BY <2>1, <2>2, Lengths DEF Scanning
<1>3. /\ heap' = Allocated(FinalHash)
      /\ blocks' = blocks + 1
      /\ UNCHANGED <<data, B, coef, true_B, caller, block, byte, from,
                     signature, result>>
  BY DEF EngineReturn, dataVars, roundVars, engineVars
<1>4. B # 0 /\ RoundOf(B, coef, true_B) /\ Len(data) >= SIGN_LENGTH - MIN_BLOCK_SIZE
  BY <1>1, <1>2 DEF SizesInv
<1>5. /\ FinalHash \in Seq(Pieces)
      /\ Len(FinalHash) \in 1 .. SIGN_LENGTH - 1
      /\ IsText(data, FinalHash, block)
      /\ block = 1 => Len(FinalHash) - 1 >= HALF_LENGTH
  <2>1. Scanned(data, block, byte, from, signature)
    BY <1>1, <1>2 DEF EngineInv
  <2>2. FinalHash = IF from = byte THEN signature
                      ELSE Append(signature, [first |-> from + 1, last |-> byte])
    BY DEF FinalHash
  <2> HIDE DEF FinalHash
  <2> QED  BY <1>2, <1>4, <2>1, <2>2, ScannedAll
<1> DEFINE text == FinalHash
<1> HIDE DEF text
<1>6. /\ DOMAIN heap' = DOMAIN heap \cup {blocks}
      /\ heap'[blocks] = text
      /\ \A x \in DOMAIN heap : x # blocks /\ heap'[x] = heap[x]
  <2>1. \A x \in DOMAIN heap : x # blocks
    BY <1>1 DEF TypeOK
  <2> QED  BY <1>3, <2>1 DEF Allocated, text
<1>7. blocks \in Nat /\ blocks # Null
  BY <1>1, CtphAssumption DEF TypeOK
<1>8. Kept(data, heap', blocks, Len(text) - 1, block)
  <2>1. Len(text) = (Len(text) - 1) + 1
    BY <1>5 DEF text
  <2> QED  BY <1>5, <1>6, <2>1 DEF Kept, text
<1>9. \A x \in DOMAIN heap' : heap'[x] \in Seq(Pieces)
  BY <1>1, <1>5, <1>6 DEF TypeOK, text
<1>10. Len(text) - 1 \in Int /\ Len(text) - 1 < SIGN_LENGTH
       /\ (block = 1 => Len(text) - 1 >= HALF_LENGTH)
  BY <1>5, Lengths DEF text
<1>11. CASE caller = "hash"
  <2>1. /\ hash' = blocks /\ hash_length' = Len(text) - 1 /\ pc' = "check"
        /\ UNCHANGED <<hash_prec, hash_length_prec>>
    BY <1>11 DEF EngineReturn, text
  <2>2. block = true_B
    BY <1>1, <1>2, <1>11 DEF EngineInv
  <2>3. TypeOK'
    BY <1>1, <1>2, <1>3, <1>6, <1>7, <1>9, <1>10, <2>1 DEF TypeOK
  <2>4. BlocksInv'
    <3>1. DOMAIN heap = {hash_prec} \ {Null}
      BY <1>1, <1>2, <1>11 DEF BlocksInv
    <3>2. hash_prec # blocks
      BY <1>6, <1>7, <3>1
    <3> QED  BY <1>2, <1>3, <1>6, <1>7, <2>1, <3>1, <3>2
             DEF BlocksInv, LeakOnlyWithoutAnswer
  <2>5. SizesInv'
    BY <1>3, <1>4, <2>1 DEF SizesInv, CrashOnlyOnLongData
  <2>6. EngineInv'
    BY <2>1 DEF EngineInv
  <2>7. TextsInv'
    <3>1. ASSUME hash_prec # Null
          PROVE  Kept(data, heap', hash_prec, hash_length_prec, 2 * true_B)
      <4>1. Kept(data, heap, hash_prec, hash_length_prec, 2 * true_B)
        BY <1>1, <1>2, <1>11, <3>1 DEF TextsInv
      <4>2. hash_prec \in DOMAIN heap
        BY <4>1 DEF Kept
      <4> QED  BY <1>6, <4>1, <4>2, KeptElsewhere
    <3> QED  BY <1>2, <1>3, <1>8, <1>10, <2>1, <2>2, <3>1
             DEF TextsInv, TextsOfBothSizes
  <2> QED  BY <2>3, <2>4, <2>5, <2>6, <2>7 DEF CtphInv
<1>12. CASE caller = "hash_prec"
  <2>1. /\ hash_prec' = blocks /\ hash_length_prec' = Len(text) - 1 /\ pc' = "concat"
        /\ UNCHANGED <<hash, hash_length>>
    BY <1>12 DEF EngineReturn, text
  <2>2. block = 2 * true_B
    BY <1>1, <1>2, <1>12 DEF EngineInv
  <2>3. TypeOK'
    BY <1>1, <1>2, <1>3, <1>6, <1>7, <1>9, <1>10, <2>1 DEF TypeOK
  <2>4. BlocksInv'
    <3>1. hash # Null /\ DOMAIN heap = {hash}
      BY <1>1, <1>2, <1>12 DEF BlocksInv
    <3>2. hash # blocks
      BY <1>6, <3>1
    <3> QED  BY <1>2, <1>3, <1>6, <1>7, <2>1, <3>1, <3>2
             DEF BlocksInv, LeakOnlyWithoutAnswer
  <2>5. SizesInv'
    BY <1>3, <1>4, <2>1 DEF SizesInv, CrashOnlyOnLongData
  <2>6. EngineInv'
    BY <2>1 DEF EngineInv
  <2>7. TextsInv'
    <3>1. Kept(data, heap, hash, hash_length, true_B)
      BY <1>1, <1>2, <1>12 DEF TextsInv
    <3>2. Kept(data, heap', hash, hash_length, true_B)
      <4>1. hash \in DOMAIN heap
        BY <3>1 DEF Kept
      <4> QED  BY <1>6, <3>1, <4>1, KeptElsewhere
    <3> QED  BY <1>2, <1>3, <1>8, <2>1, <2>2, <3>2 DEF TextsInv, TextsOfBothSizes
  <2> QED  BY <2>3, <2>4, <2>5, <2>6, <2>7 DEF CtphInv
<1> QED  BY <1>1, <1>11, <1>12 DEF TypeOK

LEMMA EngineFailsInv == CtphInv /\ EngineFails => CtphInv'
<1> SUFFICES ASSUME CtphInv, EngineFails PROVE CtphInv'
  OBVIOUS
<1>1. TypeOK /\ BlocksInv /\ SizesInv
  BY DEF CtphInv
<1>2. pc = "engine" /\ pc' = "done" /\ result = Null
  BY <1>1 DEF EngineFails, BlocksInv
<1>3. UNCHANGED <<data, B, coef, true_B, hash_prec, hash_length,
                  hash_length_prec, blocks, caller, block, byte, from,
                  signature, result>>
  BY DEF EngineFails, dataVars, roundVars, engineVars
<1>4. \/ caller = "hash" /\ hash' = Null /\ heap' = heap
      \/ /\ caller = "hash_prec" /\ hash' = hash
         /\ heap' = [x \in DOMAIN heap \ {hash} |-> heap[x]]
  BY <1>1 DEF EngineFails, TypeOK, Freed
<1>5. TypeOK'
  BY <1>1, <1>2, <1>3, <1>4 DEF TypeOK
<1>6. BlocksInv'
  BY <1>1, <1>2, <1>3, <1>4 DEF BlocksInv, LeakOnlyWithoutAnswer
<1>7. SizesInv' /\ EngineInv' /\ TextsInv'
  BY <1>2, <1>3 DEF SizesInv, EngineInv, TextsInv, CrashOnlyOnLongData, TextsOfBothSizes
<1> QED  BY <1>5, <1>6, <1>7 DEF CtphInv

(* The next block size is half of this one, or coef has gone round.        *)
LEMMA NextRound ==
  ASSUME NEW b \in Nat, NEW c \in Nat, NEW size \in Nat,
         RoundOf(b, c, size), size # 1
  PROVE  \/ Doubled(c) = 0 /\ b >= Bit[UINT16_WIDTH]
         \/ /\ Doubled(c) # 0
            /\ size = 2 * (b \div Doubled(c))
            /\ \E half \in Nat : RoundOf(b, Doubled(c), half)
<1>1. PICK j \in 0 .. UINT16_WIDTH - 1, k \in 0 .. UINT64_WIDTH :
        c = Bit[j] /\ size = Bit[k] /\ b = size * c
  BY DEF RoundOf
<1>2. /\ UINT16_WIDTH \in 1 .. UINT64_WIDTH /\ j \in 0 .. UINT64_WIDTH - 1
      /\ UINT64_WIDTH \in Nat
  BY CtphAssumption
<1>3. k \in 1 .. UINT64_WIDTH /\ k - 1 \in 0 .. UINT64_WIDTH
  BY <1>1, <1>2, CtphAssumption
<1>4. size = 2 * Bit[k - 1] /\ Bit[k - 1] \in Nat /\ Bit[k - 1] >= 1
  BY <1>1, <1>3, BitsGrow, CtphAssumption
<1>5. b = Bit[k - 1] * (2 * c)
  BY <1>1, <1>4, ProductMoved
<1>6. CASE j + 1 < UINT16_WIDTH
  <2>1. j + 1 \in 0 .. UINT16_WIDTH - 1 /\ j + 1 \in 1 .. UINT64_WIDTH /\ (j + 1) - 1 = j
    BY <1>2, <1>6
  <2>2. Doubled(c) = Bit[j + 1]
    BY <1>1, <1>2, <1>6, NextBit DEF Doubled
  <2>3. Bit[j + 1] = 2 * c
    BY <1>1, <2>1, CtphAssumption
  <2>4. Doubled(c) \in Nat /\ Doubled(c) >= 1
    BY <2>1, <2>2, BitsGrow
  <2>5. b = Bit[k - 1] * Doubled(c)
    BY <1>5, <2>2, <2>3
  <2>6. b \div Doubled(c) = Bit[k - 1]
    BY <1>4, <2>4, <2>5, ProductDivided
  <2>7. RoundOf(b, Doubled(c), Bit[k - 1])
    BY <1>3, <2>1, <2>2, <2>5 DEF RoundOf
  <2> QED  BY <1>4, <2>4, <2>6, <2>7
<1>7. CASE j + 1 = UINT16_WIDTH
  <2>1. Doubled(c) = 0
    BY <1>1, <1>2, <1>7, NextBit DEF Doubled
  <2>2. 2 * c = Bit[UINT16_WIDTH]
    <3>1. UINT16_WIDTH - 1 = j
      BY <1>2, <1>7
    <3> QED  BY <1>1, <1>2, <3>1, CtphAssumption
  <2>3. Bit[k - 1] * (2 * c) >= 2 * c
    BY <1>4, ProductMoved
  <2> QED  BY <1>5, <2>1, <2>2, <2>3
<1> QED  BY <1>2, <1>6, <1>7

LEMMA TooShortInv == CtphInv /\ TooShort => CtphInv'
<1> SUFFICES ASSUME CtphInv, TooShort PROVE CtphInv'
  OBVIOUS
<1>1. TypeOK /\ BlocksInv /\ SizesInv /\ TextsInv
  BY DEF CtphInv
<1>2. /\ pc = "check" /\ hash_length < HALF_LENGTH /\ result = Null
      /\ hash # Null /\ hash # hash_prec
      /\ DOMAIN heap = {hash} \cup ({hash_prec} \ {Null})
  BY <1>1 DEF TooShort, BlocksInv
<1>3. /\ heap' = IF hash_prec = Null THEN heap
                   ELSE [x \in DOMAIN heap \ {hash_prec} |-> heap[x]]
      /\ hash_prec' = hash
      /\ hash_length_prec' = hash_length
      /\ coef' = Doubled(coef)
      /\ pc' = "adjust"
  BY DEF TooShort, Freed
<1>4. UNCHANGED <<data, B, true_B, hash, hash_length, blocks, caller, block,
                  byte, from, signature, result>>
  BY DEF TooShort, dataVars, engineVars
<1>5. DOMAIN heap' = {hash} /\ heap'[hash] = heap[hash]
  BY <1>2, <1>3
<1>6. coef' \in 0 .. Bit[UINT16_WIDTH] - 1
  <2>1. Bit[UINT16_WIDTH] \in Nat \ {0}
    BY BitsGrow, CtphAssumption
  <2>2. 2 * coef \in Nat
    BY <1>1, <2>1 DEF TypeOK
  <2> QED  BY <1>3, <2>1, <2>2, Remainder DEF Doubled
<1>7. \/ coef' = 0 /\ B >= Bit[UINT16_WIDTH]
      \/ /\ coef' # 0
         /\ true_B = 2 * (B \div coef')
         /\ \E half \in Nat : RoundOf(B, coef', half)
  <2>1. RoundOf(B, coef, true_B)
    BY <1>1, <1>2 DEF SizesInv
  <2>2. true_B # 1
    <3>1. true_B = 1 => hash_length >= HALF_LENGTH
      BY <1>1, <1>2 DEF TextsInv
    <3> QED  BY <1>1, <1>2, <3>1, Lengths DEF TypeOK
  <2>3. B \in Nat /\ true_B \in Nat /\ coef \in Nat
    <3>1. Bit[UINT16_WIDTH] \in Nat
      BY CtphAssumption
    <3> QED  BY <1>1, <3>1 DEF TypeOK
  <2> QED  BY <1>3, <2>1, <2>2, <2>3, NextRound
<1>8. Kept(data, heap', hash, hash_length, true_B)
  <2>1. Kept(data, heap, hash, hash_length, true_B)
    BY <1>1, <1>2 DEF TextsInv
  <2> QED  BY <1>5, <2>1, KeptElsewhere
<1>9. TypeOK'
  <2>1. /\ \A x \in DOMAIN heap' : heap'[x] \in Seq(Pieces)
        /\ DOMAIN heap' \subseteq 0 .. blocks - 1
    BY <1>1, <1>2, <1>5 DEF TypeOK
  <2> QED  BY <1>1, <1>2, <1>3, <1>4, <1>6, <2>1 DEF TypeOK
<1>10. BlocksInv'
  BY <1>2, <1>3, <1>4, <1>5 DEF BlocksInv, LeakOnlyWithoutAnswer
<1>11. SizesInv'
  BY <1>1, <1>2, <1>3, <1>4, <1>7 DEF SizesInv, CrashOnlyOnLongData
<1>12. EngineInv'
  BY <1>3 DEF EngineInv
<1>13. TextsInv'
  BY <1>2, <1>3, <1>4, <1>7, <1>8 DEF TextsInv, TextsOfBothSizes
<1> QED  BY <1>9, <1>10, <1>11, <1>12, <1>13 DEF CtphInv

LEMMA LongEnoughInv == CtphInv /\ LongEnough => CtphInv'
<1> SUFFICES ASSUME CtphInv, LongEnough PROVE CtphInv'
  OBVIOUS
<1>1. TypeOK /\ BlocksInv /\ SizesInv /\ TextsInv
  BY DEF CtphInv
<1>2. /\ pc = "check" /\ hash_length < SIGN_LENGTH /\ result = Null
      /\ hash # Null /\ hash # hash_prec
      /\ DOMAIN heap = {hash} \cup ({hash_prec} \ {Null})
      /\ data \in Seq(Nat)
  BY <1>1 DEF LongEnough, BlocksInv, TextsInv, TypeOK
<1>3. UNCHANGED <<data, B, true_B, hash, hash_prec, hash_length,
                  hash_length_prec, heap, coef, blocks, result>>
  <2>1. ~(hash_length >= SIGN_LENGTH)
    BY <1>1, <1>2, Lengths DEF TypeOK
  <2> QED  BY <2>1 DEF LongEnough, dataVars, hashVars
<1>4. B # 0 /\ RoundOf(B, coef, true_B)
  BY <1>1, <1>2 DEF SizesInv
<1>5. coef \in Nat /\ coef >= 1 /\ true_B \in Nat /\ true_B >= 1
  <2>1. \A j \in 0 .. UINT16_WIDTH - 1 : j \in 0 .. UINT64_WIDTH
    BY CtphAssumption
  <2> QED  BY <1>4, <2>1, BitsGrow DEF RoundOf
<1>6. CASE hash_prec = Null
  <2>1. /\ pc' = "engine" /\ caller' = "hash_prec" /\ block' = 2 * true_B
        /\ byte' = 0 /\ from' = 0 /\ signature' = <<>>
    BY <1>3, <1>5, <1>6 DEF LongEnough, Call
  <2>2. TypeOK'
    BY <1>1, <1>2, <1>3, <1>5, <2>1 DEF TypeOK
  <2>3. BlocksInv'
    BY <1>2, <1>3, <1>6, <2>1 DEF BlocksInv, LeakOnlyWithoutAnswer
  <2>4. SizesInv'
    BY <1>1, <1>2, <1>3, <1>4, <2>1 DEF SizesInv, CrashOnlyOnLongData
  <2>5. EngineInv'
    <3>1. 2 * true_B \in Nat /\ 2 * true_B # 0
      BY <1>5
    <3> QED  BY <1>2, <1>3, <2>1, <3>1, ScannedNothing DEF EngineInv
  <2>6. TextsInv'
    BY <1>1, <1>2, <1>3, <1>6, <2>1 DEF TextsInv, TextsOfBothSizes
  <2> QED  BY <2>2, <2>3, <2>4, <2>5, <2>6 DEF CtphInv
<1>7. CASE hash_prec # Null
  <2>1. pc' = "concat" /\ UNCHANGED <<caller, block, byte, from, signature>>
    BY <1>7 DEF LongEnough, engineVars
  <2>2. TypeOK'
    BY <1>1, <1>2, <1>3, <2>1 DEF TypeOK
  <2>3. BlocksInv'
    BY <1>2, <1>3, <1>7, <2>1 DEF BlocksInv, LeakOnlyWithoutAnswer
  <2>4. SizesInv'
    BY <1>1, <1>2, <1>3, <1>4, <2>1 DEF SizesInv, CrashOnlyOnLongData
  <2>5. EngineInv'
    BY <2>1 DEF EngineInv
  <2>6. TextsInv'
    BY <1>1, <1>2, <1>3, <1>7, <2>1 DEF TextsInv, TextsOfBothSizes
  <2> QED  BY <2>2, <2>3, <2>4, <2>5, <2>6 DEF CtphInv
<1> QED  BY <1>6, <1>7

LEMMA ConcatenateInv == CtphInv /\ Concatenate => CtphInv'
<1> SUFFICES ASSUME CtphInv, Concatenate PROVE CtphInv'
  OBVIOUS
<1>1. TypeOK /\ BlocksInv /\ SizesInv /\ TextsInv
  BY DEF CtphInv
<1>2. /\ pc = "concat" /\ pc' = "done" /\ result = Null
      /\ DOMAIN heap = {hash, hash_prec}
  BY <1>1 DEF Concatenate, BlocksInv
<1>3. UNCHANGED <<data, B, coef, true_B, hash, hash_prec, hash_length,
                  hash_length_prec, blocks, caller, block, byte, from,
                  signature>>
  BY DEF Concatenate, dataVars, roundVars, hashVars, engineVars
<1>4. \/ /\ result' = [block_size |-> true_B,
                       hash       |-> heap[hash],
                       hash_prec  |-> heap[hash_prec]]
         /\ heap' = [x \in DOMAIN heap \ {hash, hash_prec} |-> heap[x]]
      \/ result' = result /\ heap' = heap
  BY DEF Concatenate, Freed
<1>5. TypeOK'
  BY <1>1, <1>2, <1>3, <1>4 DEF TypeOK
<1>6. BlocksInv'
  <2>1. heap' = [x \in {} |-> <<>>] \/ (result' = Null /\ heap' = heap)
    BY <1>2, <1>4
  <2>2. DOMAIN heap' \subseteq {hash, hash_prec}
    BY <1>2, <1>4
  <2> QED  BY <1>2, <1>3, <2>1, <2>2 DEF BlocksInv, LeakOnlyWithoutAnswer
<1>7. SizesInv' /\ EngineInv'
  BY <1>2, <1>3 DEF SizesInv, EngineInv, CrashOnlyOnLongData
<1>8. TextsOfBothSizes'
  <2>1. IsText(data, heap[hash], true_B) /\ IsText(data, heap[hash_prec], 2 * true_B)
    BY <1>1, <1>2 DEF TextsInv, Kept
  <2> QED  BY <1>2, <1>3, <1>4, <2>1 DEF TextsOfBothSizes
<1>9. TextsInv'
  BY <1>2, <1>8 DEF TextsInv
<1> QED  BY <1>5, <1>6, <1>7, <1>9 DEF CtphInv

LEMMA UnchangedInv == CtphInv /\ UNCHANGED vars => CtphInv'
<1> SUFFICES ASSUME CtphInv, UNCHANGED vars PROVE CtphInv'
  OBVIOUS
<1>1. UNCHANGED <<data, B, coef, true_B, hash, hash_prec, hash_length,
                  hash_length_prec, heap, blocks, caller, block, byte, from,
                  signature, pc, result>>
  BY DEF vars, dataVars, roundVars, hashVars, heapVars, engineVars
<1>2. TypeOK /\ BlocksInv /\ SizesInv /\ EngineInv /\ TextsInv
  BY DEF CtphInv
<1>3. TypeOK'
  BY <1>1, <1>2 DEF TypeOK
<1>4. BlocksInv'
  BY <1>1, <1>2 DEF BlocksInv, LeakOnlyWithoutAnswer
<1>5. SizesInv'
  BY <1>1, <1>2 DEF SizesInv, CrashOnlyOnLongData
<1>6. EngineInv'
  BY <1>1, <1>2 DEF EngineInv
<1>7. TextsInv'
  BY <1>1, <1>2 DEF TextsInv, TextsOfBothSizes
<1> QED  BY <1>3, <1>4, <1>5, <1>6, <1>7 DEF CtphInv

LEMMA CtphInvNext == CtphInv /\ [Next]_vars => CtphInv'
<1> SUFFICES ASSUME CtphInv, [Next]_vars PROVE CtphInv'
  OBVIOUS
<1>1. CASE Start
  BY <1>1, StartInv
<1>2. CASE Adjust
  BY <1>2, AdjustInv
<1>3. CASE DivideByZero
  BY <1>3, DivideByZeroInv
<1>4. CASE EngineByte
  BY <1>4, EngineByteInv
<1>5. CASE EngineReturn
  BY <1>5, EngineReturnInv
<1>6. CASE EngineFails
  BY <1>6, EngineFailsInv
<1>7. CASE TooShort
  BY <1>7, TooShortInv
<1>8. CASE LongEnough
  BY <1>8, LongEnoughInv
<1>9. CASE Concatenate
  BY <1>9, ConcatenateInv
<1>10. CASE Stopped
  BY <1>10, UnchangedInv DEF Stopped
<1>11. CASE UNCHANGED vars
  BY <1>11, UnchangedInv
<1> QED  BY <1>1, <1>2, <1>3, <1>4, <1>5, <1>6, <1>7, <1>8, <1>9, <1>10, <1>11
         DEF Next

LEMMA CtphInvAlways == Spec => []CtphInv
BY CtphInvInit, CtphInvNext, PTL DEF Spec

-----------------------------------------------------------------------------
(***************************************************************************)
(* The block sizes tried before this one have given too short a text.      *)
(***************************************************************************)

TooShortAbove(size) ==
  \A b \in BlockSizes : b > size => TextLength(b) < HALF_LENGTH

LargestInv ==
  /\ B = 0 \/ B \in PowersOfTwo
  /\ pc = "adjust" /\ coef # 0 => TooShortAbove(B \div coef)
  /\ pc \in {"engine", "check", "concat"} => TooShortAbove(true_B)
  /\ pc = "engine" /\ caller = "hash_prec" => hash_length >= HALF_LENGTH
  /\ pc = "concat" => hash_length >= HALF_LENGTH
  /\ LargestBlockSize

(* A text that is kept has the length its block size gives.                *)
LEMMA KeptLength ==
  ASSUME TypeOK, data \in Seq(Nat), NEW p, NEW length \in Int, NEW b,
         Kept(data, heap, p, length, b)
  PROVE  TextLength(b) = length
<1>1. IsText(data, heap[p], b) /\ Len(heap[p]) = length + 1
  BY DEF Kept
<1>2. heap[p] \in Seq(Pieces)
  BY DEF Kept, TypeOK
<1>3. TextLength(b) = Len(heap[p]) - 1
  BY <1>1, <1>2, LengthOfText
<1> QED  BY <1>1, <1>3

(* None of the block sizes is larger than the first.                       *)
LEMMA FirstIsLargest ==
  ASSUME B \in PowersOfTwo
  PROVE  \A b \in BlockSizes : ~(b > B \div 1)
<1>1. PICK m \in 0 .. UINT64_WIDTH : B = Bit[m]
  BY DEF PowersOfTwo
<1>2. SUFFICES ASSUME NEW c \in 0 .. UINT64_WIDTH PROVE ~(B \div Bit[c] > B \div 1)
  BY DEF BlockSizes, PowersOfTwo
<1>3. Bit[m] \in Nat /\ Bit[c] \in Nat /\ Bit[c] >= 1
  BY BitsGrow
<1>4. Bit[m] \div 1 = Bit[m]
  BY <1>3
<1>5. Bit[m] \div Bit[c] = IF c <= m THEN Bit[m - c] ELSE 0
  BY BitDivided
<1>6. c <= m => Bit[m - c] \in Nat /\ Bit[m - c] <= Bit[m]
  <2>1. SUFFICES ASSUME c <= m PROVE Bit[m - c] \in Nat /\ Bit[m - c] <= Bit[m]
    OBVIOUS
  <2>2. m - c \in 0 .. m - 1 \/ m - c = m
    BY <2>1
  <2>3. m - c \in 0 .. UINT64_WIDTH
    BY <2>1, CtphAssumption
  <2>4. Bit[m - c] \in Nat /\ \A j \in 0 .. m - 1 : Bit[j] < Bit[m]
    BY <2>3, BitsGrow
  <2> QED  BY <1>3, <2>2, <2>4
<1> QED  BY <1>1, <1>3, <1>4, <1>5, <1>6

(* Half a block size is the next smaller one.                              *)
LEMMA HalfIsNext ==
  ASSUME NEW b \in PowersOfTwo, NEW size \in PowersOfTwo, NEW half \in Nat,
         size = 2 * half, NEW c \in PowersOfTwo, b \div c > half
  PROVE  b \div c >= size
<1>1. PICK m \in 0 .. UINT64_WIDTH, k \in 0 .. UINT64_WIDTH, l \in 0 .. UINT64_WIDTH :
        b = Bit[m] /\ size = Bit[k] /\ c = Bit[l]
  BY DEF PowersOfTwo
<1>2. k # 0
  BY <1>1, CtphAssumption
<1>3. k \in 1 .. UINT64_WIDTH /\ k - 1 \in 0 .. UINT64_WIDTH
  BY <1>2, CtphAssumption
<1>4. Bit[k] = 2 * Bit[k - 1] /\ Bit[k - 1] \in Nat
  BY <1>3, CtphAssumption
<1>5. half = Bit[k - 1]
  BY <1>1, <1>4
<1> QED  BY <1>1, <1>3, <1>5, NoSizeBetween

LEMMA LargestInvInit == Init => LargestInv
BY DEF Init, LargestInv, LargestBlockSize

LEMMA LargestStart ==
  CtphInv /\ LargestInv /\ Start => LargestInv'
<1> SUFFICES ASSUME CtphInv, LargestInv, Start PROVE LargestInv'
  OBVIOUS
<1>1. TypeOK /\ pc = "start" /\ coef = 1 /\ result = Null
  BY DEF CtphInv, Start, BlocksInv, SizesInv
<1>2. /\ pc' \in {"done", "adjust"}
      /\ pc' = "done" => B' = B
      /\ UNCHANGED <<coef, result>>
  BY DEF Start, roundVars
<1>3. B' = 0 \/ B' \in PowersOfTwo
  BY <1>1, <1>2, FirstSize DEF LargestInv, PowersOfTwo
<1>4. (TooShortAbove(B \div 1))'
  <2>1. CASE B' = 0
    <3>1. \A k \in 0 .. UINT64_WIDTH : Bit[k] \in Nat /\ Bit[k] >= 1
      BY BitsGrow
    <3>2. \A n \in Nat \ {0} : 0 \div n = 0
      OBVIOUS
    <3>3. \A b \in BlockSizes' : b = 0
      BY <2>1, <3>1, <3>2 DEF BlockSizes, PowersOfTwo
    <3> QED  BY <2>1, <3>2, <3>3 DEF TooShortAbove
  <2>2. CASE B' \in PowersOfTwo
    <3>1. (B \in PowersOfTwo)'
      BY <2>2 DEF PowersOfTwo
    <3>2. (\A b \in BlockSizes : ~(b > B \div 1))'
      BY <3>1, FirstIsLargest, PTL
    <3> QED  BY <3>2 DEF TooShortAbove
  <2> QED  BY <1>3, <2>1, <2>2
<1> QED  BY <1>1, <1>2, <1>3, <1>4 DEF LargestInv, LargestBlockSize, PowersOfTwo

(* The data and the first block size decide the rest.                      *)
LEMMA SameSizes ==
  ASSUME UNCHANGED <<data, B>>
  PROVE  /\ BlockSizes' = BlockSizes
         /\ \A b : TextLength(b)' = TextLength(b)
         /\ \A size : TooShortAbove(size)' <=> TooShortAbove(size)
BY DEF BlockSizes, TextLength, Position, TooShortAbove

(* In a round, B divided by coef is the block size.                        *)
LEMMA RoundSize ==
  ASSUME NEW b, NEW c, NEW size, RoundOf(b, c, size)
  PROVE  /\ c \in PowersOfTwo /\ size \in PowersOfTwo
         /\ c \in Nat /\ c # 0 /\ size \in Nat
         /\ b \div c = size
<1>1. PICK j \in 0 .. UINT16_WIDTH - 1, k \in 0 .. UINT64_WIDTH :
        c = Bit[j] /\ size = Bit[k] /\ b = size * c
  BY DEF RoundOf
<1>2. j \in 0 .. UINT64_WIDTH
  BY CtphAssumption
<1>3. c \in Nat /\ c >= 1 /\ size \in Nat
  BY <1>1, <1>2, BitsGrow
<1> QED  BY <1>1, <1>2, <1>3, ProductDivided DEF PowersOfTwo

LEMMA LargestTooShort ==
  CtphInv /\ LargestInv /\ TooShort => LargestInv'
<1> SUFFICES ASSUME CtphInv, LargestInv, TooShort PROVE LargestInv'
  OBVIOUS
<1>1. TypeOK /\ BlocksInv /\ SizesInv /\ TextsInv
  BY DEF CtphInv
<1>2. /\ pc = "check" /\ pc' = "adjust" /\ hash_length < HALF_LENGTH
      /\ coef' = Doubled(coef)
      /\ UNCHANGED <<data, B, result>>
      /\ result = Null
      /\ data \in Seq(Nat)
  BY <1>1 DEF TooShort, dataVars, BlocksInv, TypeOK
<1>3. B # 0 /\ RoundOf(B, coef, true_B)
  BY <1>1, <1>2 DEF SizesInv
<1>4. TextLength(true_B) < HALF_LENGTH
  <2>1. Kept(data, heap, hash, hash_length, true_B) /\ hash_length \in Int
    BY <1>1, <1>2 DEF TextsInv, TypeOK
  <2>2. TextLength(true_B) = hash_length
    BY <1>1, <1>2, <2>1, KeptLength
  <2> QED  BY <1>2, <2>2
<1>5. TooShortAbove(true_B)
  BY <1>2 DEF LargestInv
<1>6. ASSUME coef' # 0 PROVE TooShortAbove(B \div coef')
  <2>1. /\ true_B = 2 * (B \div coef')
        /\ \E half \in Nat : RoundOf(B, coef', half)
    <3>1. true_B # 1
      <4>1. true_B = 1 => hash_length >= HALF_LENGTH
        BY <1>1, <1>2 DEF TextsInv
      <4> QED  BY <1>1, <1>2, <4>1, Lengths DEF TypeOK
    <3>2. B \in Nat /\ coef \in Nat /\ true_B \in Nat
      BY <1>1, <1>3, RoundSize DEF TypeOK
    <3> QED  BY <1>2, <1>3, <1>6, <3>1, <3>2, NextRound
  <2>2. B \div coef' \in Nat
    BY <2>1, RoundSize
  <2>3. B \in PowersOfTwo /\ true_B \in PowersOfTwo /\ true_B \in Nat
    BY <1>3, RoundSize DEF LargestInv
  <2>4. ASSUME NEW b \in BlockSizes, b > B \div coef'
        PROVE  TextLength(b) < HALF_LENGTH
    <3>1. PICK c \in PowersOfTwo : b = B \div c
      BY DEF BlockSizes
    <3>2. b >= true_B
      BY <2>1, <2>2, <2>3, <2>4, <3>1, HalfIsNext
    <3>3. b = true_B \/ b > true_B
      <4>1. \A k \in 0 .. UINT64_WIDTH : Bit[k] \in Nat /\ Bit[k] # 0
        BY BitsGrow
      <4>2. c \in Nat \ {0} /\ B \in Nat
        BY <2>3, <4>1 DEF PowersOfTwo
      <4>3. b \in Int
        BY <3>1, <4>2
      <4> QED  BY <2>3, <3>2, <4>3
    <3> QED  BY <1>4, <1>5, <3>3 DEF TooShortAbove
  <2> QED  BY <2>4 DEF TooShortAbove
<1>7. coef' # 0 => TooShortAbove(B \div coef)'
  BY <1>2, <1>6, SameSizes DEF TooShortAbove
<1> QED  BY <1>2, <1>7 DEF LargestInv, LargestBlockSize

LEMMA LargestConcatenate ==
  CtphInv /\ LargestInv /\ Concatenate => LargestInv'
<1> SUFFICES ASSUME CtphInv, LargestInv, Concatenate PROVE LargestInv'
  OBVIOUS
<1>1. TypeOK /\ BlocksInv /\ SizesInv /\ TextsInv
  BY DEF CtphInv
<1>2. /\ pc = "concat" /\ pc' = "done"
      /\ UNCHANGED <<data, B>>
      /\ result' = Null \/ result'.block_size = true_B
      /\ data \in Seq(Nat)
  BY <1>1 DEF Concatenate, dataVars, BlocksInv, TypeOK
<1>3. RoundOf(B, coef, true_B)
  BY <1>1, <1>2 DEF SizesInv
<1>4. true_B \in BlockSizes
  BY <1>3, RoundSize DEF BlockSizes
<1>5. TextLength(true_B) >= HALF_LENGTH
  <2>1. Kept(data, heap, hash, hash_length, true_B) /\ hash_length \in Int
    BY <1>1, <1>2 DEF TextsInv, TypeOK
  <2>2. TextLength(true_B) = hash_length
    BY <1>1, <1>2, <2>1, KeptLength
  <2> QED  BY <1>2, <2>2 DEF LargestInv
<1>6. TooShortAbove(true_B)
  BY <1>2 DEF LargestInv
<1>7. LargestBlockSize'
  <2>1. SUFFICES ASSUME result'.block_size = true_B PROVE LargestBlockSize'
    BY <1>2 DEF LargestBlockSize
  <2> QED  BY <1>2, <1>4, <1>5, <1>6, <2>1, SameSizes
           DEF LargestBlockSize, TooShortAbove
<1> QED  BY <1>2, <1>7 DEF LargestInv

(* The engine and the end of the loop keep the block size.                 *)
LEMMA LargestElsewhere ==
  ASSUME CtphInv, LargestInv,
         \/ Adjust \/ DivideByZero \/ EngineByte \/ EngineReturn
         \/ EngineFails \/ LongEnough \/ Stopped \/ UNCHANGED vars
  PROVE  LargestInv'
<1>1. TypeOK /\ BlocksInv
  BY DEF CtphInv
<1>2. UNCHANGED <<data, B, result>>
  BY DEF Adjust, DivideByZero, EngineByte, EngineReturn, EngineFails, LongEnough,
         Stopped, vars, dataVars
<1>3. (B = 0 \/ B \in PowersOfTwo)' /\ LargestBlockSize'
  BY <1>2, SameSizes DEF LargestInv, LargestBlockSize, PowersOfTwo
<1>4. CASE Adjust
  <2>1. /\ pc = "adjust" /\ coef # 0 /\ true_B' = B \div coef
        /\ pc' = "engine" /\ caller' = "hash"
    BY <1>4 DEF Adjust, Call
  <2>2. TooShortAbove(true_B')
    BY <2>1 DEF LargestInv
  <2>3. TooShortAbove(true_B)'
    BY <1>2, <2>2, SameSizes DEF TooShortAbove
  <2> QED  BY <1>3, <2>1, <2>3 DEF LargestInv
<1>5. CASE DivideByZero \/ EngineFails
  <2>1. pc' \in {"crashed", "done"}
    BY <1>5 DEF DivideByZero, EngineFails
  <2> QED  BY <1>3, <2>1 DEF LargestInv
<1>6. ASSUME UNCHANGED true_B, pc \in {"engine", "check", "concat"}
      PROVE  TooShortAbove(true_B)'
  <2>1. TooShortAbove(true_B)
    BY <1>6 DEF LargestInv
  <2> QED  BY <1>2, <1>6, <2>1, SameSizes DEF TooShortAbove
<1>7. CASE EngineByte
  <2>1. pc = "engine" /\ UNCHANGED <<pc, caller, true_B, hash_length>>
    BY <1>7 DEF EngineByte, Scanning, roundVars, hashVars
  <2> QED  BY <1>3, <1>6, <2>1 DEF LargestInv
<1>8. CASE EngineReturn
  <2>1. /\ pc = "engine" /\ UNCHANGED <<true_B, caller>>
        /\ \/ pc' = "check"
           \/ pc' = "concat" /\ caller = "hash_prec" /\ UNCHANGED hash_length
    BY <1>8 DEF EngineReturn, roundVars, engineVars
  <2> QED  BY <1>3, <1>6, <2>1 DEF LargestInv
<1>9. CASE LongEnough
  <2>1. /\ pc = "check" /\ hash_length >= HALF_LENGTH
        /\ pc' \in {"engine", "concat"}
        /\ UNCHANGED <<true_B, hash_length>>
    BY <1>9 DEF LongEnough, Call, hashVars
  <2> QED  BY <1>3, <1>6, <2>1 DEF LargestInv
<1>10. CASE Stopped \/ UNCHANGED vars
  <2>1. UNCHANGED <<pc, caller, true_B, hash_length, coef>>
    BY <1>10 DEF Stopped, vars, roundVars, hashVars, engineVars
  <2>2. pc = "adjust" /\ coef # 0 => TooShortAbove(B \div coef)'
    BY <1>2, <2>1, SameSizes DEF LargestInv, TooShortAbove
  <2> QED  BY <1>3, <1>6, <2>1, <2>2 DEF LargestInv
<1> QED  BY <1>4, <1>5, <1>7, <1>8, <1>9, <1>10

LEMMA LargestInvAlways == Spec => []LargestInv
<1>1. CtphInv /\ LargestInv /\ [Next]_vars => LargestInv'
  BY LargestStart, LargestTooShort, LargestConcatenate, LargestElsewhere DEF Next
<1> QED  BY LargestInvInit, CtphInvAlways, <1>1, PTL DEF Spec

-----------------------------------------------------------------------------
(***************************************************************************)
(* The theorems.                                                           *)
(***************************************************************************)

(* ctph_hash is well typed: coef stays in its 16 bits, the pointers point  *)
(* below the blocks granted, the texts are sequences of pieces.            *)
THEOREM CtphTypeCorrect == Spec => []TypeOK
<1>1. CtphInv => TypeOK
  BY DEF CtphInv
<1> QED  BY <1>1, CtphInvAlways, PTL

(* The answer is the text of its block size and the text of twice that     *)
(* size, however many rounds ctph_hash has gone and whether the second     *)
(* text is the one of the round before or comes from a call of its own     *)
(* (ctph.c:258).                                                           *)
THEOREM AnswerIsBothTexts == Spec => []TextsOfBothSizes
<1>1. CtphInv => TextsOfBothSizes
  BY DEF CtphInv, TextsInv
<1> QED  BY <1>1, CtphInvAlways, PTL

(* The block size of the answer is the largest tried whose text is long    *)
(* enough: the loop of ctph.c:240 never goes on past one that would do,    *)
(* and never stops at one that does not.                                   *)
THEOREM BlockSizeIsLargest == Spec => []LargestBlockSize
<1>1. LargestInv => LargestBlockSize
  BY DEF LargestInv
<1> QED  BY <1>1, LargestInvAlways, PTL

(* hash and hash_prec point to two blocks that are not freed whenever they *)
(* are to be printed or freed; the free of ctph.c:253, before a use at     *)
(* ctph.c:275, is not reached.                                             *)
THEOREM PointersAlwaysLive == Spec => []PointersAreLive
<1>1. ASSUME CtphInv PROVE PointersAreLive
  <2>1. BlocksInv /\ caller \in {"hash", "hash_prec"}
    BY <1>1 DEF CtphInv, TypeOK
  <2>2. /\ pc = "adjust" /\ hash_prec # Null => hash_prec \in DOMAIN heap
        /\ pc = "engine" /\ hash_prec # Null => hash_prec \in DOMAIN heap
        /\ pc = "check" /\ hash_prec # Null => hash_prec \in DOMAIN heap
    BY <2>1 DEF BlocksInv
  <2>3. pc \in {"check", "concat"} => hash \in DOMAIN heap
    BY <2>1 DEF BlocksInv
  <2>4. pc = "engine" /\ caller = "hash_prec" => hash \in DOMAIN heap
    BY <2>1 DEF BlocksInv
  <2>5. pc = "concat" => hash_prec \in DOMAIN heap /\ hash # hash_prec
    BY <2>1 DEF BlocksInv
  <2> QED  BY <2>2, <2>3, <2>4, <2>5 DEF PointersAreLive
<1> QED  BY <1>1, CtphInvAlways, PTL

(* The lengths that size the answer (ctph.c:270) are those of the texts    *)
(* copied into it.                                                         *)
THEOREM LengthsAreKept == Spec => []LengthsOfTheTexts
<1>1. CtphInv => LengthsOfTheTexts
  BY DEF CtphInv, TextsInv, Kept, LengthsOfTheTexts
<1> QED  BY <1>1, CtphInvAlways, PTL

(* No text is lost on the way to an answer; without one, at most two are.  *)
THEOREM NoTextIsLost == Spec => []LeakOnlyWithoutAnswer
<1>1. CtphInv => LeakOnlyWithoutAnswer
  BY DEF CtphInv, BlocksInv
<1> QED  BY <1>1, CtphInvAlways, PTL

(* The division by zero of ctph.c:241 needs a first block size beyond the  *)
(* range of coef.                                                          *)
THEOREM CrashNeedsLongData == Spec => []CrashOnlyOnLongData
<1>1. CtphInv => CrashOnlyOnLongData
  BY DEF CtphInv, SizesInv
<1> QED  BY <1>1, CtphInvAlways, PTL

=============================================================================
