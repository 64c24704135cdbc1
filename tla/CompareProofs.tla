--------------------------- MODULE CompareProofs ----------------------------
(***************************************************************************)
(* Proofs about ctph_compare and the edit distance it calls, for texts of  *)
(* any characters and any block sizes.                                     *)
(***************************************************************************)
EXTENDS CtphCompare, NaturalFacts, TLAPS

-----------------------------------------------------------------------------
(***************************************************************************)
(* copy_eliminate_sequences.                                               *)
(***************************************************************************)

(* The state of the copy after n characters.                               *)
CopyState == [out : Seq(STRING), prev : STRING \cup {Null}, seq : 0 .. 3]

CopyStart == [out |-> <<>>, prev |-> Null, seq |-> 0]

LEMMA CopyCharType ==
  ASSUME NEW copy \in CopyState, NEW curr \in STRING
  PROVE  CopyChar(copy, curr) \in CopyState
<1>1. /\ copy.out \in Seq(STRING)
      /\ copy.prev \in STRING \cup {Null}
      /\ copy.seq \in 0 .. 3
  BY DEF CopyState
<1>2. Append(copy.out, curr) \in Seq(STRING)
  BY <1>1
<1> QED  BY <1>1, <1>2 DEF CopyState, CopyChar

(* The characters are taken one by one, from the first.                    *)
Copies(text, copied) ==
  /\ copied \in [0 .. Len(text) -> CopyState]
  /\ copied[0] = CopyStart
  /\ \A n \in 1 .. Len(text) : copied[n] = CopyChar(copied[n - 1], text[n])

LEMMA CopyExists ==
  ASSUME NEW text \in Seq(STRING)
  PROVE  \E copied : Copies(text, copied)
<1> DEFINE Upto(m, f) ==
             /\ f \in [0 .. m -> CopyState]
             /\ f[0] = CopyStart
             /\ \A n \in 1 .. m : f[n] = CopyChar(f[n - 1], text[n])
           S == {m \in Nat : m <= Len(text) => \E f : Upto(m, f)}
<1>1. 0 \in S
  <2>1. CopyStart \in CopyState
    BY DEF CopyStart, CopyState
  <2>2. Upto(0, [n \in 0 .. 0 |-> CopyStart])
    BY <2>1
  <2> QED  BY <2>2
<1>2. ASSUME NEW m \in Nat, m \in S PROVE m + 1 \in S
  <2>1. SUFFICES ASSUME m + 1 <= Len(text) PROVE \E f : Upto(m + 1, f)
    BY <1>2
  <2>2. PICK f : Upto(m, f)
    BY <1>2, <2>1
  <2>3. text[m + 1] \in STRING
    BY <2>1
  <2>4. f[m] \in CopyState
    BY <2>2
  <2> DEFINE next == CopyChar(f[m], text[m + 1])
             g == [n \in 0 .. m + 1 |-> IF n = m + 1 THEN next ELSE f[n]]
  <2>5. next \in CopyState
    BY <2>3, <2>4, CopyCharType
  <2> HIDE DEF next
  <2>6. g \in [0 .. m + 1 -> CopyState] /\ g[0] = CopyStart
    BY <2>2, <2>5
  <2>7. ASSUME NEW n \in 1 .. m + 1 PROVE g[n] = CopyChar(g[n - 1], text[n])
    <3>1. CASE n \in 1 .. m
      <4>1. g[n] = f[n] /\ g[n - 1] = f[n - 1]
        BY <3>1
      <4> QED  BY <2>2, <3>1, <4>1
    <3>2. CASE n = m + 1
      <4>1. g[n] = next /\ g[n - 1] = f[m]
        BY <3>2
      <4> QED  BY <3>2, <4>1 DEF next
    <3> QED  BY <3>1, <3>2
  <2>8. Upto(m + 1, g)
    BY <2>6, <2>7
  <2> QED  BY <2>8
<1>3. Len(text) \in S
  <2>1. \A m \in Nat : m \in S
    <3> HIDE DEF S
    <3> QED  BY <1>1, <1>2, SetInduction
  <2> QED  BY <2>1
<1>4. PICK f : Upto(Len(text), f)
  BY <1>3
<1>5. Copies(text, f)
  BY <1>4 DEF Copies
<1> QED  BY <1>5

(* copy_eliminate_sequences gives what the last of the states has.         *)
LEMMA CopyIsLast ==
  ASSUME NEW text \in Seq(STRING)
  PROVE  \E copied : /\ Copies(text, copied)
                     /\ copy_eliminate_sequences(text) = copied[Len(text)].out
<1> DEFINE Next1(f) == [n \in 0 .. Len(text) |->
                         IF n = 0 THEN CopyStart ELSE CopyChar(f[n - 1], text[n])]
           copied[n \in 0 .. Len(text)] ==
             IF n = 0 THEN [out |-> <<>>, prev |-> Null, seq |-> 0]
                      ELSE CopyChar(copied[n - 1], text[n])
<1>1. copy_eliminate_sequences(text) = copied[Len(text)].out
  BY DEF copy_eliminate_sequences
<1>2. copied = CHOOSE f : f = Next1(f)
  BY DEF CopyStart
<1>3. \E f : f = Next1(f)
  <2>1. PICK f : Copies(text, f)
    BY CopyExists
  <2>2. ASSUME NEW n \in 0 .. Len(text) PROVE f[n] = Next1(f)[n]
    <3>1. n = 0 \/ n \in 1 .. Len(text)
      OBVIOUS
    <3> QED  BY <2>1, <3>1 DEF Copies
  <2>3. f = Next1(f)
    BY <2>1, <2>2 DEF Copies
  <2> QED  BY <2>3
<1> HIDE DEF copied
<1>4. copied = Next1(copied)
  <2> HIDE DEF Next1
  <2> QED  BY <1>2, <1>3, Zenon
<1>5. /\ DOMAIN copied = 0 .. Len(text)
      /\ copied = [n \in 0 .. Len(text) |-> copied[n]]
      /\ copied[0] = CopyStart
      /\ \A n \in 1 .. Len(text) : copied[n] = CopyChar(copied[n - 1], text[n])
  <2>1. DOMAIN Next1(copied) = 0 .. Len(text)
    OBVIOUS
  <2>2. \A n \in 0 .. Len(text) : copied[n] = IF n = 0 THEN CopyStart ELSE CopyChar(copied[n - 1], text[n])
    <3>1. \A n \in 0 .. Len(text) : Next1(copied)[n] = IF n = 0 THEN CopyStart ELSE CopyChar(copied[n - 1], text[n])
      OBVIOUS
    <3> HIDE DEF Next1
    <3> QED  BY <1>4, <3>1
  <2>3. copied = [n \in 0 .. Len(text) |-> copied[n]]
    <3>1. Next1(copied) = [n \in 0 .. Len(text) |-> Next1(copied)[n]]
      OBVIOUS
    <3> HIDE DEF Next1
    <3> QED  BY <1>4, <3>1
  <2>4. DOMAIN copied = 0 .. Len(text)
    BY <2>3
  <2>5. 0 \in 0 .. Len(text) /\ \A n \in 1 .. Len(text) : n \in 0 .. Len(text) /\ n # 0
    OBVIOUS
  <2> QED  BY <2>2, <2>3, <2>4, <2>5
<1>6. \A n \in 0 .. Len(text) : copied[n] \in CopyState
  <2> DEFINE S == {n \in Nat : n <= Len(text) => copied[n] \in CopyState}
  <2>1. 0 \in S
    BY <1>5 DEF CopyStart, CopyState
  <2>2. ASSUME NEW n \in Nat, n \in S PROVE n + 1 \in S
    <3>1. SUFFICES ASSUME n + 1 <= Len(text) PROVE copied[n + 1] \in CopyState
      BY <2>2
    <3>2. n + 1 \in 1 .. Len(text) /\ (n + 1) - 1 = n
      BY <3>1
    <3>3. text[n + 1] \in STRING /\ copied[n] \in CopyState
      BY <2>2, <3>2
    <3>4. copied[n + 1] = CopyChar(copied[n], text[n + 1])
      BY <1>5, <3>2
    <3> QED  BY <3>3, <3>4, CopyCharType
  <2>3. \A n \in Nat : n \in S
    <3> HIDE DEF S
    <3> QED  BY <2>1, <2>2, SetInduction
  <2> QED  BY <2>3
<1>7. copied \in [0 .. Len(text) -> CopyState]
  BY <1>5, <1>6
<1>8. Copies(text, copied)
  BY <1>5, <1>7 DEF Copies
<1> QED  BY <1>1, <1>8
(* The last j + 1 of the first n characters are the same.                  *)
Run(text, n, j) == n > j /\ \A r \in n - j .. n : text[r] = text[n]

Kept(text, n) == {p \in 1 .. n : ~Run(text, p, 3)}

(* A run goes on, or ends, with the next character.                        *)
LEMMA RunNext ==
  ASSUME NEW text \in Seq(STRING), NEW n \in 1 .. Len(text) - 1, NEW j \in 1 .. 3
  PROVE  Run(text, n + 1, j) <=>
           /\ text[n + 1] = text[n]
           /\ j = 1 \/ Run(text, n, j - 1)
<1>1. n \in Nat /\ j \in Nat
  OBVIOUS
<1>2. ASSUME Run(text, n + 1, j)
      PROVE  text[n + 1] = text[n] /\ (j = 1 \/ Run(text, n, j - 1))
  <2>1. n + 1 > j /\ \A r \in (n + 1) - j .. n + 1 : text[r] = text[n + 1]
    BY <1>2 DEF Run
  <2>2. n \in (n + 1) - j .. n + 1
    BY <1>1
  <2>3. \A r \in n - (j - 1) .. n : r \in (n + 1) - j .. n + 1
    BY <1>1
  <2>4. n > j - 1
    BY <1>1, <2>1
  <2> QED  BY <2>1, <2>2, <2>3, <2>4 DEF Run
<1>3. ASSUME text[n + 1] = text[n], j = 1 \/ Run(text, n, j - 1)
      PROVE  Run(text, n + 1, j)
  <2>1. n + 1 > j
    BY <1>1, <1>3 DEF Run
  <2>2. ASSUME NEW r \in (n + 1) - j .. n + 1 PROVE text[r] = text[n + 1]
    <3>1. r = n + 1 \/ r = n \/ (j # 1 /\ r \in n - (j - 1) .. n)
      BY <1>1
    <3> QED  BY <1>3, <3>1 DEF Run
  <2> QED  BY <2>1, <2>2 DEF Run
<1> QED  BY <1>2, <1>3

(* What the state of the copy says of the characters taken so far.         *)
CopyInv(text, n, copy) ==
  /\ n = 0 => copy = CopyStart
  /\ n > 0 => copy.prev = text[n]
  /\ \A j \in 1 .. 3 : copy.seq >= j <=> Run(text, n, j)
  /\ Len(copy.out) = Cardinality(Kept(text, n))
  /\ \A p \in Kept(text, n) : copy.out[Cardinality(Kept(text, p))] = text[p]

LEMMA KeptNumber ==
  ASSUME NEW text, NEW n \in Nat
  PROVE  /\ IsFiniteSet(Kept(text, n))
         /\ Cardinality(Kept(text, n)) \in Nat
         /\ \A p \in Kept(text, n) : Cardinality(Kept(text, p)) \in 1 .. Cardinality(Kept(text, n))
<1>1. ASSUME NEW m \in Nat
      PROVE  IsFiniteSet(Kept(text, m)) /\ Cardinality(Kept(text, m)) \in Nat
  <2>1. IsFiniteSet(1 .. m) /\ Kept(text, m) \in SUBSET (1 .. m)
    BY FS_Interval DEF Kept
  <2> QED  BY <2>1, FS_Subset, FS_CardinalityType
<1>2. ASSUME NEW p \in Kept(text, n)
      PROVE  Cardinality(Kept(text, p)) \in 1 .. Cardinality(Kept(text, n))
  <2>1. p \in Nat /\ p \in Kept(text, p) /\ Kept(text, p) \in SUBSET Kept(text, n)
    BY DEF Kept
  <2>2. Cardinality(Kept(text, p)) <= Cardinality(Kept(text, n))
    BY <1>1, <2>1, FS_Subset
  <2>3. Cardinality(Kept(text, p)) # 0
    BY <1>1, <2>1, FS_EmptySet
  <2> QED  BY <1>1, <2>1, <2>2, <2>3
<1> QED  BY <1>1, <1>2

LEMMA KeptNext ==
  ASSUME NEW text, NEW n \in Nat
  PROVE  /\ Run(text, n + 1, 3) => Kept(text, n + 1) = Kept(text, n)
         /\ ~Run(text, n + 1, 3) =>
              /\ Kept(text, n + 1) = Kept(text, n) \cup {n + 1}
              /\ Cardinality(Kept(text, n + 1)) = Cardinality(Kept(text, n)) + 1
<1>1. 1 .. n + 1 = (1 .. n) \cup {n + 1} /\ n + 1 \notin 1 .. n
  OBVIOUS
<1>2. IsFiniteSet(Kept(text, n)) /\ n + 1 \notin Kept(text, n)
  BY <1>1, KeptNumber DEF Kept
<1>3. ASSUME ~Run(text, n + 1, 3) PROVE Kept(text, n + 1) = Kept(text, n) \cup {n + 1}
  BY <1>1, <1>3 DEF Kept
<1>4. ASSUME Run(text, n + 1, 3) PROVE Kept(text, n + 1) = Kept(text, n)
  BY <1>1, <1>4 DEF Kept
<1> QED  BY <1>2, <1>3, <1>4, FS_AddElement

LEMMA CopyInvStep ==
  ASSUME NEW text \in Seq(STRING), NEW n \in 0 .. Len(text) - 1,
         NEW copy \in CopyState, CopyInv(text, n, copy)
  PROVE  CopyInv(text, n + 1, CopyChar(copy, text[n + 1]))
<1> DEFINE curr == text[n + 1]
           next == CopyChar(copy, curr)
<1>1. /\ n \in Nat /\ n + 1 \in 1 .. Len(text)
      /\ curr \in STRING
      /\ copy.out \in Seq(STRING) /\ copy.seq \in 0 .. 3
      /\ Len(copy.out) \in Nat
  BY DEF CopyState
<1>2. \A j \in 1 .. 3 : copy.seq >= j <=> Run(text, n, j)
  BY DEF CopyInv
<1>3. curr = copy.prev => n > 0 /\ curr = text[n]
  <2>1. n = 0 => copy.prev = Null
    BY DEF CopyInv, CopyStart
  <2>2. Null \notin STRING
    BY CompareAssumption
  <2>3. n > 0 => copy.prev = text[n]
    BY DEF CopyInv
  <2> QED  BY <1>1, <2>1, <2>2, <2>3
<1>4. curr # copy.prev => \A j \in 1 .. 3 : ~Run(text, n + 1, j)
  <2>1. CASE n = 0
    BY <2>1 DEF Run
  <2>2. CASE n > 0
    <3>1. copy.prev = text[n]
      BY <2>2 DEF CopyInv
    <3>2. n \in 1 .. Len(text) - 1
      BY <1>1, <2>2
    <3> QED  BY <3>1, <3>2, RunNext
  <2> QED  BY <1>1, <2>1, <2>2
<1>5. curr = copy.prev =>
        \A j \in 1 .. 3 : Run(text, n + 1, j) <=> (j = 1 \/ Run(text, n, j - 1))
  <2>1. SUFFICES ASSUME curr = copy.prev
                 PROVE  \A j \in 1 .. 3 : Run(text, n + 1, j) <=> (j = 1 \/ Run(text, n, j - 1))
    OBVIOUS
  <2>2. n \in 1 .. Len(text) - 1 /\ curr = text[n]
    BY <1>1, <1>3, <2>1
  <2> QED  BY <2>2, RunNext
<1>6. /\ next.prev = curr
      /\ \A j \in 1 .. 3 : next.seq >= j <=> Run(text, n + 1, j)
      /\ Run(text, n + 1, 3) => next.out = copy.out
      /\ ~Run(text, n + 1, 3) => next.out = Append(copy.out, curr)
  <2>1. CASE curr # copy.prev
    <3>1. next = [out |-> Append(copy.out, curr), prev |-> curr, seq |-> 0]
      BY <2>1 DEF CopyChar
    <3> QED  BY <1>4, <2>1, <3>1
  <2>2. CASE curr = copy.prev
    <3>1. /\ Run(text, n + 1, 1)
          /\ Run(text, n + 1, 2) <=> copy.seq >= 1
          /\ Run(text, n + 1, 3) <=> copy.seq >= 2
      <4>1. 2 - 1 = 1 /\ 3 - 1 = 2 /\ 1 \in 1 .. 3 /\ 2 \in 1 .. 3 /\ 3 \in 1 .. 3
        OBVIOUS
      <4> QED  BY <1>2, <1>5, <2>2, <4>1
    <3>2. CASE copy.seq + 1 >= 3
      <4>1. next = [out |-> copy.out, prev |-> curr, seq |-> 3]
        BY <2>2, <3>2 DEF CopyChar
      <4> QED  BY <1>1, <3>1, <3>2, <4>1
    <3>3. CASE ~(copy.seq + 1 >= 3)
      <4>1. next = [out |-> Append(copy.out, curr), prev |-> curr, seq |-> copy.seq + 1]
        BY <2>2, <3>3 DEF CopyChar
      <4> QED  BY <1>1, <3>1, <3>3, <4>1
    <3> QED  BY <3>2, <3>3
  <2> QED  BY <2>1, <2>2
<1>7. /\ Len(copy.out) = Cardinality(Kept(text, n))
      /\ \A p \in Kept(text, n) : copy.out[Cardinality(Kept(text, p))] = text[p]
  BY DEF CopyInv
<1> HIDE DEF next
<1>8. /\ Len(next.out) = Cardinality(Kept(text, n + 1))
      /\ \A p \in Kept(text, n + 1) : next.out[Cardinality(Kept(text, p))] = text[p]
  <2>1. CASE Run(text, n + 1, 3)
    BY <1>1, <1>6, <1>7, <2>1, KeptNext
  <2>2. CASE ~Run(text, n + 1, 3)
    <3>1. /\ Kept(text, n + 1) = Kept(text, n) \cup {n + 1}
          /\ Cardinality(Kept(text, n + 1)) = Len(copy.out) + 1
      BY <1>1, <1>7, <2>2, KeptNext
    <3>2. /\ Len(next.out) = Len(copy.out) + 1
          /\ next.out[Len(copy.out) + 1] = text[n + 1]
          /\ \A k \in 1 .. Len(copy.out) : next.out[k] = copy.out[k]
      BY <1>1, <1>6, <2>2
    <3>3. ASSUME NEW p \in Kept(text, n)
          PROVE  next.out[Cardinality(Kept(text, p))] = text[p]
      <4>1. Cardinality(Kept(text, p)) \in 1 .. Len(copy.out)
        BY <1>1, <1>7, KeptNumber
      <4> QED  BY <1>7, <3>2, <4>1
    <3> QED  BY <3>1, <3>2, <3>3
  <2> QED  BY <2>1, <2>2
<1>9. n + 1 > 0 /\ n + 1 # 0
  BY <1>1
<1>10. CopyInv(text, n + 1, next)
  BY <1>6, <1>8, <1>9 DEF CopyInv
<1> QED  BY <1>10 DEF next

(* The copy of a text is the text without the characters that follow three *)
(* of their kind.                                                          *)
LEMMA CopyIsShort ==
  ASSUME NEW text \in Seq(STRING)
  PROVE  copy_eliminate_sequences(text) = Short(text)
<1>1. PICK copied : /\ Copies(text, copied)
                    /\ copy_eliminate_sequences(text) = copied[Len(text)].out
  BY CopyIsLast
<1> DEFINE out == copied[Len(text)].out
           kept == Kept(text, Len(text))
           rank(p) == Cardinality(Kept(text, p))
<1>2. CopyInv(text, Len(text), copied[Len(text)])
  <2> DEFINE S == {n \in Nat : n <= Len(text) => CopyInv(text, n, copied[n])}
  <2>1. 0 \in S
    <3>1. copied[0] = CopyStart
      BY <1>1 DEF Copies
    <3>2. Kept(text, 0) = {} /\ \A j \in 1 .. 3 : ~Run(text, 0, j)
      BY DEF Kept, Run
    <3>3. Cardinality(Kept(text, 0)) = 0
      BY <3>2, FS_EmptySet
    <3> QED  BY <3>1, <3>2, <3>3 DEF CopyInv, CopyStart
  <2>2. ASSUME NEW n \in Nat, n \in S PROVE n + 1 \in S
    <3>1. SUFFICES ASSUME n + 1 <= Len(text) PROVE CopyInv(text, n + 1, copied[n + 1])
      BY <2>2
    <3>2. n \in 0 .. Len(text) - 1 /\ n + 1 \in 1 .. Len(text) /\ (n + 1) - 1 = n
      BY <3>1
    <3>3. copied[n + 1] = CopyChar(copied[n], text[n + 1]) /\ copied[n] \in CopyState
      BY <1>1, <3>2 DEF Copies
    <3> QED  BY <2>2, <3>1, <3>2, <3>3, CopyInvStep
  <2>3. \A n \in Nat : n \in S
    <3> HIDE DEF S
    <3> QED  BY <2>1, <2>2, SetInduction
  <2> QED  BY <2>3
<1>3. /\ out \in Seq(STRING)
      /\ Len(out) = Cardinality(kept)
      /\ \A p \in kept : out[rank(p)] = text[p]
  <2>1. copied[Len(text)] \in CopyState
    BY <1>1 DEF Copies
  <2> QED  BY <1>2, <2>1 DEF CopyInv, CopyState
<1>4. kept = {p \in 1 .. Len(text) : ~(p > 3 /\ \A r \in p - 3 .. p : text[r] = text[p])}
  BY DEF Kept, Run
<1>5. \A p \in kept : {q \in kept : q <= p} = Kept(text, p)
  BY DEF Kept
<1>6. IsFiniteSet(kept) /\ Cardinality(kept) \in Nat
      /\ \A p \in kept : rank(p) \in 1 .. Cardinality(kept)
  BY KeptNumber
<1>7. ASSUME NEW k \in 1 .. Cardinality(kept)
      PROVE  \E p \in kept : rank(p) = k
  <2> DEFINE f == [p \in kept |-> rank(p)]
  <2>1. f \in Injection(kept, 1 .. Cardinality(kept))
    <3>1. f \in [kept -> 1 .. Cardinality(kept)]
      BY <1>6
    <3>2. ASSUME NEW p \in kept, NEW q \in kept, p < q PROVE rank(p) # rank(q)
      <4>1. /\ q \in Nat /\ q \in Kept(text, q) /\ q \notin Kept(text, p)
            /\ Kept(text, p) \in SUBSET Kept(text, q)
        BY <3>2 DEF Kept
      <4> QED  BY <4>1, KeptNumber, FS_Subset
    <3>3. ASSUME NEW p \in kept, NEW q \in kept, f[p] = f[q] PROVE p = q
      <4>1. p \in Nat /\ q \in Nat
        BY DEF Kept
      <4>2. rank(p) = rank(q)
        BY <3>3
      <4> HIDE DEF rank, kept
      <4> QED  BY <3>2, <4>1, <4>2
    <3> HIDE DEF f, kept
    <3> QED  BY <3>1, <3>3 DEF Injection, IsInjective
  <2>2. IsFiniteSet(1 .. Cardinality(kept)) /\ Cardinality(1 .. Cardinality(kept)) = Cardinality(kept)
    <3>1. PICK m \in Nat : m = Cardinality(kept)
      BY <1>6
    <3>2. IsFiniteSet(1 .. m) /\ Cardinality(1 .. m) = IF 1 > m THEN 0 ELSE m - 1 + 1
      BY FS_Interval
    <3> QED  BY <3>1, <3>2
  <2>3. f \in Surjection(kept, 1 .. Cardinality(kept))
    <3> HIDE DEF f, kept
    <3> QED  BY <2>1, <2>2, FS_Injection
  <2>4. PICK p \in kept : f[p] = k
    <3> HIDE DEF f, kept
    <3> QED  BY <2>3 DEF Surjection
  <2> QED  BY <2>4
<1>8. ASSUME NEW k \in 1 .. Cardinality(kept)
      PROVE  out[k] = text[CHOOSE p \in kept : Cardinality({q \in kept : q <= p}) = k]
  <2> DEFINE P(p) == p \in kept /\ Cardinality({q \in kept : q <= p}) = k
  <2>1. \E p : P(p)
    BY <1>5, <1>7
  <2>2. P(CHOOSE p : P(p))
    <3> HIDE DEF P
    <3> QED  BY <2>1, Zenon
  <2>3. (CHOOSE p : P(p)) = CHOOSE p \in kept : Cardinality({q \in kept : q <= p}) = k
    OBVIOUS
  <2>4. PICK p : p = (CHOOSE x : P(x))
    OBVIOUS
  <2>5. p \in kept /\ Cardinality({q \in kept : q <= p}) = k
    BY <2>2, <2>4
  <2>6. out[k] = text[p]
    BY <1>3, <1>5, <2>5
  <2> QED  BY <2>3, <2>4, <2>6
<1>9. out = [k \in 1 .. Cardinality(kept) |->
               text[CHOOSE p \in kept : Cardinality({q \in kept : q <= p}) = k]]
  <2>1. out = [k \in 1 .. Cardinality(kept) |-> out[k]]
    BY <1>3
  <2> HIDE DEF kept, out
  <2> QED  BY <1>8, <2>1
<1>10. Short(text) = [k \in 1 .. Cardinality(kept) |->
               text[CHOOSE p \in kept : Cardinality({q \in kept : q <= p}) = k]]
  BY <1>4 DEF Short
<1> QED  BY <1>1, <1>9, <1>10
-----------------------------------------------------------------------------
(***************************************************************************)
(* The edit distance.                                                      *)
(***************************************************************************)

Characters(a) == a \in Seq(STRING) /\ Len(a) \in Nat

(* After i characters of a there is one more.                              *)
Before(i, a) == i < Len(a)

(* The alignments of the first i characters of a and the first k of b.     *)
Aligned(a, b, i, k) ==
  {kept \in Alignments(a, b) : \A p \in kept : p[1] <= i /\ p[2] <= k}

(* c is what the cheapest way from the first i characters of a to the      *)
(* first k of b costs.                                                     *)
LeastCost(a, b, i, k, c) ==
  /\ c \in Nat
  /\ \E kept \in Aligned(a, b, i, k) : c = i + k - 2 * Cardinality(kept)
  /\ \A kept \in Aligned(a, b, i, k) : c <= i + k - 2 * Cardinality(kept)

LEMMA AlignedPairs ==
  ASSUME NEW a, NEW b, Characters(a), Characters(b), NEW i, NEW k,
         NEW kept \in Aligned(a, b, i, k)
  PROVE  /\ \A p \in kept :
              /\ p = <<p[1], p[2]>>
              /\ p[1] \in 1 .. Len(a) /\ p[2] \in 1 .. Len(b)
              /\ a[p[1]] = b[p[2]]
              /\ p[1] <= i /\ p[2] <= k
         /\ \A p, q \in kept : p[1] < q[1] <=> p[2] < q[2]
         /\ IsFiniteSet(kept) /\ Cardinality(kept) \in Nat
<1>1. kept \in SUBSET ((1 .. Len(a)) \X (1 .. Len(b)))
  BY DEF Aligned, Alignments
<1>2. IsFiniteSet((1 .. Len(a)) \X (1 .. Len(b)))
  <2>1. PICK m \in Nat, n \in Nat : m = Len(a) /\ n = Len(b)
    BY DEF Characters
  <2>2. IsFiniteSet(1 .. m) /\ IsFiniteSet(1 .. n)
    BY FS_Interval
  <2> QED  BY <2>1, <2>2, FS_Product
<1>3. IsFiniteSet(kept) /\ Cardinality(kept) \in Nat
  BY <1>1, <1>2, FS_Subset, FS_CardinalityType
<1>4. /\ \A p \in kept : a[p[1]] = b[p[2]] /\ p[1] <= i /\ p[2] <= k
      /\ \A p, q \in kept : p[1] < q[1] <=> p[2] < q[2]
  BY DEF Aligned, Alignments
<1> QED  BY <1>1, <1>3, <1>4

(* What a set of pairs needs to be an alignment.                           *)
LEMMA IsAligned ==
  ASSUME NEW a, NEW b, Characters(a), Characters(b), NEW i, NEW k, NEW kept,
         \A p \in kept :
           /\ p \in (1 .. Len(a)) \X (1 .. Len(b))
           /\ a[p[1]] = b[p[2]]
           /\ p[1] <= i /\ p[2] <= k,
         \A p, q \in kept : p[1] < q[1] <=> p[2] < q[2]
  PROVE  kept \in Aligned(a, b, i, k)
<1>1. kept \in SUBSET {p \in (1 .. Len(a)) \X (1 .. Len(b)) : a[p[1]] = b[p[2]]}
  OBVIOUS
<1> QED  BY <1>1 DEF Aligned, Alignments

(* An alignment of less is one of more.                                    *)
LEMMA AlignedMore ==
  ASSUME NEW a, NEW b, Characters(a), Characters(b),
         NEW i \in Nat, NEW k \in Nat, NEW j \in Nat, NEW l \in Nat,
         i <= j, k <= l, NEW kept \in Aligned(a, b, i, k)
  PROVE  kept \in Aligned(a, b, j, l)
<1>1. \A p \in kept : p[1] \in Nat /\ p[2] \in Nat /\ p[1] <= i /\ p[2] <= k
  BY AlignedPairs
<1> QED  BY <1>1 DEF Aligned

(* In the row and the column of no characters nothing is kept.             *)
LEMMA FirstRow ==
  ASSUME NEW a, NEW b, Characters(a), Characters(b),
         NEW i \in Nat, NEW k \in Nat, i = 0 \/ k = 0
  PROVE  LeastCost(a, b, i, k, i + k)
<1>1. {} \in Aligned(a, b, i, k)
  BY IsAligned
<1>2. ASSUME NEW kept \in Aligned(a, b, i, k) PROVE kept = {}
  BY AlignedPairs
<1>3. Cardinality({}) = 0
  BY FS_EmptySet
<1>4. /\ i + k \in Nat
      /\ \A kept \in Aligned(a, b, i, k) : i + k = i + k - 2 * Cardinality(kept)
  <2>1. i + k \in Nat /\ i + k = i + k - 2 * 0
    OBVIOUS
  <2> QED  BY <1>2, <1>3, <2>1
<1> QED  BY <1>1, <1>4 DEF LeastCost

(* The last characters are inserted, removed, kept or replaced.            *)
LEMMA LastKept ==
  ASSUME NEW a, NEW b, Characters(a), Characters(b),
         NEW i \in Nat, NEW k \in Nat, Before(i, a), Before(k, b),
         NEW kept \in Aligned(a, b, i + 1, k + 1)
  PROVE  \/ kept \in Aligned(a, b, i, k + 1)
         \/ kept \in Aligned(a, b, i + 1, k)
         \/ /\ a[i + 1] = b[k + 1]
            /\ kept \ {<<i + 1, k + 1>>} \in Aligned(a, b, i, k)
            /\ Cardinality(kept) = Cardinality(kept \ {<<i + 1, k + 1>>}) + 1
<1>1. /\ \A p \in kept :
           /\ p = <<p[1], p[2]>>
           /\ p[1] \in 1 .. Len(a) /\ p[2] \in 1 .. Len(b)
           /\ a[p[1]] = b[p[2]]
           /\ p[1] <= i + 1 /\ p[2] <= k + 1
      /\ \A p, q \in kept : p[1] < q[1] <=> p[2] < q[2]
      /\ IsFiniteSet(kept) /\ Cardinality(kept) \in Nat
  BY AlignedPairs
<1>2. CASE \A p \in kept : p[1] # i + 1
  <2>1. \A p \in kept : p[1] <= i
    BY <1>1, <1>2
  <2> QED  BY <2>1 DEF Aligned
<1>3. CASE \A p \in kept : p[2] # k + 1
  <2>1. \A p \in kept : p[2] <= k
    BY <1>1, <1>3
  <2> QED  BY <2>1 DEF Aligned
<1>4. CASE \E p, q \in kept : p[1] = i + 1 /\ q[2] = k + 1
  <2>1. PICK p \in kept, q \in kept : p[1] = i + 1 /\ q[2] = k + 1
    BY <1>4
  <2> DEFINE last == <<i + 1, k + 1>>
  <2>2. p[2] = k + 1
    BY <1>1, <2>1
  <2>3. p = last
    BY <1>1, <2>1, <2>2
  <2>4. a[i + 1] = b[k + 1]
    BY <1>1, <2>1, <2>2
  <2>5. ASSUME NEW r \in kept \ {last} PROVE r[1] <= i /\ r[2] <= k
    <3>1. r[1] # i + 1 \/ r[2] # k + 1
      BY <1>1
    <3>2. r[1] < p[1] <=> r[2] < p[2]
      BY <1>1
    <3> QED  BY <1>1, <2>1, <2>2, <3>1, <3>2
  <2> HIDE DEF last
  <2>6. kept \ {last} \in Aligned(a, b, i, k)
    <3>1. \A r \in kept : r \in (1 .. Len(a)) \X (1 .. Len(b))
      BY <1>1
    <3> QED  BY <1>1, <2>5, <3>1, IsAligned
  <2>7. Cardinality(kept) = Cardinality(kept \ {last}) + 1
    <3>1. Cardinality(kept \ {last}) = Cardinality(kept) - 1
      BY <1>1, <2>3, FS_RemoveElement
    <3> QED  BY <1>1, <3>1
  <2> QED  BY <2>4, <2>6, <2>7 DEF last
<1> QED  BY <1>2, <1>3, <1>4

(* A way from less is the beginning of a way from more.                    *)
LEMMA WayFromLess ==
  ASSUME NEW a, NEW b, Characters(a), Characters(b),
         NEW i \in Nat, NEW k \in Nat, NEW j \in Nat, NEW l \in Nat,
         i <= j, k <= l, NEW c, LeastCost(a, b, i, k, c)
  PROVE  \E kept \in Aligned(a, b, j, l), n \in Nat :
           n = Cardinality(kept) /\ c = i + k - 2 * n
<1>1. PICK kept \in Aligned(a, b, i, k) : c = i + k - 2 * Cardinality(kept)
  BY DEF LeastCost
<1>2. kept \in Aligned(a, b, j, l)
  BY AlignedMore
<1>3. PICK n \in Nat : n = Cardinality(kept)
  BY AlignedPairs
<1> QED  BY <1>1, <1>2, <1>3

(* A place of the row comes from the three places before it.               *)
LEMMA CostStep ==
  ASSUME NEW a, NEW b, Characters(a), Characters(b),
         NEW i \in Nat, NEW k \in Nat, Before(i, a), Before(k, b),
         NEW x, LeastCost(a, b, i, k + 1, x),
         NEW y, LeastCost(a, b, i + 1, k, y),
         NEW z, LeastCost(a, b, i, k, z)
  PROVE  LeastCost(a, b, i + 1, k + 1,
           Least(Least(x + INSERT_COST, y + REMOVE_COST),
                 z + IF a[i + 1] = b[k + 1] THEN 0 ELSE REPLACE_COST))
<1> DEFINE w == z + IF a[i + 1] = b[k + 1] THEN 0 ELSE 2
           c == Least(Least(x + 1, y + 1), w)
<1>1. x \in Nat /\ y \in Nat /\ z \in Nat /\ w \in Nat /\ i \in Nat /\ k \in Nat
  BY DEF LeastCost
<1>2. c \in Nat /\ c <= x + 1 /\ c <= y + 1 /\ c <= w
      /\ (c = x + 1 \/ c = y + 1 \/ c = w)
  <2> HIDE DEF w
  <2> QED  BY <1>1 DEF Least
<1> PICK j \in Nat, l \in Nat : j = i + 1 /\ l = k + 1
  BY <1>1
<1>0. LeastCost(a, b, i, l, x) /\ LeastCost(a, b, j, k, y)
  OBVIOUS
<1>3. \E kept \in Aligned(a, b, j, l) : x + 1 = j + l - 2 * Cardinality(kept)
  <2>1. PICK kept \in Aligned(a, b, j, l), n \in Nat :
          n = Cardinality(kept) /\ x = i + l - 2 * n
    <3>1. i <= j /\ l <= l
      BY <1>1
    <3> HIDE DEF w, c
    <3> QED  BY SMTT(30), <1>0, <3>1, WayFromLess
  <2>2. x + 1 = j + l - 2 * n
    BY <1>1, <2>1
  <2> QED  BY <2>1, <2>2
<1>4. \E kept \in Aligned(a, b, j, l) : y + 1 = j + l - 2 * Cardinality(kept)
  <2>1. PICK kept \in Aligned(a, b, j, l), n \in Nat :
          n = Cardinality(kept) /\ y = j + k - 2 * n
    <3>1. j <= j /\ k <= l
      BY <1>1
    <3> HIDE DEF w, c
    <3> QED  BY SMTT(30), <1>0, <3>1, WayFromLess
  <2>2. y + 1 = j + l - 2 * n
    BY <1>1, <2>1
  <2> QED  BY <2>1, <2>2
<1>5. \E kept \in Aligned(a, b, j, l) : w = j + l - 2 * Cardinality(kept)
  <2>1. CASE a[i + 1] # b[k + 1]
    <3>1. PICK kept \in Aligned(a, b, j, l), n \in Nat :
            n = Cardinality(kept) /\ z = i + k - 2 * n
      <4>1. PICK kept \in Aligned(a, b, i, k) : z = i + k - 2 * Cardinality(kept)
        BY DEF LeastCost
      <4>2. i <= j /\ k <= l
        BY <1>1
      <4>3. kept \in Aligned(a, b, j, l)
        BY <4>2, AlignedMore
      <4>4. PICK n \in Nat : n = Cardinality(kept)
        BY AlignedPairs
      <4> QED  BY <4>1, <4>3, <4>4
    <3>2. w = j + l - 2 * n
      BY <1>1, <3>1, <2>1
    <3> QED  BY <3>1, <3>2
  <2>2. CASE a[i + 1] = b[k + 1]
    <3>1. PICK kept \in Aligned(a, b, i, k) : z = i + k - 2 * Cardinality(kept)
      BY DEF LeastCost
    <3>2. PICK n \in Nat : n = Cardinality(kept)
      BY AlignedPairs
    <3> DEFINE last == <<j, l>>
               more == kept \cup {last}
    <3>3. \A p \in kept :
            /\ p \in (1 .. Len(a)) \X (1 .. Len(b))
            /\ a[p[1]] = b[p[2]]
            /\ p[1] <= i /\ p[2] <= k /\ p[1] \in Nat /\ p[2] \in Nat
      BY AlignedPairs
    <3>4. IsFiniteSet(kept) /\ \A p, q \in kept : p[1] < q[1] <=> p[2] < q[2]
      BY AlignedPairs
    <3>5. /\ last \in (1 .. Len(a)) \X (1 .. Len(b))
          /\ last[1] = j /\ last[2] = l
          /\ last \notin kept
      <4>1. j \in 1 .. Len(a) /\ l \in 1 .. Len(b)
        BY <1>1 DEF Characters, Before
      <4> QED  BY <1>1, <3>3, <4>1
    <3> HIDE DEF last
    <3>6. more \in Aligned(a, b, j, l)
      <4>1. \A p \in more :
              /\ p \in (1 .. Len(a)) \X (1 .. Len(b))
              /\ a[p[1]] = b[p[2]]
              /\ p[1] <= j /\ p[2] <= l
        BY <1>1, <2>2, <3>3, <3>5
      <4>2. ASSUME NEW p \in more, NEW q \in more PROVE p[1] < q[1] <=> p[2] < q[2]
        <5>1. \A r \in kept : r[1] < j /\ r[2] < l /\ ~(j < r[1]) /\ ~(l < r[2])
          BY SMTT(30), <1>1, <3>3
        <5>2. ~(j < j) /\ ~(l < l)
          OBVIOUS
        <5> QED  BY <3>4, <3>5, <5>1, <5>2
      <4> HIDE DEF more
      <4> QED  BY <4>1, <4>2, IsAligned
    <3>7. Cardinality(more) = n + 1
      BY <3>2, <3>4, <3>5, FS_AddElement
    <3>8. w = j + l - 2 * (n + 1)
      <4>1. z = i + k - 2 * n
        BY <3>1, <3>2
      <4>2. w = z
        BY <1>1, <2>2
      <4> HIDE DEF w
      <4> QED  BY <1>1, <4>1, <4>2
    <3> QED  BY <3>6, <3>7, <3>8
  <2> QED  BY <2>1, <2>2
<1>6. ASSUME NEW kept \in Aligned(a, b, j, l)
      PROVE  c <= j + l - 2 * Cardinality(kept)
  <2>1. PICK n \in Nat : n = Cardinality(kept)
    BY AlignedPairs
  <2> HIDE DEF c
  <2>2. CASE kept \in Aligned(a, b, i, l)
    <3>1. x <= i + l - 2 * n
      BY <2>1, <2>2 DEF LeastCost
    <3>2. c <= j + l - 2 * n
      BY <1>1, <1>2, <3>1
    <3> QED  BY <2>1, <3>2
  <2>3. CASE kept \in Aligned(a, b, j, k)
    <3>1. y <= j + k - 2 * n
      BY <2>1, <2>3 DEF LeastCost
    <3>2. c <= j + l - 2 * n
      BY <1>1, <1>2, <3>1
    <3> QED  BY <2>1, <3>2
  <2>4. CASE /\ a[i + 1] = b[k + 1]
             /\ kept \ {<<i + 1, k + 1>>} \in Aligned(a, b, i, k)
             /\ Cardinality(kept) = Cardinality(kept \ {<<i + 1, k + 1>>}) + 1
    <3>1. PICK less \in Aligned(a, b, i, k) : Cardinality(kept) = Cardinality(less) + 1
      BY <2>4
    <3>2. PICK m \in Nat : m = Cardinality(less)
      BY AlignedPairs
    <3>3. z <= i + k - 2 * m
      BY <3>2 DEF LeastCost
    <3>4. w = z /\ n = m + 1
      BY <1>1, <2>1, <2>4, <3>1, <3>2
    <3> HIDE DEF w
    <3>5. c <= j + l - 2 * n
      BY <1>1, <1>2, <3>3, <3>4
    <3> QED  BY <2>1, <3>5
  <2> QED  BY <2>2, <2>3, <2>4, LastKept
<1>7. LeastCost(a, b, j, l, c)
  <2> HIDE DEF c, w
  <2> QED  BY <1>2, <1>3, <1>4, <1>5, <1>6 DEF LeastCost
<1> QED  BY <1>7 DEF INSERT_COST, REMOVE_COST, REPLACE_COST

(* The cost of all the characters is the distance.                         *)
LEMMA LeastIsDistance ==
  ASSUME NEW a, NEW b, Characters(a), Characters(b), NEW c,
         LeastCost(a, b, Len(a), Len(b), c)
  PROVE  /\ c = Distance(a, b)
         /\ c \in 0 .. Len(a) + Len(b)
<1> DEFINE Way(kept) == (Len(a) - Cardinality(kept)) * INSERT_COST +
                          (Len(b) - Cardinality(kept)) * REMOVE_COST
           Ways == {Way(kept) : kept \in Alignments(a, b)}
<1>1. Aligned(a, b, Len(a), Len(b)) = Alignments(a, b)
  BY DEF Aligned, Alignments
<1>2. ASSUME NEW kept \in Alignments(a, b)
      PROVE  Way(kept) = Len(a) + Len(b) - 2 * Cardinality(kept) /\ Way(kept) \in Int
  <2>1. Cardinality(kept) \in Nat
    BY <1>1, AlignedPairs
  <2> QED  BY <2>1 DEF INSERT_COST, REMOVE_COST
<1>3. c \in Ways /\ \A x \in Ways : c <= x
  BY <1>1, <1>2 DEF LeastCost
<1>4. Ways \subseteq Int
  BY <1>2
<1>5. Distance(a, b) = CHOOSE x \in Ways : \A y \in Ways : x =< y
  BY DEF Distance, Min
<1>6. ASSUME NEW x \in Ways, \A y \in Ways : x <= y PROVE x = c
  <2>1. x <= c /\ c <= x /\ x \in Int /\ c \in Int
    BY <1>3, <1>4, <1>6
  <2> QED  BY <2>1
<1>7. c = Distance(a, b)
  <2> HIDE DEF Ways
  <2> QED  BY <1>3, <1>5, <1>6
<1>8. {} \in Alignments(a, b) /\ Cardinality({}) = 0
  BY FS_EmptySet DEF Alignments
<1>9. c <= Len(a) + Len(b)
  <2>1. c <= Way({}) /\ Way({}) = Len(a) + Len(b) - 2 * 0
    BY <1>2, <1>3, <1>8
  <2> QED  BY <2>1
<1> QED  BY <1>7, <1>9 DEF LeastCost

(* The rows hold what the ways to them cost, as far as they are filled.    *)
Filled(row, i, upto) ==
  \A k \in 0 .. upto : k \in DOMAIN row /\ LeastCost(s1, s2, i, k, row[k])

EditInv ==
  /\ step \in {"idle", "row", "cell"}
  /\ Characters(s1) /\ Characters(s2)
  /\ step # "idle" => i1 \in 0 .. Len(s1) /\ Filled(t1, i1, Len(s2))
  /\ step = "cell" => /\ i1 # Len(s1)
                      /\ i2 \in 0 .. Len(s2)
                      /\ Filled(t2, i1 + 1, i2)

LEMMA CallInv ==
  ASSUME EditInv, NEW a, NEW b, Characters(a), Characters(b), edit_distn(a, b)
  PROVE  EditInv' /\ step' # "idle" /\ s1' = a /\ s2' = b
<1>1. /\ s1' = a /\ s2' = b /\ i1' = 0 /\ step' = "row"
      /\ t1' = [k \in 0 .. Len(b) |-> k * REMOVE_COST]
  BY DEF edit_distn
<1>2. PICK n \in Nat, m \in Nat : n = Len(a) /\ m = Len(b)
  BY DEF Characters
<1>3. ASSUME NEW k \in 0 .. m
      PROVE  k \in DOMAIN t1' /\ LeastCost(a, b, 0, k, t1'[k])
  <2>1. k \in DOMAIN t1' /\ t1'[k] = k * REMOVE_COST
    BY <1>1, <1>2
  <2>2. t1'[k] = 0 + k
    BY <2>1 DEF REMOVE_COST
  <2>3. LeastCost(a, b, 0, k, 0 + k)
    BY FirstRow
  <2> QED  BY <2>1, <2>2, <2>3
<1>4. (Filled(t1, i1, Len(s2)))'
  BY <1>1, <1>2, <1>3 DEF Filled
<1>5. 0 \in 0 .. n
  OBVIOUS
<1> QED  BY <1>1, <1>2, <1>4, <1>5 DEF EditInv

LEMMA EditStepInv ==
  ASSUME EditInv, EditStep
  PROVE  EditInv' /\ step' # "idle" /\ UNCHANGED <<s1, s2>>
<1>1. PICK n \in Nat, m \in Nat : n = Len(s1) /\ m = Len(s2)
  BY DEF EditInv, Characters
<1>2. Characters(s1) /\ Characters(s2)
  BY DEF EditInv
<1>3. CASE RowStart
  <2>1. /\ step = "row" /\ i1 \in 0 .. n /\ i1 < n /\ Filled(t1, i1, m)
        /\ step' = "cell" /\ i2' = 0 /\ UNCHANGED <<s1, s2, t1, i1>>
        /\ t2' = [k \in DOMAIN t2 \cup {0} |->
                    IF k = 0 THEN (i1 + 1) * INSERT_COST ELSE t2[k]]
    BY <1>1, <1>3 DEF RowStart, EditInv
  <2>2. 0 \in DOMAIN t2' /\ t2'[0] = (i1 + 1) + 0
    BY <2>1 DEF INSERT_COST
  <2>3. LeastCost(s1, s2, i1 + 1, 0, (i1 + 1) + 0)
    BY <1>2, <2>1, FirstRow
  <2>4. (Filled(t2, i1 + 1, i2))'
    BY <2>1, <2>2, <2>3 DEF Filled
  <2>5. (Filled(t1, i1, Len(s2)))'
    BY <1>1, <2>1 DEF Filled
  <2>6. i1 # n /\ 0 \in 0 .. m
    BY <2>1
  <2> QED  BY <1>1, <1>2, <2>1, <2>4, <2>5, <2>6 DEF EditInv
<1>4. CASE Cell
  <2>1. /\ step = "cell" /\ i1 \in 0 .. n /\ i1 # n /\ Filled(t1, i1, m)
        /\ i2 \in 0 .. m /\ i2 < m /\ Filled(t2, i1 + 1, i2)
        /\ step' = "cell" /\ i2' = i2 + 1 /\ UNCHANGED <<s1, s2, t1, i1>>
        /\ t2' = [k \in DOMAIN t2 \cup {i2 + 1} |-> IF k = i2 + 1 THEN Cost ELSE t2[k]]
    BY <1>1, <1>4 DEF Cell, EditInv
  <2>2. /\ i1 \in Nat /\ i2 \in Nat /\ i1 < n /\ i2 + 1 \in 0 .. m
        /\ i2 \in 0 .. m /\ i2 \in 0 .. i2
    BY <2>1
  <2>3. /\ LeastCost(s1, s2, i1, i2 + 1, t1[i2 + 1])
        /\ LeastCost(s1, s2, i1, i2, t1[i2])
        /\ LeastCost(s1, s2, i1 + 1, i2, t2[i2])
    BY <2>1, <2>2 DEF Filled
  <2>4. Before(i1, s1) /\ Before(i2, s2)
    BY <1>1, <2>1, <2>2 DEF Before
  <2>5. LeastCost(s1, s2, i1 + 1, i2 + 1, Cost)
    BY <1>2, <2>2, <2>3, <2>4, CostStep DEF Cost
  <2>6. ASSUME NEW k \in 0 .. i2 + 1
        PROVE  k \in DOMAIN t2' /\ LeastCost(s1, s2, i1 + 1, k, t2'[k])
    <3>1. k = i2 + 1 \/ (k \in 0 .. i2 /\ k # i2 + 1)
      BY <2>2
    <3>2. CASE k = i2 + 1
      BY <2>1, <2>5, <3>2
    <3>3. CASE k \in 0 .. i2 /\ k # i2 + 1
      <4>1. k \in DOMAIN t2 /\ LeastCost(s1, s2, i1 + 1, k, t2[k])
        BY <2>1, <3>3 DEF Filled
      <4> QED  BY <2>1, <3>3, <4>1
    <3> QED  BY <3>1, <3>2, <3>3
  <2>7. (Filled(t2, i1 + 1, i2))'
    BY <2>1, <2>6 DEF Filled
  <2>8. (Filled(t1, i1, Len(s2)))'
    BY <1>1, <2>1 DEF Filled
  <2> QED  BY <1>1, <1>2, <2>1, <2>2, <2>7, <2>8 DEF EditInv
<1>5. CASE RowEnd
  <2>1. /\ step = "cell" /\ i1 \in 0 .. n /\ i1 # n
        /\ i2 = m /\ Filled(t2, i1 + 1, i2)
        /\ step' = "row" /\ i1' = i1 + 1 /\ t1' = t2 /\ UNCHANGED <<s1, s2, i2>>
    BY <1>1, <1>5 DEF RowEnd, EditInv
  <2>2. (Filled(t1, i1, Len(s2)))'
    BY <1>1, <2>1 DEF Filled
  <2>3. i1 + 1 \in 0 .. n
    BY <2>1
  <2> QED  BY <1>1, <1>2, <2>1, <2>2, <2>3 DEF EditInv
<1> QED  BY <1>3, <1>4, <1>5 DEF EditStep

(* The last place of the last row is the distance.                         *)
LEMMA RowsGiveDistance ==
  ASSUME EditInv, EditEnds
  PROVE  distance = Distance(s1, s2) /\ distance \in 0 .. Len(s1) + Len(s2)
<1>1. PICK n \in Nat, m \in Nat : n = Len(s1) /\ m = Len(s2)
  BY DEF EditInv, Characters
<1>2. Characters(s1) /\ Characters(s2) /\ Filled(t1, i1, m) /\ i1 = n /\ m \in 0 .. m
  BY <1>1 DEF EditInv, EditEnds
<1>3. LeastCost(s1, s2, n, m, t1[m])
  BY <1>2 DEF Filled
<1> QED  BY <1>1, <1>2, <1>3, LeastIsDistance DEF distance

-----------------------------------------------------------------------------
(***************************************************************************)
(* The scores.                                                             *)
(***************************************************************************)

LEMMA DivAtMost ==
  ASSUME NEW x \in Nat, NEW y \in Nat, NEW z \in Nat \ {0}, x <= y * z
  PROVE  x \div z \in 0 .. y
<1>1. PICK q \in Int, r \in Int : q = x \div z /\ x = z * q + r /\ 0 <= r /\ r < z
  OBVIOUS
<1>2. q >= 0
  <2>1. SUFFICES ASSUME q <= -1 PROVE FALSE
    OBVIOUS
  <2>2. z * q <= z * (-1)
    BY <2>1
  <2> QED  BY <1>1, <2>2
<1>3. q <= y
  <2>1. SUFFICES ASSUME q >= y + 1 PROVE FALSE
    BY <1>1
  <2>2. z * q >= z * (y + 1)
    BY <2>1
  <2>3. z * (y + 1) = y * z + z
    OBVIOUS
  <2> QED  BY <1>1, <2>2, <2>3
<1> QED  BY <1>1, <1>2, <1>3

LEMMA ScaledIsShare ==
  ASSUME NEW len1 \in Nat \ {0}, NEW len2 \in Nat \ {0}, NEW d \in 0 .. len1 + len2
  PROVE  Scaled(d, len1, len2) \in 0 .. 100
<1>1. PICK S \in Nat \ {0} : S = SIGN_LENGTH
  BY CompareAssumption
<1>2. PICK L \in Nat \ {0} : L = len1 + len2
  OBVIOUS
<1>3. d * S <= S * L /\ d * S \in Nat
  <2>1. d \in Nat /\ d <= L
    BY <1>2
  <2>2. d * S <= L * S
    BY <2>1
  <2> QED  BY <2>1, <2>2
<1>4. PICK q \in 0 .. S : q = (d * S) \div L
  BY <1>3, DivAtMost
<1>5. 100 * q <= 100 * S /\ 100 * q \in Nat
  BY <1>4
<1>6. (100 * q) \div S \in 0 .. 100
  BY <1>5, DivAtMost
<1> QED  BY <1>1, <1>2, <1>4, <1>6 DEF Scaled

LEMMA ScoreIsPercentage ==
  ASSUME NEW len1 \in Nat \ {0}, NEW len2 \in Nat \ {0}, NEW d \in 0 .. len1 + len2,
         NEW b \in Nat
  PROVE  score_strings(d, len1, len2, b) \in 0 .. 100
<1>1. PICK share \in 0 .. 100 : share = Scaled(d, len1, len2)
  BY ScaledIsShare
<1>2. PICK most \in Nat : most = (b \div MIN_BLOCK_SIZE) * Least(len1, len2)
  <2>1. PICK M \in Nat \ {0} : M = MIN_BLOCK_SIZE
    BY CompareAssumption
  <2>2. b <= b * M
    OBVIOUS
  <2>3. PICK x \in Nat : x = b \div M
    BY <2>2, DivAtMost
  <2>4. PICK y \in Nat : y = Least(len1, len2)
    BY DEF Least
  <2>5. x * y \in Nat
    OBVIOUS
  <2> QED  BY <2>1, <2>3, <2>4, <2>5
<1>3. Least(share, most) \in 0 .. 100
  BY DEF Least
<1>4. score_strings(d, len1, len2, b) \in {share, 100 - Least(share, most)}
  BY <1>1, <1>2 DEF score_strings
<1> QED  BY <1>3, <1>4

(* A copy has at least the first character of its text.                    *)
LEMMA CopyOfText ==
  ASSUME NEW t, Text(t)
  PROVE  /\ copy_eliminate_sequences(t) = Short(t)
         /\ Characters(copy_eliminate_sequences(t))
         /\ Len(copy_eliminate_sequences(t)) # 0
<1>1. t \in Seq(STRING) /\ Len(t) \in 1 .. SIGN_LENGTH - 1
  BY DEF Text
<1>2. Len(t) \in Nat /\ 1 \in 1 .. Len(t)
  BY <1>1, CompareAssumption
<1> DEFINE copy == copy_eliminate_sequences(t)
           kept == Kept(t, Len(t))
<1>3. copy = Short(t)
  BY <1>1, CopyIsShort
<1>4. copy \in Seq(STRING)
  <2>1. PICK copied : Copies(t, copied) /\ copy = copied[Len(t)].out
    BY <1>1, CopyIsLast
  <2>2. copied[Len(t)] \in CopyState
    BY <1>2, <2>1 DEF Copies
  <2> QED  BY <2>1, <2>2 DEF CopyState
<1>5. 1 \in kept
  BY <1>2 DEF Kept, Run
<1>6. Cardinality(kept) \in Nat \ {0}
  <2>1. Cardinality(Kept(t, 1)) \in 1 .. Cardinality(kept) /\ Cardinality(kept) \in Nat
    BY <1>2, <1>5, KeptNumber
  <2> QED  BY <2>1
<1>7. DOMAIN Short(t) = 1 .. Cardinality(kept)
  BY DEF Short, Kept, Run
<1>8. Len(copy) # 0
  <2>1. 1 \in 1 .. Len(copy)
    <3> HIDE DEF copy, kept
    <3> QED  BY <1>3, <1>4, <1>6, <1>7
  <2> QED  BY <2>1
<1> QED  BY <1>3, <1>4, <1>8 DEF Characters

(* All the calls of score_strings for the two hashes.                      *)
AllCalls == Calls(Copy(str1), Copy(str2))

CallScore(call) == Score(call.s1, call.s2, call.block_size)

(* The calls that are not in what is left have been made.                  *)
Made == Len(AllCalls) - Len(calls)

Greatest(m, S) == m \in S /\ \A x \in S : x <= m

ScoresUpto(n) == {0} \cup {CallScore(AllCalls[k]) : k \in 1 .. n}

ScoreInv ==
  /\ calls \in Seq({AllCalls[k] : k \in 1 .. Len(AllCalls)})
  /\ Made \in Nat
  /\ \A k \in 1 .. Len(calls) : calls[k] = AllCalls[Made + k]
  /\ step # "idle" => calls # <<>> /\ s1 = Head(calls).s1 /\ s2 = Head(calls).s2
  /\ ScoresUpto(Made) \subseteq 0 .. 100
  /\ Greatest(score, ScoresUpto(Made))

(* What ctph_compare answers, by what it reads.                            *)
ResultInv ==
  \/ ~Parsed /\ result = -1
  \/ Parsed /\ ~Comparable /\ result = 0
  \/ Comparable /\ ~WellFormed /\ result = -1
  \/ Comparable /\ WellFormed /\ Copy(str1) = Copy(str2) /\ result = 100
  \/ /\ Comparable /\ WellFormed /\ Copy(str1) # Copy(str2)
     /\ ScoresUpto(Len(AllCalls)) \subseteq 0 .. 100
     /\ Greatest(result, ScoresUpto(Len(AllCalls)))

CompareInv ==
  /\ str1 \in Hashes \cup {Null}
  /\ str2 \in Hashes \cup {Null}
  /\ pc \in {"read", "score", "done"}
  /\ EditInv
  /\ pc # "score" => step = "idle"
  /\ pc = "read" => score = 0
  /\ pc = "score" => /\ Comparable /\ WellFormed /\ Copy(str1) # Copy(str2)
                     /\ ScoreInv
  /\ pc = "done" => ResultInv

CallOfTexts(call) ==
  /\ Characters(call.s1) /\ Len(call.s1) # 0
  /\ Characters(call.s2) /\ Len(call.s2) # 0
  /\ call.block_size \in Nat

(* A hash that is read and well formed has two texts.                      *)
LEMMA HashOfTexts ==
  ASSUME NEW h \in Hashes, h.hash_prec # Null
  PROVE  h.block_size \in 0 .. ULONG_MAX /\ Text(h.hash) /\ Text(h.hash_prec)
BY CompareAssumption

LEMMA CallsAreOfTexts ==
  ASSUME CompareInv, Comparable, WellFormed
  PROVE  /\ AllCalls \in Seq({AllCalls[k] : k \in 1 .. Len(AllCalls)})
         /\ Len(AllCalls) \in 1 .. 2
         /\ \A k \in 1 .. Len(AllCalls) : CallOfTexts(AllCalls[k])
<1> DEFINE h1 == Copy(str1)
           h2 == Copy(str2)
<1>1. str1 \in Hashes /\ str2 \in Hashes
  BY DEF CompareInv, Comparable, Parsed
<1>2. ASSUME NEW h \in {str1, str2}
      PROVE  /\ Copy(h).block_size \in Nat
             /\ Characters(Copy(h).hash) /\ Len(Copy(h).hash) # 0
             /\ Characters(Copy(h).hash_prec) /\ Len(Copy(h).hash_prec) # 0
  <2>1. h.block_size \in 0 .. ULONG_MAX /\ Text(h.hash) /\ Text(h.hash_prec)
    BY <1>1, HashOfTexts DEF WellFormed
  <2>2. h.block_size \in Nat
    BY <2>1
  <2> QED  BY <2>1, <2>2, CopyOfText DEF Copy
<1> HIDE DEF h1, h2
<1>3. PICK c1, c2 : /\ CallOfTexts(c1) /\ CallOfTexts(c2)
                    /\ AllCalls = <<c1>> \/ AllCalls = <<c1, c2>>
  <2> DEFINE Call(t, u, b) == [s1 |-> t, s2 |-> u, block_size |-> b]
             b1 == h1.block_size
             b2 == h2.block_size
             c1 == Call(h1.hash, h2.hash, b1)
             c2 == Call(h1.hash_prec, h2.hash_prec, b1 * 2)
             c3 == Call(h2.hash, h1.hash_prec, b2)
             c4 == Call(h1.hash, h2.hash_prec, b1)
  <2>1. AllCalls \in {<<c1, c2>>, <<c1>>, <<c3>>, <<c4>>}
    BY DEF AllCalls, Calls, h1, h2
  <2>2. b1 \in Nat /\ b2 \in Nat /\ b1 * 2 \in Nat
    BY <1>2 DEF h1, h2
  <2>3. CallOfTexts(c1) /\ CallOfTexts(c2) /\ CallOfTexts(c3) /\ CallOfTexts(c4)
    <3>1. /\ Characters(h1.hash) /\ Len(h1.hash) # 0
          /\ Characters(h1.hash_prec) /\ Len(h1.hash_prec) # 0
          /\ Characters(h2.hash) /\ Len(h2.hash) # 0
          /\ Characters(h2.hash_prec) /\ Len(h2.hash_prec) # 0
      BY <1>2 DEF h1, h2
    <3> QED  BY <2>2, <3>1 DEF CallOfTexts
  <2> HIDE DEF c1, c2, c3, c4
  <2> QED  BY <2>1, <2>3
<1>4. CASE AllCalls = <<c1>>
  BY <1>3, <1>4
<1>5. CASE AllCalls = <<c1, c2>>
  BY <1>3, <1>5
<1> QED  BY <1>3, <1>4, <1>5

LEMMA GreatestOfTwo ==
  ASSUME NEW x \in Int, NEW y \in Int
  PROVE  Max({x, y}) \in {x, y} /\ Max({x, y}) >= x /\ Max({x, y}) >= y
<1> DEFINE P(m) == m \in {x, y} /\ \A z \in {x, y} : m >= z
<1>1. \E m : P(m)
  BY DEF P
<1>2. P(CHOOSE m : P(m))
  <2> HIDE DEF P
  <2> QED  BY <1>1, Zenon
<1>3. Max({x, y}) = CHOOSE m : P(m)
  BY DEF Max
<1> QED  BY <1>2, <1>3

(* A call that returns is one more call that is made.                      *)
LEMMA ScoreStep ==
  ASSUME CompareInv, ScoreStrings
  PROVE  ScoreInv'
<1> DEFINE all == AllCalls
           n == Made
           new == score_strings(distance, Len(s1), Len(s2), Head(calls).block_size)
<1>1. /\ Comparable /\ WellFormed /\ ScoreInv /\ EditInv /\ EditEnds
      /\ score' = Max({score, new}) /\ calls' = Tail(calls) /\ step' = "idle"
      /\ UNCHANGED <<str1, str2>>
  BY DEF CompareInv, ScoreStrings, compareVars
<1>2. /\ all \in Seq({all[k] : k \in 1 .. Len(all)})
      /\ \A k \in 1 .. Len(all) : CallOfTexts(all[k])
      /\ Len(all) \in Nat
  BY <1>1, CallsAreOfTexts
<1>3. /\ calls \in Seq({all[k] : k \in 1 .. Len(all)})
      /\ n \in Nat /\ n = Len(all) - Len(calls)
      /\ \A k \in 1 .. Len(calls) : calls[k] = all[n + k]
      /\ calls # <<>> /\ s1 = Head(calls).s1 /\ s2 = Head(calls).s2
      /\ ScoresUpto(n) \subseteq 0 .. 100
      /\ Greatest(score, ScoresUpto(n))
  BY <1>1 DEF ScoreInv, EditEnds, Made
<1>4. /\ Len(calls) \in Nat \ {0} /\ Head(calls) = calls[1]
      /\ Tail(calls) \in Seq({all[k] : k \in 1 .. Len(all)})
      /\ Len(Tail(calls)) = Len(calls) - 1
      /\ \A k \in 1 .. Len(calls) - 1 : Tail(calls)[k] = calls[k + 1]
  <2> DEFINE X == {all[k] : k \in 1 .. Len(all)}
  <2>1. calls \in Seq(X) /\ calls # <<>>
    BY <1>3
  <2> HIDE DEF X
  <2>2. /\ Len(calls) \in Nat \ {0} /\ Head(calls) = calls[1]
        /\ Tail(calls) \in Seq(X)
        /\ Len(Tail(calls)) = Len(calls) - 1
        /\ \A k \in 1 .. Len(calls) - 1 : Tail(calls)[k] = calls[k + 1]
    BY <2>1
  <2> QED  BY <2>2 DEF X
<1>5. n + 1 \in 1 .. Len(all) /\ Head(calls) = all[n + 1]
  <2>1. PICK x \in Nat, y \in Nat \ {0} : x = Len(all) /\ y = Len(calls)
    BY <1>2, <1>4
  <2>2. n \in Nat /\ n = x - y /\ \A k \in 1 .. y : calls[k] = all[n + k]
    BY <1>3, <2>1
  <2> HIDE DEF n, all
  <2>3. n + 1 \in 1 .. x /\ 1 \in 1 .. y
    BY <2>2
  <2> QED  BY <1>4, <2>1, <2>2, <2>3
<1>6. new = CallScore(all[n + 1]) /\ new \in 0 .. 100
  <2>1. CallOfTexts(Head(calls))
    BY <1>2, <1>5
  <2>2. distance = Distance(s1, s2) /\ distance \in 0 .. Len(s1) + Len(s2)
    BY <1>1, RowsGiveDistance
  <2>3. /\ Len(s1) \in Nat \ {0} /\ Len(s2) \in Nat \ {0}
        /\ Head(calls).block_size \in Nat
    BY <1>3, <2>1 DEF CallOfTexts, Characters
  <2>4. new \in 0 .. 100
    BY <2>2, <2>3, ScoreIsPercentage
  <2>5. new = CallScore(Head(calls))
    BY <1>3, <2>2 DEF CallScore, Score
  <2> QED  BY <1>5, <2>4, <2>5
<1> HIDE DEF all, n, new
<1>7. /\ AllCalls' = all /\ Made' = n + 1
      /\ \A m : (ScoresUpto(m))' = ScoresUpto(m)
  <2>1. AllCalls' = AllCalls
    BY <1>1 DEF AllCalls
  <2>2. Made' = n + 1
    BY <1>1, <1>2, <1>3, <1>4, <2>1 DEF Made, all
  <2> QED  BY <2>1, <2>2 DEF ScoresUpto, all
<1>8. ScoresUpto(n + 1) = ScoresUpto(n) \cup {new}
  <2>1. 1 .. n + 1 = (1 .. n) \cup {n + 1}
    <3>1. PICK m \in Nat : m = n
      BY <1>3
    <3>2. 1 .. m + 1 = (1 .. m) \cup {m + 1}
      OBVIOUS
    <3> QED  BY <3>1, <3>2
  <2> QED  BY <1>6, <2>1 DEF ScoresUpto, all
<1>9. /\ ScoresUpto(n + 1) \subseteq 0 .. 100
      /\ Greatest(score', ScoresUpto(n + 1))
  <2>1. score \in 0 .. 100
    BY <1>3 DEF Greatest
  <2>2. score' \in {score, new} /\ score' >= score /\ score' >= new
    <3>1. score \in Int /\ new \in Int
      BY <1>6, <2>1
    <3>2. score' = Max({score, new})
      BY <1>1
    <3> QED  BY <3>1, <3>2, GreatestOfTwo
  <2>3. ScoresUpto(n + 1) \subseteq 0 .. 100
    BY <1>3, <1>6, <1>8
  <2>4. ASSUME NEW x \in ScoresUpto(n) PROVE x <= score'
    <3>1. x \in 0 .. 100 /\ x <= score
      BY <1>3 DEF Greatest
    <3> QED  BY <1>6, <2>1, <2>2, <3>1
  <2>5. score' \in ScoresUpto(n + 1) /\ new <= score'
    BY <1>3, <1>6, <1>8, <2>1, <2>2 DEF Greatest
  <2> QED  BY <1>8, <2>3, <2>4, <2>5 DEF Greatest
<1>10. \A k \in 1 .. Len(calls') : calls'[k] = all[(n + 1) + k]
  <2>1. \A k \in 1 .. Len(calls) - 1 :
          k + 1 \in 1 .. Len(calls) /\ n + (k + 1) = (n + 1) + k
    BY <1>3, <1>4
  <2> QED  BY <1>1, <1>3, <1>4, <2>1
<1>11. n + 1 \in Nat
  BY <1>3
<1>12. calls' \in Seq({all[k] : k \in 1 .. Len(all)})
  BY <1>1, <1>4
<1> QED  BY <1>1, <1>7, <1>9, <1>10, <1>11, <1>12 DEF ScoreInv

LEMMA CompareInvInit == Init => CompareInv
<1> SUFFICES ASSUME Init PROVE CompareInv
  OBVIOUS
<1>1. /\ str1 \in Hashes \cup {Null} /\ str2 \in Hashes \cup {Null}
      /\ pc = "read" /\ score = 0 /\ step = "idle" /\ s1 = <<>> /\ s2 = <<>>
  BY DEF Init, EditInit
<1>2. EditInv
  BY <1>1 DEF EditInv, Characters
<1> QED  BY <1>1, <1>2 DEF CompareInv

LEMMA CompareInvStep == CompareInv /\ [Next]_vars => CompareInv'
<1> SUFFICES ASSUME CompareInv, [Next]_vars PROVE CompareInv'
  OBVIOUS
<1>1. /\ str1 \in Hashes \cup {Null} /\ str2 \in Hashes \cup {Null}
      /\ pc \in {"read", "score", "done"}
      /\ EditInv
      /\ pc # "score" => step = "idle"
      /\ pc = "read" => score = 0
      /\ pc = "score" => /\ Comparable /\ WellFormed /\ Copy(str1) # Copy(str2)
                         /\ ScoreInv
      /\ pc = "done" => ResultInv
  BY DEF CompareInv
<1>2. /\ UNCHANGED editVars => (EditInv)' /\ step' = step
      /\ UNCHANGED compareVars => /\ UNCHANGED <<str1, str2>>
                                  /\ Parsed' = Parsed /\ Comparable' = Comparable
                                  /\ WellFormed' = WellFormed /\ AllCalls' = AllCalls
                                  /\ (Copy(str1) # Copy(str2))' = (Copy(str1) # Copy(str2))
                                  /\ \A n : (ScoresUpto(n))' = ScoresUpto(n)
  <2>1. ASSUME UNCHANGED editVars PROVE EditInv' /\ step' = step
    BY <1>1, <2>1 DEF EditInv, editVars, Filled
  <2>2. ASSUME UNCHANGED compareVars
        PROVE  /\ UNCHANGED <<str1, str2>>
               /\ Parsed' = Parsed /\ Comparable' = Comparable
               /\ WellFormed' = WellFormed /\ AllCalls' = AllCalls
               /\ (Copy(str1) # Copy(str2))' = (Copy(str1) # Copy(str2))
               /\ \A n : (ScoresUpto(n))' = ScoresUpto(n)
    <3>1. UNCHANGED <<str1, str2>>
      BY <2>2 DEF compareVars
    <3>2. AllCalls' = AllCalls
      BY <3>1 DEF AllCalls
    <3> QED  BY <3>1, <3>2 DEF Parsed, Comparable, WellFormed, ScoresUpto
  <2> QED  BY <2>1, <2>2
<1>3. ASSUME NEW answer, Return(answer), step = "idle", (ResultInv)' PROVE CompareInv'
  <2>1. pc' = "done" /\ UNCHANGED <<str1, str2>> /\ EditInv' /\ step' = "idle"
    BY <1>2, <1>3 DEF Return
  <2> QED  BY <1>1, <1>3, <2>1 DEF CompareInv
<1>4. ASSUME NEW answer, Return(answer)
      PROVE  /\ result' = answer
             /\ Parsed' = Parsed /\ Comparable' = Comparable
             /\ WellFormed' = WellFormed /\ AllCalls' = AllCalls
             /\ (Copy(str1) # Copy(str2))' = (Copy(str1) # Copy(str2))
             /\ \A n : (ScoresUpto(n))' = ScoresUpto(n)
  BY <1>2, <1>4 DEF Return
<1>5. CASE ReadNothing
  <2>1. Return(-1) /\ ~Parsed /\ step = "idle"
    BY <1>1, <1>5 DEF ReadNothing
  <2>2. (ResultInv)'
    BY <1>4, <2>1 DEF ResultInv
  <2> QED  BY <1>3, <2>1, <2>2
<1>6. CASE ReadOtherSizes
  <2>1. Return(0) /\ Parsed /\ ~Comparable /\ step = "idle"
    BY <1>1, <1>6 DEF ReadOtherSizes
  <2>2. (ResultInv)'
    BY <1>4, <2>1 DEF ResultInv
  <2> QED  BY <1>3, <2>1, <2>2
<1>7. CASE ReadMalformed
  <2>1. Return(-1) /\ Comparable /\ ~WellFormed /\ step = "idle"
    BY <1>1, <1>7 DEF ReadMalformed
  <2>2. (ResultInv)'
    BY <1>4, <2>1 DEF ResultInv
  <2> QED  BY <1>3, <2>1, <2>2
<1>8. CASE ReadSame
  <2>1. Return(100) /\ Comparable /\ WellFormed /\ Copy(str1) = Copy(str2) /\ step = "idle"
    BY <1>1, <1>8 DEF ReadSame
  <2>2. (ResultInv)'
    BY <1>4, <2>1 DEF ResultInv
  <2> QED  BY <1>3, <2>1, <2>2
<1>9. CASE ReadDifferent
  <2>1. /\ Comparable /\ WellFormed /\ Copy(str1) # Copy(str2)
        /\ step = "idle" /\ score = 0
        /\ calls' = AllCalls /\ pc' = "score" /\ score' = score
        /\ UNCHANGED editVars /\ UNCHANGED compareVars
    BY <1>1, <1>9 DEF ReadDifferent, AllCalls
  <2>2. /\ AllCalls \in Seq({AllCalls[k] : k \in 1 .. Len(AllCalls)})
        /\ Len(AllCalls) \in Nat
    BY <2>1, CallsAreOfTexts
  <2>3. Made' = 0
    BY <1>2, <2>1, <2>2 DEF Made
  <2>4. ScoresUpto(0) = {0}
    BY DEF ScoresUpto
  <2>5. \A k \in 1 .. Len(AllCalls) : 0 + k = k
    OBVIOUS
  <2>6. Greatest(0, {0}) /\ {0} \subseteq 0 .. 100
    BY DEF Greatest
  <2>7. ScoreInv'
    BY <1>2, <2>1, <2>2, <2>3, <2>4, <2>5, <2>6 DEF ScoreInv
  <2> QED  BY <1>1, <1>2, <2>1, <2>7 DEF CompareInv
<1>10. CASE CallEdit
  <2>1. /\ pc = "score" /\ calls # <<>>
        /\ edit_distn(Head(calls).s1, Head(calls).s2)
        /\ UNCHANGED <<pc, calls, score>> /\ UNCHANGED compareVars
    BY <1>10 DEF CallEdit
  <2>2. Characters(Head(calls).s1) /\ Characters(Head(calls).s2)
    <3> DEFINE X == {AllCalls[k] : k \in 1 .. Len(AllCalls)}
    <3>1. calls \in Seq(X)
      BY <1>1, <2>1 DEF ScoreInv
    <3>2. \A c \in X : CallOfTexts(c)
      BY <1>1, <2>1, CallsAreOfTexts
    <3> HIDE DEF X
    <3>3. Head(calls) \in X
      BY <2>1, <3>1
    <3> QED  BY <3>2, <3>3 DEF CallOfTexts
  <2>3. EditInv' /\ step' # "idle" /\ s1' = Head(calls).s1 /\ s2' = Head(calls).s2
    BY <1>1, <2>1, <2>2, CallInv
  <2>4. ScoreInv'
    <3>1. Made' = Made
      BY <1>2, <2>1 DEF Made
    <3> QED  BY <1>1, <1>2, <2>1, <2>3, <3>1 DEF ScoreInv
  <2> QED  BY <1>1, <1>2, <2>1, <2>3, <2>4 DEF CompareInv
<1>11. CASE RunEdit
  <2>1. /\ pc = "score" /\ EditStep
        /\ UNCHANGED <<pc, calls, score>> /\ UNCHANGED compareVars
    BY <1>11 DEF RunEdit
  <2>2. EditInv' /\ step' # "idle" /\ step # "idle" /\ UNCHANGED <<s1, s2>>
    BY <1>1, <2>1, EditStepInv DEF EditStep, RowStart, Cell, RowEnd
  <2>3. ScoreInv'
    <3>1. Made' = Made
      BY <1>2, <2>1 DEF Made
    <3> QED  BY <1>1, <1>2, <2>1, <2>2, <3>1 DEF ScoreInv
  <2> QED  BY <1>1, <1>2, <2>1, <2>2, <2>3 DEF CompareInv
<1>12. CASE ScoreStrings
  <2>1. pc = "score" /\ pc' = pc /\ step' = "idle" /\ UNCHANGED <<s1, s2>>
        /\ UNCHANGED compareVars
    BY <1>12 DEF ScoreStrings
  <2>2. EditInv'
    BY <1>1, <2>1 DEF EditInv
  <2>3. ScoreInv'
    BY <1>12, ScoreStep
  <2> QED  BY <1>1, <1>2, <2>1, <2>2, <2>3 DEF CompareInv
<1>13. CASE ReturnScore
  <2>1. pc = "score" /\ calls = <<>> /\ Return(score)
    BY <1>13 DEF ReturnScore
  <2>2. step = "idle" /\ Made = Len(AllCalls)
    <3>1. Len(AllCalls) \in Nat
      BY <1>1, <2>1, CallsAreOfTexts
    <3>2. step = "idle"
      BY <1>1, <2>1 DEF ScoreInv
    <3> QED  BY <2>1, <3>1, <3>2 DEF Made
  <2>3. (ResultInv)'
    <3>1. /\ ScoresUpto(Len(AllCalls)) \subseteq 0 .. 100
          /\ Greatest(score, ScoresUpto(Len(AllCalls)))
      BY <1>1, <2>1, <2>2 DEF ScoreInv
    <3>2. /\ (ScoresUpto(Len(AllCalls)))' \subseteq 0 .. 100
          /\ Greatest(result', (ScoresUpto(Len(AllCalls)))')
      BY <1>4, <2>1, <3>1
    <3>3. Comparable' /\ WellFormed' /\ (Copy(str1) # Copy(str2))'
      BY <1>1, <1>4, <2>1
    <3> QED  BY <3>2, <3>3 DEF ResultInv, Greatest
  <2> QED  BY <1>3, <2>1, <2>2, <2>3
<1>14. CASE UNCHANGED vars
  <2>1. /\ UNCHANGED <<pc, calls, score, result>>
        /\ UNCHANGED editVars /\ UNCHANGED compareVars
    BY <1>14 DEF vars
  <2>2. pc = "score" => ScoreInv'
    <3>1. Made' = Made
      BY <1>2, <2>1 DEF Made
    <3>2. UNCHANGED <<s1, s2>>
      BY <2>1 DEF editVars
    <3> QED  BY <1>1, <1>2, <2>1, <3>1, <3>2 DEF ScoreInv
  <2>3. pc = "done" => (ResultInv)'
    BY <1>1, <1>2, <2>1 DEF ResultInv
  <2> QED  BY <1>1, <1>2, <2>1, <2>2, <2>3 DEF CompareInv
<1> QED  BY <1>5, <1>6, <1>7, <1>8, <1>9, <1>10, <1>11, <1>12, <1>13, <1>14 DEF Next, Done

(* CompareInv is the inductive invariant the theorems rest on: the rows    *)
(* hold the costs of the ways to their places, and the score is the best   *)
(* of the calls that have been made.                                       *)
THEOREM CompareInvHolds == Spec => []CompareInv
<1> QED  BY CompareInvInit, CompareInvStep, PTL DEF Spec

(* edit_distn computes the distance of any two texts: no place of the two  *)
(* rows is read before it is written, or after the rows changed places     *)
(* once too often.                                                         *)
THEOREM DistanceIsRight == Spec => []DistanceIsLeastCost
<1>1. CompareInv => DistanceIsLeastCost
  BY RowsGiveDistance DEF CompareInv, DistanceIsLeastCost
<1> QED  BY <1>1, CompareInvHolds, PTL

(* ctph_compare answers a percentage, and -1 only for what cannot be       *)
(* compared: no subtraction of score_strings is taken below 0.             *)
THEOREM ScoresAreInRange == Spec => []ScoreInRange
<1>1. ASSUME CompareInv, pc = "done"
      PROVE  /\ result \in -1 .. 100
             /\ result = -1 <=> ~Parsed \/ (Comparable /\ ~WellFormed)
  <2>1. ResultInv
    BY <1>1 DEF CompareInv
  <2>2. Comparable => Parsed
    BY DEF Comparable
  <2>3. CASE /\ Comparable /\ WellFormed /\ Copy(str1) # Copy(str2)
             /\ ScoresUpto(Len(AllCalls)) \subseteq 0 .. 100
             /\ Greatest(result, ScoresUpto(Len(AllCalls)))
    <3>1. result \in 0 .. 100
      BY <2>3 DEF Greatest
    <3>2. result \in -1 .. 100 /\ result # -1
      BY <3>1
    <3> QED  BY <2>2, <2>3, <3>2, Zenon
  <2>4. /\ -1 \in -1 .. 100 /\ 0 \in -1 .. 100 /\ 100 \in -1 .. 100
        /\ 0 # -1 /\ 100 # -1
    OBVIOUS
  <2>5. CASE ~Parsed /\ result = -1
    BY <2>4, <2>5, Zenon
  <2>6. CASE Parsed /\ ~Comparable /\ result = 0
    BY <2>4, <2>6, Zenon
  <2>7. CASE Comparable /\ ~WellFormed /\ result = -1
    BY <2>4, <2>7, Zenon
  <2>8. CASE Comparable /\ WellFormed /\ result = 100
    BY <2>2, <2>4, <2>8, Zenon
  <2> QED  BY <2>1, <2>3, <2>5, <2>6, <2>7, <2>8, Zenon DEF ResultInv
<1>2. CompareInv => ScoreInRange
  BY <1>1 DEF ScoreInRange
<1> QED  BY <1>2, CompareInvHolds, PTL

-----------------------------------------------------------------------------
(***************************************************************************)
(* The block sizes two hashes have in common.                              *)
(***************************************************************************)

(* There is a cheapest way, as the rows compute one.                       *)
LEMMA LeastCostExists ==
  ASSUME NEW a, NEW b, Characters(a), Characters(b)
  PROVE  \E c : LeastCost(a, b, Len(a), Len(b), c)
<1>1. PICK m \in Nat, n \in Nat : m = Len(a) /\ n = Len(b)
  BY DEF Characters
<1> DEFINE Exists(i, k) == \E c : LeastCost(a, b, i, k, c)
           S == {i \in Nat : i <= m => \A k \in 0 .. n : Exists(i, k)}
<1>2. 0 \in S
  <2>1. ASSUME NEW k \in 0 .. n PROVE Exists(0, k)
    BY FirstRow
  <2> HIDE DEF Exists
  <2> QED  BY <2>1
<1>3. ASSUME NEW i \in Nat, i \in S PROVE i + 1 \in S
  <2>1. SUFFICES ASSUME i + 1 <= m PROVE \A k \in 0 .. n : Exists(i + 1, k)
    OBVIOUS
  <2>2. \A k \in 0 .. n : Exists(i, k)
    BY <1>3, <2>1
  <2> DEFINE R == {k \in Nat : k <= n => Exists(i + 1, k)}
  <2>3. 0 \in R
    <3>1. Exists(i + 1, 0)
      BY FirstRow
    <3> HIDE DEF Exists
    <3> QED  BY <3>1
  <2>4. ASSUME NEW k \in Nat, k \in R PROVE k + 1 \in R
    <3>1. SUFFICES ASSUME k + 1 <= n PROVE Exists(i + 1, k + 1)
      OBVIOUS
    <3>2. k \in 0 .. n /\ k + 1 \in 0 .. n
      BY <3>1
    <3>3. Before(i, a) /\ Before(k, b)
      BY <1>1, <2>1, <3>1 DEF Before
    <3>4. Exists(i, k + 1) /\ Exists(i + 1, k) /\ Exists(i, k)
      <4> HIDE DEF Exists
      <4> QED  BY <2>2, <2>4, <3>2
    <3>5. PICK x, y, z : /\ LeastCost(a, b, i, k + 1, x)
                         /\ LeastCost(a, b, i + 1, k, y)
                         /\ LeastCost(a, b, i, k, z)
      BY <3>4
    <3>6. LeastCost(a, b, i + 1, k + 1,
            Least(Least(x + INSERT_COST, y + REMOVE_COST),
                  z + IF a[i + 1] = b[k + 1] THEN 0 ELSE REPLACE_COST))
      BY <3>3, <3>5, CostStep, Zenon
    <3> QED  BY <3>6, Zenon
  <2>5. \A k \in Nat : k \in R
    <3> HIDE DEF R
    <3> QED  BY <2>3, <2>4, SetInduction
  <2> HIDE DEF Exists
  <2> QED  BY <2>5
<1>4. m \in S
  <2>1. \A i \in Nat : i \in S
    <3> HIDE DEF S
    <3> QED  BY <1>2, <1>3, SetInduction
  <2> QED  BY <2>1
<1>5. n \in 0 .. n /\ m <= m
  OBVIOUS
<1> QED  BY <1>1, <1>4, <1>5

LEMMA DistanceInRange ==
  ASSUME NEW a, NEW b, Characters(a), Characters(b)
  PROVE  Distance(a, b) \in 0 .. Len(a) + Len(b)
BY LeastCostExists, LeastIsDistance

(* The way back: an alignment read from the second text to the first.      *)
LEMMA WayBack ==
  ASSUME NEW a, NEW b, Characters(a), Characters(b), NEW kept \in Alignments(a, b)
  PROVE  \E back \in Alignments(b, a) : Cardinality(back) = Cardinality(kept)
<1>0. kept \in Aligned(a, b, Len(a), Len(b))
  BY DEF Aligned, Alignments
<1>1. /\ \A p \in kept :
           /\ p = <<p[1], p[2]>>
           /\ p[1] \in 1 .. Len(a) /\ p[2] \in 1 .. Len(b)
           /\ a[p[1]] = b[p[2]]
      /\ \A p, q \in kept : p[1] < q[1] <=> p[2] < q[2]
      /\ IsFiniteSet(kept) /\ Cardinality(kept) \in Nat
  BY <1>0, AlignedPairs
<1> DEFINE turned(p) == <<p[2], p[1]>>
           back == {turned(p) : p \in kept}
           f == [p \in kept |-> turned(p)]
<1>2. back \in Alignments(b, a)
  <2>1. \A p \in back : p \in (1 .. Len(b)) \X (1 .. Len(a)) /\ b[p[1]] = a[p[2]]
    BY <1>1
  <2>2. \A p, q \in back : p[1] < q[1] <=> p[2] < q[2]
    BY <1>1
  <2> HIDE DEF back
  <2>3. back \in SUBSET {p \in (1 .. Len(b)) \X (1 .. Len(a)) : b[p[1]] = a[p[2]]}
    BY <2>1
  <2> QED  BY <2>2, <2>3 DEF Alignments
<1>3. f \in Bijection(kept, back)
  <2>1. \A p, q \in kept : f[p] = f[q] => p = q
    BY <1>1
  <2>2. f \in [kept -> back] /\ \A x \in back : \E p \in kept : f[p] = x
    OBVIOUS
  <2> HIDE DEF f, back
  <2> QED  BY <2>1, <2>2 DEF Bijection, Injection, Surjection, IsInjective
<1>4. Cardinality(back) = Cardinality(kept)
  <2> HIDE DEF f, back
  <2> QED  BY <1>1, <1>3, FS_Bijection DEF ExistsBijection
<1> QED  BY <1>2, <1>4

(* It makes no difference which of two texts is the first.                 *)
LEMMA DistanceIsSymmetric ==
  ASSUME NEW a, NEW b, Characters(a), Characters(b)
  PROVE  Distance(a, b) = Distance(b, a)
<1> DEFINE Ways(x, y) == {(Len(x) - Cardinality(kept)) * INSERT_COST +
                            (Len(y) - Cardinality(kept)) * REMOVE_COST :
                              kept \in Alignments(x, y)}
<1>1. ASSUME NEW x, NEW y, Characters(x), Characters(y)
      PROVE  Ways(x, y) \subseteq Ways(y, x)
  <2>1. SUFFICES ASSUME NEW kept \in Alignments(x, y)
                 PROVE  \E back \in Alignments(y, x) :
                          (Len(x) - Cardinality(kept)) * INSERT_COST +
                            (Len(y) - Cardinality(kept)) * REMOVE_COST =
                          (Len(y) - Cardinality(back)) * INSERT_COST +
                            (Len(x) - Cardinality(back)) * REMOVE_COST
    OBVIOUS
  <2>2. PICK back \in Alignments(y, x) : Cardinality(back) = Cardinality(kept)
    BY <1>1, WayBack
  <2>3. kept \in Aligned(x, y, Len(x), Len(y))
    BY DEF Aligned, Alignments
  <2>4. PICK m \in Nat, n \in Nat, k \in Nat :
          m = Len(x) /\ n = Len(y) /\ k = Cardinality(kept)
    BY <1>1, <2>3, AlignedPairs DEF Characters
  <2>5. (m - k) * 1 + (n - k) * 1 = (n - k) * 1 + (m - k) * 1
    OBVIOUS
  <2> QED  BY <2>2, <2>4, <2>5 DEF INSERT_COST, REMOVE_COST
<1>2. Ways(a, b) = Ways(b, a)
  <2>1. Ways(a, b) \subseteq Ways(b, a) /\ Ways(b, a) \subseteq Ways(a, b)
    <3> HIDE DEF Ways
    <3> QED  BY <1>1
  <2> HIDE DEF Ways
  <2> QED  BY <2>1
<1>3. Distance(a, b) = Min(Ways(a, b)) /\ Distance(b, a) = Min(Ways(b, a))
  BY DEF Distance
<1> QED  BY <1>2, <1>3

LEMMA ScoreIsSymmetric ==
  ASSUME NEW t, NEW u, Characters(t), Characters(u), NEW b
  PROVE  Score(t, u, b) = Score(u, t, b)
<1>1. PICK m \in Nat, n \in Nat : m = Len(t) /\ n = Len(u)
  BY DEF Characters
<1>2. PICK d : d = Distance(t, u) /\ d = Distance(u, t)
  BY DistanceIsSymmetric
<1>3. Least(m, n) = Least(n, m)
  BY DEF Least
<1>4. Scaled(d, m, n) = Scaled(d, n, m)
  <2>1. m + n = n + m
    OBVIOUS
  <2> QED  BY <2>1 DEF Scaled
<1> QED  BY <1>1, <1>2, <1>3, <1>4 DEF Score, score_strings

(* With the block size 0 a score is never below 100.                       *)
LEMMA ScoreOfNoSize ==
  ASSUME NEW t, NEW u, Characters(t), Characters(u), Len(t) # 0, Len(u) # 0
  PROVE  Score(t, u, 0) = 100
<1>1. PICK m \in Nat \ {0}, n \in Nat \ {0} : m = Len(t) /\ n = Len(u)
  BY DEF Characters
<1>2. PICK M \in Nat \ {0}, W \in Nat \ {0} : M = MIN_BLOCK_SIZE /\ W = WINDOW_SIZE
  BY CompareAssumption
<1>3. ~(0 >= ((99 + W) \div W) * M)
  <2>1. PICK q \in Int, r \in Int : q = (99 + W) \div W /\ 99 + W = W * q + r /\ 0 <= r /\ r < W
    OBVIOUS
  <2>2. q >= 1
    <3>1. SUFFICES ASSUME q <= 0 PROVE FALSE
      BY <2>1
    <3>2. W * q <= 0
      BY <3>1
    <3> QED  BY <2>1, <3>2
  <2>3. q * M >= M
    BY <2>2
  <2> QED  BY <2>1, <2>3
<1>4. 0 \div M = 0
  <2>1. 0 <= 0 * M
    OBVIOUS
  <2> QED  BY <2>1, DivAtMost
<1>5. (0 \div M) * Least(m, n) = 0
  <2>1. Least(m, n) \in Nat
    BY DEF Least
  <2> QED  BY <1>4, <2>1
<1>6. PICK share \in 0 .. 100 : share = Scaled(Distance(t, u), m, n)
  <2>1. Distance(t, u) \in 0 .. m + n
    BY <1>1, DistanceInRange
  <2> QED  BY <2>1, ScaledIsShare
<1>7. Score(t, u, 0) = 100 - Least(share, 0)
  BY <1>1, <1>2, <1>3, <1>5, <1>6 DEF Score, score_strings
<1>8. Least(share, 0) = 0
  BY DEF Least
<1> QED  BY <1>7, <1>8

(* The scores of the texts that two hashes have for the same block size.   *)
CommonScores ==
  {Score(Texts(str1)[b], Texts(str2)[b], b) :
     b \in DOMAIN Texts(str1) \cap DOMAIN Texts(str2)}

LEMMA ScoresAreCommon ==
  ASSUME CompareInv, Comparable, WellFormed
  PROVE  CommonScores # {} /\ {0} \cup CommonScores = ScoresUpto(Len(AllCalls))
<1>1. str1 \in Hashes /\ str2 \in Hashes
  BY DEF CompareInv, Comparable, Parsed
<1>2. /\ str1.block_size \in 0 .. ULONG_MAX /\ Text(str1.hash) /\ Text(str1.hash_prec)
      /\ str2.block_size \in 0 .. ULONG_MAX /\ Text(str2.hash) /\ Text(str2.hash_prec)
  BY <1>1, HashOfTexts DEF WellFormed
<1>3. PICK M \in Nat, b1 \in Nat, b2 \in Nat :
        /\ M = ULONG_MAX /\ b1 = str1.block_size /\ b2 = str2.block_size
        /\ b1 <= M /\ b2 <= M
  BY <1>2, CompareAssumption
<1>4. PICK p1, q1, p2, q2 :
        /\ p1 = Copy(str1).hash /\ q1 = Copy(str1).hash_prec
        /\ p2 = Copy(str2).hash /\ q2 = Copy(str2).hash_prec
  OBVIOUS
<1>5. /\ p1 = Short(str1.hash) /\ q1 = Short(str1.hash_prec)
      /\ p2 = Short(str2.hash) /\ q2 = Short(str2.hash_prec)
      /\ Characters(p1) /\ Len(p1) # 0 /\ Characters(q1) /\ Len(q1) # 0
      /\ Characters(p2) /\ Len(p2) # 0 /\ Characters(q2) /\ Len(q2) # 0
  BY <1>2, <1>4, CopyOfText DEF Copy
<1> DEFINE Both(t, u, b) == [s1 |-> t, s2 |-> u, block_size |-> b]
           T1(b) == IF b = b1 THEN p1 ELSE q1
           T2(b) == IF b = b2 THEN p2 ELSE q2
           common == {b1, 2 * b1} \cap {b2, 2 * b2} \cap (0 .. M)
<1>6. CommonScores = {Score(T1(b), T2(b), b) : b \in common}
  <2>1. /\ DOMAIN Texts(str1) = {b1, 2 * b1} \cap (0 .. M)
        /\ DOMAIN Texts(str2) = {b2, 2 * b2} \cap (0 .. M)
        /\ \A b \in DOMAIN Texts(str1) : Texts(str1)[b] = T1(b)
        /\ \A b \in DOMAIN Texts(str2) : Texts(str2)[b] = T2(b)
    BY <1>3, <1>5 DEF Texts
  <2>2. DOMAIN Texts(str1) \cap DOMAIN Texts(str2) = common
    BY <2>1
  <2> HIDE DEF T1, T2, common
  <2> QED  BY <2>1, <2>2 DEF CommonScores
<1>7. AllCalls = CASE b1 = b2 /\ b1 <= M \div 2 -> <<Both(p1, p2, b1), Both(q1, q2, b1 * 2)>>
                   [] b1 = b2 /\ b1 > M \div 2 -> <<Both(p1, p2, b1)>>
                   [] b1 # b2 /\ b1 <= M \div 2 /\ b1 * 2 = b2 -> <<Both(p2, q1, b2)>>
                   [] OTHER -> <<Both(p1, q2, b1)>>
  <2>1. Copy(str1).block_size = b1 /\ Copy(str2).block_size = b2
    BY <1>3 DEF Copy
  <2> QED  BY <1>3, <1>4, <2>1 DEF AllCalls, Calls
<1>8. \A t, u, b : CallScore(Both(t, u, b)) = Score(t, u, b)
  BY DEF CallScore
<1>9. \A n \in Nat : n <= M \div 2 <=> 2 * n <= M
  OBVIOUS
<1>10. BlockSizesMatch(b1, b2)
  BY <1>3 DEF Comparable
<1> HIDE DEF Both
<1>11. ASSUME NEW c, AllCalls = <<c>>
       PROVE  ScoresUpto(Len(AllCalls)) = {0, CallScore(c)}
  <2>1. Len(AllCalls) = 1 /\ AllCalls[1] = c /\ 1 .. 1 = {1}
    BY <1>11
  <2> QED  BY <2>1 DEF ScoresUpto
<1>12. CASE b1 = b2 /\ b1 <= M \div 2
  <2>1. AllCalls = <<Both(p1, p2, b1), Both(q1, q2, b1 * 2)>>
    BY <1>7, <1>12
  <2>2. ScoresUpto(Len(AllCalls)) = {0, Score(p1, p2, b1), Score(q1, q2, b1 * 2)}
    <3>1. /\ Len(AllCalls) = 2 /\ AllCalls[1] = Both(p1, p2, b1)
          /\ AllCalls[2] = Both(q1, q2, b1 * 2) /\ 1 .. 2 = {1, 2}
      BY <2>1
    <3> QED  BY <1>8, <3>1 DEF ScoresUpto
  <2>3. common = {b1, b1 * 2}
    BY <1>3, <1>9, <1>12
  <2>4. CASE b1 = 0
    <3>1. CommonScores = {Score(p1, p2, 0)}
      <4>1. common = {0} /\ T1(0) = p1 /\ T2(0) = p2
        BY <1>12, <2>3, <2>4
      <4> HIDE DEF common, T1, T2
      <4> QED  BY <1>6, <4>1
    <3>2. Score(p1, p2, 0) = 100 /\ Score(q1, q2, 0) = 100
      BY <1>5, ScoreOfNoSize
    <3>3. b1 * 2 = 0
      BY <2>4
    <3> QED  BY <2>2, <2>4, <3>1, <3>2, <3>3
  <2>5. CASE b1 # 0
    <3>1. CommonScores = {Score(p1, p2, b1), Score(q1, q2, b1 * 2)}
      <4>1. b1 * 2 # b1
        BY <2>5
      <4>2. T1(b1) = p1 /\ T2(b1) = p2 /\ T1(b1 * 2) = q1 /\ T2(b1 * 2) = q2
        BY <1>12, <4>1
      <4> HIDE DEF common, T1, T2
      <4> QED  BY <1>6, <2>3, <4>2
    <3> QED  BY <2>2, <3>1
  <2> QED  BY <2>4, <2>5
<1>13. ASSUME NEW b, common = {b}, NEW c, AllCalls = <<c>>,
              CallScore(c) = Score(T1(b), T2(b), b)
       PROVE  CommonScores # {} /\ {0} \cup CommonScores = ScoresUpto(Len(AllCalls))
  <2> HIDE DEF common, T1, T2
  <2> QED  BY <1>6, <1>11, <1>13
<1>14. CASE b1 = b2 /\ b1 > M \div 2
  <2>1. AllCalls = <<Both(p1, p2, b1)>>
    BY <1>7, <1>14
  <2>2. common = {b1}
    BY <1>3, <1>9, <1>14
  <2> QED  BY <1>8, <1>13, <1>14, <2>1, <2>2
<1>15. CASE b1 # b2 /\ b1 <= M \div 2 /\ b1 * 2 = b2
  <2>1. AllCalls = <<Both(p2, q1, b2)>>
    BY <1>7, <1>15
  <2>2. common = {b2}
    <3>1. /\ b2 = 2 * b1 /\ b1 # 0 /\ b2 # b1 /\ 2 * b2 # b1 /\ 2 * b2 # 2 * b1
          /\ b2 \in 0 .. M
      BY <1>3, <1>15
    <3> QED  BY <3>1
  <2>3. Score(p2, q1, b2) = Score(q1, p2, b2)
    BY <1>5, ScoreIsSymmetric
  <2> QED  BY <1>8, <1>13, <1>15, <2>1, <2>2, <2>3
<1>16. CASE b1 # b2 /\ ~(b1 <= M \div 2 /\ b1 * 2 = b2)
  <2>1. AllCalls = <<Both(p1, q2, b1)>>
    BY <1>7, <1>16
  <2>2. b1 = 2 * b2
    BY <1>3, <1>10, <1>16 DEF BlockSizesMatch
  <2>3. common = {b1}
    BY <1>3, <1>16, <2>2
  <2> QED  BY <1>8, <1>13, <1>16, <2>1, <2>3
<1>17. b1 = b2 => b1 <= M \div 2 \/ b1 > M \div 2
  OBVIOUS
<1> QED  BY <1>12, <1>14, <1>15, <1>16, <1>17

(* Two hashes are compared by all the texts they have for the same block   *)
(* size, whichever is the first: the case analysis of ctph_compare misses  *)
(* none and takes no two that do not belong together.                      *)
THEOREM CommonSizesAreCompared == Spec => []ComparesCommonSizes
<1>1. ASSUME CompareInv, pc = "done", Comparable, WellFormed, Copy(str1) # Copy(str2)
      PROVE  result = Max(CommonScores)
  <2>1. /\ ScoresUpto(Len(AllCalls)) \subseteq 0 .. 100
        /\ Greatest(result, ScoresUpto(Len(AllCalls)))
    BY <1>1 DEF CompareInv, ResultInv, Comparable
  <2>2. CommonScores # {} /\ {0} \cup CommonScores = ScoresUpto(Len(AllCalls))
    BY <1>1, ScoresAreCommon
  <2>3. CommonScores \subseteq 0 .. 100 /\ result \in 0 .. 100
    BY <2>1, <2>2 DEF Greatest
  <2>4. \A x \in CommonScores : result >= x
    BY <2>1, <2>2, <2>3 DEF Greatest
  <2>5. result \in CommonScores
    <3>1. CASE result = 0
      <4>1. PICK x \in CommonScores : TRUE
        BY <2>2
      <4>2. x = 0
        BY <2>3, <2>4, <3>1
      <4> QED  BY <3>1, <4>2
    <3>2. CASE result # 0
      BY <2>1, <2>2, <3>2 DEF Greatest
    <3> QED  BY <3>1, <3>2
  <2>6. ASSUME NEW x \in CommonScores, \A y \in CommonScores : x >= y
        PROVE  x = result
    BY <2>3, <2>4, <2>5, <2>6
  <2> QED  BY <2>4, <2>5, <2>6 DEF Max
<1>2. CompareInv => ComparesCommonSizes
  BY <1>1 DEF ComparesCommonSizes, CommonScores
<1> QED  BY <1>2, CompareInvHolds, PTL

=============================================================================
