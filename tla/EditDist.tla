------------------------------ MODULE EditDist ------------------------------
(***************************************************************************)
(* edit_distn of src/edit_dist.c: the edit distance of two texts, computed *)
(* row by row in two arrays that change places.  A row is a function on    *)
(* the places written so far: the arrays are not initialised.              *)
(***************************************************************************)
EXTENDS Integers, Sequences, FiniteSetsExt

INSERT_COST  == 1
REMOVE_COST  == 1
REPLACE_COST == 2

VARIABLES
  s1, s2,     (* The texts.                                                *)
  t1, t2,     (* The row before and the row that is being filled.          *)
  i1, i2,     (* How many characters of s1 and s2 the rows have taken.     *)
  step        (* "idle", "row" at the head of a row, "cell" inside one.    *)

editVars == <<s1, s2, t1, t2, i1, i2, step>>

-----------------------------------------------------------------------------

Least(x, y) == IF x < y THEN x ELSE y

EditInit ==
  /\ s1 = <<>>
  /\ s2 = <<>>
  /\ t1 = <<>>
  /\ t2 = <<>>
  /\ i1 = 0
  /\ i2 = 0
  /\ step = "idle"

(* The call of edit_distn, up to the first row.                            *)
edit_distn(a, b) ==
  /\ step = "idle"
  /\ s1' = a
  /\ s2' = b
  /\ t1' = [k \in 0 .. Len(b) |-> k * REMOVE_COST]
  /\ t2' = <<>>
  /\ i1' = 0
  /\ i2' = 0
  /\ step' = "row"

RowStart ==
  /\ step = "row"
  /\ i1 < Len(s1)
  /\ t2' = [k \in DOMAIN t2 \cup {0} |->
              IF k = 0 THEN (i1 + 1) * INSERT_COST ELSE t2[k]]
  /\ i2' = 0
  /\ step' = "cell"
  /\ UNCHANGED <<s1, s2, t1, i1>>

(* Mutant: a replacement costs as much as an insertion.                    *)
CheapReplacement ==
  Least(Least(t1[i2 + 1] + INSERT_COST, t2[i2] + REMOVE_COST),
        t1[i2] + IF s1[i1 + 1] = s2[i2 + 1] THEN 0 ELSE INSERT_COST)

Cost ==
  Least(Least(t1[i2 + 1] + INSERT_COST, t2[i2] + REMOVE_COST),
        t1[i2] + IF s1[i1 + 1] = s2[i2 + 1] THEN 0 ELSE REPLACE_COST)

Cell ==
  /\ step = "cell"
  /\ i2 < Len(s2)
  /\ t2' = [k \in DOMAIN t2 \cup {i2 + 1} |->
              IF k = i2 + 1 THEN Cost ELSE t2[k]]
  /\ i2' = i2 + 1
  /\ UNCHANGED <<s1, s2, t1, i1, step>>

(* Mutant: the rows do not change places.                                  *)
RowEndNoSwap ==
  /\ step = "cell"
  /\ i2 = Len(s2)
  /\ i1' = i1 + 1
  /\ step' = "row"
  /\ UNCHANGED <<s1, s2, t1, t2, i2>>

(* Mutant: the row is filled again.                                        *)
RowEndStays ==
  /\ step = "cell"
  /\ i2 = Len(s2)
  /\ step' = "row"
  /\ UNCHANGED <<s1, s2, t1, t2, i1, i2>>

RowEnd ==
  /\ step = "cell"
  /\ i2 = Len(s2)
  /\ t1' = t2
  /\ t2' = t1
  /\ i1' = i1 + 1
  /\ step' = "row"
  /\ UNCHANGED <<s1, s2, i2>>

(* The rows are filled, and the distance is the last place.                *)
EditEnds == step = "row" /\ i1 = Len(s1)

distance == t1[Len(s2)]

EditStep == RowStart \/ Cell \/ RowEnd

-----------------------------------------------------------------------------
(***************************************************************************)
(* Properties.                                                             *)
(***************************************************************************)

(* The ways to keep characters of a on the way to b: places of a and of b  *)
(* that hold the same character, in the same order.                        *)
Alignments(a, b) ==
  {kept \in SUBSET {p \in (1 .. Len(a)) \X (1 .. Len(b)) : a[p[1]] = b[p[2]]} :
     \A p, q \in kept : p[1] < q[1] <=> p[2] < q[2]}

(* The cheapest way from a to b when a replacement costs a removal and an  *)
(* insertion: keep some characters, remove and insert the rest.            *)
Distance(a, b) ==
  Min({(Len(a) - Cardinality(kept)) * INSERT_COST +
         (Len(b) - Cardinality(kept)) * REMOVE_COST : kept \in Alignments(a, b)})

(* What the two rows leave when they are filled is the edit distance; a    *)
(* row that is read before it is written, or twice, would spoil it.        *)
DistanceIsLeastCost == EditEnds => distance = Distance(s1, s2)

=============================================================================
