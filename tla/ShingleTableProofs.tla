------------------------- MODULE ShingleTableProofs -------------------------
(***************************************************************************)
(* Proofs about the shingle table, for any digests, any hash of them and   *)
(* any size of the table.                                                  *)
(***************************************************************************)
EXTENDS ShingleTable, NaturalFacts, FiniteSetTheorems, TLAPS

-----------------------------------------------------------------------------
(***************************************************************************)
(* Slots and scans.                                                        *)
(***************************************************************************)

(* Of two slots, a scan from h that gets to one leaves the other behind    *)
(* unless they are the same.                                               *)
LEMMA PassedLinear ==
  ASSUME NEW n \in Nat, NEW h \in 0 .. n - 1, NEW x \in 0 .. n - 1, NEW y \in 0 .. n - 1
  PROVE  /\ x \notin Passed(h, x, n)
         /\ Passed(h, x, n) \subseteq 0 .. n - 1
         /\ x = y \/ x \in Passed(h, y, n) \/ y \in Passed(h, x, n)
BY DEF Passed

(* A scan for a slot of S that starts anywhere in the array finds one.     *)
LEMMA ScanFinds ==
  ASSUME NEW n \in Nat, NEW h \in 0 .. n - 1,
         NEW S, S \subseteq 0 .. n - 1, S # {}
  PROVE  \E x \in S : \A y \in Passed(h, x, n) : y \notin S
<1> DEFINE Right == {x \in S : h <= x}
<1>1. CASE Right # {}
  <2>0. Right \subseteq Nat
    <3>1. \A x \in S : x \in Nat
      OBVIOUS
    <3> QED  BY <3>1
  <2>1. PICK x \in Right : \A y \in Right : x <= y
    <3> HIDE DEF Right
    <3> QED  BY <1>1, <2>0, LeastNatural
  <2>2. \A y \in Passed(h, x, n) : y \notin S
    BY <2>1 DEF Passed
  <2> QED  BY <2>1, <2>2
<1>2. CASE Right = {}
  <2>0. S \subseteq Nat
    OBVIOUS
  <2>1. PICK x \in S : \A y \in S : x <= y
    BY <2>0, LeastNatural, Zenon
  <2>2. \A y \in S : y < h
    BY <1>2
  <2>3. \A y \in Passed(h, x, n) : y \notin S
    BY <2>1, <2>2 DEF Passed
  <2> QED  BY <2>3
<1> QED  BY <1>1, <1>2

LEMMA HashInTable ==
  ASSUME NEW d \in Digest, NEW n \in Nat \ {0}
  PROVE  get_hash(d, n) \in 0 .. n - 1
BY TableAssumption DEF get_hash

-----------------------------------------------------------------------------
(***************************************************************************)
(* Tables.                                                                 *)
(***************************************************************************)

TableType(t) ==
  /\ t = [size        |-> t.size,
          slot        |-> t.slot,
          elt_count   |-> t.elt_count,
          index_first |-> t.index_first]
  /\ t.size \in 1 .. MaxSize
  /\ t.slot \in [Index(t) -> Digest \cup {Null}]
  /\ t.elt_count \in 0 .. t.size
  /\ t.index_first \in Index(t) \cup {NoIndex}

Table(t) == TableType(t) /\ Accurate(t)

(* The fields of a table, and NULL is none.                                *)
LEMMA TypeOfTables ==
  ASSUME NEW t
  PROVE  /\ TableType(t) => t \in Tables
         /\ TableType(t) => t # Null
<1>1. ASSUME TableType(t) PROVE t \in Tables
  <2>1. t \in [size        : {t.size},
              slot        : [0 .. t.size - 1 -> Digest \cup {Null}],
              elt_count   : 0 .. t.size,
              index_first : (0 .. t.size - 1) \cup {NoIndex}]
    BY <1>1 DEF TableType, Index
  <2> QED  BY <1>1, <2>1 DEF TableType, Tables
<1> QED  BY <1>1, NullIsNoTable

(* The occupied slots of a table are finitely many, at most its size, and  *)
(* all of them only when the table is full.                                *)
LEMMA OccupiedFinite ==
  ASSUME NEW t, TableType(t)
  PROVE  /\ IsFiniteSet(Occupied(t))
         /\ Cardinality(Occupied(t)) \in 0 .. t.size
         /\ Cardinality(Occupied(t)) = t.size => Occupied(t) = Index(t)
<1>1. t.size \in Nat
  BY TableAssumption DEF TableType
<1>2. IsFiniteSet(Index(t)) /\ Cardinality(Index(t)) = t.size
  BY <1>1, IntervalSize DEF Index
<1>3. Occupied(t) \in SUBSET Index(t)
  BY DEF Occupied
<1>4. /\ IsFiniteSet(Occupied(t))
      /\ Cardinality(Occupied(t)) <= t.size
      /\ t.size = Cardinality(Occupied(t)) => Index(t) = Occupied(t)
  BY <1>2, <1>3, FS_Subset
<1> QED  BY <1>1, <1>4, FS_CardinalityType

(* A new table has no shingles.                                            *)
LEMMA NewTable ==
  ASSUME NEW n \in 1 .. MaxSize
  PROVE  /\ Table(shingle_table_malloc(n))
         /\ shingle_table_malloc(n).size = n
         /\ shingle_table_malloc(n).elt_count = 0
         /\ Occupied(shingle_table_malloc(n)) = {}
<1> DEFINE t == shingle_table_malloc(n)
<1>1. TableType(t) /\ t.size = n /\ t.elt_count = 0 /\ t.index_first = NoIndex
  BY TableAssumption DEF TableType, shingle_table_malloc, Index
<1>2. Occupied(t) = {}
  BY DEF Occupied, shingle_table_malloc, Index
<1>3. Accurate(t)
  BY <1>1, <1>2, FS_EmptySet DEF Accurate
<1> QED  BY <1>1, <1>2, <1>3 DEF Table

(* What Put does to the fields of a table and to its shingles.             *)
LEMMA PutFields ==
  ASSUME NEW t, TableType(t), NEW d \in Digest, NEW k \in Index(t)
  PROVE  LET u == Put(t, d, k)
         IN  /\ u = [size |-> u.size, slot |-> u.slot, elt_count |-> u.elt_count,
                     index_first |-> u.index_first]
             /\ u.size = t.size
             /\ u.slot = [t.slot EXCEPT ![k] = d]
             /\ u.elt_count = t.elt_count + 1
             /\ u.index_first = IF k < t.index_first THEN k ELSE t.index_first
             /\ Index(u) = Index(t)
             /\ Occupied(u) = Occupied(t) \cup {k}
<1> DEFINE u == Put(t, d, k)
<1>1. /\ u = [size |-> u.size, slot |-> u.slot, elt_count |-> u.elt_count,
              index_first |-> u.index_first]
      /\ u.size = t.size
      /\ u.slot = [t.slot EXCEPT ![k] = d]
      /\ u.elt_count = t.elt_count + 1
      /\ u.index_first = IF k < t.index_first THEN k ELSE t.index_first
  BY DEF Put
<1> HIDE DEF u
<1>2. Index(u) = Index(t)
  BY <1>1 DEF Index
<1>3. t.slot \in [Index(t) -> Digest \cup {Null}] /\ d # Null
  BY TableAssumption DEF TableType
<1>4. \A m \in Index(t) : u.slot[m] = IF m = k THEN d ELSE t.slot[m]
  BY <1>1, <1>3
<1>5. Occupied(u) = Occupied(t) \cup {k}
  BY <1>2, <1>3, <1>4 DEF Occupied
<1> QED  BY <1>1, <1>2, <1>5 DEF u

(* Storing a shingle in a free slot makes a table again.                   *)
LEMMA PutTable ==
  ASSUME NEW t, Table(t), NEW d \in Digest, NEW k \in Index(t), t.slot[k] = Null
  PROVE  Table(Put(t, d, k))
<1> DEFINE u == Put(t, d, k)
<1>1. TableType(t) /\ Accurate(t)
  BY DEF Table
<1>2. /\ u = [size |-> u.size, slot |-> u.slot, elt_count |-> u.elt_count,
              index_first |-> u.index_first]
      /\ u.size = t.size
      /\ u.slot = [t.slot EXCEPT ![k] = d]
      /\ u.elt_count = t.elt_count + 1
      /\ u.index_first = IF k < t.index_first THEN k ELSE t.index_first
      /\ Index(u) = Index(t)
      /\ Occupied(u) = Occupied(t) \cup {k}
  BY <1>1, PutFields
<1> HIDE DEF u
<1>3. /\ t.size \in 1 .. MaxSize
      /\ t.slot \in [Index(t) -> Digest \cup {Null}]
      /\ t.elt_count \in 0 .. t.size
      /\ t.index_first \in Index(t) \cup {NoIndex}
      /\ t.size \in Nat /\ NoIndex \in Nat /\ t.size <= NoIndex
  BY <1>1, TableAssumption DEF TableType
<1>4. k \notin Occupied(t) /\ k \in 0 .. t.size - 1
  BY DEF Occupied, Index
<1>5. u.elt_count = Cardinality(Occupied(u)) /\ u.elt_count \in 0 .. t.size
  <2>1. /\ IsFiniteSet(Occupied(t))
        /\ Cardinality(Occupied(t)) \in 0 .. t.size
        /\ Cardinality(Occupied(t)) = t.size => Occupied(t) = Index(t)
    BY <1>1, OccupiedFinite
  <2>2. Cardinality(Occupied(u)) = Cardinality(Occupied(t)) + 1
    BY <1>2, <1>4, <2>1, FS_AddElement
  <2>3. t.elt_count = Cardinality(Occupied(t)) /\ t.elt_count # t.size
    BY <1>1, <1>4, <2>1 DEF Accurate
  <2> QED  BY <1>2, <1>3, <2>2, <2>3
<1>6. TableType(u)
  BY <1>2, <1>3, <1>5 DEF TableType
<1>7. Accurate(u)
  <2>1. CASE Occupied(t) = {}
    <3>1. t.index_first = NoIndex
      BY <1>1, <2>1 DEF Accurate
    <3> QED  BY <1>2, <1>3, <1>4, <1>5, <2>1, <3>1 DEF Accurate
  <2>2. CASE Occupied(t) # {}
    <3>1. /\ t.index_first \in Occupied(t)
          /\ \A x \in Occupied(t) : t.index_first <= x
      BY <1>1, <2>2 DEF Accurate
    <3>2. Occupied(t) \subseteq Nat
      BY DEF Occupied, Index
    <3> QED  BY <1>2, <1>4, <1>5, <3>1, <3>2 DEF Accurate
  <2> QED  BY <2>1, <2>2
<1> QED  BY <1>6, <1>7 DEF Table, u

(* A table that is not empty has a first shingle.                          *)
LEMMA FirstOccupied ==
  ASSUME NEW t, Table(t), ~shingle_table_is_empty(t)
  PROVE  /\ t.index_first \in Occupied(t)
         /\ t.index_first \in Index(t)
         /\ t.slot[t.index_first] \in Digest
         /\ \A x \in Occupied(t) : t.index_first <= x
<1>1. Occupied(t) # {}
  BY FS_EmptySet DEF Table, Accurate, shingle_table_is_empty
<1>2. /\ t.index_first \in Occupied(t)
      /\ \A x \in Occupied(t) : t.index_first <= x
  BY <1>1 DEF Table, Accurate
<1> QED  BY <1>2 DEF Table, TableType, Occupied

(* What Take does to the fields of a table and to its shingles.            *)
LEMMA TakeFields ==
  ASSUME NEW t, Table(t), ~shingle_table_is_empty(t), NEW k
  PROVE  LET u == Take(t, k)
         IN  /\ u = [size |-> u.size, slot |-> u.slot, elt_count |-> u.elt_count,
                     index_first |-> u.index_first]
             /\ u.size = t.size
             /\ u.slot = [t.slot EXCEPT ![t.index_first] = Null]
             /\ u.slot \in [Index(t) -> Digest \cup {Null}]
             /\ u.elt_count = t.elt_count - 1
             /\ u.index_first = k
             /\ Index(u) = Index(t)
             /\ Occupied(u) = Occupied(t) \ {t.index_first}
             /\ u.elt_count = Cardinality(Occupied(u))
             /\ u.elt_count \in 0 .. t.size
<1> DEFINE u == Take(t, k)
<1>1. /\ u = [size |-> u.size, slot |-> u.slot, elt_count |-> u.elt_count,
              index_first |-> u.index_first]
      /\ u.size = t.size
      /\ u.slot = [t.slot EXCEPT ![t.index_first] = Null]
      /\ u.elt_count = t.elt_count - 1
      /\ u.index_first = k
  BY DEF Take
<1> HIDE DEF u
<1>2. Index(u) = Index(t)
  BY <1>1 DEF Index
<1>3. /\ t.slot \in [Index(t) -> Digest \cup {Null}]
      /\ t.index_first \in Index(t)
      /\ t.index_first \in Occupied(t)
  BY FirstOccupied DEF Table, TableType
<1>4. u.slot \in [Index(t) -> Digest \cup {Null}]
  BY <1>1, <1>3
<1>5. \A m \in Index(t) : u.slot[m] = IF m = t.index_first THEN Null ELSE t.slot[m]
  BY <1>1, <1>3
<1>6. Occupied(u) = Occupied(t) \ {t.index_first}
  BY <1>2, <1>5 DEF Occupied
<1>7. IsFiniteSet(Occupied(t)) /\ Cardinality(Occupied(t)) = t.elt_count
  BY OccupiedFinite DEF Table, Accurate
<1>8. Cardinality(Occupied(u)) = t.elt_count - 1
  BY <1>3, <1>6, <1>7, FS_RemoveElement
<1>9. t.elt_count - 1 \in 0 .. t.size
  BY TableAssumption DEF Table, TableType, shingle_table_is_empty
<1> QED  BY <1>1, <1>2, <1>4, <1>6, <1>8, <1>9 DEF u

(* Taking out the only shingle leaves an empty table.                      *)
LEMMA TakeLast ==
  ASSUME NEW t, Table(t), t.elt_count = 1
  PROVE  Table(Take(t, NoIndex))
<1> DEFINE u == Take(t, NoIndex)
<1>1. ~shingle_table_is_empty(t)
  BY DEF shingle_table_is_empty
<1>2. /\ u = [size |-> u.size, slot |-> u.slot, elt_count |-> u.elt_count,
              index_first |-> u.index_first]
      /\ u.size = t.size
      /\ u.slot \in [Index(t) -> Digest \cup {Null}]
      /\ u.elt_count = t.elt_count - 1
      /\ u.index_first = NoIndex
      /\ Index(u) = Index(t)
      /\ Occupied(u) = Occupied(t) \ {t.index_first}
      /\ u.elt_count = Cardinality(Occupied(u))
      /\ u.elt_count \in 0 .. t.size
  BY <1>1, TakeFields
<1> HIDE DEF u
<1>3. Occupied(u) = {}
  <2>1. IsFiniteSet(Occupied(t))
    BY OccupiedFinite DEF Table
  <2>2. IsFiniteSet(Occupied(u))
    BY <1>2, <2>1, FS_RemoveElement
  <2> QED  BY <1>2, <2>2, FS_EmptySet
<1>4. TableType(u)
  BY <1>2 DEF Table, TableType
<1>5. Accurate(u)
  BY <1>2, <1>3 DEF Accurate
<1> QED  BY <1>4, <1>5 DEF Table, u

(* The scan for the next shingle ends at the lowest one that is left.      *)
LEMMA TakeNext ==
  ASSUME NEW t, Table(t), ~shingle_table_is_empty(t),
         NEW k \in Index(t), NextFirst(t, k)
  PROVE  Table(Take(t, k))
<1> DEFINE u == Take(t, k)
           f == t.index_first
           Left == Occupied(t) \ {f}
<1>1. /\ u = [size |-> u.size, slot |-> u.slot, elt_count |-> u.elt_count,
              index_first |-> u.index_first]
      /\ u.size = t.size
      /\ u.slot \in [Index(t) -> Digest \cup {Null}]
      /\ u.index_first = k
      /\ Index(u) = Index(t)
      /\ Occupied(u) = Left
      /\ u.elt_count = Cardinality(Occupied(u))
      /\ u.elt_count \in 0 .. t.size
  BY TakeFields
<1>2. /\ f \in Index(t)
      /\ \A x \in Occupied(t) : f <= x
  BY FirstOccupied
<1>3. Index(t) = 0 .. t.size - 1 /\ t.size \in Nat \ {0} /\ Left \subseteq Index(t)
  BY TableAssumption DEF Index, Table, TableType, Occupied
<1>4. k \in Left /\ \A x \in Passed((f + 1) % t.size, k, t.size) : x \notin Left
  BY DEF NextFirst
<1> HIDE DEF u, f, Left
<1>5. \A x \in Left : f < x
  BY <1>2, <1>3 DEF Left, f
<1>6. f + 1 \in 0 .. t.size - 1
  BY <1>2, <1>3, <1>4, <1>5
<1>7. (f + 1) % t.size = f + 1
  BY <1>2, <1>3, <1>6
<1>8. ASSUME NEW x \in Left PROVE k <= x
  <2>1. f + 1 <= x /\ f + 1 <= k
    BY <1>2, <1>3, <1>4, <1>5
  <2>2. x \notin f + 1 .. k - 1
    BY <1>4, <1>7, <2>1 DEF Passed
  <2> QED  BY <1>2, <1>3, <1>4, <2>1, <2>2
<1>9. TableType(u)
  BY <1>1 DEF Table, TableType
<1>10. Accurate(u)
  BY <1>1, <1>4, <1>8 DEF Accurate
<1> QED  BY <1>9, <1>10 DEF Table, u

(* remove_first leaves a table without its first shingle, which it returns.*)
LEMMA RemoveTable ==
  ASSUME NEW t, Table(t), NEW u, NEW d, RemoveFirst(t, u, d)
  PROVE  /\ Table(u)
         /\ u.size = t.size
         /\ u.elt_count = t.elt_count - 1
         /\ Index(u) = Index(t)
         /\ t.index_first \in Occupied(t)
         /\ d \in Digest
         /\ d = t.slot[t.index_first]
         /\ u.slot = [t.slot EXCEPT ![t.index_first] = Null]
         /\ Occupied(u) = Occupied(t) \ {t.index_first}
<1>1. ~shingle_table_is_empty(t) /\ d = t.slot[t.index_first]
  BY DEF RemoveFirst
<1>2. t.index_first \in Occupied(t) /\ d \in Digest
  BY <1>1, FirstOccupied
<1>3. CASE t.elt_count = 1 /\ u = Take(t, NoIndex)
  BY <1>1, <1>2, <1>3, TakeLast, TakeFields
<1>4. CASE t.elt_count # 1 /\ \E k \in Index(t) : NextFirst(t, k) /\ u = Take(t, k)
  BY <1>1, <1>2, <1>4, TakeNext, TakeFields
<1> QED  BY <1>3, <1>4 DEF RemoveFirst

(* insert leaves a table, the same one or one with the shingle in the slot *)
(* its probe has ended at.                                                 *)
LEMMA InsertTable ==
  ASSUME NEW t, Table(t), NEW d \in Digest, NEW u, NEW code, Insert(t, d, u, code)
  PROVE  /\ Table(u)
         /\ u.size = t.size
         /\ Index(u) = Index(t)
         /\ code \in InsertCodes
         /\ \/ u = t
            \/ /\ u.elt_count = t.elt_count + 1
               /\ code = "SUCCESSFUL_INSERT"
               /\ \E k \in Index(t) :
                    /\ ProbeEnds(t, d, k)
                    /\ t.slot[k] = Null
                    /\ u.slot = [t.slot EXCEPT ![k] = d]
                    /\ Occupied(u) = Occupied(t) \cup {k}
<1>1. CASE u = t /\ code \in InsertCodes
  BY <1>1
<1>2. ASSUME NEW k \in Index(t), ProbeEnds(t, d, k), t.slot[k] = Null,
             u = Put(t, d, k), code = "SUCCESSFUL_INSERT"
      PROVE  /\ Table(u) /\ u.size = t.size /\ Index(u) = Index(t)
             /\ u.elt_count = t.elt_count + 1
             /\ u.slot = [t.slot EXCEPT ![k] = d]
             /\ Occupied(u) = Occupied(t) \cup {k}
  BY <1>2, PutTable, PutFields DEF Table
<1> QED  BY <1>1, <1>2 DEF Insert, InsertCodes

-----------------------------------------------------------------------------
(***************************************************************************)
(* The invariants.                                                         *)
(***************************************************************************)

(* The type invariant and the agreement of counter, first index and slots  *)
(* are inductive together: the counter alone says that a scan will end,    *)
(* and the first index alone where the next shingle is.                    *)
TableInv ==
  /\ Table(table)
  /\ new_table # Null => Table(new_table)
  /\ ret \in RetCodes
  /\ shingle \in Digest \cup {Null}

LEMMA TableInvInit == TableInit => TableInv
<1> SUFFICES ASSUME TableInit PROVE TableInv
  OBVIOUS
<1>1. InitialSize \in 1 .. MaxSize
  BY TableAssumption
<1>2. Table(table)
  BY <1>1, NewTable DEF TableInit
<1> QED  BY <1>2 DEF TableInit, TableInv, RetCodes

LEMMA TableInvNext == TableInv /\ [TableNext]_tableVars => TableInv'
<1> SUFFICES ASSUME TableInv, [TableNext]_tableVars PROVE TableInv'
  OBVIOUS
<1>0. Table(table) /\ ret \in RetCodes /\ shingle \in Digest \cup {Null}
  BY DEF TableInv
<1>1. ASSUME NEW d \in Digest, shingle_table_insert(d) PROVE TableInv'
  <2>1. Insert(table, d, table', ret')
    BY <1>1 DEF shingle_table_insert
  <2>2. Table(table') /\ ret' \in RetCodes
    BY <1>0, <2>1, InsertTable DEF RetCodes
  <2> QED  BY <1>1, <2>2 DEF shingle_table_insert, TableInv, Expanding
<1>2. CASE shingle_table_remove_first
  <2>1. CASE shingle_table_is_empty(table) /\ UNCHANGED <<table, shingle>> /\ ret' = "ERROR_REMOVE"
    BY <1>0, <1>2, <2>1 DEF shingle_table_remove_first, TableInv, Expanding, RetCodes
  <2>2. CASE RemoveFirst(table, table', shingle') /\ ret' = "SUCCESSFUL_REMOVE"
    <3>1. Table(table') /\ shingle' \in Digest
      BY <1>0, <2>2, RemoveTable
    <3> QED  BY <1>2, <2>2, <3>1 DEF shingle_table_remove_first, TableInv, Expanding, RetCodes
  <2> QED  BY <1>2, <2>1, <2>2 DEF shingle_table_remove_first
<1>3. CASE ExpandBegin
  <2>1. 2 * table.size \in 1 .. MaxSize
    BY <1>0, <1>3, TableAssumption DEF ExpandBegin, Table, TableType
  <2>2. Table(new_table')
    BY <1>3, <2>1, NewTable DEF ExpandBegin
  <2> QED  BY <1>0, <1>3, <2>2 DEF ExpandBegin, TableInv
<1>4. CASE ExpandFails
  BY <1>0, <1>4 DEF ExpandFails, TableInv, Expanding, RetCodes
<1>5. CASE ExpandMove
  <2>1. PICK d \in Digest, code \in InsertCodes :
          RemoveFirst(table, table', d) /\ Insert(new_table, d, new_table', code)
    BY <1>5 DEF ExpandMove
  <2>2. Table(new_table)
    BY <1>5 DEF ExpandMove, Expanding, TableInv
  <2>3. Table(table')
    BY <1>0, <2>1, RemoveTable
  <2>4. Table(new_table')
    BY <2>1, <2>2, InsertTable
  <2> QED  BY <1>0, <1>5, <2>3, <2>4 DEF ExpandMove, TableInv
<1>6. CASE ExpandEnd
  <2>1. Table(new_table)
    BY <1>6 DEF ExpandEnd, Expanding, TableInv
  <2> QED  BY <1>0, <1>6, <2>1 DEF ExpandEnd, TableInv, RetCodes
<1>7. CASE UNCHANGED tableVars
  BY <1>7 DEF tableVars, TableInv
<1> QED  BY <1>1, <1>2, <1>3, <1>4, <1>5, <1>6, <1>7 DEF TableNext

(* The invariant holds of every client of the header.                      *)
THEOREM TableInvariant == TableSpec => []TableInv
<1>1. TableInit => TableInv
  BY TableInvInit
<1>2. TableInv /\ [TableNext]_tableVars => TableInv'
  BY TableInvNext
<1> QED  BY <1>1, <1>2, PTL DEF TableSpec

(* Every state of the table is well typed: no index leaves its array.      *)
THEOREM TableTypeCorrect == TableSpec => []TableTypeOK
<1>1. TableInv => TableTypeOK
  BY TypeOfTables DEF TableInv, Table, TableTypeOK
<1> QED  BY <1>1, TableInvariant, PTL

(* elt_count and index_first agree with the slots after any sequence of    *)
(* operations, in the table and in the one expand_size fills.              *)
THEOREM TableIsAccurate == TableSpec => []TableAccurate
<1>1. TableInv => TableAccurate
  BY DEF TableInv, Table, TableAccurate
<1> QED  BY <1>1, TableInvariant, PTL

(* In a table with accurate fields the two scans of the code find a slot.  *)
LEMMA TableScansEnd ==
  ASSUME NEW t, Table(t)
  PROVE  /\ ~shingle_table_is_full(t) =>
              \A d \in Digest : \E k \in Index(t) : ProbeEnds(t, d, k)
         /\ t.elt_count > 1 => \E k \in Index(t) : NextFirst(t, k)
<1>1. Index(t) = 0 .. t.size - 1 /\ t.size \in Nat \ {0} /\ Occupied(t) \subseteq Index(t)
  BY TableAssumption DEF Index, Table, TableType, Occupied
<1>2. ASSUME ~shingle_table_is_full(t), NEW d \in Digest
      PROVE  \E k \in Index(t) : ProbeEnds(t, d, k)
  <2> DEFINE S == {k \in Index(t) : t.slot[k] \in {Null, d}}
             h == get_hash(d, t.size)
  <2>1. Occupied(t) # Index(t)
    <3>1. Cardinality(Index(t)) = t.size
      BY <1>1, IntervalSize
    <3> QED  BY <1>2, <3>1 DEF Table, Accurate, shingle_table_is_full
  <2>2. S # {} /\ S \subseteq 0 .. t.size - 1
    BY <1>1, <2>1 DEF Occupied
  <2>3. h \in 0 .. t.size - 1
    BY <1>1, HashInTable
  <2>4. PICK k \in S : \A y \in Passed(h, k, t.size) : y \notin S
    <3> HIDE DEF S, h
    <3> QED  BY <1>1, <2>2, <2>3, ScanFinds
  <2>5. Passed(h, k, t.size) \subseteq Index(t)
    <3> HIDE DEF h
    <3> QED  BY <1>1, <2>2, <2>3, PassedLinear
  <2>6. ProbeEnds(t, d, k)
    BY <2>4, <2>5 DEF ProbeEnds
  <2> QED  BY <2>6
<1>3. ASSUME t.elt_count > 1 PROVE \E k \in Index(t) : NextFirst(t, k)
  <2> DEFINE S == Occupied(t) \ {t.index_first}
             h == (t.index_first + 1) % t.size
  <2>1. S # {}
    <3>1. Cardinality({t.index_first}) = 1 /\ Cardinality({}) = 0
      BY FS_Singleton, FS_EmptySet
    <3>2. Cardinality(Occupied(t)) > 1
      BY <1>3 DEF Table, Accurate
    <3>3. S = {} => Occupied(t) = {} \/ Occupied(t) = {t.index_first}
      OBVIOUS
    <3> QED  BY <3>1, <3>2, <3>3
  <2>2. t.index_first \in Index(t)
    BY <1>3, FirstOccupied DEF shingle_table_is_empty
  <2>3. h \in 0 .. t.size - 1
    BY <1>1, <2>2
  <2>4. S \subseteq 0 .. t.size - 1
    BY <1>1
  <2>5. \E k \in S : \A y \in Passed(h, k, t.size) : y \notin S
    <3> HIDE DEF S, h
    <3> QED  BY <1>1, <2>1, <2>3, <2>4, ScanFinds
  <2> QED  BY <1>1, <2>5 DEF NextFirst
<1> QED  BY <1>2, <1>3

(* Neither the probe of insert nor the scan of remove_first, loops with no *)
(* bound in the code, can go round for ever, whatever the client did.      *)
THEOREM TableScansAlwaysEnd == TableSpec => []ScansEnd
<1>1. TableInv => ScansEnd
  BY TableScansEnd DEF TableInv, ScansEnd
<1> QED  BY <1>1, TableInvariant, PTL

-----------------------------------------------------------------------------
(***************************************************************************)
(* The shingles of a table, and what growing it does to them.              *)
(***************************************************************************)

(* remove_first takes one shingle out of the contents and adds none.       *)
LEMMA RemoveContents ==
  ASSUME NEW t, Table(t), NEW u, NEW d, RemoveFirst(t, u, d)
  PROVE  /\ Contents(t) = Contents(u) \cup {d}
         /\ OneSlotEach(t) => OneSlotEach(u) /\ d \notin Contents(u)
<1> DEFINE f == t.index_first
<1>1. /\ f \in Occupied(t)
      /\ d = t.slot[f]
      /\ u.slot = [t.slot EXCEPT ![f] = Null]
      /\ Occupied(u) = Occupied(t) \ {f}
      /\ t.slot \in [Index(t) -> Digest \cup {Null}]
      /\ Occupied(t) \subseteq Index(t)
  BY RemoveTable DEF Table, TableType, Occupied
<1> HIDE DEF f
<1>2. \A k \in Occupied(u) : u.slot[k] = t.slot[k]
  BY <1>1
<1>3. Contents(t) = Contents(u) \cup {d}
  BY <1>1, <1>2 DEF Contents
<1>4. ASSUME OneSlotEach(t) PROVE OneSlotEach(u) /\ d \notin Contents(u)
  BY <1>1, <1>2, <1>4 DEF OneSlotEach, Contents
<1> QED  BY <1>3, <1>4

(* A table that is not full has the shingle after insert, unless malloc    *)
(* has failed.                                                             *)
LEMMA InsertContents ==
  ASSUME NEW t, Table(t), NEW d \in Digest, NEW u, NEW code, Insert(t, d, u, code)
  PROVE  /\ u = t \/ Contents(u) = Contents(t) \cup {d}
         /\ ~MallocFails /\ ~shingle_table_is_full(t) =>
              /\ Contents(u) = Contents(t) \cup {d}
              /\ code \in {"NO_INSERT", "SUCCESSFUL_INSERT"}
<1>1. ASSUME NEW k \in Index(t), t.slot[k] = Null,
             u.slot = [t.slot EXCEPT ![k] = d],
             Occupied(u) = Occupied(t) \cup {k}
      PROVE  Contents(u) = Contents(t) \cup {d}
  <2>1. t.slot \in [Index(t) -> Digest \cup {Null}]
    BY DEF Table, TableType
  <2>2. u.slot[k] = d /\ \A m \in Occupied(t) : u.slot[m] = t.slot[m]
    BY <1>1, <2>1 DEF Occupied
  <2> QED  BY <1>1, <2>2 DEF Contents
<1>2. \/ u = t
      \/ \E k \in Index(t) : /\ t.slot[k] = Null
                            /\ u.slot = [t.slot EXCEPT ![k] = d]
                            /\ Occupied(u) = Occupied(t) \cup {k}
  BY InsertTable
<1>3. u = t \/ Contents(u) = Contents(t) \cup {d}
  BY <1>1, <1>2
<1>4. ASSUME ~MallocFails, ~shingle_table_is_full(t)
      PROVE  /\ Contents(u) = Contents(t) \cup {d}
             /\ code \in {"NO_INSERT", "SUCCESSFUL_INSERT"}
  <2>1. PICK k \in Index(t) :
          \/ t.slot[k] = d /\ u = t /\ code = "NO_INSERT"
          \/ t.slot[k] = Null /\ u = Put(t, d, k) /\ code = "SUCCESSFUL_INSERT"
    BY <1>4 DEF Insert
  <2>2. CASE t.slot[k] = d /\ u = t
    <3>1. d # Null
      BY TableAssumption
    <3> QED  BY <2>1, <2>2, <3>1 DEF Contents, Occupied
  <2>3. CASE t.slot[k] = Null /\ u = Put(t, d, k)
    <3>1. u.slot = [t.slot EXCEPT ![k] = d] /\ Occupied(u) = Occupied(t) \cup {k}
      BY <2>3, PutFields DEF Table
    <3> QED  BY <1>1, <2>1, <2>3, <3>1
  <2> QED  BY <2>1, <2>2, <2>3
<1> QED  BY <1>3, <1>4

(* While expand_size runs, the new table is twice the old one and the two  *)
(* together hold no more than the old one can: there is room for the rest. *)
MoveInv ==
  new_table # Null =>
    /\ new_table.size = 2 * table.size
    /\ table.elt_count + new_table.elt_count <= table.size

LEMMA RoomInNewTable ==
  ASSUME TableInv, MoveInv, new_table # Null
  PROVE  ~shingle_table_is_full(new_table)
BY TableAssumption DEF TableInv, MoveInv, Table, TableType, shingle_table_is_full

LEMMA MoveStep ==
  ASSUME TableInv, MoveInv, ExpandMove
  PROVE  /\ MoveInv'
         /\ new_table' # Null
         /\ ~MallocFails => Stored' = Stored
<1>1. Table(table) /\ Table(new_table) /\ new_table # Null
  BY DEF TableInv, ExpandMove, Expanding
<1>2. PICK d \in Digest, code \in InsertCodes :
        RemoveFirst(table, table', d) /\ Insert(new_table, d, new_table', code)
  BY DEF ExpandMove
<1>3. /\ table'.size = table.size
      /\ table'.elt_count = table.elt_count - 1
      /\ Contents(table) = Contents(table') \cup {d}
  BY <1>1, <1>2, RemoveTable, RemoveContents
<1>4. /\ Table(new_table')
      /\ new_table'.size = new_table.size
      /\ new_table' = new_table \/ new_table'.elt_count = new_table.elt_count + 1
  BY <1>1, <1>2, InsertTable
<1>5. new_table' # Null
  BY <1>4, TypeOfTables DEF Table
<1>6. MoveInv'
  <2>1. table.elt_count \in Nat /\ new_table.elt_count \in Nat /\ table.size \in Nat
    BY <1>1, TableAssumption DEF Table, TableType
  <2> QED  BY <1>1, <1>3, <1>4, <2>1 DEF MoveInv
<1>7. ASSUME ~MallocFails PROVE Stored' = Stored
  <2>1. Contents(new_table') = Contents(new_table) \cup {d}
    BY <1>1, <1>2, <1>7, RoomInNewTable, InsertContents
  <2> QED  BY <1>1, <1>3, <1>5, <2>1 DEF Stored
<1> QED  BY <1>5, <1>6, <1>7

LEMMA ExpandBeginStep ==
  ASSUME TableInv, ExpandBegin
  PROVE  MoveInv' /\ Stored' = Stored
<1>1. Table(table) /\ new_table = Null /\ table' = table
  BY DEF TableInv, ExpandBegin, Expanding
<1>2. 2 * table.size \in 1 .. MaxSize /\ table.elt_count \in 0 .. table.size
  BY <1>1, TableAssumption DEF Table, TableType, ExpandBegin
<1>3. /\ new_table'.size = 2 * table.size
      /\ new_table'.elt_count = 0
      /\ Occupied(new_table') = {}
  BY <1>2, NewTable DEF ExpandBegin
<1>4. Contents(new_table') = {}
  BY <1>3 DEF Contents
<1> QED  BY <1>1, <1>2, <1>3, <1>4 DEF MoveInv, Stored

LEMMA ExpandEndStep ==
  ASSUME TableInv, ExpandEnd
  PROVE  MoveInv' /\ Stored' = Stored
<1>1. /\ Table(table) /\ table.elt_count = 0
      /\ new_table # Null /\ table' = new_table /\ new_table' = Null
  BY DEF TableInv, ExpandEnd, Expanding, shingle_table_is_empty
<1>2. Contents(table) = {}
  <2>1. Occupied(table) = {}
    BY <1>1, OccupiedFinite, FS_EmptySet DEF Table, Accurate
  <2> QED  BY <2>1 DEF Contents
<1> QED  BY <1>1, <1>2 DEF MoveInv, Stored

LEMMA MoveInvNext == TableInv /\ MoveInv /\ [TableNext]_tableVars => MoveInv'
<1> SUFFICES ASSUME TableInv, MoveInv, [TableNext]_tableVars PROVE MoveInv'
  OBVIOUS
<1>1. CASE UNCHANGED new_table /\ ~Expanding
  BY <1>1 DEF MoveInv, Expanding
<1>2. CASE UNCHANGED tableVars
  BY <1>2 DEF MoveInv, tableVars
<1> QED
  BY <1>1, <1>2, MoveStep, ExpandBeginStep, ExpandEndStep
  DEF TableNext, shingle_table_insert, shingle_table_remove_first, ExpandFails

(* When malloc grants what it is asked for, growing the table loses no     *)
(* shingle: the codes of the insertions that expand_size does not look at  *)
(* never report one.                                                       *)
THEOREM ExpansionKeepsShingles ==
  ASSUME ~MallocFails
  PROVE  TableSpec => ExpandKeepsShingles
<1>1. TableInit => TableInv /\ MoveInv
  BY TableInvInit DEF TableInit, MoveInv
<1>2. TableInv /\ MoveInv /\ [TableNext]_tableVars => (TableInv /\ MoveInv)'
  BY TableInvNext, MoveInvNext
<1>3. TableInv /\ MoveInv /\ [TableNext]_tableVars
        => [new_table # Null \/ new_table' # Null => Stored' = Stored]_tableVars
  BY MoveStep, ExpandBeginStep, ExpandEndStep
  DEF TableNext, shingle_table_insert, shingle_table_remove_first, ExpandFails, Expanding
<1> QED  BY <1>1, <1>2, <1>3, PTL DEF TableSpec, ExpandKeepsShingles

=============================================================================
