--------------------------- MODULE SimHashProofs ----------------------------
(***************************************************************************)
(* Proofs about simhash_compute, for any executables, any MD5 and any hash *)
(* of the digests.                                                         *)
(***************************************************************************)
EXTENDS SimHash, ShingleTableProofs

-----------------------------------------------------------------------------
(***************************************************************************)
(* A table that is filled and never taken from.                            *)
(***************************************************************************)

(* The probe for a stored digest meets no free slot before it gets there:  *)
(* what insert relies on when it stops at the first free slot.             *)
Chained(t) ==
  \A k \in Occupied(t) :
    \A m \in Passed(get_hash(t.slot[k], t.size), k, t.size) : t.slot[m] # Null

LEMMA NewTableChained ==
  ASSUME NEW n \in 1 .. MaxSize
  PROVE  OneSlotEach(shingle_table_malloc(n)) /\ Chained(shingle_table_malloc(n))
BY NewTable DEF OneSlotEach, Chained

(* In such a table insert finds a digest that is there already, so that    *)
(* the table stays a set.                                                  *)
LEMMA InsertChained ==
  ASSUME NEW t, Table(t), Chained(t), OneSlotEach(t),
         NEW d \in Digest, NEW u, NEW code, Insert(t, d, u, code)
  PROVE  /\ Chained(u) /\ OneSlotEach(u)
         /\ code = "SUCCESSFUL_INSERT" =>
              d \notin Contents(t) /\ Contents(u) = Contents(t) \cup {d}
         /\ code # "SUCCESSFUL_INSERT" => u = t
         /\ code = "NO_INSERT" => d \in Contents(t)
<1>1. /\ Index(t) = 0 .. t.size - 1
      /\ t.size \in Nat \ {0}
      /\ t.slot \in [Index(t) -> Digest \cup {Null}]
      /\ d # Null
  BY TableAssumption DEF Table, TableType, Index
<1>2. get_hash(d, t.size) \in 0 .. t.size - 1
  BY <1>1, HashInTable
<1>3. CASE u = t /\ code \in {"ERROR_TABLE_FULL_INSERT", "ERROR_INSERT"}
  BY <1>3
<1>4. ASSUME NEW k \in Index(t), t.slot[k] = d, u = t, code = "NO_INSERT"
      PROVE  d \in Contents(t)
  BY <1>1, <1>4 DEF Contents, Occupied
<1>5. ASSUME NEW k \in Index(t), ProbeEnds(t, d, k), t.slot[k] = Null,
             u = Put(t, d, k), code = "SUCCESSFUL_INSERT"
      PROVE  /\ Chained(u) /\ OneSlotEach(u)
             /\ d \notin Contents(t)
             /\ Contents(u) = Contents(t) \cup {d}
  <2>1. /\ u.size = t.size
        /\ u.slot = [t.slot EXCEPT ![k] = d]
        /\ Index(u) = Index(t)
        /\ Occupied(u) = Occupied(t) \cup {k}
    BY <1>5, PutFields DEF Table
  <2>2. u.slot[k] = d /\ \A m \in Index(t) \ {k} : u.slot[m] = t.slot[m]
    BY <1>1, <2>1
  <2>3. \A m \in Passed(get_hash(d, t.size), k, t.size) : m \in Index(t) /\ t.slot[m] \notin {Null, d}
    BY <1>1, <1>2, <1>5, PassedLinear DEF ProbeEnds
  <2>4. ASSUME NEW m \in Occupied(t), t.slot[m] = d PROVE FALSE
    <3>1. m \in Index(t) /\ m # k
      BY <1>5, <2>4 DEF Occupied
    <3>2. \/ m \in Passed(get_hash(d, t.size), k, t.size)
          \/ k \in Passed(get_hash(d, t.size), m, t.size)
      BY <1>1, <1>2, <3>1, PassedLinear
    <3> QED  BY <1>5, <2>3, <2>4, <3>2 DEF Chained
  <2>5. d \notin Contents(t)
    BY <2>4 DEF Contents
  <2>6. \A m \in Occupied(t) : m # k /\ m \in Index(t) /\ u.slot[m] = t.slot[m]
    BY <1>5, <2>2 DEF Occupied
  <2>7. Contents(u) = Contents(t) \cup {d}
    BY <2>1, <2>2, <2>6 DEF Contents
  <2>8. OneSlotEach(u)
    BY <2>1, <2>2, <2>4, <2>6 DEF OneSlotEach
  <2>9. \A m \in Index(t) : t.slot[m] # Null => u.slot[m] # Null
    BY <1>1, <2>2
  <2>10. ASSUME NEW m \in Occupied(u),
                NEW p \in Passed(get_hash(u.slot[m], u.size), m, u.size)
         PROVE  u.slot[p] # Null
    <3>1. CASE m = k
      BY <2>1, <2>2, <2>3, <2>9, <2>10, <3>1
    <3>2. CASE m # k
      <4>1. m \in Occupied(t) /\ u.slot[m] = t.slot[m] /\ t.slot[m] \in Digest
        BY <1>1, <2>1, <2>6, <3>2 DEF Occupied
      <4>2. get_hash(t.slot[m], t.size) \in 0 .. t.size - 1
        BY <1>1, <4>1, HashInTable
      <4>3. p \in Passed(get_hash(t.slot[m], t.size), m, t.size)
        BY <2>1, <2>10, <4>1
      <4>4. p \in Index(t)
        BY <1>1, <2>6, <4>1, <4>2, <4>3, PassedLinear
      <4> QED  BY <2>9, <4>1, <4>3, <4>4 DEF Chained
    <3> QED  BY <3>1, <3>2
  <2>11. Chained(u)
    BY <2>10 DEF Chained
  <2> QED  BY <2>5, <2>7, <2>8, <2>11
<1>6. \/ u = t /\ code \in {"ERROR_TABLE_FULL_INSERT", "ERROR_INSERT"}
      \/ \E k \in Index(t) : t.slot[k] = d /\ u = t /\ code = "NO_INSERT"
      \/ \E k \in Index(t) : /\ ProbeEnds(t, d, k)
                            /\ t.slot[k] = Null
                            /\ u = Put(t, d, k)
                            /\ code = "SUCCESSFUL_INSERT"
  BY DEF Insert
<1> QED  BY <1>3, <1>4, <1>5, <1>6

-----------------------------------------------------------------------------
(***************************************************************************)
(* The invariant of the scan.                                              *)
(***************************************************************************)

(* The table expand_size fills is chained like any other; the old one, of  *)
(* which it takes the shingles, is not, and need not be: nothing is        *)
(* inserted in it.                                                         *)
TablesInv ==
  /\ HasTable => Table(table)
  /\ new_table # Null => pc = "expand" /\ Table(new_table)
  /\ MoveInv
  /\ Filling /\ new_table = Null => Chained(table)
  /\ new_table # Null => Chained(new_table)
  /\ pc \in {"expand", "reinsert"} => AtWindow
  /\ pc = "start" => i = 0 /\ j = 0

SimHashInv == TypeOK /\ TablesInv /\ VotesOnce /\ RoomAfterExpand

(* TableInv is what is left of the invariant when there is a table.        *)
LEMMA TableInvWhenTable ==
  ASSUME SimHashInv, HasTable
  PROVE  TableInv /\ MoveInv
BY DEF SimHashInv, TypeOK, TablesInv, TableInv

LEMMA CurrentDigest ==
  ASSUME TypeOK, data # Null, AtWindow
  PROVE  Current \in Digest
<1>1. /\ data \in Data /\ i \in Section /\ j \in Nat
  BY SimHashAssumption DEF TypeOK, AtWindow, Section
<1>2. /\ data[i].len \in Nat
      /\ data[i].md5 \in [0 .. data[i].len - 1 -> Digest]
      /\ SHINGLE_SIZE[i] \in Nat
  BY <1>1, SimHashAssumption
<1>3. j \in 0 .. data[i].len - 1
  BY <1>1, <1>2 DEF AtWindow, WindowCount
<1> QED  BY <1>2, <1>3 DEF Current

LEMMA SimHashInit == Init => SimHashInv
<1> SUFFICES ASSUME Init PROVE SimHashInv
  OBVIOUS
<1>1. TypeOK
  BY SimHashAssumption DEF Init, TypeOK, HasTable, Filling, RetCodes
<1>2. TablesInv /\ VotesOnce /\ RoomAfterExpand
  BY DEF Init, TablesInv, MoveInv, VotesOnce, RoomAfterExpand, HasTable, Filling
<1> QED  BY <1>1, <1>2 DEF SimHashInv

(* The tables after an insertion in table, as the scan makes them.         *)
LEMMA InsertStep ==
  ASSUME SimHashInv, pc \in {"scan", "reinsert"}, AtWindow, new_table' = new_table,
         NEW code, Insert(table, Current, table', code)
  PROVE  /\ Table(table') /\ Chained(table') /\ OneSlotEach(table')
         /\ new_table = Null
         /\ code \in RetCodes
<1>1. TypeOK /\ TablesInv /\ VotesOnce /\ HasTable /\ Filling /\ new_table = Null
  BY DEF SimHashInv, TablesInv, HasTable, Filling
<1>2. Current \in Digest
  BY <1>1, CurrentDigest DEF TypeOK
<1>3. Table(table) /\ Chained(table) /\ OneSlotEach(table)
  BY <1>1 DEF TablesInv, VotesOnce
<1> QED  BY <1>1, <1>2, <1>3, InsertTable, InsertChained DEF RetCodes

LEMMA TypeNext == SimHashInv /\ [Next]_vars => TypeOK'
<1> SUFFICES ASSUME SimHashInv, [Next]_vars PROVE TypeOK'
  OBVIOUS
<1>0. TypeOK /\ TablesInv
  BY DEF SimHashInv
<1>1. CASE Start
  <2>1. Table(shingle_table_malloc(InitialSize))
    BY NewTable, TableAssumption
  <2>2. shingle_table_malloc(InitialSize) \in Tables
    BY <2>1, TypeOfTables DEF Table
  <2> QED  BY <1>0, <1>1, <2>2 DEF Start, TypeOK, HasTable, Filling
<1>2. CASE ScanWindow
  <2>1. Table(table') /\ ret' \in RetCodes
    BY <1>2, InsertStep DEF ScanWindow
  <2>2. table' \in Tables
    BY <2>1, TypeOfTables DEF Table
  <2> QED  BY <1>0, <1>2, <2>1, <2>2 DEF ScanWindow, TypeOK, HasTable, Filling
<1>3. CASE NextSection
  BY <1>0, <1>3, SimHashAssumption DEF NextSection, TypeOK, HasTable, Filling, tableVars
<1>4. CASE Expand
  <2>1. TableInv
    BY <1>4, TableInvWhenTable DEF Expand, HasTable, Filling
  <2>2. TableInv'
    BY <1>4, <2>1, TableInvNext DEF Expand, TableNext
  <2>3. table' \in Tables /\ (new_table' # Null => new_table' \in Tables)
    BY <2>2, TypeOfTables DEF TableInv, Table
  <2>4. ret' \in RetCodes /\ shingle' \in Digest \cup {Null}
    BY <2>2 DEF TableInv
  <2>5. pc' \in {"expand", "err_f_table", "reinsert"} /\ (new_table' # Null => pc' = "expand")
    BY <1>4 DEF Expand, ExpandBegin, ExpandFails, ExpandMove, ExpandEnd, Expanding
  <2> QED  BY <1>0, <1>4, <2>3, <2>4, <2>5 DEF Expand, TypeOK, HasTable, Filling, scanVars
<1>5. CASE ErrFTable
  <2>1. new_table = Null
    BY <1>0, <1>5 DEF ErrFTable, TablesInv
  <2> QED  BY <1>0, <1>5, <2>1 DEF ErrFTable, TypeOK, HasTable, Filling
<1>6. CASE Reinsert
  <2>0. AtWindow
    BY <1>0, <1>6 DEF Reinsert, TablesInv
  <2>1. Table(table') /\ ret' \in RetCodes
    BY <1>6, <2>0, InsertStep DEF Reinsert
  <2>2. table' \in Tables
    BY <2>1, TypeOfTables DEF Table
  <2> QED  BY <1>0, <1>6, <2>1, <2>2 DEF Reinsert, TypeOK, HasTable, Filling
<1>7. CASE ScanEnds
  BY <1>0, <1>7 DEF ScanEnds, TypeOK, HasTable, Filling, tableVars
<1>8. CASE Drain
  <2>1. Table(table)
    BY <1>0, <1>8 DEF Drain, TablesInv, HasTable
  <2>2. Table(table') /\ shingle' \in Digest
    BY <1>8, <2>1, RemoveTable DEF Drain
  <2>3. table' \in Tables
    BY <2>2, TypeOfTables DEF Table
  <2>4. tmp_hash' \in [Bit -> Int]
    BY <1>0, <1>8 DEF Drain, Vote, TypeOK
  <2> QED  BY <1>0, <1>8, <2>2, <2>3, <2>4 DEF Drain, TypeOK, HasTable, Filling, RetCodes
<1>9. CASE WriteHash
  <2>1. new_table = Null
    BY <1>0, <1>9 DEF WriteHash, TablesInv
  <2> QED  BY <1>0, <1>9, <2>1 DEF WriteHash, TypeOK, HasTable, Filling
<1>10. CASE simhash_to_string
  BY <1>0, <1>10 DEF simhash_to_string, TypeOK, HasTable, Filling, tableVars
<1>11. CASE UNCHANGED vars
  BY <1>0, <1>11 DEF vars, tableVars, scanVars, TypeOK, HasTable, Filling
<1> QED
  BY <1>1, <1>2, <1>3, <1>4, <1>5, <1>6, <1>7, <1>8, <1>9, <1>10, <1>11 DEF Next, Done

(* Moving a shingle keeps the new table chained and the two tables apart.  *)
LEMMA MoveKeepsApart ==
  ASSUME SimHashInv, pc = "expand", ExpandMove
  PROVE  /\ OneSlotEach(table') /\ OneSlotEach(new_table')
         /\ Chained(new_table')
         /\ Contents(table') \cap Contents(new_table') = {}
<1>1. /\ Table(table) /\ Table(new_table) /\ Chained(new_table)
      /\ OneSlotEach(table) /\ OneSlotEach(new_table)
      /\ Contents(table) \cap Contents(new_table) = {}
  BY DEF SimHashInv, TablesInv, VotesOnce, HasTable, Filling, ExpandMove, Expanding
<1>2. PICK d \in Digest, code \in InsertCodes :
        RemoveFirst(table, table', d) /\ Insert(new_table, d, new_table', code)
  BY DEF ExpandMove
<1>3. /\ Contents(table) = Contents(table') \cup {d}
      /\ OneSlotEach(table')
      /\ d \notin Contents(table')
  BY <1>1, <1>2, RemoveContents
<1>4. /\ Chained(new_table') /\ OneSlotEach(new_table')
      /\ Contents(new_table') \subseteq Contents(new_table) \cup {d}
  BY <1>1, <1>2, InsertChained, InsertContents
<1> QED  BY <1>1, <1>3, <1>4

LEMMA TablesNext ==
  SimHashInv /\ [Next]_vars => (TablesInv /\ VotesOnce /\ RoomAfterExpand)'
<1> SUFFICES ASSUME SimHashInv, [Next]_vars
             PROVE  (TablesInv /\ VotesOnce /\ RoomAfterExpand)'
  OBVIOUS
<1>0. TypeOK /\ TablesInv /\ VotesOnce /\ RoomAfterExpand
  BY DEF SimHashInv
<1> USE DEF HasTable, Filling
<1>1. CASE Start
  <2>1. /\ Table(shingle_table_malloc(InitialSize))
        /\ OneSlotEach(shingle_table_malloc(InitialSize))
        /\ Chained(shingle_table_malloc(InitialSize))
    BY NewTable, NewTableChained, TableAssumption
  <2>2. new_table = Null /\ new_table' = Null
    BY <1>0, <1>1 DEF Start, TablesInv
  <2> QED  BY <1>1, <2>1, <2>2 DEF Start, TablesInv, MoveInv, VotesOnce, RoomAfterExpand
<1>2. CASE ScanWindow
  <2>1. Table(table') /\ Chained(table') /\ OneSlotEach(table') /\ new_table = Null
    BY <1>2, InsertStep DEF ScanWindow
  <2>2. pc' = "expand" => AtWindow'
    BY <1>2 DEF ScanWindow, AtWindow, WindowCount
  <2> QED  BY <1>2, <2>1, <2>2 DEF ScanWindow, TablesInv, MoveInv, VotesOnce, RoomAfterExpand
<1>3. CASE NextSection
  BY <1>0, <1>3 DEF NextSection, tableVars, TablesInv, MoveInv, VotesOnce, RoomAfterExpand
<1>4. CASE Expand
  <2>0. pc = "expand" /\ AtWindow /\ AtWindow'
    BY <1>0, <1>4 DEF Expand, TablesInv, AtWindow, WindowCount, scanVars
  <2>1. TableInv /\ MoveInv /\ TableInv' /\ MoveInv'
    BY <1>4, TableInvWhenTable, TableInvNext, MoveInvNext DEF Expand, TableNext
  <2>2. Table(table') /\ (new_table' # Null => Table(new_table'))
    BY <2>1 DEF TableInv
  <2>3. new_table' # Null => ~shingle_table_is_full(new_table')
    BY <2>1, <2>2, TableAssumption DEF MoveInv, Table, TableType, shingle_table_is_full
  <2>4. CASE ExpandBegin /\ pc' = pc
    <3>1. 2 * table.size \in 1 .. MaxSize
      BY <1>0, <2>0, <2>4, TableAssumption DEF ExpandBegin, TablesInv, Table, TableType
    <3>2. /\ OneSlotEach(new_table') /\ Chained(new_table')
          /\ Contents(new_table') = {}
      BY <2>4, <3>1, NewTable, NewTableChained DEF ExpandBegin, Contents
    <3>3. new_table' # Null
      BY <2>4, <3>1, NewTable, TypeOfTables DEF ExpandBegin, Table
    <3> QED
      BY <1>0, <2>0, <2>1, <2>2, <2>3, <2>4, <3>2, <3>3
      DEF ExpandBegin, TablesInv, VotesOnce, RoomAfterExpand
  <2>5. CASE ExpandFails /\ pc' = "err_f_table"
    BY <1>0, <2>0, <2>1, <2>2, <2>5
    DEF ExpandFails, Expanding, TablesInv, VotesOnce, RoomAfterExpand
  <2>6. CASE ExpandMove /\ pc' = pc
    <3>1. new_table' # Null
      BY <2>1, <2>6, MoveStep
    <3> QED
      BY <2>0, <2>1, <2>2, <2>3, <2>6, <3>1, MoveKeepsApart
      DEF TablesInv, VotesOnce, RoomAfterExpand
  <2>7. CASE ExpandEnd /\ pc' = "reinsert"
    <3>1. new_table # Null /\ table' = new_table /\ new_table' = Null
      BY <2>7 DEF ExpandEnd, Expanding
    <3>2. Chained(table') /\ OneSlotEach(table') /\ ~shingle_table_is_full(table')
      BY <1>0, <2>0, <3>1 DEF TablesInv, VotesOnce, RoomAfterExpand
    <3> QED
      BY <2>0, <2>1, <2>2, <2>7, <3>1, <3>2 DEF TablesInv, VotesOnce, RoomAfterExpand
  <2> QED  BY <1>4, <2>4, <2>5, <2>6, <2>7 DEF Expand
<1>5. CASE ErrFTable
  BY <1>0, <1>5 DEF ErrFTable, TablesInv, MoveInv, VotesOnce, RoomAfterExpand
<1>6. CASE Reinsert
  <2>0. AtWindow
    BY <1>0, <1>6 DEF Reinsert, TablesInv
  <2>1. Table(table') /\ Chained(table') /\ OneSlotEach(table') /\ new_table = Null
    BY <1>6, <2>0, InsertStep DEF Reinsert
  <2> QED  BY <1>6, <2>1 DEF Reinsert, TablesInv, MoveInv, VotesOnce, RoomAfterExpand
<1>7. CASE ScanEnds
  BY <1>0, <1>7 DEF ScanEnds, tableVars, TablesInv, MoveInv, VotesOnce, RoomAfterExpand
<1>8. CASE Drain
  <2>1. Table(table) /\ OneSlotEach(table) /\ new_table = Null
    BY <1>0, <1>8 DEF Drain, TablesInv, VotesOnce
  <2>2. Table(table') /\ OneSlotEach(table')
    BY <1>8, <2>1, RemoveTable, RemoveContents DEF Drain
  <2> QED  BY <1>8, <2>1, <2>2 DEF Drain, TablesInv, MoveInv, VotesOnce, RoomAfterExpand
<1>9. CASE WriteHash
  BY <1>0, <1>9 DEF WriteHash, TablesInv, MoveInv, VotesOnce, RoomAfterExpand
<1>10. CASE simhash_to_string
  BY <1>0, <1>10 DEF simhash_to_string, tableVars, TablesInv, MoveInv, VotesOnce, RoomAfterExpand
<1>11. CASE UNCHANGED vars
  BY <1>0, <1>11 DEF vars, tableVars, scanVars, TablesInv, MoveInv, VotesOnce, RoomAfterExpand,
    AtWindow, WindowCount
<1> QED
  BY <1>1, <1>2, <1>3, <1>4, <1>5, <1>6, <1>7, <1>8, <1>9, <1>10, <1>11 DEF Next, Done

(* The invariant of the scan holds in every execution, whatever malloc     *)
(* does.                                                                   *)
THEOREM SimHashInvariant == Spec => []SimHashInv
<1>1. Init => SimHashInv
  BY SimHashInit
<1>2. SimHashInv /\ [Next]_vars => SimHashInv'
  BY TypeNext, TablesNext DEF SimHashInv
<1> QED  BY <1>1, <1>2, PTL DEF Spec

(* simhash_compute keeps its tables well typed.                            *)
THEOREM SimHashTypeCorrect == Spec => []TypeOK
BY SimHashInvariant, PTL DEF SimHashInv

(* A digest is in one slot only, of the old or of the new table: it will   *)
(* vote once.                                                              *)
THEOREM DigestsVoteOnce == Spec => []VotesOnce
BY SimHashInvariant, PTL DEF SimHashInv

(* The insertions whose code the program drops never meet a full table.    *)
THEOREM ExpansionMakesRoom == Spec => []RoomAfterExpand
BY SimHashInvariant, PTL DEF SimHashInv

-----------------------------------------------------------------------------
(***************************************************************************)
(* The block of the hash.                                                  *)
(***************************************************************************)

(* The block is there from Start to the text, and only an expansion that   *)
(* fails leaves its code behind, as it ends the scan.                      *)
BlockInv ==
  /\ pc = "start" => final_hash = Null
  /\ Filling \/ pc \in {"drain", "string"} => final_hash # Null
  /\ pc \notin {"err_f_table", "done"} => ret # "ERROR_EXPAND"
  /\ pc = "err_f_table" => final_hash # Null /\ ret = "ERROR_EXPAND"
  /\ pc = "done" => (final_hash # Null <=> ret = "ERROR_EXPAND")

LEMMA BlockInvNext ==
  ASSUME TypeOK, BlockInv, [Next]_vars
  PROVE  BlockInv'
<1> USE DEF BlockInv, Filling
<1>1. CASE Start
  BY <1>1, NullIsNoHash DEF Start
<1>2. CASE ScanWindow
  BY <1>2 DEF ScanWindow, Insert
<1>3. CASE NextSection
  BY <1>3 DEF NextSection, tableVars
<1>4. CASE Expand
  BY <1>4
  DEF Expand, ExpandBegin, ExpandFails, ExpandMove, ExpandEnd, scanVars
<1>5. CASE ErrFTable
  BY <1>5 DEF ErrFTable
<1>6. CASE Reinsert
  BY <1>6 DEF Reinsert, Insert
<1>7. CASE ScanEnds
  BY <1>7 DEF ScanEnds, tableVars
<1>8. CASE Drain
  BY <1>8 DEF Drain
<1>9. CASE WriteHash
  <2>1. {b \in Bit : tmp_hash[b] > 0} # Null
    BY NullIsNoHash
  <2> QED  BY <1>9, <2>1 DEF WriteHash
<1>10. CASE simhash_to_string
  BY <1>10 DEF simhash_to_string, tableVars
<1>11. CASE UNCHANGED vars
  BY <1>11 DEF vars, tableVars, scanVars
<1> QED
  BY <1>1, <1>2, <1>3, <1>4, <1>5, <1>6, <1>7, <1>8, <1>9, <1>10, <1>11 DEF Next, Done

(* Whichever malloc fails, the tables are freed in the end, and the block  *)
(* of the hash is lost just when an expansion has failed (simhash.c:75).   *)
THEOREM LeakNeedsExpandError == Spec => []LeakOnlyOnExpandError
<1>1. Init => BlockInv
  BY DEF Init, BlockInv, Filling
<1>2. TypeOK /\ BlockInv /\ [Next]_vars => BlockInv'
  BY BlockInvNext
<1>3. TypeOK /\ BlockInv => LeakOnlyOnExpandError
  BY DEF TypeOK, BlockInv, LeakOnlyOnExpandError, HasTable, Filling
<1> QED  BY <1>1, <1>2, <1>3, SimHashTypeCorrect, PTL DEF Spec

-----------------------------------------------------------------------------
(***************************************************************************)
(* What the scan stores.                                                   *)
(***************************************************************************)

(* When the scan passes a window, its digest is seen; a section with no    *)
(* window left adds none.                                                  *)
LEMMA SeenAfterWindow ==
  ASSUME TypeOK, data # Null, AtWindow, data' = data, i' = i, j' = j + 1
  PROVE  Seen' = Seen \cup {Current}
<1>1. i \in Section /\ j \in Nat /\ i \in Int
  BY SimHashAssumption DEF TypeOK, AtWindow, Section
<1>2. \A s : WindowCount(s)' = WindowCount(s)
  BY DEF WindowCount
<1>3. \A s, k : k \in Nat => (Before(s, k)' <=> Before(s, k) \/ (s = i /\ k = j))
  BY <1>1 DEF Before
<1>4. WindowCount(i) \in Nat /\ j \in 0 .. WindowCount(i) - 1
  <2>1. data[i].len \in Nat /\ SHINGLE_SIZE[i] \in Nat
    BY <1>1, SimHashAssumption DEF TypeOK
  <2> QED  BY <1>1, <2>1 DEF AtWindow, WindowCount
<1>5. Current \in Digest
  BY CurrentDigest
<1>6. ASSUME NEW d \in Digest
      PROVE  (\E s \in Section : \E o \in 0 .. WindowCount(s) - 1 :
                Before(s, o)' /\ data[s].md5[o] = d)
             <=> (d = Current \/ d \in Seen)
  BY <1>1, <1>3, <1>4 DEF Seen, Current
<1> QED  BY <1>2, <1>5, <1>6 DEF Seen

LEMMA SeenAfterSection ==
  ASSUME TypeOK, data # Null, i < SECTION_END, ~AtWindow,
         data' = data, i' = i + 1, j' = 0
  PROVE  Seen' = Seen
<1>1. i \in Section /\ j \in Nat /\ i \in Int /\ Section \subseteq Int
  BY SimHashAssumption DEF TypeOK, Section
<1>2. \A s : WindowCount(s)' = WindowCount(s)
  BY DEF WindowCount
<1>3. WindowCount(i) \in Nat /\ WindowCount(i) <= j
  <2>1. data[i].len \in Nat /\ SHINGLE_SIZE[i] \in Nat
    BY <1>1, SimHashAssumption DEF TypeOK
  <2> QED  BY <1>1, <2>1 DEF AtWindow, WindowCount
<1>4. ASSUME NEW s \in Section, NEW k \in 0 .. WindowCount(s) - 1
      PROVE  Before(s, k)' <=> Before(s, k)
  BY <1>1, <1>3 DEF Before
<1> QED  BY <1>2, <1>4 DEF Seen

(* At the start nothing is seen, and at the end every window.              *)
LEMMA SeenAtEnds ==
  ASSUME TypeOK, data # Null
  PROVE  /\ i = 0 /\ j = 0 => Seen = {}
         /\ i = SECTION_END => Seen = Shingles
<1>1. \A s \in Section : s \in Int /\ 0 <= s /\ s < SECTION_END
  BY SimHashAssumption DEF Section
<1>2. ASSUME i = 0, j = 0 PROVE Seen = {}
  <2>1. \A s \in Section : \A k \in Nat : ~Before(s, k)
    BY <1>1, <1>2 DEF Before
  <2>2. \A s \in Section : WindowCount(s) \in Nat
    <3>1. \A s \in Section : data[s].len \in Nat /\ SHINGLE_SIZE[s] \in Nat
      BY SimHashAssumption DEF TypeOK
    <3> QED  BY <3>1 DEF WindowCount
  <2>3. \A s \in Section : \A k \in 0 .. WindowCount(s) - 1 : ~Before(s, k)
    BY <2>1, <2>2
  <2> QED  BY <2>3 DEF Seen
<1>3. ASSUME i = SECTION_END PROVE Seen = Shingles
  BY <1>1, <1>3 DEF Seen, Shingles, Before
<1> QED  BY <1>2, <1>3

(* With a malloc that grants what it is asked for, the scan stores every   *)
(* digest it passes.                                                       *)
ScanInv == SimHashInv /\ ScanComplete

LEMMA ScanCompleteNext ==
  ASSUME ~MallocFails, SimHashInv, ScanComplete, [Next]_vars
  PROVE  ScanComplete'
<1>0. TypeOK /\ TablesInv /\ RoomAfterExpand /\ (Filling => data # Null)
  BY DEF SimHashInv, TypeOK, HasTable
<1>1. CASE Start
  <2>1. CASE data # Null /\ pc' = "scan" /\ table' = shingle_table_malloc(InitialSize)
    <3>1. Contents(table') = {}
      BY <2>1, NewTable, TableAssumption DEF Contents
    <3>2. new_table' = Null
      BY <1>0, <1>1 DEF Start, TablesInv
    <3>3. Seen' = {}
      <4>1. Seen = {}
        BY <1>0, <1>1, <2>1, SeenAtEnds DEF Start, TablesInv
      <4> QED  BY <1>1, <4>1 DEF Start, Seen, Before, WindowCount
    <3> QED  BY <1>1, <3>1, <3>2, <3>3 DEF ScanComplete, Stored
  <2>2. CASE pc' = "done"
    BY <2>2 DEF ScanComplete, Filling
  <2> QED  BY <1>1, <2>1, <2>2 DEF Start
<1>2. CASE pc \in {"scan", "reinsert"} /\ AtWindow /\ Insert(table, Current, table', ret')
           /\ new_table' = new_table /\ data' = data /\ i' = i /\ j' = j + 1
           /\ ~shingle_table_is_full(table)
  <2>1. Table(table) /\ new_table = Null /\ Current \in Digest
    BY <1>0, <1>2, CurrentDigest DEF TablesInv, HasTable, Filling
  <2>2. Contents(table') = Contents(table) \cup {Current}
    BY <1>2, <2>1, InsertContents
  <2>3. Seen' = Seen \cup {Current}
    BY <1>0, <1>2, SeenAfterWindow DEF Filling
  <2> QED  BY <1>2, <2>1, <2>2, <2>3 DEF ScanComplete, Stored, Filling
<1>3. CASE UNCHANGED <<data, i, j>> /\ Stored' = Stored /\ Filling
  BY <1>3 DEF ScanComplete, Seen, Before, WindowCount
<1>4. CASE ScanWindow
  <2>1. CASE shingle_table_is_full(table)
    <3>1. ret' = "ERROR_TABLE_FULL_INSERT" /\ table' = table
      BY <1>4, <2>1 DEF ScanWindow, Insert
    <3> QED  BY <1>3, <1>4, <3>1 DEF ScanWindow, Stored, Filling
  <2>2. CASE ~shingle_table_is_full(table)
    <3>1. ret' # "ERROR_TABLE_FULL_INSERT"
      BY <1>4, <2>2 DEF ScanWindow, Insert
    <3> QED  BY <1>2, <1>4, <2>2, <3>1 DEF ScanWindow
  <2> QED  BY <2>1, <2>2
<1>5. CASE NextSection
  <2>1. Seen' = Seen /\ Stored' = Stored
    BY <1>0, <1>5, SeenAfterSection DEF NextSection, Filling, tableVars, Stored
  <2> QED  BY <1>5, <2>1 DEF NextSection, ScanComplete, Filling
<1>6. CASE Expand
  <2>1. TableInv /\ MoveInv
    BY <1>6, TableInvWhenTable DEF Expand, HasTable, Filling
  <2>2. Stored' = Stored \/ ~Filling'
    BY <1>6, <2>1, ExpandBeginStep, MoveStep, ExpandEndStep DEF Expand, Filling
  <2> QED  BY <1>3, <1>6, <2>2 DEF Expand, scanVars, Filling, ScanComplete
<1>7. CASE Reinsert
  BY <1>0, <1>2, <1>7 DEF Reinsert, TablesInv, RoomAfterExpand
<1>8. CASE ErrFTable \/ ScanEnds \/ Drain \/ WriteHash \/ simhash_to_string
  BY <1>8 DEF ErrFTable, ScanEnds, Drain, WriteHash, simhash_to_string, ScanComplete, Filling
<1>9. CASE UNCHANGED vars
  BY <1>3, <1>9 DEF vars, tableVars, scanVars, ScanComplete, Filling, Stored
<1> QED
  BY <1>1, <1>4, <1>5, <1>6, <1>7, <1>8, <1>9 DEF Next, Done

(* No window is missed: the table holds exactly the digests of the windows *)
(* already passed, through any number of expansions.                       *)
THEOREM ScanMissesNothing ==
  ASSUME ~MallocFails
  PROVE  Spec => []ScanComplete
<1>1. Init => ScanInv
  BY SimHashInit DEF Init, ScanInv, ScanComplete, Filling
<1>2. ScanInv /\ [Next]_vars => ScanInv'
  BY TypeNext, TablesNext, ScanCompleteNext DEF ScanInv, SimHashInv
<1>3. ScanInv => ScanComplete
  BY DEF ScanInv
<1> QED  BY <1>1, <1>2, <1>3, PTL DEF Spec

-----------------------------------------------------------------------------
(***************************************************************************)
(* The vote.                                                               *)
(***************************************************************************)

(* A table without duplicates holds as many digests as its counter says.   *)
LEMMA ContentsCount ==
  ASSUME NEW t, Table(t)
  PROVE  /\ IsFiniteSet(Contents(t))
         /\ OneSlotEach(t) => Cardinality(Contents(t)) = t.elt_count
         /\ t.elt_count = 0 => Contents(t) = {}
<1> DEFINE f == [k \in Occupied(t) |-> t.slot[k]]
<1>1. /\ IsFiniteSet(Occupied(t))
      /\ Cardinality(Occupied(t)) = t.elt_count
      /\ t.elt_count = 0 => Occupied(t) = {}
  BY OccupiedFinite, FS_EmptySet DEF Table, Accurate
<1>2. f \in Surjection(Occupied(t), Contents(t))
  BY DEF Surjection, Contents
<1>3. OneSlotEach(t) => f \in Injection(Occupied(t), Contents(t))
  BY <1>2 DEF OneSlotEach, Injection, Surjection, IsInjective
<1> HIDE DEF f
<1>4. /\ IsFiniteSet(Contents(t))
      /\ Cardinality(Contents(t)) = Cardinality(Occupied(t))
           <=> f \in Injection(Occupied(t), Contents(t))
  BY <1>1, <1>2, FS_Surjection
<1>5. t.elt_count = 0 => Contents(t) = {}
  BY <1>1 DEF Contents
<1> QED  BY <1>1, <1>3, <1>4, <1>5

(* The votes for bit b of the digests in S, less those against it.         *)
For(b, S) == {d \in S : b \in BitsOf[d]}

Score(b, S) == 2 * Cardinality(For(b, S)) - Cardinality(S)

LEMMA ScoreAdd ==
  ASSUME NEW S, IsFiniteSet(S), NEW d, d \notin S, NEW b
  PROVE  /\ Score(b, S) \in Int
         /\ Score(b, S \cup {d}) = Score(b, S) + IF b \in BitsOf[d] THEN 1 ELSE -1
<1>1. IsFiniteSet(For(b, S))
  BY FS_Subset DEF For
<1>2. Cardinality(S) \in Nat /\ Cardinality(For(b, S)) \in Nat
  BY <1>1, FS_CardinalityType
<1>3. Cardinality(S \cup {d}) = Cardinality(S) + 1
  BY FS_AddElement
<1>4. CASE b \in BitsOf[d]
  <2>1. For(b, S \cup {d}) = For(b, S) \cup {d} /\ d \notin For(b, S)
    BY <1>4 DEF For
  <2>2. Cardinality(For(b, S \cup {d})) = Cardinality(For(b, S)) + 1
    BY <1>1, <2>1, FS_AddElement
  <2> QED  BY <1>2, <1>3, <1>4, <2>2 DEF Score
<1>5. CASE b \notin BitsOf[d]
  <2>1. For(b, S \cup {d}) = For(b, S)
    BY <1>5 DEF For
  <2> QED  BY <1>2, <1>3, <1>5, <2>1 DEF Score
<1> QED  BY <1>4, <1>5

(* While the table is emptied, the votes counted are those of the digests  *)
(* already taken out.                                                      *)
VoteInv ==
  /\ pc = "drain" => /\ IsFiniteSet(Shingles)
                     /\ Contents(table) \subseteq Shingles
                     /\ \A b \in Bit : tmp_hash[b] = Score(b, Shingles \ Contents(table))
  /\ pc = "string" => final_hash = Majority(Shingles)
  /\ result # Null => pc = "done" /\ result = Majority(Shingles)

LEMMA VoteNext ==
  ASSUME ~MallocFails, ScanInv, VoteInv, [Next]_vars
  PROVE  VoteInv'
<1>0. TypeOK /\ TablesInv /\ VotesOnce /\ ScanComplete
  BY DEF ScanInv, SimHashInv
<1>1. ASSUME data' = data PROVE Shingles' = Shingles /\ Majority(Shingles)' = Majority(Shingles)
  BY <1>1 DEF Shingles, Majority, WindowCount
<1>2. CASE Start \/ ScanWindow \/ NextSection \/ Expand \/ ErrFTable \/ Reinsert
  <2>1. pc' \notin {"drain", "string"} /\ result' = Null
    BY <1>2
    DEF VoteInv, Start, ScanWindow, NextSection, Expand, ErrFTable, Reinsert, scanVars
  <2> QED  BY <2>1 DEF VoteInv
<1>3. CASE ScanEnds
  <2>1. Table(table) /\ Contents(table) = Shingles
    <3>1. Seen = Shingles
      BY <1>0, <1>3, SeenAtEnds DEF ScanEnds, TypeOK, HasTable, Filling
    <3> QED  BY <1>0, <1>3, <3>1 DEF ScanEnds, ScanComplete, Stored, TablesInv, HasTable, Filling
  <2>2. IsFiniteSet(Shingles)
    BY <2>1, ContentsCount
  <2>3. \A b : Score(b, {}) = 0
    <3>1. \A b : For(b, {}) = {}
      BY DEF For
    <3> QED  BY <3>1, FS_EmptySet DEF Score
  <2>4. Shingles \ Contents(table) = {} /\ table' = table
    BY <1>3, <2>1 DEF ScanEnds, tableVars
  <2>5. \A b \in Bit : tmp_hash'[b] = Score(b, Shingles \ Contents(table'))
    BY <1>3, <2>3, <2>4 DEF ScanEnds
  <2> QED
    <3>1. Shingles' = Shingles /\ pc' = "drain" /\ result' = Null
      BY <1>1, <1>3 DEF ScanEnds, VoteInv
    <3> QED  BY <2>1, <2>2, <2>4, <2>5, <3>1 DEF VoteInv
<1>4. CASE Drain
  <2> DEFINE T == Shingles \ Contents(table)
             d == shingle'
  <2>1. /\ Table(table) /\ OneSlotEach(table) /\ IsFiniteSet(Shingles)
        /\ Contents(table) \subseteq Shingles
        /\ \A b \in Bit : tmp_hash[b] = Score(b, T)
    BY <1>0, <1>4 DEF Drain, TablesInv, VotesOnce, VoteInv, HasTable
  <2>2. Contents(table) = Contents(table') \cup {d} /\ d \notin Contents(table')
    BY <1>4, <2>1, RemoveContents DEF Drain
  <2>3. Shingles \ Contents(table') = T \cup {d} /\ d \notin T /\ IsFiniteSet(T)
    BY <2>1, <2>2, FS_Subset
  <2>4. tmp_hash' = [b \in Bit |-> tmp_hash[b] + IF b \in BitsOf[d] THEN 1 ELSE -1]
    BY <1>4 DEF Drain, Vote
  <2> HIDE DEF T, d
  <2>5. \A b \in Bit : tmp_hash'[b] = Score(b, T \cup {d})
    <3> SUFFICES ASSUME NEW b \in Bit PROVE tmp_hash'[b] = Score(b, T \cup {d})
      OBVIOUS
    <3>1. Score(b, T \cup {d}) = Score(b, T) + IF b \in BitsOf[d] THEN 1 ELSE -1
      BY <2>3, ScoreAdd
    <3> QED  BY <2>1, <2>4, <3>1
  <2>6. Shingles' = Shingles /\ pc' = "drain" /\ result' = Null
    BY <1>1, <1>4 DEF Drain, VoteInv
  <2> QED  BY <2>1, <2>2, <2>3, <2>5, <2>6 DEF VoteInv
<1>5. CASE WriteHash
  <2>1. Contents(table) = {}
    BY <1>0, <1>5, ContentsCount DEF WriteHash, TablesInv, HasTable, shingle_table_is_empty
  <2>2. IsFiniteSet(Shingles) /\ \A b \in Bit : tmp_hash[b] = Score(b, Shingles)
    BY <1>5, <2>1 DEF WriteHash, VoteInv
  <2>3. Cardinality(Shingles) \in Nat /\ \A b : Cardinality(For(b, Shingles)) \in Nat
    <3>1. \A b : IsFiniteSet(For(b, Shingles))
      BY <2>2, FS_Subset DEF For
    <3> QED  BY <2>2, <3>1, FS_CardinalityType
  <2>4. \A b \in Bit : tmp_hash[b] > 0
           <=> 2 * Cardinality(For(b, Shingles)) > Cardinality(Shingles)
    BY <2>2, <2>3 DEF Score
  <2>5. final_hash' = Majority(Shingles)
    BY <1>5, <2>4 DEF WriteHash, Majority, For
  <2>6. Shingles' = Shingles /\ Majority(Shingles)' = Majority(Shingles)
        /\ pc' = "string" /\ result' = Null
    BY <1>1, <1>5 DEF WriteHash, VoteInv
  <2> QED  BY <2>5, <2>6 DEF VoteInv
<1>6. CASE simhash_to_string
  <2>1. Majority(Shingles)' = Majority(Shingles) /\ pc' = "done"
    BY <1>1, <1>6 DEF simhash_to_string
  <2>2. result' = Majority(Shingles)
    BY <1>6 DEF simhash_to_string, VoteInv
  <2> QED  BY <2>1, <2>2 DEF VoteInv
<1>7. CASE UNCHANGED vars
  <2>1. Shingles' = Shingles /\ Majority(Shingles)' = Majority(Shingles)
    BY <1>1, <1>7 DEF vars, scanVars
  <2> QED  BY <1>7, <2>1 DEF vars, scanVars, tableVars, VoteInv
<1> QED  BY <1>2, <1>3, <1>4, <1>5, <1>6, <1>7 DEF Next, Done

(* The hash simhash_compute returns has the bits that more than half of    *)
(* the distinct windows have.                                              *)
THEOREM HashIsTheMajority ==
  ASSUME ~MallocFails
  PROVE  Spec => []HashIsMajority
<1>1. Init => ScanInv /\ VoteInv
  BY SimHashInit DEF Init, ScanInv, ScanComplete, Filling, VoteInv
<1>2. ScanInv /\ VoteInv /\ [Next]_vars => (ScanInv /\ VoteInv)'
  BY TypeNext, TablesNext, ScanCompleteNext, VoteNext DEF ScanInv, SimHashInv
<1>3. VoteInv => HashIsMajority
  BY DEF VoteInv, HashIsMajority
<1> QED  BY <1>1, <1>2, <1>3, PTL DEF Spec

-----------------------------------------------------------------------------
(***************************************************************************)
(* Refinement: the table is the set its header promises.                   *)
(***************************************************************************)

LEMMA InsertImplementsSet ==
  ASSUME ~MallocFails, SimHashInv, pc \in {"scan", "reinsert"}, AtWindow,
         Insert(table, Current, table', ret'), HasTable',
         new_table' = new_table, shingle' = shingle
  PROVE  ShingleSet!SetNext
<1>1. /\ HasTable /\ new_table = Null
      /\ Table(table) /\ Chained(table) /\ OneSlotEach(table)
      /\ Current \in Digest
  BY CurrentDigest DEF SimHashInv, TypeOK, TablesInv, VotesOnce, HasTable, Filling
<1>2. Stored = Contents(table) /\ Stored' = Contents(table')
  BY <1>1 DEF Stored
<1>3. ShingleSet!IsFull <=> shingle_table_is_full(table)
  <2>1. \A S : ShingleSet!Cardinality(S) = Cardinality(S)
    BY DEF ShingleSet!Cardinality, Cardinality
  <2> QED  BY <1>1, <1>2, <2>1, ContentsCount DEF ShingleSet!IsFull, shingle_table_is_full
<1>4. table'.size = table.size
  BY <1>1, InsertTable
<1>5. CASE shingle_table_is_full(table)
  <2>1. table' = table /\ ret' = "ERROR_TABLE_FULL_INSERT"
    BY <1>5 DEF Insert
  <2>2. ShingleSet!InsertFull
    BY <1>1, <1>2, <1>3, <1>5, <2>1 DEF ShingleSet!InsertFull
  <2> QED  BY <2>2 DEF ShingleSet!SetNext
<1>6. CASE ~shingle_table_is_full(table) /\ ret' = "NO_INSERT"
  <2>1. table' = table /\ Current \in Contents(table)
    BY <1>1, <1>6, InsertChained
  <2>2. ShingleSet!InsertPresent(Current)
    BY <1>1, <1>2, <1>3, <1>6, <2>1 DEF ShingleSet!InsertPresent
  <2> QED  BY <1>1, <2>2 DEF ShingleSet!SetNext
<1>7. CASE ~shingle_table_is_full(table) /\ ret' = "SUCCESSFUL_INSERT"
  <2>1. Current \notin Contents(table) /\ Contents(table') = Contents(table) \cup {Current}
    BY <1>1, <1>7, InsertChained
  <2>2. ShingleSet!InsertNew(Current)
    BY <1>1, <1>2, <1>3, <1>4, <1>7, <2>1 DEF ShingleSet!InsertNew
  <2> QED  BY <1>1, <2>2 DEF ShingleSet!SetNext
<1> QED  BY <1>1, <1>5, <1>6, <1>7, InsertContents

(* Every step of simhash_compute is a step of the set or leaves it alone:  *)
(* the rounds that move the shingles do, and the set has grown when the    *)
(* new table takes the place of the old one.                               *)
LEMMA StepImplementsSet ==
  ASSUME ~MallocFails, SimHashInv, [Next]_vars
  PROVE  [ShingleSet!SetNext]_(ShingleSet!setVars)
<1> USE DEF HasTable, Filling
<1>0. TypeOK /\ TablesInv /\ VotesOnce
  BY DEF SimHashInv
<1>1. CASE Start
  <2>1. CASE table' = shingle_table_malloc(InitialSize) /\ pc' = "scan"
    <3>1. table'.size = InitialSize /\ Contents(table') = {}
      BY <2>1, NewTable, TableAssumption DEF Contents
    <3>2. new_table' = Null
      BY <1>0, <1>1 DEF Start, TablesInv
    <3> QED  BY <1>1, <2>1, <3>1, <3>2 DEF Start, Stored, ShingleSet!setVars
  <2>2. CASE pc' = "done"
    BY <1>1, <2>2 DEF Start, ShingleSet!setVars
  <2> QED  BY <1>1, <2>1, <2>2 DEF Start
<1>2. CASE ScanWindow
  BY <1>2, InsertImplementsSet DEF ScanWindow
<1>3. CASE NextSection
  BY <1>3 DEF NextSection, tableVars, Stored, ShingleSet!setVars
<1>4. CASE Expand
  <2>1. TableInv /\ MoveInv
    BY <1>4, TableInvWhenTable DEF Expand
  <2>2. CASE ExpandBegin /\ pc' = pc
    BY <1>4, <2>1, <2>2, ExpandBeginStep DEF Expand, ExpandBegin, ShingleSet!setVars
  <2>3. CASE ExpandFails /\ pc' = "err_f_table"
    <3>1. ShingleSet!GrowFails
      BY <1>4, <2>3 DEF Expand, ExpandFails, Stored, ShingleSet!GrowFails
    <3> QED  BY <3>1 DEF ShingleSet!SetNext
  <2>4. CASE ExpandMove /\ pc' = pc
    <3>1. table'.size = table.size
      BY <2>1, <2>4, RemoveTable DEF ExpandMove, TableInv
    <3> QED  BY <1>4, <2>1, <2>4, <3>1, MoveStep DEF Expand, ExpandMove, ShingleSet!setVars
  <2>5. CASE ExpandEnd /\ pc' = "reinsert"
    <3>1. table'.size = 2 * table.size
      BY <2>1, <2>5 DEF ExpandEnd, Expanding, MoveInv
    <3>2. ShingleSet!Grow
      BY <1>4, <2>1, <2>5, <3>1, ExpandEndStep DEF Expand, ExpandEnd, ShingleSet!Grow
    <3> QED  BY <3>2 DEF ShingleSet!SetNext
  <2> QED  BY <1>4, <2>2, <2>3, <2>4, <2>5 DEF Expand
<1>5. CASE ErrFTable
  <2>1. ShingleSet!Free
    BY <1>5 DEF ErrFTable, ShingleSet!Free
  <2> QED  BY <2>1 DEF ShingleSet!SetNext
<1>6. CASE Reinsert
  BY <1>0, <1>6, InsertImplementsSet DEF Reinsert, TablesInv
<1>7. CASE ScanEnds
  BY <1>7 DEF ScanEnds, tableVars, Stored, ShingleSet!setVars
<1>8. CASE Drain
  <2>1. Table(table) /\ OneSlotEach(table) /\ new_table = Null
    BY <1>0, <1>8 DEF Drain, TablesInv, VotesOnce
  <2>2. /\ Contents(table) = Contents(table') \cup {shingle'}
        /\ shingle' \notin Contents(table')
        /\ shingle' \in Digest
        /\ table'.size = table.size
    BY <1>8, <2>1, RemoveTable, RemoveContents DEF Drain
  <2>3. Stored = Contents(table) /\ Stored' = Contents(table')
    BY <1>8, <2>1 DEF Drain, Stored
  <2>4. ShingleSet!RemoveSome(shingle')
    BY <1>8, <2>2, <2>3 DEF Drain, ShingleSet!RemoveSome
  <2> QED  BY <2>2, <2>4 DEF ShingleSet!SetNext
<1>9. CASE WriteHash
  <2>1. ShingleSet!Free
    BY <1>9 DEF WriteHash, ShingleSet!Free
  <2> QED  BY <2>1 DEF ShingleSet!SetNext
<1>10. CASE simhash_to_string
  BY <1>10 DEF simhash_to_string, tableVars, Stored, ShingleSet!setVars
<1>11. CASE UNCHANGED vars
  BY <1>11 DEF vars, tableVars, Stored, ShingleSet!setVars
<1> QED
  BY <1>1, <1>2, <1>3, <1>4, <1>5, <1>6, <1>7, <1>8, <1>9, <1>10, <1>11 DEF Next, Done

(* For the client the program has, the table implements the set its header *)
(* promises, for any hash of the digests and any size.                     *)
THEOREM TableImplementsSet ==
  ASSUME ~MallocFails
  PROVE  Spec => ImplementsSet
<1>1. Init => ShingleSet!SetInit
  BY DEF Init, ShingleSet!SetInit, HasTable, Filling
<1>2. SimHashInv /\ [Next]_vars => [ShingleSet!SetNext]_(ShingleSet!setVars)
  BY StepImplementsSet
<1> QED  BY <1>1, <1>2, SimHashInvariant, PTL DEF Spec, ImplementsSet, ShingleSet!SetSpec

=============================================================================
