---------------------------- MODULE ShingleTable ----------------------------
(***************************************************************************)
(* The open-addressing hash table of src/shingle_table.c: a slot array     *)
(* probed linearly, a counter of stored shingles and the index of the      *)
(* first one.  The module lets a client call the operations in any order,  *)
(* so what it shows holds for every user of the header; SimHash extends it *)
(* with the one client the program has.                                    *)
(*                                                                         *)
(* A shingle is its MD5 digest: the table never looks at the buffer and    *)
(* its length, it only copies them.  Calls with a NULL table return an     *)
(* error and change nothing, and are left out.                             *)
(*                                                                         *)
(* shingle_table_expand_size is not atomic: it moves the shingles one by   *)
(* one, and every move calls malloc.  Its steps are the actions            *)
(* ExpandBegin, ExpandMove and ExpandEnd, or ExpandFails, and new_table is *)
(* its local.                                                              *)
(***************************************************************************)
EXTENDS Integers, FiniteSets

CONSTANTS
  Digest,       (* The MD5 digests shingles can have.                      *)
  Null,         (* The NULL pointer: an empty slot.                        *)
  ByteProduct,  (* digest -> product of its bytes, modulo 2^64.            *)
  ByteSum,      (* digest -> sum of its bytes.                             *)
  InitialSize,  (* SHINGLE_TABLE_DEFAULT_SIZE.                             *)
  MaxSize,      (* The longest slot array malloc can grant.                *)
  NoIndex,      (* (uint64_t) -1, the index_first of an empty table.       *)
  MallocFails   (* Whether malloc may return NULL before MaxSize.          *)

ASSUME TableAssumption ==
  /\ Null \notin Digest
  /\ ByteProduct \in [Digest -> Nat]
  /\ ByteSum \in [Digest -> Nat]
  /\ InitialSize \in Nat \ {0}
  /\ MaxSize \in Nat
  /\ InitialSize <= MaxSize
  /\ NoIndex \in Nat
  /\ MaxSize <= NoIndex
  /\ MallocFails \in BOOLEAN

(* The tables that can be in memory: a size, an array, a counter and the   *)
(* index of the first shingle.                                             *)
Tables ==
  UNION {[size        : {n},
          slot        : [0 .. n - 1 -> Digest \cup {Null}],
          elt_count   : 0 .. n,
          index_first : (0 .. n - 1) \cup {NoIndex}] : n \in 1 .. MaxSize}

ASSUME NullIsNoTable == Null \notin Tables

VARIABLES
  table,        (* The table of the caller, *table.                        *)
  new_table,    (* The table expand_size is filling, or Null.              *)
  ret,          (* The code the last operation returned.                   *)
  shingle       (* The shingle the last remove_first handed out.           *)

tableVars == <<table, new_table, ret, shingle>>

-----------------------------------------------------------------------------
(***************************************************************************)
(* Tables.                                                                 *)
(***************************************************************************)

Index(t) == 0 .. t.size - 1

Occupied(t) == {i \in Index(t) : t.slot[i] # Null}

Contents(t) == {t.slot[i] : i \in Occupied(t)}

(* Mutant: the mark of an empty table is its size.                         *)
MallocFirstIsSize(n) ==
  [size        |-> n,
   slot        |-> [i \in 0 .. n - 1 |-> Null],
   elt_count   |-> 0,
   index_first |-> n]

(* What shingle_table_malloc(n) returns when both mallocs succeed.         *)
shingle_table_malloc(n) ==
  [size        |-> n,
   slot        |-> [i \in 0 .. n - 1 |-> Null],
   elt_count   |-> 0,
   index_first |-> NoIndex]

shingle_table_is_empty(t) == t.elt_count = 0

(* Mutant: full one shingle too late.                                      *)
FullTooLate(t) == t.elt_count > t.size

shingle_table_is_full(t) == t.elt_count = t.size

get_hash(d, table_size) ==
  ((ByteProduct[d] % table_size) + ByteSum[d]) % table_size

(* The slots that a scan i = (i + 1) % n starting at h leaves behind       *)
(* before it reaches slot i.                                               *)
Passed(h, i, n) ==
  IF h <= i THEN h .. i - 1 ELSE (h .. n - 1) \cup (0 .. i - 1)

(* Mutant: the probe looks for a free slot only.                           *)
ProbeToFree(t, d, i) ==
  /\ t.slot[i] = Null
  /\ \A j \in Passed(get_hash(d, t.size), i, t.size) : t.slot[j] # Null

(* The probe for digest d ends at slot i: the first slot, from the hash of *)
(* d on, that is free or holds d already.                                  *)
ProbeEnds(t, d, i) ==
  /\ t.slot[i] \in {Null, d}
  /\ \A j \in Passed(get_hash(d, t.size), i, t.size) : t.slot[j] \notin {Null, d}

(* Mutant: the index of the first shingle is never lowered.                *)
PutKeepsFirst(t, d, i) ==
  [size        |-> t.size,
   slot        |-> [t.slot EXCEPT ![i] = d],
   elt_count   |-> t.elt_count + 1,
   index_first |-> IF t.index_first = NoIndex THEN i ELSE t.index_first]

(* Digest d written in the free slot i.                                    *)
Put(t, d, i) ==
  [size        |-> t.size,
   slot        |-> [t.slot EXCEPT ![i] = d],
   elt_count   |-> t.elt_count + 1,
   index_first |-> IF i < t.index_first THEN i ELSE t.index_first]

(* The slot the scan for a new first shingle ends at, the first shingle    *)
(* being gone: it goes round from the slot after the first one.            *)
NextFirst(t, i) ==
  /\ i \in Occupied(t) \ {t.index_first}
  /\ \A j \in Passed((t.index_first + 1) % t.size, i, t.size) :
        j \notin Occupied(t) \ {t.index_first}

(* The first shingle taken out, slot i being the new first one.            *)
Take(t, i) ==
  [size        |-> t.size,
   slot        |-> [t.slot EXCEPT ![t.index_first] = Null],
   elt_count   |-> t.elt_count - 1,
   index_first |-> i]

InsertCodes == {"ERROR_INSERT", "ERROR_TABLE_FULL_INSERT", "NO_INSERT",
                "SUCCESSFUL_INSERT"}

(* shingle_table_insert(t, d) leaves the table as u and returns code.      *)
Insert(t, d, u, code) ==
  \/ /\ shingle_table_is_full(t)
     /\ u = t
     /\ code = "ERROR_TABLE_FULL_INSERT"
  \/ /\ ~shingle_table_is_full(t)
     /\ \E i \in Index(t) :
          /\ ProbeEnds(t, d, i)
          /\ \/ /\ t.slot[i] = d
                /\ u = t
                /\ code = "NO_INSERT"
             \/ /\ t.slot[i] = Null
                /\ u = Put(t, d, i)
                /\ code = "SUCCESSFUL_INSERT"
             \/ /\ t.slot[i] = Null
                /\ MallocFails
                /\ u = t
                /\ code = "ERROR_INSERT"

(* shingle_table_remove_first(t) on a table that is not empty leaves it as *)
(* u and hands out d.                                                      *)
RemoveFirst(t, u, d) ==
  /\ ~shingle_table_is_empty(t)
  /\ d = t.slot[t.index_first]
  /\ \/ t.elt_count = 1 /\ u = Take(t, NoIndex)
     \/ t.elt_count # 1 /\ \E i \in Index(t) : NextFirst(t, i) /\ u = Take(t, i)

-----------------------------------------------------------------------------
(***************************************************************************)
(* The operations.                                                         *)
(***************************************************************************)

TableInit ==
  /\ table = shingle_table_malloc(InitialSize)
  /\ new_table = Null
  /\ ret = "NONE"
  /\ shingle = Null

Expanding == new_table # Null

shingle_table_insert(d) ==
  /\ ~Expanding
  /\ Insert(table, d, table', ret')
  /\ UNCHANGED <<new_table, shingle>>

shingle_table_remove_first ==
  /\ ~Expanding
  /\ \/ /\ shingle_table_is_empty(table)
        /\ ret' = "ERROR_REMOVE"
        /\ UNCHANGED <<table, shingle>>
     \/ /\ RemoveFirst(table, table', shingle')
        /\ ret' = "SUCCESSFUL_REMOVE"
  /\ UNCHANGED new_table

(* Mutant: the new table is no larger.                                     *)
ExpandToSameSize ==
  /\ ~Expanding
  /\ new_table' = shingle_table_malloc(table.size)
  /\ UNCHANGED <<table, ret, shingle>>

(* shingle_table_malloc of twice the size.                                 *)
ExpandBegin ==
  /\ ~Expanding
  /\ 2 * table.size <= MaxSize
  /\ new_table' = shingle_table_malloc(2 * table.size)
  /\ UNCHANGED <<table, ret, shingle>>

ExpandFails ==
  /\ ~Expanding
  /\ MallocFails \/ 2 * table.size > MaxSize
  /\ ret' = "ERROR_EXPAND"
  /\ UNCHANGED <<table, new_table, shingle>>

(* One round of the loop that moves the shingles.  The code insert returns *)
(* is not looked at.                                                       *)
ExpandMove ==
  /\ Expanding
  /\ \E d \in Digest, code \in InsertCodes :
        RemoveFirst(table, table', d) /\ Insert(new_table, d, new_table', code)
  /\ UNCHANGED <<ret, shingle>>

(* Mutant: the loop stops before the last shingle.                         *)
ExpandEndEarly ==
  /\ Expanding
  /\ table.elt_count <= 1
  /\ table' = new_table
  /\ new_table' = Null
  /\ ret' = "SUCCESSFUL_EXPAND"
  /\ UNCHANGED shingle

(* The old table, empty now, is freed.                                     *)
ExpandEnd ==
  /\ Expanding
  /\ shingle_table_is_empty(table)
  /\ table' = new_table
  /\ new_table' = Null
  /\ ret' = "SUCCESSFUL_EXPAND"
  /\ UNCHANGED shingle

TableNext ==
  \/ \E d \in Digest : shingle_table_insert(d)
  \/ shingle_table_remove_first
  \/ ExpandBegin
  \/ ExpandFails
  \/ ExpandMove
  \/ ExpandEnd

TableSpec == TableInit /\ [][TableNext]_tableVars

-----------------------------------------------------------------------------
(***************************************************************************)
(* Properties.                                                             *)
(***************************************************************************)

RetCodes ==
  InsertCodes \cup {"NONE", "ERROR_REMOVE", "SUCCESSFUL_REMOVE",
                   "ERROR_EXPAND", "SUCCESSFUL_EXPAND"}

(* The type invariant: indices stay inside the arrays and the counter      *)
(* inside its range, in the table and in the one expand_size fills.        *)
TableTypeOK ==
  /\ table \in Tables
  /\ new_table \in Tables \cup {Null}
  /\ ret \in RetCodes
  /\ shingle \in Digest \cup {Null}

(* The redundant fields of a table agree with its slots: elt_count is the  *)
(* number of occupied ones and index_first the lowest of them.             *)
Accurate(t) ==
  /\ t.elt_count = Cardinality(Occupied(t))
  /\ IF Occupied(t) = {}
       THEN t.index_first = NoIndex
       ELSE /\ t.index_first \in Occupied(t)
            /\ \A i \in Occupied(t) : t.index_first <= i

(* elt_count and index_first are right in every table after any sequence   *)
(* of operations, half-way through an expansion included: remove_first     *)
(* dereferences table[index_first] without looking (shingle_table.c:200).  *)
TableAccurate ==
  /\ Accurate(table)
  /\ new_table # Null => Accurate(new_table)

(* The two scans of the code have no bound of their own.  The one of       *)
(* insert ends because a table that is not full has a free slot, and the   *)
(* one of remove_first because a counter that is not 0 means a shingle is  *)
(* left.                                                                   *)
ScansEnd ==
  \A t \in {table, new_table} \ {Null} :
    /\ ~shingle_table_is_full(t) =>
         \A d \in Digest : \E i \in Index(t) : ProbeEnds(t, d, i)
    /\ t.elt_count > 1 => \E i \in Index(t) : NextFirst(t, i)

(* The shingles the caller stored, wherever expand_size has them.          *)
Stored ==
  Contents(table) \cup (IF new_table = Null THEN {} ELSE Contents(new_table))

(* Growing the table moves its shingles and drops none of them: from the   *)
(* call of expand_size to its return the stored shingles are the same.     *)
ExpandKeepsShingles ==
  [][new_table # Null \/ new_table' # Null => Stored' = Stored]_tableVars

(* No digest is in two slots: what makes the table a set                   *)
(* (shingle_table.h:32).                                                   *)
OneSlotEach(t) ==
  \A i, j \in Occupied(t) : t.slot[i] = t.slot[j] => i = j

=============================================================================
