------------------------------ MODULE SimHash -------------------------------
(***************************************************************************)
(* simhash_compute of src/simhash.c: it slides a window over every section *)
(* of an executable, stores the MD5 of every window in the shingle table,  *)
(* growing the table when it is full, then takes the shingles out one by   *)
(* one and lets each of them vote on every bit of the hash.                *)
(*                                                                         *)
(* A section is its length and the digest of the window at each offset;    *)
(* the bits of a digest are the subset of Bit it has set, and the same for *)
(* the hash.  The text of the hash stands for the hash itself.             *)
(***************************************************************************)
EXTENDS ShingleTable

CONSTANTS
  SECTION_END,   (* How many sections are read.                            *)
  SHINGLE_SIZE,  (* section -> length of the window.                       *)
  Data,          (* The executables: section -> [len, md5].                *)
  Bit,           (* The bits of a digest.                                  *)
  BitsOf         (* digest -> the bits set in it.                          *)

Section == 0 .. SECTION_END - 1

ASSUME SimHashAssumption ==
  /\ SECTION_END \in Nat
  /\ SHINGLE_SIZE \in [Section -> Nat]
  /\ \A f \in Data : \A s \in Section :
       /\ f[s].len \in Nat
       /\ f[s].md5 \in [0 .. f[s].len - 1 -> Digest]
  /\ IsFiniteSet(Bit)
  /\ BitsOf \in [Digest -> SUBSET Bit]

ASSUME NullIsNoHash == \A bits \in SUBSET Bit : bits # Null

VARIABLES
  data,          (* The argument of simhash_compute, Null after an error.  *)
  pc,
  i, j,          (* The section and the offset of the window.              *)
  tmp_hash,      (* bit -> votes for it minus votes against it.            *)
  final_hash,    (* The block of the hash: its bits, Null when not         *)
                 (* allocated.                                             *)
  result         (* What simhash_compute returned.                         *)

scanVars == <<data, i, j, tmp_hash, final_hash, result>>
vars == <<tableVars, scanVars, pc>>

-----------------------------------------------------------------------------

(* How many windows of section s are looked at.                            *)
WindowCount(s) ==
  IF data[s].len < SHINGLE_SIZE[s] THEN 0 ELSE data[s].len - SHINGLE_SIZE[s]

Current == data[i].md5[j]

(* Mutant: a bit that is not set does not vote.                            *)
VoteFor(d) ==
  [b \in Bit |-> tmp_hash[b] + IF b \in BitsOf[d] THEN 1 ELSE 0]

Vote(d) ==
  [b \in Bit |-> tmp_hash[b] + IF b \in BitsOf[d] THEN 1 ELSE -1]

Init ==
  /\ data \in Data \cup {Null}
  /\ pc = "start"
  /\ table = Null
  /\ new_table = Null
  /\ ret = "NONE"
  /\ shingle = Null
  /\ i = 0
  /\ j = 0
  /\ tmp_hash = [b \in Bit |-> 0]
  /\ final_hash = Null
  /\ result = Null

(* The allocations of compute_hash.  When the second one fails the table   *)
(* is freed again.  A block has the bits it had when it was last in use.   *)
Start ==
  /\ pc = "start"
  /\ \/ /\ data # Null
        /\ table' = shingle_table_malloc(InitialSize)
        /\ \E garbage \in SUBSET Bit : final_hash' = garbage
        /\ pc' = "scan"
        /\ UNCHANGED result
     \/ /\ data = Null \/ MallocFails
        /\ pc' = "done"
        /\ result' = Null
        /\ UNCHANGED <<table, final_hash>>
  /\ UNCHANGED <<new_table, ret, shingle, data, i, j, tmp_hash>>

AtWindow == i < SECTION_END /\ j < WindowCount(i)

ScanWindow ==
  /\ pc = "scan"
  /\ AtWindow
  /\ Insert(table, Current, table', ret')
  /\ \/ ret' = "ERROR_TABLE_FULL_INSERT" /\ pc' = "expand" /\ UNCHANGED j
     \/ ret' # "ERROR_TABLE_FULL_INSERT" /\ j' = j + 1 /\ UNCHANGED pc
  /\ UNCHANGED <<new_table, shingle, data, i, tmp_hash, final_hash, result>>

NextSection ==
  /\ pc = "scan"
  /\ i < SECTION_END
  /\ ~AtWindow
  /\ i' = i + 1
  /\ j' = 0
  /\ UNCHANGED <<tableVars, data, pc, tmp_hash, final_hash, result>>

(* The steps of shingle_table_expand_size.                                 *)
Expand ==
  /\ pc = "expand"
  /\ \/ ExpandBegin /\ UNCHANGED pc
     \/ ExpandFails /\ pc' = "err_f_table"
     \/ ExpandMove /\ UNCHANGED pc
     \/ ExpandEnd /\ pc' = "reinsert"
  /\ UNCHANGED scanVars

(* Mutant: the error exit frees nothing.                                   *)
ErrWithoutFree ==
  /\ pc = "err_f_table"
  /\ pc' = "done"
  /\ result' = Null
  /\ UNCHANGED <<tableVars, data, i, j, tmp_hash, final_hash>>

(* The error exit frees the table and nothing else.                        *)
ErrFTable ==
  /\ pc = "err_f_table"
  /\ table' = Null
  /\ pc' = "done"
  /\ result' = Null
  /\ UNCHANGED <<new_table, ret, shingle, data, i, j, tmp_hash, final_hash>>

(* Mutant: the window the table was full for is not inserted again.        *)
ReinsertForgotten ==
  /\ pc = "reinsert"
  /\ j' = j + 1
  /\ pc' = "scan"
  /\ UNCHANGED <<tableVars, data, i, tmp_hash, final_hash, result>>

(* The second insertion; its code is not looked at.                        *)
Reinsert ==
  /\ pc = "reinsert"
  /\ Insert(table, Current, table', ret')
  /\ j' = j + 1
  /\ pc' = "scan"
  /\ UNCHANGED <<new_table, shingle, data, i, tmp_hash, final_hash, result>>

ScanEnds ==
  /\ pc = "scan"
  /\ i = SECTION_END
  /\ tmp_hash' = [b \in Bit |-> 0]
  /\ pc' = "drain"
  /\ UNCHANGED <<tableVars, data, i, j, final_hash, result>>

Drain ==
  /\ pc = "drain"
  /\ RemoveFirst(table, table', shingle')
  /\ ret' = "SUCCESSFUL_REMOVE"
  /\ tmp_hash' = Vote(shingle')
  /\ UNCHANGED <<new_table, data, pc, i, j, final_hash, result>>

(* Mutant: the table is not freed.                                         *)
WriteHashKeepsTable ==
  /\ pc = "drain"
  /\ shingle_table_is_empty(table)
  /\ final_hash' = {b \in Bit : tmp_hash[b] > 0}
  /\ pc' = "string"
  /\ UNCHANGED <<tableVars, data, i, j, tmp_hash, result>>

(* The table is freed, then the votes become bits.                         *)
WriteHash ==
  /\ pc = "drain"
  /\ shingle_table_is_empty(table)
  /\ table' = Null
  /\ final_hash' = {b \in Bit : tmp_hash[b] > 0}
  /\ pc' = "string"
  /\ UNCHANGED <<new_table, ret, shingle, data, i, j, tmp_hash, result>>

(* The text of the hash, then free(hash).                                  *)
simhash_to_string ==
  /\ pc = "string"
  /\ \/ result' = final_hash
     \/ MallocFails /\ result' = Null
  /\ final_hash' = Null
  /\ pc' = "done"
  /\ UNCHANGED <<tableVars, data, i, j, tmp_hash>>

Done ==
  /\ pc = "done"
  /\ UNCHANGED vars

Next ==
  \/ Start
  \/ ScanWindow
  \/ NextSection
  \/ Expand
  \/ ErrFTable
  \/ Reinsert
  \/ ScanEnds
  \/ Drain
  \/ WriteHash
  \/ simhash_to_string
  \/ Done

Spec == Init /\ [][Next]_vars

(* The program is one thread that runs on: a step that can be taken is.    *)
FairSpec == Spec /\ WF_vars(Next)

-----------------------------------------------------------------------------
(***************************************************************************)
(* Properties.                                                             *)
(***************************************************************************)

Filling == pc \in {"scan", "expand", "reinsert"}

HasTable == Filling \/ pc \in {"drain", "err_f_table"}

TypeOK ==
  /\ data \in Data \cup {Null}
  /\ pc \in {"start", "scan", "expand", "reinsert", "drain", "err_f_table",
             "string", "done"}
  /\ IF HasTable THEN table \in Tables /\ data # Null ELSE table = Null
  /\ new_table # Null => pc = "expand" /\ new_table \in Tables
  /\ ret \in RetCodes
  /\ shingle \in Digest \cup {Null}
  /\ i \in 0 .. SECTION_END
  /\ j \in Nat
  /\ tmp_hash \in [Bit -> Int]
  /\ final_hash \in (SUBSET Bit) \cup {Null}
  /\ result \in (SUBSET Bit) \cup {Null}

(* The window of offset o in section s comes before the current one.       *)
Before(s, o) == s < i \/ (s = i /\ o < j)

(* The digests of the windows looked at so far, and of all of them.        *)
Seen ==
  {d \in Digest : \E s \in Section : \E o \in 0 .. WindowCount(s) - 1 :
                    Before(s, o) /\ data[s].md5[o] = d}

Shingles ==
  {d \in Digest : \E s \in Section : \E o \in 0 .. WindowCount(s) - 1 :
                    data[s].md5[o] = d}

(* While the table is filled, through any number of expansions, it holds   *)
(* exactly the digests of the windows already passed: compute_hash looks   *)
(* at none of the codes of its second insertion and of those expand_size   *)
(* makes (simhash.c:77, shingle_table.c:98), so a shingle that did not get *)
(* in would be missed by nobody.                                           *)
ScanComplete == Filling => Stored = Seen

(* Every digest has one slot, of the old or of the new table, so that it   *)
(* votes once: insert stops at the first free slot and would store a       *)
(* digest again if the slot it probes first had been freed meanwhile.      *)
VotesOnce ==
  HasTable =>
    /\ OneSlotEach(table)
    /\ new_table # Null =>
         OneSlotEach(new_table) /\ Contents(table) \cap Contents(new_table) = {}

(* The insertions whose code is dropped never meet a full table.           *)
RoomAfterExpand ==
  /\ pc = "reinsert" => ~shingle_table_is_full(table)
  /\ new_table # Null => ~shingle_table_is_full(new_table)

(* The bits more than half of the digests in S have.                       *)
Majority(S) ==
  {b \in Bit : 2 * Cardinality({d \in S : b \in BitsOf[d]}) > Cardinality(S)}

(* The hash is the majority vote of the distinct windows: repeated windows *)
(* count once, whatever the order the table hands them out in, and ties    *)
(* and the hash of no windows are 0 bits.                                  *)
HashIsMajority == result # Null => result = Majority(Shingles)

(* At the end the table and its copy are freed, and the block of the hash  *)
(* is lost exactly when an expansion has failed (simhash.c:75).            *)
LeakOnlyOnExpandError ==
  pc = "done" => /\ table = Null
                 /\ new_table = Null
                 /\ final_hash # Null <=> ret = "ERROR_EXPAND"

(* The table implements the set its header promises, for the client the    *)
(* program has.                                                            *)
ShingleSet == INSTANCE ShingleSet WITH
  set      <- IF HasTable THEN Stored ELSE {},
  capacity <- IF HasTable THEN table.size ELSE InitialSize,
  code     <- ret,
  taken    <- shingle

ImplementsSet == ShingleSet!SetSpec

(* simhash_compute returns: the scans of the table, the loop that moves    *)
(* its shingles and the one that empties it all end.                       *)
Terminates == <>(pc = "done")

=============================================================================
