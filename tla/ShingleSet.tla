----------------------------- MODULE ShingleSet -----------------------------
(***************************************************************************)
(* What include/shingle_table.h promises: "a Hash table (a set)" of        *)
(* shingles with a capacity, and operations that say with their code what  *)
(* they did.  Nothing is said of slots, probes or the order in which       *)
(* remove_first hands the shingles out, and growing the set is one step    *)
(* that keeps its elements.  SimHash implements this specification.        *)
(***************************************************************************)
EXTENDS Integers, FiniteSets

CONSTANTS
  Digest,       (* The digests shingles can have.                          *)
  Null,
  InitialSize   (* The capacity of a new set.                              *)

VARIABLES
  set,          (* The digests in the set.                                 *)
  capacity,     (* How many it can hold.                                   *)
  code,         (* What the last operation returned.                       *)
  taken         (* The digest the last remove_first handed out.            *)

setVars == <<set, capacity, code, taken>>

SetInit ==
  /\ set = {}
  /\ capacity = InitialSize
  /\ code = "NONE"
  /\ taken = Null

IsFull == Cardinality(set) = capacity

InsertFull ==
  /\ IsFull
  /\ code' = "ERROR_TABLE_FULL_INSERT"
  /\ UNCHANGED <<set, capacity, taken>>

InsertPresent(d) ==
  /\ ~IsFull
  /\ d \in set
  /\ code' = "NO_INSERT"
  /\ UNCHANGED <<set, capacity, taken>>

InsertNew(d) ==
  /\ ~IsFull
  /\ d \notin set
  /\ set' = set \cup {d}
  /\ code' = "SUCCESSFUL_INSERT"
  /\ UNCHANGED <<capacity, taken>>

RemoveSome(d) ==
  /\ d \in set
  /\ set' = set \ {d}
  /\ taken' = d
  /\ code' = "SUCCESSFUL_REMOVE"
  /\ UNCHANGED capacity

Grow ==
  /\ capacity' = 2 * capacity
  /\ code' = "SUCCESSFUL_EXPAND"
  /\ UNCHANGED <<set, taken>>

GrowFails ==
  /\ code' = "ERROR_EXPAND"
  /\ UNCHANGED <<set, capacity, taken>>

Free ==
  /\ set' = {}
  /\ capacity' = InitialSize
  /\ UNCHANGED <<code, taken>>

SetNext ==
  \/ InsertFull
  \/ \E d \in Digest : InsertPresent(d) \/ InsertNew(d) \/ RemoveSome(d)
  \/ Grow
  \/ GrowFails
  \/ Free

SetSpec == SetInit /\ [][SetNext]_setVars

=============================================================================
