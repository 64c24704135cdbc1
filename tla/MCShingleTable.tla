--------------------------- MODULE MCShingleTable ---------------------------
(***************************************************************************)
(* Small instances of ShingleTable.  Four digests; in a table of two slots *)
(* and in one of four, "a" and "b" collide, and "d" hashes to the last     *)
(* slot, so that probes go round the end of the array.                     *)
(***************************************************************************)
EXTENDS ShingleTable

MCDigest == {"a", "b", "c", "d"}

MCByteProduct == [d \in MCDigest |-> CASE d = "a" -> 6
                                       [] d = "b" -> 6
                                       [] d = "c" -> 0
                                       [] d = "d" -> 12]

MCByteSum == [d \in MCDigest |-> CASE d = "a" -> 5
                                   [] d = "b" -> 9
                                   [] d = "c" -> 4
                                   [] d = "d" -> 7]

=============================================================================
