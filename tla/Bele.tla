-------------------------------- MODULE Bele --------------------------------
(***************************************************************************)
(* The byte orders of src/include/libelf/libbele: a number of any width as *)
(* the sequence of its bytes, least (le) or most (be) significant first.   *)
(***************************************************************************)
EXTENDS Naturals, Sequences

CONSTANT ByteValues    (* How many values a byte has: 256.                 *)

ASSUME ByteAssumption == ByteValues \in Nat /\ ByteValues >= 2

leget(bytes) ==
  LET from[k \in 1 .. Len(bytes) + 1] ==
        IF k > Len(bytes) THEN 0 ELSE bytes[k] + ByteValues * from[k + 1]
  IN from[1]

beget(bytes) ==
  LET to[k \in 0 .. Len(bytes)] ==
        IF k = 0 THEN 0 ELSE ByteValues * to[k - 1] + bytes[k]
  IN to[Len(bytes)]

leput(v, width) ==
  [k \in 1 .. width |-> (v \div ByteValues ^ (k - 1)) % ByteValues]

beput(v, width) == [k \in 1 .. width |-> leput(v, width)[width + 1 - k]]

=============================================================================
