----------------------------- MODULE MCSimHash ------------------------------
(***************************************************************************)
(* Small instances of SimHash: the digests and collisions of               *)
(* MCShingleTable, two bits, and executables of three sections whose     *)
(* windows are the whole section, 1 byte and 2 bytes, as the program's     *)
(* SHINGLE_SIZE has UINT64_MAX, 1 and 20.                                  *)
(***************************************************************************)
EXTENDS SimHash, MCShingleTable, TLC

MCBitsOf == [d \in MCDigest |-> CASE d = "a" -> {1}
                                  [] d = "b" -> {1, 2}
                                  [] d = "c" -> {}
                                  [] d = "d" -> {2}]

MCShingleSize == 0 :> 99 @@ 1 :> 1 @@ 2 :> 2

(* The sections of length n: the windows that are not looked at are "a".   *)
Sections(n, size) ==
  {[len |-> n,
    md5 |-> [o \in 0 .. n - 1 |-> IF o \in DOMAIN w THEN w[o] ELSE "a"]] :
     w \in [0 .. n - size - 1 -> MCDigest]}

(* Up to four windows, the last of them in the third section.             *)
MCData ==
  {0 :> whole @@ 1 :> bytes @@ 2 :> pairs :
     whole \in Sections(2, 99),
     bytes \in UNION {Sections(n, 1) : n \in {0, 4}},
     pairs \in UNION {Sections(n, 2) : n \in {1, 3}}}

=============================================================================
