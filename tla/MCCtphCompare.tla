--------------------------- MODULE MCCtphCompare ----------------------------
(***************************************************************************)
(* Small instances of CtphCompare: the costs and lengths of the program,   *)
(* texts of one to five characters, runs of four and five among them.      *)
(***************************************************************************)
EXTENDS CtphCompare

CONSTANT BlockSizes    (* The block sizes the hashes have.                 *)

MCTexts ==
  {<<"A">>, <<"B", "B", "A">>, <<"A", "B">>, <<"A", "A", "A", "A", "A">>,
   <<"B", "B", "B", "B">>}

MCTextsPrec == {<<"A">>, <<"B">>, <<"A", "B", "A">>}

(* One hash in the set has no second text.                                 *)
MCHashes ==
  [block_size : BlockSizes, hash : MCTexts, hash_prec : MCTextsPrec] \cup
  [block_size : {32}, hash : {<<"A">>}, hash_prec : {Null}]

=============================================================================
