------------------------------- MODULE MCTbt --------------------------------
(***************************************************************************)
(* An instance of Tbt with two processes.  The directory "bin" holds two   *)
(* executables and a text, "odd" an executable that is too small to hash;  *)
(* the hash file "old" was there before, with three entries.  The SimHash  *)
(* of "df" differs from that of "dd" in 10 bits, that of "du" in 11: their *)
(* percentages are as close as two percentages can be.  Those of "cat" and *)
(* "ls" differ in more than half of the bits.                              *)
(***************************************************************************)
EXTENDS Tbt

CONSTANTS one, two

MCProcess == {one, two}

MCSample ==
  [cat   |-> [elf |-> TRUE, ctph |-> "c1", simhash |-> "s1"],
   ls    |-> [elf |-> TRUE, ctph |-> "c2", simhash |-> "s4"],
   notes |-> [elf |-> FALSE],
   tiny  |-> [elf |-> TRUE, ctph |-> NullText, simhash |-> NullText],
   dd    |-> [elf |-> TRUE, ctph |-> "c1", simhash |-> "s1"],
   df    |-> [elf |-> TRUE, ctph |-> "c2", simhash |-> "s2"],
   du    |-> [elf |-> TRUE, ctph |-> "c3", simhash |-> "s3"]]

MCDirectory == [bin |-> {"cat", "ls", "notes"}, odd |-> {"cat", "tiny"}]

Zeros == [k \in 1 .. 16 |-> 0]
Ones  == [k \in 1 .. 16 |-> 255]

MCBytes ==
  [s1 |-> Zeros,
   s2 |-> [Zeros EXCEPT ![1] = 255, ![2] = 3],
   s3 |-> [Zeros EXCEPT ![1] = 255, ![16] = 7],
   s4 |-> [k \in 1 .. 16 |-> IF k <= 13 THEN 255 ELSE 0]] @@ (NullText :> <<0, 0, 0>>)

MCJunk == {Zeros, Ones}

MCCtphScore ==
  [texts \in {"c1", "c2", "c3"} \X {"c1", "c2", "c3"} |->
     IF texts[1] = texts[2] THEN 100
     ELSE IF "c3" \in Range(texts) THEN 40 ELSE 0]

(* What the comparison of a text that was never stored may give: a score   *)
(* below, within and at the end of the range.                              *)
MCScores == [ctph |-> {0, 50 * Percent}, simhash |-> {0, 50 * Percent}]

Entry(name) ==
  <<Line("name", name), Line("ctph", MCSample[name].ctph),
    Line("simhash", MCSample[name].simhash)>>

MCDisk == [old |-> Entry("dd") \o Entry("df") \o Entry("du"),
           out |-> Null, res |-> Null]

(* The writer of "old" was killed in the middle of its second entry.       *)
TornDisk == [MCDisk EXCEPT !.old = Entry("dd") \o <<Cut(Line("name", "df"))>>]

Hash(algorithm, argument, output) ==
  [mode |-> "hash", algorithm |-> algorithm, argument |-> argument,
   output |-> output]

Compare(algorithm, argument, output) ==
  [mode |-> "compare", algorithm |-> algorithm, argument |-> argument,
   output |-> output]

Run(first, second) == (one :> first) @@ (two :> second)

(* One process writes a hash file another reads, in all ways: by algorithm *)
(* and with a directory, a file and no executable as the argument.         *)
WriteAndRead ==
  {Run(Hash("ALL", "bin", "out"), Compare("ALL", "out", Null)),
   Run(Hash("CTPH", "bin", "out"), Compare("ALL", "out", Null)),
   Run(Hash("SIMHASH", "cat", "out"), Compare("ALL", "out", Null)),
   Run(Hash("CTPH", "cat", "out"), Compare("SIMHASH", "out", Null)),
   Run(Hash("SIMHASH", "cat", "out"), Compare("CTPH", "out", Null))}

(* Two processes want to write one file, one wants to write the file that  *)
(* the other reads, or the arguments are no executable and a hash file     *)
(* that was there.                                                         *)
WriteTwice ==
  {Run(Hash("CTPH", "bin", "out"), Hash("SIMHASH", "cat", "out")),
   Run(Hash("CTPH", "cat", "old"), Compare("ALL", "old", "res")),
   Run(Hash("CTPH", "notes", Null), Compare("SIMHASH", "old", Null))}

AllRuns == WriteAndRead \cup WriteTwice

(* A process compares the hash file that was there.                        *)
ReadOld == {Run(Hash("CTPH", "notes", Null), Compare("ALL", "old", Null))}

(* A directory with an executable that gets no hash is compared.           *)
NoHash == {Run(Hash("ALL", "odd", "out"), Compare("ALL", "out", Null))}

=============================================================================
