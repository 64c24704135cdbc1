# Verification of the triaging binaries toolkit

`tbt` computes two fuzzy hashes of ELF executables, CTPH and SimHash, writes
them to a hash file, and compares the hashes of such a file pair by pair. This
directory models the program in TLA+, from the reading of an executable to the
list of scores, checks the models with TLC on small instances, and proves the
most important results with TLAPS for every value of the constants. Paths below
are relative to `src/` of the repository; `ctph.c:241` means line 241 of
`src/ctph.c`, `elf.c:141` line 141 of `include/libelf/elf.c`.

## 1. The system

A run of `tbt` is sequential: one thread, no callbacks, no persistent state but
the hash file. Runs meet in the file system, where one may read or write the
file another is writing. What makes the program hard to get right are its
hand-written data structure, the loops without a bound of their own, the blocks
that change hands between functions and error exits, arithmetic in fixed widths,
and a text format that one run writes through a buffer and another reads twice.

| Component | Source | State it keeps | Operations | Status |
|---|---|---|---|---|
| shingle table | `src/shingle_table.c` | slot array, `elt_count`, `index_first`; during an expansion a second table | malloc, insert, remove_first, expand_size, is_empty, is_full, free | modelled, proved |
| simhash | `src/simhash.c` | the table, the votes of the bits, the block of the hash | simhash_compute | modelled, proved |
| simhash compare | `src/simhash.c` | two arrays of bytes | simhash_compare, simhash_string_to_uint | modelled, proved as part of `tbt` |
| ctph hash | `src/ctph.c` | block size and `coef`, two texts on the heap, their lengths; in the engine the rolling hash, the FNV hash and the text | ctph_hash, ctph_hash_engine | modelled, proved |
| ctph compare | `src/ctph.c` | the copies of four texts, the score | ctph_compare, score_strings, copy_eliminate_sequences | modelled, proved |
| edit distance | `src/edit_dist.c` | two rows | edit_distn | modelled, proved |
| elf manager | `src/elf_manager.c` | `fhdr`, the sections of a file | elf_get_data, elf_check_header, elf_free, elf_get_data_size | modelled, proved |
| hash files | `src/tbt.c` | the hash file, the array of entries, `line_buf`, the chosen algorithm | treat_file, treat_dir, get_nb_files, get_file_content, comparision | modelled, proved |
| command line, output file | `src/tbt.c` | the options, `OUTPUT` and its buffer | main, close_output | partly: the options are inputs |
| libelf | `include/libelf` | the header being read, its string table | readelf, readelfsection, freeelf | partly: what `elf_manager.c` calls |
| tests and samples | `test` | | | read, not modelled |

How they interact. `main` creates the output file and calls `treat_file` on one
file or on each file of a directory, or `file_parser` on a hash file.
`treat_file` gets the sections from the elf manager, which reads them through
libelf, and hands them to `ctph_hash` and `simhash_compute`; it writes both
texts, whatever they are, and frees everything. `simhash_compute` is the only
client of the shingle table. `file_parser` reads the entries back and
`comparision` calls `ctph_compare`, which calls `edit_distn` through
`score_strings`, and `simhash_compare` on every pair. All of it is by calls; the
only thing shared between processes is the file system.

What would make each component correct, and where it is hard:

- *shingle table*: it is a set; the counter and the first index agree with the
  slots, because `remove_first` dereferences `table[index_first]` unseen and the
  probe of `insert` ends only when the counter is right; an expansion drops
  nothing although it ignores the codes of its insertions.
- *simhash*: the hash is the majority vote of the distinct windows, whatever the
  number of expansions and the order the table gives them back; blocks are freed
  on every exit.
- *ctph hash*: the texts it returns are those of a block size and of twice that
  size, however many rounds made them; the block size is the largest that will
  do; no text is lost, or used after it has been freed; the loop ends; `coef`
  stays in its 16 bits.
- *ctph compare* and *edit distance*: a score is a percentage, it means what the
  comment says, it does not depend on the order of the hashes, and it is
  computed from texts of the same block size.
- *simhash compare*: half of the bits different is nothing in common, and what is
  above is stretched to 0 to 100.
- *elf manager* and *libelf*: every block has one owner, on error paths too;
  the sections are those of the file, found by name, of either class and byte
  order; exactly the executables with whole headers are read.
- *hash files*: the two passes of the parser agree on the entries; what is read
  is what was written, also by a writer that was killed or is still at work;
  nothing is stored behind the array; the order given to `qsort` is an order;
  every pair is listed.
- *output file*: a file that exists is not emptied, even when two processes run.

`PROJECT.json` lists the hazards one by one, at their lines, with the properties
that would catch each.

## 2. The modules

| Module | Models | Notes |
|---|---|---|
| `ShingleTable` | `shingle_table.c`, any client | one action per operation; the expansion move by move |
| `ShingleSet` | `shingle_table.h` | the abstract specification: a set with a capacity |
| `SimHash` | `simhash_compute` | EXTENDS `ShingleTable` and drives its operations |
| `SimHashCompare` | `simhash_compare` | operators, used by `Tbt` |
| `Ctph` | `ctph_hash`, `ctph_hash_engine` | the engine byte by byte, the heap block by block |
| `EditDist` | `edit_distn` | cell by cell |
| `CtphCompare` | `ctph_compare`, `score_strings`, `copy_eliminate_sequences` | EXTENDS `EditDist` and drives it |
| `Bele` | `include/libelf/libbele` | the byte orders, as operators |
| `LibElf` | `include/libelf/elf.c` | what the reader accepts and finds, as operators |
| `ElfManager` | `elf_manager.c`, `readelf`, `readelfsection` | EXTENDS `LibElf`; the order of the calls, errors and blocks |
| `Tbt` | `tbt.c` | several processes and a file system; EXTENDS `SimHashCompare` |
| `ShingleTableProofs`, `SimHashProofs`, `CtphProofs`, `CompareProofs`, `ElfProofs` | | the theorems on the modules they are named after |
| `TbtProofs`, `TbtReadProofs` | | the theorems on `Tbt`: types, files, the order of the lists; what is read back of a file that changes and of one that does not, and that all of it is listed |
| `NaturalFacts` | | lemmas on naturals and finite sets the proofs share |
| `MCShingleTable`, `MCSimHash`, `MCCtph`, `MCCtphCompare`, `MCElf`, `MCTbt` | | the small instances |

Names are the source's. A function that is called and returns within one step
is an operator (`get_hash`, `leftmost`, `score_strings`); a function whose inner
steps matter, because it calls malloc, because it can be left half-way or
because its loop must be shown to end, is a group of actions over its locals.

**ShingleTable.** A table is a record of the C struct, a slot holding a digest or
`Null`. A shingle is its MD5 digest: the table copies buffer and length and never
looks at them. The probe of `insert` is the slot it ends at (`ProbeEnds`), the
scan of `remove_first` likewise (`NextFirst`): both are the first slot of a
circular scan that satisfies the exit condition, so that a scan that would go
round for ever shows as an operation that cannot step. `ExpandBegin`,
`ExpandMove`, `ExpandEnd` and `ExpandFails` are `shingle_table_expand_size`.
malloc fails when `MallocFails` lets it, and always beyond `MaxSize`. The table is
freed by `WriteHash` and `ErrFTable` of `SimHash`.

**SimHash.** `pc` follows `compute_hash`: `scan` (the two loops over sections and
windows), `expand`, `reinsert`, `drain`, `string`, and `err_f_table`. A section is
its length and the digest of the window at each offset. `WindowCount` is the
loop bound of the code, `len - sh_size`, which is one window fewer than fit: the
last window of a section, and every section no longer than its window size, are
not hashed. The repository says nothing else anywhere, so this is modelled as it
is and not reported.

**Ctph.** The data are the values the rolling hash has after each byte, sections
joined, as the engine chains its state from one to the next. A character of a
text is the piece of data it stands for. It is assumed that the FNV hash of a
piece that is not empty differs from the initial value; the code tells an empty
tail by that (ctph.c:172). `B` comes from `Rounded`, which allows for the product
of `pow` and `log2` coming out one below when it is cut, and from `leftmost`, which
is what the two byte swaps compute. The bits of an integer have the values `Bit[0]`,
`Bit[1]`, ..., a constant of which the assumption says that each is twice the one
before: the provers know no powers. Pointers are numbers of blocks, `heap` holds
the blocks that are not freed. `TooShort` and `LongEnough` are the two ways through
the body of the loop, dead branches included (ctph.c:253, ctph.c:259).

**EditDist, CtphCompare.** Rows are functions on the places written, so that
reading a place that was not would stop TLC. A hash is a block size and two
texts; whether it parses is part of the input (`Null`, or no second text). `Calls`
is the case analysis that picks the texts. What the distance must be is said
without a table of rows: an alignment keeps some characters, places of both texts
that hold the same character, in the same order; all the others are removed and
inserted, as a replacement costs as much as both. `DistanceIsLeastCost` says that
what the rows leave is the least cost of all alignments.

**LibElf, ElfManager.** A file is what it holds at the places the reader looks; its
numbers are sequences of bytes and go through `get`, the conversion of the byte
order the file names. Both classes share one definition, with the sizes and
widths of `class`. `readelf`, which checks the header, and `readelfsection`, which
is called for every section, go through the same functions; `caller` says which
of them is running, and `Fail` what an error leads to in each. A block is a
record of its malloc and of the region it was made for, so that a property can
say whose bytes a section has. `strndxsize` is cut to 32 bits (elf.c:576);
`newsection` frees its block again when the file is too short; `freeelf` frees the
table and leaves the pointer. `scarce` lets any malloc fail. An empty section is
one `fread` does not read, and counts as missing (elf.c:594).

**SimHashCompare.** A text is the bytes its digits spell. A text shorter than 32
digits writes fewer bytes than the comparison reads (simhash.c:183); the others are
what malloc returned, `Junk`. Percentages are counted in 1/32, which makes those of
128 bits whole numbers. `Rescaled` is the percentage a distance gives, and
`compare_hash` that of the Hamming distance.

**Tbt.** `tbt[p]` is the memory of process p: where it is, what it has printed and
how much of that has reached the file, and the variables of the parser. A file
is a sequence of lines, of which the last may lack its end: `Flush` writes any part
of the buffer at any time, up to the middle of a line, and `Killed` loses the rest.
Two processes that opened the same file overwrite each other line by line, and
a place nobody wrote is a hole. The hash file is read while it changes: once by
`get_nb_files` (`CountLine`, `CountEnd`) and once by `get_file_content` (`ParseName`,
`ParseHash`, `ParseNothing`). The parser looks at `line_buf` before it has read
anything. What is in it then is not for the language to say; the model assumes that
it is the buffer of `get_nb_files`, and holds the line the counting read last, or, after
an empty file, what the stack held. That is so when both functions are inlined into
`file_parser`, as `-O2` of the Makefile does, and share a slot of its stack; called one
after the other they could not, as the array of entries lies between the two
buffers. An entry that was not written is `Unset`, and the score of what is `Unset` may
be any.

Of a name that was cut off the parser drops the last character, whatever it
is: the colon, so that the name is right, or one of the name, which is then `Unset`. It
then steps over the 0 that ends the line (tbt.c:265) and reads on in what `line_buf` has
of older lines, where a 1 or a 2 makes the rest of them a hash of the entry
(tbt.c:233). Such a hash is a `Scrap`, one value for all; which kinds of it an
entry gets, none, one or both, is left open, as it depends on the characters. A hash
line cut off behind its tab makes the parser go beyond the 0 too (tbt.c:231), but it can
only be the line left over from the counting, and then there is no entry yet
and nothing is stored. 
Output to stdout is not kept: nobody reads it back. The hashes and the
scores of CTPH are constants, the results of `Ctph`, `SimHash` and `CtphCompare`;
those of SimHashes are computed by `SimHashCompare`. `InputAssumption` says what
these constants are: the calls are ones the options allow, the files that were
there before are hash files (`IsHashFile`: only the last line may be cut off, there
are no holes, a hash follows every name but one in the last line, and a hash is
that of the name it stands under), in which no name stands twice
(`NamesDiffer`), as none does in a directory, and the scores are percentages the
comparisons can give.

## 3. The runs

| Run | Question | Result |
|---|---|---|
| `table_api` | any sequence of table operations, malloc failing | type, `TableAccurate`, `ScansEnd` hold |
| `simhash` | the whole computation, expansions from 1 slot to 4 | majority, nothing lost in an expansion, set refinement, termination hold |
| `simhash_malloc` | the same with malloc failing anywhere | a block is lost only on a failed expansion (simhash.c:75); the computation ends |
| `ctph` | the whole computation, up to three halvings, malloc failing | all eight properties hold |
| `ctph_coef` | `coef` at the end of its range | **violated**: division by zero (ctph.c:241) |
| `compare` | pairs of hashes, all ways through the comparison | all four properties hold |
| `compare_score` | block sizes 1, 2, and 45 and more | **violated**: the score is the distance (ctph.c:321), or 100 (ctph.c:322) |
| `elf` | executables of both classes and byte orders, altered in one place each, malloc failing | all seven properties hold; the one block that is lost is `OnlyTheCheckLeaks` |
| `tbt` | two processes, one hash file, partial writes and kills | all eight properties hold |
| `tbt_stack` | a hash file that ends inside a name | **violated**: an entry is stored behind the array (tbt.c:260) |
| `tbt_null` | an executable without a hash | **violated**: it is listed with -1 % (tbt.c:119) |
| `tbt_race` | two runs with the same output file | **violated**: both create it (tbt.c:454) |

A run marked violated states what a comment of the code says; `PROJECT.json` quotes
it. The first two of them show in the examples of the repository's `README.md`:
block sizes of 2, 128, 256 and 512 for four test programs, and scores of 79 and 82
between different programs.

What the properties of `tbt` say together: a hash file that one run completed is
read back whole (`HashThenCompare`); one that is being written, or whose writer
was killed, may give fewer entries or stop the reader with an error, and in the
case of `tbt_stack` shifts the names; but the hash of a line is never stored under a wrong
name, and what the parser takes for a hash beyond a name that was cut off is never
compared: only the first entry can get it, and the run then ends with a wrong number
of entries, or has counted none (`HashesMatchNames`). No more than one entry is
stored too far (`OneBeyondAtMost`), and the reader ends (`Terminates`). A comparison lists every ordered pair with the
likeness of its hashes (`ListsEveryPair`) from the most alike down (`ResultsSorted`);
and no run changes a file that was there before (`ExistingFilesStay`), although two
runs may create the same new one.

### Bounds, and why they are enough

- *Tables*: four digests in tables of 1, 2 and 4 slots; two of them collide at
  every size and one hashes to the last slot. Wrap-round probes, a full table, an
  emptied table, an expansion left half-way by malloc, and an expansion of an
  expanded table all occur.
- *simhash*: three sections with the three kinds of window the program's
  `SHINGLE_SIZE` has (longer than the section, 1, and some), up to four windows,
  every assignment of digests; enough for two expansions in one run and for
  repeated windows before and after them.
- *ctph*: `SIGN_LENGTH` 5, `HALF_LENGTH` 2, `WINDOW_SIZE` 2 and `MIN_BLOCK_SIZE` 1 keep the
  relations of 64, 32, 7 and 3 that matter: a text can be full, the data can be
  shorter than one unit of block size, and block size 1 always gives a text
  that is long enough (`CtphAssumption`). Data of 3 to 16 bytes give first block
  sizes 0, 2, 4 and 8, so that there are 0, 1, 2 and 3 rounds; `coef` modulo 8 goes
  round in the fourth, as modulo 2^16 in the 17th.
- *compare*: the real constants, except `ULONG_MAX`, which is 255 and is met by block
  size 128; the block sizes are on both sides of the caps at 3 and 45. The
  texts are shorter than those `ctph_hash` returns, 1 to 5 characters for 1 to 63,
  with runs that are and are not cut. They differ in every way of two
  characters: inserted, removed, replaced, repeated.
- *elf*: a byte has 16 values, so that the 32 bits of `strndxsize` are met by a size of
  65536. The good file has two headers of sections that are sought under
  the names of three; the altered ones have each of the checks of the reader
  fail once, and sections that are missing, empty, beyond the end, twice there,
  behind a header without a name, or in another order. All of them in both
  classes and both byte orders.
- *tbt*: two processes in eight pairs of calls: all three algorithms on a directory
  or a file, compared by all three; the same output file; the output of one
  the input of the other's; a hash file with three entries that was there; an
  argument that is no executable. The SimHashes differ in 0, 10, 11 and more than
  64 bits: as close as two percentages come, and on both sides of half. Two
  processes suffice for a reader and a writer and for a race of writers; what
  rests on their number is proved for any.

Properties over data of any length are what the proofs are for.

### Fairness

`SimHash`, `Ctph`, `CtphCompare` and `ElfManager` are checked for liveness under
`WF_vars(Next)`: there is one thread, it waits for nobody, and a step of it that can
be taken is taken. No action is fair by itself, so a loop the code could stay in
would be a counterexample. `Tbt` has `WF_vars(Step(p))` for each process p: the
operating system runs every process, and no step of one waits for another. A
write of the buffer before it must be (`Flush`) and a kill (`Killed`) are not fair: nothing
makes them happen. `table_api` has no liveness: its client may stop at any time.

## 4. What is proved

With TLAPS, for any set of digests, any hash function, any sizes and any data:

| Theorem | Says |
|---|---|
| `TableTypeCorrect` | the table is well typed, indices stay in the array |
| `TableIsAccurate` | the counter is the number of occupied slots and the first index the lowest of them |
| `TableScansAlwaysEnd` | both unbounded scans find their slot |
| `ExpansionKeepsShingles` | an expansion drops nothing, if malloc does not fail |
| `SimHashTypeCorrect` | types of the whole computation |
| `DigestsVoteOnce` | no digest is in two slots, of the old or the new table, whatever malloc does |
| `ExpansionMakesRoom` | the insertions whose codes are dropped never meet a full table |
| `ScanMissesNothing` | the table holds exactly the digests of the windows passed |
| `HashIsTheMajority` | the hash has exactly the bits more than half of the distinct windows have |
| `LeakNeedsExpandError` | the tables are freed, and the block of the hash is lost just when an expansion fails |
| `TableImplementsSet` | for `simhash_compute`, the table implements `ShingleSet` |

*The argument for the table.* `Accurate` is inductive together with the types
and the fact that in an expansion the new table is twice the size of the old
and holds, with what is left in it, no more than the old one could. That a scan
ends is arithmetic: a circular scan from any slot visits all of them
(`PassedLinear`, `ScanFinds`), so it meets a free slot when the counter says there
is one.

*The argument for simhash.* Types and accuracy say nothing of duplicates, and the
table by itself does have them (section 5). The computation never inserts after
it has removed, except from the old table into the new one, so the probe
invariant (no free slot between the hash of a digest and its slot) holds
of the table being filled and is dropped for the table being emptied. From it,
the probe for a stored digest ends at that digest; hence `VotesOnce`, hence the
contents grow by exactly the digest inserted, hence `ScanComplete`. While the table
is emptied the votes are those of the digests already taken, and the majority is
read off when none is left.

For `ctph_hash`, with data of any length, any lengths of the texts and any
width of `coef`:

| Theorem | Says |
|---|---|
| `CtphTypeCorrect` | types; `coef` stays in its width |
| `AnswerIsBothTexts` | the answer is the text of its block size and the text of twice that size |
| `PointersAlwaysLive` | what is printed or freed is allocated, and not the same block twice |
| `LengthsAreKept` | the lengths that size the answer are those of the two texts |
| `NoTextIsLost` | with an answer every block is freed, without one at most two are not |
| `BlockSizeIsLargest` | the block size is the largest, from the first one down by halves, that gives a text long enough |
| `CrashNeedsLongData` | `coef` is 0 only when the first block size is out of its range |

*The argument for ctph.* Three things that none of the properties says hold them
up. In the engine, what has been read so far (`Scanned`): the pieces follow one
another from the first byte to the last trigger and there is no trigger since, so
that what is returned is the text of the block size, and never SIGN_LENGTH
long (the free at ctph.c:253 is not reached). Over the rounds, `B` is the block size
times `coef`, both powers of two (`RoundOf`), so that the integer division of the
next round gives exactly half of the block size, and the text kept from the round
before is that of twice the new one. And at block size 1 every full window
closes a piece (`AllAtOne`): the text is then long enough, the rounds do not go below
1, and a block size of 0 is met by data shorter than one unit only. `BlocksInv` says
at each place of the program which blocks have not been freed. That the block
size is the largest that will do needs a count: a text has a character for every
trigger and one for what is left behind them, or as many as there is room for
(`LengthOfText`), so that a round that went on did so because `LargestBlockSize` calls
its block size too small, and `TooShortAbove` can be kept from round to round.

For `ctph_compare` and `edit_distn`, with any two hashes and texts of any length:

| Theorem | Says |
|---|---|
| `DistanceIsRight` | the last cell is the least cost of all alignments of the two texts |
| `ScoresAreInRange` | the score is from 0 to 100, or -1 when a hash does not parse |
| `CommonSizesAreCompared` | the result is the best score over the block sizes both hashes have a text for |
| `CompareInvHolds` | the inductive invariant these rest on |

*The argument for the comparison.* `LeastCost(a, b, i, j, c)` says that c is the least cost
of the alignments of the first i characters of a with the first j of b. The three
neighbours of a cell are the three ways such an alignment can end, whence the
minimum of the code is the least cost of the longer texts; `Filled` keeps that of
both rows, as far as they are written, through the exchange of the rows. The
distance is then at most the sum of the lengths, which is what keeps the
subtractions of `score_strings` from going below 0. `ScoreInv` relates the score to
the calls that have been made (`Made`); for `CommonSizesAreCompared` the calls are those
the case analysis gives, and an inspection of its cases shows that they are the
pairs of texts of the same block size. The copy of `copy_eliminate_sequences` is a
fold; what is needed of it, that it keeps the characters to one another and at
least one of them, is proved by induction on a set of lengths (`SetInduction`), as
the library's rule for naturals takes an operator the provers cannot
instantiate.

For `elf_get_data`, with any executables, any names of sections and malloc failing
as it likes:

| Theorem | Says |
|---|---|
| `ElfTypeCorrect` | types; `strndxsize` stays in 32 bits, and all of the array is written when it is returned |
| `FreesAreOfLiveBlocks` | what is freed is allocated, and nothing is freed twice |
| `NothingElseLeaks` | everything is freed, but for the string table of a file whose check fails behind it |
| `LengthsAreOfBlocks` | the length of a section is that of its block, 0 only without one |
| `SectionsAreRight` | a section returned is the region of the first header of its name; none is missing but for want of memory or a header that can be read |

*The argument for the ELF reader.* `ElfInv` says who owns the blocks. While a header
is being read it owns its string table (`Table`), later the pointer it keeps means
nothing; the array belongs to `elf_get_data`, and each section that was looked for
(`Past`) has a block or neither block nor length (`Entry`). What an owner points to is
allocated (`Live`), what is allocated has an owner (`Owned`), and no two owners have
the same (`Apart`). A block just allocated is none there was, as its number is
new (`Blocks`). The properties look at the freeing only and are not inductive: that
the table is still there when `freeelf` comes rests on all steps before.

*The argument for the sections.* `Shape` says that what has been read so far is what is in the
file: its class and byte order, the numbers of its header, the place and the 32-bit
size of its string table. Once the check has succeeded the file is `Whole`, and as
every section reads the file again from the beginning, a later reading fails only for
want of memory. The search then ends at the first header that has the name or
has none (`SearchMeant`), and what it reads there is what is meant by the name
(`MeantRegions`). `Results` says so of every section that is `Past`; the other sections
keep what they got, as each is stored in its own place (`SameResults`).

For `tbt`, with any number of processes, any calls and any files:

| Theorem | Says |
|---|---|
| `FilesStay` | a file that was there before is never changed |
| `StoresOneBeyondAtMost` | the parser stores at most one entry behind its array |
| `TbtTypeCorrect` | types; a buffer has no line without its end, no more entries are counted than lines read, and the array has its size |
| `ListsFall` | every list is sorted, although its order cuts differences to an int |
| `HashesBelong` | no entry of a file with one writer has a hash of another file than the one it is named after; what was found beyond a name that was cut off can be a hash of the first entry, and is never compared |
| `WhatIsWrittenIsRead` | of a file one run has completed the reader has one entry for every executable, with its hashes, and no wrong number of entries |
| `EveryPairIsListed` | of a settled file without a missing hash every ordered pair is listed with the likeness of its hashes, once in each section, and no other pair |

*The argument for tbt.* The first needs that nobody is on the way to a file that was
there (`Aside`): a process is in front of the `fopen` only if the file was missing when
it looked, and as existing files stay, one that was there cannot have been
missing. `OUTPUT` is then a new file too, and every write goes to `OUTPUT`. The second
is a bound on two counters of each process, which the check of tbt.c:222 keeps
although it comes late; what others do to the file plays no part in it.

*The argument for the lists.* Differences below 1 count as equal for `compare_result`, which
is an order only on numbers that are never so close. Percentages of CTPH are whole;
those of SimHashes are `Rescaled` distances, and two distances are at least a bit
apart, worth 100 / (4 * SIM_HASH_SIZE), which is 1 or more up to 25 bytes
(`RescaledApart`). So neighbours that compare as ordered are ordered, the lines printed
for an entry fall, and a heading stands between two lists.

*The argument for the names.* `HashesMatchNames` speaks of what a reader has stored, and is
far from inductive. `ReadInv` has three parts more. (1) `WritesWell`: if a process is the
only one to have opened a file, the file is what it has flushed of its output,
and perhaps a line that is cut off (`Written`). In the output each hash stands under its
name (`HashesUnder`), so the file is a hash file, whenever one looks (`KnownIsFile`); a
file that was there is one by `InputAssumption` and is never changed. (2) `Extends`: such a
file only grows, and what has been read of it stays; so a reader is not disturbed
by the writer. (3) `ReadsWell`: the line a reader holds is the one before its
place, read whole (`Reading`), the entry it began last has the name that this line
stands under (`Parses`), and what was stored agrees with it (`Matched`). The line left
over from the counting is parsed at place 0, where there is no such name: it may begin
an entry, and then no hash of a line is stored until a name is read, as the first
line of a hash file is none; but if it is a name that was cut off, the entry may have
`Scraps`. That these are not compared needs the numbers. Who has a scrap has begun, besides the entry it is
in, one for each name (`Counted`) in the lines parsed since, and so is one ahead
(`Scraps`). The line the counting ended with whole is no name, as a name that is cut off
comes behind a hash (`CutOff`); so all names that were counted are parsed before the
line that meets feof, and the check of tbt.c:222 finds more entries than were
counted before the loop can end (`ScrapsGoOn`), unless none was counted. With two writers nothing of this holds, and
`HashesMatchNames` does not say it does.

*The argument for what is read back.* `BackInv` adds to `ReadInv` what the writer has still to do
and how far the reader has come, neither of which the property mentions. On one
side `WritesWhole`: what a run has printed are the entries of different executables, one
after the other and of one size (`Blocks`), and their names and those still to
come are all that the directory has; when it ends without an error none is to come and
all of it is in the file. On the other side `ReadsBack`, for a file that nobody writes
any more, nor will (`settled` stays true, as who has yet to open the file finds it
there): if it has the entries of some names, whichever they are, the reader
`Follows` them. While it counts, the entries begun in the lines read so far are those counted
(`Counts`). While it parses, each entry holds as much as the lines say that were taken
of it (`Stored`), the line in `line_buf` being one behind; the line left over from the
counting is the last of the file, a hash, and is dropped as no entry has begun.
All is stored in the end because `feof` holds only when a read has met the end, so that
the last line is still parsed. The two sides meet in the file: it is what the only writer
has printed.

*The argument for the pairs.* `ListsEveryPair` looks at a list when it is complete, and at the
entries only if no hash is missing. `PairInv` adds to `BackInv` what holds on the way there.
(1) `Nameless`: a run that compares prints neither names nor hashes, so that
a file of which it is the only writer has no entries. (2) `Tells`: while a settled file is parsed, either all entries
were begun by names of the file, each in a line of its own (`FromLines`), or the line left over
from the counting began the first (`FromLeftOver`), which then stays without a hash but for
scraps (`Hashless`), as no hash comes before a name, and is not the last. By `HashesMatchNames`
no entry that is compared has a scrap (`Clean`). So once parsed the entries differ or one is
`Bare`, and the property asks nothing of the latter (`Apart`). That the names in a file differ is
`InputAssumption` for one that was there, and for one a run has printed follows from
`Blocks`. (3) `Lists`: what has been printed are the scores of the lists no longer in
`work`, each once (`Scored`); no list is in `work` twice, and it is empty in the end. Two
scores of different lists differ, as the entries differ in their names. What a list holds
does not depend on its order: sorting is a permutation. Last, that what `compare_hash`
makes of two SimHashes, with the cut at half, is the share of equal bits the property
computes (`DifferIsHamming`, `RescaledIs`, `WorthIsExpected`), for which a bit must be worth a whole number of the
steps in which percentages are counted: of the 100 * `Percent` = 3200 steps each of the 128
bits has 25.

*Assumptions.* `CountEnd` takes the two `line_buf` to be at one place of the stack
(section 2). `HashThenCompare`, `HashesMatchNames` and `ListsEveryPair`, with
`WhatIsWrittenIsRead`, `HashesBelong` and `EveryPairIsListed`, are about a build where they are, and so is the run `tbt_stack`: elsewhere the
parser begins with whatever was in its buffer, and a run of `tbt` may miscount
any file. The assumptions on the constants are `TableAssumption`, `NullIsNoTable`, `NullIsNoHash`, `SimHashAssumption`, `CtphAssumption`,
`SimHashCompareAssumption`,
`ElfAssumption`, `TbtAssumption` and `InputAssumption`, which TLC evaluates in the runs of their modules:
types of the constants, `Null` outside of them, `Unset` no executable, `Scrap` the hash of none, a SimHash
that is not `NullText` a text of all 32 digits, each bit of it a whole number of the
steps of a percentage, `MaxSize` below the mark of an empty
table (2^64 - 1), a text of `SIGN_LENGTH` longer than `HALF_LENGTH`, a window and a
`MIN_BLOCK_SIZE` together, as 64 is than 32, 7 and 3; and that the numbers of an
executable, read in its byte order, are natural numbers, because `leget` and
`beget` are recursive functions, of which the provers can show nothing. For the same
reason `PlainAssumption` says what `plain` is, the names and regions a file was made
from: the numbers of its headers in its byte order, with the string the table holds
for a name and no name beyond the 32-bit size of the table. It is about those files only
whose announced headers are all there; in the others no section is read.
`ExpansionKeepsShingles`, `ScanMissesNothing`, `HashIsTheMajority` and
`TableImplementsSet` are about a malloc that does not fail, as their properties are
false otherwise; in the program a run out of memory during an expansion loses
windows.

### Only model-checked

- Liveness (`Terminates` of each module): the prover has no rules for it here.
- Of `ElfManager` `ReadsExecutables`: `file.valid` says how an instance was made and is no
  formula over its bytes.

## 5. What else the models show

These follow from the code, and no run of its own states them:

- The table has no tombstones: an insertion after a removal can store a digest a
  second time (shingle_table.c:169), although shingle_table.h calls it a set.
  `simhash_compute` never inserts after it has removed, and `DigestsVoteOnce` shows
  that it is safe from it.
- An expansion that fails half-way for want of memory loses shingles and is
  reported as done (shingle_table.c:98).
- A text is full at SIGN_LENGTH - 1 characters, and the engine then stops
  reading: the rest of the data is not hashed (ctph.c:145 and 171).
- `leftmost` gives the lowest 1 of the highest byte that is not 0, and not the
  highest 1 its comment speaks of (ctph.c:203 and 212): the search for the block
  size may begin up to 128 times lower than with the highest 1.
- `WindowCount` is the loop bound of simhash.c, `len - sh_size`: the last window of a
  section, and every section no longer than its window, are not hashed.
- Relocatable objects have no program headers, and their `phentsize`, 0, is not
  the one the reader asks for (elf.c:141): they are all rejected, although their
  type is among those accepted.
- A name that was cut off is shortened by a character (tbt.c:263), and the parser reads
  on beyond its end: a piece of an older line becomes a hash of that entry (tbt.c:233
  and 265). `HashesMatchNames` shows that such a piece is never compared, with the
  buffer as section 2 has it.
- Two entries of the same name are not compared with each other (tbt.c:113).

## 6. Plan

Modelled are all components with a state of their own, and each safety property the
passing runs check is proved but `ReadsExecutables`. For it the files would have to be
described by their bytes, with the byte orders as operators the provers can unfold.
Further off are the write that fails while a run goes on, and hash files that were
made by hand.

## 7. Not modelled

- Of `tbt.c` the parsing of the options and the texts of help, version and messages:
  the options of a call are an input. A read or write that fails (`ferror`, a full
  disk): fprintf's result is not looked at anywhere. A directory as the argument of a
  comparison, and hash files made by hand, such as ones with blank lines or
  without tabs: the files of `Tbt` are what `tbt` writes and what a kill leaves of it.
  Names of files with tabs or newlines. stdout, which nobody reads back.
- `qsort`: taken to be a merge sort, which has compared any two neighbours of its
  result. With an order that is one, as `ResultsSorted` shows, every sort does the
  same.
- malloc in `simhash_compare` and `ctph_compare`: it is taken to succeed.
- Of libelf what `tbt` never calls: the tables and texts for printing (`dat.h`,
  `print.c`, `str.c`), and the writing of numbers, which is used only to make test
  files. A file is taken not to change while it is read.
- The values of MD5, Adler-32 and FNV, abstracted to digests, multiples and pieces.
- `ctph_test.c` and the other tests were read for what they assert; the Python
  driver only checks that files and messages appear.

## 8. Running it

    tlc -config ctph.cfg MCCtph.tla          # any row of section 3
    tlapm SimHashProofs.tla
