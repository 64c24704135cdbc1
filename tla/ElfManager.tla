----------------------------- MODULE ElfManager -----------------------------
(***************************************************************************)
(* elf_get_data, elf_get_data_size and elf_free of src/elf_manager.c over  *)
(* the reader of LibElf.  The header is checked by reading it all once,    *)
(* with readelf; then every section is looked for from the beginning of    *)
(* the file, with readelfsection.  Both go through the same functions and  *)
(* differ in what follows the string table and in what follows an error.   *)
(***************************************************************************)
EXTENDS LibElf

CONSTANTS
  Files,         (* The executables, as LibElf reads them.                 *)
  SECTION_NAME,  (* The names of the sections, in order.                   *)
  Garbage        (* What is in a block before it is written.               *)

SECTION_END == Len(SECTION_NAME)

(* A block of memory.                                                      *)
Block == [id : Nat, offset : Nat, size : Nat]

(* Null and Garbage are no block; a number in a file, read in its byte     *)
(* order, is a natural number.                                             *)
ASSUME ElfAssumption ==
  /\ SECTION_NAME \in Seq(STRING)
  /\ Garbage # Null /\ {Null, Garbage} \cap Block = {}
  /\ ByteValues ^ 4 \in Nat \ {0}
  /\ \A f \in {g \in Files : Identified(g)} :
       /\ Len(f.shdrs) \in Nat
       /\ f.ehdr # Null => /\ get(f.ident.data, f.ehdr.shstrndx) \in Nat
                           /\ get(f.ident.data, f.ehdr.shnum) \in Nat
       /\ \A k \in 1 .. Len(f.shdrs) :
            /\ get(f.ident.data, f.shdrs[k].offset) \in Nat
            /\ get(f.ident.data, f.shdrs[k].size) \in Nat

VARIABLES
  file,          (* The file, the argument of elf_get_data.                *)
  scarce,        (* Memory is scarce: any malloc may fail.                 *)
  pc,
  caller,        (* Who reads: the check of the header or the sections.    *)
  i,             (* The section sought.                                    *)
  fp,            (* fhdr                                                   *)
  heap,          (* The blocks that are allocated.                         *)
  mallocs,       (* How many blocks there have been.                       *)
  array,         (* The block of data, Null when not allocated.            *)
  data           (* Section -> [data, len], what the block holds.          *)

vars == <<file, scarce, pc, caller, i, fp, heap, mallocs, array, data>>

Section == 1 .. SECTION_END

-----------------------------------------------------------------------------

NewBlock(offset, size) == [id |-> mallocs, offset |-> offset, size |-> size]

(* A block is allocated, or the others stay what they are.                 *)
Allocate(block) == heap' = heap \cup {block} /\ mallocs' = mallocs + 1

NoAllocation == UNCHANGED <<heap, mallocs>>

(* newsection returns a block, or Null: there is no memory, or the file    *)
(* does not hold what should be read and the block is freed again.         *)
newsection(offset, size, result) ==
  \/ /\ Readable(file, offset, size)
     /\ result = NewBlock(offset, size)
     /\ Allocate(result)
  \/ /\ scarce \/ ~Readable(file, offset, size)
     /\ result = Null
     /\ NoAllocation

Init ==
  /\ file \in Files
  /\ scarce \in BOOLEAN
  /\ pc = "ident"
  /\ caller = "check"
  /\ i = 0
  /\ fp = Zero
  /\ heap = {}
  /\ mallocs = 0
  /\ array = Null
  /\ data = [s \in Section |-> [data |-> Garbage, len |-> Garbage]]

(* What a reading that has come to nothing leads to.  readelfsection       *)
(* returns NULL and the header is freed; elf_check_header returns false.   *)
Fail ==
  \/ /\ caller = "check"
     /\ pc' = "done"
     /\ UNCHANGED data
  \/ /\ caller = "section"
     /\ pc' = "freeelf"
     /\ data' = [data EXCEPT ![i] = [data |-> Null, len |-> 0]]

readident ==
  /\ pc = "ident"
  /\ \/ /\ Identified(file)
        /\ fp' = [fp EXCEPT !.class = file.ident.class,
                            !.data  = file.ident.data]
        /\ pc' = "ehdr"
        /\ UNCHANGED data
     \/ ~Identified(file) /\ Fail /\ UNCHANGED fp
  /\ UNCHANGED <<file, scarce, caller, i, heap, mallocs, array>>

readelfehdr ==
  /\ pc = "ehdr"
  /\ \/ /\ HeaderAccepted(file, fp)
        /\ fp' = WithHeader(file, fp)
        /\ pc' = "strndx"
        /\ UNCHANGED data
     \/ ~HeaderAccepted(file, fp) /\ Fail /\ UNCHANGED fp
  /\ UNCHANGED <<file, scarce, caller, i, heap, mallocs, array>>

HasStrndx == fp.shstrndx # SHN_UNDEF /\ HasShdr(file, fp.shstrndx)

readelfstrndx ==
  /\ pc = "strndx"
  /\ \/ /\ HasStrndx
        /\ \E read \in {WithStrndx(file, fp)} :
             \E table \in {Null, NewBlock(read.offset, read.strndxsize)} :
               /\ newsection(read.offset, read.strndxsize, table)
               /\ fp' = [read EXCEPT !.strndx = table]
               /\ \/ /\ table # Null
                     /\ pc' = IF caller = "check" THEN "shdrs" ELSE "sect"
                     /\ UNCHANGED data
                  \/ table = Null /\ Fail
     \/ ~HasStrndx /\ Fail /\ NoAllocation /\ UNCHANGED fp
  /\ UNCHANGED <<file, scarce, caller, i, array>>

(* The rest of readelf, which reads all headers and keeps none.            *)
readelfshdrs ==
  /\ pc = "shdrs"
  /\ \/ /\ fp.shnum <= Len(file.shdrs)
        /\ fp' = IF fp.shnum = 0 THEN fp ELSE WithShdr(file, fp, fp.shnum - 1)
        /\ pc' = "phdrs"
        /\ UNCHANGED data
     \/ fp.shnum > Len(file.shdrs) /\ Fail /\ UNCHANGED fp
  /\ UNCHANGED <<file, scarce, caller, i, heap, mallocs, array>>

readelfphdrs ==
  /\ pc = "phdrs"
  /\ \/ fp.phnum <= file.phdrs /\ pc' = "freeelf" /\ UNCHANGED data
     \/ fp.phnum > file.phdrs /\ Fail
  /\ UNCHANGED <<file, scarce, caller, i, fp, heap, mallocs, array>>

Sought == Search(file, fp, SECTION_NAME[i])

(* elf_get_data puts the section into the array.                           *)
Keep(sect, len) ==
  /\ data' = [data EXCEPT ![i] = [data |-> sect, len |-> len]]
  /\ pc' = "freeelf"

(* Mutant: readelfsection frees the table before it returns NULL.          *)
readelfsectFrees ==
  /\ pc = "sect"
  /\ \/ \E k \in Sought :
          /\ fp' = WithShdr(file, fp, k)
          /\ \E sect \in {Null, NewBlock(fp'.offset, fp'.size)} :
               /\ newsection(fp'.offset, fp'.size, sect)
               /\ \/ sect # Null /\ Keep(sect, fp'.size)
                  \/ sect = Null /\ Fail
     \/ /\ Sought = {}
        /\ Fail
        /\ heap' = heap \ {fp.strndx}
        /\ UNCHANGED <<mallocs, fp>>
  /\ UNCHANGED <<file, scarce, caller, i, array>>

(* The rest of readelfsection.                                             *)
readelfsect ==
  /\ pc = "sect"
  /\ \/ \E k \in Sought :
          /\ fp' = WithShdr(file, fp, k)
          /\ \E sect \in {Null, NewBlock(fp'.offset, fp'.size)} :
               /\ newsection(fp'.offset, fp'.size, sect)
               /\ \/ sect # Null /\ Keep(sect, fp'.size)
                  \/ sect = Null /\ Fail
     \/ Sought = {} /\ Fail /\ NoAllocation /\ UNCHANGED fp
  /\ UNCHANGED <<file, scarce, caller, i, array>>

(* Mutant: the check frees nothing when it has succeeded either.           *)
freeelfNothing ==
  /\ pc = "freeelf"
  /\ pc' = IF caller = "check" THEN "malloc" ELSE "next"
  /\ UNCHANGED <<file, scarce, caller, i, fp, heap, mallocs, array, data>>

(* fhdr keeps the pointer to the table.                                    *)
freeelf ==
  /\ pc = "freeelf"
  /\ heap' = heap \ {fp.strndx}
  /\ pc' = IF caller = "check" THEN "malloc" ELSE "next"
  /\ UNCHANGED <<file, scarce, caller, i, fp, mallocs, array, data>>

MallocData ==
  /\ pc = "malloc"
  /\ \/ /\ array' = NewBlock(0, 0)
        /\ Allocate(array')
        /\ pc' = "next"
     \/ /\ scarce
        /\ pc' = "done"
        /\ NoAllocation
        /\ UNCHANGED array
  /\ caller' = "section"
  /\ UNCHANGED <<file, scarce, i, fp, data>>

(* Mutant: the same section again.                                         *)
NextSectionStays ==
  /\ pc = "next"
  /\ i < SECTION_END
  /\ i' = IF i = 0 THEN 1 ELSE i
  /\ fp' = Zero
  /\ pc' = "ident"
  /\ UNCHANGED <<file, scarce, caller, heap, mallocs, array, data>>

NextSection ==
  /\ pc = "next"
  /\ i < SECTION_END
  /\ i' = i + 1
  /\ fp' = Zero
  /\ pc' = "ident"
  /\ UNCHANGED <<file, scarce, caller, heap, mallocs, array, data>>

(* elf_get_data returns; the hashes are computed from data, beginning with *)
(* the size of all of it.                                                  *)
Return ==
  /\ pc = "next"
  /\ i = SECTION_END
  /\ pc' = "use"
  /\ UNCHANGED <<file, scarce, caller, i, fp, heap, mallocs, array, data>>

elf_free ==
  /\ pc = "use"
  /\ heap' = heap \ ({data[s].data : s \in {t \in Section : data[t].len # 0}}
                       \cup {array})
  /\ pc' = "done"
  /\ UNCHANGED <<file, scarce, caller, i, fp, mallocs, array, data>>

Done == pc = "done" /\ UNCHANGED vars

Next ==
  \/ readident
  \/ readelfehdr
  \/ readelfstrndx
  \/ readelfshdrs
  \/ readelfphdrs
  \/ readelfsect
  \/ freeelf
  \/ MallocData
  \/ NextSection
  \/ Return
  \/ elf_free
  \/ Done

Spec == Init /\ [][Next]_vars

(* The program is one thread that runs on: a step that can be taken is.    *)
FairSpec == Spec /\ WF_vars(Next)

-----------------------------------------------------------------------------
(***************************************************************************)
(* Properties.                                                             *)
(***************************************************************************)

(* Once elf_get_data has returned, all of the array is written.            *)
Written == pc = "use" =>
  \A s \in Section : data[s].len \in Nat /\ data[s].data # Garbage

ElfTypeOK ==
  /\ file \in Files
  /\ scarce \in BOOLEAN
  /\ pc \in {"ident", "ehdr", "strndx", "shdrs", "phdrs", "sect", "freeelf",
             "malloc", "next", "use", "done"}
  /\ caller \in {"check", "section"}
  /\ i \in 0 .. SECTION_END
  /\ fp.strndxsize \in 0 .. ByteValues ^ 4 - 1
  /\ mallocs \in Nat
  /\ \A block \in heap : block.id \in 0 .. mallocs - 1
  /\ Written

(* Every free is of a block that is allocated: freeelf is called whether   *)
(* readelfsection has succeeded or not (elf_manager.c:59), with a header   *)
(* that every reading clears, and elf_free frees what has a length.        *)
FreesLiveBlocks ==
  /\ pc = "freeelf" /\ fp.strndx # Null => fp.strndx \in heap
  /\ pc = "use" => /\ array \in heap
                   /\ \A s \in Section : data[s].len # 0 => data[s].data \in heap
                   /\ \A s, t \in Section :
                        s # t /\ data[s].len # 0 => data[s].data # data[t].data

(* Everything is freed in the end, with one exception: the check of the    *)
(* header does not free it after an error (elf_manager.c:27), and the      *)
(* string table is lost if the error came behind it.                       *)
OnlyTheCheckLeaks ==
  pc = "done" =>
    \/ heap = {}
    \/ /\ caller = "check"
       /\ heap = {fp.strndx}
       /\ fp.shnum > Len(file.shdrs) \/ fp.phnum > file.phdrs

(* The length kept beside a section is that of its block, and a section    *)
(* that is not there has none: elf_free goes by the length, so that a      *)
(* block of length 0 would never be freed, and the sum of the lengths,     *)
(* from which the block size of the hash is computed, counts what can be   *)
(* read.                                                                   *)
LengthsOfBlocks ==
  pc = "use" =>
    \A s \in Section :
      IF data[s].data = Null
        THEN data[s].len = 0
        ELSE data[s].len = data[s].data.size /\ data[s].len > 0

(* A number of f, in its byte order.                                       *)
Number(f, bytes) == get(f.ident.data, bytes)

(* All the section headers that f announces are there, and the one of the  *)
(* string table is among them.                                             *)
Announced(f) ==
  /\ Identified(f)
  /\ f.ehdr # Null
  /\ Number(f, f.ehdr.shnum) <= Len(f.shdrs)
  /\ Number(f, f.ehdr.shstrndx) \in 1 .. Len(f.shdrs) - 1

(* The header of the string table, and the size of that in 32 bits.        *)
StringTable(f) == f.shdrs[Number(f, f.ehdr.shstrndx) + 1]

StringsSize32(f) == Number(f, StringTable(f).size) % ByteValues ^ 4

(* The string of header k, the first being 1: Null beyond the table.       *)
NameOf(f, k) ==
  LET place == <<Number(f, StringTable(f).offset), Number(f, f.shdrs[k].name)>>
  IN IF ~(place[2] < StringsSize32(f)) THEN Null
     ELSE IF place \in DOMAIN f.strings THEN f.strings[place] ELSE ""

(* What the maker of a file meant are its numbers: the conversions undo    *)
(* one another, and plain is what the headers announce.                    *)
ASSUME PlainAssumption ==
  /\ Null # ""
  /\ \A s \in Section : SECTION_NAME[s] # Null
  /\ \A f \in {g \in Files : Announced(g)} :
       /\ \A place \in DOMAIN f.strings : f.strings[place] # Null
       /\ DOMAIN f.plain = 1 .. Number(f, f.ehdr.shnum)
       /\ \A k \in DOMAIN f.plain :
            /\ f.plain[k].name = NameOf(f, k)
            /\ f.plain[k].offset = Number(f, f.shdrs[k].offset)
            /\ f.plain[k].size = Number(f, f.shdrs[k].size)

(* What the maker of the file has put into the section of a name: the      *)
(* region of the first header with this name.  The reader gives up on a    *)
(* header without a name, an empty section and one beyond the end.         *)
Meant(name) ==
  {<<file.plain[k].offset, file.plain[k].size>> :
     k \in {k \in DOMAIN file.plain :
             /\ file.plain[k].name = name
             /\ \A j \in 1 .. k - 1 : file.plain[j].name \notin {name, Null}
             /\ file.plain[k].size > 0
             /\ file.plain[k].offset + file.plain[k].size <= file.length}}

(* The sections are those of the file, by the first header of their name   *)
(* (elf.c:653); and unless there was no memory, none is missing.  The file *)
(* is read from the beginning for each of them, and a section that is not  *)
(* there must not end the search for the next.                             *)
SectionsAreTheFiles ==
  pc = "use" =>
    \A s \in Section :
      IF data[s].data = Null
        THEN scarce \/ Meant(SECTION_NAME[s]) = {}
        ELSE <<data[s].data.offset, data[s].data.size>>
               \in Meant(SECTION_NAME[s])

(* With enough memory exactly the executables with whole headers are read, *)
(* of either class and in either byte order: the header is accepted by     *)
(* comparing sizes that went through the conversion the file asks for      *)
(* (elf.c:129-145), which rejects all files if it is the wrong one.        *)
ReadsExecutables == pc = "done" /\ ~scarce => (array # Null <=> file.valid)

(* elf_get_data returns and what it returned is freed.                     *)
Terminates == <>(pc = "done")

=============================================================================
