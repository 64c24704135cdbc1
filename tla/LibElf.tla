------------------------------- MODULE LibElf -------------------------------
(***************************************************************************)
(* How src/include/libelf/elf.c reads an executable, of either class and   *)
(* either byte order.  A file is what it holds at the places the reader    *)
(* looks:                                                                  *)
(*   ident    the identification, Null in a file shorter than it,          *)
(*   ehdr     the ELF header, likewise,                                    *)
(*   shdrs    the section headers that are really there, in order,         *)
(*   phdrs    how many program headers are really there,                   *)
(*   strings  <<offset, index>> -> the string that starts at this index of *)
(*            the region at this offset,                                   *)
(*   length   the length of the file,                                      *)
(*   plain, valid  the section headers that are announced and whether all  *)
(*            is in order, as the maker of the file meant it, for the      *)
(*            properties: no function of the reader looks at them.         *)
(* The numbers of the headers are the bytes they have in the file.         *)
(*                                                                         *)
(* The reader keeps what it has read in fp.  A block of memory is a record *)
(* of the region of the file it was allocated for and of the number of its *)
(* malloc, so that no two blocks are the same.                             *)
(***************************************************************************)
EXTENDS Bele

CONSTANT Null

ELFDATA2LSB == 1
ELFDATA2MSB == 2
EV_CURRENT == 1
SHN_UNDEF == 0

(* The classes that have functions to read them, 32 and 64 bits, with the  *)
(* sizes of their headers and the width of an offset.                      *)
class ==
  <<[width |-> 4, ehsize |-> 52, shentsize |-> 40, phentsize |-> 32],
    [width |-> 8, ehsize |-> 64, shentsize |-> 64, phentsize |-> 56]>>

(* The conversion that the table data has for a byte order.                *)
get(order, bytes) ==
  IF order = ELFDATA2LSB THEN leget(bytes) ELSE beget(bytes)

(* readelf and readelfsection begin with a memset.                         *)
Zero ==
  [class |-> 0, data |-> 0, shnum |-> 0, phnum |-> 0, shstrndx |-> 0,
   name |-> 0, offset |-> 0, size |-> 0, strndxsize |-> 0, strndx |-> Null]

(* readident succeeds.                                                     *)
Identified(f) ==
  /\ f.ident # Null
  /\ f.ident.magic
  /\ f.ident.version = EV_CURRENT
  /\ f.ident.class \in DOMAIN class
  /\ f.ident.data \in {ELFDATA2LSB, ELFDATA2MSB}

(* Mutant: the sizes of the headers are compared before the conversion.    *)
HeaderAcceptedUnconverted(f, fp) ==
  /\ f.ehdr # Null
  /\ f.ehdr.type \in {"REL", "EXEC", "DYN", "CORE"}
  /\ \A field \in {"ehsize", "shentsize", "phentsize"} :
       leget(f.ehdr[field]) = class[fp.class][field]

(* readelf32ehdr or readelf64ehdr succeeds.                                *)
HeaderAccepted(f, fp) ==
  /\ f.ehdr # Null
  /\ f.ehdr.type \in {"REL", "EXEC", "DYN", "CORE"}
  /\ \A field \in {"ehsize", "shentsize", "phentsize"} :
       get(fp.data, f.ehdr[field]) = class[fp.class][field]

WithHeader(f, fp) ==
  [fp EXCEPT !.shnum    = get(fp.data, f.ehdr.shnum),
             !.phnum    = get(fp.data, f.ehdr.phnum),
             !.shstrndx = get(fp.data, f.ehdr.shstrndx)]

(* Section header k, the first being 0, can be read.                       *)
HasShdr(f, k) == k < Len(f.shdrs)

(* unpackelf32shdr, unpackelf64shdr: the fields that are looked at.        *)
Shdr(f, fp, k) ==
  [field \in {"name", "offset", "size"} |->
     get(fp.data, f.shdrs[k + 1][field])]

WithShdr(f, fp, k) ==
  [fp EXCEPT !.name   = Shdr(f, fp, k).name,
             !.offset = Shdr(f, fp, k).offset,
             !.size   = Shdr(f, fp, k).size]

(* Mutant: strndxsize has 64 bits.                                        *)
WithStrndxWide(f, fp) ==
  [fp EXCEPT !.offset     = Shdr(f, fp, fp.shstrndx).offset,
             !.strndxsize = Shdr(f, fp, fp.shstrndx).size]

(* readelf32strndx, readelf64strndx: strndxsize has 32 bits.               *)
WithStrndx(f, fp) ==
  [fp EXCEPT !.offset     = Shdr(f, fp, fp.shstrndx).offset,
             !.strndxsize = Shdr(f, fp, fp.shstrndx).size % ByteValues ^ 4]

(* Mutant: a region without bytes counts as read.                          *)
ReadableOrEmpty(f, offset, size) == offset + size <= f.length

(* What fread can read in one piece, which is never nothing.               *)
Readable(f, offset, size) == size > 0 /\ offset + size <= f.length

(* getstr finds a string for the section header k.                         *)
Named(f, fp, k) == Shdr(f, fp, k).name < fp.strndxsize

(* The string it finds, "" where the table has none.                       *)
getstr(f, fp, k) ==
  LET place == <<fp.strndx.offset, Shdr(f, fp, k).name>>
  IN IF place \in DOMAIN f.strings THEN f.strings[place] ELSE ""

(* Where the loop of readelfsect may end: at a header that cannot be read, *)
(* has no name, or has the name that is sought.                            *)
Stops(f, fp, name) ==
  {k \in 0 .. fp.shnum - 1 :
     ~HasShdr(f, k) \/ ~Named(f, fp, k) \/ getstr(f, fp, k) = name}

(* Mutant: the search goes on behind a header that has no name.            *)
SearchPastNameless(f, fp, name) ==
  {k \in Stops(f, fp, name) :
     /\ HasShdr(f, k) /\ Named(f, fp, k)
     /\ \A j \in 0 .. k - 1 : ~Named(f, fp, j) \/ getstr(f, fp, j) # name}

(* The header it ends at, if that has the name: a set of one or none.      *)
Search(f, fp, name) ==
  {k \in Stops(f, fp, name) :
     /\ HasShdr(f, k) /\ Named(f, fp, k)
     /\ \A j \in 0 .. k - 1 : j \notin Stops(f, fp, name)}

=============================================================================
