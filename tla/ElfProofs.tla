----------------------------- MODULE ElfProofs ------------------------------
(***************************************************************************)
(* Proofs about ElfManager, for any files and section names, whatever      *)
(* malloc does: every free is of a live block, the lengths are those of    *)
(* the blocks, and only the check of the header loses one.                 *)
(*                                                                         *)
(* The invariant says who owns the blocks: the header while it is read     *)
(* (Table), the array, and the sections that were read.  Each block has    *)
(* one owner, and what an owner points to is there.                        *)
(***************************************************************************)
EXTENDS ElfManager, TLAPS

Reading == {"ident", "ehdr", "strndx", "shdrs", "phdrs", "sect", "freeelf"}

(* The table the header owns; afterwards its pointer means nothing.        *)
Table == IF pc \in Reading THEN fp.strndx ELSE Null

HeaderField ==
  {"class", "data", "shnum", "phnum", "shstrndx", "name", "offset", "size",
   "strndxsize", "strndx"}

Header ==
  /\ file \in Files
  /\ DOMAIN fp = HeaderField
  /\ pc \in {"ehdr", "strndx", "sect"} =>
       Identified(file) /\ fp.data = file.ident.data
  /\ pc = "strndx" => fp.shstrndx \in Nat
  /\ pc \in {"ident", "ehdr", "strndx"} => fp.strndx = Null
  /\ pc \in {"shdrs", "phdrs", "sect"} => fp.strndx # Null

Stages ==
  /\ pc \in Reading \cup {"malloc", "next", "use", "done"}
  /\ caller \in {"check", "section"}
  /\ SECTION_END \in Nat /\ i \in 0 .. SECTION_END
  /\ pc \in {"shdrs", "phdrs", "malloc"} => caller = "check"
  /\ pc \in {"sect", "next", "use"} => caller = "section"
  /\ caller = "check" => i = 0
  /\ caller = "section" /\ pc \in Reading => i \in Section
  /\ pc = "use" => i = SECTION_END
  /\ pc # "done" => (caller = "check" <=> array = Null)

Blocks ==
  /\ mallocs \in Nat
  /\ heap \subseteq Block
  /\ \A b \in heap : b.id < mallocs

(* The sections that were looked for already.                              *)
Past(s) == s < i \/ (s = i /\ pc \in {"freeelf", "next", "use"})

Entry(s) ==
  /\ Past(s) => \/ data[s].data = Null /\ data[s].len = 0
                \/ /\ data[s].data \in heap
                   /\ data[s].len = data[s].data.size
                   /\ data[s].len > 0
  /\ ~Past(s) => data[s].data = Garbage

Entries == DOMAIN data = Section /\ \A s \in Section : Entry(s)

Live == {Table, array} \subseteq heap \cup {Null}

Owned == \A b \in heap : b \in {Table, array} \/ \E s \in Section : b = data[s].data

Apart ==
  /\ Table = array => Table = Null
  /\ \A s \in Section : data[s].data \in heap =>
       /\ data[s].data \notin {Table, array}
       /\ \A t \in Section : s # t => data[s].data # data[t].data

Ownership == pc # "done" => Entries /\ Live /\ Owned /\ Apart

ElfInv == Header /\ Stages /\ Blocks /\ Ownership /\ OnlyTheCheckLeaks

-----------------------------------------------------------------------------

(* The invariant holds before anything is read.                            *)
THEOREM ElfInvInit ==
  Init => ElfInv
<1> SUFFICES ASSUME Init  PROVE ElfInv
  OBVIOUS
<1> USE DEF Init
<1>1. SECTION_END \in Nat
  BY ElfAssumption DEF SECTION_END
<1>2. Header
  BY DEF Header, Zero, HeaderField
<1>3. Stages
  BY <1>1 DEF Stages, Reading
<1>4. Blocks
  BY DEF Blocks
<1>5. \A s \in Section : ~Past(s) /\ data[s].data = Garbage
  BY <1>1 DEF Past, Section
<1>6. DOMAIN data = Section
  OBVIOUS
<1>7. Table = Null
  BY DEF Table, Reading, Zero
<1>8. Entries /\ Live /\ Owned /\ Apart
  BY <1>5, <1>6, <1>7 DEF Entries, Entry, Live, Owned, Apart
<1> QED  BY <1>2, <1>3, <1>4, <1>8 DEF ElfInv, Ownership, OnlyTheCheckLeaks

(* A block just allocated is no block there was.                           *)
LEMMA NewBlockIsNew ==
  ASSUME Blocks, NEW offset \in Nat, NEW size \in Nat
  PROVE  /\ NewBlock(offset, size) \in Block
         /\ NewBlock(offset, size).size = size
         /\ NewBlock(offset, size).id = mallocs
         /\ NewBlock(offset, size) \notin heap \cup {Null, Garbage}
<1>1. /\ NewBlock(offset, size) \in Block
      /\ NewBlock(offset, size).size = size
      /\ NewBlock(offset, size).id = mallocs
  BY DEF Blocks, NewBlock, Block
<1>2. NewBlock(offset, size) \notin heap
  BY <1>1 DEF Blocks
<1> QED  BY <1>1, <1>2, ElfAssumption

LEMMA AllocateKeepsBlocks ==
  ASSUME Blocks, NEW block \in Block, block.id = mallocs,
         heap' = heap \cup {block}, mallocs' = mallocs + 1
  PROVE  Blocks'
<1>1. mallocs' \in Nat /\ heap' \subseteq Block
  BY DEF Blocks
<1>2. ASSUME NEW b \in heap  PROVE b.id < mallocs + 1
  <2>1. b.id < mallocs /\ b.id \in Nat /\ mallocs \in Nat
    BY DEF Blocks, Block
  <2> QED  BY <2>1
<1>3. block.id < mallocs + 1
  BY DEF Blocks
<1> QED  BY <1>1, <1>2, <1>3 DEF Blocks

-----------------------------------------------------------------------------

(* A step that moves no block keeps the ownership.                         *)
LEMMA SameOwners ==
  ASSUME ElfInv, pc # "done", pc' # "done",
         UNCHANGED <<heap, mallocs, array, data>>, Table' = Table,
         \A s \in Section : Past(s)' = Past(s)
  PROVE  Blocks' /\ Ownership' /\ OnlyTheCheckLeaks'
<1>1. Entries /\ Live /\ Owned /\ Apart
  BY DEF ElfInv, Ownership
<1>2. Blocks'
  BY DEF ElfInv, Blocks
<1>3. Entries'
  BY <1>1 DEF Entries, Entry
<1>4. Live' /\ Owned' /\ Apart'
  BY <1>1 DEF Live, Owned, Apart
<1> QED  BY <1>2, <1>3, <1>4 DEF Ownership, OnlyTheCheckLeaks

(* A reading that fails leaves the blocks where they are, and the section  *)
(* that was sought without one.                                            *)
LEMMA FailKeeps ==
  ASSUME ElfInv, Fail, pc \in Reading \ {"freeelf"},
         UNCHANGED <<file, caller, i, heap, mallocs, array>>,
         DOMAIN fp' = HeaderField, fp'.strndx = fp.strndx,
         caller = "check" /\ fp.strndx # Null =>
           /\ fp' = fp
           /\ fp.shnum > Len(file.shdrs) \/ fp.phnum > file.phdrs
  PROVE  ElfInv'
<1>1. Header /\ Stages /\ Blocks /\ Entries /\ Live /\ Owned /\ Apart
  BY DEF ElfInv, Ownership, Reading
<1>2. Blocks'
  BY <1>1 DEF Blocks
<1>3. CASE caller = "check"
  <2>1. pc' = "done"
    BY <1>3 DEF Fail
  <2>2. Header' /\ Stages'
    BY <1>1, <1>3, <2>1 DEF Header, Stages, Reading
  <2>3. array = Null /\ \A s \in Section : ~Past(s)
    BY <1>1, <1>3 DEF Stages, Section, Past, Reading
  <2>4. heap \subseteq {fp.strndx} \ {Null}
    <3>1. \A s \in Section : data[s].data = Garbage
      BY <1>1, <2>3 DEF Entries, Entry
    <3>2. Null \notin heap /\ Garbage \notin heap
      BY <1>1, ElfAssumption DEF Blocks
    <3> QED  BY <1>1, <2>3, <3>1, <3>2 DEF Owned, Table, Reading
  <2>5. fp.strndx # Null => fp.strndx \in heap
    BY <1>1 DEF Live, Table
  <2>6. OnlyTheCheckLeaks'
    <3>1. CASE fp.strndx = Null
      BY <2>4, <3>1 DEF OnlyTheCheckLeaks
    <3>2. CASE fp.strndx # Null
      <4>1. heap' = {fp'.strndx} /\ caller' = "check"
        BY <1>3, <2>4, <2>5, <3>2
      <4>2. fp'.shnum > Len(file'.shdrs) \/ fp'.phnum > file'.phdrs
        BY <1>3, <3>2
      <4> QED  BY <4>1, <4>2 DEF OnlyTheCheckLeaks
    <3> QED  BY <3>1, <3>2
  <2> QED  BY <1>2, <2>1, <2>2, <2>6 DEF ElfInv, Ownership
<1>4. CASE caller = "section"
  <2>1. /\ pc' = "freeelf"
        /\ data' = [data EXCEPT ![i] = [data |-> Null, len |-> 0]]
    BY <1>4 DEF Fail
  <2>2. i \in Section /\ SECTION_END \in Nat
    BY <1>1, <1>4 DEF Stages
  <2>3. Header' /\ Stages'
    BY <1>1, <1>4, <2>1 DEF Header, Stages, Reading
  <2>4. DOMAIN data = Section
    BY <1>1 DEF Entries
  <2>5. /\ DOMAIN data' = Section
        /\ data'[i].data = Null /\ data'[i].len = 0
        /\ \A s \in Section : s # i => data'[s] = data[s]
    BY <2>1, <2>2, <2>4
  <2>6. Past(i)' /\ ~Past(i) /\ \A s \in Section : s # i => Past(s)' = Past(s)
    BY <2>1, <2>2 DEF Past, Section, Reading
  <2>7. Null \notin heap /\ Garbage \notin heap
    BY <1>1, ElfAssumption DEF Blocks
  <2>8. Entries'
    BY <1>1, <2>5, <2>6 DEF Entries, Entry
  <2>9. Table' = Table
    BY <2>1 DEF Table, Reading
  <2>10. Live'
    BY <1>1, <2>9 DEF Live
  <2>11. Owned'
    <3>1. data[i].data = Garbage
      BY <1>1, <2>2, <2>6 DEF Entries, Entry
    <3> QED  BY <1>1, <2>5, <2>7, <2>9, <3>1 DEF Owned
  <2>12. Apart'
    BY <1>1, <2>5, <2>7, <2>9 DEF Apart
  <2> QED
    BY <1>2, <2>1, <2>3, <2>8, <2>10, <2>11, <2>12
    DEF ElfInv, Ownership, OnlyTheCheckLeaks
<1> QED  BY <1>1, <1>3, <1>4 DEF Stages

LEMMA readidentKeeps ==
  ASSUME ElfInv, readident  PROVE ElfInv'
<1> USE DEF readident
<1>1. Header /\ Stages
  BY DEF ElfInv
<1>2. CASE /\ Identified(file) /\ pc' = "ehdr" /\ UNCHANGED data
           /\ fp' = [fp EXCEPT !.class = file.ident.class, !.data = file.ident.data]
  <2>1. /\ DOMAIN fp' = HeaderField /\ fp'.strndx = fp.strndx
        /\ fp'.data = file.ident.data
    BY <1>1, <1>2 DEF Header, HeaderField
  <2>2. Header' /\ Stages'
    BY <1>1, <1>2, <2>1 DEF Header, Stages, Reading
  <2>3. Table' = Table /\ \A s \in Section : Past(s)' = Past(s)
    BY <1>2, <2>1 DEF Table, Past, Reading
  <2> QED  BY <1>2, <2>2, <2>3, SameOwners DEF ElfInv
<1>3. CASE Fail /\ UNCHANGED fp
  BY <1>1, <1>3, FailKeeps DEF Header, Reading
<1> QED  BY <1>2, <1>3

LEMMA readelfehdrKeeps ==
  ASSUME ElfInv, readelfehdr  PROVE ElfInv'
<1> USE DEF readelfehdr
<1>1. Header /\ Stages
  BY DEF ElfInv
<1>2. CASE /\ HeaderAccepted(file, fp) /\ fp' = WithHeader(file, fp)
           /\ pc' = "strndx" /\ UNCHANGED data
  <2>1. /\ DOMAIN fp' = HeaderField /\ fp'.strndx = fp.strndx
        /\ fp'.data = fp.data
        /\ fp'.shstrndx = get(fp.data, file.ehdr.shstrndx)
    BY <1>1, <1>2 DEF Header, HeaderField, WithHeader
  <2>2. get(fp.data, file.ehdr.shstrndx) \in Nat
    BY <1>1, <1>2, ElfAssumption DEF Header, HeaderAccepted
  <2>3. Header' /\ Stages'
    BY <1>1, <1>2, <2>1, <2>2 DEF Header, Stages, Reading
  <2>4. Table' = Table /\ \A s \in Section : Past(s)' = Past(s)
    BY <1>2, <2>1 DEF Table, Past, Reading
  <2> QED  BY <1>2, <2>3, <2>4, SameOwners DEF ElfInv
<1>3. CASE Fail /\ UNCHANGED fp
  BY <1>1, <1>3, FailKeeps DEF Header, Reading
<1> QED  BY <1>2, <1>3

LEMMA readelfshdrsKeeps ==
  ASSUME ElfInv, readelfshdrs  PROVE ElfInv'
<1> USE DEF readelfshdrs
<1>1. Header /\ Stages
  BY DEF ElfInv
<1>2. CASE /\ fp' = IF fp.shnum = 0 THEN fp ELSE WithShdr(file, fp, fp.shnum - 1)
           /\ pc' = "phdrs" /\ UNCHANGED data
  <2>1. DOMAIN fp' = HeaderField /\ fp'.strndx = fp.strndx
    BY <1>1, <1>2 DEF Header, HeaderField, WithShdr
  <2>2. Header' /\ Stages'
    BY <1>1, <1>2, <2>1 DEF Header, Stages, Reading
  <2>3. Table' = Table /\ \A s \in Section : Past(s)' = Past(s)
    BY <1>2, <2>1 DEF Table, Past, Reading
  <2> QED  BY <1>2, <2>2, <2>3, SameOwners DEF ElfInv
<1>3. CASE fp.shnum > Len(file.shdrs) /\ Fail /\ UNCHANGED fp
  BY <1>1, <1>3, FailKeeps DEF Header, Reading
<1> QED  BY <1>2, <1>3

LEMMA readelfphdrsKeeps ==
  ASSUME ElfInv, readelfphdrs  PROVE ElfInv'
<1> USE DEF readelfphdrs
<1>1. Header /\ Stages
  BY DEF ElfInv
<1>2. CASE pc' = "freeelf" /\ UNCHANGED data
  <2>1. Header' /\ Stages'
    BY <1>1, <1>2 DEF Header, Stages, Reading
  <2>2. Table' = Table
    BY <1>2 DEF Table, Reading
  <2>3. \A s \in Section : Past(s)' = Past(s)
    BY <1>1, <1>2 DEF Stages, Past, Section
  <2> QED  BY <1>2, <2>1, <2>2, <2>3, SameOwners DEF ElfInv
<1>3. CASE fp.phnum > file.phdrs /\ Fail
  BY <1>1, <1>3, FailKeeps DEF Header, Reading
<1> QED  BY <1>2, <1>3

(* The blocks, and who owns them, after the table was read.                *)
LEMMA readelfstrndxKeeps ==
  ASSUME ElfInv, readelfstrndx  PROVE ElfInv'
<1>1. /\ Header /\ Stages /\ Blocks /\ Entries /\ Live /\ Owned /\ Apart
      /\ pc = "strndx"
      /\ UNCHANGED <<file, scarce, caller, i, array>>
  BY DEF ElfInv, Ownership, readelfstrndx
<1>2. DOMAIN fp = HeaderField /\ fp.strndx = Null
  BY <1>1 DEF Header
<1>3. CASE HasStrndx /\ pc' # "strndx"
  <2> DEFINE read == WithStrndx(file, fp)
  <2>1. PICK table :
          /\ newsection(read.offset, read.strndxsize, table)
          /\ fp' = [read EXCEPT !.strndx = table]
          /\ \/ /\ table # Null
                /\ pc' = IF caller = "check" THEN "shdrs" ELSE "sect"
                /\ UNCHANGED data
             \/ table = Null /\ Fail
    BY <1>1, <1>3 DEF readelfstrndx
  <2>2. read.offset \in Nat /\ read.strndxsize \in Nat
    <3>1. /\ fp.shstrndx + 1 \in 1 .. Len(file.shdrs)
          /\ Identified(file) /\ fp.data = file.ident.data
      BY <1>1, <1>3, ElfAssumption DEF Header, HasStrndx, HasShdr
    <3>2. /\ Shdr(file, fp, fp.shstrndx).offset \in Nat
          /\ Shdr(file, fp, fp.shstrndx).size \in Nat
      BY <1>1, <3>1, ElfAssumption DEF Header, Shdr
    <3>3. /\ read.offset = Shdr(file, fp, fp.shstrndx).offset
          /\ read.strndxsize = Shdr(file, fp, fp.shstrndx).size % ByteValues ^ 4
      BY <1>2 DEF WithStrndx, HeaderField
    <3>4. \A n \in Nat, m \in Nat \ {0} : n % m \in Nat
      OBVIOUS
    <3> QED  BY <3>2, <3>3, <3>4, ElfAssumption
  <2>3. DOMAIN read = HeaderField /\ read.data = fp.data
    BY <1>2 DEF WithStrndx, HeaderField
  <2>4. /\ DOMAIN fp' = HeaderField /\ fp'.strndx = table
        /\ fp'.data = fp.data
    BY <2>1, <2>3 DEF HeaderField
  <2> DEFINE new == NewBlock(read.offset, read.strndxsize)
  <2>5. new \in Block /\ new.id = mallocs /\ new \notin heap \cup {Null, Garbage}
    BY <1>1, <2>2, NewBlockIsNew
  <2> HIDE DEF new, read
  <2>6. CASE table # Null
    <3>1. table = new /\ heap' = heap \cup {table} /\ mallocs' = mallocs + 1
      BY <2>1, <2>6 DEF newsection, Allocate, new
    <3>2. /\ pc' = IF caller = "check" THEN "shdrs" ELSE "sect"
          /\ UNCHANGED data
      BY <2>1, <2>6
    <3>3. Header' /\ Stages'
      BY <1>1, <2>4, <2>6, <3>2 DEF Header, Stages, Reading
    <3>4. Blocks'
      BY <1>1, <2>5, <3>1, AllocateKeepsBlocks
    <3>5. Table' = table /\ Table = Null
      BY <1>1, <1>2, <2>4, <3>2 DEF Table, Reading
    <3>6. \A s \in Section : Past(s)' = Past(s)
      BY <1>1, <3>2 DEF Past
    <3>7. Entries'
      BY <1>1, <3>1, <3>2, <3>6 DEF Entries, Entry
    <3>8. Live' /\ Owned'
      <4>1. Null \notin heap
        BY <1>1, ElfAssumption DEF Blocks
      <4>2. Live'
        BY <1>1, <3>1, <3>5 DEF Live
      <4>3. Owned'
        BY <1>1, <3>1, <3>2, <3>5, <4>1 DEF Owned
      <4> QED  BY <4>2, <4>3
    <3>9. \A s \in Section : data[s].data # table
      <4>1. table \notin heap \cup {Null, Garbage}
        BY <2>5, <3>1
      <4> QED  BY <1>1, <4>1 DEF Entries, Entry
    <3>10. Apart'
      <4>1. table # array
        BY <1>1, <2>5, <3>1 DEF Live
      <4> QED  BY <1>1, <3>1, <3>2, <3>5, <3>9, <4>1 DEF Apart
    <3> QED
      BY <3>2, <3>3, <3>4, <3>7, <3>8, <3>10
      DEF ElfInv, Ownership, OnlyTheCheckLeaks
  <2>7. CASE table = Null
    <3>1. Fail /\ UNCHANGED <<heap, mallocs>>
      BY <2>1, <2>5, <2>7 DEF newsection, NoAllocation, new
    <3> QED  BY <1>1, <1>2, <2>4, <2>7, <3>1, FailKeeps DEF Reading
  <2> QED  BY <2>6, <2>7
<1>4. CASE Fail /\ NoAllocation /\ UNCHANGED fp
  BY <1>1, <1>2, <1>4, FailKeeps DEF Reading, NoAllocation
<1>5. pc' # "strndx"
  BY <1>1 DEF readelfstrndx, Fail
<1> QED  BY <1>3, <1>4, <1>5 DEF readelfstrndx

LEMMA readelfsectKeeps ==
  ASSUME ElfInv, readelfsect  PROVE ElfInv'
<1>1. /\ Header /\ Stages /\ Blocks /\ Entries /\ Live /\ Owned /\ Apart
      /\ pc = "sect" /\ caller = "section"
      /\ UNCHANGED <<file, scarce, caller, i, array>>
  BY DEF ElfInv, Ownership, readelfsect, Stages
<1>2. DOMAIN fp = HeaderField /\ i \in Section /\ SECTION_END \in Nat
  BY <1>1 DEF Header, Stages, Reading
<1>3. ASSUME NEW k \in Sought, fp' = WithShdr(file, fp, k),
             NEW sect, newsection(fp'.offset, fp'.size, sect),
             \/ sect # Null /\ Keep(sect, fp'.size)
             \/ sect = Null /\ Fail
      PROVE  ElfInv'
  <2>1. /\ DOMAIN fp' = HeaderField /\ fp'.strndx = fp.strndx
        /\ fp'.data = fp.data
        /\ fp'.offset = Shdr(file, fp, k).offset
        /\ fp'.size = Shdr(file, fp, k).size
    BY <1>2, <1>3 DEF WithShdr, HeaderField
  <2>2. fp'.offset \in Nat /\ fp'.size \in Nat
    <3>1. /\ k + 1 \in 1 .. Len(file.shdrs)
          /\ Identified(file) /\ fp.data = file.ident.data
      BY <1>1, ElfAssumption DEF Header, Sought, Search, Stops, HasShdr
    <3> QED  BY <1>1, <2>1, <3>1, ElfAssumption DEF Header, Shdr
  <2> DEFINE new == NewBlock(fp'.offset, fp'.size)
  <2>3. /\ new \in Block /\ new.id = mallocs /\ new.size = fp'.size
        /\ new \notin heap \cup {Null, Garbage}
    BY <1>1, <2>2, NewBlockIsNew
  <2> HIDE DEF new
  <2>4. CASE sect # Null
    <3>1. /\ sect = new /\ heap' = heap \cup {sect} /\ mallocs' = mallocs + 1
          /\ fp'.size > 0
      BY <1>3, <2>4 DEF newsection, Allocate, Readable, new
    <3>2. /\ pc' = "freeelf"
          /\ data' = [data EXCEPT ![i] = [data |-> sect, len |-> fp'.size]]
      BY <1>3, <2>4 DEF Keep
    <3>3. Header' /\ Stages'
      BY <1>1, <2>1, <3>2 DEF Header, Stages, Reading
    <3>4. Blocks'
      BY <1>1, <2>3, <3>1, AllocateKeepsBlocks
    <3>5. /\ DOMAIN data' = Section
          /\ data'[i].data = sect /\ data'[i].len = sect.size
          /\ data'[i].len > 0
          /\ \A s \in Section : s # i => data'[s] = data[s]
      BY <1>1, <1>2, <2>3, <3>1, <3>2 DEF Entries
    <3>6. Past(i)' /\ ~Past(i) /\ \A s \in Section : s # i => Past(s)' = Past(s)
      BY <1>1, <1>2, <3>2 DEF Past, Section
    <3>7. Entries'
      BY <1>1, <3>1, <3>5, <3>6 DEF Entries, Entry
    <3>8. Table' = Table
      BY <1>1, <2>1, <3>2 DEF Table, Reading
    <3>9. Live'
      BY <1>1, <3>1, <3>8 DEF Live
    <3>10. data[i].data = Garbage /\ Garbage \notin heap /\ Null \notin heap
      BY <1>1, <1>2, <3>6, ElfAssumption DEF Entries, Entry, Blocks
    <3>11. Owned'
      BY <1>1, <1>2, <3>1, <3>5, <3>8, <3>10 DEF Owned
    <3>12. Apart'
      <4>1. \A s \in Section : data[s].data # sect
        BY <1>1, <2>3, <3>1 DEF Entries, Entry
      <4>2. sect \notin {Table, array}
        BY <1>1, <2>3, <3>1 DEF Live
      <4> QED  BY <1>1, <3>1, <3>5, <3>8, <4>1, <4>2 DEF Apart
    <3> QED
      BY <3>2, <3>3, <3>4, <3>7, <3>9, <3>11, <3>12
      DEF ElfInv, Ownership, OnlyTheCheckLeaks
  <2>5. CASE sect = Null
    <3>1. Fail /\ UNCHANGED <<heap, mallocs>>
      BY <1>3, <2>3, <2>5 DEF newsection, NoAllocation, new
    <3> QED  BY <1>1, <2>1, <3>1, FailKeeps DEF Reading
  <2> QED  BY <2>4, <2>5
<1>4. CASE Fail /\ NoAllocation /\ UNCHANGED fp
  BY <1>1, <1>2, <1>4, FailKeeps DEF Reading, NoAllocation
<1> QED  BY <1>3, <1>4 DEF readelfsect

LEMMA freeelfKeeps ==
  ASSUME ElfInv, freeelf  PROVE ElfInv'
<1>1. /\ Header /\ Stages /\ Blocks /\ Entries /\ Live /\ Owned /\ Apart
      /\ pc = "freeelf"
      /\ UNCHANGED <<file, scarce, caller, i, fp, mallocs, array, data>>
      /\ heap' = heap \ {Table}
      /\ pc' = IF caller = "check" THEN "malloc" ELSE "next"
  BY DEF ElfInv, Ownership, freeelf, Table, Reading
<1>2. Header' /\ Stages' /\ Blocks'
  BY <1>1 DEF Header, Stages, Blocks, Reading
<1>3. Table' = Null
  BY <1>1 DEF Table, Reading
<1>4. \A s \in Section : Past(s)' = Past(s)
  BY <1>1 DEF Past, Stages, Section
<1>5. Null \notin heap
  BY <1>1, ElfAssumption DEF Blocks
<1>6. Entries'
  BY <1>1, <1>4 DEF Entries, Entry, Apart
<1>7. Live' /\ Owned' /\ Apart'
  BY <1>1, <1>3, <1>5 DEF Live, Owned, Apart
<1> QED  BY <1>1, <1>2, <1>6, <1>7 DEF ElfInv, Ownership, OnlyTheCheckLeaks

LEMMA MallocDataKeeps ==
  ASSUME ElfInv, MallocData  PROVE ElfInv'
<1>1. /\ Header /\ Stages /\ Blocks /\ Entries /\ Live /\ Owned /\ Apart
      /\ pc = "malloc" /\ caller = "check" /\ array = Null /\ i = 0
      /\ caller' = "section"
      /\ UNCHANGED <<file, scarce, i, fp, data>>
  BY DEF ElfInv, Ownership, MallocData, Stages
<1>2. Table = Null /\ Null \notin heap /\ Garbage \notin heap
  BY <1>1, ElfAssumption DEF Table, Reading, Blocks
<1>3. \A s \in Section : ~Past(s) /\ data[s].data = Garbage
  BY <1>1 DEF Past, Section, Entries, Entry
<1>4. heap = {}
  BY <1>1, <1>2, <1>3 DEF Owned
<1>5. CASE array' = NewBlock(0, 0) /\ Allocate(array') /\ pc' = "next"
  <2>1. array' \in Block /\ array'.id = mallocs /\ array' \notin {Null, Garbage}
    BY <1>1, <1>5, NewBlockIsNew
  <2>2. heap' = {array'} /\ mallocs' = mallocs + 1
    BY <1>4, <1>5 DEF Allocate
  <2>3. Header' /\ Stages'
    BY <1>1, <1>5, <2>1 DEF Header, Stages, Reading
  <2>4. Blocks'
    BY <1>1, <2>1, <2>2 DEF Blocks
  <2>5. Table' = Null /\ \A s \in Section : ~Past(s)'
    BY <1>1, <1>5 DEF Table, Reading, Past, Section
  <2>6. Entries' /\ Live' /\ Owned' /\ Apart'
    BY <1>1, <1>3, <2>1, <2>2, <2>5 DEF Entries, Entry, Live, Owned, Apart
  <2> QED  BY <1>5, <2>3, <2>4, <2>6 DEF ElfInv, Ownership, OnlyTheCheckLeaks
<1>6. CASE pc' = "done" /\ NoAllocation /\ UNCHANGED array
  BY <1>1, <1>4, <1>6
  DEF ElfInv, Header, Stages, Blocks, Ownership, OnlyTheCheckLeaks, Reading,
      NoAllocation
<1> QED  BY <1>5, <1>6 DEF MallocData

LEMMA NextSectionKeeps ==
  ASSUME ElfInv, NextSection  PROVE ElfInv'
<1> USE DEF NextSection
<1>1. Header /\ Stages
  BY DEF ElfInv
<1>2. Header' /\ Stages'
  BY <1>1 DEF Header, Stages, Reading, Section, Zero, HeaderField
<1>3. Table' = Table
  BY DEF Table, Reading, Zero
<1>4. \A s \in Section : Past(s)' = Past(s)
  BY <1>1 DEF Past, Section, Stages
<1> QED  BY <1>2, <1>3, <1>4, SameOwners DEF ElfInv

LEMMA ReturnKeeps ==
  ASSUME ElfInv, Return  PROVE ElfInv'
<1> USE DEF Return
<1>1. Header' /\ Stages' /\ Table' = Table
  BY DEF ElfInv, Header, Stages, Reading, Table
<1>2. \A s \in Section : Past(s)' = Past(s)
  BY DEF Past
<1> QED  BY <1>1, <1>2, SameOwners DEF ElfInv

LEMMA elf_freeKeeps ==
  ASSUME ElfInv, elf_free  PROVE ElfInv'
<1>1. /\ Header /\ Stages /\ Blocks /\ Entries /\ Owned
      /\ pc = "use" /\ pc' = "done"
      /\ UNCHANGED <<file, scarce, caller, i, fp, mallocs, array, data>>
  BY DEF ElfInv, Ownership, elf_free
<1>2. Table = Null /\ Null \notin heap
  BY <1>1, ElfAssumption DEF Table, Reading, Blocks
<1>3. \A s \in Section : data[s].data \in heap => data[s].len # 0
  <2>1. \A s \in Section : Past(s)
    BY <1>1 DEF Past, Stages, Section
  <2> QED  BY <1>1, <1>2, <2>1 DEF Entries, Entry
<1>4. heap' = {}
  BY <1>1, <1>2, <1>3 DEF Owned, elf_free
<1>5. Header' /\ Stages' /\ Blocks'
  BY <1>1, <1>4 DEF Header, Stages, Blocks, Reading
<1> QED  BY <1>1, <1>4, <1>5 DEF ElfInv, Ownership, OnlyTheCheckLeaks

(* Every step keeps the invariant.                                         *)
THEOREM ElfInvNext ==
  ElfInv /\ [Next]_vars => ElfInv'
<1> SUFFICES ASSUME ElfInv, [Next]_vars  PROVE ElfInv'
  OBVIOUS
<1>1. CASE UNCHANGED vars
  BY <1>1
  DEF vars, ElfInv, Header, Stages, Blocks, Ownership, Entries, Entry, Past, Live,
      Owned, Apart, Table, OnlyTheCheckLeaks
<1>2. CASE readelfstrndx \/ readelfsect \/ freeelf
  BY <1>2, readelfstrndxKeeps, readelfsectKeeps, freeelfKeeps
<1>3. CASE readident \/ readelfehdr \/ readelfshdrs \/ readelfphdrs
  BY <1>3, readidentKeeps, readelfehdrKeeps, readelfshdrsKeeps, readelfphdrsKeeps
<1>4. CASE MallocData \/ NextSection \/ Return \/ elf_free
  BY <1>4, MallocDataKeeps, NextSectionKeeps, ReturnKeeps, elf_freeKeeps
<1> QED  BY <1>1, <1>2, <1>3, <1>4 DEF Next, Done

LEMMA ElfInvHolds ==
  Spec => []ElfInv
<1> QED  BY ElfInvInit, ElfInvNext, PTL DEF Spec

-----------------------------------------------------------------------------

(* Whatever the file and whichever malloc fails, a block is freed once and *)
(* only if it is allocated (elf_manager.c:59 and 107).                     *)
THEOREM FreesAreOfLiveBlocks ==
  Spec => []FreesLiveBlocks
<1>1. ElfInv => FreesLiveBlocks
  <2> SUFFICES ASSUME ElfInv  PROVE FreesLiveBlocks
    OBVIOUS
  <2>1. ASSUME pc = "freeelf", fp.strndx # Null  PROVE fp.strndx \in heap
    BY <2>1 DEF ElfInv, Ownership, Live, Table, Reading
  <2>2. ASSUME pc = "use"
        PROVE  /\ array \in heap
               /\ \A s \in Section : data[s].len # 0 => data[s].data \in heap
               /\ \A s, t \in Section :
                    s # t /\ data[s].len # 0 => data[s].data # data[t].data
    <3>1. Stages /\ Entries /\ Live /\ Apart
      BY <2>2 DEF ElfInv, Ownership
    <3>2. array \in heap
      BY <2>2, <3>1 DEF Stages, Live
    <3>3. \A s \in Section : Past(s)
      BY <2>2, <3>1 DEF Past, Stages, Section
    <3>4. \A s \in Section : data[s].len # 0 => data[s].data \in heap
      BY <3>1, <3>3 DEF Entries, Entry
    <3> QED  BY <3>1, <3>2, <3>4 DEF Apart
  <2> QED  BY <2>1, <2>2 DEF FreesLiveBlocks
<1> QED  BY <1>1, ElfInvHolds, PTL

(* Only the check of the header loses a block, the string table, and only  *)
(* when a section header or a program header behind it is missing          *)
(* (elf_manager.c:27).                                                     *)
THEOREM NothingElseLeaks ==
  Spec => []OnlyTheCheckLeaks
<1>1. ElfInv => OnlyTheCheckLeaks
  BY DEF ElfInv
<1> QED  BY <1>1, ElfInvHolds, PTL

(* The length that is returned with a section is that of its block, and 0  *)
(* only without a block (elf_manager.c:63).                                *)
THEOREM LengthsAreOfBlocks ==
  Spec => []LengthsOfBlocks
<1>1. ElfInv => LengthsOfBlocks
  <2> SUFFICES ASSUME ElfInv, pc = "use", NEW s \in Section
               PROVE  IF data[s].data = Null
                        THEN data[s].len = 0
                        ELSE data[s].len = data[s].data.size /\ data[s].len > 0
    BY DEF LengthsOfBlocks
  <2>1. Stages /\ Blocks /\ Entries
    BY DEF ElfInv, Ownership
  <2>2. Past(s) /\ Null \notin heap
    BY <2>1, ElfAssumption DEF Past, Stages, Section, Blocks
  <2> QED  BY <2>1, <2>2 DEF Entries, Entry
<1> QED  BY <1>1, ElfInvHolds, PTL

(* The size of the string table is kept in 32 bits.                        *)
Narrow == scarce \in BOOLEAN /\ fp.strndxsize \in 0 .. ByteValues ^ 4 - 1

LEMMA NarrowInit == Init => Narrow
<1> SUFFICES ASSUME Init  PROVE Narrow
  OBVIOUS
<1>1. 0 \in 0 .. ByteValues ^ 4 - 1
  <2>1. PICK m \in Nat \ {0} : m = ByteValues ^ 4
    BY ElfAssumption
  <2> QED  BY <2>1
<1> QED  BY <1>1 DEF Init, Zero, Narrow

LEMMA NarrowNext == ElfInv /\ Narrow /\ [Next]_vars => Narrow'
<1> SUFFICES ASSUME ElfInv, Narrow, [Next]_vars  PROVE Narrow'
  OBVIOUS
<1>1. DOMAIN fp = HeaderField /\ Header /\ scarce \in BOOLEAN
  BY DEF ElfInv, Header, Narrow
<1>2. scarce' = scarce
  BY DEF Next, vars, readident, readelfehdr, readelfstrndx, readelfshdrs,
         readelfphdrs, readelfsect, freeelf, MallocData, NextSection, Return,
         elf_free, Done
<1>3. PICK m \in Nat \ {0} : m = ByteValues ^ 4
  BY ElfAssumption
<1>4. CASE fp'.strndxsize = fp.strndxsize
  BY <1>1, <1>2, <1>4 DEF Narrow
<1>5. CASE readident \/ readelfehdr \/ readelfshdrs \/ readelfphdrs
  <2>1. \/ fp' = fp
        \/ fp' = [fp EXCEPT !.class = file.ident.class, !.data = file.ident.data]
        \/ fp' = WithHeader(file, fp)
        \/ fp' = WithShdr(file, fp, fp.shnum - 1)
    BY <1>5 DEF readident, readelfehdr, readelfshdrs, readelfphdrs
  <2>2. fp'.strndxsize = fp.strndxsize
    BY <1>1, <2>1 DEF WithHeader, WithShdr, HeaderField
  <2> QED  BY <1>4, <2>2
<1>6. CASE readelfsect
  <2>1. fp' = fp \/ \E k : fp' = WithShdr(file, fp, k)
    BY <1>6 DEF readelfsect
  <2>2. fp'.strndxsize = fp.strndxsize
    BY <1>1, <2>1 DEF WithShdr, HeaderField
  <2> QED  BY <1>4, <2>2
<1>7. CASE freeelf \/ MallocData \/ Return \/ elf_free \/ UNCHANGED vars
  <2>1. fp' = fp
    BY <1>7 DEF freeelf, MallocData, Return, elf_free, vars
  <2> QED  BY <1>4, <2>1
<1>8. CASE NextSection
  <2>1. fp'.strndxsize = 0
    BY <1>8 DEF NextSection, Zero
  <2> QED  BY <1>1, <1>2, <1>3, <2>1 DEF Narrow
<1>9. CASE readelfstrndx
  <2> DEFINE read == WithStrndx(file, fp)
  <2>1. fp' = fp \/ \E table : fp' = [read EXCEPT !.strndx = table]
    BY <1>9 DEF readelfstrndx
  <2>2. ASSUME NEW table, HasStrndx, fp' = [read EXCEPT !.strndx = table]
        PROVE  fp'.strndxsize \in 0 .. m - 1
    <3>1. fp'.strndxsize = Shdr(file, fp, fp.shstrndx).size % m
      BY <1>1, <1>3, <2>2 DEF WithStrndx, HeaderField
    <3>2. Shdr(file, fp, fp.shstrndx).size \in Nat
      <4>1. /\ fp.shstrndx + 1 \in 1 .. Len(file.shdrs)
            /\ Identified(file) /\ fp.data = file.ident.data
        BY <1>1, <1>9, <2>2, ElfAssumption
        DEF Header, HasStrndx, HasShdr, readelfstrndx
      <4> QED  BY <1>1, <4>1, ElfAssumption DEF Header, Shdr
    <3>3. \A n \in Nat : n % m \in 0 .. m - 1
      OBVIOUS
    <3> QED  BY <3>1, <3>2, <3>3
  <2>3. fp' # fp => HasStrndx /\ \E table : fp' = [read EXCEPT !.strndx = table]
    BY <1>9 DEF readelfstrndx
  <2> QED  BY <1>1, <1>2, <1>3, <1>4, <2>2, <2>3 DEF Narrow
<1> QED  BY <1>5, <1>6, <1>7, <1>8, <1>9 DEF Next, Done

(* The variables have their types, the array is all written when it is     *)
(* handed over, and the size of the string table has lost what is beyond   *)
(* 32 bits (elf.h, strndxsize).                                            *)
THEOREM ElfTypeCorrect ==
  Spec => []ElfTypeOK
<1>1. ElfInv /\ Narrow => ElfTypeOK
  <2> SUFFICES ASSUME ElfInv, Narrow  PROVE ElfTypeOK
    OBVIOUS
  <2>1. Header /\ Stages /\ Blocks
    BY DEF ElfInv
  <2>2. \A b \in heap : b.id \in 0 .. mallocs - 1
    BY <2>1 DEF Blocks, Block
  <2>3. Written
    <3> SUFFICES ASSUME pc = "use", NEW s \in Section
                 PROVE  data[s].len \in Nat /\ data[s].data # Garbage
      BY DEF Written
    <3>1. Entry(s) /\ Past(s) /\ Garbage \notin heap
      BY <2>1, ElfAssumption
      DEF ElfInv, Ownership, Entries, Past, Stages, Section, Blocks
    <3> QED  BY <2>1, <3>1, ElfAssumption DEF Entry, Blocks, Block
  <2> QED  BY <2>1, <2>2, <2>3
           DEF ElfTypeOK, Narrow, Header, Stages, Blocks, Reading
<1> QED  BY <1>1, ElfInvInit, ElfInvNext, NarrowInit, NarrowNext, PTL DEF Spec

-----------------------------------------------------------------------------
(***************************************************************************)
(* The sections are those of the file.                                     *)
(***************************************************************************)

HasStrings(f) ==
  Readable(f, Number(f, StringTable(f).offset), StringsSize32(f))

(* The check of the header has found all that a section needs.             *)
Whole(f) == Announced(f) /\ HeaderAccepted(f, f.ident) /\ HasStrings(f)

(* What has been read so far is what is in the file.                       *)
Shape ==
  /\ pc \in {"ehdr", "strndx", "shdrs", "phdrs", "sect"} =>
       /\ Identified(file)
       /\ fp.class = file.ident.class /\ fp.data = file.ident.data
  /\ pc \in {"strndx", "shdrs", "phdrs", "sect"} =>
       /\ HeaderAccepted(file, file.ident)
       /\ fp.shnum = Number(file, file.ehdr.shnum)
       /\ fp.shstrndx = Number(file, file.ehdr.shstrndx)
  /\ pc \in {"shdrs", "phdrs", "sect"} =>
       /\ fp.shstrndx \in 1 .. Len(file.shdrs) - 1
       /\ HasStrings(file)
       /\ fp.strndx.offset = Number(file, StringTable(file).offset)
       /\ fp.strndxsize = StringsSize32(file)
  /\ pc \in {"phdrs", "freeelf", "malloc"} \/ caller = "section" => Whole(file)

Found(s) ==
  IF data[s].data = Null THEN scarce \/ Meant(SECTION_NAME[s]) = {}
  ELSE <<data[s].data.offset, data[s].data.size>> \in Meant(SECTION_NAME[s])

Results == \A s \in Section : Past(s) => Found(s)

SectInv == ElfInv /\ Shape /\ Results

(* The numbers of the headers that are announced are those that are meant. *)
LEMMA PlainNumbers ==
  ASSUME NEW f \in Files, Announced(f)
  PROVE  /\ Len(f.shdrs) \in Nat
         /\ \E n \in Nat :
              /\ n = Number(f, f.ehdr.shnum) /\ n <= Len(f.shdrs)
              /\ DOMAIN f.plain = 1 .. n
              /\ \A k \in 1 .. n :
                   /\ f.plain[k].name = NameOf(f, k)
                   /\ f.plain[k].offset = Number(f, f.shdrs[k].offset)
                   /\ f.plain[k].size = Number(f, f.shdrs[k].size)
<1>1. Identified(f) /\ f.ehdr # Null /\ Number(f, f.ehdr.shnum) <= Len(f.shdrs)
  BY DEF Announced
<1>2. Len(f.shdrs) \in Nat /\ Number(f, f.ehdr.shnum) \in Nat
  BY <1>1, ElfAssumption DEF Number
<1>3. /\ DOMAIN f.plain = 1 .. Number(f, f.ehdr.shnum)
      /\ \A k \in DOMAIN f.plain :
           /\ f.plain[k].name = NameOf(f, k)
           /\ f.plain[k].offset = Number(f, f.shdrs[k].offset)
           /\ f.plain[k].size = Number(f, f.shdrs[k].size)
  BY PlainAssumption
<1> QED  BY <1>1, <1>2, <1>3

(* Where the search may stop is a header with the name, or without one.    *)
LEMMA StopsMeant ==
  ASSUME SectInv, pc = "sect", NEW name, name # Null
  PROVE  \E n \in Nat :
           /\ DOMAIN file.plain = 1 .. n
           /\ \A k \in 0 .. n - 1 :
                /\ HasShdr(file, k)
                /\ Named(file, fp, k) <=> file.plain[k + 1].name # Null
                /\ k \in Stops(file, fp, name) <=>
                     file.plain[k + 1].name \in {name, Null}
                /\ file.plain[k + 1].offset = Shdr(file, fp, k).offset
                /\ file.plain[k + 1].size = Shdr(file, fp, k).size
           /\ Stops(file, fp, name) \subseteq 0 .. n - 1
<1>1. /\ file \in Files /\ Announced(file)
      /\ fp.data = file.ident.data
      /\ fp.shnum = Number(file, file.ehdr.shnum)
      /\ fp.strndx.offset = Number(file, StringTable(file).offset)
      /\ fp.strndxsize = StringsSize32(file)
  BY DEF SectInv, ElfInv, Header, Stages, Shape, Whole
<1>2. PICK n \in Nat :
        /\ n = Number(file, file.ehdr.shnum) /\ n <= Len(file.shdrs)
        /\ DOMAIN file.plain = 1 .. n
        /\ \A k \in 1 .. n :
             /\ file.plain[k].name = NameOf(file, k)
             /\ file.plain[k].offset = Number(file, file.shdrs[k].offset)
             /\ file.plain[k].size = Number(file, file.shdrs[k].size)
  BY <1>1, PlainNumbers
<1>3. Len(file.shdrs) \in Nat
  BY <1>1, PlainNumbers
<1>4. ASSUME NEW k \in 0 .. n - 1
      PROVE  /\ HasShdr(file, k)
             /\ Named(file, fp, k) <=> file.plain[k + 1].name # Null
             /\ k \in Stops(file, fp, name) <=>
                  file.plain[k + 1].name \in {name, Null}
             /\ file.plain[k + 1].offset = Shdr(file, fp, k).offset
             /\ file.plain[k + 1].size = Shdr(file, fp, k).size
  <2>1. k + 1 \in 1 .. n /\ k \in 0 .. fp.shnum - 1
    BY <1>1, <1>2
  <2>2. HasShdr(file, k)
    BY <1>2, <1>3 DEF HasShdr
  <2>3. /\ Shdr(file, fp, k).name = Number(file, file.shdrs[k + 1].name)
        /\ Shdr(file, fp, k).offset = Number(file, file.shdrs[k + 1].offset)
        /\ Shdr(file, fp, k).size = Number(file, file.shdrs[k + 1].size)
    BY <1>1 DEF Shdr, Number
  <2> DEFINE place == <<Number(file, StringTable(file).offset),
                        Number(file, file.shdrs[k + 1].name)>>
             string == IF place \in DOMAIN file.strings THEN file.strings[place]
                       ELSE ""
  <2>4. NameOf(file, k + 1) =
          IF Named(file, fp, k) THEN string ELSE Null
    BY <1>1, <2>3 DEF NameOf, Named
  <2>5. getstr(file, fp, k) = string
    BY <1>1, <2>3 DEF getstr
  <2>6. string # Null
    BY <1>1, PlainAssumption
  <2> HIDE DEF place, string
  <2>7. file.plain[k + 1].name = IF Named(file, fp, k) THEN string ELSE Null
    BY <1>2, <2>1, <2>4
  <2>8. k \in Stops(file, fp, name) <=>
          ~Named(file, fp, k) \/ getstr(file, fp, k) = name
    BY <2>1, <2>2 DEF Stops
  <2>9. /\ file.plain[k + 1].offset = Number(file, file.shdrs[k + 1].offset)
        /\ file.plain[k + 1].size = Number(file, file.shdrs[k + 1].size)
    BY <1>2, <2>1
  <2> QED  BY <2>2, <2>3, <2>5, <2>6, <2>7, <2>8, <2>9
<1>5. Stops(file, fp, name) \subseteq 0 .. n - 1
  BY <1>1, <1>2 DEF Stops
<1> QED  BY <1>2, <1>4, <1>5

(* The header k is the first of its name, with all before it named, and    *)
(* can be read.                                                            *)
IsMeant(name, k) ==
  /\ file.plain[k].name = name
  /\ \A j \in 1 .. k - 1 : file.plain[j].name \notin {name, Null}
  /\ Readable(file, file.plain[k].offset, file.plain[k].size)

LEMMA MeantRegions ==
  ASSUME NEW name, NEW n \in Nat, DOMAIN file.plain = 1 .. n
  PROVE  \A r : r \in Meant(name) <=>
           \E k \in 1 .. n : /\ IsMeant(name, k)
                             /\ r = <<file.plain[k].offset, file.plain[k].size>>
BY DEF Meant, IsMeant, Readable

(* The search finds what is meant, and nothing only if nothing is.         *)
LEMMA SearchMeant ==
  ASSUME SectInv, pc = "sect", NEW name, name # Null
  PROVE  /\ Search(file, fp, name) = {} => Meant(name) = {}
         /\ \A k \in Search(file, fp, name) :
              IF Readable(file, Shdr(file, fp, k).offset, Shdr(file, fp, k).size)
                THEN <<Shdr(file, fp, k).offset, Shdr(file, fp, k).size>>
                       \in Meant(name)
                ELSE Meant(name) = {}
<1> DEFINE S == Stops(file, fp, name)
           sought == Search(file, fp, name)
           plain == file.plain
<1>1. PICK n \in Nat :
        /\ DOMAIN plain = 1 .. n
        /\ \A k \in 0 .. n - 1 :
             /\ HasShdr(file, k)
             /\ Named(file, fp, k) <=> plain[k + 1].name # Null
             /\ k \in S <=> plain[k + 1].name \in {name, Null}
             /\ plain[k + 1].offset = Shdr(file, fp, k).offset
             /\ plain[k + 1].size = Shdr(file, fp, k).size
        /\ S \subseteq 0 .. n - 1
  BY StopsMeant, Zenon
<1>2. \A r : r \in Meant(name) <=>
        \E k \in 1 .. n : IsMeant(name, k) /\ r = <<plain[k].offset, plain[k].size>>
  BY <1>1, MeantRegions
<1>3. \A k : k \in sought <=>
        k \in S /\ HasShdr(file, k) /\ Named(file, fp, k) /\ \A j \in 0 .. k - 1 : j \notin S
  BY DEF Search
<1> HIDE DEF S, sought
<1>4. ASSUME NEW k \in 1 .. n, IsMeant(name, k)  PROVE k - 1 \in sought
  <2>1. k - 1 \in 0 .. n - 1 /\ (k - 1) + 1 = k
    OBVIOUS
  <2>2. k - 1 \in S /\ HasShdr(file, k - 1) /\ Named(file, fp, k - 1)
    BY <1>1, <1>4, <2>1 DEF IsMeant
  <2>3. ASSUME NEW j \in 0 .. (k - 1) - 1  PROVE j \notin S
    <3>1. j \in 0 .. n - 1 /\ j + 1 \in 1 .. k - 1
      OBVIOUS
    <3> QED  BY <1>1, <1>4, <3>1 DEF IsMeant
  <2> QED  BY <1>3, <2>2, <2>3
<1>5. ASSUME NEW k \in sought, NEW l \in sought  PROVE k = l
  <2>1. k \in 0 .. n - 1 /\ l \in 0 .. n - 1 /\ k \in S /\ l \in S
    BY <1>1, <1>3
  <2>2. ~(k < l)
    BY <1>3, <2>1
  <2>3. ~(l < k)
    BY <1>3, <2>1
  <2> QED  BY <2>1, <2>2, <2>3
<1>6. sought = {} => Meant(name) = {}
  BY <1>2, <1>4
<1>7. ASSUME NEW k \in sought
      PROVE  IF Readable(file, Shdr(file, fp, k).offset, Shdr(file, fp, k).size)
               THEN <<Shdr(file, fp, k).offset, Shdr(file, fp, k).size>>
                      \in Meant(name)
               ELSE Meant(name) = {}
  <2>1. k \in 0 .. n - 1 /\ k \in S /\ Named(file, fp, k)
    BY <1>1, <1>3
  <2>2. /\ plain[k + 1].name = name
        /\ plain[k + 1].offset = Shdr(file, fp, k).offset
        /\ plain[k + 1].size = Shdr(file, fp, k).size
    BY <1>1, <2>1
  <2>3. ASSUME NEW j \in 1 .. (k + 1) - 1  PROVE plain[j].name \notin {name, Null}
    <3>1. j - 1 \in 0 .. n - 1 /\ j - 1 \in 0 .. k - 1 /\ (j - 1) + 1 = j
      BY <2>1
    <3>2. j - 1 \notin S
      BY <1>3, <3>1
    <3> QED  BY <1>1, <3>1, <3>2
  <2>4. k + 1 \in 1 .. n
    BY <2>1
  <2>5. CASE Readable(file, Shdr(file, fp, k).offset, Shdr(file, fp, k).size)
    <3>1. IsMeant(name, k + 1)
      BY <2>2, <2>3, <2>5 DEF IsMeant
    <3> QED  BY <1>2, <2>2, <2>4, <2>5, <3>1
  <2>6. CASE ~Readable(file, Shdr(file, fp, k).offset, Shdr(file, fp, k).size)
    <3>1. ASSUME NEW l \in 1 .. n  PROVE ~IsMeant(name, l)
      <4>1. ASSUME IsMeant(name, l)  PROVE FALSE
        <5>1. l - 1 = k
          BY <1>4, <1>5, <4>1
        <5>2. l = k + 1
          BY <2>1, <5>1
        <5> QED  BY <2>2, <2>6, <4>1, <5>2 DEF IsMeant
      <4> QED  BY <4>1
    <3>2. Meant(name) = {}
      BY <1>2, <3>1
    <3> QED  BY <2>6, <3>2
  <2> QED  BY <2>5, <2>6
<1> QED  BY <1>6, <1>7 DEF sought

-----------------------------------------------------------------------------

LEMMA SameResults ==
  ASSUME SectInv, UNCHANGED <<file, scarce, data>>,
         \A s \in Section : Past(s)' => Past(s)
  PROVE  Results'
BY DEF SectInv, Results, Found, Meant

(* A section that is given up has none, or there was no memory.            *)
LEMMA FailFinds ==
  ASSUME SectInv, Fail, pc \in Reading \ {"freeelf"},
         UNCHANGED <<file, scarce, caller, i>>,
         caller = "section" => scarce \/ Meant(SECTION_NAME[i]) = {}
  PROVE  Shape' /\ Results'
<1>1. Stages /\ Shape /\ Results /\ DOMAIN data = Section
  BY DEF SectInv, ElfInv, Ownership, Entries, Reading
<1>2. CASE caller = "check"
  <2>1. pc' = "done" /\ data' = data /\ i' = 0 /\ caller' = "check"
    BY <1>1, <1>2 DEF Fail, Stages
  <2>2. Shape'
    BY <2>1 DEF Shape
  <2>3. \A s \in Section : ~Past(s)'
    BY <1>1, <2>1 DEF Stages, Section, Past
  <2> QED  BY <2>2, <2>3 DEF Results
<1>3. CASE caller = "section"
  <2>1. /\ pc' = "freeelf"
        /\ data' = [data EXCEPT ![i] = [data |-> Null, len |-> 0]]
    BY <1>3 DEF Fail
  <2>2. Shape'
    BY <1>1, <1>3, <2>1 DEF Shape, Whole, Announced, HasStrings
  <2>3. i \in Section /\ SECTION_END \in Nat
    BY <1>1, <1>3 DEF Stages
  <2>4. data'[i].data = Null /\ \A s \in Section : s # i => data'[s] = data[s]
    BY <1>1, <2>1, <2>3
  <2>5. \A name : Meant(name)' = Meant(name)
    BY DEF Meant
  <2>6. ASSUME NEW s \in Section, Past(s)'  PROVE Found(s)'
    <3>1. CASE s = i
      BY <1>3, <2>4, <2>5, <3>1 DEF Found
    <3>2. CASE s # i
      <4>1. Past(s)
        BY <2>6, <3>2 DEF Past
      <4> QED  BY <1>1, <2>4, <2>5, <3>2, <4>1 DEF Found, Results
    <3> QED  BY <3>1, <3>2
  <2> QED  BY <2>2, <2>6 DEF Results
<1> QED  BY <1>1, <1>2, <1>3 DEF Stages

LEMMA readidentFinds ==
  ASSUME SectInv, readident  PROVE Shape' /\ Results'
<1>1. Stages /\ Shape /\ Header
  BY DEF SectInv, ElfInv
<1>2. CASE /\ Identified(file) /\ pc' = "ehdr" /\ UNCHANGED data
           /\ fp' = [fp EXCEPT !.class = file.ident.class, !.data = file.ident.data]
  <2>1. fp'.class = file.ident.class /\ fp'.data = file.ident.data
    BY <1>1, <1>2 DEF Header, HeaderField
  <2>2. UNCHANGED <<file, scarce, caller, i>> /\ pc = "ident"
    BY DEF readident
  <2>3. Shape'
    BY <1>1, <1>2, <2>1, <2>2 DEF Shape, Whole, Announced, HasStrings
  <2>4. \A s \in Section : Past(s)' => Past(s)
    BY <1>2, <2>2 DEF Past
  <2> QED  BY <1>2, <2>2, <2>3, <2>4, SameResults
<1>3. CASE ~Identified(file) /\ Fail
  <2>1. caller # "section"
    BY <1>1, <1>3 DEF Shape, Whole, Announced
  <2> QED  BY <1>3, <2>1, FailFinds DEF readident, Reading
<1> QED  BY <1>2, <1>3 DEF readident

LEMMA readelfehdrFinds ==
  ASSUME SectInv, readelfehdr  PROVE Shape' /\ Results'
<1>1. /\ Stages /\ Shape /\ Header /\ pc = "ehdr"
      /\ UNCHANGED <<file, scarce, caller, i>>
  BY DEF SectInv, ElfInv, readelfehdr
<1>2. HeaderAccepted(file, fp) <=> HeaderAccepted(file, file.ident)
  <2>1. fp.class = file.ident.class /\ fp.data = file.ident.data
    BY <1>1 DEF Shape
  <2> QED  BY <2>1 DEF HeaderAccepted
<1>3. CASE /\ HeaderAccepted(file, fp) /\ fp' = WithHeader(file, fp)
           /\ pc' = "strndx" /\ UNCHANGED data
  <2>1. /\ fp'.class = fp.class /\ fp'.data = fp.data
        /\ fp'.shnum = get(fp.data, file.ehdr.shnum)
        /\ fp'.shstrndx = get(fp.data, file.ehdr.shstrndx)
    BY <1>1, <1>3 DEF Header, HeaderField, WithHeader
  <2>2. Shape'
    BY <1>1, <1>2, <1>3, <2>1 DEF Shape, Whole, Announced, HasStrings, Number
  <2>3. \A s \in Section : Past(s)' => Past(s)
    BY <1>1, <1>3 DEF Past
  <2> QED  BY <1>1, <1>3, <2>2, <2>3, SameResults
<1>4. CASE ~HeaderAccepted(file, fp) /\ Fail
  <2>1. caller # "section"
    BY <1>1, <1>2, <1>4 DEF Shape, Whole
  <2> QED  BY <1>1, <1>4, <2>1, FailFinds DEF Reading
<1> QED  BY <1>3, <1>4 DEF readelfehdr

LEMMA readelfstrndxFinds ==
  ASSUME SectInv, readelfstrndx  PROVE Shape' /\ Results'
<1>1. /\ Stages /\ Shape /\ Header /\ pc = "strndx"
      /\ UNCHANGED <<file, scarce, caller, i>>
  BY DEF SectInv, ElfInv, readelfstrndx
<1>2. /\ Identified(file) /\ file \in Files /\ file.ehdr # Null
      /\ fp.data = file.ident.data /\ fp.class = file.ident.class
      /\ HeaderAccepted(file, file.ident)
      /\ fp.shnum = Number(file, file.ehdr.shnum)
      /\ fp.shstrndx = Number(file, file.ehdr.shstrndx)
      /\ DOMAIN fp = HeaderField
  BY <1>1 DEF Shape, Header, HeaderAccepted
<1>3. fp.shstrndx \in Nat /\ Len(file.shdrs) \in Nat
  BY <1>1, <1>2, ElfAssumption DEF Header
<1>4. HasStrndx <=> fp.shstrndx \in 1 .. Len(file.shdrs) - 1
  BY <1>3 DEF HasStrndx, HasShdr, SHN_UNDEF
<1>5. ASSUME HasStrndx, NEW table,
             LET read == WithStrndx(file, fp) IN
               /\ newsection(read.offset, read.strndxsize, table)
               /\ fp' = [read EXCEPT !.strndx = table]
               /\ \/ /\ table # Null
                     /\ pc' = IF caller = "check" THEN "shdrs" ELSE "sect"
                     /\ UNCHANGED data
                  \/ table = Null /\ Fail
      PROVE  Shape' /\ Results'
  <2> DEFINE read == WithStrndx(file, fp)
  <2>1. /\ read.offset = Number(file, StringTable(file).offset)
        /\ read.strndxsize = StringsSize32(file)
        /\ DOMAIN read = HeaderField
        /\ read.class = fp.class /\ read.data = fp.data
        /\ read.shnum = fp.shnum /\ read.shstrndx = fp.shstrndx
    BY <1>2 DEF WithStrndx, Shdr, Number, StringTable, StringsSize32, HeaderField
  <2> HIDE DEF read
  <2>2. CASE table # Null
    <3>1. /\ pc' = IF caller = "check" THEN "shdrs" ELSE "sect"
          /\ UNCHANGED data
          /\ fp' = [read EXCEPT !.strndx = table]
          /\ Readable(file, read.offset, read.strndxsize)
          /\ table = NewBlock(read.offset, read.strndxsize)
      BY <1>5, <2>2 DEF newsection, read
    <3>2. /\ fp'.class = fp.class /\ fp'.data = fp.data
          /\ fp'.shnum = fp.shnum /\ fp'.shstrndx = fp.shstrndx
          /\ fp'.strndxsize = StringsSize32(file)
          /\ fp'.strndx.offset = Number(file, StringTable(file).offset)
      BY <2>1, <3>1 DEF HeaderField, NewBlock
    <3>3. HasStrings(file)
      BY <2>1, <3>1 DEF HasStrings
    <3>4. Shape'
      <4>1. /\ pc' \in {"shdrs", "sect"}
            /\ pc' = "sect" \/ caller' = "section" => Whole(file')
        BY <1>1, <3>1 DEF Shape, Stages, Whole, Announced, HasStrings
      <4>2. /\ Identified(file') /\ HeaderAccepted(file', file'.ident)
            /\ HasStrings(file')
        BY <1>1, <1>2, <3>3
      <4> QED
        BY <1>1, <1>2, <1>4, <1>5, <3>2, <4>1, <4>2
        DEF Shape, Number, StringTable, StringsSize32
    <3>5. \A s \in Section : Past(s)' => Past(s)
      BY <1>1, <3>1 DEF Past
    <3> QED  BY <1>1, <3>1, <3>4, <3>5, SameResults
  <2>3. CASE table = Null
    <3>1. Fail
      BY <1>5, <2>3
    <3>2. scarce \/ ~Readable(file, read.offset, read.strndxsize)
      <4>1. newsection(read.offset, read.strndxsize, table)
        BY <1>5 DEF read
      <4>2. fp.shstrndx + 1 \in 1 .. Len(file.shdrs)
        BY <1>3, <1>4, <1>5
      <4>3. /\ Number(file, StringTable(file).offset) \in Nat
            /\ Number(file, StringTable(file).size) \in Nat
        BY <1>2, <4>2, ElfAssumption DEF Number, StringTable
      <4>4. \A n \in Nat, m \in Nat \ {0} : n % m \in Nat
        OBVIOUS
      <4>5. read.offset \in Nat /\ read.strndxsize \in Nat
        BY <2>1, <4>3, <4>4, ElfAssumption DEF StringsSize32
      <4>6. NewBlock(read.offset, read.strndxsize) # Null
        BY <4>5, NewBlockIsNew DEF SectInv, ElfInv
      <4> QED  BY <2>3, <4>1, <4>6 DEF newsection
    <3>3. caller = "section" => scarce
      BY <1>1, <2>1, <3>2 DEF Shape, Whole, HasStrings
    <3> QED  BY <1>1, <3>1, <3>3, FailFinds DEF Reading
  <2> QED  BY <2>2, <2>3
<1>6. CASE ~HasStrndx /\ Fail
  <2>1. caller # "section"
    BY <1>1, <1>2, <1>4, <1>6 DEF Shape, Whole, Announced
  <2> QED  BY <1>1, <1>6, <2>1, FailFinds DEF Reading
<1> QED  BY <1>5, <1>6 DEF readelfstrndx

LEMMA readelfshdrsFinds ==
  ASSUME SectInv, readelfshdrs  PROVE Shape' /\ Results'
<1>1. /\ Stages /\ Shape /\ Header /\ pc = "shdrs" /\ caller = "check"
      /\ UNCHANGED <<file, scarce, caller, i>>
  BY DEF SectInv, ElfInv, Stages, readelfshdrs
<1>2. CASE /\ fp.shnum <= Len(file.shdrs)
           /\ fp' = IF fp.shnum = 0 THEN fp ELSE WithShdr(file, fp, fp.shnum - 1)
           /\ pc' = "phdrs" /\ UNCHANGED data
  <2>1. /\ fp'.class = fp.class /\ fp'.data = fp.data
        /\ fp'.shnum = fp.shnum /\ fp'.shstrndx = fp.shstrndx
        /\ fp'.strndx = fp.strndx /\ fp'.strndxsize = fp.strndxsize
    BY <1>1, <1>2 DEF Header, HeaderField, WithShdr
  <2>2. Whole(file)
    <3>1. file.ehdr # Null
      BY <1>1 DEF Shape, HeaderAccepted
    <3> QED  BY <1>1, <1>2, <3>1 DEF Shape, Whole, Announced
  <2>3. Shape'
    BY <1>1, <1>2, <2>1, <2>2
    DEF Shape, Whole, Announced, HasStrings, Number, StringTable, StringsSize32
  <2>4. \A s \in Section : Past(s)' => Past(s)
    BY <1>1, <1>2 DEF Past
  <2> QED  BY <1>1, <1>2, <2>3, <2>4, SameResults
<1>3. CASE Fail
  BY <1>1, <1>3, FailFinds DEF Reading
<1> QED  BY <1>2, <1>3 DEF readelfshdrs

LEMMA readelfphdrsFinds ==
  ASSUME SectInv, readelfphdrs  PROVE Shape' /\ Results'
<1>1. /\ Stages /\ Shape /\ pc = "phdrs" /\ caller = "check" /\ i = 0
      /\ UNCHANGED <<file, scarce, caller, i, fp>>
  BY DEF SectInv, ElfInv, Stages, readelfphdrs
<1>2. CASE pc' = "freeelf" /\ UNCHANGED data
  <2>1. Shape'
    BY <1>1, <1>2 DEF Shape, Whole, Announced, HasStrings
  <2>2. \A s \in Section : Past(s)' => Past(s)
    BY <1>1, <1>2 DEF Past, Section, Stages
  <2> QED  BY <1>1, <1>2, <2>1, <2>2, SameResults
<1>3. CASE Fail
  BY <1>1, <1>3, FailFinds DEF Reading
<1> QED  BY <1>2, <1>3 DEF readelfphdrs

LEMMA readelfsectFinds ==
  ASSUME SectInv, readelfsect  PROVE Shape' /\ Results'
<1>1. /\ Stages /\ Shape /\ Results /\ Header /\ Blocks /\ DOMAIN data = Section
      /\ pc = "sect" /\ caller = "section"
      /\ UNCHANGED <<file, scarce, caller, i>>
  BY DEF SectInv, ElfInv, Ownership, Entries, Stages, readelfsect
<1>2. /\ DOMAIN fp = HeaderField /\ i \in Section /\ SECTION_END \in Nat
      /\ Whole(file) /\ file \in Files /\ fp.data = file.ident.data
  BY <1>1 DEF Header, Stages, Reading, Shape
<1> DEFINE name == SECTION_NAME[i]
<1>3. name # Null
  BY <1>2, PlainAssumption
<1>4. /\ Sought = {} => Meant(name) = {}
      /\ \A k \in Sought :
           IF Readable(file, Shdr(file, fp, k).offset, Shdr(file, fp, k).size)
             THEN <<Shdr(file, fp, k).offset, Shdr(file, fp, k).size>> \in Meant(name)
             ELSE Meant(name) = {}
  BY <1>1, <1>3, SearchMeant DEF Sought
<1>5. ASSUME NEW k \in Sought, fp' = WithShdr(file, fp, k),
             NEW sect, newsection(fp'.offset, fp'.size, sect),
             \/ sect # Null /\ Keep(sect, fp'.size)
             \/ sect = Null /\ Fail
      PROVE  Shape' /\ Results'
  <2>1. /\ fp'.offset = Shdr(file, fp, k).offset
        /\ fp'.size = Shdr(file, fp, k).size
    BY <1>2, <1>5 DEF WithShdr, HeaderField
  <2>2. CASE sect # Null
    <3>1. /\ sect = NewBlock(fp'.offset, fp'.size)
          /\ Readable(file, fp'.offset, fp'.size)
          /\ pc' = "freeelf"
          /\ data' = [data EXCEPT ![i] = [data |-> sect, len |-> fp'.size]]
      BY <1>5, <2>2 DEF newsection, Keep
    <3>2. <<sect.offset, sect.size>> \in Meant(name)
      BY <1>4, <2>1, <3>1 DEF NewBlock
    <3>3. Shape'
      BY <1>1, <1>2, <3>1 DEF Shape, Whole, Announced, HasStrings
    <3>4. data'[i].data = sect /\ \A s \in Section : s # i => data'[s] = data[s]
      BY <1>1, <1>2, <3>1
    <3>5. \A n : Meant(n)' = Meant(n)
      BY <1>1 DEF Meant
    <3>6. ASSUME NEW s \in Section, Past(s)'  PROVE Found(s)'
      <4>1. CASE s = i
        BY <2>2, <3>2, <3>4, <3>5, <4>1 DEF Found
      <4>2. CASE s # i
        <5>1. Past(s)
          BY <1>1, <3>6, <4>2 DEF Past
        <5> QED  BY <1>1, <3>4, <3>5, <4>2, <5>1 DEF Found, Results
      <4> QED  BY <4>1, <4>2
    <3> QED  BY <3>3, <3>6 DEF Results
  <2>3. CASE sect = Null
    <3>1. Fail
      BY <1>5, <2>3
    <3>2. scarce \/ ~Readable(file, fp'.offset, fp'.size)
      <4>1. k + 1 \in 1 .. Len(file.shdrs) /\ Identified(file)
        BY <1>2, ElfAssumption
        DEF Sought, Search, Stops, HasShdr, Whole, Announced
      <4>2. fp'.offset \in Nat /\ fp'.size \in Nat
        BY <1>2, <2>1, <4>1, ElfAssumption DEF Shdr
      <4>3. NewBlock(fp'.offset, fp'.size) # Null
        BY <1>1, <4>2, NewBlockIsNew
      <4> QED  BY <1>5, <2>3, <4>3 DEF newsection
    <3>3. scarce \/ Meant(name) = {}
      BY <1>4, <2>1, <3>2
    <3> QED  BY <1>1, <3>1, <3>3, FailFinds DEF Reading
  <2> QED  BY <1>5, <2>2, <2>3
<1>6. CASE Sought = {} /\ Fail
  <2>1. Meant(name) = {}
    BY <1>4, <1>6
  <2> QED  BY <1>1, <1>6, <2>1, FailFinds DEF Reading
<1> QED  BY <1>5, <1>6 DEF readelfsect

LEMMA freeelfFinds ==
  ASSUME SectInv, freeelf  PROVE Shape' /\ Results'
<1>1. /\ Stages /\ Shape /\ pc = "freeelf"
      /\ pc' = IF caller = "check" THEN "malloc" ELSE "next"
      /\ UNCHANGED <<file, scarce, caller, i, fp, data>>
  BY DEF SectInv, ElfInv, freeelf
<1>2. Shape'
  BY <1>1 DEF Shape, Whole, Announced, HasStrings
<1>3. \A s \in Section : Past(s)' => Past(s)
  BY <1>1 DEF Past
<1> QED  BY <1>1, <1>2, <1>3, SameResults

LEMMA MallocDataFinds ==
  ASSUME SectInv, MallocData  PROVE Shape' /\ Results'
<1>1. /\ Stages /\ Shape /\ pc = "malloc" /\ i = 0 /\ pc' \in {"next", "done"}
      /\ UNCHANGED <<file, scarce, i, fp, data>>
  BY DEF SectInv, ElfInv, Stages, MallocData
<1>2. Shape'
  BY <1>1 DEF Shape, Whole, Announced, HasStrings
<1>3. \A s \in Section : Past(s)' => Past(s)
  BY <1>1 DEF Past, Section, Stages
<1> QED  BY <1>1, <1>2, <1>3, SameResults

LEMMA NextSectionFinds ==
  ASSUME SectInv, NextSection  PROVE Shape' /\ Results'
<1>1. /\ Stages /\ Shape /\ pc = "next" /\ i' = i + 1 /\ pc' = "ident"
      /\ UNCHANGED <<file, scarce, caller, data>>
  BY DEF SectInv, ElfInv, NextSection
<1>2. Shape'
  BY <1>1 DEF Shape, Whole, Announced, HasStrings
<1>3. \A s \in Section : Past(s)' => Past(s)
  BY <1>1 DEF Past, Section, Stages
<1> QED  BY <1>1, <1>2, <1>3, SameResults

LEMMA EndFinds ==
  ASSUME SectInv, Return \/ elf_free \/ UNCHANGED vars  PROVE Shape' /\ Results'
<1>1. /\ Stages /\ Shape
      /\ UNCHANGED <<file, scarce, caller, i, fp, data>>
      /\ \/ pc = "next" /\ pc' = "use"
         \/ pc = "use" /\ pc' = "done"
         \/ pc' = pc
  BY DEF SectInv, ElfInv, Return, elf_free, vars
<1>2. Shape'
  BY <1>1 DEF Shape, Whole, Announced, HasStrings, Number, StringTable,
              StringsSize32
<1>3. \A s \in Section : Past(s)' => Past(s)
  BY <1>1 DEF Past
<1> QED  BY <1>1, <1>2, <1>3, SameResults

(* The sections are read again and again from the beginning of the file,   *)
(* and nothing of one reading is left in the next: what is returned under  *)
(* a name is the region of the first header of that name, and nothing is   *)
(* returned only if there is none that can be read, or no memory           *)
(* (elf_manager.c:50 and elf.c:653).                                       *)
THEOREM SectionsAreRight ==
  Spec => []SectionsAreTheFiles
<1>1. Init => Shape /\ Results
  <2> SUFFICES ASSUME Init  PROVE Shape /\ Results
    OBVIOUS
  <2>1. Shape
    BY DEF Init, Shape
  <2>2. \A s \in Section : ~Past(s)
    BY ElfAssumption DEF Init, Past, Section, SECTION_END
  <2> QED  BY <2>1, <2>2 DEF Results
<1>2. SectInv /\ [Next]_vars => Shape' /\ Results'
  <2> SUFFICES ASSUME SectInv, [Next]_vars  PROVE Shape' /\ Results'
    OBVIOUS
  <2>1. CASE readident \/ readelfehdr \/ readelfstrndx
    BY <2>1, readidentFinds, readelfehdrFinds, readelfstrndxFinds
  <2>2. CASE readelfshdrs \/ readelfphdrs \/ readelfsect
    BY <2>2, readelfshdrsFinds, readelfphdrsFinds, readelfsectFinds
  <2>3. CASE freeelf \/ MallocData \/ NextSection
    BY <2>3, freeelfFinds, MallocDataFinds, NextSectionFinds
  <2>4. CASE Return \/ elf_free \/ UNCHANGED vars
    BY <2>4, EndFinds
  <2> QED  BY <2>1, <2>2, <2>3, <2>4 DEF Next, Done
<1>3. SectInv => SectionsAreTheFiles
  <2> SUFFICES ASSUME SectInv, pc = "use", NEW s \in Section  PROVE Found(s)
    BY DEF SectionsAreTheFiles, Found
  <2>1. Past(s)
    BY DEF SectInv, ElfInv, Stages, Past, Section
  <2> QED  BY <2>1 DEF SectInv, Results
<1>4. SectInv /\ [Next]_vars => SectInv'
  BY <1>2, ElfInvNext DEF SectInv
<1>5. Init => SectInv
  BY <1>1, ElfInvInit DEF SectInv
<1> QED  BY <1>3, <1>4, <1>5, PTL DEF Spec

=============================================================================
