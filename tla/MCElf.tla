------------------------------- MODULE MCElf --------------------------------
(***************************************************************************)
(* Small executables for ElfManager.  A byte has 16 values, which makes    *)
(* 2^32 65536.  The good file is altered in one place at a time.           *)
(***************************************************************************)
EXTENDS ElfManager, TLC

MCSectionName == <<".init", ".text", ".data">>

(* The string table, with an index that no header should have.             *)
Strings == 1 :> ".init" @@ 3 :> ".text" @@ 5 :> ".data" @@ 7 :> ".shstrtab"

StringsSize == 9

Region(name, offset, size) == [name |-> name, offset |-> offset, size |-> size]

NoSection == Region(0, 0, 0)
Init1     == Region(1, 64, 10)
Text1     == Region(3, 80, 20)
Text2     == Region(3, 100, 10)
Data0     == Region(5, 120, 0)
Data1     == Region(5, 120, 30)
Names     == Region(7, 200, StringsSize)
Nameless  == Region(StringsSize, 70, 5)
Beyond    == Region(1, 290, 20)

Good ==
  [class |-> 2, order |-> ELFDATA2LSB, magic |-> TRUE, version |-> EV_CURRENT,
   type |-> "DYN", ehsize |-> 64, phentsize |-> 56, phnum |-> 2, phdrs |-> 2,
   shdrs |-> <<NoSection, Init1, Text1, Data1, Names>>, shnum |-> 5,
   shstrndx |-> 4]

Good32 == [Good EXCEPT !.class = 1, !.ehsize = 52, !.phentsize = 32]

Altered(f) ==
  {[f EXCEPT !.magic = FALSE], [f EXCEPT !.version = 2],
   [f EXCEPT !.class = 0], [f EXCEPT !.class = 3],
   [f EXCEPT !.order = 0], [f EXCEPT !.type = "NONE"],
   [f EXCEPT !.type = "REL", !.phentsize = 0, !.phnum = 0],
   [f EXCEPT !.ehsize = 60], [f EXCEPT !.phnum = 3],
   [f EXCEPT !.shstrndx = 0], [f EXCEPT !.shstrndx = 5],
   [f EXCEPT !.shstrndx = 1], [f EXCEPT !.shnum = 6], [f EXCEPT !.shnum = 3],
   [f EXCEPT !.shdrs[4] = Data0], [f EXCEPT !.shdrs[2] = Beyond],
   [f EXCEPT !.shdrs[4] = Text2], [f EXCEPT !.shdrs[3] = Nameless],
   [f EXCEPT !.shdrs[2] = Text2, !.shdrs[3] = Data1, !.shdrs[4] = Init1]}

Wide == [Good EXCEPT !.shdrs[5].size = ByteValues ^ 4 + StringsSize]

(* The bytes of a number.                                                  *)
Bytes(f, v, width) ==
  IF f.order = ELFDATA2MSB THEN beput(v, width) ELSE leput(v, width)

Width(f) == IF f.class = 1 THEN 4 ELSE 8

(* All that is announced is there, and the sizes are those of the class.   *)
Valid(f) ==
  /\ f.magic
  /\ f.version = EV_CURRENT
  /\ f.class \in {1, 2}
  /\ f.order \in {ELFDATA2LSB, ELFDATA2MSB}
  /\ f.type = "DYN"
  /\ f.ehsize = (IF f.class = 1 THEN 52 ELSE 64)
  /\ f.shnum <= Len(f.shdrs)
  /\ f.phnum <= f.phdrs
  /\ f.shstrndx \in {1, 4}

Encode(f) ==
  [ident   |-> [magic |-> f.magic, version |-> f.version, class |-> f.class,
                data |-> f.order],
   ehdr    |-> [type |-> f.type,
                ehsize |-> Bytes(f, f.ehsize, 2),
                shentsize |-> Bytes(f, IF f.class = 1 THEN 40 ELSE 64, 2),
                phentsize |-> Bytes(f, f.phentsize, 2),
                phnum |-> Bytes(f, f.phnum, 2),
                shnum |-> Bytes(f, f.shnum, 2),
                shstrndx |-> Bytes(f, f.shstrndx, 2)],
   shdrs   |-> [k \in DOMAIN f.shdrs |->
                  [name   |-> Bytes(f, f.shdrs[k].name, 4),
                   offset |-> Bytes(f, f.shdrs[k].offset, Width(f)),
                   size   |-> Bytes(f, f.shdrs[k].size, Width(f))]],
   phdrs   |-> f.phdrs,
   strings |-> [p \in {200} \X DOMAIN Strings |-> Strings[p[2]]],
   length  |-> 300,
   valid   |-> Valid(f),
   plain   |-> [k \in DOMAIN f.shdrs \cap (1 .. f.shnum) |->
                  LET h == f.shdrs[k]
                      size == IF f.shstrndx = 1 THEN Init1.size ELSE StringsSize
                  IN Region(IF h.name >= size THEN Null
                            ELSE IF f.shstrndx = 4 /\ h.name \in DOMAIN Strings
                              THEN Strings[h.name] ELSE "",
                            h.offset, h.size)]]

MCFiles ==
  LET good  == {Good, Good32, [Good EXCEPT !.order = ELFDATA2MSB],
                [Good32 EXCEPT !.order = ELFDATA2MSB]}
      files == {Encode(f) : f \in good \cup UNION {Altered(f) : f \in good} \cup {Wide}}
  IN files
       \cup {[f EXCEPT !.ehdr = Null, !.valid = FALSE] : f \in {Encode(Good)}}
       \cup {[f EXCEPT !.ident = Null, !.ehdr = Null, !.valid = FALSE] : f \in {Encode(Good)}}

=============================================================================
