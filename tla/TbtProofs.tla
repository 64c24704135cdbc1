----------------------------- MODULE TbtProofs ------------------------------
(***************************************************************************)
(* Proofs about Tbt, for any number of processes, any calls and any files: *)
(* a file that was there is never touched, the parser stores at most one   *)
(* entry behind its array, what is in files and memories is well typed,    *)
(* and the lists that are printed fall.                                    *)
(***************************************************************************)
EXTENDS Tbt, NaturalFacts, SequenceTheorems, TLAPS

(* The variables of a process.                                             *)
Field ==
  {"command", "OUTPUT", "pc", "code", "algorithm", "out", "flushed", "files",
   "at", "line", "nb_files", "file_count", "content", "present", "work",
   "settled"}

(* What the entries of a memory are, as far as the proofs need it.         *)
IsMemory(t) ==
  /\ DOMAIN t = Field
  /\ t.nb_files \in Nat
  /\ t.file_count \in Nat
  /\ t.file_count <= t.nb_files + 1

(* Nobody is at work on a file that was there.                             *)
Aside(t) ==
  \A path \in Path :
    Disk[path] # Null =>
      /\ t.OUTPUT # path
      /\ t.pc = "create" => t.command.output # path

Memories ==
  /\ DOMAIN tbt = Process
  /\ \A p \in Process : IsMemory(tbt[p]) /\ Aside(tbt[p])

Disks == DOMAIN fs = Path /\ ExistingFilesStay

TbtInv == Memories /\ Disks

-----------------------------------------------------------------------------

(* A memory in which the counts, OUTPUT and the options stay is still one, *)
(* and aside unless the process goes to create a file.                     *)
LEMMA MemoryKept ==
  ASSUME NEW t, IsMemory(t), Aside(t), NEW u,
         DOMAIN u = DOMAIN t,
         u.command = t.command, u.OUTPUT = t.OUTPUT,
         u.nb_files = t.nb_files, u.file_count = t.file_count,
         u.pc # "create"
  PROVE  IsMemory(u) /\ Aside(u)
BY DEF IsMemory, Aside

(* A step that sets the memory of one process keeps those of the others.   *)
LEMMA SetKeepsMemories ==
  ASSUME Memories, NEW p \in Process, NEW u, Set(p, u), IsMemory(u), Aside(u)
  PROVE  Memories'
<1>1. DOMAIN tbt' = Process /\ tbt'[p] = u
  BY DEF Set, Memories
<1>2. \A q \in Process : q # p => tbt'[q] = tbt[q]
  BY DEF Set, Memories
<1>3. \A q \in Process : IsMemory(tbt'[q]) /\ Aside(tbt'[q])
  BY <1>1, <1>2 DEF Memories
<1> QED  BY <1>1, <1>3 DEF Memories, IsMemory, Aside

(* Writing to OUTPUT leaves the files alone that were there.               *)
LEMMA WriteKeepsDisks ==
  ASSUME Memories, Disks, NEW p \in Process, NEW file,
         fs' = [fs EXCEPT ![tbt[p].OUTPUT] = file]
  PROVE  Disks'
<1>1. DOMAIN fs' = Path
  BY DEF Disks
<1>2. ASSUME NEW path \in Path, Disk[path] # Null  PROVE fs'[path] = Disk[path]
  <2>1. tbt[p].OUTPUT # path
    BY <1>2 DEF Memories, Aside
  <2> QED  BY <1>2, <2>1 DEF Disks, ExistingFilesStay
<1> QED  BY <1>1, <1>2 DEF Disks, ExistingFilesStay, Path

LEMMA ExitKeeps ==
  ASSUME TbtInv, NEW p \in Process, NEW code, Exit(p, code)
  PROVE  TbtInv'
<1> DEFINE u == [tbt[p] EXCEPT !.pc = "done", !.code = code,
                               !.flushed = Len(tbt[p].out)]
<1>1. IsMemory(tbt[p]) /\ Aside(tbt[p])
  BY DEF TbtInv, Memories
<1>2. IsMemory(u) /\ Aside(u)
  <2>1. /\ DOMAIN u = DOMAIN tbt[p] /\ u.command = tbt[p].command
        /\ u.OUTPUT = tbt[p].OUTPUT /\ u.nb_files = tbt[p].nb_files
        /\ u.file_count = tbt[p].file_count /\ u.pc # "create"
    BY <1>1 DEF IsMemory, Field
  <2> HIDE DEF u
  <2> QED  BY <1>1, <2>1, MemoryKept
<1>3. Memories'
  <2>1. Set(p, u)
    BY DEF Exit
  <2> HIDE DEF u
  <2> QED  BY <1>2, <2>1, SetKeepsMemories DEF TbtInv
<1>4. Disks'
  <2>1. CASE UNCHANGED fs
    BY <2>1 DEF TbtInv, Disks, ExistingFilesStay, Path
  <2>2. CASE fs' = [fs EXCEPT ![tbt[p].OUTPUT] =
                      Write(@, tbt[p].flushed, Pending(tbt[p]))]
    BY <2>2, WriteKeepsDisks DEF TbtInv
  <2> QED  BY <2>1, <2>2 DEF Exit
<1> QED  BY <1>3, <1>4 DEF TbtInv

(* A step of one process that writes nothing and stays out of "create".    *)
LEMMA LocalStep ==
  ASSUME TbtInv, NEW p \in Process, NEW u, Set(p, u), UNCHANGED fs,
         DOMAIN u = Field,
         u.command = tbt[p].command, u.OUTPUT = tbt[p].OUTPUT,
         u.nb_files \in Nat, u.file_count \in Nat,
         u.file_count <= u.nb_files + 1,
         u.pc # "create"
  PROVE  TbtInv'
<1>1. IsMemory(u) /\ Aside(u)
  BY DEF TbtInv, Memories, IsMemory, Aside
<1>2. Memories'
  BY <1>1, SetKeepsMemories DEF TbtInv
<1>3. Disks'
  BY DEF TbtInv, Disks, ExistingFilesStay, Path
<1> QED  BY <1>2, <1>3 DEF TbtInv

(* The same when the counts stay too.                                      *)
LEMMA QuietStep ==
  ASSUME TbtInv, NEW p \in Process, NEW u, Set(p, u), UNCHANGED fs,
         DOMAIN u = DOMAIN tbt[p],
         u.command = tbt[p].command, u.OUTPUT = tbt[p].OUTPUT,
         u.nb_files = tbt[p].nb_files, u.file_count = tbt[p].file_count,
         u.pc # "create"
  PROVE  TbtInv'
<1>1. IsMemory(tbt[p])
  BY DEF TbtInv, Memories
<1> QED  BY <1>1, LocalStep DEF IsMemory

LEMMA GotoKeeps ==
  ASSUME TbtInv, NEW p \in Process, NEW pc, pc # "create", Goto(p, pc),
         UNCHANGED fs
  PROVE  TbtInv'
<1> DEFINE u == [tbt[p] EXCEPT !.pc = pc]
<1>1. DOMAIN tbt[p] = Field
  BY DEF TbtInv, Memories, IsMemory
<1>2. /\ DOMAIN u = DOMAIN tbt[p] /\ u.command = tbt[p].command
      /\ u.OUTPUT = tbt[p].OUTPUT /\ u.nb_files = tbt[p].nb_files
      /\ u.file_count = tbt[p].file_count /\ u.pc # "create"
  BY <1>1 DEF Field
<1>3. Set(p, u)
  BY DEF Goto
<1> HIDE DEF u
<1> QED  BY <1>2, <1>3, QuietStep

LEMMA ReadNextKeeps ==
  ASSUME TbtInv, NEW p \in Process, NEW t, ReadNext(p, t),
         DOMAIN t = Field,
         t.command = tbt[p].command, t.OUTPUT = tbt[p].OUTPUT,
         t.nb_files \in Nat, t.file_count \in Nat,
         t.file_count <= t.nb_files + 1,
         t.pc # "create"
  PROVE  TbtInv'
<1>1. CASE Ends(In(p), t.at) = {}
  <2> DEFINE u == [t EXCEPT !.pc = "choose"]
  <2>1. /\ DOMAIN u = Field /\ u.command = t.command /\ u.OUTPUT = t.OUTPUT
        /\ u.nb_files = t.nb_files /\ u.file_count = t.file_count
        /\ u.pc # "create"
    BY DEF Field
  <2>2. Set(p, u) /\ UNCHANGED fs
    BY <1>1 DEF ReadNext
  <2> HIDE DEF u
  <2> QED  BY <2>1, <2>2, LocalStep
<1>2. CASE Ends(In(p), t.at) # {}
  <2> DEFINE u == Read(t, In(p))
  <2>1. /\ DOMAIN u = Field /\ u.command = t.command /\ u.OUTPUT = t.OUTPUT
        /\ u.nb_files = t.nb_files /\ u.file_count = t.file_count
        /\ u.pc = t.pc
    BY DEF Field, Read
  <2>2. Set(p, u) /\ UNCHANGED fs
    BY <1>2 DEF ReadNext
  <2> HIDE DEF u
  <2> QED  BY <2>1, <2>2, LocalStep
<1> QED  BY <1>1, <1>2

-----------------------------------------------------------------------------

(* The invariant holds before any process has done a step.                 *)
THEOREM TbtInvInit ==
  Init => TbtInv
<1> SUFFICES ASSUME Init  PROVE TbtInv
  OBVIOUS
<1>1. PICK run \in Runs : tbt = [p \in Process |-> Begin(run[p])]
  BY DEF Init
<1>2. ASSUME NEW p \in Process  PROVE IsMemory(tbt[p]) /\ Aside(tbt[p])
  <2>1. tbt[p] = Begin(run[p])
    BY <1>1
  <2>2. IsMemory(Begin(run[p]))
    BY DEF IsMemory, Begin, Field
  <2>3. Begin(run[p]).OUTPUT = Null /\ Begin(run[p]).pc = "access"
    BY DEF Begin
  <2>4. Aside(Begin(run[p]))
    BY <2>3, TbtAssumption DEF Aside, Path
  <2> QED  BY <2>1, <2>2, <2>4
<1>3. Memories
  BY <1>1, <1>2 DEF Memories
<1>4. Disks
  BY DEF Init, Disks, ExistingFilesStay, Path
<1> QED  BY <1>3, <1>4 DEF TbtInv

(* A process goes to create a file only when it was not there.             *)
LEMMA AccessKeeps ==
  ASSUME TbtInv, NEW p \in Process, Access(p)
  PROVE  TbtInv'
<1> DEFINE output == tbt[p].command.output
<1>1. CASE output = Null /\ Goto(p, Mode(p)) /\ UNCHANGED fs
  BY <1>1, GotoKeeps DEF Mode
<1>2. CASE fs[output] = Null /\ Goto(p, "create") /\ UNCHANGED fs
  <2> DEFINE u == [tbt[p] EXCEPT !.pc = "create"]
  <2>1. IsMemory(tbt[p]) /\ Aside(tbt[p])
    BY DEF TbtInv, Memories
  <2>2. /\ DOMAIN u = Field /\ u.command = tbt[p].command
        /\ u.OUTPUT = tbt[p].OUTPUT /\ u.nb_files = tbt[p].nb_files
        /\ u.file_count = tbt[p].file_count
    BY <2>1 DEF IsMemory, Field
  <2>3. IsMemory(u)
    BY <2>1, <2>2 DEF IsMemory
  <2>4. ASSUME NEW path \in Path, Disk[path] # Null  PROVE output # path
    BY <1>2, <2>4 DEF TbtInv, Disks, ExistingFilesStay
  <2>5. Aside(u)
    BY <2>1, <2>2, <2>4 DEF Aside
  <2>6. Set(p, u)
    BY <1>2 DEF Goto
  <2> HIDE DEF u
  <2>7. Memories'
    BY <2>3, <2>5, <2>6, SetKeepsMemories DEF TbtInv
  <2>8. Disks'
    BY <1>2 DEF TbtInv, Disks, ExistingFilesStay, Path
  <2> QED  BY <2>7, <2>8 DEF TbtInv
<1>3. CASE Exit(p, 1)
  BY <1>3, ExitKeeps
<1> QED  BY <1>1, <1>2, <1>3 DEF Access

LEMMA CreateKeeps ==
  ASSUME TbtInv, NEW p \in Process, Create(p)
  PROVE  TbtInv'
<1> DEFINE output == tbt[p].command.output
           u == [tbt[p] EXCEPT !.pc = Mode(p), !.OUTPUT = output]
<1>1. CASE fs' = [fs EXCEPT ![output] = <<>>] /\ Set(p, u)
  <2>1. IsMemory(tbt[p]) /\ Aside(tbt[p])
    BY DEF TbtInv, Memories
  <2>2. /\ DOMAIN u = Field /\ u.command = tbt[p].command
        /\ u.OUTPUT = output /\ u.nb_files = tbt[p].nb_files
        /\ u.file_count = tbt[p].file_count /\ u.pc = Mode(p)
    BY <2>1 DEF IsMemory, Field
  <2>3. u.pc # "create"
    BY <2>2 DEF Mode
  <2>4. \A path \in Path : Disk[path] # Null => output # path
    BY <2>1 DEF Create, Aside
  <2>5. IsMemory(u)
    BY <2>1, <2>2 DEF IsMemory
  <2>6. Aside(u)
    BY <2>2, <2>3, <2>4 DEF Aside
  <2> HIDE DEF u
  <2>7. Memories'
    BY <1>1, <2>5, <2>6, SetKeepsMemories DEF TbtInv
  <2>8. Disks'
    BY <1>1, <2>4 DEF TbtInv, Disks, ExistingFilesStay, Path
  <2> QED  BY <2>7, <2>8 DEF TbtInv
<1>2. CASE Exit(p, 1)
  BY <1>2, ExitKeeps
<1> QED  BY <1>1, <1>2 DEF Create

LEMMA StatKeeps ==
  ASSUME TbtInv, NEW p \in Process, Stat(p)
  PROVE  TbtInv'
<1> DEFINE argument == tbt[p].command.argument
           read(names) == [tbt[p] EXCEPT !.pc = "readdir", !.files = names]
           fail == [tbt[p] EXCEPT !.pc = "close", !.code = 1]
<1>1. DOMAIN tbt[p] = Field
  BY DEF TbtInv, Memories, IsMemory
<1>2. ASSUME NEW names, Set(p, read(names)), UNCHANGED fs  PROVE TbtInv'
  <2> DEFINE u == read(names)
  <2>1. /\ DOMAIN u = DOMAIN tbt[p] /\ u.command = tbt[p].command
        /\ u.OUTPUT = tbt[p].OUTPUT /\ u.nb_files = tbt[p].nb_files
        /\ u.file_count = tbt[p].file_count /\ u.pc # "create"
    BY <1>1 DEF Field
  <2>2. Set(p, u) /\ UNCHANGED fs
    BY <1>2
  <2> HIDE DEF u
  <2> QED  BY <2>1, <2>2, QuietStep
<1>3. CASE Set(p, fail) /\ UNCHANGED fs
  <2>1. /\ DOMAIN fail = DOMAIN tbt[p] /\ fail.command = tbt[p].command
        /\ fail.OUTPUT = tbt[p].OUTPUT /\ fail.nb_files = tbt[p].nb_files
        /\ fail.file_count = tbt[p].file_count /\ fail.pc # "create"
    BY <1>1 DEF Field
  <2> HIDE DEF fail
  <2> QED  BY <1>3, <2>1, QuietStep
<1>4. CASE Exit(p, 1)
  BY <1>4, ExitKeeps
<1>5. \/ Set(p, read(Directory[argument])) /\ UNCHANGED fs
      \/ Set(p, fail) /\ UNCHANGED fs
      \/ Set(p, read({argument})) /\ UNCHANGED fs
      \/ Exit(p, 1)
  BY DEF Stat
<1> HIDE DEF read, fail, argument
<1> QED  BY <1>2, <1>3, <1>4, <1>5

LEMMA TreatKeeps ==
  ASSUME TbtInv, NEW p \in Process, treat_dir(p)
  PROVE  TbtInv'
<1>1. DOMAIN tbt[p] = Field
  BY DEF TbtInv, Memories, IsMemory
<1>2. ASSUME NEW name, treat_file(p, name), UNCHANGED fs, tbt[p].pc = "readdir"
      PROVE  TbtInv'
  <2> DEFINE u == [tbt[p] EXCEPT
                     !.files = @ \ {name},
                     !.out = IF Sample[name].elf
                               THEN @ \o Printed(tbt[p].algorithm, name)
                               ELSE @]
  <2>1. /\ DOMAIN u = DOMAIN tbt[p] /\ u.command = tbt[p].command
        /\ u.OUTPUT = tbt[p].OUTPUT /\ u.nb_files = tbt[p].nb_files
        /\ u.file_count = tbt[p].file_count /\ u.pc = tbt[p].pc
    BY <1>1 DEF Field
  <2>2. Set(p, u)
    BY <1>2 DEF treat_file
  <2> HIDE DEF u
  <2> QED  BY <1>2, <2>1, <2>2, QuietStep
<1>3. CASE Goto(p, "close") /\ UNCHANGED fs
  BY <1>3, GotoKeeps
<1> QED  BY <1>2, <1>3 DEF treat_dir

LEMMA FopenKeeps ==
  ASSUME TbtInv, NEW p \in Process, Fopen(p)
  PROVE  TbtInv'
<1> DEFINE u == [tbt[p] EXCEPT !.pc = "count",
                               !.settled = Settled(tbt[p].command.argument)]
<1>1. CASE Exit(p, 1)
  BY <1>1, ExitKeeps
<1>2. CASE Set(p, u) /\ UNCHANGED fs
  <2>1. DOMAIN tbt[p] = Field
    BY DEF TbtInv, Memories, IsMemory
  <2>2. /\ DOMAIN u = DOMAIN tbt[p] /\ u.command = tbt[p].command
        /\ u.OUTPUT = tbt[p].OUTPUT /\ u.nb_files = tbt[p].nb_files
        /\ u.file_count = tbt[p].file_count /\ u.pc # "create"
    BY <2>1 DEF Field
  <2> HIDE DEF u
  <2> QED  BY <1>2, <2>2, QuietStep
<1> QED  BY <1>1, <1>2 DEF Fopen

LEMMA CountLineKeeps ==
  ASSUME TbtInv, NEW p \in Process, CountLine(p)
  PROVE  TbtInv'
<1> DEFINE t == Read(tbt[p], In(p))
           u == [t EXCEPT !.nb_files = IF IsHash(t.line) THEN @ ELSE @ + 1]
<1>1. IsMemory(tbt[p])
  BY DEF TbtInv, Memories
<1>2. /\ DOMAIN t = Field /\ t.command = tbt[p].command
      /\ t.OUTPUT = tbt[p].OUTPUT /\ t.nb_files = tbt[p].nb_files
      /\ t.file_count = tbt[p].file_count /\ t.pc = tbt[p].pc
  BY <1>1 DEF Field, Read, IsMemory
<1>3. Set(p, u) /\ UNCHANGED fs
  BY DEF CountLine
<1> HIDE DEF t
<1>4. /\ DOMAIN u = Field /\ u.command = tbt[p].command
      /\ u.OUTPUT = tbt[p].OUTPUT /\ u.file_count = tbt[p].file_count
      /\ u.pc = tbt[p].pc
      /\ u.nb_files \in {tbt[p].nb_files, tbt[p].nb_files + 1}
  BY <1>2 DEF Field
<1>5. tbt[p].pc = "count"
  BY DEF CountLine
<1> HIDE DEF u
<1>6. /\ u.nb_files \in Nat /\ u.file_count \in Nat
      /\ u.file_count <= u.nb_files + 1
  BY <1>1, <1>4 DEF IsMemory
<1> QED  BY <1>3, <1>4, <1>5, <1>6, LocalStep

LEMMA CountEndKeeps ==
  ASSUME TbtInv, NEW p \in Process, CountEnd(p)
  PROVE  TbtInv'
<1> DEFINE u(line) ==
      [tbt[p] EXCEPT !.pc = "parse", !.at = 0, !.line = line,
                     !.content = [k \in 1 .. tbt[p].nb_files + 1 |-> NoEntry]]
<1>1. PICK line : Set(p, u(line)) /\ UNCHANGED fs
  BY DEF CountEnd
<1>2. DOMAIN tbt[p] = Field
  BY DEF TbtInv, Memories, IsMemory
<1>3. /\ DOMAIN u(line) = DOMAIN tbt[p] /\ u(line).command = tbt[p].command
      /\ u(line).OUTPUT = tbt[p].OUTPUT
      /\ u(line).nb_files = tbt[p].nb_files
      /\ u(line).file_count = tbt[p].file_count /\ u(line).pc # "create"
  BY <1>2 DEF Field
<1> HIDE DEF u
<1> QED  BY <1>1, <1>3, QuietStep

(* The name and the hashes of an entry that begins.                        *)
Entered(entry, name, kinds) ==
  [name    |-> name,
   ctph    |-> IF "ctph" \in kinds THEN Scrap ELSE entry.ctph,
   simhash |-> IF "simhash" \in kinds THEN Scrap ELSE entry.simhash]

(* Entry k begins.                                                         *)
Enter(content, k, name, kinds) ==
  [content EXCEPT ![k] = Entered(content[k], name, kinds)]

(* What ParseName stores.                                                  *)
Named(t, name, kinds) ==
  [t EXCEPT !.file_count = t.file_count + 1,
            !.content[t.file_count + 1] = Entered(@, name, kinds),
            !.present = @ \cup kinds]

(* The line in line_buf is not all of a line that was written.             *)
Beyond(t) == ~t.line.end \/ t.line.text = Unset

(* The name ParseName stores, and the scraps.                              *)
LEMMA ParseNameStores ==
  ASSUME NEW p, ParseName(p)
  PROVE  \E name \in {tbt[p].line.text, Unset}, kinds \in SUBSET {"ctph", "simhash"} :
           /\ ReadNext(p, Named(tbt[p], name, kinds))
           /\ ~Beyond(tbt[p]) => name = tbt[p].line.text /\ kinds = {}
<1>1. PICK name \in {tbt[p].line.text} \cup (IF Beyond(tbt[p]) THEN {Unset} ELSE {}),
           kinds \in SUBSET (IF Beyond(tbt[p]) THEN {"ctph", "simhash"} ELSE {}) :
        ReadNext(p, Named(tbt[p], name, kinds))
  BY DEF ParseName, Named, Entered, Beyond
<1> QED  BY <1>1

(* The only step that stores an entry: nb_files or less were before it.    *)
LEMMA ParseNameKeeps ==
  ASSUME TbtInv, NEW p \in Process, ParseName(p)
  PROVE  TbtInv'
<1>1. PICK name, kinds : ReadNext(p, Named(tbt[p], name, kinds))
  BY ParseNameStores
<1> DEFINE t == Named(tbt[p], name, kinds)
<1>2. IsMemory(tbt[p])
  BY DEF TbtInv, Memories
<1>3. tbt[p].pc = "parse" /\ tbt[p].file_count <= tbt[p].nb_files
  BY DEF ParseName, Parsing
<1>4. /\ DOMAIN t = Field
      /\ t.command = tbt[p].command
      /\ t.OUTPUT = tbt[p].OUTPUT
      /\ t.nb_files = tbt[p].nb_files
      /\ t.file_count = tbt[p].file_count + 1
      /\ t.pc = tbt[p].pc
  BY <1>2 DEF Field, IsMemory, Named
<1>5. ReadNext(p, t)
  BY <1>1
<1> HIDE DEF t
<1>6. /\ t.nb_files \in Nat /\ t.file_count \in Nat
      /\ t.file_count <= t.nb_files + 1
  BY <1>2, <1>3, <1>4 DEF IsMemory
<1> QED  BY <1>3, <1>4, <1>5, <1>6, ReadNextKeeps

LEMMA ParseHashKeeps ==
  ASSUME TbtInv, NEW p \in Process, ParseHash(p)
  PROVE  TbtInv'
<1> DEFINE kind == tbt[p].line.kind
           stored == [tbt[p] EXCEPT
                        !.content[tbt[p].file_count][kind] = tbt[p].line.text,
                        !.present = @ \cup {kind}]
           t == IF tbt[p].file_count = 0 THEN tbt[p] ELSE stored
<1>1. ReadNext(p, t) /\ tbt[p].pc = "parse"
  BY DEF ParseHash, Parsing
<1>2. IsMemory(tbt[p])
  BY DEF TbtInv, Memories
<1>3. /\ DOMAIN stored = Field /\ stored.command = tbt[p].command
      /\ stored.OUTPUT = tbt[p].OUTPUT /\ stored.nb_files = tbt[p].nb_files
      /\ stored.file_count = tbt[p].file_count /\ stored.pc = tbt[p].pc
  BY <1>2 DEF Field, IsMemory
<1> HIDE DEF stored
<1>4. /\ DOMAIN t = Field /\ t.command = tbt[p].command
      /\ t.OUTPUT = tbt[p].OUTPUT /\ t.nb_files = tbt[p].nb_files
      /\ t.file_count = tbt[p].file_count /\ t.pc = tbt[p].pc
  BY <1>2, <1>3 DEF IsMemory
<1> HIDE DEF t
<1> QED  BY <1>1, <1>2, <1>4, ReadNextKeeps DEF IsMemory

LEMMA ParseNothingKeeps ==
  ASSUME TbtInv, NEW p \in Process, ParseNothing(p)
  PROVE  TbtInv'
<1>1. ReadNext(p, tbt[p]) /\ tbt[p].pc = "parse"
  BY DEF ParseNothing, Parsing
<1>2. IsMemory(tbt[p])
  BY DEF TbtInv, Memories
<1> QED  BY <1>1, <1>2, ReadNextKeeps DEF IsMemory

LEMMA ChooseKeeps ==
  ASSUME TbtInv, NEW p \in Process, Choose(p)
  PROVE  TbtInv'
<1> DEFINE u == [tbt[p] EXCEPT
                   !.pc = "compare",
                   !.algorithm = Chosen(tbt[p]),
                   !.work = Work(Section[Chosen(tbt[p])], tbt[p].nb_files)]
<1>1. CASE Exit(p, 1)
  BY <1>1, ExitKeeps
<1>2. CASE Set(p, u) /\ UNCHANGED fs
  <2>1. DOMAIN tbt[p] = Field
    BY DEF TbtInv, Memories, IsMemory
  <2>2. /\ DOMAIN u = DOMAIN tbt[p] /\ u.command = tbt[p].command
        /\ u.OUTPUT = tbt[p].OUTPUT /\ u.nb_files = tbt[p].nb_files
        /\ u.file_count = tbt[p].file_count /\ u.pc # "create"
    BY <2>1 DEF Field
  <2> HIDE DEF u
  <2> QED  BY <1>2, <2>2, QuietStep
<1> QED  BY <1>1, <1>2 DEF Choose

(* What comparision prints is only added to the buffer.                    *)
LEMMA PrintKeeps ==
  ASSUME TbtInv, NEW p \in Process, NEW lines, tbt[p].pc = "compare",
         UNCHANGED fs,
         Set(p, [tbt[p] EXCEPT !.work = Tail(@), !.out = lines])
  PROVE  TbtInv'
<1> DEFINE u == [tbt[p] EXCEPT !.work = Tail(@), !.out = lines]
<1>1. DOMAIN tbt[p] = Field
  BY DEF TbtInv, Memories, IsMemory
<1>2. /\ DOMAIN u = DOMAIN tbt[p] /\ u.command = tbt[p].command
      /\ u.OUTPUT = tbt[p].OUTPUT /\ u.nb_files = tbt[p].nb_files
      /\ u.file_count = tbt[p].file_count /\ u.pc = tbt[p].pc
  BY <1>1 DEF Field
<1>3. Set(p, u)
  OBVIOUS
<1> HIDE DEF u
<1> QED  BY <1>2, <1>3, QuietStep

LEMMA HeadingKeeps ==
  ASSUME TbtInv, NEW p \in Process, Heading(p)
  PROVE  TbtInv'
<1> DEFINE lines == Append(tbt[p].out, Line("head", Head(tbt[p].work)[1]))
<1>1. DOMAIN tbt[p] = Field
  BY DEF TbtInv, Memories, IsMemory
<1>2. [tbt[p] EXCEPT !.work = Tail(@),
                     !.out = Append(@, Line("head", Head(tbt[p].work)[1]))]
        = [tbt[p] EXCEPT !.work = Tail(@), !.out = lines]
  BY <1>1 DEF Field
<1>3. Set(p, [tbt[p] EXCEPT !.work = Tail(@), !.out = lines])
  BY <1>2 DEF Heading
<1> HIDE DEF lines
<1> QED  BY <1>3, PrintKeeps DEF Heading

LEMMA CompareNextKeeps ==
  ASSUME TbtInv, NEW p \in Process, CompareNext(p)
  PROVE  TbtInv'
<1>1. PICK section, i, percentage, order :
        Set(p, [tbt[p] EXCEPT
                  !.work = Tail(@),
                  !.out = @ \o List(tbt[p], section, i, percentage, order)])
  BY DEF CompareNext
<1> DEFINE lines == tbt[p].out \o List(tbt[p], section, i, percentage, order)
<1>2. DOMAIN tbt[p] = Field
  BY DEF TbtInv, Memories, IsMemory
<1>3. [tbt[p] EXCEPT !.work = Tail(@),
                     !.out = @ \o List(tbt[p], section, i, percentage, order)]
        = [tbt[p] EXCEPT !.work = Tail(@), !.out = lines]
  BY <1>2 DEF Field
<1>4. Set(p, [tbt[p] EXCEPT !.work = Tail(@), !.out = lines])
  BY <1>1, <1>3
<1> HIDE DEF lines
<1> QED  BY <1>4, PrintKeeps DEF CompareNext

LEMMA FlushKeeps ==
  ASSUME TbtInv, NEW p \in Process, Flush(p)
  PROVE  TbtInv'
<1> DEFINE u(lines) ==
      [tbt[p] EXCEPT
         !.flushed = @ + Cardinality({k \in DOMAIN lines : lines[k].end})]
<1>1. PICK lines :
        /\ fs' = [fs EXCEPT ![tbt[p].OUTPUT] = Write(@, tbt[p].flushed, lines)]
        /\ Set(p, u(lines))
  BY DEF Flush
<1>2. IsMemory(tbt[p]) /\ Aside(tbt[p])
  BY DEF TbtInv, Memories
<1>3. /\ DOMAIN u(lines) = Field /\ u(lines).command = tbt[p].command
      /\ u(lines).OUTPUT = tbt[p].OUTPUT
      /\ u(lines).nb_files = tbt[p].nb_files
      /\ u(lines).file_count = tbt[p].file_count /\ u(lines).pc = tbt[p].pc
  BY <1>2 DEF IsMemory, Field
<1> HIDE DEF u
<1>4. IsMemory(u(lines)) /\ Aside(u(lines))
  BY <1>2, <1>3 DEF IsMemory, Aside
<1>5. Memories'
  BY <1>1, <1>4, SetKeepsMemories DEF TbtInv
<1>6. Disks'
  BY <1>1, WriteKeepsDisks DEF TbtInv
<1> QED  BY <1>5, <1>6 DEF TbtInv

-----------------------------------------------------------------------------

LEMMA TbtInvStep ==
  ASSUME TbtInv, NEW p \in Process, Step(p)
  PROVE  TbtInv'
<1>1. CASE Access(p)        BY <1>1, AccessKeeps
<1>2. CASE Create(p)        BY <1>2, CreateKeeps
<1>3. CASE Stat(p)          BY <1>3, StatKeeps
<1>4. CASE treat_dir(p)     BY <1>4, TreatKeeps
<1>5. CASE Fopen(p)         BY <1>5, FopenKeeps
<1>6. CASE CountLine(p)     BY <1>6, CountLineKeeps
<1>7. CASE CountEnd(p)      BY <1>7, CountEndKeeps
<1>8. CASE WrongNumber(p)   BY <1>8, ExitKeeps DEF WrongNumber
<1>9. CASE ParseName(p)     BY <1>9, ParseNameKeeps
<1>10. CASE ParseHash(p)    BY <1>10, ParseHashKeeps
<1>11. CASE ParseNothing(p) BY <1>11, ParseNothingKeeps
<1>12. CASE Choose(p)       BY <1>12, ChooseKeeps
<1>13. CASE Heading(p)      BY <1>13, HeadingKeeps
<1>14. CASE CompareNext(p)  BY <1>14, CompareNextKeeps
<1>15. CASE Compared(p)     BY <1>15, GotoKeeps DEF Compared
<1>16. CASE close_output(p) BY <1>16, ExitKeeps DEF close_output
<1> QED
  BY <1>1, <1>2, <1>3, <1>4, <1>5, <1>6, <1>7, <1>8, <1>9, <1>10, <1>11,
     <1>12, <1>13, <1>14, <1>15, <1>16 DEF Step

(* Every step keeps the counts within their bound and every process aside  *)
(* of the files that were there.                                           *)
THEOREM TbtInvNext ==
  TbtInv /\ [Next]_vars => TbtInv'
<1> SUFFICES ASSUME TbtInv, [Next]_vars  PROVE TbtInv'
  OBVIOUS
<1>1. ASSUME NEW p \in Process, Step(p)  PROVE TbtInv'
  BY <1>1, TbtInvStep
<1>2. ASSUME NEW p \in Process, Flush(p)  PROVE TbtInv'
  BY <1>2, FlushKeeps
<1>3. ASSUME NEW p \in Process, Killed(p)  PROVE TbtInv'
  BY <1>3, GotoKeeps DEF Killed
<1>4. CASE UNCHANGED vars
  BY <1>4 DEF TbtInv, Memories, Disks, ExistingFilesStay, Path, IsMemory,
              Aside, vars
<1> QED  BY <1>1, <1>2, <1>3, <1>4 DEF Next, Done

(* For any number of runs of tbt at once, killed at any step, a file that  *)
(* was there before is not touched by any of them (src/tbt.c:452).         *)
THEOREM FilesStay ==
  Spec => []ExistingFilesStay
<1>1. TbtInv => ExistingFilesStay
  BY DEF TbtInv, Disks
<1> QED  BY <1>1, TbtInvInit, TbtInvNext, PTL DEF Spec

(* Whatever others write to the hash file while it is read, the parser     *)
(* stores at most one entry behind its array (src/tbt.c:222).              *)
THEOREM StoresOneBeyondAtMost ==
  Spec => []OneBeyondAtMost
<1>1. TbtInv => OneBeyondAtMost
  BY DEF TbtInv, Memories, IsMemory, OneBeyondAtMost
<1> QED  BY <1>1, TbtInvInit, TbtInvNext, PTL DEF Spec

-----------------------------------------------------------------------------
(***************************************************************************)
(* Types.                                                                  *)
(***************************************************************************)

Kinds == {"hole", "head", "name", "of", "ctph", "simhash", "score"}

Lines ==
  {line \in [kind : Kinds, text : UNION {Texts(kind) : kind \in Kinds},
             end : BOOLEAN] : line.text \in Texts(line.kind)}

(* What is printed ends.                                                   *)
Printable == {line \in Lines : line.end}

(* line_buf: what is garbled has no text that is known.                    *)
IsBuffer(line) ==
  /\ DOMAIN line = {"kind", "text", "end"}
  /\ line.kind \in Kinds
  /\ line.text \in Texts(line.kind) \cup {Unset}

HashKinds == {"ctph", "simhash"}

(* The hashes of an entry: those of the file, or a scrap of a line.        *)
HashTexts(kind) == Texts(kind) \cup {Scrap}

Entries ==
  [name : Names \cup {Unset},
   ctph : HashTexts("ctph"), simhash : HashTexts("simhash")]

IsCommand(command) ==
  /\ command.mode \in {"hash", "compare"}
  /\ command.algorithm \in DOMAIN Section
  /\ command.output \in Path \cup {Null}
  /\ command.mode = "compare" => command.argument \in Path

(* The places of a process, by the mode of its call.                       *)
Places(mode) ==
  {"access", "create", "close", "done", "killed"}
    \cup IF mode = "compare"
           THEN {"fopen", "count", "parse", "choose", "compare"}
           ELSE {"stat", "readdir"}

(* The lists still to be made for nb_files entries.                        *)
WorkOf(nb_files) == Seq({"ctph", "simhash"} \X (0 .. nb_files))

Typed(t) ==
  /\ IsCommand(t.command)
  /\ t.pc \in Places(t.command.mode)
  /\ t.OUTPUT \in {Null, t.command.output}
  /\ t.pc = "create" => t.command.output # Null
  /\ t.code \in {0, 1}
  /\ t.algorithm \in DOMAIN Section
  /\ t.out \in Seq(Printable)
  /\ t.flushed \in 0 .. Len(t.out)
  /\ t.files \subseteq DOMAIN Sample
  /\ t.at \in Nat
  /\ IsBuffer(t.line)
  /\ t.pc \in {"access", "create", "fopen"} => t.nb_files = 0
  /\ t.pc = "count" => t.nb_files <= t.at
  /\ t.content \in Seq(Entries)
  /\ t.pc \in {"parse", "choose", "compare"} => Len(t.content) = t.nb_files + 1
  /\ t.pc = "compare" => t.work \in WorkOf(t.nb_files)

(* The file a process writes, and the one it reads, are there.             *)
Opened(t, disk) ==
  /\ t.OUTPUT # Null => disk[t.OUTPUT] \in Seq(Lines)
  /\ t.pc \in {"count", "parse"} => disk[t.command.argument] \in Seq(Lines)

TypedFiles ==
  \A path \in Path : fs[path] = Null \/ fs[path] \in Seq(Lines)

TypeInv ==
  /\ TbtInv
  /\ TypedFiles
  /\ \A p \in Process : Typed(tbt[p]) /\ Opened(tbt[p], fs)

-----------------------------------------------------------------------------
(***************************************************************************)
(* Lines and files.                                                        *)
(***************************************************************************)

LEMMA LineIsTyped ==
  ASSUME NEW line \in Lines
  PROVE  /\ line = [kind |-> line.kind, text |-> line.text, end |-> line.end]
         /\ line.kind \in Kinds
         /\ line.text \in Texts(line.kind)
         /\ line.end \in BOOLEAN
BY DEF Lines

LEMMA LinesAreIsLine ==
  \A line : IsLine(line) <=> line \in Lines
<1>1. ASSUME NEW line, IsLine(line)  PROVE line \in Lines
  <2> DEFINE texts == UNION {Texts(kind) : kind \in Kinds}
  <2>1. line.kind \in Kinds /\ line.text \in Texts(line.kind) /\ line.end \in BOOLEAN
    BY <1>1 DEF IsLine, Kinds
  <2>2. line.text \in texts
    BY <2>1
  <2> HIDE DEF texts
  <2>3. line \in [kind : Kinds, text : texts, end : BOOLEAN]
    BY <1>1, <2>1, <2>2 DEF IsLine
  <2> QED  BY <2>1, <2>3 DEF Lines, texts
<1>2. ASSUME NEW line \in Lines  PROVE IsLine(line)
  BY <1>2, LineIsTyped DEF IsLine, Kinds
<1> QED  BY <1>1, <1>2

LEMMA LineIsPrintable ==
  ASSUME NEW kind \in Kinds, NEW text \in Texts(kind)
  PROVE  Line(kind, text) \in Printable
<1> DEFINE line == Line(kind, text)
<1>1. /\ line = [kind |-> line.kind, text |-> line.text, end |-> line.end]
      /\ line.kind = kind /\ line.text = text /\ line.end = TRUE
  BY DEF Line
<1> HIDE DEF line
<1>2. IsLine(line)
  BY <1>1 DEF IsLine, Kinds
<1> QED  BY <1>1, <1>2, LinesAreIsLine DEF Printable, line

LEMMA CutIsLine ==
  ASSUME NEW line \in Lines
  PROVE  /\ Cut(line) \in Lines
         /\ Cut(line).kind = line.kind /\ Cut(line).text = line.text
         /\ Cut(line).end = FALSE
<1> DEFINE texts == UNION {Texts(kind) : kind \in Kinds}
<1>1. line \in [kind : Kinds, text : texts, end : BOOLEAN]
  BY DEF Lines
<1>2. line.text \in Texts(line.kind)
  BY LineIsTyped
<1> HIDE DEF texts
<1>3. /\ Cut(line) \in [kind : Kinds, text : texts, end : BOOLEAN]
      /\ Cut(line).kind = line.kind /\ Cut(line).text = line.text
      /\ Cut(line).end = FALSE
  BY <1>1 DEF Cut
<1> QED  BY <1>2, <1>3 DEF Lines, texts

LEMMA HoleIsLine ==
  Hole \in Lines
<1>1. IsLine(Hole)
  BY DEF IsLine, Hole, Texts
<1> QED  BY <1>1, LinesAreIsLine

LEMMA TextsOfKinds ==
  /\ Texts("hole") = {Null}
  /\ Texts("head") = {"ctph", "simhash"}
  /\ Texts("name") = Names \cup {Unset}
  /\ Texts("of") = Names \cup {Unset}
  /\ Texts("ctph") = {Sample[n].ctph : n \in Names} \cup {Unset}
  /\ Texts("simhash") = DOMAIN Bytes \cup {Unset}
  /\ Texts("score") = [section : {"ctph", "simhash"}, of : Names \cup {Unset},
                       name : Names \cup {Unset}, percentage : Int]
BY DEF Texts

LEMMA LineBuffered ==
  ASSUME NEW line \in Lines
  PROVE  IsBuffer(line)
<1>1. DOMAIN line = {"kind", "text", "end"}
  BY DEF Lines
<1> QED  BY <1>1, LineIsTyped DEF IsBuffer

(* A file after a write, which may begin behind its end.                   *)
LEMMA WriteType ==
  ASSUME NEW f \in Seq(Lines), NEW at \in Nat, NEW lines \in Seq(Lines)
  PROVE  /\ Write(f, at, lines) \in Seq(Lines)
         /\ Len(Write(f, at, lines)) =
              IF at + Len(lines) >= Len(f) THEN at + Len(lines) ELSE Len(f)
         /\ \A k \in 1 .. Len(Write(f, at, lines)) :
              Write(f, at, lines)[k] =
                IF k > at /\ k <= at + Len(lines) THEN lines[k - at]
                ELSE IF k <= Len(f) THEN f[k]
                ELSE Hole
<1> DEFINE end == Max({Len(f), at + Len(lines)})
           place(k) == IF k > at /\ k <= at + Len(lines) THEN lines[k - at]
                       ELSE IF k <= Len(f) THEN f[k]
                       ELSE Hole
<1>1. PICK n \in Nat, m \in Nat : n = Len(f) /\ m = Len(lines)
  OBVIOUS
<1>2. end = IF at + m >= n THEN at + m ELSE n
  BY <1>1 DEF Max
<1>3. end \in Nat
  BY <1>1, <1>2
<1>4. ASSUME NEW k \in 1 .. end  PROVE place(k) \in Lines
  <2>1. CASE k > at /\ k <= at + Len(lines)
    <3>1. k - at \in 1 .. m
      BY <1>1, <1>3, <2>1
    <3>2. lines[k - at] \in Lines
      BY <1>1, <3>1
    <3> QED  BY <2>1, <3>2
  <2>2. CASE ~(k > at /\ k <= at + Len(lines)) /\ k <= Len(f)
    <3>1. k \in 1 .. Len(f)
      BY <1>1, <1>3, <2>2
    <3>2. f[k] \in Lines
      BY <3>1
    <3> QED  BY <2>2, <3>2
  <2>3. CASE ~(k > at /\ k <= at + Len(lines)) /\ ~(k <= Len(f))
    BY <2>3, HoleIsLine
  <2> QED  BY <2>1, <2>2, <2>3
<1>5. Write(f, at, lines) = [k \in 1 .. end |-> place(k)]
  BY DEF Write
<1> HIDE DEF place, end
<1>6. [k \in 1 .. end |-> place(k)] \in Seq(Lines)
      /\ Len([k \in 1 .. end |-> place(k)]) = end
  BY <1>3, <1>4
<1>7. \A k \in 1 .. end : [l \in 1 .. end |-> place(l)][k] = place(k)
  OBVIOUS
<1> QED  BY <1>1, <1>2, <1>5, <1>6, <1>7 DEF place

LEMMA PrintedAreLines ==
  Printable \subseteq Lines /\ Seq(Printable) \subseteq Seq(Lines)
BY SeqMonotonic DEF Printable

(* The part of the buffer that has not reached the file.                   *)
LEMMA PendingType ==
  ASSUME NEW t, t.out \in Seq(Printable), t.flushed \in 0 .. Len(t.out)
  PROVE  /\ Pending(t) \in Seq(Printable)
         /\ Len(Pending(t)) = Len(t.out) - t.flushed
         /\ \A k \in 1 .. Len(Pending(t)) :
              Pending(t)[k] = t.out[t.flushed + k]
<1>1. PICK m \in Nat, n \in Nat : m = t.flushed /\ n = Len(t.out) /\ m <= n
  OBVIOUS
<1>2. \A k \in m + 1 .. n : t.out[k] \in Printable
  BY <1>1
<1>3. m + 1 \in Int /\ n \in Int
  BY <1>1
<1>4. /\ SubSeq(t.out, m + 1, n) \in Seq(Printable)
      /\ Len(SubSeq(t.out, m + 1, n)) = IF m + 1 <= n THEN n - (m + 1) + 1 ELSE 0
      /\ \A k \in 1 .. n - (m + 1) + 1 :
           SubSeq(t.out, m + 1, n)[k] = t.out[m + 1 + k - 1]
  <2>1. PICK i \in Int : i = m + 1
    BY <1>3
  <2>2. \A k \in i .. n : t.out[k] \in Printable
    BY <1>2, <2>1
  <2>3. /\ SubSeq(t.out, i, n) \in Seq(Printable)
        /\ Len(SubSeq(t.out, i, n)) = IF i <= n THEN n - i + 1 ELSE 0
        /\ \A k \in 1 .. n - i + 1 : SubSeq(t.out, i, n)[k] = t.out[i + k - 1]
    BY <1>3, <2>2, SubSeqProperties
  <2> QED  BY <2>1, <2>3
<1>5. Pending(t) = SubSeq(t.out, m + 1, n)
  BY <1>1 DEF Pending
<1>6. Len(Pending(t)) = n - m
  BY SMTT(30), <1>1, <1>4, <1>5
<1>7. ASSUME NEW k \in 1 .. Len(Pending(t))  PROVE Pending(t)[k] = t.out[m + k]
  <2>1. k \in 1 .. n - (m + 1) + 1 /\ m + 1 + k - 1 = m + k
    BY <1>1, <1>6
  <2> QED  BY <1>4, <1>5, <2>1
<1> QED  BY <1>1, <1>4, <1>5, <1>6, <1>7

(* What stdio may write of lines: n of them and a part of the next.        *)
LEMMA StartsType ==
  ASSUME NEW pending \in Seq(Printable), NEW lines \in Starts(pending)
  PROVE  /\ lines \in Seq(Lines)
         /\ \E n \in 0 .. Len(pending) :
              /\ Cardinality({k \in DOMAIN lines : lines[k].end}) = n
              /\ \A k \in 1 .. n : lines[k] = pending[k]
              /\ \/ Len(lines) = n
                 \/ /\ n < Len(pending) /\ Len(lines) = n + 1
                    /\ lines[n + 1] = Cut(pending[n + 1])
<1>1. PICK n \in 1 .. Len(pending) :
        \/ lines = SubSeq(pending, 1, n)
        \/ lines = Append(SubSeq(pending, 1, n - 1), Cut(pending[n]))
  BY DEF Starts
<1>2. PICK l \in Nat : l = Len(pending)
  OBVIOUS
<1>3. ASSUME NEW m \in 0 .. l
      PROVE  /\ SubSeq(pending, 1, m) \in Seq(Printable)
             /\ Len(SubSeq(pending, 1, m)) = m
             /\ \A k \in 1 .. m : SubSeq(pending, 1, m)[k] = pending[k]
  <2>1. \A k \in 1 .. m : pending[k] \in Printable
    BY <1>2
  <2>2. 1 \in Int /\ m \in Int
    BY <1>2
  <2>3. /\ SubSeq(pending, 1, m) \in Seq(Printable)
        /\ Len(SubSeq(pending, 1, m)) = IF 1 <= m THEN m - 1 + 1 ELSE 0
        /\ \A k \in 1 .. m - 1 + 1 : SubSeq(pending, 1, m)[k] = pending[1 + k - 1]
    BY <2>1, <2>2, SubSeqProperties
  <2>4. (IF 1 <= m THEN m - 1 + 1 ELSE 0) = m
    BY <1>2
  <2>5. ASSUME NEW k \in 1 .. m  PROVE SubSeq(pending, 1, m)[k] = pending[k]
    <3>1. k \in 1 .. m - 1 + 1 /\ 1 + k - 1 = k
      BY <1>2
    <3> QED  BY <2>3, <3>1
  <2> QED  BY <2>3, <2>4, <2>5
<1>4. ASSUME NEW m \in Nat  PROVE Cardinality(1 .. m) = m
  <2>1. Cardinality(1 .. m) = IF 1 > m THEN 0 ELSE m - 1 + 1
    BY FS_Interval
  <2> QED  BY <2>1
<1>5. CASE lines = SubSeq(pending, 1, n)
  <2>1. n \in 0 .. l /\ n \in 0 .. Len(pending) /\ n \in Nat
    BY <1>2
  <2>2. lines \in Seq(Printable) /\ Len(lines) = n
        /\ \A k \in 1 .. n : lines[k] = pending[k]
    BY <1>3, <1>5, <2>1
  <2>3. DOMAIN lines = 1 .. n /\ \A k \in 1 .. n : lines[k].end
    BY <2>2 DEF Printable
  <2>4. {k \in DOMAIN lines : lines[k].end} = 1 .. n
    BY <2>3
  <2>5. Cardinality({k \in DOMAIN lines : lines[k].end}) = n
    BY <1>4, <2>1, <2>4
  <2> QED  BY <2>1, <2>2, <2>5, PrintedAreLines
<1>6. CASE lines = Append(SubSeq(pending, 1, n - 1), Cut(pending[n]))
  <2> DEFINE m == n - 1
  <2>1. m \in 0 .. l /\ m \in 0 .. Len(pending) /\ m \in Nat
        /\ m < Len(pending) /\ m + 1 = n
    BY <1>2
  <2> HIDE DEF m
  <2>2. lines = Append(SubSeq(pending, 1, m), Cut(pending[n]))
    BY <1>6 DEF m
  <2>3. /\ SubSeq(pending, 1, m) \in Seq(Lines)
        /\ Len(SubSeq(pending, 1, m)) = m
        /\ \A k \in 1 .. m : SubSeq(pending, 1, m)[k] = pending[k]
    BY <1>3, <2>1, PrintedAreLines
  <2>4. Cut(pending[n]) \in Lines /\ Cut(pending[n]).end = FALSE
    <3>1. pending[n] \in Lines
      BY PrintedAreLines
    <3> QED  BY <3>1, CutIsLine
  <2>5. /\ lines \in Seq(Lines) /\ Len(lines) = m + 1
        /\ \A k \in 1 .. m : lines[k] = pending[k]
        /\ lines[m + 1] = Cut(pending[n])
    BY <2>2, <2>3, <2>4, AppendProperties
  <2>6. \A k \in 1 .. m : lines[k].end
    <3>1. \A k \in 1 .. m : k \in 1 .. Len(pending)
      BY <1>2, <2>1
    <3> QED  BY <2>5, <3>1 DEF Printable
  <2>7. DOMAIN lines = 1 .. m + 1
    BY <2>5
  <2>8. {k \in DOMAIN lines : lines[k].end} = 1 .. m
    <3>1. \A k \in 1 .. m + 1 : k \in 1 .. m \/ k = m + 1
      BY <2>1
    <3>2. \A k \in 1 .. m : k \in 1 .. m + 1
      BY <2>1
    <3>3. ~lines[m + 1].end
      BY <2>4, <2>5
    <3>4. m + 1 \notin 1 .. m
      BY <2>1
    <3> QED  BY <2>6, <2>7, <3>1, <3>2, <3>3, <3>4, Zenon
  <2>9. Cardinality({k \in DOMAIN lines : lines[k].end}) = m
    BY <1>4, <2>1, <2>8
  <2> QED  BY <2>1, <2>5, <2>9
<1> QED  BY <1>1, <1>5, <1>6

-----------------------------------------------------------------------------
(***************************************************************************)
(* A step sets the memory of one process, and may write the file that this *)
(* process has opened.                                                     *)
(***************************************************************************)

LEMMA TypesKept ==
  ASSUME TypeInv, TbtInv', NEW p \in Process, NEW u, Set(p, u), Typed(u),
         Opened(u, fs'), TypedFiles',
         \A path \in Path : fs[path] \in Seq(Lines) => fs'[path] \in Seq(Lines)
  PROVE  TypeInv'
<1>1. tbt'[p] = u /\ \A q \in Process : q # p => tbt'[q] = tbt[q]
  BY DEF Set, TypeInv, TbtInv, Memories
<1>2. ASSUME NEW q \in Process, q # p
      PROVE  Typed(tbt[q]) /\ Opened(tbt[q], fs')
  <2>1. Typed(tbt[q]) /\ Opened(tbt[q], fs)
    BY DEF TypeInv
  <2>2. tbt[q].OUTPUT # Null => tbt[q].OUTPUT \in Path
    BY <2>1 DEF Typed, IsCommand
  <2>3. tbt[q].pc \in {"count", "parse"} => tbt[q].command.argument \in Path
    BY <2>1 DEF Typed, IsCommand, Places
  <2> QED  BY <2>1, <2>2, <2>3 DEF Opened
<1>3. \A q \in Process : Typed(tbt'[q]) /\ Opened(tbt'[q], fs')
  BY <1>1, <1>2
<1> QED  BY <1>3 DEF TypeInv, Typed, Opened

LEMMA LocalTypes ==
  ASSUME TypeInv, TbtInv', NEW p \in Process, NEW u, Set(p, u), UNCHANGED fs,
         Typed(u), Opened(u, fs)
  PROVE  TypeInv'
<1>1. TypedFiles'
  BY DEF TypeInv, TypedFiles, Path
<1>2. Opened(u, fs')
  OBVIOUS
<1> QED  BY <1>1, <1>2, TypesKept

(* What a process has written to its file.                                 *)
LEMMA WriteTypes ==
  ASSUME TypeInv, TbtInv', NEW p \in Process, NEW u, Set(p, u), Typed(u),
         u.OUTPUT = tbt[p].OUTPUT, u.command = tbt[p].command,
         u.pc \in {"count", "parse"} => u.pc = tbt[p].pc,
         tbt[p].OUTPUT # Null, NEW lines \in Seq(Lines),
         fs' = [fs EXCEPT ![tbt[p].OUTPUT] = Write(@, tbt[p].flushed, lines)]
  PROVE  TypeInv'
<1> DEFINE output == tbt[p].OUTPUT
<1>1. Typed(tbt[p]) /\ Opened(tbt[p], fs) /\ DOMAIN fs = Path
  BY DEF TypeInv, TbtInv, Disks
<1>2. output \in Path /\ fs[output] \in Seq(Lines) /\ tbt[p].flushed \in Nat
  BY <1>1 DEF Typed, Opened, IsCommand
<1>3. /\ fs'[output] \in Seq(Lines)
      /\ \A path \in Path : path # output => fs'[path] = fs[path]
  BY <1>1, <1>2, WriteType
<1>4. \A path \in Path : fs[path] \in Seq(Lines) => fs'[path] \in Seq(Lines)
  BY <1>3
<1>5. TypedFiles'
  BY <1>3 DEF TypeInv, TypedFiles, Path
<1>6. u.pc \in {"count", "parse"} => u.command.argument \in Path
  BY DEF Typed, IsCommand, Places
<1>7. Opened(u, fs')
  BY <1>1, <1>3, <1>4, <1>6 DEF Opened
<1> QED  BY <1>4, <1>5, <1>7, TypesKept

LEMMA ExitTypes ==
  ASSUME TypeInv, TbtInv', NEW p \in Process, NEW code \in {0, 1}, Exit(p, code)
  PROVE  TypeInv'
<1> DEFINE t == tbt[p]
           u == [t EXCEPT !.pc = "done", !.code = code, !.flushed = Len(t.out)]
<1>1. Typed(t) /\ Opened(t, fs) /\ DOMAIN t = Field
  BY DEF TypeInv, TbtInv, Memories, IsMemory
<1>2. /\ u.command = t.command /\ u.OUTPUT = t.OUTPUT /\ u.pc = "done"
      /\ u.code = code /\ u.algorithm = t.algorithm /\ u.out = t.out
      /\ u.flushed = Len(t.out) /\ u.files = t.files /\ u.at = t.at
      /\ u.line = t.line /\ u.content = t.content
  BY <1>1 DEF Field
<1>3. Set(p, u)
  BY DEF Exit
<1>4. Len(t.out) \in 0 .. Len(t.out)
  <2>1. Len(t.out) \in Nat
    BY <1>1 DEF Typed
  <2> QED  BY <2>1
<1> HIDE DEF u
<1>5. Typed(u)
  BY <1>1, <1>2, <1>4 DEF Typed, Places
<1>6. CASE UNCHANGED fs
  <2>1. Opened(u, fs)
    BY <1>1, <1>2 DEF Opened
  <2> QED  BY <1>3, <1>5, <1>6, <2>1, LocalTypes
<1>7. CASE ~ UNCHANGED fs
  <2>1. /\ t.OUTPUT # Null
        /\ fs' = [fs EXCEPT ![t.OUTPUT] = Write(@, t.flushed, Pending(t))]
    BY <1>7 DEF Exit
  <2>2. Pending(t) \in Seq(Lines)
    BY <1>1, PendingType, PrintedAreLines DEF Typed
  <2> QED  BY <1>2, <1>3, <1>5, <2>1, <2>2, WriteTypes
<1> QED  BY <1>6, <1>7

(* A step to another place, when nothing that place needs is missing.      *)
LEMMA GotoTypes ==
  ASSUME TypeInv, TbtInv', NEW p \in Process, NEW pc, Goto(p, pc), UNCHANGED fs,
         pc \in Places(tbt[p].command.mode),
         pc \notin {"access", "count", "parse", "choose", "compare"},
         pc \in {"create", "fopen"} => tbt[p].pc = "access",
         pc = "create" => tbt[p].command.output # Null
  PROVE  TypeInv'
<1> DEFINE t == tbt[p]
           u == [t EXCEPT !.pc = pc]
<1>1. Typed(t) /\ Opened(t, fs) /\ DOMAIN t = Field
  BY DEF TypeInv, TbtInv, Memories, IsMemory
<1>2. /\ u.command = t.command /\ u.OUTPUT = t.OUTPUT /\ u.pc = pc
      /\ u.code = t.code /\ u.algorithm = t.algorithm /\ u.out = t.out
      /\ u.flushed = t.flushed /\ u.files = t.files /\ u.at = t.at
      /\ u.line = t.line /\ u.content = t.content
      /\ u.nb_files = t.nb_files
  BY <1>1 DEF Field
<1>3. Set(p, u)
  BY DEF Goto
<1> HIDE DEF u
<1>4. Typed(u) /\ Opened(u, fs)
  BY <1>1, <1>2 DEF Typed, Opened
<1> QED  BY <1>3, <1>4, LocalTypes

LEMMA FlushTypes ==
  ASSUME TypeInv, TbtInv', NEW p \in Process, Flush(p)
  PROVE  TypeInv'
<1> DEFINE t == tbt[p]
           written(lines) == Cardinality({k \in DOMAIN lines : lines[k].end})
           u(lines) == [t EXCEPT !.flushed = @ + written(lines)]
<1>1. Typed(t) /\ Opened(t, fs) /\ DOMAIN t = Field /\ t.OUTPUT # Null
  BY DEF TypeInv, TbtInv, Memories, IsMemory, Flush
<1>2. PICK lines \in Starts(Pending(t)) :
        /\ fs' = [fs EXCEPT ![t.OUTPUT] = Write(@, t.flushed, lines)]
        /\ Set(p, u(lines))
  BY DEF Flush
<1>3. Pending(t) \in Seq(Printable) /\ Len(Pending(t)) = Len(t.out) - t.flushed
  BY <1>1, PendingType DEF Typed
<1>4. lines \in Seq(Lines)
  BY <1>3, StartsType
<1>5. PICK n \in 0 .. Len(Pending(t)) : written(lines) = n
  BY <1>3, StartsType
<1> DEFINE v == u(lines)
<1>6. /\ v.command = t.command /\ v.OUTPUT = t.OUTPUT /\ v.pc = t.pc
      /\ v.code = t.code /\ v.algorithm = t.algorithm /\ v.out = t.out
      /\ v.flushed = t.flushed + n /\ v.files = t.files /\ v.at = t.at
      /\ v.line = t.line /\ v.content = t.content /\ v.work = t.work
      /\ v.nb_files = t.nb_files
  BY <1>1, <1>5 DEF Field
<1> HIDE DEF v, written
<1>7. t.flushed + n \in 0 .. Len(t.out)
  <2>1. PICK m \in Nat, l \in Nat : m = t.flushed /\ l = Len(t.out) /\ m <= l
    BY <1>1 DEF Typed
  <2>2. n \in 0 .. l - m
    BY <1>3, <2>1
  <2> QED  BY <2>1, <2>2
<1>8. Typed(v)
  BY <1>1, <1>6, <1>7 DEF Typed
<1>9. Set(p, v)
  BY <1>2 DEF v
<1> HIDE DEF u
<1> QED  BY <1>1, <1>2, <1>4, <1>6, <1>8, <1>9, WriteTypes

-----------------------------------------------------------------------------
(***************************************************************************)
(* Reading a line.                                                         *)
(***************************************************************************)

LEMMA MinIsLeast ==
  ASSUME NEW S, S \subseteq Nat, S # {}
  PROVE  Min(S) \in S /\ \A x \in S : Min(S) <= x
<1> DEFINE Least(x) == x \in S /\ \A y \in S : x <= y
<1>1. \E x : Least(x)
  BY LeastNatural
<1>2. Min(S) = CHOOSE x : Least(x)
  BY DEF Min
<1> HIDE DEF Least
<1>3. Least(Min(S))
  BY <1>1, <1>2, Zenon
<1> QED  BY <1>3 DEF Least

LEMMA EndsType ==
  ASSUME NEW f \in Seq(Lines), NEW at \in Nat, Ends(f, at) # {}
  PROVE  /\ Min(Ends(f, at)) \in at + 1 .. Len(f)
         /\ f[Min(Ends(f, at))].end
         /\ \A q \in at + 1 .. Len(f) : f[q].end => Min(Ends(f, at)) <= q
<1>1. Ends(f, at) \subseteq Nat
  BY DEF Ends
<1>2. Min(Ends(f, at)) \in Ends(f, at) /\ \A q \in Ends(f, at) : Min(Ends(f, at)) <= q
  BY <1>1, MinIsLeast
<1> QED  BY <1>2 DEF Ends

LEMMA GarbledIsBuffer ==
  ASSUME NEW line \in Lines
  PROVE  IsBuffer([line EXCEPT !.text = Unset])
<1> DEFINE texts == UNION {Texts(kind) : kind \in Kinds}
<1>1. line \in [kind : Kinds, text : texts, end : BOOLEAN]
  BY DEF Lines
<1> HIDE DEF texts
<1>2. /\ [line EXCEPT !.text = Unset].kind = line.kind
      /\ [line EXCEPT !.text = Unset].text = Unset
      /\ line.kind \in Kinds
      /\ DOMAIN [line EXCEPT !.text = Unset] = {"kind", "text", "end"}
  BY <1>1
<1> QED  BY <1>2 DEF IsBuffer

LEMMA CutIsBuffer ==
  ASSUME NEW line, IsBuffer(line)
  PROVE  IsBuffer(Cut(line))
BY DEF IsBuffer, Cut

LEMMA FgetsType ==
  ASSUME NEW f \in Seq(Lines), NEW at \in Nat, at < Len(f)
  PROVE  IsBuffer(Fgets(f, at))
<1>1. at + 1 \in 1 .. Len(f)
  <2>1. Len(f) \in Nat
    OBVIOUS
  <2> QED  BY <2>1
<1>2. f[at + 1] \in Lines
  BY <1>1
<1>3. \/ \E q : q = at + 1 /\ Fgets(f, at) = f[q]
      \/ Fgets(f, at) = [f[at + 1] EXCEPT !.text = Unset]
  BY DEF Fgets
<1> QED  BY <1>2, <1>3, LineBuffered, GarbledIsBuffer

(* What Read changes in a memory.                                          *)
LEMMA ReadFields ==
  ASSUME NEW t, DOMAIN t = Field, NEW f
  PROVE  LET u == Read(t, f) IN
         /\ DOMAIN u = Field
         /\ u.at = Min(Ends(f, t.at)) /\ u.line = Fgets(f, t.at)
         /\ u.command = t.command /\ u.OUTPUT = t.OUTPUT /\ u.pc = t.pc
         /\ u.code = t.code /\ u.algorithm = t.algorithm /\ u.out = t.out
         /\ u.flushed = t.flushed /\ u.files = t.files
         /\ u.nb_files = t.nb_files /\ u.file_count = t.file_count
         /\ u.content = t.content /\ u.present = t.present
         /\ u.work = t.work /\ u.settled = t.settled
BY DEF Read, Field

LEMMA ReadType ==
  ASSUME NEW f \in Seq(Lines), NEW t, t.at \in Nat, DOMAIN t = Field,
         Ends(f, t.at) # {}
  PROVE  LET u == Read(t, f) IN
         /\ u.at \in Nat /\ t.at + 1 <= u.at
         /\ IsBuffer(u.line)
<1>1. Min(Ends(f, t.at)) \in t.at + 1 .. Len(f) /\ Len(f) \in Nat
  BY EndsType
<1>2. IsBuffer(Fgets(f, t.at))
  BY <1>1, FgetsType
<1>3. Read(t, f).at = Min(Ends(f, t.at)) /\ Read(t, f).line = Fgets(f, t.at)
  BY ReadFields
<1> QED  BY <1>1, <1>2, <1>3

-----------------------------------------------------------------------------
(***************************************************************************)
(* The steps, one by one.                                                  *)
(***************************************************************************)

LEMMA AccessTypes ==
  ASSUME TypeInv, TbtInv', NEW p \in Process, Access(p)
  PROVE  TypeInv'
<1> DEFINE mode == tbt[p].command.mode
<1>1. IsCommand(tbt[p].command) /\ tbt[p].pc = "access"
  BY DEF TypeInv, Typed, Access
<1>2. /\ Mode(p) \in Places(mode) /\ "create" \in Places(mode)
      /\ Mode(p) \notin {"access", "count", "parse", "choose", "compare"}
  BY <1>1 DEF Mode, Places, IsCommand
<1>3. CASE Goto(p, Mode(p)) /\ UNCHANGED fs
  <2>1. Mode(p) # "create"
    BY DEF Mode
  <2> QED  BY <1>1, <1>2, <1>3, <2>1, GotoTypes
<1>4. CASE /\ Goto(p, "create") /\ UNCHANGED fs
           /\ tbt[p].command.output # Null
  BY <1>1, <1>2, <1>4, GotoTypes
<1>5. CASE Exit(p, 1)
  BY <1>5, ExitTypes
<1> QED  BY <1>3, <1>4, <1>5 DEF Access

LEMMA CreateTypes ==
  ASSUME TypeInv, TbtInv', NEW p \in Process, Create(p)
  PROVE  TypeInv'
<1> DEFINE t == tbt[p]
           output == t.command.output
           u == [t EXCEPT !.pc = Mode(p), !.OUTPUT = output]
<1>1. /\ Typed(t) /\ Opened(t, fs) /\ DOMAIN t = Field /\ DOMAIN fs = Path
      /\ t.pc = "create"
  BY DEF TypeInv, TbtInv, Memories, IsMemory, Disks, Create
<1>2. output \in Path
  BY <1>1 DEF Create, Typed, IsCommand
<1>3. CASE fs' = [fs EXCEPT ![output] = <<>>] /\ Set(p, u)
  <2>1. /\ u.command = t.command /\ u.OUTPUT = output /\ u.pc = Mode(p)
        /\ u.code = t.code /\ u.algorithm = t.algorithm /\ u.out = t.out
        /\ u.flushed = t.flushed /\ u.files = t.files /\ u.at = t.at
        /\ u.line = t.line /\ u.content = t.content
        /\ u.nb_files = t.nb_files
    BY <1>1 DEF Field
  <2>2. /\ Mode(p) \in Places(t.command.mode)
        /\ Mode(p) \notin {"access", "create", "count", "parse", "choose", "compare"}
    BY <1>1 DEF Mode, Places, IsCommand, Typed
  <2>3. <<>> \in Seq(Lines)
    OBVIOUS
  <2>4. fs'[output] = <<>> /\ \A path \in Path : path # output => fs'[path] = fs[path]
    BY <1>1, <1>2, <1>3
  <2>5. TypedFiles'
    BY <2>3, <2>4 DEF TypeInv, TypedFiles, Path
  <2>6. \A path \in Path : fs[path] \in Seq(Lines) => fs'[path] \in Seq(Lines)
    BY <2>3, <2>4
  <2> HIDE DEF u
  <2>7. Typed(u)
    BY <1>1, <2>1, <2>2 DEF Typed
  <2>8. Opened(u, fs')
    BY <2>1, <2>2, <2>3, <2>4 DEF Opened
  <2> QED  BY <1>3, <2>5, <2>6, <2>7, <2>8, TypesKept
<1>4. CASE Exit(p, 1)
  BY <1>4, ExitTypes
<1> QED  BY <1>3, <1>4 DEF Create

LEMMA StatTypes ==
  ASSUME TypeInv, TbtInv', NEW p \in Process, Stat(p)
  PROVE  TypeInv'
<1> DEFINE t == tbt[p]
           argument == t.command.argument
           read(names) == [t EXCEPT !.pc = "readdir", !.files = names]
           fail == [t EXCEPT !.pc = "close", !.code = 1]
<1>1. Typed(t) /\ Opened(t, fs) /\ DOMAIN t = Field
  BY DEF TypeInv, TbtInv, Memories, IsMemory
<1>2. t.command.mode = "hash"
  BY <1>1 DEF Stat, Typed, IsCommand, Places
<1>3. ASSUME NEW names, names \subseteq DOMAIN Sample, Set(p, read(names)),
             UNCHANGED fs
      PROVE  TypeInv'
  <2> DEFINE u == read(names)
  <2>1. /\ u.command = t.command /\ u.OUTPUT = t.OUTPUT /\ u.pc = "readdir"
        /\ u.code = t.code /\ u.algorithm = t.algorithm /\ u.out = t.out
        /\ u.flushed = t.flushed /\ u.files = names /\ u.at = t.at
        /\ u.line = t.line /\ u.content = t.content
    BY <1>1 DEF Field
  <2>2. Set(p, u)
    BY <1>3
  <2> HIDE DEF u
  <2>3. Typed(u) /\ Opened(u, fs)
    BY <1>1, <1>2, <1>3, <2>1 DEF Typed, Opened, Places
  <2> QED  BY <1>3, <2>2, <2>3, LocalTypes
<1>4. CASE Set(p, fail) /\ UNCHANGED fs
  <2>1. /\ fail.command = t.command /\ fail.OUTPUT = t.OUTPUT
        /\ fail.pc = "close" /\ fail.code = 1 /\ fail.algorithm = t.algorithm
        /\ fail.out = t.out /\ fail.flushed = t.flushed
        /\ fail.files = t.files /\ fail.at = t.at /\ fail.line = t.line
        /\ fail.content = t.content
    BY <1>1 DEF Field
  <2> HIDE DEF fail
  <2>2. Typed(fail) /\ Opened(fail, fs)
    BY <1>1, <2>1 DEF Typed, Opened, Places
  <2> QED  BY <1>4, <2>2, LocalTypes
<1>5. CASE Exit(p, 1)
  BY <1>5, ExitTypes
<1>6. \/ /\ Set(p, read(Directory[argument])) /\ UNCHANGED fs
         /\ argument \in DOMAIN Directory
      \/ Set(p, fail) /\ UNCHANGED fs
      \/ /\ Set(p, read({argument})) /\ UNCHANGED fs
         /\ argument \in DOMAIN Sample
      \/ Exit(p, 1)
  BY DEF Stat
<1>7. argument \in DOMAIN Directory => Directory[argument] \subseteq DOMAIN Sample
  BY InputAssumption
<1> HIDE DEF read, fail, argument
<1> QED  BY <1>3, <1>4, <1>5, <1>6, <1>7

(* The lines of an executable, of the algorithms asked for.                *)
LEMMA PrintedType ==
  ASSUME NEW algorithm \in DOMAIN Section, NEW name \in Names
  PROVE  Printed(algorithm, name) \in Seq(Printable)
<1>1. /\ name \in Texts("name") /\ Sample[name].ctph \in Texts("ctph")
      /\ Sample[name].simhash \in Texts("simhash")
  BY TextsOfKinds, TbtAssumption DEF Names
<1>2. {"name", "ctph", "simhash"} \subseteq Kinds
  BY DEF Kinds
<1>3. /\ Line("name", name) \in Printable
      /\ Line("ctph", Sample[name].ctph) \in Printable
      /\ Line("simhash", Sample[name].simhash) \in Printable
  BY <1>1, <1>2, LineIsPrintable
<1>4. algorithm \in {"ALL", "CTPH", "SIMHASH"}
  BY DEF Section
<1> QED  BY <1>3, <1>4 DEF Printed

LEMMA TreatTypes ==
  ASSUME TypeInv, TbtInv', NEW p \in Process, treat_dir(p)
  PROVE  TypeInv'
<1> DEFINE t == tbt[p]
<1>1. /\ Typed(t) /\ Opened(t, fs) /\ DOMAIN t = Field
      /\ t.pc = "readdir" /\ UNCHANGED fs
  BY DEF TypeInv, TbtInv, Memories, IsMemory, treat_dir
<1>2. CASE Goto(p, "close")
  <2>1. "close" \in Places(t.command.mode)
    BY DEF Places
  <2> QED  BY <1>1, <1>2, <2>1, GotoTypes
<1>3. ASSUME NEW name \in t.files, treat_file(p, name)  PROVE TypeInv'
  <2> DEFINE new == IF Sample[name].elf THEN t.out \o Printed(t.algorithm, name)
                    ELSE t.out
             u == [t EXCEPT !.files = @ \ {name},
                            !.out = IF Sample[name].elf
                                      THEN @ \o Printed(t.algorithm, name)
                                      ELSE @]
  <2>1. t.out \in Seq(Printable) /\ t.flushed \in 0 .. Len(t.out)
    BY <1>1 DEF Typed
  <2>2. new \in Seq(Printable) /\ t.flushed \in 0 .. Len(new)
    <3>1. CASE Sample[name].elf
      <4>1. Printed(t.algorithm, name) \in Seq(Printable)
        BY <1>1, <3>1, PrintedType DEF Typed, Names
      <4>2. /\ t.out \o Printed(t.algorithm, name) \in Seq(Printable)
            /\ Len(t.out \o Printed(t.algorithm, name))
                 = Len(t.out) + Len(Printed(t.algorithm, name))
        BY <2>1, <4>1, ConcatProperties
      <4>3. Len(t.out) \in Nat /\ Len(Printed(t.algorithm, name)) \in Nat
        BY <2>1, <4>1, LenProperties
      <4>4. t.flushed \in 0 .. Len(t.out) + Len(Printed(t.algorithm, name))
        <5>1. PICK m \in Nat, n \in Nat :
                m = Len(t.out) /\ n = Len(Printed(t.algorithm, name))
          BY <4>3
        <5>2. t.flushed \in 0 .. m
          BY <2>1, <5>1
        <5>3. t.flushed \in 0 .. m + n
          BY <5>2
        <5> QED  BY <5>1, <5>3
      <4> QED  BY <3>1, <4>2, <4>4
    <3>2. CASE ~Sample[name].elf
      BY <2>1, <3>2
    <3> QED  BY <3>1, <3>2
  <2>3. /\ u.command = t.command /\ u.OUTPUT = t.OUTPUT /\ u.pc = t.pc
        /\ u.code = t.code /\ u.algorithm = t.algorithm /\ u.out = new
        /\ u.flushed = t.flushed /\ u.files = t.files \ {name} /\ u.at = t.at
        /\ u.line = t.line /\ u.content = t.content
    BY <1>1 DEF Field
  <2>4. Set(p, u)
    BY <1>3 DEF treat_file
  <2> HIDE DEF u, new
  <2>5. Typed(u) /\ Opened(u, fs)
    BY <1>1, <2>2, <2>3 DEF Typed, Opened
  <2> QED  BY <1>1, <2>4, <2>5, LocalTypes
<1> QED  BY <1>2, <1>3 DEF treat_dir

LEMMA FopenTypes ==
  ASSUME TypeInv, TbtInv', NEW p \in Process, Fopen(p)
  PROVE  TypeInv'
<1> DEFINE t == tbt[p]
           u == [t EXCEPT !.pc = "count",
                          !.settled = Settled(t.command.argument)]
<1>1. /\ Typed(t) /\ Opened(t, fs) /\ DOMAIN t = Field /\ t.pc = "fopen"
  BY DEF TypeInv, TbtInv, Memories, IsMemory, Fopen
<1>2. t.command.mode = "compare"
  BY <1>1 DEF Typed, IsCommand, Places
<1>3. CASE Exit(p, 1)
  BY <1>3, ExitTypes
<1>4. CASE In(p) # Null /\ Set(p, u) /\ UNCHANGED fs
  <2>1. t.command.argument \in Path
    BY <1>1, <1>2 DEF Typed, IsCommand
  <2>2. fs[t.command.argument] \in Seq(Lines)
    BY <1>4, <2>1 DEF TypeInv, TypedFiles, In
  <2>3. /\ u.command = t.command /\ u.OUTPUT = t.OUTPUT /\ u.pc = "count"
        /\ u.code = t.code /\ u.algorithm = t.algorithm /\ u.out = t.out
        /\ u.flushed = t.flushed /\ u.files = t.files /\ u.at = t.at
        /\ u.line = t.line /\ u.content = t.content /\ u.nb_files = t.nb_files
    BY <1>1 DEF Field
  <2>4. t.nb_files <= t.at
    BY <1>1 DEF Typed
  <2> HIDE DEF u
  <2>5. Typed(u) /\ Opened(u, fs)
    BY <1>1, <1>2, <2>2, <2>3, <2>4 DEF Typed, Opened, Places
  <2> QED  BY <1>4, <2>5, LocalTypes
<1> QED  BY <1>3, <1>4 DEF Fopen

LEMMA CountLineTypes ==
  ASSUME TypeInv, TbtInv', NEW p \in Process, CountLine(p)
  PROVE  TypeInv'
<1> DEFINE t == tbt[p]
           v == Read(t, In(p))
           u == [v EXCEPT !.nb_files = IF IsHash(v.line) THEN @ ELSE @ + 1]
<1>1. /\ Typed(t) /\ Opened(t, fs) /\ IsMemory(t) /\ t.pc = "count"
      /\ Ends(In(p), t.at) # {}
  BY DEF TypeInv, TbtInv, Memories, CountLine
<1>2. In(p) \in Seq(Lines) /\ t.at \in Nat /\ DOMAIN t = Field
  BY <1>1 DEF Opened, In, Typed, IsMemory
<1>3. v.at \in Nat /\ t.at + 1 <= v.at /\ IsBuffer(v.line)
  BY <1>1, <1>2, ReadType
<1>4. /\ DOMAIN v = Field /\ v.command = t.command /\ v.OUTPUT = t.OUTPUT
      /\ v.pc = t.pc /\ v.code = t.code /\ v.algorithm = t.algorithm
      /\ v.out = t.out /\ v.flushed = t.flushed /\ v.files = t.files
      /\ v.nb_files = t.nb_files /\ v.content = t.content
  BY <1>2, ReadFields
<1>5. Set(p, u) /\ UNCHANGED fs
  BY DEF CountLine
<1> HIDE DEF v
<1>6. /\ u.command = t.command /\ u.OUTPUT = t.OUTPUT /\ u.pc = t.pc
      /\ u.code = t.code /\ u.algorithm = t.algorithm /\ u.out = t.out
      /\ u.flushed = t.flushed /\ u.files = t.files /\ u.at = v.at
      /\ u.line = v.line /\ u.content = t.content
      /\ u.nb_files \in {t.nb_files, t.nb_files + 1}
  BY <1>4 DEF Field
<1>7. u.nb_files <= u.at
  <2>1. t.nb_files \in Nat /\ t.nb_files <= t.at
    BY <1>1 DEF Typed, IsMemory
  <2> HIDE DEF u
  <2> QED  BY <1>2, <1>3, <1>6, <2>1
<1> HIDE DEF u
<1>8. Typed(u) /\ Opened(u, fs)
  BY <1>1, <1>3, <1>6, <1>7 DEF Typed, Opened
<1> QED  BY <1>5, <1>8, LocalTypes

LEMMA NoEntryType ==
  NoEntry \in Entries
BY TextsOfKinds DEF NoEntry, Entries, HashTexts

LEMMA CountEndTypes ==
  ASSUME TypeInv, TbtInv', NEW p \in Process, CountEnd(p)
  PROVE  TypeInv'
<1> DEFINE t == tbt[p]
           content == [k \in 1 .. t.nb_files + 1 |-> NoEntry]
           u(line) == [t EXCEPT !.pc = "parse", !.at = 0, !.line = line,
                                !.content = content]
<1>1. /\ Typed(t) /\ Opened(t, fs) /\ IsMemory(t) /\ t.pc = "count"
      /\ UNCHANGED fs
  BY DEF TypeInv, TbtInv, Memories, CountEnd
<1>2. PICK line : /\ Set(p, u(line))
                  /\ \/ Len(In(p)) > t.at /\ line = Cut(Fgets(In(p), t.at))
                     \/ line = t.line
                     \/ line = Hole
                     \/ line = Cut(Line("name", Unset))
  BY DEF CountEnd
<1>3. IsBuffer(line)
  <2>1. CASE Len(In(p)) > t.at /\ line = Cut(Fgets(In(p), t.at))
    <3>1. In(p) \in Seq(Lines) /\ t.at \in Nat
      BY <1>1 DEF Opened, In, Typed
    <3>2. t.at < Len(In(p))
      <4>1. Len(In(p)) \in Nat
        BY <3>1
      <4> QED  BY <2>1, <3>1, <4>1
    <3> QED  BY <2>1, <3>1, <3>2, FgetsType, CutIsBuffer
  <2>2. CASE line = t.line
    BY <1>1, <2>2 DEF Typed
  <2>3. CASE line = Hole
    BY <2>3, HoleIsLine, LineBuffered
  <2>4. CASE line = Cut(Line("name", Unset))
    <3>1. Unset \in Texts("name") /\ "name" \in Kinds
      BY TextsOfKinds DEF Kinds
    <3>2. Line("name", Unset) \in Lines
      BY <3>1, LineIsPrintable, PrintedAreLines
    <3> QED  BY <2>4, <3>2, LineBuffered, CutIsBuffer
  <2> QED  BY <1>2, <2>1, <2>2, <2>3, <2>4
<1>4. content \in Seq(Entries) /\ Len(content) = t.nb_files + 1
  <2>1. t.nb_files + 1 \in Nat
    BY <1>1 DEF IsMemory
  <2> QED  BY <2>1, NoEntryType
<1> DEFINE v == u(line)
<1>5. /\ v.command = t.command /\ v.OUTPUT = t.OUTPUT /\ v.pc = "parse"
      /\ v.code = t.code /\ v.algorithm = t.algorithm /\ v.out = t.out
      /\ v.flushed = t.flushed /\ v.files = t.files /\ v.at = 0
      /\ v.line = line /\ v.content = content /\ v.nb_files = t.nb_files
  BY <1>1 DEF Field, IsMemory
<1>6. Set(p, v)
  BY <1>2
<1> HIDE DEF v, u, content
<1>7. t.command.mode = "compare"
  BY <1>1 DEF Typed, IsCommand, Places
<1>8. Typed(v) /\ Opened(v, fs)
  BY <1>1, <1>3, <1>4, <1>5, <1>7 DEF Typed, Opened, Places
<1> QED  BY <1>1, <1>6, <1>8, LocalTypes

LEMMA ReadNextTypes ==
  ASSUME TypeInv, TbtInv', NEW p \in Process, tbt[p].pc = "parse",
         NEW t, DOMAIN t = Field, Typed(t), t.pc = "parse",
         t.command = tbt[p].command, t.OUTPUT = tbt[p].OUTPUT, ReadNext(p, t)
  PROVE  TypeInv'
<1>1. /\ Typed(tbt[p]) /\ Opened(tbt[p], fs) /\ UNCHANGED fs
      /\ t.command.mode = "compare"
  BY DEF TypeInv, ReadNext, Typed, IsCommand, Places
<1>2. In(p) \in Seq(Lines) /\ t.at \in Nat
  BY <1>1 DEF Opened, In, Typed
<1>3. CASE Ends(In(p), t.at) = {}
  <2> DEFINE u == [t EXCEPT !.pc = "choose"]
  <2>1. /\ u.command = t.command /\ u.OUTPUT = t.OUTPUT /\ u.pc = "choose"
        /\ u.code = t.code /\ u.algorithm = t.algorithm /\ u.out = t.out
        /\ u.flushed = t.flushed /\ u.files = t.files /\ u.at = t.at
        /\ u.line = t.line /\ u.content = t.content /\ u.nb_files = t.nb_files
    BY DEF Field
  <2>2. Set(p, u)
    BY <1>3 DEF ReadNext
  <2> HIDE DEF u
  <2>3. Typed(u) /\ Opened(u, fs)
    BY <1>1, <2>1 DEF Typed, Opened, Places
  <2> QED  BY <1>1, <2>2, <2>3, LocalTypes
<1>4. CASE Ends(In(p), t.at) # {}
  <2> DEFINE u == Read(t, In(p))
  <2>1. /\ u.command = t.command /\ u.OUTPUT = t.OUTPUT /\ u.pc = t.pc
        /\ u.code = t.code /\ u.algorithm = t.algorithm /\ u.out = t.out
        /\ u.flushed = t.flushed /\ u.files = t.files
        /\ u.content = t.content /\ u.nb_files = t.nb_files
    BY ReadFields
  <2>2. u.at \in Nat /\ IsBuffer(u.line)
    BY <1>2, <1>4, ReadType
  <2>3. Set(p, u)
    BY <1>4 DEF ReadNext
  <2> HIDE DEF u
  <2>4. Typed(u) /\ Opened(u, fs)
    BY <1>1, <2>1, <2>2 DEF Typed, Opened
  <2> QED  BY <1>1, <2>3, <2>4, LocalTypes
<1> QED  BY <1>3, <1>4

(* An entry that is given a name or a hash, in the array.                  *)
Store(content, k, field, text) ==
  [content EXCEPT ![k] = [content[k] EXCEPT ![field] = text]]

LEMMA EntryStored ==
  ASSUME NEW content \in Seq(Entries), NEW k \in 1 .. Len(content),
         NEW entry \in Entries
  PROVE  /\ [content EXCEPT ![k] = entry] \in Seq(Entries)
         /\ Len([content EXCEPT ![k] = entry]) = Len(content)
         /\ [content EXCEPT ![k] = entry][k] = entry
         /\ \A l \in 1 .. Len(content) :
              l # k => [content EXCEPT ![k] = entry][l] = content[l]
BY ExceptSeq

LEMMA NameStored ==
  ASSUME NEW content \in Seq(Entries), NEW k \in 1 .. Len(content),
         NEW name \in Names \cup {Unset}, NEW kinds,
         NEW new, new = Enter(content, k, name, kinds)
  PROVE  /\ new \in Seq(Entries) /\ Len(new) = Len(content)
         /\ new[k].name = name
         /\ new[k].ctph = IF "ctph" \in kinds THEN Scrap ELSE content[k].ctph
         /\ new[k].simhash =
              IF "simhash" \in kinds THEN Scrap ELSE content[k].simhash
         /\ \A l \in 1 .. Len(content) : l # k => new[l] = content[l]
<1> DEFINE entry == Entered(content[k], name, kinds)
<1>1. content[k] \in Entries
  OBVIOUS
<1>2. entry \in Entries
  BY <1>1 DEF Entries, Entered, HashTexts
<1>3. /\ entry.name = name
      /\ entry.ctph = IF "ctph" \in kinds THEN Scrap ELSE content[k].ctph
      /\ entry.simhash = IF "simhash" \in kinds THEN Scrap ELSE content[k].simhash
  BY DEF Entered
<1> HIDE DEF entry
<1>4. new = [content EXCEPT ![k] = entry]
  BY DEF Enter, entry
<1>5. /\ new \in Seq(Entries) /\ Len(new) = Len(content) /\ new[k] = entry
      /\ \A l \in 1 .. Len(content) : l # k => new[l] = content[l]
  BY <1>2, <1>4, EntryStored
<1> QED  BY <1>3, <1>5

LEMMA HashStored ==
  ASSUME NEW content \in Seq(Entries), NEW k \in 1 .. Len(content),
         NEW kind \in HashKinds, NEW text \in Texts(kind),
         NEW new, new = Store(content, k, kind, text)
  PROVE  /\ new \in Seq(Entries) /\ Len(new) = Len(content)
         /\ new[k].name = content[k].name /\ new[k][kind] = text
         /\ \A other \in HashKinds : other # kind =>
              new[k][other] = content[k][other]
         /\ \A l \in 1 .. Len(content) : l # k => new[l] = content[l]
<1> DEFINE entry == [content[k] EXCEPT ![kind] = text]
           names == Names \cup {Unset}
           ctphs == HashTexts("ctph")
           simhashes == HashTexts("simhash")
<1>1. content[k] \in Entries
  OBVIOUS
<1>2. entry \in Entries
  <2>1. \/ kind = "ctph" /\ text \in ctphs
        \/ kind = "simhash" /\ text \in simhashes
    BY DEF HashKinds, HashTexts
  <2>2. content[k] \in [name : names, ctph : ctphs, simhash : simhashes]
    BY <1>1 DEF Entries
  <2> HIDE DEF names, ctphs, simhashes
  <2>3. entry \in [name : names, ctph : ctphs, simhash : simhashes]
    BY <2>1, <2>2
  <2> QED  BY <2>3 DEF Entries, names, ctphs, simhashes
<1> HIDE DEF entry
<1>3. new = [content EXCEPT ![k] = entry]
  BY DEF Store, entry
<1>4. /\ new \in Seq(Entries) /\ Len(new) = Len(content) /\ new[k] = entry
      /\ \A l \in 1 .. Len(content) : l # k => new[l] = content[l]
  BY <1>2, <1>3, EntryStored
<1>5. /\ entry.name = content[k].name /\ entry[kind] = text
      /\ \A other \in HashKinds : other # kind => entry[other] = content[k][other]
  BY <1>1 DEF entry, Entries, HashKinds
<1> QED  BY <1>4, <1>5

LEMMA NamedFields ==
  ASSUME NEW t, DOMAIN t = Field, NEW name, NEW kinds
  PROVE  LET u == Named(t, name, kinds)
             k == t.file_count + 1
         IN
         /\ DOMAIN u = Field
         /\ u.content = Enter(t.content, k, name, kinds)
         /\ u.file_count = t.file_count + 1
         /\ u.command = t.command /\ u.OUTPUT = t.OUTPUT /\ u.pc = t.pc
         /\ u.code = t.code /\ u.algorithm = t.algorithm /\ u.out = t.out
         /\ u.flushed = t.flushed /\ u.files = t.files /\ u.at = t.at
         /\ u.line = t.line /\ u.nb_files = t.nb_files
         /\ u.work = t.work /\ u.settled = t.settled
BY DEF Named, Enter, Field

LEMMA ParseNameTypes ==
  ASSUME TypeInv, TbtInv', NEW p \in Process, ParseName(p)
  PROVE  TypeInv'
<1> DEFINE t == tbt[p]
           k == t.file_count + 1
<1>1. PICK name \in {t.line.text, Unset}, kinds \in SUBSET HashKinds :
        ReadNext(p, Named(t, name, kinds))
  BY ParseNameStores DEF HashKinds
<1>2. /\ Typed(t) /\ IsMemory(t) /\ t.pc = "parse" /\ t.line.kind = "name"
      /\ t.file_count <= t.nb_files
  BY DEF TypeInv, TbtInv, Memories, ParseName, Parsing
<1>3. name \in Names \cup {Unset}
  <2>1. t.line.text \in Texts("name") \cup {Unset}
    BY <1>2 DEF Typed, IsBuffer
  <2> QED  BY <1>1, <2>1, TextsOfKinds
<1>4. k \in 1 .. Len(t.content) /\ t.content \in Seq(Entries)
  BY <1>2 DEF Typed, IsMemory
<1> DEFINE u == Named(t, name, kinds)
<1>5. /\ DOMAIN u = Field
      /\ u.content = Enter(t.content, k, name, kinds)
      /\ u.command = t.command /\ u.OUTPUT = t.OUTPUT /\ u.pc = t.pc
      /\ u.code = t.code /\ u.algorithm = t.algorithm /\ u.out = t.out
      /\ u.flushed = t.flushed /\ u.files = t.files /\ u.at = t.at
      /\ u.line = t.line /\ u.nb_files = t.nb_files
  BY <1>2, NamedFields DEF IsMemory
<1> HIDE DEF u, k
<1> DEFINE content == t.content
           new == u.content
<1>6. new \in Seq(Entries) /\ Len(new) = Len(content)
  <2>1. content \in Seq(Entries) /\ k \in 1 .. Len(content)
        /\ new = Enter(content, k, name, kinds)
    BY <1>4, <1>5
  <2> HIDE DEF content, new
  <2> QED  BY <1>3, <2>1, NameStored
<1>7. Typed(u)
  BY <1>2, <1>5, <1>6 DEF Typed
<1>8. ReadNext(p, u)
  BY <1>1 DEF u
<1> QED  BY <1>2, <1>5, <1>7, <1>8, ReadNextTypes

(* What ParseHash stores, when an entry has begun.                         *)
Hashed(t) ==
  [t EXCEPT !.content[t.file_count][t.line.kind] = t.line.text,
            !.present = @ \cup {t.line.kind}]

LEMMA HashedFields ==
  ASSUME NEW t, DOMAIN t = Field
  PROVE  LET u == Hashed(t)
             k == t.file_count
         IN
         /\ DOMAIN u = Field
         /\ u.content = Store(t.content, k, t.line.kind, t.line.text)
         /\ u.file_count = t.file_count
         /\ u.command = t.command /\ u.OUTPUT = t.OUTPUT /\ u.pc = t.pc
         /\ u.code = t.code /\ u.algorithm = t.algorithm /\ u.out = t.out
         /\ u.flushed = t.flushed /\ u.files = t.files /\ u.at = t.at
         /\ u.line = t.line /\ u.nb_files = t.nb_files
         /\ u.work = t.work /\ u.settled = t.settled
BY DEF Hashed, Field, Store

LEMMA ParseHashTypes ==
  ASSUME TypeInv, TbtInv', NEW p \in Process, ParseHash(p)
  PROVE  TypeInv'
<1> DEFINE t == tbt[p]
           k == t.file_count
           kind == t.line.kind
<1>1. ReadNext(p, IF t.file_count = 0 THEN t ELSE Hashed(t))
  BY DEF ParseHash, Hashed
<1>2. /\ Typed(t) /\ IsMemory(t) /\ t.pc = "parse"
      /\ kind \in {"ctph", "simhash"} /\ t.file_count <= t.nb_files
  BY DEF TypeInv, TbtInv, Memories, ParseHash, Parsing, IsHash
<1>3. CASE t.file_count = 0
  BY <1>1, <1>2, <1>3, ReadNextTypes DEF IsMemory
<1>4. CASE t.file_count # 0
  <2>1. t.line.text \in Texts(kind)
    <3>1. t.line.text \in Texts(kind) \cup {Unset}
      BY <1>2 DEF Typed, IsBuffer
    <3>2. Unset \in Texts(kind)
      BY <1>2, TextsOfKinds
    <3> QED  BY <3>1, <3>2
  <2>2. k \in 1 .. Len(t.content) /\ t.content \in Seq(Entries)
    BY <1>2, <1>4 DEF Typed, IsMemory
  <2> DEFINE u == Hashed(t)
  <2>3. /\ DOMAIN u = Field
        /\ u.content = Store(t.content, k, kind, t.line.text)
        /\ u.command = t.command /\ u.OUTPUT = t.OUTPUT /\ u.pc = t.pc
        /\ u.code = t.code /\ u.algorithm = t.algorithm /\ u.out = t.out
        /\ u.flushed = t.flushed /\ u.files = t.files /\ u.at = t.at
        /\ u.line = t.line /\ u.nb_files = t.nb_files
    BY <1>2, HashedFields DEF IsMemory
  <2> HIDE DEF u, k, kind
  <2> DEFINE content == t.content
             new == u.content
             text == t.line.text
  <2>5. new \in Seq(Entries) /\ Len(new) = Len(content)
    <3>1. content \in Seq(Entries) /\ k \in 1 .. Len(content)
          /\ kind \in HashKinds /\ text \in Texts(kind)
          /\ new = Store(content, k, kind, text)
      BY <1>2, <2>1, <2>2, <2>3 DEF kind, HashKinds
    <3> HIDE DEF content, new, text
    <3> QED  BY <3>1, HashStored
  <2>6. Typed(u)
    BY <1>2, <2>3, <2>5 DEF Typed
  <2>7. ReadNext(p, u)
    BY <1>1, <1>4 DEF u
  <2> QED  BY <1>2, <2>3, <2>6, <2>7, ReadNextTypes
<1> QED  BY <1>3, <1>4

LEMMA ParseNothingTypes ==
  ASSUME TypeInv, TbtInv', NEW p \in Process, ParseNothing(p)
  PROVE  TypeInv'
<1>1. Typed(tbt[p]) /\ IsMemory(tbt[p])
  BY DEF TypeInv, TbtInv, Memories
<1>2. tbt[p].pc = "parse" /\ ReadNext(p, tbt[p])
  BY DEF ParseNothing, Parsing
<1> QED  BY <1>1, <1>2, ReadNextTypes DEF IsMemory

LEMMA WorkType ==
  ASSUME NEW algorithm \in DOMAIN Section, NEW nb_files \in Nat
  PROVE  Work(Section[algorithm], nb_files) \in WorkOf(nb_files)
<1> DEFINE jobs == {"ctph", "simhash"} \X (0 .. nb_files)
           lists(section) == [k \in 1 .. nb_files + 1 |-> <<section, k - 1>>]
<1>1. ASSUME NEW section \in {"ctph", "simhash"}
      PROVE  lists(section) \in Seq(jobs)
  <2>1. nb_files + 1 \in Nat
    OBVIOUS
  <2>2. \A k \in 1 .. nb_files + 1 : <<section, k - 1>> \in jobs
    OBVIOUS
  <2> HIDE DEF jobs
  <2> QED  BY <2>1, <2>2
<1>2. Section[algorithm] \in {<<"ctph", "simhash">>, <<"ctph">>, <<"simhash">>}
  BY DEF Section
<1>3. Work(Section[algorithm], nb_files)
        \in {lists("ctph") \o lists("simhash"), lists("ctph"), lists("simhash")}
  <2>1. Work(<<"ctph", "simhash">>, nb_files) = lists("ctph") \o lists("simhash")
    BY DEF Work
  <2>2. Work(<<"ctph">>, nb_files) = lists("ctph")
    BY DEF Work
  <2>3. Work(<<"simhash">>, nb_files) = lists("simhash")
    BY DEF Work
  <2> HIDE DEF lists
  <2> QED  BY <1>2, <2>1, <2>2, <2>3
<1> HIDE DEF jobs, lists
<1>4. lists("ctph") \o lists("simhash") \in Seq(jobs)
  BY <1>1, ConcatProperties
<1> QED  BY <1>1, <1>3, <1>4 DEF WorkOf, jobs

LEMMA ChosenType ==
  ASSUME NEW t, t.algorithm \in DOMAIN Section
  PROVE  Chosen(t) \in DOMAIN Section
BY DEF Chosen, Section

LEMMA ChooseTypes ==
  ASSUME TypeInv, TbtInv', NEW p \in Process, Choose(p)
  PROVE  TypeInv'
<1> DEFINE t == tbt[p]
           u == [t EXCEPT !.pc = "compare", !.algorithm = Chosen(t),
                          !.work = Work(Section[Chosen(t)], t.nb_files)]
<1>1. /\ Typed(t) /\ Opened(t, fs) /\ IsMemory(t) /\ t.pc = "choose"
  BY DEF TypeInv, TbtInv, Memories, Choose
<1>2. CASE Exit(p, 1)
  BY <1>2, ExitTypes
<1>3. CASE Set(p, u) /\ UNCHANGED fs
  <2>1. Chosen(t) \in DOMAIN Section
    BY <1>1, ChosenType DEF Typed
  <2>2. Work(Section[Chosen(t)], t.nb_files) \in WorkOf(t.nb_files)
    BY <1>1, <2>1, WorkType DEF IsMemory
  <2>3. /\ u.command = t.command /\ u.OUTPUT = t.OUTPUT /\ u.pc = "compare"
        /\ u.code = t.code /\ u.algorithm = Chosen(t) /\ u.out = t.out
        /\ u.flushed = t.flushed /\ u.files = t.files /\ u.at = t.at
        /\ u.line = t.line /\ u.content = t.content /\ u.nb_files = t.nb_files
        /\ u.work = Work(Section[Chosen(t)], t.nb_files)
    BY <1>1 DEF Field, IsMemory
  <2>4. t.command.mode = "compare"
    BY <1>1 DEF Typed, IsCommand, Places
  <2> HIDE DEF u
  <2>5. Typed(u) /\ Opened(u, fs)
    BY <1>1, <2>1, <2>2, <2>3, <2>4 DEF Typed, Opened, Places
  <2> QED  BY <1>3, <2>5, LocalTypes
<1> QED  BY <1>2, <1>3 DEF Choose

LEMMA WrongNumberTypes ==
  ASSUME TypeInv, TbtInv', NEW p \in Process, WrongNumber(p)
  PROVE  TypeInv'
BY ExitTypes DEF WrongNumber

LEMMA close_outputTypes ==
  ASSUME TypeInv, TbtInv', NEW p \in Process, close_output(p)
  PROVE  TypeInv'
<1>1. tbt[p].code \in {0, 1}
  BY DEF TypeInv, Typed
<1> QED  BY <1>1, ExitTypes DEF close_output

LEMMA ComparedTypes ==
  ASSUME TypeInv, TbtInv', NEW p \in Process, Compared(p)
  PROVE  TypeInv'
BY GotoTypes DEF Compared, Places

LEMMA KilledTypes ==
  ASSUME TypeInv, TbtInv', NEW p \in Process, Killed(p)
  PROVE  TypeInv'
BY GotoTypes DEF Killed, Places

(* Lines that a comparison prints.                                         *)
LEMMA PrintTypes ==
  ASSUME TypeInv, TbtInv', NEW p \in Process, tbt[p].pc = "compare",
         tbt[p].work # <<>>, NEW out \in Seq(Printable),
         Len(tbt[p].out) <= Len(out), UNCHANGED fs,
         Set(p, [tbt[p] EXCEPT !.work = Tail(@), !.out = out])
  PROVE  TypeInv'
<1> DEFINE t == tbt[p]
           u == [t EXCEPT !.work = Tail(@), !.out = out]
<1>1. /\ Typed(t) /\ Opened(t, fs) /\ IsMemory(t)
  BY DEF TypeInv, TbtInv, Memories
<1>2. Tail(t.work) \in WorkOf(t.nb_files)
  <2>1. t.work \in WorkOf(t.nb_files)
    BY <1>1 DEF Typed
  <2> DEFINE jobs == {"ctph", "simhash"} \X (0 .. t.nb_files)
  <2>2. t.work \in Seq(jobs)
    BY <2>1 DEF WorkOf
  <2> HIDE DEF jobs
  <2>3. Tail(t.work) \in Seq(jobs)
    BY <2>2, HeadTailProperties
  <2> QED  BY <2>3 DEF WorkOf, jobs
<1>3. t.flushed \in 0 .. Len(out)
  <2>1. PICK m \in Nat, n \in Nat : m = Len(t.out) /\ n = Len(out) /\ m <= n
    BY <1>1 DEF Typed
  <2>2. t.flushed \in 0 .. m
    BY <1>1, <2>1 DEF Typed
  <2>3. t.flushed \in 0 .. n
    BY <2>1, <2>2
  <2> QED  BY <2>1, <2>3
<1>4. /\ u.command = t.command /\ u.OUTPUT = t.OUTPUT /\ u.pc = t.pc
      /\ u.code = t.code /\ u.algorithm = t.algorithm /\ u.out = out
      /\ u.flushed = t.flushed /\ u.files = t.files /\ u.at = t.at
      /\ u.line = t.line /\ u.content = t.content /\ u.nb_files = t.nb_files
      /\ u.work = Tail(t.work)
  BY <1>1 DEF Field, IsMemory
<1>5. Set(p, u)
  OBVIOUS
<1> HIDE DEF u
<1>6. Typed(u) /\ Opened(u, fs)
  BY <1>1, <1>2, <1>3, <1>4 DEF Typed, Opened
<1> QED  BY <1>5, <1>6, LocalTypes

LEMMA HeadingTypes ==
  ASSUME TypeInv, TbtInv', NEW p \in Process, Heading(p)
  PROVE  TypeInv'
<1> DEFINE t == tbt[p]
           line == Line("head", Head(t.work)[1])
<1>1. t.pc = "compare" /\ t.work # <<>> /\ UNCHANGED fs
      /\ Set(p, [t EXCEPT !.work = Tail(@), !.out = Append(@, line)])
  BY DEF Heading
<1>2. t.out \in Seq(Printable) /\ t.work \in WorkOf(t.nb_files)
  BY <1>1 DEF TypeInv, Typed
<1>3. Head(t.work)[1] \in {"ctph", "simhash"}
  BY <1>1, <1>2 DEF WorkOf
<1>4. line \in Printable
  BY <1>3, LineIsPrintable, TextsOfKinds DEF Kinds
<1> HIDE DEF line
<1>5. /\ Append(t.out, line) \in Seq(Printable)
      /\ Len(Append(t.out, line)) = Len(t.out) + 1
      /\ Len(t.out) \in Nat
  BY <1>2, <1>4, AppendProperties
<1>6. Len(t.out) <= Len(Append(t.out, line))
  <2>1. PICK n \in Nat : n = Len(t.out)
    BY <1>5
  <2> QED  BY <1>5, <2>1
<1>7. Set(p, [t EXCEPT !.work = Tail(@), !.out = Append(t.out, line)])
  BY <1>1
<1> QED  BY <1>1, <1>5, <1>6, <1>7, PrintTypes

-----------------------------------------------------------------------------
(***************************************************************************)
(* What the comparison of two entries may give.                            *)
(***************************************************************************)

(* The percentages of a section.                                           *)
Grid(section) ==
  IF section = "ctph" THEN {Percent * score : score \in -1 .. 100}
  ELSE {Rescaled(distance) : distance \in 0 .. 8 * SIM_HASH_SIZE}

LEMMA HammingBounded ==
  \A hash_1, hash_2 : Hamming(hash_1, hash_2) \in 0 .. 8 * SIM_HASH_SIZE
<1> SUFFICES ASSUME NEW hash_1, NEW hash_2
             PROVE  Hamming(hash_1, hash_2) \in 0 .. 8 * SIM_HASH_SIZE
  OBVIOUS
<1> DEFINE all == (1 .. SIM_HASH_SIZE) \X (0 .. 7)
           differ == {p \in all : BitOf(hash_1[p[1]], p[2]) # BitOf(hash_2[p[1]], p[2])}
<1>1. SIM_HASH_SIZE \in Nat
  BY SimHashCompareAssumption
<1>2. IsFiniteSet(1 .. SIM_HASH_SIZE) /\ Cardinality(1 .. SIM_HASH_SIZE) = SIM_HASH_SIZE
  <2>1. /\ IsFiniteSet(1 .. SIM_HASH_SIZE)
        /\ Cardinality(1 .. SIM_HASH_SIZE) =
             IF 1 > SIM_HASH_SIZE THEN 0 ELSE SIM_HASH_SIZE - 1 + 1
    BY <1>1, FS_Interval
  <2> QED  BY <1>1, <2>1
<1>3. IsFiniteSet(0 .. 7) /\ Cardinality(0 .. 7) = 8
  <2>1. PICK m \in Int, n \in Int : m = 0 /\ n = 7
    OBVIOUS
  <2>2. IsFiniteSet(m .. n) /\ Cardinality(m .. n) = IF m > n THEN 0 ELSE n - m + 1
    BY FS_Interval
  <2>3. Cardinality(m .. n) = 8
    BY <2>1, <2>2
  <2>4. m .. n = 0 .. 7
    BY <2>1
  <2> QED  BY <2>2, <2>3, <2>4, Zenon
<1>4. IsFiniteSet(all) /\ Cardinality(all) = SIM_HASH_SIZE * 8
  <2>1. /\ IsFiniteSet(all)
        /\ Cardinality(all) = Cardinality(1 .. SIM_HASH_SIZE) * Cardinality(0 .. 7)
    BY <1>2, <1>3, FS_Product, Zenon
  <2> QED  BY <1>2, <1>3, <2>1, Zenon
<1>5. differ \subseteq all
  OBVIOUS
<1> HIDE DEF all, differ
<1>6. Cardinality(differ) \in Nat /\ Cardinality(differ) <= SIM_HASH_SIZE * 8
  BY <1>4, <1>5, FS_Subset, FS_CardinalityType
<1>7. Cardinality(differ) \in 0 .. 8 * SIM_HASH_SIZE
  BY <1>1, <1>6
<1> QED  BY <1>7 DEF Hamming, differ, all

(* A percentage of two SimHashes, counted from the bits that are equal.    *)
LEMMA RescaledValue ==
  ASSUME NEW distance \in 0 .. 8 * SIM_HASH_SIZE
  PROVE  \E res \in Nat, equal \in Nat :
           /\ equal = 8 * SIM_HASH_SIZE - distance
           /\ res = (3200 * equal) \div (8 * SIM_HASH_SIZE)
           /\ Rescaled(distance) = IF res >= 1600 THEN 2 * (res - 1600) ELSE 0
<1> DEFINE bits == 8 * SIM_HASH_SIZE
           equal == bits - distance
           res == (3200 * equal) \div bits
<1>1. bits \in Nat /\ bits > 0
  BY SimHashCompareAssumption
<1>2. distance \in 0 .. bits
  OBVIOUS
<1> HIDE DEF bits
<1>3. equal \in Nat
  BY <1>1, <1>2
<1>4. res \in Nat
  BY <1>1, <1>3
<1>5. Rescaled(distance) = 2 * (Max({res, 1600}) - 1600)
  BY DEF Rescaled, Percent, bits
<1> HIDE DEF equal, res
<1>6. Max({res, 1600}) = IF res >= 1600 THEN res ELSE 1600
  BY <1>4 DEF Max
<1>7. Rescaled(distance) = IF res >= 1600 THEN 2 * (res - 1600) ELSE 0
  BY <1>4, <1>5, <1>6
<1> QED  BY <1>3, <1>4, <1>7 DEF res, equal, bits

LEMMA GridsAreIntegers ==
  \A section : Grid(section) \subseteq Int
<1>1. {Percent * score : score \in -1 .. 100} \subseteq Int
  BY DEF Percent
<1>2. \A distance \in 0 .. 8 * SIM_HASH_SIZE : Rescaled(distance) \in Int
  BY RescaledValue
<1> QED  BY <1>1, <1>2 DEF Grid

(* Of at most 200 bits each is worth 16 steps before they are doubled.     *)
LEMMA BitIsWorth ==
  ASSUME NEW n \in 1 .. 25, NEW k \in Nat, NEW l \in Nat, k < l
  PROVE  /\ (3200 * l) \div (8 * n) >= (3200 * k) \div (8 * n) + 16
         /\ (3200 * (4 * n)) \div (8 * n) = 1600
OBVIOUS

(* Two percentages of a section are the same or differ by at least 1.      *)
LEMMA GridGaps ==
  ASSUME NEW section, NEW a \in Grid(section), NEW b \in Grid(section), a < b
  PROVE  b - a >= Percent
<1>1. CASE section = "ctph"
  <2>1. PICK k \in -1 .. 100, l \in -1 .. 100 : a = Percent * k /\ b = Percent * l
    BY <1>1 DEF Grid
  <2> QED  BY <2>1 DEF Percent
<1>2. CASE section # "ctph"
  <2>1. PICK d \in 0 .. 8 * SIM_HASH_SIZE, e \in 0 .. 8 * SIM_HASH_SIZE :
          a = Rescaled(d) /\ b = Rescaled(e)
    BY <1>2 DEF Grid
  <2>2. PICK n \in 1 .. 25 : n = SIM_HASH_SIZE
    <3>1. SIM_HASH_SIZE \in Nat /\ SIM_HASH_SIZE # 0
      BY SimHashCompareAssumption
    <3>2. SIM_HASH_SIZE <= 25
      BY InputAssumption
    <3> QED  BY <3>1, <3>2
  <2> DEFINE worth(equal) == (3200 * equal) \div (8 * n)
             percentage(equal) ==
               IF worth(equal) >= 1600 THEN 2 * (worth(equal) - 1600) ELSE 0
  <2>3. PICK k \in Nat : worth(k) \in Nat /\ a = percentage(k)
    <3>1. PICK res \in Nat, equal \in Nat :
            /\ res = (3200 * equal) \div (8 * SIM_HASH_SIZE)
            /\ Rescaled(d) = IF res >= 1600 THEN 2 * (res - 1600) ELSE 0
      BY RescaledValue
    <3>2. res = worth(equal)
      BY <2>2, <3>1
    <3> QED  BY <2>1, <3>1, <3>2
  <2>4. PICK l \in Nat : worth(l) \in Nat /\ b = percentage(l)
    <3>1. PICK res \in Nat, equal \in Nat :
            /\ res = (3200 * equal) \div (8 * SIM_HASH_SIZE)
            /\ Rescaled(e) = IF res >= 1600 THEN 2 * (res - 1600) ELSE 0
      BY RescaledValue
    <3>2. res = worth(equal)
      BY <2>2, <3>1
    <3> QED  BY <2>1, <3>1, <3>2
  <2>5. worth(4 * n) = 1600
    BY BitIsWorth
  <2>6. \A i, j \in Nat : i < j => worth(j) >= worth(i) + 16
    BY BitIsWorth
  <2>7. 4 * n \in Nat
    OBVIOUS
  <2> HIDE DEF worth
  <2>8. worth(l) > 1600 /\ worth(k) < worth(l)
    BY <2>3, <2>4
  <2>9. k < l
    <3>1. CASE k = l
      BY <2>8, <3>1, <2>3
    <3>2. CASE l < k
      BY <2>3, <2>4, <2>6, <2>8, <3>2
    <3> QED  BY <3>1, <3>2
  <2>10. 4 * n < l
    <3>1. CASE 4 * n = l
      BY <2>5, <2>8, <3>1
    <3>2. CASE l < 4 * n
      <4> DEFINE m == 4 * n
      <4>1. worth(m) >= worth(l) + 16
        BY <2>6, <2>7, <3>2
      <4>2. worth(m) = 1600
        BY <2>5
      <4> QED  BY <2>4, <2>8, <4>1, <4>2
    <3> QED  BY <2>7, <3>1, <3>2
  <2>11. worth(l) >= 1600 + 16
    BY <2>5, <2>6, <2>7, <2>10
  <2>12. worth(l) >= worth(k) + 16
    BY <2>6, <2>9
  <2> QED  BY <2>3, <2>4, <2>11, <2>12 DEF Percent
<1> QED  BY <1>1, <1>2

(* What qsort is told not to be larger is not larger.                      *)
LEMMA ComparedRightly ==
  ASSUME NEW section, NEW a \in Grid(section), NEW b \in Grid(section),
         compare_result(a, b) <= 0
  PROVE  a >= b
<1>1. a \in Int /\ b \in Int
  BY GridsAreIntegers
<1> SUFFICES ASSUME a < b  PROVE FALSE
  BY <1>1
<1>2. b - a >= 32
  BY GridGaps DEF Percent
<1>3. compare_result(a, b) = (b - a) \div 32
  BY <1>1 DEF compare_result, Percent
<1>4. (b - a) \div 32 >= 1
  BY <1>1, <1>2
<1> QED  BY <1>1, <1>3, <1>4

LEMMA SimHashLikeness ==
  ASSUME NEW text_1, NEW text_2, NEW score,
         <<text_1, text_2, score>> \in SimHashScores
  PROVE  score \in Grid("simhash")
<1>1. PICK t_1, t_2, s :
        /\ s \in simhash_compare(Bytes[t_1], Bytes[t_2])
        /\ <<text_1, text_2, score>> = <<t_1, t_2, s>>
  BY DEF SimHashScores
<1>2. PICK hash_1, hash_2 : s = Rescaled(Hamming(hash_1, hash_2))
  BY <1>1 DEF simhash_compare, compare_hash
<1>3. s \in {Rescaled(distance) : distance \in 0 .. 8 * SIM_HASH_SIZE}
  BY <1>2, HammingBounded
<1>4. score = s
  BY <1>1
<1> QED  BY <1>3, <1>4 DEF Grid

LEMMA LikenessType ==
  ASSUME NEW section \in {"ctph", "simhash"},
         NEW text_1 \in HashTexts(section), NEW text_2 \in HashTexts(section)
  PROVE  Likeness(section, text_1, text_2) \subseteq Grid(section)
<1>1. CASE {Unset, Scrap} \cap {text_1, text_2} # {}
  <2>1. Scores[section] \subseteq Grid(section)
    BY InputAssumption DEF Grid
  <2> QED  BY <1>1, <2>1 DEF Likeness
<1>2. CASE {Unset, Scrap} \cap {text_1, text_2} = {} /\ section = "simhash"
  <2>1. Likeness(section, text_1, text_2) =
          {r[3] : r \in {s \in SimHashScores : s[1] = text_1 /\ s[2] = text_2}}
    BY <1>2 DEF Likeness
  <2>2. ASSUME NEW r \in SimHashScores  PROVE r[3] \in Grid("simhash")
    <3>1. r = <<r[1], r[2], r[3]>>
      BY <2>2 DEF SimHashScores
    <3> QED  BY <2>2, <3>1, SimHashLikeness
  <2> QED  BY <1>2, <2>1, <2>2
<1>3. CASE {Unset, Scrap} \cap {text_1, text_2} = {} /\ section = "ctph"
  <2>1. PICK n \in Names, m \in Names : text_1 = Sample[n].ctph /\ text_2 = Sample[m].ctph
    BY <1>3, TextsOfKinds DEF HashTexts
  <2>2. CASE NullText \in {text_1, text_2}
    <3>1. Likeness(section, text_1, text_2) = {- Percent}
      BY <1>3, <2>2 DEF Likeness
    <3>2. - Percent = Percent * (-1)
      BY DEF Percent
    <3>3. -1 \in -1 .. 100
      OBVIOUS
    <3>4. - Percent \in {Percent * score : score \in -1 .. 100}
      BY <3>2, <3>3
    <3> QED  BY <1>3, <3>1, <3>4 DEF Grid
  <2>3. CASE NullText \notin {text_1, text_2}
    <3>1. Likeness(section, text_1, text_2) = {Percent * CtphScore[<<text_1, text_2>>]}
      BY <1>3, <2>3 DEF Likeness
    <3>2. CtphScore[<<text_1, text_2>>] \in -1 .. 100
      BY <2>1, <2>3, InputAssumption
    <3> QED  BY <1>3, <3>1, <3>2 DEF Grid
  <2> QED  BY <2>2, <2>3
<1> QED  BY <1>1, <1>2, <1>3

-----------------------------------------------------------------------------
(***************************************************************************)
(* The list of an entry.                                                   *)
(***************************************************************************)

(* The percentages of entry i of t and an order of the entries.            *)
Comparison(t, section, i, percentage, order) ==
  /\ t.nb_files \in Nat
  /\ \A j \in 1 .. t.nb_files : t.content[j] \in Entries
  /\ section \in HashKinds
  /\ i \in 1 .. t.nb_files
  /\ DOMAIN percentage = 1 .. t.nb_files
  /\ \A j \in 1 .. t.nb_files : percentage[j] \in Grid(section)
  /\ Len(order) = t.nb_files
  /\ \A k \in 1 .. t.nb_files : order[k] \in 1 .. t.nb_files

LEMMA ComparisonType ==
  ASSUME NEW t, t.nb_files \in Nat,
         t.content \in Seq(Entries), Len(t.content) = t.nb_files + 1,
         NEW section \in HashKinds, NEW i \in 1 .. t.nb_files,
         NEW percentage \in Percentages(t, section, i),
         NEW order \in Sorted(percentage)
  PROVE  /\ Comparison(t, section, i, percentage, order)
         /\ \A k \in 1 .. t.nb_files - 1 :
              percentage[order[k]] >= percentage[order[k + 1]]
         /\ \A k, l \in 1 .. t.nb_files : order[k] = order[l] => k = l
<1>0. PICK n \in Nat : n = t.nb_files
  OBVIOUS
<1> DEFINE likeness == [j \in 1 .. n |-> Likeness(section, t.content[i][section],
                                                  t.content[j][section])]
<1>1. /\ \A j \in 1 .. n : t.content[j] \in Entries
      /\ i \in 1 .. n
  BY <1>0
<1>2. \A j \in 1 .. n : t.content[j][section] \in HashTexts(section)
  BY <1>1 DEF Entries, HashKinds
<1>3. percentage \in [1 .. n -> UNION Range(likeness)]
      /\ \A j \in 1 .. n : percentage[j] \in likeness[j]
  BY <1>0 DEF Percentages
<1>4. \A j \in 1 .. n : percentage[j] \in Grid(section)
  BY <1>1, <1>2, <1>3, LikenessType DEF HashKinds
<1> HIDE DEF likeness
<1>5. DOMAIN percentage = 1 .. n
  BY <1>3
<1>6. Cardinality(1 .. n) = n
  <2>1. Cardinality(1 .. n) = IF 1 > n THEN 0 ELSE n - 1 + 1
    BY FS_Interval
  <2> QED  BY <2>1
<1>7. /\ order \in [1 .. n -> 1 .. n]
      /\ \A k, l \in 1 .. n : k # l => order[k] # order[l]
      /\ \A k \in 1 .. Len(order) - 1 :
           compare_result(percentage[order[k]], percentage[order[k + 1]]) <= 0
  BY <1>5, <1>6 DEF Sorted, SetToSeqs
<1>8. Len(order) = n
  BY <1>7
<1>9. ASSUME NEW k \in 1 .. n - 1
      PROVE  percentage[order[k]] >= percentage[order[k + 1]]
  <2>1. k \in 1 .. n /\ k + 1 \in 1 .. n
    OBVIOUS
  <2>2. percentage[order[k]] \in Grid(section) /\ percentage[order[k + 1]] \in Grid(section)
    BY <1>4, <1>7, <2>1
  <2>3. compare_result(percentage[order[k]], percentage[order[k + 1]]) <= 0
    BY <1>7, <1>8
  <2> QED  BY <2>2, <2>3, ComparedRightly
<1>10. Comparison(t, section, i, percentage, order)
  BY <1>0, <1>1, <1>4, <1>5, <1>7, <1>8 DEF Comparison
<1> QED  BY <1>0, <1>7, <1>9, <1>10

(* The list after it has been shown, or not, that entry j is like entry i. *)
Extended(t, section, i, percentage, j, list) ==
  IF t.content[j].name # t.content[i].name /\ percentage[j] # 0
    THEN Append(list, Score(t, section, i, j, percentage[j]))
    ELSE list

Listing(t, section, i, percentage, order, m, lines) ==
  /\ lines \in [0 .. m -> Seq(Printable)]
  /\ lines[0] = <<Line("of", t.content[i].name)>>
  /\ \A k \in 1 .. m :
       lines[k] = Extended(t, section, i, percentage, order[k], lines[k - 1])

LEMMA ScoreType ==
  ASSUME NEW t, NEW section, NEW i, NEW percentage, NEW order,
         Comparison(t, section, i, percentage, order),
         NEW j \in 1 .. t.nb_files
  PROVE  /\ Score(t, section, i, j, percentage[j]) \in Printable
         /\ Line("of", t.content[i].name) \in Printable
<1>1. t.content[i] \in Entries /\ t.content[j] \in Entries
  BY DEF Comparison
<1>2. percentage[j] \in Int
  BY GridsAreIntegers DEF Comparison
<1>3. [section |-> section, of |-> t.content[i].name,
       name |-> t.content[j].name, percentage |-> percentage[j]]
        \in Texts("score")
  BY <1>1, <1>2, TextsOfKinds DEF Entries, Comparison, HashKinds
<1>4. t.content[i].name \in Texts("of")
  BY <1>1, TextsOfKinds DEF Entries
<1> QED  BY <1>3, <1>4, LineIsPrintable DEF Score, Kinds

LEMMA ExtendedType ==
  ASSUME NEW t, NEW section, NEW i, NEW percentage, NEW order,
         Comparison(t, section, i, percentage, order),
         NEW k \in 1 .. t.nb_files, NEW list \in Seq(Printable)
  PROVE  Extended(t, section, i, percentage, order[k], list) \in Seq(Printable)
<1>1. order[k] \in 1 .. t.nb_files
  BY DEF Comparison
<1>2. Score(t, section, i, order[k], percentage[order[k]]) \in Printable
  BY <1>1, ScoreType
<1> QED  BY <1>2, AppendProperties DEF Extended

LEMMA ListingExists ==
  ASSUME NEW t, NEW section, NEW i, NEW percentage, NEW order,
         Comparison(t, section, i, percentage, order)
  PROVE  \E lines : Listing(t, section, i, percentage, order, t.nb_files, lines)
<1> DEFINE nb == t.nb_files
           Upto(m, f) == Listing(t, section, i, percentage, order, m, f)
           S == {m \in Nat : m <= nb => \E f : Upto(m, f)}
           of == Line("of", t.content[i].name)
<1>1. nb \in Nat /\ i \in 1 .. nb
  BY DEF Comparison
<1>2. 0 \in S
  <2>1. <<of>> \in Seq(Printable)
    BY <1>1, ScoreType
  <2> HIDE DEF of
  <2>2. [n \in 0 .. 0 |-> <<of>>] \in [0 .. 0 -> Seq(Printable)]
        /\ [n \in 0 .. 0 |-> <<of>>][0] = <<of>>
    BY <2>1
  <2>3. Upto(0, [n \in 0 .. 0 |-> <<of>>])
    BY <2>2 DEF Listing, of
  <2> QED  BY <2>3
<1>3. ASSUME NEW m \in Nat, m \in S  PROVE m + 1 \in S
  <2>1. SUFFICES ASSUME m + 1 <= nb  PROVE \E f : Upto(m + 1, f)
    BY <1>3
  <2>2. PICK f : Upto(m, f)
    BY <1>1, <1>3, <2>1
  <2>3. m + 1 \in 1 .. nb
    BY <1>1, <2>1
  <2> DEFINE next == Extended(t, section, i, percentage, order[m + 1], f[m])
             g == [n \in 0 .. m + 1 |-> IF n = m + 1 THEN next ELSE f[n]]
  <2>4. f \in [0 .. m -> Seq(Printable)] /\ f[0] = <<of>>
    BY <2>2 DEF Listing
  <2>5. next \in Seq(Printable)
    BY <2>3, <2>4, ExtendedType
  <2> HIDE DEF of
  <2>6. g \in [0 .. m + 1 -> Seq(Printable)] /\ g[0] = <<of>>
    <3> HIDE DEF next
    <3> QED  BY <2>4, <2>5
  <2>7. ASSUME NEW n \in 1 .. m + 1
        PROVE  g[n] = Extended(t, section, i, percentage, order[n], g[n - 1])
    <3>1. CASE n \in 1 .. m
      <4>1. g[n] = f[n] /\ g[n - 1] = f[n - 1]
        BY <3>1
      <4> HIDE DEF g
      <4> QED  BY <2>2, <3>1, <4>1 DEF Listing
    <3>2. CASE n = m + 1
      <4>1. g[n] = next /\ g[n - 1] = f[m]
        <5> HIDE DEF next
        <5> QED  BY <3>2
      <4> HIDE DEF g
      <4> QED  BY <3>2, <4>1
    <3> QED  BY <3>1, <3>2
  <2> HIDE DEF g
  <2>8. Upto(m + 1, g)
    BY <2>6, <2>7 DEF Listing, of
  <2> QED  BY <2>8
<1>4. nb \in S
  <2>1. \A m \in Nat : m \in S
    <3> HIDE DEF S
    <3> QED  BY <1>2, <1>3, SetInduction
  <2> QED  BY <1>1, <2>1
<1> QED  BY <1>1, <1>4

(* List is the last of the listings.                                       *)
LEMMA ListIsLast ==
  ASSUME NEW t, NEW section, NEW i, NEW percentage, NEW order,
         Comparison(t, section, i, percentage, order)
  PROVE  \E lines :
           /\ Listing(t, section, i, percentage, order, t.nb_files, lines)
           /\ List(t, section, i, percentage, order) = lines[t.nb_files]
<1> DEFINE nb == t.nb_files
           shown(j) == t.content[j].name # t.content[i].name /\ percentage[j] # 0
           lines[k \in 0 .. Len(order)] ==
             IF k = 0 THEN <<Line("of", t.content[i].name)>>
             ELSE IF shown(order[k])
               THEN Append(lines[k - 1],
                           Score(t, section, i, order[k], percentage[order[k]]))
             ELSE lines[k - 1]
           next(f) ==
             [k \in 0 .. nb |->
                IF k = 0 THEN <<Line("of", t.content[i].name)>>
                ELSE Extended(t, section, i, percentage, order[k], f[k - 1])]
<1>1. nb \in Nat /\ Len(order) = nb
  BY DEF Comparison
<1>2. List(t, section, i, percentage, order) = lines[nb]
  BY <1>1 DEF List
<1>3. lines = CHOOSE f : f = next(f)
  BY <1>1 DEF Extended
<1>4. PICK f : Listing(t, section, i, percentage, order, nb, f)
  BY ListingExists
<1>5. f = next(f)
  <2>1. ASSUME NEW k \in 0 .. nb
        PROVE  f[k] = IF k = 0 THEN <<Line("of", t.content[i].name)>>
                      ELSE Extended(t, section, i, percentage, order[k], f[k - 1])
    <3>1. k = 0 \/ k \in 1 .. nb
      BY <1>1
    <3> QED  BY <1>1, <1>4, <3>1 DEF Listing
  <2>2. f \in [0 .. nb -> Seq(Printable)]
    BY <1>4 DEF Listing
  <2> QED  BY <2>1, <2>2
<1> HIDE DEF lines
<1>6. lines = next(lines)
  <2> HIDE DEF next
  <2> QED  BY <1>3, <1>5, Zenon
<1>7. /\ lines[0] = <<Line("of", t.content[i].name)>>
      /\ DOMAIN lines = 0 .. nb
      /\ lines = [k \in 0 .. nb |-> lines[k]]
      /\ \A k \in 1 .. nb :
           lines[k] = Extended(t, section, i, percentage, order[k], lines[k - 1])
  <2>1. /\ DOMAIN next(lines) = 0 .. nb
        /\ next(lines) = [k \in 0 .. nb |-> next(lines)[k]]
        /\ next(lines)[0] = <<Line("of", t.content[i].name)>>
        /\ \A k \in 1 .. nb :
             next(lines)[k] =
               Extended(t, section, i, percentage, order[k], lines[k - 1])
    BY <1>1
  <2> HIDE DEF next
  <2> QED  BY <1>6, <2>1
<1>8. \A k \in 0 .. nb : lines[k] \in Seq(Printable)
  <2> DEFINE S == {k \in Nat : k <= nb => lines[k] \in Seq(Printable)}
  <2>1. 0 \in S
    <3> DEFINE of == Line("of", t.content[i].name)
    <3>1. of \in Printable
      BY ScoreType DEF Comparison
    <3> HIDE DEF of
    <3>2. <<of>> \in Seq(Printable)
      BY <3>1
    <3> QED  BY <1>7, <3>2 DEF of
  <2>2. ASSUME NEW k \in Nat, k \in S  PROVE k + 1 \in S
    <3>1. SUFFICES ASSUME k + 1 <= nb  PROVE lines[k + 1] \in Seq(Printable)
      OBVIOUS
    <3>2. k + 1 \in 1 .. nb /\ (k + 1) - 1 = k /\ lines[k] \in Seq(Printable)
      BY <1>1, <2>2, <3>1
    <3>3. lines[k + 1] = Extended(t, section, i, percentage, order[k + 1], lines[k])
      BY <1>7, <3>2
    <3> QED  BY <3>2, <3>3, ExtendedType
  <2>3. \A k \in Nat : k \in S
    <3> HIDE DEF S
    <3> QED  BY <2>1, <2>2, SetInduction
  <2> QED  BY <1>1, <2>3
<1>9. Listing(t, section, i, percentage, order, nb, lines)
  BY <1>7, <1>8 DEF Listing
<1> QED  BY <1>2, <1>9

-----------------------------------------------------------------------------
(***************************************************************************)
(* Scores fall.                                                            *)
(***************************************************************************)

(* A score that follows another is not higher.                             *)
Falls(out) ==
  \A k \in 1 .. Len(out) - 1 :
    out[k].kind = "score" /\ out[k + 1].kind = "score" =>
      out[k].text.percentage >= out[k + 1].text.percentage

LEMMA FallsJoined ==
  ASSUME NEW a \in Seq(Printable), NEW b \in Seq(Printable),
         Falls(a), Falls(b),
         a # <<>> /\ b # <<>> => \/ a[Len(a)].kind # "score"
                                 \/ b[1].kind # "score"
                                 \/ a[Len(a)].text.percentage >= b[1].text.percentage
  PROVE  Falls(a \o b)
<1>1. PICK m \in Nat, n \in Nat : m = Len(a) /\ n = Len(b)
  OBVIOUS
<1> DEFINE c == a \o b
<1>2. /\ Len(c) = m + n
      /\ \A k \in 1 .. m + n : c[k] = IF k <= m THEN a[k] ELSE b[k - m]
  BY <1>1, ConcatProperties
<1> HIDE DEF c
<1>3. ASSUME NEW k \in 1 .. m + n - 1, c[k].kind = "score", c[k + 1].kind = "score"
      PROVE  c[k].text.percentage >= c[k + 1].text.percentage
  <2>1. k \in 1 .. m + n /\ k + 1 \in 1 .. m + n
    BY <1>1
  <2>2. CASE k + 1 <= m
    <3>1. k \in 1 .. m - 1 /\ k <= m
      BY <1>1, <2>2
    <3>2. c[k] = a[k] /\ c[k + 1] = a[k + 1]
      BY <1>2, <2>1, <2>2, <3>1
    <3> QED  BY <1>1, <1>3, <3>1, <3>2 DEF Falls
  <2>3. CASE k = m
    <3>1. c[k] = a[m] /\ c[k + 1] = b[1]
      <4>1. m <= m /\ ~(m + 1 <= m) /\ m + 1 - m = 1
        BY <1>1
      <4> QED  BY <1>2, <2>1, <2>3, <4>1
    <3>2. m >= 1 /\ n >= 1
      BY <1>1, <2>1, <2>3
    <3>3. a # <<>> /\ b # <<>>
      BY <1>1, <3>2
    <3> QED  BY <1>1, <1>3, <3>1, <3>3
  <2>4. CASE k > m
    <3>1. PICK l \in 1 .. n - 1 : k - m = l
      BY <1>1, <2>4
    <3>2. c[k] = b[l]
      <4>1. ~(k <= m)
        BY <1>1, <2>4
      <4> QED  BY <1>2, <2>1, <3>1, <4>1
    <3>3. c[k + 1] = b[l + 1]
      <4>1. ~(k + 1 <= m) /\ k + 1 - m = l + 1
        BY <1>1, <2>4, <3>1
      <4> QED  BY <1>2, <2>1, <4>1
    <3> QED  BY <1>1, <1>3, <3>1, <3>2, <3>3 DEF Falls
  <2> QED  BY <1>1, <2>2, <2>3, <2>4
<1>4. Falls(c)
  BY <1>2, <1>3 DEF Falls
<1> QED  BY <1>4 DEF c

LEMMA ScoreText ==
  ASSUME NEW text \in Texts("score")
  PROVE  text.percentage \in Int
<1>1. text \in [section : {"ctph", "simhash"}, of : Names \cup {Unset},
               name : Names \cup {Unset}, percentage : Int]
  BY TextsOfKinds
<1> QED  BY <1>1

LEMMA OneFalls ==
  ASSUME NEW line \in Printable
  PROVE  Falls(<<line>>)
BY DEF Falls

(* Lines none of which is one of a hash file, as those of a list.          *)
NoEntries(lines) ==
  \A k \in 1 .. Len(lines) :
    ~IsHash(lines[k]) /\ lines[k].kind \notin {"name", "hole"}

LEMMA NoEntryAppended ==
  ASSUME NEW lines \in Seq(Printable), NEW line \in Printable,
         NoEntries(lines), ~IsHash(line), line.kind \notin {"name", "hole"}
  PROVE  NoEntries(Append(lines, line))
<1>1. PICK n \in Nat : n = Len(lines)
  OBVIOUS
<1> DEFINE new == Append(lines, line)
<1>2. /\ Len(new) = n + 1 /\ new[n + 1] = line
      /\ \A k \in 1 .. n : new[k] = lines[k]
  BY <1>1, AppendProperties
<1> HIDE DEF new
<1>3. \A k \in 1 .. n + 1 : k \in 1 .. n \/ k = n + 1
  BY <1>1
<1>4. NoEntries(new)
  BY <1>1, <1>2, <1>3, Zenon DEF NoEntries
<1> QED  BY <1>4 DEF new

(* The list of an entry begins with its name, and its scores fall.         *)
LEMMA ListFalls ==
  ASSUME NEW t, NEW section, NEW i, NEW percentage, NEW order,
         Comparison(t, section, i, percentage, order),
         \A k \in 1 .. t.nb_files - 1 :
           percentage[order[k]] >= percentage[order[k + 1]]
  PROVE  LET list == List(t, section, i, percentage, order) IN
         /\ list \in Seq(Printable) /\ list # <<>>
         /\ list[1].kind = "of"
         /\ Falls(list) /\ NoEntries(list)
<1>1. PICK nb \in Nat : nb = t.nb_files
  BY DEF Comparison
<1>2. PICK lines :
        /\ Listing(t, section, i, percentage, order, nb, lines)
        /\ List(t, section, i, percentage, order) = lines[nb]
  BY <1>1, ListIsLast
<1> DEFINE of == Line("of", t.content[i].name)
           last(k) == percentage[order[k]]
           Good(k, list) ==
             /\ list \in Seq(Printable) /\ list # <<>>
             /\ list[1].kind = "of"
             /\ Falls(list) /\ NoEntries(list)
             /\ list[Len(list)].kind = "score" =>
                  k >= 1 /\ list[Len(list)].text.percentage >= last(k)
           S == {k \in Nat : k <= nb => Good(k, lines[k])}
<1>3. \A k \in 1 .. nb : last(k) \in Int
  BY <1>1, GridsAreIntegers DEF Comparison
<1>4. of \in Printable /\ of.kind = "of"
  <2>1. of \in Printable
    BY ScoreType DEF Comparison
  <2> QED  BY <2>1 DEF Line
<1>5. 0 \in S
  <2>1. lines[0] = <<of>>
    BY <1>2 DEF Listing
  <2> HIDE DEF of
  <2>2. /\ <<of>> \in Seq(Printable) /\ <<of>> # <<>> /\ <<of>>[1] = of
        /\ Len(<<of>>) = 1 /\ Falls(<<of>>)
    BY <1>4, OneFalls
  <2>3. NoEntries(<<of>>)
    BY <1>4 DEF NoEntries, IsHash
  <2>4. Good(0, <<of>>)
    <3> HIDE DEF last
    <3> QED  BY <1>4, <2>2, <2>3
  <2> HIDE DEF Good
  <2> QED  BY <2>1, <2>4
<1> HIDE DEF of
<1>6. ASSUME NEW k \in Nat, k \in S  PROVE k + 1 \in S
  <2>1. SUFFICES ASSUME k + 1 <= nb  PROVE Good(k + 1, lines[k + 1])
    <3> HIDE DEF Good
    <3> QED  OBVIOUS
  <2>2. k + 1 \in 1 .. nb /\ (k + 1) - 1 = k /\ k \in 0 .. nb
    BY <1>1, <2>1
  <2> DEFINE list == lines[k]
             j == order[k + 1]
             score == Score(t, section, i, j, percentage[j])
  <2>3. Good(k, list)
    <3> HIDE DEF Good
    <3> QED  BY <1>6, <2>2
  <2>4. \/ lines[k + 1] = list
        \/ lines[k + 1] = Append(list, score)
    BY <1>2, <2>2 DEF Listing, Extended
  <2>5. j \in 1 .. t.nb_files
    BY <1>1, <2>2 DEF Comparison
  <2>6. /\ score \in Printable /\ score.kind = "score"
        /\ score.text.percentage = last(k + 1)
    <3>1. score \in Printable
      BY <2>5, ScoreType
    <3> QED  BY <3>1 DEF Score, Line
  <2>7. k >= 1 => last(k) >= last(k + 1) /\ k \in 1 .. nb
    <3>1. k >= 1 => k \in 1 .. nb - 1 /\ k \in 1 .. nb
      BY <2>2
    <3> QED  BY <1>1, <3>1
  <2>8. last(k + 1) \in Int /\ (k >= 1 => last(k) \in Int)
    BY <1>3, <2>2, <2>7
  <2>9. list[Len(list)].kind = "score" =>
          /\ list[Len(list)].text.percentage \in Int
          /\ list[Len(list)].text.percentage >= last(k)
          /\ k >= 1
    <3>1. list[Len(list)] \in Lines
      BY <2>3 DEF Printable
    <3>2. SUFFICES ASSUME list[Len(list)].kind = "score"
                   PROVE  list[Len(list)].text.percentage \in Int
      BY <2>3
    <3>3. list[Len(list)].text \in Texts("score")
      BY <3>1, <3>2, LineIsTyped
    <3> QED  BY <3>3, ScoreText
  <2> HIDE DEF list, score, last
  <2>10. list[Len(list)].kind = "score" =>
           list[Len(list)].text.percentage >= last(k + 1)
    BY <2>7, <2>8, <2>9
  <2>11. CASE lines[k + 1] = list
    <3>1. k + 1 >= 1
      OBVIOUS
    <3> QED  BY <2>3, <2>10, <2>11, <3>1
  <2>12. CASE lines[k + 1] = Append(list, score)
    <3>1. Append(list, score) = list \o <<score>>
      BY <2>3, <2>6
    <3>2. <<score>> \in Seq(Printable) /\ <<score>>[1] = score /\ Falls(<<score>>)
      BY <2>6, OneFalls
    <3>3. Falls(list \o <<score>>)
      BY <2>3, <2>6, <2>10, <3>2, FallsJoined
    <3>4. /\ Append(list, score) \in Seq(Printable)
          /\ Append(list, score) # <<>>
          /\ Len(Append(list, score)) = Len(list) + 1
          /\ Append(list, score)[Len(list) + 1] = score
          /\ Append(list, score)[1] = list[1]
      <4>1. 1 \in 1 .. Len(list)
        BY <2>3
      <4> QED  BY <2>3, <2>6, <4>1, AppendProperties
    <3>5. last(k + 1) >= last(k + 1) /\ k + 1 >= 1
      BY <2>8
    <3>6. NoEntries(Append(list, score))
      BY <2>3, <2>6, NoEntryAppended DEF IsHash
    <3> QED  BY <2>3, <2>6, <2>12, <3>1, <3>3, <3>4, <3>5, <3>6
  <2> QED  BY <2>4, <2>11, <2>12
<1>7. nb \in S
  <2>1. \A k \in Nat : k \in S
    <3> HIDE DEF S
    <3> QED  BY <1>5, <1>6, SetInduction
  <2> QED  BY <2>1
<1>8. Good(nb, lines[nb])
  <2> HIDE DEF Good
  <2> QED  BY <1>7
<1> QED  BY <1>2, <1>8

(* CompareNext compares an entry with all of them, and sorts what it finds.*)
LEMMA CompareNextSorts ==
  ASSUME TypeInv, NEW p \in Process, CompareNext(p)
  PROVE  LET t == tbt[p] IN
         \E section, i, percentage, order :
           /\ section = Head(t.work)[1] /\ i = Head(t.work)[2] /\ i # 0
           /\ percentage \in Percentages(t, section, i)
           /\ Comparison(t, section, i, percentage, order)
           /\ \A k \in 1 .. t.nb_files - 1 :
                percentage[order[k]] >= percentage[order[k + 1]]
           /\ \A k, l \in 1 .. t.nb_files : order[k] = order[l] => k = l
           /\ Set(p, [t EXCEPT !.work = Tail(@),
                               !.out = @ \o List(t, section, i, percentage, order)])
<1> DEFINE t == tbt[p]
<1>1. PICK section, i, percentage, order :
        /\ section = Head(t.work)[1] /\ i = Head(t.work)[2] /\ i # 0
        /\ percentage \in Percentages(t, section, i)
        /\ order \in Sorted(percentage)
        /\ Set(p, [t EXCEPT !.work = Tail(@),
                            !.out = @ \o List(t, section, i, percentage, order)])
  BY DEF CompareNext
<1>2. Typed(t) /\ IsMemory(t) /\ t.pc = "compare" /\ t.work # <<>>
  BY DEF TypeInv, TbtInv, Memories, CompareNext
<1>3. /\ t.nb_files \in Nat /\ t.content \in Seq(Entries)
      /\ Len(t.content) = t.nb_files + 1
      /\ t.out \in Seq(Printable)
      /\ t.work \in Seq({"ctph", "simhash"} \X (0 .. t.nb_files))
  BY <1>2 DEF Typed, IsMemory, WorkOf
<1>4. Head(t.work) \in {"ctph", "simhash"} \X (0 .. t.nb_files)
  BY <1>2, <1>3
<1>5. section \in HashKinds /\ i \in 1 .. t.nb_files
  <2>1. PICK n \in Nat : n = t.nb_files
    BY <1>3
  <2>2. section \in {"ctph", "simhash"} /\ i \in 0 .. n
    BY <1>1, <1>4, <2>1
  <2>3. i \in 1 .. n
    BY <1>1, <2>2
  <2> QED  BY <2>1, <2>2, <2>3 DEF HashKinds
<1>6. /\ Comparison(t, section, i, percentage, order)
      /\ \A k \in 1 .. t.nb_files - 1 :
           percentage[order[k]] >= percentage[order[k + 1]]
      /\ \A k, l \in 1 .. t.nb_files : order[k] = order[l] => k = l
  <2>1. percentage \in Percentages(t, section, i) /\ order \in Sorted(percentage)
    BY <1>1
  <2> HIDE DEF t
  <2> QED  BY <1>3, <1>5, <2>1, ComparisonType
<1> QED  BY <1>1, <1>6

(* CompareNext appends the list of an entry.                               *)
LEMMA CompareNextLists ==
  ASSUME TypeInv, NEW p \in Process, CompareNext(p)
  PROVE  \E list \in Seq(Printable) :
           /\ list # <<>> /\ list[1].kind = "of" /\ Falls(list) /\ NoEntries(list)
           /\ tbt[p].out \o list \in Seq(Printable)
           /\ Len(tbt[p].out) <= Len(tbt[p].out \o list)
           /\ Set(p, [tbt[p] EXCEPT !.work = Tail(@),
                                    !.out = tbt[p].out \o list])
<1> DEFINE t == tbt[p]
<1>1. PICK section, i, percentage, order :
        /\ Comparison(t, section, i, percentage, order)
        /\ \A k \in 1 .. t.nb_files - 1 :
             percentage[order[k]] >= percentage[order[k + 1]]
        /\ Set(p, [t EXCEPT !.work = Tail(@),
                            !.out = @ \o List(t, section, i, percentage, order)])
  BY CompareNextSorts
<1>2. t.out \in Seq(Printable)
  BY DEF TypeInv, Typed
<1> DEFINE list == List(t, section, i, percentage, order)
<1>3. /\ list \in Seq(Printable) /\ list # <<>>
      /\ list[1].kind = "of" /\ Falls(list) /\ NoEntries(list)
  BY <1>1, ListFalls
<1>4. Set(p, [t EXCEPT !.work = Tail(@), !.out = t.out \o list])
  BY <1>1
<1> HIDE DEF list
<1>5. t.out \o list \in Seq(Printable) /\ Len(t.out) <= Len(t.out \o list)
  <2>1. PICK m \in Nat, n \in Nat : m = Len(t.out) /\ n = Len(list)
    BY <1>2, <1>3
  <2>2. t.out \o list \in Seq(Printable) /\ Len(t.out \o list) = m + n
    BY <1>2, <1>3, <2>1, ConcatProperties
  <2> QED  BY <2>1, <2>2
<1> QED  BY <1>3, <1>4, <1>5

LEMMA CompareNextTypes ==
  ASSUME TypeInv, TbtInv', NEW p \in Process, CompareNext(p)
  PROVE  TypeInv'
<1>1. PICK list \in Seq(Printable) :
        /\ tbt[p].out \o list \in Seq(Printable)
        /\ Len(tbt[p].out) <= Len(tbt[p].out \o list)
        /\ Set(p, [tbt[p] EXCEPT !.work = Tail(@), !.out = tbt[p].out \o list])
  BY CompareNextLists
<1>2. tbt[p].pc = "compare" /\ tbt[p].work # <<>> /\ UNCHANGED fs
  BY DEF CompareNext
<1> QED  BY <1>1, <1>2, PrintTypes

-----------------------------------------------------------------------------

(* The invariant holds before any process has done a step.                 *)
THEOREM TypeInvInit ==
  Init => TypeInv
<1> SUFFICES ASSUME Init  PROVE TypeInv
  OBVIOUS
<1>1. PICK run \in Runs : tbt = [p \in Process |-> Begin(run[p])]
  BY DEF Init
<1>2. ASSUME NEW p \in Process  PROVE Typed(tbt[p]) /\ Opened(tbt[p], fs)
  <2> DEFINE t == Begin(run[p])
  <2>1. IsCommand(run[p])
    BY InputAssumption DEF IsCommand
  <2>2. /\ t.command = run[p] /\ t.OUTPUT = Null /\ t.pc = "access"
        /\ t.code = 0 /\ t.algorithm = run[p].algorithm /\ t.out = <<>>
        /\ t.flushed = 0 /\ t.files = {} /\ t.at = 0 /\ t.line = Hole
        /\ t.nb_files = 0 /\ t.content = <<>>
    BY DEF Begin
  <2>3. IsBuffer(Hole)
    BY HoleIsLine, LineBuffered
  <2>4. <<>> \in Seq(Printable) /\ <<>> \in Seq(Entries) /\ 0 \in 0 .. Len(<<>>)
    OBVIOUS
  <2> HIDE DEF t
  <2>5. Typed(t) /\ Opened(t, fs)
    BY <2>1, <2>2, <2>3, <2>4 DEF Typed, Opened, IsCommand, Places
  <2> QED  BY <1>1, <2>5 DEF t
<1>3. TypedFiles
  <2> SUFFICES ASSUME NEW path \in Path, fs[path] # Null
               PROVE  fs[path] \in Seq(Lines)
    BY DEF TypedFiles
  <2> DEFINE f == Disk[path]
  <2>1. f \in Seq(Range(f)) /\ \A k \in 1 .. Len(f) : IsLine(f[k])
    BY InputAssumption DEF Init
  <2>2. \A k \in 1 .. Len(f) : f[k] \in Lines
    BY <2>1, LinesAreIsLine
  <2> HIDE DEF f
  <2>3. f \in Seq(Lines)
    BY <2>1, <2>2
  <2> QED  BY <2>3 DEF Init, f
<1> QED  BY <1>2, <1>3, TbtInvInit DEF TypeInv

LEMMA TypeInvStep ==
  ASSUME TypeInv, TbtInv', NEW p \in Process, Step(p)
  PROVE  TypeInv'
<1>1. CASE Access(p)        BY <1>1, AccessTypes
<1>2. CASE Create(p)        BY <1>2, CreateTypes
<1>3. CASE Stat(p)          BY <1>3, StatTypes
<1>4. CASE treat_dir(p)     BY <1>4, TreatTypes
<1>5. CASE Fopen(p)         BY <1>5, FopenTypes
<1>6. CASE CountLine(p)     BY <1>6, CountLineTypes
<1>7. CASE CountEnd(p)      BY <1>7, CountEndTypes
<1>8. CASE WrongNumber(p)   BY <1>8, WrongNumberTypes
<1>9. CASE ParseName(p)     BY <1>9, ParseNameTypes
<1>10. CASE ParseHash(p)    BY <1>10, ParseHashTypes
<1>11. CASE ParseNothing(p) BY <1>11, ParseNothingTypes
<1>12. CASE Choose(p)       BY <1>12, ChooseTypes
<1>13. CASE Heading(p)      BY <1>13, HeadingTypes
<1>14. CASE CompareNext(p)  BY <1>14, CompareNextTypes
<1>15. CASE Compared(p)     BY <1>15, ComparedTypes
<1>16. CASE close_output(p) BY <1>16, close_outputTypes
<1> QED
  BY <1>1, <1>2, <1>3, <1>4, <1>5, <1>6, <1>7, <1>8, <1>9, <1>10, <1>11,
     <1>12, <1>13, <1>14, <1>15, <1>16 DEF Step

(* Every step keeps files and memories what they are.                      *)
THEOREM TypeInvNext ==
  TypeInv /\ [Next]_vars => TypeInv'
<1> SUFFICES ASSUME TypeInv, [Next]_vars  PROVE TypeInv'
  OBVIOUS
<1>1. TbtInv'
  BY TbtInvNext DEF TypeInv
<1>2. ASSUME NEW p \in Process, Step(p)  PROVE TypeInv'
  BY <1>1, <1>2, TypeInvStep
<1>3. ASSUME NEW p \in Process, Flush(p)  PROVE TypeInv'
  BY <1>1, <1>3, FlushTypes
<1>4. ASSUME NEW p \in Process, Killed(p)  PROVE TypeInv'
  BY <1>1, <1>4, KilledTypes
<1>5. CASE UNCHANGED vars
  BY <1>1, <1>5 DEF TypeInv, TypedFiles, Typed, Opened, Path, vars
<1> QED  BY <1>2, <1>3, <1>4, <1>5 DEF Next, Done

(* For any number of runs of tbt at once, on any files, whatever reaches a *)
(* file or is left in a buffer when a process is killed: what is in the    *)
(* files are lines of known kinds, nothing is printed that does not end,   *)
(* and get_nb_files counts no more than it reads (src/tbt.c:176), so that  *)
(* the array for the entries is of its size.                               *)
THEOREM TbtTypeCorrect ==
  Spec => []TbtTypeOK
<1>1. ASSUME TypeInv  PROVE TbtTypeOK
  <2>1. ASSUME NEW path \in DOMAIN fs, fs[path] # Null
        PROVE  \A k \in DOMAIN fs[path] : IsLine(fs[path][k])
    <3>1. fs[path] \in Seq(Lines)
      BY <1>1, <2>1 DEF TypeInv, TypedFiles, TbtInv, Disks
    <3> QED  BY <3>1, LinesAreIsLine
  <2>2. ASSUME NEW p \in Process
        PROVE  LET t == tbt[p] IN
               /\ t.pc \in {"access", "create", "close", "done", "killed"}
                             \cup IF t.command.mode = "compare"
                                    THEN {"fopen", "count", "parse", "choose", "compare"}
                                    ELSE {"stat", "readdir"}
               /\ t.OUTPUT \in {Null, t.command.output}
               /\ t.code \in {0, 1}
               /\ t.flushed \in 0 .. Len(t.out)
               /\ \A k \in DOMAIN t.out : t.out[k].end /\ IsLine(t.out[k])
               /\ t.pc = "count" => t.nb_files <= t.at
               /\ t.pc \in {"parse", "choose", "compare"} =>
                    Len(t.content) = t.nb_files + 1
    <3>1. Typed(tbt[p])
      BY <1>1 DEF TypeInv
    <3>2. \A k \in DOMAIN tbt[p].out : tbt[p].out[k].end /\ IsLine(tbt[p].out[k])
      <4>1. tbt[p].out \in Seq(Printable)
        BY <3>1 DEF Typed
      <4>2. \A k \in DOMAIN tbt[p].out : tbt[p].out[k] \in Printable
        BY <4>1
      <4> QED  BY <4>2, LinesAreIsLine DEF Printable
    <3> QED  BY <3>1, <3>2 DEF Typed, Places
  <2> QED  BY <2>1, <2>2 DEF TbtTypeOK
<1> QED  BY <1>1, TypeInvInit, TypeInvNext, PTL DEF Spec

-----------------------------------------------------------------------------
(***************************************************************************)
(* The scores of a list fall.                                              *)
(***************************************************************************)

LEMMA PrintedHaveNoScores ==
  ASSUME NEW algorithm \in DOMAIN Section, NEW name
  PROVE  /\ Falls(Printed(algorithm, name))
         /\ Printed(algorithm, name)[1].kind = "name"
<1>1. algorithm \in {"ALL", "CTPH", "SIMHASH"}
  BY DEF Section
<1> DEFINE lines == Printed(algorithm, name)
<1>2. /\ lines[1].kind = "name"
      /\ \A k \in 1 .. Len(lines) : lines[k].kind # "score"
  BY <1>1 DEF Printed, Line
<1>3. Len(lines) \in Nat
  BY <1>1 DEF Printed
<1> HIDE DEF lines
<1>4. Falls(lines)
  BY <1>2, <1>3 DEF Falls
<1> QED  BY <1>2, <1>4 DEF lines

LEMMA SetFalls ==
  ASSUME TypeInv, ResultsSorted, NEW p \in Process, NEW u, Set(p, u),
         Falls(u.out)
  PROVE  ResultsSorted'
<1>1. tbt'[p] = u /\ \A q \in Process : q # p => tbt'[q] = tbt[q]
  BY DEF Set, TypeInv, TbtInv, Memories
<1>2. \A q \in Process : Falls(tbt[q].out)
  BY DEF ResultsSorted, Falls
<1>3. \A q \in Process : Falls(tbt'[q].out)
  BY <1>1, <1>2
<1> QED  BY <1>3 DEF ResultsSorted, Falls

(* Nothing is printed.                                                     *)
LEMMA QuietFalls ==
  ASSUME TypeInv, ResultsSorted, NEW p \in Process, NEW u, Set(p, u),
         u.out = tbt[p].out
  PROVE  ResultsSorted'
<1>1. Falls(tbt[p].out)
  BY DEF ResultsSorted, Falls
<1> QED  BY <1>1, SetFalls

(* What a process prints stays while it does anything but print.           *)
LEMMA ExitPrintsNothing ==
  ASSUME TypeInv, NEW p \in Process, NEW code, Exit(p, code)
  PROVE  \E u : Set(p, u) /\ u.out = tbt[p].out
<1> DEFINE t == tbt[p]
           u == [t EXCEPT !.pc = "done", !.code = code, !.flushed = Len(t.out)]
<1>1. DOMAIN t = Field
  BY DEF TypeInv, TbtInv, Memories, IsMemory
<1>2. u.out = t.out
  BY <1>1 DEF Field
<1>3. Set(p, u)
  BY DEF Exit
<1> QED  BY <1>2, <1>3

LEMMA GotoPrintsNothing ==
  ASSUME TypeInv, NEW p \in Process, NEW pc, Goto(p, pc)
  PROVE  \E u : Set(p, u) /\ u.out = tbt[p].out
<1>1. DOMAIN tbt[p] = Field
  BY DEF TypeInv, TbtInv, Memories, IsMemory
<1>2. [tbt[p] EXCEPT !.pc = pc].out = tbt[p].out
  BY <1>1 DEF Field
<1> QED  BY <1>2 DEF Goto

LEMMA ReadPrintsNothing ==
  ASSUME NEW p \in Process, NEW t, DOMAIN t = Field, t.out = tbt[p].out,
         ReadNext(p, t)
  PROVE  \E u : Set(p, u) /\ u.out = tbt[p].out
<1>1. CASE Ends(In(p), t.at) = {}
  <2>1. [t EXCEPT !.pc = "choose"].out = t.out
    BY DEF Field
  <2> QED  BY <1>1, <2>1 DEF ReadNext
<1>2. CASE Ends(In(p), t.at) # {}
  <2>1. Read(t, In(p)).out = t.out
    BY ReadFields
  <2> QED  BY <1>2, <2>1 DEF ReadNext
<1> QED  BY <1>1, <1>2

LEMMA OpeningPrintsNothing ==
  ASSUME TypeInv, NEW p \in Process,
         Access(p) \/ Create(p) \/ Stat(p) \/ Fopen(p)
  PROVE  \E u : Set(p, u) /\ u.out = tbt[p].out
<1> DEFINE t == tbt[p]
<1>1. DOMAIN t = Field
  BY DEF TypeInv, TbtInv, Memories, IsMemory
<1>2. CASE \/ \E pc : Goto(p, pc)
           \/ \E code : Exit(p, code)
  BY <1>2, GotoPrintsNothing, ExitPrintsNothing
<1>3. CASE \E output : Set(p, [t EXCEPT !.pc = Mode(p), !.OUTPUT = output])
  <2>1. PICK output : Set(p, [t EXCEPT !.pc = Mode(p), !.OUTPUT = output])
    BY <1>3
  <2>2. [t EXCEPT !.pc = Mode(p), !.OUTPUT = output].out = t.out
    BY <1>1 DEF Field
  <2> QED  BY <2>1, <2>2
<1>4. CASE \E names : Set(p, [t EXCEPT !.pc = "readdir", !.files = names])
  <2>1. PICK names : Set(p, [t EXCEPT !.pc = "readdir", !.files = names])
    BY <1>4
  <2>2. [t EXCEPT !.pc = "readdir", !.files = names].out = t.out
    BY <1>1 DEF Field
  <2> QED  BY <2>1, <2>2
<1>5. CASE Set(p, [t EXCEPT !.pc = "close", !.code = 1])
  <2>1. [t EXCEPT !.pc = "close", !.code = 1].out = t.out
    BY <1>1 DEF Field
  <2> QED  BY <1>5, <2>1
<1>6. CASE Set(p, [t EXCEPT !.pc = "count",
                            !.settled = Settled(t.command.argument)])
  <2>1. [t EXCEPT !.pc = "count", !.settled = Settled(t.command.argument)].out = t.out
    BY <1>1 DEF Field
  <2> QED  BY <1>6, <2>1
<1>7. CASE Access(p)
  BY <1>2, <1>7 DEF Access
<1>8. CASE Create(p)
  BY <1>2, <1>3, <1>8 DEF Create
<1>9. CASE Stat(p)
  <2>1. \/ \E names : Set(p, [t EXCEPT !.pc = "readdir", !.files = names])
        \/ Set(p, [t EXCEPT !.pc = "close", !.code = 1])
        \/ Exit(p, 1)
    BY <1>9 DEF Stat
  <2> QED  BY <1>2, <1>4, <1>5, <2>1
<1>10. CASE Fopen(p)
  BY <1>2, <1>6, <1>10 DEF Fopen
<1> QED  BY <1>7, <1>8, <1>9, <1>10

LEMMA ReadingPrintsNothing ==
  ASSUME TypeInv, NEW p \in Process,
         \/ CountLine(p) \/ CountEnd(p)
         \/ ParseName(p) \/ ParseHash(p) \/ ParseNothing(p)
         \/ WrongNumber(p) \/ Choose(p)
  PROVE  \E u : Set(p, u) /\ u.out = tbt[p].out
<1> DEFINE t == tbt[p]
<1>1. DOMAIN t = Field
  BY DEF TypeInv, TbtInv, Memories, IsMemory
<1>2. CASE CountLine(p)
  <2> DEFINE v == Read(t, In(p))
             u == [v EXCEPT !.nb_files = IF IsHash(v.line) THEN @ ELSE @ + 1]
  <2>1. v.out = t.out /\ DOMAIN v = Field
    BY <1>1, ReadFields
  <2>2. Set(p, u)
    BY <1>2 DEF CountLine
  <2> HIDE DEF v
  <2>3. u.out = v.out
    BY <2>1 DEF Field
  <2> QED  BY <2>1, <2>2, <2>3
<1>3. CASE CountEnd(p)
  <2> DEFINE u(line, content) ==
        [t EXCEPT !.pc = "parse", !.at = 0, !.line = line, !.content = content]
  <2>1. PICK line, content : Set(p, u(line, content))
    BY <1>3 DEF CountEnd
  <2>2. u(line, content).out = t.out
    BY <1>1 DEF Field
  <2> QED  BY <2>1, <2>2
<1>4. CASE ParseName(p)
  <2>1. PICK name, kinds : ReadNext(p, Named(t, name, kinds))
    BY <1>4, ParseNameStores
  <2>2. DOMAIN Named(t, name, kinds) = Field /\ Named(t, name, kinds).out = t.out
    BY <1>1 DEF Named, Field
  <2> QED  BY <2>1, <2>2, ReadPrintsNothing
<1>5. CASE ParseHash(p)
  <2>1. ReadNext(p, t) \/ ReadNext(p, Hashed(t))
    BY <1>5 DEF ParseHash, Hashed
  <2>2. DOMAIN Hashed(t) = Field /\ Hashed(t).out = t.out
    BY <1>1, HashedFields
  <2> QED  BY <1>1, <2>1, <2>2, ReadPrintsNothing
<1>6. CASE ParseNothing(p)
  BY <1>1, <1>6, ReadPrintsNothing DEF ParseNothing
<1>7. CASE WrongNumber(p)
  BY <1>7, ExitPrintsNothing DEF WrongNumber
<1>8. CASE Choose(p)
  <2> DEFINE u == [t EXCEPT !.pc = "compare", !.algorithm = Chosen(t),
                            !.work = Work(Section[Chosen(t)], t.nb_files)]
  <2>1. Exit(p, 1) \/ Set(p, u)
    BY <1>8 DEF Choose
  <2>2. u.out = t.out
    BY <1>1 DEF Field
  <2> QED  BY <2>1, <2>2, ExitPrintsNothing
<1> QED  BY <1>2, <1>3, <1>4, <1>5, <1>6, <1>7, <1>8

LEMMA FlushPrintsNothing ==
  ASSUME TypeInv, NEW p \in Process, Flush(p)
  PROVE  \E u : Set(p, u) /\ u.out = tbt[p].out
<1>1. PICK n : Set(p, [tbt[p] EXCEPT !.flushed = @ + n])
  BY DEF Flush
<1>2. DOMAIN tbt[p] = Field
  BY DEF TypeInv, TbtInv, Memories, IsMemory
<1>3. [tbt[p] EXCEPT !.flushed = @ + n].out = tbt[p].out
  BY <1>2 DEF Field
<1> QED  BY <1>1, <1>3

(* The lines of an executable are appended, which are no scores.           *)
LEMMA TreatFalls ==
  ASSUME TypeInv, ResultsSorted, NEW p \in Process, treat_dir(p)
  PROVE  ResultsSorted'
<1> DEFINE t == tbt[p]
<1>1. Typed(t) /\ DOMAIN t = Field
  BY DEF TypeInv, TbtInv, Memories, IsMemory
<1>2. CASE Goto(p, "close")
  BY <1>2, GotoPrintsNothing, QuietFalls
<1>3. ASSUME NEW name \in t.files, treat_file(p, name)  PROVE ResultsSorted'
  <2> DEFINE u == [t EXCEPT !.files = @ \ {name},
                            !.out = IF Sample[name].elf
                                      THEN @ \o Printed(t.algorithm, name)
                                      ELSE @]
             lines == Printed(t.algorithm, name)
  <2>1. u.out = IF Sample[name].elf THEN t.out \o lines ELSE t.out
    BY <1>1 DEF Field
  <2>2. Set(p, u)
    BY <1>3 DEF treat_file
  <2> HIDE DEF u
  <2>3. CASE Sample[name].elf
    <3>1. t.out \in Seq(Printable) /\ Falls(t.out)
      BY <1>1 DEF Typed, ResultsSorted, Falls
    <3>2. lines \in Seq(Printable)
      BY <1>1, <2>3, PrintedType DEF Typed, Names
    <3>3. Falls(lines) /\ lines[1].kind # "score"
      BY <1>1, PrintedHaveNoScores DEF Typed
    <3> HIDE DEF lines
    <3>4. Falls(t.out \o lines)
      BY <3>1, <3>2, <3>3, FallsJoined
    <3> QED  BY <2>1, <2>2, <2>3, <3>4, SetFalls
  <2>4. CASE ~Sample[name].elf
    BY <2>1, <2>2, <2>4, QuietFalls
  <2> QED  BY <2>3, <2>4
<1> QED  BY <1>2, <1>3 DEF treat_dir

LEMMA HeadingFalls ==
  ASSUME TypeInv, ResultsSorted, NEW p \in Process, Heading(p)
  PROVE  ResultsSorted'
<1> DEFINE t == tbt[p]
           line == Line("head", Head(t.work)[1])
           u == [t EXCEPT !.work = Tail(@), !.out = Append(@, line)]
<1>1. /\ Typed(t) /\ DOMAIN t = Field /\ t.pc = "compare" /\ t.work # <<>>
      /\ Set(p, u)
  BY DEF TypeInv, TbtInv, Memories, IsMemory, Heading
<1>2. t.out \in Seq(Printable) /\ t.work \in WorkOf(t.nb_files) /\ Falls(t.out)
  BY <1>1 DEF Typed, ResultsSorted, Falls
<1>3. Head(t.work)[1] \in {"ctph", "simhash"}
  BY <1>1, <1>2 DEF WorkOf
<1>4. line \in Printable /\ line.kind = "head"
  <2>1. line \in Printable
    BY <1>3, LineIsPrintable, TextsOfKinds DEF Kinds
  <2> QED  BY <2>1 DEF Line
<1> HIDE DEF line
<1>5. u.out = Append(t.out, line)
  BY <1>1 DEF Field
<1>6. /\ Append(t.out, line) = t.out \o <<line>> /\ <<line>> \in Seq(Printable)
      /\ <<line>>[1] = line /\ Falls(<<line>>)
  <2>1. \A out \in Seq(Printable) : Append(out, line) = out \o <<line>>
    BY <1>4, AppendIsConcat
  <2>2. Falls(<<line>>)
    BY <1>4, OneFalls
  <2> QED  BY <1>2, <1>4, <2>1, <2>2
<1>7. Falls(t.out \o <<line>>)
  BY <1>2, <1>4, <1>6, FallsJoined
<1> HIDE DEF u
<1> QED  BY <1>1, <1>5, <1>6, <1>7, SetFalls

LEMMA CompareNextFalls ==
  ASSUME TypeInv, ResultsSorted, NEW p \in Process, CompareNext(p)
  PROVE  ResultsSorted'
<1>1. PICK list \in Seq(Printable) :
        /\ list # <<>> /\ list[1].kind = "of" /\ Falls(list)
        /\ Set(p, [tbt[p] EXCEPT !.work = Tail(@), !.out = tbt[p].out \o list])
  BY CompareNextLists
<1>2. DOMAIN tbt[p] = Field /\ tbt[p].out \in Seq(Printable) /\ Falls(tbt[p].out)
  BY DEF TypeInv, TbtInv, Memories, IsMemory, Typed, ResultsSorted, Falls
<1>3. Falls(tbt[p].out \o list)
  BY <1>1, <1>2, FallsJoined
<1>4. [tbt[p] EXCEPT !.work = Tail(@), !.out = tbt[p].out \o list].out
        = tbt[p].out \o list
  BY <1>2 DEF Field
<1> QED  BY <1>1, <1>3, <1>4, SetFalls

(* For any number of runs, any hash files and any scores, each list falls: *)
(* although the order handed to qsort cuts the difference of two           *)
(* percentages to an int (src/tbt.c:87), no difference is cut to 0, as a   *)
(* bit of a hash of at most 25 bytes is worth a percent or more.           *)
THEOREM ListsFall ==
  Spec => []ResultsSorted
<1>1. Init => ResultsSorted
  <2> SUFFICES ASSUME Init  PROVE ResultsSorted
    OBVIOUS
  <2>1. \A p \in Process : tbt[p].out = <<>>
    BY DEF Init, Begin
  <2> QED  BY <2>1 DEF ResultsSorted
<1>2. TypeInv /\ ResultsSorted /\ [Next]_vars => ResultsSorted'
  <2> SUFFICES ASSUME TypeInv, ResultsSorted, [Next]_vars  PROVE ResultsSorted'
    OBVIOUS
  <2>1. ASSUME NEW p \in Process, \E u : Set(p, u) /\ u.out = tbt[p].out
        PROVE  ResultsSorted'
    BY <2>1, QuietFalls
  <2>2. ASSUME NEW p \in Process, Step(p)  PROVE ResultsSorted'
    <3>1. CASE Access(p) \/ Create(p) \/ Stat(p) \/ Fopen(p)
      BY <2>1, <3>1, OpeningPrintsNothing
    <3>2. CASE \/ CountLine(p) \/ CountEnd(p)
               \/ ParseName(p) \/ ParseHash(p) \/ ParseNothing(p)
               \/ WrongNumber(p) \/ Choose(p)
      BY <2>1, <3>2, ReadingPrintsNothing
    <3>3. CASE Compared(p)
      BY <2>1, <3>3, GotoPrintsNothing DEF Compared
    <3>4. CASE close_output(p)
      BY <2>1, <3>4, ExitPrintsNothing DEF close_output
    <3>5. CASE treat_dir(p)
      BY <3>5, TreatFalls
    <3>6. CASE Heading(p)
      BY <3>6, HeadingFalls
    <3>7. CASE CompareNext(p)
      BY <3>7, CompareNextFalls
    <3> QED  BY <2>2, <3>1, <3>2, <3>3, <3>4, <3>5, <3>6, <3>7 DEF Step
  <2>3. ASSUME NEW p \in Process, Flush(p)  PROVE ResultsSorted'
    BY <2>1, <2>3, FlushPrintsNothing
  <2>4. ASSUME NEW p \in Process, Killed(p)  PROVE ResultsSorted'
    BY <2>1, <2>4, GotoPrintsNothing DEF Killed
  <2>5. CASE UNCHANGED vars
    BY <2>5 DEF ResultsSorted, vars
  <2> QED  BY <2>2, <2>3, <2>4, <2>5 DEF Next, Done
<1> QED  BY <1>1, <1>2, TypeInvInit, TypeInvNext, PTL DEF Spec

=============================================================================
