--------------------------------- MODULE Tbt --------------------------------
(***************************************************************************)
(* The program tbt of src/tbt.c, run by several processes that share a     *)
(* file system: it writes the hashes of executables to a hash file, or     *)
(* reads a hash file and lists how alike its entries are.                  *)
(*                                                                         *)
(* A file is a sequence of lines.  A line is its kind, "name", "ctph" or   *)
(* "simhash" in a hash file, "head", "of" or "score" in a list, with its   *)
(* text, and end says that its newline is there: stdio writes as many      *)
(* characters as it likes, and a process may be killed.  Every line takes  *)
(* one place, so that what two processes write to one file overlaps line   *)
(* by line, and a place written by neither is a hole of zeros.             *)
(*                                                                         *)
(* The hashes of an executable are those Ctph and SimHash compute, a       *)
(* constant here, and the scores of two CTPH hashes those of CtphCompare.  *)
(***************************************************************************)
EXTENDS SimHashCompare, Integers, SequencesExt, TLC

CONSTANTS
  Process,
  Runs,          (* process -> its options: [mode, algorithm, argument,    *)
                 (* output], the ways the processes may be called.         *)
  Disk,          (* path -> the file in the beginning, Null without one.   *)
  Directory,     (* path of a directory -> the names of its files.         *)
  Sample,        (* name of a file -> [elf, ctph, simhash].                *)
  Bytes,         (* text of a SimHash -> the bytes its digits spell.       *)
  CtphScore,     (* <<text, text>> of CTPH hashes -> the score of them.    *)
  Scores,        (* section -> what the comparison of garbage may give.    *)
  Unset,         (* What is in memory that has not been written.           *)
  Scrap,         (* A piece of a line read before, taken for a hash.       *)
  Null

(* The text printed for a hash that is NULL.                               *)
NullText == "(null)"

ASSUME TbtAssumption ==
  /\ Null \notin DOMAIN Disk
  /\ Unset \notin DOMAIN Sample
  /\ Scrap \notin (DOMAIN Bytes) \cup {Unset, NullText}
  /\ \A n \in DOMAIN Sample :
       Sample[n].elf => Sample[n].simhash \in DOMAIN Bytes /\ Sample[n].ctph # Scrap
  /\ \A text \in DOMAIN Bytes \ {NullText} : Bytes[text] \in SimHashArray

VARIABLES
  fs,            (* path -> its file, Null when there is none.             *)
  tbt            (* process -> its memory, see Begin.                      *)

vars == <<fs, tbt>>

-----------------------------------------------------------------------------
(***************************************************************************)
(* Files and the buffer of OUTPUT.                                         *)
(***************************************************************************)

Line(kind, text) == [kind |-> kind, text |-> text, end |-> TRUE]

Hole == [kind |-> "hole", text |-> Null, end |-> FALSE]

Cut(line) == [line EXCEPT !.end = FALSE]

(* The file after lines have been written to it behind its first at lines. *)
Write(f, at, lines) ==
  [k \in 1 .. Max({Len(f), at + Len(lines)}) |->
     IF k > at /\ k <= at + Len(lines) THEN lines[k - at]
     ELSE IF k <= Len(f) THEN f[k]
     ELSE Hole]

Pending(t) == SubSeq(t.out, t.flushed + 1, Len(t.out))

Ended(p) == tbt[p].pc \in {"done", "killed"}

(* The lines of f that end, behind the first at.                           *)
Ends(f, at) == {q \in at + 1 .. Len(f) : f[q].end}

(* What fgets puts into line_buf: a line that begins with what is there,   *)
(* and is garbled when it runs on into the next or over zeros.             *)
Fgets(f, at) ==
  LET q == IF Ends(f, at) = {} THEN Len(f) ELSE Min(Ends(f, at))
  IN IF q = at + 1 THEN f[q] ELSE [f[at + 1] EXCEPT !.text = Unset]

(* t after fgets has read a line that ends.                                *)
Read(t, f) == [t EXCEPT !.line = Fgets(f, t.at), !.at = Min(Ends(f, t.at))]

-----------------------------------------------------------------------------

(* The memory of a process at the beginning of main, after its options.    *)
Begin(command) ==
  [command |-> command,
   OUTPUT  |-> Null,               (* stdout, which nobody reads back.     *)
   pc      |-> "access",
   code    |-> 0,                  (* return_code                          *)
   algorithm |-> command.algorithm,  (* chosen_algorithm                   *)
   out     |-> <<>>,               (* What was printed to OUTPUT,          *)
   flushed |-> 0,                  (* of which these lines are written.    *)
   files   |-> {},                 (* What readdir has still to return.    *)
   at      |-> 0,                  (* The lines read from the hash file.   *)
   line    |-> Hole,               (* line_buf                             *)
   nb_files |-> 0,
   file_count |-> 0,
   content |-> <<>>,               (* file_content and one entry behind.   *)
   present |-> {},                 (* ctph_present, simhash_present        *)
   work    |-> <<>>,               (* The loops of comparision: what is    *)
                                   (* left to do.                          *)
   settled |-> FALSE]              (* For the properties: see Settled.     *)

Init ==
  /\ fs = Disk
  /\ \E run \in Runs : tbt = [p \in Process |-> Begin(run[p])]

Set(p, t) == tbt' = [tbt EXCEPT ![p] = t]

Goto(p, pc) == Set(p, [tbt[p] EXCEPT !.pc = pc])

(* The process exits, through errx or main's return: OUTPUT is flushed.    *)
Exit(p, code) ==
  /\ Set(p, [tbt[p] EXCEPT !.pc = "done", !.code = code,
                           !.flushed = Len(tbt[p].out)])
  /\ IF tbt[p].OUTPUT = Null \/ Pending(tbt[p]) = <<>>
       THEN UNCHANGED fs
       ELSE fs' = [fs EXCEPT ![tbt[p].OUTPUT] =
                     Write(@, tbt[p].flushed, Pending(tbt[p]))]

(* What of the buffer stdio may write: up to the end, or the middle, of    *)
(* some line.                                                              *)
Starts(lines) ==
  UNION {{SubSeq(lines, 1, n), Append(SubSeq(lines, 1, n - 1), Cut(lines[n]))} :
           n \in 1 .. Len(lines)}

Flush(p) ==
  /\ ~Ended(p)
  /\ tbt[p].OUTPUT # Null
  /\ \E lines \in Starts(Pending(tbt[p])) :
       /\ fs' = [fs EXCEPT ![tbt[p].OUTPUT] = Write(@, tbt[p].flushed, lines)]
       /\ Set(p, [tbt[p] EXCEPT
                    !.flushed = @ + Cardinality({k \in DOMAIN lines : lines[k].end})])

(* The process is killed, and its buffer lost.                             *)
Killed(p) ==
  /\ ~Ended(p)
  /\ Goto(p, "killed")
  /\ UNCHANGED fs

-----------------------------------------------------------------------------
(***************************************************************************)
(* main: the output file is opened before anything else is looked at.      *)
(***************************************************************************)

(* Mutant: the condition is turned round.                                  *)
ModeSwapped(p) == IF tbt[p].command.mode = "compare" THEN "stat" ELSE "fopen"

Mode(p) == IF tbt[p].command.mode = "compare" THEN "fopen" ELSE "stat"

(* Mutant: an output file that exists is written over.                     *)
AccessForgotten(p) ==
  /\ tbt[p].pc = "access"
  /\ Goto(p, IF tbt[p].command.output = Null THEN Mode(p) ELSE "create")
  /\ UNCHANGED fs

Access(p) ==
  /\ tbt[p].pc = "access"
  /\ \/ /\ tbt[p].command.output = Null
        /\ Goto(p, Mode(p))
        /\ UNCHANGED fs
     \/ /\ tbt[p].command.output # Null
        /\ fs[tbt[p].command.output] = Null
        /\ Goto(p, "create")
        /\ UNCHANGED fs
     \/ /\ tbt[p].command.output # Null
        /\ fs[tbt[p].command.output] # Null
        /\ Exit(p, 1)

(* fopen(outputoption, "w") creates the file or empties it.                *)
Create(p) ==
  /\ tbt[p].pc = "create"
  /\ \/ LET output == tbt[p].command.output IN
          /\ fs' = [fs EXCEPT ![output] = <<>>]
          /\ Set(p, [tbt[p] EXCEPT !.pc = Mode(p), !.OUTPUT = output])
     \/ Exit(p, 1)

Stat(p) ==
  /\ tbt[p].pc = "stat"
  /\ LET argument == tbt[p].command.argument IN
       \/ /\ argument \in DOMAIN Directory
          /\ Set(p, [tbt[p] EXCEPT !.pc = "readdir",
                                   !.files = Directory[argument]])
          /\ UNCHANGED fs
       \/ /\ argument \in DOMAIN Directory     (* opendir fails.           *)
          /\ Set(p, [tbt[p] EXCEPT !.pc = "close", !.code = 1])
          /\ UNCHANGED fs
       \/ /\ argument \in DOMAIN Sample \ DOMAIN Directory
          /\ Sample[argument].elf
          /\ Set(p, [tbt[p] EXCEPT !.pc = "readdir", !.files = {argument}])
          /\ UNCHANGED fs
       \/ /\ argument \notin DOMAIN Directory
          /\ argument \in DOMAIN Sample => ~Sample[argument].elf
          /\ Exit(p, 1)

(* The lines treat_file prints for a file.                                 *)
Printed(algorithm, name) ==
  LET ctph    == Line("ctph", Sample[name].ctph)
      simhash == Line("simhash", Sample[name].simhash)
  IN CASE algorithm = "ALL"     -> <<Line("name", name), ctph, simhash>>
       [] algorithm = "CTPH"    -> <<Line("name", name), ctph>>
       [] algorithm = "SIMHASH" -> <<Line("name", name), simhash>>

(* Mutant: a file that is no executable ends the directory.                *)
TreatFileOrStop(p, name) ==
  Set(p, IF Sample[name].elf
           THEN [tbt[p] EXCEPT !.files = @ \ {name},
                               !.out = @ \o Printed(tbt[p].algorithm, name)]
           ELSE [tbt[p] EXCEPT !.files = {}])

(* A file that is no executable is passed over.                            *)
treat_file(p, name) ==
  Set(p, [tbt[p] EXCEPT
            !.files = @ \ {name},
            !.out = IF Sample[name].elf
                      THEN @ \o Printed(tbt[p].algorithm, name)
                      ELSE @])

(* The directory is read in any order.                                     *)
treat_dir(p) ==
  /\ tbt[p].pc = "readdir"
  /\ \/ \E name \in tbt[p].files : treat_file(p, name)
     \/ tbt[p].files = {} /\ Goto(p, "close")
  /\ UNCHANGED fs

close_output(p) ==
  /\ tbt[p].pc = "close"
  /\ Exit(p, tbt[p].code)

-----------------------------------------------------------------------------
(***************************************************************************)
(* The comparison: the hash file is read twice, by get_nb_files to count   *)
(* its entries and by get_file_content to take them.                       *)
(***************************************************************************)

In(p) == fs[tbt[p].command.argument]

IsHash(line) == line.kind \in {"ctph", "simhash"}

(* Nobody writes the file at path, or is about to.                         *)
Settled(path) ==
  \A q \in Process :
    \/ Ended(q)
    \/ /\ tbt[q].OUTPUT # path
       /\ tbt[q].pc = "create" => tbt[q].command.output # path

Fopen(p) ==
  /\ tbt[p].pc = "fopen"
  /\ \/ In(p) = Null /\ Exit(p, 1)
     \/ /\ In(p) # Null
        /\ Set(p, [tbt[p] EXCEPT !.pc = "count",
                                 !.settled = Settled(tbt[p].command.argument)])
        /\ UNCHANGED fs

(* Mutant: every line is counted.                                          *)
CountEveryLine(p) ==
  /\ tbt[p].pc = "count"
  /\ Ends(In(p), tbt[p].at) # {}
  /\ LET t == Read(tbt[p], In(p)) IN Set(p, [t EXCEPT !.nb_files = @ + 1])
  /\ UNCHANGED fs

(* A line that does not begin with a tab is counted as a name.             *)
CountLine(p) ==
  /\ tbt[p].pc = "count"
  /\ Ends(In(p), tbt[p].at) # {}
  /\ LET t == Read(tbt[p], In(p))
     IN Set(p, [t EXCEPT !.nb_files = IF IsHash(t.line) THEN @ ELSE @ + 1])
  /\ UNCHANGED fs

NoEntry == [name |-> Unset, ctph |-> Unset, simhash |-> Unset]

(* The characters behind the last newline are read and not counted.  The   *)
(* line_buf of get_file_content begins as whatever the stack held.  It is  *)
(* taken to lie where that of get_nb_files lay, as it does when both are   *)
(* inlined by -O2 of the Makefile: the line read last is still there.      *)
CountEnd(p) ==
  /\ tbt[p].pc = "count"
  /\ Ends(In(p), tbt[p].at) = {}
  /\ \E line \in IF Len(In(p)) > tbt[p].at THEN {Cut(Fgets(In(p), tbt[p].at))}
                 ELSE IF tbt[p].at > 0 THEN {tbt[p].line}
                 ELSE {Hole, Cut(Line("name", Unset))} :
       Set(p, [tbt[p] EXCEPT !.pc = "parse", !.at = 0, !.line = line,
                             !.content = [k \in 1 .. tbt[p].nb_files + 1 |-> NoEntry]])
  /\ UNCHANGED fs

(* Mutant: fgets is not called again.                                      *)
ReadAgain(p, t) ==
  /\ Set(p, IF Ends(In(p), t.at) = {} THEN [t EXCEPT !.pc = "choose"] ELSE t)
  /\ UNCHANGED fs

(* The next line is read, or feof ends the loop.                           *)
ReadNext(p, t) ==
  /\ Set(p, IF Ends(In(p), t.at) = {} THEN [t EXCEPT !.pc = "choose"]
            ELSE Read(t, In(p)))
  /\ UNCHANGED fs

(* Mutant: the number of entries is not checked.                           *)
ParsingUnchecked(p) == tbt[p].pc = "parse"

(* The loop of get_file_content goes on: the line in line_buf is parsed.   *)
Parsing(p) == tbt[p].pc = "parse" /\ tbt[p].file_count <= tbt[p].nb_files

WrongNumber(p) ==
  /\ tbt[p].pc = "parse"
  /\ tbt[p].file_count > tbt[p].nb_files
  /\ Exit(p, 1)

(* A name begins an entry.  Of a line without a newline behind the colon   *)
(* the parser drops the last character, the colon or one of the name, and  *)
(* goes on beyond the 0: a 1 or 2 in what is there of older lines makes    *)
(* the rest a hash of the entry.                                           *)
ParseName(p) ==
  /\ Parsing(p)
  /\ tbt[p].line.kind = "name"
  /\ LET text   == tbt[p].line.text
         k      == tbt[p].file_count + 1
         beyond == ~tbt[p].line.end \/ text = Unset
     IN \E name \in {text} \cup (IF beyond THEN {Unset} ELSE {}),
           kinds \in SUBSET (IF beyond THEN {"ctph", "simhash"} ELSE {}) :
          ReadNext(p, [tbt[p] EXCEPT
            !.file_count = k,
            !.content[k] =
               [name    |-> name,
                ctph    |-> IF "ctph" \in kinds THEN Scrap ELSE @.ctph,
                simhash |-> IF "simhash" \in kinds THEN Scrap ELSE @.simhash],
            !.present = @ \cup kinds])

(* Mutant: a hash goes to the entry that comes next.                       *)
ParseHashAhead(p) ==
  /\ Parsing(p)
  /\ IsHash(tbt[p].line)
  /\ LET kind == tbt[p].line.kind IN
       ReadNext(p, IF tbt[p].file_count = 0 THEN tbt[p]
                   ELSE [tbt[p] EXCEPT
                     !.content[tbt[p].file_count + 1][kind] = tbt[p].line.text,
                     !.present = @ \cup {kind}])

(* A hash belongs to the entry begun last, and to none before the first,   *)
(* however far the parser then goes beyond a line cut off behind its tab.  *)
ParseHash(p) ==
  /\ Parsing(p)
  /\ IsHash(tbt[p].line)
  /\ LET kind == tbt[p].line.kind IN
       ReadNext(p, IF tbt[p].file_count = 0 THEN tbt[p]
                   ELSE [tbt[p] EXCEPT
                     !.content[tbt[p].file_count][kind] = tbt[p].line.text,
                     !.present = @ \cup {kind}])

(* A line that begins with 0 holds nothing.                                *)
ParseNothing(p) ==
  /\ Parsing(p)
  /\ tbt[p].line.kind = "hole"
  /\ ReadNext(p, tbt[p])

-----------------------------------------------------------------------------
(***************************************************************************)
(* comparision                                                             *)
(***************************************************************************)

Section == [ALL |-> <<"ctph", "simhash">>, CTPH |-> <<"ctph">>,
            SIMHASH |-> <<"simhash">>]

(* The algorithm asked for, or the only one there are hashes of.           *)
Chosen(t) ==
  IF t.algorithm = "ALL" /\ t.present = {"ctph"} THEN "CTPH"
  ELSE IF t.algorithm = "ALL" /\ t.present = {"simhash"} THEN "SIMHASH"
  ELSE t.algorithm

(* A section is its heading and the list of every entry.                   *)
Work(sections, nb_files) ==
  LET lists(section) == [k \in 1 .. nb_files + 1 |-> <<section, k - 1>>]
  IN IF Len(sections) = 2 THEN lists(sections[1]) \o lists(sections[2])
     ELSE lists(sections[1])

Choose(p) ==
  /\ tbt[p].pc = "choose"
  /\ \/ /\ \/ tbt[p].algorithm = "CTPH" /\ "ctph" \notin tbt[p].present
           \/ tbt[p].algorithm = "SIMHASH" /\ "simhash" \notin tbt[p].present
        /\ Exit(p, 1)
     \/ /\ tbt[p].algorithm = "CTPH" => "ctph" \in tbt[p].present
        /\ tbt[p].algorithm = "SIMHASH" => "simhash" \in tbt[p].present
        /\ Set(p, [tbt[p] EXCEPT
                     !.pc = "compare",
                     !.algorithm = Chosen(tbt[p]),
                     !.work = Work(Section[Chosen(tbt[p])], tbt[p].nb_files)])
        /\ UNCHANGED fs

(* Mutant: the percentages are fractions of 1.                             *)
CompareFractions(res_1, res_2) ==
  IF res_2 >= res_1 THEN (res_2 - res_1) \div (100 * Percent)
  ELSE - ((res_1 - res_2) \div (100 * Percent))

(* The difference of two percentages is cut to an int.                     *)
compare_result(res_1, res_2) ==
  IF res_2 >= res_1 THEN (res_2 - res_1) \div Percent
  ELSE - ((res_1 - res_2) \div Percent)

(* Two texts with a score that simhash_compare may give them.              *)
SimHashScores ==
  UNION {{<<text_1, text_2, score>> :
            score \in simhash_compare(Bytes[text_1], Bytes[text_2])} :
           text_1 \in DOMAIN Bytes, text_2 \in DOMAIN Bytes}

(* What the comparison of two texts may give.                              *)
Likeness(section, text_1, text_2) ==
  IF {Unset, Scrap} \cap {text_1, text_2} # {} THEN Scores[section]
  ELSE IF section = "simhash" THEN
    {r[3] : r \in {s \in SimHashScores : s[1] = text_1 /\ s[2] = text_2}}
  ELSE IF NullText \in {text_1, text_2} THEN {- Percent}
  ELSE {Percent * CtphScore[<<text_1, text_2>>]}

Percentages(t, section, i) ==
  LET likeness == [j \in 1 .. t.nb_files |->
                     Likeness(section, t.content[i][section],
                                       t.content[j][section])]
  IN {percentage \in [1 .. t.nb_files -> UNION Range(likeness)] :
        \A j \in 1 .. t.nb_files : percentage[j] \in likeness[j]}

(* The orders a merge sort may leave: each element was compared with the   *)
(* one behind it.                                                          *)
Sorted(percentage) ==
  {order \in SetToSeqs(DOMAIN percentage) :
     \A k \in 1 .. Len(order) - 1 :
       compare_result(percentage[order[k]], percentage[order[k + 1]]) <= 0}

Score(t, section, i, j, percentage) ==
  Line("score", [section |-> section, of |-> t.content[i].name,
                 name |-> t.content[j].name, percentage |-> percentage])

(* Entries of the same name and those nothing like it are left out.        *)
List(t, section, i, percentage, order) ==
  LET shown(j) == t.content[j].name # t.content[i].name /\ percentage[j] # 0
      lines[k \in 0 .. Len(order)] ==
        IF k = 0 THEN <<Line("of", t.content[i].name)>>
        ELSE IF shown(order[k])
          THEN Append(lines[k - 1],
                      Score(t, section, i, order[k], percentage[order[k]]))
        ELSE lines[k - 1]
  IN lines[Len(order)]

Heading(p) ==
  /\ tbt[p].pc = "compare"
  /\ tbt[p].work # <<>>
  /\ Head(tbt[p].work)[2] = 0
  /\ Set(p, [tbt[p] EXCEPT !.work = Tail(@),
                           !.out = Append(@, Line("head", Head(tbt[p].work)[1]))])
  /\ UNCHANGED fs

CompareNext(p) ==
  /\ tbt[p].pc = "compare"
  /\ tbt[p].work # <<>>
  /\ \E section \in {Head(tbt[p].work)[1]}, i \in {Head(tbt[p].work)[2]} :
       /\ i # 0
       /\ \E percentage \in Percentages(tbt[p], section, i) :
            \E order \in Sorted(percentage) :
              Set(p, [tbt[p] EXCEPT
                        !.work = Tail(@),
                        !.out = @ \o List(tbt[p], section, i, percentage, order)])
  /\ UNCHANGED fs

Compared(p) ==
  /\ tbt[p].pc = "compare"
  /\ tbt[p].work = <<>>
  /\ Goto(p, "close")
  /\ UNCHANGED fs

-----------------------------------------------------------------------------

Step(p) ==
  \/ Access(p)  \/ Create(p)    \/ Stat(p)         \/ treat_dir(p)
  \/ Fopen(p)   \/ CountLine(p) \/ CountEnd(p)     \/ WrongNumber(p)
  \/ ParseName(p) \/ ParseHash(p) \/ ParseNothing(p) \/ Choose(p)
  \/ Heading(p) \/ CompareNext(p) \/ Compared(p)   \/ close_output(p)

Done == (\A p \in Process : Ended(p)) /\ UNCHANGED vars

Next == (\E p \in Process : Step(p) \/ Flush(p) \/ Killed(p)) \/ Done

Spec == Init /\ [][Next]_vars

(* Every process goes on; nothing makes stdio write early, and nothing     *)
(* kills a process.                                                        *)
FairSpec == Spec /\ \A p \in Process : WF_vars(Step(p))

-----------------------------------------------------------------------------
(***************************************************************************)
(* Properties                                                              *)
(***************************************************************************)

Path == DOMAIN Disk

Names == {n \in DOMAIN Sample : Sample[n].elf}

(* The texts a line of some kind may have.                                 *)
Texts(kind) ==
  CASE kind = "hole"            -> {Null}
    [] kind = "head"            -> {"ctph", "simhash"}
    [] kind \in {"name", "of"}  -> Names \cup {Unset}
    [] kind = "ctph"            -> {Sample[n].ctph : n \in Names} \cup {Unset}
    [] kind = "simhash"         -> DOMAIN Bytes \cup {Unset}
    [] kind = "score"           ->
         [section : {"ctph", "simhash"}, of : Names \cup {Unset},
          name : Names \cup {Unset}, percentage : Int]

IsLine(line) ==
  /\ line = [kind |-> line.kind, text |-> line.text, end |-> line.end]
  /\ line.kind \in {"hole", "head", "name", "of", "ctph", "simhash", "score"}
  /\ line.text \in Texts(line.kind)
  /\ line.end \in BOOLEAN

(* Line k of f is a hash of the entry that line q begins.                  *)
Under(f, q, k) ==
  /\ q < k
  /\ f[q].kind = "name"
  /\ \A r \in q + 1 .. k : IsHash(f[r])

(* f is what a run may leave of a hash file: only the last line may be cut *)
(* off, a hash follows every name, and every hash is that of the name it   *)
(* stands under.                                                           *)
IsHashFile(f) ==
  /\ \A k \in 1 .. Len(f) - 1 : f[k].end
  /\ \A k \in 1 .. Len(f) :
       /\ f[k].kind # "hole"
       /\ f[k].kind = "name" =>
            f[k].text \in Names /\ (k < Len(f) => IsHash(f[k + 1]))
  /\ \A k \in 1 .. Len(f) : IsHash(f[k]) =>
       \E q \in 1 .. k - 1 : /\ Under(f, q, k)
                            /\ f[k].text = Sample[f[q].text][f[k].kind]

(* f names each executable once.                                           *)
NamesDiffer(f) ==
  \A j, k \in 1 .. Len(f) : f[j].kind = "name" /\ f[k].kind = "name" =>
    f[j].text \in Names /\ (f[j].text = f[k].text => j = k)

(* The calls are as the options allow them, the files that were there are  *)
(* hash files, and the scores are ones that the comparisons compute, also  *)
(* from what was in memory.  The difference of two percentages that the    *)
(* bits of a hash can give is 1 or more when there are at most 200; a bit  *)
(* is worth a whole number of the steps in which they are counted.         *)
ASSUME InputAssumption ==
  /\ \A run \in Runs : \A p \in Process :
       /\ run[p].mode \in {"hash", "compare"}
       /\ run[p].algorithm \in DOMAIN Section
       /\ run[p].output \in Path \cup {Null}
       /\ run[p].mode = "compare" => run[p].argument \in Path
  /\ \A name \in DOMAIN Directory : Directory[name] \subseteq DOMAIN Sample
  /\ \A path \in Path : Disk[path] # Null =>
       /\ Disk[path] \in Seq(Range(Disk[path]))
       /\ \A k \in 1 .. Len(Disk[path]) : IsLine(Disk[path][k])
       /\ IsHashFile(Disk[path]) /\ NamesDiffer(Disk[path])
  /\ \A n, m \in Names :
       NullText \notin {Sample[n].ctph, Sample[m].ctph} =>
         CtphScore[<<Sample[n].ctph, Sample[m].ctph>>] \in -1 .. 100
  /\ Scores["ctph"] \subseteq {Percent * score : score \in -1 .. 100}
  /\ Scores["simhash"] \subseteq
       {Rescaled(distance) : distance \in 0 .. 8 * SIM_HASH_SIZE}
  /\ SIM_HASH_SIZE <= 25
  /\ (100 * Percent) % (8 * SIM_HASH_SIZE) = 0

(* Files are lines, and every process is at a place of its own mode, with  *)
(* no more written than printed and no more counted than read.             *)
TbtTypeOK ==
  /\ \A path \in DOMAIN fs :
       fs[path] # Null => \A k \in DOMAIN fs[path] : IsLine(fs[path][k])
  /\ \A p \in Process : LET t == tbt[p] IN
       /\ t.pc \in {"access", "create", "close", "done", "killed"}
                     \cup IF t.command.mode = "compare"
                            THEN {"fopen", "count", "parse", "choose", "compare"}
                            ELSE {"stat", "readdir"}
       /\ t.OUTPUT \in {Null, t.command.output}
       /\ t.code \in {0, 1}
       /\ t.flushed \in 0 .. Len(t.out)
       /\ \A k \in DOMAIN t.out : t.out[k].end /\ IsLine(t.out[k])
       /\ t.pc = "count" => t.nb_files <= t.at
       /\ t.pc \in {"parse", "choose", "compare"} =>
            Len(t.content) = t.nb_files + 1

(* The processes that have opened the file at path to write it.            *)
Writers(path) == {q \in Process : tbt[q].OUTPUT = path}

OneWriter(path) == \A q, r \in Writers(path) : q = r

(* The files a call with argument hashes.                                  *)
Executables(argument) ==
  {n \in IF argument \in DOMAIN Directory THEN Directory[argument]
         ELSE {argument} : Sample[n].elf}

(* The reader p began when the hash file was what q, alone, had completed. *)
ReadsWhatWrote(p, q) ==
  LET t == tbt[p] IN
    /\ t.command.mode = "compare"
    /\ t.settled
    /\ tbt[q].command.mode = "hash"
    /\ Writers(t.command.argument) = {q}
    /\ tbt[q].pc = "done"
    /\ tbt[q].code = 0

(* What tbt has written it reads back, although two functions decide what  *)
(* an entry is, feof ends the loops a round late and a line left over from *)
(* counting is parsed first (src/tbt.c:176, 217 and 226): a comparison of  *)
(* a file that one run has completed has exactly one entry for every       *)
(* executable, with its hashes, and never a wrong number of entries.       *)
HashThenCompare ==
  \A p, q \in Process :
    ReadsWhatWrote(p, q) =>
      LET t       == tbt[p]
          written == Executables(tbt[q].command.argument)
          stored(section, n) ==
            IF section \in Range(Section[tbt[q].command.algorithm])
              THEN Sample[n][section] ELSE Unset
      IN /\ t.pc = "parse" => t.file_count <= t.nb_files
         /\ t.pc \in {"choose", "compare", "close"} =>
              /\ t.nb_files = Cardinality(written)
              /\ {t.content[k] : k \in 1 .. t.nb_files} =
                   {[name |-> n, ctph |-> stored("ctph", n),
                     simhash |-> stored("simhash", n)] : n \in written}

(* Whenever the reader comes, before the writer has ended or after it was  *)
(* killed, no entry has the hash of another file, although lines are       *)
(* shifted by one entry then (src/tbt.c:217): a hash is that of the name   *)
(* it stands under, none was stored, or, in the first entry alone, it is a *)
(* scrap found beyond a name that was cut off (src/tbt.c:265).  No scrap   *)
(* is ever compared: a run that took one finds a wrong number of entries.  *)
HashesMatchNames ==
  \A p \in Process : LET t == tbt[p] IN
    OneWriter(t.command.argument) =>
      \A k \in DOMAIN t.content, kind \in {"ctph", "simhash"} :
        LET name == t.content[k].name
            hash == t.content[k][kind]
        IN /\ hash \in {Unset, Scrap} \cup
                      {Sample[n][kind] : n \in {name} \cap Names}
           /\ hash = Scrap =>
                /\ k = 1
                /\ t.pc \in {"choose", "compare"} => k > t.nb_files

(* A file that grows between the two readings, or lines shifted by one,    *)
(* make more entries than get_nb_files has counted.  The check of          *)
(* src/tbt.c:222 comes after the entry is written, and bounds how far past *)
(* the array that goes: one entry.                                         *)
OneBeyondAtMost ==
  \A p \in Process : tbt[p].file_count <= tbt[p].nb_files + 1

(* No entry is stored behind the array that was made for nb_files of them. *)
(* That is what the check of src/tbt.c:222 is for; a file whose last name  *)
(* was cut off refutes it.                                                 *)
StoresInArray ==
  \A p \in Process : tbt[p].file_count <= tbt[p].nb_files

(* The scores t has printed, by the places of their lines.                 *)
Listed(t) ==
  [k \in {k \in DOMAIN t.out : t.out[k].kind = "score"} |-> t.out[k].text]

(* Although the order handed to qsort cuts the difference of two           *)
(* percentages to an int, so that differences below 1 count as equal       *)
(* (src/tbt.c:87), each list falls: the percentages of two SimHashes never *)
(* differ by less than 1.56.                                               *)
ResultsSorted ==
  \A p \in Process :
    \A k \in 1 .. Len(tbt[p].out) - 1 :
      LET line == tbt[p].out[k]
          next == tbt[p].out[k + 1]
      IN line.kind = "score" /\ next.kind = "score" =>
           line.text.percentage >= next.text.percentage

(* The bits set in a hash, and the likeness of two, counted bit by bit.    *)
Bits(bytes) ==
  {p \in (1 .. SIM_HASH_SIZE) \X (0 .. 7) : BitOf(bytes[p[1]], p[2]) = 1}

Differ(bytes_1, bytes_2) ==
  Cardinality((Bits(bytes_1) \cup Bits(bytes_2))
                 \ (Bits(bytes_1) \cap Bits(bytes_2)))

(* The percentage of two SimHashes, by the text of them.                   *)
Alike ==
  [texts \in {pair \in (DOMAIN Bytes) \X (DOMAIN Bytes) :
                NullText \notin Range(pair)} |->
     LET differ == Differ(Bytes[texts[1]], Bytes[texts[2]])
         bits   == 8 * SIM_HASH_SIZE
     IN IF 2 * differ >= bits THEN 0
        ELSE (100 * Percent * (bits - 2 * differ)) \div bits]

Expected(section, n, m) ==
  IF section = "simhash" THEN Alike[<<Sample[n].simhash, Sample[m].simhash>>]
  ELSE Percent * CtphScore[<<Sample[n].ctph, Sample[m].ctph>>]

(* A comparison that has succeeded, of a file completed before with no     *)
(* hash missing, lists every ordered pair of entries with the likeness of  *)
(* their hashes, exactly once in each section asked for, and leaves out    *)
(* just the pairs with nothing in common: half or more of the bits differ, *)
(* or the score is 0 (src/tbt.c:113, src/simhash.c:142).                   *)
ListsEveryPair ==
  \A p \in Process : LET t == tbt[p] IN
    (/\ t.command.mode = "compare" /\ t.pc = "close"
     /\ \A k \in 1 .. t.nb_files : \A section \in Range(Section[t.algorithm]) :
          t.content[k][section] \notin {Unset, NullText}
     /\ t.settled /\ OneWriter(t.command.argument)) =>
      LET names == {t.content[k].name : k \in 1 .. t.nb_files} \ {Unset}
      IN /\ IsInjective(Listed(t))
         /\ Range(Listed(t)) =
              {r \in {[section |-> section, of |-> n, name |-> m,
                       percentage |-> Expected(section, n, m)] :
                        section \in Range(Section[t.algorithm]),
                        n \in names, m \in names} :
                 r.of # r.name /\ r.percentage # 0}

(* src/tbt.c:91 says the likeness percentage of all files is put out: it   *)
(* is one, from 0 to 100.  A file without a CTPH hash refutes it, with -1. *)
PercentagesInRange ==
  \A p \in Process : \A k \in DOMAIN tbt[p].out :
    tbt[p].out[k].kind = "score" =>
      tbt[p].out[k].text.percentage \in 0 .. 100 * Percent

(* src/tbt.c:450 makes it an error that the output file exists: two runs   *)
(* never write one file.  Two that both look before either creates it do.  *)
OneWriterPerFile ==
  \A path \in Path : OneWriter(path)

(* A file that was there stays as it was, whatever run is given its name   *)
(* for -o and however long that run takes between looking for the file and *)
(* opening it (src/tbt.c:452).                                             *)
ExistingFilesStay ==
  \A path \in Path : Disk[path] # Null => fs[path] = Disk[path]

(* Every run of tbt ends, the reader of a file that is being written too.  *)
Terminates == <>(\A p \in Process : Ended(p))

=============================================================================
