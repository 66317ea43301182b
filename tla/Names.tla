-------------------------------- MODULE Names --------------------------------
(***************************************************************************)
(* The names of offsets (bin_util.c): those the user gives, which are      *)
(* kept in a list and in files, and those the file format of the open file *)
(* has, which are read once; and the dump of a disassembly to a file       *)
(* (fileutil.c), which puts the names of the format before the             *)
(* instructions they stand for.                                            *)
(*                                                                         *)
(* Left out: empty names, which cannot be loaded; the order in which a     *)
(* dialog shows names, as it never sorts this list; objects of the file    *)
(* other than code, where the dump looks for names too.                    *)
(***************************************************************************)
EXTENDS Lists

CONSTANTS FLen,      \* the length of the open file
          MaxInsn,   \* the length of the longest instruction
          UCHAR,     \* the number of values of a byte, 256
          Silly,     \* after so many names of one offset the dump goes on
          Words,     \* the names a user may give
          NoName,
          Bad,       \* a line that is not a name
          UserFiles, \* the names of the files for the user's names
          NoFile,
          Worlds,    \* what there may be when the program starts
          MaxNames   \* bound: the length of the user's list

Offsets == 0 .. FLen - 1
FromFormat == "format"   \* what stands for a name of the format
Item == [at : Offsets, name : Words]

ASSUME NamesAssumption ==
  /\ {FLen, MaxInsn, Silly, MaxNames, UCHAR} \subseteq Nat \ {0} /\ MaxInsn < UCHAR
  /\ {NoName, FromFormat} \cap Words = {} /\ NoName # FromFormat
  /\ NoFile \notin UserFiles /\ Bad \notin Item
  /\ \A w \in Worlds :
       /\ w.pubs \in Seq([at : Offsets])
       /\ w.files \in [UserFiles -> Seq(Item \cup {Bad})]
       /\ w.fname \in UserFiles \cup {NoFile}             \* as the ini file has it
       /\ w.user \subseteq Offsets /\ w.dump \in BOOLEAN   \* what the user does

VARIABLES world,     \* the names of the format, and what the user will do
          files,     \* the files of the user's names
          udn_list, udn_modified, udn_fname,
          PubNames,  \* the names of the format, once they are read
          multiref,  \* multiref_i of fmtGetPubSym
          dump,      \* the dump of a disassembly
          given,     \* ghost: the name each offset should have
          mixed,     \* ghost: names were loaded onto others
          unsorted,  \* ghost: a bad line ended the last load
          astray     \* ghost: udn_fname is not the file last read or written

user == <<files, udn_list, udn_modified, udn_fname, given, mixed, unsorted, astray>>
vars == <<world, files, udn_list, udn_modified, udn_fname, PubNames, multiref,
          dump, given, mixed, unsorted, astray>>

NULL == [items |-> <<>>, nSize |-> -1]   \* no list at all

NoDump == [on |-> FALSE, from |-> 0, at |-> 0, end |-> 0, func_pa |-> 0, label |-> 0,
           silly |-> 0, passed |-> FALSE, gaveUp |-> FALSE, printed |-> <<>>]

-----------------------------------------------------------------------------
(* The user's names.                                                       *)

(* __udnLoadList, up to a line it cannot read: the names go behind those   *)
(* that are there, which are then sorted, unless there was such a line.    *)
IsBad(lines) == \E i \in 1 .. Len(lines) : lines[i] = Bad
Good(lines) ==
  LET bad == {i \in 1 .. Len(lines) : lines[i] = Bad}
  IN  SubSeq(lines, 1, IF bad = {} THEN Len(lines) ELSE Min(bad) - 1)

Added(arr, lines) ==
  LET start == IF arr = NULL /\ Good(lines) # <<>> THEN la_Build ELSE arr
      add[n \in 0 .. Len(Good(lines))] ==
        IF n = 0 THEN start ELSE la_AddData(add[n - 1], lines[n], TRUE)
  IN  add[Len(Good(lines))]

Loaded_NotSorted(arr, lines) == Added(arr, lines)
Loaded(arr, lines) ==
  IF IsBad(lines) THEN Added(arr, lines) ELSE la_Sort(Added(arr, lines))

(* Ghost: what the lines of a file name, the last one of an offset first.  *)
Named(lines) ==
  [o \in Offsets |-> LET at == {i \in 1 .. Len(Good(lines)) : lines[i].at = o}
                     IN  IF at = {} THEN NoName ELSE lines[Max(at)].name]

Twice(lines) ==
  \E i, j \in 1 .. Len(Good(lines)) : i # j /\ lines[i].at = lines[j].at

udnFindName(o) ==
  LET i == la_Find(udn_list, o)
  IN  IF i = NotFound THEN NoName ELSE udn_list.items[i + 1].name

User == world.user # {} /\ ~dump.on

(* udnAddItem: a name that is found is changed, another is added, if there *)
(* is memory for it.                                                       *)
udnAddItem(o, name, memory) ==
  /\ User /\ o \in world.user
  /\ LET arr  == IF udn_list = NULL THEN la_Build ELSE udn_list
         prev == la_Find(arr, o)
         new  == IF prev = NotFound
                 THEN la_AddData(arr, [at |-> o, name |-> name], memory)
                 ELSE [arr EXCEPT !.items[prev + 1].name = name]
     IN  /\ Len(new.items) <= MaxNames
         /\ udn_list' = la_Sort(new)
         /\ given' = IF prev = NotFound /\ new = arr THEN given
                     ELSE [given EXCEPT ![o] = name]
         /\ mixed' = (mixed \/ unsorted)
  /\ udn_modified' = TRUE /\ unsorted' = FALSE
  /\ UNCHANGED <<world, files, udn_fname, PubNames, multiref, dump, astray>>

udnDeleteItem(i) ==
  /\ User /\ udn_list # NULL /\ i < Len(udn_list.items)
  /\ udn_list' = la_Sort(la_DeleteData(udn_list, i))
  /\ udn_modified' = TRUE
  /\ given' = [given EXCEPT ![udn_list.items[i + 1].at] = NoName]
  /\ mixed' = (mixed \/ unsorted) /\ unsorted' = FALSE
  /\ UNCHANGED <<world, files, udn_fname, PubNames, multiref, dump, astray>>

(* The dialog copies its answer to udn_fname before anything is known of   *)
(* it.  If there is no list, or no file of that name can be opened (the    *)
(* empty name is NoFile), nothing else happens, and the name stays.        *)
Misnamed(f) ==
  /\ udn_fname' = f
  /\ astray' = (astray \/ f # udn_fname)
  /\ UNCHANGED <<files, udn_list, udn_modified, given, mixed, unsorted>>

(* udnLoadList, which needs a list although it may be empty.               *)
LoadFrom(f) ==
  /\ udn_list # NULL /\ f # NoFile
  /\ Len(udn_list.items) + Len(Good(files[f])) <= MaxNames
  /\ udn_fname' = f
  /\ udn_list' = Loaded(udn_list, files[f])
  /\ IF udn_list.items = <<>>
     THEN given' = Named(files[f]) /\ mixed' = Twice(files[f])
     ELSE given' = given /\ mixed' = (mixed \/ Good(files[f]) # <<>>)
  /\ unsorted' = (IsBad(files[f]) /\ (unsorted \/ Good(files[f]) # <<>>))
  /\ astray' = (Good(files[f]) = <<>>)
  /\ UNCHANGED <<files, udn_modified>>

udnLoadList(f) ==
  /\ User
  /\ Misnamed(f) \/ LoadFrom(f)
  /\ UNCHANGED <<world, PubNames, multiref, dump>>

Saved(f) == /\ udn_list # NULL /\ f # NoFile
            /\ files' = [files EXCEPT ![f] = udn_list.items] /\ udn_fname' = f

udnSaveList(f) ==
  /\ User
  /\ \/ Misnamed(f)
     \/ /\ Saved(f) /\ udn_modified' = FALSE /\ astray' = FALSE
        /\ UNCHANGED <<udn_list, given, mixed, unsorted>>
  /\ UNCHANGED <<world, PubNames, multiref, dump>>

(* udnTerm, which asks where to save a list that was not saved, and then   *)
(* udnInit of the next program: the ini file remembers the file's name,    *)
(* whether the list could be saved there or not.                           *)
Asked == udn_modified /\ udn_list # NULL
SaveAtEnd == Asked /\ \E f \in UserFiles : Saved(f)
NoSave == /\ UNCHANGED files
          /\ \/ UNCHANGED udn_fname
             \/ Asked /\ udn_fname' \in UserFiles \cup {NoFile}

Restart ==
  /\ User
  /\ SaveAtEnd \/ NoSave
  /\ LET lines == IF udn_fname' = NoFile THEN <<>> ELSE files'[udn_fname']
         kept  == SaveAtEnd \/ (~udn_modified /\ ~astray)
     IN  /\ udn_list' = Loaded(NULL, lines)
         /\ unsorted' = (IsBad(lines) /\ Good(lines) # <<>>)
         /\ IF kept /\ ~mixed /\ ~unsorted
            THEN UNCHANGED <<given, mixed>>
            ELSE given' = Named(lines) /\ mixed' = Twice(lines)
  /\ udn_modified' = FALSE /\ astray' = FALSE
  /\ PubNames' = NULL /\ multiref' = 0 /\ dump' = NoDump
  /\ UNCHANGED world

-----------------------------------------------------------------------------
(* The names of the format.                                                *)

(* A format's list of names, sorted; without memory it is cut short.       *)
Readings ==
  LET raw  == world.pubs
      cuts == {Len(raw)} \cup {k \in 0 .. Len(raw) : (k % LST_STEP) = 0}
  IN  {[items |-> HQSort(SubSeq(raw, 1, k)), nSize |-> 0] : k \in cuts}
List == IF PubNames = NULL THEN Readings ELSE {PubNames}

(* fmtFindPubName: the names of the format before those of the user.       *)
Shown(pubs, o) == IF la_Find(pubs, o) # NotFound THEN FromFormat ELSE udnFindName(o)

fmtFindPubName ==
  /\ ~dump.on /\ PubNames' \in List
  /\ UNCHANGED <<world, multiref, dump>> /\ UNCHANGED user

(* fmtGetPubSym, backwards: the name at an offset or before it.            *)
None == [pa |-> 0, label |-> NotFound]
Before(pubs, pa) ==
  LET i == la_FindNearest(pubs, pa)
  IN  IF pubs.items = <<>> \/ (i = 0 /\ pa < At(pubs.items, 0)) THEN None
      ELSE [pa |-> At(pubs.items, i), label |-> i]

(* fmtGetPubSym, forwards.  The loop goes on from i while the name is not  *)
(* behind pa, but stops at the next name of pa itself that multiref_i says *)
(* was not given yet, and at the last name.                                *)
Breaks(pubs, pa, multi, j) ==
  \/ At(pubs.items, j) = pa /\ j + 1 > multi
  \/ j + 1 >= Len(pubs.items) - 1

Stop(pubs, pa, multi, i) ==
  Min({j \in i .. Len(pubs.items) - 1 : At(pubs.items, j) > pa \/ Breaks(pubs, pa, multi, j)})

Walk_Past(pubs, pa, multi, i) ==
  LET j == Stop(pubs, pa, multi, i)
  IN  [idx |-> j + 1, cur |-> At(pubs.items, j)]
Walk(pubs, pa, multi, i) ==
  LET j == Stop(pubs, pa, multi, i)
  IN  [idx |-> IF At(pubs.items, j) > pa THEN j ELSE j + 1, cur |-> At(pubs.items, j)]

(* What is reached may be a name of pa that was given already.             *)
NextOf(pubs, pa, multi, first) ==
  LET Same(w) == w.idx < Len(pubs.items) /\ w.cur # 0 /\ w.cur = pa
      Again   == [w \in [idx : 0 .. Len(pubs.items), cur : Offsets] |->
                    IF Same(w) /\ w.idx <= multi THEN Walk(pubs, pa, multi, w.idx) ELSE w]
      turn[n \in 0 .. Len(pubs.items)] ==
        IF n = 0 THEN Walk(pubs, pa, multi, first) ELSE Again[turn[n - 1]]
      last == turn[Len(pubs.items)]
  IN  [idx |-> last.idx, multi |-> IF Same(last) THEN last.idx ELSE 0]

After(pubs, pa) ==
  LET n == NextOf(pubs, pa, multiref, la_FindNearest(pubs, pa))
  IN  IF pubs.items = <<>> THEN [pa |-> 0, label |-> NotFound, multi |-> multiref]
      ELSE IF n.idx < Len(pubs.items)
           THEN [pa |-> At(pubs.items, n.idx), label |-> n.idx, multi |-> n.multi]
           ELSE [pa |-> 0, label |-> NotFound, multi |-> n.multi]

(* The window that says where the viewer is asks for the names around it.  *)
WhereAMI(o) ==
  /\ ~dump.on /\ world.dump
  /\ PubNames' \in List
  /\ multiref' = After(PubNames', o).multi
  /\ UNCHANGED <<world, dump>> /\ UNCHANGED user
-----------------------------------------------------------------------------
(* The dump of a disassembly with its structures (fileutil.c, FStore).     *)

(* The names on the way: those of the start, then from each name the next. *)
Advanced(pubs, d) ==
  LET n == After(pubs, d.at)
  IN  /\ multiref' = n.multi
      /\ dump' = [d EXCEPT !.func_pa = n.pa, !.label = n.label]

Quiet == /\ UNCHANGED world /\ UNCHANGED user

(* The name at or before the start is printed first.                       *)
DumpStart(o, end) ==
  /\ ~dump.on /\ world.dump /\ o < end
  /\ PubNames' \in List
  /\ LET b == Before(PubNames', o)
     IN  Advanced(PubNames',
                  [NoDump EXCEPT !.on = TRUE, !.from = o, !.at = o, !.end = end,
                                 !.printed = IF b.pa # 0 THEN <<b.label>> ELSE <<>>])
  /\ Quiet

Here == dump.func_pa # 0 /\ dump.func_pa = dump.at

(* The names of this instruction, while there are any, or too many; gaveUp *)
(* is a ghost.                                                             *)
DumpName ==
  /\ dump.on /\ Here /\ ~dump.passed
  /\ Advanced(PubNames, [dump EXCEPT !.printed = Append(dump.printed, dump.label),
                                     !.silly = dump.silly + 1,
                                     !.passed = dump.silly + 1 > Silly,
                                     !.gaveUp = dump.gaveUp \/ dump.silly + 1 > Silly])
  /\ UNCHANGED PubNames /\ Quiet

(* An instruction, which is cut where the next name is.  If the names were *)
(* given up, their offset is behind, and what is left up to it, as a byte, *)
(* takes the dump anywhere, or is 0 and ends it.                           *)
Ends_AtEndOnly(step) == dump.at + step >= dump.end
Ends(step) == step = 0 \/ dump.at + step >= dump.end

DumpInstr(len) ==
  /\ dump.on
  /\ ~Here \/ dump.passed
  /\ LET stop == IF dump.func_pa # 0 /\ dump.func_pa < FLen THEN dump.func_pa ELSE FLen
         step == IF dump.at # stop /\ dump.at + len > stop THEN (stop - dump.at) % UCHAR ELSE len
     IN  dump' = [dump EXCEPT !.at = dump.at + step,
                              !.on = ~Ends(step),
                              !.silly = 0, !.passed = FALSE]
  /\ UNCHANGED <<PubNames, multiref>> /\ Quiet

(* The user breaks it off.                                                 *)
DumpStop == /\ dump.on /\ dump' = NoDump
            /\ UNCHANGED <<PubNames, multiref>> /\ Quiet

-----------------------------------------------------------------------------
Init == /\ world \in Worlds
        /\ files = world.files
        /\ udn_fname = world.fname
        /\ LET lines == IF udn_fname = NoFile THEN <<>> ELSE files[udn_fname]
           IN  /\ udn_list = Loaded(NULL, lines)
               /\ given = Named(lines) /\ mixed = Twice(lines)
               /\ unsorted = (IsBad(lines) /\ Good(lines) # <<>>)
        /\ udn_modified = FALSE /\ astray = FALSE
        /\ PubNames = NULL /\ multiref = 0
        /\ dump = NoDump

DumpStep == DumpName \/ \E len \in 1 .. MaxInsn : DumpInstr(len)

Next == \/ \E o \in Offsets, name \in Words, memory \in BOOLEAN : udnAddItem(o, name, memory)
        \/ \E i \in 0 .. MaxNames - 1 : udnDeleteItem(i)
        \/ \E f \in UserFiles \cup {NoFile} : udnLoadList(f) \/ udnSaveList(f)
        \/ Restart
        \/ fmtFindPubName
        \/ \E o \in Offsets : WhereAMI(o)
        \/ \E o \in Offsets, end \in 1 .. FLen : DumpStart(o, end)
        \/ DumpStep \/ DumpStop

(* A dump goes on until it ends; the user may do nothing.                  *)
Spec == Init /\ [][Next]_vars /\ WF_vars(DumpStep)

-----------------------------------------------------------------------------
TypeOK ==
  /\ DOMAIN files = UserFiles
  /\ udn_list # NULL => /\ Len(udn_list.items) <= udn_list.nSize
                        /\ \A i \in 1 .. Len(udn_list.items) : udn_list.items[i] \in Item
  /\ udn_modified \in BOOLEAN /\ udn_fname \in UserFiles \cup {NoFile}
  /\ multiref \in Nat
  /\ given \in [Offsets -> Words \cup {NoName}]
  /\ dump.at \in 0 .. FLen + UCHAR

(* An offset that a format or the user has named has that name, and no     *)
(* other offset has one: the lists are sorted and searched so that nothing *)
(* is missed (beyelib.c:325-603), names survive saving, the end of the     *)
(* program and loading, and a second name of an offset replaces the first  *)
(* (bin_util.c:187-349), unless files were loaded onto other names or a    *)
(* bad line kept the list from being sorted.  A program that ends after it *)
(* was told a file it did not read or write leaves the next one the names  *)
(* of that file (astray).                                                  *)
ItemsAt(items, o) == {items[i] : i \in {k \in 1 .. Len(items) : items[k].at = o}}
NamesFound ==
  \A o \in Offsets :
    /\ PubNames # NULL /\ Len(PubNames.items) = Len(world.pubs) =>
         (Shown(PubNames, o) = FromFormat <=> ItemsAt(world.pubs, o) # {})
    /\ ~unsorted => IF ~mixed THEN udnFindName(o) = given[o]
                    ELSE IF ItemsAt(udn_list.items, o) = {} THEN udnFindName(o) = NoName
                    ELSE \E item \in ItemsAt(udn_list.items, o) : udnFindName(o) = item.name

(* A dump puts the names of the format before their instructions, and none *)
(* twice, wherever it starts and whatever names were asked for before it.  *)
(* Of several names of one offset it puts at least one, if they are not    *)
(* too many.  A name at offset 0 is not one; of three, the second stands   *)
(* for no name at all to a dump that starts there (fileutil.c:440-461,     *)
(* 529-549; bin_util.c:67-111).                                            *)
Passed == {i \in 0 .. Len(PubNames.items) - 1 :
             /\ At(PubNames.items, i) # 0
             /\ At(PubNames.items, i) \in dump.from .. dump.at - 1}
Blind == dump.from = 0 /\ Len(PubNames.items) > 2 /\ At(PubNames.items, 2) = 0
LabelsDumped ==
  PubNames # NULL /\ ~dump.gaveUp =>
    /\ Blind \/ \A i \in Passed : \E k \in 1 .. Len(dump.printed) :
                   At(PubNames.items, dump.printed[k]) = At(PubNames.items, i)
    /\ \A k, n \in 1 .. Len(dump.printed) : dump.printed[k] = dump.printed[n] => k = n

(* A dump ends, also when it gave up an offset of too many names and has  *)
(* to go back to it (fileutil.c:529-549, 653-664).                         *)
DumpEnds == dump.on ~> ~dump.on
=============================================================================
