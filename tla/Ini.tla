-------------------------------- MODULE Ini ---------------------------------
(***************************************************************************)
(* The ini files of libbeye/file_ini.c: the reader with its preprocessor,  *)
(* the cache that iniOpenFile builds and iniCloseFile writes out, and the  *)
(* rewriting of the file line by line when there is no memory for a cache. *)
(*                                                                         *)
(* A file is a sequence of lines as FiGetNextString returns them, without  *)
(* layout and comments: <<"section", s>>, <<"subsection", b>>,             *)
(* <<"item", i, text>> and the commands.  Names are numbers, in the order  *)
(* of strcmp, 0 being the empty one.  One variable of the preprocessor is  *)
(* modelled, and one text that is not read as it is written: Percent, the  *)
(* name of that variable between two %.  Letter case, #include, files with *)
(* errors in them, at which the program ends, are left out; so are texts    *)
(* that hold a ";" or blanks around punctuation, which the reader drops.   *)
(***************************************************************************)
EXTENDS Integers, Sequences, FiniteSetsExt

CONSTANTS Keys,     \* sections, subsections and items that are read and set
          Plain,    \* texts that are read as they are written
          Percent,  \* the text that stands for the variable
          Unset,    \* no value
          Worlds    \* what the user sets, how much memory there is, the first file

ASSUME IniAssumption ==
  /\ Keys \subseteq Nat \X Nat \X (Nat \ {0}) /\ IsFiniteSet(Keys)
  /\ Percent \notin Plain /\ Unset \notin Plain \cup {Percent}
  /\ \A w \in Worlds : /\ w.keys \subseteq Keys
                       /\ w.texts \subseteq Plain \cup {Percent}
                       /\ w.memory \in {"enough", "short"}

NoFile  == <<<<"no file">>>>   \* a line that no file has
NoCache == <<>>

VARIABLES world,  \* the member of Worlds
          disk,   \* ini: the file; tmp: the file that is to replace it
          h,      \* the hIniProfile, and whether one is open at all
          smart,  \* ifSmarting
          act,    \* how far a call that writes to the disk has come
          got     \* the last value iniReadProfileString returned

vars == <<world, disk, h, smart, act, got>>

Values == Plain \cup {Percent}

-----------------------------------------------------------------------------
(* The member of a set of one: {f(x) : x \in {e}} evaluates e once.        *)
Only(S) == CHOOSE x \in S : TRUE

(* The reader.  p.ifs are the open conditional sections, innermost first:  *)
(* whether lines count, whether an #else was seen, and how many #if were   *)
(* skipped inside.                                                         *)
Key(p, i) == <<p.sect, p.sub, i>>

(* What an item line says.  A variable that is not set ends the program.   *)
Expanded(p, text) == IF text = Percent /\ p.smart THEN p.var ELSE text

FiGetCondition(p, l) == p.var = l[2]

FiCommandProcessor(p, l) ==
  CASE l[1] = "set"     -> [p EXCEPT !.var = l[2]]
    [] l[1] \in {"delete", "reset"} -> [p EXCEPT !.var = Unset]
    [] l[1] = "smart"   -> [p EXCEPT !.smart = TRUE]
    [] l[1] = "nosmart" -> [p EXCEPT !.smart = FALSE]
    [] l[1] = "if"      -> [p EXCEPT !.bad = @ \/ p.var = Unset,
                              !.ifs = <<[on |-> FiGetCondition(p, l), else |-> FALSE,
                                         nested |-> 1]>> \o @]
    [] OTHER            -> [p EXCEPT !.bad = TRUE]

FiStringProcessor(p, l) ==
  CASE l[1] = "section"    -> [p EXCEPT !.sect = l[2], !.sub = 0]
    [] l[1] = "subsection" -> [p EXCEPT !.sub = l[2]]
    [] l[1] = "item" ->
         LET value == Expanded(p, l[3])
         IN  [p EXCEPT !.bad = @ \/ value = Unset,
                !.found = Append(@, [key |-> Key(p, l[2]), value |-> value,
                                     top |-> p.ifs = <<>>, smart |-> p.smart])]
    [] OTHER -> FiCommandProcessor(p, l)

(* A line inside a conditional section.  (An #elif opens its part whatever *)
(* was open before, and lets no #else follow.)                             *)
Conditional(p, l) ==
  LET c == Head(p.ifs)
  IN  CASE l[1] = "if" /\ ~c.on -> [p EXCEPT !.ifs[1].nested = @ + 1]
        [] l[1] = "endif" -> IF c.nested = 1 THEN [p EXCEPT !.ifs = Tail(@)]
                             ELSE [p EXCEPT !.ifs[1].nested = @ - 1]
        [] l[1] \in {"else", "elif"} /\ c.nested = 1 ->
             [p EXCEPT !.bad = @ \/ c.else, !.ifs[1].else = TRUE,
                !.ifs[1].on = IF l[1] = "else" THEN ~@ ELSE FiGetCondition(p, l)]
        [] OTHER -> IF c.on THEN FiStringProcessor(p, l) ELSE p

FiFileProcessor(p, l) == IF p.ifs = <<>> THEN FiStringProcessor(p, l) ELSE Conditional(p, l)

(* What is known after some more lines.                                    *)
ReadOn(p, lines) ==
  LET turn[n \in 0 .. Len(lines)] ==
        IF n = 0 THEN p ELSE Only({FiFileProcessor(was, lines[n]) : was \in {turn[n - 1]}})
  IN  turn[Len(lines)]

Fresh(smarting) == [sect |-> 0, sub |-> 0, smart |-> smarting, var |-> Unset, bad |-> FALSE,
                    found |-> <<>>, ifs |-> <<>>]
Parsed(file, smarting) == ReadOn(Fresh(smarting), IF file = NoFile THEN <<>> ELSE file)

Named(items, key) == {n \in 1 .. Len(items) : items[n].key = key}

(* MyCallback: the search ends with the first item of that name, unless it *)
(* is in a conditional section: then the last one counts.                  *)
Hit(items, key) ==
  LET named == Named(items, key)
      tops  == {n \in named : items[n].top}
  IN  IF named = {} THEN [value |-> Unset, top |-> FALSE]
      ELSE items[IF tops = {} THEN Max(named) ELSE Min(tops)]

Search(file, smarting, key) == Hit(Parsed(file, smarting).found, key).value

(* The search leaves #nosmart in force where it ends.                      *)
SmartAfter(file, key) ==
  LET p   == Parsed(file, smart)
      hit == Hit(p.found, key)
  IN  IF hit.top THEN hit.smart ELSE p.smart

(* __buildCache: a later item of the same name replaces the earlier one.   *)
Cached(items) ==
  [key \in Keys |-> LET named == Named(items, key)
                    IN  IF named = {} THEN Unset ELSE items[Max(named)].value]

-----------------------------------------------------------------------------
(* The writers.  A text with a % is fenced off while variables are read.   *)
out_item_Bare(i, text, smarting) == <<<<"item", i, text>>>>
out_item(i, text, smarting) ==
  IF text = Percent /\ smarting
  THEN <<<<"nosmart">>, <<"item", i, text>>, <<"smart">>>>
  ELSE <<<<"item", i, text>>>>

Before(k, l) == \/ k[1] < l[1]
                \/ k[1] = l[1] /\ k[2] < l[2]
                \/ k[1] = l[1] /\ k[2] = l[2] /\ k[3] < l[3]

(* The keys of a cache in order.                                           *)
InOrder(keys) ==
  [n \in 1 .. Cardinality(keys) |->
    CHOOSE k \in keys : Cardinality({j \in keys : Before(j, k)}) = n - 1]

(* flush_sect, flush_subsect, flush_item: the names of a section and a     *)
(* subsection are written where they change.                               *)
Header(k, prev) ==
  (IF k[1] # prev[1] THEN <<<<"section", k[1]>>>> ELSE <<>>)
  \o (IF k[2] # 0 /\ <<k[1], k[2]>> # <<prev[1], prev[2]>>
      THEN <<<<"subsection", k[2]>>>> ELSE <<>>)

Flushed(cache, smarting) ==
  LET keys == InOrder({key \in Keys : cache[key] # Unset})
      out[n \in 0 .. Len(keys)] ==
        IF n = 0 THEN <<>>
        ELSE (out[n - 1] \o Header(keys[n], IF n = 1 THEN <<0, 0, 0>> ELSE keys[n - 1]))
             \o out_item(keys[n][3], cache[keys[n]], smarting)
  IN  out[Len(keys)]

(* One turn of the loop of __directWriteProfileString: w.s and w.ss tell   *)
(* whether the line is in the section and the subsection of the key, w.sb  *)
(* and w.ssb whether these have been met.                                  *)
Placed(w, l, key) ==
  CASE l[1] = "section" /\ l[2] = key[1] ->
         [w EXCEPT !.s = TRUE, !.sb = TRUE, !.ss = FALSE, !.ssb = FALSE]
    [] l[1] = "section" /\ l[2] # key[1] -> [w EXCEPT !.s = FALSE]
    [] l[1] = "subsection" -> [w EXCEPT !.ss = l[2] = key[2], !.ssb = @ \/ l[2] = key[2]]
    [] l[1] = "item" -> [w EXCEPT !.i = (@ \/ l[2] = key[3]) /\ w.s /\ w.ss]
    [] l[1] \in {"if", "elif", "else"} -> [w EXCEPT !.if_on = TRUE]
    [] l[1] = "endif" -> [w EXCEPT !.if_on = FALSE]
    [] OTHER -> w

Written_Never(w, l) == FALSE
Written(w, l) == l[1] = "item" /\ w.i /\ (~w.done \/ w.if_on)

Left(w) == ~w.done /\ \/ w.sb /\ ~w.s
                      \/ w.s /\ w.ssb /\ ~w.ss

RewriteLine(was, l, key, text, smarting) ==
  LET w == Placed(was, l, key)
      new == (IF w.sb /\ ~w.s /\ ~w.ssb /\ ~w.ss THEN <<<<"subsection", key[2]>>>> ELSE <<>>)
             \o out_item(key[3], text, smarting)
  IN  IF Written(w, l)
      THEN [w EXCEPT !.out = @ \o out_item(key[3], text, smarting), !.done = TRUE]
      ELSE IF Left(w)
      THEN [w EXCEPT !.out = (@ \o new) \o <<l>>, !.done = TRUE]
      ELSE [w EXCEPT !.out = Append(@, l)]

Rewritten(file, key, text, smarting) ==
  LET turn[n \in 0 .. Len(file)] ==
        IF n = 0
        THEN [out |-> <<>>, s |-> FALSE, sb |-> FALSE, ss |-> FALSE, ssb |-> FALSE,
              i |-> FALSE, done |-> FALSE, if_on |-> FALSE]
        ELSE Only({RewriteLine(was, file[n], key, text, smarting) : was \in {turn[n - 1]}})
      w == turn[Len(file)]
      section    == IF w.sb THEN <<>> ELSE <<<<"section", key[1]>>>>
      subsection == IF w.sb /\ w.ssb THEN <<>> ELSE <<<<"subsection", key[2]>>>>
  IN  IF w.done THEN w.out
      ELSE ((w.out \o section) \o subsection) \o out_item(key[3], text, smarting)

-----------------------------------------------------------------------------
Closed == [open |-> FALSE, null |-> TRUE, cache |-> NoCache, full |-> FALSE, updated |-> FALSE]
Idle   == [step |-> "idle"]

TypeOK ==
  /\ world \in Worlds
  /\ smart \in BOOLEAN
  /\ h.open \in BOOLEAN /\ h.null \in BOOLEAN /\ h.full \in BOOLEAN /\ h.updated \in BOOLEAN
  /\ h.cache = NoCache \/ h.cache \in [Keys -> Values \cup {Unset}]
  /\ h.full => h.cache # NoCache
  /\ act.step \in {"idle", "written", "deleted", "flush"}
  /\ got \in Values \cup {Unset}

Init == /\ world \in Worlds
        /\ disk = [ini |-> world.file, tmp |-> NoFile]
        /\ h = Closed
        /\ smart = TRUE
        /\ act = Idle
        /\ got = Unset

Opened(null, cache, full) ==
  [open |-> TRUE, null |-> null, cache |-> cache, full |-> full, updated |-> FALSE]

(* iniOpenFile.  A cache is complete if there is memory for all of it; if  *)
(* not, either there is none or it holds the items up to the first that    *)
(* found no memory.                                                        *)
iniOpenFile ==
  /\ ~h.open
  /\ LET p == Parsed(disk.ini, smart)
         Holding(items, full) == Opened(disk.ini = NoFile, Cached(items), full)
     IN  /\ smart' = p.smart
         /\ \/ world.memory = "enough" /\ h' = Holding(p.found, TRUE)
            \/ world.memory = "short"  /\ h' = Opened(disk.ini = NoFile, NoCache, FALSE)
            \/ world.memory = "short"  /\ \E n \in 0..(Len(p.found) - 1) :
                                           h' = Holding(SubSeq(p.found, 1, n), FALSE)
  /\ UNCHANGED <<world, disk, act, got>>

InCache(key) == h.cache # NoCache /\ h.cache[key] # Unset

(* What iniReadProfileString answers; Unset stands for the default value.  *)
Answer_CacheOnly(key) == IF InCache(key) THEN h.cache[key] ELSE Unset
Answer(key) ==
  CASE h.null -> Unset
    [] ~h.null /\ InCache(key) -> h.cache[key]
    [] OTHER -> IF h.full THEN Unset ELSE Search(disk.ini, smart, key)

(* The search through the file happens only if the cache has no answer.    *)
SmartThen(key) == IF h.null \/ InCache(key) \/ h.full THEN smart
                  ELSE SmartAfter(disk.ini, key)

iniReadProfileString(key) ==
  /\ h.open /\ act = Idle
  /\ got' = Answer(key)
  /\ smart' = SmartThen(key)
  /\ UNCHANGED <<world, disk, h, act>>

(* iniWriteProfileString with a complete cache, and memory for more.       *)
WriteCached(key, value) ==
  /\ h.open /\ act = Idle /\ h.full
  /\ h' = [h EXCEPT !.cache[key] = value, !.updated = @ \/ h.cache[key] # value]
  /\ UNCHANGED <<world, disk, smart, act, got>>

(* iniWriteProfileString without one.  Flushing a cache that is not        *)
(* complete writes nothing, because __directWriteProfileString finds each  *)
(* of its values already there: in the cache.  Then the cache is dropped   *)
(* and the value is looked up in the file; the file is replaced if it      *)
(* differs, or made if there was none.                                     *)
WriteDirect(key, value) ==
  /\ h.open /\ act = Idle /\ ~h.full
  /\ LET dropped == [h EXCEPT !.cache = NoCache]
         was == Search(disk.ini, smart, key)
     IN  \/ /\ h.null
            /\ disk' = [disk EXCEPT !.ini = (<<<<"section", key[1]>>>>
                          \o <<<<"subsection", key[2]>>>>) \o out_item(key[3], value, smart)]
            /\ h' = [dropped EXCEPT !.null = FALSE]
            /\ UNCHANGED <<smart, act>>
         \/ /\ ~h.null /\ was = value
            /\ h' = dropped
            /\ smart' = SmartAfter(disk.ini, key)
            /\ UNCHANGED <<disk, act>>
         \/ /\ ~h.null /\ was # value
            /\ h' = dropped
            /\ smart' = SmartAfter(disk.ini, key)
            /\ disk' = [disk EXCEPT !.tmp = Rewritten(disk.ini, key, value, smart')]
            /\ act' = [step |-> "written"]
  /\ UNCHANGED <<world, got>>

iniWriteProfileString(key, value) == WriteCached(key, value) \/ WriteDirect(key, value)

(* __OsDelete and __OsRename at the end of __directWriteProfileString.     *)
DeleteOld == /\ act.step = "written"
             /\ disk' = [disk EXCEPT !.ini = NoFile]
             /\ act' = [act EXCEPT !.step = "deleted"]
             /\ UNCHANGED <<world, h, smart, got>>

RenameNew == /\ act.step = "deleted"
             /\ disk' = [ini |-> disk.tmp, tmp |-> NoFile]
             /\ act' = Idle
             /\ UNCHANGED <<world, h, smart, got>>

(* iniCloseFile: a changed cache is written over the file, which fopen has *)
(* emptied.  (A file of the size of these is in the buffer of stdio until  *)
(* fclose, so that what is on the disk is all of it or nothing.)           *)
iniCloseFile ==
  /\ h.open /\ act = Idle
  /\ IF h.cache # NoCache /\ h.updated
     THEN /\ disk' = [disk EXCEPT !.ini = <<>>]
          /\ act' = [step |-> "flush"]
          /\ UNCHANGED h
     ELSE /\ h' = Closed
          /\ UNCHANGED <<disk, act>>
  /\ UNCHANGED <<world, smart, got>>

FlushCache == /\ act.step = "flush"
              /\ disk' = [disk EXCEPT !.ini = Flushed(h.cache, smart)]
              /\ h' = Closed
              /\ act' = Idle
              /\ UNCHANGED <<world, smart, got>>

(* The program dies, and the next one starts.  The file that was to become *)
(* the new one stays behind, and make_temp does not touch it again.        *)
Die == /\ h.open
       /\ h' = Closed
       /\ smart' = TRUE
       /\ act' = Idle
       /\ disk' = [disk EXCEPT !.tmp = NoFile]
       /\ UNCHANGED <<world, got>>

Next == \/ iniOpenFile
        \/ \E key \in world.keys : iniReadProfileString(key)
        \/ \E key \in world.keys, value \in world.texts : iniWriteProfileString(key, value)
        \/ DeleteOld \/ RenameNew
        \/ iniCloseFile \/ FlushCache
        \/ Die

Spec == Init /\ [][Next]_vars

-----------------------------------------------------------------------------
(* What the next program finds, and what this one has set.                 *)
Kept(file) == Only({[key \in Keys |-> Hit(items, key).value] :
                     items \in {Parsed(file, TRUE).found}})

settings == IF h.open /\ h.full THEN h.cache
            ELSE Kept(IF act.step = "deleted" THEN disk.tmp ELSE disk.ini)

saved == IF act.step = "flush" THEN h.cache
         ELSE Kept(IF act.step = "deleted" THEN disk.tmp ELSE disk.ini)

(* The key of an item, from the lines before it, whether they count or not.*)
LastLine(file, n, kinds) == Max({0} \cup {m \in 1 .. n : file[m][1] \in kinds})

LineKey(file, n) ==
  LET section    == LastLine(file, n, {"section"})
      subsection == LastLine(file, n, {"subsection"})
  IN  <<IF section = 0 THEN 0 ELSE file[section][2],
        IF subsection <= section THEN 0 ELSE file[subsection][2], file[n][2]>>

(* The rewriting does not forget that it met the item of its key, and in a *)
(* condition it writes again: over the items that follow in the same       *)
(* subsection, whatever their names.                                       *)
Behind(file, key) ==
  LET items == {n \in 1 .. Len(file) : file[n][1] = "item"}
      own   == {n \in items : LineKey(file, n) = key}
      after == {n \in items : /\ \E m \in own : m < n
                              /\ LastLine(file, n, {"if", "elif", "else"})
                                   > LastLine(file, n, {"endif"})}
  IN  {k \in {LineKey(file, n) : n \in after} : k[1] = key[1] /\ k[2] = key[2] /\ k # key}

exposed == [key \in Keys |-> Behind(disk.ini, key)]

Abstract == INSTANCE Settings

(* Whatever is cached, flushed or rewritten line by line, and whenever the *)
(* program dies, the settings change only as the abstract ones do: one at  *)
(* a time, a copy of all of them at the end, and nothing but what was set. *)
(* One that is set in the file may take away those Behind it, no other.    *)
ImplementsSettings == Abstract!Spec

(* The search, which stops at the first item of a key unless it is in a    *)
(* condition, and the cache, which keeps the last, read the same, though   *)
(* the rewriting works on lines and knows of no conditions.                *)
ReadersAgree == LET Read(file) == Cached(Parsed(file, TRUE).found)
                IN  /\ Read(disk.ini) = Kept(disk.ini)
                    /\ Read(disk.tmp) = Kept(disk.tmp)

(* iniReadProfileString returns what was set last, from whichever of the   *)
(* cache and the file it comes; it returns the default value for all keys  *)
(* as long as there is no file, even for those it has in its cache.        *)
ReadsWhatIsStored ==
  [][\A key \in world.keys : iniReadProfileString(key) =>
       got' = IF h.null THEN Unset ELSE settings[key]]_vars
=============================================================================
