------------------------------- MODULE Search -------------------------------
(***************************************************************************)
(* The text search of the viewer (search.c): the dialog's flags, where a   *)
(* search begins and a continued one goes on, and ___lfind, which looks    *)
(* for the pattern in the file with a table of where each character is     *)
(* last in the pattern, forwards or backwards.                             *)
(*                                                                         *)
(* Offsets in the file start at 0.  A symbol is one byte, as in all modes  *)
(* but the text mode of a two-byte code page.  Patterns with wildcards,    *)
(* the search engines of plugins, and percentages are left out; the user   *)
(* may stop a search while they are shown.                                 *)
(***************************************************************************)
EXTENDS Integers, Sequences

CONSTANTS Chars,       \* the characters of files and patterns
          Upper,       \* toupper
          Separators,  \* the characters of isseparate
          Blank,       \* the one that stands for the ends of the file
          Junk,        \* what memory that nobody wrote may hold
          Files,       \* the files that may be open
          Patterns,    \* what the user may look for
          Flags,       \* the flags the user may set
          MaxSearches  \* bound: how many searches

ASSUME SearchAssumption ==
  /\ Upper \in [Chars -> Chars]
  /\ \A c \in Chars : Upper[Upper[c]] = Upper[c]
  /\ Separators \subseteq Chars /\ Blank \in Separators /\ Junk \subseteq Chars
  /\ Files \subseteq Seq(Chars)
  /\ Patterns \subseteq Seq(Chars) \ {<<>>}
  /\ Flags \subseteq [reverse : BOOLEAN, words : BOOLEAN, cased : BOOLEAN]
  /\ MaxSearches \in Nat

VARIABLES file,      \* the open file
          pat,       \* search_buff
          flags,     \* biewSearchFlg
          cfp,       \* where the viewer is
          st, en,    \* FoundTextSt, FoundTextEnd
          scanning,  \* whether ___lfind runs
          from,      \* its start, when it was called
          start,     \* its start, as it moves
          fbuff,     \* its buffer, in capitals if need be
          result,    \* "none", "found", "not found", "stopped"
          at,        \* findptr
          searches   \* how many searches there were

vars == <<file, pat, flags, cfp, st, en, scanning, from, start, fbuff, result, at, searches>>

flen == Len(file)
m == Len(pat)

Norm(c) == IF flags.cased THEN c ELSE Upper[c]

(* fillBoyerMooreCache: one more than the last place of c in the pattern.  *)
Places(c) == {i \in 1..m : Norm(pat[i]) = c}
cache_First(c) == IF Places(c) = {} THEN 0
                  ELSE CHOOSE i \in Places(c) : \A j \in Places(c) : i <= j
cache(c) == IF Places(c) = {} THEN 0
            ELSE CHOOSE i \in Places(c) : \A j \in Places(c) : j <= i

(* A read past the end of the file leaves in the buffer what was there.    *)
Read(p) == IF p \in 0..(flen - 1) THEN {file[p + 1]} ELSE Junk

Buffer(p) == [i \in 1..m |-> IF p + i <= flen THEN Norm(file[p + i]) ELSE Norm(fbuff[i])]

Matches_ButLast(b) == \A i \in 1..(m - 1) : b[i] = Norm(pat[i])
Matches(b) == \A i \in 1..m : b[i] = Norm(pat[i])

(* A whole word.  Whether there is a character on either side is asked of  *)
(* start, where the search is, not of findptr, where the word is; and what *)
(* cannot be read leaves the character c that was read last.               *)
Word(p, c) ==
  LET left  == IF start = 0 THEN Blank ELSE IF p = 0 THEN c ELSE file[p]
      right == IF start + m < flen THEN file[p + m + 1] ELSE Blank
  IN  {left, right} \subseteq Separators

-----------------------------------------------------------------------------
TypeOK ==
  /\ file \in Files /\ pat \in Patterns \cup {<<>>}
  /\ flags \in [reverse : BOOLEAN, words : BOOLEAN, cased : BOOLEAN]
  /\ cfp \in 0..flen /\ st \in 0..flen /\ en \in 0..flen
  /\ scanning \in BOOLEAN /\ from \in 0..flen /\ start \in Nat /\ at \in Nat
  /\ scanning => pat # <<>> /\ fbuff \in [1..m -> Chars]
  /\ result \in {"none", "found", "not found", "stopped"}
  /\ searches \in Nat

Init == /\ file \in Files
        /\ pat = <<>>
        /\ flags = [reverse |-> FALSE, words |-> FALSE, cased |-> FALSE]
        /\ cfp = 0 /\ st = 0 /\ en = 0
        /\ scanning = FALSE /\ from = 0 /\ start = 0 /\ fbuff = <<>>
        /\ result = "none" /\ at = 0 /\ searches = 0

(* Search: the place from which to look.  After a search that succeeded it *)
(* is one symbol further than the viewer, or than what was found.          *)
Place(again, reverse) ==
  LET lmem == IF again THEN st ELSE cfp
  IN  CASE st = en -> cfp
        [] st # en /\ reverse /\ lmem > 0 -> lmem - 1
        [] OTHER -> IF lmem < flen THEN lmem + 1 ELSE lmem

First_Forward(lmem, reverse, length) == lmem + length - 1
First(lmem, reverse, length) == IF reverse THEN lmem ELSE lmem + length - 1

Begin(again) ==
  /\ ~scanning /\ searches < MaxSearches /\ pat' # <<>>
  /\ searches' = searches + 1
  /\ scanning' = TRUE
  /\ from' = Place(again, flags'.reverse)
  /\ start' = First(from', flags'.reverse, Len(pat'))
  /\ fbuff' \in [1..Len(pat') -> Junk]
  /\ result' = "none"
  /\ UNCHANGED <<file, cfp, st, en, at>>

(* F7, with the dialog; Shift-F7.                                          *)
SearchNew(p, f) == pat' = p /\ flags' = f /\ Begin(FALSE)
SearchOn == UNCHANGED <<pat, flags>> /\ Begin(TRUE)

End(outcome) ==
  /\ scanning' = FALSE
  /\ result' = outcome
  /\ start' = 0 /\ fbuff' = <<>>
  /\ UNCHANGED <<file, pat, flags, cfp, st, en, from, at, searches>>

InRange == IF flags.reverse THEN start > 0 /\ start >= m ELSE start < flen

(* The end of the loop, or one of its two breaks for want of room.         *)
OutOfRange == scanning /\ ~InRange /\ End("not found")

(* Escape, while the percentage is shown.                                  *)
Stop == scanning /\ InRange /\ End("stopped")

Further_NoStep(s, n) == IF flags.reverse THEN s - n ELSE s + n - 1
Further(s, n) == IF flags.reverse THEN s - n ELSE s + n

Advance(n) ==
  /\ start' = Further(start, n)
  /\ UNCHANGED <<file, pat, flags, cfp, st, en, scanning, from, result, searches>>

(* Turns of the loop: the character is not in the pattern; it is, but the  *)
(* pattern is not there; it is, but not as a word; it is.                  *)
Skip == /\ scanning /\ InRange
        /\ \E c \in Read(start) : cache(Norm(c)) = 0
        /\ Advance(m)
        /\ UNCHANGED <<fbuff, at>>

Candidate(c) == start - (cache(Norm(c)) - 1)

Differ == /\ scanning /\ InRange /\ m > 1
          /\ \E c \in Read(start) :
               /\ cache(Norm(c)) # 0
               /\ at' = Candidate(c)
               /\ fbuff' = Buffer(Candidate(c))
               /\ ~Matches(Buffer(Candidate(c)))
          /\ Advance(1)

Match(c) ==
  /\ cache(Norm(c)) # 0
  /\ m > 1 => Matches(Buffer(Candidate(c)))
  /\ at' = Candidate(c)

NoWord == /\ scanning /\ InRange /\ flags.words
          /\ \E c \in Read(start) :
               /\ Match(c) /\ ~Word(Candidate(c), c)
               /\ fbuff' = IF m > 1 THEN Buffer(Candidate(c)) ELSE fbuff
          /\ Advance(m)

Found == /\ scanning /\ InRange
         /\ \E c \in Read(start) : Match(c) /\ (flags.words => Word(Candidate(c), c))
         /\ scanning' = FALSE /\ result' = "found"
         /\ st' = at' /\ cfp' = at'
         /\ en' = IF at' + m > flen THEN flen ELSE at' + m
         /\ start' = 0 /\ fbuff' = <<>>
         /\ UNCHANGED <<file, pat, flags, from, searches>>

(* The viewer moves about, or forgets what was found (F6 and others).      *)
Move(p) == /\ ~scanning /\ p < flen /\ cfp' = p
           /\ UNCHANGED <<file, pat, flags, st, en, scanning, from, start, fbuff, result, at, searches>>

Forget == /\ ~scanning /\ st' = en
          /\ UNCHANGED <<file, pat, flags, cfp, en, scanning, from, start, fbuff, result, at, searches>>

Turn == OutOfRange \/ Skip \/ Differ \/ NoWord \/ Found

Next == \/ \E p \in Patterns, f \in Flags : SearchNew(p, f)
        \/ SearchOn \/ Turn \/ Stop
        \/ \E p \in 0..flen : Move(p)
        \/ Forget

(* The loop runs on until it ends; nothing makes the user do anything.     *)
Spec == Init /\ [][Next]_vars /\ WF_vars(Turn)

-----------------------------------------------------------------------------
(* The pattern is at p.                                                    *)
Occurs(p) == p + m <= flen /\ \A i \in 1..m : Norm(file[p + i]) = Norm(pat[i])

(* What ___lfind finds is the pattern, or as much of it as the file has    *)
(* room for: past the end it compares with what an earlier turn left in    *)
(* its buffer.                                                             *)
FoundIsThere ==
  result = "found" => \/ Occurs(at)
                      \/ /\ at + m > flen
                         /\ \A i \in 1..(flen - at) : Norm(file[at + i]) = Norm(pat[i])

(* A forward search finds the first occurrence that does not begin before  *)
(* the place it starts from, if there is one, although it looks at few of  *)
(* the characters and tries a place before it knows what came before it.   *)
(* Of a search for whole words nothing is said: after a word it rejects it *)
(* skips as many characters as the pattern has, and what may begin there.  *)
ForwardFindsFirst ==
  ~flags.reverse /\ ~flags.words =>
    /\ result = "found" => from <= at /\ \A p \in from..flen : Occurs(p) => at <= p
    /\ result = "not found" => \A p \in from..flen : ~Occurs(p)

(* A backward search for a pattern that begins with a character it has     *)
(* only once finds the last occurrence that begins no later than the place *)
(* it starts from, but none that begins closer to the start of the file    *)
(* than the pattern is long; nothing is said of whole words here either.   *)
BeginsOnce == \A i \in 2..m : Norm(pat[i]) # Norm(pat[1])

BackwardFindsNearest ==
  flags.reverse /\ ~flags.words /\ m > 0 /\ BeginsOnce =>
    /\ result = "found" => at <= from /\ \A p \in m..from : Occurs(p) => p <= at
    /\ result = "not found" => \A p \in m..from : ~Occurs(p)

(* Every search ends: whatever it looks at, a turn moves it on.            *)
SearchEnds == scanning ~> ~scanning
=============================================================================
