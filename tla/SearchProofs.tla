---------------------------- MODULE SearchProofs ----------------------------
(***************************************************************************)
(* What is proved of the search for every file, pattern and set of         *)
(* characters: the types, that what is found is the pattern, that a        *)
(* forward search finds the first occurrence, and that a backward one, for *)
(* a pattern whose first character does not recur, finds the nearest.      *)
(***************************************************************************)
EXTENDS Search, TLAPS, WellFoundedInduction

(* The table of the last places is what fillBoyerMooreCache is to build: a *)
(* character of the pattern has a last place (search.c:43-53).             *)
LEMMA LastPlace ==
  ASSUME NEW c, m \in Nat, Places(c) # {}
  PROVE  /\ cache(c) \in Places(c)
         /\ \A j \in Places(c) : j <= cache(c)
<1> DEFINE T == {m - i : i \in Places(c)}
<1>1. Places(c) \subseteq 1..m
  BY DEF Places
<1>2. T \subseteq Nat /\ T # {}
  BY <1>1
<1>3. PICK x \in T : \A y \in T : ~(<<y, x>> \in OpToRel(<, Nat))
  <2> HIDE DEF T
  <2> QED
    BY <1>2, NatLessThanWellFounded, WFMin
<1>4. \A y \in T : x <= y
  <2> HIDE DEF T
  <2>1. SUFFICES ASSUME NEW y \in T, y < x
                 PROVE  FALSE
    BY <1>2
  <2>2. y \in Nat /\ x \in Nat
    BY <1>2
  <2>3. <<y, x>> \in OpToRel(<, Nat)
    BY <2>1, <2>2 DEF OpToRel
  <2> QED
    BY <1>3, <2>3
<1>5. PICK k \in Places(c) : x = m - k
  OBVIOUS
<1>6. \A j \in Places(c) : j <= k
  <2>1. SUFFICES ASSUME NEW j \in Places(c)
                 PROVE  j <= k
    OBVIOUS
  <2>2. m - j \in T
    OBVIOUS
  <2>3. m - k <= m - j
    BY <1>4, <1>5, <2>2
  <2>4. j \in Nat /\ k \in Nat
    BY <1>1
  <2> QED
    BY <2>3, <2>4
<1> QED
  BY <1>6 DEF cache

(* What the search uses of the table: the entry of a character is zero or  *)
(* a place of the pattern that holds it, and no later place does.          *)
LEMMA Table ==
  ASSUME NEW c, m \in Nat
  PROVE  /\ cache(c) \in 0..m
         /\ cache(c) # 0 => Norm(pat[cache(c)]) = c
         /\ \A j \in 1..m : Norm(pat[j]) = c => cache(c) # 0 /\ j <= cache(c)
<1>1. CASE Places(c) = {}
  <2>1. cache(c) = 0
    BY <1>1 DEF cache
  <2>2. \A j \in 1..m : Norm(pat[j]) # c
    BY <1>1 DEF Places
  <2> QED
    BY <2>1, <2>2
<1>2. CASE Places(c) # {}
  <2>1. cache(c) \in Places(c) /\ \A j \in Places(c) : j <= cache(c)
    BY <1>2, LastPlace
  <2> QED
    BY <2>1 DEF Places
<1> QED
  BY <1>1, <1>2

-----------------------------------------------------------------------------
(* While a search runs, it has not moved back over where it began          *)
(* (search.c:138, 168, 177).                                               *)
Reached ==
  scanning => /\ pat \in Patterns /\ result = "none"
              /\ IF flags.reverse THEN start <= from ELSE start >= from + m - 1

(* A running search has passed over no occurrence it should find: a place  *)
(* it has moved over has nothing of the pattern before its end, forwards,  *)
(* or after its begin, backwards.                                          *)
ForwardClear ==
  scanning /\ ~flags.reverse /\ ~flags.words =>
    \A p \in from..flen : Occurs(p) => start <= p + m - 1

BackwardClear ==
  scanning /\ flags.reverse /\ ~flags.words /\ BeginsOnce =>
    \A p \in m..from : Occurs(p) => p <= start

(* The inductive invariant of the types and of the place of the search.    *)
Kept == TypeOK /\ Reached

(* What a sequence of characters is, in terms of which the types of the    *)
(* file and the pattern are used.                                          *)
LEMMA Data ==
  ASSUME TypeOK
  PROVE  /\ flen \in Nat /\ \A i \in 1..flen : file[i] \in Chars
         /\ m \in Nat /\ \A i \in 1..m : pat[i] \in Chars
         /\ \A c \in Chars : Norm(c) \in Chars
         /\ pat \in Patterns => m > 0
         /\ start \in Nat /\ from \in 0..flen /\ from \in Nat
<1>1. file \in Seq(Chars)
  BY SearchAssumption DEF TypeOK
<1>2. pat \in Seq(Chars)
  <2>1. CASE pat \in Patterns
    BY <2>1, SearchAssumption
  <2>2. CASE pat = <<>>
    BY <2>2
  <2> QED
    BY <2>1, <2>2 DEF TypeOK
<1>3. flen \in Nat /\ \A i \in 1..flen : file[i] \in Chars
  BY <1>1 DEF flen
<1>4. m \in Nat /\ \A i \in 1..m : pat[i] \in Chars
  BY <1>2 DEF m
<1>5. \A c \in Chars : Norm(c) \in Chars
  BY SearchAssumption DEF Norm
<1>6. pat \in Patterns => m > 0
  <2>1. SUFFICES ASSUME pat \in Patterns
                 PROVE  m # 0
    BY <1>4
  <2>2. pat # <<>>
    BY <2>1, SearchAssumption
  <2> QED
    BY <1>2, <2>2 DEF m
<1>7. start \in Nat /\ from \in 0..flen
  BY DEF TypeOK
<1> QED
  BY <1>3, <1>4, <1>5, <1>6, <1>7

(* Where the search looks: in range, a place of the file, or just past it  *)
(* when it goes backwards (search.c:138-146).                              *)
LEMMA Look ==
  ASSUME Kept, scanning, InRange
  PROVE  /\ m > 0 /\ start \in 0..flen
         /\ Read(start) \subseteq Chars
         /\ start < flen => Read(start) = {file[start + 1]}
         /\ ~flags.reverse => start < flen /\ start >= from + m - 1
         /\ flags.reverse => start <= from /\ start >= m
<1>1. m > 0 /\ start \in 0..flen
  BY Data DEF Kept, TypeOK, Reached, InRange
<1> QED
  BY <1>1, Data, SearchAssumption DEF Kept, TypeOK, Reached, InRange, Read

(* The place at which the pattern is tried is in the file, at or before    *)
(* the place looked at and by less than the length of the pattern.         *)
LEMMA Tried ==
  ASSUME Kept, scanning, InRange, NEW c \in Read(start), cache(Norm(c)) # 0
  PROVE  /\ Candidate(c) \in 0..start
         /\ start < Candidate(c) + m
         /\ ~flags.reverse => from <= Candidate(c)
<1>1. cache(Norm(c)) \in 1..m
  BY Table, Data DEF Kept
<1>2. TypeOK
  BY DEF Kept
<1>3. m \in Nat /\ start \in Nat /\ from \in Nat
  BY <1>2, Data
<1> QED
  BY <1>1, <1>3, Look DEF Candidate

(* The buffer is filled with characters.                                   *)
LEMMA Filled ==
  ASSUME Kept, scanning, NEW p \in Nat
  PROVE  Buffer(p) \in [1..m -> Chars]
<1>1. \A i \in 1..m : p + i <= flen => Norm(file[p + i]) \in Chars
  BY Data DEF Kept
<1>2. \A i \in 1..m : fbuff[i] \in Chars
  BY DEF Kept, TypeOK
<1>3. \A i \in 1..m : Norm(fbuff[i]) \in Chars
  BY <1>2, SearchAssumption DEF Norm
<1> QED
  BY <1>1, <1>3 DEF Buffer

-----------------------------------------------------------------------------
(* What Found finds: the pattern in as much as there is of the file.       *)
LEMMA FoundPattern ==
  ASSUME Kept, scanning, InRange, NEW c \in Read(start), Match(c)
  PROVE  \A i \in 1..m : Candidate(c) + i <= flen =>
                            Norm(file[Candidate(c) + i]) = Norm(pat[i])
<1>1. cache(Norm(c)) # 0
  BY DEF Match
<1>2. CASE m > 1
  BY <1>2 DEF Match, Matches, Buffer
<1>3. CASE ~(m > 1)
  <2>1. m = 1
    BY <1>3, Look, Data DEF Kept
  <2>2. cache(Norm(c)) = 1 /\ Norm(pat[1]) = Norm(c)
    BY <1>1, <2>1, Table
  <2>3. Candidate(c) = start /\ start \in 0..flen
    BY <2>2, Look DEF Candidate
  <2>4. start + 1 <= flen => c = file[start + 1]
    BY <2>3, Look, Data DEF Kept
  <2> QED
    BY <2>1, <2>2, <2>3, <2>4
<1> QED
  BY <1>2, <1>3

(* A character that lies in an occurrence is in the table at its place in  *)
(* it or at a later one, so that the pattern is tried no further on than   *)
(* where it is.                                                            *)
LEMMA Inside ==
  ASSUME Kept, scanning, InRange, NEW c \in Read(start),
         NEW p \in Nat, Occurs(p), p <= start, start < p + m
  PROVE  /\ cache(Norm(c)) # 0
         /\ start - p + 1 <= cache(Norm(c))
         /\ Norm(c) = Norm(pat[start - p + 1])
<1> DEFINE i == start - p + 1
<1>1. m \in Nat /\ start \in Nat /\ flen \in Nat
  BY Data DEF Kept, TypeOK
<1>2. i \in 1..m /\ p + i = start + 1
  BY <1>1
<1>3. start < flen
  BY <1>1 DEF Occurs
<1>4. c = file[p + i]
  BY <1>2, <1>3, Look
<1>5. Norm(file[p + i]) = Norm(pat[i])
  BY <1>2 DEF Occurs
<1> HIDE DEF i
<1>6. Norm(pat[i]) = Norm(c)
  BY <1>4, <1>5
<1>7. cache(Norm(c)) # 0 /\ i <= cache(Norm(c))
  BY <1>1, <1>2, <1>6, Table
<1> QED
  BY <1>6, <1>7 DEF i

(* An occurrence matches the buffer filled from it.                        *)
LEMMA OccurrenceMatches ==
  ASSUME Kept, NEW p \in Nat, Occurs(p)
  PROVE  Matches(Buffer(p))
<1>1. m \in Nat /\ flen \in Nat
  BY Data DEF Kept
<1>2. \A i \in 1..m : p + i <= flen /\ Norm(file[p + i]) = Norm(pat[i])
  BY <1>1 DEF Occurs
<1> QED
  BY <1>2 DEF Matches, Buffer

-----------------------------------------------------------------------------
(* The invariant holds before the search.                                  *)
LEMMA InitKept == Init => Kept
<1> SUFFICES ASSUME Init
             PROVE  Kept
  OBVIOUS
<1>1. flen \in Nat
  <2>1. file \in Seq(Chars)
    BY SearchAssumption DEF Init
  <2> QED
    BY <2>1 DEF flen
<1>2. cfp \in 0..flen /\ st \in 0..flen /\ en \in 0..flen /\ from \in 0..flen
  BY <1>1 DEF Init
<1>3. TypeOK
  BY <1>2 DEF Init, TypeOK
<1>4. Reached
  BY DEF Init, Reached
<1> QED
  BY <1>3, <1>4 DEF Kept

(* The last place of a pattern that begins at x is a place.                *)
LEMMA LastOf ==
  ASSUME NEW x \in Nat, NEW y \in Nat, y > 0, NEW s, s = x + y - 1
  PROVE  s \in Nat /\ s >= x + y - 1
  OBVIOUS

(* The end of what is found is cut at the end of the file (search.c:303).  *)
LEMMA CutAtEnd ==
  ASSUME NEW x \in Nat, NEW y \in Nat, NEW f \in Nat, x <= f
  PROVE  x \in 0..f /\ (IF x + y > f THEN f ELSE x + y) \in 0..f
  OBVIOUS

(* A search begins at a place of the file, whatever was found before.      *)
LEMMA BeginKept ==
  ASSUME Kept, NEW again \in BOOLEAN, Begin(again),
         pat' \in Patterns \cup {<<>>}, flags' \in Flags \cup {flags}
  PROVE  Kept' /\ scanning' /\ from' \in 0..flen /\ pat' \in Patterns
         /\ start' = First(from', flags'.reverse, m')
<1>1. flen' = flen /\ flen \in Nat /\ m' \in Nat \ {0} /\ pat' \in Patterns
  <2>1. pat' \in Patterns /\ pat' \in Seq(Chars) /\ pat' # <<>>
    BY SearchAssumption DEF Begin
  <2>2. Len(pat') \in Nat /\ Len(pat') # 0
    BY <2>1
  <2> QED
    BY <2>1, <2>2, Data DEF Kept, Begin, flen, m
<1>2. cfp \in 0..flen /\ st \in 0..flen /\ en \in 0..flen
  BY DEF Kept, TypeOK
<1>3. from' \in 0..flen
  BY <1>1, <1>2 DEF Begin, Place
<1>4. flags' \in [reverse : BOOLEAN, words : BOOLEAN, cased : BOOLEAN]
  BY SearchAssumption DEF Kept, TypeOK
<1>5. start' = First(from', flags'.reverse, m')
  BY DEF Begin, m
<1>6. /\ start' \in Nat
      /\ IF flags'.reverse THEN start' <= from' ELSE start' >= from' + m' - 1
  <2>1. from' \in Nat /\ m' \in Nat /\ m' > 0
    BY <1>1, <1>3
  <2>2. CASE flags'.reverse
    BY <1>5, <2>1, <2>2 DEF First
  <2>3. CASE ~flags'.reverse
    <3>1. start' = from' + m' - 1
      BY <1>5, <2>3 DEF First
    <3>2. start' \in Nat /\ start' >= from' + m' - 1
      BY <2>1, <3>1, LastOf
    <3> QED
      BY <2>3, <3>2
  <2> QED
    BY <2>2, <2>3
<1>7. fbuff' \in [1..m' -> Chars]
  BY SearchAssumption DEF Begin, m
<1>8. TypeOK'
  <2>1. file' \in Files /\ pat' \in Patterns \cup {<<>>} /\ (scanning' => pat' # <<>>)
    BY DEF Kept, TypeOK, Begin
  <2>2. cfp' \in 0..flen' /\ st' \in 0..flen' /\ en' \in 0..flen' /\ from' \in 0..flen'
    BY <1>1, <1>2, <1>3 DEF Begin
  <2>3. scanning' \in BOOLEAN /\ result' \in {"none", "found", "not found", "stopped"}
    BY DEF Begin
  <2>4. at \in Nat /\ searches \in Nat
    BY DEF Kept, TypeOK
  <2>5. at' \in Nat /\ searches' \in Nat
    BY <2>4 DEF Begin
  <2> QED
    BY <1>4, <1>6, <1>7, <2>1, <2>2, <2>3, <2>5 DEF TypeOK
<1>9. Reached'
  BY <1>1, <1>6 DEF Reached, Begin
<1> QED
  BY <1>1, <1>3, <1>5, <1>8, <1>9 DEF Kept, Begin

(* The end of a search, found or not, in the middle of the file.           *)
LEMMA EndKept ==
  ASSUME Kept, NEW outcome \in {"not found", "stopped"}, End(outcome)
  PROVE  Kept'
<1>1. flen' = flen
  BY DEF End, flen
<1> QED
  BY <1>1 DEF Kept, TypeOK, Reached, End

(* A turn that goes on: forwards by whole lengths and single places,       *)
(* backwards never below the start of the file.                            *)
LEMMA AdvanceKept ==
  ASSUME Kept, scanning, InRange, NEW n \in {1, m}, Advance(n),
         at' \in Nat, fbuff' \in [1..m -> Chars]
  PROVE  Kept'
<1>1. flen' = flen /\ m' = m
  BY DEF Advance, flen, m
<1>2. m > 0 /\ m \in Nat /\ start \in Nat /\ from \in Nat
  BY Look, Data DEF Kept
<1>3. IF flags.reverse THEN start <= from /\ start >= m ELSE start >= from + m - 1
  BY Look
<1>4. /\ start' \in Nat
      /\ IF flags.reverse THEN start' <= from ELSE start' >= from + m - 1
  BY <1>2, <1>3 DEF Advance, Further
<1>5. TypeOK'
  BY <1>1, <1>4 DEF Kept, TypeOK, Advance
<1>6. Reached'
  BY <1>1, <1>4 DEF Kept, Reached, Advance
<1> QED
  BY <1>5, <1>6 DEF Kept

(* The answer of a search keeps the invariant.                             *)
LEMMA FoundKept ==
  ASSUME Kept, Found
  PROVE  Kept'
<1>1. flen' = flen /\ m' = m
  BY DEF Found, flen, m
<1>2. PICK c \in Read(start) : Match(c)
  BY DEF Found
<1>3. Candidate(c) \in 0..start /\ at' = Candidate(c)
  BY <1>2, Tried DEF Found, Match
<1>4. start \in 0..flen /\ flen \in Nat /\ m \in Nat
  BY Look, Data DEF Found, Kept
<1>5. at' \in Nat /\ at' <= flen
  BY <1>3, <1>4
<1>6. st' \in 0..flen /\ cfp' \in 0..flen /\ en' \in 0..flen
  <2>1. st' = at' /\ cfp' = at' /\ en' = IF at' + m > flen THEN flen ELSE at' + m
    BY DEF Found
  <2>2. at' \in 0..flen /\ (IF at' + m > flen THEN flen ELSE at' + m) \in 0..flen
    BY <1>4, <1>5, CutAtEnd
  <2> QED
    BY <2>1, <2>2
<1>7. TypeOK'
  <2>1. /\ scanning' = FALSE /\ start' = 0
        /\ result' \in {"none", "found", "not found", "stopped"}
    BY DEF Found
  <2>2. cfp' \in 0..flen' /\ st' \in 0..flen' /\ en' \in 0..flen'
    BY <1>1, <1>6
  <2>3. from' \in 0..flen' /\ searches' \in Nat
    BY <1>1 DEF Kept, TypeOK, Found
  <2>4. /\ file' \in Files /\ pat' \in Patterns \cup {<<>>}
        /\ flags' \in [reverse : BOOLEAN, words : BOOLEAN, cased : BOOLEAN]
    BY DEF Kept, TypeOK, Found
  <2> QED
    BY <1>5, <2>1, <2>2, <2>3, <2>4 DEF TypeOK
<1>8. Reached'
  BY DEF Found, Reached
<1> QED
  BY <1>7, <1>8 DEF Kept

(* The types, and the place of a running search, are kept by every step.   *)
LEMMA NextKept == Kept /\ [Next]_vars => Kept'
<1> SUFFICES ASSUME Kept, [Next]_vars
             PROVE  Kept'
  OBVIOUS
<1>1. ASSUME NEW p \in Patterns, NEW f \in Flags, SearchNew(p, f)
      PROVE  Kept'
  BY <1>1, BeginKept DEF SearchNew
<1>2. CASE SearchOn
  <2>1. pat' \in Patterns \cup {<<>>}
    BY <1>2 DEF SearchOn, Kept, TypeOK
  <2> QED
    BY <1>2, <2>1, BeginKept DEF SearchOn
<1>3. CASE OutOfRange
  BY <1>3, EndKept DEF OutOfRange
<1>4. CASE Skip
  <2>1. at' \in Nat /\ fbuff' \in [1..m -> Chars]
    BY <1>4 DEF Skip, Kept, TypeOK
  <2> QED
    BY <1>4, <2>1, AdvanceKept DEF Skip
<1>5. CASE Differ
  <2>1. PICK c \in Read(start) : /\ cache(Norm(c)) # 0
                                 /\ at' = Candidate(c)
                                 /\ fbuff' = Buffer(Candidate(c))
    BY <1>5 DEF Differ
  <2>2. Candidate(c) \in Nat
    BY <1>5, <2>1, Tried, Data DEF Differ, Kept
  <2>3. Buffer(Candidate(c)) \in [1..m -> Chars]
    BY <1>5, <2>2, Filled DEF Differ
  <2> QED
    BY <1>5, <2>1, <2>2, <2>3, AdvanceKept DEF Differ
<1>6. CASE NoWord
  <2>1. PICK c \in Read(start) : /\ Match(c)
                                 /\ fbuff' = IF m > 1 THEN Buffer(Candidate(c)) ELSE fbuff
    BY <1>6 DEF NoWord
  <2>2. Candidate(c) \in Nat /\ at' = Candidate(c)
    BY <1>6, <2>1, Tried, Data DEF NoWord, Kept, Match
  <2>3. fbuff' \in [1..m -> Chars]
    BY <1>6, <2>1, <2>2, Filled DEF NoWord, Kept, TypeOK
  <2> QED
    BY <1>6, <2>2, <2>3, AdvanceKept DEF NoWord
<1>7. CASE Found
  BY <1>7, FoundKept
<1>8. CASE Stop
  BY <1>8, EndKept DEF Stop
<1>9. ASSUME NEW p \in 0..flen, Move(p)
      PROVE  Kept'
  BY <1>9 DEF Move, Kept, TypeOK, Reached, flen, m
<1>10. CASE Forget
  BY <1>10 DEF Forget, Kept, TypeOK, Reached, flen, m
<1>11. CASE UNCHANGED vars
  BY <1>11 DEF vars, Kept, TypeOK, Reached, flen, m
<1> QED
  BY <1>1, <1>2, <1>3, <1>4, <1>5, <1>6, <1>7, <1>8, <1>9, <1>10, <1>11 DEF Next, Turn

(* Whatever is searched for, the invariant holds.                          *)
LEMMA AlwaysKept == Spec => []Kept
<1> QED
  BY InitKept, NextKept, PTL DEF Spec

(* The places of the search and its buffer keep their ranges, in unsigned  *)
(* arithmetic too: a backward search stops before it passes the start of   *)
(* the file (search.c:144-147).                                            *)
THEOREM Typing == Spec => []TypeOK
<1>1. Kept => TypeOK
  BY DEF Kept
<1> QED
  BY <1>1, AlwaysKept, PTL

(* The lengths and the start of a search are numbers, after a step too.    *)
Lengths == flen \in Nat /\ m \in Nat /\ from \in Nat

(* The same after a step.                                                  *)
LEMMA LengthsAfter == Kept' => Lengths'
<1>1. Kept => Lengths
  BY Data DEF Kept, Lengths
<1> QED
  BY <1>1, PTL

-----------------------------------------------------------------------------
(* What the properties say of the state after a step that leaves the file, *)
(* the pattern and the flags as they are.                                  *)
LEMMA SameText ==
  ASSUME UNCHANGED <<file, pat, flags>>
  PROVE  /\ flen' = flen /\ m' = m
         /\ \A c : Norm(c)' = Norm(c)
         /\ \A p : Occurs(p)' <=> Occurs(p)
         /\ BeginsOnce' <=> BeginsOnce
  BY DEF flen, m, Norm, Occurs, BeginsOnce

(* Of a step that touches neither them nor what was found, that and more.  *)
LEMMA SameResult ==
  ASSUME UNCHANGED <<file, pat, flags, from, result, at>>
  PROVE  /\ FoundIsThere => FoundIsThere'
         /\ ForwardFindsFirst => ForwardFindsFirst'
         /\ BackwardFindsNearest => BackwardFindsNearest'
  BY SameText DEF FoundIsThere, ForwardFindsFirst, BackwardFindsNearest

(* A step after which nothing is found yet, or the user has stopped.       *)
LEMMA NoResult ==
  ASSUME result' \in {"none", "stopped"}
  PROVE  FoundIsThere' /\ ForwardFindsFirst' /\ BackwardFindsNearest'
  BY DEF FoundIsThere, ForwardFindsFirst, BackwardFindsNearest

(* The steps, told apart by what they do to what the properties speak of.  *)
LEMMA Steps ==
  ASSUME Kept, [Next]_vars
  PROVE  \/ scanning' /\ result' = "none" /\ \E again \in BOOLEAN : Begin(again)
         \/ OutOfRange \/ Skip \/ Differ \/ NoWord \/ Found \/ Stop
         \/ UNCHANGED <<file, pat, flags, from, result, at, scanning, start>>
  BY DEF Next, Turn, SearchNew, SearchOn, Begin, Move, Forget, vars

(* What is found is in the file, in every step that finds it.              *)
LEMMA NextFound == Kept /\ FoundIsThere /\ [Next]_vars => FoundIsThere'
<1> SUFFICES ASSUME Kept, FoundIsThere, [Next]_vars
             PROVE  FoundIsThere'
  OBVIOUS
<1>1. CASE Found
  <2>1. PICK c \in Read(start) : Match(c)
    BY <1>1 DEF Found
  <2>2. /\ at' = Candidate(c) /\ at' \in Nat
        /\ \A i \in 1..m : at' + i <= flen => Norm(file[at' + i]) = Norm(pat[i])
    BY <1>1, <2>1, FoundPattern, Tried, Data DEF Found, Match, Kept
  <2>3. m \in Nat /\ flen \in Nat
    BY Data DEF Kept
  <2>4. CASE at' + m <= flen
    <3>1. \A i \in 1..m : Norm(file[at' + i]) = Norm(pat[i])
      BY <2>2, <2>3, <2>4
    <3>2. Occurs(at')
      BY <2>4, <3>1 DEF Occurs
    <3> QED
      BY <1>1, <3>2 DEF Found, FoundIsThere, Occurs, flen, m, Norm
  <2>5. CASE at' + m > flen
    <3>1. \A i \in 1..(flen - at') : Norm(file[at' + i]) = Norm(pat[i])
      BY <2>2, <2>3, <2>5
    <3> QED
      BY <1>1, <2>5, <3>1 DEF Found, FoundIsThere, flen, m, Norm
  <2> QED
    BY <2>2, <2>3, <2>4, <2>5
<1>2. CASE OutOfRange
  BY <1>2 DEF OutOfRange, End, FoundIsThere
<1>3. CASE Stop
  BY <1>3, NoResult DEF Stop, End
<1>4. CASE Skip \/ Differ \/ NoWord
  <2>1. result' = "none"
    BY <1>4 DEF Skip, Differ, NoWord, Advance, Kept, Reached
  <2> QED
    BY <2>1, NoResult
<1>5. CASE UNCHANGED <<file, pat, flags, from, result, at, scanning, start>>
  BY <1>5, SameResult
<1> QED
  BY <1>1, <1>2, <1>3, <1>4, <1>5, Steps, NoResult

(* A search that succeeds has found the pattern: every character of it is  *)
(* compared that the file has, the one looked up in the table included,    *)
(* which alone is compared for a pattern of one (search.c:150-190).        *)
THEOREM FoundMatches == Spec => []FoundIsThere
<1>1. Init => FoundIsThere
  BY DEF Init, FoundIsThere
<1> QED
  BY <1>1, NextFound, AlwaysKept, PTL DEF Spec

-----------------------------------------------------------------------------
(* No turn of a forward search passes over an occurrence.                  *)
LEMMA ForwardTurn ==
  ASSUME Kept, ForwardClear, Skip \/ Differ \/ NoWord
  PROVE  ForwardClear'
<1>1. SUFFICES ASSUME ~flags.reverse, ~flags.words,
                      NEW p \in from..flen, Occurs(p)
               PROVE  start' <= p + m - 1
  <2>1. UNCHANGED <<file, pat, flags, from>>
    BY DEF Skip, Differ, NoWord, Advance
  <2> QED
    BY <2>1, SameText DEF ForwardClear
<1>2. scanning /\ InRange
  BY DEF Skip, Differ, NoWord
<1>3. /\ m \in Nat /\ flen \in Nat /\ start \in Nat /\ from \in Nat
      /\ p \in Nat /\ m > 0 /\ start <= p + m - 1
  BY <1>1, <1>2, Data, Look DEF Kept, ForwardClear
<1>4. CASE Skip
  <2>1. PICK c \in Read(start) : cache(Norm(c)) = 0
    BY <1>4 DEF Skip
  <2>2. ~(p <= start)
    BY <1>1, <1>2, <1>3, <2>1, Inside
  <2>3. start' = start + m
    BY <1>1, <1>4 DEF Skip, Advance, Further
  <2> QED
    BY <1>3, <2>2, <2>3
<1>5. CASE Differ
  <2>1. PICK c \in Read(start) : /\ cache(Norm(c)) # 0
                                 /\ ~Matches(Buffer(Candidate(c)))
    BY <1>5 DEF Differ
  <2>2. start # p + m - 1
    <3>1. SUFFICES ASSUME start = p + m - 1
                   PROVE  FALSE
      OBVIOUS
    <3>2. m <= cache(Norm(c))
      BY <1>1, <1>2, <1>3, <3>1, Inside
    <3>3. cache(Norm(c)) \in 0..m
      BY <1>3, Table
    <3>4. Candidate(c) = p
      BY <1>3, <3>1, <3>2, <3>3 DEF Candidate
    <3> QED
      BY <1>1, <1>3, <2>1, <3>4, OccurrenceMatches
  <2>3. start' = start + 1
    BY <1>1, <1>5 DEF Differ, Advance, Further
  <2> QED
    BY <1>3, <2>2, <2>3
<1>6. CASE NoWord
  BY <1>1, <1>6 DEF NoWord
<1> QED
  BY <1>4, <1>5, <1>6

(* What a forward search finds is the first, and it gives up at the end.   *)
LEMMA ForwardEnds ==
  ASSUME Kept, ForwardClear, Found \/ OutOfRange
  PROVE  ForwardFindsFirst'
<1>1. SUFFICES ASSUME ~flags.reverse, ~flags.words
               PROVE  /\ Found => from <= at' /\ \A p \in from..flen : Occurs(p) => at' <= p
                      /\ OutOfRange => \A p \in from..flen : ~Occurs(p)
  <2>1. UNCHANGED <<file, pat, flags, from>>
    BY DEF Found, OutOfRange, End
  <2>2. (result' = "found" => Found) /\ (result' = "not found" => OutOfRange)
    BY DEF Found, OutOfRange, End
  <2> QED
    BY <2>1, <2>2, SameText DEF ForwardFindsFirst
<1>2. scanning /\ m \in Nat /\ flen \in Nat /\ start \in Nat /\ from \in Nat
  BY Data DEF Kept, Found, OutOfRange
<1>3. \A p \in from..flen : Occurs(p) => p \in Nat /\ start <= p + m - 1
  BY <1>1, <1>2 DEF ForwardClear
<1>4. ASSUME Found
      PROVE  from <= at' /\ \A p \in from..flen : Occurs(p) => at' <= p
  <2>1. PICK c \in Read(start) : Match(c)
    BY <1>4 DEF Found
  <2>2. /\ InRange /\ at' = Candidate(c) /\ cache(Norm(c)) \in 1..m
        /\ Candidate(c) \in 0..start /\ from <= Candidate(c)
    BY <1>1, <1>2, <1>4, <2>1, Tried, Table DEF Found, Match
  <2>3. ASSUME NEW p \in from..flen, Occurs(p)
        PROVE  at' <= p
    <3>1. p \in Nat /\ start <= p + m - 1
      BY <1>3, <2>3
    <3>2. CASE p <= start
      <4>1. start - p + 1 <= cache(Norm(c))
        BY <1>2, <2>2, <2>3, <3>1, <3>2, Inside
      <4> QED
        BY <1>2, <2>2, <3>1, <4>1 DEF Candidate
    <3>3. CASE ~(p <= start)
      BY <1>2, <2>2, <3>1, <3>3
    <3> QED
      BY <3>2, <3>3
  <2> QED
    BY <2>2, <2>3
<1>5. ASSUME OutOfRange
      PROVE  \A p \in from..flen : ~Occurs(p)
  <2>1. ~(start < flen)
    BY <1>1, <1>5 DEF OutOfRange, InRange
  <2> QED
    BY <1>2, <1>3, <2>1 DEF Occurs
<1> QED
  BY <1>4, <1>5

(* The invariant of forward searches, whole.                               *)
LEMMA NextForward ==
  Kept /\ ForwardClear /\ ForwardFindsFirst /\ [Next]_vars
    => ForwardClear' /\ ForwardFindsFirst'
<1> SUFFICES ASSUME Kept, ForwardClear, ForwardFindsFirst, [Next]_vars
             PROVE  ForwardClear' /\ ForwardFindsFirst'
  OBVIOUS
<1>1. ASSUME NEW again \in BOOLEAN, Begin(again), scanning' /\ result' = "none"
      PROVE  ForwardClear' /\ ForwardFindsFirst'
  <2>1. Kept'
    BY NextKept
  <2>2. start' = from' + m' - 1 \/ flags'.reverse
    BY <1>1 DEF Begin, First, m
  <2>3. flen' \in Nat /\ m' \in Nat /\ from' \in Nat
    BY <2>1, LengthsAfter DEF Lengths
  <2>4. ForwardClear'
    BY <2>2, <2>3 DEF ForwardClear
  <2> QED
    BY <1>1, <2>4, NoResult
<1>2. CASE Skip \/ Differ \/ NoWord
  <2>1. result' = "none"
    BY <1>2 DEF Skip, Differ, NoWord, Advance, Kept, Reached
  <2> QED
    BY <1>2, <2>1, ForwardTurn, NoResult
<1>3. CASE Found \/ OutOfRange
  <2>1. ~scanning'
    BY <1>3 DEF Found, OutOfRange, End
  <2> QED
    BY <1>3, <2>1, ForwardEnds DEF ForwardClear
<1>4. CASE Stop
  BY <1>4, NoResult DEF Stop, End, ForwardClear
<1>5. CASE UNCHANGED <<file, pat, flags, from, result, at, scanning, start>>
  BY <1>5, SameText, SameResult DEF ForwardClear
<1> QED
  BY <1>1, <1>2, <1>3, <1>4, <1>5, Steps

(* The table of last places lets a forward search look at few characters   *)
(* of the file and still find the first occurrence (search.c:138-170).     *)
THEOREM ForwardFirst == Spec => []ForwardFindsFirst
<1>1. Init => ForwardClear /\ ForwardFindsFirst
  BY DEF Init, ForwardClear, ForwardFindsFirst
<1> QED
  BY <1>1, NextForward, AlwaysKept, PTL DEF Spec

-----------------------------------------------------------------------------
(* In a pattern that begins with a character it has only once, that        *)
(* character's last place is the first one.                                *)
LEMMA FirstPlace ==
  ASSUME m \in Nat, m > 0, BeginsOnce, NEW c, c = Norm(pat[1])
  PROVE  cache(c) = 1
<1>1. cache(c) \in 1..m /\ Norm(pat[cache(c)]) = c
  BY Table
<1>2. \A i \in 2..m : Norm(pat[i]) # c
  BY DEF BeginsOnce
<1> QED
  BY <1>1, <1>2

(* No turn of a backward search for such a pattern passes over one.        *)
LEMMA BackwardTurn ==
  ASSUME Kept, BackwardClear, Skip \/ Differ \/ NoWord
  PROVE  BackwardClear'
<1>1. SUFFICES ASSUME flags.reverse, ~flags.words, BeginsOnce,
                      NEW p \in m..from, Occurs(p)
               PROVE  p <= start'
  <2>1. UNCHANGED <<file, pat, flags, from>>
    BY DEF Skip, Differ, NoWord, Advance
  <2> QED
    BY <2>1, SameText DEF BackwardClear
<1>2. scanning /\ InRange
  BY DEF Skip, Differ, NoWord
<1>3. /\ m \in Nat /\ flen \in Nat /\ start \in Nat /\ from \in Nat
      /\ p \in Nat /\ m > 0 /\ p <= start /\ p + m <= flen
  BY <1>1, <1>2, Data, Look DEF Kept, BackwardClear, Occurs
<1>4. CASE Skip
  <2>1. PICK c \in Read(start) : cache(Norm(c)) = 0
    BY <1>4 DEF Skip
  <2>2. ~(start < p + m)
    BY <1>1, <1>2, <1>3, <2>1, Inside
  <2>3. start' = start - m
    BY <1>1, <1>4 DEF Skip, Advance, Further
  <2> QED
    BY <1>3, <2>2, <2>3
<1>5. CASE Differ
  <2>1. PICK c \in Read(start) : /\ cache(Norm(c)) # 0
                                 /\ ~Matches(Buffer(Candidate(c)))
    BY <1>5 DEF Differ
  <2>2. p # start
    <3>1. SUFFICES ASSUME p = start
                   PROVE  FALSE
      OBVIOUS
    <3>2. p <= start /\ start < p + m /\ start - p + 1 = 1
      BY <1>3, <3>1
    <3>3. Norm(c) = Norm(pat[1])
      BY <1>1, <1>2, <1>3, <3>2, Inside
    <3>4. cache(Norm(c)) = 1
      BY <1>1, <1>3, <3>3, FirstPlace
    <3>5. Candidate(c) = p
      BY <1>3, <3>1, <3>4 DEF Candidate
    <3> QED
      BY <1>1, <1>3, <2>1, <3>5, OccurrenceMatches
  <2>3. start' = start - 1
    BY <1>1, <1>5 DEF Differ, Advance, Further
  <2> QED
    BY <1>3, <2>2, <2>3
<1>6. CASE NoWord
  BY <1>1, <1>6 DEF NoWord
<1> QED
  BY <1>4, <1>5, <1>6

(* What it finds is the nearest, and it gives up where the pattern no      *)
(* longer fits before it.                                                  *)
LEMMA BackwardEnds ==
  ASSUME Kept, BackwardClear, Found \/ OutOfRange
  PROVE  BackwardFindsNearest'
<1>1. SUFFICES ASSUME flags.reverse, ~flags.words, BeginsOnce, m > 0
               PROVE  /\ Found => at' <= from /\ \A p \in m..from : Occurs(p) => p <= at'
                      /\ OutOfRange => \A p \in m..from : ~Occurs(p)
  <2>1. UNCHANGED <<file, pat, flags, from>>
    BY DEF Found, OutOfRange, End
  <2>2. (result' = "found" => Found) /\ (result' = "not found" => OutOfRange)
    BY DEF Found, OutOfRange, End
  <2> QED
    BY <2>1, <2>2, SameText DEF BackwardFindsNearest
<1>2. scanning /\ m \in Nat /\ flen \in Nat /\ start \in Nat /\ from \in Nat
  BY Data DEF Kept, Found, OutOfRange
<1>3. \A p \in m..from : Occurs(p) => p \in Nat /\ p <= start /\ p + m <= flen
  BY <1>1, <1>2 DEF BackwardClear, Occurs
<1>4. ASSUME Found
      PROVE  at' <= from /\ \A p \in m..from : Occurs(p) => p <= at'
  <2>1. PICK c \in Read(start) : Match(c)
    BY <1>4 DEF Found
  <2>2. InRange /\ at' = Candidate(c) /\ cache(Norm(c)) # 0
    BY <1>4, <2>1 DEF Found, Match
  <2> DEFINE q == Candidate(c)
  <2>3. q \in Nat /\ q <= start /\ start < q + m /\ start <= from
    BY <1>1, <1>2, <2>2, Tried, Look
  <2>4. \A i \in 1..m : q + i <= flen => Norm(file[q + i]) = Norm(pat[i])
    BY <1>2, <2>1, <2>2, FoundPattern
  <2> HIDE DEF q
  <2>5. ASSUME NEW p \in m..from, Occurs(p), p > q
        PROVE  FALSE
    <3>1. p \in Nat /\ p <= start /\ p + m <= flen
      BY <1>3, <2>5
    <3> DEFINE i == p - q + 1
    <3>2. i \in 2..m /\ q + i = p + 1 /\ q + i <= flen
      BY <1>1, <1>2, <2>3, <2>5, <3>1
    <3>3. Norm(file[p + 1]) = Norm(pat[1])
      BY <1>1, <1>2, <2>5 DEF Occurs
    <3> HIDE DEF i
    <3>4. Norm(file[q + i]) = Norm(pat[i])
      BY <1>2, <2>4, <3>2
    <3> QED
      BY <1>1, <3>2, <3>3, <3>4 DEF BeginsOnce
  <2>6. \A p \in m..from : Occurs(p) => p <= q
    BY <1>2, <1>3, <2>3, <2>5
  <2>7. q <= from
    BY <1>2, <2>3
  <2> QED
    BY <2>2, <2>6, <2>7 DEF q
<1>5. ASSUME OutOfRange
      PROVE  \A p \in m..from : ~Occurs(p)
  <2>1. ~(start > 0 /\ start >= m)
    BY <1>1, <1>5 DEF OutOfRange, InRange
  <2> QED
    BY <1>1, <1>2, <1>3, <2>1
<1> QED
  BY <1>4, <1>5

(* The invariant of backward searches, whole.                              *)
LEMMA NextBackward ==
  Kept /\ BackwardClear /\ BackwardFindsNearest /\ [Next]_vars
    => BackwardClear' /\ BackwardFindsNearest'
<1> SUFFICES ASSUME Kept, BackwardClear, BackwardFindsNearest, [Next]_vars
             PROVE  BackwardClear' /\ BackwardFindsNearest'
  OBVIOUS
<1>1. ASSUME NEW again \in BOOLEAN, Begin(again), scanning' /\ result' = "none"
      PROVE  BackwardClear' /\ BackwardFindsNearest'
  <2>1. Kept'
    BY NextKept
  <2>2. start' = from' \/ ~flags'.reverse
    BY <1>1 DEF Begin, First
  <2>3. m' \in Nat /\ from' \in Nat
    BY <2>1, LengthsAfter DEF Lengths
  <2>4. BackwardClear'
    BY <2>2, <2>3 DEF BackwardClear
  <2> QED
    BY <1>1, <2>4, NoResult
<1>2. CASE Skip \/ Differ \/ NoWord
  <2>1. result' = "none"
    BY <1>2 DEF Skip, Differ, NoWord, Advance, Kept, Reached
  <2> QED
    BY <1>2, <2>1, BackwardTurn, NoResult
<1>3. CASE Found \/ OutOfRange
  <2>1. ~scanning'
    BY <1>3 DEF Found, OutOfRange, End
  <2> QED
    BY <1>3, <2>1, BackwardEnds DEF BackwardClear
<1>4. CASE Stop
  BY <1>4, NoResult DEF Stop, End, BackwardClear
<1>5. CASE UNCHANGED <<file, pat, flags, from, result, at, scanning, start>>
  BY <1>5, SameText, SameResult DEF BackwardClear
<1> QED
  BY <1>1, <1>2, <1>3, <1>4, <1>5, Steps

(* A backward search goes by the same table and the last place of each     *)
(* character, which is why it is right only for patterns whose first       *)
(* character does not come again (search.c:138-177).                       *)
THEOREM BackwardNearest == Spec => []BackwardFindsNearest
<1>1. Init => BackwardClear /\ BackwardFindsNearest
  BY DEF Init, BackwardClear, BackwardFindsNearest
<1> QED
  BY <1>1, NextBackward, AlwaysKept, PTL DEF Spec
=============================================================================
