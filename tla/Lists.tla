-------------------------------- MODULE Lists --------------------------------
(***************************************************************************)
(* The linear arrays of libbeye and the functions that sort and search     *)
(* them (beyelib.c), for lists of records that are compared by their       *)
(* field at: names, by the offset they stand for.                          *)
(*                                                                         *)
(* A list is a sequence, which starts at 1; indices and ranges are those   *)
(* of the code, which start at 0, and a range ends before its last index.  *)
(***************************************************************************)
EXTENDS Integers, Sequences, FiniteSetsExt

CONSTANTS LST_STEP,        \* by how much an array grows
          Linear,          \* ranges below this are searched one by one (5)
          THRESH, MTHRESH  \* partitions that are sorted otherwise, or by their median

ASSUME ListsAssumption ==
  /\ LST_STEP \in Nat \ {0} /\ Linear \in Nat \ {0, 1}
  /\ THRESH \in Nat \ {0, 1} /\ MTHRESH \in Nat \ {0, 1, 2}

At(l, i) == l[i + 1].at

Swapped(l, i, j) == [l EXCEPT ![i + 1] = l[j + 1], ![j + 1] = l[i + 1]]

(* qst: the median of the first, the last and the middle element is moved  *)
(* to the middle; ties keep the middle, then the first.                    *)
Median(l, base, max) ==
  LET mid   == base + ((max - base) \div 2)
      big   == IF At(l, base) > At(l, mid) THEN base ELSE mid
      small == IF big = base THEN mid ELSE base
      last  == max - 1
      med   == CASE At(l, big) <= At(l, last)  -> big
                 [] At(l, small) < At(l, last) -> last
                 [] OTHER                      -> small
  IN  IF max - base < MTHRESH THEN l ELSE Swapped(l, mid, med)

(* From i on, the first element larger than that of mid; from j down, the  *)
(* last smaller one; or mid.                                               *)
Above(l, i, mid) == Min({k \in i .. mid : k = mid \/ At(l, k) > At(l, mid)})
Below(l, j, mid) == Max({k \in mid .. j : k = mid \/ At(l, k) < At(l, mid)})

(* One turn of the loop that partitions, which ends when both are at mid.  *)
Turned(p) ==
  LET i == Above(p.list, p.i, p.mid)
      j == Below(p.list, p.j, p.mid)
  IN  CASE i = p.mid /\ j = p.mid ->
             [list |-> p.list, i |-> i, j |-> j, mid |-> p.mid]
        [] i = p.mid /\ j > p.mid ->
             [list |-> Swapped(p.list, i, j), i |-> i + 1, j |-> j, mid |-> j]
        [] i < p.mid /\ j > p.mid ->
             [list |-> Swapped(p.list, i, j), i |-> i + 1, j |-> j - 1, mid |-> p.mid]
        [] i < p.mid /\ j = p.mid ->
             [list |-> Swapped(p.list, i, j), i |-> i, j |-> j - 1, mid |-> i]

Partition(l, base, max) ==
  LET turn[n \in 0 .. max - base] ==
        IF n = 0 THEN [list |-> l, i |-> base, j |-> max - 1, mid |-> base + ((max - base) \div 2)]
        ELSE Turned(turn[n - 1])
  IN  turn[max - base]

(* qst leaves partitions below THRESH as they are; the smaller part first. *)
(* A call is a record of its arguments; no call is deeper than the list is *)
(* long.                                                                   *)
Call(l, base, max) == [list |-> l, base |-> base, max |-> max]
Calls(list) == [list : Seq({list[i] : i \in DOMAIN list}),
                base : 0 .. Len(list), max : 0 .. Len(list)]

Split(sort, c) ==
  LET p == Partition(Median(c.list, c.base, c.max), c.base, c.max)
  IN  CASE c.max - c.base < THRESH -> c.list
        [] c.max - c.base >= THRESH /\ p.mid - c.base <= c.max - (p.mid + 1) ->
             sort[Call(sort[Call(p.list, c.base, p.mid)], p.mid + 1, c.max)]
        [] c.max - c.base >= THRESH /\ p.mid - c.base > c.max - (p.mid + 1) ->
             sort[Call(sort[Call(p.list, p.mid + 1, c.max)], c.base, p.mid)]

qst(list) ==
  LET sort[depth \in 0 .. Len(list)] ==
        IF depth = 0 THEN [c \in Calls(list) |-> c.list]
        ELSE [c \in Calls(list) |-> Split(sort[depth - 1], c)]
  IN  sort[Len(list)][Call(list, 0, Len(list))]

(* The smallest of the first elements goes to the front, as a sentinel.    *)
Sentinel(l, hi) ==
  LET least == Min({k \in 0 .. hi - 1 : \A i \in 0 .. hi - 1 : At(l, k) <= At(l, i)})
  IN  Swapped(l, 0, least)

(* An insertion moves the element of index k behind the last one before it *)
(* that is no larger; without one it would read below the array.           *)
Inserted(l, k) ==
  LET hi == 1 + Max({i \in 0 .. k - 1 : At(l, i) <= At(l, k)})
  IN  [i \in DOMAIN l |-> CASE i = hi + 1          -> l[k + 1]
                            [] i \in hi + 2 .. k + 1 -> l[i - 1]
                            [] OTHER                -> l[i]]

HQSort(l) ==
  LET n     == Len(l)
      first == Sentinel(IF n >= THRESH THEN qst(l) ELSE l, IF n >= THRESH THEN THRESH ELSE n)
      turn[k \in 0 .. n - 1] == IF k = 0 THEN first ELSE Inserted(turn[k - 1], k)
  IN  IF n <= 1 THEN l ELSE turn[n - 1]

-----------------------------------------------------------------------------
(* HLFind and HLFindNearest halve the range until it is hit or short.      *)
Iter(r) == r.start + ((r.end - r.start) \div 2)

Half(l, key) ==
  [r \in [start : 0 .. Len(l), end : 0 .. Len(l)] |->
     IF At(l, Iter(r)) = key \/ r.end - r.start < Linear THEN r
     ELSE IF key > At(l, Iter(r)) THEN [r EXCEPT !.start = Iter(r)]
                                  ELSE [r EXCEPT !.end = Iter(r)]]

Halved(l, key) ==
  LET turn[n \in 0 .. Len(l)] ==
        IF n = 0 THEN [start |-> 0, end |-> Len(l)] ELSE Half(l, key)[turn[n - 1]]
  IN  turn[Len(l)]

NotFound == -1

HLFind(l, key) ==
  LET r    == Halved(l, key)
      hits == {i \in r.start .. r.end - 1 : At(l, i) = key}
  IN  IF At(l, Iter(r)) = key THEN Iter(r)
      ELSE IF hits = {} THEN NotFound ELSE Min(hits)

(* The last element that is no larger than the key, or the first of all.   *)
HLFindNearest(l, key) ==
  LET n    == Len(l)
      r    == Halved(l, key)
      hits == {i \in r.start .. r.end - 1 :
                 At(l, i) <= key /\ (i < n - 1 => key < At(l, i + 1))}
  IN  CASE At(l, Iter(r)) = key -> Iter(r)
        [] At(l, Iter(r)) # key /\ hits # {} -> Min(hits)
        [] OTHER -> IF key < At(l, r.end - 1)
                    THEN (IF r.start > 0 THEN r.start - 1 ELSE 0)
                    ELSE (IF r.end = n THEN n - 1 ELSE r.end)

-----------------------------------------------------------------------------
(* linearArray: its items, and for how many it has memory.                 *)
la_Build == [items |-> <<>>, nSize |-> 0]

la_AddData(arr, item, memory) ==
  LET full == Len(arr.items) + 1 > arr.nSize
  IN  IF full /\ ~memory THEN arr
      ELSE [items |-> Append(arr.items, item),
            nSize |-> IF full THEN arr.nSize + LST_STEP ELSE arr.nSize]

la_DeleteData(arr, idx) ==
  IF idx >= Len(arr.items) THEN arr
  ELSE [arr EXCEPT !.items = [i \in 1 .. Len(arr.items) - 1 |->
                                     arr.items[IF i <= idx THEN i ELSE i + 1]]]

la_Sort(arr) == [arr EXCEPT !.items = HQSort(arr.items)]

la_Find(arr, key) == IF arr.items = <<>> THEN NotFound ELSE HLFind(arr.items, key)
la_FindNearest(arr, key) == IF arr.items = <<>> THEN 0 ELSE HLFindNearest(arr.items, key)
=============================================================================
