----------------------------- MODULE TwinProofs -----------------------------
(***************************************************************************)
(* What is proved of the windows for every screen, every set of windows    *)
(* and every shape: the screen is the composition of the windows, each     *)
(* save-under buffer holds what is beneath its window, and frames stay     *)
(* whole.                                                                  *)
(*                                                                         *)
(* And of their text: no call changes the text of another window, none but *)
(* twResizeWin changes the size of one, and that one keeps the text that   *)
(* fits into it.                                                           *)
(*                                                                         *)
(* The argument is made place by place.  At one place the windows that     *)
(* cover it form a chain; the screen shows what the first of them has      *)
(* there, and each of them has saved what the next one has.  Every         *)
(* operation inserts a window into the chains, takes one out of them, or   *)
(* replaces what one shows.                                                *)
(***************************************************************************)
EXTENDS Twin, TLAPS, SequenceTheorems, WellFoundedInduction

-----------------------------------------------------------------------------
(* Cells and rows: the arithmetic of k = x + y * width.                    *)
LEMMA DivMod ==
  ASSUME NEW k \in Int, NEW W \in Nat \ {0}
  PROVE  /\ k % W \in 0 .. W - 1 /\ k \div W \in Int
         /\ k = (k % W) + (k \div W) * W
OBVIOUS

(* A later row starts no earlier.                                          *)
LEMMA RowsGrow ==
  ASSUME NEW a \in Int, NEW b \in Int, NEW W \in Nat \ {0}, a <= b
  PROVE  a * W <= b * W /\ a * W \in Int /\ b * W \in Int
OBVIOUS

(* A cell is in one row and one column.                                    *)
LEMMA OneCell ==
  ASSUME NEW W \in Nat \ {0}, NEW x \in 0 .. W - 1, NEW y \in Int,
         NEW a \in 0 .. W - 1, NEW b \in Int, x + y * W = a + b * W
  PROVE  x = a /\ y = b
<1>1. ~(y < b)
  <2> SUFFICES ASSUME y < b PROVE FALSE
    OBVIOUS
  <2>1. (y + 1) * W <= b * W /\ (y + 1) * W = y * W + W
    BY RowsGrow
  <2> QED BY <2>1
<1>2. ~(b < y)
  <2> SUFFICES ASSUME b < y PROVE FALSE
    OBVIOUS
  <2>1. (b + 1) * W <= y * W /\ (b + 1) * W = b * W + W
    BY RowsGrow
  <2> QED BY <2>1
<1> QED BY <1>1, <1>2

(* The column and the row of a cell.                                       *)
LEMMA CellCoordinates ==
  ASSUME NEW W \in Nat \ {0}, NEW x \in 0 .. W - 1, NEW y \in Int
  PROVE  x + y * W \in Int /\ (x + y * W) % W = x /\ (x + y * W) \div W = y
<1> DEFINE k == x + y * W
<1>1. k \in Int
  OBVIOUS
<1>2. /\ k % W \in 0 .. W - 1 /\ k \div W \in Int
      /\ k = (k % W) + (k \div W) * W
  BY <1>1, DivMod
<1> QED BY <1>1, <1>2, OneCell

(* The row of a cell is in the window.                                     *)
LEMMA CellRow ==
  ASSUME NEW W \in Nat \ {0}, NEW H \in Nat \ {0}, NEW k \in 0 .. W * H - 1
  PROVE  k \div W \in 0 .. H - 1
<1>1. k \in Int /\ k >= 0 /\ k < W * H /\ W * H \in Int /\ W * H = H * W
  OBVIOUS
<1>2. /\ k % W \in 0 .. W - 1 /\ k \div W \in Int
      /\ k = (k % W) + (k \div W) * W
  BY <1>1, DivMod
<1> DEFINE y == k \div W
<1> HIDE DEF y
<1>3. ~(y >= H)
  <2> SUFFICES ASSUME y >= H PROVE FALSE
    OBVIOUS
  <2>1. H * W <= y * W
    BY <1>2, RowsGrow DEF y
  <2> QED BY <1>1, <1>2, <2>1 DEF y
<1>4. ~(y < 0)
  <2> SUFFICES ASSUME y < 0 PROVE FALSE
    OBVIOUS
  <2>1. (y + 1) * W <= 0 * W /\ (y + 1) * W = y * W + W
    BY <1>2, RowsGrow DEF y
  <2> QED BY <1>1, <1>2, <2>1 DEF y
<1> QED BY <1>2, <1>3, <1>4 DEF y

(* A column and a row of the window are those of a cell.                   *)
LEMMA CellInside ==
  ASSUME NEW W \in Nat \ {0}, NEW H \in Nat \ {0},
         NEW x \in 0 .. W - 1, NEW y \in 0 .. H - 1
  PROVE  x + y * W \in 0 .. W * H - 1
<1>1. (y + 1) * W <= H * W /\ (y + 1) * W = y * W + W /\ y * W >= 0 /\ W * H = H * W
  BY RowsGrow
<1> QED BY <1>1

-----------------------------------------------------------------------------
(* A window as the operators use it, and a state of them.                  *)
Record(v) == v = [X1 |-> v.X1, Y1 |-> v.Y1, wwidth |-> v.wwidth, wheight |-> v.wheight,
                  visible |-> v.visible, enabled |-> v.enabled, body |-> v.body,
                  saved |-> v.saved, owed |-> v.owed]

(* A window with its arrays.                                               *)
Window(v) == /\ Record(v)
             /\ v.X1 \in Int /\ v.Y1 \in Int
             /\ v.wwidth \in Nat \ {0} /\ v.wheight \in Nat \ {0}
             /\ v.visible \in BOOLEAN /\ v.enabled \in BOOLEAN
             /\ v.body = [k \in Cells(v) |-> v.body[k]]
             /\ v.saved = [k \in Cells(v) |-> v.saved[k]]

(* A list of windows, each at most once.                                   *)
List(h) == /\ h \in Seq(Windows)
           /\ \A i, j \in 1 .. Len(h) : h[i] = h[j] => i = j

(* The variable and its fields.                                            *)
Parts(s) == /\ s = [head |-> s.head, win |-> s.win, screen |-> s.screen]
            /\ s.win = [u \in Windows |-> s.win[u]]
            /\ s.screen = [p \in Screen |-> s.screen[p]]

(* The windows in the list have their arrays.                              *)
State(s) == /\ Parts(s) /\ List(s.head)
            /\ \A u \in Windows : Listed(s, u) => Window(s.win[u])

(* Two windows at the same place.                                          *)
Alike(a, b) == /\ a.X1 = b.X1 /\ a.Y1 = b.Y1
               /\ a.wwidth = b.wwidth /\ a.wheight = b.wheight
               /\ a.visible = b.visible

(* A place that a window covers is that of one of its cells.               *)
LEMMA CellOfPlace ==
  ASSUME NEW v, Window(v), NEW p \in Int \X Int, Covers(v, p)
  PROVE  CellAt(v, p) \in Cells(v) /\ Pos(v, CellAt(v, p)) = p
<1> DEFINE x == p[1] - v.X1   y == p[2] - v.Y1
<1>1. p[1] \in Int /\ p[2] \in Int /\ p = <<p[1], p[2]>>
  OBVIOUS
<1>2. /\ v.X1 \in Int /\ v.Y1 \in Int
      /\ v.wwidth \in Nat \ {0} /\ v.wheight \in Nat \ {0}
  BY DEF Window
<1>3. x \in 0 .. v.wwidth - 1 /\ y \in 0 .. v.wheight - 1
  BY <1>1, <1>2 DEF Covers
<1>6. CellAt(v, p) = x + y * v.wwidth
  BY DEF CellAt
<1>7. v.X1 + x = p[1] /\ v.Y1 + y = p[2]
  BY <1>1, <1>2
<1> HIDE DEF x, y
<1>4. x + y * v.wwidth \in 0 .. v.wwidth * v.wheight - 1
  BY <1>2, <1>3, CellInside
<1>5. (x + y * v.wwidth) % v.wwidth = x /\ (x + y * v.wwidth) \div v.wwidth = y
  <2>1. v.wwidth \in Nat \ {0} /\ x \in 0 .. v.wwidth - 1 /\ y \in Int
    BY <1>2, <1>3
  <2> QED BY <2>1, CellCoordinates
<1> QED BY <1>1, <1>4, <1>5, <1>6, <1>7 DEF Cells, Pos

(* A cell of a visible window is at a place the window covers.             *)
LEMMA PlaceOfCell ==
  ASSUME NEW v, Window(v), NEW k \in Cells(v)
  PROVE  /\ Pos(v, k) \in Int \X Int /\ CellAt(v, Pos(v, k)) = k
         /\ v.visible => Covers(v, Pos(v, k))
<1>1. /\ v.X1 \in Int /\ v.Y1 \in Int
      /\ v.wwidth \in Nat \ {0} /\ v.wheight \in Nat \ {0}
      /\ k \in 0 .. v.wwidth * v.wheight - 1 /\ k \in Int
  BY DEF Window, Cells
<1>2. /\ k % v.wwidth \in 0 .. v.wwidth - 1
      /\ k = (k % v.wwidth) + (k \div v.wwidth) * v.wwidth
  BY <1>1, DivMod
<1>3. k \div v.wwidth \in 0 .. v.wheight - 1
  BY <1>1, CellRow
<1> DEFINE x == k % v.wwidth   y == k \div v.wwidth
<1> HIDE DEF x, y
<1>4. /\ x \in 0 .. v.wwidth - 1 /\ y \in 0 .. v.wheight - 1
      /\ k = x + y * v.wwidth /\ Pos(v, k) = <<v.X1 + x, v.Y1 + y>>
  BY <1>2, <1>3 DEF x, y, Pos
<1>5. (v.X1 + x) - v.X1 = x /\ (v.Y1 + y) - v.Y1 = y
  BY <1>1, <1>4
<1>6. CellAt(v, Pos(v, k)) = k
  BY <1>4, <1>5 DEF CellAt
<1>7. v.visible => Covers(v, Pos(v, k))
  BY <1>1, <1>4 DEF Covers
<1> QED BY <1>1, <1>4, <1>6, <1>7

(* They cover the same places, with the same cells.                        *)
LEMMA AlikePlaces ==
  ASSUME NEW a, NEW b, Alike(a, b)
  PROVE  /\ Cells(a) = Cells(b)
         /\ \A p : (Covers(a, p) <=> Covers(b, p)) /\ CellAt(a, p) = CellAt(b, p)
         /\ \A k : Pos(a, k) = Pos(b, k)
BY DEF Alike, Cells, Covers, CellAt, Pos

(* A place of the screen is a pair of numbers.                             *)
LEMMA ScreenPlaces == \A p \in Screen : p \in Int \X Int
BY TwinAssumption DEF Screen

-----------------------------------------------------------------------------
(* The list.  The index of a window in it says what is in front of what.   *)
LEMMA LeastIndex ==
  ASSUME NEW n \in Nat, NEW I \in SUBSET (1 .. n), I # {}
  PROVE  Min(I) \in I /\ \A i \in I : Min(I) <= i
<1>1. I \subseteq Nat
  OBVIOUS
<1>2. PICK m \in I : \A i \in I : ~(<<i, m>> \in OpToRel(<, Nat))
  BY <1>1, NatLessThanWellFounded, WFMin
<1>3. \A i \in I : m <= i
  <2> SUFFICES ASSUME NEW i \in I, i < m PROVE FALSE
    BY <1>1
  <2>1. <<i, m>> \in OpToRel(<, Nat)
    BY <1>1 DEF OpToRel
  <2> QED BY <1>2, <2>1
<1> QED BY <1>3 DEF Min

(* The greatest of some indices.                                           *)
LEMMA GreatestIndex ==
  ASSUME NEW n \in Nat, NEW I \in SUBSET (1 .. n), I # {}
  PROVE  Max(I) \in I /\ \A i \in I : i <= Max(I)
<1> DEFINE J == {n + 1 - i : i \in I}
<1>1. J \in SUBSET (1 .. n) /\ J # {}
  <2>1. PICK i \in I : TRUE
    OBVIOUS
  <2>2. n + 1 - i \in J
    OBVIOUS
  <2>3. \A j \in J : j \in 1 .. n
    OBVIOUS
  <2> HIDE DEF J
  <2> QED BY <2>2, <2>3
<1> HIDE DEF J
<1>2. Min(J) \in J /\ \A j \in J : Min(J) <= j
  BY <1>1, LeastIndex
<1> DEFINE m == Min(J)
<1> HIDE DEF m
<1>3. PICK i \in I : m = n + 1 - i
  BY <1>2 DEF J, m
<1>4. \A k \in I : k <= i
  <2> SUFFICES ASSUME NEW k \in I PROVE k <= i
    OBVIOUS
  <2>1. m <= n + 1 - k
    BY <1>2 DEF J, m
  <2> QED BY <1>3, <2>1
<1>5. \A k \in I : i >= k
  BY <1>4
<1> QED BY <1>4, <1>5 DEF Max

(* The index of a listed window, which is in the list once.                *)
LEMMA IndexOf ==
  ASSUME NEW s, List(s.head), NEW w
  PROVE  /\ Listed(s, w) => /\ w \in Windows
                            /\ Index(s, w) \in 1 .. Len(s.head)
                            /\ s.head[Index(s, w)] = w
         /\ ~Listed(s, w) => Index(s, w) = 0
         /\ \A i \in 1 .. Len(s.head) : s.head[i] = w => Listed(s, w) /\ Index(s, w) = i
<1> DEFINE I == {i \in 1 .. Len(s.head) : s.head[i] = w}
<1>1. Len(s.head) \in Nat /\ I \in SUBSET (1 .. Len(s.head)) /\ DOMAIN s.head = 1 .. Len(s.head)
  BY DEF List
<1>2. Index(s, w) = IF I # {} THEN Min(I) ELSE 0
  BY DEF Index, SelectInSeq
<1>3. I # {} => Min(I) \in I
  <2> HIDE DEF I
  <2> QED BY <1>1, LeastIndex
<1>4. Listed(s, w) <=> I # {}
  BY <1>1 DEF Listed, Range
<1>5. \A i \in I : i \in 1 .. Len(s.head) /\ s.head[i] = w
  OBVIOUS
<1>6. \A i \in 1 .. Len(s.head) : s.head[i] = w => i \in I
  OBVIOUS
<1>7. \A i \in 1 .. Len(s.head) : s.head[i] \in Windows
  BY DEF List
<1>8. \A i, j \in 1 .. Len(s.head) : s.head[i] = s.head[j] => i = j
  BY DEF List
<1> HIDE DEF I
<1> QED BY <1>2, <1>3, <1>4, <1>5, <1>6, <1>7, <1>8

(* A window covers a place, and is in the list.                            *)
Covering(s, u, p) == Listed(s, u) /\ Covers(s.win[u], p)

(* __find_over: the lowest of the covering windows above one.              *)
LEMMA FindOverIs ==
  ASSUME NEW s, List(s.head), NEW w, Listed(s, w), NEW p
  PROVE  LET L == FindOver(s, w, p)
         IN  /\ L # None => /\ L \in Windows /\ Covering(s, L, p)
                            /\ Index(s, L) < Index(s, w)
             /\ \A y : Covering(s, y, p) /\ Index(s, y) < Index(s, w)
                       => L # None /\ Index(s, y) <= Index(s, L)
<1> DEFINE n == Index(s, w)
           above == {i \in 1 .. n - 1 : Covers(s.win[s.head[i]], p)}
           L == FindOver(s, w, p)
<1>1. /\ n \in 1 .. Len(s.head) /\ Len(s.head) \in Nat /\ n \in Nat
      /\ above \in SUBSET (1 .. Len(s.head))
  BY IndexOf DEF List
<1>2. L = IF above = {} THEN None ELSE s.head[Max(above)]
  BY DEF FindOver
<1>3. above # {} => Max(above) \in above /\ \A i \in above : i <= Max(above)
  <2> HIDE DEF above
  <2> QED BY <1>1, GreatestIndex
<1>4. \A i \in above : /\ i < n /\ s.head[i] \in Windows
                       /\ Covering(s, s.head[i], p) /\ Index(s, s.head[i]) = i
  <2> SUFFICES ASSUME NEW i \in above
               PROVE  /\ i < n /\ s.head[i] \in Windows
                      /\ Covering(s, s.head[i], p) /\ Index(s, s.head[i]) = i
    OBVIOUS
  <2>1. i \in 1 .. Len(s.head) /\ i < n
    BY <1>1
  <2>2. Listed(s, s.head[i]) /\ Index(s, s.head[i]) = i
    BY <2>1, IndexOf
  <2> QED BY <2>1, <2>2, IndexOf DEF Covering
<1>5. None \notin Windows
  BY TwinAssumption
<1>6. ASSUME NEW y, Covering(s, y, p), Index(s, y) < n
      PROVE  Index(s, y) \in above
  <2>1. Index(s, y) \in 1 .. Len(s.head) /\ s.head[Index(s, y)] = y
    BY <1>6, IndexOf DEF Covering
  <2>2. Index(s, y) \in 1 .. n - 1
    BY <1>1, <1>6, <2>1
  <2> QED BY <1>6, <2>1, <2>2 DEF Covering
<1> HIDE DEF above, n, L
<1>7. L # None => /\ L \in Windows /\ Covering(s, L, p) /\ Index(s, L) < n
  BY <1>2, <1>3, <1>4
<1>8. ASSUME NEW y, Covering(s, y, p), Index(s, y) < n
      PROVE  L # None /\ Index(s, y) <= Index(s, L)
  BY <1>2, <1>3, <1>4, <1>5, <1>6, <1>8
<1> QED BY <1>7, <1>8 DEF L, n

(* __at_point: the first of the covering windows.                          *)
LEMMA AtPointIs ==
  ASSUME NEW s, List(s.head), NEW p
  PROVE  LET T == AtPoint(s, p)
         IN  /\ T # None => T \in Windows /\ Covering(s, T, p)
             /\ \A y : Covering(s, y, p) => T # None /\ Index(s, T) <= Index(s, y)
<1> DEFINE there == {i \in 1 .. Len(s.head) : Covers(s.win[s.head[i]], p)}
           T == AtPoint(s, p)
<1>1. Len(s.head) \in Nat /\ there \in SUBSET (1 .. Len(s.head))
  BY DEF List
<1>2. T = IF there = {} THEN None ELSE s.head[Min(there)]
  BY DEF AtPoint
<1>3. there # {} => Min(there) \in there /\ \A i \in there : Min(there) <= i
  <2> HIDE DEF there
  <2> QED BY <1>1, LeastIndex
<1>4. \A i \in there : /\ s.head[i] \in Windows
                       /\ Covering(s, s.head[i], p) /\ Index(s, s.head[i]) = i
  <2> SUFFICES ASSUME NEW i \in there
               PROVE  /\ s.head[i] \in Windows
                      /\ Covering(s, s.head[i], p) /\ Index(s, s.head[i]) = i
    OBVIOUS
  <2>1. i \in 1 .. Len(s.head)
    OBVIOUS
  <2>2. Listed(s, s.head[i]) /\ Index(s, s.head[i]) = i
    BY <2>1, IndexOf
  <2> QED BY <2>1, <2>2, IndexOf DEF Covering
<1>5. None \notin Windows
  BY TwinAssumption
<1>6. ASSUME NEW y, Covering(s, y, p)
      PROVE  Index(s, y) \in there
  <2>1. Index(s, y) \in 1 .. Len(s.head) /\ s.head[Index(s, y)] = y
    BY <1>6, IndexOf DEF Covering
  <2> QED BY <1>6, <2>1 DEF Covering
<1> HIDE DEF there, T
<1>7. T # None => T \in Windows /\ Covering(s, T, p)
  BY <1>2, <1>3, <1>4
<1>8. ASSUME NEW y, Covering(s, y, p)
      PROVE  T # None /\ Index(s, T) <= Index(s, y)
  BY <1>2, <1>3, <1>4, <1>5, <1>6, <1>8
<1> QED BY <1>7, <1>8 DEF T

(* The visible windows above one.                                          *)
LEMMA AboveIs ==
  ASSUME NEW s, List(s.head), NEW w, Listed(s, w), NEW u
  PROVE  u \in Above(s, w) <=> /\ Listed(s, u) /\ Index(s, u) < Index(s, w)
                               /\ s.win[u].visible
<1> DEFINE n == Index(s, w)
           front == SubSeq(s.head, 1, n - 1)
<1>1. /\ n \in 1 .. Len(s.head) /\ Len(s.head) \in Nat /\ n \in Nat
      /\ s.head \in Seq(Windows)
  BY IndexOf DEF List
<1>2. /\ front \in Seq(Windows) /\ Len(front) = n - 1
      /\ \A i \in 1 .. n - 1 : front[i] = s.head[i]
  BY <1>1
<1>3. DOMAIN front = 1 .. n - 1
  BY <1>2
<1>4. u \in Range(front) <=> \E i \in 1 .. n - 1 : s.head[i] = u
  BY <1>2, <1>3 DEF Range
<1>5. (\E i \in 1 .. n - 1 : s.head[i] = u) <=> Listed(s, u) /\ Index(s, u) < n
  <2>1. ASSUME NEW i \in 1 .. n - 1, s.head[i] = u
        PROVE  Listed(s, u) /\ Index(s, u) < n
    <3>1. i \in 1 .. Len(s.head) /\ i < n
      BY <1>1
    <3> QED BY <2>1, <3>1, IndexOf
  <2>2. ASSUME Listed(s, u), Index(s, u) < n
        PROVE  \E i \in 1 .. n - 1 : s.head[i] = u
    <3>1. Index(s, u) \in 1 .. Len(s.head) /\ s.head[Index(s, u)] = u
      BY <2>2, IndexOf
    <3>2. Index(s, u) \in 1 .. n - 1
      BY <1>1, <2>2, <3>1
    <3> QED BY <3>1, <3>2
  <2> QED BY <2>1, <2>2
<1> HIDE DEF front
<1>6. u \in Above(s, w) <=> u \in Range(front) /\ s.win[u].visible
  BY DEF Above, front
<1> QED BY <1>4, <1>5, <1>6

-----------------------------------------------------------------------------
(* The same windows in the same order, whatever happened to one of them.   *)
SameOrder(s, r, w) ==
  /\ List(r.head)
  /\ \A u \in Windows \ {w} : Listed(r, u) <=> Listed(s, u)
  /\ \A u, x \in Windows \ {w} : Listed(s, u) /\ Listed(s, x) =>
       (Index(r, u) < Index(r, x) <=> Index(s, u) < Index(s, x))

(* One change of the list after the other.                                 *)
LEMMA OrderTwice ==
  ASSUME NEW s, NEW q, NEW r, NEW w, SameOrder(s, q, w), SameOrder(q, r, w)
  PROVE  SameOrder(s, r, w)
BY DEF SameOrder

(* __unlistwin.                                                            *)
LEMMA UnlistKeepsOrder ==
  ASSUME NEW s, Parts(s), List(s.head), NEW w, Listed(s, w)
  PROVE  LET r == unlistwin(s, w)
         IN  /\ Parts(r) /\ SameOrder(s, r, w) /\ ~Listed(r, w)
             /\ r.win = s.win /\ r.screen = s.screen
<1> DEFINE r == unlistwin(s, w)
           h == s.head
           n == Index(s, w)
           g == RemoveAt(h, n)
<1>1. Parts(r) /\ r.head = g /\ r.win = s.win /\ r.screen = s.screen
  BY DEF unlistwin, Parts
<1>2. /\ n \in 1 .. Len(h) /\ h[n] = w /\ Len(h) \in Nat /\ h \in Seq(Windows) /\ n \in Nat
      /\ \A i, j \in 1 .. Len(h) : h[i] = h[j] => i = j
  BY IndexOf DEF List
<1>3. /\ g \in Seq(Windows) /\ Len(g) = Len(h) - 1
      /\ \A j \in 1 .. Len(h) - 1 : g[j] = IF j < n THEN h[j] ELSE h[j + 1]
  <2> DEFINE a == SubSeq(h, 1, n - 1)   b == SubSeq(h, n + 1, Len(h))
  <2>1. /\ a \in Seq(Windows) /\ Len(a) = n - 1
        /\ \A i \in 1 .. n - 1 : a[i] = h[i]
    BY <1>2
  <2>2. /\ b \in Seq(Windows) /\ Len(b) = Len(h) - n
        /\ \A i \in 1 .. Len(h) - n : b[i] = h[n + i]
    BY <1>2
  <2>3. g = a \o b
    BY DEF RemoveAt
  <2> HIDE DEF a, b, g
  <2>4. g \in Seq(Windows) /\ Len(g) = Len(h) - 1
    <3>1. (n - 1) + (Len(h) - n) = Len(h) - 1
      BY <1>2
    <3> QED BY <2>1, <2>2, <2>3, <3>1, ConcatProperties
  <2>6. \A i \in 1 .. Len(a) + Len(b) : g[i] = IF i <= Len(a) THEN a[i] ELSE b[i - Len(a)]
    BY <2>1, <2>2, <2>3, ConcatProperties
  <2>5. ASSUME NEW j \in 1 .. Len(h) - 1
        PROVE  g[j] = IF j < n THEN h[j] ELSE h[j + 1]
    <3>1. CASE j < n
      BY <1>2, <2>1, <2>2, <2>6, <3>1
    <3>2. CASE ~(j < n)
      <4>1. j - (n - 1) \in 1 .. Len(h) - n /\ n + (j - (n - 1)) = j + 1
        BY <1>2, <3>2
      <4>3. j \in 1 .. Len(a) + Len(b) /\ ~(j <= Len(a))
        BY <1>2, <2>1, <2>2, <3>2
      <4>2. g[j] = b[j - (n - 1)]
        BY <2>1, <2>6, <4>3
      <4> QED BY <2>2, <3>2, <4>1, <4>2
    <3> QED BY <3>1, <3>2
  <2> QED BY <2>4, <2>5
<1> HIDE DEF h, g, r
<1>4. \A i, j \in 1 .. Len(g) : g[i] = g[j] => i = j
  <2> SUFFICES ASSUME NEW i \in 1 .. Len(g), NEW j \in 1 .. Len(g), g[i] = g[j]
               PROVE  i = j
    OBVIOUS
  <2>1. /\ i \in 1 .. Len(h) /\ j \in 1 .. Len(h)
        /\ i + 1 \in 1 .. Len(h) /\ j + 1 \in 1 .. Len(h)
    BY <1>2, <1>3
  <2>2. CASE i < n /\ j < n
    BY <1>2, <1>3, <2>1, <2>2
  <2>3. CASE i < n /\ ~(j < n)
    <3>1. h[i] = h[j + 1]
      BY <1>3, <2>3
    <3> QED BY <1>2, <2>1, <2>3, <3>1
  <2>4. CASE ~(i < n) /\ j < n
    <3>1. h[i + 1] = h[j]
      BY <1>3, <2>4
    <3> QED BY <1>2, <2>1, <2>4, <3>1
  <2>5. CASE ~(i < n) /\ ~(j < n)
    <3>1. h[i + 1] = h[j + 1]
      BY <1>3, <2>5
    <3> QED BY <1>2, <2>1, <2>5, <3>1
  <2> QED BY <2>2, <2>3, <2>4, <2>5
<1>5. List(r.head)
  BY <1>1, <1>3, <1>4 DEF List
<1> DEFINE f == [i \in 1 .. Len(h) |-> IF i < n THEN i ELSE IF i = n THEN n ELSE i - 1]
<1>6. /\ f \in [1 .. Len(h) -> Int]
      /\ \A i \in 1 .. Len(h) : i # n => f[i] \in 1 .. Len(g) /\ g[f[i]] = h[i]
  BY <1>2, <1>3
<1>7. \A j \in 1 .. Len(g) : \E i \in 1 .. Len(h) : i # n /\ h[i] = g[j]
  <2> SUFFICES ASSUME NEW j \in 1 .. Len(g)
               PROVE  \E i \in 1 .. Len(h) : i # n /\ h[i] = g[j]
    OBVIOUS
  <2>1. CASE j < n
    BY <1>2, <1>3, <2>1
  <2>2. CASE ~(j < n)
    <3>1. j + 1 \in 1 .. Len(h) /\ j + 1 # n /\ h[j + 1] = g[j]
      BY <1>2, <1>3, <2>2
    <3> QED BY <3>1
  <2> QED BY <2>1, <2>2
<1>8. ~Listed(r, w)
  <2> SUFFICES ASSUME Listed(r, w) PROVE FALSE
    OBVIOUS
  <2>1. PICK j \in 1 .. Len(g) : g[j] = w
    BY <1>1, <1>5, IndexOf
  <2> QED BY <1>2, <1>7, <2>1
<1>9. SameOrder(s, r, w)
  <2>1. ASSUME NEW u \in Windows \ {w}, Listed(s, u)
        PROVE  /\ Listed(r, u) /\ Index(s, u) \in 1 .. Len(h) /\ Index(s, u) # n
               /\ Index(r, u) = f[Index(s, u)]
    <3>1. Index(s, u) \in 1 .. Len(h) /\ h[Index(s, u)] = u
      BY <2>1, IndexOf DEF h
    <3>2. Index(s, u) # n
      BY <1>2, <3>1
    <3>3. f[Index(s, u)] \in 1 .. Len(g) /\ g[f[Index(s, u)]] = u
      BY <1>6, <3>1, <3>2
    <3> HIDE DEF f
    <3> QED BY <1>1, <1>5, <3>1, <3>2, <3>3, IndexOf
  <2>2. ASSUME NEW u \in Windows \ {w}, Listed(r, u)
        PROVE  Listed(s, u)
    <3>1. PICK j \in 1 .. Len(g) : g[j] = u
      BY <1>1, <1>5, <2>2, IndexOf
    <3>2. PICK i \in 1 .. Len(h) : h[i] = u
      BY <1>7, <3>1
    <3> QED BY <3>2, IndexOf DEF h
  <2>3. ASSUME NEW u \in Windows \ {w}, NEW x \in Windows \ {w}, Listed(s, u), Listed(s, x)
        PROVE  Index(r, u) < Index(r, x) <=> Index(s, u) < Index(s, x)
    <3> DEFINE i == Index(s, u)   j == Index(s, x)
    <3>1. /\ i \in 1 .. Len(h) /\ i # n /\ Index(r, u) = f[i]
          /\ j \in 1 .. Len(h) /\ j # n /\ Index(r, x) = f[j]
      BY <2>1, <2>3
    <3> HIDE DEF i, j
    <3>2. f[i] = (IF i < n THEN i ELSE i - 1) /\ f[j] = (IF j < n THEN j ELSE j - 1)
      BY <3>1
    <3> HIDE DEF f
    <3>3. f[i] < f[j] <=> i < j
      BY <1>2, <3>1, <3>2
    <3> QED BY <3>1, <3>3 DEF i, j
  <2> QED BY <1>5, <2>1, <2>2, <2>3 DEF SameOrder
<1> QED BY <1>1, <1>8, <1>9 DEF r

(* A window that is put into the list somewhere.                           *)
LEMMA InsertKeepsOrder ==
  ASSUME NEW s, List(s.head), NEW w \in Windows, ~Listed(s, w),
         NEW r, NEW n \in 1 .. Len(s.head) + 1,
         r.head \in Seq(Windows), Len(r.head) = Len(s.head) + 1,
         \A j \in 1 .. Len(s.head) + 1 :
           r.head[j] = IF j < n THEN s.head[j] ELSE IF j = n THEN w ELSE s.head[j - 1]
  PROVE  SameOrder(s, r, w) /\ Listed(r, w) /\ Index(r, w) = n
<1> DEFINE h == s.head   g == r.head
<1>1. /\ h \in Seq(Windows) /\ Len(h) \in Nat /\ n \in 1 .. Len(h) + 1
      /\ \A i, j \in 1 .. Len(h) : h[i] = h[j] => i = j
      /\ \A i \in 1 .. Len(h) : h[i] \in Windows
  BY DEF List
<1>2. \A i \in 1 .. Len(h) : h[i] # w
  BY IndexOf
<1>3. /\ g \in Seq(Windows) /\ Len(g) = Len(h) + 1
      /\ \A j \in 1 .. Len(h) + 1 :
           g[j] = IF j < n THEN h[j] ELSE IF j = n THEN w ELSE h[j - 1]
  OBVIOUS
<1> HIDE DEF h, g
<1>4. \A i, j \in 1 .. Len(g) : g[i] = g[j] => i = j
  <2> SUFFICES ASSUME NEW i \in 1 .. Len(g), NEW j \in 1 .. Len(g), g[i] = g[j]
               PROVE  i = j
    OBVIOUS
  <2>1. /\ i \in 1 .. Len(h) + 1 /\ j \in 1 .. Len(h) + 1
        /\ (i # n /\ ~(i < n) => i - 1 \in 1 .. Len(h))
        /\ (j # n /\ ~(j < n) => j - 1 \in 1 .. Len(h))
        /\ (i < n => i \in 1 .. Len(h)) /\ (j < n => j \in 1 .. Len(h))
    BY <1>1, <1>3
  <2>2. CASE i = n
    <3>1. g[j] = w
      BY <1>3, <2>1, <2>2
    <3> QED BY <1>2, <1>3, <2>1, <2>2, <3>1
  <2>3. CASE j = n
    <3>1. g[i] = w
      BY <1>3, <2>1, <2>3
    <3> QED BY <1>2, <1>3, <2>1, <2>3, <3>1
  <2>4. CASE i < n /\ j < n
    BY <1>1, <1>3, <2>1, <2>4
  <2>5. CASE i < n /\ ~(j < n) /\ j # n
    <3>1. h[i] = h[j - 1]
      BY <1>3, <2>1, <2>5
    <3> QED BY <1>1, <2>1, <2>5, <3>1
  <2>6. CASE ~(i < n) /\ i # n /\ j < n
    <3>1. h[i - 1] = h[j]
      BY <1>3, <2>1, <2>6
    <3> QED BY <1>1, <2>1, <2>6, <3>1
  <2>7. CASE ~(i < n) /\ ~(j < n) /\ i # n /\ j # n
    <3>1. h[i - 1] = h[j - 1]
      BY <1>3, <2>1, <2>7
    <3> QED BY <1>1, <2>1, <2>7, <3>1
  <2> QED BY <2>2, <2>3, <2>4, <2>5, <2>6, <2>7
<1>5. List(r.head)
  BY <1>3, <1>4 DEF List, g
<1>6. Listed(r, w) /\ Index(r, w) = n
  <2>1. n \in 1 .. Len(g) /\ g[n] = w
    BY <1>1, <1>3
  <2> QED BY <1>5, <2>1, IndexOf DEF g
<1> DEFINE f == [i \in 1 .. Len(h) |-> IF i < n THEN i ELSE i + 1]
<1>7. \A i \in 1 .. Len(h) : f[i] \in 1 .. Len(g) /\ g[f[i]] = h[i]
  <2> SUFFICES ASSUME NEW i \in 1 .. Len(h)
               PROVE  f[i] \in 1 .. Len(g) /\ g[f[i]] = h[i]
    OBVIOUS
  <2>1. CASE i < n
    BY <1>1, <1>3, <2>1
  <2>2. CASE ~(i < n)
    <3>1. i + 1 \in 1 .. Len(h) + 1 /\ ~(i + 1 < n) /\ i + 1 # n /\ (i + 1) - 1 = i
      BY <1>1, <2>2
    <3>2. f[i] = i + 1
      BY <2>2
    <3> QED BY <1>3, <3>1, <3>2
  <2> QED BY <2>1, <2>2
<1>8. ASSUME NEW u \in Windows \ {w}, Listed(s, u)
      PROVE  /\ Listed(r, u) /\ Index(s, u) \in 1 .. Len(h)
             /\ Index(r, u) = f[Index(s, u)]
  <2>1. Index(s, u) \in 1 .. Len(h) /\ h[Index(s, u)] = u
    BY <1>8, IndexOf DEF h
  <2>2. f[Index(s, u)] \in 1 .. Len(g) /\ g[f[Index(s, u)]] = u
    BY <1>7, <2>1
  <2> HIDE DEF f
  <2> QED BY <1>5, <2>1, <2>2, IndexOf DEF g
<1>9. ASSUME NEW u \in Windows \ {w}, Listed(r, u)
      PROVE  Listed(s, u)
  <2>1. PICK j \in 1 .. Len(g) : g[j] = u
    BY <1>5, <1>9, IndexOf DEF g
  <2>2. j # n
    BY <1>3, <2>1
  <2>3. CASE j < n
    <3>1. j \in 1 .. Len(h) /\ h[j] = u
      BY <1>1, <1>3, <2>1, <2>3
    <3> QED BY <3>1, IndexOf DEF h
  <2>4. CASE ~(j < n)
    <3>1. j - 1 \in 1 .. Len(h) /\ h[j - 1] = u
      BY <1>1, <1>3, <2>1, <2>2, <2>4
    <3> QED BY <3>1, IndexOf DEF h
  <2> QED BY <2>3, <2>4
<1>10. ASSUME NEW u \in Windows \ {w}, NEW x \in Windows \ {w}, Listed(s, u), Listed(s, x)
       PROVE  Index(r, u) < Index(r, x) <=> Index(s, u) < Index(s, x)
  <2> DEFINE i == Index(s, u)   j == Index(s, x)
  <2>1. /\ i \in 1 .. Len(h) /\ Index(r, u) = f[i]
        /\ j \in 1 .. Len(h) /\ Index(r, x) = f[j]
    BY <1>8, <1>10
  <2> HIDE DEF i, j
  <2>2. f[i] = (IF i < n THEN i ELSE i + 1) /\ f[j] = (IF j < n THEN j ELSE j + 1)
    BY <2>1
  <2> HIDE DEF f
  <2>3. f[i] < f[j] <=> i < j
    BY <1>1, <2>1, <2>2
  <2> QED BY <2>1, <2>3 DEF i, j
<1>11. SameOrder(s, r, w)
  BY <1>5, <1>8, <1>9, <1>10 DEF SameOrder
<1> QED BY <1>6, <1>11

(* __athead.                                                               *)
LEMMA AtHeadKeepsOrder ==
  ASSUME NEW s, Parts(s), List(s.head), NEW w \in Windows, ~Listed(s, w)
  PROVE  LET r == AtHead(s, w)
         IN  /\ Parts(r) /\ SameOrder(s, r, w) /\ Listed(r, w) /\ Index(r, w) = 1
             /\ r.win = s.win /\ r.screen = s.screen
<1> DEFINE r == AtHead(s, w)
           h == s.head
           g == <<w>> \o h
<1>6. r = [s EXCEPT !.head = g]
  BY DEF AtHead
<1>1. Parts(r) /\ r.head = g /\ r.win = s.win /\ r.screen = s.screen
  <2> HIDE DEF g, r
  <2> QED BY <1>6 DEF Parts
<1>2. h \in Seq(Windows) /\ Len(h) \in Nat /\ <<w>> \in Seq(Windows) /\ Len(<<w>>) = 1
  BY DEF List
<1>3. /\ g \in Seq(Windows) /\ Len(g) = 1 + Len(h)
      /\ \A i \in 1 .. 1 + Len(h) : g[i] = IF i <= 1 THEN <<w>>[i] ELSE h[i - 1]
  BY <1>2, ConcatProperties
<1> HIDE DEF h, g, r
<1>4. \A j \in 1 .. Len(h) + 1 :
        g[j] = IF j < 1 THEN h[j] ELSE IF j = 1 THEN w ELSE h[j - 1]
  <2> SUFFICES ASSUME NEW j \in 1 .. Len(h) + 1
               PROVE  g[j] = IF j = 1 THEN w ELSE h[j - 1]
    BY <1>2
  <2> QED BY <1>2, <1>3
<1>5. SameOrder(s, r, w) /\ Listed(r, w) /\ Index(r, w) = 1
  <2>1. 1 \in 1 .. Len(s.head) + 1 /\ Len(r.head) = Len(s.head) + 1 /\ r.head \in Seq(Windows)
    BY <1>1, <1>2, <1>3 DEF h
  <2>2. \A j \in 1 .. Len(s.head) + 1 :
          r.head[j] = IF j < 1 THEN s.head[j] ELSE IF j = 1 THEN w ELSE s.head[j - 1]
    BY <1>1, <1>4 DEF h
  <2> QED BY <2>1, <2>2, InsertKeepsOrder
<1> QED BY <1>1, <1>5 DEF r

(* __atwin: behind another window, or at the head.                         *)
LEMMA AtWinKeepsOrder ==
  ASSUME NEW s, Parts(s), List(s.head), NEW w \in Windows, ~Listed(s, w),
         NEW prev, prev = None \/ Listed(s, prev)
  PROVE  LET r == AtWin(s, w, prev)
         IN  /\ Parts(r) /\ SameOrder(s, r, w) /\ Listed(r, w)
             /\ r.win = s.win /\ r.screen = s.screen
<1> DEFINE r == AtWin(s, w, prev)
<1>1. CASE prev = None
  BY <1>1, AtHeadKeepsOrder DEF AtWin
<1>2. CASE prev # None
  <2> DEFINE h == s.head
             n == Index(s, prev) + 1
             a == SubSeq(h, 1, n - 1)
             b == SubSeq(h, n, Len(h))
             g == (a \o <<w>>) \o b
  <2>1. Parts(r) /\ r.head = g /\ r.win = s.win /\ r.screen = s.screen
    BY <1>2 DEF AtWin, InsertAt, Parts
  <2>2. /\ h \in Seq(Windows) /\ Len(h) \in Nat /\ <<w>> \in Seq(Windows) /\ Len(<<w>>) = 1
        /\ n \in 2 .. Len(h) + 1 /\ <<w>>[1] = w
    BY <1>2, IndexOf DEF List
  <2> HIDE DEF n
  <2>3. /\ a \in Seq(Windows) /\ Len(a) = n - 1
        /\ \A i \in 1 .. n - 1 : a[i] = h[i]
    BY <2>2
  <2>4. /\ b \in Seq(Windows) /\ Len(b) = Len(h) + 1 - n
        /\ \A i \in 1 .. Len(h) + 1 - n : b[i] = h[n - 1 + i]
    BY <2>2
  <2> DEFINE c == a \o <<w>>
  <2>5. /\ c \in Seq(Windows) /\ Len(c) = Len(a) + 1
        /\ \A i \in 1 .. Len(a) + 1 : c[i] = IF i <= Len(a) THEN a[i] ELSE <<w>>[i - Len(a)]
    BY <2>2, <2>3, ConcatProperties
  <2>6. /\ g \in Seq(Windows) /\ Len(g) = Len(c) + Len(b)
        /\ \A i \in 1 .. Len(c) + Len(b) : g[i] = IF i <= Len(c) THEN c[i] ELSE b[i - Len(c)]
    BY <2>4, <2>5, ConcatProperties
  <2> HIDE DEF a, b, c, g, h, r
  <2>7. Len(c) = n /\ Len(g) = Len(h) + 1
    BY <2>2, <2>3, <2>4, <2>5, <2>6
  <2>8. ASSUME NEW j \in 1 .. Len(h) + 1
        PROVE  g[j] = IF j < n THEN h[j] ELSE IF j = n THEN w ELSE h[j - 1]
    <3>1. j \in 1 .. Len(c) + Len(b) /\ j \in Nat
      BY <2>2, <2>4, <2>7
    <3>2. CASE j < n
      <4>1. j <= Len(c) /\ j \in 1 .. Len(a) + 1 /\ j <= Len(a) /\ j \in 1 .. n - 1
        BY <2>2, <2>3, <2>7, <3>2
      <4>2. g[j] = c[j]
        BY <2>6, <3>1, <4>1
      <4>3. c[j] = a[j]
        BY <2>5, <4>1
      <4> QED BY <2>3, <3>2, <4>1, <4>2, <4>3
    <3>3. CASE j = n
      <4>1. j <= Len(c) /\ j \in 1 .. Len(a) + 1 /\ ~(j <= Len(a)) /\ j - Len(a) = 1 /\ ~(j < n)
        BY <2>2, <2>3, <2>7, <3>3
      <4>2. g[j] = c[j]
        BY <2>6, <3>1, <4>1
      <4>3. c[j] = <<w>>[j - Len(a)]
        BY <2>5, <4>1
      <4> QED BY <2>2, <3>3, <4>1, <4>2, <4>3
    <3>4. CASE j > n
      <4>1. /\ ~(j <= Len(c)) /\ j - Len(c) \in 1 .. Len(h) + 1 - n
            /\ n - 1 + (j - Len(c)) = j - 1 /\ ~(j < n) /\ j # n
        BY <2>2, <2>7, <3>4
      <4>2. g[j] = b[j - Len(c)]
        BY <2>6, <3>1, <4>1
      <4>3. b[j - Len(c)] = h[j - 1]
        BY <2>4, <4>1
      <4> QED BY <4>1, <4>2, <4>3
    <3> QED BY <2>2, <3>2, <3>3, <3>4
  <2>9. SameOrder(s, r, w) /\ Listed(r, w) /\ Index(r, w) = n
    <3>3. n \in 1 .. Len(h) + 1
      BY <2>2
    <3>1. n \in 1 .. Len(s.head) + 1 /\ Len(r.head) = Len(s.head) + 1 /\ r.head \in Seq(Windows)
      BY <2>1, <2>6, <2>7, <3>3 DEF h
    <3>2. \A j \in 1 .. Len(s.head) + 1 :
            r.head[j] = IF j < n THEN s.head[j] ELSE IF j = n THEN w ELSE s.head[j - 1]
      BY <2>1, <2>8 DEF h
    <3> QED BY <3>1, <3>2, InsertKeepsOrder
  <2> QED BY <2>1, <2>9 DEF r
<1> QED BY <1>1, <1>2

(* __prevwin.                                                              *)
LEMMA PrevIs ==
  ASSUME NEW s, List(s.head), NEW w, Listed(s, w)
  PROVE  prevwin(s, w) = None \/ (Listed(s, prevwin(s, w)) /\ prevwin(s, w) # w)
<1> DEFINE n == Index(s, w)
<1>1. n \in 1 .. Len(s.head) /\ Len(s.head) \in Nat /\ s.head[n] = w
  BY IndexOf DEF List
<1>2. prevwin(s, w) = IF n <= 1 THEN None ELSE s.head[n - 1]
  BY DEF prevwin
<1> HIDE DEF n
<1>3. ASSUME ~(n <= 1)
      PROVE  Listed(s, s.head[n - 1]) /\ s.head[n - 1] # w
  <2>1. n - 1 \in 1 .. Len(s.head) /\ n - 1 # n
    BY <1>1, <1>3
  <2>2. \A i, j \in 1 .. Len(s.head) : s.head[i] = s.head[j] => i = j
    BY DEF List
  <2>3. s.head[n - 1] # s.head[n]
    BY <1>1, <2>1, <2>2
  <2> QED BY <1>1, <2>1, <2>3, IndexOf
<1> QED BY <1>2, <1>3

-----------------------------------------------------------------------------
(* One field of a window is replaced, the others stay.                     *)
SameText(a, b) == Alike(a, b) /\ a.body = b.body /\ a.enabled = b.enabled

(* The fields of a window, set one at a time.                              *)
LEMMA NewOwed ==
  ASSUME NEW v, Window(v), NEW o
  PROVE  LET n == [v EXCEPT !.owed = o]
         IN  Window(n) /\ SameText(n, v) /\ n.saved = v.saved /\ n.owed = o
<1> DEFINE n == [v EXCEPT !.owed = o]
<1>1. n = [X1 |-> v.X1, Y1 |-> v.Y1, wwidth |-> v.wwidth, wheight |-> v.wheight,
           visible |-> v.visible, enabled |-> v.enabled, body |-> v.body,
           saved |-> v.saved, owed |-> o]
  BY DEF Window, Record
<1> HIDE DEF n
<1>2. Record(n)
  BY <1>1 DEF Record
<1>3. /\ n.X1 = v.X1 /\ n.Y1 = v.Y1 /\ n.wwidth = v.wwidth /\ n.wheight = v.wheight
  BY <1>1
<1>4. n.visible = v.visible
  BY <1>1
<1>5. n.enabled = v.enabled
  BY <1>1
<1>6. n.body = v.body /\ n.saved = v.saved /\ n.owed = o
  BY <1>1
<1>7. Alike(n, v) /\ Cells(n) = Cells(v)
  BY <1>3, <1>4 DEF Alike, Cells
<1>8. Window(n)
  BY <1>2, <1>3, <1>4, <1>5, <1>6, <1>7 DEF Window
<1> QED BY <1>5, <1>6, <1>7, <1>8 DEF n, SameText

(* The save-under buffer of a window is set.                               *)
LEMMA NewSaved ==
  ASSUME NEW v, Window(v), NEW sv, sv = [k \in Cells(v) |-> sv[k]]
  PROVE  LET n == [v EXCEPT !.saved = sv]
         IN  Window(n) /\ SameText(n, v) /\ n.saved = sv /\ n.owed = v.owed
<1> DEFINE n == [v EXCEPT !.saved = sv]
<1>1. n = [X1 |-> v.X1, Y1 |-> v.Y1, wwidth |-> v.wwidth, wheight |-> v.wheight,
           visible |-> v.visible, enabled |-> v.enabled, body |-> v.body,
           saved |-> sv, owed |-> v.owed]
  BY DEF Window, Record
<1> HIDE DEF n
<1>2. Record(n)
  BY <1>1 DEF Record
<1>3. /\ n.X1 = v.X1 /\ n.Y1 = v.Y1 /\ n.wwidth = v.wwidth /\ n.wheight = v.wheight
  BY <1>1
<1>4. n.visible = v.visible
  BY <1>1
<1>5. n.enabled = v.enabled
  BY <1>1
<1>6. n.body = v.body /\ n.saved = sv /\ n.owed = v.owed
  BY <1>1
<1>7. Alike(n, v) /\ Cells(n) = Cells(v)
  BY <1>3, <1>4 DEF Alike, Cells
<1>8. Window(n)
  BY <1>2, <1>3, <1>4, <1>5, <1>6, <1>7 DEF Window
<1> QED BY <1>5, <1>6, <1>7, <1>8 DEF n, SameText

(* The body of a window is set.                                            *)
LEMMA NewBody ==
  ASSUME NEW v, Window(v), NEW bd, bd = [k \in Cells(v) |-> bd[k]]
  PROVE  LET n == [v EXCEPT !.body = bd]
         IN  /\ Window(n) /\ Alike(n, v) /\ n.enabled = v.enabled
             /\ n.body = bd /\ n.saved = v.saved /\ n.owed = v.owed
<1> DEFINE n == [v EXCEPT !.body = bd]
<1>1. n = [X1 |-> v.X1, Y1 |-> v.Y1, wwidth |-> v.wwidth, wheight |-> v.wheight,
           visible |-> v.visible, enabled |-> v.enabled, body |-> bd,
           saved |-> v.saved, owed |-> v.owed]
  BY DEF Window, Record
<1> HIDE DEF n
<1>2. Record(n)
  BY <1>1 DEF Record
<1>3. /\ n.X1 = v.X1 /\ n.Y1 = v.Y1 /\ n.wwidth = v.wwidth /\ n.wheight = v.wheight
  BY <1>1
<1>4. n.visible = v.visible
  BY <1>1
<1>5. n.enabled = v.enabled
  BY <1>1
<1>6. n.body = bd /\ n.saved = v.saved /\ n.owed = v.owed
  BY <1>1
<1>7. Alike(n, v) /\ Cells(n) = Cells(v)
  BY <1>3, <1>4 DEF Alike, Cells
<1>8. Window(n)
  BY <1>2, <1>3, <1>4, <1>5, <1>6, <1>7 DEF Window
<1> QED BY <1>5, <1>6, <1>7, <1>8 DEF n

(* A window is shown or hidden.                                            *)
LEMMA NewVisible ==
  ASSUME NEW v, Window(v), NEW b \in BOOLEAN
  PROVE  LET n == [v EXCEPT !.visible = b]
         IN  /\ Window(n) /\ n.visible = b /\ n.enabled = v.enabled
             /\ n.X1 = v.X1 /\ n.Y1 = v.Y1 /\ n.wwidth = v.wwidth /\ n.wheight = v.wheight
             /\ n.body = v.body /\ n.saved = v.saved /\ n.owed = v.owed
<1> DEFINE n == [v EXCEPT !.visible = b]
<1>1. n = [X1 |-> v.X1, Y1 |-> v.Y1, wwidth |-> v.wwidth, wheight |-> v.wheight,
           visible |-> b, enabled |-> v.enabled, body |-> v.body,
           saved |-> v.saved, owed |-> v.owed]
  BY DEF Window, Record
<1> HIDE DEF n
<1>2. Record(n)
  BY <1>1 DEF Record
<1>3. /\ n.X1 = v.X1 /\ n.Y1 = v.Y1 /\ n.wwidth = v.wwidth /\ n.wheight = v.wheight
  BY <1>1
<1>4. n.visible = b
  BY <1>1
<1>5. n.enabled = v.enabled
  BY <1>1
<1>6. n.body = v.body /\ n.saved = v.saved /\ n.owed = v.owed
  BY <1>1
<1>7. Cells(n) = Cells(v)
  BY <1>3 DEF Cells
<1>8. Window(n)
  BY <1>2, <1>3, <1>4, <1>5, <1>6, <1>7 DEF Window
<1> QED BY <1>3, <1>4, <1>5, <1>6, <1>8 DEF n

(* A window is thawed or frozen.                                           *)
LEMMA NewEnabled ==
  ASSUME NEW v, Window(v), NEW b \in BOOLEAN
  PROVE  LET n == [v EXCEPT !.enabled = b]
         IN  /\ Window(n) /\ Alike(n, v) /\ n.enabled = b
             /\ n.body = v.body /\ n.saved = v.saved /\ n.owed = v.owed
<1> DEFINE n == [v EXCEPT !.enabled = b]
<1>1. n = [X1 |-> v.X1, Y1 |-> v.Y1, wwidth |-> v.wwidth, wheight |-> v.wheight,
           visible |-> v.visible, enabled |-> b, body |-> v.body,
           saved |-> v.saved, owed |-> v.owed]
  BY DEF Window, Record
<1> HIDE DEF n
<1>2. Record(n)
  BY <1>1 DEF Record
<1>3. /\ n.X1 = v.X1 /\ n.Y1 = v.Y1 /\ n.wwidth = v.wwidth /\ n.wheight = v.wheight
  BY <1>1
<1>4. n.visible = v.visible
  BY <1>1
<1>5. n.enabled = b
  BY <1>1
<1>6. n.body = v.body /\ n.saved = v.saved /\ n.owed = v.owed
  BY <1>1
<1>7. Alike(n, v) /\ Cells(n) = Cells(v)
  BY <1>3, <1>4 DEF Alike, Cells
<1>8. Window(n)
  BY <1>2, <1>3, <1>4, <1>5, <1>6, <1>7 DEF Window
<1> QED BY <1>5, <1>6, <1>7, <1>8 DEF n

-----------------------------------------------------------------------------
(* The chain of windows at a place.  Under a window is what it has saved   *)
(* there; under no window, which is the glass in front of all of them, is  *)
(* what the screen shows.                                                  *)
Reaches(s, u, p) == u = None \/ Covering(s, u, p)

(* What is held for the window beneath: on the screen, or in a buffer.     *)
Under(s, u, p) == IF u = None THEN s.screen[p]
                  ELSE s.win[u].saved[CellAt(s.win[u], p)]

(* One window in front of another, and the screen in front of all.         *)
Higher(s, u, x) == Index(s, u) < Index(s, x)

(* The next window beneath one, and that there is none.                    *)
Beneath(s, u, x, p) ==
  /\ Covering(s, x, p) /\ Higher(s, u, x)
  /\ \A y : Covering(s, y, p) => ~(Higher(s, u, y) /\ Higher(s, y, x))

(* No window covers the place beneath this one.                            *)
Bottom(s, u, p) == \A y : Covering(s, y, p) => ~Higher(s, u, y)

(* What is held for a window at a place is what it has there: unless it    *)
(* owes that cell, or the cell is one of those that an operation has       *)
(* written to the body of w and is about to send.                          *)
Reads(s, w, D, x, p, symbol) ==
  \/ CellAt(s.win[x], p) \in s.win[x].owed
  \/ x = w /\ CellAt(s.win[x], p) \in D
  \/ symbol = s.win[x].body[CellAt(s.win[x], p)]

(* A link of the chain: what is held is what the next window has there.    *)
Link(s, w, D, u, p) ==
  /\ \A x : Beneath(s, u, x, p) => Reads(s, w, D, x, p, Under(s, u, p))
  /\ Bottom(s, u, p) => Under(s, u, p) = Desktop

(* All the chains of windows, at all places of the screen.                 *)
Chain(s, w, D) ==
  \A p \in Screen : \A u : Reaches(s, u, p) => Link(s, w, D, u, p)

(* Indices are numbers, no two of the windows have the same, and that of   *)
(* no window is less than all of them.                                     *)
LEMMA Ranks ==
  ASSUME NEW s, List(s.head)
  PROVE  /\ \A u : Index(s, u) \in Nat
         /\ Index(s, None) = 0 /\ ~Listed(s, None)
         /\ \A u : Listed(s, u) => u \in Windows /\ u # None /\ Index(s, u) > 0
         /\ \A u, x : Listed(s, u) /\ Listed(s, x) /\ Index(s, u) = Index(s, x) => u = x
<1>1. None \notin Windows
  BY TwinAssumption
<1>2. Len(s.head) \in Nat
  BY DEF List
<1>3. \A u : /\ Listed(s, u) => /\ u \in Windows
                                /\ Index(s, u) \in 1 .. Len(s.head)
                                /\ s.head[Index(s, u)] = u
             /\ ~Listed(s, u) => Index(s, u) = 0
  BY IndexOf
<1>4. \A u : Index(s, u) \in Nat
  <2> SUFFICES ASSUME NEW u PROVE Index(s, u) \in Nat
    OBVIOUS
  <2>1. CASE Listed(s, u)
    BY <1>2, <1>3, <2>1
  <2>2. CASE ~Listed(s, u)
    BY <1>3, <2>2
  <2> QED BY <2>1, <2>2
<1>5. ~Listed(s, None) /\ Index(s, None) = 0
  BY <1>1, <1>3
<1>6. ASSUME NEW u, Listed(s, u)
      PROVE  u \in Windows /\ u # None /\ Index(s, u) > 0
  BY <1>1, <1>2, <1>3, <1>6
<1>7. ASSUME NEW u, NEW x, Listed(s, u), Listed(s, x), Index(s, u) = Index(s, x)
      PROVE  u = x
  BY <1>3, <1>7
<1> QED BY <1>4, <1>5, <1>6, <1>7

-----------------------------------------------------------------------------
(* What sending cells to the screen does: the window it is about owes them *)
(* or no longer owes them; and at each of their places the symbol goes to  *)
(* the lowest window above, or to the screen if there is none.             *)
Sent(s, w, cells, p) == Covers(s.win[w], p) /\ CellAt(s.win[w], p) \in cells

(* What Update changes: owed cells, and what is held at the places sent.   *)
Delivers(s, r, w, cells, buff, accel, written) ==
  /\ State(r) /\ r.head = s.head
  /\ \A u \in Windows : Listed(s, u) => SameText(r.win[u], s.win[u])
  /\ \A u \in Windows \ {w} : r.win[u].owed = s.win[u].owed
  /\ r.win[w].owed = IF s.win[w].enabled THEN s.win[w].owed \ cells
                     ELSE s.win[w].owed \cup cells
  /\ \A p \in Screen : \A u : Reaches(s, u, p) =>
       Under(r, u, p) =
         IF ~Sent(s, w, cells, p) THEN Under(s, u, p)
         ELSE IF u = FindOver(s, w, p) /\ (u = None => written)
           THEN buff[CellAt(s.win[w], p)]
         ELSE IF u = None /\ written /\ accel
           THEN s.win[AtPoint(s, p)].body[CellAt(s.win[AtPoint(s, p)], p)]
         ELSE Under(s, u, p)

(* Update changes what Delivers says and nothing else.                     *)
LEMMA UpdateGives ==
  ASSUME NEW s, State(s), NEW w, Listed(s, w), s.win[w].visible = TRUE,
         NEW cells, NEW buff, NEW accel \in BOOLEAN, NEW written \in BOOLEAN
  PROVE  Delivers(s, Update(s, w, cells, buff, accel, written), w, cells, buff, accel, written)
<1> DEFINE v == s.win[w]
           over == Above(s, w)
           owes == IF v.enabled THEN v.owed \ cells ELSE v.owed \cup cells
           Shown(p) ==
             IF over = {} \/ FindOver(s, w, p) = None THEN buff[CellAt(v, p)]
             ELSE IF accel THEN LET top == s.win[AtPoint(s, p)]
                                IN  top.body[CellAt(top, p)]
             ELSE s.screen[p]
           W(u) == IF u = w THEN [v EXCEPT !.owed = owes]
                   ELSE IF u \in over
                     THEN [s.win[u] EXCEPT !.saved = Saving(s, w, u, cells, buff)]
                   ELSE s.win[u]
           glass == IF ~written THEN s.screen
                    ELSE [p \in Screen |-> IF Covers(v, p) /\ CellAt(v, p) \in cells
                                           THEN Shown(p) ELSE s.screen[p]]
           r == Update(s, w, cells, buff, accel, written)
<1>1. /\ Parts(s) /\ List(s.head) /\ w \in Windows
      /\ \A u \in Windows : Listed(s, u) => Window(s.win[u])
  BY IndexOf DEF State
<1>2. r = [head |-> s.head, win |-> [u \in Windows |-> W(u)], screen |-> glass]
  <2>3. r = [s EXCEPT !.win = [u \in Windows |-> W(u)], !.screen = glass]
    BY DEF Update
  <2> DEFINE wins == [u \in Windows |-> W(u)]
  <2> HIDE DEF wins, glass, r
  <2>4. r = [s EXCEPT !.win = wins, !.screen = glass]
    BY <2>3 DEF wins
  <2>5. s = [head |-> s.head, win |-> s.win, screen |-> s.screen]
    BY <1>1 DEF Parts
  <2>6. r = [head |-> s.head, win |-> wins, screen |-> glass]
    BY <2>4, <2>5
  <2> QED BY <2>6 DEF wins
<1> HIDE DEF r
<1>3. /\ r.head = s.head /\ r.screen = glass
      /\ r.win = [u \in Windows |-> W(u)] /\ \A u \in Windows : r.win[u] = W(u)
  BY <1>2
<1>4. \A p \in Screen : glass[p] = IF written /\ Sent(s, w, cells, p) THEN Shown(p) ELSE s.screen[p]
  BY DEF Sent
<1>5. glass = [p \in Screen |-> glass[p]]
  BY <1>1 DEF Parts
<1> HIDE DEF glass, W
<1>6. Parts(r)
  BY <1>2, <1>3, <1>5 DEF Parts
<1>7. r.win[w] = [v EXCEPT !.owed = owes]
  <2>1. r.win[w] = W(w)
    BY <1>1, <1>3
  <2> HIDE DEF owes
  <2> QED BY <2>1 DEF W
<1>8. Window(r.win[w]) /\ SameText(r.win[w], v) /\ r.win[w].saved = v.saved /\ r.win[w].owed = owes
  <2> HIDE DEF v, owes
  <2> QED BY <1>1, <1>7, NewOwed DEF v
<1>9. ASSUME NEW u \in Windows \ {w}, u \in over
      PROVE  /\ Listed(s, u) /\ Window(r.win[u]) /\ SameText(r.win[u], s.win[u])
             /\ r.win[u].owed = s.win[u].owed
             /\ r.win[u].saved = Saving(s, w, u, cells, buff)
             /\ DOMAIN s.win[u].saved = Cells(s.win[u])
  <2>1. r.win[u] = [s.win[u] EXCEPT !.saved = Saving(s, w, u, cells, buff)]
    BY <1>3, <1>9 DEF W
  <2>2. Listed(s, u) /\ Window(s.win[u])
    BY <1>1, <1>9, AboveIs
  <2>3. DOMAIN s.win[u].saved = Cells(s.win[u])
    BY <2>2 DEF Window
  <2> DEFINE sv == Saving(s, w, u, cells, buff)
  <2>4. sv = [k \in Cells(s.win[u]) |-> sv[k]]
    BY <2>3 DEF Saving
  <2> HIDE DEF sv
  <2> QED BY <2>1, <2>2, <2>3, <2>4, NewSaved DEF sv
<1>10. ASSUME NEW u \in Windows \ {w}, u \notin over
       PROVE  r.win[u] = s.win[u]
  BY <1>3, <1>10 DEF W
<1>11. \A u \in Windows : Listed(s, u) => Window(r.win[u]) /\ SameText(r.win[u], s.win[u])
  <2> SUFFICES ASSUME NEW u \in Windows, Listed(s, u)
               PROVE  Window(r.win[u]) /\ SameText(r.win[u], s.win[u])
    OBVIOUS
  <2>1. CASE u = w
    BY <1>8, <2>1
  <2>2. CASE u # w /\ u \in over
    BY <1>9, <2>2
  <2>3. CASE u # w /\ u \notin over
    BY <1>1, <1>10, <2>3 DEF SameText, Alike
  <2> HIDE DEF over
  <2> QED BY <2>1, <2>2, <2>3
<1>12. \A u \in Windows \ {w} : r.win[u].owed = s.win[u].owed
  <2> HIDE DEF over
  <2> QED BY <1>9, <1>10
<1>13. State(r)
  BY <1>1, <1>3, <1>6, <1>11 DEF State, Listed
<1>14. ASSUME NEW p \in Screen, NEW u, Reaches(s, u, p)
       PROVE  Under(r, u, p) =
                IF ~Sent(s, w, cells, p) THEN Under(s, u, p)
                ELSE IF u = FindOver(s, w, p) /\ (u = None => written)
                  THEN buff[CellAt(s.win[w], p)]
                ELSE IF u = None /\ written /\ accel
                  THEN s.win[AtPoint(s, p)].body[CellAt(s.win[AtPoint(s, p)], p)]
                ELSE Under(s, u, p)
  <2> DEFINE L == FindOver(s, w, p)
  <2>0. p \in Int \X Int
    BY ScreenPlaces
  <2>1. CASE u = None
    <3>1. Under(r, u, p) = glass[p] /\ Under(s, u, p) = s.screen[p]
      BY <1>3, <2>1 DEF Under
    <3>2. Sent(s, w, cells, p) /\ L # None => over # {}
      <4> SUFFICES ASSUME L # None PROVE L \in over
        OBVIOUS
      <4>1. Covering(s, L, p) /\ Index(s, L) < Index(s, w)
        BY <1>1, FindOverIs
      <4> QED BY <1>1, <4>1, AboveIs DEF Covering, Covers
    <3> HIDE DEF L, over
    <3> QED BY <1>4, <2>1, <3>1, <3>2 DEF L
  <2>2. CASE u # None
    <3>1. u \in Windows /\ Listed(s, u) /\ Covers(s.win[u], p)
      <4>1. Covering(s, u, p)
        BY <1>14, <2>2 DEF Reaches
      <4> QED BY <1>1, <4>1, IndexOf DEF Covering
    <3>2. Window(s.win[u])
      BY <1>1, <3>1
    <3> DEFINE k == CellAt(s.win[u], p)
    <3>3. k \in Cells(s.win[u]) /\ Pos(s.win[u], k) = p
      BY <2>0, <3>1, <3>2, CellOfPlace
    <3>4. CellAt(r.win[u], p) = k
      <4>1. Alike(r.win[u], s.win[u])
        BY <1>11, <3>1 DEF SameText
      <4> QED BY <4>1, AlikePlaces
    <3>5. Under(r, u, p) = r.win[u].saved[k] /\ Under(s, u, p) = s.win[u].saved[k]
      BY <2>2, <3>4 DEF Under
    <3> HIDE DEF k
    <3>6. CASE u = w
      <4>1. r.win[u].saved = s.win[u].saved
        BY <1>8, <3>6
      <4>2. L # u
        <5> SUFFICES ASSUME L = w PROVE FALSE
          BY <3>6
        <5>1. Index(s, w) < Index(s, w) /\ Index(s, w) \in Nat
          BY <1>1, <2>2, <3>6, FindOverIs, Ranks
        <5> QED BY <5>1
      <4> QED BY <2>2, <3>5, <4>1, <4>2
    <3>7. CASE u # w /\ u \in over
      <4>1. r.win[u].saved = Saving(s, w, u, cells, buff) /\ DOMAIN s.win[u].saved = Cells(s.win[u])
        BY <1>9, <3>1, <3>7
      <4>2. r.win[u].saved[k] = IF /\ Covers(v, p) /\ CellAt(v, p) \in cells
                                   /\ FindOver(s, w, p) = u
                                THEN buff[CellAt(v, p)] ELSE s.win[u].saved[k]
        BY <3>3, <4>1 DEF Saving
      <4> QED BY <2>2, <3>5, <4>2 DEF Sent
    <3>8. CASE u # w /\ u \notin over
      <4>1. r.win[u].saved = s.win[u].saved
        BY <1>10, <3>1, <3>8
      <4>2. L # u
        <5> SUFFICES ASSUME L = u PROVE u \in over
          BY <3>8
        <5>1. Covering(s, u, p) /\ Index(s, u) < Index(s, w)
          BY <1>1, <2>2, FindOverIs
        <5> QED BY <1>1, <5>1, AboveIs DEF Covering, Covers
      <4> QED BY <2>2, <3>5, <4>1, <4>2
    <3> HIDE DEF over
    <3> QED BY <3>6, <3>7, <3>8
  <2> QED BY <2>1, <2>2
<1> HIDE DEF v, owes
<1> QED BY <1>3, <1>8, <1>11, <1>12, <1>13, <1>14 DEF r, v, owes, Delivers

-----------------------------------------------------------------------------
(* The order of a chain: one window follows another, and only one.         *)
LEMMA OneBeneath ==
  ASSUME NEW s, List(s.head), NEW p, NEW u
  PROVE  /\ \A x, y : Beneath(s, u, x, p) /\ Beneath(s, u, y, p) => x = y
         /\ \A x : Reaches(s, u, p) => \A z : Reaches(s, z, p)
              /\ Beneath(s, u, x, p) /\ Beneath(s, z, x, p) => u = z
         /\ \A x : Beneath(s, u, x, p) => ~Bottom(s, u, p)
<1>1. /\ \A z : Index(s, z) \in Nat
      /\ \A z : Listed(s, z) => Index(s, z) > Index(s, None)
      /\ \A z, x : Listed(s, z) /\ Listed(s, x) /\ Index(s, z) = Index(s, x) => z = x
  BY Ranks
<1>2. ASSUME NEW x, NEW y, Beneath(s, u, x, p), Beneath(s, u, y, p)
      PROVE  x = y
  <2>1. /\ Listed(s, x) /\ Listed(s, y)
        /\ ~(Index(s, x) < Index(s, y)) /\ ~(Index(s, y) < Index(s, x))
    BY <1>2 DEF Beneath, Covering, Higher
  <2>2. Index(s, x) = Index(s, y)
    BY <1>1, <2>1
  <2> QED BY <1>1, <2>1, <2>2
<1>3. ASSUME NEW x, NEW z, Reaches(s, u, p), Reaches(s, z, p),
             Beneath(s, u, x, p), Beneath(s, z, x, p)
      PROVE  u = z
  <2>1. CASE u = None /\ z = None
    BY <2>1
  <2>2. CASE u = None /\ z # None
    <3>1. Covering(s, z, p) /\ Index(s, u) < Index(s, z) /\ Index(s, z) < Index(s, x)
      BY <1>1, <1>3, <2>2 DEF Reaches, Beneath, Higher, Covering
    <3> QED BY <1>3, <3>1 DEF Beneath, Higher
  <2>3. CASE u # None /\ z = None
    <3>1. Covering(s, u, p) /\ Index(s, z) < Index(s, u) /\ Index(s, u) < Index(s, x)
      BY <1>1, <1>3, <2>3 DEF Reaches, Beneath, Higher, Covering
    <3> QED BY <1>3, <3>1 DEF Beneath, Higher
  <2>4. CASE u # None /\ z # None
    <3>1. /\ Covering(s, u, p) /\ Covering(s, z, p)
          /\ Index(s, u) < Index(s, x) /\ Index(s, z) < Index(s, x)
      BY <1>3, <2>4 DEF Reaches, Beneath, Higher
    <3>2. ~(Index(s, u) < Index(s, z)) /\ ~(Index(s, z) < Index(s, u))
      BY <1>3, <3>1 DEF Beneath, Higher
    <3>3. Index(s, u) = Index(s, z)
      BY <1>1, <3>2
    <3> QED BY <1>1, <3>1, <3>3 DEF Covering
  <2> QED BY <2>1, <2>2, <2>3, <2>4
<1>4. ASSUME NEW x, Beneath(s, u, x, p)
      PROVE  ~Bottom(s, u, p)
  BY <1>4 DEF Beneath, Bottom
<1> QED BY <1>2, <1>3, <1>4

(* __find_over gives the window that a window is beneath.                  *)
LEMMA OverIsNext ==
  ASSUME NEW s, List(s.head), NEW w, NEW p, Covering(s, w, p)
  PROVE  Reaches(s, FindOver(s, w, p), p) /\ Beneath(s, FindOver(s, w, p), w, p)
<1> DEFINE L == FindOver(s, w, p)
<1>1. /\ \A z : Index(s, z) \in Nat
      /\ \A z : Listed(s, z) => Index(s, z) > Index(s, None)
  BY Ranks
<1>2. /\ L # None => Covering(s, L, p) /\ Index(s, L) < Index(s, w)
      /\ \A y : Covering(s, y, p) /\ Index(s, y) < Index(s, w)
                => L # None /\ Index(s, y) <= Index(s, L)
  BY FindOverIs DEF Covering
<1> HIDE DEF L
<1>3. Reaches(s, L, p)
  BY <1>2 DEF Reaches
<1>4. Higher(s, L, w)
  <2>1. CASE L = None
    BY <1>1, <2>1 DEF Higher, Covering
  <2>2. CASE L # None
    BY <1>2, <2>2 DEF Higher
  <2> QED BY <2>1, <2>2
<1>5. ASSUME NEW y, Covering(s, y, p), Higher(s, L, y), Higher(s, y, w)
      PROVE  FALSE
  <2>1. Index(s, y) <= Index(s, L) /\ Index(s, L) < Index(s, y)
    BY <1>2, <1>5 DEF Higher
  <2> QED BY <1>1, <2>1
<1> QED BY <1>3, <1>4, <1>5 DEF L, Beneath

(* __at_point gives the first window of the chain.                         *)
LEMMA TopIsNext ==
  ASSUME NEW s, List(s.head), NEW p
  PROVE  /\ AtPoint(s, p) # None => Beneath(s, None, AtPoint(s, p), p)
         /\ AtPoint(s, p) = None => Bottom(s, None, p)
         /\ \A x : Beneath(s, None, x, p) => x = AtPoint(s, p)
<1> DEFINE T == AtPoint(s, p)
<1>1. /\ \A z : Index(s, z) \in Nat
      /\ \A z : Listed(s, z) => Index(s, z) > Index(s, None)
  BY Ranks
<1>2. /\ T # None => Covering(s, T, p)
      /\ \A y : Covering(s, y, p) => T # None /\ Index(s, T) <= Index(s, y)
  BY AtPointIs
<1> HIDE DEF T
<1>3. ASSUME T # None
      PROVE  Beneath(s, None, T, p)
  <2>1. Covering(s, T, p) /\ Index(s, None) < Index(s, T)
    BY <1>1, <1>2, <1>3 DEF Covering
  <2>2. ASSUME NEW y, Covering(s, y, p), Index(s, y) < Index(s, T)
        PROVE  FALSE
    BY <1>1, <1>2, <2>2
  <2> QED BY <2>1, <2>2 DEF Beneath, Higher
<1>4. T = None => Bottom(s, None, p)
  BY <1>2 DEF Bottom
<1>5. ASSUME NEW x, Beneath(s, None, x, p)
      PROVE  x = T
  <2>1. T # None
    BY <1>2, <1>5 DEF Beneath
  <2> QED BY <1>3, <1>5, <2>1, OneBeneath
<1> QED BY <1>3, <1>4, <1>5 DEF T

(* A chain with and without one window.                                    *)
LEMMA TakeOut ==
  ASSUME NEW s, NEW r, NEW w, NEW p, List(s.head), SameOrder(s, r, w),
         \A y : Covering(r, y, p) <=> Covering(s, y, p) /\ y # w,
         w # None, NEW u, Reaches(r, u, p)
  PROVE  /\ u # w /\ Reaches(s, u, p)
         /\ \A x : Beneath(r, u, x, p) =>
              Beneath(s, u, x, p) \/ (Beneath(s, u, w, p) /\ Beneath(s, w, x, p))
         /\ Bottom(r, u, p) =>
              Bottom(s, u, p) \/ (Beneath(s, u, w, p) /\ Bottom(s, w, p))
         /\ \A x : Beneath(s, u, x, p) /\ x # w => Beneath(r, u, x, p)
         /\ Bottom(s, u, p) => Bottom(r, u, p)
         /\ \A x : Beneath(s, u, w, p) /\ Beneath(s, w, x, p) => Beneath(r, u, x, p)
         /\ Beneath(s, u, w, p) /\ Bottom(s, w, p) => Bottom(r, u, p)
<1>1. /\ \A z : Index(s, z) \in Nat
      /\ \A z : Listed(s, z) => z \in Windows /\ Index(s, z) > Index(s, None)
      /\ \A z, x : Listed(s, z) /\ Listed(s, x) /\ Index(s, z) = Index(s, x) => z = x
  BY Ranks
<1>2. /\ \A z : Index(r, z) \in Nat
      /\ \A z : Listed(r, z) => z \in Windows /\ Index(r, z) > Index(r, None)
  <2>1. List(r.head)
    BY DEF SameOrder
  <2> QED BY <2>1, Ranks
<1>3. u # w /\ Reaches(s, u, p)
  BY DEF Reaches
<1>4. \A a, b : Reaches(r, a, p) /\ Covering(r, b, p) =>
        (Higher(r, a, b) <=> Higher(s, a, b))
  <2> SUFFICES ASSUME NEW a, NEW b, Reaches(r, a, p), Covering(r, b, p)
               PROVE  Higher(r, a, b) <=> Higher(s, a, b)
    OBVIOUS
  <2>1. Listed(r, b) /\ Listed(s, b) /\ b \in Windows \ {w}
    BY <1>1 DEF Covering
  <2>2. CASE a = None
    BY <1>1, <1>2, <2>1, <2>2 DEF Higher
  <2>3. CASE a # None
    <3>1. Listed(s, a) /\ a \in Windows \ {w}
      BY <1>1, <2>3 DEF Reaches, Covering
    <3> QED BY <2>1, <3>1 DEF Higher, SameOrder
  <2> QED BY <2>2, <2>3
<1>5. \A b : Covering(r, b, p) => Reaches(r, b, p)
  BY DEF Reaches
<1>6. \A a, b, c : Higher(s, a, b) /\ Higher(s, b, c) => Higher(s, a, c)
  BY <1>1 DEF Higher
<1>7. \A a, b : Covering(s, a, p) /\ Covering(s, b, p) /\ a # b =>
         Higher(s, a, b) \/ Higher(s, b, a)
  BY <1>1 DEF Higher, Covering
<1>8. \A a : ~Higher(s, a, a)
  BY <1>1 DEF Higher
<1>9. \A y : Covering(r, y, p) <=> Covering(s, y, p) /\ y # w
  OBVIOUS
<1>10. ASSUME NEW x, Beneath(r, u, x, p)
       PROVE  Beneath(s, u, x, p) \/ (Beneath(s, u, w, p) /\ Beneath(s, w, x, p))
  <2>1. /\ Covering(r, x, p) /\ Covering(s, x, p) /\ x # w /\ Higher(s, u, x)
        /\ \A y : Covering(s, y, p) /\ y # w => ~(Higher(s, u, y) /\ Higher(s, y, x))
    BY <1>4, <1>5, <1>9, <1>10 DEF Beneath
  <2>2. CASE Covering(s, w, p) /\ Higher(s, u, w) /\ Higher(s, w, x)
    <3>1. Beneath(s, u, w, p)
      BY <1>6, <1>8, <2>1, <2>2 DEF Beneath
    <3>2. Beneath(s, w, x, p)
      BY <1>6, <1>8, <2>1, <2>2 DEF Beneath
    <3> QED BY <3>1, <3>2
  <2>3. CASE ~(Covering(s, w, p) /\ Higher(s, u, w) /\ Higher(s, w, x))
    BY <2>1, <2>3 DEF Beneath
  <2> QED BY <2>2, <2>3
<1>11. ASSUME Bottom(r, u, p)
       PROVE  Bottom(s, u, p) \/ (Beneath(s, u, w, p) /\ Bottom(s, w, p))
  <2>1. \A y : Covering(s, y, p) /\ y # w => ~Higher(s, u, y)
    BY <1>4, <1>5, <1>9, <1>11 DEF Bottom
  <2>2. CASE Covering(s, w, p) /\ Higher(s, u, w)
    <3>1. Beneath(s, u, w, p)
      BY <1>6, <1>8, <2>1, <2>2 DEF Beneath
    <3>2. Bottom(s, w, p)
      BY <1>6, <1>8, <2>1, <2>2 DEF Bottom
    <3> QED BY <3>1, <3>2
  <2>3. CASE ~(Covering(s, w, p) /\ Higher(s, u, w))
    BY <2>1, <2>3 DEF Bottom
  <2> QED BY <2>2, <2>3
<1>12. ASSUME NEW x, Beneath(s, u, x, p), x # w
       PROVE  Beneath(r, u, x, p)
  BY <1>4, <1>5, <1>9, <1>12 DEF Beneath
<1>13. ASSUME Bottom(s, u, p)
       PROVE  Bottom(r, u, p)
  BY <1>4, <1>5, <1>9, <1>13 DEF Bottom
<1>14. ASSUME NEW x, Beneath(s, u, w, p), Beneath(s, w, x, p)
       PROVE  Beneath(r, u, x, p)
  <2>1. /\ Covering(s, x, p) /\ x # w /\ Higher(s, u, x)
    BY <1>6, <1>8, <1>14 DEF Beneath
  <2>2. \A y : Covering(s, y, p) /\ y # w => ~(Higher(s, u, y) /\ Higher(s, y, x))
    BY <1>7, <1>14 DEF Beneath
  <2>3. Covering(r, x, p) /\ Higher(r, u, x)
    BY <1>4, <1>9, <2>1
  <2>4. \A y : Covering(r, y, p) => ~(Higher(r, u, y) /\ Higher(r, y, x))
    BY <1>4, <1>5, <1>9, <2>2, <2>3
  <2> QED BY <2>3, <2>4 DEF Beneath
<1>15. ASSUME Beneath(s, u, w, p), Bottom(s, w, p)
       PROVE  Bottom(r, u, p)
  <2>1. \A y : Covering(s, y, p) /\ y # w => ~Higher(s, u, y)
    BY <1>7, <1>15 DEF Beneath, Bottom
  <2> QED BY <1>4, <1>9, <2>1 DEF Bottom
<1> QED BY <1>3, <1>10, <1>11, <1>12, <1>13, <1>14, <1>15

-----------------------------------------------------------------------------
(* Windows that stay where they are cover what they covered.               *)
LEMMA SameCovering ==
  ASSUME NEW s, List(s.head), NEW r, r.head = s.head,
         \A u \in Windows : Listed(s, u) => Alike(r.win[u], s.win[u])
  PROVE  /\ \A u : Listed(r, u) <=> Listed(s, u)
         /\ \A u, p : Covering(r, u, p) <=> Covering(s, u, p)
         /\ \A u, p : Reaches(r, u, p) <=> Reaches(s, u, p)
         /\ \A u, x, p : Beneath(r, u, x, p) <=> Beneath(s, u, x, p)
         /\ \A u, p : Bottom(r, u, p) <=> Bottom(s, u, p)
         /\ \A u, p : Listed(s, u) => CellAt(r.win[u], p) = CellAt(s.win[u], p)
<1>1. \A u : (Listed(r, u) <=> Listed(s, u)) /\ Index(r, u) = Index(s, u)
  BY DEF Listed, Index
<1>2. \A u : Listed(s, u) => u \in Windows
  BY IndexOf
<1>3. \A u, p : Listed(s, u) => /\ Covers(r.win[u], p) <=> Covers(s.win[u], p)
                                /\ CellAt(r.win[u], p) = CellAt(s.win[u], p)
  BY <1>2, AlikePlaces
<1>4. \A u, p : Covering(r, u, p) <=> Covering(s, u, p)
  BY <1>1, <1>3 DEF Covering
<1>5. \A u, p : Reaches(r, u, p) <=> Reaches(s, u, p)
  BY <1>4 DEF Reaches
<1>6. \A u, x : Higher(r, u, x) <=> Higher(s, u, x)
  BY <1>1 DEF Higher
<1>7. \A u, x, p : Beneath(r, u, x, p) <=> Beneath(s, u, x, p)
  BY <1>4, <1>6 DEF Beneath
<1>8. \A u, p : Bottom(r, u, p) <=> Bottom(s, u, p)
  BY <1>4, <1>6 DEF Bottom
<1> QED BY <1>1, <1>3, <1>4, <1>5, <1>7, <1>8

(* Sending cells of the body keeps the chains, and what was sent is no     *)
(* longer an exception.                                                    *)
LEMMA UpdateKeeps ==
  ASSUME NEW s, State(s), NEW w, Listed(s, w), s.win[w].visible = TRUE,
         NEW cells, NEW accel \in BOOLEAN, NEW D, Chain(s, w, D)
  PROVE  Chain(Update(s, w, cells, s.win[w].body, accel, s.win[w].enabled), w, D \ cells)
<1> DEFINE r == Update(s, w, cells, s.win[w].body, accel, s.win[w].enabled)
           v == s.win[w]
<1>1. /\ List(s.head) /\ v.enabled \in BOOLEAN /\ w \in Windows
      /\ \A u : Listed(s, u) => u \in Windows
  BY IndexOf DEF State, Window
<1>2. /\ r.head = s.head
      /\ \A u \in Windows : Listed(s, u) => SameText(r.win[u], s.win[u])
      /\ \A u \in Windows \ {w} : r.win[u].owed = s.win[u].owed
      /\ r.win[w].owed = IF v.enabled THEN v.owed \ cells ELSE v.owed \cup cells
      /\ \A p \in Screen : \A u : Reaches(s, u, p) =>
           Under(r, u, p) =
             IF ~Sent(s, w, cells, p) THEN Under(s, u, p)
             ELSE IF u = FindOver(s, w, p) /\ (u = None => v.enabled)
               THEN v.body[CellAt(v, p)]
             ELSE IF u = None /\ v.enabled /\ accel
               THEN s.win[AtPoint(s, p)].body[CellAt(s.win[AtPoint(s, p)], p)]
             ELSE Under(s, u, p)
  <2> DEFINE text == v.body   live == v.enabled
  <2>1. r = Update(s, w, cells, text, accel, live) /\ live \in BOOLEAN
    BY <1>1
  <2> HIDE DEF text, live, r
  <2>2. Delivers(s, r, w, cells, text, accel, live)
    BY <2>1, UpdateGives
  <2> QED BY <2>2 DEF text, live, Delivers
<1> HIDE DEF r
<1>3. /\ \A u, p : Reaches(r, u, p) <=> Reaches(s, u, p)
      /\ \A u, x, p : Beneath(r, u, x, p) <=> Beneath(s, u, x, p)
      /\ \A u, p : Bottom(r, u, p) <=> Bottom(s, u, p)
      /\ \A u, p : Listed(s, u) => CellAt(r.win[u], p) = CellAt(s.win[u], p)
  <2>1. \A u \in Windows : Listed(s, u) => Alike(r.win[u], s.win[u])
    BY <1>2 DEF SameText
  <2>2. List(s.head) /\ r.head = s.head
    BY <1>1, <1>2
  <2> QED BY <2>1, <2>2, SameCovering
<1>4. ASSUME NEW p \in Screen, NEW u, Reaches(s, u, p)
      PROVE  Link(r, w, D \ cells, u, p)
  <2>1. Link(s, w, D, u, p)
    BY <1>4 DEF Chain
  <2> DEFINE L == FindOver(s, w, p)
  <2>2. Covers(v, p) => /\ Covering(s, w, p) /\ Reaches(s, L, p) /\ Beneath(s, L, w, p)
    BY <1>1, OverIsNext DEF Covering
  <2>3. ASSUME NEW x, Beneath(s, u, x, p)
        PROVE  Reads(r, w, D \ cells, x, p, Under(r, u, p))
    <3> DEFINE c == CellAt(s.win[x], p)
    <3>1. x \in Windows /\ Listed(s, x) /\ Covers(s.win[x], p)
      BY <1>1, <2>3 DEF Beneath, Covering
    <3>2. CellAt(r.win[x], p) = c /\ r.win[x].body = s.win[x].body
      BY <1>2, <1>3, <3>1 DEF SameText
    <3>3. c \in s.win[x].owed \/ (x = w /\ c \in D) \/ Under(s, u, p) = s.win[x].body[c]
      BY <2>1, <2>3 DEF Link, Reads
    <3> HIDE DEF c
    <3>4. SUFFICES \/ c \in r.win[x].owed
                   \/ x = w /\ c \in D \ cells
                   \/ Under(r, u, p) = s.win[x].body[c]
      BY <3>2 DEF Reads
    <3>5. CASE ~Sent(s, w, cells, p)
      <4>1. Under(r, u, p) = Under(s, u, p)
        BY <1>2, <1>4, <3>5
      <4>2. CASE x = w
        <5>1. c \notin cells
          BY <3>1, <3>5, <4>2 DEF Sent, c
        <5>2. c \in s.win[w].owed <=> c \in r.win[w].owed
          BY <1>2, <5>1
        <5> QED BY <3>3, <4>1, <4>2, <5>1, <5>2
      <4>3. CASE x # w
        BY <1>2, <3>1, <3>3, <4>1, <4>3
      <4> QED BY <4>2, <4>3
    <3>6. CASE Sent(s, w, cells, p) /\ x = w
      <4>1. u = L /\ c \in cells
        BY <1>1, <1>4, <2>2, <2>3, <3>6, OneBeneath DEF Sent, c
      <4>2. CASE v.enabled
        <5>1. Under(r, u, p) = v.body[CellAt(v, p)]
          BY <1>2, <1>4, <3>6, <4>1, <4>2
        <5> QED BY <3>6, <5>1 DEF c
      <4>3. CASE ~v.enabled
        BY <1>2, <3>6, <4>1, <4>3
      <4> QED BY <4>2, <4>3
    <3>7. CASE Sent(s, w, cells, p) /\ x # w
      <4>1. u # L
        BY <1>1, <2>2, <2>3, <3>7, OneBeneath DEF Sent
      <4>2. CASE u = None /\ v.enabled /\ accel
        <5>1. x = AtPoint(s, p)
          BY <1>1, <2>3, <4>2, TopIsNext
        <5>2. Under(r, u, p) = s.win[AtPoint(s, p)].body[CellAt(s.win[AtPoint(s, p)], p)]
          BY <1>2, <1>4, <3>7, <4>1, <4>2
        <5> QED BY <5>1, <5>2 DEF c
      <4>3. CASE ~(u = None /\ v.enabled /\ accel)
        <5>1. Under(r, u, p) = Under(s, u, p)
          BY <1>2, <1>4, <3>7, <4>1, <4>3
        <5> QED BY <1>2, <3>1, <3>3, <3>7, <5>1
      <4> QED BY <4>2, <4>3
    <3> QED BY <3>5, <3>6, <3>7
  <2>4. ASSUME Bottom(s, u, p)
        PROVE  Under(r, u, p) = Desktop
    <3>1. Under(s, u, p) = Desktop
      BY <2>1, <2>4 DEF Link
    <3>2. CASE ~Sent(s, w, cells, p)
      BY <1>2, <1>4, <3>1, <3>2
    <3>3. CASE Sent(s, w, cells, p)
      <4>1. u # L /\ Covering(s, w, p)
        BY <1>1, <2>2, <2>4, <3>3, OneBeneath DEF Sent
      <4>2. u # None
        <5>1. Index(s, None) < Index(s, w)
          BY <1>1, <4>1, Ranks DEF Covering
        <5> QED BY <2>4, <4>1, <5>1 DEF Bottom, Higher
      <4> QED BY <1>2, <1>4, <3>1, <3>3, <4>1, <4>2
    <3> QED BY <3>2, <3>3
  <2> QED BY <1>3, <2>3, <2>4 DEF Link
<1> QED BY <1>3, <1>4 DEF Chain, r

(* Uncovering what a window has saved and taking the window out of the     *)
(* chains keeps them.                                                      *)
Uncovers(s, r, w) ==
  /\ r.head = s.head /\ r.screen = savedwin2screen(s, w).screen
  /\ \A u \in Windows \ {w} : r.win[u] = savedwin2screen(s, w).win[u]
  /\ \A p : ~Covers(r.win[w], p)

(* What a window saved is put back, and it is out of all chains.           *)
LEMMA UncoverKeeps ==
  ASSUME NEW s, State(s), NEW w, Listed(s, w), s.win[w].visible = TRUE,
         Chain(s, None, {}), NEW r, Uncovers(s, r, w)
  PROVE  Chain(r, None, {})
<1>0. /\ r.head = s.head /\ r.screen = savedwin2screen(s, w).screen
      /\ \A u \in Windows \ {w} : r.win[u] = savedwin2screen(s, w).win[u]
      /\ \A p : ~Covers(r.win[w], p)
  BY DEF Uncovers
<1> DEFINE q == savedwin2screen(s, w)
           v == s.win[w]
           cells == Cells(v)
<1>1. /\ List(s.head) /\ w \in Windows /\ Window(v)
      /\ \A u : Listed(s, u) => u \in Windows /\ u # None
  BY IndexOf, Ranks DEF State
<1>2. /\ q.head = s.head
      /\ \A u \in Windows : Listed(s, u) => SameText(q.win[u], s.win[u])
      /\ \A u \in Windows \ {w} : q.win[u].owed = s.win[u].owed
      /\ \A p \in Screen : \A u : Reaches(s, u, p) =>
           Under(q, u, p) =
             IF ~Sent(s, w, cells, p) THEN Under(s, u, p)
             ELSE IF u = FindOver(s, w, p) THEN v.saved[CellAt(v, p)]
             ELSE IF u = None
               THEN s.win[AtPoint(s, p)].body[CellAt(s.win[AtPoint(s, p)], p)]
             ELSE Under(s, u, p)
  <2> HIDE DEF v
  <2>1. s.win[w] = v
    BY DEF v
  <2> DEFINE text == v.saved
  <2>2. q = Update(s, w, cells, text, TRUE, TRUE)
    BY <2>1 DEF savedwin2screen
  <2> HIDE DEF text, q
  <2>3. Delivers(s, q, w, cells, text, TRUE, TRUE)
    BY <2>2, UpdateGives
  <2> QED BY <2>1, <2>3 DEF text, Delivers
<1> HIDE DEF q
<1>3. SameOrder(s, r, w)
  BY <1>0, <1>1 DEF SameOrder, Listed, Index
<1>4. \A y, p : Covering(r, y, p) <=> Covering(s, y, p) /\ y # w
  <2> SUFFICES ASSUME NEW y, NEW p
               PROVE  Covering(r, y, p) <=> Covering(s, y, p) /\ y # w
    OBVIOUS
  <2>1. Listed(r, y) <=> Listed(s, y)
    BY <1>0 DEF Listed
  <2>2. CASE y = w
    BY <1>0, <2>2 DEF Covering
  <2>3. CASE y # w /\ Listed(s, y)
    <3>1. y \in Windows \ {w} /\ Alike(q.win[y], s.win[y]) /\ r.win[y] = q.win[y]
      BY <1>0, <1>1, <1>2, <2>3 DEF SameText, q
    <3>2. Covers(r.win[y], p) <=> Covers(s.win[y], p)
      BY <3>1, AlikePlaces
    <3> QED BY <2>1, <2>3, <3>2 DEF Covering
  <2>4. CASE ~Listed(s, y)
    BY <2>1, <2>4 DEF Covering
  <2> QED BY <2>2, <2>3, <2>4
<1>5. \A u, p : u # w => Under(r, u, p) = Under(q, u, p) \/ ~Reaches(s, u, p)
  <2> SUFFICES ASSUME NEW u, NEW p, u # w, Reaches(s, u, p)
               PROVE  Under(r, u, p) = Under(q, u, p)
    OBVIOUS
  <2>1. CASE u = None
    BY <1>0, <2>1 DEF Under, q
  <2>2. CASE u # None
    <3>1. u \in Windows \ {w}
      BY <1>1, <2>2 DEF Reaches, Covering
    <3> QED BY <1>0, <2>2, <3>1 DEF Under, q
  <2> QED BY <2>1, <2>2
<1>6. ASSUME NEW p \in Screen, NEW u, Reaches(r, u, p)
      PROVE  Link(r, None, {}, u, p)
  <2> DEFINE L == FindOver(s, w, p)
  <2>1. /\ u # w /\ Reaches(s, u, p)
        /\ \A x : Beneath(r, u, x, p) =>
             Beneath(s, u, x, p) \/ (Beneath(s, u, w, p) /\ Beneath(s, w, x, p))
        /\ Bottom(r, u, p) =>
             Bottom(s, u, p) \/ (Beneath(s, u, w, p) /\ Bottom(s, w, p))
    <3>1. List(s.head) /\ w # None
      BY <1>1
    <3>2. \A y : Covering(r, y, p) <=> Covering(s, y, p) /\ y # w
      BY <1>4
    <3> QED BY <1>3, <1>6, <3>1, <3>2, TakeOut
  <2>2. Covers(v, p) => Covering(s, w, p) /\ Reaches(s, L, p) /\ Beneath(s, L, w, p)
    BY <1>1, OverIsNext DEF Covering
  <2>3. Covers(v, p) <=> Sent(s, w, cells, p)
    BY <1>1, ScreenPlaces, CellOfPlace DEF Sent
  <2>4. Under(r, u, p) = IF ~Covers(v, p) THEN Under(s, u, p)
                         ELSE IF u = L THEN Under(s, w, p)
                         ELSE IF u = None
                           THEN s.win[AtPoint(s, p)].body[CellAt(s.win[AtPoint(s, p)], p)]
                         ELSE Under(s, u, p)
    <3>1. Under(r, u, p) = Under(q, u, p)
      BY <1>5, <2>1
    <3>2. Under(s, w, p) = v.saved[CellAt(v, p)]
      BY <1>1 DEF Under
    <3> HIDE DEF v, cells, L
    <3> QED BY <1>2, <2>1, <2>3, <3>1, <3>2 DEF L
  <2>5. ASSUME NEW x, Beneath(r, u, x, p)
        PROVE  Reads(r, None, {}, x, p, Under(r, u, p))
    <3> DEFINE c == CellAt(s.win[x], p)
    <3>1. x \in Windows \ {w} /\ Listed(s, x)
      BY <1>1, <1>4, <2>5 DEF Beneath, Covering
    <3>2. /\ CellAt(r.win[x], p) = c /\ r.win[x].body = s.win[x].body
          /\ r.win[x].owed = s.win[x].owed
      <4>1. r.win[x] = q.win[x] /\ SameText(q.win[x], s.win[x]) /\ q.win[x].owed = s.win[x].owed
        BY <1>0, <1>2, <3>1 DEF q
      <4> QED BY <4>1, AlikePlaces DEF SameText
    <3> HIDE DEF c
    <3>3. SUFFICES c \in s.win[x].owed \/ Under(r, u, p) = s.win[x].body[c]
      BY <3>2 DEF Reads
    <3>4. CASE Beneath(s, u, x, p)
      <4>1. c \in s.win[x].owed \/ Under(s, u, p) = s.win[x].body[c]
        BY <2>1, <3>4 DEF Chain, Link, Reads, c
      <4>2. CASE ~Covers(v, p)
        BY <2>4, <4>1, <4>2
      <4>3. CASE Covers(v, p)
        <5>1. u # L
          BY <1>1, <2>2, <3>1, <3>4, <4>3, OneBeneath
        <5>2. u = None => x = AtPoint(s, p)
          BY <1>1, <3>4, TopIsNext
        <5> QED BY <2>4, <4>1, <4>3, <5>1, <5>2 DEF c
      <4> QED BY <4>2, <4>3
    <3>5. CASE Beneath(s, u, w, p) /\ Beneath(s, w, x, p)
      <4>1. Covering(s, w, p) /\ Reaches(s, w, p) /\ Covers(v, p)
        BY <3>5 DEF Beneath, Reaches, Covering
      <4>2. c \in s.win[x].owed \/ Under(s, w, p) = s.win[x].body[c]
        BY <3>5, <4>1 DEF Chain, Link, Reads, c
      <4>3. u = L
        BY <1>1, <2>1, <2>2, <3>5, <4>1, OneBeneath
      <4> QED BY <2>4, <4>1, <4>2, <4>3
    <3> QED BY <2>1, <2>5, <3>4, <3>5
  <2>6. ASSUME Bottom(r, u, p)
        PROVE  Under(r, u, p) = Desktop
    <3>1. CASE Bottom(s, u, p)
      <4>1. Under(s, u, p) = Desktop
        BY <2>1, <3>1 DEF Chain, Link
      <4>2. CASE ~Covers(v, p)
        BY <2>4, <4>1, <4>2
      <4>3. CASE Covers(v, p)
        <5>1. u # L /\ Covering(s, w, p)
          BY <1>1, <2>2, <3>1, <4>3, OneBeneath
        <5>2. u # None
          <6>1. Index(s, None) < Index(s, w)
            BY <1>1, <5>1, Ranks DEF Covering
          <6> QED BY <3>1, <5>1, <6>1 DEF Bottom, Higher
        <5> QED BY <2>4, <4>1, <5>1, <5>2
      <4> QED BY <4>2, <4>3
    <3>2. CASE Beneath(s, u, w, p) /\ Bottom(s, w, p)
      <4>1. Covering(s, w, p) /\ Reaches(s, w, p) /\ Covers(v, p)
        BY <3>2 DEF Beneath, Reaches, Covering
      <4>2. Under(s, w, p) = Desktop
        BY <3>2, <4>1 DEF Chain, Link
      <4>3. u = L
        BY <1>1, <2>1, <2>2, <3>2, <4>1, OneBeneath
      <4> QED BY <2>4, <4>1, <4>2, <4>3
    <3> QED BY <2>1, <2>6, <3>1, <3>2
  <2> QED BY <2>5, <2>6 DEF Link
<1> QED BY <1>6 DEF Chain

-----------------------------------------------------------------------------
(* A window enters the chains: it saves what was held for the next one,    *)
(* and the window above it may save anything, for it is going to be sent   *)
(* the body of the new window.                                             *)
Enters(a, c, w) ==
  /\ SameOrder(a, c, w) /\ Listed(c, w)
  /\ \A p : ~Covering(a, w, p)
  /\ \A u \in Windows \ {w} : Listed(a, u) =>
       SameText(c.win[u], a.win[u]) /\ c.win[u].owed = a.win[u].owed
  /\ \A p \in Screen : \A u : Reaches(a, u, p) =>
       \/ Under(c, u, p) = Under(a, u, p)
       \/ Covers(c.win[w], p) /\ u = FindOver(c, w, p)
  /\ \A p \in Screen : Covers(c.win[w], p) =>
       Under(c, w, p) = Under(a, FindOver(c, w, p), p)

(* A window that has entered is in the chains; its cells are not sent yet. *)
LEMMA EnterKeeps ==
  ASSUME NEW a, List(a.head), Chain(a, None, {}), NEW c, State(c), NEW w, Enters(a, c, w)
  PROVE  Chain(c, w, Cells(c.win[w]))
<1>1. /\ List(c.head) /\ w \in Windows /\ w # None /\ Window(c.win[w])
      /\ \A u : Listed(c, u) => u \in Windows /\ u # None
      /\ \A u : Listed(a, u) => u \in Windows
  BY IndexOf, Ranks DEF State, Enters
<1>2. SameOrder(c, a, w)
  BY DEF Enters, SameOrder
<1>3. \A y, p : Covering(a, y, p) <=> Covering(c, y, p) /\ y # w
  <2> SUFFICES ASSUME NEW y, NEW p
               PROVE  Covering(a, y, p) <=> Covering(c, y, p) /\ y # w
    OBVIOUS
  <2>1. CASE y = w
    BY <2>1 DEF Enters
  <2>2. CASE y # w /\ Listed(a, y)
    <3>1. y \in Windows \ {w} /\ Listed(c, y) /\ Alike(c.win[y], a.win[y])
      BY <1>1, <2>2 DEF Enters, SameOrder, SameText
    <3>2. Covers(c.win[y], p) <=> Covers(a.win[y], p)
      BY <3>1, AlikePlaces
    <3> QED BY <2>2, <3>1, <3>2 DEF Covering
  <2>3. CASE y # w /\ ~Listed(a, y)
    <3>1. ~Listed(c, y)
      BY <1>1, <2>3 DEF Enters, SameOrder
    <3> QED BY <2>3, <3>1 DEF Covering
  <2> QED BY <2>1, <2>2, <2>3
<1>4. ASSUME NEW p \in Screen, NEW u, Reaches(c, u, p)
      PROVE  Link(c, w, Cells(c.win[w]), u, p)
  <2> DEFINE L == FindOver(c, w, p)
             D == Cells(c.win[w])
  <2>1. Covers(c.win[w], p) => Covering(c, w, p) /\ Reaches(c, L, p) /\ Beneath(c, L, w, p)
    BY <1>1, OverIsNext DEF Covering, Enters
  <2>2. \A z : Reaches(a, z, p) =>
          /\ \A x : Beneath(c, z, x, p) /\ x # w => Beneath(a, z, x, p)
          /\ Bottom(c, z, p) => Bottom(a, z, p)
          /\ \A x : Beneath(c, z, w, p) /\ Beneath(c, w, x, p) => Beneath(a, z, x, p)
          /\ Beneath(c, z, w, p) /\ Bottom(c, w, p) => Bottom(a, z, p)
    <3>1. \A y : Covering(a, y, p) <=> Covering(c, y, p) /\ y # w
      BY <1>3
    <3>2. List(c.head) /\ w # None
      BY <1>1
    <3> QED BY <1>2, <3>1, <3>2, TakeOut
  <2>3. \A z : Reaches(a, z, p) => Link(a, None, {}, z, p)
    BY DEF Chain
  <2>4. \A z : Reaches(c, z, p) /\ z # w => Reaches(a, z, p)
    BY <1>3 DEF Reaches
  <2>5. \A x, symbol : Covering(a, x, p) /\ Reads(a, None, {}, x, p, symbol) =>
                         Reads(c, w, D, x, p, symbol)
    <3> SUFFICES ASSUME NEW x, NEW symbol, Covering(a, x, p), Reads(a, None, {}, x, p, symbol)
                 PROVE  Reads(c, w, D, x, p, symbol)
      OBVIOUS
    <3>1. x \in Windows \ {w} /\ Listed(a, x)
      BY <1>1, <1>3 DEF Covering
    <3>2. /\ Alike(c.win[x], a.win[x]) /\ c.win[x].body = a.win[x].body
          /\ c.win[x].owed = a.win[x].owed
      BY <3>1 DEF Enters, SameText
    <3>3. CellAt(c.win[x], p) = CellAt(a.win[x], p)
      BY <3>2, AlikePlaces
    <3> QED BY <3>2, <3>3 DEF Reads
  <2>6. CASE u = w
    <3>1. /\ Covers(c.win[w], p) /\ Beneath(c, L, w, p) /\ Reaches(c, L, p)
      BY <1>1, <1>4, <2>1, <2>6 DEF Reaches, Covering
    <3>2. L # w
      <4>1. Higher(c, L, w) /\ Index(c, w) \in Nat
        BY <1>1, <3>1, Ranks DEF Beneath
      <4> QED BY <4>1 DEF Higher
    <3>3. Reaches(a, L, p) /\ Under(c, w, p) = Under(a, L, p)
      BY <2>4, <3>1, <3>2 DEF Enters
    <3>4. ASSUME NEW x, Beneath(c, w, x, p)
          PROVE  Reads(c, w, D, x, p, Under(c, w, p))
      <4>1. Beneath(a, L, x, p)
        BY <2>2, <3>1, <3>3, <3>4
      <4>2. Covering(a, x, p) /\ Reads(a, None, {}, x, p, Under(a, L, p))
        BY <2>3, <3>3, <4>1 DEF Link, Beneath
      <4> QED BY <2>5, <3>3, <4>2
    <3>5. ASSUME Bottom(c, w, p)
          PROVE  Under(c, w, p) = Desktop
      <4>1. Bottom(a, L, p)
        BY <2>2, <3>1, <3>3, <3>5
      <4> QED BY <2>3, <3>3, <4>1 DEF Link
    <3> HIDE DEF D
    <3> QED BY <2>6, <3>4, <3>5 DEF Link, D
  <2>7. CASE u # w
    <3>1. Reaches(a, u, p)
      BY <1>4, <2>4, <2>7
    <3>2. ASSUME NEW x, Beneath(c, u, x, p)
          PROVE  Reads(c, w, D, x, p, Under(c, u, p))
      <4>1. CASE x = w
        <5>1. Covers(c.win[w], p) /\ p \in Int \X Int
          BY <3>2, <4>1, ScreenPlaces DEF Beneath, Covering
        <5>2. CellAt(c.win[w], p) \in D
          BY <1>1, <5>1, CellOfPlace
        <5> QED BY <4>1, <5>2 DEF Reads
      <4>2. CASE x # w
        <5>1. Beneath(a, u, x, p)
          BY <2>2, <3>1, <3>2, <4>2
        <5>2. Covering(a, x, p) /\ Reads(a, None, {}, x, p, Under(a, u, p))
          BY <2>3, <3>1, <5>1 DEF Link, Beneath
        <5>3. ~(Covers(c.win[w], p) /\ u = L)
          BY <1>1, <2>1, <3>2, <4>2, OneBeneath
        <5>4. Under(c, u, p) = Under(a, u, p)
          BY <3>1, <5>3 DEF Enters
        <5> QED BY <2>5, <5>2, <5>4
      <4> QED BY <4>1, <4>2
    <3>3. ASSUME Bottom(c, u, p)
          PROVE  Under(c, u, p) = Desktop
      <4>1. Bottom(a, u, p)
        BY <2>2, <3>1, <3>3
      <4>2. Under(a, u, p) = Desktop
        BY <2>3, <3>1, <4>1 DEF Link
      <4>3. ~(Covers(c.win[w], p) /\ u = L)
        BY <1>1, <2>1, <3>3, OneBeneath
      <4>4. Under(c, u, p) = Under(a, u, p)
        BY <3>1, <4>3 DEF Enters
      <4> QED BY <4>2, <4>4
    <3> HIDE DEF D
    <3> QED BY <3>2, <3>3 DEF Link, D
  <2> QED BY <2>6, <2>7
<1> QED BY <1>4 DEF Chain

-----------------------------------------------------------------------------
(* The state between the steps of an operation on w: whatever is wrong is  *)
(* only the frame of w, which is about to be painted.                      *)
FrameWhole(v) == \A k \in Border(v) : v.body[k] = Frame

(* The frames of the other windows are whole.                              *)
Frames(s, w) == \A u \in Framed \ {w} : Listed(s, u) => FrameWhole(s.win[u])

(* The invariant, but for the frame of a window that is being changed.     *)
Sound(s, w) == State(s) /\ Chain(s, None, {}) /\ Frames(s, w)

(* The text and the size of a window.                                      *)
SameFace(n, v) == n.body = v.body /\ n.wwidth = v.wwidth /\ n.wheight = v.wheight

(* The frame is part of the text.                                          *)
LEMMA FaceKeepsFrame ==
  ASSUME NEW n, NEW v, SameFace(n, v), FrameWhole(v)
  PROVE  FrameWhole(n)
BY DEF SameFace, FrameWhole, Border, Cells

(* A window with the same text at the same place has the same face.        *)
LEMMA SameTextIsFace ==
  ASSUME NEW n, NEW v, SameText(n, v)
  PROVE  SameFace(n, v) /\ n.enabled = v.enabled
BY DEF SameText, SameFace, Alike

(* Where no face changes the frames stay whole.                            *)
LEMMA FramesKept ==
  ASSUME NEW s, NEW r, NEW w, Frames(s, w),
         \A u \in Windows \ {w} : Listed(r, u) => Listed(s, u) /\ SameFace(r.win[u], s.win[u])
  PROVE  Frames(r, w)
<1> SUFFICES ASSUME NEW u \in Framed \ {w}, Listed(r, u)
             PROVE  FrameWhole(r.win[u])
  BY DEF Frames
<1>1. u \in Windows \ {w}
  BY TwinAssumption
<1> QED BY <1>1, FaceKeepsFrame DEF Frames

(* The invariant holds without the frame of a window all the more.         *)
LEMMA SoundBegins ==
  ASSUME NEW s, NEW w, Sound(s, None)
  PROVE  Sound(s, w) /\ (w \in Framed /\ Listed(s, w) => FrameWhole(s.win[w]))
<1>1. None \notin Framed
  BY TwinAssumption
<1> QED BY <1>1 DEF Sound, Frames

(* With the frame of that window whole again, the invariant is back.       *)
LEMMA SoundEnds ==
  ASSUME NEW s, NEW w, Sound(s, w), w \in Framed /\ Listed(s, w) => FrameWhole(s.win[w])
  PROVE  Sound(s, None)
BY DEF Sound, Frames

(* A window is replaced as a whole.                                        *)
SetWin(s, w, n) == [s EXCEPT !.win[w] = n]

(* What a replaced window leaves alone.                                    *)
LEMMA SetWinIs ==
  ASSUME NEW s, Parts(s), NEW w \in Windows, NEW n
  PROVE  LET r == SetWin(s, w, n)
         IN  /\ Parts(r) /\ r.head = s.head /\ r.screen = s.screen /\ r.win[w] = n
             /\ \A u \in Windows \ {w} : r.win[u] = s.win[u]
             /\ \A m : SetWin(r, w, m) = SetWin(s, w, m)
<1> DEFINE r == SetWin(s, w, n)
<1>1. /\ Parts(r) /\ r.head = s.head /\ r.screen = s.screen /\ r.win[w] = n
      /\ \A u \in Windows \ {w} : r.win[u] = s.win[u]
  BY DEF SetWin, Parts
<1> HIDE DEF r
<1>2. ASSUME NEW m
      PROVE  SetWin(r, w, m) = SetWin(s, w, m)
  <2>1. [u \in Windows |-> IF u = w THEN m ELSE r.win[u]] =
        [u \in Windows |-> IF u = w THEN m ELSE s.win[u]]
    BY <1>1
  <2>2. SetWin(r, w, m) = [head |-> r.head, screen |-> r.screen,
                           win |-> [u \in Windows |-> IF u = w THEN m ELSE r.win[u]]]
    BY <1>1 DEF SetWin, Parts
  <2>3. SetWin(s, w, m) = [head |-> s.head, screen |-> s.screen,
                           win |-> [u \in Windows |-> IF u = w THEN m ELSE s.win[u]]]
    BY DEF SetWin, Parts
  <2> QED BY <1>1, <2>1, <2>2, <2>3
<1> QED BY <1>1, <1>2 DEF r

(* The same list is in the same order.                                     *)
LEMMA SameHead ==
  ASSUME NEW s, List(s.head), NEW r, r.head = s.head, NEW w
  PROVE  /\ SameOrder(s, r, w) /\ \A u : Listed(r, u) <=> Listed(s, u)
         /\ \A u : Index(r, u) = Index(s, u)
BY DEF SameOrder, Listed, Index

(* A window that covers nothing changes, comes or goes: the others, their  *)
(* order and the screen stay.                                              *)
Aside(s, r, w) == /\ SameOrder(s, r, w) /\ r.screen = s.screen
                  /\ \A u \in Windows \ {w} : r.win[u] = s.win[u]

(* A window that is not in the list or not shown.                          *)
Uncovered(s, w) == Listed(s, w) => s.win[w].visible = FALSE

(* A window that covers nothing is in no chain: it may change.             *)
LEMMA AsideKeeps ==
  ASSUME NEW s, NEW w \in Windows, Sound(s, w), Uncovered(s, w), NEW r, Parts(r),
         Aside(s, r, w), Uncovered(r, w), Listed(r, w) => Window(r.win[w])
  PROVE  Sound(r, w)
<1>1. /\ List(s.head) /\ List(r.head) /\ w # None
      /\ \A u : Listed(s, u) => u \in Windows
      /\ \A u : Listed(r, u) => u \in Windows
  BY TwinAssumption, IndexOf DEF Sound, State, Aside, SameOrder
<1>2. State(r)
  <2> SUFFICES ASSUME NEW u \in Windows, Listed(r, u) PROVE Window(r.win[u])
    BY <1>1 DEF State
  <2>1. CASE u = w
    BY <2>1
  <2>2. CASE u # w
    <3>1. Listed(s, u) /\ r.win[u] = s.win[u]
      BY <2>2 DEF Aside, SameOrder
    <3> QED BY <3>1 DEF Sound, State
  <2> QED BY <2>1, <2>2
<1>3. \A y, p : Covering(r, y, p) <=> Covering(s, y, p) /\ y # w
  <2> SUFFICES ASSUME NEW y, NEW p
               PROVE  Covering(r, y, p) <=> Covering(s, y, p) /\ y # w
    OBVIOUS
  <2>1. CASE y = w
    BY <2>1 DEF Covering, Covers, Uncovered
  <2>2. CASE y # w /\ y \in Windows
    <3>1. (Listed(r, y) <=> Listed(s, y)) /\ r.win[y] = s.win[y]
      BY <2>2 DEF Aside, SameOrder
    <3> QED BY <2>2, <3>1 DEF Covering
  <2>3. CASE y \notin Windows
    BY <1>1, <2>3 DEF Covering
  <2> QED BY <2>1, <2>2, <2>3
<1>4. \A p : ~Covering(s, w, p)
  BY DEF Covering, Covers, Uncovered
<1>5. ASSUME NEW p \in Screen, NEW u, Reaches(r, u, p)
      PROVE  Link(r, None, {}, u, p)
  <2>1. /\ u # w /\ Reaches(s, u, p)
        /\ \A x : Beneath(r, u, x, p) =>
             Beneath(s, u, x, p) \/ (Beneath(s, u, w, p) /\ Beneath(s, w, x, p))
        /\ Bottom(r, u, p) =>
             Bottom(s, u, p) \/ (Beneath(s, u, w, p) /\ Bottom(s, w, p))
    <3>1. \A y : Covering(r, y, p) <=> Covering(s, y, p) /\ y # w
      BY <1>3
    <3>2. SameOrder(s, r, w)
      BY DEF Aside
    <3>3. List(s.head) /\ w # None
      BY <1>1
    <3> QED BY <1>5, <3>1, <3>2, <3>3, TakeOut
  <2>2. ~Beneath(s, u, w, p)
    BY <1>4 DEF Beneath
  <2>3. Under(r, u, p) = Under(s, u, p)
    <3>1. CASE u = None
      BY <3>1 DEF Under, Aside
    <3>2. CASE u # None
      <4>1. u \in Windows \ {w}
        BY <1>1, <2>1, <3>2 DEF Reaches, Covering
      <4> QED BY <3>2, <4>1 DEF Under, Aside
    <3> QED BY <3>1, <3>2
  <2>4. Link(s, None, {}, u, p)
    BY <2>1 DEF Sound, Chain
  <2>5. ASSUME NEW x, Beneath(r, u, x, p)
        PROVE  Reads(r, None, {}, x, p, Under(r, u, p))
    <3>1. Reads(s, None, {}, x, p, Under(s, u, p))
      BY <2>1, <2>2, <2>4, <2>5 DEF Link
    <3>2. x \in Windows \ {w}
      BY <1>1, <1>3, <2>5 DEF Beneath, Covering
    <3>3. r.win[x] = s.win[x]
      BY <3>2 DEF Aside
    <3> QED BY <2>3, <3>1, <3>3 DEF Reads
  <2>6. ASSUME Bottom(r, u, p)
        PROVE  Under(r, u, p) = Desktop
    BY <2>1, <2>2, <2>3, <2>4, <2>6 DEF Link
  <2> QED BY <2>5, <2>6 DEF Link
<1>6. Frames(r, w)
  <2>1. \A u \in Windows \ {w} : Listed(r, u) => Listed(s, u) /\ SameFace(r.win[u], s.win[u])
    BY DEF Aside, SameOrder, SameFace
  <2> QED BY <2>1, FramesKept DEF Sound
<1>7. Chain(r, None, {})
  BY <1>5 DEF Chain
<1> QED BY <1>2, <1>6, <1>7 DEF Sound

(* Hiding a window: what it has saved goes where its text was.             *)
LEMMA HideKeeps ==
  ASSUME NEW s, NEW w, Sound(s, w), Listed(s, w)
  PROVE  LET r == Hide(s, w)
         IN  /\ Sound(r, w) /\ r.head = s.head /\ r.win[w].visible = FALSE
             /\ SameFace(r.win[w], s.win[w]) /\ r.win[w].enabled = s.win[w].enabled
             /\ r.win[w].X1 = s.win[w].X1 /\ r.win[w].Y1 = s.win[w].Y1
<1> DEFINE q == savedwin2screen(s, w)
           v == q.win[w]
           junk == [k \in DOMAIN v.saved |-> Junk]
           a == [v EXCEPT !.visible = FALSE]
           b == [a EXCEPT !.owed = {}]
           n == [b EXCEPT !.saved = junk]
           r == Hide(s, w)
<1>1. /\ State(s) /\ List(s.head) /\ w \in Windows /\ Window(s.win[w])
  BY IndexOf DEF Sound, State
<1>2. s.win[w].visible \in BOOLEAN
  BY <1>1 DEF Window
<1>4. /\ State(q) /\ q.head = s.head
      /\ \A u \in Windows : Listed(s, u) => SameText(q.win[u], s.win[u])
  <2>1. q = Update(s, w, Cells(s.win[w]), s.win[w].saved, TRUE, TRUE)
    BY DEF savedwin2screen
  <2>2. CASE s.win[w].visible = TRUE
    <3> DEFINE text == s.win[w].saved   cells == Cells(s.win[w])
    <3> HIDE DEF text, cells, q
    <3>1. Delivers(s, q, w, cells, text, TRUE, TRUE)
      BY <1>1, <2>1, <2>2, UpdateGives DEF text, cells
    <3> QED BY <3>1 DEF Delivers
  <2>3. CASE s.win[w].visible = FALSE
    <3>1. q = s
      BY <2>1, <2>3 DEF Update
    <3> QED BY <1>1, <3>1 DEF SameText, Alike
  <2> QED BY <1>2, <2>2, <2>3
<1>5. Parts(q) /\ Window(v) /\ SameText(v, s.win[w]) /\ Listed(q, w)
  BY <1>1, <1>4 DEF State, Listed
<1>6. r = SetWin(q, w, n)
  <2>1. r = [q EXCEPT !.win[w].visible = FALSE, !.win[w].owed = {},
                      !.win[w].saved = [k \in DOMAIN @ |-> Junk]]
    BY DEF Hide
  <2> HIDE DEF q, r
  <2>2. [q EXCEPT !.win[w].visible = FALSE, !.win[w].owed = {},
                  !.win[w].saved = [k \in DOMAIN @ |-> Junk]] =
        [[[q EXCEPT !.win[w].visible = FALSE] EXCEPT !.win[w].owed = {}]
           EXCEPT !.win[w].saved = junk]
    BY <1>1, <1>5 DEF Parts
  <2>3. [q EXCEPT !.win[w].visible = FALSE] = SetWin(q, w, a)
    BY <1>1, <1>5 DEF Parts, SetWin
  <2> HIDE DEF a, junk
  <2> DEFINE qa == SetWin(q, w, a)
  <2>4. Parts(qa) /\ qa.win[w] = a /\ \A m : SetWin(qa, w, m) = SetWin(q, w, m)
    BY <1>1, <1>5, SetWinIs
  <2> HIDE DEF qa
  <2>5. [qa EXCEPT !.win[w].owed = {}] = SetWin(qa, w, b)
    BY <1>1, <2>4 DEF Parts, SetWin
  <2> HIDE DEF b
  <2> DEFINE qb == SetWin(qa, w, b)
  <2>6. Parts(qb) /\ qb.win[w] = b /\ \A m : SetWin(qb, w, m) = SetWin(qa, w, m)
    BY <1>1, <2>4, SetWinIs
  <2> HIDE DEF qb
  <2>7. [qb EXCEPT !.win[w].saved = junk] = SetWin(qb, w, n)
    BY <1>1, <2>6 DEF Parts, SetWin
  <2> QED BY <2>1, <2>2, <2>3, <2>4, <2>5, <2>6, <2>7 DEF qa, qb
<1> HIDE DEF r, q
<1>7. /\ Parts(r) /\ r.head = s.head /\ r.screen = q.screen /\ r.win[w] = n
      /\ \A u \in Windows \ {w} : r.win[u] = q.win[u]
  <2> HIDE DEF n
  <2> QED BY <1>1, <1>4, <1>5, <1>6, SetWinIs
<1>8. /\ Window(n) /\ n.visible = FALSE /\ SameFace(n, s.win[w]) /\ n.enabled = s.win[w].enabled
      /\ n.X1 = s.win[w].X1 /\ n.Y1 = s.win[w].Y1
  <2> HIDE DEF v
  <2>1. DOMAIN v.saved = Cells(v)
    BY <1>5 DEF Window
  <2> HIDE DEF junk, a, b, n
  <2>2. /\ Window(a) /\ a.visible = FALSE /\ a.enabled = v.enabled
        /\ a.X1 = v.X1 /\ a.Y1 = v.Y1 /\ a.wwidth = v.wwidth /\ a.wheight = v.wheight
        /\ a.body = v.body /\ a.saved = v.saved
    BY <1>5, NewVisible DEF a
  <2>3. Window(b) /\ SameText(b, a) /\ b.saved = a.saved
    BY <2>2, NewOwed DEF b
  <2>4. /\ b.visible = FALSE /\ b.enabled = v.enabled
        /\ b.X1 = v.X1 /\ b.Y1 = v.Y1 /\ b.wwidth = v.wwidth /\ b.wheight = v.wheight
        /\ b.body = v.body /\ b.saved = v.saved
    BY <2>2, <2>3 DEF SameText, Alike
  <2>5. junk = [k \in Cells(b) |-> junk[k]]
    BY <2>1, <2>4 DEF junk, Cells
  <2>6. Window(n) /\ SameText(n, b)
    BY <2>3, <2>5, NewSaved DEF n
  <2>7. SameText(v, s.win[w])
    BY <1>5 DEF v
  <2> QED BY <2>4, <2>6, <2>7 DEF SameText, Alike, SameFace
<1> HIDE DEF n
<1>9. State(r)
  <2> SUFFICES ASSUME NEW u \in Windows, Listed(r, u) PROVE Window(r.win[u])
    BY <1>1, <1>7 DEF State
  <2>1. CASE u = w
    BY <1>7, <1>8, <2>1
  <2>2. CASE u # w
    BY <1>4, <1>7, <2>2 DEF State, Listed
  <2> QED BY <2>1, <2>2
<1>10. Chain(r, None, {})
  <2>1. CASE s.win[w].visible = TRUE
    <3>1. \A p : ~Covers(r.win[w], p)
      BY <1>7, <1>8 DEF Covers
    <3>2. Uncovers(s, r, w)
      BY <1>7, <3>1 DEF q, Uncovers
    <3>3. Chain(s, None, {})
      BY DEF Sound
    <3> QED BY <1>1, <2>1, <3>2, <3>3, UncoverKeeps
  <2>2. CASE s.win[w].visible = FALSE
    <3>1. q = s
      BY <2>2 DEF q, savedwin2screen, Update
    <3>2. Aside(s, r, w)
      BY <1>1, <1>7, <3>1, SameHead DEF Aside
    <3>3. Uncovered(s, w) /\ Uncovered(r, w) /\ Window(r.win[w])
      BY <1>7, <1>8, <2>2 DEF Uncovered
    <3>4. Sound(r, w)
      BY <1>1, <1>7, <3>2, <3>3, AsideKeeps
    <3> QED BY <3>4 DEF Sound
  <2> QED BY <1>2, <2>1, <2>2
<1>11. Frames(r, w)
  <2>1. ASSUME NEW u \in Windows \ {w}, Listed(r, u)
        PROVE  Listed(s, u) /\ SameFace(r.win[u], s.win[u])
    <3>1. Listed(s, u)
      BY <1>7, <2>1 DEF Listed
    <3>2. SameText(r.win[u], s.win[u])
      BY <1>4, <1>7, <3>1
    <3> QED BY <3>1, <3>2, SameTextIsFace
  <2> QED BY <2>1, FramesKept DEF Sound
<1>12. Sound(r, w)
  BY <1>9, <1>10, <1>11 DEF Sound
<1> QED BY <1>7, <1>8, <1>12 DEF r

-----------------------------------------------------------------------------
(* A hidden window is made visible somewhere in the list.                  *)
Entering(a, b, w) ==
  /\ Sound(a, w) /\ Listed(a, w) /\ a.win[w].visible = FALSE
  /\ Aside(a, b, w) /\ State(b) /\ Listed(b, w) /\ b.win[w].visible = TRUE
  /\ SameFace(b.win[w], a.win[w])

(* A hidden window is made visible and takes its new place in the list.    *)
LEMMA EnteringList ==
  ASSUME NEW a, NEW w, Sound(a, w), Listed(a, w), a.win[w].visible = FALSE,
         NEW prev, prev = None \/ (Listed(a, prev) /\ prev # w)
  PROVE  LET q == unlistwin([a EXCEPT !.win[w].visible = TRUE], w)
         IN  /\ Entering(a, AtWin(q, w, prev), w)
             /\ Entering(a, AtHead(q, w), w) /\ Index(AtHead(q, w), w) = 1
<1> DEFINE v == a.win[w]
           n == [v EXCEPT !.visible = TRUE]
           s == [a EXCEPT !.win[w].visible = TRUE]
           q == unlistwin(s, w)
<1>1. /\ State(a) /\ Parts(a) /\ List(a.head) /\ w \in Windows /\ Window(v)
      /\ \A u : Listed(a, u) => u \in Windows
  BY IndexOf DEF Sound, State
<1>2. s = SetWin(a, w, n)
  BY <1>1 DEF Parts, SetWin
<1>3. /\ Window(n) /\ n.visible = TRUE /\ SameFace(n, v)
  <2> HIDE DEF v
  <2> QED BY <1>1, NewVisible DEF SameFace
<1> HIDE DEF n, v, s
<1>4. /\ Parts(s) /\ s.head = a.head /\ s.screen = a.screen /\ s.win[w] = n
      /\ \A u \in Windows \ {w} : s.win[u] = a.win[u]
  BY <1>1, <1>2, SetWinIs
<1>5. List(s.head) /\ SameOrder(a, s, w) /\ Listed(s, w)
  BY <1>1, <1>4, SameHead
<1>6. /\ Parts(q) /\ SameOrder(s, q, w) /\ ~Listed(q, w)
      /\ q.win = s.win /\ q.screen = s.screen
  BY <1>4, <1>5, UnlistKeepsOrder
<1> HIDE DEF q
<1>7. List(q.head) /\ (prev = None \/ Listed(q, prev))
  <2>1. prev = None \/ prev \in Windows \ {w}
    BY <1>1
  <2>2. \A u \in Windows \ {w} : Listed(q, u) <=> Listed(a, u)
    BY <1>5, <1>6 DEF SameOrder
  <2>3. List(q.head)
    BY <1>6 DEF SameOrder
  <2> QED BY <2>1, <2>2, <2>3
<1>8. ASSUME NEW b, Parts(b), SameOrder(q, b, w), Listed(b, w), b.win = q.win, b.screen = q.screen
      PROVE  Entering(a, b, w)
  <2>1. SameOrder(a, b, w)
    BY <1>5, <1>6, <1>8, OrderTwice
  <2>2. Aside(a, b, w)
    BY <1>4, <1>6, <1>8, <2>1 DEF Aside
  <2>3. State(b)
    <3> SUFFICES ASSUME NEW u \in Windows, Listed(b, u) PROVE Window(b.win[u])
      BY <1>8, <2>1 DEF State, SameOrder
    <3>1. CASE u = w
      BY <1>3, <1>4, <1>6, <1>8, <3>1
    <3>2. CASE u # w
      <4>1. Listed(a, u) /\ b.win[u] = a.win[u]
        BY <2>1, <2>2, <3>2 DEF SameOrder, Aside
      <4> QED BY <1>1, <4>1 DEF State
    <3> QED BY <3>1, <3>2
  <2>4. b.win[w] = n
    BY <1>4, <1>6, <1>8
  <2> QED BY <1>3, <1>8, <2>2, <2>3, <2>4 DEF Entering, v
<1>9. /\ Parts(AtHead(q, w)) /\ SameOrder(q, AtHead(q, w), w) /\ Listed(AtHead(q, w), w)
      /\ Index(AtHead(q, w), w) = 1
      /\ AtHead(q, w).win = q.win /\ AtHead(q, w).screen = q.screen
  BY <1>1, <1>6, <1>7, AtHeadKeepsOrder
<1>10. /\ Parts(AtWin(q, w, prev)) /\ SameOrder(q, AtWin(q, w, prev), w)
       /\ Listed(AtWin(q, w, prev), w)
       /\ AtWin(q, w, prev).win = q.win /\ AtWin(q, w, prev).screen = q.screen
  BY <1>1, <1>6, <1>7, AtWinKeepsOrder
<1>11. Entering(a, AtHead(q, w), w)
  BY <1>8, <1>9
<1>12. Entering(a, AtWin(q, w, prev), w)
  BY <1>8, <1>10
<1> QED BY <1>9, <1>11, <1>12 DEF q, s

(* The save-under buffers get new contents, nothing else happens.          *)
Resaves(b, c) ==
  /\ Parts(c) /\ c.head = b.head /\ c.screen = b.screen
  /\ \A u \in Windows : Listed(b, u) =>
       \E sv : /\ sv = [k \in Cells(b.win[u]) |-> sv[k]]
               /\ c.win[u] = [b.win[u] EXCEPT !.saved = sv]

(* Only save-under buffers changed.                                        *)
LEMMA ResavesGives ==
  ASSUME NEW b, State(b), NEW c, Resaves(b, c)
  PROVE  /\ State(c) /\ c.head = b.head /\ c.screen = b.screen
         /\ \A u \in Windows : Listed(b, u) =>
              SameText(c.win[u], b.win[u]) /\ c.win[u].owed = b.win[u].owed
<1>1. ASSUME NEW u \in Windows, Listed(b, u)
      PROVE  /\ Window(c.win[u]) /\ SameText(c.win[u], b.win[u])
             /\ c.win[u].owed = b.win[u].owed
  <2>1. PICK sv : /\ sv = [k \in Cells(b.win[u]) |-> sv[k]]
                  /\ c.win[u] = [b.win[u] EXCEPT !.saved = sv]
    BY <1>1 DEF Resaves
  <2>2. Window(b.win[u])
    BY <1>1 DEF State
  <2> QED BY <2>1, <2>2, NewSaved
<1>2. State(c)
  BY <1>1 DEF State, Resaves, Listed
<1> QED BY <1>1, <1>2 DEF Resaves

(* What __updatewinmem and __screen2win have in common.                    *)
LEMMA SavingEnters ==
  ASSUME NEW a, NEW b, NEW w, Entering(a, b, w), NEW c, Resaves(b, c),
         \A u \in Windows \ {w} : Listed(b, u) => \A k \in Cells(b.win[u]) :
           \/ c.win[u].saved[k] = b.win[u].saved[k]
           \/ Covers(b.win[w], Pos(b.win[u], k)) /\ FindOver(b, w, Pos(b.win[u], k)) = u,
         \A k \in Cells(b.win[w]) : Pos(b.win[w], k) \in Screen =>
           c.win[w].saved[k] = Under(b, FindOver(b, w, Pos(b.win[w], k)), Pos(b.win[w], k))
  PROVE  /\ State(c) /\ Enters(a, c, w) /\ c.win[w].visible = TRUE
         /\ SameFace(c.win[w], a.win[w])
<1>1. /\ State(a) /\ State(b) /\ List(a.head) /\ List(b.head) /\ w \in Windows /\ w # None
      /\ Listed(b, w) /\ Window(b.win[w])
      /\ \A u : Listed(a, u) => u \in Windows
      /\ \A u : Listed(b, u) => u \in Windows
  BY IndexOf, TwinAssumption DEF Sound, State, Entering
<1>2. /\ State(c) /\ c.head = b.head /\ c.screen = b.screen
      /\ \A u \in Windows : Listed(b, u) =>
           SameText(c.win[u], b.win[u]) /\ c.win[u].owed = b.win[u].owed
  BY <1>1, ResavesGives
<1>3. /\ SameOrder(a, b, w) /\ b.screen = a.screen
      /\ \A u \in Windows \ {w} : b.win[u] = a.win[u]
  BY DEF Entering, Aside
<1>4. SameOrder(a, c, w) /\ Listed(c, w) /\ \A x : Index(c, x) = Index(b, x)
  <2>1. SameOrder(b, c, w) /\ Listed(c, w) /\ \A x : Index(c, x) = Index(b, x)
    BY <1>1, <1>2, SameHead
  <2> QED BY <1>3, <2>1, OrderTwice
<1>5. \A p : FindOver(c, w, p) = FindOver(b, w, p)
  <2> SUFFICES ASSUME NEW p PROVE FindOver(c, w, p) = FindOver(b, w, p)
    OBVIOUS
  <2>1. Index(c, w) = Index(b, w) /\ c.head = b.head
    BY <1>2, <1>4
  <2>2. \A i \in 1 .. Index(b, w) - 1 : Covers(c.win[b.head[i]], p) <=> Covers(b.win[b.head[i]], p)
    <3> SUFFICES ASSUME NEW i \in 1 .. Index(b, w) - 1
                 PROVE  Covers(c.win[b.head[i]], p) <=> Covers(b.win[b.head[i]], p)
      OBVIOUS
    <3>1. i \in 1 .. Len(b.head)
      <4>1. Index(b, w) \in 1 .. Len(b.head) /\ Len(b.head) \in Nat
        BY <1>1, IndexOf DEF List
      <4> QED BY <4>1
    <3>2. Listed(b, b.head[i]) /\ b.head[i] \in Windows
      BY <1>1, <3>1, IndexOf
    <3>3. Alike(c.win[b.head[i]], b.win[b.head[i]])
      BY <1>2, <3>2 DEF SameText
    <3> QED BY <3>3, AlikePlaces
  <2>3. {i \in 1 .. Index(c, w) - 1 : Covers(c.win[c.head[i]], p)} =
        {i \in 1 .. Index(b, w) - 1 : Covers(b.win[b.head[i]], p)}
    BY <2>1, <2>2
  <2> QED BY <2>1, <2>3 DEF FindOver
<1>6. \A p : ~Covering(a, w, p)
  BY DEF Entering, Covering, Covers
<1>7. \A u \in Windows \ {w} : Listed(a, u) =>
        SameText(c.win[u], a.win[u]) /\ c.win[u].owed = a.win[u].owed
  BY <1>2, <1>3 DEF SameOrder
<1>8. \A u, p : u # w /\ Reaches(a, u, p) => Under(b, u, p) = Under(a, u, p)
  <2> SUFFICES ASSUME NEW u, NEW p, u # w, Reaches(a, u, p)
               PROVE  Under(b, u, p) = Under(a, u, p)
    OBVIOUS
  <2>1. CASE u = None
    BY <1>3, <2>1 DEF Under
  <2>2. CASE u # None
    <3>1. u \in Windows \ {w}
      BY <1>1, <2>2 DEF Reaches, Covering
    <3> QED BY <1>3, <3>1 DEF Under
  <2> QED BY <2>1, <2>2
<1>9. ASSUME NEW p \in Screen, NEW u, Reaches(a, u, p)
      PROVE  \/ Under(c, u, p) = Under(a, u, p)
             \/ Covers(c.win[w], p) /\ u = FindOver(c, w, p)
  <2>1. u # w
    BY <1>1, <1>6, <1>9 DEF Reaches
  <2>2. CASE u = None
    BY <1>2, <1>3, <2>2 DEF Under
  <2>3. CASE u # None
    <3>1. u \in Windows \ {w} /\ Listed(a, u) /\ Covers(a.win[u], p)
      BY <1>1, <1>9, <2>1, <2>3 DEF Reaches, Covering
    <3>2. Listed(b, u) /\ b.win[u] = a.win[u] /\ Window(b.win[u])
      BY <1>1, <1>3, <3>1 DEF SameOrder, State
    <3> DEFINE k == CellAt(b.win[u], p)
    <3>3. k \in Cells(b.win[u]) /\ Pos(b.win[u], k) = p
      BY <3>1, <3>2, CellOfPlace, ScreenPlaces
    <3>4. CellAt(c.win[u], p) = k /\ CellAt(a.win[u], p) = k
      <4>1. Alike(c.win[u], b.win[u])
        BY <1>2, <3>1, <3>2 DEF SameText
      <4> QED BY <3>2, <4>1, AlikePlaces
    <3> HIDE DEF k
    <3>5. \/ c.win[u].saved[k] = b.win[u].saved[k]
          \/ Covers(b.win[w], p) /\ FindOver(b, w, p) = u
      BY <3>1, <3>2, <3>3
    <3>6. Covers(c.win[w], p) <=> Covers(b.win[w], p)
      BY <1>1, <1>2, AlikePlaces DEF SameText
    <3> QED BY <1>5, <2>3, <3>2, <3>4, <3>5, <3>6 DEF Under
  <2> QED BY <2>2, <2>3
<1>10. ASSUME NEW p \in Screen, Covers(c.win[w], p)
       PROVE  Under(c, w, p) = Under(a, FindOver(c, w, p), p)
  <2>1. Alike(c.win[w], b.win[w])
    BY <1>1, <1>2 DEF SameText
  <2>2. Covers(b.win[w], p) /\ CellAt(c.win[w], p) = CellAt(b.win[w], p)
    BY <1>10, <2>1, AlikePlaces
  <2> DEFINE k == CellAt(b.win[w], p)
  <2>3. k \in Cells(b.win[w]) /\ Pos(b.win[w], k) = p
    BY <1>1, <2>2, CellOfPlace, ScreenPlaces
  <2> HIDE DEF k
  <2>4. c.win[w].saved[k] = Under(b, FindOver(b, w, p), p)
    BY <2>3
  <2> DEFINE L == FindOver(b, w, p)
  <2>5. Covering(b, w, p) /\ Reaches(b, L, p) /\ Beneath(b, L, w, p)
    BY <1>1, <2>2, OverIsNext DEF Covering
  <2>6. L # w
    <3>1. Higher(b, L, w) /\ Index(b, w) \in Nat
      BY <1>1, <2>5, Ranks DEF Beneath
    <3> QED BY <3>1 DEF Higher
  <2>7. Reaches(a, L, p)
    <3>1. CASE L = None
      BY <3>1 DEF Reaches
    <3>2. CASE L # None
      <4>1. L \in Windows \ {w} /\ Listed(b, L) /\ Covers(b.win[L], p)
        BY <1>1, <2>5, <2>6, <3>2 DEF Reaches, Covering
      <4> QED BY <1>3, <4>1 DEF Reaches, Covering, SameOrder
    <3> QED BY <3>1, <3>2
  <2>8. Under(b, L, p) = Under(a, L, p)
    BY <1>8, <2>6, <2>7
  <2>9. Under(c, w, p) = c.win[w].saved[k]
    BY <1>1, <2>2 DEF Under, k
  <2> QED BY <1>5, <2>4, <2>8, <2>9
<1>11. Enters(a, c, w)
  BY <1>4, <1>6, <1>7, <1>9, <1>10 DEF Enters
<1>12. c.win[w].visible = TRUE /\ SameFace(c.win[w], a.win[w])
  <2>1. SameText(c.win[w], b.win[w])
    BY <1>1, <1>2
  <2>2. b.win[w].visible = TRUE /\ SameFace(b.win[w], a.win[w])
    BY DEF Entering
  <2> QED BY <2>1, <2>2 DEF SameText, Alike, SameFace
<1> QED BY <1>2, <1>11, <1>12

(* __updatewinmem: from the window above, which saves the new window.      *)
LEMMA MemEnters ==
  ASSUME NEW a, NEW b, NEW w, Entering(a, b, w)
  PROVE  LET c == updatewinmem(b, w)
         IN  /\ State(c) /\ Enters(a, c, w) /\ c.win[w].visible = TRUE
             /\ SameFace(c.win[w], a.win[w])
<1> DEFINE v == b.win[w]
           Top(p) == FindOver(b, w, p)
           Memory(u, k) ==
             LET p == Pos(b.win[u], k)
             IN  CASE u = w /\ Top(p) # None ->
                        LET top == b.win[Top(p)] IN top.saved[CellAt(top, p)]
                   [] u = w /\ Top(p) = None /\ p \in Screen -> b.screen[p]
                   [] u # w /\ Covers(v, p) /\ Top(p) = u -> v.body[CellAt(v, p)]
                   [] OTHER -> b.win[u].saved[k]
           Mem(u) == [k \in DOMAIN b.win[u].saved |-> Memory(u, k)]
           c == updatewinmem(b, w)
<1>1. /\ State(b) /\ Parts(b) /\ List(b.head) /\ w \in Windows
      /\ Listed(b, w) /\ \A u \in Windows : Listed(b, u) => Window(b.win[u])
  BY IndexOf DEF State, Entering
<1>2. c = [b EXCEPT !.win = [u \in Windows |-> [b.win[u] EXCEPT !.saved = Mem(u)]]]
  BY DEF updatewinmem
<1> HIDE DEF c
<1>3. ASSUME NEW u \in Windows, Listed(b, u), NEW k \in Cells(b.win[u])
      PROVE  Mem(u)[k] = Memory(u, k)
  <2>1. DOMAIN b.win[u].saved = Cells(b.win[u])
    BY <1>1, <1>3 DEF Window
  <2> HIDE DEF Memory
  <2> QED BY <1>3, <2>1
<1>4. ASSUME NEW u \in Windows, Listed(b, u)
      PROVE  Mem(u) = [k \in Cells(b.win[u]) |-> Mem(u)[k]]
  <2>1. DOMAIN b.win[u].saved = Cells(b.win[u])
    BY <1>1, <1>4 DEF Window
  <2> HIDE DEF Memory
  <2> QED BY <2>1
<1>5. ASSUME NEW k \in Cells(b.win[w]), Pos(b.win[w], k) \in Screen
      PROVE  Memory(w, k) = Under(b, FindOver(b, w, Pos(b.win[w], k)), Pos(b.win[w], k))
  <2> DEFINE p == Pos(b.win[w], k)
  <2>1. CASE FindOver(b, w, p) = None
    <3>1. Memory(w, k) = b.screen[p]
      BY <1>5, <2>1
    <3> QED BY <2>1, <3>1 DEF Under
  <2>2. CASE FindOver(b, w, p) # None
    <3>1. Memory(w, k) = b.win[FindOver(b, w, p)].saved[CellAt(b.win[FindOver(b, w, p)], p)]
      BY <2>2
    <3> QED BY <2>2, <3>1 DEF Under
  <2> QED BY <2>1, <2>2
<1>6. ASSUME NEW u \in Windows \ {w}, NEW k
      PROVE  \/ Memory(u, k) = b.win[u].saved[k]
             \/ Covers(b.win[w], Pos(b.win[u], k)) /\ FindOver(b, w, Pos(b.win[u], k)) = u
  BY <1>6
<1> HIDE DEF Memory, Mem, v
<1>7. /\ Parts(c) /\ c.head = b.head /\ c.screen = b.screen
      /\ \A u \in Windows : c.win[u] = [b.win[u] EXCEPT !.saved = Mem(u)]
  BY <1>1, <1>2 DEF Parts
<1>8. Resaves(b, c)
  BY <1>4, <1>7 DEF Resaves
<1>9. \A u \in Windows : Listed(b, u) => \A k \in Cells(b.win[u]) : c.win[u].saved[k] = Memory(u, k)
  <2> SUFFICES ASSUME NEW u \in Windows, Listed(b, u), NEW k \in Cells(b.win[u])
               PROVE  c.win[u].saved[k] = Memory(u, k)
    OBVIOUS
  <2>1. c.win[u].saved = Mem(u)
    <3>1. Window(b.win[u]) /\ c.win[u] = [b.win[u] EXCEPT !.saved = Mem(u)]
      BY <1>1, <1>7
    <3> QED BY <1>4, <3>1, NewSaved
  <2> QED BY <1>3, <2>1
<1>10. \A u \in Windows \ {w} : Listed(b, u) => \A k \in Cells(b.win[u]) :
         \/ c.win[u].saved[k] = b.win[u].saved[k]
         \/ Covers(b.win[w], Pos(b.win[u], k)) /\ FindOver(b, w, Pos(b.win[u], k)) = u
  BY <1>6, <1>9
<1>11. \A k \in Cells(b.win[w]) : Pos(b.win[w], k) \in Screen =>
         c.win[w].saved[k] = Under(b, FindOver(b, w, Pos(b.win[w], k)), Pos(b.win[w], k))
  BY <1>1, <1>5, <1>9
<1> QED BY <1>8, <1>10, <1>11, SavingEnters DEF c

(* __screen2win: from the screen, for nothing is above.                    *)
LEMMA ScreenEnters ==
  ASSUME NEW a, NEW b, NEW w, Entering(a, b, w), Index(b, w) = 1
  PROVE  LET c == screen2win(b, w)
         IN  /\ State(c) /\ Enters(a, c, w) /\ c.win[w].visible = TRUE
             /\ SameFace(c.win[w], a.win[w])
<1> DEFINE v == b.win[w]
           sv == [k \in DOMAIN v.saved |->
                    IF Pos(v, k) \in Screen THEN b.screen[Pos(v, k)] ELSE v.saved[k]]
           n == [v EXCEPT !.saved = sv]
           c == screen2win(b, w)
<1>1. /\ State(b) /\ Parts(b) /\ List(b.head) /\ w \in Windows /\ Window(v)
      /\ Listed(b, w) /\ \A u \in Windows : Listed(b, u) => Window(b.win[u])
  BY IndexOf DEF State, Entering
<1>2. DOMAIN v.saved = Cells(v)
  BY <1>1 DEF Window
<1>3. c = SetWin(b, w, n)
  <2>1. c = [b EXCEPT !.win[w].saved = sv]
    BY DEF screen2win
  <2> HIDE DEF sv
  <2> QED BY <1>1, <2>1 DEF SetWin, Parts
<1>4. sv = [k \in Cells(v) |-> sv[k]]
  BY <1>2
<1>5. \A k \in Cells(v) : Pos(v, k) \in Screen => sv[k] = b.screen[Pos(v, k)]
  BY <1>2
<1> HIDE DEF sv, c, v
<1>6. n.saved = sv
  BY <1>1, <1>4, NewSaved
<1> HIDE DEF n
<1>7. /\ Parts(c) /\ c.head = b.head /\ c.screen = b.screen /\ c.win[w] = n
      /\ \A u \in Windows \ {w} : c.win[u] = b.win[u]
  BY <1>1, <1>3, SetWinIs
<1>8. ASSUME NEW u \in Windows, Listed(b, u)
      PROVE  \E x : /\ x = [k \in Cells(b.win[u]) |-> x[k]]
                    /\ c.win[u] = [b.win[u] EXCEPT !.saved = x]
  <2>1. CASE u = w
    BY <1>4, <1>7, <2>1 DEF n, v
  <2>2. CASE u # w
    <3> DEFINE x == b.win[u].saved
    <3>1. Window(b.win[u])
      BY <1>1, <1>8
    <3>2. x = [k \in Cells(b.win[u]) |-> x[k]]
      BY <3>1 DEF Window
    <3>3. b.win[u] = [b.win[u] EXCEPT !.saved = x]
      BY <3>1 DEF Window, Record
    <3>4. c.win[u] = [b.win[u] EXCEPT !.saved = x]
      BY <1>7, <2>2, <3>3
    <3> HIDE DEF x
    <3> QED BY <3>2, <3>4
  <2> QED BY <2>1, <2>2
<1>9. Resaves(b, c)
  BY <1>7, <1>8 DEF Resaves
<1>10. \A p : FindOver(b, w, p) = None
  <2> SUFFICES ASSUME NEW p PROVE FindOver(b, w, p) = None
    OBVIOUS
  <2>1. {i \in 1 .. Index(b, w) - 1 : Covers(b.win[b.head[i]], p)} = {}
    OBVIOUS
  <2> QED BY <2>1 DEF FindOver
<1>11. \A u \in Windows \ {w} : Listed(b, u) => \A k \in Cells(b.win[u]) :
         \/ c.win[u].saved[k] = b.win[u].saved[k]
         \/ Covers(b.win[w], Pos(b.win[u], k)) /\ FindOver(b, w, Pos(b.win[u], k)) = u
  BY <1>7
<1>12. \A k \in Cells(b.win[w]) : Pos(b.win[w], k) \in Screen =>
         c.win[w].saved[k] = Under(b, FindOver(b, w, Pos(b.win[w], k)), Pos(b.win[w], k))
  BY <1>5, <1>6, <1>7, <1>10 DEF v, Under
<1> QED BY <1>9, <1>11, <1>12, SavingEnters DEF c

-----------------------------------------------------------------------------
(* Sending cells of the body of a window, shown or not.                    *)
Sends(s, r, w, cells) == \E accel \in BOOLEAN :
  r = Update(s, w, cells, s.win[w].body, accel, s.win[w].enabled)

(* Cells of the body are sent: they are no exception any more.             *)
LEMMA SendKeeps ==
  ASSUME NEW s, State(s), NEW w, Listed(s, w), NEW cells,
         NEW D, Chain(s, w, D), NEW r, Sends(s, r, w, cells)
  PROVE  /\ State(r) /\ Chain(r, w, D \ cells) /\ r.head = s.head
         /\ \A u \in Windows : Listed(s, u) => SameText(r.win[u], s.win[u])
<1>1. w \in Windows /\ Window(s.win[w]) /\ List(s.head)
  BY IndexOf DEF State
<1>5. PICK accel \in BOOLEAN :
        r = Update(s, w, cells, s.win[w].body, accel, s.win[w].enabled)
  BY DEF Sends
<1>2. s.win[w].visible \in BOOLEAN /\ s.win[w].enabled \in BOOLEAN
  BY <1>1 DEF Window
<1>3. CASE s.win[w].visible = TRUE
  <2>1. Chain(r, w, D \ cells)
    BY <1>3, <1>5, UpdateKeeps
  <2> DEFINE text == s.win[w].body   live == s.win[w].enabled
  <2>2. r = Update(s, w, cells, text, accel, live) /\ live \in BOOLEAN
    BY <1>2, <1>5
  <2> HIDE DEF text, live
  <2>3. Delivers(s, r, w, cells, text, accel, live)
    BY <1>3, <2>2, UpdateGives
  <2> QED BY <2>1, <2>3 DEF Delivers
<1>4. CASE s.win[w].visible = FALSE
  <2>1. r = s
    BY <1>4, <1>5 DEF Update
  <2>2. \A p : ~Covering(s, w, p)
    BY <1>4 DEF Covering, Covers
  <2>3. \A x, p, symbol : Covering(s, x, p) /\ Reads(s, w, D, x, p, symbol)
                          => Reads(s, w, D \ cells, x, p, symbol)
    BY <2>2 DEF Reads
  <2>4. ASSUME NEW p \in Screen, NEW u, Reaches(s, u, p)
        PROVE  Link(s, w, D \ cells, u, p)
    <3>1. Link(s, w, D, u, p)
      BY <2>4 DEF Chain
    <3> QED BY <2>3, <3>1 DEF Link, Beneath
  <2>5. Chain(s, w, D \ cells)
    BY <2>4 DEF Chain
  <2> QED BY <2>1, <2>5 DEF SameText, Alike
<1> QED BY <1>2, <1>3, <1>4

(* With no exception left it does not matter which window it was for.      *)
LEMMA NoException ==
  ASSUME NEW s, NEW w
  PROVE  Chain(s, w, {}) <=> Chain(s, None, {})
BY DEF Chain, Link, Reads

(* Sending all that is an exception.                                       *)
LEMMA SendAll ==
  ASSUME NEW s, State(s), NEW w, Listed(s, w), NEW cells,
         NEW D, D \subseteq cells, Chain(s, w, D), Frames(s, w),
         NEW r, Sends(s, r, w, cells)
  PROVE  /\ Sound(r, w) /\ r.head = s.head /\ SameText(r.win[w], s.win[w])
<1>1. w \in Windows
  BY IndexOf DEF State
<1>2. /\ State(r) /\ Chain(r, w, D \ cells) /\ r.head = s.head
      /\ \A u \in Windows : Listed(s, u) => SameText(r.win[u], s.win[u])
  BY SendKeeps
<1>3. D \ cells = {}
  OBVIOUS
<1>4. Chain(r, None, {})
  BY <1>2, <1>3, NoException
<1>5. Frames(r, w)
  <2>1. ASSUME NEW u \in Windows \ {w}, Listed(r, u)
        PROVE  Listed(s, u) /\ SameFace(r.win[u], s.win[u])
    BY <1>2, <2>1, SameTextIsFace DEF Listed
  <2> QED BY <2>1, FramesKept
<1> QED BY <1>1, <1>2, <1>4, <1>5 DEF Sound

(* A window that has entered is sent to the screen.                        *)
LEMMA Appears ==
  ASSUME NEW a, NEW w, Sound(a, w), NEW c, State(c), Enters(a, c, w)
  PROVE  LET r == updatescreen(c, w, TRUE)
         IN  Sound(r, w) /\ r.head = c.head /\ SameText(r.win[w], c.win[w])
<1> DEFINE r == updatescreen(c, w, TRUE)
           cells == Cells(c.win[w])
<1>1. Sends(c, r, w, cells)
  BY DEF updatescreen, updatescreenpiece, Sends
<1> HIDE DEF r, cells
<1>2. Chain(c, w, cells)
  BY EnterKeeps DEF Sound, State, cells
<1>3. Frames(c, w)
  <2>1. ASSUME NEW u \in Windows \ {w}, Listed(c, u)
        PROVE  Listed(a, u) /\ SameFace(c.win[u], a.win[u])
    BY <2>1, SameTextIsFace DEF Enters, SameOrder
  <2> QED BY <2>1, FramesKept DEF Sound
<1>4. Listed(c, w) /\ cells \subseteq cells
  BY DEF Enters
<1> QED BY <1>1, <1>2, <1>3, <1>4, SendAll DEF r

-----------------------------------------------------------------------------
(* The operations that show a window.                                      *)
Keeps(s, r, w) == Sound(r, w) /\ Listed(r, w) /\ SameFace(r.win[w], s.win[w])

(* One operation after the other.                                          *)
LEMMA KeepsTwice ==
  ASSUME NEW s, NEW q, NEW r, NEW w, Keeps(s, q, w), Keeps(q, r, w)
  PROVE  Keeps(s, r, w)
BY DEF Keeps, SameFace

(* An operation that keeps the text of the window keeps its frame.         *)
LEMMA KeepsSound ==
  ASSUME NEW s, NEW r, NEW w, Listed(s, w), Keeps(s, r, w),
         w \in Framed => FrameWhole(s.win[w])
  PROVE  Sound(r, None)
<1>1. w \in Framed => FrameWhole(r.win[w])
  BY FaceKeepsFrame DEF Keeps
<1> QED BY <1>1, SoundEnds DEF Keeps

(* A window that has entered is sent, with its text.                       *)
LEMMA AppearsKeeps ==
  ASSUME NEW a, NEW w, Sound(a, w), NEW c, State(c), Enters(a, c, w),
         SameFace(c.win[w], a.win[w])
  PROVE  Keeps(a, updatescreen(c, w, TRUE), w)
<1> DEFINE r == updatescreen(c, w, TRUE)
<1> HIDE DEF r
<1>1. Sound(r, w) /\ r.head = c.head /\ SameText(r.win[w], c.win[w])
  BY Appears DEF r
<1>2. Listed(r, w)
  BY <1>1 DEF Enters, Listed
<1>3. SameFace(r.win[w], a.win[w])
  BY <1>1, SameTextIsFace DEF SameFace
<1> QED BY <1>1, <1>2, <1>3 DEF Keeps, r

(* twShowWin.                                                              *)
LEMMA ShowKeeps ==
  ASSUME NEW a, NEW w, Sound(a, w), Listed(a, w)
  PROVE  Keeps(a, Show(a, w), w)
<1>1. a.win[w].visible \in BOOLEAN
  <2>1. w \in Windows
    BY IndexOf DEF Sound, State
  <2> QED BY <2>1 DEF Sound, State, Window
<1>2. CASE a.win[w].visible = TRUE
  <2>1. Show(a, w) = a
    BY <1>2 DEF Show
  <2> QED BY <2>1 DEF Keeps, SameFace
<1>3. CASE a.win[w].visible = FALSE
  <2> DEFINE b == AtHead(unlistwin([a EXCEPT !.win[w].visible = TRUE], w), w)
             c == updatewinmem(b, w)
  <2>1. Show(a, w) = updatescreen(c, w, TRUE)
    BY <1>3 DEF Show
  <2>2. Entering(a, b, w)
    <3>1. None = None \/ (Listed(a, None) /\ None # w)
      OBVIOUS
    <3> QED BY <1>3, <3>1, EnteringList
  <2> HIDE DEF b
  <2>3. State(c) /\ Enters(a, c, w) /\ SameFace(c.win[w], a.win[w])
    BY <2>2, MemEnters
  <2> HIDE DEF c
  <2> QED BY <2>1, <2>3, AppearsKeeps
<1> QED BY <1>1, <1>2, <1>3

(* A shown window is hidden first.                                         *)
LEMMA HiddenFirst ==
  ASSUME NEW s, NEW w, Sound(s, w), Listed(s, w)
  PROVE  LET h == IF s.win[w].visible THEN Hide(s, w) ELSE s
         IN  /\ Sound(h, w) /\ h.head = s.head /\ Listed(h, w) /\ h.win[w].visible = FALSE
             /\ SameFace(h.win[w], s.win[w])
             /\ h.win[w].X1 = s.win[w].X1 /\ h.win[w].Y1 = s.win[w].Y1
<1>1. s.win[w].visible \in BOOLEAN
  <2>1. w \in Windows
    BY IndexOf DEF Sound, State
  <2> QED BY <2>1 DEF Sound, State, Window
<1> DEFINE r == Hide(s, w)
<1>2. /\ Sound(r, w) /\ r.head = s.head /\ r.win[w].visible = FALSE
      /\ SameFace(r.win[w], s.win[w])
      /\ r.win[w].X1 = s.win[w].X1 /\ r.win[w].Y1 = s.win[w].Y1
  BY HideKeeps
<1> HIDE DEF r
<1>3. Listed(r, w)
  BY <1>2 DEF Listed
<1>4. CASE s.win[w].visible = TRUE
  BY <1>2, <1>3, <1>4 DEF r
<1>5. CASE s.win[w].visible = FALSE
  BY <1>5 DEF SameFace
<1> QED BY <1>1, <1>4, <1>5

(* twShowWinOnTop.                                                         *)
LEMMA ShowOnTopKeeps ==
  ASSUME NEW s, NEW w, Sound(s, w), Listed(s, w)
  PROVE  Keeps(s, ShowOnTop(s, w), w)
<1> DEFINE h == IF s.win[w].visible THEN Hide(s, w) ELSE s
           b == AtHead(unlistwin([h EXCEPT !.win[w].visible = TRUE], w), w)
           c == screen2win(b, w)
<1>1. ShowOnTop(s, w) = updatescreen(c, w, TRUE)
  BY DEF ShowOnTop
<1>2. /\ Sound(h, w) /\ Listed(h, w) /\ h.win[w].visible = FALSE
      /\ SameFace(h.win[w], s.win[w])
  BY HiddenFirst
<1> HIDE DEF h
<1>3. Entering(h, b, w) /\ Index(b, w) = 1
  <2>1. None = None \/ (Listed(h, None) /\ None # w)
    OBVIOUS
  <2> QED BY <1>2, <2>1, EnteringList
<1> HIDE DEF b
<1>4. State(c) /\ Enters(h, c, w) /\ SameFace(c.win[w], h.win[w])
  BY <1>3, ScreenEnters
<1> HIDE DEF c
<1>5. Keeps(h, updatescreen(c, w, TRUE), w)
  BY <1>2, <1>4, AppearsKeeps
<1> QED BY <1>1, <1>2, <1>5 DEF Keeps, SameFace

(* __ShowBeneath, by which windows are moved and resized.                  *)
LEMMA ShowBeneathKeeps ==
  ASSUME NEW s, NEW w, Sound(s, w), Listed(s, w),
         NEW prev, prev = None \/ (Listed(s, prev) /\ prev # w)
  PROVE  Keeps(s, ShowBeneath(s, w, prev), w)
<1> DEFINE h == IF s.win[w].visible THEN Hide(s, w) ELSE s
           b == AtWin(unlistwin([h EXCEPT !.win[w].visible = TRUE], w), w, prev)
           c == updatewinmem(b, w)
<1>1. ShowBeneath(s, w, prev) = updatescreen(c, w, TRUE)
  BY DEF ShowBeneath
<1>2. /\ Sound(h, w) /\ Listed(h, w) /\ h.win[w].visible = FALSE /\ h.head = s.head
      /\ SameFace(h.win[w], s.win[w])
  BY HiddenFirst
<1> HIDE DEF h
<1>3. Entering(h, b, w)
  <2>1. prev = None \/ (Listed(h, prev) /\ prev # w)
    BY <1>2 DEF Listed
  <2> QED BY <1>2, <2>1, EnteringList
<1> HIDE DEF b
<1>4. State(c) /\ Enters(h, c, w) /\ SameFace(c.win[w], h.win[w])
  BY <1>3, MemEnters
<1> HIDE DEF c
<1>5. Keeps(h, updatescreen(c, w, TRUE), w)
  BY <1>2, <1>4, AppearsKeeps
<1> QED BY <1>1, <1>2, <1>5 DEF Keeps, SameFace

-----------------------------------------------------------------------------
(* A body is written to, and what was written is sent.                     *)
Writes(s, q, w, cells) ==
  \E bd : /\ bd = [k \in Cells(s.win[w]) |-> bd[k]]
          /\ \A k \in Cells(s.win[w]) : k \notin cells => bd[k] = s.win[w].body[k]
          /\ q = [s EXCEPT !.win[w].body = bd]

(* What stays when some cells of a body are written.                       *)
Written(s, q, w, cells) ==
  /\ q.head = s.head
  /\ Alike(q.win[w], s.win[w]) /\ q.win[w].enabled = s.win[w].enabled
  /\ \A k \in Cells(s.win[w]) : k \notin cells => q.win[w].body[k] = s.win[w].body[k]

(* The cells that were written become exceptions until they are sent.      *)
LEMMA WriteKeeps ==
  ASSUME NEW s, State(s), NEW w, Listed(s, w), NEW D, Chain(s, w, D), Frames(s, w),
         NEW cells, NEW q, Writes(s, q, w, cells)
  PROVE  /\ State(q) /\ Chain(q, w, D \cup cells) /\ Frames(q, w)
         /\ Written(s, q, w, cells)
<1> DEFINE v == s.win[w]
<1>1. PICK bd : /\ bd = [k \in Cells(v) |-> bd[k]]
                /\ \A k \in Cells(v) : k \notin cells => bd[k] = v.body[k]
                /\ q = [s EXCEPT !.win[w].body = bd]
  BY DEF Writes
<1> DEFINE n == [v EXCEPT !.body = bd]
<1>2. /\ Parts(s) /\ List(s.head) /\ w \in Windows /\ Window(v)
      /\ \A u : Listed(s, u) => u \in Windows
  BY IndexOf DEF State
<1>3. q = SetWin(s, w, n)
  BY <1>1, <1>2 DEF Parts, SetWin
<1>4. /\ Window(n) /\ Alike(n, v) /\ n.enabled = v.enabled
      /\ n.body = bd /\ n.saved = v.saved /\ n.owed = v.owed
  <2> HIDE DEF v
  <2> QED BY <1>1, <1>2, NewBody
<1> HIDE DEF n, v
<1>5. /\ Parts(q) /\ q.head = s.head /\ q.screen = s.screen /\ q.win[w] = n
      /\ \A u \in Windows \ {w} : q.win[u] = s.win[u]
  BY <1>2, <1>3, SetWinIs
<1>6. State(q)
  <2> SUFFICES ASSUME NEW u \in Windows, Listed(q, u) PROVE Window(q.win[u])
    BY <1>2, <1>5 DEF State
  <2>1. CASE u = w
    BY <1>4, <1>5, <2>1
  <2>2. CASE u # w
    BY <1>5, <2>2 DEF State, Listed
  <2> QED BY <2>1, <2>2
<1>7. \A u \in Windows : Listed(s, u) => Alike(q.win[u], s.win[u])
  BY <1>4, <1>5 DEF v, Alike
<1>8. /\ \A u, p : Reaches(q, u, p) <=> Reaches(s, u, p)
      /\ \A u, x, p : Beneath(q, u, x, p) <=> Beneath(s, u, x, p)
      /\ \A u, p : Bottom(q, u, p) <=> Bottom(s, u, p)
      /\ \A u, p : Listed(s, u) => CellAt(q.win[u], p) = CellAt(s.win[u], p)
  <2>1. List(s.head) /\ q.head = s.head
    BY <1>2, <1>5
  <2> QED BY <1>7, <2>1, SameCovering
<1>9. ASSUME NEW p \in Screen, NEW u, Reaches(s, u, p)
      PROVE  Link(q, w, D \cup cells, u, p)
  <2>1. Link(s, w, D, u, p)
    BY <1>9 DEF Chain
  <2>2. Under(q, u, p) = Under(s, u, p)
    <3>1. CASE u = None
      BY <1>5, <3>1 DEF Under
    <3>2. CASE u = w /\ u # None
      BY <1>4, <1>5, <1>8, <3>2 DEF Under, v
    <3>3. CASE u # w /\ u # None
      <4>1. u \in Windows \ {w}
        BY <1>2, <1>9, <3>3 DEF Reaches, Covering
      <4> QED BY <1>5, <4>1 DEF Under
    <3> QED BY <3>1, <3>2, <3>3
  <2>3. ASSUME NEW x, Beneath(s, u, x, p)
        PROVE  Reads(q, w, D \cup cells, x, p, Under(s, u, p))
    <3>1. Reads(s, w, D, x, p, Under(s, u, p)) /\ Covering(s, x, p)
      BY <2>1, <2>3 DEF Link, Beneath
    <3>2. CASE x = w
      <4>1. CellAt(s.win[w], p) \in Cells(v)
        BY <1>2, <3>1, <3>2, CellOfPlace, ScreenPlaces DEF Covering, v
      <4>2. /\ q.win[w].owed = s.win[w].owed /\ q.win[w].body = bd
            /\ CellAt(q.win[w], p) = CellAt(s.win[w], p)
        BY <1>4, <1>5, <1>8 DEF v
      <4>3. CellAt(s.win[w], p) \in cells \/
            bd[CellAt(s.win[w], p)] = s.win[w].body[CellAt(s.win[w], p)]
        BY <1>1, <4>1 DEF v
      <4> QED BY <3>1, <3>2, <4>2, <4>3 DEF Reads
    <3>3. CASE x # w
      <4>1. x \in Windows \ {w}
        BY <1>2, <3>1, <3>3 DEF Covering
      <4>2. q.win[x] = s.win[x]
        BY <1>5, <4>1
      <4> QED BY <3>1, <3>3, <4>2 DEF Reads
    <3> QED BY <3>2, <3>3
  <2> QED BY <1>8, <2>1, <2>2, <2>3 DEF Link
<1>10. Chain(q, w, D \cup cells)
  BY <1>8, <1>9 DEF Chain
<1>11. Frames(q, w)
  <2>1. \A u \in Windows \ {w} : Listed(q, u) => Listed(s, u) /\ SameFace(q.win[u], s.win[u])
    BY <1>5 DEF Listed, SameFace
  <2> QED BY <2>1, FramesKept
<1>12. /\ Alike(q.win[w], s.win[w]) /\ q.win[w].enabled = s.win[w].enabled
       /\ \A k \in Cells(s.win[w]) : k \notin cells => q.win[w].body[k] = s.win[w].body[k]
  BY <1>1, <1>4, <1>5 DEF v
<1> QED BY <1>5, <1>6, <1>10, <1>11, <1>12 DEF Written

(* Put writes.                                                             *)
LEMMA PutWrites ==
  ASSUME NEW s, State(s), NEW w, Listed(s, w), NEW cells, NEW ch
  PROVE  /\ Writes(s, Put(s, w, cells, ch), w, cells)
         /\ \A k \in Cells(s.win[w]) \cap cells : Put(s, w, cells, ch).win[w].body[k] = ch
<1> DEFINE v == s.win[w]
           bd == [k \in DOMAIN v.body |-> IF k \in cells THEN ch ELSE v.body[k]]
           q == Put(s, w, cells, ch)
<1>1. w \in Windows /\ Window(v) /\ Parts(s)
  BY IndexOf DEF State
<1>2. q = [s EXCEPT !.win[w].body = bd]
  BY DEF Put
<1>3. DOMAIN v.body = Cells(v)
  BY <1>1 DEF Window
<1>4. /\ bd = [k \in Cells(v) |-> bd[k]]
      /\ \A k \in Cells(v) : bd[k] = IF k \in cells THEN ch ELSE v.body[k]
  BY <1>3
<1> HIDE DEF bd, q, v
<1>5. Writes(s, q, w, cells)
  BY <1>2, <1>4 DEF Writes, v
<1>6. q = SetWin(s, w, [v EXCEPT !.body = bd])
  BY <1>1, <1>2 DEF Parts, SetWin, v
<1>7. q.win[w] = [v EXCEPT !.body = bd]
  BY <1>1, <1>6, SetWinIs
<1>8. q.win[w].body = bd
  BY <1>1, <1>4, <1>7, NewBody
<1> QED BY <1>4, <1>5, <1>8 DEF q, v

(* Freezing and thawing.                                                   *)
LEMMA EnableKeeps ==
  ASSUME NEW s, NEW w, Sound(s, w), Listed(s, w), NEW b \in BOOLEAN
  PROVE  LET q == [s EXCEPT !.win[w].enabled = b]
         IN  Sound(q, w) /\ q.head = s.head /\ SameFace(q.win[w], s.win[w])
<1> DEFINE v == s.win[w]
           n == [v EXCEPT !.enabled = b]
           q == [s EXCEPT !.win[w].enabled = b]
<1>1. /\ State(s) /\ Parts(s) /\ List(s.head) /\ w \in Windows /\ Window(v)
      /\ \A u : Listed(s, u) => u \in Windows
  BY IndexOf DEF Sound, State
<1>2. q = SetWin(s, w, n)
  BY <1>1 DEF Parts, SetWin
<1>3. /\ Window(n) /\ Alike(n, v) /\ n.enabled = b
      /\ n.body = v.body /\ n.saved = v.saved /\ n.owed = v.owed
  <2> HIDE DEF v
  <2> QED BY <1>1, NewEnabled
<1> HIDE DEF n, v, q
<1>4. /\ Parts(q) /\ q.head = s.head /\ q.screen = s.screen /\ q.win[w] = n
      /\ \A u \in Windows \ {w} : q.win[u] = s.win[u]
  BY <1>1, <1>2, SetWinIs
<1>5. State(q)
  <2> SUFFICES ASSUME NEW u \in Windows, Listed(q, u) PROVE Window(q.win[u])
    BY <1>1, <1>4 DEF State
  <2>1. CASE u = w
    BY <1>3, <1>4, <2>1
  <2>2. CASE u # w
    BY <1>1, <1>4, <2>2 DEF State, Listed
  <2> QED BY <2>1, <2>2
<1>6. \A u \in Windows : /\ Alike(q.win[u], s.win[u]) /\ q.win[u].body = s.win[u].body
                         /\ q.win[u].saved = s.win[u].saved /\ q.win[u].owed = s.win[u].owed
  BY <1>3, <1>4 DEF v, Alike
<1>7. /\ \A u, p : Reaches(q, u, p) <=> Reaches(s, u, p)
      /\ \A u, x, p : Beneath(q, u, x, p) <=> Beneath(s, u, x, p)
      /\ \A u, p : Bottom(q, u, p) <=> Bottom(s, u, p)
      /\ \A u, p : Listed(s, u) => CellAt(q.win[u], p) = CellAt(s.win[u], p)
  <2>1. List(s.head) /\ q.head = s.head
    BY <1>1, <1>4
  <2>2. \A u \in Windows : Listed(s, u) => Alike(q.win[u], s.win[u])
    BY <1>6
  <2> QED BY <2>1, <2>2, SameCovering
<1>8. ASSUME NEW p \in Screen, NEW u, Reaches(s, u, p)
      PROVE  Link(q, None, {}, u, p)
  <2>1. Link(s, None, {}, u, p)
    BY <1>8 DEF Sound, Chain
  <2>2. Under(q, u, p) = Under(s, u, p)
    <3>1. CASE u = None
      BY <1>4, <3>1 DEF Under
    <3>2. CASE u # None
      BY <1>1, <1>6, <1>7, <1>8, <3>2 DEF Under, Reaches, Covering
    <3> QED BY <3>1, <3>2
  <2>3. ASSUME NEW x, Beneath(s, u, x, p)
        PROVE  Reads(q, None, {}, x, p, Under(s, u, p))
    <3>1. Reads(s, None, {}, x, p, Under(s, u, p)) /\ Listed(s, x) /\ x \in Windows
      BY <1>1, <2>1, <2>3 DEF Link, Beneath, Covering
    <3> QED BY <1>6, <1>7, <3>1 DEF Reads
  <2> QED BY <1>7, <2>1, <2>2, <2>3 DEF Link
<1>9. Chain(q, None, {})
  BY <1>7, <1>8 DEF Chain
<1>10. Frames(q, w)
  <2>1. \A u \in Windows \ {w} : Listed(q, u) => Listed(s, u) /\ SameFace(q.win[u], s.win[u])
    BY <1>4 DEF Listed, SameFace
  <2> QED BY <2>1, FramesKept DEF Sound
<1>11. SameFace(q.win[w], s.win[w])
  BY <1>1, <1>6 DEF SameFace, Alike
<1> QED BY <1>4, <1>5, <1>9, <1>10, <1>11 DEF Sound, q

(* __paint_internal.                                                       *)
LEMMA PaintKeeps ==
  ASSUME NEW s, NEW w, Sound(s, w), Listed(s, w)
  PROVE  LET r == paint_internal(s, w)
         IN  /\ Sound(r, w) /\ r.head = s.head /\ Alike(r.win[w], s.win[w])
             /\ w \in Framed => FrameWhole(r.win[w])
<1>1. CASE w \notin Framed
  BY <1>1 DEF paint_internal, Alike
<1>2. CASE w \in Framed
  <2> DEFINE v == s.win[w]
             border == Border(v)
             lines == Row(v, 0) \cup Row(v, v.wheight - 1)
             sides == border \ lines
             q == Put(s, w, border, Frame)
             q2 == updatescreenchar(q, w, sides)
             r == updatescreenpiece(q2, w, lines)
  <2>1. paint_internal(s, w) = r
    BY <1>2 DEF paint_internal
  <2>2. Sends(q, q2, w, sides)
    BY DEF updatescreenchar, Sends
  <2>3. Sends(q2, r, w, lines)
    BY DEF updatescreenpiece, Sends
  <2>4. border \subseteq Cells(v)
    BY DEF Border
  <2> HIDE DEF border, lines, q, q2, r, sides
  <2>5. Writes(s, q, w, border) /\ \A k \in Cells(s.win[w]) \cap border : q.win[w].body[k] = Frame
    BY PutWrites DEF Sound, q
  <2>6. /\ State(q) /\ Chain(q, w, {} \cup border) /\ Frames(q, w) /\ q.head = s.head
        /\ Alike(q.win[w], s.win[w])
    <3>1. Chain(s, w, {})
      BY NoException DEF Sound
    <3>2. State(q) /\ Chain(q, w, {} \cup border) /\ Frames(q, w) /\ Written(s, q, w, border)
      BY <2>5, <3>1, WriteKeeps DEF Sound
    <3> QED BY <3>2 DEF Written
  <2>7. Chain(q, w, border) /\ Listed(q, w)
    <3>1. {} \cup border = border
      OBVIOUS
    <3>2. Listed(q, w)
      BY <2>6 DEF Listed
    <3> QED BY <2>6, <3>1, <3>2
  <2>8. w \in Windows
    BY IndexOf DEF Sound, State
  <2>9. /\ State(q2) /\ Chain(q2, w, border \ sides) /\ q2.head = q.head
        /\ \A u \in Windows : Listed(q, u) => SameText(q2.win[u], q.win[u])
    BY <2>2, <2>6, <2>7, SendKeeps
  <2>10. Listed(q2, w) /\ Frames(q2, w) /\ border \ sides \subseteq lines
    <3>1. \A u \in Windows \ {w} : Listed(q2, u) => Listed(q, u) /\ SameFace(q2.win[u], q.win[u])
      BY <2>9, SameTextIsFace DEF Listed
    <3>2. Frames(q2, w)
      BY <2>6, <3>1, FramesKept
    <3> QED BY <2>7, <2>9, <3>2 DEF Listed, sides
  <2>11. Sound(r, w) /\ r.head = q2.head /\ SameText(r.win[w], q2.win[w])
    BY <2>3, <2>9, <2>10, SendAll
  <2>12. SameText(q2.win[w], q.win[w])
    BY <2>7, <2>8, <2>9
  <2>13. r.win[w].body = q.win[w].body /\ Alike(r.win[w], s.win[w])
    BY <2>6, <2>11, <2>12 DEF SameText, Alike
  <2>14. Border(r.win[w]) = border
    BY <2>13 DEF Alike, Border, Cells, border, v
  <2>15. FrameWhole(r.win[w])
    <3> SUFFICES ASSUME NEW k \in border PROVE r.win[w].body[k] = Frame
      BY <2>14 DEF FrameWhole
    <3> QED BY <2>4, <2>5, <2>13 DEF v
  <2> QED BY <2>1, <2>6, <2>9, <2>11, <2>13, <2>15
<1> QED BY <1>1, <1>2

-----------------------------------------------------------------------------
(* Text is put into cells that are not the frame, and sent.                *)
LEMMA TextKeeps ==
  ASSUME NEW s, NEW w, Sound(s, None), Listed(s, w), NEW cells,
         cells \subseteq Client(w, s.win[w]), NEW q, Writes(s, q, w, cells),
         NEW sent, cells \subseteq sent, NEW r, Sends(q, r, w, sent)
  PROVE  Sound(r, None)
<1>1. Sound(s, w) /\ (w \in Framed => FrameWhole(s.win[w]))
  BY SoundBegins
<1>2. /\ State(q) /\ Chain(q, w, {} \cup cells) /\ Frames(q, w) /\ q.head = s.head
      /\ Alike(q.win[w], s.win[w])
      /\ \A k \in Cells(s.win[w]) : k \notin cells => q.win[w].body[k] = s.win[w].body[k]
  <2> DEFINE none == {}
  <2>1. Chain(s, w, none) /\ State(s) /\ Frames(s, w)
    BY <1>1, NoException DEF Sound
  <2> HIDE DEF none
  <2>2. /\ State(q) /\ Chain(q, w, none \cup cells) /\ Frames(q, w)
        /\ Written(s, q, w, cells)
    BY <2>1, WriteKeeps
  <2> QED BY <2>2 DEF none, Written
<1>3. Chain(q, w, cells) /\ Listed(q, w)
  <2>1. {} \cup cells = cells
    OBVIOUS
  <2>2. Listed(q, w)
    BY <1>2 DEF Listed
  <2> QED BY <1>2, <2>1, <2>2
<1>4. Sound(r, w) /\ r.head = q.head /\ SameText(r.win[w], q.win[w])
  BY <1>2, <1>3, SendAll
<1>5. ASSUME w \in Framed
      PROVE  FrameWhole(r.win[w])
  <2>1. Border(s.win[w]) \cap cells = {} /\ Border(s.win[w]) \subseteq Cells(s.win[w])
    BY <1>5 DEF Client, Border
  <2>2. Border(r.win[w]) = Border(s.win[w]) /\ r.win[w].body = q.win[w].body
    BY <1>2, <1>4 DEF SameText, Alike, Border, Cells
  <2> QED BY <1>1, <1>2, <1>5, <2>1, <2>2 DEF FrameWhole
<1> QED BY <1>4, <1>5, SoundEnds

-----------------------------------------------------------------------------
(* A hidden window moves or is resized.                                    *)
LEMMA ReplaceKeeps ==
  ASSUME NEW h, NEW w, Sound(h, w), Listed(h, w), h.win[w].visible = FALSE,
         NEW n, Window(n), n.visible = FALSE
  PROVE  Sound(SetWin(h, w, n), w) /\ Listed(SetWin(h, w, n), w)
<1> DEFINE r == SetWin(h, w, n)
<1>1. Parts(h) /\ List(h.head) /\ w \in Windows
  BY IndexOf DEF Sound, State
<1>2. /\ Parts(r) /\ r.head = h.head /\ r.screen = h.screen /\ r.win[w] = n
      /\ \A u \in Windows \ {w} : r.win[u] = h.win[u]
  BY <1>1, SetWinIs
<1> HIDE DEF r
<1>3. SameOrder(h, r, w) /\ Listed(r, w)
  BY <1>1, <1>2, SameHead
<1>4. Aside(h, r, w) /\ Uncovered(h, w) /\ Uncovered(r, w) /\ Window(r.win[w])
  BY <1>2, <1>3 DEF Aside, Uncovered
<1>5. Sound(r, w)
  BY <1>1, <1>2, <1>4, AsideKeeps
<1> QED BY <1>3, <1>5 DEF r

(* The two fields that a move sets.                                        *)
LEMMA NewPlace ==
  ASSUME NEW v, Window(v), NEW x \in Int, NEW y \in Int
  PROVE  LET n == [[v EXCEPT !.X1 = x] EXCEPT !.Y1 = y]
         IN  Window(n) /\ n.visible = v.visible /\ SameFace(n, v)
<1> DEFINE n == [[v EXCEPT !.X1 = x] EXCEPT !.Y1 = y]
<1>1. n = [X1 |-> x, Y1 |-> y, wwidth |-> v.wwidth, wheight |-> v.wheight,
           visible |-> v.visible, enabled |-> v.enabled, body |-> v.body,
           saved |-> v.saved, owed |-> v.owed]
  <2> DEFINE m == [v EXCEPT !.X1 = x]
  <2>1. m = [X1 |-> x, Y1 |-> v.Y1, wwidth |-> v.wwidth, wheight |-> v.wheight,
             visible |-> v.visible, enabled |-> v.enabled, body |-> v.body,
             saved |-> v.saved, owed |-> v.owed]
    BY DEF Window, Record
  <2>2. n = [m EXCEPT !.Y1 = y]
    OBVIOUS
  <2> HIDE DEF m, n
  <2> QED BY <2>1, <2>2
<1> HIDE DEF n
<1>2. Record(n)
  BY <1>1 DEF Record
<1>3. /\ n.X1 = x /\ n.Y1 = y /\ n.wwidth = v.wwidth /\ n.wheight = v.wheight
  BY <1>1
<1>4. n.visible = v.visible
  BY <1>1
<1>5. n.enabled = v.enabled
  BY <1>1
<1>6. n.body = v.body /\ n.saved = v.saved /\ n.owed = v.owed
  BY <1>1
<1>7. Cells(n) = Cells(v)
  BY <1>3 DEF Cells
<1>8. Window(n)
  BY <1>2, <1>3, <1>4, <1>5, <1>6, <1>7 DEF Window
<1> QED BY <1>3, <1>4, <1>6, <1>8 DEF n, SameFace

(* A hidden window that got another place.                                 *)
Replaced(h, r, w) == Keeps(h, r, w) /\ r.head = h.head /\ r.win[w].visible = FALSE

(* Moving a hidden window changes no chain.                                *)
LEMMA PlaceKeeps ==
  ASSUME NEW h, NEW w, Sound(h, w), Listed(h, w), h.win[w].visible = FALSE,
         NEW x \in Int, NEW y \in Int
  PROVE  Replaced(h, [h EXCEPT !.win[w].X1 = x, !.win[w].Y1 = y], w)
<1> DEFINE v == h.win[w]
           n1 == [v EXCEPT !.X1 = x]
           n == [n1 EXCEPT !.Y1 = y]
           q == SetWin(h, w, n1)
           r == [h EXCEPT !.win[w].X1 = x, !.win[w].Y1 = y]
<1>1. Parts(h) /\ List(h.head) /\ w \in Windows /\ Window(v)
  BY IndexOf DEF Sound, State
<1>2. r = [[h EXCEPT !.win[w].X1 = x] EXCEPT !.win[w].Y1 = y]
  BY <1>1 DEF Parts
<1>3. [h EXCEPT !.win[w].X1 = x] = q
  BY <1>1 DEF Parts, SetWin
<1>4. Window(n) /\ n.visible = v.visible /\ SameFace(n, v)
  <2> HIDE DEF v
  <2> QED BY <1>1, NewPlace
<1> HIDE DEF n1, r
<1>5. Parts(q) /\ q.win[w] = n1 /\ \A m : SetWin(q, w, m) = SetWin(h, w, m)
  BY <1>1, SetWinIs
<1> HIDE DEF q
<1>6. [q EXCEPT !.win[w].Y1 = y] = SetWin(q, w, n)
  BY <1>1, <1>5 DEF Parts, SetWin
<1> HIDE DEF n
<1>7. r = SetWin(h, w, n)
  BY <1>2, <1>3, <1>5, <1>6
<1>8. n.visible = FALSE
  BY <1>4
<1>9. Sound(r, w) /\ Listed(r, w) /\ r.head = h.head /\ r.win[w] = n
  <2>1. Window(n) /\ w \in Windows /\ Parts(h)
    BY <1>1, <1>4
  <2>2. Sound(r, w) /\ Listed(r, w)
    BY <1>7, <1>8, <2>1, ReplaceKeeps
  <2>3. r.head = h.head /\ r.win[w] = n
    BY <1>7, <2>1, SetWinIs
  <2> QED BY <2>2, <2>3
<1> QED BY <1>4, <1>8, <1>9 DEF Keeps, r, Replaced

-----------------------------------------------------------------------------
(* The calls, one by one.                                                  *)
LEMMA ShowWinKeeps ==
  ASSUME Sound(t, None), NEW w \in Windows,
         twShowWin(w) \/ twShowWinOnTop(w) \/ twHideWin(w)
  PROVE  Sound(t', None)
<1>1. Listed(t, w)
  BY DEF twShowWin, twShowWinOnTop, twHideWin
<1>2. Sound(t, w) /\ (w \in Framed => FrameWhole(t.win[w]))
  BY <1>1, SoundBegins
<1>3. CASE twShowWin(w)
  <2>1. Keeps(t, t', w)
    BY <1>1, <1>2, <1>3, ShowKeeps DEF twShowWin
  <2> QED BY <1>1, <1>2, <2>1, KeepsSound
<1>4. CASE twShowWinOnTop(w)
  <2>1. Keeps(t, t', w)
    BY <1>1, <1>2, <1>4, ShowOnTopKeeps DEF twShowWinOnTop
  <2> QED BY <1>1, <1>2, <2>1, KeepsSound
<1>5. CASE twHideWin(w)
  <2>1. t' = Hide(t, w)
    BY <1>5 DEF twHideWin
  <2>2. Sound(t', w) /\ t'.head = t.head /\ SameFace(t'.win[w], t.win[w])
    BY <1>1, <1>2, <2>1, HideKeeps
  <2>3. Keeps(t, t', w)
    BY <1>1, <2>2 DEF Keeps, Listed
  <2> QED BY <1>1, <1>2, <2>3, KeepsSound
<1> QED BY <1>3, <1>4, <1>5

(* A window that moved is shown where it was in the list, or on top.       *)
LEMMA MoveKeeps ==
  ASSUME Sound(t, None), NEW w \in Windows, Listed(t, w), NEW x \in Int, NEW y \in Int,
         NEW h, h = IF t.win[w].visible THEN Hide(t, w) ELSE t,
         NEW moved, moved = [h EXCEPT !.win[w].X1 = x, !.win[w].Y1 = y]
  PROVE  /\ Sound(moved, None)
         /\ Sound(Show(moved, w), None)
         /\ Sound(ShowBeneath(moved, w, prevwin(t, w)), None)
<1>1. Sound(t, w) /\ (w \in Framed => FrameWhole(t.win[w])) /\ List(t.head)
  BY SoundBegins DEF Sound, State
<1>2. /\ Sound(h, w) /\ h.head = t.head /\ Listed(h, w) /\ h.win[w].visible = FALSE
      /\ SameFace(h.win[w], t.win[w])
  BY <1>1, HiddenFirst
<1>3. Keeps(h, moved, w) /\ moved.head = h.head
  <2>1. Replaced(h, moved, w)
    BY <1>2, PlaceKeeps
  <2> QED BY <2>1 DEF Replaced
<1>4. Keeps(t, moved, w)
  BY <1>2, <1>3 DEF Keeps, SameFace
<1>5. Keeps(t, Show(moved, w), w)
  <2>1. Keeps(moved, Show(moved, w), w)
    BY <1>4, ShowKeeps DEF Keeps
  <2> QED BY <1>4, <2>1, KeepsTwice
<1>6. prevwin(t, w) = None \/ (Listed(moved, prevwin(t, w)) /\ prevwin(t, w) # w)
  <2>1. prevwin(t, w) = None \/ (Listed(t, prevwin(t, w)) /\ prevwin(t, w) # w)
    BY <1>1, PrevIs
  <2> QED BY <1>2, <1>3, <2>1 DEF Listed
<1>7. Keeps(moved, ShowBeneath(moved, w, prevwin(t, w)), w)
  BY <1>4, <1>6, ShowBeneathKeeps DEF Keeps
<1>8. Keeps(t, ShowBeneath(moved, w, prevwin(t, w)), w)
  BY <1>4, <1>7, KeepsTwice
<1> QED BY <1>1, <1>4, <1>5, <1>8, KeepsSound

(* twMoveWin.                                                              *)
LEMMA MoveWinKeeps ==
  ASSUME Sound(t, None), NEW w \in Windows, NEW d \in Steps[w], twMoveWin(w, d)
  PROVE  Sound(t', None)
<1> DEFINE v == t.win[w]
           h == IF t.win[w].visible THEN Hide(t, w) ELSE t
           x == h.win[w].X1 + d[1]
           y == h.win[w].Y1 + d[2]
           moved == [h EXCEPT !.win[w].X1 = x, !.win[w].Y1 = y]
<1>1. /\ Listed(t, w)
      /\ t' = IF v.visible
                THEN ShowBeneath([h EXCEPT !.win[w].X1 = @ + d[1], !.win[w].Y1 = @ + d[2]],
                                 w, prevwin(t, w))
              ELSE [h EXCEPT !.win[w].X1 = @ + d[1], !.win[w].Y1 = @ + d[2]]
  BY DEF twMoveWin
<1>2. Sound(t, w)
  BY SoundBegins
<1>3. Sound(h, w) /\ Listed(h, w)
  BY <1>1, <1>2, HiddenFirst
<1> HIDE DEF h, v
<1>4. Parts(h) /\ Window(h.win[w])
  BY <1>3 DEF Sound, State
<1>5. [h EXCEPT !.win[w].X1 = @ + d[1], !.win[w].Y1 = @ + d[2]] = moved
  BY <1>4 DEF Parts
<1>6. x \in Int /\ y \in Int
  <2>1. d \in Int \X Int
    BY TwinAssumption
  <2>2. d[1] \in Int /\ d[2] \in Int
    BY <2>1
  <2> QED BY <1>4, <2>2 DEF Window
<1> HIDE DEF x, y, moved
<1>7. t' = IF v.visible THEN ShowBeneath(moved, w, prevwin(t, w)) ELSE moved
  BY <1>1, <1>5
<1>8. Sound(moved, None) /\ Sound(ShowBeneath(moved, w, prevwin(t, w)), None)
  BY <1>1, <1>6, MoveKeeps DEF h, moved
<1> QED BY <1>7, <1>8

(* twCentredWin.                                                           *)
LEMMA CentredWinKeeps ==
  ASSUME Sound(t, None), NEW w \in Windows, twCentredWin(w)
  PROVE  Sound(t', None)
<1> DEFINE v == t.win[w]
           h == IF t.win[w].visible THEN Hide(t, w) ELSE t
           x == (Width - v.wwidth) \div 2
           y == (Height - v.wheight) \div 2
           moved == [h EXCEPT !.win[w].X1 = x, !.win[w].Y1 = y]
<1>1. /\ Listed(t, w)
      /\ t' = IF v.visible THEN Show(moved, w) ELSE moved
  BY DEF twCentredWin
<1>2. x \in Int /\ y \in Int
  <2>1. v.wwidth \in Int /\ v.wheight \in Int
    <3>1. Window(v)
      BY <1>1 DEF Sound, State
    <3> HIDE DEF v
    <3> QED BY <3>1 DEF Window
  <2>2. Width \in Int /\ Height \in Int
    BY TwinAssumption
  <2> HIDE DEF v
  <2> QED BY <2>1, <2>2
<1> HIDE DEF x, y, h, moved
<1>3. Sound(moved, None) /\ Sound(Show(moved, w), None)
  BY <1>1, <1>2, MoveKeeps DEF h, moved
<1> QED BY <1>1, <1>3

(* The five fields that twResizeWin sets.                                  *)
Resized(v, a, b, bd, sv, o) ==
  [X1 |-> v.X1, Y1 |-> v.Y1, wwidth |-> a, wheight |-> b,
   visible |-> v.visible, enabled |-> v.enabled, body |-> bd, saved |-> sv, owed |-> o]

(* The same, one field after the other.                                    *)
OneByOne(v, a, b, bd, sv, o) ==
  [[[[[v EXCEPT !.wwidth = a] EXCEPT !.wheight = b] EXCEPT !.body = bd]
      EXCEPT !.saved = sv] EXCEPT !.owed = o]

(* Both give the same window.                                              *)
LEMMA ResizedIs ==
  ASSUME NEW v, Record(v), NEW a, NEW b, NEW bd, NEW sv, NEW o
  PROVE  OneByOne(v, a, b, bd, sv, o) = Resized(v, a, b, bd, sv, o)
<1> DEFINE n1 == [v EXCEPT !.wwidth = a]
           n2 == [n1 EXCEPT !.wheight = b]
           n3 == [n2 EXCEPT !.body = bd]
           n4 == [n3 EXCEPT !.saved = sv]
           n == [n4 EXCEPT !.owed = o]
<1>1. n1 = Resized(v, a, v.wheight, v.body, v.saved, v.owed)
  BY DEF Record, Resized
<1> HIDE DEF n1
<1>2. n2 = Resized(v, a, b, v.body, v.saved, v.owed)
  BY <1>1 DEF Resized
<1> HIDE DEF n2
<1>3. n3 = Resized(v, a, b, bd, v.saved, v.owed)
  BY <1>2 DEF Resized
<1> HIDE DEF n3
<1>4. n4 = Resized(v, a, b, bd, sv, v.owed)
  BY <1>3 DEF Resized
<1> HIDE DEF n4
<1>5. n = Resized(v, a, b, bd, sv, o)
  BY <1>4 DEF Resized
<1> QED BY <1>5 DEF n, n4, n3, n2, n1, OneByOne

(* An array of n cells.                                                    *)
Array(f, n) == f = [k \in 0 .. n - 1 |-> f[k]]

(* The arrays have the size of the window.                                 *)
LEMMA ResizedWindow ==
  ASSUME NEW v, Window(v), NEW a \in Nat \ {0}, NEW b \in Nat \ {0},
         NEW bd, Array(bd, a * b), NEW sv, Array(sv, a * b), NEW o
  PROVE  /\ Window(Resized(v, a, b, bd, sv, o))
         /\ Resized(v, a, b, bd, sv, o).visible = v.visible
<1> DEFINE n == Resized(v, a, b, bd, sv, o)
<1>1. /\ n.X1 = v.X1 /\ n.Y1 = v.Y1 /\ n.wwidth = a /\ n.wheight = b
      /\ n.body = bd /\ n.saved = sv
  BY DEF Resized
<1>2. n.visible = v.visible
  BY DEF Resized
<1>3. n.enabled = v.enabled
  BY DEF Resized
<1>4. Record(n)
  BY DEF Record, Resized
<1> HIDE DEF n
<1>5. Cells(n) = 0 .. a * b - 1
  BY <1>1 DEF Cells
<1>6. n.body = [k \in Cells(n) |-> n.body[k]]
  BY <1>1, <1>5 DEF Array
<1>7. n.saved = [k \in Cells(n) |-> n.saved[k]]
  BY <1>1, <1>5 DEF Array
<1>8. Window(n)
  BY <1>1, <1>2, <1>3, <1>4, <1>6, <1>7 DEF Window
<1> QED BY <1>2, <1>8 DEF n

(* One assignment of several fields replaces the window.                   *)
SizeSet(h, w, a, b, bd, sv, o) ==
  [h EXCEPT !.win[w].wwidth = a, !.win[w].wheight = b,
            !.win[w].body = bd, !.win[w].saved = sv, !.win[w].owed = o]

(* It gives the window with its five new fields.                           *)
LEMMA SizeIs ==
  ASSUME NEW h, Parts(h), NEW w \in Windows, Record(h.win[w]),
         NEW a, NEW b, NEW bd, NEW sv, NEW o
  PROVE  SizeSet(h, w, a, b, bd, sv, o) = SetWin(h, w, Resized(h.win[w], a, b, bd, sv, o))
<1> DEFINE v == h.win[w]
           n1 == [v EXCEPT !.wwidth = a]
           n2 == [n1 EXCEPT !.wheight = b]
           n3 == [n2 EXCEPT !.body = bd]
           n4 == [n3 EXCEPT !.saved = sv]
           n == [n4 EXCEPT !.owed = o]
           q1 == SetWin(h, w, n1)
           q2 == SetWin(q1, w, n2)
           q3 == SetWin(q2, w, n3)
           q4 == SetWin(q3, w, n4)
           r == [h EXCEPT !.win[w].wwidth = a, !.win[w].wheight = b,
                          !.win[w].body = bd, !.win[w].saved = sv, !.win[w].owed = o]
<1>2. r = [[[[[h EXCEPT !.win[w].wwidth = a] EXCEPT !.win[w].wheight = b]
               EXCEPT !.win[w].body = bd] EXCEPT !.win[w].saved = sv]
               EXCEPT !.win[w].owed = o]
  BY DEF Parts
<1>3. [h EXCEPT !.win[w].wwidth = a] = q1
  BY DEF Parts, SetWin
<1>4. n = Resized(v, a, b, bd, sv, o)
  <2>1. Record(v)
    OBVIOUS
  <2>2. n = OneByOne(v, a, b, bd, sv, o)
    BY DEF OneByOne
  <2> HIDE DEF v, n
  <2> QED BY <2>1, <2>2, ResizedIs
<1> HIDE DEF r, v, n1
<1>6. Parts(q1) /\ q1.win[w] = n1 /\ \A m : SetWin(q1, w, m) = SetWin(h, w, m)
  BY SetWinIs
<1> HIDE DEF q1
<1>7. [q1 EXCEPT !.win[w].wheight = b] = q2
  BY <1>6 DEF Parts, SetWin
<1> HIDE DEF n2
<1>8. Parts(q2) /\ q2.win[w] = n2 /\ \A m : SetWin(q2, w, m) = SetWin(q1, w, m)
  BY <1>6, SetWinIs
<1> HIDE DEF q2
<1>9. [q2 EXCEPT !.win[w].body = bd] = q3
  BY <1>8 DEF Parts, SetWin
<1> HIDE DEF n3
<1>10. Parts(q3) /\ q3.win[w] = n3 /\ \A m : SetWin(q3, w, m) = SetWin(q2, w, m)
  BY <1>8, SetWinIs
<1> HIDE DEF q3
<1>11. [q3 EXCEPT !.win[w].saved = sv] = q4
  BY <1>10 DEF Parts, SetWin
<1> HIDE DEF n4
<1>12. Parts(q4) /\ q4.win[w] = n4 /\ \A m : SetWin(q4, w, m) = SetWin(q3, w, m)
  BY <1>10, SetWinIs
<1> HIDE DEF q4
<1>13. [q4 EXCEPT !.win[w].owed = o] = SetWin(q4, w, n)
  BY <1>12 DEF Parts, SetWin
<1> HIDE DEF n
<1>14. SetWin(q4, w, n) = SetWin(h, w, n)
  BY <1>6, <1>8, <1>10, <1>12
<1>15. r = [q4 EXCEPT !.win[w].owed = o]
  BY <1>2, <1>3, <1>7, <1>9, <1>11
<1> QED BY <1>4, <1>13, <1>14, <1>15 DEF r, v, SizeSet

(* A hidden window that got another size.                                  *)
Sized(h, r, w) == Sound(r, w) /\ Listed(r, w) /\ r.head = h.head

(* Resizing a hidden window changes no chain.                              *)
LEMMA SizeKeeps ==
  ASSUME NEW h, NEW w, Sound(h, w), Listed(h, w), h.win[w].visible = FALSE,
         NEW a \in Nat \ {0}, NEW b \in Nat \ {0},
         NEW bd, Array(bd, a * b), NEW sv, Array(sv, a * b), NEW o
  PROVE  Sized(h, [h EXCEPT !.win[w].wwidth = a, !.win[w].wheight = b,
                            !.win[w].body = bd, !.win[w].saved = sv, !.win[w].owed = o], w)
<1> DEFINE n == Resized(h.win[w], a, b, bd, sv, o)
           r == [h EXCEPT !.win[w].wwidth = a, !.win[w].wheight = b,
                          !.win[w].body = bd, !.win[w].saved = sv, !.win[w].owed = o]
<1>1. Parts(h) /\ List(h.head) /\ w \in Windows /\ Window(h.win[w])
  BY IndexOf DEF Sound, State
<1>2. r = SetWin(h, w, n)
  <2>1. Record(h.win[w])
    BY <1>1 DEF Window
  <2>2. SizeSet(h, w, a, b, bd, sv, o) = SetWin(h, w, Resized(h.win[w], a, b, bd, sv, o))
    BY <1>1, <2>1, SizeIs
  <2> QED BY <2>2 DEF SizeSet
<1>3. Window(n) /\ n.visible = FALSE
  BY <1>1, ResizedWindow
<1> HIDE DEF r, n
<1>4. Sound(r, w) /\ Listed(r, w)
  BY <1>2, <1>3, ReplaceKeeps
<1>5. r.head = h.head
  BY <1>1, <1>2, SetWinIs
<1> QED BY <1>4, <1>5 DEF r, Sized

(* A window has a width and a height.                                      *)
LEMMA ShapesAre ==
  ASSUME NEW w \in Windows, NEW shape \in Shapes[w]
  PROVE  shape[1] \in Nat \ {0} /\ shape[2] \in Nat \ {0}
<1>1. shape \in (1 .. Width) \X (1 .. Height)
  BY TwinAssumption
<1>2. shape[1] \in 1 .. Width /\ shape[2] \in 1 .. Height /\ Width \in Nat /\ Height \in Nat
  BY <1>1, TwinAssumption
<1> QED BY <1>2

(* Whatever the loops leave out, the body has a symbol in every cell.      *)
LEMMA BodyIsArray ==
  ASSUME NEW w, NEW v, NEW a, NEW b
  PROVE  Array(ResizedBody(w, v, a, b), a * b)
<1> DEFINE ground == IF w \in Framed THEN 1 ELSE 0
           kept == Min({v.wheight, b})
           ncopy == Min({a, v.wwidth})
           To(i) == ground + (i - ground) * a
           Run(k, from, n) == k >= from /\ k < from + n
           Copied(i, k) == i < kept /\ Run(k, To(i), ncopy)
           Filled(i, k) ==
             \/ i >= kept /\ Run(k, To(i), a)
             \/ i < kept /\ v.wwidth < a
                  /\ Run(k, To(i) + ncopy - Delta(w), FillSize(a, v.wwidth))
           turns(k) == {i \in ground .. b - 1 : Copied(i, k) \/ Filled(i, k)}
           last(k) == Max(turns(k))
           Cell(k) ==
             CASE turns(k) = {} -> Junk
               [] turns(k) # {} /\ Filled(last(k), k) -> Filler
               [] OTHER -> v.body[ground + (last(k) - ground) * v.wwidth + k - To(last(k))]
<1>1. ResizedBody(w, v, a, b) = [k \in 0 .. a * b - 1 |-> Cell(k)]
  BY Zenon DEF ResizedBody
<1> HIDE DEF Cell
<1> QED BY <1>1 DEF Array

(* twResizeWin.                                                            *)
LEMMA ResizeWinKeeps ==
  ASSUME Sound(t, None), NEW w \in Windows, NEW shape \in Shapes[w], twResizeWin(w, shape)
  PROVE  Sound(t', None)
<1> DEFINE v == t.win[w]
           h == IF t.win[w].visible THEN Hide(t, w) ELSE t
           a == shape[1]
           b == shape[2]
           bd == ResizedBody(w, v, a, b)
           sv == [k \in 0 .. a * b - 1 |-> Junk]
           sized == [h EXCEPT !.win[w].wwidth = a, !.win[w].wheight = b,
                              !.win[w].body = bd, !.win[w].saved = sv, !.win[w].owed = {}]
           drawn == paint_internal(sized, w)
           prev == prevwin(t, w)
<1>1. /\ Listed(t, w)
      /\ t' = IF v.visible THEN ShowBeneath(drawn, w, prev) ELSE drawn
  BY DEF twResizeWin
<1>2. Sound(t, w) /\ List(t.head)
  BY SoundBegins DEF Sound, State
<1>3. /\ Sound(h, w) /\ h.head = t.head /\ Listed(h, w) /\ h.win[w].visible = FALSE
  BY <1>1, <1>2, HiddenFirst
<1>4. a \in Nat \ {0} /\ b \in Nat \ {0}
  BY ShapesAre
<1> HIDE DEF a, b
<1>5. Array(bd, a * b) /\ Array(sv, a * b)
  <2>1. Array(sv, a * b)
    BY DEF Array
  <2>2. Array(bd, a * b)
    BY BodyIsArray
  <2> QED BY <2>1, <2>2
<1> HIDE DEF bd, sv, v, h, prev
<1>6. Sound(sized, w) /\ Listed(sized, w) /\ sized.head = h.head
  <2> DEFINE o == {}
  <2> HIDE DEF o
  <2>1. Sized(h, [h EXCEPT !.win[w].wwidth = a, !.win[w].wheight = b,
                           !.win[w].body = bd, !.win[w].saved = sv, !.win[w].owed = o], w)
    BY <1>3, <1>4, <1>5, SizeKeeps
  <2> QED BY <2>1 DEF o, Sized
<1> HIDE DEF sized
<1>7. /\ Sound(drawn, w) /\ drawn.head = sized.head
      /\ w \in Framed => FrameWhole(drawn.win[w])
  BY <1>6, PaintKeeps
<1> HIDE DEF drawn
<1>8. Listed(drawn, w)
  BY <1>6, <1>7 DEF Listed
<1>9. prev = None \/ (Listed(drawn, prev) /\ prev # w)
  <2>1. prev = None \/ (Listed(t, prev) /\ prev # w)
    BY <1>1, <1>2, PrevIs DEF prev
  <2> QED BY <1>3, <1>6, <1>7, <2>1 DEF Listed
<1>10. Sound(drawn, None)
  BY <1>7, SoundEnds
<1>11. Sound(ShowBeneath(drawn, w, prev), None)
  <2>1. Keeps(drawn, ShowBeneath(drawn, w, prev), w)
    BY <1>7, <1>8, <1>9, ShowBeneathKeeps
  <2> QED BY <1>7, <1>8, <2>1, KeepsSound
<1> QED BY <1>1, <1>10, <1>11

(* twCreateWin.                                                            *)
LEMMA CreateWinKeeps ==
  ASSUME Sound(t, None), NEW w \in Windows, NEW place \in Places[w],
         NEW shape \in Shapes[w], NEW visible \in BOOLEAN,
         twCreateWin(w, place, shape, visible)
  PROVE  Sound(t', None)
<1> DEFINE a == shape[1]
           b == shape[2]
           n == [X1 |-> place[1], Y1 |-> place[2], wwidth |-> a, wheight |-> b,
                 visible |-> FALSE, enabled |-> TRUE,
                 body |-> [k \in 0 .. a * b - 1 |-> Filler],
                 saved |-> [k \in 0 .. a * b - 1 |-> Junk], owed |-> {}]
           made == SetWin(t, w, n)
           r == AtHead(made, w)
           drawn == paint_internal(r, w)
<1>1. /\ ~Listed(t, w)
      /\ t' = IF visible THEN Show(drawn, w) ELSE drawn
  BY DEF twCreateWin, SetWin
<1>2. Sound(t, w) /\ Parts(t) /\ List(t.head)
  BY SoundBegins DEF Sound, State
<1>3. a \in Nat \ {0} /\ b \in Nat \ {0}
  BY ShapesAre
<1>4. place[1] \in Int /\ place[2] \in Int
  <2>1. place \in (0 .. Width - 1) \X (0 .. Height - 1)
    BY TwinAssumption
  <2> QED BY <2>1, TwinAssumption
<1> HIDE DEF a, b
<1>5. Window(n) /\ n.visible = FALSE
  <2>1. Cells(n) = 0 .. a * b - 1
    BY DEF Cells
  <2>2. Record(n)
    BY DEF Record
  <2>3. n.body = [k \in Cells(n) |-> n.body[k]] /\ n.saved = [k \in Cells(n) |-> n.saved[k]]
    BY <2>1
  <2>4. n.X1 \in Int /\ n.Y1 \in Int /\ n.wwidth \in Nat \ {0} /\ n.wheight \in Nat \ {0}
    BY <1>3, <1>4
  <2>5. n.visible = FALSE /\ n.enabled = TRUE
    OBVIOUS
  <2> HIDE DEF n
  <2> QED BY <2>2, <2>3, <2>4, <2>5 DEF Window
<1> HIDE DEF n
<1>6. /\ Parts(made) /\ made.head = t.head /\ made.screen = t.screen /\ made.win[w] = n
      /\ \A u \in Windows \ {w} : made.win[u] = t.win[u]
  BY <1>2, SetWinIs
<1> HIDE DEF made
<1>7. ~Listed(made, w) /\ List(made.head) /\ SameOrder(t, made, w)
  BY <1>1, <1>2, <1>6, SameHead
<1>8. /\ Parts(r) /\ SameOrder(made, r, w) /\ Listed(r, w)
      /\ r.win = made.win /\ r.screen = made.screen
  BY <1>6, <1>7, AtHeadKeepsOrder
<1> HIDE DEF r
<1>9. Sound(r, w)
  <2>1. SameOrder(t, r, w)
    BY <1>7, <1>8, OrderTwice
  <2>2. Aside(t, r, w)
    BY <1>6, <1>8, <2>1 DEF Aside
  <2>3. Uncovered(t, w) /\ Uncovered(r, w) /\ Window(r.win[w])
    BY <1>1, <1>5, <1>6, <1>8 DEF Uncovered
  <2> QED BY <1>2, <1>8, <2>2, <2>3, AsideKeeps
<1>10. /\ Sound(drawn, w) /\ drawn.head = r.head
       /\ w \in Framed => FrameWhole(drawn.win[w])
  BY <1>8, <1>9, PaintKeeps
<1> HIDE DEF drawn
<1>11. Listed(drawn, w)
  BY <1>8, <1>10 DEF Listed
<1>12. Sound(drawn, None)
  BY <1>10, SoundEnds
<1>13. Sound(Show(drawn, w), None)
  <2>1. Keeps(drawn, Show(drawn, w), w)
    BY <1>10, <1>11, ShowKeeps
  <2> QED BY <1>10, <1>11, <2>1, KeepsSound
<1> QED BY <1>1, <1>12, <1>13

(* twDestroyWin.                                                           *)
LEMMA DestroyWinKeeps ==
  ASSUME Sound(t, None), NEW w \in Windows, twDestroyWin(w)
  PROVE  Sound(t', None)
<1> DEFINE h == Hide(t, w)
           q == unlistwin(h, w)
           r == SetWin(q, w, NoWindow)
<1>1. Listed(t, w) /\ t' = r
  BY DEF twDestroyWin, SetWin
<1>2. Sound(t, w)
  BY SoundBegins
<1>3. /\ Sound(h, w) /\ h.head = t.head /\ h.win[w].visible = FALSE
  BY <1>1, <1>2, HideKeeps
<1> HIDE DEF h
<1>4. Listed(h, w) /\ Parts(h) /\ List(h.head)
  BY <1>1, <1>3 DEF Listed, Sound, State
<1>5. /\ Parts(q) /\ SameOrder(h, q, w) /\ ~Listed(q, w)
      /\ q.win = h.win /\ q.screen = h.screen
  BY <1>4, UnlistKeepsOrder
<1> HIDE DEF q
<1>6. /\ Parts(r) /\ r.head = q.head /\ r.screen = q.screen
      /\ \A u \in Windows \ {w} : r.win[u] = q.win[u]
  BY <1>5, SetWinIs
<1> HIDE DEF r
<1>7. ~Listed(r, w) /\ SameOrder(h, r, w)
  <2>1. List(q.head)
    BY <1>5 DEF SameOrder
  <2>2. SameOrder(q, r, w) /\ ~Listed(r, w)
    BY <1>5, <1>6, <2>1, SameHead
  <2> QED BY <1>5, <2>2, OrderTwice
<1>8. Aside(h, r, w) /\ Uncovered(h, w) /\ Uncovered(r, w)
  BY <1>3, <1>5, <1>6, <1>7 DEF Aside, Uncovered
<1>9. Sound(r, w)
  BY <1>3, <1>6, <1>7, <1>8, AsideKeeps
<1> QED BY <1>1, <1>7, <1>9, SoundEnds

(* A window is redrawn, frozen and thawed.                                 *)
LEMMA SetFrameKeeps ==
  ASSUME Sound(t, None), NEW w \in Windows, twSetFrame(w)
  PROVE  Sound(t', None)
<1> DEFINE r == paint_internal(t, w)
<1>1. Listed(t, w) /\ w \in Framed /\ t' = r
  BY DEF twSetFrame
<1>2. Sound(t, w)
  BY SoundBegins
<1> HIDE DEF r
<1>3. Sound(r, w) /\ (w \in Framed => FrameWhole(r.win[w]))
  BY <1>1, <1>2, PaintKeeps DEF r
<1> QED BY <1>1, <1>3, SoundEnds

(* The switch between the two changes nothing that is shown.               *)
LEMMA EnabledKeeps ==
  ASSUME Sound(t, None), NEW w, Listed(t, w), NEW b \in BOOLEAN
  PROVE  Keeps(t, [t EXCEPT !.win[w].enabled = b], w)
<1> DEFINE q == [t EXCEPT !.win[w].enabled = b]
<1>1. Sound(t, w)
  BY SoundBegins
<1> HIDE DEF q
<1>2. Sound(q, w) /\ q.head = t.head /\ SameFace(q.win[w], t.win[w])
  BY <1>1, EnableKeeps DEF q
<1> QED BY <1>2 DEF Keeps, Listed, q

(* twFreezeWin.                                                            *)
LEMMA FreezeWinKeeps ==
  ASSUME Sound(t, None), NEW w \in Windows, twFreezeWin(w)
  PROVE  Sound(t', None)
<1>1. Listed(t, w) /\ Keeps(t, t', w)
  BY EnabledKeeps DEF twFreezeWin
<1>2. w \in Framed => FrameWhole(t.win[w])
  BY <1>1, SoundBegins
<1> QED BY <1>1, <1>2, KeepsSound

(* twRefreshLine, twRefreshWin and twRefreshFullWin.                       *)
LEMMA RefreshKeeps ==
  ASSUME Sound(t, None), NEW w \in Windows, Refresh(w)
  PROVE  Sound(t', None)
<1> DEFINE q == Thawed(w)
<1>1. Listed(t, w) /\ \E cells : t' = updatescreenpiece(q, w, cells)
  BY DEF Refresh, twRefreshLine, twRefreshPiece, twRefreshWin, twRefreshFullWin, updatescreen
<1>2. Keeps(t, q, w)
  BY <1>1, EnabledKeeps DEF Thawed
<1> HIDE DEF q
<1>3. PICK cells : Sends(q, t', w, cells)
  BY <1>1 DEF updatescreenpiece, Sends
<1>4. Sound(t', w) /\ t'.head = q.head /\ SameText(t'.win[w], q.win[w])
  <2> DEFINE none == {}
  <2>1. State(q) /\ Listed(q, w) /\ Frames(q, w) /\ Chain(q, w, none)
    BY <1>2, NoException DEF Keeps, Sound
  <2>2. none \subseteq cells
    OBVIOUS
  <2> HIDE DEF none
  <2> QED BY <1>3, <2>1, <2>2, SendAll
<1>5. Keeps(q, t', w)
  BY <1>2, <1>4, SameTextIsFace DEF Keeps, Listed
<1>6. Keeps(t, t', w)
  BY <1>2, <1>5, KeepsTwice
<1>7. w \in Framed => FrameWhole(t.win[w])
  BY <1>1, SoundBegins
<1> QED BY <1>1, <1>6, <1>7, KeepsSound

-----------------------------------------------------------------------------
(* The calls that write text and send what they wrote.                     *)
LEMMA PutKeeps ==
  ASSUME Sound(t, None), NEW w, Listed(t, w), NEW cells,
         cells \subseteq Client(w, t.win[w]), NEW ch, NEW sent, cells \subseteq sent,
         NEW r, Sends(Put(t, w, cells, ch), r, w, sent)
  PROVE  Sound(r, None)
<1> DEFINE q == Put(t, w, cells, ch)
<1> HIDE DEF q
<1>1. Writes(t, q, w, cells)
  BY PutWrites DEF Sound, q
<1>2. Sends(q, r, w, sent)
  BY DEF q
<1> QED BY <1>1, <1>2, TextKeeps

(* twPutChar.                                                              *)
LEMMA PutCharKeeps ==
  ASSUME Sound(t, None), NEW w \in Windows, NEW k, twPutChar(w, k)
  PROVE  Sound(t', None)
<1> DEFINE cells == {k}
           q == Put(t, w, cells, w)
<1>1. Listed(t, w) /\ k \in Client(w, t.win[w]) /\ t' = updatescreenchar(q, w, cells)
  BY DEF twPutChar
<1>2. Sends(q, t', w, cells)
  BY <1>1 DEF updatescreenchar, Sends
<1>3. cells \subseteq Client(w, t.win[w]) /\ cells \subseteq cells
  BY <1>1
<1> HIDE DEF cells
<1> QED BY <1>1, <1>2, <1>3, PutKeeps

(* twDirectWrite.                                                          *)
LEMMA DirectWriteKeeps ==
  ASSUME Sound(t, None), NEW w \in Windows, NEW k, NEW len, twDirectWrite(w, k, len)
  PROVE  Sound(t', None)
<1> DEFINE cells == {j \in InLine(w, t.win[w], k) : j < k + len}
           q == Put(t, w, cells, w)
<1>1. Listed(t, w) /\ t' = updatescreenpiece(q, w, cells)
  BY DEF twDirectWrite
<1>2. Sends(q, t', w, cells)
  BY <1>1 DEF updatescreenpiece, Sends
<1>3. cells \subseteq Client(w, t.win[w]) /\ cells \subseteq cells
  BY DEF InLine
<1> HIDE DEF cells
<1> QED BY <1>1, <1>2, <1>3, PutKeeps

(* twClrEOL.                                                               *)
LEMMA ClrEOLKeeps ==
  ASSUME Sound(t, None), NEW w \in Windows, NEW k, twClrEOL(w, k)
  PROVE  Sound(t', None)
<1> DEFINE v == t.win[w]
           cells == InLine(w, v, k)
           sent == Row(v, k \div v.wwidth) \ (0 .. k - 1)
           q == Put(t, w, cells, Filler)
<1>1. Listed(t, w) /\ k \in Client(w, v) /\ t' = updatescreenpiece(q, w, sent)
  BY DEF twClrEOL
<1>2. Sends(q, t', w, sent)
  BY <1>1 DEF updatescreenpiece, Sends
<1>3. cells \subseteq Client(w, v) /\ cells \subseteq sent
  <2>1. Client(w, v) \subseteq Cells(v)
    BY DEF Client
  <2>2. \A j \in Cells(v) : j \in Int
    BY DEF Cells
  <2>3. k \in Int
    BY <1>1, <2>1, <2>2
  <2>4. \A j \in cells : j \in Client(w, v) /\ (j \div v.wwidth) = (k \div v.wwidth) /\ j >= k
    BY DEF InLine
  <2>5. \A j \in cells : j \notin 0 .. k - 1
    BY <2>1, <2>2, <2>3, <2>4
  <2> HIDE DEF cells, v
  <2> QED BY <2>1, <2>4, <2>5 DEF Row
<1> HIDE DEF cells, sent
<1> QED BY <1>1, <1>2, <1>3, PutKeeps

(* twClearWin.                                                             *)
LEMMA ClearWinKeeps ==
  ASSUME Sound(t, None), NEW w \in Windows, twClearWin(w)
  PROVE  Sound(t', None)
<1> DEFINE v == t.win[w]
           inner == Client(w, v)
           sent == {k \in Cells(v) : \E j \in inner : (j \div v.wwidth) = (k \div v.wwidth)}
           q == Put(t, w, inner, Filler)
<1>1. Listed(t, w) /\ t' = updatescreenpiece(q, w, sent)
  BY DEF twClearWin
<1>2. Sends(q, t', w, sent)
  BY <1>1 DEF updatescreenpiece, Sends
<1>3. inner \subseteq Client(w, t.win[w]) /\ inner \subseteq sent
  BY DEF Client
<1> HIDE DEF inner, sent
<1> QED BY <1>1, <1>2, <1>3, PutKeeps

(* The rows that get the text of their neighbours are sent.                *)
LEMMA ScrolledKeeps ==
  ASSUME Sound(t, None), NEW w \in Windows, Listed(t, w), w \notin Framed,
         NEW rows, NEW from
  PROVE  Sound(Scrolled(w, rows, from), None)
<1> DEFINE v == t.win[w]
           cells == {k \in Cells(v) : (k \div v.wwidth) \in rows}
           bd == [k \in DOMAIN v.body |->
                    IF (k \div v.wwidth) \in rows THEN v.body[k + from * v.wwidth]
                    ELSE v.body[k]]
           q == [t EXCEPT !.win[w].body = bd]
           r == Scrolled(w, rows, from)
<1>1. r = updatescreenpiece(q, w, cells)
  BY DEF Scrolled
<1>2. Sends(q, r, w, cells)
  BY <1>1 DEF updatescreenpiece, Sends
<1>3. DOMAIN v.body = Cells(v)
  <2>1. Window(v)
    BY DEF Sound, State
  <2> QED BY <2>1 DEF Window
<1>4. cells \subseteq Client(w, t.win[w]) /\ cells \subseteq cells
  BY DEF Client
<1>5. /\ bd = [k \in Cells(v) |-> bd[k]]
      /\ \A k \in Cells(v) : k \notin cells => bd[k] = v.body[k]
  <2> HIDE DEF v
  <2> QED BY <1>3
<1> HIDE DEF bd, cells, r
<1>6. Writes(t, q, w, cells)
  BY <1>5 DEF Writes
<1> HIDE DEF q
<1> QED BY <1>2, <1>4, <1>6, TextKeeps DEF r

(* twScrollWinUp and twScrollWinDn.                                        *)
LEMMA ScrollWinKeeps ==
  ASSUME Sound(t, None), NEW w \in Windows, NEW ypos,
         twScrollWinUp(w, ypos) \/ twScrollWinDn(w, ypos)
  PROVE  Sound(t', None)
<1>1. Listed(t, w) /\ w \notin Framed /\ \E rows, from : t' = Scrolled(w, rows, from)
  BY Zenon DEF twScrollWinUp, twScrollWinDn
<1> QED BY <1>1, ScrolledKeeps

-----------------------------------------------------------------------------
(* A string.  A function on 0 .. n defined from its last value exists, and *)
(* what holds at 0 and is handed on from each index to the next holds at   *)
(* the end.                                                                *)
Turns(g, w, v, str, first, m) ==
  g = [i \in 0 .. m |-> IF i = 0 THEN first ELSE PutChars(w, v, g[i - 1], str[i])]

(* The turns of the loop over a string, as many as it has characters.      *)
LEMMA TurnsExist ==
  ASSUME NEW w, NEW v, NEW str, NEW first, NEW n \in Nat
  PROVE  \E g : Turns(g, w, v, str, first, n)
<1> DEFINE Bad == {m \in Nat : \A g : ~Turns(g, w, v, str, first, m)}
<1>1. Bad = {}
  <2> SUFFICES ASSUME Bad # {} PROVE FALSE
    OBVIOUS
  <2>1. PICK m \in Bad : \A y \in Bad : ~(<<y, m>> \in OpToRel(<, Nat))
    <3>1. Bad \subseteq Nat
      OBVIOUS
    <3> HIDE DEF Bad
    <3> QED BY <3>1, NatLessThanWellFounded, WFMin
  <2> HIDE DEF Bad
  <2>2. m # 0
    <3> DEFINE g == [i \in 0 .. 0 |-> first]
    <3>1. Turns(g, w, v, str, first, 0)
      BY DEF Turns
    <3> QED BY <2>1, <3>1 DEF Bad
  <2>3. m \in Nat /\ m - 1 \in Nat
    <3>1. m \in Nat
      BY DEF Bad
    <3> QED BY <2>2, <3>1
  <2>4. PICK g : Turns(g, w, v, str, first, m - 1)
    <3>1. <<m - 1, m>> \in OpToRel(<, Nat)
      BY <2>3 DEF OpToRel
    <3> QED BY <2>1, <2>3, <3>1 DEF Bad
  <2> DEFINE h == [i \in 0 .. m |-> IF i = m THEN PutChars(w, v, g[m - 1], str[m]) ELSE g[i]]
             R == [i \in 0 .. m |-> IF i = 0 THEN first ELSE PutChars(w, v, h[i - 1], str[i])]
  <2>5. ASSUME NEW i \in 0 .. m PROVE h[i] = R[i]
    <3>1. \A j \in 0 .. m - 1 :
            g[j] = IF j = 0 THEN first ELSE PutChars(w, v, g[j - 1], str[j])
      BY <2>4 DEF Turns
    <3>2. h[i] = IF i = m THEN PutChars(w, v, g[m - 1], str[m]) ELSE g[i]
      OBVIOUS
    <3>3. ASSUME i # 0 PROVE h[i - 1] = g[i - 1]
      <4>1. m \in Nat /\ i - 1 \in 0 .. m /\ i - 1 # m
        BY <2>3, <3>3
      <4> DEFINE j == i - 1
      <4> HIDE DEF j
      <4>2. h[j] = IF j = m THEN PutChars(w, v, g[m - 1], str[m]) ELSE g[j]
        BY <4>1 DEF j
      <4> QED BY <4>1, <4>2 DEF j
    <3>4. R[i] = IF i = 0 THEN first ELSE PutChars(w, v, h[i - 1], str[i])
      OBVIOUS
    <3> HIDE DEF h, R
    <3>5. CASE i = m
      BY <2>2, <3>2, <3>3, <3>4, <3>5
    <3>6. CASE i # m
      <4>1. i \in 0 .. m - 1
        <5>1. m \in Int /\ i \in Int /\ 0 <= i /\ i <= m
          BY <2>3
        <5> QED BY <3>6, <5>1
      <4> QED BY <3>1, <3>2, <3>3, <3>4, <3>6, <4>1
    <3> QED BY <3>5, <3>6
  <2>6. h = [i \in 0 .. m |-> h[i]] /\ R = [i \in 0 .. m |-> R[i]]
    OBVIOUS
  <2>7. h = R
    <3> HIDE DEF h, R
    <3> QED BY <2>5, <2>6
  <2>8. Turns(h, w, v, str, first, m)
    <3> HIDE DEF h
    <3> QED BY <2>7 DEF Turns
  <2> QED BY <2>1, <2>8 DEF Bad
<1> QED BY <1>1

(* What holds while twPutS goes over the string: the line it is in, from   *)
(* where it was last sent to the cursor, is written and not sent.          *)
Putting(w, v, c) ==
  /\ c = [s |-> c.s, x |-> c.x, y |-> c.y, usx |-> c.usx]
  /\ c.x \in Int /\ c.y \in Int /\ c.usx \in Int /\ c.usx <= c.x
  /\ State(c.s) /\ Listed(c.s, w) /\ Chain(c.s, w, Line(v, c)) /\ Frames(c.s, w)
  /\ Alike(c.s.win[w], v)
  /\ w \in Framed => FrameWhole(c.s.win[w])

(* A new line moves the cursor and nothing else.                           *)
LEMMA NewLineIs ==
  ASSUME NEW w, NEW v, v.wheight \in Int, NEW c,
         c = [s |-> c.s, x |-> c.x, y |-> c.y, usx |-> c.usx], c.y \in Int
  PROVE  LET n == NewLine(w, v, c)
         IN  /\ n = [s |-> n.s, x |-> n.x, y |-> n.y, usx |-> n.usx]
             /\ n.x \in Int /\ n.y \in Int
<1>1. CASE w \notin Framed
  <2> DEFINE n == [c EXCEPT !.x = 0]
  <2>1. n = [s |-> c.s, x |-> 0, y |-> c.y, usx |-> c.usx]
    OBVIOUS
  <2>2. NewLine(w, v, c) = n
    BY <1>1 DEF NewLine
  <2> HIDE DEF n
  <2> QED BY <2>1, <2>2
<1>2. CASE w \in Framed
  <2> DEFINE low == IF c.y + 1 > v.wheight - 1 THEN v.wheight - 2 ELSE c.y + 1
             n == [c EXCEPT !.x = 1, !.y = low]
  <2>1. NewLine(w, v, c) = n
    BY <1>2 DEF NewLine
  <2>2. low \in Int
    OBVIOUS
  <2> HIDE DEF low
  <2>3. n = [s |-> c.s, x |-> 1, y |-> low, usx |-> c.usx]
    <3> DEFINE n1 == [c EXCEPT !.x = 1]
    <3>1. n1 = [s |-> c.s, x |-> 1, y |-> c.y, usx |-> c.usx]
      OBVIOUS
    <3>2. n = [n1 EXCEPT !.y = low]
      OBVIOUS
    <3> HIDE DEF n1
    <3> QED BY <3>1, <3>2
  <2> HIDE DEF n
  <2> QED BY <2>1, <2>2, <2>3
<1> QED BY <1>1, <1>2

(* A new line: what was written of this one is sent.                       *)
LEMMA NewLineKeeps ==
  ASSUME NEW w, NEW v, v.wheight \in Int, v.wwidth \in Int, NEW c, Putting(w, v, c)
  PROVE  Putting(w, v, PutChars(w, v, c, TRUE))
<1> DEFINE n == NewLine(w, v, c)
           line == Line(v, c)
           q == updatescreenpiece(c.s, w, line)
           r == [n EXCEPT !.s = q, !.usx = n.x]
<1>1. /\ n = [s |-> n.s, x |-> n.x, y |-> n.y, usx |-> n.usx]
      /\ n.x \in Int /\ n.y \in Int
  BY NewLineIs DEF Putting
<1>2. PutChars(w, v, c, TRUE) = r
  BY DEF PutChars
<1>3. Sends(c.s, q, w, line)
  BY DEF updatescreenpiece, Sends
<1> HIDE DEF n, q, line
<1>4. r = [s |-> q, x |-> n.x, y |-> n.y, usx |-> n.x]
  <2> DEFINE r1 == [n EXCEPT !.s = q]
  <2>1. r1 = [s |-> q, x |-> n.x, y |-> n.y, usx |-> n.usx]
    BY <1>1
  <2>2. r = [r1 EXCEPT !.usx = n.x]
    BY <1>1
  <2> HIDE DEF r1
  <2> QED BY <2>1, <2>2
<1> HIDE DEF r
<1>5. Sound(q, w) /\ q.head = c.s.head /\ SameText(q.win[w], c.s.win[w])
  <2>1. /\ State(c.s) /\ Listed(c.s, w) /\ Chain(c.s, w, line) /\ Frames(c.s, w)
        /\ line \subseteq line
    BY DEF Putting, line
  <2> QED BY <1>3, <2>1, SendAll
<1>6. r.s = q /\ r.x = n.x /\ r.y = n.y /\ r.usx = n.x
  BY <1>4
<1>7. Line(v, r) = {}
  <2> SUFFICES ASSUME NEW k \in Cells(v), k >= r.usx + r.y * v.wwidth,
                      k < r.x + r.y * v.wwidth
               PROVE  FALSE
    BY DEF Line
  <2>1. k \in Int
    BY DEF Cells
  <2> DEFINE m == r.y * v.wwidth
  <2>2. m \in Int
    BY <1>1, <1>6
  <2> HIDE DEF m
  <2>3. k >= n.x + m /\ k < n.x + m
    BY <1>6 DEF m
  <2> QED BY <1>1, <2>1, <2>2, <2>3
<1>8. State(q) /\ Listed(q, w) /\ Chain(q, w, Line(v, r)) /\ Frames(q, w)
  BY <1>5, <1>7, NoException DEF Sound, Putting, Listed
<1>9. Alike(q.win[w], v)
  BY <1>5 DEF Putting, SameText, Alike
<1>10. w \in Framed => FrameWhole(q.win[w])
  BY <1>5, SameTextIsFace, FaceKeepsFrame DEF Putting
<1>11. r = [s |-> r.s, x |-> r.x, y |-> r.y, usx |-> r.usx]
  BY <1>4, <1>6
<1>12. r.x \in Int /\ r.y \in Int /\ r.usx \in Int /\ r.usx <= r.x
  BY <1>1, <1>6
<1> QED BY <1>2, <1>6, <1>8, <1>9, <1>10, <1>11, <1>12 DEF Putting

(* A character: the next cell of the line is written.                      *)
LEMMA CharKeeps ==
  ASSUME NEW w, NEW v, v.wheight \in Int, v.wwidth \in Int, NEW c, Putting(w, v, c)
  PROVE  Putting(w, v, PutChars(w, v, c, FALSE))
<1> DEFINE k == c.x + c.y * v.wwidth
           cell == {k}
           q == Put(c.s, w, cell, w)
           r == [c EXCEPT !.s = q, !.x = @ + 1]
<1>1. PutChars(w, v, c, FALSE) = IF c.x < v.wwidth /\ k \in Client(w, v) THEN r ELSE c
  BY DEF PutChars
<1>2. CASE ~(c.x < v.wwidth /\ k \in Client(w, v))
  BY <1>1, <1>2
<1>3. CASE c.x < v.wwidth /\ k \in Client(w, v)
  <2>1. c = [s |-> c.s, x |-> c.x, y |-> c.y, usx |-> c.usx]
    BY DEF Putting
  <2>2. c.x \in Int /\ c.y \in Int /\ c.usx \in Int /\ c.usx <= c.x
    BY DEF Putting
  <2>3. Writes(c.s, q, w, cell)
    BY PutWrites DEF Putting
  <2>4. k \in Client(w, v) /\ cell = {k}
    BY <1>3
  <2> HIDE DEF q, cell
  <2>5. r = [s |-> q, x |-> c.x + 1, y |-> c.y, usx |-> c.usx]
    <3> DEFINE r1 == [c EXCEPT !.s = q]
    <3>1. r1 = [s |-> q, x |-> c.x, y |-> c.y, usx |-> c.usx]
      BY <2>1
    <3>2. r = [r1 EXCEPT !.x = c.x + 1]
      BY <2>1
    <3> HIDE DEF r1
    <3> QED BY <3>1, <3>2
  <2> HIDE DEF r
  <2>6. r.s = q /\ r.x = c.x + 1 /\ r.y = c.y /\ r.usx = c.usx
    BY <2>5
  <2>7. r = [s |-> r.s, x |-> r.x, y |-> r.y, usx |-> r.usx]
    BY <2>5, <2>6
  <2>8. Line(v, r) = Line(v, c) \cup cell
    <3> DEFINE m == c.y * v.wwidth
    <3>1. m \in Int
      BY <2>2
    <3>2. k = c.x + m /\ r.y * v.wwidth = m
      BY <2>6
    <3>3. Line(v, c) = {j \in Cells(v) : j >= c.usx + m /\ j < c.x + m}
      BY DEF Line
    <3> HIDE DEF m
    <3>4. Line(v, r) = {j \in Cells(v) : j >= c.usx + m /\ j < c.x + 1 + m}
      BY <2>6, <3>2 DEF Line
    <3>5. k \in Cells(v)
      BY <2>4 DEF Client
    <3>6. \A j \in Cells(v) : j \in Int
      BY DEF Cells
    <3> HIDE DEF k
    <3>7. \A j \in Cells(v) : (j >= c.usx + m /\ j < c.x + 1 + m)
                             <=> (j >= c.usx + m /\ j < c.x + m) \/ j = k
      <4> SUFFICES ASSUME NEW j \in Int
                   PROVE  (j >= c.usx + m /\ j < c.x + 1 + m)
                            <=> (j >= c.usx + m /\ j < c.x + m) \/ j = k
        BY <3>6
      <4> DEFINE a == c.usx   b == c.x
      <4>1. a \in Int /\ b \in Int /\ a <= b /\ k = b + m
        BY <2>2, <3>2
      <4> HIDE DEF a, b
      <4>2. (j >= a + m /\ j < b + 1 + m) <=> (j >= a + m /\ j < b + m) \/ j = k
        BY <3>1, <4>1
      <4> QED BY <4>2 DEF a, b
    <3>8. \A j : j \in Line(v, r) <=> j \in Line(v, c) \/ j = k
      BY <3>3, <3>4, <3>5, <3>7
    <3> QED BY <2>4, <3>8
  <2>9. /\ State(q) /\ Chain(q, w, Line(v, c) \cup cell) /\ Frames(q, w)
        /\ Written(c.s, q, w, cell)
    <3> DEFINE D == Line(v, c)
    <3>1. State(c.s) /\ Listed(c.s, w) /\ Chain(c.s, w, D) /\ Frames(c.s, w)
      BY DEF Putting
    <3> HIDE DEF D
    <3>2. /\ State(q) /\ Chain(q, w, D \cup cell) /\ Frames(q, w)
          /\ Written(c.s, q, w, cell)
      BY <2>3, <3>1, WriteKeeps
    <3> QED BY <3>2 DEF D
  <2>10. Listed(q, w)
    BY <2>9 DEF Written, Putting, Listed
  <2>11. Alike(q.win[w], v) /\ Alike(c.s.win[w], v)
    BY <2>9 DEF Written, Putting, Alike
  <2>12. ASSUME w \in Framed
         PROVE  FrameWhole(q.win[w])
    <3>1. /\ Border(q.win[w]) = Border(v) /\ Border(c.s.win[w]) = Border(v)
          /\ Cells(c.s.win[w]) = Cells(v)
      BY <2>11 DEF Alike, Border, Cells
    <3>2. k \notin Border(v) /\ Border(v) \subseteq Cells(v)
      BY <2>4, <2>12 DEF Client, Border
    <3>3. \A j \in Border(v) : q.win[w].body[j] = c.s.win[w].body[j]
      <4> HIDE DEF k
      <4> QED BY <2>4, <2>9, <3>1, <3>2 DEF Written
    <3>4. FrameWhole(c.s.win[w])
      BY <2>12 DEF Putting
    <3> QED BY <3>1, <3>3, <3>4 DEF FrameWhole
  <2>13. r.x \in Int /\ r.y \in Int /\ r.usx \in Int /\ r.usx <= r.x
    BY <2>2, <2>6
  <2>14. Putting(w, v, r)
    BY <2>6, <2>7, <2>8, <2>9, <2>10, <2>11, <2>12, <2>13 DEF Putting
  <2> QED BY <1>1, <1>3, <2>14
<1> QED BY <1>2, <1>3

(* What holds at the start of a string holds at its end.                   *)
LEMMA TurnsKeep ==
  ASSUME NEW w, NEW v, v.wheight \in Int, v.wwidth \in Int,
         NEW str, NEW first, Putting(w, v, first), NEW n \in Nat,
         \A i \in 1 .. n : str[i] \in BOOLEAN,
         NEW g, Turns(g, w, v, str, first, n)
  PROVE  Putting(w, v, g[n])
<1> DEFINE Bad == {m \in 0 .. n : ~Putting(w, v, g[m])}
<1>1. Bad = {}
  <2> SUFFICES ASSUME Bad # {} PROVE FALSE
    OBVIOUS
  <2>1. PICK m \in Bad : \A y \in Bad : ~(<<y, m>> \in OpToRel(<, Nat))
    <3>1. Bad \subseteq Nat
      OBVIOUS
    <3> HIDE DEF Bad
    <3> QED BY <3>1, NatLessThanWellFounded, WFMin
  <2>2. m \in 0 .. n /\ ~Putting(w, v, g[m])
    OBVIOUS
  <2>3. m # 0
    <3>1. g[0] = first
      BY DEF Turns
    <3> QED BY <2>2, <3>1
  <2>4. m - 1 \in 0 .. n /\ <<m - 1, m>> \in OpToRel(<, Nat) /\ m \in 1 .. n
    BY <2>2, <2>3 DEF OpToRel
  <2>5. Putting(w, v, g[m - 1])
    BY <2>1, <2>4
  <2>6. g[m] = PutChars(w, v, g[m - 1], str[m])
    BY <2>2, <2>3 DEF Turns
  <2>7. CASE str[m] = TRUE
    BY <2>2, <2>5, <2>6, <2>7, NewLineKeeps
  <2>8. CASE str[m] = FALSE
    BY <2>2, <2>5, <2>6, <2>8, CharKeeps
  <2> QED BY <2>4, <2>7, <2>8
<1> QED BY <1>1

(* twPutS.                                                                 *)
LEMMA PutSKeeps ==
  ASSUME Sound(t, None), NEW w \in Windows, NEW k, NEW str \in Strings, twPutS(w, k, str)
  PROVE  Sound(t', None)
<1> DEFINE v == t.win[w]
           first == [s |-> t, x |-> k % v.wwidth, y |-> k \div v.wwidth,
                     usx |-> k % v.wwidth]
           n == Len(str)
           Is(g) == Turns(g, w, v, str, first, n)
           end == (CHOOSE g : Is(g))[n]
<1>1. Listed(t, w) /\ k \in Client(w, v) /\ t' = updatescreenpiece(end.s, w, Line(v, end))
  BY DEF twPutS, Turns
<1>2. str \in Seq(BOOLEAN)
  BY TwinAssumption
<1>3. n \in Nat /\ \A i \in 1 .. n : str[i] \in BOOLEAN
  BY <1>2
<1> HIDE DEF n
<1>4. Window(v) /\ State(t) /\ Sound(t, w) /\ (w \in Framed => FrameWhole(v))
  BY <1>1, SoundBegins DEF Sound, State
<1>5. v.wwidth \in Nat \ {0} /\ v.wheight \in Nat \ {0}
  <2> HIDE DEF v
  <2> QED BY <1>4 DEF Window
<1>6. k \in Int
  <2>1. k \in Cells(v)
    BY <1>1 DEF Client
  <2> HIDE DEF v
  <2> QED BY <2>1 DEF Cells
<1>7. Putting(w, v, first)
  <2> DEFINE x == k % v.wwidth   y == k \div v.wwidth
  <2>1. x \in Int /\ y \in Int
    <3> DEFINE W == v.wwidth
    <3>1. W \in Nat \ {0}
      BY <1>5
    <3> HIDE DEF W
    <3>2. k % W \in 0 .. W - 1 /\ k \div W \in Int
      BY <1>6, <3>1, DivMod
    <3> QED BY <3>1, <3>2 DEF W
  <2> HIDE DEF x, y
  <2>2. first = [s |-> t, x |-> x, y |-> y, usx |-> x]
    BY DEF x, y
  <2> HIDE DEF first
  <2>3. first.s = t /\ first.x = x /\ first.y = y /\ first.usx = x
    BY <2>2
  <2>4. first = [s |-> first.s, x |-> first.x, y |-> first.y, usx |-> first.usx]
    BY <2>2, <2>3
  <2>5. first.usx <= first.x
    BY <2>1, <2>3
  <2>6. Chain(t, w, Line(v, first)) /\ Frames(t, w)
    <3>1. Line(v, first) = {}
      <4> SUFFICES ASSUME NEW j \in Cells(v), j >= x + y * v.wwidth, j < x + y * v.wwidth
                   PROVE  FALSE
        BY <2>3 DEF Line
      <4> DEFINE m == x + y * v.wwidth
      <4>1. m \in Int
        BY <1>5, <2>1
      <4>2. j \in Int
        <5> HIDE DEF v
        <5> QED BY DEF Cells
      <4> HIDE DEF m
      <4>3. j >= m /\ j < m
        BY DEF m
      <4> QED BY <4>1, <4>2, <4>3
    <3> QED BY <1>4, <3>1, NoException DEF Sound
  <2>7. Alike(t.win[w], v)
    BY DEF Alike
  <2> QED BY <1>1, <1>4, <2>1, <2>3, <2>4, <2>5, <2>6, <2>7 DEF Putting
<1>8. Putting(w, v, end)
  <2> HIDE DEF first, v
  <2>1. \E g : Is(g)
    BY <1>3, TurnsExist
  <2> DEFINE f == CHOOSE g : Is(g)
  <2>2. Is(f)
    <3> HIDE DEF Is
    <3> QED BY <2>1
  <2> HIDE DEF f
  <2>3. v.wheight \in Int /\ v.wwidth \in Int
    BY <1>5
  <2>4. Putting(w, v, f[n])
    BY <1>3, <1>7, <2>2, <2>3, TurnsKeep
  <2> QED BY <2>4 DEF f
<1> DEFINE line == Line(v, end)
<1> HIDE DEF end, first, line
<1>9. Sends(end.s, t', w, line)
  BY <1>1 DEF updatescreenpiece, Sends, line
<1>10. Sound(t', w) /\ t'.head = end.s.head /\ SameText(t'.win[w], end.s.win[w])
  <2>1. /\ State(end.s) /\ Listed(end.s, w) /\ Chain(end.s, w, line) /\ Frames(end.s, w)
        /\ line \subseteq line
    BY <1>8 DEF Putting, line
  <2> QED BY <1>9, <2>1, SendAll
<1>11. w \in Framed => FrameWhole(t'.win[w])
  BY <1>8, <1>10, SameTextIsFace, FaceKeepsFrame DEF Putting
<1> QED BY <1>10, <1>11, SoundEnds

-----------------------------------------------------------------------------
(* The invariant holds of the empty screen, and every call keeps it.       *)
LEMMA InitSound ==
  ASSUME Init
  PROVE  Sound(t, None)
<1>1. /\ t.head = <<>> /\ t.win = [w \in Windows |-> NoWindow]
      /\ t.screen = [p \in Screen |-> Desktop]
      /\ t = [head |-> t.head, win |-> t.win, screen |-> t.screen]
  BY DEF Init
<1>2. List(t.head) /\ \A u : ~Listed(t, u)
  <2>1. <<>> \in Seq(Windows) /\ Len(<<>>) = 0 /\ DOMAIN <<>> = {}
    OBVIOUS
  <2> QED BY <1>1, <2>1 DEF List, Listed, Range
<1>3. t.win = [u \in Windows |-> t.win[u]]
  BY <1>1
<1>4. t.screen = [p \in Screen |-> t.screen[p]] /\ \A p \in Screen : t.screen[p] = Desktop
  BY <1>1
<1>5. Parts(t)
  BY <1>1, <1>3, <1>4 DEF Parts
<1>6. State(t) /\ Frames(t, None)
  BY <1>2, <1>5 DEF State, Frames
<1>7. ASSUME NEW p \in Screen, NEW u, Reaches(t, u, p)
      PROVE  Link(t, None, {}, u, p)
  <2>1. u = None
    BY <1>2, <1>7 DEF Reaches, Covering
  <2>2. \A x : ~Beneath(t, u, x, p)
    BY <1>2 DEF Beneath, Covering
  <2>3. Under(t, u, p) = Desktop
    BY <1>4, <2>1 DEF Under
  <2> QED BY <2>2, <2>3 DEF Link
<1>8. Chain(t, None, {})
  BY <1>7 DEF Chain
<1> QED BY <1>6, <1>8 DEF Sound

(* Every call that writes text.                                            *)
LEMMA WriteIsSound ==
  ASSUME Sound(t, None), NEW w \in Windows, Write(w)
  PROVE  Sound(t', None)
<1>1. CASE twClearWin(w)
  BY <1>1, ClearWinKeeps
<1>2. CASE \E k \in Client(w, t.win[w]) :
             \/ twPutChar(w, k)
             \/ twClrEOL(w, k)
             \/ \E len \in {2, t.win[w].wwidth} : twDirectWrite(w, k, len)
             \/ \E str \in Strings : twPutS(w, k, str)
  <2>1. PICK k \in Client(w, t.win[w]) :
             \/ twPutChar(w, k)
             \/ twClrEOL(w, k)
             \/ \E len \in {2, t.win[w].wwidth} : twDirectWrite(w, k, len)
             \/ \E str \in Strings : twPutS(w, k, str)
    BY <1>2
  <2>2. CASE twPutChar(w, k)
    BY <2>2, PutCharKeeps
  <2>3. CASE twClrEOL(w, k)
    BY <2>3, ClrEOLKeeps
  <2>4. CASE \E len \in {2, t.win[w].wwidth} : twDirectWrite(w, k, len)
    <3>1. PICK len \in {2, t.win[w].wwidth} : twDirectWrite(w, k, len)
      BY <2>4
    <3> QED BY <3>1, DirectWriteKeeps
  <2>5. CASE \E str \in Strings : twPutS(w, k, str)
    <3>1. PICK str \in Strings : twPutS(w, k, str)
      BY <2>5
    <3> QED BY <3>1, PutSKeeps
  <2> QED BY <2>1, <2>2, <2>3, <2>4, <2>5
<1>3. CASE \E ypos \in 1 .. t.win[w].wheight - 1 :
             twScrollWinUp(w, ypos) \/ twScrollWinDn(w, ypos)
  <2>1. PICK ypos \in 1 .. t.win[w].wheight - 1 :
             twScrollWinUp(w, ypos) \/ twScrollWinDn(w, ypos)
    BY <1>3
  <2> QED BY <2>1, ScrollWinKeeps
<1> QED BY <1>1, <1>2, <1>3, Zenon DEF Write

(* Every call.                                                             *)
LEMMA NextIsSound ==
  ASSUME Sound(t, None), Next
  PROVE  Sound(t', None)
<1>1. PICK w \in Windows :
        \/ \E place \in Places[w], shape \in Shapes[w], visible \in BOOLEAN :
             twCreateWin(w, place, shape, visible)
        \/ twDestroyWin(w)
        \/ twShowWin(w) \/ twShowWinOnTop(w) \/ twHideWin(w)
        \/ \E d \in Steps[w] : twMoveWin(w, d)
        \/ \E shape \in Shapes[w] : twResizeWin(w, shape)
        \/ twCentredWin(w) \/ twSetFrame(w) \/ twFreezeWin(w) \/ Refresh(w) \/ Write(w)
  BY Zenon DEF Next
<1>2. CASE \E place \in Places[w], shape \in Shapes[w], visible \in BOOLEAN :
             twCreateWin(w, place, shape, visible)
  <2>1. PICK place \in Places[w], shape \in Shapes[w], visible \in BOOLEAN :
          twCreateWin(w, place, shape, visible)
    BY <1>2
  <2> QED BY <2>1, CreateWinKeeps
<1>3. CASE twDestroyWin(w)
  BY <1>3, DestroyWinKeeps
<1>4. CASE twShowWin(w) \/ twShowWinOnTop(w) \/ twHideWin(w)
  BY <1>4, ShowWinKeeps
<1>5. CASE \E d \in Steps[w] : twMoveWin(w, d)
  <2>1. PICK d \in Steps[w] : twMoveWin(w, d)
    BY <1>5
  <2> QED BY <2>1, MoveWinKeeps
<1>6. CASE \E shape \in Shapes[w] : twResizeWin(w, shape)
  <2>1. PICK shape \in Shapes[w] : twResizeWin(w, shape)
    BY <1>6
  <2> QED BY <2>1, ResizeWinKeeps
<1>7. CASE twCentredWin(w)
  BY <1>7, CentredWinKeeps
<1>8. CASE twSetFrame(w)
  BY <1>8, SetFrameKeeps
<1>9. CASE twFreezeWin(w)
  BY <1>9, FreezeWinKeeps
<1>10. CASE Refresh(w)
  BY <1>10, RefreshKeeps
<1>11. CASE Write(w)
  BY <1>11, WriteIsSound
<1> QED BY <1>1, <1>2, <1>3, <1>4, <1>5, <1>6, <1>7, <1>8, <1>9, <1>10, <1>11, Zenon

(* Whatever calls were made: at every place each window that covers it has *)
(* saved what the next one beneath it shows there, the screen shows what   *)
(* the first of them has, and the frames are whole.                        *)
THEOREM Invariance == Spec => []Sound(t, None)
<1>1. Init => Sound(t, None)
  BY InitSound
<1>2. Sound(t, None) /\ [Next]_t => Sound(t, None)'
  <2> SUFFICES ASSUME Sound(t, None), [Next]_t PROVE Sound(t', None)
    BY DEF Sound, State, Parts, List, Listed, Range, Window, Record, Cells, Chain, Reaches,
           Covering, Covers, Link, Beneath, Bottom, Higher, Index, SelectInSeq, Reads, Under,
           CellAt, Frames, FrameWhole, Border, Screen
  <2>1. CASE Next
    BY <2>1, NextIsSound
  <2>2. CASE UNCHANGED t
    BY <2>2
  <2> QED BY <2>1, <2>2
<1> QED BY <1>1, <1>2, PTL DEF Spec

-----------------------------------------------------------------------------
(* The screen shows at each place the text of the window on top of it,     *)
(* and what was there before any window where there is none.               *)
THEOREM ScreenComposed == Spec => []ScreenIsComposite
<1>1. Sound(t, None) => ScreenIsComposite
  <2> SUFFICES ASSUME Sound(t, None), NEW p \in Screen
               PROVE  LET top == AtPoint(t, p)
                      IN  IF top = None THEN t.screen[p] = Desktop
                          ELSE Shows(top, p, t.screen[p])
    BY DEF ScreenIsComposite
  <2> DEFINE top == AtPoint(t, p)
  <2>1. /\ top # None => Beneath(t, None, top, p)
        /\ top = None => Bottom(t, None, p)
    BY TopIsNext DEF Sound, State
  <2> HIDE DEF top
  <2>2. Link(t, None, {}, None, p)
    BY DEF Sound, Chain, Reaches
  <2>3. Under(t, None, p) = t.screen[p]
    BY DEF Under
  <2>4. CASE top = None
    BY <2>1, <2>2, <2>3, <2>4 DEF Link, top
  <2>5. CASE top # None
    <3>1. Reads(t, None, {}, top, p, t.screen[p])
      BY <2>1, <2>2, <2>3, <2>5 DEF Link
    <3>2. Shows(top, p, t.screen[p])
      BY <3>1 DEF Reads, Shows
    <3> QED BY <2>5, <3>2 DEF top
  <2> QED BY <2>4, <2>5
<1> QED BY Invariance, <1>1, PTL

(* What a window on the screen has saved is what the next window beneath   *)
(* it shows there, or the empty screen: hiding it uncovers the right text. *)
THEOREM SavedBeneath == Spec => []SavedIsBeneath
<1>1. Sound(t, None) => SavedIsBeneath
  <2> SUFFICES ASSUME Sound(t, None), NEW w \in Range(t.head), NEW k \in Cells(t.win[w]),
                      t.win[w].visible, Pos(t.win[w], k) \in Screen
               PROVE  LET p == Pos(t.win[w], k)
                          beneath == {i \in Index(t, w) + 1 .. Len(t.head) :
                                       Covers(t.win[t.head[i]], p)}
                      IN  IF beneath = {} THEN t.win[w].saved[k] = Desktop
                          ELSE Shows(t.head[Min(beneath)], p, t.win[w].saved[k])
    BY DEF SavedIsBeneath
  <2> DEFINE p == Pos(t.win[w], k)
             I == {i \in Index(t, w) + 1 .. Len(t.head) : Covers(t.win[t.head[i]], p)}
  <2>1. /\ List(t.head) /\ Listed(t, w) /\ w \in Windows /\ Window(t.win[w]) /\ w # None
        /\ Index(t, w) \in 1 .. Len(t.head) /\ Len(t.head) \in Nat
    <3>1. List(t.head) /\ Listed(t, w)
      BY DEF Sound, State, Listed
    <3>2. w \in Windows /\ Index(t, w) \in 1 .. Len(t.head)
      BY <3>1, IndexOf
    <3> QED BY <3>1, <3>2, TwinAssumption DEF Sound, State, List
  <2>2. CellAt(t.win[w], p) = k /\ Covers(t.win[w], p)
    BY <2>1, PlaceOfCell
  <2>3. p \in Screen
    OBVIOUS
  <2> HIDE DEF p
  <2>4. Link(t, None, {}, w, p) /\ Under(t, w, p) = t.win[w].saved[k]
    BY <2>1, <2>2, <2>3 DEF Sound, Chain, Reaches, Covering, Under
  <2>5. ASSUME NEW y, Covering(t, y, p), Higher(t, w, y)
        PROVE  Index(t, y) \in I /\ t.head[Index(t, y)] = y
    <3>1. Index(t, y) \in 1 .. Len(t.head) /\ t.head[Index(t, y)] = y
      BY <2>1, <2>5, IndexOf DEF Covering
    <3>2. Index(t, y) \in Index(t, w) + 1 .. Len(t.head)
      BY <2>1, <2>5, <3>1 DEF Higher
    <3> QED BY <2>5, <3>1, <3>2 DEF Covering
  <2>6. CASE I = {}
    <3>1. Bottom(t, w, p)
      BY <2>5, <2>6 DEF Bottom
    <3> QED BY <2>4, <2>6, <3>1 DEF Link, p
  <2>7. CASE I # {}
    <3> DEFINE m == Min(I)
               x == t.head[m]
    <3>1. I \in SUBSET (1 .. Len(t.head))
      BY <2>1
    <3>2. m \in I /\ \A i \in I : m <= i
      <4> HIDE DEF I
      <4> QED BY <2>1, <2>7, <3>1, LeastIndex
    <3>3. m \in 1 .. Len(t.head) /\ m > Index(t, w) /\ Covers(t.win[x], p)
      <4>1. \A i \in I : i \in 1 .. Len(t.head) /\ i > Index(t, w) /\ Covers(t.win[t.head[i]], p)
        BY <2>1
      <4> HIDE DEF I, m
      <4> QED BY <3>2, <4>1
    <3> HIDE DEF I, m
    <3>4. Listed(t, x) /\ Index(t, x) = m
      BY <2>1, <3>3, IndexOf
    <3> HIDE DEF x
    <3>5. ASSUME NEW y, Covering(t, y, p), Higher(t, w, y), Higher(t, y, x)
          PROVE  FALSE
      <4>1. Index(t, y) \in I
        BY <2>5, <3>5
      <4>2. m <= Index(t, y) /\ Index(t, y) \in Nat /\ Index(t, y) < m /\ m \in Nat
        BY <2>1, <3>2, <3>3, <3>4, <3>5, <4>1, Ranks DEF Higher
      <4> QED BY <4>2
    <3>6. Beneath(t, w, x, p)
      BY <3>3, <3>4, <3>5 DEF Beneath, Covering, Higher
    <3>7. Reads(t, None, {}, x, p, t.win[w].saved[k])
      BY <2>4, <3>6 DEF Link
    <3>8. Shows(x, p, t.win[w].saved[k])
      BY <3>7 DEF Reads, Shows
    <3> QED BY <2>7, <3>8 DEF x, m, I, p
  <2> QED BY <2>6, <2>7
<1> QED BY Invariance, <1>1, PTL

(* No text reaches the frame of a window, and no resize leaves a gap in it. *)
THEOREM FramesWhole == Spec => []FrameIntact
<1>1. Sound(t, None) => FrameIntact
  <2> SUFFICES ASSUME Sound(t, None), NEW w \in Framed \cap Range(t.head),
                      NEW k \in Border(t.win[w])
               PROVE  t.win[w].body[k] = Frame
    BY DEF FrameIntact
  <2>1. w # None
    BY TwinAssumption
  <2> QED BY <2>1 DEF Sound, Frames, Listed, FrameWhole
<1> QED BY Invariance, <1>1, PTL

-----------------------------------------------------------------------------
(* The copy of a body by the loops of twResizeWin.                         *)
LEMMA LesserOf ==
  ASSUME NEW a \in Nat, NEW b \in Nat
  PROVE  Min({a, b}) = IF a <= b THEN a ELSE b
<1>1. CASE a <= b
  <2>1. \A x \in {a, b} : (\A y \in {a, b} : x <= y) => x = a
    BY <1>1
  <2>2. a \in {a, b} /\ \A y \in {a, b} : a <= y
    BY <1>1
  <2> QED BY <1>1, <2>1, <2>2 DEF Min
<1>2. CASE b < a
  <2>1. \A x \in {a, b} : (\A y \in {a, b} : x <= y) => x = b
    BY <1>2
  <2>2. b \in {a, b} /\ \A y \in {a, b} : b <= y
    BY <1>2
  <2> QED BY <1>2, <2>1, <2>2 DEF Min
<1> QED BY <1>1, <1>2

(* The greatest of one number.                                             *)
LEMMA OnlyOne ==
  ASSUME NEW S, NEW a \in Int, S = {a}
  PROVE  Max(S) = a
<1>1. \A x \in {a} : x = a
  OBVIOUS
<1>2. a \in {a} /\ \A y \in {a} : a >= y
  OBVIOUS
<1> QED BY <1>1, <1>2 DEF Max

(* A cell of the client area, its column and its row.                      *)
LEMMA ClientCell ==
  ASSUME NEW w, NEW n, n.wwidth \in Nat \ {0}, n.wheight \in Nat \ {0},
         NEW x \in 0 .. n.wwidth - 1, NEW y \in 0 .. n.wheight - 1
  PROVE  /\ x + y * n.wwidth \in Cells(n)
         /\ (x + y * n.wwidth) % n.wwidth = x
         /\ (x + y * n.wwidth) \div n.wwidth = y
         /\ x + y * n.wwidth \in Client(w, n) <=>
              (w \in Framed => x \in 1 .. n.wwidth - 2 /\ y \in 1 .. n.wheight - 2)
<1> DEFINE a == n.wwidth   b == n.wheight   k == x + y * a
<1>1. k \in 0 .. a * b - 1
  BY CellInside
<1>2. k % a = x /\ k \div a = y
  <2>1. y \in Int
    OBVIOUS
  <2> QED BY <2>1, CellCoordinates
<1>3. k \in Cells(n)
  BY <1>1 DEF Cells
<1>4. k \in Border(n) <=> x \in {0, a - 1} \/ y \in {0, b - 1}
  BY <1>2, <1>3 DEF Border
<1>5. ~(x \in {0, a - 1} \/ y \in {0, b - 1}) <=> x \in 1 .. a - 2 /\ y \in 1 .. b - 2
  OBVIOUS
<1> HIDE DEF k
<1>6. k \in Client(w, n) <=> (w \in Framed => k \notin Border(n))
  BY <1>3 DEF Client
<1> QED BY <1>2, <1>3, <1>4, <1>5, <1>6 DEF k

(* Each cell is a column and a row.                                        *)
LEMMA CellIs ==
  ASSUME NEW n, n.wwidth \in Nat \ {0}, n.wheight \in Nat \ {0}, NEW k \in Cells(n)
  PROVE  /\ k % n.wwidth \in 0 .. n.wwidth - 1 /\ k \div n.wwidth \in 0 .. n.wheight - 1
         /\ k = (k % n.wwidth) + (k \div n.wwidth) * n.wwidth
<1>1. k \in 0 .. n.wwidth * n.wheight - 1 /\ k \in Int
  BY DEF Cells
<1>2. k \div n.wwidth \in 0 .. n.wheight - 1
  BY <1>1, CellRow
<1> QED BY <1>1, <1>2, DivMod

(* What a turn of the loops copies, and what it fills.                     *)
To(g, a, i) == g + (i - g) * a
Ran(k, from, n) == k >= from /\ k < from + n
Copying(g, kept, ncopy, a, i, k) == i < kept /\ Ran(k, To(g, a, i), ncopy)
Filling(g, kept, ncopy, fill, a, ow, i, k) ==
  \/ i >= kept /\ Ran(k, To(g, a, i), a)
  \/ i < kept /\ ow < a /\ Ran(k, To(g, a, i) + ncopy - 2 * g, fill)

(* No turn but one reaches a cell of the client area.                      *)
LEMMA OneTurn ==
  ASSUME NEW g \in {0, 1}, NEW a \in Nat \ {0}, NEW ow \in Nat \ {0}, NEW kept \in Nat,
         NEW ncopy \in Nat, ncopy = IF a <= ow THEN a ELSE ow,
         NEW x \in 0 .. a - 1, NEW y \in Nat, x >= g, NEW i \in Int, i # y + g
  PROVE  /\ ~Copying(g, kept, ncopy, a, i, x + y * a)
         /\ ~Filling(g, kept, ncopy, a - ow, a, ow, i, x + y * a)
<1> DEFINE I == (i - g) * a   M == y * a
<1>1. I \in Int /\ M \in Int
  OBVIOUS
<1>2. (i - g >= y + 1 => I >= M + a) /\ (i - g <= y - 1 => I <= M - a)
  <2>1. i - g >= y + 1 => (y + 1) * a <= (i - g) * a
    BY RowsGrow
  <2>2. i - g <= y - 1 => (i - g) * a <= (y - 1) * a
    BY RowsGrow
  <2>3. (y + 1) * a = M + a /\ (y - 1) * a = M - a
    OBVIOUS
  <2> QED BY <2>1, <2>2, <2>3
<1>3. i - g >= y + 1 \/ i - g <= y - 1
  OBVIOUS
<1> HIDE DEF I, M
<1>4. To(g, a, i) = g + I
  BY DEF To, I
<1>5. x + y * a = x + M
  BY DEF M
<1>6. CASE i - g >= y + 1
  <2>1. I >= M + a
    BY <1>2, <1>6
  <2> QED BY <1>1, <1>4, <1>5, <2>1 DEF Copying, Filling, Ran
<1>7. CASE i - g <= y - 1
  <2>1. I <= M - a
    BY <1>2, <1>7
  <2> QED BY <1>1, <1>4, <1>5, <2>1 DEF Copying, Filling, Ran
<1> QED BY <1>3, <1>6, <1>7

(* What the one turn that reaches it leaves there.                         *)
Reached(g, kept, ncopy, a, ow, x, y) ==
  LET j == y + g  k == x + y * a
  IN  /\ k - To(g, a, j) = x - g
      /\ Filling(g, kept, ncopy, a - ow, a, ow, j, k) <=>
           (j < kept => ow < a /\ x >= ow - g)
      /\ Copying(g, kept, ncopy, a, j, k) <=> j < kept /\ x - g < ncopy

(* The turn that reaches it.                                               *)
LEMMA ThatTurn ==
  ASSUME NEW g \in {0, 1}, NEW a \in Nat \ {0}, NEW ow \in Nat \ {0}, NEW kept \in Nat,
         NEW ncopy \in Nat, ncopy = IF a <= ow THEN a ELSE ow,
         NEW x \in 0 .. a - 1 - g, NEW y \in Nat, x >= g
  PROVE  Reached(g, kept, ncopy, a, ow, x, y)
<1> DEFINE M == y * a   j == y + g
<1>1. M \in Int /\ (j - g) * a = M
  OBVIOUS
<1>2. To(g, a, j) = g + M
  BY <1>1 DEF To
<1> HIDE DEF M
<1>3. x + y * a = x + M
  BY DEF M
<1> HIDE DEF j
<1>4. j \in Int
  BY DEF j
<1>5. Filling(g, kept, ncopy, a - ow, a, ow, j, x + M) <=>
        (j < kept => ow < a /\ x >= ow - g)
  BY <1>1, <1>2, <1>4 DEF Filling, Ran
<1>6. Copying(g, kept, ncopy, a, j, x + M) <=> j < kept /\ x - g < ncopy
  BY <1>1, <1>2, <1>4 DEF Copying, Ran
<1>7. (x + M) - To(g, a, j) = x - g
  BY <1>1, <1>2
<1> QED BY <1>3, <1>5, <1>6, <1>7 DEF j, Reached

(* Of a cell of the client area: text where there was text, else filler.   *)
LeftIn(w, v, a, b, g, x, y) ==
  LET cell == ResizedBody(w, v, a, b)[x + y * a]
  IN  /\ y + g >= v.wheight => cell = Filler
      /\ x >= v.wwidth - g => cell = Filler
      /\ y + g < v.wheight /\ x < v.wwidth - g => cell = v.body[x + y * v.wwidth]

(* What the loops leave there.                                             *)
LEMMA ResizedCell ==
  ASSUME NEW w, NEW v, v.wwidth \in Nat \ {0}, v.wheight \in Nat \ {0},
         NEW a \in Nat \ {0}, NEW b \in Nat \ {0},
         NEW g, g = IF w \in Framed THEN 1 ELSE 0,
         NEW x \in 0 .. a - 1 - g, NEW y \in 0 .. b - 1 - g, x >= g
  PROVE  LeftIn(w, v, a, b, g, x, y)
<1> DEFINE ow == v.wwidth
           kept == Min({v.wheight, b})
           ncopy == Min({a, ow})
           turns(k) == {i \in g .. b - 1 : \/ Copying(g, kept, ncopy, a, i, k)
                                           \/ Filling(g, kept, ncopy, a - ow, a, ow, i, k)}
           last(k) == Max(turns(k))
           Cell(k) ==
             CASE turns(k) = {} -> Junk
               [] turns(k) # {} /\ Filling(g, kept, ncopy, a - ow, a, ow, last(k), k) -> Filler
               [] OTHER -> v.body[g + (last(k) - g) * ow + k - To(g, a, last(k))]
           k0 == x + y * a
           j == y + g
<1>1. ResizedBody(w, v, a, b) = [k \in 0 .. a * b - 1 |-> Cell(k)]
  <2>1. Delta(w) = 2 * g /\ FillSize(a, ow) = a - ow
    BY DEF Delta, FillSize
  <2> QED BY <2>1 DEF ResizedBody, Copying, Filling, Ran, To
<1>2. g \in {0, 1} /\ a \in Nat \ {0} /\ ow \in Nat \ {0} /\ x \in 0 .. a - 1 /\ y \in Nat
      /\ y \in 0 .. b - 1
  OBVIOUS
<1>3. /\ kept \in Nat /\ kept = IF v.wheight <= b THEN v.wheight ELSE b
      /\ ncopy \in Nat /\ ncopy = IF a <= ow THEN a ELSE ow
  BY LesserOf
<1> HIDE DEF kept, ncopy
<1>4. k0 \in 0 .. a * b - 1
  BY <1>2, CellInside
<1>5. /\ k0 - To(g, a, j) = x - g
      /\ Filling(g, kept, ncopy, a - ow, a, ow, j, k0) <=> (j < kept => ow < a /\ x >= ow - g)
      /\ Copying(g, kept, ncopy, a, j, k0) <=> j < kept /\ x - g < ncopy
  <2> HIDE DEF ow
  <2>1. x \in 0 .. a - 1 - g /\ x >= g
    OBVIOUS
  <2>2. Reached(g, kept, ncopy, a, ow, x, y)
    BY <1>2, <1>3, <2>1, ThatTurn
  <2> QED BY <2>2, Zenon DEF Reached
<1>6. \A i \in Int : i # j => /\ ~Copying(g, kept, ncopy, a, i, k0)
                              /\ ~Filling(g, kept, ncopy, a - ow, a, ow, i, k0)
  BY <1>2, <1>3, OneTurn
<1> HIDE DEF k0
<1>7. j \in g .. b - 1 /\ j \in Int
  BY <1>2
<1>8. \/ Copying(g, kept, ncopy, a, j, k0)
      \/ Filling(g, kept, ncopy, a - ow, a, ow, j, k0)
  BY <1>2, <1>3, <1>5, <1>7
<1>9. turns(k0) = {j}
  <2> HIDE DEF j
  <2> QED BY <1>6, <1>7, <1>8
<1>10. last(k0) = j /\ turns(k0) # {}
  BY <1>7, <1>9, OnlyOne
<1> HIDE DEF turns, last, j
<1>11. Cell(k0) = IF Filling(g, kept, ncopy, a - ow, a, ow, j, k0) THEN Filler
                  ELSE v.body[g + (j - g) * ow + k0 - To(g, a, j)]
  BY <1>10
<1> HIDE DEF Cell
<1>12. ResizedBody(w, v, a, b)[k0] = Cell(k0)
  BY <1>1, <1>4
<1>13. g + (j - g) * ow + k0 - To(g, a, j) = x + y * ow
  <2>1. (j - g) * ow = y * ow /\ y * ow \in Int
    BY <1>2 DEF j
  <2>2. To(g, a, j) \in Int /\ k0 \in Int
    <3>1. (j - g) * a \in Int
      BY <1>2, <1>7
    <3> QED BY <1>2, <1>4, <3>1 DEF To
  <2> QED BY <1>2, <1>5, <2>1, <2>2
<1>14. j < kept <=> y + g < v.wheight
  BY <1>2, <1>3 DEF j
<1>15. (x >= ow - g => ow < a)
  BY <1>2
<1>16. y + g >= v.wheight => ~(j < kept)
  BY <1>2, <1>14
<1> HIDE DEF ow
<1> QED BY <1>5, <1>11, <1>12, <1>13, <1>14, <1>15, <1>16 DEF k0, ow, LeftIn

(* A resized body with its frame is what ResizedWell says.                 *)
LEMMA BodyResizedWell ==
  ASSUME NEW w, NEW v, v.wwidth \in Nat \ {0}, v.wheight \in Nat \ {0},
         NEW n, n.wwidth \in Nat \ {0}, n.wheight \in Nat \ {0},
         \A k \in Client(w, n) : n.body[k] = ResizedBody(w, v, n.wwidth, n.wheight)[k]
  PROVE  ResizedWell(w, v, n)
<1> SUFFICES ASSUME NEW k \in Client(w, n)
             PROVE  LET x == k % n.wwidth
                        old == x + (k \div n.wwidth) * v.wwidth
                    IN  n.body[k] = IF x < v.wwidth /\ old \in Client(w, v)
                                      THEN v.body[old] ELSE Filler
  BY DEF ResizedWell
<1> DEFINE x == k % n.wwidth
           y == k \div n.wwidth
           old == x + y * v.wwidth
           g == IF w \in Framed THEN 1 ELSE 0
<1>1. k \in Cells(n)
  BY DEF Client
<1>2. x \in 0 .. n.wwidth - 1 /\ y \in 0 .. n.wheight - 1 /\ k = x + y * n.wwidth
  BY <1>1, CellIs
<1> HIDE DEF x, y
<1>3. w \in Framed => x \in 1 .. n.wwidth - 2 /\ y \in 1 .. n.wheight - 2
  BY <1>2, ClientCell
<1>4. x \in 0 .. n.wwidth - 1 - g /\ y \in 0 .. n.wheight - 1 - g /\ x >= g
  BY <1>2, <1>3
<1> DEFINE cell == ResizedBody(w, v, n.wwidth, n.wheight)[x + y * n.wwidth]
<1>5. /\ y + g >= v.wheight => cell = Filler
      /\ x >= v.wwidth - g => cell = Filler
      /\ y + g < v.wheight /\ x < v.wwidth - g => cell = v.body[x + y * v.wwidth]
  <2>1. g = IF w \in Framed THEN 1 ELSE 0
    OBVIOUS
  <2> HIDE DEF g, cell
  <2>2. LeftIn(w, v, n.wwidth, n.wheight, g, x, y)
    BY <1>4, <2>1, ResizedCell
  <2> QED BY <2>2, Zenon DEF cell, LeftIn
<1>6. n.body[k] = cell
  BY <1>2
<1> HIDE DEF cell
<1>7. ASSUME x < v.wwidth
      PROVE  old \in Client(w, v) <=>
               y < v.wheight /\ (w \in Framed => x \in 1 .. v.wwidth - 2 /\ y \in 1 .. v.wheight - 2)
  <2>1. CASE y < v.wheight
    <3>1. x \in 0 .. v.wwidth - 1 /\ y \in 0 .. v.wheight - 1
      BY <1>2, <1>7, <2>1
    <3> QED BY <2>1, <3>1, ClientCell
  <2>2. CASE y >= v.wheight
    <3>1. old \notin Cells(v)
      <4>1. v.wheight * v.wwidth <= y * v.wwidth /\ v.wheight * v.wwidth = v.wwidth * v.wheight
            /\ y * v.wwidth \in Int /\ v.wwidth * v.wheight \in Int
        <5>1. y \in Int
          BY <1>2
        <5> QED BY <2>2, <5>1, RowsGrow
      <4> QED BY <1>2, <4>1 DEF Cells
    <3>2. old \notin Client(w, v)
      BY <3>1 DEF Client
    <3>3. ~(y < v.wheight)
      BY <1>2, <2>2
    <3> QED BY <3>2, <3>3
  <2> QED BY <1>2, <2>1, <2>2
<1> HIDE DEF old
<1>8. CASE x < v.wwidth /\ old \in Client(w, v)
  <2>1. y + g < v.wheight /\ x < v.wwidth - g
    BY <1>2, <1>7, <1>8
  <2> QED BY <1>5, <1>6, <1>8, <2>1 DEF old, x, y
<1>9. CASE ~(x < v.wwidth /\ old \in Client(w, v))
  <2>1. y + g >= v.wheight \/ x >= v.wwidth - g
    BY <1>2, <1>3, <1>7, <1>9
  <2> QED BY <1>5, <1>6, <1>9, <2>1 DEF old, x, y
<1> QED BY <1>8, <1>9 DEF old, x, y

-----------------------------------------------------------------------------
(* Windows that are listed or not; what one state keeps of another.        *)
Shaped(s) == Parts(s) /\ \A u \in Windows : Record(s.win[u])

(* Every window keeps its text and its size.                               *)
Faces(s, r) == Shaped(r) /\ \A u \in Windows : SameFace(r.win[u], s.win[u])

(* The size alone.                                                         *)
SameSize(n, v) == n.wwidth = v.wwidth /\ n.wheight = v.wheight

(* Every window but one keeps its text, and that one its size.             *)
Others(s, r, w) == /\ Shaped(r) /\ SameSize(r.win[w], s.win[w])
                   /\ \A u \in Windows \ {w} : SameFace(r.win[u], s.win[u])

(* One step after the other.                                               *)
LEMMA FacesTwice ==
  ASSUME NEW s, NEW q, NEW r, Faces(s, q), Faces(q, r)
  PROVE  Faces(s, r)
BY DEF Faces, SameFace

(* The same for the relation that exempts one window.                      *)
LEMMA OthersTwice ==
  ASSUME NEW s, NEW q, NEW r, NEW w, Others(s, q, w), Others(q, r, w)
  PROVE  Others(s, r, w)
BY DEF Others, SameFace, SameSize

(* What keeps every text keeps that of the others.                         *)
LEMMA FacesAreOthers ==
  ASSUME NEW s, NEW r, NEW w \in Windows, Faces(s, r)
  PROVE  Others(s, r, w)
BY DEF Faces, Others, SameFace, SameSize

(* Nothing changes.                                                        *)
LEMMA FacesSelf ==
  ASSUME NEW s, Shaped(s)
  PROVE  Faces(s, s)
BY DEF Faces, SameFace

(* A field that is not the text.                                           *)
LEMMA FieldsAreApart ==
  ASSUME NEW v, Record(v), NEW x
  PROVE  /\ Record([v EXCEPT !.X1 = x]) /\ SameFace([v EXCEPT !.X1 = x], v)
         /\ Record([v EXCEPT !.Y1 = x]) /\ SameFace([v EXCEPT !.Y1 = x], v)
         /\ Record([v EXCEPT !.visible = x]) /\ SameFace([v EXCEPT !.visible = x], v)
         /\ Record([v EXCEPT !.enabled = x]) /\ SameFace([v EXCEPT !.enabled = x], v)
         /\ Record([v EXCEPT !.saved = x]) /\ SameFace([v EXCEPT !.saved = x], v)
         /\ Record([v EXCEPT !.owed = x]) /\ SameFace([v EXCEPT !.owed = x], v)
<1>1. Record([v EXCEPT !.X1 = x]) /\ SameFace([v EXCEPT !.X1 = x], v)
  <2> DEFINE n == [v EXCEPT !.X1 = x]
  <2>1. n = [X1 |-> x, Y1 |-> v.Y1, wwidth |-> v.wwidth, wheight |-> v.wheight, visible |-> v.visible,
             enabled |-> v.enabled, body |-> v.body, saved |-> v.saved, owed |-> v.owed]
    BY DEF Record
  <2> HIDE DEF n
  <2> QED BY <2>1 DEF n, Record, SameFace
<1>2. Record([v EXCEPT !.Y1 = x]) /\ SameFace([v EXCEPT !.Y1 = x], v)
  <2> DEFINE n == [v EXCEPT !.Y1 = x]
  <2>1. n = [X1 |-> v.X1, Y1 |-> x, wwidth |-> v.wwidth, wheight |-> v.wheight, visible |-> v.visible,
             enabled |-> v.enabled, body |-> v.body, saved |-> v.saved, owed |-> v.owed]
    BY DEF Record
  <2> HIDE DEF n
  <2> QED BY <2>1 DEF n, Record, SameFace
<1>3. Record([v EXCEPT !.visible = x]) /\ SameFace([v EXCEPT !.visible = x], v)
  <2> DEFINE n == [v EXCEPT !.visible = x]
  <2>1. n = [X1 |-> v.X1, Y1 |-> v.Y1, wwidth |-> v.wwidth, wheight |-> v.wheight, visible |-> x,
             enabled |-> v.enabled, body |-> v.body, saved |-> v.saved, owed |-> v.owed]
    BY DEF Record
  <2> HIDE DEF n
  <2> QED BY <2>1 DEF n, Record, SameFace
<1>4. Record([v EXCEPT !.enabled = x]) /\ SameFace([v EXCEPT !.enabled = x], v)
  <2> DEFINE n == [v EXCEPT !.enabled = x]
  <2>1. n = [X1 |-> v.X1, Y1 |-> v.Y1, wwidth |-> v.wwidth, wheight |-> v.wheight, visible |-> v.visible,
             enabled |-> x, body |-> v.body, saved |-> v.saved, owed |-> v.owed]
    BY DEF Record
  <2> HIDE DEF n
  <2> QED BY <2>1 DEF n, Record, SameFace
<1>5. Record([v EXCEPT !.saved = x]) /\ SameFace([v EXCEPT !.saved = x], v)
  <2> DEFINE n == [v EXCEPT !.saved = x]
  <2>1. n = [X1 |-> v.X1, Y1 |-> v.Y1, wwidth |-> v.wwidth, wheight |-> v.wheight, visible |-> v.visible,
             enabled |-> v.enabled, body |-> v.body, saved |-> x, owed |-> v.owed]
    BY DEF Record
  <2> HIDE DEF n
  <2> QED BY <2>1 DEF n, Record, SameFace
<1>6. Record([v EXCEPT !.owed = x]) /\ SameFace([v EXCEPT !.owed = x], v)
  <2> DEFINE n == [v EXCEPT !.owed = x]
  <2>1. n = [X1 |-> v.X1, Y1 |-> v.Y1, wwidth |-> v.wwidth, wheight |-> v.wheight, visible |-> v.visible,
             enabled |-> v.enabled, body |-> v.body, saved |-> v.saved, owed |-> x]
    BY DEF Record
  <2> HIDE DEF n
  <2> QED BY <2>1 DEF n, Record, SameFace
<1> QED BY <1>1, <1>2, <1>3, <1>4, <1>5, <1>6

(* The text itself.                                                        *)
LEMMA TextIsApart ==
  ASSUME NEW v, Record(v), NEW x
  PROVE  /\ Record([v EXCEPT !.body = x]) /\ SameSize([v EXCEPT !.body = x], v)
         /\ [v EXCEPT !.body = x].body = x
<1> DEFINE n == [v EXCEPT !.body = x]
<1>1. n = [X1 |-> v.X1, Y1 |-> v.Y1, wwidth |-> v.wwidth, wheight |-> v.wheight, visible |-> v.visible,
           enabled |-> v.enabled, body |-> x, saved |-> v.saved, owed |-> v.owed]
  BY DEF Record
<1> HIDE DEF n
<1> QED BY <1>1 DEF n, Record, SameSize

(* One window is replaced by one with the same text.                       *)
LEMMA SetFace ==
  ASSUME NEW s, Shaped(s), NEW w \in Windows, NEW n, Record(n), SameFace(n, s.win[w])
  PROVE  Faces(s, SetWin(s, w, n))
<1> DEFINE r == SetWin(s, w, n)
<1>1. /\ Parts(r) /\ r.win[w] = n
      /\ \A u \in Windows \ {w} : r.win[u] = s.win[u]
  BY SetWinIs DEF Shaped
<1> HIDE DEF r
<1>2. Shaped(r)
  BY <1>1 DEF Shaped
<1> QED BY <1>1, <1>2 DEF Faces, SameFace, r

(* Or by one with another text.                                            *)
LEMMA SetOthers ==
  ASSUME NEW s, Shaped(s), NEW w \in Windows, NEW n, Record(n), SameSize(n, s.win[w])
  PROVE  Others(s, SetWin(s, w, n), w) /\ SetWin(s, w, n).win[w] = n
<1> DEFINE r == SetWin(s, w, n)
<1>1. /\ Parts(r) /\ r.win[w] = n
      /\ \A u \in Windows \ {w} : r.win[u] = s.win[u]
  BY SetWinIs DEF Shaped
<1> HIDE DEF r
<1>2. Shaped(r)
  BY <1>1 DEF Shaped
<1> QED BY <1>1, <1>2 DEF Others, SameFace, SameSize, r

(* The order of the windows is not their text.                             *)
LEMMA ListFaces ==
  ASSUME NEW s, Shaped(s), NEW h
  PROVE  LET r == [s EXCEPT !.head = h]
         IN  Faces(s, r) /\ r.win = s.win /\ r.head = h /\ r.screen = s.screen
<1> DEFINE r == [s EXCEPT !.head = h]
<1>1. r = [head |-> h, win |-> s.win, screen |-> s.screen]
  BY DEF Shaped, Parts
<1> HIDE DEF r
<1>2. r.head = h /\ r.win = s.win /\ r.screen = s.screen
  BY <1>1
<1>3. Shaped(r)
  BY <1>1, <1>2 DEF Shaped, Parts
<1> QED BY <1>2, <1>3 DEF Faces, SameFace, r

(* Sending changes no text.                                                *)
LEMMA UpdateFaces ==
  ASSUME NEW s, Shaped(s), NEW w \in Windows, NEW cells, NEW buff, NEW accel, NEW written
  PROVE  Faces(s, Update(s, w, cells, buff, accel, written))
<1> DEFINE v == s.win[w]
           over == Above(s, w)
           owes == IF v.enabled THEN v.owed \ cells ELSE v.owed \cup cells
           Shown(p) ==
             IF over = {} \/ FindOver(s, w, p) = None THEN buff[CellAt(v, p)]
             ELSE IF accel THEN LET top == s.win[AtPoint(s, p)]
                                IN  top.body[CellAt(top, p)]
             ELSE s.screen[p]
           W(u) == IF u = w THEN [v EXCEPT !.owed = owes]
                   ELSE IF u \in over
                     THEN [s.win[u] EXCEPT !.saved = Saving(s, w, u, cells, buff)]
                   ELSE s.win[u]
           wins == [u \in Windows |-> W(u)]
           glass == IF ~written THEN s.screen
                    ELSE [p \in Screen |-> IF Covers(v, p) /\ CellAt(v, p) \in cells
                                           THEN Shown(p) ELSE s.screen[p]]
           r == Update(s, w, cells, buff, accel, written)
<1>1. CASE ~v.visible
  BY <1>1, FacesSelf DEF Update
<1>2. CASE v.visible
  <2>1. r = [s EXCEPT !.win = wins, !.screen = glass]
    BY <1>2 DEF Update
  <2>2. glass = [p \in Screen |-> glass[p]]
    BY DEF Shaped, Parts
  <2> HIDE DEF r, glass
  <2>3. ASSUME NEW u \in Windows
        PROVE  Record(W(u)) /\ SameFace(W(u), s.win[u])
    <3>1. Record(s.win[u])
      BY DEF Shaped
    <3>2. CASE u = w
      <4>1. W(u) = [s.win[u] EXCEPT !.owed = owes]
        BY <3>2
      <4> DEFINE z == s.win[u]
      <4> HIDE DEF owes, z
      <4>2. Record([z EXCEPT !.owed = owes]) /\ SameFace([z EXCEPT !.owed = owes], z)
        BY <3>1, FieldsAreApart DEF z
      <4> HIDE DEF W
      <4> QED BY <4>1, <4>2 DEF z
    <3>3. CASE u # w /\ u \in over
      <4>1. W(u) = [s.win[u] EXCEPT !.saved = Saving(s, w, u, cells, buff)]
        BY <3>3
      <4> DEFINE z == s.win[u]   sv == Saving(s, w, u, cells, buff)
      <4> HIDE DEF sv, z
      <4>2. Record([z EXCEPT !.saved = sv]) /\ SameFace([z EXCEPT !.saved = sv], z)
        BY <3>1, FieldsAreApart DEF z
      <4> HIDE DEF W
      <4> QED BY <4>1, <4>2 DEF z, sv
    <3>4. CASE u # w /\ u \notin over
      <4>1. W(u) = s.win[u]
        BY <3>4
      <4> HIDE DEF W
      <4> QED BY <3>1, <4>1 DEF SameFace
    <3> HIDE DEF W, over
    <3> QED BY <3>2, <3>3, <3>4
  <2> HIDE DEF W
  <2>4. wins = [u \in Windows |-> wins[u]] /\ \A u \in Windows : wins[u] = W(u)
    OBVIOUS
  <2> HIDE DEF wins
  <2>5. r = [head |-> s.head, win |-> wins, screen |-> glass]
    BY <2>1 DEF Shaped, Parts
  <2>6. r.win = wins /\ r.head = s.head /\ r.screen = glass
    BY <2>5
  <2>7. Shaped(r)
    BY <2>2, <2>3, <2>4, <2>5, <2>6 DEF Shaped, Parts
  <2> QED BY <2>3, <2>4, <2>6, <2>7 DEF Faces, r
<1> QED BY <1>1, <1>2

(* The buffers of all windows are set anew.                                *)
LEMMA SavingFaces ==
  ASSUME NEW s, Shaped(s), NEW memory
  PROVE  Faces(s, [s EXCEPT !.win = [u \in Windows |-> [s.win[u] EXCEPT !.saved = memory[u]]]])
<1> DEFINE W(u) == [s.win[u] EXCEPT !.saved = memory[u]]
           wins == [u \in Windows |-> W(u)]
           r == [s EXCEPT !.win = wins]
<1>1. ASSUME NEW u \in Windows
      PROVE  Record(W(u)) /\ SameFace(W(u), s.win[u])
  <2>1. Record(s.win[u])
    BY DEF Shaped
  <2> DEFINE z == s.win[u]   sv == memory[u]
  <2> HIDE DEF z, sv
  <2>2. Record([z EXCEPT !.saved = sv]) /\ SameFace([z EXCEPT !.saved = sv], z)
    BY <2>1, FieldsAreApart DEF z
  <2> QED BY <2>2 DEF z, sv
<1>2. r = [head |-> s.head, win |-> wins, screen |-> s.screen]
  <2> HIDE DEF wins
  <2> QED BY DEF Shaped, Parts
<1> HIDE DEF W
<1>3. wins = [u \in Windows |-> wins[u]] /\ \A u \in Windows : wins[u] = W(u)
  OBVIOUS
<1> HIDE DEF wins, r
<1>4. r.win = wins /\ r.head = s.head /\ r.screen = s.screen
  BY <1>2
<1>5. Shaped(r)
  BY <1>1, <1>2, <1>3, <1>4 DEF Shaped, Parts
<1>6. Faces(s, r)
  BY <1>1, <1>3, <1>4, <1>5 DEF Faces
<1> QED BY <1>6 DEF r, wins, W

(* A window becomes visible, moves, or is thawed.                          *)
LEMMA FieldFaces ==
  ASSUME NEW s, Shaped(s), NEW w \in Windows, NEW x
  PROVE  /\ Faces(s, [s EXCEPT !.win[w].visible = x])
         /\ Faces(s, [s EXCEPT !.win[w].enabled = x])
         /\ Faces(s, [s EXCEPT !.win[w].owed = x])
         /\ Faces(s, [s EXCEPT !.win[w].saved = x])
         /\ Faces(s, [s EXCEPT !.win[w].X1 = x])
         /\ Faces(s, [s EXCEPT !.win[w].Y1 = x])
<1> DEFINE v == s.win[w]
<1>1. Record(v)
  BY DEF Shaped
<1>2. /\ [s EXCEPT !.win[w].visible = x] = SetWin(s, w, [v EXCEPT !.visible = x])
      /\ [s EXCEPT !.win[w].enabled = x] = SetWin(s, w, [v EXCEPT !.enabled = x])
      /\ [s EXCEPT !.win[w].owed = x] = SetWin(s, w, [v EXCEPT !.owed = x])
      /\ [s EXCEPT !.win[w].saved = x] = SetWin(s, w, [v EXCEPT !.saved = x])
      /\ [s EXCEPT !.win[w].X1 = x] = SetWin(s, w, [v EXCEPT !.X1 = x])
      /\ [s EXCEPT !.win[w].Y1 = x] = SetWin(s, w, [v EXCEPT !.Y1 = x])
  BY DEF Shaped, Parts, SetWin
<1> HIDE DEF v
<1>3. /\ Record([v EXCEPT !.visible = x]) /\ SameFace([v EXCEPT !.visible = x], v)
      /\ Record([v EXCEPT !.enabled = x]) /\ SameFace([v EXCEPT !.enabled = x], v)
      /\ Record([v EXCEPT !.owed = x]) /\ SameFace([v EXCEPT !.owed = x], v)
      /\ Record([v EXCEPT !.saved = x]) /\ SameFace([v EXCEPT !.saved = x], v)
      /\ Record([v EXCEPT !.X1 = x]) /\ SameFace([v EXCEPT !.X1 = x], v)
      /\ Record([v EXCEPT !.Y1 = x]) /\ SameFace([v EXCEPT !.Y1 = x], v)
  BY <1>1, FieldsAreApart
<1>4. ASSUME NEW n, Record(n), SameFace(n, v) PROVE Faces(s, SetWin(s, w, n))
  BY <1>4, SetFace DEF v
<1> QED BY <1>2, <1>3, <1>4

(* __updatewinmem.                                                         *)
LEMMA MemFaces ==
  ASSUME NEW s, Shaped(s), NEW w \in Windows
  PROVE  Faces(s, updatewinmem(s, w))
<1> DEFINE v == s.win[w]
           Top(p) == FindOver(s, w, p)
           Memory(u, k) ==
             LET p == Pos(s.win[u], k)
             IN  CASE u = w /\ Top(p) # None ->
                        LET top == s.win[Top(p)] IN top.saved[CellAt(top, p)]
                   [] u = w /\ Top(p) = None /\ p \in Screen -> s.screen[p]
                   [] u # w /\ Covers(v, p) /\ Top(p) = u -> v.body[CellAt(v, p)]
                   [] OTHER -> s.win[u].saved[k]
           memory == [u \in Windows |-> [k \in DOMAIN s.win[u].saved |-> Memory(u, k)]]
<1>1. updatewinmem(s, w) =
        [s EXCEPT !.win = [u \in Windows |->
           [s.win[u] EXCEPT !.saved = [k \in DOMAIN s.win[u].saved |-> Memory(u, k)]]]]
  BY DEF updatewinmem
<1> HIDE DEF Memory
<1>2. [u \in Windows |->
         [s.win[u] EXCEPT !.saved = [k \in DOMAIN s.win[u].saved |-> Memory(u, k)]]] =
      [u \in Windows |-> [s.win[u] EXCEPT !.saved = memory[u]]]
  OBVIOUS
<1> HIDE DEF memory
<1>3. Faces(s, [s EXCEPT !.win = [u \in Windows |-> [s.win[u] EXCEPT !.saved = memory[u]]]])
  BY SavingFaces
<1> QED BY <1>1, <1>2, <1>3

(* __screen2win.                                                           *)
LEMMA ScreenFaces ==
  ASSUME NEW s, Shaped(s), NEW w \in Windows
  PROVE  Faces(s, screen2win(s, w))
<1> DEFINE sv == [k \in DOMAIN s.win[w].saved |->
                    IF Pos(s.win[w], k) \in Screen THEN s.screen[Pos(s.win[w], k)]
                    ELSE s.win[w].saved[k]]
<1>1. screen2win(s, w) = [s EXCEPT !.win[w].saved = sv]
  BY DEF screen2win, Shaped, Parts
<1> HIDE DEF sv
<1>2. Faces(s, [s EXCEPT !.win[w].saved = sv])
  BY FieldFaces, Zenon
<1> QED BY <1>1, <1>2

(* The calls that send cells.                                              *)
LEMMA SendingFaces ==
  ASSUME NEW s, Shaped(s), NEW w \in Windows, NEW cells
  PROVE  /\ Faces(s, updatescreenchar(s, w, cells))
         /\ Faces(s, updatescreenpiece(s, w, cells))
         /\ \A full_area : Faces(s, updatescreen(s, w, full_area))
         /\ Faces(s, savedwin2screen(s, w))
BY UpdateFaces DEF updatescreenchar, updatescreenpiece, updatescreen, savedwin2screen

(* What is put into a window stays in it.                                  *)
LEMMA PutOthers ==
  ASSUME NEW s, Shaped(s), NEW w \in Windows, NEW cells, NEW ch
  PROVE  /\ Others(s, Put(s, w, cells, ch), w)
         /\ Put(s, w, cells, ch).win[w].body =
              [k \in DOMAIN s.win[w].body |-> IF k \in cells THEN ch ELSE s.win[w].body[k]]
<1> DEFINE v == s.win[w]
           bd == [k \in DOMAIN v.body |-> IF k \in cells THEN ch ELSE v.body[k]]
<1>1. Put(s, w, cells, ch) = SetWin(s, w, [v EXCEPT !.body = bd])
  BY DEF Put, SetWin, Shaped, Parts
<1>2. Record(v)
  BY DEF Shaped
<1> HIDE DEF v, bd
<1> DEFINE n == [v EXCEPT !.body = bd]
<1>3. Record(n) /\ SameSize(n, v) /\ n.body = bd
  BY <1>2, TextIsApart
<1> HIDE DEF n
<1>4. Others(s, SetWin(s, w, n), w) /\ SetWin(s, w, n).win[w] = n
  BY <1>3, SetOthers DEF v
<1> QED BY <1>1, <1>3, <1>4 DEF n, v, bd

-----------------------------------------------------------------------------
(* Windows are hidden and shown.                                           *)
LEMMA HideFaces ==
  ASSUME NEW s, Shaped(s), NEW w \in Windows
  PROVE  Faces(s, Hide(s, w))
<1> DEFINE q == savedwin2screen(s, w)
           junk == [k \in DOMAIN q.win[w].saved |-> Junk]
           a == [q EXCEPT !.win[w].visible = FALSE]
           b == [a EXCEPT !.win[w].owed = {}]
           r == [b EXCEPT !.win[w].saved = junk]
<1>1. Faces(s, q) /\ Shaped(q)
  BY SendingFaces DEF Faces
<1>2. Hide(s, w) = [q EXCEPT !.win[w].visible = FALSE, !.win[w].owed = {},
                             !.win[w].saved = [k \in DOMAIN @ |-> Junk]]
  BY DEF Hide
<1> HIDE DEF q
<1>3. Hide(s, w) = r
  <2>1. Record(q.win[w])
    BY <1>1 DEF Shaped
  <2> QED BY <1>1, <1>2, <2>1 DEF Shaped, Parts, Record
<1> HIDE DEF junk
<1>4. Faces(q, a) /\ Shaped(a)
  BY <1>1, FieldFaces DEF Faces
<1> HIDE DEF a
<1>5. Faces(a, b) /\ Shaped(b)
  BY <1>4, FieldFaces DEF Faces
<1> HIDE DEF b
<1>6. Faces(b, r)
  BY <1>5, FieldFaces
<1> HIDE DEF r
<1> QED BY <1>1, <1>3, <1>4, <1>5, <1>6, FacesTwice

(* A window is shown as it is hidden first.                                *)
LEMMA HiddenFaces ==
  ASSUME NEW s, Shaped(s), NEW w \in Windows
  PROVE  LET h == IF s.win[w].visible THEN Hide(s, w) ELSE s
         IN  Faces(s, h) /\ Shaped(h)
BY HideFaces, FacesSelf DEF Faces

(* Visible, and at another place of the list.                              *)
LEMMA EnteringFaces ==
  ASSUME NEW s, Shaped(s), NEW w \in Windows
  PROVE  LET q == unlistwin([s EXCEPT !.win[w].visible = TRUE], w)
         IN  /\ Faces(s, AtHead(q, w)) /\ Shaped(AtHead(q, w))
             /\ \A prev : Faces(s, AtWin(q, w, prev)) /\ Shaped(AtWin(q, w, prev))
<1> DEFINE a == [s EXCEPT !.win[w].visible = TRUE]
           q == unlistwin(a, w)
<1>1. Faces(s, a) /\ Shaped(a)
  BY FieldFaces DEF Faces
<1> HIDE DEF a
<1>2. Faces(a, q) /\ Shaped(q)
  BY <1>1, ListFaces DEF unlistwin, Faces
<1> HIDE DEF q
<1>3. Faces(q, AtHead(q, w)) /\ Shaped(AtHead(q, w))
  BY <1>2, ListFaces DEF AtHead, Faces
<1>4. ASSUME NEW prev
      PROVE  Faces(q, AtWin(q, w, prev)) /\ Shaped(AtWin(q, w, prev))
  <2>1. CASE prev = None
    BY <1>3, <2>1 DEF AtWin
  <2>2. CASE prev # None
    BY <1>2, <2>2, ListFaces DEF AtWin, Faces
  <2> QED BY <2>1, <2>2
<1>5. Faces(s, q)
  BY <1>1, <1>2, FacesTwice
<1>6. Faces(s, AtHead(q, w))
  BY <1>3, <1>5, FacesTwice
<1>7. \A prev : Faces(s, AtWin(q, w, prev))
  BY <1>4, <1>5, FacesTwice
<1> QED BY <1>3, <1>4, <1>6, <1>7 DEF q, a

(* The operations that show a window.                                      *)
LEMMA ShowingFaces ==
  ASSUME NEW s, Shaped(s), NEW w \in Windows
  PROVE  /\ Faces(s, Show(s, w)) /\ Faces(s, ShowOnTop(s, w))
         /\ \A prev : Faces(s, ShowBeneath(s, w, prev))
<1> DEFINE h == IF s.win[w].visible THEN Hide(s, w) ELSE s
<1>1. Faces(s, h) /\ Shaped(h)
  BY HiddenFaces
<1>2. ASSUME NEW a, NEW b, Faces(s, a), Faces(a, b), Shaped(b)
      PROVE  /\ Faces(s, updatescreen(updatewinmem(b, w), w, TRUE))
             /\ Faces(s, updatescreen(screen2win(b, w), w, TRUE))
  <2>1. Faces(s, b)
    BY <1>2, FacesTwice
  <2> DEFINE c == updatewinmem(b, w)   d == screen2win(b, w)
  <2>2. Faces(b, c) /\ Shaped(c) /\ Faces(b, d) /\ Shaped(d)
    BY <1>2, MemFaces, ScreenFaces DEF Faces
  <2> HIDE DEF c, d
  <2>3. Faces(c, updatescreen(c, w, TRUE)) /\ Faces(d, updatescreen(d, w, TRUE))
    BY <2>2, SendingFaces
  <2>4. Faces(s, c) /\ Faces(s, d)
    BY <2>1, <2>2, FacesTwice
  <2>5. Faces(s, updatescreen(c, w, TRUE)) /\ Faces(s, updatescreen(d, w, TRUE))
    BY <2>3, <2>4, FacesTwice
  <2> QED BY <2>5 DEF c, d
<1>3. Faces(s, Show(s, w))
  <2>1. CASE s.win[w].visible
    BY <2>1, FacesSelf DEF Show
  <2>2. CASE ~s.win[w].visible
    <3> DEFINE b == AtHead(unlistwin([s EXCEPT !.win[w].visible = TRUE], w), w)
    <3>1. Faces(s, b) /\ Shaped(b) /\ Faces(s, s)
      BY EnteringFaces, FacesSelf
    <3>2. Show(s, w) = updatescreen(updatewinmem(b, w), w, TRUE)
      BY <2>2 DEF Show
    <3> HIDE DEF b
    <3> QED BY <1>2, <3>1, <3>2
  <2> QED BY <2>1, <2>2
<1>4. Faces(s, ShowOnTop(s, w))
  <2> DEFINE b == AtHead(unlistwin([h EXCEPT !.win[w].visible = TRUE], w), w)
  <2>1. ShowOnTop(s, w) = updatescreen(screen2win(b, w), w, TRUE)
    BY DEF ShowOnTop
  <2> HIDE DEF h
  <2>2. Faces(h, b) /\ Shaped(b)
    BY <1>1, EnteringFaces
  <2> HIDE DEF b
  <2> QED BY <1>1, <1>2, <2>1, <2>2
<1>5. ASSUME NEW prev PROVE Faces(s, ShowBeneath(s, w, prev))
  <2> DEFINE b == AtWin(unlistwin([h EXCEPT !.win[w].visible = TRUE], w), w, prev)
  <2>1. ShowBeneath(s, w, prev) = updatescreen(updatewinmem(b, w), w, TRUE)
    BY DEF ShowBeneath
  <2> HIDE DEF h
  <2>2. Faces(h, b) /\ Shaped(b)
    BY <1>1, EnteringFaces
  <2> HIDE DEF b
  <2> QED BY <1>1, <1>2, <2>1, <2>2
<1> QED BY <1>3, <1>4, <1>5

(* The frame is painted: nothing else of the text changes.                 *)
LEMMA PaintOthers ==
  ASSUME NEW s, Shaped(s), NEW w \in Windows
  PROVE  /\ Others(s, paint_internal(s, w), w)
         /\ \A k \in DOMAIN s.win[w].body :
              (w \in Framed => k \notin Border(s.win[w])) =>
                paint_internal(s, w).win[w].body[k] = s.win[w].body[k]
<1>1. CASE w \notin Framed
  BY <1>1, FacesSelf, FacesAreOthers DEF paint_internal
<1>2. CASE w \in Framed
  <2> DEFINE v == s.win[w]
             border == Border(v)
             lines == Row(v, 0) \cup Row(v, v.wheight - 1)
             sides == border \ lines
             q == Put(s, w, border, Frame)
             q2 == updatescreenchar(q, w, sides)
             r == updatescreenpiece(q2, w, lines)
  <2>1. paint_internal(s, w) = r
    BY <1>2 DEF paint_internal
  <2> HIDE DEF border, lines, sides
  <2>2. /\ Others(s, q, w) /\ Shaped(q)
        /\ q.win[w].body = [k \in DOMAIN v.body |-> IF k \in border THEN Frame ELSE v.body[k]]
    BY PutOthers DEF Others
  <2> HIDE DEF q
  <2>3. Faces(q, q2) /\ Shaped(q2)
    BY <2>2, SendingFaces DEF Faces
  <2> HIDE DEF q2
  <2>4. Faces(q2, r)
    BY <2>3, SendingFaces
  <2> HIDE DEF r
  <2>5. Faces(q, r)
    BY <2>3, <2>4, FacesTwice
  <2>6. Others(s, r, w)
    BY <2>2, <2>5, FacesAreOthers, OthersTwice
  <2>7. r.win[w].body = q.win[w].body
    BY <2>5 DEF Faces, SameFace
  <2> QED BY <1>2, <2>1, <2>2, <2>6, <2>7 DEF v, border
<1> QED BY <1>1, <1>2

-----------------------------------------------------------------------------
(* The calls that place windows change no text at all.                     *)
LEMMA PlacingFaces ==
  ASSUME Shaped(t), NEW w \in Windows,
         \/ twShowWin(w) \/ twShowWinOnTop(w) \/ twHideWin(w)
         \/ \E d \in Steps[w] : twMoveWin(w, d)
         \/ twCentredWin(w)
  PROVE  Faces(t, t')
<1> DEFINE h == IF t.win[w].visible THEN Hide(t, w) ELSE t
<1>1. Faces(t, h) /\ Shaped(h)
  BY HiddenFaces
<1>2. ASSUME NEW x, NEW y
      PROVE  LET m == [h EXCEPT !.win[w].X1 = x, !.win[w].Y1 = y]
             IN  /\ Faces(t, m) /\ Faces(t, Show(m, w))
                 /\ \A prev : Faces(t, ShowBeneath(m, w, prev))
  <2> HIDE DEF h
  <2> DEFINE a == [h EXCEPT !.win[w].X1 = x]
             m == [h EXCEPT !.win[w].X1 = x, !.win[w].Y1 = y]
  <2>1. m = [a EXCEPT !.win[w].Y1 = y]
    BY <1>1 DEF Shaped, Parts, Record
  <2>2. Faces(h, a) /\ Shaped(a)
    BY <1>1, FieldFaces DEF Faces
  <2> HIDE DEF a
  <2>3. Faces(a, m) /\ Shaped(m)
    BY <2>1, <2>2, FieldFaces DEF Faces
  <2> HIDE DEF m
  <2>4. Faces(t, m)
    BY <1>1, <2>2, <2>3, FacesTwice
  <2>5. Faces(m, Show(m, w)) /\ \A prev : Faces(m, ShowBeneath(m, w, prev))
    BY <2>3, ShowingFaces
  <2> QED BY <2>4, <2>5, FacesTwice DEF m
<1>3. CASE twShowWin(w) \/ twShowWinOnTop(w) \/ twHideWin(w)
  BY <1>3, ShowingFaces, HideFaces DEF twShowWin, twShowWinOnTop, twHideWin
<1>4. CASE \E d \in Steps[w] : twMoveWin(w, d)
  <2>1. PICK d \in Steps[w] : twMoveWin(w, d)
    BY <1>4
  <2> DEFINE x == h.win[w].X1 + d[1]
             y == h.win[w].Y1 + d[2]
             moved == [h EXCEPT !.win[w].X1 = @ + d[1], !.win[w].Y1 = @ + d[2]]
  <2>2. t' = IF t.win[w].visible THEN ShowBeneath(moved, w, prevwin(t, w)) ELSE moved
    BY <2>1 DEF twMoveWin
  <2> HIDE DEF h
  <2>3. moved = [h EXCEPT !.win[w].X1 = x, !.win[w].Y1 = y]
    BY <1>1 DEF Shaped, Parts
  <2> HIDE DEF x, y, moved
  <2> QED BY <1>2, <2>2, <2>3
<1>5. CASE twCentredWin(w)
  <2> DEFINE x == (Width - t.win[w].wwidth) \div 2
             y == (Height - t.win[w].wheight) \div 2
             moved == [h EXCEPT !.win[w].X1 = x, !.win[w].Y1 = y]
  <2>1. t' = IF t.win[w].visible THEN Show(moved, w) ELSE moved
    BY <1>5 DEF twCentredWin
  <2> HIDE DEF h, x, y
  <2>2. Faces(t, moved) /\ Faces(t, Show(moved, w))
    BY <1>2
  <2> HIDE DEF moved
  <2> QED BY <2>1, <2>2
<1> QED BY <1>3, <1>4, <1>5

(* The calls that redraw a window change no text but the frame.            *)
LEMMA RedrawingOthers ==
  ASSUME Shaped(t), NEW w \in Windows, twSetFrame(w) \/ twFreezeWin(w) \/ Refresh(w)
  PROVE  Others(t, t', w)
<1>1. CASE twSetFrame(w)
  BY <1>1, PaintOthers DEF twSetFrame
<1>2. CASE twFreezeWin(w)
  BY <1>2, FieldFaces, FacesAreOthers DEF twFreezeWin
<1>3. CASE Refresh(w)
  <2> DEFINE q == Thawed(w)
  <2>1. Faces(t, q) /\ Shaped(q)
    BY FieldFaces DEF Thawed, Faces
  <2> HIDE DEF q
  <2>2. /\ \A cells : Faces(q, updatescreenpiece(q, w, cells))
        /\ \A full_area : Faces(q, updatescreen(q, w, full_area))
    BY <2>1, SendingFaces
  <2>3. Faces(q, t')
    BY <1>3, <2>2 DEF Refresh, twRefreshLine, twRefreshPiece, twRefreshWin, twRefreshFullWin, q
  <2> QED BY <2>1, <2>3, FacesTwice, FacesAreOthers
<1> QED BY <1>1, <1>2, <1>3

(* Something is put and sent.                                              *)
LEMMA PuttingOthers ==
  ASSUME NEW s, Shaped(s), NEW w \in Windows, NEW cells, NEW ch, NEW sent
  PROVE  /\ Others(s, updatescreenpiece(Put(s, w, cells, ch), w, sent), w)
         /\ Others(s, updatescreenchar(Put(s, w, cells, ch), w, sent), w)
<1> DEFINE q == Put(s, w, cells, ch)
<1>1. Others(s, q, w) /\ Shaped(q)
  BY PutOthers DEF Others
<1> HIDE DEF q
<1>2. Faces(q, updatescreenpiece(q, w, sent)) /\ Faces(q, updatescreenchar(q, w, sent))
  BY <1>1, SendingFaces
<1> QED BY <1>1, <1>2, FacesAreOthers, OthersTwice DEF q

(* The rows of a window are scrolled.                                      *)
LEMMA ScrollingOthers ==
  ASSUME Shaped(t), NEW w \in Windows, NEW rows, NEW from, t' = Scrolled(w, rows, from)
  PROVE  Others(t, t', w)
<1> DEFINE v == t.win[w]
           bd == [k \in DOMAIN v.body |->
                    IF (k \div v.wwidth) \in rows THEN v.body[k + from * v.wwidth]
                    ELSE v.body[k]]
           n == [v EXCEPT !.body = bd]
           q == SetWin(t, w, n)
           cells == {k \in Cells(v) : (k \div v.wwidth) \in rows}
<1>1. t' = updatescreenpiece(q, w, cells)
  <2>1. [t EXCEPT !.win[w].body = [k \in DOMAIN @ |->
           IF (k \div v.wwidth) \in rows THEN @[k + from * v.wwidth] ELSE @[k]]] = q
    BY DEF SetWin, Shaped, Parts
  <2> HIDE DEF q
  <2> QED BY <2>1 DEF Scrolled
<1>2. Record(v)
  BY DEF Shaped
<1> HIDE DEF v, bd, cells
<1>3. Record(n) /\ SameSize(n, v)
  BY <1>2, TextIsApart
<1> HIDE DEF n
<1>4. Others(t, q, w) /\ Shaped(q)
  BY <1>3, SetOthers DEF v, Others
<1> HIDE DEF q
<1>5. Faces(q, t')
  BY <1>1, <1>4, SendingFaces
<1> QED BY <1>4, <1>5, FacesAreOthers, OthersTwice

(* What holds while twPutS goes over a string.                             *)
Going(w, c) == /\ c = [s |-> c.s, x |-> c.x, y |-> c.y, usx |-> c.usx]
               /\ c.y \in Int
               /\ Others(t, c.s, w)

(* A character of the string, or a new line.                               *)
LEMMA TurnGoes ==
  ASSUME NEW w \in Windows, NEW v, v.wheight \in Int, NEW c, Going(w, c), NEW newline \in BOOLEAN
  PROVE  Going(w, PutChars(w, v, c, newline))
<1>1. CASE newline = TRUE
  <2> DEFINE n == NewLine(w, v, c)
             q == updatescreenpiece(c.s, w, Line(v, c))
             r == [n EXCEPT !.s = q, !.usx = n.x]
  <2>1. n = [s |-> n.s, x |-> n.x, y |-> n.y, usx |-> n.usx] /\ n.y \in Int
    BY NewLineIs DEF Going
  <2>2. PutChars(w, v, c, newline) = r
    BY <1>1 DEF PutChars
  <2>3. Shaped(c.s) /\ Others(t, c.s, w)
    BY DEF Going, Others
  <2>4. Others(c.s, q, w)
    BY <2>3, SendingFaces, FacesAreOthers
  <2>5. Others(t, q, w)
    BY <2>3, <2>4, OthersTwice
  <2> HIDE DEF n, q
  <2>6. r = [s |-> q, x |-> n.x, y |-> n.y, usx |-> n.x]
    <3> DEFINE r1 == [n EXCEPT !.s = q]
    <3>1. r1 = [s |-> q, x |-> n.x, y |-> n.y, usx |-> n.usx]
      BY <2>1
    <3>2. r = [r1 EXCEPT !.usx = n.x]
      BY <2>1
    <3> HIDE DEF r1
    <3> QED BY <3>1, <3>2
  <2> HIDE DEF r
  <2>7. r.s = q /\ r.x = n.x /\ r.y = n.y /\ r.usx = n.x
    BY <2>6
  <2> QED BY <2>1, <2>2, <2>5, <2>6, <2>7 DEF Going
<1>2. CASE newline = FALSE
  <2> DEFINE k == c.x + c.y * v.wwidth
             q == Put(c.s, w, {k}, w)
             r == [c EXCEPT !.s = q, !.x = @ + 1]
  <2>1. PutChars(w, v, c, newline) = IF c.x < v.wwidth /\ k \in Client(w, v) THEN r ELSE c
    BY <1>2 DEF PutChars
  <2>2. c = [s |-> c.s, x |-> c.x, y |-> c.y, usx |-> c.usx] /\ c.y \in Int
    BY DEF Going
  <2>3. Shaped(c.s) /\ Others(t, c.s, w)
    BY DEF Going, Others
  <2>4. Others(c.s, q, w)
    BY <2>3, PutOthers
  <2>5. Others(t, q, w)
    BY <2>3, <2>4, OthersTwice
  <2> HIDE DEF k, q
  <2>6. r = [s |-> q, x |-> c.x + 1, y |-> c.y, usx |-> c.usx]
    <3> DEFINE r1 == [c EXCEPT !.s = q]
    <3>1. r1 = [s |-> q, x |-> c.x, y |-> c.y, usx |-> c.usx]
      BY <2>2
    <3>2. r = [r1 EXCEPT !.x = c.x + 1]
      BY <2>2
    <3> HIDE DEF r1
    <3> QED BY <3>1, <3>2
  <2> HIDE DEF r
  <2>7. r.s = q /\ r.x = c.x + 1 /\ r.y = c.y /\ r.usx = c.usx
    BY <2>6
  <2>8. Going(w, r)
    BY <2>2, <2>5, <2>6, <2>7 DEF Going
  <2> QED BY <2>1, <2>8
<1> QED BY <1>1, <1>2

(* All of them.                                                            *)
LEMMA TurnsGo ==
  ASSUME NEW w \in Windows, NEW v, v.wheight \in Int, NEW str, NEW first, Going(w, first),
         NEW n \in Nat, \A i \in 1 .. n : str[i] \in BOOLEAN,
         NEW g, Turns(g, w, v, str, first, n)
  PROVE  Going(w, g[n])
<1> DEFINE Bad == {m \in 0 .. n : ~Going(w, g[m])}
<1>1. Bad = {}
  <2> SUFFICES ASSUME Bad # {} PROVE FALSE
    OBVIOUS
  <2>1. PICK m \in Bad : \A y \in Bad : ~(<<y, m>> \in OpToRel(<, Nat))
    <3>1. Bad \subseteq Nat
      OBVIOUS
    <3> HIDE DEF Bad
    <3> QED BY <3>1, NatLessThanWellFounded, WFMin
  <2>2. m \in 0 .. n /\ ~Going(w, g[m])
    OBVIOUS
  <2>3. m # 0
    <3>1. g[0] = first
      BY DEF Turns
    <3> QED BY <2>2, <3>1
  <2>4. m - 1 \in 0 .. n /\ <<m - 1, m>> \in OpToRel(<, Nat) /\ m \in 1 .. n
    BY <2>2, <2>3 DEF OpToRel
  <2>5. Going(w, g[m - 1])
    BY <2>1, <2>4
  <2>6. g[m] = PutChars(w, v, g[m - 1], str[m])
    BY <2>2, <2>3 DEF Turns
  <2>7. str[m] \in BOOLEAN
    BY <2>4
  <2>8. Going(w, PutChars(w, v, g[m - 1], str[m]))
    <3> DEFINE c == g[m - 1]   flag == str[m]
    <3>1. Going(w, c) /\ flag \in BOOLEAN
      BY <2>5, <2>7
    <3> HIDE DEF c, flag
    <3>2. Going(w, PutChars(w, v, c, flag))
      BY <3>1, TurnGoes
    <3> QED BY <3>2 DEF c, flag
  <2> QED BY <2>2, <2>6, <2>8
<1> QED BY <1>1

(* twPutS.                                                                 *)
LEMMA PutSOthers ==
  ASSUME Sound(t, None), Shaped(t), NEW w \in Windows, NEW k, NEW str \in Strings,
         twPutS(w, k, str)
  PROVE  Others(t, t', w)
<1> DEFINE v == t.win[w]
           first == [s |-> t, x |-> k % v.wwidth, y |-> k \div v.wwidth,
                     usx |-> k % v.wwidth]
           n == Len(str)
           Is(g) == Turns(g, w, v, str, first, n)
           end == (CHOOSE g : Is(g))[n]
<1>1. Listed(t, w) /\ k \in Client(w, v) /\ t' = updatescreenpiece(end.s, w, Line(v, end))
  BY DEF twPutS, Turns
<1>2. str \in Seq(BOOLEAN)
  BY TwinAssumption
<1>3. n \in Nat /\ \A i \in 1 .. n : str[i] \in BOOLEAN
  BY <1>2
<1> HIDE DEF n
<1>4. v.wwidth \in Nat \ {0} /\ v.wheight \in Nat \ {0} /\ k \in Cells(v)
  <2>1. Window(v) /\ k \in Cells(v)
    BY <1>1 DEF Sound, State, Client
  <2> HIDE DEF v
  <2> QED BY <2>1 DEF Window
<1> HIDE DEF v
<1>5. k \div v.wwidth \in Int
  BY <1>4, CellIs
<1>6. Going(w, first)
  <2> DEFINE x == k % v.wwidth   y == k \div v.wwidth
  <2> HIDE DEF x, y
  <2>1. first = [s |-> t, x |-> x, y |-> y, usx |-> x]
    BY DEF x, y
  <2> HIDE DEF first
  <2>2. first.s = t /\ first.x = x /\ first.y = y /\ first.usx = x
    BY <2>1
  <2>3. first = [s |-> first.s, x |-> first.x, y |-> first.y, usx |-> first.usx]
    BY <2>1, <2>2
  <2>4. Others(t, t, w)
    BY FacesSelf, FacesAreOthers
  <2> QED BY <1>5, <2>2, <2>3, <2>4 DEF Going, y
<1>7. Going(w, end)
  <2> HIDE DEF first
  <2>1. \E g : Is(g)
    BY <1>3, TurnsExist
  <2> DEFINE f == CHOOSE g : Is(g)
  <2>2. Is(f)
    <3> HIDE DEF Is
    <3> QED BY <2>1
  <2> HIDE DEF f
  <2>3. v.wheight \in Int
    BY <1>4
  <2>4. Going(w, f[n])
    BY <1>3, <1>6, <2>2, <2>3, TurnsGo
  <2> QED BY <2>4 DEF f
<1> HIDE DEF end, first
<1>8. Others(t, end.s, w) /\ Shaped(end.s)
  BY <1>7 DEF Going, Others
<1>9. Faces(end.s, t')
  BY <1>1, <1>8, SendingFaces
<1> QED BY <1>8, <1>9, FacesAreOthers, OthersTwice

(* Every call that writes text.                                            *)
LEMMA WritingOthers ==
  ASSUME Sound(t, None), Shaped(t), NEW w \in Windows, Write(w)
  PROVE  Others(t, t', w)
<1>1. CASE twClearWin(w)
  BY <1>1, PuttingOthers DEF twClearWin
<1>2. ASSUME NEW k, twPutChar(w, k) PROVE Others(t, t', w)
  BY <1>2, PuttingOthers DEF twPutChar
<1>3. ASSUME NEW k, twClrEOL(w, k) PROVE Others(t, t', w)
  BY <1>3, PuttingOthers DEF twClrEOL
<1>4. ASSUME NEW k, NEW len, twDirectWrite(w, k, len) PROVE Others(t, t', w)
  BY <1>4, PuttingOthers DEF twDirectWrite
<1>5. ASSUME NEW k, NEW str \in Strings, twPutS(w, k, str) PROVE Others(t, t', w)
  BY <1>5, PutSOthers
<1>6. ASSUME NEW ypos, twScrollWinUp(w, ypos) \/ twScrollWinDn(w, ypos)
      PROVE  Others(t, t', w)
  BY <1>6, ScrollingOthers DEF twScrollWinUp, twScrollWinDn
<1> QED BY <1>1, <1>2, <1>3, <1>4, <1>5, <1>6, Zenon DEF Write

-----------------------------------------------------------------------------
(* The calls that change the size of a window: every other keeps its text. *)
Apart(s, r, w) == Shaped(r) /\ \A u \in Windows \ {w} : SameFace(r.win[u], s.win[u])

(* One step after the other.                                               *)
LEMMA ApartTwice ==
  ASSUME NEW s, NEW q, NEW r, NEW w, Apart(s, q, w), Apart(q, r, w)
  PROVE  Apart(s, r, w)
BY DEF Apart, SameFace

(* What keeps more keeps that.                                             *)
LEMMA OthersAreApart ==
  ASSUME NEW s, NEW r, NEW w \in Windows, Faces(s, r) \/ Others(s, r, w)
  PROVE  Apart(s, r, w)
BY DEF Faces, Others, Apart

(* A window is replaced.                                                   *)
LEMMA SetApart ==
  ASSUME NEW s, Shaped(s), NEW w \in Windows, NEW n, Record(n)
  PROVE  Apart(s, SetWin(s, w, n), w) /\ SetWin(s, w, n).win[w] = n
<1> DEFINE r == SetWin(s, w, n)
<1>1. /\ Parts(r) /\ r.win[w] = n
      /\ \A u \in Windows \ {w} : r.win[u] = s.win[u]
  BY SetWinIs DEF Shaped
<1> HIDE DEF r
<1>2. Shaped(r)
  BY <1>1 DEF Shaped
<1> QED BY <1>1, <1>2 DEF Apart, SameFace, r

(* twCreateWin.                                                            *)
LEMMA CreateApart ==
  ASSUME Shaped(t), NEW w \in Windows, NEW place, NEW shape, NEW visible \in BOOLEAN,
         twCreateWin(w, place, shape, visible)
  PROVE  Apart(t, t', w) /\ ~Listed(t, w)
<1> DEFINE a == shape[1]
           b == shape[2]
           n == [X1 |-> place[1], Y1 |-> place[2], wwidth |-> a, wheight |-> b,
                 visible |-> FALSE, enabled |-> TRUE,
                 body |-> [k \in 0 .. a * b - 1 |-> Filler],
                 saved |-> [k \in 0 .. a * b - 1 |-> Junk], owed |-> {}]
           made == SetWin(t, w, n)
           r == AtHead(made, w)
           drawn == paint_internal(r, w)
<1>1. ~Listed(t, w) /\ t' = IF visible THEN Show(drawn, w) ELSE drawn
  BY DEF twCreateWin, SetWin
<1>2. Record(n)
  BY DEF Record
<1> HIDE DEF n
<1>3. Apart(t, made, w) /\ Shaped(made)
  BY <1>2, SetApart DEF Apart
<1> HIDE DEF made
<1>4. Faces(made, r) /\ Shaped(r)
  BY <1>3, ListFaces DEF AtHead, Faces
<1> HIDE DEF r
<1>5. Others(r, drawn, w) /\ Shaped(drawn)
  BY <1>4, PaintOthers DEF Others
<1> HIDE DEF drawn
<1>6. Apart(t, drawn, w)
  BY <1>3, <1>4, <1>5, OthersAreApart, ApartTwice
<1>7. Apart(t, Show(drawn, w), w)
  BY <1>5, <1>6, ShowingFaces, OthersAreApart, ApartTwice
<1> QED BY <1>1, <1>6, <1>7

(* twDestroyWin.                                                           *)
LEMMA DestroyApart ==
  ASSUME Shaped(t), NEW w \in Windows, twDestroyWin(w)
  PROVE  Apart(t, t', w) /\ t'.win[w] = NoWindow
<1> DEFINE h == Hide(t, w)
           q == unlistwin(h, w)
<1>1. t' = SetWin(q, w, NoWindow)
  BY DEF twDestroyWin, SetWin
<1>2. Faces(t, h) /\ Shaped(h)
  BY HideFaces DEF Faces
<1> HIDE DEF h
<1>3. Faces(h, q) /\ Shaped(q)
  BY <1>2, ListFaces DEF unlistwin, Faces
<1> HIDE DEF q
<1>4. Record(NoWindow)
  BY DEF Record, NoWindow
<1>5. Apart(q, t', w) /\ t'.win[w] = NoWindow
  BY <1>1, <1>3, <1>4, SetApart
<1> QED BY <1>2, <1>3, <1>5, OthersAreApart, ApartTwice

(* twResizeWin: the window has its new size, and its client area what the  *)
(* loops left there.                                                       *)
LEMMA ResizeApart ==
  ASSUME Shaped(t), NEW w \in Windows, NEW shape, twResizeWin(w, shape),
         shape[1] \in Nat \ {0}, shape[2] \in Nat \ {0}
  PROVE  LET v == t.win[w]  n == t'.win[w]
         IN  /\ Apart(t, t', w)
             /\ n.wwidth = shape[1] /\ n.wheight = shape[2]
             /\ \A k \in Client(w, n) :
                  n.body[k] = ResizedBody(w, v, n.wwidth, n.wheight)[k]
<1> DEFINE v == t.win[w]
           h == IF t.win[w].visible THEN Hide(t, w) ELSE t
           a == shape[1]
           b == shape[2]
           bd == ResizedBody(w, v, a, b)
           sv == [k \in 0 .. a * b - 1 |-> Junk]
           none == {}
           m == Resized(h.win[w], a, b, bd, sv, none)
           sized == SetWin(h, w, m)
           drawn == paint_internal(sized, w)
           prev == prevwin(t, w)
           n == t'.win[w]
<1>1. Faces(t, h) /\ Shaped(h)
  BY HiddenFaces
<1>2. t' = IF v.visible THEN ShowBeneath(drawn, w, prev) ELSE drawn
  <2>1. t' = IF v.visible
               THEN ShowBeneath(paint_internal(SizeSet(h, w, a, b, bd, sv, none), w), w, prev)
               ELSE paint_internal(SizeSet(h, w, a, b, bd, sv, none), w)
    BY DEF twResizeWin, SizeSet
  <2>2. Record(h.win[w]) /\ Parts(h)
    BY <1>1 DEF Shaped
  <2> HIDE DEF h, bd, sv, none, v, prev
  <2>3. SizeSet(h, w, a, b, bd, sv, none) = sized
    BY <2>2, SizeIs
  <2> QED BY <2>1, <2>3
<1>3. Array(bd, a * b)
  BY BodyIsArray
<1> HIDE DEF v, h, a, b, bd, sv, none, prev
<1>4. Record(m) /\ m.wwidth = a /\ m.wheight = b /\ m.body = bd
  BY DEF Resized, Record
<1> HIDE DEF m
<1>5. Apart(h, sized, w) /\ sized.win[w] = m /\ Shaped(sized)
  BY <1>1, <1>4, SetApart DEF Apart
<1> HIDE DEF sized
<1>6. /\ Others(sized, drawn, w) /\ Shaped(drawn)
      /\ \A k \in DOMAIN bd : (w \in Framed => k \notin Border(m)) => drawn.win[w].body[k] = bd[k]
  BY <1>4, <1>5, PaintOthers DEF Others
<1> HIDE DEF drawn
<1>7. Faces(drawn, t')
  BY <1>2, <1>6, ShowingFaces, FacesSelf
<1>8. Apart(t, t', w)
  BY <1>1, <1>5, <1>6, <1>7, OthersAreApart, ApartTwice
<1>9. SameFace(n, drawn.win[w]) /\ SameSize(drawn.win[w], m)
  BY <1>5, <1>6, <1>7 DEF Faces, Others
<1> HIDE DEF n
<1>10. n.wwidth = a /\ n.wheight = b
  BY <1>4, <1>9 DEF SameFace, SameSize
<1>11. ASSUME NEW k \in Client(w, n)
       PROVE  n.body[k] = bd[k]
  <2>1. DOMAIN bd = 0 .. a * b - 1
    BY <1>3 DEF Array
  <2>2. Cells(n) = 0 .. a * b - 1 /\ Border(n) = Border(m)
    BY <1>4, <1>10 DEF Cells, Border
  <2>3. k \in DOMAIN bd /\ (w \in Framed => k \notin Border(m))
    BY <2>1, <2>2 DEF Client
  <2> QED BY <1>6, <1>9, <2>3 DEF SameFace
<1>12. \A k \in Client(w, n) : n.body[k] = ResizedBody(w, v, n.wwidth, n.wheight)[k]
  BY <1>10, <1>11 DEF bd
<1> QED BY <1>8, <1>10, <1>12 DEF n, v, a, b

-----------------------------------------------------------------------------
(* What a call does to the windows it is not about, and to its own.        *)
LEMMA CallsApart ==
  ASSUME Sound(t, None), Shaped(t), Next
  PROVE  \E w \in Windows :
           /\ Apart(t, t', w)
           /\ \/ ~Listed(t, w)
              \/ t'.win[w] = NoWindow
              \/ SameSize(t'.win[w], t.win[w])
              \/ \E shape \in Shapes[w] : twResizeWin(w, shape)
<1>1. PICK w \in Windows :
        \/ \E place \in Places[w], shape \in Shapes[w], visible \in BOOLEAN :
             twCreateWin(w, place, shape, visible)
        \/ twDestroyWin(w)
        \/ twShowWin(w) \/ twShowWinOnTop(w) \/ twHideWin(w)
        \/ \E d \in Steps[w] : twMoveWin(w, d)
        \/ \E shape \in Shapes[w] : twResizeWin(w, shape)
        \/ twCentredWin(w) \/ twSetFrame(w) \/ twFreezeWin(w) \/ Refresh(w) \/ Write(w)
  BY Zenon DEF Next
<1>2. CASE \E place \in Places[w], shape \in Shapes[w], visible \in BOOLEAN :
             twCreateWin(w, place, shape, visible)
  <2>1. PICK place \in Places[w], shape \in Shapes[w], visible \in BOOLEAN :
          twCreateWin(w, place, shape, visible)
    BY <1>2
  <2> QED BY <2>1, CreateApart
<1>3. CASE twDestroyWin(w)
  BY <1>3, DestroyApart
<1>4. CASE \/ twShowWin(w) \/ twShowWinOnTop(w) \/ twHideWin(w)
           \/ \E d \in Steps[w] : twMoveWin(w, d)
           \/ twCentredWin(w)
  BY <1>4, PlacingFaces, OthersAreApart, FacesAreOthers DEF Others
<1>5. CASE twSetFrame(w) \/ twFreezeWin(w) \/ Refresh(w)
  BY <1>5, RedrawingOthers, OthersAreApart DEF Others
<1>6. CASE Write(w)
  BY <1>6, WritingOthers, OthersAreApart DEF Others
<1>7. CASE \E shape \in Shapes[w] : twResizeWin(w, shape)
  <2>1. PICK shape \in Shapes[w] : twResizeWin(w, shape)
    BY <1>7
  <2> QED BY <1>7, <2>1, ResizeApart, ShapesAre
<1> QED BY <1>1, <1>2, <1>3, <1>4, <1>5, <1>6, <1>7, Zenon

(* Every window, listed or not, has all its fields.                        *)
LEMMA AllShaped == Spec => []Shaped(t)
<1>1. Init => Shaped(t)
  BY DEF Init, Shaped, Parts, Record, NoWindow
<1>2. Sound(t, None) /\ Shaped(t) /\ [Next]_t => Shaped(t)'
  <2> SUFFICES ASSUME Sound(t, None), Shaped(t), [Next]_t PROVE Shaped(t')
    BY DEF Shaped, Parts, Record, Screen
  <2>1. CASE Next
    BY <2>1, CallsApart DEF Apart
  <2>2. CASE UNCHANGED t
    BY <2>2
  <2> QED BY <2>1, <2>2
<1> QED BY <1>1, <1>2, Invariance, PTL DEF Spec

(* A window that is resized keeps the text that fits into it and is filled *)
(* elsewhere, and no other call changes the size of a window.              *)
THEOREM TextKept == Spec => ResizeKeepsText
<1>1. /\ Sound(t, None) /\ Sound(t, None)' /\ Shaped(t) /\ [Next]_t
      => [\A w \in Range(t.head) \cap Range(t'.head) :
            LET v == t.win[w]  n == t'.win[w]
            IN  <<v.wwidth, v.wheight>> # <<n.wwidth, n.wheight>> => ResizedWell(w, v, n)]_t
  <2> SUFFICES ASSUME Sound(t, None), Sound(t', None), Shaped(t), Next,
                      NEW u \in Range(t.head) \cap Range(t'.head),
                      ~SameSize(t'.win[u], t.win[u])
               PROVE  ResizedWell(u, t.win[u], t'.win[u])
    BY DEF Sound, State, Parts, List, Listed, Range, Window, Record, Cells, Chain, Reaches,
           Covering, Covers, Link, Beneath, Bottom, Higher, Index, SelectInSeq, Reads, Under,
           CellAt, Frames, FrameWhole, Border, Screen, SameSize
  <2>1. Listed(t, u) /\ Listed(t', u)
    BY DEF Listed
  <2>2. u \in Windows /\ Window(t.win[u]) /\ Window(t'.win[u])
    BY <2>1, IndexOf DEF Sound, State
  <2>3. PICK w \in Windows :
           /\ Apart(t, t', w)
           /\ \/ ~Listed(t, w)
              \/ t'.win[w] = NoWindow
              \/ SameSize(t'.win[w], t.win[w])
              \/ \E shape \in Shapes[w] : twResizeWin(w, shape)
    BY CallsApart
  <2>4. u = w
    BY <2>2, <2>3 DEF Apart, SameFace, SameSize
  <2>5. t'.win[w] # NoWindow
    BY <2>2, <2>4 DEF Window, NoWindow
  <2>6. PICK shape \in Shapes[w] : twResizeWin(w, shape)
    BY <2>1, <2>3, <2>4, <2>5
  <2> DEFINE v == t.win[w]  n == t'.win[w]
  <2>7. \A k \in Client(w, n) : n.body[k] = ResizedBody(w, v, n.wwidth, n.wheight)[k]
    BY <2>6, ShapesAre, ResizeApart
  <2>8. /\ v.wwidth \in Nat \ {0} /\ v.wheight \in Nat \ {0}
        /\ n.wwidth \in Nat \ {0} /\ n.wheight \in Nat \ {0}
    BY <2>2, <2>4 DEF Window
  <2> HIDE DEF v, n
  <2>9. ResizedWell(w, v, n)
    BY <2>7, <2>8, BodyResizedWell
  <2> QED BY <2>4, <2>9 DEF v, n
<1> QED BY <1>1, Invariance, AllShaped, PTL DEF Spec, ResizeKeepsText

=============================================================================
