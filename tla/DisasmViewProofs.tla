-------------------------- MODULE DisasmViewProofs --------------------------
(***************************************************************************)
(* What is proved of the disassembler view for every file, decoder, window *)
(* and size of the guide: the position stays in the file and the guide on  *)
(* the screen; PgUp takes back PgDn; and, in a window of at least three    *)
(* lines and a file of more than two instructions of the greatest length,  *)
(* the guide names the jumps that are shown, the keys lead where they do,  *)
(* and Up takes back Down.                                                 *)
(***************************************************************************)
EXTENDS DisasmView, TLAPS, SequenceTheorems, FiniteSetTheorems, WellFoundedInduction

-----------------------------------------------------------------------------
(* Induction on the numbers up to n.                                       *)
LEMMA RangeInduction ==
  ASSUME NEW n \in Nat, NEW P, 0 \in P,
         \A i \in 0 .. n - 1 : i \in P => i + 1 \in P
  PROVE  \A i \in 0 .. n : i \in P
<1> DEFINE Bad == {i \in Nat : i \in 0 .. n /\ i \notin P}
<1>1. Bad = {}
  <2> SUFFICES ASSUME Bad # {} PROVE FALSE
    OBVIOUS
  <2>1. PICK m \in Bad : \A y \in Bad : ~(<<y, m>> \in OpToRel(<, Nat))
    <3>1. Bad \subseteq Nat
      OBVIOUS
    <3> HIDE DEF Bad
    <3> QED BY <3>1, NatLessThanWellFounded, WFMin
  <2>2. m \in Nat /\ m \in 0 .. n /\ m \notin P /\ m # 0
    OBVIOUS
  <2>3. m - 1 \in Nat /\ m - 1 \in 0 .. n - 1 /\ (m - 1) + 1 = m
    BY <2>2
  <2>4. <<m - 1, m>> \in OpToRel(<, Nat)
    BY <2>2, <2>3 DEF OpToRel
  <2>5. m - 1 \notin Bad
    BY <2>1, <2>4
  <2>6. m - 1 \in P
    BY <2>3, <2>5
  <2>7. (m - 1) + 1 \in P
    BY <2>3, <2>6
  <2> QED BY <2>2, <2>3, <2>7
<1> QED BY <1>1

-----------------------------------------------------------------------------
(* The lengths of lines, added up.                                         *)
Sums(S, len, n) == S = [i \in 0 .. n |-> IF i = 0 THEN 0 ELSE S[i - 1] + len[i - 1]]

(* Such sums exist, for as many lines as one likes.                        *)
LEMMA SumsExist ==
  ASSUME NEW len, NEW n \in Nat
  PROVE  \E S : Sums(S, len, n)
<1> DEFINE P == {m \in 0 .. n : \E S : Sums(S, len, m)}
<1>1. 0 \in P
  <2>1. Sums([i \in 0 .. 0 |-> 0], len, 0)
    BY DEF Sums
  <2> QED BY <2>1
<1>2. ASSUME NEW m \in 0 .. n - 1, m \in P PROVE m + 1 \in P
  <2>1. PICK S : Sums(S, len, m)
    BY <1>2
  <2> DEFINE T == [i \in 0 .. m + 1 |-> IF i = m + 1 THEN S[m] + len[m] ELSE S[i]]
             R == [i \in 0 .. m + 1 |-> IF i = 0 THEN 0 ELSE T[i - 1] + len[i - 1]]
  <2>2. ASSUME NEW i \in 0 .. m + 1 PROVE T[i] = R[i]
    <3>1. CASE i = m + 1
      <4>1. T[m] = S[m]
        OBVIOUS
      <4> QED BY <3>1, <4>1
    <3>2. CASE i # m + 1
      <4>1. i \in 0 .. m /\ (i # 0 => i - 1 \in 0 .. m)
        BY <3>2
      <4>2. S[i] = IF i = 0 THEN 0 ELSE S[i - 1] + len[i - 1]
        BY <2>1, <4>1 DEF Sums
      <4>3. i # 0 => T[i - 1] = S[i - 1]
        BY <4>1
      <4> QED BY <3>2, <4>2, <4>3
    <3> QED BY <3>1, <3>2
  <2>3. T = R
    BY <2>2
  <2>4. Sums(T, len, m + 1)
    BY <2>3 DEF Sums
  <2> HIDE DEF T
  <2> QED BY <2>4
<1> HIDE DEF P
<1>3. n \in P
  BY <1>1, <1>2, RangeInduction
<1> QED BY <1>3 DEF P

(* The sum of one line more.                                               *)
LEMMA SummStep ==
  ASSUME NEW len
  PROVE  /\ Summ(len, 0) = 0
         /\ \A i \in Row : Summ(len, i + 1) = Summ(len, i) + len[i]
<1> DEFINE S == CHOOSE S : S = [i \in 0 .. Height |-> IF i = 0 THEN 0 ELSE S[i - 1] + len[i - 1]]
<1>0. Height \in Nat
  BY GuiderAssumption
<1>1. S = [i \in 0 .. Height |-> IF i = 0 THEN 0 ELSE S[i - 1] + len[i - 1]]
  <2>1. \E T : T = [i \in 0 .. Height |-> IF i = 0 THEN 0 ELSE T[i - 1] + len[i - 1]]
    BY <1>0, SumsExist DEF Sums
  <2> QED BY <2>1
<1>2. \A n : Summ(len, n) = S[n]
  BY DEF Summ
<1> HIDE DEF S
<1>3. S[0] = 0
  BY <1>0, <1>1
<1>4. ASSUME NEW i \in Row PROVE S[i + 1] = S[i] + len[i]
  <2>1. i + 1 \in 0 .. Height /\ i + 1 # 0 /\ (i + 1) - 1 = i
    BY <1>0 DEF Row
  <2> QED BY <1>1, <2>1
<1> QED BY <1>2, <1>3, <1>4

Lengths == [Row -> Nat]

(* Sums of lengths are numbers.                                            *)
LEMMA SummNat ==
  ASSUME NEW len \in Lengths
  PROVE  \A i \in 0 .. Height : Summ(len, i) \in Nat
<1> DEFINE P == {i \in 0 .. Height : Summ(len, i) \in Nat}
<1>0. Height \in Nat
  BY GuiderAssumption
<1>1. 0 \in P
  BY <1>0, SummStep
<1>2. ASSUME NEW i \in 0 .. Height - 1, i \in P PROVE i + 1 \in P
  <2>1. i \in Row /\ len[i] \in Nat /\ Summ(len, i) \in Nat
    BY <1>2 DEF Row, Lengths
  <2> QED BY <1>0, <2>1, SummStep
<1> HIDE DEF P
<1>3. \A i \in 0 .. Height : i \in P
  BY <1>0, <1>1, <1>2, RangeInduction
<1> QED BY <1>3 DEF P

(* The sum of more lines is greater by what they add.                      *)
LEMMA SummGrows ==
  ASSUME NEW len \in Lengths
  PROVE  \A j \in 0 .. Height : \A i \in 0 .. j :
           /\ Summ(len, i) <= Summ(len, j)
           /\ i < j => Summ(len, i) + len[i] <= Summ(len, j)
<1> DEFINE A(j) == \A i \in 0 .. j : /\ Summ(len, i) <= Summ(len, j)
                                     /\ i < j => Summ(len, i) + len[i] <= Summ(len, j)
           P == {j \in 0 .. Height : A(j)}
<1>0. Height \in Nat
  BY GuiderAssumption
<1>1. 0 \in P
  BY <1>0, SummStep
<1>2. ASSUME NEW j \in 0 .. Height - 1, j \in P PROVE j + 1 \in P
  <2>1. j \in Row /\ len[j] \in Nat /\ Summ(len, j) \in Nat
    BY <1>0, SummNat DEF Row, Lengths
  <2>2. Summ(len, j + 1) = Summ(len, j) + len[j]
    BY <2>1, SummStep
  <2>3. ASSUME NEW i \in 0 .. j + 1
        PROVE  /\ Summ(len, i) <= Summ(len, j + 1)
               /\ i < j + 1 => Summ(len, i) + len[i] <= Summ(len, j + 1)
    <3>1. CASE i = j + 1
      BY <2>1, <2>2, <3>1
    <3>2. CASE i = j
      BY <2>1, <2>2, <3>2
    <3>3. CASE i \in 0 .. j /\ i # j
      <4>1. i < j /\ i \in Row /\ Summ(len, i) \in Nat /\ len[i] \in Nat
        BY <1>0, <3>3, SummNat DEF Row, Lengths
      <4>2. Summ(len, i) + len[i] <= Summ(len, j)
        BY <1>2, <3>3, <4>1
      <4> QED BY <2>1, <2>2, <4>1, <4>2
    <3> QED BY <3>1, <3>2, <3>3
  <2>4. A(j + 1)
    BY <2>3
  <2> HIDE DEF A
  <2> QED BY <1>0, <2>4
<1> HIDE DEF P
<1>3. \A j \in 0 .. Height : j \in P
  BY <1>0, <1>1, <1>2, RangeInduction
<1> QED BY <1>3 DEF P

(* Lines that are the same have the same sum.                              *)
LEMMA SummSame ==
  ASSUME NEW f \in Lengths, NEW g \in Lengths, NEW n \in 0 .. Height,
         \A r \in Row : r < n => f[r] = g[r]
  PROVE  Summ(f, n) = Summ(g, n)
<1> DEFINE P == {i \in 0 .. n : Summ(f, i) = Summ(g, i)}
<1>0. n \in Nat /\ Height \in Nat
  BY GuiderAssumption
<1>1. 0 \in P
  BY <1>0, SummStep
<1>2. ASSUME NEW i \in 0 .. n - 1, i \in P PROVE i + 1 \in P
  <2>1. i \in Row /\ i < n
    BY <1>0 DEF Row
  <2> QED BY <1>0, <1>2, <2>1, SummStep
<1> HIDE DEF P
<1>3. n \in P
  BY <1>0, <1>1, <1>2, RangeInduction
<1> QED BY <1>3 DEF P

(* The lines one up, but for the first.                                    *)
LEMMA SummUp ==
  ASSUME NEW f \in Lengths, NEW g \in Lengths,
         \A r \in Row : r < Height - 1 => g[r] = f[r + 1]
  PROVE  \A n \in 0 .. Height - 1 : Summ(g, n) = Summ(f, n + 1) - f[0]
<1> DEFINE P == {i \in 0 .. Height - 1 : Summ(g, i) = Summ(f, i + 1) - f[0]}
<1>0. Height \in Nat /\ Height - 1 \in Nat /\ 0 \in Row /\ f[0] \in Nat
  BY GuiderAssumption DEF Row, Lengths
<1>1. 0 \in P
  <2>1. Summ(f, 0 + 1) = Summ(f, 0) + f[0] /\ Summ(f, 0) = 0 /\ Summ(g, 0) = 0
    BY <1>0, SummStep
  <2> QED BY <1>0, <2>1
<1>2. ASSUME NEW i \in 0 .. (Height - 1) - 1, i \in P PROVE i + 1 \in P
  <2>1. i \in Row /\ i + 1 \in Row /\ i < Height - 1 /\ i + 1 \in 0 .. Height - 1
    BY <1>0 DEF Row
  <2>2. Summ(g, i + 1) = Summ(g, i) + g[i] /\ Summ(f, (i + 1) + 1) = Summ(f, i + 1) + f[i + 1]
    BY <2>1, SummStep
  <2>3. g[i] = f[i + 1] /\ f[i + 1] \in Nat /\ Summ(f, i + 1) \in Nat
    BY <1>0, <2>1, SummNat DEF Lengths
  <2>4. Summ(g, i) = Summ(f, i + 1) - f[0]
    BY <1>2
  <2>5. Summ(g, i + 1) = Summ(f, (i + 1) + 1) - f[0]
    BY <1>0, <2>2, <2>3, <2>4
  <2> QED BY <2>1, <2>5
<1> HIDE DEF P
<1>3. \A i \in 0 .. Height - 1 : i \in P
  BY <1>0, <1>1, <1>2, RangeInduction
<1> QED BY <1>3 DEF P

(* Lines of no length add nothing.                                         *)
LEMMA SummBlank ==
  ASSUME NEW f \in Lengths, NEW n \in 0 .. Height,
         \A r \in Row : r >= n => f[r] = 0
  PROVE  \A m \in n .. Height : Summ(f, m) = Summ(f, n)
<1> DEFINE P == {i \in 0 .. Height : i >= n => Summ(f, i) = Summ(f, n)}
<1>0. Height \in Nat /\ n \in Nat /\ Summ(f, n) \in Nat
  BY GuiderAssumption, SummNat
<1>1. 0 \in P
  BY <1>0
<1>2. ASSUME NEW i \in 0 .. Height - 1, i \in P PROVE i + 1 \in P
  <2>1. i \in Row /\ i + 1 \in 0 .. Height
    BY <1>0 DEF Row
  <2>2. Summ(f, i + 1) = Summ(f, i) + f[i]
    BY <2>1, SummStep
  <2>3. CASE i >= n
    BY <1>0, <1>2, <2>1, <2>2, <2>3
  <2>4. CASE i + 1 = n
    BY <1>0, <2>1, <2>4
  <2>5. CASE i + 1 < n
    BY <1>0, <2>1, <2>5
  <2> QED BY <1>0, <2>3, <2>4, <2>5
<1> HIDE DEF P
<1>3. \A i \in 0 .. Height : i \in P
  BY <1>0, <1>1, <1>2, RangeInduction
<1> QED BY <1>0, <1>3 DEF P

-----------------------------------------------------------------------------
(* The least of some numbers.                                              *)
LEMMA MinIsLeast ==
  ASSUME NEW S, S \subseteq Nat, S # {}
  PROVE  Min(S) \in S /\ \A x \in S : Min(S) <= x
<1>1. PICK m \in S : \A y \in S : ~(<<y, m>> \in OpToRel(<, Nat))
  BY NatLessThanWellFounded, WFMin
<1>2. \A y \in S : m <= y
  <2> SUFFICES ASSUME NEW y \in S PROVE m <= y
    OBVIOUS
  <2>1. y \in Nat /\ m \in Nat /\ ~(y < m)
    BY <1>1 DEF OpToRel
  <2> QED BY <2>1
<1>3. \E x \in S : \A y \in S : x <= y
  BY <1>1, <1>2
<1> QED BY <1>3 DEF Min

(* The guide: sorted by line, with room left.                              *)
GuideOK(g) ==
  /\ g \in [addr : Seq(Addr), line : Seq(Row), alarm : BOOLEAN]
  /\ Len(g.addr) = Len(g.line) /\ Len(g.addr) < GoAddrSize
  /\ \A i, j \in 1 .. Len(g.line) : i < j => g.line[i] < g.line[j]

(* The first jump to the target of a jump.                                 *)
LEMMA FirstToIsFirst ==
  ASSUME NEW g, NEW n \in Nat, Len(g.addr) = n, NEW i \in 1 .. n
  PROVE  LET m == FirstTo(g, g.addr[i])
         IN  /\ m \in 1 .. i /\ g.addr[m] = g.addr[i]
             /\ \A j \in 1 .. m - 1 : g.addr[j] # g.addr[i]
<1> DEFINE S == {j \in 1 .. Len(g.addr) : g.addr[j] = g.addr[i]}
           m == FirstTo(g, g.addr[i])
<1>1. S \subseteq Nat /\ i \in S
  OBVIOUS
<1>2. m = Min(S)
  BY DEF FirstTo
<1>3. m \in S /\ \A x \in S : m <= x
  <2> HIDE DEF S, m
  <2> QED BY <1>1, <1>2, MinIsLeast
<1> HIDE DEF m
<1>4. m \in 1 .. n /\ g.addr[m] = g.addr[i] /\ m <= i
  BY <1>1, <1>3
<1>5. ASSUME NEW j \in 1 .. m - 1 PROVE g.addr[j] # g.addr[i]
  <2> SUFFICES ASSUME g.addr[j] = g.addr[i] PROVE FALSE
    OBVIOUS
  <2>1. j \in S /\ j < m
    BY <1>4
  <2> QED BY <1>3, <1>4, <2>1
<1> QED BY <1>4, <1>5 DEF m

(* There are no more targets than jumps.                                   *)
LEMMA TargetsCount ==
  ASSUME NEW g, NEW n \in Nat
  PROVE  \A k \in 0 .. n : /\ IsFiniteSet(Targets(g, k))
                           /\ Cardinality(Targets(g, k)) \in 0 .. k
<1> DEFINE P == {k \in 0 .. n : /\ IsFiniteSet(Targets(g, k))
                                /\ Cardinality(Targets(g, k)) \in 0 .. k}
<1>1. 0 \in P
  <2>1. Targets(g, 0) = {}
    BY DEF Targets
  <2> QED BY <2>1, FS_EmptySet
<1>2. ASSUME NEW k \in 0 .. n - 1, k \in P PROVE k + 1 \in P
  <2>1. Targets(g, k + 1) = Targets(g, k) \cup {g.addr[k + 1]}
    <3>1. 1 .. k + 1 = (1 .. k) \cup {k + 1}
      OBVIOUS
    <3> QED BY <3>1 DEF Targets
  <2>2. IsFiniteSet(Targets(g, k)) /\ Cardinality(Targets(g, k)) \in 0 .. k
    BY <1>2
  <2>3. /\ IsFiniteSet(Targets(g, k + 1))
        /\ \/ Cardinality(Targets(g, k + 1)) = Cardinality(Targets(g, k))
           \/ Cardinality(Targets(g, k + 1)) = Cardinality(Targets(g, k)) + 1
    BY <2>1, <2>2, FS_AddElement
  <2> QED BY <2>2, <2>3
<1> HIDE DEF P
<1>3. \A k \in 0 .. n : k \in P
  BY <1>1, <1>2, RangeInduction
<1> QED BY <1>3 DEF P

(* A key is one of as many as there are jumps.                             *)
LEMMA KeyRange ==
  ASSUME NEW g, NEW n \in Nat, Len(g.addr) = n, NEW i \in 1 .. n
  PROVE  gidGetAddressKey(g, i) \in 0 .. n - 1
<1> DEFINE m == FirstTo(g, g.addr[i])
<1>1. m \in 1 .. i
  BY FirstToIsFirst
<1> HIDE DEF m
<1>2. m - 1 \in 0 .. n
  BY <1>1
<1>3. Cardinality(Targets(g, m - 1)) \in 0 .. m - 1
  BY <1>2, TargetsCount
<1> QED BY <1>1, <1>3 DEF m, gidGetAddressKey

(* A key leads to the target of the jump it is shown for.                  *)
LEMMA KeyFindsTarget ==
  ASSUME NEW g, NEW n \in Nat, Len(g.addr) = n, NEW i \in 1 .. n
  PROVE  /\ gidGetKeyIndex(g, gidGetAddressKey(g, i)) \in 1 .. n
         /\ g.addr[gidGetKeyIndex(g, gidGetAddressKey(g, i))] = g.addr[i]
<1> DEFINE m == FirstTo(g, g.addr[i])
           k == gidGetAddressKey(g, i)
           hits == {j \in 1 .. Len(g.addr) : Cardinality(Targets(g, j)) = k + 1}
<1>1. /\ m \in 1 .. i /\ g.addr[m] = g.addr[i]
      /\ \A j \in 1 .. m - 1 : g.addr[j] # g.addr[i]
  BY FirstToIsFirst
<1>2. k = Cardinality(Targets(g, m - 1))
  BY DEF gidGetAddressKey
<1>3. gidGetKeyIndex(g, k) = IF hits = {} THEN Len(g.addr) + 1 ELSE Min(hits)
  BY DEF gidGetKeyIndex
<1> HIDE DEF m, k
<1>4. m \in 1 .. n /\ m - 1 \in 0 .. n
  BY <1>1
<1>5. IsFiniteSet(Targets(g, m - 1)) /\ k \in Nat
  <2>1. IsFiniteSet(Targets(g, m - 1)) /\ Cardinality(Targets(g, m - 1)) \in 0 .. m - 1
    BY <1>4, TargetsCount
  <2> QED BY <1>2, <2>1
<1>6. Cardinality(Targets(g, m)) = k + 1
  <2>1. Targets(g, m) = Targets(g, m - 1) \cup {g.addr[m]}
    <3>1. 1 .. m = (1 .. m - 1) \cup {m}
      BY <1>4
    <3> QED BY <3>1 DEF Targets
  <2>2. g.addr[m] \notin Targets(g, m - 1)
    BY <1>1 DEF Targets
  <2> QED BY <1>2, <1>5, <2>1, <2>2, FS_AddElement
<1>7. ASSUME NEW j \in hits PROVE m <= j
  <2> SUFFICES ASSUME j < m PROVE FALSE
    BY <1>4
  <2>1. j \in 1 .. n /\ j <= m - 1 /\ Cardinality(Targets(g, j)) = k + 1
    BY <1>4
  <2>2. Targets(g, j) \subseteq Targets(g, m - 1)
    <3>1. 1 .. j \subseteq 1 .. m - 1
      BY <1>4, <2>1
    <3> QED BY <3>1 DEF Targets
  <2>3. Cardinality(Targets(g, j)) <= Cardinality(Targets(g, m - 1))
    BY <1>5, <2>2, FS_Subset
  <2> QED BY <1>2, <1>5, <2>1, <2>3
<1>8. m \in hits /\ hits \subseteq Nat
  BY <1>4, <1>6
<1>9. Min(hits) = m
  <2> HIDE DEF hits
  <2>1. Min(hits) \in hits /\ Min(hits) <= m
    BY <1>8, MinIsLeast
  <2>2. m <= Min(hits) /\ Min(hits) \in Nat /\ m \in Nat
    BY <1>7, <1>8, <2>1
  <2> QED BY <2>1, <2>2
<1>10. gidGetKeyIndex(g, k) = m
  BY <1>3, <1>8, <1>9
<1> QED BY <1>1, <1>4, <1>10 DEF k

(* Jumps below change no key.                                              *)
LEMMA PrefixKeepsKeys ==
  ASSUME NEW g, NEW h, NEW n \in Nat, NEW m \in 0 .. n,
         Len(g.addr) = n, Len(h.addr) = m, \A j \in 1 .. m : h.addr[j] = g.addr[j],
         NEW i \in 1 .. m
  PROVE  gidGetAddressKey(h, i) = gidGetAddressKey(g, i)
<1> DEFINE a == FirstTo(g, g.addr[i])
           b == FirstTo(h, h.addr[i])
<1>1. /\ a \in 1 .. i /\ g.addr[a] = g.addr[i]
      /\ \A j \in 1 .. a - 1 : g.addr[j] # g.addr[i]
  <2>1. i \in 1 .. n
    OBVIOUS
  <2> QED BY <2>1, FirstToIsFirst
<1>2. /\ b \in 1 .. i /\ h.addr[b] = h.addr[i]
      /\ \A j \in 1 .. b - 1 : h.addr[j] # h.addr[i]
  <2>1. m \in Nat
    OBVIOUS
  <2> QED BY <2>1, FirstToIsFirst
<1> HIDE DEF a, b
<1>3. a = b
  <2>1. ~(a < b)
    BY <1>1, <1>2
  <2>2. ~(b < a)
    BY <1>1, <1>2
  <2> QED BY <1>1, <1>2, <2>1, <2>2
<1>4. Targets(g, a - 1) = Targets(h, b - 1)
  <2>1. \A j \in 1 .. a - 1 : h.addr[j] = g.addr[j]
    BY <1>1
  <2> QED BY <1>3, <2>1 DEF Targets
<1> QED BY <1>4 DEF gidGetAddressKey, a, b

-----------------------------------------------------------------------------
(* How the guide moves with the screen.                                    *)
Listed(g) == {g.line[i] : i \in 1 .. Len(g.addr)}

(* h is g after a step of its lines up the screen.                         *)
LinesUp(g, h) ==
  \E o \in {0, 1} :
    /\ Len(h.addr) + o = Len(g.addr)
    /\ o = 1 => g.line[1] = 0
    /\ \A i \in 1 .. Len(h.addr) : h.addr[i] = g.addr[i + o] /\ h.line[i] + 1 = g.line[i + o]

(* h is g after a step of its lines down the screen.                       *)
LinesDown(g, h) ==
  \E o \in {0, 1} :
    /\ Len(h.addr) + o = Len(g.addr)
    /\ o = 1 => g.line[Len(g.addr)] = Height - 1
    /\ \A i \in 1 .. Len(h.addr) : h.addr[i] = g.addr[i] /\ h.line[i] = g.line[i] + 1

(* The assumptions about constants, in the form most steps need.           *)
LEMMA SizesOfConstants ==
  /\ Height \in Nat /\ Height > 1 /\ GoAddrSize \in Nat /\ GoAddrSize > 1
  /\ FLen \in Nat /\ FLen > 0 /\ MaxCodeLen \in Nat /\ MaxCodeLen > 0
  /\ 0 \in Row /\ 1 \in Row /\ Height - 1 \in Row
BY GuiderAssumption, ViewAssumption DEF Row

(* The empty guide.                                                        *)
LEMMA NoGuideOK == GuideOK(NoGuide) /\ NoGuide.alarm = FALSE /\ Listed(NoGuide) = {}
BY SizesOfConstants, EmptySeq DEF GuideOK, NoGuide, Listed

(* The parts of a guide.                                                   *)
LEMMA GuideSeqs ==
  ASSUME NEW g, GuideOK(g)
  PROVE  /\ Len(g.addr) \in Nat /\ Len(g.line) = Len(g.addr)
         /\ g.addr \in Seq(Addr) /\ g.line \in Seq(Row)
         /\ \A i \in 1 .. Len(g.addr) : g.addr[i] \in Addr /\ g.line[i] \in Row
         /\ \A i, j \in 1 .. Len(g.addr) : i < j => g.line[i] < g.line[j]
BY LenProperties, ElementOfSeq DEF GuideOK

(* A step down moves the jumps up, but for one on the first line.          *)
LEMMA SteppedDownMoves ==
  ASSUME NEW g, GuideOK(g)
  PROVE  /\ GuideOK(SteppedDown(g)) /\ SteppedDown(g).alarm = FALSE
         /\ LinesUp(g, SteppedDown(g))
         /\ \A r \in Listed(SteppedDown(g)) : r < Height - 1
<1> DEFINE gone == g.addr # <<>> /\ g.line[1] = 0
           h == SteppedDown(g)
           o == IF gone THEN 1 ELSE 0
           kept == IF gone THEN Tail(g.line) ELSE g.line
           n == Len(g.addr) - o
<1>1. /\ Len(g.addr) \in Nat /\ Len(g.line) = Len(g.addr)
      /\ g.addr \in Seq(Addr) /\ g.line \in Seq(Row)
      /\ \A i \in 1 .. Len(g.addr) : g.addr[i] \in Addr /\ g.line[i] \in Row
      /\ \A i, j \in 1 .. Len(g.addr) : i < j => g.line[i] < g.line[j]
  BY GuideSeqs
<1>2. gone => Len(g.addr) > 0 /\ g.line # <<>>
  BY <1>1, EmptySeq
<1>3. /\ kept \in Seq(Row) /\ Len(kept) = n /\ n \in Nat
      /\ \A i \in 1 .. n : kept[i] = g.line[i + o]
  BY <1>1, <1>2, HeadTailProperties
<1>4. /\ h.addr \in Seq(Addr) /\ Len(h.addr) = n
      /\ \A i \in 1 .. n : h.addr[i] = g.addr[i + o]
  <2>1. h.addr = IF gone THEN Tail(g.addr) ELSE g.addr
    BY DEF SteppedDown
  <2> QED BY <1>1, <1>2, <2>1, HeadTailProperties
<1>5. h.line = [i \in 1 .. Len(kept) |-> kept[i] - 1] /\ h.alarm = FALSE
  BY DEF SteppedDown
<1>6. h = [addr |-> h.addr, line |-> h.line, alarm |-> h.alarm]
  BY DEF SteppedDown
<1>6a. o \in {0, 1} /\ n + o = Len(g.addr) /\ (o = 1 => g.line[1] = 0) /\ (o = 0 <=> ~gone)
  BY <1>1
<1> HIDE DEF h, kept, o, n
<1>7. ASSUME NEW i \in 1 .. n
      PROVE  h.line[i] + 1 = g.line[i + o] /\ h.line[i] \in 0 .. Height - 2
  <2>1. i + o \in 1 .. Len(g.addr) /\ g.line[i + o] \in Row
    <3>1. n \in Nat /\ i \in 1 .. n /\ n + o = Len(g.addr) /\ o \in {0, 1}
      BY <1>3, <1>6a
    <3>2. i + o \in 1 .. Len(g.addr)
      BY <3>1
    <3> QED BY <1>1, <3>2
  <2>2. h.line[i] = g.line[i + o] - 1
    BY <1>3, <1>5
  <2>3. g.line[i + o] # 0
    <3>1. CASE i + o = 1
      <4>1. ~gone /\ g.addr # <<>>
        BY <1>1, <1>3, <1>6a, <2>1, <3>1, EmptySeq
      <4> QED BY <3>1, <4>1
    <3>2. CASE i + o # 1
      <4>1. 1 \in 1 .. Len(g.addr) /\ 1 < i + o /\ g.line[1] \in Row
        BY <1>1, <2>1, <3>2
      <4>2. g.line[1] < g.line[i + o]
        BY <1>1, <2>1, <4>1
      <4> QED BY <2>1, <4>1, <4>2 DEF Row
    <3> QED BY <3>1, <3>2
  <2> QED BY <2>1, <2>2, <2>3, SizesOfConstants DEF Row
<1>8. h.line \in Seq(Row) /\ Len(h.line) = n
  <2>1. \A i \in 1 .. n : h.line[i] \in Row
    BY <1>7, SizesOfConstants DEF Row
  <2>2. h.line \in [1 .. n -> Row]
    BY <1>3, <1>5, <2>1
  <2> QED BY <1>3, <2>2, SeqDef, LenProperties
<1>9. ASSUME NEW i \in 1 .. n, NEW j \in 1 .. n, i < j PROVE h.line[i] < h.line[j]
  <2>1. i + o \in 1 .. Len(g.addr) /\ j + o \in 1 .. Len(g.addr) /\ i + o < j + o
    BY <1>1, <1>3, <1>6a, <1>9
  <2>2. g.line[i + o] < g.line[j + o]
    BY <1>1, <2>1
  <2> QED BY <1>7, <2>2, SizesOfConstants
<1>10. n < GoAddrSize
  BY <1>1, <1>3, <1>6a, SizesOfConstants DEF GuideOK
<1>11. GuideOK(h)
  BY <1>4, <1>5, <1>6, <1>8, <1>9, <1>10 DEF GuideOK
<1>12. LinesUp(g, h)
  <2> QED BY <1>4, <1>6a, <1>7 DEF LinesUp
<1>13. ASSUME NEW r \in Listed(h) PROVE r < Height - 1
  BY <1>4, <1>7, SizesOfConstants DEF Listed
<1> QED BY <1>5, <1>11, <1>12, <1>13 DEF h

(* A step up moves them down, but for one on the last line.                *)
LEMMA SteppedUpMoves ==
  ASSUME NEW g, GuideOK(g)
  PROVE  /\ GuideOK(SteppedUp(g)) /\ SteppedUp(g).alarm = TRUE
         /\ LinesDown(g, SteppedUp(g))
         /\ \A r \in Listed(SteppedUp(g)) : r > 0
<1> DEFINE h == SteppedUp(g)
           m == Len(g.addr)
           down == [i \in 1 .. Len(g.line) |-> g.line[i] + 1]
           o == IF g.line # <<>> /\ down[Len(down)] >= Height THEN 1 ELSE 0
           n == IF g.line # <<>> /\ down[Len(down)] >= Height THEN Len(down) - 1 ELSE Len(down)
<1>1. /\ m \in Nat /\ Len(g.line) = m
      /\ g.addr \in Seq(Addr) /\ g.line \in Seq(Row)
      /\ \A i \in 1 .. m : g.addr[i] \in Addr /\ g.line[i] \in Row
      /\ \A i, j \in 1 .. m : i < j => g.line[i] < g.line[j]
  BY GuideSeqs
<1>2. /\ down \in Seq(Nat) /\ Len(down) = m
      /\ \A i \in 1 .. m : down[i] = g.line[i] + 1 /\ down[i] \in Nat
  <2>1. \A i \in 1 .. m : g.line[i] + 1 \in Nat
    BY <1>1, SizesOfConstants DEF Row
  <2>2. down \in [1 .. m -> Nat]
    BY <1>1, <2>1
  <2> QED BY <1>1, <2>2, SeqDef, LenProperties
<1>3. h = [addr |-> SubSeq(g.addr, 1, n), line |-> SubSeq(down, 1, n), alarm |-> TRUE]
  BY DEF SteppedUp
<1>4. /\ n = m - o /\ n \in 0 .. m /\ o \in {0, 1} /\ (o = 1 => m > 0 /\ down[m] >= Height)
      /\ o = 0 /\ m > 0 => ~(down[m] >= Height)
  BY <1>1, <1>2, EmptySeq
<1> HIDE DEF down, h, n, o
<1>5. ASSUME NEW i \in 1 .. n PROVE down[i] \in Row
  <2>1. i \in 1 .. m /\ g.line[i] \in Row /\ down[i] = g.line[i] + 1
    BY <1>1, <1>2, <1>4
  <2>2. down[i] < Height
    <3>1. CASE i = m
      <4>1. ~(down[m] >= Height)
        BY <1>1, <1>4, <2>1, <3>1
      <4> QED BY <1>2, <2>1, <3>1, <4>1, SizesOfConstants
    <3>2. CASE i # m
      <4>1. m \in 1 .. m /\ i < m /\ g.line[m] \in Row
        BY <1>1, <2>1, <3>2
      <4>2. g.line[i] < g.line[m]
        BY <1>1, <2>1, <4>1
      <4> QED BY <2>1, <4>1, <4>2, SizesOfConstants DEF Row
    <3> QED BY <3>1, <3>2
  <2> QED BY <2>1, <2>2, SizesOfConstants DEF Row
<1>6. /\ h.addr \in Seq(Addr) /\ Len(h.addr) = n
      /\ \A i \in 1 .. n : h.addr[i] = g.addr[i]
  <2>1. \A i \in 1 .. n : g.addr[i] \in Addr
    BY <1>1, <1>4
  <2>2. n \in Nat /\ h.addr = SubSeq(g.addr, 1, n)
    BY <1>3, <1>4
  <2>3. /\ SubSeq(g.addr, 1, n) \in Seq(Addr)
        /\ Len(SubSeq(g.addr, 1, n)) = n
        /\ \A i \in 1 .. n : SubSeq(g.addr, 1, n)[i] = g.addr[i]
    BY <2>1, <2>2, SubSeqProperties
  <2> QED BY <2>2, <2>3
<1>7. /\ h.line \in Seq(Row) /\ Len(h.line) = n
      /\ \A i \in 1 .. n : h.line[i] = down[i]
  <2>2. n \in Nat /\ h.line = SubSeq(down, 1, n)
    BY <1>3, <1>4
  <2>3. /\ SubSeq(down, 1, n) \in Seq(Row)
        /\ Len(SubSeq(down, 1, n)) = n
        /\ \A i \in 1 .. n : SubSeq(down, 1, n)[i] = down[i]
    BY <1>5, <2>2, SubSeqProperties
  <2> QED BY <2>2, <2>3
<1>8. \A i \in 1 .. n : h.line[i] = g.line[i] + 1 /\ g.line[i] \in Row
  BY <1>1, <1>2, <1>4, <1>7
<1>9. ASSUME NEW i \in 1 .. n, NEW j \in 1 .. n, i < j PROVE h.line[i] < h.line[j]
  <2>1. i \in 1 .. m /\ j \in 1 .. m
    BY <1>4
  <2>2. g.line[i] < g.line[j] /\ g.line[i] \in Row /\ g.line[j] \in Row
    BY <1>1, <1>9, <2>1
  <2> QED BY <1>8, <2>2, SizesOfConstants DEF Row
<1>10. n < GoAddrSize
  BY <1>1, <1>4, SizesOfConstants DEF GuideOK
<1>11. GuideOK(h)
  BY <1>3, <1>6, <1>7, <1>9, <1>10 DEF GuideOK
<1>12. LinesDown(g, h)
  <2>1. n + o = m
    BY <1>1, <1>4
  <2>2. o = 1 => g.line[m] = Height - 1
    <3>1. ASSUME o = 1 PROVE g.line[m] = Height - 1
      <4>1. m \in 1 .. m /\ down[m] >= Height
        BY <1>1, <1>4, <3>1
      <4>2. g.line[m] \in Row /\ down[m] = g.line[m] + 1
        BY <1>1, <1>2, <4>1
      <4> QED BY <4>1, <4>2, SizesOfConstants DEF Row
    <3> QED BY <3>1
  <2> QED BY <1>4, <1>6, <1>8, <2>1, <2>2 DEF LinesDown
<1>13. ASSUME NEW r \in Listed(h) PROVE r > 0
  BY <1>6, <1>8, SizesOfConstants DEF Listed, Row
<1>14. h.alarm = TRUE
  BY <1>3
<1> QED BY <1>11, <1>12, <1>13, <1>14 DEF h

(* h is g with a jump on the line i.                                       *)
JumpFirst(g, h, i, a) ==
  /\ h.addr[1] = a /\ h.line[1] = i
  /\ Len(h.addr) = IF Room(g) THEN Len(g.addr) + 1 ELSE Len(g.addr)
  /\ \A j \in 2 .. Len(h.addr) : h.addr[j] = g.addr[j - 1] /\ h.line[j] = g.line[j - 1]

JumpLast(g, h, i, a) ==
  /\ Len(h.addr) = Len(g.addr) + 1
  /\ h.addr[Len(g.addr) + 1] = a /\ h.line[Len(g.addr) + 1] = i
  /\ \A j \in 1 .. Len(g.addr) : h.addr[j] = g.addr[j] /\ h.line[j] = g.line[j]

(* A jump painted after a step up comes before the others.                 *)
LEMMA AddAtTop ==
  ASSUME NEW g, GuideOK(g), g.alarm, NEW i \in Row, NEW a \in Addr,
         \A j \in 1 .. Len(g.addr) : i < g.line[j]
  PROVE  LET h == GidAddGoAddress(g, i, a)
         IN  GuideOK(h) /\ h.alarm = TRUE /\ Len(h.addr) > 0 /\ JumpFirst(g, h, i, a)
<1> DEFINE h == GidAddGoAddress(g, i, a)
           m == Len(g.addr)
           f(s) == IF Room(g) THEN s ELSE Front(s)
           k == IF Room(g) THEN m ELSE m - 1
<1>1. /\ m \in Nat /\ Len(g.line) = m
      /\ g.addr \in Seq(Addr) /\ g.line \in Seq(Row)
      /\ \A j \in 1 .. m : g.addr[j] \in Addr /\ g.line[j] \in Row
      /\ \A p, q \in 1 .. m : p < q => g.line[p] < g.line[q]
  BY GuideSeqs
<1>2. k \in Nat /\ k < GoAddrSize - 1 /\ k <= m
  BY <1>1, SizesOfConstants DEF Room, GuideOK
<1>3. h = [addr |-> <<a>> \o f(g.addr), line |-> <<i>> \o f(g.line), alarm |-> g.alarm]
  BY DEF GidAddGoAddress, GuideOK
<1>4. /\ f(g.addr) \in Seq(Addr) /\ Len(f(g.addr)) = k
      /\ \A j \in 1 .. k : f(g.addr)[j] = g.addr[j]
  <2>1. \A j \in 1 .. m - 1 : g.addr[j] \in Addr
    BY <1>1
  <2> QED BY <1>1, <1>2, <2>1, SubSeqProperties DEF Front
<1>5. /\ f(g.line) \in Seq(Row) /\ Len(f(g.line)) = k
      /\ \A j \in 1 .. k : f(g.line)[j] = g.line[j]
  <2>1. \A j \in 1 .. m - 1 : g.line[j] \in Row
    BY <1>1
  <2> QED BY <1>1, <1>2, <2>1, SubSeqProperties DEF Front
<1> HIDE DEF f
<1>6. /\ h.addr \in Seq(Addr) /\ Len(h.addr) = k + 1 /\ h.addr[1] = a
      /\ \A j \in 2 .. k + 1 : h.addr[j] = g.addr[j - 1]
  <2>1. <<a>> \in Seq(Addr) /\ Len(<<a>>) = 1 /\ <<a>>[1] = a
    OBVIOUS
  <2>2. /\ <<a>> \o f(g.addr) \in Seq(Addr) /\ Len(<<a>> \o f(g.addr)) = 1 + k
        /\ \A j \in 1 .. 1 + k :
             (<<a>> \o f(g.addr))[j] = IF j <= 1 THEN <<a>>[j] ELSE f(g.addr)[j - 1]
    BY <1>4, <2>1, ConcatProperties
  <2> QED BY <1>2, <1>3, <1>4, <2>1, <2>2
<1>7. /\ h.line \in Seq(Row) /\ Len(h.line) = k + 1 /\ h.line[1] = i
      /\ \A j \in 2 .. k + 1 : h.line[j] = g.line[j - 1]
  <2>1. <<i>> \in Seq(Row) /\ Len(<<i>>) = 1 /\ <<i>>[1] = i
    OBVIOUS
  <2>2. /\ <<i>> \o f(g.line) \in Seq(Row) /\ Len(<<i>> \o f(g.line)) = 1 + k
        /\ \A j \in 1 .. 1 + k :
             (<<i>> \o f(g.line))[j] = IF j <= 1 THEN <<i>>[j] ELSE f(g.line)[j - 1]
    BY <1>5, <2>1, ConcatProperties
  <2> QED BY <1>2, <1>3, <1>5, <2>1, <2>2
<1>8. ASSUME NEW p \in 1 .. k + 1, NEW q \in 1 .. k + 1, p < q PROVE h.line[p] < h.line[q]
  <2>1. q \in 2 .. k + 1 /\ q - 1 \in 1 .. m /\ h.line[q] = g.line[q - 1]
    BY <1>2, <1>7, <1>8
  <2>2. CASE p = 1
    BY <1>7, <2>1, <2>2
  <2>3. CASE p # 1
    <3>1. p \in 2 .. k + 1 /\ p - 1 \in 1 .. m /\ p - 1 < q - 1 /\ h.line[p] = g.line[p - 1]
      BY <1>2, <1>7, <1>8, <2>3
    <3> QED BY <1>1, <2>1, <3>1
  <2> QED BY <2>2, <2>3
<1>9. h.alarm = TRUE /\ h = [addr |-> h.addr, line |-> h.line, alarm |-> h.alarm]
  BY <1>3 DEF GuideOK
<1>9a. k + 1 = IF Room(g) THEN m + 1 ELSE m
  BY <1>1
<1> HIDE DEF h, k
<1>9b. k + 1 < GoAddrSize
  BY <1>2, SizesOfConstants
<1>10. GuideOK(h)
  <2>1. h \in [addr : Seq(Addr), line : Seq(Row), alarm : BOOLEAN]
    BY <1>6, <1>7, <1>9
  <2> QED BY <1>6, <1>7, <1>8, <1>9b, <2>1 DEF GuideOK
<1>11. JumpFirst(g, h, i, a)
  BY <1>6, <1>7, <1>9a DEF JumpFirst
<1> QED BY <1>2, <1>6, <1>9, <1>10, <1>11 DEF h

(* Any other comes after them, if there is room.                           *)
LEMMA AddBelow ==
  ASSUME NEW g, GuideOK(g), ~g.alarm, NEW i \in Row, NEW a \in Addr,
         \A j \in 1 .. Len(g.addr) : g.line[j] < i
  PROVE  LET h == GidAddGoAddress(g, i, a)
         IN  /\ GuideOK(h) /\ h.alarm = FALSE
             /\ IF Room(g) THEN JumpLast(g, h, i, a) ELSE h = g
<1> DEFINE h == GidAddGoAddress(g, i, a)
           m == Len(g.addr)
<1>1. /\ m \in Nat /\ Len(g.line) = m
      /\ g.addr \in Seq(Addr) /\ g.line \in Seq(Row)
      /\ \A j \in 1 .. m : g.addr[j] \in Addr /\ g.line[j] \in Row
      /\ \A p, q \in 1 .. m : p < q => g.line[p] < g.line[q]
  BY GuideSeqs
<1>2. CASE ~Room(g)
  BY <1>2 DEF GidAddGoAddress, GuideOK
<1>3. CASE Room(g)
  <2>1. h = [addr |-> Append(g.addr, a), line |-> Append(g.line, i), alarm |-> g.alarm]
    BY <1>3 DEF GidAddGoAddress, GuideOK
  <2>2. /\ h.addr \in Seq(Addr) /\ Len(h.addr) = m + 1 /\ h.addr[m + 1] = a
        /\ \A j \in 1 .. m : h.addr[j] = g.addr[j]
    BY <1>1, <2>1, AppendProperties
  <2>3. /\ h.line \in Seq(Row) /\ Len(h.line) = m + 1 /\ h.line[m + 1] = i
        /\ \A j \in 1 .. m : h.line[j] = g.line[j]
    BY <1>1, <2>1, AppendProperties
  <2>4. h.alarm = FALSE /\ h = [addr |-> h.addr, line |-> h.line, alarm |-> h.alarm]
    BY <2>1 DEF GuideOK
  <2> HIDE DEF h
  <2>5. ASSUME NEW p \in 1 .. m + 1, NEW q \in 1 .. m + 1, p < q PROVE h.line[p] < h.line[q]
    <3>1. p \in 1 .. m
      BY <1>1, <2>5
    <3>2. CASE q = m + 1
      BY <2>3, <3>1, <3>2
    <3>3. CASE q # m + 1
      <4>1. q \in 1 .. m
        BY <1>1, <3>3
      <4> QED BY <1>1, <2>3, <2>5, <3>1, <4>1
    <3> QED BY <3>2, <3>3
  <2>6. m + 1 < GoAddrSize
    BY <1>1, <1>3, SizesOfConstants DEF Room
  <2>7. GuideOK(h)
    BY <2>2, <2>3, <2>4, <2>5, <2>6 DEF GuideOK
  <2>8. JumpLast(g, h, i, a)
    BY <2>2, <2>3 DEF JumpLast
  <2> QED BY <1>3, <2>4, <2>7, <2>8 DEF h
<1> QED BY <1>2, <1>3

-----------------------------------------------------------------------------
(* The screen and the guide, as they are painted on.                       *)
Lines == [Row -> Addr \cup {Blank}]
Marks == [Row -> {NoMark} \cup 0 .. GoAddrSize - 2]
Sizes == [Row -> 0 .. MaxCodeLen]

Canvas == [at : Nat, row : Lines, mark : Marks, len : Sizes,
           guide : [addr : Seq(Addr), line : Seq(Row), alarm : BOOLEAN]]

(* A line is an instruction, with its length, or blank.                    *)
LineOK(row, len, r) ==
  IF row[r] = Blank THEN len[r] = 0 ELSE len[r] = code[row[r]].len

Sheet(c) == /\ c \in Canvas /\ GuideOK(c.guide)
            /\ \A r \in Row : LineOK(c.row, c.len, r)

(* A line may be painted: above the jumps after a step up, else below.     *)
Paintable(c, i) ==
  \A j \in 1 .. Len(c.guide.addr) : IF c.guide.alarm THEN i < c.guide.line[j]
                                    ELSE c.guide.line[j] < i

Painted(c, d, i) ==
  /\ Sheet(d) /\ d.guide.alarm = c.guide.alarm
  /\ d.row[i] = IF c.at < FLen THEN c.at ELSE Blank
  /\ d.at = c.at + d.len[i]
  /\ \A r \in Row \ {i} : d.row[r] = c.row[r] /\ d.len[r] = c.len[r]
  /\ Listed(d.guide) \subseteq Listed(c.guide) \cup {i}

(* The keys that are written again are those of the guide; the other lines *)
(* keep theirs.                                                            *)
LEMMA RedrawnMarks ==
  ASSUME NEW g, GuideOK(g), NEW mark \in Marks, NEW lines,
         \A i, j \in 1 .. Len(g.addr) : i < j => lines[i] < lines[j],
         \A i \in 1 .. Len(g.addr) : lines[i] \in Int
  PROVE  /\ Redrawn(mark, g, lines) \in Marks
         /\ \A i \in 1 .. Len(g.addr) :
              lines[i] \in Row => Redrawn(mark, g, lines)[lines[i]] = gidGetAddressKey(g, i)
         /\ \A r \in Row : (\A i \in 1 .. Len(g.addr) : lines[i] # r)
                              => Redrawn(mark, g, lines)[r] = mark[r]
<1> DEFINE n == Len(g.addr)
           m == Redrawn(mark, g, lines)
           at(r) == CHOOSE i \in 1 .. n : lines[i] = r
<1>1. n \in Nat /\ n < GoAddrSize
  BY GuideSeqs DEF GuideOK
<1>2. m = [r \in Row |-> IF \E i \in 1 .. n : lines[i] = r THEN gidGetAddressKey(g, at(r))
                         ELSE mark[r]]
  BY DEF Redrawn
<1> HIDE DEF m
<1>3. ASSUME NEW i \in 1 .. n PROVE gidGetAddressKey(g, i) \in 0 .. GoAddrSize - 2
  BY <1>1, KeyRange, SizesOfConstants
<1>4. m \in Marks
  <2>1. ASSUME NEW r \in Row PROVE m[r] \in {NoMark} \cup 0 .. GoAddrSize - 2
    <3>1. CASE \E i \in 1 .. n : lines[i] = r
      <4>1. at(r) \in 1 .. n
        BY <3>1
      <4> HIDE DEF at
      <4> QED BY <1>2, <1>3, <3>1, <4>1
    <3>2. CASE ~\E i \in 1 .. n : lines[i] = r
      BY <1>2, <3>2 DEF Marks
    <3> QED BY <3>1, <3>2
  <2> QED BY <1>2, <2>1 DEF Marks
<1>5. ASSUME NEW i \in 1 .. n, lines[i] \in Row PROVE m[lines[i]] = gidGetAddressKey(g, i)
  <2>1. at(lines[i]) \in 1 .. n /\ lines[at(lines[i])] = lines[i]
    OBVIOUS
  <2>2. m[lines[i]] = gidGetAddressKey(g, at(lines[i]))
    BY <1>2, <1>5
  <2> HIDE DEF at
  <2>3. at(lines[i]) = i
    BY <1>1, <2>1
  <2> QED BY <2>2, <2>3
<1>6. ASSUME NEW r \in Row, \A i \in 1 .. n : lines[i] # r PROVE m[r] = mark[r]
  BY <1>2, <1>6
<1> QED BY <1>4, <1>5, <1>6 DEF m

(* The marks after a line was painted.                                     *)
NewMarks(c, g, i) ==
  LET plain == [c.mark EXCEPT ![i] = NoMark]
  IN  IF ~(c.guide.alarm \/ Room(c.guide)) THEN plain
      ELSE IF g.alarm THEN Redrawn(plain, g, g.line)
      ELSE [plain EXCEPT ![i] = gidGetAddressKey(g, Len(g.addr))]

(* Painting a line, with every field written out.                          *)
LEMMA PaintLineIs ==
  ASSUME NEW c \in Canvas, NEW i \in Row, code \in Decoding
  PROVE  LET d == PaintLine(c, i)
             g == GidAddGoAddress(c.guide, i, code[c.at].to)
         IN  IF c.at >= FLen
             THEN d = [at |-> c.at, row |-> [c.row EXCEPT ![i] = Blank],
                       mark |-> [c.mark EXCEPT ![i] = NoMark],
                       len |-> [c.len EXCEPT ![i] = 0], guide |-> c.guide]
             ELSE d = [at |-> c.at + code[c.at].len, row |-> [c.row EXCEPT ![i] = c.at],
                       mark |-> IF code[c.at].to = NoJump THEN [c.mark EXCEPT ![i] = NoMark]
                                ELSE NewMarks(c, g, i),
                       len |-> [c.len EXCEPT ![i] = code[c.at].len],
                       guide |-> IF code[c.at].to = NoJump THEN c.guide ELSE g]
<1>1. CASE c.at >= FLen
  BY <1>1 DEF PaintLine, Canvas
<1>2. CASE ~(c.at >= FLen)
  <2> DEFINE insn == code[c.at]
             shown == insn.to # NoJump /\ (c.guide.alarm \/ Room(c.guide))
             g == IF insn.to = NoJump THEN c.guide ELSE GidAddGoAddress(c.guide, i, insn.to)
             plain == [c.mark EXCEPT ![i] = NoMark]
             marks == IF ~shown THEN plain
                      ELSE IF g.alarm THEN Redrawn(plain, g, g.line)
                      ELSE [plain EXCEPT ![i] = gidGetAddressKey(g, Len(g.addr))]
  <2>1. PaintLine(c, i) = [c EXCEPT !.row[i] = c.at, !.len[i] = insn.len,
                                    !.at = c.at + insn.len, !.guide = g, !.mark = marks]
    BY <1>2 DEF PaintLine
  <2>2. marks = IF insn.to = NoJump THEN plain
                ELSE NewMarks(c, GidAddGoAddress(c.guide, i, insn.to), i)
    BY DEF NewMarks
  <2> HIDE DEF marks, g, insn
  <2>3. PaintLine(c, i) = [at |-> c.at + insn.len, row |-> [c.row EXCEPT ![i] = c.at],
                           mark |-> marks, len |-> [c.len EXCEPT ![i] = insn.len],
                           guide |-> g]
    BY <2>1 DEF Canvas
  <2> QED BY <1>2, <2>2, <2>3 DEF g, insn
<1> QED BY <1>1, <1>2

(* What the decoder finds at an offset of the file.                        *)
LEMMA Decodes ==
  ASSUME code \in Decoding
  PROVE  /\ \A a \in Addr : /\ code[a].len \in 1 .. MaxCodeLen
                            /\ code[a].to \in Addr \cup {NoJump}
                            /\ a \in Nat /\ a < FLen
         /\ Blank \notin Addr /\ NoJump \notin Addr
         /\ \A a \in Nat : a < FLen => a \in Addr
BY SizesOfConstants DEF Decoding, Addr, Blank, NoJump

(* The parts of a canvas.                                                  *)
LEMMA CanvasParts ==
  ASSUME NEW c, c \in Canvas
  PROVE  /\ c.at \in Nat /\ c.row \in Lines /\ c.mark \in Marks /\ c.len \in Sizes
         /\ c.guide \in [addr : Seq(Addr), line : Seq(Row), alarm : BOOLEAN]
BY DEF Canvas

(* The marks of a new guide are marks.                                     *)
LEMMA NewMarksOK ==
  ASSUME NEW c, Sheet(c), NEW i \in Row, NEW a \in Addr, Paintable(c, i)
  PROVE  LET g == GidAddGoAddress(c.guide, i, a)
         IN  /\ GuideOK(g) /\ g.alarm = c.guide.alarm
             /\ NewMarks(c, g, i) \in Marks
             /\ Listed(g) \subseteq Listed(c.guide) \cup {i}
             /\ c.guide.alarm => JumpFirst(c.guide, g, i, a) /\ Len(g.addr) > 0
             /\ ~c.guide.alarm =>
                  IF Room(c.guide) THEN JumpLast(c.guide, g, i, a) ELSE g = c.guide
<1> DEFINE g == GidAddGoAddress(c.guide, i, a)
           plain == [c.mark EXCEPT ![i] = NoMark]
<1>1. GuideOK(c.guide) /\ c.mark \in Marks
  BY CanvasParts DEF Sheet
<1>2. plain \in Marks
  BY <1>1 DEF Marks
<1>3. CASE c.guide.alarm
  <2>1. \A j \in 1 .. Len(c.guide.addr) : i < c.guide.line[j]
    BY <1>3 DEF Paintable
  <2>2. GuideOK(g) /\ g.alarm = TRUE /\ Len(g.addr) > 0 /\ JumpFirst(c.guide, g, i, a)
    BY <1>1, <1>3, <2>1, AddAtTop
  <2> HIDE DEF g, plain
  <2>3. NewMarks(c, g, i) = Redrawn(plain, g, g.line)
    BY <1>3, <2>2 DEF NewMarks, plain
  <2>4. /\ Len(g.addr) \in Nat
        /\ \A p, q \in 1 .. Len(g.addr) : p < q => g.line[p] < g.line[q]
        /\ \A p \in 1 .. Len(g.addr) : g.line[p] \in Row
    BY <2>2, GuideSeqs
  <2>5. Redrawn(plain, g, g.line) \in Marks
    <3>1. \A p \in 1 .. Len(g.addr) : g.line[p] \in Int
      BY <2>4 DEF Row
    <3> QED BY <1>2, <2>2, <2>4, <3>1, RedrawnMarks
  <2>6. Listed(g) \subseteq Listed(c.guide) \cup {i}
    <3> SUFFICES ASSUME NEW j \in 1 .. Len(g.addr) PROVE g.line[j] \in Listed(c.guide) \cup {i}
      BY DEF Listed
    <3>1. CASE j = 1
      BY <2>2, <3>1 DEF JumpFirst
    <3>2. CASE j # 1
      <4>1. j \in 2 .. Len(g.addr) /\ Len(c.guide.addr) \in Nat
        BY <1>1, <2>4, <3>2, GuideSeqs
      <4>2. g.line[j] = c.guide.line[j - 1] /\ j - 1 \in 1 .. Len(c.guide.addr)
        BY <2>2, <4>1 DEF JumpFirst
      <4> QED BY <4>2 DEF Listed
    <3> QED BY <3>1, <3>2
  <2> QED BY <1>3, <2>2, <2>3, <2>5, <2>6 DEF g
<1>4. CASE ~c.guide.alarm
  <2>1. \A j \in 1 .. Len(c.guide.addr) : c.guide.line[j] < i
    BY <1>4 DEF Paintable
  <2>2. /\ GuideOK(g) /\ g.alarm = FALSE
        /\ IF Room(c.guide) THEN JumpLast(c.guide, g, i, a) ELSE g = c.guide
    BY <1>1, <1>4, <2>1, AddBelow
  <2>3. c.guide.alarm = FALSE
    BY <1>1, <1>4 DEF GuideOK
  <2> HIDE DEF g
  <2>4. NewMarks(c, g, i) \in Marks
    <3>1. CASE ~Room(c.guide)
      BY <1>2, <1>4, <3>1 DEF NewMarks
    <3>2. CASE Room(c.guide)
      <4>1. Len(g.addr) \in Nat /\ Len(g.addr) > 0 /\ Len(g.addr) < GoAddrSize
        BY <1>1, <2>2, <3>2, GuideSeqs DEF JumpLast, GuideOK
      <4>2. gidGetAddressKey(g, Len(g.addr)) \in 0 .. GoAddrSize - 2
        BY <4>1, KeyRange, SizesOfConstants
      <4>3. NewMarks(c, g, i) = [plain EXCEPT ![i] = gidGetAddressKey(g, Len(g.addr))]
        BY <1>4, <2>2, <3>2 DEF NewMarks
      <4> HIDE DEF plain
      <4> QED BY <1>2, <4>2, <4>3 DEF Marks
    <3> QED BY <3>1, <3>2
  <2>5. Listed(g) \subseteq Listed(c.guide) \cup {i}
    <3>1. CASE ~Room(c.guide)
      BY <2>2, <3>1
    <3>2. CASE Room(c.guide)
      <4> SUFFICES ASSUME NEW j \in 1 .. Len(g.addr) PROVE g.line[j] \in Listed(c.guide) \cup {i}
        BY DEF Listed
      <4>1. Len(c.guide.addr) \in Nat
        BY <1>1, GuideSeqs
      <4> QED BY <2>2, <3>2, <4>1 DEF JumpLast, Listed
    <3> QED BY <3>1, <3>2
  <2> QED BY <1>4, <2>2, <2>3, <2>4, <2>5 DEF g
<1> QED BY <1>3, <1>4

(* To paint a line is to paint an instruction, or a blank.                 *)
LEMMA PaintFits ==
  ASSUME NEW c, Sheet(c), NEW i \in Row, Paintable(c, i), code \in Decoding
  PROVE  Painted(c, PaintLine(c, i), i)
<1> DEFINE d == PaintLine(c, i)
           g == GidAddGoAddress(c.guide, i, code[c.at].to)
<1>1. /\ c \in Canvas /\ GuideOK(c.guide) /\ c.at \in Nat
      /\ c.row \in Lines /\ c.mark \in Marks /\ c.len \in Sizes
      /\ \A r \in Row : LineOK(c.row, c.len, r)
  BY CanvasParts DEF Sheet
<1>2. CASE c.at >= FLen
  <2>1. d = [at |-> c.at, row |-> [c.row EXCEPT ![i] = Blank],
             mark |-> [c.mark EXCEPT ![i] = NoMark],
             len |-> [c.len EXCEPT ![i] = 0], guide |-> c.guide]
    BY <1>1, <1>2, PaintLineIs
  <2> HIDE DEF d
  <2>2. d \in Canvas
    BY <1>1, <2>1, SizesOfConstants DEF Canvas, Lines, Marks, Sizes
  <2>3. \A r \in Row : LineOK(d.row, d.len, r)
    BY <1>1, <2>1 DEF LineOK, Lines, Marks, Sizes
  <2>4. ~(c.at < FLen) /\ d.row[i] = Blank /\ d.len[i] = 0
    BY <1>1, <1>2, <2>1, SizesOfConstants DEF Lines, Sizes
  <2>5. \A r \in Row \ {i} : d.row[r] = c.row[r] /\ d.len[r] = c.len[r]
    BY <1>1, <2>1 DEF Lines, Sizes
  <2>6. d.guide = c.guide /\ d.at = c.at
    BY <2>1
  <2> QED BY <1>1, <2>2, <2>3, <2>4, <2>5, <2>6 DEF Painted, Sheet, d
<1>3. CASE ~(c.at >= FLen)
  <2> DEFINE marks == IF code[c.at].to = NoJump THEN [c.mark EXCEPT ![i] = NoMark]
                      ELSE NewMarks(c, g, i)
             h == IF code[c.at].to = NoJump THEN c.guide ELSE g
             n == code[c.at].len
  <2>1. d = [at |-> c.at + n, row |-> [c.row EXCEPT ![i] = c.at],
             mark |-> marks, len |-> [c.len EXCEPT ![i] = n], guide |-> h]
    BY <1>1, <1>3, PaintLineIs
  <2>2. /\ c.at \in Addr /\ n \in 1 .. MaxCodeLen /\ code[c.at].to \in Addr \cup {NoJump}
        /\ Blank \notin Addr
    BY <1>1, <1>3, Decodes, SizesOfConstants
  <2>3. /\ GuideOK(h) /\ h.alarm = c.guide.alarm /\ marks \in Marks
        /\ Listed(h) \subseteq Listed(c.guide) \cup {i}
    <3>1. CASE code[c.at].to = NoJump
      BY <1>1, <3>1 DEF Marks
    <3>2. CASE code[c.at].to # NoJump
      <4>1. code[c.at].to \in Addr
        BY <2>2, <3>2
      <4>2. /\ GuideOK(g) /\ g.alarm = c.guide.alarm
            /\ NewMarks(c, g, i) \in Marks
            /\ Listed(g) \subseteq Listed(c.guide) \cup {i}
        BY <4>1, NewMarksOK
      <4> QED BY <3>2, <4>2
    <3> QED BY <3>1, <3>2
  <2> HIDE DEF d, marks, h
  <2>4. d \in Canvas
    <3>1. c.at + n \in Nat
      BY <1>1, <2>2
    <3>2. [c.row EXCEPT ![i] = c.at] \in Lines /\ [c.len EXCEPT ![i] = n] \in Sizes
      BY <1>1, <2>2, SizesOfConstants DEF Lines, Sizes
    <3>3. h \in [addr : Seq(Addr), line : Seq(Row), alarm : BOOLEAN]
      BY <2>3 DEF GuideOK
    <3> QED BY <2>1, <2>3, <3>1, <3>2, <3>3 DEF Canvas
  <2>5. ASSUME NEW r \in Row PROVE LineOK(d.row, d.len, r)
    <3>1. CASE r = i
      BY <1>1, <2>1, <2>2, <3>1 DEF LineOK, Lines, Sizes
    <3>2. CASE r # i
      <4>1. d.row[r] = c.row[r] /\ d.len[r] = c.len[r]
        BY <1>1, <2>1, <3>2 DEF Lines, Sizes
      <4> QED BY <1>1, <4>1 DEF LineOK
    <3> QED BY <3>1, <3>2
  <2>6. d.row[i] = c.at /\ d.len[i] = n
    BY <1>1, <2>1 DEF Lines, Sizes
  <2>7. \A r \in Row \ {i} : d.row[r] = c.row[r] /\ d.len[r] = c.len[r]
    BY <1>1, <2>1 DEF Lines, Sizes
  <2>8. d.guide = h /\ d.at = c.at + n /\ c.at < FLen
    BY <1>1, <1>3, <2>1, SizesOfConstants
  <2> QED BY <2>3, <2>4, <2>5, <2>6, <2>7, <2>8 DEF Painted, Sheet, d
<1> QED BY <1>2, <1>3

(* The jumps of the guide are on the screen, with their keys.              *)
Pictured(c) ==
  \A j \in 1 .. Len(c.guide.addr) :
    /\ c.row[c.guide.line[j]] # Blank
    /\ code[c.row[c.guide.line[j]]].to = c.guide.addr[j]
    /\ c.mark[c.guide.line[j]] = gidGetAddressKey(c.guide, j)

(* The keys on the lines L are those of jumps of the guide.                *)
ListedIn(c, L) == \A r \in L : c.mark[r] # NoMark => r \in Listed(c.guide)

(* A line of a jump of the guide keeps its instruction when another is     *)
(* painted.                                                                *)
LEMMA OthersStay ==
  ASSUME NEW c, NEW d, NEW i \in Row, Sheet(c), Painted(c, d, i), Paintable(c, i), Pictured(c)
  PROVE  \A j \in 1 .. Len(c.guide.addr) :
           /\ c.guide.line[j] \in Row \ {i}
           /\ d.row[c.guide.line[j]] # Blank
           /\ code[d.row[c.guide.line[j]]].to = c.guide.addr[j]
<1> SUFFICES ASSUME NEW j \in 1 .. Len(c.guide.addr)
             PROVE  /\ c.guide.line[j] \in Row \ {i}
                    /\ d.row[c.guide.line[j]] # Blank
                    /\ code[d.row[c.guide.line[j]]].to = c.guide.addr[j]
  OBVIOUS
<1>1. c.guide.line[j] \in Row
  BY GuideSeqs DEF Sheet
<1>2. c.guide.line[j] # i
  BY <1>1 DEF Paintable, Row
<1> QED BY <1>1, <1>2 DEF Pictured, Painted

(* Painting a line keeps the pictures, and adds the line to those whose    *)
(* keys are listed, unless a full guide forgets a jump for it.             *)
LEMMA PaintPictures ==
  ASSUME NEW c, Sheet(c), NEW i \in Row, Paintable(c, i), code \in Decoding, Pictured(c)
  PROVE  /\ Pictured(PaintLine(c, i))
         /\ \A L \in SUBSET Row :
              /\ ListedIn(c, L)
              /\ c.guide.alarm /\ c.at < FLen /\ code[c.at].to # NoJump => Room(c.guide)
              => ListedIn(PaintLine(c, i), L \cup {i})
<1> DEFINE d == PaintLine(c, i)
           g == GidAddGoAddress(c.guide, i, code[c.at].to)
           m == Len(c.guide.addr)
           plain == [c.mark EXCEPT ![i] = NoMark]
<1>1. /\ c \in Canvas /\ GuideOK(c.guide) /\ c.at \in Nat /\ c.mark \in Marks /\ m \in Nat
      /\ plain \in Marks
  BY CanvasParts, GuideSeqs DEF Sheet, Marks
<1>2. Painted(c, d, i)
  BY PaintFits
<1>3. \A j \in 1 .. m : /\ c.guide.line[j] \in Row \ {i}
                        /\ d.row[c.guide.line[j]] # Blank
                        /\ code[d.row[c.guide.line[j]]].to = c.guide.addr[j]
  BY <1>2, OthersStay
<1>4. /\ \A r \in Row \ {i} : plain[r] = c.mark[r]
      /\ plain[i] = NoMark
  BY <1>1 DEF Marks
<1> HIDE DEF plain
(* No jump was painted, or it did not enter the guide.                     *)
<1>5. ASSUME d.guide = c.guide, d.mark = plain
      PROVE  Pictured(d) /\ \A L \in SUBSET Row : ListedIn(c, L) => ListedIn(d, L \cup {i})
  <2> HIDE DEF d
  <2>1. Pictured(d)
    BY <1>3, <1>4, <1>5 DEF Pictured
  <2>2. \A L \in SUBSET Row : ListedIn(c, L) => ListedIn(d, L \cup {i})
    BY <1>4, <1>5 DEF ListedIn
  <2> QED BY <2>1, <2>2
<1>6. CASE c.at >= FLen
  <2>1. d.guide = c.guide /\ d.mark = plain
    BY <1>1, <1>6, PaintLineIs DEF plain
  <2> HIDE DEF d
  <2> QED BY <1>5, <2>1 DEF d
<1>7. CASE ~(c.at >= FLen) /\ code[c.at].to = NoJump
  <2>1. d.guide = c.guide /\ d.mark = plain
    BY <1>1, <1>7, PaintLineIs DEF plain
  <2> HIDE DEF d
  <2> QED BY <1>5, <2>1 DEF d
<1>8. CASE ~(c.at >= FLen) /\ code[c.at].to # NoJump
  <2>1. d.guide = g /\ d.mark = NewMarks(c, g, i)
    BY <1>1, <1>8, PaintLineIs
  <2>2. c.at \in Addr /\ code[c.at].to \in Addr /\ c.at < FLen /\ Blank \notin Addr
    BY <1>1, <1>8, Decodes, SizesOfConstants
  <2>3. /\ GuideOK(g) /\ g.alarm = c.guide.alarm
        /\ c.guide.alarm => JumpFirst(c.guide, g, i, code[c.at].to) /\ Len(g.addr) > 0
        /\ ~c.guide.alarm => IF Room(c.guide) THEN JumpLast(c.guide, g, i, code[c.at].to)
                             ELSE g = c.guide
    BY <2>2, NewMarksOK
  <2>4. d.row[i] # Blank /\ code[d.row[i]].to = code[c.at].to
    BY <1>2, <2>2 DEF Painted
  <2> HIDE DEF d, g
  <2>5. Len(g.addr) \in Nat
    BY <2>3, GuideSeqs
  <2>6. CASE ~c.guide.alarm /\ ~Room(c.guide)
    <3>1. NewMarks(c, g, i) = plain
      BY <2>6 DEF NewMarks, plain
    <3>2. d.guide = c.guide /\ d.mark = plain
      BY <2>1, <2>3, <2>6, <3>1
    <3> QED BY <1>5, <3>2 DEF d
  <2>7. CASE ~c.guide.alarm /\ Room(c.guide)
    <3>1. /\ Len(g.addr) = m + 1 /\ g.addr[m + 1] = code[c.at].to /\ g.line[m + 1] = i
          /\ \A j \in 1 .. m : g.addr[j] = c.guide.addr[j] /\ g.line[j] = c.guide.line[j]
      BY <2>3, <2>7 DEF JumpLast
    <3>2. d.mark = [plain EXCEPT ![i] = gidGetAddressKey(g, Len(g.addr))]
      BY <2>1, <2>3, <2>7 DEF NewMarks, plain
    <3>3. d.mark[i] = gidGetAddressKey(g, m + 1) /\ \A r \in Row \ {i} : d.mark[r] = c.mark[r]
      BY <1>1, <1>4, <3>1, <3>2 DEF Marks
    <3>4. ASSUME NEW j \in 1 .. m PROVE gidGetAddressKey(c.guide, j) = gidGetAddressKey(g, j)
      <4>1. \A k \in 1 .. m : c.guide.addr[k] = g.addr[k]
        BY <3>1
      <4>2. m + 1 \in Nat /\ m \in 0 .. m + 1
        BY <1>1
      <4> QED BY <3>1, <4>1, <4>2, PrefixKeepsKeys
    <3>5. Pictured(d)
      <4> SUFFICES ASSUME NEW j \in 1 .. m + 1
                   PROVE  /\ d.row[g.line[j]] # Blank
                          /\ code[d.row[g.line[j]]].to = g.addr[j]
                          /\ d.mark[g.line[j]] = gidGetAddressKey(g, j)
        BY <2>1, <3>1 DEF Pictured
      <4>1. CASE j = m + 1
        BY <2>4, <3>1, <3>3, <4>1
      <4>2. CASE j # m + 1
        <5>1. j \in 1 .. m
          BY <1>1, <4>2
        <5> QED BY <1>3, <3>1, <3>3, <3>4, <5>1 DEF Pictured
      <4> QED BY <4>1, <4>2
    <3>6. \A L \in SUBSET Row : ListedIn(c, L) => ListedIn(d, L \cup {i})
      <4>1. i \in Listed(g) /\ Listed(c.guide) \subseteq Listed(g)
        BY <1>1, <3>1 DEF Listed
      <4> QED BY <2>1, <3>3, <4>1 DEF ListedIn
    <3> QED BY <3>5, <3>6 DEF d
  <2>8. CASE c.guide.alarm
    <3>1. /\ g.addr[1] = code[c.at].to /\ g.line[1] = i /\ Len(g.addr) > 0
          /\ Len(g.addr) = IF Room(c.guide) THEN m + 1 ELSE m
          /\ \A j \in 2 .. Len(g.addr) : /\ g.addr[j] = c.guide.addr[j - 1]
                                         /\ g.line[j] = c.guide.line[j - 1]
      BY <2>3, <2>8 DEF JumpFirst
    <3>2. d.mark = Redrawn(plain, g, g.line)
      BY <2>1, <2>3, <2>8 DEF NewMarks, plain
    <3>3. /\ \A p, q \in 1 .. Len(g.addr) : p < q => g.line[p] < g.line[q]
          /\ \A p \in 1 .. Len(g.addr) : g.line[p] \in Row /\ g.line[p] \in Int
      BY <2>3, GuideSeqs DEF Row
    <3>4. /\ \A j \in 1 .. Len(g.addr) : d.mark[g.line[j]] = gidGetAddressKey(g, j)
          /\ \A r \in Row : (\A j \in 1 .. Len(g.addr) : g.line[j] # r) => d.mark[r] = plain[r]
      BY <1>1, <2>3, <3>2, <3>3, RedrawnMarks
    <3>5. Pictured(d)
      <4> SUFFICES ASSUME NEW j \in 1 .. Len(g.addr)
                   PROVE  /\ d.row[g.line[j]] # Blank
                          /\ code[d.row[g.line[j]]].to = g.addr[j]
        BY <2>1, <3>4 DEF Pictured
      <4>1. CASE j = 1
        BY <2>4, <3>1, <4>1
      <4>2. CASE j # 1
        <5>1. j \in 2 .. Len(g.addr) /\ j - 1 \in 1 .. m
          BY <1>1, <2>5, <3>1, <4>2
        <5> QED BY <1>3, <3>1, <5>1
      <4> QED BY <4>1, <4>2
    <3>6. ASSUME Room(c.guide), NEW L \in SUBSET Row, ListedIn(c, L) PROVE ListedIn(d, L \cup {i})
      <4>1. Listed(c.guide) \subseteq Listed(g) /\ i \in Listed(g)
        <5>1. ASSUME NEW j \in 1 .. m PROVE c.guide.line[j] \in Listed(g)
          <6>1. j + 1 \in 2 .. Len(g.addr) /\ (j + 1) - 1 = j
            BY <1>1, <3>1, <3>6
          <6>2. g.line[j + 1] = c.guide.line[j]
            BY <3>1, <6>1
          <6> QED BY <6>1, <6>2 DEF Listed
        <5>2. 1 \in 1 .. Len(g.addr)
          BY <2>5, <3>1
        <5> QED BY <3>1, <5>1, <5>2 DEF Listed
      <4> SUFFICES ASSUME NEW r \in L \cup {i}, d.mark[r] # NoMark PROVE r \in Listed(g)
        BY <2>1 DEF ListedIn
      <4>2. CASE r = i
        BY <4>1, <4>2
      <4>3. CASE r # i
        <5> SUFFICES ASSUME r \notin Listed(g) PROVE FALSE
          OBVIOUS
        <5>1. r \in Row \ {i} /\ r \in L
          BY <4>3
        <5>2. d.mark[r] = c.mark[r]
          BY <1>4, <3>4, <5>1 DEF Listed
        <5> QED BY <3>6, <4>1, <5>1, <5>2 DEF ListedIn
      <4> QED BY <4>2, <4>3
    <3>7. \A L \in SUBSET Row : ListedIn(c, L) /\ Room(c.guide) => ListedIn(d, L \cup {i})
      BY <3>6
    <3>8. \A L \in SUBSET Row :
            /\ ListedIn(c, L)
            /\ c.guide.alarm /\ c.at < FLen /\ code[c.at].to # NoJump => Room(c.guide)
            => ListedIn(d, L \cup {i})
      BY <1>8, <2>2, <2>8, <3>7
    <3> QED BY <3>5, <3>8 DEF d
  <2> QED BY <2>6, <2>7, <2>8
<1> QED BY <1>6, <1>7, <1>8

-----------------------------------------------------------------------------
(* The loop over the lines.                                                *)
Loop(P, c, first, m) ==
  P = [i \in first - 1 .. m |-> IF i < first THEN c ELSE PaintLine(P[i - 1], i)]

(* There is a function that follows the turns of the loop.                 *)
LEMMA LoopExists ==
  ASSUME NEW c, NEW first \in Row, NEW last \in Row, first <= last
  PROVE  \E P : Loop(P, c, first, last)
<1> DEFINE n == last - first + 1
           T == {k \in 0 .. n : \E P : Loop(P, c, first, first - 1 + k)}
<1>0. first \in Int /\ last \in Int /\ n \in Nat
  BY SizesOfConstants DEF Row
<1>1. 0 \in T
  <2> DEFINE P == [i \in first - 1 .. first - 1 |-> c]
  <2>1. P = [i \in first - 1 .. first - 1 |-> IF i < first THEN c ELSE PaintLine(P[i - 1], i)]
    BY <1>0
  <2>2. Loop(P, c, first, first - 1 + 0)
    <3>1. first - 1 + 0 = first - 1
      BY <1>0
    <3> QED BY <2>1, <3>1 DEF Loop
  <2> HIDE DEF P
  <2> QED BY <1>0, <2>2
<1>2. ASSUME NEW k \in 0 .. n - 1, k \in T PROVE k + 1 \in T
  <2> DEFINE m == first + k
  <2>0. m \in Int /\ m - 1 = first - 1 + k /\ first - 1 + (k + 1) = m /\ m >= first
    BY <1>0
  <2>1. PICK P : Loop(P, c, first, m - 1)
    BY <1>2, <2>0
  <2> HIDE DEF m
  <2> DEFINE Q == [i \in first - 1 .. m |-> IF i = m THEN PaintLine(P[m - 1], m) ELSE P[i]]
             R == [i \in first - 1 .. m |-> IF i < first THEN c ELSE PaintLine(Q[i - 1], i)]
  <2>2. ASSUME NEW i \in first - 1 .. m PROVE Q[i] = R[i]
    <3>1. CASE i = m
      <4>1. m - 1 \in first - 1 .. m /\ m - 1 # m /\ ~(m < first)
        BY <1>0, <2>0
      <4>2. Q[m - 1] = P[m - 1]
        BY <4>1
      <4> HIDE DEF Q
      <4>3. R[m] = PaintLine(Q[m - 1], m)
        BY <3>1, <4>1
      <4>4. Q[m] = PaintLine(P[m - 1], m)
        BY <3>1 DEF Q
      <4> QED BY <3>1, <4>2, <4>3, <4>4
    <3>2. CASE i # m
      <4>1. i \in first - 1 .. m - 1 /\ (~(i < first) => i - 1 \in first - 1 .. m /\ i - 1 # m)
        BY <1>0, <2>0, <3>2
      <4>2. P[i] = IF i < first THEN c ELSE PaintLine(P[i - 1], i)
        BY <2>1, <4>1 DEF Loop
      <4>3. ~(i < first) => Q[i - 1] = P[i - 1]
        BY <4>1
      <4>4. Q[i] = P[i]
        BY <3>2
      <4>5. R[i] = IF i < first THEN c ELSE PaintLine(Q[i - 1], i)
        OBVIOUS
      <4> HIDE DEF Q, R
      <4> QED BY <4>2, <4>3, <4>4, <4>5
    <3> QED BY <3>1, <3>2
  <2>3. Q = R
    BY <2>2
  <2>4. Loop(Q, c, first, m)
    BY <2>3 DEF Loop
  <2> HIDE DEF Q
  <2> QED BY <1>0, <2>0, <2>4
<1> HIDE DEF T
<1>3. n \in T
  BY <1>0, <1>1, <1>2, RangeInduction
<1>4. first - 1 + n = last
  BY <1>0
<1> QED BY <1>3, <1>4 DEF T

(* PaintLines paints its lines one after the other.                        *)
LEMMA LoopTurns ==
  ASSUME NEW c, NEW first \in Row, NEW last \in Row, first <= last
  PROVE  \E P : /\ P[first - 1] = c
                /\ \A i \in first .. last : P[i] = PaintLine(P[i - 1], i)
                /\ PaintLines(c, first, last) = P[last]
<1> DEFINE P == CHOOSE P : P = [i \in first - 1 .. last |->
                                  IF i < first THEN c ELSE PaintLine(P[i - 1], i)]
<1>1. P = [i \in first - 1 .. last |-> IF i < first THEN c ELSE PaintLine(P[i - 1], i)]
  <2>1. PICK Q : Loop(Q, c, first, last)
    BY LoopExists
  <2>2. Q = [i \in first - 1 .. last |-> IF i < first THEN c ELSE PaintLine(Q[i - 1], i)]
    BY <2>1 DEF Loop
  <2> HIDE DEF P
  <2> QED BY <2>2 DEF P
<1>2. PaintLines(c, first, last) = P[last]
  BY DEF PaintLines
<1> HIDE DEF P
<1>3. first \in Int /\ last \in Int /\ first - 1 \in first - 1 .. last
  BY SizesOfConstants DEF Row
<1>4. P[first - 1] = c
  BY <1>1, <1>3
<1>5. ASSUME NEW i \in first .. last PROVE P[i] = PaintLine(P[i - 1], i)
  <2>1. i \in first - 1 .. last /\ ~(i < first)
    BY <1>3
  <2> QED BY <1>1, <2>1
<1> QED BY <1>2, <1>4, <1>5

(* A loop of one turn.                                                     *)
LEMMA OneLine ==
  ASSUME NEW c, NEW i \in Row
  PROVE  PaintLines(c, i, i) = PaintLine(c, i)
<1>1. i <= i /\ i \in i .. i
  BY SizesOfConstants DEF Row
<1>2. PICK P : /\ P[i - 1] = c /\ \A j \in i .. i : P[j] = PaintLine(P[j - 1], j)
               /\ PaintLines(c, i, i) = P[i]
  <2>1. \A first, last \in Row : first <= last =>
          \E P : /\ P[first - 1] = c
                 /\ \A j \in first .. last : P[j] = PaintLine(P[j - 1], j)
                 /\ PaintLines(c, first, last) = P[last]
    BY LoopTurns
  <2> QED BY <1>1, <2>1
<1>3. P[i] = PaintLine(P[i - 1], i)
  BY <1>1, <1>2
<1> QED BY <1>2, <1>3

(* A canvas of which the lines above i are painted, from p on.             *)
Above(i) == {r \in Row : r < i}

Whole(d, p, i) ==
  /\ Sheet(d) /\ d.guide.alarm = FALSE /\ Pictured(d)
  /\ Listed(d.guide) \subseteq Above(i) /\ ListedIn(d, Above(i))
  /\ d.at = p + Summ(d.len, i)
  /\ i > 0 => d.row[0] = p /\ (d.row[i - 1] = Blank => d.at >= FLen)
  /\ \A r \in Above(i) : r > 0 /\ d.row[r - 1] = Blank => d.row[r] = Blank

(* Lengths of lines are numbers.                                           *)
LEMMA SizesAreLengths == Sizes \subseteq Lengths
BY SizesOfConstants DEF Sizes, Lengths

(* One more line of a whole painting.                                      *)
LEMMA WholeStep ==
  ASSUME NEW c, NEW p \in Addr, NEW i \in Row, Whole(c, p, i), code \in Decoding
  PROVE  Whole(PaintLine(c, i), p, i + 1)
<1> DEFINE d == PaintLine(c, i)
<1>1. /\ Sheet(c) /\ c.guide.alarm = FALSE /\ Pictured(c)
      /\ Listed(c.guide) \subseteq Above(i) /\ ListedIn(c, Above(i))
      /\ c.at = p + Summ(c.len, i)
  BY DEF Whole
<1>2. c.at \in Nat /\ c.len \in Sizes /\ Len(c.guide.addr) \in Nat
  BY <1>1, CanvasParts, GuideSeqs DEF Sheet
<1>3. Paintable(c, i)
  BY <1>1 DEF Paintable, Listed, Above
<1>4. Painted(c, d, i)
  BY <1>1, <1>3, PaintFits
<1>5. Pictured(d) /\ ListedIn(d, Above(i) \cup {i})
  BY <1>1, <1>3, PaintPictures DEF Above
<1> HIDE DEF d
<1>6. Above(i) \cup {i} = Above(i + 1)
  BY SizesOfConstants DEF Above, Row
<1>7. /\ Sheet(d) /\ d.guide.alarm = FALSE /\ d.at = c.at + d.len[i]
      /\ d.row[i] = IF c.at < FLen THEN c.at ELSE Blank
      /\ \A r \in Row \ {i} : d.row[r] = c.row[r] /\ d.len[r] = c.len[r]
      /\ Listed(d.guide) \subseteq Above(i + 1)
  BY <1>1, <1>4, <1>6 DEF Painted
<1>8. d.len \in Sizes /\ d.len[i] \in Nat
  BY <1>7, CanvasParts, SizesOfConstants DEF Sheet, Sizes
<1>9. d.at = p + Summ(d.len, i + 1)
  <2>1. i \in 0 .. Height /\ \A r \in Row : r < i => r \in Row \ {i}
    BY SizesOfConstants DEF Row
  <2>2. Summ(c.len, i) = Summ(d.len, i)
    BY <1>2, <1>7, <1>8, <2>1, SummSame, SizesAreLengths
  <2>3. Summ(d.len, i + 1) = Summ(d.len, i) + d.len[i]
    BY SummStep
  <2>4. Summ(d.len, i) \in Nat /\ p \in Nat
    BY <1>8, <2>1, SummNat, SizesAreLengths, Decodes
  <2> QED BY <1>1, <1>7, <1>8, <2>2, <2>3, <2>4
<1>10. d.row[i] = Blank => d.at >= FLen
  <2>1. c.at < FLen => c.at # Blank
    BY <1>2 DEF Blank
  <2> QED BY <1>2, <1>7, <1>8, <2>1, SizesOfConstants
<1>11. d.row[0] = p
  <2>1. CASE i = 0
    <3>1. c.at = p /\ p < FLen
      BY <1>1, <2>1, SummStep, Decodes
    <3> QED BY <1>7, <2>1, <3>1
  <2>2. CASE i # 0
    <3>1. i > 0 /\ 0 \in Row \ {i}
      BY <2>2, SizesOfConstants DEF Row
    <3>2. c.row[0] = p
      BY <3>1 DEF Whole
    <3> QED BY <1>7, <3>1, <3>2
  <2> QED BY <2>1, <2>2
<1>12. ASSUME NEW r \in Above(i + 1), r > 0, d.row[r - 1] = Blank PROVE d.row[r] = Blank
  <2>1. r \in Row /\ r - 1 \in Row \ {i}
    BY <1>12, SizesOfConstants DEF Above, Row
  <2>2. c.row[r - 1] = Blank
    BY <1>7, <1>12, <2>1
  <2>3. CASE r = i
    <3>1. i > 0
      BY <1>12, <2>3
    <3>2. c.at >= FLen
      BY <2>2, <2>3, <3>1 DEF Whole
    <3>3. ~(c.at < FLen)
      BY <1>2, <3>2, SizesOfConstants
    <3> QED BY <1>7, <2>3, <3>3
  <2>4. CASE r # i
    <3>1. r \in Above(i) /\ r \in Row \ {i}
      BY <1>6, <2>1, <2>4
    <3>2. c.row[r] = Blank
      BY <1>12, <2>2, <3>1 DEF Whole
    <3> QED BY <1>7, <3>1, <3>2
  <2> QED BY <2>3, <2>4
<1>13. (i + 1) - 1 = i
  BY SizesOfConstants DEF Row
<1> QED BY <1>5, <1>6, <1>7, <1>9, <1>10, <1>11, <1>12, <1>13 DEF Whole, d

(* A screen that is painted from p on.                                     *)
LEMMA PaintWhole ==
  ASSUME NEW c, Sheet(c), c.guide = NoGuide, NEW p \in Addr, c.at = p, code \in Decoding
  PROVE  Whole(PaintLines(c, 0, Height - 1), p, Height)
<1>1. 0 \in Row /\ Height - 1 \in Row /\ 0 <= Height - 1 /\ Height \in Nat /\ p \in Nat
  BY SizesOfConstants DEF Addr
<1>2. PICK P : /\ P[0 - 1] = c
               /\ \A i \in 0 .. Height - 1 : P[i] = PaintLine(P[i - 1], i)
               /\ PaintLines(c, 0, Height - 1) = P[Height - 1]
  BY <1>1, LoopTurns
<1> DEFINE T == {i \in 0 .. Height : Whole(P[i - 1], p, i)}
<1>3. 0 \in T
  <2>1. Listed(c.guide) = {} /\ c.guide.alarm = FALSE /\ Len(c.guide.addr) = 0
    BY NoGuideOK, EmptySeq DEF NoGuide
  <2>2. Above(0) = {} /\ Summ(c.len, 0) = 0
    BY SummStep, SizesOfConstants DEF Above, Row
  <2>4. 1 .. Len(c.guide.addr) = {}
    BY <2>1
  <2>3. Pictured(c) /\ ListedIn(c, Above(0))
    <3>1. Pictured(c)
      <4> SUFFICES ASSUME NEW j \in 1 .. Len(c.guide.addr) PROVE FALSE
        BY DEF Pictured
      <4> QED BY <2>4
    <3>2. ListedIn(c, Above(0))
      BY <2>2 DEF ListedIn
    <3> QED BY <3>1, <3>2
  <2>5. Listed(c.guide) \subseteq Above(0) /\ ~(0 > 0)
    BY <2>1
  <2>6. c.at = p + Summ(c.len, 0)
    BY <1>1, <2>2
  <2>7. \A r \in Above(0) : r > 0 /\ c.row[r - 1] = Blank => c.row[r] = Blank
    BY <2>2
  <2>8. Whole(c, p, 0)
    BY <2>1, <2>3, <2>5, <2>6, <2>7 DEF Whole
  <2> QED BY <1>1, <1>2, <2>8
<1>4. ASSUME NEW i \in 0 .. Height - 1, i \in T PROVE i + 1 \in T
  <2>1. i \in Row /\ i + 1 \in 0 .. Height /\ (i + 1) - 1 = i
    BY <1>1 DEF Row
  <2>2. Whole(PaintLine(P[i - 1], i), p, i + 1)
    BY <1>4, <2>1, WholeStep
  <2> QED BY <1>2, <2>1, <2>2
<1> HIDE DEF T
<1>5. Height \in T
  BY <1>1, <1>3, <1>4, RangeInduction
<1> QED BY <1>2, <1>5 DEF T

-----------------------------------------------------------------------------
(* What a sweep finds: offsets before the bound, the last of which is of   *)
(* the instruction that reaches it.                                        *)
Swept(s, bound) ==
  /\ s \in Seq(Int) /\ \A i \in 1 .. Len(s) : s[i] \in 0 .. bound - 1
  /\ Len(s) > 0 => s[Len(s)] + code[s[Len(s)]].len >= bound

(* The recursion of Sweep, from an offset on.                              *)
Sweeps(S, bound, from) ==
  S = [a \in from .. bound + MaxCodeLen |->
         IF a >= bound THEN <<>> ELSE <<a>> \o S[a + code[a].len]]

(* There is such a function: it reads itself only at greater offsets.      *)
LEMMA SweepExists ==
  ASSUME NEW bound \in Addr, NEW from \in 0 .. bound, code \in Decoding
  PROVE  \E S : Sweeps(S, bound, from)
<1> DEFINE top == bound + MaxCodeLen
           n == top - from
           T == {k \in 0 .. n : \E S : Sweeps(S, bound, top - k)}
<1>0. /\ bound \in Nat /\ bound < FLen /\ from \in Nat /\ top \in Nat /\ n \in Nat
      /\ top > bound /\ MaxCodeLen \in Nat /\ top = bound + MaxCodeLen
      /\ FLen \in Nat
  BY SizesOfConstants DEF Addr
<1> HIDE DEF top
<1>1. 0 \in T
  <2> DEFINE S == [a \in top .. top |-> <<>>]
  <2>1. S = [a \in top .. top |-> IF a >= bound THEN <<>> ELSE <<a>> \o S[a + code[a].len]]
    BY <1>0
  <2>2. Sweeps(S, bound, top - 0)
    <3>1. top - 0 = top
      BY <1>0
    <3> HIDE DEF S
    <3> QED BY <1>0, <2>1, <3>1 DEF Sweeps
  <2> HIDE DEF S
  <2> QED BY <1>0, <2>2
<1>2. ASSUME NEW k \in 0 .. n - 1, k \in T PROVE k + 1 \in T
  <2> DEFINE b == top - (k + 1)
  <2>0. b \in from .. top - 1 /\ b \in Nat /\ b + 1 = top - k /\ b = top - (k + 1)
    BY <1>0
  <2>1. PICK S : Sweeps(S, bound, b + 1)
    BY <1>2, <2>0
  <2> HIDE DEF b
  <2> DEFINE new == IF b >= bound THEN <<>> ELSE <<b>> \o S[b + code[b].len]
             Q == [a \in b .. top |-> IF a = b THEN new ELSE S[a]]
             R == [a \in b .. top |-> IF a >= bound THEN <<>> ELSE <<a>> \o Q[a + code[a].len]]
  <2>2. ASSUME NEW a \in b .. top PROVE Q[a] = R[a]
    <3>1. a < bound => a + code[a].len \in b + 1 .. top /\ a + code[a].len # b
      <4>1. ASSUME a < bound PROVE a + code[a].len \in b + 1 .. top /\ a + code[a].len # b
        <5>1. a \in Addr
          <6>1. a \in 0 .. FLen - 1
            BY <1>0, <2>0, <4>1
          <6> QED BY <6>1 DEF Addr
        <5>2. code[a].len \in 1 .. MaxCodeLen
          BY <5>1, Decodes
        <5> QED BY <1>0, <2>0, <4>1, <5>2
      <4> QED BY <4>1
    <3>2. a < bound => Q[a + code[a].len] = S[a + code[a].len]
      BY <2>0, <3>1
    <3>3. R[a] = IF a >= bound THEN <<>> ELSE <<a>> \o S[a + code[a].len]
      <4>1. R[a] = IF a >= bound THEN <<>> ELSE <<a>> \o Q[a + code[a].len]
        OBVIOUS
      <4> HIDE DEF R, Q
      <4> QED BY <1>0, <2>0, <3>2, <4>1
    <3>4. CASE a = b
      <4>1. Q[a] = new
        BY <3>4
      <4> HIDE DEF Q, R
      <4> QED BY <3>3, <3>4, <4>1
    <3>5. CASE a # b
      <4>1. Q[a] = S[a] /\ a \in b + 1 .. top
        BY <2>0, <3>5
      <4>2. S[a] = IF a >= bound THEN <<>> ELSE <<a>> \o S[a + code[a].len]
        BY <1>0, <2>1, <4>1 DEF Sweeps
      <4> HIDE DEF Q, R
      <4> QED BY <3>3, <4>1, <4>2
    <3> QED BY <3>4, <3>5
  <2>3. Q = R
    BY <2>2
  <2>4. Sweeps(Q, bound, b)
    <3> HIDE DEF Q
    <3> QED BY <1>0, <2>3 DEF Sweeps
  <2> HIDE DEF Q
  <2> QED BY <1>0, <2>0, <2>4
<1> HIDE DEF T
<1>3. n \in T
  <2> HIDE DEF n
  <2> QED BY <1>0, <1>1, <1>2, RangeInduction
<1>4. top - n = from
  BY <1>0
<1> QED BY <1>3, <1>4 DEF T

(* A sweep finds offsets before its bound, and the last instruction ends   *)
(* there or beyond.                                                        *)
LEMMA SweepFinds ==
  ASSUME NEW bound \in Addr, NEW from \in 0 .. bound, code \in Decoding
  PROVE  Swept(Sweep(from, bound), bound)
<1> DEFINE top == bound + MaxCodeLen
           n == top - from
           S == CHOOSE S : S = [a \in from .. bound + MaxCodeLen |->
                                  IF a >= bound THEN <<>> ELSE <<a>> \o S[a + code[a].len]]
           Fine(a) == Swept(S[a], bound) /\ (Len(S[a]) = 0 => a >= bound)
           T == {k \in 0 .. n : \A a \in top - k .. top : Fine(a)}
<1>0. /\ bound \in Nat /\ bound < FLen /\ from \in Nat /\ top \in Nat /\ n \in Nat
      /\ top > bound /\ MaxCodeLen \in Nat /\ top = bound + MaxCodeLen
      /\ from <= bound /\ FLen \in Nat
  BY SizesOfConstants DEF Addr
<1>1. \A a \in from .. top : S[a] = IF a >= bound THEN <<>> ELSE <<a>> \o S[a + code[a].len]
  <2>1. PICK Q : Sweeps(Q, bound, from)
    BY SweepExists
  <2>2. Q = [a \in from .. bound + MaxCodeLen |->
               IF a >= bound THEN <<>> ELSE <<a>> \o Q[a + code[a].len]]
    BY <2>1 DEF Sweeps
  <2>3. S = [a \in from .. bound + MaxCodeLen |->
               IF a >= bound THEN <<>> ELSE <<a>> \o S[a + code[a].len]]
    <3> HIDE DEF S
    <3> QED BY <2>2 DEF S
  <2> HIDE DEF S
  <2> QED BY <2>3
<1>2. Sweep(from, bound) = S[from]
  BY DEF Sweep
<1> HIDE DEF S, top
<1>3. ASSUME NEW a \in from .. top, a >= bound PROVE Fine(a)
  <2>1. S[a] = <<>>
    BY <1>0, <1>1, <1>3
  <2>2. <<>> \in Seq(Int) /\ Len(<<>>) = 0
    BY EmptySeq
  <2> QED BY <1>3, <2>1, <2>2 DEF Swept
<1>4. 0 \in T
  <2>1. \A a \in top - 0 .. top : a \in from .. top /\ a >= bound
    BY <1>0
  <2> QED BY <1>0, <1>3, <2>1
<1>5. ASSUME NEW k \in 0 .. n - 1, k \in T PROVE k + 1 \in T
  <2> DEFINE b == top - (k + 1)
  <2>0. b \in from .. top - 1 /\ b \in Nat /\ b + 1 = top - k /\ b = top - (k + 1)
    BY <1>0
  <2> HIDE DEF b
  <2>1. \A a \in b + 1 .. top : Fine(a)
    BY <1>5, <2>0
  <2>2. CASE b >= bound
    <3>1. Fine(b)
      BY <1>0, <1>3, <2>0, <2>2
    <3>2. \A a \in b .. top : a = b \/ a \in b + 1 .. top
      BY <1>0, <2>0
    <3> QED BY <1>0, <2>0, <2>1, <3>1, <3>2
  <2>3. CASE b < bound
    <3>1. b \in Addr /\ b \in 0 .. bound - 1
      <4>1. b \in 0 .. FLen - 1 /\ b \in 0 .. bound - 1
        BY <1>0, <2>0, <2>3
      <4> QED BY <4>1 DEF Addr
    <3>2. code[b].len \in 1 .. MaxCodeLen
      BY <3>1, Decodes
    <3> DEFINE e == b + code[b].len
               s == S[e]
    <3>3. e \in b + 1 .. top /\ e \in Nat
      BY <1>0, <2>0, <2>3, <3>2
    <3>4. Swept(s, bound) /\ (Len(s) = 0 => e >= bound)
      <4>1. Fine(e)
        <5> HIDE DEF e, Fine
        <5> QED BY <2>1, <3>3
      <4> QED BY <4>1
    <3>5. S[b] = <<b>> \o s
      <4>1. b \in from .. top /\ ~(b >= bound)
        BY <1>0, <2>0, <2>3
      <4> QED BY <1>1, <4>1
    <3>6. Len(s) = 0 => e >= bound
      BY <3>4
    <3>6a. e = b + code[b].len
      OBVIOUS
    <3> HIDE DEF s, e
    <3>7. /\ s \in Seq(Int) /\ Len(s) \in Nat
          /\ \A i \in 1 .. Len(s) : s[i] \in 0 .. bound - 1
          /\ Len(s) > 0 => s[Len(s)] + code[s[Len(s)]].len >= bound
      BY <3>4, LenProperties DEF Swept
    <3>8. <<b>> \in Seq(Int) /\ Len(<<b>>) = 1 /\ <<b>>[1] = b
      BY <2>0
    <3> DEFINE t == <<b>> \o s
    <3>9. /\ t \in Seq(Int) /\ Len(t) = 1 + Len(s)
          /\ \A i \in 1 .. 1 + Len(s) : t[i] = IF i <= 1 THEN <<b>>[i] ELSE s[i - 1]
      BY <3>7, <3>8, ConcatProperties
    <3> HIDE DEF t
    <3>10. t[1] = b
      <4>1. 1 \in 1 .. 1 + Len(s) /\ 1 <= 1
        BY <3>7
      <4> QED BY <3>8, <3>9, <4>1
    <3>10a. ASSUME NEW i \in 2 .. 1 + Len(s) PROVE t[i] = s[i - 1] /\ i - 1 \in 1 .. Len(s)
      <4>1. i \in 1 .. 1 + Len(s) /\ ~(i <= 1) /\ i - 1 \in 1 .. Len(s)
        BY <3>7
      <4> QED BY <3>9, <4>1
    <3>11. \A i \in 1 .. Len(t) : t[i] \in 0 .. bound - 1
      <4> SUFFICES ASSUME NEW i \in 1 .. 1 + Len(s) PROVE t[i] \in 0 .. bound - 1
        BY <3>9
      <4>1. CASE i = 1
        BY <3>1, <3>10, <4>1
      <4>2. CASE i # 1
        <5>1. i \in 2 .. 1 + Len(s)
          BY <3>7, <4>2
        <5> QED BY <3>7, <3>10a, <5>1
      <4> QED BY <4>1, <4>2
    <3>12. t[Len(t)] + code[t[Len(t)]].len >= bound
      <4>1. CASE Len(s) = 0
        <5>1. Len(t) = 1
          BY <3>9, <4>1
        <5> QED BY <3>6, <3>6a, <3>10, <4>1, <5>1
      <4>2. CASE Len(s) # 0
        <5>1. Len(t) \in 2 .. 1 + Len(s) /\ Len(t) - 1 = Len(s)
          BY <3>7, <3>9, <4>2
        <5>2. t[Len(t)] = s[Len(s)]
          BY <3>10a, <5>1
        <5> QED BY <3>7, <4>2, <5>2
      <4> QED BY <4>1, <4>2
    <3>13. Swept(t, bound)
      BY <3>9, <3>11, <3>12 DEF Swept
    <3>14. Fine(b)
      <4>1. S[b] = t
        BY <3>5 DEF t
      <4> QED BY <3>7, <3>9, <3>13, <4>1
    <3>15. \A a \in b .. top : a = b \/ a \in b + 1 .. top
      BY <1>0, <2>0
    <3> QED BY <1>0, <2>0, <2>1, <3>14, <3>15
  <2> QED BY <1>0, <2>0, <2>2, <2>3
<1> HIDE DEF T
<1>6. n \in T
  <2> HIDE DEF n
  <2> QED BY <1>0, <1>4, <1>5, RangeInduction
<1>7. top - n = from /\ from \in from .. top
  BY <1>0
<1> QED BY <1>2, <1>6, <1>7 DEF T

(* The lines before an offset end with the one that reaches it.            *)
LEMMA FillFinds ==
  ASSUME NEW bound \in Addr, NEW predist \in Nat, code \in Decoding
  PROVE  Swept(FillPrevAsmPage(bound, predist), bound)
<1> DEFINE far  == (predist \div Align) * Align + Align
           from == IF bound >= far THEN bound - far ELSE 0
           seen == Sweep(from, bound)
           n    == Len(seen)
           k    == IF n > Height THEN n - Height + 1 ELSE 1
<1>1. far \in Nat
  <2>1. Align \in Nat /\ Align > 0
    BY ViewAssumption
  <2> DEFINE q == predist \div Align
  <2>2. q \in Nat
    BY <2>1
  <2> HIDE DEF q
  <2>3. q * Align \in Nat
    BY <2>1, <2>2
  <2> QED BY <2>1, <2>3 DEF q
<1> HIDE DEF far
<1>2. from \in 0 .. bound /\ bound \in Nat
  <2>1. bound \in Nat
    BY Decodes
  <2> QED BY <1>1, <2>1
<1> HIDE DEF from
<1>3. Swept(seen, bound)
  BY <1>2, SweepFinds
<1>4. FillPrevAsmPage(bound, predist) = SubSeq(seen, k, n)
  BY DEF FillPrevAsmPage, seen, from, far
<1> HIDE DEF seen
<1>5. n \in Nat /\ k \in 1 .. n + 1 /\ Height \in Nat
  BY <1>3, LenProperties, SizesOfConstants DEF Swept
<1> HIDE DEF n, k
<1>6. \A i \in k .. n : seen[i] \in 0 .. bound - 1
  BY <1>3, <1>5 DEF Swept, n
<1> DEFINE s == SubSeq(seen, k, n)
           m == n - k + 1
<1>7. /\ s \in Seq(0 .. bound - 1) /\ Len(s) = IF k <= n THEN n - k + 1 ELSE 0
      /\ \A i \in 1 .. n - k + 1 : s[i] = seen[k + i - 1]
  BY <1>5, <1>6, SubSeqProperties
<1> HIDE DEF s
<1>8. Len(s) = m /\ m \in Nat
  BY <1>5, <1>7
<1>9. ASSUME NEW i \in 1 .. m PROVE s[i] \in 0 .. bound - 1 /\ s[i] = seen[k + i - 1]
  <2>1. k + i - 1 \in k .. n
    BY <1>5, <1>8
  <2> QED BY <1>6, <1>7, <2>1
<1>10. s \in Seq(Int)
  <2>1. s \in [1 .. m -> Int]
    <3>1. s = [i \in 1 .. m |-> s[i]]
      BY <1>7, <1>8, SeqDef, LenProperties
    <3>2. \A i \in 1 .. m : s[i] \in Int
      BY <1>2, <1>9
    <3> HIDE DEF m
    <3> QED BY <3>1, <3>2
  <2> QED BY <1>8, <2>1, SeqDef
<1>11. m > 0 => s[m] + code[s[m]].len >= bound
  <2> SUFFICES ASSUME m > 0 PROVE s[m] + code[s[m]].len >= bound
    OBVIOUS
  <2>1. m \in 1 .. m /\ k + m - 1 = n /\ n > 0
    BY <1>5, <1>8
  <2>2. s[m] = seen[n]
    BY <1>9, <2>1
  <2> QED BY <1>3, <2>1, <2>2 DEF Swept, n
<1> HIDE DEF m
<1>12. Swept(s, bound)
  BY <1>8, <1>9, <1>10, <1>11 DEF Swept
<1> QED BY <1>4, <1>12 DEF s

-----------------------------------------------------------------------------
(* What is known of the lines above the screen, for a position.            *)
PageOK(pg, at) ==
  /\ pg \in [PrevStrLenAddr : Seq(Int), PrevStrLen : Int, CurrStrLen : Nat,
             PrevPageSize : Nat, CurrPageSize : Nat]
  /\ \A i \in 1 .. Len(pg.PrevStrLenAddr) : pg.PrevStrLenAddr[i] <= at

(* An Up that would reach the start of the file comes from the first       *)
(* instruction.                                                            *)
Near(dist, at) == dist >= at => code[0].len >= at

Page(above, dist, cur, size, pg) ==
  [PrevStrLenAddr |-> above, PrevStrLen |-> dist, CurrStrLen |-> cur,
   PrevPageSize |-> size, CurrPageSize |-> pg.CurrPageSize]

(* The fields of a page.                                                   *)
LEMMA PageMade ==
  ASSUME NEW pg, NEW q, PageOK(pg, q), NEW at \in Int,
         NEW above \in Seq(Int), \A i \in 1 .. Len(above) : above[i] <= at,
         NEW dist \in Int, NEW cur \in Nat, NEW size \in Nat
  PROVE  PageOK(Page(above, dist, cur, size, pg), at)
BY DEF Page, PageOK

(* The page after a sweep.                                                 *)
LEMMA SweepBackFits ==
  ASSUME NEW pg, NEW q \in Int, PageOK(pg, q), NEW at \in Addr, NEW predist \in Nat,
         code \in Decoding
  PROVE  LET n == SweepBack(pg, at, predist)
         IN  /\ PageOK(n, at) /\ Near(n.PrevStrLen, at)
             /\ n.CurrStrLen = pg.CurrStrLen /\ n.CurrPageSize = pg.CurrPageSize
<1> DEFINE above == FillPrevAsmPage(at, predist)
           dist == IF above = <<>> THEN 0 ELSE at - Last(above)
           size == IF above = <<>> THEN 0 ELSE at - Head(above)
           n == SweepBack(pg, at, predist)
           m == Len(above)
<1>1. Swept(above, at)
  BY FillFinds
<1>2. at \in Nat /\ 0 \in Addr /\ code[0].len \in Nat
  <2>1. at \in Nat /\ 0 \in Addr
    BY SizesOfConstants, Decodes DEF Addr
  <2>2. code[0].len \in 1 .. MaxCodeLen
    BY <2>1, Decodes
  <2> QED BY <2>1, <2>2, SizesOfConstants
<1>3. n = [pg EXCEPT !.PrevStrLenAddr = above, !.PrevStrLen = dist, !.PrevPageSize = size]
  BY DEF SweepBack
<1> HIDE DEF above, n
<1>4. /\ above \in Seq(Int) /\ m \in Nat /\ (above # <<>> <=> m > 0)
      /\ \A i \in 1 .. m : above[i] \in 0 .. at - 1
      /\ m > 0 => above[m] + code[above[m]].len >= at
  BY <1>1, EmptySeq, LenProperties DEF Swept
<1>5. above # <<>> => /\ dist = at - above[m] /\ size = at - above[1]
                      /\ above[1] \in 0 .. at - 1 /\ above[m] \in 0 .. at - 1
                      /\ above[m] + code[above[m]].len >= at
  BY <1>4 DEF Last
<1>6. dist \in Int /\ size \in Nat /\ \A i \in 1 .. m : above[i] <= at
  <2>1. \A i \in 1 .. m : above[i] <= at
    BY <1>2, <1>4
  <2>2. CASE above = <<>>
    BY <2>1, <2>2
  <2>3. CASE above # <<>>
    <3> HIDE DEF dist, size, m
    <3> QED BY <1>2, <1>5, <2>1, <2>3
  <2> QED BY <2>2, <2>3
<1>7. Near(dist, at)
  <2> SUFFICES ASSUME dist >= at PROVE code[0].len >= at
    BY DEF Near
  <2>1. CASE above = <<>>
    BY <1>2, <2>1
  <2>2. CASE above # <<>>
    <3> HIDE DEF dist, size, m
    <3>1. above[m] = 0
      BY <1>2, <1>5, <2>2
    <3> QED BY <1>2, <1>5, <2>2, <3>1
  <2> QED BY <2>1, <2>2
<1> HIDE DEF dist, size
<1>8. n = Page(above, dist, pg.CurrStrLen, size, pg)
  BY <1>3 DEF Page, PageOK
<1>9. pg.CurrStrLen \in Nat
  BY DEF PageOK
<1>10. PageOK(n, at)
  <2>1. at \in Int /\ above \in Seq(Int) /\ \A i \in 1 .. Len(above) : above[i] <= at
    BY <1>2, <1>4, <1>6
  <2>2. PageOK(Page(above, dist, pg.CurrStrLen, size, pg), at)
    BY <1>6, <1>9, <2>1, PageMade
  <2> QED BY <1>8, <2>2
<1>11. /\ n.PrevStrLen = dist /\ n.CurrStrLen = pg.CurrStrLen
       /\ n.CurrPageSize = pg.CurrPageSize
  BY <1>8 DEF Page
<1> QED BY <1>7, <1>10, <1>11 DEF n

(* The page after a step down.                                             *)
LEMMA StepBackFits ==
  ASSUME NEW pg, NEW q \in Int, PageOK(pg, q), NEW at \in Addr, q <= at, NEW len \in Sizes
  PROVE  LET n == StepBack(pg, len, at)
         IN  /\ PageOK(n, at) /\ n.PrevStrLen = len[0] /\ n.CurrStrLen = len[1]
             /\ n.CurrPageSize = pg.CurrPageSize
<1> DEFINE old   == IF Len(pg.PrevStrLenAddr) < Height THEN pg.PrevStrLenAddr
                    ELSE Tail(pg.PrevStrLenAddr)
           above == Append(old, at - len[0])
           m     == Len(above)
           size  == Last(above) - Head(above) + len[0]
           n     == StepBack(pg, len, at)
<1>1. /\ at \in Int /\ Height \in Nat /\ Height > 0
      /\ len[0] \in Nat /\ len[1] \in Nat
  BY SizesOfConstants DEF Addr, Sizes
<1>2. /\ pg.PrevStrLenAddr \in Seq(Int) /\ Len(pg.PrevStrLenAddr) \in Nat
      /\ \A i \in 1 .. Len(pg.PrevStrLenAddr) : pg.PrevStrLenAddr[i] <= q
  BY LenProperties DEF PageOK
<1>3. /\ old \in Seq(Int) /\ Len(old) \in Nat
      /\ \A i \in 1 .. Len(old) : old[i] <= at
  <2>1. \A i \in 1 .. Len(pg.PrevStrLenAddr) :
          pg.PrevStrLenAddr[i] <= at /\ pg.PrevStrLenAddr[i] \in Int
    BY <1>1, <1>2, ElementOfSeq
  <2>2. CASE Len(pg.PrevStrLenAddr) < Height
    BY <1>2, <2>1, <2>2
  <2>3. CASE ~(Len(pg.PrevStrLenAddr) < Height)
    <3>1. pg.PrevStrLenAddr # <<>>
      BY <1>1, <1>2, <2>3, EmptySeq
    <3>2. /\ Tail(pg.PrevStrLenAddr) \in Seq(Int)
          /\ Len(Tail(pg.PrevStrLenAddr)) = Len(pg.PrevStrLenAddr) - 1
          /\ \A i \in 1 .. Len(Tail(pg.PrevStrLenAddr)) :
               Tail(pg.PrevStrLenAddr)[i] = pg.PrevStrLenAddr[i + 1]
      BY <1>2, <3>1, HeadTailProperties
    <3>3. Len(pg.PrevStrLenAddr) - 1 \in Nat
      BY <1>1, <1>2, <2>3
    <3>4. \A i \in 1 .. Len(pg.PrevStrLenAddr) - 1 : i + 1 \in 1 .. Len(pg.PrevStrLenAddr)
      BY <1>2
    <3> QED BY <2>1, <2>3, <3>2, <3>3, <3>4
  <2> QED BY <2>2, <2>3
<1> HIDE DEF old
<1>4. /\ above \in Seq(Int) /\ m = Len(old) + 1
      /\ \A i \in 1 .. Len(old) : above[i] = old[i]
      /\ above[m] = at - len[0]
  <2>1. at - len[0] \in Int
    BY <1>1
  <2> QED BY <1>3, <2>1, AppendProperties
<1>5. \A i \in 1 .. m : above[i] <= at /\ above[i] \in Int
  <2> SUFFICES ASSUME NEW i \in 1 .. m PROVE above[i] <= at /\ above[i] \in Int
    OBVIOUS
  <2>1. CASE i = m
    BY <1>1, <1>4, <2>1
  <2>2. CASE i # m
    <3>1. i \in 1 .. Len(old)
      BY <1>3, <1>4, <2>2
    <3>2. old[i] \in Int
      BY <1>3, <3>1, ElementOfSeq
    <3> QED BY <1>3, <1>4, <3>1, <3>2
  <2> QED BY <2>1, <2>2
<1>6. size \in Nat
  <2>1. Last(above) = above[m] /\ Head(above) = above[1]
    BY DEF Last
  <2>2. 1 \in 1 .. m
    BY <1>3, <1>4
  <2> HIDE DEF above, m
  <2> QED BY <1>1, <1>4, <1>5, <2>1, <2>2
<1>7. n = [pg EXCEPT !.PrevStrLenAddr = above, !.PrevStrLen = len[0],
                     !.CurrStrLen = len[1], !.PrevPageSize = size]
  BY DEF StepBack, old
<1> HIDE DEF above, size, n
<1>8. n = Page(above, len[0], len[1], size, pg)
  BY <1>7 DEF Page, PageOK
<1>9. PageOK(n, at)
  <2>1. above \in Seq(Int) /\ \A i \in 1 .. Len(above) : above[i] <= at
    BY <1>4, <1>5
  <2>2. len[0] \in Int
    BY <1>1
  <2>3. PageOK(Page(above, len[0], len[1], size, pg), at)
    BY <1>1, <1>6, <2>1, <2>2, PageMade
  <2> QED BY <1>8, <2>3
<1>10. n.PrevStrLen = len[0] /\ n.CurrStrLen = len[1] /\ n.CurrPageSize = pg.CurrPageSize
  BY <1>8 DEF Page
<1> QED BY <1>9, <1>10 DEF n

(* The page after a page down.                                             *)
LEMMA PageBackFits ==
  ASSUME NEW pg, NEW q \in Int, PageOK(pg, q), NEW at \in Addr, NEW len \in Sizes
  PROVE  LET n == PageBack(pg, len, at)
         IN  /\ PageOK(n, at) /\ n.PrevStrLen = len[Height - 1]
             /\ n.PrevPageSize = Summ(len, Height)
             /\ n.CurrStrLen = pg.CurrStrLen /\ n.CurrPageSize = pg.CurrPageSize
<1> DEFINE size  == Summ(len, Height)
           above == [i \in 1 .. Height |-> at - size + Summ(len, i)]
           n     == PageBack(pg, len, at)
<1>1. at \in Int /\ Height \in Nat /\ len[Height - 1] \in Nat /\ len \in Lengths
  BY SizesOfConstants DEF Addr, Sizes, Lengths
<1>2. /\ size \in Nat
      /\ \A i \in 1 .. Height : Summ(len, i) \in Nat /\ Summ(len, i) <= size
  <2>1. \A i \in 0 .. Height : Summ(len, i) \in Nat /\ Summ(len, i) <= Summ(len, Height)
    BY <1>1, SummNat, SummGrows
  <2>2. Height \in 0 .. Height /\ 1 .. Height \subseteq 0 .. Height
    BY <1>1
  <2> QED BY <2>1, <2>2
<1>3. n = [pg EXCEPT !.PrevStrLenAddr = above, !.PrevStrLen = len[Height - 1],
                     !.PrevPageSize = size]
  BY DEF PageBack
<1> HIDE DEF size, n
<1>4. \A i \in 1 .. Height : above[i] \in Int /\ above[i] <= at
  BY <1>1, <1>2
<1>5. above \in [1 .. Height -> Int]
  BY <1>1, <1>2
<1>6. above \in Seq(Int) /\ Len(above) = Height
  BY <1>1, <1>5, SeqDef, LenProperties
<1> HIDE DEF above
<1>7. n = Page(above, len[Height - 1], pg.CurrStrLen, size, pg)
  BY <1>3 DEF Page, PageOK
<1>8. pg.CurrStrLen \in Nat
  BY DEF PageOK
<1>9. PageOK(n, at)
  <2>1. \A i \in 1 .. Len(above) : above[i] <= at
    BY <1>4, <1>6
  <2>2. len[Height - 1] \in Int
    BY <1>1
  <2>3. PageOK(Page(above, len[Height - 1], pg.CurrStrLen, size, pg), at)
    BY <1>1, <1>2, <1>6, <1>8, <2>1, <2>2, PageMade
  <2> QED BY <1>7, <2>3
<1>10. /\ n.PrevStrLen = len[Height - 1] /\ n.PrevPageSize = size
       /\ n.CurrStrLen = pg.CurrStrLen /\ n.CurrPageSize = pg.CurrPageSize
  BY <1>7 DEF Page
<1> QED BY <1>9, <1>10 DEF n, size

(* The page after a key.                                                   *)
LEMMA PrepareFits ==
  ASSUME NEW pg, NEW q \in Int, PageOK(pg, q), NEW at \in Addr, NEW len \in Sizes,
         NEW key, key = "down" => q <= at, code \in Decoding
  PROVE  LET n == PrepareAsmLines(pg, len, key, at)
         IN  /\ PageOK(n, at) /\ n.CurrPageSize = pg.CurrPageSize
             /\ n.CurrStrLen = IF key = "down" THEN len[1] ELSE pg.CurrStrLen
             /\ key = "down" => n.PrevStrLen = len[0]
             /\ key = "pgdn" => /\ n.PrevStrLen = len[Height - 1]
                                /\ n.PrevPageSize = Summ(len, Height)
             /\ key \notin {"down", "pgdn"} => Near(n.PrevStrLen, at)
<1>0. /\ Height * MaxCodeLen \in Nat
      /\ pg.PrevPageSize + Align - 1 \in Nat
  <2>1. pg.PrevPageSize \in Nat /\ Align \in Nat /\ Align > 0 /\ Height \in Nat /\ MaxCodeLen \in Nat
    BY SizesOfConstants, ViewAssumption DEF PageOK
  <2> QED BY <2>1
<1>1. CASE key = "down"
  BY <1>1, StepBackFits DEF PrepareAsmLines
<1>2. CASE key = "pgdn"
  BY <1>2, PageBackFits DEF PrepareAsmLines
<1>3. CASE key = "up"
  <2>1. PrepareAsmLines(pg, len, key, at) = SweepBack(pg, at, pg.PrevPageSize + Align - 1)
    BY <1>3 DEF PrepareAsmLines
  <2> QED BY <1>0, <1>3, <2>1, SweepBackFits
<1>4. CASE key \notin {"down", "pgdn", "up"}
  <2>1. PrepareAsmLines(pg, len, key, at) = SweepBack(pg, at, Height * MaxCodeLen)
    BY <1>4 DEF PrepareAsmLines
  <2> QED BY <1>0, <1>4, <2>1, SweepBackFits
<1> QED BY <1>1, <1>2, <1>3, <1>4

-----------------------------------------------------------------------------
(* The three ways to repaint a screen v with the guide g.                  *)
Show(v, g) == [at |-> v.amocpos, row |-> v.row, mark |-> v.mark, len |-> v.len,
               guide |-> g]

Start(at, row, mark, len, g) ==
  [at |-> Lesser(at, FLen), row |-> row, mark |-> mark, len |-> len, guide |-> g]

(* The keys beside the jumps that stay, written again before a step down.  *)
Carried(v, g) ==
  Redrawn(v.mark, SteppedDown(g),
          [i \in 1 .. Len(SteppedDown(g).line) |-> SteppedDown(g).line[i] + 1])

UpStart(v, g, p) ==
  Start(p, ScrolledDn(v.row), ScrolledDn(v.mark), ScrolledDn(v.len), SteppedUp(g))

NextLine(v, p) == p + Summ(ScrolledUp(v.len), Height - 1)

DownStart(v, g, p) ==
  Start(NextLine(v, p), ScrolledUp(v.row), ScrolledUp(Carried(v, g)),
        ScrolledUp(v.len), SteppedDown(g))

UpCanvas(v, g, p)   == PaintLine(UpStart(v, g, p), 0)
DownCanvas(v, g, p) == PaintLine(DownStart(v, g, p), Height - 1)
WholeCanvas(v, p)   == PaintLines(Start(p, v.row, v.mark, v.len, NoGuide), 0, Height - 1)

(* Lines moved down, and up, by one.                                       *)
LEMMA Scrolls ==
  ASSUME NEW S, NEW f \in [Row -> S]
  PROVE  /\ ScrolledDn(f) \in [Row -> S] /\ ScrolledUp(f) \in [Row -> S]
         /\ ScrolledDn(f)[0] = f[0]
         /\ \A r \in Row : r > 0 => r - 1 \in Row /\ ScrolledDn(f)[r] = f[r - 1]
         /\ ScrolledUp(f)[Height - 1] = f[Height - 1]
         /\ \A r \in Row : r < Height - 1 => r + 1 \in Row /\ ScrolledUp(f)[r] = f[r + 1]
<1>1. /\ \A r \in Row : r # 0 <=> r > 0
      /\ \A r \in Row : r > 0 => r - 1 \in Row
      /\ \A r \in Row : r # Height - 1 <=> r < Height - 1
      /\ \A r \in Row : r < Height - 1 => r + 1 \in Row
  BY SizesOfConstants DEF Row
<1>2. \A r \in Row : ScrolledDn(f)[r] = IF r = 0 THEN f[0] ELSE f[r - 1]
  BY DEF ScrolledDn
<1>3. \A r \in Row : ScrolledUp(f)[r] = IF r = Height - 1 THEN f[r] ELSE f[r + 1]
  BY DEF ScrolledUp
<1>4. ScrolledDn(f) \in [Row -> S]
  BY <1>1, SizesOfConstants DEF ScrolledDn
<1>5. ScrolledUp(f) \in [Row -> S]
  BY <1>1, SizesOfConstants DEF ScrolledUp
<1>6. 0 \in Row /\ Height - 1 \in Row
  BY SizesOfConstants
<1> HIDE DEF Row
<1> QED BY <1>1, <1>2, <1>3, <1>4, <1>5, <1>6

(* Painting the line that a step up uncovers.                              *)
LEMMA UpFits ==
  ASSUME NEW v, NEW g, Sheet(Show(v, g)), NEW p \in Addr, code \in Decoding
  PROVE  LET s == UpStart(v, g, p)
         IN  /\ Sheet(s) /\ Paintable(s, 0) /\ s.at = p
             /\ Painted(s, UpCanvas(v, g, p), 0)
<1> DEFINE s == UpStart(v, g, p)
<1>1. /\ v.row \in Lines /\ v.mark \in Marks /\ v.len \in Sizes /\ GuideOK(g)
      /\ \A r \in Row : LineOK(v.row, v.len, r)
  BY CanvasParts DEF Sheet, Show
<1>2. p \in Nat /\ Lesser(p, FLen) = p
  BY Decodes DEF Lesser
<1>3. /\ ScrolledDn(v.row) \in Lines /\ ScrolledDn(v.mark) \in Marks
      /\ ScrolledDn(v.len) \in Sizes
  BY <1>1, Scrolls DEF Lines, Marks, Sizes
<1>4. /\ GuideOK(SteppedUp(g)) /\ SteppedUp(g).alarm = TRUE
      /\ \A r \in Listed(SteppedUp(g)) : r > 0
  BY <1>1, SteppedUpMoves
<1>5. s = [at |-> p, row |-> ScrolledDn(v.row), mark |-> ScrolledDn(v.mark),
           len |-> ScrolledDn(v.len), guide |-> SteppedUp(g)]
  BY <1>2 DEF UpStart, Start
<1> HIDE DEF s
<1>6. s \in Canvas
  BY <1>2, <1>3, <1>4, <1>5 DEF Canvas, GuideOK
<1>7. ASSUME NEW r \in Row PROVE LineOK(s.row, s.len, r)
  <2>1. \E k \in Row : s.row[r] = v.row[k] /\ s.len[r] = v.len[k]
    <3>1. CASE r = 0
      <4>1. ScrolledDn(v.row)[0] = v.row[0]
        BY <1>1, Scrolls DEF Lines
      <4>2. ScrolledDn(v.len)[0] = v.len[0]
        BY <1>1, Scrolls DEF Sizes
      <4> QED BY <1>5, <3>1, <4>1, <4>2
    <3>2. CASE r # 0
      <4>1. r > 0 /\ r - 1 \in Row
        BY <3>2, SizesOfConstants DEF Row
      <4>2. ScrolledDn(v.row)[r] = v.row[r - 1] /\ ScrolledDn(v.len)[r] = v.len[r - 1]
        BY <1>1, <4>1, Scrolls DEF Lines, Sizes
      <4> QED BY <1>5, <4>1, <4>2
    <3> QED BY <3>1, <3>2
  <2> QED BY <1>1, <2>1 DEF LineOK
<1>8. Sheet(s) /\ s.at = p /\ s.guide = SteppedUp(g)
  BY <1>4, <1>5, <1>6, <1>7 DEF Sheet
<1>9. Paintable(s, 0)
  BY <1>4, <1>8 DEF Paintable, Listed
<1>10. Painted(s, PaintLine(s, 0), 0)
  BY <1>8, <1>9, PaintFits, SizesOfConstants
<1> QED BY <1>8, <1>9, <1>10 DEF s, UpCanvas

(* The marks before a step down.                                           *)
LEMMA CarriedMarks ==
  ASSUME NEW v, NEW g, v.mark \in Marks, GuideOK(g)
  PROVE  LET h == SteppedDown(g)
         IN  /\ Carried(v, g) \in Marks
             /\ \A i \in 1 .. Len(h.addr) :
                  /\ h.line[i] + 1 \in Row
                  /\ Carried(v, g)[h.line[i] + 1] = gidGetAddressKey(h, i)
             /\ \A r \in Row : (\A i \in 1 .. Len(h.addr) : h.line[i] + 1 # r)
                                 => Carried(v, g)[r] = v.mark[r]
<1> DEFINE h == SteppedDown(g)
           lines == [i \in 1 .. Len(h.line) |-> h.line[i] + 1]
<1>1. GuideOK(h) /\ \A r \in Listed(h) : r < Height - 1
  BY SteppedDownMoves
<1>2. Carried(v, g) = Redrawn(v.mark, h, lines)
  BY DEF Carried
<1> HIDE DEF h
<1>3. /\ Len(h.line) = Len(h.addr)
      /\ \A i \in 1 .. Len(h.addr) : h.line[i] \in Row /\ h.line[i] < Height - 1
      /\ \A i, j \in 1 .. Len(h.addr) : i < j => h.line[i] < h.line[j]
  BY <1>1, GuideSeqs DEF Listed
<1>4. \A i \in 1 .. Len(h.addr) : lines[i] = h.line[i] + 1
  BY <1>3
<1> HIDE DEF lines
<1>5. \A i \in 1 .. Len(h.addr) : lines[i] \in Row /\ lines[i] \in Int
  BY <1>3, <1>4, SizesOfConstants DEF Row
<1>6. \A i, j \in 1 .. Len(h.addr) : i < j => lines[i] < lines[j]
  <2> SUFFICES ASSUME NEW i \in 1 .. Len(h.addr), NEW j \in 1 .. Len(h.addr), i < j
               PROVE  lines[i] < lines[j]
    OBVIOUS
  <2>1. h.line[i] \in Row /\ h.line[j] \in Row /\ h.line[i] < h.line[j]
    BY <1>3
  <2> QED BY <1>4, <2>1, SizesOfConstants DEF Row
<1>7. /\ Redrawn(v.mark, h, lines) \in Marks
      /\ \A i \in 1 .. Len(h.addr) :
           lines[i] \in Row => Redrawn(v.mark, h, lines)[lines[i]] = gidGetAddressKey(h, i)
      /\ \A r \in Row : (\A i \in 1 .. Len(h.addr) : lines[i] # r)
                           => Redrawn(v.mark, h, lines)[r] = v.mark[r]
  BY <1>1, <1>5, <1>6, RedrawnMarks
<1>8. Carried(v, g) \in Marks
  BY <1>2, <1>7
<1>9. \A i \in 1 .. Len(h.addr) : /\ h.line[i] + 1 \in Row
                                  /\ Carried(v, g)[h.line[i] + 1] = gidGetAddressKey(h, i)
  BY <1>2, <1>4, <1>5, <1>7
<1>10. \A r \in Row : (\A i \in 1 .. Len(h.addr) : h.line[i] + 1 # r)
                        => Carried(v, g)[r] = v.mark[r]
  BY <1>2, <1>4, <1>7
<1> QED BY <1>8, <1>9, <1>10 DEF h

(* Painting the line that a step down uncovers.                            *)
LEMMA DownFits ==
  ASSUME NEW v, NEW g, Sheet(Show(v, g)), NEW p \in Addr, code \in Decoding
  PROVE  LET s == DownStart(v, g, p)
         IN  /\ Sheet(s) /\ Paintable(s, Height - 1)
             /\ NextLine(v, p) \in Nat
             /\ s.at = Lesser(NextLine(v, p), FLen) /\ s.at \in 0 .. FLen
             /\ Painted(s, DownCanvas(v, g, p), Height - 1)
<1> DEFINE s == DownStart(v, g, p)
           h == SteppedDown(g)
           at == Lesser(NextLine(v, p), FLen)
<1>1. /\ v.row \in Lines /\ v.mark \in Marks /\ v.len \in Sizes /\ GuideOK(g)
      /\ \A r \in Row : LineOK(v.row, v.len, r)
  BY CanvasParts DEF Sheet, Show
<1>2. /\ ScrolledUp(v.row) \in Lines /\ ScrolledUp(v.len) \in Sizes
      /\ ScrolledUp(Carried(v, g)) \in Marks
  <2>1. Carried(v, g) \in Marks
    BY <1>1, CarriedMarks
  <2> QED BY <1>1, <2>1, Scrolls DEF Lines, Marks, Sizes
<1>3. NextLine(v, p) \in Nat /\ at \in Nat /\ at \in 0 .. FLen
  <2>1. Summ(ScrolledUp(v.len), Height - 1) \in Nat
    <3>1. ScrolledUp(v.len) \in Lengths /\ Height - 1 \in 0 .. Height
      BY <1>2, SizesAreLengths, SizesOfConstants
    <3> QED BY <3>1, SummNat
  <2>2. p \in Nat
    BY Decodes
  <2>3. NextLine(v, p) \in Nat
    BY <2>1, <2>2 DEF NextLine
  <2> QED BY <2>3, SizesOfConstants DEF Lesser
<1>4. GuideOK(h) /\ h.alarm = FALSE /\ \A r \in Listed(h) : r < Height - 1
  BY <1>1, SteppedDownMoves
<1>5. s = [at |-> at, row |-> ScrolledUp(v.row), mark |-> ScrolledUp(Carried(v, g)),
           len |-> ScrolledUp(v.len), guide |-> h]
  BY DEF DownStart, Start
<1> HIDE DEF s, h, at
<1>6. s \in Canvas
  BY <1>2, <1>3, <1>4, <1>5 DEF Canvas, GuideOK
<1>7. ASSUME NEW r \in Row PROVE LineOK(s.row, s.len, r)
  <2>1. \E k \in Row : s.row[r] = v.row[k] /\ s.len[r] = v.len[k]
    <3>1. CASE r = Height - 1
      <4>1. ScrolledUp(v.row)[Height - 1] = v.row[Height - 1]
        BY <1>1, Scrolls DEF Lines
      <4>2. ScrolledUp(v.len)[Height - 1] = v.len[Height - 1]
        BY <1>1, Scrolls DEF Sizes
      <4> QED BY <1>5, <3>1, <4>1, <4>2
    <3>2. CASE r # Height - 1
      <4>1. r < Height - 1 /\ r + 1 \in Row
        BY <3>2, SizesOfConstants DEF Row
      <4>2. ScrolledUp(v.row)[r] = v.row[r + 1] /\ ScrolledUp(v.len)[r] = v.len[r + 1]
        BY <1>1, <4>1, Scrolls DEF Lines, Sizes
      <4> QED BY <1>5, <4>1, <4>2
    <3> QED BY <3>1, <3>2
  <2> QED BY <1>1, <2>1 DEF LineOK
<1>8. Sheet(s) /\ s.at = at /\ s.guide = h
  BY <1>4, <1>5, <1>6, <1>7 DEF Sheet
<1>9. Paintable(s, Height - 1)
  BY <1>4, <1>8 DEF Paintable, Listed
<1>10. Painted(s, PaintLine(s, Height - 1), Height - 1)
  BY <1>8, <1>9, PaintFits, SizesOfConstants
<1> QED BY <1>3, <1>8, <1>9, <1>10 DEF s, DownCanvas, at

(* Painting all lines.                                                     *)
LEMMA WholeFits ==
  ASSUME NEW v, NEW g, Sheet(Show(v, g)), NEW p \in Addr, code \in Decoding
  PROVE  Whole(WholeCanvas(v, p), p, Height)
<1> DEFINE s == Start(p, v.row, v.mark, v.len, NoGuide)
<1>1. /\ v.row \in Lines /\ v.mark \in Marks /\ v.len \in Sizes
      /\ \A r \in Row : LineOK(v.row, v.len, r)
  BY CanvasParts DEF Sheet, Show
<1>2. p \in Nat /\ Lesser(p, FLen) = p
  BY Decodes DEF Lesser
<1>3. s = [at |-> p, row |-> v.row, mark |-> v.mark, len |-> v.len, guide |-> NoGuide]
  BY <1>2 DEF Start
<1> HIDE DEF s
<1>4. s \in Canvas
  BY <1>1, <1>2, <1>3, NoGuideOK DEF Canvas, GuideOK
<1>5. Sheet(s) /\ s.guide = NoGuide /\ s.at = p
  BY <1>1, <1>3, <1>4, NoGuideOK DEF Sheet
<1> QED BY <1>5, PaintWhole DEF s, WholeCanvas

(* What is painted for each key.                                           *)
Result(c, from) == [row |-> c.row, mark |-> c.mark, len |-> c.len, guide |-> c.guide,
                    amocpos |-> from, done |-> TRUE]

(* A step up paints the first line of the screen moved down.               *)
LEMMA RepaintedUp ==
  ASSUME NEW v, NEW g, NEW p
  PROVE  Repainted(v, g, "up", p) = Result(UpCanvas(v, g, p), Lesser(p, FLen))
<1>1. GidResetGoAddress(g, "up") = SteppedUp(g)
  BY DEF GidResetGoAddress
<1>2. PaintLines(UpStart(v, g, p), 0, 0) = UpCanvas(v, g, p)
  BY OneLine, SizesOfConstants DEF UpCanvas
<1>3. Repainted(v, g, "up", p) = Result(PaintLines(UpStart(v, g, p), 0, 0), Lesser(p, FLen))
  BY <1>1 DEF Repainted, Result, UpStart, Start
<1> QED BY <1>2, <1>3

(* A step down paints the last line of the screen moved up, or nothing.    *)
LEMMA RepaintedDown ==
  ASSUME NEW v, NEW g, NEW p
  PROVE  Repainted(v, g, "down", p) =
           IF v.len[1] # 0 THEN Result(DownCanvas(v, g, p), Lesser(NextLine(v, p), FLen))
           ELSE [row |-> v.row, mark |-> Carried(v, g), len |-> v.len,
                 guide |-> SteppedDown(g), amocpos |-> v.amocpos, done |-> FALSE]
<1>1. GidResetGoAddress(g, "down") = SteppedDown(g)
  BY DEF GidResetGoAddress
<1>2. PaintLines(DownStart(v, g, p), Height - 1, Height - 1) = DownCanvas(v, g, p)
  BY OneLine, SizesOfConstants DEF DownCanvas
<1>3. CASE v.len[1] # 0
  <2>1. Repainted(v, g, "down", p) =
          Result(PaintLines(DownStart(v, g, p), Height - 1, Height - 1),
                 Lesser(NextLine(v, p), FLen))
    BY <1>1, <1>3 DEF Repainted, Result, DownStart, Start, Carried, NextLine
  <2> QED BY <1>2, <1>3, <2>1
<1>4. CASE v.len[1] = 0
  BY <1>1, <1>4 DEF Repainted, Carried
<1> QED BY <1>3, <1>4

(* All other keys paint every line.                                        *)
LEMMA RepaintedWhole ==
  ASSUME NEW v, NEW g, NEW p, NEW key, key \notin {"up", "down"}
  PROVE  Repainted(v, g, key, p) = Result(WholeCanvas(v, p), Lesser(p, FLen))
<1>1. GidResetGoAddress(g, key) = NoGuide
  BY DEF GidResetGoAddress
<1> QED BY <1>1 DEF Repainted, Result, WholeCanvas, Start

-----------------------------------------------------------------------------
(* What drawAsm does, by what was painted.                                 *)
Drawn(c, from, pg, cur) ==
  /\ view' = [row |-> c.row, mark |-> c.mark, len |-> c.len, amocpos |-> from]
  /\ guide' = c.guide
  /\ page' = [pg EXCEPT !.CurrPageSize = Summ(c.len, Height), !.CurrStrLen = cur]

Kept(key, p, pg) ==
  /\ view.amocpos = p
  /\ page' = pg /\ view' = view /\ guide' = guide

DrawnUp(key, p, pg) ==
  /\ key = "up"
  /\ Drawn(UpCanvas(view, guide, p), Lesser(p, FLen), pg,
           IF UpCanvas(view, guide, p).row[0] # Blank
             THEN UpCanvas(view, guide, p).len[0] ELSE pg.CurrStrLen)

DrawnDown(key, p, pg) ==
  /\ key = "down" /\ view.len[1] # 0
  /\ Drawn(DownCanvas(view, guide, p), Lesser(NextLine(view, p), FLen), pg, pg.CurrStrLen)

AtBottom(key, p, pg) ==
  /\ key = "down" /\ view.len[1] = 0
  /\ view' = [row |-> view.row, mark |-> Carried(view, guide), len |-> view.len,
              amocpos |-> view.amocpos]
  /\ guide' = SteppedDown(guide)
  /\ page' = pg

DrawnWhole(key, p, pg) ==
  /\ key \notin {"up", "down"}
  /\ Drawn(WholeCanvas(view, p), Lesser(p, FLen), pg,
           IF WholeCanvas(view, p).row[0] # Blank
             THEN WholeCanvas(view, p).len[0] ELSE pg.CurrStrLen)

(* drawAsm keeps the screen, or paints it in one of four ways.             *)
LEMMA Draws ==
  ASSUME NEW key0, NEW p, drawAsm(key0, p)
  PROVE  LET key == EffectiveKey(view, key0, p)
             pg  == PrepareAsmLines(page, view.len, key, p)
         IN  \/ Kept(key, p, pg) /\ key \notin {"super", "justfind"}
             \/ /\ ~(view.amocpos = p /\ key \notin {"super", "justfind"})
                /\ \/ DrawnUp(key, p, pg)
                   \/ DrawnDown(key, p, pg)
                   \/ AtBottom(key, p, pg)
                   \/ DrawnWhole(key, p, pg)
<1> DEFINE key == EffectiveKey(view, key0, p)
           pg  == PrepareAsmLines(page, view.len, key, p)
           c   == Repainted(view, guide, key, p)
<1>1. IF view.amocpos = p /\ key \notin {"super", "justfind"}
        THEN page' = pg /\ view' = view /\ guide' = guide
        ELSE /\ view' = Screen(c)
             /\ guide' = c.guide
             /\ page' = IF ~c.done THEN pg
                        ELSE [pg EXCEPT
                               !.CurrPageSize = Summ(c.len, Height),
                               !.CurrStrLen = IF key # "down" /\ c.row[0] # Blank
                                                THEN c.len[0] ELSE @]
  BY DEF drawAsm
<1> HIDE DEF key, pg
<1>2. CASE view.amocpos = p /\ key \notin {"super", "justfind"}
  <2>1. Kept(key, p, pg)
    BY <1>1, <1>2 DEF Kept
  <2> QED BY <1>2, <2>1 DEF key, pg
<1>3. CASE ~(view.amocpos = p /\ key \notin {"super", "justfind"})
  <2>0. /\ view' = Screen(c) /\ guide' = c.guide
        /\ page' = IF ~c.done THEN pg
                   ELSE [pg EXCEPT !.CurrPageSize = Summ(c.len, Height),
                                   !.CurrStrLen = IF key # "down" /\ c.row[0] # Blank
                                                    THEN c.len[0] ELSE pg.CurrStrLen]
    BY <1>1, <1>3
  <2> HIDE DEF c
  <2>1. CASE key = "up"
    <3>1. c = Result(UpCanvas(view, guide, p), Lesser(p, FLen))
      BY <2>1, RepaintedUp DEF c
    <3>2. DrawnUp(key, p, pg)
      BY <2>0, <2>1, <3>1 DEF DrawnUp, Drawn, Screen, Result
    <3> QED BY <1>3, <3>2 DEF key, pg
  <2>2. CASE key = "down" /\ view.len[1] # 0
    <3>1. c = Result(DownCanvas(view, guide, p), Lesser(NextLine(view, p), FLen))
      BY <2>2, RepaintedDown DEF c
    <3>2. DrawnDown(key, p, pg)
      BY <2>0, <2>2, <3>1 DEF DrawnDown, Drawn, Screen, Result
    <3> QED BY <1>3, <3>2 DEF key, pg
  <2>3. CASE key = "down" /\ view.len[1] = 0
    <3>1. c = [row |-> view.row, mark |-> Carried(view, guide), len |-> view.len,
               guide |-> SteppedDown(guide), amocpos |-> view.amocpos, done |-> FALSE]
      BY <2>3, RepaintedDown DEF c
    <3>2. AtBottom(key, p, pg)
      BY <2>0, <2>3, <3>1 DEF AtBottom, Screen
    <3> QED BY <1>3, <3>2 DEF key, pg
  <2>4. CASE key \notin {"up", "down"}
    <3>1. c = Result(WholeCanvas(view, p), Lesser(p, FLen))
      BY <2>4, RepaintedWhole DEF c
    <3>2. DrawnWhole(key, p, pg)
      BY <2>0, <2>4, <3>1 DEF DrawnWhole, Drawn, Screen, Result
    <3> QED BY <1>3, <3>2 DEF key, pg
  <2> QED BY <2>1, <2>2, <2>3, <2>4
<1> QED BY <1>2, <1>3

-----------------------------------------------------------------------------
(* What holds of every file and window.                                    *)
Screened(v, g) == /\ Sheet(Show(v, g)) /\ v.amocpos \in 0 .. FLen
                  /\ v = [row |-> v.row, mark |-> v.mark, len |-> v.len,
                          amocpos |-> v.amocpos]

(* The return stack.                                                       *)
BackOK(b) == b \in Seq(Addr) /\ Len(b) < BackAddrSize

(* What the last page down leaves for the next page up.                    *)
Turned == /\ hist.from \in Addr /\ hist.want \in Int
          /\ hist.key = "pgdn" => page.PrevPageSize = hist.want - hist.from

(* The inductive invariant.                                                *)
Held ==
  /\ code \in Decoding /\ pos \in Addr
  /\ Screened(view, guide)
  /\ PageOK(page, pos) /\ page.CurrPageSize = Summ(view.len, Height)
  /\ BackOK(back)
  /\ Turned

(* The page after a painting.                                              *)
LEMMA PageDrawn ==
  ASSUME NEW pg, NEW at, PageOK(pg, at), NEW size \in Nat, NEW cur \in Nat,
         NEW n, n = [PrevStrLenAddr |-> pg.PrevStrLenAddr, PrevStrLen |-> pg.PrevStrLen,
                     CurrStrLen |-> cur, PrevPageSize |-> pg.PrevPageSize,
                     CurrPageSize |-> size]
  PROVE  /\ PageOK(n, at) /\ n.CurrPageSize = size /\ n.CurrStrLen = cur
         /\ n.PrevStrLen = pg.PrevStrLen /\ n.PrevPageSize = pg.PrevPageSize
<1>1. /\ n.CurrPageSize = size /\ n.CurrStrLen = cur
      /\ n.PrevStrLen = pg.PrevStrLen /\ n.PrevPageSize = pg.PrevPageSize
      /\ n.PrevStrLenAddr = pg.PrevStrLenAddr
  BY DEF PageOK
<1>2. n \in [PrevStrLenAddr : Seq(Int), PrevStrLen : Int, CurrStrLen : Nat,
             PrevPageSize : Nat, CurrPageSize : Nat]
  BY DEF PageOK
<1>3. PageOK(n, at)
  <2>1. \A i \in 1 .. Len(n.PrevStrLenAddr) : n.PrevStrLenAddr[i] <= at
    BY <1>1 DEF PageOK
  <2> QED BY <1>2, <2>1 DEF PageOK
<1> QED BY <1>1, <1>3

(* A sheet is one wherever the next line is.                               *)
LEMMA SheetShown ==
  ASSUME NEW c, Sheet(c), NEW from \in 0 .. FLen,
         NEW v, v = [row |-> c.row, mark |-> c.mark, len |-> c.len, amocpos |-> from]
  PROVE  Screened(v, c.guide) /\ v.len \in Lengths /\ v.amocpos = from
<1>1. /\ v.row = c.row /\ v.mark = c.mark /\ v.len = c.len /\ v.amocpos = from
      /\ from \in Nat
  BY SizesOfConstants
<1>2. /\ c.row \in Lines /\ c.mark \in Marks /\ c.len \in Sizes /\ GuideOK(c.guide)
      /\ c.guide \in [addr : Seq(Addr), line : Seq(Row), alarm : BOOLEAN]
      /\ \A r \in Row : LineOK(c.row, c.len, r)
  BY CanvasParts DEF Sheet
<1>3. Show(v, c.guide) \in Canvas
  BY <1>1, <1>2 DEF Show, Canvas
<1>4. Sheet(Show(v, c.guide))
  BY <1>1, <1>2, <1>3 DEF Show, Sheet
<1>5. v.len \in Lengths
  BY <1>1, <1>2, SizesAreLengths
<1> QED BY <1>1, <1>4, <1>5 DEF Screened

(* The parts of a screen.                                                  *)
LEMMA ScreenParts ==
  ASSUME NEW v, NEW g, Screened(v, g)
  PROVE  /\ Sheet(Show(v, g)) /\ v.row \in Lines /\ v.mark \in Marks /\ v.len \in Sizes
         /\ v.len \in Lengths /\ GuideOK(g) /\ v.amocpos \in 0 .. FLen
         /\ \A r \in Row : LineOK(v.row, v.len, r)
BY CanvasParts, SizesAreLengths DEF Screened, Sheet, Show

(* Only a step up may be taken for another key.                            *)
LEMMA KeysKept ==
  ASSUME NEW v, NEW key0, NEW p
  PROVE  LET key == EffectiveKey(v, key0, p)
         IN  /\ (key = "down") <=> (key0 = "down")
             /\ (key = "pgdn") <=> (key0 = "pgdn")
BY DEF EffectiveKey

(* A painting leaves a screen, and a page that goes with it.               *)
LEMMA DrawFits ==
  ASSUME NEW key0, NEW p \in Addr, drawAsm(key0, p), key0 = "down" => pos <= p, Held
  PROVE  /\ Screened(view', guide') /\ PageOK(page', p)
         /\ page'.CurrPageSize = Summ(view'.len, Height)
         /\ key0 = "pgdn" => page'.PrevPageSize = page.CurrPageSize
<1> DEFINE key == EffectiveKey(view, key0, p)
           pg  == PrepareAsmLines(page, view.len, key, p)
<1>1. /\ code \in Decoding /\ pos \in Addr /\ Screened(view, guide)
      /\ PageOK(page, pos) /\ page.CurrPageSize = Summ(view.len, Height)
  BY DEF Held
<1>2. /\ Sheet(Show(view, guide)) /\ view.row \in Lines /\ view.mark \in Marks
      /\ view.len \in Sizes /\ GuideOK(guide) /\ view.amocpos \in 0 .. FLen
  BY <1>1, ScreenParts
<1>3. (key = "down" <=> key0 = "down") /\ (key = "pgdn" <=> key0 = "pgdn")
  BY KeysKept
<1>4. \/ Kept(key, p, pg)
      \/ DrawnUp(key, p, pg)
      \/ DrawnDown(key, p, pg)
      \/ AtBottom(key, p, pg)
      \/ DrawnWhole(key, p, pg)
  BY Draws
<1> HIDE DEF key
<1>5. /\ PageOK(pg, p) /\ pg.CurrPageSize = page.CurrPageSize
      /\ key = "pgdn" => pg.PrevPageSize = Summ(view.len, Height)
  <2>1. pos \in Int /\ (key = "down" => pos <= p)
    BY <1>1, <1>3, Decodes
  <2> QED BY <1>1, <1>2, <2>1, PrepareFits
<1> HIDE DEF pg
<1>6. pg.CurrStrLen \in Nat /\ p \in Nat /\ Lesser(p, FLen) = p /\ p \in 0 .. FLen
  <2>1. pg.CurrStrLen \in Nat
    BY <1>5 DEF PageOK
  <2>2. p \in Nat /\ p < FLen
    BY <1>1, Decodes
  <2> QED BY <2>1, <2>2, SizesOfConstants DEF Lesser
<1>7. ASSUME NEW c, Sheet(c), NEW from \in 0 .. FLen, NEW cur \in Nat, Drawn(c, from, pg, cur)
      PROVE  /\ Screened(view', guide') /\ PageOK(page', p)
             /\ page'.CurrPageSize = Summ(view'.len, Height)
             /\ page'.PrevPageSize = pg.PrevPageSize
  <2>1. /\ view' = [row |-> c.row, mark |-> c.mark, len |-> c.len, amocpos |-> from]
        /\ guide' = c.guide
        /\ page' = [pg EXCEPT !.CurrPageSize = Summ(c.len, Height), !.CurrStrLen = cur]
    BY <1>7 DEF Drawn
  <2>2. Screened(view', guide') /\ view'.len \in Lengths /\ view'.len = c.len
    BY <1>7, <2>1, SheetShown
  <2>3. Summ(c.len, Height) \in Nat
    <3>1. Height \in 0 .. Height
      BY SizesOfConstants
    <3> QED BY <2>2, <3>1, SummNat
  <2>4. /\ PageOK(page', p) /\ page'.CurrPageSize = Summ(c.len, Height)
        /\ page'.PrevPageSize = pg.PrevPageSize
    <3>1. page' = [PrevStrLenAddr |-> pg.PrevStrLenAddr, PrevStrLen |-> pg.PrevStrLen,
                   CurrStrLen |-> cur, PrevPageSize |-> pg.PrevPageSize,
                   CurrPageSize |-> Summ(c.len, Height)]
      BY <1>5, <2>1 DEF PageOK
    <3> QED BY <1>5, <2>3, <3>1, PageDrawn
  <2> QED BY <2>2, <2>4
<1>8. CASE Kept(key, p, pg)
  BY <1>1, <1>3, <1>5, <1>8 DEF Kept
<1>9. CASE DrawnUp(key, p, pg)
  <2> DEFINE c == UpCanvas(view, guide, p)
  <2>1. Sheet(c)
    BY <1>1, <1>2, UpFits DEF Painted
  <2> DEFINE cur == IF c.row[0] # Blank THEN c.len[0] ELSE pg.CurrStrLen
  <2>2. Drawn(c, p, pg, cur) /\ key = "up"
    BY <1>6, <1>9 DEF DrawnUp
  <2> HIDE DEF c
  <2>3. cur \in Nat
    BY <1>6, <2>1, CanvasParts, SizesOfConstants DEF Sheet, Sizes
  <2> HIDE DEF cur
  <2>4. key0 # "pgdn"
    BY <1>3, <2>2
  <2> QED BY <1>6, <1>7, <2>1, <2>2, <2>3, <2>4
<1>10. CASE DrawnDown(key, p, pg)
  <2> DEFINE c == DownCanvas(view, guide, p)
             from == Lesser(NextLine(view, p), FLen)
  <2>1. Sheet(c) /\ from \in 0 .. FLen
    BY <1>1, <1>2, DownFits DEF Painted
  <2>2. Drawn(c, from, pg, pg.CurrStrLen) /\ key = "down"
    BY <1>10 DEF DrawnDown
  <2> HIDE DEF c, from
  <2>4. key0 # "pgdn"
    BY <1>3, <2>2
  <2> QED BY <1>6, <1>7, <2>1, <2>2, <2>4
<1>11. CASE AtBottom(key, p, pg)
  <2>1. /\ key = "down" /\ page' = pg /\ guide' = SteppedDown(guide)
        /\ view' = [row |-> view.row, mark |-> Carried(view, guide), len |-> view.len,
                    amocpos |-> view.amocpos]
    BY <1>11 DEF AtBottom
  <2> DEFINE c == [at |-> view.amocpos, row |-> view.row, mark |-> Carried(view, guide),
                   len |-> view.len, guide |-> SteppedDown(guide)]
  <2>2. GuideOK(SteppedDown(guide)) /\ Carried(view, guide) \in Marks
    BY <1>2, SteppedDownMoves, CarriedMarks
  <2>3. c \in Canvas
    BY <1>2, <2>2, SizesOfConstants DEF Canvas, GuideOK
  <2>4. /\ c.row = view.row /\ c.mark = Carried(view, guide) /\ c.len = view.len
        /\ c.guide = SteppedDown(guide)
    OBVIOUS
  <2> HIDE DEF c
  <2>5. \A r \in Row : LineOK(c.row, c.len, r)
    BY <1>1, <2>4, ScreenParts
  <2>6. Sheet(c)
    BY <2>2, <2>3, <2>4, <2>5 DEF Sheet
  <2>7. view' = [row |-> c.row, mark |-> c.mark, len |-> c.len, amocpos |-> view.amocpos]
    BY <2>1, <2>4
  <2>8. Screened(view', c.guide)
    BY <1>2, <2>6, <2>7, SheetShown
  <2>9. view'.len = view.len
    BY <2>1
  <2> QED BY <1>1, <1>3, <1>5, <2>1, <2>4, <2>8, <2>9
<1>12. CASE DrawnWhole(key, p, pg)
  <2> DEFINE c == WholeCanvas(view, p)
  <2>1. Sheet(c)
    BY <1>1, <1>2, WholeFits DEF Whole
  <2> DEFINE cur == IF c.row[0] # Blank THEN c.len[0] ELSE pg.CurrStrLen
  <2>2. Drawn(c, p, pg, cur)
    BY <1>6, <1>12 DEF DrawnWhole
  <2> HIDE DEF c
  <2>3. cur \in Nat
    BY <1>6, <2>1, CanvasParts, SizesOfConstants DEF Sheet, Sizes
  <2> HIDE DEF cur
  <2> QED BY <1>1, <1>3, <1>5, <1>6, <1>7, <2>1, <2>2, <2>3
<1> QED BY <1>4, <1>8, <1>9, <1>10, <1>11, <1>12

(* A position is clipped into the file.                                    *)
LEMMA Clips ==
  ASSUME NEW nfp \in Int
  PROVE  /\ Clipped(nfp) \in Addr
         /\ nfp \in Addr => Clipped(nfp) = nfp
         /\ Clipped(nfp) = IF nfp < 0 THEN 0 ELSE IF nfp < FLen - 1 THEN nfp ELSE FLen - 1
BY SizesOfConstants DEF Clipped, Lesser, Addr

(* The screen before the first painting.                                   *)
LEMMA BlankScreen == Screened(BlankView, NoGuide)
<1>1. /\ BlankView.row = [r \in Row |-> Blank] /\ BlankView.mark = [r \in Row |-> NoMark]
      /\ BlankView.len = [r \in Row |-> 0] /\ BlankView.amocpos = 0
  BY DEF BlankView
<1>2. BlankView.row \in Lines /\ BlankView.mark \in Marks /\ BlankView.len \in Sizes
  BY <1>1, SizesOfConstants DEF Lines, Marks, Sizes
<1>3. Show(BlankView, NoGuide) \in Canvas
  BY <1>1, <1>2, NoGuideOK DEF Show, Canvas, GuideOK
<1>4. \A r \in Row : LineOK(BlankView.row, BlankView.len, r)
  BY <1>1 DEF LineOK
<1>5. Sheet(Show(BlankView, NoGuide))
  BY <1>3, <1>4, NoGuideOK DEF Sheet, Show
<1>6. BlankView.amocpos \in 0 .. FLen
  BY <1>1, SizesOfConstants
<1> QED BY <1>5, <1>6 DEF Screened, BlankView

(* And its page.                                                           *)
LEMMA BlankPage == PageOK(NoPage, 0) /\ NoPage.CurrStrLen = 0
<1> DEFINE none == <<>>
<1>1. none \in Seq(Int) /\ 1 .. Len(none) = {}
  BY EmptySeq
<1>2. NoPage = [PrevStrLenAddr |-> none, PrevStrLen |-> 0, CurrStrLen |-> 0,
                PrevPageSize |-> 0, CurrPageSize |-> 0]
  BY DEF NoPage
<1> HIDE DEF none
<1> QED BY <1>1, <1>2 DEF PageOK

(* The first painting.                                                     *)
LEMMA InitScreen ==
  ASSUME Init
  PROVE  /\ code \in Decoding /\ pos \in Addr
         /\ Whole(WholeCanvas(BlankView, pos), pos, Height)
         /\ view = [row |-> WholeCanvas(BlankView, pos).row,
                    mark |-> WholeCanvas(BlankView, pos).mark,
                    len |-> WholeCanvas(BlankView, pos).len, amocpos |-> pos]
         /\ guide = WholeCanvas(BlankView, pos).guide
         /\ Screened(view, guide)
         /\ PageOK(page, pos) /\ page.CurrPageSize = Summ(view.len, Height)
         /\ page.CurrStrLen = view.len[0] /\ Near(page.PrevStrLen, pos)
<1> DEFINE c  == WholeCanvas(BlankView, pos)
           pg == PrepareAsmLines(NoPage, BlankView.len, "super", pos)
<1>1. code \in Decoding /\ pos \in Addr
  BY ViewAssumption DEF Init
<1>2. pos \in Nat /\ Lesser(pos, FLen) = pos /\ pos \in 0 .. FLen
  <2>1. pos \in Nat /\ pos < FLen
    BY <1>1, Decodes
  <2> QED BY <2>1, SizesOfConstants DEF Lesser
<1>3. Repainted(BlankView, NoGuide, "super", pos) = Result(c, pos)
  BY <1>2, RepaintedWhole
<1>4. Whole(c, pos, Height)
  BY <1>1, BlankScreen, WholeFits DEF Screened
<1>5. /\ view = Screen(Result(c, pos)) /\ guide = Result(c, pos).guide
      /\ page = [pg EXCEPT !.CurrPageSize = Summ(Result(c, pos).len, Height),
                           !.CurrStrLen = Result(c, pos).len[0]]
  BY <1>3 DEF Init
<1> HIDE DEF c, pg
<1>6. /\ view = [row |-> c.row, mark |-> c.mark, len |-> c.len, amocpos |-> pos]
      /\ guide = c.guide
      /\ page = [pg EXCEPT !.CurrPageSize = Summ(c.len, Height), !.CurrStrLen = c.len[0]]
  BY <1>5 DEF Screen, Result
<1>7. Screened(view, guide) /\ view.len = c.len /\ c.len \in Lengths
  BY <1>2, <1>4, <1>6, SheetShown DEF Whole
<1>8. PageOK(pg, pos) /\ Near(pg.PrevStrLen, pos)
  <2>1. BlankView.len \in Sizes
    BY BlankScreen, ScreenParts
  <2> QED BY <1>1, <2>1, BlankPage, PrepareFits DEF pg
<1>9. Summ(c.len, Height) \in Nat /\ c.len[0] \in Nat
  <2>1. Height \in 0 .. Height
    BY SizesOfConstants
  <2> QED BY <1>7, <2>1, SummNat, SizesOfConstants DEF Lengths
<1>10. page = [PrevStrLenAddr |-> pg.PrevStrLenAddr, PrevStrLen |-> pg.PrevStrLen,
               CurrStrLen |-> c.len[0], PrevPageSize |-> pg.PrevPageSize,
               CurrPageSize |-> Summ(c.len, Height)]
  BY <1>6, <1>8 DEF PageOK
<1>11. /\ PageOK(page, pos) /\ page.CurrPageSize = Summ(c.len, Height)
       /\ page.CurrStrLen = c.len[0] /\ page.PrevStrLen = pg.PrevStrLen
  BY <1>8, <1>9, <1>10, PageDrawn
<1> QED BY <1>1, <1>4, <1>6, <1>7, <1>8, <1>11 DEF c

(* The first painting leaves what holds of every file and window.          *)
LEMMA InitHeld ==
  ASSUME Init
  PROVE  Held
<1>1. back = <<>> /\ hist = [key |-> "super", from |-> pos, want |-> pos, lost |-> FALSE]
  BY DEF Init
<1>2. BackOK(back)
  BY <1>1, GuiderAssumption, EmptySeq DEF BackOK
<1>3. pos \in Addr /\ pos \in Int
  BY InitScreen DEF Addr
<1>4. Turned
  BY <1>1, <1>3 DEF Turned
<1> QED BY <1>2, <1>4, InitScreen DEF Held

(* A key leads to a position, whence the painting.                         *)
LEMMA GoToHolds ==
  ASSUME Held, NEW key, NEW nfp \in Int, GoTo(key, nfp), BackOK(back'),
         key = "down" => nfp >= pos,
         key = "pgdn" => nfp = pos + page.CurrPageSize
  PROVE  Held'
<1> DEFINE p == Clipped(nfp)
<1>1. /\ pos' = p /\ drawAsm(key, p) /\ code' = code
      /\ hist'.key = key /\ hist'.from = pos /\ hist'.want = nfp
  BY DEF GoTo
<1>2. code \in Decoding /\ pos \in Addr /\ page.CurrPageSize \in Nat
  BY DEF Held, PageOK
<1>3. p \in Addr /\ (key = "down" => pos <= p)
  <2>1. pos \in Nat /\ pos < FLen
    BY <1>2, Decodes
  <2> QED BY <2>1, Clips, SizesOfConstants
<1> HIDE DEF p
<1>4. /\ Screened(view', guide') /\ PageOK(page', p)
      /\ page'.CurrPageSize = Summ(view'.len, Height)
      /\ key = "pgdn" => page'.PrevPageSize = page.CurrPageSize
  BY <1>1, <1>3, DrawFits
<1>5. Screened(view, guide)'
  BY <1>1, <1>4 DEF Screened, Sheet, Show, LineOK
<1>6. Turned'
  BY <1>1, <1>2, <1>4, Decodes DEF Turned
<1>7. code' \in Decoding /\ pos' \in Addr /\ PageOK(page', pos')
  BY <1>1, <1>2, <1>3, <1>4
<1> QED BY <1>4, <1>5, <1>6, <1>7 DEF Held

-----------------------------------------------------------------------------
(* The return stack takes an address, whatever a full one forgets.         *)
LEMMA AddBackFits ==
  ASSUME NEW b, BackOK(b), NEW p \in Addr
  PROVE  BackOK(GidAddBackAddress(b, p))
<1> DEFINE n == Len(b)
           moved == ((n - 1) + WordBytes - 1) \div WordBytes
           f == [i \in DOMAIN b |-> IF i = n THEN p ELSE IF i <= moved THEN b[i + 1] ELSE b[i]]
<1>1. b \in Seq(Addr) /\ n \in Nat /\ n < BackAddrSize /\ DOMAIN b = 1 .. n
  BY LenProperties DEF BackOK
<1>2. GidAddBackAddress(b, p) = IF n - 1 >= BackAddrSize - 2 THEN f ELSE Append(b, p)
  BY DEF GidAddBackAddress
<1>3. BackAddrSize \in Nat
  BY GuiderAssumption
<1> HIDE DEF moved
<1>4. CASE n - 1 >= BackAddrSize - 2
  <2>1. \A i \in 1 .. n : b[i] \in Addr /\ (i # n => b[i + 1] \in Addr)
    <3>1. \A i \in 1 .. n : i # n => i + 1 \in 1 .. n
      <4> HIDE DEF n
      <4> QED BY <1>1
    <3> QED BY <1>1, <3>1, ElementOfSeq
  <2>2. f \in [1 .. n -> Addr]
    BY <1>1, <2>1
  <2>3. f \in Seq(Addr) /\ Len(f) = n
    BY <1>1, <2>2, SeqDef, LenProperties
  <2> HIDE DEF f
  <2> QED BY <1>1, <1>2, <1>4, <2>3 DEF BackOK
<1>5. CASE ~(n - 1 >= BackAddrSize - 2)
  <2>1. Append(b, p) \in Seq(Addr) /\ Len(Append(b, p)) = n + 1
    BY <1>1, AppendProperties
  <2> HIDE DEF n, f
  <2>2. n + 1 < BackAddrSize
    BY <1>1, <1>3, <1>5
  <2> QED BY <1>2, <1>5, <2>1, <2>2 DEF BackOK
<1> QED BY <1>4, <1>5

(* A key of the guide leads to an address.                                 *)
LEMMA FollowFits ==
  ASSUME NEW g, GuideOK(g), NEW b, BackOK(b), NEW k, NEW p \in Addr
  PROVE  /\ GidGetGoAddress(g, b, k, p).to \in Addr
         /\ BackOK(GidGetGoAddress(g, b, k, p).back)
<1>1. CASE KeyLeads(g, k)
  <2>1. gidGetKeyIndex(g, k) \in 1 .. Len(g.addr)
    BY <1>1 DEF KeyLeads
  <2>2. g.addr[gidGetKeyIndex(g, k)] \in Addr
    BY <2>1, GuideSeqs
  <2> QED BY <1>1, <2>2, AddBackFits DEF GidGetGoAddress
<1>2. CASE ~KeyLeads(g, k)
  BY <1>2 DEF GidGetGoAddress
<1> QED BY <1>1, <1>2

(* And so does the return stack.                                           *)
LEMMA ReturnFits ==
  ASSUME NEW b, BackOK(b), NEW p \in Addr
  PROVE  /\ GidGetBackAddress(b, p).to \in Addr
         /\ BackOK(GidGetBackAddress(b, p).back)
<1>1. CASE b = <<>>
  BY <1>1 DEF GidGetBackAddress
<1>2. CASE b # <<>>
  <2> DEFINE n == Len(b)
  <2>1. b \in Seq(Addr) /\ n \in Nat /\ n > 0 /\ n < BackAddrSize /\ BackAddrSize \in Nat
    BY <1>2, EmptySeq, LenProperties, GuiderAssumption DEF BackOK
  <2>2. \A i \in 1 .. n : b[i] \in Addr
    BY <2>1, ElementOfSeq
  <2>3. Front(b) \in Seq(Addr) /\ Len(Front(b)) = n - 1
    <3>1. \A i \in 1 .. n - 1 : b[i] \in Addr
      <4> SUFFICES ASSUME NEW i \in 1 .. n - 1 PROVE b[i] \in Addr
        OBVIOUS
      <4>1. i \in 1 .. n
        BY <2>1
      <4> HIDE DEF n
      <4> QED BY <2>2, <4>1
    <3> DEFINE k == n - 1
    <3>3. k \in Nat /\ k \in Int /\ \A i \in 1 .. k : b[i] \in Addr
      BY <2>1, <3>1
    <3> HIDE DEF k
    <3>4. SubSeq(b, 1, k) \in Seq(Addr) /\ Len(SubSeq(b, 1, k)) = IF 1 <= k THEN k - 1 + 1 ELSE 0
      BY <3>3, SubSeqProperties
    <3>5. Len(SubSeq(b, 1, k)) = k
      BY <3>3, <3>4
    <3>2. SubSeq(b, 1, n - 1) \in Seq(Addr) /\ Len(SubSeq(b, 1, n - 1)) = n - 1
      BY <3>4, <3>5 DEF k
    <3> QED BY <3>2 DEF Front
  <2>4. Last(b) \in Addr
    BY <2>1, <2>2 DEF Last
  <2>5. BackOK(Front(b))
    BY <2>1, <2>3 DEF BackOK
  <2> QED BY <1>2, <2>4, <2>5 DEF GidGetBackAddress
<1> QED BY <1>1, <1>2

(* Every key keeps what holds.                                             *)
LEMMA NextHeld ==
  ASSUME Held, [Next]_vars
  PROVE  Held'
<1>1. /\ code \in Decoding /\ pos \in Addr /\ BackOK(back) /\ PageOK(page, pos)
      /\ GuideOK(guide) /\ pos \in Int
  BY ScreenParts, Decodes DEF Held
<1>2. /\ page.PrevStrLen \in Int /\ page.CurrStrLen \in Nat
      /\ page.PrevPageSize \in Nat /\ page.CurrPageSize \in Nat
  BY <1>1 DEF PageOK
<1>3. \A a \in Addr : a \in Int
  BY <1>1, Decodes
<1>4. CASE Up
  BY <1>1, <1>2, <1>4, GoToHolds DEF Up
<1>5. CASE Down
  <2>1. pos + page.CurrStrLen \in Int /\ pos + page.CurrStrLen >= pos
    BY <1>1, <1>2
  <2> QED BY <1>1, <1>5, <2>1, GoToHolds DEF Down
<1>6. CASE PgUp
  BY <1>1, <1>2, <1>6, GoToHolds DEF PgUp
<1>7. CASE PgDn
  BY <1>1, <1>2, <1>7, GoToHolds DEF PgDn
<1>8. CASE Arrow
  <2>1. PICK nfp \in {pos - 8, pos - 1, pos + 1, pos + 8, 0, FLen} :
          GoTo("arrow", nfp) /\ back' = back
    BY <1>8 DEF Arrow
  <2>2. nfp \in Int
    BY <1>1, <2>1, SizesOfConstants
  <2> QED BY <1>1, <2>1, <2>2, GoToHolds
<1>9. CASE Header
  <2>1. PICK nfp \in Addr : GoTo("alt", nfp) /\ back' = back
    BY <1>9 DEF Header
  <2> QED BY <1>1, <1>3, <2>1, GoToHolds
<1>10. CASE Search
  <2>1. PICK nfp \in Addr : GoTo("justfind", nfp) /\ back' = back
    BY <1>10 DEF Search
  <2> QED BY <1>1, <1>3, <2>1, GoToHolds
<1>11. CASE ReRead
  BY <1>1, <1>11, GoToHolds DEF ReRead
<1>12. CASE Jump
  <2>1. PICK nfp \in Addr : GoTo("super", nfp) /\ back' = GidAddBackAddress(back, pos)
    BY <1>12 DEF Jump
  <2>2. BackOK(back')
    BY <1>1, <2>1, AddBackFits
  <2> QED BY <1>1, <1>3, <2>1, <2>2, GoToHolds
<1>13. CASE BackSpace
  <2> DEFINE r == GidGetBackAddress(back, pos)
  <2>1. GoTo("bkspace", r.to) /\ back' = r.back
    BY <1>13 DEF BackSpace
  <2>2. r.to \in Addr /\ BackOK(r.back)
    BY <1>1, ReturnFits
  <2> HIDE DEF r
  <2> QED BY <1>1, <1>3, <2>1, <2>2, GoToHolds
<1>14. CASE \E k \in Keys : Follow(k)
  <2>1. PICK k \in Keys : Follow(k)
    BY <1>14
  <2> DEFINE r == GidGetGoAddress(guide, back, k, pos)
  <2>2. GoTo("key", r.to) /\ back' = r.back
    BY <2>1 DEF Follow
  <2>3. r.to \in Addr /\ BackOK(r.back)
    BY <1>1, FollowFits
  <2> HIDE DEF r
  <2> QED BY <1>1, <1>3, <2>2, <2>3, GoToHolds
<1>15. CASE UNCHANGED vars
  BY <1>15 DEF vars, Held, Screened, Sheet, Show, LineOK, Turned
<1> QED BY <1>4, <1>5, <1>6, <1>7, <1>8, <1>9, <1>10, <1>11, <1>12, <1>13, <1>14, <1>15
        DEF Next

(* What holds is enough for the types.                                     *)
LEMMA HeldTypes ==
  ASSUME Held
  PROVE  TypeOK
<1>1. /\ pos \in Addr /\ Screened(view, guide) /\ BackOK(back)
  BY DEF Held
<1>2. /\ view.row \in Lines /\ view.mark \in Marks /\ view.len \in Sizes /\ GuideOK(guide)
      /\ view.amocpos \in 0 .. FLen
  BY <1>1, ScreenParts
<1>3. view = [row |-> view.row, mark |-> view.mark, len |-> view.len,
              amocpos |-> view.amocpos]
  BY <1>1 DEF Screened
<1>4. view \in [row : Lines, mark : Marks, len : Sizes, amocpos : 0 .. FLen]
  BY <1>2, <1>3
<1>5. /\ Len(guide.addr) = Len(guide.line) /\ Len(guide.addr) < GoAddrSize
      /\ \A i \in 1 .. Len(guide.line) : guide.line[i] \in Row
  BY <1>2, GuideSeqs DEF GuideOK
<1>6. Len(back) < BackAddrSize /\ \A i \in 1 .. Len(back) : back[i] \in Addr
  BY <1>1, ElementOfSeq DEF BackOK
<1> QED BY <1>1, <1>4, <1>5, <1>6 DEF TypeOK, Lines, Marks, Sizes

(* The view keeps its types: whatever keys are pressed, the position stays *)
(* in the file and no jump of the guide leaves the screen or its table     *)
(* (mainloop.c:332-335, codeguid.c:145-219).                               *)
THEOREM Typing == Spec => []TypeOK
<1>1. Init => Held
  BY InitHeld
<1>2. Held /\ [Next]_vars => Held'
  BY NextHeld
<1>3. Held => TypeOK
  BY HeldTypes
<1> QED BY <1>1, <1>2, <1>3, PTL DEF Spec

(* PgUp takes back PgDn, also where the file ends: the distance back is    *)
(* the one that was wanted, not the one gone (disasm.c:162-179).           *)
THEOREM PgUpReturns == Spec => PgUpUndoesPgDn
<1>1. Init => Held
  BY InitHeld
<1>2. Held /\ [Next]_vars => Held'
  BY NextHeld
<1>3. ASSUME Held, [Next]_vars
      PROVE  [PgUp /\ hist.key = "pgdn" /\ pos = hist.want => pos' = hist.from]_vars
  <2> SUFFICES ASSUME PgUp, hist.key = "pgdn", pos = hist.want PROVE pos' = hist.from
    OBVIOUS
  <2>1. /\ hist.from \in Addr /\ hist.want \in Int
        /\ page.PrevPageSize = hist.want - hist.from
    BY <1>3 DEF Held, Turned
  <2>2. pos' = Clipped(pos - page.PrevPageSize)
    BY DEF PgUp, GoTo
  <2>3. pos - page.PrevPageSize = hist.from
    BY <2>1 DEF Addr
  <2> QED BY <2>1, <2>2, <2>3, Clips DEF Addr
<1> QED BY <1>1, <1>2, <1>3, PTL DEF Spec, PgUpUndoesPgDn

-----------------------------------------------------------------------------
(* What holds where the window has three lines, and the file more than two *)
(* of the longest instructions.                                            *)
Wide == Height > 2 /\ FLen > 2 * MaxCodeLen

(* The screen begins with an instruction, and is blank from where the file *)
(* ends; it is painted from the position, or a line was scrolled in.       *)
Filled(v, p) ==
  /\ v.row[0] # Blank
  /\ \A r \in Row : r > 0 /\ v.row[r - 1] = Blank => v.row[r] = Blank
  /\ v.row[Height - 1] = Blank => /\ v.amocpos + Summ(v.len, Height) >= FLen
                                  /\ p + Summ(v.len, Height) >= FLen
  /\ (p = 0 => v.row[0] = 0) /\ (v.amocpos = 0 => v.row[0] = 0)
  /\ \/ v.len[1] = 0 \/ v.amocpos <= p
     \/ v.amocpos > p + v.len[0] \/ v.amocpos = FLen

(* The next Down goes a line on, but at the end of the file.               *)
Stepped(v, p, pg) ==
  /\ \/ pg.CurrStrLen = v.len[0]
     \/ pg.CurrStrLen = 0 /\ v.len[1] = 0
     \/ p = FLen - 1 /\ v.amocpos = FLen - 1
  /\ Near(pg.PrevStrLen, p)

(* The next Up goes back where the last Down came from.                    *)
Went == hist.key = "down" /\ hist.want = pos /\ pos # hist.from
          => page.PrevStrLen = hist.want - hist.from

(* The inductive invariant, on top of what holds of every file.            *)
Filed == /\ Filled(view, pos) /\ Stepped(view, pos, page)
         /\ Pictured(Show(view, guide))
         /\ hist.lost \/ ListedIn(Show(view, guide), Row)
         /\ Went

(* A screen of one line has the end of the file below it.                  *)
LEMMA OneLineShown ==
  ASSUME NEW v, NEW g, Screened(v, g), NEW p, Filled(v, p), v.len[1] = 0, code \in Decoding
  PROVE  /\ \A r \in Row : r > 0 => v.row[r] = Blank
         /\ Summ(v.len, Height) = v.len[0]
<1>1. /\ v.row \in Lines /\ v.len \in Sizes /\ v.len \in Lengths
      /\ \A r \in Row : LineOK(v.row, v.len, r)
  BY ScreenParts
<1>2. v.row[1] = Blank
  <2>1. v.row[1] # Blank => v.row[1] \in Addr /\ v.len[1] = code[v.row[1]].len
    BY <1>1, SizesOfConstants DEF LineOK, Lines
  <2>2. v.row[1] # Blank => v.len[1] \in 1 .. MaxCodeLen
    BY <2>1, Decodes
  <2> QED BY <2>2
<1> DEFINE P == {i \in 0 .. Height - 2 : v.row[i + 1] = Blank}
<1>3. 0 \in P
  BY <1>2, SizesOfConstants
<1>4. ASSUME NEW i \in 0 .. (Height - 2) - 1, i \in P PROVE i + 1 \in P
  <2>1. (i + 1) + 1 \in Row /\ (i + 1) + 1 > 0 /\ ((i + 1) + 1) - 1 = i + 1
        /\ i + 1 \in 0 .. Height - 2
    BY SizesOfConstants DEF Row
  <2>2. v.row[i + 1] = Blank
    BY <1>4
  <2>3. v.row[(i + 1) + 1] = Blank
    BY <2>1, <2>2 DEF Filled
  <2> QED BY <2>1, <2>3
<1> HIDE DEF P
<1>5. \A i \in 0 .. Height - 2 : i \in P
  <2>1. Height - 2 \in Nat
    BY SizesOfConstants
  <2> QED BY <1>3, <1>4, <2>1, RangeInduction
<1>6. ASSUME NEW r \in Row, r > 0 PROVE v.row[r] = Blank /\ v.len[r] = 0
  <2>1. r - 1 \in 0 .. Height - 2 /\ (r - 1) + 1 = r
    BY <1>6, SizesOfConstants DEF Row
  <2>2. v.row[r] = Blank
    BY <1>5, <2>1 DEF P
  <2> QED BY <1>1, <2>2 DEF LineOK
<1>7. Summ(v.len, Height) = v.len[0]
  <2>1. 1 \in 0 .. Height /\ Height \in 1 .. Height
    BY SizesOfConstants
  <2>2. \A r \in Row : r >= 1 => v.len[r] = 0
    <3>1. \A r \in Row : r >= 1 => r > 0
      BY SizesOfConstants DEF Row
    <3> QED BY <1>6, <3>1
  <2>3. Summ(v.len, Height) = Summ(v.len, 1)
    BY <1>1, <2>1, <2>2, SummBlank
  <2>4. Summ(v.len, 0 + 1) = Summ(v.len, 0) + v.len[0] /\ Summ(v.len, 0) = 0
    BY SummStep, SizesOfConstants
  <2>5. v.len[0] \in Nat
    BY <1>1, SizesOfConstants DEF Lengths
  <2> QED BY <2>3, <2>4, <2>5
<1> QED BY <1>6, <1>7

(* The first line, and the numbers of a state.                             *)
LEMMA Numbers ==
  ASSUME Held, Filed
  PROVE  /\ pos \in Nat /\ pos < FLen /\ FLen \in Nat /\ MaxCodeLen \in Nat /\ MaxCodeLen > 0
         /\ view.len[0] \in 1 .. MaxCodeLen /\ view.len[1] \in 0 .. MaxCodeLen
         /\ view.len[Height - 1] \in 0 .. MaxCodeLen
         /\ view.amocpos \in 0 .. FLen
         /\ view.row[0] \in Addr /\ view.len[0] = code[view.row[0]].len
         /\ pos = 0 => view.len[0] = code[0].len
         /\ code[0].len \in 1 .. MaxCodeLen
         /\ page.CurrStrLen \in Nat
         /\ Summ(view.len, Height) \in Nat
         /\ Summ(view.len, Height) >= view.len[0] + view.len[Height - 1]
         /\ view.len[1] = 0 => /\ pos + view.len[0] >= FLen
                               /\ Summ(view.len, Height) = view.len[0]
<1>1. code \in Decoding /\ pos \in Addr /\ Screened(view, guide) /\ PageOK(page, pos)
  BY DEF Held
<1>2. /\ view.row \in Lines /\ view.len \in Sizes /\ view.len \in Lengths
      /\ view.amocpos \in 0 .. FLen /\ \A r \in Row : LineOK(view.row, view.len, r)
  BY <1>1, ScreenParts
<1>3. Filled(view, pos)
  BY DEF Filed
<1>4. /\ pos \in Nat /\ pos < FLen /\ FLen \in Nat /\ MaxCodeLen \in Nat /\ MaxCodeLen > 0
  BY <1>1, Decodes, SizesOfConstants
<1>5. view.row[0] \in Addr /\ view.len[0] = code[view.row[0]].len
  <2>1. view.row[0] # Blank /\ view.row[0] \in Addr \cup {Blank}
    BY <1>2, <1>3, SizesOfConstants DEF Filled, Lines
  <2> QED BY <1>2, <2>1, SizesOfConstants DEF LineOK
<1>6. 0 \in Addr /\ code[0].len \in 1 .. MaxCodeLen /\ view.len[0] \in 1 .. MaxCodeLen
  <2>1. 0 \in Addr
    BY <1>1, Decodes, SizesOfConstants
  <2> QED BY <1>1, <1>5, <2>1, Decodes
<1>7. /\ view.len[1] \in 0 .. MaxCodeLen /\ view.len[Height - 1] \in 0 .. MaxCodeLen
      /\ page.CurrStrLen \in Nat
  BY <1>1, <1>2, SizesOfConstants DEF Sizes, PageOK
<1>8. pos = 0 => view.len[0] = code[0].len
  BY <1>3, <1>5 DEF Filled
<1>9. /\ Summ(view.len, Height) \in Nat
      /\ Summ(view.len, Height) >= view.len[0] + view.len[Height - 1]
  <2>1. /\ Height \in 0 .. Height /\ Height - 1 \in 0 .. Height /\ 0 \in 0 .. Height - 1
        /\ 0 < Height - 1 /\ (Height - 1) + 1 = Height
    BY SizesOfConstants
  <2>2. Summ(view.len, 0) = 0 /\ Summ(view.len, Height) = Summ(view.len, Height - 1) + view.len[Height - 1]
    BY <2>1, SummStep, SizesOfConstants
  <2>3. Summ(view.len, 0) + view.len[0] <= Summ(view.len, Height - 1)
    BY <1>2, <2>1, SummGrows
  <2>4. Summ(view.len, Height) \in Nat /\ Summ(view.len, Height - 1) \in Nat
    BY <1>2, <2>1, SummNat
  <2> QED BY <1>6, <1>7, <2>2, <2>3, <2>4
<1>10. view.len[1] = 0 => /\ pos + view.len[0] >= FLen
                          /\ Summ(view.len, Height) = view.len[0]
  <2> SUFFICES ASSUME view.len[1] = 0
               PROVE  pos + view.len[0] >= FLen /\ Summ(view.len, Height) = view.len[0]
    OBVIOUS
  <2>1. /\ \A r \in Row : r > 0 => view.row[r] = Blank
        /\ Summ(view.len, Height) = view.len[0]
    BY <1>1, <1>3, OneLineShown
  <2>2. view.row[Height - 1] = Blank
    BY <2>1, SizesOfConstants
  <2> QED BY <1>3, <2>1, <2>2 DEF Filled
<1> QED BY <1>2, <1>4, <1>5, <1>6, <1>7, <1>8, <1>9, <1>10

(* Where a Down leads.                                                     *)
LEMMA DownLeads ==
  ASSUME Wide, Held, Filed, NEW p, p = Clipped(pos + page.CurrStrLen)
  PROVE  /\ Near(view.len[0], p) /\ p >= pos /\ (p = 0 => pos = 0)
         /\ p + view.len[0] >= FLen \/ view.len[1] # 0
         /\ p = pos + page.CurrStrLen /\ p # pos => view.len[0] = page.CurrStrLen
         /\ view.len[1] # 0 => p > 0 /\ (p = pos + view.len[0] \/ p = FLen - 1)
         /\ view.len[1] # 0 /\ view.amocpos = p => p = FLen - 1
<1> DEFINE l0 == view.len[0]
           l1 == view.len[1]
           a == view.amocpos
           c == page.CurrStrLen
           k == code[0].len
<1>1. /\ pos \in Nat /\ pos < FLen /\ FLen \in Nat /\ MaxCodeLen \in Nat /\ MaxCodeLen > 0
      /\ l0 \in 1 .. MaxCodeLen /\ l1 \in 0 .. MaxCodeLen /\ a \in 0 .. FLen
      /\ (pos = 0 => l0 = k) /\ k \in 1 .. MaxCodeLen /\ c \in Nat
      /\ (l1 = 0 => pos + l0 >= FLen)
  BY Numbers
<1>2. FLen > 2 * MaxCodeLen
  BY DEF Wide
<1>3. c = l0 \/ (c = 0 /\ l1 = 0) \/ (pos = FLen - 1 /\ a = FLen - 1)
  BY DEF Filed, Stepped
<1>4. l1 = 0 \/ a <= pos \/ a > pos + l0 \/ a = FLen
  BY DEF Filed, Filled
<1>5. p = IF pos + c < FLen - 1 THEN pos + c ELSE FLen - 1
  BY <1>1, Clips
<1> HIDE DEF l0, l1, a, c, k
<1>6. l0 >= p => k >= p
  BY <1>1, <1>2, <1>3, <1>5
<1>7. p >= pos /\ (p = 0 => pos = 0) /\ (p + l0 >= FLen \/ l1 # 0)
  BY <1>1, <1>2, <1>3, <1>5
<1>8. p = pos + c /\ p # pos => l0 = c
  BY <1>1, <1>2, <1>3, <1>5
<1>9. l1 # 0 => p > 0 /\ (p = pos + l0 \/ p = FLen - 1)
  BY <1>1, <1>2, <1>3, <1>5
<1>10. l1 # 0 /\ a = p => p = FLen - 1
  BY <1>1, <1>2, <1>3, <1>4, <1>5
<1> QED BY <1>6, <1>7, <1>8, <1>9, <1>10 DEF Near, l0, l1, a, c, k

(* Where a page down leads.                                                *)
LEMMA PageLeads ==
  ASSUME Wide, Held, Filed
  PROVE  Near(view.len[Height - 1], Clipped(pos + page.CurrPageSize))
<1> DEFINE l == view.len[Height - 1]
           l0 == view.len[0]
           size == Summ(view.len, Height)
           p == Clipped(pos + page.CurrPageSize)
<1>1. /\ pos \in Nat /\ pos < FLen /\ FLen \in Nat /\ MaxCodeLen \in Nat /\ MaxCodeLen > 0
      /\ l0 \in 1 .. MaxCodeLen /\ l \in 0 .. MaxCodeLen
      /\ size \in Nat /\ size >= l0 + l
  BY Numbers
<1>2. FLen > 2 * MaxCodeLen /\ page.CurrPageSize = size
  BY DEF Wide, Held
<1>3. p = IF pos + size < FLen - 1 THEN pos + size ELSE FLen - 1
  BY <1>1, <1>2, Clips
<1> HIDE DEF l, l0, size, p
<1>4. ~(l >= p)
  BY <1>1, <1>2, <1>3
<1> QED BY <1>4 DEF Near, l, p

-----------------------------------------------------------------------------
(* What a key leaves of the screen, for each way of painting.              *)
Wanted(key, nfp) ==
  /\ nfp \in Int
  /\ key = "down" => nfp = pos + page.CurrStrLen
  /\ key = "pgdn" => nfp = pos + page.CurrPageSize
  /\ key = "up"   => nfp = pos - page.PrevStrLen

(* A key, where it leads, what it is taken for, and the page before it is  *)
(* painted.                                                                *)
Pressed(key0, nfp, p, key, pg) ==
  /\ Wanted(key0, nfp) /\ p = Clipped(nfp)
  /\ key = EffectiveKey(view, key0, p)
  /\ pg = PrepareAsmLines(page, view.len, key, p)

(* What a key finds when the lines above are known: where it leads, and    *)
(* the distances.                                                          *)
LEMMA Prepared ==
  ASSUME Wide, Held, Filed, NEW key0, NEW nfp, NEW p, NEW key, NEW pg,
         Pressed(key0, nfp, p, key, pg)
  PROVE  /\ p \in Addr /\ p \in Nat /\ p < FLen /\ Lesser(p, FLen) = p
         /\ (key = "down" <=> key0 = "down") /\ (key = "pgdn" <=> key0 = "pgdn")
         /\ key = "up" => key0 = "up"
         /\ PageOK(pg, p) /\ pg.CurrStrLen \in Nat /\ Near(pg.PrevStrLen, p)
         /\ pg.CurrStrLen = IF key = "down" THEN view.len[1] ELSE page.CurrStrLen
         /\ key = "down" => pg.PrevStrLen = view.len[0]
<1>1. /\ code \in Decoding /\ pos \in Addr /\ PageOK(page, pos) /\ view.len \in Sizes
      /\ pos \in Int
  BY ScreenParts, Decodes DEF Held
<1>2. /\ nfp \in Int /\ p = Clipped(nfp) /\ key = EffectiveKey(view, key0, p)
      /\ pg = PrepareAsmLines(page, view.len, key, p)
      /\ key0 = "down" => nfp = pos + page.CurrStrLen
      /\ key0 = "pgdn" => nfp = pos + page.CurrPageSize
  BY DEF Pressed, Wanted
<1>3. p \in Addr
  BY <1>2, Clips
<1>4. p \in Nat /\ p < FLen /\ Lesser(p, FLen) = p
  <2>1. p \in Nat /\ p < FLen
    BY <1>1, <1>3, Decodes
  <2> QED BY <2>1 DEF Lesser
<1>5. (key = "down" <=> key0 = "down") /\ (key = "pgdn" <=> key0 = "pgdn")
  BY <1>2, KeysKept
<1>6. key = "up" => key0 = "up"
  BY <1>2 DEF EffectiveKey
<1>7. key = "down" => Near(view.len[0], p) /\ p >= pos
  <2> SUFFICES ASSUME key = "down" PROVE Near(view.len[0], p) /\ p >= pos
    OBVIOUS
  <2>1. p = Clipped(pos + page.CurrStrLen)
    BY <1>2, <1>5
  <2> QED BY <2>1, DownLeads
<1>8. key = "pgdn" => Near(view.len[Height - 1], p)
  BY <1>2, <1>5, PageLeads
<1>9. /\ PageOK(pg, p)
      /\ pg.CurrStrLen = IF key = "down" THEN view.len[1] ELSE page.CurrStrLen
      /\ key = "down" => pg.PrevStrLen = view.len[0]
      /\ key = "pgdn" => pg.PrevStrLen = view.len[Height - 1]
      /\ key \notin {"down", "pgdn"} => Near(pg.PrevStrLen, p)
  <2>1. key = "down" => pos <= p
    BY <1>1, <1>4, <1>7
  <2> QED BY <1>1, <1>2, <1>3, <2>1, PrepareFits
<1>10. Near(pg.PrevStrLen, p)
  BY <1>7, <1>8, <1>9
<1>11. pg.CurrStrLen \in Nat
  BY <1>9 DEF PageOK
<1> QED BY <1>3, <1>4, <1>5, <1>6, <1>9, <1>10, <1>11

(* A screen that is kept begins at the new position.                       *)
LEMMA KeptFills ==
  ASSUME Wide, Held, Filed, NEW key0, NEW nfp, NEW p, NEW key, NEW pg,
         Pressed(key0, nfp, p, key, pg), Kept(key, p, pg)
  PROVE  Filled(view, p) /\ Stepped(view, p, pg)
<1>1. p \in Nat /\ p < FLen /\ Near(pg.PrevStrLen, p)
  BY Prepared
<1>2. view.amocpos = p
  BY DEF Kept
<1>3. Filled(view, p)
  <2>1. p <= p
    BY <1>1
  <2>2. Filled(view, pos)
    BY DEF Filed
  <2> QED BY <1>2, <2>1, <2>2 DEF Filled
<1>4. CASE key = "down"
  <2>1. pg.CurrStrLen = view.len[1]
    BY <1>4, Prepared
  <2>2. key0 = "down"
    BY <1>4, Prepared
  <2>3. p = Clipped(pos + page.CurrStrLen)
    BY <2>2 DEF Pressed, Wanted
  <2>4. view.len[1] # 0 => p = FLen - 1
    BY <1>2, <2>3, DownLeads
  <2> QED BY <1>1, <1>2, <1>3, <2>1, <2>4 DEF Stepped
<1>5. CASE key # "down"
  <2>1. pg.CurrStrLen = page.CurrStrLen
    BY <1>5, Prepared
  <2>2. \/ page.CurrStrLen = view.len[0]
        \/ page.CurrStrLen = 0 /\ view.len[1] = 0
        \/ pos = FLen - 1 /\ view.amocpos = FLen - 1
    BY DEF Filed, Stepped
  <2> QED BY <1>1, <1>2, <1>3, <2>1, <2>2 DEF Stepped
<1> QED BY <1>4, <1>5

(* All lines painted.                                                      *)
LEMMA WholeFills ==
  ASSUME Wide, Held, Filed, NEW key0, NEW nfp, NEW p, NEW key, NEW pg,
         Pressed(key0, nfp, p, key, pg), DrawnWhole(key, p, pg)
  PROVE  Filled(view', p) /\ Stepped(view', p, page')
<1>1. /\ p \in Addr /\ p \in Nat /\ Lesser(p, FLen) = p /\ PageOK(pg, p)
      /\ Near(pg.PrevStrLen, p) /\ code \in Decoding /\ Sheet(Show(view, guide))
  BY Prepared DEF Held, Screened
<1> DEFINE c == WholeCanvas(view, p)
<1>2. Whole(c, p, Height)
  BY <1>1, WholeFits
<1>3. /\ view' = [row |-> c.row, mark |-> c.mark, len |-> c.len, amocpos |-> p]
      /\ page' = [pg EXCEPT !.CurrPageSize = Summ(c.len, Height),
                            !.CurrStrLen = IF c.row[0] # Blank THEN c.len[0]
                                           ELSE pg.CurrStrLen]
  BY <1>1 DEF DrawnWhole, Drawn
<1> HIDE DEF c
<1>4. /\ c.at = p + Summ(c.len, Height) /\ c.row[0] = p
      /\ c.row[Height - 1] = Blank => c.at >= FLen
      /\ \A r \in Above(Height) : r > 0 /\ c.row[r - 1] = Blank => c.row[r] = Blank
  BY <1>2, SizesOfConstants DEF Whole
<1>5. \A r \in Row : r \in Above(Height)
  BY SizesOfConstants DEF Above, Row
<1>6. p # Blank
  BY <1>1 DEF Blank
<1>7. /\ view'.row = c.row /\ view'.len = c.len /\ view'.amocpos = p
      /\ page'.CurrStrLen = c.len[0] /\ page'.PrevStrLen = pg.PrevStrLen
  BY <1>1, <1>3, <1>4, <1>6 DEF PageOK
<1>8. Filled(view', p)
  BY <1>1, <1>4, <1>5, <1>6, <1>7 DEF Filled
<1>9. Stepped(view', p, page')
  BY <1>1, <1>7 DEF Stepped
<1> QED BY <1>8, <1>9

(* A step down with no line to scroll in.                                  *)
LEMMA BottomFills ==
  ASSUME Wide, Held, Filed, NEW key0, NEW nfp, NEW p, NEW key, NEW pg,
         Pressed(key0, nfp, p, key, pg), AtBottom(key, p, pg)
  PROVE  Filled(view', p) /\ Stepped(view', p, page')
<1>1. /\ key = "down" /\ page' = pg /\ view.len[1] = 0
      /\ view'.row = view.row /\ view'.len = view.len /\ view'.amocpos = view.amocpos
  BY DEF AtBottom
<1>2. /\ Near(pg.PrevStrLen, p) /\ pg.CurrStrLen = view.len[1] /\ p \in Nat
      /\ (key = "down" <=> key0 = "down")
  BY <1>1, Prepared
<1>3. p >= pos /\ (p = 0 => pos = 0) /\ p + view.len[0] >= FLen
  <2>1. p = Clipped(pos + page.CurrStrLen)
    BY <1>1, <1>2 DEF Pressed, Wanted
  <2> QED BY <1>1, <2>1, DownLeads
<1>4. Filled(view, pos) /\ Summ(view.len, Height) = view.len[0]
  BY <1>1, Numbers DEF Filed
<1>5. Filled(view', p)
  <2>1. p + Summ(view.len, Height) >= FLen
    BY <1>3, <1>4
  <2> QED BY <1>1, <1>3, <1>4, <2>1 DEF Filled
<1>6. Stepped(view', p, page')
  BY <1>1, <1>2 DEF Stepped
<1> QED BY <1>5, <1>6

(* A screen after a step up.                                               *)
LEMMA UpShows ==
  ASSUME Held, NEW p \in Addr, NEW key, NEW pg, PageOK(pg, p), DrawnUp(key, p, pg)
  PROVE  /\ view'.row[0] = p /\ view'.len[0] = code[p].len /\ view'.amocpos = p
         /\ \A r \in Row : r > 0 => /\ view'.row[r] = view.row[r - 1]
                                    /\ view'.len[r] = view.len[r - 1]
         /\ view'.len \in Lengths
         /\ Summ(view'.len, Height) = code[p].len + Summ(view.len, Height - 1)
         /\ page'.CurrStrLen = view'.len[0] /\ page'.PrevStrLen = pg.PrevStrLen
<1> DEFINE s == UpStart(view, guide, p)
           c == UpCanvas(view, guide, p)
<1>1. code \in Decoding /\ Screened(view, guide)
  BY DEF Held
<1>2. /\ view.row \in Lines /\ view.len \in Sizes /\ view.len \in Lengths
      /\ Sheet(Show(view, guide))
  BY <1>1, ScreenParts
<1>3. Sheet(s) /\ s.at = p /\ Painted(s, c, 0)
  BY <1>1, <1>2, UpFits
<1>4. p \in Nat /\ p < FLen /\ p # Blank /\ Lesser(p, FLen) = p
  <2>1. p \in Nat /\ p < FLen
    BY <1>1, Decodes
  <2> QED BY <2>1 DEF Lesser, Blank
<1>5. s.row = ScrolledDn(view.row) /\ s.len = ScrolledDn(view.len)
  BY DEF UpStart, Start
<1>6. /\ view' = [row |-> c.row, mark |-> c.mark, len |-> c.len, amocpos |-> p]
      /\ page' = [pg EXCEPT !.CurrPageSize = Summ(c.len, Height),
                            !.CurrStrLen = IF c.row[0] # Blank THEN c.len[0]
                                           ELSE pg.CurrStrLen]
  BY <1>4 DEF DrawnUp, Drawn
<1> HIDE DEF s, c
<1>7. /\ c.row[0] = p /\ Sheet(c) /\ c.len \in Sizes /\ c.len \in Lengths
      /\ \A r \in Row : LineOK(c.row, c.len, r)
      /\ \A r \in Row \ {0} : c.row[r] = s.row[r] /\ c.len[r] = s.len[r]
  BY <1>3, <1>4, CanvasParts, SizesAreLengths DEF Painted, Sheet
<1>8. c.len[0] = code[p].len
  BY <1>4, <1>7, SizesOfConstants DEF LineOK
<1>9. ASSUME NEW r \in Row, r > 0
      PROVE  c.row[r] = view.row[r - 1] /\ c.len[r] = view.len[r - 1]
  <2>1. ScrolledDn(view.row)[r] = view.row[r - 1]
    BY <1>2, <1>9, Scrolls DEF Lines
  <2>2. ScrolledDn(view.len)[r] = view.len[r - 1]
    BY <1>2, <1>9, Scrolls DEF Sizes
  <2> QED BY <1>5, <1>7, <1>9, <2>1, <2>2
<1>10. Summ(c.len, Height) = code[p].len + Summ(view.len, Height - 1)
  <2>1. \A r \in Row : r < Height - 1 => view.len[r] = c.len[r + 1]
    <3> SUFFICES ASSUME NEW r \in Row, r < Height - 1 PROVE view.len[r] = c.len[r + 1]
      OBVIOUS
    <3>1. r + 1 \in Row /\ r + 1 > 0 /\ (r + 1) - 1 = r
      BY SizesOfConstants DEF Row
    <3> QED BY <1>9, <3>1
  <2>2. \A n \in 0 .. Height - 1 : Summ(view.len, n) = Summ(c.len, n + 1) - c.len[0]
    BY <1>2, <1>7, <2>1, SummUp
  <2>3. Height - 1 \in 0 .. Height - 1 /\ (Height - 1) + 1 = Height /\ Height \in 0 .. Height
    BY SizesOfConstants
  <2>4. Summ(view.len, Height - 1) = Summ(c.len, Height) - c.len[0]
    BY <2>2, <2>3
  <2>5. Summ(c.len, Height) \in Nat /\ c.len[0] \in Nat
    BY <1>7, <2>3, SummNat, SizesOfConstants DEF Lengths
  <2> QED BY <1>8, <2>4, <2>5
<1>11. /\ view'.row = c.row /\ view'.len = c.len /\ view'.amocpos = p
       /\ page'.CurrStrLen = c.len[0] /\ page'.PrevStrLen = pg.PrevStrLen
  BY <1>4, <1>6, <1>7 DEF PageOK
<1> QED BY <1>7, <1>8, <1>9, <1>10, <1>11

(* A step up: the screen still ends where the file does, for the new line  *)
(* ends where the screen began, or the file begins with it.                *)
LEMMA UpFills ==
  ASSUME Wide, Held, Filed, NEW key0, NEW nfp, NEW p, NEW key, NEW pg,
         Pressed(key0, nfp, p, key, pg), DrawnUp(key, p, pg), view.amocpos # p
  PROVE  Filled(view', p) /\ Stepped(view', p, page')
<1> DEFINE n == code[p].len
           k == code[0].len
           all == Summ(view.len, Height)
           most == Summ(view.len, Height - 1)
           a == view.amocpos
<1>1. /\ p \in Addr /\ p \in Nat /\ p < FLen /\ PageOK(pg, p) /\ Near(pg.PrevStrLen, p)
  BY Prepared
<1>2. /\ key = "up" /\ key0 = "up" /\ p = Clipped(pos - page.PrevStrLen)
      /\ key = EffectiveKey(view, key0, p)
  <2>1. key = "up"
    BY DEF DrawnUp
  <2>2. /\ Wanted(key0, nfp) /\ p = Clipped(nfp)
        /\ key = EffectiveKey(view, key0, p)
    BY DEF Pressed
  <2>3. key0 = "up"
    BY <2>1, <2>2 DEF EffectiveKey
  <2>4. nfp = pos - page.PrevStrLen
    BY <2>2, <2>3 DEF Wanted
  <2> QED BY <2>1, <2>2, <2>3, <2>4
<1>3. p + n = a \/ p = 0 \/ a = 0
  BY <1>2 DEF EffectiveKey
<1>4. /\ view'.row[0] = p /\ view'.len[0] = n /\ view'.amocpos = p
      /\ \A r \in Row : r > 0 => /\ view'.row[r] = view.row[r - 1]
                                 /\ view'.len[r] = view.len[r - 1]
      /\ Summ(view'.len, Height) = n + most
      /\ page'.CurrStrLen = view'.len[0] /\ page'.PrevStrLen = pg.PrevStrLen
  BY <1>1, UpShows
<1>5. /\ pos \in Nat /\ FLen \in Nat /\ a \in Nat /\ k \in Nat /\ all \in Nat /\ n \in Nat
      /\ page.PrevStrLen \in Int /\ FLen > 2
  <2>1. code \in Decoding /\ PageOK(page, pos)
    BY DEF Held
  <2>2. n \in Nat
    BY <1>1, <2>1, Decodes, SizesOfConstants
  <2>3. page.PrevStrLen \in Int
    BY <2>1 DEF PageOK
  <2>4. /\ pos \in Nat /\ FLen \in Nat /\ a \in 0 .. FLen /\ k \in 1 .. MaxCodeLen /\ all \in Nat
        /\ MaxCodeLen \in Nat /\ MaxCodeLen > 0
    BY Numbers
  <2>5. FLen > 2 * MaxCodeLen
    BY DEF Wide
  <2> HIDE DEF n, k, all, a
  <2> QED BY <2>2, <2>3, <2>4, <2>5
<1>6. Filled(view, pos) /\ Near(page.PrevStrLen, pos)
  BY DEF Filed, Stepped
<1>7. view.row[Height - 1] = Blank => all = most /\ p + (n + most) >= FLen
  <2> SUFFICES ASSUME view.row[Height - 1] = Blank PROVE all = most /\ p + (n + most) >= FLen
    OBVIOUS
  <2>1. a + all >= FLen /\ pos + all >= FLen
    BY <1>6 DEF Filled
  <2>2. all = most
    <3>1. view.len \in Lengths /\ LineOK(view.row, view.len, Height - 1)
      BY ScreenParts, SizesOfConstants DEF Held
    <3>2. view.len[Height - 1] = 0
      BY <3>1 DEF LineOK
    <3>3. Summ(view.len, (Height - 1) + 1) = Summ(view.len, Height - 1) + view.len[Height - 1]
      BY SummStep, SizesOfConstants
    <3>4. Summ(view.len, Height - 1) \in Nat
      <4>1. Height - 1 \in 0 .. Height
        BY SizesOfConstants
      <4> QED BY <3>1, <4>1, SummNat
    <3>5. (Height - 1) + 1 = Height
      BY SizesOfConstants
    <3> QED BY <3>2, <3>3, <3>4, <3>5
  <2>3. p = IF pos - page.PrevStrLen < 0 THEN 0
            ELSE IF pos - page.PrevStrLen < FLen - 1 THEN pos - page.PrevStrLen ELSE FLen - 1
    BY <1>2, <1>5, Clips
  <2>4. page.PrevStrLen >= pos => k >= pos
    BY <1>6 DEF Near
  <2>5. p = 0 => k = n
    OBVIOUS
  <2> HIDE DEF n, k, all, most, a
  <2>6. p = 0 => page.PrevStrLen >= pos
    BY <1>1, <1>5, <2>3
  <2> QED BY <1>1, <1>3, <1>5, <2>1, <2>2, <2>4, <2>5, <2>6
<1> HIDE DEF n, all, most, a
<1>8. \A r \in Row : r > 0 /\ view'.row[r - 1] = Blank => view'.row[r] = Blank
  <2> SUFFICES ASSUME NEW r \in Row, r > 0, view'.row[r - 1] = Blank
               PROVE  view'.row[r] = Blank
    OBVIOUS
  <2>1. r - 1 \in Row /\ r - 1 # 0
    <3>1. r - 1 \in Row
      BY SizesOfConstants DEF Row
    <3>2. p # Blank
      BY <1>1 DEF Blank
    <3> QED BY <1>4, <3>1, <3>2
  <2>2. r - 1 > 0
    BY <2>1, SizesOfConstants DEF Row
  <2>3. view.row[(r - 1) - 1] = Blank
    BY <1>4, <2>1, <2>2
  <2>4. view.row[r - 1] = Blank
    BY <1>6, <2>1, <2>2, <2>3 DEF Filled
  <2> QED BY <1>4, <2>4
<1>9. view'.row[Height - 1] = Blank => p + Summ(view'.len, Height) >= FLen
  <2> SUFFICES ASSUME view'.row[Height - 1] = Blank PROVE p + Summ(view'.len, Height) >= FLen
    OBVIOUS
  <2>1. Height - 1 > 0 /\ (Height - 1) - 1 = Height - 2
    BY SizesOfConstants
  <2>2. view.row[(Height - 1) - 1] = Blank
    BY <1>4, <2>1, SizesOfConstants
  <2>3. view.row[Height - 1] = Blank
    BY <1>6, <2>1, <2>2, SizesOfConstants DEF Filled
  <2> QED BY <1>4, <1>7, <2>3
<1>10. Filled(view', p)
  <2>1. p # Blank /\ p <= p
    BY <1>1 DEF Blank
  <2> QED BY <1>4, <1>8, <1>9, <2>1 DEF Filled
<1>11. Stepped(view', p, page')
  BY <1>1, <1>4 DEF Stepped
<1> QED BY <1>10, <1>11

(* A screen after a step down.                                             *)
LEMMA DownShows ==
  ASSUME Held, NEW p \in Addr, NEW key, NEW pg, PageOK(pg, p), DrawnDown(key, p, pg)
  PROVE  LET most == Summ(view'.len, Height - 1)
         IN  /\ \A r \in Row : r < Height - 1 => /\ view'.row[r] = view.row[r + 1]
                                                 /\ view'.len[r] = view.len[r + 1]
             /\ most \in Nat /\ most = Summ(view.len, Height) - view.len[0]
             /\ view'.amocpos = Lesser(p + most, FLen)
             /\ view'.row[Height - 1] = IF p + most < FLen THEN p + most ELSE Blank
             /\ view'.len \in Lengths
             /\ Summ(view'.len, Height) = most + view'.len[Height - 1]
             /\ page'.CurrStrLen = pg.CurrStrLen /\ page'.PrevStrLen = pg.PrevStrLen
<1> DEFINE s == DownStart(view, guide, p)
           c == DownCanvas(view, guide, p)
           f == ScrolledUp(view.len)
           most == Summ(f, Height - 1)
           from == Lesser(p + most, FLen)
<1>1. code \in Decoding /\ Screened(view, guide)
  BY DEF Held
<1>2. /\ view.row \in Lines /\ view.len \in Sizes /\ view.len \in Lengths
      /\ Sheet(Show(view, guide)) /\ f \in Sizes /\ f \in Lengths
  <2>1. /\ view.row \in Lines /\ view.len \in Sizes /\ view.len \in Lengths
        /\ Sheet(Show(view, guide))
    BY <1>1, ScreenParts
  <2>2. f \in Sizes
    BY <2>1, Scrolls DEF Sizes
  <2> QED BY <2>1, <2>2, SizesAreLengths
<1>3. Painted(s, c, Height - 1) /\ s.at = from
  <2>1. Painted(s, c, Height - 1) /\ s.at = Lesser(NextLine(view, p), FLen)
    BY <1>1, <1>2, DownFits
  <2> QED BY <2>1 DEF NextLine
<1>4. s.row = ScrolledUp(view.row) /\ s.len = f
  BY DEF DownStart, Start
<1>5. /\ view' = [row |-> c.row, mark |-> c.mark, len |-> c.len, amocpos |-> from]
      /\ page' = [pg EXCEPT !.CurrPageSize = Summ(c.len, Height), !.CurrStrLen = pg.CurrStrLen]
  BY DEF DrawnDown, Drawn, NextLine
<1>6. p \in Nat
  BY <1>1, Decodes
<1> HIDE DEF s, c
<1>7. /\ c.row[Height - 1] = IF from < FLen THEN from ELSE Blank
      /\ c.len \in Lengths
      /\ \A r \in Row \ {Height - 1} : c.row[r] = s.row[r] /\ c.len[r] = s.len[r]
  BY <1>3, CanvasParts, SizesAreLengths DEF Painted, Sheet
<1>8. ASSUME NEW r \in Row, r < Height - 1
      PROVE  /\ c.row[r] = view.row[r + 1] /\ c.len[r] = view.len[r + 1]
             /\ f[r] = c.len[r] /\ f[r] = view.len[r + 1]
  <2>1. ScrolledUp(view.row)[r] = view.row[r + 1]
    BY <1>2, <1>8, Scrolls DEF Lines
  <2>2. ScrolledUp(view.len)[r] = view.len[r + 1]
    BY <1>2, <1>8, Scrolls DEF Sizes
  <2>3. r \in Row \ {Height - 1}
    BY <1>8, SizesOfConstants DEF Row
  <2> QED BY <1>4, <1>7, <2>1, <2>2, <2>3
<1> HIDE DEF f
<1>9. most = Summ(c.len, Height - 1)
  <2>1. Height - 1 \in 0 .. Height
    BY SizesOfConstants
  <2> QED BY <1>2, <1>7, <1>8, <2>1, SummSame
<1>10. most = Summ(view.len, Height) - view.len[0]
  <2>1. \A n \in 0 .. Height - 1 : Summ(f, n) = Summ(view.len, n + 1) - view.len[0]
    BY <1>2, <1>8, SummUp
  <2>2. Height - 1 \in 0 .. Height - 1 /\ (Height - 1) + 1 = Height
    BY SizesOfConstants
  <2> QED BY <2>1, <2>2
<1>11. most \in Nat
  <2>1. Height - 1 \in 0 .. Height
    BY SizesOfConstants
  <2> QED BY <1>2, <2>1, SummNat
<1>12. Summ(c.len, Height) = most + c.len[Height - 1]
  <2>1. Summ(c.len, (Height - 1) + 1) = Summ(c.len, Height - 1) + c.len[Height - 1]
    BY SummStep, SizesOfConstants
  <2>2. (Height - 1) + 1 = Height
    BY SizesOfConstants
  <2> QED BY <1>9, <2>1, <2>2
<1>13. c.row[Height - 1] = IF p + most < FLen THEN p + most ELSE Blank
  <2> HIDE DEF most
  <2>1. from < FLen <=> p + most < FLen
    BY <1>6, <1>11, SizesOfConstants DEF Lesser
  <2>2. p + most < FLen => from = p + most
    BY DEF Lesser
  <2> QED BY <1>7, <2>1, <2>2
<1> HIDE DEF most, from
<1>14. /\ view'.row = c.row /\ view'.len = c.len /\ view'.amocpos = from
       /\ page'.CurrStrLen = pg.CurrStrLen /\ page'.PrevStrLen = pg.PrevStrLen
  BY <1>5 DEF PageOK
<1>15. from = Lesser(p + most, FLen)
  BY DEF from
<1> QED BY <1>7, <1>8, <1>9, <1>10, <1>11, <1>12, <1>13, <1>14, <1>15

(* A step down: the line scrolled in begins where the others end.          *)
LEMMA DownFills ==
  ASSUME Wide, Held, Filed, NEW key0, NEW nfp, NEW p, NEW key, NEW pg,
         Pressed(key0, nfp, p, key, pg), DrawnDown(key, p, pg), view.amocpos # p
  PROVE  Filled(view', p) /\ Stepped(view', p, page')
<1> DEFINE all == Summ(view.len, Height)
           most == Summ(view'.len, Height - 1)
           l0 == view.len[0]
           l1 == view.len[1]
           n == view'.len[Height - 1]
           a == view'.amocpos
<1>1. /\ p \in Addr /\ p \in Nat /\ p < FLen /\ PageOK(pg, p) /\ Near(pg.PrevStrLen, p)
  BY Prepared
<1>2. key = "down" /\ l1 # 0
  BY DEF DrawnDown
<1>3. pg.CurrStrLen = l1 /\ p = Clipped(pos + page.CurrStrLen)
  <2>1. pg.CurrStrLen = l1
    BY <1>2, Prepared
  <2>2. key0 = "down"
    BY <1>2, Prepared
  <2> QED BY <2>1, <2>2 DEF Pressed, Wanted
<1>4. p > 0 /\ (p = pos + l0 \/ p = FLen - 1)
  BY <1>2, <1>3, DownLeads
<1>5. /\ \A r \in Row : r < Height - 1 => /\ view'.row[r] = view.row[r + 1]
                                          /\ view'.len[r] = view.len[r + 1]
      /\ most \in Nat /\ most = all - l0
      /\ a = Lesser(p + most, FLen)
      /\ view'.row[Height - 1] = IF p + most < FLen THEN p + most ELSE Blank
      /\ view'.len \in Lengths
      /\ Summ(view'.len, Height) = most + n
      /\ page'.CurrStrLen = pg.CurrStrLen /\ page'.PrevStrLen = pg.PrevStrLen
  BY <1>1, DownShows
<1>6. /\ pos \in Nat /\ FLen \in Nat /\ FLen > 0 /\ l0 \in Nat /\ l1 \in Nat /\ all \in Nat
      /\ n \in Nat
  <2>1. n \in Nat
    BY <1>5, SizesOfConstants DEF Lengths
  <2>2. /\ pos \in Nat /\ FLen \in Nat /\ l0 \in 1 .. MaxCodeLen
        /\ l1 \in 0 .. MaxCodeLen /\ all \in Nat /\ MaxCodeLen \in Nat
    BY Numbers
  <2> HIDE DEF all, l0, l1, n
  <2> QED BY <2>1, <2>2, SizesOfConstants
<1>7. Height \in Nat /\ Height > 2
  BY SizesOfConstants DEF Wide
<1>8. Filled(view, pos)
  BY DEF Filed
<1>9. view'.row[0] # Blank /\ view'.len[0] = l1
  <2>1. view'.row[0] = view.row[0 + 1] /\ view'.len[0] = view.len[0 + 1]
    <3>1. 0 \in Row /\ 0 < Height - 1
      BY SizesOfConstants
    <3> QED BY <1>5, <3>1
  <2>2. LineOK(view.row, view.len, 1)
    BY ScreenParts, SizesOfConstants DEF Held
  <2> QED BY <1>2, <2>1, <2>2 DEF LineOK
<1>10. most >= l1 + view'.len[1] /\ view'.len[1] \in Nat
  <2>1. /\ 2 \in 0 .. Height - 1 /\ Height - 1 \in 0 .. Height /\ 0 \in Row /\ 1 \in Row
    BY <1>7, SizesOfConstants
  <2>2. /\ Summ(view'.len, 0) = 0 /\ Summ(view'.len, 0 + 1) = Summ(view'.len, 0) + view'.len[0]
        /\ Summ(view'.len, 1 + 1) = Summ(view'.len, 1) + view'.len[1]
    BY <2>1, SummStep
  <2>3. Summ(view'.len, 2) <= Summ(view'.len, Height - 1)
    BY <1>5, <2>1, SummGrows
  <2>4. view'.len[1] \in Nat /\ view'.len[0] \in Nat
    BY <1>5, <2>1 DEF Lengths
  <2> HIDE DEF most
  <2>5. Summ(view'.len, 2) = l1 + view'.len[1]
    BY <1>9, <2>2, <2>4
  <2> QED BY <2>3, <2>4, <2>5 DEF most
<1>11. view.row[Height - 1] = Blank => p + most >= FLen
  <2> SUFFICES ASSUME view.row[Height - 1] = Blank PROVE p + most >= FLen
    OBVIOUS
  <2>1. pos + all >= FLen
    BY <1>8 DEF Filled
  <2> HIDE DEF most, all, l0, l1
  <2> QED BY <1>1, <1>2, <1>4, <1>5, <1>6, <1>10, <2>1
<1>12. /\ a = IF p + most < FLen THEN p + most ELSE FLen
  BY <1>5 DEF Lesser
<1> HIDE DEF most, all, l0, l1, a, n
<1>13. \A r \in Row : r > 0 /\ view'.row[r - 1] = Blank => view'.row[r] = Blank
  <2> SUFFICES ASSUME NEW r \in Row, r > 0, view'.row[r - 1] = Blank
               PROVE  view'.row[r] = Blank
    OBVIOUS
  <2>1. r - 1 \in Row /\ r - 1 < Height - 1 /\ (r - 1) + 1 = r
    BY SizesOfConstants DEF Row
  <2>2. view.row[r] = Blank
    BY <1>5, <2>1
  <2>3. CASE r < Height - 1
    <3>1. r + 1 \in Row /\ r + 1 > 0 /\ (r + 1) - 1 = r
      BY <2>3, SizesOfConstants DEF Row
    <3>2. view.row[r + 1] = Blank
      BY <1>8, <2>2, <3>1 DEF Filled
    <3> QED BY <1>5, <2>3, <3>2
  <2>4. CASE r = Height - 1
    <3>1. p + most >= FLen
      BY <1>11, <2>2, <2>4
    <3>2. ~(p + most < FLen)
      BY <1>1, <1>5, <1>6, <3>1
    <3> QED BY <1>5, <2>4, <3>2
  <2> QED BY <2>3, <2>4, SizesOfConstants DEF Row
<1>14. view'.row[Height - 1] = Blank => /\ a + Summ(view'.len, Height) >= FLen
                                        /\ p + Summ(view'.len, Height) >= FLen
  <2> SUFFICES ASSUME view'.row[Height - 1] = Blank
               PROVE  a + (most + n) >= FLen /\ p + (most + n) >= FLen
    BY <1>5
  <2>1. ~(p + most < FLen)
    <3>1. p + most # Blank
      BY <1>1, <1>5 DEF Blank
    <3> QED BY <1>5, <3>1
  <2> QED BY <1>1, <1>5, <1>6, <1>12, <2>1
<1>15. p # 0 /\ a # 0
  <2>1. p \in Nat /\ p > 0 /\ most \in Nat /\ FLen \in Nat /\ FLen > 0
    BY <1>1, <1>4, <1>5, <1>6
  <2> QED BY <1>12, <2>1
<1>16. view'.len[1] = 0 \/ a > p + view'.len[0] \/ a = FLen
  <2> DEFINE l == view'.len[1]
  <2>1. view'.len[0] = l1
    BY <1>9
  <2>2. l1 \in Nat /\ p \in Nat /\ most \in Nat /\ FLen \in Nat
    BY <1>1, <1>5, <1>6
  <2>3. most >= l1 + l /\ l \in Nat
    BY <1>10
  <2> HIDE DEF l
  <2>4. CASE p + most < FLen
    <3>1. a = p + most
      BY <1>12, <2>4
    <3>2. l = 0 \/ a > p + l1
      BY <2>2, <2>3, <3>1
    <3> QED BY <2>1, <3>2 DEF l
  <2>5. CASE ~(p + most < FLen)
    BY <1>12, <2>5
  <2> QED BY <2>4, <2>5
<1>17. Filled(view', p)
  BY <1>9, <1>13, <1>14, <1>15, <1>16 DEF Filled, a
<1>18. Stepped(view', p, page')
  BY <1>1, <1>3, <1>5, <1>9 DEF Stepped
<1> QED BY <1>17, <1>18

-----------------------------------------------------------------------------
(* What a key leaves of the pictures of jumps, for each way of painting.   *)
LEMMA ShowsCanvas ==
  ASSUME NEW c, NEW from,
         NEW v, v = [row |-> c.row, mark |-> c.mark, len |-> c.len, amocpos |-> from]
  PROVE  /\ Pictured(c) => Pictured(Show(v, c.guide))
         /\ \A L : ListedIn(c, L) => ListedIn(Show(v, c.guide), L)
<1>1. /\ Show(v, c.guide).row = c.row /\ Show(v, c.guide).mark = c.mark
      /\ Show(v, c.guide).guide = c.guide
  BY DEF Show
<1>2. Pictured(c) => Pictured(Show(v, c.guide))
  BY <1>1 DEF Pictured
<1>3. \A L : ListedIn(c, L) => ListedIn(Show(v, c.guide), L)
  BY <1>1 DEF ListedIn
<1> QED BY <1>2, <1>3

(* A step up of the lines moves the pictures down, but for one that leaves *)
(* the screen.                                                             *)
LEMMA UpMoves ==
  ASSUME NEW v, NEW g, Sheet(Show(v, g)), NEW p \in Addr, code \in Decoding,
         Pictured(Show(v, g))
  PROVE  LET s == UpStart(v, g, p)
         IN  /\ Pictured(s)
             /\ ListedIn(Show(v, g), Row) => ListedIn(s, Row \ {0})
<1> DEFINE s == UpStart(v, g, p)
           h == SteppedUp(g)
           n == Len(g.addr)
           m == Len(h.addr)
<1>1. v.row \in Lines /\ v.mark \in Marks /\ GuideOK(g)
  BY CanvasParts DEF Sheet, Show
<1>2. /\ GuideOK(h) /\ LinesDown(g, h) /\ \A r \in Listed(h) : r > 0
  BY <1>1, SteppedUpMoves
<1>3. s.row = ScrolledDn(v.row) /\ s.mark = ScrolledDn(v.mark) /\ s.guide = h
  BY DEF UpStart, Start
<1>4. \A j \in 1 .. n : /\ v.row[g.line[j]] # Blank
                        /\ code[v.row[g.line[j]]].to = g.addr[j]
                        /\ v.mark[g.line[j]] = gidGetAddressKey(g, j)
  BY DEF Pictured, Show
<1>5. PICK o \in {0, 1} : /\ m + o = n
                          /\ o = 1 => g.line[n] = Height - 1
                          /\ \A i \in 1 .. m : h.addr[i] = g.addr[i] /\ h.line[i] = g.line[i] + 1
  BY <1>2 DEF LinesDown
<1>6. n \in Nat /\ m \in Nat /\ m \in 0 .. n
      /\ \A j \in 1 .. n : g.line[j] \in Row
  <2>1. n \in Nat /\ \A j \in 1 .. n : g.line[j] \in Row
    BY <1>1, GuideSeqs
  <2>2. m \in Nat
    BY <1>2, GuideSeqs
  <2> HIDE DEF n, m
  <2> QED BY <1>5, <2>1, <2>2
<1>7. \A r \in Row : r > 0 => /\ s.row[r] = v.row[r - 1] /\ s.mark[r] = v.mark[r - 1]
  <2> SUFFICES ASSUME NEW r \in Row, r > 0
               PROVE  s.row[r] = v.row[r - 1] /\ s.mark[r] = v.mark[r - 1]
    OBVIOUS
  <2>1. ScrolledDn(v.row)[r] = v.row[r - 1]
    BY <1>1, Scrolls DEF Lines
  <2>2. ScrolledDn(v.mark)[r] = v.mark[r - 1]
    BY <1>1, Scrolls DEF Marks
  <2> QED BY <1>3, <2>1, <2>2
<1>8. Pictured(s)
  <2> SUFFICES ASSUME NEW j \in 1 .. m
               PROVE  /\ s.row[h.line[j]] # Blank
                      /\ code[s.row[h.line[j]]].to = h.addr[j]
                      /\ s.mark[h.line[j]] = gidGetAddressKey(h, j)
    BY <1>3 DEF Pictured
  <2>1. j \in 1 .. n
    <3> HIDE DEF n, m
    <3> QED BY <1>6
  <2>2. /\ h.line[j] \in Row /\ h.line[j] > 0 /\ h.addr[j] = g.addr[j]
        /\ h.line[j] = g.line[j] + 1 /\ g.line[j] \in Row
    <3>1. h.line[j] \in Row
      BY <1>2, GuideSeqs
    <3>2. h.line[j] > 0
      BY <1>2 DEF Listed
    <3> QED BY <1>5, <1>6, <2>1, <3>1, <3>2
  <2>3. h.line[j] - 1 = g.line[j]
    BY <2>2, SizesOfConstants DEF Row
  <2>4. gidGetAddressKey(h, j) = gidGetAddressKey(g, j)
    <3> HIDE DEF h
    <3> QED BY <1>5, <1>6, PrefixKeepsKeys
  <2>5. s.row[h.line[j]] = v.row[g.line[j]] /\ s.mark[h.line[j]] = v.mark[g.line[j]]
    <3> HIDE DEF s, h
    <3> QED BY <1>7, <2>2, <2>3
  <2> HIDE DEF s, h
  <2> QED BY <1>4, <2>1, <2>2, <2>4, <2>5
<1>9. ASSUME ListedIn(Show(v, g), Row) PROVE ListedIn(s, Row \ {0})
  <2> SUFFICES ASSUME NEW r \in Row \ {0}, s.mark[r] # NoMark PROVE r \in Listed(h)
    BY <1>3 DEF ListedIn
  <2>1. r > 0 /\ r - 1 \in Row /\ r < Height
    BY SizesOfConstants DEF Row
  <2>2. r - 1 \in Listed(g)
    <3>1. v.mark[r - 1] # NoMark
      <4> HIDE DEF s
      <4> QED BY <1>7, <2>1
    <3> QED BY <1>9, <2>1, <3>1 DEF ListedIn, Show
  <2>3. PICK i \in 1 .. n : g.line[i] = r - 1
    BY <2>2 DEF Listed
  <2>4. i \in 1 .. m
    <3> SUFFICES ASSUME i \notin 1 .. m PROVE FALSE
      OBVIOUS
    <3>1. o = 1 /\ i = n
      <4> HIDE DEF n, m
      <4> QED BY <1>5, <1>6
    <3>2. r - 1 = Height - 1
      BY <1>5, <2>3, <3>1
    <3> QED BY <2>1, <3>2, SizesOfConstants DEF Row
  <2>5. h.line[i] = r
    <3>1. h.line[i] = g.line[i] + 1
      BY <1>5, <2>4
    <3> QED BY <2>3, <3>1, SizesOfConstants DEF Row
  <2> QED BY <2>4, <2>5 DEF Listed
<1> QED BY <1>8, <1>9

(* A step down moves them up; their keys were written again before.        *)
LEMMA DownMoves ==
  ASSUME NEW v, NEW g, Sheet(Show(v, g)), NEW p \in Addr, code \in Decoding,
         Pictured(Show(v, g))
  PROVE  LET s == DownStart(v, g, p)
         IN  /\ Pictured(s)
             /\ ListedIn(Show(v, g), Row) => ListedIn(s, Row \ {Height - 1})
<1> DEFINE s == DownStart(v, g, p)
           h == SteppedDown(g)
           n == Len(g.addr)
           m == Len(h.addr)
           k == Carried(v, g)
<1>1. v.row \in Lines /\ v.mark \in Marks /\ GuideOK(g)
  BY CanvasParts DEF Sheet, Show
<1>2. /\ GuideOK(h) /\ LinesUp(g, h) /\ \A r \in Listed(h) : r < Height - 1
  BY <1>1, SteppedDownMoves
<1>3. s.row = ScrolledUp(v.row) /\ s.mark = ScrolledUp(k) /\ s.guide = h
  BY DEF DownStart, Start
<1>4. \A j \in 1 .. n : /\ v.row[g.line[j]] # Blank
                        /\ code[v.row[g.line[j]]].to = g.addr[j]
  BY DEF Pictured, Show
<1>5. PICK o \in {0, 1} : /\ m + o = n
                          /\ o = 1 => g.line[1] = 0
                          /\ \A i \in 1 .. m : /\ h.addr[i] = g.addr[i + o]
                                               /\ h.line[i] + 1 = g.line[i + o]
  BY <1>2 DEF LinesUp
<1>6. n \in Nat /\ m \in Nat
  BY <1>1, <1>2, GuideSeqs
<1>7. /\ k \in Marks
      /\ \A i \in 1 .. m : h.line[i] + 1 \in Row /\ k[h.line[i] + 1] = gidGetAddressKey(h, i)
      /\ \A r \in Row : (\A i \in 1 .. m : h.line[i] + 1 # r) => k[r] = v.mark[r]
  BY <1>1, CarriedMarks
<1> HIDE DEF k
<1>8. \A r \in Row : r < Height - 1 => /\ r + 1 \in Row
                                       /\ s.row[r] = v.row[r + 1] /\ s.mark[r] = k[r + 1]
  <2> SUFFICES ASSUME NEW r \in Row, r < Height - 1
               PROVE  r + 1 \in Row /\ s.row[r] = v.row[r + 1] /\ s.mark[r] = k[r + 1]
    OBVIOUS
  <2>1. r + 1 \in Row /\ ScrolledUp(v.row)[r] = v.row[r + 1]
    BY <1>1, Scrolls DEF Lines
  <2>2. ScrolledUp(k)[r] = k[r + 1]
    BY <1>7, Scrolls DEF Marks
  <2> QED BY <1>3, <2>1, <2>2
<1> HIDE DEF h, s
<1>9. Pictured(s)
  <2> SUFFICES ASSUME NEW j \in 1 .. m
               PROVE  /\ s.row[h.line[j]] # Blank
                      /\ code[s.row[h.line[j]]].to = h.addr[j]
                      /\ s.mark[h.line[j]] = gidGetAddressKey(h, j)
    BY <1>3 DEF Pictured
  <2>1. j + o \in 1 .. n
    <3> HIDE DEF n, m
    <3> QED BY <1>5, <1>6
  <2>2. h.line[j] \in Row /\ h.line[j] < Height - 1
    BY <1>2, GuideSeqs DEF Listed
  <2>3. s.row[h.line[j]] = v.row[g.line[j + o]] /\ s.mark[h.line[j]] = gidGetAddressKey(h, j)
    BY <1>5, <1>7, <1>8, <2>2
  <2> QED BY <1>4, <1>5, <2>1, <2>3
<1>10. ASSUME ListedIn(Show(v, g), Row) PROVE ListedIn(s, Row \ {Height - 1})
  <2> SUFFICES ASSUME NEW r \in Row \ {Height - 1}, s.mark[r] # NoMark PROVE r \in Listed(h)
    BY <1>3 DEF ListedIn
  <2>1. r < Height - 1 /\ r + 1 \in Row /\ r + 1 # 0
    BY SizesOfConstants DEF Row
  <2>2. k[r + 1] # NoMark
    BY <1>8, <2>1
  <2>3. CASE \E i \in 1 .. m : h.line[i] + 1 = r + 1
    <3>1. PICK i \in 1 .. m : h.line[i] + 1 = r + 1
      BY <2>3
    <3>2. h.line[i] \in Row
      BY <1>2, GuideSeqs
    <3>3. h.line[i] = r
      BY <3>1, <3>2, SizesOfConstants DEF Row
    <3> QED BY <3>3 DEF Listed
  <2>4. CASE \A i \in 1 .. m : h.line[i] + 1 # r + 1
    <3>1. v.mark[r + 1] # NoMark
      BY <1>7, <2>1, <2>2, <2>4
    <3>2. r + 1 \in Listed(g)
      BY <1>10, <2>1, <3>1 DEF ListedIn, Show
    <3>3. PICK j \in 1 .. n : g.line[j] = r + 1
      BY <3>2 DEF Listed
    <3>4. ~(o = 1 /\ j = 1)
      BY <1>5, <2>1, <3>3
    <3>5. j - o \in 1 .. m /\ (j - o) + o = j
      <4> HIDE DEF n, m
      <4> QED BY <1>5, <1>6, <3>4
    <3>6. h.line[j - o] + 1 = g.line[(j - o) + o]
      BY <1>5, <3>5
    <3> QED BY <2>4, <3>3, <3>5, <3>6
  <2> QED BY <2>3, <2>4
<1> QED BY <1>9, <1>10 DEF s

(* Whether each key on the screen v is of a jump of the guide g.           *)
AllListed(v, g) == ListedIn(Show(v, g), Row)

(* A step up.                                                              *)
LEMMA UpPictures ==
  ASSUME Held, Pictured(Show(view, guide)), NEW p \in Addr, NEW key, NEW pg,
         DrawnUp(key, p, pg)
  PROVE  /\ Pictured(Show(view', guide'))
         /\ AllListed(view, guide) /\ (code[p].to # NoJump => Room(SteppedUp(guide)))
              => AllListed(view', guide')
<1> DEFINE s == UpStart(view, guide, p)
           c == UpCanvas(view, guide, p)
<1>1. code \in Decoding /\ Sheet(Show(view, guide))
  BY DEF Held, Screened
<1>2. Sheet(s) /\ Paintable(s, 0) /\ s.at = p
  BY <1>1, UpFits
<1>3. Pictured(s) /\ (AllListed(view, guide) => ListedIn(s, Row \ {0}))
  BY <1>1, UpMoves DEF AllListed
<1>4. s.guide = SteppedUp(guide) /\ c = PaintLine(s, 0)
  BY DEF UpStart, Start, UpCanvas
<1>5. guide' = c.guide /\ view' = [row |-> c.row, mark |-> c.mark, len |-> c.len,
                                   amocpos |-> Lesser(p, FLen)]
  BY DEF DrawnUp, Drawn
<1> HIDE DEF s, c
<1>6. /\ Pictured(c)
      /\ \A L \in SUBSET Row :
           /\ ListedIn(s, L)
           /\ s.guide.alarm /\ s.at < FLen /\ code[s.at].to # NoJump => Room(s.guide)
           => ListedIn(c, L \cup {0})
  BY <1>1, <1>2, <1>3, <1>4, PaintPictures, SizesOfConstants
<1>7. Pictured(Show(view', guide')) /\ (ListedIn(c, Row) => AllListed(view', guide'))
  BY <1>5, <1>6, ShowsCanvas DEF AllListed
<1>8. ASSUME AllListed(view, guide), code[p].to # NoJump => Room(SteppedUp(guide))
      PROVE  ListedIn(c, Row)
  <2> DEFINE L == Row \ {0}
  <2>1. L \in SUBSET Row /\ L \cup {0} = Row
    BY SizesOfConstants
  <2>2. ListedIn(s, L)
    BY <1>3, <1>8
  <2>3. s.guide.alarm /\ s.at < FLen /\ code[s.at].to # NoJump => Room(s.guide)
    BY <1>2, <1>4, <1>8
  <2> HIDE DEF L
  <2>4. ListedIn(c, L \cup {0})
    BY <1>6, <2>1, <2>2, <2>3
  <2> QED BY <2>1, <2>4
<1> QED BY <1>7, <1>8

(* A step down.                                                            *)
LEMMA DownPictures ==
  ASSUME Held, Pictured(Show(view, guide)), NEW p \in Addr, NEW key, NEW pg,
         DrawnDown(key, p, pg)
  PROVE  /\ Pictured(Show(view', guide'))
         /\ AllListed(view, guide) => AllListed(view', guide')
<1> DEFINE s == DownStart(view, guide, p)
           c == DownCanvas(view, guide, p)
<1>1. code \in Decoding /\ Sheet(Show(view, guide)) /\ GuideOK(guide)
  BY ScreenParts DEF Held, Screened
<1>2. Sheet(s) /\ Paintable(s, Height - 1)
  BY <1>1, DownFits
<1>3. Pictured(s) /\ (AllListed(view, guide) => ListedIn(s, Row \ {Height - 1}))
  BY <1>1, DownMoves DEF AllListed
<1>4. s.guide = SteppedDown(guide) /\ c = PaintLine(s, Height - 1)
  BY DEF DownStart, Start, DownCanvas
<1>5. s.guide.alarm = FALSE
  BY <1>1, <1>4, SteppedDownMoves
<1>6. guide' = c.guide /\ view' = [row |-> c.row, mark |-> c.mark, len |-> c.len,
                                   amocpos |-> Lesser(NextLine(view, p), FLen)]
  BY DEF DrawnDown, Drawn
<1> HIDE DEF s, c
<1>7. /\ Pictured(c)
      /\ \A L \in SUBSET Row :
           /\ ListedIn(s, L)
           /\ s.guide.alarm /\ s.at < FLen /\ code[s.at].to # NoJump => Room(s.guide)
           => ListedIn(c, L \cup {Height - 1})
  BY <1>1, <1>2, <1>3, <1>4, PaintPictures, SizesOfConstants
<1>8. Pictured(Show(view', guide')) /\ (ListedIn(c, Row) => AllListed(view', guide'))
  BY <1>6, <1>7, ShowsCanvas DEF AllListed
<1>9. ASSUME AllListed(view, guide) PROVE ListedIn(c, Row)
  <2> DEFINE L == Row \ {Height - 1}
  <2>1. L \in SUBSET Row /\ L \cup {Height - 1} = Row
    BY SizesOfConstants
  <2>2. ListedIn(s, L)
    BY <1>3, <1>9
  <2> HIDE DEF L
  <2>3. ListedIn(c, L \cup {Height - 1})
    BY <1>5, <1>7, <2>1, <2>2
  <2> QED BY <2>1, <2>3
<1> QED BY <1>8, <1>9

(* All lines painted.                                                      *)
LEMMA WholePictures ==
  ASSUME Held, NEW p \in Addr, NEW key, NEW pg, DrawnWhole(key, p, pg)
  PROVE  Pictured(Show(view', guide')) /\ AllListed(view', guide')
<1> DEFINE c == WholeCanvas(view, p)
<1>1. code \in Decoding /\ Sheet(Show(view, guide))
  BY DEF Held, Screened
<1>2. Whole(c, p, Height)
  BY <1>1, WholeFits
<1>3. guide' = c.guide /\ view' = [row |-> c.row, mark |-> c.mark, len |-> c.len,
                                   amocpos |-> Lesser(p, FLen)]
  BY DEF DrawnWhole, Drawn
<1> HIDE DEF c
<1>4. Above(Height) = Row
  BY SizesOfConstants DEF Above, Row
<1>5. Pictured(c) /\ ListedIn(c, Row)
  BY <1>2, <1>4 DEF Whole
<1> QED BY <1>3, <1>5, ShowsCanvas DEF AllListed

(* Where there is no line to scroll in, the guide is left empty, and the   *)
(* keys stay.                                                              *)
LEMMA BottomPictures ==
  ASSUME Held, Filed, NEW p, NEW key, NEW pg, AtBottom(key, p, pg)
  PROVE  /\ Pictured(Show(view', guide'))
         /\ AllListed(view, guide) /\ guide.addr = <<>> => AllListed(view', guide')
<1> DEFINE h == SteppedDown(guide)
           n == Len(guide.addr)
           m == Len(h.addr)
<1>1. /\ view.len[1] = 0 /\ guide' = h
      /\ view' = [row |-> view.row, mark |-> Carried(view, guide), len |-> view.len,
                  amocpos |-> view.amocpos]
  BY DEF AtBottom
<1>2. /\ code \in Decoding /\ Screened(view, guide) /\ Filled(view, pos)
      /\ Pictured(Show(view, guide))
  BY DEF Held, Filed
<1>3. view.mark \in Marks /\ GuideOK(guide)
  BY <1>2, ScreenParts
<1>4. \A r \in Row : r > 0 => view.row[r] = Blank
  BY <1>1, <1>2, OneLineShown
<1>5. \A j \in 1 .. n : guide.line[j] \in Row /\ guide.line[j] = 0
  <2> SUFFICES ASSUME NEW j \in 1 .. n PROVE guide.line[j] \in Row /\ guide.line[j] = 0
    OBVIOUS
  <2>1. guide.line[j] \in Row
    BY <1>3, GuideSeqs
  <2>2. view.row[guide.line[j]] # Blank
    BY <1>2 DEF Pictured, Show
  <2>3. ~(guide.line[j] > 0)
    BY <1>4, <2>1, <2>2
  <2> QED BY <2>1, <2>3, SizesOfConstants DEF Row
<1>6. /\ GuideOK(h) /\ LinesUp(guide, h)
  BY <1>3, SteppedDownMoves
<1>7. PICK o \in {0, 1} : m + o = n /\ \A i \in 1 .. m : h.line[i] + 1 = guide.line[i + o]
  BY <1>6 DEF LinesUp
<1>8. n \in Nat /\ m \in Nat
  BY <1>3, <1>6, GuideSeqs
<1> HIDE DEF h
<1>9. m = 0
  <2> SUFFICES ASSUME m # 0 PROVE FALSE
    OBVIOUS
  <2>1. 1 \in 1 .. m /\ 1 + o \in 1 .. n
    <3> HIDE DEF n, m
    <3> QED BY <1>7, <1>8
  <2>2. h.line[1] \in Row /\ h.line[1] + 1 = guide.line[1 + o]
    BY <1>6, <1>7, <2>1, GuideSeqs
  <2>3. h.line[1] + 1 = 0
    BY <1>5, <2>1, <2>2
  <2> QED BY <2>2, <2>3, SizesOfConstants DEF Row
<1>10. 1 .. m = {}
  BY <1>9
<1>11. \A r \in Row : Carried(view, guide)[r] = view.mark[r]
  <2>1. \A r \in Row : (\A i \in 1 .. m : h.line[i] + 1 # r)
                         => Carried(view, guide)[r] = view.mark[r]
    BY <1>3, CarriedMarks DEF h
  <2> QED BY <1>10, <2>1
<1>12. Show(view', guide').guide = h /\ Show(view', guide').mark = Carried(view, guide)
  BY <1>1 DEF Show
<1>13. Pictured(Show(view', guide'))
  BY <1>10, <1>12 DEF Pictured
<1>14. ASSUME AllListed(view, guide), guide.addr = <<>> PROVE AllListed(view', guide')
  <2>1. Len(guide.addr) = 0
    BY <1>14, EmptySeq
  <2>2. \A r \in Row : view.mark[r] = NoMark
    <3>1. Listed(guide) = {}
      BY <2>1 DEF Listed
    <3> QED BY <1>14, <3>1 DEF AllListed, ListedIn, Show
  <2> QED BY <1>11, <1>12, <2>2 DEF AllListed, ListedIn
<1> QED BY <1>13, <1>14

(* What GoTo leaves, with the ghost for the jumps that the guide lost.     *)
LEMMA GoToFiled ==
  ASSUME Wide, Held, Filed, NEW key0, NEW nfp, Wanted(key0, nfp), GoTo(key0, nfp)
  PROVE  Filed'
<1> DEFINE p   == Clipped(nfp)
           key == EffectiveKey(view, key0, p)
           pg  == PrepareAsmLines(page, view.len, key, p)
<1>1. /\ pos' = p /\ drawAsm(key0, p) /\ code' = code
      /\ hist'.key = key0 /\ hist'.from = pos /\ hist'.want = nfp
      /\ hist'.lost = Lost(key, p)
  BY DEF GoTo
<1>2. \/ Kept(key, p, pg) /\ key \notin {"super", "justfind"}
      \/ /\ ~(view.amocpos = p /\ key \notin {"super", "justfind"})
         /\ \/ DrawnUp(key, p, pg)
            \/ DrawnDown(key, p, pg)
            \/ AtBottom(key, p, pg)
            \/ DrawnWhole(key, p, pg)
  BY <1>1, Draws
<1>3. Pressed(key0, nfp, p, key, pg)
  BY DEF Pressed
<1>4. p = Clipped(nfp)
  OBVIOUS
<1> HIDE DEF p, key, pg
<1>5. /\ p \in Addr /\ PageOK(pg, p) /\ (key = "down" <=> key0 = "down")
      /\ key = "down" => pg.PrevStrLen = view.len[0]
  BY <1>3, Prepared
<1>6. Pictured(Show(view, guide)) /\ (hist.lost \/ AllListed(view, guide))
  BY DEF Filed, AllListed
<1> DEFINE Good == /\ Filled(view', p) /\ Stepped(view', p, page')
                   /\ Pictured(Show(view', guide'))
                   /\ Lost(key, p) \/ AllListed(view', guide')
                   /\ key = "down" => page'.PrevStrLen = pg.PrevStrLen
<1>7. ASSUME Kept(key, p, pg), key \notin {"super", "justfind"}
      PROVE  Good
  <2>1. /\ view.amocpos = p /\ page' = pg /\ view' = view /\ guide' = guide
    BY <1>7 DEF Kept
  <2>2. Filled(view, p) /\ Stepped(view, p, pg)
    BY <1>3, <1>7, KeptFills
  <2>3. Lost(key, p) = hist.lost
    BY <1>7, <2>1 DEF Lost
  <2>4. Lost(key, p) \/ AllListed(view, guide)
    BY <1>6, <2>3
  <2> QED BY <1>6, <2>1, <2>2, <2>4
<1>8. ASSUME ~(view.amocpos = p /\ key \notin {"super", "justfind"}), DrawnUp(key, p, pg)
      PROVE  Good
  <2>1. key = "up"
    BY <1>8 DEF DrawnUp
  <2>2. view.amocpos # p
    BY <1>8, <2>1
  <2>3. Filled(view', p) /\ Stepped(view', p, page')
    BY <1>3, <1>8, <2>2, UpFills
  <2>4. /\ Pictured(Show(view', guide'))
        /\ AllListed(view, guide) /\ (code[p].to # NoJump => Room(SteppedUp(guide)))
             => AllListed(view', guide')
    BY <1>5, <1>6, <1>8, UpPictures
  <2>5. Lost(key, p) <=> hist.lost \/ (code[p].to # NoJump /\ ~Room(SteppedUp(guide)))
    BY <2>1, <2>2 DEF Lost, GidResetGoAddress
  <2>6. Lost(key, p) \/ AllListed(view', guide')
    BY <1>6, <2>4, <2>5
  <2> QED BY <2>1, <2>3, <2>4, <2>6
<1>9. ASSUME ~(view.amocpos = p /\ key \notin {"super", "justfind"}), DrawnDown(key, p, pg)
      PROVE  Good
  <2>1. key = "down" /\ view.len[1] # 0
    BY <1>9 DEF DrawnDown
  <2>2. view.amocpos # p
    BY <1>9, <2>1
  <2>3. Filled(view', p) /\ Stepped(view', p, page')
    BY <1>3, <1>9, <2>2, DownFills
  <2>4. /\ Pictured(Show(view', guide'))
        /\ AllListed(view, guide) => AllListed(view', guide')
    BY <1>5, <1>6, <1>9, DownPictures
  <2>5. Lost(key, p) <=> hist.lost
    BY <2>1, <2>2 DEF Lost
  <2>6. page'.PrevStrLen = pg.PrevStrLen
    BY <1>5, <1>9, DownShows
  <2>7. Lost(key, p) \/ AllListed(view', guide')
    BY <1>6, <2>4, <2>5
  <2> QED BY <2>3, <2>4, <2>6, <2>7
<1>10. ASSUME ~(view.amocpos = p /\ key \notin {"super", "justfind"}), AtBottom(key, p, pg)
       PROVE  Good
  <2>1. key = "down" /\ view.len[1] = 0 /\ page' = pg
    BY <1>10 DEF AtBottom
  <2>2. view.amocpos # p
    BY <1>10, <2>1
  <2>3. Filled(view', p) /\ Stepped(view', p, page')
    BY <1>3, <1>10, BottomFills
  <2>4. /\ Pictured(Show(view', guide'))
        /\ AllListed(view, guide) /\ guide.addr = <<>> => AllListed(view', guide')
    BY <1>10, BottomPictures
  <2>5. Lost(key, p) <=> hist.lost \/ guide.addr # <<>>
    BY <2>1, <2>2 DEF Lost
  <2>6. Lost(key, p) \/ AllListed(view', guide')
    BY <1>6, <2>4, <2>5
  <2> QED BY <2>1, <2>3, <2>4, <2>6
<1>11. ASSUME DrawnWhole(key, p, pg)
       PROVE  Good
  <2>1. Filled(view', p) /\ Stepped(view', p, page')
    BY <1>3, <1>11, WholeFills
  <2>2. Pictured(Show(view', guide')) /\ AllListed(view', guide')
    BY <1>5, <1>11, WholePictures
  <2>3. key # "down"
    BY <1>11 DEF DrawnWhole
  <2> QED BY <2>1, <2>2, <2>3
<1>12. Good
  BY <1>2, <1>7, <1>8, <1>9, <1>10, <1>11
<1>13. Went'
  <2> SUFFICES ASSUME key0 = "down", nfp = p, p # pos PROVE page'.PrevStrLen = nfp - pos
    BY <1>1 DEF Went
  <2>1. nfp = pos + page.CurrStrLen
    BY DEF Wanted
  <2>2. view.len[0] = page.CurrStrLen
    BY <1>4, <2>1, DownLeads
  <2>3. page'.PrevStrLen = view.len[0]
    BY <1>5, <1>12
  <2>4. pos \in Nat /\ page.CurrStrLen \in Nat
    BY Numbers
  <2> QED BY <2>1, <2>2, <2>3, <2>4
<1>14. Filled(view, pos)' /\ Stepped(view, pos, page)'
  <2>1. Filled(view', pos')
    BY <1>1, <1>12
  <2>2. Stepped(view, pos, page)'
    BY <1>1, <1>12 DEF Stepped, Near
  <2> QED BY <2>1, <2>2 DEF Filled
<1>15. Pictured(Show(view, guide))'
  BY <1>1, <1>12 DEF Pictured, Show
<1>16. hist'.lost \/ ListedIn(Show(view', guide'), Row)
  BY <1>1, <1>12 DEF AllListed
<1> QED BY <1>13, <1>14, <1>15, <1>16 DEF Filed, ListedIn, Show

(* The first painting leaves what is filed.                                *)
LEMMA InitFiled ==
  ASSUME Init
  PROVE  Filed
<1> DEFINE c == WholeCanvas(BlankView, pos)
<1>1. /\ code \in Decoding /\ pos \in Addr /\ Whole(c, pos, Height)
      /\ view = [row |-> c.row, mark |-> c.mark, len |-> c.len, amocpos |-> pos]
      /\ guide = c.guide /\ page.CurrStrLen = view.len[0] /\ Near(page.PrevStrLen, pos)
  BY InitScreen
<1>2. hist = [key |-> "super", from |-> pos, want |-> pos, lost |-> FALSE]
  BY DEF Init
<1> HIDE DEF c
<1>3. /\ c.at = pos + Summ(c.len, Height) /\ c.row[0] = pos /\ Pictured(c)
      /\ ListedIn(c, Above(Height))
      /\ c.row[Height - 1] = Blank => c.at >= FLen
      /\ \A r \in Above(Height) : r > 0 /\ c.row[r - 1] = Blank => c.row[r] = Blank
  BY <1>1, SizesOfConstants DEF Whole
<1>4. Above(Height) = Row
  BY SizesOfConstants DEF Above, Row
<1>5. pos \in Nat /\ pos # Blank
  BY <1>1, Decodes DEF Blank
<1>6. Pictured(Show(view, guide)) /\ ListedIn(Show(view, guide), Row)
  BY <1>1, <1>3, <1>4, ShowsCanvas
<1>7. view.row = c.row /\ view.len = c.len /\ view.amocpos = pos
  BY <1>1
<1>8. Filled(view, pos)
  BY <1>3, <1>4, <1>5, <1>7 DEF Filled
<1>9. Stepped(view, pos, page)
  BY <1>1 DEF Stepped
<1>10. Went
  BY <1>2 DEF Went
<1> QED BY <1>6, <1>8, <1>9, <1>10 DEF Filed

(* Every key keeps what is filed.                                          *)
LEMMA NextFiled ==
  ASSUME Wide, Held, Filed, [Next]_vars
  PROVE  Filed'
<1>1. pos \in Int /\ PageOK(page, pos) /\ GuideOK(guide) /\ BackOK(back) /\ pos \in Addr
  BY ScreenParts, Decodes DEF Held
<1>2. /\ page.PrevStrLen \in Int /\ page.CurrStrLen \in Nat
      /\ page.PrevPageSize \in Nat /\ page.CurrPageSize \in Nat
  BY <1>1 DEF PageOK
<1>3. \A a \in Addr : a \in Int
  BY Decodes DEF Held
<1>4. CASE Up
  BY <1>1, <1>2, <1>4, GoToFiled DEF Up, Wanted
<1>5. CASE Down
  BY <1>1, <1>2, <1>5, GoToFiled DEF Down, Wanted
<1>6. CASE PgUp
  BY <1>1, <1>2, <1>6, GoToFiled DEF PgUp, Wanted
<1>7. CASE PgDn
  BY <1>1, <1>2, <1>7, GoToFiled DEF PgDn, Wanted
<1>8. CASE Arrow
  <2>1. PICK nfp \in {pos - 8, pos - 1, pos + 1, pos + 8, 0, FLen} : GoTo("arrow", nfp)
    BY <1>8 DEF Arrow
  <2>2. nfp \in Int
    BY <1>1, <2>1, SizesOfConstants
  <2>3. Wanted("arrow", nfp)
    BY <2>2 DEF Wanted
  <2> QED BY <2>1, <2>3, GoToFiled
<1>9. CASE Header
  <2>1. PICK nfp \in Addr : GoTo("alt", nfp)
    BY <1>9 DEF Header
  <2>2. Wanted("alt", nfp)
    BY <1>3 DEF Wanted
  <2> QED BY <2>1, <2>2, GoToFiled
<1>10. CASE Search
  <2>1. PICK nfp \in Addr : GoTo("justfind", nfp)
    BY <1>10 DEF Search
  <2>2. Wanted("justfind", nfp)
    BY <1>3 DEF Wanted
  <2> QED BY <2>1, <2>2, GoToFiled
<1>11. CASE ReRead
  BY <1>1, <1>11, GoToFiled DEF ReRead, Wanted
<1>12. CASE Jump
  <2>1. PICK nfp \in Addr : GoTo("super", nfp)
    BY <1>12 DEF Jump
  <2>2. Wanted("super", nfp)
    BY <1>3 DEF Wanted
  <2> QED BY <2>1, <2>2, GoToFiled
<1>13. CASE BackSpace
  <2> DEFINE r == GidGetBackAddress(back, pos)
  <2>1. GoTo("bkspace", r.to)
    BY <1>13 DEF BackSpace
  <2>2. r.to \in Addr
    BY <1>1, ReturnFits
  <2> HIDE DEF r
  <2>3. Wanted("bkspace", r.to)
    BY <1>3, <2>2 DEF Wanted
  <2> QED BY <2>1, <2>3, GoToFiled
<1>14. CASE \E k \in Keys : Follow(k)
  <2>1. PICK k \in Keys : Follow(k)
    BY <1>14
  <2> DEFINE r == GidGetGoAddress(guide, back, k, pos)
  <2>2. GoTo("key", r.to)
    BY <2>1 DEF Follow
  <2>3. r.to \in Addr
    BY <1>1, FollowFits
  <2> HIDE DEF r
  <2>4. Wanted("key", r.to)
    BY <1>3, <2>3 DEF Wanted
  <2> QED BY <2>2, <2>4, GoToFiled
<1>15. CASE UNCHANGED vars
  BY <1>15 DEF vars, Filed, Filled, Stepped, Near, Pictured, Show, ListedIn, Went
<1> QED BY <1>4, <1>5, <1>6, <1>7, <1>8, <1>9, <1>10, <1>11, <1>12, <1>13, <1>14, <1>15
        DEF Next

-----------------------------------------------------------------------------
(* What is filed is enough for the keys on the screen.                     *)
LEMMA FiledMarks ==
  ASSUME Held, Filed
  PROVE  MarkLeads /\ GuideOnScreen
<1> DEFINE n == Len(guide.addr)
<1>1. /\ GuideOK(guide) /\ n \in Nat
      /\ \A i \in 1 .. n : guide.line[i] \in Row
      /\ \A i, j \in 1 .. n : i < j => guide.line[i] < guide.line[j]
  BY ScreenParts, GuideSeqs DEF Held
<1>2. \A j \in 1 .. n : /\ view.row[guide.line[j]] # Blank
                        /\ code[view.row[guide.line[j]]].to = guide.addr[j]
                        /\ view.mark[guide.line[j]] = gidGetAddressKey(guide, j)
  BY DEF Filed, Pictured, Show
<1>3. ASSUME NEW i \in 1 .. n
      PROVE  view.mark[guide.line[i]] # NoMark /\ Leads(guide.line[i])
  <2> DEFINE k == gidGetAddressKey(guide, i)
  <2>1. k \in 0 .. n - 1
    BY <1>1, KeyRange
  <2>2. gidGetKeyIndex(guide, k) \in 1 .. n /\ guide.addr[gidGetKeyIndex(guide, k)] = guide.addr[i]
    BY <1>1, KeyFindsTarget
  <2>3. view.mark[guide.line[i]] = k
    BY <1>2
  <2> HIDE DEF k
  <2>4. k # NoMark
    BY <1>1, <2>1 DEF NoMark
  <2> QED BY <1>2, <2>2, <2>3, <2>4 DEF Leads, KeyLeads
<1>4. MarkLeads
  <2> DEFINE listed == {guide.line[i] : i \in 1 .. n}
  <2> SUFFICES ASSUME NEW r \in Row
               PROVE  IF r \in listed THEN view.mark[r] # NoMark /\ Leads(r)
                      ELSE view.mark[r] = NoMark \/ hist.lost
    BY DEF MarkLeads
  <2>1. CASE r \in listed
    BY <1>3, <2>1
  <2>2. CASE r \notin listed
    <3>1. r \notin Listed(guide)
      BY <2>2 DEF Listed
    <3>2. hist.lost \/ view.mark[r] = NoMark
      BY <3>1 DEF Filed, ListedIn, Show
    <3> QED BY <2>2, <3>2
  <2> QED BY <2>1, <2>2
<1>5. \A i \in 1 .. n : i > 1 => guide.line[i - 1] < guide.line[i]
  <2> SUFFICES ASSUME NEW i \in 1 .. n, i > 1 PROVE guide.line[i - 1] < guide.line[i]
    OBVIOUS
  <2>1. i - 1 \in 1 .. n /\ i - 1 < i
    <3> HIDE DEF n
    <3> QED BY <1>1
  <2> QED BY <1>1, <2>1
<1>6. GuideOnScreen
  BY <1>2, <1>5 DEF GuideOnScreen
<1> QED BY <1>4, <1>6

(* The key beside a jump leads where the jump leads, whatever was scrolled *)
(* since it was written, and no other line shows a key unless the guide    *)
(* lost a jump since the last whole painting (codeguid.c:107-219).         *)
THEOREM MarksLead ==
  ASSUME Wide
  PROVE  Spec => []MarkLeads
<1>1. Init => Held /\ Filed
  BY InitHeld, InitFiled
<1>2. Held /\ Filed /\ [Next]_vars => (Held /\ Filed)'
  BY NextHeld, NextFiled
<1>3. Held /\ Filed => MarkLeads
  BY FiledMarks
<1> QED BY <1>1, <1>2, <1>3, PTL DEF Spec

(* The jumps of the guide are those of lines of the screen, in their order *)
(* (codeguid.c:107-143).                                                   *)
THEOREM GuideShown ==
  ASSUME Wide
  PROVE  Spec => []GuideOnScreen
<1>1. Init => Held /\ Filed
  BY InitHeld, InitFiled
<1>2. Held /\ Filed /\ [Next]_vars => (Held /\ Filed)'
  BY NextHeld, NextFiled
<1>3. Held /\ Filed => GuideOnScreen
  BY FiledMarks
<1> QED BY <1>1, <1>2, <1>3, PTL DEF Spec

(* Up takes back a Down that was not clipped at the end of the file: the   *)
(* line that left the screen is as long as the Down was                    *)
(* (disasm.c:154-160).                                                     *)
THEOREM UpReturns ==
  ASSUME Wide
  PROVE  Spec => UpUndoesDown
<1>1. Init => Held /\ Filed
  BY InitHeld, InitFiled
<1>2. Held /\ Filed /\ [Next]_vars => (Held /\ Filed)'
  BY NextHeld, NextFiled
<1>3. ASSUME Held, Filed, [Next]_vars
      PROVE  [Up /\ hist.key = "down" /\ pos = hist.want /\ pos # hist.from
                => pos' = hist.from]_vars
  <2> SUFFICES ASSUME Up, hist.key = "down", pos = hist.want, pos # hist.from
               PROVE  pos' = hist.from
    OBVIOUS
  <2>1. hist.from \in Addr /\ hist.want \in Int
    BY <1>3 DEF Held, Turned
  <2>2. page.PrevStrLen = hist.want - hist.from
    BY <1>3 DEF Filed, Went
  <2>3. pos' = Clipped(pos - page.PrevStrLen)
    BY DEF Up, GoTo
  <2>4. pos - page.PrevStrLen = hist.from
    BY <2>1, <2>2 DEF Addr
  <2> QED BY <2>1, <2>3, <2>4, Clips DEF Addr
<1> QED BY <1>1, <1>2, <1>3, PTL DEF Spec, UpUndoesDown
=============================================================================
