----------------------------- MODULE NamesProofs -----------------------------
(***************************************************************************)
(* Proofs about Lists and Names: sorting sorts, searching finds, and the   *)
(* names of the user and of the format are found.                          *)
(***************************************************************************)
EXTENDS Names, TLAPS, WellFoundedInduction

(* Induction on the numbers up to n.                                       *)
LEMMA RangeInduction ==
  ASSUME NEW n \in Nat, NEW P, 0 \in P,
         \A i \in 0 .. n - 1 : i \in P => i + 1 \in P
  PROVE  \A i \in 0 .. n : i \in P
<1> DEFINE Wrong == {i \in Nat : i \in 0 .. n /\ i \notin P}
<1>1. Wrong = {}
  <2> SUFFICES ASSUME Wrong # {} PROVE FALSE
    OBVIOUS
  <2>1. PICK m \in Wrong : \A b \in Wrong : ~(<<b, m>> \in OpToRel(<, Nat))
    <3>1. Wrong \subseteq Nat
      OBVIOUS
    <3> HIDE DEF Wrong
    <3> QED BY <3>1, NatLessThanWellFounded, WFMin
  <2>2. m \in Nat /\ m \in 0 .. n /\ m \notin P /\ m # 0
    OBVIOUS
  <2>3. m - 1 \in Nat /\ m - 1 \in 0 .. n - 1 /\ (m - 1) + 1 = m
    BY <2>2
  <2>4. <<m - 1, m>> \in OpToRel(<, Nat)
    BY <2>2, <2>3 DEF OpToRel
  <2>5. m - 1 \notin Wrong
    BY <2>1, <2>4
  <2>6. m - 1 \in P
    BY <2>3, <2>5
  <2>7. (m - 1) + 1 \in P
    BY <2>3, <2>6
  <2> QED BY <2>2, <2>3, <2>7
<1> QED BY <1>1

(* The least of some numbers that are not negative.                        *)
LEMMA MinIsLeast ==
  ASSUME NEW S, S \subseteq Nat, S # {}
  PROVE  Min(S) \in S /\ \A i \in S : Min(S) <= i
<1>1. PICK k \in S : \A j \in S : ~(<<j, k>> \in OpToRel(<, Nat))
  BY NatLessThanWellFounded, WFMin
<1>2. \A j \in S : k <= j
  <2> TAKE j \in S
  <2>1. j \in Nat /\ k \in Nat /\ ~(j < k)
    BY <1>1 DEF OpToRel
  <2> QED BY <2>1
<1>3. Min(S) \in S /\ \A j \in S : Min(S) =< j
  BY <1>2 DEF Min
<1> QED BY <1>3

(* The greatest of some numbers up to a bound.                             *)
LEMMA MaxIsMost ==
  ASSUME NEW n \in Nat, NEW S, S \subseteq 0..n, S # {}
  PROVE  Max(S) \in S /\ \A i \in S : i <= Max(S)
<1> DEFINE T == {n - i : i \in S}
<1>1. T \subseteq Nat /\ T # {}
  <2>1. \A i \in S : i \in Int /\ 0 <= i /\ i <= n
    OBVIOUS
  <2>2. \A i \in S : n - i \in Nat
    BY <2>1
  <2>3. T \subseteq Nat
    BY <2>2
  <2>4. PICK i \in S : TRUE
    OBVIOUS
  <2>5. n - i \in T
    BY <2>4
  <2> QED BY <2>3, <2>5
<1>2. Min(T) \in T /\ \A k \in T : Min(T) <= k
  BY <1>1, MinIsLeast
<1>3. PICK m \in S : Min(T) = n - m
  BY <1>2
<1>4. ASSUME NEW i \in S PROVE i <= m
  <2>1. n - i \in T /\ n - i \in Nat /\ n - m \in Nat /\ i \in Nat /\ m \in Nat
    OBVIOUS
  <2>2. n - m <= n - i
    BY <1>2, <1>3, <2>1
  <2> QED BY <2>1, <2>2
<1>5. \A j \in S : m >= j
  <2> TAKE j \in S
  <2>1. j <= m /\ j \in Nat /\ m \in Nat
    BY <1>4
  <2> QED BY <2>1
<1>6. Max(S) \in S /\ \A j \in S : Max(S) >= j
  BY <1>5 DEF Max
<1> DEFINE M == Max(S)
<1> HIDE DEF M
<1>7. M \in S /\ \A j \in S : M >= j
  BY <1>6 DEF M
<1>8. \A j \in S : j <= M
  BY <1>7
<1> QED BY <1>7, <1>8 DEF M

(* A function of the numbers from 1 to n is a sequence.                    *)
LEMMA FunctionIsSeq ==
  ASSUME NEW n \in Nat, NEW T, NEW f \in [1 .. n -> T]
  PROVE  f \in Seq(T) /\ Len(f) = n
OBVIOUS

-----------------------------------------------------------------------------
(* Lists of n elements of T.                                               *)
Items(T) == \A x \in T : x.at \in Int
Rows(n, T) == {l \in Seq(T) : Len(l) = n}

(* What is in a list.                                                      *)
LEMMA RowsAre ==
  ASSUME NEW n \in Nat, NEW T
  PROVE  /\ Rows(n, T) = [1 .. n -> T]
         /\ \A l \in Rows(n, T) : /\ Len(l) = n /\ DOMAIN l = 1 .. n /\ l \in Seq(T)
                                  /\ \A i \in 0 .. n - 1 : l[i + 1] \in T
BY DEF Rows

(* The numbers by which elements are compared.                             *)
LEMMA AtInt ==
  ASSUME NEW n \in Nat, NEW T, Items(T), NEW l \in Rows(n, T), NEW i \in 0 .. n - 1
  PROVE  At(l, i) \in Int
BY RowsAre DEF Items, At

-----------------------------------------------------------------------------
(* The list k has the elements of l, of which those outside the range from *)
(* b to m are where they were.                                             *)
Moves(n, b, m) ==
  {p \in [1 .. n -> 1 .. n] :
     /\ \A i, j \in 1 .. n : p[i] = p[j] => i = j
     /\ \A i \in 1 .. n : \E j \in 1 .. n : p[j] = i
     /\ \A i \in 1 .. n : i \notin b + 1 .. m => p[i] = i}
Perm(n, l, k, b, m) == \E p \in Moves(n, b, m) : k = [i \in 1 .. n |-> l[p[i]]]

(* Moving nothing.                                                         *)
LEMMA PermSame ==
  ASSUME NEW n \in Nat, NEW T, NEW l \in Rows(n, T), NEW b, NEW m
  PROVE  Perm(n, l, l, b, m)
<1> DEFINE p == [i \in 1 .. n |-> i]
<1>1. p \in Moves(n, b, m)
  BY DEF Moves
<1>2. l = [i \in 1 .. n |-> l[p[i]]]
  BY RowsAre
<1> QED BY <1>1, <1>2 DEF Perm

(* Moving in a range is moving in a larger one.                            *)
LEMMA PermWider ==
  ASSUME NEW n \in Nat, NEW l, NEW k, NEW b \in Int, NEW m \in Int, NEW c \in Int, NEW o \in Int,
         Perm(n, l, k, b, m), c <= b, m <= o
  PROVE  Perm(n, l, k, c, o)
<1>1. \A i \in 1 .. n : i \notin c + 1 .. o => i \notin b + 1 .. m
  OBVIOUS
<1>2. Moves(n, b, m) \subseteq Moves(n, c, o)
  BY <1>1 DEF Moves
<1> QED BY <1>2 DEF Perm

(* Moving twice.                                                           *)
LEMMA PermTwice ==
  ASSUME NEW n \in Nat, NEW l, NEW k, NEW h, NEW b, NEW m,
         Perm(n, l, k, b, m), Perm(n, k, h, b, m)
  PROVE  Perm(n, l, h, b, m)
<1>1. PICK p \in Moves(n, b, m) : k = [i \in 1 .. n |-> l[p[i]]]
  BY DEF Perm
<1>2. PICK q \in Moves(n, b, m) : h = [i \in 1 .. n |-> k[q[i]]]
  BY DEF Perm
<1> DEFINE r == [i \in 1 .. n |-> p[q[i]]]
<1>3. /\ p \in [1 .. n -> 1 .. n] /\ q \in [1 .. n -> 1 .. n]
      /\ \A i, j \in 1 .. n : p[i] = p[j] => i = j
      /\ \A i, j \in 1 .. n : q[i] = q[j] => i = j
      /\ \A i \in 1 .. n : \E j \in 1 .. n : p[j] = i
      /\ \A i \in 1 .. n : \E j \in 1 .. n : q[j] = i
      /\ \A i \in 1 .. n : i \notin b + 1 .. m => p[i] = i /\ q[i] = i
  BY DEF Moves
<1>4. r \in [1 .. n -> 1 .. n]
  BY <1>3
<1>5. \A i, j \in 1 .. n : r[i] = r[j] => i = j
  BY <1>3
<1>6. ASSUME NEW i \in 1 .. n PROVE \E j \in 1 .. n : r[j] = i
  <2>1. PICK x \in 1 .. n : p[x] = i
    BY <1>3
  <2>2. PICK j \in 1 .. n : q[j] = x
    BY <1>3
  <2> QED BY <2>1, <2>2
<1>7. \A i \in 1 .. n : i \notin b + 1 .. m => r[i] = i
  BY <1>3
<1>8. r \in Moves(n, b, m)
  <2> HIDE DEF r
  <2> QED BY <1>4, <1>5, <1>6, <1>7 DEF Moves
<1>9. h = [i \in 1 .. n |-> l[r[i]]]
  BY <1>1, <1>2, <1>3
<1> QED BY <1>8, <1>9 DEF Perm

(* Elements of a range come from the range, and others stay.               *)
Kept(n, l, k, b, m) ==
  /\ \A i \in 0 .. n - 1 : i \notin b .. m - 1 => k[i + 1] = l[i + 1]
  /\ \A i \in b .. m - 1 : \E j \in b .. m - 1 : k[i + 1] = l[j + 1]
  /\ \A j \in b .. m - 1 : \E i \in b .. m - 1 : k[i + 1] = l[j + 1]

(* What is in the list afterwards, and where.                              *)
LEMMA PermKeeps ==
  ASSUME NEW n \in Nat, NEW T, NEW l \in Rows(n, T), NEW k, NEW b \in Nat, NEW m \in 0 .. n,
         Perm(n, l, k, b, m)
  PROVE  k \in Rows(n, T) /\ Kept(n, l, k, b, m)
<1>1. PICK p \in Moves(n, b, m) : k = [i \in 1 .. n |-> l[p[i]]]
  BY DEF Perm
<1>2. /\ p \in [1 .. n -> 1 .. n]
      /\ \A i, j \in 1 .. n : p[i] = p[j] => i = j
      /\ \A i \in 1 .. n : \E j \in 1 .. n : p[j] = i
      /\ \A i \in 1 .. n : i \notin b + 1 .. m => p[i] = i
  BY DEF Moves
<1>3. l \in [1 .. n -> T]
  BY RowsAre
<1>4. k \in [1 .. n -> T]
  BY <1>1, <1>2, <1>3
<1>5. ASSUME NEW i \in 0 .. n - 1, i \notin b .. m - 1 PROVE k[i + 1] = l[i + 1]
  <2>1. i + 1 \in 1 .. n /\ i + 1 \notin b + 1 .. m
    BY <1>5
  <2> QED BY <1>1, <1>2, <2>1
<1>6. ASSUME NEW i \in b .. m - 1 PROVE \E j \in b .. m - 1 : k[i + 1] = l[j + 1]
  <2>1. i + 1 \in 1 .. n /\ i + 1 \in b + 1 .. m
    OBVIOUS
  <2>2. p[i + 1] \in b + 1 .. m
    BY <1>2, <2>1
  <2>3. p[i + 1] - 1 \in b .. m - 1 /\ (p[i + 1] - 1) + 1 = p[i + 1]
    BY <2>2
  <2> QED BY <1>1, <2>1, <2>3
<1>7. ASSUME NEW j \in b .. m - 1 PROVE \E i \in b .. m - 1 : k[i + 1] = l[j + 1]
  <2>1. j + 1 \in 1 .. n /\ j + 1 \in b + 1 .. m
    OBVIOUS
  <2>2. PICK x \in 1 .. n : p[x] = j + 1
    BY <1>2, <2>1
  <2>3. x \in b + 1 .. m
    BY <1>2, <2>1, <2>2
  <2>4. x - 1 \in b .. m - 1 /\ (x - 1) + 1 = x
    BY <2>3
  <2> QED BY <1>1, <2>2, <2>4
<1> QED BY <1>4, <1>5, <1>6, <1>7, RowsAre DEF Kept

(* Two elements change places.                                             *)
LEMMA PermSwapped ==
  ASSUME NEW n \in Nat, NEW T, NEW l \in Rows(n, T), NEW b \in Nat, NEW m \in 0 .. n,
         NEW i \in b .. m - 1, NEW j \in b .. m - 1
  PROVE  /\ Perm(n, l, Swapped(l, i, j), b, m)
         /\ At(Swapped(l, i, j), i) = At(l, j)
         /\ At(Swapped(l, i, j), j) = At(l, i)
         /\ \A x \in 0 .. n - 1 : x # i /\ x # j => At(Swapped(l, i, j), x) = At(l, x)
<1> DEFINE p == [x \in 1 .. n |-> IF x = i + 1 THEN j + 1 ELSE IF x = j + 1 THEN i + 1 ELSE x]
<1>1. i + 1 \in 1 .. n /\ j + 1 \in 1 .. n /\ i + 1 \in b + 1 .. m /\ j + 1 \in b + 1 .. m
  OBVIOUS
<1>2. l \in [1 .. n -> T]
  BY RowsAre
<1>3. Swapped(l, i, j) = [x \in 1 .. n |-> IF x = j + 1 THEN l[i + 1]
                                           ELSE IF x = i + 1 THEN l[j + 1] ELSE l[x]]
  BY <1>1, <1>2 DEF Swapped
<1>4. p \in [1 .. n -> 1 .. n]
  BY <1>1
<1>5. \A x, z \in 1 .. n : p[x] = p[z] => x = z
  BY <1>1
<1>6. ASSUME NEW x \in 1 .. n PROVE \E z \in 1 .. n : p[z] = x
  <2>1. CASE x = i + 1
    BY <1>1, <2>1
  <2>2. CASE x = j + 1
    BY <1>1, <2>2
  <2>3. CASE x # i + 1 /\ x # j + 1
    BY <2>3
  <2> QED BY <2>1, <2>2, <2>3
<1>7. \A x \in 1 .. n : x \notin b + 1 .. m => p[x] = x
  BY <1>1
<1>8. p \in Moves(n, b, m)
  <2> HIDE DEF p
  <2> QED BY <1>4, <1>5, <1>6, <1>7 DEF Moves
<1>9. Swapped(l, i, j) = [x \in 1 .. n |-> l[p[x]]]
  BY <1>1, <1>3
<1>10. Perm(n, l, Swapped(l, i, j), b, m)
  <2> HIDE DEF p
  <2> QED BY <1>8, <1>9 DEF Perm
<1>11. \A x \in 0 .. n - 1 : x # i /\ x # j => x + 1 \in 1 .. n /\ x + 1 # i + 1 /\ x + 1 # j + 1
  OBVIOUS
<1> QED BY <1>1, <1>3, <1>10, <1>11 DEF At

-----------------------------------------------------------------------------
(* Loops.  A loop that starts in one of the states S[0] and whose turn i   *)
(* goes from one of S[i - 1] to one of S[i].                               *)
Turning(f, n, a, G) == f = [i \in 0 .. n |-> IF i = 0 THEN a ELSE G[i][f[i - 1]]]

(* There is the sequence of its states.                                    *)
LEMMA TurnsExist ==
  ASSUME NEW n \in Nat, NEW a, NEW G
  PROVE  \E f : Turning(f, n, a, G)
<1> DEFINE P == {k \in 0 .. n : \E f : Turning(f, k, a, G)}
<1>1. 0 \in P
  <2>1. Turning([i \in 0 .. 0 |-> a], 0, a, G)
    BY DEF Turning
  <2> QED BY <2>1
<1>2. ASSUME NEW k \in 0 .. n - 1, k \in P PROVE k + 1 \in P
  <2>1. PICK f : Turning(f, k, a, G)
    BY <1>2
  <2> DEFINE h == [i \in 0 .. k + 1 |-> IF i = k + 1 THEN G[k + 1][f[k]] ELSE f[i]]
             r == [i \in 0 .. k + 1 |-> IF i = 0 THEN a ELSE G[i][h[i - 1]]]
  <2>2. ASSUME NEW i \in 0 .. k + 1 PROVE h[i] = r[i]
    <3>1. CASE i = k + 1
      <4>1. h[k] = f[k] /\ k + 1 # 0 /\ (k + 1) - 1 = k
        OBVIOUS
      <4> QED BY <3>1, <4>1
    <3>2. CASE i # k + 1
      <4>1. i \in 0 .. k /\ (i # 0 => i - 1 \in 0 .. k)
        BY <3>2
      <4>2. f[i] = IF i = 0 THEN a ELSE G[i][f[i - 1]]
        BY <2>1, <4>1 DEF Turning
      <4>3. i # 0 => h[i - 1] = f[i - 1]
        BY <4>1
      <4> QED BY <3>2, <4>2, <4>3
    <3> QED BY <3>1, <3>2
  <2>3. h = r
    BY <2>2
  <2>4. Turning(h, k + 1, a, G)
    BY <2>3 DEF Turning
  <2> HIDE DEF h
  <2> QED BY <2>4
<1> HIDE DEF P
<1>3. n \in P
  BY <1>1, <1>2, RangeInduction
<1> QED BY <1>3 DEF P

(* Its states are those of S.                                              *)
LEMMA TurnsIn ==
  ASSUME NEW n \in Nat, NEW S, NEW a \in S[0], NEW G, NEW f, Turning(f, n, a, G),
         \A i \in 1 .. n : \A s \in S[i - 1] : G[i][s] \in S[i]
  PROVE  \A i \in 0 .. n : f[i] \in S[i]
<1> DEFINE P == {i \in 0 .. n : f[i] \in S[i]}
<1>1. 0 \in P
  BY DEF Turning
<1>2. ASSUME NEW i \in 0 .. n - 1, i \in P PROVE i + 1 \in P
  <2>1. i + 1 \in 1 .. n /\ i + 1 \in 0 .. n /\ i + 1 # 0 /\ (i + 1) - 1 = i /\ f[i] \in S[i]
    BY <1>2
  <2>2. f[i + 1] = G[i + 1][f[i]]
    BY <2>1 DEF Turning
  <2> QED BY <2>1, <2>2
<1> HIDE DEF P
<1>3. \A i \in 0 .. n : i \in P
  BY <1>1, <1>2, RangeInduction
<1> QED BY <1>3 DEF P

-----------------------------------------------------------------------------
(* The partition.  After turn k, what was passed on the left is no larger  *)
(* than the middle element and what was passed on the right no smaller,    *)
(* and less than k elements short of the range are left in between.        *)
Parting(n, T, l, b, m, k) ==
  {s \in [list : Rows(n, T), i : Nat, j : Nat, mid : Nat] :
     /\ Perm(n, l, s.list, b, m)
     /\ b <= s.i /\ s.i <= s.mid /\ s.mid <= s.j /\ s.j < m
     /\ \A x \in b .. s.i - 1 : At(s.list, x) <= At(s.list, s.mid)
     /\ \A x \in s.j + 1 .. m - 1 : At(s.list, s.mid) <= At(s.list, x)
     /\ s.i = s.j \/ s.j - s.i <= m - 1 - b - k}

(* Where the loop goes on.                                                 *)
LEMMA AboveIs ==
  ASSUME NEW n \in Nat, NEW T, Items(T), NEW l \in Rows(n, T),
         NEW mid \in 0 .. n - 1, NEW i \in 0 .. mid
  PROVE  /\ Above(l, i, mid) \in i .. mid
         /\ Above(l, i, mid) # mid => At(l, Above(l, i, mid)) > At(l, mid)
         /\ \A x \in i .. Above(l, i, mid) - 1 : At(l, x) <= At(l, mid)
<1> DEFINE S == {k \in i .. mid : k = mid \/ At(l, k) > At(l, mid)}
           a == Min(S)
<1>1. S \subseteq Nat /\ mid \in S
  OBVIOUS
<1>2. a \in S /\ \A k \in S : a <= k
  <2> HIDE DEF S
  <2> QED BY <1>1, MinIsLeast
<1>3. Above(l, i, mid) = a
  BY DEF Above
<1> HIDE DEF a
<1>4. ASSUME NEW x \in i .. a - 1 PROVE At(l, x) <= At(l, mid)
  <2>1. x \in i .. mid /\ x \in 0 .. n - 1 /\ ~(a <= x)
    BY <1>2
  <2>2. x \notin S
    BY <1>2, <2>1
  <2>3. ~(At(l, x) > At(l, mid))
    BY <2>1, <2>2
  <2>4. At(l, x) \in Int /\ At(l, mid) \in Int
    BY <2>1, AtInt
  <2> QED BY <2>3, <2>4
<1> QED BY <1>2, <1>3, <1>4

(* And where from the other end.                                           *)
LEMMA BelowIs ==
  ASSUME NEW n \in Nat, NEW T, Items(T), NEW l \in Rows(n, T),
         NEW j \in 0 .. n - 1, NEW mid \in 0 .. j
  PROVE  /\ Below(l, j, mid) \in mid .. j
         /\ Below(l, j, mid) # mid => At(l, Below(l, j, mid)) < At(l, mid)
         /\ \A x \in Below(l, j, mid) + 1 .. j : At(l, mid) <= At(l, x)
<1> DEFINE S == {k \in mid .. j : k = mid \/ At(l, k) < At(l, mid)}
           a == Max(S)
<1>1. S \subseteq 0 .. n /\ mid \in S
  OBVIOUS
<1>2. a \in S /\ \A k \in S : k <= a
  <2> HIDE DEF S
  <2> QED BY <1>1, MaxIsMost
<1>3. Below(l, j, mid) = a
  BY DEF Below
<1> HIDE DEF a
<1>4. ASSUME NEW x \in a + 1 .. j PROVE At(l, mid) <= At(l, x)
  <2>1. x \in mid .. j /\ x \in 0 .. n - 1 /\ ~(x <= a)
    BY <1>2
  <2>2. x \notin S
    BY <1>2, <2>1
  <2>3. ~(At(l, x) < At(l, mid))
    BY <2>1, <2>2
  <2>4. At(l, x) \in Int /\ At(l, mid) \in Int
    BY <2>1, AtInt
  <2> QED BY <2>3, <2>4
<1> QED BY <1>2, <1>3, <1>4

(* A turn of the partition.                                                *)
LEMMA TurnedParts ==
  ASSUME NEW n \in Nat, NEW T, Items(T), NEW l \in Rows(n, T), NEW b \in Nat, NEW m \in 0 .. n,
         NEW k \in Nat, NEW s \in Parting(n, T, l, b, m, k)
  PROVE  Turned(s) \in Parting(n, T, l, b, m, k + 1)
<1> DEFINE i == Above(s.list, s.i, s.mid)
           j == Below(s.list, s.j, s.mid)
           w == s.list
           mid == s.mid
           h == Swapped(w, i, j)
<1>1. /\ w \in Rows(n, T) /\ s.i \in Nat /\ s.j \in Nat /\ mid \in Nat
      /\ Perm(n, l, w, b, m)
      /\ b <= s.i /\ s.i <= mid /\ mid <= s.j /\ s.j < m
      /\ \A x \in b .. s.i - 1 : At(w, x) <= At(w, mid)
      /\ \A x \in s.j + 1 .. m - 1 : At(w, mid) <= At(w, x)
      /\ s.i = s.j \/ s.j - s.i <= m - 1 - b - k
  BY DEF Parting
<1>2. mid \in 0 .. n - 1 /\ s.i \in 0 .. mid /\ s.j \in 0 .. n - 1 /\ mid \in 0 .. s.j
  BY <1>1
<1>3. /\ i \in s.i .. mid /\ (i # mid => At(w, i) > At(w, mid))
      /\ \A x \in s.i .. i - 1 : At(w, x) <= At(w, mid)
  BY <1>1, <1>2, AboveIs
<1>4. /\ j \in mid .. s.j /\ (j # mid => At(w, j) < At(w, mid))
      /\ \A x \in j + 1 .. s.j : At(w, mid) <= At(w, x)
  BY <1>1, <1>2, BelowIs
<1>5. Turned(s) = CASE i = mid /\ j = mid -> [list |-> w, i |-> i, j |-> j, mid |-> mid]
                    [] i = mid /\ j > mid -> [list |-> h, i |-> i + 1, j |-> j, mid |-> j]
                    [] i < mid /\ j > mid -> [list |-> h, i |-> i + 1, j |-> j - 1, mid |-> mid]
                    [] i < mid /\ j = mid -> [list |-> h, i |-> i, j |-> j - 1, mid |-> i]
  BY DEF Turned
<1> HIDE DEF i, j, w, mid
<1>7. i \in b .. m - 1 /\ j \in b .. m - 1 /\ mid \in b .. m - 1
  BY <1>1, <1>2, <1>3, <1>4
<1>8. /\ Perm(n, w, h, b, m) /\ At(h, i) = At(w, j) /\ At(h, j) = At(w, i)
      /\ \A x \in 0 .. n - 1 : x # i /\ x # j => At(h, x) = At(w, x)
  BY <1>1, <1>7, PermSwapped
<1>9. Perm(n, l, h, b, m)
  BY <1>1, <1>8, PermTwice
<1>10. h \in Rows(n, T)
  BY <1>9, PermKeeps
<1> HIDE DEF h
<1>11. /\ \A x \in b .. i - 1 : At(w, x) <= At(w, mid)
       /\ \A x \in j + 1 .. m - 1 : At(w, mid) <= At(w, x)
  BY <1>1, <1>2, <1>3, <1>4, <1>7
<1>12. \A x \in 0 .. n - 1 : At(w, x) \in Int /\ At(h, x) \in Int
  BY <1>1, <1>10, AtInt
<1>13. i \in 0 .. n - 1 /\ j \in 0 .. n - 1 /\ mid \in 0 .. n - 1 /\ i \in Nat /\ j \in Nat
  BY <1>7
<1>14. At(w, i) \in Int /\ At(w, j) \in Int /\ At(w, mid) \in Int
  BY <1>12, <1>13
<1>15. CASE i = mid /\ j = mid
  <2>1. Turned(s) = [list |-> w, i |-> i, j |-> j, mid |-> mid]
    BY <1>5, <1>13, <1>15
  <2> QED BY <2>1, <1>1, <1>7, <1>11, <1>13, <1>15 DEF Parting
<1>16. CASE i = mid /\ j > mid
  <2>1. Turned(s) = [list |-> h, i |-> i + 1, j |-> j, mid |-> j]
    BY <1>5, <1>16, <1>13
  <2>2. ASSUME NEW x \in b .. (i + 1) - 1 PROVE At(h, x) <= At(h, j)
    <3>1. x \in 0 .. n - 1 /\ x \in b .. i /\ x # j
      BY <1>7, <1>16
    <3>2. CASE x = i
      BY <3>2, <1>4, <1>8, <1>14, <1>16
    <3>3. CASE x # i
      <4>1. x \in b .. i - 1
        BY <3>1, <3>3, <1>7
      <4> QED BY <4>1, <3>1, <3>3, <1>8, <1>11, <1>16
    <3> QED BY <3>2, <3>3
  <2>3. ASSUME NEW x \in j + 1 .. m - 1 PROVE At(h, j) <= At(h, x)
    <3>1. x \in 0 .. n - 1 /\ x # i /\ x # j
      BY <1>7, <1>16
    <3> QED BY <3>1, <1>8, <1>11, <1>16
  <2>4. b <= i + 1 /\ i + 1 <= j /\ j < m /\ i + 1 \in Nat
    BY <1>7, <1>13, <1>16
  <2>5. i + 1 = j \/ j - (i + 1) <= m - 1 - b - (k + 1)
    BY <1>1, <1>3, <1>4, <1>13, <1>16
  <2> QED BY <2>1, <2>2, <2>3, <2>4, <2>5, <1>9, <1>10, <1>13 DEF Parting
<1>17. CASE i < mid /\ j > mid
  <2>1. Turned(s) = [list |-> h, i |-> i + 1, j |-> j - 1, mid |-> mid]
    BY <1>5, <1>17, <1>13
  <2>2. At(h, mid) = At(w, mid)
    BY <1>8, <1>13, <1>17
  <2>3. ASSUME NEW x \in b .. (i + 1) - 1 PROVE At(h, x) <= At(h, mid)
    <3>1. x \in 0 .. n - 1 /\ x \in b .. i /\ x # j
      BY <1>7, <1>17
    <3>2. CASE x = i
      BY <3>2, <2>2, <1>4, <1>8, <1>14, <1>17
    <3>3. CASE x # i
      <4>1. x \in b .. i - 1
        BY <3>1, <3>3, <1>7
      <4> QED BY <4>1, <2>2, <3>1, <3>3, <1>8, <1>11
    <3> QED BY <3>2, <3>3
  <2>4. ASSUME NEW x \in (j - 1) + 1 .. m - 1 PROVE At(h, mid) <= At(h, x)
    <3>1. x \in 0 .. n - 1 /\ x \in j .. m - 1 /\ x # i
      BY <1>7, <1>17
    <3>2. CASE x = j
      BY <3>2, <2>2, <1>3, <1>8, <1>14, <1>17
    <3>3. CASE x # j
      <4>1. x \in j + 1 .. m - 1
        BY <3>1, <3>3, <1>7
      <4> QED BY <4>1, <2>2, <3>1, <3>3, <1>8, <1>11
    <3> QED BY <3>2, <3>3
  <2>5. b <= i + 1 /\ i + 1 <= mid /\ mid <= j - 1 /\ j - 1 < m /\ i + 1 \in Nat /\ j - 1 \in Nat
    BY <1>7, <1>13, <1>17
  <2>6. i + 1 = j - 1 \/ (j - 1) - (i + 1) <= m - 1 - b - (k + 1)
    BY <1>1, <1>3, <1>4, <1>13, <1>17
  <2> QED BY <2>1, <2>3, <2>4, <2>5, <2>6, <1>1, <1>9, <1>10 DEF Parting
<1>18. CASE i < mid /\ j = mid
  <2>1. Turned(s) = [list |-> h, i |-> i, j |-> j - 1, mid |-> i]
    BY <1>5, <1>18, <1>13
  <2>2. At(h, i) = At(w, mid)
    BY <1>8, <1>18
  <2>3. ASSUME NEW x \in b .. i - 1 PROVE At(h, x) <= At(h, i)
    <3>1. x \in 0 .. n - 1 /\ x # i /\ x # j
      BY <1>7, <1>18
    <3> QED BY <2>2, <3>1, <1>8, <1>11
  <2>4. ASSUME NEW x \in (j - 1) + 1 .. m - 1 PROVE At(h, i) <= At(h, x)
    <3>1. x \in 0 .. n - 1 /\ x \in j .. m - 1 /\ x # i
      BY <1>7, <1>18
    <3>2. CASE x = j
      BY <3>2, <2>2, <1>3, <1>8, <1>14, <1>18
    <3>3. CASE x # j
      <4>1. x \in j + 1 .. m - 1
        BY <3>1, <3>3, <1>7
      <4> QED BY <4>1, <2>2, <3>1, <3>3, <1>8, <1>11
    <3> QED BY <3>2, <3>3
  <2>5. b <= i /\ i <= j - 1 /\ j - 1 < m /\ j - 1 \in Nat
    BY <1>7, <1>13, <1>18
  <2>6. i = j - 1 \/ (j - 1) - i <= m - 1 - b - (k + 1)
    BY <1>1, <1>3, <1>4, <1>13, <1>18
  <2> QED BY <2>1, <2>3, <2>4, <2>5, <2>6, <1>9, <1>10, <1>13 DEF Parting
<1>19. i <= mid /\ mid <= j
  BY <1>3, <1>4, <1>1
<1> QED BY <1>13, <1>15, <1>16, <1>17, <1>18, <1>19

-----------------------------------------------------------------------------
(* A range that is partitioned: its list, with the middle element at mid.  *)
Parted(n, T, l, b, m, p) ==
  /\ p.list \in Rows(n, T) /\ Perm(n, l, p.list, b, m)
  /\ p.mid \in b .. m - 1
  /\ \A x \in b .. p.mid - 1 : At(p.list, x) <= At(p.list, p.mid)
  /\ \A x \in p.mid + 1 .. m - 1 : At(p.list, p.mid) <= At(p.list, x)

(* The loop partitions the range.                                          *)
LEMMA PartitionParts ==
  ASSUME NEW n \in Nat, NEW T, Items(T), NEW l \in Rows(n, T), NEW b \in Nat, NEW m \in 0 .. n,
         b < m
  PROVE  Parted(n, T, l, b, m, Partition(l, b, m))
<1> DEFINE N == m - b
           a == [list |-> l, i |-> b, j |-> m - 1, mid |-> b + ((m - b) \div 2)]
           S == [k \in 0 .. N |-> Parting(n, T, l, b, m, k)]
           G == [k \in 1 .. N |-> [s \in S[k - 1] |-> Turned(s)]]
           turn == CHOOSE turn : turn = [k \in 0 .. N |-> IF k = 0 THEN a ELSE Turned(turn[k - 1])]
<1>1. N \in Nat /\ N > 0 /\ b + (N \div 2) \in b .. m - 1 /\ m - 1 \in Nat
  OBVIOUS
<1>2. a \in S[0]
  <2>1. Perm(n, l, l, b, m)
    BY PermSame
  <2> QED BY <1>1, <2>1 DEF Parting
<1>3. ASSUME NEW k \in 1 .. N, NEW s \in S[k - 1] PROVE Turned(s) \in S[k]
  <2>1. k - 1 \in Nat /\ k - 1 \in 0 .. N /\ (k - 1) + 1 = k /\ k \in 0 .. N
    BY <1>1
  <2>2. s \in Parting(n, T, l, b, m, k - 1)
    BY <2>1
  <2>3. Turned(s) \in Parting(n, T, l, b, m, (k - 1) + 1)
    BY <2>1, <2>2, TurnedParts
  <2> QED BY <2>1, <2>3
<1> HIDE DEF a, S
<1>4. PICK f : Turning(f, N, a, G)
  BY <1>1, TurnsExist
<1>5. \A k \in 1 .. N : \A s \in S[k - 1] : G[k][s] = Turned(s) /\ G[k][s] \in S[k]
  BY <1>3
<1> HIDE DEF G
<1>6. \A k \in 0 .. N : f[k] \in S[k]
  BY <1>1, <1>2, <1>4, <1>5, TurnsIn
<1>7. f = [k \in 0 .. N |-> IF k = 0 THEN a ELSE Turned(f[k - 1])]
  <2>1. \A k \in 0 .. N : k # 0 => k \in 1 .. N /\ k - 1 \in 0 .. N
    BY <1>1
  <2>2. \A k \in 0 .. N : k # 0 => G[k][f[k - 1]] = Turned(f[k - 1])
    BY <1>5, <1>6, <2>1
  <2> QED BY <1>4, <2>2 DEF Turning
<1>8. turn = [k \in 0 .. N |-> IF k = 0 THEN a ELSE Turned(turn[k - 1])]
  BY <1>7
<1>9. Partition(l, b, m) = turn[N]
  BY DEF Partition, a
<1> HIDE DEF turn
<1> DEFINE P == {k \in 0 .. N : turn[k] \in S[k]}
<1>10. 0 \in P
  BY <1>1, <1>2, <1>8
<1>11. ASSUME NEW k \in 0 .. N - 1, k \in P PROVE k + 1 \in P
  <2>1. k + 1 \in 1 .. N /\ k + 1 \in 0 .. N /\ k + 1 # 0 /\ (k + 1) - 1 = k /\ turn[k] \in S[k]
    BY <1>1, <1>11
  <2>2. turn[k + 1] = Turned(turn[k])
    BY <1>8, <2>1
  <2>3. Turned(turn[k]) \in S[k + 1]
    BY <1>3, <2>1
  <2> QED BY <2>1, <2>2, <2>3
<1> HIDE DEF P
<1>12. N \in P
  BY <1>1, <1>10, <1>11, RangeInduction
<1>13. turn[N] \in Parting(n, T, l, b, m, N)
  BY <1>1, <1>12 DEF P, S
<1> DEFINE s == turn[N]
<1>14. /\ s.list \in Rows(n, T) /\ s.i \in Nat /\ s.j \in Nat /\ s.mid \in Nat
       /\ Perm(n, l, s.list, b, m)
       /\ b <= s.i /\ s.i <= s.mid /\ s.mid <= s.j /\ s.j < m
       /\ \A x \in b .. s.i - 1 : At(s.list, x) <= At(s.list, s.mid)
       /\ \A x \in s.j + 1 .. m - 1 : At(s.list, s.mid) <= At(s.list, x)
       /\ s.i = s.j \/ s.j - s.i <= m - 1 - b - N
  BY <1>13 DEF Parting
<1> HIDE DEF s
<1>15. s.i = s.mid /\ s.j = s.mid
  BY <1>1, <1>14
<1> QED BY <1>9, <1>14, <1>15 DEF Parted, s

(* The median stays in the range.                                          *)
LEMMA MedianMoves ==
  ASSUME NEW n \in Nat, NEW T, NEW l \in Rows(n, T), NEW b \in Nat, NEW m \in 0 .. n, b < m
  PROVE  Perm(n, l, Median(l, b, m), b, m) /\ Median(l, b, m) \in Rows(n, T)
<1> DEFINE mid == b + ((m - b) \div 2)
           big == IF At(l, b) > At(l, mid) THEN b ELSE mid
           small == IF big = b THEN mid ELSE b
           med == CASE At(l, big) <= At(l, m - 1) -> big
                    [] At(l, small) < At(l, m - 1) -> m - 1
                    [] OTHER -> small
<1>1. mid \in b .. m - 1 /\ b \in b .. m - 1 /\ m - 1 \in b .. m - 1
  OBVIOUS
<1>2. Median(l, b, m) = IF m - b < MTHRESH THEN l ELSE Swapped(l, mid, med)
  BY DEF Median
<1> HIDE DEF mid
<1>3. big \in b .. m - 1 /\ small \in b .. m - 1
  BY <1>1
<1> HIDE DEF big, small
<1>4. med \in b .. m - 1
  BY <1>1, <1>3
<1> HIDE DEF med
<1>5. Perm(n, l, Median(l, b, m), b, m)
  BY <1>1, <1>2, <1>4, PermSame, PermSwapped
<1> QED BY <1>5, PermKeeps

-----------------------------------------------------------------------------
(* The element x is the least of a range.                                  *)
LeastAt(l, b, m, x) == x \in b .. m - 1 /\ \A z \in b .. m - 1 : At(l, x) <= At(l, z)

(* A range has a least element.                                            *)
LEMMA LeastIs ==
  ASSUME NEW n \in Nat, NEW T, Items(T), NEW l \in Rows(n, T), NEW b \in Nat, NEW m \in 0 .. n, b < m
  PROVE  \E x \in b .. m - 1 : LeastAt(l, b, m, x)
<1> DEFINE N == m - b - 1
           P == {k \in 0 .. N : \E x \in b .. b + k : LeastAt(l, b, b + k + 1, x)}
<1>0. N \in Nat /\ b + N + 1 = m /\ b + N = m - 1
  OBVIOUS
<1>1. 0 \in P
  <2>1. b \in 0 .. n - 1 /\ b \in b .. b + 0
    OBVIOUS
  <2>2. At(l, b) \in Int
    BY <2>1, AtInt
  <2>3. LeastAt(l, b, b + 0 + 1, b)
    <3>1. \A z \in b .. (b + 0 + 1) - 1 : z = b
      OBVIOUS
    <3>2. b \in b .. (b + 0 + 1) - 1
      OBVIOUS
    <3> QED BY <2>2, <3>1, <3>2 DEF LeastAt
  <2> QED BY <1>0, <2>1, <2>3
<1>2. ASSUME NEW k \in 0 .. N - 1, k \in P PROVE k + 1 \in P
  <2>1. PICK x \in b .. b + k : LeastAt(l, b, b + k + 1, x)
    BY <1>2
  <2> DEFINE o == b + k + 1
             e == o + 1
  <2>2. o \in 0 .. n - 1 /\ x \in 0 .. n - 1 /\ b + (k + 1) = o /\ b + (k + 1) + 1 = e /\ e - 1 = o
        /\ k + 1 \in 0 .. N /\ o \in Nat /\ e \in Nat
    BY <1>0
  <2>3. /\ x \in b .. o - 1 /\ \A z \in b .. o - 1 : At(l, x) <= At(l, z)
    BY <2>1 DEF LeastAt
  <2> HIDE DEF e
  <2>4. \A z \in b .. e - 1 : z = o \/ z \in b .. o - 1
    BY <2>2
  <2>5. o \in b .. e - 1 /\ x \in b .. e - 1
    BY <2>2, <2>3
  <2>6. At(l, x) \in Int /\ At(l, o) \in Int /\ \A z \in b .. o - 1 : At(l, z) \in Int
    <3>1. \A z \in b .. o - 1 : z \in 0 .. n - 1
      BY <2>2
    <3> QED BY <2>2, <3>1, AtInt
  <2> HIDE DEF o
  <2>7. CASE At(l, x) <= At(l, o)
    <3>1. LeastAt(l, b, e, x)
      BY <2>3, <2>4, <2>5, <2>7 DEF LeastAt
    <3> QED BY <2>2, <2>5, <3>1
  <2>8. CASE ~(At(l, x) <= At(l, o))
    <3>1. \A z \in b .. e - 1 : At(l, o) <= At(l, z)
      BY <2>3, <2>4, <2>6, <2>8
    <3>2. LeastAt(l, b, e, o)
      BY <2>5, <3>1 DEF LeastAt
    <3> QED BY <2>2, <2>5, <3>2
  <2> QED BY <2>7, <2>8
<1> HIDE DEF P
<1>3. N \in P
  BY <1>0, <1>1, <1>2, RangeInduction
<1>4. \E x \in b .. b + N : LeastAt(l, b, b + N + 1, x)
  BY <1>3 DEF P
<1> QED BY <1>0, <1>4

(* What a call of qst gives: its elements, and the least one among the     *)
(* first.                                                                  *)
Quick(n, T, l, b, m, r) ==
  /\ r \in Rows(n, T) /\ Perm(n, l, r, b, m)
  /\ b < m => \E x \in b .. m - 1 : x < b + THRESH /\ LeastAt(r, b, m, x)

(* A partitioned range whose left part has its least element among its     *)
(* first has it there too, whatever became of the right part.              *)
LEMMA LeftIsLeast ==
  ASSUME NEW n \in Nat, NEW T, Items(T), NEW l \in Rows(n, T), NEW b \in Nat, NEW m \in 0 .. n,
         NEW p, Parted(n, T, l, b, m, p), NEW r \in Rows(n, T),
         r[p.mid + 1] = p.list[p.mid + 1],
         \A z \in b .. p.mid - 1 : \E j \in b .. p.mid - 1 : r[z + 1] = p.list[j + 1],
         \A z \in p.mid + 1 .. m - 1 : \E j \in p.mid + 1 .. m - 1 : r[z + 1] = p.list[j + 1],
         b < p.mid => \E x \in b .. p.mid - 1 : x < b + THRESH /\ LeastAt(r, b, p.mid, x)
  PROVE  \E x \in b .. m - 1 : x < b + THRESH /\ LeastAt(r, b, m, x)
<1> DEFINE mid == p.mid
           v == At(p.list, mid)
<1>1. /\ mid \in b .. m - 1 /\ p.list \in Rows(n, T)
      /\ \A x \in b .. mid - 1 : At(p.list, x) <= v
      /\ \A x \in mid + 1 .. m - 1 : v <= At(p.list, x)
  BY DEF Parted
<1>2. mid \in 0 .. n - 1 /\ mid \in Nat /\ THRESH \in Nat /\ THRESH > 1
  BY <1>1, ListsAssumption
<1>3. v \in Int
  BY <1>1, <1>2, AtInt
<1>4. At(r, mid) = v
  BY DEF At
<1>5. \A z \in b .. mid - 1 : At(r, z) <= v
  BY <1>1 DEF At
<1>6. \A z \in mid + 1 .. m - 1 : v <= At(r, z)
  BY <1>1 DEF At
<1>7. \A z \in 0 .. n - 1 : At(r, z) \in Int
  BY AtInt
<1>8. \A z \in b .. m - 1 : z \in 0 .. n - 1
  OBVIOUS
<1>9. \A z \in b .. m - 1 : z \in b .. mid - 1 \/ z = mid \/ z \in mid + 1 .. m - 1
  <2> HIDE DEF mid
  <2>1. mid \in Nat
    BY <1>2
  <2> TAKE z \in b .. m - 1
  <2>2. z \in Nat /\ b <= z /\ z <= m - 1
    OBVIOUS
  <2> QED BY <2>1, <2>2
<1>10. CASE b < mid
  <2>1. PICK x \in b .. mid - 1 : x < b + THRESH /\ LeastAt(r, b, mid, x)
    BY <1>10
  <2>2. x \in b .. m - 1 /\ At(r, x) <= v /\ \A z \in b .. mid - 1 : At(r, x) <= At(r, z)
    BY <1>1, <1>2, <1>5, <2>1 DEF LeastAt
  <2>3. At(r, x) \in Int
    BY <1>7, <1>8, <2>2
  <2> HIDE DEF mid, v
  <2>4. ASSUME NEW z \in b .. m - 1 PROVE At(r, x) <= At(r, z)
    <3>1. CASE z \in b .. mid - 1
      BY <2>2, <3>1
    <3>2. CASE z = mid
      BY <1>4, <2>2, <3>2
    <3>3. CASE z \in mid + 1 .. m - 1
      <4>1. v <= At(r, z) /\ At(r, z) \in Int
        BY <1>6, <1>7, <1>8, <3>3
      <4> QED BY <1>3, <2>2, <2>3, <4>1
    <3> QED BY <1>9, <3>1, <3>2, <3>3
  <2> QED BY <2>1, <2>2, <2>4 DEF LeastAt
<1>11. CASE ~(b < mid)
  <2>1. mid = b
    BY <1>1, <1>11
  <2>2. \A z \in b .. m - 1 : v <= At(r, z)
    BY <1>3, <1>4, <1>6, <1>9, <2>1
  <2> HIDE DEF mid, v
  <2>3. b \in b .. m - 1 /\ b < b + THRESH
    BY <1>1, <1>2, <2>1
  <2>4. LeastAt(r, b, m, b)
    BY <1>4, <2>1, <2>2, <2>3 DEF LeastAt
  <2> QED BY <2>3, <2>4
<1> QED BY <1>10, <1>11

(* Shorter calls of qst sort their ranges.                                 *)
Shorter(n, T, d, sort) ==
  \A l \in Rows(n, T), b \in 0 .. n, m \in 0 .. n :
     b <= m /\ m - b <= d => Quick(n, T, l, b, m, sort[Call(l, b, m)])

(* So does a call, given them.                                            *)
LEMMA SplitSorts ==
  ASSUME NEW n \in Nat, NEW T, Items(T), NEW d \in Nat, NEW sort, Shorter(n, T, d, sort),
         NEW l \in Rows(n, T), NEW b \in 0 .. n, NEW m \in 0 .. n, b <= m, m - b <= d + 1
  PROVE  Quick(n, T, l, b, m, Split(sort, Call(l, b, m)))
<1> DEFINE c == Call(l, b, m)
           q == Median(l, b, m)
           p == Partition(q, b, m)
           h == p.list
           mid == p.mid
           f1 == sort[Call(h, b, mid)]
           f2 == sort[Call(f1, mid + 1, m)]
           g1 == sort[Call(h, mid + 1, m)]
           g2 == sort[Call(g1, b, mid)]
<1>0. THRESH \in Nat /\ THRESH > 1 /\ b \in Nat /\ m \in Nat
  BY ListsAssumption
<1>1. c.list = l /\ c.base = b /\ c.max = m
  BY DEF Call
<1>2. Split(sort, c) = CASE m - b < THRESH -> l
                         [] m - b >= THRESH /\ mid - b <= m - (mid + 1) -> f2
                         [] m - b >= THRESH /\ mid - b > m - (mid + 1) -> g2
  BY <1>1 DEF Split
<1> HIDE DEF c
<1>3. CASE m - b < THRESH
  <2>1. Split(sort, c) = l
    BY <1>0, <1>2, <1>3
  <2>2. Perm(n, l, l, b, m)
    BY PermSame
  <2>3. ASSUME b < m PROVE \E x \in b .. m - 1 : x < b + THRESH /\ LeastAt(l, b, m, x)
    <3>1. PICK x \in b .. m - 1 : LeastAt(l, b, m, x)
      BY <1>0, <2>3, LeastIs
    <3>2. x < b + THRESH
      BY <1>0, <1>3
    <3> QED BY <3>1, <3>2
  <2> QED BY <2>1, <2>2, <2>3 DEF Quick, c
<1>4. CASE m - b >= THRESH
  <2>1. b < m
    BY <1>0, <1>4
  <2>2. Perm(n, l, q, b, m) /\ q \in Rows(n, T)
    BY <1>0, <2>1, MedianMoves
  <2> HIDE DEF q
  <2>3. Parted(n, T, q, b, m, p)
    BY <1>0, <2>1, <2>2, PartitionParts
  <2> HIDE DEF p
  <2>4. h \in Rows(n, T) /\ Perm(n, q, h, b, m) /\ mid \in b .. m - 1
    BY <2>3 DEF Parted
  <2>5. Perm(n, l, h, b, m)
    BY <2>2, <2>4, PermTwice
  <2> HIDE DEF h, mid
  <2>6. mid \in 0 .. n /\ mid + 1 \in 0 .. n /\ b <= mid /\ mid + 1 <= m
        /\ mid - b <= d /\ m - (mid + 1) <= d /\ mid \in Nat /\ mid + 1 \in Nat /\ mid <= m /\ b <= mid + 1
    BY <1>0, <2>4
  <2>7. CASE mid - b <= m - (mid + 1)
    <3>1. Split(sort, c) = f2
      BY <1>0, <1>2, <1>4, <2>6, <2>7
    <3>2. Quick(n, T, h, b, mid, f1)
      BY <2>4, <2>6 DEF Shorter
    <3>3. f1 \in Rows(n, T) /\ Perm(n, h, f1, b, mid)
      BY <3>2 DEF Quick
    <3>4. Quick(n, T, f1, mid + 1, m, f2)
      BY <2>6, <3>3 DEF Shorter
    <3>5. b < mid => \E x \in b .. mid - 1 : x < b + THRESH /\ LeastAt(f1, b, mid, x)
      BY <3>2 DEF Quick
    <3> HIDE DEF f1
    <3>6. f2 \in Rows(n, T) /\ Perm(n, f1, f2, mid + 1, m)
      BY <3>4 DEF Quick
    <3> HIDE DEF f2
    <3>7. Perm(n, h, f1, b, m) /\ Perm(n, f1, f2, b, m)
      BY <1>0, <2>6, <3>3, <3>6, PermWider
    <3>8. Perm(n, l, f2, b, m)
      BY <2>5, <3>7, PermTwice
    <3>9. /\ \A z \in 0 .. n - 1 : z \notin b .. mid - 1 => f1[z + 1] = h[z + 1]
          /\ \A z \in b .. mid - 1 : \E j \in b .. mid - 1 : f1[z + 1] = h[j + 1]
      <4>1. Kept(n, h, f1, b, mid)
        BY <1>0, <2>4, <2>6, <3>3, PermKeeps
      <4> QED BY <4>1 DEF Kept
    <3>10. /\ \A z \in 0 .. n - 1 : z \notin mid + 1 .. m - 1 => f2[z + 1] = f1[z + 1]
           /\ \A z \in mid + 1 .. m - 1 : \E j \in mid + 1 .. m - 1 : f2[z + 1] = f1[j + 1]
      <4>1. Kept(n, f1, f2, mid + 1, m)
        BY <1>0, <2>6, <3>3, <3>6, PermKeeps
      <4> QED BY <4>1 DEF Kept
    <3>11. /\ \A z \in b .. mid - 1 : z \in 0 .. n - 1 /\ z \notin mid + 1 .. m - 1
           /\ \A z \in mid + 1 .. m - 1 : z \in 0 .. n - 1 /\ z \notin b .. mid - 1
           /\ mid \in 0 .. n - 1 /\ mid \notin mid + 1 .. m - 1 /\ mid \notin b .. mid - 1
      BY <1>0, <2>6
    <3>12. f2[mid + 1] = h[mid + 1]
      BY <3>9, <3>10, <3>11
    <3>13. \A z \in b .. mid - 1 : f2[z + 1] = f1[z + 1]
      BY <3>10, <3>11
    <3>14. \A z \in b .. mid - 1 : \E j \in b .. mid - 1 : f2[z + 1] = h[j + 1]
      BY <3>9, <3>13
    <3>15. \A z \in mid + 1 .. m - 1 : \E j \in mid + 1 .. m - 1 : f2[z + 1] = h[j + 1]
      BY <3>9, <3>10, <3>11
    <3>16. b < mid => \E x \in b .. mid - 1 : x < b + THRESH /\ LeastAt(f2, b, mid, x)
      BY <3>5, <3>13 DEF LeastAt, At
    <3>17. \E x \in b .. m - 1 : x < b + THRESH /\ LeastAt(f2, b, m, x)
      BY <1>0, <2>2, <2>3, <3>6, <3>12, <3>14, <3>15, <3>16, LeftIsLeast DEF h, mid
    <3> QED BY <3>1, <3>6, <3>8, <3>17 DEF Quick, c
  <2>8. CASE ~(mid - b <= m - (mid + 1))
    <3>1. Split(sort, c) = g2
      BY <1>0, <1>2, <1>4, <2>6, <2>8
    <3>2. Quick(n, T, h, mid + 1, m, g1)
      BY <2>4, <2>6 DEF Shorter
    <3>3. g1 \in Rows(n, T) /\ Perm(n, h, g1, mid + 1, m)
      BY <3>2 DEF Quick
    <3>4. Quick(n, T, g1, b, mid, g2)
      BY <2>6, <3>3 DEF Shorter
    <3> HIDE DEF g1
    <3>5. b < mid => \E x \in b .. mid - 1 : x < b + THRESH /\ LeastAt(g2, b, mid, x)
      BY <3>4 DEF Quick
    <3>6. g2 \in Rows(n, T) /\ Perm(n, g1, g2, b, mid)
      BY <3>4 DEF Quick
    <3> HIDE DEF g2
    <3>7. Perm(n, h, g1, b, m) /\ Perm(n, g1, g2, b, m)
      BY <1>0, <2>6, <3>3, <3>6, PermWider
    <3>8. Perm(n, l, g2, b, m)
      BY <2>5, <3>7, PermTwice
    <3>9. /\ \A z \in 0 .. n - 1 : z \notin mid + 1 .. m - 1 => g1[z + 1] = h[z + 1]
          /\ \A z \in mid + 1 .. m - 1 : \E j \in mid + 1 .. m - 1 : g1[z + 1] = h[j + 1]
      <4>1. Kept(n, h, g1, mid + 1, m)
        BY <1>0, <2>4, <2>6, <3>3, PermKeeps
      <4> QED BY <4>1 DEF Kept
    <3>10. /\ \A z \in 0 .. n - 1 : z \notin b .. mid - 1 => g2[z + 1] = g1[z + 1]
           /\ \A z \in b .. mid - 1 : \E j \in b .. mid - 1 : g2[z + 1] = g1[j + 1]
      <4>1. Kept(n, g1, g2, b, mid)
        BY <1>0, <2>6, <3>3, <3>6, PermKeeps
      <4> QED BY <4>1 DEF Kept
    <3>11. /\ \A z \in b .. mid - 1 : z \in 0 .. n - 1 /\ z \notin mid + 1 .. m - 1
           /\ \A z \in mid + 1 .. m - 1 : z \in 0 .. n - 1 /\ z \notin b .. mid - 1
           /\ mid \in 0 .. n - 1 /\ mid \notin mid + 1 .. m - 1 /\ mid \notin b .. mid - 1
      BY <1>0, <2>6
    <3>12. g2[mid + 1] = h[mid + 1]
      BY <3>9, <3>10, <3>11
    <3>13. \A z \in mid + 1 .. m - 1 : g2[z + 1] = g1[z + 1]
      BY <3>10, <3>11
    <3>14. \A z \in mid + 1 .. m - 1 : \E j \in mid + 1 .. m - 1 : g2[z + 1] = h[j + 1]
      BY <3>9, <3>13
    <3>15. \A z \in b .. mid - 1 : \E j \in b .. mid - 1 : g2[z + 1] = h[j + 1]
      BY <3>9, <3>10, <3>11
    <3>17. \E x \in b .. m - 1 : x < b + THRESH /\ LeastAt(g2, b, m, x)
      BY <1>0, <2>1, <2>2, <2>3, <3>6, <3>12, <3>15, <3>14, <3>5, LeftIsLeast, SMTT(60) DEF h, mid
    <3> QED BY <3>1, <3>6, <3>8, <3>17 DEF Quick, c
  <2> QED BY <2>7, <2>8
<1> QED BY <1>0, <1>3, <1>4

(* The calls of qst by their depth.                                        *)
Depths(f, list, d) ==
  f = [depth \in 0 .. d |-> IF depth = 0 THEN [c \in Calls(list) |-> c.list]
                            ELSE [c \in Calls(list) |-> Split(f[depth - 1], c)]]

(* They are defined.                                                       *)
LEMMA DepthsExist ==
  ASSUME NEW list, NEW n \in Nat
  PROVE  \E f : Depths(f, list, n)
<1> DEFINE P == {k \in 0 .. n : \E f : Depths(f, list, k)}
<1>1. 0 \in P
  <2>1. Depths([i \in 0 .. 0 |-> [c \in Calls(list) |-> c.list]], list, 0)
    BY DEF Depths
  <2> QED BY <2>1
<1>2. ASSUME NEW k \in 0 .. n - 1, k \in P PROVE k + 1 \in P
  <2>1. PICK f : Depths(f, list, k)
    BY <1>2
  <2> DEFINE a == [c \in Calls(list) |-> c.list]
             g(x) == [c \in Calls(list) |-> Split(x, c)]
             h == [i \in 0 .. k + 1 |-> IF i = k + 1 THEN g(f[k]) ELSE f[i]]
             r == [i \in 0 .. k + 1 |-> IF i = 0 THEN a ELSE g(h[i - 1])]
  <2>2. f = [i \in 0 .. k |-> IF i = 0 THEN a ELSE g(f[i - 1])]
    BY <2>1 DEF Depths
  <2> HIDE DEF a, g
  <2>3. ASSUME NEW i \in 0 .. k + 1 PROVE h[i] = r[i]
    <3>1. CASE i = k + 1
      <4>1. h[k] = f[k] /\ k + 1 # 0 /\ (k + 1) - 1 = k
        OBVIOUS
      <4> QED BY <3>1, <4>1
    <3>2. CASE i # k + 1
      <4>1. i \in 0 .. k /\ (i # 0 => i - 1 \in 0 .. k)
        BY <3>2
      <4>2. f[i] = IF i = 0 THEN a ELSE g(f[i - 1])
        BY <2>2, <4>1
      <4>3. i # 0 => h[i - 1] = f[i - 1]
        BY <4>1
      <4> QED BY <3>2, <4>2, <4>3
    <3> QED BY <3>1, <3>2
  <2>4. h = r
    BY <2>3
  <2>5. Depths(h, list, k + 1)
    BY <2>4 DEF Depths, a, g
  <2> HIDE DEF h
  <2> QED BY <2>5
<1> HIDE DEF P
<1>3. n \in P
  BY <1>1, <1>2, RangeInduction
<1> QED BY <1>3 DEF P

(* qst permutes the list so that the least element is among the first.     *)
LEMMA qstSorts ==
  ASSUME NEW n \in Nat, NEW T, Items(T), NEW l \in Rows(n, T), n > 0
  PROVE  Quick(n, T, l, 0, n, qst(l))
<1> DEFINE E == {l[i] : i \in DOMAIN l}
           sort == CHOOSE sort : sort = [depth \in 0 .. n |->
                     IF depth = 0 THEN [c \in Calls(l) |-> c.list]
                     ELSE [c \in Calls(l) |-> Split(sort[depth - 1], c)]]
<1>1. Len(l) = n /\ DOMAIN l = 1 .. n /\ l \in [1 .. n -> T]
  BY RowsAre
<1>2. l \in Rows(n, E) /\ Items(E) /\ E \subseteq T
  BY <1>1, RowsAre DEF Items
<1>3. sort = [depth \in 0 .. n |->
                IF depth = 0 THEN [c \in Calls(l) |-> c.list]
                ELSE [c \in Calls(l) |-> Split(sort[depth - 1], c)]]
  <2>1. \E f : f = [depth \in 0 .. n |->
                     IF depth = 0 THEN [c \in Calls(l) |-> c.list]
                     ELSE [c \in Calls(l) |-> Split(f[depth - 1], c)]]
    <3>1. PICK f : Depths(f, l, n)
      BY DepthsExist
    <3>2. f = [depth \in 0 .. n |->
                 IF depth = 0 THEN [c \in Calls(l) |-> c.list]
                 ELSE [c \in Calls(l) |-> Split(f[depth - 1], c)]]
      BY <3>1 DEF Depths
    <3> QED BY <3>2
  <2> QED BY <2>1
<1>4. qst(l) = sort[n][Call(l, 0, n)]
  BY <1>1 DEF qst
<1>5. \A h \in Rows(n, E), b \in 0 .. n, m \in 0 .. n : Call(h, b, m) \in Calls(l)
  BY <1>1 DEF Call, Calls, Rows
<1> HIDE DEF sort, E
<1> DEFINE P == {d \in 0 .. n : Shorter(n, E, d, sort[d])}
<1>6. 0 \in P
  <2>1. sort[0] = [c \in Calls(l) |-> c.list]
    BY <1>3
  <2>2. ASSUME NEW h \in Rows(n, E), NEW b \in 0 .. n, NEW m \in 0 .. n, b <= m, m - b <= 0
        PROVE  Quick(n, E, h, b, m, sort[0][Call(h, b, m)])
    <3>1. sort[0][Call(h, b, m)] = h
      BY <1>5, <2>1 DEF Call
    <3>2. Perm(n, h, h, b, m) /\ ~(b < m)
      BY <2>2, PermSame
    <3> QED BY <3>1, <3>2 DEF Quick
  <2> QED BY <2>2 DEF Shorter
<1>7. ASSUME NEW d \in 0 .. n - 1, d \in P PROVE d + 1 \in P
  <2>1. d + 1 \in 0 .. n /\ d + 1 # 0 /\ (d + 1) - 1 = d /\ d \in Nat /\ Shorter(n, E, d, sort[d])
    BY <1>7
  <2>2. sort[d + 1] = [c \in Calls(l) |-> Split(sort[d], c)]
    BY <1>3, <2>1
  <2>3. ASSUME NEW h \in Rows(n, E), NEW b \in 0 .. n, NEW m \in 0 .. n, b <= m, m - b <= d + 1
        PROVE  Quick(n, E, h, b, m, sort[d + 1][Call(h, b, m)])
    <3>1. sort[d + 1][Call(h, b, m)] = Split(sort[d], Call(h, b, m))
      BY <1>5, <2>2
    <3> QED BY <1>2, <2>1, <2>3, <3>1, SplitSorts
  <2> QED BY <2>1, <2>3 DEF Shorter
<1> HIDE DEF P
<1>8. n \in P
  BY <1>6, <1>7, RangeInduction
<1>9. Shorter(n, E, n, sort[n])
  BY <1>8 DEF P
<1>10. Quick(n, E, l, 0, n, qst(l))
  BY <1>2, <1>4, <1>9 DEF Shorter
<1>11. Rows(n, E) \subseteq Rows(n, T)
  BY <1>2, RowsAre
<1> QED BY <1>10, <1>11 DEF Quick

-----------------------------------------------------------------------------
(* The insertion sort.  The elements up to k are in order.                 *)
SortedTo(l, k) == \A i \in 0 .. k, j \in 0 .. k : i <= j => At(l, i) <= At(l, j)

(* A least element is one of every permutation.                            *)
LEMMA LeastStays ==
  ASSUME NEW n \in Nat, NEW T, NEW l \in Rows(n, T), NEW k, Perm(n, l, k, 0, n),
         NEW x \in 0 .. n - 1, LeastAt(l, 0, n, x), NEW z \in 0 .. n - 1, At(k, z) = At(l, x)
  PROVE  LeastAt(k, 0, n, z)
<1>1. Kept(n, l, k, 0, n)
  BY PermKeeps
<1>2. ASSUME NEW y \in 0 .. n - 1 PROVE At(k, z) <= At(k, y)
  <2>1. PICK j \in 0 .. n - 1 : k[y + 1] = l[j + 1]
    BY <1>1 DEF Kept
  <2>2. At(k, y) = At(l, j) /\ At(l, x) <= At(l, j)
    BY <2>1 DEF At, LeastAt
  <2> QED BY <2>2
<1> QED BY <1>2 DEF LeastAt

(* The sentinel is the least element of all, if that is among the first.   *)
LEMMA SentinelIsLeast ==
  ASSUME NEW n \in Nat, NEW T, Items(T), NEW l \in Rows(n, T), NEW hi \in 1 .. n,
         NEW x \in 0 .. n - 1, x < hi, LeastAt(l, 0, n, x)
  PROVE  Perm(n, l, Sentinel(l, hi), 0, n) /\ LeastAt(Sentinel(l, hi), 0, n, 0)
<1> DEFINE S == {k \in 0 .. hi - 1 : \A i \in 0 .. hi - 1 : At(l, k) <= At(l, i)}
           a == Min(S)
<1>1. x \in S /\ S \subseteq Nat
  <2>1. \A i \in 0 .. hi - 1 : i \in 0 .. n - 1
    OBVIOUS
  <2> QED BY <2>1 DEF LeastAt
<1>2. a \in S
  <2> HIDE DEF S
  <2> QED BY <1>1, MinIsLeast
<1>3. Sentinel(l, hi) = Swapped(l, 0, a)
  BY DEF Sentinel
<1>4. a \in 0 .. n - 1 /\ 0 \in 0 .. n - 1 /\ At(l, a) <= At(l, x)
  BY <1>1, <1>2
<1> HIDE DEF a
<1>5. Perm(n, l, Swapped(l, 0, a), 0, n) /\ At(Swapped(l, 0, a), 0) = At(l, a)
  BY <1>4, PermSwapped
<1>6. LeastAt(l, 0, n, a)
  <2>1. \A z \in 0 .. n - 1 : At(l, z) \in Int
    BY AtInt
  <2>2. \A z \in 0 .. n - 1 : At(l, a) <= At(l, z)
    <3> TAKE z \in 0 .. n - 1
    <3>1. At(l, x) <= At(l, z)
      BY DEF LeastAt
    <3> QED BY <1>4, <2>1, <3>1
  <2> QED BY <1>4, <2>2 DEF LeastAt
<1> QED BY <1>3, <1>4, <1>5, <1>6, LeastStays

(* An insertion puts one element more in order.                            *)
LEMMA InsertedSorts ==
  ASSUME NEW n \in Nat, NEW T, Items(T), NEW l \in Rows(n, T), NEW k \in 1 .. n - 1,
         LeastAt(l, 0, n, 0), SortedTo(l, k - 1)
  PROVE  /\ Perm(n, l, Inserted(l, k), 0, n)
         /\ LeastAt(Inserted(l, k), 0, n, 0)
         /\ SortedTo(Inserted(l, k), k)
<1> DEFINE S == {i \in 0 .. k - 1 : At(l, i) <= At(l, k)}
           hi == 1 + Max(S)
           r == Inserted(l, k)
           p == [i \in 1 .. n |-> IF i = hi + 1 THEN k + 1
                                  ELSE IF i \in hi + 2 .. k + 1 THEN i - 1 ELSE i]
<1>1. l \in [1 .. n -> T] /\ DOMAIN l = 1 .. n
  BY RowsAre
<1>2. k \in 0 .. n - 1 /\ 0 \in 0 .. n - 1 /\ k \in Nat /\ k - 1 \in Nat
  OBVIOUS
<1>3. S \subseteq 0 .. n /\ 0 \in S
  BY <1>2 DEF LeastAt
<1>4. Max(S) \in S /\ \A i \in S : i <= Max(S)
  <2> HIDE DEF S
  <2> QED BY <1>3, MaxIsMost
<1>5. hi \in 1 .. k /\ At(l, hi - 1) <= At(l, k)
  BY <1>4
<1>6. \A x \in 0 .. n - 1 : At(l, x) \in Int
  BY AtInt
<1>7. ASSUME NEW i \in hi .. k - 1 PROVE At(l, k) <= At(l, i)
  <2>1. i \in 0 .. k - 1 /\ ~(i <= Max(S)) /\ i \in 0 .. n - 1
    BY <1>4, <1>5
  <2>2. ~(At(l, i) <= At(l, k))
    BY <1>4, <2>1
  <2> QED BY <1>2, <1>6, <2>1, <2>2
<1>8. r = [i \in 1 .. n |-> CASE i = hi + 1 -> l[k + 1]
                              [] i \in hi + 2 .. k + 1 -> l[i - 1]
                              [] OTHER -> l[i]]
  BY <1>1 DEF Inserted
<1> HIDE DEF hi, r
<1>9. hi \in Nat /\ hi >= 1 /\ hi <= k
  BY <1>5
<1>10. /\ \A i \in 1 .. n : i = hi + 1 => p[i] = k + 1
       /\ \A i \in 1 .. n : i \in hi + 2 .. k + 1 => p[i] = i - 1
       /\ \A i \in 1 .. n : i < hi + 1 \/ i > k + 1 => p[i] = i
       /\ \A i \in 1 .. n : i = hi + 1 \/ i \in hi + 2 .. k + 1 \/ i < hi + 1 \/ i > k + 1
  BY <1>2, <1>9
<1>11. r = [i \in 1 .. n |-> l[p[i]]]
  <2>1. \A i \in 1 .. n : r[i] = l[p[i]]
    BY <1>2, <1>8, <1>9
  <2> QED BY <1>8, <2>1
<1> HIDE DEF p
<1>12. \A i \in 1 .. n : p[i] \in 1 .. n
  BY <1>2, <1>9, <1>10
<1>13. \A i, j \in 1 .. n : p[i] = p[j] => i = j
  BY <1>2, <1>9, <1>10
<1>14. ASSUME NEW i \in 1 .. n PROVE \E j \in 1 .. n : p[j] = i
  <2>1. CASE i = k + 1
    <3>1. hi + 1 \in 1 .. n
      BY <1>2, <1>9
    <3> QED BY <2>1, <3>1, <1>10
  <2>2. CASE i \in hi + 1 .. k
    <3>1. i + 1 \in 1 .. n /\ i + 1 \in hi + 2 .. k + 1 /\ (i + 1) - 1 = i
      BY <1>2, <1>9, <2>2
    <3> QED BY <3>1, <1>10
  <2>3. CASE i < hi + 1 \/ i > k + 1
    BY <2>3, <1>10
  <2>4. i = k + 1 \/ i \in hi + 1 .. k \/ i < hi + 1 \/ i > k + 1
    BY <1>2, <1>9
  <2> QED BY <2>1, <2>2, <2>3, <2>4
<1>15. p \in Moves(n, 0, n)
  <2>1. p \in [1 .. n -> 1 .. n]
    BY <1>12 DEF p
  <2> QED BY <2>1, <1>13, <1>14 DEF Moves
<1>16. Perm(n, l, r, 0, n)
  BY <1>11, <1>15 DEF Perm
<1>17. /\ \A x \in 0 .. n - 1 : x < hi => At(r, x) = At(l, x)
       /\ At(r, hi) = At(l, k)
       /\ \A x \in 0 .. n - 1 : x \in hi + 1 .. k => At(r, x) = At(l, x - 1)
  <2>1. ASSUME NEW x \in 0 .. n - 1, x < hi PROVE At(r, x) = At(l, x)
    <3>1. x + 1 \in 1 .. n /\ x + 1 < hi + 1
      BY <1>9, <2>1
    <3> QED BY <3>1, <1>10, <1>11 DEF At
  <2>2. At(r, hi) = At(l, k)
    <3>1. hi + 1 \in 1 .. n
      BY <1>2, <1>9
    <3> QED BY <3>1, <1>10, <1>11 DEF At
  <2>3. ASSUME NEW x \in 0 .. n - 1, x \in hi + 1 .. k PROVE At(r, x) = At(l, x - 1)
    <3>1. x + 1 \in 1 .. n /\ x + 1 \in hi + 2 .. k + 1 /\ (x + 1) - 1 = (x - 1) + 1
      BY <1>2, <1>9, <2>3
    <3> QED BY <3>1, <1>10, <1>11 DEF At
  <2> QED BY <2>1, <2>2, <2>3
<1>18. LeastAt(r, 0, n, 0)
  BY <1>2, <1>9, <1>16, <1>17, LeastStays
<1>19. \A i \in 0 .. k - 1, j \in 0 .. k - 1 : i <= j => At(l, i) <= At(l, j)
  BY DEF SortedTo
<1>20. ASSUME NEW i \in 0 .. k, NEW j \in 0 .. k, i <= j PROVE At(r, i) <= At(r, j)
  <2>0. i \in 0 .. n - 1 /\ j \in 0 .. n - 1
    BY <1>2
  <2>1. CASE j < hi
    <3>1. i < hi /\ i \in 0 .. k - 1 /\ j \in 0 .. k - 1
      BY <1>2, <1>9, <1>20, <2>1
    <3> QED BY <2>0, <2>1, <3>1, <1>17, <1>19, <1>20
  <2>2. CASE j = hi /\ i < hi
    <3>1. i \in 0 .. k - 1 /\ hi - 1 \in 0 .. k - 1 /\ i <= hi - 1 /\ hi - 1 \in 0 .. n - 1
      BY <1>2, <1>9, <2>2
    <3>2. At(l, i) <= At(l, hi - 1) /\ At(l, hi - 1) <= At(l, k)
      BY <3>1, <1>5, <1>19
    <3> QED BY <2>0, <2>2, <3>1, <3>2, <1>2, <1>6, <1>17
  <2>3. CASE j = i
    <3>1. At(r, i) \in Int
      <4>1. r \in Rows(n, T)
        BY <1>16, PermKeeps
      <4> QED BY <2>0, <4>1, AtInt
    <3> QED BY <2>3, <3>1
  <2>4. CASE j > hi /\ i < hi
    <3>1. i \in 0 .. k - 1 /\ j - 1 \in 0 .. k - 1 /\ i <= j - 1 /\ j \in hi + 1 .. k
      BY <1>2, <1>9, <2>4
    <3> QED BY <2>0, <2>4, <3>1, <1>17, <1>19
  <2>5. CASE j > hi /\ i = hi
    <3>1. j - 1 \in hi .. k - 1 /\ j \in hi + 1 .. k
      BY <1>2, <1>9, <2>5
    <3> QED BY <2>0, <2>5, <3>1, <1>7, <1>17
  <2>6. CASE j > hi /\ i > hi
    <3>1. i - 1 \in 0 .. k - 1 /\ j - 1 \in 0 .. k - 1 /\ i - 1 <= j - 1
          /\ j \in hi + 1 .. k /\ i \in hi + 1 .. k
      BY <1>2, <1>9, <1>20, <2>6
    <3> QED BY <2>0, <3>1, <1>17, <1>19
  <2> QED BY <1>9, <1>20, <2>1, <2>2, <2>3, <2>4, <2>5, <2>6
<1> QED BY <1>16, <1>18, <1>20 DEF SortedTo, r

(* r has the elements of l, in order.                                      *)
Sorted(n, T, l, r) == r \in Rows(n, T) /\ Perm(n, l, r, 0, n) /\ SortedTo(r, n - 1)

(* The sort sorts.                                                         *)
LEMMA HQSortSorts ==
  ASSUME NEW n \in Nat, NEW T, Items(T), NEW l \in Rows(n, T)
  PROVE  Sorted(n, T, l, HQSort(l))
<1>0. Len(l) = n /\ THRESH \in Nat /\ THRESH > 1
  BY RowsAre, ListsAssumption
<1>1. CASE n <= 1
  <2>1. HQSort(l) = l
    BY <1>0, <1>1 DEF HQSort
  <2>2. \A i \in 0 .. n - 1, j \in 0 .. n - 1 : i = j /\ At(l, i) \in Int
    <3>1. \A i \in 0 .. n - 1 : i = 0 /\ i \in 0 .. n - 1
      BY <1>1
    <3> QED BY <3>1, AtInt
  <2>3. SortedTo(l, n - 1)
    BY <2>2 DEF SortedTo
  <2> QED BY <2>1, <2>3, PermSame DEF Sorted
<1>2. CASE n > 1
  <2> DEFINE N == n - 1
             first == Sentinel(IF n >= THRESH THEN qst(l) ELSE l, IF n >= THRESH THEN THRESH ELSE n)
             turn == CHOOSE turn : turn = [k \in 0 .. N |-> IF k = 0 THEN first
                                                            ELSE Inserted(turn[k - 1], k)]
             S == [k \in 0 .. N |-> {h \in Rows(n, T) : /\ Perm(n, l, h, 0, n)
                                                        /\ LeastAt(h, 0, n, 0)
                                                        /\ SortedTo(h, k)}]
             G == [k \in 1 .. N |-> [h \in S[k - 1] |-> Inserted(h, k)]]
  <2>1. N \in Nat /\ HQSort(l) = turn[N]
    BY <1>0, <1>2 DEF HQSort
  <2>2. first \in S[0]
    <3> DEFINE q == IF n >= THRESH THEN qst(l) ELSE l
               hi == IF n >= THRESH THEN THRESH ELSE n
    <3>1. hi \in 1 .. n
      BY <1>0, <1>2
    <3>2. q \in Rows(n, T) /\ Perm(n, l, q, 0, n)
      BY <1>2, PermSame, qstSorts DEF Quick
    <3>3. \E x \in 0 .. n - 1 : x < hi /\ LeastAt(q, 0, n, x)
      <4>1. CASE n >= THRESH
        BY <1>0, <1>2, <4>1, qstSorts DEF Quick
      <4>2. CASE ~(n >= THRESH)
        <5>1. \E x \in 0 .. n - 1 : LeastAt(l, 0, n, x)
          BY <1>2, LeastIs
        <5> QED BY <4>2, <5>1
      <4> QED BY <4>1, <4>2
    <3>4. first = Sentinel(q, hi)
      OBVIOUS
    <3> HIDE DEF q, hi, first
    <3>5. Perm(n, q, first, 0, n) /\ LeastAt(first, 0, n, 0)
      BY <3>1, <3>2, <3>3, <3>4, SentinelIsLeast
    <3>6. Perm(n, l, first, 0, n)
      BY <3>2, <3>5, PermTwice
    <3>7. first \in Rows(n, T)
      BY <3>6, PermKeeps
    <3>8. SortedTo(first, 0)
      BY <1>2, <3>5 DEF SortedTo, LeastAt
    <3> QED BY <2>1, <3>5, <3>6, <3>7, <3>8
  <2>3. ASSUME NEW k \in 1 .. N, NEW h \in S[k - 1] PROVE Inserted(h, k) \in S[k]
    <3>1. k - 1 \in 0 .. N /\ k \in 0 .. N /\ k \in 1 .. n - 1
      OBVIOUS
    <3>2. h \in Rows(n, T) /\ Perm(n, l, h, 0, n) /\ LeastAt(h, 0, n, 0) /\ SortedTo(h, k - 1)
      BY <3>1
    <3> DEFINE r == Inserted(h, k)
    <3>3. Perm(n, h, r, 0, n) /\ LeastAt(r, 0, n, 0) /\ SortedTo(r, k)
      BY <3>1, <3>2, InsertedSorts
    <3> HIDE DEF r
    <3>4. Perm(n, l, r, 0, n)
      BY <3>2, <3>3, PermTwice
    <3>5. r \in Rows(n, T)
      BY <3>4, PermKeeps
    <3>6. r \in S[k]
      BY <3>1, <3>3, <3>4, <3>5
    <3> QED BY <3>6 DEF r
  <2> HIDE DEF S, first
  <2>4. PICK f : Turning(f, N, first, G)
    BY <2>1, TurnsExist
  <2>5. \A k \in 1 .. N : \A h \in S[k - 1] : G[k][h] = Inserted(h, k) /\ G[k][h] \in S[k]
    BY <2>3
  <2> HIDE DEF G
  <2>6. \A k \in 0 .. N : f[k] \in S[k]
    BY <2>1, <2>2, <2>4, <2>5, TurnsIn
  <2>7. f = [k \in 0 .. N |-> IF k = 0 THEN first ELSE Inserted(f[k - 1], k)]
    <3>1. \A k \in 0 .. N : k # 0 => k \in 1 .. N /\ k - 1 \in 0 .. N
      BY <2>1
    <3>2. \A k \in 0 .. N : k # 0 => G[k][f[k - 1]] = Inserted(f[k - 1], k)
      BY <2>5, <2>6, <3>1
    <3> QED BY <2>4, <3>2 DEF Turning
  <2>8. turn = [k \in 0 .. N |-> IF k = 0 THEN first ELSE Inserted(turn[k - 1], k)]
    BY <2>7
  <2> HIDE DEF turn
  <2> DEFINE P == {k \in 0 .. N : turn[k] \in S[k]}
  <2>9. 0 \in P
    BY <2>1, <2>2, <2>8
  <2>10. ASSUME NEW k \in 0 .. N - 1, k \in P PROVE k + 1 \in P
    <3>1. k + 1 \in 1 .. N /\ k + 1 \in 0 .. N /\ k + 1 # 0 /\ (k + 1) - 1 = k /\ turn[k] \in S[k]
      BY <2>1, <2>10
    <3>2. turn[k + 1] = Inserted(turn[k], k + 1)
      BY <2>8, <3>1
    <3>3. Inserted(turn[k], k + 1) \in S[k + 1]
      BY <2>3, <3>1
    <3> QED BY <3>1, <3>2, <3>3
  <2> HIDE DEF P
  <2>11. N \in P
    BY <2>1, <2>9, <2>10, RangeInduction
  <2>12. turn[N] \in S[N] /\ N \in 0 .. N
    BY <2>1, <2>11 DEF P
  <2>13. turn[N] \in Rows(n, T) /\ Perm(n, l, turn[N], 0, n) /\ SortedTo(turn[N], N)
    BY <2>12 DEF S
  <2> QED BY <2>1, <2>13 DEF Sorted
<1> QED BY <1>1, <1>2

-----------------------------------------------------------------------------
(* The search.  What is looked for stays in the range that is halved.      *)
LEMMA HalvedHolds ==
  ASSUME NEW n \in Nat, NEW T, Items(T), NEW l \in Rows(n, T), n > 0,
         NEW key \in Int
  PROVE  /\ Halved(l, key).start \in 0 .. n - 1 /\ Halved(l, key).end \in 1 .. n
         /\ Halved(l, key).start < Halved(l, key).end
         /\ Halved(l, key).start = 0 \/ At(l, Halved(l, key).start) < key
         /\ Halved(l, key).end = n \/ key < At(l, Halved(l, key).end)
         /\ SortedTo(l, n - 1) => \A i \in 0 .. n - 1 : At(l, i) = key =>
              i \in Halved(l, key).start .. Halved(l, key).end - 1
<1> DEFINE a == [start |-> 0, end |-> n]
           R == [start : 0 .. n, end : 0 .. n]
           Holds == {r \in R : /\ r.start < r.end
                               /\ r.start = 0 \/ At(l, r.start) < key
                               /\ r.end = n \/ key < At(l, r.end)
                               /\ SortedTo(l, n - 1) =>
                                    \A i \in 0 .. n - 1 : At(l, i) = key =>
                                                          i \in r.start .. r.end - 1}
           turn == CHOOSE turn : turn = [k \in 0 .. n |-> IF k = 0 THEN a
                                                         ELSE Half(l, key)[turn[k - 1]]]
<1>0. Len(l) = n /\ Linear \in Nat /\ Linear > 1
  BY RowsAre, ListsAssumption
<1>1. Halved(l, key) = turn[n]
  BY <1>0 DEF Halved
<1>2. a \in Holds
  OBVIOUS
<1>3. ASSUME NEW r \in Holds PROVE Half(l, key)[r] \in Holds
  <2> DEFINE m == Iter(r)
  <2>1. r \in R /\ r.start \in 0 .. n /\ r.end \in 0 .. n /\ r.start < r.end
        /\ r = [start |-> r.start, end |-> r.end]
    OBVIOUS
  <2>2. m = r.start + ((r.end - r.start) \div 2)
    BY DEF Iter
  <2> HIDE DEF m
  <2>3. m \in r.start .. r.end - 1 /\ m \in 0 .. n - 1 /\ (r.end - r.start > 1 => r.start < m)
    BY <2>1, <2>2
  <2>4. Half(l, key)[r] = IF At(l, m) = key \/ r.end - r.start < Linear THEN r
                          ELSE IF key > At(l, m) THEN [start |-> m, end |-> r.end]
                          ELSE [start |-> r.start, end |-> m]
    BY <1>0, <2>1 DEF Half, m
  <2>5. At(l, m) \in Int
    BY <2>3, AtInt
  <2>6. SortedTo(l, n - 1) => \A i \in 0 .. n - 1, j \in 0 .. n - 1 : i <= j => At(l, i) <= At(l, j)
    BY DEF SortedTo
  <2>7. /\ SortedTo(l, n - 1) => \A i \in 0 .. n - 1 : At(l, i) = key => i \in r.start .. r.end - 1
        /\ r.start = 0 \/ At(l, r.start) < key
        /\ r.end = n \/ key < At(l, r.end)
    OBVIOUS
  <2> HIDE DEF Holds
  <2>8. CASE At(l, m) = key \/ r.end - r.start < Linear
    BY <2>4, <2>8
  <2>9. CASE ~(At(l, m) = key \/ r.end - r.start < Linear) /\ key > At(l, m)
    <3>1. ASSUME SortedTo(l, n - 1), NEW i \in 0 .. n - 1, At(l, i) = key
          PROVE  i \in m .. r.end - 1
      <4>1. ~(i <= m)
        BY <2>3, <2>5, <2>6, <2>9, <3>1
      <4> QED BY <2>1, <2>3, <2>7, <3>1, <4>1
    <3>2. At(l, m) < key
      BY <2>5, <2>9
    <3> QED BY <2>1, <2>3, <2>4, <2>7, <2>9, <3>1, <3>2 DEF Holds
  <2>10. CASE ~(At(l, m) = key \/ r.end - r.start < Linear) /\ ~(key > At(l, m))
    <3>1. ASSUME SortedTo(l, n - 1), NEW i \in 0 .. n - 1, At(l, i) = key
          PROVE  i \in r.start .. m - 1
      <4>1. ~(m <= i)
        BY <2>3, <2>5, <2>6, <2>10, <3>1
      <4> QED BY <2>1, <2>3, <2>7, <3>1, <4>1
    <3>2. r.start < m
      BY <1>0, <2>1, <2>3, <2>10
    <3>3. key < At(l, m)
      BY <2>5, <2>10
    <3> QED BY <2>1, <2>3, <2>4, <2>7, <2>10, <3>1, <3>2, <3>3 DEF Holds
  <2> QED BY <2>8, <2>9, <2>10
<1> HIDE DEF Holds, a
<1> DEFINE G == [k \in 1 .. n |-> Half(l, key)]
           S == [k \in 0 .. n |-> Holds]
<1>4. PICK f : Turning(f, n, a, G)
  BY TurnsExist
<1>5. f = [k \in 0 .. n |-> IF k = 0 THEN a ELSE Half(l, key)[f[k - 1]]]
  BY <1>4 DEF Turning
<1>6. turn = [k \in 0 .. n |-> IF k = 0 THEN a ELSE Half(l, key)[turn[k - 1]]]
  BY <1>5
<1> HIDE DEF turn
<1>7. Turning(turn, n, a, G)
  BY <1>6 DEF Turning
<1>8. a \in S[0] /\ \A i \in 1 .. n : \A s \in S[i - 1] : G[i][s] \in S[i]
  BY <1>2, <1>3
<1> HIDE DEF G
<1>9. turn[n] \in S[n]
  <2> HIDE DEF S
  <2> QED BY <1>7, <1>8, TurnsIn
<1>10. Halved(l, key) \in Holds
  BY <1>1, <1>9
<1> QED BY <1>10 DEF Holds

(* A search finds an element it was asked for or none, and one that is     *)
(* there if the list is sorted.                                            *)
LEMMA HLFindFinds ==
  ASSUME NEW n \in Nat, NEW T, Items(T), NEW l \in Rows(n, T), n > 0,
         NEW key \in Int
  PROVE  /\ HLFind(l, key) = NotFound
            \/ (HLFind(l, key) \in 0 .. n - 1 /\ At(l, HLFind(l, key)) = key)
         /\ SortedTo(l, n - 1) /\ (\E i \in 0 .. n - 1 : At(l, i) = key) =>
              HLFind(l, key) # NotFound
<1> DEFINE r == Halved(l, key)
           m == Iter(r)
           hits == {i \in r.start .. r.end - 1 : At(l, i) = key}
<1>1. /\ r.start \in 0 .. n - 1 /\ r.end \in 1 .. n /\ r.start < r.end
      /\ SortedTo(l, n - 1) => \A i \in 0 .. n - 1 : At(l, i) = key => i \in r.start .. r.end - 1
  BY HalvedHolds
<1>2. HLFind(l, key) = IF At(l, m) = key THEN m ELSE IF hits = {} THEN NotFound ELSE Min(hits)
  BY DEF HLFind
<1> HIDE DEF r
<1>3. m \in 0 .. n - 1
  BY <1>1 DEF Iter
<1> HIDE DEF m
<1>4. hits \subseteq Nat /\ hits \subseteq 0 .. n - 1
  BY <1>1
<1>5. /\ \A i \in hits : At(l, i) = key
      /\ SortedTo(l, n - 1) => \A i \in 0 .. n - 1 : At(l, i) = key => i \in hits
  BY <1>1
<1> HIDE DEF hits
<1>6. hits # {} => Min(hits) \in hits
  BY <1>4, MinIsLeast
<1> DEFINE f == HLFind(l, key)
<1> SUFFICES /\ f = NotFound \/ (f \in 0 .. n - 1 /\ At(l, f) = key)
             /\ SortedTo(l, n - 1) /\ (\E i \in 0 .. n - 1 : At(l, i) = key) => f # NotFound
  OBVIOUS
<1> HIDE DEF f
<1>7. CASE At(l, m) = key
  <2>1. f = m /\ f # NotFound
    BY <1>2, <1>3, <1>7 DEF f, NotFound
  <2> QED BY <1>3, <1>7, <2>1
<1>8. CASE At(l, m) # key /\ hits = {}
  <2>1. f = NotFound
    BY <1>2, <1>8 DEF f
  <2>2. ASSUME SortedTo(l, n - 1), NEW i \in 0 .. n - 1, At(l, i) = key PROVE FALSE
    BY <1>5, <1>8, <2>2
  <2> QED BY <2>1, <2>2
<1>9. CASE At(l, m) # key /\ hits # {}
  <2>1. f = Min(hits)
    BY <1>2, <1>9 DEF f
  <2>2. f \in hits
    BY <1>6, <1>9, <2>1
  <2>3. f \in 0 .. n - 1 /\ At(l, f) = key
    BY <1>4, <1>5, <2>2
  <2>4. f # NotFound
    BY <2>3 DEF NotFound
  <2> QED BY <2>3, <2>4
<1> QED BY <1>7, <1>8, <1>9

(* The nearest element: one of the key, if there is one, else the last one *)
(* before it, or the first.  Of two first ones it is the second.           *)
Near(l, n, key, f) ==
  /\ f \in 0 .. n - 1
  /\ \/ At(l, f) = key
     \/ At(l, f) < key /\ \A k \in f + 1 .. n - 1 : key < At(l, k)
     \/ f = 0 /\ key < At(l, 0)
  /\ (\E k \in 0 .. n - 1 : At(l, k) = key) => At(l, f) = key
  /\ n > 1 /\ At(l, 0) = key /\ At(l, 1) = key => f > 0

(* It is what the search for it gives.                                     *)
LEMMA NearestIs ==
  ASSUME NEW n \in Nat, NEW T, Items(T), NEW l \in Rows(n, T), n > 0,
         NEW key \in Int, SortedTo(l, n - 1), NEW f, f = HLFindNearest(l, key)
  PROVE  Near(l, n, key, f)
<1> DEFINE r == Halved(l, key)
           m == Iter(r)
           hits == {i \in r.start .. r.end - 1 : At(l, i) <= key /\ (i < n - 1 => key < At(l, i + 1))}
<1>0. Len(l) = n
  BY RowsAre
<1>1. /\ r.start \in 0 .. n - 1 /\ r.end \in 1 .. n /\ r.start < r.end
      /\ (r.start = 0 \/ At(l, r.start) < key)
      /\ (r.end = n \/ key < At(l, r.end))
  BY HalvedHolds
<1>2. f = CASE At(l, m) = key -> m
            [] At(l, m) # key /\ hits # {} -> Min(hits)
            [] OTHER -> IF key < At(l, r.end - 1)
                        THEN (IF r.start > 0 THEN r.start - 1 ELSE 0)
                        ELSE (IF r.end = n THEN n - 1 ELSE r.end)
  BY <1>0 DEF HLFindNearest
<1>3. m = r.start + ((r.end - r.start) \div 2)
  BY DEF Iter
<1> HIDE DEF r, m
<1>4. m \in r.start .. r.end - 1 /\ m \in 0 .. n - 1
      /\ (r.end - r.start > 1 => r.start < m)
  BY <1>1, <1>3
<1>5. \A i \in 0 .. n - 1 : At(l, i) \in Int
  BY AtInt
<1>6. \A i \in 0 .. n - 1, j \in 0 .. n - 1 : i <= j => At(l, i) <= At(l, j)
  BY DEF SortedTo
<1>7. hits \subseteq Nat /\ hits \subseteq 0 .. n - 1
  BY <1>1
<1>8. \A i \in hits : At(l, i) <= key /\ (i < n - 1 => key < At(l, i + 1))
  OBVIOUS
<1>9. \A i \in r.start .. r.end - 1 :
         At(l, i) <= key /\ (i < n - 1 => key < At(l, i + 1)) => i \in hits
  OBVIOUS
<1> HIDE DEF hits
<1>10. hits # {} => Min(hits) \in hits
  BY <1>7, MinIsLeast
<1>11. n > 1 /\ At(l, 0) = key /\ At(l, 1) = key => r.start = 0 /\ r.end > 1
  <2>1. ASSUME n > 1, At(l, 0) = key, At(l, 1) = key PROVE r.start = 0
    <3>1. At(l, 0) <= At(l, r.start) /\ At(l, r.start) \in Int
      BY <1>1, <1>5, <1>6
    <3> QED BY <1>1, <2>1, <3>1
  <2>2. ASSUME n > 1, At(l, 0) = key, At(l, 1) = key PROVE r.end > 1
    <3>1. ~(key < At(l, 1))
      BY <2>2
    <3> QED BY <1>1, <2>2, <3>1
  <2> QED BY <2>1, <2>2
<1>12. CASE At(l, m) = key
  <2>1. f = m
    BY <1>2, <1>12
  <2>2. n > 1 /\ At(l, 0) = key /\ At(l, 1) = key => m > 0
    BY <1>1, <1>4, <1>11
  <2> QED BY <1>4, <1>12, <2>1, <2>2 DEF Near
<1>13. CASE At(l, m) # key /\ hits # {}
  <2>1. f = Min(hits)
    BY <1>2, <1>13
  <2>2. f \in hits /\ f \in 0 .. n - 1
    BY <1>7, <1>10, <1>13, <2>1
  <2>3. At(l, f) <= key /\ (f < n - 1 => key < At(l, f + 1))
    BY <1>8, <2>2
  <2>4. \A k \in f + 1 .. n - 1 : key < At(l, k)
    <3>1. ASSUME NEW k \in f + 1 .. n - 1 PROVE key < At(l, k)
      <4>1. f + 1 \in 0 .. n - 1 /\ k \in 0 .. n - 1 /\ f < n - 1
        BY <2>2
      <4>2. At(l, f + 1) <= At(l, k) /\ At(l, f + 1) \in Int /\ At(l, k) \in Int
        BY <1>5, <1>6, <4>1
      <4> QED BY <2>3, <4>1, <4>2
    <3> QED BY <3>1
  <2>5. ASSUME NEW k \in 0 .. n - 1, At(l, k) = key PROVE At(l, f) = key /\ k <= f
    <3>1. k <= f
      BY <2>2, <2>4, <2>5
    <3>2. At(l, k) <= At(l, f) /\ At(l, f) \in Int
      BY <1>5, <1>6, <2>2, <3>1
    <3> QED BY <2>3, <2>5, <3>1, <3>2
  <2>6. n > 1 /\ At(l, 0) = key /\ At(l, 1) = key => f > 0
    BY <2>2, <2>5
  <2>7. At(l, f) = key \/ At(l, f) < key
    BY <1>5, <2>2, <2>3
  <2> QED BY <2>2, <2>4, <2>5, <2>6, <2>7 DEF Near
<1>14. CASE At(l, m) # key /\ hits = {}
  <2>1. f = IF key < At(l, r.end - 1)
            THEN (IF r.start > 0 THEN r.start - 1 ELSE 0)
            ELSE (IF r.end = n THEN n - 1 ELSE r.end)
    BY <1>2, <1>14
  <2>2. ASSUME At(l, r.start) <= key PROVE FALSE
    <3> DEFINE P == {i \in r.start .. r.end - 1 : At(l, i) <= key}
               i == Max(P)
    <3>1. r.start \in P /\ P \subseteq 0 .. n
      BY <1>1, <2>2
    <3>2. P # {} /\ \A k \in P : k \in r.start .. r.end - 1 /\ At(l, k) <= key
      BY <3>1
    <3>3. \A k \in r.start .. r.end - 1 : At(l, k) <= key => k \in P
      OBVIOUS
    <3> HIDE DEF P
    <3>4. i \in P /\ \A k \in P : k <= i
      BY <3>1, <3>2, MaxIsMost
    <3>5. i \in r.start .. r.end - 1 /\ At(l, i) <= key
      BY <3>2, <3>4
    <3>6. ASSUME i < n - 1 PROVE key < At(l, i + 1)
      <4>1. CASE i + 1 <= r.end - 1
        <5>1. i + 1 \in r.start .. r.end - 1 /\ i + 1 \in 0 .. n - 1
          BY <1>1, <3>5, <4>1
        <5>2. i + 1 \notin P
          BY <1>1, <3>4, <3>5
        <5> QED BY <1>5, <3>3, <5>1, <5>2
      <4>2. CASE i + 1 > r.end - 1
        <5>1. i + 1 = r.end /\ r.end # n
          BY <1>1, <3>5, <3>6, <4>2
        <5> QED BY <1>1, <5>1
      <4> QED BY <1>1, <3>5, <4>1, <4>2
    <3>7. i \in hits
      BY <1>9, <3>5, <3>6
    <3> QED BY <1>14, <3>7
  <2>3. key < At(l, r.start) /\ r.start = 0
    BY <1>1, <1>5, <2>2
  <2>4. \A k \in 0 .. n - 1 : key < At(l, k)
    BY <1>1, <1>5, <1>6, <2>3
  <2>5. f = 0
    BY <1>1, <2>1, <2>3, <2>4
  <2>6. 0 \in 0 .. n - 1 /\ \A k \in 0 .. n - 1 : At(l, k) # key
    BY <1>5, <2>4
  <2> QED BY <2>4, <2>5, <2>6 DEF Near
<1> QED BY <1>12, <1>13, <1>14

-----------------------------------------------------------------------------
(* The items of a list.                                                    *)
LEMMA ItemsAre == Items(Item) /\ Items([at : Offsets]) /\ Offsets \subseteq Nat
BY NamesAssumption DEF Items, Item, Offsets

(* No two items of one offset.                                             *)
Distinct(l) == \A i, j \in 1 .. Len(l) : l[i].at = l[j].at => i = j

(* The items name what g names.                                            *)
Says(l, g) ==
  /\ \A i \in 1 .. Len(l) : g[l[i].at] = l[i].name
  /\ \A o \in Offsets : g[o] # NoName => \E i \in 1 .. Len(l) : l[i].at = o

(* Two lists of the same items, in another order.                          *)
Same(l, r) ==
  /\ Len(l) = Len(r)
  /\ \A i \in 1 .. Len(r) : \E j \in 1 .. Len(l) : r[i] = l[j]
  /\ \A j \in 1 .. Len(l) : \E i \in 1 .. Len(r) : r[i] = l[j]
  /\ Distinct(l) => Distinct(r)

(* They name the same.                                                     *)
LEMMA SameSays ==
  ASSUME NEW l, NEW r, NEW g, Same(l, r), Says(l, g)
  PROVE  Says(r, g)
<1>1. ASSUME NEW i \in 1 .. Len(r) PROVE g[r[i].at] = r[i].name
  <2>1. PICK j \in 1 .. Len(l) : r[i] = l[j]
    BY DEF Same
  <2> QED BY <2>1 DEF Says
<1>2. ASSUME NEW o \in Offsets, g[o] # NoName PROVE \E i \in 1 .. Len(r) : r[i].at = o
  <2>1. PICK j \in 1 .. Len(l) : l[j].at = o
    BY <1>2 DEF Says
  <2>2. PICK i \in 1 .. Len(r) : r[i] = l[j]
    BY DEF Same
  <2> QED BY <2>1, <2>2
<1> QED BY <1>1, <1>2 DEF Says

(* A sorted list has the items it had.                                     *)
LEMMA SortedSame ==
  ASSUME NEW T, Items(T), NEW l \in Seq(T)
  PROVE  /\ HQSort(l) \in Seq(T) /\ Same(l, HQSort(l))
         /\ SortedTo(HQSort(l), Len(HQSort(l)) - 1)
<1> DEFINE n == Len(l)
           r == HQSort(l)
<1>1. n \in Nat /\ l \in Rows(n, T)
  BY DEF Rows
<1>2. r \in Rows(n, T) /\ Perm(n, l, r, 0, n) /\ SortedTo(r, n - 1)
  BY <1>1, HQSortSorts DEF Sorted
<1> HIDE DEF r
<1>3. r \in Seq(T) /\ Len(r) = n /\ DOMAIN r = 1 .. n /\ DOMAIN l = 1 .. n
  BY <1>1, <1>2, RowsAre
<1> HIDE DEF n
<1>4. PICK p \in Moves(n, 0, n) : r = [i \in 1 .. n |-> l[p[i]]]
  BY <1>2 DEF Perm
<1>5. /\ p \in [1 .. n -> 1 .. n]
      /\ \A i, j \in 1 .. n : p[i] = p[j] => i = j
      /\ \A i \in 1 .. n : \E j \in 1 .. n : p[j] = i
  BY DEF Moves
<1>6. \A i \in 1 .. n : r[i] = l[p[i]] /\ p[i] \in 1 .. n
  BY <1>4, <1>5
<1>7. ASSUME NEW j \in 1 .. n PROVE \E i \in 1 .. n : r[i] = l[j]
  <2>1. PICK i \in 1 .. n : p[i] = j
    BY <1>5
  <2>2. r[i] = l[j]
    BY <1>6, <2>1
  <2> QED BY <2>2
<1>8. Len(l) = n
  BY DEF n
<1>9. ASSUME Distinct(l) PROVE Distinct(r)
  <2>1. \A i, j \in 1 .. n : l[i].at = l[j].at => i = j
    BY <1>8, <1>9 DEF Distinct
  <2>2. ASSUME NEW i \in 1 .. n, NEW j \in 1 .. n, r[i].at = r[j].at PROVE i = j
    <3>1. l[p[i]].at = l[p[j]].at /\ p[i] \in 1 .. n /\ p[j] \in 1 .. n
      BY <1>6, <2>2
    <3>2. p[i] = p[j]
      BY <2>1, <3>1
    <3> QED BY <1>5, <3>2
  <2> QED BY <1>3, <2>2 DEF Distinct
<1> QED BY <1>2, <1>3, <1>6, <1>7, <1>8, <1>9 DEF Same, r

-----------------------------------------------------------------------------
(* The arrays of the user's names.                                         *)
LA == [items : Seq(Item), nSize : Int]

(* No list at all and an empty one have no items.                          *)
LEMMA Arrays == NULL \in LA /\ la_Build \in LA /\ NULL.items = <<>> /\ la_Build.items = <<>>
BY DEF LA, NULL, la_Build

(* What is added is the last item.                                         *)
LEMMA AddsLast ==
  ASSUME NEW arr \in LA, NEW item \in Item, NEW memory \in BOOLEAN
  PROVE  /\ la_AddData(arr, item, memory) \in LA
         /\ la_AddData(arr, item, memory) = arr
            \/ la_AddData(arr, item, memory).items = Append(arr.items, item)
         /\ memory => la_AddData(arr, item, memory).items = Append(arr.items, item)
BY ListsAssumption DEF la_AddData, LA

(* What is deleted is one item.                                            *)
LEMMA DeletesOne ==
  ASSUME NEW arr \in LA, NEW i \in Nat, i < Len(arr.items)
  PROVE  /\ la_DeleteData(arr, i) \in LA
         /\ la_DeleteData(arr, i).items =
              [j \in 1 .. Len(arr.items) - 1 |-> arr.items[IF j <= i THEN j ELSE j + 1]]
<1> DEFINE l == arr.items
           r == [j \in 1 .. Len(l) - 1 |-> l[IF j <= i THEN j ELSE j + 1]]
<1>1. l \in Seq(Item) /\ Len(l) \in Nat /\ DOMAIN l = 1 .. Len(l) /\ arr \in LA
  BY DEF LA
<1>2. r \in [1 .. Len(l) - 1 -> Item]
  <2>1. \A j \in 1 .. Len(l) - 1 : (IF j <= i THEN j ELSE j + 1) \in 1 .. Len(l)
    BY <1>1
  <2> QED BY <1>1, <2>1
<1>3. r \in Seq(Item)
  BY <1>1, <1>2, FunctionIsSeq
<1>4. la_DeleteData(arr, i) = [arr EXCEPT !.items = r]
  BY <1>1 DEF la_DeleteData
<1> HIDE DEF r
<1>5. [arr EXCEPT !.items = r] \in LA /\ [arr EXCEPT !.items = r].items = r
  BY <1>3 DEF LA
<1> QED BY <1>4, <1>5 DEF r

(* Sorting an array.                                                       *)
LEMMA SortsArray ==
  ASSUME NEW arr \in LA
  PROVE  /\ la_Sort(arr) \in LA /\ Same(arr.items, la_Sort(arr).items)
         /\ SortedTo(la_Sort(arr).items, Len(la_Sort(arr).items) - 1)
<1> DEFINE r == HQSort(arr.items)
<1>1. arr.items \in Seq(Item)
  BY DEF LA
<1>2. r \in Seq(Item) /\ Same(arr.items, r) /\ SortedTo(r, Len(r) - 1)
  BY <1>1, SortedSame, ItemsAre
<1>3. la_Sort(arr) = [arr EXCEPT !.items = r]
  BY DEF la_Sort
<1> HIDE DEF r
<1>4. [arr EXCEPT !.items = r] \in LA /\ [arr EXCEPT !.items = r].items = r
  BY <1>2 DEF LA
<1> QED BY <1>2, <1>3, <1>4

(* Finding in an array.                                                    *)
LEMMA Finds ==
  ASSUME NEW T, Items(T), NEW arr, arr.items \in Seq(T), NEW o \in Offsets
  PROVE  /\ la_Find(arr, o) = NotFound
            \/ (la_Find(arr, o) + 1 \in 1 .. Len(arr.items) /\ arr.items[la_Find(arr, o) + 1].at = o)
         /\ SortedTo(arr.items, Len(arr.items) - 1)
              /\ (\E i \in 1 .. Len(arr.items) : arr.items[i].at = o) => la_Find(arr, o) # NotFound
<1> DEFINE l == arr.items
           n == Len(l)
           f == la_Find(arr, o)
<1>1. n \in Nat /\ l \in Rows(n, T) /\ o \in Int
  BY ItemsAre DEF Rows
<1>2. CASE l = <<>>
  <2>1. f = NotFound /\ n = 0
    BY <1>2 DEF la_Find
  <2>2. ~(\E i \in 1 .. n : l[i].at = o)
    BY <2>1
  <2> QED BY <2>1, <2>2
<1>3. CASE l # <<>>
  <2>1. f = HLFind(l, o)
    BY <1>3 DEF la_Find
  <2>2. n > 0
    BY <1>1, <1>3
  <2> HIDE DEF n, l, f
  <2>3. /\ f = NotFound \/ (f \in 0 .. n - 1 /\ At(l, f) = o)
        /\ SortedTo(l, n - 1) /\ (\E i \in 0 .. n - 1 : At(l, i) = o) => f # NotFound
    BY <1>1, <2>1, <2>2, HLFindFinds
  <2>4. f \in 0 .. n - 1 => f + 1 \in 1 .. n
    BY <1>1
  <2>5. ASSUME NEW i \in 1 .. n, l[i].at = o PROVE i - 1 \in 0 .. n - 1 /\ At(l, i - 1) = o
    <3>1. i - 1 \in 0 .. n - 1 /\ (i - 1) + 1 = i
      BY <1>1
    <3> QED BY <2>5, <3>1 DEF At
  <2>6. /\ f = NotFound \/ (f + 1 \in 1 .. n /\ l[f + 1].at = o)
        /\ SortedTo(l, n - 1) /\ (\E i \in 1 .. n : l[i].at = o) => f # NotFound
    BY <2>3, <2>4, <2>5 DEF At
  <2> QED BY <2>6 DEF n, l, f
<1> QED BY <1>2, <1>3

-----------------------------------------------------------------------------
(* The lines of a file.                                                    *)
Lines == Seq(Item \cup {Bad})

(* Those before a bad one are names.                                       *)
LEMMA GoodAre ==
  ASSUME NEW lines \in Lines
  PROVE  /\ Good(lines) \in Seq(Item) /\ Len(Good(lines)) <= Len(lines)
         /\ \A i \in 1 .. Len(Good(lines)) : Good(lines)[i] = lines[i] /\ lines[i] \in Item
         /\ ~IsBad(lines) => Good(lines) = lines
<1> DEFINE n == Len(lines)
           bad == {i \in 1 .. n : lines[i] = Bad}
           k == IF bad = {} THEN n ELSE Min(bad) - 1
<1>1. n \in Nat /\ lines \in [1 .. n -> Item \cup {Bad}] /\ bad \subseteq Nat
  BY DEF Lines
<1>2. Good(lines) = SubSeq(lines, 1, k)
  BY DEF Good
<1>3. bad # {} => Min(bad) \in bad /\ \A i \in bad : Min(bad) <= i
  <2> HIDE DEF bad
  <2> QED BY <1>1, MinIsLeast
<1>4. k \in 0 .. n
  BY <1>1, <1>3
<1>5. ASSUME NEW i \in 1 .. k PROVE lines[i] \in Item
  <2>1. i \notin bad /\ i \in 1 .. n
    BY <1>1, <1>3, <1>4
  <2> QED BY <1>1, <2>1
<1>6. ~IsBad(lines) => k = n
  BY DEF IsBad
<1> HIDE DEF k, n
<1>7. SubSeq(lines, 1, k) = [i \in 1 .. k |-> lines[i]]
  BY <1>1, <1>4
<1>8. [i \in 1 .. k |-> lines[i]] \in Seq(Item) /\ Len([i \in 1 .. k |-> lines[i]]) = k
  <2>1. [i \in 1 .. k |-> lines[i]] \in [1 .. k -> Item]
    BY <1>5
  <2> QED BY <1>1, <1>4, <2>1, FunctionIsSeq
<1>9. k = n => [i \in 1 .. k |-> lines[i]] = lines
  BY <1>1
<1>10. n = Len(lines) /\ k <= n
  BY <1>1, <1>4 DEF n
<1> QED BY <1>2, <1>5, <1>6, <1>7, <1>8, <1>9, <1>10

(* A list that is read has no two items of one offset unless Twice.        *)
LEMMA TwiceOrDistinct ==
  ASSUME NEW lines \in Lines
  PROVE  Twice(lines) = ~Distinct(Good(lines))
<1>1. \A i \in 1 .. Len(Good(lines)) : Good(lines)[i] = lines[i]
  BY GoodAre
<1>2. Twice(lines) => ~Distinct(Good(lines))
  BY <1>1 DEF Twice, Distinct
<1>3. ~Distinct(Good(lines)) => Twice(lines)
  BY <1>1 DEF Twice, Distinct
<1>4. Twice(lines) \in BOOLEAN /\ Distinct(Good(lines)) \in BOOLEAN
  BY DEF Twice, Distinct
<1> QED BY <1>2, <1>3, <1>4

(* What the lines of a file name.                                          *)
LEMMA NamedSays ==
  ASSUME NEW lines \in Lines
  PROVE  /\ Named(lines) \in [Offsets -> Words \cup {NoName}]
         /\ Distinct(Good(lines)) => Says(Good(lines), Named(lines))
<1> DEFINE h == Good(lines)
           n == Len(h)
           At1(o) == {i \in 1 .. n : lines[i].at = o}
<1>1. h \in Seq(Item) /\ n \in Nat /\ \A i \in 1 .. n : h[i] = lines[i] /\ lines[i] \in Item
  BY GoodAre
<1>2. Named(lines) = [o \in Offsets |-> IF At1(o) = {} THEN NoName ELSE lines[Max(At1(o))].name]
  BY DEF Named
<1> HIDE DEF h, n
<1>3. ASSUME NEW o \in Offsets, At1(o) # {} PROVE Max(At1(o)) \in At1(o)
  <2>1. At1(o) \subseteq 0 .. n
    BY <1>1
  <2> HIDE DEF At1
  <2> QED BY <1>1, <1>3, <2>1, MaxIsMost
<1>4. ASSUME NEW o \in Offsets PROVE Named(lines)[o] \in Words \cup {NoName}
  <2>1. CASE At1(o) = {}
    BY <1>2, <2>1
  <2>2. CASE At1(o) # {}
    <3>1. Max(At1(o)) \in 1 .. n
      BY <1>3, <2>2
    <3>2. lines[Max(At1(o))].name \in Words
      BY <1>1, <3>1 DEF Item
    <3> QED BY <1>2, <2>2, <3>2
  <2> QED BY <2>1, <2>2
<1>5. Named(lines) \in [Offsets -> Words \cup {NoName}]
  BY <1>2, <1>4
<1>6. ASSUME Distinct(h) PROVE Says(h, Named(lines))
  <2>1. \A i, j \in 1 .. n : lines[i].at = lines[j].at => i = j
    BY <1>1, <1>6 DEF Distinct, n
  <2>2. ASSUME NEW i \in 1 .. n PROVE Named(lines)[h[i].at] = h[i].name
    <3> DEFINE o == lines[i].at
               m == Max(At1(o))
    <3>1. o \in Offsets /\ i \in At1(o)
      BY <1>1 DEF Item
    <3>2. m \in At1(o)
      BY <1>3, <3>1
    <3>3. m = i
      BY <2>1, <3>2
    <3>4. Named(lines)[o] = lines[m].name
      BY <1>2, <3>1
    <3> QED BY <1>1, <3>3, <3>4
  <2>3. ASSUME NEW o \in Offsets, Named(lines)[o] # NoName PROVE \E i \in 1 .. n : h[i].at = o
    <3>1. At1(o) # {}
      BY <1>2, <2>3
    <3>2. PICK i \in 1 .. n : lines[i].at = o
      BY <3>1
    <3> QED BY <1>1, <3>2
  <2> QED BY <2>2, <2>3 DEF Says, n
<1> QED BY <1>5, <1>6 DEF h

(* The lines of a file go behind what is there.                            *)
LEMMA AddedIs ==
  ASSUME NEW arr \in LA, NEW lines \in Lines
  PROVE  /\ Added(arr, lines) \in LA
         /\ arr.items = <<>> => Added(arr, lines).items = Good(lines)
         /\ Good(lines) = <<>> => Added(arr, lines) = arr
<1> DEFINE n == Len(Good(lines))
           start == IF arr = NULL /\ Good(lines) # <<>> THEN la_Build ELSE arr
           L == Len(arr.items)
           add == CHOOSE add : add = [k \in 0 .. n |-> IF k = 0 THEN start
                                                       ELSE la_AddData(add[k - 1], lines[k], TRUE)]
           S == [k \in 0 .. n |-> {x \in LA : /\ Len(x.items) = L + k
                                              /\ \A i \in 1 .. k : x.items[L + i] = lines[i]}]
           G == [k \in 1 .. n |-> [x \in S[k - 1] |-> la_AddData(x, lines[k], TRUE)]]
<1>1. Added(arr, lines) = add[n]
  BY DEF Added
<1>2. n \in Nat /\ Good(lines) \in Seq(Item)
      /\ \A i \in 1 .. n : Good(lines)[i] = lines[i] /\ lines[i] \in Item
  BY GoodAre
<1>3. start \in LA /\ start.items = arr.items /\ L \in Nat
  BY Arrays DEF LA
<1>4. start \in S[0]
  BY <1>2, <1>3
<1>5. ASSUME NEW k \in 1 .. n, NEW x \in S[k - 1] PROVE la_AddData(x, lines[k], TRUE) \in S[k]
  <2> DEFINE y == la_AddData(x, lines[k], TRUE)
  <2>1. k - 1 \in 0 .. n /\ k \in 0 .. n /\ k \in Nat
    BY <1>2
  <2>2. x \in LA /\ Len(x.items) = L + (k - 1) /\ \A i \in 1 .. k - 1 : x.items[L + i] = lines[i]
    BY <2>1
  <2>3. y \in LA /\ y.items = Append(x.items, lines[k])
    BY <1>2, <2>2, AddsLast
  <2>4. x.items \in Seq(Item)
    BY <2>2 DEF LA
  <2> HIDE DEF y, S
  <2>5. Len(y.items) = L + k
    BY <1>3, <2>1, <2>2, <2>3, <2>4
  <2>6. ASSUME NEW i \in 1 .. k PROVE y.items[L + i] = lines[i]
    <3>1. CASE i = k
      BY <1>3, <2>1, <2>2, <2>3, <2>4, <3>1
    <3>2. CASE i # k
      <4>1. i \in 1 .. k - 1 /\ L + i \in 1 .. Len(x.items)
        BY <1>3, <2>1, <2>2, <3>2
      <4> QED BY <2>2, <2>3, <2>4, <4>1
    <3> QED BY <3>1, <3>2
  <2>7. y \in S[k]
    BY <2>1, <2>3, <2>5, <2>6 DEF S
  <2> QED BY <2>7 DEF y
<1> HIDE DEF S, start
<1>6. PICK f : Turning(f, n, start, G)
  BY <1>2, TurnsExist
<1>7. \A k \in 1 .. n : \A x \in S[k - 1] : G[k][x] = la_AddData(x, lines[k], TRUE) /\ G[k][x] \in S[k]
  BY <1>5
<1> HIDE DEF G
<1>8. \A k \in 0 .. n : f[k] \in S[k]
  BY <1>2, <1>4, <1>6, <1>7, TurnsIn
<1>9. f = [k \in 0 .. n |-> IF k = 0 THEN start ELSE la_AddData(f[k - 1], lines[k], TRUE)]
  <2>1. \A k \in 0 .. n : k # 0 => k \in 1 .. n /\ k - 1 \in 0 .. n
    BY <1>2
  <2>2. \A k \in 0 .. n : k # 0 => G[k][f[k - 1]] = la_AddData(f[k - 1], lines[k], TRUE)
    BY <1>7, <1>8, <2>1
  <2> QED BY <1>6, <2>2 DEF Turning
<1>10. add = [k \in 0 .. n |-> IF k = 0 THEN start ELSE la_AddData(add[k - 1], lines[k], TRUE)]
  BY <1>9
<1> HIDE DEF add
<1> DEFINE P == {k \in 0 .. n : add[k] \in S[k]}
<1>11. 0 \in P
  BY <1>2, <1>4, <1>10
<1>12. ASSUME NEW k \in 0 .. n - 1, k \in P PROVE k + 1 \in P
  <2>1. k + 1 \in 1 .. n /\ k + 1 \in 0 .. n /\ k + 1 # 0 /\ (k + 1) - 1 = k /\ add[k] \in S[k]
    BY <1>2, <1>12
  <2>2. add[k + 1] = la_AddData(add[k], lines[k + 1], TRUE)
    BY <1>10, <2>1
  <2>3. la_AddData(add[k], lines[k + 1], TRUE) \in S[k + 1]
    BY <1>5, <2>1
  <2> QED BY <2>1, <2>2, <2>3
<1> HIDE DEF P
<1>13. n \in P
  BY <1>2, <1>11, <1>12, RangeInduction
<1>14. add[n] \in S[n] /\ n \in 0 .. n
  BY <1>2, <1>13 DEF P
<1>15. add[n] \in LA /\ Len(add[n].items) = L + n /\ \A i \in 1 .. n : add[n].items[L + i] = lines[i]
  BY <1>14 DEF S
<1>16. ASSUME arr.items = <<>> PROVE add[n].items = Good(lines)
  <2>1. L = 0 /\ add[n].items \in Seq(Item)
    BY <1>15, <1>16 DEF LA
  <2>2. Len(add[n].items) = n /\ \A i \in 1 .. n : add[n].items[i] = Good(lines)[i]
    BY <1>2, <1>15, <2>1
  <2> QED BY <1>2, <2>1, <2>2
<1>17. ASSUME Good(lines) = <<>> PROVE add[n] = arr
  <2>1. n = 0 /\ start = arr
    BY <1>17 DEF start
  <2> QED BY <1>10, <2>1
<1> QED BY <1>1, <1>15, <1>16, <1>17

(* A list that is loaded.                                                  *)
LEMMA LoadedIs ==
  ASSUME NEW arr \in LA, NEW lines \in Lines
  PROVE  /\ Loaded(arr, lines) \in LA
         /\ ~IsBad(lines) => SortedTo(Loaded(arr, lines).items, Len(Loaded(arr, lines).items) - 1)
         /\ Good(lines) = <<>> /\ IsBad(lines) => Loaded(arr, lines) = arr
         /\ arr.items = <<>> => Same(Good(lines), Loaded(arr, lines).items)
         /\ Good(lines) = <<>> => Same(arr.items, Loaded(arr, lines).items)
<1> DEFINE a == Added(arr, lines)
           r == Loaded(arr, lines)
<1>1. /\ a \in LA /\ (arr.items = <<>> => a.items = Good(lines)) /\ (Good(lines) = <<>> => a = arr)
  BY AddedIs
<1>2. r = IF IsBad(lines) THEN a ELSE la_Sort(a)
  BY DEF Loaded
<1> HIDE DEF a, r
<1>3. Same(a.items, a.items)
  BY DEF Same
<1>4. la_Sort(a) \in LA /\ Same(a.items, la_Sort(a).items)
      /\ SortedTo(la_Sort(a).items, Len(la_Sort(a).items) - 1)
  BY <1>1, SortsArray
<1>5. /\ r \in LA /\ Same(a.items, r.items)
      /\ (~IsBad(lines) => SortedTo(r.items, Len(r.items) - 1))
      /\ (Good(lines) = <<>> /\ IsBad(lines) => r = arr)
  BY <1>1, <1>2, <1>3, <1>4
<1> QED BY <1>1, <1>5 DEF r

-----------------------------------------------------------------------------
(* The inductive invariant: what there is, that the list is sorted unless  *)
(* it is unsorted, that it names what is given unless it is mixed, that    *)
(* the file it was saved to or loaded from names that too, and that the    *)
(* names of the format are one of its readings.                            *)
FileLines == IF udn_fname = NoFile THEN <<>> ELSE files[udn_fname]

Recalled(lines, g) ==
  /\ Distinct(Good(lines)) /\ Says(Good(lines), g)
  /\ IsBad(lines) => Good(lines) = <<>>

Held ==
  /\ world \in Worlds /\ files \in [UserFiles -> Lines]
  /\ udn_fname \in UserFiles \cup {NoFile} /\ udn_list \in LA
  /\ given \in [Offsets -> Words \cup {NoName}]
  /\ udn_modified \in BOOLEAN /\ mixed \in BOOLEAN /\ unsorted \in BOOLEAN /\ astray \in BOOLEAN

Ordered == ~unsorted => SortedTo(udn_list.items, Len(udn_list.items) - 1)

NamesHeld == ~mixed => Distinct(udn_list.items) /\ Says(udn_list.items, given)

FileHolds ==
  ~udn_modified /\ ~astray /\ ~mixed /\ ~unsorted => Recalled(FileLines, given)

PubsHeld == PubNames = NULL \/ PubNames \in Readings

IInv == Held /\ Ordered /\ NamesHeld /\ FileHolds /\ PubsHeld

-----------------------------------------------------------------------------
(* A name that is added to a list which has none for that offset.          *)
LEMMA SaysMore ==
  ASSUME NEW l \in Seq(Item), NEW g \in [Offsets -> Words \cup {NoName}], NEW item \in Item,
         Distinct(l), Says(l, g), \A i \in 1 .. Len(l) : l[i].at # item.at
  PROVE  /\ Distinct(Append(l, item))
         /\ Says(Append(l, item), [g EXCEPT ![item.at] = item.name])
<1> DEFINE r == Append(l, item)
           h == [g EXCEPT ![item.at] = item.name]
           n == Len(l)
<1>1. n \in Nat /\ Len(r) = n + 1 /\ r[n + 1] = item /\ \A i \in 1 .. n : r[i] = l[i] /\ l[i] \in Item
  OBVIOUS
<1>2. /\ item.at \in Offsets /\ h[item.at] = item.name
      /\ \A o \in Offsets : o # item.at => h[o] = g[o]
  BY DEF Item
<1>3. \A i \in 1 .. n : l[i].at \in Offsets /\ l[i].at # item.at /\ g[l[i].at] = l[i].name
  BY <1>1 DEF Item, Says
<1>4. \A i \in 1 .. Len(r) : i \in 1 .. n \/ i = n + 1
  BY <1>1
<1>5. \A i, j \in 1 .. n : l[i].at = l[j].at => i = j
  BY DEF Distinct
<1> HIDE DEF r, h
<1>6. Distinct(r)
  <2>1. ASSUME NEW i \in 1 .. Len(r), NEW j \in 1 .. Len(r), r[i].at = r[j].at PROVE i = j
    <3>1. CASE i \in 1 .. n /\ j \in 1 .. n
      BY <1>1, <1>5, <2>1, <3>1
    <3>2. CASE i \in 1 .. n /\ j = n + 1
      BY <1>1, <1>3, <2>1, <3>2
    <3>3. CASE i = n + 1 /\ j \in 1 .. n
      BY <1>1, <1>3, <2>1, <3>3
    <3> QED BY <1>4, <3>1, <3>2, <3>3
  <2> QED BY <2>1 DEF Distinct
<1>7. ASSUME NEW i \in 1 .. Len(r) PROVE h[r[i].at] = r[i].name
  BY <1>1, <1>2, <1>3, <1>4
<1>8. ASSUME NEW o \in Offsets, h[o] # NoName PROVE \E i \in 1 .. Len(r) : r[i].at = o
  <2>1. CASE o = item.at
    <3>1. n + 1 \in 1 .. Len(r) /\ r[n + 1].at = o
      BY <1>1, <2>1
    <3> QED BY <3>1
  <2>2. CASE o # item.at
    <3>1. PICK i \in 1 .. n : l[i].at = o
      BY <1>2, <1>8, <2>2 DEF Says
    <3>2. i \in 1 .. Len(r) /\ r[i].at = o
      BY <1>1, <3>1
    <3> QED BY <3>2
  <2> QED BY <2>1, <2>2
<1> QED BY <1>6, <1>7, <1>8 DEF Says, r, h

(* A name that is changed.                                                 *)
LEMMA SaysOther ==
  ASSUME NEW l \in Seq(Item), NEW g \in [Offsets -> Words \cup {NoName}],
         NEW k \in 1 .. Len(l), NEW name \in Words
  PROVE  /\ [l EXCEPT ![k].name = name] \in Seq(Item)
         /\ Distinct(l) /\ Says(l, g) =>
              /\ Distinct([l EXCEPT ![k].name = name])
              /\ Says([l EXCEPT ![k].name = name], [g EXCEPT ![l[k].at] = name])
<1> DEFINE r == [l EXCEPT ![k].name = name]
           h == [g EXCEPT ![l[k].at] = name]
           n == Len(l)
<1>1. n \in Nat /\ l \in [1 .. n -> Item] /\ \A i \in 1 .. n : l[i] \in Item /\ l[i].at \in Offsets
  <2>1. n \in Nat /\ l \in [1 .. n -> Item] /\ \A i \in 1 .. n : l[i] \in Item
    OBVIOUS
  <2> QED BY <2>1 DEF Item
<1>2. [l[k] EXCEPT !.name = name] \in Item /\ [l[k] EXCEPT !.name = name].at = l[k].at
      /\ [l[k] EXCEPT !.name = name].name = name
  BY <1>1 DEF Item
<1>3. r = [l EXCEPT ![k] = [l[k] EXCEPT !.name = name]]
  OBVIOUS
<1>4. r \in Seq(Item) /\ Len(r) = n
  BY <1>2, <1>3
<1>5. \A i \in 1 .. n : r[i].at = l[i].at /\ r[i].name = IF i = k THEN name ELSE l[i].name
  BY <1>1, <1>2, <1>3
<1>6. \A o \in Offsets : h[o] = IF o = l[k].at THEN name ELSE g[o]
  OBVIOUS
<1> HIDE DEF r, h
<1>7. ASSUME Distinct(l), Says(l, g) PROVE Distinct(r) /\ Says(r, h)
  <2>1. \A i, j \in 1 .. n : l[i].at = l[j].at => i = j
    BY <1>7 DEF Distinct
  <2>2. Distinct(r)
    BY <1>4, <1>5, <2>1 DEF Distinct
  <2>3. \A i \in 1 .. n : g[l[i].at] = l[i].name
    BY <1>7 DEF Says
  <2>4. ASSUME NEW i \in 1 .. n PROVE h[r[i].at] = r[i].name
    BY <1>1, <1>5, <1>6, <2>1, <2>3
  <2>5. ASSUME NEW o \in Offsets, h[o] # NoName PROVE \E i \in 1 .. n : r[i].at = o
    <3>1. CASE o = l[k].at
      BY <1>5, <3>1
    <3>2. CASE o # l[k].at
      <4>1. PICK i \in 1 .. n : l[i].at = o
        BY <1>6, <1>7, <2>5, <3>2 DEF Says
      <4> QED BY <1>5, <4>1
    <3> QED BY <3>1, <3>2
  <2> QED BY <1>4, <2>2, <2>4, <2>5 DEF Says
<1> QED BY <1>4, <1>7 DEF r, h

(* A name that is deleted.                                                 *)
LEMMA SaysLess ==
  ASSUME NEW l \in Seq(Item), NEW g \in [Offsets -> Words \cup {NoName}],
         NEW k \in Nat, k < Len(l), Distinct(l), Says(l, g),
         NEW r \in Seq(Item), r = [j \in 1 .. Len(l) - 1 |-> l[IF j <= k THEN j ELSE j + 1]]
  PROVE  Distinct(r) /\ Says(r, [g EXCEPT ![l[k + 1].at] = NoName])
<1> DEFINE h == [g EXCEPT ![l[k + 1].at] = NoName]
           n == Len(l)
           from(j) == IF j <= k THEN j ELSE j + 1
<1>1. n \in Nat /\ k + 1 \in 1 .. n /\ \A i \in 1 .. n : l[i] \in Item /\ l[i].at \in Offsets
  <2>1. n \in Nat /\ k + 1 \in 1 .. n /\ \A i \in 1 .. n : l[i] \in Item
    OBVIOUS
  <2> QED BY <2>1 DEF Item
<1>2. \A j \in 1 .. n - 1 : r[j] = l[from(j)] /\ from(j) \in 1 .. n /\ from(j) # k + 1
  BY <1>1
<1>3. Len(r) = n - 1
  <2>1. DOMAIN r = 1 .. n - 1 /\ n - 1 \in Nat
    BY <1>1
  <2> QED BY <2>1
<1>4. \A i, j \in 1 .. n - 1 : from(i) = from(j) => i = j
  BY <1>1
<1>5. \A i \in 1 .. n : i # k + 1 => \E j \in 1 .. n - 1 : from(j) = i
  <2>1. ASSUME NEW i \in 1 .. n, i # k + 1 PROVE \E j \in 1 .. n - 1 : from(j) = i
    <3>1. CASE i <= k
      BY <1>1, <3>1
    <3>2. CASE i > k
      <4>1. i - 1 \in 1 .. n - 1 /\ from(i - 1) = i
        BY <1>1, <2>1, <3>2
      <4> QED BY <4>1
    <3> QED BY <1>1, <3>1, <3>2
  <2> QED BY <2>1
<1>6. \A o \in Offsets : h[o] = IF o = l[k + 1].at THEN NoName ELSE g[o]
  BY <1>1
<1>7. /\ \A i, j \in 1 .. n : l[i].at = l[j].at => i = j
      /\ \A i \in 1 .. n : g[l[i].at] = l[i].name
      /\ \A o \in Offsets : g[o] # NoName => \E i \in 1 .. n : l[i].at = o
  BY DEF Distinct, Says
<1> HIDE DEF from, h
<1>8. Distinct(r)
  <2>1. ASSUME NEW i \in 1 .. n - 1, NEW j \in 1 .. n - 1, r[i].at = r[j].at PROVE i = j
    <3>1. from(i) = from(j)
      BY <1>2, <1>7, <2>1
    <3> QED BY <1>4, <3>1
  <2> QED BY <1>3, <2>1 DEF Distinct
<1>9. ASSUME NEW j \in 1 .. n - 1 PROVE h[r[j].at] = r[j].name
  BY <1>1, <1>2, <1>6, <1>7
<1>10. ASSUME NEW o \in Offsets, h[o] # NoName PROVE \E j \in 1 .. n - 1 : r[j].at = o
  <2>1. PICK i \in 1 .. n : l[i].at = o
    BY <1>6, <1>7, <1>10
  <2>2. i # k + 1
    BY <1>6, <1>10, <2>1
  <2>3. PICK j \in 1 .. n - 1 : from(j) = i
    BY <1>5, <2>2
  <2> QED BY <1>2, <2>1, <2>3
<1> QED BY <1>3, <1>8, <1>9, <1>10 DEF Says, h

(* A list that is loaded onto nothing names what its file names.           *)
LEMMA LoadsNames ==
  ASSUME NEW arr \in LA, arr.items = <<>>, NEW lines \in Lines, NEW g
  PROVE  /\ Loaded(arr, lines) \in LA
         /\ ~(IsBad(lines) /\ Good(lines) # <<>>) =>
              SortedTo(Loaded(arr, lines).items, Len(Loaded(arr, lines).items) - 1)
         /\ Distinct(Good(lines)) /\ Says(Good(lines), g) =>
              Distinct(Loaded(arr, lines).items) /\ Says(Loaded(arr, lines).items, g)
<1> DEFINE r == Loaded(arr, lines)
           h == Good(lines)
<1>1. /\ r \in LA /\ (~IsBad(lines) => SortedTo(r.items, Len(r.items) - 1))
      /\ (h = <<>> /\ IsBad(lines) => r = arr) /\ Same(h, r.items)
  BY LoadedIs
<1>2. SortedTo(arr.items, Len(arr.items) - 1)
  BY DEF SortedTo
<1> HIDE DEF r, h
<1>3. Distinct(h) => Distinct(r.items)
  BY <1>1 DEF Same
<1>4. Says(h, g) => Says(r.items, g)
  BY <1>1, SameSays
<1> QED BY <1>1, <1>2, <1>3, <1>4 DEF r, h

(* The program starts with the names of a file.                            *)
LEMMA StartsWithNames == Init => IInv
<1> SUFFICES ASSUME Init PROVE IInv
  OBVIOUS
<1> DEFINE lines == FileLines
<1>1. world \in Worlds /\ files = world.files /\ udn_fname \in UserFiles \cup {NoFile}
  BY NamesAssumption DEF Init
<1>2. files \in [UserFiles -> Lines] /\ lines \in Lines
  BY <1>1, NamesAssumption DEF FileLines, Lines
<1>3. /\ udn_list = Loaded(NULL, lines) /\ given = Named(lines) /\ mixed = Twice(lines)
      /\ unsorted = (IsBad(lines) /\ Good(lines) # <<>>)
      /\ udn_modified = FALSE /\ astray = FALSE /\ PubNames = NULL
  BY DEF Init, FileLines
<1> HIDE DEF lines
<1>4. /\ mixed = ~Distinct(Good(lines)) /\ given \in [Offsets -> Words \cup {NoName}]
      /\ (Distinct(Good(lines)) => Says(Good(lines), given))
  BY <1>2, <1>3, TwiceOrDistinct, NamedSays
<1>5. /\ udn_list \in LA
      /\ (~unsorted => SortedTo(udn_list.items, Len(udn_list.items) - 1))
      /\ (Distinct(Good(lines)) /\ Says(Good(lines), given) =>
             Distinct(udn_list.items) /\ Says(udn_list.items, given))
  BY <1>2, <1>3, Arrays, LoadsNames
<1>6. Held
  <2>1. mixed \in BOOLEAN /\ unsorted \in BOOLEAN
    BY <1>3, <1>4 DEF Distinct
  <2> QED BY <1>1, <1>2, <1>3, <1>4, <1>5, <2>1 DEF Held
<1>7. Ordered /\ NamesHeld /\ PubsHeld
  BY <1>3, <1>4, <1>5 DEF Ordered, NamesHeld, PubsHeld
<1>8. FileHolds
  BY <1>3, <1>4 DEF FileHolds, Recalled, lines
<1> QED BY <1>6, <1>7, <1>8 DEF IInv

(* Adding a name.                                                          *)
LEMMA AddHolds ==
  ASSUME IInv, NEW o \in Offsets, NEW name \in Words, NEW memory \in BOOLEAN,
         udnAddItem(o, name, memory)
  PROVE  IInv'
<1> DEFINE arr  == IF udn_list = NULL THEN la_Build ELSE udn_list
           prev == la_Find(arr, o)
           item == [at |-> o, name |-> name]
           more == la_AddData(arr, item, memory)
           other == [arr EXCEPT !.items[prev + 1].name = name]
           new  == IF prev = NotFound THEN more ELSE other
           h    == [given EXCEPT ![o] = name]
           l    == arr.items
<1>1. /\ udn_list' = la_Sort(new)
      /\ given' = IF prev = NotFound /\ new = arr THEN given ELSE h
      /\ mixed' = (mixed \/ unsorted) /\ udn_modified' = TRUE /\ unsorted' = FALSE
      /\ UNCHANGED <<world, files, udn_fname, PubNames, astray>>
  BY DEF udnAddItem
<1>2. /\ Held /\ Ordered /\ NamesHeld /\ PubsHeld
  BY DEF IInv
<1>3. arr \in LA /\ l = udn_list.items /\ item \in Item /\ l \in Seq(Item)
  BY <1>2, Arrays DEF Held, LA, Item
<1>4. given \in [Offsets -> Words \cup {NoName}] /\ mixed \in BOOLEAN /\ unsorted \in BOOLEAN
  BY <1>2 DEF Held
<1> HIDE DEF arr
<1>5. /\ prev = NotFound \/ (prev + 1 \in 1 .. Len(l) /\ l[prev + 1].at = o)
      /\ ~unsorted /\ (\E i \in 1 .. Len(l) : l[i].at = o) => prev # NotFound
  <2>1. Items(Item) /\ arr.items \in Seq(Item)
    BY <1>3, ItemsAre
  <2>2. ~unsorted => SortedTo(arr.items, Len(arr.items) - 1)
    BY <1>2, <1>3 DEF Ordered
  <2> QED BY <2>1, <2>2, Finds
<1> HIDE DEF prev
<1>6. ~mixed => Distinct(l) /\ Says(l, given)
  BY <1>2, <1>3 DEF NamesHeld
<1> DEFINE Goes ==
             /\ new \in LA /\ given' \in [Offsets -> Words \cup {NoName}]
             /\ (~mixed /\ ~unsorted => Distinct(new.items) /\ Says(new.items, given'))
<1>7. ASSUME prev = NotFound PROVE Goes
  <2>1. more \in LA /\ (more = arr \/ more.items = Append(l, item))
    BY <1>3, AddsLast
  <2>2. h \in [Offsets -> Words \cup {NoName}]
    BY <1>4
  <2>3. ~mixed /\ ~unsorted => Distinct(Append(l, item)) /\ Says(Append(l, item), h)
    <3>1. ASSUME ~mixed, ~unsorted PROVE \A i \in 1 .. Len(l) : l[i].at # item.at
      BY <1>5, <1>7, <3>1
    <3> QED BY <1>3, <1>4, <1>6, <3>1, SaysMore
  <2>4. new = more
    BY <1>7
  <2> HIDE DEF more
  <2>5. /\ new \in LA /\ given' \in [Offsets -> Words \cup {NoName}]
        /\ (~mixed /\ ~unsorted => Distinct(new.items) /\ Says(new.items, given'))
    <3>1. CASE new = arr
      BY <1>1, <1>3, <1>4, <1>6, <1>7, <3>1
    <3>2. CASE new # arr /\ new.items = Append(l, item)
      BY <1>1, <2>1, <2>2, <2>3, <2>4, <3>2
    <3> QED BY <2>1, <2>4, <3>1, <3>2
  <2> QED BY <2>5
<1>8. ASSUME prev # NotFound PROVE Goes
  <2> DEFINE k == prev + 1
             r == [l EXCEPT ![k].name = name]
  <2>1. k \in 1 .. Len(l) /\ l[k].at = o
    BY <1>5, <1>8
  <2>2. /\ r \in Seq(Item)
        /\ (Distinct(l) /\ Says(l, given) => Distinct(r) /\ Says(r, [given EXCEPT ![l[k].at] = name]))
    <3> HIDE DEF k
    <3> QED BY <1>3, <1>4, <2>1, SaysOther
  <2>3. new = [arr EXCEPT !.items = r]
    BY <1>8
  <2> HIDE DEF r
  <2>4. new \in LA /\ new.items = r
    BY <1>3, <2>2, <2>3 DEF LA
  <2>5. given' = h /\ h \in [Offsets -> Words \cup {NoName}]
    BY <1>1, <1>4, <1>8
  <2> QED BY <1>6, <2>1, <2>2, <2>4, <2>5
<1>9. Goes
  BY <1>7, <1>8
<1> HIDE DEF new
<1>10. /\ la_Sort(new) \in LA /\ Same(new.items, la_Sort(new).items)
       /\ SortedTo(la_Sort(new).items, Len(la_Sort(new).items) - 1)
  BY <1>9, SortsArray
<1>11. Distinct(new.items) => Distinct(la_Sort(new).items)
  BY <1>10 DEF Same
<1>12. Says(new.items, given') => Says(la_Sort(new).items, given')
  BY <1>10, SameSays
<1>13. Held'
  BY <1>1, <1>2, <1>4, <1>9, <1>10 DEF Held
<1>14. Ordered' /\ NamesHeld'
  BY <1>1, <1>4, <1>9, <1>10, <1>11, <1>12 DEF Ordered, NamesHeld
<1>15. FileHolds' /\ PubsHeld'
  BY <1>1, <1>2 DEF FileHolds, PubsHeld, Readings
<1> QED BY <1>13, <1>14, <1>15 DEF IInv

(* Deleting a name.                                                        *)
LEMMA DeleteHolds ==
  ASSUME IInv, NEW i \in Nat, udnDeleteItem(i)
  PROVE  IInv'
<1> DEFINE l   == udn_list.items
           new == la_DeleteData(udn_list, i)
           h   == [given EXCEPT ![l[i + 1].at] = NoName]
<1>1. /\ i < Len(l) /\ udn_list' = la_Sort(new) /\ given' = h
      /\ mixed' = (mixed \/ unsorted) /\ udn_modified' = TRUE /\ unsorted' = FALSE
      /\ UNCHANGED <<world, files, udn_fname, PubNames, astray>>
  BY DEF udnDeleteItem
<1>2. Held /\ NamesHeld /\ PubsHeld
  BY DEF IInv
<1>3. /\ udn_list \in LA /\ l \in Seq(Item) /\ mixed \in BOOLEAN /\ unsorted \in BOOLEAN
      /\ given \in [Offsets -> Words \cup {NoName}]
  BY <1>2 DEF Held, LA
<1>4. new \in LA /\ new.items = [j \in 1 .. Len(l) - 1 |-> l[IF j <= i THEN j ELSE j + 1]]
  BY <1>1, <1>3, DeletesOne
<1> HIDE DEF new
<1>5. new.items \in Seq(Item)
  BY <1>4 DEF LA
<1>6. h \in [Offsets -> Words \cup {NoName}]
  BY <1>3
<1>7. Distinct(l) /\ Says(l, given) => Distinct(new.items) /\ Says(new.items, h)
  <2> HIDE DEF l
  <2> QED BY <1>1, <1>3, <1>4, <1>5, SaysLess
<1> HIDE DEF h
<1>8. /\ la_Sort(new) \in LA /\ Same(new.items, la_Sort(new).items)
      /\ SortedTo(la_Sort(new).items, Len(la_Sort(new).items) - 1)
  BY <1>4, SortsArray
<1>9. Distinct(new.items) => Distinct(la_Sort(new).items)
  BY <1>8 DEF Same
<1>10. Says(new.items, h) => Says(la_Sort(new).items, h)
  BY <1>8, SameSays
<1>11. Held'
  BY <1>1, <1>2, <1>3, <1>6, <1>8 DEF Held
<1>12. Ordered' /\ NamesHeld'
  BY <1>1, <1>2, <1>3, <1>7, <1>8, <1>9, <1>10 DEF Ordered, NamesHeld
<1>13. FileHolds' /\ PubsHeld'
  BY <1>1, <1>2 DEF FileHolds, PubsHeld, Readings
<1> QED BY <1>11, <1>12, <1>13 DEF IInv

(* A call that fails leaves a name behind that is astray.                  *)
LEMMA MisnamedHolds ==
  ASSUME IInv, NEW f \in UserFiles \cup {NoFile}, Misnamed(f), UNCHANGED <<world, PubNames>>
  PROVE  IInv'
<1>1. /\ udn_fname' = f /\ astray' = (astray \/ f # udn_fname)
      /\ UNCHANGED <<world, files, udn_list, udn_modified, PubNames, given, mixed, unsorted>>
  BY DEF Misnamed
<1>2. Held /\ Ordered /\ NamesHeld /\ FileHolds /\ PubsHeld
  BY DEF IInv
<1>3. Ordered' /\ NamesHeld' /\ PubsHeld'
  BY <1>1, <1>2 DEF Ordered, NamesHeld, PubsHeld, Readings
<1>4. Held'
  <2>1. astray' \in BOOLEAN
    BY <1>1, <1>2 DEF Held
  <2> QED BY <1>1, <1>2, <2>1 DEF Held
<1>5. FileHolds'
  <2>1. CASE f = udn_fname
    <3>1. FileLines' = FileLines
      BY <1>1, <2>1 DEF FileLines
    <3> QED BY <1>1, <1>2, <2>1, <3>1 DEF FileHolds, Recalled
  <2>2. CASE f # udn_fname
    BY <1>1, <2>2 DEF FileHolds
  <2> QED BY <2>1, <2>2
<1> QED BY <1>3, <1>4, <1>5 DEF IInv

(* Loading a file.                                                         *)
LEMMA LoadHolds ==
  ASSUME IInv, NEW f \in UserFiles, LoadFrom(f), UNCHANGED <<world, PubNames>>
  PROVE  IInv'
<1> DEFINE lines == files[f]
           new   == Loaded(udn_list, lines)
           empty == udn_list.items = <<>>
<1>1. /\ udn_fname' = f /\ udn_list' = new
      /\ (empty => given' = Named(lines) /\ mixed' = Twice(lines))
      /\ (~empty => given' = given /\ mixed' = (mixed \/ Good(lines) # <<>>))
      /\ unsorted' = (IsBad(lines) /\ (unsorted \/ Good(lines) # <<>>))
      /\ astray' = (Good(lines) = <<>>)
      /\ UNCHANGED <<world, files, udn_modified, PubNames>>
  BY DEF LoadFrom
<1>2. Held /\ Ordered /\ NamesHeld /\ PubsHeld
  BY DEF IInv
<1>3. /\ udn_list \in LA /\ lines \in Lines /\ mixed \in BOOLEAN /\ unsorted \in BOOLEAN
      /\ given \in [Offsets -> Words \cup {NoName}] /\ f # NoFile
  BY <1>2, NamesAssumption DEF Held
<1>4. FileLines' = lines
  BY <1>1, <1>3 DEF FileLines
<1> HIDE DEF lines
<1>5. /\ new \in LA
      /\ (~IsBad(lines) => SortedTo(new.items, Len(new.items) - 1))
      /\ (Good(lines) = <<>> /\ IsBad(lines) => new = udn_list)
      /\ (Good(lines) = <<>> => Same(udn_list.items, new.items))
  BY <1>3, LoadedIs
<1>6. /\ Named(lines) \in [Offsets -> Words \cup {NoName}]
      /\ Twice(lines) = ~Distinct(Good(lines))
      /\ (Distinct(Good(lines)) => Says(Good(lines), Named(lines)))
  BY <1>3, NamedSays, TwiceOrDistinct
<1>7. empty => (Distinct(Good(lines)) /\ Says(Good(lines), Named(lines)) =>
                  Distinct(new.items) /\ Says(new.items, Named(lines)))
  BY <1>3, LoadsNames
<1> HIDE DEF new
<1>8. Held'
  <2>1. Twice(lines) \in BOOLEAN
    BY DEF Twice
  <2>2. mixed' \in BOOLEAN /\ given' \in [Offsets -> Words \cup {NoName}]
    BY <1>1, <1>3, <1>6, <2>1
  <2>3. unsorted' \in BOOLEAN /\ astray' \in BOOLEAN
    BY <1>1, <1>3
  <2> QED BY <1>1, <1>2, <1>5, <2>2, <2>3 DEF Held
<1>9. Ordered'
  BY <1>1, <1>2, <1>5 DEF Ordered
<1>10. NamesHeld'
  <2>1. CASE empty
    BY <1>1, <1>6, <1>7, <2>1 DEF NamesHeld
  <2>2. CASE ~empty
    <3>1. Good(lines) = <<>> /\ Distinct(udn_list.items) => Distinct(new.items)
      BY <1>5 DEF Same
    <3>2. Good(lines) = <<>> /\ Says(udn_list.items, given) => Says(new.items, given)
      BY <1>5, SameSays
    <3> QED BY <1>1, <1>2, <2>2, <3>1, <3>2 DEF NamesHeld
  <2> QED BY <2>1, <2>2
<1>11. FileHolds'
  <2>1. ASSUME ~astray', ~mixed', ~unsorted'
        PROVE  Distinct(Good(lines)) /\ Says(Good(lines), given') /\ ~IsBad(lines)
    BY <1>1, <1>6, <2>1
  <2>2. ASSUME ~astray', ~mixed', ~unsorted' PROVE Recalled(lines, given')
    BY <2>1, <2>2 DEF Recalled
  <2>3. Recalled(FileLines, given)' = Recalled(lines, given')
    BY <1>4 DEF Recalled
  <2> QED BY <2>2, <2>3 DEF FileHolds
<1>12. PubsHeld'
  BY <1>1, <1>2 DEF PubsHeld, Readings
<1> QED BY <1>8, <1>9, <1>10, <1>11, <1>12 DEF IInv

(* What is saved is read again.                                            *)
LEMMA SavedRecalls ==
  ASSUME NEW l \in Seq(Item), NEW g, Distinct(l), Says(l, g)
  PROVE  l \in Lines /\ Recalled(l, g)
<1>1. l \in Lines
  BY DEF Lines
<1>2. ~IsBad(l)
  <2>1. \A i \in 1 .. Len(l) : l[i] \in Item
    OBVIOUS
  <2> QED BY <2>1, NamesAssumption DEF IsBad
<1>3. Good(l) = l
  BY <1>1, <1>2, GoodAre
<1> QED BY <1>1, <1>2, <1>3 DEF Recalled

(* A list becomes the lines of its file.                                   *)
LEMMA SavedLines ==
  ASSUME Held, NEW f \in UserFiles, Saved(f)
  PROVE  /\ udn_fname' \in UserFiles \cup {NoFile} /\ files' \in [UserFiles -> Lines]
         /\ FileLines' = udn_list.items /\ udn_list.items \in Seq(Item)
<1>1. /\ files' = [files EXCEPT ![f] = udn_list.items] /\ udn_fname' = f /\ f # NoFile
  BY NamesAssumption DEF Saved
<1>2. udn_list.items \in Seq(Item) /\ files \in [UserFiles -> Lines]
  BY DEF Held, LA
<1>3. udn_list.items \in Lines
  BY <1>2 DEF Lines
<1> QED BY <1>1, <1>2, <1>3 DEF FileLines

(* Saving the list.                                                        *)
LEMMA SaveHolds ==
  ASSUME IInv, NEW f \in UserFiles, Saved(f), udn_modified' = FALSE, astray' = FALSE,
         UNCHANGED <<world, udn_list, PubNames, given, mixed, unsorted>>
  PROVE  IInv'
<1>2. Held /\ Ordered /\ NamesHeld /\ PubsHeld
  BY DEF IInv
<1>3. Ordered' /\ NamesHeld' /\ PubsHeld'
  BY <1>2 DEF Ordered, NamesHeld, PubsHeld, Readings
<1>4. /\ udn_fname' \in UserFiles \cup {NoFile} /\ files' \in [UserFiles -> Lines]
      /\ FileLines' = udn_list.items /\ udn_list.items \in Seq(Item)
  BY <1>2, SavedLines
<1>5. Held'
  BY <1>2, <1>4 DEF Held
<1>6. ~mixed => Recalled(udn_list.items, given)
  BY <1>2, <1>4, SavedRecalls DEF NamesHeld
<1>7. Recalled(FileLines, given)' = Recalled(udn_list.items, given)
  BY <1>4 DEF Recalled
<1>8. FileHolds'
  BY <1>6, <1>7 DEF FileHolds
<1> QED BY <1>3, <1>5, <1>8 DEF IInv

(* The end of a program, and the start of the next one.                    *)
LEMMA RestartHolds ==
  ASSUME IInv, Restart
  PROVE  IInv'
<1> DEFINE lines == IF udn_fname' = NoFile THEN <<>> ELSE files'[udn_fname']
           kept  == SaveAtEnd \/ (~udn_modified /\ ~astray)
           new   == Loaded(NULL, lines)
           stays == kept /\ ~mixed /\ ~unsorted
<1>1. /\ SaveAtEnd \/ NoSave
      /\ udn_list' = new /\ unsorted' = (IsBad(lines) /\ Good(lines) # <<>>)
      /\ (stays => given' = given /\ mixed' = mixed)
      /\ (~stays => given' = Named(lines) /\ mixed' = Twice(lines))
      /\ udn_modified' = FALSE /\ astray' = FALSE /\ PubNames' = NULL /\ world' = world
  BY DEF Restart
<1>2. Held /\ NamesHeld /\ FileHolds
  BY DEF IInv
<1>3. /\ udn_modified \in BOOLEAN /\ mixed \in BOOLEAN /\ unsorted \in BOOLEAN /\ astray \in BOOLEAN
      /\ given \in [Offsets -> Words \cup {NoName}]
  BY <1>2 DEF Held
<1>4. lines = FileLines'
  BY DEF FileLines
<1> DEFINE Goes ==
      /\ udn_fname' \in UserFiles \cup {NoFile} /\ files' \in [UserFiles -> Lines] /\ lines \in Lines
      /\ stays => Recalled(lines, given)
<1>6. ASSUME SaveAtEnd PROVE Goes
  <2>1. PICK f \in UserFiles : Saved(f)
    BY <1>6 DEF SaveAtEnd
  <2>2. /\ udn_fname' \in UserFiles \cup {NoFile} /\ files' \in [UserFiles -> Lines]
        /\ FileLines' = udn_list.items /\ udn_list.items \in Seq(Item)
    BY <1>2, <2>1, SavedLines
  <2>3. lines = udn_list.items /\ lines \in Lines
    BY <1>4, <2>2 DEF Lines
  <2>4. ~mixed => Recalled(udn_list.items, given)
    BY <1>2, <2>2, SavedRecalls DEF NamesHeld
  <2> HIDE DEF lines
  <2> QED BY <2>2, <2>3, <2>4
<1>7. ASSUME ~SaveAtEnd PROVE Goes
  <2>1. files' = files /\ udn_fname' \in UserFiles \cup {NoFile}
    BY <1>1, <1>2, <1>7 DEF NoSave, Held
  <2>2. files' \in [UserFiles -> Lines]
    BY <1>2, <2>1 DEF Held
  <2>3. lines \in Lines
    BY <2>1, <2>2, NamesAssumption DEF Lines
  <2>4. ASSUME stays PROVE Recalled(lines, given)
    <3>1. ~udn_modified /\ ~astray /\ ~mixed /\ ~unsorted
      BY <1>7, <2>4
    <3>2. udn_fname' = udn_fname
      BY <1>1, <1>7, <3>1 DEF NoSave, Asked
    <3>3. lines = FileLines
      BY <2>1, <3>2 DEF FileLines
    <3> HIDE DEF lines
    <3> QED BY <1>2, <3>1, <3>3 DEF FileHolds
  <2> HIDE DEF lines, stays
  <2> QED BY <2>1, <2>2, <2>3, <2>4
<1>8. Goes
  BY <1>6, <1>7
<1> HIDE DEF lines
<1>9. /\ Named(lines) \in [Offsets -> Words \cup {NoName}]
      /\ Twice(lines) = ~Distinct(Good(lines)) /\ Twice(lines) \in BOOLEAN
      /\ (Distinct(Good(lines)) => Says(Good(lines), Named(lines)))
  <2>1. Twice(lines) \in BOOLEAN
    BY DEF Twice
  <2> QED BY <1>8, <2>1, NamedSays, TwiceOrDistinct
<1>10. /\ new \in LA
       /\ (~unsorted' => SortedTo(new.items, Len(new.items) - 1))
       /\ (Distinct(Good(lines)) /\ Says(Good(lines), given') =>
             Distinct(new.items) /\ Says(new.items, given'))
  BY <1>1, <1>8, Arrays, LoadsNames
<1> HIDE DEF new
<1>11. /\ given' \in [Offsets -> Words \cup {NoName}] /\ mixed' \in BOOLEAN
       /\ (~mixed' => Distinct(Good(lines)) /\ Says(Good(lines), given'))
  <2>1. CASE stays
    <3>1. Distinct(Good(lines)) /\ Says(Good(lines), given)
      BY <1>8, <2>1 DEF Recalled
    <3>2. given' = given /\ mixed' = mixed
      BY <1>1, <2>1
    <3> HIDE DEF stays
    <3> QED BY <1>3, <3>1, <3>2
  <2>2. CASE ~stays
    <3>1. given' = Named(lines) /\ mixed' = Twice(lines)
      BY <1>1, <2>2
    <3> HIDE DEF stays
    <3> QED BY <1>9, <3>1
  <2> QED BY <2>1, <2>2
<1>12. Held'
  <2>1. unsorted' \in BOOLEAN
    BY <1>1
  <2> QED BY <1>1, <1>2, <1>8, <1>10, <1>11, <2>1 DEF Held
<1>13. Ordered' /\ NamesHeld' /\ PubsHeld'
  BY <1>1, <1>10, <1>11 DEF Ordered, NamesHeld, PubsHeld
<1>14. FileHolds'
  <2>1. ASSUME ~mixed', ~unsorted' PROVE Recalled(lines, given')
    BY <1>1, <1>11, <2>1 DEF Recalled
  <2>2. Recalled(FileLines, given)' = Recalled(lines, given')
    BY <1>4 DEF Recalled
  <2> QED BY <2>1, <2>2 DEF FileHolds
<1> QED BY <1>12, <1>13, <1>14 DEF IInv

(* What reads or dumps the names of the format.                            *)
LEMMA OthersHold ==
  ASSUME IInv, UNCHANGED world, UNCHANGED user, PubNames' \in List \/ PubNames' = PubNames
  PROVE  IInv'
<1>1. PubsHeld'
  BY DEF IInv, PubsHeld, List, Readings
<1>2. FileLines' = FileLines
  BY DEF FileLines, user
<1>3. FileHolds' = FileHolds
  BY <1>2 DEF FileHolds, Recalled, user
<1>4. Held' /\ Ordered' /\ NamesHeld'
  BY DEF IInv, Held, Ordered, NamesHeld, user
<1> QED BY <1>1, <1>3, <1>4 DEF IInv

(* The invariant is inductive.                                             *)
LEMMA NamesStep ==
  ASSUME IInv, [Next]_vars
  PROVE  IInv'
<1>1. ASSUME NEW o \in Offsets, NEW name \in Words, NEW memory \in BOOLEAN,
             udnAddItem(o, name, memory)
      PROVE  IInv'
  BY <1>1, AddHolds
<1>2. ASSUME NEW i \in 0 .. MaxNames - 1, udnDeleteItem(i) PROVE IInv'
  <2>1. i \in Nat
    BY NamesAssumption
  <2> QED BY <1>2, <2>1, DeleteHolds
<1>3. ASSUME NEW f \in UserFiles \cup {NoFile}, udnLoadList(f) PROVE IInv'
  <2>1. UNCHANGED <<world, PubNames>> /\ (Misnamed(f) \/ LoadFrom(f))
    BY <1>3 DEF udnLoadList
  <2>2. LoadFrom(f) => f \in UserFiles
    BY DEF LoadFrom
  <2> QED BY <2>1, <2>2, MisnamedHolds, LoadHolds
<1>4. ASSUME NEW f \in UserFiles \cup {NoFile}, udnSaveList(f) PROVE IInv'
  <2>1. /\ UNCHANGED <<world, PubNames>>
        /\ \/ Misnamed(f)
           \/ /\ Saved(f) /\ udn_modified' = FALSE /\ astray' = FALSE
              /\ UNCHANGED <<udn_list, given, mixed, unsorted>>
    BY <1>4 DEF udnSaveList
  <2>2. Saved(f) => f \in UserFiles
    BY DEF Saved
  <2> QED BY <2>1, <2>2, MisnamedHolds, SaveHolds
<1>5. CASE Restart
  BY <1>5, RestartHolds
<1>6. CASE fmtFindPubName
  BY <1>6, OthersHold DEF fmtFindPubName
<1>7. ASSUME NEW o \in Offsets, WhereAMI(o) PROVE IInv'
  BY <1>7, OthersHold DEF WhereAMI
<1>8. ASSUME NEW o \in Offsets, NEW end \in 1 .. FLen, DumpStart(o, end) PROVE IInv'
  BY <1>8, OthersHold DEF DumpStart, Quiet
<1>9. CASE DumpName
  BY <1>9, OthersHold DEF DumpName, Quiet
<1>10. ASSUME NEW len \in 1 .. MaxInsn, DumpInstr(len) PROVE IInv'
  BY <1>10, OthersHold DEF DumpInstr, Quiet
<1>11. CASE DumpStop
  BY <1>11, OthersHold DEF DumpStop, Quiet
<1>12. CASE UNCHANGED vars
  BY <1>12, OthersHold DEF vars, user
<1> QED BY <1>1, <1>2, <1>3, <1>4, <1>5, <1>6, <1>7, <1>8, <1>9, <1>10, <1>11, <1>12 DEF Next, DumpStep

(* The names of the format are found, once they are all read.              *)
LEMMA FormatFound ==
  ASSUME IInv, NEW o \in Offsets, PubNames # NULL, Len(PubNames.items) = Len(world.pubs)
  PROVE  (la_Find(PubNames, o) # NotFound) <=> ItemsAt(world.pubs, o) # {}
<1> DEFINE T   == [at : Offsets]
           raw == world.pubs
           l   == PubNames.items
<1>1. raw \in Seq(T) /\ Len(raw) \in Nat /\ Items(T)
  <2>1. world \in Worlds /\ Items(T)
    BY ItemsAre DEF IInv, Held
  <2>2. raw \in Seq(T)
    BY <2>1, NamesAssumption
  <2> HIDE DEF T, raw
  <2> QED BY <2>1, <2>2
<1>2. PICK k \in 0 .. Len(raw) : l = HQSort(SubSeq(raw, 1, k))
  <2>1. PubNames \in Readings
    BY DEF IInv, PubsHeld
  <2>2. PICK k \in {Len(raw)} \cup {k \in 0 .. Len(raw) : (k % LST_STEP) = 0} :
           PubNames = [items |-> HQSort(SubSeq(raw, 1, k)), nSize |-> 0]
    BY <2>1 DEF Readings
  <2>3. k \in 0 .. Len(raw)
    BY <1>1, <2>2
  <2>4. PubNames.items = HQSort(SubSeq(raw, 1, k))
    BY <2>2
  <2> QED BY <2>3, <2>4
<1> DEFINE cut == SubSeq(raw, 1, k)
<1>3. cut \in Seq(T) /\ Len(cut) = k /\ (k = Len(raw) => cut = raw)
  <2> HIDE DEF T, raw
  <2> QED BY <1>1
<1> HIDE DEF cut, T
<1>4. l \in Seq(T) /\ Same(cut, l) /\ SortedTo(l, Len(l) - 1)
  BY <1>1, <1>2, <1>3, SortedSame DEF cut
<1>5. cut = raw /\ Same(raw, l)
  <2>1. Len(cut) = Len(l)
    BY <1>4 DEF Same
  <2>2. k = Len(raw)
    BY <1>3, <2>1
  <2> QED BY <1>3, <1>4, <2>2
<1>6. /\ la_Find(PubNames, o) = NotFound
         \/ (la_Find(PubNames, o) + 1 \in 1 .. Len(l) /\ l[la_Find(PubNames, o) + 1].at = o)
      /\ (\E i \in 1 .. Len(l) : l[i].at = o) => la_Find(PubNames, o) # NotFound
  BY <1>1, <1>4, Finds
<1>7. la_Find(PubNames, o) # NotFound <=> \E i \in 1 .. Len(l) : l[i].at = o
  BY <1>6
<1>8. (\E i \in 1 .. Len(l) : l[i].at = o) <=> \E i \in 1 .. Len(raw) : raw[i].at = o
  BY <1>5 DEF Same
<1>9. (ItemsAt(raw, o) # {}) <=> \E i \in 1 .. Len(raw) : raw[i].at = o
  BY DEF ItemsAt
<1> QED BY <1>7, <1>8, <1>9

(* What is found for an offset in the user's list.                         *)
LEMMA UserFound ==
  ASSUME IInv, NEW o \in Offsets
  PROVE  /\ udnFindName(o) \in Words \cup {NoName}
         /\ ~unsorted /\ ~mixed => udnFindName(o) = given[o]
         /\ ~unsorted => IF ItemsAt(udn_list.items, o) = {} THEN udnFindName(o) = NoName
                         ELSE \E item \in ItemsAt(udn_list.items, o) : udnFindName(o) = item.name
<1> DEFINE l == udn_list.items
           f == la_Find(udn_list, o)
           at == f + 1
<1>1. l \in Seq(Item) /\ Items(Item) /\ given \in [Offsets -> Words \cup {NoName}]
  BY ItemsAre DEF IInv, Held, LA
<1>2. ~unsorted => SortedTo(l, Len(l) - 1)
  BY DEF IInv, Ordered
<1>3. /\ f = NotFound \/ (at \in 1 .. Len(l) /\ l[at].at = o)
      /\ ~unsorted /\ (\E i \in 1 .. Len(l) : l[i].at = o) => f # NotFound
  BY <1>1, <1>2, Finds
<1>4. udnFindName(o) = IF f = NotFound THEN NoName ELSE l[at].name
  BY DEF udnFindName
<1> HIDE DEF f, at
<1>5. ~mixed => Says(l, given)
  BY DEF IInv, NamesHeld
<1> HIDE DEF l
<1>6. CASE f = NotFound
  <2>1. udnFindName(o) = NoName
    BY <1>4, <1>6
  <2>2. ~unsorted => ~\E i \in 1 .. Len(l) : l[i].at = o
    BY <1>3, <1>6
  <2>3. ~unsorted => ItemsAt(l, o) = {}
    BY <2>2 DEF ItemsAt
  <2>4. ~unsorted /\ ~mixed => given[o] = NoName
    BY <1>5, <2>2 DEF Says
  <2> QED BY <2>1, <2>3, <2>4 DEF l
<1>7. CASE f # NotFound
  <2>1. at \in 1 .. Len(l) /\ l[at].at = o /\ udnFindName(o) = l[at].name
    BY <1>3, <1>4, <1>7
  <2>2. l[at] \in Item
    BY <1>1, <2>1
  <2>3. l[at].name \in Words
    BY <2>2 DEF Item
  <2>4. l[at] \in ItemsAt(l, o)
    BY <2>1 DEF ItemsAt
  <2>5. ~mixed => given[o] = l[at].name
    BY <1>5, <2>1 DEF Says
  <2> QED BY <2>1, <2>3, <2>4, <2>5 DEF l
<1> QED BY <1>6, <1>7

(* For every list of names a format may have, every file of the user's and *)
(* whatever names are added, deleted, loaded and saved, the names of an    *)
(* offset are found and no others: the sort leaves every list sorted and   *)
(* the search misses nothing (beyelib.c:325-603, bin_util.c:187-349).      *)
THEOREM NamesAreFound == Spec => []NamesFound
<1>1. IInv => NamesFound
  <2> SUFFICES ASSUME IInv, NEW o \in Offsets
               PROVE  /\ PubNames # NULL /\ Len(PubNames.items) = Len(world.pubs) =>
                           (Shown(PubNames, o) = FromFormat <=> ItemsAt(world.pubs, o) # {})
                      /\ ~unsorted => IF ~mixed THEN udnFindName(o) = given[o]
                           ELSE IF ItemsAt(udn_list.items, o) = {} THEN udnFindName(o) = NoName
                           ELSE \E item \in ItemsAt(udn_list.items, o) : udnFindName(o) = item.name
    BY DEF NamesFound
  <2>1. udnFindName(o) # FromFormat
    BY UserFound, NamesAssumption
  <2>2. (Shown(PubNames, o) = FromFormat) <=> (la_Find(PubNames, o) # NotFound)
    BY <2>1 DEF Shown
  <2>3. ASSUME PubNames # NULL, Len(PubNames.items) = Len(world.pubs)
        PROVE  Shown(PubNames, o) = FromFormat <=> ItemsAt(world.pubs, o) # {}
    BY <2>2, <2>3, FormatFound
  <2>4. CASE ~unsorted /\ ~mixed
    BY <2>3, <2>4, UserFound
  <2>5. CASE ~unsorted /\ mixed
    BY <2>3, <2>5, UserFound
  <2>6. CASE unsorted
    BY <2>3, <2>6
  <2> QED BY <2>4, <2>5, <2>6
<1>2. Init => IInv
  BY StartsWithNames
<1>3. IInv /\ [Next]_vars => IInv'
  BY NamesStep
<1> QED BY <1>1, <1>2, <1>3, PTL DEF Spec

-----------------------------------------------------------------------------
(* The names of the format, in order.                                      *)
Format == [at : Offsets]
Listed(p) == p.items \in Seq(Format) /\ SortedTo(p.items, Len(p.items) - 1)

(* Every reading of them is.                                               *)
LEMMA ReadingsListed ==
  ASSUME world \in Worlds, NEW p \in Readings
  PROVE  Listed(p) /\ p.nSize = 0
<1> DEFINE raw == world.pubs
<1>1. raw \in Seq(Format) /\ Len(raw) \in Nat /\ Items(Format)
  <2>1. Items(Format)
    BY ItemsAre DEF Format
  <2>2. raw \in Seq(Format)
    BY NamesAssumption DEF Format
  <2> QED BY <2>1, <2>2
<1>2. PICK k \in {Len(raw)} \cup {k \in 0 .. Len(raw) : (k % LST_STEP) = 0} :
           p = [items |-> HQSort(SubSeq(raw, 1, k)), nSize |-> 0]
  BY DEF Readings
<1>3. k \in 0 .. Len(raw)
  BY <1>1, <1>2
<1> DEFINE cut == SubSeq(raw, 1, k)
<1> HIDE DEF raw
<1>4. cut \in Seq(Format)
  BY <1>1, <1>3
<1> HIDE DEF cut
<1>5. HQSort(cut) \in Seq(Format) /\ SortedTo(HQSort(cut), Len(HQSort(cut)) - 1)
  BY <1>1, <1>4, SortedSame
<1>6. p.items = HQSort(cut) /\ p.nSize = 0
  BY <1>2 DEF cut
<1> QED BY <1>5, <1>6 DEF Listed

(* What is used of them: their offsets, by the indices of the code.        *)
LEMMA ListedIs ==
  ASSUME NEW p, Listed(p), NEW n, n = Len(p.items)
  PROVE  /\ n \in Nat /\ (n = 0 <=> p.items = <<>>)
         /\ \A i \in 0 .. n - 1 : At(p.items, i) \in Offsets /\ At(p.items, i) \in Nat
         /\ \A i, j \in 0 .. n - 1 : i <= j => At(p.items, i) <= At(p.items, j)
<1>1. p.items \in Seq(Format) /\ n \in Nat /\ (n = 0 <=> p.items = <<>>)
  BY DEF Listed
<1>2. ASSUME NEW i \in 0 .. n - 1 PROVE At(p.items, i) \in Offsets /\ At(p.items, i) \in Nat
  <2>1. i + 1 \in 1 .. Len(p.items)
    BY <1>1
  <2>2. p.items[i + 1] \in Format
    BY <1>1, <2>1
  <2>3. p.items[i + 1].at \in Offsets
    BY <2>2 DEF Format
  <2> QED BY <2>3, ItemsAre DEF At
<1>3. \A i, j \in 0 .. n - 1 : i <= j => At(p.items, i) <= At(p.items, j)
  BY DEF Listed, SortedTo
<1> QED BY <1>1, <1>2, <1>3

(* The name nearest to an offset.                                          *)
LEMMA NameNear ==
  ASSUME NEW p, Listed(p), NEW n, n = Len(p.items), n > 0, NEW pa \in Offsets
  PROVE  Near(p.items, n, pa, la_FindNearest(p, pa))
<1> DEFINE l == p.items
           f == la_FindNearest(p, pa)
<1>1. n \in Nat /\ l # <<>> /\ pa \in Int /\ Items(Format)
  BY ListedIs, ItemsAre DEF Format
<1>2. l \in Rows(n, Format) /\ SortedTo(l, n - 1)
  BY DEF Rows, Listed
<1>3. f = HLFindNearest(l, pa)
  BY <1>1 DEF la_FindNearest
<1> HIDE DEF l, f
<1>4. Near(l, n, pa, f)
  BY <1>1, <1>2, <1>3, NearestIs
<1> QED BY <1>4 DEF l, f

(* Where the loop of fmtGetPubSym stops.                                   *)
LEMMA StopIs ==
  ASSUME NEW p, Listed(p), NEW n, n = Len(p.items), NEW pa \in Offsets, NEW multi \in Nat,
         NEW i \in 0 .. n - 1, NEW j, j = Stop(p, pa, multi, i)
  PROVE  /\ j \in i .. n - 1 /\ j \in 0 .. n - 1
         /\ At(p.items, j) > pa \/ Breaks(p, pa, multi, j)
         /\ \A k \in i .. j - 1 : At(p.items, k) <= pa
<1> DEFINE S == {k \in i .. n - 1 : At(p.items, k) > pa \/ Breaks(p, pa, multi, k)}
<1>1. n \in Nat /\ \A k \in 0 .. n - 1 : At(p.items, k) \in Int
  BY ListedIs
<1>2. j = Min(S)
  BY DEF Stop
<1>3. S \subseteq Nat /\ n - 1 \in S
  BY <1>1 DEF Breaks
<1>4. \A k \in S : k \in i .. n - 1 /\ (At(p.items, k) > pa \/ Breaks(p, pa, multi, k))
  OBVIOUS
<1>5. \A k \in i .. n - 1 : At(p.items, k) > pa => k \in S
  OBVIOUS
<1> HIDE DEF S
<1>6. j \in S /\ \A k \in S : j <= k
  BY <1>2, <1>3, MinIsLeast
<1>7. ASSUME NEW k \in i .. j - 1 PROVE At(p.items, k) <= pa
  <2>1. k \in i .. n - 1 /\ k \in 0 .. n - 1 /\ ~(j <= k)
    BY <1>1, <1>4, <1>6
  <2> QED BY <1>1, <1>5, <1>6, <2>1, ItemsAre
<1> QED BY <1>1, <1>4, <1>6, <1>7

(* Where the walk to the next name may start, and what it may reach: no    *)
(* name behind pa is passed over.                                          *)
Starts(l, n, pa, i) ==
  /\ i \in 0 .. n - 1
  /\ At(l, i) >= pa \/ \A k \in i + 1 .. n - 1 : pa < At(l, k)
  /\ \A k \in 0 .. n - 1 : pa < At(l, k) => i <= k

Ways(n) == [idx : 0 .. n, cur : Offsets]

Reached(l, n, pa, i, w) ==
  /\ w \in Ways(n)
  /\ \A k \in 0 .. n - 1 : pa < At(l, k) => w.idx <= k
  /\ w.idx > i \/ (pa < At(l, i) /\ pa < w.cur)
  /\ w.idx < n => At(l, w.idx) >= pa
  /\ w.idx < n /\ At(l, w.idx) = pa /\ pa # 0 => w.cur = pa

(* One walk.                                                               *)
LEMMA WalkIs ==
  ASSUME NEW p, Listed(p), NEW n, n = Len(p.items), NEW pa \in Offsets, NEW multi \in Nat,
         NEW i, Starts(p.items, n, pa, i)
  PROVE  Reached(p.items, n, pa, i, Walk(p, pa, multi, i))
<1> DEFINE l == p.items
           j == Stop(p, pa, multi, i)
           w == Walk(p, pa, multi, i)
<1>1. /\ n \in Nat
      /\ \A k \in 0 .. n - 1 : At(l, k) \in Offsets /\ At(l, k) \in Nat
      /\ \A k, m \in 0 .. n - 1 : k <= m => At(l, k) <= At(l, m)
  BY ListedIs
<1>2. /\ i \in 0 .. n - 1
      /\ At(l, i) >= pa \/ \A k \in i + 1 .. n - 1 : pa < At(l, k)
      /\ \A k \in 0 .. n - 1 : pa < At(l, k) => i <= k
  BY DEF Starts
<1>3. /\ j \in i .. n - 1 /\ j \in 0 .. n - 1
      /\ \A k \in i .. j - 1 : At(l, k) <= pa
  BY <1>2, StopIs
<1>4. w = [idx |-> IF At(l, j) > pa THEN j ELSE j + 1, cur |-> At(l, j)]
  BY DEF Walk
<1>5. pa \in Nat
  BY ItemsAre
<1> HIDE DEF l, j, w
<1>6. w \in Ways(n) /\ w.cur = At(l, j) /\ w.idx = IF At(l, j) > pa THEN j ELSE j + 1
  BY <1>1, <1>3, <1>4 DEF Ways
<1>7. ASSUME NEW k \in 0 .. n - 1, pa < At(l, k) PROVE w.idx <= k
  <2>1. i <= k /\ ~(k \in i .. j - 1)
    BY <1>1, <1>2, <1>3, <1>5, <1>7
  <2>2. j <= k
    BY <1>2, <1>3, <2>1
  <2>3. CASE At(l, j) > pa
    BY <1>6, <2>2, <2>3
  <2>4. CASE ~(At(l, j) > pa)
    <3>1. j # k
      BY <1>1, <1>7, <2>4, <1>5
    <3> QED BY <1>3, <1>6, <2>2, <2>4, <3>1
  <2> QED BY <2>3, <2>4
<1>8. CASE At(l, j) > pa
  <2>1. w.idx = j
    BY <1>6, <1>8
  <2>2. w.idx > i \/ (pa < At(l, i) /\ pa < w.cur)
    BY <1>2, <1>3, <1>6, <1>8, <2>1
  <2>3. At(l, w.idx) >= pa /\ At(l, w.idx) # pa
    BY <1>1, <1>3, <1>5, <1>8, <2>1
  <2> QED BY <1>6, <1>7, <2>2, <2>3 DEF Reached, l, w
<1>9. CASE ~(At(l, j) > pa)
  <2>1. w.idx = j + 1 /\ w.idx > i
    BY <1>2, <1>3, <1>6, <1>9
  <2>2. ASSUME w.idx < n PROVE At(l, w.idx) >= pa
    <3>1. j + 1 \in 0 .. n - 1 /\ j + 1 \in i + 1 .. n - 1 /\ i <= j + 1
      BY <1>1, <1>2, <1>3, <2>1, <2>2
    <3>2. At(l, i) <= At(l, j + 1)
      BY <1>1, <1>2, <3>1
    <3> QED BY <1>1, <1>2, <1>5, <2>1, <3>1, <3>2
  <2>3. ASSUME w.idx < n, At(l, w.idx) = pa PROVE w.cur = pa
    <3>1. j + 1 \in 0 .. n - 1 /\ j + 1 \in i + 1 .. n - 1 /\ i <= j
      BY <1>1, <1>2, <1>3, <2>1, <2>3
    <3>2. At(l, i) >= pa
      BY <1>2, <1>5, <2>1, <2>3, <3>1
    <3>3. At(l, i) <= At(l, j)
      BY <1>1, <1>2, <1>3, <3>1
    <3> QED BY <1>1, <1>2, <1>3, <1>5, <1>6, <1>9, <3>2, <3>3
  <2> QED BY <1>6, <1>7, <2>1, <2>2, <2>3 DEF Reached, l, w
<1> QED BY <1>8, <1>9

(* All walks.  A name of pa itself is given only if it was not before.     *)
Nexts(l, n, pa, multi, i, r) ==
  /\ r.idx \in 0 .. n /\ r.multi \in Nat
  /\ \A k \in 0 .. n - 1 : pa < At(l, k) => r.idx <= k
  /\ r.idx > i \/ pa < At(l, i)
  /\ r.idx < n => At(l, r.idx) >= pa
  /\ r.idx < n /\ At(l, r.idx) = pa /\ pa # 0 => r.idx > multi /\ r.multi = r.idx

(* This is what they come to.                                              *)
LEMMA NextIs ==
  ASSUME NEW p, Listed(p), NEW n, n = Len(p.items), NEW pa \in Offsets, NEW multi \in Nat,
         NEW i, Starts(p.items, n, pa, i)
  PROVE  Nexts(p.items, n, pa, multi, i, NextOf(p, pa, multi, i))
<1> DEFINE l == p.items
           Given(w) == w.idx < n /\ w.cur # 0 /\ w.cur = pa
           Again == [w \in Ways(n) |->
                       IF Given(w) /\ w.idx <= multi THEN Walk(p, pa, multi, w.idx) ELSE w]
           first == Walk(p, pa, multi, i)
           turn == CHOOSE turn : turn = [k \in 0 .. n |-> IF k = 0 THEN first
                                                         ELSE Again[turn[k - 1]]]
           S == [k \in 0 .. n |-> {w \in Ways(n) : /\ Reached(l, n, pa, i, w)
                                                   /\ w.idx >= k \/ ~(Given(w) /\ w.idx <= multi)}]
           G == [k \in 1 .. n |-> Again]
<1>1. /\ n \in Nat
      /\ \A k \in 0 .. n - 1 : At(l, k) \in Offsets /\ At(l, k) \in Nat
      /\ pa \in Nat
  BY ListedIs, ItemsAre
<1>2. NextOf(p, pa, multi, i) =
        [idx |-> turn[n].idx, multi |-> IF Given(turn[n]) THEN turn[n].idx ELSE 0]
  BY DEF NextOf, Ways
<1>3. i \in 0 .. n - 1 /\ Reached(l, n, pa, i, first)
  BY WalkIs DEF Starts
<1>4. first \in S[0]
  <2>1. first \in Ways(n) /\ first.idx >= 0
    BY <1>1, <1>3 DEF Reached, Ways
  <2> QED BY <1>1, <1>3, <2>1
<1>5. ASSUME NEW k \in 1 .. n, NEW w \in S[k - 1] PROVE Again[w] \in S[k]
  <2>1. k \in 0 .. n /\ k - 1 \in 0 .. n
    BY <1>1
  <2>2. /\ w \in Ways(n) /\ Reached(l, n, pa, i, w)
        /\ w.idx >= k - 1 \/ ~(Given(w) /\ w.idx <= multi)
    BY <2>1
  <2>3. w.idx \in 0 .. n /\ w.cur \in Offsets
    BY <2>2 DEF Ways
  <2>4. CASE ~(Given(w) /\ w.idx <= multi)
    <3>1. Again[w] = w
      BY <2>2, <2>4
    <3> QED BY <2>1, <2>2, <2>4, <3>1
  <2>5. CASE Given(w) /\ w.idx <= multi
    <3> DEFINE v == Walk(p, pa, multi, w.idx)
    <3>1. Again[w] = v
      BY <2>2, <2>5
    <3>2. w.idx \in 0 .. n - 1 /\ At(l, w.idx) >= pa
      BY <1>1, <2>2, <2>3, <2>5 DEF Reached
    <3>3. Starts(l, n, pa, w.idx)
      BY <2>2, <3>2 DEF Starts, Reached
    <3>4. Reached(l, n, pa, w.idx, v)
      BY <3>3, WalkIs
    <3> HIDE DEF v
    <3>5. v \in Ways(n) /\ v.idx \in 0 .. n /\ v.cur \in Nat
      BY <3>4, ItemsAre DEF Reached, Ways
    <3>6. v.idx > w.idx \/ pa < v.cur
      BY <3>4 DEF Reached
    <3>7. v.idx >= k \/ ~(Given(v) /\ v.idx <= multi)
      <4>1. CASE v.idx > w.idx
        BY <2>1, <2>2, <2>3, <2>5, <3>5, <4>1
      <4>2. CASE pa < v.cur
        BY <1>1, <3>5, <4>2
      <4> QED BY <3>6, <4>1, <4>2
    <3>8. v.idx > i \/ (pa < At(l, i) /\ pa < v.cur)
      <4>1. \A m \in 0 .. n - 1 : pa < At(l, m) => v.idx <= m /\ w.idx <= m
        BY <2>2, <3>4 DEF Reached
      <4>2. w.idx > i
        BY <1>1, <2>2, <2>5 DEF Reached
      <4>3. CASE v.idx > w.idx
        BY <1>3, <2>3, <3>5, <4>2, <4>3
      <4>4. CASE pa < At(l, w.idx) /\ pa < v.cur
        <5>1. v.idx <= w.idx
          BY <3>2, <4>1, <4>4
        <5>2. v.idx >= w.idx \/ ~(v.idx < n)
          <6>1. ASSUME v.idx < w.idx PROVE FALSE
            <7>1. At(l, v.idx) >= pa
              BY <1>1, <2>3, <3>4, <3>5, <6>1 DEF Reached
            <7>2. v.idx \in 0 .. n - 1 /\ At(l, v.idx) \in Nat
              BY <1>1, <2>3, <3>5, <6>1
            <7>3. At(l, v.idx) = pa
              <8>1. ~(w.idx <= v.idx)
                BY <2>3, <6>1, <7>2
              <8>2. ~(pa < At(l, v.idx))
                BY <4>1, <7>2, <8>1
              <8> QED BY <1>1, <7>1, <7>2, <8>2
            <7>4. v.cur = pa
              BY <2>5, <3>4, <7>2, <7>3 DEF Reached
            <7> QED BY <1>1, <4>4, <7>4
          <6> QED BY <2>3, <3>5, <6>1
        <5> QED BY <1>3, <2>3, <3>2, <3>5, <4>2, <5>1, <5>2
      <4> QED BY <3>4, <4>3, <4>4 DEF Reached
    <3>9. Reached(l, n, pa, i, v)
      BY <3>4, <3>8 DEF Reached
    <3> QED BY <2>1, <3>1, <3>5, <3>7, <3>9
  <2> QED BY <2>4, <2>5
<1> HIDE DEF S, first
<1>6. PICK f : Turning(f, n, first, G)
  BY <1>1, TurnsExist
<1>7. \A k \in 1 .. n : G[k] = Again
  OBVIOUS
<1> HIDE DEF G, Again
<1>8. f = [k \in 0 .. n |-> IF k = 0 THEN first ELSE Again[f[k - 1]]]
  <2>1. \A k \in 0 .. n : k # 0 => k \in 1 .. n
    BY <1>1
  <2> QED BY <1>6, <1>7, <2>1 DEF Turning
<1>9. turn = [k \in 0 .. n |-> IF k = 0 THEN first ELSE Again[turn[k - 1]]]
  BY <1>8
<1> HIDE DEF turn
<1>10. Turning(turn, n, first, G)
  <2>1. \A k \in 0 .. n : k # 0 => k \in 1 .. n
    BY <1>1
  <2> QED BY <1>7, <1>9, <2>1 DEF Turning
<1>11. turn[n] \in S[n]
  <2>1. \A k \in 1 .. n : \A w \in S[k - 1] : G[k][w] \in S[k]
    BY <1>5, <1>7
  <2> QED BY <1>1, <1>4, <1>10, <2>1, TurnsIn
<1>12. /\ Reached(l, n, pa, i, turn[n])
       /\ turn[n].idx >= n \/ ~(Given(turn[n]) /\ turn[n].idx <= multi)
  BY <1>1, <1>11 DEF S
<1> DEFINE w == turn[n]
           r == NextOf(p, pa, multi, i)
<1>13. r.idx = w.idx /\ r.multi = IF Given(w) THEN w.idx ELSE 0
  BY <1>2
<1> HIDE DEF w, r
<1>14. w.idx \in 0 .. n /\ Reached(l, n, pa, i, w)
       /\ (w.idx >= n \/ ~(Given(w) /\ w.idx <= multi))
  BY <1>12 DEF w, Reached, Ways
<1>15. ASSUME r.idx < n, At(l, r.idx) = pa, pa # 0 PROVE r.idx > multi /\ r.multi = r.idx
  <2>1. Given(w)
    BY <1>13, <1>14, <1>15 DEF Reached
  <2> QED BY <1>1, <1>13, <1>14, <1>15, <2>1
<1>16. r.idx \in 0 .. n /\ r.multi \in Nat
  BY <1>1, <1>13, <1>14
<1>17. Nexts(l, n, pa, multi, i, r)
  BY <1>13, <1>14, <1>15, <1>16 DEF Nexts, Reached
<1> QED BY <1>17 DEF l, r

-----------------------------------------------------------------------------
(* The dump.  What it still has to tell is the name that comes next, and   *)
(* those behind it: names before that are told, and all if none comes.     *)
Told(l, d, i) ==
  \/ At(l, i) = 0 \/ At(l, i) < d.from
  \/ \E k \in 1 .. Len(d.printed) : At(l, d.printed[k]) = At(l, i)

BlindTo(l, d) == d.from = 0 /\ Len(l) > 2 /\ At(l, 2) = 0

Printed(l, d) ==
  /\ \A k \in 1 .. Len(d.printed) : d.printed[k] \in 0 .. Len(l) - 1
  /\ \A k, m \in 1 .. Len(d.printed) : d.printed[k] = d.printed[m] => k = m

Coming(l, d, multi) ==
  /\ d.label \in 0 .. Len(l) - 1 /\ At(l, d.label) = d.func_pa /\ d.at <= d.func_pa
  /\ \A k \in 1 .. Len(d.printed) : d.printed[k] < d.label
  /\ \A i \in 0 .. d.label - 1 : Told(l, d, i)
  /\ d.on => multi = d.label \/ \A i \in 0 .. d.label - 1 : At(l, i) < At(l, d.label)

Dumping(l, d, multi) ==
  /\ Printed(l, d)
  /\ d.func_pa = 0 => BlindTo(l, d) \/ \A i \in 0 .. Len(l) - 1 : Told(l, d, i)
  /\ d.func_pa # 0 => Coming(l, d, multi)

Dumps == [on : BOOLEAN, from : Offsets, at : Nat, end : Nat, func_pa : Offsets, label : Int,
          silly : Nat, passed : BOOLEAN, gaveUp : BOOLEAN, printed : Seq(Nat)]

DumpTyped ==
  /\ dump \in Dumps /\ multiref \in Nat
  /\ dump.passed => dump.gaveUp
  /\ dump.func_pa # 0 => dump.label \in Nat

DumpHolds ==
  dump = NoDump \/ (PubNames # NULL /\ (dump.gaveUp \/ Dumping(PubNames.items, dump, multiref)))

DumpInv == world \in Worlds /\ PubsHeld /\ DumpTyped /\ DumpHolds

(* What fmtGetPubSym answers.                                              *)
LEMMA AfterIs ==
  ASSUME NEW p, Listed(p), NEW n, n = Len(p.items), n > 0, NEW pa \in Offsets, multiref \in Nat
  PROVE  \E i, r : /\ Near(p.items, n, pa, i) /\ i = la_FindNearest(p, pa)
                   /\ Nexts(p.items, n, pa, multiref, i, r)
                   /\ After(p, pa) = IF r.idx < n
                                     THEN [pa |-> At(p.items, r.idx), label |-> r.idx, multi |-> r.multi]
                                     ELSE [pa |-> 0, label |-> NotFound, multi |-> r.multi]
<1> DEFINE l == p.items
           i == la_FindNearest(p, pa)
           r == NextOf(p, pa, multiref, i)
<1>1. /\ n \in Nat /\ l # <<>> /\ pa \in Nat
      /\ \A k \in 0 .. n - 1 : At(l, k) \in Nat
      /\ \A k, m \in 0 .. n - 1 : k <= m => At(l, k) <= At(l, m)
  <2>1. /\ n \in Nat /\ (n = 0 <=> l = <<>>)
        /\ \A k \in 0 .. n - 1 : At(l, k) \in Nat
        /\ \A k, m \in 0 .. n - 1 : k <= m => At(l, k) <= At(l, m)
    BY ListedIs
  <2> HIDE DEF l
  <2> QED BY <2>1, ItemsAre
<1>2. After(p, pa) = IF r.idx < n THEN [pa |-> At(l, r.idx), label |-> r.idx, multi |-> r.multi]
                     ELSE [pa |-> 0, label |-> NotFound, multi |-> r.multi]
  BY <1>1 DEF After
<1>3. Near(l, n, pa, i)
  BY NameNear
<1> HIDE DEF i, l
<1>4. Starts(l, n, pa, i)
  <2>1. /\ i \in 0 .. n - 1
        /\ \/ At(l, i) = pa
           \/ At(l, i) < pa /\ \A k \in i + 1 .. n - 1 : pa < At(l, k)
           \/ i = 0 /\ pa < At(l, 0)
    BY <1>3 DEF Near
  <2>2. At(l, i) >= pa \/ \A k \in i + 1 .. n - 1 : pa < At(l, k)
    BY <1>1, <2>1
  <2>3. ASSUME NEW k \in 0 .. n - 1, pa < At(l, k) PROVE i <= k
    <3>1. CASE i = 0
      BY <3>1
    <3>2. CASE At(l, i) <= pa
      <4>1. ~(k <= i)
        <5>1. ASSUME k <= i PROVE FALSE
          <6>1. At(l, k) <= At(l, i)
            BY <1>1, <2>1, <5>1
          <6> QED BY <1>1, <2>1, <2>3, <3>2, <6>1
        <5> QED BY <5>1
      <4> QED BY <2>1, <4>1
    <3> QED BY <1>1, <2>1, <3>1, <3>2
  <2> QED BY <2>1, <2>2, <2>3 DEF Starts
<1>5. Nexts(l, n, pa, multiref, i, r)
  BY <1>4, NextIs DEF l
<1> HIDE DEF r
<1> QED BY <1>2, <1>3, <1>5 DEF i, l

(* A dump that starts.                                                     *)
LEMMA StartTold ==
  ASSUME DumpInv, NEW o \in Offsets, NEW end \in 1 .. FLen, DumpStart(o, end)
  PROVE  DumpTyped' /\ DumpHolds'
<1> DEFINE p == PubNames'
           l == p.items
           n == Len(l)
           b == Before(p, o)
           out == IF b.pa # 0 THEN <<b.label>> ELSE <<>>
           a == After(p, o)
           d == [NoDump EXCEPT !.on = TRUE, !.from = o, !.at = o, !.end = end, !.printed = out]
<1>1. p \in List /\ Advanced(p, d)
  BY DEF DumpStart
<1>2. p \in Readings /\ p # NULL /\ Listed(p)
  <2>1. p \in Readings
    BY <1>1 DEF List, DumpInv, PubsHeld
  <2>2. Listed(p) /\ p.nSize = 0
    BY <2>1, ReadingsListed DEF DumpInv
  <2>3. NULL.nSize # 0
    BY DEF NULL
  <2> QED BY <2>1, <2>2, <2>3
<1>3. /\ n \in Nat /\ (n = 0 <=> l = <<>>) /\ o \in Nat /\ end \in Nat
      /\ \A k \in 0 .. n - 1 : At(l, k) \in Offsets /\ At(l, k) \in Nat
      /\ \A k, m \in 0 .. n - 1 : k <= m => At(l, k) <= At(l, m)
  <2>1. end \in Nat
    BY NamesAssumption
  <2> QED BY <1>2, <2>1, ListedIs, ItemsAre
<1>4. multiref' = a.multi /\ dump' = [d EXCEPT !.func_pa = a.pa, !.label = a.label]
  BY <1>1 DEF Advanced
<1>5. dump' = [on |-> TRUE, from |-> o, at |-> o, end |-> end, func_pa |-> a.pa, label |-> a.label,
               silly |-> 0, passed |-> FALSE, gaveUp |-> FALSE, printed |-> out]
  BY <1>4 DEF NoDump
<1>6. multiref \in Nat /\ 0 \in Offsets
  BY NamesAssumption DEF DumpInv, DumpTyped, Offsets
<1> HIDE DEF p, d
<1> DEFINE Goes ==
      /\ multiref' \in Nat /\ a.pa \in Offsets /\ a.label \in Int /\ out \in Seq(Nat)
      /\ a.pa # 0 => a.label \in Nat
      /\ Dumping(l, dump', multiref')
<1>7. ASSUME l = <<>> PROVE Goes
  <2>1. a = [pa |-> 0, label |-> NotFound, multi |-> multiref]
    BY <1>7 DEF After
  <2>2. b = None
    BY <1>7 DEF Before
  <2>3. b.pa = 0
    BY <2>2 DEF None
  <2>4. out = <<>>
    BY <2>3
  <2> HIDE DEF out, b
  <2>5. Printed(l, dump')
    BY <1>5, <2>4 DEF Printed
  <2>6. n = 0 /\ dump'.func_pa = 0
    BY <1>3, <1>5, <1>7, <2>1
  <2>7. Dumping(l, dump', multiref')
    BY <2>5, <2>6 DEF Dumping
  <2> QED BY <1>4, <1>6, <2>1, <2>4, <2>7 DEF NotFound
<1>8. ASSUME l # <<>> PROVE Goes
  <2>0. n > 0
    BY <1>3, <1>8
  <2>1. PICK i, r : /\ Near(l, n, o, i) /\ i = la_FindNearest(p, o)
                    /\ Nexts(l, n, o, multiref, i, r)
                    /\ a = IF r.idx < n THEN [pa |-> At(l, r.idx), label |-> r.idx, multi |-> r.multi]
                           ELSE [pa |-> 0, label |-> NotFound, multi |-> r.multi]
    BY <1>2, <1>6, <2>0, AfterIs
  <2>2. b = IF i = 0 /\ o < At(l, 0) THEN None ELSE [pa |-> At(l, i), label |-> i]
    BY <1>8, <2>1 DEF Before
  <2> HIDE DEF a, b, l, n
  <2>3. /\ i \in 0 .. n - 1 /\ At(l, i) \in Nat
        /\ \/ At(l, i) = o
           \/ At(l, i) < o
           \/ i = 0 /\ o < At(l, 0)
        /\ (\E k \in 0 .. n - 1 : At(l, k) = o) => At(l, i) = o
        /\ n > 1 /\ At(l, 0) = o /\ At(l, 1) = o => i > 0
    BY <1>3, <2>1 DEF Near
  <2>4. /\ r.idx \in 0 .. n /\ r.multi \in Nat
        /\ \A k \in 0 .. n - 1 : o < At(l, k) => r.idx <= k
        /\ r.idx > i \/ o < At(l, i)
        /\ r.idx < n => At(l, r.idx) >= o
        /\ r.idx < n /\ At(l, r.idx) = o /\ o # 0 => r.idx > multiref /\ r.multi = r.idx
    BY <2>1 DEF Nexts
  <2>5. \/ out = <<>> /\ (At(l, i) = 0 \/ (i = 0 /\ o < At(l, 0)))
        \/ out = <<i>> /\ At(l, i) # 0 /\ ~(i = 0 /\ o < At(l, 0))
    <3>1. None.pa = 0
      BY DEF None
    <3> QED BY <2>2, <3>1
  <2> HIDE DEF out
  <2>6. out \in Seq(Nat)
    <3>1. i \in Nat
      BY <1>3, <2>3
    <3>2. <<i>> \in Seq(Nat) /\ <<>> \in Seq(Nat)
      BY <3>1
    <3>3. out = <<i>> \/ out = <<>>
      BY <2>5
    <3> QED BY <3>2, <3>3
  <2>7. a.multi = r.multi /\ a.pa \in Offsets /\ a.label \in Int /\ (a.pa # 0 => a.label \in Nat)
    <3>1. CASE r.idx < n
      BY <1>3, <2>1, <2>4, <3>1
    <3>2. CASE ~(r.idx < n)
      BY <1>6, <2>1, <3>2 DEF NotFound
    <3> QED BY <3>1, <3>2
  <2>8. Printed(l, dump')
    <3>1. n = Len(l)
      BY DEF n
    <3>2. CASE out = <<>>
      BY <1>5, <3>2 DEF Printed
    <3>3. CASE out = <<i>>
      <4>1. dump'.printed = <<i>> /\ Len(<<i>>) = 1 /\ <<i>>[1] = i
        BY <1>5, <3>3
      <4> QED BY <2>3, <3>1, <4>1 DEF Printed
    <3> QED BY <2>5, <3>2, <3>3
  <2>9. ASSUME NEW k \in 0 .. n - 1, k < r.idx PROVE Told(l, dump', k)
    <3>1. At(l, k) <= o /\ At(l, k) \in Nat
      <4>1. ~(o < At(l, k))
        BY <2>4, <2>9
      <4> QED BY <1>3, <4>1
    <3>2. CASE At(l, k) < o \/ At(l, k) = 0
      BY <1>5, <3>2 DEF Told
    <3>3. CASE At(l, k) = o /\ At(l, k) # 0
      <4>1. At(l, i) = o /\ At(l, i) # 0
        BY <2>3, <3>3
      <4>2. out = <<i>>
        BY <1>3, <2>3, <2>5, <4>1
      <4>3. dump'.printed = <<i>> /\ 1 \in 1 .. Len(<<i>>) /\ <<i>>[1] = i
        BY <1>5, <4>2
      <4> QED BY <3>3, <4>1, <4>3 DEF Told
    <3> QED BY <1>3, <3>1, <3>2, <3>3
  <2>10. CASE r.idx < n /\ At(l, r.idx) # 0
    <3>1. dump'.func_pa = At(l, r.idx) /\ dump'.label = r.idx /\ dump'.at = o /\ dump'.on
      BY <1>5, <2>1, <2>10
    <3>2. multiref' = r.multi
      BY <1>4, <2>7
    <3>3. r.idx \in 0 .. n - 1 /\ At(l, r.idx) \in Nat
      BY <1>3, <2>4, <2>10
    <3>4. \A k \in 1 .. Len(out) : out[k] < r.idx
      <4>1. CASE out = <<i>>
        <5>1. ~(o < At(l, i))
          BY <1>3, <2>3, <2>5, <4>1
        <5> QED BY <2>4, <4>1, <5>1
      <4>2. CASE out = <<>>
        BY <4>2
      <4> QED BY <2>5, <4>1, <4>2
    <3>5. r.multi = r.idx \/ \A k \in 0 .. r.idx - 1 : At(l, k) < At(l, r.idx)
      <4>1. CASE At(l, r.idx) = o
        BY <2>4, <2>10, <4>1
      <4>2. CASE At(l, r.idx) # o
        <5>1. ASSUME NEW k \in 0 .. r.idx - 1 PROVE At(l, k) < At(l, r.idx)
          <6>1. k \in 0 .. n - 1 /\ ~(r.idx <= k)
            BY <1>3, <3>3
          <6>2. ~(o < At(l, k))
            BY <2>4, <6>1
          <6> QED BY <1>3, <2>4, <2>10, <3>3, <4>2, <6>1, <6>2
        <5> QED BY <5>1
      <4> QED BY <4>1, <4>2
    <3>6. \A k \in 0 .. r.idx - 1 : Told(l, dump', k)
      <4>1. \A k \in 0 .. r.idx - 1 : k \in 0 .. n - 1 /\ k < r.idx
        BY <1>3, <3>3
      <4> QED BY <2>9, <4>1
    <3>7. o <= At(l, r.idx) /\ dump'.printed = out /\ n = Len(l)
      BY <1>5, <2>4, <2>10, <1>3, <3>3 DEF n
    <3>8. Coming(l, dump', multiref')
      BY <3>1, <3>2, <3>3, <3>4, <3>5, <3>6, <3>7 DEF Coming
    <3>9. Dumping(l, dump', multiref')
      BY <2>8, <2>10, <3>1, <3>8 DEF Dumping
    <3> QED BY <1>4, <2>4, <2>6, <2>7, <3>9
  <2>11. CASE r.idx < n /\ At(l, r.idx) = 0
    <3>1. dump'.func_pa = 0 /\ dump'.from = o
      BY <1>5, <2>1, <2>11
    <3>2. o = 0 /\ r.idx \in 0 .. n - 1
      BY <1>3, <2>4, <2>11
    <3>3. \A k \in 0 .. n - 1 : k <= r.idx => At(l, k) = 0
      BY <1>3, <2>11, <3>2
    <3>4. At(l, i) = 0 /\ r.idx > i
      <4>1. At(l, i) = o
        BY <2>3, <2>11, <3>2
      <4> QED BY <1>3, <2>3, <2>4, <3>2, <4>1
    <3>5. i > 0
      <4>1. ASSUME i = 0 PROVE FALSE
        <5>1. n > 1 /\ 0 \in 0 .. n - 1 /\ 1 \in 0 .. n - 1 /\ 1 <= r.idx
          BY <1>3, <3>2, <3>4, <4>1
        <5>2. At(l, 0) = o /\ At(l, 1) = o
          BY <3>2, <3>3, <5>1
        <5> QED BY <2>3, <4>1, <5>1, <5>2
      <4> QED BY <2>3, <4>1
    <3>6. n > 2 /\ At(l, 2) = 0
      <4>1. n > 2 /\ 2 \in 0 .. n - 1 /\ 2 <= r.idx
        BY <1>3, <2>3, <3>2, <3>4, <3>5
      <4> QED BY <3>3, <4>1
    <3>7. BlindTo(l, dump')
      BY <3>1, <3>2, <3>6 DEF BlindTo, n
    <3>8. Dumping(l, dump', multiref')
      BY <2>8, <3>1, <3>7 DEF Dumping
    <3> QED BY <1>4, <2>4, <2>6, <2>7, <3>8
  <2>12. CASE ~(r.idx < n)
    <3>1. dump'.func_pa = 0
      BY <1>5, <2>1, <2>12
    <3>2. \A k \in 0 .. n - 1 : k < r.idx
      BY <1>3, <2>4, <2>12
    <3>3. \A k \in 0 .. n - 1 : Told(l, dump', k)
      BY <2>9, <3>2
    <3>4. Dumping(l, dump', multiref')
      BY <2>8, <3>1, <3>3 DEF Dumping, n
    <3> QED BY <1>4, <2>4, <2>6, <2>7, <3>4
  <2> QED BY <2>10, <2>11, <2>12
<1>9. Goes
  BY <1>7, <1>8
<1> HIDE DEF a, out
<1>10. dump' \in Dumps /\ ~dump'.passed
  BY <1>3, <1>5, <1>9 DEF Dumps
<1>11. DumpTyped'
  <2>1. dump'.func_pa = a.pa /\ dump'.label = a.label
    BY <1>5
  <2> QED BY <1>9, <1>10, <2>1 DEF DumpTyped
<1>12. DumpHolds'
  BY <1>2, <1>9 DEF DumpHolds, p
<1> QED BY <1>11, <1>12

(* What was told stays so when one more name is.                           *)
LEMMA ToldStays ==
  ASSUME NEW l, NEW d, NEW e, NEW x, NEW k, d.printed \in Seq(Nat), x \in Nat,
         e.printed = Append(d.printed, x), e.from = d.from
  PROVE  /\ Told(l, d, k) => Told(l, e, k)
         /\ At(l, k) = At(l, x) => Told(l, e, k)
         /\ Len(e.printed) = Len(d.printed) + 1 /\ e.printed[Len(e.printed)] = x
         /\ \A m \in 1 .. Len(d.printed) : e.printed[m] = d.printed[m]
<1> DEFINE s == d.printed
           u == e.printed
<1>1. /\ Len(s) \in Nat /\ Len(u) = Len(s) + 1 /\ u[Len(s) + 1] = x
      /\ \A m \in 1 .. Len(s) : u[m] = s[m]
  <2>1. u = Append(s, x) /\ s \in Seq(Nat)
    OBVIOUS
  <2> HIDE DEF s, u
  <2> QED BY <2>1
<1> HIDE DEF s, u
<1>2. 1 .. Len(s) \subseteq 1 .. Len(u) /\ Len(u) \in 1 .. Len(u)
  BY <1>1
<1>3. Told(l, d, k) => Told(l, e, k)
  BY <1>1, <1>2 DEF Told, s, u
<1>4. At(l, k) = At(l, x) => Told(l, e, k)
  <2>1. u[Len(u)] = x
    BY <1>1
  <2> QED BY <1>2, <2>1 DEF Told, u
<1>5. u[Len(u)] = x
  BY <1>1
<1> QED BY <1>1, <1>3, <1>4, <1>5 DEF s, u

(* A name of a dump.                                                       *)
LEMMA NameTold ==
  ASSUME DumpInv, DumpName
  PROVE  DumpTyped' /\ DumpHolds'
<1> DEFINE p == PubNames
           l == p.items
           n == Len(l)
           lbl == dump.label
           pa == dump.at
           silly == dump.silly + 1
           gone == dump.gaveUp \/ silly > Silly
           out == Append(dump.printed, lbl)
           a == After(p, pa)
<1>1. Advanced(p, [dump EXCEPT !.printed = out, !.silly = silly,
                               !.passed = silly > Silly, !.gaveUp = gone])
  BY DEF DumpName
<1>2. dump.on /\ dump.func_pa # 0 /\ dump.func_pa = pa /\ ~dump.passed /\ PubNames' = p
  BY DEF DumpName, Here
<1>3. p # NULL /\ p \in Readings /\ (dump.gaveUp \/ Dumping(l, dump, multiref))
  <2>1. dump # NoDump
    BY <1>2 DEF NoDump
  <2> QED BY <2>1 DEF DumpInv, PubsHeld, DumpHolds
<1>4. Listed(p)
  BY <1>3, ReadingsListed DEF DumpInv
<1>5. /\ n \in Nat /\ (n = 0 <=> l = <<>>)
      /\ \A k \in 0 .. n - 1 : At(l, k) \in Offsets /\ At(l, k) \in Nat
      /\ \A k, m \in 0 .. n - 1 : k <= m => At(l, k) <= At(l, m)
  BY <1>4, ListedIs
<1>6. dump \in Dumps /\ multiref \in Nat /\ lbl \in Nat
  BY <1>2 DEF DumpInv, DumpTyped
<1>7. pa \in Offsets /\ pa \in Nat /\ pa > 0 /\ 0 \in Offsets
  <2>1. dump.func_pa \in Offsets
    BY <1>6 DEF Dumps
  <2> QED BY <1>2, <2>1, ItemsAre, NamesAssumption DEF Offsets
<1>8. /\ dump' = [dump EXCEPT !.printed = out, !.silly = silly, !.passed = silly > Silly,
                              !.gaveUp = gone, !.func_pa = a.pa, !.label = a.label]
      /\ multiref' = a.multi
  BY <1>1 DEF Advanced
<1>9. /\ dump.printed \in Seq(Nat) /\ dump.silly \in Nat /\ dump.gaveUp \in BOOLEAN
      /\ dump.from \in Offsets /\ dump.end \in Nat
  BY <1>6 DEF Dumps
<1>10. out \in Seq(Nat) /\ silly \in Nat /\ (silly > Silly) \in BOOLEAN /\ gone \in BOOLEAN
  BY <1>6, <1>9, NamesAssumption
<1> HIDE DEF out, silly, gone
<1>11. /\ dump'.func_pa = a.pa /\ dump'.label = a.label /\ dump'.from = dump.from
       /\ dump'.at = pa /\ dump'.gaveUp = gone /\ dump'.printed = out
       /\ dump'.passed = (silly > Silly) /\ dump'.on
  BY <1>2, <1>6, <1>8 DEF Dumps
<1> HIDE DEF p, a
<1> DEFINE Goes ==
      /\ a.multi \in Nat /\ a.pa \in Offsets /\ a.label \in Int
      /\ a.pa # 0 => a.label \in Nat
      /\ gone \/ Dumping(l, dump', multiref')
<1>12. ASSUME n = 0 PROVE Goes
  <2>1. a = [pa |-> 0, label |-> NotFound, multi |-> multiref]
    BY <1>5, <1>12 DEF After, a
  <2>2. dump.gaveUp \/ dump.label \in 0 .. n - 1
    BY <1>2, <1>3 DEF Dumping, Coming
  <2>3. gone
    BY <1>12, <2>2 DEF gone
  <2> QED BY <1>6, <1>7, <2>1, <2>3 DEF NotFound
<1>13. ASSUME n > 0 PROVE Goes
  <2>1. PICK i, r : /\ Near(l, n, pa, i) /\ i = la_FindNearest(p, pa)
                    /\ Nexts(l, n, pa, multiref, i, r)
                    /\ a = IF r.idx < n THEN [pa |-> At(l, r.idx), label |-> r.idx, multi |-> r.multi]
                           ELSE [pa |-> 0, label |-> NotFound, multi |-> r.multi]
    BY <1>4, <1>6, <1>7, <1>13, AfterIs DEF a
  <2> HIDE DEF l, n
  <2>2. /\ i \in 0 .. n - 1
        /\ (\E k \in 0 .. n - 1 : At(l, k) = pa) => At(l, i) = pa
    BY <2>1 DEF Near
  <2>3. /\ r.idx \in 0 .. n /\ r.multi \in Nat
        /\ \A k \in 0 .. n - 1 : pa < At(l, k) => r.idx <= k
        /\ r.idx > i \/ pa < At(l, i)
        /\ r.idx < n => At(l, r.idx) >= pa
        /\ r.idx < n /\ At(l, r.idx) = pa /\ pa # 0 => r.idx > multiref /\ r.multi = r.idx
    BY <2>1 DEF Nexts
  <2>4. a.multi = r.multi /\ a.pa \in Offsets /\ a.label \in Int /\ (a.pa # 0 => a.label \in Nat)
    <3>1. CASE r.idx < n
      BY <1>5, <2>1, <2>3, <3>1
    <3>2. CASE ~(r.idx < n)
      BY <1>7, <2>1, <3>2 DEF NotFound
    <3> QED BY <3>1, <3>2
  <2>5. ASSUME ~gone PROVE Dumping(l, dump', multiref')
    <3>1. Coming(l, dump, multiref) /\ Printed(l, dump)
      BY <1>2, <1>3, <2>5 DEF Dumping, gone
    <3>2. /\ lbl \in 0 .. n - 1 /\ At(l, lbl) = pa
          /\ \A k \in 1 .. Len(dump.printed) : dump.printed[k] < lbl
          /\ \A k \in 0 .. lbl - 1 : Told(l, dump, k)
          /\ multiref = lbl \/ \A k \in 0 .. lbl - 1 : At(l, k) < At(l, lbl)
      BY <1>2, <3>1 DEF Coming, n
    <3>3. At(l, i) = pa /\ r.idx > i
      BY <1>7, <2>2, <2>3, <3>2
    <3>4. r.idx > lbl
      <4>1. CASE multiref = lbl
        <5>1. ASSUME r.idx <= lbl PROVE FALSE
          <6>1. r.idx \in 0 .. n - 1
            BY <1>5, <2>3, <3>2, <5>1 DEF n
          <6>2. At(l, r.idx) <= pa
            BY <1>5, <3>2, <5>1, <6>1 DEF n, l
          <6>3. At(l, r.idx) = pa
            BY <1>5, <1>7, <2>3, <6>1, <6>2 DEF n, l
          <6>4. r.idx > lbl
            <7>1. r.idx < n
              BY <1>5, <6>1 DEF n
            <7> QED BY <1>7, <2>3, <4>1, <6>3, <7>1
          <6> QED BY <1>5, <1>6, <5>1, <6>1, <6>4 DEF n
        <5> QED BY <1>6, <2>3, <5>1
      <4>2. CASE \A k \in 0 .. lbl - 1 : At(l, k) < At(l, lbl)
        <5>1. ~(i \in 0 .. lbl - 1)
          BY <1>7, <3>2, <3>3, <4>2
        <5> QED BY <1>6, <2>2, <2>3, <3>3, <5>1
      <4> QED BY <3>2, <4>1, <4>2
    <3>5. /\ \A k : Told(l, dump, k) => Told(l, dump', k)
          /\ \A k : At(l, k) = At(l, lbl) => Told(l, dump', k)
          /\ Len(out) = Len(dump.printed) + 1 /\ out[Len(out)] = lbl
          /\ \A m \in 1 .. Len(dump.printed) : out[m] = dump.printed[m]
      <4>1. dump'.printed = Append(dump.printed, lbl) /\ dump'.printed = out
        BY <1>11 DEF out
      <4> DEFINE e == dump'
                 s == dump.printed
      <4>2. s \in Seq(Nat) /\ lbl \in Nat /\ e.printed = Append(s, lbl) /\ e.from = dump.from
        BY <1>6, <1>9, <1>11, <4>1
      <4>3. e.printed = out
        BY <4>1
      <4> HIDE DEF e
      <4>4. ASSUME NEW k
            PROVE  /\ Told(l, dump, k) => Told(l, e, k)
                   /\ At(l, k) = At(l, lbl) => Told(l, e, k)
                   /\ Len(e.printed) = Len(s) + 1 /\ e.printed[Len(e.printed)] = lbl
                   /\ \A m \in 1 .. Len(s) : e.printed[m] = s[m]
        BY <4>2, ToldStays
      <4> QED BY <4>3, <4>4 DEF e
    <3>6. ASSUME NEW k \in 0 .. n - 1, k < r.idx PROVE Told(l, dump', k)
      <4>1. CASE k < lbl
        BY <1>6, <3>2, <3>5, <4>1
      <4>2. CASE ~(k < lbl)
        <5>1. ~(pa < At(l, k))
          BY <2>3, <3>6
        <5>2. At(l, lbl) <= At(l, k) /\ At(l, k) \in Nat
          BY <1>5, <1>6, <3>2, <4>2 DEF n, l
        <5>3. At(l, k) = At(l, lbl)
          BY <1>7, <3>2, <5>1, <5>2
        <5> QED BY <3>5, <5>3
      <4> QED BY <4>1, <4>2
    <3>7. Len(dump.printed) \in Nat /\ \A k \in 1 .. Len(dump.printed) : dump.printed[k] \in Nat
      BY <1>9
    <3>8. ASSUME NEW k \in 1 .. Len(out)
          PROVE  out[k] \in 0 .. n - 1 /\ out[k] <= lbl
                 /\ (out[k] = lbl => k = Len(out)) /\ (k # Len(out) => k \in 1 .. Len(dump.printed))
      <4>1. k = Len(out) \/ k \in 1 .. Len(dump.printed)
        BY <3>5, <3>7
      <4>2. CASE k = Len(out)
        BY <1>6, <3>2, <3>5, <4>2
      <4>3. CASE k \in 1 .. Len(dump.printed)
        <5>1. out[k] = dump.printed[k] /\ out[k] \in Nat /\ out[k] < lbl
          BY <3>2, <3>5, <3>7, <4>3
        <5> QED BY <1>6, <3>2, <4>3, <5>1 DEF n
      <4> QED BY <4>1, <4>2, <4>3
    <3>9. Printed(l, dump')
      <4>1. ASSUME NEW k \in 1 .. Len(out), NEW m \in 1 .. Len(out), out[k] = out[m] PROVE k = m
        <5>1. CASE k = Len(out) \/ m = Len(out)
          BY <3>5, <3>8, <4>1, <5>1
        <5>2. CASE k # Len(out) /\ m # Len(out)
          <6>1. k \in 1 .. Len(dump.printed) /\ m \in 1 .. Len(dump.printed)
            BY <3>8, <5>2
          <6>2. dump.printed[k] = dump.printed[m]
            BY <3>5, <4>1, <6>1
          <6> QED BY <3>1, <6>1, <6>2 DEF Printed
        <5> QED BY <5>1, <5>2
      <4> QED BY <1>11, <3>8, <4>1 DEF Printed, n
    <3>10. CASE r.idx < n
      <4>1. dump'.label = r.idx /\ dump'.func_pa = At(l, r.idx) /\ multiref' = r.multi
        BY <1>8, <1>11, <2>1, <3>10
      <4>2. r.idx \in 0 .. n - 1 /\ pa <= At(l, r.idx) /\ At(l, r.idx) \in Nat
        BY <1>5, <1>7, <2>3, <3>10 DEF n, l
      <4>3. \A k \in 1 .. Len(out) : out[k] < r.idx
        BY <1>6, <2>3, <3>4, <3>8
      <4>4. \A k \in 0 .. r.idx - 1 : k \in 0 .. n - 1 /\ k < r.idx
        BY <1>5, <4>2 DEF n
      <4>5. r.multi = r.idx \/ \A k \in 0 .. r.idx - 1 : At(l, k) < At(l, r.idx)
        <5>1. CASE At(l, r.idx) = pa
          BY <1>7, <2>3, <3>10, <5>1
        <5>2. CASE At(l, r.idx) # pa
          <6>1. ASSUME NEW k \in 0 .. r.idx - 1 PROVE At(l, k) < At(l, r.idx)
            <7>1. k \in 0 .. n - 1 /\ ~(r.idx <= k) /\ At(l, k) \in Nat
              BY <1>5, <4>2, <4>4 DEF n, l
            <7>2. ~(pa < At(l, k))
              BY <2>3, <7>1
            <7> QED BY <1>7, <4>2, <5>2, <7>1, <7>2
          <6> QED BY <6>1
        <5> QED BY <5>1, <5>2
      <4>6. \A k \in 0 .. r.idx - 1 : Told(l, dump', k)
        BY <3>6, <4>4
      <4>7. Coming(l, dump', multiref')
        BY <1>11, <4>1, <4>2, <4>3, <4>5, <4>6 DEF Coming, n
      <4>8. dump'.func_pa # 0
        BY <1>7, <4>1, <4>2
      <4> QED BY <3>9, <4>7, <4>8 DEF Dumping
    <3>11. CASE ~(r.idx < n)
      <4>1. dump'.func_pa = 0
        BY <1>11, <2>1, <3>11
      <4>2. \A k \in 0 .. n - 1 : k < r.idx
        BY <1>5, <2>3, <3>11 DEF n
      <4>3. \A k \in 0 .. n - 1 : Told(l, dump', k)
        BY <3>6, <4>2
      <4> QED BY <3>9, <4>1, <4>3 DEF Dumping, n
    <3> QED BY <3>10, <3>11
  <2>6. Dumping(l, dump', multiref') \/ gone
    BY <2>5
  <2> QED BY <2>3, <2>4, <2>6 DEF l
<1>14. Goes
  BY <1>5, <1>12, <1>13
<1>15. dump' \in Dumps
  <2>1. a.pa \in Offsets /\ a.label \in Int
    BY <1>14
  <2> QED BY <1>6, <1>8, <1>10, <2>1 DEF Dumps
<1>16. dump'.passed => dump'.gaveUp
  BY <1>11 DEF gone
<1>17. DumpTyped'
  BY <1>8, <1>11, <1>14, <1>15, <1>16 DEF DumpTyped
<1>18. DumpHolds'
  BY <1>2, <1>3, <1>11, <1>14 DEF DumpHolds, p
<1> QED BY <1>17, <1>18

(* The rest of a division.                                                 *)
LEMMA RestIs ==
  ASSUME NEW x \in Int, NEW u \in Nat \ {0}
  PROVE  x % u \in Nat /\ (x >= 0 => x % u <= x)
<1>1. x % u \in 0 .. u - 1
  BY SMT
<1>2. ASSUME x >= 0, x < u PROVE x % u = x
  BY <1>2, SMT
<1>3. ASSUME x >= 0 PROVE x % u <= x
  <2>1. CASE x < u
    BY <1>2, <1>3, <2>1
  <2>2. CASE ~(x < u)
    BY <1>1, <2>2
  <2> QED BY <2>1, <2>2
<1> QED BY <1>1, <1>3

(* An instruction of a dump does not go beyond the name that comes next.   *)
LEMMA InstrTold ==
  ASSUME DumpInv, NEW len \in 1 .. MaxInsn, DumpInstr(len)
  PROVE  DumpTyped' /\ DumpHolds'
<1> DEFINE l == PubNames.items
           pa == dump.func_pa
           at == dump.at
           stop == IF pa # 0 /\ pa < FLen THEN pa ELSE FLen
           rest == (stop - at) % UCHAR
           step == IF at # stop /\ at + len > stop THEN rest ELSE len
           on == ~Ends(step)
<1>1. /\ dump.on /\ (~Here \/ dump.passed)
      /\ dump' = [dump EXCEPT !.at = at + step, !.on = on, !.silly = 0, !.passed = FALSE]
      /\ PubNames' = PubNames /\ multiref' = multiref
  BY DEF DumpInstr
<1>2. /\ dump \in Dumps /\ multiref \in Nat
      /\ dump.passed => dump.gaveUp
      /\ pa # 0 => dump.label \in Nat
  BY DEF DumpInv, DumpTyped
<1>3. /\ pa \in Offsets /\ pa \in Nat /\ at \in Nat /\ dump.gaveUp \in BOOLEAN
      /\ FLen \in Nat /\ UCHAR \in Nat \ {0} /\ len \in Nat /\ pa < FLen
  <2>1. pa \in Offsets /\ at \in Nat /\ dump.gaveUp \in BOOLEAN
    BY <1>2 DEF Dumps
  <2>2. FLen \in Nat /\ UCHAR \in Nat \ {0} /\ MaxInsn \in Nat
    BY NamesAssumption
  <2> QED BY <2>1, <2>2 DEF Offsets
<1>4. stop \in Nat /\ (pa # 0 => stop = pa)
  BY <1>3
<1>5. rest \in Nat /\ (stop >= at => rest <= stop - at)
  <2> HIDE DEF stop
  <2>1. stop - at \in Int /\ (stop >= at => stop - at >= 0)
    BY <1>3, <1>4
  <2> QED BY <1>3, <2>1, RestIs
<1> HIDE DEF rest, stop
<1>6. step \in Nat /\ (at < stop => at + step <= stop)
  <2>1. CASE at # stop /\ at + len > stop
    BY <1>3, <1>4, <1>5, <2>1
  <2>2. CASE ~(at # stop /\ at + len > stop)
    BY <1>3, <1>4, <2>2
  <2> QED BY <2>1, <2>2
<1>7. on \in BOOLEAN
  OBVIOUS
<1> HIDE DEF step, on
<1>8. /\ dump'.func_pa = pa /\ dump'.label = dump.label /\ dump'.from = dump.from
      /\ dump'.at = at + step /\ dump'.gaveUp = dump.gaveUp /\ dump'.printed = dump.printed
      /\ dump'.passed = FALSE
  BY <1>1, <1>2 DEF Dumps
<1>9. dump' \in Dumps
  <2>1. at + step \in Nat
    BY <1>3, <1>6
  <2> HIDE DEF at
  <2> QED BY <1>1, <1>2, <1>7, <2>1 DEF Dumps
<1>10. DumpTyped'
  BY <1>1, <1>2, <1>8, <1>9 DEF DumpTyped
<1>11. PubNames # NULL /\ (dump.gaveUp \/ Dumping(l, dump, multiref))
  <2>1. dump # NoDump
    BY <1>1 DEF NoDump
  <2> QED BY <2>1 DEF DumpInv, DumpHolds
<1>12. ASSUME ~dump.gaveUp PROVE Dumping(l, dump', multiref)
  <2>1. Dumping(l, dump, multiref) /\ ~Here
    BY <1>1, <1>2, <1>11, <1>12
  <2> HIDE DEF l
  <2>2. Printed(l, dump')
    BY <1>8, <2>1 DEF Dumping, Printed
  <2>3. \A k : Told(l, dump, k) => Told(l, dump', k)
    BY <1>8 DEF Told
  <2>4. ASSUME pa = 0 PROVE BlindTo(l, dump') \/ \A k \in 0 .. Len(l) - 1 : Told(l, dump', k)
    <3>1. BlindTo(l, dump) => BlindTo(l, dump')
      BY <1>8 DEF BlindTo
    <3> QED BY <2>1, <2>3, <2>4, <3>1 DEF Dumping
  <2>5. ASSUME pa # 0 PROVE Coming(l, dump', multiref)
    <3>1. Coming(l, dump, multiref)
      BY <2>1, <2>5 DEF Dumping
    <3>2. at <= pa /\ at # pa
      BY <2>1, <2>5, <3>1 DEF Coming, Here
    <3>3. at + step <= pa
      BY <1>3, <1>4, <1>6, <2>5, <3>2
    <3> QED BY <1>1, <1>8, <2>3, <3>1, <3>3 DEF Coming
  <2> QED BY <1>8, <2>2, <2>4, <2>5 DEF Dumping
<1>13. DumpHolds'
  BY <1>1, <1>3, <1>8, <1>11, <1>12 DEF DumpHolds
<1> QED BY <1>10, <1>13

(* Without a dump there is nothing to tell.                                *)
LEMMA NothingTold ==
  NoDump \in Dumps /\ ~NoDump.passed /\ NoDump.func_pa = 0
<1>1. 0 \in Offsets
  BY NamesAssumption DEF Offsets
<1>2. <<>> \in Seq(Nat)
  OBVIOUS
<1> QED BY <1>1, <1>2 DEF NoDump, Dumps

(* A dump starts only when no other goes on, so that what the other        *)
(* handlers do to multiref_i is not asked for any more.                    *)
LEMMA AskingTold ==
  ASSUME DumpInv, NEW o \in Offsets, WhereAMI(o)
  PROVE  DumpTyped' /\ DumpHolds'
<1> DEFINE p == PubNames'
           l == p.items
           n == Len(l)
<1>1. ~dump.on /\ p \in List /\ multiref' = After(p, o).multi /\ dump' = dump
  BY DEF WhereAMI
<1>2. p \in Readings /\ Listed(p) /\ (PubNames # NULL => p = PubNames)
  <2>1. p \in Readings /\ (PubNames # NULL => p = PubNames)
    BY <1>1 DEF List, DumpInv, PubsHeld
  <2> QED BY <2>1, ReadingsListed DEF DumpInv
<1>3. n \in Nat /\ (n = 0 <=> l = <<>>) /\ multiref \in Nat
  BY <1>2, ListedIs DEF DumpInv, DumpTyped
<1>4. After(p, o).multi \in Nat
  <2> HIDE DEF p
  <2>1. CASE n = 0
    BY <1>3, <2>1 DEF After
  <2>2. CASE n > 0
    <3>1. PICK i, r : /\ Nexts(l, n, o, multiref, i, r)
                      /\ After(p, o) = IF r.idx < n
                                       THEN [pa |-> At(l, r.idx), label |-> r.idx, multi |-> r.multi]
                                       ELSE [pa |-> 0, label |-> NotFound, multi |-> r.multi]
      BY <1>2, <1>3, <2>2, AfterIs
    <3>2. r.multi \in Nat
      BY <3>1 DEF Nexts
    <3> QED BY <3>1, <3>2
  <2> QED BY <1>3, <2>1, <2>2
<1>5. DumpTyped'
  BY <1>1, <1>4 DEF DumpInv, DumpTyped
<1>6. ASSUME dump # NoDump PROVE PubNames # NULL /\ p = PubNames /\ (dump.gaveUp \/ Dumping(l, dump, multiref'))
  <2>1. PubNames # NULL /\ p = PubNames /\ (dump.gaveUp \/ Dumping(l, dump, multiref))
    BY <1>2, <1>6 DEF DumpInv, DumpHolds
  <2> HIDE DEF p, l
  <2>2. Dumping(l, dump, multiref) => Dumping(l, dump, multiref')
    BY <1>1 DEF Dumping, Coming
  <2> QED BY <2>1, <2>2
<1>7. DumpHolds'
  BY <1>1, <1>6 DEF DumpHolds
<1> QED BY <1>5, <1>7

(* Any other step leaves the dump and multiref_i alone, or ends a dump.    *)
LEMMA OthersTold ==
  ASSUME DumpInv,
         \/ dump' = dump /\ multiref' = multiref /\ (PubNames' \in List \/ PubNames' = PubNames)
         \/ dump' = NoDump /\ multiref' \in Nat
  PROVE  DumpTyped' /\ DumpHolds'
<1>1. CASE dump' = NoDump /\ multiref' \in Nat
  BY <1>1, NothingTold DEF DumpTyped, DumpHolds
<1>2. CASE dump' = dump /\ multiref' = multiref /\ (PubNames' \in List \/ PubNames' = PubNames)
  <2>1. DumpTyped'
    BY <1>2 DEF DumpInv, DumpTyped
  <2>2. dump = NoDump \/ PubNames' = PubNames
    BY <1>2 DEF DumpInv, DumpHolds, List
  <2>3. DumpHolds'
    BY <1>2, <2>2 DEF DumpInv, DumpHolds
  <2> QED BY <2>1, <2>3
<1> QED BY <1>1, <1>2

(* The invariant of the dump is inductive.                                 *)
LEMMA DumpGoesOn ==
  ASSUME DumpInv, [Next]_vars
  PROVE  DumpInv'
<1> DEFINE Holds == DumpTyped' /\ DumpHolds'
<1>1. ASSUME NEW o \in Offsets, NEW name \in Words, NEW memory \in BOOLEAN,
             udnAddItem(o, name, memory)
      PROVE  Holds
  BY <1>1, OthersTold DEF udnAddItem
<1>2. ASSUME NEW i \in 0 .. MaxNames - 1, udnDeleteItem(i) PROVE Holds
  BY <1>2, OthersTold DEF udnDeleteItem
<1>3. ASSUME NEW f \in UserFiles \cup {NoFile}, udnLoadList(f) PROVE Holds
  BY <1>3, OthersTold DEF udnLoadList
<1>4. ASSUME NEW f \in UserFiles \cup {NoFile}, udnSaveList(f) PROVE Holds
  BY <1>4, OthersTold DEF udnSaveList
<1>5. ASSUME Restart PROVE Holds
  <2>1. dump' = NoDump /\ multiref' \in Nat
    BY <1>5 DEF Restart
  <2> QED BY <2>1, OthersTold
<1>6. ASSUME fmtFindPubName PROVE Holds
  BY <1>6, OthersTold DEF fmtFindPubName
<1>7. ASSUME NEW o \in Offsets, WhereAMI(o) PROVE Holds
  BY <1>7, AskingTold
<1>8. ASSUME NEW o \in Offsets, NEW end \in 1 .. FLen, DumpStart(o, end) PROVE Holds
  BY <1>8, StartTold
<1>9. ASSUME DumpName PROVE Holds
  BY <1>9, NameTold
<1>10. ASSUME NEW len \in 1 .. MaxInsn, DumpInstr(len) PROVE Holds
  BY <1>10, InstrTold
<1>11. ASSUME DumpStop PROVE Holds
  <2>1. dump' = NoDump /\ multiref' \in Nat
    BY <1>11 DEF DumpStop, DumpInv, DumpTyped
  <2> QED BY <2>1, OthersTold
<1>12. ASSUME UNCHANGED vars PROVE Holds
  BY <1>12, OthersTold DEF vars
<1>13. Holds
  BY <1>1, <1>2, <1>3, <1>4, <1>5, <1>6, <1>7, <1>8, <1>9, <1>10, <1>11, <1>12 DEF Next, DumpStep
<1>14. world' = world /\ (PubNames' \in List \/ PubNames' = PubNames \/ PubNames' = NULL)
  BY DEF Next, DumpStep, vars, Quiet, udnAddItem, udnDeleteItem, udnLoadList, udnSaveList, Restart,
         fmtFindPubName, WhereAMI, DumpStart, DumpName, DumpInstr, DumpStop
<1>15. PubsHeld'
  BY <1>14 DEF DumpInv, PubsHeld, List, Readings
<1> QED BY <1>13, <1>14, <1>15 DEF DumpInv

(* LabelsDumped for every list of names of the format, every length of an  *)
(* instruction and every order of dumps and of questions for names: since  *)
(* the names only ever go up the list, the name that comes next is at or   *)
(* behind the dump, and none before it is left out or is put a second time *)
(* (bin_util.c:67-111, fileutil.c:440-461, 529-549).                       *)
THEOREM LabelsAreDumped == Spec => []LabelsDumped
<1>1. DumpInv => LabelsDumped
  <2> SUFFICES ASSUME DumpInv, PubNames # NULL, ~dump.gaveUp
               PROVE  /\ \/ Blind
                         \/ \A i \in Passed : \E k \in 1 .. Len(dump.printed) :
                              At(PubNames.items, dump.printed[k]) = At(PubNames.items, i)
                      /\ \A k, n \in 1 .. Len(dump.printed) :
                           dump.printed[k] = dump.printed[n] => k = n
    BY DEF LabelsDumped
  <2> DEFINE l == PubNames.items
             n == Len(l)
  <2>1. Listed(PubNames)
    BY ReadingsListed DEF DumpInv, PubsHeld
  <2>2. n \in Nat /\ \A i \in 0 .. n - 1 : At(l, i) \in Offsets /\ At(l, i) \in Nat
    BY <2>1, ListedIs
  <2>3. \A i \in 0 .. n - 1 : \A j \in 0 .. n - 1 : i <= j => At(l, i) <= At(l, j)
    BY <2>1, ListedIs
  <2>4. dump \in Dumps
    BY DEF DumpInv, DumpTyped
  <2>5. dump.at \in Nat /\ dump.from \in Nat
    BY <2>4, ItemsAre DEF Dumps
  <2>6. ASSUME NEW i \in Passed
        PROVE  /\ i \in 0 .. n - 1 /\ At(l, i) # 0
               /\ dump.from <= At(l, i) /\ At(l, i) < dump.at /\ ~(At(l, i) < dump.from)
    BY <2>2, <2>5 DEF Passed
  <2>7. CASE dump = NoDump
    <3>1. dump.at = 0 /\ dump.printed = <<>> /\ Len(<<>>) = 0
      BY <2>7 DEF NoDump
    <3>2. ASSUME NEW i \in Passed PROVE FALSE
      BY <2>2, <2>6, <3>1
    <3> QED BY <3>1, <3>2
  <2>8. CASE dump # NoDump
    <3>1. Dumping(l, dump, multiref)
      BY <2>8 DEF DumpInv, DumpHolds
    <3>2. Printed(l, dump)
      BY <3>1 DEF Dumping
    <3>3. ASSUME ~Blind, NEW i \in Passed PROVE Told(l, dump, i)
      <4>1. i \in 0 .. n - 1 /\ At(l, i) < dump.at
        BY <2>6
      <4>2. CASE dump.func_pa = 0
        <5>1. ~BlindTo(l, dump)
          BY <3>3 DEF Blind, BlindTo
        <5> QED BY <3>1, <4>1, <4>2, <5>1 DEF Dumping
      <4>3. CASE dump.func_pa # 0
        <5>1. Coming(l, dump, multiref)
          BY <3>1, <4>3 DEF Dumping
        <5> HIDE DEF l
        <5>2. /\ dump.label \in 0 .. n - 1 /\ At(l, dump.label) >= dump.at
              /\ \A k \in 0 .. dump.label - 1 : Told(l, dump, k)
          BY <5>1 DEF Coming
        <5>3. ~(dump.label <= i)
          <6>1. ASSUME dump.label <= i PROVE FALSE
            <7>1. At(l, dump.label) <= At(l, i)
              BY <2>3, <4>1, <5>2, <6>1
            <7> HIDE DEF n
            <7> QED BY <2>2, <2>5, <4>1, <5>2, <7>1
          <6> QED BY <6>1
        <5>4. i \in 0 .. dump.label - 1
          <6> HIDE DEF n
          <6> QED BY <2>2, <4>1, <5>2, <5>3
        <5> QED BY <5>2, <5>4
      <4> QED BY <4>2, <4>3
    <3>4. ASSUME ~Blind, NEW i \in Passed
          PROVE  \E k \in 1 .. Len(dump.printed) : At(l, dump.printed[k]) = At(l, i)
      <4>1. Told(l, dump, i)
        BY <3>3, <3>4
      <4> HIDE DEF l
      <4> QED BY <2>6, <4>1 DEF Told
    <3> QED BY <3>2, <3>4 DEF Printed
  <2> QED BY <2>7, <2>8
<1>2. Init => DumpInv
  BY NothingTold DEF Init, DumpInv, PubsHeld, DumpTyped, DumpHolds
<1>3. DumpInv /\ [Next]_vars => DumpInv'
  BY DumpGoesOn
<1> QED BY <1>1, <1>2, <1>3, PTL DEF Spec
=============================================================================
