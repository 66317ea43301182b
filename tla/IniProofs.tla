----------------------------- MODULE IniProofs ------------------------------
(***************************************************************************)
(* Proofs about Ini, for a program that has memory for its cache: what the *)
(* cache is flushed to is read as the cache, so that the file implements   *)
(* the settings of Settings.                                               *)
(***************************************************************************)
EXTENDS Ini, TLAPS, WellFoundedInduction, FiniteSetTheorems, FunctionTheorems, SequenceTheorems

(* Induction on the numbers up to n.                                       *)
LEMMA RangeInduction ==
  ASSUME NEW n \in Nat, NEW P, 0 \in P,
         \A i \in 0 .. n - 1 : i \in P => i + 1 \in P
  PROVE  \A i \in 0 .. n : i \in P
<1> DEFINE Wrong == {i \in Nat : i \in 0 .. n /\ i \notin P}
<1>1. Wrong = {}
  <2> SUFFICES ASSUME Wrong # {} PROVE FALSE
    OBVIOUS
  <2>1. PICK m \in Wrong : \A b \in Wrong : ~(<<b, m>> \in OpToRel(<, Nat))
    <3>1. Wrong \subseteq Nat
      OBVIOUS
    <3> HIDE DEF Wrong
    <3> QED BY <3>1, NatLessThanWellFounded, WFMin
  <2>2. m \in Nat /\ m \in 0 .. n /\ m \notin P /\ m # 0
    OBVIOUS
  <2>3. m - 1 \in Nat /\ m - 1 \in 0 .. n - 1 /\ (m - 1) + 1 = m
    BY <2>2
  <2>4. <<m - 1, m>> \in OpToRel(<, Nat)
    BY <2>2, <2>3 DEF OpToRel
  <2>5. m - 1 \notin Wrong
    BY <2>1, <2>4
  <2>6. m - 1 \in P
    BY <2>3, <2>5
  <2>7. (m - 1) + 1 \in P
    BY <2>3, <2>6
  <2> QED BY <2>2, <2>3, <2>7
<1> QED BY <1>1

-----------------------------------------------------------------------------
(* The keys in order.                                                      *)
Triple == Nat \X Nat \X (Nat \ {0})

(* Before is a strict order of them in which any two are comparable.       *)
LEMMA BeforeIsOrder ==
  ASSUME NEW j \in Triple, NEW k \in Triple, NEW l \in Triple
  PROVE  /\ ~Before(k, k)
         /\ Before(j, k) /\ Before(k, l) => Before(j, l)
         /\ j = k \/ Before(j, k) \/ Before(k, j)
<1>1. /\ j[1] \in Nat /\ j[2] \in Nat /\ j[3] \in Nat /\ j = <<j[1], j[2], j[3]>>
      /\ k[1] \in Nat /\ k[2] \in Nat /\ k[3] \in Nat /\ k = <<k[1], k[2], k[3]>>
      /\ l[1] \in Nat /\ l[2] \in Nat /\ l[3] \in Nat
  BY DEF Triple
<1>2. j[1] = k[1] /\ j[2] = k[2] /\ j[3] = k[3] => j = k
  BY <1>1
<1> QED BY <1>1, <1>2 DEF Before

Rank(S) == [k \in S |-> Cardinality({j \in S : Before(j, k)})]

(* The rank of a key tells it from all others, and there is one for every  *)
(* number.                                                                 *)
LEMMA RanksAre ==
  ASSUME NEW S, S \subseteq Triple, IsFiniteSet(S), NEW N, N = Cardinality(S)
  PROVE  /\ N \in Nat
         /\ \A k \in S : Rank(S)[k] \in 0 .. N - 1
         /\ \A j, k \in S : Before(j, k) => Rank(S)[j] < Rank(S)[k]
         /\ \A i \in 0 .. N - 1 : \E k \in S : Rank(S)[k] = i
<1> DEFINE Less(k) == {j \in S : Before(j, k)}
           rank == Rank(S)
           T == 0 .. N - 1
<1>1. N \in Nat
  BY FS_CardinalityType
<1>2. ASSUME NEW k \in S PROVE Less(k) \in SUBSET S /\ k \notin Less(k)
  BY <1>2, BeforeIsOrder
<1>3. ASSUME NEW k \in S
      PROVE  IsFiniteSet(Less(k)) /\ rank[k] = Cardinality(Less(k)) /\ rank[k] \in 0 .. N - 1
  <2> HIDE DEF Less
  <2>1. IsFiniteSet(Less(k)) /\ Cardinality(Less(k)) <= N /\ (N = Cardinality(Less(k)) => S = Less(k))
    BY <1>2, FS_Subset
  <2>2. Cardinality(Less(k)) \in Nat /\ Cardinality(Less(k)) # N
    BY <1>2, <2>1, FS_CardinalityType
  <2>3. rank[k] = Cardinality(Less(k))
    BY DEF Less, Rank
  <2> QED BY <1>1, <2>1, <2>2, <2>3
<1>9. \A k \in S : rank[k] \in 0 .. N - 1 /\ rank[k] \in Int
  <2> HIDE DEF Less
  <2>1. \A k \in S : rank[k] \in 0 .. N - 1
    BY <1>3
  <2> QED BY <1>1, <2>1
<1>4. ASSUME NEW j \in S, NEW k \in S, Before(j, k) PROVE rank[j] < rank[k]
  <2>1. Less(j) \in SUBSET Less(k)
    <3>1. ASSUME NEW i \in S, Before(i, j) PROVE Before(i, k)
      BY <1>4, <3>1, BeforeIsOrder
    <3> QED BY <3>1
  <2>2. j \in Less(k) /\ j \notin Less(j)
    BY <1>2, <1>4
  <2> HIDE DEF Less
  <2>3. Cardinality(Less(j)) <= Cardinality(Less(k)) /\ Cardinality(Less(j)) # Cardinality(Less(k))
    BY <1>3, <2>1, <2>2, FS_Subset
  <2>4. rank[j] \in Int /\ rank[k] \in Int
    BY <1>9
  <2>5. rank[j] = Cardinality(Less(j)) /\ rank[k] = Cardinality(Less(k))
    BY <1>3
  <2> QED BY <2>3, <2>4, <2>5
<1>5. rank \in [S -> T] /\ \A j, k \in S : rank[j] = rank[k] => j = k
  <2>1. rank \in [S -> T]
    BY <1>9 DEF Rank
  <2>2. ASSUME NEW j \in S, NEW k \in S, rank[j] = rank[k] PROVE j = k
    <3>1. rank[j] \in Int /\ rank[k] \in Int
      BY <1>9
    <3>2. ~Before(j, k) /\ ~Before(k, j)
      BY <1>4, <2>2, <3>1
    <3> QED BY <3>2, BeforeIsOrder
  <2> HIDE DEF T, rank
  <2> QED BY <2>1, <2>2
<1>6. IsFiniteSet(T) /\ Cardinality(T) = N
  <2> DEFINE a == 0
             b == N - 1
  <2>1. a \in Int /\ b \in Int
    BY <1>1
  <2> HIDE DEF a, b
  <2>2. IsFiniteSet(a .. b) /\ Cardinality(a .. b) = IF a > b THEN 0 ELSE b - a + 1
    BY <2>1, FS_Interval
  <2>3. Cardinality(a .. b) = N
    <3>1. (IF a > b THEN 0 ELSE b - a + 1) = N
      BY <1>1 DEF a, b
    <3> QED BY <2>2, <3>1
  <2> QED BY <2>2, <2>3 DEF a, b
<1> HIDE DEF T, rank
<1>7. rank \in Injection(S, T)
  BY <1>5, Fun_IsInj
<1>8. rank \in Surjection(S, T)
  BY <1>6, <1>7, FS_Injection
<1>10. \A i \in T : \E k \in S : rank[k] = i
  BY <1>8 DEF Surjection
<1> QED BY <1>1, <1>9, <1>4, <1>10 DEF T, rank

(* The keys of a cache, as they are written: each once, and in order.      *)
LEMMA OrderIs ==
  ASSUME NEW S, S \subseteq Triple, IsFiniteSet(S), NEW N, N = Cardinality(S),
         NEW keys, keys = InOrder(S)
  PROVE  /\ N \in Nat /\ keys \in [1 .. N -> S] /\ keys \in Seq(S) /\ Len(keys) = N
         /\ \A k \in S : \E n \in 1 .. N : keys[n] = k
         /\ \A n, m \in 1 .. N : n < m => Before(keys[n], keys[m])
         /\ \A n, m \in 1 .. N : keys[n] = keys[m] => n = m
<1> DEFINE rank == Rank(S)
<1>1. /\ N \in Nat
      /\ \A k \in S : rank[k] \in 0 .. N - 1
      /\ \A j, k \in S : Before(j, k) => rank[j] < rank[k]
      /\ \A i \in 0 .. N - 1 : \E k \in S : rank[k] = i
  BY RanksAre
<1>2. ASSUME NEW n \in 1 .. N PROVE keys[n] \in S /\ rank[keys[n]] = n - 1
  <2>1. n - 1 \in 0 .. N - 1
    BY <1>1
  <2>2. \E k \in S : Cardinality({j \in S : Before(j, k)}) = n - 1
    <3>1. PICK k \in S : rank[k] = n - 1
      BY <1>1, <2>1
    <3> QED BY <3>1 DEF Rank
  <2>3. keys[n] = CHOOSE k \in S : Cardinality({j \in S : Before(j, k)}) = n - 1
    BY DEF InOrder
  <2> QED BY <2>2, <2>3 DEF Rank
<1>3. keys \in [1 .. N -> S]
  BY <1>2 DEF InOrder
<1> HIDE DEF rank
<1>4. keys \in Seq(S) /\ Len(keys) = N
  BY <1>1, <1>3
<1>5. ASSUME NEW n \in 1 .. N, NEW m \in 1 .. N
      PROVE  (n < m => Before(keys[n], keys[m])) /\ (keys[n] = keys[m] => n = m)
  <2>1. /\ keys[n] \in S /\ keys[m] \in S /\ rank[keys[n]] = n - 1 /\ rank[keys[m]] = m - 1
        /\ n \in Int /\ m \in Int
    BY <1>1, <1>2
  <2>2. keys[n] = keys[m] => n = m
    BY <2>1
  <2>3. ASSUME n < m PROVE Before(keys[n], keys[m])
    <3>1. keys[n] # keys[m] /\ ~(rank[keys[m]] < rank[keys[n]])
      BY <2>1, <2>3
    <3>2. ~Before(keys[m], keys[n])
      BY <1>1, <2>1, <3>1
    <3>3. keys[n] \in Triple /\ keys[m] \in Triple
      BY <2>1
    <3> QED BY <3>1, <3>2, <3>3, BeforeIsOrder
  <2> QED BY <2>2, <2>3
<1>6. ASSUME NEW k \in S PROVE \E n \in 1 .. N : keys[n] = k
  <2>1. rank[k] \in 0 .. N - 1
    BY <1>1
  <2> DEFINE n == rank[k] + 1
  <2>2. n \in 1 .. N /\ rank[k] = n - 1
    BY <1>1, <2>1
  <2> HIDE DEF n
  <2>3. keys[n] \in S /\ rank[keys[n]] = rank[k]
    BY <1>2, <2>2
  <2>4. rank[k] \in Int
    BY <2>1
  <2>5. ~Before(keys[n], k) /\ ~Before(k, keys[n])
    BY <1>1, <2>3, <2>4
  <2> QED BY <2>2, <2>3, <2>5, BeforeIsOrder
<1> QED BY <1>1, <1>3, <1>4, <1>5, <1>6

-----------------------------------------------------------------------------
(* Reading.                                                                *)
Turned(f, p, lines) ==
  f = [n \in 0 .. Len(lines) |->
         IF n = 0 THEN p ELSE Only({FiFileProcessor(was, lines[n]) : was \in {f[n - 1]}})]

Turning(f, p, lines) ==
  /\ f[0] = p
  /\ \A n \in 1 .. Len(lines) : f[n] = FiFileProcessor(f[n - 1], lines[n])

(* The one member of a set of one.                                         *)
LEMMA OnlyOne ==
  ASSUME NEW x
  PROVE  Only({x}) = x
BY DEF Only

(* What is evaluated once is what it would be otherwise.                   *)
LEMMA OnlyTurn ==
  ASSUME NEW p, NEW l
  PROVE  Only({FiFileProcessor(was, l) : was \in {p}}) = FiFileProcessor(p, l)
<1>1. {FiFileProcessor(was, l) : was \in {p}} = {FiFileProcessor(p, l)}
  OBVIOUS
<1> QED BY <1>1, OnlyOne

(* There is such a function for every sequence of lines.                   *)
LEMMA TurnsExist ==
  ASSUME NEW p, NEW lines, Len(lines) \in Nat
  PROVE  \E f : Turned(f, p, lines)
<1> DEFINE N == Len(lines)
           Goes(f, n) == f = [k \in 0 .. n |->
                           IF k = 0 THEN p
                           ELSE Only({FiFileProcessor(was, lines[k]) : was \in {f[k - 1]}})]
           P == {n \in 0 .. N : \E f : Goes(f, n)}
<1>1. 0 \in P
  <2>1. Goes([k \in 0 .. 0 |-> p], 0)
    <3>1. \A k \in 0 .. 0 : k = 0
      OBVIOUS
    <3>2. \A f : [k \in 0 .. 0 |-> p]
                = [k \in 0 .. 0 |->
                     IF k = 0 THEN p
                     ELSE Only({FiFileProcessor(was, lines[k]) : was \in {f[k - 1]}})]
      BY <3>1
    <3> QED BY <3>2
  <2>2. 0 \in 0 .. N
    OBVIOUS
  <2> HIDE DEF Goes
  <2> QED BY <2>1, <2>2
<1>2. ASSUME NEW n \in 0 .. N - 1, n \in P PROVE n + 1 \in P
  <2>1. PICK f : Goes(f, n)
    BY <1>2
  <2> DEFINE g == [k \in 0 .. n + 1 |->
                     IF k = n + 1 THEN Only({FiFileProcessor(was, lines[n + 1]) : was \in {f[n]}})
                     ELSE f[k]]
  <2>2. n \in Nat /\ n + 1 \in 0 .. N
    OBVIOUS
  <2>3. ASSUME NEW k \in 0 .. n + 1
        PROVE  g[k] = IF k = 0 THEN p
                      ELSE Only({FiFileProcessor(was, lines[k]) : was \in {g[k - 1]}})
    <3>1. CASE k = n + 1
      <4>1. k # 0 /\ k - 1 = n /\ n \in 0 .. n + 1 /\ n # n + 1
        BY <2>2, <3>1
      <4>2. g[k - 1] = f[n]
        BY <4>1
      <4>3. g[k] = Only({FiFileProcessor(was, lines[k]) : was \in {f[n]}})
        BY <3>1
      <4> HIDE DEF g
      <4> QED BY <4>1, <4>2, <4>3
    <3>2. CASE k # n + 1
      <4>1. k \in 0 .. n /\ (k # 0 => k - 1 \in 0 .. n + 1 /\ k - 1 # n + 1)
        BY <2>2, <3>2
      <4>2. g[k] = f[k] /\ (k # 0 => g[k - 1] = f[k - 1])
        BY <3>2, <4>1
      <4> HIDE DEF g
      <4>3. f[k] = IF k = 0 THEN p
                   ELSE Only({FiFileProcessor(was, lines[k]) : was \in {f[k - 1]}})
        BY <2>1, <4>1
      <4> QED BY <4>2, <4>3
    <3> QED BY <3>1, <3>2
  <2>4. Goes(g, n + 1)
    BY <2>3
  <2> HIDE DEF g, Goes
  <2> QED BY <2>2, <2>4
<1> HIDE DEF P
<1>3. N \in P
  <2> HIDE DEF N
  <2>1. N \in Nat /\ N \in 0 .. N
    BY DEF N
  <2>2. \A k \in 0 .. N - 1 : k \in P => k + 1 \in P
    BY <1>2
  <2>3. \A k \in 0 .. N : k \in P
    BY <2>1, <2>2, <1>1, RangeInduction
  <2> QED BY <2>1, <2>3
<1> QED BY <1>3 DEF P, Turned

(* The function that reads.                                                *)
LEMMA ReadsBy ==
  ASSUME NEW p, NEW lines, Len(lines) \in Nat
  PROVE  \E f : Turning(f, p, lines) /\ f[Len(lines)] = ReadOn(p, lines)
<1> DEFINE turn == CHOOSE f : Turned(f, p, lines)
<1>1. Turned(turn, p, lines)
  BY TurnsExist
<1>2. ReadOn(p, lines) = turn[Len(lines)]
  BY DEF ReadOn, Turned
<1> HIDE DEF turn
<1>3. turn[0] = p
  BY <1>1 DEF Turned
<1>4. ASSUME NEW n \in 1 .. Len(lines) PROVE turn[n] = FiFileProcessor(turn[n - 1], lines[n])
  <2>1. n \in 0 .. Len(lines) /\ n # 0
    OBVIOUS
  <2>2. turn[n] = Only({FiFileProcessor(was, lines[n]) : was \in {turn[n - 1]}})
    BY <1>1, <2>1 DEF Turned
  <2> QED BY <2>2, OnlyTurn
<1> QED BY <1>2, <1>3, <1>4 DEF Turning

(* A line more.                                                            *)
LEMMA ReadsMore ==
  ASSUME NEW S, NEW p, NEW s \in Seq(S), NEW l \in S
  PROVE  ReadOn(p, Append(s, l)) = FiFileProcessor(ReadOn(p, s), l)
<1> DEFINE t == Append(s, l)
           n == Len(s)
<1>1. n \in Nat /\ Len(t) = n + 1 /\ t[n + 1] = l /\ \A k \in 1 .. n : t[k] = s[k]
  OBVIOUS
<1> HIDE DEF t, n
<1>2. PICK f : Turning(f, p, s) /\ f[n] = ReadOn(p, s)
  BY <1>1, ReadsBy DEF n
<1>3. PICK g : Turning(g, p, t) /\ g[n + 1] = ReadOn(p, t)
  BY <1>1, ReadsBy
<1>4. /\ f[0] = p /\ g[0] = p
      /\ \A k \in 1 .. n : f[k] = FiFileProcessor(f[k - 1], s[k])
      /\ \A k \in 1 .. n + 1 : g[k] = FiFileProcessor(g[k - 1], t[k])
  BY <1>1, <1>2, <1>3 DEF Turning, n
<1> DEFINE P == {k \in 0 .. n : f[k] = g[k]}
<1>5. 0 \in P
  BY <1>1, <1>4
<1>6. ASSUME NEW k \in 0 .. n - 1, k \in P PROVE k + 1 \in P
  <2>1. k + 1 \in 1 .. n /\ k + 1 \in 1 .. n + 1 /\ k + 1 \in 0 .. n /\ (k + 1) - 1 = k
    BY <1>1
  <2>2. f[k + 1] = FiFileProcessor(f[k], s[k + 1]) /\ g[k + 1] = FiFileProcessor(g[k], t[k + 1])
    BY <1>4, <2>1
  <2> QED BY <1>1, <1>6, <2>1, <2>2
<1> HIDE DEF P
<1>7. n \in P
  <2>1. n \in Nat /\ n \in 0 .. n
    BY <1>1
  <2>2. \A k \in 0 .. n - 1 : k \in P => k + 1 \in P
    BY <1>6
  <2> HIDE DEF n
  <2>3. \A k \in 0 .. n : k \in P
    BY <2>1, <2>2, <1>5, RangeInduction
  <2> QED BY <2>1, <2>3
<1>8. f[n] = g[n]
  BY <1>7 DEF P
<1>9. g[n + 1] = FiFileProcessor(g[n], l)
  <2>1. n + 1 \in 1 .. n + 1 /\ (n + 1) - 1 = n
    BY <1>1
  <2> QED BY <1>1, <1>4, <2>1
<1> QED BY <1>2, <1>3, <1>8, <1>9 DEF t

(* No line.                                                                *)
LEMMA ReadsNothing ==
  ASSUME NEW p
  PROVE  ReadOn(p, <<>>) = p
<1>1. Len(<<>>) = 0
  OBVIOUS
<1>2. PICK f : Turning(f, p, <<>>) /\ f[0] = ReadOn(p, <<>>)
  BY <1>1, ReadsBy
<1> QED BY <1>2 DEF Turning

-----------------------------------------------------------------------------
(* What is flushed, and how it is read.                                    *)
Lines == ({<<"nosmart">>, <<"smart">>} \cup {<<"section", n>> : n \in Nat})
         \cup ({<<"subsection", n>> : n \in Nat} \cup {<<"item", n, v>> : n \in Nat, v \in Values})

(* One line more, and two, and three.                                      *)
LEMMA Joined ==
  ASSUME NEW S, NEW s \in Seq(S), NEW x \in S, NEW y \in S, NEW z \in S
  PROVE  /\ s \o (<<>> \o <<>>) = s
         /\ s \o (<<x>> \o <<>>) = Append(s, x)
         /\ s \o (<<>> \o <<y>>) = Append(s, y)
         /\ s \o (<<x>> \o <<y>>) = Append(Append(s, x), y)
         /\ s \o <<x>> = Append(s, x)
         /\ s \o <<x, y, z>> = Append(Append(Append(s, x), y), z)
<1>1. <<x>> \in Seq(S) /\ <<y>> \in Seq(S) /\ <<x, y, z>> \in Seq(S) /\ <<>> \in Seq(S)
  OBVIOUS
<1>2. <<>> \o <<>> = <<>> /\ <<x>> \o <<>> = <<x>> /\ <<>> \o <<y>> = <<y>>
  OBVIOUS
<1>3. <<x>> \o <<y>> = <<x, y>>
  <2>1. /\ Len(<<x>>) = 1 /\ Len(<<y>>) = 1 /\ <<x>>[1] = x /\ <<y>>[1] = y
        /\ <<x>> \o <<y>> \in Seq(S) /\ <<x, y>> \in Seq(S)
    BY <1>1
  <2>2. Len(<<x>> \o <<y>>) = 2 /\ (<<x>> \o <<y>>)[1] = x /\ (<<x>> \o <<y>>)[2] = y
    BY <1>1, <2>1
  <2> DEFINE a == <<x>> \o <<y>>
             b == <<x, y>>
  <2>3. /\ a \in Seq(S) /\ b \in Seq(S) /\ Len(a) = 2 /\ Len(b) = 2
        /\ \A i \in 1 .. Len(a) : a[i] = b[i]
    BY <2>1, <2>2
  <2> HIDE DEF a, b
  <2>4. a = b
    BY <2>3, SeqEqual
  <2> QED BY <2>4 DEF a, b
<1>4. s \o <<>> = s
  OBVIOUS
<1>5. s \o <<x>> = Append(s, x) /\ s \o <<y>> = Append(s, y)
  OBVIOUS
<1>6. s \o <<x, y>> = Append(Append(s, x), y)
  OBVIOUS
<1>7. s \o <<x, y, z>> = Append(Append(Append(s, x), y), z)
  OBVIOUS
<1> QED BY <1>2, <1>3, <1>4, <1>5, <1>6, <1>7

(* A reader in section n and subsection m, and one that takes texts as they *)
(* are written.                                                             *)
At(n, m, found) ==
  [sect |-> n, sub |-> m, smart |-> TRUE, var |-> Unset, bad |-> FALSE, found |-> found,
   ifs |-> <<>>]
Fenced(n, m, found) ==
  [sect |-> n, sub |-> m, smart |-> FALSE, var |-> Unset, bad |-> FALSE, found |-> found,
   ifs |-> <<>>]

Item(k, text) == [key |-> k, value |-> text, top |-> TRUE, smart |-> text # Percent]

(* A section starts outside of its subsections.                             *)
LEMMA SectionRead ==
  ASSUME NEW k, NEW found, NEW n, NEW m
  PROVE  FiFileProcessor(At(n, m, found), <<"section", k>>) = At(k, 0, found)
<1>1. At(n, m, found).ifs = <<>>
  BY DEF At
<1> QED BY <1>1 DEF FiFileProcessor, FiStringProcessor, At

(* A subsection stays in its section.                                      *)
LEMMA SubsectionRead ==
  ASSUME NEW k, NEW found, NEW n, NEW m
  PROVE  FiFileProcessor(At(n, m, found), <<"subsection", k>>) = At(n, k, found)
<1>1. At(n, m, found).ifs = <<>>
  BY DEF At
<1> QED BY <1>1 DEF FiFileProcessor, FiStringProcessor, At

(* The two lines of a fence.                                               *)
LEMMA FenceRead ==
  ASSUME NEW found, NEW n, NEW m
  PROVE  /\ FiFileProcessor(At(n, m, found), <<"nosmart">>) = Fenced(n, m, found)
         /\ FiFileProcessor(Fenced(n, m, found), <<"smart">>) = At(n, m, found)
<1>1. At(n, m, found).ifs = <<>> /\ Fenced(n, m, found).ifs = <<>>
  BY DEF At, Fenced
<1>2. FiFileProcessor(At(n, m, found), <<"nosmart">>) = Fenced(n, m, found)
  BY <1>1 DEF FiFileProcessor, FiStringProcessor, FiCommandProcessor, At, Fenced
<1>3. FiFileProcessor(Fenced(n, m, found), <<"smart">>) = At(n, m, found)
  BY <1>1 DEF FiFileProcessor, FiStringProcessor, FiCommandProcessor, At, Fenced
<1> QED BY <1>2, <1>3

(* An item is found with the text it was written with: outside of a fence   *)
(* if the text is not read as the variable, inside if it would be.          *)
LEMMA ItemFound ==
  ASSUME NEW k \in Triple, NEW found, NEW text, text # Unset
  PROVE  /\ text # Percent => FiFileProcessor(At(k[1], k[2], found), <<"item", k[3], text>>)
                              = At(k[1], k[2], Append(found, Item(k, text)))
         /\ text = Percent => FiFileProcessor(Fenced(k[1], k[2], found), <<"item", k[3], text>>)
                              = Fenced(k[1], k[2], Append(found, Item(k, text)))
<1> DEFINE p == IF text = Percent THEN Fenced(k[1], k[2], found) ELSE At(k[1], k[2], found)
           l == <<"item", k[3], text>>
           new == Item(k, text)
<1>1. /\ p.ifs = <<>> /\ p.sect = k[1] /\ p.sub = k[2] /\ p.bad = FALSE /\ p.found = found
      /\ p.smart = (text # Percent)
  BY DEF At, Fenced
<1>2. Expanded(p, text) = text
  BY <1>1 DEF Expanded
<1>3. l[1] = "item" /\ l[2] = k[3] /\ l[3] = text
  OBVIOUS
<1>4. k = <<k[1], k[2], k[3]>>
  BY DEF Triple
<1> HIDE DEF p, l
<1>5. Key(p, k[3]) = k
  BY <1>1, <1>4 DEF Key
<1>6. FiFileProcessor(p, l) = [p EXCEPT !.bad = @ \/ text = Unset,
             !.found = Append(@, [key |-> Key(p, k[3]), value |-> text,
                                  top |-> p.ifs = <<>>, smart |-> p.smart])]
  BY <1>1, <1>2, <1>3 DEF FiFileProcessor, FiStringProcessor
<1>7. [key |-> Key(p, k[3]), value |-> text, top |-> p.ifs = <<>>, smart |-> p.smart] = new
  <2>1. (p.ifs = <<>>) = TRUE
    BY <1>1
  <2> QED BY <1>1, <1>5, <2>1 DEF Item
<1>8. (p.bad \/ text = Unset) = FALSE
  BY <1>1
<1>9. FiFileProcessor(p, l) = [p EXCEPT !.bad = FALSE, !.found = Append(found, new)]
  BY <1>1, <1>6, <1>7, <1>8
<1> HIDE DEF new
<1>10. ASSUME text # Percent
       PROVE  p = At(k[1], k[2], found) /\ FiFileProcessor(p, l) = At(k[1], k[2], Append(found, new))
  <2>1. p = At(k[1], k[2], found)
    BY <1>10 DEF p
  <2> QED BY <2>1, <1>9 DEF At
<1>11. ASSUME text = Percent
       PROVE  /\ p = Fenced(k[1], k[2], found)
              /\ FiFileProcessor(p, l) = Fenced(k[1], k[2], Append(found, new))
  <2>1. p = Fenced(k[1], k[2], found)
    BY <1>11 DEF p
  <2> QED BY <2>1, <1>9 DEF At, Fenced
<1> QED BY <1>10, <1>11 DEF l, new

(* The lines s bring the reader there, with what it has found.              *)
Leads(s, n, m, found) == s \in Seq(Lines) /\ ReadOn(Fresh(TRUE), s) = At(n, m, found)

Follows(k, prev) == /\ prev[1] \in Nat /\ prev[2] \in Nat
                    /\ prev[1] < k[1] \/ (prev[1] = k[1] /\ prev[2] <= k[2])

(* The lines before an item bring the reader to its section and subsection. *)
LEMMA HeaderRead ==
  ASSUME NEW s, NEW found, NEW k \in Triple, NEW prev, Follows(k, prev),
         Leads(s, prev[1], prev[2], found)
  PROVE  Leads(s \o Header(k, prev), k[1], k[2], found)
<1> DEFINE p == Fresh(TRUE)
<1> SUFFICES ASSUME prev[1] \in Nat, prev[2] \in Nat,
                    prev[1] < k[1] \/ (prev[1] = k[1] /\ prev[2] <= k[2]),
                    s \in Seq(Lines), ReadOn(p, s) = At(prev[1], prev[2], found)
             PROVE  /\ s \o Header(k, prev) \in Seq(Lines)
                    /\ ReadOn(p, s \o Header(k, prev)) = At(k[1], k[2], found)
  BY DEF Leads, Follows
<1> HIDE DEF p
<1> DEFINE x == <<"section", k[1]>>
           y == <<"subsection", k[2]>>
           a == prev[1]
           b == prev[2]
           q == At(a, b, found)
<1>1. k[1] \in Nat /\ k[2] \in Nat /\ x \in Lines /\ y \in Lines
  <2>1. k[1] \in Nat /\ k[2] \in Nat
    BY DEF Triple
  <2> QED BY <2>1 DEF Lines
<1>2. ReadOn(p, s) = q
  OBVIOUS
<1>3. /\ FiFileProcessor(q, x) = At(k[1], 0, found)
      /\ FiFileProcessor(q, y) = At(a, k[2], found)
      /\ FiFileProcessor(At(k[1], 0, found), y) = At(k[1], k[2], found)
  <2>1. FiFileProcessor(q, x) = At(k[1], 0, found)
    BY SectionRead
  <2>2. FiFileProcessor(q, y) = At(a, k[2], found)
    BY SubsectionRead
  <2>3. FiFileProcessor(At(k[1], 0, found), y) = At(k[1], k[2], found)
    BY SubsectionRead
  <2> QED BY <2>1, <2>2, <2>3
<1>4. /\ s \o (<<>> \o <<>>) = s
      /\ s \o (<<x>> \o <<>>) = Append(s, x)
      /\ s \o (<<>> \o <<y>>) = Append(s, y)
      /\ s \o (<<x>> \o <<y>>) = Append(Append(s, x), y)
  <2> HIDE DEF x, y
  <2> QED BY <1>1, Joined
<1>5. Header(k, prev) = (IF k[1] # a THEN <<x>> ELSE <<>>)
         \o (IF k[2] # 0 /\ (k[1] # a \/ k[2] # b) THEN <<y>> ELSE <<>>)
  <2>1. (<<k[1], k[2]>> # <<prev[1], prev[2]>>) = (k[1] # a \/ k[2] # b)
    OBVIOUS
  <2> QED BY <2>1 DEF Header
<1>6. a \in Nat /\ b \in Nat /\ (a < k[1] \/ (a = k[1] /\ b <= k[2]))
  OBVIOUS
<1>7. /\ Append(s, x) \in Seq(Lines) /\ Append(s, y) \in Seq(Lines)
      /\ Append(Append(s, x), y) \in Seq(Lines)
  <2> HIDE DEF x, y
  <2>1. Append(s, x) \in Seq(Lines) /\ Append(s, y) \in Seq(Lines)
    BY <1>1
  <2> DEFINE t == Append(s, x)
  <2>2. t \in Seq(Lines)
    BY <2>1
  <2> HIDE DEF t
  <2>3. Append(t, y) \in Seq(Lines)
    BY <1>1, <2>2
  <2> QED BY <2>1, <2>3 DEF t
<1>8. /\ ReadOn(p, Append(s, x)) = FiFileProcessor(q, x)
      /\ ReadOn(p, Append(s, y)) = FiFileProcessor(q, y)
      /\ ReadOn(p, Append(Append(s, x), y)) = FiFileProcessor(FiFileProcessor(q, x), y)
  <2> HIDE DEF x, y, q
  <2>1. /\ ReadOn(p, Append(s, x)) = FiFileProcessor(q, x)
        /\ ReadOn(p, Append(s, y)) = FiFileProcessor(q, y)
    BY <1>1, <1>2, ReadsMore
  <2> DEFINE t == Append(s, x)
  <2>2. t \in Seq(Lines) /\ ReadOn(p, t) = FiFileProcessor(q, x)
    BY <1>7, <2>1
  <2> HIDE DEF t
  <2>3. ReadOn(p, Append(t, y)) = FiFileProcessor(ReadOn(p, t), y)
    BY <1>1, <2>2, ReadsMore
  <2> QED BY <2>1, <2>2, <2>3 DEF t
<1>9. q = At(a, b, found)
  OBVIOUS
<1> HIDE DEF x, y, q, a, b
<1>10. CASE k[1] # a /\ k[2] = 0
  <2>1. s \o Header(k, prev) = Append(s, x)
    BY <1>4, <1>5, <1>10
  <2> QED BY <1>2, <1>3, <1>7, <1>8, <1>10, <2>1
<1>11. CASE k[1] # a /\ k[2] # 0
  <2>1. s \o Header(k, prev) = Append(Append(s, x), y)
    BY <1>4, <1>5, <1>11
  <2> QED BY <1>2, <1>3, <1>7, <1>8, <2>1
<1>12. CASE k[1] = a /\ k[2] # b
  <2>1. k[2] # 0
    BY <1>1, <1>6, <1>12
  <2>2. s \o Header(k, prev) = Append(s, y)
    BY <1>4, <1>5, <1>12, <2>1
  <2> QED BY <1>2, <1>3, <1>7, <1>8, <1>12, <2>2
<1>13. CASE k[1] = a /\ k[2] = b
  <2>1. s \o Header(k, prev) = s
    BY <1>4, <1>5, <1>13
  <2> QED BY <1>2, <1>9, <1>13, <2>1
<1> QED BY <1>10, <1>11, <1>12, <1>13

(* The line of an item, with the fence around it, is read as the item.     *)
LEMMA ItemRead ==
  ASSUME NEW s, NEW found, NEW k \in Triple, NEW text \in Values, Leads(s, k[1], k[2], found)
  PROVE  Leads(s \o out_item(k[3], text, TRUE), k[1], k[2], Append(found, Item(k, text)))
<1> DEFINE p == Fresh(TRUE)
           wrote == out_item(k[3], text, TRUE)
<1> SUFFICES ASSUME s \in Seq(Lines), ReadOn(p, s) = At(k[1], k[2], found)
             PROVE  /\ s \o wrote \in Seq(Lines)
                    /\ ReadOn(p, s \o wrote) = At(k[1], k[2], Append(found, Item(k, text)))
  BY DEF Leads
<1> HIDE DEF p
<1> DEFINE x == <<"nosmart">>
           y == <<"item", k[3], text>>
           z == <<"smart">>
           q == At(k[1], k[2], found)
           more == Append(found, Item(k, text))
<1>1. k[3] \in Nat /\ k = <<k[1], k[2], k[3]>> /\ x \in Lines /\ y \in Lines /\ z \in Lines
  <2>1. k[3] \in Nat /\ k = <<k[1], k[2], k[3]>>
    BY DEF Triple
  <2> QED BY <2>1 DEF Lines
<1>2. ReadOn(p, s) = q
  OBVIOUS
<1>3. text # Unset
  BY IniAssumption DEF Values
<1>4. s \o <<y>> = Append(s, y) /\ s \o <<x, y, z>> = Append(Append(Append(s, x), y), z)
  BY <1>1, Joined
<1>5. /\ FiFileProcessor(q, x) = Fenced(k[1], k[2], found)
      /\ FiFileProcessor(Fenced(k[1], k[2], more), z) = At(k[1], k[2], more)
  BY FenceRead
<1>6. text = Percent => FiFileProcessor(Fenced(k[1], k[2], found), y) = Fenced(k[1], k[2], more)
  BY <1>3, ItemFound
<1>7. text # Percent => FiFileProcessor(q, y) = At(k[1], k[2], more)
  BY <1>3, ItemFound
<1>8. wrote = IF text = Percent THEN <<x, y, z>> ELSE <<y>>
  BY DEF out_item
<1> HIDE DEF x, y, z, q, more, wrote
<1>9. CASE text = Percent
  <2> DEFINE t == Append(s, x)
             u == Append(t, y)
             v == Append(u, z)
  <2>1. t \in Seq(Lines) /\ ReadOn(p, t) = FiFileProcessor(q, x)
    BY <1>1, <1>2, ReadsMore
  <2>2. s \o wrote = v
    BY <1>4, <1>8, <1>9
  <2>3. v = Append(u, z) /\ u = Append(t, y)
    OBVIOUS
  <2> HIDE DEF t, u, v
  <2>4. u \in Seq(Lines) /\ ReadOn(p, u) = FiFileProcessor(ReadOn(p, t), y)
    <3>1. u \in Seq(Lines)
      BY <1>1, <2>1, <2>3
    <3>2. ReadOn(p, Append(t, y)) = FiFileProcessor(ReadOn(p, t), y)
      BY <1>1, <2>1, ReadsMore
    <3> QED BY <2>3, <3>1, <3>2
  <2>5. v \in Seq(Lines) /\ ReadOn(p, v) = FiFileProcessor(ReadOn(p, u), z)
    <3>1. v \in Seq(Lines)
      BY <1>1, <2>3, <2>4
    <3>2. ReadOn(p, Append(u, z)) = FiFileProcessor(ReadOn(p, u), z)
      BY <1>1, <2>4, ReadsMore
    <3> QED BY <2>3, <3>1, <3>2
  <2> QED BY <1>2, <1>5, <1>6, <1>9, <2>1, <2>2, <2>4, <2>5 DEF more
<1>10. CASE text # Percent
  <2>1. Append(s, y) \in Seq(Lines) /\ ReadOn(p, Append(s, y)) = FiFileProcessor(q, y)
    BY <1>1, <1>2, ReadsMore
  <2> QED BY <1>2, <1>4, <1>7, <1>8, <1>10, <2>1 DEF more
<1> QED BY <1>9, <1>10

-----------------------------------------------------------------------------
(* The file a cache is flushed to.                                         *)
Cache == [Keys -> Values \cup {Unset}]

Stored(c) == {key \in Keys : c[key] # Unset}

Last(keys, n) == IF n = 1 THEN <<0, 0, 0>> ELSE keys[n - 1]

Put(f, c, keys, n) ==
  IF n = 0 THEN <<>>
  ELSE (f[n - 1] \o Header(keys[n], Last(keys, n))) \o out_item(keys[n][3], c[keys[n]], TRUE)

Outs(f, c, keys) == f = [n \in 0 .. Len(keys) |-> Put(f, c, keys, n)]

(* There is a function that writes a cache.                                *)
LEMMA OutsExist ==
  ASSUME NEW c, NEW keys, Len(keys) \in Nat
  PROVE  \E f : Outs(f, c, keys)
<1> DEFINE N == Len(keys)
           Goes(f, n) == f = [k \in 0 .. n |-> Put(f, c, keys, k)]
           P == {n \in 0 .. N : \E f : Goes(f, n)}
<1>1. 0 \in P
  <2> DEFINE f == [k \in 0 .. 0 |-> <<>>]
  <2>1. \A k \in 0 .. 0 : Put(f, c, keys, k) = <<>>
    <3>1. \A k \in 0 .. 0 : k = 0
      OBVIOUS
    <3> QED BY <3>1 DEF Put
  <2>2. Goes(f, 0)
    BY <2>1
  <2>3. 0 \in 0 .. N
    OBVIOUS
  <2> HIDE DEF Goes
  <2> QED BY <2>2, <2>3
<1>2. ASSUME NEW n \in 0 .. N - 1, n \in P PROVE n + 1 \in P
  <2>1. PICK f : Goes(f, n)
    BY <1>2
  <2> DEFINE new == (f[n] \o Header(keys[n + 1], Last(keys, n + 1)))
                    \o out_item(keys[n + 1][3], c[keys[n + 1]], TRUE)
             g == [k \in 0 .. n + 1 |-> IF k = n + 1 THEN new ELSE f[k]]
  <2>2. n \in Nat /\ n + 1 \in 0 .. N
    OBVIOUS
  <2>3. ASSUME NEW k \in 0 .. n + 1 PROVE g[k] = Put(g, c, keys, k)
    <3>1. CASE k = n + 1
      <4>1. k # 0 /\ k - 1 = n /\ n \in 0 .. n + 1 /\ n # n + 1
        BY <2>2, <3>1
      <4> HIDE DEF new
      <4>2. g[k - 1] = f[n] /\ g[k] = new
        BY <4>1, <3>1
      <4> HIDE DEF g
      <4>3. Put(g, c, keys, k) = (g[k - 1] \o Header(keys[k], Last(keys, k)))
                                      \o out_item(keys[k][3], c[keys[k]], TRUE)
        BY <4>1 DEF Put
      <4> QED BY <3>1, <4>2, <4>3 DEF new
    <3>2. CASE k # n + 1
      <4>1. k \in 0 .. n /\ (k # 0 => k - 1 \in 0 .. n + 1 /\ k - 1 # n + 1)
        BY <2>2, <3>2
      <4> HIDE DEF new
      <4>2. g[k] = f[k] /\ (k # 0 => g[k - 1] = f[k - 1])
        BY <3>2, <4>1
      <4> HIDE DEF g
      <4>3. f[k] = Put(f, c, keys, k)
        BY <2>1, <4>1
      <4>4. Put(g, c, keys, k) = Put(f, c, keys, k)
        BY <4>2 DEF Put
      <4> QED BY <4>2, <4>3, <4>4
    <3> QED BY <3>1, <3>2
  <2>4. Goes(g, n + 1)
    <3> HIDE DEF new
    <3> QED BY <2>3
  <2> HIDE DEF g, Goes
  <2> QED BY <2>2, <2>4
<1> HIDE DEF P
<1>3. N \in P
  <2> HIDE DEF N
  <2>1. N \in Nat /\ N \in 0 .. N
    BY DEF N
  <2>2. \A k \in 0 .. N - 1 : k \in P => k + 1 \in P
    BY <1>2
  <2>3. \A k \in 0 .. N : k \in P
    BY <2>1, <2>2, <1>1, RangeInduction
  <2> QED BY <2>1, <2>3
<1> QED BY <1>3 DEF P, Outs

(* A function with one place more.                                         *)
LEMMA AppendIs ==
  ASSUME NEW T, NEW n \in Nat, NEW f \in [1 .. n + 1 -> T]
  PROVE  Append([m \in 1 .. n |-> f[m]], f[n + 1]) = [m \in 1 .. n + 1 |-> f[m]]
<1> DEFINE a == [m \in 1 .. n |-> f[m]]
           b == [m \in 1 .. n + 1 |-> f[m]]
<1>1. n + 1 \in 1 .. n + 1 /\ f[n + 1] \in T /\ \A m \in 1 .. n : m \in 1 .. n + 1
  OBVIOUS
<1>2. a \in Seq(T) /\ Len(a) = n /\ b \in Seq(T) /\ Len(b) = n + 1
  BY <1>1
<1>3. (\A m \in 1 .. n : a[m] = f[m]) /\ (\A m \in 1 .. n + 1 : b[m] = f[m])
  BY <1>1
<1> HIDE DEF a, b
<1> DEFINE e == Append(a, f[n + 1])
<1>4. e \in Seq(T) /\ Len(e) = n + 1 /\ e[n + 1] = f[n + 1] /\ \A m \in 1 .. n : e[m] = a[m]
  BY <1>1, <1>2
<1>5. \A m \in 1 .. n + 1 : m = n + 1 \/ m \in 1 .. n
  OBVIOUS
<1> HIDE DEF e
<1>6. \A m \in 1 .. n + 1 : e[m] = b[m]
  BY <1>1, <1>3, <1>4, <1>5
<1>7. e = b
  BY <1>2, <1>4, <1>6, SeqEqual
<1> QED BY <1>7 DEF e, a, b

Found(c, keys, n) == [m \in 1 .. n |-> Item(keys[m], c[keys[m]])]

(* What is flushed is read as one item for each key that has a value.      *)
LEMMA FlushRead ==
  ASSUME NEW c \in Cache, NEW keys, keys = InOrder(Stored(c))
  PROVE  /\ Flushed(c, TRUE) \in Seq(Lines)
         /\ ReadOn(Fresh(TRUE), Flushed(c, TRUE)).smart = TRUE
         /\ ReadOn(Fresh(TRUE), Flushed(c, TRUE)).found = Found(c, keys, Len(keys))
<1> DEFINE S == Stored(c)
           N == Cardinality(S)
           out == CHOOSE f : Outs(f, c, keys)
           sect(n) == IF n = 0 THEN 0 ELSE keys[n][1]
           sub(n)  == IF n = 0 THEN 0 ELSE keys[n][2]
           P == {n \in 0 .. N : Leads(out[n], sect(n), sub(n), Found(c, keys, n))}
<1>1. S \subseteq Keys /\ S \subseteq Triple /\ IsFiniteSet(S)
  <2>1. S \subseteq Keys
    BY DEF Stored
  <2> HIDE DEF S
  <2> QED BY <2>1, IniAssumption, FS_Subset DEF Triple
<1>2. /\ N \in Nat /\ Len(keys) = N /\ \A n \in 1 .. N : keys[n] \in S
      /\ \A n, m \in 1 .. N : n < m => Before(keys[n], keys[m])
  <2> HIDE DEF S
  <2>1. /\ N \in Nat /\ keys \in [1 .. N -> S] /\ Len(keys) = N
        /\ \A n, m \in 1 .. N : n < m => Before(keys[n], keys[m])
    BY <1>1, OrderIs DEF S
  <2> QED BY <2>1
<1>3. Outs(out, c, keys)
  <2>1. \E f : Outs(f, c, keys)
    <3> HIDE DEF N
    <3> QED BY <1>2, OutsExist
  <2> QED BY <2>1
<1>4. Flushed(c, TRUE) = out[N]
  <2>1. Flushed(c, TRUE) = out[Len(keys)]
    BY DEF Flushed, Outs, Put, Last, Stored
  <2> QED BY <1>2, <2>1
<1> HIDE DEF out, S, N
<1>5. \A n \in 0 .. N : out[n] = Put(out, c, keys, n)
  BY <1>2, <1>3 DEF Outs
<1>6. 0 \in P
  <2>1. 0 \in 0 .. N /\ out[0] = <<>>
    <3>1. 0 \in 0 .. N
      BY <1>2
    <3>2. out[0] = Put(out, c, keys, 0)
      BY <1>5, <3>1
    <3> QED BY <3>1, <3>2 DEF Put
  <2>2. Found(c, keys, 0) = <<>>
    BY DEF Found
  <2>3. Fresh(TRUE) = At(0, 0, <<>>)
    BY DEF Fresh, At
  <2>4. ReadOn(Fresh(TRUE), <<>>) = Fresh(TRUE)
    BY ReadsNothing
  <2>5. <<>> \in Seq(Lines)
    OBVIOUS
  <2>6. Leads(<<>>, 0, 0, <<>>)
    BY <2>3, <2>4, <2>5 DEF Leads
  <2> QED BY <2>1, <2>2, <2>6
<1>7. ASSUME NEW n \in 0 .. N - 1, n \in P PROVE n + 1 \in P
  <2> DEFINE k == keys[n + 1]
             prev == Last(keys, n + 1)
             found == Found(c, keys, n)
             s == out[n] \o Header(k, prev)
  <2>1. n \in Nat /\ n + 1 \in 0 .. N /\ n + 1 \in 1 .. N /\ n + 1 # 0 /\ (n + 1) - 1 = n
    BY <1>2
  <2>2. k \in S /\ k \in Triple /\ c[k] \in Values
    <3>1. k \in S /\ k \in Triple
      BY <1>1, <1>2, <2>1
    <3>2. k \in Keys /\ c[k] # Unset
      BY <3>1 DEF S, Stored
    <3> QED BY <3>1, <3>2 DEF Cache
  <2>3. prev[1] = sect(n) /\ prev[2] = sub(n) /\ Follows(k, prev)
    <3>1. k[1] \in Nat /\ k[2] \in Nat
      BY <2>2 DEF Triple
    <3>2. CASE n = 0
      <4>1. prev = <<0, 0, 0>>
        BY <3>2 DEF Last
      <4> QED BY <3>1, <3>2, <4>1 DEF Follows
    <3>3. CASE n # 0
      <4>1. prev = keys[n] /\ n \in 1 .. N /\ n < n + 1
        <5>1. n + 1 # 1 /\ n \in 1 .. N /\ n < n + 1
          BY <1>2, <2>1, <3>3
        <5>2. prev = keys[(n + 1) - 1]
          BY <5>1 DEF Last
        <5> QED BY <2>1, <5>1, <5>2
      <4>2. keys[n] \in Triple /\ Before(keys[n], k)
        BY <1>1, <1>2, <2>1, <4>1
      <4>3. keys[n][1] \in Nat /\ keys[n][2] \in Nat
        BY <4>2 DEF Triple
      <4>4. keys[n][1] < k[1] \/ (keys[n][1] = k[1] /\ keys[n][2] <= k[2])
        BY <4>2, <4>3, <3>1 DEF Before
      <4> QED BY <3>3, <4>1, <4>3, <4>4 DEF Follows
    <3> QED BY <3>2, <3>3
  <2>4. Leads(out[n], prev[1], prev[2], found)
    <3>1. Leads(out[n], sect(n), sub(n), found)
      BY <1>7
    <3> HIDE DEF prev, found, sect, sub
    <3> QED BY <2>3, <3>1
  <2>5. out[n + 1] = s \o out_item(k[3], c[k], TRUE)
    BY <1>5, <2>1 DEF Put
  <2> HIDE DEF prev, found, k
  <2>6. Leads(s, k[1], k[2], found)
    BY <2>2, <2>3, <2>4, HeaderRead
  <2> HIDE DEF s
  <2>7. Leads(out[n + 1], k[1], k[2], Append(found, Item(k, c[k])))
    BY <2>2, <2>5, <2>6, ItemRead
  <2>8. Append(found, Item(k, c[k])) = Found(c, keys, n + 1)
    <3> DEFINE f == Found(c, keys, n + 1)
               T == {f[m] : m \in 1 .. n + 1}
    <3>1. f \in [1 .. n + 1 -> T]
      BY DEF Found
    <3>2. found = [m \in 1 .. n |-> f[m]] /\ f = [m \in 1 .. n + 1 |-> f[m]]
      BY <2>1 DEF Found, found
    <3>3. f[n + 1] = Item(k, c[k])
      BY <2>1 DEF Found, k
    <3> HIDE DEF f, T
    <3>4. Append([m \in 1 .. n |-> f[m]], f[n + 1]) = [m \in 1 .. n + 1 |-> f[m]]
      BY <2>1, <3>1, AppendIs
    <3> QED BY <3>2, <3>3, <3>4 DEF f
  <2>9. sect(n + 1) = k[1] /\ sub(n + 1) = k[2]
    BY <2>1 DEF k
  <2> QED BY <2>1, <2>7, <2>8, <2>9
<1>8. N \in P
  <2>1. N \in 0 .. N
    BY <1>2
  <2>2. \A n \in 0 .. N - 1 : n \in P => n + 1 \in P
    BY <1>7
  <2> HIDE DEF P
  <2>3. \A n \in 0 .. N : n \in P
    BY <1>2, <1>6, <2>2, RangeInduction
  <2> QED BY <2>1, <2>3
<1>9. out[N] \in Seq(Lines) /\ ReadOn(Fresh(TRUE), out[N]) = At(sect(N), sub(N), Found(c, keys, N))
  BY <1>8 DEF Leads
<1> DEFINE a == sect(N)
           b == sub(N)
           found == Found(c, keys, N)
           q == At(a, b, found)
<1>10. /\ Flushed(c, TRUE) \in Seq(Lines) /\ ReadOn(Fresh(TRUE), Flushed(c, TRUE)) = q
       /\ found = Found(c, keys, Len(keys))
  BY <1>2, <1>4, <1>9
<1>11. q.smart = TRUE /\ q.found = found
  <2> HIDE DEF a, b, found
  <2> QED BY DEF At
<1> HIDE DEF a, b, found, q
<1> QED BY <1>10, <1>11

(* A file is sane if it ends with variables being read, and each key is in *)
(* it once, or as good as once.                                            *)
Sane(file) == /\ Parsed(file, TRUE).smart = TRUE
              /\ Kept(file) \in Cache /\ Cached(Parsed(file, TRUE).found) = Kept(file)

(* What is kept in a file, key by key.                                     *)
LEMMA KeptIs ==
  ASSUME NEW file
  PROVE  Kept(file) = [key \in Keys |-> Hit(Parsed(file, TRUE).found, key).value]
<1> DEFINE found == Parsed(file, TRUE).found
           f(items) == [key \in Keys |-> Hit(items, key).value]
<1>1. Kept(file) = Only({f(items) : items \in {found}})
  BY DEF Kept
<1> HIDE DEF f, found
<1>2. {f(items) : items \in {found}} = {f(found)}
  OBVIOUS
<1>3. Kept(file) = f(found)
  BY <1>1, <1>2, OnlyOne
<1> QED BY <1>3 DEF f, found

(* The smallest and the largest of one number.                             *)
LEMMA OneNumber ==
  ASSUME NEW n \in Nat
  PROVE  Min({n}) = n /\ Max({n}) = n
BY DEF Min, Max

(* Nothing is lost and nothing is made up between a cache and its file.    *)
LEMMA ReadBack ==
  ASSUME NEW c \in Cache
  PROVE  /\ Flushed(c, TRUE) # NoFile
         /\ Kept(Flushed(c, TRUE)) = c
         /\ Sane(Flushed(c, TRUE))
<1> DEFINE file == Flushed(c, TRUE)
           keys == InOrder(Stored(c))
           N == Len(keys)
           items == Found(c, keys, N)
<1>1. file \in Seq(Lines) /\ ReadOn(Fresh(TRUE), file).smart = TRUE /\ ReadOn(Fresh(TRUE), file).found = items
  BY FlushRead
<1>2. /\ N \in Nat /\ \A n \in 1 .. N : keys[n] \in Stored(c)
      /\ \A k \in Stored(c) : \E n \in 1 .. N : keys[n] = k
      /\ \A n, m \in 1 .. N : keys[n] = keys[m] => n = m
  <2> DEFINE S == Stored(c)
             card == Cardinality(S)
  <2>1. S \subseteq Keys
    BY DEF Stored
  <2>2. S \subseteq Triple /\ IsFiniteSet(S)
    <3> HIDE DEF S
    <3> QED BY <2>1, IniAssumption, FS_Subset DEF Triple
  <2>3. keys = InOrder(S)
    OBVIOUS
  <2> HIDE DEF S, keys
  <2>4. /\ card \in Nat /\ keys \in [1 .. card -> S] /\ Len(keys) = card
        /\ \A k \in S : \E n \in 1 .. card : keys[n] = k
        /\ \A n, m \in 1 .. card : keys[n] = keys[m] => n = m
    BY <2>2, <2>3, OrderIs
  <2> HIDE DEF card
  <2>5. N = card
    BY <2>4
  <2> HIDE DEF N
  <2> QED BY <2>4, <2>5 DEF S
<1>3. file # NoFile
  <2> SUFFICES ASSUME file = NoFile PROVE FALSE
    OBVIOUS
  <2> HIDE DEF file
  <2>1. Len(file) = 1 /\ file[1] = <<"no file">>
    BY DEF NoFile
  <2> DEFINE l == file[1]
  <2>2. l = <<"no file">>
    BY <2>1
  <2> HIDE DEF l
  <2>3. l \in Lines
    <3> HIDE DEF Lines
    <3>1. \A n \in 1 .. Len(file) : file[n] \in Lines
      <4>1. file \in Seq(Lines)
        BY <1>1
      <4> QED BY <4>1, ElementOfSeq
    <3>2. 1 \in 1 .. Len(file)
      <4>1. Len(file) = 1
        BY <2>1
      <4>2. 1 \in 1 .. 1
        OBVIOUS
      <4> QED BY <4>1, <4>2
    <3> QED BY <3>1, <3>2 DEF l
  <2>4. l[1] \in {"nosmart", "smart", "section", "subsection", "item"}
    BY <2>3 DEF Lines
  <2>5. l[1] = "no file"
    BY <2>2
  <2> QED BY <2>4, <2>5
<1>4. Parsed(file, TRUE).smart = TRUE /\ Parsed(file, TRUE).found = items
  <2> HIDE DEF file, items
  <2>1. Parsed(file, TRUE) = ReadOn(Fresh(TRUE), file)
    BY <1>3 DEF Parsed
  <2> QED BY <1>1, <2>1
<1> HIDE DEF file
<1>5. /\ Len(items) = N
      /\ \A n \in 1 .. N : items[n].key = keys[n] /\ items[n].top = TRUE /\ items[n].value = c[keys[n]]
  <2> HIDE DEF keys, N
  <2>1. items = [m \in 1 .. N |-> Item(keys[m], c[keys[m]])]
    BY DEF Found
  <2>2. Len(items) = N
    BY <1>2, <2>1
  <2>3. \A n \in 1 .. N : items[n] = Item(keys[n], c[keys[n]])
    BY <2>1
  <2> QED BY <2>2, <2>3 DEF Item
<1> HIDE DEF items, keys, N
<1>6. ASSUME NEW key \in Keys
      PROVE  /\ Hit(items, key).value = c[key]
             /\ (IF Named(items, key) = {} THEN Unset ELSE items[Max(Named(items, key))].value) = c[key]
  <2>1. CASE key \in Stored(c)
    <3>1. PICK n \in 1 .. N : keys[n] = key
      BY <1>2, <2>1
    <3>2. n \in Nat /\ Named(items, key) = {n}
      <4>1. \A m \in 1 .. N : items[m].key = key => m = n
        BY <1>2, <1>5, <3>1
      <4>2. items[n].key = key
        BY <1>5, <3>1
      <4>3. Named(items, key) = {m \in 1 .. N : items[m].key = key}
        BY <1>5 DEF Named
      <4> QED BY <1>2, <3>1, <4>1, <4>2, <4>3
    <3>3. {m \in {n} : items[m].top} = {n}
      BY <1>5
    <3>4. Hit(items, key) = items[n]
      <4>1. {n} # {}
        OBVIOUS
      <4>2. {m \in Named(items, key) : items[m].top} = {n}
        BY <3>2, <3>3
      <4>3. Hit(items, key) = items[Min({n})]
        BY <3>2, <4>1, <4>2 DEF Hit
      <4> QED BY <3>2, <4>3, OneNumber
    <3>5. items[Max(Named(items, key))] = items[n] /\ Named(items, key) # {}
      BY <3>2, OneNumber
    <3>6. items[n].value = c[key]
      BY <1>5, <3>1
    <3> QED BY <3>4, <3>5, <3>6
  <2>2. CASE key \notin Stored(c)
    <3>1. c[key] = Unset
      BY <2>2 DEF Stored
    <3>2. Named(items, key) = {}
      BY <1>2, <1>5, <2>2 DEF Named
    <3>3. Hit(items, key) = [value |-> Unset, top |-> FALSE]
      BY <3>2 DEF Hit
    <3> QED BY <3>1, <3>2, <3>3
  <2> QED BY <2>1, <2>2
<1>7. c = [key \in Keys |-> c[key]]
  BY DEF Cache
<1>8. Kept(file) = c
  <2>1. Kept(file) = [key \in Keys |-> Hit(items, key).value]
    BY <1>4, KeptIs
  <2> QED BY <1>6, <1>7, <2>1
<1>9. Cached(items) = c
  BY <1>6, <1>7 DEF Cached
<1> QED BY <1>3, <1>4, <1>8, <1>9 DEF Sane, file

(* An empty file, and one that is not there.                               *)
LEMMA EmptyIsSane ==
  ASSUME NEW file, file = <<>> \/ file = NoFile
  PROVE  Sane(file) /\ Kept(file) = [key \in Keys |-> Unset]
<1>1. Parsed(file, TRUE) = Fresh(TRUE)
  BY ReadsNothing DEF Parsed
<1>2. Parsed(file, TRUE).smart = TRUE /\ Parsed(file, TRUE).found = <<>>
  <2>1. Fresh(TRUE).smart = TRUE /\ Fresh(TRUE).found = <<>>
    BY DEF Fresh
  <2> QED BY <1>1, <2>1
<1>3. \A key : Named(<<>>, key) = {}
  BY DEF Named
<1>4. \A key : Hit(<<>>, key).value = Unset
  BY <1>3 DEF Hit
<1>5. Kept(file) = [key \in Keys |-> Unset]
  <2>1. Kept(file) = [key \in Keys |-> Hit(<<>>, key).value]
    BY <1>2, KeptIs
  <2> QED BY <1>4, <2>1
<1>6. Cached(<<>>) = [key \in Keys |-> Unset]
  BY <1>3 DEF Cached
<1> QED BY <1>2, <1>5, <1>6 DEF Sane, Cache

-----------------------------------------------------------------------------
(* A program that has memory for its cache, and starts with a sane file.   *)
Plenty == world.memory = "enough" /\ Sane(world.file)

(* How far the end of a file has come when its cache is to be written.     *)
Flushing == [step |-> "flush"]

(* It reads the whole file when it opens it, and writes nothing but the     *)
(* cache: a file that is open has a complete cache.                         *)
Holds == h \in [open : {TRUE}, null : BOOLEAN, cache : Cache, full : {TRUE}, updated : BOOLEAN]

IInv == /\ world \in Worlds /\ world.memory = "enough"
        /\ smart = TRUE
        /\ disk = [ini |-> disk.ini, tmp |-> NoFile] /\ Sane(disk.ini)
        /\ act \in {Idle, Flushing}
        /\ act = Flushing => disk.ini = <<>>
        /\ (h = Closed /\ act = Idle) \/ Holds

(* It holds at the start, with the file that was there.                    *)
LEMMA InitIInv == Init /\ Plenty => IInv
<1> SUFFICES ASSUME Init, Plenty PROVE IInv
  OBVIOUS
<1>1. Idle # Flushing
  BY DEF Idle, Flushing
<1> QED BY <1>1 DEF Init, Plenty, IInv

(* Each step keeps it: the file is emptied, and then filled from a cache.  *)
LEMMA NextIInv == IInv /\ [Next]_vars => IInv'
<1> SUFFICES ASSUME IInv, [Next]_vars PROVE IInv'
  OBVIOUS
<1> USE DEF IInv
<1>0. Idle # Flushing /\ Idle.step = "idle" /\ Flushing.step = "flush" /\ act.step \in {"idle", "flush"}
  BY DEF Idle, Flushing
<1>1. CASE iniOpenFile
  <2>1. h = Closed /\ act = Idle
    BY <1>1 DEF iniOpenFile, Holds
  <2>2. Parsed(disk.ini, TRUE).smart = TRUE /\ Cached(Parsed(disk.ini, TRUE).found) \in Cache
    BY DEF Sane
  <2> DEFINE null == disk.ini = NoFile
             c == Cached(Parsed(disk.ini, TRUE).found)
  <2>3. /\ smart' = Parsed(disk.ini, TRUE).smart
        /\ h' = Opened(null, c, TRUE)
        /\ UNCHANGED <<world, disk, act>>
    BY <1>1 DEF iniOpenFile
  <2>4. null \in BOOLEAN
    OBVIOUS
  <2> HIDE DEF c, null
  <2>5. h' = [open |-> TRUE, null |-> null, cache |-> c, full |-> TRUE, updated |-> FALSE]
    BY <2>3 DEF Opened
  <2>6. Holds'
    BY <2>2, <2>4, <2>5 DEF Holds, c
  <2> QED BY <2>1, <2>2, <2>3, <2>6, <1>0
<1>2. ASSUME NEW key \in world.keys, iniReadProfileString(key) PROVE IInv'
  <2>1. Holds
    BY <1>2 DEF iniReadProfileString, Closed
  <2>2. smart' = TRUE /\ UNCHANGED <<world, disk, h, act>>
    BY <1>2, <2>1 DEF iniReadProfileString, SmartThen, Holds
  <2> QED BY <2>1, <2>2 DEF Holds
<1>3. ASSUME NEW key \in world.keys, NEW value \in world.texts, iniWriteProfileString(key, value)
      PROVE  IInv'
  <2>1. Holds /\ WriteCached(key, value)
    <3>1. h.open
      BY <1>3 DEF iniWriteProfileString, WriteCached, WriteDirect
    <3>2. Holds
      BY <3>1 DEF Closed
    <3>3. h.full
      BY <3>2 DEF Holds
    <3>4. ~WriteDirect(key, value)
      BY <3>3 DEF WriteDirect
    <3> QED BY <1>3, <3>2, <3>4 DEF iniWriteProfileString
  <2>2. /\ h' = [h EXCEPT !.cache[key] = value, !.updated = @ \/ h.cache[key] # value]
        /\ UNCHANGED <<world, disk, smart, act>>
    BY <2>1 DEF WriteCached
  <2>3. value \in Values /\ key \in Keys
    BY IniAssumption DEF Values
  <2>4. [h.cache EXCEPT ![key] = value] \in Cache
    BY <2>1, <2>3 DEF Holds, Cache
  <2>5. Holds'
    <3> DEFINE c == [h.cache EXCEPT ![key] = value]
               u == h.updated \/ h.cache[key] # value
    <3>1. h' = [h EXCEPT !.cache = c, !.updated = u]
      BY <2>2
    <3>2. u \in BOOLEAN
      BY <2>1 DEF Holds
    <3> HIDE DEF c, u
    <3> QED BY <2>1, <2>4, <3>1, <3>2 DEF Holds, c
  <2> QED BY <2>2, <2>5
<1>4. CASE DeleteOld \/ RenameNew
  BY <1>0, <1>4 DEF DeleteOld, RenameNew
<1>5. CASE iniCloseFile
  <2>1. Holds /\ act = Idle
    BY <1>5 DEF iniCloseFile, Closed
  <2>2. CASE h.cache # NoCache /\ h.updated
    <3>1. disk' = [disk EXCEPT !.ini = <<>>] /\ act' = Flushing /\ UNCHANGED <<world, h, smart>>
      BY <1>5, <2>2 DEF iniCloseFile, Flushing
    <3>2. disk' = [ini |-> <<>>, tmp |-> NoFile]
      BY <3>1
    <3>3. Sane(<<>>)
      BY EmptyIsSane
    <3> QED BY <2>1, <3>1, <3>2, <3>3 DEF Holds
  <2>3. CASE ~(h.cache # NoCache /\ h.updated)
    <3>1. h' = Closed /\ UNCHANGED <<world, disk, act, smart>>
      BY <1>5, <2>3 DEF iniCloseFile
    <3> QED BY <2>1, <3>1, <1>0
  <2> QED BY <2>2, <2>3
<1>6. CASE FlushCache
  <2>1. Holds
    BY <1>0, <1>6 DEF FlushCache
  <2> DEFINE file == Flushed(h.cache, TRUE)
  <2>2. Sane(file)
    BY <2>1, ReadBack DEF Holds
  <2>3. /\ disk' = [disk EXCEPT !.ini = file] /\ h' = Closed /\ act' = Idle
        /\ UNCHANGED <<world, smart>>
    BY <1>6 DEF FlushCache
  <2> HIDE DEF file
  <2>4. disk' = [ini |-> file, tmp |-> NoFile]
    BY <2>3
  <2> QED BY <1>0, <2>2, <2>3, <2>4
<1>7. CASE Die
  <2>1. disk' = disk /\ h' = Closed /\ act' = Idle /\ smart' = TRUE /\ world' = world
    BY <1>7 DEF Die
  <2> QED BY <1>0, <2>1
<1>8. CASE UNCHANGED vars
  BY <1>8 DEF vars, Holds
<1> QED BY <1>1, <1>2, <1>3, <1>4, <1>5, <1>6, <1>7, <1>8 DEF Next

(* So it always holds.                                                     *)
LEMMA AlwaysIInv == Spec /\ Plenty => []IInv
BY InitIInv, NextIInv, PTL DEF Spec

-----------------------------------------------------------------------------
(* It starts with the settings that are in its file.                       *)
LEMMA FirstSettings == Init /\ Plenty => Abstract!Init
<1> SUFFICES ASSUME Init, Plenty PROVE Abstract!Init
  OBVIOUS
<1>1. settings = Kept(world.file) /\ saved = Kept(world.file)
  BY DEF Init, settings, saved, Closed, Idle
<1>2. Kept(world.file) \in Cache
  BY DEF Plenty, Sane
<1> QED BY <1>1, <1>2 DEF Abstract!Init, Cache

(* What the mapping says in the states there are.                          *)
LEMMA Mapped ==
  ASSUME IInv
  PROVE  /\ h = Closed => settings = Kept(disk.ini)
         /\ Holds => settings = h.cache
         /\ act = Idle => saved = Kept(disk.ini)
         /\ act = Flushing => saved = h.cache
<1>1. Idle.step = "idle" /\ Flushing.step = "flush"
  BY DEF Idle, Flushing
<1>2. act.step # "deleted"
  BY <1>1 DEF IInv
<1>3. h = Closed => settings = Kept(disk.ini)
  BY <1>2 DEF settings, Closed
<1>4. Holds => settings = h.cache
  BY DEF Holds, settings
<1>5. act = Idle => saved = Kept(disk.ini)
  BY <1>1 DEF saved
<1>6. act = Flushing => saved = h.cache
  BY <1>1 DEF saved
<1> QED BY <1>3, <1>4, <1>5, <1>6

(* The same of the next state.                                             *)
LEMMA MappedNext ==
  ASSUME IInv'
  PROVE  /\ h' = Closed => settings' = Kept(disk'.ini)
         /\ Holds' => settings' = h'.cache
         /\ act' = Idle => saved' = Kept(disk'.ini)
         /\ act' = Flushing => saved' = h'.cache
<1>1. Idle.step = "idle" /\ Flushing.step = "flush"
  BY DEF Idle, Flushing
<1>2. act'.step # "deleted"
  BY <1>1 DEF IInv
<1>3. h' = Closed => settings' = Kept(disk'.ini)
  BY <1>2 DEF settings, Closed
<1>4. Holds' => settings' = h'.cache
  BY DEF Holds, settings
<1>5. act' = Idle => saved' = Kept(disk'.ini)
  BY <1>1 DEF saved
<1>6. act' = Flushing => saved' = h'.cache
  BY <1>1 DEF saved
<1> QED BY <1>3, <1>4, <1>5, <1>6

(* Each step is a step of the settings, or none.                           *)
LEMMA StepSettings ==
  IInv /\ IInv' /\ [Next]_vars => [Abstract!Next]_<<settings, saved>>
<1> SUFFICES ASSUME IInv, IInv', [Next]_vars PROVE [Abstract!Next]_<<settings, saved>>
  OBVIOUS
<1>0. /\ act \in {Idle, Flushing} /\ Idle # Flushing /\ Idle.step = "idle" /\ Flushing.step = "flush"
      /\ (h = Closed /\ act = Idle) \/ Holds
      /\ smart = TRUE /\ world \in Worlds
  BY DEF Idle, Flushing, IInv
<1>m. /\ h = Closed => settings = Kept(disk.ini)
      /\ Holds => settings = h.cache
      /\ act = Idle => saved = Kept(disk.ini)
      /\ act = Flushing => saved = h.cache
  BY Mapped
<1>n. /\ h' = Closed => settings' = Kept(disk'.ini)
      /\ Holds' => settings' = h'.cache
      /\ act' = Idle => saved' = Kept(disk'.ini)
      /\ act' = Flushing => saved' = h'.cache
  BY MappedNext
<1>1. CASE iniOpenFile
  <2>1. h = Closed /\ act = Idle
    BY <1>0, <1>1 DEF iniOpenFile, Holds
  <2> DEFINE c == Cached(Parsed(disk.ini, TRUE).found)
             null == disk.ini = NoFile
  <2>2. c = Kept(disk.ini)
    BY DEF IInv, Sane
  <2>3. h' = Opened(null, c, TRUE) /\ UNCHANGED <<disk, act>>
    BY <1>0, <1>1 DEF iniOpenFile, IInv
  <2> HIDE DEF c, null
  <2>4. h'.cache = c /\ h'.open = TRUE
    BY <2>3 DEF Opened
  <2>5. Holds'
    BY <2>4 DEF IInv, Closed
  <2> QED BY <1>m, <1>n, <2>1, <2>2, <2>3, <2>4, <2>5
<1>2. ASSUME NEW key \in world.keys, iniReadProfileString(key)
      PROVE  UNCHANGED <<settings, saved>>
  <2>1. UNCHANGED <<disk, h, act>>
    BY <1>2 DEF iniReadProfileString
  <2> QED BY <2>1 DEF settings, saved
<1>3. ASSUME NEW key \in world.keys, NEW value \in world.texts, iniWriteProfileString(key, value)
      PROVE  Abstract!Next
  <2>1. Holds /\ act = Idle /\ WriteCached(key, value)
    <3>1. h.open /\ act = Idle
      BY <1>3 DEF iniWriteProfileString, WriteCached, WriteDirect
    <3>2. Holds
      BY <1>0, <3>1 DEF Closed
    <3>3. h.full
      BY <3>2 DEF Holds
    <3>4. ~WriteDirect(key, value)
      BY <3>3 DEF WriteDirect
    <3> QED BY <1>3, <3>1, <3>2, <3>4 DEF iniWriteProfileString
  <2>2. value \in Values /\ key \in Keys
    BY <1>0, IniAssumption DEF Values
  <2> DEFINE c == [h.cache EXCEPT ![key] = value]
             u == h.updated \/ h.cache[key] # value
  <2>3. h' = [h EXCEPT !.cache = c, !.updated = u] /\ UNCHANGED <<disk, act>>
    BY <2>1 DEF WriteCached
  <2> HIDE DEF c, u
  <2>4. h'.cache = c /\ h'.open = TRUE
    BY <2>1, <2>3 DEF Holds
  <2>5. Holds'
    BY <2>4 DEF IInv, Closed
  <2>6. settings' = [settings EXCEPT ![key] = value] /\ saved' = saved
    BY <1>m, <1>n, <2>1, <2>3, <2>4, <2>5 DEF c
  <2>7. Abstract!Set(key, value)
    BY <2>6 DEF Abstract!Set
  <2> QED BY <2>2, <2>7 DEF Abstract!Next
<1>4. CASE DeleteOld \/ RenameNew
  BY <1>0, <1>4 DEF DeleteOld, RenameNew
<1>5. CASE iniCloseFile
  <2>1. Holds /\ act = Idle
    BY <1>0, <1>5 DEF iniCloseFile, Closed
  <2>2. CASE h.cache # NoCache /\ h.updated
    <3>1. act' = Flushing /\ h' = h
      BY <1>5, <2>2 DEF iniCloseFile, Flushing
    <3>2. Holds'
      BY <2>1, <3>1 DEF Holds
    <3>3. saved' = settings /\ settings' = settings
      BY <1>m, <1>n, <2>1, <3>1, <3>2
    <3> QED BY <3>3 DEF Abstract!Save, Abstract!Next
  <2>3. CASE ~(h.cache # NoCache /\ h.updated)
    <3>1. h' = Closed /\ UNCHANGED <<disk, act>>
      BY <1>5, <2>3 DEF iniCloseFile
    <3>2. settings' = saved /\ saved' = saved
      BY <1>m, <1>n, <2>1, <3>1
    <3> QED BY <3>2 DEF Abstract!Forget, Abstract!Next
  <2> QED BY <2>2, <2>3
<1>6. CASE FlushCache
  <2>1. Holds /\ act = Flushing
    BY <1>0, <1>6 DEF FlushCache
  <2> DEFINE file == Flushed(h.cache, TRUE)
  <2>2. Kept(file) = h.cache
    BY <2>1, ReadBack DEF Holds
  <2>3. disk' = [disk EXCEPT !.ini = file] /\ h' = Closed /\ act' = Idle
    BY <1>0, <1>6 DEF FlushCache
  <2> HIDE DEF file
  <2>4. disk'.ini = file
    BY <2>3 DEF IInv
  <2> QED BY <1>m, <1>n, <2>1, <2>2, <2>3, <2>4
<1>7. CASE Die
  <2>1. h' = Closed /\ act' = Idle /\ disk'.ini = disk.ini /\ Holds
    BY <1>0, <1>7 DEF Die, IInv, Closed
  <2>2. CASE act = Idle
    <3>1. settings' = saved /\ saved' = saved
      BY <1>m, <1>n, <2>1, <2>2
    <3> QED BY <3>1 DEF Abstract!Forget, Abstract!Next
  <2>3. CASE act = Flushing
    <3>1. disk.ini = <<>>
      BY <2>3 DEF IInv
    <3>2. Kept(disk.ini) = [key \in Keys |-> Unset]
      BY <3>1, EmptyIsSane
    <3>3. settings' = [key \in Keys |-> Unset] /\ saved' = settings'
      BY <1>n, <2>1, <3>2
    <3> QED BY <3>3 DEF Abstract!Lose, Abstract!Next
  <2> QED BY <1>0, <2>2, <2>3
<1>8. CASE UNCHANGED vars
  BY <1>8 DEF vars, settings, saved
<1> QED BY <1>1, <1>2, <1>3, <1>4, <1>5, <1>6, <1>7, <1>8 DEF Next

(* A program with memory for its cache implements the settings: whatever   *)
(* it sets, and whenever it dies, the file is read as what was saved last, *)
(* or as nothing if it died while it wrote the file.                       *)
THEOREM SettingsAreKept == Spec /\ Plenty => ImplementsSettings
BY FirstSettings, InitIInv, NextIInv, StepSettings, PTL DEF Spec, ImplementsSettings, Abstract!Spec

(* The search, which stops at the first item of a name, and the cache,     *)
(* which keeps the last, always read the same from what such a program     *)
(* has written.                                                            *)
THEOREM ReadersAlwaysAgree == Spec /\ Plenty => []ReadersAgree
<1>1. IInv => ReadersAgree
  <2> SUFFICES ASSUME IInv PROVE ReadersAgree
    OBVIOUS
  <2>1. Sane(disk.ini) /\ disk.tmp = NoFile
    BY DEF IInv
  <2>2. Sane(disk.tmp)
    BY <2>1, EmptyIsSane
  <2> QED BY <2>1, <2>2 DEF Sane, ReadersAgree
<1> QED BY <1>1, AlwaysIInv, PTL

(* iniReadProfileString answers with what the program has set last.        *)
THEOREM ReadsAreStored == Spec /\ Plenty => ReadsWhatIsStored
<1>1. IInv /\ [Next]_vars =>
        [\A key \in world.keys : iniReadProfileString(key) =>
           got' = IF h.null THEN Unset ELSE settings[key]]_vars
  <2> SUFFICES ASSUME IInv, NEW key \in world.keys, iniReadProfileString(key)
               PROVE  got' = IF h.null THEN Unset ELSE settings[key]
    OBVIOUS
  <2>1. got' = Answer(key) /\ Holds /\ key \in Keys
    BY IniAssumption DEF iniReadProfileString, IInv, Closed
  <2>2. settings = h.cache /\ h.full = TRUE /\ h.null \in BOOLEAN /\ h.cache \in Cache
    BY <2>1, Mapped DEF Holds
  <2>3. h.cache # NoCache
    BY <2>1, <2>2 DEF Cache, NoCache
  <2>4. CASE h.null
    BY <2>1, <2>4 DEF Answer
  <2>5. CASE ~h.null /\ InCache(key)
    BY <2>1, <2>2, <2>5 DEF Answer
  <2>6. CASE ~h.null /\ ~InCache(key)
    <3>1. settings[key] = Unset
      BY <2>2, <2>3, <2>6 DEF InCache
    <3> QED BY <2>1, <2>2, <2>6, <3>1 DEF Answer
  <2> QED BY <2>4, <2>5, <2>6
<1> QED BY <1>1, AlwaysIInv, PTL DEF Spec, ReadsWhatIsStored
=============================================================================
