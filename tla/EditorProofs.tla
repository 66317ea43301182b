---------------------------- MODULE EditorProofs ----------------------------
(***************************************************************************)
(* What is proved of the modification mode, for every file, size of the    *)
(* screen and of the buffer, base of the digits and decoding: only bytes   *)
(* that a key changed are changed, the lines of the assembler editor are   *)
(* the instructions of the buffer, and the cursor is on a byte of its line.*)
(***************************************************************************)
EXTENDS Editor, TLAPS, WellFoundedInduction

Index == 0..(BufSize - 1)
Bytes == [Index -> Byte]
Left  == flen - cp            \* from where the viewer is to the end

(* The files: none is shorter than the one before it, and a byte that is   *)
(* not the original one was visited.                                       *)
Grown(old, new) == Len(old) <= Len(new)
OnlyVisited(file) == \A o \in 0..(Len(orig) - 1) : file[o + 1] # orig[o + 1] => o \in visited

FilesOK ==
  /\ modes \in Modes /\ mode \in modes \cup {"none"}
  /\ disk \in Seq(Byte) /\ seen \in Seq(Byte) /\ orig \in Seq(Byte)
  /\ Grown(orig, seen) /\ Grown(seen, disk)
  /\ cp \in Nat /\ cp < flen
  /\ OnlyVisited(disk) /\ OnlyVisited(seen)

(* The buffer: it was read from where the viewer is, and changed where it  *)
(* was visited.                                                            *)
BufferOK ==
  /\ buff \in Bytes
  /\ save = ReadIn(mode) /\ size = Size(mode)
  /\ \A i \in Index : buff[i] # save[i] => Offset(mode, i) \in visited

(* The cursor is on a byte or a digit of a line that has some.             *)
Digits == IF mode = "asm" THEN 2 ELSE 1

CursorOK ==
  /\ alen \in [Rows -> Nat]
  /\ IF mode = "asm" THEN RowsAreInstructions ELSE alen = LineLengths(Left)
  /\ y \in Rows /\ alen[y] > 0
  /\ x \in 0..(Digits * alen[y] - 1)

(* The line of which one digit of a byte was typed: the other bytes are    *)
(* those of the buffer, the digit or the dot is in this one.               *)
Digit == 0..(D - 1)

KeptLine(l) ==
  LET here == l.pos \div 3
  IN  /\ l = [text |-> l.text, pos |-> l.pos]
      /\ l.pos \in 0..(3 * alen[y] - 1) /\ l.pos % 3 = 1
      /\ l.text \in [1..(3 * alen[y]) -> Digit \cup {Sep, Dot}]
      /\ \A n \in 0..(alen[y] - 1) :
           LET b == buff[Start(alen, y) + n]
           IN  /\ {l.text[3 * n + 1], l.text[3 * n + 2]} \subseteq Digit \cup {Dot}
               /\ n # here => l.text[3 * n + 1] = b \div D /\ l.text[3 * n + 2] = b % D

LineOK == line # NoLine => mode = "hex" /\ KeptLine(line)

IInv == FilesOK /\ (mode # "none" => BufferOK /\ CursorOK /\ LineOK)

-----------------------------------------------------------------------------
(* Induction on the numbers up to n.                                       *)
LEMMA RangeInduction ==
  ASSUME NEW n \in Nat, NEW P, 0 \in P,
         \A i \in 0 .. n - 1 : i \in P => i + 1 \in P
  PROVE  \A i \in 0 .. n : i \in P
<1> DEFINE Bad == {i \in Nat : i \in 0 .. n /\ i \notin P}
<1>1. Bad = {}
  <2> SUFFICES ASSUME Bad # {} PROVE FALSE
    OBVIOUS
  <2>1. PICK m \in Bad : \A b \in Bad : ~(<<b, m>> \in OpToRel(<, Nat))
    <3>1. Bad \subseteq Nat
      OBVIOUS
    <3> HIDE DEF Bad
    <3> QED BY <3>1, NatLessThanWellFounded, WFMin
  <2>2. m \in Nat /\ m \in 0 .. n /\ m \notin P /\ m # 0
    OBVIOUS
  <2>3. m - 1 \in Nat /\ m - 1 \in 0 .. n - 1 /\ (m - 1) + 1 = m
    BY <2>2
  <2>4. <<m - 1, m>> \in OpToRel(<, Nat)
    BY <2>2, <2>3 DEF OpToRel
  <2>5. m - 1 \notin Bad
    BY <2>1, <2>4
  <2>6. m - 1 \in P
    BY <2>3, <2>5
  <2>7. (m - 1) + 1 \in P
    BY <2>3, <2>6
  <2> QED BY <2>2, <2>3, <2>7
<1> QED BY <1>1

-----------------------------------------------------------------------------
(* The lengths of lines, added up.                                         *)
Sums(S, lens, n) == S = [i \in 0 .. n |-> IF i = 0 THEN 0 ELSE S[i - 1] + lens[i - 1]]

(* Such sums exist, for as many lines as one likes.                        *)
LEMMA SumsExist ==
  ASSUME NEW lens, NEW n \in Nat
  PROVE  \E S : Sums(S, lens, n)
<1> DEFINE P == {m \in 0 .. n : \E S : Sums(S, lens, m)}
<1>1. 0 \in P
  <2>1. Sums([i \in 0 .. 0 |-> 0], lens, 0)
    BY DEF Sums
  <2> QED BY <2>1
<1>2. ASSUME NEW m \in 0 .. n - 1, m \in P PROVE m + 1 \in P
  <2>1. PICK S : Sums(S, lens, m)
    BY <1>2
  <2> DEFINE T == [i \in 0 .. m + 1 |-> IF i = m + 1 THEN S[m] + lens[m] ELSE S[i]]
             R == [i \in 0 .. m + 1 |-> IF i = 0 THEN 0 ELSE T[i - 1] + lens[i - 1]]
  <2>2. ASSUME NEW i \in 0 .. m + 1 PROVE T[i] = R[i]
    <3>1. CASE i = m + 1
      <4>1. T[m] = S[m]
        OBVIOUS
      <4> QED BY <3>1, <4>1
    <3>2. CASE i # m + 1
      <4>1. i \in 0 .. m /\ (i # 0 => i - 1 \in 0 .. m)
        BY <3>2
      <4>2. S[i] = IF i = 0 THEN 0 ELSE S[i - 1] + lens[i - 1]
        BY <2>1, <4>1 DEF Sums
      <4>3. i # 0 => T[i - 1] = S[i - 1]
        BY <4>1
      <4> QED BY <3>2, <4>2, <4>3
    <3> QED BY <3>1, <3>2
  <2>3. T = R
    BY <2>2
  <2>4. Sums(T, lens, m + 1)
    BY <2>3 DEF Sums
  <2> HIDE DEF T
  <2> QED BY <2>4
<1> HIDE DEF P
<1>3. n \in P
  BY <1>1, <1>2, RangeInduction
<1> QED BY <1>3 DEF P

(* The sum of one line more.                                               *)
LEMMA SummStep ==
  ASSUME NEW lens
  PROVE  /\ Summ(lens, 0) = 0
         /\ \A i \in Rows : Summ(lens, i + 1) = Summ(lens, i) + lens[i]
<1> DEFINE S == CHOOSE S : S = [i \in 0 .. Height |-> IF i = 0 THEN 0 ELSE S[i - 1] + lens[i - 1]]
<1>0. Height \in Nat
  BY EditorAssumption
<1>1. S = [i \in 0 .. Height |-> IF i = 0 THEN 0 ELSE S[i - 1] + lens[i - 1]]
  <2>1. \E T : T = [i \in 0 .. Height |-> IF i = 0 THEN 0 ELSE T[i - 1] + lens[i - 1]]
    BY <1>0, SumsExist DEF Sums
  <2> QED BY <2>1
<1>2. \A n : Summ(lens, n) = S[n]
  BY DEF Summ
<1> HIDE DEF S
<1>3. S[0] = 0
  BY <1>0, <1>1
<1>4. ASSUME NEW i \in Rows PROVE S[i + 1] = S[i] + lens[i]
  <2>1. i + 1 \in 0 .. Height /\ i + 1 # 0 /\ (i + 1) - 1 = i
    BY <1>0 DEF Rows
  <2> QED BY <1>1, <2>1
<1> QED BY <1>2, <1>3, <1>4

Lengths == [Rows -> Nat]

(* Sums of lengths are numbers.                                            *)
LEMMA SummNat ==
  ASSUME NEW lens \in Lengths
  PROVE  \A i \in 0 .. Height : Summ(lens, i) \in Nat
<1> DEFINE P == {i \in 0 .. Height : Summ(lens, i) \in Nat}
<1>0. Height \in Nat
  BY EditorAssumption
<1>1. 0 \in P
  BY <1>0, SummStep
<1>2. ASSUME NEW i \in 0 .. Height - 1, i \in P PROVE i + 1 \in P
  <2>1. i \in Rows /\ lens[i] \in Nat /\ Summ(lens, i) \in Nat
    BY <1>2 DEF Rows, Lengths
  <2> QED BY <1>0, <2>1, SummStep
<1> HIDE DEF P
<1>3. \A i \in 0 .. Height : i \in P
  BY <1>0, <1>1, <1>2, RangeInduction
<1> QED BY <1>3 DEF P

(* The sum of more lines is greater by what they add.                      *)
LEMMA SummGrows ==
  ASSUME NEW lens \in Lengths
  PROVE  \A j \in 0 .. Height : \A i \in 0 .. j :
           /\ Summ(lens, i) <= Summ(lens, j)
           /\ i < j => Summ(lens, i) + lens[i] <= Summ(lens, j)
<1> DEFINE A(j) == \A i \in 0 .. j : /\ Summ(lens, i) <= Summ(lens, j)
                                     /\ i < j => Summ(lens, i) + lens[i] <= Summ(lens, j)
           P == {j \in 0 .. Height : A(j)}
<1>0. Height \in Nat
  BY EditorAssumption
<1>1. 0 \in P
  BY <1>0, SummStep
<1>2. ASSUME NEW j \in 0 .. Height - 1, j \in P PROVE j + 1 \in P
  <2>1. j \in Rows /\ lens[j] \in Nat /\ Summ(lens, j) \in Nat
    BY <1>0, SummNat DEF Rows, Lengths
  <2>2. Summ(lens, j + 1) = Summ(lens, j) + lens[j]
    BY <2>1, SummStep
  <2>3. ASSUME NEW i \in 0 .. j + 1
        PROVE  /\ Summ(lens, i) <= Summ(lens, j + 1)
               /\ i < j + 1 => Summ(lens, i) + lens[i] <= Summ(lens, j + 1)
    <3>1. CASE i = j + 1
      BY <2>1, <2>2, <3>1
    <3>2. CASE i = j
      BY <2>1, <2>2, <3>2
    <3>3. CASE i \in 0 .. j /\ i # j
      <4>1. i < j /\ i \in Rows /\ Summ(lens, i) \in Nat /\ lens[i] \in Nat
        BY <1>0, <3>3, SummNat DEF Rows, Lengths
      <4>2. Summ(lens, i) + lens[i] <= Summ(lens, j)
        BY <1>2, <3>3, <4>1
      <4> QED BY <2>1, <2>2, <4>1, <4>2
    <3> QED BY <3>1, <3>2, <3>3
  <2>4. A(j + 1)
    BY <2>3
  <2> HIDE DEF A
  <2> QED BY <1>0, <2>4
<1> HIDE DEF P
<1>3. \A j \in 0 .. Height : j \in P
  BY <1>0, <1>1, <1>2, RangeInduction
<1> QED BY <1>3 DEF P

-----------------------------------------------------------------------------
(* The greatest of some numbers below a bound.                             *)
LEMMA MaxIsMost ==
  ASSUME NEW n \in Nat, NEW S, S \subseteq 0..n, S # {}
  PROVE  Max(S) \in S /\ \A i \in S : i <= Max(S)
<1> DEFINE T == {n - i : i \in S}
<1>1. T \subseteq Nat /\ T # {}
  OBVIOUS
<1>2. PICK k \in T : \A j \in T : ~(<<j, k>> \in OpToRel(<, Nat))
  <2> HIDE DEF T
  <2> QED BY <1>1, NatLessThanWellFounded, WFMin
<1>3. PICK m \in S : k = n - m
  OBVIOUS
<1>4. ASSUME NEW i \in S PROVE i <= m
  <2>1. n - i \in T /\ n - i \in Nat /\ n - m \in Nat
    BY <1>3
  <2>2. ~(n - i < n - m)
    BY <1>2, <1>3, <2>1 DEF OpToRel
  <2>3. i \in Nat /\ m \in Nat
    OBVIOUS
  <2> QED BY <2>2, <2>3
<1>5. \E i \in S : \A j \in S : i >= j
  <2>1. \A j \in S : m >= j
    <3> TAKE j \in S
    <3>1. j <= m /\ j \in Nat /\ m \in Nat
      BY <1>4
    <3> QED BY <3>1
  <2> QED BY <2>1
<1>6. Max(S) \in S /\ \A j \in S : Max(S) >= j
  BY <1>5 DEF Max
<1>7. \A j \in S : j <= Max(S)
  <2> DEFINE M == Max(S)
  <2> HIDE DEF M
  <2>1. M \in S /\ \A j \in S : M >= j
    BY <1>6 DEF M
  <2>2. \A j \in S : j <= M
    BY <2>1
  <2> QED BY <2>2 DEF M
<1> QED BY <1>6, <1>7

-----------------------------------------------------------------------------
(* The constants.                                                          *)
LEMMA Sizes ==
  /\ D \in Nat /\ D > 1 /\ Width \in Nat /\ Width > 0 /\ Height \in Nat /\ Height > 0
  /\ MaxCode \in Nat /\ MaxCode > 0 /\ BufSize \in Nat
  /\ BufSize >= Width * Height /\ BufSize >= MaxCode * Height + MaxCode
  /\ D * D \in Nat /\ 0 \in Rows /\ Rows \subseteq Nat
BY EditorAssumption DEF Rows

(* A byte is its two digits.                                               *)
LEMMA TwoDigits ==
  ASSUME NEW b \in Byte
  PROVE  /\ b \div D \in Digit /\ b % D \in Digit
         /\ (b \div D) * D + (b % D) = b
<1> DEFINE q == b \div D  r == b % D
<1>1. b \in Nat /\ b < D * D /\ D \in Nat /\ D > 0
  BY Sizes DEF Byte
<1>2. q \in Int /\ r \in 0..(D - 1) /\ b = D * q + r
  BY <1>1
<1> HIDE DEF q, r
<1>3. q * D = D * q
  BY <1>1, <1>2
<1>4. q >= 0
  <2> SUFFICES ASSUME q <= -1 PROVE FALSE
    BY <1>2
  <2>1. D * q <= D * (-1)
    BY <1>1, <1>2
  <2> QED BY <1>1, <1>2, <2>1
<1>5. q < D
  <2> SUFFICES ASSUME q >= D PROVE FALSE
    BY <1>1, <1>2
  <2>1. D * q >= D * D
    BY <1>1, <1>2
  <2> QED BY <1>1, <1>2, <2>1
<1>6. (q * D) + r = b
  BY <1>1, <1>2, <1>3
<1>7. q \in Digit /\ r \in Digit
  BY <1>1, <1>2, <1>4, <1>5 DEF Digit
<1> QED BY <1>6, <1>7 DEF q, r

(* Two digits, or a dot for one, are a byte.                               *)
LEMMA DigitsMakeByte ==
  ASSUME NEW c \in Digit \cup {Dot}, NEW e \in Digit \cup {Dot}
  PROVE  (GetHexAnalog(c) * D) + GetHexAnalog(e) \in Byte
<1>1. ASSUME NEW d \in Digit \cup {Dot} PROVE GetHexAnalog(d) \in Digit
  <2>1. 7 % D \in Digit
    BY Sizes DEF Digit
  <2> QED BY <1>1, <2>1 DEF GetHexAnalog
<1> DEFINE f == GetHexAnalog(c)  g == GetHexAnalog(e)
<1>2. f \in Digit /\ g \in Digit
  BY <1>1
<1> HIDE DEF f, g
<1>3. f \in Nat /\ g \in Nat /\ f <= D - 1 /\ g <= D - 1
  BY <1>2, Sizes DEF Digit
<1>4. f * D <= (D - 1) * D
  BY <1>3, Sizes
<1>5. (D - 1) * D = D * D - D /\ f * D \in Nat
  BY <1>3, Sizes
<1>6. (f * D) + g \in 0..(D * D - 1)
  BY <1>3, <1>4, <1>5, Sizes
<1> QED BY <1>6 DEF Byte, f, g

-----------------------------------------------------------------------------
(* The lines of the assembler editor are instructions.                     *)
Instructions(lens, b) ==
  \A i \in Rows : lens[i] = IF cp + Summ(lens, i) < flen THEN CodeLen[b[Summ(lens, i)]] ELSE 0

(* Where the instructions of the buffer begin, up to the n-th.             *)
Begins(F, b, n) ==
  F = [i \in 0 .. n |-> IF i = 0 THEN 0
                        ELSE IF cp + F[i - 1] < flen THEN F[i - 1] + CodeLen[b[F[i - 1]]]
                        ELSE F[i - 1]]

(* There are such places, for as many instructions as one likes.           *)
LEMMA BeginsExist ==
  ASSUME NEW b, NEW n \in Nat
  PROVE  \E F : Begins(F, b, n)
<1> DEFINE P == {m \in 0 .. n : \E F : Begins(F, b, m)}
           After(p) == IF cp + p < flen THEN p + CodeLen[b[p]] ELSE p
<1>1. 0 \in P
  <2>1. Begins([i \in 0 .. 0 |-> 0], b, 0)
    BY DEF Begins
  <2> QED BY <2>1
<1>2. ASSUME NEW m \in 0 .. n - 1, m \in P PROVE m + 1 \in P
  <2>1. PICK F : Begins(F, b, m)
    BY <1>2
  <2>2. F = [i \in 0 .. m |-> IF i = 0 THEN 0 ELSE After(F[i - 1])]
    BY <2>1 DEF Begins
  <2> DEFINE T == [i \in 0 .. m + 1 |-> IF i = m + 1 THEN After(F[m]) ELSE F[i]]
             R == [i \in 0 .. m + 1 |-> IF i = 0 THEN 0 ELSE After(T[i - 1])]
  <2>3. ASSUME NEW i \in 0 .. m + 1 PROVE T[i] = R[i]
    <3> HIDE DEF After
    <3>1. CASE i = m + 1
      <4>1. T[m] = F[m]
        OBVIOUS
      <4> QED BY <3>1, <4>1
    <3>2. CASE i # m + 1
      <4>1. i \in 0 .. m /\ (i # 0 => i - 1 \in 0 .. m)
        BY <3>2
      <4>2. F[i] = IF i = 0 THEN 0 ELSE After(F[i - 1])
        BY <2>2, <4>1
      <4>3. i # 0 => T[i - 1] = F[i - 1]
        BY <4>1
      <4> QED BY <3>2, <4>2, <4>3
    <3> QED BY <3>1, <3>2
  <2>4. T = R
    <3> HIDE DEF After
    <3> QED BY <2>3
  <2> HIDE DEF T
  <2>5. Begins(T, b, m + 1)
    BY <2>4 DEF Begins
  <2> QED BY <2>5
<1> HIDE DEF P
<1>3. n \in P
  BY <1>1, <1>2, RangeInduction
<1> QED BY <1>3 DEF P

(* A line holds no more than the longest instruction, and the lines before *)
(* one no more than as many of those.                                      *)
LEMMA Multiples ==
  ASSUME NEW k \in Nat, NEW i \in Nat, NEW j \in Nat, i <= j
  PROVE  i * k \in Nat /\ j * k \in Nat /\ i * k <= j * k /\ (i + 1) * k = i * k + k
<1>1. j * k = i * k + (j - i) * k /\ (j - i) * k \in Nat /\ i * k \in Nat
  BY Z3T(20)
<1>2. (i + 1) * k = i * k + k
  BY Z3T(20)
<1> QED BY <1>1, <1>2

(* Every byte of a buffer begins an instruction of some length.            *)
LEMMA CodeLenFacts ==
  ASSUME NEW b \in Bytes, NEW i \in Index
  PROVE  b[i] \in Byte /\ CodeLen[b[i]] \in 1..MaxCode
BY EditorAssumption DEF Bytes

(* The lines that are decoded from a buffer are its instructions.          *)
LEMMA DecodedIsInstructions ==
  ASSUME NEW b \in Bytes, NEW old, NEW row, cp \in Nat, flen \in Nat
  PROVE  /\ Decoded(b, old, row) \in [Rows -> Nat]
         /\ Instructions(Decoded(b, old, row), b)
<1> DEFINE F == CHOOSE F : F = [i \in 0 .. Height |->
                    IF i = 0 THEN 0
                    ELSE IF cp + F[i - 1] < flen THEN F[i - 1] + CodeLen[b[F[i - 1]]]
                    ELSE F[i - 1]]
           L == [i \in Rows |-> F[i + 1] - F[i]]
<1>0. /\ Height \in Nat /\ MaxCode \in Nat /\ BufSize \in Nat
      /\ BufSize >= MaxCode * Height + MaxCode /\ MaxCode > 0
  BY Sizes
<1>1. F = [i \in 0 .. Height |->
                    IF i = 0 THEN 0
                    ELSE IF cp + F[i - 1] < flen THEN F[i - 1] + CodeLen[b[F[i - 1]]]
                    ELSE F[i - 1]]
  <2>1. \E G : Begins(G, b, Height)
    BY <1>0, BeginsExist
  <2> QED BY <2>1 DEF Begins
<1>2. Decoded(b, old, row) = L
  BY DEF Decoded
<1> HIDE DEF F
<1>3. F[0] = 0
  BY <1>0, <1>1
<1>4. ASSUME NEW i \in Rows
      PROVE  F[i + 1] = IF cp + F[i] < flen THEN F[i] + CodeLen[b[F[i]]] ELSE F[i]
  <2>1. i + 1 \in 0 .. Height /\ i + 1 # 0 /\ (i + 1) - 1 = i
    BY <1>0 DEF Rows
  <2> QED BY <1>1, <2>1
<1> DEFINE P == {i \in 0 .. Height : F[i] \in 0 .. (i * MaxCode)}
<1>5. \A i \in 0 .. Height : i \in P
  <2>1. 0 \in P
    BY <1>0, <1>3
  <2>2. ASSUME NEW i \in 0 .. Height - 1, i \in P PROVE i + 1 \in P
    <3>1. i \in Rows /\ i \in Nat /\ i <= Height /\ F[i] \in Nat /\ F[i] <= i * MaxCode
      BY <1>0, <2>2, Multiples DEF Rows
    <3>2. (i + 1) * MaxCode = i * MaxCode + MaxCode /\ i * MaxCode <= Height * MaxCode
          /\ i * MaxCode \in Nat /\ Height * MaxCode = MaxCode * Height
      BY <1>0, <3>1, Multiples
    <3>3. F[i] \in Index
      BY <1>0, <3>1, <3>2 DEF Index
    <3>4. CodeLen[b[F[i]]] \in 1..MaxCode
      BY <3>3, CodeLenFacts
    <3>5. F[i + 1] \in 0 .. ((i + 1) * MaxCode)
      <4> HIDE DEF P
      <4> QED BY <1>0, <1>4, <3>1, <3>2, <3>4
    <3> QED BY <1>0, <3>5
  <2> HIDE DEF P
  <2> QED BY <1>0, <2>1, <2>2, RangeInduction
<1>6. ASSUME NEW i \in Rows
      PROVE  /\ F[i] \in Nat /\ F[i] \in Index
             /\ L[i] = IF cp + F[i] < flen THEN CodeLen[b[F[i]]] ELSE 0
             /\ L[i] \in Nat
  <2>1. i \in Nat /\ i \in 0 .. Height /\ i <= Height
    BY <1>0 DEF Rows
  <2>2. F[i] \in Nat /\ F[i] <= i * MaxCode /\ i * MaxCode <= Height * MaxCode
        /\ Height * MaxCode = MaxCode * Height /\ Height * MaxCode \in Nat
        /\ i * MaxCode \in Nat
    BY <1>0, <1>5, <2>1, Multiples
  <2>3. F[i] \in Index
    BY <1>0, <2>2 DEF Index
  <2>4. CodeLen[b[F[i]]] \in 1..MaxCode
    BY <2>3, CodeLenFacts
  <2> QED BY <1>0, <1>4, <2>2, <2>3, <2>4
<1>7. L \in [Rows -> Nat]
  BY <1>6
<1> HIDE DEF L, P
<1> DEFINE Q == {i \in 0 .. Height : Summ(L, i) = F[i]}
<1>8. \A i \in 0 .. Height : i \in Q
  <2>1. 0 \in Q
    BY <1>0, <1>3, SummStep
  <2>2. ASSUME NEW i \in 0 .. Height - 1, i \in Q PROVE i + 1 \in Q
    <3>1. i \in Rows /\ i + 1 \in 0 .. Height
      BY <1>0 DEF Rows
    <3>2. Summ(L, i + 1) = F[i] + L[i]
      BY <2>2, <3>1, SummStep
    <3>3. F[i + 1] = IF cp + F[i] < flen THEN F[i] + CodeLen[b[F[i]]] ELSE F[i]
      BY <1>4, <3>1
    <3>4. F[i] \in Nat /\ L[i] = IF cp + F[i] < flen THEN CodeLen[b[F[i]]] ELSE 0
      BY <1>6, <3>1
    <3> QED BY <3>1, <3>2, <3>3, <3>4
  <2> HIDE DEF Q
  <2> QED BY <1>0, <2>1, <2>2, RangeInduction
<1>9. Instructions(L, b)
  <2>1. ASSUME NEW i \in Rows
        PROVE  L[i] = IF cp + Summ(L, i) < flen THEN CodeLen[b[Summ(L, i)]] ELSE 0
    <3>1. i \in 0 .. Height
      BY <1>0 DEF Rows
    <3> QED BY <1>6, <1>8, <3>1
  <2> QED BY <2>1 DEF Instructions
<1> QED BY <1>2, <1>7, <1>9

(* An instruction begins inside the buffer, and its line is its length.    *)
LEMMA InstructionsFit ==
  ASSUME NEW lens \in [Rows -> Nat], NEW b \in Bytes, Instructions(lens, b),
         cp \in Nat, flen \in Nat
  PROVE  /\ \A i \in 0 .. Height : Summ(lens, i) \in Nat /\ Summ(lens, i) <= i * MaxCode
         /\ \A i \in Rows : /\ Summ(lens, i) \in Index /\ lens[i] <= MaxCode
                            /\ Summ(lens, i) + lens[i] <= BufSize
<1> DEFINE P == {i \in 0 .. Height : Summ(lens, i) <= i * MaxCode}
<1>0. /\ Height \in Nat /\ MaxCode \in Nat /\ BufSize \in Nat
      /\ BufSize >= MaxCode * Height + MaxCode /\ MaxCode > 0
  BY Sizes
<1>1. ASSUME NEW i \in Rows, i \in P
      PROVE  /\ Summ(lens, i) \in Index /\ lens[i] \in Nat /\ lens[i] <= MaxCode
             /\ Summ(lens, i) + lens[i] <= BufSize
  <2>1. i \in Nat /\ i \in 0 .. Height /\ i <= Height
    BY <1>0 DEF Rows
  <2>2. Summ(lens, i) \in Nat
    BY <2>1, SummNat DEF Lengths
  <2>3. i * MaxCode <= Height * MaxCode /\ Height * MaxCode = MaxCode * Height
        /\ Height * MaxCode \in Nat /\ i * MaxCode \in Nat
    BY <1>0, <2>1, Multiples
  <2>4. Summ(lens, i) \in Index
    BY <1>0, <1>1, <2>2, <2>3 DEF Index
  <2>5. CodeLen[b[Summ(lens, i)]] \in 1..MaxCode
    BY <2>4, CodeLenFacts
  <2>6. lens[i] \in Nat /\ lens[i] <= MaxCode
    BY <1>0, <2>5 DEF Instructions
  <2>7. Summ(lens, i) <= i * MaxCode
    BY <1>1
  <2> QED BY <1>0, <2>2, <2>3, <2>4, <2>6, <2>7
<1>2. 0 \in P
  BY <1>0, SummStep
<1>3. ASSUME NEW i \in 0 .. Height - 1, i \in P PROVE i + 1 \in P
  <2>1. i \in Rows /\ i \in Nat /\ i + 1 \in 0 .. Height
    BY <1>0 DEF Rows
  <2>2. Summ(lens, i + 1) = Summ(lens, i) + lens[i] /\ Summ(lens, i) \in Nat
    BY <1>0, <2>1, SummStep, SummNat DEF Rows, Lengths
  <2>3. (i + 1) * MaxCode = i * MaxCode + MaxCode /\ i * MaxCode \in Nat
    BY <1>0, <2>1, Multiples
  <2>4. lens[i] \in Nat /\ lens[i] <= MaxCode /\ Summ(lens, i) <= i * MaxCode
    BY <1>1, <1>3, <2>1
  <2>5. Summ(lens, i + 1) <= (i + 1) * MaxCode
    BY <1>0, <2>2, <2>3, <2>4
  <2> QED BY <2>1, <2>5
<1> HIDE DEF P
<1>4. \A i \in 0 .. Height : i \in P
  BY <1>0, <1>2, <1>3, RangeInduction
<1>5. \A i \in Rows : i \in 0 .. Height
  BY <1>0 DEF Rows
<1>6. \A i \in 0 .. Height : Summ(lens, i) \in Nat /\ Summ(lens, i) <= i * MaxCode
  BY <1>4, SummNat DEF P, Lengths
<1> QED BY <1>1, <1>4, <1>5, <1>6

(* Two buffers that agree up to a line have the same lines so far.         *)
LEMMA InstructionsBefore ==
  ASSUME NEW lens \in [Rows -> Nat], NEW b \in Bytes, Instructions(lens, b),
         NEW new \in [Rows -> Nat], NEW c \in Bytes, Instructions(new, c),
         cp \in Nat, flen \in Nat, NEW row \in Rows,
         \A i \in Index : i < Summ(lens, row) => c[i] = b[i]
  PROVE  /\ Summ(new, row) = Summ(lens, row)
         /\ c[Summ(lens, row)] = b[Summ(lens, row)] => new[row] = lens[row]
         /\ lens[row] > 0 => new[row] > 0
<1> DEFINE P == {i \in 0 .. row : Summ(new, i) = Summ(lens, i)}
<1>0. Height \in Nat /\ row \in Nat /\ row < Height /\ row \in 0 .. Height /\ MaxCode \in Nat
  BY Sizes DEF Rows
<1>1. 0 \in P
  BY <1>0, SummStep
<1>2. ASSUME NEW i \in 0 .. row - 1, i \in P PROVE i + 1 \in P
  <2>1. i \in Rows /\ i \in Nat /\ i < row /\ i + 1 \in 0 .. row /\ i \in 0 .. row
    BY <1>0 DEF Rows
  <2>2. Summ(lens, i) \in Index /\ Summ(lens, i) \in Nat /\ lens[i] \in Nat
    BY <2>1, InstructionsFit DEF Index
  <2>3. Summ(lens, i) + lens[i] <= Summ(lens, row) /\ Summ(lens, row) \in Nat
    BY <1>0, <2>1, SummGrows, SummNat DEF Lengths
  <2>4. CodeLen[b[Summ(lens, i)]] \in 1..MaxCode
    BY <2>2, CodeLenFacts
  <2>5. new[i] = lens[i]
    <3>1. CASE cp + Summ(lens, i) < flen
      <4>1. lens[i] = CodeLen[b[Summ(lens, i)]] /\ lens[i] > 0
        BY <1>0, <2>1, <2>4, <3>1 DEF Instructions
      <4>2. Summ(lens, i) < Summ(lens, row)
        BY <2>2, <2>3, <4>1
      <4>3. c[Summ(lens, i)] = b[Summ(lens, i)]
        BY <2>2, <4>2
      <4> QED BY <1>2, <2>1, <3>1, <4>1, <4>3 DEF Instructions
    <3>2. CASE ~(cp + Summ(lens, i) < flen)
      BY <1>2, <2>1, <3>2 DEF Instructions
    <3> QED BY <3>1, <3>2
  <2>6. Summ(new, i + 1) = Summ(new, i) + new[i] /\ Summ(lens, i + 1) = Summ(lens, i) + lens[i]
    BY <2>1, SummStep
  <2> QED BY <1>2, <2>1, <2>5, <2>6
<1> HIDE DEF P
<1>3. Summ(new, row) = Summ(lens, row)
  <2>1. \A i \in 0 .. row : i \in P
    BY <1>0, <1>1, <1>2, RangeInduction
  <2> QED BY <1>0, <2>1 DEF P
<1>4. Summ(lens, row) \in Index
  BY InstructionsFit
<1>5. CodeLen[c[Summ(lens, row)]] \in 1..MaxCode
  BY <1>4, CodeLenFacts
<1> QED BY <1>0, <1>3, <1>5 DEF Instructions

-----------------------------------------------------------------------------
(* Lines with bytes come before those without, and there is one.           *)
Solid(lens) ==
  /\ lens \in [Rows -> Nat] /\ lens[0] > 0
  /\ \A i \in Rows, j \in Rows : i <= j /\ lens[j] > 0 => lens[i] > 0

(* The lines of instructions are of this kind.                             *)
LEMMA InstructionsSolid ==
  ASSUME NEW lens \in [Rows -> Nat], NEW b \in Bytes, Instructions(lens, b),
         cp \in Nat, flen \in Nat, cp < flen
  PROVE  Solid(lens)
<1>1. \A i \in Rows : CodeLen[b[Summ(lens, i)]] \in 1..MaxCode /\ Summ(lens, i) \in Nat
  BY InstructionsFit, CodeLenFacts DEF Index
<1>2. lens[0] > 0
  <2>1. Summ(lens, 0) = 0 /\ 0 \in Rows /\ MaxCode \in Nat
    BY SummStep, Sizes
  <2> QED BY <1>1, <2>1 DEF Instructions
<1>3. ASSUME NEW i \in Rows, NEW j \in Rows, i <= j, lens[j] > 0 PROVE lens[i] > 0
  <2>1. cp + Summ(lens, j) < flen
    BY <1>3 DEF Instructions
  <2>2. Summ(lens, i) <= Summ(lens, j)
    <3>1. j \in 0 .. Height /\ i \in 0 .. j
      BY <1>3, Sizes DEF Rows
    <3> QED BY <3>1, SummGrows DEF Lengths
  <2>3. cp + Summ(lens, i) < flen
    BY <1>1, <2>1, <2>2
  <2> QED BY <1>1, <2>3, Sizes DEF Instructions
<1> QED BY <1>2, <1>3 DEF Solid

(* The lines of the other forms.                                           *)
LEMMA LineLengthsSolid ==
  ASSUME NEW left \in Nat, left > 0
  PROVE  /\ Solid(LineLengths(left))
         /\ \A i \in Rows : /\ i * Width \in Nat /\ LineLengths(left)[i] <= Width
                            /\ LineLengths(left)[i] > 0 =>
                                 i * Width + LineLengths(left)[i] <= left
                            /\ i * Width + Width <= BufSize
<1> DEFINE L == LineLengths(left)
<1>0. Width \in Nat /\ Width > 0 /\ Height \in Nat /\ Rows \subseteq Nat /\ 0 \in Rows
      /\ BufSize \in Nat
  BY Sizes
<1>1. ASSUME NEW i \in Rows
      PROVE  /\ i * Width \in Nat
             /\ L[i] = IF left > i * Width
                       THEN (IF Width < left - i * Width THEN Width ELSE left - i * Width)
                       ELSE 0
  <2>1. i * Width \in Nat
    BY <1>0, Multiples
  <2> QED BY <1>0, <2>1 DEF LineLengths, Min2
<1>2. L \in [Rows -> Nat]
  <2>1. \A i \in Rows : L[i] \in Nat
    BY <1>0, <1>1
  <2> QED BY <2>1 DEF LineLengths
<1> HIDE DEF L
<1>3. L[0] > 0
  <2>1. 0 * Width = 0
    BY <1>0
  <2> QED BY <1>0, <1>1, <2>1
<1>4. ASSUME NEW i \in Rows, NEW j \in Rows, i <= j, L[j] > 0 PROVE L[i] > 0
  <2>1. i * Width <= j * Width
    BY <1>0, <1>4, Multiples
  <2> QED BY <1>0, <1>1, <1>4, <2>1
<1>5. ASSUME NEW i \in Rows
      PROVE  L[i] <= Width /\ (L[i] > 0 => i * Width + L[i] <= left)
  BY <1>0, <1>1
<1>6. ASSUME NEW i \in Rows PROVE i * Width + Width <= BufSize
  <2>1. i + 1 \in Nat /\ i + 1 <= Height /\ i \in Nat
    BY <1>0 DEF Rows
  <2>2. (i + 1) * Width <= Height * Width /\ (i + 1) * Width = i * Width + Width
    BY <1>0, <2>1, Multiples
  <2>3. Height * Width = Width * Height /\ Width * Height \in Nat
    BY <1>0
  <2> QED BY <1>0, <1>1, <2>2, <2>3, Sizes
<1> QED BY <1>1, <1>2, <1>3, <1>4, <1>5, <1>6 DEF Solid, L

(* CheckYBounds leads to a line with bytes, and stays on one.              *)
LEMMA InRowsIsSolid ==
  ASSUME NEW lens, Solid(lens), NEW r \in Int
  PROVE  /\ InRows(lens, r) \in Rows /\ lens[InRows(lens, r)] > 0
         /\ r \in Rows /\ lens[r] > 0 => InRows(lens, r) = r
<1> DEFINE S == {i \in Rows : lens[i] > 0}
           last == LastRow(lens)
<1>1. last \in S /\ \A i \in S : i <= last
  <2>1. Height - 1 \in Nat /\ S \subseteq 0..(Height - 1) /\ S # {}
    BY Sizes DEF Solid, Rows
  <2> QED BY <2>1, MaxIsMost DEF LastRow
<1>2. last \in Nat /\ last \in Rows /\ lens[last] > 0
  BY <1>1, Sizes
<1>3. InRows(lens, r) = IF r < 0 THEN 0 ELSE IF r < last THEN r ELSE last
  BY DEF InRows, Min2
<1> HIDE DEF last
<1>4. r >= 0 /\ r < last => r \in Rows /\ r <= last
  BY <1>2, Sizes DEF Rows
<1>5. InRows(lens, r) \in Rows /\ lens[InRows(lens, r)] > 0
  BY <1>2, <1>3, <1>4, Sizes DEF Solid
<1>6. r \in Rows /\ lens[r] > 0 => r <= last /\ r >= 0
  BY <1>1, Sizes
<1> QED BY <1>2, <1>3, <1>5, <1>6

(* CheckBounds and CheckXYBounds lead to a byte of such a line.            *)
LEMMA CheckBoundsFacts ==
  ASSUME NEW lens, Solid(lens), NEW col \in Nat, NEW r \in Int
  PROVE  LET at == CheckBounds(lens, col, r)
         IN  /\ at.y \in Rows /\ lens[at.y] > 0 /\ at.x \in 0..(lens[at.y] - 1)
             /\ r \in Rows /\ lens[r] > 0 =>
                  at.y = r /\ at.x = IF col < lens[r] - 1 THEN col ELSE lens[r] - 1
<1> DEFINE q == InRows(lens, r)
<1>1. /\ q \in Rows /\ lens[q] > 0 /\ lens[q] \in Nat
      /\ r \in Rows /\ lens[r] > 0 => q = r
  BY InRowsIsSolid DEF Solid
<1>2. CheckBounds(lens, col, r) = [x |-> Min2(col, lens[q] - 1), y |-> q]
  BY DEF CheckBounds
<1> HIDE DEF q
<1>3. Min2(col, lens[q] - 1) \in 0..(lens[q] - 1)
  BY <1>1 DEF Min2
<1> QED BY <1>1, <1>2, <1>3 DEF Min2

(* The same of the assembler editor, where a byte has two digits.          *)
LEMMA CheckXYBoundsFacts ==
  ASSUME NEW lens, Solid(lens), NEW col \in Nat, NEW r \in Rows, lens[r] > 0
  PROVE  LET at == CheckXYBounds(lens, col, r)
         IN  /\ at.y \in Rows /\ lens[at.y] > 0 /\ at.x \in 0..(2 * lens[at.y] - 1)
             /\ col < 2 * lens[r] => at.x = col /\ at.y = r
<1> DEFINE q == InRows(lens, r + 1)
<1>1. q \in Rows /\ lens[q] > 0 /\ lens[q] \in Nat /\ lens[r] \in Nat
  <2>1. r + 1 \in Int
    BY DEF Rows
  <2> QED BY <2>1, InRowsIsSolid DEF Solid
<1>2. CheckXYBounds(lens, col, r) = IF col >= 2 * lens[r] THEN [x |-> 0, y |-> q]
                                    ELSE [x |-> col, y |-> r]
  BY DEF CheckXYBounds
<1> HIDE DEF q
<1> QED BY <1>1, <1>2

-----------------------------------------------------------------------------
(* The modification mode is on.                                            *)
Editing == FilesOK /\ mode # "none" /\ BufferOK /\ CursorOK

(* The viewer is in a file, which is no shorter than it was.               *)
LEMMA FileFacts ==
  ASSUME FilesOK
  PROVE  /\ flen \in Nat /\ cp \in Nat /\ cp < flen /\ Left \in Nat /\ Left > 0
         /\ Len(disk) \in Nat /\ Len(orig) \in Nat /\ Len(orig) <= flen /\ flen <= Len(disk)
         /\ \A o \in 0..(flen - 1) : seen[o + 1] \in Byte
         /\ \A o \in 1..Len(disk) : disk[o] \in Byte
<1>1. /\ disk \in Seq(Byte) /\ seen \in Seq(Byte) /\ orig \in Seq(Byte)
      /\ cp \in Nat /\ cp < flen
      /\ Len(orig) <= flen /\ flen <= Len(disk)
  BY DEF FilesOK, Grown, flen
<1>2. flen \in Nat /\ Len(disk) \in Nat /\ Len(orig) \in Nat
  BY <1>1 DEF flen
<1>3. \A o \in 0..(flen - 1) : seen[o + 1] \in Byte
  BY <1>1, <1>2 DEF flen
<1> QED BY <1>1, <1>2, <1>3 DEF Left

(* The line of the cursor lies in the buffer, and in the forms other than  *)
(* the assembler editor in what is left of the file.                       *)
LEMMA RowFits ==
  ASSUME Editing
  PROVE  /\ Solid(alen) /\ y \in Rows /\ alen[y] \in Nat /\ alen[y] > 0 /\ x \in Nat
         /\ Start(alen, y) \in Nat
         /\ \A n \in 0..(alen[y] - 1) : Start(alen, y) + n \in Index
         /\ mode # "asm" => Start(alen, y) = y * Width /\ Start(alen, y) + alen[y] <= Left
<1>0. FilesOK /\ BufferOK /\ CursorOK /\ flen \in Nat /\ cp \in Nat /\ cp < flen /\ Left \in Nat
      /\ Left > 0 /\ buff \in Bytes /\ BufSize \in Nat
  BY FileFacts, Sizes DEF Editing, BufferOK
<1>1. y \in Rows /\ alen[y] \in Nat /\ alen[y] > 0
  BY <1>0 DEF CursorOK
<1>2. x \in Nat
  BY <1>0, <1>1 DEF CursorOK, Digits
<1>3. CASE mode = "asm"
  <2>1. alen \in [Rows -> Nat] /\ Instructions(alen, buff)
    BY <1>0, <1>3 DEF CursorOK, RowsAreInstructions, Instructions
  <2>2. Start(alen, y) = Summ(alen, y)
    BY <1>3 DEF Start
  <2>3. Solid(alen)
    BY <1>0, <2>1, InstructionsSolid
  <2>4. Summ(alen, y) \in Nat /\ Summ(alen, y) + alen[y] <= BufSize
    BY <1>0, <1>1, <2>1, InstructionsFit DEF Index
  <2>5. \A n \in 0..(alen[y] - 1) : Summ(alen, y) + n \in Index
    BY <1>0, <1>1, <2>4 DEF Index
  <2> QED BY <1>1, <1>2, <1>3, <2>2, <2>3, <2>4, <2>5
<1>4. CASE mode # "asm"
  <2>1. alen = LineLengths(Left)
    BY <1>0, <1>4 DEF CursorOK
  <2>2. Start(alen, y) = y * Width
    BY <1>4 DEF Start
  <2>3. /\ Solid(alen) /\ y * Width \in Nat /\ alen[y] <= Width
        /\ y * Width + alen[y] <= Left /\ y * Width + Width <= BufSize
    BY <1>0, <1>1, <2>1, LineLengthsSolid
  <2>4. \A n \in 0..(alen[y] - 1) : y * Width + n \in Index
    BY <1>0, <1>1, <2>3, Sizes DEF Index
  <2> QED BY <1>1, <1>2, <1>4, <2>2, <2>3, <2>4
<1> QED BY <1>3, <1>4

(* The bytes of the line in the buffer.                                    *)
LEMMA RowBytes ==
  ASSUME Editing, NEW b \in Bytes
  PROVE  /\ Row(b) \in [1..alen[y] -> Byte] /\ Len(Row(b)) = alen[y]
         /\ \A n \in 0..(alen[y] - 1) : Row(b)[n + 1] = b[Start(alen, y) + n]
                                        /\ b[Start(alen, y) + n] \in Byte
<1> DEFINE L == alen[y]  st == Start(alen, y)
<1>1. L \in Nat /\ st \in Nat /\ \A n \in 0..(L - 1) : st + n \in Index
  BY RowFits
<1>2. Row(b) = [n \in 1..L |-> b[st + n - 1]]
  BY DEF Row
<1> HIDE DEF L, st
<1>3. ASSUME NEW n \in 1..L PROVE b[st + n - 1] \in Byte
  <2>1. n - 1 \in 0..(L - 1) /\ st + n - 1 = st + (n - 1)
    BY <1>1
  <2> QED BY <1>1, <2>1 DEF Bytes
<1>4. Row(b) \in [1..L -> Byte]
  BY <1>2, <1>3
<1>5. Len(Row(b)) = L
  BY <1>1, <1>2
<1>6. ASSUME NEW n \in 0..(L - 1) PROVE Row(b)[n + 1] = b[st + n] /\ b[st + n] \in Byte
  <2>1. n + 1 \in 1..L /\ st + (n + 1) - 1 = st + n
    BY <1>1
  <2> QED BY <1>2, <1>3, <2>1
<1> QED BY <1>4, <1>5, <1>6 DEF L, st

(* Its text in digits and a separator.                                     *)
LEMMA HexText ==
  ASSUME NEW k \in Nat, NEW bytes \in [1..k -> Byte], Len(bytes) = k, mode = "hex"
  PROVE  /\ ExpandHex(bytes) \in [1..(3 * k) -> Digit \cup {Sep, Dot}]
         /\ \A n \in 0..(k - 1) : /\ ExpandHex(bytes)[3 * n + 1] = bytes[n + 1] \div D
                                  /\ ExpandHex(bytes)[3 * n + 2] = bytes[n + 1] % D
<1> DEFINE At(n) == LET b == bytes[((n - 1) \div 3) + 1]
                    IN  <<b \div D, b % D, Sep>>[((n - 1) % 3) + 1]
<1>1. ExpandHex(bytes) = [n \in 1..(3 * k) |-> At(n)]
  BY DEF ExpandHex, Stride
<1>2. ASSUME NEW n \in 1..(3 * k) PROVE At(n) \in Digit \cup {Sep, Dot}
  <2> DEFINE m == ((n - 1) \div 3) + 1  j == ((n - 1) % 3) + 1
  <2>1. m \in 1..k /\ j \in 1..3
    OBVIOUS
  <2> HIDE DEF m, j
  <2>2. bytes[m] \in Byte
    BY <2>1
  <2>3. bytes[m] \div D \in Digit /\ bytes[m] % D \in Digit
    BY <2>2, TwoDigits
  <2>4. <<bytes[m] \div D, bytes[m] % D, Sep>>[j] \in Digit \cup {Sep, Dot}
    BY <2>1, <2>3
  <2> QED BY <2>4 DEF m, j
<1>3. ASSUME NEW n \in 0..(k - 1)
      PROVE  At(3 * n + 1) = bytes[n + 1] \div D /\ At(3 * n + 2) = bytes[n + 1] % D
  <2>1. /\ (((3 * n + 1) - 1) \div 3) + 1 = n + 1 /\ (((3 * n + 1) - 1) % 3) + 1 = 1
        /\ (((3 * n + 2) - 1) \div 3) + 1 = n + 1 /\ (((3 * n + 2) - 1) % 3) + 1 = 2
    OBVIOUS
  <2> QED BY <2>1
<1>4. \A n \in 0..(k - 1) : 3 * n + 1 \in 1..(3 * k) /\ 3 * n + 2 \in 1..(3 * k)
  OBVIOUS
<1> HIDE DEF At
<1> QED BY <1>1, <1>2, <1>3, <1>4

(* Its text in digits.                                                     *)
LEMMA AsmText ==
  ASSUME NEW k \in Nat, NEW bytes \in [1..k -> Byte], Len(bytes) = k, mode = "asm"
  PROVE  /\ ExpandHex(bytes) \in [1..(2 * k) -> Digit]
         /\ \A n \in 0..(k - 1) : /\ ExpandHex(bytes)[2 * n + 1] = bytes[n + 1] \div D
                                  /\ ExpandHex(bytes)[2 * n + 2] = bytes[n + 1] % D
<1> DEFINE At(n) == LET b == bytes[((n - 1) \div 2) + 1]
                    IN  <<b \div D, b % D, Sep>>[((n - 1) % 2) + 1]
<1>1. ExpandHex(bytes) = [n \in 1..(2 * k) |-> At(n)]
  BY DEF ExpandHex, Stride
<1>2. ASSUME NEW n \in 1..(2 * k) PROVE At(n) \in Digit
  <2> DEFINE m == ((n - 1) \div 2) + 1  j == ((n - 1) % 2) + 1
  <2>1. m \in 1..k /\ j \in 1..2
    OBVIOUS
  <2> HIDE DEF m, j
  <2>2. bytes[m] \in Byte
    BY <2>1
  <2>3. bytes[m] \div D \in Digit /\ bytes[m] % D \in Digit
    BY <2>2, TwoDigits
  <2>4. <<bytes[m] \div D, bytes[m] % D, Sep>>[j] \in Digit
    BY <2>1, <2>3
  <2> QED BY <2>4 DEF m, j
<1>3. ASSUME NEW n \in 0..(k - 1)
      PROVE  At(2 * n + 1) = bytes[n + 1] \div D /\ At(2 * n + 2) = bytes[n + 1] % D
  <2>1. /\ (((2 * n + 1) - 1) \div 2) + 1 = n + 1 /\ (((2 * n + 1) - 1) % 2) + 1 = 1
        /\ (((2 * n + 2) - 1) \div 2) + 1 = n + 1 /\ (((2 * n + 2) - 1) % 2) + 1 = 2
    OBVIOUS
  <2> QED BY <2>1
<1>4. \A n \in 0..(k - 1) : 2 * n + 1 \in 1..(2 * k) /\ 2 * n + 2 \in 1..(2 * k)
  OBVIOUS
<1> HIDE DEF At
<1> QED BY <1>1, <1>2, <1>3, <1>4

(* A character for a byte.                                                 *)
LEMMA CharText ==
  ASSUME NEW k \in Nat, NEW bytes \in [1..k -> Byte], Len(bytes) = k,
         mode # "hex", mode # "asm"
  PROVE  /\ ExpandHex(bytes) \in [1..k -> Byte]
         /\ \A n \in 1..k : ExpandHex(bytes)[n] = bytes[n]
<1>1. ExpandHex(bytes) = [n \in 1..k |-> bytes[n]]
  <2>1. Stride = 1 /\ 1 * k = k /\ \A n \in 1..k : ((n - 1) \div 1) + 1 = n
    BY DEF Stride
  <2>2. ExpandHex(bytes) = [n \in 1..k |-> bytes[((n - 1) \div 1) + 1]]
    BY <2>1 DEF ExpandHex
  <2> QED BY <2>1, <2>2
<1> QED BY <1>1

-----------------------------------------------------------------------------
(* Text turned back into bytes.                                            *)
SameDigits(text, k, n, b) == text[k * n + 1] = b \div D /\ text[k * n + 2] = b % D

(* The digits of a byte make that byte.                                    *)
LEMMA DigitsOfByte ==
  ASSUME NEW b \in Byte, NEW c, NEW e, c = b \div D, e = b % D
  PROVE  (GetHexAnalog(c) * D) + GetHexAnalog(e) = b
<1>1. c \in Digit /\ e \in Digit /\ (c * D) + e = b
  BY TwoDigits
<1>2. \A d \in Digit : GetHexAnalog(d) = d
  BY Sizes DEF GetHexAnalog, Digit, Dot
<1>3. GetHexAnalog(c) = c /\ GetHexAnalog(e) = e
  BY <1>1, <1>2
<1> QED BY <1>1, <1>3

(* The digits of the hex form.                                             *)
LEMMA HexBytes ==
  ASSUME NEW k \in Nat, NEW text \in [1..(3 * k) -> Digit \cup {Sep, Dot}], mode = "hex",
         \A n \in 0..(k - 1) : {text[3 * n + 1], text[3 * n + 2]} \subseteq Digit \cup {Dot}
  PROVE  /\ CompressHex(text) \in [1..k -> Byte] /\ Len(CompressHex(text)) = k
         /\ \A n \in 0..(k - 1), b \in Byte :
              SameDigits(text, 3, n, b) => CompressHex(text)[n + 1] = b
<1> DEFINE Of(n) == (GetHexAnalog(text[3 * (n - 1) + 1]) * D) + GetHexAnalog(text[3 * (n - 1) + 2])
<1>1. Len(text) = 3 * k
  <2>1. 3 * k \in Nat
    OBVIOUS
  <2> QED BY <2>1
<1>2. (3 * k) \div 3 = k
  OBVIOUS
<1>3. CompressHex(text) = [n \in 1..k |-> Of(n)]
  BY <1>1, <1>2 DEF CompressHex, Stride
<1>4. ASSUME NEW n \in 1..k PROVE Of(n) \in Byte
  <2>1. n - 1 \in 0..(k - 1)
    OBVIOUS
  <2>2. text[3 * (n - 1) + 1] \in Digit \cup {Dot} /\ text[3 * (n - 1) + 2] \in Digit \cup {Dot}
    BY <2>1
  <2> QED BY <2>2, DigitsMakeByte
<1>5. ASSUME NEW n \in 0..(k - 1), NEW b \in Byte, SameDigits(text, 3, n, b)
      PROVE  n + 1 \in 1..k /\ Of(n + 1) = b
  <2>1. (n + 1) - 1 = n /\ n + 1 \in 1..k
    OBVIOUS
  <2> QED BY <1>5, <2>1, DigitsOfByte DEF SameDigits
<1> HIDE DEF Of
<1> QED BY <1>3, <1>4, <1>5

(* The digits of the assembler editor.                                     *)
LEMMA AsmBytes ==
  ASSUME NEW k \in Nat, NEW text \in [1..(2 * k) -> Digit], mode = "asm"
  PROVE  /\ CompressHex(text) \in [1..k -> Byte] /\ Len(CompressHex(text)) = k
         /\ \A n \in 0..(k - 1), b \in Byte :
              SameDigits(text, 2, n, b) => CompressHex(text)[n + 1] = b
<1> DEFINE Of(n) == (GetHexAnalog(text[2 * (n - 1) + 1]) * D) + GetHexAnalog(text[2 * (n - 1) + 2])
<1>1. Len(text) = 2 * k
  <2>1. 2 * k \in Nat
    OBVIOUS
  <2> QED BY <2>1
<1>2. (2 * k) \div 2 = k
  OBVIOUS
<1>3. CompressHex(text) = [n \in 1..k |-> Of(n)]
  BY <1>1, <1>2 DEF CompressHex, Stride
<1>4. ASSUME NEW n \in 1..k PROVE Of(n) \in Byte
  <2>1. 2 * (n - 1) + 1 \in 1..(2 * k) /\ 2 * (n - 1) + 2 \in 1..(2 * k)
    OBVIOUS
  <2>2. text[2 * (n - 1) + 1] \in Digit /\ text[2 * (n - 1) + 2] \in Digit
    BY <2>1
  <2> QED BY <2>2, DigitsMakeByte
<1>5. ASSUME NEW n \in 0..(k - 1), NEW b \in Byte, SameDigits(text, 2, n, b)
      PROVE  n + 1 \in 1..k /\ Of(n + 1) = b
  <2>1. (n + 1) - 1 = n /\ n + 1 \in 1..k
    OBVIOUS
  <2> QED BY <1>5, <2>1, DigitsOfByte DEF SameDigits
<1> HIDE DEF Of
<1> QED BY <1>3, <1>4, <1>5

(* Characters.                                                             *)
LEMMA CharBytes ==
  ASSUME NEW k \in Nat, NEW text \in [1..k -> Byte], mode # "hex", mode # "asm"
  PROVE  /\ CompressHex(text) \in [1..k -> Byte] /\ Len(CompressHex(text)) = k
         /\ \A n \in 1..k : CompressHex(text)[n] = text[n]
<1>1. Stride = 1 /\ Len(text) = k /\ k \div 1 = k
  BY DEF Stride
<1>2. CompressHex(text) = [n \in 1..k |-> text[n]]
  BY <1>1 DEF CompressHex
<1> QED BY <1>2

(* The bytes of the line put back into the buffer.                         *)
PutBack(bytes) == [i \in DOMAIN buff |-> IF i - Start(alen, y) \in 0..(Len(bytes) - 1)
                                         THEN bytes[i - Start(alen, y) + 1] ELSE buff[i]]

(* Only bytes of the line change, each to what the text says.              *)
LEMMA PutBackFacts ==
  ASSUME Editing, NEW bytes \in [1..alen[y] -> Byte], Len(bytes) = alen[y]
  PROVE  /\ PutBack(bytes) \in Bytes
         /\ \A i \in Index : PutBack(bytes)[i] # buff[i] =>
              \E n \in 0..(alen[y] - 1) : /\ i = Start(alen, y) + n
                                          /\ bytes[n + 1] # buff[i]
<1> DEFINE L == alen[y]  st == Start(alen, y)
<1>1. L \in Nat /\ st \in Nat /\ buff \in Bytes /\ DOMAIN buff = Index
  BY RowFits DEF Editing, BufferOK, Bytes
<1>2. PutBack(bytes) = [i \in Index |-> IF i - st \in 0..(L - 1) THEN bytes[i - st + 1] ELSE buff[i]]
  BY <1>1 DEF PutBack
<1> HIDE DEF L, st
<1>3. Index \subseteq Int
  BY DEF Index
<1>4. ASSUME NEW i \in Index, i - st \in 0..(L - 1)
      PROVE  i - st + 1 \in 1..L /\ i = st + (i - st)
  BY <1>1, <1>3, <1>4
<1>5. PutBack(bytes) \in [Index -> Byte]
  <2>1. \A i \in Index : i - st \in 0..(L - 1) => bytes[i - st + 1] \in Byte
    BY <1>4 DEF L
  <2> QED BY <1>1, <1>2, <2>1 DEF Bytes
<1>6. ASSUME NEW i \in Index, PutBack(bytes)[i] # buff[i]
      PROVE  \E n \in 0..(L - 1) : i = st + n /\ bytes[n + 1] # buff[i]
  <2>1. i - st \in 0..(L - 1)
    BY <1>2, <1>6
  <2>2. PutBack(bytes)[i] = bytes[(i - st) + 1]
    BY <1>2, <2>1
  <2> QED BY <1>4, <1>6, <2>1, <2>2
<1> QED BY <1>5, <1>6 DEF L, st, Bytes

-----------------------------------------------------------------------------
(* A key and the line it works on.                                         *)
IsKey(key) ==
  /\ key[1] \in {"char", "undo", "home", "end", "left", "right", "up", "down"}
  /\ key[1] = "char" => key[2] \in (IF mode \in {"hex", "asm"} THEN Digit ELSE Byte)

Changes(key) == key[1] \in {"char", "undo"}

Pressed == IF line # NoLine THEN line
           ELSE [text |-> ExpandHex(Row(buff)), pos |-> x * (IF mode = "hex" THEN 3 ELSE 1)]

Result(key) == eeditstring(Pressed, ExpandHex(Row(save)), key)

(* A key types a character, takes one back, or moves.                      *)
LEMMA KeyCases ==
  ASSUME NEW key, IsKey(key)
  PROVE  \/ key[1] = "char" /\ Changes(key) /\ Result(key) = Typed(Pressed, key[2])
         \/ /\ key[1] = "undo" /\ Changes(key)
            /\ Result(key) = [text |-> [Pressed.text EXCEPT ![Back(Pressed.pos) + 1] =
                                          ExpandHex(Row(save))[Back(Pressed.pos) + 1]],
                              pos |-> Back(Pressed.pos)]
         \/ /\ ~Changes(key)
            /\ Result(key) = IF isSecondD(Pressed.pos) THEN Pressed
                             ELSE [Pressed EXCEPT !.pos = Moved(Pressed, key[1])]
<1>1. CASE key[1] = "char"
  BY <1>1 DEF Result, eeditstring, Changes
<1>2. CASE key[1] = "undo"
  BY <1>2 DEF Result, eeditstring, Changes
<1>3. CASE key[1] \notin {"char", "undo"}
  BY <1>3 DEF Result, eeditstring, Changes
<1> QED BY <1>1, <1>2, <1>3

(* Keys that move lead to the first digit of a byte, or to the end.        *)
LEMMA MovedFacts ==
  ASSUME NEW l, NEW n \in Nat, Len(l.text) = n, l.pos \in 0..n, NEW dir
  PROVE  /\ Moved(l, dir) \in Nat
         /\ mode = "hex" /\ n % 3 = 0 /\ l.pos % 3 = 0 => Moved(l, dir) % 3 = 0
<1> DEFINE step == IF mode = "hex" THEN 3 ELSE 1
<1>1. \/ Moved(l, dir) = 0 \/ Moved(l, dir) = n \/ Moved(l, dir) = l.pos
      \/ Moved(l, dir) = l.pos - step /\ l.pos > step
      \/ Moved(l, dir) = l.pos + step
  BY DEF Moved, Min2
<1> QED BY <1>1

-----------------------------------------------------------------------------
(* A key in the digits of the hex form: a line is kept between the digits  *)
(* of a byte, or the byte under the cursor is changed.                     *)
LEMMA SecondDigit ==
  ASSUME NEW p \in Int
  PROVE  /\ isSpace(p) <=> mode = "hex" /\ p % 3 = 2
         /\ isSecondD(p) <=> mode = "hex" /\ p % 3 = 1
<1>1. /\ (p + 1) % 3 = 0 <=> p % 3 = 2
      /\ ((p + 1) + 1) % 3 = 0 <=> p % 3 = 1
  OBVIOUS
<1> QED BY <1>1 DEF isSpace, isSecondD

HexPairs(text) ==
  \A n \in 0..(alen[y] - 1) : {text[3 * n + 1], text[3 * n + 2]} \subseteq Digit \cup {Dot}

HexSame(text, m) ==
  \A n \in 0..(alen[y] - 1) : n # m => SameDigits(text, 3, n, buff[Start(alen, y) + n])

(* The line on which a key of the hex form works.                          *)
LEMMA HexPressed ==
  ASSUME Editing, LineOK, mode = "hex"
  PROVE  /\ Pressed = [text |-> Pressed.text, pos |-> Pressed.pos]
         /\ Pressed.text \in [1..(3 * alen[y]) -> Digit \cup {Sep, Dot}]
         /\ HexPairs(Pressed.text)
         /\ Pressed.pos \in 0..(3 * alen[y] - 1)
         /\ Cursor = Start(alen, y) + (Pressed.pos \div 3)
         /\ Pressed.pos \div 3 \in 0..(alen[y] - 1)
         /\ \/ Pressed.pos % 3 = 1 /\ HexSame(Pressed.text, Pressed.pos \div 3)
            \/ Pressed.pos % 3 = 0 /\ HexSame(Pressed.text, -1)
<1>1. alen[y] \in Nat /\ alen[y] > 0 /\ buff \in Bytes
  BY RowFits DEF Editing, BufferOK
<1>2. CASE line # NoLine
  <2>1. KeptLine(line) /\ Pressed = line
    BY <1>2 DEF LineOK, Pressed
  <2>2. /\ line = [text |-> line.text, pos |-> line.pos]
        /\ line.pos \in 0..(3 * alen[y] - 1) /\ line.pos % 3 = 1
        /\ line.text \in [1..(3 * alen[y]) -> Digit \cup {Sep, Dot}]
        /\ HexPairs(line.text) /\ HexSame(line.text, line.pos \div 3)
    BY <2>1 DEF KeptLine, HexPairs, HexSame, SameDigits
  <2>3. line.pos \div 3 \in 0..(alen[y] - 1)
    BY <1>1, <2>2
  <2>4. Cursor = Start(alen, y) + (line.pos \div 3)
    BY <1>2 DEF Cursor
  <2> QED BY <2>1, <2>2, <2>3, <2>4
<1>3. CASE line = NoLine
  <2> DEFINE t == ExpandHex(Row(buff))
  <2>1. Pressed = [text |-> t, pos |-> x * 3]
    BY <1>3 DEF Pressed
  <2>2. /\ Row(buff) \in [1..alen[y] -> Byte] /\ Len(Row(buff)) = alen[y]
        /\ \A n \in 0..(alen[y] - 1) : /\ Row(buff)[n + 1] = buff[Start(alen, y) + n]
                                       /\ buff[Start(alen, y) + n] \in Byte
    BY <1>1, RowBytes
  <2>3. /\ t \in [1..(3 * alen[y]) -> Digit \cup {Sep, Dot}]
        /\ \A n \in 0..(alen[y] - 1) : SameDigits(t, 3, n, buff[Start(alen, y) + n])
    BY <1>1, <2>2, HexText DEF SameDigits
  <2> HIDE DEF t
  <2>4. HexPairs(t)
    <3>1. ASSUME NEW n \in 0..(alen[y] - 1)
          PROVE  t[3 * n + 1] \in Digit /\ t[3 * n + 2] \in Digit
      <4>1. buff[Start(alen, y) + n] \in Byte
        BY <2>2
      <4> QED BY <2>3, <4>1, TwoDigits DEF SameDigits
    <3> QED BY <3>1 DEF HexPairs
  <2>5. x \in 0..(alen[y] - 1)
    BY <1>1 DEF Editing, CursorOK, Digits
  <2>6. Cursor = Start(alen, y) + x
    BY <1>3 DEF Cursor
  <2>7. x * 3 \in 0..(3 * alen[y] - 1) /\ (x * 3) \div 3 = x /\ (x * 3) % 3 = 0
    BY <1>1, <2>5
  <2>8. HexSame(t, -1)
    BY <2>3 DEF HexSame
  <2> QED BY <2>1, <2>3, <2>4, <2>5, <2>6, <2>7, <2>8
<1> QED BY <1>2, <1>3

(* How many bytes the editor reads.                                        *)
LEMMA SizeFacts ==
  ASSUME FilesOK, NEW m
  PROVE  /\ Size(m) \in 1..BufSize /\ Size(m) <= Left
         /\ m # "asm" => Size(m) = Left \/ Size(m) = BufSize
<1>1. /\ MaxCode * Height \in Nat /\ MaxCode * Height >= 1 /\ MaxCode * Height <= BufSize
      /\ BufSize \in Nat /\ BufSize >= 1
  <2>1. 1 * MaxCode <= Height * MaxCode /\ 1 * MaxCode = MaxCode
        /\ Height * MaxCode = MaxCode * Height /\ Height * MaxCode \in Nat
    BY Sizes, Multiples
  <2> QED BY <2>1, Sizes
<1>2. Left \in Nat /\ Left > 0 /\ flen - cp = Left
  BY FileFacts DEF Left
<1>3. Size(m) = IF (IF m = "asm" THEN MaxCode * Height ELSE BufSize) < Left
                THEN (IF m = "asm" THEN MaxCode * Height ELSE BufSize) ELSE Left
  BY <1>2 DEF Size, Min2
<1> QED BY <1>1, <1>2, <1>3

(* What the editor reads are bytes.                                        *)
LEMMA ReadBytes ==
  ASSUME FilesOK, NEW m
  PROVE  ReadIn(m) \in Bytes
<1>1. \A i \in Index : Offset(m, i) \in Nat
  BY FileFacts DEF Offset, Index
<1>2. ASSUME NEW i \in Index
      PROVE  (IF i < Size(m) /\ Offset(m, i) < flen THEN seen[Offset(m, i) + 1]
              ELSE Filler) \in Byte
  <2>1. CASE Offset(m, i) < flen
    <3>1. Offset(m, i) \in 0..(flen - 1)
      BY <1>1, <2>1, FileFacts
    <3> QED BY <3>1, FileFacts, EditorAssumption
  <2>2. CASE ~(Offset(m, i) < flen)
    BY <2>2, EditorAssumption
  <2> QED BY <2>1, <2>2
<1>3. ReadIn(m) = [i \in Index |-> IF i < Size(m) /\ Offset(m, i) < flen
                                   THEN seen[Offset(m, i) + 1] ELSE Filler]
  BY DEF ReadIn, Index
<1> QED BY <1>2, <1>3 DEF Bytes

(* So are those that the edits are compared with.                          *)
LEMMA SaveBytes ==
  ASSUME FilesOK, mode # "none", BufferOK
  PROVE  save \in Bytes
BY ReadBytes DEF BufferOK

(* A text in which only the digits of one byte were replaced.              *)
LEMMA HexChanged ==
  ASSUME alen[y] \in Nat, NEW k \in 0..(alen[y] - 1), NEW t, NEW u,
         HexPairs(t), HexSame(t, k) \/ HexSame(t, -1),
         \A n \in 1..(3 * alen[y]) : n \notin {3 * k + 1, 3 * k + 2} => u[n] = t[n],
         {u[3 * k + 1], u[3 * k + 2]} \subseteq Digit \cup {Dot}
  PROVE  HexPairs(u) /\ HexSame(u, k)
<1>1. ASSUME NEW n \in 0..(alen[y] - 1), n # k
      PROVE  u[3 * n + 1] = t[3 * n + 1] /\ u[3 * n + 2] = t[3 * n + 2]
  <2>1. /\ 3 * n + 1 \in 1..(3 * alen[y]) /\ 3 * n + 2 \in 1..(3 * alen[y])
        /\ 3 * n + 1 \notin {3 * k + 1, 3 * k + 2} /\ 3 * n + 2 \notin {3 * k + 1, 3 * k + 2}
    BY <1>1
  <2> QED BY <2>1
<1>2. HexPairs(u)
  BY <1>1 DEF HexPairs
<1>3. ASSUME NEW n \in 0..(alen[y] - 1), n # k
      PROVE  SameDigits(u, 3, n, buff[Start(alen, y) + n])
  <2>1. SameDigits(t, 3, n, buff[Start(alen, y) + n])
    BY <1>3 DEF HexSame
  <2> QED BY <1>1, <1>3, <2>1 DEF SameDigits
<1>4. HexSame(u, k)
  BY <1>3 DEF HexSame
<1> QED BY <1>2, <1>4

(* A line that is kept, in these terms.                                    *)
LEMMA IsKept ==
  ASSUME alen[y] \in Nat, NEW t \in [1..(3 * alen[y]) -> Digit \cup {Sep, Dot}], NEW p \in Nat,
         p < 3 * alen[y], p % 3 = 1, HexPairs(t), HexSame(t, p \div 3)
  PROVE  KeptLine([text |-> t, pos |-> p])
BY DEF KeptLine, HexPairs, HexSame, SameDigits

(* A character in the hex form: the first digit of a byte keeps the line,  *)
(* the second completes the byte under the cursor.                         *)
LEMMA HexTyped ==
  ASSUME Editing, LineOK, mode = "hex", NEW c \in Digit
  PROVE  LET r == Typed(Pressed, c)
         IN  \/ isSecondD(r.pos) /\ KeptLine(r)
             \/ /\ ~isSecondD(r.pos) /\ r.pos \in Nat
                /\ r.text \in [1..(3 * alen[y]) -> Digit \cup {Sep, Dot}]
                /\ HexPairs(r.text) /\ HexSame(r.text, Cursor - Start(alen, y))
<1> DEFINE t == Pressed.text  p == Pressed.pos  k == p \div 3  L == alen[y]  r == Typed(Pressed, c)
<1>1. /\ L \in Nat /\ L > 0 /\ t \in [1..(3 * L) -> Digit \cup {Sep, Dot}] /\ HexPairs(t)
      /\ p \in 0..(3 * L - 1) /\ k \in 0..(L - 1) /\ Cursor - Start(alen, y) = k
      /\ \/ p % 3 = 1 /\ HexSame(t, k)
         \/ p % 3 = 0 /\ HexSame(t, -1)
  <2>1. Start(alen, y) \in Nat
    BY RowFits
  <2> QED BY <2>1, HexPressed, RowFits
<1> DEFINE q == IF isSpace(p + 1) THEN (p + 1) + 1 ELSE p + 1
           u == [n \in 1..(3 * L) |-> CASE n = p + 1 -> c
                                        [] n = q + 1 /\ isSecondD(q) -> Dot
                                        [] OTHER -> t[n]]
<1>2. r = [text |-> u, pos |-> q]
  <2>1. DOMAIN t = 1..(3 * L) /\ (p + 1) + 1 = p + 2
    BY <1>1
  <2> QED BY <2>1 DEF Typed
<1>3. Dot \in Digit \cup {Dot} /\ Digit \subseteq Digit \cup {Sep, Dot}
  OBVIOUS
<1> HIDE DEF t, p, L, r
<1>4. CASE p % 3 = 1
  <2>1. /\ p = 3 * k + 1 /\ (p + 1) % 3 = 2 /\ (p + 2) % 3 = 0 /\ p \in Nat
    BY <1>1, <1>4
  <2>2. q = p + 2 /\ ~isSecondD(q)
    <3>1. (p + 1) + 1 = p + 2 /\ isSpace(p + 1) /\ ~isSecondD(p + 2)
      BY <2>1, SecondDigit
    <3> QED BY <3>1
  <2>3. u = [n \in 1..(3 * L) |-> IF n = p + 1 THEN c ELSE t[n]]
    BY <2>2
  <2>4. u \in [1..(3 * L) -> Digit \cup {Sep, Dot}]
    BY <1>1, <2>3
  <2>5. /\ 3 * k + 1 \in 1..(3 * L) /\ 3 * k + 2 \in 1..(3 * L)
        /\ p + 1 = 3 * k + 2
    BY <1>1, <2>1
  <2> HIDE DEF u, k, q
  <2>6. /\ \A n \in 1..(3 * L) : n \notin {3 * k + 1, 3 * k + 2} => u[n] = t[n]
        /\ u[3 * k + 1] = t[3 * k + 1] /\ u[3 * k + 2] = c
    BY <1>1, <2>1, <2>3, <2>5
  <2>7. t[3 * k + 1] \in Digit \cup {Dot}
    BY <1>1 DEF HexPairs, L
  <2>8. HexPairs(u) /\ HexSame(u, k)
    BY <1>1, <1>4, <2>6, <2>7, HexChanged DEF L
  <2>9. q \in Nat
    BY <2>1, <2>2
  <2> QED BY <1>1, <1>2, <2>2, <2>4, <2>8, <2>9 DEF L, r
<1>5. CASE p % 3 = 0
  <2>1. /\ p = 3 * k /\ (p + 1) % 3 = 1 /\ p \in Nat /\ p + 1 < 3 * L /\ (p + 1) \div 3 = k
    BY <1>1, <1>5
  <2>2. q = p + 1 /\ isSecondD(q)
    BY <2>1, SecondDigit
  <2>3. u = [n \in 1..(3 * L) |-> IF n = p + 1 THEN c ELSE IF n = p + 2 THEN Dot ELSE t[n]]
    <3>1. q + 1 = p + 2
      BY <2>1, <2>2
    <3> HIDE DEF q
    <3> QED BY <2>2, <3>1
  <2>4. u \in [1..(3 * L) -> Digit \cup {Sep, Dot}]
    BY <1>1, <2>3
  <2>5. /\ 3 * k + 1 \in 1..(3 * L) /\ 3 * k + 2 \in 1..(3 * L)
        /\ p + 1 = 3 * k + 1 /\ p + 2 = 3 * k + 2
    BY <1>1, <2>1
  <2> HIDE DEF u, k, q
  <2>6. /\ \A n \in 1..(3 * L) : n \notin {3 * k + 1, 3 * k + 2} => u[n] = t[n]
        /\ u[3 * k + 1] = c /\ u[3 * k + 2] = Dot
    BY <1>1, <2>1, <2>3, <2>5
  <2>8. HexPairs(u) /\ HexSame(u, k)
    BY <1>1, <1>5, <2>6, HexChanged DEF L
  <2>9. KeptLine([text |-> u, pos |-> q])
    <3>1. q \in Nat /\ q < 3 * L /\ q % 3 = 1 /\ q \div 3 = k
      BY <2>1, <2>2
    <3>2. HexSame(u, q \div 3)
      BY <2>8, <3>1
    <3> QED BY <1>1, <2>4, <2>8, <3>1, <3>2, IsKept DEF L
  <2> QED BY <1>2, <2>2, <2>9 DEF r
<1> QED BY <1>1, <1>4, <1>5

(* Undo in the hex form: the digit before the cursor is taken back.        *)
LEMMA HexUndo ==
  ASSUME Editing, LineOK, mode = "hex"
  PROVE  LET p == Back(Pressed.pos)
             u == [Pressed.text EXCEPT ![p + 1] = ExpandHex(Row(save))[p + 1]]
         IN  \/ isSecondD(p) /\ KeptLine([text |-> u, pos |-> p])
             \/ /\ ~isSecondD(p) /\ p \in Nat
                /\ u \in [1..(3 * alen[y]) -> Digit \cup {Sep, Dot}]
                /\ HexPairs(u) /\ HexSame(u, Cursor - Start(alen, y))
<1> DEFINE t == Pressed.text  p == Pressed.pos  k == p \div 3  L == alen[y]
           s == ExpandHex(Row(save))
<1>1. /\ L \in Nat /\ L > 0 /\ t \in [1..(3 * L) -> Digit \cup {Sep, Dot}] /\ HexPairs(t)
      /\ p \in 0..(3 * L - 1) /\ k \in 0..(L - 1) /\ Cursor - Start(alen, y) = k
      /\ \/ p % 3 = 1 /\ HexSame(t, k)
         \/ p % 3 = 0 /\ HexSame(t, -1)
  <2>1. Start(alen, y) \in Nat
    BY RowFits
  <2> QED BY <2>1, HexPressed, RowFits
<1>2. ASSUME NEW n \in 0..(L - 1) PROVE s[3 * n + 1] \in Digit /\ s[3 * n + 2] \in Digit
  <2>1. save \in Bytes
    BY SaveBytes DEF Editing
  <2>2. /\ Row(save) \in [1..L -> Byte] /\ Len(Row(save)) = L
        /\ Row(save)[n + 1] = save[Start(alen, y) + n] /\ save[Start(alen, y) + n] \in Byte
    BY <2>1, RowBytes
  <2>3. s[3 * n + 1] = Row(save)[n + 1] \div D /\ s[3 * n + 2] = Row(save)[n + 1] % D
    BY <1>1, <2>2, HexText
  <2> QED BY <2>2, <2>3, TwoDigits
<1> DEFINE U(q) == [t EXCEPT ![q + 1] = s[q + 1]]
<1>3. ASSUME NEW q \in 0..(3 * L - 1), NEW n \in 0..(L - 1), q = 3 * n \/ q = 3 * n + 1,
             HexSame(t, n) \/ HexSame(t, -1)
      PROVE  U(q) \in [1..(3 * L) -> Digit \cup {Sep, Dot}] /\ HexPairs(U(q)) /\ HexSame(U(q), n)
  <2> HIDE DEF t, L, s
  <2>1. s[q + 1] \in Digit
    <3>1. q + 1 = 3 * n + 1 \/ q + 1 = 3 * n + 2
      BY <1>3
    <3> QED BY <1>2, <3>1
  <2>2. U(q) = [i \in 1..(3 * L) |-> IF i = q + 1 THEN s[q + 1] ELSE t[i]]
    BY <1>1
  <2>3. U(q) \in [1..(3 * L) -> Digit \cup {Sep, Dot}]
    BY <1>1, <2>1, <2>2
  <2>4. t[3 * n + 1] \in Digit \cup {Dot} /\ t[3 * n + 2] \in Digit \cup {Dot}
    BY <1>1 DEF HexPairs, L
  <2>5. 3 * n + 1 \in 1..(3 * L) /\ 3 * n + 2 \in 1..(3 * L)
    BY <1>1
  <2>6. /\ \A i \in 1..(3 * L) : i \notin {3 * n + 1, 3 * n + 2} => U(q)[i] = t[i]
        /\ {U(q)[3 * n + 1], U(q)[3 * n + 2]} \subseteq Digit \cup {Dot}
    BY <1>1, <1>3, <2>1, <2>2, <2>4, <2>5
  <2> HIDE DEF U
  <2>7. HexPairs(U(q)) /\ HexSame(U(q), n)
    BY <1>1, <1>3, <2>6, HexChanged DEF L
  <2> QED BY <2>3, <2>7
<1> HIDE DEF t, p, L, s, U
<1>4. CASE p % 3 = 1
  <2>1. p = 3 * k + 1 /\ p - 1 = 3 * k /\ p > 0 /\ (p - 1) % 3 = 0 /\ p - 1 \in 0..(3 * L - 1)
    BY <1>1, <1>4
  <2>2. Back(p) = p - 1 /\ ~isSecondD(p - 1)
    BY <2>1, SecondDigit DEF Back
  <2> HIDE DEF k
  <2>3. U(p - 1) \in [1..(3 * L) -> Digit \cup {Sep, Dot}] /\ HexPairs(U(p - 1))
        /\ HexSame(U(p - 1), k)
    BY <1>1, <1>3, <1>4, <2>1
  <2> QED BY <1>1, <2>1, <2>2, <2>3 DEF t, p, L, s, U
<1>5. CASE p = 0
  <2>1. k = 0 /\ 0 % 3 = 0 /\ 0 \in 0..(3 * L - 1)
    BY <1>1, <1>5
  <2>2. Back(p) = 0 /\ ~isSecondD(0)
    BY <1>5, <2>1, SecondDigit DEF Back
  <2> HIDE DEF k
  <2>3. U(0) \in [1..(3 * L) -> Digit \cup {Sep, Dot}] /\ HexPairs(U(0)) /\ HexSame(U(0), k)
    BY <1>1, <1>3, <1>5, <2>1
  <2> QED BY <1>1, <2>2, <2>3 DEF t, p, L, s, U
<1>6. CASE p % 3 = 0 /\ p > 0
  <2>1. /\ p - 1 > 0 /\ (p - 1) % 3 = 2 /\ p - 2 = 3 * (k - 1) + 1 /\ (p - 2) % 3 = 1
        /\ k - 1 \in 0..(L - 1) /\ (p - 2) \div 3 = k - 1
        /\ p - 2 \in 0..(3 * L - 1) /\ p - 2 \in Nat /\ p - 2 < 3 * L /\ (p - 1) - 1 = p - 2
    BY <1>1, <1>6
  <2>2. Back(p) = p - 2 /\ isSecondD(p - 2)
    <3>1. isSpace(p - 1) /\ isSecondD(p - 2)
      BY <1>1, <2>1, SecondDigit
    <3> QED BY <1>6, <2>1, <3>1 DEF Back
  <2> HIDE DEF k
  <2>3. HexSame(t, -1)
    BY <1>1, <1>6
  <2>4. U(p - 2) \in [1..(3 * L) -> Digit \cup {Sep, Dot}] /\ HexPairs(U(p - 2))
        /\ HexSame(U(p - 2), k - 1)
    BY <1>1, <1>3, <2>1, <2>3
  <2>5. KeptLine([text |-> U(p - 2), pos |-> p - 2])
    BY <1>1, <2>1, <2>4, IsKept DEF L
  <2> QED BY <2>2, <2>5 DEF t, p, L, s, U
<1> QED BY <1>1, <1>4, <1>5, <1>6

(* Any key in the hex form.                                                *)
LEMMA HexKey ==
  ASSUME Editing, LineOK, mode = "hex", NEW key, IsKey(key)
  PROVE  LET r == Result(key)
         IN  \/ isSecondD(r.pos) /\ KeptLine(r)
             \/ /\ ~isSecondD(r.pos) /\ r.pos \in Nat
                /\ r.text \in [1..(3 * alen[y]) -> Digit \cup {Sep, Dot}] /\ HexPairs(r.text)
                /\ HexSame(r.text, IF Changes(key) THEN Cursor - Start(alen, y) ELSE -1)
<1> DEFINE r == Result(key)  t == Pressed.text  p == Pressed.pos
<1>1. CASE key[1] = "char" /\ Changes(key) /\ r = Typed(Pressed, key[2])
  <2>1. key[2] \in Digit
    BY <1>1 DEF IsKey
  <2> QED BY <1>1, <2>1, HexTyped
<1>2. CASE /\ key[1] = "undo" /\ Changes(key)
           /\ r = [text |-> [t EXCEPT ![Back(p) + 1] = ExpandHex(Row(save))[Back(p) + 1]],
                   pos |-> Back(p)]
  <2> DEFINE u == [t EXCEPT ![Back(p) + 1] = ExpandHex(Row(save))[Back(p) + 1]]
  <2>1. r.text = u /\ r.pos = Back(p) /\ r = [text |-> u, pos |-> Back(p)]
    BY <1>2
  <2>2. \/ isSecondD(Back(p)) /\ KeptLine([text |-> u, pos |-> Back(p)])
        \/ /\ ~isSecondD(Back(p)) /\ Back(p) \in Nat
           /\ u \in [1..(3 * alen[y]) -> Digit \cup {Sep, Dot}]
           /\ HexPairs(u) /\ HexSame(u, Cursor - Start(alen, y))
    BY HexUndo
  <2> HIDE DEF u
  <2>3. r.text = u /\ r.pos = Back(p) /\ r = [text |-> u, pos |-> Back(p)] /\ Changes(key)
    BY <1>2, <2>1
  <2> QED BY <2>2, <2>3
<1>3. CASE /\ ~Changes(key)
           /\ r = IF isSecondD(p) THEN Pressed ELSE [Pressed EXCEPT !.pos = Moved(Pressed, key[1])]
  <2>1. /\ Pressed = [text |-> t, pos |-> p] /\ alen[y] \in Nat
        /\ t \in [1..(3 * alen[y]) -> Digit \cup {Sep, Dot}] /\ HexPairs(t)
        /\ p \in 0..(3 * alen[y] - 1)
        /\ \/ p % 3 = 1 /\ HexSame(t, p \div 3)
           \/ p % 3 = 0 /\ HexSame(t, -1)
    BY HexPressed, RowFits
  <2> HIDE DEF r, t, p
  <2>2. CASE p % 3 = 1
    <3>1. p \in Nat /\ p < 3 * alen[y] /\ p \in Int
      BY <2>1
    <3>4. isSecondD(p)
      BY <2>2, <3>1, SecondDigit
    <3>5. HexSame(t, p \div 3)
      BY <2>1, <2>2
    <3>2. KeptLine([text |-> t, pos |-> p])
      BY <2>1, <2>2, <3>1, <3>5, IsKept
    <3> QED BY <1>3, <2>1, <3>2, <3>4 DEF r
  <2>3. CASE p % 3 = 0
    <3>1. ~isSecondD(p) /\ HexSame(t, -1)
      BY <2>1, <2>3, SecondDigit
    <3> DEFINE q == Moved(Pressed, key[1])
    <3>2. r = [text |-> t, pos |-> q]
      BY <1>3, <2>1, <3>1
    <3>3. q \in Nat /\ q % 3 = 0
      <4>1. /\ 3 * alen[y] \in Nat /\ (3 * alen[y]) % 3 = 0
            /\ Len(Pressed.text) = 3 * alen[y] /\ Pressed.pos \in 0..(3 * alen[y])
            /\ Pressed.pos % 3 = 0
        BY <2>1, <2>3 DEF t, p
      <4> QED BY <4>1, MovedFacts
    <3> HIDE DEF q
    <3>4. ~isSecondD(q)
      BY <3>3, SecondDigit
    <3> QED BY <1>3, <2>1, <3>1, <3>2, <3>3, <3>4 DEF r
  <2> QED BY <2>1, <2>2, <2>3
<1> QED BY <1>1, <1>2, <1>3, KeyCases

-----------------------------------------------------------------------------
(* A key in the other forms: each changes the byte it is typed at, or the  *)
(* one to which undo goes back.                                            *)
LEMMA OtherPressed ==
  ASSUME Editing, LineOK, mode # "hex"
  PROVE  /\ line = NoLine
         /\ Pressed = [text |-> ExpandHex(Row(buff)), pos |-> x]
         /\ x \in 0..(Digits * alen[y] - 1)
         /\ Cursor = Start(alen, y) + (x \div Digits)
<1>1. line = NoLine
  BY DEF LineOK
<1>2. x \in 0..(Digits * alen[y] - 1) /\ x \in Nat
  BY RowFits DEF Editing, CursorOK
<1>3. Pressed = [text |-> ExpandHex(Row(buff)), pos |-> x]
  BY <1>1, <1>2 DEF Pressed
<1>4. Cursor = Start(alen, y) + (x \div Digits)
  <2>1. x \div 1 = x
    BY <1>2
  <2> QED BY <1>1, <2>1 DEF Cursor, Digits
<1> QED BY <1>1, <1>2, <1>3, <1>4

(* Without pairs of digits and separators, no position is skipped.         *)
LEMMA OtherSteps ==
  ASSUME mode # "hex", NEW l, NEW c
  PROVE  /\ Typed(l, c) = [text |-> [i \in DOMAIN l.text |-> IF i = l.pos + 1 THEN c
                                                            ELSE l.text[i]],
                           pos |-> l.pos + 1]
         /\ Back(l.pos) = IF l.pos > 0 THEN l.pos - 1 ELSE 0
         /\ \A p : ~isSecondD(p) /\ ~isSpace(p)
<1>1. \A p : ~isSecondD(p) /\ ~isSpace(p)
  BY DEF isSecondD, isSpace
<1> QED BY <1>1 DEF Typed, Back

Chars == IF mode = "asm" THEN Digit ELSE Byte
Text  == ExpandHex(Row(buff))

(* The text of the line has so many characters.                            *)
LEMMA OtherText ==
  ASSUME Editing, mode # "hex", NEW b \in Bytes
  PROVE  ExpandHex(Row(b)) \in [1..(Digits * alen[y]) -> Chars]
<1> DEFINE L == alen[y]
<1>1. L \in Nat
  BY RowFits
<1>2. Row(b) \in [1..L -> Byte] /\ Len(Row(b)) = L
  BY RowBytes
<1> HIDE DEF L
<1>3. CASE mode = "asm"
  BY <1>1, <1>2, <1>3, AsmText DEF Chars, Digits, L
<1>4. CASE mode # "asm"
  <2>1. 1 * L = L
    BY <1>1
  <2> QED BY <1>1, <1>2, <1>4, <2>1, CharText DEF Chars, Digits, L
<1> QED BY <1>3, <1>4

(* A text that differs only in one byte says so when it is turned back.    *)
LEMMA OtherBytes ==
  ASSUME Editing, mode # "hex", NEW u \in [1..(Digits * alen[y]) -> Chars],
         NEW m \in -1..(alen[y] - 1),
         \A i \in 1..(Digits * alen[y]) : (i - 1) \div Digits # m => u[i] = Text[i]
  PROVE  /\ CompressHex(u) \in [1..alen[y] -> Byte] /\ Len(CompressHex(u)) = alen[y]
         /\ \A n \in 0..(alen[y] - 1) :
              n # m => CompressHex(u)[n + 1] = buff[Start(alen, y) + n]
<1> DEFINE L == alen[y]  st == Start(alen, y)
<1>1. L \in Nat /\ buff \in Bytes
  BY RowFits DEF Editing, BufferOK
<1>2. /\ Row(buff) \in [1..L -> Byte] /\ Len(Row(buff)) = L
      /\ \A n \in 0..(L - 1) : Row(buff)[n + 1] = buff[st + n] /\ buff[st + n] \in Byte
  BY <1>1, RowBytes
<1> HIDE DEF L, st
<1>3. CASE mode = "asm"
  <2>1. Digits = 2 /\ Chars = Digit
    BY <1>3 DEF Digits, Chars
  <2>2. u \in [1..(2 * L) -> Digit]
    BY <2>1 DEF L
  <2>3. \A n \in 0..(L - 1) : /\ Text[2 * n + 1] = Row(buff)[n + 1] \div D
                              /\ Text[2 * n + 2] = Row(buff)[n + 1] % D
    BY <1>1, <1>2, <1>3, AsmText DEF Text
  <2>4. ASSUME NEW n \in 0..(L - 1), n # m PROVE SameDigits(u, 2, n, buff[st + n])
    <3>1. /\ 2 * n + 1 \in 1..(2 * L) /\ 2 * n + 2 \in 1..(2 * L)
          /\ ((2 * n + 1) - 1) \div 2 = n /\ ((2 * n + 2) - 1) \div 2 = n
      BY <1>1
    <3>2. u[2 * n + 1] = Text[2 * n + 1] /\ u[2 * n + 2] = Text[2 * n + 2]
      BY <2>1, <2>4, <3>1 DEF L
    <3> QED BY <1>2, <2>3, <3>2 DEF SameDigits
  <2>5. /\ CompressHex(u) \in [1..L -> Byte] /\ Len(CompressHex(u)) = L
        /\ \A n \in 0..(L - 1), b \in Byte :
             SameDigits(u, 2, n, b) => CompressHex(u)[n + 1] = b
    BY <1>1, <1>3, <2>2, AsmBytes
  <2>6. ASSUME NEW n \in 0..(L - 1), n # m PROVE CompressHex(u)[n + 1] = buff[st + n]
    BY <1>2, <2>4, <2>5, <2>6
  <2> QED BY <2>5, <2>6 DEF L, st
<1>4. CASE mode # "asm"
  <2>1. Digits = 1 /\ Chars = Byte /\ 1 * L = L
    BY <1>1, <1>4 DEF Digits, Chars
  <2>2. u \in [1..L -> Byte]
    BY <2>1 DEF L
  <2>3. \A n \in 1..L : Text[n] = Row(buff)[n]
    BY <1>1, <1>2, <1>4, CharText DEF Text
  <2>4. /\ CompressHex(u) \in [1..L -> Byte] /\ Len(CompressHex(u)) = L
        /\ \A n \in 1..L : CompressHex(u)[n] = u[n]
    BY <1>1, <1>4, <2>2, CharBytes
  <2>5. ASSUME NEW n \in 0..(L - 1), n # m PROVE CompressHex(u)[n + 1] = buff[st + n]
    <3>1. n + 1 \in 1..L /\ ((n + 1) - 1) \div 1 = n
      BY <1>1
    <3>2. u[n + 1] = Text[n + 1]
      BY <2>1, <2>5, <3>1 DEF L
    <3> QED BY <1>2, <2>3, <2>4, <3>1, <3>2
  <2> QED BY <2>4, <2>5 DEF L, st
<1> QED BY <1>3, <1>4

(* Any key in the other forms.                                             *)
LEMMA OtherKey ==
  ASSUME Editing, LineOK, mode # "hex", NEW key, IsKey(key)
  PROVE  LET r == Result(key)
         IN  /\ ~isSecondD(r.pos) /\ r.pos \in Nat
             /\ r.text \in [1..(Digits * alen[y]) -> Chars]
             /\ \E m \in -1..(alen[y] - 1) :
                  /\ \A i \in 1..(Digits * alen[y]) : (i - 1) \div Digits # m => r.text[i] = Text[i]
                  /\ ~Changes(key) => m = -1
                  /\ Changes(key) =>
                       \/ Start(alen, y) + m = Cursor
                       \/ r.pos \in 0..(Digits * alen[y] - 1) /\ m = r.pos \div Digits
<1> DEFINE r == Result(key)  N == Digits * alen[y]
<1>1. /\ alen[y] \in Nat /\ N \in Nat /\ Digits \in {1, 2} /\ x \in 0..(N - 1)
      /\ Pressed = [text |-> Text, pos |-> x] /\ Cursor = Start(alen, y) + (x \div Digits)
      /\ Start(alen, y) \in Nat
  BY OtherPressed, RowFits DEF Digits, Text
<1>2. Text \in [1..N -> Chars] /\ ExpandHex(Row(save)) \in [1..N -> Chars]
  <2>1. buff \in Bytes /\ save \in Bytes
    BY SaveBytes DEF Editing, BufferOK
  <2> QED BY <2>1, OtherText DEF Text
<1>3. ASSUME NEW j \in 0..(N - 1)
      PROVE  /\ j \div Digits \in 0..(alen[y] - 1)
             /\ \A i \in 1..N : (i - 1) \div Digits # j \div Digits => i # j + 1
  <2>1. CASE Digits = 1
    BY <1>1, <2>1
  <2>2. CASE Digits = 2
    BY <1>1, <2>2
  <2> QED BY <1>1, <2>1, <2>2
<1>4. \A p : ~isSecondD(p)
  <2>1. Pressed.text = Text /\ Pressed.pos \in 0..N
    BY <1>1
  <2> QED BY <1>1, <2>1, OtherSteps
<1> HIDE DEF N
<1>5. CASE key[1] = "char" /\ Changes(key) /\ r = Typed(Pressed, key[2])
  <2> DEFINE u == [i \in 1..N |-> IF i = x + 1 THEN key[2] ELSE Text[i]]
  <2>1. r = [text |-> u, pos |-> x + 1]
    <3>1. Pressed.text = Text /\ Pressed.pos = x /\ Pressed.pos \in 0..N /\ DOMAIN Text = 1..N
      BY <1>1, <1>2
    <3>2. Typed(Pressed, key[2]) = [text |-> [i \in DOMAIN Pressed.text |->
                                                IF i = Pressed.pos + 1 THEN key[2]
                                                ELSE Pressed.text[i]],
                                    pos |-> Pressed.pos + 1]
      BY OtherSteps
    <3>3. u = [i \in DOMAIN Text |-> IF i = Pressed.pos + 1 THEN key[2] ELSE Text[i]]
      BY <3>1
    <3> HIDE DEF r, u
    <3> QED BY <1>5, <3>1, <3>2, <3>3
  <2>2. key[2] \in Chars
    BY <1>5 DEF IsKey, Chars
  <2>3. u \in [1..N -> Chars]
    BY <1>2, <2>2
  <2>4. ASSUME NEW i \in 1..N, (i - 1) \div Digits # x \div Digits PROVE u[i] = Text[i]
    BY <1>1, <1>3, <2>4
  <2> HIDE DEF u
  <2>5. x + 1 \in Nat /\ x \div Digits \in 0..(alen[y] - 1) /\ x \div Digits \in -1..(alen[y] - 1)
    BY <1>1, <1>3
  <2>6. /\ ~isSecondD(r.pos) /\ r.pos \in Nat /\ r.text \in [1..N -> Chars]
        /\ \A i \in 1..N : (i - 1) \div Digits # x \div Digits => r.text[i] = Text[i]
    BY <1>4, <2>1, <2>3, <2>4, <2>5
  <2> HIDE DEF r
  <2> QED BY <1>1, <1>5, <2>5, <2>6 DEF N, r
<1>6. CASE /\ key[1] = "undo" /\ Changes(key)
           /\ r = [text |-> [Pressed.text EXCEPT ![Back(Pressed.pos) + 1] =
                               ExpandHex(Row(save))[Back(Pressed.pos) + 1]],
                   pos |-> Back(Pressed.pos)]
  <2> DEFINE s == ExpandHex(Row(save))  q == IF x > 0 THEN x - 1 ELSE 0
             u == [i \in 1..N |-> IF i = q + 1 THEN s[i] ELSE Text[i]]
  <2>1. q \in 0..(N - 1)
    BY <1>1
  <2>2. r = [text |-> u, pos |-> q]
    <3>1. Pressed.text = Text /\ Pressed.pos = x /\ Pressed.pos \in 0..N
      BY <1>1
    <3>2. Back(Pressed.pos) = q
      BY <1>1, <3>1, OtherSteps
    <3> HIDE DEF r, q
    <3>3. [Text EXCEPT ![q + 1] = s[q + 1]] = u
      BY <1>2, <2>1
    <3> QED BY <1>6, <3>1, <3>2, <3>3
  <2>3. u \in [1..N -> Chars]
    BY <1>2
  <2> HIDE DEF q
  <2>4. ASSUME NEW i \in 1..N, (i - 1) \div Digits # q \div Digits PROVE u[i] = Text[i]
    BY <1>3, <2>1, <2>4
  <2> HIDE DEF u
  <2>5. q \in Nat /\ q \div Digits \in -1..(alen[y] - 1)
    BY <1>1, <1>3, <2>1
  <2>6. /\ ~isSecondD(r.pos) /\ r.pos \in Nat /\ r.text \in [1..N -> Chars]
        /\ r.pos \in 0..(N - 1) /\ q \div Digits = r.pos \div Digits
        /\ \A i \in 1..N : (i - 1) \div Digits # q \div Digits => r.text[i] = Text[i]
    BY <1>4, <2>1, <2>2, <2>3, <2>4, <2>5
  <2> HIDE DEF r
  <2> QED BY <1>1, <1>6, <2>5, <2>6 DEF N, r
<1>7. CASE /\ ~Changes(key)
           /\ r = IF isSecondD(Pressed.pos) THEN Pressed
                  ELSE [Pressed EXCEPT !.pos = Moved(Pressed, key[1])]
  <2>1. r = [text |-> Text, pos |-> Moved(Pressed, key[1])]
    BY <1>1, <1>4, <1>7
  <2>2. Moved(Pressed, key[1]) \in Nat
    <3>1. Pressed.text = Text /\ Pressed.pos \in 0..N /\ Len(Text) = N
      BY <1>1, <1>2 DEF N
    <3> QED BY <1>1, <3>1, MovedFacts
  <2>3. -1 \in -1..(alen[y] - 1)
    BY <1>1
  <2>4. /\ ~isSecondD(r.pos) /\ r.pos \in Nat /\ r.text \in [1..N -> Chars]
        /\ \A i \in 1..N : (i - 1) \div Digits # -1 => r.text[i] = Text[i]
    BY <1>2, <1>4, <2>1, <2>2
  <2> HIDE DEF r
  <2> QED BY <1>7, <2>3, <2>4 DEF N, r
<1> QED BY <1>5, <1>6, <1>7, KeyCases

-----------------------------------------------------------------------------
(* Any key: a line is kept, or the buffer differs at most in the byte      *)
(* under the cursor or the one to which undo goes back.                    *)
LEMMA KeyResult ==
  ASSUME Editing, LineOK, NEW key, IsKey(key)
  PROVE  LET r == Result(key)
             b == PutBack(CompressHex(r.text))
         IN  \/ isSecondD(r.pos) /\ mode = "hex" /\ KeptLine(r)
             \/ /\ ~isSecondD(r.pos) /\ r.pos \in Nat /\ b \in Bytes
                /\ \A i \in Index : b[i] # buff[i] =>
                     /\ Changes(key) /\ i >= Start(alen, y)
                     /\ \/ i = Cursor
                        \/ /\ mode # "hex" /\ r.pos \in 0..(Digits * alen[y] - 1)
                           /\ i = Start(alen, y) + (r.pos \div Digits)
                /\ \A i \in Index, j \in Index : b[i] # buff[i] /\ b[j] # buff[j] => i = j
<1> DEFINE r == Result(key)  bytes == CompressHex(r.text)  b == PutBack(bytes)
           L == alen[y]  st == Start(alen, y)
<1>1. L \in Nat /\ st \in Nat /\ buff \in Bytes /\ Index \subseteq Int
  BY RowFits DEF Editing, BufferOK, Index
<1>2. \A n \in 0..(L - 1) : buff[st + n] \in Byte
  BY <1>1, RowFits DEF Bytes
<1>3. CASE mode = "hex" /\ ~(isSecondD(r.pos) /\ KeptLine(r))
  <2> DEFINE m == IF Changes(key) THEN Cursor - st ELSE -1
  <2>1. /\ ~isSecondD(r.pos) /\ r.pos \in Nat
        /\ r.text \in [1..(3 * L) -> Digit \cup {Sep, Dot}] /\ HexPairs(r.text)
        /\ HexSame(r.text, m)
    BY <1>3, HexKey
  <2>2. Cursor \in Int
    BY <1>1, <1>3, HexPressed
  <2> HIDE DEF r, m, st
  <2>3. /\ bytes \in [1..L -> Byte] /\ Len(bytes) = L
        /\ \A n \in 0..(L - 1), c \in Byte : SameDigits(r.text, 3, n, c) => bytes[n + 1] = c
    BY <1>1, <1>3, <2>1, HexBytes DEF HexPairs
  <2>4. ASSUME NEW n \in 0..(L - 1), n # m PROVE bytes[n + 1] = buff[st + n]
    BY <1>2, <2>1, <2>3, <2>4 DEF HexSame, st
  <2> HIDE DEF bytes, L
  <2>5. /\ b \in Bytes
        /\ \A i \in Index : b[i] # buff[i] =>
             \E n \in 0..(L - 1) : i = st + n /\ bytes[n + 1] # buff[i]
    BY <2>3, PutBackFacts DEF L, st
  <2>6. ASSUME NEW i \in Index, b[i] # buff[i] PROVE Changes(key) /\ i >= st /\ i = Cursor
    <3>1. PICK n \in 0..(L - 1) : i = st + n /\ bytes[n + 1] # buff[i]
      BY <2>5, <2>6
    <3>2. n = m
      BY <2>4, <3>1
    <3> QED BY <1>1, <2>2, <3>1, <3>2 DEF m
  <2> QED BY <1>3, <2>1, <2>5, <2>6 DEF r, bytes, st
<1>4. CASE mode # "hex"
  <2>1. /\ ~isSecondD(r.pos) /\ r.pos \in Nat /\ r.text \in [1..(Digits * L) -> Chars]
    BY <1>4, OtherKey
  <2>2. PICK m \in -1..(L - 1) :
          /\ \A i \in 1..(Digits * L) : (i - 1) \div Digits # m => r.text[i] = Text[i]
          /\ ~Changes(key) => m = -1
          /\ Changes(key) => \/ st + m = Cursor
                             \/ r.pos \in 0..(Digits * L - 1) /\ m = r.pos \div Digits
    BY <1>4, OtherKey
  <2> HIDE DEF r
  <2>3. /\ bytes \in [1..L -> Byte] /\ Len(bytes) = L
        /\ \A n \in 0..(L - 1) : n # m => bytes[n + 1] = buff[st + n]
    BY <1>4, <2>1, <2>2, OtherBytes
  <2> HIDE DEF bytes, L, st
  <2>4. /\ b \in Bytes
        /\ \A i \in Index : b[i] # buff[i] =>
             \E n \in 0..(L - 1) : i = st + n /\ bytes[n + 1] # buff[i]
    BY <2>3, PutBackFacts DEF L, st
  <2>5. ASSUME NEW i \in Index, b[i] # buff[i]
        PROVE  /\ Changes(key) /\ i >= st /\ i = st + m
               /\ i = Cursor \/ (r.pos \in 0..(Digits * L - 1) /\ i = st + (r.pos \div Digits))
    <3>1. PICK n \in 0..(L - 1) : i = st + n /\ bytes[n + 1] # buff[i]
      BY <2>4, <2>5
    <3>2. n = m
      BY <2>3, <3>1
    <3>3. Changes(key)
      BY <2>2, <3>2
    <3> QED BY <1>1, <2>2, <3>1, <3>2, <3>3
  <2> QED BY <1>4, <2>1, <2>4, <2>5 DEF r, bytes, st, L
<1> QED BY <1>3, <1>4

-----------------------------------------------------------------------------
(* Where the cursor goes, and the lines it finds there.                    *)
NewLens(b, row, redraw) ==
  IF mode = "asm" /\ redraw THEN Decoded(b, alen, InRows(alen, row)) ELSE alen
NewAt(b, col, row, redraw) ==
  IF mode = "asm" THEN CheckXYBounds(NewLens(b, row, redraw), col, InRows(alen, row))
  ELSE CheckBounds(NewLens(b, row, redraw), col, row)

(* The new buffer differs from the old one from the line of the cursor on, *)
(* and then the cursor stays in that line and the lines are decoded anew.  *)
OnlyFromRow(b, row, redraw) ==
  \A i \in Index : b[i] # buff[i] => redraw /\ row = y /\ i >= Start(alen, y)

(* The cursor is on a byte again, of the lines as they are now; it is      *)
(* where it was sent if that is on the line as it was and the line is      *)
(* still as long.                                                          *)
LEMMA SettleValues ==
  ASSUME Editing, NEW b \in Bytes, NEW col \in Nat, NEW row \in Int, NEW redraw \in BOOLEAN,
         OnlyFromRow(b, row, redraw)
  PROVE  LET lens == NewLens(b, row, redraw)
             at   == NewAt(b, col, row, redraw)
         IN  /\ lens \in [Rows -> Nat]
             /\ IF mode = "asm" THEN Instructions(lens, b) ELSE lens = alen
             /\ at.y \in Rows /\ lens[at.y] > 0 /\ at.x \in 0..(Digits * lens[at.y] - 1)
             /\ row = y /\ col < Digits * alen[y]
                /\ (col < Digits \/ b[Start(alen, y)] = buff[Start(alen, y)])
                => at.x = col /\ at.y = y /\ Start(lens, y) = Start(alen, y)
<1> DEFINE lens == NewLens(b, row, redraw)  at == NewAt(b, col, row, redraw)
<1>1. /\ FilesOK /\ cp \in Nat /\ flen \in Nat /\ cp < flen /\ buff \in Bytes
      /\ alen \in [Rows -> Nat] /\ Solid(alen) /\ y \in Rows /\ alen[y] \in Nat /\ alen[y] > 0
      /\ Start(alen, y) \in Nat /\ \A n \in 0..(alen[y] - 1) : Start(alen, y) + n \in Index
  BY FileFacts, RowFits DEF Editing, BufferOK, CursorOK
<1>2. CASE mode = "asm"
  <2> DEFINE r == InRows(alen, row)
  <2>1. r \in Rows /\ alen[r] > 0 /\ (row = y => r = y)
    BY <1>1, InRowsIsSolid
  <2> HIDE DEF r
  <2>2. Instructions(alen, buff) /\ Start(alen, y) = Summ(alen, y)
    BY <1>2 DEF Editing, CursorOK, RowsAreInstructions, Instructions, Start
  <2>3. lens \in [Rows -> Nat] /\ Instructions(lens, b)
    <3>1. CASE redraw
      BY <1>1, <1>2, <3>1, DecodedIsInstructions DEF NewLens
    <3>2. CASE ~redraw
      <4>1. b = buff
        BY <1>1, <3>2 DEF OnlyFromRow, Bytes
      <4> QED BY <1>1, <2>2, <3>2, <4>1 DEF NewLens
    <3> QED BY <3>1, <3>2
  <2> HIDE DEF lens
  <2>4. ASSUME NEW i \in Index, i < Summ(alen, r) PROVE b[i] = buff[i]
    BY <1>1, <2>1, <2>2, <2>4 DEF OnlyFromRow, Index
  <2>5. /\ Summ(lens, r) = Summ(alen, r)
        /\ b[Summ(alen, r)] = buff[Summ(alen, r)] => lens[r] = alen[r]
        /\ lens[r] > 0
    BY <1>1, <2>1, <2>2, <2>3, <2>4, InstructionsBefore
  <2>6. Solid(lens)
    BY <1>1, <2>3, InstructionsSolid
  <2>7. at = CheckXYBounds(lens, col, r)
    BY <1>2 DEF NewAt, lens, r
  <2> HIDE DEF at
  <2>8. /\ at.y \in Rows /\ lens[at.y] > 0 /\ at.x \in 0..(2 * lens[at.y] - 1)
        /\ col < 2 * lens[r] => at.x = col /\ at.y = r
    BY <2>1, <2>5, <2>6, <2>7, CheckXYBoundsFacts
  <2>9. ASSUME row = y, col < 2 * alen[y],
               col < 2 \/ b[Start(alen, y)] = buff[Start(alen, y)]
        PROVE  at.x = col /\ at.y = y /\ Start(lens, y) = Start(alen, y)
    <3>1. r = y /\ Start(lens, y) = Start(alen, y)
      BY <1>2, <2>1, <2>2, <2>5, <2>9 DEF Start
    <3>2. lens[r] \in Nat
      BY <2>1, <2>3
    <3>3. col < 2 * lens[r]
      BY <2>2, <2>5, <2>9, <3>1, <3>2
    <3> QED BY <2>8, <3>1, <3>3
  <2>10. Digits = 2
    BY <1>2 DEF Digits
  <2> QED BY <1>2, <2>3, <2>8, <2>9, <2>10 DEF lens, at
<1>3. CASE mode # "asm"
  <2>1. lens = alen /\ at = CheckBounds(alen, col, row) /\ Digits = 1
    BY <1>3 DEF NewLens, NewAt, Digits
  <2> HIDE DEF lens, at
  <2>2. /\ at.y \in Rows /\ alen[at.y] > 0 /\ at.x \in 0..(alen[at.y] - 1)
        /\ row = y => at.y = y /\ at.x = IF col < alen[y] - 1 THEN col ELSE alen[y] - 1
    BY <1>1, <2>1, CheckBoundsFacts
  <2>3. alen[at.y] \in Nat
    BY <1>1, <2>2
  <2>4. at.x \in 0..(Digits * alen[at.y] - 1)
    BY <2>1, <2>2, <2>3
  <2>5. row = y /\ col < Digits * alen[y] => at.x = col /\ at.y = y
    BY <1>1, <2>1, <2>2
  <2> QED BY <1>1, <1>3, <2>1, <2>2, <2>4, <2>5 DEF lens, at
<1> QED BY <1>2, <1>3

-----------------------------------------------------------------------------
(* A step that settles on a new buffer keeps the invariant, if what it     *)
(* changed is visited.                                                     *)
Kept == UNCHANGED <<modes, disk, seen, mode, cp, save, size, orig>>

(* The bytes of the buffer and of the file are still visited.              *)
LEMMA StillVisited ==
  ASSUME IInv, mode # "none", Kept, visited \subseteq visited', buff' \in Bytes,
         \A i \in Index : buff'[i] # buff[i] => Offset(mode, i) \in visited'
  PROVE  FilesOK' /\ BufferOK'
<1>1. FilesOK /\ BufferOK
  BY DEF IInv
<1>2. FilesOK'
  BY <1>1 DEF FilesOK, Kept, Grown, OnlyVisited, flen
<1>3. /\ ReadIn(mode)' = ReadIn(mode) /\ Size(mode)' = Size(mode)
      /\ \A i : Offset(mode, i)' = Offset(mode, i)
  BY DEF Kept, ReadIn, Size, Offset, flen
<1>4. ASSUME NEW i \in Index, buff'[i] # save'[i] PROVE Offset(mode, i)' \in visited'
  <2>1. save' = save
    BY DEF Kept
  <2>2. buff[i] # save[i] \/ buff'[i] # buff[i]
    BY <1>4, <2>1
  <2>3. Offset(mode, i) \in visited'
    BY <1>1, <2>2 DEF BufferOK
  <2> QED BY <1>3, <2>3
<1>5. BufferOK'
  BY <1>1, <1>3, <1>4 DEF BufferOK, Kept
<1> QED BY <1>2, <1>5

(* The cursor, the lines and the text are as they should be after it.      *)
LEMMA SettleStep ==
  ASSUME IInv, mode # "none", NEW b \in Bytes, NEW col \in Nat, NEW row \in Int,
         NEW redraw \in BOOLEAN, OnlyFromRow(b, row, redraw),
         Settle(b, col, row, redraw), Kept, visited \subseteq visited',
         \A i \in Index : b[i] # buff[i] => Offset(mode, i) \in visited'
  PROVE  IInv'
<1>1. Editing /\ FilesOK /\ BufferOK /\ CursorOK
  BY DEF IInv, Editing
<1> DEFINE lens == NewLens(b, row, redraw)  at == NewAt(b, col, row, redraw)
<1>2. buff' = b /\ alen' = lens /\ x' = at.x /\ y' = at.y /\ line' = NoLine
  BY DEF Settle, NewLens, NewAt
<1>3. /\ lens \in [Rows -> Nat]
      /\ IF mode = "asm" THEN Instructions(lens, b) ELSE lens = alen
      /\ at.y \in Rows /\ lens[at.y] > 0 /\ at.x \in 0..(Digits * lens[at.y] - 1)
  BY <1>1, SettleValues
<1> HIDE DEF lens, at
<1>4. FilesOK' /\ BufferOK'
  BY <1>2, StillVisited
<1>5. mode' = mode /\ cp' = cp /\ flen' = flen /\ Left' = Left /\ Digits' = Digits
  BY DEF Kept, flen, Left, Digits
<1>6. CursorOK'
  <2>1. CASE mode = "asm"
    <3>1. RowsAreInstructions'
      BY <1>2, <1>3, <1>5, <2>1 DEF RowsAreInstructions, Instructions
    <3> QED BY <1>2, <1>3, <1>5, <2>1, <3>1 DEF CursorOK
  <2>2. CASE mode # "asm"
    <3>1. alen' = LineLengths(Left)
      BY <1>1, <1>2, <1>3, <2>2 DEF CursorOK
    <3> QED BY <1>2, <1>3, <1>5, <2>2, <3>1 DEF CursorOK
  <2> QED BY <2>1, <2>2
<1>7. LineOK'
  BY <1>2 DEF LineOK
<1> QED BY <1>4, <1>6, <1>7 DEF IInv

(* Where the cursor is after such a step that stays on the line.           *)
LEMMA SettledCursor ==
  ASSUME Editing, NEW b \in Bytes, NEW col \in Nat, NEW redraw \in BOOLEAN,
         OnlyFromRow(b, y, redraw), Settle(b, col, y, redraw), Kept,
         col < Digits * alen[y], col < Digits \/ b[Start(alen, y)] = buff[Start(alen, y)]
  PROVE  Cursor' = Start(alen, y) + (col \div Digits)
<1> DEFINE lens == NewLens(b, y, redraw)  at == NewAt(b, col, y, redraw)
<1>1. buff' = b /\ alen' = lens /\ x' = at.x /\ y' = at.y /\ line' = NoLine
  BY DEF Settle, NewLens, NewAt
<1>2. at.x = col /\ at.y = y /\ Start(lens, y) = Start(alen, y)
  <2>1. y \in Int
    BY RowFits DEF Rows
  <2>2. y = y /\ col < Digits * alen[y]
        /\ (col < Digits \/ b[Start(alen, y)] = buff[Start(alen, y)])
        => at.x = col /\ at.y = y /\ Start(lens, y) = Start(alen, y)
    BY <2>1, SettleValues
  <2> HIDE DEF lens, at
  <2> QED BY <2>2
<1>3. mode' = mode /\ Digits' = Digits
  BY DEF Kept, Digits
<1>4. Start(alen, y)' = Start(alen', y')
  BY <1>3 DEF Start
<1> HIDE DEF lens, at
<1>5. x' = col /\ col \div 1 = col
  BY <1>1, <1>2
<1>6. Start(alen, y)' = Start(alen, y)
  BY <1>1, <1>2, <1>4
<1>7. CASE mode = "asm"
  <2>1. Cursor' = Start(alen, y)' + (x' \div 2)
    BY <1>1, <1>3, <1>7 DEF Cursor
  <2> QED BY <1>5, <1>6, <1>7, <2>1 DEF Digits
<1>8. CASE mode # "asm"
  <2>1. Cursor' = Start(alen, y)' + x'
    BY <1>1, <1>3, <1>8 DEF Cursor
  <2> QED BY <1>5, <1>6, <1>8, <2>1 DEF Digits
<1> QED BY <1>7, <1>8

Stay(key) == IF Changes(key) THEN Visit ELSE UNCHANGED visited

(* A key.                                                                  *)
LEMMA KeyStep ==
  ASSUME IInv, mode # "none", NEW key, IsKey(key), Key(key), Stay(key)
  PROVE  IInv'
<1> DEFINE r == Result(key)  b == PutBack(CompressHex(r.text))
           step == IF mode = "hex" THEN 3 ELSE 1
           row == y + (CASE key[1] = "up" -> -1 [] key[1] = "down" -> 1 [] OTHER -> 0)
           redraw == key[1] \in {"char", "undo", "home", "end"}
<1>1. Editing /\ LineOK /\ y \in Nat /\ Start(alen, y) \in Nat /\ alen[y] \in Nat
  <2>1. Editing /\ LineOK
    BY DEF IInv, Editing
  <2> QED BY <2>1, RowFits DEF Rows
<1>2. Kept /\ IF isSecondD(r.pos) THEN line' = r /\ UNCHANGED <<buff, alen, x, y>>
              ELSE Settle(b, r.pos \div step, row, redraw)
  BY DEF Key, Kept, Result, Pressed, PutBack
<1>3. visited \subseteq visited'
  BY DEF Stay, Visit
<1>4. \/ isSecondD(r.pos) /\ mode = "hex" /\ KeptLine(r)
      \/ /\ ~isSecondD(r.pos) /\ r.pos \in Nat /\ b \in Bytes
         /\ \A i \in Index : b[i] # buff[i] =>
              /\ Changes(key) /\ i >= Start(alen, y)
              /\ \/ i = Cursor
                 \/ /\ mode # "hex" /\ r.pos \in 0..(Digits * alen[y] - 1)
                    /\ i = Start(alen, y) + (r.pos \div Digits)
         /\ \A i \in Index, j \in Index : b[i] # buff[i] /\ b[j] # buff[j] => i = j
  BY <1>1, KeyResult
<1>5. row \in Int /\ redraw \in BOOLEAN /\ (Changes(key) => row = y /\ redraw)
  BY <1>1 DEF Changes
<1> HIDE DEF r, b, row, redraw
<1>6. CASE isSecondD(r.pos)
  <2>1. mode = "hex" /\ KeptLine(r) /\ line' = r /\ UNCHANGED <<buff, alen, x, y>>
    BY <1>2, <1>4, <1>6
  <2>2. FilesOK' /\ BufferOK'
    <3>1. buff' \in Bytes /\ \A i \in Index : buff'[i] = buff[i]
      BY <1>1, <2>1 DEF Editing, BufferOK
    <3> QED BY <1>2, <1>3, <3>1, StillVisited
  <2>3. CursorOK'
    BY <1>1, <1>2, <2>1 DEF Editing, CursorOK, Kept, Digits, RowsAreInstructions, Left, flen
  <2>4. KeptLine(line)'
    BY <1>2, <2>1 DEF KeptLine, Kept, Start
  <2>5. LineOK'
    BY <1>2, <2>1, <2>4 DEF LineOK, Kept
  <2> QED BY <2>2, <2>3, <2>5 DEF IInv
<1>7. CASE ~isSecondD(r.pos)
  <2>1. Settle(b, r.pos \div step, row, redraw) /\ r.pos \in Nat /\ r.pos \div step \in Nat
        /\ b \in Bytes
    BY <1>2, <1>4, <1>7
  <2>2. OnlyFromRow(b, row, redraw)
    BY <1>4, <1>5, <1>7 DEF OnlyFromRow
  <2>3. ASSUME NEW i \in Index, b[i] # buff[i] PROVE Offset(mode, i) \in visited'
    <3>1. visited' = visited \cup {Offset(mode, Cursor'), Offset(mode, Cursor)}
      BY <1>4, <1>7, <2>3 DEF Stay, Visit
    <3>2. CASE i = Cursor
      BY <3>1, <3>2
    <3>3. CASE i # Cursor
      <4>1. /\ mode # "hex" /\ r.pos \in 0..(Digits * alen[y] - 1)
            /\ i = Start(alen, y) + (r.pos \div Digits)
        BY <1>4, <1>7, <2>3, <3>3
      <4>2. r.pos \div step = r.pos /\ Settle(b, r.pos, y, redraw) /\ OnlyFromRow(b, y, redraw)
        <5>1. row = y
          BY <1>4, <1>5, <1>7, <2>3
        <5>2. r.pos \div 1 = r.pos
          BY <2>1
        <5> QED BY <2>1, <2>2, <4>1, <5>1, <5>2
      <4>3. r.pos < Digits * alen[y] /\ Digits \in {1, 2}
        BY <1>1, <4>1 DEF Digits
      <4>4. r.pos < Digits \/ b[Start(alen, y)] = buff[Start(alen, y)]
        <5> SUFFICES ASSUME r.pos >= Digits, b[Start(alen, y)] # buff[Start(alen, y)] PROVE FALSE
          BY <2>1, <4>3
        <5>1. r.pos \div Digits > 0
          BY <2>1, <4>3
        <5>2. Start(alen, y) \in Index
          <6>1. 0 \in 0..(alen[y] - 1) /\ \A n \in 0..(alen[y] - 1) : Start(alen, y) + n \in Index
            BY <1>1, RowFits
          <6>2. Start(alen, y) + 0 = Start(alen, y)
            BY <1>1
          <6> QED BY <6>1, <6>2
        <5>3. i = Start(alen, y)
          BY <1>4, <1>7, <2>3, <5>2
        <5> QED BY <1>1, <2>1, <4>1, <4>3, <5>1, <5>3
      <4>5. Cursor' = i
        BY <1>1, <1>2, <1>5, <2>1, <4>1, <4>2, <4>3, <4>4, SettledCursor
      <4> QED BY <3>1, <4>5
    <3> QED BY <3>2, <3>3
  <2> HIDE DEF step
  <2> QED BY <1>2, <1>3, <1>5, <2>1, <2>2, <2>3, SettleStep
<1> QED BY <1>6, <1>7

(* A function key.                                                         *)
LEMMA FunctionStep ==
  ASSUME IInv, NEW f \in {"not", "or", "and", "xor", "put", "back"}, Function(f)
  PROVE  IInv'
<1> DEFINE b == [buff EXCEPT ![Cursor] = Masked(f, Cursor)]
           col == IF mode = "asm" THEN ((x \div 2) + 1) * 2 ELSE x + 1
<1>1. mode # "none" /\ line = NoLine /\ Settle(b, col, y, TRUE) /\ Kept /\ Visit
  BY DEF Function, Kept
<1>2. /\ Editing /\ buff \in Bytes /\ save \in Bytes /\ alen[y] \in Nat /\ x \in Nat /\ y \in Int
      /\ x \in 0..(Digits * alen[y] - 1)
      /\ Start(alen, y) \in Nat /\ \A n \in 0..(alen[y] - 1) : Start(alen, y) + n \in Index
  <2>1. Editing
    BY <1>1 DEF IInv, Editing
  <2>2. y \in Rows /\ Rows \subseteq Int
    BY <2>1, RowFits DEF Rows
  <2> QED BY <1>1, <2>1, <2>2, RowFits, SaveBytes DEF Editing, BufferOK, CursorOK
<1>3. Cursor \in Index /\ Cursor >= Start(alen, y)
  <2>1. CASE mode = "asm"
    <3>1. Cursor = Start(alen, y) + (x \div 2) /\ x \div 2 \in 0..(alen[y] - 1)
      BY <1>1, <1>2, <2>1 DEF Cursor, Digits
    <3> HIDE DEF Cursor
    <3> QED BY <1>2, <3>1
  <2>2. CASE mode # "asm"
    <3>1. Cursor = Start(alen, y) + x /\ x \in 0..(alen[y] - 1)
      BY <1>1, <1>2, <2>2 DEF Cursor, Digits
    <3> QED BY <1>2, <3>1
  <2> QED BY <2>1, <2>2
<1>4. Masked(f, Cursor) \in Byte
  <2>1. buff[Cursor] \in Byte /\ save[Cursor] \in Byte
    BY <1>2, <1>3 DEF Bytes
  <2>2. \A c \in Byte : (D * D - 1) - c \in Byte
    BY Sizes DEF Byte
  <2>3. CASE f \in {"not", "put", "back"}
    BY <2>1, <2>2, <2>3, EditorAssumption DEF Masked
  <2>4. CASE f \in {"or", "and", "xor"}
    BY <2>1, <2>4, EditorAssumption DEF Masked
  <2> QED BY <2>3, <2>4
<1>5. b \in Bytes /\ \A i \in Index : b[i] # buff[i] => i = Cursor
  BY <1>2, <1>3, <1>4 DEF Bytes
<1>6. col \in Nat
  BY <1>2
<1> HIDE DEF b, col
<1>7. OnlyFromRow(b, y, TRUE)
  BY <1>3, <1>5 DEF OnlyFromRow
<1>8. visited \subseteq visited' /\ \A i \in Index : b[i] # buff[i] => Offset(mode, i) \in visited'
  BY <1>1, <1>5 DEF Visit
<1> QED BY <1>1, <1>2, <1>5, <1>6, <1>7, <1>8, SettleStep

-----------------------------------------------------------------------------
(* The mode is entered: the lines are those of what was read.              *)
LEMMA EditStep ==
  ASSUME IInv, NEW m \in modes, Edit(m)
  PROVE  IInv'
<1>1. /\ FilesOK /\ UNCHANGED <<modes, disk, seen, cp, orig, visited>> /\ mode' = m
      /\ buff' = ReadIn(m) /\ save' = buff' /\ size' = Size(m)
      /\ alen' = IF m = "asm" THEN Decoded(buff', alen, 0) ELSE LineLengths(Left)
      /\ x' = 0 /\ y' = 0 /\ line' = NoLine
  BY DEF Edit, IInv, Left
<1>2. /\ flen \in Nat /\ cp \in Nat /\ cp < flen /\ Left \in Nat /\ Left > 0
      /\ buff' \in Bytes /\ flen' = flen /\ Left' = Left
  BY <1>1, FileFacts, ReadBytes DEF flen, Left
<1>3. FilesOK'
  BY <1>1 DEF FilesOK, Grown, OnlyVisited, flen
<1>4. BufferOK'
  <2>1. ReadIn(mode)' = ReadIn(m) /\ Size(mode)' = Size(m)
    BY <1>1, <1>2 DEF ReadIn, Size, Offset
  <2> QED BY <1>1, <1>2, <2>1 DEF BufferOK
<1>5. CursorOK'
  <2>1. CASE m = "asm"
    <3>1. alen' \in [Rows -> Nat] /\ Instructions(alen', buff')
      BY <1>1, <1>2, <2>1, DecodedIsInstructions
    <3>2. Solid(alen')
      BY <1>2, <3>1, InstructionsSolid
    <3>3. RowsAreInstructions'
      BY <1>1, <1>2, <3>1 DEF RowsAreInstructions, Instructions
    <3>4. alen'[0] > 0 /\ alen'[0] \in Nat /\ 0 \in Rows
      BY <3>1, <3>2, Sizes DEF Solid
    <3>5. 0 \in 0..(Digits' * alen'[0] - 1)
      BY <1>1, <2>1, <3>4 DEF Digits
    <3> QED BY <1>1, <2>1, <3>1, <3>3, <3>4, <3>5 DEF CursorOK
  <2>2. CASE m # "asm"
    <3>1. alen' = LineLengths(Left) /\ Solid(alen')
      BY <1>1, <1>2, <2>2, LineLengthsSolid
    <3>2. alen' \in [Rows -> Nat] /\ alen'[0] > 0 /\ alen'[0] \in Nat /\ 0 \in Rows
      BY <3>1, Sizes DEF Solid
    <3>3. 0 \in 0..(Digits' * alen'[0] - 1)
      BY <1>1, <2>2, <3>2 DEF Digits
    <3> QED BY <1>1, <1>2, <2>2, <3>1, <3>2, <3>3 DEF CursorOK
  <2> QED BY <2>1, <2>2
<1>6. LineOK'
  BY <1>1 DEF LineOK
<1> QED BY <1>3, <1>4, <1>5, <1>6 DEF IInv

(* Digits and characters are two views of the same lines.                  *)
LEMMA TabStep ==
  ASSUME IInv, Tab
  PROVE  IInv'
<1>1. /\ FilesOK /\ BufferOK /\ CursorOK /\ line' = NoLine
      /\ mode \in {"hex", "chars"} /\ mode' \in {"hex", "chars"} /\ mode' \in modes
      /\ UNCHANGED <<modes, disk, seen, cp, buff, save, size, alen, x, y, orig, visited>>
  BY DEF Tab, IInv
<1>2. FilesOK'
  BY <1>1 DEF FilesOK, Grown, OnlyVisited, flen
<1>3. BufferOK'
  <2>1. /\ Size(mode)' = Size(mode) /\ ReadIn(mode)' = ReadIn(mode)
        /\ \A i : Offset(mode, i)' = Offset(mode, i)
    BY <1>1 DEF Size, ReadIn, Offset, flen
  <2> QED BY <1>1, <2>1 DEF BufferOK
<1>4. CursorOK'
  BY <1>1 DEF CursorOK, Digits, Left, flen
<1>5. LineOK'
  BY <1>1 DEF LineOK
<1> QED BY <1>2, <1>3, <1>4, <1>5 DEF IInv

(* What is written: no byte of the file that was not visited changes, for  *)
(* what the buffer holds there is what was read.                           *)
LEMMA StoredFacts ==
  ASSUME FilesOK, mode # "none", BufferOK, NEW n \in 0..size
  PROVE  Stored(n) \in Seq(Byte) /\ Grown(disk, Stored(n)) /\ OnlyVisited(Stored(n))
<1> DEFINE last == IF n = 0 THEN Len(disk) ELSE Max({Len(disk), Offset(mode, n - 1) + 1})
           at(o) == {i \in 0..(n - 1) : Offset(mode, i) = o - 1}
<1>1. /\ flen \in Nat /\ cp \in Nat /\ cp < flen /\ Len(disk) \in Nat
      /\ Len(orig) \in Nat /\ Len(orig) <= flen /\ Len(orig) <= Len(disk)
      /\ \A o \in 1..Len(disk) : disk[o] \in Byte
      /\ buff \in Bytes /\ Filler \in Byte
  BY FileFacts, EditorAssumption DEF BufferOK
<1>2. size \in Nat /\ size <= BufSize /\ size = Size(mode)
  BY SizeFacts, Sizes DEF BufferOK
<1>3. n \in Nat /\ n <= size /\ \A i \in 0..(n - 1) : i \in Index /\ i < size /\ Offset(mode, i) \in Nat
  <2>1. n \in Nat /\ n <= size /\ \A i \in 0..(n - 1) : i \in Index /\ i < size /\ i \in Nat
    BY <1>2, Sizes DEF Index
  <2>2. \A i \in Nat : Offset(mode, i) \in Nat
    BY <1>1 DEF Offset
  <2> QED BY <2>1, <2>2
<1>4. last \in Nat /\ last >= Len(disk)
  <2>1. CASE n = 0
    BY <1>1, <2>1
  <2>2. CASE n # 0
    <3> DEFINE top == Offset(mode, n - 1) + 1
    <3>1. top \in Nat
      <4>1. n - 1 \in 0..(n - 1)
        BY <1>3, <2>2
      <4> QED BY <1>3, <4>1
    <3> HIDE DEF top
    <3> DEFINE S == {Len(disk), top}
    <3>2. Len(disk) + top \in Nat /\ S \subseteq 0..(Len(disk) + top) /\ S # {}
      BY <1>1, <3>1
    <3>3. Max(S) \in S /\ \A i \in S : i <= Max(S)
      BY <3>2, MaxIsMost
    <3>4. last = Max(S)
      BY <2>2 DEF top
    <3> HIDE DEF last
    <3>5. last \in S /\ Len(disk) <= last
      BY <3>3, <3>4
    <3> QED BY <1>1, <3>1, <3>5
  <2> QED BY <2>1, <2>2
<1>5. Stored(n) = [o \in 1..last |-> IF at(o) # {} THEN buff[CHOOSE i \in at(o) : TRUE]
                                     ELSE IF o <= Len(disk) THEN disk[o] ELSE Filler]
  BY DEF Stored
<1> HIDE DEF last
<1>6. ASSUME NEW o, at(o) # {}
      PROVE  /\ (CHOOSE i \in at(o) : TRUE) \in at(o)
             /\ buff[CHOOSE i \in at(o) : TRUE] \in Byte
  <2> DEFINE c == CHOOSE i \in at(o) : TRUE
  <2>1. c \in at(o)
    BY <1>6
  <2>2. c \in Index
    BY <1>3, <2>1
  <2> HIDE DEF c
  <2>3. buff[c] \in Byte
    BY <1>1, <2>2 DEF Bytes
  <2> QED BY <2>1, <2>3 DEF c
<1>7. Stored(n) \in Seq(Byte) /\ Len(Stored(n)) = last
  <2>1. ASSUME NEW o \in 1..last
        PROVE  (IF at(o) # {} THEN buff[CHOOSE i \in at(o) : TRUE]
                ELSE IF o <= Len(disk) THEN disk[o] ELSE Filler) \in Byte
    <3>1. o <= Len(disk) => disk[o] \in Byte
      BY <1>1, <1>4
    <3> HIDE DEF at
    <3> QED BY <1>1, <1>6, <3>1
  <2> HIDE DEF at
  <2>2. Stored(n) \in [1..last -> Byte]
    BY <1>5, <2>1
  <2> QED BY <1>4, <1>5, <2>2
<1>8. Grown(disk, Stored(n))
  BY <1>4, <1>7 DEF Grown
<1>9. ASSUME NEW o \in 0..(Len(orig) - 1), Stored(n)[o + 1] # orig[o + 1]
      PROVE  o \in visited
  <2>1. o \in Nat /\ o + 1 \in 1..last /\ o + 1 <= Len(disk) /\ o < flen
    BY <1>1, <1>4
  <2>2. CASE at(o + 1) # {}
    <3> DEFINE i == CHOOSE i \in at(o + 1) : TRUE
    <3>1. i \in at(o + 1) /\ Stored(n)[o + 1] = buff[i]
      BY <1>5, <1>6, <2>1, <2>2
    <3>2. i \in 0..(n - 1) /\ Offset(mode, i) = o
      BY <2>1, <3>1
    <3> HIDE DEF i
    <3>3. i \in Index /\ i < size
      BY <1>3, <3>2
    <3>4. CASE buff[i] # save[i]
      BY <3>2, <3>3, <3>4 DEF BufferOK
    <3>5. CASE buff[i] = save[i]
      <4>1. save[i] = seen[o + 1]
        BY <1>2, <2>1, <3>2, <3>3 DEF BufferOK, ReadIn, Index
      <4> QED BY <1>9, <3>1, <3>5, <4>1 DEF FilesOK, OnlyVisited
    <3> QED BY <3>4, <3>5
  <2>3. CASE at(o + 1) = {}
    <3>1. Stored(n)[o + 1] = disk[o + 1]
      BY <1>5, <2>1, <2>3
    <3> QED BY <1>9, <3>1 DEF FilesOK, OnlyVisited
  <2> QED BY <2>2, <2>3
<1> QED BY <1>7, <1>8, <1>9 DEF OnlyVisited

(* A write, whole or in part; the viewer rereads the file or does not.     *)
LEMMA WriteStep ==
  ASSUME IInv, mode # "none", Leave, NEW n \in 0..size, disk' = Stored(n),
         seen' \in {seen, disk'}
  PROVE  IInv'
<1>1. FilesOK /\ BufferOK
  BY DEF IInv
<1>2. Stored(n) \in Seq(Byte) /\ Grown(disk, Stored(n)) /\ OnlyVisited(Stored(n))
  BY <1>1, StoredFacts
<1>3. /\ mode' = "none" /\ UNCHANGED <<modes, cp, orig, visited>>
  BY DEF Leave
<1>4. /\ flen \in Nat /\ cp \in Nat /\ Len(disk) \in Nat /\ Len(orig) \in Nat
      /\ Len(orig) <= flen /\ flen <= Len(disk) /\ cp < flen
      /\ Len(disk') \in Nat /\ Len(disk) <= Len(disk')
  BY <1>1, <1>2, FileFacts DEF Grown
<1>5. disk' \in Seq(Byte) /\ OnlyVisited(disk)'
  BY <1>2, <1>3 DEF OnlyVisited
<1>6. CASE seen' = seen
  <2>1. flen' = flen /\ OnlyVisited(seen)'
    BY <1>1, <1>3, <1>6 DEF flen, FilesOK, OnlyVisited
  <2>2. Grown(orig, seen)' /\ Grown(seen, disk)'
    BY <1>3, <1>4, <1>6 DEF Grown, flen
  <2> QED BY <1>1, <1>3, <1>5, <1>6, <2>1, <2>2 DEF IInv, FilesOK
<1>7. CASE seen' = disk'
  <2>1. flen' = Len(disk') /\ OnlyVisited(seen)'
    BY <1>5, <1>7 DEF flen, OnlyVisited
  <2>2. Grown(orig, seen)' /\ Grown(seen, disk)'
    BY <1>3, <1>4, <1>7 DEF Grown
  <2>3. cp' < flen'
    BY <1>3, <1>4, <2>1
  <2> QED BY <1>1, <1>3, <1>5, <1>7, <2>1, <2>2, <2>3 DEF IInv, FilesOK
<1> QED BY <1>6, <1>7

(* The invariant holds when the viewer opens a file.                       *)
LEMMA InitIInv == Init => IInv
<1> SUFFICES ASSUME Init PROVE IInv
  OBVIOUS
<1>1. disk \in Seq(Byte) /\ seen = disk /\ orig = disk /\ cp \in Nat /\ cp < flen
  BY EditorAssumption DEF Init, flen
<1>2. Len(disk) \in Nat
  BY <1>1
<1> QED BY <1>1, <1>2 DEF Init, IInv, FilesOK, Grown, OnlyVisited, flen

(* Every step keeps it.                                                    *)
LEMMA NextIInv == IInv /\ [Next]_vars => IInv'
<1> SUFFICES ASSUME IInv, [Next]_vars PROVE IInv'
  OBVIOUS
<1>1. FilesOK
  BY DEF IInv
<1>2. ASSUME NEW m \in modes, Edit(m) PROVE IInv'
  BY <1>2, EditStep
<1>3. ASSUME NEW key \in {"home", "end", "left", "right", "up", "down"}, Move(key) PROVE IInv'
  <2>1. /\ IsKey(<<key>>) /\ ~Changes(<<key>>) /\ Key(<<key>>) /\ mode # "none"
        /\ visited' = visited
    BY <1>3 DEF Move, Key, IsKey, Changes
  <2> QED BY <2>1, KeyStep DEF Stay
<1>4. ASSUME NEW c \in (IF mode \in {"hex", "asm"} THEN 0..(D - 1) ELSE Byte),
             Change(<<"char", c>>)
      PROVE  IInv'
  <2>1. /\ IsKey(<<"char", c>>) /\ Changes(<<"char", c>>) /\ Key(<<"char", c>>) /\ Visit
        /\ mode # "none"
    BY <1>4 DEF Change, Key, IsKey, Changes, Digit
  <2> QED BY <2>1, KeyStep DEF Stay
<1>5. CASE Change(<<"undo">>)
  <2>1. /\ IsKey(<<"undo">>) /\ Changes(<<"undo">>) /\ Key(<<"undo">>) /\ Visit
        /\ mode # "none"
    BY <1>5 DEF Change, Key, IsKey, Changes
  <2> QED BY <2>1, KeyStep DEF Stay
<1>6. ASSUME NEW f \in {"not", "or", "and", "xor", "put", "back"}, Function(f) PROVE IInv'
  BY <1>6, FunctionStep
<1>7. CASE Tab
  BY <1>7, TabStep
<1>8. CASE Escape
  BY <1>1, <1>8 DEF Escape, Leave, IInv, FilesOK, Grown, OnlyVisited, flen
<1>9. CASE Save \/ SaveFails
  <2>1. mode # "none" /\ BufferOK /\ Leave
    BY <1>9 DEF Save, SaveFails, IInv
  <2>2. size \in Nat
    BY <1>1, <2>1, SizeFacts DEF BufferOK
  <2>3. \E n \in 0..size : disk' = Stored(n) /\ seen' \in {seen, disk'}
    <3>1. CASE Save
      <4>1. size \in 0..size /\ disk' = Stored(size) /\ seen' = disk'
        BY <2>2, <3>1 DEF Save, BMReRead
      <4> QED BY <4>1
    <3>2. CASE SaveFails
      <4>1. PICK n \in 0..(size - 1) : disk' = Stored(n)
        BY <3>2 DEF SaveFails
      <4>2. n \in 0..size /\ seen' \in {seen, disk'}
        BY <2>2, <3>2 DEF SaveFails, BMReRead
      <4> QED BY <4>1, <4>2
    <3> QED BY <1>9, <3>1, <3>2
  <2> QED BY <2>1, <2>3, WriteStep
<1>10. CASE Reread
  <2>1. /\ mode' = "none" /\ seen' = disk /\ disk' = disk /\ UNCHANGED <<modes, cp, orig, visited>>
    BY <1>10 DEF Reread, BMReRead
  <2>2. /\ flen \in Nat /\ cp \in Nat /\ Len(disk) \in Nat /\ Len(orig) \in Nat
        /\ Len(orig) <= flen /\ flen <= Len(disk) /\ cp < flen
    BY <1>1, FileFacts
  <2>3. flen' = Len(disk)
    BY <2>1 DEF flen
  <2> QED BY <1>1, <2>1, <2>2, <2>3 DEF IInv, FilesOK, Grown, OnlyVisited
<1>11. ASSUME NEW p \in Places, Go(p) PROVE IInv'
  <2>1. p \in Nat
    BY EditorAssumption
  <2> QED BY <1>1, <1>11, <2>1 DEF Go, IInv, FilesOK, Grown, OnlyVisited, flen
<1>12. CASE UNCHANGED vars
  BY <1>12 DEF vars, IInv, FilesOK, Grown, OnlyVisited, flen, BufferOK, ReadIn, Size, Offset,
               CursorOK, Digits, RowsAreInstructions, Left, LineOK, KeptLine, Start
<1> QED BY <1>2, <1>3, <1>4, <1>5, <1>6, <1>7, <1>8, <1>9, <1>10, <1>11, <1>12 DEF Next

-----------------------------------------------------------------------------
(* The invariant says what the properties say.                             *)
LEMMA TypesHold ==
  ASSUME IInv
  PROVE  TypeOK
<1>1. FilesOK
  BY DEF IInv
<1>2. ASSUME mode # "none"
      PROVE  buff \in [0..(BufSize - 1) -> Byte] /\ size \in 1..BufSize
  <2>1. Editing /\ BufferOK
    BY <1>2 DEF IInv, Editing
  <2>2. size \in 1..BufSize
    BY <1>1, <2>1, SizeFacts DEF BufferOK
  <2> QED BY <2>1, <2>2 DEF BufferOK, Bytes, Index
<1> QED BY <1>1, <1>2 DEF TypeOK, FilesOK

(* And what is said of the cursor.                                         *)
LEMMA CursorHolds ==
  ASSUME IInv
  PROVE  CursorOnLine
<1>1. FilesOK
  BY DEF IInv
<1>2. ASSUME mode # "none"
      PROVE  /\ Cursor - Start(alen, y) \in 0..(alen[y] - 1)
             /\ Cursor < (IF mode = "asm" THEN BufSize ELSE size)
  <2>1. Editing /\ LineOK /\ BufferOK /\ CursorOK
    BY <1>2 DEF IInv, Editing
  <2>2. /\ y \in Rows /\ alen[y] \in Nat /\ alen[y] > 0 /\ x \in Nat /\ Start(alen, y) \in Nat
        /\ \A n \in 0..(alen[y] - 1) : Start(alen, y) + n \in Index
        /\ mode # "asm" => Start(alen, y) + alen[y] <= Left
    BY <2>1, RowFits
  <2>3. size \in 1..BufSize /\ (mode # "asm" => size = Left \/ size = BufSize)
    BY <1>1, <2>1, SizeFacts DEF BufferOK
  <2>4. \E n \in 0..(alen[y] - 1) : Cursor = Start(alen, y) + n
    <3>1. CASE mode = "hex"
      BY <2>1, <3>1, HexPressed
    <3>2. CASE mode = "asm"
      <4>1. Cursor = Start(alen, y) + (x \div 2) /\ x \in 0..(2 * alen[y] - 1)
        BY <2>1, <3>2, OtherPressed DEF Digits
      <4>2. x \div 2 \in 0..(alen[y] - 1)
        BY <2>2, <4>1
      <4> QED BY <4>1, <4>2
    <3>3. CASE mode # "hex" /\ mode # "asm"
      <4>1. Cursor = Start(alen, y) + (x \div 1) /\ x \in 0..(1 * alen[y] - 1)
        BY <2>1, <3>3, OtherPressed DEF Digits
      <4>2. x \div 1 \in 0..(alen[y] - 1)
        BY <2>2, <4>1
      <4> QED BY <4>1, <4>2
    <3> QED BY <3>1, <3>2, <3>3
  <2>5. PICK n \in 0..(alen[y] - 1) : Cursor = Start(alen, y) + n
    BY <2>4
  <2>6. Cursor \in Index /\ Cursor < Start(alen, y) + alen[y]
    <3>1. n < alen[y] /\ n \in Int
      BY <2>2
    <3> QED BY <2>2, <2>5, <3>1
  <2>7. Cursor - Start(alen, y) = n
    BY <2>2, <2>5
  <2>8. Cursor < BufSize /\ (mode # "asm" => Cursor < Left)
    <3>1. Left \in Nat /\ BufSize \in Nat
      BY <1>1, FileFacts, Sizes
    <3> QED BY <2>2, <2>6, <3>1 DEF Index
  <2> QED BY <2>3, <2>7, <2>8
<1> QED BY <1>2 DEF CursorOnLine

(* So does the property of the edits.                                      *)
LEMMA TouchedHolds ==
  ASSUME IInv
  PROVE  OnlyTouched
<1>1. FilesOK
  BY DEF IInv
<1>2. Len(disk) >= Len(orig)
  BY <1>1, FileFacts
<1>3. \A o \in 0..(Len(orig) - 1) : disk[o + 1] # orig[o + 1] => o \in visited
  BY <1>1 DEF FilesOK, OnlyVisited
<1>4. ASSUME mode # "none", NEW i \in 0..(BufSize - 1), buff[i] # save[i]
      PROVE  (IF mode \in {"video", "reverse"} THEN cp + 2 * i + (IF mode = "video" THEN 0 ELSE 1)
              ELSE cp + i) \in visited
  <2>1. Offset(mode, i) \in visited
    BY <1>4 DEF IInv, BufferOK, Index
  <2>2. cp \in Nat /\ i \in Nat
    BY <1>1, FileFacts
  <2>3. Offset(mode, i) = IF mode \in {"video", "reverse"}
                          THEN cp + 2 * i + (IF mode = "video" THEN 0 ELSE 1) ELSE cp + i
    BY <2>2 DEF Offset
  <2> QED BY <2>1, <2>3
<1> QED BY <1>2, <1>3, <1>4 DEF OnlyTouched

(* The files and the buffer of the modification mode hold bytes: the text  *)
(* of a line, with the dot that stands for a digit not yet typed, always   *)
(* becomes bytes again, and there is always something to edit.             *)
THEOREM Typing == Spec => []TypeOK
<1>1. IInv => TypeOK
  BY TypesHold
<1> QED BY <1>1, InitIInv, NextIInv, PTL DEF Spec

(* The cursor of the modification mode is always on a byte of its line,    *)
(* inside the buffer and what was read: whatever the keys do to the        *)
(* lengths of the instructions, CheckBounds and CheckXYBounds bring it     *)
(* back to the lines there are.                                            *)
THEOREM CursorStays == Spec => []CursorOnLine
<1>1. IInv => CursorOnLine
  BY CursorHolds
<1> QED BY <1>1, InitIInv, NextIInv, PTL DEF Spec

(* Every byte of the file, and of the buffer, that is not what it was is   *)
(* one on which a key that changes bytes found or left the cursor: neither *)
(* the way through the text of a line nor the writing of the whole buffer  *)
(* (editSaveContest, save_video) alters another.                           *)
THEOREM EditsOnlyTheVisited == Spec => []OnlyTouched
<1>1. IInv => OnlyTouched
  BY TouchedHolds
<1> QED BY <1>1, InitIInv, NextIInv, PTL DEF Spec

(* The lines of FullAsmEdit are always the instructions of its buffer,     *)
(* although only some of its keys decode them anew.                        *)
THEOREM LinesAreDecoded == Spec => []RowsAreInstructions
<1>1. IInv => RowsAreInstructions
  BY EditorAssumption DEF IInv, CursorOK, RowsAreInstructions
<1> QED BY <1>1, InitIInv, NextIInv, PTL DEF Spec
=============================================================================
