----------------------------- MODULE FileProofs -----------------------------
(***************************************************************************)
(* What is proved of BBio and of BlockEdit.                                *)
(*                                                                         *)
(* First, for every size of the window and of the file, whatever fails:    *)
(* the window fits, and no access leaves it.  Then, while every write      *)
(* succeeds, that BBio implements FileStream: the window and the disk      *)
(* together are the file the caller sees, and no step of the cache shows.  *)
(* On the way, what the window holds of the file (its length and its       *)
(* bytes), and that what nobody wrote is neither stored nor read.          *)
(*                                                                         *)
(* Last, that BlockEdit inserts and deletes a block exactly, for every     *)
(* size of block, file and buffer.                                         *)
(***************************************************************************)
EXTENDS BBio, BlockEdit, TLAPS

(* An open stream whose window fits its file.                              *)
Sane(b) == b \in BFILE /\ WindowInFile(b) /\ WindowFull(b)

(* What the calls that move the window leave alone.                        *)
SameStream(b, c) == /\ c.open = b.open
                    /\ c.openmode = b.openmode
                    /\ c.optimize = b.optimize
                    /\ c.FLength = b.FLength

(* The buffer has room for a byte at least.                                *)
LEMMA SizeFacts == /\ BufSize \in Nat /\ BufSize > 0
                   /\ MaxLen \in Nat
                   /\ Zero \in Byte
BY BufAssumption, SpaceAssumption

(* __fill puts the window on the file at p, and it fits.                   *)
LEMMA FillFits ==
  ASSUME NEW b \in BFILE, NEW d \in File, NEW p \in Int,
         p > b.FLength => b.FBufStart >= b.FLength
  PROVE  LET r == Fill(b, d, p)
         IN  /\ Sane(r.b)
             /\ SameStream(b, r.b)
             /\ r.b.FilePos = b.FilePos
             /\ r.b.updated = b.updated
             /\ r.b.is_eof = b.is_eof
             /\ r.d = d
             /\ r.ok \in BOOLEAN
             /\ p <= b.FLength => /\ r.b.FBufStart = Greater(p, 0)
                                  /\ r.b.MBufLen = Lesser(BufSize, b.FLength - Greater(p, 0))
<1> DEFINE q == Greater(p, 0)
           n == Lesser(BufSize, b.FLength - q)
           read == [i \in Slot |-> IF i < n /\ q + i < d.len
                                     THEN d.data[q + i] ELSE b.MBuffer[i]]
<1>1. /\ b.FLength \in 0 .. MaxLen /\ b.FBufStart \in 0 .. MaxLen
      /\ b.MBufLen \in 0 .. BufSize /\ b.MBuffer \in [Slot -> Cell]
      /\ d.len \in 0 .. MaxLen /\ d.data \in [Offset -> Cell]
  BY DEF BFILE, File
<1>2. q \in Nat /\ q >= p /\ (q > b.FLength <=> p > b.FLength)
  BY <1>1, SizeFacts DEF Greater
<1>3. CASE q > b.FLength
  <2>1. Fill(b, d, p) = [b |-> [b EXCEPT !.MBufLen = 0], d |-> d, ok |-> FALSE]
    BY <1>3 DEF Fill
  <2>2. [b EXCEPT !.MBufLen = 0] \in BFILE
    BY SizeFacts DEF BFILE
  <2> QED
    BY <1>1, <1>2, <1>3, <2>1, <2>2, SizeFacts
       DEF Sane, SameStream, WindowInFile, WindowFull, Lesser, BFILE
<1>4. CASE ~(q > b.FLength)
  <2> DEFINE c == [b EXCEPT !.FBufStart = q, !.MBufLen = n, !.MBuffer = read]
  <2>1. Fill(b, d, p) = [b |-> c, d |-> d, ok |-> n = 0 \/ q + n <= d.len]
    BY <1>4 DEF Fill
  <2>2. n \in 0 .. BufSize /\ q + n <= b.FLength
        /\ q + n >= Lesser(q + BufSize, b.FLength) /\ q \in 0 .. MaxLen
    BY <1>1, <1>2, <1>4, SizeFacts DEF Lesser
  <2>3. \A i \in Slot : i < n /\ q + i < d.len => q + i \in Offset
    BY <1>1, <1>2, SizeFacts DEF Slot, Offset
  <2>4. read \in [Slot -> Cell]
    BY <1>1, <2>3
  <2>5. c \in BFILE
    BY <2>2, <2>4 DEF BFILE
  <2>6. /\ c.FBufStart = q /\ c.MBufLen = n /\ c.FLength = b.FLength
        /\ c.FilePos = b.FilePos /\ c.updated = b.updated /\ c.is_eof = b.is_eof
        /\ SameStream(b, c)
    BY DEF BFILE, SameStream
  <2>7. Sane(c)
    BY <2>2, <2>5, <2>6 DEF Sane, WindowInFile, WindowFull
  <2>8. (n = 0 \/ q + n <= d.len) \in BOOLEAN
    OBVIOUS
  <2>9. p <= b.FLength
    BY <1>1, <1>2, <1>4
  <2> HIDE DEF c, n
  <2>10. /\ Fill(b, d, p).b = c /\ Fill(b, d, p).d = d
         /\ Fill(b, d, p).ok \in BOOLEAN
    BY <2>1, <2>8
  <2> QED
    BY <2>6, <2>7, <2>9, <2>10 DEF n
<1> QED
  BY <1>3, <1>4

(* A write of the window's bytes leaves a file.                            *)
LEMMA StoredIsFile ==
  ASSUME NEW d \in File, NEW at \in Nat, NEW n \in 0 .. BufSize,
         NEW bytes \in [Slot -> Cell], n > 0 => at + n <= MaxLen
  PROVE  Stored(d, at, bytes, n) \in File
<1>1. d.len \in 0 .. MaxLen /\ d.data \in [Offset -> Cell]
  BY DEF File
<1>2. (IF n > 0 THEN Greater(d.len, at + n) ELSE d.len) \in 0 .. MaxLen
  BY <1>1, SizeFacts DEF Greater
<1>3. \A i \in Offset : i \in at .. at + n - 1 => i - at \in Slot
  BY SizeFacts DEF Offset, Slot
<1>4. [i \in Offset |-> IF i \in at .. at + n - 1 THEN bytes[i - at] ELSE d.data[i]]
        \in [Offset -> Cell]
  BY <1>1, <1>3
<1> QED
  BY <1>2, <1>4 DEF Stored, File

(* __flush changes nothing of the stream but its mark.                     *)
LEMMA FlushFits ==
  ASSUME NEW b, Sane(b), NEW d \in File, NEW k \in 0 .. BufSize
  PROVE  LET r == Flush(b, d, k)
         IN  /\ r.b = [b EXCEPT !.updated = r.b.updated]
             /\ Sane(r.b)
             /\ SameStream(b, r.b)
             /\ r.b.FilePos = b.FilePos
             /\ r.b.FBufStart = b.FBufStart
             /\ r.b.is_eof = b.is_eof
             /\ b.updated => r.d = d /\ r.b = b
             /\ r.d \in File
             /\ r.ok \in BOOLEAN
<1> DEFINE n == Lesser(k, b.MBufLen)
<1>1. b \in BFILE /\ WindowInFile(b) /\ WindowFull(b)
  BY DEF Sane
<1>2. /\ b.FLength \in 0 .. MaxLen /\ b.FBufStart \in 0 .. MaxLen
      /\ b.MBufLen \in 0 .. BufSize /\ b.MBuffer \in [Slot -> Cell]
      /\ b.updated \in BOOLEAN
  BY <1>1 DEF BFILE
<1>3. CASE b.updated
  <2>1. Flush(b, d, k) = [b |-> b, d |-> d, ok |-> TRUE]
    BY <1>3 DEF Flush
  <2>2. b = [b EXCEPT !.updated = b.updated]
    BY <1>1 DEF BFILE
  <2> QED
    BY <1>1, <2>1, <2>2 DEF Sane, SameStream
<1>4. CASE ~b.updated
  <2> DEFINE c == [b EXCEPT !.updated = (n = b.MBufLen)]
  <2>1. Flush(b, d, k) = [b |-> c, d |-> Stored(d, b.FBufStart, b.MBuffer, n),
                          ok |-> n = b.MBufLen]
    BY <1>4 DEF Flush
  <2>2. n \in 0 .. BufSize /\ n <= b.MBufLen
    BY <1>2, SizeFacts DEF Lesser
  <2>3. n > 0 => b.FBufStart + n <= MaxLen
    BY <1>1, <1>2, <2>2, SizeFacts DEF WindowInFile
  <2>4. Stored(d, b.FBufStart, b.MBuffer, n) \in File
    BY <1>2, <2>2, <2>3, StoredIsFile
  <2>5. c \in BFILE
    BY <1>1 DEF BFILE
  <2>6. /\ c.FLength = b.FLength /\ c.FBufStart = b.FBufStart
        /\ c.MBufLen = b.MBufLen /\ c.FilePos = b.FilePos
        /\ c.is_eof = b.is_eof /\ SameStream(b, c)
        /\ c = [b EXCEPT !.updated = c.updated]
    BY <1>1 DEF BFILE, SameStream
  <2>7. Sane(c)
    BY <1>1, <2>5, <2>6 DEF Sane, WindowInFile, WindowFull
  <2>8. (n = b.MBufLen) \in BOOLEAN
    OBVIOUS
  <2> HIDE DEF c, n
  <2>9. /\ Flush(b, d, k).b = c /\ Flush(b, d, k).ok \in BOOLEAN
        /\ Flush(b, d, k).d = Stored(d, b.FBufStart, b.MBuffer, n)
    BY <2>1, <2>8
  <2> QED
    BY <1>4, <2>4, <2>6, <2>7, <2>9
<1> QED
  BY <1>2, <1>3, <1>4

(* CHK_EOF moves a reader to the last byte, and only there.                *)
LEMMA CheckEofFits ==
  ASSUME NEW b, Sane(b), NEW p \in Int,
         p \in 0 .. MaxLen \/ PastEnd(b, p)
  PROVE  LET c == CheckEof([b EXCEPT !.FilePos = p])
         IN  /\ Sane(c)
             /\ SameStream(b, c)
             /\ c.FilePos = IF PastEnd(b, p) THEN b.FLength - 1 ELSE p
             /\ c.FBufStart = b.FBufStart
             /\ c.MBufLen = b.MBufLen
             /\ c.MBuffer = b.MBuffer
             /\ c.updated = b.updated
<1> DEFINE m == [b EXCEPT !.FilePos = p]
<1>1. b \in BFILE /\ WindowInFile(b) /\ WindowFull(b)
  BY DEF Sane
<1>2. b.FLength \in 0 .. MaxLen
  BY <1>1 DEF BFILE
<1>3. /\ m.FilePos = p /\ m.FLength = b.FLength /\ m.openmode = b.openmode
  BY <1>1 DEF BFILE
<1>4. PastEnd(m, m.FilePos) <=> PastEnd(b, p)
  BY <1>3 DEF PastEnd
<1>5. CASE PastEnd(b, p)
  <2>1. CheckEof(m) = [m EXCEPT !.FilePos = b.FLength - 1, !.is_eof = TRUE]
    BY <1>3, <1>4, <1>5 DEF CheckEof
  <2>2. b.FLength - 1 \in 0 .. MaxLen
    BY <1>2, <1>5, SizeFacts DEF PastEnd
  <2>3. CheckEof(m) \in BFILE
    BY <1>1, <2>1, <2>2 DEF BFILE
  <2> QED
    BY <1>1, <1>5, <2>1, <2>3
       DEF Sane, SameStream, WindowInFile, WindowFull, BFILE
<1>6. CASE ~PastEnd(b, p)
  <2>1. CheckEof(m) = [m EXCEPT !.is_eof = FALSE]
    BY <1>4, <1>6 DEF CheckEof
  <2>2. CheckEof(m) \in BFILE
    BY <1>1, <1>6, <2>1 DEF BFILE
  <2> QED
    BY <1>1, <1>6, <2>1, <2>2
       DEF Sane, SameStream, WindowInFile, WindowFull, BFILE
<1> QED
  BY <1>5, <1>6

(* The window starts less than a buffer before the position.               *)
LEMMA ShiftRange ==
  ASSUME NEW dir \in Direction
  PROVE  Shift(dir) \in 0 .. BufSize - 1
BY SizeFacts DEF Shift, Direction

(* Moving the position alone keeps the window where it is.                 *)
LEMMA MoveFits ==
  ASSUME NEW b, Sane(b), NEW x \in 0 .. MaxLen
  PROVE  LET c == [b EXCEPT !.FilePos = x]
         IN  Sane(c) /\ SameStream(b, c) /\ c.FilePos = x /\ c.updated = b.updated
BY DEF Sane, SameStream, WindowInFile, WindowFull, BFILE

(* A position in the buffer and before the end of the file is backed by    *)
(* bytes of the window.                                                    *)
LEMMA InBufferInContents ==
  ASSUME NEW b, Sane(b), ~OutOfBuffer(b, b.FilePos), b.FilePos < b.FLength
  PROVE  ~OutOfContents(b, b.FilePos)
BY SizeFacts DEF Sane, BFILE, WindowFull, Lesser, OutOfBuffer, OutOfContents

(* An empty window anywhere.                                               *)
LEMMA EmptyFits ==
  ASSUME NEW c \in BFILE, NEW q \in 0 .. MaxLen, c.FLength <= q
  PROVE  LET e == [c EXCEPT !.FBufStart = q, !.MBufLen = 0]
         IN  /\ Sane(e) /\ SameStream(c, e)
             /\ e.FBufStart = q /\ e.MBufLen = 0
             /\ e.FilePos = c.FilePos /\ e.updated = c.updated
<1>1. [c EXCEPT !.FBufStart = q, !.MBufLen = 0] \in BFILE
  <2>1. 0 \in 0 .. BufSize
    BY SizeFacts
  <2> QED BY <2>1 DEF BFILE
<1> QED
  BY <1>1, SizeFacts DEF Sane, SameStream, WindowInFile, WindowFull, Lesser, BFILE

(* __seek leaves the window over the position, whatever the optimization,  *)
(* the mode and the fate of the flush.                                     *)
LEMMA SeekFits ==
  ASSUME NEW b, Sane(b), NEW d \in File, NEW p \in Int,
         p \in 0 .. MaxLen \/ PastEnd(b, p),
         NEW dir \in Direction, NEW k \in 0 .. BufSize
  PROVE  LET r == Seek(b, d, p, dir, k)
         IN  /\ Sane(r.b)
             /\ SameStream(b, r.b)
             /\ r.b.FilePos = IF PastEnd(b, p) THEN b.FLength - 1 ELSE p
             /\ ~OutOfBuffer(r.b, r.b.FilePos)
             /\ b.updated => r.d = d /\ r.b.updated
             /\ r.d \in File
             /\ r.ok \in BOOLEAN
<1> DEFINE past  == PastEnd(b, p)
           moved == CheckEof([b EXCEPT !.FilePos = p])
           q     == moved.FilePos
           f     == Flush(moved, d, k)
           r     == Fill(f.b, f.d, q - Shift(dir))
           end   == [f.b EXCEPT !.FBufStart = q, !.MBufLen = 0]
<1>1. /\ Sane(moved) /\ SameStream(b, moved)
      /\ q = IF past THEN b.FLength - 1 ELSE p
      /\ moved.FBufStart = b.FBufStart /\ moved.updated = b.updated
  BY CheckEofFits
<1>2. /\ q \in 0 .. MaxLen /\ past \in BOOLEAN /\ b.FLength \in 0 .. MaxLen
      /\ moved \in BFILE /\ moved.FLength = b.FLength
  BY <1>1, SizeFacts DEF Sane, SameStream, BFILE, PastEnd
<1>3. Seek(b, d, p, dir, k) =
        IF ~OutOfBuffer(b, q) THEN [b |-> moved, d |-> d, ok |-> ~past]
        ELSE IF q < b.FLength THEN [r EXCEPT !.ok = ~past /\ r.ok]
        ELSE [b |-> end, d |-> f.d, ok |-> ~past]
  BY DEF Seek
<1>4. /\ Sane(f.b) /\ SameStream(moved, f.b) /\ f.b.FilePos = q
      /\ f.d \in File /\ f.ok \in BOOLEAN
      /\ moved.updated => f.d = d /\ f.b = moved
  <2> HIDE DEF moved
  <2> QED BY <1>1, FlushFits
<1>5. /\ f.b \in BFILE /\ f.b.FLength = b.FLength
      /\ f.b.openmode = b.openmode /\ f.b.open = b.open
      /\ f.b.optimize = b.optimize
  BY <1>1, <1>4 DEF Sane, SameStream
<1> HIDE DEF moved, q, f
<1>6. CASE ~OutOfBuffer(b, q)
  <2>1. Seek(b, d, p, dir, k) = [b |-> moved, d |-> d, ok |-> ~past]
    BY <1>3, <1>6
  <2>2. ~OutOfBuffer(moved, q)
    BY <1>1, <1>6 DEF OutOfBuffer
  <2> QED
    BY <1>1, <1>2, <2>1, <2>2 DEF q
<1>7. CASE OutOfBuffer(b, q) /\ q < b.FLength
  <2> DEFINE z == q - Shift(dir)
  <2>1. /\ z \in Int /\ z <= f.b.FLength /\ Shift(dir) \in 0 .. BufSize - 1
    BY <1>2, <1>5, <1>7, ShiftRange, SizeFacts
  <2>2. /\ Sane(r.b) /\ SameStream(f.b, r.b) /\ r.b.FilePos = f.b.FilePos
        /\ r.b.updated = f.b.updated /\ r.d = f.d /\ r.ok \in BOOLEAN
        /\ r.b.FBufStart = Greater(z, 0)
    <3>1. ~(z > f.b.FLength)
      BY <1>5, <1>2, <2>1
    <3>2. r = Fill(f.b, f.d, z)
      OBVIOUS
    <3> HIDE DEF z, r
    <3> QED BY <1>4, <1>5, <2>1, <3>1, <3>2, FillFits
  <2>3. ~OutOfBuffer(r.b, q)
    BY <1>2, <2>1, <2>2, SizeFacts DEF OutOfBuffer, Greater
  <2>4. /\ Seek(b, d, p, dir, k) = [r EXCEPT !.ok = ~past /\ r.ok]
        /\ r = [b |-> r.b, d |-> r.d, ok |-> r.ok]
    BY <1>3, <1>7 DEF Fill
  <2> HIDE DEF r
  <2>5. /\ Seek(b, d, p, dir, k).b = r.b
        /\ Seek(b, d, p, dir, k).d = r.d
        /\ Seek(b, d, p, dir, k).ok = (~past /\ r.ok)
    BY <2>4
  <2>6. SameStream(b, r.b)
    BY <1>5, <2>2 DEF SameStream
  <2>7. Seek(b, d, p, dir, k).ok \in BOOLEAN
    BY <1>2, <2>2, <2>5, Zenon
  <2>8. r.b.FilePos = IF PastEnd(b, p) THEN b.FLength - 1 ELSE p
    BY <1>1, <1>4, <2>2
  <2>9. b.updated => r.d = d /\ r.b.updated
    BY <1>1, <1>4, <2>2
  <2>10. r.d \in File /\ ~OutOfBuffer(r.b, r.b.FilePos)
    BY <1>4, <2>2, <2>3
  <2> HIDE DEF past
  <2> QED
    BY <2>2, <2>5, <2>6, <2>7, <2>8, <2>9, <2>10
<1>8. CASE OutOfBuffer(b, q) /\ ~(q < b.FLength)
  <2>1. Seek(b, d, p, dir, k) = [b |-> end, d |-> f.d, ok |-> ~past]
    BY <1>3, <1>8
  <2>2. /\ Sane(end) /\ SameStream(f.b, end)
        /\ end.FBufStart = q /\ end.MBufLen = 0
        /\ end.FilePos = f.b.FilePos /\ end.updated = f.b.updated
    <3>1. f.b.FLength <= q
      BY <1>2, <1>5, <1>8
    <3> QED BY <1>2, <1>5, <3>1, EmptyFits
  <2>3. /\ end.FilePos = q /\ end.updated = f.b.updated /\ SameStream(b, end)
    BY <1>4, <1>5, <2>2 DEF SameStream
  <2>5. ~OutOfBuffer(end, q)
    BY <1>2, <2>2, SizeFacts DEF OutOfBuffer
  <2> HIDE DEF end
  <2>6. (~past) \in BOOLEAN
    OBVIOUS
  <2> HIDE DEF past
  <2>7. /\ Seek(b, d, p, dir, k).b = end
        /\ Seek(b, d, p, dir, k).d = f.d
        /\ Seek(b, d, p, dir, k).ok \in BOOLEAN
    BY <2>1, <2>6
  <2>8. end.FilePos = IF PastEnd(b, p) THEN b.FLength - 1 ELSE p
    BY <1>1, <2>3 DEF past
  <2>9. b.updated => f.d = d /\ end.updated
    BY <1>1, <1>4, <2>3
  <2> QED
    BY <1>4, <2>2, <2>3, <2>5, <2>7, <2>8, <2>9
<1> QED
  BY <1>6, <1>7, <1>8

(* The same of a call that first looks whether the window is elsewhere.    *)
LEMMA ReachFits ==
  ASSUME NEW b, Sane(b), NEW d \in File, NEW elsewhere \in BOOLEAN,
         OutOfBuffer(b, b.FilePos) => elsewhere,
         NEW dir \in Direction, NEW k \in 0 .. BufSize
  PROVE  LET r == Reach(b, d, elsewhere, dir, k)
         IN  /\ Sane(r.b)
             /\ SameStream(b, r.b)
             /\ r.b.FilePos \in {b.FilePos, b.FLength - 1}
             /\ b.openmode = "rw" => r.b.FilePos = b.FilePos
             /\ ~OutOfBuffer(r.b, r.b.FilePos)
             /\ b.updated => r.d = d /\ r.b.updated
             /\ r.d \in File
             /\ r.ok \in BOOLEAN
<1>1. b.FilePos \in 0 .. MaxLen
  BY DEF Sane, BFILE
<1>2. CASE elsewhere
  <2>1. Reach(b, d, elsewhere, dir, k) = Seek(b, d, b.FilePos, dir, k)
    BY <1>2 DEF Reach
  <2>2. b.openmode = "rw" => ~PastEnd(b, b.FilePos)
    BY DEF PastEnd
  <2> QED
    BY <1>1, <2>1, <2>2, SeekFits, SizeFacts
<1>3. CASE ~elsewhere
  BY <1>3 DEF Reach, SameStream
<1> QED
  BY <1>2, <1>3

(* Bytes put at the position, inside the buffer, leave a window that fits. *)
LEMMA PutFits ==
  ASSUME NEW b, Sane(b), ~OutOfBuffer(b, b.FilePos),
         NEW bytes \in Seq(Byte), NEW n \in 1 .. Len(bytes),
         Position(b) + n <= BufSize, b.FilePos + n <= MaxLen
  PROVE  LET c == Put(b, bytes, n)
         IN  /\ Sane(c)
             /\ c.FilePos = b.FilePos + n
             /\ c.open = b.open /\ c.openmode = b.openmode
<1> DEFINE at == Position(b)
           m  == Greater(b.MBufLen, at + n)
           l  == Greater(b.FLength, b.FilePos + n)
           x  == b.FilePos + n
           buff == [i \in Slot |-> IF i \in at .. at + n - 1
                                     THEN bytes[i - at + 1] ELSE b.MBuffer[i]]
           c  == [b EXCEPT !.MBuffer = buff, !.updated = FALSE,
                           !.MBufLen = m, !.FLength = l, !.FilePos = x]
<1>1. /\ b \in BFILE /\ WindowInFile(b) /\ WindowFull(b)
  BY DEF Sane
<1>2. /\ b.FilePos \in 0 .. MaxLen /\ b.FLength \in 0 .. MaxLen
      /\ b.FBufStart \in 0 .. MaxLen /\ b.MBufLen \in 0 .. BufSize
      /\ b.MBuffer \in [Slot -> Cell]
  BY <1>1 DEF BFILE
<1>3. Len(bytes) \in Nat /\ n \in Nat /\ n > 0
  OBVIOUS
<1>4. at \in 0 .. BufSize - 1 /\ b.FilePos = b.FBufStart + at
  BY <1>2, SizeFacts DEF OutOfBuffer, Position
<1>5. m \in 0 .. BufSize /\ l \in 0 .. MaxLen /\ x \in 0 .. MaxLen
  BY <1>2, <1>3, <1>4, SizeFacts DEF Greater
<1>6. buff \in [Slot -> Cell]
  <2>1. \A i \in Slot : i \in at .. at + n - 1 => i - at + 1 \in 1 .. Len(bytes)
    BY <1>3, <1>4, SizeFacts DEF Slot
  <2>2. \A i \in 1 .. Len(bytes) : bytes[i] \in Byte
    OBVIOUS
  <2> HIDE DEF at
  <2> QED BY <1>2, <2>1, <2>2 DEF Cell
<1>7. Put(b, bytes, n) = c
  BY DEF Put
<1> HIDE DEF m, l, x, buff
<1>8. /\ c \in BFILE /\ c.FLength = l /\ c.MBufLen = m /\ c.FilePos = x
      /\ c.FBufStart = b.FBufStart /\ c.open = b.open /\ c.openmode = b.openmode
  BY <1>1, <1>5, <1>6 DEF BFILE
<1> HIDE DEF c
<1> HIDE DEF at
<1>9. WindowInFile(c)
  BY <1>1, <1>2, <1>3, <1>4, <1>8, SizeFacts
     DEF WindowInFile, Greater, m, l
<1>10. WindowFull(c)
  <2>1. m >= b.MBufLen /\ m >= at + n /\ m \in Nat
    BY <1>2, <1>3, <1>4, SizeFacts DEF m, Greater
  <2>2. l = b.FLength \/ l = b.FBufStart + at + n
    BY <1>4, <1>2, <1>3 DEF l, Greater
  <2>3. \/ b.FBufStart + b.MBufLen >= b.FBufStart + BufSize
        \/ b.FBufStart + b.MBufLen >= b.FLength
    BY <1>1, <1>2, SizeFacts DEF WindowFull, Lesser
  <2>4. /\ b.FBufStart \in Nat /\ b.MBufLen \in Nat /\ b.FLength \in Nat
        /\ at \in Nat /\ n \in Nat /\ BufSize \in Nat
    BY <1>2, <1>3, <1>4, SizeFacts
  <2>5. b.FBufStart + m >= b.FBufStart + b.MBufLen
        /\ b.FBufStart + m >= b.FBufStart + at + n
    BY <2>1, <2>4
  <2>6. CASE b.FBufStart + b.MBufLen >= b.FBufStart + BufSize
    <3>1. b.FBufStart + m >= b.FBufStart + BufSize
      BY <2>1, <2>4, <2>5, <2>6
    <3> QED BY <1>2, <1>5, <1>8, <2>1, <2>4, <3>1 DEF WindowFull, Lesser
  <2>7. CASE b.FBufStart + b.MBufLen >= b.FLength
    <3>1. b.FBufStart + m >= l
      BY <2>1, <2>2, <2>4, <2>5, <2>7
    <3> QED BY <1>2, <1>5, <1>8, <2>1, <2>4, <3>1 DEF WindowFull, Lesser
  <2> QED
    BY <2>3, <2>6, <2>7
<1> QED
  BY <1>7, <1>8, <1>9, <1>10 DEF Sane, x

(* Cutting the file cuts the window.                                       *)
LEMMA ShrunkFits ==
  ASSUME NEW b, Sane(b), NEW n \in 0 .. MaxLen, n <= b.FLength
  PROVE  LET c == Shrunk(b, n)
         IN  /\ Sane(c)
             /\ c.FilePos = b.FilePos
             /\ c.open = b.open /\ c.openmode = b.openmode
<1> DEFINE g == Lesser(b.FBufStart, n)
           m == IF b.FBufStart > n THEN 0 ELSE Lesser(b.MBufLen, n - b.FBufStart)
           c == [b EXCEPT !.FLength = n, !.FBufStart = g, !.MBufLen = m]
<1>1. /\ b \in BFILE /\ WindowInFile(b) /\ WindowFull(b)
  BY DEF Sane
<1>2. /\ b.FLength \in 0 .. MaxLen /\ b.FBufStart \in 0 .. MaxLen
      /\ b.MBufLen \in 0 .. BufSize
  BY <1>1 DEF BFILE
<1>3. g \in 0 .. MaxLen /\ m \in 0 .. BufSize
  BY <1>2, SizeFacts DEF Lesser
<1>4. Shrunk(b, n) = c
  BY DEF Shrunk
<1> HIDE DEF g, m
<1>5. /\ c \in BFILE /\ c.FLength = n /\ c.MBufLen = m /\ c.FBufStart = g
      /\ c.FilePos = b.FilePos /\ c.open = b.open /\ c.openmode = b.openmode
  BY <1>1, <1>3 DEF BFILE
<1> HIDE DEF c
<1>6. WindowInFile(c) /\ WindowFull(c)
  BY <1>1, <1>2, <1>5, SizeFacts DEF WindowInFile, WindowFull, Lesser, g, m
<1> QED
  BY <1>4, <1>5, <1>6 DEF Sane

(* What is cut or grown is a file.                                         *)
LEMMA TruncatedIsFile ==
  ASSUME NEW d \in File, NEW n \in 0 .. MaxLen
  PROVE  Truncated(d, n) \in File
<1>1. d.data \in [Offset -> Cell]
  BY DEF File
<1>2. Zero \in Cell
  BY SizeFacts DEF Cell
<1>3. [i \in Offset |-> IF i < n THEN d.data[i] ELSE Zero] \in [Offset -> Cell]
  BY <1>1, <1>2
<1> QED
  BY <1>3 DEF Truncated, File

(* A write takes no more than the buffer holds.                            *)
LEMMA AcceptedRange == Accepted \subseteq 0 .. BufSize
BY SizeFacts DEF Accepted

-----------------------------------------------------------------------------
(* The inductive invariant: a stream opened for reading has, besides, a    *)
(* window that never needs flushing.                                       *)
ReaderClean == s.open /\ s.openmode = "ro" => s.updated

Inv == TypeOK /\ WindowFits /\ ReaderClean

(* What a call answers is a call that is over.                             *)
LEMMA ReturnedIsCall ==
  ASSUME NEW ok \in BOOLEAN, NEW got \in Seq(Cell \cup {NoByte})
  PROVE  Returned(ok, got) \in Call /\ Returned(ok, got).op = "idle"
<1>1. <<>> \in Seq(Byte) /\ 0 \in Nat
  OBVIOUS
<1> QED
  BY <1>1 DEF Returned, Call

(* A step that answers its caller and leaves a window that fits.           *)
LEMMA AnswerFits ==
  ASSUME Sane(s'), disk' \in File, s'.openmode = "ro" => s'.updated,
         NEW ok \in BOOLEAN, NEW got \in Seq(Cell \cup {NoByte}),
         call' = Returned(ok, got)
  PROVE  Inv'
BY ReturnedIsCall DEF Inv, TypeOK, WindowFits, ReaderClean, Sane

(* An open stream has a buffer in order.                                   *)
LEMMA SaneWhenOpen ==
  ASSUME Inv, s.open
  PROVE  /\ Sane(s) /\ disk \in File /\ s.openmode \in {"ro", "rw"}
         /\ s.openmode = "ro" => s.updated
         /\ s.optimize \in Direction
         /\ s.FilePos \in 0 .. MaxLen /\ s.FLength \in 0 .. MaxLen
BY DEF Inv, TypeOK, WindowFits, ReaderClean, Sane, BFILE

(* The invariant holds before bioOpen.                                     *)
LEMMA InitInv == Init => Inv
<1> SUFFICES ASSUME Init PROVE Inv
  OBVIOUS
<1>1. disk \in File /\ s = NoStream /\ call = Returned(TRUE, <<>>)
  BY CallAssumption DEF Init
<1>2. 0 \in 0 .. MaxLen /\ 0 \in 0 .. BufSize /\ [i \in Slot |-> Junk] \in [Slot -> Cell]
  BY SizeFacts DEF Cell
<1>3. NoStream \in BFILE /\ NoStream.open = FALSE
  BY <1>2 DEF NoStream, BFILE, Direction
<1>4. <<>> \in Seq(Cell \cup {NoByte})
  OBVIOUS
<1>5. call \in Call /\ call.op = "idle"
  BY <1>1, <1>4, ReturnedIsCall
<1> QED
  BY <1>1, <1>3, <1>5 DEF Inv, TypeOK, WindowFits, ReaderClean

(* A step that ends the stream or leaves it alone.                         *)
LEMMA NoStreamIsBFILE == NoStream \in BFILE /\ NoStream.open = FALSE
<1>1. 0 \in 0 .. MaxLen /\ 0 \in 0 .. BufSize /\ [i \in Slot |-> Junk] \in [Slot -> Cell]
  BY SizeFacts DEF Cell
<1> QED
  BY <1>1 DEF NoStream, BFILE, Direction

(* Every call, and every failure in it, keeps the invariant.               *)
LEMMA StepInv == Inv /\ [Next]_vars => Inv'
<1> SUFFICES ASSUME Inv, [Next]_vars PROVE Inv'
  OBVIOUS
<1> USE SizeFacts, AcceptedRange
<1>0. /\ <<>> \in Seq(Cell \cup {NoByte}) /\ TRUE \in BOOLEAN /\ FALSE \in BOOLEAN
      /\ disk \in File /\ call \in Call
  BY DEF Inv, TypeOK
<1>1. CASE bioOpen
  <2> PICK m \in Modes :
        /\ s' = Fill([NoStream EXCEPT !.open = TRUE, !.openmode = m,
                                      !.FLength = disk.len], disk, 0).b
        /\ call' = Returned(TRUE, <<>>)
        /\ disk' = disk
    BY <1>1 DEF bioOpen
  <2> DEFINE b == [NoStream EXCEPT !.open = TRUE, !.openmode = m, !.FLength = disk.len]
  <2>1. disk.len \in 0 .. MaxLen /\ m \in {"ro", "rw"}
    BY <1>0, CallAssumption DEF File
  <2>2. b \in BFILE
    BY <2>1, NoStreamIsBFILE DEF BFILE
  <2>3. b.updated = TRUE /\ b.FLength = disk.len
    BY NoStreamIsBFILE DEF NoStream, BFILE
  <2> HIDE DEF b
  <2>4. Sane(Fill(b, disk, 0).b) /\ Fill(b, disk, 0).b.updated = b.updated
    <3>1. 0 \in Int /\ ~(0 > b.FLength)
      BY <2>1, <2>3
    <3> QED BY <1>0, <2>2, <3>1, FillFits
  <2> QED
    BY <1>0, <2>3, <2>4, AnswerFits DEF b
<1>2. CASE bioClose
  <2> PICK k \in Accepted :
        /\ s.open
        /\ disk' = IF s.openmode = "rw" THEN Flush(s, disk, k).d ELSE disk
        /\ s' = NoStream
        /\ call' = Returned(TRUE, <<>>)
    BY <1>2 DEF bioClose, Ready
  <2>1. Flush(s, disk, k).d \in File
    BY SaneWhenOpen, FlushFits
  <2>2. disk' \in File
    BY <1>0, <2>1
  <2> QED
    BY <1>0, <2>2, NoStreamIsBFILE, ReturnedIsCall
       DEF Inv, TypeOK, WindowFits, ReaderClean
<1>3. CASE bioSeek
  <2> PICK k \in Accepted, from \in {"set", "cur", "end"}, off \in -MaxLen .. MaxLen :
        LET p == Origin(from) + off
        IN  /\ Ready
            /\ p \in 0 .. Lesser(s.FLength + MaxGap, MaxLen) \/ PastEnd(s, p)
            /\ Return(Seek(s, disk, p, s.optimize, k), <<>>)
    BY <1>3 DEF bioSeek
  <2> DEFINE p == Origin(from) + off
             r == Seek(s, disk, p, s.optimize, k)
  <2>1. s.open
    BY DEF Ready
  <2>2. /\ Sane(s) /\ disk \in File /\ s.optimize \in Direction
        /\ s.FilePos \in 0 .. MaxLen /\ s.FLength \in 0 .. MaxLen
        /\ s.openmode = "ro" => s.updated
    BY <2>1, SaneWhenOpen
  <2>3. p \in Int
    BY <2>2 DEF Origin
  <2>4. p \in 0 .. MaxLen \/ PastEnd(s, p)
    BY <2>2, CallAssumption DEF Lesser
  <2>5. s' = r.b /\ disk' = r.d /\ call' = Returned(r.ok, <<>>)
    BY DEF Return
  <2> HIDE DEF p
  <2>6. /\ Sane(r.b) /\ SameStream(s, r.b)
        /\ s.updated => r.b.updated
        /\ r.d \in File /\ r.ok \in BOOLEAN
    BY <2>2, <2>3, <2>4, SeekFits
  <2> HIDE DEF r
  <2>7. Sane(s') /\ disk' \in File /\ (s'.openmode = "ro" => s'.updated)
    BY <2>2, <2>5, <2>6 DEF SameStream
  <2> QED
    BY <1>0, <2>5, <2>6, <2>7, AnswerFits
<1>4. CASE bioReadByte
  <2> PICK k \in Accepted :
        LET r   == Reach(s, disk, OutOfContents(s, s.FilePos), s.optimize, k)
            b   == r.b
            hit == b.MBufLen > 0 /\ r.ok /\ b.FilePos <= b.FLength
            ch  == IF hit /\ Position(b) \in 0 .. b.MBufLen - 1
                     THEN b.MBuffer[Position(b)] ELSE NoByte
            end == CheckEof([b EXCEPT !.FilePos = Lesser(b.FilePos + 1, b.FLength)])
        IN  /\ Ready
            /\ s' = IF hit THEN end ELSE b
            /\ disk' = r.d
            /\ call' = Returned(hit, <<ch>>)
    BY <1>4 DEF bioReadByte
  <2> DEFINE out == OutOfContents(s, s.FilePos)
             r   == Reach(s, disk, out, s.optimize, k)
             b   == r.b
             hit == b.MBufLen > 0 /\ r.ok /\ b.FilePos <= b.FLength
             ch  == IF hit /\ Position(b) \in 0 .. b.MBufLen - 1
                      THEN b.MBuffer[Position(b)] ELSE NoByte
             p   == Lesser(b.FilePos + 1, b.FLength)
             end == CheckEof([b EXCEPT !.FilePos = p])
  <2>1. /\ s.open /\ s' = (IF hit THEN end ELSE b) /\ disk' = r.d
        /\ call' = Returned(hit, <<ch>>)
    BY DEF Ready
  <2>2. /\ Sane(s) /\ disk \in File /\ s.optimize \in Direction
        /\ s.openmode = "ro" => s.updated
    BY <2>1, SaneWhenOpen
  <2>3. out \in BOOLEAN /\ (OutOfBuffer(s, s.FilePos) => out)
    BY <2>2 DEF OutOfBuffer, OutOfContents, Sane, BFILE
  <2> HIDE DEF out
  <2>4. /\ Sane(b) /\ SameStream(s, b) /\ r.d \in File
        /\ s.updated => b.updated
    BY <2>2, <2>3, ReachFits
  <2> HIDE DEF b
  <2>5. p \in 0 .. MaxLen
    BY <2>4 DEF Sane, BFILE, Lesser
  <2>6. Sane(end) /\ SameStream(b, end) /\ end.updated = b.updated
    BY <2>4, <2>5, CheckEofFits
  <2>7. ch \in Cell \cup {NoByte}
    <3>1. b.MBuffer \in [Slot -> Cell] /\ b.MBufLen \in 0 .. BufSize
      BY <2>4 DEF Sane, BFILE
    <3> QED BY <3>1 DEF Slot
  <2>8. <<ch>> \in Seq(Cell \cup {NoByte}) /\ hit \in BOOLEAN
    BY <2>7
  <2> HIDE DEF end, ch, hit, r
  <2>9. Sane(s') /\ (s'.openmode = "ro" => s'.updated)
    BY <2>1, <2>2, <2>4, <2>6 DEF SameStream
  <2> QED
    BY <2>1, <2>4, <2>8, <2>9, AnswerFits
<1>5. CASE bioWriteByte
  <2> PICK k \in Accepted, ch \in Byte :
        LET r == Reach(s, disk, OutOfBuffer(s, s.FilePos), s.optimize, k)
        IN  /\ Ready
            /\ IF s.openmode = "rw"
                 THEN /\ s.FilePos < MaxLen
                      /\ s' = Put(r.b, <<ch>>, 1)
                      /\ disk' = r.d
                      /\ call' = Returned(TRUE, <<>>)
                 ELSE /\ call' = Returned(FALSE, <<>>)
                      /\ UNCHANGED <<s, disk>>
    BY <1>5 DEF bioWriteByte
  <2>1. /\ s.open /\ Sane(s) /\ disk \in File /\ s.optimize \in Direction
        /\ s.FilePos \in 0 .. MaxLen /\ (s.openmode = "ro" => s.updated)
    BY SaneWhenOpen DEF Ready
  <2>2. CASE s.openmode = "rw"
    <3> DEFINE out == OutOfBuffer(s, s.FilePos)
               r == Reach(s, disk, out, s.optimize, k)
    <3>1. out \in BOOLEAN
      BY <2>1 DEF OutOfBuffer
    <3>2. /\ s.FilePos < MaxLen /\ s' = Put(r.b, <<ch>>, 1) /\ disk' = r.d
          /\ call' = Returned(TRUE, <<>>)
      BY <2>2
    <3>3. /\ Sane(r.b) /\ SameStream(s, r.b) /\ r.d \in File
          /\ r.b.FilePos = s.FilePos /\ ~OutOfBuffer(r.b, r.b.FilePos)
      <4> HIDE DEF out
      <4>1. OutOfBuffer(s, s.FilePos) => out
        BY DEF out
      <4> QED BY <2>1, <2>2, <3>1, <4>1, ReachFits
    <3> HIDE DEF r
    <3>4. /\ r.b.FilePos + 1 <= MaxLen /\ Position(r.b) + 1 <= BufSize
      BY <2>1, <3>2, <3>3 DEF Position, OutOfBuffer, Sane, BFILE
    <3>5. /\ <<ch>> \in Seq(Byte) /\ 1 \in 1 .. Len(<<ch>>)
      OBVIOUS
    <3>6. /\ Sane(Put(r.b, <<ch>>, 1)) /\ Put(r.b, <<ch>>, 1).openmode = r.b.openmode
      BY <3>3, <3>4, <3>5, PutFits
    <3>7. Sane(s') /\ disk' \in File /\ (s'.openmode = "ro" => s'.updated)
      BY <2>2, <3>2, <3>3, <3>6 DEF SameStream
    <3> QED
      BY <1>0, <3>2, <3>7, AnswerFits
  <2>3. CASE s.openmode # "rw"
    <3>1. s' = s /\ disk' = disk /\ call' = Returned(FALSE, <<>>)
      BY <2>3
    <3>2. Sane(s') /\ disk' \in File /\ (s'.openmode = "ro" => s'.updated)
      BY <2>1, <3>1
    <3> QED
      BY <1>0, <3>1, <3>2, AnswerFits
  <2> QED
    BY <2>2, <2>3
<1>6. CASE bioReadBuffer
  <2> PICK n \in Counts :
        /\ Ready
        /\ call' = [Returned(TRUE, <<>>) EXCEPT !.op = "read", !.want = n]
        /\ UNCHANGED <<s, disk>>
    BY <1>6 DEF bioReadBuffer
  <2>1. n \in Nat /\ Returned(TRUE, <<>>) \in Call
    BY <1>0, CallAssumption, ReturnedIsCall
  <2>2. call' \in Call /\ call'.op = "read"
    BY <2>1 DEF Call
  <2> QED
    BY <1>0, <2>2, SaneWhenOpen DEF Inv, TypeOK, WindowFits, ReaderClean, Ready
<1>7. CASE bioWriteBuffer
  <2> PICK bytes \in Data :
        /\ Ready
        /\ IF s.openmode = "rw"
             THEN /\ s.FilePos + Len(bytes) <= MaxLen
                  /\ call' = [Returned(TRUE, <<>>) EXCEPT
                                !.op = "write", !.rest = bytes]
             ELSE call' = Returned(FALSE, <<>>)
        /\ UNCHANGED <<s, disk>>
    BY <1>7 DEF bioWriteBuffer
  <2>1. /\ s.open /\ Sane(s) /\ disk \in File /\ s.openmode \in {"ro", "rw"}
        /\ s.openmode = "ro" => s.updated
    BY SaneWhenOpen DEF Ready
  <2>2. CASE s.openmode = "rw"
    <3>1. bytes \in Seq(Byte) /\ Returned(TRUE, <<>>) \in Call
      BY <1>0, CallAssumption, ReturnedIsCall
    <3>2. call' \in Call /\ call'.op = "write" /\ call'.rest = bytes
      BY <2>2, <3>1 DEF Call
    <3> QED
      BY <2>1, <2>2, <3>2 DEF Inv, TypeOK, WindowFits, ReaderClean
  <2>3. CASE s.openmode # "rw"
    <3>1. s' = s /\ disk' = disk /\ call' = Returned(FALSE, <<>>)
      BY <2>3
    <3>2. Sane(s') /\ disk' \in File /\ (s'.openmode = "ro" => s'.updated)
      BY <2>1, <3>1
    <3> QED
      BY <1>0, <3>1, <3>2, AnswerFits
  <2> QED
    BY <2>2, <2>3
<1>8. CASE GetBuff
  <2> PICK k \in Accepted :
        LET out  == OutOfContents(s, s.FilePos)
            r    == Reach(s, disk, out, "forward", k)
            b    == r.b
            room == b.MBufLen - Position(b)
            n    == IF room < 0 THEN call.want ELSE Lesser(room, call.want)
            new  == [i \in 1 .. n |-> IF Position(b) + i - 1 \in Slot
                                        THEN b.MBuffer[Position(b) + i - 1]
                                        ELSE Junk]
        IN  /\ call.op = "read"
            /\ IF call.want = 0
                 THEN call' = [call EXCEPT !.op = "idle"] /\ UNCHANGED <<s, disk>>
               ELSE IF out /\ Exhausted(r, room)
                 THEN /\ s' = b
                      /\ disk' = r.d
                      /\ call' = [call EXCEPT !.op = "idle",
                                    !.ok = r.ok /\ b.FilePos >= b.FLength]
               ELSE /\ s' = [b EXCEPT !.FilePos = Lesser(b.FilePos + n, b.FLength)]
                    /\ disk' = r.d
                    /\ call' = [call EXCEPT !.got = @ \o new, !.want = @ - n]
    BY <1>8 DEF GetBuff
  <2> DEFINE out  == OutOfContents(s, s.FilePos)
             r    == Reach(s, disk, out, "forward", k)
             b    == r.b
             room == b.MBufLen - Position(b)
             n    == IF room < 0 THEN call.want ELSE Lesser(room, call.want)
             new  == [i \in 1 .. n |-> IF Position(b) + i - 1 \in Slot
                                         THEN b.MBuffer[Position(b) + i - 1]
                                         ELSE Junk]
             p    == Lesser(b.FilePos + n, b.FLength)
  <2>1. /\ call.op = "read" /\ disk' \in {disk, r.d}
        /\ \/ s' = s /\ call' = [call EXCEPT !.op = "idle"]
           \/ s' = b /\ call' = [call EXCEPT !.op = "idle",
                                     !.ok = r.ok /\ b.FilePos >= b.FLength]
           \/ /\ s' = [b EXCEPT !.FilePos = p]
              /\ call' = [call EXCEPT !.got = @ \o new, !.want = @ - n]
    OBVIOUS
  <2>2. /\ s.open /\ Sane(s) /\ (s.openmode = "ro" => s.updated)
        /\ call.want \in Nat /\ call.got \in Seq(Cell \cup {NoByte})
    BY <2>1, SaneWhenOpen DEF Inv, TypeOK, Call
  <2>3. out \in BOOLEAN /\ (OutOfBuffer(s, s.FilePos) => out) /\ "forward" \in Direction
    BY <2>2 DEF OutOfBuffer, OutOfContents, Sane, BFILE, Direction
  <2> HIDE DEF out
  <2>4. /\ Sane(b) /\ SameStream(s, b) /\ r.d \in File /\ r.ok \in BOOLEAN
        /\ s.updated => b.updated
    BY <1>0, <2>2, <2>3, ReachFits
  <2> HIDE DEF b
  <2>5. /\ b.FilePos \in 0 .. MaxLen /\ b.FLength \in 0 .. MaxLen
        /\ b.FBufStart \in 0 .. MaxLen /\ b.MBufLen \in 0 .. BufSize
        /\ b.MBuffer \in [Slot -> Cell]
    BY <2>4 DEF Sane, BFILE
  <2>6. n \in 0 .. call.want /\ p \in 0 .. MaxLen
    <3>1. room \in Int
      BY <2>5 DEF Position
    <3> HIDE DEF room
    <3>2. n \in 0 .. call.want
      BY <2>2, <3>1 DEF Lesser
    <3> HIDE DEF n
    <3>3. p \in 0 .. MaxLen
      BY <2>2, <2>5, <3>2 DEF Lesser
    <3> QED BY <3>2, <3>3
  <2>7. new \in Seq(Cell \cup {NoByte})
    <3>1. \A i \in 1 .. n : new[i] \in Cell \cup {NoByte}
      BY <2>5 DEF Cell
    <3> HIDE DEF new
    <3>2. n \in Nat /\ new = [i \in 1 .. n |-> new[i]]
      BY <2>2, <2>6 DEF new
    <3> HIDE DEF n
    <3> QED BY <3>1, <3>2
  <2>8. call' \in Call /\ call'.op \in {"idle", "read"}
    <3>1. CASE call' = [call EXCEPT !.op = "idle"]
      BY <1>0, <3>1 DEF Call
    <3>2. CASE call' = [call EXCEPT !.op = "idle",
                                    !.ok = r.ok /\ b.FilePos >= b.FLength]
      <4>1. (r.ok /\ b.FilePos >= b.FLength) \in BOOLEAN
        OBVIOUS
      <4> QED BY <1>0, <3>2, <4>1 DEF Call
    <3>3. CASE call' = [call EXCEPT !.got = @ \o new, !.want = @ - n]
      <4> HIDE DEF new, n
      <4>1. call.got \o new \in Seq(Cell \cup {NoByte}) /\ call.want - n \in Nat
        BY <2>2, <2>6, <2>7
      <4> QED BY <1>0, <2>1, <3>3, <4>1 DEF Call
    <3> QED BY <2>1, <3>1, <3>2, <3>3
  <2>9. /\ Sane([b EXCEPT !.FilePos = p]) /\ SameStream(b, [b EXCEPT !.FilePos = p])
        /\ [b EXCEPT !.FilePos = p].updated = b.updated
    BY <2>4, <2>6, MoveFits
  <2> HIDE DEF p, new, n, room
  <2>10. Sane(s') /\ s'.open /\ (s'.openmode = "ro" => s'.updated)
    BY <2>1, <2>2, <2>4, <2>9 DEF SameStream
  <2> QED
    BY <2>1, <2>4, <2>8, <2>10 DEF Inv, TypeOK, WindowFits, ReaderClean, Sane
<1>9. CASE PutBuff
  <2> PICK k \in Accepted :
        LET out == OutOfBuffer(s, s.FilePos)
            r   == Reach(s, disk, out, "forward", k)
            b   == r.b
            n   == Lesser(BufSize - Position(b), Len(call.rest))
        IN  /\ call.op = "write"
            /\ IF call.rest = <<>>
                 THEN call' = Returned(TRUE, <<>>) /\ UNCHANGED <<s, disk>>
               ELSE IF ~r.ok \/ Position(b) = BufSize
                 THEN s' = b /\ disk' = r.d /\ call' = Returned(FALSE, <<>>)
               ELSE /\ s' = Put(b, call.rest, n)
                    /\ disk' = r.d
                    /\ call' = [call EXCEPT
                                  !.rest = SubSeq(@, n + 1, Len(@))]
    BY <1>9 DEF PutBuff
  <2> DEFINE out  == OutOfBuffer(s, s.FilePos)
             r    == Reach(s, disk, out, "forward", k)
             b    == r.b
             n    == Lesser(BufSize - Position(b), Len(call.rest))
             rest == SubSeq(call.rest, n + 1, Len(call.rest))
  <2>1. /\ call.op = "write" /\ disk' \in {disk, r.d}
        /\ \/ s' = s /\ call' = Returned(TRUE, <<>>)
           \/ s' = b /\ call' = Returned(FALSE, <<>>)
           \/ /\ call.rest # <<>>
              /\ s' = Put(b, call.rest, n)
              /\ call' = [call EXCEPT !.rest = rest]
    OBVIOUS
  <2>2. /\ s.open /\ Sane(s) /\ s.openmode = "rw"
        /\ call.rest \in Seq(Byte) /\ s.FilePos + Len(call.rest) <= MaxLen
    BY <2>1, SaneWhenOpen DEF Inv, TypeOK, Call
  <2>3. out \in BOOLEAN /\ "forward" \in Direction
    BY DEF OutOfBuffer, Direction
  <2>4. /\ Sane(b) /\ SameStream(s, b) /\ r.d \in File
        /\ b.FilePos = s.FilePos /\ ~OutOfBuffer(b, b.FilePos)
    <3> HIDE DEF out
    <3>1. OutOfBuffer(s, s.FilePos) => out
      BY DEF out
    <3> QED BY <1>0, <2>2, <2>3, <3>1, ReachFits
  <2> HIDE DEF b
  <2>5. Position(b) \in 0 .. BufSize - 1 /\ b.FilePos \in 0 .. MaxLen
    BY <2>4 DEF Sane, BFILE, Position, OutOfBuffer
  <2>6. CASE s' = s /\ call' = Returned(TRUE, <<>>)
    <3>1. Sane(s') /\ disk' \in File /\ (s'.openmode = "ro" => s'.updated)
      BY <1>0, <2>1, <2>2, <2>4, <2>6
    <3> QED BY <1>0, <2>6, <3>1, AnswerFits
  <2>7. CASE s' = b /\ call' = Returned(FALSE, <<>>)
    <3>1. Sane(s') /\ disk' \in File /\ (s'.openmode = "ro" => s'.updated)
      BY <1>0, <2>1, <2>2, <2>4, <2>7 DEF SameStream
    <3> QED BY <1>0, <2>7, <3>1, AnswerFits
  <2>8. CASE /\ call.rest # <<>>
             /\ s' = Put(b, call.rest, n)
             /\ call' = [call EXCEPT !.rest = rest]
    <3>1. Len(call.rest) \in Nat /\ Len(call.rest) > 0
      BY <2>2, <2>8
    <3>2. /\ n \in 1 .. Len(call.rest) /\ Position(b) + n <= BufSize
          /\ b.FilePos + n <= MaxLen
      BY <2>2, <2>4, <2>5, <3>1 DEF Lesser
    <3>3. rest \in Seq(Byte) /\ Len(rest) = Len(call.rest) - n
      <4> HIDE DEF n
      <4> QED BY <2>2, <3>2
    <3> HIDE DEF n, rest
    <3>4. /\ Sane(s') /\ s'.FilePos = b.FilePos + n
          /\ s'.open /\ s'.openmode = "rw"
      BY <2>2, <2>4, <2>8, <3>2, PutFits DEF SameStream
    <3>5. call' \in Call /\ call'.op = "write" /\ call'.rest = rest
      BY <1>0, <2>1, <2>8, <3>3 DEF Call
    <3>6. s'.FilePos + Len(call'.rest) <= MaxLen
      BY <2>2, <2>4, <2>5, <3>1, <3>2, <3>3, <3>4, <3>5
    <3> QED
      BY <2>1, <2>4, <3>4, <3>5, <3>6 DEF Inv, TypeOK, WindowFits, ReaderClean, Sane
  <2> QED
    BY <2>1, <2>6, <2>7, <2>8
<1>10. CASE bioFlush
  <2> PICK k \in Accepted : Ready /\ Return(Flush(s, disk, k), <<>>)
    BY <1>10 DEF bioFlush
  <2> DEFINE r == Flush(s, disk, k)
  <2>1. /\ s.open /\ Sane(s) /\ (s.openmode = "ro" => s.updated)
    BY SaneWhenOpen DEF Ready
  <2>2. s' = r.b /\ disk' = r.d /\ call' = Returned(r.ok, <<>>)
    BY DEF Return
  <2>3. /\ Sane(r.b) /\ SameStream(s, r.b) /\ r.d \in File /\ r.ok \in BOOLEAN
        /\ s.updated => r.b = s
    BY <1>0, <2>1, FlushFits
  <2> HIDE DEF r
  <2>4. Sane(s') /\ disk' \in File /\ (s'.openmode = "ro" => s'.updated)
    BY <2>1, <2>2, <2>3 DEF SameStream
  <2> QED
    BY <1>0, <2>2, <2>3, <2>4, AnswerFits
<1>11. CASE bioReRead
  <2> DEFINE c == [s EXCEPT !.FLength = disk.len]
             r == Fill(c, disk, s.FBufStart)
  <2>1. /\ s.open /\ Sane(s) /\ (s.openmode = "ro" => s.updated)
    BY <1>11, SaneWhenOpen DEF bioReRead, Ready
  <2>2. s' = r.b /\ disk' = r.d /\ call' = Returned(r.ok, <<>>)
    BY <1>11 DEF bioReRead, Return
  <2>3. disk.len \in 0 .. MaxLen
    BY <1>0 DEF File
  <2>4. /\ c \in BFILE /\ c.openmode = s.openmode /\ c.updated = s.updated
        /\ c.FBufStart = s.FBufStart /\ c.FBufStart \in 0 .. MaxLen
        /\ c.FLength = disk.len
    BY <2>1, <2>3 DEF Sane, BFILE
  <2> HIDE DEF c
  <2>5. s.FBufStart \in Int /\ (s.FBufStart > c.FLength => c.FBufStart >= c.FLength)
    BY <2>3, <2>4
  <2>6. /\ Sane(r.b) /\ SameStream(c, r.b) /\ r.d = disk /\ r.ok \in BOOLEAN
        /\ r.b.updated = c.updated
    BY <1>0, <2>4, <2>5, FillFits
  <2> HIDE DEF r
  <2>7. Sane(s') /\ disk' \in File /\ (s'.openmode = "ro" => s'.updated)
    BY <1>0, <2>1, <2>2, <2>4, <2>6 DEF SameStream
  <2> QED
    BY <1>0, <2>2, <2>6, <2>7, AnswerFits
<1>12. CASE bioChSize
  <2> PICK k \in Accepted, n \in 0 .. MaxLen :
        /\ Ready
        /\ s.openmode = "rw"
        /\ IF n > s.FLength
             THEN LET r == Seek(s, disk, s.FLength, s.optimize, k)
                  IN  /\ s' = r.b
                      /\ disk' = r.d
                      /\ call' = [Returned(TRUE, <<>>) EXCEPT !.op = "write",
                                    !.rest = [i \in 1 .. n - s.FLength |-> Zero]]
             ELSE \E cut \in IF Faults THEN BOOLEAN ELSE {TRUE} :
                    LET r == Seek(s, disk, n, s.optimize, k)
                    IN  /\ s' = Shrunk(r.b, n)
                        /\ disk' = IF cut THEN Truncated(r.d, n) ELSE r.d
                        /\ call' = Returned(cut, <<>>)
    BY <1>12 DEF bioChSize
  <2>1. /\ s.open /\ Sane(s) /\ s.openmode = "rw" /\ s.optimize \in Direction
        /\ s.FLength \in 0 .. MaxLen
    BY SaneWhenOpen DEF Ready
  <2>2. \A p : ~PastEnd(s, p)
    BY <2>1 DEF PastEnd
  <2>3. CASE n > s.FLength
    <3> DEFINE r == Seek(s, disk, s.FLength, s.optimize, k)
               zeros == [i \in 1 .. n - s.FLength |-> Zero]
    <3>1. /\ s' = r.b /\ disk' = r.d
          /\ call' = [Returned(TRUE, <<>>) EXCEPT !.op = "write", !.rest = zeros]
      BY <2>3
    <3>2. /\ Sane(r.b) /\ SameStream(s, r.b) /\ r.d \in File
          /\ r.b.FilePos = s.FLength
      BY <1>0, <2>1, <2>2, SeekFits
    <3>3. n - s.FLength \in Nat
      BY <2>1, <2>3
    <3>4. zeros \in Seq(Byte) /\ Len(zeros) = n - s.FLength
      BY <3>3
    <3> HIDE DEF r, zeros
    <3>5. call' \in Call /\ call'.op = "write" /\ call'.rest = zeros
      BY <1>0, <3>1, <3>4, ReturnedIsCall DEF Call
    <3>6. s'.FilePos + Len(call'.rest) <= MaxLen
      BY <2>1, <3>1, <3>2, <3>4, <3>5
    <3> QED
      BY <2>1, <3>1, <3>2, <3>5, <3>6
         DEF Inv, TypeOK, WindowFits, ReaderClean, Sane, SameStream
  <2>4. CASE ~(n > s.FLength)
    <3> DEFINE r == Seek(s, disk, n, s.optimize, k)
    <3>1. PICK cut \in BOOLEAN :
            /\ s' = Shrunk(r.b, n)
            /\ disk' = IF cut THEN Truncated(r.d, n) ELSE r.d
            /\ call' = Returned(cut, <<>>)
      BY <2>4
    <3>2. /\ Sane(r.b) /\ SameStream(s, r.b) /\ r.d \in File
      BY <1>0, <2>1, <2>2, SeekFits
    <3> HIDE DEF r
    <3>3. n <= r.b.FLength
      BY <2>1, <2>4, <3>2 DEF SameStream
    <3>4. Sane(s') /\ s'.openmode = "rw"
      BY <2>1, <3>1, <3>2, <3>3, ShrunkFits DEF SameStream
    <3>5. disk' \in File
      BY <3>1, <3>2, TruncatedIsFile
    <3> QED
      BY <1>0, <3>1, <3>4, <3>5, AnswerFits
  <2> QED
    BY <2>3, <2>4
<1>13. CASE bioSetOptimization
  <2> PICK dir \in Dirs : /\ Ready
                         /\ s' = [s EXCEPT !.optimize = dir]
                         /\ call' = Returned(TRUE, <<>>)
                         /\ disk' = disk
    BY <1>13 DEF bioSetOptimization
  <2>1. /\ Sane(s) /\ (s.openmode = "ro" => s.updated) /\ dir \in Direction
    BY SaneWhenOpen, CallAssumption DEF Ready
  <2>2. Sane(s') /\ (s'.openmode = "ro" => s'.updated)
    BY <2>1 DEF Sane, BFILE, WindowInFile, WindowFull
  <2> QED
    BY <1>0, <2>2, AnswerFits
<1>14. CASE UNCHANGED vars
  BY <1>14 DEF vars, Inv, TypeOK, WindowFits, ReaderClean, WindowInFile, WindowFull
<1> QED
  BY <1>1, <1>2, <1>3, <1>4, <1>5, <1>6, <1>7, <1>8, <1>9, <1>10, <1>11, <1>12,
     <1>13, <1>14 DEF Next

(* Whatever calls were made, the invariant holds.                          *)
LEMMA Invariance == Spec => []Inv
<1> QED
  BY InitInv, StepInv, PTL DEF Spec

(* In every state of the stream, with and without failing writes, the      *)
(* fields keep their ranges and a write in progress stays in bounds.       *)
THEOREM Typing == Spec => []TypeOK
<1>1. Inv => TypeOK
  BY DEF Inv
<1> QED
  BY <1>1, Invariance, PTL

(* The window never reaches past the logical end of the file, and is full  *)
(* unless the file ends in it: what __getbuff's arithmetic relies on.      *)
THEOREM WindowAlwaysFits == Spec => []WindowFits
<1>1. Inv => WindowFits
  BY DEF Inv
<1> QED
  BY <1>1, Invariance, PTL

(* Wherever the loops and the byte calls index MBuffer, the index is in it,*)
(* and a byte they read there is one the window holds.                     *)
THEOREM AccessAlwaysInBuffer == Spec => []AccessInBuffer
<1>1. Inv => AccessInBuffer
  <2> SUFFICES ASSUME Inv, s.open, NEW dir \in Dirs, NEW k \in Accepted
               PROVE  LET w == Reach(s, disk, OutOfBuffer(s, s.FilePos), dir, k).b
                          r == Reach(s, disk, OutOfContents(s, s.FilePos), dir, k)
                      IN  /\ Position(w) \in Slot
                          /\ r.ok /\ r.b.FilePos < r.b.FLength
                               => Position(r.b) \in 0 .. r.b.MBufLen - 1
    BY DEF AccessInBuffer
  <2> DEFINE in  == OutOfBuffer(s, s.FilePos)
             out == OutOfContents(s, s.FilePos)
             w == Reach(s, disk, in, dir, k).b
             r == Reach(s, disk, out, dir, k)
  <2>1. /\ Sane(s) /\ disk \in File /\ dir \in Direction /\ k \in 0 .. BufSize
    BY SaneWhenOpen, CallAssumption, AcceptedRange
  <2>2. /\ in \in BOOLEAN /\ out \in BOOLEAN
        /\ OutOfBuffer(s, s.FilePos) => out
    BY <2>1, SizeFacts DEF OutOfBuffer, OutOfContents, Sane, BFILE
  <2>3. in = OutOfBuffer(s, s.FilePos)
    OBVIOUS
  <2> HIDE DEF in, out
  <2>4. Sane(w) /\ ~OutOfBuffer(w, w.FilePos)
    BY <2>1, <2>2, <2>3, ReachFits
  <2>5. Sane(r.b) /\ ~OutOfBuffer(r.b, r.b.FilePos)
    BY <2>1, <2>2, ReachFits
  <2> HIDE DEF w, r
  <2>6. Position(w) \in Slot
    BY <2>4, SizeFacts DEF Sane, BFILE, OutOfBuffer, Position, Slot
  <2>7. r.b.FilePos < r.b.FLength => Position(r.b) \in 0 .. r.b.MBufLen - 1
    <3> SUFFICES ASSUME r.b.FilePos < r.b.FLength
                 PROVE  Position(r.b) \in 0 .. r.b.MBufLen - 1
      OBVIOUS
    <3>1. ~OutOfContents(r.b, r.b.FilePos)
      BY <2>5, InBufferInContents
    <3> QED
      BY <2>5, <3>1 DEF Sane, BFILE, OutOfContents, Position
  <2> QED
    BY <2>6, <2>7 DEF w, r, in, out
<1> QED
  BY <1>1, Invariance, PTL

(* No call on a stream opened for reading changes the file.                *)
THEOREM ReaderNeverWrites == Spec => ReaderWritesNothing
<1>1. Inv /\ [Next]_vars => [s.open /\ s.openmode = "ro" => UNCHANGED disk]_vars
  <2> SUFFICES ASSUME Inv, Next, s.open, s.openmode = "ro"
               PROVE  disk' = disk
    BY DEF vars
  <2>1. /\ Sane(s) /\ disk \in File /\ s.updated
        /\ s.optimize \in Direction /\ "forward" \in Direction
        /\ s.FilePos \in 0 .. MaxLen /\ s.FLength \in 0 .. MaxLen
    BY SaneWhenOpen DEF Direction
  <2>2. \A k \in Accepted : Flush(s, disk, k).d = disk
    BY <2>1 DEF Flush
  <2>3. ASSUME NEW k \in Accepted, NEW dir \in Direction, NEW p \in Int,
               p \in 0 .. MaxLen \/ PastEnd(s, p)
        PROVE  Seek(s, disk, p, dir, k).d = disk
    BY <2>1, <2>3, AcceptedRange, SeekFits
  <2>4. ASSUME NEW k \in Accepted, NEW dir \in Direction
        PROVE  Reach(s, disk, OutOfContents(s, s.FilePos), dir, k).d = disk
    <3> DEFINE out == OutOfContents(s, s.FilePos)
    <3>1. out \in BOOLEAN /\ (OutOfBuffer(s, s.FilePos) => out)
      BY <2>1, SizeFacts DEF OutOfBuffer, OutOfContents, Sane, BFILE
    <3> HIDE DEF out
    <3>2. Reach(s, disk, out, dir, k).d = disk
      BY <2>1, <3>1, AcceptedRange, ReachFits
    <3> QED BY <3>2 DEF out
  <2>5. CASE bioOpen \/ bioReadBuffer \/ bioWriteBuffer \/ bioSetOptimization
    BY <2>5 DEF bioOpen, bioReadBuffer, bioWriteBuffer, bioSetOptimization
  <2>6. CASE bioClose
    BY <2>6 DEF bioClose
  <2>7. CASE bioSeek
    <3> PICK k \in Accepted, from \in {"set", "cur", "end"}, off \in -MaxLen .. MaxLen :
          LET p == Origin(from) + off
          IN  /\ p \in 0 .. Lesser(s.FLength + MaxGap, MaxLen) \/ PastEnd(s, p)
              /\ Return(Seek(s, disk, p, s.optimize, k), <<>>)
      BY <2>7 DEF bioSeek
    <3> DEFINE p == Origin(from) + off
    <3>1. p \in Int
      BY <2>1, SizeFacts DEF Origin
    <3>2. p \in 0 .. MaxLen \/ PastEnd(s, p)
      BY <2>1, CallAssumption, SizeFacts DEF Lesser
    <3>3. disk' = Seek(s, disk, p, s.optimize, k).d
      BY DEF Return
    <3> HIDE DEF p
    <3> QED BY <2>1, <2>3, <3>1, <3>2, <3>3
  <2>8. CASE bioReadByte
    BY <2>1, <2>4, <2>8 DEF bioReadByte
  <2>9. CASE bioWriteByte
    BY <2>9 DEF bioWriteByte
  <2>10. CASE GetBuff
    BY <2>1, <2>4, <2>10 DEF GetBuff
  <2>11. CASE PutBuff
    BY <2>11 DEF PutBuff, Inv, TypeOK
  <2>12. CASE bioFlush
    BY <2>2, <2>12 DEF bioFlush, Return
  <2>13. CASE bioReRead
    <3>1. disk' = Fill([s EXCEPT !.FLength = disk.len], disk, s.FBufStart).d
      BY <2>13 DEF bioReRead, Return
    <3> QED BY <3>1 DEF Fill
  <2>14. CASE bioChSize
    BY <2>14 DEF bioChSize
  <2> QED
    BY <2>5, <2>6, <2>7, <2>8, <2>9, <2>10, <2>11, <2>12, <2>13, <2>14 DEF Next
<1> QED
  BY <1>1, Invariance, PTL DEF Spec, ReaderWritesNothing

-----------------------------------------------------------------------------
(* The byte at offset i, and what a clean window and the length of any     *)
(* window owe to the disk.                                                 *)
At(b, d, i) == IF InWindow(b, i) THEN b.MBuffer[i - b.FBufStart] ELSE d.data[i]

(* A window that was not written to is what the file has there.            *)
Mirrors(b, d) == b.updated => \A i \in Offset : At(b, d, i) = d.data[i]

(* The length: the file's, or as far as a window not yet written reaches.  *)
Tracks(b, d) == b.FLength = IF b.updated \/ b.MBufLen = 0 THEN d.len
                            ELSE Greater(d.len, b.FBufStart + b.MBufLen)

(* What a stream without failing writes keeps of its buffer and file.      *)
Held(b, d) == Sane(b) /\ d \in File /\ Mirrors(b, d) /\ Tracks(b, d)

-----------------------------------------------------------------------------
(* What the stream reads at an offset: the window, or else the file.       *)
LEMMA ViewAt ==
  ASSUME NEW b, NEW d
  PROVE  /\ View(b, d) = [len |-> b.FLength, data |-> [i \in Offset |-> At(b, d, i)]]
         /\ View(b, d).len = b.FLength
         /\ \A i \in Offset : View(b, d).data[i] = At(b, d, i)
BY DEF View, At

(* Two files of one length with the same bytes are the same file.          *)
LEMMA SameFile ==
  ASSUME NEW d \in File, NEW e \in File, d.len = e.len,
         \A i \in Offset : d.data[i] = e.data[i]
  PROVE  d = e
<1>1. d.data \in [Offset -> Cell] /\ e.data \in [Offset -> Cell]
  BY DEF File
<1>2. d.data = e.data
  BY <1>1
<1> QED
  BY <1>2 DEF File

(* A buffer is the record of its fields.                                   *)
LEMMA FieldsOf ==
  ASSUME NEW b, Sane(b)
  PROVE  /\ b \in BFILE /\ b.FilePos \in 0 .. MaxLen /\ b.FLength \in 0 .. MaxLen
         /\ b.FBufStart \in 0 .. MaxLen /\ b.MBufLen \in 0 .. BufSize
         /\ b.MBuffer \in [Slot -> Cell] /\ b.updated \in BOOLEAN
         /\ b.openmode \in {"ro", "rw"}
BY DEF Sane, BFILE

(* The bytes of the window stand at offsets of the file, in slots of it.   *)
LEMMA WindowSlots ==
  ASSUME NEW b, Sane(b), NEW i \in Int, InWindow(b, i)
  PROVE  /\ i \in Offset /\ i - b.FBufStart \in Slot /\ i < b.FLength
         /\ i - b.FBufStart < b.MBufLen
<1>1. /\ b.FLength \in 0 .. MaxLen /\ b.FBufStart \in 0 .. MaxLen
      /\ b.MBufLen \in 0 .. BufSize
      /\ b.MBufLen > 0 => b.FBufStart + b.MBufLen <= b.FLength
  BY FieldsOf DEF Sane, WindowInFile
<1>2. i >= b.FBufStart /\ i <= b.FBufStart + b.MBufLen - 1
  BY <1>1, SizeFacts DEF InWindow
<1> QED
  BY <1>1, <1>2, SizeFacts DEF Offset, Slot

(* What a stream stands for is a file.                                     *)
LEMMA ViewIsFile ==
  ASSUME NEW b, Sane(b), NEW d \in File
  PROVE  View(b, d) \in File
<1>1. \A i \in Offset : At(b, d, i) \in Cell
  <2> SUFFICES ASSUME NEW i \in Offset PROVE At(b, d, i) \in Cell
    OBVIOUS
  <2>1. CASE InWindow(b, i)
    <3>1. i - b.FBufStart \in Slot
      BY <2>1, WindowSlots DEF Offset
    <3>2. b.MBuffer \in [Slot -> Cell]
      BY FieldsOf
    <3> QED BY <2>1, <3>1, <3>2 DEF At
  <2>2. CASE ~InWindow(b, i)
    <3>1. d.data \in [Offset -> Cell]
      BY DEF File
    <3> QED BY <2>2, <3>1 DEF At
  <2> QED BY <2>1, <2>2
<1>2. [i \in Offset |-> At(b, d, i)] \in [Offset -> Cell]
  BY <1>1
<1> QED
  BY <1>2, FieldsOf, ViewAt DEF File

(* A window that owes nothing to the disk shows the disk.                  *)
LEMMA CleanShowsDisk ==
  ASSUME NEW b, NEW d, Held(b, d), b.updated
  PROVE  View(b, d) = d
<1>1. d \in File /\ View(b, d) \in File /\ View(b, d).len = d.len
  BY ViewIsFile, ViewAt DEF Held, Tracks
<1>2. \A i \in Offset : View(b, d).data[i] = d.data[i]
  BY ViewAt DEF Held, Mirrors
<1> QED
  BY <1>1, <1>2, SameFile

(* What is seen is never shorter than what is stored.                      *)
LEMMA ViewCovers ==
  ASSUME NEW b, NEW d, Held(b, d)
  PROVE  d.len \in 0 .. b.FLength /\ b.FLength \in 0 .. MaxLen
<1>1. /\ d.len \in 0 .. MaxLen /\ b.FLength \in 0 .. MaxLen
      /\ b.FBufStart \in 0 .. MaxLen /\ b.MBufLen \in 0 .. BufSize
  BY FieldsOf DEF Held, File
<1> QED
  BY <1>1, SizeFacts DEF Held, Tracks, Greater

-----------------------------------------------------------------------------
(* A full flush stores exactly what is seen, and changes nothing of it.    *)
LEMMA FlushHolds ==
  ASSUME NEW b, NEW d, Held(b, d)
  PROVE  LET r == Flush(b, d, BufSize)
         IN  /\ Held(r.b, r.d) /\ r.b.updated /\ r.ok
             /\ r.d = View(b, d) /\ View(r.b, r.d) = View(b, d)
             /\ r.b.FLength = b.FLength /\ r.b.FBufStart = b.FBufStart
             /\ r.b.MBufLen = b.MBufLen /\ r.b.MBuffer = b.MBuffer
             /\ r.b.FilePos = b.FilePos /\ SameStream(b, r.b)
<1>1. Sane(b) /\ d \in File /\ Mirrors(b, d) /\ Tracks(b, d)
  BY DEF Held
<1>2. CASE b.updated
  <2>1. Flush(b, d, BufSize) = [b |-> b, d |-> d, ok |-> TRUE]
    BY <1>2 DEF Flush
  <2> QED
    BY <1>1, <1>2, <2>1, CleanShowsDisk DEF SameStream
<1>3. CASE ~b.updated
  <2> DEFINE c == [b EXCEPT !.updated = TRUE]
             e == Stored(d, b.FBufStart, b.MBuffer, b.MBufLen)
  <2>1. Lesser(BufSize, b.MBufLen) = b.MBufLen
    BY <1>1, FieldsOf, SizeFacts DEF Lesser
  <2>2. Flush(b, d, BufSize) = [b |-> c, d |-> e, ok |-> TRUE]
    BY <1>3, <2>1 DEF Flush
  <2>3. /\ c.FLength = b.FLength /\ c.FBufStart = b.FBufStart
        /\ c.MBufLen = b.MBufLen /\ c.MBuffer = b.MBuffer
        /\ c.FilePos = b.FilePos /\ c.updated /\ SameStream(b, c)
    BY <1>1, FieldsOf DEF BFILE, SameStream
  <2>4. Sane(c) /\ e \in File
    <3>1. BufSize \in 0 .. BufSize
      BY SizeFacts
    <3> HIDE DEF c, e
    <3>2. Flush(b, d, BufSize).b = c /\ Flush(b, d, BufSize).d = e
      BY <2>2
    <3> QED BY <1>1, <3>1, <3>2, FlushFits
  <2>5. e.len = b.FLength
    BY <1>1, <1>3, FieldsOf DEF Stored, Tracks
  <2>6. \A i \in Offset : e.data[i] = At(b, d, i)
    BY DEF Stored, At, InWindow
  <2>7. e = View(b, d)
    <3> HIDE DEF e
    <3>1. View(b, d) \in File /\ View(b, d).len = e.len
      BY <1>1, <2>5, ViewIsFile, ViewAt
    <3>2. \A i \in Offset : e.data[i] = View(b, d).data[i]
      BY <2>6, ViewAt
    <3> QED BY <2>4, <3>1, <3>2, SameFile
  <2>8. \A i \in Offset : At(c, e, i) = e.data[i]
    BY <2>3, <2>6 DEF At, InWindow
  <2>9. Held(c, e)
    BY <2>3, <2>4, <2>5, <2>8 DEF Held, Mirrors, Tracks
  <2> HIDE DEF c, e
  <2>10. View(c, e) = e
    BY <2>3, <2>9, CleanShowsDisk
  <2> QED
    BY <2>2, <2>3, <2>7, <2>9, <2>10
<1> QED
  BY <1>2, <1>3

(* A fill of a stream that knows the length of the file shows the disk.    *)
LEMMA FillHolds ==
  ASSUME NEW b \in BFILE, NEW d \in File, NEW p \in Int,
         p > b.FLength => b.FBufStart >= b.FLength,
         b.FLength = d.len
  PROVE  LET r == Fill(b, d, p)
         IN  /\ Held(r.b, d) /\ View(r.b, d) = d /\ r.d = d
             /\ SameStream(b, r.b) /\ r.b.FilePos = b.FilePos
             /\ r.b.updated = b.updated
             /\ p <= b.FLength => r.ok
<1> DEFINE r == Fill(b, d, p)
           q == Greater(p, 0)
           n == Lesser(BufSize, b.FLength - q)
<1>1. /\ Sane(r.b) /\ SameStream(b, r.b) /\ r.b.FilePos = b.FilePos
      /\ r.b.updated = b.updated /\ r.d = d
      /\ p <= b.FLength => r.b.FBufStart = q /\ r.b.MBufLen = n
  BY FillFits
<1>2. /\ b.FLength \in 0 .. MaxLen /\ d.len \in 0 .. MaxLen
      /\ q \in Nat /\ (q > b.FLength <=> p > b.FLength)
  BY SizeFacts DEF BFILE, File, Greater
<1>3. \A i \in Offset : At(r.b, d, i) = d.data[i]
  <2> SUFFICES ASSUME NEW i \in Offset, InWindow(r.b, i)
               PROVE  r.b.MBuffer[i - r.b.FBufStart] = d.data[i]
    BY DEF At
  <2>1. CASE q > b.FLength
    <3>1. r.b.MBufLen = 0 /\ r.b.FBufStart = b.FBufStart
      BY <2>1 DEF Fill, BFILE
    <3> QED BY <3>1 DEF InWindow, BFILE
  <2>2. CASE ~(q > b.FLength)
    <3>1. p <= b.FLength
      BY <1>2, <2>2
    <3>2. /\ i - q \in Slot /\ i - q < n /\ q + (i - q) = i /\ i < d.len
      <4> HIDE DEF q, n, r
      <4>1. i - q \in Slot /\ i - q < n /\ i < b.FLength
        BY <1>1, <3>1, WindowSlots, SizeFacts DEF Offset, SameStream
      <4> QED BY <1>2, <4>1 DEF Offset
    <3>3. r.b.MBuffer = [j \in Slot |-> IF j < n /\ q + j < d.len
                                          THEN d.data[q + j] ELSE b.MBuffer[j]]
      BY <2>2 DEF Fill, BFILE
    <3> HIDE DEF q, n, r
    <3>4. r.b.MBuffer[i - q] = d.data[q + (i - q)]
      BY <3>2, <3>3
    <3> QED BY <1>1, <3>1, <3>2, <3>4
  <2> QED BY <2>1, <2>2
<1>4. r.b.FLength = d.len
  BY <1>1 DEF SameStream
<1>5. p <= b.FLength => r.ok
  <2> SUFFICES ASSUME p <= b.FLength PROVE r.ok
    OBVIOUS
  <2>1. ~(q > b.FLength) /\ (n = 0 \/ q + n <= d.len)
    BY <1>2, SizeFacts DEF Lesser
  <2> QED BY <2>1 DEF Fill
<1> HIDE DEF r, q, n
<1>6. Tracks(r.b, d)
  <2>1. /\ r.b.MBufLen > 0 => r.b.FBufStart + r.b.MBufLen <= r.b.FLength
        /\ r.b.FBufStart \in Nat /\ r.b.MBufLen \in Nat
    BY <1>1, FieldsOf, SizeFacts DEF Sane, WindowInFile
  <2> QED BY <1>2, <1>4, <2>1 DEF Tracks, Greater
<1>7. Held(r.b, d)
  BY <1>1, <1>3, <1>6 DEF Held, Mirrors
<1>8. View(r.b, d) = d
  BY <1>1, <1>3, <1>4, ViewIsFile, ViewAt, SameFile
<1> QED
  BY <1>1, <1>5, <1>7, <1>8 DEF r

(* Whatever keeps the window and the length keeps what is seen.            *)
LEMMA SameWindow ==
  ASSUME NEW b, NEW d, Held(b, d), NEW c, Sane(c),
         c.FLength = b.FLength, c.FBufStart = b.FBufStart,
         c.MBufLen = b.MBufLen, c.MBuffer = b.MBuffer, c.updated = b.updated
  PROVE  Held(c, d) /\ View(c, d) = View(b, d)
<1>1. \A i \in Offset : At(c, d, i) = At(b, d, i)
  BY DEF At, InWindow
<1>2. Held(c, d)
  BY <1>1 DEF Held, Mirrors, Tracks
<1> QED
  BY <1>2 DEF View, InWindow

(* An empty window over a clean file shows the file.                       *)
LEMMA EmptyHolds ==
  ASSUME NEW c, NEW d \in File, Sane(c), c.MBufLen = 0, c.FLength = d.len
  PROVE  Held(c, d) /\ View(c, d) = d
<1>1. \A i \in Offset : At(c, d, i) = d.data[i]
  BY FieldsOf DEF At, InWindow, Offset
<1>2. Held(c, d)
  BY <1>1 DEF Held, Mirrors, Tracks
<1> QED
  BY <1>1, <1>2, ViewIsFile, ViewAt, SameFile

(* __seek stores, if anything, what is seen, and shows the same file.      *)
LEMMA SeekHolds ==
  ASSUME NEW b, NEW d, Held(b, d), NEW p \in Int,
         p \in 0 .. MaxLen \/ PastEnd(b, p), NEW dir \in Direction
  PROVE  LET r == Seek(b, d, p, dir, BufSize)
         IN  /\ Held(r.b, r.d)
             /\ View(r.b, r.d) = View(b, d)
             /\ r.d \in {d, View(b, d)}
             /\ r.ok => ~PastEnd(b, p)
<1> DEFINE past  == PastEnd(b, p)
           moved == CheckEof([b EXCEPT !.FilePos = p])
           q     == moved.FilePos
           f     == Flush(moved, d, BufSize)
           r     == Fill(f.b, f.d, q - Shift(dir))
           end   == [f.b EXCEPT !.FBufStart = q, !.MBufLen = 0]
           no    == ~past
           all   == Seek(b, d, p, dir, BufSize)
<1>0. /\ Sane(b) /\ b.FLength \in 0 .. MaxLen /\ BufSize \in 0 .. BufSize
  BY FieldsOf, SizeFacts DEF Held
<1>1. /\ Sane(moved) /\ SameStream(b, moved)
      /\ q = IF past THEN b.FLength - 1 ELSE p
      /\ moved.FBufStart = b.FBufStart /\ moved.updated = b.updated
      /\ moved.MBufLen = b.MBufLen /\ moved.MBuffer = b.MBuffer
  BY <1>0, CheckEofFits
<1>2. q \in 0 .. MaxLen /\ moved.FLength = b.FLength
  BY <1>0, <1>1, SizeFacts DEF SameStream, PastEnd
<1>3. all = IF ~OutOfBuffer(b, q) THEN [b |-> moved, d |-> d, ok |-> no]
            ELSE IF q < b.FLength THEN [r EXCEPT !.ok = no /\ r.ok]
            ELSE [b |-> end, d |-> f.d, ok |-> no]
  BY DEF Seek
<1> HIDE DEF moved, q, no, past
<1>4. Held(moved, d) /\ View(moved, d) = View(b, d)
  BY <1>1, <1>2, SameWindow
<1>5. /\ Held(f.b, f.d) /\ f.b.updated /\ f.d = View(b, d) /\ f.d \in File
      /\ f.b.FLength = b.FLength /\ f.d.len = b.FLength /\ f.b \in BFILE
      /\ View(f.b, f.d) = View(b, d) /\ Sane(f.b)
  <2>1. /\ Held(f.b, f.d) /\ f.b.updated /\ f.d = View(b, d)
        /\ View(f.b, f.d) = View(b, d) /\ f.b.FLength = b.FLength
    BY <1>2, <1>4, FlushHolds
  <2> HIDE DEF f
  <2> QED BY <2>1 DEF Held, Tracks, Sane
<1> HIDE DEF f
<1>6. CASE ~OutOfBuffer(b, q)
  <2>1. all = [b |-> moved, d |-> d, ok |-> no]
    BY <1>3, <1>6
  <2>2. all.b = moved /\ all.d = d /\ all.ok = no
    BY <2>1
  <2> QED
    BY <1>4, <2>2 DEF past, no
<1>7. CASE OutOfBuffer(b, q) /\ q < b.FLength
  <2> DEFINE z == q - Shift(dir)
  <2>1. z \in Int /\ ~(z > f.b.FLength)
    BY <1>0, <1>2, <1>5, <1>7, ShiftRange, SizeFacts
  <2>2. r = Fill(f.b, f.d, z)
    OBVIOUS
  <2>3. all = [r EXCEPT !.ok = no /\ r.ok]
    BY <1>3, <1>7
  <2>4. r = [b |-> r.b, d |-> r.d, ok |-> r.ok]
    BY DEF Fill
  <2> HIDE DEF z, r
  <2>5. Held(r.b, f.d) /\ View(r.b, f.d) = f.d /\ r.d = f.d
    BY <1>5, <2>1, <2>2, FillHolds
  <2>6. all.b = r.b /\ all.d = r.d /\ (all.ok => no)
    BY <2>3, <2>4
  <2> QED
    BY <1>5, <2>5, <2>6 DEF past, no
<1>8. CASE OutOfBuffer(b, q) /\ ~(q < b.FLength)
  <2>1. all = [b |-> end, d |-> f.d, ok |-> no]
    BY <1>3, <1>8
  <2>2. /\ Sane(end) /\ SameStream(f.b, end) /\ end.MBufLen = 0
    <3>1. f.b.FLength <= q
      BY <1>0, <1>2, <1>5, <1>8
    <3> QED BY <1>2, <1>5, <3>1, EmptyFits
  <2> HIDE DEF end
  <2>3. all.b = end /\ all.d = f.d /\ all.ok = no
    BY <2>1
  <2>4. end.FLength = f.d.len
    BY <1>5, <2>2 DEF SameStream
  <2> QED
    BY <1>5, <2>2, <2>3, <2>4, EmptyHolds DEF past, no
<1> QED
  BY <1>6, <1>7, <1>8

(* Moving the window keeps what the stream stands for.                     *)
LEMMA ReachHolds ==
  ASSUME NEW b, NEW d, Held(b, d), NEW elsewhere \in BOOLEAN, NEW dir \in Direction
  PROVE  LET r == Reach(b, d, elsewhere, dir, BufSize)
         IN  /\ Held(r.b, r.d)
             /\ View(r.b, r.d) = View(b, d)
             /\ r.d \in {d, View(b, d)}
             /\ elsewhere /\ r.ok => ~PastEnd(b, b.FilePos)
<1>1. b.FilePos \in Int /\ b.FilePos \in 0 .. MaxLen
  BY FieldsOf, SizeFacts DEF Held
<1>2. CASE elsewhere
  <2>1. Reach(b, d, elsewhere, dir, BufSize) = Seek(b, d, b.FilePos, dir, BufSize)
    BY <1>2 DEF Reach
  <2> QED BY <1>1, <2>1, SeekHolds
<1>3. CASE ~elsewhere
  BY <1>3 DEF Reach
<1> QED
  BY <1>2, <1>3

(* Bytes put into the window at the position appear at the position, and   *)
(* nothing else of the file that is seen changes.                          *)
LEMMA PutHolds ==
  ASSUME NEW b, NEW d, Held(b, d), ~OutOfBuffer(b, b.FilePos),
         NEW bytes \in Seq(Byte), NEW n \in 1 .. Len(bytes),
         Position(b) + n <= BufSize, b.FilePos + n <= MaxLen
  PROVE  LET c == Put(b, bytes, n)
         IN  /\ Held(c, d)
             /\ c.FLength = Greater(b.FLength, b.FilePos + n)
             /\ \A i \in 0 .. n - 1 :
                  b.FilePos + i \in Offset /\ At(c, d, b.FilePos + i) = bytes[i + 1]
             /\ \A i \in Offset : i < b.FLength /\ i \notin b.FilePos .. b.FilePos + n - 1
                                    => At(c, d, i) = At(b, d, i)
<1> DEFINE c == Put(b, bytes, n)
           at == Position(b)
           m  == Greater(b.MBufLen, at + n)
           buff == [i \in Slot |-> IF i \in at .. at + n - 1
                                     THEN bytes[i - at + 1] ELSE b.MBuffer[i]]
<1>1. Sane(b) /\ d \in File /\ Tracks(b, d) /\ b \in BFILE
      /\ WindowInFile(b) /\ WindowFull(b)
  BY DEF Held, Sane
<1>2. /\ b.FilePos \in Nat /\ b.FLength \in Nat /\ b.FBufStart \in Nat
      /\ b.MBufLen \in 0 .. BufSize /\ n \in Nat /\ n > 0 /\ Len(bytes) \in Nat
      /\ MaxLen \in Nat /\ BufSize \in Nat /\ d.len \in Nat
  BY <1>1, FieldsOf, SizeFacts DEF File
<1>3. /\ at \in 0 .. BufSize - 1 /\ b.FilePos = b.FBufStart + at
  BY <1>2 DEF OutOfBuffer, Position
<1>4. /\ Sane(c)
  BY <1>1, PutFits
<1>5. /\ c.FLength = Greater(b.FLength, b.FilePos + n) /\ c.MBufLen = m
      /\ c.FBufStart = b.FBufStart /\ c.updated = FALSE /\ c.MBuffer = buff
  BY <1>1 DEF Put, BFILE
<1> HIDE DEF c, at, buff, m
<1>6. m \in Nat /\ m >= b.MBufLen /\ m >= at + n /\ m \in {b.MBufLen, at + n}
  BY <1>2, <1>3 DEF Greater, m
<1>7. Tracks(c, d)
  <2>1. c.FLength = Greater(d.len, b.FBufStart + m)
    <3>1. b.MBufLen > 0 => b.FBufStart + b.MBufLen <= b.FLength
      BY <1>1, <1>2 DEF WindowInFile
    <3>2. b.FLength = d.len \/ b.FLength = Greater(d.len, b.FBufStart + b.MBufLen)
      BY <1>1 DEF Tracks
    <3>3. at + n \in Nat \ {0} /\ b.FilePos + n = b.FBufStart + (at + n) /\ b.MBufLen \in Nat
      BY <1>2, <1>3
    <3>4. Greater(b.FLength, b.FBufStart + (at + n))
            = Greater(d.len, b.FBufStart + Greater(b.MBufLen, at + n))
      <4> DEFINE len == b.FLength
                 stored == d.len
                 start == b.FBufStart
                 used == b.MBufLen
                 top == at + n
      <4>1. /\ len \in Nat /\ stored \in Nat /\ start \in Nat /\ used \in Nat
            /\ top \in Nat \ {0} /\ (used > 0 => start + used <= len)
            /\ len = stored \/ len = Greater(stored, start + used)
        BY <1>2, <3>1, <3>2, <3>3
      <4> HIDE DEF len, stored, start, used, top
      <4>2. Greater(len, start + top) = Greater(stored, start + Greater(used, top))
        BY <4>1 DEF Greater
      <4> QED BY <4>2 DEF len, stored, start, used, top
    <3>5. c.FLength = Greater(b.FLength, b.FBufStart + (at + n))
      BY <1>5, <3>3
    <3> QED BY <3>4, <3>5 DEF m
  <2>2. c.MBufLen # 0 /\ c.updated = FALSE
    BY <1>2, <1>3, <1>5, <1>6
  <2> QED BY <1>5, <2>1, <2>2 DEF Tracks
<1>8. Held(c, d)
  BY <1>1, <1>4, <1>5, <1>7 DEF Held, Mirrors
<1>9. ASSUME NEW i \in 0 .. n - 1
      PROVE  b.FilePos + i \in Offset /\ At(c, d, b.FilePos + i) = bytes[i + 1]
  <2>1. b.FilePos + i \in Offset
    BY <1>2 DEF Offset
  <2>0. i \in Nat /\ i < n /\ at \in Nat /\ at + n <= BufSize
    BY <1>2, <1>3 DEF at
  <2>2. InWindow(c, b.FilePos + i) /\ (b.FilePos + i) - c.FBufStart = at + i
    <3>1. b.FilePos + i = b.FBufStart + at + i /\ at + i < m
      BY <1>2, <1>3, <1>6, <2>0
    <3>2. /\ b.FilePos + i >= b.FBufStart /\ b.FilePos + i <= b.FBufStart + m - 1
          /\ (b.FilePos + i) - b.FBufStart = at + i
      BY <1>2, <1>6, <2>0, <3>1
    <3>3. b.FilePos + i \in b.FBufStart .. b.FBufStart + m - 1
      BY <1>2, <1>6, <2>0, <3>2
    <3> QED BY <1>5, <3>2, <3>3 DEF InWindow
  <2>3. at + i \in Slot /\ at + i \in at .. at + n - 1 /\ (at + i) - at + 1 = i + 1
    BY <1>2, <2>0 DEF Slot
  <2>4. c.MBuffer[at + i] = bytes[i + 1]
    BY <1>5, <2>3 DEF buff
  <2> QED BY <2>1, <2>2, <2>4 DEF At
<1>10. ASSUME NEW i \in Offset, i < b.FLength, i \notin b.FilePos .. b.FilePos + n - 1
       PROVE  At(c, d, i) = At(b, d, i)
  <2>0. i \in Int
    BY <1>2 DEF Offset
  <2>1. InWindow(c, i) => InWindow(b, i)
    <3> SUFFICES ASSUME InWindow(c, i) PROVE InWindow(b, i)
      OBVIOUS
    <3>1. i \in b.FBufStart .. b.FBufStart + m - 1 /\ i < c.FBufStart + BufSize
      BY <1>2, <1>4, <1>5, FieldsOf, SizeFacts DEF InWindow
    <3>2. b.FBufStart + b.MBufLen >= Lesser(b.FBufStart + BufSize, b.FLength)
      BY <1>1 DEF WindowFull
    <3> QED BY <1>2, <1>5, <1>10, <2>0, <3>1, <3>2 DEF InWindow, Lesser
  <2>2. InWindow(b, i) => InWindow(c, i)
    BY <1>2, <1>5, <1>6, <2>0 DEF InWindow
  <2>3. InWindow(b, i) => c.MBuffer[i - c.FBufStart] = b.MBuffer[i - b.FBufStart]
    <3> SUFFICES ASSUME InWindow(b, i)
                 PROVE  c.MBuffer[i - b.FBufStart] = b.MBuffer[i - b.FBufStart]
      BY <1>5
    <3>1. i - b.FBufStart \in Slot
      BY <1>1, <2>0, WindowSlots
    <3>2. i - b.FBufStart \notin at .. at + n - 1
      BY <1>2, <1>3, <1>10, <2>0
    <3> QED BY <1>5, <3>1, <3>2 DEF buff
  <2> QED BY <2>1, <2>2, <2>3 DEF At
<1> QED
  BY <1>5, <1>8, <1>9, <1>10 DEF c

(* Cutting the file cuts what is seen of it.                               *)
LEMMA ShrunkHolds ==
  ASSUME NEW b, NEW d, Held(b, d), NEW n \in 0 .. MaxLen, n <= b.FLength
  PROVE  LET c == Shrunk(b, n)
             e == Truncated(d, n)
         IN  Held(c, e) /\ View(c, e) = Truncated(View(b, d), n)
<1> DEFINE c == Shrunk(b, n)
           e == Truncated(d, n)
           m == IF b.FBufStart > n THEN 0 ELSE Lesser(b.MBufLen, n - b.FBufStart)
<1>1. Sane(b) /\ d \in File /\ b \in BFILE /\ Sane(c) /\ e \in File
  BY ShrunkFits, TruncatedIsFile DEF Held, Sane
<1>2. /\ b.FLength \in Nat /\ b.FBufStart \in Nat /\ b.MBufLen \in 0 .. BufSize
      /\ n \in Nat /\ MaxLen \in Nat /\ BufSize \in Nat
  BY <1>1, FieldsOf, SizeFacts
<1>3. /\ c.FLength = n /\ c.FBufStart = Lesser(b.FBufStart, n) /\ c.MBufLen = m
      /\ c.MBuffer = b.MBuffer /\ c.updated = b.updated
  BY <1>1 DEF Shrunk, BFILE
<1>4. /\ e.len = n
      /\ \A i \in Offset : e.data[i] = IF i < n THEN d.data[i] ELSE Zero
  BY DEF Truncated
<1> HIDE DEF c, e
<1>5. ASSUME NEW i \in Offset
      PROVE  At(c, e, i) = IF i < n THEN At(b, d, i) ELSE Zero
  <2>0. i \in Int
    BY <1>2 DEF Offset
  <2>1. InWindow(c, i) <=> InWindow(b, i) /\ i < n
    BY <1>2, <1>3, <2>0 DEF InWindow, Lesser
  <2>2. InWindow(c, i) => c.FBufStart = b.FBufStart
    BY <1>2, <1>3, <2>0 DEF InWindow, Lesser
  <2> QED BY <1>3, <1>4, <2>1, <2>2 DEF At
<1>6. Mirrors(c, e)
  <2> SUFFICES ASSUME c.updated, NEW i \in Offset PROVE At(c, e, i) = e.data[i]
    BY DEF Mirrors
  <2>1. At(b, d, i) = d.data[i]
    BY <1>3 DEF Held, Mirrors
  <2> QED BY <1>4, <1>5, <2>1
<1>7. Tracks(c, e)
  <2>1. c.MBufLen # 0 => c.FBufStart + c.MBufLen <= n
    BY <1>2, <1>3 DEF Lesser
  <2>2. c.FBufStart \in Nat /\ c.MBufLen \in Nat
    BY <1>1, FieldsOf, SizeFacts
  <2> QED BY <1>2, <1>3, <1>4, <2>1, <2>2 DEF Tracks, Greater
<1>8. Held(c, e)
  BY <1>1, <1>6, <1>7 DEF Held
<1>9. View(c, e) = Truncated(View(b, d), n)
  <2>1. /\ View(c, e) = [len |-> n, data |-> [i \in Offset |-> At(c, e, i)]]
        /\ \A i \in Offset : View(b, d).data[i] = At(b, d, i)
    BY <1>3, ViewAt
  <2>2. Truncated(View(b, d), n) =
          [len |-> n, data |-> [i \in Offset |-> IF i < n THEN At(b, d, i) ELSE Zero]]
    BY <2>1 DEF Truncated
  <2> QED BY <1>5, <2>1, <2>2
<1> QED
  BY <1>8, <1>9 DEF c, e

-----------------------------------------------------------------------------
(* The inductive invariant of a stream whose writes succeed.               *)
Known == /\ Inv
         /\ s.open => Held(s, disk)
         /\ call.op # "write" => call.rest = <<>>

(* An open stream keeps buffer and file together.                          *)
LEMMA KnownOpen ==
  ASSUME Known, s.open
  PROVE  /\ Sane(s) /\ Held(s, disk) /\ disk \in File /\ call \in Call
         /\ Contents = View(s, disk) /\ Contents \in File
         /\ Contents.len = s.FLength /\ disk.len \in 0 .. s.FLength
         /\ s.FilePos \in 0 .. MaxLen /\ s.FLength \in 0 .. MaxLen
         /\ s.optimize \in Direction
<1>1. Held(s, disk) /\ Inv /\ call \in Call /\ Contents = View(s, disk)
  BY DEF Known, Contents, Inv, TypeOK
<1> QED
  BY <1>1, SaneWhenOpen, ViewIsFile, ViewAt, ViewCovers

(* The invariant holds before bioOpen.                                     *)
LEMMA KnownInit == Init => Known
<1> SUFFICES ASSUME Init PROVE Known
  OBVIOUS
<1>1. s.open = FALSE /\ call.rest = <<>>
  BY DEF Init, NoStream, Returned
<1> QED
  BY <1>1, InitInv DEF Known

(* What a step may do to the disk: nothing, or bring it up to date.        *)
LEMMA BackFits ==
  ASSUME NEW c \in File, NEW d \in File, d.len <= c.len, NEW e \in {d, c}
  PROVE  /\ e.len \in d.len .. c.len
         /\ \A i \in Offset : e.data[i] \in {d.data[i], c.data[i]}
<1>1. c.len \in 0 .. MaxLen /\ d.len \in 0 .. MaxLen
  BY DEF File
<1> QED
  BY <1>1, SizeFacts

(* A file brought up to date is a write-back of the abstract stream.       *)
LEMMA StepWritesBack ==
  ASSUME Contents \in File, disk \in File, disk.len <= Contents.len,
         disk' \in {disk, Contents}
  PROVE  Stream!WriteBack
<1>1. /\ disk'.len \in disk.len .. Contents.len
      /\ \A i \in Offset : disk'.data[i] \in {disk.data[i], Contents.data[i]}
  BY BackFits
<1> QED
  BY <1>1 DEF Stream!WriteBack, Stream!Offset, Offset

(* A step that answers and leaves what is seen as it was.                  *)
LEMMA QuietStep ==
  ASSUME Known, Inv', s.open, s'.open, Held(s', disk'),
         View(s', disk') = View(s, disk), disk' \in {disk, View(s, disk)},
         call'.rest = <<>>, call'.got \in {<<>>, <<NoByte>>, call.got}
  PROVE  Known' /\ Stream!Next
<1>1. Contents' = Contents /\ disk' \in {disk, Contents}
  BY DEF Contents
<1>2. Stream!WriteBack
  BY <1>1, KnownOpen, StepWritesBack
<1>3. s'.FilePos \in Nat
  BY SizeFacts DEF Held, Sane, BFILE
<1>4. Stream!Move
  BY <1>1, <1>2, <1>3 DEF Stream!Move
<1> QED
  BY <1>4 DEF Known, Stream!Next

(* A step that delivers bytes of what is seen.                             *)
LEMMA ReadStep ==
  ASSUME Known, Inv', s.open, s'.open, Held(s', disk'),
         View(s', disk') = View(s, disk), disk' \in {disk, View(s, disk)},
         call.op # "write", call'.rest = <<>>,
         NEW n \in Nat \ {0}, s.FilePos + n <= s.FLength,
         NEW chunk, chunk = [i \in 1 .. n |-> At(s, disk, s.FilePos + i - 1)],
         call'.got \in {chunk, call.got \o chunk},
         \/ s'.FilePos = s.FilePos + n
         \/ s.FilePos + n = s.FLength /\ s'.FilePos = s.FLength - 1
  PROVE  Known' /\ Stream!Next
<1>1. Contents' = Contents /\ disk' \in {disk, Contents} /\ call.rest = <<>>
  BY DEF Contents, Known
<1>2. Stream!WriteBack
  BY <1>1, KnownOpen, StepWritesBack
<1>3. n \in 1 .. MaxLen /\ s.FilePos + n <= Contents.len
  BY KnownOpen, SizeFacts
<1>4. chunk = [i \in 1 .. n |-> Contents.data[s.FilePos + i - 1]]
  <2>1. \A i \in 1 .. n : s.FilePos + i - 1 \in Offset
    BY KnownOpen, SizeFacts DEF Offset
  <2>2. \A i \in Offset : Contents.data[i] = At(s, disk, i)
    BY KnownOpen, ViewAt
  <2> QED BY <2>1, <2>2
<1>5. Stream!ReadSome
  BY <1>1, <1>2, <1>3, <1>4, KnownOpen DEF Stream!ReadSome
<1> QED
  BY <1>5 DEF Known, Stream!Next

(* A step that puts bytes into what is seen.                               *)
LEMMA WriteStep ==
  ASSUME Known, s.open, NEW b, Held(b, disk'), View(b, disk') = View(s, disk),
         disk' \in {disk, View(s, disk)}, b.open, b.FilePos = s.FilePos,
         ~OutOfBuffer(b, b.FilePos), NEW bytes \in Seq(Byte), NEW n \in 1 .. Len(bytes),
         Position(b) + n <= BufSize, b.FilePos + n <= MaxLen, s' = Put(b, bytes, n)
  PROVE  /\ s'.open /\ Held(s', disk') /\ Stream!WriteOf(bytes, n)
<1>1. /\ Held(s', disk') /\ s'.FLength = Greater(b.FLength, b.FilePos + n)
      /\ \A i \in 0 .. n - 1 : b.FilePos + i \in Offset
                               /\ At(s', disk', b.FilePos + i) = bytes[i + 1]
      /\ \A i \in Offset : i < b.FLength /\ i \notin b.FilePos .. b.FilePos + n - 1
                             => At(s', disk', i) = At(b, disk', i)
  BY PutHolds
<1>2. s'.open /\ s'.FilePos = s.FilePos + n
  BY PutFits DEF Held
<1>3. /\ Contents' = View(s', disk') /\ Contents'.len = s'.FLength
      /\ \A i \in Offset : Contents'.data[i] = At(s', disk', i)
  BY <1>2, ViewAt DEF Contents
<1>4. /\ Contents.len = b.FLength
      /\ \A i \in Offset : Contents.data[i] = At(b, disk', i)
  BY ViewAt DEF Contents
<1>5. Stream!WriteBack
  BY KnownOpen, StepWritesBack
<1>6. Contents'.len = IF Contents.len < s.FilePos + n THEN s.FilePos + n ELSE Contents.len
  BY <1>1, <1>3, <1>4 DEF Greater
<1>7. \A i \in 0 .. n - 1 : Contents'.data[s.FilePos + i] = bytes[i + 1]
  BY <1>1, <1>3
<1>8. \A i \in Offset : i < Contents.len /\ i \notin s.FilePos .. s.FilePos + n - 1
                          => Contents'.data[i] = Contents.data[i]
  BY <1>1, <1>3, <1>4
<1> QED
  BY <1>1, <1>2, <1>5, <1>6, <1>7, <1>8
     DEF Stream!WriteOf, Stream!Offset, Offset

-----------------------------------------------------------------------------
(* No write fails: the whole of a window is accepted.                      *)
LEMMA FullWrites ==
  ASSUME Faults = FALSE
  PROVE  Accepted = {BufSize}
BY DEF Accepted

(* bioOpen is the opening of the abstract stream.                          *)
LEMMA OpenStep ==
  ASSUME Known, Inv', bioOpen
  PROVE  Known' /\ Stream!Next
<1> PICK m \in Modes :
      /\ ~s.open
      /\ s' = Fill([NoStream EXCEPT !.open = TRUE, !.openmode = m,
                                    !.FLength = disk.len], disk, 0).b
      /\ call' = Returned(TRUE, <<>>)
      /\ disk' = disk
  BY DEF bioOpen
<1> DEFINE b == [NoStream EXCEPT !.open = TRUE, !.openmode = m, !.FLength = disk.len]
<1>1. disk \in File /\ disk.len \in 0 .. MaxLen /\ m \in {"ro", "rw"}
  BY CallAssumption DEF Known, Inv, TypeOK, File
<1>2. b \in BFILE /\ b.FLength = disk.len /\ b.open
  BY <1>1, NoStreamIsBFILE DEF BFILE
<1> HIDE DEF b
<1>3. /\ Held(s', disk) /\ View(s', disk) = disk /\ s'.open
      /\ s'.FilePos \in Nat
  <2>1. 0 \in Int /\ ~(0 > b.FLength)
    BY <1>1, <1>2
  <2>2. s' = Fill(b, disk, 0).b
    BY DEF b
  <2>3. Held(s', disk) /\ View(s', disk) = disk /\ SameStream(b, s')
    BY <1>1, <1>2, <2>1, <2>2, FillHolds
  <2>4. s'.open
    BY <1>2, <2>3 DEF SameStream
  <2>5. s'.FilePos \in Nat
    BY <2>3, SizeFacts DEF Held, Sane, BFILE
  <2> QED BY <2>3, <2>4, <2>5
<1>4. Contents = disk /\ Contents' = disk
  BY <1>3 DEF Contents
<1>5. call'.rest = <<>> /\ call'.got = <<>>
  BY DEF Returned
<1>6. Stream!WriteBack
  BY <1>1, <1>4, StepWritesBack
<1>7. Stream!Move
  BY <1>3, <1>4, <1>5, <1>6 DEF Stream!Move
<1> QED
  BY <1>3, <1>5, <1>7 DEF Known, Stream!Next

(* bioClose leaves in the file what the abstract stream has.               *)
LEMMA CloseStep ==
  ASSUME Faults = FALSE, Known, Inv', bioClose
  PROVE  Known' /\ Stream!Next
<1>1. /\ s.open
      /\ disk' = IF s.openmode = "rw" THEN Flush(s, disk, BufSize).d ELSE disk
      /\ s' = NoStream
      /\ call' = Returned(TRUE, <<>>)
  BY FullWrites DEF bioClose, Ready
<1>2. /\ Held(s, disk) /\ Contents = View(s, disk) /\ Contents \in File
      /\ disk \in File /\ disk.len <= Contents.len
      /\ s.openmode = "ro" => s.updated
      /\ s.openmode \in {"ro", "rw"}
  BY <1>1, KnownOpen, SaneWhenOpen, SizeFacts DEF Known
<1>3. disk' = View(s, disk)
  BY <1>1, <1>2, FlushHolds, CleanShowsDisk
<1>4. Contents' = Contents /\ disk' = Contents /\ ~s'.open /\ s'.FilePos = 0
  BY <1>1, <1>2, <1>3 DEF Contents, NoStream
<1>5. call'.rest = <<>> /\ call'.got = <<>>
  BY <1>1 DEF Returned
<1>6. Stream!WriteBack
  BY <1>2, <1>4, StepWritesBack
<1>7. Stream!Move
  BY <1>4, <1>5, <1>6 DEF Stream!Move
<1> QED
  BY <1>4, <1>5, <1>7 DEF Known, Stream!Next

(* bioSeek moves the position and nothing else.                            *)
LEMMA SeekStep ==
  ASSUME Faults = FALSE, Known, Inv', bioSeek
  PROVE  Known' /\ Stream!Next
<1> PICK from \in {"set", "cur", "end"}, off \in -MaxLen .. MaxLen :
      LET p == Origin(from) + off
      IN  /\ Ready
          /\ p \in 0 .. Lesser(s.FLength + MaxGap, MaxLen) \/ PastEnd(s, p)
          /\ Return(Seek(s, disk, p, s.optimize, BufSize), <<>>)
  BY FullWrites DEF bioSeek
<1> DEFINE p == Origin(from) + off
           r == Seek(s, disk, p, s.optimize, BufSize)
<1>1. s.open
  BY DEF Ready
<1>2. /\ Held(s, disk) /\ Sane(s) /\ s.optimize \in Direction /\ disk \in File
      /\ s.FilePos \in 0 .. MaxLen /\ s.FLength \in 0 .. MaxLen
  BY <1>1, KnownOpen
<1>3. p \in Int /\ (p \in 0 .. MaxLen \/ PastEnd(s, p))
  BY <1>2, CallAssumption, SizeFacts DEF Origin, Lesser
<1>4. s' = r.b /\ disk' = r.d /\ call'.rest = <<>> /\ call'.got = <<>>
  BY DEF Return, Returned
<1> HIDE DEF p
<1>5. /\ Held(r.b, r.d) /\ View(r.b, r.d) = View(s, disk)
      /\ r.d \in {disk, View(s, disk)}
  BY <1>2, <1>3, SeekHolds
<1>6. r.b.open
  <2>1. BufSize \in 0 .. BufSize
    BY SizeFacts
  <2> QED BY <1>1, <1>2, <1>3, <2>1, SeekFits DEF SameStream
<1> HIDE DEF r
<1> QED
  BY <1>1, <1>4, <1>5, <1>6, QuietStep

(* Bringing the window to the position, for a read.                        *)
LEMMA ReachForRead ==
  ASSUME Known, s.open, NEW dir \in Direction
  PROVE  LET out == OutOfContents(s, s.FilePos)
             r   == Reach(s, disk, out, dir, BufSize)
         IN  /\ Held(r.b, r.d) /\ Sane(r.b) /\ SameStream(s, r.b) /\ r.b.open
             /\ View(r.b, r.d) = View(s, disk)
             /\ r.d \in {disk, View(s, disk)}
             /\ r.b.FilePos \in {s.FilePos, s.FLength - 1}
             /\ ~OutOfBuffer(r.b, r.b.FilePos)
             /\ r.ok \in BOOLEAN
             /\ r.ok => r.b.FilePos = s.FilePos
             /\ ~out => r.b = s
<1> DEFINE out == OutOfContents(s, s.FilePos)
           r   == Reach(s, disk, out, dir, BufSize)
<1>1. /\ Held(s, disk) /\ Sane(s) /\ disk \in File
      /\ s.FilePos \in 0 .. MaxLen
  BY KnownOpen
<1>2. /\ out \in BOOLEAN /\ (OutOfBuffer(s, s.FilePos) => out)
      /\ BufSize \in 0 .. BufSize
  BY <1>1, SizeFacts DEF OutOfBuffer, OutOfContents, Sane, BFILE
<1>3. r = IF out THEN Seek(s, disk, s.FilePos, dir, BufSize)
                 ELSE [b |-> s, d |-> disk, ok |-> TRUE]
  BY DEF Reach
<1> HIDE DEF out
<1>4. /\ Held(r.b, r.d) /\ View(r.b, r.d) = View(s, disk)
      /\ r.d \in {disk, View(s, disk)}
      /\ out /\ r.ok => ~PastEnd(s, s.FilePos)
  BY <1>1, <1>2, ReachHolds
<1>5. /\ Sane(r.b) /\ SameStream(s, r.b)
      /\ r.b.FilePos \in {s.FilePos, s.FLength - 1}
      /\ ~OutOfBuffer(r.b, r.b.FilePos) /\ r.ok \in BOOLEAN
  BY <1>1, <1>2, ReachFits
<1>6. ~out => r.b = s
  BY <1>3
<1>7. r.ok => r.b.FilePos = s.FilePos
  <2>1. CASE out
    <3>1. s.FilePos \in Int
      BY <1>1, SizeFacts
    <3>2. r.b.FilePos = IF PastEnd(s, s.FilePos) THEN s.FLength - 1 ELSE s.FilePos
      BY <1>1, <1>2, <1>3, <2>1, <3>1, SeekFits
    <3> QED BY <1>4, <2>1, <3>2
  <2>2. CASE ~out
    BY <1>6, <2>2
  <2> QED BY <1>2, <2>1, <2>2
<1> HIDE DEF r
<1> QED
  BY <1>4, <1>5, <1>6, <1>7 DEF SameStream, r, out

(* A byte the window holds at the position is the byte that is seen there. *)
LEMMA WindowByte ==
  ASSUME NEW b, NEW d, Sane(b), NEW j \in Nat,
         Position(b) \in Nat, Position(b) + j < b.MBufLen
  PROVE  /\ b.FilePos + j < b.FLength
         /\ b.FilePos + j \in Offset
         /\ Position(b) + j \in Slot
         /\ At(b, d, b.FilePos + j) = b.MBuffer[Position(b) + j]
<1>1. /\ b.FilePos \in 0 .. MaxLen /\ b.FBufStart \in 0 .. MaxLen
      /\ b.MBufLen \in 0 .. BufSize
  BY FieldsOf
<1>2. (b.FilePos + j) - b.FBufStart = Position(b) + j
  BY <1>1, SizeFacts DEF Position
<1>3. InWindow(b, b.FilePos + j) /\ b.FilePos + j \in Int
  BY <1>1, <1>2, SizeFacts DEF InWindow, Position
<1> QED
  BY <1>1, <1>2, <1>3, WindowSlots, SizeFacts DEF At, Slot

(* bioReadByte gives the byte of the abstract stream.                      *)
LEMMA ReadByteStep ==
  ASSUME Faults = FALSE, Known, Inv', bioReadByte
  PROVE  Known' /\ Stream!Next
<1> PICK k \in Accepted :
      LET r   == Reach(s, disk, OutOfContents(s, s.FilePos), s.optimize, k)
          b   == r.b
          hit == b.MBufLen > 0 /\ r.ok /\ b.FilePos <= b.FLength
          ch  == IF hit /\ Position(b) \in 0 .. b.MBufLen - 1
                   THEN b.MBuffer[Position(b)] ELSE NoByte
          end == CheckEof([b EXCEPT !.FilePos = Lesser(b.FilePos + 1, b.FLength)])
      IN  /\ Ready
          /\ s' = IF hit THEN end ELSE b
          /\ disk' = r.d
          /\ call' = Returned(hit, <<ch>>)
  BY DEF bioReadByte
<1>0. k = BufSize
  BY FullWrites
<1> DEFINE out == OutOfContents(s, s.FilePos)
           r   == Reach(s, disk, out, s.optimize, BufSize)
           b   == r.b
           hit == b.MBufLen > 0 /\ r.ok /\ b.FilePos <= b.FLength
           ch  == IF hit /\ Position(b) \in 0 .. b.MBufLen - 1
                    THEN b.MBuffer[Position(b)] ELSE NoByte
           p   == Lesser(b.FilePos + 1, b.FLength)
           end == CheckEof([b EXCEPT !.FilePos = p])
<1>1. /\ s.open /\ call.op = "idle" /\ s' = (IF hit THEN end ELSE b) /\ disk' = r.d
      /\ call'.rest = <<>> /\ call'.got = <<ch>>
  BY <1>0 DEF Ready, Returned
<1>2. s.optimize \in Direction /\ s.FLength \in 0 .. MaxLen /\ s.FilePos \in 0 .. MaxLen
  BY <1>1, KnownOpen
<1>3. /\ Held(b, r.d) /\ Sane(b) /\ SameStream(s, b) /\ b.open
      /\ View(b, r.d) = View(s, disk) /\ r.d \in {disk, View(s, disk)}
      /\ r.ok \in BOOLEAN /\ (r.ok => b.FilePos = s.FilePos)
  BY <1>1, <1>2, ReachForRead
<1> HIDE DEF r, out
<1>4. /\ b.FilePos \in 0 .. MaxLen /\ b.FLength = s.FLength /\ b.FLength \in 0 .. MaxLen
      /\ b.MBufLen \in 0 .. BufSize /\ b.FBufStart \in 0 .. MaxLen
  BY <1>3, FieldsOf DEF SameStream
<1>5. p \in 0 .. MaxLen /\ p \in Int
  BY <1>4, SizeFacts DEF Lesser
<1>6. /\ Sane(end) /\ end.open /\ end.FLength = b.FLength
      /\ end.FilePos = (IF PastEnd(b, p) THEN b.FLength - 1 ELSE p)
      /\ end.FBufStart = b.FBufStart /\ end.MBufLen = b.MBufLen
      /\ end.MBuffer = b.MBuffer /\ end.updated = b.updated
  BY <1>3, <1>5, CheckEofFits DEF SameStream
<1> HIDE DEF end
<1>7. Held(end, r.d) /\ View(end, r.d) = View(b, r.d)
  BY <1>3, <1>6, SameWindow
<1>8. /\ Held(s', disk') /\ s'.open /\ View(s', disk') = View(s, disk)
      /\ disk' \in {disk, View(s, disk)}
  BY <1>1, <1>3, <1>6, <1>7
<1>9. CASE hit /\ Position(b) \in 0 .. b.MBufLen - 1
  <2>1. /\ Position(b) \in Nat /\ Position(b) + 0 < b.MBufLen
        /\ b.FilePos = s.FilePos /\ ch = b.MBuffer[Position(b)] /\ s' = end
    <3>1. s' = end /\ ch = b.MBuffer[Position(b)]
      <4> HIDE DEF hit
      <4> QED BY <1>1, <1>9
    <3>2. r.ok
      BY <1>9
    <3>3. Position(b) \in Nat /\ Position(b) + 0 < b.MBufLen
      <4> HIDE DEF b
      <4> QED BY <1>4, <1>9
    <3> QED BY <1>3, <3>1, <3>2, <3>3
  <2>2. /\ b.FilePos + 0 < b.FLength /\ b.FilePos + 0 \in Offset
        /\ At(b, r.d, b.FilePos + 0) = b.MBuffer[Position(b) + 0]
    <3> HIDE DEF b, ch, hit, p
    <3>1. 0 \in Nat
      OBVIOUS
    <3> QED BY <1>3, <2>1, <3>1, WindowByte
  <2>3. b.FilePos + 0 = b.FilePos /\ Position(b) + 0 = Position(b)
    BY <1>4, <2>1, SizeFacts
  <2>4. ch = At(s, disk, s.FilePos)
    <3>1. \A i \in Offset : At(b, r.d, i) = View(s, disk).data[i]
      BY <1>3, ViewAt
    <3>2. \A i \in Offset : At(s, disk, i) = View(s, disk).data[i]
      BY ViewAt
    <3> HIDE DEF ch, b
    <3> QED BY <2>1, <2>2, <2>3, <3>1, <3>2
  <2>5. /\ s.FilePos + 1 <= s.FLength /\ p = s.FilePos + 1
        /\ \/ s'.FilePos = s.FilePos + 1
           \/ s.FilePos + 1 = s.FLength /\ s'.FilePos = s.FLength - 1
    <3>1. s.FilePos + 1 <= s.FLength /\ p = s.FilePos + 1
      BY <1>2, <1>4, <2>1, <2>2, <2>3, SizeFacts DEF Lesser
    <3>2. PastEnd(b, p) => p = b.FLength
      BY <1>2, <1>4, <3>1, SizeFacts DEF PastEnd
    <3> HIDE DEF p
    <3> QED BY <1>2, <1>4, <1>6, <2>1, <3>1, <3>2
  <2> DEFINE chunk == [i \in 1 .. 1 |-> At(s, disk, s.FilePos + i - 1)]
  <2>6. <<ch>> = chunk
    <3>1. s.FilePos + 1 - 1 = s.FilePos
      BY <1>2, SizeFacts
    <3>2. \A i \in 1 .. 1 : At(s, disk, s.FilePos + i - 1) = ch
      BY <2>4, <3>1
    <3> HIDE DEF ch
    <3>3. <<ch>> = [i \in 1 .. 1 |-> ch]
      OBVIOUS
    <3> QED BY <3>2, <3>3
  <2> HIDE DEF chunk, ch, p
  <2>7. call'.got \in {chunk, call.got \o chunk} /\ call.op # "write" /\ 1 \in Nat \ {0}
    <3>1. call'.got = chunk
      BY <1>1, <2>6
    <3>2. call.op # "write"
      BY <1>1
    <3>3. 1 \in Nat \ {0}
      OBVIOUS
    <3> QED BY <3>1, <3>2, <3>3
  <2> QED
    BY <1>1, <1>8, <2>5, <2>7, ReadStep DEF chunk
<1>10. CASE ~(hit /\ Position(b) \in 0 .. b.MBufLen - 1)
  <2>1. call'.got = <<NoByte>>
    BY <1>1, <1>10
  <2> QED BY <1>1, <1>8, <2>1, QuietStep
<1> QED
  BY <1>9, <1>10

(* Bringing the window to the position, for a write.                       *)
LEMMA ReachForWrite ==
  ASSUME Known, s.open, s.openmode = "rw", NEW dir \in Direction
  PROVE  LET r == Reach(s, disk, OutOfBuffer(s, s.FilePos), dir, BufSize)
         IN  /\ Held(r.b, r.d) /\ Sane(r.b) /\ r.b.open /\ r.b.openmode = "rw"
             /\ View(r.b, r.d) = View(s, disk)
             /\ r.d \in {disk, View(s, disk)}
             /\ r.b.FilePos = s.FilePos
             /\ ~OutOfBuffer(r.b, r.b.FilePos)
             /\ Position(r.b) \in 0 .. BufSize - 1
<1> DEFINE out == OutOfBuffer(s, s.FilePos)
           r   == Reach(s, disk, out, dir, BufSize)
<1>1. Held(s, disk) /\ Sane(s) /\ disk \in File
  BY KnownOpen
<1>2. /\ out \in BOOLEAN /\ (OutOfBuffer(s, s.FilePos) => out)
      /\ BufSize \in 0 .. BufSize
  BY SizeFacts DEF OutOfBuffer
<1> HIDE DEF out
<1>3. /\ Held(r.b, r.d) /\ View(r.b, r.d) = View(s, disk)
      /\ r.d \in {disk, View(s, disk)}
  BY <1>1, <1>2, ReachHolds
<1>4. /\ Sane(r.b) /\ SameStream(s, r.b) /\ r.b.FilePos = s.FilePos
      /\ ~OutOfBuffer(r.b, r.b.FilePos)
  BY <1>1, <1>2, ReachFits
<1> HIDE DEF r
<1>5. Position(r.b) \in 0 .. BufSize - 1
  BY <1>4, FieldsOf, SizeFacts DEF Position, OutOfBuffer
<1> QED
  BY <1>3, <1>4, <1>5 DEF SameStream, r, out

(* bioWriteByte writes the byte of the abstract stream.                    *)
LEMMA WriteByteStep ==
  ASSUME Faults = FALSE, Known, Inv', bioWriteByte
  PROVE  Known' /\ Stream!Next
<1> PICK k \in Accepted, ch \in Byte :
      LET r == Reach(s, disk, OutOfBuffer(s, s.FilePos), s.optimize, k)
      IN  /\ Ready
          /\ IF s.openmode = "rw"
               THEN /\ s.FilePos < MaxLen
                    /\ s' = Put(r.b, <<ch>>, 1)
                    /\ disk' = r.d
                    /\ call' = Returned(TRUE, <<>>)
               ELSE /\ call' = Returned(FALSE, <<>>)
                    /\ UNCHANGED <<s, disk>>
  BY DEF bioWriteByte
<1>0. k = BufSize
  BY FullWrites
<1>1. /\ s.open /\ call.op = "idle" /\ s.optimize \in Direction
      /\ s.FilePos \in 0 .. MaxLen /\ Held(s, disk) /\ call.rest = <<>>
      /\ call'.rest = <<>> /\ call'.got = <<>>
  BY KnownOpen DEF Ready, Known, Returned
<1>2. CASE s.openmode = "rw"
  <2> DEFINE r == Reach(s, disk, OutOfBuffer(s, s.FilePos), s.optimize, BufSize)
  <2>1. s.FilePos < MaxLen /\ s' = Put(r.b, <<ch>>, 1) /\ disk' = r.d
    BY <1>0, <1>2
  <2>2. /\ Held(r.b, r.d) /\ Sane(r.b) /\ r.b.open
        /\ View(r.b, r.d) = View(s, disk) /\ r.d \in {disk, View(s, disk)}
        /\ r.b.FilePos = s.FilePos /\ ~OutOfBuffer(r.b, r.b.FilePos)
        /\ Position(r.b) \in 0 .. BufSize - 1
    BY <1>1, <1>2, ReachForWrite
  <2> HIDE DEF r
  <2>3. /\ <<ch>> \in Seq(Byte) /\ 1 \in 1 .. Len(<<ch>>)
    OBVIOUS
  <2>4. Position(r.b) + 1 <= BufSize /\ r.b.FilePos + 1 <= MaxLen
    BY <1>1, <2>1, <2>2, SizeFacts
  <2>5. s'.open /\ Held(s', disk') /\ Stream!WriteOf(<<ch>>, 1)
    <3> DEFINE bytes == <<ch>>
    <3>1. bytes \in Seq(Byte) /\ 1 \in 1 .. Len(bytes) /\ s' = Put(r.b, bytes, 1)
      BY <2>1, <2>3
    <3> HIDE DEF bytes
    <3>2. s'.open /\ Held(s', disk') /\ Stream!WriteOf(bytes, 1)
      BY <1>1, <2>1, <2>2, <2>4, <3>1, WriteStep
    <3> QED BY <3>2 DEF bytes
  <2>6. Contents'.data[s.FilePos] = ch
    <3>1. Contents'.data[s.FilePos + 0] = <<ch>>[0 + 1]
      BY <2>5 DEF Stream!WriteOf
    <3> QED BY <1>1, <3>1, SizeFacts
  <2>7. Stream!WriteByte
    BY <1>1, <2>1, <2>5, <2>6 DEF Stream!WriteByte
  <2> QED
    BY <1>1, <2>5, <2>7 DEF Known, Stream!Next
<1>3. CASE s.openmode # "rw"
  <2>1. s' = s /\ disk' = disk
    BY <1>3
  <2> QED BY <1>1, <2>1, QuietStep
<1> QED
  BY <1>2, <1>3

(* The start of a read of several bytes changes nothing.                   *)
LEMMA ReadBufferStep ==
  ASSUME Known, Inv', bioReadBuffer
  PROVE  Known' /\ Stream!Next
<1>1. /\ s.open /\ s' = s /\ disk' = disk /\ Held(s, disk)
      /\ call'.rest = <<>> /\ call'.got = <<>>
  BY DEF bioReadBuffer, Ready, Returned, Known
<1> QED
  BY <1>1, QuietStep

(* The start of a write of several bytes changes nothing.                  *)
LEMMA WriteBufferStep ==
  ASSUME Known, Inv', bioWriteBuffer
  PROVE  Known' /\ Stream!Next
<1> PICK bytes \in Data :
      /\ Ready
      /\ IF s.openmode = "rw"
           THEN /\ s.FilePos + Len(bytes) <= MaxLen
                /\ call' = [Returned(TRUE, <<>>) EXCEPT !.op = "write", !.rest = bytes]
           ELSE call' = Returned(FALSE, <<>>)
      /\ UNCHANGED <<s, disk>>
  BY DEF bioWriteBuffer
<1>1. /\ s.open /\ s' = s /\ disk' = disk /\ Held(s, disk) /\ call.rest = <<>>
  BY DEF Ready, Known
<1>2. CASE s.openmode = "rw"
  <2>1. /\ call'.op = "write" /\ call'.rest = bytes /\ bytes \in Seq(Byte)
        /\ call'.got = <<>>
    BY <1>2, CallAssumption DEF Returned
  <2>2. Contents' = Contents
    BY <1>1 DEF Contents
  <2>3. Stream!WriteBack
    BY <1>1, KnownOpen, StepWritesBack, SizeFacts
  <2>4. Stream!BeginWrite
    BY <1>1, <2>1, <2>2, <2>3 DEF Stream!BeginWrite
  <2> QED
    BY <1>1, <2>1, <2>4 DEF Known, Stream!Next
<1>3. CASE s.openmode # "rw"
  <2>1. call'.rest = <<>> /\ call'.got = <<>>
    BY <1>3 DEF Returned
  <2> QED BY <1>1, <2>1, QuietStep
<1> QED
  BY <1>2, <1>3

(* A turn of __getbuff reads what the abstract stream has there.           *)
LEMMA GetBuffStep ==
  ASSUME Faults = FALSE, Known, Inv', GetBuff
  PROVE  Known' /\ Stream!Next
<1> PICK k \in Accepted :
      LET out  == OutOfContents(s, s.FilePos)
          r    == Reach(s, disk, out, "forward", k)
          b    == r.b
          room == b.MBufLen - Position(b)
          n    == IF room < 0 THEN call.want ELSE Lesser(room, call.want)
          new  == [i \in 1 .. n |-> IF Position(b) + i - 1 \in Slot
                                      THEN b.MBuffer[Position(b) + i - 1]
                                      ELSE Junk]
      IN  /\ call.op = "read"
          /\ IF call.want = 0
               THEN call' = [call EXCEPT !.op = "idle"] /\ UNCHANGED <<s, disk>>
             ELSE IF out /\ Exhausted(r, room)
               THEN /\ s' = b
                    /\ disk' = r.d
                    /\ call' = [call EXCEPT !.op = "idle",
                                  !.ok = r.ok /\ b.FilePos >= b.FLength]
             ELSE /\ s' = [b EXCEPT !.FilePos = Lesser(b.FilePos + n, b.FLength)]
                  /\ disk' = r.d
                  /\ call' = [call EXCEPT !.got = @ \o new, !.want = @ - n]
  BY DEF GetBuff
<1>0. k = BufSize
  BY FullWrites
<1> DEFINE out  == OutOfContents(s, s.FilePos)
           r    == Reach(s, disk, out, "forward", BufSize)
           b    == r.b
           room == b.MBufLen - Position(b)
           n    == IF room < 0 THEN call.want ELSE Lesser(room, call.want)
           new  == [i \in 1 .. n |-> IF Position(b) + i - 1 \in Slot
                                       THEN b.MBuffer[Position(b) + i - 1]
                                       ELSE Junk]
           p    == Lesser(b.FilePos + n, b.FLength)
<1>1. /\ call.op = "read" /\ call \in Call /\ s.open /\ call.rest = <<>>
      /\ call.want \in Nat /\ call.got \in Seq(Cell \cup {NoByte})
  BY DEF Known, Inv, TypeOK, Call
<1>2. /\ Held(s, disk) /\ Sane(s) /\ "forward" \in Direction
      /\ s.FilePos \in 0 .. MaxLen /\ s.FLength \in 0 .. MaxLen
  BY <1>1, KnownOpen DEF Direction
<1>3. /\ Held(b, r.d) /\ Sane(b) /\ SameStream(s, b) /\ b.open
      /\ View(b, r.d) = View(s, disk) /\ r.d \in {disk, View(s, disk)}
      /\ ~OutOfBuffer(b, b.FilePos)
      /\ r.ok => b.FilePos = s.FilePos
      /\ ~out => b = s
  BY <1>1, <1>2, ReachForRead
<1>4. CASE call.want = 0
  <2>1. call' = [call EXCEPT !.op = "idle"] /\ s' = s /\ disk' = disk
    BY <1>4
  <2>2. call'.rest = <<>> /\ call'.got = call.got
    BY <1>1, <2>1 DEF Call
  <2> QED BY <1>1, <1>2, <2>1, <2>2, QuietStep
<1>5. CASE call.want # 0 /\ out /\ Exhausted(r, room)
  <2>1. /\ s' = b /\ disk' = r.d
        /\ call' = [call EXCEPT !.op = "idle", !.ok = r.ok /\ b.FilePos >= b.FLength]
    BY <1>0, <1>5
  <2>2. call'.rest = <<>> /\ call'.got = call.got
    BY <1>1, <2>1 DEF Call
  <2> QED BY <1>1, <1>3, <2>1, <2>2, QuietStep
<1>6. CASE call.want # 0 /\ ~(out /\ Exhausted(r, room))
  <2>1. /\ s' = [b EXCEPT !.FilePos = p] /\ disk' = r.d
        /\ call' = [call EXCEPT !.got = @ \o new, !.want = @ - n]
    BY <1>0, <1>6
  <2>2. ~OutOfContents(b, b.FilePos) /\ b.FilePos = s.FilePos
    <3>1. CASE ~out
      BY <1>3, <3>1
    <3>2. CASE out
      <4>1. r.ok /\ ~(b.FilePos >= b.FLength)
        BY <1>6, <3>2 DEF Exhausted
      <4>2. b.FilePos < b.FLength
        BY <1>3, <4>1, FieldsOf, SizeFacts
      <4> HIDE DEF r
      <4> QED BY <1>3, <4>1, <4>2, InBufferInContents
    <3> QED BY <3>1, <3>2
  <2> HIDE DEF r, out, new, b
  <2>3. /\ b.FilePos \in 0 .. MaxLen /\ b.FLength = s.FLength /\ b.FLength \in 0 .. MaxLen
        /\ b.MBufLen \in 0 .. BufSize /\ b.FBufStart \in 0 .. MaxLen
    BY <1>3, FieldsOf DEF SameStream
  <2>4. Position(b) \in 0 .. b.MBufLen - 1
    BY <2>2, <2>3, SizeFacts DEF OutOfContents, Position
  <2>5. n \in Nat \ {0} /\ Position(b) + n <= b.MBufLen
    BY <1>1, <1>6, <2>3, <2>4, SizeFacts DEF Lesser
  <2> HIDE DEF n, room
  <2>6. \A i \in 1 .. n : /\ Position(b) + i - 1 \in Slot
                          /\ b.MBuffer[Position(b) + i - 1] = At(s, disk, s.FilePos + i - 1)
    <3> SUFFICES ASSUME NEW i \in 1 .. n
                 PROVE  /\ Position(b) + i - 1 \in Slot
                        /\ b.MBuffer[Position(b) + i - 1] = At(s, disk, s.FilePos + i - 1)
      OBVIOUS
    <3> DEFINE j == i - 1
    <3>1. /\ j \in Nat /\ Position(b) \in Nat /\ Position(b) + j < b.MBufLen
          /\ Position(b) + i - 1 = Position(b) + j
          /\ s.FilePos + i - 1 = s.FilePos + j
      BY <1>2, <2>3, <2>4, <2>5, SizeFacts
    <3> HIDE DEF j
    <3>2. /\ b.FilePos + j \in Offset /\ Position(b) + j \in Slot
          /\ At(b, r.d, b.FilePos + j) = b.MBuffer[Position(b) + j]
      <4>1. Sane(b)
        BY <1>3
      <4>2. b.FilePos + j \in Offset 
        BY <3>1, <4>1, WindowByte
      <4>3. Position(b) + j \in Slot
        BY <3>1, <4>1, WindowByte
      <4>4. At(b, r.d, b.FilePos + j) = b.MBuffer[Position(b) + j]
        <5>1. /\ InWindow(b, b.FilePos + j)
              /\ (b.FilePos + j) - b.FBufStart = Position(b) + j
          BY <2>3, <2>4, <3>1, SizeFacts DEF InWindow, Position
        <5> QED BY <5>1 DEF At
      <4> QED BY <4>2, <4>3, <4>4
    <3>3. \A o \in Offset : At(b, r.d, o) = At(s, disk, o)
      BY <1>3, ViewAt
    <3> QED BY <2>2, <3>1, <3>2, <3>3
  <2>7. new = [i \in 1 .. n |-> At(s, disk, s.FilePos + i - 1)]
    BY <2>6 DEF new
  <2>8. s.FilePos + n <= s.FLength /\ p = s.FilePos + n
    <3>1. s.FilePos + n <= s.FLength
      <4>1. b.MBufLen > 0 => b.FBufStart + b.MBufLen <= b.FLength
        BY <1>3 DEF Sane, WindowInFile
      <4> QED BY <2>2, <2>3, <2>4, <2>5, <4>1, SizeFacts DEF Position
    <3> QED BY <2>2, <2>3, <2>5, <3>1 DEF Lesser
  <2>9. p \in 0 .. MaxLen
    BY <1>2, <2>5, <2>8, SizeFacts
  <2> HIDE DEF p
  <2>10. /\ Sane(s') /\ s'.open /\ s'.FilePos = p /\ s'.FLength = b.FLength
         /\ s'.FBufStart = b.FBufStart /\ s'.MBufLen = b.MBufLen
         /\ s'.MBuffer = b.MBuffer /\ s'.updated = b.updated
    <3>1. Sane(s') /\ SameStream(b, s')
      BY <1>3, <2>1, <2>9, MoveFits
    <3>2. b \in BFILE
      BY <1>3 DEF Sane
    <3> QED BY <1>3, <2>1, <3>1, <3>2 DEF SameStream, BFILE
  <2>11. /\ Held(s', disk') /\ View(s', disk') = View(s, disk)
         /\ disk' \in {disk, View(s, disk)}
    <3>1. Held(b, disk') /\ View(b, disk') = View(s, disk)
          /\ disk' \in {disk, View(s, disk)}
      BY <1>3, <2>1
    <3>2. Held(s', disk') /\ View(s', disk') = View(b, disk')
      BY <2>10, <3>1, SameWindow
    <3> QED BY <3>1, <3>2
  <2>12. call'.rest = <<>> /\ call'.got = call.got \o new
    BY <1>1, <2>1 DEF Call
  <2>13. /\ call.op # "write" /\ call'.got \in {new, call.got \o new}
         /\ s'.FilePos = s.FilePos + n
    BY <1>1, <2>8, <2>10, <2>12
  <2> QED
    BY <1>1, <2>5, <2>7, <2>8, <2>10, <2>11, <2>12, <2>13, ReadStep
<1> QED
  BY <1>4, <1>5, <1>6

(* A turn of __putbuff writes it to the abstract stream.                   *)
LEMMA PutBuffStep ==
  ASSUME Faults = FALSE, Known, Inv', PutBuff
  PROVE  Known' /\ Stream!Next
<1> PICK k \in Accepted :
      LET out == OutOfBuffer(s, s.FilePos)
          r   == Reach(s, disk, out, "forward", k)
          b   == r.b
          n   == Lesser(BufSize - Position(b), Len(call.rest))
      IN  /\ call.op = "write"
          /\ IF call.rest = <<>>
               THEN call' = Returned(TRUE, <<>>) /\ UNCHANGED <<s, disk>>
             ELSE IF ~r.ok \/ Position(b) = BufSize
               THEN s' = b /\ disk' = r.d /\ call' = Returned(FALSE, <<>>)
             ELSE /\ s' = Put(b, call.rest, n)
                  /\ disk' = r.d
                  /\ call' = [call EXCEPT
                                !.rest = SubSeq(@, n + 1, Len(@))]
  BY DEF PutBuff
<1>0. k = BufSize
  BY FullWrites
<1> DEFINE r == Reach(s, disk, OutOfBuffer(s, s.FilePos), "forward", BufSize)
           b == r.b
           n == Lesser(BufSize - Position(b), Len(call.rest))
           room == SubSeq(call.rest, n + 1, Len(call.rest))
<1>1. /\ call.op = "write" /\ call \in Call /\ s.open /\ s.openmode = "rw"
      /\ call.rest \in Seq(Byte) /\ s.FilePos + Len(call.rest) <= MaxLen
  BY DEF Known, Inv, TypeOK, Call
<1>2. /\ Held(s, disk) /\ "forward" \in Direction /\ s.FilePos \in 0 .. MaxLen
  BY <1>1, KnownOpen DEF Direction
<1>3. /\ Held(b, r.d) /\ Sane(b) /\ b.open
      /\ View(b, r.d) = View(s, disk) /\ r.d \in {disk, View(s, disk)}
      /\ b.FilePos = s.FilePos /\ ~OutOfBuffer(b, b.FilePos)
      /\ Position(b) \in 0 .. BufSize - 1
  BY <1>1, <1>2, ReachForWrite
<1>4. CASE call.rest = <<>>
  <2>1. s' = s /\ disk' = disk /\ call'.rest = <<>> /\ call'.got = <<>>
    BY <1>4 DEF Returned
  <2> QED BY <1>1, <1>2, <2>1, QuietStep
<1>5. CASE call.rest # <<>> /\ (~r.ok \/ Position(b) = BufSize)
  <2>1. s' = b /\ disk' = r.d /\ call'.rest = <<>> /\ call'.got = <<>>
    BY <1>0, <1>5 DEF Returned
  <2> QED BY <1>1, <1>3, <2>1, QuietStep
<1>6. CASE call.rest # <<>> /\ ~(~r.ok \/ Position(b) = BufSize)
  <2>1. /\ s' = Put(b, call.rest, n) /\ disk' = r.d
        /\ call' = [call EXCEPT !.rest = room]
    BY <1>0, <1>6
  <2> HIDE DEF r, b
  <2>2. /\ n \in 1 .. Len(call.rest) /\ Position(b) + n <= BufSize
        /\ b.FilePos + n <= MaxLen
    <3>1. Len(call.rest) \in Nat /\ Len(call.rest) > 0
      BY <1>1, <1>6
    <3> QED BY <1>1, <1>2, <1>3, <3>1, SizeFacts DEF Lesser
  <2> HIDE DEF n
  <2>3. s'.open /\ Held(s', disk') /\ Stream!WriteOf(call.rest, n)
    <3>1. /\ Held(b, disk') /\ View(b, disk') = View(s, disk)
          /\ disk' \in {disk, View(s, disk)}
      BY <1>3, <2>1
    <3> QED BY <1>1, <1>3, <2>1, <2>2, <3>1, WriteStep
  <2>4. /\ call'.op = "write" /\ call'.rest = room /\ call'.got = call.got
    BY <1>1, <2>1 DEF Call
  <2>5. Stream!WriteSome
    BY <2>2, <2>3, <2>4 DEF Stream!WriteSome
  <2> QED
    BY <2>3, <2>4, <2>5 DEF Known, Stream!Next
<1> QED
  BY <1>4, <1>5, <1>6

(* bioFlush changes nothing that can be read.                              *)
LEMMA FlushStep ==
  ASSUME Faults = FALSE, Known, Inv', bioFlush
  PROVE  Known' /\ Stream!Next
<1> PICK k \in Accepted : Ready /\ Return(Flush(s, disk, k), <<>>)
  BY DEF bioFlush
<1>0. k = BufSize
  BY FullWrites
<1> DEFINE r == Flush(s, disk, BufSize)
<1>1. /\ s.open /\ s' = r.b /\ disk' = r.d /\ call'.rest = <<>> /\ call'.got = <<>>
  BY <1>0 DEF Ready, Return, Returned
<1>2. Held(s, disk)
  BY <1>1, KnownOpen
<1>3. /\ Held(r.b, r.d) /\ r.d = View(s, disk) /\ View(r.b, r.d) = View(s, disk)
      /\ r.b.open = s.open
  BY <1>2, FlushHolds DEF SameStream
<1> HIDE DEF r
<1> QED
  BY <1>1, <1>3, QuietStep

(* bioReRead changes nothing that can be read.                             *)
LEMMA ReReadStep ==
  ASSUME Known, Inv', bioReRead
  PROVE  Known' /\ Stream!Next
<1> DEFINE c == [s EXCEPT !.FLength = disk.len]
           r == Fill(c, disk, s.FBufStart)
<1>1. /\ s.open /\ s' = r.b /\ disk' = r.d /\ call'.rest = <<>> /\ call'.got = <<>>
      /\ call.rest = <<>>
  BY DEF bioReRead, Ready, Return, Returned, Known
<1>2. Sane(s) /\ disk \in File /\ disk.len \in 0 .. MaxLen
  BY <1>1, KnownOpen DEF File
<1>3. /\ c \in BFILE /\ c.FLength = disk.len /\ c.open /\ c.FilePos = s.FilePos
      /\ c.FBufStart = s.FBufStart /\ c.FBufStart \in 0 .. MaxLen
  BY <1>1, <1>2 DEF Sane, BFILE
<1> HIDE DEF c
<1>4. /\ Held(r.b, disk) /\ View(r.b, disk) = disk /\ r.d = disk
      /\ SameStream(c, r.b) /\ r.b.FilePos = c.FilePos
  <2>1. s.FBufStart \in Int /\ (s.FBufStart > c.FLength => c.FBufStart >= c.FLength)
    BY <1>2, <1>3, SizeFacts
  <2> QED BY <1>2, <1>3, <2>1, FillHolds
<1> HIDE DEF r
<1>5. s'.open /\ Held(s', disk') /\ Contents' = disk' /\ s'.FilePos = s.FilePos
  BY <1>1, <1>3, <1>4 DEF SameStream, Contents
<1>6. Stream!Reread
  BY <1>1, <1>4, <1>5 DEF Stream!Reread
<1> QED
  BY <1>1, <1>5, <1>6 DEF Known, Stream!Next

(* bioChSize cuts or grows the abstract stream.                            *)
LEMMA ChSizeStep ==
  ASSUME Faults = FALSE, Known, Inv', bioChSize
  PROVE  Known' /\ Stream!Next
<1> PICK k \in Accepted, n \in 0 .. MaxLen :
      /\ Ready
      /\ s.openmode = "rw"
      /\ IF n > s.FLength
           THEN LET r == Seek(s, disk, s.FLength, s.optimize, k)
                IN  /\ s' = r.b
                    /\ disk' = r.d
                    /\ call' = [Returned(TRUE, <<>>) EXCEPT !.op = "write",
                                  !.rest = [i \in 1 .. n - s.FLength |-> Zero]]
           ELSE \E cut \in IF Faults THEN BOOLEAN ELSE {TRUE} :
                  LET r == Seek(s, disk, n, s.optimize, k)
                  IN  /\ s' = Shrunk(r.b, n)
                      /\ disk' = IF cut THEN Truncated(r.d, n) ELSE r.d
                      /\ call' = Returned(cut, <<>>)
  BY DEF bioChSize
<1>0. k = BufSize
  BY FullWrites
<1>1. /\ s.open /\ s.openmode = "rw" /\ call.rest = <<>>
      /\ BufSize \in 0 .. BufSize
  BY SizeFacts DEF Ready, Known
<1>2. /\ Held(s, disk) /\ Sane(s) /\ s.optimize \in Direction /\ disk \in File
      /\ s.FLength \in 0 .. MaxLen /\ disk.len \in 0 .. MaxLen
  BY <1>1, KnownOpen DEF File
<1>3. \A p : ~PastEnd(s, p)
  BY <1>1 DEF PastEnd
<1>4. ASSUME NEW p \in 0 .. MaxLen
      PROVE  LET r == Seek(s, disk, p, s.optimize, BufSize)
             IN  /\ Held(r.b, r.d) /\ View(r.b, r.d) = View(s, disk) /\ Sane(r.b)
                 /\ r.d \in {disk, View(s, disk)} /\ SameStream(s, r.b)
                 /\ r.b.FilePos = p
  <2>1. p \in Int
    BY SizeFacts
  <2> QED BY <1>1, <1>2, <1>3, <2>1, SeekFits, SeekHolds
<1>5. CASE n > s.FLength
  <2> DEFINE r == Seek(s, disk, s.FLength, s.optimize, BufSize)
             zeros == [i \in 1 .. n - s.FLength |-> Zero]
  <2>1. /\ s' = r.b /\ disk' = r.d
        /\ call' = [Returned(TRUE, <<>>) EXCEPT !.op = "write", !.rest = zeros]
    BY <1>0, <1>5
  <2>2. zeros \in Seq(Byte)
    <3>1. n - s.FLength \in Nat
      BY <1>2, <1>5
    <3> QED BY <3>1, SizeFacts
  <2> HIDE DEF zeros
  <2>3. call'.op = "write" /\ call'.rest = zeros /\ call'.got = <<>>
    BY <2>1 DEF Returned
  <2>4. /\ Held(r.b, r.d) /\ View(r.b, r.d) = View(s, disk)
        /\ r.d \in {disk, View(s, disk)} /\ SameStream(s, r.b)
        /\ r.b.FilePos = s.FLength
    BY <1>2, <1>4
  <2> HIDE DEF r
  <2>5. /\ s'.open /\ Held(s', disk') /\ Contents' = Contents
        /\ s'.FilePos = Contents.len /\ disk' \in {disk, Contents}
    BY <1>1, <2>1, <2>4, KnownOpen DEF SameStream, Contents
  <2>6. Stream!WriteBack
    BY <1>1, <2>5, KnownOpen, StepWritesBack
  <2>7. Stream!BeginWrite
    BY <1>1, <2>2, <2>3, <2>5, <2>6 DEF Stream!BeginWrite
  <2> QED
    BY <2>3, <2>5, <2>7 DEF Known, Stream!Next
<1>6. CASE ~(n > s.FLength)
  <2> DEFINE r == Seek(s, disk, n, s.optimize, BufSize)
  <2>1. /\ s' = Shrunk(r.b, n) /\ disk' = Truncated(r.d, n)
        /\ call' = Returned(TRUE, <<>>)
    BY <1>0, <1>6
  <2>2. /\ Held(r.b, r.d) /\ View(r.b, r.d) = View(s, disk) /\ Sane(r.b)
        /\ r.d \in {disk, View(s, disk)} /\ SameStream(s, r.b)
        /\ r.b.FilePos = n
    BY <1>4
  <2> HIDE DEF r
  <2>3. n <= r.b.FLength
    BY <1>2, <1>6, <2>2 DEF SameStream
  <2>4. Held(s', disk') /\ View(s', disk') = Truncated(View(s, disk), n)
    BY <2>1, <2>2, <2>3, ShrunkHolds
  <2>5. s'.open /\ s'.FilePos = n
    BY <1>1, <2>1, <2>2, <2>3, ShrunkFits DEF SameStream
  <2>6. /\ Contents' = Truncated(Contents, n) /\ n \in 0 .. Contents.len
        /\ disk' \in {Truncated(disk, n), Truncated(Contents, n)}
    <3>1. Contents = View(s, disk) /\ Contents.len = s.FLength
      BY <1>1, KnownOpen
    <3> QED BY <1>1, <1>2, <1>6, <2>1, <2>2, <2>4, <2>5, <3>1 DEF Contents
  <2>7. call'.rest = <<>> /\ call'.got = <<>>
    BY <2>1 DEF Returned
  <2>8. Stream!Truncate
    <3>1. \A f : Stream!Truncated(f, n) = Truncated(f, n)
      BY DEF Stream!Truncated, Stream!Offset, Truncated, Offset
    <3>2. disk'.len = n
      BY <2>1 DEF Truncated
    <3>3. \A i \in Offset : disk'.data[i] \in
            {Truncated(disk, n).data[i], Truncated(Contents, n).data[i]}
      BY <2>6
    <3> QED
      BY <1>1, <2>5, <2>6, <2>7, <3>1, <3>2, <3>3
         DEF Stream!Truncate, Stream!Offset, Offset
  <2> QED
    BY <2>4, <2>7, <2>8 DEF Known, Stream!Next
<1> QED
  BY <1>5, <1>6

(* The seek optimization changes nothing that can be read.                 *)
LEMMA SetOptimizationStep ==
  ASSUME Known, Inv', bioSetOptimization
  PROVE  Known' /\ Stream!Next
<1> PICK dir \in Dirs : /\ Ready
                       /\ s' = [s EXCEPT !.optimize = dir]
                       /\ call' = Returned(TRUE, <<>>)
                       /\ disk' = disk
  BY DEF bioSetOptimization
<1>1. /\ s.open /\ Held(s, disk) /\ Sane(s) /\ s \in BFILE
      /\ call'.rest = <<>> /\ call'.got = <<>>
  BY KnownOpen DEF Ready, Returned, Sane
<1>2. /\ s'.open /\ s'.FLength = s.FLength /\ s'.FBufStart = s.FBufStart
      /\ s'.MBufLen = s.MBufLen /\ s'.MBuffer = s.MBuffer /\ s'.updated = s.updated
  BY <1>1 DEF BFILE
<1>3. Sane(s')
  BY <1>1, <1>2, CallAssumption DEF Sane, BFILE, WindowInFile, WindowFull
<1>4. Held(s', disk') /\ View(s', disk') = View(s, disk)
  BY <1>1, <1>2, <1>3, SameWindow
<1> QED
  BY <1>1, <1>2, <1>4, QuietStep

(* Every step keeps what is known and is a step of the byte array, or      *)
(* shows nothing of itself.                                                *)
LEMMA StepKnown ==
  ASSUME Faults = FALSE
  PROVE  Known /\ [Next]_vars => Known' /\ [Stream!Next]_(Stream!vars)
<1> SUFFICES ASSUME Known, [Next]_vars
             PROVE  Known' /\ [Stream!Next]_(Stream!vars)
  OBVIOUS
<1>1. Inv'
  BY StepInv DEF Known
<1>2. CASE UNCHANGED vars
  <2>1. disk' = disk /\ s' = s /\ call' = call
    BY <1>2 DEF vars
  <2> QED
    BY <1>1, <2>1 DEF Known, Contents, Stream!vars
<1>3. CASE Next
  BY <1>1, <1>3, OpenStep, CloseStep, SeekStep, ReadByteStep, WriteByteStep,
     ReadBufferStep, WriteBufferStep, GetBuffStep, PutBuffStep, FlushStep,
     ReReadStep, ChSizeStep, SetOptimizationStep DEF Next
<1> QED
  BY <1>2, <1>3

(* Whatever calls were made, the invariant holds.                          *)
LEMMA AlwaysKnown ==
  ASSUME Faults = FALSE
  PROVE  Spec => []Known
<1>1. Known /\ [Next]_vars => Known'
  BY StepKnown
<1> QED
  BY <1>1, KnownInit, PTL DEF Spec

(* While every write succeeds, a window marked "updated" mirrors the disk  *)
(* byte for byte, and may be dropped without a flush.                      *)
THEOREM MirrorIsClean ==
  ASSUME Faults = FALSE
  PROVE  Spec => []CleanMirror
<1>1. Known => CleanMirror
  BY CleanShowsDisk DEF Known, CleanMirror
<1> QED
  BY <1>1, AlwaysKnown, PTL

(* While every write succeeds, the length the stream believes in is that   *)
(* the file has, or will have once the window is flushed.                  *)
THEOREM LengthIsTracked ==
  ASSUME Faults = FALSE
  PROVE  Spec => []LengthTracked
<1>1. Known => LengthTracked
  BY DEF Known, Held, Tracks, LengthTracked
<1> QED
  BY <1>1, AlwaysKnown, PTL

(* While every write succeeds, the buffered stream implements the byte     *)
(* array with a position of FileStream: the cache does not show.           *)
THEOREM Refinement ==
  ASSUME Faults = FALSE
  PROVE  Spec => ImplementsStream
<1>1. Init => Stream!Init
  <2> SUFFICES ASSUME Init PROVE Stream!Init
    OBVIOUS
  <2>1. disk \in File /\ Contents = disk
    BY CallAssumption DEF Init, Contents, NoStream
  <2> QED
    BY <2>1 DEF Init, NoStream, Returned, Stream!Init, Stream!File, Stream!Offset,
                Stream!Cell, File, Offset, Cell
<1>2. Known /\ [Next]_vars => [Stream!Next]_(Stream!vars)
  BY StepKnown
<1> QED
  BY <1>1, <1>2, AlwaysKnown, PTL DEF Spec, Stream!Spec, ImplementsStream

-----------------------------------------------------------------------------
(* What nobody wrote.  Without gaps the bytes that are seen, stored and    *)
(* delivered were all written by someone; so were those of the buffer      *)
(* below the position, which a write there makes part of the window.       *)
NoJunkWritten == /\ Junk \notin Byte \cup {NoByte}
                 /\ \A f \in InitFiles : \A i \in Offset : f.data[i] # Junk

(* No gap: what of the window lies before the position was filled.         *)
Filled(b) == \A j \in Slot : j < Position(b) /\ Position(b) < BufSize
                               => b.MBuffer[j] # Junk

AllWritten == /\ NoJunk
              /\ \A i \in Offset : Contents.data[i] # Junk
              /\ s.open => Filled(s)

(* A position within the file has only bytes of the window below it.       *)
LEMMA WithinFileFilled ==
  ASSUME NEW b, NEW d, Sane(b), b.FilePos <= b.FLength,
         \A i \in Offset : At(b, d, i) # Junk
  PROVE  Filled(b)
<1> SUFFICES ASSUME NEW j \in Slot, j < Position(b), Position(b) < BufSize
             PROVE  b.MBuffer[j] # Junk
  BY DEF Filled
<1>1. /\ b.FilePos \in 0 .. MaxLen /\ b.FLength \in 0 .. MaxLen
      /\ b.FBufStart \in 0 .. MaxLen /\ b.MBufLen \in 0 .. BufSize
      /\ b.FBufStart + b.MBufLen >= Lesser(b.FBufStart + BufSize, b.FLength)
  BY FieldsOf DEF Sane, WindowFull
<1>2. j \in Nat /\ j < b.MBufLen
  BY <1>1, SizeFacts DEF Slot, Position, Lesser
<1> DEFINE i == b.FBufStart + j
<1>3. i \in Int /\ InWindow(b, i) /\ i - b.FBufStart = j
  BY <1>1, <1>2, SizeFacts DEF InWindow
<1> HIDE DEF i
<1>4. i \in Offset /\ At(b, d, i) = b.MBuffer[j]
  BY <1>3, WindowSlots DEF At
<1> QED
  BY <1>4

(* __seek to a position within the file, or to where it already is.        *)
LEMMA SeekFilled ==
  ASSUME NEW b, NEW d, Held(b, d), NEW p \in Int,
         p \in 0 .. MaxLen \/ PastEnd(b, p), NEW dir \in Direction,
         p <= b.FLength \/ PastEnd(b, p) \/ p = b.FilePos,
         Filled(b), \A i \in Offset : View(b, d).data[i] # Junk
  PROVE  LET r == Seek(b, d, p, dir, BufSize)
         IN  Filled(r.b) /\ \A i \in Offset : At(r.b, r.d, i) # Junk
<1> DEFINE r == Seek(b, d, p, dir, BufSize)
<1>1. /\ Held(r.b, r.d) /\ View(r.b, r.d) = View(b, d)
  BY SeekHolds
<1>2. /\ Sane(b) /\ d \in File /\ b.FLength \in 0 .. MaxLen /\ b.FilePos \in 0 .. MaxLen
      /\ BufSize \in 0 .. BufSize
  BY FieldsOf, SizeFacts DEF Held
<1>3. /\ Sane(r.b) /\ SameStream(b, r.b)
      /\ r.b.FilePos = IF PastEnd(b, p) THEN b.FLength - 1 ELSE p
  BY <1>2, SeekFits
<1>4. \A i \in Offset : At(r.b, r.d, i) # Junk
  BY <1>1, ViewAt
<1>5. CASE p <= b.FLength \/ PastEnd(b, p)
  <2>1. r.b.FilePos <= r.b.FLength
    BY <1>2, <1>3, <1>5, SizeFacts DEF SameStream
  <2> HIDE DEF r
  <2> QED BY <1>3, <1>4, <2>1, WithinFileFilled DEF r
<1>6. CASE ~(p <= b.FLength) /\ ~PastEnd(b, p)
  <2> DEFINE moved == CheckEof([b EXCEPT !.FilePos = p])
             f     == Flush(moved, d, BufSize)
             end   == [f.b EXCEPT !.FBufStart = p, !.MBufLen = 0]
             no    == ~PastEnd(b, p)
  <2>1. p = b.FilePos /\ ~(p < b.FLength)
    BY <1>2, <1>6
  <2>2. /\ Sane(moved) /\ moved.FilePos = p /\ moved.FBufStart = b.FBufStart
        /\ moved.MBuffer = b.MBuffer
    BY <1>2, <1>6, CheckEofFits
  <2>3. r = IF ~OutOfBuffer(b, p) THEN [b |-> moved, d |-> d, ok |-> no]
            ELSE [b |-> end, d |-> f.d, ok |-> no]
    BY <2>1, <2>2 DEF Seek
  <2>4. f.b.FilePos = p /\ f.b \in BFILE
    <3> HIDE DEF moved
    <3> QED BY <1>2, <2>2, FlushFits DEF Sane
  <2> HIDE DEF moved, f, no, r
  <2>5. CASE ~OutOfBuffer(b, p)
    <3>1. r.b = moved
      BY <2>3, <2>5
    <3>2. Position(r.b) = Position(b) /\ r.b.MBuffer = b.MBuffer
      BY <2>1, <2>2, <3>1 DEF Position
    <3> QED BY <1>4, <3>2 DEF Filled, r
  <2>6. CASE OutOfBuffer(b, p)
    <3>1. r.b = end
      BY <2>3, <2>6
    <3>2. Position(end) = 0
      BY <2>4 DEF Position, BFILE
    <3> QED BY <1>4, <3>1, <3>2, SizeFacts DEF Filled, Slot, r
  <2> QED BY <2>5, <2>6
<1> QED
  BY <1>5, <1>6

(* Moving the window leaves no byte of it unfilled.                        *)
LEMMA ReachFilled ==
  ASSUME NEW b, NEW d, Held(b, d), NEW elsewhere \in BOOLEAN, NEW dir \in Direction,
         Filled(b), \A i \in Offset : View(b, d).data[i] # Junk
  PROVE  LET r == Reach(b, d, elsewhere, dir, BufSize)
         IN  Filled(r.b) /\ \A i \in Offset : At(r.b, r.d, i) # Junk
<1>1. b.FilePos \in Int /\ b.FilePos \in 0 .. MaxLen
  BY FieldsOf, SizeFacts DEF Held
<1>2. CASE elsewhere
  <2>1. Reach(b, d, elsewhere, dir, BufSize) = Seek(b, d, b.FilePos, dir, BufSize)
    BY <1>2 DEF Reach
  <2> QED BY <1>1, <2>1, SeekFilled
<1>3. CASE ~elsewhere
  BY <1>3, ViewAt DEF Reach
<1> QED
  BY <1>2, <1>3

(* Bytes put into a window leave no hole in it.                            *)
LEMMA PutFilled ==
  ASSUME NEW b, NEW d, Sane(b), d \in File, Filled(b),
         \A i \in Offset : d.data[i] # Junk,
         \A i \in Offset : At(b, d, i) # Junk,
         Junk \notin Byte, ~OutOfBuffer(b, b.FilePos),
         NEW bytes \in Seq(Byte), NEW n \in 1 .. Len(bytes),
         Position(b) + n <= BufSize, b.FilePos + n <= MaxLen
  PROVE  LET c == Put(b, bytes, n)
         IN  Filled(c) /\ \A i \in Offset : At(c, d, i) # Junk
<1> DEFINE c == Put(b, bytes, n)
           at == Position(b)
           m  == Greater(b.MBufLen, at + n)
           buff == [i \in Slot |-> IF i \in at .. at + n - 1
                                     THEN bytes[i - at + 1] ELSE b.MBuffer[i]]
<1>1. /\ b \in BFILE /\ b.FilePos \in 0 .. MaxLen /\ b.FBufStart \in 0 .. MaxLen
      /\ b.MBufLen \in 0 .. BufSize /\ n \in Nat \ {0} /\ Len(bytes) \in Nat
  BY FieldsOf DEF Sane
<1>2. at \in 0 .. BufSize - 1 /\ b.FilePos = b.FBufStart + at
  BY <1>1, SizeFacts DEF OutOfBuffer, Position
<1>3. /\ c.MBufLen = m /\ c.FBufStart = b.FBufStart /\ c.MBuffer = buff
      /\ c.FilePos = b.FilePos + n
  BY <1>1 DEF Put, BFILE
<1>4. Sane(c)
  BY PutFits
<1> HIDE DEF c, m
<1>5. ASSUME NEW j \in Slot, j < m \/ j < at + n
      PROVE  buff[j] # Junk
  <2>0. j \in Nat /\ j < BufSize
    BY SizeFacts DEF Slot
  <2>1. CASE j \in at .. at + n - 1
    <3>1. buff[j] = bytes[j - at + 1]
      BY <2>1
    <3>2. j - at + 1 \in 1 .. Len(bytes)
      BY <1>1, <1>2, <2>0, <2>1
    <3>3. bytes[j - at + 1] \in Byte
      BY <3>2
    <3> QED BY <3>1, <3>3
  <2>2. CASE j \notin at .. at + n - 1 /\ j < b.MBufLen
    <3> DEFINE i == b.FBufStart + j
    <3>1. i \in Int /\ InWindow(b, i) /\ i - b.FBufStart = j
      BY <1>1, <2>0, <2>2, SizeFacts DEF InWindow
    <3> HIDE DEF i
    <3>2. i \in Offset /\ At(b, d, i) = b.MBuffer[j]
      BY <3>1, WindowSlots DEF At
    <3> QED BY <2>2, <3>2
  <2>3. CASE j \notin at .. at + n - 1 /\ ~(j < b.MBufLen)
    <3>1. j < Position(b) /\ Position(b) < BufSize
      BY <1>1, <1>2, <1>5, <2>0, <2>3, SizeFacts DEF m, Greater
    <3>2. b.MBuffer[j] # Junk
      BY <3>1 DEF Filled
    <3> QED BY <2>3, <3>2
  <2> QED BY <2>1, <2>2, <2>3
<1>6. Position(c) = at + n
  BY <1>1, <1>2, <1>3, SizeFacts DEF Position
<1> HIDE DEF buff, at
<1>7. Filled(c)
  BY <1>3, <1>5, <1>6 DEF Filled
<1>8. \A i \in Offset : At(c, d, i) # Junk
  <2> SUFFICES ASSUME NEW i \in Offset, InWindow(c, i)
               PROVE  c.MBuffer[i - c.FBufStart] # Junk
    BY DEF At
  <2>1. i \in Int
    BY SizeFacts DEF Offset
  <2>2. i - c.FBufStart \in Slot /\ i - c.FBufStart < c.MBufLen
    BY <1>4, <2>1, WindowSlots
  <2> QED BY <1>3, <1>5, <2>2
<1> QED
  BY <1>7, <1>8 DEF c

(* A step of the byte array stores and delivers only what was seen.        *)
LEMMA StreamStepWritten ==
  ASSUME Known, AllWritten, Junk \notin Byte \cup {NoByte}, Stream!Next
  PROVE  /\ \A i \in Offset : disk'.data[i] # Junk
         /\ \A i \in 1 .. Len(call'.got) : call'.got[i] # Junk
<1> DEFINE Pure(f) == \A i \in Offset : f.data[i] # Junk
           Clean(g) == \A i \in 1 .. Len(g) : g[i] # Junk
<1>1. /\ Pure(Contents) /\ Pure(disk) /\ Clean(call.got)
      /\ Junk # Zero /\ Junk # NoByte
      /\ call.got \in Seq(Cell \cup {NoByte}) /\ Contents \in File /\ s.FilePos \in Nat
  <2>1. Contents \in File
    BY KnownOpen DEF Known, Inv, TypeOK, Contents
  <2> QED
    BY <2>1, SizeFacts DEF AllWritten, NoJunk, Known, Inv, TypeOK, Call, BFILE
<1>2. Clean(<<>>) /\ Clean(<<NoByte>>)
  BY <1>1
<1>3. Stream!WriteBack => Pure(disk')
  BY <1>1 DEF Stream!WriteBack, Stream!Offset, Offset
<1>4. CASE Stream!Move
  BY <1>1, <1>2, <1>3, <1>4 DEF Stream!Move
<1>5. CASE Stream!ReadSome
  <2>1. PICK n \in 1 .. MaxLen :
          /\ s.FilePos + n <= Contents.len
          /\ call'.got \in {[i \in 1 .. n |-> Contents.data[s.FilePos + i - 1]],
                            call.got \o [i \in 1 .. n |-> Contents.data[s.FilePos + i - 1]]}
    BY <1>5 DEF Stream!ReadSome
  <2> DEFINE chunk == [i \in 1 .. n |-> Contents.data[s.FilePos + i - 1]]
  <2>2. n \in Nat /\ \A i \in 1 .. n : s.FilePos + i - 1 \in Offset
    BY <1>1, <2>1, SizeFacts DEF Offset, File
  <2>3. \A i \in 1 .. n : chunk[i] # Junk /\ chunk[i] \in Cell
    <3>1. Contents.data \in [Offset -> Cell]
      BY <1>1 DEF File
    <3> QED BY <1>1, <2>2, <3>1
  <2>4. chunk \in Seq(Cell) /\ Len(chunk) = n
    BY <2>2, <2>3
  <2> HIDE DEF chunk
  <2>5. Clean(chunk)
    BY <2>3, <2>4
  <2>6. Clean(call.got \o chunk)
    <3> SUFFICES ASSUME NEW i \in 1 .. Len(call.got \o chunk)
                 PROVE  (call.got \o chunk)[i] # Junk
      OBVIOUS
    <3>1. call.got \in Seq(Cell \cup {NoByte}) /\ chunk \in Seq(Cell \cup {NoByte})
      BY <1>1, <2>3, <2>4
    <3>2. CASE i \in 1 .. Len(call.got)
      BY <1>1, <3>1, <3>2
    <3>3. CASE i \notin 1 .. Len(call.got)
      <4>1. i - Len(call.got) \in 1 .. Len(chunk)
        BY <3>1, <3>3
      <4>2. (call.got \o chunk)[i] = chunk[i - Len(call.got)]
        BY <3>1, <3>3
      <4> QED BY <2>5, <4>1, <4>2
    <3> QED BY <3>2, <3>3
  <2>7. Clean(call'.got)
    BY <2>1, <2>5, <2>6 DEF chunk
  <2> QED
    BY <1>1, <1>3, <1>5, <2>7 DEF Stream!ReadSome
<1>6. CASE Stream!BeginWrite
  BY <1>1, <1>2, <1>3, <1>6 DEF Stream!BeginWrite
<1>7. CASE Stream!WriteSome
  BY <1>1, <1>3, <1>7 DEF Stream!WriteSome, Stream!WriteOf
<1>8. CASE Stream!WriteByte
  BY <1>1, <1>2, <1>3, <1>8 DEF Stream!WriteByte, Stream!WriteOf
<1>9. CASE Stream!Truncate
  <2>1. \A f, n : Pure(f) => Pure(Stream!Truncated(f, n))
    BY <1>1 DEF Stream!Truncated, Stream!Offset, Offset
  <2> QED
    BY <1>1, <1>2, <1>9, <2>1 DEF Stream!Truncate, Stream!Offset, Offset
<1>10. CASE Stream!Reread
  BY <1>1, <1>2, <1>10 DEF Stream!Reread
<1> QED
  BY <1>4, <1>5, <1>6, <1>7, <1>8, <1>9, <1>10 DEF Stream!Next

(* Every call leaves the stream without a hole in its window.              *)
LEMMA StepFilled ==
  ASSUME Faults = FALSE, MaxGap = 0, Junk \notin Byte \cup {NoByte},
         Known, AllWritten, Known', Next, s'.open
  PROVE  Filled(s') /\ \A i \in Offset : At(s', disk', i) # Junk
<1> DEFINE Pure(b, d) == \A i \in Offset : At(b, d, i) # Junk
<1>1. /\ Sane(s') /\ Held(s', disk') /\ s'.FLength \in 0 .. MaxLen
      /\ \A i \in Offset : disk.data[i] # Junk
      /\ disk \in File
  BY FieldsOf DEF Known, Held, AllWritten, NoJunk, Inv, TypeOK
<1>2. s.open => /\ Held(s, disk) /\ Sane(s) /\ Filled(s) /\ Pure(s, disk)
                /\ \A i \in Offset : View(s, disk).data[i] # Junk
                /\ s.optimize \in Direction /\ "forward" \in Direction
                /\ s.FLength \in 0 .. MaxLen /\ s.FilePos \in 0 .. MaxLen
                /\ \A d \in {disk, View(s, disk)} :
                     d \in File /\ \A i \in Offset : d.data[i] # Junk
  BY <1>1, KnownOpen, ViewAt DEF AllWritten, Direction
<1>3. ASSUME NEW c, View(c, disk') = View(s', disk')
      PROVE  Pure(c, disk') <=> Pure(s', disk')
  BY <1>3, ViewAt
<1>4. ASSUME s.open, s' = s, disk' = disk
      PROVE  Filled(s') /\ Pure(s', disk')
  BY <1>2, <1>4
<1>5. ASSUME s'.FilePos <= s'.FLength, Pure(s', disk')
      PROVE  Filled(s') /\ Pure(s', disk')
  BY <1>1, <1>5, WithinFileFilled
<1>6. ASSUME NEW f, View(s', disk') = f, \A i \in Offset : f.data[i] # Junk
      PROVE  Pure(s', disk')
  BY <1>6, ViewAt
<1> HIDE DEF Pure
<1>7. CASE bioOpen
  <2>1. PICK m \in Modes :
          s' = Fill([NoStream EXCEPT !.open = TRUE, !.openmode = m,
                                     !.FLength = disk.len], disk, 0).b
    BY <1>7 DEF bioOpen
  <2> DEFINE b == [NoStream EXCEPT !.open = TRUE, !.openmode = m, !.FLength = disk.len]
  <2>2. disk' = disk /\ disk.len \in 0 .. MaxLen /\ m \in {"ro", "rw"}
    BY <1>1, <1>7, CallAssumption DEF bioOpen, File
  <2>3. b \in BFILE /\ b.FLength = disk.len /\ b.FilePos = 0
    BY <2>2, NoStreamIsBFILE DEF BFILE, NoStream
  <2> HIDE DEF b
  <2>4. View(s', disk) = disk /\ s'.FilePos = 0
    <3>1. 0 \in Int /\ ~(0 > b.FLength)
      BY <2>2, <2>3
    <3>2. s' = Fill(b, disk, 0).b
      BY <2>1 DEF b
    <3> QED BY <1>1, <2>3, <3>1, <3>2, FillHolds
  <2>5. Pure(s', disk')
    BY <1>1, <1>6, <2>2, <2>4
  <2> QED BY <1>1, <1>5, <2>4, <2>5 DEF Pure
<1>8. CASE bioClose
  BY <1>8 DEF bioClose, NoStream
<1>9. CASE bioSeek
  <2> PICK k \in Accepted, from \in {"set", "cur", "end"}, off \in -MaxLen .. MaxLen :
        LET p == Origin(from) + off
        IN  /\ Ready
            /\ p \in 0 .. Lesser(s.FLength + MaxGap, MaxLen) \/ PastEnd(s, p)
            /\ Return(Seek(s, disk, p, s.optimize, k), <<>>)
    BY <1>9 DEF bioSeek
  <2>1. k = BufSize /\ s.open
    BY FullWrites DEF Ready
  <2> DEFINE p == Origin(from) + off
  <2>2. p \in Int /\ ((p \in 0 .. MaxLen /\ p <= s.FLength) \/ PastEnd(s, p))
    BY <1>2, <2>1, SizeFacts DEF Origin, Lesser
  <2>3. /\ s' = Seek(s, disk, p, s.optimize, BufSize).b
        /\ disk' = Seek(s, disk, p, s.optimize, BufSize).d
    BY <2>1 DEF Return
  <2> HIDE DEF p
  <2> QED BY <1>2, <2>1, <2>2, <2>3, SeekFilled
<1>10. CASE bioReadByte
  <2> PICK k \in Accepted :
        LET r   == Reach(s, disk, OutOfContents(s, s.FilePos), s.optimize, k)
            b   == r.b
            hit == b.MBufLen > 0 /\ r.ok /\ b.FilePos <= b.FLength
            ch  == IF hit /\ Position(b) \in 0 .. b.MBufLen - 1
                     THEN b.MBuffer[Position(b)] ELSE NoByte
            end == CheckEof([b EXCEPT !.FilePos = Lesser(b.FilePos + 1, b.FLength)])
        IN  /\ Ready
            /\ s' = IF hit THEN end ELSE b
            /\ disk' = r.d
            /\ call' = Returned(hit, <<ch>>)
    BY <1>10 DEF bioReadByte
  <2> DEFINE out == OutOfContents(s, s.FilePos)
             r   == Reach(s, disk, out, s.optimize, BufSize)
             b   == r.b
             p   == Lesser(b.FilePos + 1, b.FLength)
             end == CheckEof([b EXCEPT !.FilePos = p])
  <2>1. s.open /\ disk' = r.d /\ (s' = b \/ s' = end)
    BY FullWrites DEF Ready
  <2>2. Sane(b)
    BY <1>2, <2>1, ReachForRead
  <2>3. Filled(b) /\ Pure(b, r.d)
    <3>1. out \in BOOLEAN
      BY DEF OutOfContents
    <3> HIDE DEF out
    <3> QED BY <1>2, <2>1, <3>1, ReachFilled DEF Pure
  <2> HIDE DEF r
  <2>4. CASE s' = b
    BY <2>1, <2>3, <2>4 DEF Pure
  <2>5. CASE s' = end
    <3>1. /\ b.FilePos \in 0 .. MaxLen /\ b.FLength \in 0 .. MaxLen
      BY <2>2, FieldsOf
    <3>2. p \in 0 .. MaxLen /\ p <= b.FLength /\ p \in Int
      BY <3>1, SizeFacts DEF Lesser
    <3> HIDE DEF p, b
    <3>3. /\ end.FilePos = (IF PastEnd(b, p) THEN b.FLength - 1 ELSE p)
          /\ end.FLength = b.FLength /\ end.FBufStart = b.FBufStart
          /\ end.MBufLen = b.MBufLen /\ end.MBuffer = b.MBuffer
      BY <2>2, <3>2, CheckEofFits DEF SameStream
    <3> HIDE DEF end
    <3>4. s'.FilePos <= s'.FLength
      BY <2>5, <3>1, <3>2, <3>3
    <3>5. \A i \in Offset : At(s', disk', i) = At(b, r.d, i)
      BY <2>1, <2>5, <3>3 DEF At, InWindow
    <3> QED BY <1>5, <2>3, <3>4, <3>5 DEF Pure
  <2> QED BY <2>1, <2>4, <2>5
<1>11. CASE bioWriteByte
  <2> PICK k \in Accepted, ch \in Byte :
        LET r == Reach(s, disk, OutOfBuffer(s, s.FilePos), s.optimize, k)
        IN  /\ Ready
            /\ IF s.openmode = "rw"
                 THEN /\ s.FilePos < MaxLen
                      /\ s' = Put(r.b, <<ch>>, 1)
                      /\ disk' = r.d
                      /\ call' = Returned(TRUE, <<>>)
                 ELSE /\ call' = Returned(FALSE, <<>>)
                      /\ UNCHANGED <<s, disk>>
    BY <1>11 DEF bioWriteByte
  <2>1. s.open /\ k = BufSize
    BY FullWrites DEF Ready
  <2>2. CASE s.openmode = "rw"
    <3> DEFINE out == OutOfBuffer(s, s.FilePos)
               r == Reach(s, disk, out, s.optimize, BufSize)
               bytes == <<ch>>
    <3>1. s.FilePos < MaxLen /\ s' = Put(r.b, bytes, 1) /\ disk' = r.d
      BY <2>1, <2>2
    <3>2. /\ Sane(r.b) /\ r.d \in {disk, View(s, disk)} /\ r.b.FilePos = s.FilePos
          /\ ~OutOfBuffer(r.b, r.b.FilePos) /\ Position(r.b) \in 0 .. BufSize - 1
      BY <1>2, <2>1, <2>2, ReachForWrite
    <3>3. Filled(r.b) /\ \A i \in Offset : At(r.b, r.d, i) # Junk
      <4>1. out \in BOOLEAN
        BY DEF OutOfBuffer
      <4> HIDE DEF out
      <4> QED BY <1>2, <2>1, <4>1, ReachFilled
    <3> HIDE DEF r
    <3>4. /\ bytes \in Seq(Byte) /\ 1 \in 1 .. Len(bytes)
          /\ Position(r.b) + 1 <= BufSize /\ r.b.FilePos + 1 <= MaxLen
      BY <1>2, <2>1, <3>1, <3>2, SizeFacts
    <3> HIDE DEF bytes
    <3>5. r.d \in File /\ \A i \in Offset : r.d.data[i] # Junk
      BY <1>2, <2>1, <3>2
    <3> QED BY <3>1, <3>2, <3>3, <3>4, <3>5, PutFilled
  <2>3. CASE s.openmode # "rw"
    BY <1>4, <2>1, <2>3 DEF Pure
  <2> QED BY <2>2, <2>3
<1>12. CASE bioReadBuffer \/ bioWriteBuffer
  BY <1>4, <1>12 DEF bioReadBuffer, bioWriteBuffer, Ready, Pure
<1>13. CASE GetBuff
  <2> PICK k \in Accepted :
        LET out  == OutOfContents(s, s.FilePos)
            r    == Reach(s, disk, out, "forward", k)
            b    == r.b
            room == b.MBufLen - Position(b)
            n    == IF room < 0 THEN call.want ELSE Lesser(room, call.want)
            new  == [i \in 1 .. n |-> IF Position(b) + i - 1 \in Slot
                                        THEN b.MBuffer[Position(b) + i - 1]
                                        ELSE Junk]
        IN  /\ call.op = "read"
            /\ IF call.want = 0
                 THEN call' = [call EXCEPT !.op = "idle"] /\ UNCHANGED <<s, disk>>
               ELSE IF out /\ Exhausted(r, room)
                 THEN /\ s' = b
                      /\ disk' = r.d
                      /\ call' = [call EXCEPT !.op = "idle",
                                    !.ok = r.ok /\ b.FilePos >= b.FLength]
               ELSE /\ s' = [b EXCEPT !.FilePos = Lesser(b.FilePos + n, b.FLength)]
                    /\ disk' = r.d
                    /\ call' = [call EXCEPT !.got = @ \o new, !.want = @ - n]
    BY <1>13 DEF GetBuff
  <2>0. k = BufSize
    BY FullWrites
  <2> DEFINE out  == OutOfContents(s, s.FilePos)
             r    == Reach(s, disk, out, "forward", BufSize)
             b    == r.b
             room == b.MBufLen - Position(b)
             n    == IF room < 0 THEN call.want ELSE Lesser(room, call.want)
             p    == Lesser(b.FilePos + n, b.FLength)
  <2>1. /\ call.op = "read" /\ call.want \in Nat /\ s.open
        /\ \/ s' = s /\ disk' = disk
           \/ s' = b /\ disk' = r.d
           \/ s' = [b EXCEPT !.FilePos = p] /\ disk' = r.d
    BY <2>0 DEF Known, Inv, TypeOK, Call
  <2>2. Sane(b)
    BY <1>2, <2>1, ReachForRead
  <2>3. Filled(b) /\ Pure(b, r.d)
    <3>1. out \in BOOLEAN
      BY DEF OutOfContents
    <3> HIDE DEF out
    <3> QED BY <1>2, <2>1, <3>1, ReachFilled DEF Pure
  <2> HIDE DEF r, b
  <2>4. CASE s' = s /\ disk' = disk
    BY <1>4, <2>1, <2>4 DEF Pure
  <2>5. CASE s' = b /\ disk' = r.d
    BY <2>3, <2>5 DEF Pure
  <2>6. CASE s' = [b EXCEPT !.FilePos = p] /\ disk' = r.d
    <3>1. /\ b.FilePos \in 0 .. MaxLen /\ b.FLength \in 0 .. MaxLen /\ b \in BFILE
          /\ b.MBufLen \in 0 .. BufSize /\ b.FBufStart \in 0 .. MaxLen
      BY <2>2, FieldsOf
    <3>2. n \in Int
      BY <2>1, <3>1, SizeFacts DEF Lesser, Position
    <3> HIDE DEF n
    <3>3. p <= b.FLength
      BY <3>1, <3>2, SizeFacts DEF Lesser
    <3> HIDE DEF p
    <3>4. /\ s'.FilePos = p /\ s'.FLength = b.FLength /\ s'.FBufStart = b.FBufStart
          /\ s'.MBufLen = b.MBufLen /\ s'.MBuffer = b.MBuffer
      BY <2>6, <3>1 DEF BFILE
    <3>5. \A i \in Offset : At(s', disk', i) = At(b, r.d, i)
      BY <2>6, <3>4 DEF At, InWindow
    <3> QED BY <1>5, <2>3, <3>3, <3>4, <3>5 DEF Pure
  <2> QED BY <2>1, <2>4, <2>5, <2>6
<1>14. CASE PutBuff
  <2> PICK k \in Accepted :
        LET out == OutOfBuffer(s, s.FilePos)
            r   == Reach(s, disk, out, "forward", k)
            b   == r.b
            n   == Lesser(BufSize - Position(b), Len(call.rest))
        IN  /\ call.op = "write"
            /\ IF call.rest = <<>>
                 THEN call' = Returned(TRUE, <<>>) /\ UNCHANGED <<s, disk>>
               ELSE IF ~r.ok \/ Position(b) = BufSize
                 THEN s' = b /\ disk' = r.d /\ call' = Returned(FALSE, <<>>)
               ELSE /\ s' = Put(b, call.rest, n)
                    /\ disk' = r.d
                    /\ call' = [call EXCEPT
                                  !.rest = SubSeq(@, n + 1, Len(@))]
    BY <1>14 DEF PutBuff
  <2>0. k = BufSize
    BY FullWrites
  <2> DEFINE out == OutOfBuffer(s, s.FilePos)
             r == Reach(s, disk, out, "forward", BufSize)
             b == r.b
             n == Lesser(BufSize - Position(b), Len(call.rest))
  <2>1. /\ call.op = "write" /\ s.open /\ s.openmode = "rw"
        /\ call.rest \in Seq(Byte) /\ s.FilePos + Len(call.rest) <= MaxLen
        /\ \/ s' = s /\ disk' = disk
           \/ s' = b /\ disk' = r.d
           \/ call.rest # <<>> /\ s' = Put(b, call.rest, n) /\ disk' = r.d
    BY <2>0 DEF Known, Inv, TypeOK, Call
  <2>2. /\ Sane(b) /\ r.d \in {disk, View(s, disk)} /\ b.FilePos = s.FilePos
        /\ ~OutOfBuffer(b, b.FilePos) /\ Position(b) \in 0 .. BufSize - 1
    BY <1>2, <2>1, ReachForWrite
  <2>3. Filled(b) /\ \A i \in Offset : At(b, r.d, i) # Junk
    <3>1. out \in BOOLEAN
      BY DEF OutOfBuffer
    <3> HIDE DEF out
    <3> QED BY <1>2, <2>1, <3>1, ReachFilled
  <2> HIDE DEF r, b
  <2>4. CASE s' = s /\ disk' = disk
    BY <1>4, <2>1, <2>4 DEF Pure
  <2>5. CASE s' = b /\ disk' = r.d
    BY <2>3, <2>5
  <2>6. CASE call.rest # <<>> /\ s' = Put(b, call.rest, n) /\ disk' = r.d
    <3>1. Len(call.rest) \in Nat /\ Len(call.rest) > 0
      BY <2>1, <2>6
    <3>2. /\ n \in 1 .. Len(call.rest) /\ Position(b) + n <= BufSize
          /\ b.FilePos + n <= MaxLen
      BY <1>2, <2>1, <2>2, <3>1, SizeFacts DEF Lesser
    <3> HIDE DEF n
    <3>3. r.d \in File /\ \A i \in Offset : r.d.data[i] # Junk
      BY <1>2, <2>1, <2>2
    <3> QED BY <2>1, <2>2, <2>3, <2>6, <3>2, <3>3, PutFilled
  <2> QED BY <2>1, <2>4, <2>5, <2>6
<1>15. CASE bioFlush
  <2> PICK k \in Accepted : Ready /\ Return(Flush(s, disk, k), <<>>)
    BY <1>15 DEF bioFlush
  <2> DEFINE r == Flush(s, disk, BufSize)
  <2>1. s.open /\ s' = r.b /\ disk' = r.d
    BY FullWrites DEF Ready, Return
  <2>2. /\ View(r.b, r.d) = View(s, disk) /\ r.b.FBufStart = s.FBufStart
        /\ r.b.MBuffer = s.MBuffer /\ r.b.FilePos = s.FilePos
    BY <1>2, <2>1, FlushHolds
  <2> HIDE DEF r
  <2>3. Filled(s')
    BY <1>2, <2>1, <2>2 DEF Filled, Position
  <2>4. Pure(s', disk')
    BY <1>2, <1>6, <2>1, <2>2
  <2> QED BY <2>3, <2>4 DEF Pure
<1>16. CASE bioReRead
  <2> DEFINE c == [s EXCEPT !.FLength = disk.len]
             r == Fill(c, disk, s.FBufStart)
  <2>1. s.open /\ s' = r.b /\ disk' = r.d
    BY <1>16 DEF bioReRead, Ready, Return
  <2>2. /\ Sane(s) /\ s \in BFILE /\ disk.len \in 0 .. MaxLen
        /\ s.FBufStart \in 0 .. MaxLen
    BY <1>1, <1>2, <2>1, FieldsOf DEF File
  <2>3. /\ c \in BFILE /\ c.FLength = disk.len /\ c.FilePos = s.FilePos
        /\ c.FBufStart = s.FBufStart /\ c.MBuffer = s.MBuffer
    BY <2>2 DEF BFILE
  <2> HIDE DEF c
  <2>4. /\ View(r.b, disk) = disk /\ r.d = disk /\ r.b.FilePos = c.FilePos
    <3>1. s.FBufStart \in Int /\ (s.FBufStart > c.FLength => c.FBufStart >= c.FLength)
      BY <2>2, <2>3, SizeFacts
    <3> QED BY <1>1, <2>3, <3>1, FillHolds
  <2>5. Greater(s.FBufStart, 0) = s.FBufStart
    BY <2>2, SizeFacts DEF Greater
  <2>6. /\ r.b.FBufStart = s.FBufStart
        /\ \A j \in Slot :
             \/ r.b.MBuffer[j] = s.MBuffer[j]
             \/ /\ s.FBufStart + j < disk.len
                /\ r.b.MBuffer[j] = disk.data[s.FBufStart + j]
    <3>1. CASE s.FBufStart > c.FLength
      BY <2>3, <2>5, <3>1 DEF Fill, BFILE
    <3>2. CASE ~(s.FBufStart > c.FLength)
      <4> DEFINE n == Lesser(BufSize, c.FLength - s.FBufStart)
      <4>1. /\ r.b.FBufStart = s.FBufStart
            /\ r.b.MBuffer = [j \in Slot |-> IF j < n /\ s.FBufStart + j < disk.len
                                             THEN disk.data[s.FBufStart + j]
                                             ELSE c.MBuffer[j]]
        BY <2>3, <2>5, <3>2 DEF Fill, BFILE
      <4> HIDE DEF n, r
      <4> QED BY <2>3, <4>1
    <3> QED BY <3>1, <3>2
  <2> HIDE DEF r
  <2>7. Filled(s')
    <3> SUFFICES ASSUME NEW j \in Slot, j < Position(s'), Position(s') < BufSize
                 PROVE  s'.MBuffer[j] # Junk
      BY DEF Filled
    <3>1. Position(s') = Position(s)
      BY <2>1, <2>3, <2>4, <2>6 DEF Position
    <3>2. CASE s'.MBuffer[j] = s.MBuffer[j]
      BY <1>2, <2>1, <3>1, <3>2 DEF Filled
    <3>3. CASE s.FBufStart + j < disk.len /\ s'.MBuffer[j] = disk.data[s.FBufStart + j]
      <4>1. s.FBufStart + j \in Offset
        BY <2>2, <3>3, SizeFacts DEF Offset, Slot
      <4> QED BY <1>1, <3>3, <4>1
    <3> QED BY <2>1, <2>6, <3>2, <3>3
  <2>8. Pure(s', disk')
    BY <1>1, <1>6, <2>1, <2>4
  <2> QED BY <2>7, <2>8 DEF Pure
<1>17. CASE bioChSize
  <2> PICK k \in Accepted, n \in 0 .. MaxLen :
        /\ Ready
        /\ s.openmode = "rw"
        /\ IF n > s.FLength
             THEN LET r == Seek(s, disk, s.FLength, s.optimize, k)
                  IN  /\ s' = r.b
                      /\ disk' = r.d
                      /\ call' = [Returned(TRUE, <<>>) EXCEPT !.op = "write",
                                    !.rest = [i \in 1 .. n - s.FLength |-> Zero]]
             ELSE \E cut \in IF Faults THEN BOOLEAN ELSE {TRUE} :
                    LET r == Seek(s, disk, n, s.optimize, k)
                    IN  /\ s' = Shrunk(r.b, n)
                        /\ disk' = IF cut THEN Truncated(r.d, n) ELSE r.d
                        /\ call' = Returned(cut, <<>>)
    BY <1>17 DEF bioChSize
  <2>1. k = BufSize /\ s.open /\ BufSize \in 0 .. BufSize
    <3>1. k = BufSize
      BY FullWrites
    <3>2. s.open
      BY DEF Ready
    <3>3. BufSize \in 0 .. BufSize
      BY SizeFacts
    <3> QED BY <3>1, <3>2, <3>3
  <2>2. CASE n > s.FLength
    <3>1. /\ s' = Seek(s, disk, s.FLength, s.optimize, BufSize).b
          /\ disk' = Seek(s, disk, s.FLength, s.optimize, BufSize).d
      BY <2>1, <2>2
    <3>2. s.FLength \in Int /\ s.FLength \in 0 .. MaxLen /\ s.FLength <= s.FLength
      BY <1>2, <2>1, SizeFacts
    <3> QED BY <1>2, <2>1, <3>1, <3>2, SeekFilled
  <2>3. CASE ~(n > s.FLength)
    <3> DEFINE r == Seek(s, disk, n, s.optimize, BufSize)
    <3>1. s' = Shrunk(r.b, n) /\ disk' = Truncated(r.d, n)
      BY <2>1, <2>3
    <3>2. n \in Int /\ ~PastEnd(s, n)
      BY SizeFacts DEF PastEnd
    <3>3. /\ Held(r.b, r.d) /\ View(r.b, r.d) = View(s, disk)
          /\ Sane(r.b) /\ SameStream(s, r.b) /\ r.b.FilePos = n
      <4> HIDE DEF r
      <4>1. s.optimize \in Direction
        BY <1>2, <2>1 DEF Sane, BFILE
      <4>2. Held(r.b, r.d) /\ View(r.b, r.d) = View(s, disk)
        BY <1>2, <2>1, <3>2, <4>1, SeekHolds DEF r
      <4>3. Sane(r.b) /\ SameStream(s, r.b) /\ r.b.FilePos = n
        BY <1>1, <1>2, <2>1, <3>2, <4>1, SeekFits DEF r
      <4> QED BY <4>2, <4>3
    <3> HIDE DEF r
    <3>4. n <= r.b.FLength
      BY <1>2, <2>1, <2>3, <3>3 DEF SameStream
    <3>5. View(s', disk') = Truncated(View(s, disk), n) /\ s'.FilePos = n
      BY <3>1, <3>3, <3>4, ShrunkHolds, ShrunkFits
    <3>6. s'.FLength = n
      BY <3>5, ViewAt DEF Truncated
    <3>7. \A i \in Offset : Truncated(View(s, disk), n).data[i] # Junk
      BY <1>2, <2>1, SizeFacts DEF Truncated
    <3>8. Pure(s', disk')
      BY <1>6, <3>5, <3>7
    <3>9. s'.FilePos <= s'.FLength
      BY <3>2, <3>5, <3>6
    <3> QED BY <1>5, <3>8, <3>9 DEF Pure
  <2> QED BY <2>2, <2>3
<1>18. CASE bioSetOptimization
  <2>1. s.open /\ disk' = disk /\ \E dir \in Dirs : s' = [s EXCEPT !.optimize = dir]
    BY <1>18 DEF bioSetOptimization, Ready
  <2>2. s \in BFILE
    BY <1>2, <2>1 DEF Sane
  <2>3. /\ s'.FilePos = s.FilePos /\ s'.FBufStart = s.FBufStart
        /\ s'.MBuffer = s.MBuffer /\ s'.MBufLen = s.MBufLen
    BY <2>1, <2>2 DEF BFILE
  <2>4. Filled(s')
    BY <1>2, <2>1, <2>3 DEF Filled, Position
  <2>5. \A i \in Offset : At(s', disk', i) = At(s, disk, i)
    BY <2>1, <2>3 DEF At, InWindow
  <2> QED BY <1>2, <2>1, <2>4, <2>5 DEF Pure
<1> QED
  BY <1>7, <1>8, <1>9, <1>10, <1>11, <1>12, <1>13, <1>14, <1>15, <1>16, <1>17, <1>18
     DEF Next, Pure

(* While every write succeeds and no caller seeks past the end, what the   *)
(* allocator left in the buffer is neither stored nor read.                *)
THEOREM JunkStaysOut ==
  ASSUME Faults = FALSE, MaxGap = 0, NoJunkWritten
  PROVE  Spec => []NoJunk
<1>1. Init => AllWritten
  <2> SUFFICES ASSUME Init PROVE AllWritten
    OBVIOUS
  <2>1. /\ disk \in InitFiles /\ s.open = FALSE /\ call.got = <<>>
    BY DEF Init, NoStream, Returned
  <2>2. /\ \A i \in Offset : disk.data[i] # Junk
        /\ \A i \in 1 .. Len(call.got) : call.got[i] # Junk
    BY <2>1 DEF NoJunkWritten
  <2> QED BY <2>1, <2>2 DEF AllWritten, NoJunk, Contents
<1>2. Known /\ Known' /\ AllWritten /\ [Next]_vars => AllWritten'
  <2> SUFFICES ASSUME Known, Known', AllWritten, [Next]_vars PROVE AllWritten'
    OBVIOUS
  <2>1. CASE UNCHANGED vars
    BY <2>1 DEF vars, AllWritten, NoJunk, Contents
  <2>2. CASE Next /\ ~UNCHANGED vars
    <3>1. Stream!Next \/ UNCHANGED Stream!vars
      BY <2>2, StepKnown
    <3>2. /\ \A i \in Offset : disk'.data[i] # Junk
          /\ \A i \in 1 .. Len(call'.got) : call'.got[i] # Junk
      <4>1. CASE Stream!Next
        BY <4>1, StreamStepWritten DEF NoJunkWritten
      <4>2. CASE UNCHANGED Stream!vars
        BY <4>2 DEF Stream!vars, AllWritten, NoJunk
      <4> QED BY <3>1, <4>1, <4>2
    <3>3. s'.open => Filled(s') /\ \A i \in Offset : At(s', disk', i) # Junk
      BY <2>2, StepFilled DEF NoJunkWritten
    <3>4. \A i \in Offset : Contents'.data[i] # Junk
      BY <3>2, <3>3, ViewAt DEF Contents
    <3> QED BY <3>2, <3>3, <3>4 DEF AllWritten, NoJunk
  <2> QED BY <2>1, <2>2
<1>3. AllWritten => NoJunk
  BY DEF AllWritten
<1> QED
  BY <1>1, <1>2, <1>3, AlwaysKnown, PTL DEF Spec

-----------------------------------------------------------------------------
(* The insertion and the deletion of a block.                              *)
(* A block of the loops is a byte at least.                                *)
LEMMA EditFacts == /\ Block \in Nat /\ Block > 0
                   /\ MaxLen \in Nat
                   /\ Zero \in Cell /\ Junk \in Cell
                   /\ EditFaults \in BOOLEAN
                   /\ \A f \in Files : f \in File /\ ZeroPast(f)
BY BlockAssumption, SpaceAssumption DEF Cell

(* The smaller of two numbers.                                             *)
LEMMA LeastFacts ==
  ASSUME NEW m \in Nat, NEW n \in Nat
  PROVE  /\ Least(m, n) \in Nat
         /\ Least(m, n) <= m
         /\ Least(m, n) <= n
         /\ m > 0 /\ n > 0 => Least(m, n) > 0
BY DEF Least

(* What a resized file is.                                                 *)
LEMMA TruncatedFile ==
  ASSUME NEW f \in File, NEW n \in 0 .. MaxLen
  PROVE  /\ Truncated(f, n) \in File
         /\ ZeroPast(Truncated(f, n))
         /\ Truncated(f, n).len = n
         /\ \A i \in Offset : Truncated(f, n).data[i] = IF i < n THEN f.data[i] ELSE Zero
<1> DEFINE data == [i \in Offset |-> IF i < n THEN f.data[i] ELSE Zero]
<1>1. Truncated(f, n) = [len |-> n, data |-> data]
  BY DEF Truncated
<1>2. f.data \in [Offset -> Cell]
  BY DEF File
<1>3. data \in [Offset -> Cell]
  BY <1>2, EditFacts
<1>4. \A i \in Offset : data[i] = IF i < n THEN f.data[i] ELSE Zero
  OBVIOUS
<1> HIDE DEF data
<1>5. Truncated(f, n) \in File /\ Truncated(f, n).len = n /\ Truncated(f, n).data = data
  BY <1>1, <1>3 DEF File
<1>6. \A i \in Offset : i >= n => ~(i < n)
  BY EditFacts DEF Offset
<1> QED
  BY <1>4, <1>5, <1>6 DEF ZeroPast

(* What the buffer holds after a read.                                     *)
LEMMA ReadBuffer ==
  ASSUME NEW b \in Cells, NEW f \in File, NEW at \in Nat, NEW n \in 0 .. Block
  PROVE  /\ ReadInto(b, f, at, n) \in Cells
         /\ \A i \in 0 .. Block - 1 :
              i < n /\ at + i < f.len => ReadInto(b, f, at, n)[i] = f.data[at + i]
<1>1. f.data \in [Offset -> Cell] /\ f.len \in 0 .. MaxLen
  BY DEF File
<1>2. \A i \in 0 .. Block - 1 : at + i < f.len => at + i \in Offset
  BY <1>1, EditFacts DEF Offset
<1>3. \A i \in 0 .. Block - 1 : at + i < f.len => f.data[at + i] \in Cell
  BY <1>1, <1>2
<1>4. \A i \in 0 .. Block - 1 : b[i] \in Cell
  BY DEF Cells
<1> QED
  BY <1>3, <1>4 DEF ReadInto, Cells

(* What the file is after a write.                                         *)
LEMMA WrittenFile ==
  ASSUME NEW f \in File, NEW b \in Cells, NEW at \in Nat, NEW n \in 0 .. Block,
         at + n <= f.len
  PROVE  /\ Written(f, at, b, n) \in File
         /\ Written(f, at, b, n).len = f.len
         /\ \A i \in Offset : i < at \/ i >= at + n
                                => Written(f, at, b, n).data[i] = f.data[i]
         /\ \A i \in Offset : i >= at /\ i < at + n
                                => Written(f, at, b, n).data[i] = b[i - at]
<1> DEFINE data == [i \in Offset |-> IF i \in at .. at + n - 1 THEN b[i - at]
                                                              ELSE f.data[i]]
           len  == IF n > 0 /\ at + n > f.len THEN at + n ELSE f.len
<1>1. Written(f, at, b, n) = [len |-> len, data |-> data]
  BY DEF Written
<1>2. f.data \in [Offset -> Cell] /\ f.len \in 0 .. MaxLen
  BY DEF File
<1>3. len = f.len
  BY <1>2, EditFacts
<1>4. \A i \in Offset : i \in at .. at + n - 1 <=> i >= at /\ i < at + n
  BY EditFacts DEF Offset
<1>5. \A i \in Offset : i \in at .. at + n - 1 => i - at \in 0 .. Block - 1
  BY EditFacts DEF Offset
<1>6. \A i \in Offset : i \in at .. at + n - 1 => b[i - at] \in Cell
  BY <1>5 DEF Cells
<1>7. data \in [Offset -> Cell]
  BY <1>2, <1>6
<1>8. \A i \in Offset : data[i] = IF i \in at .. at + n - 1 THEN b[i - at] ELSE f.data[i]
  OBVIOUS
<1> HIDE DEF data, len
<1>9. /\ Written(f, at, b, n) \in File /\ Written(f, at, b, n).len = f.len
      /\ Written(f, at, b, n).data = data
  BY <1>1, <1>2, <1>3, <1>7 DEF File
<1>10. \A i \in Offset : i < at \/ i >= at + n => ~(i \in at .. at + n - 1)
  BY EditFacts DEF Offset
<1> QED
  BY <1>4, <1>8, <1>9, <1>10

-----------------------------------------------------------------------------
(* What was asked for fits the file it was asked of.                       *)
Asked ==
  LET was == job.was
  IN  /\ ZeroPast(was)
      /\ pc # "idle" => job.op \in {"insert", "delete"}
      /\ job.op \in {"insert", "delete"} => job.start <= was.len /\ job.psize > 0
      /\ job.op = "insert" => was.len + job.psize <= MaxLen
      /\ job.op = "delete" => job.start + job.psize <= was.len

Exact == InsertionIsExact /\ DeletionIsExact

(* The inductive invariant.                                                *)
EditInv == EditTypeOK /\ Asked /\ ZeroPast(file) /\ Halfway /\ Exact

(* The fields of an edit that is running keep their ranges.                *)
LEMMA JobType ==
  ASSUME EditTypeOK
  PROVE  /\ file \in File /\ file.len \in 0 .. MaxLen
         /\ file.data \in [Offset -> Cell]
         /\ job.was \in File /\ job.was.len \in 0 .. MaxLen
         /\ job.was.data \in [Offset -> Cell]
         /\ job.start \in 0 .. MaxLen /\ job.psize \in 0 .. MaxLen
         /\ buffer \in Cells
         /\ tile \in Nat /\ crpos \in Nat /\ cwpos \in Nat /\ left \in Nat
         /\ numtowrite \in 0 .. Block /\ numtowrite \in Nat
         /\ ret \in BOOLEAN
<1>1. /\ {tile, crpos, cwpos, left} \subseteq 0 .. 2 * MaxLen
      /\ numtowrite \in 0 .. Block
  BY DEF EditTypeOK
<1>2. 0 .. 2 * MaxLen \subseteq Nat /\ 0 .. Block \subseteq Nat
  BY EditFacts
<1>3. tile \in Nat /\ crpos \in Nat /\ cwpos \in Nat /\ left \in Nat /\ numtowrite \in Nat
  BY <1>1, <1>2
<1> QED
  BY <1>1, <1>3 DEF EditTypeOK, File

(* The initial states.                                                     *)
LEMMA InitEditInv == InitEdit => EditInv
<1> SUFFICES ASSUME InitEdit PROVE EditInv
  OBVIOUS
<1>1. file \in File /\ ZeroPast(file)
  BY EditFacts DEF InitEdit
<1>2. [i \in 0 .. Block - 1 |-> Junk] \in Cells
  BY EditFacts DEF Cells
<1>3. {tile, crpos, cwpos, left} \subseteq 0 .. 2 * MaxLen /\ numtowrite \in 0 .. Block
  BY EditFacts DEF InitEdit
<1>4. job \in [op : {"none", "resize", "insert", "delete"},
               start : 0 .. MaxLen, psize : 0 .. MaxLen, was : File]
  BY <1>1, EditFacts DEF InitEdit
<1>5. EditTypeOK
  BY <1>1, <1>2, <1>3, <1>4 DEF InitEdit, EditTypeOK
<1>6. pc = "idle" /\ job.op = "none" /\ job.was = file
  BY DEF InitEdit
<1> QED
  BY <1>1, <1>5, <1>6
     DEF EditInv, Asked, Halfway, Exact, InsertionIsExact, DeletionIsExact

-----------------------------------------------------------------------------
(* One chunk of an insertion.                                              *)
LEMMA InsMoveInv == EditInv /\ InsMove => EditInv'
<1> SUFFICES ASSUME EditInv, InsMove PROVE EditInv'
  OBVIOUS
<1> DEFINE was == job.was   S == job.start   n == job.psize   k == numtowrite
<1>1. EditTypeOK /\ InsMoving /\ pc = "ins_move" /\ pc' = pc /\ job' = job
      /\ left' = left /\ ret' = ret /\ tile > 0
  BY DEF InsMove, EditInv, Halfway
<1>2. /\ job.op = "insert" /\ ZeroPast(was) /\ S <= was.len /\ n > 0
      /\ was.len + n <= MaxLen
  BY <1>1 DEF EditInv, Asked, InsMoving
<1>3. /\ file.len = was.len + n /\ tile <= was.len - S /\ k = Least(tile, Block)
      /\ crpos = S + tile - k /\ cwpos = crpos + n /\ left = n
  BY <1>1 DEF InsMoving
<1>4. k > 0 /\ k <= tile /\ k <= Block
  BY <1>1, <1>3, JobType, LeastFacts, EditFacts
<1>5. cwpos + k <= file.len /\ cwpos + k = S + tile + n /\ crpos + k = S + tile
  BY <1>2, <1>3, <1>4, <1>1, JobType, EditFacts
<1>6. buffer' = ReadInto(buffer, file, crpos, k) /\ file' = Written(file, cwpos, buffer', k)
      /\ tile' = tile - k /\ numtowrite' = Least(tile', Block)
      /\ crpos' = crpos - numtowrite' /\ cwpos' = cwpos - numtowrite'
  BY DEF InsMove
<1>7. /\ buffer' \in Cells
      /\ \A i \in 0 .. Block - 1 : i < k /\ crpos + i < file.len
                                     => buffer'[i] = file.data[crpos + i]
  BY <1>1, <1>6, JobType, ReadBuffer
<1>8. /\ file' \in File /\ file'.len = file.len
      /\ \A i \in Offset : i < cwpos \/ i >= cwpos + k => file'.data[i] = file.data[i]
      /\ \A i \in Offset : i >= cwpos /\ i < cwpos + k => file'.data[i] = buffer'[i - cwpos]
  BY <1>1, <1>5, <1>6, <1>7, JobType, WrittenFile
<1>9. tile' \in Nat /\ tile' <= tile
  BY <1>1, <1>4, <1>6, JobType, EditFacts
<1>10. /\ numtowrite' \in 0 .. Block /\ numtowrite' <= tile'
  BY <1>9, <1>6, LeastFacts, EditFacts
<1>11. /\ crpos' = S + tile' - numtowrite' /\ cwpos' = crpos' + n
       /\ crpos' \in Nat /\ cwpos' \in Nat /\ crpos' <= MaxLen /\ cwpos' <= MaxLen
       /\ tile' <= MaxLen
  BY <1>1, <1>2, <1>3, <1>4, <1>6, <1>9, <1>10, JobType, EditFacts
<1>12. EditTypeOK'
  <2>1. {tile', crpos', cwpos', left'} \subseteq 0 .. 2 * MaxLen
    BY <1>1, <1>3, <1>9, <1>11, JobType, EditFacts
  <2> QED
    BY <1>1, <1>7, <1>8, <1>10, <2>1 DEF EditTypeOK
<1>13. ASSUME NEW i \in Offset, i < S + tile'
       PROVE  file'.data[i] = was.data[i]
  <2>1. /\ i \in Int /\ S \in Int /\ n \in Int /\ k \in Int /\ tile \in Int
        /\ cwpos \in Int
    BY <1>1, JobType, EditFacts DEF Offset
  <2>2. tile' = tile - k /\ k > 0 /\ n > 0 /\ cwpos + k = S + tile + n /\ i < S + tile'
    BY <1>2, <1>4, <1>5, <1>6, <1>13
  <2>3. i < cwpos /\ i < S + tile
    BY <2>1, <2>2
  <2>4. file.data[i] = was.data[i]
    BY <1>1, <2>3 DEF InsMoving
  <2> QED
    BY <1>8, <2>3, <2>4
<1>14. ASSUME NEW i \in Offset, i >= S + tile', i < was.len
       PROVE  file'.data[i + n] = was.data[i]
  <2>1. i + n \in Offset /\ i \in Int
    BY <1>1, <1>2, <1>14, JobType, EditFacts DEF Offset
  <2>2. CASE i >= S + tile
    <3>1. i + n >= cwpos + k
      BY <1>1, <1>5, <2>1, <2>2, JobType, EditFacts
    <3>2. file.data[i + n] = was.data[i]
      BY <1>1, <1>14, <2>2 DEF InsMoving
    <3> QED
      BY <1>8, <2>1, <3>1, <3>2
  <2>3. CASE i < S + tile
    <3>1. i >= crpos /\ i < crpos + k
      BY <1>1, <1>3, <1>5, <1>6, <1>14, <2>1, <2>3, JobType, EditFacts
    <3>2. i + n >= cwpos /\ i + n < cwpos + k /\ (i + n) - cwpos = i - crpos
      BY <1>1, <1>3, <2>1, <3>1, JobType, EditFacts
    <3>3. i - crpos \in 0 .. Block - 1 /\ i - crpos < k /\ crpos + (i - crpos) = i
          /\ i < file.len
      BY <1>1, <1>2, <1>3, <1>4, <1>14, <2>1, <3>1, JobType, EditFacts
    <3>4. buffer'[i - crpos] = file.data[i]
      BY <1>7, <3>3
    <3>5. file.data[i] = was.data[i]
      BY <1>1, <2>3 DEF InsMoving
    <3> QED
      BY <1>8, <2>1, <3>2, <3>4, <3>5
  <2> QED
    BY <2>1, <2>2, <2>3, <1>1, JobType
<1>15. InsMoving'
  BY <1>1, <1>2, <1>3, <1>6, <1>8, <1>9, <1>11, <1>13, <1>14, JobType, EditFacts
     DEF InsMoving
<1>16. ZeroPast(file')
  <2>1. \A i \in Offset : i >= file.len => i >= cwpos + k
    BY <1>1, <1>5, JobType, EditFacts DEF Offset
  <2>2. \A i \in Offset : i >= file.len => file.data[i] = Zero
    BY DEF EditInv, ZeroPast
  <2> QED
    BY <1>8, <2>1, <2>2 DEF ZeroPast
<1>17. Asked'
  BY <1>1 DEF EditInv, Asked
<1>18. Exact'
  BY <1>1 DEF Exact, InsertionIsExact, DeletionIsExact
<1> QED
  BY <1>1, <1>12, <1>15, <1>16, <1>17, <1>18 DEF EditInv, Halfway

(* All is moved, and the buffer is cleared.                                *)
LEMMA InsMovedInv == EditInv /\ InsMoved => EditInv'
<1> SUFFICES ASSUME EditInv, InsMoved PROVE EditInv'
  OBVIOUS
<1> DEFINE was == job.was   S == job.start   n == job.psize
<1>1. /\ EditTypeOK /\ InsMoving /\ pc = "ins_move" /\ pc' = "ins_zero" /\ tile = 0
      /\ file' = file /\ job' = job /\ ret' = ret /\ left' = left
      /\ crpos' = crpos /\ numtowrite' = numtowrite
      /\ tile' = was.len - S /\ cwpos' = S
      /\ buffer' = [i \in 0 .. Block - 1 |-> Zero]
  BY DEF InsMoved, EditInv, Halfway
<1>2. ZeroPast(was) /\ S <= was.len
  BY <1>1 DEF EditInv, Asked, InsMoving
<1>3. buffer' \in Cells /\ \A i \in 0 .. Block - 1 : buffer'[i] = Zero
  BY <1>1, EditFacts DEF Cells
<1>4. tile' \in 0 .. 2 * MaxLen /\ cwpos' \in 0 .. 2 * MaxLen
  BY <1>1, <1>2, JobType, EditFacts
<1>5. EditTypeOK'
  BY <1>1, <1>3, <1>4 DEF EditTypeOK
<1>6. \A i \in Offset : i \in Int
  BY EditFacts DEF Offset
<1>7. InsZeroing'
  <2>0. S + tile = S
    BY <1>1, JobType
  <2>1. \A i \in Offset : i < S => file.data[i] = was.data[i]
    BY <1>1, <2>0 DEF InsMoving
  <2>2. \A i \in Offset : i >= S /\ i < was.len => file.data[i + n] = was.data[i]
    BY <1>1, <2>0 DEF InsMoving
  <2>3. /\ job.op = "insert" /\ file.len = was.len + n /\ cwpos' >= S
        /\ cwpos' + left' = S + n
    BY <1>1, JobType DEF InsMoving
  <2>4. \A i \in Offset : ~(i >= S /\ i < cwpos')
    BY <1>1, <1>6, JobType, EditFacts
  <2> QED
    BY <1>1, <1>3, <2>1, <2>2, <2>3, <2>4 DEF InsZeroing
<1>8. Asked' /\ ZeroPast(file)'
  BY <1>1 DEF EditInv, Asked, ZeroPast
<1> QED
  BY <1>1, <1>5, <1>7, <1>8
     DEF EditInv, Halfway, Exact, InsertionIsExact, DeletionIsExact

(* One chunk of zeros.                                                     *)
LEMMA InsZeroInv == EditInv /\ InsZero => EditInv'
<1> SUFFICES ASSUME EditInv, InsZero PROVE EditInv'
  OBVIOUS
<1> DEFINE was == job.was   S == job.start   n == job.psize   k == numtowrite'
<1>1. /\ EditTypeOK /\ InsZeroing /\ pc = "ins_zero" /\ pc' = pc /\ job' = job
      /\ buffer' = buffer /\ tile' = tile /\ crpos' = crpos /\ ret' = ret
      /\ left > 0 /\ k = Least(left, Block)
      /\ file' = Written(file, cwpos, buffer, k)
      /\ left' = left - k /\ cwpos' = cwpos + k
  BY DEF InsZero, EditInv, Halfway
<1>2. k \in Nat /\ k > 0 /\ k <= left /\ k <= Block /\ k \in 0 .. Block
  BY <1>1, JobType, LeastFacts, EditFacts
<1>3. /\ job.op = "insert" /\ file.len = was.len + n /\ cwpos >= S
      /\ cwpos + left = S + n
  BY <1>1 DEF InsZeroing
<1>4. S <= was.len /\ was.len + n <= MaxLen
  BY <1>1, <1>3 DEF EditInv, Asked
<1>5. cwpos + k <= file.len /\ cwpos' <= MaxLen
  BY <1>1, <1>2, <1>3, <1>4, JobType, EditFacts
<1>6. /\ file' \in File /\ file'.len = file.len
      /\ \A i \in Offset : i < cwpos \/ i >= cwpos + k => file'.data[i] = file.data[i]
      /\ \A i \in Offset : i >= cwpos /\ i < cwpos + k => file'.data[i] = buffer[i - cwpos]
  BY <1>1, <1>2, <1>5, JobType, WrittenFile
<1>7. left' \in Nat /\ cwpos' \in Nat /\ left' <= left /\ cwpos' >= S
      /\ cwpos' + left' = S + n
  BY <1>1, <1>2, <1>3, JobType
<1>8. EditTypeOK'
  <2>1. left <= 2 * MaxLen
    BY <1>1, EditFacts DEF EditTypeOK
  <2>2. left' \in 0 .. 2 * MaxLen /\ cwpos' \in 0 .. 2 * MaxLen
    BY <1>1, <1>5, <1>7, <2>1, JobType, EditFacts
  <2> QED
    BY <1>1, <1>2, <1>6, <2>2 DEF EditTypeOK
<1>9. \A i \in Offset : i \in Int /\ i + n \in Int
  BY <1>1, JobType, EditFacts DEF Offset
<1>10. ASSUME NEW i \in Offset, i < S
       PROVE  file'.data[i] = was.data[i]
  <2>1. i < cwpos
    BY <1>1, <1>3, <1>9, <1>10, JobType
  <2>2. file.data[i] = was.data[i]
    BY <1>1, <1>10 DEF InsZeroing
  <2> QED
    BY <1>6, <2>1, <2>2
<1>11. ASSUME NEW i \in Offset, i >= S, i < cwpos'
       PROVE  file'.data[i] = Zero
  <2>1. CASE i < cwpos
    <3>1. file.data[i] = Zero
      BY <1>1, <1>11, <2>1 DEF InsZeroing
    <3> QED
      BY <1>6, <2>1, <3>1
  <2>2. CASE i >= cwpos
    <3>1. i - cwpos \in 0 .. Block - 1 /\ i < cwpos + k
      BY <1>1, <1>2, <1>9, <1>11, <2>2, JobType, EditFacts
    <3>2. buffer[i - cwpos] = Zero
      BY <1>1, <3>1 DEF InsZeroing
    <3> QED
      BY <1>6, <2>2, <3>1, <3>2
  <2> QED
    BY <1>1, <1>9, <2>1, <2>2, JobType
<1>12. ASSUME NEW i \in Offset, i >= S, i < was.len
       PROVE  file'.data[i + n] = was.data[i]
  <2>0. i \in Nat /\ n \in Nat /\ was.len \in Nat /\ MaxLen \in Nat
    BY <1>1, JobType, EditFacts DEF Offset
  <2>1. i + n \in Offset
    BY <1>4, <1>12, <2>0 DEF Offset
  <2>2. i + n >= cwpos + k
    BY <1>1, <1>2, <1>3, <1>9, <1>12, JobType
  <2>3. file.data[i + n] = was.data[i]
    BY <1>1, <1>12 DEF InsZeroing
  <2> QED
    BY <1>6, <2>1, <2>2, <2>3
<1>13. InsZeroing'
  <2>1. \A i \in 0 .. Block - 1 : buffer[i] = Zero
    BY <1>1 DEF InsZeroing
  <2> QED
    BY <1>1, <1>3, <1>6, <1>7, <1>10, <1>11, <1>12, <2>1 DEF InsZeroing
<1>14. ZeroPast(file')
  <2>1. \A i \in Offset : i >= file.len => i >= cwpos + k
    BY <1>1, <1>2, <1>5, <1>9, JobType
  <2>2. \A i \in Offset : i >= file.len => file.data[i] = Zero
    BY DEF EditInv, ZeroPast
  <2> QED
    BY <1>6, <2>1, <2>2 DEF ZeroPast
<1>15. Asked'
  BY <1>1 DEF EditInv, Asked
<1> QED
  BY <1>1, <1>8, <1>13, <1>14, <1>15
     DEF EditInv, Halfway, Exact, InsertionIsExact, DeletionIsExact

(* The insertion is done, and exact.                                       *)
LEMMA InsDoneInv == EditInv /\ InsDone => EditInv'
<1> SUFFICES ASSUME EditInv, InsDone PROVE EditInv'
  OBVIOUS
<1> DEFINE was == job.was   S == job.start   n == job.psize
           data == [i \in Offset |-> IF i < S THEN was.data[i]
                                     ELSE IF i < S + n THEN Zero
                                     ELSE was.data[i - n]]
<1>1. /\ EditTypeOK /\ InsZeroing /\ pc' = "idle" /\ ret' = TRUE /\ left = 0
      /\ file' = file /\ job' = job
      /\ UNCHANGED <<buffer, tile, crpos, cwpos, numtowrite, left>>
  BY DEF InsDone, Give, EditInv, Halfway
<1>2. /\ ZeroPast(was) /\ ZeroPast(file) /\ S <= was.len /\ n > 0
      /\ job.op = "insert" /\ was.len + n <= MaxLen
  BY <1>1 DEF EditInv, Asked, InsZeroing
<1>3. EditTypeOK'
  BY <1>1 DEF EditTypeOK
<1>4. cwpos = S + n /\ file.len = was.len + n
  BY <1>1, JobType DEF InsZeroing
<1>5. \A i \in Offset : i \in Int
  BY EditFacts DEF Offset
<1>6. ASSUME NEW i \in Offset PROVE file.data[i] = data[i]
  <2>1. CASE i < S
    BY <1>1, <2>1 DEF InsZeroing
  <2>2. CASE i >= S /\ i < S + n
    <3>1. file.data[i] = Zero
      BY <1>1, <1>4, <2>2 DEF InsZeroing
    <3>2. ~(i < S)
      BY <1>1, <1>5, <2>2, JobType
    <3> QED
      BY <2>2, <3>1, <3>2
  <2>3. CASE i >= S + n /\ i < was.len + n
    <3>0. /\ i \in Nat /\ n \in Nat /\ S \in Nat /\ was.len \in Nat /\ MaxLen \in Nat
          /\ i < MaxLen
      BY <1>1, JobType, EditFacts DEF Offset
    <3>1. i - n \in Offset /\ i - n >= S /\ i - n < was.len /\ (i - n) + n = i
      BY <1>2, <2>3, <3>0 DEF Offset
    <3>2. file.data[i] = was.data[i - n]
      BY <1>1, <3>1 DEF InsZeroing
    <3>3. ~(i < S) /\ ~(i < S + n)
      BY <1>1, <1>5, <2>3, JobType
    <3> QED
      BY <3>2, <3>3
  <2>4. CASE i >= was.len + n
    <3>1. i - n \in Offset /\ i - n >= was.len /\ i >= file.len
      BY <1>1, <1>2, <1>4, <1>5, <2>4, JobType, EditFacts DEF Offset
    <3>2. file.data[i] = Zero /\ was.data[i - n] = Zero
      BY <1>2, <3>1 DEF ZeroPast
    <3>3. ~(i < S) /\ ~(i < S + n)
      BY <1>1, <1>2, <1>5, <2>4, JobType
    <3> QED
      BY <3>2, <3>3
  <2> QED
    BY <1>1, <1>5, <2>1, <2>2, <2>3, <2>4, JobType
<1>7. file.data = data
  BY <1>1, <1>6, JobType
<1> HIDE DEF data
<1>8. file = [len |-> was.len + n, data |-> data]
  BY <1>1, <1>4, <1>7 DEF EditTypeOK, File
<1>9. file = Inserted(was, S, n)
  BY <1>8 DEF Inserted, data
<1>10. Exact'
  BY <1>1, <1>2, <1>9 DEF Exact, InsertionIsExact, DeletionIsExact
<1>11. Asked'
  BY <1>1 DEF EditInv, Asked
<1> QED
  BY <1>1, <1>2, <1>3, <1>10, <1>11 DEF EditInv, Halfway, ZeroPast

-----------------------------------------------------------------------------
(* One chunk of a deletion.                                                *)
LEMMA DelMoveInv == EditInv /\ DelMove => EditInv'
<1> SUFFICES ASSUME EditInv, DelMove PROVE EditInv'
  OBVIOUS
<1> DEFINE was == job.was   S == job.start   n == job.psize   k == numtowrite'
<1>1. /\ EditTypeOK /\ DelMoving /\ pc = "del_move" /\ pc' = pc /\ job' = job
      /\ left' = left /\ ret' = ret /\ tile > 0 /\ k = Least(tile, Block)
      /\ buffer' = ReadInto(buffer, file, crpos, k)
      /\ file' = Written(file, cwpos, buffer', k)
      /\ tile' = tile - k /\ crpos' = crpos + k /\ cwpos' = cwpos + k
  BY DEF DelMove, EditInv, Halfway
<1>2. k \in Nat /\ k > 0 /\ k <= tile /\ k <= Block /\ k \in 0 .. Block
  BY <1>1, JobType, LeastFacts, EditFacts
<1>3. /\ job.op = "delete" /\ file.len = was.len /\ tile <= was.len - S
      /\ cwpos = was.len - tile /\ crpos = cwpos + n
  BY <1>1 DEF DelMoving
<1>4. n > 0 /\ S + n <= was.len
  BY <1>1, <1>3 DEF EditInv, Asked
<1>5. /\ S \in Nat /\ n \in Nat /\ was.len \in Nat /\ tile \in Nat /\ cwpos \in Nat
      /\ crpos \in Nat /\ MaxLen \in Nat /\ was.len <= MaxLen
  BY <1>1, JobType, EditFacts
<1>6. cwpos + k <= file.len /\ cwpos >= S /\ n <= MaxLen
  BY <1>2, <1>3, <1>4, <1>5
<1>7. /\ buffer' \in Cells
      /\ \A i \in 0 .. Block - 1 : i < k /\ crpos + i < file.len
                                     => buffer'[i] = file.data[crpos + i]
  BY <1>1, <1>2, JobType, ReadBuffer
<1>8. /\ file' \in File /\ file'.len = file.len
      /\ \A i \in Offset : i < cwpos \/ i >= cwpos + k => file'.data[i] = file.data[i]
      /\ \A i \in Offset : i >= cwpos /\ i < cwpos + k => file'.data[i] = buffer'[i - cwpos]
  BY <1>1, <1>2, <1>6, <1>7, JobType, WrittenFile
<1>9. /\ tile' \in Nat /\ cwpos' = was.len - tile' /\ tile' <= was.len - S
      /\ crpos' = cwpos' + n /\ crpos' \in Nat /\ cwpos' \in Nat
      /\ cwpos' <= MaxLen /\ crpos' <= 2 * MaxLen /\ tile' <= 2 * MaxLen
  BY <1>1, <1>2, <1>3, <1>5, <1>6
<1>10. EditTypeOK'
  <2>1. {tile', crpos', cwpos', left'} \subseteq 0 .. 2 * MaxLen
    <3>1. left \in 0 .. 2 * MaxLen
      BY <1>1 DEF EditTypeOK
    <3> QED
      BY <1>1, <1>5, <1>9, <3>1
  <2> QED
    BY <1>1, <1>2, <1>7, <1>8, <2>1 DEF EditTypeOK
<1>11. \A i \in Offset : i \in Nat /\ i < MaxLen
  BY EditFacts DEF Offset
<1>12. ASSUME NEW i \in Offset, i < S
       PROVE  file'.data[i] = was.data[i]
  <2>1. i < cwpos
    BY <1>5, <1>6, <1>11, <1>12
  <2>2. file.data[i] = was.data[i]
    BY <1>1, <1>12 DEF DelMoving
  <2> QED
    BY <1>8, <2>1, <2>2
<1>13. ASSUME NEW i \in Offset, i >= S, i < cwpos', i + n < was.len
       PROVE  file'.data[i] = was.data[i + n]
  <2>1. CASE i < cwpos
    <3>1. file.data[i] = was.data[i + n]
      BY <1>1, <1>13, <2>1 DEF DelMoving
    <3> QED
      BY <1>8, <2>1, <3>1
  <2>2. CASE i >= cwpos
    <3>1. /\ i - cwpos \in 0 .. Block - 1 /\ i - cwpos < k
          /\ crpos + (i - cwpos) = i + n /\ i + n < file.len
          /\ i + n \in Offset /\ i + n >= cwpos /\ i < cwpos + k
      BY <1>1, <1>2, <1>3, <1>5, <1>11, <1>13, <2>2, EditFacts DEF Offset
    <3>2. buffer'[i - cwpos] = file.data[i + n]
      BY <1>7, <3>1
    <3>3. file.data[i + n] = was.data[i + n]
      BY <1>1, <3>1 DEF DelMoving
    <3> QED
      BY <1>8, <2>2, <3>1, <3>2, <3>3
  <2> QED
    BY <1>5, <1>11, <2>1, <2>2
<1>14. ASSUME NEW i \in Offset, i >= cwpos'
       PROVE  file'.data[i] = was.data[i]
  <2>1. i >= cwpos + k /\ i >= cwpos
    BY <1>1, <1>2, <1>5, <1>11, <1>14
  <2>2. file.data[i] = was.data[i]
    BY <1>1, <2>1 DEF DelMoving
  <2> QED
    BY <1>8, <2>1, <2>2
<1>15. DelMoving'
  BY <1>1, <1>3, <1>8, <1>9, <1>12, <1>13, <1>14 DEF DelMoving
<1>16. ZeroPast(file')
  <2>1. \A i \in Offset : i >= file.len => i >= cwpos + k
    BY <1>2, <1>3, <1>5, <1>6, <1>11
  <2>2. \A i \in Offset : i >= file.len => file.data[i] = Zero
    BY DEF EditInv, ZeroPast
  <2> QED
    BY <1>8, <2>1, <2>2 DEF ZeroPast
<1>17. Asked'
  BY <1>1 DEF EditInv, Asked
<1> QED
  BY <1>1, <1>10, <1>15, <1>16, <1>17
     DEF EditInv, Halfway, Exact, InsertionIsExact, DeletionIsExact

(* The deletion is done, and exact if the file could be cut.               *)
LEMMA DelTruncInv == EditInv /\ DelTrunc => EditInv'
<1> SUFFICES ASSUME EditInv, DelTrunc PROVE EditInv'
  OBVIOUS
<1> DEFINE was == job.was   S == job.start   n == job.psize
           data == [i \in Offset |-> IF i < S THEN was.data[i]
                                     ELSE IF i < was.len - n THEN was.data[i + n]
                                     ELSE Zero]
<1>1. /\ EditTypeOK /\ DelMoving /\ tile = 0 /\ pc' = "idle" /\ job' = job
      /\ \/ file' = Truncated(file, was.len - n)
         \/ EditFaults /\ file' = file
      /\ UNCHANGED <<buffer, tile, crpos, cwpos, numtowrite, left>> /\ ret' = TRUE
  BY DEF DelTrunc, Give, EditInv, Halfway
<1>2. job.op = "delete" /\ file.len = was.len /\ cwpos = was.len
  BY <1>1, JobType DEF DelMoving
<1>3. n > 0 /\ S + n <= was.len
  BY <1>1, <1>2 DEF EditInv, Asked
<1>4. /\ S \in Nat /\ n \in Nat /\ was.len \in Nat /\ MaxLen \in Nat
      /\ was.len <= MaxLen /\ was.len - n \in 0 .. MaxLen
  BY <1>1, <1>3, JobType, EditFacts
<1>5. file' \in File /\ ZeroPast(file')
  BY <1>1, <1>4, JobType, TruncatedFile DEF EditInv
<1>6. EditTypeOK'
  BY <1>1, <1>5 DEF EditTypeOK
<1>7. Asked'
  BY <1>1 DEF EditInv, Asked
<1>8. CASE file' = Truncated(file, was.len - n)
  <2>1. /\ file'.len = was.len - n
        /\ \A i \in Offset : file'.data[i] = IF i < was.len - n THEN file.data[i] ELSE Zero
    BY <1>1, <1>4, <1>8, JobType, TruncatedFile
  <2>2. \A i \in Offset : i \in Nat /\ i < MaxLen
    BY EditFacts DEF Offset
  <2>3. ASSUME NEW i \in Offset PROVE file'.data[i] = data[i]
    <3>1. CASE i < S
      <4>1. i < was.len - n
        BY <1>3, <1>4, <2>2, <3>1
      <4>2. file.data[i] = was.data[i]
        BY <1>1, <3>1 DEF DelMoving
      <4> QED
        BY <2>1, <3>1, <4>1, <4>2
    <3>2. CASE i >= S /\ i < was.len - n
      <4>1. ~(i < S) /\ i < cwpos /\ i + n < was.len
        BY <1>2, <1>4, <2>2, <3>2
      <4>2. file.data[i] = was.data[i + n]
        BY <1>1, <3>2, <4>1 DEF DelMoving
      <4> QED
        BY <2>1, <3>2, <4>1, <4>2
    <3>3. CASE i >= was.len - n
      <4>1. ~(i < S) /\ ~(i < was.len - n)
        BY <1>3, <1>4, <2>2, <3>3
      <4> QED
        BY <2>1, <4>1
    <3> QED
      BY <1>4, <2>2, <3>1, <3>2, <3>3
  <2>4. file'.data \in [Offset -> Cell]
    BY <1>5 DEF File
  <2>5. file'.data = data
    BY <2>3, <2>4
  <2> HIDE DEF data
  <2>6. file' = [len |-> was.len - n, data |-> data]
    BY <1>5, <2>1, <2>5 DEF File
  <2>7. file' = Deleted(was, S, n)
    BY <2>6 DEF Deleted, data
  <2>8. Exact'
    BY <1>1, <1>2, <2>7 DEF Exact, InsertionIsExact, DeletionIsExact
  <2> QED
    BY <1>1, <1>5, <1>6, <1>7, <2>8 DEF EditInv, Halfway
<1>9. CASE file' = file
  <2>1. Exact'
    BY <1>1, <1>2, <1>9 DEF Exact, InsertionIsExact, DeletionIsExact
  <2> QED
    BY <1>1, <1>5, <1>6, <1>7, <2>1 DEF EditInv, Halfway
<1> QED
  BY <1>1, <1>8, <1>9

-----------------------------------------------------------------------------
(* A question asked gives a well-formed job.                               *)
LEMMA AskedJob ==
  ASSUME EditTypeOK, ZeroPast(file), NEW op \in {"insert", "delete"},
         NEW start \in 0 .. MaxLen, NEW n \in 1 .. MaxLen, Ask(op, start, n)
  PROVE  /\ job' \in [op : {"none", "resize", "insert", "delete"},
                      start : 0 .. MaxLen, psize : 0 .. MaxLen, was : File]
         /\ job'.op = op /\ job'.start = start /\ job'.psize = n /\ job'.was = file
         /\ Asked'
<1>1. job' = [op |-> op, start |-> start, psize |-> n, was |-> file]
  BY DEF Ask
<1>2. /\ job'.op = op /\ job'.start = start /\ job'.psize = n /\ job'.was = file
  BY <1>1
<1>3. n \in 0 .. MaxLen /\ n > 0 /\ file \in File
  BY EditFacts DEF EditTypeOK
<1>4. /\ start <= file.len
      /\ op = "insert" => file.len + n <= MaxLen
      /\ op = "delete" => start + n <= file.len
  BY DEF Ask
<1> QED
  BY <1>1, <1>2, <1>3, <1>4 DEF Asked

(* The operations that end at once.                                        *)
LEMMA AtOnceInv ==
  EditInv /\ (ChSize \/ ExpandFails \/ \E op \in {"insert", "delete"} : NoMemory(op))
    => EditInv'
<1> SUFFICES ASSUME EditInv,
                    ChSize \/ ExpandFails \/ \E op \in {"insert", "delete"} : NoMemory(op)
             PROVE  EditInv'
  OBVIOUS
<1>1. EditTypeOK /\ ZeroPast(file)
  BY DEF EditInv
<1>2. ASSUME file' \in File, ZeroPast(file'),
             job' \in [op : {"none", "resize", "insert", "delete"},
                       start : 0 .. MaxLen, psize : 0 .. MaxLen, was : File],
             Asked', \E answer \in BOOLEAN : Give(answer),
             job'.op = "resize" \/ ret' = FALSE,
             job'.op = "delete" => file'.len = job'.was.len
      PROVE  EditInv'
  <2>1. /\ pc' = "idle" /\ ret' \in BOOLEAN
        /\ UNCHANGED <<buffer, tile, crpos, cwpos, numtowrite, left>>
    BY <1>2 DEF Give
  <2>2. EditTypeOK'
    BY <1>1, <1>2, <2>1 DEF EditTypeOK
  <2> QED
    BY <1>2, <2>1, <2>2
       DEF EditInv, Halfway, Exact, InsertionIsExact, DeletionIsExact
<1>3. CASE ChSize
  <2>1. PICK n \in 1 .. MaxLen :
          /\ job' = [op |-> "resize", start |-> 0, psize |-> n, was |-> file]
          /\ \/ file' = Truncated(file, n) /\ Give(TRUE)
             \/ EditFaults /\ UNCHANGED file /\ Give(FALSE)
    BY <1>3 DEF ChSize
  <2>2. n \in 0 .. MaxLen /\ 0 \in 0 .. MaxLen
    BY EditFacts
  <2>3. file' \in File /\ ZeroPast(file')
    <3>1. CASE file' = Truncated(file, n)
      BY <1>1, <2>2, <3>1, TruncatedFile DEF EditTypeOK
    <3>2. CASE file' = file
      BY <1>1, <3>2 DEF EditTypeOK
    <3> QED
      BY <2>1, <3>1, <3>2
  <2>4. job' \in [op : {"none", "resize", "insert", "delete"},
                  start : 0 .. MaxLen, psize : 0 .. MaxLen, was : File]
    BY <1>1, <2>1, <2>2 DEF EditTypeOK
  <2>5. job'.op = "resize" /\ job'.was = file
    BY <2>1
  <2>6. pc' = "idle" /\ \E answer \in BOOLEAN : Give(answer)
    BY <2>1 DEF Give
  <2>7. Asked'
    BY <1>1, <2>5, <2>6 DEF Asked
  <2> QED
    BY <1>2, <2>3, <2>4, <2>5, <2>6, <2>7
<1>4. CASE ExpandFails
  <2>1. PICK start \in 0 .. MaxLen, n \in 1 .. MaxLen :
          /\ Ask("insert", start, n) /\ Give(FALSE)
          /\ \E m \in file.len .. file.len + n - 1 : file' = Truncated(file, m)
    BY <1>4 DEF ExpandFails
  <2>2. PICK m \in file.len .. file.len + n - 1 : file' = Truncated(file, m)
    BY <2>1
  <2>3. file.len + n <= MaxLen /\ file.len \in Nat /\ n \in Nat
    <3>1. file.len + n <= MaxLen
      BY <2>1 DEF Ask
    <3>2. file.len \in Nat /\ n \in Nat
      BY <1>1, JobType, EditFacts
    <3> QED
      BY <3>1, <3>2
  <2>4. m \in 0 .. MaxLen
    BY <2>2, <2>3, EditFacts
  <2>5. file' \in File /\ ZeroPast(file')
    BY <1>1, <2>2, <2>4, TruncatedFile DEF EditTypeOK
  <2>6. ret' = FALSE
    BY <2>1 DEF Give
  <2>7. job'.op = "insert"
    BY <1>1, <2>1, AskedJob
  <2> QED
    BY <1>1, <1>2, <2>1, <2>5, <2>6, <2>7, AskedJob
<1>5. ASSUME NEW op \in {"insert", "delete"}, NoMemory(op) PROVE EditInv'
  <2>1. PICK start \in 0 .. MaxLen, n \in 1 .. MaxLen :
          Ask(op, start, n) /\ UNCHANGED file /\ Give(FALSE)
    BY <1>5 DEF NoMemory
  <2>2. file' \in File /\ ZeroPast(file')
    BY <1>1, <2>1 DEF EditTypeOK
  <2>3. ret' = FALSE
    BY <2>1 DEF Give
  <2>4. file'.len = job'.was.len
    BY <1>1, <2>1, AskedJob
  <2> QED
    BY <1>1, <1>2, <2>1, <2>2, <2>3, <2>4, AskedJob
<1> QED
  BY <1>3, <1>4, <1>5

(* The file is lengthened, and nothing is moved yet.                       *)
LEMMA InsBlockInv == EditInv /\ InsBlock => EditInv'
<1> SUFFICES ASSUME EditInv, InsBlock PROVE EditInv'
  OBVIOUS
<1>1. EditTypeOK /\ ZeroPast(file)
  BY DEF EditInv
<1>2. PICK start \in 0 .. MaxLen, n \in 1 .. MaxLen :
        LET rest  == file.len - start
            chunk == Least(rest, Block)
        IN  /\ Ask("insert", start, n)
            /\ file' = Truncated(file, file.len + n)
            /\ pc' = "ins_move"
            /\ tile' = rest
            /\ numtowrite' = chunk
            /\ crpos' = file.len - chunk
            /\ cwpos' = file.len + n - chunk
            /\ left' = n
            /\ buffer' = [i \in 0 .. Block - 1 |-> Junk]
            /\ UNCHANGED ret
  BY DEF InsBlock
<1> DEFINE rest == file.len - start   chunk == Least(rest, Block)
<1>3. start <= file.len /\ file.len + n <= MaxLen
  BY <1>2 DEF Ask
<1>4. /\ file.len \in Nat /\ start \in Nat /\ n \in Nat /\ n > 0 /\ MaxLen \in Nat
      /\ file.len <= MaxLen /\ rest \in Nat
  BY <1>1, <1>3, JobType, EditFacts
<1>5. chunk \in Nat /\ chunk <= rest /\ chunk <= Block /\ chunk \in 0 .. Block
  BY <1>4, EditFacts DEF Least
<1> HIDE DEF chunk
<1>6. /\ pc' = "ins_move" /\ tile' = rest /\ numtowrite' = chunk
      /\ crpos' = file.len - chunk /\ cwpos' = file.len + n - chunk
      /\ left' = n /\ ret' = ret /\ buffer' = [i \in 0 .. Block - 1 |-> Junk]
      /\ file' = Truncated(file, file.len + n) /\ Ask("insert", start, n)
  BY <1>2 DEF chunk
<1>7. /\ job' \in [op : {"none", "resize", "insert", "delete"},
                   start : 0 .. MaxLen, psize : 0 .. MaxLen, was : File]
      /\ job'.op = "insert" /\ job'.start = start /\ job'.psize = n /\ job'.was = file
      /\ Asked'
  BY <1>1, <1>6, AskedJob
<1>8. file.len + n \in 0 .. MaxLen
  BY <1>3, <1>4
<1>9. /\ file' \in File /\ ZeroPast(file') /\ file'.len = file.len + n
      /\ \A i \in Offset : file'.data[i] = IF i < file.len + n THEN file.data[i] ELSE Zero
  BY <1>1, <1>6, <1>8, JobType, TruncatedFile
<1>10. EditTypeOK'
  <2>1. {tile', crpos', cwpos', left'} \subseteq 0 .. 2 * MaxLen
    BY <1>3, <1>4, <1>5, <1>6
  <2>2. buffer' \in Cells
    BY <1>6, EditFacts DEF Cells
  <2>3. ret' \in BOOLEAN /\ numtowrite' \in 0 .. Block
    BY <1>1, <1>5, <1>6, JobType
  <2> QED
    BY <1>6, <1>7, <1>9, <2>1, <2>2, <2>3 DEF EditTypeOK
<1>11. \A i \in Offset : i \in Nat /\ i < MaxLen
  BY EditFacts DEF Offset
<1>12. \A i \in Offset : i < start + rest => file'.data[i] = file.data[i]
  <2>1. \A i \in Offset : i < start + rest => i < file.len + n
    BY <1>4, <1>11
  <2> QED
    BY <1>9, <2>1
<1>13. \A i \in Offset : ~(i >= start + rest /\ i < file.len)
  BY <1>4, <1>11
<1>14. tile' <= file.len - start /\ crpos' = start + tile' - chunk /\ cwpos' = crpos' + n
  BY <1>4, <1>5, <1>6
<1>15. numtowrite' = Least(tile', Block)
  BY <1>6 DEF chunk
<1> HIDE DEF rest
<1>16. InsMoving'
  BY <1>6, <1>7, <1>9, <1>12, <1>13, <1>14, <1>15 DEF InsMoving
<1> QED
  BY <1>6, <1>7, <1>9, <1>10, <1>16
     DEF EditInv, Halfway, Exact, InsertionIsExact, DeletionIsExact

(* Nothing is moved yet.                                                   *)
LEMMA DelBlockInv == EditInv /\ DelBlock => EditInv'
<1> SUFFICES ASSUME EditInv, DelBlock PROVE EditInv'
  OBVIOUS
<1>1. EditTypeOK /\ ZeroPast(file)
  BY DEF EditInv
<1>2. PICK start \in 0 .. MaxLen, n \in 1 .. MaxLen :
        /\ Ask("delete", start, n)
        /\ pc' = "del_move"
        /\ tile' = file.len - start
        /\ crpos' = start + n
        /\ cwpos' = start
        /\ buffer' = [i \in 0 .. Block - 1 |-> Junk]
        /\ UNCHANGED <<file, numtowrite, left, ret>>
  BY DEF DelBlock
<1>3. /\ job' \in [op : {"none", "resize", "insert", "delete"},
                   start : 0 .. MaxLen, psize : 0 .. MaxLen, was : File]
      /\ job'.op = "delete" /\ job'.start = start /\ job'.psize = n /\ job'.was = file
      /\ Asked'
  BY <1>1, <1>2, AskedJob
<1>4. start + n <= file.len
  BY <1>2 DEF Ask
<1>5. /\ file.len \in Nat /\ start \in Nat /\ n \in Nat /\ n > 0 /\ MaxLen \in Nat
      /\ file.len <= MaxLen
  BY <1>1, JobType, EditFacts
<1>6. EditTypeOK'
  <2>1. left \in 0 .. 2 * MaxLen
    BY <1>1 DEF EditTypeOK
  <2>2. {tile', crpos', cwpos', left'} \subseteq 0 .. 2 * MaxLen
    BY <1>2, <1>4, <1>5, <2>1
  <2>3. buffer' \in Cells
    BY <1>2, EditFacts DEF Cells
  <2> QED
    BY <1>1, <1>2, <1>3, <2>2, <2>3 DEF EditTypeOK
<1>7. \A i \in Offset : i \in Nat
  BY EditFacts DEF Offset
<1>8. \A i \in Offset : ~(i >= start /\ i < cwpos')
  BY <1>2, <1>5, <1>7
<1>9. tile' <= file.len - start /\ cwpos' = file.len - tile' /\ crpos' = cwpos' + n
  BY <1>2, <1>5
<1>10. DelMoving'
  BY <1>2, <1>3, <1>8, <1>9 DEF DelMoving
<1> QED
  BY <1>1, <1>2, <1>3, <1>6, <1>10
     DEF EditInv, Halfway, Exact, InsertionIsExact, DeletionIsExact

-----------------------------------------------------------------------------
(* Every step keeps the invariant.                                         *)
LEMMA StepEditInv == EditInv /\ [NextEdit]_editVars => EditInv'
<1> SUFFICES ASSUME EditInv, [NextEdit]_editVars PROVE EditInv'
  OBVIOUS
<1>1. CASE Step
  BY <1>1, InsMoveInv, InsMovedInv, InsZeroInv, InsDoneInv, DelMoveInv, DelTruncInv
     DEF Step
<1>2. CASE ChSize \/ ExpandFails \/ \E op \in {"insert", "delete"} : NoMemory(op)
  BY <1>2, AtOnceInv
<1>3. CASE InsBlock
  BY <1>3, InsBlockInv
<1>4. CASE DelBlock
  BY <1>4, DelBlockInv
<1>5. CASE UNCHANGED editVars
  BY <1>5 DEF editVars, EditInv, EditTypeOK, Asked, ZeroPast, Halfway, InsMoving, InsZeroing,
              DelMoving, Exact, InsertionIsExact, DeletionIsExact
<1> QED
  BY <1>1, <1>2, <1>3, <1>4, <1>5 DEF NextEdit

(* The invariant is one of the specification.                              *)
LEMMA EditInvariance == EditSpec => []EditInv
BY InitEditInv, StepEditInv, PTL DEF EditSpec

(* In every state the positions of the loop that runs tell which bytes of  *)
(* the old file are in their old place and which are in their new one      *)
(* (fileutil.c:96-118, 131-146).                                           *)
THEOREM LoopsAgree == EditSpec => []Halfway
<1>1. EditInv => Halfway
  BY DEF EditInv
<1> QED
  BY EditInvariance, <1>1, PTL

(* Every field keeps its range and the positions of the loops stay inside  *)
(* the file, for every file, tile and block (fileutil.c:72-123).           *)
THEOREM EditTyping == EditSpec => []EditTypeOK
<1>1. EditInv => EditTypeOK
  BY DEF EditInv
<1> QED
  BY EditInvariance, <1>1, PTL

(* An insertion puts the block in its place and moves the rest of the file *)
(* behind it, and no position underflows on the way (fileutil.c:80-123).   *)
THEOREM InsertionExact == EditSpec => [](EditTypeOK /\ InsertionIsExact)
<1>1. EditInv => EditTypeOK /\ InsertionIsExact
  BY DEF EditInv, Exact
<1> QED
  BY EditInvariance, <1>1, PTL

(* If the file can be cut, a deletion takes out the block and nothing else *)
(* (fileutil.c:125-154).                                                   *)
THEOREM DeletionExact == EditSpec => []DeletionIsExact
<1>1. EditInv => DeletionIsExact
  BY DEF EditInv, Exact
<1> QED
  BY EditInvariance, <1>1, PTL

-----------------------------------------------------------------------------
(* While the loops run, every byte is in its old place or in its new one.  *)
Running == pc # "idle"

(* Where the loops stand says that no byte is lost.                        *)
LEMMA HalfwayKeeps == EditInv /\ Running => NothingLost
<1> SUFFICES ASSUME EditInv, pc # "idle" PROVE NothingLost
  BY DEF Running
<1> DEFINE was == job.was   S == job.start   n == job.psize
<1>1. /\ EditTypeOK /\ Halfway /\ pc \in {"ins_move", "ins_zero", "del_move"}
  BY DEF EditInv, EditTypeOK
<1>2. /\ S \in Nat /\ n \in Nat /\ was.len \in Nat /\ MaxLen \in Nat /\ tile \in Nat
      /\ was.len <= MaxLen /\ cwpos \in Nat
  BY <1>1, JobType, EditFacts
<1>3. \A i \in 0 .. was.len - 1 : i \in Offset /\ i \in Nat /\ i < was.len
  BY <1>2 DEF Offset
<1>4. CASE pc = "ins_move"
  <2>1. InsMoving
    BY <1>1, <1>4 DEF Halfway
  <2>2. ASSUME NEW i \in 0 .. was.len - 1
        PROVE  \/ file.data[i] = was.data[i]
               \/ i >= S /\ file.data[i + n] = was.data[i]
    <3>1. CASE i < S + tile
      BY <1>3, <2>1, <3>1 DEF InsMoving
    <3>2. CASE i >= S + tile
      <4>1. i >= S
        BY <1>2, <1>3, <3>2
      <4> QED
        BY <1>3, <2>1, <3>2, <4>1 DEF InsMoving
    <3> QED
      BY <1>2, <1>3, <3>1, <3>2
  <2> QED
    BY <2>1, <2>2 DEF NothingLost, InsMoving
<1>5. CASE pc = "ins_zero"
  <2>1. InsZeroing
    BY <1>1, <1>5 DEF Halfway
  <2>2. ASSUME NEW i \in 0 .. was.len - 1
        PROVE  \/ file.data[i] = was.data[i]
               \/ i >= S /\ file.data[i + n] = was.data[i]
    <3>1. i < S \/ i >= S
      BY <1>2, <1>3
    <3> QED
      BY <1>3, <2>1, <3>1 DEF InsZeroing
  <2> QED
    BY <2>1, <2>2 DEF NothingLost, InsZeroing
<1>6. CASE pc = "del_move"
  <2>1. DelMoving
    BY <1>1, <1>6 DEF Halfway
  <2>2. n > 0 /\ S + n <= was.len
    BY <2>1 DEF EditInv, Asked, DelMoving
  <2>3. ASSUME NEW i \in 0 .. was.len - 1
        PROVE  \/ i \in S .. S + n - 1
               \/ file.data[i] = was.data[i]
               \/ i >= S /\ file.data[i - n] = was.data[i]
    <3>1. CASE i < S \/ i >= cwpos
      BY <1>3, <2>1, <3>1 DEF DelMoving
    <3>2. CASE i >= S /\ i < S + n
      BY <1>2, <1>3, <3>2
    <3>3. CASE i >= S + n /\ i < cwpos
      <4>1. /\ i - n \in Offset /\ i - n >= S /\ i - n < cwpos
            /\ (i - n) + n = i /\ i < was.len /\ i >= S
        BY <1>2, <1>3, <3>3 DEF Offset
      <4>2. file.data[i - n] = was.data[i]
        BY <2>1, <4>1 DEF DelMoving
      <4> QED
        BY <4>1, <4>2
    <3> QED
      BY <1>2, <1>3, <3>1, <3>2, <3>3
  <2> QED
    BY <2>1, <2>3 DEF NothingLost, DelMoving
<1> QED
  BY <1>1, <1>4, <1>5, <1>6

(* The same after a step.                                                  *)
LEMMA StillKeeps == EditInv' /\ Running' => NothingLost'
BY HalfwayKeeps, PTL

(* Cutting the file takes away only what was moved.                        *)
LEMMA TruncKeeps == EditInv /\ DelTrunc => NothingLost'
<1> SUFFICES ASSUME EditInv, DelTrunc PROVE NothingLost'
  OBVIOUS
<1> DEFINE was == job.was   S == job.start   n == job.psize
<1>1. /\ EditTypeOK /\ DelMoving /\ tile = 0 /\ pc = "del_move" /\ job' = job
      /\ \/ file' = Truncated(file, was.len - n)
         \/ EditFaults /\ file' = file
  BY DEF DelTrunc, EditInv, Halfway
<1>2. CASE file' = file
  <2>1. NothingLost
    BY <1>1, HalfwayKeeps DEF Running
  <2> QED
    BY <1>1, <1>2, <2>1 DEF NothingLost
<1>3. CASE file' = Truncated(file, was.len - n)
  <2>1. job.op = "delete" /\ file.len = was.len /\ cwpos = was.len
    BY <1>1, JobType DEF DelMoving
  <2>2. n > 0 /\ S + n <= was.len
    BY <1>1, <2>1 DEF EditInv, Asked
  <2>3. /\ S \in Nat /\ n \in Nat /\ was.len \in Nat /\ MaxLen \in Nat
        /\ was.len <= MaxLen /\ was.len - n \in 0 .. MaxLen
    BY <1>1, <2>2, JobType, EditFacts
  <2>4. \A i \in Offset : file'.data[i] = IF i < was.len - n THEN file.data[i] ELSE Zero
    BY <1>1, <1>3, <2>3, JobType, TruncatedFile
  <2>5. ASSUME NEW i \in 0 .. was.len - 1
        PROVE  \/ i \in S .. S + n - 1
               \/ file'.data[i] = was.data[i]
               \/ i >= S /\ file'.data[i - n] = was.data[i]
    <3>1. i \in Offset /\ i \in Nat /\ i < was.len
      BY <2>3 DEF Offset
    <3>2. CASE i < S
      <4>1. i < was.len - n
        BY <2>2, <2>3, <3>1, <3>2
      <4>2. file.data[i] = was.data[i]
        BY <1>1, <3>1, <3>2 DEF DelMoving
      <4> QED
        BY <2>4, <3>1, <4>1, <4>2
    <3>3. CASE i >= S /\ i < S + n
      BY <2>3, <3>1, <3>3
    <3>4. CASE i >= S + n
      <4>1. /\ i - n \in Offset /\ i - n >= S /\ i - n < cwpos /\ i - n < was.len - n
            /\ (i - n) + n = i /\ i >= S
        BY <2>1, <2>2, <2>3, <3>1, <3>4 DEF Offset
      <4>2. file.data[i - n] = was.data[i]
        BY <1>1, <3>1, <4>1 DEF DelMoving
      <4> QED
        BY <2>4, <4>1, <4>2
    <3> QED
      BY <2>3, <3>1, <3>2, <3>3, <3>4
  <2> QED
    BY <1>1, <2>1, <2>5 DEF NothingLost
<1> QED
  BY <1>1, <1>2, <1>3

(* No step, finishing or failing, loses a byte.                            *)
LEMMA StepKeeps == EditInv /\ NothingLost /\ [NextEdit]_editVars => NothingLost'
<1> SUFFICES ASSUME EditInv, NothingLost, [NextEdit]_editVars PROVE NothingLost'
  OBVIOUS
<1>1. EditInv'
  BY StepEditInv
<1>2. CASE pc' # "idle"
  <2>1. Running'
    BY <1>2 DEF Running
  <2> QED
    BY <1>1, <2>1, StillKeeps
<1>3. CASE UNCHANGED editVars \/ InsDone
  <2>1. file' = file /\ job' = job
    BY <1>3 DEF editVars, InsDone
  <2> QED
    BY <2>1 DEF NothingLost
<1>4. CASE DelTrunc
  BY <1>4, TruncKeeps
<1>5. CASE ChSize
  <2>1. job'.op = "resize"
    BY <1>5 DEF ChSize
  <2> QED
    BY <2>1 DEF NothingLost
<1>6. CASE ExpandFails \/ \E op \in {"insert", "delete"} : NoMemory(op)
  <2>1. job'.was = file
    <3>1. PICK op \in {"insert", "delete"}, start \in 0 .. MaxLen, n \in 1 .. MaxLen :
            Ask(op, start, n)
      BY <1>6 DEF ExpandFails, NoMemory
    <3> QED
      BY <3>1 DEF Ask
  <2>2. /\ file \in File /\ file.len \in Nat /\ MaxLen \in Nat /\ file.len <= MaxLen
    BY JobType, EditFacts DEF EditInv
  <2>3. \A i \in 0 .. file.len - 1 : i \in Offset /\ i \in Nat /\ i < file.len
    BY <2>2 DEF Offset
  <2>4. \A i \in 0 .. file.len - 1 : file'.data[i] = file.data[i]
    <3>1. CASE \E op \in {"insert", "delete"} : NoMemory(op)
      BY <3>1 DEF NoMemory
    <3>2. CASE ExpandFails
      <4>1. PICK start \in 0 .. MaxLen, n \in 1 .. MaxLen :
              /\ Ask("insert", start, n)
              /\ \E m \in file.len .. file.len + n - 1 : file' = Truncated(file, m)
        BY <3>2 DEF ExpandFails
      <4>2. PICK m \in file.len .. file.len + n - 1 : file' = Truncated(file, m)
        BY <4>1
      <4>3. file.len + n <= MaxLen
        BY <4>1 DEF Ask
      <4>4. m \in 0 .. MaxLen /\ m \in Nat /\ m >= file.len
        BY <2>2, <4>2, <4>3
      <4>5. \A i \in Offset : file'.data[i] = IF i < m THEN file.data[i] ELSE Zero
        BY <2>2, <4>2, <4>4, TruncatedFile
      <4>6. \A i \in 0 .. file.len - 1 : i < m
        BY <2>2, <2>3, <4>4
      <4> QED
        BY <2>3, <4>5, <4>6
    <3> QED
      BY <1>6, <3>1, <3>2
  <2> QED
    BY <2>1, <2>4 DEF NothingLost
<1>7. CASE InsBlock \/ DelBlock \/ InsMove \/ InsMoved \/ InsZero \/ DelMove
  <2>1. pc' # "idle"
    BY <1>7 DEF InsBlock, DelBlock, InsMove, InsMoved, InsZero, DelMove
  <2> QED
    BY <1>2, <2>1
<1> QED
  BY <1>3, <1>4, <1>5, <1>6, <1>7 DEF NextEdit, Step

(* At no moment of an insertion or a deletion, nor after one that failed,  *)
(* is a byte that is to stay gone from the file (fileutil.c:99-109,        *)
(* 136-146).                                                               *)
THEOREM NothingIsLost == EditSpec => []NothingLost
<1>1. InitEdit => NothingLost
  BY DEF InitEdit, NothingLost
<1> QED
  BY EditInvariance, <1>1, StepKeeps, PTL DEF EditSpec
=============================================================================
