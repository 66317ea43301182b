-------------------------------- MODULE BBio --------------------------------
(***************************************************************************)
(* One buffered binary stream of libbeye/bbio.c over one file of the       *)
(* operating system.  The BFILE is the record "s"; its cache is a window   *)
(* of BufSize bytes that mirrors the file from FBufStart on, MBufLen bytes *)
(* of it in use.  "updated" is TRUE when the window holds nothing that is  *)
(* not on the disk, which is how the code uses the field.                  *)
(*                                                                         *)
(* The C functions are operators from a BFILE b and a file d to a record   *)
(* [b, d, ok].  A call that loops over the window (__getbuff, __putbuff)   *)
(* takes one step per iteration; "call" is that call, and nothing else     *)
(* happens until it returns.                                               *)
(***************************************************************************)
EXTENDS FileSpace

CONSTANTS BufSize,    \* MBufSize
          MaxGap,     \* how far past the end of the file a caller may seek
          Modes,      \* open modes used, of {"ro", "rw"}
          Dirs,       \* seek optimizations used, of Direction
          Data,       \* sequences of bytes the caller writes
          Counts,     \* numbers of bytes the caller asks for
          InitFiles,  \* files there may be at the start
          Faults      \* may the system write less than asked, or not truncate?

Direction == {"forward", "random", "backscan", "rforward", "rbackscan"}

ASSUME BufAssumption == BufSize \in Nat \ {0}
ASSUME CallAssumption == /\ MaxGap \in Nat
                         /\ Modes \subseteq {"ro", "rw"}
                         /\ Dirs \subseteq Direction
                         /\ Data \subseteq Seq(Byte)
                         /\ Counts \subseteq Nat
                         /\ InitFiles \subseteq File
                         /\ Faults \in BOOLEAN

VARIABLES disk,   \* the file
          s,      \* the BFILE
          call    \* the call in progress, or the outcome of the last one

vars == <<disk, s, call>>

Slot == 0 .. BufSize - 1
Lesser(m, n)  == IF m < n THEN m ELSE n
Greater(m, n) == IF m < n THEN n ELSE m

BFILE == [open : BOOLEAN, openmode : {"ro", "rw"}, optimize : Direction,
          FilePos : 0 .. MaxLen, FLength : 0 .. MaxLen, is_eof : BOOLEAN,
          FBufStart : 0 .. MaxLen, MBufLen : 0 .. BufSize,
          MBuffer : [Slot -> Cell], updated : BOOLEAN]

NoStream == [open |-> FALSE, openmode |-> "ro", optimize |-> "forward",
             FilePos |-> 0, FLength |-> 0, is_eof |-> FALSE,
             FBufStart |-> 0, MBufLen |-> 0,
             MBuffer |-> [i \in Slot |-> Junk], updated |-> TRUE]

Call == [op : {"idle", "read", "write"}, rest : Seq(Byte), want : Nat,
         got : Seq(Cell \cup {NoByte}), ok : BOOLEAN]

Returned(ok, got) ==
  [op |-> "idle", rest |-> <<>>, want |-> 0, got |-> got, ok |-> ok]

-----------------------------------------------------------------------------
(* The system calls: a write may take fewer bytes than offered.            *)
Accepted == IF Faults THEN 0 .. BufSize ELSE {BufSize}

Stored(d, at, bytes, n) ==
  [len  |-> IF n > 0 THEN Greater(d.len, at + n) ELSE d.len,
   data |-> [i \in Offset |-> IF i \in at .. at + n - 1
                                THEN bytes[i - at] ELSE d.data[i]]]

-----------------------------------------------------------------------------
(* The window.                                                             *)
OutOfBuffer_OffByOne(b, p) == p < b.FBufStart \/ p > b.FBufStart + BufSize
OutOfBuffer(b, p)   == p < b.FBufStart \/ p >= b.FBufStart + BufSize
OutOfContents(b, p) == p < b.FBufStart \/ p >= b.FBufStart + b.MBufLen

Fill_WholeBuffer(b, d, p) ==
  [b |-> [b EXCEPT !.FBufStart = Greater(p, 0), !.MBufLen = BufSize],
   d |-> d, ok |-> TRUE]

Fill_NoClamp(b, d, p) ==
  [b |-> [b EXCEPT !.FBufStart = p, !.MBufLen = Lesser(BufSize, b.FLength)],
   d |-> d, ok |-> TRUE]

Fill(b, d, p) ==
  LET q == Greater(p, 0)
      n == Lesser(BufSize, b.FLength - q)
      read == [i \in Slot |-> IF i < n /\ q + i < d.len
                                THEN d.data[q + i] ELSE b.MBuffer[i]]
  IN  IF q > b.FLength
        THEN [b |-> [b EXCEPT !.MBufLen = 0], d |-> d, ok |-> FALSE]
        ELSE [b |-> [b EXCEPT !.FBufStart = q, !.MBufLen = n, !.MBuffer = read],
              d |-> d, ok |-> n = 0 \/ q + n <= d.len]

Flush(b, d, k) ==
  LET n == Lesser(k, b.MBufLen)
  IN  IF b.updated
        THEN [b |-> b, d |-> d, ok |-> TRUE]
        ELSE [b |-> [b EXCEPT !.updated = (n = b.MBufLen)],
              d |-> Stored(d, b.FBufStart, b.MBuffer, n), ok |-> n = b.MBufLen]

(* CHK_EOF: a reader is put back on the last byte.  The comparison is      *)
(* unsigned, so a position before the start of the file counts as past it. *)
PastEnd(b, p) == /\ b.FLength > 0
                 /\ b.openmode = "ro"
                 /\ p < 0 \/ p >= b.FLength

CheckEof(b) == IF PastEnd(b, b.FilePos)
                 THEN [b EXCEPT !.FilePos = b.FLength - 1, !.is_eof = TRUE]
                 ELSE [b EXCEPT !.is_eof = FALSE]

Shift(dir) == CASE dir = "forward"   -> 0
                [] dir = "random"    -> BufSize \div 2
                [] dir = "backscan"  -> BufSize - 1
                [] dir = "rforward"  -> BufSize \div 10
                [] dir = "rbackscan" -> (BufSize \div 10) * 9

Seek_NoFlush(b, d, p, dir, k) ==
  LET moved == CheckEof([b EXCEPT !.FilePos = p])
      q     == moved.FilePos
  IN  [b |-> IF ~OutOfBuffer(b, q) THEN moved
             ELSE IF q < b.FLength THEN Fill(moved, d, q - Shift(dir)).b
             ELSE [moved EXCEPT !.FBufStart = q, !.MBufLen = 0],
       d |-> d, ok |-> ~PastEnd(b, p)]

(* __seek, whose result tells of the position and of the fill, not of the  *)
(* flush.                                                                  *)
Seek(b, d, p, dir, k) ==
  LET past  == PastEnd(b, p)
      moved == CheckEof([b EXCEPT !.FilePos = p])
      q     == moved.FilePos
      f     == Flush(moved, d, k)
      r     == Fill(f.b, f.d, q - Shift(dir))
  IN  IF ~OutOfBuffer(b, q) THEN [b |-> moved, d |-> d, ok |-> ~past]
      ELSE IF q < b.FLength THEN [r EXCEPT !.ok = ~past /\ r.ok]
      ELSE [b |-> [f.b EXCEPT !.FBufStart = q, !.MBufLen = 0],
            d |-> f.d, ok |-> ~past]

(* Bring the window to the position if the test says it is elsewhere.      *)
Reach(b, d, elsewhere, dir, k) ==
  IF elsewhere THEN Seek(b, d, b.FilePos, dir, k)
               ELSE [b |-> b, d |-> d, ok |-> TRUE]

Position(b) == b.FilePos - b.FBufStart     \* MBufStart, buffpos

Put_StaysUpdated(b, bytes, n) ==
  [b EXCEPT !.MBuffer[Position(b)] = bytes[1],
            !.MBufLen = Greater(b.MBufLen, Position(b) + 1),
            !.FLength = Greater(b.FLength, b.FilePos + 1),
            !.FilePos = b.FilePos + 1]

(* The window after n bytes were put into it at the position.              *)
Put(b, bytes, n) ==
  LET at == Position(b)
  IN  [b EXCEPT !.MBuffer = [i \in Slot |-> IF i \in at .. at + n - 1
                                              THEN bytes[i - at + 1]
                                              ELSE b.MBuffer[i]],
                !.updated = FALSE,
                !.MBufLen = Greater(b.MBufLen, at + n),
                !.FLength = Greater(b.FLength, b.FilePos + n),
                !.FilePos = b.FilePos + n]

Shrunk_StaleLength(b, n) ==
  [b EXCEPT !.FLength = n, !.FBufStart = Lesser(b.FBufStart, n)]

(* The window after the file was cut to n bytes.                           *)
Shrunk(b, n) ==
  [b EXCEPT !.FLength = n,
            !.FBufStart = Lesser(b.FBufStart, n),
            !.MBufLen = IF b.FBufStart > n THEN 0
                                           ELSE Lesser(b.MBufLen, n - b.FBufStart)]

-----------------------------------------------------------------------------
Init == /\ disk \in InitFiles
        /\ s = NoStream
        /\ call = Returned(TRUE, <<>>)

Ready == s.open /\ call.op = "idle"

Return(r, got) == /\ s' = r.b
                  /\ disk' = r.d
                  /\ call' = Returned(r.ok, got)

bioOpen ==
  \E m \in Modes :
    /\ ~s.open
    /\ s' = Fill([NoStream EXCEPT !.open = TRUE, !.openmode = m,
                                  !.FLength = disk.len], disk, 0).b
    /\ call' = Returned(TRUE, <<>>)
    /\ UNCHANGED disk

(* The result of the flush is dropped, and the answer is always True.      *)
bioClose ==
  \E k \in Accepted :
    /\ Ready
    /\ disk' = IF s.openmode = "rw" THEN Flush(s, disk, k).d ELSE disk
    /\ s' = NoStream
    /\ call' = Returned(TRUE, <<>>)

Origin(from) == CASE from = "set" -> 0
                  [] from = "cur" -> s.FilePos
                  [] from = "end" -> s.FLength

(* Callers do not seek before the start of a file they can write, nor more *)
(* than MaxGap past its end.                                               *)
bioSeek ==
  \E k \in Accepted, from \in {"set", "cur", "end"}, off \in -MaxLen .. MaxLen :
    LET p == Origin(from) + off
    IN  /\ Ready
        /\ p \in 0 .. Lesser(s.FLength + MaxGap, MaxLen) \/ PastEnd(s, p)
        /\ Return(Seek(s, disk, p, s.optimize, k), <<>>)

bioReadByte ==
  \E k \in Accepted :
    LET r   == Reach(s, disk, OutOfContents(s, s.FilePos), s.optimize, k)
        b   == r.b
        hit == b.MBufLen > 0 /\ r.ok /\ b.FilePos <= b.FLength
        ch  == IF hit /\ Position(b) \in 0 .. b.MBufLen - 1
                 THEN b.MBuffer[Position(b)] ELSE NoByte
        end == CheckEof([b EXCEPT !.FilePos = Lesser(b.FilePos + 1, b.FLength)])
    IN  /\ Ready
        /\ s' = IF hit THEN end ELSE b
        /\ disk' = r.d
        /\ call' = Returned(hit, <<ch>>)

bioWriteByte_AnyMode ==
  /\ Ready
  /\ s.FilePos < MaxLen
  /\ LET r == Reach(s, disk, OutOfBuffer(s, s.FilePos), s.optimize, BufSize)
     IN  Return([r EXCEPT !.b = Put(r.b, <<Zero>>, 1)], <<>>)

bioWriteByte ==
  \E k \in Accepted, ch \in Byte :
    LET r == Reach(s, disk, OutOfBuffer(s, s.FilePos), s.optimize, k)
    IN  /\ Ready
        /\ IF s.openmode = "rw"
             THEN /\ s.FilePos < MaxLen
                  /\ s' = Put(r.b, <<ch>>, 1)
                  /\ disk' = r.d
                  /\ call' = Returned(TRUE, <<>>)
             ELSE /\ call' = Returned(FALSE, <<>>)
                  /\ UNCHANGED <<s, disk>>

(* bioReadBuffer, and bioReadWord, bioReadDWord and bioReadQWord, which    *)
(* are the same call with a fixed count.                                   *)
bioReadBuffer ==
  \E n \in Counts : /\ Ready
                    /\ call' = [Returned(TRUE, <<>>) EXCEPT
                                  !.op = "read", !.want = n]
                    /\ UNCHANGED <<s, disk>>

bioWriteBuffer ==
  \E bytes \in Data :
    /\ Ready
    /\ IF s.openmode = "rw"
         THEN /\ s.FilePos + Len(bytes) <= MaxLen
              /\ call' = [Returned(TRUE, <<>>) EXCEPT
                            !.op = "write", !.rest = bytes]
         ELSE call' = Returned(FALSE, <<>>)
    /\ UNCHANGED <<s, disk>>

(* Why the loop of __getbuff stops early, having looked for the position.  *)
Exhausted_SeekOnly(r, left) == ~r.ok
Exhausted(r, left) == ~r.ok \/ r.b.FilePos >= r.b.FLength \/ left = 0

(* One iteration of the loop of __getbuff, which scans forward whatever    *)
(* the optimization of the stream is.  A negative number of bytes left in  *)
(* the window is a large unsigned: the copy would overrun the window.      *)
GetBuff ==
  \E k \in Accepted :
    LET out  == OutOfContents(s, s.FilePos)
        r    == Reach(s, disk, out, "forward", k)
        b    == r.b
        left == b.MBufLen - Position(b)
        n    == IF left < 0 THEN call.want ELSE Lesser(left, call.want)
        new  == [i \in 1 .. n |-> IF Position(b) + i - 1 \in Slot
                                    THEN b.MBuffer[Position(b) + i - 1]
                                    ELSE Junk]
    IN  /\ call.op = "read"
        /\ IF call.want = 0
             THEN call' = [call EXCEPT !.op = "idle"] /\ UNCHANGED <<s, disk>>
           ELSE IF out /\ Exhausted(r, left)
             THEN /\ s' = b
                  /\ disk' = r.d
                  /\ call' = [call EXCEPT !.op = "idle",
                                !.ok = r.ok /\ b.FilePos >= b.FLength]
           ELSE /\ s' = [b EXCEPT !.FilePos = Lesser(b.FilePos + n, b.FLength)]
                /\ disk' = r.d
                /\ call' = [call EXCEPT !.got = @ \o new, !.want = @ - n]

(* One iteration of the loop of __putbuff.                                 *)
PutBuff ==
  \E k \in Accepted :
    LET out == OutOfBuffer(s, s.FilePos)
        r   == Reach(s, disk, out, "forward", k)
        b   == r.b
        n   == Lesser(BufSize - Position(b), Len(call.rest))
    IN  /\ call.op = "write"
        /\ IF call.rest = <<>>
             THEN call' = Returned(TRUE, <<>>) /\ UNCHANGED <<s, disk>>
           ELSE IF ~r.ok \/ Position(b) = BufSize
             THEN s' = b /\ disk' = r.d /\ call' = Returned(FALSE, <<>>)
           ELSE /\ s' = Put(b, call.rest, n)
                /\ disk' = r.d
                /\ call' = [call EXCEPT
                              !.rest = SubSeq(@, n + 1, Len(@))]

bioFlush == \E k \in Accepted : Ready /\ Return(Flush(s, disk, k), <<>>)

(* Nothing is flushed first, and the position stays where it was.          *)
bioReRead ==
  /\ Ready
  /\ Return(Fill([s EXCEPT !.FLength = disk.len], disk, s.FBufStart), <<>>)

(* Every caller has opened the file for writing.  Growing writes zeros at  *)
(* the end; shrinking moves the window first, which may flush it.          *)
bioChSize ==
  \E k \in Accepted, n \in 0 .. MaxLen :
    /\ Ready
    /\ s.openmode = "rw"
    /\ IF n > s.FLength
         THEN LET r == Seek(s, disk, s.FLength, s.optimize, k)
              IN  /\ s' = r.b
                  /\ disk' = r.d
                  /\ call' = [Returned(TRUE, <<>>) EXCEPT !.op = "write",
                                !.rest = [i \in 1 .. n - s.FLength |-> Zero]]
         ELSE \E cut \in IF Faults THEN BOOLEAN ELSE {TRUE} :
                LET r == Seek(s, disk, n, s.optimize, k)
                IN  /\ s' = Shrunk(r.b, n)
                    /\ disk' = IF cut THEN Truncated(r.d, n) ELSE r.d
                    /\ call' = Returned(cut, <<>>)

bioSetOptimization ==
  \E dir \in Dirs : /\ Ready
                    /\ s' = [s EXCEPT !.optimize = dir]
                    /\ call' = Returned(TRUE, <<>>)
                    /\ UNCHANGED disk

Next == \/ bioOpen \/ bioClose \/ bioSeek \/ bioReadByte \/ bioWriteByte
        \/ bioReadBuffer \/ bioWriteBuffer \/ GetBuff \/ PutBuff
        \/ bioFlush \/ bioReRead \/ bioChSize \/ bioSetOptimization

Spec == Init /\ [][Next]_vars

(* One thread runs the loops to their end.                                 *)
FairSpec == Spec /\ WF_vars(GetBuff) /\ WF_vars(PutBuff)

-----------------------------------------------------------------------------
(* The file as the caller sees it: the window over the disk.               *)
InWindow(b, i) == i \in b.FBufStart .. b.FBufStart + b.MBufLen - 1

View(b, d) ==
  [len |-> b.FLength,
   data |-> [i \in Offset |-> IF InWindow(b, i) THEN b.MBuffer[i - b.FBufStart]
                                               ELSE d.data[i]]]

Contents == IF s.open THEN View(s, disk) ELSE disk

-----------------------------------------------------------------------------
(* Every field keeps its range; a call in progress has an open stream, and *)
(* only a writer writes, within the bound of the model (bbio.c:79, 350).   *)
TypeOK == /\ disk \in File
          /\ s \in BFILE
          /\ call \in Call
          /\ call.op # "idle" => s.open
          /\ call.op = "write" => /\ s.openmode = "rw"
                                  /\ s.FilePos + Len(call.rest) <= MaxLen

(* The window never reaches past the logical end of the file, and it is    *)
(* short of full only when the file ends there.  The loops of __getbuff    *)
(* subtract unsigned numbers on the strength of it (bbio.c:268-276).       *)
WindowInFile(b) == b.MBufLen > 0 => b.FBufStart + b.MBufLen <= b.FLength
WindowFull(b)   == b.FBufStart + b.MBufLen >= Lesser(b.FBufStart + BufSize, b.FLength)

WindowFits == s.open => WindowInFile(s) /\ WindowFull(s)

(* Once __seek has been asked for it, the window holds the position: the   *)
(* index a byte is then stored at or read from lies inside MBuffer, even   *)
(* after failed writes and for every optimization (bbio.c:208, 275, 325).  *)
AccessInBuffer ==
  s.open =>
    \A dir \in Dirs, k \in Accepted :
      LET w == Reach(s, disk, OutOfBuffer(s, s.FilePos), dir, k).b
          r == Reach(s, disk, OutOfContents(s, s.FilePos), dir, k)
      IN  /\ Position(w) \in Slot
          /\ r.ok /\ r.b.FilePos < r.b.FLength
               => Position(r.b) \in 0 .. r.b.MBufLen - 1

(* A window marked "updated" mirrors the disk, byte for byte; so it may be *)
(* dropped without a flush (bbio.c:98, 142, 439).                          *)
CleanMirror ==
  s.open /\ s.updated => View(s, disk).data = disk.data

(* The length the stream believes in is that of the file, or, while the    *)
(* window is dirty, the length the file will have once it is flushed       *)
(* (bbio.c:97, 213, 338, 615, 651).                                        *)
LengthTracked ==
  s.open => s.FLength = IF s.updated \/ s.MBufLen = 0 THEN disk.len
                        ELSE Greater(disk.len, s.FBufStart + s.MBufLen)

(* A stream opened for reading never changes the file, although __seek and *)
(* bioFlush flush it without looking at the mode (bbio.c:142, 592).        *)
ReaderWritesNothing == [][s.open /\ s.openmode = "ro" => UNCHANGED disk]_vars

(* What the allocator left in the buffer stays out of the file and out of  *)
(* what the caller reads, as long as no caller seeks past the end          *)
(* (bbio.c:88, 403).                                                       *)
NoJunk == /\ \A i \in Offset : disk.data[i] # Junk
          /\ \A i \in 1 .. Len(call.got) : call.got[i] # Junk

(* Every read and write comes to its end (bbio.c:266, 317).                *)
CallReturns == call.op # "idle" ~> call.op = "idle"

(* The stream is a byte array with a position; the cache does not show.    *)
Stream == INSTANCE FileStream WITH
            content <- Contents, durable <- disk, pos <- s.FilePos,
            rest <- call.rest, got <- call.got
ImplementsStream == Stream!Spec
=============================================================================
