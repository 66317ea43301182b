----------------------------- MODULE BlockEdit ------------------------------
(***************************************************************************)
(* Inserting and deleting a block in the middle of a file: InsDelBlock,    *)
(* InsBlock, DelBlock and ChSize of fileutil.c.  The rest of the file is   *)
(* moved through a buffer of Block bytes, one step per chunk.              *)
(*                                                                         *)
(* The stream opened for the edit is taken for the byte array of           *)
(* FileStream, which BBio implements: a read stops at the end of the file  *)
(* and leaves the rest of the buffer as it was.                            *)
(***************************************************************************)
EXTENDS FileSpace

CONSTANTS Block,     \* the 51200 bytes of the buffer
          Files,     \* files that are edited
          EditFaults \* may a resize or an allocation fail?

ASSUME BlockAssumption == /\ Block \in Nat \ {0}
                          /\ Files \subseteq File
                          /\ \A f \in Files : ZeroPast(f)
                          /\ EditFaults \in BOOLEAN

VARIABLES file,      \* the file
          pc,        \* the loop that runs
          job,       \* what was asked, and of which file
          buffer, tile, crpos, cwpos, numtowrite,  \* the C variables
          left,      \* psize, counted down while zeros are written
          ret        \* the result of the last operation

editVars == <<file, pc, job, buffer, tile, crpos, cwpos, numtowrite, left, ret>>

Cells  == [0 .. Block - 1 -> Cell]
Least(m, n) == IF m < n THEN m ELSE n

(* bioReadBuffer and bioWriteBuffer of the first n bytes of the buffer.    *)
ReadInto(b, f, at, n) ==
  [i \in 0 .. Block - 1 |-> IF i < n /\ at + i < f.len THEN f.data[at + i] ELSE b[i]]

Written(f, at, b, n) ==
  [len  |-> IF n > 0 /\ at + n > f.len THEN at + n ELSE f.len,
   data |-> [i \in Offset |-> IF i \in at .. at + n - 1 THEN b[i - at] ELSE f.data[i]]]

-----------------------------------------------------------------------------
(* What is asked for.                                                      *)
Inserted(f, start, n) ==
  [len  |-> f.len + n,
   data |-> [i \in Offset |-> IF i < start THEN f.data[i]
                              ELSE IF i < start + n THEN Zero
                              ELSE f.data[i - n]]]

Deleted(f, start, n) ==
  [len  |-> f.len - n,
   data |-> [i \in Offset |-> IF i < start THEN f.data[i]
                              ELSE IF i < f.len - n THEN f.data[i + n]
                              ELSE Zero]]

-----------------------------------------------------------------------------
InitEdit == /\ file \in Files
            /\ pc = "idle"
            /\ job = [op |-> "none", start |-> 0, psize |-> 0, was |-> file]
            /\ buffer = [i \in 0 .. Block - 1 |-> Junk]
            /\ tile = 0 /\ crpos = 0 /\ cwpos = 0 /\ numtowrite = 0 /\ left = 0
            /\ ret = TRUE

Give(answer) == /\ pc' = "idle"
                /\ ret' = answer
                /\ UNCHANGED <<buffer, tile, crpos, cwpos, numtowrite, left>>

(* ChSize: a change of the length, not to zero.                            *)
ChSize ==
  \E n \in 1 .. MaxLen :
    /\ pc = "idle"
    /\ n # file.len
    /\ job' = [op |-> "resize", start |-> 0, psize |-> n, was |-> file]
    /\ \/ file' = Truncated(file, n) /\ Give(TRUE)
       \/ EditFaults /\ UNCHANGED file /\ Give(FALSE)

(* The user's block lies inside the file; MaxLen bounds the result.        *)
Ask(op, start, n) ==
  /\ pc = "idle"
  /\ start <= file.len
  /\ n > 0
  /\ op = "insert" => file.len + n <= MaxLen
  /\ op = "delete" => start + n <= file.len
  /\ job' = [op |-> op, start |-> start, psize |-> n, was |-> file]

(* The buffer cannot be had.                                               *)
NoMemory(op) ==
  \E start \in 0 .. MaxLen, n \in 1 .. MaxLen :
    /\ EditFaults
    /\ Ask(op, start, n)
    /\ UNCHANGED file
    /\ Give(FALSE)

(* Growing failed, perhaps after some zeros had been written.              *)
ExpandFails ==
  \E start \in 0 .. MaxLen, n \in 1 .. MaxLen :
    /\ EditFaults
    /\ Ask("insert", start, n)
    /\ \E m \in file.len .. file.len + n - 1 : file' = Truncated(file, m)
    /\ Give(FALSE)

InsBlock ==
  \E start \in 0 .. MaxLen, n \in 1 .. MaxLen :
    LET rest  == file.len - start
        chunk == Least(rest, Block)
    IN  /\ Ask("insert", start, n)
        /\ file' = Truncated(file, file.len + n)
        /\ pc' = "ins_move"
        /\ tile' = rest
        /\ numtowrite' = chunk
        /\ crpos' = file.len - chunk
        /\ cwpos' = file.len + n - chunk
        /\ left' = n
        /\ buffer' = [i \in 0 .. Block - 1 |-> Junk]
        /\ UNCHANGED ret

InsMove_FrontFirst ==
  LET from == job.was.len - tile
  IN  /\ pc = "ins_move" /\ tile > 0
      /\ buffer' = ReadInto(buffer, file, from, numtowrite)
      /\ file' = Written(file, from + job.psize, buffer', numtowrite)
      /\ tile' = tile - numtowrite
      /\ numtowrite' = Least(tile', Block)
      /\ UNCHANGED <<pc, job, crpos, cwpos, left, ret>>

(* From the end of the file down to the start of the block.                *)
InsMove ==
  /\ pc = "ins_move" /\ tile > 0
  /\ buffer' = ReadInto(buffer, file, crpos, numtowrite)
  /\ file' = Written(file, cwpos, buffer', numtowrite)
  /\ tile' = tile - numtowrite
  /\ numtowrite' = Least(tile', Block)
  /\ crpos' = crpos - numtowrite'
  /\ cwpos' = cwpos - numtowrite'
  /\ UNCHANGED <<pc, job, left, ret>>

InsMoved ==
  /\ pc = "ins_move" /\ tile = 0
  /\ pc' = "ins_zero"
  /\ tile' = job.was.len - job.start
  /\ cwpos' = job.start
  /\ buffer' = [i \in 0 .. Block - 1 |-> Zero]
  /\ UNCHANGED <<file, job, crpos, numtowrite, left, ret>>

InsZero_WholeBlocks ==
  /\ pc = "ins_zero" /\ left > 0
  /\ numtowrite' = Block
  /\ file' = Written(file, cwpos, buffer, numtowrite')
  /\ left' = left - numtowrite'
  /\ cwpos' = cwpos + numtowrite'
  /\ UNCHANGED <<pc, job, buffer, tile, crpos, ret>>

InsZero_LastByte ==
  /\ pc = "ins_zero" /\ left > 0
  /\ numtowrite' = Least(left - 1, Block)
  /\ file' = Written(file, cwpos, buffer, numtowrite')
  /\ left' = left - numtowrite'
  /\ cwpos' = cwpos + numtowrite'
  /\ UNCHANGED <<pc, job, buffer, tile, crpos, ret>>

InsZero ==
  /\ pc = "ins_zero" /\ left > 0
  /\ numtowrite' = Least(left, Block)
  /\ file' = Written(file, cwpos, buffer, numtowrite')
  /\ left' = left - numtowrite'
  /\ cwpos' = cwpos + numtowrite'
  /\ UNCHANGED <<pc, job, buffer, tile, crpos, ret>>

InsDone == /\ pc = "ins_zero" /\ left = 0
           /\ Give(TRUE)
           /\ UNCHANGED <<file, job>>

DelBlock ==
  \E start \in 0 .. MaxLen, n \in 1 .. MaxLen :
    /\ Ask("delete", start, n)
    /\ pc' = "del_move"
    /\ tile' = file.len - start
    /\ crpos' = start + n
    /\ cwpos' = start
    /\ buffer' = [i \in 0 .. Block - 1 |-> Junk]
    /\ UNCHANGED <<file, numtowrite, left, ret>>

DelMove_FromBlock ==
  /\ pc = "del_move" /\ tile > 0
  /\ numtowrite' = Least(tile, Block)
  /\ buffer' = ReadInto(buffer, file, cwpos + Block, numtowrite')
  /\ file' = Written(file, cwpos, buffer', numtowrite')
  /\ tile' = tile - numtowrite'
  /\ crpos' = crpos + numtowrite'
  /\ cwpos' = cwpos + numtowrite'
  /\ UNCHANGED <<pc, job, left, ret>>

(* As many bytes as follow the start, the deleted ones included: the last  *)
(* reads are past the end, and what they leave in the buffer is cut off.   *)
DelMove ==
  /\ pc = "del_move" /\ tile > 0
  /\ numtowrite' = Least(tile, Block)
  /\ buffer' = ReadInto(buffer, file, crpos, numtowrite')
  /\ file' = Written(file, cwpos, buffer', numtowrite')
  /\ tile' = tile - numtowrite'
  /\ crpos' = crpos + numtowrite'
  /\ cwpos' = cwpos + numtowrite'
  /\ UNCHANGED <<pc, job, left, ret>>

(* The answer is True even if the file could not be cut.                   *)
DelTrunc ==
  /\ pc = "del_move" /\ tile = 0
  /\ \/ file' = Truncated(file, job.was.len - job.psize)
     \/ EditFaults /\ UNCHANGED file
  /\ Give(TRUE)
  /\ UNCHANGED job

Step == InsMove \/ InsMoved \/ InsZero \/ InsDone \/ DelMove \/ DelTrunc

NextEdit == \/ ChSize \/ InsBlock \/ ExpandFails \/ DelBlock
            \/ \E op \in {"insert", "delete"} : NoMemory(op)
            \/ Step

EditSpec == InitEdit /\ [][NextEdit]_editVars

(* One thread runs the loops to their end.                                 *)
FairEdit == EditSpec /\ WF_editVars(Step)

-----------------------------------------------------------------------------
(* Every variable keeps its range: the unsigned positions never go below   *)
(* zero, and no chunk is longer than the buffer (fileutil.c:96-109).       *)
EditTypeOK == /\ file \in File
              /\ pc \in {"idle", "ins_move", "ins_zero", "del_move"}
              /\ job \in [op : {"none", "resize", "insert", "delete"},
                          start : 0 .. MaxLen, psize : 0 .. MaxLen, was : File]
              /\ buffer \in Cells
              /\ {tile, crpos, cwpos, left} \subseteq 0 .. 2 * MaxLen
              /\ numtowrite \in 0 .. Block
              /\ ret \in BOOLEAN

(* At the end of an insertion the file is the old one with a block of      *)
(* zeros at the start, whatever the sizes of block, gap and buffer         *)
(* (fileutil.c:96-120).                                                    *)
InsertionIsExact ==
  pc = "idle" /\ job.op = "insert" /\ ret
    => file = Inserted(job.was, job.start, job.psize)

(* A file that was made shorter by a deletion lacks the block and nothing  *)
(* else, and nothing of the buffer is left in it.  The answer says nothing *)
(* of this: it is True even if the file was not cut (fileutil.c:131-153).  *)
DeletionIsExact ==
  pc = "idle" /\ job.op = "delete" /\ file.len # job.was.len
    => file = Deleted(job.was, job.start, job.psize)

(* In the middle of either, every byte that is to stay can be found at its *)
(* old place or at its new one: a chunk never overwrites a byte that was   *)
(* not moved yet (fileutil.c:99-109, 136-146).                             *)
NothingLost ==
  LET was == job.was
  IN  /\ job.op = "insert" => \A i \in 0 .. was.len - 1 :
           \/ file.data[i] = was.data[i]
           \/ i >= job.start /\ file.data[i + job.psize] = was.data[i]
      /\ job.op = "delete" => \A i \in 0 .. was.len - 1 :
           \/ i \in job.start .. job.start + job.psize - 1
           \/ file.data[i] = was.data[i]
           \/ i >= job.start /\ file.data[i - job.psize] = was.data[i]

(* How far the loops have come, in terms of the old file: what lies before *)
(* the bytes still to be moved is in its old place, what lies after them   *)
(* is in its new one, and the positions say which is which.  The results   *)
(* above rest on this (fileutil.c:96-118, 131-146).                        *)
InsMoving ==
  LET was == job.was
  IN  /\ job.op = "insert"
      /\ file.len = was.len + job.psize
      /\ tile <= was.len - job.start
      /\ numtowrite = Least(tile, Block)
      /\ crpos = job.start + tile - numtowrite
      /\ cwpos = crpos + job.psize
      /\ left = job.psize
      /\ \A i \in Offset : i < job.start + tile => file.data[i] = was.data[i]
      /\ \A i \in Offset : i >= job.start + tile /\ i < was.len
                            => file.data[i + job.psize] = was.data[i]

InsZeroing ==
  LET was == job.was
  IN  /\ job.op = "insert"
      /\ file.len = was.len + job.psize
      /\ cwpos >= job.start
      /\ cwpos + left = job.start + job.psize
      /\ \A i \in 0 .. Block - 1 : buffer[i] = Zero
      /\ \A i \in Offset : i < job.start => file.data[i] = was.data[i]
      /\ \A i \in Offset : i >= job.start /\ i < cwpos => file.data[i] = Zero
      /\ \A i \in Offset : i >= job.start /\ i < was.len
                            => file.data[i + job.psize] = was.data[i]

DelMoving ==
  LET was == job.was
  IN  /\ job.op = "delete"
      /\ file.len = was.len
      /\ tile <= was.len - job.start
      /\ cwpos = was.len - tile
      /\ crpos = cwpos + job.psize
      /\ \A i \in Offset : i < job.start => file.data[i] = was.data[i]
      /\ \A i \in Offset : i >= job.start /\ i < cwpos /\ i + job.psize < was.len
                            => file.data[i] = was.data[i + job.psize]
      /\ \A i \in Offset : i >= cwpos => file.data[i] = was.data[i]

Halfway == /\ pc = "ins_move" => InsMoving
           /\ pc = "ins_zero" => InsZeroing
           /\ pc = "del_move" => DelMoving

(* Every edit comes to its end (fileutil.c:99, 113, 136).                  *)
EditEnds == pc # "idle" ~> pc = "idle"
=============================================================================
