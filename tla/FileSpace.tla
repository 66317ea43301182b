------------------------------ MODULE FileSpace ------------------------------
(***************************************************************************)
(* Files as byte arrays: what the stream modules share.  A file is a       *)
(* record [len, data]; data is defined on every offset and is Zero from    *)
(* len on, which is how a file system shows a hole.                        *)
(***************************************************************************)
EXTENDS Integers, Sequences

CONSTANTS Byte,     \* what a caller may write
          Zero,     \* the byte of a hole, in Byte
          Junk,     \* a byte nobody wrote: what the allocator left in a buffer
          NoByte,   \* the (tUInt8)-1 of a failed bioReadByte
          MaxLen    \* bound on the length of a file

ASSUME SpaceAssumption == /\ Zero \in Byte
                          /\ MaxLen \in Nat

Offset == 0 .. MaxLen - 1
Cell   == Byte \cup {Junk}
File   == [len : 0 .. MaxLen, data : [Offset -> Cell]]

(* ftruncate, which cuts a file or extends it with a hole.                 *)
Truncated(f, n) ==
  [len |-> n, data |-> [i \in Offset |-> IF i < n THEN f.data[i] ELSE Zero]]

ZeroPast(f) == \A i \in Offset : i >= f.len => f.data[i] = Zero
=============================================================================
