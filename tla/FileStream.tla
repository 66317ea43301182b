----------------------------- MODULE FileStream -----------------------------
(***************************************************************************)
(* What a caller of libbeye/bbio.h may rely on, without a cache: a stream  *)
(* is a byte array "content", a position, and a copy "durable" of the      *)
(* array on the disk that lags behind it.  BBio implements this module.    *)
(*                                                                         *)
(* A call that transfers several bytes moves them in one or more steps:    *)
(* "rest" holds the bytes it has still to write, "got" those it has read.  *)
(***************************************************************************)
EXTENDS FileSpace

VARIABLES content, durable, pos, rest, got

vars == <<content, durable, pos, rest, got>>

Init == /\ content \in File
        /\ durable = content
        /\ pos = 0
        /\ rest = <<>>
        /\ got = <<>>

(* Any step may also carry part of the content to the disk, never anything *)
(* else: each byte on the disk stays, or becomes the byte of the content.  *)
WriteBack ==
  /\ durable'.len \in durable.len .. content.len
  /\ \A i \in Offset : durable'.data[i] \in {durable.data[i], content.data[i]}

(* Moving the position, opening, flushing and closing keep the content.    *)
Move == /\ pos' \in Nat
        /\ got' \in {<<>>, <<NoByte>>, got}
        /\ rest' = <<>>
        /\ UNCHANGED content
        /\ WriteBack

(* The bytes delivered are those of the content at the position.  Reading  *)
(* the last byte of the file may leave the position on that byte.          *)
ReadSome ==
  \E n \in 1 .. MaxLen :
    /\ pos + n <= content.len
    /\ LET chunk == [i \in 1 .. n |-> content.data[pos + i - 1]]
       IN  got' \in {chunk, got \o chunk}
    /\ \/ pos' = pos + n
       \/ pos + n = content.len /\ pos' = content.len - 1
    /\ UNCHANGED <<content, rest>>
    /\ WriteBack

BeginWrite == /\ rest = <<>>
              /\ rest' \in Seq(Byte)
              /\ pos' \in {pos, content.len}
              /\ got' = <<>>
              /\ UNCHANGED content
              /\ WriteBack

(* A write changes the bytes it names and the length, and nothing else.    *)
(* The bytes of a gap, between the old end and the position, are free.     *)
WriteOf(bytes, n) ==
  /\ pos' = pos + n
  /\ content'.len = IF content.len < pos + n THEN pos + n ELSE content.len
  /\ \A i \in 0 .. n - 1 : content'.data[pos + i] = bytes[i + 1]
  /\ \A i \in Offset : i < content.len /\ i \notin pos .. pos + n - 1
                         => content'.data[i] = content.data[i]
  /\ WriteBack

WriteSome == \E n \in 1 .. Len(rest) :
               /\ WriteOf(rest, n)
               /\ rest' = SubSeq(rest, n + 1, Len(rest))
               /\ UNCHANGED got

WriteByte == /\ rest = <<>>
             /\ pos < MaxLen
             /\ WriteOf(<<content'.data[pos]>>, 1)
             /\ content'.data[pos] \in Byte
             /\ got' = <<>>
             /\ UNCHANGED rest

Truncate == \E n \in 0 .. content.len :
              /\ content' = Truncated(content, n)
              /\ durable'.len = n
              /\ \A i \in Offset : durable'.data[i] \in
                   {Truncated(durable, n).data[i], content'.data[i]}
              /\ pos' = n
              /\ got' = <<>>
              /\ UNCHANGED rest

(* Rereading forgets what was not stored yet.                              *)
Reread == /\ content' = durable
          /\ got' = <<>>
          /\ UNCHANGED <<durable, pos, rest>>

Next == \/ Move \/ ReadSome \/ BeginWrite \/ WriteSome \/ WriteByte
        \/ Truncate \/ Reread

Spec == Init /\ [][Next]_vars
=============================================================================
