------------------------------- MODULE Editor -------------------------------
(***************************************************************************)
(* The modification mode of the viewer (editors.c, eeditstring of          *)
(* bconsole.c) in its four forms: "hex", the digits of hexmode.c; "chars", *)
(* the characters beside them, and the same alone in binmode.c; "video"    *)
(* and "reverse", every second byte in binmode.c; "asm", the digits of the *)
(* instructions in disasm.c.  Edits are made in a buffer and written to    *)
(* the file through a handle of their own; the viewer then rereads its.    *)
(*                                                                         *)
(* A byte has two digits of base D.  Offsets in the file and indexes of    *)
(* the buffer start at 0; characters are digits, a separator or a dot.     *)
(* Colours, titles and help are left out.                                  *)
(***************************************************************************)
EXTENDS Integers, Sequences, FiniteSetsExt

CONSTANTS D,         \* the base of the digits
          Files,     \* the files to begin with, as sequences of bytes
          Places,    \* offsets at which the viewer may be
          Modes,     \* sets of forms; the user of a behaviour keeps to one
          Width,     \* bytes in a line of the screen
          Height,    \* lines of the screen
          BufSize,   \* bytes of the buffer, more than the lines of the screen
          CodeLen,   \* the length of an instruction, by its first byte
          MaxCode,   \* disMaxCodeLen
          XX,        \* the mask, edit_XX
          BitOr(_, _), BitAnd(_, _), BitXor(_, _),  \* the operators of C on bytes
          Filler,    \* what the buffer holds past the end of the file
          MaxTyped,  \* bound: keys that change bytes
          MaxEdits   \* bound: how often the mode is entered

Byte  == 0..(D * D - 1)
Sep   == -1
Dot   == -2
Rows  == 0..(Height - 1)

ASSUME EditorAssumption ==
  /\ D \in Nat \ {0, 1} /\ Width \in Nat \ {0} /\ Height \in Nat \ {0}
  /\ MaxCode \in Nat \ {0} /\ BufSize \in Nat /\ BufSize >= Width * Height
  /\ BufSize >= MaxCode * Height + MaxCode
  /\ CodeLen \in [Byte -> 1..MaxCode]
  /\ Files \subseteq Seq(Byte) \ {<<>>}
  /\ {XX, Filler} \subseteq Byte /\ Places \subseteq Nat
  /\ \A b \in Byte : {BitOr(b, XX), BitAnd(b, XX), BitXor(b, XX)} \subseteq Byte
  /\ Modes \subseteq SUBSET {"hex", "chars", "video", "reverse", "asm"}

VARIABLES modes,    \* a member of Modes
          disk,     \* the file
          seen,     \* the file as the first handle of the viewer has it
          mode,     \* the form in use, or "none"
          cp,       \* where the viewer is, and edit_cp
          buff, save, size, alen,  \* EditorMem
          x, y,     \* edit_x, in characters, and edit_y
          line,     \* the line between the two digits of a byte
          failed,   \* whether a write has failed since the file was reread
          typed,    \* keys that changed bytes
          edits,    \* how often the mode was entered
          orig, visited  \* ghosts: the file as it was, and where keys changed it

vars == <<modes, disk, seen, mode, cp, buff, save, size, alen, x, y, line, failed, typed, edits,
          orig, visited>>

Min2(a, b) == IF a < b THEN a ELSE b
flen == Len(seen)
NoLine == [text |-> <<>>, pos |-> 0]

-----------------------------------------------------------------------------
(* The text of a line.  Step is the number of characters of a byte.        *)
Stride == CASE mode = "hex" -> 3 [] mode = "asm" -> 2 [] OTHER -> 1

GetHexAnalog(c) == IF c = Dot THEN 7 % D ELSE c

ExpandHex(bytes) ==
  [n \in 1..(Stride * Len(bytes)) |->
     LET b == bytes[((n - 1) \div Stride) + 1]
     IN  IF Stride = 1 THEN b
         ELSE <<b \div D, b % D, Sep>>[((n - 1) % Stride) + 1]]

CompressHex(text) ==
  [n \in 1..(Len(text) \div Stride) |->
     IF Stride = 1 THEN text[n]
     ELSE (GetHexAnalog(text[Stride * (n - 1) + 1]) * D)
          + GetHexAnalog(text[Stride * (n - 1) + 2])]

isSpace(p) == mode = "hex" /\ (p + 1) % 3 = 0
isSecondD(p) == isSpace(p + 1)

(* eeditstring of a line of fixed length: a key at position pos.           *)
Back(p) == LET q == IF p > 0 THEN p - 1 ELSE 0
           IN  IF isSpace(q) /\ q > 0 THEN q - 1 ELSE q

Typed(l, c) ==
  LET p == l.pos + 1
      q == IF isSpace(p) THEN p + 1 ELSE p
  IN  [text |-> [n \in DOMAIN l.text |->
                   CASE n = l.pos + 1 -> c
                     [] n = q + 1 /\ isSecondD(q) -> Dot
                     [] OTHER -> l.text[n]],
       pos |-> q]

Moved(l, key) ==
  LET step == IF mode = "hex" THEN 3 ELSE 1
  IN  CASE key = "home"  -> 0
        [] key = "end"   -> Len(l.text)
        [] key = "left"  -> IF l.pos > step THEN l.pos - step ELSE 0
        [] key = "right" -> Min2(l.pos + step, Len(l.text))
        [] OTHER         -> l.pos

eeditstring(l, undo, key) ==
  CASE key[1] = "char" -> Typed(l, key[2])
    [] key[1] = "undo" -> LET p == Back(l.pos)
                          IN  [text |-> [l.text EXCEPT ![p + 1] = undo[p + 1]], pos |-> p]
    [] OTHER -> IF isSecondD(l.pos) THEN l ELSE [l EXCEPT !.pos = Moved(l, key[1])]

-----------------------------------------------------------------------------
(* The lines of the screen.                                                *)
Summ(lens, n) ==
  LET sum[i \in 0..Height] == IF i = 0 THEN 0 ELSE sum[i - 1] + lens[i - 1]
  IN  sum[n]

Start(lens, row) == IF mode = "asm" THEN Summ(lens, row) ELSE row * Width

(* editInitBuffs.                                                          *)
LineLengths(length) == [i \in Rows |-> Min2(Width, IF length > i * Width THEN length - (i * Width)
                                                   ELSE 0)]

(* DisasmScreen: the lines are decoded from the buffer, one after another. *)
Decoded_Row(b, lens, row) == [lens EXCEPT ![row] = CodeLen[b[Summ(lens, row)]]]
Decoded(b, lens, row) ==
  LET from[i \in 0..Height] ==
        IF i = 0 THEN 0
        ELSE IF cp + from[i - 1] < flen THEN from[i - 1] + CodeLen[b[from[i - 1]]]
        ELSE from[i - 1]
  IN  [i \in Rows |-> from[i + 1] - from[i]]

(* CheckBounds; CheckYBounds and CheckXYBounds.                            *)
LastRow(lens) == Max({i \in Rows : lens[i] > 0})
InRows(lens, row) == IF row < 0 THEN 0 ELSE Min2(row, LastRow(lens))

CheckBounds(lens, col, row) ==
  LET r == InRows(lens, row)
  IN  [x |-> Min2(col, lens[r] - 1), y |-> r]

CheckXYBounds_Late(lens, col, row) ==
  IF col > 2 * lens[row] THEN [x |-> 0, y |-> InRows(lens, row + 1)] ELSE [x |-> col, y |-> row]
CheckXYBounds(lens, col, row) ==
  IF col >= 2 * lens[row] THEN [x |-> 0, y |-> InRows(lens, row + 1)] ELSE [x |-> col, y |-> row]

(* The index of the byte under the cursor.                                 *)
Cursor == Start(alen, y) + (CASE line # NoLine -> line.pos \div 3
                              [] mode = "asm" -> x \div 2
                              [] OTHER -> x)

Row(b) == [n \in 1..alen[y] |-> b[Start(alen, y) + n - 1]]

-----------------------------------------------------------------------------
(* The files and the buffer hold bytes, as many as they have room for.     *)
TypeOK ==
  /\ disk \in Seq(Byte) /\ seen \in Seq(Byte) /\ mode \in modes \cup {"none"}
  /\ mode # "none" => buff \in [0..(BufSize - 1) -> Byte] /\ size \in 1..BufSize

(* The cursor is on a byte of its line, in the buffer and, but for the     *)
(* assembler editor, before the end of what was read.  A key moves it by   *)
(* the lengths of the lines as they were, and may change all of them: an   *)
(* instruction that becomes shorter, a line that becomes empty and the end *)
(* of a line between two digits must not leave it elsewhere, where the     *)
(* next key would change a byte that is not under it.                      *)
CursorOnLine ==
  mode # "none" =>
    /\ Cursor - Start(alen, y) \in 0..(alen[y] - 1)
    /\ Cursor < (IF mode = "asm" THEN BufSize ELSE size)

(* Every byte of the file that differs from the file as it was, and every  *)
(* byte of the buffer that differs from what was read, is one on which a   *)
(* key that changes bytes found or left the cursor: the digits of a whole  *)
(* line are turned into bytes and the whole buffer is written, but the     *)
(* rest of it says what the file did.                                      *)
OnlyTouched ==
  /\ Len(disk) >= Len(orig)
  /\ \A o \in 0..(Len(orig) - 1) : disk[o + 1] # orig[o + 1] => o \in visited
  /\ mode # "none" =>
       \A i \in 0..(BufSize - 1) : buff[i] # save[i] =>
         (IF mode \in {"video", "reverse"} THEN cp + 2 * i + (IF mode = "video" THEN 0 ELSE 1)
          ELSE cp + i) \in visited

(* The lines on which the cursor moves are the instructions that the       *)
(* buffer holds, although each key may change the lengths of all of them.  *)
RowsAreInstructions ==
  mode = "asm" =>
    \A i \in Rows : LET from == Summ(alen, i)
                    IN  alen[i] = IF cp + from < flen THEN CodeLen[buff[from]] ELSE 0

-----------------------------------------------------------------------------
Init == /\ modes \in Modes
        /\ disk \in Files
        /\ seen = disk /\ orig = disk
        /\ mode = "none"
        /\ cp \in Places /\ cp < Len(disk)
        /\ buff = <<>> /\ save = <<>> /\ size = 0 /\ alen = [i \in Rows |-> 0]
        /\ x = 0 /\ y = 0 /\ line = NoLine
        /\ failed = FALSE /\ typed = 0 /\ edits = 0 /\ visited = {}

(* What the editor reads: the bytes at cp, or every second one; past the   *)
(* end of the file there is what the memory happens to hold.               *)
Offset(m, i) == CASE m = "video"   -> cp + (2 * i)
                  [] m = "reverse" -> cp + (2 * i) + 1
                  [] OTHER         -> cp + i

Size(m) == Min2(IF m = "asm" THEN MaxCode * Height ELSE BufSize, flen - cp)

ReadIn(m) == [i \in 0..(BufSize - 1) |->
                IF i < Size(m) /\ Offset(m, i) < flen THEN seen[Offset(m, i) + 1] ELSE Filler]

(* EditHex, EditBin, disEdit; editInitBuffs, and FullAsmEdit up to its     *)
(* loop.                                                                   *)
Edit(m) ==
  /\ mode = "none" /\ edits < MaxEdits
  /\ edits' = edits + 1
  /\ mode' = m
  /\ buff' = ReadIn(m) /\ save' = buff' /\ size' = Size(m)
  /\ alen' = IF m = "asm" THEN Decoded(buff', alen, 0) ELSE LineLengths(flen - cp)
  /\ x' = 0 /\ y' = 0 /\ line' = NoLine
  /\ UNCHANGED <<modes, disk, seen, cp, failed, typed, orig, visited>>

(* The operations of editDefAction and DefAsmAction on a byte.             *)
Masked(f, i) == CASE f = "not"  -> (D * D - 1) - buff[i]
                  [] f = "or"   -> BitOr(buff[i], XX)
                  [] f = "and"  -> BitAnd(buff[i], XX)
                  [] f = "xor"  -> BitXor(buff[i], XX)
                  [] f = "put"  -> XX
                  [] f = "back" -> save[i]

(* The buffer b and the cursor at col and row, after the lines have been   *)
(* decoded anew if need be.                                                *)
Settle(b, col, row, redraw) ==
  LET lens == IF mode = "asm" /\ redraw THEN Decoded(b, alen, InRows(alen, row)) ELSE alen
      at   == IF mode = "asm" THEN CheckXYBounds(lens, col, InRows(alen, row))
              ELSE CheckBounds(lens, col, row)
  IN  /\ buff' = b /\ alen' = lens /\ x' = at.x /\ y' = at.y /\ line' = NoLine

(* A key for eeditstring.  In "hex" it keeps a line until both digits of a *)
(* byte are there.                                                         *)
Key(key) ==
  /\ mode # "none"
  /\ LET l == IF line # NoLine THEN line
              ELSE [text |-> ExpandHex(Row(buff)), pos |-> x * (IF mode = "hex" THEN 3 ELSE 1)]
         r == eeditstring(l, ExpandHex(Row(save)), key)
         bytes == CompressHex(r.text)
         from == Start(alen, y)
         row == y + (CASE key[1] = "up" -> -1 [] key[1] = "down" -> 1 [] OTHER -> 0)
     IN  IF isSecondD(r.pos)
         THEN line' = r /\ UNCHANGED <<buff, alen, x, y>>
         ELSE Settle([i \in DOMAIN buff |-> IF i - from \in 0..(Len(bytes) - 1)
                                            THEN bytes[i - from + 1] ELSE buff[i]],
                     r.pos \div (IF mode = "hex" THEN 3 ELSE 1), row,
                     key[1] \in {"char", "undo", "home", "end"})
  /\ UNCHANGED <<modes, disk, seen, mode, cp, save, size, failed, edits, orig>>

Move(key) == Key(<<key>>) /\ UNCHANGED <<typed, visited>>

Visit == visited' = visited \cup {Offset(mode, Cursor'), Offset(mode, Cursor)}

Change(key) == typed < MaxTyped /\ typed' = typed + 1 /\ Key(key) /\ Visit

Function(f) ==
  /\ mode # "none" /\ line = NoLine /\ typed < MaxTyped
  /\ Settle([buff EXCEPT ![Cursor] = Masked(f, Cursor)],
            IF mode = "asm" THEN ((x \div 2) + 1) * 2 ELSE x + 1, y, TRUE)
  /\ typed' = typed + 1
  /\ UNCHANGED <<modes, disk, seen, mode, cp, save, size, failed, edits, orig>>
  /\ Visit

(* Tab goes from the digits to the characters and back.                    *)
Tab == /\ mode \in {"hex", "chars"} /\ {"hex", "chars"} \subseteq modes /\ line = NoLine
       /\ mode' = IF mode = "hex" THEN "chars" ELSE "hex"
       /\ UNCHANGED <<modes, disk, seen, cp, buff, save, size, alen, x, y, line, failed, typed, edits,
                      orig, visited>>

Leave == /\ mode' = "none" /\ line' = NoLine /\ buff' = <<>> /\ save' = <<>> /\ size' = 0
         /\ x' = 0 /\ y' = 0 /\ alen' = [i \in Rows |-> 0]
         /\ UNCHANGED <<modes, cp, typed, edits, orig, visited>>

(* F10; Escape, which gives up the line between two digits.                *)
Escape == mode # "none" /\ Leave /\ UNCHANGED <<modes, disk, seen, failed>>

(* The first n bytes of the buffer are written where they were read.       *)
Stored_Shifted(n) == [o \in 1..Len(disk) |->
                        IF o - cp \in 1..n THEN buff[o - cp] ELSE disk[o]]
Stored(n) ==
  LET last == IF n = 0 THEN Len(disk) ELSE Max({Len(disk), Offset(mode, n - 1) + 1})
      at(o) == {i \in 0..(n - 1) : Offset(mode, i) = o - 1}
  IN  [o \in 1..last |-> IF at(o) # {} THEN buff[CHOOSE i \in at(o) : TRUE]
                         ELSE IF o <= Len(disk) THEN disk[o] ELSE Filler]

BMReRead(bytes) == seen' = bytes /\ failed' = FALSE

(* F2: editSaveContest, save_video, and the same in FullAsmEdit.  A write  *)
(* may fail after some bytes; FullAsmEdit rereads the file all the same.   *)
Save ==
  /\ mode # "none" /\ line = NoLine
  /\ disk' = Stored(size)
  /\ BMReRead(disk')
  /\ Leave

SaveFails ==
  /\ mode # "none" /\ line = NoLine
  /\ \E n \in 0..(size - 1) : disk' = Stored(n)
  /\ IF mode = "asm" THEN BMReRead(disk') ELSE failed' = TRUE /\ UNCHANGED seen
  /\ Leave

(* F6 rereads the file; the viewer goes elsewhere.                         *)
Reread == mode = "none" /\ failed /\ BMReRead(disk)
          /\ UNCHANGED <<modes, disk, mode, cp, buff, save, size, alen, x, y, line, typed,
                         edits, orig, visited>>

Go(p) == /\ mode = "none" /\ p # cp /\ p < flen
         /\ cp' = p
         /\ UNCHANGED <<modes, disk, seen, mode, buff, save, size, alen, x, y, line, failed, typed, edits,
                        orig, visited>>

Next == \/ \E m \in modes : Edit(m)
        \/ \E key \in {"home", "end", "left", "right", "up", "down"} : Move(key)
        \/ \E c \in (IF mode \in {"hex", "asm"} THEN 0..(D - 1) ELSE Byte) : Change(<<"char", c>>)
        \/ Change(<<"undo">>)
        \/ \E f \in {"not", "or", "and", "xor", "put", "back"} : Function(f)
        \/ Tab \/ Escape \/ Save \/ SaveFails \/ Reread
        \/ \E p \in Places : Go(p)

Spec == Init /\ [][Next]_vars
=============================================================================
