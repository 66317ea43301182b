----------------------------- MODULE CodeGuider -----------------------------
(***************************************************************************)
(* codeguid.c: the keys [0] .. [Z] that the disassembler shows beside the  *)
(* jumps on the screen, and the stack of return addresses.                 *)
(*                                                                         *)
(* A guide g lists the jumps on the screen from top to bottom: g.addr is   *)
(* GoAddr[0 .. GoAddrPtr], g.line is GoLineNums.  The return stack is      *)
(* BackAddr[0 .. BackAddrPtr].  A key is its number: 0 is "0", 35 is "Z".  *)
(***************************************************************************)
EXTENDS Integers, Sequences, FiniteSets, SequencesExt, FiniteSetsExt

CONSTANTS Height,        \* lines of the window
          GoAddrSize,    \* GO_ADDR_SIZE
          BackAddrSize,  \* BACK_ADDR_SIZE
          WordBytes      \* sizeof(__filesize_t)

ASSUME GuiderAssumption ==
  /\ Height \in Nat \ {0, 1}
  /\ {GoAddrSize, BackAddrSize} \subseteq Nat \ {0, 1}
  /\ WordBytes \in Nat \ {0}

NoGuide == [addr |-> <<>>, line |-> <<>>, alarm |-> FALSE]

-----------------------------------------------------------------------------
(* Jumps with the same target share a key.                                 *)
Targets(g, n) == {g.addr[j] : j \in 1 .. n}
FirstTo(g, a) == Min({j \in 1 .. Len(g.addr) : g.addr[j] = a})

gidGetAddressKey(g, i) == Cardinality(Targets(g, FirstTo(g, g.addr[i]) - 1))

gidGetKeyIndex_PerLine(g, key) == key + 1

(* The entry a key stands for, or one past the last.                       *)
gidGetKeyIndex(g, key) ==
  LET hits == {i \in 1 .. Len(g.addr) : Cardinality(Targets(g, i)) = key + 1}
  IN  IF hits = {} THEN Len(g.addr) + 1 ELSE Min(hits)

-----------------------------------------------------------------------------
(* One line up the screen: the jump on the first line goes.                *)
SteppedDown(g) ==
  LET gone == g.addr # <<>> /\ g.line[1] = 0
      kept == IF gone THEN Tail(g.line) ELSE g.line
  IN  [addr  |-> IF gone THEN Tail(g.addr) ELSE g.addr,
       line  |-> [i \in 1 .. Len(kept) |-> kept[i] - 1],
       alarm |-> FALSE]

SteppedUp_NoAlarm(g) ==
  LET down == [i \in 1 .. Len(g.line) |-> g.line[i] + 1]
      n    == Cardinality({i \in DOMAIN down : down[i] < Height})
  IN  [addr |-> SubSeq(g.addr, 1, n), line |-> SubSeq(down, 1, n), alarm |-> FALSE]

(* One line down the screen: at most one jump falls off the last line, and *)
(* the next one painted comes first.                                       *)
SteppedUp(g) ==
  LET down == [i \in 1 .. Len(g.line) |-> g.line[i] + 1]
      n    == IF g.line # <<>> /\ down[Len(down)] >= Height
                THEN Len(down) - 1 ELSE Len(down)
  IN  [addr |-> SubSeq(g.addr, 1, n), line |-> SubSeq(down, 1, n), alarm |-> TRUE]

(* The screen is about to move by a line, or to be painted anew.           *)
GidResetGoAddress(g, key) == CASE key = "down" -> SteppedDown(g)
                               [] key = "up"   -> SteppedUp(g)
                               [] OTHER        -> NoGuide

Room(g) == Len(g.addr) < GoAddrSize - 1

(* A jump was painted on a line: at the top after a step up, else below    *)
(* the others.  A full list forgets its last jump, or ignores the new one. *)
GidAddGoAddress(g, line, addr) ==
  IF g.alarm
    THEN [g EXCEPT !.addr = <<addr>> \o (IF Room(g) THEN @ ELSE Front(@)),
                   !.line = <<line>> \o (IF Room(g) THEN @ ELSE Front(@))]
  ELSE IF Room(g)
    THEN [g EXCEPT !.addr = Append(@, addr), !.line = Append(@, line)]
  ELSE g

-----------------------------------------------------------------------------
(* A full stack is moved by BackAddrPtr bytes, not elements; addresses fit *)
(* in the part of an element that the last of these bytes cover.           *)
GidAddBackAddress(back, pos) ==
  LET ptr   == Len(back) - 1
      moved == (ptr + WordBytes - 1) \div WordBytes
  IN  IF ptr >= BackAddrSize - 2
        THEN [i \in DOMAIN back |-> IF i = Len(back) THEN pos
                                    ELSE IF i <= moved THEN back[i + 1]
                                    ELSE back[i]]
        ELSE Append(back, pos)

(* GidGetGoAddress for a key of a jump: where it leads, and the stack.     *)
KeyLeads(g, key) == gidGetKeyIndex(g, key) \in 1 .. Len(g.addr)

GidGetGoAddress(g, back, key, pos) ==
  IF KeyLeads(g, key)
    THEN [to |-> g.addr[gidGetKeyIndex(g, key)],
          back |-> GidAddBackAddress(back, pos)]
    ELSE [to |-> pos, back |-> back]

(* GidGetGoAddress for the backspace key.                                  *)
GidGetBackAddress(back, pos) ==
  IF back = <<>> THEN [to |-> pos, back |-> back]
                 ELSE [to |-> Last(back), back |-> Front(back)]
=============================================================================
