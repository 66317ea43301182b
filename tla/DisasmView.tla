----------------------------- MODULE DisasmView -----------------------------
(***************************************************************************)
(* Moving about a file in the disassembler: the keys of mainloop.c, the    *)
(* incremental painting of plugins/disasm.c (drawAsm) and the CodeGuider   *)
(* that follows what is on the screen.                                     *)
(*                                                                         *)
(* The decoder is external: "code" gives the length of the instruction at  *)
(* every offset and the target of its jump.  One step is one key, from     *)
(* GetEvent to the end of the painting.                                    *)
(***************************************************************************)
EXTENDS CodeGuider

CONSTANTS FLen,        \* length of the file
          MaxCodeLen,  \* disMaxCodeLen
          Align,       \* 16, on which a sweep is aligned
          Codes,       \* decodings there may be
          Keys,        \* keys of the CodeGuider that are pressed
          MaxBack      \* bound on the depth of the return stack

Row    == 0 .. Height - 1
Addr   == 0 .. FLen - 1
Blank  == -1     \* a line past the end of the file
NoJump == -1     \* an instruction without a target
NoMark == -1     \* a line without a key

Decoding == [Addr -> [len : 1 .. MaxCodeLen, to : Addr \cup {NoJump}]]

ASSUME ViewAssumption == /\ {FLen, MaxCodeLen, Align} \subseteq Nat \ {0}
                         /\ Codes \subseteq Decoding
                         /\ Keys \subseteq Nat
                         /\ MaxBack \in Nat

VARIABLES code,   \* what the decoder finds
          pos,    \* the position of bm_file_handle
          view,   \* the screen: row, mark, CurrStrLenBuff, amocpos
          page,   \* PrevStrLenAddr, PrevStrLen, PrevPageSize and the like
          guide,  \* the jumps on the screen
          back,   \* the return stack
          hist    \* ghost: the last key, the position before it and the one it
                  \* wanted, and whether the guide lost a jump of this screen

vars == <<code, pos, view, page, guide, back, hist>>

(* Summ of CurrStrLenBuff[0 .. n - 1].                                     *)
Summ(len, n) ==
  LET S[i \in 0 .. Height] == IF i = 0 THEN 0 ELSE S[i - 1] + len[i - 1]
  IN  S[n]

-----------------------------------------------------------------------------
(* The instructions a linear sweep meets between two offsets.              *)
Sweep(from, bound) ==
  LET S[a \in from .. bound + MaxCodeLen] ==
        IF a >= bound THEN <<>> ELSE <<a>> \o S[a + code[a].len]
  IN  S[from]

(* The last lines before the bound, found by decoding from far enough      *)
(* ahead of it.                                                            *)
FillPrevAsmPage(bound, predist) ==
  LET far  == (predist \div Align) * Align + Align
      seen == Sweep(IF bound >= far THEN bound - far ELSE 0, bound)
  IN  SubSeq(seen, IF Len(seen) > Height THEN Len(seen) - Height + 1 ELSE 1,
             Len(seen))

StepBack_NextLine(pg, len, at) ==
  [pg EXCEPT !.PrevStrLenAddr = Append(IF Len(@) < Height THEN @ ELSE Tail(@),
                                       at - len[0]),
             !.PrevStrLen = len[1], !.CurrStrLen = len[1]]

(* What is above the screen after a step down: the line that leaves it.    *)
StepBack(pg, len, at) ==
  LET above == Append(IF Len(pg.PrevStrLenAddr) < Height
                        THEN pg.PrevStrLenAddr ELSE Tail(pg.PrevStrLenAddr),
                      at - len[0])
  IN  [pg EXCEPT !.PrevStrLenAddr = above,
                 !.PrevStrLen = len[0],
                 !.CurrStrLen = len[1],
                 !.PrevPageSize = Last(above) - Head(above) + len[0]]

PageBack_ShortByOne(pg, len, at) ==
  [pg EXCEPT !.PrevStrLen = len[Height - 1], !.PrevPageSize = Summ(len, Height - 1)]

(* After a page down: the lines of the page that leaves.                   *)
PageBack(pg, len, at) ==
  LET size == Summ(len, Height)
  IN  [pg EXCEPT !.PrevStrLenAddr = [i \in 1 .. Height |-> at - size + Summ(len, i)],
                 !.PrevStrLen = len[Height - 1],
                 !.PrevPageSize = size]

(* Else the lines above are decoded.                                       *)
SweepBack(pg, at, predist) ==
  LET above == FillPrevAsmPage(at, predist)
  IN  [pg EXCEPT !.PrevStrLenAddr = above,
                 !.PrevStrLen = IF above = <<>> THEN 0 ELSE at - Last(above),
                 !.PrevPageSize = IF above = <<>> THEN 0 ELSE at - Head(above)]

(* PrevStrLenAddr, and the distances the next Up and PgUp will go.         *)
PrepareAsmLines(pg, len, key, at) ==
  CASE key = "down" -> StepBack(pg, len, at)
    [] key = "pgdn" -> PageBack(pg, len, at)
    [] key = "up"   -> SweepBack(pg, at, pg.PrevPageSize + Align - 1)
    [] OTHER        -> SweepBack(pg, at, Height * MaxCodeLen)

-----------------------------------------------------------------------------
(* Painting works on a canvas: the screen, the guide, and the offset of    *)
(* the next line.                                                          *)

(* The digits of the jumps are written again beside their lines.           *)
Redrawn(mark, g, lines) ==
  [r \in Row |-> IF \E i \in 1 .. Len(g.addr) : lines[i] = r
                   THEN gidGetAddressKey(g, CHOOSE i \in 1 .. Len(g.addr) : lines[i] = r)
                   ELSE mark[r]]

PaintLine(c, i) ==
  IF c.at >= FLen
    THEN [c EXCEPT !.row[i] = Blank, !.len[i] = 0, !.mark[i] = NoMark]
    ELSE LET insn  == code[c.at]
             shown == insn.to # NoJump /\ (c.guide.alarm \/ Room(c.guide))
             g     == IF insn.to = NoJump THEN c.guide
                                          ELSE GidAddGoAddress(c.guide, i, insn.to)
             plain == [c.mark EXCEPT ![i] = NoMark]
         IN  [c EXCEPT !.row[i] = c.at, !.len[i] = insn.len,
                       !.at = c.at + insn.len,
                       !.guide = g,
                       !.mark = IF ~shown THEN plain
                                ELSE IF g.alarm THEN Redrawn(plain, g, g.line)
                                ELSE [plain EXCEPT ![i] = gidGetAddressKey(g, Len(g.addr))]]

PaintLines(c, first, last) ==
  LET P[i \in first - 1 .. last] == IF i < first THEN c ELSE PaintLine(P[i - 1], i)
  IN  P[last]

ScrolledDn(f) == [r \in Row |-> IF r = 0 THEN f[0] ELSE f[r - 1]]
ScrolledUp(f) == [r \in Row |-> IF r = Height - 1 THEN f[r] ELSE f[r + 1]]

Lesser(m, n) == IF m < n THEN m ELSE n

(* The canvas after the repaint a key asks for; "done" is FALSE when there *)
(* was no line left to scroll in.                                          *)
Repainted(v, g, key, p) ==
  LET reset == GidResetGoAddress(g, key)
      lines == [i \in 1 .. Len(reset.line) |-> reset.line[i] + 1]
      marks == IF key = "down" THEN Redrawn(v.mark, reset, lines) ELSE v.mark
      onto(at, r, m, l, first, last) ==
        LET from == Lesser(at, FLen)
            c    == PaintLines([at |-> from, row |-> r, mark |-> m, len |-> l,
                                guide |-> reset], first, last)
        IN  [row |-> c.row, mark |-> c.mark, len |-> c.len, guide |-> c.guide,
             amocpos |-> from, done |-> TRUE]
  IN  CASE key = "up" ->
             onto(p, ScrolledDn(v.row), ScrolledDn(marks), ScrolledDn(v.len), 0, 0)
        [] key = "down" /\ v.len[1] # 0 ->
             onto(p + Summ(ScrolledUp(v.len), Height - 1), ScrolledUp(v.row),
                  ScrolledUp(marks), ScrolledUp(v.len), Height - 1, Height - 1)
        [] key = "down" /\ v.len[1] = 0 ->
             [row |-> v.row, mark |-> marks, len |-> v.len, guide |-> reset,
              amocpos |-> v.amocpos, done |-> FALSE]
        [] OTHER -> onto(p, v.row, v.mark, v.len, 0, Height - 1)

Screen(c) == [row |-> c.row, mark |-> c.mark, len |-> c.len, amocpos |-> c.amocpos]

(* A step up scrolls only if the line above ends where the screen begins.  *)
EffectiveKey(v, key, p) ==
  IF key = "up" /\ p + code[p].len # v.amocpos /\ p # 0 /\ v.amocpos # 0
    THEN "super" ELSE key

(* drawAsm.                                                                *)
drawAsm(key0, p) ==
  LET key == EffectiveKey(view, key0, p)
      pg  == PrepareAsmLines(page, view.len, key, p)
      c   == Repainted(view, guide, key, p)
  IN  IF view.amocpos = p /\ key \notin {"super", "justfind"}
        THEN /\ page' = pg
             /\ UNCHANGED <<view, guide>>
        ELSE /\ view' = Screen(c)
             /\ guide' = c.guide
             /\ page' = IF ~c.done THEN pg
                        ELSE [pg EXCEPT
                               !.CurrPageSize = Summ(c.len, Height),
                               !.CurrStrLen = IF key # "down" /\ c.row[0] # Blank
                                                THEN c.len[0] ELSE @]

(* Whether a jump stays on the screen but leaves the guide: when there is   *)
(* no line to scroll in, and when a full list gets one more at the top.    *)
Lost(key, p) ==
  IF view.amocpos = p /\ key \notin {"super", "justfind"} THEN hist.lost
  ELSE CASE key = "down" -> hist.lost \/ (view.len[1] = 0 /\ guide.addr # <<>>)
         [] key = "up"   -> \/ hist.lost
                            \/ code[p].to # NoJump /\ ~Room(GidResetGoAddress(guide, key))
         [] OTHER        -> FALSE

-----------------------------------------------------------------------------
BlankView == [row |-> [r \in Row |-> Blank], mark |-> [r \in Row |-> NoMark],
              len |-> [r \in Row |-> 0], amocpos |-> 0]

NoPage == [PrevStrLenAddr |-> <<>>, PrevStrLen |-> 0, CurrStrLen |-> 0,
           PrevPageSize |-> 0, CurrPageSize |-> 0]

(* The first painting, at the offset where the last session ended.         *)
Init ==
  /\ code \in Codes
  /\ pos \in Addr
  /\ back = <<>>
  /\ hist = [key |-> "super", from |-> pos, want |-> pos, lost |-> FALSE]
  /\ LET c == Repainted(BlankView, NoGuide, "super", pos)
     IN  /\ view = Screen(c)
         /\ guide = c.guide
         /\ page = [PrepareAsmLines(NoPage, BlankView.len, "super", pos)
                      EXCEPT !.CurrPageSize = Summ(c.len, Height),
                             !.CurrStrLen = c.len[0]]

Clipped_AtEnd(nfp) == IF nfp < 0 THEN 0 ELSE Lesser(nfp, FLen)

(* The position stays inside the file.                                     *)
Clipped(nfp) == IF nfp < 0 THEN 0 ELSE Lesser(nfp, FLen - 1)

GoTo(key, nfp) == /\ pos' = Clipped(nfp)
                  /\ hist' = [key |-> key, from |-> pos, want |-> nfp,
                              lost |-> Lost(EffectiveKey(view, key, Clipped(nfp)),
                                            Clipped(nfp))]
                  /\ drawAsm(key, Clipped(nfp))
                  /\ UNCHANGED code

Up   == GoTo("up", pos - page.PrevStrLen) /\ UNCHANGED back
Down == GoTo("down", pos + page.CurrStrLen) /\ UNCHANGED back
PgUp == GoTo("pgup", pos - page.PrevPageSize) /\ UNCHANGED back
PgDn == GoTo("pgdn", pos + page.CurrPageSize) /\ UNCHANGED back

(* Left, Right, the same with Ctrl, and the ends of the file.              *)
Arrow == \E nfp \in {pos - 8, pos - 1, pos + 1, pos + 8, 0, FLen} :
           GoTo("arrow", nfp) /\ UNCHANGED back

(* A header (F8, Alt), a search (F7), rereading (F6).                      *)
Header == \E nfp \in Addr : GoTo("alt", nfp) /\ UNCHANGED back
Search == \E nfp \in Addr : GoTo("justfind", nfp) /\ UNCHANGED back
ReRead == GoTo("super", pos) /\ UNCHANGED back

Jump == \E nfp \in Addr : /\ Len(back) < MaxBack
                          /\ GoTo("super", nfp)
                          /\ back' = GidAddBackAddress(back, pos)

Follow(k) == LET r == GidGetGoAddress(guide, back, k, pos)
             IN  /\ Len(back) < MaxBack
                 /\ GoTo("key", r.to)
                 /\ back' = r.back

BackSpace == LET r == GidGetBackAddress(back, pos)
             IN  /\ GoTo("bkspace", r.to)
                 /\ back' = r.back

Next == \/ Up \/ Down \/ PgUp \/ PgDn \/ Arrow \/ Header \/ Search \/ ReRead
        \/ Jump \/ BackSpace
        \/ \E k \in Keys : Follow(k)

Spec == Init /\ [][Next]_vars

-----------------------------------------------------------------------------
(* Every field keeps its range; in particular the position is in the file  *)
(* and no jump of the guide is off the screen (mainloop.c:332-335,         *)
(* codeguid.c:159-175).                                                    *)
TypeOK == /\ pos \in Addr
          /\ view \in [row : [Row -> Addr \cup {Blank}],
                       mark : [Row -> {NoMark} \cup 0 .. GoAddrSize - 2],
                       len : [Row -> 0 .. MaxCodeLen], amocpos : 0 .. FLen]
          /\ Len(guide.addr) = Len(guide.line)
          /\ Len(guide.addr) < GoAddrSize
          /\ \A i \in 1 .. Len(guide.line) : guide.line[i] \in Row
          /\ \A i \in 1 .. Len(back) : back[i] \in Addr
          /\ Len(back) < BackAddrSize

(* The key shown beside a jump of the guide leads where the jump leads,    *)
(* however the screen was scrolled since the key was written there; and    *)
(* each key on the screen is of such a jump, unless one was lost since the *)
(* screen was painted whole (codeguid.c:107-137, 145-219).                 *)
Leads(r) == /\ KeyLeads(guide, view.mark[r])
            /\ guide.addr[gidGetKeyIndex(guide, view.mark[r])] = code[view.row[r]].to

MarkLeads ==
  LET listed == {guide.line[i] : i \in 1 .. Len(guide.addr)}
  IN  \A r \in Row : IF r \in listed THEN view.mark[r] # NoMark /\ Leads(r)
                     ELSE view.mark[r] = NoMark \/ hist.lost

(* What beye_en.txt:341-343 promises: "If there's a pointer in the right   *)
(* position of disassembler string: =>[X] then after pressing key [X] you  *)
(* move to address referenced by instruction."  A key that leads anywhere  *)
(* leads there.                                                            *)
PointersLead ==
  \A r \in Row : view.mark[r] # NoMark /\ KeyLeads(guide, view.mark[r]) => Leads(r)

(* The guide lists jumps that are on the screen, from top to bottom.       *)
GuideOnScreen ==
  \A i \in 1 .. Len(guide.addr) :
    /\ view.row[guide.line[i]] # Blank
    /\ code[view.row[guide.line[i]]].to = guide.addr[i]
    /\ i > 1 => guide.line[i - 1] < guide.line[i]

(* Up takes back a Down that found a next line (disasm.c:154-160).         *)
UpUndoesDown ==
  [][Up /\ hist.key = "down" /\ pos = hist.want /\ pos # hist.from
       => pos' = hist.from]_vars

(* PgUp takes back a PgDn that found a full page (disasm.c:162-179).       *)
PgUpUndoesPgDn ==
  [][PgUp /\ hist.key = "pgdn" /\ pos = hist.want
       => pos' = hist.from]_vars
=============================================================================
