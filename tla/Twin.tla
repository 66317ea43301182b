-------------------------------- MODULE Twin --------------------------------
(***************************************************************************)
(* The text windows of libbeye/twin.c: a list of windows, front first,     *)
(* each with a body (what was written to it) and a save-under buffer (what *)
(* it hides).  Nothing is ever composed anew: every operation patches the  *)
(* screen and the save-under buffers of the windows above.                 *)
(*                                                                         *)
(* A cell of a window is its index in the arrays of tvioBuff, row by row.  *)
(* Characters, code pages and colours are one symbol per cell.  The text   *)
(* cursor is any place the caller may have put it, and the mouse pointer,  *)
(* which is hidden while the screen is written, is left out.               *)
(***************************************************************************)
EXTENDS Integers, Sequences, SequencesExt, FiniteSetsExt

CONSTANTS Width, Height,  \* tvioWidth, tvioHeight
          Windows,
          Framed,         \* windows with TWS_FRAMEABLE
          Shapes,         \* the widths and heights a window may get
          Places,         \* the places a window may be created at
          Steps,          \* how a window may be moved
          Freezable,      \* the windows that are redrawn while frozen
          Strings,        \* what is put: of each character, is it a new line?
          Filler, Frame, Desktop, Junk  \* symbols, as is every window: its text

None == 0   \* no window: NULL

ASSUME TwinAssumption ==
  /\ {Width, Height} \subseteq Nat \ {0}
  /\ None \notin Windows
  /\ Framed \subseteq Windows
  /\ Shapes \in [Windows -> SUBSET ((1 .. Width) \X (1 .. Height))]
  /\ Places \in [Windows -> SUBSET ((0 .. Width - 1) \X (0 .. Height - 1))]
  /\ Steps \in [Windows -> SUBSET (Int \X Int)]
  /\ Freezable \subseteq Windows
  /\ Strings \subseteq Seq(BOOLEAN)

VARIABLE t  \* head (the list), win (the TWindow of each window), screen

Screen == (0 .. Width - 1) \X (0 .. Height - 1)
Symbol == Windows \cup {Filler, Frame, Desktop, Junk}

(* "owed" is no field of the code: the cells of a body that changed while  *)
(* the window was frozen, and were not sent to the screen since.           *)
TWindow(size) ==
  [X1 : Nat, Y1 : Nat, wwidth : Nat, wheight : Nat,
   visible : BOOLEAN, enabled : BOOLEAN,
   body : [0 .. size - 1 -> Symbol], saved : [0 .. size - 1 -> Symbol],
   owed : SUBSET (0 .. size - 1)]

Cells(v)   == 0 .. v.wwidth * v.wheight - 1
Pos(v, k)  == <<v.X1 + (k % v.wwidth), v.Y1 + (k \div v.wwidth)>>
Covers(v, p) == /\ v.visible
                /\ p[1] >= v.X1 /\ p[1] < v.X1 + v.wwidth
                /\ p[2] >= v.Y1 /\ p[2] < v.Y1 + v.wheight
CellAt(v, p) == (p[1] - v.X1) + (p[2] - v.Y1) * v.wwidth

Row(v, y)     == {k \in Cells(v) : (k \div v.wwidth) = y}
Border(v)     == {k \in Cells(v) : \/ (k % v.wwidth) \in {0, v.wwidth - 1}
                                   \/ (k \div v.wwidth) \in {0, v.wheight - 1}}
Client(w, v)  == IF w \in Framed THEN Cells(v) \ Border(v) ELSE Cells(v)

-----------------------------------------------------------------------------
(* The list of windows.                                                    *)
Listed(s, w)     == w \in Range(s.head)
Index(s, w)      == SelectInSeq(s.head, LAMBDA u : u = w)
prevwin(s, w)    == IF Index(s, w) <= 1 THEN None ELSE s.head[Index(s, w) - 1]
unlistwin(s, w)  == [s EXCEPT !.head = RemoveAt(@, Index(s, w))]
AtHead(s, w)     == [s EXCEPT !.head = <<w>> \o @]
AtWin(s, w, prev) == IF prev = None THEN AtHead(s, w)
                     ELSE [s EXCEPT !.head = InsertAt(@, Index(s, prev) + 1, w)]

FindOver_Highest(s, w, p) ==
  LET above == {i \in 1 .. Index(s, w) - 1 : Covers(s.win[s.head[i]], p)}
  IN  IF above = {} THEN None ELSE s.head[Min(above)]

(* The lowest of the windows that cover a place of w: the one whose        *)
(* save-under buffer holds what w shows there.                             *)
FindOver(s, w, p) ==
  LET above == {i \in 1 .. Index(s, w) - 1 : Covers(s.win[s.head[i]], p)}
  IN  IF above = {} THEN None ELSE s.head[Max(above)]

(* The window on top at a place.                                           *)
AtPoint(s, p) ==
  LET there == {i \in 1 .. Len(s.head) : Covers(s.win[s.head[i]], p)}
  IN  IF there = {} THEN None ELSE s.head[Min(there)]

-----------------------------------------------------------------------------
(* Sending some cells of a window to the screen: a cell that is covered    *)
(* goes to the window that covers it.  With "accel" a line of the screen   *)
(* is written as a whole, so the places of the covered cells are written   *)
(* too, with what is on top of them; a frozen window is not written.  The  *)
(* code looks at each cell only if a window overlaps this one; for the     *)
(* others there is nothing to find.                                        *)
Above(s, w) == {u \in Range(SubSeq(s.head, 1, Index(s, w) - 1)) : s.win[u].visible}

Saving(s, w, u, cells, buff) ==
  LET v == s.win[w]
      Sent(p) == Covers(v, p) /\ CellAt(v, p) \in cells /\ FindOver(s, w, p) = u
  IN  [k \in DOMAIN s.win[u].saved |->
         LET p == Pos(s.win[u], k)
         IN  IF Sent(p) THEN buff[CellAt(v, p)] ELSE s.win[u].saved[k]]

Update(s, w, cells, buff, accel, written) ==
  LET v == s.win[w]
      over == Above(s, w)
      Sent(p) == Covers(v, p) /\ CellAt(v, p) \in cells
      Shown(p) ==
        IF over = {} \/ FindOver(s, w, p) = None THEN buff[CellAt(v, p)]
        ELSE IF accel THEN LET top == s.win[AtPoint(s, p)]
                           IN  top.body[CellAt(top, p)]
        ELSE s.screen[p]
  IN  IF ~v.visible THEN s
      ELSE [s EXCEPT
        !.win = [u \in Windows |->
          IF u = w THEN [v EXCEPT !.owed = IF v.enabled THEN v.owed \ cells
                                           ELSE v.owed \cup cells]
          ELSE IF u \in over
            THEN [s.win[u] EXCEPT !.saved = Saving(s, w, u, cells, buff)]
          ELSE s.win[u]],
        !.screen = IF ~written THEN @
                   ELSE [p \in Screen |-> IF Sent(p) THEN Shown(p) ELSE @[p]]]

updatescreenchar(s, w, cells)  ==
  Update(s, w, cells, s.win[w].body, FALSE, s.win[w].enabled)
updatescreenpiece(s, w, cells) ==
  Update(s, w, cells, s.win[w].body, TRUE, s.win[w].enabled)
updatescreen(s, w, full_area)  ==
  updatescreenpiece(s, w, IF full_area THEN Cells(s.win[w]) ELSE Client(w, s.win[w]))

savedwin2screen_Shown(s, w) ==
  Update(s, w, Cells(s.win[w]), s.win[w].saved, TRUE, s.win[w].enabled)
savedwin2screen(s, w) ==
  Update(s, w, Cells(s.win[w]), s.win[w].saved, TRUE, TRUE)

(* Entering a window under others: it takes over what the lowest window    *)
(* above has saved there, and that one saves the body of the new window.   *)
updatewinmem(s, w) ==
  LET v == s.win[w]
      Top(p) == FindOver(s, w, p)
      Memory(u, k) ==
        LET p == Pos(s.win[u], k)
        IN  CASE u = w /\ Top(p) # None ->
                   LET top == s.win[Top(p)] IN top.saved[CellAt(top, p)]
              [] u = w /\ Top(p) = None /\ p \in Screen -> s.screen[p]
              [] u # w /\ Covers(v, p) /\ Top(p) = u -> v.body[CellAt(v, p)]
              [] OTHER -> s.win[u].saved[k]
  IN  [s EXCEPT !.win = [u \in Windows |->
        [s.win[u] EXCEPT !.saved = [k \in DOMAIN s.win[u].saved |-> Memory(u, k)]]]]

(* Entering a window on top of all others: it saves the screen.            *)
screen2win(s, w) ==
  [s EXCEPT !.win[w].saved = [k \in DOMAIN @ |->
     IF Pos(s.win[w], k) \in Screen THEN s.screen[Pos(s.win[w], k)] ELSE @[k]]]

(* A body gets a symbol in some cells.                                     *)
Put(s, w, cells, ch) ==
  [s EXCEPT !.win[w].body = [k \in DOMAIN @ |-> IF k \in cells THEN ch ELSE @[k]]]

(* The frame: the sides character by character, the first and the last     *)
(* line, which also hold the title and the footer, each as a whole.        *)
paint_internal(s, w) ==
  IF w \notin Framed THEN s
  ELSE LET v == s.win[w]
           lines == Row(v, 0) \cup Row(v, v.wheight - 1)
       IN  updatescreenpiece(
             updatescreenchar(Put(s, w, Border(v), Frame), w, Border(v) \ lines),
             w, lines)

-----------------------------------------------------------------------------
(* What a window that is not shown has saved is never read.                *)
Hide(s, w) ==
  [savedwin2screen(s, w) EXCEPT !.win[w].visible = FALSE, !.win[w].owed = {},
                                !.win[w].saved = [k \in DOMAIN @ |-> Junk]]

Show(s, w) ==
  IF s.win[w].visible THEN s
  ELSE updatescreen(updatewinmem(
         AtHead(unlistwin([s EXCEPT !.win[w].visible = TRUE], w), w), w), w, TRUE)

ShowBeneath_NoSwap(s, w, prev) ==
  LET h == IF s.win[w].visible THEN Hide(s, w) ELSE s
  IN  updatescreen(screen2win(
        AtWin(unlistwin([h EXCEPT !.win[w].visible = TRUE], w), w, prev), w), w, TRUE)

ShowBeneath(s, w, prev) ==
  LET h == IF s.win[w].visible THEN Hide(s, w) ELSE s
  IN  updatescreen(updatewinmem(
        AtWin(unlistwin([h EXCEPT !.win[w].visible = TRUE], w), w, prev), w), w, TRUE)

ShowOnTop(s, w) ==
  LET h == IF s.win[w].visible THEN Hide(s, w) ELSE s
  IN  updatescreen(screen2win(
        AtHead(unlistwin([h EXCEPT !.win[w].visible = TRUE], w), w), w), w, TRUE)

Delta_None(w) == 0
Delta(w)      == IF w \in Framed THEN 2 ELSE 0   \* the two sides of the frame

FillSize(width, oldw) == width - oldw

(* The arrays of a resized window, filled as the loops of twResizeWin do:  *)
(* the copied rows one after the other, then the rows that are new.        *)
(* "ground" is the offset of the first character, for a frame is painted   *)
(* later.  What no loop reaches is memory as it was allocated.             *)
ResizedBody(w, v, width, height) ==
  LET ground == IF w \in Framed THEN 1 ELSE 0
      oldw   == v.wwidth
      kept   == Min({v.wheight, height})
      ncopy  == Min({width, oldw})
      To(i)  == ground + (i - ground) * width
      Run(k, from, n) == k >= from /\ k < from + n
      Copied(i, k) == i < kept /\ Run(k, To(i), ncopy)
      Filled(i, k) ==
        \/ i >= kept /\ Run(k, To(i), width)
        \/ i < kept /\ oldw < width
             /\ Run(k, To(i) + ncopy - Delta(w), FillSize(width, oldw))
  IN  [k \in 0 .. width * height - 1 |->
         LET turns == {i \in ground .. height - 1 : Copied(i, k) \/ Filled(i, k)}
             last  == Max(turns)
         IN  CASE turns = {} -> Junk
               [] turns # {} /\ Filled(last, k) -> Filler
               [] OTHER -> v.body[ground + (last - ground) * oldw + k - To(last)]]

-----------------------------------------------------------------------------
(* The calls of twin.h.  A window that does not exist is not in the list.  *)
NoWindow == [X1 |-> 0, Y1 |-> 0, wwidth |-> 0, wheight |-> 0,
             visible |-> FALSE, enabled |-> FALSE,
             body |-> <<>>, saved |-> <<>>, owed |-> {}]

Init == t = [head |-> <<>>, win |-> [w \in Windows |-> NoWindow],
             screen |-> [p \in Screen |-> Desktop]]

twCreateWin(w, place, shape, visible) ==
  LET size == shape[1] * shape[2]
      made == [t EXCEPT !.win[w] =
                 [X1 |-> place[1], Y1 |-> place[2],
                  wwidth |-> shape[1], wheight |-> shape[2],
                  visible |-> FALSE, enabled |-> TRUE,
                  body |-> [k \in 0 .. size - 1 |-> Filler],
                  saved |-> [k \in 0 .. size - 1 |-> Junk], owed |-> {}]]
      drawn == paint_internal(AtHead(made, w), w)
  IN  /\ ~Listed(t, w)
      /\ t' = IF visible THEN Show(drawn, w) ELSE drawn

twDestroyWin(w) ==
  /\ Listed(t, w)
  /\ t' = [unlistwin(Hide(t, w), w) EXCEPT !.win[w] = NoWindow]

twShowWin(w)      == Listed(t, w) /\ t' = Show(t, w)
twShowWinOnTop(w) == Listed(t, w) /\ t' = ShowOnTop(t, w)
twHideWin(w)      == Listed(t, w) /\ t' = Hide(t, w)

(* A window moves without leaving its place in the list.  No caller moves  *)
(* one above, below or left of the screen; it may stick out on the right.  *)
twMoveWin(w, d) ==
  LET v == t.win[w]
      moved == [(IF v.visible THEN Hide(t, w) ELSE t) EXCEPT
                  !.win[w].X1 = @ + d[1], !.win[w].Y1 = @ + d[2]]
  IN  /\ Listed(t, w)
      /\ v.X1 + d[1] \in 0 .. Width - 1
      /\ v.Y1 + d[2] \in 0 .. Height - v.wheight
      /\ t' = IF v.visible THEN ShowBeneath(moved, w, prevwin(t, w)) ELSE moved

twResizeWin(w, shape) ==
  LET v == t.win[w]
      sized == [(IF v.visible THEN Hide(t, w) ELSE t) EXCEPT
                  !.win[w].wwidth = shape[1], !.win[w].wheight = shape[2],
                  !.win[w].body = ResizedBody(w, v, shape[1], shape[2]),
                  !.win[w].saved = [k \in 0 .. shape[1] * shape[2] - 1 |-> Junk],
                  !.win[w].owed = {}]
      drawn == paint_internal(sized, w)
  IN  /\ Listed(t, w)
      /\ v.Y1 + shape[2] <= Height
      /\ t' = IF v.visible THEN ShowBeneath(drawn, w, prevwin(t, w)) ELSE drawn

twCentredWin(w) ==
  LET v == t.win[w]
      moved == [(IF v.visible THEN Hide(t, w) ELSE t) EXCEPT
                  !.win[w].X1 = (Width - v.wwidth) \div 2,
                  !.win[w].Y1 = (Height - v.wheight) \div 2]
  IN  /\ Listed(t, w)
      /\ t' = IF v.visible THEN Show(moved, w) ELSE moved

(* A new frame, title or footer: the frame is painted again.               *)
twSetFrame(w) == Listed(t, w) /\ w \in Framed /\ t' = paint_internal(t, w)

(* While a window is frozen its body changes and the screen does not.      *)
twFreezeWin(w) ==
  /\ Listed(t, w) /\ w \in Freezable
  /\ t' = [t EXCEPT !.win[w].enabled = FALSE]

Thawed(w) == [t EXCEPT !.win[w].enabled = TRUE]

twRefreshPiece(w, cells) ==
  Listed(t, w) /\ t' = updatescreenpiece(Thawed(w), w, cells)
twRefreshLine(w, y) == twRefreshPiece(w, Row(t.win[w], y))
twRefreshWin(w)     == Listed(t, w) /\ t' = updatescreen(Thawed(w), w, w \notin Framed)
twRefreshFullWin(w) == Listed(t, w) /\ t' = updatescreen(Thawed(w), w, TRUE)

-----------------------------------------------------------------------------
(* Text.                                                                   *)
InLine_ToEdge(w, v, k) == {j \in Cells(v) : /\ (j \div v.wwidth) = (k \div v.wwidth)
                                           /\ j >= k}
InLine(w, v, k) == {j \in Client(w, v) : /\ (j \div v.wwidth) = (k \div v.wwidth)
                                         /\ j >= k}

twClearWin(w) ==
  LET v == t.win[w]
      inner == Client(w, v)
      rows == {k \in Cells(v) : \E j \in inner : (j \div v.wwidth) = (k \div v.wwidth)}
  IN  /\ Listed(t, w)
      /\ t' = updatescreenpiece(Put(t, w, inner, Filler), w, rows)

(* From the cursor, at k, to the end of the line.                          *)
twClrEOL(w, k) ==
  LET v == t.win[w]
  IN  /\ Listed(t, w) /\ k \in Client(w, v)
      /\ t' = updatescreenpiece(Put(t, w, InLine(w, v, k), Filler), w,
                                Row(v, k \div v.wwidth) \ (0 .. k - 1))

twPutChar(w, k) ==
  /\ Listed(t, w) /\ k \in Client(w, t.win[w])
  /\ t' = updatescreenchar(Put(t, w, {k}, w), w, {k})

twDirectWrite(w, k, len) ==
  LET cells == {j \in InLine(w, t.win[w], k) : j < k + len}
  IN  /\ Listed(t, w) /\ k \in Client(w, t.win[w])
      /\ t' = updatescreenpiece(Put(t, w, cells, w), w, cells)

(* A string, as the flags "a new line": what of a line was written is sent *)
(* to the screen at its end.  A new line leaves the cursor in its line     *)
(* unless the window has a frame (set_xy counts from one).                 *)
NewLine(w, v, c) ==
  IF w \notin Framed THEN [c EXCEPT !.x = 0]
  ELSE [c EXCEPT !.x = 1, !.y = IF @ + 1 > v.wheight - 1 THEN v.wheight - 2 ELSE @ + 1]

Line(v, c) == {k \in Cells(v) : /\ k >= c.usx + c.y * v.wwidth
                                /\ k < c.x + c.y * v.wwidth}

PutChars(w, v, c, newline) ==
  LET k == c.x + c.y * v.wwidth
      n == NewLine(w, v, c)
  IN  IF newline
        THEN [n EXCEPT !.s = updatescreenpiece(c.s, w, Line(v, c)), !.usx = n.x]
      ELSE IF c.x < v.wwidth /\ k \in Client(w, v)
        THEN [c EXCEPT !.s = Put(c.s, w, {k}, w), !.x = @ + 1]
      ELSE c

twPutS(w, k, str) ==
  LET v == t.win[w]
      C[i \in 0 .. Len(str)] ==
        IF i = 0 THEN [s |-> t, x |-> k % v.wwidth, y |-> k \div v.wwidth,
                       usx |-> k % v.wwidth]
                 ELSE PutChars(w, v, C[i - 1], str[i])
      end == C[Len(str)]
  IN  /\ Listed(t, w) /\ k \in Client(w, v)
      /\ t' = updatescreenpiece(end.s, w, Line(v, end))

(* Lines move up from below "ypos" and down from "ypos"; only windows      *)
(* without a frame are scrolled.                                           *)
Scrolled(w, rows, from) ==
  LET v == t.win[w]
      s == [t EXCEPT !.win[w].body = [k \in DOMAIN @ |->
              IF (k \div v.wwidth) \in rows THEN @[k + from * v.wwidth] ELSE @[k]]]
  IN  updatescreenpiece(s, w, {k \in Cells(v) : (k \div v.wwidth) \in rows})

twScrollWinUp(w, ypos) ==
  /\ Listed(t, w) /\ w \notin Framed /\ ypos \in 1 .. t.win[w].wheight - 1
  /\ t' = Scrolled(w, 0 .. ypos - 1, 1)

twScrollWinDn(w, ypos) ==
  /\ Listed(t, w) /\ w \notin Framed /\ ypos \in 1 .. t.win[w].wheight - 1
  /\ t' = Scrolled(w, ypos .. t.win[w].wheight - 1, -1)

-----------------------------------------------------------------------------
Write(w) ==
  LET v == t.win[w]
  IN  \/ twClearWin(w)
      \/ \E k \in Client(w, v) :
           \/ twPutChar(w, k)
           \/ twClrEOL(w, k)
           \/ \E len \in {2, v.wwidth} : twDirectWrite(w, k, len)
           \/ \E str \in Strings : twPutS(w, k, str)
      \/ \E ypos \in 1 .. v.wheight - 1 : twScrollWinUp(w, ypos) \/ twScrollWinDn(w, ypos)

Refresh(w) == \/ \E y \in 0 .. t.win[w].wheight - 1 : twRefreshLine(w, y)
              \/ twRefreshWin(w)
              \/ twRefreshFullWin(w)

Next == \E w \in Windows :
  \/ \E place \in Places[w], shape \in Shapes[w], visible \in BOOLEAN :
       twCreateWin(w, place, shape, visible)
  \/ twDestroyWin(w) \/ twShowWin(w) \/ twShowWinOnTop(w) \/ twHideWin(w)
  \/ \E d \in Steps[w] : twMoveWin(w, d)
  \/ \E shape \in Shapes[w] : twResizeWin(w, shape)
  \/ twCentredWin(w)
  \/ twSetFrame(w) \/ twFreezeWin(w) \/ Refresh(w)
  \/ Write(w)

Spec == Init /\ [][Next]_t

-----------------------------------------------------------------------------
(* No cell of a window is memory that was never written.                   *)
TypeOK ==
  /\ IsInjective(t.head) /\ Range(t.head) \subseteq Windows
  /\ t.screen \in [Screen -> Symbol]
  /\ \A w \in Windows :
       LET v == t.win[w]
       IN  IF Listed(t, w)
             THEN /\ v \in TWindow(v.wwidth * v.wheight)
                  /\ Junk \notin Range(v.body)
             ELSE v = NoWindow

(* What a window shows at a place, if it is not behind with sending it.    *)
Shows(w, p, symbol) ==
  LET v == t.win[w]
  IN  CellAt(v, p) \in v.owed \/ symbol = v.body[CellAt(v, p)]

(* Whatever was created, shown, hidden, raised, moved, resized and written *)
(* before, the screen shows at each place the text of the window on top,   *)
(* and what was there before any window where no window is.                *)
ScreenIsComposite ==
  \A p \in Screen : LET top == AtPoint(t, p)
                    IN  IF top = None THEN t.screen[p] = Desktop
                        ELSE Shows(top, p, t.screen[p])

(* The save-under buffer of a window on the screen holds what the next     *)
(* window below shows there: hiding the window uncovers the right text.    *)
SavedIsBeneath ==
  \A w \in Range(t.head) : \A k \in Cells(t.win[w]) :
    LET p == Pos(t.win[w], k)
        beneath == {i \in Index(t, w) + 1 .. Len(t.head) :
                     Covers(t.win[t.head[i]], p)}
    IN  (t.win[w].visible /\ p \in Screen) =>
          IF beneath = {} THEN t.win[w].saved[k] = Desktop
          ELSE Shows(t.head[Min(beneath)], p, t.win[w].saved[k])

(* Text never reaches the frame of a window, nor does a resize leave a     *)
(* gap in it.                                                              *)
FrameIntact ==
  \A w \in Framed \cap Range(t.head) :
    \A k \in Border(t.win[w]) : t.win[w].body[k] = Frame

(* A resized window keeps the text that fits into it, in its place, and    *)
(* has filler elsewhere.                                                   *)
ResizedWell(w, v, n) ==
  \A k \in Client(w, n) :
    LET x == k % n.wwidth
        old == x + (k \div n.wwidth) * v.wwidth
    IN  n.body[k] = IF x < v.wwidth /\ old \in Client(w, v) THEN v.body[old] ELSE Filler

ResizeKeepsText ==
  [][\A w \in Range(t.head) \cap Range(t'.head) :
       LET v == t.win[w]  n == t'.win[w]
       IN  <<v.wwidth, v.wheight>> # <<n.wwidth, n.wheight>> => ResizedWell(w, v, n)]_t
=============================================================================
