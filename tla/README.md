# BEYE in TLA+

BEYE (Binary EYE) shows and edits binary files in a text terminal: as text, as
hexadecimal digits, or disassembled. This directory holds TLA+ modules
translated from its C sources, the TLC runs that check them on small instances,
and theorems about them proved with TLAPS. Paths below are relative to the root of the
repository; all modelled code is that of the Linux build.

1. [The system](#1-the-system) – components, state, interaction, what is hard
2. [The modules](#2-the-modules) – what each models, and how
3. [The runs](#3-the-runs) – questions, bounds, fairness, results
4. [The proofs](#4-the-proofs) – theorems, invariants, assumptions
5. [What the code does otherwise than its texts say](#5-where-code-and-text-differ)
6. [What is left out, and the plan](#6-what-is-left-out-and-the-plan)

## 1. The system

One thread runs everything. `MainLoop` (mainloop.c) takes an event, lets the
active mode compute a new file position, clips it to the file, and has the mode
paint. Below it lie the file, reached through buffered streams, and the screen,
reached through windows. The only concurrency is the handler of `SIGIO`, which
the kernel may run between any two instructions of the thread.

| component | state | operations | what makes it correct |
|---|---|---|---|
| buffered streams, libbeye/bbio.c | `BFILE`: position, length, a window `MBuffer` on the file, dirty flag | open, close, seek, read and write of bytes, words and buffers, flush, reread, resize, dup | the stream is a byte array: what was written is read; no index leaves the window; length and window agree with the file |
| files of the viewer, bmfile.c | two streams on the same file, `bm_file_handle` and `sc_bm_file_handle` | thin calls of bbio; `BMReRead` after an edit by a third stream | all handles see an edit once it is done |
| block operations, fileutil.c | a stream opened for the operation, a buffer, two positions | insert or delete a block, change the size, copy, fill, translate | the resulting file is the one asked for; no byte is lost on the way |
| CodeGuider, codeguid.c | addresses and lines of the jumps on the screen; a stack of return addresses | shift with the screen, add a jump, look up a key, push and pop | a key shown beside a jump leads where the jump leads; BackSpace returns |
| disassembler view, plugins/disasm.c, mainloop.c | position; lengths of the lines shown; `amocpos`; distances for Up and PgUp | a key: move, scroll or repaint, follow a jump, return | the screen shows consecutive instructions, the guide matches it, steps can be taken back |
| keyboard and events, linux/keyboard.c, events.c | `keybuf`, `shift_status`, `KB_Buff` | push (handler), wait for and take a key, post | keys arrive once, in order, with their modifiers; the pool is not overrun |
| editors, editors.c, bconsole.c, plugins/{hexmode,binmode,disasm}.c | `EditorMem`: the bytes shown, a copy, line lengths; the cursor | keys, functions on a byte, save | only bytes that were edited change; the lines are those of the file; the cursor stays on a byte of one |
| text search, search.c | pattern, flags, where something was found | search, search on, stop | what is found is there, is the first or the nearest, and a search ends |
| names, bin_util.c; the dump in fileutil.c | a list of the user's names and its file, a list of the format's | add, delete, load, save, find, next name, dump | each offset has the name it was given, in the program and in the next one; a dump has every name |
| lists, beyelib.c | linear arrays | add, delete, sort, search | sorted, and found if there |
| ini files, libbeye/file_ini.c | a cache with a dirty flag, the state of a preprocessor, the file | open, read, write, close | what was set is read, in this program and in the next, and a crash loses all or nothing |
| window manager, libbeye/twin.c | windows in order, contents, save-under buffers | create, show, hide, raise, move, resize, scroll, write | the screen is what painting all windows back to front would show |
| arrays on low memory, beyeutil.c, pmalloc.c | arrays, callbacks | grow, free on low memory | nothing half-built |
| mapped files, linux/mmfio.c | a mapping and its length | map, grow, sync, dup | the mapping covers the file |
| dialogs, formats, decoders, others | see PROJECT.json | | |

How they interact: the view calls the CodeGuider directly while it paints
(`GidAddGoAddress` from the decoder, `GidResetGoAddress` before) and through
`MainLoop` when a key is pressed. View, editors and block operations call bmfile
and bbio. An editor or block operation opens the file a second time for writing
and tells the viewer with `BMReRead`. Everything that is seen goes through the
windows of twin.c. Settings, and the name of the file with the user's names, go through the
ini file. Names are kept in the linear arrays of beyelib.c. The handler of `SIGIO` and
`__kbdGetKey` share `keybuf` and `shift_status` without a lock.

Hard behaviours, which PROJECT.json lists line by line under "hazards": state
that shadows other state (window and file, guide and screen, `amocpos` and
screen), failures of a write, a truncation or an allocation in the middle of an
operation, loops in unsigned arithmetic over overlapping regions, the
unsynchronised handler, tables that fill up, a crash while the ini file is
replaced, and static variables that outlive the call they were meant for.

## 2. The modules

| module | models | kind |
|---|---|---|
| `FileSpace` | files as byte arrays, `ftruncate` | shared definitions |
| `FileStream` | what a caller of bbio.h may rely on | abstract specification |
| `BBio` | one buffered stream of bbio.c | detailed; implements `FileStream` |
| `CodeGuider` | codeguid.c | operators on a guide and a return stack |
| `DisasmView` | keys, painting and guide together | extends `CodeGuider` |
| `BlockEdit` | insert, delete, resize of fileutil.c | on the byte array that `BBio` implements |
| `KeyEvents` | keyboard.c, events.c, `SIGIO` | two actors on shared memory |
| `Twin` | windows of twin.c | one step per call |
| `Settings` | what the callers of an ini file may rely on | abstract specification |
| `Ini` | file_ini.c | detailed; implements `Settings` |
| `Editor` | editors.c, the editors of the three modes, `BMReRead` | one step per key |
| `Search` | search.c | one step per turn of its loop |
| `Lists` | arrays, sort and search of beyelib.c | operators on sequences |
| `Names` | bin_util.c, the dump of fileutil.c | extends `Lists` |
| `MCBBio`, `MCDisasmView`, `MCBlockEdit`, `MCTwin`, `MCIni`, `MCEditor`, `MCSearch`, `MCNames` | instances for TLC | |
| `FileProofs` (of `BBio` and `BlockEdit`), `DisasmViewProofs`, `EditorProofs`, `IniProofs`, `KeyEventsProofs`, `NamesProofs`, `SearchProofs`, `TwinProofs` | theorems | |

**BBio.** The record `s` is the `BFILE` with the names of its fields; `disk` is
the file. C functions that change a `BFILE` are operators from a stream and a file to
a record of both and a result: `Fill`, `Flush`, `Seek`, `Put`. Calls that do
not loop are one action each. `__getbuff` and `__putbuff` loop over the window,
and each iteration is a step (`GetBuff`, `PutBuff`); `call` says how far the
call has come. `bioWriteBuffer` on a stream opened for reading is refused.
Bytes are members of a small set; `Junk` stands for a byte that nobody wrote,
so that uninitialised memory is visible. With `Faults` a write may accept fewer
bytes and a truncation may fail. Unsigned subtraction is kept where it matters: in
`GetBuff` a negative remainder asks for everything that is left, and in
`CheckEof` a negative position counts as past the end. Resizing (`bioChSize`)
seeks to the end and writes zeros, or moves the window and cuts.

**FileStream.** No cache: the content, a copy on the disk that lags behind it
byte by byte (`WriteBack`), a position, and what is left of a call. The bytes
of a gap left by writing past the end are unspecified. `BBio` maps its window over its
disk (`Contents`) to the content.

**CodeGuider, DisasmView.** A guide is the sequence of jumps on the screen with
their lines; keys are numbers, `0` for "0" and `35` for "Z". A step of
`DisasmView` is one key, from `GetEvent` to the end of `drawAsm`: `GoTo` clips
the position as mainloop.c does and paints. `Repainted` scrolls the rows, the marks and the lengths of
the lines as the code scrolls the screen and `CurrStrLenBuff`, then paints one
line or all of them; each painted line may add a jump to the guide. `page` is
`PrevStrLenAddr` with its companions, from which Up, Down, PgUp and PgDn
compute where they go. `code`, the decoder, is a constant function picked at the start: a length and
a target for each offset, so jumps into the middle of instructions happen.
`hist` only remembers the last key for the properties, and whether the guide lost
a jump that is still on the screen (`Lost`): at a step down with no line to scroll in,
or at a step up that paints a jump when the list is full.

**BlockEdit.** `job` is what was asked for, and of which file. One step is one
turn of a loop of `InsBlock` or `DelBlock`, with the C variables under their
names. The stream is the byte array: a read past the end leaves the buffer as it
was, which is how stale bytes get written at the end of a deletion. With
`EditFaults` the allocation, the growth (after any number of zeros) or the
truncation fails. A failing write inside the loops is not modelled here: the code
ignores it, and what a stream then loses is the subject of `BBio`.

**KeyEvents.** Two actors: the program, whose `__kbdGetKey` is cut at every
access to shared memory (`--keybuf.current` is a read and a write, and
`shift_status` is read in one step and cleared in another), and the handler,
which runs to its end. An int is a tuple of bytes, because both queues are moved
by `memmove` with a number of elements in place of a number of bytes. The terminal is a
sequence of keystrokes; the pending signal is one bit, for signals do not
count. A key is the number of its keystroke, Alt stands for the modifiers, and
a modifier is a keystroke of its own as the terminal code has it. The history variables `typed`, `got` and
`ahead` serve the properties.

**Twin.** `t.head` is the list of windows, front first; a window has its place,
its body and its save-under buffer, with the fields of `TWindow`. Every
operation patches the screen and the buffers of the windows above, as the code
does: `Update` sends cells of a window to the screen, to the save-under buffer of
the lowest window that covers them, or, by lines, together with what
covers them. Every symbol of text is that of its window. A window may be frozen; the ghost
`owed` says which cells it has not sent since. Left out: both
cursors, the active window, hiding the mouse, colours, titles, carriage returns,
places outside the screen to the left or above, scrolling to the
side or by more than a line, and scrolling of framed windows.

**Ini, Settings.** A file is a sequence of lines. `Parsed` is the reader with
its conditionals and one variable; `Hit` is how a lookup ends, `Cached` what a
cache holds. A write goes to a complete cache, or straight to the file: then
the file is copied line by line (`Rewritten`), deleted and replaced in separate
steps, between which the program may die. So it may while a cache is
flushed into the emptied file. `memory` says whether a cache can be complete. `Settings` is a
function with a copy that survives; it can lose everything in one step, which is
what a crash between deletion and renaming does. Its `exposed` says which keys a setting may cost when it
goes straight to the file: in `Ini`, the items that follow the key's in its subsection under a condition (`Behind`), which
the code overwrites (section 5). Left out: letter case, `#include`,
files with errors, texts with `;` or with blanks around punctuation, and
allocations that fail after the cache was complete (section 5). A file is taken to be
smaller than the buffer of stdio, so that a flush is all or nothing; temporary files that a
crash leaves behind are not read again.

**Editor.** `buff`, `save`, `size`, `alen` are `EditorMem`. A step is a key as
`eeditstring` takes it, with everything the loop of the editor does after it: `CompressHex` of the whole line,
`CheckBounds`, and in the assembler editor the decoding of the lines anew. `line` is
the line between two digits of a byte. `Stored` writes the buffer where it
was read; `SaveFails` stops after some bytes. A byte has two digits of base `D`.
The operators of C on bits are constants, of which only that they map bytes to bytes
is assumed; `MCEditor` gives them their meaning with the module Bitwise.

**Search.** `start` moves as in `___lfind`; `cache` is the table
`fillBoyerMooreCache` builds. A step is a turn of the loop, named for how it ends: `Skip`, `Differ`, `NoWord`, `Found`.
A read past the end of the file returns any of `Junk`, or leaves in `fbuff`
what an earlier turn read. Left out: wildcards, symbols of two bytes,
the engines of plugins, and the percentage; the user may stop a search at any turn.

**Lists, Names.** `Lists` has `HQSort`, `HLFind` and `HLFindNearest` as they are
written: the quicksort down to small partitions, the sentinel, the insertion; the bisection
and its linear rest. Loops and the recursion of `qst` are recursive functions, which TLC evaluates
and the provers can expand; `Split` is one call of `qst`, given what its own calls return. `Names` keeps the user's list and that of the file format in
them. A step is a call: to add, delete, load or save names, to end the program and start
the next (`Restart`), to ask for the name of an offset or for the next one; and in a dump, a name or
an instruction. Ghosts say what name each offset was given (`given`), and which
excuses there are: files loaded onto others (`mixed`), a load ended by a bad
line (`unsorted`), a file whose name the program has but which it did not read or write (`astray`), names of
an offset given up (`gaveUp`). Loading and saving begin with a dialog that changes the name of the file; `Misnamed` is
the call that then does nothing, because there is no list or the file cannot be opened, and keeps
that name. A file that is missing at the start of a program is one whose first line is
bad. Left out: empty names of offsets, a save over a failing write of the ini file, loading without memory, dialogs,
and what is not code in a dump.

## 3. The runs

| run | checks | shows |
|---|---|---|
| `stream` | `CleanMirror`, `LengthTracked`, `NoJunk`, `ImplementsStream` | Without seeks past the end the cache does not show: every step of the stream is one of the byte array or a stutter. A window that may be dropped mirrors the disk, the length is that of the file, now or after the flush, and nothing uninitialised is read or written. |
| `stream_faults` | `TypeOK`, `WindowFits`, `AccessInBuffer`, `ReaderWritesNothing`, `CallReturns` | Whatever writes, truncations and seeks past the end do, no access leaves the buffer, a reader leaves the file alone, and every call returns. |
| `view` | `TypeOK`, `MarkLeads`, `GuideOnScreen`, `UpUndoesDown`, `PgUpUndoesPgDn` | After any sequence of keys, the digit beside a jump of the guide leads where the jump leads, no other line has one unless the guide lost a jump (section 5), and the guide agrees with the screen; Up and PgUp take back Down and PgDn. |
| `block_edit` | `EditTypeOK`, `InsertionIsExact`, `DeletionIsExact`, `Halfway`, `NothingLost`, `EditEnds` | Insertions and deletions give exactly the file asked for and lose nothing midway or after a failure; the loops end. |
| `keys` | `TypeOK`, `KeysInOrder`, `KeysArrive` | The races never index outside the pool; keys that are not typed ahead arrive in order and with their own modifiers. |
| `screen` | `ScreenIsComposite`, `SavedIsBeneath`, `FrameIntact`, `ResizeKeepsText` | Patching is as good as composing: after any sequence of calls each place shows the window on top, each save-under buffer what lies beneath; text stays out of frames and in its place. |
| `settings` | `ReadersAgree`, `ImplementsSettings`, `ReadsWhatIsStored` | The three ways of keeping settings (cache, flush, rewriting of lines) are one function; a crash at any step keeps the old one, the new one, or, while the file is replaced, none. Rewriting may lose items that follow under a condition in the same subsection (section 5), and nothing else. |
| `editor` | `OnlyTouched`, `RowsAreInstructions`, `CursorOnLine` | No byte changes but those a key changed, in the buffer or in the file, though whole lines are converted and the whole buffer is written; the lines stay instructions while bytes are typed, and the cursor stays on a byte of one. |
| `search` | `FoundIsThere`, `ForwardFindsFirst`, `BackwardFindsNearest`, `SearchEnds` | What is found is the pattern; forwards it is the first; backwards it is the nearest if the pattern's first character does not recur; both of searches that are not for whole words; every search ends. |
| `names` | `NamesFound`, `LabelsDumped`, `DumpEnds` | Every name is found by its offset, from sorting and bisection and through files and restarts; a dump has a name of each named offset, wherever it starts and whatever was asked before; it ends. |

Two more, `seek_loses` and `stale_keys`, expect a violation; section 5 explains them.

*Bounds, and why they are enough.*

- Streams: a window of 2 bytes (`BufSize`), files of up to 3 or 4 (`MaxLen`),
  starting empty, inside one window or across two; writes of 1 and 3 bytes and
  reads of 2 and 4, so that calls fit the window, straddle it and turn the loop
  three times; seeks to every offset. `DelBlock` reads past the end of a stream
  opened for writing, so `stream_faults` also seeks one past the end (`MaxGap`);
  `NoJunk` is false there, and that the other three of `stream` hold with such
  seeks is proved, for every gap (section 4). A 2-byte window
  already has a first byte, a last byte and a boundary; the theorems lift the
  ones about indices to every size.
- View: 4 lines, 8 offsets, instructions of 1 to 3 bytes, five decodings
  (dense, uneven, with shared targets, with jumps into instructions, with a jump
  at the end of the file). Four lines give a first, a last and two between; the file
  has two pages of the dense decodings, and ends inside a page of the others. The list
  takes three jumps (`GoAddrSize` is 4), so that a screen of jumps fills it and
  jumps get lost, as on a terminal of more than 36 lines of code. `stale_keys` needs
  only three lines and a list that never fills. The proofs lift the results to every size. `Align` is 2 in place of 16, in proportion to the
  file, so that sweeps start at different offsets. `MaxBack` bounds the
  return stack below its 256 cells.
- Block edits: a buffer of 2 bytes and files of up to 4, with distinct bytes,
  so that a byte out of place shows. Edits follow each other, and failed ones
  leave odd files for the next. The proofs cover every size.
- Keys: a pool of 3 and 4 keystrokes, so that it fills and one key is refused;
  two bytes to an int.
- Screen: four columns and three lines; a framed window of three shapes, which grows and shrinks in
  each direction and of which one has no line of text; one of a single cell that may be frozen, and one that lies across both and moves past the edge and
  changes shape. Three windows are the fewest of which one can lie between two
  others. `Shapes`, `Places`, `Steps` and `Freezable` bound the rest.
- Settings: one program with room for a cache, and files with variables,
  conditions and fenced text; one without, and files whose sections come in several orders, with a choice,
  with two items of one condition, or with an item in a condition behind another.
  The second world has no texts with `%` and no key twice, for which the readers
  disagree (section 5). Three keys at a time, two values.
- Editor: base 2, so that a byte has two digits and four values; lines of two
  bytes, two lines, a file of four bytes and one of one; instructions of one to three bytes. Two
  changes (`MaxTyped`) in up to two sittings (`MaxEdits`), with any keys between them.
- Search: all files of up to three characters, and three longer ones with blanks;
  patterns of one to three, with and without recurring characters; two
  searches, so that the second goes on from the first. The proofs lift the results
  to every file and pattern.
- Names: ranges of two in place of 5 are searched one by one, arrays grow by two in place
  of 16, a byte has three values and two names of an offset are too many in place of a
  hundred, so that lists of up to eight go through every branch. All lists
  of up to four names are sorted and searched, and all of six with three offsets; those of up to three are
  dumped, with three longer ones of which many names share an offset, once offset 0. The thresholds of
  the sort (4 and 6) are the code's.

*Fairness.* In `Search` a loop that has begun goes on (weak fairness of `Turn`),
in `Names` a dump (`DumpStep`): one thread runs them, and only the user may
stop them. The user is not assumed to do anything; these runs and `editor` may
stop when a bound is reached, hence `CHECK_DEADLOCK FALSE`. `FairSpec` of `BBio` and `FairEdit` of `BlockEdit` say that one thread runs its
loops to the end (weak fairness of the loop steps): nothing else runs and no
loop waits. `FairSpec` of `KeyEvents` adds that a raised signal is delivered and that the
program keeps asking for events: `GetEvent` is strongly fair because the
program may post an event instead, as the dialog of setup.c does, but only now and then. Nobody is
assumed to type; `CHECK_DEADLOCK FALSE` in those runs stands for a user who stops.

## 4. The proofs

`FileProofs`, of `BBio`, for every buffer size, file, set of inputs, with and without
faults:

- `Typing`: `Spec => []TypeOK`
- `WindowAlwaysFits`: `Spec => []WindowFits`
- `AccessAlwaysInBuffer`: `Spec => []AccessInBuffer`
- `ReaderNeverWrites`: `Spec => ReaderWritesNothing`

The inductive invariant is `Inv == TypeOK /\ WindowFits /\ ReaderClean`. The
types alone are not inductive: `Fill` computes how much to read from the
length, and `Shrunk` moves the start of the window, so the new `MBufLen` is in
range only because the window lies in the file; and that a reader writes
nothing needs that its window is never dirty (`ReaderClean`), for `__seek`
flushes without looking at the mode. One lemma per operator (`FillFits`,
`FlushFits`, `SeekFits`, `PutFits`, `ShrunkFits`, ...) says that it keeps the
invariant; `StepInv` has one step per action. That an access is in the buffer
then follows from what `Seek` establishes.

Also of `BBio`, for every buffer size, file and set of inputs, when no
write or truncation fails (`Faults = FALSE`):

- `Refinement`: `Spec => ImplementsStream`
- `MirrorIsClean`: `Spec => []CleanMirror`
- `LengthIsTracked`: `Spec => []LengthTracked`
- `JunkStaysOut`: `Spec => []NoJunk`, when nobody seeks past the end (`MaxGap = 0`)
  and no caller or file holds the junk symbol (`NoJunkWritten`, true of any
  choice of a fresh symbol for memory that was never written)

Without the first hypothesis these are false: after a write that falls short
the window says it is clean and is not what the disk has, and that is the run `seek_loses`.
The invariant `Known` adds to `Inv` that an open stream *holds* its file:
`Mirrors` (a clean window equals the disk) and `Tracks` (`FLength` is the
length of the disk, or reaches to the end of a window not yet written). The
refinement maps the stream to the bytes a reader sees, `View(s, disk)`: the
window where there is one, the disk elsewhere. `__seek` with its flush and
refill leaves `View` alone (`ReachHolds`), so each turn of `__getbuff` and
`__putbuff` is one byte of the abstract call, and one lemma per action says
which abstract step it is. `NoJunk` needs one more fact: the bytes of the
buffer before the position were all filled (`Filled`), since a write there makes
them part of the window.

`FileProofs`, of `BlockEdit` (whose names there are those of the module, so that they stand beside
those of `BBio`), for every file, block and buffer size, with and without faults:

- `EditTyping`: `EditSpec => []EditTypeOK`
- `LoopsAgree`: `EditSpec => []Halfway`
- `InsertionExact`: `EditSpec => [](EditTypeOK /\ InsertionIsExact)`
- `DeletionExact`: `EditSpec => []DeletionIsExact`
- `NothingIsLost`: `EditSpec => []NothingLost`

The inductive invariant is `EditInv`: types, a well-formed job (`Asked`), files
that are zero past their end, `Halfway`, and exactness at the end. `Halfway` is
the loop invariant: bytes before the part still to be moved are in their old
place, bytes after it in the new one, and `crpos`, `cwpos`, `tile` say where the
border is. Exactness is not inductive without it. `NothingLost` follows from
`Halfway` while a loop runs; the step that ends a deletion is proved apart.

`SearchProofs`, for every alphabet, file, pattern, set of flags, and whatever
memory holds past the end of the file:

- `Typing`: `Spec => []TypeOK`
- `FoundMatches`: `Spec => []FoundIsThere`
- `ForwardFirst`: `Spec => []ForwardFindsFirst`
- `BackwardNearest`: `Spec => []BackwardFindsNearest`

The base invariant is `Kept == TypeOK /\ Reached`: a running search has not
come back over its start, which keeps `findptr` from wrapping below zero.
`ForwardClear` and `BackwardClear` say that no turn has passed over an occurrence that
should be found. The argument is one lemma, `Inside`: a character that lies in an
occurrence is in the table, at its place in it or later. So a character that is not in the table
lies in no occurrence, and the place tried is never after one. That the table
holds last places (`LastPlace`) needs that a finite set of numbers has
a largest, which comes from the library's well-founded induction. Backwards the same
table would lead past an occurrence; `FirstPlace` shows why it does not when the
first character does not recur.

`KeyEventsProofs`, for every size of the pool, bound on keys and keystrokes, with the
handler of SIGIO between any two steps:

- `Typing`: `Spec => []TypeOK`
- `OrderOfKeys`: `Spec => []KeysInOrder`

The pool and its index are written byte by byte while the handler may
interrupt. `IInv` has one part for each of the places a key may be (`Pool`,
`Lines`, `Queue`, `Taking`): it says, for each line of the program that the handler can
interrupt, what the index holds there, and that nothing is left between the
places out of order unless a key was typed ahead. `KeysInOrder` alone says
nothing of keys on their way.

`TwinProofs`, for every screen, set of windows, and sets of shapes, places, moves
and strings:

- `ScreenComposed`: `Spec => []ScreenIsComposite`
- `SavedBeneath`: `Spec => []SavedIsBeneath`
- `FramesWhole`: `Spec => []FrameIntact`
- `TextKept`: `Spec => ResizeKeepsText`

The code never composes the screen; it patches the screen and the
save-under buffers in place. The proof looks at one place of the screen: the
windows that cover it form a chain in the order of the list, and `Chain` says
that what is held *for* a window there (by the screen for the first, by the
save-under buffer of the window above for the others) is what the window has
there, or a cell it owes. `Bottom` of the chain holds the desktop. The two
properties are the first link and the others; neither is inductive alone, for
hiding puts on the screen what was saved, and entering saves what the screen
has. `Sound` is the chain, the arrays of each window (`State`) and the frames;
its parameter is a window whose frame is being repaired, and the third argument
of `Chain` is the set of cells written to a body and not sent yet. Five lemmas carry all
operations: `UpdateGives` (what `updatescreen*` changes, cell by cell),
`UncoverKeeps` (a window leaves the chains), `EnterKeeps` (a window enters them),
`AsideKeeps` (a window in no chain moves, is resized, comes or goes) and `WriteKeeps`
(a body is written). The arithmetic is in `OneCell`: a cell is in one row and one column.
`twPutS` is a fold over its string; `TurnsExist` and `TurnsKeep` do its
induction with the well-foundedness of the numbers.

For `TextKept`, `ResizedBody` copies
the old array into the new one in two loops and fills the rest in two more;
which cell a turn of which loop reaches depends on whether the window has a
frame and whether each side grows or shrinks. `BodyResizedWell` shows that
each cell inside the new frame is reached by just one turn, and that this turn copies
the cell of the same place, if it was inside the old frame, and fills it otherwise.
`CallsApart` says that no call changes the text of another window than its own:
a window that is moved, hidden or raised only saves and restores
what others show.

`DisasmViewProofs`, for every file, decoder, window, size of the guide and of the
return stack:

- `Typing`: `Spec => []TypeOK`
- `PgUpReturns`: `Spec => PgUpUndoesPgDn`

and, in a window of three lines or more and a file longer than two of the
longest instructions (`Wide`; for x86 that is 30 bytes):

- `MarksLead`: `Spec => []MarkLeads`
- `GuideShown`: `Spec => []GuideOnScreen`
- `UpReturns`: `Spec => UpUndoesDown`

The first two follow from `Held`: each line is blank and has no length, or is
an instruction with its own (`Sheet`); the guide is sorted by lines and has room;
the lines above the screen lie in the file and not after it; the distances for the next
page are those of the page shown. One lemma says what each of the four ways of painting does
to a canvas (`UpFits`, `DownFits`, `WholeFits`, and nothing at the
bottom), and `Draws` that `drawAsm` does one of them or keeps the screen. The loop over the
lines and the sweep that decodes the lines above are recursive functions:
`LoopExists` and `SweepExists` build them, by induction with the well-foundedness of the
numbers, and `Whole` is the invariant of the loop.

The others need `Filed` as well, where the code's shortcuts meet: a screen is
not painted from the position after a step down, but `amocpos` is then the
last line; `CurrStrLen` is not the length of the first line after a step down at the
bottom; Up scrolls only if the new line ends where `amocpos` says. `Filled` states what is true
of a screen that has blank lines (it reaches the end of the file, counted from the
position and from `amocpos`), `Stepped` of the distances for Up and Down, `Pictured` of the
jumps in the guide (each is on its line, with its key), `Went` of the last Down.
None of them is inductive alone: that `Up` leaves a screen that reaches the
end of the file needs `Stepped` (a distance that leads to offset 0 is at most
that of its first instruction), and that a Down at the bottom empties the guide needs `Filled`. A key is
the number of targets before its first, and only `PrefixKeepsKeys` and the keys
written again (`RedrawnMarks`) tell that it stays right while the list loses jumps at
either end; `KeyFindsTarget` says that the lookup inverts it.

`Wide` is needed for `UpReturns`: TLC refutes `UpUndoesDown` for two lines, where
`amocpos` can be the position again and the screen is kept (the program starts in a terminal of
three lines, of which one is left for code). For shorter files, and for the other two in
two lines, TLC finds no violation, but the proof does not cover them: it uses that a
step of a line or a page is shorter than the file.

`EditorProofs`, for every file, screen, size of the buffer, base of the digits, table of instruction
lengths and set of forms, after any keys and with failing writes:

- `Typing`: `Spec => []TypeOK`
- `EditsOnlyTheVisited`: `Spec => []OnlyTouched`
- `LinesAreDecoded`: `Spec => []RowsAreInstructions`
- `CursorStays`: `Spec => []CursorOnLine`

`IInv` is `FilesOK` (what the viewer has and what
is on the disk differ from the original only where keys were, and neither ever gets
shorter), and in the modification mode `BufferOK` (the copy is what was read, the buffer differs from it
only where keys were), `CursorOK` (the lines are those of the file, or the instructions of the buffer; the
cursor is on a digit of a line that has some) and `LineOK` (a line kept between two digits has the digits
of the buffer everywhere but in one byte). Without `LineOK` the first key after a first digit could
write anything: the whole line goes through `ExpandHex` and `CompressHex`. `HexKey` and `OtherKey` say for
each kind of key that only one byte of the line changes and that it is under the cursor or, for undo, will be.
`SettleValues` says where the cursor is afterwards; that this is on a line that has bytes is
`CheckBoundsFacts` and `CheckXYBoundsFacts`. In the assembler editor that byte may change the
length of its instruction, so that the position on the line is past its end and the cursor goes to the next:
`InstructionsBefore` shows that this happens only if the first byte of the
instruction was changed, for otherwise two buffers that agree up to a line have the same lines so far.
`StoredFacts` is the argument for the file: the whole buffer is written, but where it
was not visited it holds what was read, which is the file.

`NamesProofs`, for every list of names a format may have, all files of the user, every
file length, growth of the arrays and threshold of the sort and of the search:

- `NamesAreFound`: `Spec => []NamesFound`
- `LabelsAreDumped`: `Spec => []LabelsDumped`

The proof of `NamesAreFound` has two halves. The first is about `Lists`. `HQSortSorts`: the sort gives a
permutation of what it got, in order. The quicksort need not sort, and is not shown to: it stops at
partitions of `THRESH - 1`, so what it owes (`Quick`) is that the elements it changes stay in their range,
and that each range it was called for has its least element among its first `THRESH`. That is what the sentinel needs,
for it looks only at so many, and without a least element in front an insertion would run
out of the array. `Parting` is the invariant of the partition: what is before `i` is no larger
than the element at `mid`, what is after `j` no smaller, and `mid` lies between; `Parted` is what it leaves. The
recursion is by depth: `SplitSorts` assumes what calls on shorter ranges give. `HLFindFinds`: in a
sorted list a key that is there stays in the range that is halved (`HalvedHolds`), and what
is found always has the key, sorted or not.

The second half is `IInv`: types; the list is sorted unless it is `unsorted`
(`Ordered`); it names just what `given` says, each offset once, unless it is `mixed` (`NamesHeld`); the file
of the list does so as well, unless it is behind or `astray` (`FileHolds`); and the names of the format
are one of its readings (`PubsHeld`). `NamesFound` is not inductive without `FileHolds`, for a restart
forgets the list, nor `FileHolds` without `NamesHeld`, for the file is written from the list.

`LabelsAreDumped` rests on what fmtGetPubSym gives. `Near` says where the bisection lands, which
is on some name of the offset if there is one, and on the last before it if not. `Nexts` says of the answer
forwards that no name behind the offset is passed over, and that a name of the offset itself
is behind the one `multiref_i` remembers. The invariant `DumpInv` says of a dump that still has a name to
come (`Coming`) that the names before it in the list are told, that what was put lies before it,
that the dump is not beyond it, and that it is the one `multiref_i` remembers or the first of its
offset. The last is the strengthening: without it the bisection could land before the name that was just given,
and give it again. When none comes, all are told, unless an answer of offset 0 was
taken for none (`BlindTo`). This proof found that exception, which no list in the
instance had reached: `MCNames` now has one.

`IniProofs`, for every set of keys and texts, every file and whenever the program dies, if it has
memory for its cache and starts with a file that is `Sane` (`Plenty`):

- `SettingsAreKept`: `Spec /\ Plenty => ImplementsSettings`
- `ReadersAlwaysAgree`: `Spec /\ Plenty => []ReadersAgree`
- `ReadsAreStored`: `Spec /\ Plenty => ReadsWhatIsStored`

A file is `Sane` if a scan of it does not end inside `#nosmart`, its values are texts, and the search and the
cache read the same from it; each of the files in `MCIni` is, and no file, or an empty
one, is (`EmptyIsSane`). The heart is `ReadBack`: a cache that is flushed is read as itself,
by both readers. `OrderIs` says that its keys are written each once and in order: the number of
smaller ones tells a key from the others and takes every value below their number. So the
names of sections and subsections, written only where they change, lead a
reader to the right place (`HeaderRead`): a key without a subsection comes before those
of its section that have one, where no line could lead back to none. A text with a `%` is
read as it was written because of the fence around it (`ItemRead`). `FlushRead` goes through the file by
induction. `IInv` says that the file is sane, empty while it is flushed, and that a file that is open
has a complete cache; each step of the program is then one of `Settings`: `Set`, `Save`, `Forget`, or `Lose` for
a death during the flush.

The theorems rest on the named assumptions about constants in `FileSpace`,
`BBio`, `BlockEdit`, `CodeGuider`, `DisasmView`, `Editor`, `Ini`, `KeyEvents`, `Lists`, `Names`, `Search` and `Twin`, which TLC evaluates in
the runs. `NamesAssumption` says that a bad line is no name, and that what stands for a name of the
format, and for no name, is not one of the user's. `None \notin Windows` of `Twin` only says that no window is NULL.

Only model-checked: liveness (`CallReturns`, `EditEnds`, `KeysArrive`,
`SearchEnds`, `DumpEnds`), which this prover does not do under fairness;
and `Ini` where memory is short. There a write goes through the file line by line, and
that it finds the place of its key is true of files in which each key is in one place and
each condition inside one section, which is a property of the whole file that `Rewritten`
would have to be shown to keep; the proof covers only a program that never rewrites.

## 5. Where code and text differ

The run `seek_loses` shows that `__seek` ignores the result of the flush and
refills the window (bbio.c:142), where bbio.h:148-152 and 212 promise that the bytes are
written and that the answer says so.

The run `stale_keys` shows a key that leads elsewhere. Down on the last line drops
the jump of the first line from the guide (disasm.c:232) before it finds that there is no line
to scroll in (disasm.c:260), and its key stays on the screen. Two steps up scroll the
key down and give the same key to another jump, where beye_en.txt:341-343
promises that the key beside an instruction leads to the address it refers to.

Noted while modelling, and not given a run; each is in the model unless said otherwise, and the properties exempt it:

- *Streams.* `bioClose` drops the result of its flush (bbio.c:439, against
  bbio.h:127). `bioReadByte` leaves a reader on the last byte of the file after
  reading it (bbio.c:187, against bbio.h:160). `bioReadBuffer` answers True
  after a short read at the end of a file opened for writing (bbio.c:272-274).
- *View.* After a step down `amocpos` is the last line, and a
  jump to that line is not painted. The return stack, when full, moves bytes and not
  elements and overwrites its newest entry (against beye_en.txt:343-344). A full list of
  jumps forgets its last one, whose key stays on the screen (codeguid.c:195-199).
- *Keys.* Keys that wait in the pool are moved by bytes and the wrong way: the
  older one is overwritten (keyboard.c:74 calls it a FIFO).
- *Windows.* A new line at the end of an unframed window stays on its line.
- *Ini files.* A cached write answers False, although file_ini.h says True. A file
  that cannot be created when the cache is flushed ends in a second `FiClosed`. When there is no file, reads
  ignore what was set in the cache. A scan that ends inside `#nosmart` leaves
  it in force for the next. `#elif` opens its part whatever was open before,
  and forbids an `#else` after it. After an `#if`, items that follow overwrite earlier ones of the same name for the search. A setting that
  is rewritten line by line also overwrites items of other names that follow it in its subsection under a
  condition in force, and they are lost: the match (`i_ok`) survives an item that is none, and `if_on` lets the line be written again
  (file_ini.c:1803-1813; `exposed`). A save
  through the cache loses comments, conditions and variables. An allocation that fails late makes a partial cache, and
  the flush of it loses the rest (not in the model).
- *Editors.* Ctrl-BackSpace on a byte of which one digit is typed leaves 7 as the
  other (`GetHexAnalog('.')`), where beye_en.txt:243-244 says that it restores. After
  a failed write `editSaveContest` leaves its handle open and the viewer is not reread, while
  `FullAsmEdit` rereads anyway. The editor of cells of two bytes shows and
  saves twice as many as the file has left (binmode.c:202, 157-179), so the file
  grows, where editor.htx:2-3 says that it cannot. The cursor of the assembler editor may stand past the end of the file.
- *Search.* A backward search never finds what begins closer to the start of the file
  than the pattern is long, and it misses occurrences of patterns whose first
  character recurs (against beye_en.txt:251-253). Past the end it compares with what an
  earlier turn read. Whether there is a character beside a word is asked of `start`,
  not of `findptr` (search.c:193-203); a word that is rejected skips as many
  characters as it has. With symbols of two bytes the end is
  compared in the wrong unit (not in the model).
- *Names.* A bad line ends a load with the answer True, but unsorted, and the file stays open.
  Loading appends to what is there, without a look at what is double. It is refused when there is no list yet. Names loaded
  from a second file are not saved at the end. A load or save that fails or is refused ("UDN list is empty!") still
  changes the name of the file that the next program loads (dialogs.c:337, bin_util.c:311-318, 364-371, 425; `astray`). `la_AddData` failing is not
  noticed. Of several names of one offset a dump leaves out some, against the comment at fileutil.c:535:
  the bisection lands on any of them, and the loop goes on behind that one (bin_util.c:80-90). A name
  of offset 0 counts as none: a dump that starts at 0 puts no further name if there are three or more
  there (`Blind`; bin_util.c:67-111, fileutil.c:529). After a hundred names of one
  offset the dump goes on by a length that wraps in a byte: it skips about 253
  bytes, or ends with an error.

## 6. What is left out, and the plan

Every component is listed in PROJECT.json with what is modelled of it, and the
head of section 2 says what each module leaves out. In the order planned:

1. Proofs: the settings of a program whose memory is short.
2. `bioDup` and `bioDupEx` with the shared offset, the second handle of the viewer, and the
   unbuffered and the mapped backend of bbio, against `FileStream` as well.
3. The search with wildcards; the remaining operations of fileutil.c over two streams.

### Not modelled

The decoders and the parsers of binary formats: most of the lines of the repository, but opcode tables
and formatting, pure functions of a few bytes with no state that outlives a call. Dialogs
and colours; code page tables; the backends of other platforms; the
stand-alone tools; the growing of `memArray` and the callbacks of `PMalloc`, whose state is one call long.
The bisection of `__FileLength` applies to devices only.
