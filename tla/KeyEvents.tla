----------------------------- MODULE KeyEvents ------------------------------
(***************************************************************************)
(* From the terminal to the program: the key pool of linux/keyboard.c,     *)
(* filled by a handler of SIGIO and emptied by __kbdGetKey, and the queue  *)
(* of events.c in front of it.                                             *)
(*                                                                         *)
(* An int is kept as its bytes, for both queues are moved by memmove with  *)
(* a number of elements for a number of bytes.  A key is the number of its *)
(* keystroke, and Alt stands for the modifiers of a VT100 terminal.  The   *)
(* handler runs between any two steps of the program.                      *)
(***************************************************************************)
EXTENDS Integers, Sequences

CONSTANTS KBUFSIZE,   \* ints in the key pool
          IntBytes,   \* sizeof(int)
          MaxKeys     \* bound on the keystrokes

ASSUME EventAssumption == /\ {KBUFSIZE, IntBytes} \subseteq Nat \ {0}
                          /\ MaxKeys \in Nat

VARIABLES pool, current,   \* keybuf
          shift_status,    \* is Alt down?
          tty, sigio,      \* what the terminal holds; is a signal on its way?
          typed,           \* what was typed
          got,             \* what __kbdGetKey returned
          ahead,           \* was a key typed before the last one was done with?
          KB_Buff,         \* the queue of events.c, KB_Buff[0 .. KB_freq - 1]
          pc,              \* where the program is
          index, key       \* what __kbdGetKey has computed

vars == <<pool, current, shift_status, tty, sigio, typed, got, ahead, KB_Buff, pc, index,
          key>>

terminal == <<tty, sigio, typed, ahead>>
keybuf   == <<pool, current, shift_status>>

KE_SHIFTKEYS == -1
KE_ENTER     == -2
Value  == -2 .. MaxKeys
CInt(v) == [j \in 0 .. IntBytes - 1 |-> v]
Word   == [0 .. IntBytes - 1 -> Value]

(* memmove(cells, &cells[1], n), of n bytes.                               *)
MovedDown(cells, n) ==
  [i \in DOMAIN cells |->
    [j \in 0 .. IntBytes - 1 |->
      IF (i * IntBytes) + j < n THEN cells[i + 1][j] ELSE cells[i][j]]]

-----------------------------------------------------------------------------
Init == /\ pool = [i \in 0 .. KBUFSIZE - 1 |-> CInt(0)]
        /\ current = 0
        /\ shift_status = FALSE
        /\ tty = <<>> /\ sigio = FALSE
        /\ typed = <<>> /\ got = <<>> /\ KB_Buff = <<>>
        /\ ahead = FALSE
        /\ pc = "program" /\ index = 0 /\ key = CInt(0)

Full_OneMore == current > KBUFSIZE
Full == current >= KBUFSIZE

pushEvent(e) ==
  IF Full THEN UNCHANGED <<pool, current>>
          ELSE /\ pool' = [MovedDown(pool, current) EXCEPT ![0] = CInt(e)]
               /\ current' = current + 1

(* Is the key typed next one with Alt?                                     *)
AltTyped == /\ typed # <<>>
            /\ typed[Len(typed)].key = KE_SHIFTKEYS
            /\ typed[Len(typed)].alt

(* Is a key still on its way, or its Alt not yet taken back?               *)
Pending == Len(got) < Len(typed) \/ pc = "clear"

(* Alt or a key is typed.                                                  *)
Type ==
  \E e \in {KE_SHIFTKEYS, Len(typed) + 1} :
    /\ Len(typed) < MaxKeys
    /\ typed' = Append(typed, [key |-> e, alt |-> AltTyped # (e = KE_SHIFTKEYS)])
    /\ tty' = Append(tty, e)
    /\ sigio' = TRUE
    /\ ahead' = (ahead \/ Pending)
    /\ UNCHANGED <<keybuf, got, KB_Buff, pc, index, key>>

ReadNextEvent_AltOn ==
  /\ sigio
  /\ sigio' = FALSE
  /\ IF tty = <<>>
       THEN UNCHANGED <<tty, keybuf>>
       ELSE /\ tty' = Tail(tty)
            /\ shift_status' = (shift_status \/ Head(tty) = KE_SHIFTKEYS)
            /\ pushEvent(Head(tty))
  /\ UNCHANGED <<typed, ahead, got, KB_Buff, pc, index, key>>

(* The handler runs to its end, and reads one key: signals do not count.   *)
ReadNextEvent ==
  /\ sigio
  /\ sigio' = FALSE
  /\ IF tty = <<>>
       THEN UNCHANGED <<tty, keybuf>>
       ELSE /\ tty' = Tail(tty)
            /\ shift_status' = (shift_status # (Head(tty) = KE_SHIFTKEYS))
            /\ pushEvent(Head(tty))
  /\ UNCHANGED <<typed, ahead, got, KB_Buff, pc, index, key>>

-----------------------------------------------------------------------------
(* The program asks for an event; the dialog of setup.c posts one first.   *)
GetEvent == /\ pc = "program"
            /\ pc' = IF KB_Buff = <<>> THEN "poll" ELSE "deliver"
            /\ UNCHANGED <<keybuf, terminal, got, KB_Buff, index, key>>

PostEvent == /\ pc = "program"
             /\ KB_Buff' = Append(KB_Buff, CInt(KE_ENTER))
             /\ pc' = "deliver"
             /\ UNCHANGED <<keybuf, terminal, got, index, key>>

PollKey_OneLeft ==
  /\ pc = "poll" /\ current > 1
  /\ pc' = "load"
  /\ UNCHANGED <<keybuf, terminal, got, KB_Buff, index, key>>

(* __kbdGetKey waits for a key, takes it, and adds the modifiers.          *)
PollKey == /\ pc = "poll" /\ current # 0
           /\ pc' = "load"
           /\ UNCHANGED <<keybuf, terminal, got, KB_Buff, index, key>>

LoadIndex == /\ pc = "load"
             /\ index' = current - 1
             /\ pc' = "store"
             /\ UNCHANGED <<keybuf, terminal, got, KB_Buff, key>>

StoreIndex == /\ pc = "store"
              /\ current' = index
              /\ pc' = "fetch"
              /\ UNCHANGED <<pool, shift_status, terminal, got, KB_Buff, index, key>>

(* A change of the modifiers is not an event: __GetEvent waits for more.   *)
FetchKey ==
  /\ pc = "fetch"
  /\ key' = pool[index]
  /\ IF key' = CInt(KE_SHIFTKEYS)
       THEN got' = Append(got, [key |-> key', alt |-> FALSE]) /\ pc' = "poll"
       ELSE UNCHANGED got /\ pc' = "shift"
  /\ UNCHANGED <<keybuf, terminal, KB_Buff, index>>

AddShift == /\ pc = "shift"
            /\ got' = Append(got, [key |-> key, alt |-> shift_status])
            /\ pc' = "clear"
            /\ UNCHANGED <<keybuf, terminal, KB_Buff, index, key>>

ClearShift_Kept == /\ pc = "clear"
                   /\ KB_Buff' = Append(KB_Buff, key)
                   /\ pc' = "deliver"
                   /\ UNCHANGED <<keybuf, terminal, got, index, key>>

ClearShift == /\ pc = "clear"
              /\ shift_status' = FALSE
              /\ KB_Buff' = Append(KB_Buff, key)
              /\ pc' = "deliver"
              /\ UNCHANGED <<pool, current, terminal, got, index, key>>

Deliver == /\ pc = "deliver"
           /\ LET left  == Len(KB_Buff) - 1
                  cells == MovedDown([i \in 0 .. left |-> KB_Buff[i + 1]],
                                     IF left > 0 THEN left - 1 ELSE 0)
              IN  KB_Buff' = [i \in 1 .. left |-> cells[i - 1]]
           /\ pc' = "program"
           /\ UNCHANGED <<keybuf, terminal, got, index, key>>

Program == \/ GetEvent \/ PollKey \/ LoadIndex \/ StoreIndex \/ FetchKey
           \/ AddShift \/ ClearShift \/ Deliver

Next == Type \/ ReadNextEvent \/ PostEvent \/ Program

Spec == Init /\ [][Next]_vars

(* The signal is delivered.  The program posts now and then, but asks for   *)
(* event after event.                                                      *)
FairSpec == /\ Spec
            /\ WF_vars(ReadNextEvent)
            /\ WF_vars(Program)
            /\ SF_vars(GetEvent)

-----------------------------------------------------------------------------
(* The index stays inside the pool, although the handler changes current   *)
(* between any two steps of __kbdGetKey; and at most one event waits in    *)
(* events.c (keyboard.c:283, 524-531, events.c:159-162).                   *)
TypeOK == /\ pool \in [0 .. KBUFSIZE - 1 -> Word]
          /\ current \in 0 .. KBUFSIZE
          /\ shift_status \in BOOLEAN
          /\ Len(tty) <= Len(typed)
          /\ pc \in {"program", "poll", "load", "store", "fetch", "shift", "clear",
                     "deliver"}
          /\ index \in 0 .. KBUFSIZE - 1
          /\ key \in Word
          /\ Len(KB_Buff) = IF pc = "deliver" THEN 1 ELSE 0

(* The nth key got is the nth typed, with the modifiers it was typed with. *)
Faithful(n) == /\ n <= Len(typed)
               /\ got[n].key = CInt(typed[n].key)
               /\ typed[n].key # KE_SHIFTKEYS => got[n].alt = typed[n].alt

(* As long as nobody types ahead, keys come out as they were typed, each   *)
(* with the modifiers before it, and with no others: not even those of the *)
(* key before, which the handler and __kbdGetKey both write                *)
(* (keyboard.c:283-287, 531-541).                                          *)
KeysInOrder == ahead \/ \A n \in 1 .. Len(got) : Faithful(n)

(* Every key typed is got, if nobody typed ahead (keyboard.c:525-531).     *)
KeysArrive == \A n \in 1 .. MaxKeys : Len(typed) >= n ~> Len(got) >= n \/ ahead
=============================================================================
