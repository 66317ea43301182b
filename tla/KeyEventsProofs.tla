-------------------------- MODULE KeyEventsProofs --------------------------
(***************************************************************************)
(* What is proved of the keyboard for every size of the key pool and of an *)
(* int, and any number of keystrokes: the index stays inside the pool, and *)
(* keys that are not typed ahead come out as they were typed.              *)
(***************************************************************************)
EXTENDS KeyEvents, TLAPS

Keystroke == [key : {KE_SHIFTKEYS} \cup 1 .. MaxKeys, alt : BOOLEAN]

(* What the types rest on: __kbdGetKey has found a key in the pool until   *)
(* it has stored its index, whatever the handler pushed meanwhile.         *)
Typed == /\ typed \in Seq(Keystroke) /\ Len(typed) <= MaxKeys
         /\ tty \in Seq({KE_SHIFTKEYS} \cup 1 .. MaxKeys)
         /\ got \in Seq([key : Word, alt : BOOLEAN])
         /\ KB_Buff \in Seq(Word)
         /\ ahead \in BOOLEAN
         /\ pc = "load" => current > 0

(* The keystroke that is on its way: the last one typed.                   *)
Key == typed[Len(typed)].key
Alt == typed[Len(typed)].alt

Asking == {"program", "poll", "deliver"}

(* Nothing is on its way, and the modifiers are those of the last key if   *)
(* that was Alt, and else none, or about to be none.                       *)
Quiet == /\ Len(got) = Len(typed)
         /\ tty = <<>> /\ current = 0
         /\ \/ pc \in Asking /\ shift_status = AltTyped
            \/ pc = "clear" /\ ~AltTyped

(* One keystroke is on its way: still with the terminal, or in the pool,   *)
(* or in the hands of __kbdGetKey, which took it from the only place used. *)
InTerminal == /\ pc \in Asking /\ tty = <<Key>> /\ current = 0
              /\ shift_status = (Alt # (Key = KE_SHIFTKEYS))
InPool == /\ pc \in Asking \cup {"load", "store"}
          /\ pc = "store" => index = 0
          /\ current = 1 /\ pool[0] = CInt(Key)
          /\ tty = <<>> /\ shift_status = Alt
Taken == /\ pc \in {"fetch", "shift"}
         /\ pc = "fetch" => index = 0 /\ pool[0] = CInt(Key)
         /\ pc = "shift" => Key # KE_SHIFTKEYS /\ key = CInt(Key)
         /\ current = 0 /\ tty = <<>> /\ shift_status = Alt
OneComing == /\ Len(typed) = Len(got) + 1
             /\ InTerminal \/ InPool \/ Taken

(* The inductive invariant of the order of the keys.                       *)
Orderly == ahead \/ ((Quiet \/ OneComing) /\ KeysInOrder)
IInv == TypeOK /\ Typed /\ Orderly

-----------------------------------------------------------------------------
(* What the constants are.                                                 *)
LEMMA Sizes == /\ KBUFSIZE \in Nat /\ KBUFSIZE > 0
               /\ IntBytes \in Nat /\ IntBytes > 0
               /\ MaxKeys \in Nat
               /\ KE_SHIFTKEYS \in Value /\ KE_ENTER \in Value /\ 0 \in Value
               /\ 1 .. MaxKeys \subseteq Value
BY EventAssumption DEF Value, KE_SHIFTKEYS, KE_ENTER

(* An int as bytes says which int it was.                                  *)
LEMMA CIntIsWord ==
  ASSUME NEW v \in Value
  PROVE  CInt(v) \in Word
BY DEF CInt, Word

(* The bytes of an int tell its value.                                     *)
LEMMA CIntTells ==
  ASSUME NEW u, NEW v, CInt(u) = CInt(v)
  PROVE  u = v
<1>1. 0 \in 0 .. IntBytes - 1
  BY Sizes
<1>2. CInt(u)[0] = u /\ CInt(v)[0] = v
  BY <1>1 DEF CInt
<1> QED
  BY <1>2

(* A memmove of fewer bytes than there are ints stays inside the pool.     *)
LEMMA MoveStays ==
  ASSUME NEW cells \in [0 .. KBUFSIZE - 1 -> Word], NEW n \in 0 .. KBUFSIZE - 1
  PROVE  MovedDown(cells, n) \in [0 .. KBUFSIZE - 1 -> Word]
<1>1. SUFFICES ASSUME NEW i \in 0 .. KBUFSIZE - 1, NEW j \in 0 .. IntBytes - 1
               PROVE  (IF (i * IntBytes) + j < n THEN cells[i + 1][j] ELSE cells[i][j])
                        \in Value
  BY DEF MovedDown, Word
<1>2. CASE (i * IntBytes) + j < n
  <2>1. i * IntBytes >= i
    BY Sizes
  <2>2. i + 1 \in 0 .. KBUFSIZE - 1
    <3> DEFINE product == i * IntBytes
    <3>1. product \in Int
      BY Sizes
    <3>2. product >= i /\ product + j < n
      BY <1>2, <2>1
    <3> HIDE DEF product
    <3> QED BY <3>1, <3>2, Sizes
  <2> QED BY <1>2, <2>2 DEF Word
<1>3. CASE ~((i * IntBytes) + j < n)
  BY <1>3 DEF Word
<1> QED
  BY <1>2, <1>3

(* A push keeps the types, and never takes a key away.                     *)
LEMMA PushKeeps ==
  ASSUME TypeOK, NEW e \in Value, pushEvent(e)
  PROVE  /\ pool' \in [0 .. KBUFSIZE - 1 -> Word]
         /\ current' \in 0 .. KBUFSIZE /\ current' >= current
<1>1. current \in 0 .. KBUFSIZE /\ pool \in [0 .. KBUFSIZE - 1 -> Word]
  BY DEF TypeOK
<1>2. CASE Full
  BY <1>1, <1>2, Sizes DEF pushEvent
<1>3. CASE ~Full
  <2>1. current \in 0 .. KBUFSIZE - 1
    BY <1>1, <1>3, Sizes DEF Full
  <2>2. MovedDown(pool, current) \in [0 .. KBUFSIZE - 1 -> Word]
    BY <1>1, <2>1, MoveStays
  <2>3. /\ pool' = [MovedDown(pool, current) EXCEPT ![0] = CInt(e)]
        /\ current' = current + 1
    BY <1>3 DEF pushEvent
  <2>4. CInt(e) \in Word
    BY CIntIsWord
  <2> QED BY <2>1, <2>2, <2>3, <2>4, Sizes
<1> QED
  BY <1>2, <1>3

(* A push into the empty pool puts the key at the place read first.        *)
LEMMA FirstPush ==
  ASSUME TypeOK, NEW e \in Value, current = 0, pushEvent(e)
  PROVE  current' = 1 /\ pool'[0] = CInt(e)
<1>1. ~Full
  BY Sizes DEF Full
<1>2. 0 \in DOMAIN MovedDown(pool, current)
  BY Sizes DEF TypeOK, MovedDown
<1> QED
  BY <1>1, <1>2 DEF pushEvent

-----------------------------------------------------------------------------
(* The pool starts empty.                                                  *)
LEMMA TypesStart == Init => TypeOK /\ Typed
<1> SUFFICES ASSUME Init PROVE TypeOK /\ Typed
  OBVIOUS
<1>1. CInt(0) \in Word
  BY Sizes, CIntIsWord
<1>2. pool \in [0 .. KBUFSIZE - 1 -> Word] /\ key \in Word
  BY <1>1 DEF Init
<1>3. /\ current \in 0 .. KBUFSIZE /\ shift_status \in BOOLEAN
      /\ index \in 0 .. KBUFSIZE - 1 /\ pc = "program" /\ ahead \in BOOLEAN
  BY Sizes DEF Init
<1>4. typed = <<>> /\ tty = <<>> /\ got = <<>> /\ KB_Buff = <<>>
  BY DEF Init
<1>5. TypeOK
  BY <1>2, <1>3, <1>4 DEF TypeOK
<1>6. Typed
  BY <1>3, <1>4, Sizes DEF Typed
<1> QED
  BY <1>5, <1>6

(* The variables that an action leaves alone keep their types.             *)
Pool  == /\ pool \in [0 .. KBUFSIZE - 1 -> Word]
         /\ current \in 0 .. KBUFSIZE
         /\ shift_status \in BOOLEAN
Lines == /\ typed \in Seq(Keystroke) /\ Len(typed) <= MaxKeys
         /\ tty \in Seq({KE_SHIFTKEYS} \cup 1 .. MaxKeys)
         /\ Len(tty) <= Len(typed)
         /\ ahead \in BOOLEAN
Queue == /\ KB_Buff \in Seq(Word)
         /\ Len(KB_Buff) = IF pc = "deliver" THEN 1 ELSE 0
Taking == /\ pc \in {"program", "poll", "load", "store", "fetch", "shift", "clear",
                     "deliver"}
          /\ index \in 0 .. KBUFSIZE - 1 /\ key \in Word
          /\ got \in Seq([key : Word, alt : BOOLEAN])
          /\ pc = "load" => current > 0

(* The type invariant, and what it needs, part by part.                    *)
LEMMA TypeParts == TypeOK /\ Typed <=> Pool /\ Lines /\ Queue /\ Taking
BY DEF TypeOK, Typed, Pool, Lines, Queue, Taking

(* Every step of the program and of the handler keeps it.                  *)
LEMMA TypesStep ==
  ASSUME TypeOK, Typed, Next
  PROVE  TypeOK' /\ Typed'
<1>1. Pool /\ Lines /\ Queue /\ Taking
  BY TypeParts
<1> SUFFICES Pool' /\ Lines' /\ Queue' /\ Taking'
  BY DEF TypeOK, Typed, Pool, Lines, Queue, Taking
<1>2. CASE Type
  <2> PICK e \in {KE_SHIFTKEYS, Len(typed) + 1} :
        /\ Len(typed) < MaxKeys
        /\ typed' = Append(typed, [key |-> e, alt |-> AltTyped # (e = KE_SHIFTKEYS)])
        /\ tty' = Append(tty, e)
        /\ ahead' = (ahead \/ Pending)
    BY <1>2 DEF Type
  <2>1. e \in {KE_SHIFTKEYS} \cup 1 .. MaxKeys
    BY <1>1, Sizes DEF Lines
  <2>2. [key |-> e, alt |-> AltTyped # (e = KE_SHIFTKEYS)] \in Keystroke
    BY <2>1 DEF Keystroke
  <2>3. Lines'
    <3>1. typed' \in Seq(Keystroke) /\ Len(typed') = Len(typed) + 1
      BY <1>1, <2>2 DEF Lines
    <3>2. tty' \in Seq({KE_SHIFTKEYS} \cup 1 .. MaxKeys) /\ Len(tty') = Len(tty) + 1
      BY <1>1, <2>1 DEF Lines
    <3>3. ahead' \in BOOLEAN
      OBVIOUS
    <3>4. Len(typed) \in Nat /\ Len(tty) \in Nat /\ Len(tty) <= Len(typed)
      BY <1>1 DEF Lines
    <3> QED BY <3>1, <3>2, <3>3, <3>4, Sizes DEF Lines
  <2> QED BY <1>1, <1>2, <2>3 DEF Type, keybuf, Pool, Queue, Taking
<1>3. CASE ReadNextEvent
  <2>1. CASE tty = <<>>
    BY <1>1, <1>3, <2>1 DEF ReadNextEvent, keybuf, Pool, Lines, Queue, Taking
  <2>2. CASE tty # <<>>
    <3>1. /\ tty' = Tail(tty)
          /\ shift_status' = (shift_status # (Head(tty) = KE_SHIFTKEYS))
          /\ pushEvent(Head(tty))
          /\ UNCHANGED <<typed, ahead, got, KB_Buff, pc, index, key>>
      BY <1>3, <2>2 DEF ReadNextEvent
    <3>2. Head(tty) \in {KE_SHIFTKEYS} \cup 1 .. MaxKeys
      BY <1>1, <2>2 DEF Lines
    <3>3. Head(tty) \in Value
      BY <3>2, Sizes
    <3>4. /\ pool' \in [0 .. KBUFSIZE - 1 -> Word]
          /\ current' \in 0 .. KBUFSIZE /\ current' >= current
      BY <3>1, <3>3, PushKeeps
    <3>5. Lines'
      <4>1. /\ tty' \in Seq({KE_SHIFTKEYS} \cup 1 .. MaxKeys)
            /\ Len(tty') = Len(tty) - 1
        BY <1>1, <2>2, <3>1 DEF Lines
      <4>2. Len(typed) \in Nat /\ Len(tty) \in Nat /\ Len(tty) <= Len(typed)
        BY <1>1 DEF Lines
      <4> QED BY <1>1, <3>1, <4>1, <4>2 DEF Lines
    <3>6. shift_status' \in BOOLEAN
      BY <3>1
    <3>7. Taking'
      BY <1>1, <3>1, <3>4, Sizes DEF Taking, Pool
    <3> QED BY <1>1, <3>1, <3>4, <3>5, <3>6, <3>7 DEF Pool, Queue
  <2> QED BY <2>1, <2>2
<1>4. CASE PostEvent
  <2>1. CInt(KE_ENTER) \in Word
    BY Sizes, CIntIsWord
  <2>2. KB_Buff' \in Seq(Word) /\ Len(KB_Buff') = 1 /\ pc' = "deliver"
    BY <1>1, <1>4, <2>1 DEF PostEvent, Queue
  <2> QED BY <1>1, <1>4, <2>2 DEF PostEvent, keybuf, terminal, Pool, Lines, Queue, Taking
<1>5. CASE GetEvent
  <2>1. /\ pc = "program" /\ pc' = "poll" /\ KB_Buff' = KB_Buff
    BY <1>1, <1>5 DEF GetEvent, Queue
  <2> QED BY <1>1, <1>5, <2>1 DEF GetEvent, keybuf, terminal, Pool, Lines, Queue, Taking
<1>6. CASE PollKey
  BY <1>1, <1>6, Sizes DEF PollKey, keybuf, terminal, Pool, Lines, Queue, Taking
<1>7. CASE LoadIndex
  <2>1. index' \in 0 .. KBUFSIZE - 1
    BY <1>1, <1>7, Sizes DEF LoadIndex, Pool, Taking
  <2> QED BY <1>1, <1>7, <2>1 DEF LoadIndex, keybuf, terminal, Pool, Lines, Queue, Taking
<1>8. CASE StoreIndex
  <2>1. current' \in 0 .. KBUFSIZE
    BY <1>1, <1>8, Sizes DEF StoreIndex, Taking
  <2> QED BY <1>1, <1>8, <2>1 DEF StoreIndex, terminal, Pool, Lines, Queue, Taking
<1>9. CASE FetchKey
  <2>1. key' \in Word
    BY <1>1, <1>9 DEF FetchKey, Pool, Taking
  <2>2. got' \in Seq([key : Word, alt : BOOLEAN]) /\ pc' \in {"poll", "shift"}
    <3>1. CASE key' = CInt(KE_SHIFTKEYS)
      <4>1. [key |-> key', alt |-> FALSE] \in [key : Word, alt : BOOLEAN]
        BY <2>1
      <4>2. got' = Append(got, [key |-> key', alt |-> FALSE]) /\ pc' = "poll"
        BY <1>9, <3>1 DEF FetchKey
      <4> QED BY <1>1, <4>1, <4>2 DEF Taking
    <3>2. CASE key' # CInt(KE_SHIFTKEYS)
      BY <1>1, <1>9, <3>2 DEF FetchKey, Taking
    <3> QED BY <3>1, <3>2
  <2>3. /\ pc = "fetch" /\ index' = index
        /\ UNCHANGED <<keybuf, terminal, KB_Buff>>
    BY <1>9 DEF FetchKey
  <2> QED BY <1>1, <2>1, <2>2, <2>3 DEF keybuf, terminal, Pool, Lines, Queue, Taking
<1>10. CASE AddShift
  <2>1. [key |-> key, alt |-> shift_status] \in [key : Word, alt : BOOLEAN]
    BY <1>1 DEF Taking, Pool
  <2>2. got' \in Seq([key : Word, alt : BOOLEAN]) /\ pc = "shift" /\ pc' = "clear"
    BY <1>1, <1>10, <2>1 DEF AddShift, Taking
  <2> QED BY <1>1, <1>10, <2>2 DEF AddShift, keybuf, terminal, Pool, Lines, Queue, Taking
<1>11. CASE ClearShift
  <2>1. KB_Buff' \in Seq(Word) /\ Len(KB_Buff') = 1 /\ pc' = "deliver"
    BY <1>1, <1>11 DEF ClearShift, Queue, Taking
  <2> QED BY <1>1, <1>11, <2>1 DEF ClearShift, terminal, Pool, Lines, Queue, Taking
<1>12. CASE Deliver
  <2>1. KB_Buff' = <<>> /\ pc' = "program"
    <3>1. Len(KB_Buff) = 1
      BY <1>1, <1>12 DEF Deliver, Queue
    <3>2. Len(KB_Buff) - 1 = 0
      BY <3>1
    <3> QED BY <1>12, <3>2 DEF Deliver
  <2> QED BY <1>1, <1>12, <2>1 DEF Deliver, keybuf, terminal, Pool, Lines, Queue, Taking
<1> QED
  BY <1>2, <1>3, <1>4, <1>5, <1>6, <1>7, <1>8, <1>9, <1>10, <1>11, <1>12
     DEF Next, Program

-----------------------------------------------------------------------------
(* What the types say where the order of the keys is argued about.         *)
LEMMA Counts ==
  ASSUME TypeOK, Typed
  PROVE  /\ Len(typed) \in Nat /\ Len(got) \in Nat /\ Len(typed) <= MaxKeys
         /\ \A n \in 1 .. Len(typed) : typed[n] \in Keystroke
         /\ typed # <<>> => Len(typed) \in 1 .. Len(typed)
BY DEF TypeOK, Typed

(* A step that takes nothing from the tty and gives nothing to the caller  *)
(* leaves the keys got as faithful as they were.                           *)
LEMMA OrderKept ==
  ASSUME ~ahead, KeysInOrder, typed' = typed, got' = got
  PROVE  KeysInOrder'
BY DEF KeysInOrder, Faithful

(* The key on its way is got as it was typed.                              *)
LEMMA OrderGrows ==
  ASSUME TypeOK, Typed, ~ahead, KeysInOrder, OneComing, typed' = typed,
         NEW alt \in BOOLEAN, got' = Append(got, [key |-> CInt(Key), alt |-> alt]),
         Key # KE_SHIFTKEYS => alt = Alt
  PROVE  KeysInOrder' /\ Len(got') = Len(typed)
<1>1. Len(typed) = Len(got) + 1 /\ Len(got) \in Nat /\ got \in Seq([key : Word, alt : BOOLEAN])
  BY Counts DEF OneComing, Typed
<1>2. ASSUME NEW n \in 1 .. Len(got')
      PROVE  Faithful(n)'
  <2>1. n <= Len(typed) /\ n \in Nat /\ n > 0
    BY <1>1
  <2>2. CASE n \in 1 .. Len(got)
    <3>1. got'[n] = got[n]
      BY <1>1, <2>2
    <3> QED BY <2>2, <3>1 DEF KeysInOrder, Faithful
  <2>3. CASE n = Len(typed)
    <3>1. got'[n] = [key |-> CInt(Key), alt |-> alt]
      BY <1>1, <2>3
    <3> QED BY <2>1, <2>3, <3>1 DEF Faithful, Key, Alt
  <2> QED BY <1>1, <2>1, <2>2, <2>3
<1>3. Len(got') = Len(typed)
  BY <1>1
<1> QED
  BY <1>2, <1>3 DEF KeysInOrder

(* No key has been typed yet.                                              *)
LEMMA OrderStart == Init => Orderly
<1> SUFFICES ASSUME Init PROVE Quiet /\ KeysInOrder
  BY DEF Orderly
<1>1. Len(got) = 0 /\ typed = <<>> /\ Len(typed) = 0
  BY DEF Init
<1>2. KeysInOrder
  BY <1>1 DEF KeysInOrder
<1>3. AltTyped = FALSE
  BY <1>1 DEF AltTyped
<1>4. Quiet
  BY <1>1, <1>3 DEF Init, Quiet, Asking
<1> QED
  BY <1>2, <1>4

(* Every step keeps the keys in their order.                               *)
LEMMA OrderStep ==
  ASSUME TypeOK, Typed, Orderly, Next
  PROVE  Orderly'
<1>1. CASE ahead
  <2>1. ahead'
    BY <1>1 DEF Next, Type, ReadNextEvent, PostEvent, Program, GetEvent, PollKey,
                LoadIndex, StoreIndex, FetchKey, AddShift, ClearShift, Deliver, terminal
  <2> QED BY <2>1 DEF Orderly
<1>2. CASE ~ahead
  <2>1. (Quiet \/ OneComing) /\ KeysInOrder
    BY <1>2 DEF Orderly
  <2>2. CASE Type
    <3> PICK e \in {KE_SHIFTKEYS, Len(typed) + 1} :
          /\ typed' = Append(typed, [key |-> e, alt |-> AltTyped # (e = KE_SHIFTKEYS)])
          /\ tty' = Append(tty, e)
          /\ ahead' = (ahead \/ Pending)
      BY <2>2 DEF Type
    <3>1. CASE Pending
      BY <3>1 DEF Orderly
    <3>2. CASE ~Pending
      <4>1. Quiet /\ pc # "clear"
        BY <2>1, <3>2, Counts DEF Pending, OneComing
      <4>2. /\ pc \in Asking /\ shift_status = AltTyped /\ current = 0
            /\ tty = <<>> /\ Len(got) = Len(typed)
        BY <4>1 DEF Quiet
      <4>3. /\ Len(typed') = Len(typed) + 1
            /\ typed'[Len(typed')] = [key |-> e, alt |-> AltTyped # (e = KE_SHIFTKEYS)]
            /\ \A n \in 1 .. Len(typed) : typed'[n] = typed[n]
        BY DEF Typed
      <4>4. Key' = e /\ Alt' = (AltTyped # (e = KE_SHIFTKEYS)) /\ AltTyped \in BOOLEAN
        <5>1. AltTyped \in BOOLEAN
          BY DEF AltTyped
        <5> DEFINE alt == AltTyped # (e = KE_SHIFTKEYS)
        <5>2. typed'[Len(typed')] = [key |-> e, alt |-> alt]
          BY <4>3
        <5> HIDE DEF alt
        <5>3. Key' = e /\ Alt' = alt
          BY <5>2 DEF Key, Alt
        <5> QED BY <5>1, <5>3 DEF alt
      <4>5. shift_status' = (Alt' # (Key' = KE_SHIFTKEYS))
        BY <2>2, <4>2, <4>4 DEF Type, keybuf, TypeOK
      <4>6. InTerminal'
        BY <2>2, <4>2, <4>4, <4>5 DEF Type, keybuf, InTerminal
      <4>7. OneComing'
        BY <2>2, <4>2, <4>3, <4>6 DEF Type, OneComing
      <4>8. KeysInOrder'
        <5>1. got' = got
          BY <2>2 DEF Type
        <5> SUFFICES ASSUME NEW n \in 1 .. Len(got) PROVE Faithful(n)'
          BY <5>1 DEF KeysInOrder
        <5>2. n \in 1 .. Len(typed) /\ Faithful(n)
          BY <1>2, <2>1, <4>2 DEF KeysInOrder
        <5> QED BY <4>3, <5>1, <5>2, Counts DEF Faithful
      <4> QED BY <4>7, <4>8 DEF Orderly
    <3> QED BY <3>1, <3>2
  <2>3. CASE ReadNextEvent
    <3>1. UNCHANGED <<typed, ahead, got, pc, index, key>>
      BY <2>3 DEF ReadNextEvent
    <3>2. KeysInOrder' /\ Key' = Key /\ Alt' = Alt /\ AltTyped' = AltTyped
      BY <1>2, <2>1, <3>1, OrderKept DEF Key, Alt, AltTyped
    <3>3. CASE tty = <<>>
      <4>1. UNCHANGED <<tty, pool, current, shift_status>>
        BY <2>3, <3>3 DEF ReadNextEvent, keybuf
      <4>2. (Quiet \/ OneComing)'
        BY <2>1, <3>1, <3>2, <4>1
           DEF Quiet, OneComing, InTerminal, InPool, Taken, AltTyped
      <4> QED BY <3>2, <4>2 DEF Orderly
    <3>4. CASE tty # <<>>
      <4>1. InTerminal /\ Len(typed) = Len(got) + 1
        BY <2>1, <3>4 DEF Quiet, OneComing, InPool, Taken
      <4>2. /\ tty' = Tail(tty)
            /\ shift_status' = (shift_status # (Head(tty) = KE_SHIFTKEYS))
            /\ pushEvent(Head(tty))
        BY <2>3, <3>4 DEF ReadNextEvent
      <4>3. Head(tty) = Key /\ tty' = <<>> /\ current = 0
        BY <4>1, <4>2 DEF InTerminal
      <4>4. Key \in Value /\ Alt \in BOOLEAN
        <5>1. typed # <<>>
          BY <4>1, Counts
        <5>2. typed[Len(typed)] \in Keystroke
          BY <5>1, Counts
        <5> QED BY <5>2, Sizes DEF Key, Alt, Keystroke
      <4>5. current' = 1 /\ pool'[0] = CInt(Key)
        BY <4>2, <4>3, <4>4, FirstPush
      <4>6. shift_status' = Alt
        BY <4>1, <4>2, <4>3, <4>4 DEF InTerminal
      <4>7. InPool'
        BY <3>1, <3>2, <4>1, <4>3, <4>5, <4>6 DEF InTerminal, InPool, Asking
      <4> QED BY <3>1, <3>2, <4>1, <4>7 DEF OneComing, Orderly
    <3> QED BY <3>3, <3>4
  <2>4. CASE PostEvent \/ GetEvent \/ Deliver
    <3>1. /\ pc \in Asking /\ pc' \in Asking
          /\ UNCHANGED <<pool, current, shift_status, tty, typed, got>>
      BY <2>4 DEF PostEvent, GetEvent, Deliver, keybuf, terminal, Asking
    <3>2. KeysInOrder'
      BY <1>2, <2>1, <3>1, OrderKept
    <3>3. (Quiet \/ OneComing)'
      BY <2>1, <3>1
         DEF Quiet, OneComing, InTerminal, InPool, Taken, AltTyped, Key, Alt, Asking
    <3> QED BY <3>2, <3>3 DEF Orderly
  <2>5. CASE PollKey \/ LoadIndex
    <3>1. \/ pc = "poll" /\ current # 0 /\ pc' = "load"
          \/ pc = "load" /\ index' = current - 1 /\ pc' = "store"
      BY <2>5 DEF PollKey, LoadIndex
    <3>2. UNCHANGED <<pool, current, shift_status, tty, typed, got>>
      BY <2>5 DEF PollKey, LoadIndex, keybuf, terminal
    <3>3. InPool /\ Len(typed) = Len(got) + 1
      BY <2>1, <3>1 DEF Quiet, OneComing, InTerminal, Taken, Asking, Typed
    <3>4. InPool'
      BY <3>1, <3>2, <3>3 DEF InPool, Asking, Key, Alt
    <3>5. KeysInOrder'
      BY <1>2, <2>1, <3>2, OrderKept
    <3> QED BY <3>2, <3>3, <3>4, <3>5 DEF OneComing, Orderly
  <2>6. CASE StoreIndex
    <3>1. /\ pc = "store" /\ pc' = "fetch" /\ current' = index /\ index' = index
          /\ UNCHANGED <<pool, shift_status, tty, typed, got>>
      BY <2>6 DEF StoreIndex, terminal
    <3>2. InPool /\ Len(typed) = Len(got) + 1
      BY <2>1, <3>1 DEF Quiet, OneComing, InTerminal, Taken, Asking
    <3>3. Taken'
      BY <3>1, <3>2 DEF InPool, Taken, Key, Alt
    <3>4. KeysInOrder'
      BY <1>2, <2>1, <3>1, OrderKept
    <3> QED BY <3>1, <3>2, <3>3, <3>4 DEF OneComing, Orderly
  <2>7. CASE FetchKey
    <3>1. /\ pc = "fetch" /\ key' = pool[index]
          /\ UNCHANGED <<pool, current, shift_status, tty, typed, index>>
      BY <2>7 DEF FetchKey, keybuf, terminal
    <3>2. Taken /\ OneComing /\ Len(typed) = Len(got) + 1
      BY <2>1, <3>1 DEF Quiet, OneComing, InTerminal, InPool, Asking
    <3>3. /\ key' = CInt(Key) /\ current = 0 /\ tty = <<>> /\ shift_status = Alt
      BY <3>1, <3>2 DEF Taken
    <3>4. CASE key' = CInt(KE_SHIFTKEYS)
      <4>1. Key = KE_SHIFTKEYS
        BY <3>3, <3>4, CIntTells
      <4>2. got' = Append(got, [key |-> CInt(Key), alt |-> FALSE]) /\ pc' = "poll"
        BY <2>7, <3>3, <3>4 DEF FetchKey
      <4>3. KeysInOrder' /\ Len(got') = Len(typed)
        BY <1>2, <2>1, <3>1, <3>2, <4>1, <4>2, OrderGrows
      <4>4. AltTyped = Alt
        <5>1. typed # <<>>
          BY <3>2, Counts
        <5>2. Alt \in BOOLEAN
          BY <5>1, Counts DEF Alt, Keystroke
        <5> QED BY <4>1, <5>1, <5>2 DEF AltTyped, Alt, Key
      <4>5. Quiet'
        BY <3>1, <3>3, <4>2, <4>3, <4>4 DEF Quiet, Asking, AltTyped
      <4> QED BY <4>3, <4>5 DEF Orderly
    <3>5. CASE key' # CInt(KE_SHIFTKEYS)
      <4>1. got' = got /\ pc' = "shift"
        BY <2>7, <3>5 DEF FetchKey
      <4>2. Key # KE_SHIFTKEYS
        BY <3>3, <3>5
      <4>3. Taken'
        BY <3>1, <3>3, <4>1, <4>2 DEF Taken, Key, Alt
      <4>4. KeysInOrder'
        BY <1>2, <2>1, <3>1, <4>1, OrderKept
      <4> QED BY <3>1, <3>2, <4>1, <4>3, <4>4 DEF OneComing, Orderly
    <3> QED BY <3>4, <3>5
  <2>8. CASE AddShift
    <3>1. /\ pc = "shift" /\ pc' = "clear"
          /\ got' = Append(got, [key |-> key, alt |-> shift_status])
          /\ UNCHANGED <<pool, current, shift_status, tty, typed>>
      BY <2>8 DEF AddShift, keybuf, terminal
    <3>2. Taken /\ OneComing
      BY <2>1, <3>1 DEF Quiet, OneComing, InTerminal, InPool, Asking
    <3>3. /\ Key # KE_SHIFTKEYS /\ key = CInt(Key) /\ shift_status = Alt
          /\ current = 0 /\ tty = <<>> /\ shift_status \in BOOLEAN
      BY <3>1, <3>2 DEF Taken, TypeOK
    <3>4. KeysInOrder' /\ Len(got') = Len(typed)
      BY <1>2, <2>1, <3>1, <3>2, <3>3, OrderGrows
    <3>5. Quiet'
      BY <3>1, <3>3, <3>4 DEF Quiet, AltTyped, Key
    <3> QED BY <3>4, <3>5 DEF Orderly
  <2>9. CASE ClearShift
    <3>1. /\ pc = "clear" /\ pc' = "deliver" /\ shift_status' = FALSE
          /\ UNCHANGED <<pool, current, tty, typed, got>>
      BY <2>9 DEF ClearShift, terminal
    <3>2. Quiet /\ ~AltTyped
      BY <2>1, <3>1 DEF Quiet, OneComing, InTerminal, InPool, Taken, Asking
    <3>3. Quiet'
      BY <3>1, <3>2 DEF Quiet, Asking, AltTyped
    <3>4. KeysInOrder'
      BY <1>2, <2>1, <3>1, OrderKept
    <3> QED BY <3>3, <3>4 DEF Orderly
  <2> QED
    BY <2>2, <2>3, <2>4, <2>5, <2>6, <2>7, <2>8, <2>9 DEF Next, Program
<1> QED
  BY <1>1, <1>2

-----------------------------------------------------------------------------
(* Whatever was typed and whenever the handler ran, the invariant holds.   *)
LEMMA Invariance == Spec => []IInv
<1>1. Init => IInv
  BY TypesStart, OrderStart DEF IInv
<1>2. IInv /\ [Next]_vars => IInv'
  <2>1. ASSUME IInv, Next
        PROVE  IInv'
    BY <2>1, TypesStep, OrderStep DEF IInv
  <2>2. ASSUME IInv, UNCHANGED vars
        PROVE  IInv'
    BY <2>2 DEF vars, IInv, TypeOK, Typed, Orderly, Quiet, OneComing, InTerminal, InPool,
                Taken, AltTyped, Key, Alt, KeysInOrder, Faithful
  <2> QED BY <2>1, <2>2
<1> QED
  BY <1>1, <1>2, PTL DEF Spec

(* The index stays inside the pool, although the handler changes current   *)
(* between any two steps of __kbdGetKey; and at most one event waits in    *)
(* events.c (keyboard.c:283, 524-531, events.c:159-162).                   *)
THEOREM Typing == Spec => []TypeOK
<1>1. IInv => TypeOK
  BY DEF IInv
<1> QED
  BY Invariance, <1>1, PTL

(* As long as nobody types ahead, keys come out as they were typed, each   *)
(* with its own modifiers and no others (keyboard.c:283-287, 531-541).     *)
THEOREM OrderOfKeys == Spec => []KeysInOrder
<1>1. IInv => KeysInOrder
  BY DEF IInv, Orderly, KeysInOrder
<1> QED
  BY Invariance, <1>1, PTL
=============================================================================
