------------------------------ MODULE Settings ------------------------------
(***************************************************************************)
(* What the ini files of libbeye/file_ini.c promise their callers: a value *)
(* for each key, of which a copy is kept that survives the program.        *)
(***************************************************************************)
CONSTANTS Keys, Values, Unset

VARIABLES settings,  \* what the program has set
          saved,     \* what the next program will find
          exposed    \* for each key, the others that setting it may take away

Init == /\ settings \in [Keys -> Values \cup {Unset}]
        /\ saved = settings

Set(key, value) == /\ settings' = [settings EXCEPT ![key] = value]
                   /\ UNCHANGED saved

(* A value is set and saved in one step, and others may be lost by it.     *)
Given(f, key, value, lost) ==
  [k \in Keys |-> IF k = key THEN value ELSE IF k \in lost THEN Unset ELSE f[k]]

SetForGood(key, value) ==
  \E lost \in SUBSET exposed[key] :
    /\ settings' = Given(settings, key, value, lost)
    /\ saved' = Given(saved, key, value, lost)

Save == saved' = settings /\ UNCHANGED settings

(* The program ends without saving, or dies.                               *)
Forget == settings' = saved /\ UNCHANGED saved

(* The program dies while it replaces the file.                            *)
Lose == /\ settings' = [key \in Keys |-> Unset]
        /\ saved' = settings'

Next == \/ \E key \in Keys, value \in Values : Set(key, value) \/ SetForGood(key, value)
        \/ Save \/ Forget \/ Lose

Spec == Init /\ [][Next]_<<settings, saved>>
=============================================================================
