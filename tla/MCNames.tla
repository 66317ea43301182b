------------------------------- MODULE MCNames -------------------------------
(* A user who names offsets and keeps two files of names, of which one has *)
(* a bad line; and every list of a few names that a format may have, with  *)
(* which the user dumps the file.                                          *)
EXTENDS Names, TLC

CONSTANTS X, Y, F1, F2

Pub(o) == [at |-> o]
Name(o, n) == [at |-> o, name |-> n]

Missing == <<Bad>>
NoFiles == (F1 :> Missing) @@ (F2 :> Missing)

UserWorlds ==
  {[pubs |-> <<>>, user |-> {1, 2}, dump |-> FALSE, fname |-> F1,
    files |-> (F1 :> <<Name(2, X), Name(1, Y)>>) @@ (F2 :> <<Name(1, X), Bad>>)]}

Short(S, n) == UNION {[1 .. k -> S] : k \in 0 .. n}

Format(pubs, dumped) ==
  {[pubs |-> p, files |-> NoFiles, fname |-> NoFile, user |-> {}, dump |-> dumped] :
     p \in pubs}

DumpWorlds == Format(Short({Pub(o) : o \in 0 .. 3}, 3)
                     \cup {<<Pub(2), Pub(2), Pub(1), Pub(2), Pub(2), Pub(3)>>,
                            [i \in 1 .. 8 |-> Pub(1)],
                            <<Pub(2), Pub(0), Pub(0), Pub(0), Pub(1)>>}, TRUE)

ReadWorlds == Format(Short({Pub(o) : o \in 0 .. 3}, 4)
                     \cup [1 .. 6 -> {Pub(o) : o \in 1 .. 3}], FALSE)

MCWorlds == UserWorlds \cup DumpWorlds \cup ReadWorlds
=============================================================================
