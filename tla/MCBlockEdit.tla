---------------------------- MODULE MCBlockEdit -----------------------------
(* Instances of BlockEdit for TLC.                                         *)
EXTENDS BlockEdit

CONSTANTS a, b, c, d      \* bytes, all different

Letters == <<a, b, c, d>>

(* Files of different bytes, so that a byte out of place shows.            *)
Distinct(lens) ==
  {[len |-> n, data |-> [i \in Offset |-> IF i < n THEN Letters[i + 1] ELSE Zero]] :
     n \in lens}

Short == Distinct({3})
=============================================================================
