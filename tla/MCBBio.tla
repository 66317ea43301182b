------------------------------- MODULE MCBBio -------------------------------
(* Instances of BBio for TLC.                                              *)
EXTENDS BBio

CONSTANT a   \* a byte besides Zero

FileOf(bytes) ==
  [len |-> Len(bytes),
   data |-> [i \in Offset |-> IF i < Len(bytes) THEN bytes[i + 1] ELSE Zero]]

(* An empty file, one that fits the window, one that does not.             *)
SmallFiles == {FileOf(<<>>), FileOf(<<a>>), FileOf(<<a, Zero, a>>)}
SmallData == {<<a>>, <<Zero, a, a>>}
LongData == {<<Zero, a, a>>}

-----------------------------------------------------------------------------
(* What bbio.h says of a call, and the code does not do.                *)

(* bbio.h:145-152, 211-213: bioSeek flushes the window it leaves, and      *)
(* answers True if the operation was performed (bbio.c:142).               *)
SeekKeepsData == [][bioSeek /\ call'.ok => Contents' = Contents]_vars
=============================================================================
