------------------------------- MODULE MCTwin -------------------------------
(* A screen of four columns and three lines; a framed window that fills    *)
(* it or not, one that moves below, above and beyond the edge of it, and   *)
(* one that grows.                                                         *)
EXTENDS Twin, TLC

CONSTANTS WA, WB, WC

MCWindows == {WA, WB, WC}
MCFramed  == {WA}
MCShapes  == (WA :> {<<3, 2>>, <<3, 3>>, <<4, 3>>}) @@ (WB :> {<<1, 1>>}) @@ (WC :> {<<1, 2>>, <<2, 1>>})
MCPlaces  == (WA :> {<<0, 0>>}) @@ (WB :> {<<1, 1>>}) @@ (WC :> {<<3, 0>>})
MCSteps   == (WA :> {}) @@ (WB :> {}) @@ (WC :> {<<-2, 0>>})
MCFreezable == {WB}
MCStrings == {<<FALSE, TRUE, FALSE>>}
=============================================================================
