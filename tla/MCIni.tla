------------------------------- MODULE MCIni --------------------------------
EXTENDS Ini

CONSTANTS V1, V2, MCPercent, MCUnset

MCKeys  == {<<0, 0, 1>>, <<1, 0, 1>>, <<1, 1, 1>>, <<1, 1, 2>>, <<1, 2, 1>>, <<2, 1, 1>>}
MCPlain == {V1, V2}

(* A file as a user writes it: variables, conditions, a fenced text.       *)
ByHand == << <<"set", V1>>, <<"item", 1, MCPercent>>, <<"section", 1>>, <<"if", V2>>,
             <<"item", 1, V1>>, <<"if", V1>>, <<"endif">>, <<"else">>, <<"item", 1, V2>>,
             <<"endif">>, <<"subsection", 1>>, <<"nosmart">>, <<"item", 1, MCPercent>>,
             <<"smart">> >>

(* A file with an #elif, and one that takes a variable away.               *)
Elif == << <<"set", V2>>, <<"section", 1>>, <<"if", V1>>, <<"item", 1, V1>>, <<"elif", V2>>,
           <<"item", 1, MCPercent>>, <<"delete">>, <<"set", V1>>, <<"endif">>,
           <<"subsection", 1>>, <<"item", 1, MCPercent>>, <<"reset">> >>

(* Files without conditions, sections and subsections in several orders.   *)
Two   == << <<"section", 1>>, <<"subsection", 1>>, <<"item", 2, V1>>, <<"item", 1, V1>>,
            <<"section", 2>>, <<"subsection", 1>>, <<"item", 1, V2>> >>
Other == << <<"section", 2>>, <<"subsection", 1>>, <<"item", 2, V1>>, <<"section", 1>>,
            <<"subsection", 2>>, <<"item", 1, V2>>, <<"subsection", 1>>, <<"item", 2, V2>> >>

(* One value or the other, by a condition.                                 *)
Either == << <<"set", V1>>, <<"section", 1>>, <<"subsection", 1>>, <<"if", V2>>,
             <<"item", 1, V1>>, <<"else">>, <<"item", 1, V2>>, <<"endif">>,
             <<"item", 2, V1>>, <<"subsection", 2>>, <<"item", 1, V1>> >>

(* Two items of one condition, and one in a condition behind the first of  *)
(* its subsection.                                                         *)
Pair == << <<"set", V1>>, <<"section", 1>>, <<"subsection", 1>>, <<"if", V1>>,
           <<"item", 1, V1>>, <<"item", 2, V2>>, <<"endif">>, <<"subsection", 2>>,
           <<"item", 1, V1>> >>
Late == << <<"set", V1>>, <<"section", 1>>, <<"subsection", 1>>, <<"item", 1, V2>>,
           <<"if", V2>>, <<"else">>, <<"item", 2, V2>>, <<"endif">>, <<"section", 2>> >>

Cached3 == {<<0, 0, 1>>, <<1, 0, 1>>, <<1, 1, 1>>}
MCWorlds ==
  [memory : {"enough"}, keys : {Cached3}, texts : {{V1, MCPercent}}, file : {NoFile, ByHand, Elif}]
  \cup
  [memory : {"short"}, keys : {{<<1, 1, 1>>, <<1, 1, 2>>, <<1, 2, 1>>}}, texts : {{V1, V2}},
   file : {NoFile, Two, Other, Either, Pair, Late}]
=============================================================================
