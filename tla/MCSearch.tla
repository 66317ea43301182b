------------------------------ MODULE MCSearch ------------------------------
EXTENDS Search

CONSTANTS a, A, b, blank

MCUpper == [c \in Chars |-> IF c = a THEN A ELSE c]

Words(S, n) == UNION {[1..k -> S] : k \in 1..n}

(* All short files, and longer ones with blanks.                           *)
MCFiles == Words({a, b}, 3)
           \cup {<<blank, a, b, blank, A>>, <<a, b, blank, a, b, a>>, <<b, a, a, b, a, b>>}

MCPatterns == {<<a>>, <<a, b>>, <<a, a>>, <<a, b, a>>, <<b, b, a>>, <<a, a, b>>}

MCFlags == {f \in [reverse : BOOLEAN, words : BOOLEAN, cased : BOOLEAN] : ~(f.words /\ f.cased)}
=============================================================================
