------------------------------ MODULE MCEditor ------------------------------
EXTENDS Editor
LOCAL INSTANCE Bitwise

MCOr(a, b)  == a | b
MCAnd(a, b) == a & b
MCXor(a, b) == a ^^ b

MCFiles   == {<<2, 0, 3, 1>>, <<3>>}
MCPlaces  == {0, 1}
MCModes   == {{"hex", "chars"}, {"video", "reverse"}, {"asm"}}
MCCodeLen == [b \in Byte |-> IF b = 3 THEN 3 ELSE IF b = 2 THEN 2 ELSE 1]
=============================================================================
