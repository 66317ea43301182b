---------------------------- MODULE MCDisasmView ----------------------------
(* Instances of DisasmView for TLC.                                        *)
EXTENDS DisasmView

Insn(n, to) == [len |-> n, to |-> to]

(* Instructions of one to three bytes, with jumps back, ahead, to a common *)
(* target, and into the middle of an instruction.                          *)
Mixed == [a \in Addr |->
            CASE a % 4 = 0 -> Insn(1, (a + 3) % FLen)
              [] a % 4 = 1 -> Insn(2, NoJump)
              [] a % 4 = 2 -> Insn(1, 3 % FLen)
              [] a % 4 = 3 -> Insn(1, (a + 5) % FLen)]
Dense == [a \in Addr |-> Insn(1, (3 * a) % FLen)]
Paired == [a \in Addr |-> Insn(1, a \div 2)]
Uneven == [a \in Addr |-> Insn(IF a % 3 = 0 THEN 3 ELSE 1,
                               IF a % 3 = 0 THEN 0 ELSE NoJump)]
(* The last instruction of the file takes two bytes and is a jump, as is   *)
(* one before it; its first byte is also met by decoding from elsewhere.   *)
Trailing == [a \in Addr |-> CASE a = FLen - 2 -> Insn(2, 0)
                              [] a = FLen - 5 -> Insn(2, FLen - 1)
                              [] OTHER -> Insn(1, NoJump)]
SomeCodes == {Mixed, Dense, Paired, Uneven, Trailing}
TrailingOnly == {Trailing}
=============================================================================
