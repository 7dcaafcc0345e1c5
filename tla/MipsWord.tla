------------------------------ MODULE MipsWord ------------------------------
(***************************************************************************)
(* Two's complement words of 4 * B bits, and the instruction word that     *)
(* both MIPS simulators of the repository decode: the machine simulation   *)
(* (code/machine/) and the stand-alone interpreter (code/bin/execute.c).   *)
(*                                                                         *)
(* The code has B = 8.  A word is the natural number of its bits, so       *)
(* every sum, difference and shift is taken modulo WORD, and Signed gives  *)
(* the `int` that the same bits stand for.                                 *)
(***************************************************************************)
EXTENDS Integers, Sequences, Bitwise

CONSTANTS
    B,          \* bits in a byte of the simulated memory
    REGION      \* the span of a J target: 2^28 in the code

BITS == 4 * B
BYTE == 2^B
HALF == 2^(2 * B)
WORD == 2^BITS
SIGN_BIT == 2^(BITS - 1)

ASSUME MipsWordAssumption == B \in Nat \ {0} /\ REGION \in Nat \ {0}

Word(x) == x % WORD
Neg(x) == x >= SIGN_BIT
Signed(x) == IF Neg(x) THEN x - WORD ELSE x
Bool(p) == IF p THEN 1 ELSE 0

\* A value of `size` values with its top bit copied into the rest of a word.
SignExtend(x, size) == IF 2 * x >= size THEN Word(x - size) ELSE x

Shl(x, n) == Word(x * 2^n)
Sra(x, n) == Word(Signed(x) \div 2^n)     \* >> on an int
Srl(x, n) == x \div 2^n                   \* >> on an unsigned

IndexToAddr(x) == 4 * x
\* The region of pc, with the word index of a J or a JAL in it.
JumpTarget(pc, index) == (pc - (pc % REGION)) + (IndexToAddr(index) % REGION)

\* C's / and %, which round towards zero.
Abs(x) == IF x < 0 THEN -x ELSE x
Quot(a, b) == IF (a < 0) = (b < 0) THEN Abs(a) \div Abs(b)
                                   ELSE -(Abs(a) \div Abs(b))
Rem(a, b) == a - b * Quot(a, b)

-----------------------------------------------------------------------------
(* The instruction word: the operation that OP_TABLE and SPECIAL_TABLE give *)
(* for its opcode bits, three register fields, and `field`, its low bits:   *)
(* the 16-bit immediate, the shift amount or the 26-bit jump target.        *)

JFMT == {"J", "JAL"}
Shifts == {"SLL", "SRL", "SRA", "SLLV", "SRLV", "SRAV"}
RFMT == Shifts \cup
        {"ADD", "ADDU", "SUB", "SUBU", "AND", "OR", "XOR", "NOR",
         "SLT", "SLTU", "JR", "JALR", "SYSCALL", "MFHI", "MTHI", "MFLO",
         "MTLO", "MULT", "MULTU", "DIV", "DIVU"}

Stores == {"SB", "SH", "SW", "SWL", "SWR"}
Loads == {"LB", "LBU", "LH", "LHU", "LW", "LWL", "LWR"}
Branches == {"BEQ", "BNE", "BGTZ", "BLEZ", "BLTZ", "BGEZ", "BLTZAL", "BGEZAL"}

\* The immediate is sign-extended, the other fields are not.
Decode(raw) ==
    [op |-> raw.op, rs |-> raw.rs, rt |-> raw.rt, rd |-> raw.rd,
     extra |-> IF raw.op \in RFMT \cup JFMT THEN raw.field
                                            ELSE SignExtend(raw.field, HALF)]

\* The bytes of a little-endian memory, read and written by `size`.
Bytes(mem, addr, size) ==
    LET value[k \in 0 .. size] ==
            IF k = 0 THEN 0
                     ELSE value[k - 1] + mem[addr + k - 1] * BYTE^(k - 1)
    IN value[size]

StoreBytes(mem, addr, size, x) ==
    [a \in DOMAIN mem |-> IF a \in addr .. addr + size - 1
                          THEN (x \div BYTE^(a - addr)) % BYTE ELSE mem[a]]

SizeOf(op) == IF op \in {"LB", "LBU", "SB"} THEN 1
              ELSE IF op \in {"LH", "LHU", "SH"} THEN 2 ELSE 4
=============================================================================
