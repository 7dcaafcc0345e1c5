---------------------------- MODULE Interpreter ----------------------------
(***************************************************************************)
(* RunProgram of code/bin/execute.c: the stand-alone interpreter of MIPS   *)
(* programs.  It runs one program in one flat memory: no load delay, no    *)
(* page faults, no traps.  A branch takes effect after the instruction     *)
(* that follows it, through the pair (pc, npc).                            *)
(*                                                                         *)
(* The state is taken after line 179 of the loop, where Reg[0] = 0 has     *)
(* been executed; `instr` is the word at pc, whatever program is there.    *)
(* Operations that stop the interpreter (Unimplemented, a division by      *)
(* zero) and the UNIX system calls have no step.                           *)
(***************************************************************************)
EXTENDS MipsWord

VARIABLES Reg, HI, LO, pc, npc, mem, instr

vars == <<Reg, HI, LO, pc, npc, mem, instr>>

i == Decode(instr)
S == Reg[i.rs]
T == Reg[i.rt]

\* One turn of the loop: xpc = pc; pc = npc; npc = target or pc + 4.
Advance(target) == pc' = npc /\ npc' = Word(target)
Straight == npc + 4

SetReg(r, x) ==
    /\ Reg' = [Reg EXCEPT ![r] = x, ![0] = 0]
    /\ Advance(Straight)
    /\ UNCHANGED <<HI, LO, mem>>

\* The host's shift instructions take the amount modulo the word's bits.
Shift ==
    /\ i.op \in Shifts
    /\ LET n == IF i.op \in {"SLL", "SRL", "SRA"} THEN i.extra ELSE S % BITS
       IN SetReg(i.rd, CASE i.op \in {"SLL", "SLLV"} -> Shl(T, n)
                         [] i.op \in {"SRL", "SRLV"} -> Srl(T, n)
                         [] i.op \in {"SRA", "SRAV"} -> Sra(T, n))

JumpRegister ==
    /\ i.op \in {"JR", "JALR"}
    /\ Reg' = IF i.op = "JALR" THEN [Reg EXCEPT ![i.rd] = Word(pc + 8), ![0] = 0]
                               ELSE Reg
    /\ Advance(S)
    /\ UNCHANGED <<HI, LO, mem>>

MoveHiLo ==
    \/ i.op = "MFHI" /\ SetReg(i.rd, HI)
    \/ i.op = "MFLO" /\ SetReg(i.rd, LO)
    \/ i.op = "MTHI" /\ HI' = S /\ Advance(Straight) /\ UNCHANGED <<Reg, LO, mem>>
    \/ i.op = "MTLO" /\ LO' = S /\ Advance(Straight) /\ UNCHANGED <<Reg, HI, mem>>

\* HI adds up the high halves of the partial products, without the carries
\* that their low halves produce.
Multiply ==
    /\ i.op \in {"MULT", "MULTU"}
    /\ LET signed == i.op = "MULT"
           t1 == IF signed THEN Abs(Signed(S)) ELSE S
           t2 == IF signed THEN Abs(Signed(T)) ELSE T
           neg == signed /\ Neg(S) # Neg(T)
           lo == Word(t1 * t2)
           hi == Word((t1 \div HALF) * (t2 \div HALF)
                      + ((t1 \div HALF) * (t2 % HALF)) \div HALF
                      + ((t2 \div HALF) * (t1 % HALF)) \div HALF)
       IN /\ LO' = IF neg THEN Word(-lo) ELSE lo
          /\ HI' = IF neg THEN Word((WORD - 1 - hi) + Bool(lo = 0)) ELSE hi
    /\ Advance(Straight)
    /\ UNCHANGED <<Reg, mem>>

Divide ==
    /\ i.op \in {"DIV", "DIVU"} /\ T # 0
    /\ IF i.op = "DIV" THEN /\ LO' = Word(Quot(Signed(S), Signed(T)))
                            /\ HI' = Word(Rem(Signed(S), Signed(T)))
                       ELSE LO' = S \div T /\ HI' = S % T
    /\ Advance(Straight)
    /\ UNCHANGED <<Reg, mem>>

Arithmetic ==
    \/ i.op \in {"ADD", "ADDU"} /\ SetReg(i.rd, Word(S + T))
    \/ i.op \in {"SUB", "SUBU"} /\ SetReg(i.rd, Word(S - T))
    \/ i.op = "AND" /\ SetReg(i.rd, S & T)
    \/ i.op = "OR" /\ SetReg(i.rd, S | T)
    \/ i.op = "XOR" /\ SetReg(i.rd, S ^^ T)
    \/ i.op = "NOR" /\ SetReg(i.rd, WORD - 1 - (S | T))
    \/ i.op = "SLT" /\ SetReg(i.rd, Bool(Signed(S) < Signed(T)))
    \/ i.op = "SLTU" /\ SetReg(i.rd, Bool(S < T))

\* The conditions of BCOND and of the branches with an opcode of their own.
\* The link is written first.
Taken(s) == CASE i.op \in {"BLTZ", "BLTZAL"} -> Signed(s) < 0
              [] i.op \in {"BGEZ", "BGEZAL"} -> Signed(s) >= 0
              [] i.op = "BEQ" -> s = T
              [] i.op = "BNE" -> s # T
              [] i.op = "BLEZ" -> Signed(s) <= 0
              [] i.op = "BGTZ" -> Signed(s) > 0

Branch ==
    /\ i.op \in Branches
    /\ LET regs == IF i.op \in {"BLTZAL", "BGEZAL"}
                   THEN [Reg EXCEPT ![31] = Word(pc + 8)] ELSE Reg
       IN /\ Reg' = regs
          /\ Advance(IF Taken(regs[i.rs])
                     THEN pc + 4 + IndexToAddr(Signed(i.extra)) ELSE Straight)
    /\ UNCHANGED <<HI, LO, mem>>

Jump ==
    /\ i.op \in JFMT
    /\ Reg' = IF i.op = "JAL" THEN [Reg EXCEPT ![31] = Word(pc + 8)] ELSE Reg
    /\ Advance(JumpTarget(pc, i.extra))
    /\ UNCHANGED <<HI, LO, mem>>

\* The immediate of ANDI, ORI and XORI is sign-extended like the others.
Immediate ==
    \/ i.op \in {"ADDI", "ADDIU"} /\ SetReg(i.rt, Word(S + i.extra))
    \/ i.op = "SLTI" /\ SetReg(i.rt, Bool(Signed(S) < Signed(i.extra)))
    \/ i.op = "SLTIU" /\ SetReg(i.rt, Bool(S < i.extra))
    \/ i.op = "ANDI" /\ SetReg(i.rt, S & i.extra)
    \/ i.op = "ORI" /\ SetReg(i.rt, S | i.extra)
    \/ i.op = "XORI" /\ SetReg(i.rt, S ^^ i.extra)
    \/ i.op = "LUI" /\ SetReg(i.rt, Word(i.extra * HALF))

\* LWL's mask is -1 >> n, all ones: it keeps every bit of the register.
Load ==
    /\ i.op \in Loads
    /\ LET size == SizeOf(i.op)
           addr == Word(S + i.extra)
           k == addr % 4
           x == Bytes(mem, addr, size)
           aligned == Bytes(mem, addr - k, 4)
       IN SetReg(i.rt,
            CASE i.op \in {"LB", "LH"} -> SignExtend(x, BYTE^size)
              [] i.op \in {"LBU", "LHU", "LW"} -> x
              [] i.op = "LWL" -> T | Shl(aligned, B * k)
              [] i.op = "LWR" ->
                    (IF k = 0 THEN 0 ELSE T & Shl(WORD - 1, B * k))
                    | Sra(aligned, B * ((4 - k) % 4)))

StoreWord ==
    /\ i.op \in {"SB", "SH", "SW"}
    /\ mem' = StoreBytes(mem, Word(S + i.extra), SizeOf(i.op), T)
    /\ Advance(Straight)
    /\ UNCHANGED <<Reg, HI, LO>>

Execute ==
    \/ Shift \/ JumpRegister \/ MoveHiLo \/ Multiply \/ Divide \/ Arithmetic
    \/ Branch \/ Jump \/ Immediate \/ Load \/ StoreWord
=============================================================================
