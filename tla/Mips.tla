-------------------------------- MODULE Mips --------------------------------
(***************************************************************************)
(* The processor of the simulated machine: Machine::Run with its fetch,    *)
(* its instructions and its exceptions (code/machine/mips_sim.cc and       *)
(* machine.cc).  A load reaches its register one instruction late, through *)
(* LOAD_REG and LOAD_VALUE_REG.  An exception applies the pending load,    *)
(* runs the kernel's handler and leaves the program counters alone, so     *)
(* that the instruction is started again after a page fault; a system call *)
(* moves them itself, and every other exception stops the machine.         *)
(*                                                                         *)
(* Any access to memory may fault (the TLB and the frames are the matter   *)
(* of Paging).  `instr` is the word at the program counter and `left` the  *)
(* kinds of the words to come: a program, as it unfolds.                   *)
(***************************************************************************)
EXTENDS MipsWord

CONSTANTS
    GeneralRegs,    \* the general registers in use, with 0 and 31
    Values,         \* the values that registers hold at the start
    Memories,       \* the initial contents of memory
    Kinds,          \* Kinds[k]: the instruction words of a kind
    Programs        \* sequences of kinds

RET_ADDR_REG == 31
HI_REG == 32
LO_REG == 33
PC_REG == 34
NEXT_PC_REG == 35
PREV_PC_REG == 36
LOAD_REG == 37
LOAD_VALUE_REG == 38
BAD_VADDR_REG == 39

VARIABLES
    registers,      \* registers[NUM_TOTAL_REGS]
    mainMemory,     \* the bytes that the program's addresses translate to
    instr,
    left,
    status          \* "run", "end" of the program, or why the machine stopped

vars == <<registers, mainMemory, instr, left, status>>

i == Decode(instr)
S == registers[i.rs]
T == registers[i.rt]
PcAfter == Word(registers[NEXT_PC_REG] + 4)

-----------------------------------------------------------------------------
(* Loads, exceptions and the end of an instruction.                        *)

DelayedLoad(regs, nextReg, nextValue) ==
    [regs EXCEPT ![regs[LOAD_REG]] = regs[LOAD_VALUE_REG],
                 ![LOAD_REG] = nextReg, ![LOAD_VALUE_REG] = nextValue,
                 ![0] = 0]

\* Mutant: an exception forgets the pending load.
Trapped_Drop(badVAddr) ==
    [registers EXCEPT ![BAD_VADDR_REG] = badVAddr, ![LOAD_REG] = 0, ![LOAD_VALUE_REG] = 0]

\* What RaiseException does before it calls the handler.
Trapped(badVAddr) ==
    DelayedLoad([registers EXCEPT ![BAD_VADDR_REG] = badVAddr], 0, 0)

\* DefaultHandler: the exception ends the simulation.  So do a failed ASSERT
\* and a division that the host's processor refuses.
Stop(why, badVAddr) ==
    /\ registers' = Trapped(badVAddr)
    /\ status' = why
    /\ UNCHANGED <<mainMemory, instr, left>>

\* PageFaultExeption: the page is made present, nothing else is touched.
PageFault(badVAddr) ==
    /\ registers' = Trapped(badVAddr)
    /\ UNCHANGED <<mainMemory, instr, left, status>>

\* The registers that an instruction names.
Mentions(raw) == {raw.rs, raw.rt, raw.rd}
                 \cup IF raw.op \in {"JAL", "BLTZAL", "BGEZAL"} THEN {31} ELSE {}

\* A program never names, in the instruction after a load, the register being
\* loaded (LWL and LWR, which merge with it, apart), and has no branch in the
\* slot of a branch: what the assembler makes sure of.
Disciplined(raw, regs) ==
    /\ \/ regs[LOAD_REG] = 0
       \/ raw.op \in {"LWL", "LWR"} /\ regs[LOAD_REG] # raw.rs
       \/ regs[LOAD_REG] \notin Mentions(raw)
    /\ raw.op \in Branches \cup JFMT \cup {"JR", "JALR"}
           => regs[NEXT_PC_REG] = Word(regs[PC_REG] + 4)

\* The word at the new program counter.
Continue ==
    IF left = <<>>
    THEN status' = "end" /\ UNCHANGED <<instr, left>>
    ELSE /\ left' = Tail(left)
         /\ instr' \in {raw \in Kinds[Head(left)] : Disciplined(raw, registers')}
         /\ UNCHANGED status

\* The end of ExecInstruction.
Retire(regs, nextLoadReg, nextLoadValue, pcAfter) ==
    /\ registers' = [DelayedLoad(regs, nextLoadReg, nextLoadValue) EXCEPT
                        ![PREV_PC_REG] = registers[PC_REG],
                        ![PC_REG] = registers[NEXT_PC_REG],
                        ![NEXT_PC_REG] = pcAfter]
    /\ Continue

Set(r, x) == [registers EXCEPT ![r] = x]
WriteBack(r, x) == Retire(Set(r, x), 0, 0, PcAfter) /\ UNCHANGED mainMemory
-----------------------------------------------------------------------------
(* Arithmetic and logic.                                                   *)

ExecAdd ==
    /\ i.op \in {"ADD", "ADDU", "ADDI", "ADDIU"}
    /\ LET b == IF i.op \in {"ADD", "ADDU"} THEN T ELSE i.extra
           sum == Word(S + b)
       IN IF i.op \in {"ADD", "ADDI"} /\ Neg(S) = Neg(b) /\ Neg(b) # Neg(sum)
          THEN Stop("overflow", 0)
          ELSE WriteBack(IF i.op \in {"ADD", "ADDU"} THEN i.rd ELSE i.rt, sum)

ExecSub ==
    /\ i.op \in {"SUB", "SUBU"}
    /\ LET diff == Word(S - T)
       IN IF i.op = "SUB" /\ Neg(S) # Neg(T) /\ Neg(S) # Neg(diff)
          THEN Stop("overflow", 0)
          ELSE WriteBack(i.rd, diff)

ExecAnd ==
    \/ i.op = "AND" /\ WriteBack(i.rd, S & T)
    \/ i.op = "ANDI" /\ WriteBack(i.rt, S & (i.extra % HALF))

ExecOr ==
    \/ i.op = "OR" /\ WriteBack(i.rd, S | T)
    \/ i.op = "ORI" /\ WriteBack(i.rt, S | (i.extra % HALF))
    \/ i.op = "NOR" /\ WriteBack(i.rd, WORD - 1 - (S | T))

ExecXor ==
    \/ i.op = "XOR" /\ WriteBack(i.rd, S ^^ T)
    \/ i.op = "XORI" /\ WriteBack(i.rt, S ^^ (i.extra % HALF))

ExecLui == i.op = "LUI" /\ WriteBack(i.rt, Word(i.extra * HALF))

ExecSlt ==
    \/ i.op = "SLT" /\ WriteBack(i.rd, Bool(Signed(S) < Signed(T)))
    \/ i.op = "SLTI" /\ WriteBack(i.rt, Bool(Signed(S) < Signed(i.extra)))
    \/ i.op = "SLTU" /\ WriteBack(i.rd, Bool(S < T))
    \/ i.op = "SLTIU" /\ WriteBack(i.rt, Bool(S < i.extra))

ExecShiftLeft ==
    \/ i.op = "SLL" /\ WriteBack(i.rd, Shl(T, i.extra))
    \/ i.op = "SLLV" /\ WriteBack(i.rd, Shl(T, S % BITS))

\* SRL and SRLV shift an `int` too: the sign bit is copied.
ExecShiftRight ==
    \/ i.op \in {"SRA", "SRL"} /\ WriteBack(i.rd, Sra(T, i.extra))
    \/ i.op \in {"SRAV", "SRLV"} /\ WriteBack(i.rd, Sra(T, S % BITS))

\* Mutant: the carry out of the low word is lost.
MultLoop_NoCarry(a, b) ==
    LET turn[n \in 0 .. BITS] ==
            IF n = 0 THEN [bLo |-> b, bHi |-> 0, lo |-> 0, hi |-> 0]
            ELSE LET t == turn[n - 1]
                     bit == Sra(a, n - 1) % 2
                     lo == Word(t.lo + bit * t.bLo)
                 IN [lo |-> lo, hi |-> Word(t.hi + bit * t.bHi),
                     bHi |-> Word(2 * t.bHi) + Bool(Neg(t.bLo)), bLo |-> Shl(t.bLo, 1)]
    IN <<turn[BITS].hi, turn[BITS].lo>>

\* The main loop of Mult: the bits of a, from the lowest, add b shifted.
MultLoop(a, b) ==
    LET turn[n \in 0 .. BITS] ==
            IF n = 0 THEN [bLo |-> b, bHi |-> 0, lo |-> 0, hi |-> 0]
            ELSE LET t == turn[n - 1]
                     bit == Sra(a, n - 1) % 2
                     lo == Word(t.lo + bit * t.bLo)
                 IN [lo |-> lo,
                     hi |-> Word(t.hi + bit * t.bHi + Bool(bit = 1 /\ lo < t.bLo)),
                     bHi |-> Word(2 * t.bHi) + Bool(Neg(t.bLo)),
                     bLo |-> Shl(t.bLo, 1)]
    IN <<turn[BITS].hi, turn[BITS].lo>>

\* Mult: the pair <<hi, lo>>.  The loop's early end, when no bit of a is left,
\* skips turns that would add nothing.
Mult(a, b, signedArith) ==
    LET Magnitude(x) == IF signedArith /\ Neg(x) THEN Word(-x) ELSE x
        r == MultLoop(Magnitude(a), Magnitude(b))
    IN IF a = 0 \/ b = 0 THEN <<0, 0>>
       ELSE IF signedArith /\ Neg(a) # Neg(b)
            THEN <<Word(WORD - 1 - r[1] + Bool(r[2] = 0)), Word(-r[2])>>
            ELSE r

HiLo(hi, lo) ==
    /\ Retire([registers EXCEPT ![HI_REG] = hi, ![LO_REG] = lo], 0, 0, PcAfter)
    /\ UNCHANGED mainMemory

ExecHiLo ==
    \/ i.op = "MFHI" /\ WriteBack(i.rd, registers[HI_REG])
    \/ i.op = "MFLO" /\ WriteBack(i.rd, registers[LO_REG])
    \/ i.op = "MTHI" /\ WriteBack(HI_REG, S)
    \/ i.op = "MTLO" /\ WriteBack(LO_REG, S)
    \/ /\ i.op \in {"MULT", "MULTU"}
       /\ LET r == Mult(S, T, i.op = "MULT") IN HiLo(r[1], r[2])

\* The quotient of the least integer by -1 is a signal on the host.
ExecDiv ==
    /\ i.op \in {"DIV", "DIVU"}
    /\ IF T = 0 THEN HiLo(0, 0)
       ELSE IF i.op = "DIVU" THEN HiLo(S % T, S \div T)
       ELSE IF S = SIGN_BIT /\ T = WORD - 1 THEN Stop("signal", 0)
       ELSE HiLo(Word(Rem(Signed(S), Signed(T))), Word(Quot(Signed(S), Signed(T))))
-----------------------------------------------------------------------------
(* Branches and jumps.                                                     *)

Target == Word(registers[NEXT_PC_REG] + IndexToAddr(Signed(i.extra)))
Linked(r) == Set(r, PcAfter)

\* The link is written before the condition is read.
ExecBranch ==
    /\ i.op \in Branches
    /\ LET regs == IF i.op \in {"BGEZAL", "BLTZAL"} THEN Linked(RET_ADDR_REG)
                                                    ELSE registers
           s == regs[i.rs]
           taken == CASE i.op = "BEQ" -> s = T
                      [] i.op = "BNE" -> s # T
                      [] i.op \in {"BGEZ", "BGEZAL"} -> ~Neg(s)
                      [] i.op \in {"BLTZ", "BLTZAL"} -> Neg(s)
                      [] i.op = "BGTZ" -> Signed(s) > 0
                      [] i.op = "BLEZ" -> Signed(s) <= 0
       IN Retire(regs, 0, 0, IF taken THEN Target ELSE PcAfter)
    /\ UNCHANGED mainMemory

ExecJump ==
    /\ UNCHANGED mainMemory
    /\ \/ i.op = "J" /\ Retire(registers, 0, 0, JumpTarget(PcAfter, i.extra))
       \/ i.op = "JAL" /\ Retire(Linked(RET_ADDR_REG), 0, 0,
                                 JumpTarget(PcAfter, i.extra))
       \/ i.op = "JR" /\ Retire(registers, 0, 0, S)
       \/ i.op = "JALR" /\ Retire(Linked(i.rd), 0, 0, Linked(i.rd)[i.rs])
-----------------------------------------------------------------------------
(* Memory.  ReadMem and WriteMem fault, refuse the address or proceed.     *)

Addr == Word(S + i.extra)
Mapped(addr, size) == addr + size - 1 \in DOMAIN mainMemory

\* LWL, LWR, SWL and SWR assert that the address is aligned; the others get
\* an address error from the instruction itself or from Translate.
ExecMisaligned ==
    /\ i.op \in Loads \cup Stores
    /\ Addr % SizeOf(i.op) # 0 \/ ~Mapped(Addr, SizeOf(i.op))
    /\ Stop("address", Addr)

Accesses == /\ i.op \in Loads \cup Stores
            /\ Addr % SizeOf(i.op) = 0
            /\ Mapped(Addr, SizeOf(i.op))

ExecFault == Accesses /\ PageFault(Addr)

\* LWL and LWR start from the pending value of the register, if there is one.
ExecLoad ==
    /\ Accesses /\ i.op \in Loads
    /\ LET size == SizeOf(i.op)
           x == Bytes(mainMemory, Addr, size)
           old == IF registers[LOAD_REG] = i.rt THEN registers[LOAD_VALUE_REG]
                                                ELSE T
           value == CASE i.op \in {"LB", "LH"} -> SignExtend(x, BYTE^size)
                      [] i.op \in {"LBU", "LHU", "LW", "LWL"} -> x
                      [] i.op = "LWR" -> (old - (old % BYTE)) + (x \div BYTE^3)
       IN Retire(registers, i.rt, value, PcAfter)
    /\ UNCHANGED mainMemory

ExecStore ==
    /\ Accesses /\ i.op \in {"SB", "SH", "SW"}
    /\ mainMemory' = StoreBytes(mainMemory, Addr, SizeOf(i.op), T)
    /\ Retire(registers, 0, 0, PcAfter)

\* SWL and SWR read the word, change part of it and write it back.
ExecStorePart ==
    /\ Accesses /\ i.op \in {"SWL", "SWR"}
    /\ LET word == Bytes(mainMemory, Addr, 4)
       IN mainMemory' = StoreBytes(mainMemory, Addr, 4,
                            IF i.op = "SWL" THEN T
                            ELSE (word % BYTE^3) + Shl(T, 3 * B))
    /\ Retire(registers, 0, 0, PcAfter)
-----------------------------------------------------------------------------
(* System calls and the loop of Run.                                       *)

\* SyscallHandler answers in register 2 and ends with IncrementPC.
ExecSyscall ==
    /\ i.op = "SYSCALL"
    /\ \E answer \in Values :
          registers' = [Trapped(0) EXCEPT
                            ![2] = answer,
                            ![PREV_PC_REG] = registers[PC_REG],
                            ![PC_REG] = registers[NEXT_PC_REG],
                            ![NEXT_PC_REG] = Word(registers[NEXT_PC_REG] + 4)]
    /\ Continue
    /\ UNCHANGED mainMemory

ExecIllegal == i.op \in {"RES", "UNIMP"} /\ Stop("illegal", 0)

ExecInstruction ==
    \/ ExecAdd \/ ExecSub \/ ExecAnd \/ ExecOr \/ ExecXor \/ ExecLui \/ ExecSlt
    \/ ExecShiftLeft \/ ExecShiftRight \/ ExecHiLo \/ ExecDiv
    \/ ExecBranch \/ ExecJump
    \/ ExecMisaligned \/ ExecFault \/ ExecLoad \/ ExecStore \/ ExecStorePart
    \/ ExecSyscall \/ ExecIllegal

FetchFault == PageFault(registers[PC_REG])

Run == status = "run" /\ (FetchFault \/ ExecInstruction)

Init ==
    /\ registers \in
         {[r \in GeneralRegs \cup HI_REG .. BAD_VADDR_REG |->
              CASE r = NEXT_PC_REG -> 4 [] r = 1 -> x [] r = 2 -> y [] OTHER -> 0]
          : x \in Values, y \in Values}
    /\ mainMemory \in Memories
    /\ \E p \in Programs : instr \in Kinds[Head(p)] /\ left = Tail(p)
    /\ status = "run"

Spec == Init /\ [][Run]_vars
-----------------------------------------------------------------------------
(* Properties.                                                             *)

\* What the program sees: a load is complete when its instruction is.
Visible == [r \in GeneralRegs |->
               IF r # 0 /\ r = registers[LOAD_REG] THEN registers[LOAD_VALUE_REG]
                                                   ELSE registers[r]]

Reference == INSTANCE Interpreter WITH
    Reg <- Visible, HI <- registers[HI_REG], LO <- registers[LO_REG],
    pc <- registers[PC_REG], npc <- registers[NEXT_PC_REG], mem <- mainMemory

\* Where the two simulators part: system calls, the partial loads and
\* stores, division by zero, the high word of a product, a right shift of a
\* negative number, a negative immediate of a logical operation, a jump at
\* the end of a region, and a JALR through the register it links, register 0
\* included (the machine jumps to the link, the interpreter to what was there).
Differ ==
    \/ i.op \in {"SYSCALL", "LWL", "LWR", "SWL", "SWR", "MULT", "MULTU"}
    \/ i.op \in {"DIV", "DIVU"} /\ T = 0
    \/ i.op \in {"SRL", "SRLV"} /\ Neg(T)
    \/ i.op \in {"ANDI", "ORI", "XORI"} /\ Neg(i.extra)
    \/ i.op \in JFMT /\ registers[PC_REG] \div REGION # PcAfter \div REGION
    \/ i.op = "JALR" /\ i.rd = i.rs

\* The step that ends an instruction, and not with an exception.
Completed == left' # left \/ status' = "end"

\* Both simulators of the repository run a program alike.  However page
\* faults fall, at the fetch or at the access and between a load and the
\* instruction after it, each step that completes an instruction changes the
\* registers, the memory and the program counters as one turn of the loop of
\* bin/execute.c does, and a fault changes nothing that the program sees
\* (Machine::ExecInstruction, DelayedLoad, RaiseException).
MachineFollowsInterpreter ==
    [][IF Completed THEN Differ \/ Reference!Execute
                    ELSE UNCHANGED Reference!vars]_vars

Exact(x) == IF x \in -SIGN_BIT .. SIGN_BIT - 1 THEN "fits" ELSE "overflow"

\* The arithmetic the interpreter does not settle.  MULT and MULTU leave in
\* HI and LO the double word of the product, of signed or unsigned operands;
\* DIV and DIVU leave a quotient and a remainder that give the dividend back;
\* and ADD, ADDI and SUB trap exactly when the true result is not an int
\* (Mult, and the sign tests of ExecInstruction).
ArithmeticIsExact ==
    [][LET hi == registers'[HI_REG]
           lo == registers'[LO_REG]
       IN Completed \/ status' # "run" =>
          /\ i.op = "MULT" => Signed(hi) * WORD + lo = Signed(S) * Signed(T)
          /\ i.op = "MULTU" => hi * WORD + lo = S * T
          /\ i.op = "DIV" /\ T # 0 /\ status' # "signal" =>
                /\ Signed(lo) * Signed(T) + Signed(hi) = Signed(S)
                /\ Abs(Signed(hi)) < Abs(Signed(T))
          /\ i.op = "DIVU" /\ T # 0 => lo * T + hi = S /\ hi < T
          /\ i.op = "ADD" => (status' = "overflow")
                               = (Exact(Signed(S) + Signed(T)) = "overflow")
          /\ i.op = "ADDI" => (status' = "overflow")
                               = (Exact(Signed(S) + Signed(i.extra)) = "overflow")
          /\ i.op = "SUB" => (status' = "overflow")
                               = (Exact(Signed(S) - Signed(T)) = "overflow")]_vars
=============================================================================
