------------------------------- MODULE MCMips -------------------------------
(***************************************************************************)
(* The processor with words of four bits: bytes of one bit, so that every  *)
(* width, sign bit and carry of the instructions is there.  A program is   *)
(* any instruction followed by one of a few that read, load, store, branch *)
(* or trap, or the other way round.                                        *)
(***************************************************************************)
EXTENDS Mips

MCValues == {0, 1, 4, 7, 8, 13, 15}
MCMemories == {[a \in 0 .. 7 |-> IF a \in {0, 2, 3, 5} THEN 1 ELSE 0]}

Raw(op, rs, rt, rd, field) ==
    [op |-> op, rs |-> rs, rt |-> rt, rd |-> rd, field |-> field]

ThreeRegs == RFMT \ {"SLL", "SRL", "SRA", "JR", "JALR", "SYSCALL", "MFHI",
                     "MTHI", "MFLO", "MTLO"}
OneImmediate == {"ADDI", "ADDIU", "SLTI", "SLTIU", "ANDI", "ORI", "XORI"}

AnyInstruction ==
    {Raw(op, 1, 2, rd, 0) : op \in ThreeRegs, rd \in {0, 1}}
    \cup {Raw(op, 0, 1, 2, n) : op \in {"SLL", "SRL", "SRA"}, n \in {1, 3}}
    \cup {Raw(op, 1, rt, 0, k) : op \in OneImmediate, rt \in {1, 2}, k \in {1, 2}}
    \cup {Raw(op, 1, rt, 0, k) : op \in Loads \cup Stores, rt \in {1, 2}, k \in {0, 2}}
    \cup {Raw("LUI", 0, 1, 0, 3)}
    \cup {Raw(op, 1, 2, 0, k) : op \in {"BEQ", "BNE"}, k \in {0, 3}}
    \cup {Raw(op, rs, 0, 0, k) : op \in Branches \ {"BEQ", "BNE"},
                                 rs \in {1, 31}, k \in {0, 3}}
    \cup {Raw(op, 0, 0, 0, k) : op \in JFMT, k \in {0, 1}}
    \cup {Raw("JR", 1, 0, 0, 0), Raw("JALR", 1, 0, 31, 0), Raw("JALR", 2, 0, 2, 0),
          Raw("JALR", 0, 0, 0, 0), Raw("JALR", 1, 0, 0, 0)}
    \cup {Raw(op, 0, 0, 2, 0) : op \in {"MFHI", "MFLO"}}
    \cup {Raw(op, 2, 0, 0, 0) : op \in {"MTHI", "MTLO"}}
    \cup {Raw("SYSCALL", 0, 0, 0, 0), Raw("RES", 0, 0, 0, 0)}

FewInstructions ==
    {Raw("ADDU", 1, 2, 2, 0), Raw("ADDIU", 2, 2, 0, 1), Raw("LW", 2, 1, 0, 0),
     Raw("LH", 2, 1, 0, 2), Raw("LWR", 2, 1, 0, 0), Raw("SW", 2, 1, 0, 0),
     Raw("BNE", 1, 0, 0, 2), Raw("JALR", 1, 0, 31, 0), Raw("MULT", 1, 2, 0, 0),
     Raw("MFHI", 0, 0, 2, 0), Raw("SYSCALL", 0, 0, 0, 0)}

MCKinds == [any |-> AnyInstruction, few |-> FewInstructions]
MCPrograms == {<<"any", "few">>, <<"few", "any">>}
=============================================================================
