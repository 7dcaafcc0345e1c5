------------------------------ MODULE Arguments ------------------------------
(***************************************************************************)
(* The arguments of a new process (userprog/args.cc, the strings of        *)
(* userprog/transfer.cc and RutinaHiloSCExec of userprog/exception.cc):    *)
(* Exec copies them from the memory of the parent into the kernel, and the *)
(* child, when it first runs, writes them at the top of its own stack,     *)
(* where main finds them.                                                  *)
(*                                                                         *)
(* A memory is a function from addresses to bytes.  A character is its     *)
(* code, and a string is the sequence of its characters before the '\0'.   *)
(***************************************************************************)
EXTENDS Integers, SequencesExt, FiniteSetsExt

CONSTANTS
  MAX_ARG_COUNT, MAX_ARG_LENGTH,
  MemorySize     \* the bytes of an address space, numPages * PAGE_SIZE

NUL == 0

(* No string, and a null array of arguments. *)
NullString == <<-1>>
NullArgs == <<NullString>>

(* ReadStringFromUser: the string at an address, if it ends within `max`   *)
(* bytes.                                                                  *)
ReadStringFromUser(mem, address, max) ==
  LET ends == {k \in 0 .. max - 1 : address + k \in DOMAIN mem /\ mem[address + k] = NUL}
  IN  IF ends = {} THEN NullString ELSE [k \in 1 .. Min(ends) |-> mem[address + k - 1]]

(* WriteStringToUser, of a string that is not empty: the '\0' that ends it *)
(* is not written.                                                         *)
WriteStringToUser(mem, string, address) ==
  [a \in DOMAIN mem |->
     IF a \in address .. address + Len(string) - 1 THEN string[a - address + 1] ELSE mem[a]]

(* Words, least significant byte first. *)
ReadWord(mem, a) ==
  mem[a] + 256 * (mem[a + 1] + 256 * (mem[a + 2] + 256 * mem[a + 3]))

WriteWord(mem, a, word) ==
  [mem EXCEPT ![a] = word % 256, ![a + 1] = (word \div 256) % 256,
              ![a + 2] = (word \div 65536) % 256, ![a + 3] = word \div 16777216]

WriteWords(mem, a, words) ==
  FoldLeftDomain(LAMBDA m, i : WriteWord(m, a + 4 * (i - 1), words[i]), mem, words)

-----------------------------------------------------------------------------

(* CountArgsToSave: the pointers before the first null one, or -1 if there *)
(* is none among the first MAX_ARG_COUNT.                                  *)
CountArgsToSave(argv) ==
  LET nulls == {c \in 1 .. MAX_ARG_COUNT : argv[c] = 0}
  IN  IF nulls = {} THEN -1 ELSE Min(nulls) - 1

(* SaveArgs: the strings at the addresses of the array argv. *)
SaveArgs(mem, argv) ==
  LET count == CountArgsToSave(argv)
  IN  IF count = -1 THEN NullArgs
      ELSE [i \in 1 .. count |-> ReadStringFromUser(mem, argv[i], MAX_ARG_LENGTH)]

(* WriteArgs: the strings downwards from sp, each with a byte for its      *)
(* '\0', then the array of their addresses, aligned.                       *)
WriteArgs(mem, sp, args) ==
  LET below[i \in 0 .. Len(args)] == IF i = 0 THEN sp ELSE below[i - 1] - (Len(args[i]) + 1)
      addresses == [i \in 1 .. Len(args) |-> below[i]]
      strings == FoldLeftDomain(LAMBDA m, i : WriteStringToUser(m, args[i], below[i]), mem, args)
      aligned == below[Len(args)] - (below[Len(args)] % 4)
      top == aligned - (4 * Len(args) + 4)
  IN  [mem |-> WriteWords(strings, top, Append(addresses, 0)), sp |-> top]

(* InitRegisters. *)
InitialSP == MemorySize - 16

(* A process as it enters main: its memory, its stack pointer and the      *)
(* registers of the first two arguments.                                   *)
Process(mem, sp, r4, r5) == [mem |-> mem, sp |-> sp, r4 |-> r4, r5 |-> r5]

(* The memory of a new process above its code. *)
ZeroMemory == [a \in 0 .. MemorySize - 1 |-> 0]

(* Mutant: no room for the arguments that main may store. *)
RutinaHiloSCExec_NoArea(args) ==
  IF args = NullArgs THEN Process(ZeroMemory, InitialSP, 0, 0)
  ELSE LET written == WriteArgs(ZeroMemory, InitialSP, args)
       IN  Process(written.mem, written.sp, Len(args), written.sp)

(* RutinaHiloSCExec, on the first run of a new process. *)
RutinaHiloSCExec(args) ==
  IF args = NullArgs THEN Process(ZeroMemory, InitialSP, 0, 0)
  ELSE LET written == WriteArgs(ZeroMemory, InitialSP, args)
       IN  Process(written.mem, written.sp - 24, Len(args), written.sp)

(* The code that the compiler puts at the start of main may store the four *)
(* registers of arguments in the 16 bytes above the stack pointer.         *)
MainStoresArguments(process) ==
  [process EXCEPT !.mem = WriteWords(@, process.sp, <<process.r4, process.r5, 0, 0>>)]

(* The arguments as main reads them: argv[0] to argv[argc - 1]. *)
MainArguments(process) ==
  [i \in 1 .. process.r4 |->
     ReadStringFromUser(process.mem, ReadWord(process.mem, process.r5 + 4 * (i - 1)), MemorySize)]
=============================================================================
