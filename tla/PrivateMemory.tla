--------------------------- MODULE PrivateMemory ---------------------------
(***************************************************************************)
(* What virtual memory promises: each process has a memory of its own,     *)
(* which starts as its executable says and changes one byte at a time, by  *)
(* the stores of that process.  `memory` is a function on the processes    *)
(* that exist.                                                             *)
(***************************************************************************)
EXTENDS Integers

CONSTANTS
    Spaces,     \* the processes
    Written     \* the values that they store

VARIABLES
    image,      \* the executable, byte by byte
    memory

Start(s) ==
    /\ s \notin DOMAIN memory
    /\ memory' = [p \in DOMAIN memory \cup {s} |->
                     IF p = s THEN image ELSE memory[p]]

Store(s, a, x) == memory' = [memory EXCEPT ![s][a] = <<"written", x>>]

End(s) == memory' = [p \in DOMAIN memory \ {s} |-> memory[p]]

Next ==
    \/ \E s \in Spaces : Start(s)
    \/ \E s \in DOMAIN memory : End(s)
    \/ \E s \in DOMAIN memory, a \in DOMAIN image, x \in Written : Store(s, a, x)
=============================================================================
