----------------------------- MODULE MCProcesses -----------------------------
(* Three processes, a file and a program.  In each                         *)
(* scenario processes make some of the calls; in one of them only one id   *)
(* is left.                                                                *)
EXTENDS Processes

CONSTANTS main, p1, p2, f, g, x, y

MCTyped == {<<>>, <<x, y>>}

MCScenarios ==
  {[processes |-> {main, p1}, used |-> 0, statuses |-> {0}, typed |-> <<>>,
    calls |-> {"Exec", "Exit", "Open", "Close", "Remove", "Create"}],
   [processes |-> {main, p1}, used |-> SIZE - 1, statuses |-> {0}, typed |-> <<>>,
    calls |-> {"Exec", "Exit", "Open", "Close", "Remove"}],
   [processes |-> Threads, used |-> 1, statuses |-> {0, 1}, typed |-> <<>>,
    calls |-> {"Exec", "Exit", "Join", "Halt"}],
   [processes |-> {main, p1}, used |-> 0, statuses |-> {0}, typed |-> <<x, y>>,
    calls |-> {"Exec", "Write", "Read"}]}

(* No step depends on the answers that processes got before, and when the  *)
(* machine stops nothing else changes.                                     *)
MCView ==
  IF machine = "on"
  THEN <<scenario, state, dropped, opFD, threadVars, exitVars, fileVars, consoleVars>>
  ELSE <<scenario, machine>>
=============================================================================
