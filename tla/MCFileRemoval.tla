--------------------------- MODULE MCFileRemoval ---------------------------
(* Two threads that open and close the file; two that remove it, or one    *)
(* that removes it and one that creates it again, or one that removes a    *)
(* file that is older than the system's start.                             *)
EXTENDS FileRemoval

CONSTANTS t1, t2, t3, t4

MCCasts ==
  {[openers |-> {t1, t2}, removers |-> {t3, t4}, creators |-> {}, booted |-> FALSE],
   [openers |-> {t1, t2}, removers |-> {t3}, creators |-> {t4}, booted |-> FALSE],
   [openers |-> {t1, t2}, removers |-> {t3}, creators |-> {}, booted |-> TRUE]}
============================================================================
