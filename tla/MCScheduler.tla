----------------------------- MODULE MCScheduler -----------------------------
(* The main thread and three others. *)
EXTENDS Scheduler, TLC

CONSTANTS main, a, b, c

FourTCBs == {main, a, b, c}
TwoJoinable == {a, b}
MCPriority == [t \in TCBs |-> IF t = b THEN 2 ELSE IF t = c THEN 1 ELSE 0]
MCtId == [t \in TCBs |-> CASE t = main -> 0 [] t = a -> 1 [] t = b -> 2 [] t = c -> 3]
=============================================================================
