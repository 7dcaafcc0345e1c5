------------------------------ MODULE MCPaging ------------------------------
(***************************************************************************)
(* Two frames and a TLB of two entries, for one process of three pages or  *)
(* two processes of two pages.  The code ends in the middle of the first   *)
(* page, and the data in the middle of a page or at its end.               *)
(***************************************************************************)
EXTENDS Paging, TLC

MCLayouts == {[codeSize |-> 1, initDataSize |-> 2, numPages |-> 2],
              [codeSize |-> 1, initDataSize |-> 3, numPages |-> 3]}

MCSymmetry == Permutations(Spaces)

\* Behaviours are followed until a frame is taken from another process; a
\* process of three pages runs alone.
Followed ==
    /\ ~crossed
    /\ exe.numPages = 3 => Cardinality({s \in Spaces : alive[s] # "new"}) <= 1
=============================================================================
