----------------------------- MODULE MCFileData ------------------------------
(* Two files on a small disk.  One is opened by two threads that write and *)
(* one that reads, or by two that use it as a directory; or each file has  *)
(* a writer, and one of them a reader.                                     *)
EXTENDS FileData, TLC

CONSTANTS f1, f2, h1, h2, h3, h4

MCFirst == (f1 :> 1) @@ (f2 :> 2)
MCFileOf == [h \in Handles |-> IF h = h4 THEN f2 ELSE f1]

With(uses) == uses @@ [h \in Handles |-> "none"]
MCUses == {With((h1 :> "write") @@ (h2 :> "write") @@ (h3 :> "read")),
           With((h1 :> "directory") @@ (h2 :> "directory")),
           With((h1 :> "write") @@ (h3 :> "read") @@ (h4 :> "write"))}

\* Behaviours are followed until Writes on the two files meet.
Apart == ~mixed
=============================================================================
