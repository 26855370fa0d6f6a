---------------------------- MODULE MCHgslContext ----------------------------
(* Model-checking instance of HgslContext: two threads of one process and  *)
(* one of another.                                                         *)
EXTENDS HgslContext

TwoProcesses == [t \in Clients |-> IF t = "t3" THEN "q" ELSE "p"]
=============================================================================
