------------------------------ MODULE MCHgslMem ------------------------------
(* Model-checking instance of HgslMem: two threads, two lives of the       *)
(* process.                                                                *)
EXTENDS HgslMem
=============================================================================
