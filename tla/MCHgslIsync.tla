----------------------------- MODULE MCHgslIsync -----------------------------
(* Model-checking instance of HgslIsync: one fence, three calls at a time. *)
EXTENDS HgslIsync
=============================================================================
