------------------------------ MODULE MCHgslHyp ------------------------------
(* Model-checking instance of HgslHyp.                                     *)
EXTENDS HgslHyp
=============================================================================
