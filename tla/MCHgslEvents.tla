---------------------------- MODULE MCHgslEvents ----------------------------
(* Model-checking instance of HgslEvents.                                  *)
EXTENDS HgslEvents, TLC

Symmetry == Permutations(Events)
=============================================================================
