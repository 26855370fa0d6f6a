---------------------------- MODULE MCHgslHsync ----------------------------
(* Model-checking instance of HgslHsync: timestamps that wrap.             *)
EXTENDS HgslHsync
=============================================================================
