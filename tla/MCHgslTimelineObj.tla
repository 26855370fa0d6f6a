-------------------------- MODULE MCHgslTimelineObj --------------------------
(* Model-checking instance of HgslTimelineObj.                             *)
EXTENDS HgslTimelineObj
=============================================================================
