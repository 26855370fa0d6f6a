--------------------------- MODULE MCHgslDoorbell ---------------------------
(* Model-checking instance of HgslDoorbell.                                *)
EXTENDS HgslDoorbell

CONSTANTS c1, c2
ASSUME Ctxts = {c1, c2}

\* Two commands of one context, one of the other; the timestamps wrap.
Issues == [c \in Ctxts |-> IF c = c1 THEN 4 ELSE 1]
=============================================================================
