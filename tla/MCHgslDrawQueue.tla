--------------------------- MODULE MCHgslDrawQueue ---------------------------
(* Model-checking instances of HgslDrawQueue.                              *)
EXTENDS HgslDrawQueue, TLC

Marker == <<"marker">>
SyncCmd == <<"sync", "cmd">>
Aux == <<"timeline", "marker">>

\* Markers, and commands behind sync points.
MixedBatches == {Marker, SyncCmd}

\* Every kind of object the dispatcher retires or sends.
DrainBatches == {SyncCmd, Aux, Marker}

Symmetry == Permutations(Threads)
=============================================================================
