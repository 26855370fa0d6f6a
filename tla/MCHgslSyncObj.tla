---------------------------- MODULE MCHgslSyncObj ----------------------------
(* Model-checking instance of HgslSyncObj: a point of each type, and two   *)
(* timestamps.                                                             *)
EXTENDS HgslSyncObj

EachType == <<"timestamp", "fence", "timeline", "timestamp">>
=============================================================================
