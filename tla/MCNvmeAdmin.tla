---------------------------- MODULE MCNvmeAdmin ----------------------------
(* Instance: two I/O queue pairs and the admin pair, each for one command  *)
(* at a time, so that a completion the host has taken and not rung for      *)
(* already fills its queue; a command of each kind.                         *)
EXTENDS NvmeAdmin

Misc(op, v) == [op |-> op, v |-> v]
MCMiscCmds == {Misc("SET_QUEUES", 0), Misc("SET_QUEUES", 3), Misc("SET_OTHER", 0), Misc("GET_FEATURES", 0),
               Misc("IDENTIFY", 1), Misc("IDENTIFY", 3), Misc("FW_DOWNLOAD", 1),
               Misc("FW_ACTIVATE", 0), Misc("ABORT", 0), Misc("UNKNOWN", 0)}
=============================================================================
