--------------------------- MODULE MCProcessSpawn ---------------------------
(***************************************************************************)
(* Two threads and a table of six descriptors, one of them in use: two     *)
(* concurrent calls may need more, and 0 and 1 may be given to a pipe.     *)
(***************************************************************************)
EXTENDS ProcessSpawn

CONSTANTS t1, t2
=============================================================================
