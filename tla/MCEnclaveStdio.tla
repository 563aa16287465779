--------------------------- MODULE MCEnclaveStdio ---------------------------
(***************************************************************************)
(* A small file, a buffer of two bytes or none, and calls around that      *)
(* size.  The file starts with bytes no call writes and no two neighbours  *)
(* alike, so that reading, writing and moving cannot be confused.          *)
(***************************************************************************)
EXTENDS EnclaveStdio

CONSTANTS a, b, c, d, nl, hole

MCByte    == {a, b, c, d, nl, hole}
MCChunks  == {<<a>>, <<nl, b>>, <<b, nl, a>>}
MCFiles   == {<<>>, <<c, d, c, d, c>>}
MCModes   == {[lineBuffered |-> TRUE, size |-> 2], [lineBuffered |-> FALSE, size |-> 0]}
MCOffsets == {-1, 0, 2}
=============================================================================
