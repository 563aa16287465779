------------------------------ MODULE ByteFile ------------------------------
(***************************************************************************)
(* What a C program may expect of a stream it opened for update: one       *)
(* sequence of bytes and one position, as if no buffer, no enclave and no  *)
(* host were in between.  Until a call reports a failure every byte        *)
(* written is there, and every byte read is the one at the position.       *)
(* Afterwards little is promised: Put may write any part of a chunk, and   *)
(* Lose leaves open what stands behind the position it goes back to.  How  *)
(* much a failing call reports is not said here (see CountHonest in        *)
(* EnclaveStdio).                                                          *)
(***************************************************************************)
EXTENDS Bytes

CONSTANTS
    Byte,     \* the bytes of a file
    Chunks,   \* what one fwrite may be given: non-empty sequences of bytes
    Offsets   \* the offsets fseek may be given

VARIABLES
    content,  \* the file as the program wrote it
    pos,      \* the position of the stream
    eof,      \* feof
    err,      \* ferror
    got,      \* the bytes the last fread has delivered
    told      \* what the last ftell answered

fileVars == <<content, pos, eof, err, got, told>>

FileInit ==
    /\ content \in Seq(Byte)
    /\ pos = 0 /\ eof = FALSE /\ err = FALSE /\ got = <<>> /\ told = 0

\* Some of a chunk, or all of it, is written at the position.
Put ==
    /\ \E c \in Chunks : \E m \in 1..Len(c) : \E n \in m..Len(c) :
          /\ content' = Overlay(content, pos, SubSeq(c, m, n))
          /\ pos' = pos + (n - m + 1)
    /\ UNCHANGED <<eof, err, got, told>>

\* A call to fread starts, with the bytes it finds at once.
GetFirst ==
    /\ pos' = pos \/ pos' \in pos..Len(content)
    /\ got' = SubSeq(content, pos + 1, pos')
    /\ UNCHANGED <<content, eof, err, told>>

\* More of the bytes that follow are delivered.
GetMore ==
    /\ ~eof
    /\ pos' \in (pos + 1)..Len(content)
    /\ got' = got \o SubSeq(content, pos + 1, pos')
    /\ UNCHANGED <<content, eof, err, told>>

\* Only a reader with nothing left before it meets the end.
MeetEnd ==
    /\ pos >= Len(content)
    /\ eof' = TRUE
    /\ UNCHANGED <<content, pos, err, got, told>>

Seek ==
    /\ \E o \in Offsets : pos' \in {o, pos + o, Len(content) + o}
    /\ pos' >= 0 /\ eof' = FALSE
    /\ UNCHANGED <<content, err, got, told>>

Tell == told' = pos /\ UNCHANGED <<content, pos, eof, err, got>>

\* A failed write: what it held from some position on is gone; what lies
\* before that position is kept, except that a gap nothing follows closes.
Lose ==
    /\ err' = TRUE
    /\ pos' \in 0..pos
    /\ content' \in Seq(Byte)
    /\ \A i \in 1..pos' :
          IF i <= Len(content') THEN i <= Len(content) /\ content'[i] = content[i]
                                ELSE i > Len(content) \/ content[i] = Hole
    /\ UNCHANGED <<eof, got, told>>

FileNext == Put \/ GetFirst \/ GetMore \/ MeetEnd \/ Seek \/ Tell \/ Lose

FileSpec == FileInit /\ [][FileNext]_fileVars
=============================================================================
