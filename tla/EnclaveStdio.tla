---------------------------- MODULE EnclaveStdio ----------------------------
(***************************************************************************)
(* A buffered stream of the C library inside the enclave, over the system  *)
(* call shim: fwrite, fread, fflush, fseek, ftell and fclose of            *)
(* src/musl-sgx/src/stdio on one FILE opened for update, __stdio_write and *)
(* __stdio_read below them, enclave_writev, enclave_readv and              *)
(* enclave_lseek (Enclave_syscalls.c) below those, and the host's file at  *)
(* the bottom.                                                             *)
(*                                                                         *)
(* The caller keeps to the rule of C for update streams: no input directly *)
(* after output and no output directly after input that did not meet the   *)
(* end, unless fflush or fseek comes between.  The FILE is used by one     *)
(* thread.  The host may write or read less than asked for and may fail.   *)
(* ungetc and putc, which does what fwrite of one byte does, are left out. *)
(***************************************************************************)
EXTENDS Bytes

CONSTANTS
    Byte,           \* the bytes of a file, as in ByteFile
    Chunks,         \* the arguments of fwrite
    Counts,         \* the lengths asked of fread
    Offsets,        \* the offsets given to fseek
    Files,          \* what the file may hold when it is opened
    NewLine,        \* '\n'
    Modes,          \* the ways setvbuf may have set the stream up
    MaxFile,        \* bound: the length of the file
    MaxCalls        \* bound: the calls made

ASSUME StdioAssumption ==
    /\ NewLine \in Byte /\ Modes \subseteq [lineBuffered : BOOLEAN, size : Nat]
    /\ MaxFile \in Nat /\ MaxCalls \in Nat
    /\ Counts \subseteq Nat \ {0} /\ Offsets \subseteq Int
    /\ Hole \in Byte /\ Chunks \subseteq Seq(Byte) \ {<<>>} /\ Files \subseteq Seq(Byte)

VARIABLES
    mode,          \* how setvbuf has set the stream up
    file, off,     \* the host's file and the offset of the descriptor
    wbuf,          \* the bytes from f->wbase to f->wpos
    writing,       \* whether f->wend is set
    rbuf,          \* the bytes from f->rpos to f->rend
    eof, err,      \* F_EOF and F_ERR
    dir,           \* history: the direction of the last transfer
    pc, call,      \* where the current call is, and its arguments
    iov,           \* the two parts __stdio_write still has to write
    need,          \* what fread still has to deliver
    got, told,     \* what the last fread delivered, the last ftell answered
    from, wrote,   \* history: if the last call was fwrite, where it started (or -1)
                   \* and what it returned
    calls          \* history: calls made

vars == <<mode, file, off, wbuf, writing, rbuf, eof, err, dir, pc, call, iov, need, got, told,
          from, wrote, calls>>
host   == <<file, off>>
flags  == <<eof, err>>
tally  == <<from, wrote>>

LineBuffered == mode.lineBuffered      \* f->lbf >= 0
BufSize      == mode.size              \* f->buf_size

\* No fwrite was the last call.
Forget == from' = -1 /\ wrote' = 0

Whence == {"SET", "CUR", "END"}
NoCall == [op |-> "none", len |-> 0, rest |-> <<>>, off |-> 0, whence |-> "SET"]

\* s[1..i] in fwrite: the part of s up to its last newline.
LastNewLine(s) ==
    LET lines == {i \in 1..Len(s) : s[i] = NewLine}
    IN  IF lines = {} THEN 0 ELSE CHOOSE i \in lines : \A j \in lines : j <= i

-----------------------------------------------------------------------------
Init ==
    /\ mode \in Modes /\ file \in Files /\ off = 0
    /\ wbuf = <<>> /\ writing = FALSE /\ rbuf = <<>>
    /\ eof = FALSE /\ err = FALSE
    /\ dir = "none" /\ pc = "idle" /\ call = NoCall /\ iov = <<<<>>, <<>>>>
    /\ need = 0 /\ got = <<>> /\ told = 0
    /\ from = -1 /\ wrote = 0 /\ calls = 0

Enter == pc = "idle" /\ calls < MaxCalls /\ calls' = calls + 1

\* A chunk one byte too long is still copied to the buffer.
ThroughOverfills(s) ==
    IF Len(s) > BufSize + 1 - Len(wbuf) THEN Len(s)
    ELSE IF LineBuffered THEN LastNewLine(s) ELSE 0

\* How much of s passes by the buffer: all of it when it does not fit, and in a
\* line-buffered stream what ends with the last newline.
Through(s) ==
    IF Len(s) > BufSize - Len(wbuf) THEN Len(s)
    ELSE IF LineBuffered THEN LastNewLine(s) ELSE 0

\* fwrite: __towrite drops the read buffer; what passes by the write buffer goes
\* to __stdio_write together with its contents.
FWrite(s) ==
    /\ Enter /\ (dir # "in" \/ eof)
    /\ off + Len(wbuf) + Len(s) <= MaxFile
    /\ LET thru == Through(s)
       IN  IF thru = 0
           THEN /\ wbuf' = wbuf \o s /\ wrote' = Len(s)
                /\ UNCHANGED <<pc, call, iov>>
           ELSE /\ iov' = <<wbuf, SubSeq(s, 1, thru)>>
                /\ call' = [NoCall EXCEPT !.op = "fwrite", !.len = thru, !.rest = Drop(s, thru)]
                /\ pc' = "writev"
                /\ UNCHANGED <<wbuf, wrote>>
    /\ rbuf' = IF writing THEN rbuf ELSE <<>>
    /\ writing' = TRUE /\ dir' = "out" /\ from' = off - Len(rbuf) + Len(wbuf)
    /\ UNCHANGED <<mode, host, flags, need, got, told>>

\* fflush, fseek and fclose write out the buffer first, if there is one.
FlushFirst(c) ==
    /\ call' = c
    /\ IF wbuf # <<>> THEN pc' = "writev" /\ iov' = <<wbuf, <<>>>>
                      ELSE pc' = "flushed" /\ iov' = iov
    /\ Forget
    /\ UNCHANGED <<mode, host, wbuf, writing, rbuf, flags, dir, need, got, told>>

FFlush == Enter /\ FlushFirst([NoCall EXCEPT !.op = "fflush"])
FClose == Enter /\ FlushFirst([NoCall EXCEPT !.op = "fclose"])

\* The unread bytes are subtracted before the flush.
FSeek(o, w) ==
    /\ Enter
    /\ o + (CASE w = "SET" -> 0 [] w = "CUR" -> off + Len(wbuf)
               [] w = "END" -> Len(Overlay(file, off, wbuf))) <= MaxFile
    /\ FlushFirst([NoCall EXCEPT !.op = "fseek", !.whence = w,
                      !.off = IF w = "CUR" THEN o - Len(rbuf) ELSE o])

FTell ==
    /\ Enter
    /\ told' = off - Len(rbuf) + Len(wbuf)
    /\ Forget
    /\ UNCHANGED <<mode, host, wbuf, writing, rbuf, flags, dir, pc, call, iov, need, got>>

\* iov after cnt more bytes were written: iov++ and iovcnt-- once cnt exceeds
\* the first part.
Advance(v, cnt) ==
    IF cnt > Len(v[1]) THEN <<Drop(v[2], cnt - Len(v[1]))>>
    ELSE <<Drop(v[1], cnt)>> \o Tail(v)

\* What __stdio_write has left to write.
Left == IF Len(iov) = 2 THEN iov[1] \o iov[2] ELSE iov[1]

\* One round of __stdio_write, through enclave_writev: some or all of what is
\* left reaches the file.
WriteV ==
    /\ pc = "writev"
    /\ \E cnt \in 1..Len(Left) :
          /\ file' = Overlay(file, off, SubSeq(Left, 1, cnt))
          /\ off' = off + cnt
          /\ IF cnt = Len(Left)
             THEN pc' = "flushed" /\ wbuf' = <<>> /\ iov' = <<<<>>, <<>>>>
             ELSE pc' = pc /\ wbuf' = wbuf /\ iov' = Advance(iov, cnt)
    /\ UNCHANGED <<mode, writing, rbuf, flags, dir, call, need, got, told, tally, calls>>

\* The bytes of the buffer count as bytes of the chunk.
ShortCountOfBuffer == IF Len(iov) = 2 THEN Len(wbuf) - Len(iov[1]) ELSE call.len - Len(iov[1])

\* What fwrite returns when writev fails.
ShortCount == IF Len(iov) = 2 THEN 0 ELSE call.len - Len(iov[1])

\* writev fails: the buffer is discarded and the call returns a short count,
\* EOF or -1; fclose closes the descriptor all the same.
WriteVFails ==
    /\ pc = "writev"
    /\ wbuf' = <<>> /\ writing' = FALSE /\ iov' = <<<<>>, <<>>>>
    /\ err' = TRUE
    /\ wrote' = IF call.op = "fwrite" THEN ShortCount ELSE wrote
    /\ pc' = IF call.op = "fclose" THEN "closed" ELSE "idle"
    /\ call' = NoCall
    /\ UNCHANGED <<mode, host, rbuf, eof, dir, need, got, told, from, calls>>

\* fwrite's memcpy of what follows the last newline.
BufferRest ==
    /\ pc = "flushed" /\ call.op = "fwrite"
    /\ wbuf' = call.rest
    /\ wrote' = call.len + Len(call.rest)
    /\ pc' = "idle" /\ call' = NoCall
    /\ UNCHANGED <<mode, host, writing, rbuf, flags, dir, iov, need, got, told, from, calls>>

\* fflush does not move the descriptor back.
SyncInPlace ==
    /\ pc = "flushed" /\ call.op \in {"fflush", "fclose"}
    /\ rbuf' = <<>> /\ wbuf' = <<>> /\ writing' = FALSE /\ dir' = "none"
    /\ pc' = IF call.op = "fclose" THEN "closed" ELSE "idle"
    /\ call' = NoCall
    /\ UNCHANGED <<mode, host, flags, iov, need, got, told, tally, calls>>

\* The rest of __fflush_unlocked: the descriptor is moved back over the bytes
\* that were read ahead; fclose then closes it.
Sync ==
    /\ pc = "flushed" /\ call.op \in {"fflush", "fclose"}
    /\ off' = off - Len(rbuf) /\ rbuf' = <<>>
    /\ wbuf' = <<>> /\ writing' = FALSE
    /\ dir' = "none"
    /\ pc' = IF call.op = "fclose" THEN "closed" ELSE "idle"
    /\ call' = NoCall
    /\ UNCHANGED <<mode, file, flags, iov, need, got, told, tally, calls>>

\* The rest of __fseeko_unlocked; the host refuses a negative offset.
LSeek ==
    /\ pc = "flushed" /\ call.op = "fseek"
    /\ wbuf' = <<>> /\ writing' = FALSE
    /\ LET to == call.off + (CASE call.whence = "SET" -> 0
                               [] call.whence = "CUR" -> off
                               [] call.whence = "END" -> Len(file))
       IN  IF to >= 0
           THEN off' = to /\ rbuf' = <<>> /\ eof' = FALSE /\ dir' = "none"
           ELSE UNCHANGED <<off, rbuf, eof, dir>>
    /\ pc' = "idle" /\ call' = NoCall
    /\ UNCHANGED <<mode, file, err, iov, need, got, told, tally, calls>>

\* fread first takes what the buffer holds.
FRead(n) ==
    /\ Enter /\ dir # "out"
    /\ LET k == IF n < Len(rbuf) THEN n ELSE Len(rbuf)
       IN  /\ got' = SubSeq(rbuf, 1, k)
           /\ rbuf' = Drop(rbuf, k)
           /\ need' = n - k
           /\ pc' = IF n = k THEN "idle" ELSE "read"
    /\ dir' = "in"
    /\ Forget
    /\ UNCHANGED <<mode, host, wbuf, writing, flags, call, iov, told>>

\* fread takes nothing for an answer.
ReadEndsIgnored ==
    /\ pc = "read" /\ eof
    /\ rbuf' = <<>> /\ writing' = FALSE /\ pc' = "idle" /\ need' = 0
    /\ UNCHANGED <<mode, host, wbuf, flags, dir, call, iov, got, told, tally, calls>>

\* __toread meets F_EOF, or __stdio_read gets nothing: fread returns short.
ReadEnds ==
    /\ pc = "read"
    /\ eof \/ off >= Len(file)
    /\ eof' = TRUE /\ rbuf' = <<>> /\ writing' = FALSE
    /\ pc' = "idle" /\ need' = 0
    /\ UNCHANGED <<mode, host, wbuf, err, dir, call, iov, got, told, tally, calls>>

\* One round of __stdio_read, through enclave_readv: need - 1 bytes go to the
\* caller, the others to the buffer, which gives the caller its last one.
ReadV ==
    /\ pc = "read" /\ ~eof
    /\ LET direct == IF BufSize > 0 THEN need - 1 ELSE need
       IN  \E cnt \in 1..(direct + BufSize) :
              /\ off + cnt <= Len(file)
              /\ LET data == SubSeq(file, off + 1, off + cnt)
                     take == IF cnt <= direct THEN cnt ELSE need
                 IN  /\ got' = got \o SubSeq(data, 1, take)
                     /\ rbuf' = Drop(data, take)
                     /\ need' = need - take
                     /\ pc' = IF need = take THEN "idle" ELSE "read"
              /\ off' = off + cnt
    /\ writing' = FALSE
    /\ UNCHANGED <<mode, file, wbuf, flags, dir, call, iov, told, tally, calls>>

\* readv fails: enclave_readv takes the negative result for a length greater
\* than it asked for and aborts the program.
ReadVFails ==
    /\ pc = "read" /\ ~eof
    /\ rbuf' = <<>> /\ writing' = FALSE
    /\ pc' = "aborted"
    /\ UNCHANGED <<mode, host, wbuf, flags, dir, call, iov, need, got, told, tally, calls>>

Call ==
    \/ \E s \in Chunks : FWrite(s)
    \/ \E n \in Counts : FRead(n)
    \/ \E o \in Offsets, w \in Whence : FSeek(o, w)
    \/ FFlush \/ FTell \/ FClose

Work == WriteV \/ BufferRest \/ Sync \/ LSeek \/ ReadEnds \/ ReadV

Next == Call \/ Work \/ WriteVFails \/ ReadVFails

\* A call that was entered runs on; the host need not fail.
Spec == Init /\ [][Next]_vars /\ WF_vars(Work)

-----------------------------------------------------------------------------
\* Refinement mapping: bytes still in the buffer, or on their way from it,
\* count as written, and bytes read ahead as not yet read.
Pending == IF pc = "writev" THEN Left ELSE wbuf

Stream == INSTANCE ByteFile WITH
             content <- Overlay(file, off, Pending),
             pos     <- off + Len(Pending) - Len(rbuf)

TypeOK ==
    /\ mode \in Modes /\ file \in Seq(Byte) /\ off \in Nat
    /\ wbuf \in Seq(Byte) /\ rbuf \in Seq(Byte) /\ got \in Seq(Byte)
    /\ Len(wbuf) <= BufSize /\ Len(rbuf) <= BufSize
    /\ writing \in BOOLEAN /\ eof \in BOOLEAN /\ err \in BOOLEAN
    /\ dir \in {"none", "in", "out"}
    /\ pc \in {"idle", "writev", "flushed", "read", "closed", "aborted"}
    /\ call \in [op : {"none", "fwrite", "fflush", "fseek", "fclose"}, len : Nat,
                 rest : Seq(Byte), off : Int, whence : Whence]
    /\ iov \in Seq(Seq(Byte)) /\ Len(iov) \in 1..2
    /\ need \in Nat /\ told \in Nat /\ from \in Nat \cup {-1} /\ wrote \in Nat /\ calls \in 0..MaxCalls

\* The stream is the file its contract describes: through buffering, partial
\* transfers and read-ahead no byte is lost, doubled or put elsewhere unless
\* ferror says so, and then only bytes from some position on.
ImplementsByteFile == Stream!FileSpec

\* The count a failing fwrite returns is the number of its bytes that reached
\* the file; zero also when bytes of earlier calls were lost before them.
CountHonest ==
    (pc = "idle" /\ from >= 0) =>
        \/ off + Len(wbuf) = from + wrote
        \/ wrote = 0 /\ off + Len(wbuf) <= from

\* Every call returns, unless the program is aborted.
CallsReturn == pc \in {"writev", "flushed", "read"} ~> pc \in {"idle", "closed", "aborted"}

\* "I/O functions return nil on failure" (Lua 5.3 manual): a read the host
\* refuses ends in a failing call, not in the end of the program.
ReadFailureReturns == pc # "aborted"
=============================================================================
