------------------------------- MODULE Bytes -------------------------------
(***************************************************************************)
(* Files as sequences of bytes.                                            *)
(***************************************************************************)
EXTENDS Integers, Sequences

CONSTANT Hole     \* the byte read from a gap left by seeking beyond the end

\* f with s written at offset o; writing nothing leaves no gap.
Overlay(f, o, s) ==
    IF s = <<>> THEN f
    ELSE [i \in 1..(IF o + Len(s) > Len(f) THEN o + Len(s) ELSE Len(f)) |->
            IF o < i /\ i <= o + Len(s) THEN s[i - o]
            ELSE IF i <= Len(f) THEN f[i] ELSE Hole]

\* s without its first n elements.
Drop(s, n) == SubSeq(s, n + 1, Len(s))
=============================================================================
