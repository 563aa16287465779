------------------------- MODULE EnclaveStdioProofs -------------------------
(***************************************************************************)
(* Proofs about the stream over the system call shim, for every buffer     *)
(* size and mode, all chunks, lengths and offsets, and every way the host  *)
(* may split transfers or fail: the stream implements ByteFile.            *)
(***************************************************************************)
EXTENDS EnclaveStdio, FiniteSetTheorems, SequenceTheorems, WellFoundedInduction, TLAPS

-----------------------------------------------------------------------------
(* Sequences of bytes.                                                     *)

\* A part of a sequence.
LEMMA PartProperties ==
    ASSUME NEW S, NEW s \in Seq(S), NEW m \in Nat \ {0}, NEW n \in 0 .. Len(s)
    PROVE  /\ SubSeq(s, m, n) \in Seq(S)
           /\ Len(SubSeq(s, m, n)) = IF m <= n THEN n - m + 1 ELSE 0
           /\ \A i \in 1 .. n - m + 1 : SubSeq(s, m, n)[i] = s[m + i - 1]
<1>1. \A i \in m .. n : s[i] \in S
  OBVIOUS
<1>2. m \in Int /\ n \in Int
  OBVIOUS
<1> QED
  BY <1>1, <1>2, SubSeqProperties

\* Drop leaves the end of a sequence.
LEMMA DropProperties ==
    ASSUME NEW S, NEW s \in Seq(S), NEW n \in 0 .. Len(s)
    PROVE  /\ Drop(s, n) \in Seq(S) /\ Len(Drop(s, n)) = Len(s) - n
           /\ \A i \in 1 .. Len(s) - n : Drop(s, n)[i] = s[n + i]
           /\ n = Len(s) => Drop(s, n) = <<>>
<1>1. n + 1 \in Nat \ {0} /\ Len(s) \in 0 .. Len(s) /\ n \in Nat /\ Len(s) \in Nat
  OBVIOUS
<1>2. /\ Drop(s, n) \in Seq(S)
      /\ Len(Drop(s, n)) = IF n + 1 <= Len(s) THEN Len(s) - (n + 1) + 1 ELSE 0
      /\ \A i \in 1 .. Len(s) - (n + 1) + 1 : Drop(s, n)[i] = s[(n + 1) + i - 1]
  BY <1>1, PartProperties DEF Drop
<1>3. Len(Drop(s, n)) = Len(s) - n
  BY <1>1, <1>2
<1>4. n = Len(s) => Drop(s, n) = <<>>
  BY <1>1, <1>2, <1>3, EmptySeq
<1> QED
  BY <1>1, <1>2, <1>3, <1>4

\* The first n elements and the others make up the sequence.
LEMMA SplitProperties ==
    ASSUME NEW S, NEW s \in Seq(S), NEW n \in 0 .. Len(s)
    PROVE  SubSeq(s, 1, n) \o Drop(s, n) = s
<1> DEFINE p == SubSeq(s, 1, n)
           d == Drop(s, n)
<1>1. p \in Seq(S) /\ Len(p) = n /\ \A i \in 1 .. n : p[i] = s[i]
  <2>1. 1 \in Nat \ {0} /\ n \in Nat
    OBVIOUS
  <2> QED
    BY <2>1, PartProperties
<1>2. d \in Seq(S) /\ Len(d) = Len(s) - n /\ \A i \in 1 .. Len(s) - n : d[i] = s[n + i]
  BY DropProperties
<1> HIDE DEF p, d
<1>3. /\ p \o d \in Seq(S) /\ Len(p \o d) = n + (Len(s) - n)
      /\ \A i \in 1 .. n + (Len(s) - n) : (p \o d)[i] = IF i <= n THEN p[i] ELSE d[i - n]
  BY <1>1, <1>2, ConcatProperties
<1>4. Len(p \o d) = Len(s) /\ n \in Nat /\ Len(s) \in Nat
  BY <1>3
<1>5. ASSUME NEW i \in 1 .. Len(p \o d) PROVE (p \o d)[i] = s[i]
  BY <1>1, <1>2, <1>3, <1>4
<1>6. p \o d = s
  BY <1>3, <1>4, <1>5, SeqEqual
<1> QED
  BY <1>6 DEF p, d

\* Writing s at o.
LEMMA OverlayProperties ==
    ASSUME NEW f \in Seq(Byte), NEW o \in Nat, NEW s \in Seq(Byte)
    PROVE  /\ Overlay(f, o, s) \in Seq(Byte)
           /\ s = <<>> => Overlay(f, o, s) = f
           /\ s # <<>> =>
                /\ Len(Overlay(f, o, s)) = IF o + Len(s) > Len(f) THEN o + Len(s) ELSE Len(f)
                /\ \A i \in 1 .. Len(Overlay(f, o, s)) :
                      Overlay(f, o, s)[i] = IF o < i /\ i <= o + Len(s) THEN s[i - o]
                                            ELSE IF i <= Len(f) THEN f[i] ELSE Hole
<1>1. CASE s = <<>>
  BY <1>1 DEF Overlay
<1>2. CASE s # <<>>
  <2> DEFINE n == IF o + Len(s) > Len(f) THEN o + Len(s) ELSE Len(f)
             E(i) == IF o < i /\ i <= o + Len(s) THEN s[i - o] ELSE IF i <= Len(f) THEN f[i] ELSE Hole
             v == [i \in 1 .. n |-> E(i)]
  <2>1. Overlay(f, o, s) = v
    BY <1>2 DEF Overlay
  <2>2. n \in Nat /\ Len(s) \in Nat /\ Len(f) \in Nat
    OBVIOUS
  <2>3. ASSUME NEW i \in 1 .. n PROVE E(i) \in Byte
    <3>1. CASE o < i /\ i <= o + Len(s)
      <4>1. i - o \in 1 .. Len(s)
        BY <2>2, <3>1
      <4> QED
        BY <3>1, <4>1
    <3>2. CASE ~(o < i /\ i <= o + Len(s)) /\ i <= Len(f)
      <4>1. i \in 1 .. Len(f)
        BY <2>2, <3>2
      <4> QED
        BY <3>2, <4>1
    <3>3. CASE ~(o < i /\ i <= o + Len(s)) /\ ~(i <= Len(f))
      BY <3>3, StdioAssumption
    <3> QED
      BY <3>1, <3>2, <3>3
  <2> HIDE DEF n, E
  <2>4. v \in [1 .. n -> Byte]
    BY <2>3
  <2>5. v \in Seq(Byte) /\ Len(v) = n
    BY <2>2, <2>4
  <2>6. \A i \in 1 .. n : v[i] = E(i)
    OBVIOUS
  <2> HIDE DEF v
  <2> QED
    BY <1>2, <2>1, <2>5, <2>6 DEF n, E
<1> QED
  BY <1>1, <1>2

\* Writing s and then t behind it is writing both.
LEMMA OverlayConcat ==
    ASSUME NEW f \in Seq(Byte), NEW o \in Nat, NEW s \in Seq(Byte), NEW t \in Seq(Byte)
    PROVE  Overlay(Overlay(f, o, s), o + Len(s), t) = Overlay(f, o, s \o t)
<1>1. CASE s = <<>>
  <2>1. s \o t = t /\ Len(s) = 0 /\ Overlay(f, o, s) = f
    BY <1>1, ConcatEmptySeq, OverlayProperties
  <2> QED
    BY <2>1
<1>2. CASE t = <<>>
  <2>1. s \o t = s
    BY <1>2, ConcatEmptySeq
  <2>2. Overlay(f, o, s) \in Seq(Byte) /\ o + Len(s) \in Nat
    BY OverlayProperties
  <2> DEFINE g == Overlay(f, o, s)
  <2>3. g \in Seq(Byte)
    BY <2>2
  <2> HIDE DEF g
  <2>4. Overlay(g, o + Len(s), t) = g
    BY <1>2, <2>2, <2>3, OverlayProperties
  <2> QED
    BY <2>1, <2>4 DEF g
<1>3. CASE s # <<>> /\ t # <<>>
  <2> DEFINE g == Overlay(f, o, s)
             p == o + Len(s)
             u == s \o t
             x == Overlay(g, p, t)
             y == Overlay(f, o, u)
  <2>1. /\ Len(s) \in Nat \ {0} /\ Len(t) \in Nat \ {0} /\ Len(f) \in Nat /\ p \in Nat
    BY <1>3, EmptySeq
  <2>2. /\ u \in Seq(Byte) /\ Len(u) = Len(s) + Len(t) /\ u # <<>>
        /\ \A i \in 1 .. Len(s) + Len(t) : u[i] = IF i <= Len(s) THEN s[i] ELSE t[i - Len(s)]
    BY <1>3, <2>1, ConcatProperties, EmptySeq
  <2>3. /\ g \in Seq(Byte) /\ Len(g) = IF o + Len(s) > Len(f) THEN o + Len(s) ELSE Len(f)
        /\ \A i \in 1 .. Len(g) : g[i] = IF o < i /\ i <= o + Len(s) THEN s[i - o]
                                         ELSE IF i <= Len(f) THEN f[i] ELSE Hole
    BY <1>3, OverlayProperties
  <2> HIDE DEF u, g
  <2>4. /\ x \in Seq(Byte) /\ Len(x) = IF p + Len(t) > Len(g) THEN p + Len(t) ELSE Len(g)
        /\ \A i \in 1 .. Len(x) : x[i] = IF p < i /\ i <= p + Len(t) THEN t[i - p]
                                         ELSE IF i <= Len(g) THEN g[i] ELSE Hole
    BY <1>3, <2>1, <2>3, OverlayProperties
  <2>5. /\ y \in Seq(Byte) /\ Len(y) = IF o + Len(u) > Len(f) THEN o + Len(u) ELSE Len(f)
        /\ \A i \in 1 .. Len(y) : y[i] = IF o < i /\ i <= o + Len(u) THEN u[i - o]
                                         ELSE IF i <= Len(f) THEN f[i] ELSE Hole
    BY <2>2, OverlayProperties
  <2> HIDE DEF x, y
  <2>6. Len(x) = Len(y) /\ Len(x) \in Nat
    BY <2>1, <2>2, <2>3, <2>4, <2>5
  <2>7. ASSUME NEW i \in 1 .. Len(x) PROVE x[i] = y[i]
    <3>0. i \in Nat /\ i >= 1
      OBVIOUS
    <3>1. CASE p < i /\ i <= p + Len(t)
      <4>1. i - o \in 1 .. Len(s) + Len(t) /\ ~(i - o <= Len(s)) /\ (i - o) - Len(s) = i - p
        BY <2>1, <3>0, <3>1
      <4>2. x[i] = t[i - p]
        BY <2>4, <3>1
      <4>3. y[i] = u[i - o]
        BY <2>1, <2>2, <2>5, <2>6, <3>0, <3>1
      <4>4. u[i - o] = t[(i - o) - Len(s)]
        BY <2>2, <4>1
      <4> QED
        BY <4>1, <4>2, <4>3, <4>4
    <3>2. CASE o < i /\ i <= p
      <4>1. i - o \in 1 .. Len(s) + Len(t) /\ i - o <= Len(s) /\ i \in 1 .. Len(g)
        BY <2>1, <2>3, <3>0, <3>2
      <4>2. x[i] = g[i]
        BY <2>1, <2>4, <3>0, <3>2, <4>1
      <4>3. g[i] = s[i - o]
        BY <2>3, <3>2, <4>1
      <4>4. y[i] = u[i - o]
        BY <2>1, <2>2, <2>5, <2>6, <3>0, <3>2
      <4> QED
        BY <2>2, <4>1, <4>2, <4>3, <4>4
    <3>3. CASE i <= o \/ p + Len(t) < i
      <4>1. y[i] = IF i <= Len(f) THEN f[i] ELSE Hole
        BY <2>1, <2>2, <2>5, <2>6, <3>0, <3>3
      <4>2. x[i] = IF i <= Len(g) THEN g[i] ELSE Hole
        <5>1. ~(p < i /\ i <= p + Len(t))
          BY <2>1, <3>0, <3>3
        <5> QED
          BY <2>4, <5>1
      <4>3. i <= Len(g) => g[i] = IF i <= Len(f) THEN f[i] ELSE Hole
        BY <2>1, <2>3, <3>0, <3>3
      <4>4. ~(i <= Len(g)) => ~(i <= Len(f))
        BY <2>1, <2>3, <3>0
      <4> QED
        BY <4>1, <4>2, <4>3, <4>4
    <3> QED
      BY <2>1, <3>0, <3>1, <3>2, <3>3
  <2>8. x = y
    BY <2>4, <2>5, <2>6, <2>7, SeqEqual
  <2> QED
    BY <2>8 DEF x, y, g, u
<1> QED
  BY <1>1, <1>2, <1>3

\* A finite non-empty set of numbers has a greatest one: of the sets of numbers
\* above one of its members one is minimal.
LEMMA GreatestMember ==
    ASSUME NEW S, S \subseteq Nat, IsFiniteSet(S), S # {}
    PROVE  \E x \in S : \A y \in S : y <= x
<1> DEFINE Above == {{z \in S : x <= z} : x \in S}
<1>1. Above \subseteq SUBSET S /\ Above # {}
  OBVIOUS
<1>2. \A B \in Above : IsFiniteSet(B)
  BY <1>1, FS_Subset
<1>3. PICK B \in Above : \A C \in Above : ~(<<C, B>> \in StrictSubsetOrdering(S))
  <2> HIDE DEF Above
  <2>1. Above \subseteq FiniteSubsetsOf(S)
    BY <1>1, <1>2 DEF FiniteSubsetsOf
  <2> QED
    BY <1>1, <2>1, WFMin, FS_StrictSubsetOrderingWellFounded
<1>4. PICK x \in S : B = {z \in S : x <= z}
  OBVIOUS
<1>5. ASSUME NEW y \in S, x < y PROVE FALSE
  <2> DEFINE C == {z \in S : y <= z}
  <2>1. C \in Above
    OBVIOUS
  <2>2. x \in Nat /\ y \in Nat /\ S \subseteq Nat
    OBVIOUS
  <2>3. \A z \in S : y <= z => x <= z
    BY <2>2, <1>5
  <2>4. C \subseteq B
    BY <2>3, <1>4
  <2>5. x \in B /\ x \notin C
    BY <2>2, <1>4, <1>5
  <2> QED
    BY <2>1, <2>4, <2>5, <1>3, <1>1 DEF StrictSubsetOrdering
<1> QED
  BY <1>5

\* What passes by the buffer is a part of the chunk, and the rest fits.
LEMMA ThroughRange ==
    ASSUME NEW s \in Seq(Byte), s # <<>>, BufSize \in Nat, Len(wbuf) \in Nat
    PROVE  /\ Through(s) \in 0 .. Len(s)
           /\ Len(Drop(s, Through(s))) <= BufSize
           /\ Through(s) = 0 => Len(wbuf) + Len(s) <= BufSize
<1>1. Len(s) \in Nat \ {0}
  BY EmptySeq
<1>2. LastNewLine(s) \in 0 .. Len(s)
  <2> DEFINE lines == {i \in 1 .. Len(s) : s[i] = NewLine}
  <2>1. CASE lines = {}
    BY <1>1, <2>1 DEF LastNewLine
  <2>2. CASE lines # {}
    <3>1. lines \subseteq Nat /\ IsFiniteSet(lines)
      <4>1. IsFiniteSet(1 .. Len(s)) /\ lines \in SUBSET (1 .. Len(s))
        BY <1>1, FS_Interval
      <4> QED
        BY <4>1, FS_Subset
    <3>2. \E i \in lines : \A j \in lines : j <= i
      BY <2>2, <3>1, GreatestMember
    <3>3. LastNewLine(s) \in lines
      BY <2>2, <3>2 DEF LastNewLine
    <3> QED
      BY <1>1, <3>3
  <2> QED
    BY <2>1, <2>2
<1>3. Through(s) \in 0 .. Len(s)
  BY <1>1, <1>2 DEF Through
<1>4. Len(Drop(s, Through(s))) = Len(s) - Through(s)
  BY <1>3, DropProperties
<1>5. CASE Len(s) > BufSize - Len(wbuf)
  <2>1. Through(s) = Len(s)
    BY <1>5 DEF Through
  <2> QED
    BY <1>1, <1>3, <1>4, <2>1
<1>6. CASE ~(Len(s) > BufSize - Len(wbuf))
  BY <1>1, <1>3, <1>4, <1>6
<1> QED
  BY <1>5, <1>6

\* All of a sequence.
LEMMA WholeProperties ==
    ASSUME NEW S, NEW s \in Seq(S)
    PROVE  SubSeq(s, 1, Len(s)) = s
<1>1. Len(s) \in 0 .. Len(s) /\ 1 \in Nat \ {0}
  OBVIOUS
<1>2. SubSeq(s, 1, Len(s)) \in Seq(S) /\ SubSeq(s, 1, Len(s)) \o Drop(s, Len(s)) = s
  BY <1>1, SplitProperties, PartProperties
<1>3. Drop(s, Len(s)) = <<>>
  BY <1>1, DropProperties
<1> QED
  BY <1>2, <1>3, ConcatEmptySeq

\* A sequence of one or two parts.
LEMMA PartsProperties ==
    ASSUME NEW S, NEW s \in S, NEW t \in S
    PROVE  /\ <<s>> \in Seq(S) /\ Len(<<s>>) = 1 /\ <<s>>[1] = s
           /\ <<s, t>> \in Seq(S) /\ Len(<<s, t>>) = 2 /\ <<s, t>>[1] = s /\ <<s, t>>[2] = t
           /\ <<s>> \o <<t>> = <<s, t>>
<1>1. /\ <<s>> \in Seq(S) /\ Len(<<s>>) = 1 /\ <<s>>[1] = s
      /\ <<t>> \in Seq(S) /\ Len(<<t>>) = 1 /\ <<t>>[1] = t
      /\ <<s, t>> \in Seq(S) /\ Len(<<s, t>>) = 2 /\ <<s, t>>[1] = s /\ <<s, t>>[2] = t
  OBVIOUS
<1> DEFINE a == <<s>>
           b == <<t>>
           c == <<s, t>>
<1> HIDE DEF a, b, c
<1>2. /\ a \in Seq(S) /\ Len(a) = 1 /\ a[1] = s /\ b \in Seq(S) /\ Len(b) = 1 /\ b[1] = t
      /\ c \in Seq(S) /\ Len(c) = 2 /\ c[1] = s /\ c[2] = t
  BY <1>1 DEF a, b, c
<1>3. /\ a \o b \in Seq(S) /\ Len(a \o b) = Len(a) + Len(b)
      /\ \A i \in 1 .. Len(a) + Len(b) : (a \o b)[i] = IF i <= Len(a) THEN a[i] ELSE b[i - Len(a)]
  BY <1>2, ConcatProperties
<1>4. \A i \in 1 .. Len(c) : (a \o b)[i] = c[i]
  BY <1>2, <1>3
<1>5. a \o b = c
  BY <1>2, <1>3, <1>4, SeqEqual
<1> QED
  BY <1>1, <1>5 DEF a, b, c

\* The parts of a sequence of one or two.
LEMMA PartsOf ==
    ASSUME NEW S, NEW v \in Seq(S)
    PROVE  /\ Len(v) = 1 => v[1] \in S /\ Tail(v) = <<>>
           /\ Len(v) = 2 => v[1] \in S /\ v[2] \in S /\ Tail(v) = <<v[2]>>
<1>1. Len(v) = 1 => v[1] \in S
  OBVIOUS
<1>2. Len(v) = 2 => v[1] \in S /\ v[2] \in S
  OBVIOUS
<1>3. v # <<>> => /\ Tail(v) \in Seq(S) /\ Len(Tail(v)) = Len(v) - 1
                  /\ \A i \in 1 .. Len(Tail(v)) : Tail(v)[i] = v[i + 1]
  BY HeadTailProperties
<1>4. Len(v) \in {1, 2} => v # <<>>
  BY EmptySeq
<1>5. Len(v) = 1 => Tail(v) = <<>>
  <2> DEFINE w == Tail(v)
  <2> HIDE DEF w
  <2>1. w \in Seq(S) /\ Len(w) = 0 => w = <<>>
    BY EmptySeq
  <2> QED
    BY <1>3, <1>4, <2>1 DEF w
<1>6. ASSUME Len(v) = 2 PROVE Tail(v) = <<v[2]>>
  <2> DEFINE w == Tail(v)
             u == <<v[2]>>
  <2>1. w \in Seq(S) /\ Len(w) = 1 /\ w[1] = v[2]
    BY <1>3, <1>4, <1>6
  <2>2. u \in Seq(S) /\ Len(u) = 1 /\ u[1] = v[2]
    BY <1>2, <1>6
  <2> HIDE DEF w, u
  <2>3. \A i \in 1 .. Len(w) : w[i] = u[i]
    BY <2>1, <2>2
  <2>4. w = u
    BY <2>1, <2>2, <2>3, SeqEqual
  <2> QED
    BY <2>4 DEF w, u
<1> QED
  BY <1>1, <1>2, <1>5, <1>6

\* What an iov still holds.
Rest(v) == IF Len(v) = 2 THEN v[1] \o v[2] ELSE v[1]

\* Advance leaves a valid iov of what was not written, and its second part
\* stays whole as long as it is the second.
LEMMA AdvanceProperties ==
    ASSUME NEW v \in Seq(Seq(Byte)), Len(v) \in 1 .. 2,
           NEW n \in Nat \ {0}, n < Len(Rest(v))
    PROVE  /\ Advance(v, n) \in Seq(Seq(Byte)) /\ Len(Advance(v, n)) \in 1 .. 2
           /\ Rest(Advance(v, n)) = Drop(Rest(v), n)
           /\ Len(Advance(v, n)) = 2 =>
                 Len(v) = 2 /\ Advance(v, n)[2] = v[2] /\ Len(Advance(v, n)[1]) = Len(v[1]) - n
           /\ Len(Advance(v, n)) = 1 => Len(Advance(v, n)[1]) = Len(Rest(v)) - n
<1>1. CASE Len(v) = 1
  <2>1. v[1] \in Seq(Byte) /\ Rest(v) = v[1] /\ Tail(v) = <<>>
    BY <1>1, PartsOf DEF Rest
  <2> DEFINE s == v[1]
             d == Drop(s, n)
  <2>2. s \in Seq(Byte) /\ Len(s) \in Nat /\ n \in 0 .. Len(s) /\ ~(n > Len(s))
    BY <2>1
  <2>3. d \in Seq(Byte) /\ Len(d) = Len(s) - n
    <3> HIDE DEF s
    <3> QED
      BY <2>2, DropProperties
  <2>4. Advance(v, n) = <<d>> \o <<>>
    BY <2>1, <2>2 DEF Advance
  <2> HIDE DEF d
  <2>5. /\ <<d>> \in Seq(Seq(Byte)) /\ Len(<<d>>) = 1 /\ <<d>>[1] = d
    BY <2>3, PartsProperties
  <2>6. Advance(v, n) = <<d>>
    BY <2>4, <2>5, ConcatEmptySeq
  <2>7. Rest(<<d>>) = d
    BY <2>5 DEF Rest
  <2> QED
    BY <1>1, <2>1, <2>3, <2>5, <2>6, <2>7 DEF d
<1>2. CASE Len(v) = 2
  <2> DEFINE s == v[1]
             t == v[2]
  <2>1. s \in Seq(Byte) /\ t \in Seq(Byte) /\ Rest(v) = s \o t /\ Tail(v) = <<t>>
    BY <1>2, PartsOf DEF Rest
  <2> HIDE DEF s, t
  <2>2. /\ Len(s) \in Nat /\ Len(t) \in Nat
        /\ s \o t \in Seq(Byte) /\ Len(s \o t) = Len(s) + Len(t)
        /\ \A i \in 1 .. Len(s) + Len(t) : (s \o t)[i] = IF i <= Len(s) THEN s[i] ELSE t[i - Len(s)]
    BY <2>1, ConcatProperties
  <2>3. n \in 0 .. Len(s \o t)
    BY <2>1, <2>2
  <2>4. /\ Drop(s \o t, n) \in Seq(Byte) /\ Len(Drop(s \o t, n)) = Len(s) + Len(t) - n
        /\ \A i \in 1 .. Len(s) + Len(t) - n : Drop(s \o t, n)[i] = (s \o t)[n + i]
    <3> DEFINE u == s \o t
    <3>1. u \in Seq(Byte) /\ Len(u) = Len(s) + Len(t) /\ n \in 0 .. Len(u)
      BY <2>2, <2>3
    <3> HIDE DEF u
    <3>2. /\ Drop(u, n) \in Seq(Byte) /\ Len(Drop(u, n)) = Len(u) - n
          /\ \A i \in 1 .. Len(u) - n : Drop(u, n)[i] = u[n + i]
      BY <3>1, DropProperties
    <3> QED
      BY <3>1, <3>2 DEF u
  <2>5. CASE n > Len(s)
    <3> DEFINE k == n - Len(s)
               d == Drop(t, k)
    <3>1. k \in 0 .. Len(t) /\ k \in Nat
      BY <2>2, <2>3, <2>5
    <3>2. d \in Seq(Byte) /\ Len(d) = Len(t) - k /\ \A i \in 1 .. Len(t) - k : d[i] = t[k + i]
      BY <2>1, <3>1, DropProperties
    <3>3. Advance(v, n) = <<d>>
      BY <2>5 DEF Advance, s, t
    <3> HIDE DEF d
    <3>4. /\ <<d>> \in Seq(Seq(Byte)) /\ Len(<<d>>) = 1 /\ <<d>>[1] = d
      BY <3>2, PartsProperties
    <3>5. Rest(<<d>>) = d
      BY <3>4 DEF Rest
    <3>6. ASSUME NEW i \in 1 .. Len(t) - k PROVE Drop(s \o t, n)[i] = d[i]
      <4>1. /\ i \in 1 .. Len(s) + Len(t) - n /\ n + i \in 1 .. Len(s) + Len(t)
            /\ ~(n + i <= Len(s)) /\ (n + i) - Len(s) = k + i
        BY <2>2, <2>3, <2>5, <3>1
      <4> HIDE DEF k
      <4>2. Drop(s \o t, n)[i] = (s \o t)[n + i]
        BY <2>4, <4>1
      <4>3. (s \o t)[n + i] = t[k + i]
        BY <2>2, <4>1
      <4> QED
        BY <3>2, <4>2, <4>3
    <3>7. Len(d) = Len(Drop(s \o t, n)) /\ Len(d) = Len(t) - k
      BY <2>2, <2>4, <3>2
    <3>8. Drop(s \o t, n) = d
      BY <2>4, <3>2, <3>6, <3>7, SeqEqual
    <3>9. Len(d) = Len(Rest(v)) - n
      BY <2>1, <2>2, <3>1, <3>7
    <3> QED
      BY <2>1, <3>3, <3>4, <3>5, <3>8, <3>9
  <2>6. CASE ~(n > Len(s))
    <3> DEFINE d == Drop(s, n)
    <3>1. n \in 0 .. Len(s)
      BY <2>2, <2>6
    <3>2. d \in Seq(Byte) /\ Len(d) = Len(s) - n /\ \A i \in 1 .. Len(s) - n : d[i] = s[n + i]
      BY <2>1, <3>1, DropProperties
    <3>3. Advance(v, n) = <<d>> \o <<t>>
      BY <2>1, <2>6 DEF Advance, s, t
    <3> HIDE DEF d
    <3>4. <<d>> \o <<t>> = <<d, t>>
      BY <2>1, <3>2, PartsProperties
    <3>5. /\ <<d, t>> \in Seq(Seq(Byte)) /\ Len(<<d, t>>) = 2 /\ <<d, t>>[1] = d /\ <<d, t>>[2] = t
      BY <2>1, <3>2, PartsProperties
    <3>6. Rest(<<d, t>>) = d \o t
      BY <3>5 DEF Rest
    <3>7. /\ d \o t \in Seq(Byte) /\ Len(d \o t) = Len(d) + Len(t)
          /\ \A i \in 1 .. Len(d) + Len(t) : (d \o t)[i] = IF i <= Len(d) THEN d[i] ELSE t[i - Len(d)]
      BY <2>1, <3>2, ConcatProperties
    <3>8. ASSUME NEW i \in 1 .. Len(s) + Len(t) - n PROVE Drop(s \o t, n)[i] = (d \o t)[i]
      <4>1. n + i \in 1 .. Len(s) + Len(t) /\ i \in 1 .. Len(d) + Len(t) /\ i \in Nat
        BY <2>2, <2>3, <3>2
      <4>2. Drop(s \o t, n)[i] = (s \o t)[n + i]
        BY <2>4
      <4>3. CASE i <= Len(d)
        <5>1. i \in 1 .. Len(s) - n /\ n + i <= Len(s)
          BY <2>2, <3>1, <3>2, <4>1, <4>3
        <5>2. (s \o t)[n + i] = s[n + i]
          BY <2>2, <4>1, <5>1
        <5>3. (d \o t)[i] = d[i]
          BY <3>7, <4>1, <4>3
        <5> QED
          BY <3>2, <4>2, <5>1, <5>2, <5>3
      <4>4. CASE ~(i <= Len(d))
        <5>1. ~(n + i <= Len(s)) /\ (n + i) - Len(s) = i - Len(d)
          BY <2>2, <3>1, <3>2, <4>1, <4>4
        <5>2. (s \o t)[n + i] = t[(n + i) - Len(s)]
          BY <2>2, <4>1, <5>1
        <5>3. (d \o t)[i] = t[i - Len(d)]
          BY <3>7, <4>1, <4>4
        <5> QED
          BY <4>2, <5>1, <5>2, <5>3
      <4> QED
        BY <4>3, <4>4
    <3>9. Len(d \o t) = Len(Drop(s \o t, n)) /\ Len(d \o t) = Len(s) + Len(t) - n
      BY <2>2, <2>4, <3>1, <3>2, <3>7
    <3>10. Drop(s \o t, n) = d \o t
      BY <2>4, <3>7, <3>8, <3>9, SeqEqual
    <3>11. Advance(v, n) = <<d, t>> /\ Len(d) = Len(s) - n /\ Rest(<<d, t>>) = Drop(Rest(v), n)
      BY <2>1, <3>2, <3>3, <3>4, <3>6, <3>10
    <3> QED
      BY <1>2, <3>5, <3>11 DEF s, t
  <2> QED
    BY <2>2, <2>5, <2>6
<1> QED
  BY <1>1, <1>2

-----------------------------------------------------------------------------
(* The inductive invariant.                                                *)

\* The two halves of the buffer are never in use together.
Direction ==
    /\ writing => dir = "out"
    /\ dir # "in" \/ eof => rbuf = <<>>
    /\ wbuf # <<>> => writing

\* The bytes read ahead are those before the descriptor's offset.
ReadAhead ==
    /\ Len(rbuf) <= off
    /\ rbuf # <<>> => off <= Len(file)
    /\ \A i \in 1 .. Len(rbuf) : rbuf[i] = file[(off - Len(rbuf)) + i]

\* An fwrite on its way to the host: how far it is and where it started.
FWriting ==
    /\ writing /\ from >= 0
    /\ \E s \in Chunks : call.len \in 1 .. Len(s) /\ call.rest = Drop(s, call.len)
    /\ Len(call.rest) <= BufSize
    /\ pc = "writev" =>
          /\ Len(iov) = 2 => off + Len(iov[1]) = from /\ Len(iov[2]) = call.len
          /\ Len(iov) = 1 => off + Len(iov[1]) = from + call.len /\ Len(iov[1]) <= call.len
    /\ pc = "flushed" => off = from + call.len

\* What is true at each stage of a call.
Calling ==
    /\ pc = "read" => need > 0 /\ rbuf = <<>> /\ wbuf = <<>> /\ ~writing /\ dir = "in" /\ from = -1
    /\ pc = "writev" => Left # <<>> /\ rbuf = <<>> /\ writing
    /\ pc = "flushed" => wbuf = <<>>
    /\ pc \notin {"writev", "flushed"} => call = NoCall
    /\ pc \in {"writev", "flushed"} => call.op # "none"
    /\ call.op = "fwrite" => FWriting
    /\ call.op \in {"fflush", "fseek", "fclose"} => from = -1
    /\ call.op = "fseek" =>
          \E o \in Offsets : call.off = IF call.whence = "CUR" THEN o - Len(rbuf) ELSE o

IInv == TypeOK /\ Direction /\ ReadAhead /\ Calling /\ CountHonest

\* No call is empty of arguments it does not have.
LEMMA NoCallProperties ==
    /\ NoCall \in [op : {"none", "fwrite", "fflush", "fseek", "fclose"}, len : Nat,
                   rest : Seq(Byte), off : Int, whence : Whence]
    /\ NoCall = [op |-> "none", len |-> 0, rest |-> <<>>, off |-> 0, whence |-> "SET"]
    /\ NoCall.op = "none" /\ NoCall.len = 0 /\ NoCall.rest = <<>>
BY DEF NoCall, Whence

\* Left is what the iov holds.
LEMMA LeftProperties ==
    ASSUME TypeOK
    PROVE  Left = Rest(iov) /\ Left \in Seq(Byte) /\ Len(Left) \in Nat
<1>1. Left = Rest(iov)
  BY DEF Left, Rest
<1>2. CASE Len(iov) = 1
  <2>1. iov[1] \in Seq(Byte)
    BY <1>2, PartsOf DEF TypeOK
  <2> QED
    BY <1>1, <1>2, <2>1 DEF Rest
<1>3. CASE Len(iov) = 2
  <2>1. iov[1] \in Seq(Byte) /\ iov[2] \in Seq(Byte)
    BY <1>3, PartsOf DEF TypeOK
  <2> QED
    BY <1>1, <1>3, <2>1, ConcatProperties DEF Rest
<1> QED
  BY <1>1, <1>2, <1>3 DEF TypeOK

\* Nothing read ahead.
LEMMA NothingAhead ==
    ASSUME rbuf = <<>>, off \in Nat
    PROVE  ReadAhead /\ Len(rbuf) = 0
<1>1. Len(<<>>) = 0
  BY EmptySeq
<1> QED
  BY <1>1 DEF ReadAhead

\* Outside a write only a read has something to remember.
LEMMA BetweenCalls ==
    ASSUME pc \notin {"writev", "flushed"}, call = NoCall,
           pc = "read" => need > 0 /\ rbuf = <<>> /\ wbuf = <<>> /\ ~writing /\ dir = "in" /\ from = -1
    PROVE  Calling
BY NoCallProperties DEF Calling

-----------------------------------------------------------------------------
(* The type invariant in parts.                                            *)

IovSet  == {v \in Seq(Seq(Byte)) : Len(v) \in 1 .. 2}
CallSet == [op : {"none", "fwrite", "fflush", "fseek", "fclose"}, len : Nat,
            rest : Seq(Byte), off : Int, whence : Whence]

HostType   == mode \in Modes /\ file \in Seq(Byte) /\ off \in Nat
BufferType == /\ wbuf \in Seq(Byte) /\ rbuf \in Seq(Byte)
              /\ Len(wbuf) <= BufSize /\ Len(rbuf) <= BufSize
FlagType   == writing \in BOOLEAN /\ eof \in BOOLEAN /\ err \in BOOLEAN /\ dir \in {"none", "in", "out"}
StageType  == /\ pc \in {"idle", "writev", "flushed", "read", "closed", "aborted"}
              /\ call \in CallSet /\ iov \in IovSet
ResultType == /\ got \in Seq(Byte) /\ need \in Nat /\ told \in Nat
              /\ from \in Nat \cup {-1} /\ wrote \in Nat /\ calls \in 0 .. MaxCalls

\* The type invariant is the conjunction of its parts.
LEMMA TypeParts ==
    TypeOK <=> HostType /\ BufferType /\ FlagType /\ StageType /\ ResultType
<1>1. iov \in IovSet <=> iov \in Seq(Seq(Byte)) /\ Len(iov) \in 1 .. 2
  BY DEF IovSet
<1> QED
  BY <1>1 DEF TypeOK, HostType, BufferType, FlagType, StageType, ResultType, CallSet

\* So it is in the next state.
LEMMA TypePartsNext ==
    TypeOK' <=> (HostType /\ BufferType /\ FlagType /\ StageType /\ ResultType)'
BY TypeParts, PTL

\* The lengths in a well-typed state.
LEMMA Lengths ==
    ASSUME TypeOK
    PROVE  /\ BufSize \in Nat /\ off \in Nat /\ MaxCalls \in Nat
           /\ wbuf \in Seq(Byte) /\ rbuf \in Seq(Byte) /\ file \in Seq(Byte)
           /\ Len(wbuf) \in Nat /\ Len(rbuf) \in Nat /\ Len(file) \in Nat
<1>1. /\ mode \in Modes /\ off \in Nat
      /\ wbuf \in Seq(Byte) /\ rbuf \in Seq(Byte) /\ file \in Seq(Byte)
  BY TypeParts DEF HostType, BufferType
<1>2. Modes \subseteq [lineBuffered : BOOLEAN, size : Nat] /\ MaxCalls \in Nat
  BY StdioAssumption
<1>3. BufSize \in Nat
  BY <1>1, <1>2 DEF BufSize
<1> QED
  BY <1>1, <1>2, <1>3

\* A one- or two-part iov.
LEMMA IovProperties ==
    ASSUME NEW s \in Seq(Byte), NEW t \in Seq(Byte)
    PROVE  /\ <<s>> \in IovSet /\ Len(<<s>>) = 1 /\ <<s>>[1] = s
           /\ <<s, t>> \in IovSet /\ Len(<<s, t>>) = 2 /\ <<s, t>>[1] = s /\ <<s, t>>[2] = t
BY PartsProperties DEF IovSet

-----------------------------------------------------------------------------
(* Every action preserves the invariant.                                   *)

\* The caller may write: nothing is read ahead.
LEMMA MayWrite ==
    ASSUME IInv, dir # "in" \/ eof
    PROVE  rbuf = <<>> /\ Len(rbuf) = 0
<1>1. rbuf = <<>>
  BY DEF IInv, Direction
<1> QED
  BY <1>1, EmptySeq

\* fwrite.
LEMMA FWriteKeeps ==
    ASSUME IInv, NEW s \in Chunks, FWrite(s)
    PROVE  IInv'
<1> DEFINE thru == Through(s)
<1>1. /\ pc = "idle" /\ calls < MaxCalls /\ calls' = calls + 1 /\ (dir # "in" \/ eof)
      /\ writing' = TRUE /\ dir' = "out" /\ from' = off - Len(rbuf) + Len(wbuf)
      /\ UNCHANGED <<mode, file, off, eof, err, need, got, told>>
      /\ rbuf' = IF writing THEN rbuf ELSE <<>>
      /\ thru = 0 => /\ wbuf' = wbuf \o s /\ wrote' = Len(s)
                     /\ UNCHANGED <<pc, call, iov>>
      /\ thru # 0 => /\ iov' = <<wbuf, SubSeq(s, 1, thru)>>
                     /\ call' = [NoCall EXCEPT !.op = "fwrite", !.len = thru, !.rest = Drop(s, thru)]
                     /\ pc' = "writev" /\ UNCHANGED <<wbuf, wrote>>
  BY DEF FWrite, Enter, host, flags
<1>2. s \in Seq(Byte) /\ s # <<>> /\ Len(s) \in Nat \ {0}
  BY StdioAssumption, EmptySeq
<1>3. /\ TypeOK /\ rbuf = <<>> /\ Len(rbuf) = 0 /\ call = NoCall
      /\ Len(wbuf) \in Nat /\ BufSize \in Nat /\ off \in Nat /\ wbuf \in Seq(Byte)
  BY <1>1, MayWrite, Lengths DEF IInv, Calling
<1>0. (HostType /\ FlagType)'
  BY <1>1, <1>3, TypeParts DEF HostType, FlagType
<1>4. rbuf' = <<>> /\ from' = off + Len(wbuf) /\ from' \in Nat
  BY <1>1, <1>3
<1>5. /\ thru \in 0 .. Len(s) /\ Len(Drop(s, thru)) <= BufSize
      /\ thru = 0 => Len(wbuf) + Len(s) <= BufSize
  BY <1>2, <1>3, ThroughRange
<1> HIDE DEF thru
<1>6. Drop(s, thru) \in Seq(Byte)
  BY <1>2, <1>5, DropProperties
<1>7. Direction' /\ ReadAhead'
  <2>1. ReadAhead'
    <3>1. Len(<<>>) = 0
      BY EmptySeq
    <3> QED
      BY <1>1, <1>3, <1>4, <3>1 DEF ReadAhead
  <2> QED
    BY <1>1, <1>4, <2>1 DEF Direction
<1>8. CASE thru = 0
  <2>1. wbuf \o s \in Seq(Byte) /\ Len(wbuf \o s) = Len(wbuf) + Len(s)
    BY <1>2, <1>3, ConcatProperties
  <2>5. /\ wbuf' = wbuf \o s /\ wrote' = Len(s) /\ UNCHANGED <<pc, call, iov>>
    BY <1>1, <1>8
  <2>2. TypeOK'
    <3>1. BufferType'
      BY <1>1, <1>2, <1>3, <1>4, <1>5, <1>8, <2>1, <2>5, TypeParts DEF BufferType, BufSize
    <3>2. StageType'
      BY <1>3, <2>5, TypeParts DEF StageType
    <3>3. calls' \in 0 .. MaxCalls /\ got' = got /\ need' = need /\ told' = told
      <4>1. calls \in 0 .. MaxCalls /\ MaxCalls \in Nat
        BY <1>3, TypeParts, Lengths DEF ResultType
      <4> QED
        BY <1>1, <4>1
    <3>4. ResultType'
      BY <1>2, <1>3, <1>4, <2>5, <3>3, TypeParts DEF ResultType
    <3> QED
      BY <1>0, <3>1, <3>2, <3>4, TypePartsNext
  <2>3. Calling'
    <3>1. pc' = "idle" /\ call' = NoCall
      BY <1>1, <1>3, <2>5
    <3> QED
      BY <3>1, NoCallProperties DEF Calling
  <2>4. CountHonest'
    <3>2. Len(wbuf') = Len(wbuf) + Len(s) /\ wrote' = Len(s) /\ off' = off
      BY <1>1, <2>1, <2>5
    <3>1. off' + Len(wbuf') = from' + wrote'
      BY <1>2, <1>3, <1>4, <3>2
    <3> QED
      BY <3>1 DEF CountHonest
  <2> QED
    BY <1>7, <2>2, <2>3, <2>4 DEF IInv
<1>9. CASE thru # 0
  <2> DEFINE t == SubSeq(s, 1, thru)
  <2>1. t \in Seq(Byte) /\ Len(t) = thru
    <3>1. 1 \in Nat \ {0} /\ thru \in Nat
      BY <1>5
    <3> QED
      BY <1>2, <1>5, <1>9, <3>1, PartProperties
  <2> HIDE DEF t
  <2>2. iov' = <<wbuf, t>> /\ pc' = "writev" /\ wbuf' = wbuf /\ wrote' = wrote
    BY <1>1, <1>9 DEF t
  <2>3. /\ call' \in [op : {"none", "fwrite", "fflush", "fseek", "fclose"}, len : Nat,
                      rest : Seq(Byte), off : Int, whence : Whence]
        /\ call'.op = "fwrite" /\ call'.len = thru /\ call'.rest = Drop(s, thru)
    <3>1. thru \in Nat /\ call' = [NoCall EXCEPT !.op = "fwrite", !.len = thru, !.rest = Drop(s, thru)]
      BY <1>1, <1>5, <1>9
    <3> QED
      BY <1>6, <3>1, NoCallProperties
  <2>4. /\ iov' \in Seq(Seq(Byte)) /\ Len(iov') = 2 /\ iov'[1] = wbuf /\ iov'[2] = t
    <3>1. wbuf \in Seq(Byte)
      BY <1>3 DEF TypeOK
    <3> QED
      BY <2>1, <2>2, <3>1, PartsProperties
  <2>5. TypeOK'
    <3>1. BufferType'
      BY <1>1, <1>3, <1>4, <2>2, TypeParts DEF BufferType, BufSize
    <3>2. StageType'
      <4>1. iov' \in IovSet
        BY <1>3, <2>1, <2>2, IovProperties
      <4> QED
        BY <2>2, <2>3, <4>1 DEF StageType, CallSet
    <3>3. calls' \in 0 .. MaxCalls /\ got' = got /\ need' = need /\ told' = told
      <4>1. calls \in 0 .. MaxCalls /\ MaxCalls \in Nat
        BY <1>3, TypeParts, Lengths DEF ResultType
      <4> QED
        BY <1>1, <4>1
    <3>4. ResultType'
      BY <1>3, <1>4, <2>2, <3>3, TypeParts DEF ResultType
    <3> QED
      BY <1>0, <3>1, <3>2, <3>4, TypePartsNext
  <2>6. FWriting'
    <3>1. (\E c \in Chunks : call.len \in 1 .. Len(c) /\ call.rest = Drop(c, call.len))'
      BY <1>5, <1>9, <2>3
    <3> QED
      BY <1>1, <1>3, <1>4, <1>5, <2>1, <2>2, <2>3, <2>4, <3>1 DEF FWriting, BufSize
  <2>7. Left' # <<>>
    <3>1. wbuf \o t \in Seq(Byte) /\ Len(wbuf \o t) = Len(wbuf) + Len(t)
      BY <1>3, <2>1, ConcatProperties
    <3>2. Left' = wbuf \o t
      BY <2>4 DEF Left
    <3> QED
      BY <1>3, <1>5, <1>9, <2>1, <3>1, <3>2, EmptySeq
  <2>8. Calling'
    BY <1>1, <1>4, <2>2, <2>3, <2>6, <2>7 DEF Calling
  <2>9. CountHonest'
    BY <2>2 DEF CountHonest
  <2> QED
    BY <1>7, <2>5, <2>8, <2>9 DEF IInv
<1> QED
  BY <1>8, <1>9

\* fflush, fseek and fclose up to the write.
LEMMA FlushFirstKeeps ==
    ASSUME IInv, Enter,
           NEW c \in [op : {"fflush", "fseek", "fclose"}, len : Nat,
                      rest : Seq(Byte), off : Int, whence : Whence],
           c.op = "fseek" =>
              \E o \in Offsets : c.off = IF c.whence = "CUR" THEN o - Len(rbuf) ELSE o,
           FlushFirst(c)
    PROVE  IInv'
<1>1. /\ pc = "idle" /\ calls < MaxCalls /\ calls' = calls + 1 /\ call' = c
      /\ from' = -1 /\ wrote' = 0
      /\ UNCHANGED <<mode, file, off, wbuf, writing, rbuf, eof, err, dir, need, got, told>>
      /\ wbuf # <<>> => pc' = "writev" /\ iov' = <<wbuf, <<>>>>
      /\ wbuf = <<>> => pc' = "flushed" /\ iov' = iov
  BY DEF FlushFirst, Enter, host, flags, Forget
<1>2. TypeOK /\ wbuf \in Seq(Byte) /\ <<>> \in Seq(Byte) /\ iov \in IovSet
  BY TypeParts DEF IInv, BufferType, StageType
<1>3. /\ call' \in [op : {"none", "fwrite", "fflush", "fseek", "fclose"}, len : Nat,
                    rest : Seq(Byte), off : Int, whence : Whence]
      /\ call'.op \in {"fflush", "fseek", "fclose"}
  BY <1>1
<1>4. /\ iov' \in IovSet
      /\ wbuf # <<>> => Len(iov') = 2 /\ iov'[1] = wbuf /\ iov'[2] = <<>>
  <2>1. /\ <<wbuf, <<>>>> \in IovSet /\ Len(<<wbuf, <<>>>>) = 2
        /\ <<wbuf, <<>>>>[1] = wbuf /\ <<wbuf, <<>>>>[2] = <<>>
    BY <1>2, IovProperties
  <2> QED
    BY <1>1, <1>2, <2>1
<1>5. TypeOK'
  <2>1. (HostType /\ FlagType /\ BufferType)'
    BY <1>1, <1>2, TypeParts DEF HostType, FlagType, BufferType, BufSize
  <2>2. StageType'
    BY <1>1, <1>3, <1>4 DEF StageType, CallSet
  <2>3. calls' \in 0 .. MaxCalls
    <3>1. calls \in 0 .. MaxCalls /\ MaxCalls \in Nat
      BY <1>2, TypeParts, Lengths DEF ResultType
    <3> QED
      BY <1>1, <3>1
  <2>4. ResultType'
    BY <1>1, <1>2, <2>3, TypeParts DEF ResultType
  <2> QED
    BY <2>1, <2>2, <2>4, TypePartsNext
<1>6. Direction' /\ ReadAhead'
  BY <1>1 DEF IInv, Direction, ReadAhead
<1>7. CASE wbuf # <<>>
  <2>1. Left' = wbuf
    BY <1>2, <1>4, <1>7, ConcatEmptySeq DEF Left
  <2>2. writing /\ rbuf = <<>>
    BY <1>7 DEF IInv, Direction
  <2>3. pc' = "writev" /\ from' = -1 /\ call'.op \in {"fflush", "fseek", "fclose"}
    BY <1>1, <1>3, <1>7
  <2>4. Calling'
    BY <1>1, <1>7, <2>1, <2>2, <2>3 DEF Calling
  <2> QED
    BY <1>5, <1>6, <2>3, <2>4 DEF IInv, CountHonest
<1>8. CASE wbuf = <<>>
  <2>1. pc' = "flushed" /\ from' = -1 /\ call'.op \in {"fflush", "fseek", "fclose"}
    BY <1>1, <1>3, <1>8
  <2>2. Calling'
    BY <1>1, <1>8, <2>1 DEF Calling
  <2> QED
    BY <1>5, <1>6, <2>1, <2>2 DEF IInv, CountHonest
<1> QED
  BY <1>7, <1>8

\* fflush.
LEMMA FFlushKeeps ==
    ASSUME IInv, FFlush
    PROVE  IInv'
<1>1. Enter /\ FlushFirst([NoCall EXCEPT !.op = "fflush"])
  BY DEF FFlush
<1> DEFINE c == [NoCall EXCEPT !.op = "fflush"]
<1>2. /\ c \in [op : {"fflush", "fseek", "fclose"}, len : Nat,
                rest : Seq(Byte), off : Int, whence : Whence]
      /\ c.op = "fflush"
  BY NoCallProperties
<1> HIDE DEF c
<1>3. FlushFirst(c)
  BY <1>1 DEF c
<1> QED
  BY <1>1, <1>2, <1>3, FlushFirstKeeps

\* fclose.
LEMMA FCloseKeeps ==
    ASSUME IInv, FClose
    PROVE  IInv'
<1>1. Enter /\ FlushFirst([NoCall EXCEPT !.op = "fclose"])
  BY DEF FClose
<1> DEFINE c == [NoCall EXCEPT !.op = "fclose"]
<1>2. /\ c \in [op : {"fflush", "fseek", "fclose"}, len : Nat,
                rest : Seq(Byte), off : Int, whence : Whence]
      /\ c.op = "fclose"
  BY NoCallProperties
<1> HIDE DEF c
<1>3. FlushFirst(c)
  BY <1>1 DEF c
<1> QED
  BY <1>1, <1>2, <1>3, FlushFirstKeeps

\* fseek.
LEMMA FSeekKeeps ==
    ASSUME IInv, NEW o \in Offsets, NEW w \in Whence, FSeek(o, w)
    PROVE  IInv'
<1> DEFINE to == IF w = "CUR" THEN o - Len(rbuf) ELSE o
           c == [NoCall EXCEPT !.op = "fseek", !.whence = w, !.off = to]
<1>1. Enter /\ FlushFirst(c)
  BY DEF FSeek
<1>2. to \in Int
  BY StdioAssumption DEF IInv, TypeOK
<1> HIDE DEF to
<1>3. /\ c \in [op : {"fflush", "fseek", "fclose"}, len : Nat,
                rest : Seq(Byte), off : Int, whence : Whence]
      /\ c.off = to /\ c.whence = w
  BY <1>2, NoCallProperties
<1> HIDE DEF c
<1>4. \E p \in Offsets : c.off = IF c.whence = "CUR" THEN p - Len(rbuf) ELSE p
  BY <1>3 DEF to
<1> QED
  BY <1>1, <1>3, <1>4, FlushFirstKeeps

\* ftell.
LEMMA FTellKeeps ==
    ASSUME IInv, FTell
    PROVE  IInv'
<1>1. /\ pc = "idle" /\ calls < MaxCalls /\ calls' = calls + 1
      /\ told' = off - Len(rbuf) + Len(wbuf) /\ from' = -1 /\ wrote' = 0
      /\ UNCHANGED <<mode, file, off, wbuf, writing, rbuf, eof, err, dir, pc, call, iov, need, got>>
  BY DEF FTell, Enter, host, flags, Forget
<1>2. TypeOK'
  <2>1. Len(rbuf) <= off /\ Len(rbuf) \in Nat /\ Len(wbuf) \in Nat /\ off \in Nat
    BY Lengths DEF IInv, ReadAhead
  <2>2. told' \in Nat
    BY <1>1, <2>1
  <2>3. (HostType /\ FlagType /\ BufferType /\ StageType)'
    BY <1>1, TypeParts DEF IInv, HostType, FlagType, BufferType, BufSize, StageType
  <2>4. calls' \in 0 .. MaxCalls
    <3>1. calls \in 0 .. MaxCalls /\ MaxCalls \in Nat
      BY TypeParts, Lengths DEF IInv, ResultType
    <3> QED
      BY <1>1, <3>1
  <2>5. ResultType'
    BY <1>1, <2>2, <2>4, TypeParts DEF IInv, ResultType
  <2> QED
    BY <2>3, <2>5, TypePartsNext
<1>3. Direction' /\ ReadAhead'
  BY <1>1 DEF IInv, Direction, ReadAhead
<1>4. Calling'
  BY <1>1, NoCallProperties DEF IInv, Calling
<1> QED
  BY <1>1, <1>2, <1>3, <1>4 DEF IInv, CountHonest

\* fread takes what was read ahead.
LEMMA FReadKeeps ==
    ASSUME IInv, NEW n \in Counts, FRead(n)
    PROVE  IInv'
<1> DEFINE k == IF n < Len(rbuf) THEN n ELSE Len(rbuf)
<1>1. /\ pc = "idle" /\ calls < MaxCalls /\ calls' = calls + 1 /\ dir # "out"
      /\ got' = SubSeq(rbuf, 1, k) /\ rbuf' = Drop(rbuf, k) /\ need' = n - k
      /\ pc' = IF n = k THEN "idle" ELSE "read"
      /\ dir' = "in" /\ from' = -1 /\ wrote' = 0
      /\ UNCHANGED <<mode, file, off, wbuf, writing, eof, err, call, iov, told>>
  BY DEF FRead, Enter, host, flags, Forget
<1>2. TypeOK /\ n \in Nat \ {0}
  BY StdioAssumption DEF IInv
<1>3. k \in 0 .. Len(rbuf) /\ k <= n /\ (n # k => k = Len(rbuf))
  BY <1>2, Lengths
<1>4. /\ rbuf' \in Seq(Byte) /\ Len(rbuf') = Len(rbuf) - k
      /\ \A i \in 1 .. Len(rbuf) - k : rbuf'[i] = rbuf[k + i]
      /\ n # k => rbuf' = <<>>
  <2>1. rbuf \in Seq(Byte) /\ rbuf' = Drop(rbuf, k)
    BY <1>1, <1>2, Lengths
  <2> HIDE DEF k
  <2> QED
    BY <1>3, <2>1, DropProperties
<1>5. got' \in Seq(Byte) /\ need' \in Nat /\ (n # k => need' > 0)
  <2>1. 1 \in Nat \ {0} /\ k \in Nat
    BY <1>2, <1>3, Lengths
  <2>2. SubSeq(rbuf, 1, k) \in Seq(Byte)
    BY <1>2, <1>3, <2>1, Lengths, PartProperties
  <2> QED
    BY <1>1, <1>2, <1>3, <2>1, <2>2
<1> HIDE DEF k
<1>6. ~writing /\ wbuf = <<>>
  BY <1>1 DEF IInv, Direction
<1>7. TypeOK'
  <2>1. (HostType /\ FlagType)'
    BY <1>1, <1>2, TypeParts DEF HostType, FlagType
  <2>2. BufferType'
    <3>1. Len(rbuf') <= BufSize
      BY <1>2, <1>3, <1>4, TypeParts, Lengths DEF BufferType
    <3> QED
      BY <1>1, <1>2, <1>4, <3>1, TypeParts DEF BufferType, BufSize
  <2>3. StageType'
    BY <1>1, <1>2, TypeParts DEF StageType
  <2>4. calls' \in 0 .. MaxCalls
    <3>1. calls \in 0 .. MaxCalls /\ MaxCalls \in Nat
      BY <1>2, TypeParts, Lengths DEF ResultType
    <3> QED
      BY <1>1, <3>1
  <2>5. ResultType'
    BY <1>1, <1>2, <1>5, <2>4, TypeParts DEF ResultType
  <2> QED
    BY <2>1, <2>2, <2>3, <2>5, TypePartsNext
<1>8. Direction'
  <2>1. eof => rbuf' = <<>>
    <3>1. eof => Len(rbuf) = 0
      BY EmptySeq DEF IInv, Direction
    <3>2. eof => Len(rbuf') = 0
      BY <1>2, <1>3, <1>4, <3>1, Lengths
    <3> QED
      BY <1>4, <3>2, EmptySeq
  <2> QED
    BY <1>1, <1>6, <2>1 DEF Direction
<1>9. ReadAhead'
  <2>1. Len(rbuf) <= off /\ (rbuf # <<>> => off <= Len(file))
    BY DEF IInv, ReadAhead
  <2>2. \A i \in 1 .. Len(rbuf) : rbuf[i] = file[(off - Len(rbuf)) + i]
    BY DEF IInv, ReadAhead
  <2>3. rbuf' # <<>> => rbuf # <<>>
    <3>1. rbuf = <<>> => Len(rbuf) = 0
      BY EmptySeq
    <3>2. rbuf = <<>> => Len(rbuf') = 0
      BY <1>2, <1>3, <1>4, <3>1, Lengths
    <3> QED
      BY <1>4, <3>2, EmptySeq
  <2>4. ASSUME NEW i \in 1 .. Len(rbuf') PROVE rbuf'[i] = file[(off - Len(rbuf')) + i]
    <3>1. i \in 1 .. Len(rbuf) - k /\ k + i \in 1 .. Len(rbuf)
      BY <1>2, <1>3, <1>4, Lengths
    <3>2. rbuf'[i] = file[(off - Len(rbuf)) + (k + i)]
      BY <1>4, <2>2, <3>1
    <3>3. (off - Len(rbuf)) + (k + i) = (off - Len(rbuf')) + i
      BY <1>2, <1>3, <1>4, <3>1, Lengths
    <3> QED
      BY <3>2, <3>3
  <2>5. Len(rbuf') <= off
    BY <1>2, <1>3, <1>4, <2>1, Lengths
  <2> QED
    BY <1>1, <2>1, <2>3, <2>4, <2>5 DEF ReadAhead
<1>10. call = NoCall /\ pc' \notin {"writev", "flushed"}
  BY <1>1 DEF IInv, Calling
<1>11. Calling'
  BY <1>1, <1>4, <1>5, <1>6, <1>10, NoCallProperties DEF Calling
<1> QED
  BY <1>1, <1>7, <1>8, <1>9, <1>11 DEF IInv, CountHonest

\* While bytes are written what the stage of the call says holds.
LEMMA WriteStage ==
    ASSUME IInv, pc = "writev"
    PROVE  /\ TypeOK /\ rbuf = <<>> /\ Len(rbuf) = 0 /\ writing /\ Left # <<>>
           /\ Left = Rest(iov) /\ Left \in Seq(Byte) /\ Len(Left) \in Nat \ {0}
           /\ iov \in IovSet /\ call \in CallSet /\ call.op # "none" /\ off \in Nat
<1>1. TypeOK /\ rbuf = <<>> /\ writing /\ Left # <<>> /\ call.op # "none"
  BY DEF IInv, Calling
<1>2. iov \in IovSet /\ call \in CallSet
  BY <1>1, TypeParts DEF StageType
<1>3. Left = Rest(iov) /\ Left \in Seq(Byte) /\ Len(Left) \in Nat \ {0}
  BY <1>1, LeftProperties, EmptySeq
<1> QED
  BY <1>1, <1>2, <1>3, Lengths, EmptySeq

\* One round of __stdio_write.
LEMMA WriteVKeeps ==
    ASSUME IInv, WriteV
    PROVE  IInv'
<1>1. PICK n \in 1 .. Len(Left) :
         /\ pc = "writev"
         /\ file' = Overlay(file, off, SubSeq(Left, 1, n)) /\ off' = off + n
         /\ n = Len(Left) => pc' = "flushed" /\ wbuf' = <<>> /\ iov' = <<<<>>, <<>>>>
         /\ n # Len(Left) => pc' = pc /\ wbuf' = wbuf /\ iov' = Advance(iov, n)
         /\ UNCHANGED <<mode, writing, rbuf, eof, err, dir, call, need, got, told, from, wrote, calls>>
  BY DEF WriteV, flags, tally
<1>2. /\ TypeOK /\ rbuf = <<>> /\ Len(rbuf) = 0 /\ writing /\ Left # <<>>
      /\ Left = Rest(iov) /\ Left \in Seq(Byte) /\ Len(Left) \in Nat \ {0}
      /\ iov \in IovSet /\ call \in CallSet /\ call.op # "none" /\ off \in Nat
  BY <1>1, WriteStage
<1>3. n \in Nat \ {0} /\ n <= Len(Left) /\ off' \in Nat /\ off' = off + n
  BY <1>1, <1>2
<1>4. file' \in Seq(Byte)
  <2>1. n \in 0 .. Len(Left) /\ 1 \in Nat \ {0}
    BY <1>2, <1>3
  <2>2. SubSeq(Left, 1, n) \in Seq(Byte)
    BY <1>2, <2>1, PartProperties
  <2> QED
    BY <1>1, <1>2, <2>2, Lengths, OverlayProperties
<1>5. (HostType /\ FlagType /\ ResultType)'
  BY <1>1, <1>2, <1>3, <1>4, TypeParts DEF HostType, FlagType, ResultType
<1>6. ReadAhead'
  BY <1>1, <1>2, <1>3 DEF ReadAhead
<1>7. CASE n = Len(Left)
  <2>1. pc' = "flushed" /\ wbuf' = <<>> /\ iov' = <<<<>>, <<>>>>
    BY <1>1, <1>7
  <2>2. TypeOK'
    <3>1. <<>> \in Seq(Byte) /\ Len(<<>>) = 0 /\ BufSize \in Nat
      BY <1>2, Lengths, EmptySeq
    <3>2. BufferType'
      BY <1>1, <1>2, <2>1, <3>1, TypeParts DEF BufferType, BufSize
    <3>3. iov' \in IovSet
      BY <2>1, <3>1, IovProperties
    <3>4. StageType'
      BY <1>1, <1>2, <2>1, <3>3 DEF StageType
    <3> QED
      BY <1>5, <3>2, <3>4, TypePartsNext
  <2>3. Direction'
    BY <1>1, <2>1 DEF IInv, Direction
  <2>4. call.op = "fwrite" => FWriting'
    <3> SUFFICES ASSUME call.op = "fwrite" PROVE FWriting'
      OBVIOUS
    <3>1. FWriting /\ from \in Nat /\ call.len \in Nat
      BY <1>2, TypeParts DEF IInv, Calling, FWriting, ResultType, CallSet
    <3>2. off + n = from + call.len
      <4>1. CASE Len(iov) = 2
        <5>1. iov[1] \in Seq(Byte) /\ iov[2] \in Seq(Byte)
          BY <1>2, <4>1, PartsOf DEF IovSet
        <5>2. Len(Left) = Len(iov[1]) + Len(iov[2])
          BY <1>2, <4>1, <5>1, ConcatProperties DEF Rest
        <5>3. off + Len(iov[1]) = from /\ Len(iov[2]) = call.len
          BY <1>1, <3>1, <4>1 DEF FWriting
        <5>4. Len(iov[1]) \in Nat /\ Len(iov[2]) \in Nat
          BY <5>1
        <5>5. n = Len(iov[1]) + Len(iov[2]) /\ off \in Nat /\ from \in Nat
          BY <1>2, <1>7, <3>1, <5>2
        <5> QED
          BY <5>3, <5>4, <5>5
      <4>2. CASE Len(iov) # 2
        <5>1. Len(iov) = 1 /\ Left = iov[1]
          BY <1>2, <4>2 DEF IovSet, Rest
        <5> QED
          BY <1>1, <1>2, <1>7, <3>1, <5>1 DEF FWriting
      <4> QED
        BY <4>1, <4>2
    <3> QED
      BY <1>1, <1>2, <1>3, <2>1, <3>1, <3>2 DEF FWriting, BufSize
  <2>5. Calling'
    BY <1>1, <1>2, <2>1, <2>4 DEF IInv, Calling
  <2>6. CountHonest'
    BY <2>1 DEF CountHonest
  <2> QED
    BY <1>6, <2>2, <2>3, <2>5, <2>6 DEF IInv
<1>8. CASE n # Len(Left)
  <2>1. pc' = "writev" /\ wbuf' = wbuf /\ iov' = Advance(iov, n)
    BY <1>1, <1>8
  <2>2. /\ iov' \in IovSet /\ Rest(iov') = Drop(Left, n)
        /\ Len(iov') = 2 => Len(iov) = 2 /\ iov'[2] = iov[2] /\ Len(iov'[1]) = Len(iov[1]) - n
        /\ Len(iov') = 1 => Len(iov'[1]) = Len(Left) - n
    <3>1. n < Len(Rest(iov)) /\ iov \in Seq(Seq(Byte)) /\ Len(iov) \in 1 .. 2
      BY <1>2, <1>3, <1>8 DEF IovSet
    <3>2. n \in Nat \ {0}
      BY <1>3
    <3> DEFINE w == Advance(iov, n)
    <3>3. /\ w \in Seq(Seq(Byte)) /\ Len(w) \in 1 .. 2 /\ Rest(w) = Drop(Rest(iov), n)
          /\ Len(w) = 2 => Len(iov) = 2 /\ w[2] = iov[2] /\ Len(w[1]) = Len(iov[1]) - n
          /\ Len(w) = 1 => Len(w[1]) = Len(Rest(iov)) - n
      BY <3>1, <3>2, AdvanceProperties
    <3>4. iov' = w /\ Left = Rest(iov)
      BY <1>2, <2>1
    <3> HIDE DEF w
    <3> QED
      BY <3>3, <3>4 DEF IovSet
  <2>3. TypeOK'
    <3>1. BufferType'
      BY <1>1, <1>2, <2>1, TypeParts DEF BufferType, BufSize
    <3>2. StageType'
      BY <1>1, <1>2, <2>1, <2>2 DEF StageType
    <3> QED
      BY <1>5, <3>1, <3>2, TypePartsNext
  <2>4. Direction'
    BY <1>1, <2>1 DEF IInv, Direction
  <2>5. Left' # <<>>
    <3>1. Left' = Rest(iov')
      BY DEF Left, Rest
    <3>2. n \in 0 .. Len(Left)
      BY <1>2, <1>3
    <3>3. Drop(Left, n) \in Seq(Byte) /\ Len(Drop(Left, n)) = Len(Left) - n
      BY <1>2, <3>2, DropProperties
    <3>4. Len(Drop(Left, n)) # 0
      BY <1>2, <1>3, <1>8, <3>3
    <3> QED
      BY <2>2, <3>1, <3>4, EmptySeq
  <2>6. call.op = "fwrite" => FWriting'
    <3> SUFFICES ASSUME call.op = "fwrite" PROVE FWriting'
      OBVIOUS
    <3>1. FWriting /\ from \in Nat /\ call.len \in Nat
      BY <1>2, TypeParts DEF IInv, Calling, FWriting, ResultType, CallSet
    <3>2. Len(iov') = 2 => off' + Len(iov'[1]) = from /\ Len(iov'[2]) = call.len
      <4> SUFFICES ASSUME Len(iov') = 2 PROVE off' + Len(iov'[1]) = from /\ Len(iov'[2]) = call.len
        OBVIOUS
      <4>1. /\ Len(iov) = 2 /\ iov'[2] = iov[2] /\ Len(iov'[1]) = Len(iov[1]) - n
        BY <2>2
      <4>2. off + Len(iov[1]) = from /\ Len(iov[2]) = call.len
        BY <1>1, <3>1, <4>1 DEF FWriting
      <4>3. Len(iov[1]) \in Nat
        BY <1>2, <4>1, PartsOf DEF IovSet
      <4> QED
        BY <1>2, <1>3, <4>1, <4>2, <4>3
    <3>3. Len(iov') = 1 => off' + Len(iov'[1]) = from + call.len /\ Len(iov'[1]) <= call.len
      <4> SUFFICES ASSUME Len(iov') = 1
                   PROVE  off' + Len(iov'[1]) = from + call.len /\ Len(iov'[1]) <= call.len
        OBVIOUS
      <4>1. Len(iov'[1]) = Len(Left) - n
        BY <2>2
      <4>2. CASE Len(iov) = 2
        <5>1. iov[1] \in Seq(Byte) /\ iov[2] \in Seq(Byte)
          BY <1>2, <4>2, PartsOf DEF IovSet
        <5>2. Len(Left) = Len(iov[1]) + Len(iov[2])
          BY <1>2, <4>2, <5>1, ConcatProperties DEF Rest
        <5>3. off + Len(iov[1]) = from /\ Len(iov[2]) = call.len
          BY <1>1, <3>1, <4>2 DEF FWriting
        <5>4. Len(iov[1]) \in Nat /\ Len(iov[2]) \in Nat
          BY <5>1
        <5>5. n > Len(iov[1]) \/ n <= Len(iov[1])
          BY <1>3, <5>4
        <5>6. n >= Len(iov[1])
          <6> SUFFICES ASSUME ~(n >= Len(iov[1])) PROVE FALSE
            OBVIOUS
          <6>1. ~(n > Len(iov[1]))
            BY <1>3, <5>4
          <6>2. Advance(iov, n) = <<Drop(iov[1], n)>> \o Tail(iov)
            BY <6>1 DEF Advance
          <6>3. Tail(iov) = <<iov[2]>>
            BY <1>2, <4>2, PartsOf DEF IovSet
          <6>4. n \in 0 .. Len(iov[1])
            BY <1>3, <5>4, <6>1
          <6>5. Drop(iov[1], n) \in Seq(Byte)
            BY <5>1, <6>4, DropProperties
          <6>6. iov' = <<Drop(iov[1], n), iov[2]>> /\ Len(<<Drop(iov[1], n), iov[2]>>) = 2
            BY <2>1, <5>1, <6>2, <6>3, <6>5, PartsProperties
          <6> QED
            BY <6>6
        <5>7. Len(iov'[1]) = (Len(iov[1]) + call.len) - n
          BY <4>1, <5>2, <5>3
        <5>8. off \in Nat /\ n \in Nat /\ off' = off + n /\ call.len \in Nat
          BY <1>2, <1>3, <3>1
        <5> QED
          BY <5>3, <5>4, <5>6, <5>7, <5>8
      <4>3. CASE Len(iov) # 2
        <5>1. Len(iov) = 1 /\ Left = iov[1]
          BY <1>2, <4>3 DEF IovSet, Rest
        <5>2. off + Len(Left) = from + call.len /\ Len(Left) <= call.len
          BY <1>1, <3>1, <5>1 DEF FWriting
        <5> QED
          BY <1>2, <1>3, <3>1, <4>1, <5>2
      <4> QED
        BY <4>2, <4>3
    <3> QED
      BY <1>1, <1>2, <2>1, <3>1, <3>2, <3>3 DEF FWriting, BufSize
  <2>7. Calling'
    BY <1>1, <1>2, <2>1, <2>5, <2>6 DEF IInv, Calling
  <2>8. CountHonest'
    BY <2>1 DEF CountHonest
  <2> QED
    BY <1>6, <2>3, <2>4, <2>7, <2>8 DEF IInv
<1> QED
  BY <1>7, <1>8

\* writev fails.
LEMMA WriteVFailsKeeps ==
    ASSUME IInv, WriteVFails
    PROVE  IInv'
<1>1. /\ pc = "writev"
      /\ wbuf' = <<>> /\ writing' = FALSE /\ iov' = <<<<>>, <<>>>> /\ err' = TRUE
      /\ wrote' = IF call.op = "fwrite" THEN ShortCount ELSE wrote
      /\ pc' = IF call.op = "fclose" THEN "closed" ELSE "idle"
      /\ call' = NoCall
      /\ UNCHANGED <<mode, file, off, rbuf, eof, dir, need, got, told, from, calls>>
  BY DEF WriteVFails, host
<1>2. /\ TypeOK /\ rbuf = <<>> /\ writing /\ iov \in IovSet /\ call \in CallSet
      /\ call.op # "none" /\ off \in Nat
  BY <1>1, WriteStage
<1>3. <<>> \in Seq(Byte) /\ Len(<<>>) = 0 /\ BufSize \in Nat
  BY <1>2, Lengths, EmptySeq
<1>4. call.op = "fwrite" =>
        /\ wrote' \in Nat
        /\ off = from + wrote' \/ (wrote' = 0 /\ off <= from)
  <2> SUFFICES ASSUME call.op = "fwrite"
               PROVE  wrote' \in Nat /\ (off = from + wrote' \/ (wrote' = 0 /\ off <= from))
    OBVIOUS
  <2>1. FWriting /\ from \in Nat /\ call.len \in Nat
    BY <1>2, TypeParts DEF IInv, Calling, FWriting, ResultType, CallSet
  <2>2. CASE Len(iov) = 2
    <3>1. wrote' = 0
      BY <1>1, <2>2 DEF ShortCount
    <3>2. Len(iov[1]) \in Nat
      BY <1>2, <2>2, PartsOf DEF IovSet
    <3>3. off + Len(iov[1]) = from
      BY <1>1, <2>1, <2>2 DEF FWriting
    <3> QED
      BY <1>2, <2>1, <3>1, <3>2, <3>3
  <2>3. CASE Len(iov) # 2
    <3>1. Len(iov) = 1
      BY <1>2, <2>3 DEF IovSet
    <3>2. wrote' = call.len - Len(iov[1])
      BY <1>1, <2>3 DEF ShortCount
    <3>3. Len(iov[1]) \in Nat
      BY <1>2, <3>1, PartsOf DEF IovSet
    <3>4. off + Len(iov[1]) = from + call.len /\ Len(iov[1]) <= call.len
      BY <1>1, <2>1, <3>1 DEF FWriting
    <3>5. off \in Nat /\ from \in Nat /\ call.len \in Nat
      BY <1>2, <2>1
    <3> QED
      BY <3>2, <3>3, <3>4, <3>5
  <2> QED
    BY <2>2, <2>3
<1>5. call.op # "fwrite" => wrote' = wrote /\ from = -1
  BY <1>1, <1>2 DEF IInv, Calling, CallSet
<1>6. TypeOK'
  <2>1. (HostType /\ FlagType)'
    BY <1>1, <1>2, TypeParts DEF HostType, FlagType
  <2>2. BufferType'
    BY <1>1, <1>2, <1>3, TypeParts DEF BufferType, BufSize
  <2>3. iov' \in IovSet
    BY <1>1, <1>3, IovProperties
  <2>4. StageType'
    BY <1>1, <2>3, NoCallProperties DEF StageType, CallSet
  <2>5. wrote' \in Nat
    BY <1>2, <1>4, <1>5, TypeParts DEF ResultType
  <2>6. ResultType'
    BY <1>1, <1>2, <2>5, TypeParts DEF ResultType
  <2> QED
    BY <2>1, <2>2, <2>4, <2>6, TypePartsNext
<1>7. Direction' /\ ReadAhead'
  <2>1. ReadAhead'
    BY <1>1, <1>2, <1>3 DEF ReadAhead
  <2> QED
    BY <1>1, <1>2, <2>1 DEF Direction
<1>8. Calling'
  BY <1>1, NoCallProperties DEF Calling
<1>9. CountHonest'
  <2>1. off' = off /\ Len(wbuf') = 0 /\ from' = from
    BY <1>1, <1>3
  <2>2. CASE call.op = "fwrite"
    BY <1>2, <1>4, <2>1, <2>2 DEF CountHonest
  <2>3. CASE call.op # "fwrite"
    BY <1>5, <2>1, <2>3 DEF CountHonest
  <2> QED
    BY <2>2, <2>3
<1> QED
  BY <1>6, <1>7, <1>8, <1>9 DEF IInv

\* fwrite copies its last part to the buffer.
LEMMA BufferRestKeeps ==
    ASSUME IInv, BufferRest
    PROVE  IInv'
<1>1. /\ pc = "flushed" /\ call.op = "fwrite"
      /\ wbuf' = call.rest /\ wrote' = call.len + Len(call.rest)
      /\ pc' = "idle" /\ call' = NoCall
      /\ UNCHANGED <<mode, file, off, writing, rbuf, eof, err, dir, iov, need, got, told, from, calls>>
  BY DEF BufferRest, host, flags
<1>2. TypeOK /\ FWriting /\ writing
  BY <1>1 DEF IInv, Calling, FWriting
<1>3. call \in CallSet /\ off \in Nat /\ from \in Nat
  BY <1>2, TypeParts, Lengths DEF StageType, FWriting, ResultType
<1>4. call.rest \in Seq(Byte) /\ call.len \in Nat
  BY <1>3 DEF CallSet
<1>5. Len(call.rest) \in Nat /\ Len(call.rest) <= BufSize /\ off = from + call.len
  BY <1>1, <1>2, <1>4 DEF FWriting
<1>6. TypeOK'
  <2>1. (HostType /\ FlagType)'
    BY <1>1, <1>2, TypeParts DEF HostType, FlagType
  <2>2. BufferType'
    BY <1>1, <1>2, <1>4, <1>5, TypeParts DEF BufferType, BufSize
  <2>3. StageType'
    BY <1>1, <1>2, TypeParts, NoCallProperties DEF StageType, CallSet
  <2>4. wrote' \in Nat
    BY <1>1, <1>4, <1>5
  <2>5. ResultType'
    BY <1>1, <1>2, <2>4, TypeParts DEF ResultType
  <2> QED
    BY <2>1, <2>2, <2>3, <2>5, TypePartsNext
<1>7. Direction' /\ ReadAhead'
  BY <1>1, <1>2 DEF IInv, Direction, ReadAhead
<1>8. Calling'
  BY <1>1, NoCallProperties DEF Calling
<1>9. CountHonest'
  <2>1. off' + Len(wbuf') = from' + wrote'
    BY <1>1, <1>3, <1>4, <1>5
  <2> QED
    BY <2>1 DEF CountHonest
<1> QED
  BY <1>6, <1>7, <1>8, <1>9 DEF IInv

\* fflush and fclose move the descriptor back over what was read ahead.
LEMMA SyncKeeps ==
    ASSUME IInv, Sync
    PROVE  IInv'
<1>1. /\ pc = "flushed" /\ call.op \in {"fflush", "fclose"}
      /\ off' = off - Len(rbuf) /\ rbuf' = <<>> /\ wbuf' = <<>> /\ writing' = FALSE /\ dir' = "none"
      /\ pc' = IF call.op = "fclose" THEN "closed" ELSE "idle"
      /\ call' = NoCall
      /\ UNCHANGED <<mode, file, eof, err, iov, need, got, told, from, wrote, calls>>
  BY DEF Sync, flags, tally
<1>2. TypeOK /\ from = -1
  BY <1>1 DEF IInv, Calling
<1>3. <<>> \in Seq(Byte) /\ Len(<<>>) = 0 /\ BufSize \in Nat
  BY <1>2, Lengths, EmptySeq
<1>4. off' \in Nat
  BY <1>1, <1>2, Lengths DEF IInv, ReadAhead
<1>5. TypeOK'
  <2>1. (HostType /\ FlagType /\ ResultType)'
    BY <1>1, <1>2, <1>4, TypeParts DEF HostType, FlagType, ResultType
  <2>2. BufferType'
    BY <1>1, <1>2, <1>3, TypeParts DEF BufferType, BufSize
  <2>3. StageType'
    BY <1>1, <1>2, TypeParts, NoCallProperties DEF StageType, CallSet
  <2> QED
    BY <2>1, <2>2, <2>3, TypePartsNext
<1>6. Direction' /\ ReadAhead'
  <2>1. ReadAhead'
    BY <1>1, <1>3, <1>4 DEF ReadAhead
  <2> QED
    BY <1>1, <2>1 DEF Direction
<1>7. Calling'
  BY <1>1, NoCallProperties DEF Calling
<1> QED
  BY <1>1, <1>2, <1>5, <1>6, <1>7 DEF IInv, CountHonest

\* fseek moves the descriptor, or the host refuses.
LEMMA LSeekKeeps ==
    ASSUME IInv, LSeek
    PROVE  IInv'
<1> DEFINE to == call.off + (CASE call.whence = "SET" -> 0
                               [] call.whence = "CUR" -> off
                               [] call.whence = "END" -> Len(file))
<1>1. /\ pc = "flushed" /\ call.op = "fseek" /\ wbuf' = <<>> /\ writing' = FALSE
      /\ to >= 0 => off' = to /\ rbuf' = <<>> /\ eof' = FALSE /\ dir' = "none"
      /\ ~(to >= 0) => UNCHANGED <<off, rbuf, eof, dir>>
      /\ pc' = "idle" /\ call' = NoCall
      /\ UNCHANGED <<mode, file, err, iov, need, got, told, from, wrote, calls>>
  BY DEF LSeek, tally
<1>2. TypeOK /\ from = -1 /\ call \in CallSet
  BY <1>1, TypeParts DEF IInv, Calling, StageType
<1>3. <<>> \in Seq(Byte) /\ Len(<<>>) = 0 /\ BufSize \in Nat /\ off \in Nat
  BY <1>2, Lengths, EmptySeq
<1>4. to \in Int
  <2>1. call.off \in Int /\ call.whence \in {"SET", "CUR", "END"} /\ Len(file) \in Nat
    BY <1>2, Lengths DEF CallSet, Whence
  <2> QED
    BY <1>3, <2>1
<1> HIDE DEF to
<1>5. off' \in Nat
  BY <1>1, <1>3, <1>4
<1>6. TypeOK'
  <2>1. (HostType /\ FlagType)'
    BY <1>1, <1>2, <1>5, TypeParts DEF HostType, FlagType
  <2>2. BufferType'
    <3>1. rbuf' \in Seq(Byte) /\ Len(rbuf') <= BufSize
      <4>1. rbuf \in Seq(Byte) /\ Len(rbuf) <= BufSize
        BY <1>2, TypeParts DEF BufferType
      <4>2. CASE to >= 0
        <5>1. rbuf' = <<>>
          BY <1>1, <4>2
        <5> QED
          BY <1>3, <5>1
      <4>3. CASE ~(to >= 0)
        <5>1. rbuf' = rbuf
          BY <1>1, <4>3
        <5> QED
          BY <4>1, <5>1
      <4> QED
        BY <4>2, <4>3
    <3> QED
      BY <1>1, <1>3, <3>1 DEF BufferType, BufSize
  <2>3. StageType'
    BY <1>1, <1>2, TypeParts, NoCallProperties DEF StageType, CallSet
  <2>4. ResultType'
    BY <1>1, <1>2, TypeParts DEF ResultType
  <2> QED
    BY <2>1, <2>2, <2>3, <2>4, TypePartsNext
<1>7. Direction' /\ ReadAhead'
  <2>1. CASE to >= 0
    <3>1. ReadAhead'
      BY <1>1, <1>3, <1>5, <2>1 DEF ReadAhead
    <3> QED
      BY <1>1, <2>1, <3>1 DEF Direction
  <2>2. CASE ~(to >= 0)
    BY <1>1, <2>2 DEF IInv, Direction, ReadAhead
  <2> QED
    BY <2>1, <2>2
<1>8. Calling'
  BY <1>1, NoCallProperties DEF Calling
<1> QED
  BY <1>1, <1>2, <1>6, <1>7, <1>8 DEF IInv, CountHonest

\* While fread waits for more, nothing is buffered.
LEMMA ReadStage ==
    ASSUME IInv, pc = "read"
    PROVE  /\ TypeOK /\ rbuf = <<>> /\ Len(rbuf) = 0 /\ wbuf = <<>> /\ ~writing /\ dir = "in"
           /\ need \in Nat \ {0} /\ from = -1 /\ call = NoCall /\ off \in Nat /\ BufSize \in Nat
<1>1. TypeOK /\ rbuf = <<>> /\ wbuf = <<>> /\ ~writing /\ dir = "in" /\ need > 0 /\ from = -1 /\ call = NoCall
  BY DEF IInv, Calling
<1>2. need \in Nat
  BY <1>1, TypeParts DEF ResultType
<1> QED
  BY <1>1, <1>2, Lengths, EmptySeq

\* fread meets the end.
LEMMA ReadEndsKeeps ==
    ASSUME IInv, ReadEnds
    PROVE  IInv'
<1>1. /\ pc = "read" /\ eof' = TRUE /\ rbuf' = <<>> /\ writing' = FALSE /\ pc' = "idle" /\ need' = 0
      /\ UNCHANGED <<mode, file, off, wbuf, err, dir, call, iov, got, told, from, wrote, calls>>
  BY DEF ReadEnds, host, tally
<1>2. /\ TypeOK /\ rbuf = <<>> /\ wbuf = <<>> /\ dir = "in" /\ from = -1 /\ call = NoCall /\ off \in Nat
  BY <1>1, ReadStage
<1>3. TypeOK'
  <2>1. (HostType /\ FlagType /\ StageType /\ ResultType)'
    BY <1>1, <1>2, TypeParts DEF HostType, FlagType, StageType, ResultType
  <2>2. BufferType'
    BY <1>1, <1>2, TypeParts DEF BufferType, BufSize
  <2> QED
    BY <2>1, <2>2, TypePartsNext
<1>4. Direction' /\ ReadAhead'
  <2>1. ReadAhead'
    BY <1>1, <1>2 DEF IInv, ReadAhead
  <2> QED
    BY <1>1, <1>2, <2>1 DEF Direction
<1>5. Calling'
  BY <1>1, <1>2, NoCallProperties DEF Calling
<1> QED
  BY <1>1, <1>2, <1>3, <1>4, <1>5 DEF IInv, CountHonest

\* readv fails.
LEMMA ReadVFailsKeeps ==
    ASSUME IInv, ReadVFails
    PROVE  IInv'
<1>1. /\ pc = "read" /\ rbuf' = <<>> /\ writing' = FALSE /\ pc' = "aborted"
      /\ UNCHANGED <<mode, file, off, wbuf, eof, err, dir, call, iov, need, got, told, from, wrote, calls>>
  BY DEF ReadVFails, host, flags, tally
<1>2. /\ TypeOK /\ rbuf = <<>> /\ wbuf = <<>> /\ dir = "in" /\ from = -1 /\ call = NoCall /\ off \in Nat
  BY <1>1, ReadStage
<1>3. TypeOK'
  <2>1. (HostType /\ FlagType /\ StageType /\ ResultType)'
    BY <1>1, <1>2, TypeParts DEF HostType, FlagType, StageType, ResultType
  <2>2. BufferType'
    BY <1>1, <1>2, TypeParts DEF BufferType, BufSize
  <2> QED
    BY <2>1, <2>2, TypePartsNext
<1>4. Direction' /\ ReadAhead'
  <2>1. ReadAhead'
    BY <1>1, <1>2 DEF IInv, ReadAhead
  <2> QED
    BY <1>1, <1>2, <2>1 DEF Direction
<1>5. Calling'
  BY <1>1, <1>2, NoCallProperties DEF Calling
<1> QED
  BY <1>1, <1>2, <1>3, <1>4, <1>5 DEF IInv, CountHonest

\* What one round of __stdio_read delivers: take bytes to the caller, the others
\* to the buffer.
LEMMA ReadVParts ==
    ASSUME IInv, ReadV
    PROVE  \E n, take \in Nat :
             /\ 1 <= take /\ take <= n /\ take <= need /\ off + n <= Len(file)
             /\ n - take <= BufSize /\ (take # need => n = take)
             /\ got' = got \o SubSeq(SubSeq(file, off + 1, off + n), 1, take)
             /\ rbuf' = Drop(SubSeq(file, off + 1, off + n), take)
             /\ need' = need - take /\ pc' = IF need = take THEN "idle" ELSE "read"
             /\ off' = off + n
<1> DEFINE direct == IF BufSize > 0 THEN need - 1 ELSE need
<1>1. PICK n \in 1 .. direct + BufSize :
         /\ off + n <= Len(file)
         /\ LET data == SubSeq(file, off + 1, off + n)
                take == IF n <= direct THEN n ELSE need
            IN  /\ got' = got \o SubSeq(data, 1, take) /\ rbuf' = Drop(data, take)
                /\ need' = need - take /\ pc' = IF need = take THEN "idle" ELSE "read"
         /\ off' = off + n
  BY DEF ReadV
<1> DEFINE take == IF n <= direct THEN n ELSE need
<1>2. need \in Nat \ {0} /\ BufSize \in Nat
  BY ReadStage DEF ReadV
<1>3. /\ n \in Nat /\ take \in Nat /\ 1 <= take /\ take <= n /\ take <= need
      /\ n - take <= BufSize /\ (take # need => n = take)
  BY <1>2
<1> QED
  BY <1>1, <1>3

\* A part of the file is read.
LEMMA DataProperties ==
    ASSUME TypeOK, NEW n \in Nat, off + n <= Len(file),
           NEW take \in Nat, 1 <= take, take <= n
    PROVE  /\ SubSeq(SubSeq(file, off + 1, off + n), 1, take) = SubSeq(file, off + 1, off + take)
           /\ SubSeq(file, off + 1, off + take) \in Seq(Byte)
           /\ Drop(SubSeq(file, off + 1, off + n), take) \in Seq(Byte)
           /\ Len(Drop(SubSeq(file, off + 1, off + n), take)) = n - take
           /\ \A i \in 1 .. n - take :
                 Drop(SubSeq(file, off + 1, off + n), take)[i] = file[off + take + i]
<1> DEFINE data == SubSeq(file, off + 1, off + n)
           part == SubSeq(file, off + 1, off + take)
           head == SubSeq(data, 1, take)
<1>1. off \in Nat /\ file \in Seq(Byte) /\ Len(file) \in Nat
  BY Lengths
<1>2. /\ off + 1 \in Nat \ {0} /\ off + n \in 0 .. Len(file) /\ off + take \in 0 .. Len(file)
      /\ off + 1 <= off + n /\ off + 1 <= off + take
      /\ (off + n) - (off + 1) + 1 = n /\ (off + take) - (off + 1) + 1 = take
  BY <1>1
<1>3. /\ data \in Seq(Byte) /\ Len(data) = n
      /\ \A i \in 1 .. n : data[i] = file[(off + 1) + i - 1]
  BY <1>1, <1>2, PartProperties
<1>4. /\ part \in Seq(Byte) /\ Len(part) = take
      /\ \A i \in 1 .. take : part[i] = file[(off + 1) + i - 1]
  BY <1>1, <1>2, PartProperties
<1> HIDE DEF data, part
<1>5. 1 \in Nat \ {0} /\ take \in 0 .. Len(data)
  BY <1>3
<1>6. /\ head \in Seq(Byte) /\ Len(head) = take
      /\ \A i \in 1 .. take : head[i] = data[i]
  <2>1. /\ head \in Seq(Byte) /\ Len(head) = take - 1 + 1
        /\ \A i \in 1 .. take - 1 + 1 : head[i] = data[1 + i - 1]
    BY <1>3, <1>5, PartProperties
  <2> QED
    BY <2>1
<1>7. /\ Drop(data, take) \in Seq(Byte) /\ Len(Drop(data, take)) = n - take
      /\ \A i \in 1 .. n - take : Drop(data, take)[i] = data[take + i]
  <2>0. data \in Seq(Byte) /\ take \in 0 .. Len(data)
    BY <1>3, <1>5
  <2>1. /\ Drop(data, take) \in Seq(Byte) /\ Len(Drop(data, take)) = Len(data) - take
        /\ \A i \in 1 .. Len(data) - take : Drop(data, take)[i] = data[take + i]
    BY ONLY <2>0, DropProperties
  <2>2. Len(data) - take = n - take
    BY <1>3
  <2> QED
    BY <2>1, <2>2
<1> HIDE DEF head
<1>8. head = part
  <2>1. \A i \in 1 .. take : head[i] = part[i]
    BY <1>3, <1>4, <1>6
  <2> QED
    BY <1>4, <1>6, <2>1, SeqEqual
<1>9. ASSUME NEW i \in 1 .. n - take PROVE Drop(data, take)[i] = file[off + take + i]
  <2>1. take + i \in 1 .. n /\ (off + 1) + (take + i) - 1 = off + take + i
    BY <1>1
  <2> QED
    BY <1>3, <1>7, <2>1
<1> QED
  BY <1>4, <1>7, <1>8, <1>9 DEF data, part, head

\* One round of __stdio_read.
LEMMA ReadVKeeps ==
    ASSUME IInv, ReadV
    PROVE  IInv'
<1>1. PICK n \in Nat, take \in Nat :
             /\ 1 <= take /\ take <= n /\ take <= need /\ off + n <= Len(file)
             /\ n - take <= BufSize /\ (take # need => n = take)
             /\ got' = got \o SubSeq(SubSeq(file, off + 1, off + n), 1, take)
             /\ rbuf' = Drop(SubSeq(file, off + 1, off + n), take)
             /\ need' = need - take /\ pc' = IF need = take THEN "idle" ELSE "read"
             /\ off' = off + n
  BY ReadVParts
<1>2. /\ pc = "read" /\ ~eof /\ writing' = FALSE
      /\ UNCHANGED <<mode, file, wbuf, eof, err, dir, call, iov, told, from, wrote, calls>>
  BY DEF ReadV, flags, tally
<1>3. /\ TypeOK /\ wbuf = <<>> /\ ~writing /\ dir = "in"
      /\ need \in Nat \ {0} /\ from = -1 /\ call = NoCall /\ off \in Nat /\ BufSize \in Nat
  BY <1>2, ReadStage
<1> DEFINE head == SubSeq(SubSeq(file, off + 1, off + n), 1, take)
<1>4. /\ head \in Seq(Byte)
      /\ rbuf' \in Seq(Byte) /\ Len(rbuf') = n - take
      /\ \A i \in 1 .. n - take : rbuf'[i] = file[off + take + i]
  BY <1>1, <1>3, DataProperties
<1>5. got' \in Seq(Byte)
  <2> HIDE DEF head
  <2>1. got' = got \o head
    BY <1>1 DEF head
  <2>2. got \in Seq(Byte)
    BY <1>3, TypeParts DEF ResultType
  <2> QED
    BY <1>4, <2>1, <2>2, ConcatProperties
<1> HIDE DEF head
<1>6. /\ need' \in Nat /\ off' \in Nat /\ off' = off + n /\ (take # need => rbuf' = <<>> /\ need' > 0)
  <2>1. take # need => Len(rbuf') = 0
    BY <1>1, <1>4
  <2> QED
    BY <1>1, <1>3, <1>4, <2>1, EmptySeq
<1>7. TypeOK'
  <2>1. (HostType /\ FlagType /\ StageType)'
    BY <1>1, <1>2, <1>3, <1>6, TypeParts DEF HostType, FlagType, StageType
  <2>2. BufferType'
    BY <1>1, <1>2, <1>3, <1>4, TypeParts DEF BufferType, BufSize
  <2>3. ResultType'
    BY <1>2, <1>3, <1>5, <1>6, TypeParts DEF ResultType
  <2> QED
    BY <2>1, <2>2, <2>3, TypePartsNext
<1>8. Direction'
  BY <1>2, <1>3 DEF Direction
<1>9. ReadAhead'
  <2>1. ASSUME NEW i \in 1 .. Len(rbuf') PROVE rbuf'[i] = file'[(off' - Len(rbuf')) + i]
    <3>2. Len(rbuf') = n - take /\ off' = off + n /\ off \in Nat
      BY <1>3, <1>4, <1>6
    <3>1. i \in 1 .. n - take /\ off + take + i = (off' - Len(rbuf')) + i
      BY <3>2
    <3> QED
      BY <1>2, <1>4, <3>1
  <2>2. Len(rbuf') <= off' /\ off' <= Len(file')
    BY <1>1, <1>2, <1>3, <1>4
  <2> QED
    BY <2>1, <2>2 DEF ReadAhead
<1>10. Calling'
  BY <1>1, <1>2, <1>3, <1>6, NoCallProperties DEF Calling
<1> QED
  BY <1>2, <1>3, <1>7, <1>8, <1>9, <1>10 DEF IInv, CountHonest

-----------------------------------------------------------------------------
(* The invariant holds.                                                    *)

\* It holds at the start.
LEMMA Starts == Init => IInv
<1> SUFFICES ASSUME Init PROVE IInv
  OBVIOUS
<1>1. <<>> \in Seq(Byte) /\ Len(<<>>) = 0
  BY EmptySeq
<1>2. TypeOK
  <2>1. HostType /\ FlagType
    BY StdioAssumption DEF Init, HostType, FlagType
  <2>2. BufferType
    <3>1. BufSize \in Nat
      BY StdioAssumption DEF Init, BufSize
    <3> QED
      BY <1>1, <3>1 DEF Init, BufferType
  <2>3. StageType
    <3>1. iov \in IovSet
      BY <1>1, IovProperties DEF Init
    <3> QED
      BY <3>1, NoCallProperties DEF Init, StageType, CallSet
  <2>4. ResultType
    <3>1. 0 \in 0 .. MaxCalls
      BY StdioAssumption
    <3> QED
      BY <1>1, <3>1 DEF Init, ResultType
  <2> QED
    BY <2>1, <2>2, <2>3, <2>4, TypeParts
<1>3. Direction /\ ReadAhead /\ CountHonest
  BY <1>1 DEF Init, Direction, ReadAhead, CountHonest
<1>4. Calling
  BY NoCallProperties DEF Init, Calling
<1> QED
  BY <1>2, <1>3, <1>4 DEF IInv

\* Every step preserves it.
LEMMA Keeps == IInv /\ [Next]_vars => IInv'
<1> SUFFICES ASSUME IInv, [Next]_vars PROVE IInv'
  OBVIOUS
<1>1. ASSUME NEW s \in Chunks, FWrite(s) PROVE IInv'
  BY <1>1, FWriteKeeps
<1>2. ASSUME NEW n \in Counts, FRead(n) PROVE IInv'
  BY <1>2, FReadKeeps
<1>3. ASSUME NEW o \in Offsets, NEW w \in Whence, FSeek(o, w) PROVE IInv'
  BY <1>3, FSeekKeeps
<1>4. CASE FFlush
  BY <1>4, FFlushKeeps
<1>5. CASE FTell
  BY <1>5, FTellKeeps
<1>6. CASE FClose
  BY <1>6, FCloseKeeps
<1>7. CASE WriteV
  BY <1>7, WriteVKeeps
<1>8. CASE BufferRest
  BY <1>8, BufferRestKeeps
<1>9. CASE Sync
  BY <1>9, SyncKeeps
<1>10. CASE LSeek
  BY <1>10, LSeekKeeps
<1>11. CASE ReadEnds
  BY <1>11, ReadEndsKeeps
<1>12. CASE ReadV
  BY <1>12, ReadVKeeps
<1>13. CASE WriteVFails
  BY <1>13, WriteVFailsKeeps
<1>14. CASE ReadVFails
  BY <1>14, ReadVFailsKeeps
<1>15. CASE UNCHANGED vars
  <2>1. /\ UNCHANGED <<mode, file, off, wbuf, writing, rbuf, eof, err, dir, pc, call, iov>>
        /\ UNCHANGED <<need, got, told, from, wrote, calls>>
    BY <1>15 DEF vars
  <2>2. TypeOK'
    BY <2>1, TypeParts, TypePartsNext
       DEF IInv, HostType, BufferType, BufSize, FlagType, StageType, ResultType
  <2>3. (Direction /\ ReadAhead /\ CountHonest)'
    BY <2>1 DEF IInv, Direction, ReadAhead, CountHonest
  <2>4. Calling'
    BY <2>1 DEF IInv, Calling, FWriting, Left, BufSize
  <2> QED
    BY <2>2, <2>3, <2>4 DEF IInv
<1> QED
  BY <1>1, <1>2, <1>3, <1>4, <1>5, <1>6, <1>7, <1>8, <1>9, <1>10, <1>11, <1>12, <1>13, <1>14, <1>15
     DEF Next, Call, Work

\* The stream is well-typed in every state: neither half of the buffer exceeds
\* what setvbuf has given it.
THEOREM TypeCorrect == Spec => []TypeOK
<1>1. Spec => []IInv
  BY Starts, Keeps, PTL DEF Spec
<1>2. IInv => TypeOK
  BY DEF IInv
<1> QED
  BY <1>1, <1>2, PTL

\* The count a failing fwrite returns is the number of its bytes that reached
\* the file, or zero when bytes of earlier calls were lost before them.
THEOREM CountHonestAlways == Spec => []CountHonest
<1>1. Spec => []IInv
  BY Starts, Keeps, PTL DEF Spec
<1>2. IInv => CountHonest
  BY DEF IInv
<1> QED
  BY <1>1, <1>2, PTL

-----------------------------------------------------------------------------
(* The stream implements ByteFile.                                         *)

\* The file and the position as the program sees them.
Content == Overlay(file, off, Pending)
Pos     == off + Len(Pending) - Len(rbuf)

\* ByteFile writes bytes as the stream does.
LEMMA SameOverlay == \A f, o, s : Stream!Overlay(f, o, s) = Overlay(f, o, s)
BY DEF Stream!Overlay, Overlay

\* Nothing the program can see changes.
LEMMA Unseen ==
    ASSUME Content' = Content, Pos' = Pos, UNCHANGED <<eof, err, got, told>>
    PROVE  UNCHANGED Stream!fileVars
BY SameOverlay DEF Content, Pos, Stream!fileVars

\* What is pending is a sequence of bytes.
LEMMA PendingProperties ==
    ASSUME IInv
    PROVE  /\ Pending \in Seq(Byte) /\ Len(Pending) \in Nat
           /\ Content \in Seq(Byte) /\ Pos \in Nat
           /\ pc # "writev" => Pending = wbuf
           /\ pc = "writev" => Pending = Left /\ rbuf = <<>>
<1>1. TypeOK
  BY DEF IInv
<1>2. /\ Pending \in Seq(Byte)
      /\ pc # "writev" => Pending = wbuf
      /\ pc = "writev" => Pending = Left /\ rbuf = <<>>
  BY <1>1, Lengths, LeftProperties DEF Pending, IInv, Calling
<1>3. Len(Pending) \in Nat
  BY <1>2
<1>4. Content \in Seq(Byte)
  BY <1>1, <1>2, Lengths, OverlayProperties DEF Content
<1>5. Pos \in Nat
  <2>1. Len(rbuf) <= off /\ Len(rbuf) \in Nat /\ off \in Nat
    BY <1>1, Lengths DEF IInv, ReadAhead
  <2> QED
    BY <1>3, <2>1 DEF Pos
<1> QED
  BY <1>2, <1>3, <1>4, <1>5

\* fwrite writes what fits or what passes by the buffer.
LEMMA FWriteSeen ==
    ASSUME IInv, NEW s \in Chunks, FWrite(s)
    PROVE  Stream!Put
<1> DEFINE thru == Through(s)
           n == IF thru = 0 THEN Len(s) ELSE thru
           t == SubSeq(s, 1, n)
<1>1. /\ pc = "idle" /\ (dir # "in" \/ eof)
      /\ UNCHANGED <<mode, file, off, eof, err, need, got, told>>
      /\ rbuf' = IF writing THEN rbuf ELSE <<>>
      /\ thru = 0 => wbuf' = wbuf \o s /\ pc' = pc
      /\ thru # 0 => iov' = <<wbuf, SubSeq(s, 1, thru)>> /\ pc' = "writev"
  BY DEF FWrite, Enter, host, flags
<1>2. s \in Seq(Byte) /\ s # <<>> /\ Len(s) \in Nat \ {0}
  BY StdioAssumption, EmptySeq
<1>3. /\ TypeOK /\ rbuf = <<>> /\ Len(rbuf) = 0 /\ rbuf' = rbuf /\ wbuf \in Seq(Byte)
      /\ Len(wbuf) \in Nat /\ BufSize \in Nat /\ off \in Nat /\ file \in Seq(Byte)
  BY <1>1, MayWrite, Lengths DEF IInv
<1>4. thru \in 0 .. Len(s)
  BY <1>2, <1>3, ThroughRange
<1> HIDE DEF thru
<1>5. n \in Nat /\ 1 \in 1 .. Len(s) /\ n \in 1 .. Len(s) /\ n \in 0 .. Len(s)
  BY <1>2, <1>4
<1>6. t \in Seq(Byte) /\ Len(t) = n /\ (thru = 0 => t = s)
  <2>1. 1 \in Nat \ {0}
    OBVIOUS
  <2>2. t \in Seq(Byte) /\ Len(t) = IF 1 <= n THEN n - 1 + 1 ELSE 0
    BY <1>2, <1>5, <2>1, PartProperties
  <2> QED
    BY <1>2, <1>5, <2>2, WholeProperties
<1> HIDE DEF n
<1>7. Pending = wbuf /\ Pending' = wbuf \o t
  <2>1. Pending = wbuf
    BY <1>1 DEF Pending
  <2>2. CASE thru = 0
    BY <1>1, <1>6, <2>2 DEF Pending
  <2>3. CASE thru # 0
    <3>1. iov' = <<wbuf, t>> /\ pc' = "writev"
      BY <1>1, <2>3 DEF n
    <3>2. Len(iov') = 2 /\ iov'[1] = wbuf /\ iov'[2] = t
      BY <1>3, <1>6, <3>1, IovProperties
    <3>3. Left' = wbuf \o t
      BY <3>2 DEF Left
    <3> QED
      BY <2>1, <3>1, <3>3 DEF Pending
  <2> QED
    BY <2>1, <2>2, <2>3
<1> HIDE DEF t
<1>8. Content' = Overlay(Content, Pos, t)
  <2>1. Content' = Overlay(file, off, wbuf \o t)
    BY <1>1, <1>7 DEF Content
  <2>2. Content = Overlay(file, off, wbuf) /\ Pos = off + Len(wbuf)
    BY <1>3, <1>7 DEF Content, Pos
  <2> QED
    BY <1>3, <1>6, <2>1, <2>2, OverlayConcat
<1>9. Pos' = Pos + (n - 1 + 1)
  <2>1. Len(wbuf \o t) = Len(wbuf) + n
    BY <1>3, <1>6, ConcatProperties
  <2>2. Pos' = off + Len(wbuf \o t) /\ Pos = off + Len(wbuf)
    BY <1>1, <1>3, <1>5, <1>7, <2>1 DEF Pos
  <2> QED
    BY <1>3, <1>5, <2>1, <2>2
<1>10. n \in 1 .. Len(s) /\ t = SubSeq(s, 1, n) /\ UNCHANGED <<eof, err, got, told>>
  BY <1>1, <1>5 DEF t
<1> QED
  BY <1>5, <1>8, <1>9, <1>10, SameOverlay DEF Content, Pos, Stream!Put

\* The bytes fread finds are those at the position.
LEMMA FReadSeen ==
    ASSUME IInv, NEW n \in Counts, FRead(n)
    PROVE  Stream!GetFirst
<1> DEFINE k == IF n < Len(rbuf) THEN n ELSE Len(rbuf)
<1>1. /\ pc = "idle" /\ dir # "out" /\ pc' # "writev"
      /\ got' = SubSeq(rbuf, 1, k) /\ rbuf' = Drop(rbuf, k)
      /\ UNCHANGED <<mode, file, off, wbuf, eof, err, told>>
  BY DEF FRead, Enter, host, flags, Forget
<1>2. /\ n \in Nat \ {0} /\ TypeOK /\ rbuf \in Seq(Byte) /\ Len(rbuf) \in Nat /\ off \in Nat
      /\ Len(rbuf) <= off /\ file \in Seq(Byte) /\ Len(file) \in Nat
      /\ (rbuf # <<>> => off <= Len(file))
      /\ \A i \in 1 .. Len(rbuf) : rbuf[i] = file[(off - Len(rbuf)) + i]
  BY StdioAssumption, Lengths DEF IInv, ReadAhead
<1>3. wbuf = <<>> /\ Pending = <<>> /\ Pending' = <<>> /\ Content = file /\ Content' = file
  <2>1. wbuf = <<>>
    BY <1>1 DEF IInv, Direction
  <2>2. Pending = <<>> /\ Pending' = <<>>
    BY <1>1, <2>1 DEF Pending
  <2> QED
    BY <1>1, <2>1, <2>2 DEF Content, Overlay
<1>4. k \in 0 .. Len(rbuf) /\ k \in Nat
  BY <1>2
<1>5. Len(rbuf') = Len(rbuf) - k
  BY <1>1, <1>2, <1>4, DropProperties
<1> HIDE DEF k
<1>6. Pos = off - Len(rbuf) /\ Pos' = Pos + k /\ Pos \in Nat
  <2>1. Len(<<>>) = 0
    BY EmptySeq
  <2>2. Len(Pending) = 0 /\ Len(Pending') = 0
    BY <1>3, <2>1
  <2> QED
    BY <1>1, <1>2, <1>4, <1>5, <2>2 DEF Pos
<1>7. Pos' = Pos \/ Pos' \in Pos .. Len(file)
  <2>1. CASE k = 0
    BY <1>6, <2>1
  <2>2. CASE k # 0
    <3>1. rbuf # <<>>
      BY <1>4, <2>2, EmptySeq
    <3> QED
      BY <1>2, <1>4, <1>6, <3>1
  <2> QED
    BY <2>1, <2>2
<1>8. SubSeq(rbuf, 1, k) = SubSeq(file, Pos + 1, Pos')
  <2> DEFINE x == SubSeq(rbuf, 1, k)
             y == SubSeq(file, Pos + 1, Pos')
  <2>1. /\ x \in Seq(Byte) /\ Len(x) = k /\ \A i \in 1 .. k : x[i] = rbuf[i]
    <3>1. 1 \in Nat \ {0}
      OBVIOUS
    <3>2. /\ x \in Seq(Byte) /\ Len(x) = IF 1 <= k THEN k - 1 + 1 ELSE 0
          /\ \A i \in 1 .. k - 1 + 1 : x[i] = rbuf[1 + i - 1]
      BY <1>2, <1>4, <3>1, PartProperties
    <3> HIDE DEF x
    <3> QED
      BY <1>4, <3>2
  <2>2. CASE k = 0
    <3>1. x = <<>>
      BY <2>1, <2>2, EmptySeq
    <3>2. y = <<>>
      <4>1. Pos + 1 > Pos'
        BY <1>6, <2>2
      <4> QED
        BY <1>6, <4>1, SubSeqEmpty
    <3> QED
      BY <3>1, <3>2
  <2>3. CASE k # 0
    <3>1. rbuf # <<>> /\ Pos' \in 0 .. Len(file) /\ Pos + 1 \in Nat \ {0} /\ Pos + 1 <= Pos'
          /\ Pos' - (Pos + 1) + 1 = k
      <4>1. rbuf # <<>>
        BY <1>4, <2>3, EmptySeq
      <4> QED
        BY <1>2, <1>4, <1>6, <2>3, <4>1
    <3>2. /\ y \in Seq(Byte) /\ Len(y) = k
          /\ \A i \in 1 .. k : y[i] = file[(Pos + 1) + i - 1]
      <4>1. file \in Seq(Byte)
        BY <1>2
      <4>2. Pos + 1 <= Pos' /\ y = SubSeq(file, Pos + 1, Pos')
        BY <3>1
      <4> QED
        BY <3>1, <4>1, <4>2, PartProperties
    <3> HIDE DEF x, y
    <3>3. ASSUME NEW i \in 1 .. k PROVE x[i] = y[i]
      <4>1. i \in 1 .. Len(rbuf) /\ (Pos + 1) + i - 1 = (off - Len(rbuf)) + i
        BY <1>2, <1>4, <1>6
      <4>2. x[i] = rbuf[i] /\ y[i] = file[(Pos + 1) + i - 1]
        BY <2>1, <3>2
      <4>3. rbuf[i] = file[(off - Len(rbuf)) + i]
        BY <1>2, <4>1
      <4> QED
        BY <4>1, <4>2, <4>3
    <3>4. x \in Seq(Byte) /\ y \in Seq(Byte) /\ Len(x) = Len(y) /\ \A i \in 1 .. Len(x) : x[i] = y[i]
      BY <2>1, <3>2, <3>3
    <3> QED
      BY <3>4, SeqEqual DEF x, y
  <2> QED
    BY <2>2, <2>3
<1>9. got' = SubSeq(Content, Pos + 1, Pos') /\ Content' = Content /\ UNCHANGED <<eof, err, told>>
  BY <1>1, <1>3, <1>8
<1>10. Pos' = Pos \/ Pos' \in Pos .. Len(Content)
  BY <1>3, <1>7
<1> QED
  BY <1>9, <1>10, SameOverlay DEF Content, Pos, Stream!GetFirst

\* ftell answers the position.
LEMMA FTellSeen ==
    ASSUME IInv, FTell
    PROVE  Stream!Tell
<1>1. /\ pc = "idle" /\ told' = off - Len(rbuf) + Len(wbuf)
      /\ UNCHANGED <<file, off, wbuf, rbuf, eof, err, pc, got>>
  BY DEF FTell, Enter, host, flags
<1>2. Pending = wbuf /\ Pending' = wbuf
  BY <1>1 DEF Pending
<1>3. Content' = Content /\ Pos' = Pos /\ told' = Pos
  <2>1. off \in Nat /\ Len(rbuf) \in Nat /\ Len(wbuf) \in Nat
    BY Lengths DEF IInv
  <2> QED
    BY <1>1, <1>2, <2>1 DEF Content, Pos
<1> QED
  BY <1>1, <1>3, SameOverlay DEF Content, Pos, Stream!Tell

\* Starting to flush moves nothing.
LEMMA FlushFirstUnseen ==
    ASSUME IInv, Enter, NEW c, FlushFirst(c)
    PROVE  UNCHANGED Stream!fileVars
<1>1. /\ pc = "idle"
      /\ UNCHANGED <<file, off, wbuf, rbuf, eof, err, got, told>>
      /\ wbuf # <<>> => pc' = "writev" /\ iov' = <<wbuf, <<>>>>
      /\ wbuf = <<>> => pc' = "flushed"
  BY DEF FlushFirst, Enter, host, flags
<1>2. wbuf \in Seq(Byte) /\ <<>> \in Seq(Byte) /\ Pending = wbuf
  BY <1>1, Lengths DEF IInv, Pending
<1>3. Pending' = wbuf
  <2>1. CASE wbuf # <<>>
    <3>1. Len(iov') = 2 /\ iov'[1] = wbuf /\ iov'[2] = <<>> /\ pc' = "writev"
      BY <1>1, <1>2, <2>1, IovProperties
    <3>2. Left' = wbuf \o <<>>
      BY <3>1 DEF Left
    <3>3. Left' = wbuf
      BY <1>2, <3>2, ConcatEmptySeq
    <3> QED
      BY <3>1, <3>3 DEF Pending
  <2>2. CASE wbuf = <<>>
    BY <1>1, <2>2 DEF Pending
  <2> QED
    BY <2>1, <2>2
<1>4. Content' = Content /\ Pos' = Pos
  BY <1>1, <1>2, <1>3 DEF Content, Pos
<1> QED
  BY <1>1, <1>4, Unseen

\* Bytes on their way to the host were written for the program before.
LEMMA WriteVUnseen ==
    ASSUME IInv, WriteV
    PROVE  UNCHANGED Stream!fileVars
<1>1. PICK n \in 1 .. Len(Left) :
         /\ pc = "writev"
         /\ file' = Overlay(file, off, SubSeq(Left, 1, n)) /\ off' = off + n
         /\ n = Len(Left) => pc' = "flushed" /\ wbuf' = <<>>
         /\ n # Len(Left) => pc' = pc /\ iov' = Advance(iov, n)
         /\ UNCHANGED <<rbuf, eof, err, got, told>>
  BY DEF WriteV, flags
<1>2. /\ TypeOK /\ rbuf = <<>> /\ Len(rbuf) = 0
      /\ Left = Rest(iov) /\ Left \in Seq(Byte) /\ Len(Left) \in Nat \ {0}
      /\ iov \in IovSet /\ off \in Nat
  BY <1>1, WriteStage
<1>3. file \in Seq(Byte)
  BY <1>2, Lengths
<1> DEFINE p == SubSeq(Left, 1, n)
           d == Drop(Left, n)
<1>4. n \in Nat \ {0} /\ n \in 0 .. Len(Left) /\ 1 \in Nat \ {0}
  BY <1>2
<1>5. p \in Seq(Byte) /\ Len(p) = n
  <2>1. p \in Seq(Byte) /\ Len(p) = IF 1 <= n THEN n - 1 + 1 ELSE 0
    BY <1>2, <1>4, PartProperties
  <2> QED
    BY <1>4, <2>1
<1>6. /\ d \in Seq(Byte) /\ Len(d) = Len(Left) - n /\ p \o d = Left
      /\ n = Len(Left) => d = <<>>
  <2>1. Left \in Seq(Byte) /\ n \in 0 .. Len(Left)
    BY <1>2, <1>4
  <2>2. d \in Seq(Byte) /\ Len(d) = Len(Left) - n /\ (n = Len(Left) => d = <<>>)
    BY <2>1, DropProperties
  <2>3. p \o d = Left
    BY <2>1, SplitProperties
  <2> QED
    BY <2>2, <2>3
<1>7. file' = Overlay(file, off, p)
  BY <1>1
<1> HIDE DEF p, d
<1>8. Pending = Left /\ Pending' = d
  <2>1. Pending = Left
    BY <1>1 DEF Pending
  <2>2. CASE n = Len(Left)
    BY <1>1, <1>6, <2>2 DEF Pending
  <2>3. CASE n # Len(Left)
    <3>1. n < Len(Rest(iov)) /\ iov \in Seq(Seq(Byte)) /\ Len(iov) \in 1 .. 2
      BY <1>2, <1>4, <2>3 DEF IovSet
    <3>2. Rest(Advance(iov, n)) = d
      BY <1>2, <1>4, <3>1, AdvanceProperties DEF d
    <3>3. Left' = Rest(iov')
      BY DEF Left, Rest
    <3> QED
      BY <1>1, <2>3, <3>2, <3>3 DEF Pending
  <2> QED
    BY <2>1, <2>2, <2>3
<1>9. Content' = Content
  <2>1. Content' = Overlay(Overlay(file, off, p), off + n, d)
    BY <1>1, <1>7, <1>8 DEF Content
  <2>3. file \in Seq(Byte) /\ off \in Nat /\ p \in Seq(Byte) /\ d \in Seq(Byte)
    BY <1>2, <1>3, <1>5, <1>6
  <2>2. Overlay(Overlay(file, off, p), off + Len(p), d) = Overlay(file, off, p \o d)
    BY <2>3, OverlayConcat
  <2> QED
    BY <1>5, <1>6, <1>8, <2>1, <2>2 DEF Content
<1>10. Pos' = Pos
  <2>1. off' = off + n /\ Len(rbuf') = 0 /\ Len(Pending') = Len(Pending) - n /\ Len(Pending) \in Nat
    BY <1>1, <1>2, <1>6, <1>8
  <2>2. Pos' = (off + n) + (Len(Pending) - n) - 0 /\ Pos = off + Len(Pending) - 0
    BY <1>2, <2>1 DEF Pos
  <2> QED
    BY <1>2, <1>4, <2>1, <2>2
<1> QED
  BY <1>1, <1>9, <1>10, Unseen

\* The last part of a chunk goes behind the others.
LEMMA BufferRestSeen ==
    ASSUME IInv, BufferRest
    PROVE  Stream!Put \/ UNCHANGED Stream!fileVars
<1>1. /\ pc = "flushed" /\ call.op = "fwrite" /\ wbuf' = call.rest /\ pc' = "idle"
      /\ UNCHANGED <<file, off, rbuf, eof, err, got, told>>
  BY DEF BufferRest, host, flags
<1>2. TypeOK /\ FWriting /\ writing /\ wbuf = <<>> /\ rbuf = <<>>
  BY <1>1 DEF IInv, Calling, FWriting, Direction
<1>3. /\ call \in CallSet /\ call.rest \in Seq(Byte) /\ off \in Nat /\ file \in Seq(Byte)
      /\ Len(rbuf) = 0 /\ Len(<<>>) = 0 /\ <<>> \in Seq(Byte)
  BY <1>2, TypeParts, Lengths, EmptySeq DEF StageType, CallSet
<1>4. Pending = <<>> /\ Pending' = call.rest
  BY <1>1, <1>2 DEF Pending
<1>5. Content = file /\ Pos = off
  BY <1>3, <1>4 DEF Content, Pos, Overlay
<1>6. Content' = Overlay(Content, Pos, call.rest) /\ Pos' = Pos + Len(call.rest)
  BY <1>1, <1>3, <1>4, <1>5 DEF Content, Pos
<1>7. CASE call.rest = <<>>
  <2>1. Content' = Content /\ Pos' = Pos
    BY <1>3, <1>5, <1>6, <1>7 DEF Overlay
  <2> QED
    BY <1>1, <2>1, Unseen
<1>8. CASE call.rest # <<>>
  <2>1. PICK c \in Chunks : call.len \in 1 .. Len(c) /\ call.rest = Drop(c, call.len)
    BY <1>2 DEF FWriting
  <2>2. c \in Seq(Byte) /\ Len(c) \in Nat /\ call.len \in Nat /\ call.len \in 0 .. Len(c)
    BY <2>1, StdioAssumption
  <2>3. Len(call.rest) = Len(c) - call.len /\ Len(call.rest) # 0
    BY <1>3, <1>8, <2>1, <2>2, DropProperties, EmptySeq
  <2> DEFINE m == call.len + 1
             n == Len(c)
  <2>4. m \in 1 .. Len(c) /\ n \in m .. Len(c) /\ Len(call.rest) = n - m + 1
    BY <2>1, <2>2, <2>3
  <2>5. call.rest = SubSeq(c, m, n)
    BY <2>1 DEF Drop
  <2> HIDE DEF m, n
  <2>6. Content' = Overlay(Content, Pos, SubSeq(c, m, n)) /\ Pos' = Pos + (n - m + 1)
    BY <1>6, <2>4, <2>5
  <2>7. UNCHANGED <<eof, err, got, told>>
    BY <1>1
  <2> QED
    BY <2>4, <2>6, <2>7, SameOverlay DEF Content, Pos, Stream!Put
<1> QED
  BY <1>7, <1>8

\* Moving the descriptor back over what was read ahead moves the stream nowhere.
LEMMA SyncUnseen ==
    ASSUME IInv, Sync
    PROVE  UNCHANGED Stream!fileVars
<1>1. /\ pc = "flushed" /\ pc' # "writev"
      /\ off' = off - Len(rbuf) /\ rbuf' = <<>> /\ wbuf' = <<>>
      /\ UNCHANGED <<file, eof, err, got, told>>
  BY DEF Sync, flags
<1>2. /\ wbuf = <<>> /\ Pending = <<>> /\ Pending' = <<>>
  BY <1>1 DEF IInv, Calling, Pending
<1>3. off \in Nat /\ Len(rbuf) \in Nat /\ Len(<<>>) = 0 /\ Len(rbuf') = 0
  BY <1>1, Lengths, EmptySeq DEF IInv
<1>4. Content' = Content /\ Pos' = Pos
  BY <1>1, <1>2, <1>3 DEF Content, Pos, Overlay
<1> QED
  BY <1>1, <1>4, Unseen

\* fseek goes where it was told to.
LEMMA LSeekSeen ==
    ASSUME IInv, LSeek
    PROVE  Stream!Seek \/ UNCHANGED Stream!fileVars
<1> DEFINE to == call.off + (CASE call.whence = "SET" -> 0
                               [] call.whence = "CUR" -> off
                               [] call.whence = "END" -> Len(file))
<1>1. /\ pc = "flushed" /\ call.op = "fseek" /\ wbuf' = <<>>
      /\ to >= 0 => off' = to /\ rbuf' = <<>> /\ eof' = FALSE
      /\ ~(to >= 0) => UNCHANGED <<off, rbuf, eof>>
      /\ pc' = "idle"
      /\ UNCHANGED <<file, err, got, told>>
  BY DEF LSeek
<1>2. /\ TypeOK /\ wbuf = <<>> /\ Pending = <<>> /\ Pending' = <<>>
      /\ \E o \in Offsets : call.off = IF call.whence = "CUR" THEN o - Len(rbuf) ELSE o
  BY <1>1 DEF IInv, Calling, Pending
<1>3. /\ off \in Nat /\ Len(rbuf) \in Nat /\ Len(<<>>) = 0 /\ Len(file) \in Nat
      /\ call.whence \in {"SET", "CUR", "END"} /\ call.off \in Int
  BY <1>2, Lengths, EmptySeq, TypeParts DEF StageType, CallSet, Whence
<1>4. Content = file /\ Content' = file /\ Pos = off - Len(rbuf) /\ Pos' = off' - Len(rbuf')
  <2>1. Content = file /\ Content' = file
    BY <1>1, <1>2 DEF Content, Overlay
  <2>2. Pos = off + 0 - Len(rbuf) /\ Pos' = off' + 0 - Len(rbuf')
    BY <1>2, <1>3 DEF Pos
  <2>3. off' \in Int
    <3>1. to \in Int
      BY <1>3
    <3> HIDE DEF to
    <3> QED
      BY <1>1, <1>3, <3>1
  <2> QED
    BY <1>3, <2>1, <2>2, <2>3
<1>5. CASE to >= 0
  <2>1. off' = to /\ rbuf' = <<>> /\ eof' = FALSE
    BY <1>1, <1>5
  <2>2. to \in Int
    BY <1>3
  <2>3. Pos' = to /\ Pos' >= 0
    BY <1>3, <1>4, <1>5, <2>1, <2>2
  <2>4. PICK o \in Offsets : call.off = IF call.whence = "CUR" THEN o - Len(rbuf) ELSE o
    BY <1>2
  <2>5. o \in Int
    BY StdioAssumption
  <2>6. to \in {o, Pos + o, Len(Content) + o}
    <3>1. CASE call.whence = "SET"
      BY <1>3, <2>4, <2>5, <3>1
    <3>2. CASE call.whence = "CUR"
      BY <1>3, <1>4, <2>4, <2>5, <3>2
    <3>3. CASE call.whence = "END"
      BY <1>3, <1>4, <2>4, <2>5, <3>3
    <3> QED
      BY <1>3, <3>1, <3>2, <3>3
  <2> HIDE DEF to
  <2>7. /\ \E q \in Offsets : Pos' \in {q, Pos + q, Len(Content) + q}
        /\ Pos' >= 0 /\ eof' = FALSE /\ UNCHANGED <<Content, err, got, told>>
    BY <1>1, <1>4, <2>1, <2>3, <2>6
  <2> QED
    BY <2>7, SameOverlay DEF Content, Pos, Stream!Seek
<1>6. CASE ~(to >= 0)
  <2>1. UNCHANGED <<off, rbuf, eof>>
    BY <1>1, <1>6
  <2>2. Content' = Content /\ Pos' = Pos
    BY <1>4, <2>1
  <2> QED
    BY <1>1, <2>1, <2>2, Unseen
<1> QED
  BY <1>5, <1>6

\* fread meets the end only where the program's file ends.
LEMMA ReadEndsSeen ==
    ASSUME IInv, ReadEnds
    PROVE  Stream!MeetEnd \/ UNCHANGED Stream!fileVars
<1>1. /\ pc = "read" /\ (eof \/ off >= Len(file)) /\ eof' = TRUE /\ rbuf' = <<>> /\ pc' = "idle"
      /\ UNCHANGED <<file, off, wbuf, err, got, told>>
  BY DEF ReadEnds, host
<1>2. /\ TypeOK /\ rbuf = <<>> /\ Len(rbuf) = 0 /\ wbuf = <<>> /\ off \in Nat
  BY <1>1, ReadStage
<1>3. Pending = <<>> /\ Pending' = <<>>
  BY <1>1, <1>2 DEF Pending
<1>4. Content = file /\ Content' = Content /\ Pos' = Pos /\ Pos = off
  <2>1. Len(Pending) = 0
    BY <1>2, <1>3
  <2> QED
    BY <1>1, <1>2, <1>3, <2>1 DEF Content, Pos, Overlay
<1>5. CASE off >= Len(file)
  <2>1. Pos >= Len(Content) /\ eof' = TRUE /\ UNCHANGED <<Content, Pos, err, got, told>>
    BY <1>1, <1>4, <1>5
  <2> QED
    BY <2>1, SameOverlay DEF Content, Pos, Stream!MeetEnd
<1>6. CASE eof
  <2>1. eof' = eof
    BY <1>1, <1>2, <1>6, TypeParts DEF FlagType
  <2> QED
    BY <1>1, <1>4, <2>1, Unseen
<1> QED
  BY <1>1, <1>5, <1>6

\* What one round of __stdio_read gives the caller are the bytes that follow.
LEMMA ReadVSeen ==
    ASSUME IInv, ReadV
    PROVE  Stream!GetMore
<1>1. PICK n \in Nat, take \in Nat :
             /\ 1 <= take /\ take <= n /\ take <= need /\ off + n <= Len(file)
             /\ n - take <= BufSize /\ (take # need => n = take)
             /\ got' = got \o SubSeq(SubSeq(file, off + 1, off + n), 1, take)
             /\ rbuf' = Drop(SubSeq(file, off + 1, off + n), take)
             /\ need' = need - take /\ pc' = IF need = take THEN "idle" ELSE "read"
             /\ off' = off + n
  BY ReadVParts
<1>2. pc = "read" /\ ~eof /\ pc' # "writev" /\ UNCHANGED <<file, wbuf, eof, err, told>>
  BY <1>1 DEF ReadV, flags
<1>3. /\ TypeOK /\ Len(rbuf) = 0 /\ wbuf = <<>> /\ off \in Nat
  BY <1>2, ReadStage
<1>4. /\ SubSeq(SubSeq(file, off + 1, off + n), 1, take) = SubSeq(file, off + 1, off + take)
      /\ Len(rbuf') = n - take
  BY <1>1, <1>3, DataProperties
<1>5. Pending = <<>> /\ Pending' = <<>> /\ Len(Pending) = 0
  BY <1>2, <1>3, EmptySeq DEF Pending
<1>6. Content = file /\ Content' = Content /\ Pos = off /\ Pos' = off + take
  <2>1. Content = file /\ Content' = Content
    BY <1>2, <1>5 DEF Content, Overlay
  <2>2. Pos = off + 0 - 0 /\ Pos' = (off + n) + 0 - (n - take)
    BY <1>1, <1>3, <1>4, <1>5 DEF Pos
  <2> QED
    BY <1>1, <1>3, <2>1, <2>2
<1>7. Pos' \in (Pos + 1) .. Len(Content)
  <2>1. Len(file) \in Nat
    BY <1>3, Lengths
  <2> QED
    BY <1>1, <1>3, <1>6, <2>1
<1>8. got' = got \o SubSeq(Content, Pos + 1, Pos')
  BY <1>1, <1>4, <1>6
<1>9. ~eof /\ UNCHANGED <<Content, eof, err, told>>
  BY <1>2, <1>6
<1> QED
  BY <1>7, <1>8, <1>9, SameOverlay DEF Content, Pos, Stream!GetMore

\* A failed write loses nothing that lies before the descriptor's offset.
LEMMA WriteVFailsSeen ==
    ASSUME IInv, WriteVFails
    PROVE  Stream!Lose
<1>1. /\ pc = "writev" /\ wbuf' = <<>> /\ err' = TRUE /\ pc' # "writev"
      /\ UNCHANGED <<file, off, rbuf, eof, got, told>>
  BY DEF WriteVFails, host
<1>2. /\ TypeOK /\ rbuf = <<>> /\ Len(rbuf) = 0
      /\ Left \in Seq(Byte) /\ Left # <<>> /\ Len(Left) \in Nat \ {0} /\ off \in Nat
  BY <1>1, WriteStage
<1>3. Pending = Left /\ Pending' = <<>> /\ Len(<<>>) = 0 /\ file \in Seq(Byte)
  BY <1>1, <1>2, Lengths, EmptySeq DEF Pending
<1>4. Pos = off + Len(Left) /\ Pos' = off /\ Content' = file /\ Content = Overlay(file, off, Left)
  BY <1>1, <1>2, <1>3 DEF Pos, Content, Overlay
<1>5. /\ Content \in Seq(Byte)
      /\ Len(Content) = IF off + Len(Left) > Len(file) THEN off + Len(Left) ELSE Len(file)
      /\ \A i \in 1 .. Len(Content) :
            Content[i] = IF off < i /\ i <= off + Len(Left) THEN Left[i - off]
                         ELSE IF i <= Len(file) THEN file[i] ELSE Hole
  <2>1. /\ Overlay(file, off, Left) \in Seq(Byte)
        /\ Len(Overlay(file, off, Left)) =
              IF off + Len(Left) > Len(file) THEN off + Len(Left) ELSE Len(file)
        /\ \A i \in 1 .. Len(Overlay(file, off, Left)) :
              Overlay(file, off, Left)[i] = IF off < i /\ i <= off + Len(Left) THEN Left[i - off]
                                            ELSE IF i <= Len(file) THEN file[i] ELSE Hole
    BY <1>2, <1>3, OverlayProperties
  <2> QED
    BY <1>4, <2>1
<1>6. ASSUME NEW i \in 1 .. Pos'
      PROVE  IF i <= Len(Content') THEN i <= Len(Content) /\ Content'[i] = Content[i]
                                   ELSE i > Len(Content) \/ Content[i] = Hole
  <2>1. i \in Nat /\ i >= 1 /\ i <= off /\ ~(off < i) /\ Len(file) \in Nat
    BY <1>2, <1>3, <1>4
  <2>2. i \in 1 .. Len(Content)
    BY <1>2, <1>5, <2>1
  <2>3. Content[i] = IF i <= Len(file) THEN file[i] ELSE Hole
    BY <1>5, <2>1, <2>2
  <2> QED
    BY <1>4, <2>2, <2>3
<1>7. err' = TRUE /\ Pos' \in 0 .. Pos /\ Content' \in Seq(Byte) /\ UNCHANGED <<eof, got, told>>
  BY <1>1, <1>2, <1>3, <1>4
<1> QED
  BY <1>6, <1>7, SameOverlay DEF Content, Pos, Stream!Lose

\* A failed read changes nothing the program has seen.
LEMMA ReadVFailsUnseen ==
    ASSUME IInv, ReadVFails
    PROVE  UNCHANGED Stream!fileVars
<1>1. /\ pc = "read" /\ pc' = "aborted" /\ rbuf' = <<>>
      /\ UNCHANGED <<file, off, wbuf, eof, err, got, told>>
  BY DEF ReadVFails, host, flags
<1>2. rbuf = <<>>
  BY <1>1, ReadStage
<1>3. Content' = Content /\ Pos' = Pos
  BY <1>1, <1>2 DEF Content, Pos, Pending
<1> QED
  BY <1>1, <1>3, Unseen

\* The stream starts as ByteFile does.
LEMMA StartsAsFile == Init => Stream!FileInit
<1> SUFFICES ASSUME Init PROVE Stream!FileInit
  OBVIOUS
<1>1. Content = file /\ file \in Seq(Byte)
  BY StdioAssumption DEF Init, Content, Pending, Overlay
<1>2. Pos = 0
  <2>1. Len(<<>>) = 0
    BY EmptySeq
  <2> QED
    BY <2>1 DEF Init, Pos, Pending
<1> QED
  BY <1>1, <1>2, SameOverlay DEF Init, Content, Pos, Stream!FileInit

\* Every step of the stream is one of ByteFile's, or cannot be seen.
LEMMA StepsAsFile == IInv /\ [Next]_vars => [Stream!FileNext]_(Stream!fileVars)
<1> SUFFICES ASSUME IInv, [Next]_vars
             PROVE  Stream!FileNext \/ UNCHANGED Stream!fileVars
  OBVIOUS
<1> USE DEF Stream!FileNext
<1>1. ASSUME NEW s \in Chunks, FWrite(s) PROVE Stream!FileNext
  BY <1>1, FWriteSeen
<1>2. ASSUME NEW n \in Counts, FRead(n) PROVE Stream!FileNext
  BY <1>2, FReadSeen
<1>3. ASSUME NEW o \in Offsets, NEW w \in Whence, FSeek(o, w) PROVE UNCHANGED Stream!fileVars
  BY <1>3, FlushFirstUnseen DEF FSeek
<1>4. CASE FFlush
  BY <1>4, FlushFirstUnseen DEF FFlush
<1>5. CASE FTell
  BY <1>5, FTellSeen
<1>6. CASE FClose
  BY <1>6, FlushFirstUnseen DEF FClose
<1>7. CASE WriteV
  BY <1>7, WriteVUnseen
<1>8. CASE BufferRest
  BY <1>8, BufferRestSeen
<1>9. CASE Sync
  BY <1>9, SyncUnseen
<1>10. CASE LSeek
  BY <1>10, LSeekSeen
<1>11. CASE ReadEnds
  BY <1>11, ReadEndsSeen
<1>12. CASE ReadV
  BY <1>12, ReadVSeen
<1>13. CASE WriteVFails
  BY <1>13, WriteVFailsSeen
<1>14. CASE ReadVFails
  BY <1>14, ReadVFailsUnseen
<1>15. CASE UNCHANGED vars
  <2>1. UNCHANGED <<file, off, wbuf, rbuf, eof, err, got, told, pc, iov>>
    BY <1>15 DEF vars
  <2>2. Content' = Content /\ Pos' = Pos
    BY <2>1 DEF Content, Pos, Pending, Left
  <2> QED
    BY <2>1, <2>2, Unseen
<1> QED
  BY <1>1, <1>2, <1>3, <1>4, <1>5, <1>6, <1>7, <1>8, <1>9, <1>10, <1>11, <1>12, <1>13, <1>14, <1>15
     DEF Next, Call, Work

\* The stream is the file its contract describes: through buffering, partial
\* transfers and read-ahead no byte is lost, doubled or put elsewhere unless
\* ferror says so, and then only bytes from some position on.
THEOREM StreamIsFile == Spec => ImplementsByteFile
<1>1. Spec => []IInv
  BY Starts, Keeps, PTL DEF Spec
<1>2. Spec => Stream!FileInit /\ [][Stream!FileNext]_(Stream!fileVars)
  BY <1>1, StartsAsFile, StepsAsFile, PTL DEF Spec
<1> QED
  BY <1>2 DEF ImplementsByteFile, Stream!FileSpec
=============================================================================
