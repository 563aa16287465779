------------------------ MODULE JsonSerializerProofs ------------------------
(***************************************************************************)
(* Proofs about the JSON writer, for every heap, every order in which      *)
(* lua_next may visit a table, and every depth limit.                      *)
(***************************************************************************)
EXTENDS JsonWritings, FiniteSetTheorems, SequenceTheorems, WellFoundedInduction, TLAPS

Refs == {Table(j) : j \in DOMAIN heap}

\* Which loop is running follows from the innermost call.
Innermost ==
    /\ at \in {"scan", "array", "object"} => calls # <<>> /\ Caller.kind = at
    /\ at = "done" => calls = <<>>

\* Every active call has its table in its slot, a fixed way above its caller's.
Frames ==
    /\ \A i \in 1 .. Len(calls) :
          /\ calls[i].slot <= Len(stack)
          /\ stack[calls[i].slot] \in Refs
          /\ calls[i].order \in Orders(Tab(calls[i]))
          /\ i = 1 => calls[i].slot = 1
          /\ i > 1 => calls[i].slot = calls[i - 1].slot + Held(calls[i - 1]) + 1
          /\ calls[i].kind = "scan" => i = Len(calls) /\ at \in {"scan", "undefined"}
    /\ \A i, j \in 1 .. Len(calls) : i < j => calls[i].slot < calls[j].slot
    /\ stack # <<>> /\ stack[1] = Table(1)

\* How far the stack reaches above the innermost call's table.
Heights ==
    /\ calls # <<>> /\ at \notin {"error", "undefined"} =>
          Len(stack) = Caller.slot + Held(Caller) + (IF at \in {"enter", "emitted"} THEN 1 ELSE 0)
    /\ calls = <<>> => Len(stack) = 1

\* The scan never converts its key, so lua_next finds it; what is entered is a table.
Scanned == at = "scan" => KnownKey(Caller, FromTop(1))
Entered == at = "enter" => FromTop(1) \in Refs

Shape == TypeOK /\ Innermost /\ Frames /\ Heights /\ Scanned /\ Entered

-----------------------------------------------------------------------------
(* Sequences, tables and orders.                                           *)

\* Pop drops the last n elements and keeps the others where they were.
LEMMA PopProperties ==
    ASSUME NEW S, NEW s \in Seq(S), NEW n \in Nat, n <= Len(s)
    PROVE  /\ Pop(s, n) \in Seq(S)
           /\ Len(Pop(s, n)) = Len(s) - n
           /\ \A i \in 1 .. Len(s) - n : Pop(s, n)[i] = s[i]
<1>1. \A i \in 1 .. Len(s) - n : s[i] \in S
  OBVIOUS
<1>2. 1 \in Int /\ Len(s) - n \in Int /\ Len(s) \in Nat
  OBVIOUS
<1> QED
  BY <1>1, <1>2, SubSeqProperties DEF Pop

\* Sequences of one and two elements.
LEMMA OneSeq == ASSUME NEW S, NEW a \in S PROVE <<a>> \in Seq(S)
OBVIOUS

\* A sequence of two elements.
LEMMA PairSeq == ASSUME NEW S, NEW a \in S, NEW b \in S PROVE <<a, b>> \in Seq(S)
OBVIOUS

\* An order visits each entry of a finite table once: an injection between sets
\* of one cardinality reaches every element.
LEMMA OrderReaches ==
    ASSUME NEW t, IsFiniteSet(t), NEW o \in Orders(t)
    PROVE  /\ Cardinality(t) \in Nat /\ o \in [1 .. Cardinality(t) -> t] /\ Range(o) = t
           /\ \A i, j \in 1 .. Cardinality(t) : i # j => o[i] # o[j]
           /\ \A i \in Sequential(t) : i \in 1 .. Cardinality(t) /\ o[i][1] = Index(i)
<1> DEFINE n == Cardinality(t)
<1>1. n \in Nat
  BY FS_CardinalityType
<1>2. /\ o \in [1 .. n -> t] /\ \A i, j \in 1 .. n : i # j => o[i] # o[j]
      /\ \A i \in Sequential(t) : o[i][1] = Index(i)
  BY DEF Orders, SetToSeqs
<1>3. o \in Injection(1 .. n, t)
  BY <1>2 DEF Injection, IsInjective
<1>4. IsFiniteSet(1 .. n) /\ Cardinality(1 .. n) = n
  BY <1>1, FS_Interval
<1>5. o \in Surjection(1 .. n, t)
  BY <1>3, <1>4, FS_Injection
<1>6. Range(o) = t
  BY <1>2, <1>5 DEF Surjection, Range
<1> QED
  BY <1>1, <1>2, <1>6 DEF Sequential

\* What is known of an order of a well-formed table.
IsOrder(o, t, h) ==
    /\ o \in Seq(Key \X (Value \cup {Opaque})) /\ Len(o) = Cardinality(t) /\ Range(o) = t
    /\ \A i \in 1 .. Len(o) : /\ o[i] \in t /\ o[i][1] # Nil
                              /\ o[i][1].ty = "index" => o[i][1].n <= Len(Digits)
                              /\ o[i][2].ty = "table" => o[i][2].id \in DOMAIN h
    /\ \A i, j \in 1 .. Len(o) : o[i][1] = o[j][1] => i = j
    /\ \A i \in Sequential(t) : i \in 1 .. Len(o) /\ o[i][1] = Index(i)

\* Every order of a well-formed table is one.
LEMMA OrderType ==
    ASSUME NEW h, NEW t, WellFormed(t, h), NEW o \in Orders(t)
    PROVE  IsOrder(o, t, h)
<1>1. IsFiniteSet(t) /\ t \subseteq Key \X (Value \cup {Opaque})
  BY DEF WellFormed
<1>2. /\ Cardinality(t) \in Nat /\ o \in [1 .. Cardinality(t) -> t] /\ Range(o) = t
      /\ \A i, j \in 1 .. Cardinality(t) : i # j => o[i] # o[j]
      /\ \A i \in Sequential(t) : i \in 1 .. Cardinality(t) /\ o[i][1] = Index(i)
  BY <1>1, OrderReaches
<1>3. o \in Seq(t) /\ Len(o) = Cardinality(t)
  BY <1>2
<1>4. o \in Seq(Key \X (Value \cup {Opaque}))
  BY <1>1, <1>2, <1>3
<1>5. \A i \in 1 .. Len(o) : o[i] \in t
  BY <1>2, <1>3
<1>6. \A i \in 1 .. Len(o) : /\ o[i] \in t /\ o[i][1] # Nil
                             /\ o[i][1].ty = "index" => o[i][1].n <= Len(Digits)
                             /\ o[i][2].ty = "table" => o[i][2].id \in DOMAIN h
  BY <1>5 DEF WellFormed
<1>7. \A i, j \in 1 .. Len(o) : o[i][1] = o[j][1] => i = j
  BY <1>2, <1>3, <1>5 DEF WellFormed
<1> QED
  BY <1>2, <1>3, <1>4, <1>6, <1>7 DEF IsOrder

\* The entry lua_next gives after a key it finds.
LEMMA NextProperties ==
    ASSUME NEW c \in Call, NEW h, NEW t, IsOrder(c.order, t, h), NEW k, KnownKey(c, k)
    PROVE  /\ Place(c, k) \in 0 .. Len(c.order)
           /\ k = Nil => Place(c, k) = 0
           /\ k # Nil => Place(c, k) # 0 /\ c.order[Place(c, k)][1] = k
           /\ HasNext(c, k) => /\ Place(c, k) + 1 \in 1 .. Len(c.order)
                               /\ NextEntry(c, k) = c.order[Place(c, k) + 1]
                               /\ NextEntry(c, k) \in t
                               /\ NextEntry(c, k) \in Key \X (Value \cup {Opaque})
<1>1. Len(c.order) \in Nat /\ DOMAIN c.order = 1 .. Len(c.order)
  BY DEF IsOrder
<1>2. CASE k = Nil
  BY <1>1, <1>2 DEF Place, HasNext, NextEntry, IsOrder
<1>3. CASE k # Nil
  <2>1. \E i \in DOMAIN c.order : c.order[i][1] = k
    BY <1>3 DEF KnownKey
  <2>2. Place(c, k) \in DOMAIN c.order /\ c.order[Place(c, k)][1] = k
    BY <1>3, <2>1 DEF Place
  <2> QED
    BY <1>1, <1>3, <2>2 DEF HasNext, NextEntry, IsOrder
<1> QED
  BY <1>2, <1>3

\* The tables of the heap are well-formed.
LEMMA HeapTables ==
    ASSUME TypeOK
    PROVE  /\ Len(heap) \in Nat \ {0} /\ DOMAIN heap = 1 .. Len(heap)
           /\ \A j \in DOMAIN heap : WellFormed(heap[j], heap)
           /\ \A v \in Refs : v \in Value /\ IsTable(v) /\ v.id \in DOMAIN heap
<1>1. heap \in Seq(Range(heap)) /\ heap # <<>> /\ \A t \in Range(heap) : WellFormed(t, heap)
  BY HeapsAssumption DEF TypeOK
<1>2. Len(heap) \in Nat \ {0} /\ DOMAIN heap = 1 .. Len(heap)
  BY <1>1
<1>3. \A j \in DOMAIN heap : heap[j] \in Range(heap)
  BY DEF Range
<1>4. \A v \in Refs : v \in Value /\ IsTable(v) /\ v.id \in DOMAIN heap
  BY <1>2 DEF Refs, Table, Value, IsTable
<1> QED
  BY <1>1, <1>2, <1>3, <1>4

\* The text of a key is a string, and lua_tostring leaves a key.
LEMMA TextType ==
    ASSUME NEW k \in Key, k.ty = "index" => k.n <= Len(Digits)
    PROVE  /\ ToText(k) \in Key /\ KeyText(k) \in Written
           /\ IsString(k) => ToText(k).v \in Str
           /\ ToText(k) = k \/ k.ty = "index" \/ IsAtomIn(k, Num)
<1>1. CASE k.ty = "index"
  <2>1. k.n \in 1 .. Len(Digits)
    BY <1>1 DEF Key, Value, Nil
  <2>2. Digits[k.n] \in Str
    BY <2>1, DigitsAssumption
  <2> QED
    BY <1>1, <2>2 DEF ToText, KeyText, IsString, Atom, Key, Value, Written
<1>2. CASE IsAtomIn(k, Num) /\ k.ty # "index"
  <2>1. Decimal[k.v] \in Str
    BY <1>2, DecimalAssumption DEF IsAtomIn
  <2> QED
    BY <1>2, <2>1 DEF ToText, KeyText, IsString, IsAtomIn, Atom, Key, Value, Written
<1>3. CASE k.ty # "index" /\ ~IsAtomIn(k, Num)
  <2>1. ToText(k) = k
    BY <1>3 DEF ToText
  <2>2. IsString(k) => k.v \in Str
    BY <1>3 DEF IsString, IsAtomIn
  <2> QED
    BY <2>1, <2>2 DEF KeyText, Written
<1> QED
  BY <1>1, <1>2, <1>3

\* Writing a value.
LEMMA EmitType ==
    ASSUME TypeOK, NEW prefix \in Seq(Written), NEW v \in Value \cup {Opaque}, Emit(prefix, v)
    PROVE  /\ out' \in Seq(Written) /\ at' \in {"enter", "emitted"}
           /\ at' = "enter" => IsTable(v)
<1>0. out \in Seq(Written)
  BY DEF TypeOK
<1>1. CASE IsTable(v)
  <2>1. out' = out \o prefix /\ at' = "enter"
    BY <1>1 DEF Emit
  <2> QED
    BY <1>0, <1>1, <2>1
<1>2. CASE ~IsTable(v)
  <2>1. ValueText(v) \in Written
    <3>1. CASE v = Opaque
      BY <3>1 DEF ValueText, IsString, IsAtomIn, Opaque, Written
    <3>2. CASE v # Opaque
      <4>1. v \in Key /\ v.ty # "index"
        BY <3>2 DEF Key, Value, Nil
      <4>2. IsString(v) => ToText(v).v \in Str
        BY <4>1, TextType
      <4>3. IsAtomIn(v, {"true", "false"}) => v.v \in Written
        BY DEF IsAtomIn, Written
      <4> QED
        BY <4>2, <4>3 DEF ValueText, Written
    <3> QED
      BY <3>1, <3>2
  <2>2. <<ValueText(v)>> \in Seq(Written)
    BY <2>1
  <2>3. out' = out \o prefix \o <<ValueText(v)>> /\ at' = "emitted"
    BY <1>2 DEF Emit
  <2> QED
    BY <1>0, <2>2, <2>3
<1> QED
  BY <1>1, <1>2

-----------------------------------------------------------------------------
(* The shape of the stack.                                                 *)

\* The sizes and types a proof about a state starts from.
LEMMA Sizes ==
    ASSUME TypeOK, Frames
    PROVE  /\ stack \in Seq(Key \cup {Opaque}) /\ Len(stack) \in Nat \ {0}
           /\ calls \in Seq(Call) /\ Len(calls) \in Nat
           /\ \A i \in 1 .. Len(calls) :
                 /\ calls[i] \in Call /\ calls[i].slot \in Nat \ {0} /\ calls[i].done \in Nat
                 /\ calls[i].size \in Nat /\ Held(calls[i]) \in {0, 1}
                 /\ IsOrder(calls[i].order, Tab(calls[i]), heap)
           /\ calls # <<>> => /\ Len(calls) \in 1 .. Len(calls) /\ Caller \in Call
                              /\ Caller.slot \in 1 .. Len(stack) /\ Held(Caller) \in {0, 1}
                              /\ IsOrder(Caller.order, Tab(Caller), heap)
<1>1. /\ stack \in Seq(Key \cup {Opaque}) /\ Len(stack) \in Nat \ {0}
      /\ calls \in Seq(Call) /\ Len(calls) \in Nat
  BY DEF TypeOK, Frames
<1>2. ASSUME NEW i \in 1 .. Len(calls)
      PROVE  /\ calls[i] \in Call /\ calls[i].slot \in Nat \ {0} /\ calls[i].done \in Nat
             /\ calls[i].size \in Nat /\ Held(calls[i]) \in {0, 1}
             /\ IsOrder(calls[i].order, Tab(calls[i]), heap)
  <2>1. calls[i] \in Call
    BY <1>1
  <2>2. stack[calls[i].slot].id \in DOMAIN heap /\ calls[i].order \in Orders(Tab(calls[i]))
    BY HeapTables DEF Frames
  <2>3. WellFormed(Tab(calls[i]), heap)
    BY <2>2, HeapTables DEF Tab
  <2> QED
    BY <2>1, <2>2, <2>3, OrderType DEF Call, Held
<1>3. calls # <<>> => Len(calls) \in 1 .. Len(calls)
  BY <1>1
<1>4. calls # <<>> => Caller.slot <= Len(stack)
  BY <1>3 DEF Frames, Caller
<1> QED
  BY <1>1, <1>2, <1>3, <1>4 DEF Caller

\* The slots up to this one hold tables of active calls and what lies between.
Base == IF calls = <<>> THEN 1 ELSE Caller.slot

\* Every call's table is at or below the innermost one's.
LEMMA BelowBase ==
    ASSUME TypeOK, Frames
    PROVE  /\ Base \in 1 .. Len(stack)
           /\ \A i \in 1 .. Len(calls) : calls[i].slot \in 1 .. Base
<1>1. CASE calls = <<>>
  BY <1>1, Sizes DEF Base
<1>2. ASSUME calls # <<>>, NEW i \in 1 .. Len(calls) PROVE calls[i].slot \in 1 .. Base
  <2>1. Base = calls[Len(calls)].slot /\ Len(calls) \in 1 .. Len(calls)
    BY <1>2, Sizes DEF Base, Caller
  <2>2. CASE i = Len(calls)
    BY <2>1, <2>2, Sizes
  <2>3. CASE i # Len(calls)
    <3>1. i < Len(calls)
      BY <2>3, <1>2, Sizes
    <3>2. calls[i].slot < calls[Len(calls)].slot
      BY <3>1, <2>1 DEF Frames
    <3> QED
      BY <3>2, <2>1, Sizes
  <2> QED
    BY <2>2, <2>3
<1>3. calls # <<>> => Base \in 1 .. Len(stack)
  BY Sizes DEF Base
<1> QED
  BY <1>1, <1>2, <1>3, Sizes

\* A step that leaves the slots up to Base alone and changes at most what the
\* innermost call has done keeps the tables in their slots.
LEMMA FramesKept ==
    ASSUME TypeOK, Frames, heap' = heap, stack' \in Seq(Key \cup {Opaque}), Base <= Len(stack'),
           \A j \in 1 .. Base : stack'[j] = stack[j],
           calls' \in Seq(Call), Len(calls') = Len(calls),
           \A i \in 1 .. Len(calls) : /\ calls'[i].slot = calls[i].slot
                                      /\ calls'[i].order = calls[i].order
                                      /\ i < Len(calls) => calls'[i].kind = calls[i].kind,
           calls # <<>> /\ Caller'.kind = "scan" => at' \in {"scan", "undefined"}
    PROVE  Frames'
<1>1. /\ Base \in 1 .. Len(stack)
      /\ \A i \in 1 .. Len(calls) : calls[i].slot \in 1 .. Base
  BY BelowBase
<1>2. Len(stack') \in Nat /\ 1 <= Base
  BY <1>1
<1>3. ASSUME NEW i \in 1 .. Len(calls')
      PROVE  /\ calls'[i].slot <= Len(stack')
             /\ stack'[calls'[i].slot] \in Refs'
             /\ calls'[i].order \in Orders(Tab(calls[i])')
             /\ i = 1 => calls'[i].slot = 1
             /\ i > 1 => calls'[i].slot = calls'[i - 1].slot + Held(calls'[i - 1]) + 1
             /\ calls'[i].kind = "scan" => i = Len(calls') /\ at' \in {"scan", "undefined"}
  <2>1. i \in 1 .. Len(calls) /\ stack'[calls[i].slot] = stack[calls[i].slot]
    BY <1>1
  <2>2. Refs' = Refs /\ Tab(calls[i])' = Tab(calls[i])
    BY <2>1 DEF Refs, Tab
  <2>3. i > 1 => Held(calls'[i - 1]) = Held(calls[i - 1]) /\ calls'[i - 1].slot = calls[i - 1].slot
    <3>1. i > 1 => i - 1 \in 1 .. Len(calls) /\ i - 1 < Len(calls)
      BY <2>1, Sizes
    <3> QED
      BY <3>1 DEF Held
  <2>4. i < Len(calls) => calls'[i].kind # "scan"
    BY <2>1 DEF Frames
  <2>5. i = Len(calls) => calls'[i] = Caller' /\ calls # <<>>
    BY <2>1, Sizes DEF Caller
  <2>6. calls[i].slot <= Len(stack')
    BY <2>1, <1>1, <1>2
  <2>7. calls'[i].kind = "scan" => i = Len(calls') /\ at' \in {"scan", "undefined"}
    BY <2>1, <2>4, <2>5, Sizes
  <2> QED
    BY <2>1, <2>2, <2>3, <2>6, <2>7 DEF Frames
<1>4. \A i, j \in 1 .. Len(calls') : i < j => calls'[i].slot < calls'[j].slot
  BY DEF Frames
<1>5. stack' # <<>> /\ stack'[1] = Table(1)
  BY <1>1, <1>2 DEF Frames
<1> QED
  BY <1>3, <1>4, <1>5 DEF Frames

\* The innermost call returns: the calls below it keep their tables.
LEMMA FramesPopped ==
    ASSUME TypeOK, Frames, calls # <<>>, heap' = heap, calls' = Pop(calls, 1),
           stack' \in Seq(Key \cup {Opaque}), Base <= Len(stack'),
           \A j \in 1 .. Base : stack'[j] = stack[j]
    PROVE  /\ calls' \in Seq(Call) /\ Len(calls') = Len(calls) - 1 /\ Frames'
           /\ calls' # <<>> => /\ Caller' \in Call /\ Caller'.kind # "scan"
                               /\ Caller.slot = Caller'.slot + Held(Caller') + 1
           /\ calls' = <<>> => Caller.slot = 1
<1>1. /\ Base \in 1 .. Len(stack)
      /\ \A i \in 1 .. Len(calls) : calls[i].slot \in 1 .. Base
  BY BelowBase
<1>2. Len(stack') \in Nat /\ 1 <= Base /\ Len(calls) \in Nat \ {0}
  BY <1>1, Sizes
<1>3. /\ calls' \in Seq(Call) /\ Len(calls') = Len(calls) - 1
      /\ \A i \in 1 .. Len(calls) - 1 : calls'[i] = calls[i]
  <2>1. calls \in Seq(Call) /\ 1 \in Nat /\ 1 <= Len(calls)
    BY <1>2, Sizes
  <2> QED
    BY <2>1, PopProperties
<1>4. ASSUME NEW i \in 1 .. Len(calls')
      PROVE  /\ calls'[i].slot <= Len(stack')
             /\ stack'[calls'[i].slot] \in Refs'
             /\ calls'[i].order \in Orders(Tab(calls[i])')
             /\ i = 1 => calls'[i].slot = 1
             /\ i > 1 => calls'[i].slot = calls'[i - 1].slot + Held(calls'[i - 1]) + 1
             /\ calls'[i].kind # "scan"
  <2>1. i \in 1 .. Len(calls) /\ i < Len(calls) /\ calls'[i] = calls[i]
    BY <1>2, <1>3
  <2>2. stack'[calls[i].slot] = stack[calls[i].slot]
    BY <1>1, <2>1
  <2>3. Refs' = Refs /\ Tab(calls[i])' = Tab(calls[i])
    BY <2>1, <2>2 DEF Refs, Tab
  <2>4. i > 1 => i - 1 \in 1 .. Len(calls') /\ calls'[i - 1] = calls[i - 1]
    <3>1. Len(calls') \in Nat /\ i \in 1 .. Len(calls')
      BY <1>2, <1>3
    <3>2. i > 1 => i - 1 \in 1 .. Len(calls')
      BY <3>1
    <3> QED
      BY <1>3, <3>2
  <2>5. calls[i].slot <= Len(stack')
    BY <2>1, <1>1, <1>2
  <2> QED
    BY <2>1, <2>2, <2>3, <2>4, <2>5 DEF Frames
<1>5. \A i, j \in 1 .. Len(calls') : i < j => calls'[i].slot < calls'[j].slot
  <2>1. \A i \in 1 .. Len(calls') : i \in 1 .. Len(calls) /\ calls'[i] = calls[i]
    BY <1>2, <1>3
  <2> QED
    BY <2>1 DEF Frames
<1>6. stack' # <<>> /\ stack'[1] = Table(1)
  BY <1>1, <1>2 DEF Frames
<1>7. ASSUME calls' # <<>>
      PROVE  /\ Caller' \in Call /\ Caller'.kind # "scan"
             /\ Caller.slot = Caller'.slot + Held(Caller') + 1
  <2>1. Len(calls') \in 1 .. Len(calls') /\ Len(calls) > 1 /\ Len(calls') = Len(calls) - 1
    BY <1>2, <1>3, <1>7
  <2>2. Caller' = calls'[Len(calls')] /\ Caller' = calls[Len(calls) - 1]
    BY <1>3, <2>1 DEF Caller
  <2>3. Caller.slot = calls[Len(calls) - 1].slot + Held(calls[Len(calls) - 1]) + 1
    BY <2>1, <1>2 DEF Frames, Caller
  <2> QED
    BY <1>3, <1>4, <2>1, <2>2, <2>3
<1>8. calls' = <<>> => Caller.slot = 1
  <2>1. calls' = <<>> => Len(calls) = 1
    BY <1>2, <1>3
  <2> QED
    BY <2>1 DEF Frames, Caller
<1> QED
  BY <1>3, <1>4, <1>5, <1>6, <1>7, <1>8 DEF Frames

\* SetCaller replaces the innermost call.
LEMMA SetCallerProperties ==
    ASSUME TypeOK, Frames, calls # <<>>, NEW c \in Call, SetCaller(c)
    PROVE  /\ calls' \in Seq(Call) /\ Len(calls') = Len(calls) /\ calls' # <<>> /\ Caller' = c
           /\ \A i \in 1 .. Len(calls) : i < Len(calls) => calls'[i] = calls[i]
           /\ calls'[Len(calls)] = c
<1>1. Len(calls) \in 1 .. Len(calls) /\ calls \in Seq(Call)
  BY Sizes
<1> QED
  BY <1>1 DEF SetCaller, Caller

\* Replacing the top slot.
LEMMA TopReplaced ==
    ASSUME NEW S, NEW s \in Seq(S), Len(s) > 0, NEW v \in S
    PROVE  /\ Append(Pop(s, 1), v) \in Seq(S) /\ Len(Append(Pop(s, 1), v)) = Len(s)
           /\ \A j \in 1 .. Len(s) : j < Len(s) => Append(Pop(s, 1), v)[j] = s[j]
           /\ Append(Pop(s, 1), v)[Len(s)] = v
<1> DEFINE r == Pop(s, 1)
<1>1. r \in Seq(S) /\ Len(r) = Len(s) - 1 /\ \A i \in 1 .. Len(s) - 1 : r[i] = s[i]
  BY PopProperties
<1> HIDE DEF r
<1>2. /\ Append(r, v) \in Seq(S) /\ Len(Append(r, v)) = Len(r) + 1
      /\ \A j \in 1 .. Len(r) : Append(r, v)[j] = r[j]
      /\ Append(r, v)[Len(r) + 1] = v
  BY <1>1, AppendProperties
<1>3. Len(s) \in Nat
  OBVIOUS
<1>4. \A j \in 1 .. Len(s) : j < Len(s) => j \in 1 .. Len(r) /\ j \in 1 .. Len(s) - 1
  BY <1>1, <1>3
<1> QED
  BY <1>1, <1>2, <1>3, <1>4 DEF r

\* Below the depth limit nothing moves.
LEMMA EnterTooDeepStep == ASSUME Shape, EnterTooDeep PROVE Shape'
<1>1. TypeOK /\ Frames /\ at = "enter" /\ at' = "emitted" /\ UNCHANGED <<heap, stack, calls>>
  BY DEF Shape, EnterTooDeep
<1>2. out' \in Seq(Written)
  <2>1. "{" \in Written /\ "}" \in Written /\ out \in Seq(Written)
    BY <1>1 DEF Written, TypeOK
  <2>2. <<"{", "}">> \in Seq(Written)
    BY <2>1, PairSeq
  <2>3. out' = out \o <<"{", "}">>
    BY DEF EnterTooDeep
  <2> QED
    BY <2>1, <2>2, <2>3, ConcatProperties
<1>3. TypeOK'
  BY <1>1, <1>2 DEF TypeOK
<1>4. calls # <<>> => Caller.kind # "scan"
  BY <1>1, Sizes DEF Frames, Caller
<1>5. Base \in 1 .. Len(stack) /\ Len(stack) \in Nat
  BY <1>1, BelowBase, Sizes
<1>6. Frames'
  <2>1. stack' \in Seq(Key \cup {Opaque}) /\ calls' \in Seq(Call) /\ Caller' = Caller
    BY <1>1, Sizes DEF Caller
  <2> QED
    BY <1>1, <1>4, <1>5, <2>1, FramesKept
<1>7. Heights'
  BY <1>1 DEF Shape, Heights, Caller
<1> QED
  BY <1>1, <1>3, <1>6, <1>7 DEF Shape, Innermost, Scanned, Entered

\* A call begins: its table is the value on top.
LEMMA EnterStep == ASSUME Shape, Enter PROVE Shape'
<1>1. TypeOK /\ Frames /\ Heights /\ at = "enter" /\ FromTop(1) \in Refs
  BY DEF Shape, Enter, Entered
<1>2. PICK o \in Orders(heap[FromTop(1).id]) :
        calls' = Append(calls, [slot |-> Len(stack), order |-> o, size |-> 0, done |-> 0, kind |-> "scan"])
  BY DEF Enter
<1>3. stack' = Append(stack, Nil) /\ at' = "scan" /\ heap' = heap /\ out' = out
  BY DEF Enter
<1> DEFINE c == [slot |-> Len(stack), order |-> o, size |-> 0, done |-> 0, kind |-> "scan"]
           n == Len(calls)
<1>4. /\ stack \in Seq(Key \cup {Opaque}) /\ Len(stack) \in Nat \ {0}
      /\ calls \in Seq(Call) /\ n \in Nat
  BY <1>1, Sizes
<1>5. c \in Call
  <2>1. IsOrder(o, heap[FromTop(1).id], heap)
    BY <1>1, HeapTables, OrderType
  <2>2. o \in Seq(Key \X (Value \cup {Opaque}))
    BY <2>1 DEF IsOrder
  <2> QED
    BY <1>4, <2>2 DEF Call
<1>6. /\ stack' \in Seq(Key \cup {Opaque}) /\ Len(stack') = Len(stack) + 1
      /\ \A j \in 1 .. Len(stack) : stack'[j] = stack[j]
      /\ stack'[Len(stack) + 1] = Nil
  <2>1. Nil \in Key \cup {Opaque}
    BY DEF Key, Value
  <2> QED
    BY <1>3, <1>4, <2>1, AppendProperties
<1>7. /\ calls' \in Seq(Call) /\ Len(calls') = n + 1 /\ calls' # <<>> /\ Caller' = c
      /\ \A i \in 1 .. n : calls'[i] = calls[i]
      /\ calls'[n + 1] = c
  <2> HIDE DEF c
  <2>1. /\ calls' \in Seq(Call) /\ Len(calls') = n + 1 /\ calls'[n + 1] = c
        /\ \A i \in 1 .. n : calls'[i] = calls[i]
    BY <1>2, <1>4, <1>5, AppendProperties DEF c
  <2> QED
    BY <1>4, <2>1 DEF Caller
<1>8. TypeOK'
  BY <1>1, <1>3, <1>6, <1>7 DEF TypeOK
<1>9. FromTop(1) = stack[Len(stack)]
  BY <1>4 DEF FromTop
<1>10. /\ Base \in 1 .. Len(stack)
       /\ \A i \in 1 .. n : calls[i].slot \in 1 .. Base
  BY <1>1, BelowBase
<1>11. /\ calls = <<>> => Len(stack) = 1
       /\ calls # <<>> => Len(stack) = Caller.slot + Held(Caller) + 1
  BY <1>1 DEF Heights
<1>12. Refs' = Refs
  BY <1>3 DEF Refs
<1>13. ASSUME NEW i \in 1 .. Len(calls')
       PROVE  /\ calls'[i].slot <= Len(stack')
              /\ stack'[calls'[i].slot] \in Refs'
              /\ calls'[i].order \in Orders(Tab(calls[i])')
              /\ i = 1 => calls'[i].slot = 1
              /\ i > 1 => calls'[i].slot = calls'[i - 1].slot + Held(calls'[i - 1]) + 1
              /\ calls'[i].kind = "scan" => i = Len(calls') /\ at' = "scan"
  <2>1. CASE i \in 1 .. n
    <3>1. calls'[i] = calls[i] /\ calls[i].slot \in 1 .. Len(stack)
      BY <2>1, <1>4, <1>7, <1>10
    <3>2. stack'[calls[i].slot] = stack[calls[i].slot] /\ Tab(calls[i])' = Tab(calls[i])
      BY <1>3, <1>6, <3>1 DEF Tab
    <3>3. i > 1 => i - 1 \in 1 .. n /\ calls'[i - 1] = calls[i - 1]
      BY <1>4, <1>7, <2>1
    <3>4. calls[i].kind # "scan"
      BY <1>1, <2>1 DEF Frames
    <3>5. calls[i].slot <= Len(stack')
      BY <1>4, <1>6, <3>1
    <3> QED
      BY <1>1, <1>12, <2>1, <3>1, <3>2, <3>3, <3>4, <3>5 DEF Frames
  <2>2. CASE i = n + 1
    <3>1. calls'[i] = c
      BY <1>7, <2>2
    <3>2. stack'[c.slot] = FromTop(1) /\ heap'[stack'[c.slot].id] = heap[FromTop(1).id]
      BY <1>3, <1>4, <1>6, <1>9
    <3>3. i = 1 => Len(stack) = 1
      BY <1>4, <1>11, <2>2
    <3>4. i > 1 => calls'[i - 1] = Caller /\ calls # <<>>
      BY <1>4, <1>7, <2>2 DEF Caller
    <3>5. Tab(calls[i])' = heap'[stack'[c.slot].id]
      BY <3>1 DEF Tab
    <3>6. c.slot = Len(stack) /\ c.order = o /\ Len(stack) <= Len(stack')
      BY <1>4, <1>6
    <3> QED
      BY <1>1, <1>2, <1>3, <1>7, <1>11, <1>12, <2>2, <3>1, <3>2, <3>3, <3>4, <3>5, <3>6
  <2> QED
    BY <1>4, <1>7, <2>1, <2>2
<1>14. ASSUME NEW i \in 1 .. Len(calls'), NEW j \in 1 .. Len(calls'), i < j
       PROVE  calls'[i].slot < calls'[j].slot
  <2>1. i \in 1 .. n
    BY <1>4, <1>7, <1>14
  <2>2. CASE j \in 1 .. n
    BY <1>1, <1>7, <1>14, <2>1, <2>2 DEF Frames
  <2>3. CASE j = n + 1
    <3>1. calls # <<>> /\ calls[i].slot \in 1 .. Caller.slot
      BY <1>4, <1>10, <2>1 DEF Base
    <3>2. Caller.slot \in Nat /\ Held(Caller) \in {0, 1}
      BY <1>1, <3>1, Sizes
    <3>3. calls'[i].slot = calls[i].slot /\ calls'[j].slot = Len(stack)
      BY <1>7, <2>1, <2>3
    <3> QED
      BY <1>11, <3>1, <3>2, <3>3
  <2> QED
    BY <1>4, <1>7, <2>2, <2>3
<1>15. stack' # <<>> /\ stack'[1] = Table(1)
  BY <1>1, <1>4, <1>6 DEF Frames
<1>16. Frames'
  BY <1>13, <1>14, <1>15 DEF Frames
<1>17. Heights'
  BY <1>3, <1>4, <1>6, <1>7 DEF Heights, Held
<1>18. FromTop(1)' = Nil
  BY <1>4, <1>6 DEF FromTop
<1> QED
  BY <1>3, <1>7, <1>8, <1>16, <1>17, <1>18 DEF Shape, Innermost, Scanned, Entered, KnownKey

\* While a loop is running its call is the innermost one, with its key on top.
LEMMA InLoop ==
    ASSUME Shape, at \in {"scan", "array", "object"}
    PROVE  /\ calls # <<>> /\ Caller.kind = at /\ Caller \in Call /\ Base = Caller.slot
           /\ Base \in 1 .. Len(stack) /\ Len(stack) = Base + Held(Caller)
           /\ at # "array" => Len(stack) = Base + 1 /\ FromTop(1) = stack[Base + 1]
           /\ Tab(Caller) \subseteq Key \X (Value \cup {Opaque})
           /\ \A e \in Tab(Caller) : e[2].ty = "table" => e[2].id \in DOMAIN heap
<1>1. TypeOK /\ Frames /\ calls # <<>> /\ Caller.kind = at
  BY DEF Shape, Innermost
<1>2. Caller \in Call /\ Base = Caller.slot /\ Base \in 1 .. Len(stack) /\ Len(stack) \in Nat
  BY <1>1, Sizes, BelowBase DEF Base
<1>3. Len(stack) = Base + Held(Caller)
  BY <1>1, <1>2 DEF Shape, Heights, Held
<1>4. at # "array" => Len(stack) = Base + 1 /\ FromTop(1) = stack[Base + 1]
  BY <1>1, <1>2, <1>3 DEF Held, FromTop
<1>5. WellFormed(Tab(Caller), heap)
  <2>1. Len(calls) \in 1 .. Len(calls)
    BY <1>1, Sizes
  <2>2. stack[Caller.slot] \in Refs
    BY <1>1, <2>1 DEF Frames, Caller
  <2> QED
    BY <1>1, <2>2, HeapTables DEF Tab
<1> QED
  BY <1>1, <1>2, <1>3, <1>4, <1>5 DEF WellFormed

\* The scan goes on to the next index.
LEMMA ScanIndexStep == ASSUME Shape, ScanIndex PROVE Shape'
<1>1. TypeOK /\ Frames /\ at = "scan" /\ heap' = heap /\ at' = at /\ out' = out
  BY DEF Shape, ScanIndex
<1> DEFINE k == NextEntry(Caller, FromTop(1))[1]
           c == [Caller EXCEPT !.size = @ + 1]
<1>2. stack' = Append(Pop(stack, 1), k) /\ SetCaller(c) /\ HasNext(Caller, FromTop(1))
  BY DEF ScanIndex
<1>3. /\ calls # <<>> /\ Caller.kind = at /\ Caller \in Call /\ Base = Caller.slot
      /\ Base \in 1 .. Len(stack) /\ Len(stack) = Base + 1
  BY <1>1, InLoop
<1>4. k \in Key /\ \E i \in DOMAIN Caller.order : Caller.order[i][1] = k
  <2>1. KnownKey(Caller, FromTop(1)) /\ IsOrder(Caller.order, Tab(Caller), heap)
    BY <1>1, <1>3, Sizes DEF Shape, Scanned
  <2> DEFINE m == Place(Caller, FromTop(1)) + 1
  <2>2. /\ m \in 1 .. Len(Caller.order) /\ NextEntry(Caller, FromTop(1)) = Caller.order[m]
        /\ NextEntry(Caller, FromTop(1)) \in Key \X (Value \cup {Opaque})
    BY <1>2, <1>3, <2>1, NextProperties
  <2>3. DOMAIN Caller.order = 1 .. Len(Caller.order)
    BY <2>1 DEF IsOrder
  <2> QED
    BY <2>2, <2>3
<1>5. c \in Call /\ c.slot = Caller.slot /\ c.order = Caller.order /\ c.kind = Caller.kind
  BY <1>3 DEF Call
<1> HIDE DEF k, c
<1>6. /\ calls' \in Seq(Call) /\ Len(calls') = Len(calls) /\ calls' # <<>> /\ Caller' = c
      /\ \A i \in 1 .. Len(calls) : i < Len(calls) => calls'[i] = calls[i]
      /\ calls'[Len(calls)] = c
  BY <1>1, <1>2, <1>3, <1>5, SetCallerProperties
<1>7. /\ stack' \in Seq(Key \cup {Opaque}) /\ Len(stack') = Len(stack)
      /\ \A j \in 1 .. Len(stack) : j < Len(stack) => stack'[j] = stack[j]
      /\ stack'[Len(stack)] = k
  <2>1. stack \in Seq(Key \cup {Opaque}) /\ Len(stack) > 0 /\ k \in Key \cup {Opaque}
    BY <1>1, <1>4, Sizes
  <2> QED
    BY <1>2, <2>1, TopReplaced
<1>8. \A i \in 1 .. Len(calls) : /\ calls'[i].slot = calls[i].slot
                                 /\ calls'[i].order = calls[i].order
                                 /\ i < Len(calls) => calls'[i].kind = calls[i].kind
  <2>1. Len(calls) \in Nat /\ calls[Len(calls)] = Caller
    BY <1>1, Sizes DEF Caller
  <2> QED
    BY <1>5, <1>6, <2>1
<1>9. Base <= Len(stack') /\ \A j \in 1 .. Base : stack'[j] = stack[j]
  BY <1>3, <1>7
<1>10. Frames'
  BY <1>1, <1>6, <1>7, <1>8, <1>9, FramesKept
<1>11. TypeOK'
  BY <1>1, <1>6, <1>7 DEF TypeOK
<1>12. Heights'
  BY <1>1, <1>3, <1>5, <1>6, <1>7 DEF Heights, Held
<1>13. Scanned'
  <2>1. FromTop(1)' = k
    BY <1>1, <1>7, Sizes DEF FromTop
  <2> QED
    BY <1>4, <1>5, <1>6, <2>1 DEF Scanned, KnownKey
<1> QED
  BY <1>1, <1>3, <1>5, <1>6, <1>10, <1>11, <1>12, <1>13 DEF Shape, Innermost, Entered

\* The object loop starts in the slot of the scan.
LEMMA StartObjectStep == ASSUME Shape, at = "scan", StartObject, UNCHANGED heap PROVE Shape'
<1>1. TypeOK /\ Frames /\ heap' = heap /\ at' = "object"
  BY DEF Shape, StartObject
<1> DEFINE c == [Caller EXCEPT !.kind = "object"]
<1>2. stack' = Append(Pop(stack, 1), Nil) /\ SetCaller(c) /\ out' = Append(out, "{")
  BY DEF StartObject
<1>3. /\ calls # <<>> /\ Caller \in Call /\ Base = Caller.slot
      /\ Base \in 1 .. Len(stack) /\ Len(stack) = Base + 1
  BY InLoop
<1>4. c \in Call /\ c.slot = Caller.slot /\ c.order = Caller.order /\ c.kind = "object"
  BY <1>3 DEF Call
<1> HIDE DEF c
<1>5. /\ calls' \in Seq(Call) /\ Len(calls') = Len(calls) /\ calls' # <<>> /\ Caller' = c
      /\ \A i \in 1 .. Len(calls) : i < Len(calls) => calls'[i] = calls[i]
      /\ calls'[Len(calls)] = c
  BY <1>1, <1>2, <1>3, <1>4, SetCallerProperties
<1>6. /\ stack' \in Seq(Key \cup {Opaque}) /\ Len(stack') = Len(stack)
      /\ \A j \in 1 .. Len(stack) : j < Len(stack) => stack'[j] = stack[j]
  <2>1. stack \in Seq(Key \cup {Opaque}) /\ Len(stack) > 0 /\ Nil \in Key \cup {Opaque}
    BY <1>1, Sizes DEF Key, Value
  <2>2. stack' = Append(Pop(stack, 1), Nil)
    BY <1>2
  <2> QED
    BY <2>1, <2>2, TopReplaced
<1>7. \A i \in 1 .. Len(calls) : /\ calls'[i].slot = calls[i].slot
                                 /\ calls'[i].order = calls[i].order
                                 /\ i < Len(calls) => calls'[i].kind = calls[i].kind
  <2>1. Len(calls) \in Nat /\ calls[Len(calls)] = Caller
    BY <1>1, Sizes DEF Caller
  <2> QED
    BY <1>4, <1>5, <2>1
<1>8. Base <= Len(stack') /\ \A j \in 1 .. Base : stack'[j] = stack[j]
  <2>1. \A j \in 1 .. Base : j \in 1 .. Len(stack) /\ j < Len(stack)
    BY <1>3
  <2> QED
    BY <1>3, <1>6, <2>1
<1>9. Frames'
  <2>1. Caller'.kind # "scan"
    BY <1>4, <1>5
  <2> QED
    BY <1>1, <1>5, <1>6, <1>7, <1>8, <2>1, FramesKept
<1>10. TypeOK'
  <2>1. out \in Seq(Written) /\ "{" \in Written
    BY <1>1 DEF TypeOK, Written
  <2>2. out' \in Seq(Written)
    BY <1>2, <2>1, AppendProperties
  <2> QED
    BY <1>1, <1>5, <1>6, <2>2 DEF TypeOK
<1>11. Heights'
  BY <1>1, <1>3, <1>4, <1>5, <1>6 DEF Heights, Held
<1> QED
  BY <1>1, <1>4, <1>5, <1>9, <1>10, <1>11 DEF Shape, Innermost, Entered, Scanned

\* The array loop starts without the scan's slot.
LEMMA ScanEndStep == ASSUME Shape, ScanEnd PROVE Shape'
<1>1. TypeOK /\ Frames /\ heap' = heap /\ at = "scan"
  BY DEF Shape, ScanEnd
<1>2. CASE StartObject
  BY <1>1, <1>2, StartObjectStep
<1>3. CASE ~StartObject
  <2> DEFINE c == [Caller EXCEPT !.kind = "array"]
  <2>1. stack' = Pop(stack, 1) /\ SetCaller(c) /\ out' = Append(out, "[") /\ at' = "array"
    BY <1>3 DEF ScanEnd
  <2>2. /\ calls # <<>> /\ Caller \in Call /\ Base = Caller.slot
        /\ Base \in 1 .. Len(stack) /\ Len(stack) = Base + 1
    BY <1>1, InLoop
  <2>3. c \in Call /\ c.slot = Caller.slot /\ c.order = Caller.order /\ c.kind = "array"
    BY <2>2 DEF Call
  <2> HIDE DEF c
  <2>4. /\ calls' \in Seq(Call) /\ Len(calls') = Len(calls) /\ calls' # <<>> /\ Caller' = c
        /\ \A i \in 1 .. Len(calls) : i < Len(calls) => calls'[i] = calls[i]
        /\ calls'[Len(calls)] = c
    BY <1>1, <2>1, <2>2, <2>3, SetCallerProperties
  <2>5. /\ stack' \in Seq(Key \cup {Opaque}) /\ Len(stack') = Len(stack) - 1
        /\ \A j \in 1 .. Len(stack) - 1 : stack'[j] = stack[j]
    <3>1. stack \in Seq(Key \cup {Opaque}) /\ 1 \in Nat /\ 1 <= Len(stack)
      BY <1>1, Sizes
    <3> QED
      BY <2>1, <3>1, PopProperties
  <2>6. \A i \in 1 .. Len(calls) : /\ calls'[i].slot = calls[i].slot
                                   /\ calls'[i].order = calls[i].order
                                   /\ i < Len(calls) => calls'[i].kind = calls[i].kind
    <3>1. Len(calls) \in Nat /\ calls[Len(calls)] = Caller
      BY <1>1, Sizes DEF Caller
    <3> QED
      BY <2>3, <2>4, <3>1
  <2>7. Base <= Len(stack') /\ \A j \in 1 .. Base : stack'[j] = stack[j]
    BY <2>2, <2>5
  <2>8. Frames'
    <3>1. Caller'.kind # "scan"
      BY <2>3, <2>4
    <3> QED
      BY <1>1, <2>4, <2>5, <2>6, <2>7, <3>1, FramesKept
  <2>9. TypeOK'
    <3>1. out \in Seq(Written) /\ "[" \in Written
      BY <1>1 DEF TypeOK, Written
    <3>2. out' \in Seq(Written)
      BY <2>1, <3>1, AppendProperties
    <3> QED
      BY <1>1, <2>1, <2>4, <2>5, <3>2 DEF TypeOK
  <2>10. Heights'
    BY <2>1, <2>2, <2>3, <2>4, <2>5 DEF Heights, Held
  <2> QED
    BY <2>1, <2>3, <2>4, <2>8, <2>9, <2>10 DEF Shape, Innermost, Entered, Scanned
<1> QED
  BY <1>2, <1>3

\* An item is pushed above what the loop holds, and written or entered.
LEMMA PushedStep ==
    ASSUME Shape, at \in {"array", "object"}, UNCHANGED <<heap, calls>>,
           stack' \in Seq(Key \cup {Opaque}), Len(stack') = Len(stack) + 1,
           \A j \in 1 .. Base : stack'[j] = stack[j],
           NEW v \in Value \cup {Opaque}, stack'[Len(stack) + 1] = v,
           v.ty = "table" => v.id \in DOMAIN heap,
           NEW prefix \in Seq(Written), Emit(prefix, v)
    PROVE  Shape'
<1>1. TypeOK /\ Frames
  BY DEF Shape
<1>2. out' \in Seq(Written) /\ at' \in {"enter", "emitted"} /\ (at' = "enter" => IsTable(v))
  BY <1>1, EmitType
<1>3. /\ calls # <<>> /\ Caller.kind = at /\ Base = Caller.slot
      /\ Base \in 1 .. Len(stack) /\ Len(stack) = Base + Held(Caller)
  BY InLoop
<1>4. Caller' = Caller /\ calls' \in Seq(Call) /\ Len(stack) \in Nat
  BY <1>1, Sizes DEF Caller
<1>5. Frames'
  <2>1. Caller'.kind # "scan" /\ Base <= Len(stack')
    BY <1>3, <1>4
  <2> QED
    BY <1>1, <1>4, <2>1, FramesKept
<1>6. TypeOK'
  BY <1>1, <1>2 DEF TypeOK
<1>7. Heights'
  BY <1>2, <1>3, <1>4 DEF Heights
<1>8. Entered'
  <2>1. FromTop(1)' = v
    BY <1>4 DEF FromTop
  <2>2. at' = "enter" => v = Table(v.id) /\ v.id \in DOMAIN heap
    BY <1>2 DEF IsTable, Table, Value, Nil, Opaque
  <2> QED
    BY <2>1, <2>2 DEF Entered, Refs
<1> QED
  BY <1>2, <1>5, <1>6, <1>7, <1>8 DEF Shape, Innermost, Scanned

\* What goes between two items.
LEMMA CommaType == \A c : Comma(c) \in Seq(Written)
<1>1. "," \in Written
  BY DEF Written
<1>2. <<",">> \in Seq(Written)
  BY <1>1, OneSeq
<1>3. <<>> \in Seq(Written)
  OBVIOUS
<1> QED
  BY <1>2, <1>3 DEF Comma

\* The array loop reads an element, or nil where there is none.
LEMMA ArrayItemStep == ASSUME Shape, ArrayItem PROVE Shape'
<1> DEFINE v == RawGet(Tab(Caller), Caller.done + 1)
<1>1. at = "array" /\ stack' = Append(stack, v) /\ Emit(Comma(Caller), v) /\ UNCHANGED <<heap, calls>>
  BY DEF ArrayItem
<1>2. v \in Value \cup {Opaque} /\ (v.ty = "table" => v.id \in DOMAIN heap)
  <2>1. CASE \E e \in Tab(Caller) : e[1] = Index(Caller.done + 1)
    <3>1. \E e \in Tab(Caller) : v = e[2]
      BY <2>1 DEF RawGet
    <3> QED
      BY <1>1, <3>1, InLoop
  <2>2. CASE ~ \E e \in Tab(Caller) : e[1] = Index(Caller.done + 1)
    BY <2>2 DEF RawGet, Nil, Value
  <2> QED
    BY <2>1, <2>2
<1> HIDE DEF v
<1>3. /\ stack' \in Seq(Key \cup {Opaque}) /\ Len(stack') = Len(stack) + 1
      /\ \A j \in 1 .. Base : stack'[j] = stack[j]
      /\ stack'[Len(stack) + 1] = v
  <2>1. TypeOK /\ Frames
    BY DEF Shape
  <2>2. stack \in Seq(Key \cup {Opaque}) /\ Base \in 1 .. Len(stack) /\ v \in Key \cup {Opaque}
    BY <1>2, <2>1, Sizes, BelowBase DEF Key
  <2> QED
    BY <1>1, <2>2, AppendProperties
<1> QED
  BY <1>1, <1>2, <1>3, CommaType, PushedStep

\* What the object loop pushes: the converted key under the value.
LEMMA ObjectItemStack ==
    ASSUME Shape, ObjectItem, NEW e, e = NextEntry(Caller, FromTop(1))
    PROVE  /\ e \in Tab(Caller) /\ e[1] \in Key /\ e[2] \in Value \cup {Opaque}
           /\ e[2].ty = "table" => e[2].id \in DOMAIN heap
           /\ ToText(e[1]) \in Key /\ KeyText(e[1]) \in Written
           /\ e = Caller.order[Place(Caller, FromTop(1)) + 1]
           /\ Place(Caller, FromTop(1)) + 1 \in 1 .. Len(Caller.order)
           /\ stack' \in Seq(Key \cup {Opaque}) /\ Len(stack') = Len(stack) + 1
           /\ \A j \in 1 .. Base : stack'[j] = stack[j]
           /\ stack'[Base + 1] = ToText(e[1]) /\ stack'[Len(stack) + 1] = e[2]
<1>1. /\ at = "object" /\ KnownKey(Caller, FromTop(1)) /\ HasNext(Caller, FromTop(1))
      /\ stack' = Pop(stack, 1) \o <<ToText(e[1]), e[2]>>
  BY DEF ObjectItem
<1>2. TypeOK /\ Frames
  BY DEF Shape
<1>3. /\ calls # <<>> /\ Caller \in Call /\ Base \in 1 .. Len(stack) /\ Len(stack) = Base + 1
      /\ Tab(Caller) \subseteq Key \X (Value \cup {Opaque})
      /\ \A f \in Tab(Caller) : f[2].ty = "table" => f[2].id \in DOMAIN heap
  BY <1>1, InLoop
<1>4. IsOrder(Caller.order, Tab(Caller), heap)
  BY <1>2, <1>3, Sizes
<1> DEFINE m == Place(Caller, FromTop(1)) + 1
<1>5. m \in 1 .. Len(Caller.order) /\ e = Caller.order[m] /\ e \in Tab(Caller)
  BY <1>1, <1>3, <1>4, NextProperties
<1>6. e[1] \in Key /\ e[2] \in Value \cup {Opaque} /\ (e[2].ty = "table" => e[2].id \in DOMAIN heap)
  BY <1>3, <1>5
<1>7. ToText(e[1]) \in Key /\ KeyText(e[1]) \in Written
  <2> HIDE DEF m
  <2>1. e[1].ty = "index" => e[1].n <= Len(Digits)
    BY <1>4, <1>5 DEF IsOrder
  <2> QED
    BY <1>6, <2>1, TextType
<1> DEFINE p == Pop(stack, 1)
           q == <<ToText(e[1]), e[2]>>
<1>8. /\ p \in Seq(Key \cup {Opaque}) /\ Len(p) = Len(stack) - 1
      /\ \A j \in 1 .. Len(stack) - 1 : p[j] = stack[j]
  <2>1. stack \in Seq(Key \cup {Opaque}) /\ 1 \in Nat /\ 1 <= Len(stack)
    BY <1>2, Sizes
  <2> QED
    BY <2>1, PopProperties
<1>9. q \in Seq(Key \cup {Opaque}) /\ Len(q) = 2 /\ q[1] = ToText(e[1]) /\ q[2] = e[2]
  <2>1. ToText(e[1]) \in Key \cup {Opaque} /\ e[2] \in Key \cup {Opaque}
    BY <1>6, <1>7 DEF Key
  <2> QED
    BY <2>1, PairSeq
<1>10. stack' = p \o q
  BY <1>1
<1> HIDE DEF p, q
<1>11. /\ p \o q \in Seq(Key \cup {Opaque}) /\ Len(p \o q) = Len(p) + Len(q)
       /\ \A j \in 1 .. Len(p) + Len(q) : (p \o q)[j] = IF j <= Len(p) THEN p[j] ELSE q[j - Len(p)]
  BY <1>8, <1>9, ConcatProperties
<1>12. Len(stack) \in Nat /\ Base \in Nat
  BY <1>2, <1>3, Sizes
<1>13. Len(p) = Base /\ Len(p) + Len(q) = Base + 2 /\ Len(stack) + 1 = Base + 2
  BY <1>3, <1>8, <1>9, <1>12
<1>14. ASSUME NEW j \in 1 .. Base PROVE stack'[j] = stack[j]
  BY <1>3, <1>8, <1>10, <1>11, <1>12, <1>13
<1>15. stack'[Base + 1] = q[1] /\ stack'[Base + 2] = q[2]
  BY <1>10, <1>11, <1>12, <1>13
<1> QED
  BY <1>5, <1>6, <1>7, <1>9, <1>10, <1>11, <1>13, <1>14, <1>15

\* The object loop writes an entry, or enters its table.
LEMMA ObjectItemStep == ASSUME Shape, ObjectItem PROVE Shape'
<1> DEFINE e == NextEntry(Caller, FromTop(1))
<1>1. at = "object" /\ Emit(Comma(Caller) \o <<KeyText(e[1]), ":">>, e[2]) /\ UNCHANGED <<heap, calls>>
  BY DEF ObjectItem
<1>2. /\ e[2] \in Value \cup {Opaque} /\ KeyText(e[1]) \in Written
      /\ e[2].ty = "table" => e[2].id \in DOMAIN heap
      /\ stack' \in Seq(Key \cup {Opaque}) /\ Len(stack') = Len(stack) + 1
      /\ \A j \in 1 .. Base : stack'[j] = stack[j]
      /\ stack'[Len(stack) + 1] = e[2]
  BY ObjectItemStack
<1> HIDE DEF e
<1>3. Comma(Caller) \o <<KeyText(e[1]), ":">> \in Seq(Written)
  <2>1. ":" \in Written
    BY DEF Written
  <2>2. <<KeyText(e[1]), ":">> \in Seq(Written)
    BY <1>2, <2>1, PairSeq
  <2> QED
    BY <2>2, CommaType, ConcatProperties
<1> QED
  BY <1>1, <1>2, <1>3, PushedStep

\* A call returns to the loop that made it, or to the caller of the conversion.
LEMMA FinishStep ==
    ASSUME Shape, calls # <<>>, UNCHANGED heap, NEW bracket \in Written, Finish(bracket),
           stack' \in Seq(Key \cup {Opaque}), Len(stack') = Base,
           \A j \in 1 .. Base : stack'[j] = stack[j]
    PROVE  Shape'
<1>1. TypeOK /\ Frames /\ calls' = Pop(calls, 1) /\ at' = "emitted" /\ out' = Append(out, bracket)
  BY DEF Shape, Finish
<1>2. Base \in Nat /\ Base = Caller.slot
  BY <1>1, Sizes DEF Base
<1>3. /\ calls' \in Seq(Call) /\ Frames'
      /\ calls' # <<>> => /\ Caller'.kind # "scan"
                          /\ Caller.slot = Caller'.slot + Held(Caller') + 1
      /\ calls' = <<>> => Caller.slot = 1
  BY <1>1, <1>2, FramesPopped
<1>4. TypeOK'
  <2>1. out' \in Seq(Written)
    BY <1>1, AppendProperties DEF TypeOK
  <2> QED
    BY <1>1, <1>3, <2>1 DEF TypeOK
<1>5. Heights'
  BY <1>1, <1>2, <1>3 DEF Heights
<1> QED
  BY <1>1, <1>3, <1>4, <1>5 DEF Shape, Innermost, Scanned, Entered

\* The array loop ends without anything on the stack.
LEMMA ArrayEndStep == ASSUME Shape, ArrayEnd PROVE Shape'
<1>1. at = "array" /\ Finish("]") /\ UNCHANGED <<heap, stack>>
  BY DEF ArrayEnd
<1>2. calls # <<>> /\ Caller.kind = "array" /\ Len(stack) = Base + Held(Caller) /\ Base \in 1 .. Len(stack)
  BY <1>1, InLoop
<1>3. stack' \in Seq(Key \cup {Opaque}) /\ Len(stack') = Base
  BY <1>1, <1>2 DEF Shape, TypeOK, Held
<1>4. "]" \in Written
  BY DEF Written
<1> QED
  BY <1>1, <1>2, <1>3, <1>4, FinishStep

\* The object loop ends and lua_next has popped the key.
LEMMA ObjectEndStep == ASSUME Shape, ObjectEnd PROVE Shape'
<1>1. at = "object" /\ Finish("}") /\ UNCHANGED heap /\ stack' = Pop(stack, 1)
  BY DEF ObjectEnd
<1>2. calls # <<>> /\ Len(stack) = Base + 1 /\ Base \in 1 .. Len(stack)
  BY <1>1, InLoop
<1>3. /\ stack' \in Seq(Key \cup {Opaque}) /\ Len(stack') = Len(stack) - 1
      /\ \A j \in 1 .. Len(stack) - 1 : stack'[j] = stack[j]
  <2>1. stack \in Seq(Key \cup {Opaque}) /\ 1 \in Nat /\ 1 <= Len(stack)
    BY <1>2, Sizes DEF Shape
  <2> QED
    BY <1>1, <2>1, PopProperties
<1>4. Len(stack') = Base /\ \A j \in 1 .. Base : stack'[j] = stack[j]
  BY <1>2, <1>3
<1>5. "}" \in Written
  BY DEF Written
<1> QED
  BY <1>1, <1>2, <1>3, <1>4, <1>5, FinishStep

\* The written item is popped and its loop goes on.
LEMMA ItemWrittenStep == ASSUME Shape, ItemWritten PROVE Shape'
<1> DEFINE c == [Caller EXCEPT !.done = @ + 1]
<1>1. /\ TypeOK /\ Frames /\ Heights /\ at = "emitted" /\ calls # <<>> /\ heap' = heap /\ out' = out
      /\ stack' = Pop(stack, 1) /\ SetCaller(c) /\ at' = Caller.kind
  BY DEF Shape, ItemWritten
<1>2. Caller \in Call /\ Caller.slot \in 1 .. Len(stack) /\ Held(Caller) \in {0, 1}
  BY <1>1, Sizes
<1>3. /\ c \in Call /\ c.slot = Caller.slot /\ c.order = Caller.order /\ c.kind = Caller.kind
      /\ Held(c) = Held(Caller)
  BY <1>2 DEF Call, Held
<1> HIDE DEF c
<1>4. /\ calls' \in Seq(Call) /\ Len(calls') = Len(calls) /\ calls' # <<>> /\ Caller' = c
      /\ \A i \in 1 .. Len(calls) : i < Len(calls) => calls'[i] = calls[i]
      /\ calls'[Len(calls)] = c
  BY <1>1, <1>3, SetCallerProperties
<1>5. Caller.kind \in {"array", "object"}
  <2>1. Len(calls) \in 1 .. Len(calls) /\ Caller = calls[Len(calls)]
    BY <1>1, Sizes DEF Caller
  <2> QED
    BY <1>1, <1>2, <2>1 DEF Frames, Call
<1>6. Len(stack) = Base + Held(Caller) + 1 /\ Base = Caller.slot /\ Base \in Nat
  BY <1>1, <1>2 DEF Heights, Base
<1>7. /\ stack' \in Seq(Key \cup {Opaque}) /\ Len(stack') = Len(stack) - 1
      /\ \A j \in 1 .. Len(stack) - 1 : stack'[j] = stack[j]
  <2>1. stack \in Seq(Key \cup {Opaque}) /\ 1 \in Nat /\ 1 <= Len(stack)
    BY <1>1, Sizes
  <2> QED
    BY <1>1, <2>1, PopProperties
<1>8. Base <= Len(stack') /\ \A j \in 1 .. Base : stack'[j] = stack[j]
  BY <1>2, <1>6, <1>7
<1>9. \A i \in 1 .. Len(calls) : /\ calls'[i].slot = calls[i].slot
                                 /\ calls'[i].order = calls[i].order
                                 /\ i < Len(calls) => calls'[i].kind = calls[i].kind
  <2>1. Len(calls) \in Nat /\ calls[Len(calls)] = Caller
    BY <1>1, Sizes DEF Caller
  <2> QED
    BY <1>3, <1>4, <2>1
<1>10. Frames'
  <2>1. Caller'.kind # "scan"
    BY <1>3, <1>4, <1>5
  <2> QED
    BY <1>1, <1>4, <1>7, <1>8, <1>9, <2>1, FramesKept
<1>11. TypeOK'
  BY <1>1, <1>4, <1>5, <1>7 DEF TypeOK
<1>12. Heights'
  <2>1. Len(stack') = Caller'.slot + Held(Caller')
    BY <1>2, <1>3, <1>4, <1>6, <1>7
  <2>2. Held(Caller') \in {0, 1} /\ Caller'.slot \in Nat
    BY <1>2, <1>3, <1>4, <1>6
  <2>3. at' \notin {"enter", "emitted"}
    BY <1>1, <1>5
  <2> QED
    BY <1>4, <2>1, <2>2, <2>3 DEF Heights
<1> QED
  BY <1>1, <1>3, <1>4, <1>5, <1>10, <1>11, <1>12 DEF Shape, Innermost, Scanned, Entered

\* A step that moves only the control to its end.
LEMMA StopStep ==
    ASSUME Shape, UNCHANGED <<heap, stack, calls, out>>,
           \/ at' = "done" /\ calls = <<>>
           \/ at' = "error" /\ at = "object"
           \/ at' = "undefined" /\ at \in {"enter", "scan", "array", "object"}
    PROVE  Shape'
<1>1. TypeOK /\ Frames /\ calls' \in Seq(Call) /\ stack' \in Seq(Key \cup {Opaque})
  BY DEF Shape, TypeOK
<1>2. Caller' = Caller /\ Base \in 1 .. Len(stack) /\ Len(stack) \in Nat
  BY <1>1, Sizes, BelowBase DEF Caller
<1>3. calls # <<>> /\ Caller.kind = "scan" => at' \in {"scan", "undefined"}
  BY InLoop
<1>4. Frames'
  BY <1>1, <1>2, <1>3, FramesKept
<1>5. TypeOK' /\ Heights'
  BY <1>1 DEF TypeOK, Heights, Shape
<1> QED
  BY <1>4, <1>5 DEF Shape, Innermost, Scanned, Entered

\* The conversion starts with its table on the stack.
LEMMA ShapeInit == Init => Shape
<1> SUFFICES ASSUME Init PROVE Shape
  OBVIOUS
<1>1. heap \in Heaps /\ stack = <<Table(1)>> /\ calls = <<>> /\ at = "enter" /\ out = <<>>
  BY DEF Init
<1>2. TypeOK
  <2>1. Table(1) \in Key \cup {Opaque}
    BY DEF Table, Key, Value
  <2> QED
    BY <1>1, <2>1 DEF TypeOK
<1>3. FromTop(1) = Table(1)
  BY <1>1 DEF FromTop
<1>4. Table(1) \in Refs
  BY <1>2, HeapTables DEF Refs
<1> QED
  BY <1>1, <1>2, <1>3, <1>4 DEF Shape, Innermost, Frames, Heights, Scanned, Entered

\* Shape is inductive.
LEMMA ShapeStep == Shape /\ [Next]_wvars => Shape'
<1> SUFFICES ASSUME Shape, [Next]_wvars PROVE Shape'
  OBVIOUS
<1>1. CASE EnterTooDeep
  BY <1>1, EnterTooDeepStep
<1>2. CASE Enter
  BY <1>2, EnterStep
<1>3. CASE ScanIndex
  BY <1>3, ScanIndexStep
<1>4. CASE ScanOther
  BY <1>4, StartObjectStep DEF ScanOther
<1>5. CASE ScanEnd
  BY <1>5, ScanEndStep
<1>6. CASE ArrayItem
  BY <1>6, ArrayItemStep
<1>7. CASE ArrayEnd
  BY <1>7, ArrayEndStep
<1>8. CASE ObjectItem
  BY <1>8, ObjectItemStep
<1>9. CASE ObjectInvalidKey
  BY <1>9, StopStep DEF ObjectInvalidKey
<1>10. CASE ObjectEnd
  BY <1>10, ObjectEndStep
<1>11. CASE ItemWritten
  BY <1>11, ItemWrittenStep
<1>12. CASE Return
  BY <1>12, StopStep DEF Return
<1>14. CASE Overrun
  <2>1. at \in {"enter", "scan", "array", "object"}
    BY <1>14 DEF Overrun, Pushes
  <2> QED
    BY <1>14, <2>1, StopStep DEF Overrun
<1>13. CASE UNCHANGED wvars
  BY <1>13 DEF wvars, Shape, TypeOK, Innermost, Frames, Heights, Scanned, Entered, Caller,
               FromTop, Refs, Tab, KnownKey
<1> QED
  BY <1>1, <1>2, <1>3, <1>4, <1>5, <1>6, <1>7, <1>8, <1>9, <1>10, <1>11, <1>12, <1>13, <1>14
     DEF Next

\* Hence it always holds.
LEMMA ShapeInvariant == Spec => []Shape
BY ShapeInit, ShapeStep, PTL DEF Spec

\* The stack of every active call is where it was.
LEMMA ShapeRestores == Shape => StackRestored
<1> SUFFICES ASSUME Shape PROVE StackRestored
  OBVIOUS
<1>1. TypeOK /\ Frames /\ Heights
  BY DEF Shape
<1>2. ASSUME NEW i \in 1 .. Len(calls)
      PROVE  /\ calls[i].slot <= Len(stack)
             /\ IsTable(stack[calls[i].slot])
             /\ Range(calls[i].order) = Tab(calls[i])
             /\ i > 1 => calls[i].slot = calls[i - 1].slot + Held(calls[i - 1]) + 1
  <2>1. IsTable(stack[calls[i].slot])
    BY <1>1, HeapTables DEF Frames
  <2>2. Range(calls[i].order) = Tab(calls[i])
    BY <1>1, Sizes DEF IsOrder
  <2> QED
    BY <1>1, <2>1, <2>2 DEF Frames
<1>3. at = "done" => stack = <<Table(1)>>
  <2>1. at = "done" => Len(stack) = 1
    BY DEF Shape, Innermost, Heights
  <2>2. stack \in Seq(Key \cup {Opaque}) /\ stack[1] = Table(1)
    BY <1>1, Sizes DEF Frames
  <2> QED
    BY <2>1, <2>2
<1> QED
  BY <1>1, <1>2, <1>3 DEF StackRestored, Heights

-----------------------------------------------------------------------------
(* How much of the stack is in use, in a heap whose tables have a depth.   *)

\* The first table has depth 1, and each is one deeper than those that refer to it.
Layered(h, depth) ==
    /\ depth \in [DOMAIN h -> Nat] /\ depth[1] = 1
    /\ \A j \in DOMAIN h : \A e \in h[j] : IsTable(e[2]) => depth[e[2].id] = depth[j] + 1

\* A call's table is as deep as the call, and at most two slots are used per level.
Levels(depth) ==
    /\ \A i \in 1 .. Len(calls) :
          depth[stack[calls[i].slot].id] = i /\ calls[i].slot <= 2 * i - 1
    /\ at = "enter" => depth[FromTop(1).id] = Len(calls) + 1

\* Slots are counted in natural numbers.
LEMMA Doubled ==
    \A n, s, m \in Nat :
        /\ s <= 2 * n - 1 /\ m = s + 1 + 1 => m <= 2 * (n + 1) - 1
        /\ s <= 2 * n - 1 /\ m = s + 0 + 1 => m <= 2 * (n + 1) - 1
OBVIOUS

\* A step that leaves the slots up to Base and the calls' slots alone, or ends the
\* innermost call.
LEMMA LevelsKept ==
    ASSUME NEW depth, Shape, Levels(depth), calls' \in Seq(Call), Len(calls') <= Len(calls),
           \A i \in 1 .. Len(calls') : calls'[i].slot = calls[i].slot,
           \A j \in 1 .. Base : stack'[j] = stack[j],
           at' = "enter" => depth[FromTop(1)'.id] = Len(calls') + 1
    PROVE  Levels(depth)'
<1>1. Len(calls) \in Nat /\ Len(calls') \in Nat /\ \A i \in 1 .. Len(calls) : calls[i].slot \in 1 .. Base
  BY BelowBase, Sizes DEF Shape
<1>2. \A i \in 1 .. Len(calls') : i \in 1 .. Len(calls) /\ stack'[calls'[i].slot] = stack[calls[i].slot]
  BY <1>1
<1> QED
  BY <1>2 DEF Levels

\* A call begins on a table one deeper than its caller's.
LEMMA EnterLevels == ASSUME NEW depth, Shape, Levels(depth), Enter PROVE Levels(depth)'
<1>1. /\ TypeOK /\ Frames /\ at = "enter" /\ at' = "scan" /\ stack' = Append(stack, Nil)
      /\ depth[FromTop(1).id] = Len(calls) + 1
  BY DEF Shape, Enter, Levels
<1>2. PICK o : calls' = Append(calls, [slot |-> Len(stack), order |-> o, size |-> 0,
                                       done |-> 0, kind |-> "scan"])
  BY DEF Enter
<1> DEFINE n == Len(calls)
<1>3. /\ stack \in Seq(Key \cup {Opaque}) /\ Len(stack) \in Nat \ {0} /\ calls \in Seq(Call) /\ n \in Nat
      /\ \A i \in 1 .. n : calls[i].slot \in 1 .. Len(stack)
  BY <1>1, BelowBase, Sizes
<1>4. \A j \in 1 .. Len(stack) : stack'[j] = stack[j]
  BY <1>1, <1>3
<1>5. /\ Len(calls') = n + 1 /\ calls'[n + 1].slot = Len(stack)
      /\ \A i \in 1 .. n : calls'[i] = calls[i]
  BY <1>2, <1>3
<1>6. stack'[Len(stack)] = FromTop(1)
  BY <1>3, <1>4 DEF FromTop
<1>7. Len(stack) <= 2 * (n + 1) - 1
  <2>1. CASE calls = <<>>
    BY <1>1, <1>3, <2>1 DEF Shape, Heights
  <2>2. CASE calls # <<>>
    <3>1. /\ Len(stack) = Caller.slot + Held(Caller) + 1 /\ Held(Caller) \in {0, 1}
          /\ n \in 1 .. n /\ Caller = calls[n] /\ Caller.slot \in Nat
      BY <1>1, <2>2, Sizes DEF Shape, Heights, Caller
    <3>2. Caller.slot <= 2 * n - 1
      BY <3>1 DEF Levels
    <3> HIDE DEF n
    <3> QED
      BY <1>3, <3>1, <3>2, Doubled
  <2> QED
    BY <2>1, <2>2
<1>8. ASSUME NEW i \in 1 .. n + 1
      PROVE  depth[stack'[calls'[i].slot].id] = i /\ calls'[i].slot <= 2 * i - 1
  <2>1. CASE i = n + 1
    BY <1>1, <1>5, <1>6, <1>7, <2>1
  <2>2. CASE i # n + 1
    <3>1. i \in 1 .. n
      BY <1>3, <2>2
    <3>2. calls'[i].slot = calls[i].slot /\ stack'[calls[i].slot] = stack[calls[i].slot]
      BY <1>3, <1>4, <1>5, <3>1
    <3> QED
      BY <3>1, <3>2 DEF Levels
  <2> QED
    BY <2>1, <2>2
<1> QED
  BY <1>1, <1>5, <1>8 DEF Levels

\* The scan and the start of a loop change the key's slot and nothing below it.
LEMMA ScanLevels ==
    ASSUME NEW depth, Shape, Levels(depth), ScanIndex \/ ScanOther \/ ScanEnd
    PROVE  Levels(depth)'
<1>1. /\ TypeOK /\ Frames /\ calls # <<>> /\ Caller \in Call /\ Base \in 1 .. Len(stack)
      /\ Len(stack) = Base + 1 /\ at = "scan"
  BY InLoop DEF Shape, ScanIndex, ScanOther, ScanEnd
<1>2. stack \in Seq(Key \cup {Opaque}) /\ Len(stack) \in Nat /\ Base \in Nat
  BY <1>1, Sizes
<1>3. \E c \in Call : SetCaller(c) /\ c.slot = Caller.slot
  <2>1. CASE ScanIndex
    <3>1. [Caller EXCEPT !.size = @ + 1] \in Call /\ [Caller EXCEPT !.size = @ + 1].slot = Caller.slot
      BY <1>1 DEF Call
    <3> QED
      BY <2>1, <3>1 DEF ScanIndex
  <2>2. CASE StartObject
    <3>1. [Caller EXCEPT !.kind = "object"] \in Call /\ [Caller EXCEPT !.kind = "object"].slot = Caller.slot
      BY <1>1 DEF Call
    <3> QED
      BY <2>2, <3>1 DEF StartObject
  <2>3. CASE ScanEnd /\ ~StartObject
    <3>1. [Caller EXCEPT !.kind = "array"] \in Call /\ [Caller EXCEPT !.kind = "array"].slot = Caller.slot
      BY <1>1 DEF Call
    <3> QED
      BY <2>3, <3>1 DEF ScanEnd
  <2> QED
    BY <2>1, <2>2, <2>3 DEF ScanOther
<1>4. /\ calls' \in Seq(Call) /\ Len(calls') = Len(calls)
      /\ \A i \in 1 .. Len(calls') : calls'[i].slot = calls[i].slot
  <2>1. PICK c \in Call : SetCaller(c) /\ c.slot = Caller.slot
    BY <1>3
  <2>2. /\ calls' \in Seq(Call) /\ Len(calls') = Len(calls) /\ calls'[Len(calls)] = c
        /\ \A i \in 1 .. Len(calls) : i < Len(calls) => calls'[i] = calls[i]
    BY <1>1, <2>1, SetCallerProperties
  <2>3. Len(calls) \in Nat /\ calls[Len(calls)] = Caller
    BY <1>1, Sizes DEF Caller
  <2> QED
    BY <2>1, <2>2, <2>3
<1>5. \A j \in 1 .. Len(stack) - 1 : Pop(stack, 1)[j] = stack[j]
  <2>1. 1 \in Nat /\ 1 <= Len(stack) /\ stack \in Seq(Key \cup {Opaque})
    BY <1>1, <1>2
  <2> QED
    BY <2>1, PopProperties
<1>6. \/ stack' = Pop(stack, 1)
      \/ \E v : stack' = Append(Pop(stack, 1), v)
  BY DEF ScanIndex, ScanOther, ScanEnd, StartObject
<1>7. \A j \in 1 .. Base : stack'[j] = stack[j]
  <2>1. Pop(stack, 1) \in Seq(Key \cup {Opaque}) /\ Len(Pop(stack, 1)) = Base
    BY <1>1, <1>2, PopProperties
  <2>2. CASE stack' = Pop(stack, 1)
    BY <1>1, <1>2, <1>5, <2>2
  <2>3. ASSUME NEW v, stack' = Append(Pop(stack, 1), v) PROVE \A j \in 1 .. Base : stack'[j] = stack[j]
    <3> DEFINE p == Pop(stack, 1)
    <3>1. p \in Seq(Key \cup {Opaque}) /\ Len(p) = Base /\ stack' = Append(p, v)
      BY <2>1, <2>3
    <3>2. \A j \in 1 .. Base : p[j] = stack[j]
      BY <1>1, <1>2, <1>5
    <3> HIDE DEF p
    <3>3. \A j \in 1 .. Base : stack'[j] = p[j]
      BY <1>2, <3>1
    <3> QED
      BY <3>2, <3>3
  <2> QED
    BY <1>6, <2>2, <2>3
<1>8. at' # "enter"
  BY <1>1 DEF ScanIndex, ScanOther, ScanEnd, StartObject
<1>9. Len(calls') <= Len(calls)
  BY <1>1, <1>4, Sizes
<1> QED
  BY <1>4, <1>7, <1>8, <1>9, LevelsKept

\* A table that an item of the innermost call refers to is one deeper.
LEMMA ItemLevels ==
    ASSUME NEW depth, Layered(heap, depth), Shape, Levels(depth), ArrayItem \/ ObjectItem
    PROVE  Levels(depth)'
<1>1. /\ TypeOK /\ Frames /\ calls # <<>> /\ Base \in 1 .. Len(stack) /\ Len(stack) \in Nat
      /\ stack \in Seq(Key \cup {Opaque}) /\ UNCHANGED <<heap, calls>> /\ Tab(Caller) \in Range(heap)
      /\ Len(calls) \in 1 .. Len(calls) /\ Caller = calls[Len(calls)] /\ calls \in Seq(Call)
      /\ Tab(Caller) = heap[stack[Caller.slot].id] /\ stack[Caller.slot].id \in DOMAIN heap
  <2>1. /\ TypeOK /\ Frames /\ calls # <<>> /\ Base \in 1 .. Len(stack) /\ UNCHANGED <<heap, calls>>
    BY InLoop DEF Shape, ArrayItem, ObjectItem
  <2>2. Len(calls) \in 1 .. Len(calls) /\ Caller = calls[Len(calls)]
    BY <2>1, Sizes DEF Caller
  <2>3. stack[Caller.slot] \in Refs
    BY <2>1, <2>2 DEF Frames
  <2> QED
    BY <2>1, <2>2, <2>3, Sizes, HeapTables DEF Tab, Range
<1>2. \E v : /\ stack'[Len(stack) + 1] = v /\ Len(stack') = Len(stack) + 1
             /\ at' = "enter" => IsTable(v) /\ \E e \in Tab(Caller) : v = e[2]
             /\ \A j \in 1 .. Base : stack'[j] = stack[j]
  <2>1. CASE ArrayItem
    <3> DEFINE v == RawGet(Tab(Caller), Caller.done + 1)
    <3>1. stack' = Append(stack, v) /\ Emit(Comma(Caller), v)
      BY <2>1 DEF ArrayItem
    <3>2. at' = "enter" => IsTable(v)
      BY <3>1 DEF Emit
    <3>3. v = Nil \/ \E e \in Tab(Caller) : v = e[2]
      BY DEF RawGet
    <3> HIDE DEF v
    <3>4. IsTable(v) => v # Nil
      BY DEF IsTable, Nil
    <3> QED
      BY <1>1, <3>1, <3>2, <3>3, <3>4
  <2>2. CASE ObjectItem
    <3>1. PICK e : e = NextEntry(Caller, FromTop(1))
      OBVIOUS
    <3>2. /\ e \in Tab(Caller) /\ Len(stack') = Len(stack) + 1
          /\ \A j \in 1 .. Base : stack'[j] = stack[j]
          /\ stack'[Len(stack) + 1] = e[2]
      BY <2>2, <3>1, ObjectItemStack
    <3>3. at' = "enter" => IsTable(e[2])
      BY <2>2, <3>1 DEF ObjectItem, Emit
    <3> QED
      BY <3>2, <3>3
  <2> QED
    BY <2>1, <2>2
<1>3. at' = "enter" => depth[FromTop(1)'.id] = Len(calls') + 1
  <2> SUFFICES ASSUME at' = "enter" PROVE depth[FromTop(1)'.id] = Len(calls') + 1
    OBVIOUS
  <2>1. PICK e \in Tab(Caller) : stack'[Len(stack) + 1] = e[2] /\ IsTable(e[2])
    BY <1>2
  <2>2. FromTop(1)' = e[2]
    BY <1>1, <1>2, <2>1 DEF FromTop
  <2>3. depth[stack[Caller.slot].id] = Len(calls)
    BY <1>1 DEF Levels
  <2>4. depth[e[2].id] = depth[stack[Caller.slot].id] + 1
    BY <1>1, <2>1 DEF Layered
  <2> QED
    BY <1>1, <2>2, <2>3, <2>4
<1>4. \A j \in 1 .. Base : stack'[j] = stack[j]
  BY <1>2
<1>5. calls' \in Seq(Call) /\ Len(calls') <= Len(calls) /\ \A i \in 1 .. Len(calls') : calls'[i].slot = calls[i].slot
  BY <1>1
<1> QED
  BY <1>3, <1>4, <1>5, LevelsKept

\* The end of an item or of a call takes its slots off.
LEMMA EndLevels ==
    ASSUME NEW depth, Shape, Levels(depth), ArrayEnd \/ ObjectEnd \/ ItemWritten
    PROVE  Levels(depth)'
<1>1. TypeOK /\ Frames /\ calls # <<>> /\ Heights
  BY InLoop DEF Shape, ArrayEnd, ObjectEnd, ItemWritten
<1>2. /\ stack \in Seq(Key \cup {Opaque}) /\ Len(stack) \in Nat /\ Base \in Nat
      /\ Len(calls) \in Nat \ {0} /\ calls \in Seq(Call) /\ Caller \in Call
      /\ Base = Caller.slot /\ Held(Caller) \in {0, 1} /\ Caller = calls[Len(calls)]
  BY <1>1, BelowBase, Sizes DEF Base, Caller
<1>3. at' # "enter"
  <2>1. \A c \in Call : c.kind # "enter"
    BY DEF Call
  <2> QED
    BY <1>2, <2>1 DEF ArrayEnd, ObjectEnd, Finish, ItemWritten
<1>4. \A j \in 1 .. Base : stack'[j] = stack[j]
  <2>1. CASE ArrayEnd
    BY <2>1 DEF ArrayEnd
  <2>2. CASE ObjectEnd \/ ItemWritten
    <3>1. stack' = Pop(stack, 1)
      BY <2>2 DEF ObjectEnd, ItemWritten
    <3>2. Len(stack) >= Base + 1
      <4>1. CASE ObjectEnd
        <5>1. at = "object"
          BY <4>1 DEF ObjectEnd
        <5>2. Len(stack) = Base + 1
          BY <5>1, InLoop
        <5> QED
          BY <1>2, <5>2
      <4>2. CASE ItemWritten
        <5>1. Len(stack) = Caller.slot + Held(Caller) + 1
          BY <1>1, <4>2 DEF Heights, ItemWritten
        <5> QED
          BY <1>2, <5>1
      <4> QED
        BY <2>2, <4>1, <4>2
    <3>3. \A j \in 1 .. Len(stack) - 1 : Pop(stack, 1)[j] = stack[j]
      <4>1. 1 \in Nat /\ 1 <= Len(stack) /\ stack \in Seq(Key \cup {Opaque})
        BY <1>2, <3>2
      <4> QED
        BY <4>1, PopProperties
    <3>4. \A j \in 1 .. Base : j \in 1 .. Len(stack) - 1
      BY <1>2, <3>2
    <3> QED
      BY <3>1, <3>3, <3>4
  <2> QED
    BY <2>1, <2>2
<1>5. calls' \in Seq(Call) /\ Len(calls') <= Len(calls) /\ \A i \in 1 .. Len(calls') : calls'[i].slot = calls[i].slot
  <2>1. CASE ArrayEnd \/ ObjectEnd
    <3>1. calls' = Pop(calls, 1)
      BY <2>1 DEF ArrayEnd, ObjectEnd, Finish
    <3>2. /\ Pop(calls, 1) \in Seq(Call) /\ Len(Pop(calls, 1)) = Len(calls) - 1
          /\ \A i \in 1 .. Len(calls) - 1 : Pop(calls, 1)[i] = calls[i]
      <4>1. 1 \in Nat /\ 1 <= Len(calls) /\ calls \in Seq(Call)
        BY <1>2
      <4> QED
        BY <4>1, PopProperties
    <3> QED
      BY <1>2, <3>1, <3>2
  <2>2. CASE ItemWritten
    <3> DEFINE c == [Caller EXCEPT !.done = @ + 1]
    <3>1. SetCaller(c)
      BY <2>2 DEF ItemWritten
    <3>3. c \in Call /\ c.slot = Caller.slot
      <4>1. Caller \in Call
        BY <1>2
      <4> QED
        BY <4>1 DEF Call
    <3> HIDE DEF c
    <3>2. /\ calls' \in Seq(Call) /\ Len(calls') = Len(calls) /\ calls'[Len(calls)] = c
          /\ \A i \in 1 .. Len(calls) : i < Len(calls) => calls'[i] = calls[i]
      BY <1>1, <3>1, <3>3, SetCallerProperties
    <3> QED
      BY <1>2, <3>2, <3>3
  <2> QED
    BY <2>1, <2>2
<1> QED
  BY <1>3, <1>4, <1>5, LevelsKept

\* Every step keeps the levels.
LEMMA LevelsStep ==
    ASSUME NEW depth, Layered(heap, depth), Shape, Levels(depth), [Next]_wvars
    PROVE  Levels(depth)'
<1>1. CASE Enter
  BY <1>1, EnterLevels
<1>2. CASE ScanIndex \/ ScanOther \/ ScanEnd
  BY <1>2, ScanLevels
<1>3. CASE ArrayItem \/ ObjectItem
  BY <1>3, ItemLevels
<1>4. CASE ArrayEnd \/ ObjectEnd \/ ItemWritten
  BY <1>4, EndLevels
<1>5. CASE EnterTooDeep \/ ObjectInvalidKey \/ Overrun \/ Return \/ UNCHANGED wvars
  <2>1. UNCHANGED <<stack, calls>> /\ (at' = "enter" => at = "enter")
    BY <1>5 DEF EnterTooDeep, ObjectInvalidKey, Overrun, Return, wvars
  <2> QED
    BY <2>1 DEF Levels, FromTop
<1> QED
  BY <1>1, <1>2, <1>3, <1>4, <1>5 DEF Next

\* Where two slots per level and one more are reserved no push goes beyond them.
LEMMA LevelsFit ==
    ASSUME NEW depth, Layered(heap, depth), Shape, Levels(depth),
           \A j \in DOMAIN heap : 2 * depth[j] + 1 <= Slots
    PROVE  ~Overrun
<1> SUFFICES ASSUME Overrun PROVE FALSE
  OBVIOUS
<1>1. TypeOK /\ Frames /\ Heights /\ Len(stack) >= Slots /\ Slots \in Nat /\ Len(calls) \in Nat /\ Len(stack) \in Nat
  BY NestingAssumption, Sizes DEF Shape, Overrun
<1> PICK n \in Nat : n = Len(calls)
  BY <1>1
<1>2. calls # <<>> => /\ n \in 1 .. Len(calls) /\ Caller = calls[n] /\ Held(Caller) \in {0, 1}
                      /\ Caller.slot \in Nat /\ Caller.slot <= 2 * n - 1
  <2>1. calls # <<>> => /\ n \in 1 .. Len(calls) /\ Caller = calls[n] /\ Held(Caller) \in {0, 1}
                        /\ Caller.slot \in Nat
    BY <1>1, Sizes DEF Caller
  <2> QED
    BY <2>1 DEF Levels
<1>3. CASE at = "enter"
  <2>1. 2 * (n + 1) + 1 <= Slots
    <3>1. FromTop(1).id \in DOMAIN heap /\ depth[FromTop(1).id] = n + 1
      BY <1>1, <1>3, HeapTables DEF Shape, Entered, Levels
    <3> QED
      BY <3>1
  <2>2. CASE calls = <<>>
    <3>1. Len(stack) = 1
      BY <1>1, <1>3, <2>2 DEF Heights
    <3> QED
      BY <1>1, <2>1, <3>1
  <2>3. CASE calls # <<>>
    <3>1. Len(stack) = Caller.slot + Held(Caller) + 1
      BY <1>1, <1>3, <2>3 DEF Heights
    <3> QED
      BY <1>1, <1>2, <2>1, <2>3, <3>1
  <2> QED
    BY <2>2, <2>3
<1>4. CASE at \in {"scan", "array", "object"}
  <2>1. calls # <<>> /\ Len(stack) = Caller.slot + Held(Caller)
    BY <1>4, InLoop
  <2>2. 2 * n + 1 <= Slots
    <3>1. stack[Caller.slot] \in Refs
      BY <1>1, <1>2, <2>1 DEF Frames
    <3>2. stack[Caller.slot].id \in DOMAIN heap /\ depth[stack[Caller.slot].id] = n
      BY <1>1, <1>2, <2>1, <3>1, HeapTables DEF Levels
    <3> QED
      BY <3>2
  <2> QED
    BY <1>1, <1>2, <2>1, <2>2
<1> QED
  BY <1>3, <1>4 DEF Overrun, Pushes

-----------------------------------------------------------------------------
(* How far the loops are.                                                  *)

\* No table of any heap has both a number and the number's text as keys.
NoTwins == \A h \in Heaps : \A t \in Range(h) : \A e, f \in t : ToText(e[1]) = f[1] => e[1] = f[1]

\* One when the item of call i after those it has written is under way.
InItem(i) == IF i = Len(calls) /\ at \in {"object", "error"} THEN 0 ELSE 1

\* The key the object loop holds after m entries.
KeyOf(c, m) == IF m = 0 THEN Nil ELSE ToText(c.order[m][1])

\* An object call has begun m entries, and its table is no array.
ObjectAt(c, m) ==
    c.kind = "object" =>
        /\ m <= Len(c.order)
        /\ stack[c.slot + 1] = KeyOf(c, m)
        /\ Len(c.order) = 0 \/ Sequential(Tab(c)) # 1 .. Cardinality(Tab(c))

\* The scan holds the last key it counted.
ScanAt ==
    at = "scan" =>
        /\ Caller.done = 0 /\ Caller.size <= Len(Caller.order)
        /\ FromTop(1) = IF Caller.size = 0 THEN Nil ELSE Caller.order[Caller.size][1]

Progress == /\ ScanAt
            /\ \A i \in 1 .. Len(calls) : ObjectAt(calls[i], calls[i].done + InItem(i))

\* Every table of the heap is free of twins.
LEMMA TwinFree ==
    ASSUME TypeOK, NoTwins
    PROVE  \A j \in DOMAIN heap : \A e, f \in heap[j] : ToText(e[1]) = f[1] => e[1] = f[1]
<1>1. heap \in Heaps /\ \A j \in DOMAIN heap : heap[j] \in Range(heap)
  BY DEF TypeOK, Range
<1> QED
  BY <1>1 DEF NoTwins

\* A key that lua_next finds after its conversion was not changed by it, so its
\* place is the number of entries begun.
LEMMA PlaceIs ==
    ASSUME NoTwins, Shape, at = "object", ObjectAt(Caller, Caller.done), KnownKey(Caller, FromTop(1))
    PROVE  Place(Caller, FromTop(1)) = Caller.done
<1>1. TypeOK /\ Frames
  BY DEF Shape
<1>2. /\ calls # <<>> /\ Caller.kind = "object" /\ Caller \in Call /\ Base = Caller.slot
      /\ FromTop(1) = stack[Base + 1]
  BY InLoop
<1> DEFINE m == Caller.done
           p == Place(Caller, FromTop(1))
<1>3. m \in Nat /\ m <= Len(Caller.order) /\ FromTop(1) = KeyOf(Caller, m)
  BY <1>2 DEF ObjectAt, Call
<1>4. IsOrder(Caller.order, Tab(Caller), heap)
  BY <1>1, <1>2, Sizes
<1>5. /\ p \in 0 .. Len(Caller.order)
      /\ FromTop(1) = Nil => p = 0
      /\ FromTop(1) # Nil => p # 0 /\ Caller.order[p][1] = FromTop(1)
  BY <1>2, <1>4, NextProperties
<1>6. CASE m = 0
  BY <1>3, <1>5, <1>6 DEF KeyOf
<1>7. CASE m # 0
  <2> HIDE DEF m, p
  <2>1. m \in 1 .. Len(Caller.order) /\ FromTop(1) = ToText(Caller.order[m][1])
    BY <1>3, <1>7 DEF KeyOf
  <2>2. Caller.order[m] \in Tab(Caller) /\ Caller.order[m][1] # Nil
    BY <1>4, <2>1 DEF IsOrder
  <2>3. ToText(Caller.order[m][1]) # Nil
    <3>1. \A k : k # Nil => ToText(k) # Nil
      BY DEF ToText, Nil, Atom
    <3> QED
      BY <2>2, <3>1
  <2>4. p \in 1 .. Len(Caller.order) /\ Caller.order[p][1] = FromTop(1)
    BY <1>4, <1>5, <2>1, <2>3
  <2>5. Caller.order[p] \in Tab(Caller)
    BY <1>4, <2>4 DEF IsOrder
  <2>6. stack[Caller.slot].id \in DOMAIN heap
    <3>1. Len(calls) \in 1 .. Len(calls)
      BY <1>1, <1>2, Sizes
    <3> QED
      BY <1>1, <3>1, HeapTables DEF Frames, Caller
  <2>7. Caller.order[m][1] = Caller.order[p][1]
    BY <1>1, <2>1, <2>2, <2>4, <2>5, <2>6, TwinFree DEF Tab
  <2> QED
    BY <1>4, <2>1, <2>4, <2>7 DEF IsOrder, m, p
<1> QED
  BY <1>6, <1>7

\* The calls below the innermost one are as far as they were.
LEMMA OuterCalls ==
    ASSUME Shape, Progress, heap' = heap, NEW i \in 1 .. Len(calls), i < Len(calls),
           calls'[i] = calls[i], \A j \in 1 .. Base : stack'[j] = stack[j],
           InItem(i)' = 1
    PROVE  ObjectAt(calls[i], calls[i].done + 1)'
<1>1. TypeOK /\ Frames /\ Len(calls) \in Nat
  BY Sizes DEF Shape
<1>2. InItem(i) = 1
  BY <1>1 DEF InItem
<1>3. ObjectAt(calls[i], calls[i].done + 1)
  BY <1>2 DEF Progress
<1> DEFINE c == calls[i]
<1>4. c \in Call /\ c.slot \in 1 .. Base
  BY <1>1, BelowBase, Sizes
<1>5. c.kind = "object" => c.slot + 1 \in 1 .. Base
  <2>1. i + 1 \in 1 .. Len(calls) /\ i + 1 > 1 /\ i = (i + 1) - 1
    BY <1>1
  <2>2. calls[i + 1].slot = c.slot + Held(c) + 1 /\ calls[i + 1].slot \in 1 .. Base
    BY <1>1, <2>1, BelowBase DEF Frames
  <2>3. c.slot \in Nat /\ Base \in Nat
    BY <1>1, <1>4, BelowBase, Sizes
  <2> QED
    BY <2>2, <2>3 DEF Held
<1>6. stack'[c.slot] = stack[c.slot] /\ (c.kind = "object" => stack'[c.slot + 1] = stack[c.slot + 1])
  BY <1>4, <1>5
<1>7. heap'[stack'[c.slot].id] = Tab(c)
  BY <1>6 DEF Tab
<1> HIDE DEF c
<1>8. calls'[i] = c /\ ObjectAt(c, c.done + 1)
  BY <1>3 DEF c
<1> QED
  BY <1>6, <1>7, <1>8 DEF ObjectAt, KeyOf, Tab

\* The innermost call after a step, and with it all of them.
LEMMA ProgressFrom ==
    ASSUME Shape, Progress, heap' = heap, Len(calls') = Len(calls), calls # <<>>,
           \A i \in 1 .. Len(calls) : i < Len(calls) => calls'[i] = calls[i],
           \A j \in 1 .. Base : stack'[j] = stack[j],
           ScanAt',
           ObjectAt(Caller, Caller.done + (IF at \in {"object", "error"} THEN 0 ELSE 1))'
    PROVE  Progress'
<1>1. Len(calls) \in 1 .. Len(calls)
  BY Sizes DEF Shape
<1>2. ASSUME NEW i \in 1 .. Len(calls) PROVE ObjectAt(calls[i], calls[i].done + InItem(i))'
  <2>1. CASE i < Len(calls)
    <3>1. InItem(i)' = 1 /\ calls'[i] = calls[i]
      BY <1>1, <2>1 DEF InItem
    <3> QED
      BY <2>1, <3>1, OuterCalls
  <2>2. CASE i = Len(calls)
    BY <2>2 DEF InItem, Caller
  <2> QED
    BY <1>1, <2>1, <2>2
<1> QED
  BY <1>2 DEF Progress

\* The steps and Progress: nothing moves below the depth limit.
LEMMA EnterTooDeepProgress == ASSUME Shape, Progress, EnterTooDeep PROVE Progress'
<1>1. at = "enter" /\ at' = "emitted" /\ UNCHANGED <<heap, stack, calls>>
  BY DEF EnterTooDeep
<1>2. \A i : InItem(i)' = InItem(i)
  BY <1>1 DEF InItem
<1> QED
  BY <1>1, <1>2 DEF Progress, ScanAt, ObjectAt, KeyOf, Tab, Caller, FromTop

\* A new call has counted nothing, and its caller is in its item.
LEMMA EnterProgress == ASSUME Shape, Progress, Enter PROVE Progress'
<1>1. TypeOK /\ Frames /\ Heights /\ at = "enter" /\ at' = "scan" /\ heap' = heap /\ stack' = Append(stack, Nil)
  BY DEF Shape, Enter
<1>2. PICK c \in [slot : {Len(stack)}, order : Orders(heap[FromTop(1).id]), size : {0},
                  done : {0}, kind : {"scan"}] : calls' = Append(calls, c)
  BY DEF Enter
<1>3. Shape'
  BY EnterStep
<1> DEFINE n == Len(calls)
<1>4. n \in Nat /\ Len(stack) \in Nat /\ stack \in Seq(Key \cup {Opaque}) /\ calls \in Seq(Call)
  BY <1>1, Sizes
<1>5. Len(calls') = n + 1 /\ calls'[n + 1] = c /\ \A i \in 1 .. n : calls'[i] = calls[i]
  BY <1>2, <1>4
<1>6. /\ Len(stack') = Len(stack) + 1 /\ stack'[Len(stack) + 1] = Nil
      /\ \A j \in 1 .. Len(stack) : stack'[j] = stack[j]
  BY <1>1, <1>4
<1>7. ASSUME NEW i \in 1 .. n PROVE ObjectAt(calls[i], calls[i].done + InItem(i))'
  <2>1. InItem(i)' = 1 /\ InItem(i) = 1
    BY <1>1, <1>4, <1>5 DEF InItem
  <2>2. /\ ObjectAt(calls[i], calls[i].done + 1) /\ calls[i] \in Call
        /\ calls[i].slot \in 1 .. Base /\ Base \in 1 .. Len(stack) /\ calls # <<>>
    BY <1>1, <1>4, <2>1, BelowBase, Sizes DEF Progress
  <2>3. calls[i].kind = "object" => calls[i].slot + 1 \in 1 .. Len(stack)
    <3>1. Len(stack) = Caller.slot + Held(Caller) + 1 /\ Base = Caller.slot
      BY <1>1, <2>2 DEF Heights, Base
    <3>2. Held(Caller) \in {0, 1} /\ Caller.slot \in Nat
      BY <1>1, <2>2, Sizes
    <3> QED
      BY <1>4, <2>2, <3>1, <3>2
  <2>4. /\ stack'[calls[i].slot] = stack[calls[i].slot] /\ calls'[i] = calls[i]
        /\ calls[i].kind = "object" => stack'[calls[i].slot + 1] = stack[calls[i].slot + 1]
    BY <1>4, <1>5, <1>6, <2>2, <2>3
  <2> QED
    BY <1>1, <2>1, <2>2, <2>4 DEF ObjectAt, KeyOf, Tab
<1>8. ASSUME NEW i, i = n + 1 PROVE ObjectAt(calls[i], calls[i].done + InItem(i))'
  BY <1>2, <1>5, <1>8 DEF ObjectAt
<1>9. \A i \in 1 .. Len(calls') : ObjectAt(calls[i], calls[i].done + InItem(i))'
  <2>1. \A i \in 1 .. Len(calls') : i \in 1 .. n \/ i = n + 1
    BY <1>4, <1>5
  <2> QED
    BY <1>7, <1>8, <2>1
<1>10. ScanAt'
  <2>1. Caller' = c /\ FromTop(1)' = Nil
    BY <1>4, <1>5, <1>6 DEF Caller, FromTop
  <2>2. Len(c.order) \in Nat
    <3>1. TypeOK' /\ Frames' /\ calls' # <<>>
      BY <1>3, <1>4, <1>5 DEF Shape
    <3>2. Caller' \in Call
      BY <3>1 DEF TypeOK, Caller
    <3> QED
      BY <2>1, <3>2 DEF Call
  <2> QED
    BY <1>2, <2>1, <2>2 DEF ScanAt
<1> QED
  BY <1>9, <1>10 DEF Progress

\* The place of the scan's key is what it has counted.
LEMMA ScanPlace ==
    ASSUME Shape, Progress, at = "scan"
    PROVE  /\ Place(Caller, FromTop(1)) = Caller.size /\ Caller.size \in Nat /\ Caller.done = 0
           /\ HasNext(Caller, FromTop(1)) => /\ Caller.size + 1 \in 1 .. Len(Caller.order)
                                             /\ NextEntry(Caller, FromTop(1)) = Caller.order[Caller.size + 1]
           /\ IsOrder(Caller.order, Tab(Caller), heap) /\ Len(Caller.order) \in Nat
<1>1. TypeOK /\ Frames /\ calls # <<>> /\ Caller \in Call
  BY InLoop DEF Shape
<1>2. IsOrder(Caller.order, Tab(Caller), heap) /\ KnownKey(Caller, FromTop(1))
  BY <1>1, Sizes DEF Shape, Scanned
<1> DEFINE p == Place(Caller, FromTop(1))
<1>3. /\ p \in 0 .. Len(Caller.order)
      /\ FromTop(1) = Nil => p = 0
      /\ FromTop(1) # Nil => p # 0 /\ Caller.order[p][1] = FromTop(1)
  BY <1>1, <1>2, NextProperties
<1>8. HasNext(Caller, FromTop(1)) => p + 1 \in 1 .. Len(Caller.order)
  BY <1>1, <1>3 DEF HasNext, Call
<1>4. /\ Caller.size \in Nat /\ Caller.done = 0 /\ Caller.size <= Len(Caller.order)
      /\ FromTop(1) = IF Caller.size = 0 THEN Nil ELSE Caller.order[Caller.size][1]
  BY <1>1 DEF Progress, ScanAt, Call
<1>5. Len(Caller.order) \in Nat
  BY <1>1 DEF Call
<1>6. p = Caller.size
  <2>1. CASE Caller.size = 0
    BY <1>3, <1>4, <2>1
  <2>2. CASE Caller.size # 0
    <3>1. Caller.size \in 1 .. Len(Caller.order) /\ FromTop(1) = Caller.order[Caller.size][1]
      BY <1>4, <1>5, <2>2
    <3>2. FromTop(1) # Nil
      BY <1>2, <3>1 DEF IsOrder
    <3>3. p \in 1 .. Len(Caller.order) /\ Caller.order[p][1] = FromTop(1)
      BY <1>3, <1>5, <3>2
    <3> HIDE DEF p
    <3> QED
      BY <1>2, <3>1, <3>3 DEF IsOrder
  <2> QED
    BY <2>1, <2>2
<1>7. NextEntry(Caller, FromTop(1)) = Caller.order[p + 1]
  BY DEF NextEntry
<1> QED
  BY <1>2, <1>4, <1>5, <1>6, <1>7, <1>8

\* The scan counts one more key and holds it.
LEMMA ScanIndexProgress == ASSUME Shape, Progress, ScanIndex PROVE Progress'
<1>1. at = "scan" /\ heap' = heap /\ at' = at /\ TypeOK /\ Frames
  BY DEF ScanIndex, Shape
<1> DEFINE k == NextEntry(Caller, FromTop(1))[1]
           c == [Caller EXCEPT !.size = @ + 1]
<1>2. stack' = Append(Pop(stack, 1), k) /\ SetCaller(c) /\ HasNext(Caller, FromTop(1))
  BY DEF ScanIndex
<1>3. /\ Caller.size \in Nat /\ Caller.done = 0
      /\ Caller.size + 1 \in 1 .. Len(Caller.order) /\ k = Caller.order[Caller.size + 1][1]
      /\ IsOrder(Caller.order, Tab(Caller), heap) /\ Len(Caller.order) \in Nat
  BY <1>1, <1>2, ScanPlace
<1>4. /\ calls # <<>> /\ Caller \in Call /\ Caller.kind = "scan"
      /\ Base \in 1 .. Len(stack) /\ Len(stack) = Base + 1
  BY <1>1, InLoop
<1>5. /\ c \in Call /\ c.size = Caller.size + 1 /\ c.done = 0 /\ c.kind = "scan"
      /\ c.order = Caller.order
  BY <1>3, <1>4 DEF Call
<1>6. k \in Key \cup {Opaque}
  BY <1>3 DEF IsOrder
<1> HIDE DEF k, c
<1>7. /\ Len(calls') = Len(calls) /\ Caller' = c
      /\ \A i \in 1 .. Len(calls) : i < Len(calls) => calls'[i] = calls[i]
  BY <1>1, <1>2, <1>4, <1>5, SetCallerProperties
<1>8. /\ Len(stack') = Len(stack) /\ stack'[Len(stack)] = k
      /\ \A j \in 1 .. Base : stack'[j] = stack[j]
  <2>1. stack \in Seq(Key \cup {Opaque}) /\ Len(stack) \in Nat /\ Len(stack) > 0
    BY <1>1, Sizes
  <2>2. \A j \in 1 .. Base : j \in 1 .. Len(stack) /\ j < Len(stack)
    BY <1>4, <2>1
  <2> QED
    BY <1>2, <1>6, <2>1, <2>2, TopReplaced
<1>9. ScanAt'
  <2>1. FromTop(1)' = k
    <3>1. Len(stack) \in Nat
      BY <1>1, Sizes
    <3> QED
      BY <1>8, <3>1 DEF FromTop
  <2>2. c.size <= Len(c.order) /\ c.size # 0
    BY <1>3, <1>5
  <2> QED
    BY <1>3, <1>5, <1>7, <2>1, <2>2 DEF ScanAt
<1>10. ObjectAt(Caller, Caller.done + (IF at \in {"object", "error"} THEN 0 ELSE 1))'
  BY <1>5, <1>7 DEF ObjectAt
<1> QED
  BY <1>1, <1>4, <1>7, <1>8, <1>9, <1>10, ProgressFrom

\* The object loop has begun no entry, and its table is no array.
LEMMA StartObjectProgress ==
    ASSUME Shape, Progress, at = "scan", StartObject, UNCHANGED heap,
           Len(Caller.order) = 0 \/ Sequential(Tab(Caller)) # 1 .. Cardinality(Tab(Caller))
    PROVE  Progress'
<1>1. TypeOK /\ Frames
  BY DEF Shape
<1> DEFINE c == [Caller EXCEPT !.kind = "object"]
<1>2. stack' = Append(Pop(stack, 1), Nil) /\ SetCaller(c) /\ at' = "object"
  BY DEF StartObject
<1>3. /\ calls # <<>> /\ Caller \in Call /\ Caller.slot = Base
      /\ Base \in 1 .. Len(stack) /\ Len(stack) = Base + 1
  BY InLoop
<1>4. /\ c \in Call /\ c.done = 0 /\ c.slot = Base /\ c.order = Caller.order
      /\ Len(Caller.order) \in Nat
  BY <1>3, ScanPlace DEF Call
<1> HIDE DEF c
<1>5. /\ Len(calls') = Len(calls) /\ Caller' = c
      /\ \A i \in 1 .. Len(calls) : i < Len(calls) => calls'[i] = calls[i]
  BY <1>1, <1>2, <1>3, <1>4, SetCallerProperties
<1>6. stack'[Base + 1] = Nil /\ \A j \in 1 .. Base : stack'[j] = stack[j]
  <2>1. /\ stack \in Seq(Key \cup {Opaque}) /\ Len(stack) \in Nat /\ Len(stack) > 0
        /\ Nil \in Key \cup {Opaque}
    BY <1>1, Sizes DEF Key, Value
  <2>2. \A j \in 1 .. Base : j \in 1 .. Len(stack) /\ j < Len(stack)
    BY <1>3, <2>1
  <2> QED
    BY <1>2, <1>3, <2>1, <2>2, TopReplaced
<1>7. heap'[stack'[c.slot].id] = Tab(Caller)
  <2>1. stack'[Base] = stack[Base]
    BY <1>3, <1>6
  <2> QED
    BY <1>3, <1>4, <2>1 DEF Tab
<1>8. ObjectAt(Caller, Caller.done + (IF at \in {"object", "error"} THEN 0 ELSE 1))'
  <2>1. (Caller.done + (IF at \in {"object", "error"} THEN 0 ELSE 1))' = 0
    BY <1>2, <1>4, <1>5
  <2>2. Tab(Caller)' = Tab(Caller)
    BY <1>5, <1>7 DEF Tab
  <2>3. ObjectAt(Caller, 0)'
    BY <1>4, <1>5, <1>6, <2>2 DEF ObjectAt, KeyOf
  <2> QED
    BY <2>1, <2>3 DEF ObjectAt
<1>9. ScanAt'
  BY <1>2 DEF ScanAt
<1> QED
  BY <1>3, <1>5, <1>6, <1>8, <1>9, ProgressFrom

\* A table whose keys are 1 .. n is scanned to its end.
LEMMA ScanOtherProgress == ASSUME Shape, Progress, ScanOther PROVE Progress'
<1>1. /\ at = "scan" /\ StartObject /\ UNCHANGED heap /\ HasNext(Caller, FromTop(1))
      /\ ~IsNumberEqual(NextEntry(Caller, FromTop(1))[1], Caller.size + 1)
  BY DEF ScanOther
<1> DEFINE m == Caller.size + 1
<1>2. /\ m \in 1 .. Len(Caller.order) /\ NextEntry(Caller, FromTop(1)) = Caller.order[m]
      /\ IsOrder(Caller.order, Tab(Caller), heap)
  BY <1>1, ScanPlace
<1>3. Caller.order[m][1] # Index(m)
  BY <1>1, <1>2 DEF IsNumberEqual
<1> HIDE DEF m
<1>4. m \notin Sequential(Tab(Caller)) /\ m \in 1 .. Cardinality(Tab(Caller))
  BY <1>2, <1>3 DEF IsOrder
<1> QED
  BY <1>1, <1>4, StartObjectProgress

\* A scan that ends at once has met an empty table.
LEMMA ScanEndProgress == ASSUME Shape, Progress, ScanEnd PROVE Progress'
<1>1. at = "scan" /\ heap' = heap /\ TypeOK /\ Frames /\ ~HasNext(Caller, FromTop(1))
  BY DEF ScanEnd, Shape
<1>2. /\ Place(Caller, FromTop(1)) = Caller.size /\ Caller.size \in Nat
      /\ Len(Caller.order) \in Nat /\ Len(Caller.order) <= Caller.size
  BY <1>1, ScanPlace DEF HasNext
<1>3. CASE Caller.size = 0 /\ StartObject
  <2>1. Len(Caller.order) = 0
    BY <1>2, <1>3
  <2> QED
    BY <1>1, <1>3, <2>1, StartObjectProgress
<1>4. CASE ~(Caller.size = 0 /\ StartObject)
  <2> DEFINE c == [Caller EXCEPT !.kind = "array"]
  <2>1. stack' = Pop(stack, 1) /\ SetCaller(c) /\ at' = "array"
    BY <1>4 DEF ScanEnd
  <2>2. /\ calls # <<>> /\ Caller \in Call /\ Base \in 1 .. Len(stack) /\ Len(stack) = Base + 1
    BY <1>1, InLoop
  <2>3. c \in Call /\ c.kind = "array"
    BY <2>2 DEF Call
  <2> HIDE DEF c
  <2>4. /\ Len(calls') = Len(calls) /\ Caller' = c
        /\ \A i \in 1 .. Len(calls) : i < Len(calls) => calls'[i] = calls[i]
    BY <1>1, <2>1, <2>2, <2>3, SetCallerProperties
  <2>5. \A j \in 1 .. Base : stack'[j] = stack[j]
    <3>1. stack \in Seq(Key \cup {Opaque}) /\ Len(stack) \in Nat /\ 1 \in Nat /\ 1 <= Len(stack)
      BY <1>1, Sizes
    <3>2. \A j \in 1 .. Len(stack) - 1 : stack'[j] = stack[j]
      BY <2>1, <3>1, PopProperties
    <3> QED
      BY <2>2, <3>1, <3>2
  <2>6. ScanAt' /\ ObjectAt(Caller, Caller.done + (IF at \in {"object", "error"} THEN 0 ELSE 1))'
    BY <2>1, <2>3, <2>4 DEF ScanAt, ObjectAt
  <2> QED
    BY <1>1, <2>2, <2>4, <2>5, <2>6, ProgressFrom
<1> QED
  BY <1>3, <1>4

\* An array call keeps no key.
LEMMA ArrayItemProgress == ASSUME Shape, Progress, ArrayItem PROVE Progress'
<1> DEFINE v == RawGet(Tab(Caller), Caller.done + 1)
<1>1. /\ at = "array" /\ stack' = Append(stack, v) /\ Emit(Comma(Caller), v) /\ UNCHANGED <<heap, calls>>
      /\ TypeOK /\ Frames
  BY DEF ArrayItem, Shape
<1> HIDE DEF v
<1>2. at' \in {"enter", "emitted"}
  BY <1>1 DEF Emit
<1>3. calls # <<>> /\ Caller.kind = "array" /\ Base \in 1 .. Len(stack)
  BY <1>1, InLoop
<1>4. \A j \in 1 .. Base : stack'[j] = stack[j]
  <2>1. stack \in Seq(Key \cup {Opaque}) /\ Len(stack) \in Nat
    BY <1>1, Sizes
  <2> QED
    BY <1>1, <1>3, <2>1
<1>5. ScanAt' /\ ObjectAt(Caller, Caller.done + (IF at \in {"object", "error"} THEN 0 ELSE 1))'
  BY <1>1, <1>2, <1>3 DEF ScanAt, ObjectAt, Caller
<1> QED
  BY <1>1, <1>3, <1>4, <1>5, ProgressFrom

\* A call returns: the one that made it is still in its item.
LEMMA FinishProgress ==
    ASSUME Shape, Progress, calls # <<>>, UNCHANGED heap, NEW bracket, Finish(bracket),
           \A j \in 1 .. Base : stack'[j] = stack[j]
    PROVE  Progress'
<1>1. TypeOK /\ Frames /\ calls' = Pop(calls, 1) /\ at' = "emitted"
  BY DEF Shape, Finish
<1>2. /\ Len(calls') = Len(calls) - 1 /\ Len(calls) \in Nat
      /\ \A i \in 1 .. Len(calls) - 1 : calls'[i] = calls[i]
  <2>1. calls \in Seq(Call) /\ 1 \in Nat /\ 1 <= Len(calls) /\ Len(calls) \in Nat
    BY <1>1, Sizes
  <2> QED
    BY <1>1, <2>1, PopProperties
<1>3. ASSUME NEW i \in 1 .. Len(calls') PROVE ObjectAt(calls[i], calls[i].done + InItem(i))'
  <2>1. i \in 1 .. Len(calls) /\ i < Len(calls) /\ calls'[i] = calls[i]
    BY <1>2
  <2>2. InItem(i)' = 1
    BY <1>1 DEF InItem
  <2>3. ObjectAt(calls[i], calls[i].done + 1)'
    BY <2>1, <2>2, OuterCalls
  <2> QED
    BY <2>2, <2>3
<1>4. ScanAt'
  BY <1>1 DEF ScanAt
<1> QED
  BY <1>3, <1>4 DEF Progress

\* The array loop ends.
LEMMA ArrayEndProgress == ASSUME Shape, Progress, ArrayEnd PROVE Progress'
<1>1. at = "array" /\ Finish("]") /\ UNCHANGED <<heap, stack>>
  BY DEF ArrayEnd
<1>2. calls # <<>>
  BY <1>1, InLoop
<1> QED
  BY <1>1, <1>2, FinishProgress

\* The object loop ends.
LEMMA ObjectEndProgress == ASSUME Shape, Progress, ObjectEnd PROVE Progress'
<1>1. at = "object" /\ Finish("}") /\ UNCHANGED heap /\ stack' = Pop(stack, 1) /\ TypeOK /\ Frames
  BY DEF ObjectEnd, Shape
<1>2. calls # <<>> /\ Len(stack) = Base + 1 /\ Base \in 1 .. Len(stack)
  BY <1>1, InLoop
<1>3. \A j \in 1 .. Base : stack'[j] = stack[j]
  <2>0. stack \in Seq(Key \cup {Opaque}) /\ Len(stack) \in Nat \ {0}
    BY <1>1, Sizes
  <2>1. stack \in Seq(Key \cup {Opaque}) /\ Len(stack) \in Nat /\ 1 \in Nat /\ 1 <= Len(stack)
    BY <2>0
  <2>2. \A j \in 1 .. Len(stack) - 1 : stack'[j] = stack[j]
    BY <1>1, <2>1, PopProperties
  <2> QED
    BY <1>2, <2>1, <2>2
<1> QED
  BY <1>1, <1>2, <1>3, FinishProgress

\* What the innermost object call has begun.
LEMMA InnermostObject ==
    ASSUME Shape, Progress, calls # <<>>
    PROVE  ObjectAt(Caller, Caller.done + (IF at \in {"object", "error"} THEN 0 ELSE 1))
<1>1. Len(calls) \in 1 .. Len(calls)
  BY Sizes DEF Shape
<1> QED
  BY <1>1 DEF Progress, InItem, Caller

\* The next entry is begun.
LEMMA ObjectItemProgress == ASSUME NoTwins, Shape, Progress, ObjectItem PROVE Progress'
<1> DEFINE e == NextEntry(Caller, FromTop(1))
<1>1. /\ at = "object" /\ KnownKey(Caller, FromTop(1)) /\ UNCHANGED <<heap, calls>>
      /\ Emit(Comma(Caller) \o <<KeyText(e[1]), ":">>, e[2])
  BY DEF ObjectItem
<1>2. /\ e = Caller.order[Place(Caller, FromTop(1)) + 1]
      /\ Place(Caller, FromTop(1)) + 1 \in 1 .. Len(Caller.order)
      /\ \A j \in 1 .. Base : stack'[j] = stack[j]
      /\ stack'[Base + 1] = ToText(e[1])
  BY ObjectItemStack
<1> HIDE DEF e
<1>3. at' \in {"enter", "emitted"}
  BY <1>1 DEF Emit
<1>4. /\ calls # <<>> /\ Caller.kind = "object" /\ Caller \in Call
      /\ Base = Caller.slot /\ Base \in 1 .. Len(stack)
  BY <1>1, InLoop
<1>5. Caller.done \in Nat /\ ObjectAt(Caller, Caller.done)
  <2>1. Caller.done \in Nat
    BY <1>4 DEF Call
  <2>2. Caller.done + (IF at \in {"object", "error"} THEN 0 ELSE 1) = Caller.done
    BY <1>1, <2>1
  <2> QED
    BY <1>4, <2>1, <2>2, InnermostObject
<1>6. Place(Caller, FromTop(1)) = Caller.done
  BY <1>1, <1>5, PlaceIs
<1> DEFINE m == Caller.done + 1
<1>7. m \in 1 .. Len(Caller.order) /\ m # 0 /\ stack'[Base + 1] = ToText(Caller.order[m][1])
  BY <1>2, <1>5, <1>6
<1>8. Caller' = Caller /\ Tab(Caller)' = Tab(Caller)
  BY <1>1, <1>2, <1>4 DEF Caller, Tab
<1>9. (Caller.done + (IF at \in {"object", "error"} THEN 0 ELSE 1))' = m
  BY <1>3, <1>8
<1> HIDE DEF m
<1>10. ASSUME NEW n, n = m PROVE ObjectAt(Caller, n)'
  <2>1. n <= Len(Caller.order) /\ n # 0
    BY <1>4, <1>7, <1>10 DEF Call
  <2> QED
    BY <1>4, <1>5, <1>7, <1>8, <1>10, <2>1 DEF ObjectAt, KeyOf
<1>11. ObjectAt(Caller, Caller.done + (IF at \in {"object", "error"} THEN 0 ELSE 1))'
  BY <1>9, <1>10
<1>12. ScanAt'
  BY <1>3 DEF ScanAt
<1> QED
  BY <1>1, <1>2, <1>4, <1>11, <1>12, ProgressFrom

\* The conversion stops where it is.
LEMMA StopProgress ==
    ASSUME Shape, Progress, UNCHANGED <<heap, stack, calls, out>>,
           \/ at' = "done" /\ calls = <<>>
           \/ at' = "error" /\ at = "object"
    PROVE  Progress'
<1>1. Len(calls) \in Nat /\ (calls = <<>> => Len(calls) = 0)
  BY Sizes DEF Shape
<1>2. \A i \in 1 .. Len(calls) : InItem(i)' = InItem(i)
  BY <1>1 DEF InItem
<1>3. ScanAt'
  BY DEF ScanAt
<1> QED
  BY <1>2, <1>3 DEF Progress, ObjectAt, KeyOf, Tab

\* What was begun has been written.
LEMMA ItemWrittenProgress == ASSUME Shape, Progress, ItemWritten PROVE Progress'
<1> DEFINE c == [Caller EXCEPT !.done = @ + 1]
<1>1. /\ TypeOK /\ Frames /\ Heights /\ at = "emitted" /\ calls # <<>> /\ heap' = heap
      /\ stack' = Pop(stack, 1) /\ SetCaller(c) /\ at' = Caller.kind
  BY DEF Shape, ItemWritten
<1>2. Caller \in Call /\ Caller.slot \in 1 .. Len(stack) /\ Held(Caller) \in {0, 1}
  BY <1>1, Sizes
<1>3. /\ c \in Call /\ c.slot = Caller.slot /\ c.order = Caller.order /\ c.kind = Caller.kind
      /\ c.done = Caller.done + 1 /\ Caller.done \in Nat
  BY <1>2 DEF Call
<1> HIDE DEF c
<1>4. /\ Len(calls') = Len(calls) /\ Caller' = c
      /\ \A i \in 1 .. Len(calls) : i < Len(calls) => calls'[i] = calls[i]
  BY <1>1, <1>3, SetCallerProperties
<1>5. Caller.kind \in {"array", "object"}
  <2>1. Len(calls) \in 1 .. Len(calls) /\ Caller = calls[Len(calls)]
    BY <1>1, Sizes DEF Caller
  <2> QED
    BY <1>1, <1>2, <2>1 DEF Frames, Call
<1>6. Len(stack) = Base + Held(Caller) + 1 /\ Base = Caller.slot /\ Base \in Nat \ {0}
  BY <1>1, <1>2 DEF Heights, Base
<1>7. \A j \in 1 .. Len(stack) - 1 : stack'[j] = stack[j]
  <2>1. stack \in Seq(Key \cup {Opaque}) /\ 1 \in Nat /\ 1 <= Len(stack)
    BY <1>1, Sizes
  <2> QED
    BY <1>1, <2>1, PopProperties
<1>8. /\ \A j \in 1 .. Base : stack'[j] = stack[j]
      /\ Caller.kind = "object" => stack'[Base + 1] = stack[Base + 1]
  <2>1. \A j \in 1 .. Base : j \in 1 .. Len(stack) - 1
    BY <1>2, <1>6
  <2>2. Caller.kind = "object" => Base + 1 \in 1 .. Len(stack) - 1
    BY <1>6 DEF Held
  <2> QED
    BY <1>7, <2>1, <2>2
<1>9. ObjectAt(Caller, Caller.done + 1)
  <2>1. Caller.done + (IF at \in {"object", "error"} THEN 0 ELSE 1) = Caller.done + 1
    BY <1>1
  <2> QED
    BY <1>1, <2>1, InnermostObject
<1>10. ObjectAt(Caller, Caller.done + (IF at \in {"object", "error"} THEN 0 ELSE 1))'
  <2>1. CASE Caller.kind = "array"
    BY <1>3, <1>4, <2>1 DEF ObjectAt
  <2>2. CASE Caller.kind = "object"
    <3>1. (Caller.done + (IF at \in {"object", "error"} THEN 0 ELSE 1))' = c.done
      BY <1>1, <1>3, <1>4, <2>2
    <3>2. heap'[stack'[c.slot].id] = Tab(Caller)
      BY <1>1, <1>3, <1>6, <1>8 DEF Tab
    <3>3. ASSUME NEW n, n = c.done PROVE ObjectAt(Caller, n)'
      BY <1>3, <1>4, <1>6, <1>8, <1>9, <2>2, <3>2, <3>3 DEF ObjectAt, KeyOf, Tab
    <3> QED
      BY <3>1, <3>3
  <2> QED
    BY <1>5, <2>1, <2>2
<1>11. ScanAt'
  BY <1>1, <1>5 DEF ScanAt
<1> QED
  BY <1>1, <1>4, <1>8, <1>10, <1>11, ProgressFrom

\* lua_next fails only on a key that was converted: a number, in a table that is
\* no array.
LEMMA InvalidKeyMeans == ASSUME Shape, Progress, ObjectInvalidKey PROVE ErrorMeansMixed'
<1>1. at = "object" /\ ~KnownKey(Caller, FromTop(1)) /\ UNCHANGED <<heap, stack, calls>> /\ TypeOK /\ Frames
  BY DEF ObjectInvalidKey, Shape
<1>2. /\ calls # <<>> /\ Caller.kind = "object" /\ Caller \in Call
      /\ Base = Caller.slot /\ FromTop(1) = stack[Base + 1]
  BY <1>1, InLoop
<1>3. IsOrder(Caller.order, Tab(Caller), heap)
  BY <1>1, <1>2, Sizes
<1> DEFINE m == Caller.done
<1>4. /\ m \in Nat /\ m <= Len(Caller.order) /\ FromTop(1) = KeyOf(Caller, m)
      /\ Len(Caller.order) = 0 \/ Sequential(Tab(Caller)) # 1 .. Cardinality(Tab(Caller))
  <2>1. m \in Nat
    BY <1>2 DEF Call
  <2>2. Caller.done + (IF at \in {"object", "error"} THEN 0 ELSE 1) = m
    BY <1>1, <2>1
  <2>3. ObjectAt(Caller, m)
    BY <1>2, <2>2, InnermostObject
  <2> QED
    BY <1>2, <2>1, <2>3 DEF ObjectAt
<1> HIDE DEF m
<1>5. m # 0 /\ FromTop(1) = ToText(Caller.order[m][1])
  BY <1>1, <1>4 DEF KeyOf, KnownKey
<1>6. m \in 1 .. Len(Caller.order) /\ DOMAIN Caller.order = 1 .. Len(Caller.order) /\ Len(Caller.order) # 0
  BY <1>3, <1>4, <1>5 DEF IsOrder
<1> DEFINE e == Caller.order[m]
<1>8. ToText(e[1]) # e[1]
  BY <1>1, <1>5, <1>6 DEF KnownKey
<1>9. e[1] \in Key
  BY <1>3, <1>6 DEF IsOrder
<1>10. e \in Tab(Caller) /\ (e[1].ty = "index" \/ IsAtomIn(e[1], Num))
  <2>1. e \in Tab(Caller) /\ (e[1].ty = "index" => e[1].n <= Len(Digits))
    BY <1>3, <1>6 DEF IsOrder
  <2> HIDE DEF e
  <2> QED
    BY <1>8, <1>9, <2>1, TextType
<1>11. Caller' = Caller /\ Tab(Caller)' = Tab(Caller)
  BY <1>1 DEF Caller, Tab
<1> QED
  BY <1>4, <1>6, <1>10, <1>11 DEF ErrorMeansMixed

-----------------------------------------------------------------------------
(* The theorems.                                                           *)

\* Nothing is written at first.
LEMMA ProgressInit == Init => Progress /\ ErrorMeansMixed
BY DEF Init, Progress, ScanAt, ErrorMeansMixed

\* A push beyond the slots ends the conversion: nothing follows it.
LEMMA UndefinedStops ==
    ASSUME [Next]_wvars
    PROVE  Overrun \/ at = "undefined" => at' = "undefined"
<1>1. CASE Overrun
  BY <1>1 DEF Overrun
<1>2. CASE at = "undefined"
  BY <1>2 DEF Next, wvars, EnterTooDeep, Enter, ScanIndex, ScanOther, ScanEnd, ArrayItem, ArrayEnd,
       ObjectItem, ObjectInvalidKey, ObjectEnd, ItemWritten, Overrun, Pushes, Return
<1> QED
  BY <1>1, <1>2

\* Nothing else ends it that way.
LEMMA UndefinedMeans ==
    ASSUME Shape, [Next]_wvars, ~Overrun, at # "undefined"
    PROVE  at' # "undefined"
<1>1. CASE ItemWritten
  <2>1. at' = Caller.kind /\ calls # <<>>
    BY <1>1 DEF ItemWritten
  <2>2. Caller \in Call
    BY <2>1, Sizes DEF Shape
  <2> QED
    BY <2>1, <2>2 DEF Call
<1>2. CASE ScanIndex \/ UNCHANGED wvars
  BY <1>2 DEF ScanIndex, wvars
<1>3. CASE ArrayItem \/ ObjectItem
  BY <1>3, Zenon DEF ArrayItem, ObjectItem, Emit
<1>4. CASE EnterTooDeep \/ Enter \/ ScanOther \/ ScanEnd \/ ArrayEnd \/ ObjectInvalidKey \/ ObjectEnd \/ Return
  BY <1>4 DEF EnterTooDeep, Enter, ScanOther, ScanEnd, StartObject, ArrayEnd, ObjectInvalidKey,
       ObjectEnd, Finish, Return
<1> QED
  BY <1>1, <1>2, <1>3, <1>4 DEF Next

\* In a heap without twins every step keeps Progress.
LEMMA ProgressStep ==
    ASSUME NoTwins, Shape, Progress, ErrorMeansMixed, [Next]_wvars, ~Overrun
    PROVE  Progress' /\ ErrorMeansMixed'
<1>a. ASSUME at' # "error" PROVE ErrorMeansMixed'
  BY <1>a DEF ErrorMeansMixed
<1>1. CASE EnterTooDeep
  BY <1>a, <1>1, EnterTooDeepProgress DEF EnterTooDeep
<1>2. CASE Enter
  BY <1>a, <1>2, EnterProgress DEF Enter
<1>3. CASE ScanIndex
  BY <1>a, <1>3, ScanIndexProgress DEF ScanIndex
<1>4. CASE ScanOther
  BY <1>a, <1>4, ScanOtherProgress DEF ScanOther, StartObject
<1>5. CASE ScanEnd
  BY <1>a, <1>5, ScanEndProgress DEF ScanEnd, StartObject
<1>6. CASE ArrayItem
  BY <1>a, <1>6, ArrayItemProgress DEF ArrayItem, Emit
<1>7. CASE ArrayEnd
  BY <1>a, <1>7, ArrayEndProgress DEF ArrayEnd, Finish
<1>8. CASE ObjectItem
  <2>1. at' # "error"
    BY <1>8 DEF ObjectItem, Emit
  <2> QED
    BY <1>a, <1>8, <2>1, ObjectItemProgress
<1>9. CASE ObjectInvalidKey
  BY <1>9, StopProgress, InvalidKeyMeans DEF ObjectInvalidKey
<1>10. CASE ObjectEnd
  BY <1>a, <1>10, ObjectEndProgress DEF ObjectEnd, Finish
<1>11. CASE ItemWritten
  <2>1. at' # "error"
    <3>1. Shape' /\ at' = Caller.kind /\ calls # <<>>
      BY <1>11, ItemWrittenStep DEF ItemWritten
    <3>2. Caller \in Call
      BY <3>1, Sizes DEF Shape
    <3> QED
      BY <3>1, <3>2 DEF Call
  <2> QED
    BY <1>a, <1>11, <2>1, ItemWrittenProgress
<1>12. CASE Return
  BY <1>a, <1>12, StopProgress DEF Return
<1>13. CASE UNCHANGED wvars
  BY <1>13 DEF wvars, Progress, ScanAt, ObjectAt, KeyOf, InItem, Tab, Caller, FromTop, ErrorMeansMixed
<1> QED
  BY <1>1, <1>2, <1>3, <1>4, <1>5, <1>6, <1>7, <1>8, <1>9, <1>10, <1>11, <1>12, <1>13 DEF Next

\* Every entry of an object has been written when the loop ends.
LEMMA ProgressCounts == ASSUME NoTwins, Shape, Progress PROVE EntriesOnce
<1> SUFFICES ASSUME at = "object"
             PROVE  /\ Caller.done <= Len(Caller.order)
                    /\ KnownKey(Caller, FromTop(1)) /\ ~HasNext(Caller, FromTop(1))
                         => Caller.done = Len(Caller.order)
  BY DEF EntriesOnce
<1>1. calls # <<>> /\ Caller.kind = "object" /\ Caller \in Call
  BY InLoop
<1>2. Caller.done \in Nat /\ Len(Caller.order) \in Nat
  BY <1>1 DEF Call
<1>3. ObjectAt(Caller, Caller.done)
  <2>1. Caller.done + (IF at \in {"object", "error"} THEN 0 ELSE 1) = Caller.done
    BY <1>2
  <2> QED
    BY <1>1, <2>1, InnermostObject
<1>4. Caller.done <= Len(Caller.order)
  BY <1>1, <1>3 DEF ObjectAt
<1>5. KnownKey(Caller, FromTop(1)) => Place(Caller, FromTop(1)) = Caller.done
  BY <1>3, PlaceIs
<1> QED
  BY <1>2, <1>4, <1>5 DEF HasNext

-----------------------------------------------------------------------------
(* What has been written, in a heap where every array is a sequence.       *)

\* The levels left for what call i writes, the entry it is at, and the slot that
\* holds its value.
Inner(i)     == MaxNesting + 1 - i
Item(c)      == c.order[c.done + 1]
ValueSlot(c) == c.slot + Held(c) + 1
Bracket(c)   == IF c.kind = "array" THEN <<"[">> ELSE <<"{">>

\* The keys an array call, or a scan, has counted; no call is too deep.
Counted(c) ==
    /\ c.kind \in {"scan", "array"} =>
          c.size <= Len(c.order) /\ \A m \in 1 .. c.size : c.order[m][1] = Index(m)
    /\ c.kind = "array" => c.size = Len(c.order) /\ c.size # 0
Kinds == Len(calls) <= MaxNesting + 1 /\ \A i \in 1 .. Len(calls) : Counted(calls[i])

\* Behind p, q has the bracket of call i and the entries it has written.
Listed(i, w) == w \in Seq(Written) /\ w \in ListTexts(TableTexts(heap)[Inner(i)], calls[i].order)[calls[i].done]
Begun(i, p, q) == \E w : Listed(i, w) /\ q = p \o (Bracket(calls[i]) \o w)

\* Behind p, q has this and what stands before the value call i is at.
LeadOf(c) == Lead(c.order, c.done + 1, c.kind = "array")
InPart(i, p, q) ==
    /\ calls[i].done + 1 <= Len(calls[i].order)
    /\ stack[ValueSlot(calls[i])] = Item(calls[i])[2]
    /\ \E b : Begun(i, p, b) /\ b \in Seq(Written) /\ q = b \o LeadOf(calls[i])

\* What was written when each call began, for the first n calls at a value.
Outer(pre, n) == pre[1] = <<>> /\ \A i \in 1 .. n : InPart(i, pre[i], pre[i + 1])

\* The value on the stack has been written behind p.
Valued(p) == \E x \in ValueTexts(TableTexts(heap)[Inner(Len(calls))], FromTop(1)) :
                x \in Seq(Written) /\ out = p \o x

Trail(pre) ==
    /\ at \in {"enter", "emitted"} => Outer(pre, Len(calls))
    /\ at \in {"scan", "array", "object"} => Outer(pre, Len(calls) - 1)
    /\ at = "enter" => out = pre[Len(calls) + 1]
    /\ at = "emitted" => Valued(pre[Len(calls) + 1])
    /\ at = "scan" => out = pre[Len(calls)]
    /\ at \in {"array", "object"} => Begun(Len(calls), pre[Len(calls)], out)

Starts == [1 .. MaxNesting + 2 -> Seq(Written)]
Wrote == /\ \E pre \in Starts : Trail(pre)
         /\ at = "done" => out \in TableTexts(heap)[MaxNesting + 1][1]

-----------------------------------------------------------------------------
\* An order whose keys are 1 .. n is that of a sequence, and lua_rawgeti reads its
\* values.
LEMMA SequenceOrder ==
    ASSUME NEW o, NEW t, NEW h, IsOrder(o, t, h), Len(o) # 0,
           \A m \in 1 .. Len(o) : o[m][1] = Index(m)
    PROVE  IsSequence(t) /\ \A m \in 1 .. Len(o) : RawGet(t, m) = o[m][2]
<1>1. /\ Len(o) \in Nat \ {0} /\ Len(o) = Cardinality(t) /\ Range(o) = t
      /\ \A i \in 1 .. Len(o) : o[i] \in t
      /\ DOMAIN o = 1 .. Len(o)
  BY DEF IsOrder
<1>2. \A e \in t : \E i \in 1 .. Len(o) : e = o[i]
  BY <1>1 DEF Range
<1>3. t # {}
  BY <1>1
<1>4. IsSequence(t)
  BY <1>1, <1>2, <1>3 DEF IsSequence
<1>5. ASSUME NEW m \in 1 .. Len(o) PROVE RawGet(t, m) = o[m][2]
  <2>1. o[m] \in t /\ o[m][1] = Index(m)
    BY <1>1
  <2>2. ASSUME NEW e \in t, e[1] = Index(m) PROVE e = o[m]
    <3>1. PICK i \in 1 .. Len(o) : e = o[i]
      BY <1>2
    <3>2. i = m
      BY <2>1, <2>2, <3>1 DEF IsOrder
    <3> QED
      BY <3>1, <3>2
  <2>3. \E e \in t : e[1] = Index(m)
    BY <2>1
  <2>4. (CHOOSE e \in t : e[1] = Index(m)) = o[m]
    BY <2>2, <2>3
  <2> QED
    BY <2>3, <2>4 DEF RawGet
<1> QED
  BY <1>4, <1>5

\* In a sequence as many keys are sequential as there are.
LEMMA SequenceSequential ==
    ASSUME NEW t, IsFiniteSet(t), IsSequence(t)
    PROVE  Cardinality(t) # 0 /\ Sequential(t) = 1 .. Cardinality(t)
<1>1. Cardinality(t) \in Nat /\ Cardinality(t) # 0
  BY FS_CardinalityType, FS_EmptySet DEF IsSequence
<1>2. \A j \in 1 .. Cardinality(t) : \E e \in t : e[1] = Index(j)
  BY DEF IsSequence
<1>3. ASSUME NEW i \in 1 .. Cardinality(t), NEW j \in 1 .. i PROVE j \in 1 .. Cardinality(t)
  BY <1>1
<1> QED
  BY <1>1, <1>2, <1>3 DEF Sequential

\* Which loop writes a table is what it is.
LEMMA KindMeans ==
    ASSUME Shape, Progress, Kinds, NEW i \in 1 .. Len(calls), calls[i].kind # "scan"
    PROVE  calls[i].kind = "array" <=> IsSequence(Tab(calls[i]))
<1> DEFINE c == calls[i]
<1>1. TypeOK /\ Frames
  BY DEF Shape
<1>2. c \in Call /\ IsOrder(c.order, Tab(c), heap)
  BY <1>1, Sizes
<1>3. Counted(c) /\ \E m : ObjectAt(c, m)
  BY DEF Kinds, Progress
<1>4. IsFiniteSet(Tab(c))
  <2>1. stack[c.slot] \in Refs
    BY <1>1 DEF Frames
  <2>2. stack[c.slot].id \in DOMAIN heap
    BY <1>1, <2>1, HeapTables
  <2> QED
    BY <1>1, <2>2, HeapTables DEF Tab, WellFormed
<1>5. c.kind = "array" => IsSequence(Tab(c))
  <2> HIDE DEF c
  <2> QED
    BY <1>2, <1>3, SequenceOrder DEF Counted
<1>6. c.kind = "object" => ~IsSequence(Tab(c))
  <2> HIDE DEF c
  <2>1. Len(c.order) = Cardinality(Tab(c))
    BY <1>2 DEF IsOrder
  <2> QED
    BY <1>3, <1>4, <2>1, SequenceSequential DEF ObjectAt
<1>7. c.kind \in {"array", "object"}
  BY <1>2 DEF Call
<1> QED
  BY <1>5, <1>6, <1>7

\* The numerals are strings that need no escape.
LEMMA DigitSafe == \A m \in 1 .. Len(Digits) : Digits[m] \in Str /\ Digits[m] \notin Unsafe
<1>1. Len(Digits) \in Nat /\ DOMAIN Digits = 1 .. Len(Digits) /\ \A m \in 1 .. Len(Digits) : Digits[m] \in Str
  BY DigitsAssumption
<1>2. \A m \in 1 .. Len(Digits) : Digits[m] \in Range(Digits)
  BY <1>1 DEF Range
<1> QED
  BY <1>1, <1>2, EscapeAssumption

\* So are those of the other numbers.
LEMMA DecimalSafe == \A x \in Num : Decimal[x] \in Str /\ Decimal[x] \notin Unsafe
<1>1. DOMAIN Decimal = Num /\ \A x \in Num : Decimal[x] \in Str
  BY DecimalAssumption
<1>2. \A x \in Num : Decimal[x] \in Range(Decimal)
  BY <1>1 DEF Range
<1> QED
  BY <1>1, <1>2, EscapeAssumption

\* A value that is no table has a lexeme, and the code writes it, if the value is
\* no string that the code leaves unescaped.
LEMMA ValueMeans ==
    ASSUME NEW v \in Value \cup {Opaque}, ~IsTable(v)
    PROVE  /\ Lexeme(v) \in Written
           /\ (IsAtomIn(v, Str) => v.v \notin Unsafe \ Escaped) => ValueText(v) = Lexeme(v)
<1>1. CASE v.ty # "atom"
  <2>1. v.ty \in {"nil", "opaque"}
    BY <1>1 DEF Value, Nil, Opaque, IsTable
  <2> QED
    BY <2>1 DEF ValueText, Lexeme, IsString, IsAtomIn, Written
<1>2. CASE v.ty = "atom"
  <2>1. v.v \in Str \cup Num \cup {"true", "false"}
    BY <1>2 DEF Value, Nil, Opaque
  <2>2. CASE v.v \in Num
    <3>1. Decimal[v.v] \in Str /\ ToText(v).v = Decimal[v.v] /\ Decimal[v.v] \notin Unsafe
      BY <1>2, <2>2, DecimalSafe DEF ToText, IsAtomIn, Atom
    <3>2. IsString(v)
      BY <1>2, <2>2 DEF IsString, IsAtomIn
    <3>3. ValueText(v) = ToText(v).v
      BY <3>1, <3>2 DEF ValueText
    <3> QED
      BY <1>2, <2>2, <3>1, <3>3 DEF Lexeme, Written
  <2>3. CASE v.v \notin Num /\ v.v \in Str
    <3>1. ToText(v) = v /\ IsString(v) /\ IsAtomIn(v, Str)
      BY <1>2, <2>3 DEF ToText, IsAtomIn, IsString
    <3>2. ValueText(v) = IF v.v \in Unsafe \ Escaped THEN "badstr" ELSE v.v
      BY <3>1 DEF ValueText
    <3>3. Lexeme(v) = v.v
      BY <1>2, <2>3 DEF Lexeme
    <3> QED
      BY <2>3, <3>1, <3>2, <3>3 DEF Written
  <2>4. CASE v.v \notin Num /\ v.v \notin Str
    <3>1. ~IsString(v) /\ IsAtomIn(v, {"true", "false"})
      BY <1>2, <2>1, <2>4 DEF IsString, IsAtomIn
    <3>2. ValueText(v) = v.v
      BY <3>1 DEF ValueText
    <3> QED
      BY <1>2, <2>1, <2>4, <3>2 DEF Lexeme, Written
  <2> QED
    BY <2>2, <2>3, <2>4
<1> QED
  BY <1>1, <1>2

\* A key has a name, and the code writes it, if the key is no string that needs an
\* escape.
LEMMA KeyMeans ==
    ASSUME NEW k \in Key, k.ty = "index" => k.n <= Len(Digits)
    PROVE  /\ Name(k) \in Written
           /\ (IsAtomIn(k, Str) => k.v \notin Unsafe) => KeyText(k) = Name(k)
<1>1. CASE k.ty = "index"
  <2>1. ToText(k).v = Digits[k.n] /\ IsString(k) /\ Name(k) = Digits[k.n]
    BY <1>1 DEF ToText, Atom, IsString, Name
  <2>2. k.n \in 1 .. Len(Digits)
    BY <1>1 DEF Key, Value, Nil
  <2>3. Digits[k.n] \in Str /\ Digits[k.n] \notin Unsafe
    BY <2>2, DigitSafe
  <2> QED
    BY <2>1, <2>3 DEF KeyText, Written
<1>2. CASE k.ty = "atom"
  <2>1. CASE k.v \in Num
    <3>1. ToText(k).v = Decimal[k.v] /\ IsString(k) /\ Name(k) = Decimal[k.v]
      BY <1>2, <2>1 DEF ToText, Atom, IsString, IsAtomIn, Name
    <3>2. Decimal[k.v] \in Str /\ Decimal[k.v] \notin Unsafe
      BY <2>1, DecimalSafe
    <3> QED
      BY <3>1, <3>2 DEF KeyText, Written
  <2>2. CASE k.v \notin Num /\ k.v \in Str
    <3>1. ToText(k) = k /\ IsString(k) /\ IsAtomIn(k, Str) /\ Name(k) = k.v
      BY <1>2, <2>2 DEF ToText, IsString, IsAtomIn, Name
    <3> QED
      BY <2>2, <3>1 DEF KeyText, Written
  <2>3. CASE k.v \notin Num /\ k.v \notin Str
    <3>1. ~IsString(k) /\ Name(k) = "unknown"
      BY <1>2, <2>3 DEF IsString, IsAtomIn, Name
    <3> QED
      BY <3>1 DEF KeyText, Written
  <2> QED
    BY <2>1, <2>2, <2>3
<1>3. CASE k.ty # "index" /\ k.ty # "atom"
  <2>1. ~IsString(k) /\ Name(k) = "unknown"
    BY <1>3 DEF IsString, IsAtomIn, Name
  <2> QED
    BY <2>1 DEF KeyText, Written
<1> QED
  BY <1>1, <1>2, <1>3

\* The entries of a plain heap's tables are plain.
LEMMA PlainEntries ==
    ASSUME heap \in PlainHeaps, Shape
    PROVE  \A j \in DOMAIN heap : \A e \in heap[j] : PlainEntry(e)
<1>1. \A j \in DOMAIN heap : heap[j] \in Range(heap)
  BY DEF Range
<1> QED
  BY <1>1 DEF PlainHeaps

-----------------------------------------------------------------------------
\* Texts: joining them, and the types of what the writer joins.
LEMMA JoinType ==
    ASSUME NEW S, NEW s \in Seq(S), NEW t \in Seq(S)
    PROVE  s \o t \in Seq(S)
BY ConcatProperties

\* What stands before a value of a list is made of lexemes.
LEMMA LeadType ==
    ASSUME NEW h, NEW t, NEW o, IsOrder(o, t, h), NEW m \in 1 .. Len(o), NEW sequence
    PROVE  Lead(o, m, sequence) \in Seq(Written)
<1>1. o[m] \in Key \X (Value \cup {Opaque}) /\ (o[m][1].ty = "index" => o[m][1].n <= Len(Digits))
  BY DEF IsOrder
<1>2. Name(o[m][1]) \in Written
  BY <1>1, KeyMeans
<1>3. "," \in Written /\ ":" \in Written
  BY DEF Written
<1>4. <<",">> \in Seq(Written)
  BY <1>3, OneSeq
<1>5. <<>> \in Seq(Written)
  OBVIOUS
<1>6. \A k \in Written : <<k, ":">> \in Seq(Written)
  BY <1>3, PairSeq
<1> QED
  BY <1>2, <1>4, <1>5, <1>6, JoinType DEF Lead

\* So is a bracket.
LEMMA BracketType == \A c : Bracket(c) \in Seq(Written)
<1>1. "[" \in Written /\ "{" \in Written
  BY DEF Written
<1>2. <<"[">> \in Seq(Written) /\ <<"{">> \in Seq(Written)
  BY <1>1, OneSeq
<1> QED
  BY <1>2 DEF Bracket

\* The tables of the calls, and the levels they are written with.
LEMMA CallTables ==
    ASSUME Shape, Kinds, NEW i \in 1 .. Len(calls)
    PROVE  /\ stack[calls[i].slot] \in Refs /\ stack[calls[i].slot].id \in DOMAIN heap
           /\ Tab(calls[i]) = heap[stack[calls[i].slot].id]
           /\ calls[i].order \in Orders(Tab(calls[i]))
           /\ IsOrder(calls[i].order, Tab(calls[i]), heap)
           /\ calls[i] \in Call
           /\ Inner(i) \in 0 .. MaxNesting /\ Inner(i) + 1 = Inner(i - 1)
<1>1. TypeOK /\ Frames
  BY DEF Shape
<1>2. stack[calls[i].slot] \in Refs /\ calls[i].order \in Orders(Tab(calls[i]))
  BY <1>1 DEF Frames
<1>3. Inner(i) \in 0 .. MaxNesting /\ Inner(i) + 1 = Inner(i - 1)
  BY <1>1, Sizes, NestingAssumption DEF Kinds, Inner
<1> QED
  BY <1>1, <1>2, <1>3, HeapTables, Sizes DEF Tab

\* The value of a call's entry lies below the table of the next call, and that of
\* the innermost call on top of the stack.
LEMMA ValueSlots ==
    ASSUME Shape, calls # <<>>
    PROVE  /\ \A i \in 1 .. Len(calls) : i < Len(calls) => ValueSlot(calls[i]) \in 1 .. Base
           /\ ValueSlot(Caller) = Base + Held(Caller) + 1
           /\ at \in {"enter", "emitted"} => ValueSlot(Caller) = Len(stack)
<1>1. TypeOK /\ Frames /\ Heights /\ Base = Caller.slot
  BY DEF Shape, Base
<1>2. ASSUME NEW i \in 1 .. Len(calls), i < Len(calls) PROVE ValueSlot(calls[i]) \in 1 .. Base
  <2>1. i + 1 \in 1 .. Len(calls) /\ i + 1 > 1 /\ i = (i + 1) - 1
    BY <1>1, <1>2, Sizes
  <2>2. calls[i + 1].slot = calls[i].slot + Held(calls[i]) + 1 /\ calls[i + 1].slot \in 1 .. Base
    BY <1>1, <2>1, BelowBase DEF Frames
  <2> QED
    BY <2>2 DEF ValueSlot
<1>3. at \in {"enter", "emitted"} => ValueSlot(Caller) = Len(stack)
  BY <1>1 DEF Heights, ValueSlot
<1> QED
  BY <1>1, <1>2, <1>3 DEF ValueSlot

\* What the calls below have written stays, as long as they and their values do.
LEMMA OuterKept ==
    ASSUME NEW pre, NEW n \in Nat, Outer(pre, n), heap' = heap,
           \A i \in 1 .. n : calls'[i] = calls[i]
                             /\ stack'[ValueSlot(calls[i])] = stack[ValueSlot(calls[i])]
    PROVE  Outer(pre, n)'
<1> SUFFICES ASSUME NEW i \in 1 .. n PROVE InPart(i, pre[i], pre[i + 1])'
  BY DEF Outer
<1>1. InPart(i, pre[i], pre[i + 1]) /\ calls'[i] = calls[i]
      /\ stack'[ValueSlot(calls[i])] = stack[ValueSlot(calls[i])]
  BY DEF Outer
<1>2. \A p, b : Begun(i, p, b)' <=> Begun(i, p, b)
  BY <1>1 DEF Begun, Listed, Inner
<1> QED
  BY <1>1, <1>2 DEF InPart, ValueSlot, Item

\* A step of the innermost call leaves the others what they have written.
LEMMA OuterBelow ==
    ASSUME Shape, calls # <<>>, heap' = heap, NEW n, n = Len(calls) - 1, NEW pre, Outer(pre, n),
           \A i \in 1 .. Len(calls) : i < Len(calls) => calls'[i] = calls[i],
           \A j \in 1 .. Base : stack'[j] = stack[j]
    PROVE  Outer(pre, n)'
<1>1. Len(calls) \in Nat \ {0} /\ n \in Nat
  BY Sizes DEF Shape
<1>2. ASSUME NEW i \in 1 .. n
      PROVE  calls'[i] = calls[i] /\ stack'[ValueSlot(calls[i])] = stack[ValueSlot(calls[i])]
  <2>1. i \in 1 .. Len(calls) /\ i < Len(calls)
    BY <1>1
  <2> QED
    BY <2>1, ValueSlots
<1> QED
  BY <1>1, <1>2, OuterKept

-----------------------------------------------------------------------------
(* The recursive definitions of the texts have the solutions they name.    *)

\* What holds of 0, and of n + 1 if of n, holds of any number.
LEMMA StepByStep ==
    ASSUME NEW N \in Nat, NEW T, 0 \in T, \A n \in Nat : n < N /\ n \in T => n + 1 \in T
    PROVE  N \in T
<1> DEFINE R == {p \in Nat \X Nat : p[1] < p[2]}
           S == {n \in Nat : n <= N /\ n \notin T}
<1>1. IsWellFoundedOn(R, Nat)
  BY NatLessThanWellFounded DEF OpToRel
<1> SUFFICES ASSUME S # {} PROVE FALSE
  OBVIOUS
<1>2. S \subseteq Nat
  OBVIOUS
<1>3. PICK n \in S : \A m \in S : ~(<<m, n>> \in R)
  <2> HIDE DEF R, S
  <2> QED
    BY <1>1, <1>2, WFMin
<1>4. n \in Nat /\ n <= N /\ n # 0
  OBVIOUS
<1>5. PICK m \in Nat : n = m + 1 /\ m < n /\ m < N
  <2>1. n - 1 \in Nat /\ n = (n - 1) + 1 /\ n - 1 < n /\ n - 1 < N
    BY <1>4
  <2> QED
    BY <2>1
<1>6. m \in T
  <2>1. <<m, n>> \in R
    BY <1>4, <1>5
  <2>2. m \notin S
    <3> HIDE DEF R, S
    <3> QED
      BY <1>3, <2>1
  <2> QED
    BY <1>5, <2>2
<1>7. n \in T
  BY <1>5, <1>6
<1> QED
  BY <1>7

\* ListTexts, for a list of any length.
LEMMA ListsDefined ==
    ASSUME NEW texts, NEW o, Len(o) \in Nat
    PROVE  /\ ListTexts(texts, o)[0] = {<<>>}
           /\ \A k \in 1 .. Len(o) :
                 ListTexts(texts, o)[k]
                    = Lists(texts, o, k, ListTexts(texts, o)[k - 1], IsSequence(Range(o)))
<1> DEFINE Body(k, g) == IF k = 0 THEN {<<>>} ELSE Lists(texts, o, k, g[k - 1], IsSequence(Range(o)))
           IsOn(n, g) == g = [k \in 0 .. n |-> Body(k, g)]
           T == {n \in Nat : \E g : IsOn(n, g)}
<1>1. 0 \in T
  <2>1. \A k \in 0 .. 0 : Body(k, 0) = Body(k, [i \in 0 .. 0 |-> Body(i, 0)])
    OBVIOUS
  <2>2. IsOn(0, [k \in 0 .. 0 |-> Body(k, 0)])
    <3> HIDE DEF Body
    <3> QED
      BY <2>1
  <2> QED
    BY <2>2
<1>2. ASSUME NEW n \in Nat, n < Len(o), n \in T PROVE n + 1 \in T
  <2>1. PICK g : IsOn(n, g)
    BY <1>2
  <2> DEFINE h == [k \in 0 .. n + 1 |-> Body(k, g)]
  <2>2. ASSUME NEW k \in 0 .. n PROVE g[k] = h[k]
    <3> HIDE DEF Body
    <3>1. g[k] = Body(k, g)
      BY <2>1
    <3>2. k \in 0 .. n + 1
      OBVIOUS
    <3> QED
      BY <3>1, <3>2
  <2>3. ASSUME NEW k \in 0 .. n + 1 PROVE Body(k, g) = Body(k, h)
    <3>1. k # 0 => k - 1 \in 0 .. n
      OBVIOUS
    <3> HIDE DEF h
    <3> QED
      BY <2>2, <3>1
  <2>4. IsOn(n + 1, h)
    <3> HIDE DEF Body
    <3> QED
      BY <2>3
  <2> HIDE DEF Body, h
  <2> QED
    BY <2>4
<1>3. Len(o) \in T
  <2> HIDE DEF T
  <2> QED
    BY <1>1, <1>2, StepByStep
<1>4. \E g : IsOn(Len(o), g)
  BY <1>3
<1>5. IsOn(Len(o), ListTexts(texts, o))
  BY <1>4 DEF ListTexts
<1>6. \A k \in 0 .. Len(o) : ListTexts(texts, o)[k] = Body(k, ListTexts(texts, o))
  <2> HIDE DEF Body
  <2> QED
    BY <1>5
<1>7. 0 \in 0 .. Len(o) /\ \A k \in 1 .. Len(o) : k \in 0 .. Len(o) /\ k # 0
  OBVIOUS
<1> QED
  BY <1>6, <1>7

\* TableTexts, for any number of levels.
LEMMA TablesDefined ==
    ASSUME NEW h, NEW j \in DOMAIN h
    PROVE  /\ TableTexts(h)[0][j] = {<<"{", "}">>}
           /\ \A n \in 0 .. MaxNesting : TableTexts(h)[n + 1][j] = EntryTexts(TableTexts(h)[n], h[j])
<1> DEFINE Body(n, g) == IF n = 0 THEN [i \in DOMAIN h |-> {<<"{", "}">>}]
                         ELSE [i \in DOMAIN h |-> EntryTexts(g[n - 1], h[i])]
           IsOn(n, g) == g = [m \in 0 .. n |-> Body(m, g)]
           T == {n \in Nat : \E g : IsOn(n, g)}
<1>1. 0 \in T
  <2>1. \A k \in 0 .. 0 : Body(k, 0) = Body(k, [i \in 0 .. 0 |-> Body(i, 0)])
    OBVIOUS
  <2>2. IsOn(0, [k \in 0 .. 0 |-> Body(k, 0)])
    <3> HIDE DEF Body
    <3> QED
      BY <2>1
  <2> QED
    BY <2>2
<1>2. ASSUME NEW n \in Nat, n < MaxNesting + 1, n \in T PROVE n + 1 \in T
  <2>1. PICK g : IsOn(n, g)
    BY <1>2
  <2> DEFINE f == [k \in 0 .. n + 1 |-> Body(k, g)]
  <2>2. ASSUME NEW k \in 0 .. n PROVE g[k] = f[k]
    <3> HIDE DEF Body
    <3>1. g[k] = Body(k, g)
      BY <2>1
    <3>2. k \in 0 .. n + 1
      OBVIOUS
    <3> QED
      BY <3>1, <3>2
  <2>3. ASSUME NEW k \in 0 .. n + 1 PROVE Body(k, g) = Body(k, f)
    <3>1. k # 0 => k - 1 \in 0 .. n
      OBVIOUS
    <3> HIDE DEF f
    <3> QED
      BY <2>2, <3>1
  <2>4. IsOn(n + 1, f)
    <3> HIDE DEF Body
    <3> QED
      BY <2>3
  <2> HIDE DEF Body, f
  <2> QED
    BY <2>4
<1>3. MaxNesting + 1 \in Nat
  BY NestingAssumption
<1>4. MaxNesting + 1 \in T
  <2> HIDE DEF T
  <2> QED
    BY <1>1, <1>2, <1>3, StepByStep
<1>5. \E g : IsOn(MaxNesting + 1, g)
  BY <1>4
<1>6. IsOn(MaxNesting + 1, TableTexts(h))
  BY <1>5 DEF TableTexts
<1>7. \A n \in 0 .. MaxNesting + 1 : TableTexts(h)[n] = Body(n, TableTexts(h))
  <2> HIDE DEF Body
  <2> QED
    BY <1>6
<1>8. TableTexts(h)[0] = Body(0, TableTexts(h))
  <2> HIDE DEF Body
  <2> QED
    BY <1>3, <1>7
<1>9. ASSUME NEW n \in 0 .. MaxNesting
      PROVE  TableTexts(h)[n + 1][j] = EntryTexts(TableTexts(h)[n], h[j])
  <2>1. n + 1 \in 0 .. MaxNesting + 1 /\ n + 1 # 0 /\ (n + 1) - 1 = n
    BY NestingAssumption
  <2>2. TableTexts(h)[n + 1] = Body(n + 1, TableTexts(h))
    BY <1>7, <2>1, Zenon
  <2>3. Body(n + 1, TableTexts(h)) = [i \in DOMAIN h |-> EntryTexts(TableTexts(h)[n], h[i])]
    BY <2>1, Zenon
  <2> QED
    BY <2>2, <2>3, Zenon
<1>10. TableTexts(h)[0][j] = {<<"{", "}">>}
  BY <1>8, Zenon
<1> QED
  BY <1>9, <1>10, Zenon

\* Members of the sets of texts.
LEMMA ListMember ==
    ASSUME NEW texts, NEW o, NEW k, NEW shorter, NEW sequence,
           NEW w \in shorter, NEW x \in ValueTexts(texts, o[k][2])
    PROVE  (w \o Lead(o, k, sequence)) \o x \in Lists(texts, o, k, shorter, sequence)
BY DEF Lists

\* A list in terms of the shorter one.
LEMMA LongerList ==
    ASSUME NEW h \in PlainHeaps, NEW j \in DOMAIN h, NEW n \in 0 .. MaxNesting,
           NEW o \in Orders(h[j]), NEW k \in 1 .. Len(o)
    PROVE  ListTexts(TableTexts(h)[n], o)[k] =
               Lists(TableTexts(h)[n], o, k, ListTexts(TableTexts(h)[n], o)[k - 1], IsSequence(h[j]))
<1>1. WellFormed(h[j], h)
  BY HeapsAssumption DEF PlainHeaps, Range
<1>2. Range(o) = h[j] /\ Len(o) \in Nat
  BY <1>1, OrderType DEF IsOrder
<1> QED
  BY <1>2, ListsDefined

\* A list of all entries of a table, in brackets, is a text of it.
LEMMA TableMember ==
    ASSUME NEW h \in PlainHeaps, NEW j \in DOMAIN h, NEW n \in 0 .. MaxNesting,
           NEW o \in Orders(h[j]), NEW w \in ListTexts(TableTexts(h)[n], o)[Len(o)]
    PROVE  Bracketed(w, IsSequence(h[j])) \in TableTexts(h)[n + 1][j]
<1>1. TableTexts(h)[n + 1][j] = EntryTexts(TableTexts(h)[n], h[j])
  BY TablesDefined
<1>2. Bracketed(w, IsSequence(h[j])) \in EntryTexts(TableTexts(h)[n], h[j])
  BY DEF EntryTexts
<1> QED
  BY <1>1, <1>2

\* A finished entry makes the list of a call longer by one.
LEMMA ListGrows ==
    ASSUME heap \in PlainHeaps, Shape, Progress, Kinds, NEW i \in 1 .. Len(calls), calls[i].kind # "scan",
           NEW w, Listed(i, w), calls[i].done + 1 <= Len(calls[i].order),
           NEW x \in ValueTexts(TableTexts(heap)[Inner(i)], Item(calls[i])[2])
    PROVE  (w \o LeadOf(calls[i])) \o x
               \in ListTexts(TableTexts(heap)[Inner(i)], calls[i].order)[calls[i].done + 1]
<1> DEFINE c == calls[i]
           n == Inner(i)
           j == stack[c.slot].id
<1>1. /\ j \in DOMAIN heap /\ Tab(c) = heap[j] /\ c.order \in Orders(heap[j])
      /\ IsOrder(c.order, Tab(c), heap) /\ c \in Call /\ n \in 0 .. MaxNesting
  BY CallTables
<1>2. c.done + 1 \in 1 .. Len(c.order) /\ (c.done + 1) - 1 = c.done
  <2>1. c.done \in Nat /\ Len(c.order) \in Nat
    BY <1>1 DEF Call
  <2>2. c.done + 1 <= Len(c.order)
    OBVIOUS
  <2> HIDE DEF c
  <2> QED
    BY <2>1, <2>2
<1>3. (c.kind = "array") <=> IsSequence(heap[j])
  BY <1>1, KindMeans
<1>4. ListTexts(TableTexts(heap)[n], c.order)[c.done + 1] =
         Lists(TableTexts(heap)[n], c.order, c.done + 1,
               ListTexts(TableTexts(heap)[n], c.order)[(c.done + 1) - 1], IsSequence(heap[j]))
  BY <1>1, <1>2, LongerList
<1>5. LeadOf(c) = Lead(c.order, c.done + 1, IsSequence(heap[j]))
  BY <1>3 DEF LeadOf, Lead
<1>6. w \in ListTexts(TableTexts(heap)[n], c.order)[(c.done + 1) - 1]
  BY <1>2 DEF Listed
<1>7. x \in ValueTexts(TableTexts(heap)[n], c.order[c.done + 1][2])
  BY DEF Item
<1>8. (w \o Lead(c.order, c.done + 1, IsSequence(heap[j]))) \o x
         \in Lists(TableTexts(heap)[n], c.order, c.done + 1,
                  ListTexts(TableTexts(heap)[n], c.order)[(c.done + 1) - 1], IsSequence(heap[j]))
  BY <1>6, <1>7, ListMember
<1> QED
  BY <1>4, <1>5, <1>8, Zenon

\* A finished list in its brackets is a text of the table.
LEMMA ListCloses ==
    ASSUME heap \in PlainHeaps, Shape, Progress, Kinds, NEW i \in 1 .. Len(calls), calls[i].kind # "scan",
           NEW w, Listed(i, w), calls[i].done = Len(calls[i].order)
    PROVE  (Bracket(calls[i]) \o w) \o (IF calls[i].kind = "array" THEN <<"]">> ELSE <<"}">>)
               \in TableTexts(heap)[Inner(i - 1)][stack[calls[i].slot].id]
<1> DEFINE c == calls[i]
           n == Inner(i)
           j == stack[c.slot].id
<1>1. /\ j \in DOMAIN heap /\ Tab(c) = heap[j] /\ c.order \in Orders(heap[j])
      /\ n \in 0 .. MaxNesting /\ n + 1 = Inner(i - 1)
  BY CallTables
<1>2. (c.kind = "array") <=> IsSequence(heap[j])
  BY <1>1, KindMeans
<1>4. w \in ListTexts(TableTexts(heap)[n], c.order)[Len(c.order)]
  BY DEF Listed
<1>5. Bracketed(w, IsSequence(heap[j])) \in TableTexts(heap)[n + 1][j]
  BY <1>1, <1>4, TableMember
<1>6. Bracketed(w, IsSequence(heap[j]))
         = (Bracket(c) \o w) \o (IF c.kind = "array" THEN <<"]">> ELSE <<"}">>)
  BY <1>2 DEF Bracketed, Bracket
<1> QED
  BY <1>1, <1>5, <1>6

\* The innermost call is replaced.
LEMMA KindsFrom ==
    ASSUME Shape, Kinds, calls # <<>>, NEW c \in Call, SetCaller(c), Counted(c)
    PROVE  Kinds'
<1>1. /\ Len(calls') = Len(calls) /\ calls'[Len(calls)] = c
      /\ \A i \in 1 .. Len(calls) : i < Len(calls) => calls'[i] = calls[i]
  BY SetCallerProperties DEF Shape
<1>2. Len(calls) \in Nat
  BY Sizes DEF Shape
<1>3. \A i \in 1 .. Len(calls) : i < Len(calls) \/ i = Len(calls)
  BY <1>2
<1> QED
  BY <1>1, <1>3 DEF Kinds

\* The innermost call returns.
LEMMA KindsPopped == ASSUME Shape, Kinds, calls # <<>>, calls' = Pop(calls, 1) PROVE Kinds'
<1>1. calls \in Seq(Call) /\ 1 \in Nat /\ 1 <= Len(calls) /\ Len(calls) \in Nat
  BY Sizes DEF Shape
<1>2. Len(calls') = Len(calls) - 1 /\ \A i \in 1 .. Len(calls) - 1 : calls'[i] = calls[i]
  BY <1>1, PopProperties
<1>3. \A i \in 1 .. Len(calls) - 1 : i \in 1 .. Len(calls)
  BY <1>1
<1> QED
  BY <1>1, <1>2, <1>3, NestingAssumption DEF Kinds

\* The innermost call's keys.
LEMMA CallerCounted ==
    ASSUME Shape, Kinds, calls # <<>>
    PROVE  /\ Caller = calls[Len(calls)] /\ Len(calls) \in 1 .. Len(calls) /\ Counted(Caller)
           /\ Caller \in Call /\ Caller.size \in Nat /\ Caller.done \in Nat /\ Len(Caller.order) \in Nat
           /\ IsOrder(Caller.order, Tab(Caller), heap)
<1>1. Len(calls) \in 1 .. Len(calls) /\ Caller \in Call /\ IsOrder(Caller.order, Tab(Caller), heap)
  BY Sizes DEF Shape
<1> QED
  BY <1>1 DEF Kinds, Caller, Call

\* A key that reads as an index is one, where no string does.
LEMMA PlainKey ==
    ASSUME heap \in PlainHeaps, Shape, NEW j \in DOMAIN heap, NEW e \in heap[j],
           NEW i \in Nat \ {0}, IsNumberEqual(e[1], i)
    PROVE  e[1] = Index(i)
<1>1. IsAtomIn(e[1], Str) => IndexOf[e[1].v] = 0
  BY PlainEntries DEF PlainEntry
<1> QED
  BY <1>1 DEF IsNumberEqual

\* The scan counts a key only where it is the next index.
LEMMA ScanIndexKinds ==
    ASSUME heap \in PlainHeaps, Shape, Progress, Kinds, ScanIndex
    PROVE  Kinds'
<1> DEFINE c == [Caller EXCEPT !.size = @ + 1]
           m == Caller.size + 1
<1>1. /\ at = "scan" /\ HasNext(Caller, FromTop(1)) /\ SetCaller(c)
      /\ IsNumberEqual(NextEntry(Caller, FromTop(1))[1], m)
  BY DEF ScanIndex
<1>2. calls # <<>> /\ Caller.kind = "scan"
  BY <1>1, InLoop
<1>3. /\ Counted(Caller) /\ Caller \in Call /\ Caller.size \in Nat /\ Len(Caller.order) \in Nat
      /\ IsOrder(Caller.order, Tab(Caller), heap)
      /\ Caller = calls[Len(calls)] /\ Len(calls) \in 1 .. Len(calls)
  BY <1>2, CallerCounted
<1>4. m \in 1 .. Len(Caller.order) /\ NextEntry(Caller, FromTop(1)) = Caller.order[m]
  BY <1>1, ScanPlace
<1>5. Caller.order[m][1] = Index(m)
  <2>1. \E j \in DOMAIN heap : Tab(Caller) = heap[j]
    BY <1>3, CallTables
  <2>2. Caller.order[m] \in Tab(Caller) /\ m \in Nat \ {0}
    BY <1>3, <1>4 DEF IsOrder
  <2> HIDE DEF m
  <2> QED
    BY <1>1, <1>4, <2>1, <2>2, PlainKey
<1>6. c \in Call /\ c.size = m /\ c.order = Caller.order /\ c.kind = "scan"
  BY <1>2, <1>3 DEF Call
<1>7. \A i \in 1 .. m : Caller.order[i][1] = Index(i)
  <2>1. \A i \in 1 .. m : i \in 1 .. Caller.size \/ i = m
    BY <1>3
  <2>2. \A i \in 1 .. Caller.size : Caller.order[i][1] = Index(i)
    BY <1>2, <1>3 DEF Counted
  <2> HIDE DEF m
  <2> QED
    BY <1>5, <2>1, <2>2
<1>8. m <= Len(Caller.order)
  BY <1>3, <1>4
<1> HIDE DEF m, c
<1>9. Counted(c)
  BY <1>6, <1>7, <1>8 DEF Counted
<1> QED
  BY <1>1, <1>2, <1>6, <1>9, KindsFrom

\* An object call has nothing to count.
LEMMA StartObjectKinds == ASSUME Shape, Kinds, at = "scan", StartObject PROVE Kinds'
<1>1. calls # <<>> /\ Caller \in Call
  BY InLoop
<1> DEFINE c == [Caller EXCEPT !.kind = "object"]
<1>2. SetCaller(c) /\ c \in Call /\ c.kind = "object"
  BY <1>1 DEF StartObject, Call
<1> HIDE DEF c
<1>3. Counted(c)
  BY <1>2 DEF Counted
<1> QED
  BY <1>1, <1>2, <1>3, KindsFrom

\* The scan that ends in an array has counted every key.
LEMMA ScanEndKinds == ASSUME Shape, Progress, Kinds, ScanEnd PROVE Kinds'
<1>1. at = "scan" /\ ~HasNext(Caller, FromTop(1))
  BY DEF ScanEnd
<1>2. calls # <<>> /\ Caller.kind = "scan"
  BY <1>1, InLoop
<1>3. Counted(Caller) /\ Caller \in Call /\ Caller.size \in Nat /\ Len(Caller.order) \in Nat
  BY <1>2, CallerCounted
<1>4. CASE StartObject
  BY <1>1, <1>4, StartObjectKinds
<1>5. CASE ~StartObject
  <2> DEFINE c == [Caller EXCEPT !.kind = "array"]
  <2>1. Caller.size > 0 /\ SetCaller(c)
    BY <1>5 DEF ScanEnd
  <2>2. c \in Call /\ c.kind = "array" /\ c.size = Caller.size /\ c.order = Caller.order
    BY <1>3 DEF Call
  <2>3. Caller.size = Len(Caller.order)
    <3>1. Place(Caller, FromTop(1)) = Caller.size
      BY <1>1, ScanPlace
    <3> QED
      BY <1>1, <1>2, <1>3, <3>1 DEF HasNext, Counted
  <2>4. c.size # 0
    BY <1>3, <2>1, <2>2
  <2> HIDE DEF c
  <2>5. Counted(c)
    BY <1>2, <1>3, <2>2, <2>3, <2>4 DEF Counted
  <2> QED
    BY <1>2, <2>1, <2>2, <2>5, KindsFrom
<1> QED
  BY <1>4, <1>5

\* A new call has counted nothing, and is not too deep.
LEMMA EnterKinds == ASSUME Shape, Kinds, Enter PROVE Kinds'
<1>1. Len(calls) <= MaxNesting
  BY DEF Enter
<1>2. PICK c \in [slot : {Len(stack)}, order : Orders(heap[FromTop(1).id]), size : {0},
                  done : {0}, kind : {"scan"}] : calls' = Append(calls, c)
  BY DEF Enter
<1>3. calls \in Seq(Call) /\ Len(calls) \in Nat
  BY Sizes DEF Shape
<1>4. /\ Len(calls') = Len(calls) + 1 /\ calls'[Len(calls) + 1] = c
      /\ \A i \in 1 .. Len(calls) : calls'[i] = calls[i]
  BY <1>2, <1>3
<1>5. calls' \in Seq(Call)
  BY EnterStep DEF Shape, TypeOK
<1>6. c \in Call
  BY <1>3, <1>4, <1>5
<1>7. Counted(c)
  <2>1. c.size = 0 /\ c.kind = "scan" /\ Len(c.order) \in Nat
    BY <1>2, <1>6 DEF Call
  <2> QED
    BY <2>1 DEF Counted
<1>8. \A i \in 1 .. Len(calls) + 1 : i \in 1 .. Len(calls) \/ i = Len(calls) + 1
  BY <1>3
<1>9. Len(calls) + 1 <= MaxNesting + 1
  BY <1>1, <1>3, NestingAssumption
<1> QED
  BY <1>4, <1>7, <1>8, <1>9 DEF Kinds

\* A finished item changes no count of keys.
LEMMA ItemWrittenKinds == ASSUME Shape, Kinds, ItemWritten PROVE Kinds'
<1> DEFINE c == [Caller EXCEPT !.done = @ + 1]
<1>1. calls # <<>> /\ SetCaller(c)
  BY DEF ItemWritten
<1>2. Caller \in Call /\ Counted(Caller)
  BY <1>1, CallerCounted
<1>3. c \in Call /\ c.kind = Caller.kind /\ c.size = Caller.size /\ c.order = Caller.order
  BY <1>2 DEF Call
<1> HIDE DEF c
<1>4. Counted(c)
  BY <1>2, <1>3 DEF Counted
<1> QED
  BY <1>1, <1>3, <1>4, KindsFrom

\* Every step keeps what the calls know of their keys.
LEMMA KindsStep ==
    ASSUME heap \in PlainHeaps, Shape, Progress, Kinds, [Next]_wvars, ~Overrun
    PROVE  Kinds'
<1>1. CASE UNCHANGED calls
  BY <1>1 DEF Kinds
<1>2. CASE Enter
  BY <1>2, EnterKinds
<1>3. CASE ScanIndex
  BY <1>3, ScanIndexKinds
<1>4. CASE ScanOther
  BY <1>4, StartObjectKinds DEF ScanOther
<1>5. CASE ScanEnd
  BY <1>5, ScanEndKinds
<1>6. CASE ArrayEnd \/ ObjectEnd
  <2>1. calls' = Pop(calls, 1) /\ at \in {"array", "object"}
    BY <1>6 DEF ArrayEnd, ObjectEnd, Finish
  <2>2. calls # <<>>
    BY <2>1, InLoop
  <2> QED
    BY <2>1, <2>2, KindsPopped
<1>7. CASE ItemWritten
  BY <1>7, ItemWrittenKinds
<1>8. CASE EnterTooDeep \/ ArrayItem \/ ObjectItem \/ ObjectInvalidKey \/ Return \/ UNCHANGED wvars
  <2>1. UNCHANGED calls
    BY <1>8 DEF EnterTooDeep, ArrayItem, ObjectItem, ObjectInvalidKey, Return, wvars
  <2> QED
    BY <1>1, <2>1
<1> QED
  BY <1>2, <1>3, <1>4, <1>5, <1>6, <1>7, <1>8 DEF Next

-----------------------------------------------------------------------------
\* Joining is associative.
Associates(q, r, t) == (q \o r) \o t = q \o (r \o t)
Joined(T) == \A q, r, t \in T : Associates(q, r, t)

\* Sequences over one set join associatively.
LEMMA JoinAssociative == ASSUME NEW S PROVE Joined(Seq(S))
<1>1. ASSUME NEW q \in Seq(S), NEW r \in Seq(S), NEW t \in Seq(S)
      PROVE  (q \o r) \o t = q \o (r \o t)
  BY ConcatAssociative
<1> QED
  BY <1>1 DEF Joined, Associates

Regroups(p, b, w, l, x) == ((p \o (b \o w)) \o l) \o x = p \o (b \o ((w \o l) \o x))

\* A bracket, a list, what leads to its next value, and that value.
LEMMA JoinFive ==
    ASSUME NEW S, NEW p \in Seq(S), NEW b \in Seq(S), NEW w \in Seq(S), NEW l \in Seq(S), NEW x \in Seq(S)
    PROVE  Regroups(p, b, w, l, x)
<1>1. PICK v \in Seq(S) : v = b \o w
  BY JoinType
<1>2. PICK y \in Seq(S) : y = l \o x
  BY JoinType
<1>3. PICK u \in Seq(S) : u = p \o v
  BY JoinType
<1>4. Joined(Seq(S))
  BY JoinAssociative
<1>5. Associates(u, l, x) /\ Associates(p, v, y) /\ Associates(b, w, y) /\ Associates(w, l, x)
  BY <1>4 DEF Joined
<1> QED
  BY <1>1, <1>2, <1>3, <1>5, Zenon DEF Associates, Regroups

\* The table converted is deep enough, or nothing of it is written.
LEMMA EnterTooDeepWrites ==
    ASSUME heap \in PlainHeaps, Shape, Kinds, Wrote, EnterTooDeep
    PROVE  Wrote'
<1>1. /\ at = "enter" /\ at' = "emitted" /\ UNCHANGED <<heap, stack, calls>>
      /\ out' = out \o <<"{", "}">> /\ Len(calls) > MaxNesting
  BY DEF EnterTooDeep
<1>2. PICK pre \in Starts : Trail(pre)
  BY DEF Wrote
<1>3. PICK n \in Nat : n = Len(calls)
  BY Sizes DEF Shape
<1>4. Outer(pre, n) /\ out = pre[n + 1]
  BY <1>1, <1>2, <1>3 DEF Trail
<1>5. Outer(pre, n)'
  BY <1>1, <1>4, OuterKept
<1>6. Inner(n) = 0
  <2>1. n > MaxNesting /\ n <= MaxNesting + 1 /\ MaxNesting \in Nat
    BY <1>1, <1>3, NestingAssumption DEF Kinds
  <2> QED
    BY <2>1 DEF Inner
<1>7. ValueTexts(TableTexts(heap)[0], FromTop(1)) = {<<"{", "}">>}
  <2>1. FromTop(1) \in Refs
    BY <1>1 DEF Shape, Entered
  <2>2. IsTable(FromTop(1)) /\ FromTop(1).id \in DOMAIN heap
    BY <2>1, HeapTables DEF Shape
  <2> QED
    BY <2>2, TablesDefined DEF ValueTexts
<1>8. <<"{", "}">> \in Seq(Written)
  BY PairSeq DEF Written
<1>9. Valued(pre[n + 1])'
  <2>1. FromTop(1)' = FromTop(1)
    BY <1>1 DEF FromTop
  <2>2. <<"{", "}">> \in ValueTexts(TableTexts(heap)[Inner(Len(calls))], FromTop(1))'
    BY <1>1, <1>3, <1>6, <1>7, <2>1
  <2>3. out' = pre[n + 1] \o <<"{", "}">>
    BY <1>1, <1>4
  <2> QED
    BY <1>8, <2>2, <2>3 DEF Valued
<1>10. Trail(pre)'
  <2>1. Len(calls') = n /\ at' = "emitted"
    BY <1>1, <1>3
  <2> QED
    BY <1>5, <1>9, <2>1 DEF Trail
<1> QED
  BY <1>1, <1>10 DEF Wrote

\* A new call begins where its caller's entry has its value.
LEMMA EnterWrites == ASSUME Shape, Kinds, Wrote, Enter PROVE Wrote'
<1>1. /\ at = "enter" /\ at' = "scan" /\ heap' = heap /\ out' = out /\ stack' = Append(stack, Nil)
  BY DEF Enter
<1>2. PICK pre \in Starts : Trail(pre)
  BY DEF Wrote
<1>3. PICK n \in Nat : n = Len(calls)
  BY Sizes DEF Shape
<1>4. Outer(pre, n) /\ out = pre[n + 1]
  BY <1>1, <1>2, <1>3 DEF Trail
<1>5. Len(calls') = n + 1 /\ \A i \in 1 .. n : calls'[i] = calls[i]
  <2>1. PICK c : calls' = Append(calls, c)
    BY DEF Enter
  <2>2. calls \in Seq(Call)
    BY Sizes DEF Shape
  <2> QED
    BY <1>3, <2>1, <2>2
<1>6. ASSUME NEW i \in 1 .. n PROVE stack'[ValueSlot(calls[i])] = stack[ValueSlot(calls[i])]
  <2>1. /\ stack \in Seq(Key \cup {Opaque}) /\ Len(stack) \in Nat /\ calls # <<>>
        /\ Base \in 1 .. Len(stack)
    BY <1>3, Sizes, BelowBase DEF Shape
  <2>2. ValueSlot(calls[i]) \in 1 .. Base \/ ValueSlot(calls[i]) = Len(stack)
    BY <1>1, <1>3, <2>1, ValueSlots DEF Caller
  <2>3. ValueSlot(calls[i]) \in 1 .. Len(stack)
    BY <2>1, <2>2
  <2> HIDE DEF ValueSlot
  <2> QED
    BY <1>1, <2>1, <2>3
<1>7. Outer(pre, n)'
  BY <1>1, <1>4, <1>5, <1>6, OuterKept
<1>8. Trail(pre)'
  <2>1. Len(calls') - 1 = n /\ Len(calls') = n + 1 /\ at' = "scan" /\ out' = pre[n + 1]
    BY <1>1, <1>4, <1>5
  <2> QED
    BY <1>7, <2>1 DEF Trail
<1> QED
  BY <1>1, <1>8 DEF Wrote

\* What the others have written, after a step inside the innermost call.
LEMMA StaysOuter ==
    ASSUME Shape, calls # <<>>, heap' = heap, NEW pre, Outer(pre, Len(calls) - 1),
           Len(calls') = Len(calls),
           \A i \in 1 .. Len(calls) : i < Len(calls) => calls'[i] = calls[i],
           \A j \in 1 .. Base : stack'[j] = stack[j]
    PROVE  Outer(pre, Len(calls) - 1)'
<1>1. PICK n : n = Len(calls) - 1
  OBVIOUS
<1>2. Outer(pre, n)'
  BY <1>1, OuterBelow
<1> QED
  BY <1>1, <1>2

-----------------------------------------------------------------------------
\* What is known of the innermost call in a loop.
LEMMA LoopFacts ==
    ASSUME Shape, Kinds, at \in {"scan", "array", "object"}
    PROVE  /\ calls # <<>> /\ Caller.kind = at /\ Caller = calls[Len(calls)] /\ Caller \in Call
           /\ Len(calls) \in 1 .. Len(calls) /\ Len(calls) \in 1 .. MaxNesting + 1
           /\ Len(calls) - 1 \in Nat
           /\ Base \in 1 .. Len(stack) /\ Len(stack) = Base + Held(Caller)
           /\ Base = Caller.slot /\ Len(stack) \in Nat
           /\ IsOrder(Caller.order, Tab(Caller), heap)
           /\ Counted(Caller)
<1>1. /\ calls # <<>> /\ Caller.kind = at /\ Base \in 1 .. Len(stack)
      /\ Len(stack) = Base + Held(Caller) /\ Base = Caller.slot
  BY InLoop
<1>2. /\ Caller = calls[Len(calls)] /\ Len(calls) \in 1 .. Len(calls) /\ Counted(Caller)
      /\ Caller \in Call /\ IsOrder(Caller.order, Tab(Caller), heap)
  BY <1>1, CallerCounted
<1>3. Len(calls) \in Nat /\ Len(stack) \in Nat
  BY Sizes DEF Shape
<1>4. Len(calls) <= MaxNesting + 1
  BY DEF Kinds
<1>5. Len(calls) - 1 \in Nat /\ Len(calls) \in 1 .. MaxNesting + 1
  BY <1>2, <1>3, <1>4, NestingAssumption
<1> QED
  BY <1>1, <1>2, <1>3, <1>5

\* Replacing the top of the stack leaves what is below.
LEMMA BelowTop ==
    ASSUME Shape, Len(stack) = Base + 1, NEW v, stack' = Append(Pop(stack, 1), v)
    PROVE  \A j \in 1 .. Base : stack'[j] = stack[j]
<1> DEFINE S == Key \cup {Opaque, v}
<1>1. stack \in Seq(Key \cup {Opaque}) /\ Base \in 1 .. Len(stack) /\ Len(stack) \in Nat
  BY Sizes, BelowBase DEF Shape
<1>2. v \in S /\ Key \cup {Opaque} \subseteq S
  OBVIOUS
<1> HIDE DEF S
<1>3. stack \in Seq(S) /\ Len(stack) > 0
  BY <1>1, <1>2
<1>4. \A j \in 1 .. Len(stack) : j < Len(stack) => Append(Pop(stack, 1), v)[j] = stack[j]
  BY <1>2, <1>3, TopReplaced
<1>5. \A j \in 1 .. Base : j \in 1 .. Len(stack) /\ j < Len(stack)
  BY <1>1
<1> QED
  BY <1>4, <1>5

\* The scan writes nothing.
LEMMA ScanIndexWrites == ASSUME Shape, Kinds, Wrote, ScanIndex PROVE Wrote'
<1>1. at = "scan" /\ at' = "scan" /\ heap' = heap /\ out' = out
  BY DEF ScanIndex
<1>2. PICK pre \in Starts : Trail(pre)
  BY DEF Wrote
<1>3. /\ calls # <<>> /\ Caller.kind = "scan" /\ Caller \in Call
      /\ Len(calls) \in Nat /\ Len(stack) = Base + 1
  BY <1>1, LoopFacts, InLoop, NestingAssumption
<1>4. Outer(pre, Len(calls) - 1) /\ out = pre[Len(calls)]
  BY <1>1, <1>2 DEF Trail
<1>5. Len(calls') = Len(calls) /\ \A i \in 1 .. Len(calls) : i < Len(calls) => calls'[i] = calls[i]
  <2>1. PICK c : c = [Caller EXCEPT !.size = @ + 1] /\ SetCaller(c)
    BY DEF ScanIndex
  <2>2. c \in Call
    BY <1>3, <2>1 DEF Call
  <2> QED
    BY <1>3, <2>1, <2>2, SetCallerProperties DEF Shape
<1>6. \A j \in 1 .. Base : stack'[j] = stack[j]
  <2>1. PICK k : stack' = Append(Pop(stack, 1), k)
    BY DEF ScanIndex
  <2> QED
    BY <1>3, <2>1, BelowTop
<1>7. Outer(pre, Len(calls) - 1)'
  BY <1>1, <1>3, <1>4, <1>5, <1>6, StaysOuter
<1>8. Trail(pre)'
  <2>1. PICK n : n = Len(calls)
    OBVIOUS
  <2>2. Len(calls') = n /\ out' = pre[n] /\ Outer(pre, n - 1)'
    BY <1>1, <1>4, <1>5, <1>7, <2>1
  <2> QED
    BY <1>1, <2>2 DEF Trail
<1> QED
  BY <1>1, <1>8 DEF Wrote

\* The list of a call that has written no entry is empty.
LEMMA ListEmpty ==
    ASSUME heap \in PlainHeaps, Shape, Kinds, NEW i \in 1 .. Len(calls)
    PROVE  <<>> \in ListTexts(TableTexts(heap)[Inner(i)], calls[i].order)[0]
<1>1. /\ stack[calls[i].slot].id \in DOMAIN heap /\ Tab(calls[i]) = heap[stack[calls[i].slot].id]
      /\ calls[i].order \in Orders(Tab(calls[i])) /\ Inner(i) \in 0 .. MaxNesting
  BY CallTables
<1>2. ListTexts(TableTexts(heap)[Inner(i)], calls[i].order)[0] = {<<>>}
  BY <1>1, ListsDefined DEF IsOrder
<1> QED
  BY <1>2

\* A loop that writes begins with its bracket.
LEMMA LoopBegins ==
    ASSUME heap \in PlainHeaps, Shape, Progress, Kinds, Wrote, at = "scan",
           NEW c \in Call, SetCaller(c), c.order = Caller.order, c.done = 0, c.kind = at',
           at' \in {"array", "object"}, NEW b, b = Bracket(c), out' = out \o b, heap' = heap,
           \A j \in 1 .. Base : stack'[j] = stack[j]
    PROVE  Wrote'
<1>1. PICK pre \in Starts : Trail(pre)
  BY DEF Wrote
<1>2. calls # <<>> /\ Caller = calls[Len(calls)] /\ Len(calls) \in 1 .. Len(calls)
  BY LoopFacts
<1>3. PICK n \in 1 .. Len(calls) : n = Len(calls)
  BY <1>2
<1>4. Outer(pre, n - 1) /\ out = pre[n]
  BY <1>1, <1>3 DEF Trail
<1>5. /\ Len(calls') = n /\ calls'[n] = c
      /\ \A i \in 1 .. Len(calls) : i < Len(calls) => calls'[i] = calls[i]
  BY <1>2, <1>3, SetCallerProperties DEF Shape
<1>6. Outer(pre, n - 1)'
  BY <1>2, <1>3, <1>4, <1>5, OuterBelow
<1>7. <<>> \in ListTexts(TableTexts(heap)[Inner(n)], c.order)[0]
  BY <1>2, <1>3, ListEmpty
<1>8. Listed(n, <<>>)'
  BY <1>5, <1>7 DEF Listed, Inner
<1>9. b \o <<>> = b
  BY BracketType, ConcatSimplifications
<1>10. Begun(n, pre[n], out)'
  <2>1. Bracket(calls'[n]) = b
    BY <1>5
  <2>2. \E w : Listed(n, w)' /\ out' = pre[n] \o (b \o w)
    <3>1. out' = pre[n] \o b
      BY <1>4, Zenon
    <3>2. pre[n] \o (b \o <<>>) = pre[n] \o b
      BY <1>9, Zenon
    <3>3. out' = pre[n] \o (b \o <<>>)
      BY <3>1, <3>2, Zenon
    <3> QED
      BY <1>8, <3>3, Zenon DEF Listed
  <2> QED
    BY <2>1, <2>2, Zenon DEF Begun, Listed
<1>11. Trail(pre)'
  BY <1>5, <1>6, <1>10 DEF Trail
<1> QED
  BY <1>11 DEF Wrote

\* The object loop begins with its brace, after the scan or in the middle of it.
LEMMA StartObjectWrites ==
    ASSUME heap \in PlainHeaps, Shape, Progress, Kinds, Wrote, at = "scan", StartObject, heap' = heap
    PROVE  Wrote'
<1>1. PICK c : c = [Caller EXCEPT !.kind = "object"]
  OBVIOUS
<1>2. /\ SetCaller(c) /\ at' = "object" /\ out' = Append(out, "{")
      /\ stack' = Append(Pop(stack, 1), Nil)
  BY <1>1 DEF StartObject
<1>3. Caller \in Call /\ Caller.done = 0 /\ Len(stack) = Base + 1
  BY LoopFacts, ScanPlace, InLoop
<1>4. c \in Call /\ c.order = Caller.order /\ c.done = 0 /\ c.kind = "object"
  BY <1>1, <1>3 DEF Call
<1>5. Bracket(c) = <<"{">>
  BY <1>4 DEF Bracket
<1>6. out' = out \o <<"{">>
  <2>1. out \in Seq(Written) /\ "{" \in Written
    BY DEF Shape, TypeOK, Written
  <2> QED
    BY <1>2, <2>1, AppendIsConcat
<1>7. \A j \in 1 .. Base : stack'[j] = stack[j]
  BY <1>2, <1>3, BelowTop
<1> QED
  BY <1>2, <1>4, <1>5, <1>6, <1>7, LoopBegins

\* So does the array loop with its bracket, where it is an array.
LEMMA ScanEndWrites ==
    ASSUME heap \in PlainHeaps, Shape, Progress, Kinds, Wrote, ScanEnd
    PROVE  Wrote'
<1>1. at = "scan" /\ heap' = heap
  BY DEF ScanEnd
<1>2. CASE StartObject
  BY <1>1, <1>2, StartObjectWrites
<1>3. CASE ~StartObject
  <2>1. PICK c : c = [Caller EXCEPT !.kind = "array"]
    OBVIOUS
  <2>2. /\ SetCaller(c) /\ at' = "array" /\ out' = Append(out, "[") /\ stack' = Pop(stack, 1)
    BY <1>3, <2>1 DEF ScanEnd
  <2>3. Caller \in Call /\ Caller.done = 0 /\ Len(stack) = Base + 1 /\ Base \in 1 .. Len(stack)
    BY <1>1, LoopFacts, ScanPlace, InLoop
  <2>4. c \in Call /\ c.order = Caller.order /\ c.done = 0 /\ c.kind = "array"
    BY <2>1, <2>3 DEF Call
  <2>5. Bracket(c) = <<"[">>
    BY <2>4 DEF Bracket
  <2>6. out' = out \o <<"[">>
    <3>1. out \in Seq(Written) /\ "[" \in Written
      BY DEF Shape, TypeOK, Written
    <3> QED
      BY <2>2, <3>1, AppendIsConcat
  <2>7. \A j \in 1 .. Base : stack'[j] = stack[j]
    <3>1. stack \in Seq(Key \cup {Opaque}) /\ Len(stack) \in Nat /\ 1 \in Nat /\ 1 <= Len(stack)
      BY <2>3, Sizes DEF Shape
    <3>2. \A j \in 1 .. Len(stack) - 1 : stack'[j] = stack[j]
      BY <2>2, <2>3, <3>1, PopProperties
    <3> QED
      BY <2>3, <3>1, <3>2
  <2> QED
    BY <1>1, <2>2, <2>4, <2>5, <2>6, <2>7, LoopBegins
<1> QED
  BY <1>2, <1>3

-----------------------------------------------------------------------------
\* A value is written, or the table entered, behind what leads to it.
LEMMA ItemBegins ==
    ASSUME Shape, Kinds, Wrote, at \in {"array", "object"}, UNCHANGED <<heap, calls>>,
           stack' \in Seq(Key \cup {Opaque}), Len(stack') = Len(stack) + 1,
           \A j \in 1 .. Base : stack'[j] = stack[j],
           Caller.done + 1 <= Len(Caller.order),
           NEW v \in Value \cup {Opaque}, v = Item(Caller)[2], stack'[Len(stack) + 1] = v,
           IsAtomIn(v, Str) => v.v \notin Unsafe \ Escaped,
           NEW lead \in Seq(Written), lead = LeadOf(Caller), Emit(lead, v)
    PROVE  Wrote'
<1>1. PICK pre \in Starts : Trail(pre)
  BY DEF Wrote
<1>2. /\ calls # <<>> /\ Caller = calls[Len(calls)] /\ Len(calls) \in 1 .. MaxNesting + 1
      /\ Len(stack) = Base + Held(Caller) /\ Base = Caller.slot /\ Base \in 1 .. Len(stack)
      /\ Len(stack) \in Nat
  BY LoopFacts
<1>3. PICK n \in 1 .. MaxNesting + 1 : n = Len(calls)
  BY <1>2
<1>4. out \in Seq(Written) /\ MaxNesting \in Nat
  BY NestingAssumption DEF Shape, TypeOK
<1>5. PICK q \in Seq(Written) : q = out \o lead
  BY <1>4, JoinType
<1>6. Outer(pre, n - 1) /\ Begun(n, pre[n], out)
  BY <1>1, <1>3 DEF Trail
<1>7. Outer(pre, n - 1)'
  <2>1. Len(calls') = Len(calls) /\ \A i \in 1 .. Len(calls) : i < Len(calls) => calls'[i] = calls[i]
    OBVIOUS
  <2> QED
    BY <1>2, <1>3, <1>6, <2>1, OuterBelow
<1>8. PICK new \in Starts : new = [pre EXCEPT ![n + 1] = q]
  <2>1. n + 1 \in 1 .. MaxNesting + 2
    BY <1>4
  <2> QED
    BY <2>1, <1>5 DEF Starts
<1>9. new[n + 1] = q /\ \A i \in 1 .. n : new[i] = pre[i]
  <2>1. n + 1 \in DOMAIN pre /\ \A i \in 1 .. n : i \in DOMAIN pre /\ i # n + 1
    BY <1>4 DEF Starts
  <2> QED
    BY <1>8, <2>1
<1>10. InPart(n, pre[n], q)'
  <2>1. ValueSlot(Caller) = Len(stack) + 1
    BY <1>2 DEF ValueSlot
  <2>2. /\ calls'[n] = Caller /\ stack'[ValueSlot(Caller)] = Item(Caller)[2]
        /\ calls'[n].done + 1 <= Len(calls'[n].order)
    BY <1>2, <1>3, <2>1
  <2>4. \E b : Begun(n, pre[n], b)' /\ b \in Seq(Written) /\ q = b \o LeadOf(Caller)
    <3>1. \A b : Begun(n, pre[n], b)' <=> Begun(n, pre[n], b)
      BY DEF Begun, Listed, Inner
    <3> QED
      BY <1>4, <1>5, <1>6, <3>1
  <2> QED
    BY <2>2, <2>4, Zenon DEF InPart
<1>11. Outer(new, n)'
  <2>1. 1 \in 1 .. n /\ \A i \in 1 .. n : i = n \/ (i \in 1 .. n - 1 /\ i + 1 \in 1 .. n)
    BY <1>4
  <2>2. new[1] = <<>>
    BY <1>6, <1>9, <2>1 DEF Outer
  <2>3. ASSUME NEW i \in 1 .. n PROVE InPart(i, new[i], new[i + 1])'
    <3>1. CASE i = n
      BY <1>9, <1>10, <3>1
    <3>2. CASE i # n
      <4>1. InPart(i, pre[i], pre[i + 1])'
        BY <1>7, <2>1, <3>2 DEF Outer
      <4>2. new[i] = pre[i] /\ new[i + 1] = pre[i + 1]
        BY <1>9, <2>1, <3>2
      <4> QED
        BY <4>1, <4>2
    <3> QED
      BY <3>1, <3>2
  <2> QED
    BY <2>2, <2>3 DEF Outer
<1>12. CASE IsTable(v)
  <2>1. at' = "enter" /\ out' = q
    BY <1>5, <1>12 DEF Emit
  <2>2. Trail(new)'
    BY <1>3, <1>9, <1>11, <2>1 DEF Trail
  <2> QED
    BY <2>1, <2>2 DEF Wrote
<1>13. CASE ~IsTable(v)
  <2>1. at' = "emitted" /\ out' = q \o <<ValueText(v)>>
    BY <1>5, <1>13 DEF Emit
  <2>2. FromTop(1)' = v
    <3>1. Len(stack') + 1 - 1 = Len(stack) + 1
      BY <1>2
    <3> QED
      BY <3>1 DEF FromTop
  <2>3. PICK x \in Seq(Written) : x = <<Lexeme(v)>>
    BY <1>13, ValueMeans, OneSeq
  <2>4. out' = q \o x
    BY <1>13, <2>1, <2>3, ValueMeans
  <2>5. x \in ValueTexts(TableTexts(heap')[Inner(n)], v)
    BY <1>13, <2>3 DEF ValueTexts
  <2>6. Valued(q)'
    <3>1. x \in ValueTexts(TableTexts(heap)[Inner(Len(calls))], FromTop(1))'
      BY <1>3, <2>2, <2>5
    <3> QED
      BY <2>4, <3>1 DEF Valued
  <2>7. Trail(new)'
    BY <1>3, <1>9, <1>11, <2>1, <2>6 DEF Trail
  <2> QED
    BY <2>1, <2>7 DEF Wrote
<1> QED
  BY <1>12, <1>13

\* The entries of the table under way are plain, as those of its heap are.
LEMMA CallerPlain ==
    ASSUME heap \in PlainHeaps, Shape, Kinds, calls # <<>>, NEW i \in 1 .. Len(Caller.order)
    PROVE  PlainEntry(Caller.order[i])
<1>1. Len(calls) \in 1 .. Len(calls) /\ Caller = calls[Len(calls)]
  BY Sizes DEF Shape, Caller
<1>2. IsOrder(Caller.order, Tab(Caller), heap) /\ \E j \in DOMAIN heap : Tab(Caller) = heap[j]
  BY <1>1, CallTables
<1>3. Caller.order[i] \in Tab(Caller)
  BY <1>2 DEF IsOrder
<1> QED
  BY <1>2, <1>3, PlainEntries

\* lua_rawgeti reads the value the array is at.
LEMMA ArrayItemWrites ==
    ASSUME heap \in PlainHeaps, Shape, Kinds, Wrote, ArrayItem
    PROVE  Wrote'
<1> DEFINE m == Caller.done + 1
           v == RawGet(Tab(Caller), m)
<1>1. /\ at = "array" /\ Caller.done < Caller.size /\ UNCHANGED <<heap, calls>>
      /\ stack' = Append(stack, v) /\ Emit(Comma(Caller), v)
  BY DEF ArrayItem
<1>2. /\ calls # <<>> /\ Caller.kind = "array" /\ Counted(Caller) /\ Caller \in Call
      /\ IsOrder(Caller.order, Tab(Caller), heap) /\ Base \in 1 .. Len(stack)
  BY <1>1, LoopFacts
<1>3. Caller.size = Len(Caller.order) /\ Caller.size # 0 /\ Caller.size \in Nat /\ Caller.done \in Nat
  BY <1>2 DEF Counted, Call
<1>4. m \in 1 .. Len(Caller.order) /\ m <= Len(Caller.order)
  BY <1>1, <1>3
<1>5. v = Caller.order[m][2]
  <2>1. \A i \in 1 .. Len(Caller.order) : Caller.order[i][1] = Index(i)
    BY <1>2, <1>3 DEF Counted
  <2>2. \A i \in 1 .. Len(Caller.order) : RawGet(Tab(Caller), i) = Caller.order[i][2]
    BY <1>2, <1>3, <2>1, SequenceOrder
  <2> HIDE DEF m
  <2> QED
    BY <1>4, <2>2
<1>6. v \in Value \cup {Opaque}
  <2>1. Caller.order[m] \in Key \X (Value \cup {Opaque})
    BY <1>2, <1>4 DEF IsOrder
  <2> HIDE DEF m
  <2> QED
    BY <1>5, <2>1
<1>7. Comma(Caller) = LeadOf(Caller)
  <2>1. (m = 1) <=> (Caller.done = 0)
    BY <1>3
  <2>2. \A s \in Seq(Written) : s \o <<>> = s
    BY ConcatSimplifications
  <2>3. Lead(Caller.order, m, TRUE) = Comma(Caller) \o <<>>
    BY <2>1 DEF Lead, Comma
  <2>4. Comma(Caller) \in Seq(Written)
    BY CommaType
  <2>5. LeadOf(Caller) = Lead(Caller.order, m, TRUE)
    BY <1>2 DEF LeadOf
  <2> QED
    BY <2>2, <2>3, <2>4, <2>5
<1>8. /\ stack' \in Seq(Key \cup {Opaque}) /\ Len(stack') = Len(stack) + 1
      /\ \A j \in 1 .. Base : stack'[j] = stack[j]
      /\ stack'[Len(stack) + 1] = v
  <2>1. stack \in Seq(Key \cup {Opaque}) /\ Len(stack) \in Nat
    BY Sizes DEF Shape
  <2>2. stack' \in Seq(Key \cup {Opaque})
    BY ArrayItemStep DEF Shape, TypeOK
  <2>3. v \in Key \cup {Opaque}
    BY <1>6 DEF Key
  <2> HIDE DEF v
  <2> QED
    BY <1>1, <1>2, <2>1, <2>2, <2>3, AppendProperties
<1>9. Comma(Caller) \in Seq(Written) /\ v = Item(Caller)[2]
  BY <1>5, CommaType DEF Item
<1>10. IsAtomIn(v, Str) => v.v \notin Unsafe \ Escaped
  <2>1. PlainEntry(Caller.order[m])
    BY <1>2, <1>4, CallerPlain
  <2> QED
    BY <1>5, <2>1 DEF PlainEntry
<1> HIDE DEF m, v
<1> QED
  BY <1>1, <1>4, <1>6, <1>7, <1>8, <1>9, <1>10, ItemBegins DEF m

\* lua_next goes on to the entry the object is at, from the key it converted.
LEMMA ObjectItemWrites ==
    ASSUME NoTwins, heap \in PlainHeaps, Shape, Progress, Kinds, Wrote, ObjectItem
    PROVE  Wrote'
<1> DEFINE m == Caller.done + 1
<1>0. PICK e : e = NextEntry(Caller, FromTop(1))
  OBVIOUS
<1>1. /\ at = "object" /\ KnownKey(Caller, FromTop(1)) /\ UNCHANGED <<heap, calls>>
      /\ Emit(Comma(Caller) \o <<KeyText(e[1]), ":">>, e[2])
  BY <1>0 DEF ObjectItem
<1>2. /\ calls # <<>> /\ Caller.kind = "object" /\ Caller \in Call
      /\ IsOrder(Caller.order, Tab(Caller), heap) /\ Base \in 1 .. Len(stack)
  BY <1>1, LoopFacts
<1>3. Caller.done \in Nat /\ Len(Caller.order) \in Nat
  BY <1>2 DEF Call
<1>4. Place(Caller, FromTop(1)) = Caller.done
  <2>1. Caller.done + (IF at \in {"object", "error"} THEN 0 ELSE 1) = Caller.done
    BY <1>1, <1>3
  <2>2. ObjectAt(Caller, Caller.done)
    BY <1>2, <2>1, InnermostObject
  <2> QED
    BY <1>1, <2>2, PlaceIs
<1>5. /\ e = Caller.order[m] /\ m \in 1 .. Len(Caller.order)
      /\ e[1] \in Key /\ e[2] \in Value \cup {Opaque} /\ KeyText(e[1]) \in Written
      /\ stack' \in Seq(Key \cup {Opaque}) /\ Len(stack') = Len(stack) + 1
      /\ \A j \in 1 .. Base : stack'[j] = stack[j] /\ stack'[Len(stack) + 1] = e[2]
  BY <1>0, <1>4, ObjectItemStack
<1>6. m <= Len(Caller.order)
  BY <1>3, <1>5
<1>12. PlainEntry(e)
  BY <1>2, <1>5, CallerPlain
<1>7. KeyText(e[1]) = Name(e[1])
  <2>1. e[1].ty = "index" => e[1].n <= Len(Digits)
    BY <1>2, <1>5 DEF IsOrder
  <2>2. IsAtomIn(e[1], Str) => e[1].v \notin Unsafe
    BY <1>12 DEF PlainEntry
  <2> QED
    BY <1>5, <2>1, <2>2, KeyMeans
<1>8. Comma(Caller) \o <<KeyText(e[1]), ":">> = LeadOf(Caller)
  <2>1. (m = 1) <=> (Caller.done = 0)
    BY <1>3
  <2>2. LeadOf(Caller) = Lead(Caller.order, m, FALSE)
    BY <1>2 DEF LeadOf
  <2>3. Lead(Caller.order, m, FALSE) = Comma(Caller) \o <<Name(e[1]), ":">>
    BY <1>5, <2>1 DEF Lead, Comma
  <2> QED
    BY <1>7, <2>2, <2>3
<1>9. Comma(Caller) \o <<KeyText(e[1]), ":">> \in Seq(Written)
  <2>1. ":" \in Written
    BY DEF Written
  <2>2. <<KeyText(e[1]), ":">> \in Seq(Written)
    BY <1>5, <2>1, PairSeq
  <2> QED
    BY <2>2, CommaType, JoinType
<1>10. e[2] = Item(Caller)[2]
  BY <1>5 DEF Item
<1>11. stack'[Len(stack) + 1] = e[2] /\ \A j \in 1 .. Base : stack'[j] = stack[j]
  BY <1>0, ObjectItemStack
<1>13. IsAtomIn(e[2], Str) => e[2].v \notin Unsafe \ Escaped
  BY <1>12 DEF PlainEntry
<1> QED
  BY <1>1, <1>5, <1>6, <1>8, <1>9, <1>10, <1>11, <1>13, ItemBegins

-----------------------------------------------------------------------------
Closing(c) == IF c.kind = "array" THEN "]" ELSE "}"

\* The end of a loop completes a text of its table.
LEMMA FinishWrites ==
    ASSUME heap \in PlainHeaps, Shape, Progress, Kinds, Wrote, at \in {"array", "object"},
           NEW bracket \in Written, bracket = Closing(Caller), Finish(bracket), heap' = heap, Len(stack') = Base,
           \A j \in 1 .. Base : stack'[j] = stack[j], Caller.done = Len(Caller.order)
    PROVE  Wrote'
<1>1. PICK pre \in Starts : Trail(pre)
  BY DEF Wrote
<1>2. /\ calls # <<>> /\ Caller = calls[Len(calls)] /\ Caller.kind = at
      /\ Len(calls) \in 1 .. Len(calls) /\ Len(calls) \in 1 .. MaxNesting + 1
      /\ Base = Caller.slot /\ Base \in 1 .. Len(stack) /\ Len(stack) \in Nat
  BY LoopFacts
<1>3. PICK n \in 1 .. Len(calls) : n = Len(calls) /\ n \in 1 .. MaxNesting + 1
  BY <1>2
<1>4. Outer(pre, n - 1) /\ Begun(n, pre[n], out) /\ pre[n] \in Seq(Written)
  BY <1>1, <1>3, NestingAssumption DEF Trail, Starts
<1>5. at' = "emitted" /\ out' = Append(out, bracket) /\ calls' = Pop(calls, 1)
  BY DEF Finish
<1>6. Len(calls') = n - 1 /\ \A i \in 1 .. Len(calls) : i < Len(calls) => calls'[i] = calls[i]
  <2>1. calls \in Seq(Call) /\ 1 \in Nat /\ 1 <= Len(calls) /\ Len(calls) \in Nat
    BY <1>2, Sizes DEF Shape
  <2>2. Len(calls') = Len(calls) - 1 /\ \A i \in 1 .. Len(calls) - 1 : calls'[i] = calls[i]
    BY <1>5, <2>1, PopProperties
  <2>3. \A i \in 1 .. Len(calls) : i < Len(calls) => i \in 1 .. Len(calls) - 1
    BY <2>1
  <2> QED
    BY <1>3, <2>2, <2>3
<1>7. Outer(pre, n - 1)'
  BY <1>2, <1>3, <1>4, <1>6, OuterBelow
<1>8. PICK w : Listed(n, w) /\ out = pre[n] \o (Bracket(Caller) \o w)
  BY <1>2, <1>3, <1>4 DEF Begun
<1>9. PICK s \in Seq(Written) : s = Bracket(Caller) \o w
  BY <1>8, BracketType, JoinType DEF Listed
<1>10. PICK r \in Seq(Written) : r = <<bracket>>
  BY OneSeq
<1>11. PICK x \in Seq(Written) : x = s \o r
  BY JoinType
<1>12. out' = pre[n] \o x
  <2>1. out \in Seq(Written)
    BY DEF Shape, TypeOK
  <2>2. out' = out \o r
    BY <1>5, <1>10, <2>1, AppendIsConcat
  <2>3. Associates(pre[n], s, r)
    BY <1>4, JoinAssociative DEF Joined
  <2>4. out = pre[n] \o s
    BY <1>8, <1>9
  <2> QED
    BY <1>11, <2>2, <2>3, <2>4, Zenon DEF Associates
<1>13. FromTop(1)' = stack[Caller.slot] /\ IsTable(stack[Caller.slot])
  <2>1. Len(stack') + 1 - 1 = Base
    BY <1>2
  <2>2. FromTop(1)' = stack[Base]
    <3>1. stack'[Base] = stack[Base]
      <4>1. Base \in 1 .. Base
        BY <1>2
      <4> QED
        BY <4>1, Zenon
    <3>2. FromTop(1)' = stack'[Len(stack') + 1 - 1]
      BY DEF FromTop
    <3> QED
      BY <2>1, <3>1, <3>2, Zenon
  <2>3. stack[Caller.slot] \in Refs
    BY <1>2, CallTables
  <2> QED
    BY <1>2, <2>2, <2>3, HeapTables DEF Shape
<1>14. x \in TableTexts(heap)[Inner(n - 1)][stack[Caller.slot].id]
  <2>1. r = IF Caller.kind = "array" THEN <<"]">> ELSE <<"}">>
    BY <1>10 DEF Closing
  <2>2. Caller.kind # "scan"
    BY <1>2
  <2>3. (Bracket(Caller) \o w) \o (IF Caller.kind = "array" THEN <<"]">> ELSE <<"}">>)
            \in TableTexts(heap)[Inner(n - 1)][stack[Caller.slot].id]
    BY <1>2, <1>3, <1>8, <2>2, ListCloses
  <2> QED
    BY <1>9, <1>11, <2>1, <2>3
<1>15. Valued(pre[n])'
  <2>1. x \in ValueTexts(TableTexts(heap)[Inner(Len(calls))], FromTop(1))'
    BY <1>6, <1>13, <1>14 DEF ValueTexts
  <2> QED
    BY <1>12, <2>1 DEF Valued
<1>16. Trail(pre)'
  <2>1. Len(calls') = n - 1 /\ Len(calls') + 1 = n
    BY <1>3, <1>6
  <2> QED
    BY <1>5, <1>7, <1>15, <2>1 DEF Trail
<1> QED
  BY <1>5, <1>16 DEF Wrote

\* The array loop ends when every entry of its table is written.
LEMMA ArrayEndWrites ==
    ASSUME heap \in PlainHeaps, Shape, Progress, Kinds, Wrote, ArrayEnd
    PROVE  Wrote'
<1>1. at = "array" /\ Caller.done = Caller.size /\ Finish("]") /\ UNCHANGED <<heap, stack>>
  BY DEF ArrayEnd
<1>2. Caller.kind = "array" /\ Counted(Caller) /\ Len(stack) = Base + Held(Caller) /\ Base \in Nat
  BY <1>1, LoopFacts
<1>3. Caller.done = Len(Caller.order) /\ Len(stack') = Base
  BY <1>1, <1>2 DEF Counted, Held
<1>4. "]" \in Written /\ Closing(Caller) = "]"
  BY <1>2 DEF Written, Closing
<1> QED
  BY <1>1, <1>2, <1>3, <1>4, FinishWrites

\* And so does the object loop, where no key is found twice.
LEMMA ObjectEndWrites ==
    ASSUME NoTwins, heap \in PlainHeaps, Shape, Progress, Kinds, Wrote, ObjectEnd
    PROVE  Wrote'
<1>1. /\ at = "object" /\ KnownKey(Caller, FromTop(1)) /\ ~HasNext(Caller, FromTop(1))
      /\ Finish("}") /\ heap' = heap /\ stack' = Pop(stack, 1)
  BY DEF ObjectEnd
<1>2. Caller.kind = "object" /\ Len(stack) = Base + 1 /\ Base \in 1 .. Len(stack)
  BY <1>1, InLoop
<1>3. Caller.done = Len(Caller.order)
  BY <1>1, ProgressCounts DEF EntriesOnce
<1>4. Len(stack') = Base /\ \A j \in 1 .. Base : stack'[j] = stack[j]
  <2>1. stack \in Seq(Key \cup {Opaque}) /\ Len(stack) \in Nat /\ 1 \in Nat /\ 1 <= Len(stack)
    BY <1>2, Sizes DEF Shape
  <2>2. Len(stack') = Len(stack) - 1 /\ \A j \in 1 .. Len(stack) - 1 : stack'[j] = stack[j]
    BY <1>1, <2>1, PopProperties
  <2> QED
    BY <1>2, <2>1, <2>2
<1>5. "}" \in Written /\ Closing(Caller) = "}"
  BY <1>2 DEF Written, Closing
<1> QED
  BY <1>1, <1>2, <1>3, <1>4, <1>5, FinishWrites

\* A finished value joins the list of the call that waits for it.
LEMMA ItemWrittenWrites ==
    ASSUME heap \in PlainHeaps, Shape, Progress, Kinds, Wrote, ItemWritten
    PROVE  Wrote'
<1> DEFINE c == [Caller EXCEPT !.done = @ + 1]
<1>1. /\ at = "emitted" /\ calls # <<>> /\ heap' = heap /\ out' = out
      /\ stack' = Pop(stack, 1) /\ SetCaller(c) /\ at' = Caller.kind
  BY DEF ItemWritten
<1>2. PICK pre \in Starts : Trail(pre)
  BY DEF Wrote
<1>3. /\ Caller = calls[Len(calls)] /\ Len(calls) \in 1 .. Len(calls) /\ Caller \in Call
      /\ Len(calls) \in Nat /\ Len(calls) <= MaxNesting + 1
      /\ IsOrder(Caller.order, Tab(Caller), heap) /\ TypeOK /\ Frames
  BY <1>1, CallerCounted, Sizes DEF Kinds, Shape
<1>4. PICK n \in 1 .. Len(calls) : n = Len(calls) /\ n \in 1 .. MaxNesting + 1 /\ n \in Nat
  BY <1>3
<1>5. Outer(pre, n) /\ Valued(pre[n + 1]) /\ pre[n] \in Seq(Written)
  BY <1>1, <1>2, <1>4, NestingAssumption DEF Trail, Starts
<1>6. Caller.kind # "scan"
  BY <1>1, <1>3 DEF Frames
<1>7. c \in Call /\ c.kind = Caller.kind /\ c.order = Caller.order /\ c.done = Caller.done + 1
  BY <1>3 DEF Call
<1>8. InPart(n, pre[n], pre[n + 1])
  BY <1>4, <1>5 DEF Outer
<1>9. /\ Caller.done + 1 <= Len(Caller.order) /\ stack[ValueSlot(Caller)] = Item(Caller)[2]
      /\ \E b : Begun(n, pre[n], b) /\ b \in Seq(Written) /\ pre[n + 1] = b \o LeadOf(Caller)
  BY <1>3, <1>4, <1>8 DEF InPart
<1>10. PICK w : Listed(n, w) /\ pre[n + 1] = (pre[n] \o (Bracket(Caller) \o w)) \o LeadOf(Caller)
  BY <1>3, <1>4, <1>9 DEF Begun
<1>11. FromTop(1) = Item(Caller)[2]
  <2>1. ValueSlot(Caller) = Len(stack) /\ Len(stack) \in Nat
    BY <1>1, <1>3, ValueSlots, Sizes
  <2>2. Len(stack) + 1 - 1 = Len(stack)
    BY <2>1
  <2> QED
    BY <1>9, <2>1, <2>2 DEF FromTop
<1>12. PICK x \in Seq(Written) : /\ x \in ValueTexts(TableTexts(heap)[Inner(n)], Item(Caller)[2])
                                 /\ out = pre[n + 1] \o x
  BY <1>4, <1>5, <1>11 DEF Valued
<1>13. (w \o LeadOf(Caller)) \o x \in ListTexts(TableTexts(heap)[Inner(n)], Caller.order)[Caller.done + 1]
  BY <1>3, <1>4, <1>6, <1>9, <1>10, <1>12, ListGrows
<1>14. LeadOf(Caller) \in Seq(Written) /\ w \in Seq(Written) /\ Bracket(Caller) \in Seq(Written)
  <2>1. Caller.done + 1 \in 1 .. Len(Caller.order)
    BY <1>3, <1>9 DEF Call
  <2> QED
    BY <1>3, <1>10, <2>1, LeadType, BracketType DEF LeadOf, Listed
<1>15. PICK v \in Seq(Written) : v = (w \o LeadOf(Caller)) \o x
  BY <1>14, JoinType
<1>16. out = pre[n] \o (Bracket(Caller) \o v)
  <2>1. out = ((pre[n] \o (Bracket(Caller) \o w)) \o LeadOf(Caller)) \o x
    BY <1>10, <1>12, Zenon
  <2>2. ((pre[n] \o (Bracket(Caller) \o w)) \o LeadOf(Caller)) \o x
            = pre[n] \o (Bracket(Caller) \o ((w \o LeadOf(Caller)) \o x))
    <3>1. Regroups(pre[n], Bracket(Caller), w, LeadOf(Caller), x)
      BY <1>5, <1>14, JoinFive
    <3> QED
      BY <3>1, Zenon DEF Regroups
  <2> QED
    BY <1>15, <2>1, <2>2, Zenon
<1> HIDE DEF c
<1>17. /\ Len(calls') = n /\ calls'[n] = c
       /\ \A i \in 1 .. Len(calls) : i < Len(calls) => calls'[i] = calls[i]
  BY <1>1, <1>3, <1>4, <1>7, SetCallerProperties
<1>18. \A j \in 1 .. Base : stack'[j] = stack[j]
  <2>1. /\ stack \in Seq(Key \cup {Opaque}) /\ Len(stack) \in Nat /\ 1 \in Nat
        /\ Len(stack) = Base + Held(Caller) + 1 /\ Base \in 1 .. Len(stack) /\ Held(Caller) \in {0, 1}
    BY <1>1, <1>3, ValueSlots, BelowBase, Sizes
  <2>2. 1 <= Len(stack)
    BY <2>1
  <2>3. \A j \in 1 .. Len(stack) - 1 : stack'[j] = stack[j]
    BY <1>1, <2>1, <2>2, PopProperties
  <2>4. \A j \in 1 .. Base : j \in 1 .. Len(stack) - 1
    BY <2>1
  <2> QED
    BY <2>3, <2>4
<1>19. Outer(pre, n - 1)'
  <2>1. Outer(pre, n - 1)
    BY <1>4, <1>5 DEF Outer
  <2> QED
    BY <1>1, <1>4, <1>17, <1>18, <2>1, OuterBelow
<1>20. Begun(n, pre[n], out)'
  <2>1. v \in ListTexts(TableTexts(heap')[Inner(n)], calls'[n].order)[calls'[n].done]
    BY <1>1, <1>7, <1>13, <1>15, <1>17
  <2>2. Listed(n, v)'
    BY <2>1 DEF Listed, Inner
  <2>3. Bracket(calls'[n]) = Bracket(Caller)
    BY <1>7, <1>17 DEF Bracket
  <2>4. out' = pre[n] \o (Bracket(calls'[n]) \o v)
    BY <1>1, <1>16, <2>3
  <2> QED
    BY <2>2, <2>4, Zenon DEF Begun, Listed
<1>21. at' \in {"array", "object"}
  BY <1>1, <1>3, <1>6 DEF Call
<1>22. Trail(pre)'
  BY <1>17, <1>19, <1>20, <1>21 DEF Trail
<1> QED
  BY <1>21, <1>22 DEF Wrote

\* What is written when the outermost call has returned is a text of table 1.
LEMMA ReturnWrites == ASSUME Shape, Wrote, Return PROVE Wrote'
<1>1. at = "emitted" /\ calls = <<>> /\ at' = "done" /\ UNCHANGED <<heap, stack, calls, out>>
  BY DEF Return
<1>2. PICK pre \in Starts : Trail(pre)
  BY DEF Wrote
<1>3. pre[1] = <<>> /\ Valued(pre[1])
  <2>1. Len(calls) = 0 /\ Len(calls) + 1 = 1
    BY <1>1
  <2> QED
    BY <1>1, <1>2, <2>1 DEF Trail, Outer
<1>4. FromTop(1) = Table(1)
  <2>1. Len(stack) = 1 /\ stack[1] = Table(1)
    BY <1>1 DEF Shape, Heights, Frames
  <2>2. Len(stack) + 1 - 1 = 1
    BY <2>1
  <2> QED
    BY <2>1, <2>2 DEF FromTop
<1>5. Inner(Len(calls)) = MaxNesting + 1
  <2>1. Len(calls) = 0
    BY <1>1
  <2> QED
    BY <2>1, NestingAssumption DEF Inner
<1>6. PICK x \in ValueTexts(TableTexts(heap)[MaxNesting + 1], Table(1)) : x \in Seq(Written) /\ out = <<>> \o x
  BY <1>3, <1>4, <1>5 DEF Valued
<1>7. out = x
  BY <1>6, ConcatSimplifications
<1>8. out \in TableTexts(heap)[MaxNesting + 1][1]
  BY <1>6, <1>7 DEF ValueTexts, IsTable, Table
<1>9. Trail(pre)'
  BY <1>1 DEF Trail
<1> QED
  BY <1>1, <1>8, <1>9 DEF Wrote

\* Nothing has been written at first, and nothing is when an error ends it all.
LEMMA WroteInit == Init => Kinds /\ Wrote
<1> SUFFICES ASSUME Init PROVE Kinds /\ Wrote
  OBVIOUS
<1>1. Len(calls) = 0 /\ at = "enter" /\ out = <<>>
  BY DEF Init
<1>2. PICK pre \in Starts : pre = [i \in 1 .. MaxNesting + 2 |-> <<>>]
  <2>1. <<>> \in Seq(Written)
    OBVIOUS
  <2> QED
    BY <2>1 DEF Starts
<1>3. pre[1] = <<>> /\ Len(calls) + 1 = 1
  BY <1>1, <1>2, NestingAssumption
<1>4. Trail(pre)
  BY <1>1, <1>3 DEF Trail, Outer
<1>5. Kinds
  BY <1>1, NestingAssumption DEF Kinds
<1> QED
  BY <1>1, <1>4, <1>5 DEF Wrote

\* Every step keeps what has been written.
LEMMA WroteStep ==
    ASSUME NoTwins, heap \in PlainHeaps, Shape, Progress, Kinds, Wrote, [Next]_wvars, ~Overrun
    PROVE  Wrote'
<1>1. CASE EnterTooDeep
  BY <1>1, EnterTooDeepWrites
<1>2. CASE Enter
  BY <1>2, EnterWrites
<1>3. CASE ScanIndex
  BY <1>3, ScanIndexWrites
<1>4. CASE ScanOther
  BY <1>4, StartObjectWrites DEF ScanOther
<1>5. CASE ScanEnd
  BY <1>5, ScanEndWrites
<1>6. CASE ArrayItem
  BY <1>6, ArrayItemWrites
<1>7. CASE ArrayEnd
  BY <1>7, ArrayEndWrites
<1>8. CASE ObjectItem
  BY <1>8, ObjectItemWrites
<1>9. CASE ObjectInvalidKey
  <2>1. at' = "error"
    BY <1>9 DEF ObjectInvalidKey
  <2>2. PICK pre \in Starts : TRUE
    BY DEF Wrote
  <2>3. Trail(pre)'
    BY <2>1 DEF Trail
  <2> QED
    BY <2>1, <2>3 DEF Wrote
<1>10. CASE ObjectEnd
  BY <1>10, ObjectEndWrites
<1>11. CASE ItemWritten
  BY <1>11, ItemWrittenWrites
<1>12. CASE Return
  BY <1>12, ReturnWrites
<1>13. CASE UNCHANGED wvars
  <2>1. UNCHANGED <<heap, stack, calls, at, out>>
    BY <1>13 DEF wvars
  <2>2. \A i, p, q : Begun(i, p, q)' <=> Begun(i, p, q)
    BY <2>1 DEF Begun, Listed, Inner
  <2>3. \A i, p, q : InPart(i, p, q)' <=> InPart(i, p, q)
    BY <2>1, <2>2 DEF InPart, ValueSlot, Item
  <2>4. \A pre, n : Outer(pre, n)' <=> Outer(pre, n)
    BY <2>3 DEF Outer
  <2>5. \A p : Valued(p)' <=> Valued(p)
    BY <2>1 DEF Valued, Inner, FromTop
  <2>6. PICK pre \in Starts : Trail(pre)
    BY DEF Wrote
  <2>7. Trail(pre)'
    BY <2>1, <2>2, <2>4, <2>5, <2>6 DEF Trail
  <2> QED
    BY <2>1, <2>7 DEF Wrote
<1> QED
  BY <1>1, <1>2, <1>3, <1>4, <1>5, <1>6, <1>7, <1>8, <1>9, <1>10, <1>11, <1>12, <1>13 DEF Next

\* The writer's variables keep their types, whatever heap it is given: what is
\* on the stack are keys and values, and the text is made of lexemes.
THEOREM TypeCorrect == Spec => []TypeOK
<1>1. Shape => TypeOK
  BY DEF Shape
<1> QED
  BY <1>1, ShapeInvariant, PTL

\* lua_table_to_json_helper finds its table in its slot at every return of the
\* calls it makes, for every nesting and every table that contains itself, and
\* the conversion leaves the stack as it found it.
THEOREM StackRestoredAlways == Spec => []StackRestored
BY ShapeInvariant, ShapeRestores, PTL

\* Where no table has a number and its text as keys, the object loop writes each
\* entry once, although it converts the key lua_next goes on from.
THEOREM EntriesOnceAlways == NoTwins => (Spec => []EntriesOnce)
<1> SUFFICES ASSUME NoTwins PROVE Spec => []EntriesOnce
  OBVIOUS
<1> DEFINE I == Shape /\ (at = "undefined" \/ (Progress /\ ErrorMeansMixed))
<1>1. Init => I
  BY ShapeInit, ProgressInit
<1>2. I /\ [Next]_wvars => I'
  BY ShapeStep, ProgressStep, UndefinedStops
<1>3. I => EntriesOnce
  BY ProgressCounts DEF EntriesOnce
<1> QED
  BY <1>1, <1>2, <1>3, PTL DEF Spec

\* Under the same condition a conversion fails only in a table that is no array
\* and has a number as a key.
THEOREM ErrorMeansMixedAlways == NoTwins => (Spec => []ErrorMeansMixed)
<1> SUFFICES ASSUME NoTwins PROVE Spec => []ErrorMeansMixed
  OBVIOUS
<1> DEFINE I == Shape /\ (at = "undefined" \/ (Progress /\ ErrorMeansMixed))
<1>1. Init => I
  BY ShapeInit, ProgressInit
<1>2. I /\ [Next]_wvars => I'
  BY ShapeStep, ProgressStep, UndefinedStops
<1>3. I => ErrorMeansMixed
  BY DEF ErrorMeansMixed
<1> QED
  BY <1>1, <1>2, <1>3, PTL DEF Spec

\* Where no table has a number and its text as keys, the conversion of plain tables,
\* if it ends and neither raises an error nor pushes beyond its slots, leaves a JSON
\* text of the first table, whatever their size, their nesting and the order
\* lua_next visits them in.
THEOREM OutputDenotesAlways == NoTwins => (Spec => []OutputDenotes)
<1> SUFFICES ASSUME NoTwins PROVE Spec => []OutputDenotes
  OBVIOUS
<1> DEFINE I == /\ Shape
                /\ \/ at = "undefined"
                   \/ Progress /\ ErrorMeansMixed /\ (heap \in PlainHeaps => Kinds /\ Wrote)
<1>1. Init => I
  BY ShapeInit, ProgressInit, WroteInit
<1>2. I /\ [Next]_wvars => I'
  <2> SUFFICES ASSUME I, [Next]_wvars PROVE I'
    OBVIOUS
  <2>0. Shape'
    BY ShapeStep
  <2>1. CASE Overrun \/ at = "undefined"
    BY <2>0, <2>1, UndefinedStops
  <2>2. CASE ~Overrun /\ at # "undefined"
    <3>1. Progress' /\ ErrorMeansMixed'
      BY <2>2, ProgressStep
    <3>2. heap' = heap
      BY DEF Next, wvars, EnterTooDeep, Enter, ScanIndex, ScanOther, ScanEnd, ArrayItem, ArrayEnd,
             ObjectItem, ObjectInvalidKey, ObjectEnd, ItemWritten, Overrun, Return
    <3>3. ASSUME heap \in PlainHeaps PROVE Kinds' /\ Wrote'
      BY <2>2, <3>3, KindsStep, WroteStep
    <3> QED
      BY <2>0, <3>1, <3>2, <3>3
  <2> QED
    BY <2>1, <2>2
<1>3. I => OutputDenotes
  BY DEF OutputDenotes, Wrote
<1> QED
  BY <1>1, <1>2, <1>3, PTL DEF Spec
=============================================================================
