-------------------------- MODULE JsonParserProofs --------------------------
(***************************************************************************)
(* Proofs about JsonParser, for every set of texts and every depth limit,  *)
(* about the documents of JsonLayouts, of any size within that limit, and  *)
(* about JsonConversion, the reader and then the writer.                   *)
(***************************************************************************)
EXTENDS JsonConversion, FiniteSetTheorems, SequenceTheorems, TLAPS

\* At these points of the code a container is being read, and a colon is only
\* expected in an object.
InContainer ==
    /\ pc \in {"opened", "item", "colon", "separator"} => frames # <<>>
    /\ pc = "colon" => Top.kind = "object"

\* Outside every container the stack holds the finished value or nothing.
OutsideBalanced ==
    stray = 0 /\ frames = <<>> =>
      /\ pc = "value" => Len(stack) = 0
      /\ pc = "return" => Len(stack) = 1

\* Nesting stays within the limit, and a container's table is no higher than
\* two slots per enclosing container allow.
DepthBounded ==
    /\ Len(frames) <= MaxDepth + 1
    /\ pc = "error" => frames # <<>>
    /\ stray = 0 => \A i \in 1 .. Len(frames) : frames[i].base <= 2 * i - 1

-----------------------------------------------------------------------------
(* Lemmas about the operators of the model.                                *)

\* Pop drops the last n elements and keeps the others where they were.
LEMMA PopProperties ==
    ASSUME NEW S, NEW s \in Seq(S), NEW n \in Nat, n <= Len(s)
    PROVE  /\ Pop(s, n) \in Seq(S)
           /\ Len(Pop(s, n)) = Len(s) - n
           /\ \A i \in 1 .. Len(s) - n : Pop(s, n)[i] = s[i]
<1>1. \A i \in 1 .. Len(s) - n : s[i] \in S
  OBVIOUS
<1>2. 1 \in Int /\ Len(s) - n \in Int /\ Len(s) \in Nat
  OBVIOUS
<1> QED
  BY <1>1, <1>2, SubSeqProperties DEF Pop

\* What is pushed for a lexeme is a value.
LEMMA ScalarType == \A x : Scalar(x) \in Value
  BY LexemeAssumption DEF Scalar, Value, Atom, Nil

\* A string literal without a \uXXXX is read as the string it denotes.
LEMMA StringRead == \A s \in Str : Scalar(s) = Atom(s)
  BY LexemeAssumption DEF Scalar

\* A string without a \uXXXX is pushed for no other lexeme.
LEMMA StringPushed == \A x : x \notin Hex /\ Scalar(x) # Nil => Scalar(x) = Atom(x)
  BY DEF Scalar

\* An assignment to a table yields a table.
LEMMA AssignType ==
    ASSUME NEW t \in Entries, NEW k \in Key, NEW v \in Value
    PROVE  Assign(t, k, v) \in Entries
  BY DEF Assign, Entries

-----------------------------------------------------------------------------
(* The shape of the Lua stack for every text.                              *)

Shape == TypeOK /\ InContainer /\ TablesStayPut

\* Shape is inductive.
LEMMA ShapeStep == Shape /\ [Next]_vars => Shape'
<1> SUFFICES ASSUME Shape, [Next]_vars PROVE Shape'
  OBVIOUS
<1> USE DEF Shape
<1>0. /\ Len(stack) \in Nat /\ Len(frames) \in Nat /\ Len(heap) \in Nat
      /\ frames # <<>> => Len(frames) \in Nat \ {0} /\ Top \in Frame
      /\ frames \in Seq(Frame) /\ stack \in Seq(Value) /\ heap \in Seq(Entries)
      /\ \A i \in 1 .. Len(frames) : frames[i] \in Frame
  BY DEF TypeOK, Top
<1>00. \A i \in 1 .. Len(frames) : /\ frames[i].base \in Nat \ {0}
                                   /\ Step(frames[i].kind) \in {1, 2}
  BY <1>0 DEF Frame, Step
\* A call that returns to its caller and leaves the stack alone.
<1>a. ASSUME pc \in Running, frames # <<>>, frames' = Pop(frames, 1), stack' = stack,
             pc' = "return"
      PROVE  frames' \in Seq(Frame) /\ InContainer' /\ TablesStayPut'
  <2>1. /\ frames' \in Seq(Frame) /\ Len(frames') = Len(frames) - 1
        /\ \A i \in 1 .. Len(frames) - 1 : frames'[i] = frames[i]
    <3>1. 1 \in Nat /\ 1 <= Len(frames)
      BY <1>0, <1>a
    <3> QED BY <1>0, <1>a, <3>1, PopProperties
  <2>2. InContainer'
    BY <1>a DEF InContainer
  <2>3. /\ \A i \in 1 .. Len(frames') :
              /\ frames'[i].base <= Len(stack')
              /\ stack'[frames'[i].base] = Table(frames'[i].tab)
        /\ \A i, j \in 1 .. Len(frames') :
              i < j => frames'[i].base + Step(frames'[i].kind) <= frames'[j].base
    <3>1. \A i \in 1 .. Len(frames') : i \in 1 .. Len(frames) /\ frames'[i] = frames[i]
      BY <1>0, <2>1
    <3> QED BY <1>a, <3>1 DEF TablesStayPut
  <2>4. ASSUME frames' # <<>>
        PROVE  Top'.base + Pending(Top.kind)' <= Len(stack')
    <3>1. Len(frames') \in Nat \ {0}
      BY <2>1, <2>4
    <3>2. /\ Top' = frames[Len(frames) - 1]
          /\ frames[Len(frames) - 1] \in Frame /\ Top \in Frame
      BY <3>1, <2>1, <1>a, <1>0 DEF Top, TypeOK
    <3>3. /\ frames[Len(frames) - 1].base + Step(frames[Len(frames) - 1].kind) <= Top.base
          /\ Top.base <= Len(stack)
      BY <1>0, <1>a, <2>1, <3>1 DEF TablesStayPut, Top
    <3>4. Pending(Top.kind)' = Step(frames[Len(frames) - 1].kind)
      BY <1>a, <3>2 DEF Pending, Step
    <3>5. frames[Len(frames) - 1].base \in Nat /\ Step(frames[Len(frames) - 1].kind) \in Nat
      BY <3>2 DEF Frame, Step
    <3>6. Top.base \in Nat
      BY <3>2 DEF Frame
    <3> QED BY <1>0, <1>a, <3>2, <3>3, <3>4, <3>5, <3>6
  <2> QED BY <2>1, <2>2, <2>3, <2>4 DEF TablesStayPut
\* A push on the stack.
<1>b. ASSUME NEW v \in Value, pc \in Running, stack' = Append(stack, v), frames' = frames,
             frames # <<>> => Pending(Top.kind)' <= Pending(Top.kind) + 1
      PROVE  stack' \in Seq(Value) /\ TablesStayPut'
  <2>1. /\ stack' \in Seq(Value) /\ Len(stack') = Len(stack) + 1
        /\ \A i \in 1 .. Len(stack) : stack'[i] = stack[i]
    BY <1>b, AppendProperties DEF TypeOK
  <2>3. frames # <<>> => /\ Top'.base = Top.base /\ Top.base \in Nat
                         /\ Pending(Top.kind) \in Nat /\ Pending(Top.kind)' \in Nat
    BY <1>0, <1>b DEF Top, Frame, Pending, Step
  <2>4. \A i \in 1 .. Len(frames) : frames[i].base \in 1 .. Len(stack)
    <3>1. \A i \in 1 .. Len(frames) : frames[i].base <= Len(stack)
      BY <1>b DEF TablesStayPut
    <3> QED BY <1>0, <1>00, <3>1
  <2>5. \A i \in 1 .. Len(frames) :
            frames[i].base <= Len(stack') /\ stack'[frames[i].base] = Table(frames[i].tab)
    <3>1. \A i \in 1 .. Len(frames) : stack[frames[i].base] = Table(frames[i].tab)
      BY <1>b DEF TablesStayPut
    <3> QED BY <1>0, <2>1, <2>4, <3>1
  <2>6. frames' # <<>> => Top'.base + Pending(Top.kind)' <= Len(stack')
    BY <1>0, <1>b, <2>1, <2>3 DEF TablesStayPut
  <2> QED BY <1>b, <2>1, <2>5, <2>6 DEF TablesStayPut
\* A pop of what lies above the innermost container's table.
<1>c. ASSUME NEW n \in {1, 2}, pc = "return", frames # <<>>, pc' = "separator",
             stack' = Pop(stack, n), n = Step(Top.kind),
             Len(frames') = Len(frames),
             \A i \in 1 .. Len(frames) : /\ frames'[i].base = frames[i].base
                                         /\ frames'[i].kind = frames[i].kind
                                         /\ frames'[i].tab = frames[i].tab
      PROVE  stack' \in Seq(Value) /\ TablesStayPut'
  <2>1. Top.base + n <= Len(stack) /\ Top.base \in Nat \ {0}
    BY <1>c, <1>0 DEF TablesStayPut, Pending, Step, Frame, Running
  <2>2. /\ stack' \in Seq(Value) /\ Len(stack') = Len(stack) - n
        /\ \A i \in 1 .. Len(stack) - n : stack'[i] = stack[i]
    <3>1. n \in Nat /\ n <= Len(stack)
      BY <1>0, <1>c, <2>1
    <3>2. stack \in Seq(Value) /\ stack' = Pop(stack, n)
      BY <1>0, <1>c
    <3> QED BY <3>1, <3>2, PopProperties
  <2>3. \A i \in 1 .. Len(frames) : frames[i].base <= Top.base
    <3> SUFFICES ASSUME NEW i \in 1 .. Len(frames) PROVE frames[i].base <= Top.base
      OBVIOUS
    <3>1. CASE i = Len(frames)
      BY <3>1, <1>00 DEF Top
    <3>2. CASE i # Len(frames)
      <4>1. frames[i].base + Step(frames[i].kind) <= Top.base
        BY <1>0, <1>c, <3>2 DEF TablesStayPut, Top, Running
      <4> QED BY <4>1, <2>1, <1>00
    <3> QED BY <3>1, <3>2
  <2>4. \A i \in 1 .. Len(frames') :
              /\ frames'[i].base <= Len(stack')
              /\ stack'[frames'[i].base] = Table(frames'[i].tab)
    <3> SUFFICES ASSUME NEW i \in 1 .. Len(frames)
                 PROVE  /\ frames[i].base <= Len(stack')
                        /\ stack'[frames[i].base] = Table(frames[i].tab)
      BY <1>c
    <3>1. frames[i].base \in 1 .. Len(stack) - n
      <4>1. frames[i].base \in Nat \ {0} /\ frames[i].base <= Top.base
        BY <1>0, <1>00, <2>3 DEF Frame
      <4>2. \A a, b, m \in Nat : a <= b /\ a # 0 /\ b + n <= m => a \in 1 .. m - n
        OBVIOUS
      <4> QED BY <1>0, <2>1, <4>1, <4>2
    <3>2. stack[frames[i].base] = Table(frames[i].tab)
      BY <1>c DEF TablesStayPut, Running
    <3>3. stack'[frames[i].base] = stack[frames[i].base]
      BY <2>2, <3>1
    <3>4. frames[i].base <= Len(stack')
      BY <1>0, <2>2, <3>1
    <3> QED BY <3>2, <3>3, <3>4
  <2>5. \A i, j \in 1 .. Len(frames') :
              i < j => frames'[i].base + Step(frames'[i].kind) <= frames'[j].base
    BY <1>0, <1>c DEF TablesStayPut, Running
  <2>6. Top'.base + Pending(Top.kind)' <= Len(stack')
    <3>1. Top'.base = Top.base /\ Pending(Top.kind)' = 0
      BY <1>0, <1>c DEF Top, Pending
    <3> QED BY <1>0, <2>1, <2>2, <3>1
  <2> QED BY <2>2, <2>4, <2>5, <2>6 DEF TablesStayPut
<1>1. CASE ParseScalar
  <2>1. frames # <<>> => Pending(Top.kind)' <= Pending(Top.kind) + 1
    <3>1. frames # <<>> => Top.kind \in {"array", "object"} /\ Top'.kind = Top.kind
      BY <1>0, <1>1 DEF ParseScalar, Top, Frame
    <3>2. pc = "value" /\ pc' = "return"
      BY <1>1 DEF ParseScalar
    <3> QED BY <3>1, <3>2 DEF Pending, Step
  <2>2. stack' \in Seq(Value) /\ TablesStayPut'
    BY <1>1, <1>b, <2>1, ScalarType DEF ParseScalar, Running
  <2>3. TypeOK'
    <3>1. pos' \in Nat \ {0}
      <4>1. pos' = pos + 1 \/ pos' = pos
        BY <1>1 DEF ParseScalar
      <4> QED BY <4>1 DEF TypeOK
    <3> QED BY <1>1, <2>2, <3>1 DEF ParseScalar, TypeOK, Running, Final
  <2>4. InContainer'
    BY <1>1 DEF ParseScalar, InContainer
  <2> QED BY <2>2, <2>3, <2>4
<1>2. ASSUME NEW kind \in {"array", "object"}, OpenTable(kind) PROVE Shape'
  <2> DEFINE f == [kind |-> kind, base |-> Len(stack) + 1, tab |-> Len(heap) + 1, index |-> 1]
  <2>1. f \in Frame /\ Table(Len(heap) + 1) \in Value /\ {} \in Entries
    BY <1>0 DEF Frame, Table, Value, Entries
  <2>2. /\ stack' \in Seq(Value) /\ Len(stack') = Len(stack) + 1
        /\ \A i \in 1 .. Len(stack) : stack'[i] = stack[i]
        /\ stack'[Len(stack) + 1] = Table(f.tab)
    BY <1>2, <2>1, AppendProperties DEF OpenTable, TypeOK
  <2>3. /\ frames' \in Seq(Frame) /\ Len(frames') = Len(frames) + 1
        /\ \A i \in 1 .. Len(frames) : frames'[i] = frames[i]
        /\ frames'[Len(frames) + 1] = f /\ frames' # <<>>
    BY <1>2, <2>1, AppendProperties DEF OpenTable, TypeOK
  <2>4. TypeOK'
    <3>1. heap' \in Seq(Entries)
      BY <1>2, <2>1, AppendProperties DEF OpenTable, TypeOK
    <3> QED BY <1>2, <2>2, <2>3, <3>1 DEF OpenTable, TypeOK, Running, Final
  <2>5. InContainer'
    BY <1>2, <2>3 DEF OpenTable, InContainer
  <2>7. \A i \in 1 .. Len(frames') :
              /\ frames'[i].base <= Len(stack')
              /\ stack'[frames'[i].base] = Table(frames'[i].tab)
    <3>1. \A i \in 1 .. Len(frames) :
              /\ frames[i].base \in 1 .. Len(stack)
              /\ stack[frames[i].base] = Table(frames[i].tab)
      BY <1>0, <1>00, <1>2 DEF OpenTable, TablesStayPut, Running
    <3>2. Len(stack) \in Nat /\ Len(frames) \in Nat
      BY <1>0
    <3>3. f.base = Len(stack) + 1 /\ stack'[Len(stack) + 1] = Table(f.tab)
      BY <2>2
    <3> HIDE DEF f
    <3> QED BY <2>2, <2>3, <3>1, <3>2, <3>3
  <2>8. \A i \in 1 .. Len(frames) : frames[i].base + Step(frames[i].kind) <= Len(stack) + 1
    <3>1. frames # <<>> => Top.base + Step(Top.kind) <= Len(stack) + 1
      <4>1. frames # <<>> => Top.base + Pending(Top.kind) <= Len(stack) /\ Top \in Frame
        BY <1>0, <1>2 DEF OpenTable, TablesStayPut, Running
      <4>2. Pending(Top.kind) = Step(Top.kind) - 1
        BY <1>2 DEF OpenTable, Pending
      <4> QED BY <1>0, <4>1, <4>2 DEF Step, Frame
    <3>2. \A i \in 1 .. Len(frames) : frames[i].base + Step(frames[i].kind) <= Top.base \/ i = Len(frames)
      BY <1>0, <1>2 DEF OpenTable, TablesStayPut, Running, Top
    <3>3. frames # <<>> => Top.base <= Len(stack)
      BY <1>0, <1>2 DEF OpenTable, TablesStayPut, Running, Top
    <3> SUFFICES ASSUME NEW i \in 1 .. Len(frames)
                 PROVE  frames[i].base + Step(frames[i].kind) <= Len(stack) + 1
      OBVIOUS
    <3>4. frames # <<>> /\ Top.base \in Nat
      BY <1>0 DEF Frame
    <3>5. CASE i = Len(frames)
      <4>1. frames[i] = Top
        BY <3>5 DEF Top
      <4> QED BY <4>1, <3>1, <3>4
    <3>6. CASE frames[i].base + Step(frames[i].kind) <= Top.base
      <4>1. frames[i].base + Step(frames[i].kind) \in Nat
        BY <1>00
      <4>2. Top.base <= Len(stack) /\ Len(stack) \in Nat
        BY <1>0, <3>3, <3>4
      <4> QED BY <3>4, <3>6, <4>1, <4>2
    <3> QED BY <3>2, <3>5, <3>6
  <2>9. \A i, j \in 1 .. Len(frames') :
              i < j => frames'[i].base + Step(frames'[i].kind) <= frames'[j].base
    <3> SUFFICES ASSUME NEW i \in 1 .. Len(frames'), NEW j \in 1 .. Len(frames'), i < j
                 PROVE  frames'[i].base + Step(frames'[i].kind) <= frames'[j].base
      OBVIOUS
    <3>1. i \in 1 .. Len(frames) /\ frames'[i] = frames[i]
      BY <1>0, <2>3
    <3>2. CASE j \in 1 .. Len(frames)
      BY <1>2, <2>3, <3>1, <3>2 DEF OpenTable, TablesStayPut, Running
    <3>3. CASE j = Len(frames) + 1
      BY <2>3, <2>8, <3>1, <3>3
    <3> QED BY <1>0, <2>3, <3>2, <3>3
  <2>10. Top'.base + Pending(Top.kind)' <= Len(stack')
    BY <1>0, <1>2, <2>2, <2>3 DEF OpenTable, Top, Pending, Step
  <2> QED BY <2>4, <2>5, <2>7, <2>9, <2>10 DEF TablesStayPut
<1>3. CASE Opened
  <2>1. frames # <<>>
    BY <1>3 DEF Opened, InContainer
  <2>2. CASE Look = Closer(Top.kind)
    BY <1>3, <1>a, <2>1, <2>2 DEF Opened, TypeOK, Running, Final
  <2>3. CASE Look # Closer(Top.kind)
    <3>1. TypeOK'
      BY <1>3, <2>3 DEF Opened, TypeOK, Running, Final
    <3>2. InContainer'
      BY <1>3, <2>1, <2>3 DEF Opened, InContainer
    <3>3. TablesStayPut'
      BY <1>3, <2>1, <2>3 DEF Opened, TablesStayPut, Running, Top, Pending, Step
    <3> QED BY <3>1, <3>2, <3>3
  <2> QED BY <2>2, <2>3
<1>4. CASE ArrayItem
  <2>1. frames # <<>>
    BY <1>4 DEF ArrayItem, InContainer
  <2>2. CASE Look = "eof"
    BY <1>4, <1>a, <2>1, <2>2 DEF ArrayItem, TypeOK, Running, Final
  <2>3. CASE Look # "eof"
    <3>1. TypeOK'
      BY <1>4, <2>3 DEF ArrayItem, TypeOK, Running, Final
    <3>2. InContainer'
      BY <1>4, <2>3 DEF ArrayItem, InContainer
    <3>3. TablesStayPut'
      BY <1>4, <2>1, <2>3 DEF ArrayItem, TablesStayPut, Running, Top, Pending, Step
    <3> QED BY <3>1, <3>2, <3>3
  <2> QED BY <2>2, <2>3
<1>5. CASE ObjectKey
  <2>1. frames # <<>>
    BY <1>5 DEF ObjectKey, InContainer
  <2>2. CASE Look \in Quoted
    <3>1. Pending(Top.kind)' <= Pending(Top.kind) + 1
      BY <1>5, <2>1, <2>2 DEF ObjectKey, Pending, Step, Top
    <3>2. stack' \in Seq(Value) /\ TablesStayPut'
      BY <1>5, <1>b, <2>2, <3>1, ScalarType DEF ObjectKey, Running
    <3>3. TypeOK'
      BY <1>5, <2>2, <3>2 DEF ObjectKey, TypeOK, Running, Final
    <3>4. InContainer'
      BY <1>5, <2>1, <2>2 DEF ObjectKey, InContainer, Top
    <3> QED BY <3>2, <3>3, <3>4
  <2>3. CASE Look \notin Quoted
    BY <1>5, <1>a, <2>1, <2>3 DEF ObjectKey, TypeOK, Running, Final
  <2> QED BY <2>2, <2>3
<1>6. CASE ObjectColon
  <2>1. frames # <<>> /\ Top.kind = "object"
    BY <1>6 DEF ObjectColon, InContainer
  <2>2. CASE Look = ":"
    <3>1. TypeOK'
      BY <1>6, <2>2 DEF ObjectColon, TypeOK, Running, Final
    <3>2. InContainer'
      BY <1>6, <2>2 DEF ObjectColon, InContainer
    <3>3. TablesStayPut'
      BY <1>6, <2>1, <2>2 DEF ObjectColon, TablesStayPut, Running, Top, Pending, Step
    <3> QED BY <3>1, <3>2, <3>3
  <2>3. CASE Look # ":"
    BY <1>6, <1>a, <2>1, <2>3 DEF ObjectColon, TypeOK, Running, Final
  <2> QED BY <2>2, <2>3
<1>7. CASE StoreElement
  <2>1. CASE ~IsTable(Slot(2))
    <3>1. TypeOK'
      BY <1>7, <2>1 DEF StoreElement, TypeOK, Running, Final
    <3> QED BY <1>7, <2>1, <3>1 DEF StoreElement, InContainer, TablesStayPut, Running
  <2>2. CASE IsTable(Slot(2))
    <3> DEFINE n == Len(frames)
               g == [Top EXCEPT !.index = @ + 1]
    <3>1. n \in 1 .. Len(frames) /\ g \in Frame /\ frames' = [frames EXCEPT ![n] = g]
      <4>0. frames # <<>> /\ Top \in Frame
        BY <1>0, <1>7 DEF StoreElement
      <4>1. n \in 1 .. Len(frames) /\ g \in Frame
        <5>1. n \in 1 .. Len(frames)
          BY <1>0, <4>0
        <5>2. g \in Frame
          BY <4>0 DEF Frame
        <5> QED BY <5>1, <5>2
      <4>2. frames' = [frames EXCEPT ![n] = g]
        BY <1>7, <2>2 DEF StoreElement, Top
      <4> QED BY <4>1, <4>2
    <3>2. /\ frames' \in Seq(Frame) /\ Len(frames') = Len(frames)
          /\ \A i \in 1 .. Len(frames) : frames'[i] = IF i = n THEN g ELSE frames[i]
      BY <3>1, ExceptSeq DEF TypeOK
    <3>3. \A i \in 1 .. Len(frames) : /\ frames'[i].base = frames[i].base
                                      /\ frames'[i].kind = frames[i].kind
                                      /\ frames'[i].tab = frames[i].tab
      <4>1. g.base = Top.base /\ g.kind = Top.kind /\ g.tab = Top.tab
        BY <1>0, <1>7 DEF StoreElement, Frame
      <4> QED BY <3>2, <4>1 DEF Top
    <3>4. stack' \in Seq(Value) /\ TablesStayPut'
      BY <1>7, <1>c, <2>2, <3>2, <3>3 DEF StoreElement, Step
    <3>5. Slot(1) \in Value /\ Slot(2) \in Value
      <4>1. Top.base + 1 <= Len(stack) /\ Top.base \in Nat \ {0}
        BY <1>0, <1>7 DEF StoreElement, TablesStayPut, Pending, Step, Frame, Running
      <4> QED BY <4>1, <1>0 DEF Slot, TypeOK
    <3>6. heap' \in Seq(Entries)
      <4>1. CASE Slot(2).id \in 1 .. Len(heap)
        <5>1. Index(Top.index) \in Key
          BY <1>0, <1>7 DEF StoreElement, Index, Key, Frame
        <5>2. Assign(heap[Slot(2).id], Index(Top.index), Slot(1)) \in Entries
          BY <3>5, <4>1, <5>1, AssignType DEF TypeOK
        <5>3. heap' = [heap EXCEPT ![Slot(2).id] = Assign(heap[Slot(2).id], Index(Top.index), Slot(1))]
          BY <1>7, <2>2 DEF StoreElement
        <5> QED BY <1>0, <4>1, <5>2, <5>3, ExceptSeq
      <4>2. CASE Slot(2).id \notin 1 .. Len(heap)
        <5>1. heap' = heap
          BY <1>7, <2>2, <4>2 DEF StoreElement, TypeOK
        <5> QED BY <5>1 DEF TypeOK
      <4> QED BY <4>1, <4>2
    <3>7. TypeOK'
      BY <1>7, <2>2, <3>2, <3>4, <3>6 DEF StoreElement, TypeOK, Running, Final
    <3>8. InContainer'
      BY <1>0, <1>7, <2>2, <3>2 DEF StoreElement, InContainer
    <3> QED BY <3>4, <3>7, <3>8
  <2> QED BY <2>1, <2>2
<1>8. CASE StoreMember
  <2>1. CASE ~IsTable(Slot(3)) \/ Slot(2) = Nil
    <3>1. TypeOK'
      BY <1>8, <2>1 DEF StoreMember, TypeOK, Running, Final
    <3> QED BY <1>8, <2>1, <3>1 DEF StoreMember, InContainer, TablesStayPut, Running
  <2>2. CASE IsTable(Slot(3)) /\ Slot(2) # Nil
    <3>1. stack' \in Seq(Value) /\ TablesStayPut'
      BY <1>8, <1>c, <2>2 DEF StoreMember, Step
    <3>2. Slot(1) \in Value /\ Slot(2) \in Value
      <4>1. Top.base + 2 <= Len(stack) /\ Top.base \in Nat \ {0}
        BY <1>0, <1>8 DEF StoreMember, TablesStayPut, Pending, Step, Frame, Running
      <4> QED BY <4>1, <1>0 DEF Slot, TypeOK
    <3>3. heap' \in Seq(Entries)
      <4>1. CASE Slot(3).id \in 1 .. Len(heap)
        <5>1. Assign(heap[Slot(3).id], Slot(2), Slot(1)) \in Entries
          BY <3>2, <4>1, AssignType DEF TypeOK, Key
        <5>2. heap' = [heap EXCEPT ![Slot(3).id] = Assign(heap[Slot(3).id], Slot(2), Slot(1))]
          BY <1>8, <2>2 DEF StoreMember
        <5> QED BY <1>0, <4>1, <5>1, <5>2, ExceptSeq
      <4>2. CASE Slot(3).id \notin 1 .. Len(heap)
        <5>1. heap' = heap
          BY <1>8, <2>2, <4>2 DEF StoreMember, TypeOK
        <5> QED BY <5>1 DEF TypeOK
      <4> QED BY <4>1, <4>2
    <3>4. TypeOK'
      BY <1>8, <2>2, <3>1, <3>3 DEF StoreMember, TypeOK, Running, Final
    <3>5. InContainer'
      BY <1>8, <2>2 DEF StoreMember, InContainer
    <3> QED BY <3>1, <3>4, <3>5
  <2> QED BY <2>1, <2>2
<1>9. CASE Separator
  <2>1. frames # <<>>
    BY <1>9 DEF Separator, InContainer
  <2>2. CASE Look # ","
    <3>1. pos' \in Nat \ {0}
      <4>1. pos' = pos + 1 \/ pos' = pos
        BY <1>9 DEF Separator
      <4> QED BY <4>1 DEF TypeOK
    <3>2. frames' \in Seq(Frame) /\ InContainer' /\ TablesStayPut'
      BY <1>9, <1>a, <2>1, <2>2 DEF Separator, Running
    <3> QED BY <1>9, <2>2, <3>1, <3>2 DEF Separator, TypeOK, Running, Final
  <2>3. CASE Look = ","
    <3>1. TypeOK'
      <4>1. pos' = pos + 1 /\ pc' = "item" /\ UNCHANGED <<text, frames, stack, heap, stray>>
        BY <1>9, <2>3 DEF Separator
      <4> QED BY <4>1 DEF TypeOK, Running, Final
    <3>2. InContainer'
      BY <1>9, <2>1, <2>3 DEF Separator, InContainer
    <3>3. TablesStayPut'
      BY <1>9, <2>1, <2>3 DEF Separator, TablesStayPut, Running, Top, Pending, Step
    <3> QED BY <3>1, <3>2, <3>3
  <2> QED BY <2>2, <2>3
<1>10. CASE Return
  BY <1>10 DEF Return, TypeOK, InContainer, TablesStayPut, Running, Final
<1>11. CASE UNCHANGED vars
  BY <1>11 DEF vars, TypeOK, InContainer, TablesStayPut, Top, Pending, Step
<1>12. CASE Overrun
  BY <1>12 DEF Overrun, TypeOK, InContainer, TablesStayPut, Running, Final
<1> QED
  BY <1>1, <1>2, <1>3, <1>4, <1>5, <1>6, <1>7, <1>8, <1>9, <1>10, <1>11, <1>12 DEF Next

\* So the shape holds in every state.
LEMMA ShapeInvariant == Spec => []Shape
<1>1. Init => Shape
  BY DEF Init, Shape, TypeOK, InContainer, TablesStayPut, Running, Final
<1> QED
  BY <1>1, ShapeStep, PTL DEF Spec

\* Every state of the parser is well typed.
THEOREM TypeCorrect == Spec => []TypeOK
  BY ShapeInvariant, PTL DEF Shape

\* Whatever text parse_json is given, the table of every active call stays in
\* the slot lua_newtable put it in, and the stores address slots at or above it.
THEOREM TablesStayPutAlways == Spec => []TablesStayPut
  BY ShapeInvariant, PTL DEF Shape

-----------------------------------------------------------------------------
(* The exact layout of the stack while no key is stray.                    *)

Balanced == StackBalanced /\ OutsideBalanced /\ DepthBounded

\* What StackBalanced says of the active calls.
Layout ==
    /\ frames[1].base = 1
    /\ \A i \in 1 .. Len(frames) - 1 : frames[i + 1].base = frames[i].base + Step(frames[i].kind)
    /\ Len(stack) = Top.base + Pending(Top.kind)

\* Balanced is inductive relative to Shape.
LEMMA BalancedStep == Shape /\ Balanced /\ [Next]_vars => Balanced'
<1> SUFFICES ASSUME Shape, Balanced, [Next]_vars PROVE Balanced'
  OBVIOUS
<1>0. /\ Len(stack) \in Nat /\ Len(frames) \in Nat /\ Len(heap) \in Nat
      /\ frames # <<>> => Len(frames) \in Nat \ {0} /\ Top \in Frame
      /\ frames \in Seq(Frame) /\ stack \in Seq(Value) /\ stray \in Nat
      /\ \A i \in 1 .. Len(frames) : frames[i] \in Frame
  BY DEF Shape, TypeOK, Top
<1>00. \A i \in 1 .. Len(frames) : /\ frames[i].base \in Nat \ {0}
                                   /\ Step(frames[i].kind) \in {1, 2}
  BY <1>0 DEF Frame, Step
<1>01. MaxDepth \in Nat
  BY DepthAssumption
\* A call that returns to its caller and leaves the stack alone.
<1>a. ASSUME pc \in {"opened", "item", "separator"}, frames # <<>>, frames' = Pop(frames, 1),
             stack' = stack, pc' = "return", stray' = stray
      PROVE  Balanced'
  <2>1. /\ Len(frames') = Len(frames) - 1 /\ frames' \in Seq(Frame)
        /\ \A i \in 1 .. Len(frames) - 1 : frames'[i] = frames[i]
    <3>1. 1 \in Nat /\ 1 <= Len(frames)
      BY <1>0, <1>a
    <3> QED BY <1>0, <1>a, <3>1, PopProperties
  <2>2. stray = 0 => Layout
    BY <1>a DEF Balanced, StackBalanced, Running, Layout
  <2>3. ASSUME stray = 0, frames' # <<>> PROVE Layout'
    <3>1. Len(frames') \in Nat \ {0} /\ Len(frames) - 1 \in 1 .. Len(frames) - 1
      BY <1>0, <2>1, <2>3
    <3>2. frames'[1].base = 1
      BY <1>0, <2>1, <2>2, <2>3, <3>1 DEF Layout
    <3>3. \A i \in 1 .. Len(frames') - 1 : frames'[i + 1].base = frames'[i].base + Step(frames'[i].kind)
      <4> SUFFICES ASSUME NEW i \in 1 .. Len(frames') - 1
                   PROVE  frames'[i + 1].base = frames'[i].base + Step(frames'[i].kind)
        OBVIOUS
      <4>1. /\ i \in 1 .. Len(frames) - 1 /\ i + 1 \in 1 .. Len(frames) - 1
        BY <1>0, <2>1
      <4> QED BY <2>1, <2>2, <2>3, <4>1 DEF Layout
    <3>4. Top' = frames[Len(frames) - 1]
      BY <2>1, <3>1 DEF Top
    <3>5. Top.base = Top'.base + Step(Top'.kind)
      <4>1. frames[(Len(frames) - 1) + 1].base
              = frames[Len(frames) - 1].base + Step(frames[Len(frames) - 1].kind)
        BY <2>2, <2>3, <3>1 DEF Layout
      <4>2. (Len(frames) - 1) + 1 = Len(frames)
        BY <1>0
      <4> QED BY <3>4, <4>1, <4>2 DEF Top
    <3>6. Len(stack) = Top.base /\ Top.base \in Nat
      BY <1>0, <1>a, <2>2, <2>3 DEF Layout, Pending, Frame
    <3>7. Pending(Top.kind)' = Step(Top'.kind)
      BY <1>a DEF Pending
    <3> QED BY <1>a, <3>2, <3>3, <3>5, <3>6, <3>7 DEF Layout
  <2>4. StackBalanced'
    BY <1>a, <2>3 DEF StackBalanced, Layout
  <2>5. OutsideBalanced'
    <3> SUFFICES ASSUME stray = 0, frames' = <<>> PROVE Len(stack) = 1
      BY <1>a DEF OutsideBalanced
    <3>1. Len(frames) = 1
      BY <1>0, <2>1
    <3>2. Top.base = 1 /\ Len(stack) = Top.base + Pending(Top.kind)
      BY <2>2, <3>1 DEF Layout, Top
    <3>3. Pending(Top.kind) = 0
      BY <1>a DEF Pending
    <3> QED BY <3>2, <3>3
  <2>6. DepthBounded'
    <3>1. \A i \in 1 .. Len(frames') : i \in 1 .. Len(frames) /\ frames'[i] = frames[i]
      BY <1>0, <2>1
    <3>2. Len(frames') <= MaxDepth + 1
      BY <1>0, <1>01, <2>1 DEF Balanced, DepthBounded
    <3>3. stray = 0 => \A i \in 1 .. Len(frames') : frames'[i].base <= 2 * i - 1
      BY <3>1 DEF Balanced, DepthBounded
    <3> QED BY <1>a, <3>2, <3>3 DEF DepthBounded
  <2> QED BY <2>4, <2>5, <2>6 DEF Balanced
\* Steps after which a stray key has been seen.
<1>b. ASSUME stray' # 0, Len(frames') <= MaxDepth + 1, pc' # "error" PROVE Balanced'
  BY <1>b DEF Balanced, StackBalanced, OutsideBalanced, DepthBounded
\* Steps that leave the calls and their tables alone.
<1>c. ASSUME frames # <<>>, Len(frames') = Len(frames),
             \A i \in 1 .. Len(frames) : /\ frames'[i].base = frames[i].base
                                         /\ frames'[i].kind = frames[i].kind,
             pc \in Running, pc' \in Running, stray' = stray,
             Len(stack') - Pending(Top.kind)' = Len(stack) - Pending(Top.kind),
             Len(stack') \in Nat, frames' # <<>>
      PROVE  Balanced'
  <2>1. Top'.base = Top.base /\ Top'.kind = Top.kind
    BY <1>0, <1>c DEF Top
  <2>2. /\ Pending(Top.kind) \in Nat /\ Pending(Top.kind)' \in Nat /\ Top.base \in Nat
    BY <1>0, <1>c, <2>1 DEF Pending, Step, Frame
  <2>3. stray = 0 => Layout
    BY <1>c DEF Balanced, StackBalanced, Layout
  <2>4. stray = 0 => Layout'
    <3>1. stray = 0 => frames'[1].base = 1
      BY <1>0, <1>c, <2>3 DEF Layout
    <3>2. stray = 0 => \A i \in 1 .. Len(frames) - 1 :
                          frames'[i + 1].base = frames'[i].base + Step(frames'[i].kind)
      <4> SUFFICES ASSUME stray = 0, NEW i \in 1 .. Len(frames) - 1
                   PROVE  frames'[i + 1].base = frames'[i].base + Step(frames'[i].kind)
        OBVIOUS
      <4>1. i \in 1 .. Len(frames) /\ i + 1 \in 1 .. Len(frames)
        BY <1>0
      <4>2. frames[i + 1].base = frames[i].base + Step(frames[i].kind)
        BY <2>3 DEF Layout
      <4> QED BY <1>c, <4>1, <4>2
    <3>3. stray = 0 => Len(stack') = Top'.base + Pending(Top.kind)'
      BY <1>0, <1>c, <2>1, <2>2, <2>3 DEF Layout
    <3> QED BY <1>c, <3>1, <3>2, <3>3 DEF Layout
  <2>5. StackBalanced'
    BY <1>c, <2>4 DEF StackBalanced, Layout, Running
  <2>6. OutsideBalanced'
    BY <1>c DEF OutsideBalanced
  <2>7. DepthBounded'
    BY <1>0, <1>01, <1>c DEF Balanced, DepthBounded, Running
  <2> QED BY <2>5, <2>6, <2>7 DEF Balanced
<1>1. CASE ParseScalar
  <2>1. /\ Len(stack') = Len(stack) + 1
    BY <1>0, <1>1, ScalarType, AppendProperties DEF ParseScalar
  <2>2. pc = "value" /\ pc' = "return" /\ frames' = frames /\ stray' = stray
    BY <1>1 DEF ParseScalar
  <2>3. CASE frames # <<>>
    <3>1. Pending(Top.kind)' = Pending(Top.kind) + 1 /\ Pending(Top.kind) \in Nat
      <4>1. Top' = Top
        BY <2>2 DEF Top
      <4> QED BY <2>2, <4>1 DEF Pending, Step
    <3> QED BY <1>0, <1>c, <2>1, <2>2, <2>3, <3>1 DEF Running
  <2>4. CASE frames = <<>>
    <3>1. StackBalanced'
      BY <2>2, <2>4 DEF StackBalanced
    <3>2. OutsideBalanced'
      BY <1>0, <2>1, <2>2, <2>4 DEF Balanced, OutsideBalanced
    <3>3. DepthBounded'
      BY <2>2 DEF Balanced, DepthBounded
    <3> QED BY <3>1, <3>2, <3>3 DEF Balanced
  <2> QED BY <2>3, <2>4
<1>2. ASSUME NEW kind \in {"array", "object"}, OpenTable(kind) PROVE Balanced'
  <2> DEFINE f == [kind |-> kind, base |-> Len(stack) + 1, tab |-> Len(heap) + 1, index |-> 1]
  <2>1. f \in Frame /\ Table(Len(heap) + 1) \in Value
    BY <1>0 DEF Frame, Table, Value
  <2>2. Len(stack') = Len(stack) + 1
    BY <1>0, <1>2, <2>1, AppendProperties DEF OpenTable
  <2>3. /\ frames' \in Seq(Frame) /\ Len(frames') = Len(frames) + 1
        /\ \A i \in 1 .. Len(frames) : frames'[i] = frames[i]
        /\ frames'[Len(frames) + 1] = f /\ frames' # <<>>
    BY <1>0, <1>2, <2>1, AppendProperties DEF OpenTable
  <2>4. /\ pc = "value" /\ pc' = "opened" /\ stray' = stray /\ Len(frames) <= MaxDepth
    BY <1>2 DEF OpenTable
  <2>5. Top' = f
    BY <2>3 DEF Top
  <2>6. stray = 0 /\ frames # <<>> => Layout /\ Len(stack) + 1 = Top.base + Step(Top.kind)
    <3>1. stray = 0 /\ frames # <<>> => Layout
      BY <2>4 DEF Balanced, StackBalanced, Running, Layout
    <3>2. frames # <<>> => Top.base \in Nat /\ Pending(Top.kind) = Step(Top.kind) - 1 /\ Step(Top.kind) \in Nat
      BY <1>0, <2>4 DEF Pending, Step, Frame
    <3> QED BY <1>0, <3>1, <3>2 DEF Layout
  <2>7. stray = 0 /\ frames = <<>> => Len(stack) = 0
    BY <2>4 DEF Balanced, OutsideBalanced
  <2>8. stray = 0 => Layout'
    <3> SUFFICES ASSUME stray = 0 PROVE Layout'
      OBVIOUS
    <3>1. frames'[1].base = 1
      <4>1. CASE frames = <<>>
        BY <2>3, <2>7, <4>1
      <4>2. CASE frames # <<>>
        <5>1. 1 \in 1 .. Len(frames)
          BY <1>0, <4>2
        <5> QED BY <2>3, <2>6, <4>2, <5>1 DEF Layout
      <4> QED BY <4>1, <4>2
    <3>2. \A i \in 1 .. Len(frames') - 1 : frames'[i + 1].base = frames'[i].base + Step(frames'[i].kind)
      <4> SUFFICES ASSUME NEW i \in 1 .. Len(frames') - 1
                   PROVE  frames'[i + 1].base = frames'[i].base + Step(frames'[i].kind)
        OBVIOUS
      <4>i. i \in 1 .. Len(frames) /\ frames'[i] = frames[i]
        BY <1>0, <2>3
      <4>0. frames # <<>>
        BY <1>0, <4>i
      <4>1. CASE i = Len(frames)
        BY <2>3, <2>6, <4>0, <4>1, <4>i DEF Top
      <4>2. CASE i # Len(frames)
        <5>1. i \in 1 .. Len(frames) - 1 /\ i + 1 \in 1 .. Len(frames)
          BY <1>0, <4>2, <4>i
        <5> QED BY <2>3, <2>6, <4>0, <4>i, <5>1 DEF Layout
      <4> QED BY <4>1, <4>2
    <3>3. Len(stack') = Top'.base + Pending(Top.kind)'
      BY <1>0, <2>2, <2>4, <2>5 DEF Pending
    <3> QED BY <3>1, <3>2, <3>3 DEF Layout
  <2>9. StackBalanced'
    BY <2>4, <2>8 DEF StackBalanced, Layout
  <2>10. OutsideBalanced'
    BY <2>3 DEF OutsideBalanced
  <2>11. stray = 0 => Len(stack) + 1 <= 2 * (Len(frames) + 1) - 1
    <3>1. CASE frames = <<>>
      BY <1>0, <2>7, <3>1
    <3>2. CASE frames # <<>>
      <4>1. Top.base \in Nat /\ Step(Top.kind) \in {1, 2}
        BY <1>0, <3>2 DEF Frame, Step
      <4>2. stray = 0 => Top.base <= 2 * Len(frames) - 1
        BY <1>0, <3>2 DEF Balanced, DepthBounded, Top
      <4> QED BY <1>0, <2>6, <3>2, <4>1, <4>2
    <3> QED BY <3>1, <3>2
  <2>12. DepthBounded'
    <3>1. Len(frames') <= MaxDepth + 1
      BY <1>0, <1>01, <2>3, <2>4
    <3>2. ASSUME stray = 0, NEW i \in 1 .. Len(frames') PROVE frames'[i].base <= 2 * i - 1
      <4>1. CASE i \in 1 .. Len(frames)
        BY <2>3, <3>2, <4>1 DEF Balanced, DepthBounded
      <4>2. CASE i = Len(frames) + 1
        BY <2>3, <2>11, <3>2, <4>2
      <4> QED BY <1>0, <2>3, <4>1, <4>2
    <3> QED BY <2>4, <3>1, <3>2 DEF DepthBounded
  <2> QED BY <2>9, <2>10, <2>12 DEF Balanced
<1>3. CASE Opened
  <2>1. frames # <<>>
    BY <1>3 DEF Opened, Shape, InContainer
  <2>2. CASE Look = Closer(Top.kind)
    BY <1>3, <1>a, <2>1, <2>2 DEF Opened
  <2>3. CASE Look # Closer(Top.kind)
    <3>1. pc = "opened" /\ pc' = "item" /\ UNCHANGED <<frames, stack, stray>>
      BY <1>3, <2>3 DEF Opened
    <3>2. Pending(Top.kind) = 0 /\ Pending(Top.kind)' = 0
      BY <3>1 DEF Pending
    <3> QED BY <1>0, <1>c, <2>1, <3>1, <3>2 DEF Running
  <2> QED BY <2>2, <2>3
<1>4. CASE ArrayItem
  <2>1. frames # <<>>
    BY <1>4 DEF ArrayItem, Shape, InContainer
  <2>2. CASE Look = "eof"
    BY <1>4, <1>a, <2>1, <2>2 DEF ArrayItem
  <2>3. CASE Look # "eof"
    <3>1. pc = "item" /\ pc' = "value" /\ UNCHANGED <<frames, stack, stray>> /\ Top.kind = "array"
      BY <1>4, <2>3 DEF ArrayItem
    <3>2. Pending(Top.kind) = 0 /\ Pending(Top.kind)' = 0
      BY <3>1 DEF Pending, Step, Top
    <3> QED BY <1>0, <1>c, <2>1, <3>1, <3>2 DEF Running
  <2> QED BY <2>2, <2>3
<1>5. CASE ObjectKey
  <2>1. frames # <<>>
    BY <1>5 DEF ObjectKey, Shape, InContainer
  <2>2. CASE Look \in Quoted
    <3>1. pc = "item" /\ pc' = "colon" /\ UNCHANGED <<frames, stray>>
      BY <1>5, <2>2 DEF ObjectKey
    <3>2. Pending(Top.kind) = 0 /\ Pending(Top.kind)' = 1
      BY <3>1 DEF Pending
    <3>3. Len(stack') = Len(stack) + 1
      BY <1>0, <1>5, <2>2, ScalarType, AppendProperties DEF ObjectKey
    <3> QED BY <1>0, <1>c, <2>1, <3>1, <3>2, <3>3 DEF Running
  <2>3. CASE Look \notin Quoted
    BY <1>5, <1>a, <2>1, <2>3 DEF ObjectKey
  <2> QED BY <2>2, <2>3
<1>6. CASE ObjectColon
  <2>1. frames # <<>> /\ Top.kind = "object"
    BY <1>6 DEF ObjectColon, Shape, InContainer
  <2>2. CASE Look = ":"
    <3>1. pc = "colon" /\ pc' = "value" /\ UNCHANGED <<frames, stack, stray>>
      BY <1>6, <2>2 DEF ObjectColon
    <3>2. Pending(Top.kind) = 1 /\ Pending(Top.kind)' = 1
      BY <2>1, <3>1 DEF Pending, Step, Top
    <3> QED BY <1>0, <1>c, <2>1, <3>1, <3>2 DEF Running
  <2>3. CASE Look # ":"
    <3>1. frames' = Pop(frames, 1) /\ stray' = stray + 1 /\ pc' = "return"
      BY <1>6, <2>3 DEF ObjectColon
    <3>2. Len(frames') = Len(frames) - 1
      <4>1. 1 \in Nat /\ 1 <= Len(frames)
        BY <1>0, <2>1
      <4> QED BY <1>0, <3>1, <4>1, PopProperties
    <3>3. Len(frames) <= MaxDepth + 1
      BY DEF Balanced, DepthBounded
    <3> QED BY <1>0, <1>01, <1>b, <3>1, <3>2, <3>3
  <2> QED BY <2>2, <2>3
\* While no key is stray the slot a store addresses holds the caller's table.
<1>d. ASSUME pc = "return", frames # <<>>, stray = 0
      PROVE  /\ Len(stack) = Top.base + Step(Top.kind)
             /\ Top.base \in Nat \ {0}
             /\ stack[Top.base] = Table(Top.tab)
  <2>1. Len(stack) = Top.base + Step(Top.kind)
    BY <1>d DEF Balanced, StackBalanced, Running, Pending
  <2>2. stack[Top.base] = Table(Top.tab)
    BY <1>0, <1>d DEF Shape, TablesStayPut, Running, Top
  <2> QED BY <1>0, <1>d, <2>1, <2>2 DEF Frame
<1>7. CASE StoreElement
  <2>0. pc = "return" /\ frames # <<>> /\ Top.kind = "array" /\ stray' = stray
    BY <1>7 DEF StoreElement
  <2>1. CASE ~IsTable(Slot(2))
    <3>1. stray # 0
      <4> SUFFICES ASSUME stray = 0 PROVE FALSE
        OBVIOUS
      <4>1. Slot(2) = stack[Top.base]
        BY <1>0, <1>d, <2>0 DEF Slot, Step
      <4> QED BY <1>d, <2>0, <2>1, <4>1 DEF IsTable, Table
    <3>2. frames' = frames /\ pc' = "undefined"
      BY <1>7, <2>1 DEF StoreElement
    <3> QED BY <1>b, <2>0, <3>1, <3>2 DEF Balanced, DepthBounded
  <2>2. CASE IsTable(Slot(2))
    <3> DEFINE n == Len(frames)
               g == [Top EXCEPT !.index = @ + 1]
    <3>1. n \in 1 .. Len(frames) /\ g \in Frame /\ frames' = [frames EXCEPT ![n] = g]
      <4>0. frames # <<>> /\ Top \in Frame
        BY <1>0, <2>0
      <4>1. n \in 1 .. Len(frames)
        BY <1>0, <4>0
      <4>2. g \in Frame
        BY <4>0 DEF Frame
      <4>3. frames' = [frames EXCEPT ![n] = g]
        BY <1>7, <2>2 DEF StoreElement, Top
      <4> QED BY <4>1, <4>2, <4>3
    <3>2. /\ Len(frames') = Len(frames)
          /\ \A i \in 1 .. Len(frames) : frames'[i] = IF i = n THEN g ELSE frames[i]
      BY <1>0, <3>1, ExceptSeq
    <3>3. \A i \in 1 .. Len(frames) : /\ frames'[i].base = frames[i].base
                                      /\ frames'[i].kind = frames[i].kind
      <4>1. g.base = Top.base /\ g.kind = Top.kind
        BY <1>0, <2>0 DEF Frame
      <4> QED BY <3>2, <4>1 DEF Top
    <3>4. Len(stack') = Len(stack) - 1 /\ Len(stack') \in Nat
      <4>1. 1 \in Nat /\ 1 <= Len(stack)
        BY <1>0, <2>0 DEF Shape, TablesStayPut, Running, Pending, Step, Frame
      <4> QED BY <1>0, <1>7, <2>2, <4>1, PopProperties DEF StoreElement
    <3>5. pc' = "separator" /\ frames' # <<>>
      BY <1>0, <1>7, <2>0, <2>2, <3>2 DEF StoreElement
    <3>6. Pending(Top.kind) = 1 /\ Pending(Top.kind)' = 0
      BY <2>0, <3>5 DEF Pending, Step
    <3> QED BY <1>0, <1>c, <2>0, <3>2, <3>3, <3>4, <3>5, <3>6 DEF Running
  <2> QED BY <2>1, <2>2
<1>8. CASE StoreMember
  <2>0. pc = "return" /\ frames # <<>> /\ Top.kind = "object" /\ stray' = stray /\ frames' = frames
    BY <1>8 DEF StoreMember
  <2>1. CASE ~IsTable(Slot(3)) \/ Slot(2) = Nil
    <3>1. pc' = "error" /\ stack' = stack
      BY <1>8, <2>1 DEF StoreMember
    <3>2. stray = 0 => IsTable(Slot(3))
      <4> SUFFICES ASSUME stray = 0 PROVE IsTable(Slot(3))
        OBVIOUS
      <4>1. Slot(3) = stack[Top.base]
        BY <1>0, <1>d, <2>0 DEF Slot, Step
      <4> QED BY <1>d, <2>0, <4>1 DEF IsTable, Table
    <3>3. StackBalanced'
      BY <2>0, <2>1, <3>1, <3>2 DEF StackBalanced, Running, Slot
    <3>4. OutsideBalanced'
      BY <2>0 DEF OutsideBalanced
    <3>5. DepthBounded'
      BY <2>0 DEF Balanced, DepthBounded
    <3> QED BY <3>3, <3>4, <3>5 DEF Balanced
  <2>2. CASE IsTable(Slot(3)) /\ Slot(2) # Nil
    <3>1. Len(stack') = Len(stack) - 2 /\ Len(stack') \in Nat
      <4>1. 2 \in Nat /\ 2 <= Len(stack)
        BY <1>0, <2>0 DEF Shape, TablesStayPut, Running, Pending, Step, Frame
      <4> QED BY <1>0, <1>8, <2>2, <4>1, PopProperties DEF StoreMember
    <3>2. pc' = "separator"
      BY <1>8, <2>2 DEF StoreMember
    <3>3. Pending(Top.kind) = 2 /\ Pending(Top.kind)' = 0
      BY <2>0, <3>2 DEF Pending, Step
    <3> QED BY <1>0, <1>c, <2>0, <3>1, <3>2, <3>3 DEF Running
  <2> QED BY <2>1, <2>2
<1>9. CASE Separator
  <2>1. frames # <<>>
    BY <1>9 DEF Separator, Shape, InContainer
  <2>2. CASE Look # ","
    BY <1>9, <1>a, <2>1, <2>2 DEF Separator
  <2>3. CASE Look = ","
    <3>1. pc = "separator" /\ pc' = "item" /\ UNCHANGED <<frames, stack, stray>>
      BY <1>9, <2>3 DEF Separator
    <3>2. Pending(Top.kind) = 0 /\ Pending(Top.kind)' = 0
      BY <3>1 DEF Pending
    <3> QED BY <1>0, <1>c, <2>1, <3>1, <3>2 DEF Running
  <2> QED BY <2>2, <2>3
<1>10. CASE Return
  <2>1. pc = "return" /\ frames = <<>> /\ pc' = "done" /\ UNCHANGED <<frames, stack, stray>>
    BY <1>10 DEF Return
  <2>2. StackBalanced'
    BY <2>1 DEF Balanced, OutsideBalanced, StackBalanced, Running
  <2>3. OutsideBalanced'
    BY <2>1 DEF OutsideBalanced
  <2>4. DepthBounded'
    BY <2>1 DEF Balanced, DepthBounded
  <2> QED BY <2>2, <2>3, <2>4 DEF Balanced
<1>11. CASE UNCHANGED vars
  BY <1>11 DEF vars, Balanced, StackBalanced, OutsideBalanced, DepthBounded, Top, Pending, Slot
<1>12. CASE Overrun
  <2>1. pc' = "undefined" /\ Len(stack') >= MinStack /\ UNCHANGED <<frames, stack, stray>>
    BY <1>12 DEF Overrun
  <2>2. StackBalanced'
    BY <2>1 DEF StackBalanced, Running
  <2>3. OutsideBalanced' /\ DepthBounded'
    BY <2>1 DEF Balanced, OutsideBalanced, DepthBounded
  <2> QED BY <2>2, <2>3 DEF Balanced
<1> QED
  BY <1>1, <1>2, <1>3, <1>4, <1>5, <1>6, <1>7, <1>8, <1>9, <1>10, <1>11, <1>12 DEF Next

\* So the balance holds in every state.
LEMMA BalancedInvariant == Spec => []Balanced
<1>1. Init => Balanced
  BY DepthAssumption DEF Init, Balanced, StackBalanced, OutsideBalanced, DepthBounded, Running
<1> QED
  BY <1>1, BalancedStep, ShapeInvariant, PTL DEF Spec

\* As long as every key the parser reads is followed by its colon, the stack
\* holds exactly the open tables and their pending keys, parse_json returns
\* with one value, only a key that is no valid string raises an error, and only a
\* push beyond the slots of a C function is undefined.
THEOREM StackBalancedAlways == Spec => []StackBalanced
  BY BalancedInvariant, PTL DEF Balanced

\* The layout of the stack bounds its height.
LEMMA LayoutBound == Shape /\ Balanced /\ pc \notin {"error", "undefined"} => SlotDemand
<1> SUFFICES ASSUME Shape, Balanced, pc \notin {"error", "undefined"}, stray = 0
             PROVE  Len(stack) <= 2 * (MaxDepth + 1) + 1
  BY DEF SlotDemand
<1>0. /\ Len(stack) \in Nat /\ Len(frames) \in Nat /\ MaxDepth \in Nat
      /\ frames # <<>> => Len(frames) \in Nat \ {0} /\ Top \in Frame
  BY DepthAssumption DEF Shape, TypeOK, Top
<1>00. 0 <= 2 * (MaxDepth + 1) + 1 /\ 1 <= 2 * (MaxDepth + 1) + 1
  <2>1. \A m \in Nat : 0 <= 2 * (m + 1) + 1 /\ 1 <= 2 * (m + 1) + 1
    OBVIOUS
  <2> QED BY <1>0, <2>1
<1>1. CASE pc \in Running /\ frames # <<>>
  <2>1. Len(stack) = Top.base + Pending(Top.kind)
    BY <1>1 DEF Balanced, StackBalanced
  <2>2. Pending(Top.kind) \in 0 .. 2 /\ Top.base \in Nat
    BY <1>0, <1>1 DEF Pending, Step, Frame
  <2>3. Top.base <= 2 * Len(frames) - 1 /\ Len(frames) <= MaxDepth + 1
    BY <1>0, <1>1 DEF Balanced, DepthBounded, Top
  <2>4. \A b, p, n, m \in Nat : p <= 2 /\ b <= 2 * n - 1 /\ n <= m + 1 => b + p <= 2 * (m + 1) + 1
    OBVIOUS
  <2>5. Pending(Top.kind) \in Nat /\ Pending(Top.kind) <= 2
    BY <2>2
  <2>6. Top.base + Pending(Top.kind) <= 2 * (MaxDepth + 1) + 1
    BY <1>0, <2>2, <2>3, <2>4, <2>5
  <2> QED BY <2>1, <2>6
<1>2. CASE pc \in Running /\ frames = <<>>
  <2>1. pc = "value" \/ pc = "return"
    BY <1>2 DEF Shape, InContainer, Running
  <2>2. Len(stack) = 0 \/ Len(stack) = 1
    BY <1>2, <2>1 DEF Balanced, OutsideBalanced
  <2> QED BY <1>00, <2>2
<1>3. CASE pc = "done"
  <2>1. Len(stack) = 1
    BY <1>3 DEF Balanced, StackBalanced
  <2> QED BY <1>00, <2>1
<1> QED
  BY <1>1, <1>2, <1>3 DEF Shape, TypeOK, Final

\* MAX_JSON_DEPTH bounds the slots parse_json needs on the Lua stack, key and
\* table for every level and one value, as long as no key is stray.
THEOREM SlotDemandAlways == Spec => []SlotDemand
<1>0. (Shape /\ Balanced /\ pc \notin {"error", "undefined"} => SlotDemand)'
  BY LayoutBound, PTL
<1>1. Init => SlotDemand
  BY DepthAssumption DEF Init, SlotDemand
<1>2. ASSUME Shape, Balanced, SlotDemand, [Next]_vars PROVE SlotDemand'
  <2>1. Shape' /\ Balanced'
    BY <1>2, ShapeStep, BalancedStep
  <2>2. CASE pc' \notin {"error", "undefined"}
    BY <1>0, <2>1, <2>2
  <2>3. CASE pc' \in {"error", "undefined"}
    <3>1. stack' = stack /\ stray' = stray
      BY <1>2, <2>3 DEF Next, vars, ParseScalar, OpenTable, Opened, ArrayItem, ObjectKey,
                        ObjectColon, StoreElement, StoreMember, Separator, Overrun, Return
    <3> QED BY <1>2, <3>1 DEF SlotDemand
  <2> QED BY <2>2, <2>3
<1> QED
  BY <1>1, <1>2, ShapeInvariant, BalancedInvariant, PTL DEF Spec

-----------------------------------------------------------------------------
(* The steps parse_json takes.                                             *)

\* How far the innermost call is from its next move on the text or its return.
Rank ==
    IF pc = "opened" THEN 5 ELSE IF pc = "item" THEN 4 ELSE IF pc = "value" THEN 3
    ELSE IF pc = "return" THEN 2 ELSE IF pc \in {"colon", "separator"} THEN 1 ELSE 0

\* No more steps than this are left: what is unread, the calls that must still
\* return, and where the innermost one is.
StepsLeft == 5 * (Len(text) + 1 - pos) + 2 * Len(frames) + Rank

\* The pointer json never goes past the terminating NUL.
InText == pos <= Len(text) + 1

\* What is consumed is not the end of the text.
LEMMA NotTheEnd == /\ "eof" \notin Consumed /\ "eof" \notin Quoted
                   /\ \A k : Closer(k) # "eof" /\ Opener(k) # "eof"
<1>1. "eof" \notin Consumed
  BY LexemeAssumption DEF Consumed, Quoted, Literal
<1>2. \A k : Closer(k) # "eof" /\ Opener(k) # "eof"
  BY Zenon DEF Closer, Opener
<1> QED
  BY <1>1, <1>2, Zenon DEF Consumed

\* Before the end the pointer is at a lexeme.
LEMMA MoreText ==
    ASSUME Shape, InText, Look # "eof"
    PROVE  pos <= Len(text)
<1>1. pos \in Nat /\ text \in Seq(Lexeme)
  BY TextsAssumption DEF Shape, TypeOK
<1>2. Len(text) \in Nat
  BY <1>1
<1> HIDE DEF Lexeme
<1> QED
  BY <1>1, <1>2 DEF Look

\* The weights: a lexeme outweighs what may be opened for it, a call its return.
LEMMA Weights ==
    ASSUME NEW n \in Nat, NEW p \in Nat, NEW q \in Nat, p <= n + 1, q <= n + 1,
           NEW f \in Nat, NEW g \in Nat, NEW r \in 0 .. 5, NEW s \in 0 .. 5,
           \/ q = p /\ g = f /\ s < r
           \/ q = p /\ g + 1 = f /\ s <= r + 1
           \/ q = p + 1 /\ (g = f \/ g + 1 = f) /\ s < 5
           \/ q = p + 1 /\ g = f + 1 /\ s <= r + 2
    PROVE  /\ 5 * (n + 1 - p) + 2 * f + r \in Nat /\ 5 * (n + 1 - q) + 2 * g + s \in Nat
           /\ 5 * (n + 1 - q) + 2 * g + s < 5 * (n + 1 - p) + 2 * f + r
<1> PICK a \in Nat, b \in Nat : a = n + 1 - p /\ b = n + 1 - q
  OBVIOUS
<1>1. (q = p => b = a) /\ (q = p + 1 => b + 1 = a)
  OBVIOUS
<1>2. 5 * b + 2 * g + s < 5 * a + 2 * f + r
  <2>1. CASE b = a /\ g = f /\ s < r
    BY <2>1
  <2>2. CASE b = a /\ g + 1 = f /\ s <= r + 1
    BY <2>2
  <2>3. CASE b + 1 = a /\ (g = f \/ g + 1 = f) /\ s < 5
    BY <2>3
  <2>4. CASE b + 1 = a /\ g = f + 1 /\ s <= r + 2
    BY <2>4
  <2> QED
    BY <1>1, <2>1, <2>2, <2>3, <2>4
<1>3. 5 * a + 2 * f + r \in Nat /\ 5 * b + 2 * g + s \in Nat
  OBVIOUS
<1>4. n + 1 - p = a /\ n + 1 - q = b
  OBVIOUS
<1> QED
  BY <1>2, <1>3, <1>4, Zenon

\* Every step leaves fewer, and keeps the pointer within the text.
LEMMA StepsLeftStep ==
    ASSUME Shape, InText, Next
    PROVE  InText' /\ StepsLeft \in Nat /\ StepsLeft' \in Nat /\ StepsLeft' < StepsLeft
<1> DEFINE n == Len(text)
           f == Len(frames)
<1>1. n \in Nat /\ f \in Nat /\ pos \in Nat /\ pos <= n + 1
  <2>1. text \in Seq(Lexeme) /\ frames \in Seq(Frame)
    BY TextsAssumption DEF Shape, TypeOK
  <2> QED
    BY <2>1 DEF Shape, TypeOK, InText
<1>2. n' = n
  BY DEF Next, ParseScalar, OpenTable, Opened, ArrayItem, ObjectKey, ObjectColon, StoreElement,
         StoreMember, Separator, Overrun, Return
<1>3. StepsLeft = 5 * (n + 1 - pos) + 2 * f + Rank /\ StepsLeft' = 5 * (n + 1 - pos') + 2 * f' + Rank'
  BY <1>2 DEF StepsLeft
<1>4. Rank \in 0 .. 5 /\ Rank' \in 0 .. 5
  BY DEF Rank
<1>5. ASSUME frames # <<>>, frames' = Pop(frames, 1) PROVE f' = f - 1 /\ f' \in Nat
  <2>1. frames \in Seq(Frame) /\ 1 \in Nat /\ 1 <= f
    BY <1>5 DEF Shape, TypeOK
  <2> QED
    BY <1>1, <1>5, <2>1, PopProperties
<1>6. frames' = frames => f' = f
  OBVIOUS
<1>7. /\ pos # pos + 1 /\ (Look # "eof" => pos <= n)
      /\ pc' # "opened" => Rank' < 5
  BY <1>1, MoreText DEF Rank
\* What a step does to the three parts.
<1> DEFINE Stays    == pos' = pos /\ f' = f /\ Rank' < Rank
           Leaves   == pos' = pos /\ f' = f - 1 /\ f' \in Nat /\ Rank' <= Rank + 1
           Consumes == pos' = pos + 1 /\ pos <= n /\ f' = f /\ Rank' < 5
           Closes   == pos' = pos + 1 /\ pos <= n /\ f' = f - 1 /\ f' \in Nat /\ Rank' < 5
           Enters   == pos' = pos + 1 /\ pos <= n /\ f' = f + 1 /\ Rank' <= Rank + 2
<1>8. Stays \/ Leaves \/ Consumes \/ Closes \/ Enters
  <2>1. CASE ParseScalar
    <3>1. /\ pos' = pos \/ (pos' = pos + 1 /\ Look # "eof")
          /\ frames' = frames /\ pc = "value" /\ pc' = "return"
      BY <2>1, NotTheEnd, Zenon DEF ParseScalar
    <3>2. Rank = 3 /\ Rank' = 2
      BY <3>1 DEF Rank
    <3> QED
      BY <1>6, <1>7, <3>1, <3>2
  <2>2. ASSUME NEW kind \in {"array", "object"}, OpenTable(kind) PROVE Enters
    <3>1. /\ pos' = pos + 1 /\ Look # "eof" /\ pc = "value" /\ pc' = "opened"
          /\ \E x : frames' = Append(frames, x)
      BY <2>2, NotTheEnd, Zenon DEF OpenTable
    <3>2. Rank = 3 /\ Rank' = 5
      BY <3>1 DEF Rank
    <3>3. frames \in Seq(Frame)
      BY DEF Shape, TypeOK
    <3>4. f' = f + 1
      BY <3>1, <3>3
    <3> QED
      BY <1>7, <3>1, <3>2, <3>4
  <2>3. CASE Opened
    <3>1. /\ pc = "opened" /\ frames # <<>>
          /\ \/ pos' = pos + 1 /\ Look # "eof" /\ frames' = Pop(frames, 1) /\ pc' # "opened"
             \/ pos' = pos /\ frames' = frames /\ pc' = "item"
      BY <2>3, NotTheEnd, Zenon DEF Opened, Shape, InContainer
    <3>2. Rank = 5 /\ (pc' = "item" => Rank' = 4)
      BY <3>1 DEF Rank
    <3> QED
      BY <1>5, <1>6, <1>7, <3>1, <3>2
  <2>4. CASE ArrayItem
    <3>1. /\ pc = "item" /\ frames # <<>> /\ pos' = pos
          /\ \/ frames' = Pop(frames, 1) /\ pc' = "return"
             \/ frames' = frames /\ pc' = "value"
      BY <2>4, Zenon DEF ArrayItem, Shape, InContainer
    <3>2. Rank = 4 /\ (pc' = "return" => Rank' = 2) /\ (pc' = "value" => Rank' = 3)
      BY <3>1 DEF Rank
    <3> QED
      BY <1>5, <1>6, <3>1, <3>2
  <2>5. CASE ObjectKey
    <3>1. /\ pc = "item" /\ frames # <<>>
          /\ \/ pos' = pos + 1 /\ Look # "eof" /\ frames' = frames /\ pc' # "opened"
             \/ pos' = pos /\ frames' = Pop(frames, 1) /\ pc' = "return"
      BY <2>5, NotTheEnd, Zenon DEF ObjectKey, Shape, InContainer
    <3>2. Rank = 4 /\ (pc' = "return" => Rank' = 2)
      BY <3>1 DEF Rank
    <3> QED
      BY <1>5, <1>6, <1>7, <3>1, <3>2
  <2>6. CASE ObjectColon
    <3>1. /\ pc = "colon" /\ frames # <<>>
          /\ \/ pos' = pos + 1 /\ Look # "eof" /\ frames' = frames /\ pc' # "opened"
             \/ pos' = pos /\ frames' = Pop(frames, 1) /\ pc' = "return"
      BY <2>6, Zenon DEF ObjectColon, Shape, InContainer
    <3>2. Rank = 1 /\ (pc' = "return" => Rank' = 2)
      BY <3>1 DEF Rank
    <3> QED
      BY <1>5, <1>6, <1>7, <3>1, <3>2
  <2>7. CASE StoreElement
    <3>1. /\ pc = "return" /\ pc' \in {"separator", "undefined"} /\ pos' = pos
          /\ frames' = frames \/ \E x : frames' = [frames EXCEPT ![Len(frames)].index = x]
      BY <2>7, Zenon DEF StoreElement
    <3>2. Rank = 2 /\ Rank' \in {0, 1}
      BY <3>1 DEF Rank
    <3>3. frames \in Seq(Frame)
      BY DEF Shape, TypeOK
    <3>4. f' = f
      BY <3>1, <3>3
    <3> QED
      BY <3>1, <3>2, <3>4
  <2>8. CASE StoreMember
    <3>1. pc = "return" /\ pc' \in {"separator", "error"} /\ pos' = pos /\ frames' = frames
      BY <2>8, Zenon DEF StoreMember
    <3>2. Rank = 2 /\ Rank' \in {0, 1}
      BY <3>1 DEF Rank
    <3> QED
      BY <1>6, <3>1, <3>2
  <2>9. CASE Separator
    <3>1. /\ pc = "separator" /\ frames # <<>>
          /\ \/ pos' = pos + 1 /\ Look # "eof" /\ frames' = frames /\ pc' # "opened"
             \/ /\ frames' = Pop(frames, 1) /\ pc' = "return"
                /\ pos' = pos \/ (pos' = pos + 1 /\ Look # "eof")
      BY <2>9, NotTheEnd, Zenon DEF Separator, Shape, InContainer
    <3>2. Rank = 1 /\ (pc' = "return" => Rank' = 2)
      BY <3>1 DEF Rank
    <3> QED
      BY <1>5, <1>6, <1>7, <3>1, <3>2
  <2>10. CASE Return
    <3>1. pc = "return" /\ pc' = "done" /\ pos' = pos /\ frames' = frames
      BY <2>10, Zenon DEF Return
    <3>2. Rank = 2 /\ Rank' = 0
      BY <3>1 DEF Rank
    <3> QED
      BY <1>6, <3>1, <3>2
  <2>11. CASE Overrun
    <3>1. pc \in {"value", "item"} /\ pc' = "undefined" /\ pos' = pos /\ frames' = frames
      BY <2>11 DEF Overrun, Pushes
    <3>2. Rank \in {3, 4} /\ Rank' = 0
      BY <3>1 DEF Rank
    <3> QED
      BY <1>6, <3>1, <3>2
  <2> HIDE DEF Stays, Leaves, Consumes, Closes, Enters
  <2> QED
    BY <2>1, <2>2, <2>3, <2>4, <2>5, <2>6, <2>7, <2>8, <2>9, <2>10, <2>11 DEF Next
<1> HIDE DEF n, f
<1>9. pos' <= n + 1 /\ f' \in Nat /\ pos' \in Nat
  BY <1>1, <1>8
<1>10. /\ 5 * (n + 1 - pos) + 2 * f + Rank \in Nat /\ 5 * (n + 1 - pos') + 2 * f' + Rank' \in Nat
       /\ 5 * (n + 1 - pos') + 2 * f' + Rank' < 5 * (n + 1 - pos) + 2 * f + Rank
  <2>1. PICK p, q, g, r, s : p = pos /\ q = pos' /\ g = f' /\ r = Rank /\ s = Rank'
    OBVIOUS
  <2>2. /\ p \in Nat /\ q \in Nat /\ p <= n + 1 /\ q <= n + 1 /\ g \in Nat
        /\ r \in 0 .. 5 /\ s \in 0 .. 5
    BY <1>1, <1>4, <1>9, <2>1
  <2>3. \/ q = p /\ g = f /\ s < r
        \/ q = p /\ g + 1 = f /\ s <= r + 1
        \/ q = p + 1 /\ (g = f \/ g + 1 = f) /\ s < 5
        \/ q = p + 1 /\ g = f + 1 /\ s <= r + 2
    BY <1>1, <1>8, <2>1
  <2> QED
    BY <1>1, <2>1, <2>2, <2>3, Weights
<1>11. InText'
  BY <1>2, <1>9 DEF InText, n
<1> QED
  BY <1>3, <1>10, <1>11

\* Every text, however malformed or deeply nested, is read in at most five steps per
\* lexeme and three more: no branch of parse_json goes back or stays where it is.
THEOREM ReadsInLinearTime ==
    Spec => StepsLeft = 5 * Len(text) + 3 /\ [](StepsLeft \in Nat) /\ [][StepsLeft' < StepsLeft]_vars
<1>1. Init => InText /\ StepsLeft = 5 * Len(text) + 3 /\ StepsLeft \in Nat
  <2> SUFFICES ASSUME Init PROVE InText /\ StepsLeft = 5 * Len(text) + 3 /\ StepsLeft \in Nat
    OBVIOUS
  <2>1. Len(text) \in Nat /\ pos = 1 /\ Len(frames) = 0 /\ Rank = 3
    BY TextsAssumption DEF Init, Rank
  <2> QED
    BY <2>1 DEF InText, StepsLeft
<1>2. Shape /\ InText /\ StepsLeft \in Nat /\ [Next]_vars =>
          InText' /\ (StepsLeft \in Nat)' /\ [StepsLeft' < StepsLeft]_vars
  <2>1. CASE UNCHANGED vars
    BY <2>1 DEF vars, InText, StepsLeft, Rank
  <2> QED
    BY <2>1, StepsLeftStep
<1> QED
  BY <1>1, <1>2, ShapeInvariant, PTL DEF Spec

-----------------------------------------------------------------------------
(* Facts about layouts.                                                    *)

\* The types of what a layout says, and which texts it is of.
LEMMA LayoutTypes ==
    ASSUME NEW t, NEW l, IsLayout(t, l)
    PROVE  /\ DOMAIN l = 1 .. Len(l) /\ Len(l) \in Nat
           /\ \A k \in DOMAIN l :
                 /\ l[k].open \in Nat \ {0} /\ l[k].close \in Nat \ {0} /\ l[k].depth \in Nat
                 /\ Len(l[k].values) \in Nat
                 /\ \A j \in 1 .. Len(l[k].values) : l[k].values[j] \in Nat \ {0}
                 /\ Opens(t, l[k].open) /\ l[k].depth <= MaxDepth + 1
                 /\ KindOf(t, l, k) \in {"array", "object"}
<1> DEFINE R == [open : Nat \ {0}, close : Nat \ {0}, values : Seq(Nat \ {0}), depth : Nat]
<1>1. l \in Seq(R)
  <2>1. l \in Layouts
    BY DEF IsLayout
  <2> QED
    BY <2>1 DEF Layouts
<1>a. DOMAIN l = 1 .. Len(l) /\ Len(l) \in Nat
  <2> HIDE DEF R
  <2> QED
    BY <1>1
<1>2. ASSUME NEW k \in DOMAIN l PROVE l[k] \in R
  <2> HIDE DEF R
  <2> QED
    BY <1>1, <1>a
<1>3. ASSUME NEW k \in DOMAIN l
      PROVE  /\ l[k].open \in Nat \ {0} /\ l[k].close \in Nat \ {0} /\ l[k].depth \in Nat
             /\ l[k].values \in Seq(Nat \ {0})
  BY <1>2
<1>4. \A k \in DOMAIN l : Opens(t, l[k].open) /\ l[k].depth <= MaxDepth + 1
  BY DEF IsLayout
<1>5. \A k \in DOMAIN l : KindOf(t, l, k) \in {"array", "object"}
  BY DEF KindOf
<1>6. \A k \in DOMAIN l : /\ Len(l[k].values) \in Nat
                            /\ \A j \in 1 .. Len(l[k].values) : l[k].values[j] \in Nat \ {0}
  BY <1>3
<1> QED
  BY <1>a, <1>3, <1>4, <1>5, <1>6

\* No two containers open at the same place.
LEMMA OpenedIs ==
    ASSUME NEW t, NEW l, IsLayout(t, l), NEW k \in DOMAIN l
    PROVE  OpenedAt(l, l[k].open) = k
<1>1. \A i \in DOMAIN l : l[i].open = l[k].open => i = k
  <2> SUFFICES ASSUME NEW i \in DOMAIN l, l[i].open = l[k].open, i # k PROVE FALSE
    OBVIOUS
  <2>1. i \in Nat /\ k \in Nat /\ l[i].open \in Nat /\ l[k].open \in Nat
    BY LayoutTypes
  <2>2. i < k \/ k < i
    BY <2>1
  <2>3. l[i].open < l[k].open \/ l[k].open < l[i].open
    BY <2>2 DEF IsLayout
  <2> QED
    BY <2>1, <2>3
<1> QED
  BY <1>1 DEF OpenedAt

\* A value is a scalar, which the parser moves past, or a container.
LEMMA ValueIs ==
    ASSUME NEW t, NEW l, IsLayout(t, l), NEW p, NEW d, IsValue(t, l, p, d)
    PROVE  \/ /\ ~Opens(t, p) /\ At(t, p) \in Consumed /\ At(t, p) # "eof"
              /\ Behind(t, l, p) = p + 1 /\ ValueAt(t, l, p) = Scalar(At(t, p))
           \/ /\ Opens(t, p) 
              /\ \E k \in DOMAIN l : /\ l[k].open = p /\ l[k].depth = d
                                     /\ Behind(t, l, p) = l[k].close + 1 /\ ValueAt(t, l, p) = Table(k)
<1>1. CASE At(t, p) \in Str \cup Num \cup Literal
  <2>1. /\ At(t, p) \in Consumed
        /\ At(t, p) \notin {"[", "{"} /\ At(t, p) # "eof"
    BY <1>1, LexemeAssumption DEF Consumed, Quoted, Literal, Punct
  <2> QED
    BY <2>1 DEF Opens, Behind, ValueAt
<1>2. CASE Opens(t, p) /\ \E k \in DOMAIN l : l[k].open = p /\ l[k].depth = d
  <2>1. PICK k \in DOMAIN l : l[k].open = p /\ l[k].depth = d
    BY <1>2
  <2>2. OpenedAt(l, p) = k
    BY <2>1, OpenedIs
  <2> QED
    BY <1>2, <2>1, <2>2 DEF Behind, ValueAt
<1> QED
  BY <1>1, <1>2 DEF IsValue

\* Member j of container k: what stands before it and in front of its value.
Member(t, l, k, j) ==
    /\ l[k].values[j] = Before(t, l, k, j) + Lead(t, l, k)
    /\ IsValue(t, l, l[k].values[j], l[k].depth + 1)
    /\ j > 1 => At(t, Before(t, l, k, j)) = ","
    /\ KindOf(t, l, k) = "object" => /\ At(t, l[k].values[j] - 2) \in Str
                                     /\ At(t, l[k].values[j] - 1) = ":"

\* What stands at and around a member of a container.
LEMMA MemberIs ==
    ASSUME NEW t, NEW l, IsLayout(t, l), NEW k \in DOMAIN l, NEW j \in 1 .. Len(l[k].values)
    PROVE  Member(t, l, k, j)
BY DEF IsLayout, Member

\* Where a container ends.
LEMMA ClosesAt ==
    ASSUME NEW t, NEW l, IsLayout(t, l), NEW k \in DOMAIN l
    PROVE  /\ At(t, l[k].close) = Closer(KindOf(t, l, k))
           /\ Len(l[k].values) = 0 => l[k].close = l[k].open + 1
           /\ Len(l[k].values) > 0 => l[k].close = Before(t, l, k, Len(l[k].values) + 1)
<1> DEFINE n == Len(l[k].values)
<1>1. n \in Nat
  BY LayoutTypes
<1>2. /\ At(t, l[k].close) = Closer(KindOf(t, l, k))
      /\ l[k].close = IF n = 0 THEN l[k].open + 1 ELSE Behind(t, l, l[k].values[n])
  BY DEF IsLayout
<1>3. ASSUME n > 0 PROVE Before(t, l, k, n + 1) = Behind(t, l, l[k].values[n])
  <2>1. n + 1 # 1 /\ (n + 1) - 1 = n
    BY <1>1, <1>3
  <2> QED
    BY <2>1 DEF Before
<1> QED
  BY <1>1, <1>2, <1>3

\* Storing one more member.
LEMMA EntriesStep ==
    ASSUME NEW t, NEW l, IsLayout(t, l), NEW k \in DOMAIN l, NEW j \in 1 .. Len(l[k].values)
    PROVE  EntriesUpto(t, l, k, j) =
               Assign(EntriesUpto(t, l, k, j - 1), KeyOf(t, l, k, j), ValueAt(t, l, l[k].values[j]))
<1> DEFINE K(i) == KeyOf(t, l, k, i)
           V(i) == ValueAt(t, l, l[k].values[i])
           Left(n) == {i \in 1 .. n : V(i) # Nil /\ \A m \in i + 1 .. n : K(m) # K(i)}
<1>0. j \in Nat \ {0} /\ j - 1 \in Nat
  BY LayoutTypes
<1>1. \A n : EntriesUpto(t, l, k, n) = {<<K(i), V(i)>> : i \in Left(n)}
  BY DEF EntriesUpto
<1>2. Left(j) = {i \in Left(j - 1) : K(i) # K(j)} \cup (IF V(j) = Nil THEN {} ELSE {j})
  <2> HIDE DEF K, V
  <2>1. \A i \in 1 .. j - 1 : i + 1 .. j = (i + 1 .. j - 1) \cup {j}
    BY <1>0
  <2>2. j + 1 .. j = {} /\ 1 .. j = (1 .. j - 1) \cup {j} /\ j \notin 1 .. j - 1
    BY <1>0
  <2>3. \A i \in 1 .. j - 1 : i \in Left(j) <=> i \in Left(j - 1) /\ K(i) # K(j)
    BY <2>1, <2>2
  <2>4. j \in Left(j) <=> V(j) # Nil
    BY <2>2
  <2>5. Left(j) \subseteq 1 .. j /\ Left(j - 1) \subseteq 1 .. j - 1
    OBVIOUS
  <2> HIDE DEF Left
  <2> QED
    BY <2>2, <2>3, <2>4, <2>5
<1> HIDE DEF K, V, Left
<1>3. {e \in {<<K(i), V(i)>> : i \in Left(j - 1)} : e[1] # K(j)}
         = {<<K(i), V(i)>> : i \in {i \in Left(j - 1) : K(i) # K(j)}}
  OBVIOUS
<1>4. {<<K(i), V(i)>> : i \in Left(j)} = Assign({<<K(i), V(i)>> : i \in Left(j - 1)}, K(j), V(j))
  BY <1>2, <1>3 DEF Assign
<1> QED
  BY <1>1, <1>4 DEF K, V

\* Nothing else is under way at the beginning of a container.
LEMMA NoEntries == \A t, l, k : EntriesUpto(t, l, k, 0) = {}
BY DEF EntriesUpto

-----------------------------------------------------------------------------
(* How far the parser has read a document.                                 *)

\* The key of the member that frame i is at is above its table.
Keyed(t, l, of, i) ==
    frames[i].kind = "object" => stack[frames[i].base + 1] = KeyOf(t, l, frames[i].tab, of[i])

\* A container in progress, k, holds the members before the one it is at; its
\* caller waits for it as a member.
FrameReads(t, l, of, i, k) ==
    /\ frames[i].tab = k /\ k \in 1 .. Len(heap)
    /\ frames[i].kind = KindOf(t, l, k) /\ l[k].depth = i
    /\ of[i] <= Len(l[k].values) + 1
    /\ heap[k] = EntriesUpto(t, l, k, of[i] - 1)
    /\ frames[i].kind = "array" => frames[i].index = of[i]
    /\ i < Len(frames) => /\ of[i] <= Len(l[k].values) /\ Keyed(t, l, of, i)
                          /\ l[k].values[of[i]] = l[frames[i + 1].tab].open

\* Where the innermost call is: before, at or behind member j of container k.
Inside(t, l, k, j) ==
    /\ pc = "opened" => j = 1 /\ pos = l[k].open + 1
    /\ pc = "separator" => j > 1 /\ pos = Before(t, l, k, j)
    /\ pc \in {"item", "colon", "value", "return"} => j <= Len(l[k].values)
    /\ pc = "item" => pos = Before(t, l, k, j) + 1
    /\ pc = "colon" => pos = l[k].values[j] - 1
    /\ pc = "value" => pos = l[k].values[j]
    /\ pc = "return" => /\ pos = Behind(t, l, l[k].values[j])
                        /\ stack[Len(stack)] = ValueAt(t, l, l[k].values[j])

\* The outermost value, before or behind it.
Outside(t, l) ==
    /\ pc = "value" => pos = 1
    /\ pc # "value" => pos = Behind(t, l, 1) /\ stack = <<ValueAt(t, l, 1)>>

\* The tables created are the containers opened, in order, and those that are
\* no longer in progress are complete.
TablesRead(t, l) ==
    /\ \A k \in DOMAIN l : k <= Len(heap) <=> l[k].open < pos
    /\ \A k \in 1 .. Len(heap) :
          /\ k \in DOMAIN l
          /\ \/ \E i \in 1 .. Len(frames) : frames[i].tab = k
             \/ heap[k] = EntriesUpto(t, l, k, Len(l[k].values))

\* The calls in progress; at counts the members each has come to.
CallsRead(t, l, of) ==
    /\ of \in [1 .. Len(frames) -> Nat \ {0}]
    /\ \A i, j \in 1 .. Len(frames) : i < j => frames[i].tab < frames[j].tab
    /\ \A i \in 1 .. Len(frames) : FrameReads(t, l, of, i, frames[i].tab)
    /\ frames = <<>> => Outside(t, l)
    /\ frames # <<>> =>
          /\ l[frames[1].tab].open = 1 /\ Inside(t, l, Top.tab, of[Len(frames)])
          /\ pc \in {"colon", "value", "return"} => Keyed(t, l, of, Len(frames))

ReadsAt(t, l, of) == TablesRead(t, l) /\ CallsRead(t, l, of)

Reads(t, l) == \E of : ReadsAt(t, l, of)

\* The parser has read part of the document, and nothing has gone wrong.
Here(t, l, of) ==
    /\ IsLayout(t, l) /\ text = t /\ stray = 0 /\ pc \in Running
    /\ Shape /\ Balanced /\ ReadsAt(t, l, of)

-----------------------------------------------------------------------------
\* What is known of the innermost call.
LEMMA Innermost ==
    ASSUME NEW t, NEW l, NEW of, Here(t, l, of), frames # <<>>
    PROVE  /\ Len(frames) \in Nat \ {0} /\ Len(heap) \in Nat /\ Len(stack) \in Nat
           /\ Top.tab \in DOMAIN l /\ Top.tab \in 1 .. Len(heap)
           /\ Top.kind \in {"array", "object"} /\ Top.kind = KindOf(t, l, Top.tab)
           /\ l[Top.tab].depth = Len(frames)
           /\ of[Len(frames)] \in 1 .. Len(l[Top.tab].values) + 1
           /\ heap[Top.tab] = EntriesUpto(t, l, Top.tab, of[Len(frames)] - 1)
           /\ Top.kind = "array" => Top.index = of[Len(frames)]
           /\ Inside(t, l, Top.tab, of[Len(frames)])
           /\ Top.base \in Nat \ {0} /\ stack[Top.base] = Table(Top.tab)
           /\ Len(stack) = Top.base + Pending(Top.kind)
<1>1. Len(frames) \in Nat \ {0} /\ Len(heap) \in Nat /\ Len(stack) \in Nat /\ Top \in Frame
  BY DEF Here, Shape, TypeOK, Top
<1>2. FrameReads(t, l, of, Len(frames), Top.tab) /\ of[Len(frames)] \in Nat \ {0}
  BY <1>1 DEF Here, ReadsAt, CallsRead, Top
<1>3. Top.tab \in 1 .. Len(heap)
  BY <1>2 DEF FrameReads
<1>4. Top.tab \in DOMAIN l
  BY <1>3 DEF Here, ReadsAt, TablesRead
<1>5. Len(l[Top.tab].values) \in Nat
  BY <1>4, LayoutTypes DEF Here
<1>6. of[Len(frames)] \in 1 .. Len(l[Top.tab].values) + 1
  BY <1>2, <1>5 DEF FrameReads
<1>7. /\ Top.kind = KindOf(t, l, Top.tab) /\ l[Top.tab].depth = Len(frames)
      /\ heap[Top.tab] = EntriesUpto(t, l, Top.tab, of[Len(frames)] - 1)
      /\ Top.kind = "array" => Top.index = of[Len(frames)]
  BY <1>2 DEF FrameReads, Top
<1>8. Inside(t, l, Top.tab, of[Len(frames)])
  BY DEF Here, ReadsAt, CallsRead
<1>9. stack[Top.base] = Table(Top.tab)
  BY <1>1 DEF Here, Shape, TablesStayPut, Top
<1>10. Len(stack) = Top.base + Pending(Top.kind)
  BY DEF Here, Balanced, StackBalanced
<1> QED
  BY <1>1, <1>3, <1>4, <1>6, <1>7, <1>8, <1>9, <1>10 DEF Frame

\* The calls around the innermost one: their keys lie below its table.
LEMMA Outer ==
    ASSUME NEW t, NEW l, NEW of, Here(t, l, of), NEW i \in 1 .. Len(frames) - 1
    PROVE  /\ i \in 1 .. Len(frames) /\ frames # <<>> /\ Len(frames) \in Nat /\ i < Len(frames)
           /\ frames[i].kind = "object" => frames[i].base + 1 \in 1 .. Top.base
           /\ frames[i].tab # Top.tab /\ frames[i].tab \in 1 .. Len(heap)
           /\ Keyed(t, l, of, i) /\ FrameReads(t, l, of, i, frames[i].tab)
<1>1. Len(frames) \in Nat /\ frames \in Seq(Frame)
  BY DEF Here, Shape, TypeOK
<1>2. i \in 1 .. Len(frames) /\ i < Len(frames) /\ Len(frames) \in 1 .. Len(frames) /\ frames # <<>>
  BY <1>1
<1>3. frames[i] \in Frame /\ Top \in Frame
  BY <1>1, <1>2 DEF Top
<1>4. frames[i].base + Step(frames[i].kind) <= Top.base
  BY <1>2 DEF Here, Shape, TablesStayPut, Top
<1>5. frames[i].kind = "object" => frames[i].base + 1 \in 1 .. Top.base
  BY <1>3, <1>4 DEF Step, Frame
<1>6. FrameReads(t, l, of, i, frames[i].tab)
  BY <1>2 DEF Here, ReadsAt, CallsRead
<1>7. frames[i].tab < Top.tab
  BY <1>2 DEF Here, ReadsAt, CallsRead, Top
<1>8. frames[i].tab # Top.tab
  BY <1>3, <1>7 DEF Frame
<1> QED
  BY <1>1, <1>2, <1>5, <1>6, <1>8 DEF FrameReads

\* A step of the innermost call that neither opens nor closes a container, nor
\* stores anything, leaves the others as they are.
LEMMA StayReads ==
    ASSUME NEW t, NEW l, NEW of, Here(t, l, of), frames # <<>>, frames' = frames, heap' = heap,
           \A s \in 1 .. Top.base : stack'[s] = stack[s],
           pos' = pos \/ (pos' = pos + 1 /\ ~Opens(t, pos)),
           Inside(t, l, Top.tab, of[Len(frames)])',
           pc' \in {"colon", "value", "return"} => Keyed(t, l, of, Len(frames))'
    PROVE  Reads(t, l)'
<1>1. TablesRead(t, l)'
  <2>1. \A k \in DOMAIN l : l[k].open < pos' <=> l[k].open < pos
    <3>1. CASE pos' = pos
      BY <3>1
    <3>2. CASE pos' = pos + 1 /\ ~Opens(t, pos)
      <4>1. \A k \in DOMAIN l : l[k].open # pos /\ l[k].open \in Nat
        BY <3>2, LayoutTypes DEF Here
      <4>2. pos \in Nat
        BY DEF Here, Shape, TypeOK
      <4> QED
        BY <3>2, <4>1, <4>2
    <3> QED
      BY <3>1, <3>2
  <2> QED
    BY <2>1 DEF Here, ReadsAt, TablesRead
<1>2. ASSUME NEW i \in 1 .. Len(frames) PROVE FrameReads(t, l, of, i, frames[i].tab)'
  <2>1. CASE i \in 1 .. Len(frames) - 1
    <3>1. Keyed(t, l, of, i)'
      BY <2>1, Outer DEF Keyed
    <3> QED
      BY <2>1, <3>1, Outer DEF FrameReads
  <2>2. CASE i = Len(frames)
    <3>1. FrameReads(t, l, of, i, frames[i].tab)
      BY DEF Here, ReadsAt, CallsRead
    <3>2. Len(frames) \in Nat
      BY Innermost
    <3> QED
      BY <2>2, <3>1, <3>2 DEF FrameReads
  <2> QED
    BY <2>1, <2>2, Innermost
<1>3. CallsRead(t, l, of)'
  <2>1. Top' = Top
    BY DEF Top
  <2> QED
    BY <1>2, <2>1 DEF Here, ReadsAt, CallsRead
<1> QED
  BY <1>1, <1>3 DEF ReadsAt, Reads

\* The end of a container: its call returns to the one it is a member of.
LEMMA CloseReads ==
    ASSUME NEW t, NEW l, NEW of, Here(t, l, of), frames # <<>>, pc \in {"opened", "separator"},
           of[Len(frames)] = Len(l[Top.tab].values) + 1, pos = l[Top.tab].close,
           frames' = Pop(frames, 1), pos' = pos + 1, pc' = "return",
           stack' = stack, heap' = heap
    PROVE  Reads(t, l)'
<1> DEFINE n == Len(frames)
           k == Top.tab
<1>b. PICK b : b = [i \in 1 .. n - 1 |-> of[i]]
  OBVIOUS
<1>0. n \in Nat \ {0} /\ k \in DOMAIN l /\ frames \in Seq(Frame) /\ Len(l[k].values) \in Nat
  BY Innermost, LayoutTypes DEF Here, Shape, TypeOK
<1>n. n \in Nat \ {0}
  BY <1>0
<1>1. /\ Len(frames') = n - 1
      /\ \A i \in 1 .. n - 1 : frames'[i] = frames[i]
      /\ n - 1 = 0 => frames' = <<>>
  <2>1. 1 \in Nat /\ 1 <= Len(frames)
    BY <1>0
  <2>2. Len(frames') = n - 1 /\ frames' \in Seq(Frame) /\ \A i \in 1 .. n - 1 : frames'[i] = frames[i]
    BY <1>0, <2>1, PopProperties
  <2> QED
    BY <2>2
<1>2. ~Opens(t, pos)
  <2>1. At(t, pos) = Closer(KindOf(t, l, k))
    BY <1>0, ClosesAt DEF Here
  <2> QED
    BY <2>1 DEF Opens, Closer
<1>3. heap[k] = EntriesUpto(t, l, k, Len(l[k].values))
  <2>1. (Len(l[k].values) + 1) - 1 = Len(l[k].values)
    BY <1>0
  <2> QED
    BY <2>1, Innermost
<1>4. TablesRead(t, l)'
  <2>1. \A m \in DOMAIN l : l[m].open < pos' <=> l[m].open < pos
    <3>1. \A m \in DOMAIN l : l[m].open # pos /\ l[m].open \in Nat
      BY <1>2, LayoutTypes DEF Here
    <3>2. pos \in Nat
      BY DEF Here, Shape, TypeOK
    <3> QED
      BY <3>1, <3>2
  <2>2. ASSUME NEW m \in 1 .. Len(heap)
        PROVE  \/ \E i \in 1 .. Len(frames') : frames'[i].tab = m
               \/ heap[m] = EntriesUpto(t, l, m, Len(l[m].values))
    <3>1. CASE m = k
      BY <1>3, <3>1
    <3>2. CASE \E i \in 1 .. Len(frames) : frames[i].tab = m /\ m # k
      <4>1. PICK i \in 1 .. Len(frames) : frames[i].tab = m /\ m # k
        BY <3>2
      <4>2. i # n
        BY <4>1 DEF Top
      <4>3. i \in 1 .. n - 1
        BY <1>0, <4>2
      <4> QED
        BY <1>1, <4>1, <4>3
    <3>3. CASE heap[m] = EntriesUpto(t, l, m, Len(l[m].values))
      BY <3>3
    <3> QED
      BY <3>1, <3>2, <3>3 DEF Here, ReadsAt, TablesRead
  <2> QED
    BY <2>1, <2>2 DEF Here, ReadsAt, TablesRead
<1>5. pos' = Behind(t, l, l[k].open) /\ ValueAt(t, l, l[k].open) = Table(k)
  BY <1>0, OpenedIs, LayoutTypes DEF Here, Behind, ValueAt
<1>6. Len(stack) = Top.base /\ stack[Len(stack)] = Table(k) /\ Top.base \in Nat \ {0}
  BY Innermost DEF Pending
<1>7. CASE n = 1
  <2>1. frames' = <<>>
    BY <1>1, <1>7
  <2>2. l[k].open = 1
    BY <1>7 DEF Here, ReadsAt, CallsRead, Top
  <2>3. stack = <<Table(k)>>
    <3>1. Top.base = 1
      BY <1>7 DEF Here, Balanced, StackBalanced, Top
    <3>2. stack \in Seq(Value)
      BY DEF Here, Shape, TypeOK
    <3> QED
      BY <1>6, <3>1, <3>2
  <2>4. Outside(t, l)'
    BY <1>5, <2>2, <2>3 DEF Outside
  <2>5. b \in [1 .. Len(frames') -> Nat \ {0}]
    BY <1>b, <1>0, <1>1, <1>7
  <2>6. 1 .. Len(frames') = {}
    BY <1>1, <1>7
  <2>7. CallsRead(t, l, b)'
    BY <2>1, <2>4, <2>5, <2>6 DEF CallsRead
  <2> QED
    BY <1>4, <2>7 DEF ReadsAt, Reads
<1>8. CASE n # 1
  <2>0. \A m \in Nat \ {0} : m # 1 => /\ m - 1 \in 1 .. m - 1 /\ 1 \in 1 .. m - 1
                                       /\ m - 1 # 0 /\ m - 1 \in Nat
    OBVIOUS
  <2>1. n - 1 \in 1 .. n - 1 /\ n - 1 # 0 /\ n - 1 \in Nat /\ 1 \in 1 .. n - 1
    BY <2>0, <1>n, <1>8
  <2>2. b \in [1 .. Len(frames') -> Nat \ {0}]
    <3>1. \A i \in 1 .. n - 1 : i \in 1 .. n
      BY <1>0
    <3> QED
      BY <1>b, <1>1, <3>1 DEF Here, ReadsAt, CallsRead
  <2>3. \A i, j \in 1 .. Len(frames') : i < j => frames'[i].tab < frames'[j].tab
    <3>1. \A i, j \in 1 .. n : i < j => frames[i].tab < frames[j].tab
      BY DEF Here, ReadsAt, CallsRead
    <3>2. \A i \in 1 .. Len(frames') : i \in 1 .. n /\ frames'[i] = frames[i]
      BY <1>n, <1>1
    <3> QED
      BY <3>1, <3>2
  <2>4. ASSUME NEW i \in 1 .. Len(frames') PROVE FrameReads(t, l, b, i, frames[i].tab)'
    <3>1. i \in 1 .. n - 1 /\ frames'[i] = frames[i] /\ b[i] = of[i]
      BY <1>b, <1>1
    <3>2. i < Len(frames') => frames'[i + 1] = frames[i + 1]
      BY <1>0, <1>1
    <3>3. Keyed(t, l, b, i)'
      BY <3>1, Outer DEF Keyed
    <3>4. /\ FrameReads(t, l, of, i, frames[i].tab) /\ i < n
          /\ i < Len(frames') => i \in 1 .. n
      BY <1>n, <1>1, <3>1, Outer
    <3> QED
      BY <3>1, <3>2, <3>3, <3>4 DEF FrameReads
  <2>5. frames' # <<>> /\ Top' = frames[n - 1] /\ b[Len(frames')] = of[n - 1]
    BY <1>b, <1>1, <2>1 DEF Top
  <2>6. /\ of[n - 1] <= Len(l[frames[n - 1].tab].values)
        /\ l[frames[n - 1].tab].values[of[n - 1]] = l[k].open
    <3>1. (n - 1) + 1 = n
      BY <1>0
    <3>2. FrameReads(t, l, of, n - 1, frames[n - 1].tab) /\ n - 1 < n
      BY <2>1, <1>n, Outer
    <3> QED
      BY <3>1, <3>2 DEF FrameReads, Top
  <2>7. Inside(t, l, Top.tab, b[Len(frames)])'
    BY <1>5, <1>6, <2>5, <2>6 DEF Inside
  <2>8. Keyed(t, l, b, Len(frames))'
    <3>1. Keyed(t, l, of, n - 1)
      BY <2>1, Outer
    <3> QED
      BY <1>1, <2>1, <2>5, <3>1 DEF Keyed
  <2>9. l[frames'[1].tab].open = 1
    <3> QED
      BY <1>1, <2>1 DEF Here, ReadsAt, CallsRead
  <2>10. CallsRead(t, l, b)'
    BY <2>2, <2>3, <2>4, <2>5, <2>7, <2>8, <2>9 DEF CallsRead
  <2> QED
    BY <1>4, <2>10 DEF ReadsAt, Reads
<1> QED
  BY <1>7, <1>8

\* What begins where the parser expects a value is one, at the depth it is at.
LEMMA ValueHere ==
    ASSUME NEW t, NEW l, NEW of, Here(t, l, of), pc = "value"
    PROVE  IsValue(t, l, pos, Len(frames) + 1)
<1>1. CASE frames = <<>>
  <2>1. pos = 1 /\ IsValue(t, l, 1, 1)
    BY <1>1 DEF Here, ReadsAt, CallsRead, Outside, IsLayout
  <2>2. Len(frames) + 1 = 1
    BY <1>1
  <2> QED
    BY <2>1, <2>2
<1>2. CASE frames # <<>>
  <2>1. pos = l[Top.tab].values[of[Len(frames)]] /\ of[Len(frames)] \in 1 .. Len(l[Top.tab].values)
    <3>1. /\ of[Len(frames)] \in 1 .. Len(l[Top.tab].values) + 1
          /\ of[Len(frames)] <= Len(l[Top.tab].values)
          /\ Len(l[Top.tab].values) \in Nat
      BY <1>2, Innermost, LayoutTypes DEF Inside, Here
    <3>2. pos = l[Top.tab].values[of[Len(frames)]]
      BY <1>2, Innermost DEF Inside
    <3> QED
      BY <3>1, <3>2
  <2>2. Top.tab \in DOMAIN l /\ l[Top.tab].depth = Len(frames) /\ IsLayout(t, l)
    BY <1>2, Innermost DEF Here
  <2>3. IsValue(t, l, l[Top.tab].values[of[Len(frames)]], l[Top.tab].depth + 1)
    BY <2>1, <2>2, MemberIs DEF Member
  <2> QED
    BY <2>1, <2>2, <2>3
<1> QED
  BY <1>1, <1>2

\* A container opens: it is the next of the layout, and its table the next of
\* the heap.
LEMMA OpenReads ==
    ASSUME NEW t, NEW l, NEW of, Here(t, l, of), NEW kind \in {"array", "object"}, OpenTable(kind)
    PROVE  Reads(t, l)'
<1> DEFINE n == Len(frames)
           k == Len(heap) + 1
<1>b. PICK b : b = [i \in 1 .. n + 1 |-> IF i = n + 1 THEN 1 ELSE of[i]]
  OBVIOUS
<1>0. /\ n \in Nat /\ Len(heap) \in Nat /\ Len(stack) \in Nat /\ pos \in Nat
      /\ frames \in Seq(Frame) /\ heap \in Seq(Entries) /\ stack \in Seq(Value)
  BY DEF Here, Shape, TypeOK
<1>n. n \in Nat
  BY <1>0
<1>o. /\ pc = "value" /\ pc' = "opened" /\ pos' = pos + 1 /\ At(t, pos) = Opener(kind)
      /\ heap' = Append(heap, {}) /\ stack' = Append(stack, Table(k))
      /\ frames' = Append(frames, [kind |-> kind, base |-> Len(stack) + 1, tab |-> k, index |-> 1])
  BY DEF OpenTable, Here, Look, At
<1>1. PICK c \in DOMAIN l : l[c].open = pos /\ l[c].depth = n + 1
  <2>1. Opens(t, pos)
    BY <1>o DEF Opens, Opener
  <2> QED
    BY <1>o, <2>1, ValueHere, ValueIs DEF Here
<1>2. \A m \in DOMAIN l : l[m].open \in Nat /\ m \in Nat /\ (l[m].open = pos => m = c)
  BY <1>1, OpenedIs, LayoutTypes DEF Here
<1>3. c = k
  <2>1. c > Len(heap) /\ c \in Nat
    BY <1>0, <1>1, <1>2 DEF Here, ReadsAt, TablesRead
  <2>2. ASSUME c > k PROVE FALSE
    <3>1. k \in DOMAIN l
      <4>1. c \in 1 .. Len(l) /\ DOMAIN l = 1 .. Len(l)
        BY <1>1, LayoutTypes DEF Here
      <4> QED
        BY <1>0, <2>1, <2>2, <4>1
    <3>2. l[k].open < pos
      BY <1>1, <2>2, <3>1 DEF Here, IsLayout
    <3>3. k <= Len(heap)
      BY <3>1, <3>2 DEF Here, ReadsAt, TablesRead
    <3> QED
      BY <1>0, <3>3
  <2> QED
    BY <1>0, <2>1, <2>2
<1>4. /\ Len(frames') = n + 1 /\ \A i \in 1 .. n : frames'[i] = frames[i]
      /\ frames'[n + 1] = [kind |-> kind, base |-> Len(stack) + 1, tab |-> k, index |-> 1]
      /\ frames' # <<>>
  <2>1. [kind |-> kind, base |-> Len(stack) + 1, tab |-> k, index |-> 1] \in Frame
    BY <1>0 DEF Frame
  <2> QED
    BY <1>0, <1>o, <2>1, AppendProperties
<1>5. /\ Len(heap') = k /\ \A i \in 1 .. Len(heap) : heap'[i] = heap[i]
      /\ heap'[k] = {}
  <2>1. {} \in Entries
    BY DEF Entries
  <2> QED
    BY <1>0, <1>o, <2>1, AppendProperties
<1>6. \A i \in 1 .. Len(stack) : stack'[i] = stack[i]
  <2>1. Table(k) \in Value
    BY <1>0 DEF Table, Value
  <2> QED
    BY <1>0, <1>o, <2>1, AppendProperties
<1>7. kind = KindOf(t, l, k) /\ l[k].open = pos /\ l[k].depth = n + 1
  BY <1>1, <1>3, <1>o DEF KindOf, Opener
<1>8. \A i \in 1 .. n : frames[i].tab \in 1 .. Len(heap)
  <2> SUFFICES ASSUME NEW i \in 1 .. n PROVE frames[i].tab \in 1 .. Len(heap)
    OBVIOUS
  <2>1. FrameReads(t, l, of, i, frames[i].tab)
    BY DEF Here, ReadsAt, CallsRead
  <2> QED
    BY <2>1 DEF FrameReads
<1>9. TablesRead(t, l)'
  <2>1. ASSUME NEW m \in DOMAIN l PROVE m <= Len(heap') <=> l[m].open < pos'
    <3>1. m <= Len(heap) <=> l[m].open < pos
      BY DEF Here, ReadsAt, TablesRead
    <3>2. m = k <=> l[m].open = pos
      BY <1>2, <1>3, <1>7
    <3>3. m \in Nat /\ l[m].open \in Nat
      BY <1>2
    <3>4. Len(heap') = Len(heap) + 1 /\ pos' = pos + 1
      BY <1>5, <1>o
    <3> QED
      BY <1>0, <3>1, <3>2, <3>3, <3>4
  <2>2. ASSUME NEW m \in 1 .. Len(heap')
        PROVE  /\ m \in DOMAIN l
               /\ \/ \E i \in 1 .. Len(frames') : frames'[i].tab = m
                  \/ heap'[m] = EntriesUpto(t, l, m, Len(l[m].values))
    <3>1. CASE m = k
      <4>1. n + 1 \in 1 .. Len(frames') /\ frames'[n + 1].tab = k
        BY <1>n, <1>4
      <4> QED
        BY <1>1, <1>3, <3>1, <4>1
    <3>2. CASE m \in 1 .. Len(heap)
      <4>1. \A i \in 1 .. n : i \in 1 .. Len(frames') /\ frames'[i].tab = frames[i].tab
        BY <1>n, <1>4
      <4> QED
        BY <1>5, <3>2, <4>1 DEF Here, ReadsAt, TablesRead
    <3>3. m = k \/ m \in 1 .. Len(heap)
      BY <1>0, <1>5
    <3> QED
      BY <3>1, <3>2, <3>3
  <2> QED
    BY <2>1, <2>2 DEF TablesRead
<1>10. b \in [1 .. Len(frames') -> Nat \ {0}]
  <2>1. \A i \in 1 .. n + 1 : i = n + 1 \/ i \in 1 .. n
    BY <1>n
  <2>2. of \in [1 .. n -> Nat \ {0}]
    BY DEF Here, ReadsAt, CallsRead
  <2> QED
    BY <1>b, <1>4, <2>1, <2>2
<1>11. \A i, j \in 1 .. Len(frames') : i < j => frames'[i].tab < frames'[j].tab
  <2> SUFFICES ASSUME NEW i \in 1 .. Len(frames'), NEW j \in 1 .. Len(frames'), i < j
               PROVE  frames'[i].tab < frames'[j].tab
    OBVIOUS
  <2>1. i \in 1 .. n /\ (j \in 1 .. n \/ j = n + 1)
    BY <1>n, <1>4
  <2>2. CASE j \in 1 .. n
    BY <1>4, <2>1, <2>2 DEF Here, ReadsAt, CallsRead
  <2>3. CASE j = n + 1
    BY <1>0, <1>4, <1>8, <2>1, <2>3
  <2> QED
    BY <2>1, <2>2, <2>3
<1>12. ASSUME NEW i \in 1 .. Len(frames') PROVE FrameReads(t, l, b, i, frames[i].tab)'
  <2>1. i = n + 1 \/ i \in 1 .. n
    BY <1>n, <1>4
  <2>2. CASE i = n + 1
    <3>1. b[i] = 1 /\ ~(i < Len(frames')) /\ k \in 1 .. Len(heap')
      BY <1>0, <1>b, <1>4, <1>5, <2>2
    <3>2. heap'[k] = EntriesUpto(t, l, k, 1 - 1)
      BY <1>5, NoEntries
    <3>3. 1 <= Len(l[k].values) + 1
      BY <1>1, <1>3, LayoutTypes DEF Here
    <3> QED
      BY <1>4, <1>7, <2>2, <3>1, <3>2, <3>3 DEF FrameReads
  <2>3. CASE i \in 1 .. n
    <3>1. /\ b[i] = of[i] /\ frames'[i] = frames[i] /\ FrameReads(t, l, of, i, frames[i].tab)
          /\ i # n + 1 /\ i < Len(frames')
      <4>1. i # n + 1 /\ i < n + 1 /\ i \in 1 .. n + 1
        BY <1>n, <2>3
      <4> QED
        BY <1>b, <1>4, <2>3, <4>1 DEF Here, ReadsAt, CallsRead
    <3>2. frames[i].tab \in 1 .. Len(heap) /\ frames[i].tab \in 1 .. Len(heap')
          /\ heap'[frames[i].tab] = heap[frames[i].tab]
      BY <1>0, <1>5, <1>8, <2>3
    <3>3. /\ of[i] <= Len(l[frames[i].tab].values)
          /\ l[frames[i].tab].values[of[i]] = l[frames'[i + 1].tab].open
          /\ Keyed(t, l, of, i)
      <4>1. CASE i = n
        <5>1. frames # <<>> /\ Top = frames[i]
          BY <1>n, <2>3, <4>1 DEF Top
        <5>2. frames'[i + 1].tab = k
          BY <1>4, <4>1
        <5> QED
          BY <1>7, <1>o, <4>1, <5>1, <5>2 DEF Here, ReadsAt, CallsRead, Inside
      <4>2. CASE i # n
        <5>1. i \in 1 .. n - 1 /\ i < n /\ i + 1 \in 1 .. n
          BY <1>n, <2>3, <4>2
        <5> QED
          BY <1>4, <3>1, <5>1 DEF FrameReads
      <4> QED
        BY <4>1, <4>2
    <3>4. Keyed(t, l, b, i)'
      <4>1. ASSUME frames[i].kind = "object" PROVE frames[i].base + 1 \in 1 .. Len(stack)
        <5>1. CASE i = n
          <6>1. frames # <<>> /\ Top = frames[i]
            BY <1>n, <2>3, <5>1 DEF Top
          <6>2. Len(stack) = Top.base + Pending(Top.kind) /\ Top.base \in Nat
            BY <6>1, Innermost
          <6>3. Pending(Top.kind) = 1
            BY <1>o, <4>1, <6>1 DEF Pending, Step
          <6> QED
            BY <6>1, <6>2, <6>3
        <5>2. CASE i # n
          <6>1. i \in 1 .. n - 1
            BY <1>n, <2>3, <5>2
          <6>2. /\ frames[i].base + 1 \in 1 .. Top.base /\ Top.base \in Nat
                /\ Len(stack) = Top.base + Pending(Top.kind)
            BY <4>1, <6>1, Outer, Innermost
          <6>3. Pending(Top.kind) \in Nat
            BY <1>o DEF Pending, Step
          <6> QED
            BY <1>0, <6>2, <6>3
        <5> QED
          BY <5>1, <5>2
      <4> QED
        BY <1>6, <3>1, <3>3, <4>1 DEF Keyed
    <3> QED
      BY <3>1, <3>2, <3>3, <3>4 DEF FrameReads
  <2> QED
    BY <2>1, <2>2, <2>3
<1>13. l[frames'[1].tab].open = 1
  <2>1. CASE frames = <<>>
    <3>1. n + 1 = 1 /\ pos = 1
      BY <1>o, <2>1 DEF Here, ReadsAt, CallsRead, Outside
    <3> QED
      BY <1>4, <1>7, <3>1
  <2>2. CASE frames # <<>>
    <3>1. 1 \in 1 .. n
      BY <1>0, <2>2
    <3> QED
      BY <1>4, <2>2, <3>1 DEF Here, ReadsAt, CallsRead
  <2> QED
    BY <2>1, <2>2
<1>14. Inside(t, l, Top.tab, b[Len(frames)])'
  <2>1. Top'.tab = k /\ b[Len(frames')] = 1
    <3>1. n + 1 \in 1 .. n + 1
      BY <1>n
    <3> QED
      BY <1>b, <1>4, <3>1 DEF Top
  <2> QED
    BY <1>7, <1>o, <2>1 DEF Inside
<1>15. CallsRead(t, l, b)'
  BY <1>4, <1>10, <1>11, <1>12, <1>13, <1>14, <1>o DEF CallsRead
<1> QED
  BY <1>9, <1>15 DEF ReadsAt, Reads

\* A finished member is stored, and the container waits for the next.
LEMMA StoreReads ==
    ASSUME NEW t, NEW l, NEW of, Here(t, l, of), frames # <<>>, pc = "return",
           pc' = "separator", pos' = pos, Len(frames') = Len(frames),
           \A i \in 1 .. Len(frames) : /\ frames'[i].base = frames[i].base
                                       /\ frames'[i].kind = frames[i].kind
                                       /\ frames'[i].tab = frames[i].tab,
           \A i \in 1 .. Len(frames) - 1 : frames'[i].index = frames[i].index,
           Top.kind = "array" => frames'[Len(frames)].index = Top.index + 1,
           \A s \in 1 .. Top.base : stack'[s] = stack[s],
           heap' = [heap EXCEPT ![Top.tab] = Assign(@, KeyOf(t, l, Top.tab, of[Len(frames)]),
                        ValueAt(t, l, l[Top.tab].values[of[Len(frames)]]))]
    PROVE  Reads(t, l)'
<1> DEFINE n == Len(frames)
           k == Top.tab
<1>b. PICK b : b = [of EXCEPT ![n] = @ + 1]
  OBVIOUS
<1>0. /\ n \in Nat \ {0} /\ k \in DOMAIN l /\ k \in 1 .. Len(heap) /\ Len(l[k].values) \in Nat
      /\ of[n] \in 1 .. Len(l[k].values) + 1 /\ of[n] <= Len(l[k].values)
  BY Innermost, LayoutTypes DEF Here, Inside
<1>n. n \in Nat /\ n \in 1 .. n
  BY <1>0
<1>j. of[n] \in 1 .. Len(l[k].values) /\ of[n] \in Nat \ {0} /\ (of[n] + 1) - 1 = of[n]
      /\ of[n] + 1 > 1
  BY <1>0
<1>1. heap'[k] = EntriesUpto(t, l, k, of[n]) /\ \A m \in 1 .. Len(heap) : m # k => heap'[m] = heap[m]
  <2>1. heap \in Seq(Entries)
    BY DEF Here, Shape, TypeOK
  <2>2. k \in DOMAIN heap /\ DOMAIN heap = 1 .. Len(heap)
    BY <1>0, <2>1
  <2>3. heap'[k] = Assign(heap[k], KeyOf(t, l, k, of[n]), ValueAt(t, l, l[k].values[of[n]]))
    BY <2>2
  <2>4. heap[k] = EntriesUpto(t, l, k, of[n] - 1)
    BY Innermost
  <2>5. heap'[k] = EntriesUpto(t, l, k, of[n])
    BY <1>0, <1>j, <2>3, <2>4, EntriesStep DEF Here
  <2>6. \A m \in DOMAIN heap : m # k => heap'[m] = heap[m]
    OBVIOUS
  <2> QED
    BY <2>2, <2>5, <2>6
<1>2. Len(heap') = Len(heap)
  <2>1. heap \in Seq(Entries)
    BY DEF Here, Shape, TypeOK
  <2> QED
    BY <2>1
<1>3. b[n] = of[n] + 1 /\ \A i \in 1 .. n : i # n => b[i] = of[i]
  <2>1. of \in [1 .. n -> Nat \ {0}]
    BY DEF Here, ReadsAt, CallsRead
  <2> QED
    BY <1>b, <1>n, <2>1
<1>4. b \in [1 .. Len(frames') -> Nat \ {0}]
  <2>1. of \in [1 .. n -> Nat \ {0}]
    BY DEF Here, ReadsAt, CallsRead
  <2>2. of[n] + 1 \in Nat \ {0}
    BY <1>j
  <2> QED
    BY <1>b, <1>n, <2>1, <2>2
<1>5. TablesRead(t, l)'
  <2>1. ASSUME NEW m \in 1 .. Len(heap)
        PROVE  /\ m \in DOMAIN l
               /\ \/ \E i \in 1 .. Len(frames') : frames'[i].tab = m
                  \/ heap'[m] = EntriesUpto(t, l, m, Len(l[m].values))
    <3>1. CASE m = k
      <4>1. frames'[n].tab = k
        BY <1>n DEF Top
      <4> QED
        BY <1>0, <1>n, <3>1, <4>1
    <3>2. CASE m # k
      BY <1>1, <3>2 DEF Here, ReadsAt, TablesRead
    <3> QED
      BY <3>1, <3>2
  <2> QED
    BY <1>2, <2>1 DEF Here, ReadsAt, TablesRead
<1>6. ASSUME NEW i \in 1 .. Len(frames') PROVE FrameReads(t, l, b, i, frames[i].tab)'
  <2>1. CASE i = n
    <3>1. FrameReads(t, l, of, n, frames[n].tab)
      BY <1>n DEF Here, ReadsAt, CallsRead
    <3>2. frames[n] = Top /\ ~(n < n)
      BY <1>n DEF Top
    <3>3. of[n] + 1 <= Len(l[k].values) + 1
      BY <1>0, <1>j
    <3>4. heap'[k] = EntriesUpto(t, l, k, b[n] - 1)
      BY <1>1, <1>3, <1>j
    <3>5. Top.kind = "array" => frames'[n].index = b[n]
      BY <1>3, <3>1, <3>2 DEF FrameReads
    <3> QED
      BY <1>0, <1>n, <1>2, <1>3, <2>1, <3>1, <3>2, <3>3, <3>4, <3>5 DEF FrameReads
  <2>2. CASE i # n
    <3>1. i \in 1 .. n - 1 /\ i < n /\ i \in 1 .. n /\ i + 1 \in 1 .. n
      BY <1>n, <2>2
    <3>2. /\ frames[i].tab # k /\ frames[i].tab \in 1 .. Len(heap)
          /\ Keyed(t, l, of, i) /\ FrameReads(t, l, of, i, frames[i].tab)
          /\ frames[i].kind = "object" => frames[i].base + 1 \in 1 .. Top.base
      BY <3>1, Outer
    <3>3. b[i] = of[i] /\ heap'[frames[i].tab] = heap[frames[i].tab]
      BY <1>1, <1>3, <2>2, <3>1, <3>2
    <3>4. Keyed(t, l, b, i)'
      BY <3>1, <3>2, <3>3 DEF Keyed
    <3>5. /\ frames'[i].tab = frames[i].tab /\ frames'[i].kind = frames[i].kind
          /\ frames'[i].index = frames[i].index /\ frames'[i + 1].tab = frames[i + 1].tab
          /\ i < Len(frames')
      BY <3>1
    <3> QED
      BY <1>2, <3>2, <3>3, <3>4, <3>5, <3>1 DEF FrameReads
  <2> QED
    BY <2>1, <2>2
<1>7. Inside(t, l, Top.tab, b[Len(frames)])'
  <2>1. Top'.tab = k
    BY <1>n DEF Top
  <2>2. pos' = Before(t, l, k, of[n] + 1)
    <3>1. pos = Behind(t, l, l[k].values[of[n]])
      BY Innermost DEF Inside
    <3>2. of[n] + 1 # 1
      BY <1>j
    <3> QED
      BY <1>j, <3>1, <3>2 DEF Before
  <2> QED
    BY <1>3, <1>j, <2>1, <2>2 DEF Inside
<1>8. \A i, j \in 1 .. Len(frames') : i < j => frames'[i].tab < frames'[j].tab
  BY DEF Here, ReadsAt, CallsRead
<1>9. frames' # <<>> /\ l[frames'[1].tab].open = 1
  <2>1. Len(frames') # 0 /\ 1 \in 1 .. n
    BY <1>0
  <2>2. frames' # <<>>
    BY <2>1
  <2> QED
    BY <2>1, <2>2 DEF Here, ReadsAt, CallsRead
<1>10. CallsRead(t, l, b)'
  BY <1>4, <1>6, <1>7, <1>8, <1>9 DEF CallsRead
<1> QED
  BY <1>5, <1>10 DEF ReadsAt, Reads

\* What stands before a member is a place in the text.
LEMMA BeforeType ==
    ASSUME NEW t, NEW l, IsLayout(t, l), NEW k \in DOMAIN l, NEW j \in 1 .. Len(l[k].values)
    PROVE  Before(t, l, k, j) \in Nat
<1>1. j \in Nat \ {0} /\ Len(l[k].values) \in Nat /\ l[k].open \in Nat
  BY LayoutTypes
<1>2. CASE j = 1
  BY <1>1, <1>2 DEF Before
<1>3. CASE j # 1
  <2>1. j - 1 \in 1 .. Len(l[k].values)
    BY <1>1, <1>3
  <2>2. IsValue(t, l, l[k].values[j - 1], l[k].depth + 1) /\ l[k].values[j - 1] \in Nat
    BY <2>1, MemberIs, LayoutTypes DEF Member
  <2>3. Behind(t, l, l[k].values[j - 1]) \in Nat
    <3>1. \A i \in DOMAIN l : l[i].close + 1 \in Nat
      BY LayoutTypes
    <3> QED
      BY <2>2, <3>1, ValueIs
  <2> QED
    BY <1>3, <2>3 DEF Before
<1> QED
  BY <1>2, <1>3

\* What does not fit is nested too deep for the slots.
LEMMA OverrunUnfit ==
    ASSUME NEW t, NEW l, NEW of, Here(t, l, of), Overrun
    PROVE  ~Fits(l, MinStack)
<1>1. Len(stack) >= MinStack /\ MinStack \in Nat \ {0} /\ Len(stack) \in Nat
  BY DepthAssumption DEF Overrun, Here, Shape, TypeOK
<1>2. pc = "value" \/ (pc = "item" /\ frames # <<>>)
  BY DEF Overrun, Pushes, Here, Shape, InContainer
<1>3. CASE frames = <<>>
  <2>1. Len(stack) = 0
    BY <1>2, <1>3 DEF Here, Balanced, OutsideBalanced
  <2> QED
    BY <1>1, <2>1
<1>4. CASE frames # <<>>
  <2>1. /\ Top.tab \in DOMAIN l /\ l[Top.tab].depth = Len(frames) /\ Len(frames) \in Nat \ {0}
        /\ Len(stack) = Top.base + Pending(Top.kind) /\ Top.base \in Nat
    BY <1>4, Innermost
  <2>2. Pending(Top.kind) \in {0, 1}
    BY <1>2 DEF Pending, Step
  <2>3. Top.base <= 2 * Len(frames) - 1
    BY <2>1 DEF Here, Balanced, DepthBounded, Top
  <2>4. ~(2 * Len(frames) + 1 <= MinStack)
    BY <1>1, <2>1, <2>2, <2>3
  <2> QED
    BY <2>1, <2>4 DEF Fits
<1> QED
  BY <1>3, <1>4

\* Nothing else happens to a document but what its layout says.
LEMMA ReadsStep ==
    ASSUME NEW t, NEW l, NEW of, Here(t, l, of), Next, ~Overrun
    PROVE  /\ stray' = 0 /\ Reads(t, l)'
           /\ pc' \in Running \/ (pc' = "done" /\ frames' = <<>>)
<1> DEFINE n == Len(frames)
           k == Top.tab
           j == of[n]
<1>0. /\ IsLayout(t, l) /\ stray = 0 /\ pos \in Nat /\ Look = At(t, pos)
      /\ stack \in Seq(Value) /\ Len(stack) \in Nat
  BY DEF Here, Shape, TypeOK, Look, At
\* What the innermost container is, and the member it is at.
<1>t. ASSUME frames # <<>>
      PROVE  /\ n \in Nat \ {0} /\ k \in DOMAIN l /\ k \in 1 .. Len(heap)
             /\ Len(l[k].values) \in Nat /\ l[k].open \in Nat
             /\ j \in 1 .. Len(l[k].values) + 1
             /\ Top.kind \in {"array", "object"} /\ Top.kind = KindOf(t, l, k)
             /\ Top.base \in Nat \ {0} /\ stack[Top.base] = Table(k)
             /\ Len(stack) = Top.base + Pending(Top.kind)
             /\ Inside(t, l, k, j)
  BY <1>t, Innermost, LayoutTypes DEF Here
<1>k. ASSUME frames # <<>>, pc \in {"colon", "value", "return"} PROVE Keyed(t, l, of, n)
  BY <1>k DEF Here, ReadsAt, CallsRead
<1>m. ASSUME frames # <<>>, j <= Len(l[k].values)
      PROVE  /\ j \in 1 .. Len(l[k].values) /\ l[k].values[j] \in Nat
             /\ l[k].values[j] = Before(t, l, k, j) + Lead(t, l, k)
             /\ IsValue(t, l, l[k].values[j], l[k].depth + 1)
             /\ j > 1 => At(t, Before(t, l, k, j)) = ","
             /\ KindOf(t, l, k) = "object" => /\ At(t, l[k].values[j] - 2) \in Str
                                              /\ At(t, l[k].values[j] - 1) = ":"
  <2>1. j \in 1 .. Len(l[k].values) /\ k \in DOMAIN l
    <3>1. \A x \in Nat : \A y \in 1 .. x + 1 : y <= x => y \in 1 .. x
      OBVIOUS
    <3> QED
      BY <1>m, <1>t, <3>1
  <2>2. IsLayout(t, l)
    BY <1>0
  <2>3. l[k].values[j] \in Nat
    BY <2>1, <2>2, LayoutTypes
  <2>4. Member(t, l, k, j)
    BY <2>1, <2>2, MemberIs
  <2> QED
    BY <2>1, <2>3, <2>4 DEF Member
\* After the last member the container closes.
<1>c. ASSUME frames # <<>>, ~(j <= Len(l[k].values))
      PROVE  /\ j = Len(l[k].values) + 1
             /\ At(t, l[k].close) = Closer(Top.kind)
             /\ j = 1 => l[k].close = l[k].open + 1
             /\ j > 1 => l[k].close = Before(t, l, k, j)
  <2>1. j = Len(l[k].values) + 1 /\ (j = 1 => Len(l[k].values) = 0)
        /\ (j > 1 => Len(l[k].values) > 0)
    <3>1. \A x \in Nat : \A y \in 1 .. x + 1 :
              ~(y <= x) => y = x + 1 /\ (y = 1 => x = 0) /\ (y > 1 => x > 0)
      OBVIOUS
    <3> QED
      BY <1>c, <1>t, <3>1
  <2> QED
    BY <1>0, <1>c, <1>t, <2>1, ClosesAt
<1>s. \A x : x \in Str => x \in Quoted /\ x \notin {"[", "{", "]", "}", ",", ":", "eof"}
  BY LexemeAssumption DEF Quoted, Punct
<1>1. CASE ParseScalar
  <2>1. pc = "value" /\ pc' = "return" /\ frames' = frames /\ heap' = heap /\ stray' = stray
        /\ stack' = Append(stack, Scalar(Look))
    BY <1>1 DEF ParseScalar
  <2>2. ~Opens(t, pos) /\ At(t, pos) \in Consumed /\ Behind(t, l, pos) = pos + 1
        /\ ValueAt(t, l, pos) = Scalar(At(t, pos))
    <3>1. IsValue(t, l, pos, n + 1)
      BY <2>1, ValueHere
    <3>2. ~Opens(t, pos)
      <4> SUFFICES ASSUME Opens(t, pos) PROVE FALSE
        OBVIOUS
      <4>1. PICK m \in DOMAIN l : l[m].depth = n + 1
        BY <1>0, <3>1, ValueIs
      <4>2. n + 1 <= MaxDepth + 1
        BY <1>0, <4>1, LayoutTypes
      <4>3. n > MaxDepth
        BY <1>0, <1>1 DEF ParseScalar, Opens
      <4>4. n \in Nat /\ MaxDepth \in Nat
        BY DepthAssumption DEF Here, Shape, TypeOK
      <4> QED
        BY <4>2, <4>3, <4>4
    <3> QED
      BY <1>0, <3>1, <3>2, ValueIs
  <2>3. pos' = pos + 1
    BY <1>0, <1>1, <2>2 DEF ParseScalar
  <2>4. /\ Len(stack') = Len(stack) + 1 /\ stack'[Len(stack')] = ValueAt(t, l, pos)
        /\ \A s \in 1 .. Len(stack) : stack'[s] = stack[s]
    BY <1>0, <2>1, <2>2, ScalarType, AppendProperties
  <2>5. CASE frames = <<>>
    <3>1. pos = 1
      BY <2>1, <2>5 DEF Here, ReadsAt, CallsRead, Outside
    <3>2. Outside(t, l)'
      <4>1. stack = <<>>
        BY <1>0, <2>1, <2>5 DEF Here, Balanced, OutsideBalanced
      <4>2. stack' = <<ValueAt(t, l, 1)>>
        BY <1>0, <2>1, <2>2, <3>1, <4>1
      <4> QED
        BY <2>1, <2>2, <2>3, <3>1, <4>2 DEF Outside
    <3>3. TablesRead(t, l)'
      <4>1. \A m \in DOMAIN l : l[m].open < pos' <=> l[m].open < pos
        <5>1. \A m \in DOMAIN l : l[m].open # pos /\ l[m].open \in Nat
          BY <1>0, <2>2, LayoutTypes
        <5> QED
          BY <1>0, <2>3, <5>1
      <4> QED
        BY <2>1, <4>1 DEF Here, ReadsAt, TablesRead
    <3>4. CallsRead(t, l, of)'
      BY <2>1, <2>5, <3>2 DEF Here, ReadsAt, CallsRead
    <3> QED
      BY <1>0, <2>1, <3>3, <3>4 DEF ReadsAt, Reads, Running
  <2>6. CASE frames # <<>>
    <3>1. pos = l[k].values[j] /\ j <= Len(l[k].values)
      BY <1>t, <2>1, <2>6 DEF Inside
    <3>2. Top' = Top
      BY <2>1 DEF Top
    <3>3. Inside(t, l, Top.tab, of[Len(frames)])'
      BY <2>1, <2>2, <2>3, <2>4, <3>1, <3>2 DEF Inside
    <3>4. Keyed(t, l, of, Len(frames))'
      <4>1. Top.kind = "object" => Top.base + 1 \in 1 .. Len(stack)
        BY <1>t, <2>1, <2>6 DEF Pending, Step
      <4>2. Keyed(t, l, of, n)
        BY <1>k, <2>1, <2>6
      <4> QED
        BY <2>1, <2>4, <4>1, <4>2 DEF Keyed, Top
    <3>5. \A s \in 1 .. Top.base : stack'[s] = stack[s]
      <4>1. Pending(Top.kind) \in Nat
        BY <2>1 DEF Pending, Step
      <4> QED
        BY <1>t, <2>4, <2>6, <4>1
    <3> QED
      BY <1>0, <2>1, <2>2, <2>3, <2>6, <3>3, <3>4, <3>5, StayReads DEF Running
  <2> QED
    BY <2>5, <2>6
<1>2. ASSUME NEW kind \in {"array", "object"}, OpenTable(kind)
      PROVE  /\ stray' = 0 /\ Reads(t, l)'
             /\ pc' \in Running
  BY <1>0, <1>2, OpenReads DEF OpenTable, Running
<1>3. CASE Opened
  <2>1. /\ pc = "opened" /\ stack' = stack /\ heap' = heap /\ stray' = stray /\ frames # <<>>
        /\ j = 1 /\ pos = l[k].open + 1
    BY <1>3, <1>t DEF Opened, Here, Shape, InContainer, Inside
  <2>2. CASE j <= Len(l[k].values)
    <3>1. Look # Closer(Top.kind)
      <4>1. CASE Top.kind = "array"
        <5>1. l[k].values[j] = pos
          BY <1>m, <1>t, <2>1, <2>2, <4>1 DEF Before, Lead
        <5>2. IsValue(t, l, pos, l[k].depth + 1)
          BY <1>m, <2>1, <2>2, <5>1
        <5>3. Opens(t, pos) \/ At(t, pos) \in Consumed
          BY <1>0, <5>2, ValueIs
        <5>4. "]" \notin Consumed
          BY LexemeAssumption DEF Consumed, Quoted, Punct, Literal
        <5> QED
          BY <1>0, <4>1, <5>3, <5>4 DEF Opens, Closer
      <4>2. CASE Top.kind = "object"
        <5>1. l[k].values[j] - 2 = pos
          <6>1. l[k].values[j] = l[k].open + 3
            BY <1>m, <1>t, <2>1, <2>2, <4>2 DEF Before, Lead
          <6> QED
            BY <1>t, <2>1, <6>1
        <5>2. At(t, pos) \in Str
          BY <1>m, <1>t, <2>1, <2>2, <4>2, <5>1
        <5> QED
          BY <1>0, <1>s, <4>2, <5>2 DEF Closer
      <4> QED
        BY <1>t, <2>1, <4>1, <4>2
    <3>2. pc' = "item" /\ frames' = frames /\ pos' = pos
      BY <1>3, <3>1 DEF Opened
    <3>3. Top' = Top
      BY <3>2 DEF Top
    <3>4. Inside(t, l, Top.tab, of[Len(frames)])'
      BY <2>1, <2>2, <3>2, <3>3 DEF Inside, Before
    <3> QED
      BY <1>0, <2>1, <3>2, <3>4, StayReads DEF Running
  <2>3. CASE ~(j <= Len(l[k].values))
    <3>1. j = Len(l[k].values) + 1 /\ pos = l[k].close /\ Look = Closer(Top.kind)
      BY <1>0, <1>c, <2>1, <2>3
    <3>2. pos' = pos + 1 /\ frames' = Pop(frames, 1) /\ pc' = "return"
      BY <1>3, <3>1 DEF Opened
    <3> QED
      BY <1>0, <2>1, <3>1, <3>2, CloseReads DEF Running
  <2> QED
    BY <2>2, <2>3
<1>4. CASE ArrayItem
  <2>1. /\ pc = "item" /\ Top.kind = "array" /\ frames # <<>> /\ pos' = pos /\ stack' = stack
        /\ heap' = heap /\ stray' = stray /\ j <= Len(l[k].values) /\ pos = Before(t, l, k, j) + 1
    BY <1>4, <1>t DEF ArrayItem, Here, Shape, InContainer, Inside
  <2>2. l[k].values[j] = pos
    BY <1>m, <1>t, <2>1 DEF Lead
  <2>3. Look # "eof"
    <3>1. IsValue(t, l, pos, l[k].depth + 1)
      BY <1>m, <2>1, <2>2
    <3>2. Opens(t, pos) \/ At(t, pos) # "eof"
      BY <1>0, <3>1, ValueIs
    <3> QED
      BY <1>0, <3>2 DEF Opens
  <2>4. pc' = "value" /\ frames' = frames
    BY <1>4, <2>3 DEF ArrayItem
  <2>5. Top' = Top
    BY <2>4 DEF Top
  <2>6. Inside(t, l, Top.tab, of[Len(frames)])'
    BY <2>1, <2>2, <2>4, <2>5 DEF Inside
  <2>7. Keyed(t, l, of, Len(frames))'
    BY <2>1, <2>4 DEF Keyed, Top
  <2> QED
    BY <1>0, <2>1, <2>4, <2>6, <2>7, StayReads DEF Running
<1>5. CASE ObjectKey
  <2>1. /\ pc = "item" /\ Top.kind = "object" /\ frames # <<>>
        /\ heap' = heap /\ stray' = stray /\ j <= Len(l[k].values) /\ pos = Before(t, l, k, j) + 1
    BY <1>5, <1>t DEF ObjectKey, Here, Shape, InContainer, Inside
  <2>2. pos = l[k].values[j] - 2
    <3>1. l[k].values[j] = Before(t, l, k, j) + 3 /\ l[k].values[j] \in Nat
      BY <1>m, <1>t, <2>1 DEF Lead
    <3>2. Before(t, l, k, j) \in Nat
      BY <1>0, <1>m, <1>t, <2>1, BeforeType
    <3> QED
      BY <1>0, <2>1, <3>1, <3>2
  <2>3. At(t, pos) \in Str
    BY <1>m, <1>t, <2>1, <2>2
  <2>4. pc' = "colon" /\ pos' = pos + 1 /\ frames' = frames /\ stack' = Append(stack, Scalar(Look))
    BY <1>0, <1>5, <1>s, <2>3 DEF ObjectKey
  <2>5. Top' = Top
    BY <2>4 DEF Top
  <2>6. /\ Len(stack') = Len(stack) + 1 /\ stack'[Len(stack) + 1] = Scalar(At(t, pos))
        /\ \A s \in 1 .. Len(stack) : stack'[s] = stack[s]
    BY <1>0, <2>4, ScalarType, AppendProperties
  <2>7. Len(stack) = Top.base
    BY <1>t, <2>1 DEF Pending
  <2>8. Scalar(At(t, pos)) = KeyOf(t, l, k, j)
    <3>1. Scalar(At(t, pos)) = Atom(At(t, pos))
      BY <2>3, StringRead
    <3> QED
      BY <1>t, <2>1, <2>2, <3>1 DEF KeyOf
  <2>9. Keyed(t, l, of, Len(frames))'
    BY <2>4, <2>6, <2>7, <2>8 DEF Keyed, Top
  <2>10. Inside(t, l, Top.tab, of[Len(frames)])'
    <3>1. pos' = l[k].values[j] - 1
      <4>1. \A x \in Nat : (x - 2) + 1 = x - 1
        OBVIOUS
      <4> QED
        BY <1>m, <2>1, <2>2, <2>4, <4>1
    <3> QED
      BY <2>1, <2>4, <2>5, <3>1 DEF Inside
  <2>11. ~Opens(t, pos)
    BY <1>s, <2>3 DEF Opens
  <2> QED
    BY <1>0, <2>1, <2>4, <2>6, <2>7, <2>9, <2>10, <2>11, StayReads DEF Running
<1>6. CASE ObjectColon
  <2>1. /\ pc = "colon" /\ Top.kind = "object" /\ frames # <<>> /\ stack' = stack
        /\ heap' = heap /\ j <= Len(l[k].values) /\ pos = l[k].values[j] - 1
    BY <1>6, <1>t DEF ObjectColon, Here, Shape, InContainer, Inside
  <2>2. At(t, pos) = ":"
    BY <1>m, <1>t, <2>1
  <2>3. pc' = "value" /\ pos' = pos + 1 /\ frames' = frames /\ stray' = stray
    BY <1>0, <1>6, <2>2 DEF ObjectColon
  <2>4. Top' = Top
    BY <2>3 DEF Top
  <2>5. Inside(t, l, Top.tab, of[Len(frames)])'
    <3>1. pos' = l[k].values[j]
      <4>1. \A x \in Nat : (x - 1) + 1 = x
        OBVIOUS
      <4> QED
        BY <1>m, <2>1, <2>3, <4>1
    <3> QED
      BY <2>1, <2>3, <2>4, <3>1 DEF Inside
  <2>6. Keyed(t, l, of, Len(frames))'
    <3>1. Keyed(t, l, of, Len(frames))
      BY <1>k, <2>1
    <3> QED
      BY <2>1, <2>3, <3>1 DEF Keyed
  <2>7. ~Opens(t, pos)
    BY <2>2 DEF Opens
  <2> QED
    BY <1>0, <2>1, <2>3, <2>5, <2>6, <2>7, StayReads DEF Running
\* What the stores find on the stack.
<1>v. ASSUME pc = "return", frames # <<>>
      PROVE  /\ Slot(1) = ValueAt(t, l, l[k].values[j])
             /\ Top.kind = "array" => Len(stack) = Top.base + 1 /\ Slot(2) = Table(k)
             /\ Top.kind = "object" => /\ Len(stack) = Top.base + 2 /\ Slot(3) = Table(k)
                                       /\ Slot(2) = KeyOf(t, l, k, j)
  <2>1. /\ Top.kind = "array" => Len(stack) = Top.base + 1
        /\ Top.kind = "object" => Len(stack) = Top.base + 2
    BY <1>t, <1>v DEF Pending, Step
  <2>2. stack[Len(stack)] = ValueAt(t, l, l[k].values[j])
    BY <1>t, <1>v DEF Inside
  <2>3. Top.kind = "object" => stack[Top.base + 1] = KeyOf(t, l, k, j)
    BY <1>k, <1>v DEF Keyed, Top
  <2>4. Len(stack) + 1 - 1 = Len(stack)
    BY <1>0
  <2>5. Top.kind = "array" => Len(stack) + 1 - 2 = Top.base
    BY <1>0, <1>t, <1>v, <2>1
  <2>6. Top.kind = "object" => Len(stack) + 1 - 3 = Top.base /\ Len(stack) + 1 - 2 = Top.base + 1
    BY <1>0, <1>t, <1>v, <2>1
  <2>7. stack[Top.base] = Table(k)
    BY <1>t, <1>v
  <2> QED
    BY <2>1, <2>2, <2>3, <2>4, <2>5, <2>6, <2>7 DEF Slot
<1>7. CASE StoreElement
  <2>1. pc = "return" /\ frames # <<>> /\ Top.kind = "array" /\ pos' = pos /\ stray' = stray
    BY <1>7 DEF StoreElement
  <2>2. Slot(2) = Table(k) /\ IsTable(Slot(2)) /\ Slot(2).id = k
    BY <1>v, <2>1 DEF IsTable, Table
  <2>3. /\ pc' = "separator" /\ stack' = Pop(stack, 1)
        /\ heap' = [heap EXCEPT ![k] = Assign(@, Index(Top.index), Slot(1))]
        /\ frames' = [frames EXCEPT ![n].index = @ + 1]
    BY <1>7, <2>2 DEF StoreElement
  <2>4. KeyOf(t, l, k, j) = Index(Top.index)
    BY <1>t, <2>1, Innermost DEF KeyOf
  <2>5. /\ Len(frames') = n
        /\ \A i \in 1 .. n : /\ frames'[i].base = frames[i].base
                             /\ frames'[i].kind = frames[i].kind
                             /\ frames'[i].tab = frames[i].tab
        /\ \A i \in 1 .. n - 1 : frames'[i].index = frames[i].index
        /\ frames'[n].index = Top.index + 1
    <3> DEFINE g == [Top EXCEPT !.index = @ + 1]
    <3>1. frames \in Seq(Frame) /\ n \in 1 .. n /\ Top \in Frame /\ n \in Nat
      BY <1>t, <2>1 DEF Here, Shape, TypeOK, Top
    <3>2. /\ g \in Frame /\ g.base = Top.base /\ g.kind = Top.kind /\ g.tab = Top.tab
          /\ g.index = Top.index + 1
      <4>1. Top.index + 1 \in Nat \ {0}
        BY <3>1 DEF Frame
      <4> QED
        BY <3>1, <4>1 DEF Frame
    <3>3. frames' = [frames EXCEPT ![n] = g]
      BY <2>3 DEF Top
    <3>4. /\ Len(frames') = n
          /\ \A i \in 1 .. n : frames'[i] = IF i = n THEN g ELSE frames[i]
      BY <3>1, <3>2, <3>3, ExceptSeq
    <3>5. \A i \in 1 .. n - 1 : i \in 1 .. n /\ i # n
      BY <3>1
    <3> HIDE DEF g
    <3> QED
      BY <3>1, <3>2, <3>4, <3>5 DEF Top
  <2>6. \A s \in 1 .. Top.base : stack'[s] = stack[s]
    <3>1. Len(stack) = Top.base + 1 /\ Top.base \in Nat
      BY <1>t, <1>v, <2>1
    <3>2. 1 \in Nat /\ 1 <= Len(stack) /\ Len(stack) - 1 = Top.base
      BY <3>1
    <3> QED
      BY <1>0, <2>3, <3>2, PopProperties
  <2>7. heap' = [heap EXCEPT ![Top.tab] = Assign(@, KeyOf(t, l, Top.tab, of[Len(frames)]),
                     ValueAt(t, l, l[Top.tab].values[of[Len(frames)]]))]
    BY <1>v, <2>1, <2>3, <2>4
  <2>8. Reads(t, l)'
    BY <2>1, <2>3, <2>5, <2>6, <2>7, StoreReads
  <2> QED
    BY <1>0, <2>1, <2>3, <2>8 DEF Running
<1>8. CASE StoreMember
  <2>1. pc = "return" /\ frames # <<>> /\ Top.kind = "object" /\ pos' = pos /\ stray' = stray
        /\ frames' = frames
    BY <1>8 DEF StoreMember
  <2>2. Slot(3) = Table(k) /\ IsTable(Slot(3)) /\ Slot(3).id = k /\ Slot(2) = KeyOf(t, l, k, j)
        /\ Slot(2) # Nil
    <3>1. Slot(3) = Table(k) /\ Slot(2) = KeyOf(t, l, k, j)
      BY <1>v, <2>1
    <3> QED
      BY <1>t, <2>1, <3>1 DEF IsTable, Table, KeyOf, Atom, Nil
  <2>3. /\ pc' = "separator" /\ stack' = Pop(stack, 2)
        /\ heap' = [heap EXCEPT ![k] = Assign(@, KeyOf(t, l, k, j), Slot(1))]
    BY <1>8, <2>2 DEF StoreMember
  <2>6. \A s \in 1 .. Top.base : stack'[s] = stack[s]
    <3>1. Len(stack) = Top.base + 2 /\ Top.base \in Nat
      BY <1>t, <1>v, <2>1
    <3>2. 2 \in Nat /\ 2 <= Len(stack) /\ Len(stack) - 2 = Top.base
      BY <3>1
    <3> QED
      BY <1>0, <2>3, <3>2, PopProperties
  <2>7. heap' = [heap EXCEPT ![Top.tab] = Assign(@, KeyOf(t, l, Top.tab, of[Len(frames)]),
                     ValueAt(t, l, l[Top.tab].values[of[Len(frames)]]))]
    BY <1>v, <2>1, <2>3
  <2>8. Reads(t, l)'
    BY <2>1, <2>3, <2>6, <2>7, StoreReads
  <2> QED
    BY <1>0, <2>1, <2>3, <2>8 DEF Running
<1>9. CASE Separator
  <2>1. /\ pc = "separator" /\ stack' = stack /\ heap' = heap /\ stray' = stray /\ frames # <<>>
        /\ j > 1 /\ pos = Before(t, l, k, j)
    BY <1>9, <1>t DEF Separator, Here, Shape, InContainer, Inside
  <2>2. CASE j <= Len(l[k].values)
    <3>1. At(t, pos) = ","
      BY <1>m, <2>1, <2>2
    <3>2. pos' = pos + 1 /\ pc' = "item" /\ frames' = frames /\ ~Opens(t, pos)
      BY <1>0, <1>9, <3>1 DEF Separator, Opens
    <3>3. Top' = Top
      BY <3>2 DEF Top
    <3>4. Inside(t, l, Top.tab, of[Len(frames)])'
      BY <2>1, <2>2, <3>2, <3>3 DEF Inside
    <3>5. Reads(t, l)'
      BY <2>1, <3>2, <3>4, StayReads
    <3> QED
      BY <1>0, <2>1, <3>2, <3>5 DEF Running
  <2>3. CASE ~(j <= Len(l[k].values))
    <3>1. j = Len(l[k].values) + 1 /\ pos = l[k].close /\ Look = Closer(Top.kind)
      BY <1>0, <1>c, <2>1, <2>3
    <3>2. pos' = pos + 1 /\ frames' = Pop(frames, 1) /\ pc' = "return"
      BY <1>9, <3>1 DEF Separator, Closer
    <3>3. Reads(t, l)'
      BY <2>1, <3>1, <3>2, CloseReads
    <3> QED
      BY <1>0, <2>1, <3>2, <3>3 DEF Running
  <2> QED
    BY <2>2, <2>3
<1>10. CASE Return
  <2>1. /\ pc = "return" /\ frames = <<>> /\ pc' = "done"
        /\ UNCHANGED <<text, pos, frames, stack, heap, stray>>
    BY <1>10 DEF Return
  <2>2. TablesRead(t, l)'
    BY <2>1 DEF Here, ReadsAt, TablesRead
  <2>3. CallsRead(t, l, of)'
    BY <2>1 DEF Here, ReadsAt, CallsRead, Outside
  <2> QED
    BY <1>0, <2>1, <2>2, <2>3 DEF ReadsAt, Reads
<1> QED
  BY <1>1, <1>2, <1>3, <1>4, <1>5, <1>6, <1>7, <1>8, <1>9, <1>10 DEF Next

\* However far it has come with a document, the parser has read what its layout
\* says and nothing else, or the document was nested too deep.
DocumentsRead ==
    \A d \in Documents : text = d.text =>
        \/ /\ stray = 0 /\ pc \in Running \cup {"done"}
           /\ pc = "done" => frames = <<>>
           /\ Reads(d.text, d.layout)
        \/ pc = "undefined" /\ ~Fits(d.layout, MinStack)

\* Every step of the reader keeps it.
LEMMA DocumentsReadStep ==
    Shape /\ Balanced /\ DocumentsRead /\ [Next]_vars => DocumentsRead'
<1> SUFFICES ASSUME Shape, Balanced, DocumentsRead, [Next]_vars,
                    NEW d \in Documents, text' = d.text
             PROVE  \/ /\ stray' = 0 /\ pc' \in Running \cup {"done"}
                       /\ pc' = "done" => frames' = <<>>
                       /\ Reads(d.text, d.layout)'
                    \/ pc' = "undefined" /\ ~Fits(d.layout, MinStack)
  BY DEF DocumentsRead
<1> PICK t, l : /\ t = d.text
                /\ l = d.layout
  OBVIOUS
<1>1. IsLayout(t, l)
  BY LayoutAssumption
<1>2. text = t
  BY DEF Next, vars, ParseScalar, OpenTable, Opened, ArrayItem, ObjectKey, ObjectColon,
         StoreElement, StoreMember, Separator, Overrun, Return
<1>6. CASE pc = "undefined" /\ ~Fits(l, MinStack)
  <2>1. pc' = pc
    BY <1>6, Zenon DEF Next, vars, ParseScalar, OpenTable, Opened, ArrayItem, ObjectKey, ObjectColon,
                StoreElement, StoreMember, Separator, Overrun, Pushes, Return
  <2> QED
    BY <1>6, <2>1
<1> SUFFICES ASSUME ~(pc = "undefined" /\ ~Fits(l, MinStack))
             PROVE  \/ /\ stray' = 0 /\ pc' \in Running \cup {"done"}
                       /\ pc' = "done" => frames' = <<>>
                       /\ Reads(d.text, d.layout)'
                    \/ pc' = "undefined" /\ ~Fits(d.layout, MinStack)
  BY <1>6
<1>3. stray = 0 /\ pc \in Running \cup {"done"} /\ (pc = "done" => frames = <<>>) /\ Reads(t, l)
  <2>1. /\ stray = 0 /\ pc \in Running \cup {"done"} /\ (pc = "done" => frames = <<>>)
        /\ Reads(d.text, d.layout)
    BY <1>2 DEF DocumentsRead
  <2> QED
    BY <2>1
<1>4. CASE UNCHANGED vars
  <2>1. PICK of : TablesRead(t, l) /\ CallsRead(t, l, of)
    BY <1>3 DEF Reads, ReadsAt
  <2>2. TablesRead(t, l)'
    BY <1>4, <2>1 DEF vars, TablesRead
  <2>3. CallsRead(t, l, of)'
    BY <1>4, <2>1 DEF vars, CallsRead, FrameReads, Keyed, Outside, Inside, Top
  <2>4. Reads(t, l)'
    BY <2>2, <2>3 DEF Reads, ReadsAt
  <2>5. Reads(d.text, d.layout)'
    BY <2>4
  <2> QED
    BY <1>3, <1>4, <2>5 DEF vars
<1>5. CASE Next
  <2>1. pc \in Running
    <3>1. pc # "done"
      BY <1>5 DEF Next, ParseScalar, OpenTable, Opened, ArrayItem, ObjectKey, ObjectColon,
                  StoreElement, StoreMember, Separator, Overrun, Pushes, Return
    <3> QED
      BY <1>3, <3>1
  <2>2. PICK of : ReadsAt(t, l, of)
    BY <1>3 DEF Reads
  <2>3. Here(t, l, of)
    BY <1>1, <1>2, <1>3, <2>1, <2>2 DEF Here
  <2>4. CASE Overrun
    <3>1. pc' = "undefined" /\ ~Fits(l, MinStack)
      BY <2>3, <2>4, OverrunUnfit DEF Overrun
    <3> QED
      BY <3>1
  <2>5. CASE ~Overrun
    <3>1. /\ stray' = 0 /\ Reads(t, l)'
          /\ pc' \in Running \/ (pc' = "done" /\ frames' = <<>>)
      BY <1>5, <2>3, <2>5, ReadsStep
    <3>2. Reads(d.text, d.layout)'
      BY <3>1
    <3> QED
      BY <3>1, <3>2 DEF Running
  <2> QED
    BY <2>4, <2>5
<1> QED
  BY <1>4, <1>5

\* Before anything is read there is nothing to have read wrong.
LEMMA DocumentsReadInit == Init => DocumentsRead
<1> SUFFICES ASSUME Init, NEW d \in Documents PROVE Reads(d.text, d.layout)
  BY DEF DocumentsRead, Init, Running
<1> PICK t, l : /\ t = d.text
                /\ l = d.layout
  OBVIOUS
<1>1. IsLayout(t, l)
  BY LayoutAssumption
<1>2. frames = <<>> /\ heap = <<>> /\ pos = 1 /\ pc = "value" /\ Len(frames) = 0 /\ Len(heap) = 0
  BY DEF Init
<1>3. \A k \in DOMAIN l : k \in Nat \ {0} /\ l[k].open \in Nat \ {0}
  BY <1>1, LayoutTypes
<1>4. TablesRead(t, l)
  BY <1>2, <1>3 DEF TablesRead
<1>5. CallsRead(t, l, [i \in {} |-> 1])
  BY <1>2 DEF CallsRead, Outside
<1> QED
  BY <1>4, <1>5 DEF Reads, ReadsAt

\* What a document that is read to its end leaves.
LEMMA DocumentsReadResult == Shape /\ DocumentsRead => ReadsDocument
<1> SUFFICES ASSUME Shape, DocumentsRead, pc \in Final, NEW d \in Documents, text = d.text,
                    ~(pc = "undefined" /\ ~Fits(d.layout, MinStack))
             PROVE  /\ pc = "done" /\ pos = Len(text) + 1
                    /\ stack = <<ValueAt(text, d.layout, 1)>>
                    /\ heap = HeapOf(text, d.layout)
  BY DEF ReadsDocument
<1> PICK l : l = d.layout
  OBVIOUS
<1>1. IsLayout(text, l)
  BY LayoutAssumption
<1>2. pc = "done" /\ frames = <<>> /\ Reads(text, l)
  BY DEF DocumentsRead, Running, Final
<1>3. TablesRead(text, l) /\ Outside(text, l)
  BY <1>2 DEF Reads, ReadsAt, CallsRead
<1>4. pos = Len(text) + 1 /\ stack = <<ValueAt(text, l, 1)>>
  BY <1>1, <1>2, <1>3 DEF Outside, IsLayout
<1>5. /\ heap \in Seq(Entries) /\ Len(heap) \in Nat /\ text \in Seq(Lexeme) /\ Len(text) \in Nat
      /\ DOMAIN l = 1 .. Len(l) /\ Len(l) \in Nat
  BY <1>1, LayoutTypes, TextsAssumption DEF Shape, TypeOK
<1>6. \A k \in DOMAIN l : k <= Len(heap)
  <2> SUFFICES ASSUME NEW k \in DOMAIN l PROVE l[k].open < pos
    BY <1>3 DEF TablesRead
  <2>1. Opens(text, l[k].open) /\ l[k].open \in Nat
    BY <1>1, LayoutTypes
  <2>2. l[k].open <= Len(text)
    BY <2>1 DEF Opens, At
  <2> QED
    BY <1>4, <1>5, <2>1, <2>2
<1>7. \A k \in 1 .. Len(heap) : k \in DOMAIN l /\ heap[k] = EntriesUpto(text, l, k, Len(l[k].values))
  BY <1>2, <1>3 DEF TablesRead
<1>8. Len(heap) = Len(l)
  <2>1. Len(heap) <= Len(l)
    <3>1. CASE Len(heap) = 0
      BY <1>5, <3>1
    <3>2. CASE Len(heap) # 0
      <4>1. Len(heap) \in 1 .. Len(heap)
        BY <1>5, <3>2
      <4> QED
        BY <1>5, <1>7, <4>1
    <3> QED
      BY <3>1, <3>2
  <2>2. Len(l) <= Len(heap)
    <3>1. CASE Len(l) = 0
      BY <1>5, <3>1
    <3>2. CASE Len(l) # 0
      <4>1. Len(l) \in DOMAIN l
        BY <1>5, <3>2
      <4> QED
        BY <1>6, <4>1
    <3> QED
      BY <3>1, <3>2
  <2> QED
    BY <1>5, <2>1, <2>2
<1>9. heap = HeapOf(text, l)
  <2>1. heap = [k \in 1 .. Len(heap) |-> heap[k]]
    BY <1>5
  <2> QED
    BY <1>5, <1>7, <1>8, <2>1 DEF HeapOf
<1> QED
  BY <1>2, <1>4, <1>9

\* Every document within the depth limit, of whatever size, is read to its end
\* and leaves what it denotes: parse_json's recursion loses, misplaces or
\* invents nothing.  One that is nested so deep that its tables, keys and a value
\* need more slots than a C function has may instead come to a push that is not
\* defined; strings with a \uXXXX or beyond ASCII are in no document.
THEOREM ReadsDocumentAlways == Spec => []ReadsDocument
  BY DocumentsReadInit, DocumentsReadStep, DocumentsReadResult, ShapeInvariant, BalancedInvariant,
     PTL DEF Spec

-----------------------------------------------------------------------------
(* The pipeline: the writer on what the reader leaves of a plain document. *)

\* The writer as a module of its own, with what is proved of it.
P == INSTANCE JsonSerializerProofs WITH Heaps <- DocumentHeaps

\* The pipeline's writer takes the steps of that module.
LEMMA WriterSteps == W!Next = P!Next
BY Zenon DEF W!EnterTooDeep, P!EnterTooDeep, W!Enter, P!Enter, W!ScanIndex, P!ScanIndex,
   W!ScanOther, P!ScanOther, W!ScanEnd, P!ScanEnd, W!ArrayItem, P!ArrayItem, W!ArrayEnd, P!ArrayEnd,
   W!ObjectItem, P!ObjectItem, W!ObjectInvalidKey, P!ObjectInvalidKey, W!ObjectEnd, P!ObjectEnd,
   W!ItemWritten, P!ItemWritten, W!Pushes, P!Pushes, W!Overrun, P!Overrun, W!Return, P!Return,
   W!Next, P!Next, W!IsAtomIn, P!IsAtomIn,
   W!IsString, P!IsString, W!ToText, P!ToText, W!IsNumberEqual, P!IsNumberEqual, W!RawGet, P!RawGet,
   W!Sequential, P!Sequential, W!Orders, P!Orders, W!Caller, P!Caller, W!FromTop, P!FromTop, W!Tab,
   P!Tab, W!KnownKey, P!KnownKey, W!Place, P!Place, W!HasNext, P!HasNext, W!NextEntry, P!NextEntry,
   W!ValueText, P!ValueText, W!KeyText, P!KeyText, W!Comma, P!Comma, W!Emit, P!Emit, W!SetCaller,
   P!SetCaller, W!Finish, P!Finish, W!StartObject, P!StartObject, W!Pop, P!Pop, W!Nil, P!Nil,
   W!Atom, P!Atom, W!Index, P!Index, W!Table, P!Table, W!IsTable, P!IsTable,
   W!SetToSeqs, P!SetToSeqs, W!Cardinality, P!Cardinality

\* The texts it may write are those of that module.
LEMMA WriterTexts == \A h : W!TableTexts(h) = P!TableTexts(h)
BY Zenon DEF W!TableTexts, P!TableTexts, W!EntryTexts, P!EntryTexts, W!ListTexts, P!ListTexts,
   W!Lists, P!Lists, W!Lead, P!Lead, W!Name, P!Name, W!ValueTexts,
   P!ValueTexts, W!Lexeme, P!Lexeme, W!IsTable, P!IsTable, W!Range,
   P!Range, W!Bracketed, P!Bracketed, W!IsSequence, P!IsSequence, W!Orders, P!Orders, W!Sequential,
   P!Sequential, W!SetToSeqs, P!SetToSeqs, W!Cardinality, P!Cardinality, W!Index, P!Index

\* Its values and its notions of finite sets are those of the reader.
LEMMA SameValues ==
    /\ P!Nil = Nil /\ P!Value = Value /\ P!Key = Key
    /\ \A x : P!Atom(x) = Atom(x) /\ P!Table(x) = Table(x) /\ P!Index(x) = Index(x)
    /\ \A v : P!IsTable(v) <=> IsTable(v)
BY Zenon DEF P!Nil, Nil, P!Value, Value, P!Key, Key, P!Atom, Atom, P!Table, Table, P!Index, Index,
     P!IsTable, IsTable

\* Finite sets and their sizes are too.
LEMMA SameFiniteSets == \A S : /\ P!Cardinality(S) = Cardinality(S)
                               /\ P!IsFiniteSet(S) <=> IsFiniteSet(S)
BY Zenon DEF P!Cardinality, Cardinality, P!IsFiniteSet, IsFiniteSet

-----------------------------------------------------------------------------
(* The heap the reader leaves of a plain document.                         *)

\* A value of a layout is a Lua value; a table is one of the layout's.
LEMMA ValueType ==
    ASSUME NEW t, NEW l, IsLayout(t, l), NEW p, NEW d, IsValue(t, l, p, d)
    PROVE  /\ ValueAt(t, l, p) \in Value
           /\ IsTable(ValueAt(t, l, p)) => ValueAt(t, l, p).id \in DOMAIN l
<1>1. CASE ValueAt(t, l, p) = Scalar(At(t, p))
  BY <1>1, ScalarType DEF Scalar, IsTable, Atom, Nil
<1>2. CASE \E k \in DOMAIN l : ValueAt(t, l, p) = Table(k)
  <2>1. PICK k \in DOMAIN l : ValueAt(t, l, p) = Table(k)
    BY <1>2
  <2>2. k \in Nat \ {0}
    BY LayoutTypes
  <2> QED
    BY <2>1, <2>2 DEF Table, Value
<1> QED
  BY <1>1, <1>2, ValueIs

\* Of an entry: the member it is of, the last one with its key.
IsEntry(t, l, k, j, e) ==
    /\ e = <<KeyOf(t, l, k, j), ValueAt(t, l, l[k].values[j])>>
    /\ ValueAt(t, l, l[k].values[j]) # Nil
    /\ \A m \in j + 1 .. Len(l[k].values) : KeyOf(t, l, k, m) # KeyOf(t, l, k, j)

\* These are the entries the reader leaves.
LEMMA HeapEntries ==
    ASSUME NEW t, NEW l, NEW k \in DOMAIN l
    PROVE  /\ DOMAIN HeapOf(t, l) = DOMAIN l
           /\ \A e : e \in HeapOf(t, l)[k] <=> \E j \in 1 .. Len(l[k].values) : IsEntry(t, l, k, j, e)
<1>1. HeapOf(t, l)[k] = EntriesUpto(t, l, k, Len(l[k].values)) /\ DOMAIN HeapOf(t, l) = DOMAIN l
  BY DEF HeapOf
<1> QED
  BY <1>1, Zenon DEF EntriesUpto, IsEntry

\* What the keys and the values of a plain document are.
LEMMA EntryType ==
    ASSUME NEW t, NEW l, IsLayout(t, l), Plain(t, l), NEW k \in DOMAIN l,
           NEW j \in 1 .. Len(l[k].values), NEW e, IsEntry(t, l, k, j, e)
    PROVE  /\ e \in Key \X Value /\ e[1] # Nil
           /\ IsTable(e[2]) => e[2].id \in DOMAIN l
           /\ \/ KindOf(t, l, k) = "array" /\ e[1] = Index(j) /\ j <= Len(Digits)
              \/ KindOf(t, l, k) = "object" /\ \E s \in Str : e[1] = Atom(s)
           /\ P!PlainEntry(e)
<1> DEFINE p == l[k].values[j]
<1>1. IsValue(t, l, p, l[k].depth + 1) /\ (KindOf(t, l, k) = "object" => At(t, p - 2) \in Str)
  BY DEF IsLayout
<1>2. ValueAt(t, l, p) \in Value /\ (IsTable(ValueAt(t, l, p)) => ValueAt(t, l, p).id \in DOMAIN l)
  BY <1>1, ValueType
<1>3. j \in Nat \ {0} /\ KindOf(t, l, k) \in {"array", "object"}
  BY LayoutTypes
<1>4. e = <<KeyOf(t, l, k, j), ValueAt(t, l, p)>>
  BY DEF IsEntry
<1>7. P!IsAtomIn(e[2], Str) => e[2].v \notin Unsafe \ Escaped
  <2>1. At(t, p) \in Str => At(t, p) \notin Unsafe \ Escaped
    BY DEF Plain
  <2>2. \/ ValueAt(t, l, p) = Scalar(At(t, p)) /\ At(t, p) \notin Hex
        \/ \E m \in DOMAIN l : ValueAt(t, l, p) = Table(m)
    <3>1. ~Opens(t, p) => At(t, p) \notin Hex
      BY <1>1, LexemeAssumption DEF IsValue
    <3> QED
      BY <1>1, <3>1, ValueIs
  <2>3. P!IsAtomIn(ValueAt(t, l, p), Str) => ValueAt(t, l, p).v = At(t, p) /\ At(t, p) \in Str
    <3>1. \A m : ~P!IsAtomIn(Table(m), Str)
      BY DEF P!IsAtomIn, Table
    <3>2. ~P!IsAtomIn(Nil, Str)
      BY DEF P!IsAtomIn, Nil
    <3>3. \A x : Atom(x).v = x /\ (P!IsAtomIn(Atom(x), Str) => x \in Str)
      BY DEF P!IsAtomIn, Atom
    <3> HIDE DEF p
    <3>4. CASE \E m \in DOMAIN l : ValueAt(t, l, p) = Table(m)
      BY <3>1, <3>4
    <3>5. CASE ValueAt(t, l, p) = Scalar(At(t, p)) /\ At(t, p) \notin Hex
      <4>1. ValueAt(t, l, p) = Nil \/ ValueAt(t, l, p) = Atom(At(t, p))
        BY <3>5, StringPushed
      <4> QED
        BY <3>2, <3>3, <4>1
    <3> QED
      BY <2>2, <3>4, <3>5
  <2> HIDE DEF p
  <2> QED
    BY <1>4, <2>1, <2>3
<1>5. CASE KindOf(t, l, k) = "array"
  <2>1. KeyOf(t, l, k, j) = Index(j) /\ j <= Len(Digits)
    BY <1>5 DEF KeyOf, Plain
  <2>3. ~P!IsAtomIn(Index(j), Str)
    BY DEF P!IsAtomIn, Index
  <2>2. Index(j) \in Key /\ Index(j) # Nil
    BY <1>3 DEF Index, Key, Nil
  <2> HIDE DEF p
  <2> QED
    BY <1>2, <1>4, <1>5, <1>7, <2>1, <2>2, <2>3 DEF P!PlainEntry
<1>6. CASE KindOf(t, l, k) = "object"
  <2>1. KeyOf(t, l, k, j) = Atom(At(t, p - 2)) /\ At(t, p - 2) \in Str
    BY <1>1, <1>6 DEF KeyOf
  <2>2. IndexOf[At(t, p - 2)] = 0 /\ At(t, p - 2) \notin Unsafe
    BY <1>6 DEF Plain
  <2>3. \A s \in Str : Atom(s) \in Key /\ Atom(s) # Nil
    BY DEF Atom, Key, Value, Nil
  <2>4. Atom(At(t, p - 2)).v = At(t, p - 2)
    BY DEF Atom
  <2> HIDE DEF p
  <2> QED
    BY <1>2, <1>4, <1>6, <1>7, <2>1, <2>2, <2>3, <2>4 DEF P!PlainEntry
<1> QED
  BY <1>3, <1>5, <1>6

\* The tables are finite and have one entry for each key.
LEMMA EntriesFinite ==
    ASSUME NEW t, NEW l, IsLayout(t, l), NEW k \in DOMAIN l
    PROVE  IsFiniteSet(HeapOf(t, l)[k])
<1> DEFINE n == Len(l[k].values)
           J == {i \in 1 .. n : /\ ValueAt(t, l, l[k].values[i]) # Nil
                                /\ \A m \in i + 1 .. n : KeyOf(t, l, k, m) # KeyOf(t, l, k, i)}
           E(j) == <<KeyOf(t, l, k, j), ValueAt(t, l, l[k].values[j])>>
<1>1. n \in Nat
  BY LayoutTypes
<1>2. IsFiniteSet(1 .. n)
  BY <1>1, FS_Interval
<1>3. IsFiniteSet(J)
  BY <1>2, FS_Subset
<1>4. HeapOf(t, l)[k] = {E(j) : j \in J}
  BY Zenon DEF HeapOf, EntriesUpto
<1>5. IsFiniteSet({E(j) : j \in J})
  <2> DEFINE f == [j \in J |-> E(j)]
  <2> HIDE DEF J, E
  <2>1. f \in Surjection(J, {E(j) : j \in J})
    BY Zenon DEF Surjection
  <2> QED
    BY <1>3, <2>1, FS_Surjection
<1> QED
  BY <1>4, <1>5

\* Of equal keys one entry is left.
LEMMA KeysOnce ==
    ASSUME NEW t, NEW l, IsLayout(t, l), NEW k \in DOMAIN l,
           NEW e \in HeapOf(t, l)[k], NEW f \in HeapOf(t, l)[k], e[1] = f[1]
    PROVE  e = f
<1>1. PICK i \in 1 .. Len(l[k].values) : IsEntry(t, l, k, i, e)
  BY HeapEntries
<1>2. PICK j \in 1 .. Len(l[k].values) : IsEntry(t, l, k, j, f)
  BY HeapEntries
<1>3. KeyOf(t, l, k, i) = KeyOf(t, l, k, j)
  BY <1>1, <1>2 DEF IsEntry
<1>4. Len(l[k].values) \in Nat
  BY LayoutTypes
<1>5. ~(i < j) /\ ~(j < i)
  <2>1. i < j => j \in i + 1 .. Len(l[k].values)
    BY <1>4
  <2>2. j < i => i \in j + 1 .. Len(l[k].values)
    BY <1>4
  <2> QED
    BY <1>1, <1>2, <1>3, <2>1, <2>2 DEF IsEntry
<1>6. i = j
  BY <1>4, <1>5
<1> QED
  BY <1>1, <1>2, <1>6 DEF IsEntry

\* An array without a null in it is a sequence.
LEMMA ArraySequential ==
    ASSUME NEW t, NEW l, IsLayout(t, l), Plain(t, l), NEW k \in DOMAIN l, KindOf(t, l, k) = "array"
    PROVE  LET h == HeapOf(t, l)
           IN  /\ Cardinality(h[k]) = Len(l[k].values)
               /\ \A j \in 1 .. Len(l[k].values) : \E e \in h[k] : e[1] = Index(j)
<1> DEFINE n == Len(l[k].values)
           T == HeapOf(t, l)[k]
           f == [j \in 1 .. n |-> <<Index(j), ValueAt(t, l, l[k].values[j])>>]
<1>1. n \in Nat /\ \A j \in 1 .. n : j \in Nat
  BY LayoutTypes
<1>2. ASSUME NEW j \in 1 .. n PROVE IsEntry(t, l, k, j, f[j])
  <2>1. \A m \in 1 .. n : KeyOf(t, l, k, m) = Index(m)
    BY DEF KeyOf
  <2>2. \A m \in j + 1 .. n : m \in 1 .. n /\ m # j
    BY <1>1
  <2>3. \A i, m : Index(i) = Index(m) => i = m
    BY DEF Index
  <2>4. ValueAt(t, l, l[k].values[j]) # Nil
    BY DEF Plain
  <2>5. f[j] = <<KeyOf(t, l, k, j), ValueAt(t, l, l[k].values[j])>>
    BY <2>1
  <2> HIDE DEF f
  <2> QED
    BY <2>1, <2>2, <2>3, <2>4, <2>5 DEF IsEntry
<1>3. ASSUME NEW e \in T PROVE \E j \in 1 .. n : e = f[j]
  <2>1. PICK j \in 1 .. n : IsEntry(t, l, k, j, e)
    BY HeapEntries
  <2>2. e = <<KeyOf(t, l, k, j), ValueAt(t, l, l[k].values[j])>> /\ KeyOf(t, l, k, j) = Index(j)
    BY <2>1 DEF IsEntry, KeyOf
  <2> QED
    BY <2>2
<1>4. \A j \in 1 .. n : f[j] \in T
  BY <1>2, HeapEntries, Zenon
<1>5. \A i, j \in 1 .. n : f[i] = f[j] => i = j
  BY DEF Index
<1>6. DOMAIN f = 1 .. n /\ \A j \in 1 .. n : f[j][1] = Index(j)
  OBVIOUS
<1> HIDE DEF f
<1>7. f \in Bijection(1 .. n, T)
  <2>1. f \in [1 .. n -> T]
    <3>1. f = [j \in 1 .. n |-> f[j]]
      BY DEF f
    <3> QED
      BY <1>4, <3>1
  <2> QED
    BY <1>3, <1>5, <2>1 DEF Bijection, Injection, Surjection, IsInjective
<1>8. ExistsBijection(1 .. n, T)
  BY <1>7 DEF ExistsBijection
<1>9. Cardinality(T) = n
  <2>1. IsFiniteSet(1 .. n) /\ Cardinality(1 .. n) = n
    BY <1>1, FS_Interval
  <2> QED
    BY <1>8, <2>1, FS_Bijection
<1> QED
  BY <1>4, <1>6, <1>9

\* The tables the writer may be given are well-formed, and each heap has a first one.
LEMMA HeapsWellFormed ==
    \A h \in DocumentHeaps : h \in Seq(P!Range(h)) /\ h # <<>> /\ \A t \in P!Range(h) : P!WellFormed(t, h)
<1> SUFFICES ASSUME NEW d \in PlainDocuments
             PROVE  LET h == HeapOf(d.text, d.layout)
                    IN  h \in Seq(P!Range(h)) /\ h # <<>> /\ \A t \in P!Range(h) : P!WellFormed(t, h)
  BY Zenon DEF DocumentHeaps
<1> PICK t, l : t = d.text /\ l = d.layout
  OBVIOUS
<1> DEFINE h == HeapOf(t, l)
<1>1. IsLayout(t, l) /\ Plain(t, l) /\ l # <<>>
  BY LayoutAssumption DEF PlainDocuments, Plain
<1>2. DOMAIN l = 1 .. Len(l) /\ Len(l) \in Nat
  BY <1>1, LayoutTypes
<1>3. DOMAIN h = 1 .. Len(l)
  BY <1>2 DEF HeapOf
<1>4. P!Range(h) = {h[k] : k \in 1 .. Len(l)}
  BY <1>3, Zenon DEF P!Range
<1>5. h \in Seq(P!Range(h))
  <2>1. h = [k \in 1 .. Len(l) |-> h[k]]
    BY <1>2 DEF HeapOf
  <2> HIDE DEF h
  <2> QED
    BY <1>2, <1>4, <2>1
<1>6. h # <<>>
  <2>1. Len(l) # 0
    <3>1. l \in Layouts
      BY <1>1 DEF IsLayout
    <3> QED
      BY <1>1, <3>1 DEF Layouts
  <2>2. 1 \in DOMAIN h
    BY <1>2, <1>3, <2>1
  <2> HIDE DEF h
  <2> QED
    BY <2>2
<1>7. ASSUME NEW k \in 1 .. Len(l) PROVE P!WellFormed(h[k], h)
  <2>1. k \in DOMAIN l
    BY <1>2
  <2>2. P!IsFiniteSet(h[k])
    BY <1>1, <2>1, EntriesFinite, SameFiniteSets
  <2>3. ASSUME NEW e \in h[k]
        PROVE  /\ e \in Key \X Value /\ e[1] # Nil
               /\ e[1].ty = "index" => e[1].n <= Len(Digits)
               /\ e[2].ty = "table" => e[2].id \in DOMAIN h
               /\ \A f \in h[k] : f[1] = e[1] => f = e
    <3>1. PICK j \in 1 .. Len(l[k].values) : IsEntry(t, l, k, j, e)
      BY <2>1, HeapEntries
    <3>2. /\ e \in Key \X Value /\ e[1] # Nil
          /\ IsTable(e[2]) => e[2].id \in DOMAIN l
          /\ \/ e[1] = Index(j) /\ j <= Len(Digits)
             \/ \E s \in Str : e[1] = Atom(s)
      BY <1>1, <2>1, <3>1, EntryType
    <3>3. e[1].ty = "index" => e[1].n <= Len(Digits)
      BY <3>2 DEF Index, Atom
    <3>4. e[2].ty = "table" => e[2].id \in DOMAIN h
      BY <1>2, <1>3, <3>2 DEF IsTable
    <3>5. \A f \in h[k] : f[1] = e[1] => f = e
      BY <1>1, <2>1, KeysOnce
    <3> QED
      BY <3>2, <3>3, <3>4, <3>5
  <2>4. h[k] \subseteq P!Key \X (P!Value \cup {P!Opaque}) /\ P!Nil = Nil
    BY <2>3, SameValues
  <2> HIDE DEF h
  <2> QED
    BY <2>2, <2>3, <2>4 DEF P!WellFormed
<1> HIDE DEF h
<1>8. \A u \in P!Range(h) : P!WellFormed(u, h)
  BY <1>4, <1>7
<1> QED
  BY <1>5, <1>6, <1>8 DEF h

\* What the writer assumes of its constants.
LEMMA WriterAssumptions ==
    /\ Digits \in Seq(Str) /\ Decimal \in [Num -> Str]
    /\ IndexOf \in [Str -> Nat] /\ \A i \in DOMAIN Digits : IndexOf[Digits[i]] = i
    /\ "badstr" \notin Str /\ \A s \in P!Range(Digits) \cup P!Range(Decimal) : s \notin Unsafe
    /\ MaxNesting \in Nat /\ Slots \in Nat \ {0}
    /\ \A h \in DocumentHeaps : h \in Seq(P!Range(h)) /\ h # <<>> /\ \A t \in P!Range(h) : P!WellFormed(t, h)
<1>1. \A f : W!Range(f) = P!Range(f)
  BY Zenon DEF W!Range, P!Range
<1>2. \A s \in P!Range(Digits) \cup P!Range(Decimal) : s \notin Unsafe
  BY <1>1, ConversionAssumption, Zenon
<1>3. "badstr" \notin Str
  BY LexemeAssumption DEF Reject
<1>4. /\ Digits \in Seq(Str) /\ Decimal \in [Num -> Str]
      /\ IndexOf \in [Str -> Nat] /\ \A i \in DOMAIN Digits : IndexOf[Digits[i]] = i
      /\ MaxNesting \in Nat /\ Slots \in Nat \ {0}
  BY ConversionAssumption, Zenon
<1> QED
  BY <1>2, <1>3, <1>4, HeapsWellFormed, Zenon

\* The keys of a table of a document: indices without a gap, or strings.
Indexed(u) == /\ \A e \in u : e[1].ty = "index"
              /\ u # {} => P!IsSequence(u)
Named(u) == \A e \in u : \E s \in Str : e[1] = Atom(s)

\* That is what the tables of a plain document have, and their entries are plain.
LEMMA TableKeys ==
    ASSUME NEW h \in DocumentHeaps, NEW u \in P!Range(h)
    PROVE  /\ Indexed(u) \/ Named(u)
           /\ \A e \in u : P!PlainEntry(e)
<1>1. PICK d \in PlainDocuments : h = HeapOf(d.text, d.layout)
  BY Zenon DEF DocumentHeaps
<1> PICK t, l : t = d.text /\ l = d.layout
  OBVIOUS
<1>2. IsLayout(t, l) /\ Plain(t, l) /\ h = HeapOf(t, l)
  BY <1>1, LayoutAssumption DEF PlainDocuments
<1>3. PICK k \in DOMAIN l : u = h[k]
  <2>1. DOMAIN h = DOMAIN l
    BY <1>2 DEF HeapOf
  <2> QED
    BY <2>1 DEF P!Range
<1>4. ASSUME NEW e \in u
      PROVE  /\ P!PlainEntry(e)
             /\ \E j \in 1 .. Len(l[k].values) :
                   \/ KindOf(t, l, k) = "array" /\ e[1] = Index(j)
                   \/ KindOf(t, l, k) = "object" /\ \E s \in Str : e[1] = Atom(s)
  <2>1. PICK j \in 1 .. Len(l[k].values) : IsEntry(t, l, k, j, e)
    BY <1>2, <1>3, HeapEntries
  <2> QED
    BY <1>2, <2>1, EntryType
<1>5. \A j, s : Index(j).ty = "index" /\ Index(j) # Atom(s)
  BY DEF Index, Atom
<1>6. CASE KindOf(t, l, k) = "array"
  <2>1. \A e \in u : \E j \in 1 .. Len(l[k].values) : e[1] = Index(j)
    BY <1>4, <1>6
  <2>2. Cardinality(u) = Len(l[k].values) /\ \A j \in 1 .. Len(l[k].values) : \E e \in u : e[1] = Index(j)
    BY <1>2, <1>3, <1>6, ArraySequential
  <2>3. {e[1] : e \in u} = {Index(j) : j \in 1 .. Cardinality(u)}
    BY <2>1, <2>2
  <2>4. u # {} => P!IsSequence(u)
    BY <2>3, SameValues, SameFiniteSets DEF P!IsSequence
  <2> QED
    BY <1>4, <1>5, <2>1, <2>4 DEF Indexed
<1>7. CASE KindOf(t, l, k) = "object"
  BY <1>4, <1>7 DEF Named
<1>8. KindOf(t, l, k) \in {"array", "object"}
  BY <1>2, LayoutTypes
<1> QED
  BY <1>4, <1>6, <1>7, <1>8

\* So all of them are plain heaps of the writer.
LEMMA HeapsPlain == DocumentHeaps = P!PlainHeaps
BY TableKeys, Zenon DEF P!PlainHeaps

\* A number and its text are never both keys of one table.
LEMMA HeapsTwinFree == P!NoTwins
<1> SUFFICES ASSUME NEW h \in DocumentHeaps, NEW u \in P!Range(h), NEW e \in u, NEW f \in u,
                    P!ToText(e[1]) = f[1]
             PROVE  e[1] = f[1]
  BY DEF P!NoTwins
<1>1. CASE Named(u)
  <2>1. PICK s \in Str : e[1] = Atom(s)
    BY <1>1 DEF Named
  <2>2. P!ToText(Atom(s)) = Atom(s)
    BY LexemeAssumption DEF P!ToText, P!IsAtomIn, Atom
  <2> QED
    BY <2>1, <2>2
<1>2. CASE Indexed(u)
  <2>1. e[1].ty = "index" /\ f[1].ty = "index"
    BY <1>2 DEF Indexed
  <2>2. P!ToText(e[1]).ty = "atom"
    BY <2>1 DEF P!ToText, P!Atom
  <2> QED
    BY <2>1, <2>2
<1> QED
  BY <1>1, <1>2, TableKeys

\* Nor does one have a table that the writer would take for an object although it
\* has a number as a key.
LEMMA NothingMixed ==
    ASSUME NEW h \in DocumentHeaps, NEW u \in P!Range(h),
           P!Sequential(u) # 1 .. P!Cardinality(u)
    PROVE  \A e \in u : e[1].ty # "index" /\ ~P!IsAtomIn(e[1], Num)
<1>1. CASE Named(u)
  <2>1. \A s \in Str : Atom(s).ty = "atom" /\ Atom(s).v = s /\ s \notin Num
    BY LexemeAssumption DEF Atom
  <2>2. \A s \in Str : Atom(s).ty # "index" /\ ~P!IsAtomIn(Atom(s), Num)
    BY <2>1 DEF P!IsAtomIn
  <2> QED
    BY <1>1, <2>2 DEF Named
<1>2. CASE Indexed(u) /\ u # {}
  <2>1. P!IsFiniteSet(u)
    BY HeapsWellFormed DEF P!WellFormed
  <2>2. P!Sequential(u) = 1 .. P!Cardinality(u)
    BY <1>2, <2>1, P!SequenceSequential, WriterAssumptions DEF Indexed
  <2> QED
    BY <2>2
<1> QED
  BY <1>1, <1>2, TableKeys

-----------------------------------------------------------------------------
(* The writer at work on such a heap.                                      *)

\* What is proved of the writer, and that it meets no key that lua_next does not
\* know.
Writing ==
    /\ heap \in DocumentHeaps /\ at # "error" /\ P!Shape
    /\ at = "undefined" \/ (P!Progress /\ P!Kinds /\ P!Wrote)

\* That holds where the writer begins.
LEMMA WriterBegins == P!Init => Writing
<1> SUFFICES ASSUME P!Init PROVE Writing
  OBVIOUS
<1>1. heap \in DocumentHeaps /\ at # "error"
  BY DEF P!Init
<1>2. P!Shape
  BY P!ShapeInit, WriterAssumptions
<1>3. P!Progress
  BY P!ProgressInit, WriterAssumptions
<1>4. P!Kinds /\ P!Wrote
  BY P!WroteInit, WriterAssumptions
<1> QED
  BY <1>1, <1>2, <1>3, <1>4 DEF Writing

\* lua_next raises no error: a key is converted only in a table with a number among
\* its keys that is written as an object, and there is none.
LEMMA KeysKnown == ASSUME Writing, P!ObjectInvalidKey PROVE FALSE
<1>1. /\ at = "object" /\ at' = "error" /\ UNCHANGED <<heap, stack, calls>>
      /\ P!Shape /\ P!Progress /\ P!Kinds /\ heap \in DocumentHeaps
  BY DEF P!ObjectInvalidKey, Writing
<1>2. P!ErrorMeansMixed'
  BY <1>1, P!InvalidKeyMeans, WriterAssumptions
<1>3. calls # <<>> /\ calls \in Seq(P!Call)
  BY <1>1 DEF P!Shape, P!Innermost, P!TypeOK
<1>4. Len(calls) \in 1 .. Len(calls)
  BY <1>3
<1>5. P!Caller = calls[Len(calls)]
  BY DEF P!Caller
<1>6. P!Tab(P!Caller) \in P!Range(heap)
  <2>1. /\ stack[calls[Len(calls)].slot].id \in DOMAIN heap
        /\ P!Tab(calls[Len(calls)]) = heap[stack[calls[Len(calls)].slot].id]
    BY <1>1, <1>4, P!CallTables, WriterAssumptions
  <2> QED
    BY <1>5, <2>1 DEF P!Range
<1>7. P!Tab(P!Caller)' = P!Tab(P!Caller)
  BY <1>1 DEF P!Tab, P!Caller
<1>8. /\ \E e \in P!Tab(P!Caller) : e[1].ty = "index" \/ P!IsAtomIn(e[1], Num)
      /\ P!Sequential(P!Tab(P!Caller)) # 1 .. P!Cardinality(P!Tab(P!Caller))
  BY <1>1, <1>2, <1>7 DEF P!ErrorMeansMixed
<1> QED
  BY <1>1, <1>6, <1>8, NothingMixed

\* Every step of the writer keeps it.
LEMMA WriterStep == Writing /\ (P!Next \/ UNCHANGED P!wvars) => Writing'
<1> SUFFICES ASSUME Writing, P!Next \/ UNCHANGED P!wvars PROVE Writing'
  OBVIOUS
<1>1. /\ heap \in DocumentHeaps /\ heap \in P!PlainHeaps /\ at # "error" /\ P!NoTwins /\ P!ErrorMeansMixed
      /\ P!Shape
  BY HeapsPlain, HeapsTwinFree DEF Writing, P!ErrorMeansMixed
<1>2. [P!Next]_P!wvars
  OBVIOUS
<1>3. P!Shape'
  BY <1>1, <1>2, P!ShapeStep, WriterAssumptions
<1>7. heap' = heap
  BY DEF P!Next, P!wvars, P!EnterTooDeep, P!Enter, P!ScanIndex, P!ScanOther, P!ScanEnd, P!ArrayItem,
         P!ArrayEnd, P!ObjectItem, P!ObjectInvalidKey, P!ObjectEnd, P!ItemWritten, P!Overrun, P!Return
<1>8. at' # "error"
  <2>1. CASE UNCHANGED P!wvars
    BY <1>1, <2>1 DEF P!wvars
  <2>2. CASE P!Next /\ ~P!ItemWritten
    BY <2>2, KeysKnown DEF P!Next, P!EnterTooDeep, P!Enter, P!ScanIndex, P!ScanOther, P!ScanEnd,
       P!StartObject, P!ArrayItem, P!Emit, P!ArrayEnd, P!Finish, P!ObjectItem, P!ObjectEnd, P!Overrun,
       P!Return, Writing
  <2>3. CASE P!ItemWritten
    <3>1. at' = P!Caller.kind /\ calls # <<>> /\ calls \in Seq(P!Call)
      BY <1>1, <2>3 DEF P!ItemWritten, P!Shape, P!TypeOK
    <3>2. P!Caller \in P!Call
      BY <3>1 DEF P!Caller
    <3> QED
      BY <3>1, <3>2 DEF P!Call
  <2> QED
    BY <2>1, <2>2, <2>3
<1>4. CASE P!Overrun \/ at = "undefined"
  <2>1. at' = "undefined"
    BY <1>2, <1>4, P!UndefinedStops, WriterAssumptions
  <2> QED
    BY <1>3, <1>7, <2>1 DEF Writing
<1>5. CASE ~P!Overrun /\ at # "undefined"
  <2>1. P!Progress /\ P!Kinds /\ P!Wrote
    BY <1>5 DEF Writing
  <2>2. P!Progress'
    BY <1>1, <1>2, <1>5, <2>1, P!ProgressStep, WriterAssumptions
  <2>3. P!Kinds'
    BY <1>1, <1>2, <1>5, <2>1, P!KindsStep, WriterAssumptions
  <2>4. P!Wrote'
    BY <1>1, <1>2, <1>5, <2>1, P!WroteStep, WriterAssumptions
  <2> QED
    BY <1>1, <1>3, <1>7, <1>8, <2>2, <2>3, <2>4 DEF Writing
<1> QED
  BY <1>4, <1>5

-----------------------------------------------------------------------------
(* The two together.                                                       *)

\* How deep the tables are that a layout's containers become.
Depths(l) == [k \in DOMAIN l |-> l[k].depth]

\* The writer works on what layout l of text t denotes, and on no deeper level
\* than l has.
Rewrites(t, l) ==
    /\ at # "parsing" /\ pc = "done" /\ heap = HeapOf(t, l) /\ Writing
    /\ P!Layered(heap, Depths(l)) /\ P!Levels(Depths(l))
    /\ Fits(l, Slots) => at # "undefined"

\* While a plain document is read, the reader's invariants hold and the writer has
\* not begun; from then on the writer's do, on the heap the document denotes.
Piped ==
    \A d \in PlainDocuments : text = d.text =>
        \/ at = "parsing" /\ calls = <<>> /\ out = <<>> /\ Shape /\ Balanced /\ DocumentsRead
        \/ Rewrites(d.text, d.layout)

\* What a plain document leaves is its first table.
LEMMA DocumentValue ==
    ASSUME NEW d \in PlainDocuments, d.text \in Texts
    PROVE  ValueAt(d.text, d.layout, 1) = Table(1)
<1> PICK t, l : t = d.text /\ l = d.layout
  OBVIOUS
<1>1. IsLayout(t, l) /\ l # <<>>
  BY LayoutAssumption DEF PlainDocuments, Plain
<1>2. Len(l) \in Nat /\ DOMAIN l = 1 .. Len(l) /\ Len(l) # 0
  <2>1. l \in Layouts
    BY <1>1 DEF IsLayout
  <2> QED
    BY <1>1, <2>1 DEF Layouts
<1>3. 1 \in DOMAIN l /\ l[1].open \in Nat \ {0} /\ Opens(t, l[1].open)
  BY <1>1, <1>2, LayoutTypes
<1>4. IsValue(t, l, 1, 1) /\ Behind(t, l, 1) = Len(t) + 1
  BY <1>1 DEF IsLayout
<1>5. l[1].open <= Len(t) /\ Len(t) \in Nat
  <2>1. t \in Seq(Lexeme)
    BY TextsAssumption
  <2>2. l[1].open <= Len(t)
    BY <1>3 DEF Opens, At
  <2> QED
    BY <2>1, <2>2
<1>6. CASE ~Opens(t, 1) /\ Behind(t, l, 1) = 1 + 1
  <2>1. l[1].open = 1
    BY <1>3, <1>4, <1>5, <1>6
  <2> QED
    BY <1>3, <1>6, <2>1
<1>7. CASE \E k \in DOMAIN l : l[k].open = 1 /\ ValueAt(t, l, 1) = Table(k)
  <2>1. PICK k \in DOMAIN l : l[k].open = 1 /\ ValueAt(t, l, 1) = Table(k)
    BY <1>7
  <2>2. k = 1
    <3>1. 1 < k => l[1].open < l[k].open
      BY <1>1, <1>3 DEF IsLayout
    <3> QED
      BY <1>2, <1>3, <2>1, <3>1
  <2> QED
    BY <2>1, <2>2
<1> QED
  BY <1>1, <1>4, <1>6, <1>7, ValueIs

\* A table that a member of a container is lies one level below it, and the first
\* one is the outermost.
LEMMA DocumentLayered ==
    ASSUME NEW d \in PlainDocuments, d.text \in Texts
    PROVE  P!Layered(HeapOf(d.text, d.layout), Depths(d.layout))
<1> PICK t, l : t = d.text /\ l = d.layout
  OBVIOUS
<1>1. IsLayout(t, l) /\ ValueAt(t, l, 1) = Table(1)
  BY LayoutAssumption, DocumentValue DEF PlainDocuments
<1>2. /\ DOMAIN HeapOf(t, l) = DOMAIN l /\ Depths(l) \in [DOMAIN l -> Nat]
      /\ \A k \in DOMAIN l : Depths(l)[k] = l[k].depth
  BY <1>1, LayoutTypes DEF HeapOf, Depths
<1>3. \A j, k : Table(j) = Table(k) => j = k
  BY DEF Table
<1>4. \A x : Scalar(x) # Table(1) /\ ~IsTable(Scalar(x))
  BY DEF Scalar, Table, Atom, Nil, IsTable
<1>5. Depths(l)[1] = 1
  <2>1. IsValue(t, l, 1, 1)
    BY <1>1 DEF IsLayout
  <2>2. PICK k \in DOMAIN l : l[k].depth = 1 /\ ValueAt(t, l, 1) = Table(k)
    BY <1>1, <1>4, <2>1, ValueIs
  <2>3. k = 1
    BY <1>1, <1>3, <2>2
  <2> QED
    BY <1>2, <2>2, <2>3
<1>6. ASSUME NEW k \in DOMAIN l, NEW e \in HeapOf(t, l)[k], IsTable(e[2])
      PROVE  Depths(l)[e[2].id] = Depths(l)[k] + 1
  <2>1. PICK j \in 1 .. Len(l[k].values) : IsEntry(t, l, k, j, e)
    BY HeapEntries
  <2>2. e[2] = ValueAt(t, l, l[k].values[j])
    BY <2>1 DEF IsEntry
  <2>3. IsValue(t, l, l[k].values[j], l[k].depth + 1)
    BY <1>1, MemberIs DEF Member
  <2>4. PICK m \in DOMAIN l : l[m].depth = l[k].depth + 1 /\ e[2] = Table(m)
    BY <1>1, <1>4, <1>6, <2>2, <2>3, ValueIs
  <2>5. e[2].id = m
    BY <2>4 DEF Table
  <2> QED
    BY <1>2, <2>4, <2>5
<1>7. \A k \in DOMAIN l : \A e \in HeapOf(t, l)[k] : P!IsTable(e[2]) => Depths(l)[e[2].id] = Depths(l)[k] + 1
  BY <1>6, SameValues
<1> QED
  BY <1>2, <1>5, <1>7 DEF P!Layered

\* A plain document that has been read is handed to the writer, unless it was nested
\* too deep for the reader.
LEMMA HandedOver ==
    ASSUME NEW d \in PlainDocuments, text = d.text, Shape, DocumentsRead, pc \in {"done", "error"}
    PROVE  /\ pc = "done" /\ Slot(1) = Table(1) /\ heap = HeapOf(d.text, d.layout)
           /\ heap \in DocumentHeaps
<1>1. text \in Texts /\ ReadsDocument /\ d \in Documents
  BY DocumentsReadResult DEF Shape, TypeOK, PlainDocuments
<1>2. pc = "done" /\ stack = <<ValueAt(d.text, d.layout, 1)>> /\ heap = HeapOf(d.text, d.layout)
  BY <1>1 DEF ReadsDocument, Final
<1>3. stack = <<Table(1)>>
  BY <1>1, <1>2, DocumentValue
<1>4. Slot(1) = Table(1)
  BY <1>3 DEF Slot
<1> QED
  BY <1>2, <1>4 DEF DocumentHeaps

\* The pipeline starts in the first of the two.
LEMMA PipedInit == ConversionInit => Piped
<1> SUFFICES ASSUME ConversionInit PROVE Piped
  OBVIOUS
<1>1. Init /\ at = "parsing" /\ calls = <<>> /\ out = <<>>
  BY DEF ConversionInit
<1>2. Shape
  BY <1>1 DEF Init, Shape, TypeOK, InContainer, TablesStayPut, Running, Final
<1>3. Balanced
  BY <1>1, DepthAssumption DEF Init, Balanced, StackBalanced, OutsideBalanced, DepthBounded, Running
<1>4. DocumentsRead
  BY <1>1, DocumentsReadInit
<1> QED
  BY <1>1, <1>2, <1>3, <1>4 DEF Piped

\* A step keeps to one of the two or goes from the first to the second.
LEMMA PipedStep == Piped /\ [ConversionNext]_cvars => Piped'
<1> SUFFICES ASSUME Piped, [ConversionNext]_cvars, NEW d \in PlainDocuments, text' = d.text
             PROVE  \/ /\ at' = "parsing" /\ calls' = <<>> /\ out' = <<>>
                       /\ Shape' /\ Balanced' /\ DocumentsRead'
                    \/ Rewrites(d.text, d.layout)'
  BY Zenon DEF Piped
<1>1. text = d.text
  BY DEF ConversionNext, cvars, Parse, Convert, NothingToConvert, Write, Next, ParseScalar, OpenTable,
         Opened, ArrayItem, ObjectKey, ObjectColon, StoreElement, StoreMember, Separator, Overrun, Return
<1>4. ASSUME d.text \in Texts PROVE P!Layered(HeapOf(d.text, d.layout), Depths(d.layout))
  BY <1>4, DocumentLayered
<1>2. CASE at = "parsing" /\ calls = <<>> /\ out = <<>> /\ Shape /\ Balanced /\ DocumentsRead
  <2>1. CASE Parse \/ UNCHANGED cvars
    <3>1. [Next]_vars /\ UNCHANGED <<calls, at, out>>
      BY <2>1 DEF Parse, cvars, vars
    <3> QED
      BY <1>2, <3>1, ShapeStep, BalancedStep, DocumentsReadStep
  <2>2. CASE Convert
    <3>1. /\ stack' = <<Slot(1)>> /\ at' = "enter" /\ UNCHANGED <<heap, calls, out>> /\ pc = "done"
          /\ pc' = pc
      BY <2>2 DEF Convert
    <3>2. Slot(1) = Table(1) /\ heap = HeapOf(d.text, d.layout) /\ heap \in DocumentHeaps
      BY <1>1, <1>2, <3>1, HandedOver
    <3>3. P!Init'
      BY <1>2, <3>1, <3>2, SameValues DEF P!Init
    <3>4. P!Init' => Writing'
      BY WriterBegins, PTL
    <3>6. P!Layered(heap, Depths(d.layout))'
      BY <1>1, <1>2, <1>4, <3>1, <3>2 DEF Shape, TypeOK
    <3>5. P!Levels(Depths(d.layout))'
      <4>1. Len(calls') = 0 /\ stack'[Len(stack')] = Table(1) /\ Len(stack') = 1
        BY <1>2, <3>1, <3>2
      <4>2. P!FromTop(1)' = Table(1)
        BY <4>1 DEF P!FromTop
      <4>3. Depths(d.layout)[1] = 1
        BY <1>1, <1>2, <1>4 DEF P!Layered, Shape, TypeOK
      <4> QED
        BY <4>1, <4>2, <4>3 DEF P!Levels, Table
    <3> QED
      BY <3>1, <3>2, <3>3, <3>4, <3>5, <3>6 DEF Rewrites
  <2>3. ~NothingToConvert
    <3> SUFFICES ASSUME NothingToConvert PROVE FALSE
      OBVIOUS
    <3>1. pc \in {"done", "error"} /\ (pc = "error" \/ ~IsTable(Slot(1)))
      BY DEF NothingToConvert
    <3>2. pc = "done" /\ Slot(1) = Table(1)
      BY <1>1, <1>2, <3>1, HandedOver
    <3> QED
      BY <3>1, <3>2 DEF IsTable, Table
  <2>4. ~Write
    BY <1>2 DEF Write
  <2> QED
    BY <2>1, <2>2, <2>3, <2>4 DEF ConversionNext
<1>3. CASE Rewrites(d.text, d.layout)
  <2>0. /\ at # "parsing" /\ pc = "done" /\ heap = HeapOf(d.text, d.layout) /\ Writing
        /\ P!Layered(heap, Depths(d.layout)) /\ P!Levels(Depths(d.layout))
        /\ P!Shape /\ heap \in DocumentHeaps
        /\ Fits(d.layout, Slots) => at # "undefined"
    BY <1>3 DEF Rewrites, Writing
  <2>1. Write \/ UNCHANGED cvars
    BY <2>0 DEF ConversionNext, Parse, Convert, NothingToConvert
  <2>2. (P!Next \/ UNCHANGED P!wvars) /\ pc' = pc
    BY <2>1, WriterSteps DEF Write, cvars, P!wvars
  <2>3. Writing' /\ heap' = heap
    <3>1. heap' = heap
      BY <2>2 DEF P!Next, P!wvars, P!EnterTooDeep, P!Enter, P!ScanIndex, P!ScanOther, P!ScanEnd,
         P!ArrayItem, P!ArrayEnd, P!ObjectItem, P!ObjectInvalidKey, P!ObjectEnd, P!ItemWritten, P!Overrun, P!Return
    <3> QED
      BY <2>0, <2>2, <3>1, WriterStep
  <2>4. at' # "parsing"
    BY <2>3 DEF Writing, P!Shape, P!TypeOK
  <2>5. P!Levels(Depths(d.layout))'
    BY <2>0, <2>2, P!LevelsStep, WriterAssumptions
  <2>6. ASSUME Fits(d.layout, Slots) PROVE at' # "undefined"
    <3>1. \A j \in DOMAIN heap : 2 * Depths(d.layout)[j] + 1 <= Slots
      BY <2>0, <2>6 DEF Fits, Depths, HeapOf
    <3>2. ~P!Overrun
      BY <2>0, <3>1, P!LevelsFit, WriterAssumptions
    <3> QED
      BY <2>0, <2>2, <2>6, <3>2, P!UndefinedMeans, WriterAssumptions
  <2> QED
    BY <2>0, <2>2, <2>3, <2>4, <2>5, <2>6 DEF Rewrites
<1> QED
  BY <1>1, <1>2, <1>3 DEF Piped

\* Reading a plain document and writing it back raises no error, whatever its size
\* and its nesting within the reader's limit, and whatever order lua_next visits its
\* tables in: what comes out is a JSON text of what the document denotes.  It comes
\* out if the document's levels fit in the slots of the two: parse_json's C function
\* has 20, which is nine levels.
THEOREM ConvertsBackAlways == ConversionSpec => []ConvertsBack
<1>1. Piped => ConvertsBack
  <2> SUFFICES ASSUME Piped, NEW d \in PlainDocuments, text = d.text
               PROVE  /\ at \notin {"skipped", "error"}
                      /\ at = "done" => out \in W!TableTexts(HeapOf(text, d.layout))[MaxNesting + 1][1]
                      /\ Fits(d.layout, MinStack) => pc # "undefined"
                      /\ Fits(d.layout, Slots) => at # "undefined"
    BY DEF ConvertsBack
  <2>1. CASE at = "parsing" /\ Shape /\ DocumentsRead
    <3>1. d \in Documents
      BY DEF PlainDocuments
    <3> QED
      BY <2>1, <3>1 DEF DocumentsRead, Running
  <2>2. CASE Rewrites(d.text, d.layout)
    <3>1. /\ Writing /\ heap = HeapOf(d.text, d.layout) /\ pc = "done"
          /\ Fits(d.layout, Slots) => at # "undefined"
      BY <2>2 DEF Rewrites
    <3>2. at \notin {"skipped", "error"}
      BY <3>1 DEF Writing, P!Shape, P!TypeOK
    <3>3. at = "done" => out \in P!TableTexts(heap)[MaxNesting + 1][1]
      BY <3>1 DEF Writing, P!Wrote
    <3> QED
      BY <3>1, <3>2, <3>3, WriterTexts
  <2> QED
    BY <2>1, <2>2 DEF Piped
<1> QED
  BY <1>1, PipedInit, PipedStep, PTL DEF ConversionSpec
=============================================================================
